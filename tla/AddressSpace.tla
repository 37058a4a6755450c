---------------------------- MODULE AddressSpace ----------------------------
(***************************************************************************)
(* The memory of processes (kernel/src/process.rs: alloc, alloc_at,        *)
(* dealloc; the memory system calls of syscall.rs; page/table.rs,          *)
(* shared_memory.rs, virtual_memory.rs and the page fault handler).        *)
(*                                                                         *)
(* Memory is counted in pages.  The page table is the function from pages  *)
(* to frames that its three levels implement: map() and unmap() write one  *)
(* leaf per page, or one larger leaf where everything is aligned.  A       *)
(* process's heap hands out any pages it has not handed out (module Buddy),*)
(* the kernel's any frame nobody owns.  Private and shared allocations are *)
(* one page long, a file is several, loaded one by one.                    *)
(***************************************************************************)
EXTENDS Naturals

CONSTANTS
  Process,      \* the processes there may be
  Frame,        \* physical pages
  HEAP_PAGES,   \* number of pages in a process's heap
  File,         \* regions of the drive mapped on demand
  FILE_PAGES,   \* number of pages of each
  None          \* no frame, no process

ASSUME SpaceAssumption ==
  /\ HEAP_PAGES \in Nat /\ FILE_PAGES \in Nat \ {0}
  /\ None \notin Frame \cup Process

STACK == 0
HeapPage == 1 .. HEAP_PAGES
Page == {STACK} \cup HeapPage

VARIABLES
  lifetime,     \* of each process: "unborn", "spawned" until it runs for the
                \* first time, "alive", "finished" or "gone"
  current,      \* the process that runs, None while the kernel looks for one
  heap,         \* of each process, the pages its heap has handed out
  page_table,   \* of each process, the frame of each page
  allocated,    \* of each process, its own allocations
  mappings,     \* of each process, its virtual_memory_mappings
  shared,       \* the frames of shared memory, which handlers keep for ever
  backed_pages, \* of each file, the pages that were loaded
  tlb,          \* translations the hart has cached
  panicked      \* whether an assertion of the kernel failed, and which

tables == <<heap, page_table, allocated, mappings>>
vars == <<lifetime, current, tables, shared, backed_pages, tlb, panicked>>

Allocation == [virt : Page, backing : Frame]
Mapping == [start : HeapPage, file : File]
BackedPage == [index : 0 .. FILE_PAGES - 1, frame : Frame]

Lifetime == {"unborn", "spawned", "alive", "finished", "gone"}

\* The frames that are in use; any other is free, or the kernel's own.
Backing(p) == {a.backing : a \in allocated[p]}
FileFrames == {b.frame : b \in UNION {backed_pages[f] : f \in File}}
FreeFrames == Frame \ (shared \cup FileFrames \cup UNION {Backing(p) : p \in Process})

\* The frames a page table can reach, and the pages of a mapping.
Reaches(p) == {page_table[p][v] : v \in Page} \ {None}
Pages(m) == m.start .. m.start + FILE_PAGES - 1

Init ==
  /\ lifetime = [p \in Process |-> "unborn"]
  /\ current = None
  /\ heap = [p \in Process |-> {}]
  /\ page_table = [p \in Process |-> [v \in Page |-> None]]
  /\ allocated = [p \in Process |-> {}]
  /\ mappings = [p \in Process |-> {}]
  /\ shared = {}
  /\ backed_pages = [f \in File |-> {}]
  /\ tlb = {}
  /\ panicked = "no"

-----------------------------------------------------------------------------

Running(p) == current = p /\ panicked = "no"

panic(assertion) ==
  /\ panicked' = assertion
  /\ UNCHANGED <<lifetime, current, tables, shared, backed_pages, tlb>>

kill ==
  /\ lifetime' = [lifetime EXCEPT ![current] = "finished"]
  /\ current' = None
  /\ UNCHANGED <<tables, shared, backed_pages, tlb, panicked>>

\* What sfence_vma_all leaves of the cached translations.  (Mutant: all.)
not_fenced == tlb
sfence_vma_all == {}

\* PageTable::map of one page; map_leaf asserts that it is free.
map(p, virt, phys) == page_table' = [page_table EXCEPT ![p][virt] = phys]

\* PageTable::unmap of one page.  (Mutant: the leaf stays.)
leaf_kept(table, virt) == table
unmap(table, virt) == [table EXCEPT ![virt] = None]

\* Process::alloc: a page of the heap, mapped to a frame the process owns.
\* `kept' are the frames a handler holds a second reference to.
process_alloc(p, phys, kept) ==
  \E virt \in HeapPage \ heap[p] :
    IF page_table[p][virt] # None
    THEN panic("leaf already mapped")
    ELSE /\ heap' = [heap EXCEPT ![p] = @ \cup {virt}]
         /\ map(p, virt, phys)
         /\ allocated' = [allocated EXCEPT ![p] = @ \cup {[virt |-> virt, backing |-> phys]}]
         /\ shared' = shared \cup kept
         /\ tlb' = sfence_vma_all
         /\ UNCHANGED <<lifetime, current, mappings, backed_pages, panicked>>

alloc(p) ==
  /\ Running(p)
  /\ \E phys \in FreeFrames : process_alloc(p, phys, {})

alloc_shared(p) ==
  /\ Running(p)
  /\ \E phys \in FreeFrames : process_alloc(p, phys, {phys})

\* map_shared, and the mapping of a stream when its reader is resumed.  The
\* heap keeps the page and nothing records it, so that it cannot be freed.
map_shared(p, phys) ==
  /\ Running(p) /\ phys \in shared
  /\ \E virt \in HeapPage \ heap[p] :
       IF page_table[p][virt] # None
       THEN panic("leaf already mapped")
       ELSE /\ heap' = [heap EXCEPT ![p] = @ \cup {virt}]
            /\ map(p, virt, phys)
            /\ tlb' = sfence_vma_all
            /\ UNCHANGED <<lifetime, current, allocated, mappings, shared, backed_pages, panicked>>

\* map_shared of a file: the pages that were loaded before are mapped one
\* after the other, the others wait for a page fault.
map_file(p, file) ==
  /\ Running(p)
  /\ \E m \in [start : HeapPage, file : {file}] :
       /\ Pages(m) \subseteq HeapPage \ heap[p]
       /\ IF \/ \E v \in Pages(m) : page_table[p][v] # None
             \/ \E a, b \in backed_pages[file] : a # b /\ a.index = b.index
          THEN panic("leaf already mapped")
          ELSE /\ heap' = [heap EXCEPT ![p] = @ \cup Pages(m)]
               /\ page_table' = [page_table EXCEPT ![p] = [v \in Page |->
                    IF \E b \in backed_pages[file] : v = m.start + b.index
                    THEN (CHOOSE b \in backed_pages[file] : v = m.start + b.index).frame
                    ELSE @[v]]]
               /\ mappings' = [mappings EXCEPT ![p] = @ \cup {m}]
               /\ tlb' = sfence_vma_all
               /\ UNCHANGED <<lifetime, current, allocated, shared, backed_pages, panicked>>

\* The record of an allocation is removed.  (Mutant: another one is.)
any_removed(records, a) == records \ {CHOOSE b \in records : TRUE}
swap_remove(records, a) == records \ {a}

\* Process::dealloc, without a fence.  The stack is among the allocations, but
\* not of the heap, which subtracts its own start from the address.
free(p, virt) ==
  LET slot == {a \in allocated[p] : a.virt = virt}
  IN  /\ Running(p)
      /\ \/ slot = {} /\ kill
         \/ \E a \in slot :
              IF page_table[p][virt] # a.backing THEN panic("another frame unmapped")
              ELSE IF virt = STACK THEN panic("free outside of the heap")
              ELSE /\ allocated' = [allocated EXCEPT ![p] = swap_remove(@, a)]
                   /\ page_table' = [page_table EXCEPT ![p] = unmap(@, virt)]
                   /\ heap' = [heap EXCEPT ![p] = @ \ {virt}]
                   /\ UNCHANGED <<lifetime, current, mappings, shared, backed_pages, tlb, panicked>>

\* The page of a file an address lies in.
page_index(virt, start) == virt - start

\* handle_page_fault: an address in a mapping that is not loaded is loaded, by
\* each process for itself; any other is a forbidden access (see Kernel).
handle_page_fault(p, virt) ==
  LET vmm == {m \in mappings[p] : virt \in Pages(m) /\ page_table[p][virt] = None}
  IN  /\ Running(p)
      /\ \/ vmm = {} /\ panic("forbidden access")
         \/ \E m \in vmm, phys \in FreeFrames :
              /\ map(p, virt, phys)
              /\ backed_pages' = [backed_pages EXCEPT ![m.file] =
                   @ \cup {[index |-> page_index(virt, m.start), frame |-> phys]}]
              /\ tlb' = sfence_vma_all
              /\ UNCHANGED <<lifetime, current, heap, allocated, mappings, shared, panicked>>

\* The hart caches a translation it uses (external).
translate(p, virt) ==
  /\ Running(p) /\ page_table[p][virt] # None
  /\ tlb' = tlb \cup {[virt |-> virt, backing |-> page_table[p][virt]]}
  /\ UNCHANGED <<lifetime, current, tables, shared, backed_pages, panicked>>

\* create_process, in a system call of the process that runs or at boot,
\* without a fence: its stack stands for all it is given before it runs.
create_process(p) ==
  /\ panicked = "no" /\ lifetime[p] = "unborn"
  /\ lifetime' = [lifetime EXCEPT ![p] = "spawned"]
  /\ \E phys \in FreeFrames :
       /\ map(p, STACK, phys)
       /\ allocated' = [allocated EXCEPT ![p] = {[virt |-> STACK, backing |-> phys]}]
  /\ UNCHANGED <<current, heap, mappings, shared, backed_pages, tlb, panicked>>

exit(p) == Running(p) /\ kill

\* A process waits or yields: the kernel looks for another, still in its
\* address space.
yield(p) ==
  /\ Running(p)
  /\ current' = None
  /\ UNCHANGED <<lifetime, tables, shared, backed_pages, tlb, panicked>>

set_userspace_process(p) ==
  /\ current = None /\ panicked = "no" /\ lifetime[p] \in {"spawned", "alive"}
  /\ current' = p
  /\ lifetime' = [lifetime EXCEPT ![p] = "alive"]
  /\ tlb' = sfence_vma_all
  /\ UNCHANGED <<tables, shared, backed_pages, panicked>>

\* The scheduler empties the slot: page table and allocations are dropped.
reap(p) ==
  /\ current = None /\ panicked = "no" /\ lifetime[p] = "finished"
  /\ lifetime' = [lifetime EXCEPT ![p] = "gone"]
  /\ heap' = [heap EXCEPT ![p] = {}]
  /\ page_table' = [page_table EXCEPT ![p] = [v \in Page |-> None]]
  /\ allocated' = [allocated EXCEPT ![p] = {}]
  /\ mappings' = [mappings EXCEPT ![p] = {}]
  /\ UNCHANGED <<current, shared, backed_pages, tlb, panicked>>

-----------------------------------------------------------------------------

Next ==
  \E p \in Process :
    \/ alloc(p)
    \/ alloc_shared(p)
    \/ \E phys \in shared : map_shared(p, phys)
    \/ \E file \in File : map_file(p, file)
    \/ \E virt \in Page : free(p, virt)
    \/ \E virt \in Page : handle_page_fault(p, virt)
    \/ \E virt \in Page : translate(p, virt)
    \/ create_process(p)
    \/ exit(p)
    \/ yield(p)
    \/ set_userspace_process(p)
    \/ reap(p)

Spec == Init /\ [][Next]_vars

-----------------------------------------------------------------------------
(* Properties.                                                             *)

TypeOK ==
  /\ lifetime \in [Process -> Lifetime]
  /\ current \in Process \cup {None}
  /\ heap \in [Process -> SUBSET HeapPage]
  /\ page_table \in [Process -> [Page -> Frame \cup {None}]]
  /\ \A p \in Process : allocated[p] \subseteq Allocation
  /\ \A p \in Process : mappings[p] \subseteq Mapping
  /\ shared \subseteq Frame
  /\ \A f \in File : backed_pages[f] \subseteq BackedPage
  /\ tlb \subseteq Allocation
  /\ panicked \in {"no", "leaf already mapped", "another frame unmapped",
                   "free outside of the heap", "forbidden access"}

\* Memory that is not shared is nobody else's: two processes reach the same
\* frame only if it is shared memory or the page of a file, and no page table
\* reaches a frame that was given back.
MemoryIsolated ==
  \A p \in Process :
    /\ Reaches(p) \cap FreeFrames = {}
    /\ \A q \in Process \ {p} : Reaches(p) \cap Reaches(q) \subseteq shared \cup FileFrames

\* What a process may free is mapped where it was put, and no two of its
\* allocations, mappings or pieces of shared memory lie on each other: the
\* heap knows of every page that is mapped.
AllocationsMapped ==
  \A p \in Process :
    /\ \A a \in allocated[p] : page_table[p][a.virt] = a.backing
    /\ \A v \in HeapPage : page_table[p][v] # None => v \in heap[p]
    /\ \A m \in mappings[p] : Pages(m) \cap {a.virt : a \in allocated[p]} = {}

\* In the pages of a mapping a process finds the pages of that file, in order.
FilesInPlace ==
  \A p \in Process : \A m \in mappings[p] : \A v \in Pages(m) :
    page_table[p][v] # None =>
      [index |-> v - m.start, frame |-> page_table[p][v]] \in backed_pages[m.file]

\* A page leads where it was mapped to, whatever was allocated, mapped, freed and
\* loaded before.
PagesInPlace == TypeOK /\ AllocationsMapped /\ FilesInPlace

\* A frame that is a process's alone: neither shared memory nor a file's page.
PrivateTo(q, phys) == phys \in Reaches(q) \ (shared \cup FileFrames)

\* What the missing fence of free leaves to the process that runs.  A cached
\* translation never contradicts the page table: it is the page's own, or that
\* of a page freed since the last fence, with nothing in its place.  The frame of
\* such a page, which the process can still read and write, may be in other
\* hands: those of the kernel, or, as the code does not prevent, of a process
\* spawned since.  It is not the private memory of any process that has run.
TranslationsAgree ==
  \A p \in Process : current = p =>
    \A t \in tlb :
      \/ page_table[p][t.virt] = t.backing
      \/ /\ page_table[p][t.virt] = None
         /\ \A q \in Process \ {p} : PrivateTo(q, t.backing) => lifetime[q] = "spawned"

=============================================================================
