------------------------- MODULE AddressSpaceProofs -------------------------
(***************************************************************************)
(* Proofs about the memory of processes, for any number of processes,      *)
(* frames, heap pages and files.                                           *)
(***************************************************************************)
EXTENDS AddressSpace, TLAPS

PanicReason ==
  {"no", "leaf already mapped", "another frame unmapped",
   "free outside of the heap", "forbidden access"}

\* TypeOK, and every process and file has an entry in every table.
SpaceType ==
  /\ lifetime \in [Process -> Lifetime]
  /\ current \in Process \cup {None}
  /\ heap \in [Process -> SUBSET HeapPage]
  /\ page_table \in [Process -> [Page -> Frame \cup {None}]]
  /\ allocated \in [Process -> SUBSET Allocation]
  /\ mappings \in [Process -> SUBSET Mapping]
  /\ shared \in SUBSET Frame
  /\ backed_pages \in [File -> SUBSET BackedPage]
  /\ tlb \in SUBSET Allocation
  /\ panicked \in PanicReason

\* The heap knows of the pages of every mapping, and no two mappings of a
\* process share one.
MappingsApart ==
  \A p \in Process : \A m \in mappings[p] :
    /\ Pages(m) \subseteq heap[p]
    /\ \A n \in mappings[p] : \A v \in Pages(m) : v \in Pages(n) => m = n

\* A page leads to a frame the process allocated for this very page, to shared
\* memory or to a file.
FramesOwned ==
  \A p \in Process : \A v \in Page :
    page_table[p][v] # None =>
      \/ [virt |-> v, backing |-> page_table[p][v]] \in allocated[p]
      \/ page_table[p][v] \in shared \cup FileFrames

\* No frame is allocated by two processes.
BackingsApart ==
  \A p, q \in Process : \A a \in allocated[p], b \in allocated[q] :
    a.backing = b.backing => p = q

\* A process that is yet to be created has nothing mapped, one that runs lives.
Lives ==
  /\ \A p \in Process : lifetime[p] = "unborn" => \A v \in Page : page_table[p][v] = None
  /\ current # None => lifetime[current] = "alive"

Tables == SpaceType /\ AllocationsMapped /\ FilesInPlace /\ MappingsApart
Owners == FramesOwned /\ BackingsApart
SpaceInv == Tables /\ Owners /\ Lives /\ TranslationsAgree

USE SpaceAssumption

-----------------------------------------------------------------------------
(* Lemmas about pages and frames. *)

LEMMA PageFacts ==
  /\ STACK \in Page /\ HeapPage \subseteq Page
  /\ STACK \notin HeapPage
  /\ \A v \in Page : v \in Nat
BY DEF STACK, HeapPage, Page

LEMMA PagesFacts ==
  ASSUME NEW m \in Mapping
  PROVE  /\ m.start \in HeapPage /\ m.file \in File
         /\ \A v : v \in Pages(m) <=>
              v \in Nat /\ v - m.start \in 0 .. FILE_PAGES - 1 /\ v = m.start + (v - m.start)
BY DEF Mapping, HeapPage, Pages

LEMMA FreeFacts ==
  ASSUME NEW phys \in FreeFrames
  PROVE  /\ phys \in Frame /\ phys # None
         /\ phys \notin shared /\ phys \notin FileFrames
         /\ \A p \in Process : \A a \in allocated[p] : a.backing # phys
BY DEF FreeFrames, Backing

\* What leaves the tables alone keeps the invariant.
LEMMA TablesSame ==
  ASSUME Tables, UNCHANGED <<tables, shared, backed_pages>>,
         lifetime' \in [Process -> Lifetime],
         current' \in Process \cup {None}, tlb' \in SUBSET Allocation,
         panicked' \in PanicReason
  PROVE  Tables'
<1>1. SpaceType'
  BY DEF Tables, SpaceType, tables
<1>2. AllocationsMapped' /\ FilesInPlace' /\ MappingsApart'
  BY DEF Tables, tables, AllocationsMapped, FilesInPlace, MappingsApart
<1> QED  BY <1>1, <1>2 DEF Tables

LEMMA OwnersSame ==
  ASSUME Owners, UNCHANGED <<page_table, allocated, shared, backed_pages>>
  PROVE  Owners'
<1>1. FileFrames' = FileFrames
  BY DEF FileFrames
<1> QED  BY <1>1 DEF Owners, FramesOwned, BackingsApart

\* Whose a private frame is depends on its page table and on what is shared.
LEMMA PrivateSame ==
  ASSUME NEW q \in Process, page_table'[q] = page_table[q],
         UNCHANGED <<shared, backed_pages>>
  PROVE  \A f : PrivateTo(q, f)' <=> PrivateTo(q, f)
<1>1. FileFrames' = FileFrames
  BY DEF FileFrames
<1>2. Reaches(q)' = Reaches(q)
  BY DEF Reaches
<1> QED  BY <1>1, <1>2 DEF PrivateTo

\* Translations that agreed still do when nothing is unmapped or handed over.
LEMMA TranslationsSame ==
  ASSUME SpaceInv, UNCHANGED <<lifetime, current, page_table, shared, backed_pages, tlb>>
  PROVE  TranslationsAgree'
<1>1. \A q \in Process : \A f : PrivateTo(q, f)' <=> PrivateTo(q, f)
  BY PrivateSame
<1> QED  BY <1>1 DEF SpaceInv, TranslationsAgree

LEMMA InvImpliesIsolated == SpaceInv => MemoryIsolated
<1> SUFFICES ASSUME SpaceInv, NEW p \in Process
             PROVE  /\ \A f \in Reaches(p) : f \notin FreeFrames
                    /\ \A q \in Process \ {p} : \A f \in Reaches(p) :
                         f \in Reaches(q) => f \in shared \cup FileFrames
  BY DEF MemoryIsolated
<1>1. \A q \in Process : \A f \in Reaches(q) :
        (\E a \in allocated[q] : a.backing = f) \/ f \in shared \cup FileFrames
  <2> SUFFICES ASSUME NEW q \in Process, NEW v \in Page, page_table[q][v] # None
               PROVE  \/ \E a \in allocated[q] : a.backing = page_table[q][v]
                      \/ page_table[q][v] \in shared \cup FileFrames
    BY DEF Reaches
  <2>1. CASE [virt |-> v, backing |-> page_table[q][v]] \in allocated[q]
    BY <2>1
  <2>2. CASE page_table[q][v] \in shared \cup FileFrames
    BY <2>2
  <2> QED  BY <2>1, <2>2 DEF SpaceInv, Owners, FramesOwned
<1>2. \A f \in Reaches(p) : f \notin FreeFrames
  BY <1>1 DEF FreeFrames, Backing
<1>3. \A q \in Process \ {p} : \A f \in Reaches(p) :
        f \in Reaches(q) => f \in shared \cup FileFrames
  BY <1>1 DEF SpaceInv, Owners, BackingsApart
<1> QED  BY <1>2, <1>3

LEMMA PanicKeeps ==
  ASSUME SpaceInv, NEW reason \in PanicReason, panic(reason)
  PROVE  SpaceInv'
<1>1. Tables'
  BY TablesSame DEF SpaceInv, panic, Tables, SpaceType
<1>2. Owners'
  BY OwnersSame DEF SpaceInv, panic, tables
<1>3. TranslationsAgree'
  BY TranslationsSame DEF panic, tables
<1> QED  BY <1>1, <1>2, <1>3 DEF SpaceInv, panic, Lives, tables

LEMMA KillKeeps ==
  ASSUME SpaceInv, NEW p \in Process, Running(p), kill
  PROVE  SpaceInv'
<1>1. Tables'
  <2>1. lifetime' \in [Process -> Lifetime]
    BY DEF SpaceInv, Tables, SpaceType, Lifetime, kill, Running
  <2> QED  BY <2>1, TablesSame DEF SpaceInv, kill, Tables, SpaceType
<1>2. Owners'
  BY OwnersSame DEF SpaceInv, kill, tables
<1>3. Lives'
  BY DEF SpaceInv, Tables, SpaceType, Lives, kill, Running, tables
<1>4. TranslationsAgree'
  BY DEF kill, TranslationsAgree
<1> QED  BY <1>1, <1>2, <1>3, <1>4 DEF SpaceInv

-----------------------------------------------------------------------------
(* One lemma per operation. *)

\* A page the heap had not handed out is mapped to a frame `phys', which the
\* process allocates or a handler holds already.
LEMMA MapFreshKeeps ==
  ASSUME SpaceInv, NEW p \in Process, Running(p), NEW phys \in Frame,
         NEW virt \in HeapPage \ heap[p],
         NEW new \in SUBSET {[virt |-> virt, backing |-> phys]},
         heap' = [heap EXCEPT ![p] = @ \cup {virt}],
         map(p, virt, phys),
         allocated' = [allocated EXCEPT ![p] = @ \cup new],
         shared' \in SUBSET Frame, shared \subseteq shared',
         new = {} => phys \in shared,
         new # {} => phys \in FreeFrames,
         tlb' = sfence_vma_all,
         UNCHANGED <<lifetime, current, mappings, backed_pages, panicked>>
  PROVE  SpaceInv'
<1> USE DEF SpaceInv, Tables, Owners
<1>0. /\ virt \in Page /\ virt # STACK /\ p # None /\ phys # None
      /\ [virt |-> virt, backing |-> phys] \in Allocation
  BY PageFacts DEF SpaceType, Allocation
<1>1. SpaceType'
  BY <1>0 DEF SpaceType, map, sfence_vma_all
<1>2. /\ page_table'[p][virt] = phys
      /\ \A v \in Page \ {virt} : page_table'[p][v] = page_table[p][v]
      /\ \A q \in Process \ {p} : page_table'[q] = page_table[q]
  BY <1>0 DEF SpaceType, map
<1>3. /\ heap'[p] = heap[p] \cup {virt}
      /\ \A q \in Process \ {p} : heap'[q] = heap[q]
  BY DEF SpaceType
<1>4. /\ allocated'[p] = allocated[p] \cup new
      /\ \A q \in Process \ {p} : allocated'[q] = allocated[q]
  BY DEF SpaceType
<1>5. /\ \A a \in allocated[p] : a.virt \in Page \ {virt}
      /\ \A m \in mappings[p] : virt \notin Pages(m)
  <2>1. page_table[p][virt] = None
    BY <1>0 DEF AllocationsMapped
  <2>2. \A a \in allocated[p] : a.virt \in Page /\ a.backing # None
    BY DEF SpaceType, Allocation
  <2> QED  BY <2>1, <2>2 DEF AllocationsMapped, MappingsApart
<1>6. AllocationsMapped'
  <2>1. \A q \in Process : \A a \in allocated'[q] : page_table'[q][a.virt] = a.backing
    BY <1>2, <1>4, <1>5 DEF AllocationsMapped
  <2>2. \A q \in Process : \A v \in HeapPage : page_table'[q][v] # None => v \in heap'[q]
    BY <1>2, <1>3, PageFacts DEF AllocationsMapped
  <2>3. \A q \in Process : \A m \in mappings[q] : \A a \in allocated'[q] : a.virt \notin Pages(m)
    BY <1>4, <1>5 DEF AllocationsMapped
  <2> QED  BY <2>1, <2>2, <2>3 DEF AllocationsMapped
<1>7. \A q \in Process : \A m \in mappings[q] : \A v \in Pages(m) : page_table'[q][v] = page_table[q][v]
  BY <1>2, <1>5, PageFacts DEF MappingsApart, SpaceType
<1>8. FilesInPlace'
  BY <1>7 DEF FilesInPlace
<1>9. MappingsApart'
  BY <1>3 DEF MappingsApart
<1>10. FramesOwned'
  <2>1. FileFrames' = FileFrames
    BY DEF FileFrames
  <2>2. [virt |-> virt, backing |-> phys] \in allocated'[p] \/ phys \in shared'
    BY <1>4
  <2> QED  BY <1>2, <1>4, <2>1, <2>2 DEF FramesOwned
<1>11. BackingsApart'
  <2>1. CASE new = {}
    BY <1>4, <2>1 DEF BackingsApart
  <2>2. CASE new # {}
    <3>1. \A q \in Process : \A a \in allocated[q] : a.backing # phys
      BY <2>2, FreeFacts
    <3>2. \A q \in Process : \A a \in allocated'[q] : a \in allocated[q] \/ (q = p /\ a.backing = phys)
      BY <1>4
    <3> QED  BY <3>1, <3>2 DEF BackingsApart
  <2> QED  BY <2>1, <2>2
<1>12. Lives'
  BY <1>2, <1>0 DEF Lives, Running
<1>13. TranslationsAgree'
  BY DEF TranslationsAgree, sfence_vma_all
<1> QED  BY <1>1, <1>6, <1>8, <1>9, <1>10, <1>11, <1>12, <1>13

LEMMA AllocKeeps ==
  ASSUME SpaceInv, NEW p \in Process, Running(p), NEW phys \in FreeFrames,
         NEW kept \in SUBSET {phys}, process_alloc(p, phys, kept)
  PROVE  SpaceInv'
<1>0. PICK virt \in HeapPage \ heap[p] :
        IF page_table[p][virt] # None
        THEN panic("leaf already mapped")
        ELSE /\ heap' = [heap EXCEPT ![p] = @ \cup {virt}]
             /\ map(p, virt, phys)
             /\ allocated' = [allocated EXCEPT ![p] = @ \cup {[virt |-> virt, backing |-> phys]}]
             /\ shared' = shared \cup kept
             /\ tlb' = sfence_vma_all
             /\ UNCHANGED <<lifetime, current, mappings, backed_pages, panicked>>
  BY DEF process_alloc
<1>1. CASE panic("leaf already mapped")
  BY <1>1, PanicKeeps DEF PanicReason
<1>2. CASE ~panic("leaf already mapped")
  <2>0. phys \in Frame
    BY FreeFacts
  <2>1. shared \subseteq shared' /\ shared' \in SUBSET Frame
    <3>1. shared' = shared \cup kept
      BY <1>0, <1>2
    <3> QED  BY <2>0, <3>1 DEF SpaceInv, Tables, SpaceType
  <2> DEFINE new == {[virt |-> virt, backing |-> phys]}
  <2>2. new \in SUBSET {[virt |-> virt, backing |-> phys]} /\ new # {}
    OBVIOUS
  <2>3. allocated' = [allocated EXCEPT ![p] = @ \cup new]
    BY <1>0, <1>2
  <2> HIDE DEF new
  <2> QED  BY <1>0, <1>2, <2>0, <2>1, <2>2, <2>3, MapFreshKeeps
<1> QED  BY <1>1, <1>2

LEMMA MapSharedKeeps ==
  ASSUME SpaceInv, NEW p \in Process, NEW phys, map_shared(p, phys)
  PROVE  SpaceInv'
<1>0. PICK virt \in HeapPage \ heap[p] :
        IF page_table[p][virt] # None
        THEN panic("leaf already mapped")
        ELSE /\ heap' = [heap EXCEPT ![p] = @ \cup {virt}]
             /\ map(p, virt, phys)
             /\ tlb' = sfence_vma_all
             /\ UNCHANGED <<lifetime, current, allocated, mappings, shared, backed_pages, panicked>>
  BY DEF map_shared
<1>1. CASE panic("leaf already mapped")
  BY <1>1, PanicKeeps DEF PanicReason
<1>2. CASE ~panic("leaf already mapped")
  <2>1. phys \in Frame /\ Running(p) /\ phys \in shared /\ shared' \in SUBSET Frame
    BY <1>0, <1>2 DEF SpaceInv, Tables, SpaceType, map_shared
  <2> DEFINE new == {}
  <2>2. new \in SUBSET {[virt |-> virt, backing |-> phys]} /\ new = {}
    OBVIOUS
  <2>3. allocated' = [allocated EXCEPT ![p] = @ \cup new]
    <3>1. allocated' = allocated
      BY <1>0, <1>2
    <3>2. allocated \in [Process -> SUBSET Allocation]
      BY DEF SpaceInv, Tables, SpaceType
    <3>3. allocated[p] \cup new = allocated[p]
      OBVIOUS
    <3> QED  BY <3>1, <3>2, <3>3
  <2> HIDE DEF new
  <2> QED  BY <1>0, <1>2, <2>1, <2>2, <2>3, MapFreshKeeps
<1> QED  BY <1>1, <1>2

\* The pages of a mapping lie outside of what the heap had handed out.
LEMMA MapFileKeeps ==
  ASSUME SpaceInv, NEW p \in Process, NEW file \in File, map_file(p, file)
  PROVE  SpaceInv'
<1> USE DEF SpaceInv, Tables, Owners
<1>0. Running(p) /\ p # None
  BY DEF map_file
<1>1. PICK m \in [start : HeapPage, file : {file}] :
        /\ Pages(m) \subseteq HeapPage \ heap[p]
        /\ IF \/ \E v \in Pages(m) : page_table[p][v] # None
              \/ \E a, b \in backed_pages[file] : a # b /\ a.index = b.index
           THEN panic("leaf already mapped")
           ELSE /\ heap' = [heap EXCEPT ![p] = @ \cup Pages(m)]
                /\ page_table' = [page_table EXCEPT ![p] = [v \in Page |->
                     IF \E b \in backed_pages[file] : v = m.start + b.index
                     THEN (CHOOSE b \in backed_pages[file] : v = m.start + b.index).frame
                     ELSE @[v]]]
                /\ mappings' = [mappings EXCEPT ![p] = @ \cup {m}]
                /\ tlb' = sfence_vma_all
                /\ UNCHANGED <<lifetime, current, allocated, shared, backed_pages, panicked>>
  BY DEF map_file
<1>2. CASE panic("leaf already mapped")
  BY <1>2, PanicKeeps DEF PanicReason
<1>3. CASE ~panic("leaf already mapped")
  <2> DEFINE loaded(v) == \E b \in backed_pages[file] : v = m.start + b.index
             page(v) == CHOOSE b \in backed_pages[file] : v = m.start + b.index
  <2> DEFINE table == [v \in Page |-> IF loaded(v) THEN page(v).frame ELSE page_table[p][v]]
  <2>0. /\ heap' = [heap EXCEPT ![p] = @ \cup Pages(m)]
        /\ page_table' = [page_table EXCEPT ![p] = table]
        /\ mappings' = [mappings EXCEPT ![p] = @ \cup {m}]
        /\ tlb' = sfence_vma_all
        /\ UNCHANGED <<lifetime, current, allocated, shared, backed_pages, panicked>>
    BY <1>1, <1>3
  <2>1. m \in Mapping /\ m.file = file /\ m.start \in Nat
    BY DEF Mapping, HeapPage
  <2>2. /\ \A v \in Page : page_table'[p][v] =
             IF loaded(v) THEN page(v).frame ELSE page_table[p][v]
        /\ \A q \in Process \ {p} : page_table'[q] = page_table[q]
    <3>1. page_table'[p] = table /\ \A q \in Process \ {p} : page_table'[q] = page_table[q]
      <4> HIDE DEF table
      <4> QED  BY <2>0 DEF SpaceType
    <3> QED  BY <3>1
  <2>3. \A v : loaded(v) =>
          page(v) \in backed_pages[file] /\ v = m.start + page(v).index
    OBVIOUS
  <2>4. \A b \in backed_pages[file] : b \in BackedPage
    BY DEF SpaceType
  <2>5. \A v : loaded(v) => /\ page(v).frame \in Frame /\ page(v).frame \in FileFrames
                            /\ page(v).index \in 0 .. FILE_PAGES - 1
                            /\ page(v) = [index |-> page(v).index, frame |-> page(v).frame]
    BY <2>3, <2>4 DEF FileFrames, BackedPage
  <2>6. \A v : loaded(v) => v \in Pages(m) /\ page(v).index = v - m.start
    <3> SUFFICES ASSUME NEW v, loaded(v)
                 PROVE  v \in Pages(m) /\ page(v).index = v - m.start
      OBVIOUS
    <3>1. PICK i \in 0 .. FILE_PAGES - 1 : i = page(v).index /\ v = m.start + i
      BY <2>3, <2>5
    <3> HIDE DEF loaded, page
    <3> QED  BY <2>1, <3>1 DEF Pages
  <2> HIDE DEF loaded, page, table
  <2>7. heap'[p] = heap[p] \cup Pages(m) /\ \A q \in Process \ {p} : heap'[q] = heap[q]
    BY <2>0 DEF SpaceType
  <2>8. mappings'[p] = mappings[p] \cup {m} /\ \A q \in Process \ {p} : mappings'[q] = mappings[q]
    BY <2>0 DEF SpaceType
  <2>9. \A v \in Pages(m) : v \in HeapPage /\ v \in Page /\ v \notin heap[p] /\ page_table[p][v] = None
    BY <1>1, <1>3, PageFacts
  <2>10. SpaceType'
    <3>1. table \in [Page -> Frame \cup {None}]
      BY <2>5 DEF SpaceType, table
    <3> HIDE DEF table
    <3>2. page_table' \in [Process -> [Page -> Frame \cup {None}]]
      BY <2>0, <3>1 DEF SpaceType
    <3>3. heap' \in [Process -> SUBSET HeapPage]
      BY <2>0, <2>9 DEF SpaceType
    <3>4. mappings' \in [Process -> SUBSET Mapping]
      BY <2>0, <2>1 DEF SpaceType
    <3> QED  BY <2>0, <3>2, <3>3, <3>4 DEF SpaceType, sfence_vma_all
  <2>11. \A v \in Page : v \notin Pages(m) => page_table'[p][v] = page_table[p][v]
    BY <2>2, <2>6
  <2>12. \A a \in allocated[p] : a.virt \in Page /\ a.virt \notin Pages(m)
    BY <2>9 DEF SpaceType, AllocationsMapped, Allocation
  <2>13. \A n \in mappings[p] : \A v \in Pages(n) : v \in Page /\ v \notin Pages(m)
    BY <2>9, PageFacts DEF MappingsApart, SpaceType
  <2>14. AllocationsMapped'
    <3>1. \A q \in Process : \A a \in allocated[q] : page_table'[q][a.virt] = a.backing
      BY <2>2, <2>11, <2>12 DEF AllocationsMapped
    <3>2. \A q \in Process : \A v \in HeapPage : page_table'[q][v] # None => v \in heap'[q]
      BY <2>2, <2>7, <2>11, PageFacts DEF AllocationsMapped
    <3>3. \A q \in Process : \A n \in mappings'[q] : \A a \in allocated[q] : a.virt \notin Pages(n)
      BY <2>8, <2>12 DEF AllocationsMapped
    <3>4. allocated' = allocated
      BY <2>0
    <3> QED  BY <3>1, <3>2, <3>3, <3>4 DEF AllocationsMapped
  <2>15. FilesInPlace'
    <3>1. \A n \in mappings[p] : \A v \in Pages(n) : page_table'[p][v] = page_table[p][v]
      BY <2>11, <2>13
    <3>2. \A v \in Pages(m) : page_table'[p][v] # None =>
            [index |-> v - m.start, frame |-> page_table'[p][v]] \in backed_pages[file]
      <4> SUFFICES ASSUME NEW v \in Pages(m), page_table'[p][v] # None
                   PROVE  [index |-> v - m.start, frame |-> page_table'[p][v]] \in backed_pages[file]
        OBVIOUS
      <4>1. loaded(v)
        BY <2>2, <2>9
      <4>2. page_table'[p][v] = page(v).frame
        BY <2>2, <2>9, <4>1
      <4>3. page(v).index = v - m.start /\ page(v) \in backed_pages[file]
            /\ page(v) = [index |-> page(v).index, frame |-> page(v).frame]
        BY <2>3, <2>5, <2>6, <4>1
      <4> QED  BY <4>2, <4>3
    <3>3. backed_pages' = backed_pages
      BY <2>0
    <3> QED  BY <2>1, <2>2, <2>8, <3>1, <3>2, <3>3 DEF FilesInPlace
  <2>16. MappingsApart'
    BY <2>7, <2>8, <2>9, <2>13 DEF MappingsApart
  <2>17. FramesOwned'
    <3>1. FileFrames' = FileFrames /\ UNCHANGED <<allocated, shared>>
      BY <2>0 DEF FileFrames
    <3>2. \A v \in Page : page_table'[p][v] = page_table[p][v] \/ page_table'[p][v] \in FileFrames
      BY <2>2, <2>5
    <3> QED  BY <2>2, <3>1, <3>2 DEF FramesOwned
  <2>18. BackingsApart'
    BY <2>0 DEF BackingsApart
  <2>19. Lives'
    BY <1>0, <2>0, <2>2 DEF Lives, Running
  <2>20. TranslationsAgree'
    BY <2>0 DEF TranslationsAgree, sfence_vma_all
  <2> QED  BY <2>10, <2>14, <2>15, <2>16, <2>17, <2>18, <2>19, <2>20
<1> QED  BY <1>2, <1>3

\* The page that is freed is of no mapping and of no other allocation.
LEMMA FreeKeeps ==
  ASSUME SpaceInv, NEW p \in Process, NEW virt \in Page, free(p, virt)
  PROVE  SpaceInv'
<1> USE DEF SpaceInv, Tables, Owners
<1>0. Running(p) /\ p # None
  BY DEF free
<1>1. CASE kill
  BY <1>0, <1>1, KillKeeps
<1>2. CASE ~kill
  <2>1. PICK a \in allocated[p] :
          /\ a.virt = virt
          /\ IF page_table[p][virt] # a.backing THEN panic("another frame unmapped")
             ELSE IF virt = STACK THEN panic("free outside of the heap")
             ELSE /\ allocated' = [allocated EXCEPT ![p] = swap_remove(@, a)]
                  /\ page_table' = [page_table EXCEPT ![p] = unmap(@, virt)]
                  /\ heap' = [heap EXCEPT ![p] = @ \ {virt}]
                  /\ UNCHANGED <<lifetime, current, mappings, shared, backed_pages, tlb, panicked>>
    BY <1>2 DEF free
  <2>2. CASE page_table[p][virt] # a.backing \/ virt = STACK
    BY <2>1, <2>2, PanicKeeps DEF PanicReason
  <2>3. CASE page_table[p][virt] = a.backing /\ virt # STACK
    <3>0. /\ allocated' = [allocated EXCEPT ![p] = @ \ {a}]
          /\ page_table' = [page_table EXCEPT ![p] = [@ EXCEPT ![virt] = None]]
          /\ heap' = [heap EXCEPT ![p] = @ \ {virt}]
          /\ UNCHANGED <<lifetime, current, mappings, shared, backed_pages, tlb, panicked>>
      BY <2>1, <2>3 DEF swap_remove, unmap
    <3>1. SpaceType'
      BY <3>0 DEF SpaceType
    <3>2. /\ page_table'[p][virt] = None
          /\ \A v \in Page \ {virt} : page_table'[p][v] = page_table[p][v]
          /\ \A q \in Process \ {p} : page_table'[q] = page_table[q]
      BY <3>0 DEF SpaceType
    <3>3. heap'[p] = heap[p] \ {virt} /\ \A q \in Process \ {p} : heap'[q] = heap[q]
      BY <3>0 DEF SpaceType
    <3>4. /\ allocated'[p] = allocated[p] \ {a}
          /\ \A q \in Process \ {p} : allocated'[q] = allocated[q]
      BY <3>0 DEF SpaceType
    <3>5. \A b \in allocated[p] : b.virt \in Page /\ (b.virt = virt => b = a)
      <4>1. \A b \in allocated[p] :
              b.virt \in Page /\ b = [virt |-> b.virt, backing |-> b.backing]
        BY DEF SpaceType, Allocation
      <4>2. \A b \in allocated[p] : b.virt = virt => b.backing = a.backing
        BY <2>1 DEF AllocationsMapped
      <4> QED  BY <2>1, <4>1, <4>2
    <3>6. \A m \in mappings[p] : virt \notin Pages(m) /\ Pages(m) \subseteq Page
      <4>1. \A m \in mappings[p] : Pages(m) \subseteq Page
        BY PageFacts DEF MappingsApart, SpaceType
      <4>2. \A m \in mappings[p] : a.virt \notin Pages(m)
        BY DEF AllocationsMapped
      <4> QED  BY <2>1, <4>1, <4>2
    <3>7. AllocationsMapped'
      <4>1. \A q \in Process : \A b \in allocated'[q] : page_table'[q][b.virt] = b.backing
        BY <3>2, <3>4, <3>5 DEF AllocationsMapped
      <4>2. \A q \in Process : \A v \in HeapPage : page_table'[q][v] # None => v \in heap'[q]
        BY <3>2, <3>3, PageFacts DEF AllocationsMapped
      <4>3. \A q \in Process : \A m \in mappings[q] : \A b \in allocated'[q] : b.virt \notin Pages(m)
        BY <3>4 DEF AllocationsMapped
      <4>4. mappings' = mappings
        BY <3>0
      <4> QED  BY <4>1, <4>2, <4>3, <4>4 DEF AllocationsMapped
    <3>8. FilesInPlace'
      <4>1. \A q \in Process : \A m \in mappings[q] : \A v \in Pages(m) :
              page_table'[q][v] = page_table[q][v]
        BY <3>2, <3>6
      <4> QED  BY <3>0, <4>1 DEF FilesInPlace
    <3>9. MappingsApart'
      BY <3>0, <3>3, <3>6 DEF MappingsApart
    <3>10. FramesOwned'
      <4>1. FileFrames' = FileFrames /\ shared' = shared
        BY <3>0 DEF FileFrames
      <4>2. \A v \in Page \ {virt} : \A f : [virt |-> v, backing |-> f] # a
        <5> SUFFICES ASSUME NEW v \in Page \ {virt}, NEW f, [virt |-> v, backing |-> f] = a
                     PROVE  FALSE
          OBVIOUS
        <5>1. [virt |-> v, backing |-> f].virt = v
          OBVIOUS
        <5> QED  BY <2>1, <5>1
      <4> QED  BY <3>2, <3>4, <4>1, <4>2 DEF FramesOwned
    <3>11. BackingsApart'
      BY <3>4 DEF BackingsApart
    <3>12. Lives'
      BY <1>0, <3>0, <3>2 DEF Lives, Running
    <3>13. TranslationsAgree'
      <4>1. \A t \in tlb : t.virt \in Page /\ t.backing # None
        BY DEF SpaceType, Allocation
      <4>2. \A q \in Process \ {p} : \A f : PrivateTo(q, f)' <=> PrivateTo(q, f)
        BY <3>0, <3>2, PrivateSame
      <4>3. \A q \in Process \ {p} : ~PrivateTo(q, page_table[p][virt])
        <5>1. a.backing # None
          BY DEF SpaceType, Allocation
        <5>2. page_table[p][virt] \in Reaches(p)
          BY <2>3, <5>1 DEF Reaches
        <5> QED  BY <5>2, InvImpliesIsolated DEF MemoryIsolated, PrivateTo
      <4>4. current = p /\ current' = p /\ tlb' = tlb /\ lifetime' = lifetime
        BY <1>0, <3>0 DEF Running
      <4> SUFFICES ASSUME NEW t \in tlb
                   PROVE  \/ page_table'[p][t.virt] = t.backing
                          \/ /\ page_table'[p][t.virt] = None
                             /\ \A q \in Process \ {p} :
                                  PrivateTo(q, t.backing)' => lifetime[q] = "spawned"
        BY <4>4 DEF TranslationsAgree
      <4>5. \/ page_table[p][t.virt] = t.backing
            \/ /\ page_table[p][t.virt] = None
               /\ \A q \in Process \ {p} : PrivateTo(q, t.backing) => lifetime[q] = "spawned"
        BY <4>4 DEF TranslationsAgree
      <4>6. CASE t.virt # virt
        BY <3>2, <4>1, <4>2, <4>5, <4>6
      <4>7. CASE t.virt = virt
        <5>1. a.backing # None
          BY DEF SpaceType, Allocation
        <5>2. page_table[p][virt] = t.backing
          BY <2>3, <4>5, <4>7, <5>1
        <5> QED  BY <3>2, <4>2, <4>3, <4>7, <5>2
      <4> QED  BY <4>6, <4>7
    <3> QED  BY <3>1, <3>7, <3>8, <3>9, <3>10, <3>11, <3>12, <3>13
  <2> QED  BY <2>2, <2>3
<1> QED  BY <1>1, <1>2

\* A page of a file is loaded into the one mapping it lies in.
LEMMA PageFaultKeeps ==
  ASSUME SpaceInv, NEW p \in Process, NEW virt \in Page, handle_page_fault(p, virt)
  PROVE  SpaceInv'
<1> USE DEF SpaceInv, Tables, Owners
<1>0. Running(p) /\ p # None
  BY DEF handle_page_fault
<1>1. CASE panic("forbidden access")
  BY <1>1, PanicKeeps DEF PanicReason
<1>2. CASE ~panic("forbidden access")
  <2>1. PICK m \in mappings[p], phys \in FreeFrames :
          /\ virt \in Pages(m) /\ page_table[p][virt] = None
          /\ map(p, virt, phys)
          /\ backed_pages' = [backed_pages EXCEPT ![m.file] =
               @ \cup {[index |-> page_index(virt, m.start), frame |-> phys]}]
          /\ tlb' = sfence_vma_all
          /\ UNCHANGED <<lifetime, current, heap, allocated, mappings, shared, panicked>>
    BY <1>2 DEF handle_page_fault
  <2>2. phys \in Frame /\ phys # None
    BY FreeFacts
  <2>3. m \in Mapping /\ m.file \in File /\ virt - m.start \in 0 .. FILE_PAGES - 1
    BY <2>1, PagesFacts DEF SpaceType
  <2> DEFINE new == [index |-> virt - m.start, frame |-> phys]
  <2>4. /\ new \in BackedPage /\ new.frame = phys
        /\ backed_pages' = [backed_pages EXCEPT ![m.file] = @ \cup {new}]
    BY <2>1, <2>2, <2>3 DEF BackedPage, page_index
  <2>5. /\ page_table'[p][virt] = phys
        /\ \A v \in Page \ {virt} : page_table'[p][v] = page_table[p][v]
        /\ \A q \in Process \ {p} : page_table'[q] = page_table[q]
    BY <2>1 DEF SpaceType, map
  <2>6. /\ new \in backed_pages'[m.file]
        /\ \A f \in File : backed_pages[f] \subseteq backed_pages'[f]
    <3> HIDE DEF new
    <3> QED  BY <2>3, <2>4 DEF SpaceType
  <2>7. SpaceType'
    <3> HIDE DEF new
    <3>1. backed_pages' \in [File -> SUBSET BackedPage]
      BY <2>3, <2>4 DEF SpaceType
    <3>2. page_table' \in [Process -> [Page -> Frame \cup {None}]]
      BY <2>1, <2>2 DEF SpaceType, map
    <3> QED  BY <2>1, <3>1, <3>2 DEF SpaceType, sfence_vma_all
  <2>8. \A a \in allocated[p] : a.virt \in Page \ {virt}
    <3>1. \A a \in allocated[p] : a.virt \in Page /\ a.backing # None
      BY DEF SpaceType, Allocation
    <3> QED  BY <2>1, <3>1 DEF AllocationsMapped
  <2>9. AllocationsMapped'
    <3>1. \A q \in Process : \A a \in allocated[q] : page_table'[q][a.virt] = a.backing
      BY <2>5, <2>8 DEF AllocationsMapped
    <3>2. \A q \in Process : \A v \in HeapPage : page_table'[q][v] # None => v \in heap[q]
      BY <2>1, <2>5, PageFacts DEF AllocationsMapped, MappingsApart
    <3>3. UNCHANGED <<allocated, heap, mappings>>
      BY <2>1
    <3> QED  BY <3>1, <3>2, <3>3 DEF AllocationsMapped
  <2>10. FilesInPlace'
    <3>1. \A n \in mappings[p] : virt \in Pages(n) => n = m
      BY <2>1 DEF MappingsApart
    <3>2. \A q \in Process : \A n \in mappings[q] : n.file \in File /\ Pages(n) \subseteq Page
      BY PageFacts DEF SpaceType, MappingsApart, Mapping
    <3> SUFFICES ASSUME NEW q \in Process, NEW n \in mappings[q], NEW v \in Pages(n),
                        page_table'[q][v] # None
                 PROVE  [index |-> v - n.start, frame |-> page_table'[q][v]] \in backed_pages'[n.file]
      BY <2>1 DEF FilesInPlace
    <3>3. CASE q = p /\ v = virt
      BY <2>5, <2>6, <3>1, <3>3
    <3>4. CASE ~(q = p /\ v = virt)
      <4> HIDE DEF new
      <4>1. page_table'[q][v] = page_table[q][v]
        BY <2>5, <3>2, <3>4
      <4> QED  BY <2>6, <3>2, <4>1 DEF FilesInPlace
    <3> QED  BY <3>3, <3>4
  <2>11. MappingsApart'
    BY <2>1 DEF MappingsApart
  <2>12. FramesOwned'
    <3>1. FileFrames \subseteq FileFrames' /\ phys \in FileFrames'
      <4> HIDE DEF new
      <4> QED  BY <2>3, <2>4, <2>6 DEF FileFrames
    <3>2. UNCHANGED <<allocated, shared>>
      BY <2>1
    <3> QED  BY <2>5, <3>1, <3>2 DEF FramesOwned
  <2>13. BackingsApart'
    BY <2>1 DEF BackingsApart
  <2>14. Lives'
    BY <1>0, <2>1, <2>5 DEF Lives, Running
  <2>15. TranslationsAgree'
    BY <2>1 DEF TranslationsAgree, sfence_vma_all
  <2> QED  BY <2>7, <2>9, <2>10, <2>11, <2>12, <2>13, <2>14, <2>15
<1> QED  BY <1>1, <1>2

LEMMA TranslateKeeps ==
  ASSUME SpaceInv, NEW p \in Process, NEW virt \in Page, translate(p, virt)
  PROVE  SpaceInv'
<1> USE DEF SpaceInv
<1>1. [virt |-> virt, backing |-> page_table[p][virt]] \in Allocation
  BY DEF Tables, SpaceType, translate, Allocation
<1>2. Tables'
  BY <1>1, TablesSame DEF translate, Tables, SpaceType
<1>3. Owners'
  BY OwnersSame DEF translate, tables
<1>4. Lives'
  BY DEF Lives, translate, tables
<1>5. TranslationsAgree'
  <2>1. \A q \in Process : \A f : PrivateTo(q, f)' <=> PrivateTo(q, f)
    BY PrivateSame DEF translate, tables
  <2>2. /\ current = p /\ UNCHANGED <<lifetime, current, page_table>>
        /\ tlb' = tlb \cup {[virt |-> virt, backing |-> page_table[p][virt]]}
    BY DEF translate, tables, Running
  <2> QED  BY <2>1, <2>2 DEF TranslationsAgree
<1> QED  BY <1>2, <1>3, <1>4, <1>5

\* The process that is created is not the one that runs.
LEMMA CreateKeeps ==
  ASSUME SpaceInv, NEW p \in Process, create_process(p)
  PROVE  SpaceInv'
<1> USE DEF SpaceInv, Tables, Owners
<1>1. PICK phys \in FreeFrames :
        /\ map(p, STACK, phys)
        /\ allocated' = [allocated EXCEPT ![p] = {[virt |-> STACK, backing |-> phys]}]
  BY DEF create_process
<1>2. /\ lifetime[p] = "unborn"
      /\ lifetime' = [lifetime EXCEPT ![p] = "spawned"]
      /\ UNCHANGED <<current, heap, mappings, shared, backed_pages, tlb, panicked>>
  BY DEF create_process
<1>3. /\ phys \in Frame /\ phys # None
      /\ \A q \in Process : \A a \in allocated[q] : a.backing # phys
  BY FreeFacts
<1>4. [virt |-> STACK, backing |-> phys] \in Allocation
  BY <1>3, PageFacts DEF Allocation
<1>5. SpaceType'
  BY <1>1, <1>2, <1>3, <1>4, PageFacts DEF SpaceType, Lifetime, map
<1>6. /\ page_table'[p][STACK] = phys
      /\ \A v \in Page \ {STACK} : page_table'[p][v] = page_table[p][v]
      /\ \A q \in Process \ {p} : page_table'[q] = page_table[q]
  BY <1>1, PageFacts DEF SpaceType, map
<1>7. /\ allocated'[p] = {[virt |-> STACK, backing |-> phys]}
      /\ \A q \in Process \ {p} : allocated'[q] = allocated[q]
  BY <1>1 DEF SpaceType
<1>8. \A v \in Page : page_table[p][v] = None
  BY <1>2 DEF Lives
<1>9. \A q \in Process : \A m \in mappings[q] : Pages(m) \subseteq HeapPage
  BY DEF MappingsApart, SpaceType
<1>10. AllocationsMapped'
  <2>1. \A q \in Process : \A a \in allocated'[q] : page_table'[q][a.virt] = a.backing
    BY <1>6, <1>7 DEF AllocationsMapped
  <2>2. \A q \in Process : \A v \in HeapPage : page_table'[q][v] # None => v \in heap[q]
    BY <1>6, PageFacts DEF AllocationsMapped
  <2>3. \A q \in Process : \A m \in mappings[q] : \A a \in allocated'[q] : a.virt \notin Pages(m)
    BY <1>7, <1>9, PageFacts DEF AllocationsMapped
  <2> QED  BY <1>2, <2>1, <2>2, <2>3 DEF AllocationsMapped
<1>11. FilesInPlace'
  <2>1. \A q \in Process : \A m \in mappings[q] : \A v \in Pages(m) :
          page_table'[q][v] = page_table[q][v]
    BY <1>6, <1>9, PageFacts
  <2> QED  BY <1>2, <2>1 DEF FilesInPlace
<1>12. MappingsApart'
  BY <1>2 DEF MappingsApart
<1>13. FramesOwned'
  <2>1. FileFrames' = FileFrames /\ shared' = shared
    BY <1>2 DEF FileFrames
  <2> QED  BY <1>6, <1>7, <1>8, <2>1 DEF FramesOwned
<1>14. BackingsApart'
  BY <1>3, <1>7 DEF BackingsApart
<1>15. Lives'
  BY <1>2, <1>6, <1>5 DEF Lives, SpaceType
<1>16. TranslationsAgree'
  <2>1. current # p
    BY <1>2 DEF Lives
  <2>2. \A q \in Process \ {p} : \A f : PrivateTo(q, f)' <=> PrivateTo(q, f)
    BY <1>2, <1>6, PrivateSame
  <2>3. lifetime'[p] = "spawned" /\ \A q \in Process \ {p} : lifetime'[q] = lifetime[q]
    BY <1>2 DEF SpaceType
  <2> QED  BY <1>2, <1>6, <2>1, <2>2, <2>3 DEF TranslationsAgree
<1> QED  BY <1>5, <1>10, <1>11, <1>12, <1>13, <1>14, <1>15, <1>16

\* A process stops or starts to run.
LEMMA SwitchKeeps ==
  ASSUME SpaceInv, NEW p \in Process, yield(p) \/ set_userspace_process(p)
  PROVE  SpaceInv'
<1> USE DEF SpaceInv, yield, set_userspace_process, sfence_vma_all
<1>1. Tables'
  BY TablesSame DEF Tables, SpaceType, Lifetime
<1>2. Owners'
  BY OwnersSame DEF tables
<1>3. Lives'
  BY DEF Lives, Tables, SpaceType, tables
<1>4. TranslationsAgree'
  BY DEF TranslationsAgree
<1> QED  BY <1>1, <1>2, <1>3, <1>4

\* No process runs while the tables of one are dropped.
LEMMA ReapKeeps ==
  ASSUME SpaceInv, NEW p \in Process, reap(p)
  PROVE  SpaceInv'
<1> USE DEF SpaceInv, Tables, Owners
<1>0. /\ current = None
      /\ lifetime' = [lifetime EXCEPT ![p] = "gone"]
      /\ heap' = [heap EXCEPT ![p] = {}]
      /\ page_table' = [page_table EXCEPT ![p] = [v \in Page |-> None]]
      /\ allocated' = [allocated EXCEPT ![p] = {}]
      /\ mappings' = [mappings EXCEPT ![p] = {}]
      /\ UNCHANGED <<current, shared, backed_pages, tlb, panicked>>
  BY DEF reap
<1>1. SpaceType'
  BY <1>0 DEF SpaceType, Lifetime
<1>2. /\ \A v \in Page : page_table'[p][v] = None
      /\ heap'[p] = {} /\ allocated'[p] = {} /\ mappings'[p] = {}
      /\ \A q \in Process \ {p} :
           /\ page_table'[q] = page_table[q] /\ heap'[q] = heap[q]
           /\ allocated'[q] = allocated[q] /\ mappings'[q] = mappings[q]
           /\ lifetime'[q] = lifetime[q]
  BY <1>0 DEF SpaceType
<1>3. AllocationsMapped'
  BY <1>2, PageFacts DEF AllocationsMapped
<1>4. FilesInPlace'
  BY <1>0, <1>2 DEF FilesInPlace
<1>5. MappingsApart'
  BY <1>2 DEF MappingsApart
<1>6. FramesOwned'
  <2>1. FileFrames' = FileFrames /\ shared' = shared
    BY <1>0 DEF FileFrames
  <2> QED  BY <1>2, <2>1 DEF FramesOwned
<1>7. BackingsApart'
  BY <1>2 DEF BackingsApart
<1>8. Lives'
  BY <1>0, <1>2 DEF Lives
<1>9. TranslationsAgree'
  BY <1>0 DEF TranslationsAgree
<1> QED  BY <1>1, <1>3, <1>4, <1>5, <1>6, <1>7, <1>8, <1>9

-----------------------------------------------------------------------------
(* The invariant and what follows from it. *)

LEMMA InitEstablishes == Init => SpaceInv
<1> SUFFICES ASSUME Init PROVE SpaceInv
  OBVIOUS
<1>1. SpaceType
  BY DEF Init, SpaceType, Lifetime, PanicReason
<1>2. AllocationsMapped /\ FilesInPlace /\ MappingsApart
  BY PageFacts DEF Init, AllocationsMapped, FilesInPlace, MappingsApart
<1>3. FramesOwned /\ BackingsApart /\ Lives /\ TranslationsAgree
  BY DEF Init, FramesOwned, BackingsApart, Lives, TranslationsAgree
<1> QED  BY <1>1, <1>2, <1>3 DEF SpaceInv, Tables, Owners

LEMMA NextPreserves == SpaceInv /\ [Next]_vars => SpaceInv'
<1> SUFFICES ASSUME SpaceInv, [Next]_vars PROVE SpaceInv'
  OBVIOUS
<1>1. CASE UNCHANGED vars
  <2>1. Tables'
    BY <1>1, TablesSame DEF SpaceInv, vars, Tables, SpaceType
  <2>2. Owners'
    BY <1>1, OwnersSame DEF SpaceInv, vars, tables
  <2>3. TranslationsAgree'
    BY <1>1, TranslationsSame DEF vars, tables
  <2> QED  BY <1>1, <2>1, <2>2, <2>3 DEF SpaceInv, vars, tables, Lives
<1>2. ASSUME NEW p \in Process, alloc(p) \/ alloc_shared(p)
      PROVE  SpaceInv'
  <2>1. CASE alloc(p)
    <3>1. PICK phys \in FreeFrames : Running(p) /\ process_alloc(p, phys, {})
      BY <2>1 DEF alloc
    <3>2. {} \in SUBSET {phys}
      OBVIOUS
    <3> QED  BY <3>1, <3>2, AllocKeeps
  <2>2. CASE alloc_shared(p)
    <3>1. PICK phys \in FreeFrames : Running(p) /\ process_alloc(p, phys, {phys})
      BY <2>2 DEF alloc_shared
    <3>2. {phys} \in SUBSET {phys}
      OBVIOUS
    <3> QED  BY <3>1, <3>2, AllocKeeps
  <2> QED  BY <1>2, <2>1, <2>2
<1>3. ASSUME NEW p \in Process, \E phys \in shared : map_shared(p, phys)
      PROVE  SpaceInv'
  BY <1>3, MapSharedKeeps
<1>4. ASSUME NEW p \in Process, \E file \in File : map_file(p, file)
      PROVE  SpaceInv'
  BY <1>4, MapFileKeeps
<1>5. ASSUME NEW p \in Process, NEW virt \in Page,
             free(p, virt) \/ handle_page_fault(p, virt) \/ translate(p, virt)
      PROVE  SpaceInv'
  BY <1>5, FreeKeeps, PageFaultKeeps, TranslateKeeps
<1>6. ASSUME NEW p \in Process, create_process(p) \/ reap(p)
      PROVE  SpaceInv'
  BY <1>6, CreateKeeps, ReapKeeps
<1>7. ASSUME NEW p \in Process, exit(p)
      PROVE  SpaceInv'
  BY <1>7, KillKeeps DEF exit
<1>8. ASSUME NEW p \in Process, yield(p) \/ set_userspace_process(p)
      PROVE  SpaceInv'
  BY <1>8, SwitchKeeps
<1> QED  BY <1>1, <1>2, <1>3, <1>4, <1>5, <1>6, <1>7, <1>8 DEF Next

LEMMA InvImpliesInPlace == SpaceInv => PagesInPlace
<1> SUFFICES ASSUME SpaceInv PROVE TypeOK
  BY DEF SpaceInv, Tables, PagesInPlace
<1> QED  BY DEF SpaceInv, Tables, SpaceType, TypeOK, PanicReason

LEMMA InvAlways == Spec => []SpaceInv
BY InitEstablishes, NextPreserves, PTL DEF Spec

\* Two processes reach the same frame only if it is shared memory or a page of
\* a file, and no page table reaches a frame that Process::dealloc or the drop
\* of a process gave back.
THEOREM MemoryIsIsolated == Spec => []MemoryIsolated
BY InvAlways, InvImpliesIsolated, PTL

\* Whatever alloc, map_shared, dealloc and the page fault handler did before,
\* what a process may free is mapped where it was put, and a mapping shows the
\* pages of its file in order.
THEOREM PagesStayInPlace == Spec => []PagesInPlace
BY InvAlways, InvImpliesInPlace, PTL

\* Though dealloc does not fence, a cached translation of the process that runs
\* is that of its page table, or that of a page it freed since the last fence;
\* and the frame behind the latter is not the private memory of a process that
\* has run (that of one it has just spawned it may be: create_process does not
\* fence either).
THEOREM CachedTranslationsAgree == Spec => []TranslationsAgree
<1>1. SpaceInv => TranslationsAgree
  BY DEF SpaceInv
<1> QED  BY <1>1, InvAlways, PTL
=============================================================================
