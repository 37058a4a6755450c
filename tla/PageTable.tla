----------------------------- MODULE PageTable -----------------------------
(***************************************************************************)
(* The page tables (kernel/src/page/table.rs, page/entry.rs).              *)
(*                                                                         *)
(* A table has ENTRIES entries, and tables are nested LEVELS deep: an      *)
(* entry at level l covers ENTRIES^l pages, as a leaf over that many       *)
(* frames or as an indirection to a table of level l - 1.  A mapping is    *)
(* cut into the largest leaves both of its addresses are aligned for, and  *)
(* tables are made on the way down and dropped once they are empty.        *)
(*                                                                         *)
(* Addresses are counted in pages.  An entry is found by its level and the *)
(* number of its part of the address space, so the entries of tables that  *)
(* do not exist are Invalid ones.  The callers map ranges of pages nothing *)
(* is mapped at, and unmap what they mapped, as they mapped it; access     *)
(* flags are left out.                                                     *)
(***************************************************************************)
EXTENDS Naturals, FiniteSets

CONSTANTS
  ENTRIES,      \* PAGE_TABLE_ENTRY_COUNT
  LEVELS,       \* number of levels, 3 in Sv39
  PHYS_END,     \* PHYSICAL_ADDRESSES.end, in pages
  MAX_LIVE,     \* bound: mappings that exist at a time
  None          \* no frame

ASSUME TableAssumption ==
  /\ ENTRIES \in Nat \ {0, 1} /\ LEVELS \in Nat \ {0}
  /\ PHYS_END \in Nat \ {0} /\ MAX_LIVE \in Nat \ {0}
  /\ None \notin Nat

TOP == LEVELS - 1
Level == 0 .. TOP

\* LEVEL_PAGE_SIZES
page_size[level \in Nat] == IF level = 0 THEN 1 ELSE ENTRIES * page_size[level - 1]
PageSize(level) == page_size[level]

VIRT_END == PageSize(LEVELS)
VirtPage == 0 .. VIRT_END - 1
PhysPage == 0 .. PHYS_END - 1

Slot == UNION {{<<l, i>> : i \in 0 .. VIRT_END \div PageSize(l) - 1} : l \in Level}
SlotOf(virt, level) == <<level, virt \div PageSize(level)>>
Children(slot) == {s \in Slot : s[1] + 1 = slot[1] /\ s[2] \div ENTRIES = slot[2]}

VARIABLES
  entries,      \* of each slot, its entry
  mappings,     \* the mappings the callers made and did not unmap
  assert_failed \* whether an assertion of the table failed

table_vars == <<entries, mappings, assert_failed>>

Invalid == [kind |-> "invalid"]
Indirect == [kind |-> "indirect"]
Leaf(phys) == [kind |-> "leaf", phys |-> phys]
Entry == {Invalid, Indirect} \cup {Leaf(phys) : phys \in PhysPage}

\* The arguments map() and unmap() accept, but for the empty range.
Mapping == {m \in [virt : VirtPage, phys : PhysPage, size : 1 .. VIRT_END] :
              m.virt + m.size <= VIRT_END /\ m.phys + m.size <= PHYS_END}
PagesOf(m) == m.virt .. m.virt + m.size - 1

TableInit ==
  /\ entries = [s \in Slot |-> Invalid]
  /\ mappings = {}
  /\ assert_failed = FALSE

-----------------------------------------------------------------------------
(* Where a range is cut. *)

Interval(start, end) == [start |-> start, end |-> end]
NextMultipleOf(n, align) == ((n + align - 1) \div align) * align

align_by(range, align) ==
  LET aligned_start == NextMultipleOf(range.start, align)
      aligned_end == (range.end \div align) * align
  IN  IF aligned_start >= range.end
        THEN [prefix |-> range, aligned |-> Interval(0, 0), suffix |-> Interval(range.end, range.end)]
        ELSE [prefix |-> Interval(range.start, aligned_start),
              aligned |-> Interval(aligned_start, aligned_end),
              suffix |-> Interval(aligned_end, range.end)]

\* The frame that a page of the mapping is to lead to.
FrameOf(m, virt) == m.phys + (virt - m.virt)

MutantIgnoresFrames(m, aligned, level) == TRUE

\* Whether aligned pages can be leaves: the frames must be aligned as well.
LeavesFit(m, aligned, level) == FrameOf(m, aligned.start) % PageSize(level) = 0

Steps(range, size) == {v \in range.start .. range.end - 1 : v % size = 0}

LeafAt(m, virt, level) == [level |-> level, virt |-> virt, phys |-> FrameOf(m, virt)]

\* One call of map_impl() or unmap_impl(): for a part of a mapping and the
\* table of a level, the leaves that are come to, each with its level, page and
\* frame, when `found' are those of the calls for the tables below.
Walks == [start : 0 .. VIRT_END, end : 0 .. VIRT_END, level : Level]

Below(found, w, range) ==
  IF range.start >= range.end THEN {}
  ELSE found[[start |-> range.start, end |-> range.end, level |-> w.level - 1]]

impl(m, found, w) ==
  LET size == PageSize(w.level)
      part == align_by(w, size)
      Middle ==
        IF LeavesFit(m, part.aligned, w.level)
          THEN {LeafAt(m, v, w.level) : v \in Steps(part.aligned, size)}
          ELSE UNION {Below(found, w, Interval(v, v + size)) : v \in Steps(part.aligned, size)}
  IN  Below(found, w, part.prefix) \cup Middle \cup Below(found, w, part.suffix)

LeavesIn(m) == LET Leaves[w \in Walks] == impl(m, Leaves, w) IN Leaves

LeavesOf == [m \in Mapping |-> LeavesIn(m)[[start |-> m.virt, end |-> m.virt + m.size, level |-> TOP]]]
LeafSlots(leaves) == {SlotOf(l.virt, l.level) : l \in leaves}

\* The entries on the way to a set of leaves.
Path(leaves) == UNION {{SlotOf(l.virt, above) : above \in l.level + 1 .. TOP} : l \in leaves}

-----------------------------------------------------------------------------
(* Looking a page up, as is_mapped() and the hardware do.  The hardware    *)
(* refuses a leaf over frames that are not aligned to its size.            *)

lookup(table, virt, found, level) ==
  LET entry == table[SlotOf(virt, level)]
  IN  IF entry.kind = "indirect" THEN found[level - 1]
      ELSE IF entry.kind = "leaf" /\ entry.phys % PageSize(level) = 0
        THEN entry.phys + (virt % PageSize(level))
      ELSE None

walk(table, virt) == LET Found[level \in Level] == lookup(table, virt, Found, level) IN Found

translate(virt) == walk(entries, virt)[TOP]

-----------------------------------------------------------------------------
(* The operations. *)

\* map_indirect() meets no leaf, and map_leaf() an entry that is not valid.
MapAsserts(leaves) ==
  /\ \A s \in Path(leaves) : entries[s].kind # "leaf"
  /\ \A s \in LeafSlots(leaves) : entries[s] = Invalid

MapLeaves(leaves) ==
  [s \in Slot |->
     IF s \in Path(leaves) THEN Indirect
     ELSE IF s \in LeafSlots(leaves)
            THEN Leaf((CHOOSE l \in leaves : s = SlotOf(l.virt, l.level)).phys)
            ELSE entries[s]]

map(m) ==
  /\ ~assert_failed
  /\ IF MapAsserts(LeavesOf[m])
       THEN /\ entries' = MapLeaves(LeavesOf[m])
            /\ mappings' = mappings \cup {m}
            /\ UNCHANGED assert_failed
       ELSE assert_failed' = TRUE /\ UNCHANGED <<entries, mappings>>

\* unwrap_indirect() meets only tables, unmap_leaf() the leaf that was mapped.
UnmapAsserts(leaves) ==
  /\ \A s \in Path(leaves) : entries[s] = Indirect
  /\ \A l \in leaves : entries[SlotOf(l.virt, l.level)] = Leaf(l.phys)

MutantFirstEntry(slot, table) == table[<<slot[1] - 1, slot[2] * ENTRIES>>] = Invalid

is_completely_unmapped(slot, table) == \A s \in Children(slot) : table[s] = Invalid

\* The entries once the leaves are gone and check_unmap_indirect() has gone
\* over the tables on the way up to a level; `below' are those of the levels
\* below.
Swept(leaves, below, level) ==
  IF level = 0
    THEN [s \in Slot |-> IF s \in LeafSlots(leaves) THEN Invalid ELSE entries[s]]
    ELSE [s \in Slot |->
            IF /\ s \in Path(leaves) /\ s[1] = level
               /\ is_completely_unmapped(s, below[level - 1])
              THEN Invalid
              ELSE below[level - 1][s]]

Reclaimed(leaves) == LET Cleared[level \in Level] == Swept(leaves, Cleared, level) IN Cleared
Unmapped(leaves) == Reclaimed(leaves)[TOP]

unmap(m) ==
  /\ ~assert_failed
  /\ IF UnmapAsserts(LeavesOf[m])
       THEN /\ entries' = Unmapped(LeavesOf[m])
            /\ mappings' = mappings \ {m}
            /\ UNCHANGED assert_failed
       ELSE assert_failed' = TRUE /\ UNCHANGED <<entries, mappings>>

\* The callers' side: a free range is mapped, a mapping is unmapped whole.
MapFree ==
  \E m \in Mapping : /\ \A other \in mappings : PagesOf(m) \cap PagesOf(other) = {}
                     /\ Cardinality(mappings) < MAX_LIVE
                     /\ map(m)

UnmapLive == \E m \in mappings : unmap(m)

TableNext == MapFree \/ UnmapLive

TableSpec == TableInit /\ [][TableNext]_table_vars

-----------------------------------------------------------------------------
(* Properties. *)

\* Every table holds entries, every range of the live mappings has pages.
TableTypeOK ==
  /\ entries \in [Slot -> Entry]
  /\ mappings \subseteq Mapping /\ Cardinality(mappings) <= MAX_LIVE
  /\ assert_failed \in BOOLEAN

\* The assertions of map_leaf(), unmap_leaf(), map_indirect() and
\* unwrap_indirect() hold for callers that map free ranges and unmap what
\* they mapped: the cuts of map() are found again by unmap(), and no table is
\* left where a later mapping wants a leaf.
NeverPanics == ~assert_failed

\* The tables are exactly those the live mappings need, whatever was mapped
\* and unmapped before: no leaf is lost when a table is dropped, none stays,
\* and no empty table is kept.
EntriesExact ==
  LET leaves == UNION {LeavesOf[m] : m \in mappings}
  IN  \A s \in Slot :
        entries[s] = IF s \in Path(leaves) THEN Indirect
                     ELSE IF \E l \in leaves : s = SlotOf(l.virt, l.level)
                       THEN Leaf((CHOOSE l \in leaves : s = SlotOf(l.virt, l.level)).phys)
                       ELSE Invalid

\* What the page table keeps, over any sequence of mappings and unmappings.
TablesExact == TableTypeOK /\ NeverPanics /\ EntriesExact

\* The tables, as the hardware and is_mapped() walk them, implement a partial
\* function from pages to frames that map() and unmap() change in their range
\* and nowhere else.
Abstract == INSTANCE PageMap WITH frame_of <- [v \in VirtPage |-> translate(v)]
ImplementsPageMap == Abstract!Spec

=============================================================================
