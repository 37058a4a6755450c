-------------------------------- MODULE Buddy -------------------------------
(***************************************************************************)
(* The buddy allocator (kernel/src/heap/buddy.rs).  It hands out the       *)
(* kernel's memory, and the virtual addresses of each process.             *)
(*                                                                         *)
(* The tree is a table of nodes in heap order: node 1 is the root, and the *)
(* children of n are 2n and 2n+1.  A node's children are made when they    *)
(* are first needed and never dropped; until then they have the values     *)
(* get_children() would give them.  Addresses are relative to the start of *)
(* the range.                                                              *)
(***************************************************************************)
EXTENDS Integers, FiniteSetsExt

CONSTANTS
  SIZE,        \* the size of the range
  Requests,    \* the sizes that are asked for: max(layout.size, layout.align)
  Reservable   \* the ranges that may be reserved at boot

ASSUME BuddyAssumption ==
  /\ SIZE \in Nat \ {0}
  /\ Requests \subseteq Nat \ {0}
  /\ \A r \in Reservable : r.start \in Nat /\ r.end \in r.start + 1 .. SIZE

\* The powers of two.
power[i \in Nat] == IF i = 0 THEN 1 ELSE 2 * power[i - 1]

next_power_of_two(n) ==
  CHOOSE p \in {power[i] : i \in 0 .. n} : p >= n /\ \A i \in 0 .. n : power[i] >= n => p <= power[i]

root_node_size == next_power_of_two(SIZE)
Node == 1 .. 2 * root_node_size - 1

\* The size a node is given on the way down, and where it begins.
node_size[n \in Node] == IF n = 1 THEN root_node_size ELSE node_size[n \div 2] \div 2
offset[n \in Node] ==
  IF n = 1 THEN 0 ELSE offset[n \div 2] + IF n % 2 = 0 THEN 0 ELSE node_size[n]

half(n) == node_size[n] \div 2
end(n) == offset[n] + node_size[n]
ancestors[n \in Node] == IF n = 1 THEN {} ELSE ancestors[n \div 2] \cup {n \div 2}

VARIABLES
  max_available,  \* of each node, the largest block that can be had below it
  allocated,      \* of each node, the size of the request it was given to, or 0
  children,       \* the nodes that have children
  reserved,       \* the ranges reserved so far
  live,           \* the blocks handed out and not taken back
  booting,        \* whether initialize_heap still has the allocator to itself
  panicked        \* whether an assertion failed

vars == <<max_available, allocated, children, reserved, live, booting, panicked>>

\* Node::update.  (Mutant: buddies are not merged.)
never_merged(n, left, right) == Max({left, right})
update(n, left, right) ==
  IF left = half(n) /\ right = half(n) THEN node_size[n] ELSE Max({left, right})

\* The bytes of the range that lie in the node: the size Node::new is given.
size_in(n) == Max({0, Min({SIZE - offset[n], node_size[n]})})

cut == {n \in Node : size_in(n) \notin {0, node_size[n]}}

\* The values given to some nodes, and those of the nodes above them, which are
\* updated on the way back.
refreshed(given, above) ==
  LET available[n \in Node] ==
        IF n \in above THEN update(n, available[2 * n], available[2 * n + 1]) ELSE given[n]
  IN  available

new == refreshed([n \in Node |-> size_in(n)], cut)

Init ==
  /\ max_available = new
  /\ allocated = [n \in Node |-> 0]
  /\ children = cut
  /\ reserved = {}
  /\ live = {}
  /\ booting = TRUE
  /\ panicked = FALSE

-----------------------------------------------------------------------------

panic ==
  /\ panicked' = TRUE
  /\ UNCHANGED <<max_available, allocated, children, reserved, live, booting>>

\* Give the node `target' a new value, and update those above it.
store(target, available, request) ==
  /\ max_available' = refreshed([max_available EXCEPT ![target] = available], ancestors[target])
  /\ allocated' = [allocated EXCEPT ![target] = request]
  /\ children' = children \cup ancestors[target]
  /\ booting' = FALSE
  /\ UNCHANGED <<reserved, panicked>>

\* The child that is searched: the one with less room, if that is enough.
\* (Mutant: the left one without asking whether it is enough.)
always_left(n, req_size) == 2 * n
best_fit(n, req_size) ==
  LET left == max_available[2 * n]
      right == max_available[2 * n + 1]
  IN  IF (left >= req_size /\ left <= right) \/ right < req_size THEN 2 * n ELSE 2 * n + 1

\* The node a request that comes to a node ends at.
alloc_search(req_size) ==
  LET search[n \in Node] ==
        IF req_size > half(n) THEN n ELSE search[best_fit(n, req_size)]
  IN  search

alloc_target(req_size) == alloc_search(req_size)[1]

\* What an allocated node has left.  (Mutant: as much as before.)
left_available(n) == node_size[n]
taken(n) == 0

\* What it records: the size of the request, not of the node.
recorded(n, req_size) == req_size

\* Node::alloc and the assertions of BuddyAllocator::alloc.  A request that
\* is too large for any block changes nothing.
alloc(req_size) ==
  LET target == alloc_target(req_size)
  IN  /\ ~panicked
      /\ req_size <= max_available[1]
      /\ IF \/ \E n \in ancestors[target] \ {1} : max_available[n] < req_size
            \/ max_available[target] # node_size[target]
            \/ offset[target] + req_size > SIZE
         THEN panic
         ELSE /\ store(target, taken(target), recorded(target, req_size))
              /\ live' = live \cup {[start |-> offset[target], end |-> offset[target] + req_size]}

alloc_fails(req_size) ==
  /\ ~panicked
  /\ req_size > max_available[1]
  /\ UNCHANGED vars

\* The node an address and a size stand for, or the one on the way to it that
\* has no children.
stands_for(n, ptr, req_size) == ptr = offset[n] /\ req_size > half(n)

dealloc_search(ptr, req_size) ==
  LET search[n \in Node] ==
        IF stands_for(n, ptr, req_size) \/ n \notin children THEN n
        ELSE search[IF ptr < offset[n] + half(n) THEN 2 * n ELSE 2 * n + 1]
  IN  search

dealloc_target(ptr, req_size) == dealloc_search(ptr, req_size)[1]

\* Node::dealloc, called with the layout of the allocation.
dealloc(block) ==
  LET req_size == block.end - block.start
      target == dealloc_target(block.start, req_size)
  IN  /\ ~panicked
      /\ IF \/ ~stands_for(target, block.start, req_size)
            \/ max_available[target] # 0
            \/ allocated[target] # req_size
         THEN panic
         ELSE /\ store(target, node_size[target], 0)
              /\ live' = live \ {block}

\* A node in a range, and a node a range begins or ends in.
inside(n, range) == range.start <= offset[n] /\ end(n) <= range.end
overlaps(a, b) == a.start < b.end /\ b.start < a.end
touches(n, range) == overlaps([start |-> offset[n], end |-> end(n)], range)

\* The nodes Node::reserve_range passes through, and those it takes.
touched(range) == {n \in Node : touches(n, range) /\ ~inside(n, range)}
whole(range) == {n \in Node : inside(n, range) /\ (n = 1 \/ n \div 2 \in touched(range))}

\* Node::reserve_range, at boot, before anything is allocated.  The ranges in
\* the device tree and the kernel's own do not overlap.
reserve_range(range) ==
  /\ ~panicked /\ booting
  /\ \A r \in reserved : ~overlaps(r, range)
  /\ IF \E n \in whole(range) : max_available[n] # node_size[n]
     THEN panic
     ELSE /\ max_available' =
               refreshed([n \in Node |-> IF n \in whole(range) THEN 0 ELSE max_available[n]],
                         touched(range))
          /\ children' = children \cup touched(range)
          /\ reserved' = reserved \cup {range}
          /\ UNCHANGED <<allocated, live, booting, panicked>>

-----------------------------------------------------------------------------

Next ==
  \/ \E range \in Reservable : reserve_range(range)
  \/ \E req_size \in Requests : alloc(req_size)
  \/ \E req_size \in Requests : alloc_fails(req_size)
  \/ \E block \in live : dealloc(block)

Spec == Init /\ [][Next]_vars

-----------------------------------------------------------------------------
(* Properties.                                                             *)

TypeOK ==
  /\ max_available \in [Node -> 0 .. root_node_size]
  /\ allocated \in [Node -> Requests \cup {0}]
  /\ children \subseteq Node
  /\ reserved \subseteq Reservable
  /\ \A b \in live : b.start \in 0 .. SIZE - 1 /\ b.end - b.start \in Requests
  /\ booting \in BOOLEAN /\ panicked \in BOOLEAN

\* What a block takes from the range: its size rounded up.
Extent(block) ==
  [start |-> block.start, end |-> block.start + next_power_of_two(block.end - block.start)]

\* Nothing is handed out twice, no reserved memory and nothing beyond the end,
\* and a block is aligned to its size, which is at least its alignment.
BlocksSeparate ==
  \A b \in live :
    /\ b.end <= SIZE
    /\ b.start % next_power_of_two(b.end - b.start) = 0
    /\ \A r \in reserved : ~overlaps(b, r)
    /\ \A other \in live \ {b} : ~overlaps(b, other)

\* No sequence of requests makes an assertion of the allocator fail, or leaves
\* a node with more than its size.
AssertionsHold == TypeOK /\ ~panicked

\* Reference: the aligned blocks that overlap nothing taken, and lie in range.
FreeBlocks ==
  {n \in Node : /\ end(n) <= SIZE
                /\ \A r \in reserved : ~touches(n, r)
                /\ \A b \in live : ~touches(n, Extent(b))}

\* A request fails only when no free block is large enough: whatever was
\* allocated and freed before, freed buddies are merged again.
FailsOnlyWhenFull ==
  max_available[1] = Max({0} \cup {node_size[n] : n \in FreeBlocks})

\* Node::stats: what is reported as allocated and as free.
stats ==
  LET alloc_free[n \in Node] ==
        IF allocated[n] # 0 THEN [alloc |-> allocated[n], free |-> 0]
        ELSE IF n \in children
        THEN LET left == alloc_free[2 * n]
                 right == alloc_free[2 * n + 1]
             IN  [alloc |-> left.alloc + right.alloc, free |-> left.free + right.free]
        ELSE [alloc |-> 0, free |-> max_available[n]]
  IN  alloc_free[1]

\* The heap usage in the log: the bytes asked for, and the bytes still free.
StatsExact ==
  LET sizes(S) == MapThenSumSet(LAMBDA r : r.end - r.start, S)
      reported == stats
  IN  /\ reported.alloc = sizes(live)
      /\ reported.free = SIZE - sizes(reserved) - sizes({Extent(b) : b \in live})

\* The heap's accounts agree with what its callers hold, after any sequence of
\* requests: what it can still give, and what it reports.
AccountsExact == FailsOnlyWhenFull /\ StatsExact

=============================================================================
