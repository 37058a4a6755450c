------------------------------ MODULE PageMap ------------------------------
(***************************************************************************)
(* What a page table promises: a partial function from pages to frames.    *)
(* Mapping a range makes each of its pages lead to the frame at the same   *)
(* distance, unmapping makes them lead nowhere again, and neither touches  *)
(* any other page, whatever the sizes and the alignments.                  *)
(***************************************************************************)
EXTENDS Naturals

CONSTANTS VirtPage, PhysPage, None

VARIABLE frame_of       \* of each page, its frame or None

Range(start, size) == start .. start + size - 1

Init == frame_of = [v \in VirtPage |-> None]

map(virt, phys, size) ==
  /\ \A v \in Range(virt, size) : frame_of[v] = None
  /\ \A v \in VirtPage :
       frame_of'[v] = IF v \in Range(virt, size) THEN phys + (v - virt) ELSE frame_of[v]

unmap(virt, phys, size) ==
  /\ \A v \in Range(virt, size) : frame_of[v] = phys + (v - virt)
  /\ \A v \in VirtPage :
       frame_of'[v] = IF v \in Range(virt, size) THEN None ELSE frame_of[v]

\* Only ranges that lie in both address spaces are mapped.
Next ==
  /\ DOMAIN frame_of' = VirtPage
  /\ \E virt \in VirtPage, phys \in PhysPage, size \in {v + 1 : v \in VirtPage} :
       /\ Range(virt, size) \subseteq VirtPage
       /\ Range(phys, size) \subseteq PhysPage
       /\ map(virt, phys, size) \/ unmap(virt, phys, size)

Spec == Init /\ [][Next]_frame_of

=============================================================================
