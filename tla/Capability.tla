----------------------------- MODULE Capability -----------------------------
(***************************************************************************)
(* Capability certificates (types/src/capability).                         *)
(*                                                                         *)
(* A capability is the address of a certificate: the page it lies in names *)
(* the actor that certifies it, the offset its index in that page.  Every  *)
(* process can read every page and write only its own, so a certificate is *)
(* a statement its certifier makes: "granted to r", or "forwarded to r,    *)
(* and the authority is that of `inner'".  validate() walks these          *)
(* statements from the claimer back to the actor that owns the resource.   *)
(***************************************************************************)
EXTENDS Integers

CONSTANTS
  PROCESS_COUNT,          \* number of process slots, the kernel's slot 0 included
  CAPABILITIES_PER_PAGE   \* number of certificates in one page

ASSUME PageAssumption ==
  /\ PROCESS_COUNT \in Nat /\ PROCESS_COUNT >= 2
  /\ CAPABILITIES_PER_PAGE \in Nat /\ CAPABILITIES_PER_PAGE >= 1

-----------------------------------------------------------------------------

\* Actor::Kernel is page 0, Actor::Userspace(pid) is page pid.
KERNEL == 0
Actor == 0 .. PROCESS_COUNT - 1
ProcessId == 1 .. PROCESS_COUNT - 1

\* An address inside USER_CAPABILITIES, split the way certifier() and
\* local_index() split it.
RawCapability ==
  [certifier : Actor, local_index : 0 .. CAPABILITIES_PER_PAGE - 1]
KernelCapability == {c \in RawCapability : c.certifier = KERNEL}
UserCapability   == {c \in RawCapability : c.certifier # KERNEL}

\* A payload of 0 is no address in USER_CAPABILITIES: no capability at all.
NoCapability == [certifier |-> 0 - 1, local_index |-> 0]

\* The result of a validation that never comes to an end.
Endless == [certifier |-> 0 - 2, local_index |-> 0]

\* CapabilityCertificateValue: recipient and payload.  A certificate is
\* Granted when it has no payload and Forwarded otherwise.
Certificate ==
  [recipient : Actor, inner : RawCapability \cup {NoCapability}]

granted(recipient) == [recipient |-> recipient, inner |-> NoCapability]
forwarded(recipient, cap) == [recipient |-> recipient, inner |-> cap]
replace_recipient(certificate, recipient) ==
  [recipient |-> recipient, inner |-> certificate.inner]

\* The all-zero certificate of a fresh page reads as granted to the kernel.
Zeroed == granted(KERNEL)

\* The loop of RawCapability::validate: it stops at the first certificate
\* whose recipient is not the current claimer, or at the grant the chain
\* ends in, and otherwise goes on with the inner capability, claimed by the
\* certifier of this one; for at most so many steps more.
ValidationLoop(certs) ==
  LET loop[fuel \in Nat] ==
        [capability \in RawCapability |-> [claimer \in Actor |->
          IF certs[capability].recipient # claimer THEN NoCapability
          ELSE IF certs[capability].inner = NoCapability THEN capability
          ELSE IF fuel = 0 THEN Endless
          ELSE loop[fuel - 1][certs[capability].inner][capability.certifier]]]
  IN  loop

\* More steps than there are certificates mean that the chain is a cycle and
\* the loop never ends.
validate(certs, cap, orig_claimer) ==
  ValidationLoop(certs)[PROCESS_COUNT * CAPABILITIES_PER_PAGE][cap][orig_claimer]

=============================================================================
