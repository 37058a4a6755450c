---------------------------- MODULE KernelProofs ----------------------------
(***************************************************************************)
(* Proofs about the kernel core, for every number of process slots and of  *)
(* certificates per page.                                                  *)
(*                                                                         *)
(* Every action changes the process table in one of a few ways: it leaves  *)
(* it alone, kills the running process, spawns, sends, receives, replies,  *)
(* resumes or reaps.  There is one lemma for each of these effects, and an *)
(* action's proof names the effects it has.                                *)
(*                                                                         *)
(* The second half is about capabilities: what validate() finds in a set   *)
(* of certificates, by induction on the steps of its loop, and how a step  *)
(* may change the set.                                                     *)
(***************************************************************************)
EXTENDS Kernel, CommonTheorems, FiniteSetTheorems, TLAPS

-----------------------------------------------------------------------------
(* Types.                                                                  *)

LEMMA CertificateTypes ==
  /\ \A r \in Actor : granted(r) \in Certificate
  /\ \A r \in Actor, c \in RawCapability : forwarded(r, c) \in Certificate
  /\ \A r \in Actor, x \in Certificate : replace_recipient(x, r) \in Certificate
  BY DEF granted, forwarded, replace_recipient, Certificate

LEMMA ZeroActor == 0 \in Actor
  BY PageAssumption DEF Actor

LEMMA InitType == Init => TypeOK
<1> SUFFICES ASSUME Init PROVE TypeOK
  OBVIOUS
<1> USE PageAssumption, BootAssumption
<1>1. certs \in [RawCapability -> Certificate]
  <2>1. ASSUME NEW c \in RawCapability PROVE certs[c] \in Certificate
    <3>1. CASE c.certifier = KERNEL /\ c.local_index < Len(BootHandlers)
      <4>1. c.local_index + 1 \in 1 .. Len(BootHandlers)
        BY <3>1 DEF RawCapability
      <4>2. BootGrantees[c.local_index + 1] \in Actor
        BY <4>1 DEF Actor
      <4>3. certs[c] = granted(BootGrantees[c.local_index + 1])
        BY <3>1 DEF Init
      <4> QED BY <4>2, <4>3, CertificateTypes
    <3>2. CASE ~(c.certifier = KERNEL /\ c.local_index < Len(BootHandlers))
      <4>1. certs[c] \in {granted(2), Zeroed}
        BY <3>2 DEF Init
      <4> QED BY <4>1, CertificateTypes DEF Zeroed, Actor, KERNEL
    <3> QED BY <3>1, <3>2
  <2> QED BY <2>1 DEF Init
<1>2. handlers \in [0 .. CAPABILITIES_PER_PAGE - 1 -> HandlerKind \cup {"none"}]
  <2>1. \A i \in 0 .. CAPABILITIES_PER_PAGE - 1 : i < Len(BootHandlers) =>
           BootHandlers[i + 1] \in HandlerKind
    OBVIOUS
  <2> QED BY <2>1 DEF Init
<1>3. allocated \in [Actor -> 0 .. CAPABILITIES_PER_PAGE]
  BY DEF Init, Actor
<1>4. messages \in [Actor -> Seq(Message)]
  BY DEF Init
<1> QED
  BY <1>1, <1>2, <1>3, <1>4 DEF Init, TypeOK, ProcessState, Actor, KERNEL


LEMMA KillType == TypeOK /\ kill => TypeOK'
  BY PageAssumption DEF TypeOK, kill, yield, capVars, ProcessState

LEMMA HaltType ==
  ASSUME TypeOK, NEW how \in Panics \cup {"shutdown"}, halt(how)
  PROVE  TypeOK'
  BY DEF TypeOK, halt, procVars, capVars

LEMMA RejectType == \A target : TypeOK /\ reject(target) => TypeOK'
  BY KillType, HaltType DEF reject, Panics

LEMMA StutterType == TypeOK /\ UNCHANGED vars => TypeOK'
  BY DEF TypeOK, vars, procVars, schedVars, capVars

LEMMA GrantKernelType ==
  ASSUME TypeOK, NEW kind \in HandlerKind, grant_kernel_capability(current, kind)
  PROVE  TypeOK'
<1> USE PageAssumption
<1> DEFINE index == allocated[KERNEL]
           cap == [certifier |-> KERNEL, local_index |-> index]
<1>1. CASE index >= CAPABILITIES_PER_PAGE
  BY <1>1, HaltType DEF grant_kernel_capability, Panics
<1>2. CASE ~(index >= CAPABILITIES_PER_PAGE)
  <2>1. KERNEL \in Actor
    BY DEF KERNEL, Actor
  <2>2. index \in 0 .. CAPABILITIES_PER_PAGE - 1
    BY <1>2, <2>1 DEF TypeOK
  <2>3. allocated' \in [Actor -> 0 .. CAPABILITIES_PER_PAGE]
    <3>1. index + 1 \in 0 .. CAPABILITIES_PER_PAGE
      BY <2>2
    <3>2. allocated' = [allocated EXCEPT ![KERNEL] = index + 1]
      BY <1>2 DEF grant_kernel_capability
    <3> HIDE DEF index
    <3> QED BY <2>1, <3>1, <3>2 DEF TypeOK
  <2>4. handlers' \in [0 .. CAPABILITIES_PER_PAGE - 1 -> HandlerKind \cup {"none"}]
    BY <1>2, <2>2 DEF TypeOK, grant_kernel_capability, install_handler
  <2>5. certs' \in [RawCapability -> Certificate]
    BY <1>2, CertificateTypes DEF TypeOK, grant_kernel_capability
  <2> QED
    BY <1>2, <2>3, <2>4, <2>5 DEF TypeOK, grant_kernel_capability, procVars, schedVars
<1> QED BY <1>1, <1>2

LEMMA SpawnType ==
  ASSUME TypeOK, NEW args \in SpawnArgs, spawn(args)
  PROVE  TypeOK'
<1> USE PageAssumption
<1> DEFINE pid == reserve_process
           export == [certifier |-> pid, local_index |-> 0]
<1>1. CASE \E cap \in args : cap.certifier # current
  BY <1>1, HaltType DEF spawn, Panics
<1>2. CASE pid >= PROCESS_COUNT /\ ~(\E cap \in args : cap.certifier # current)
  BY <1>2, HaltType DEF spawn, Panics
<1>3. CASE ~(pid >= PROCESS_COUNT) /\ ~(\E cap \in args : cap.certifier # current)
  <2>1. pid \in Actor
    BY <1>3 DEF TypeOK, reserve_process, Actor
  <2>2. certs' \in [RawCapability -> Certificate]
    <3>1. \A c \in RawCapability :
             (IF c = export THEN granted(current)
              ELSE IF c \in args THEN argument_certificate(c, pid) ELSE certs[c]) \in Certificate
      BY <2>1, CertificateTypes DEF TypeOK, argument_certificate
    <3> QED BY <1>3, <3>1 DEF spawn
  <2>3. state' \in [Actor -> ProcessState]
    BY <1>3, <2>1 DEF TypeOK, spawn, ProcessState
  <2>4. messages' \in [Actor -> Seq(Message)]
    <3>1. messages' = [messages EXCEPT ![pid] = <<>>] /\ <<>> \in Seq(Message)
      BY <1>3 DEF spawn
    <3> HIDE DEF pid
    <3> QED BY <2>1, <3>1 DEF TypeOK
  <2>5. serving' \in [Actor -> Actor]
    BY <1>3, <2>1, ZeroActor DEF TypeOK, spawn
  <2>6. allocated' \in [Actor -> 0 .. CAPABILITIES_PER_PAGE]
    <3>1. 1 \in 0 .. CAPABILITIES_PER_PAGE
      OBVIOUS
    <3> QED BY <1>3, <2>1, <3>1 DEF TypeOK, spawn
  <2>7. reserved' \in 0 .. PROCESS_COUNT - 1
    BY <1>3, <2>1 DEF spawn, Actor
  <2> QED
    BY <1>3, <2>2, <2>3, <2>4, <2>5, <2>6, <2>7 DEF TypeOK, spawn, schedVars
<1> QED BY <1>1, <1>2, <1>3

LEMMA CallMethodType ==
  ASSUME TypeOK, NEW index, call_method(index)
  PROVE  TypeOK'
  BY KillType, HaltType, StutterType, GrantKernelType, SpawnType
  DEF call_method, Panics, HandlerKind

LEMMA MapHandlerType ==
  ASSUME TypeOK, NEW index, NEW expected, map_handler(index, expected)
  PROVE  TypeOK'
  BY KillType, HaltType, StutterType DEF map_handler, Panics

LEMMA SendType ==
  ASSUME TypeOK, NEW target \in RawCapability,
         NEW waiting \in {"WaitingForReply", "WaitingForStreamMap"},
         NEW method \in Method, send(target, waiting, method)
  PROVE  TypeOK'
<1> DEFINE m == [cap |-> target, method |-> method, sender |-> current]
<1>1. m \in Message /\ target.certifier \in Actor
  BY DEF TypeOK, Message, RawCapability
<1>2. messages' \in [Actor -> Seq(Message)]
  BY <1>1 DEF TypeOK, send
<1>3. state' \in [Actor -> ProcessState] /\ from' \in [Actor -> Actor]
  BY <1>1 DEF TypeOK, send, sender_state, ProcessState
<1> QED
  BY <1>2, <1>3, PageAssumption DEF TypeOK, send, yield, capVars

LEMMA CallType == \A cap : \A method \in Method : TypeOK /\ ipc_call(cap, method) => TypeOK'
  BY RejectType, HaltType, KillType, SendType, CallMethodType
  DEF ipc_call, Panics, UserCapability

LEMMA StreamType == \A cap : TypeOK /\ ipc_stream(cap) => TypeOK'
  BY RejectType, HaltType, SendType, MapHandlerType
  DEF ipc_stream, Panics, UserCapability, stream_method, Method

LEMMA ReceiveType == \A fits : TypeOK /\ ipc_receive(fits) => TypeOK'
<1> SUFFICES ASSUME NEW fits, TypeOK, ipc_receive(fits) PROVE TypeOK'
  OBVIOUS
<1>1. CASE serving[current] # 0 /\ kill
  BY <1>1, KillType
<1>2. CASE UNCHANGED vars
  BY <1>2, StutterType
<1>3. CASE serving[current] = 0 /\ messages[current] # <<>>
  <2>1. /\ messages[current] \in Seq(Message) /\ current \in Actor
        /\ Head(messages[current]) \in Message /\ Tail(messages[current]) \in Seq(Message)
    BY <1>3 DEF TypeOK
  <2>2. messages' \in [Actor -> Seq(Message)]
    BY <1>3, <2>1 DEF TypeOK, ipc_receive, pop_front
  <2>3. Head(messages[current]).sender \in Actor
    BY <2>1 DEF Message
  <2>4. CASE fits
    <3>1. serving' = [serving EXCEPT ![current] = Head(messages[current]).sender]
      BY <1>3, <2>4 DEF ipc_receive, now_serving
    <3>2. serving' \in [Actor -> Actor]
      BY <2>1, <2>3, <3>1 DEF TypeOK
    <3> QED
      BY <1>3, <2>2, <2>4, <3>2 DEF TypeOK, ipc_receive, schedVars, capVars
  <2>5. CASE ~fits
    <3>1. state' = [state EXCEPT ![current] = "Finished"]
      BY <1>3, <2>5 DEF ipc_receive
    <3>2. state' \in [Actor -> ProcessState]
      BY <3>1 DEF TypeOK, ProcessState
    <3>3. yield /\ UNCHANGED <<serving, from, reserved, capVars>>
      BY <1>3, <2>5 DEF ipc_receive
    <3> QED
      BY <2>2, <3>2, <3>3, PageAssumption DEF TypeOK, yield, capVars
  <2> QED BY <2>4, <2>5
<1> QED BY <1>1, <1>2, <1>3 DEF ipc_receive

LEMMA RefuseReplyType == TypeOK /\ refuse_reply => TypeOK'
<1> SUFFICES ASSUME TypeOK, refuse_reply PROVE TypeOK'
  OBVIOUS
<1>1. serving' \in [Actor -> Actor]
  BY ZeroActor DEF TypeOK, refuse_reply
<1>2. state' \in [Actor -> ProcessState]
  BY DEF TypeOK, refuse_reply, ProcessState
<1> QED
  BY <1>1, <1>2, PageAssumption DEF TypeOK, refuse_reply, yield, capVars

LEMMA ReplyType ==
  ASSUME TypeOK, NEW caller \in Actor, NEW become \in {"ReadyReply", "ReadyStreamMap"},
         reply(caller, become)
  PROVE  TypeOK'
<1>1. serving' \in [Actor -> Actor]
  BY ZeroActor DEF TypeOK, reply
<1>2. state' \in [Actor -> ProcessState]
  BY DEF TypeOK, reply, ProcessState
<1> QED
  BY <1>1, <1>2 DEF TypeOK, reply, schedVars, capVars

LEMMA IpcReplyType == \A ring : TypeOK /\ ipc_reply(ring) => TypeOK'
<1> SUFFICES ASSUME NEW ring, TypeOK, ipc_reply(ring) PROVE TypeOK'
  OBVIOUS
<1>1. serving[current] \in Actor
  BY DEF TypeOK
<1>2. ASSUME reply_stream(serving[current], ring) PROVE TypeOK'
  BY <1>1, <1>2, RefuseReplyType, HaltType, ReplyType DEF reply_stream, Panics
<1> QED
  BY <1>1, <1>2, KillType, HaltType, RefuseReplyType, ReplyType DEF ipc_reply, Panics

LEMMA CertifyType ==
  ASSUME TypeOK, NEW certificate \in Certificate, certify(certificate)
  PROVE  TypeOK'
<1> USE PageAssumption
<1>1. CASE ~slot_exists(next_index(current))
  BY <1>1, KillType DEF certify
<1>2. CASE slot_exists(next_index(current))
  <2>1. certs' \in [RawCapability -> Certificate]
    BY <1>2 DEF TypeOK, certify
  <2>2. allocated' \in [Actor -> 0 .. CAPABILITIES_PER_PAGE]
    <3>1. allocated[current] + 1 \in 0 .. CAPABILITIES_PER_PAGE
      BY <1>2 DEF TypeOK, slot_exists, next_index
    <3>2. allocated' = [allocated EXCEPT ![current] = allocated[current] + 1]
      BY <1>2 DEF certify
    <3> DEFINE more == allocated[current] + 1
    <3> HIDE DEF more
    <3>3. allocated' = [allocated EXCEPT ![current] = more] /\ more \in 0 .. CAPABILITIES_PER_PAGE
      BY <3>1, <3>2 DEF more
    <3> QED BY <3>3 DEF TypeOK
  <2> QED
    BY <1>2, <2>1, <2>2 DEF TypeOK, certify, procVars, schedVars
<1> QED BY <1>1, <1>2

LEMMA ScanIndexType == TypeOK => (scan_start + scan_offset) % PROCESS_COUNT \in Actor
<1> SUFFICES ASSUME TypeOK PROVE (scan_start + scan_offset) % PROCESS_COUNT \in Actor
  OBVIOUS
<1>1. scan_start + scan_offset \in Nat
  BY PageAssumption DEF TypeOK, scan_start, Actor
<1>2. \A n \in Nat : n % PROCESS_COUNT \in 0 .. PROCESS_COUNT - 1
  BY PageAssumption
<1> QED BY <1>1, <1>2 DEF Actor

LEMMA FindType == TypeOK /\ find_runnable_process => TypeOK'
<1> SUFFICES ASSUME TypeOK, find_runnable_process PROVE TypeOK'
  OBVIOUS
<1> USE PageAssumption
<1> DEFINE p == (scan_start + scan_offset) % PROCESS_COUNT
<1>1. p \in Actor
  BY ScanIndexType
<1> HIDE DEF p
<1>2. scan_offset + 1 \in 0 .. PROCESS_COUNT
  BY DEF TypeOK, find_runnable_process
<1>3. CASE resume_process(p)
  <2>1. state' \in [Actor -> ProcessState]
    <3>1. \/ state' \in {[state EXCEPT ![p] = "Runnable"], [state EXCEPT ![p] = "Finished"]}
          \/ state' = state
      BY <1>3 DEF resume_process
    <3> QED BY <1>1, <3>1 DEF TypeOK, ProcessState
  <2>2. mode' \in {"user", "scan", "shutdown"} \cup Panics
    <3>1. mode' \in {mode, "user", "stream does not fit the heap"}
      BY <1>3 DEF resume_process
    <3> QED BY <3>1 DEF TypeOK, Panics
  <2>3. scan_offset' \in 0 .. PROCESS_COUNT
    <3>1. scan_offset' \in {scan_offset, 0}
      BY <1>3 DEF resume_process
    <3> QED BY <3>1 DEF TypeOK
  <2> QED
    BY <1>1, <1>3, <2>1, <2>2, <2>3 DEF TypeOK, resume_process, capVars
<1>4. CASE reap(p)
  <2>1. state' \in [Actor -> ProcessState]
    BY <1>1, <1>4 DEF TypeOK, reap, ProcessState
  <2>2. messages' \in [Actor -> Seq(Message)]
    BY <1>1, <1>4 DEF TypeOK, reap
  <2>3. serving' \in [Actor -> Actor]
    BY <1>1, <1>4, ZeroActor DEF TypeOK, reap
  <2> QED
    BY <1>2, <1>4, <2>1, <2>2, <2>3 DEF TypeOK, reap, capVars
<1>5. CASE scan_offset' = scan_offset + 1 /\ UNCHANGED <<procVars, current, mode, capVars>>
  BY <1>2, <1>5 DEF TypeOK, procVars, capVars
<1> QED BY <1>3, <1>4, <1>5 DEF find_runnable_process, p

LEMMA TypeStep == TypeOK /\ [Next]_vars => TypeOK'
<1> SUFFICES ASSUME TypeOK, [Next]_vars PROVE TypeOK'
  OBVIOUS
<1>1. CASE exit
  BY <1>1, KillType DEF exit
<1>2. CASE yield_
  BY <1>2, PageAssumption DEF yield_, yield, TypeOK, procVars, capVars
<1>3. CASE \E cap \in Issued, method \in Method : ipc_call(cap, method)
  BY <1>3, CallType
<1>4. CASE \E cap \in Issued : ipc_stream(cap)
  BY <1>4, StreamType
<1>5. CASE \E fits \in BOOLEAN : ipc_receive(fits)
  BY <1>5, ReceiveType
<1>6. CASE \E ring \in Issued : ipc_reply(ring)
  BY <1>6, IpcReplyType
<1>7. CASE alloc_shared
  BY <1>7, KillType, GrantKernelType DEF alloc_shared, HandlerKind
<1>8. CASE \E cap \in Issued : map_shared(cap)
  BY <1>8, RejectType, KillType, MapHandlerType DEF map_shared
<1>9. CASE alloc \/ free \/ log \/ handle_page_fault
  BY <1>9, KillType, StutterType, HaltType DEF alloc, free, log, handle_page_fault, Panics
<1>10. CASE Userspace
  <2>1. ASSUME NEW f \in Forwards, forward(f[1], f[2]) PROVE TypeOK'
    <3>1. f[1] \in RawCapability /\ f[2] \in Actor
      BY BootAssumption
    <3> QED BY <2>1, <3>1, CertifyType, CertificateTypes DEF forward
  <2> QED BY <1>10, <2>1, CertifyType, CertificateTypes DEF Userspace, grant
<1>11. CASE find_runnable_process
  BY <1>11, FindType
<1>12. CASE schedule_userspace
  BY <1>12, HaltType DEF schedule_userspace
<1>13. CASE UNCHANGED vars
  BY <1>13, StutterType
<1> QED
  BY <1>1, <1>2, <1>3, <1>4, <1>5, <1>6, <1>7, <1>8, <1>9, <1>10, <1>11, <1>12, <1>13
  DEF Next, Syscall, Schedule, halted

\* Every variable keeps its type: in particular pids, indices into the
\* certificate pages and the handler table, and queued requests stay in range.
THEOREM TypeCorrect == Spec => []TypeOK
  BY InitType, TypeStep, PTL DEF Spec

-----------------------------------------------------------------------------
(* Requests.  ExactlyOneRequest is not inductive: it says nothing of who is *)
(* in which slot.  Slots adds that a pid not yet reserved has an empty slot *)
(* and nobody waits for it (so a new process starts with no callers), that  *)
(* nobody waits for itself, and that the running process is Runnable (so it *)
(* waits for nobody when it kills, sends or replies).                       *)

ReplyPanics == {"reply to nonexistent process", "reply to process that does not wait"}

Slots ==
  /\ state[0] = "None"
  /\ \A p \in Actor : state[p] # "None" => p <= reserved
  /\ \A p \in Actor : Waiting(p) => from[p] \in 1 .. reserved /\ from[p] # p
  /\ mode = "user" => state[current] = "Runnable"
  /\ mode \notin ReplyPanics

\* ExactlyOneRequest, server by server.
Server(a) ==
  /\ serving[a] # 0 => WaitingOn(serving[a], a)
  /\ \A i \in DOMAIN messages[a] : WaitingOn(messages[a][i].sender, a)
  /\ \A i \in DOMAIN messages[a] : messages[a][i].sender # serving[a]
  /\ \A i, j \in DOMAIN messages[a] :
       messages[a][i].sender = messages[a][j].sender => i = j
  /\ \A c \in ProcessId : WaitingOn(c, a) =>
       serving[a] = c \/ \E i \in DOMAIN messages[a] : messages[a][i].sender = c

Servers == \A a \in ProcessId : ~Dead(a) => Server(a)

IpcInv == TypeOK /\ Slots /\ Servers

LEMMA ServersAreExact == Servers <=> ExactlyOneRequest
  BY DEF Servers, Server, ExactlyOneRequest, RequestsAwaited, RequestsUnique, RequestsKept

LEMMA ProcessIds == ProcessId \subseteq Actor /\ 0 \notin ProcessId
  BY PageAssumption DEF ProcessId, Actor

LEMMA SenderType ==
  ASSUME TypeOK, NEW a \in Actor, NEW i \in DOMAIN messages[a]
  PROVE  messages[a][i].sender \in Actor
<1>1. messages[a] \in Seq(Message)
  BY DEF TypeOK
<1>2. messages[a][i] \in Message
  BY <1>1
<1> QED BY <1>2 DEF Message

\* A server's requests are in order as long as its queue, the process it
\* serves and the set of those waiting for it stay the same.
LEMMA ServerFrame ==
  ASSUME TypeOK, NEW a \in ProcessId, Server(a),
         messages'[a] = messages[a], serving'[a] = serving[a],
         \A c \in Actor : WaitingOn(c, a)' <=> WaitingOn(c, a)
  PROVE  Server(a)'
<1>1. a \in Actor /\ serving[a] \in Actor
  BY ProcessIds DEF TypeOK
<1>2. \A i \in DOMAIN messages[a] : messages[a][i].sender \in Actor
  BY <1>1, SenderType
<1> QED
  BY <1>1, <1>2, ProcessIds DEF Server

LEMMA WaitingFrame ==
  ASSUME TypeOK, from' = from, NEW p \in Actor, ~Waiting(p),
         NEW s, s \notin {"WaitingForReply", "WaitingForStreamMap"},
         state' = [state EXCEPT ![p] = s]
  PROVE  \A a, c \in Actor : WaitingOn(c, a)' <=> WaitingOn(c, a)
  BY DEF TypeOK, WaitingOn, Waiting

\* Halting, and everything that only touches memory or certificates.
LEMMA UnchangedInv ==
  ASSUME IpcInv, UNCHANGED procVars,
         mode' = "user" => mode = "user" /\ current' = current, mode' \notin ReplyPanics
  PROVE  Slots' /\ Servers'
<1>1. Slots'
  BY DEF IpcInv, Slots, procVars, Waiting
<1>2. Servers'
  BY DEF IpcInv, Servers, Server, procVars, Waiting, WaitingOn, Dead
<1> QED BY <1>1, <1>2

\* The running process dies; what becomes of its queue does not matter.
LEMMA DieInv ==
  ASSUME IpcInv, mode = "user", state' = [state EXCEPT ![current] = "Finished"],
         from' = from, reserved' = reserved, mode' = "scan",
         \A a \in Actor : a # current => messages'[a] = messages[a] /\ serving'[a] = serving[a]
  PROVE  Slots' /\ Servers'
<1>0. TypeOK /\ current \in Actor /\ ~Waiting(current) /\ state[current] = "Runnable"
  BY DEF IpcInv, Slots, Waiting, TypeOK
<1>1. Slots'
  BY <1>0, ZeroActor DEF IpcInv, Slots, Waiting, TypeOK, ReplyPanics
<1>2. ASSUME NEW a \in ProcessId, ~Dead(a)' PROVE Server(a)'
  <2>1. a \in Actor /\ a # current /\ state'[a] = state[a]
    BY <1>0, <1>2, ProcessIds DEF Dead, TypeOK
  <2>2. Server(a)
    BY <1>2, <2>1 DEF IpcInv, Servers, Dead
  <2>3. \A c \in Actor : WaitingOn(c, a)' <=> WaitingOn(c, a)
    BY <1>0, <2>1, WaitingFrame
  <2> QED BY <1>0, <2>1, <2>2, <2>3, ServerFrame
<1> QED BY <1>1, <1>2 DEF Servers

LEMMA KillInv ==
  ASSUME IpcInv, mode = "user", kill
  PROVE  Slots' /\ Servers'
  BY DieInv DEF kill, yield

LEMMA HaltInv ==
  ASSUME IpcInv, NEW how, how # "user", how \notin ReplyPanics, halt(how)
  PROVE  Slots' /\ Servers'
  BY UnchangedInv DEF halt

LEMMA StutterInv == ASSUME IpcInv, UNCHANGED vars PROVE Slots' /\ Servers'
<1>1. UNCHANGED procVars /\ mode' = mode /\ current' = current
  BY DEF vars, schedVars
<1> QED BY <1>1, UnchangedInv DEF IpcInv, Slots

LEMMA GrantKernelInv ==
  ASSUME IpcInv, NEW kind, grant_kernel_capability(current, kind)
  PROVE  Slots' /\ Servers'
<1>1. CASE halt("handler table full")
  BY <1>1, HaltInv DEF ReplyPanics
<1>2. CASE UNCHANGED <<procVars, schedVars>>
  BY <1>2, UnchangedInv DEF schedVars, IpcInv, Slots
<1> QED BY <1>1, <1>2 DEF grant_kernel_capability

\* The new process has no callers: nobody could wait for its pid before.
LEMMA SpawnInv ==
  ASSUME IpcInv, NEW args, spawn(args)
  PROVE  Slots' /\ Servers'
<1>0. PICK pid : pid = reserved + 1
  OBVIOUS
<1>1. CASE halt("argument not certified by sender") \/ halt("process table full")
  BY <1>1, HaltInv DEF ReplyPanics
<1>2. CASE /\ pid < PROCESS_COUNT
           /\ reserved' = pid
           /\ state' = [state EXCEPT ![pid] = "Runnable"]
           /\ messages' = [messages EXCEPT ![pid] = <<>>]
           /\ serving' = [serving EXCEPT ![pid] = 0]
           /\ UNCHANGED <<from, schedVars>>
  <2>0. TypeOK /\ pid \in Actor /\ pid # 0 /\ reserved \in Nat
    <3>1. TypeOK
      BY DEF IpcInv
    <3>2. reserved \in 0 .. PROCESS_COUNT - 1
      BY <3>1 DEF TypeOK
    <3> QED BY <1>0, <1>2, <3>1, <3>2, PageAssumption DEF Actor
  <2>1. state[pid] = "None" /\ ~Waiting(pid)
    <3>1. ~(pid <= reserved)
      BY <1>0, <2>0
    <3> QED BY <2>0, <3>1 DEF IpcInv, Slots, Waiting
  <2>2. Slots'
    <3>1. state'[0] = "None"
      BY <1>2, <2>0, ZeroActor DEF IpcInv, Slots, TypeOK
    <3>2. \A p \in Actor : state'[p] # "None" => p <= reserved'
      BY <1>0, <1>2, <2>0 DEF IpcInv, Slots, TypeOK, Actor
    <3>3. ASSUME NEW p \in Actor, Waiting(p)'
          PROVE  from'[p] \in 1 .. reserved' /\ from'[p] # p
      <4>1. Waiting(p)
        BY <1>2, <2>0, <3>3 DEF Waiting, TypeOK
      <4> QED BY <1>0, <1>2, <2>0, <4>1 DEF IpcInv, Slots
    <3>4. mode' = "user" => state'[current'] = "Runnable"
      BY <1>2, <2>0 DEF IpcInv, Slots, TypeOK, schedVars
    <3> QED BY <1>2, <3>1, <3>2, <3>3, <3>4 DEF IpcInv, Slots, schedVars
  <2>3. \A a, c \in Actor : WaitingOn(c, a)' <=> WaitingOn(c, a)
    BY <1>2, <2>0, <2>1, WaitingFrame
  <2>4. ASSUME NEW a \in ProcessId, ~Dead(a)', a # pid PROVE Server(a)'
    <3>1. a \in Actor /\ ~Dead(a) /\ messages'[a] = messages[a] /\ serving'[a] = serving[a]
      BY <1>2, <2>0, <2>4, ProcessIds DEF Dead, TypeOK
    <3> QED BY <2>0, <2>3, <3>1, ServerFrame DEF IpcInv, Servers
  <2>5. Server(pid)'
    <3>1. messages'[pid] = <<>> /\ serving'[pid] = 0
      BY <1>2, <2>0 DEF TypeOK
    <3>2. \A c \in ProcessId : ~WaitingOn(c, pid)'
      BY <1>0, <2>0, <2>3, ProcessIds DEF IpcInv, Slots, WaitingOn
    <3> QED BY <3>1, <3>2 DEF Server
  <2> QED BY <2>2, <2>4, <2>5 DEF Servers
<1>3. reserved \in Int /\ PROCESS_COUNT \in Int
  BY PageAssumption DEF IpcInv, TypeOK
<1>4. pid >= PROCESS_COUNT \/ pid < PROCESS_COUNT
  BY <1>0, <1>3
<1> QED BY <1>0, <1>1, <1>2, <1>4 DEF spawn, reserve_process

LEMMA CallMethodInv ==
  ASSUME IpcInv, mode = "user", NEW index, call_method(index)
  PROVE  Slots' /\ Servers'
  BY KillInv, HaltInv, StutterInv, GrantKernelInv, SpawnInv DEF call_method, ReplyPanics

LEMMA MapHandlerInv ==
  ASSUME IpcInv, mode = "user", NEW index, NEW expected, map_handler(index, expected)
  PROVE  Slots' /\ Servers'
  BY KillInv, HaltInv, StutterInv DEF map_handler, ReplyPanics

LEMMA RejectInv ==
  ASSUME IpcInv, mode = "user", NEW target, reject(target)
  PROVE  Slots' /\ Servers'
  BY KillInv, HaltInv DEF reject, ReplyPanics

\* The new request goes to the end of the queue, behind those of others: its
\* sender was Runnable, so it is neither queued nor being served.
LEMMA SendInv ==
  ASSUME IpcInv, mode = "user", NEW target \in UserCapability,
         target.certifier # current, state[target.certifier] # "None",
         NEW waiting \in {"WaitingForReply", "WaitingForStreamMap"},
         NEW method \in Method, send(target, waiting, method)
  PROVE  Slots' /\ Servers'
<1>0. PICK me, dest : me = current /\ dest = target.certifier
  OBVIOUS
<1>1. /\ TypeOK /\ me \in Actor /\ dest \in Actor /\ dest # 0 /\ dest # me
      /\ state[me] = "Runnable" /\ ~Waiting(me) /\ me # 0 /\ reserved \in Nat
  BY <1>0 DEF IpcInv, Slots, Waiting, TypeOK, UserCapability, RawCapability, KERNEL
<1>2. PICK m : m = [cap |-> target, method |-> method, sender |-> me]
  OBVIOUS
<1>3. /\ state' = [state EXCEPT ![me] = waiting]
      /\ from' = [from EXCEPT ![me] = dest]
      /\ messages' = [messages EXCEPT ![dest] = Append(messages[dest], m)]
      /\ serving' = serving /\ reserved' = reserved /\ mode' = "scan"
  BY <1>0, <1>2 DEF send, sender_state, yield
<1>4. \A c \in Actor : WaitingOn(c, dest)' <=> c = me \/ WaitingOn(c, dest)
  BY <1>1, <1>3 DEF TypeOK, WaitingOn, Waiting
<1>5. Slots'
  <2>1. state'[0] = "None"
    BY <1>1, <1>3, ZeroActor DEF IpcInv, Slots, TypeOK
  <2>2. \A p \in Actor : state'[p] # "None" => p <= reserved'
    BY <1>1, <1>3 DEF IpcInv, Slots, TypeOK
  <2>3. dest \in 1 .. reserved
    BY <1>0, <1>1 DEF IpcInv, Slots, Actor
  <2>4. ASSUME NEW p \in Actor, Waiting(p)'
        PROVE  from'[p] \in 1 .. reserved' /\ from'[p] # p
    <3>1. CASE p = me
      BY <1>1, <1>3, <2>3, <3>1 DEF TypeOK
    <3>2. CASE p # me
      BY <1>1, <1>3, <2>4, <3>2 DEF IpcInv, Slots, TypeOK, Waiting
    <3> QED BY <3>1, <3>2
  <2> QED BY <1>3, <2>1, <2>2, <2>4 DEF Slots, ReplyPanics
<1>6. ASSUME NEW a \in ProcessId, ~Dead(a)', a # dest PROVE Server(a)'
  <2>1. a \in Actor /\ messages'[a] = messages[a] /\ serving'[a] = serving[a]
    BY <1>1, <1>3, <1>6, ProcessIds DEF TypeOK
  <2>2. ~Dead(a)
    BY <1>1, <1>3, <1>6, <2>1 DEF Dead, TypeOK
  <2>3. \A c \in Actor : WaitingOn(c, a)' <=> WaitingOn(c, a)
    BY <1>1, <1>3, <1>6, <2>1 DEF TypeOK, WaitingOn, Waiting
  <2> QED BY <1>1, <2>1, <2>2, <2>3, ServerFrame DEF IpcInv, Servers
<1>7. ASSUME ~Dead(dest)' PROVE Server(dest)'
  <2>1. Server(dest)
    <3>1. ~Dead(dest) /\ dest \in ProcessId
      BY <1>1, <1>3, <1>7 DEF Dead, TypeOK, ProcessId, Actor
    <3> QED BY <3>1 DEF IpcInv, Servers
  <2>2. PICK q, n : q = messages[dest] /\ n = Len(q)
    OBVIOUS
  <2>3. q \in Seq(Message) /\ n \in Nat /\ DOMAIN q = 1 .. n
    BY <1>1, <2>2 DEF TypeOK
  <2>4. /\ messages'[dest] = Append(q, m) /\ DOMAIN Append(q, m) = 1 .. n + 1
        /\ Append(q, m)[n + 1] = m /\ \A i \in 1 .. n : Append(q, m)[i] = q[i]
    BY <1>1, <1>3, <2>2, <2>3 DEF TypeOK
  <2>5. \A i \in 1 .. n : q[i].sender \in Actor /\ q[i].sender # me /\ WaitingOn(q[i].sender, dest)
    BY <1>1, <2>1, <2>2, <2>3, SenderType DEF Server, WaitingOn
  <2>6. serving'[dest] = serving[dest] /\ serving[dest] \in Actor /\ serving[dest] # me
    BY <1>1, <1>3, <2>1 DEF Server, WaitingOn, TypeOK
  <2>7. m.sender = me
    BY <1>2
  <2>8. (serving[dest] # 0 => WaitingOn(serving[dest], dest))'
    BY <1>4, <2>1, <2>6 DEF Server, WaitingOn, Waiting
  <2>9. ASSUME NEW i \in 1 .. n + 1
        PROVE  /\ WaitingOn(Append(q, m)[i].sender, dest)'
               /\ Append(q, m)[i].sender # serving'[dest]
    <3>1. CASE i = n + 1
      BY <1>1, <1>4, <2>4, <2>6, <2>7, <3>1
    <3>2. CASE i \in 1 .. n
      BY <1>4, <2>1, <2>2, <2>3, <2>4, <2>5, <2>6, <3>2 DEF Server
    <3> QED BY <2>3, <3>1, <3>2
  <2>10. ASSUME NEW i \in 1 .. n + 1, NEW j \in 1 .. n + 1,
                Append(q, m)[i].sender = Append(q, m)[j].sender
         PROVE  i = j
    <3>1. (i \in 1 .. n \/ i = n + 1) /\ (j \in 1 .. n \/ j = n + 1)
      BY <2>3
    <3>2. i \in 1 .. n /\ j \in 1 .. n => q[i].sender = q[j].sender
      BY <2>4, <2>10
    <3> QED BY <2>1, <2>2, <2>3, <2>4, <2>5, <2>7, <2>10, <3>1, <3>2 DEF Server
  <2>11. ASSUME NEW c \in ProcessId, WaitingOn(c, dest)'
         PROVE  serving'[dest] = c \/ \E i \in 1 .. n + 1 : Append(q, m)[i].sender = c
    <3>1. CASE c = me
      BY <2>3, <2>4, <2>7, <3>1
    <3>2. CASE c # me
      <4>1. serving[dest] = c \/ \E i \in 1 .. n : q[i].sender = c
        BY <1>4, <2>1, <2>2, <2>3, <2>11, <3>2, ProcessIds DEF Server
      <4> QED BY <2>3, <2>4, <2>6, <4>1
    <3> QED BY <3>1, <3>2
  <2>12. (\A i \in DOMAIN messages[dest] : WaitingOn(messages[dest][i].sender, dest))'
    BY <2>4, <2>9 DEF WaitingOn, Waiting
  <2>13. \A i \in DOMAIN messages'[dest] : messages'[dest][i].sender # serving'[dest]
    BY <2>4, <2>9
  <2>14. \A i, j \in DOMAIN messages'[dest] :
           messages'[dest][i].sender = messages'[dest][j].sender => i = j
    BY <2>4, <2>10
  <2>15. \A c \in ProcessId : WaitingOn(c, dest)' =>
           serving'[dest] = c \/ \E i \in DOMAIN messages'[dest] : messages'[dest][i].sender = c
    BY <2>4, <2>11
  <2> QED BY <2>8, <2>12, <2>13, <2>14, <2>15 DEF Server
<1> QED BY <1>5, <1>6, <1>7 DEF Servers

LEMMA CallInv ==
  ASSUME IpcInv, NEW cap, NEW method \in Method, ipc_call(cap, method)
  PROVE  Slots' /\ Servers'
  BY RejectInv, HaltInv, KillInv, SendInv, CallMethodInv DEF ipc_call, ReplyPanics

LEMMA StreamInv ==
  ASSUME IpcInv, NEW cap, ipc_stream(cap)
  PROVE  Slots' /\ Servers'
  BY RejectInv, HaltInv, SendInv, MapHandlerInv
  DEF ipc_stream, ReplyPanics, stream_method, Method

\* The sender of the first request leaves the queue and is served.
LEMMA TakeInv ==
  ASSUME IpcInv, mode = "user", serving[current] = 0, messages[current] # <<>>,
         messages' = [messages EXCEPT ![current] = Tail(messages[current])],
         serving' = [serving EXCEPT ![current] = Head(messages[current]).sender],
         UNCHANGED <<state, from, reserved, current, mode>>
  PROVE  Slots' /\ Servers'
<1>0. PICK me, q, n : me = current /\ q = messages[me] /\ n = Len(q)
  OBVIOUS
<1>1. TypeOK /\ me \in Actor /\ state[me] = "Runnable"
  BY <1>0 DEF IpcInv, Slots, TypeOK
<1>2. q \in Seq(Message) /\ q # <<>> /\ n \in Nat \ {0} /\ DOMAIN q = 1 .. n
  BY <1>0, <1>1 DEF TypeOK
<1>3. /\ messages'[me] = Tail(q) /\ DOMAIN Tail(q) = 1 .. n - 1
      /\ \A i \in 1 .. n - 1 : Tail(q)[i] = q[i + 1]
      /\ serving'[me] = q[1].sender
  BY <1>0, <1>1, <1>2 DEF TypeOK
<1>4. Slots'
  BY DEF IpcInv, Slots, Waiting
<1>5. ASSUME NEW a \in ProcessId, ~Dead(a)', a # me PROVE Server(a)'
  <2>1. a \in Actor /\ messages'[a] = messages[a] /\ serving'[a] = serving[a] /\ ~Dead(a)
    BY <1>0, <1>1, <1>5, ProcessIds DEF TypeOK, Dead
  <2>2. \A c \in Actor : WaitingOn(c, a)' <=> WaitingOn(c, a)
    BY DEF WaitingOn, Waiting
  <2> QED BY <1>1, <2>1, <2>2, ServerFrame DEF IpcInv, Servers
<1>6. ASSUME me \in ProcessId PROVE Server(me)'
  <2>1. Server(me)
    BY <1>1, <1>6 DEF IpcInv, Servers, Dead
  <2>2. serving[me] = 0
    BY <1>0
  <2>3. \A i \in 1 .. n : WaitingOn(q[i].sender, me)
    BY <1>0, <1>2, <2>1 DEF Server
  <2>4. \A i, j \in 1 .. n : q[i].sender = q[j].sender => i = j
    BY <1>0, <1>2, <2>1 DEF Server
  <2>5. \A c \in ProcessId : WaitingOn(c, me) => \E i \in 1 .. n : q[i].sender = c
    BY <1>0, <1>2, <2>1, <2>2, ProcessIds DEF Server
  <2>0. PICK t : t = messages'[me]
    OBVIOUS
  <2>00. /\ 1 \in 1 .. n /\ DOMAIN t = 1 .. n - 1
         /\ \A i \in 1 .. n - 1 : i + 1 \in 1 .. n /\ i + 1 # 1 /\ t[i] = q[i + 1]
    BY <1>2, <1>3, <2>0
  <2>6. (serving[me] # 0 => WaitingOn(serving[me], me))'
    BY <1>3, <2>00, <2>3 DEF WaitingOn, Waiting
  <2>7. (\A i \in DOMAIN messages[me] : WaitingOn(messages[me][i].sender, me))'
    <3>1. ASSUME NEW i \in DOMAIN t PROVE WaitingOn(t[i].sender, me)
      BY <2>00, <2>3
    <3> QED BY <2>0, <3>1 DEF WaitingOn, Waiting
  <2>8. \A i \in DOMAIN messages'[me] : messages'[me][i].sender # serving'[me]
    <3>1. ASSUME NEW i \in DOMAIN t PROVE t[i].sender # q[1].sender
      BY <2>00, <2>4
    <3>2. serving'[me] = q[1].sender
      BY <1>3
    <3> QED BY <2>0, <3>1, <3>2
  <2>9. \A i, j \in DOMAIN messages'[me] :
          messages'[me][i].sender = messages'[me][j].sender => i = j
    <3>1. ASSUME NEW i \in DOMAIN t, NEW j \in DOMAIN t, t[i].sender = t[j].sender PROVE i = j
      <4>1. i + 1 = j + 1
        BY <2>00, <2>4, <3>1
      <4>2. i \in Int /\ j \in Int
        BY <2>00
      <4> QED BY <4>1, <4>2
    <3> QED BY <2>0, <3>1
  <2>10. ASSUME NEW c \in ProcessId, WaitingOn(c, me)'
         PROVE  serving'[me] = c \/ \E i \in DOMAIN messages'[me] : messages'[me][i].sender = c
    <3>1. PICK i \in 1 .. n : q[i].sender = c
      BY <2>5, <2>10 DEF WaitingOn, Waiting
    <3>2. CASE i = 1
      BY <1>3, <3>1, <3>2
    <3>3. CASE i # 1
      <4>1. i - 1 \in 1 .. n - 1 /\ (i - 1) + 1 = i
        BY <1>2, <3>3
      <4> QED BY <1>3, <3>1, <4>1
    <3> QED BY <3>2, <3>3
  <2> QED BY <2>6, <2>7, <2>8, <2>9, <2>10 DEF Server
<1> QED BY <1>4, <1>5, <1>6 DEF Servers

LEMMA ReceiveInv ==
  ASSUME IpcInv, NEW fits, ipc_receive(fits)
  PROVE  Slots' /\ Servers'
<1>1. CASE kill
  BY <1>1, KillInv DEF ipc_receive
<1>2. CASE UNCHANGED vars
  BY <1>2, StutterInv
<1>3. CASE /\ serving[current] = 0 /\ messages[current] # <<>>
           /\ messages' = [messages EXCEPT ![current] = Tail(messages[current])]
           /\ serving' = [serving EXCEPT ![current] = Head(messages[current]).sender]
           /\ UNCHANGED <<state, from, reserved, schedVars>>
  BY <1>3, TakeInv DEF ipc_receive, schedVars
<1>4. CASE /\ messages' = [messages EXCEPT ![current] = Tail(messages[current])]
           /\ state' = [state EXCEPT ![current] = "Finished"]
           /\ yield /\ UNCHANGED <<serving, from, reserved>>
  <2>1. \A a \in Actor : a # current => messages'[a] = messages[a]
    BY <1>4 DEF IpcInv, TypeOK
  <2> QED BY <1>4, <2>1, DieInv DEF ipc_receive, yield
<1> QED BY <1>1, <1>2, <1>3, <1>4 DEF ipc_receive, pop_front, now_serving

LEMMA RefuseReplyInv ==
  ASSUME IpcInv, mode = "user", refuse_reply
  PROVE  Slots' /\ Servers'
<1>1. \A a \in Actor : a # current => serving'[a] = serving[a]
  BY DEF refuse_reply, IpcInv, TypeOK
<1> QED BY <1>1, DieInv DEF refuse_reply, yield

\* The caller stops waiting and its server forgets it, both at once.
LEMMA AnswerInv ==
  ASSUME IpcInv, mode = "user", serving[current] # 0,
         NEW become \in {"ReadyReply", "ReadyStreamMap"}, reply(serving[current], become)
  PROVE  Slots' /\ Servers'
<1>0. PICK me, caller : me = current /\ caller = serving[me]
  OBVIOUS
<1>1. /\ TypeOK /\ me \in Actor /\ caller \in Actor /\ caller # 0
      /\ state[me] = "Runnable" /\ me \in ProcessId
  BY <1>0 DEF IpcInv, Slots, TypeOK, ProcessId, Actor
<1>2. Server(me)
  BY <1>1 DEF IpcInv, Servers, Dead
<1>3. WaitingOn(caller, me) /\ caller # me
  BY <1>0, <1>1, <1>2 DEF Server, WaitingOn, Waiting
<1>4. /\ state' = [state EXCEPT ![caller] = become]
      /\ serving' = [serving EXCEPT ![me] = 0]
      /\ UNCHANGED <<from, messages, reserved, current, mode>>
  BY <1>0 DEF reply, schedVars
<1>5. \A a, c \in Actor : WaitingOn(c, a)' <=> WaitingOn(c, a) /\ c # caller
  BY <1>1, <1>4 DEF WaitingOn, Waiting, TypeOK
<1>6. Slots'
  <2>1. state'[0] = "None"
    BY <1>1, <1>4, ZeroActor DEF IpcInv, Slots, TypeOK
  <2>2. \A p \in Actor : state'[p] # "None" => p <= reserved'
    BY <1>1, <1>3, <1>4 DEF IpcInv, Slots, TypeOK, WaitingOn, Waiting
  <2>3. \A p \in Actor : Waiting(p)' => from'[p] \in 1 .. reserved' /\ from'[p] # p
    BY <1>1, <1>4 DEF IpcInv, Slots, TypeOK, Waiting
  <2>4. mode' = "user" => state'[current'] = "Runnable"
    BY <1>0, <1>1, <1>3, <1>4 DEF TypeOK
  <2> QED BY <1>4, <2>1, <2>2, <2>3, <2>4 DEF IpcInv, Slots
<1>7. ASSUME NEW a \in ProcessId, ~Dead(a)', a # me PROVE Server(a)'
  <2>1. a \in Actor /\ messages'[a] = messages[a] /\ serving'[a] = serving[a]
    BY <1>1, <1>4, <1>7, ProcessIds DEF TypeOK
  <2>2. ~Dead(a)
    BY <1>1, <1>3, <1>4, <1>7, <2>1 DEF TypeOK, Dead, WaitingOn, Waiting
  <2>3. \A c \in Actor : WaitingOn(c, a)' <=> WaitingOn(c, a)
    BY <1>3, <1>5, <1>7, <2>1 DEF WaitingOn
  <2> QED BY <1>1, <2>1, <2>2, <2>3, ServerFrame DEF IpcInv, Servers
<1>8. Server(me)'
  <2>1. messages'[me] = messages[me] /\ serving'[me] = 0
    BY <1>1, <1>4 DEF TypeOK
  <2>2. \A i \in DOMAIN messages[me] :
          /\ messages[me][i].sender \in Actor /\ messages[me][i].sender # caller
          /\ WaitingOn(messages[me][i].sender, me)
    BY <1>0, <1>1, <1>2, SenderType DEF Server
  <2>3. (\A i \in DOMAIN messages[me] : WaitingOn(messages[me][i].sender, me))'
    BY <1>1, <1>5, <2>1, <2>2 DEF WaitingOn, Waiting
  <2>4. \A i \in DOMAIN messages'[me] : messages'[me][i].sender # serving'[me]
    BY <2>1, <2>2 DEF IpcInv, Slots, WaitingOn, Waiting
  <2>5. \A c \in ProcessId : WaitingOn(c, me)' => \E i \in DOMAIN messages'[me] : messages'[me][i].sender = c
    BY <1>0, <1>1, <1>2, <1>5, <2>1, ProcessIds DEF Server
  <2>6. \A i, j \in DOMAIN messages'[me] :
          messages'[me][i].sender = messages'[me][j].sender => i = j
    BY <1>2, <2>1 DEF Server
  <2> QED BY <2>1, <2>3, <2>4, <2>5, <2>6 DEF Server
<1> QED BY <1>6, <1>7, <1>8 DEF Servers

\* A live server's caller waits for it, so the error paths of ipc_reply are
\* not taken.
LEMMA IpcReplyInv ==
  ASSUME IpcInv, NEW ring, ipc_reply(ring)
  PROVE  Slots' /\ Servers'
<1>1. mode = "user"
  BY DEF ipc_reply
<1>2. CASE serving[current] = 0
  BY <1>1, <1>2, KillInv DEF ipc_reply
<1>3. CASE serving[current] # 0
  <2>1. WaitingOn(serving[current], current)
    <3>1. current \in ProcessId /\ state[current] = "Runnable"
      BY <1>1 DEF IpcInv, Slots, TypeOK, ProcessId, Actor
    <3> QED BY <1>3, <3>1 DEF IpcInv, Servers, Server, Dead
  <2>2. ASSUME reply_stream(serving[current], ring) PROVE Slots' /\ Servers'
    BY <1>1, <1>3, <2>2, RefuseReplyInv, HaltInv, AnswerInv DEF reply_stream, ReplyPanics
  <2> QED
    BY <1>1, <1>3, <2>1, <2>2, AnswerInv DEF ipc_reply, WaitingOn, Waiting
<1> QED BY <1>2, <1>3

\* A process that can run waits for nobody, before and after.
LEMMA ResumeInv ==
  ASSUME IpcInv, mode = "scan", NEW p \in Actor, Ready(p), resume_process(p)
  PROVE  Slots' /\ Servers'
<1>1. TypeOK /\ ~Waiting(p) /\ ~Dead(p)
  BY DEF IpcInv, Ready, Waiting, Dead
<1>2. PICK s \in {"Runnable", "Finished", state[p]} : state' = [state EXCEPT ![p] = s]
  BY <1>1 DEF resume_process, TypeOK
<1>3. /\ UNCHANGED <<from, messages, serving, reserved>>
      /\ mode' = "user" => current' = p /\ state'[p] = "Runnable"
      /\ mode' \notin ReplyPanics
  BY <1>1 DEF resume_process, TypeOK, ReplyPanics
<1>4. \A a, c \in Actor : WaitingOn(c, a)' <=> WaitingOn(c, a)
  BY <1>1, <1>2, <1>3, WaitingFrame DEF Waiting
<1>5. Slots'
  <2>1. state'[0] = "None"
    BY <1>1, <1>2, ZeroActor DEF IpcInv, Slots, TypeOK, Dead
  <2>2. \A x \in Actor : state'[x] # "None" => x <= reserved'
    BY <1>1, <1>2, <1>3 DEF IpcInv, Slots, TypeOK, Dead
  <2>3. \A x \in Actor : Waiting(x)' => from'[x] \in 1 .. reserved' /\ from'[x] # x
    BY <1>1, <1>2, <1>3 DEF IpcInv, Slots, TypeOK, Waiting
  <2> QED BY <1>3, <2>1, <2>2, <2>3 DEF Slots
<1>6. ASSUME NEW a \in ProcessId, ~Dead(a)' PROVE Server(a)'
  <2>1. a \in Actor /\ ~Dead(a)
    BY <1>1, <1>2, <1>6, ProcessIds DEF TypeOK, Dead
  <2> QED BY <1>1, <1>3, <1>4, <2>1, ServerFrame DEF IpcInv, Servers
<1> QED BY <1>5, <1>6 DEF Servers

\* What is emptied was finished, or waited for a dead process: no live server
\* has a request from it.
LEMMA ReapInv ==
  ASSUME IpcInv, mode = "scan", NEW p \in Actor, inspect_can_progress(p) = "Finished", reap(p)
  PROVE  Slots' /\ Servers'
<1>1. TypeOK /\ (state[p] = "Finished" \/ (Waiting(p) /\ Dead(from[p])))
  BY DEF IpcInv, inspect_can_progress
<1>2. /\ state' = [state EXCEPT ![p] = "None"]
      /\ messages' = [messages EXCEPT ![p] = <<>>]
      /\ serving' = [serving EXCEPT ![p] = 0]
      /\ UNCHANGED <<from, reserved, current, mode>>
  BY DEF reap
<1>3. Slots'
  <2>1. state'[0] = "None"
    BY <1>1, <1>2, ZeroActor DEF IpcInv, Slots, TypeOK
  <2>2. \A x \in Actor : state'[x] # "None" => x <= reserved'
    BY <1>1, <1>2 DEF IpcInv, Slots, TypeOK
  <2>3. \A x \in Actor : Waiting(x)' => from'[x] \in 1 .. reserved' /\ from'[x] # x
    BY <1>1, <1>2 DEF IpcInv, Slots, TypeOK, Waiting
  <2> QED BY <1>2, <2>1, <2>2, <2>3 DEF IpcInv, Slots
<1>4. ASSUME NEW a \in ProcessId, ~Dead(a)' PROVE Server(a)'
  <2>1. a \in Actor /\ a # p /\ ~Dead(a)
    BY <1>1, <1>2, <1>4, ProcessIds DEF TypeOK, Dead
  <2>2. messages'[a] = messages[a] /\ serving'[a] = serving[a]
    BY <1>1, <1>2, <2>1 DEF TypeOK
  <2>3. ~WaitingOn(p, a)
    BY <1>1, <2>1 DEF WaitingOn, Waiting
  <2>4. \A c \in Actor : WaitingOn(c, a)' <=> WaitingOn(c, a)
    BY <1>1, <1>2, <2>3 DEF TypeOK, WaitingOn, Waiting
  <2> QED BY <1>1, <2>1, <2>2, <2>4, ServerFrame DEF IpcInv, Servers
<1> QED BY <1>3, <1>4 DEF Servers

LEMMA FindInv ==
  ASSUME IpcInv, find_runnable_process
  PROVE  Slots' /\ Servers'
<1>1. PICK p \in Actor :
        \/ Ready(p) /\ resume_process(p)
        \/ inspect_can_progress(p) = "Finished" /\ reap(p)
        \/ UNCHANGED <<procVars, current, mode>>
  BY ScanIndexType DEF find_runnable_process, IpcInv
<1>2. mode = "scan"
  BY DEF find_runnable_process
<1> QED BY <1>1, <1>2, ResumeInv, ReapInv, UnchangedInv DEF IpcInv, Slots

LEMMA CertifyInv ==
  ASSUME IpcInv, mode = "user", NEW certificate, certify(certificate)
  PROVE  Slots' /\ Servers'
<1>1. CASE kill
  BY <1>1, KillInv
<1>2. CASE UNCHANGED <<procVars, schedVars>>
  BY <1>2, UnchangedInv DEF schedVars, IpcInv, Slots
<1> QED BY <1>1, <1>2 DEF certify

LEMMA IpcInit == Init => IpcInv
<1> SUFFICES ASSUME Init PROVE IpcInv
  OBVIOUS
<1>1. Slots
  BY PageAssumption DEF Init, Slots, Actor, Waiting, ReplyPanics
<1>2. Servers
  BY ProcessIds DEF Init, Servers, Server, WaitingOn, Waiting
<1> QED BY <1>1, <1>2, InitType DEF IpcInv

LEMMA IpcStep == IpcInv /\ [Next]_vars => IpcInv'
<1> SUFFICES ASSUME IpcInv, [Next]_vars PROVE Slots' /\ Servers'
  BY TypeStep DEF IpcInv
<1>1. CASE exit
  BY <1>1, KillInv DEF exit
<1>2. CASE yield_
  BY <1>2, UnchangedInv DEF yield_, yield, ReplyPanics
<1>3. CASE \E cap \in Issued, method \in Method : ipc_call(cap, method)
  BY <1>3, CallInv
<1>4. CASE \E cap \in Issued : ipc_stream(cap)
  BY <1>4, StreamInv
<1>5. CASE \E fits \in BOOLEAN : ipc_receive(fits)
  BY <1>5, ReceiveInv
<1>6. CASE \E ring \in Issued : ipc_reply(ring)
  BY <1>6, IpcReplyInv
<1>7. CASE alloc_shared
  BY <1>7, KillInv, GrantKernelInv DEF alloc_shared
<1>8. CASE \E cap \in Issued : map_shared(cap)
  BY <1>8, RejectInv, KillInv, MapHandlerInv DEF map_shared
<1>9. CASE alloc \/ free \/ log \/ handle_page_fault
  BY <1>9, KillInv, StutterInv, HaltInv DEF alloc, free, log, handle_page_fault, ReplyPanics
<1>10. CASE Userspace
  BY <1>10, CertifyInv DEF Userspace, grant, forward
<1>11. CASE find_runnable_process
  BY <1>11, FindInv
<1>12. CASE schedule_userspace
  BY <1>12, HaltInv DEF schedule_userspace, ReplyPanics
<1>13. CASE UNCHANGED vars
  BY <1>13, StutterInv
<1> QED
  BY <1>1, <1>2, <1>3, <1>4, <1>5, <1>6, <1>7, <1>8, <1>9, <1>10, <1>11, <1>12, <1>13
  DEF Next, Syscall, Schedule, halted

\* A process that waits for a live server has exactly one request there, queued
\* or being served, and every request there is the one its sender waits for:
\* no call is lost, doubled or answered by the wrong server, whoever is killed,
\* reaped or spawned in between.
THEOREM RequestsExact == Spec => []ExactlyOneRequest
<1>1. IpcInv => ExactlyOneRequest
  BY ServersAreExact DEF IpcInv
<1> QED BY <1>1, IpcInit, IpcStep, PTL DEF Spec

\* The lookups and matches of the kernel's reply path never fail: the running
\* process is Runnable, and the caller ipc_reply takes from currently_serving
\* exists and waits for the replying process.
THEOREM RepliesFindCallers == Spec => []ReplyFindsCaller
<1>1. IpcInv => ReplyFindsCaller
  <2> SUFFICES ASSUME IpcInv PROVE ReplyFindsCaller
    OBVIOUS
  <2>1. ASSUME mode = "user"
        PROVE  /\ state[current] = "Runnable"
               /\ serving[current] # 0 => WaitingOn(serving[current], current)
    <3>1. current \in ProcessId /\ state[current] = "Runnable"
      BY <2>1 DEF IpcInv, Slots, TypeOK, ProcessId, Actor
    <3> QED BY <3>1 DEF IpcInv, Servers, Server, Dead
  <2>2. mode \notin ReplyPanics
    BY DEF IpcInv, Slots
  <2> QED BY <2>1, <2>2 DEF ReplyFindsCaller, ReplyPanics
<1> QED BY <1>1, IpcInit, IpcStep, PTL DEF Spec

-----------------------------------------------------------------------------
(* Pids.  A slot that is empty before a step and not after it is the one   *)
(* reserve_process just handed out.                                        *)

Fresh == \A p \in ProcessId : state[p] = "None" /\ state'[p] # "None" => p > reserved

LEMMA SameStateFresh == state' = state => Fresh
  BY DEF Fresh

LEMMA LiveSlotFresh ==
  ASSUME IpcInv, NEW x \in Actor, state[x] # "None", NEW s, state' = [state EXCEPT ![x] = s]
  PROVE  Fresh
  BY ProcessIds DEF IpcInv, TypeOK, Fresh

LEMMA KillFresh == ASSUME IpcInv, mode = "user", kill PROVE Fresh
  BY LiveSlotFresh DEF IpcInv, Slots, TypeOK, kill

LEMMA HaltFresh == \A how : halt(how) => Fresh
  BY SameStateFresh DEF halt, procVars

LEMMA StutterFresh == UNCHANGED vars => Fresh
  BY SameStateFresh DEF vars, procVars

LEMMA GrantKernelFresh == \A kind : grant_kernel_capability(current, kind) => Fresh
  BY SameStateFresh, HaltFresh DEF grant_kernel_capability, procVars

LEMMA SpawnFresh == ASSUME IpcInv, NEW args, spawn(args) PROVE Fresh
<1>1. CASE halt("argument not certified by sender") \/ halt("process table full")
  BY <1>1, HaltFresh
<1>2. CASE state' = [state EXCEPT ![reserved + 1] = "Runnable"]
  <2>1. \A p \in ProcessId : p # reserved + 1 => state'[p] = state[p]
    BY <1>2, ProcessIds DEF IpcInv, TypeOK
  <2>2. reserved \in Int
    BY DEF IpcInv, TypeOK
  <2>3. reserved + 1 > reserved
    BY <2>2
  <2> QED BY <2>1, <2>3 DEF Fresh
<1> QED BY <1>1, <1>2 DEF spawn, reserve_process

LEMMA SendFresh ==
  ASSUME IpcInv, mode = "user", NEW target, NEW waiting, NEW method, send(target, waiting, method)
  PROVE  Fresh
  BY LiveSlotFresh DEF IpcInv, Slots, TypeOK, send

LEMMA CallFresh ==
  ASSUME IpcInv, NEW cap, NEW method \in Method, ipc_call(cap, method) \/ ipc_stream(cap)
  PROVE  Fresh
<1>1. mode = "user"
  BY DEF ipc_call, ipc_stream
<1>2. ASSUME NEW target, reject(target) PROVE Fresh
  BY <1>1, <1>2, KillFresh, HaltFresh DEF reject
<1>3. ASSUME NEW index, call_method(index) PROVE Fresh
  BY <1>1, <1>3, KillFresh, HaltFresh, StutterFresh, GrantKernelFresh, SpawnFresh DEF call_method
<1>4. ASSUME NEW index, map_handler(index, "input") PROVE Fresh
  BY <1>1, <1>4, KillFresh, HaltFresh, StutterFresh DEF map_handler
<1>5. ipc_call(cap, method) => Fresh
  BY <1>1, <1>2, <1>3, HaltFresh, KillFresh, SendFresh DEF ipc_call
<1>6. ipc_stream(cap) => Fresh
  BY <1>1, <1>2, <1>4, HaltFresh, SendFresh DEF ipc_stream
<1> QED BY <1>5, <1>6

LEMMA ReceiveFresh == ASSUME IpcInv, NEW fits, ipc_receive(fits) PROVE Fresh
<1>1. mode = "user"
  BY DEF ipc_receive
<1>2. CASE state' = [state EXCEPT ![current] = "Finished"]
  BY <1>1, <1>2, LiveSlotFresh DEF IpcInv, Slots, TypeOK
<1> QED
  BY <1>1, <1>2, KillFresh, StutterFresh, SameStateFresh DEF ipc_receive

LEMMA IpcReplyFresh == ASSUME IpcInv, NEW ring, ipc_reply(ring) PROVE Fresh
<1>1. mode = "user" /\ serving[current] \in Actor
  BY DEF ipc_reply, IpcInv, TypeOK
<1>2. ASSUME refuse_reply PROVE Fresh
  BY <1>1, <1>2, LiveSlotFresh DEF IpcInv, Slots, TypeOK, refuse_reply
<1>3. ASSUME NEW become, reply(serving[current], become), WaitingOn(serving[current], current)
      PROVE  Fresh
  BY <1>1, <1>3, LiveSlotFresh DEF reply, WaitingOn, Waiting
<1>4. reply_stream(serving[current], ring) /\ WaitingOn(serving[current], current) => Fresh
  BY <1>2, <1>3, HaltFresh DEF reply_stream
<1> QED
  BY <1>1, <1>2, <1>3, <1>4, KillFresh, HaltFresh DEF ipc_reply

LEMMA FindFresh == ASSUME IpcInv, find_runnable_process PROVE Fresh
<1>1. PICK p \in Actor : \/ Ready(p) /\ resume_process(p)
                         \/ inspect_can_progress(p) = "Finished" /\ reap(p)
                         \/ UNCHANGED procVars
  BY ScanIndexType DEF find_runnable_process, IpcInv
<1>2. CASE Ready(p) /\ resume_process(p)
  BY <1>2, LiveSlotFresh, SameStateFresh DEF Ready, resume_process
<1>3. CASE reap(p)
  BY <1>3, ProcessIds DEF reap, Fresh, IpcInv, TypeOK
<1>4. CASE UNCHANGED procVars
  BY <1>4, SameStateFresh DEF procVars
<1> QED BY <1>1, <1>2, <1>3, <1>4

\* A pid is never given to a second process, so a certificate that names a
\* dead process as its recipient never comes to life for a later one.
THEOREM PidsFresh == Spec => PidsNeverReused
<1>1. IpcInv /\ [Next]_vars => Fresh
  <2> SUFFICES ASSUME IpcInv, [Next]_vars PROVE Fresh
    OBVIOUS
  <2>1. CASE exit \/ yield_
    BY <2>1, KillFresh, SameStateFresh DEF exit, yield_, procVars
  <2>2. CASE \/ \E cap \in Issued, method \in Method : ipc_call(cap, method)
             \/ \E cap \in Issued : ipc_stream(cap)
    BY <2>2, CallFresh DEF Method
  <2>3. CASE \E fits \in BOOLEAN : ipc_receive(fits)
    BY <2>3, ReceiveFresh
  <2>4. CASE \E ring \in Issued : ipc_reply(ring)
    BY <2>4, IpcReplyFresh
  <2>5. CASE alloc_shared \/ \E cap \in Issued : map_shared(cap)
    BY <2>5, KillFresh, HaltFresh, StutterFresh, GrantKernelFresh
    DEF alloc_shared, map_shared, reject, map_handler
  <2>6. CASE alloc \/ free \/ log \/ handle_page_fault
    BY <2>6, KillFresh, StutterFresh, HaltFresh DEF alloc, free, log, handle_page_fault
  <2>7. CASE Userspace
    BY <2>7, KillFresh, SameStateFresh DEF Userspace, grant, forward, certify, procVars
  <2>8. CASE Schedule
    BY <2>8, FindFresh, HaltFresh DEF Schedule, schedule_userspace
  <2>9. CASE UNCHANGED vars
    BY <2>9, StutterFresh
  <2> QED
    BY <2>1, <2>2, <2>3, <2>4, <2>5, <2>6, <2>7, <2>8, <2>9 DEF Next, Syscall, halted
<1> QED BY <1>1, IpcInit, IpcStep, PTL DEF Spec, PidsNeverReused, Fresh

-----------------------------------------------------------------------------
(* The kernel core implements Rpc: each effect a step may have on the      *)
(* process table is a step of Rpc on the calls the table stands for, or    *)
(* leaves them as they are.                                                *)

Alive == {p \in ProcessId : ~Dead(p)}
CallMap == [p \in ProcessId |-> CallOf(p)]
Idle == [server |-> 0, phase |-> "none"]

\* A step of Rpc under the refinement mapping.
RpcStep == [Calls!Next]_<<1 .. reserved, Alive, CallMap>>

\* Two states in which every process has the same call and is as alive as
\* before stand for the same abstract state.
LEMMA SameRpc ==
  ASSUME reserved' = reserved,
         \A p \in ProcessId : CallOf(p)' = CallOf(p) /\ (Dead(p)' <=> Dead(p))
  PROVE  RpcStep
<1>1. Alive' = Alive
  BY DEF Alive
<1>2. CallMap' = CallMap
  BY DEF CallMap
<1> QED BY <1>1, <1>2 DEF RpcStep

LEMMA UnchangedRpc ==
  ASSUME UNCHANGED procVars PROVE RpcStep
<1>1. \A p \in ProcessId : CallOf(p)' = CallOf(p) /\ (Dead(p)' <=> Dead(p))
  BY DEF procVars, CallOf, Waiting, Dead
<1> QED BY <1>1, SameRpc DEF procVars

\* A process that is not waiting for a live server stops, and those that wait
\* for it have lost their calls.
LEMMA StopRpc ==
  ASSUME IpcInv, NEW p \in ProcessId, ~Dead(p), Waiting(p) => Dead(from[p]),
         NEW s \in {"Finished", "None"}, state' = [state EXCEPT ![p] = s],
         from' = from, reserved' = reserved,
         \A a \in Actor : a # p => serving'[a] = serving[a]
  PROVE  RpcStep
<1>0. TypeOK /\ p \in Actor
  BY ProcessIds DEF IpcInv
<1>1. /\ state'[p] = s /\ Dead(p)' /\ ~Waiting(p)'
      /\ \A c \in Actor : c # p => state'[c] = state[c] /\ (Dead(c)' <=> Dead(c)) /\ (Waiting(c)' <=> Waiting(c))
  BY <1>0 DEF TypeOK, Dead, Waiting
<1>2. Alive' = Alive \ {p}
  BY <1>1, ProcessIds DEF Alive
<1>3. CallOf(p).phase \in {"none", "answered", "lost"}
  BY DEF CallOf
<1>4. CallOf(p)' = Idle
  BY <1>1 DEF CallOf, Waiting, Dead, Idle
<1>5. ASSUME NEW c \in ProcessId, c # p
      PROVE  CallOf(c)' = IF CallOf(c) \in {[server |-> p, phase |-> "sent"], [server |-> p, phase |-> "accepted"]}
                          THEN [server |-> p, phase |-> "lost"] ELSE CallOf(c)
  <2>1. c \in Actor /\ from[c] \in Actor
    BY <1>0, ProcessIds DEF TypeOK
  <2>2. CASE Waiting(c) /\ from[c] = p
    <3>1. CallOf(c) \in {[server |-> p, phase |-> "sent"], [server |-> p, phase |-> "accepted"]}
      BY <2>2 DEF CallOf
    <3>2. CallOf(c)' = [server |-> p, phase |-> "lost"]
      BY <1>1, <1>5, <2>1, <2>2 DEF CallOf
    <3> QED BY <3>1, <3>2
  <2>3. CASE ~(Waiting(c) /\ from[c] = p)
    <3>1. CallOf(c)' = CallOf(c)
      BY <1>1, <1>5, <2>1, <2>3 DEF CallOf
    <3>2. CallOf(c) \notin {[server |-> p, phase |-> "sent"], [server |-> p, phase |-> "accepted"]}
      BY <2>3, ProcessIds DEF CallOf
    <3> QED BY <3>1, <3>2
  <2> QED BY <2>2, <2>3
<1>6. Calls!Stop(p)
  BY <1>2, <1>3, <1>4, <1>5 DEF Calls!Stop, Calls!Idle, Calls!Call, Alive, Idle
<1> QED BY <1>6 DEF RpcStep, Calls!Next

LEMMA KillRpc ==
  ASSUME IpcInv, mode = "user", state' = [state EXCEPT ![current] = "Finished"],
         from' = from, reserved' = reserved,
         \A a \in Actor : a # current => serving'[a] = serving[a]
  PROVE  RpcStep
<1>1. current \in ProcessId /\ ~Dead(current) /\ ~Waiting(current)
  BY DEF IpcInv, Slots, TypeOK, Dead, Waiting, ProcessId, Actor
<1> QED BY <1>1, StopRpc

\* A new process: it has made no call, and nobody calls it yet.
LEMMA SpawnRpc ==
  ASSUME IpcInv, NEW args, spawn(args)
  PROVE  RpcStep
<1>1. CASE UNCHANGED procVars
  BY <1>1, UnchangedRpc
<1>2. CASE /\ reserved + 1 < PROCESS_COUNT
           /\ reserved' = reserved + 1
           /\ state' = [state EXCEPT ![reserved + 1] = "Runnable"]
           /\ serving' = [serving EXCEPT ![reserved + 1] = 0]
           /\ from' = from
  <2>0. PICK pid : pid = reserved + 1
    OBVIOUS
  <2>1. TypeOK /\ reserved \in Nat /\ pid \in ProcessId /\ pid \in Actor /\ ~(pid <= reserved)
    <3>1. TypeOK /\ reserved \in 0 .. PROCESS_COUNT - 1
      BY DEF IpcInv, TypeOK
    <3> QED BY <1>2, <2>0, <3>1, PageAssumption DEF Actor, ProcessId
  <2>2. /\ state[pid] = "None" /\ state' = [state EXCEPT ![pid] = "Runnable"]
        /\ serving' = [serving EXCEPT ![pid] = 0]
    BY <1>2, <2>0, <2>1 DEF IpcInv, Slots
  <2>3. /\ state'[pid] = "Runnable"
        /\ \A c \in Actor : c # pid => state'[c] = state[c] /\ serving'[c] = serving[c]
    BY <2>1, <2>2 DEF TypeOK
  <2>4. Alive' = Alive \cup {pid}
    BY <2>1, <2>3, ProcessIds DEF Alive, Dead
  <2>5. ASSUME NEW c \in ProcessId PROVE CallOf(c)' = CallOf(c)
    <3>1. CASE c = pid
      BY <2>2, <2>3, <3>1 DEF CallOf, Waiting
    <3>2. CASE c # pid
      <4>1. c \in Actor /\ state'[c] = state[c]
        BY <2>3, <3>2, ProcessIds
      <4>2. ASSUME Waiting(c) PROVE from[c] \in Actor /\ from[c] # pid
        BY <2>1, <4>1, <4>2 DEF IpcInv, Slots, TypeOK
      <4> QED BY <1>2, <2>3, <4>1, <4>2 DEF CallOf, Waiting, Dead
    <3> QED BY <3>1, <3>2
  <2>6. 1 .. reserved' = (1 .. reserved) \cup {pid} /\ pid \notin 1 .. reserved
    BY <1>2, <2>0, <2>1
  <2>7. CallMap' = CallMap
    BY <2>5 DEF CallMap
  <2>8. Calls!Start(pid)
    BY <2>1, <2>4, <2>6, <2>7 DEF Calls!Start, Alive, CallMap
  <2> QED BY <2>1, <2>8 DEF RpcStep, Calls!Next
<1>3. reserved \in Int /\ PROCESS_COUNT \in Int
  BY PageAssumption DEF IpcInv, TypeOK
<1>4. reserved + 1 >= PROCESS_COUNT \/ reserved + 1 < PROCESS_COUNT
  BY <1>3
<1> QED BY <1>1, <1>2, <1>4 DEF spawn, reserve_process, halt

\* The call is sent, or already lost when its server has died.
LEMMA SendRpc ==
  ASSUME IpcInv, mode = "user", NEW target \in UserCapability,
         target.certifier # current, state[target.certifier] # "None",
         NEW waiting \in {"WaitingForReply", "WaitingForStreamMap"},
         NEW method, send(target, waiting, method)
  PROVE  RpcStep
<1>0. PICK me, dest : me = current /\ dest = target.certifier
  OBVIOUS
<1>1. /\ TypeOK /\ me \in ProcessId /\ dest \in ProcessId /\ dest # me
      /\ state[me] = "Runnable" /\ dest \in 1 .. reserved /\ me \in Actor /\ dest \in Actor
  BY <1>0 DEF IpcInv, Slots, TypeOK, UserCapability, RawCapability, KERNEL, ProcessId, Actor
<1>2. /\ state' = [state EXCEPT ![me] = waiting]
      /\ from' = [from EXCEPT ![me] = dest]
      /\ serving' = serving /\ reserved' = reserved
  BY <1>0 DEF send, sender_state
<1>3. /\ state'[me] = waiting /\ from'[me] = dest
      /\ \A c \in Actor : c # me => state'[c] = state[c] /\ from'[c] = from[c]
      /\ \A c \in Actor : Dead(c)' <=> Dead(c)
  BY <1>1, <1>2 DEF TypeOK, Dead
<1>4. Alive' = Alive
  BY <1>3, ProcessIds DEF Alive
<1>5. CallOf(me) = Idle /\ me \in Alive
  BY <1>1 DEF CallOf, Waiting, Idle, Alive, Dead
<1>6. CallOf(me)' = [server |-> dest, phase |-> IF dest \in Alive THEN "sent" ELSE "lost"]
  <2>1. ASSUME ~Dead(dest) PROVE serving[dest] # me
    BY <1>1, <2>1, ProcessIds DEF IpcInv, Servers, Server, WaitingOn, Waiting
  <2> QED BY <1>1, <1>2, <1>3, <2>1 DEF CallOf, Waiting, Alive
<1>7. ASSUME NEW c \in ProcessId, c # me PROVE CallOf(c)' = CallOf(c)
  <2>1. c \in Actor /\ from[c] \in Actor
    BY <1>1, ProcessIds DEF TypeOK
  <2> QED BY <1>2, <1>3, <1>7, <2>1 DEF CallOf, Waiting
<1>8. Calls!Send(me, dest)
  <2>1. Calls!Executes(me)
    BY <1>1, <1>5 DEF Calls!Executes, Calls!Idle, Idle, Alive
  <2>2. [p \in ProcessId |-> CallOf(p)]' =
          [[p \in ProcessId |-> CallOf(p)] EXCEPT ![me] =
             [server |-> dest, phase |-> IF dest \in Alive THEN "sent" ELSE "lost"]]
    BY <1>1, <1>6, <1>7
  <2> QED BY <1>1, <1>2, <1>4, <2>1, <2>2 DEF Calls!Send, Calls!Call, Alive
<1> QED BY <1>1, <1>8 DEF RpcStep, Calls!Next

\* The call at the head of the queue is accepted.
LEMMA TakeRpc ==
  ASSUME IpcInv, mode = "user", serving[current] = 0, messages[current] # <<>>,
         serving' = [serving EXCEPT ![current] = Head(messages[current]).sender],
         UNCHANGED <<state, from, reserved>>
  PROVE  RpcStep
<1>0. PICK me, c : me = current /\ c = Head(messages[me]).sender
  OBVIOUS
<1>1. TypeOK /\ me \in ProcessId /\ me \in Actor /\ state[me] = "Runnable"
  BY <1>0 DEF IpcInv, Slots, TypeOK, ProcessId, Actor
<1>2. c \in ProcessId /\ WaitingOn(c, me)
  <2>1. messages[me] \in Seq(Message) /\ messages[me] # <<>>
    BY <1>0, <1>1 DEF TypeOK
  <2>2. 1 \in DOMAIN messages[me] /\ c = messages[me][1].sender
    BY <1>0, <2>1
  <2>3. WaitingOn(c, me) /\ c \in Actor
    BY <1>1, <2>2, SenderType DEF IpcInv, Servers, Server, Dead
  <2> QED BY <2>3 DEF IpcInv, Slots, WaitingOn, Waiting, Actor, ProcessId
<1>3. serving' = [serving EXCEPT ![me] = c] /\ serving[me] = 0
  BY <1>0
<1>4. serving'[me] = c /\ \A a \in Actor : a # me => serving'[a] = serving[a]
  BY <1>1, <1>3 DEF TypeOK
<1>5. CallOf(c) = [server |-> me, phase |-> "sent"] /\ CallOf(c)' = [server |-> me, phase |-> "accepted"]
  BY <1>1, <1>2, <1>3, <1>4, ProcessIds DEF CallOf, WaitingOn, Waiting, Dead
<1>6. ASSUME NEW other \in ProcessId
      PROVE  /\ CallOf(other) # [server |-> me, phase |-> "accepted"]
             /\ other # c => CallOf(other)' = CallOf(other)
  <2>1. other # 0 /\ other \in Actor /\ from[other] \in Actor
    BY <1>1, ProcessIds DEF TypeOK
  <2>2. CallOf(other) # [server |-> me, phase |-> "accepted"]
    BY <1>3, <2>1 DEF CallOf
  <2>3. ASSUME other # c PROVE CallOf(other)' = CallOf(other)
    BY <1>3, <1>4, <2>1, <2>3 DEF CallOf, Waiting, Dead
  <2> QED BY <2>2, <2>3
<1>7. CallOf(me) = Idle
  BY <1>1 DEF CallOf, Waiting, Idle
<1>8. Alive' = Alive /\ me \in Alive
  BY <1>1 DEF Alive, Dead
<1>9. CallMap' = [CallMap EXCEPT ![c] = [server |-> me, phase |-> "accepted"]]
  BY <1>2, <1>5, <1>6 DEF CallMap
<1>10. Calls!Accept(c)
  <2>1. CallMap[c] = [server |-> me, phase |-> "sent"] /\ CallMap[me] = Idle
    BY <1>1, <1>2, <1>5, <1>7 DEF CallMap
  <2>2. \A other \in ProcessId : CallMap[other] # [server |-> me, phase |-> "accepted"]
    BY <1>6 DEF CallMap
  <2>3. Calls!Executes(CallMap[c].server)
    BY <1>8, <2>1 DEF Calls!Executes, Calls!Idle, Idle, CallMap, Alive
  <2>4. Calls!Call(CallMap[c].server, "accepted") = [server |-> me, phase |-> "accepted"]
    BY <2>1 DEF Calls!Call
  <2>5. CallMap' = [CallMap EXCEPT ![c] = Calls!Call(CallMap[c].server, "accepted")]
    BY <1>9, <2>4
  <2>6. /\ CallMap[c].phase = "sent" /\ Alive' = Alive /\ (1 .. reserved)' = 1 .. reserved
        /\ \A other \in ProcessId : CallMap[other] # Calls!Call(CallMap[c].server, "accepted")
    BY <1>8, <2>1, <2>2, <2>4
  <2> QED BY <2>3, <2>5, <2>6, Zenon DEF Calls!Accept, CallMap, Alive
<1> QED BY <1>2, <1>10 DEF RpcStep, Calls!Next

\* The call being served is answered; the others stay in the queue.
LEMMA AnswerRpc ==
  ASSUME IpcInv, mode = "user", serving[current] # 0,
         NEW become \in {"ReadyReply", "ReadyStreamMap"}, reply(serving[current], become)
  PROVE  RpcStep
<1>0. PICK me, c : me = current /\ c = serving[me]
  OBVIOUS
<1>1. TypeOK /\ me \in ProcessId /\ me \in Actor /\ state[me] = "Runnable" /\ c \in Actor /\ c # 0
  BY <1>0 DEF IpcInv, Slots, TypeOK, ProcessId, Actor
<1>2. WaitingOn(c, me) /\ c \in ProcessId /\ c # me
  BY <1>0, <1>1 DEF IpcInv, Servers, Server, Dead, WaitingOn, Waiting, Actor, ProcessId
<1>3. /\ state' = [state EXCEPT ![c] = become] /\ serving' = [serving EXCEPT ![me] = 0]
      /\ from' = from /\ reserved' = reserved
  BY <1>0 DEF reply
<1>4. /\ state'[c] = become /\ serving'[me] = 0
      /\ \A a \in Actor : a # c => state'[a] = state[a]
      /\ \A a \in Actor : a # me => serving'[a] = serving[a]
      /\ \A a \in Actor : Dead(a)' <=> Dead(a)
  BY <1>1, <1>2, <1>3 DEF TypeOK, Dead, WaitingOn, Waiting
<1>5. CallOf(c) = [server |-> me, phase |-> "accepted"] /\ CallOf(c)' = [server |-> me, phase |-> "answered"]
  BY <1>0, <1>1, <1>2, <1>3, <1>4 DEF CallOf, WaitingOn, Waiting, Dead
<1>6. ASSUME NEW other \in ProcessId, other # c PROVE CallOf(other)' = CallOf(other)
  <2>1. other # 0 /\ other \in Actor /\ from[other] \in Actor
    BY <1>1, ProcessIds DEF TypeOK
  <2> QED BY <1>0, <1>3, <1>4, <1>6, <2>1 DEF CallOf, Waiting
<1>7. Alive' = Alive /\ me \in Alive
  BY <1>1, <1>4, ProcessIds DEF Alive, Dead
<1>8. CallMap' = [CallMap EXCEPT ![c] = [server |-> me, phase |-> "answered"]]
  BY <1>2, <1>5, <1>6 DEF CallMap
<1>9. CallMap[c] = [server |-> me, phase |-> "accepted"] /\ CallMap[me] = Idle
  BY <1>1, <1>2, <1>5 DEF CallMap, CallOf, Waiting, Idle
<1>10. Calls!Answer(c)
  <2>1. Calls!Executes(CallMap[c].server)
    BY <1>7, <1>9 DEF Calls!Executes, Calls!Idle, Idle, CallMap, Alive
  <2>2. CallMap' = [CallMap EXCEPT ![c] = Calls!Call(CallMap[c].server, "answered")]
    BY <1>8, <1>9 DEF Calls!Call
  <2>3. CallMap[c].phase = "accepted" /\ Alive' = Alive /\ (1 .. reserved)' = 1 .. reserved
    BY <1>3, <1>7, <1>9
  <2> QED BY <2>1, <2>2, <2>3, Zenon DEF Calls!Answer, CallMap, Alive
<1> QED BY <1>2, <1>10 DEF RpcStep, Calls!Next

\* A process that is resumed returns from its call, stops because the answer
\* does not fit, or was not in a call.
LEMMA ResumeRpc ==
  ASSUME IpcInv, NEW p \in Actor, Ready(p), resume_process(p)
  PROVE  RpcStep
<1>1. TypeOK /\ p \in ProcessId /\ ~Dead(p) /\ ~Waiting(p)
  BY DEF IpcInv, Slots, Ready, Dead, Waiting, Actor, ProcessId
<1>2. UNCHANGED <<from, serving, reserved>>
  BY DEF resume_process
<1>3. CASE state' = [state EXCEPT ![p] = "Finished"]
  BY <1>1, <1>2, <1>3, StopRpc
<1>4. CASE state' = state
  <2>1. \A c \in ProcessId : CallOf(c)' = CallOf(c) /\ (Dead(c)' <=> Dead(c))
    BY <1>2, <1>4 DEF CallOf, Waiting, Dead
  <2> QED BY <1>2, <2>1, SameRpc
<1>5. CASE state' = [state EXCEPT ![p] = "Runnable"]
  <2>1. /\ state'[p] = "Runnable" /\ \A a \in Actor : a # p => state'[a] = state[a]
        /\ \A a \in Actor : Dead(a)' <=> Dead(a)
    BY <1>1, <1>5 DEF TypeOK, Dead
  <2>2. \A c \in ProcessId : c # p => CallOf(c)' = CallOf(c)
    <3>1. ASSUME NEW c \in ProcessId, c # p PROVE CallOf(c)' = CallOf(c)
      <4>1. c \in Actor /\ from[c] \in Actor
        BY <1>1, ProcessIds DEF TypeOK
      <4> QED BY <1>2, <2>1, <3>1, <4>1 DEF CallOf, Waiting
    <3> QED BY <3>1
  <2>3. CallOf(p)' = Idle
    BY <2>1 DEF CallOf, Waiting, Idle
  <2>4. CASE state[p] = "Runnable"
    <3>1. CallOf(p) = Idle
      BY <2>4 DEF CallOf, Waiting, Idle
    <3> QED BY <1>2, <2>1, <2>2, <2>3, <3>1, SameRpc, ProcessIds
  <2>5. CASE state[p] # "Runnable"
    <3>1. CallMap[p].phase = "answered"
      BY <1>1, <2>5 DEF CallMap, CallOf, Ready
    <3>2. CallMap' = [CallMap EXCEPT ![p] = Calls!Idle]
      BY <1>1, <2>2, <2>3 DEF CallMap, Calls!Idle, Idle
    <3>3. p \in Alive /\ Alive' = Alive /\ (1 .. reserved)' = 1 .. reserved
      BY <1>1, <1>2, <2>1, ProcessIds DEF Alive
    <3>4. Calls!Return(p)
      BY <3>1, <3>2, <3>3, Zenon DEF Calls!Return, CallMap, Alive
    <3> QED BY <1>1, <3>4 DEF RpcStep, Calls!Next
  <2> QED BY <2>4, <2>5
<1> QED BY <1>3, <1>4, <1>5 DEF resume_process

\* Emptying a slot is nothing new when its process was finished, and the end
\* of a caller whose server is gone otherwise.
LEMMA ReapRpc ==
  ASSUME IpcInv, NEW p \in Actor, inspect_can_progress(p) = "Finished", reap(p)
  PROVE  RpcStep
<1>1. TypeOK /\ p \in ProcessId /\ (state[p] = "Finished" \/ (Waiting(p) /\ Dead(from[p])))
  BY DEF IpcInv, Slots, inspect_can_progress, Waiting, Actor, ProcessId
<1>2. /\ state' = [state EXCEPT ![p] = "None"] /\ from' = from /\ reserved' = reserved
      /\ \A a \in Actor : a # p => serving'[a] = serving[a]
  BY <1>1 DEF reap, TypeOK
<1>3. CASE state[p] = "Finished"
  <2>1. /\ state'[p] = "None" /\ \A a \in Actor : a # p => state'[a] = state[a]
        /\ \A a \in Actor : Dead(a)' <=> Dead(a)
    BY <1>1, <1>2, <1>3 DEF TypeOK, Dead
  <2>2. ASSUME NEW c \in ProcessId PROVE CallOf(c)' = CallOf(c)
    <3>1. c \in Actor /\ from[c] \in Actor
      BY <1>1, ProcessIds DEF TypeOK
    <3>2. CASE c = p
      BY <1>3, <2>1, <3>2 DEF CallOf, Waiting
    <3>3. CASE c # p /\ from[c] = p
      BY <1>2, <1>3, <2>1, <3>1, <3>3 DEF CallOf, Waiting, Dead
    <3>4. CASE c # p /\ from[c] # p
      BY <1>2, <2>1, <3>1, <3>4 DEF CallOf, Waiting
    <3> QED BY <3>2, <3>3, <3>4
  <2> QED BY <1>2, <2>1, <2>2, SameRpc, ProcessIds
<1>4. CASE state[p] # "Finished"
  BY <1>1, <1>2, <1>4, StopRpc DEF Waiting, Dead
<1> QED BY <1>3, <1>4

LEMMA CallMethodRpc ==
  ASSUME IpcInv, mode = "user", NEW index, call_method(index) PROVE RpcStep
<1>1. ASSUME kill PROVE RpcStep
  BY <1>1, KillRpc DEF kill
<1>2. ASSUME NEW kind, grant_kernel_capability(current, kind) PROVE RpcStep
  BY <1>2, UnchangedRpc DEF grant_kernel_capability, halt
<1>3. ASSUME NEW how, halt(how) PROVE RpcStep
  BY <1>3, UnchangedRpc DEF halt
<1> QED BY <1>1, <1>2, <1>3, SpawnRpc, UnchangedRpc DEF call_method, vars

LEMMA CallRpc ==
  ASSUME IpcInv, NEW cap, NEW method \in Method, ipc_call(cap, method) \/ ipc_stream(cap)
  PROVE  RpcStep
<1>1. mode = "user"
  BY DEF ipc_call, ipc_stream
<1>2. ASSUME kill PROVE RpcStep
  BY <1>1, <1>2, KillRpc DEF kill
<1>3. ASSUME NEW how, halt(how) PROVE RpcStep
  BY <1>3, UnchangedRpc DEF halt
<1>4. ASSUME NEW index, map_handler(index, "input") PROVE RpcStep
  BY <1>2, <1>3, <1>4, UnchangedRpc DEF map_handler, vars
<1>5. CASE ipc_call(cap, method)
  BY <1>1, <1>2, <1>3, <1>5, SendRpc, CallMethodRpc DEF ipc_call, reject
<1>6. CASE ipc_stream(cap)
  BY <1>1, <1>2, <1>3, <1>4, <1>6, SendRpc DEF ipc_stream, reject
<1> QED BY <1>5, <1>6

LEMMA ReceiveRpc ==
  ASSUME IpcInv, NEW fits, ipc_receive(fits) PROVE RpcStep
<1>1. CASE kill
  BY <1>1, KillRpc DEF kill, ipc_receive
<1>2. CASE UNCHANGED vars
  BY <1>2, UnchangedRpc DEF vars
<1>3. CASE /\ serving[current] = 0 /\ messages[current] # <<>>
           /\ serving' = [serving EXCEPT ![current] = Head(messages[current]).sender]
           /\ UNCHANGED <<state, from, reserved>>
  BY <1>3, TakeRpc DEF ipc_receive
<1>4. CASE /\ state' = [state EXCEPT ![current] = "Finished"]
           /\ UNCHANGED <<serving, from, reserved>>
  BY <1>4, KillRpc DEF ipc_receive
<1> QED BY <1>1, <1>2, <1>3, <1>4 DEF ipc_receive, now_serving

LEMMA IpcReplyRpc ==
  ASSUME IpcInv, NEW ring, ipc_reply(ring) PROVE RpcStep
<1>1. mode = "user"
  BY DEF ipc_reply
<1>2. ASSUME kill PROVE RpcStep
  BY <1>1, <1>2, KillRpc DEF kill
<1>3. ASSUME NEW how, halt(how) PROVE RpcStep
  BY <1>3, UnchangedRpc DEF halt
<1>4. ASSUME refuse_reply PROVE RpcStep
  <2>1. \A a \in Actor : a # current => serving'[a] = serving[a]
    BY <1>4 DEF refuse_reply, IpcInv, TypeOK
  <2> QED BY <1>1, <1>4, <2>1, KillRpc DEF refuse_reply
<1>5. ASSUME serving[current] # 0, reply_stream(serving[current], ring) PROVE RpcStep
  BY <1>1, <1>3, <1>4, <1>5, AnswerRpc DEF reply_stream
<1> QED BY <1>1, <1>2, <1>3, <1>4, <1>5, AnswerRpc DEF ipc_reply

LEMMA FindRpc ==
  ASSUME IpcInv, find_runnable_process PROVE RpcStep
<1>1. PICK p \in Actor : \/ Ready(p) /\ resume_process(p)
                         \/ inspect_can_progress(p) = "Finished" /\ reap(p)
                         \/ UNCHANGED procVars
  BY ScanIndexType DEF find_runnable_process, IpcInv
<1> QED BY <1>1, ResumeRpc, ReapRpc, UnchangedRpc

LEMMA RpcInit == Init => Calls!Init
<1> SUFFICES ASSUME Init PROVE Calls!Init
  OBVIOUS
<1>1. 1 .. reserved = {1, 2}
  BY DEF Init
<1>2. {p \in ProcessId : ~Dead(p)} = {1, 2}
  <2>1. {1, 2} \subseteq ProcessId
    BY PageAssumption, BootAssumption DEF ProcessId
  <2>2. \A p \in ProcessId : ~Dead(p) <=> p \in {1, 2}
    BY ProcessIds DEF Init, Dead
  <2> QED BY <2>1, <2>2
<1>3. \A p \in ProcessId : CallOf(p) = Idle
  BY ProcessIds DEF Init, CallOf, Waiting, Idle
<1> QED BY <1>1, <1>2, <1>3 DEF Calls!Init, Calls!Idle, Idle

\* The IPC system calls and the scheduler implement remote procedure calls:
\* whoever is killed, reaped or spawned in between, a call goes to one server,
\* is accepted at most once, is answered by the server that accepted it, and
\* its caller goes on only with the answer and stops only when the server is
\* gone.
THEOREM KernelImplementsRpc == Spec => ImplementsRpc
<1>1. IpcInv /\ [Next]_vars => RpcStep
  <2> SUFFICES ASSUME IpcInv, [Next]_vars PROVE RpcStep
    OBVIOUS
  <2>1. ASSUME mode = "user", kill PROVE RpcStep
    BY <2>1, KillRpc DEF kill
  <2>2. ASSUME NEW how, halt(how) PROVE RpcStep
    BY <2>2, UnchangedRpc DEF halt
  <2>3. CASE exit \/ yield_
    BY <2>1, <2>3, UnchangedRpc DEF exit, yield_
  <2>4. CASE \/ \E cap \in Issued, method \in Method : ipc_call(cap, method)
             \/ \E cap \in Issued : ipc_stream(cap)
    BY <2>4, CallRpc DEF Method
  <2>5. CASE \E fits \in BOOLEAN : ipc_receive(fits)
    BY <2>5, ReceiveRpc
  <2>6. CASE \E ring \in Issued : ipc_reply(ring)
    BY <2>6, IpcReplyRpc
  <2>7. CASE alloc_shared
    BY <2>1, <2>2, <2>7, UnchangedRpc DEF alloc_shared, grant_kernel_capability
  <2>8. CASE \E cap \in Issued : map_shared(cap)
    BY <2>1, <2>2, <2>8, UnchangedRpc DEF map_shared, reject, map_handler, vars
  <2>9. CASE alloc \/ free \/ log \/ handle_page_fault
    BY <2>1, <2>2, <2>9, UnchangedRpc DEF alloc, free, log, handle_page_fault, vars
  <2>10. CASE Userspace
    BY <2>1, <2>10, UnchangedRpc DEF Userspace, grant, forward, certify
  <2>11. CASE Schedule
    BY <2>2, <2>11, FindRpc DEF Schedule, schedule_userspace
  <2>12. CASE UNCHANGED vars
    BY <2>12, UnchangedRpc DEF vars
  <2> QED
    BY <2>3, <2>4, <2>5, <2>6, <2>7, <2>8, <2>9, <2>10, <2>11, <2>12 DEF Next, Syscall, halted
<1> QED
  BY <1>1, RpcInit, IpcInit, IpcStep, PTL
  DEF Spec, ImplementsRpc, Calls!Spec, RpcStep, Alive, CallMap

-----------------------------------------------------------------------------
(* Validation.  What validate() computes, by induction on the number of    *)
(* steps its loop may still take.                                          *)

LEMMA NotCapabilities ==
  /\ NoCapability \notin RawCapability /\ Endless \notin RawCapability /\ Endless # NoCapability
BY PageAssumption DEF NoCapability, Endless, RawCapability, Actor

\* One step of the loop of validate(), when f answers for the steps after it.
Step(C, f, capability, claimer) ==
  IF C[capability].recipient # claimer THEN NoCapability
  ELSE IF C[capability].inner = NoCapability THEN capability
  ELSE f[C[capability].inner][capability.certifier]

Answers == RawCapability \cup {NoCapability, Endless}

LEMMA InnerType ==
  ASSUME NEW C \in [RawCapability -> Certificate], NEW c \in RawCapability
  PROVE  /\ C[c].inner # NoCapability => C[c].inner \in RawCapability
         /\ C[c].recipient \in Actor /\ c.certifier \in Actor
<1>1. C[c] \in Certificate
  OBVIOUS
<1> QED  BY <1>1 DEF Certificate, RawCapability

\* The loop is well defined.
LEMMA LoopEquation ==
  ASSUME NEW C \in [RawCapability -> Certificate]
  PROVE  ValidationLoop(C) =
           [fuel \in Nat |-> [capability \in RawCapability |-> [claimer \in Actor |->
             IF C[capability].recipient # claimer THEN NoCapability
             ELSE IF C[capability].inner = NoCapability THEN capability
             ELSE IF fuel = 0 THEN Endless
             ELSE ValidationLoop(C)[fuel - 1][C[capability].inner][capability.certifier]]]]
<1> DEFINE T == [RawCapability -> [Actor -> Answers]]
           last == [c \in RawCapability |-> [a \in Actor |-> Endless]]
           S == [f \in T |-> [c \in RawCapability |-> [a \in Actor |-> Step(C, f, c, a)]]]
           b == [c \in RawCapability |-> [a \in Actor |-> Step(C, last, c, a)]]
<1>1. ASSUME NEW f \in T, NEW c \in RawCapability, NEW a \in Actor PROVE Step(C, f, c, a) \in Answers
  BY InnerType DEF Step, Answers
<1>2. last \in T
  BY DEF Answers
<1>3. b \in T /\ S \in [T -> T]
  BY <1>1, <1>2
<1>4. PICK q : q \in [Nat -> T] /\ q[0] = b /\ \A n \in Nat : q[n + 1] = S[q[n]]
  <2> HIDE DEF T, S, b
  <2>1. \E q : Iteration(q, T, b, S)
    BY <1>3, Recursion
  <2> QED  BY <2>1 DEF Iteration
<1>5. ASSUME NEW n \in Nat, NEW c \in RawCapability, NEW a \in Actor
      PROVE  q[n][c][a] = IF C[c].recipient # a THEN NoCapability
                          ELSE IF C[c].inner = NoCapability THEN c
                          ELSE IF n = 0 THEN Endless
                          ELSE q[n - 1][C[c].inner][c.certifier]
  <2>1. CASE n = 0
    <3>1. q[n][c][a] = Step(C, last, c, a)
      BY <1>4, <2>1
    <3>2. C[c].inner # NoCapability => last[C[c].inner][c.certifier] = Endless
      BY InnerType
    <3> HIDE DEF last
    <3> QED  BY <2>1, <3>1, <3>2 DEF Step
  <2>2. CASE n # 0
    <3>1. n - 1 \in Nat /\ (n - 1) + 1 = n
      BY <2>2
    <3>2. q[n] = S[q[n - 1]] /\ q[n - 1] \in T
      BY <1>4, <3>1
    <3>3. q[n][c][a] = Step(C, q[n - 1], c, a)
      BY <3>2
    <3> QED  BY <2>2, <3>3 DEF Step
  <2> QED  BY <2>1, <2>2
<1>6. \A n \in Nat : q[n] \in [RawCapability -> [Actor -> Answers]]
  BY <1>4
<1>7. q = [n \in Nat |-> [c \in RawCapability |-> [a \in Actor |->
             IF C[c].recipient # a THEN NoCapability
             ELSE IF C[c].inner = NoCapability THEN c
             ELSE IF n = 0 THEN Endless
             ELSE q[n - 1][C[c].inner][c.certifier]]]]
  BY <1>4, <1>5, <1>6
<1> HIDE DEF T, S, b, last
<1> QED  BY <1>7 DEF ValidationLoop

\* What the properties need of it.
Loops(q, C) ==
  \A n \in Nat, c \in RawCapability, p \in Actor :
    q[n][c][p] = IF C[c].recipient # p THEN NoCapability
                 ELSE IF C[c].inner = NoCapability THEN c
                 ELSE IF n = 0 THEN Endless
                 ELSE q[n - 1][C[c].inner][c.certifier]

LEMMA ValidateLoops ==
  ASSUME NEW C \in [RawCapability -> Certificate]
  PROVE  \E q, fuel : /\ Loops(q, C) /\ fuel \in Nat /\ fuel = PROCESS_COUNT * CAPABILITIES_PER_PAGE
                      /\ \A c \in RawCapability, p \in Actor : validate(C, c, p) = q[fuel][c][p]
<1>1. PICK q : q = ValidationLoop(C)
  OBVIOUS
<1>2. PICK fuel : fuel = PROCESS_COUNT * CAPABILITIES_PER_PAGE
  OBVIOUS
<1>3. fuel \in Nat
  BY <1>2, PageAssumption
<1>4. q = [n \in Nat |-> [c \in RawCapability |-> [a \in Actor |->
             IF C[c].recipient # a THEN NoCapability
             ELSE IF C[c].inner = NoCapability THEN c
             ELSE IF n = 0 THEN Endless
             ELSE q[n - 1][C[c].inner][c.certifier]]]]
  BY <1>1, LoopEquation
<1>5. Loops(q, C)
  <2> DEFINE result(n, c, a) == IF C[c].recipient # a THEN NoCapability
                                ELSE IF C[c].inner = NoCapability THEN c
                                ELSE IF n = 0 THEN Endless
                                ELSE q[n - 1][C[c].inner][c.certifier]
  <2>1. q = [n \in Nat |-> [c \in RawCapability |-> [a \in Actor |-> result(n, c, a)]]]
    BY <1>4
  <2> HIDE DEF result
  <2>2. \A n \in Nat, c \in RawCapability, a \in Actor : q[n][c][a] = result(n, c, a)
    BY <2>1
  <2> QED  BY <2>2 DEF Loops, result
<1>6. \A c \in RawCapability, p \in Actor : validate(C, c, p) = q[fuel][c][p]
  BY <1>1, <1>2 DEF validate
<1> QED  BY <1>2, <1>3, <1>5, <1>6

\* A set of certificates that is closed under going back.
Closed(C, I) == \A c \in I : C[c].inner \in I \cup {NoCapability}

\* The kernel never forwards.
KernelGrants(C) == \A c \in KernelCapability : C[c].inner = NoCapability

LEMMA FewerSteps == \A n \in Nat : n + 1 \in Nat /\ n + 1 # 0 /\ (n + 1) - 1 = n
  OBVIOUS

\* A validation that succeeds ends in a grant to a process, among the
\* certificates it started from.
LEMMA ValidGrant ==
  ASSUME NEW C \in [RawCapability -> Certificate], NEW q, Loops(q, C), KernelGrants(C),
         NEW I \in SUBSET RawCapability, Closed(C, I),
         NEW n \in Nat, NEW c \in RawCapability, NEW p \in ProcessId
  PROVE  q[n][c][p] \in RawCapability =>
           /\ C[q[n][c][p]].inner = NoCapability
           /\ C[q[n][c][p]].recipient \in ProcessId
           /\ c \in I => q[n][c][p] \in I
<1> DEFINE Good(m, d, r) == q[m][d][r] \in RawCapability =>
                              /\ C[q[m][d][r]].inner = NoCapability
                              /\ C[q[m][d][r]].recipient \in ProcessId
                              /\ d \in I => q[m][d][r] \in I
           S == {m \in Nat : \A d \in RawCapability, r \in ProcessId : Good(m, d, r)}
<1>1. ASSUME NEW m \in Nat, NEW d \in RawCapability, NEW r \in ProcessId,
             m # 0 => m - 1 \in S
      PROVE  Good(m, d, r)
  <2>1. /\ q[m][d][r] = IF C[d].recipient # r THEN NoCapability
                        ELSE IF C[d].inner = NoCapability THEN d
                        ELSE IF m = 0 THEN Endless
                        ELSE q[m - 1][C[d].inner][d.certifier]
        /\ r \in Actor
    BY ProcessIds DEF Loops
  <2>2. CASE C[d].recipient # r
    BY <2>1, <2>2, NotCapabilities
  <2>3. CASE C[d].recipient = r /\ C[d].inner = NoCapability
    BY <2>1, <2>3
  <2>4. CASE C[d].recipient = r /\ C[d].inner # NoCapability /\ m = 0
    BY <2>1, <2>4, NotCapabilities
  <2>5. CASE C[d].recipient = r /\ C[d].inner # NoCapability /\ m # 0
    <3>1. PICK e, x : e = C[d].inner /\ x = d.certifier
      OBVIOUS
    <3>2. e \in RawCapability /\ x \in ProcessId
      BY <2>5, <3>1, InnerType DEF KernelGrants, KernelCapability, ProcessId, Actor, KERNEL
    <3>3. Good(m - 1, e, x) /\ q[m][d][r] = q[m - 1][e][x]
      BY <1>1, <2>1, <2>5, <3>1, <3>2
    <3>4. d \in I => e \in I
      BY <2>5, <3>1 DEF Closed
    <3> QED  BY <3>3, <3>4
  <2> QED  BY <2>2, <2>3, <2>4, <2>5
<1>2. 0 \in S
  BY <1>1
<1>3. ASSUME NEW m \in S PROVE m + 1 \in S
  <2>1. m + 1 \in Nat /\ (m + 1) - 1 = m
    BY <1>3, FewerSteps
  <2> HIDE DEF Good
  <2> QED  BY <1>1, <1>3, <2>1
<1>4. \A m \in Nat : m \in S
  BY <1>2, <1>3, SetInduction
<1> QED  BY <1>4

\* D is C with some of the certificates in I re-addressed to x, which has
\* written none of them.
Readdressed(C, D, I, x) ==
  \A c \in I : /\ D[c].inner = C[c].inner
               /\ D[c].recipient = C[c].recipient \/ D[c].recipient = x
               /\ c.certifier # x

\* Re-addressing some of the certificates to a process that certified none of
\* them can only end a validation that has gone through so far.
LEMMA ValidReaddressed ==
  ASSUME NEW C \in [RawCapability -> Certificate], NEW D \in [RawCapability -> Certificate],
         NEW q, Loops(q, C), NEW s, Loops(s, D),
         NEW I \in SUBSET RawCapability, Closed(C, I), NEW x,
         Readdressed(C, D, I, x),
         NEW n \in Nat, NEW c \in I, NEW p \in Actor, p # x
  PROVE  s[n][c][p] = q[n][c][p] \/ s[n][c][p] = NoCapability
<1> DEFINE Good(m, d, r) == s[m][d][r] = q[m][d][r] \/ s[m][d][r] = NoCapability
           S == {m \in Nat : \A d \in I, r \in Actor : r # x => Good(m, d, r)}
<1>0. \A d \in I : /\ D[d].inner = C[d].inner
                   /\ D[d].recipient = C[d].recipient \/ D[d].recipient = x
                   /\ d.certifier # x
  BY DEF Readdressed
<1>1. ASSUME NEW m \in Nat, NEW d \in I, NEW r \in Actor, r # x, m # 0 => m - 1 \in S
      PROVE  Good(m, d, r)
  <2>1. /\ q[m][d][r] = IF C[d].recipient # r THEN NoCapability
                        ELSE IF C[d].inner = NoCapability THEN d
                        ELSE IF m = 0 THEN Endless
                        ELSE q[m - 1][C[d].inner][d.certifier]
        /\ s[m][d][r] = IF D[d].recipient # r THEN NoCapability
                        ELSE IF D[d].inner = NoCapability THEN d
                        ELSE IF m = 0 THEN Endless
                        ELSE s[m - 1][D[d].inner][d.certifier]
    BY DEF Loops
  <2>2. CASE D[d].recipient # r
    BY <2>1, <2>2
  <2>3. CASE D[d].recipient = r /\ (C[d].inner = NoCapability \/ m = 0)
    BY <1>0, <1>1, <2>1, <2>3
  <2>4. CASE D[d].recipient = r /\ C[d].inner # NoCapability /\ m # 0
    <3>1. PICK e, y : e = C[d].inner /\ y = d.certifier
      OBVIOUS
    <3>2. e \in I /\ y \in Actor /\ y # x
      BY <1>0, <2>4, <3>1, InnerType DEF Closed
    <3>3. Good(m - 1, e, y)
      BY <1>1, <2>4, <3>2
    <3>4. q[m][d][r] = q[m - 1][e][y] /\ s[m][d][r] = s[m - 1][e][y]
      BY <1>0, <1>1, <2>1, <2>4, <3>1
    <3> QED  BY <3>3, <3>4
  <2> QED  BY <2>2, <2>3, <2>4
<1>2. 0 \in S
  <2> HIDE DEF Good
  <2> QED  BY <1>1
<1>3. ASSUME NEW m \in S PROVE m + 1 \in S
  <2>1. m + 1 \in Nat /\ (m + 1) - 1 = m
    BY <1>3, FewerSteps
  <2> HIDE DEF Good
  <2> QED  BY <1>1, <1>3, <2>1
<1>4. \A m \in Nat : m \in S
  BY <1>2, <1>3, SetInduction
<1> QED  BY <1>4

\* A validation depends on the certificates it may reach, and no others.
LEMMA ValidSame ==
  ASSUME NEW C \in [RawCapability -> Certificate], NEW D \in [RawCapability -> Certificate],
         NEW q, Loops(q, C), NEW s, Loops(s, D),
         NEW I \in SUBSET RawCapability, Closed(C, I), \A c \in I : D[c] = C[c],
         NEW n \in Nat, NEW c \in I, NEW p \in Actor
  PROVE  s[n][c][p] = q[n][c][p]
<1> DEFINE Good(m, d, r) == s[m][d][r] = q[m][d][r]
           S == {m \in Nat : \A d \in I, r \in Actor : Good(m, d, r)}
<1>1. ASSUME NEW m \in Nat, NEW d \in I, NEW r \in Actor, m # 0 => m - 1 \in S
      PROVE  Good(m, d, r)
  <2>1. /\ q[m][d][r] = IF C[d].recipient # r THEN NoCapability
                        ELSE IF C[d].inner = NoCapability THEN d
                        ELSE IF m = 0 THEN Endless
                        ELSE q[m - 1][C[d].inner][d.certifier]
        /\ s[m][d][r] = IF C[d].recipient # r THEN NoCapability
                        ELSE IF C[d].inner = NoCapability THEN d
                        ELSE IF m = 0 THEN Endless
                        ELSE s[m - 1][C[d].inner][d.certifier]
    BY DEF Loops
  <2>2. ASSUME C[d].inner # NoCapability, m # 0
        PROVE  q[m - 1][C[d].inner][d.certifier] = s[m - 1][C[d].inner][d.certifier]
    <3>1. PICK e, y : e = C[d].inner /\ y = d.certifier
      OBVIOUS
    <3>2. e \in I /\ y \in Actor
      BY <2>2, <3>1, InnerType DEF Closed
    <3>3. Good(m - 1, e, y)
      BY <1>1, <2>2, <3>2
    <3> QED  BY <3>1, <3>3
  <2> QED  BY <2>1, <2>2
<1>2. 0 \in S
  BY <1>1
<1>3. ASSUME NEW m \in S PROVE m + 1 \in S
  <2>1. m + 1 \in Nat /\ (m + 1) - 1 = m
    BY <1>3, FewerSteps
  <2> HIDE DEF Good
  <2> QED  BY <1>1, <1>3, <2>1
<1>4. \A m \in Nat : m \in S
  BY <1>2, <1>3, SetInduction
<1> QED  BY <1>4

\* rank counts the steps a validation may need.
Ranks(C, I, rank) ==
  /\ rank \in [RawCapability -> Nat]
  /\ \A c \in I : C[c].inner # NoCapability => rank[C[c].inner] < rank[c]

LEMMA ValidEnds ==
  ASSUME NEW C \in [RawCapability -> Certificate], NEW q, Loops(q, C),
         NEW I \in SUBSET RawCapability, Closed(C, I), NEW rank, Ranks(C, I, rank),
         NEW n \in Nat, NEW c \in I, rank[c] <= n, NEW p \in Actor
  PROVE  q[n][c][p] # Endless
<1> DEFINE Good(m, d, r) == q[m][d][r] # Endless
           S == {m \in Nat : \A d \in I, r \in Actor : rank[d] <= m => Good(m, d, r)}
<1>1. ASSUME NEW m \in Nat, NEW d \in I, NEW r \in Actor, rank[d] <= m, m # 0 => m - 1 \in S
      PROVE  Good(m, d, r)
  <2>1. q[m][d][r] = IF C[d].recipient # r THEN NoCapability
                     ELSE IF C[d].inner = NoCapability THEN d
                     ELSE IF m = 0 THEN Endless
                     ELSE q[m - 1][C[d].inner][d.certifier]
    BY DEF Loops
  <2>2. CASE C[d].recipient # r \/ C[d].inner = NoCapability
    BY <2>1, <2>2, NotCapabilities
  <2>3. CASE C[d].recipient = r /\ C[d].inner # NoCapability
    <3>1. PICK e, y : e = C[d].inner /\ y = d.certifier
      OBVIOUS
    <3>2. e \in I /\ y \in Actor
      BY <2>3, <3>1, InnerType DEF Closed
    <3>3. rank[e] < rank[d] /\ rank[e] \in Nat /\ rank[d] \in Nat
      BY <2>3, <3>1, <3>2 DEF Ranks
    <3>4. m # 0 /\ rank[e] <= m - 1
      BY <1>1, <3>3
    <3>5. Good(m - 1, e, y)
      BY <1>1, <3>2, <3>4
    <3> QED  BY <2>1, <2>3, <3>1, <3>4, <3>5
  <2> QED  BY <2>2, <2>3
<1>2. 0 \in S
  BY <1>1
<1>3. ASSUME NEW m \in S PROVE m + 1 \in S
  <2>1. m + 1 \in Nat /\ (m + 1) - 1 = m
    BY <1>3, FewerSteps
  <2> HIDE DEF Good
  <2> QED  BY <1>1, <1>3, <2>1
<1>4. \A m \in Nat : m \in S
  BY <1>2, <1>3, SetInduction
<1> QED  BY <1>4

\* Two numbers below w times something.
LEMMA Digits ==
  ASSUME NEW w \in Nat, w >= 1, NEW a \in Nat, NEW b \in Nat,
         NEW x \in 0 .. w - 1, NEW y \in 0 .. w - 1, a * w + x = b * w + y
  PROVE  a <= b
<1>1. ASSUME a > b PROVE FALSE
  <2>1. PICK d : d = a - (b + 1)
    OBVIOUS
  <2>2. d \in Nat /\ a = b + 1 + d
    BY <1>1, <2>1
  <2>3. a * w = b * w + w + d * w
    BY <2>2
  <2>4. d * w \in Nat /\ b * w \in Nat
    BY <2>2
  <2> QED  BY <2>3, <2>4
<1> QED  BY <1>1

LEMMA PlaceBound ==
  ASSUME NEW w \in Nat, w >= 1, NEW n \in Nat, NEW a \in 0 .. n - 1, NEW x \in 0 .. w - 1
  PROVE  a * w + x \in 0 .. n * w - 1
<1>1. PICK d : d = n - (a + 1)
  OBVIOUS
<1>2. d \in Nat /\ n = a + 1 + d
  BY <1>1
<1>3. n * w = a * w + w + d * w
  BY <1>2
<1>4. d * w \in Nat /\ a * w \in Nat
  BY <1>2
<1> QED  BY <1>3, <1>4

LEMMA SameCapability ==
  ASSUME NEW c \in RawCapability, NEW d \in RawCapability,
         c.certifier = d.certifier, c.local_index = d.local_index
  PROVE  c = d
  BY DEF RawCapability

\* There are no more certificates than steps that validate() is given.
LEMMA CertificatesCounted ==
  ASSUME NEW I \in SUBSET RawCapability
  PROVE  IsFiniteSet(I) /\ Cardinality(I) <= PROCESS_COUNT * CAPABILITIES_PER_PAGE
<1> USE PageAssumption
<1>1. PICK w, n, K : w = CAPABILITIES_PER_PAGE /\ n = PROCESS_COUNT /\ K = n * w
  OBVIOUS
<1>2. K \in Nat
  BY <1>1
<1> DEFINE place(c) == c.certifier * w + c.local_index
           f == [c \in I |-> place(c)]
<1>3. ASSUME NEW c \in I PROVE c.certifier \in 0 .. n - 1 /\ c.local_index \in 0 .. w - 1
  BY <1>1 DEF RawCapability, Actor
<1>4. \A c \in I : place(c) \in 0 .. K - 1
  BY <1>1, <1>3, PlaceBound
<1>5. ASSUME NEW c \in I, NEW d \in I, place(c) = place(d) PROVE c = d
  <2>1. PICK a, b, x, y : a = c.certifier /\ b = d.certifier /\ x = c.local_index /\ y = d.local_index
    OBVIOUS
  <2>2. a \in Nat /\ b \in Nat /\ x \in 0 .. w - 1 /\ y \in 0 .. w - 1 /\ w \in Nat /\ w >= 1
    BY <1>1, <1>3, <2>1
  <2>3. a * w + x = b * w + y
    BY <1>5, <2>1
  <2>4. a <= b /\ b <= a
    BY <2>2, <2>3, Digits
  <2>5. a = b
    BY <2>2, <2>4
  <2>6. x = y
    <3>1. a * w \in Nat
      BY <2>2
    <3> QED  BY <2>2, <2>3, <2>5, <3>1
  <2> QED  BY <2>1, <2>5, <2>6, SameCapability
<1>6. f \in Injection(I, 0 .. K - 1)
  <2> HIDE DEF place
  <2> QED  BY <1>4, <1>5 DEF Injection, IsInjective
<1>7. IsFiniteSet(0 .. K - 1) /\ Cardinality(0 .. K - 1) = K
  BY <1>2, FS_Interval
<1> QED  BY <1>1, <1>6, <1>7, FS_Injection

-----------------------------------------------------------------------------
(* Certificates.  A step issues at most one, and the rest stay as they are *)
(* but for those a spawn re-addresses to the process it creates.           *)

\* Certificates are forwards of certificates that were there before; the
\* kernel only grants, and only what it has a handler for; a process not yet
\* reserved has written none.
CertsInv ==
  /\ Closed(certs, Issued)
  /\ KernelGrants(certs)
  /\ \A c \in KernelCapability : certs[c].recipient # KERNEL => handlers[c.local_index] # "none"
  /\ \A p \in Actor : p > reserved => allocated[p] = 0

\* A chain of forwards is no longer than there are certificates.
RankInv ==
  \E rank : /\ Ranks(certs, Issued, rank)
            /\ \A c \in Issued : rank[c] < Cardinality(Issued)

\* A step that issues the certificate new.
Issues(new) ==
  /\ new \in RawCapability /\ new \notin Issued /\ Issued' = Issued \cup {new}
  /\ certs'[new].inner \in Issued \cup {NoCapability}
  /\ new.certifier = KERNEL =>
       certs'[new].inner = NoCapability /\ handlers'[new.local_index] # "none"
  /\ \A c \in RawCapability : c # new =>
       /\ certs'[c].inner = certs[c].inner
       /\ \/ certs'[c].recipient = certs[c].recipient
          \/ /\ c.certifier # KERNEL /\ certs'[c].recipient = reserved'
             /\ reserved' = reserved + 1
  /\ \A i \in 0 .. CAPABILITIES_PER_PAGE - 1 : handlers[i] # "none" => handlers'[i] # "none"
  /\ \A p \in Actor : p > reserved' => allocated'[p] = 0
  /\ current <= reserved

CapEffect == UNCHANGED <<capVars, reserved>> \/ \E new : Issues(new)

LEMMA IssuedGrows ==
  ASSUME TypeOK, NEW a \in Actor, NEW k, k = allocated[a], k < CAPABILITIES_PER_PAGE,
         allocated' = [allocated EXCEPT ![a] = k + 1],
         NEW new, new = [certifier |-> a, local_index |-> k]
  PROVE  /\ new \in RawCapability /\ new \notin Issued /\ Issued' = Issued \cup {new}
         /\ new.certifier = a /\ new.local_index = k
         /\ allocated'[a] = k + 1 /\ \A p \in Actor : p # a => allocated'[p] = allocated[p]
<1> USE PageAssumption
<1>1. k \in Nat /\ k \in 0 .. CAPABILITIES_PER_PAGE - 1 /\ new.certifier = a /\ new.local_index = k
  BY DEF TypeOK
<1>2. new \in RawCapability /\ new \notin Issued
  BY <1>1 DEF RawCapability, Issued
<1>3. allocated'[a] = k + 1 /\ \A p \in Actor : p # a => allocated'[p] = allocated[p]
  BY DEF TypeOK
<1>4. ASSUME NEW c \in RawCapability PROVE c \in Issued' <=> c \in Issued \/ c = new
  <2>1. c.certifier \in Actor /\ c.local_index \in Nat
    BY DEF RawCapability
  <2>2. CASE c.certifier = a
    <3>1. c.local_index < k + 1 <=> c.local_index < k \/ c.local_index = k
      BY <1>1, <2>1
    <3>2. c.local_index = k <=> c = new
      BY <1>1, <1>2, <2>2, SameCapability
    <3> QED  BY <1>3, <2>2, <3>1, <3>2 DEF Issued
  <2>3. CASE c.certifier # a
    BY <1>1, <1>3, <2>1, <2>3 DEF Issued
  <2> QED  BY <2>2, <2>3
<1>5. Issued' = Issued \cup {new}
  BY <1>2, <1>4 DEF Issued
<1> QED  BY <1>1, <1>2, <1>3, <1>5

LEMMA HaltEffect == \A how : halt(how) => CapEffect
  BY DEF halt, CapEffect, procVars

LEMMA KillEffect == kill => CapEffect
  BY DEF kill, CapEffect

LEMMA StutterEffect == UNCHANGED vars => CapEffect
  BY DEF vars, procVars, CapEffect

LEMMA RunningReserved ==
  ASSUME IpcInv, mode = "user"
  PROVE  current \in Actor /\ current # KERNEL /\ reserved \in Nat /\ current <= reserved
  BY DEF IpcInv, Slots, TypeOK, KERNEL

LEMMA GrantKernelEffect ==
  ASSUME IpcInv, mode = "user", CertsInv, NEW kind \in HandlerKind,
         grant_kernel_capability(current, kind)
  PROVE  CapEffect
<1> USE PageAssumption
<1>0. TypeOK /\ current <= reserved
  BY RunningReserved DEF IpcInv
<1>1. PICK k, new : k = allocated[KERNEL] /\ new = [certifier |-> KERNEL, local_index |-> k]
  OBVIOUS
<1>2. CASE k >= CAPABILITIES_PER_PAGE
  BY <1>1, <1>2, HaltEffect DEF grant_kernel_capability
<1>3. CASE ~(k >= CAPABILITIES_PER_PAGE)
  <2>1. KERNEL \in Actor /\ k \in 0 .. CAPABILITIES_PER_PAGE - 1 /\ k < CAPABILITIES_PER_PAGE
    BY <1>0, <1>1, <1>3, ZeroActor DEF KERNEL, TypeOK
  <2>2. /\ allocated' = [allocated EXCEPT ![KERNEL] = k + 1]
        /\ handlers' = [handlers EXCEPT ![k] = kind]
        /\ certs' = [certs EXCEPT ![new] = granted(current)]
        /\ reserved' = reserved
    BY <1>1, <1>3 DEF grant_kernel_capability, install_handler, procVars
  <2>3. /\ new \in RawCapability /\ new \notin Issued /\ Issued' = Issued \cup {new}
        /\ new.certifier = KERNEL /\ new.local_index = k
        /\ \A p \in Actor : p # KERNEL => allocated'[p] = allocated[p]
    BY <1>0, <1>1, <2>1, <2>2, IssuedGrows
  <2>4. certs'[new] = granted(current) /\ \A c \in RawCapability : c # new => certs'[c] = certs[c]
    BY <1>0, <2>2, <2>3 DEF TypeOK
  <2>5. certs'[new].inner = NoCapability
    BY <2>4 DEF granted
  <2>6. handlers'[k] # "none" /\
        \A i \in 0 .. CAPABILITIES_PER_PAGE - 1 : handlers[i] # "none" => handlers'[i] # "none"
    BY <1>0, <2>1, <2>2 DEF TypeOK, HandlerKind
  <2>7. \A p \in Actor : p > reserved' => allocated'[p] = 0
    <3>1. reserved \in Nat
      BY <1>0 DEF TypeOK
    <3>2. \A p \in Actor : p > reserved => p # KERNEL
      BY <3>1 DEF KERNEL
    <3> QED  BY <2>2, <2>3, <3>2 DEF CertsInv
  <2>8. Issues(new)
    BY <1>0, <2>3, <2>4, <2>5, <2>6, <2>7 DEF Issues
  <2> QED  BY <2>8 DEF CapEffect
<1> QED  BY <1>2, <1>3

LEMMA CertifyEffect ==
  ASSUME IpcInv, mode = "user", CertsInv, NEW certificate,
         certificate.inner \in Issued \cup {NoCapability}, certify(certificate)
  PROVE  CapEffect
<1> USE PageAssumption
<1>1. PICK k, new, me : /\ me = current /\ k = allocated[me]
                        /\ new = [certifier |-> me, local_index |-> k]
  OBVIOUS
<1>2. me \in Actor /\ me # KERNEL /\ me <= reserved /\ reserved \in Nat /\ TypeOK
  BY <1>1, RunningReserved DEF IpcInv
<1>3. CASE ~(k < CAPABILITIES_PER_PAGE)
  BY <1>1, <1>3, KillEffect DEF certify, slot_exists, next_index
<1>4. CASE k < CAPABILITIES_PER_PAGE
  <2>1. /\ allocated' = [allocated EXCEPT ![me] = k + 1]
        /\ certs' = [certs EXCEPT ![new] = certificate]
        /\ handlers' = handlers /\ reserved' = reserved
    BY <1>1, <1>4 DEF certify, slot_exists, next_index, procVars
  <2>2. /\ new \in RawCapability /\ new \notin Issued /\ Issued' = Issued \cup {new}
        /\ new.certifier = me /\ new.local_index = k
        /\ \A p \in Actor : p # me => allocated'[p] = allocated[p]
    BY <1>1, <1>2, <1>4, <2>1, IssuedGrows
  <2>3. certs'[new] = certificate /\ \A c \in RawCapability : c # new => certs'[c] = certs[c]
    BY <1>2, <2>1, <2>2 DEF TypeOK
  <2>4. \A p \in Actor : p > reserved' => allocated'[p] = 0
    <3>1. \A p \in Actor : p > reserved => p # me
      BY <1>2 DEF Actor
    <3> QED  BY <2>1, <2>2, <3>1 DEF CertsInv
  <2>5. Issues(new)
    BY <1>1, <1>2, <2>1, <2>2, <2>3, <2>4 DEF Issues
  <2> QED  BY <2>5 DEF CapEffect
<1> QED  BY <1>3, <1>4

\* The pid is new, so nothing was certified by it or for it before.
LEMMA SpawnEffect ==
  ASSUME IpcInv, mode = "user", CertsInv, NEW args, spawn(args)
  PROVE  CapEffect
<1> USE PageAssumption
<1>0. PICK pid, new, me : /\ pid = reserved + 1 /\ me = current
                          /\ new = [certifier |-> pid, local_index |-> 0]
  OBVIOUS
<1>1. CASE halt("argument not certified by sender") \/ halt("process table full")
  BY <1>1, HaltEffect
<1>2. CASE /\ pid < PROCESS_COUNT /\ ~ \E c \in args : c.certifier # me
           /\ reserved' = pid
           /\ certs' = [c \in RawCapability |->
                          IF c = new THEN granted(me)
                          ELSE IF c \in args THEN argument_certificate(c, pid) ELSE certs[c]]
           /\ allocated' = [allocated EXCEPT ![pid] = 1]
           /\ handlers' = handlers
  <2>1. /\ TypeOK /\ me \in Actor /\ me # KERNEL /\ me <= reserved /\ reserved \in Nat
        /\ pid \in Actor /\ pid # KERNEL /\ allocated[pid] = 0
    <3>1. TypeOK /\ me \in Actor /\ me # KERNEL /\ me <= reserved /\ reserved \in Nat
      BY <1>0, RunningReserved DEF IpcInv
    <3>2. pid \in Actor /\ pid # KERNEL /\ pid > reserved
      BY <1>0, <1>2, <3>1 DEF Actor, KERNEL
    <3> QED  BY <3>1, <3>2 DEF CertsInv
  <2>2. 0 < CAPABILITIES_PER_PAGE /\ allocated' = [allocated EXCEPT ![pid] = 0 + 1]
    BY <1>2
  <2>3. /\ new \in RawCapability /\ new \notin Issued /\ Issued' = Issued \cup {new}
        /\ new.certifier = pid
        /\ \A p \in Actor : p # pid => allocated'[p] = allocated[p]
    <3>1. PICK k : k = 0
      OBVIOUS
    <3>2. k = allocated[pid] /\ k < CAPABILITIES_PER_PAGE
          /\ allocated' = [allocated EXCEPT ![pid] = k + 1] /\ new = [certifier |-> pid, local_index |-> k]
      BY <1>0, <2>1, <2>2, <3>1
    <3> QED  BY <2>1, <3>2, IssuedGrows
  <2>4. certs'[new].inner = NoCapability
    BY <1>2, <2>3 DEF granted
  <2>5. ASSUME NEW c \in RawCapability, c # new
        PROVE  /\ certs'[c].inner = certs[c].inner
               /\ \/ certs'[c].recipient = certs[c].recipient
                  \/ c.certifier # KERNEL /\ certs'[c].recipient = reserved' /\ reserved' = reserved + 1
    <3>1. CASE c \in args
      <4>1. certs'[c] = [recipient |-> pid, inner |-> certs[c].inner]
        BY <1>2, <2>5, <3>1 DEF argument_certificate, replace_recipient
      <4>2. c.certifier # KERNEL
        BY <1>2, <2>1, <3>1
      <4> QED  BY <1>0, <1>2, <4>1, <4>2
    <3>2. CASE c \notin args
      BY <1>2, <2>5, <3>2
    <3> QED  BY <3>1, <3>2
  <2>6. \A p \in Actor : p > reserved' => allocated'[p] = 0
    <3>1. \A p \in Actor : p > pid => p # pid /\ p > reserved
      BY <1>0, <2>1 DEF Actor
    <3> QED  BY <1>2, <2>3, <3>1 DEF CertsInv
  <2>7. Issues(new)
    BY <1>0, <1>2, <2>1, <2>3, <2>4, <2>5, <2>6 DEF Issues
  <2> QED  BY <2>7 DEF CapEffect
<1>3. reserved \in Int /\ PROCESS_COUNT \in Int
  BY DEF IpcInv, TypeOK
<1>4. pid >= PROCESS_COUNT \/ pid < PROCESS_COUNT
  BY <1>0, <1>3
<1> QED  BY <1>0, <1>1, <1>2, <1>4 DEF spawn, reserve_process, capVars

\* A new certificate, or none, keeps the certificates in order.
LEMMA CertsStep ==
  ASSUME TypeOK, CertsInv, CapEffect
  PROVE  CertsInv'
<1>1. CASE UNCHANGED <<capVars, reserved>>
  <2>1. certs' = certs /\ allocated' = allocated /\ handlers' = handlers /\ reserved' = reserved
    BY <1>1 DEF capVars
  <2>2. Issued' = Issued
    BY <2>1 DEF Issued
  <2> QED  BY <2>1, <2>2 DEF CertsInv, Closed, KernelGrants
<1>2. ASSUME NEW new, Issues(new) PROVE CertsInv'
  <2>1. Closed(certs, Issued)'
    <3>1. ASSUME NEW c \in Issued' PROVE certs'[c].inner \in Issued \cup {NoCapability}
      <4>1. CASE c = new
        BY <1>2, <4>1 DEF Issues
      <4>2. CASE c # new
        <5>1. c \in Issued
          BY <1>2, <3>1, <4>2 DEF Issues
        <5> QED  BY <1>2, <4>2, <5>1 DEF Issues, Issued, CertsInv, Closed
      <4> QED  BY <4>1, <4>2
    <3>2. Issued \subseteq Issued'
      BY <1>2 DEF Issues
    <3> QED  BY <3>1, <3>2 DEF Closed
  <2>2. ASSUME NEW c \in KernelCapability
        PROVE  /\ certs'[c].inner = NoCapability
               /\ certs'[c].recipient # KERNEL => handlers'[c.local_index] # "none"
    <3>1. /\ c \in RawCapability /\ c.certifier = KERNEL
          /\ c.local_index \in 0 .. CAPABILITIES_PER_PAGE - 1
      BY DEF KernelCapability, RawCapability
    <3>2. CASE c = new
      BY <1>2, <3>1, <3>2 DEF Issues
    <3>3. CASE c # new
      BY <1>2, <3>1, <3>3 DEF Issues, CertsInv, KernelGrants
    <3> QED  BY <3>2, <3>3
  <2>3. \A p \in Actor : p > reserved' => allocated'[p] = 0
    BY <1>2 DEF Issues
  <2> QED  BY <2>1, <2>2, <2>3 DEF CertsInv, KernelGrants
<1> QED  BY <1>1, <1>2 DEF CapEffect

\* A forward is one step further from its grant than what it forwards.
LEMMA RankStep ==
  ASSUME TypeOK, CertsInv, RankInv, CapEffect
  PROVE  RankInv'
<1>1. CASE UNCHANGED <<capVars, reserved>>
  <2>1. certs' = certs /\ Issued' = Issued
    BY <1>1 DEF capVars, Issued
  <2> QED  BY <2>1 DEF RankInv, Ranks
<1>2. ASSUME NEW new, Issues(new) PROVE RankInv'
  <2>1. PICK rank : /\ Ranks(certs, Issued, rank)
                    /\ \A c \in Issued : rank[c] < Cardinality(Issued)
    BY DEF RankInv
  <2>2. PICK e, n : e = certs'[new].inner /\ n = Cardinality(Issued)
    OBVIOUS
  <2>3. n \in Nat /\ Cardinality(Issued') = n + 1
    <3>1. IsFiniteSet(Issued)
      BY CertificatesCounted DEF Issued
    <3> QED  BY <1>2, <2>2, <3>1, FS_AddElement, FS_CardinalityType DEF Issues
  <2>4. /\ new \in RawCapability /\ new \notin Issued /\ Issued' = Issued \cup {new}
        /\ e \in Issued \cup {NoCapability}
        /\ \A c \in Issued : certs'[c].inner = certs[c].inner
    BY <1>2, <2>2 DEF Issues, Issued
  <2>5. rank \in [RawCapability -> Nat]
    BY <2>1 DEF Ranks
  <2>6. PICK v : v = IF e = NoCapability THEN 0 ELSE rank[e] + 1
    OBVIOUS
  <2>7. v \in Nat /\ v < n + 1 /\ (e # NoCapability => rank[e] < v)
    <3>1. e # NoCapability => rank[e] \in Nat /\ rank[e] < n
      BY <2>1, <2>2, <2>4, <2>5 DEF Issued
    <3> QED  BY <2>3, <2>6, <3>1
  <2>8. PICK r : r = [rank EXCEPT ![new] = v]
    OBVIOUS
  <2>9. /\ r \in [RawCapability -> Nat] /\ r[new] = v
        /\ \A c \in RawCapability : c # new => r[c] = rank[c]
    BY <2>4, <2>5, <2>7, <2>8
  <2>10. ASSUME NEW c \in Issued'
         PROVE  /\ certs'[c].inner # NoCapability => r[certs'[c].inner] < r[c]
                /\ r[c] < n + 1
    <3>1. CASE c = new
      <4>1. e # NoCapability => r[e] = rank[e]
        BY <2>4, <2>9 DEF Issued
      <4> QED  BY <2>2, <2>7, <2>9, <3>1, <4>1
    <3>2. CASE c # new
      <4>1. c \in Issued /\ r[c] = rank[c] /\ certs'[c].inner = certs[c].inner
        BY <2>4, <2>9, <2>10, <3>2 DEF Issued
      <4>2. certs[c].inner # NoCapability => certs[c].inner \in Issued
        BY <4>1 DEF CertsInv, Closed
      <4>3. certs[c].inner # NoCapability => r[certs[c].inner] = rank[certs[c].inner]
        BY <2>4, <2>9, <4>2 DEF Issued
      <4>4. rank[c] \in Nat /\ rank[c] < n
        BY <2>1, <2>2, <2>5, <4>1 DEF Issued
      <4> QED  BY <2>1, <2>3, <4>1, <4>3, <4>4 DEF Ranks
    <3> QED  BY <3>1, <3>2
  <2> QED  BY <2>3, <2>9, <2>10 DEF RankInv, Ranks
<1> QED  BY <1>1, <1>2 DEF CapEffect

LEMMA CertsInit == Init => CertsInv /\ RankInv
<1> SUFFICES ASSUME Init PROVE CertsInv /\ RankInv
  OBVIOUS
<1> USE PageAssumption, BootAssumption
<1>1. \A c \in RawCapability : certs[c].inner = NoCapability
  BY DEF Init, granted, Zeroed
<1>2. ASSUME NEW c \in KernelCapability, certs[c].recipient # KERNEL
      PROVE  handlers[c.local_index] # "none"
  <2>1. /\ c \in RawCapability /\ c.certifier = KERNEL
        /\ c.local_index \in 0 .. CAPABILITIES_PER_PAGE - 1
    BY DEF KernelCapability, RawCapability
  <2>2. c.local_index < Len(BootHandlers)
    <3>1. ASSUME ~(c.local_index < Len(BootHandlers)) PROVE FALSE
      <4>1. c # [certifier |-> 1, local_index |-> 0]
        BY <2>1 DEF KERNEL
      <4>2. certs[c] = Zeroed
        BY <2>1, <3>1, <4>1 DEF Init
      <4> QED  BY <1>2, <4>2 DEF Zeroed, granted
    <3> QED  BY <3>1
  <2>3. PICK i : i = c.local_index + 1
    OBVIOUS
  <2>4. i \in 1 .. Len(BootHandlers)
    BY <2>1, <2>2, <2>3
  <2>5. handlers[c.local_index] = BootHandlers[i] /\ BootHandlers[i] \in HandlerKind
    BY <2>1, <2>2, <2>3, <2>4 DEF Init
  <2> QED  BY <2>5 DEF HandlerKind
<1>3. \A p \in Actor : p > reserved => allocated[p] = 0
  BY DEF Init, Actor, KERNEL
<1>4. CertsInv
  BY <1>1, <1>2, <1>3 DEF CertsInv, Closed, KernelGrants, KernelCapability, Issued
<1>5. RankInv
  <2>1. PICK rank : rank = [c \in RawCapability |-> 0]
    OBVIOUS
  <2>2. Ranks(certs, Issued, rank)
    BY <1>1, <2>1 DEF Ranks, Issued
  <2>3. ASSUME NEW c \in Issued PROVE rank[c] < Cardinality(Issued)
    <3>1. IsFiniteSet(Issued) /\ Issued # {}
      BY CertificatesCounted DEF Issued
    <3>2. Cardinality(Issued) \in Nat /\ Cardinality(Issued) # 0
      BY <3>1, FS_CardinalityType, FS_EmptySet
    <3> QED  BY <2>1, <3>2 DEF Issued
  <2> QED  BY <2>2, <2>3 DEF RankInv
<1> QED  BY <1>4, <1>5

LEMMA MapHandlerEffect ==
  ASSUME NEW index, NEW expected, map_handler(index, expected) PROVE CapEffect
  BY HaltEffect, KillEffect, StutterEffect DEF map_handler

LEMMA CallEffect ==
  ASSUME IpcInv, CertsInv, NEW cap, NEW method \in Method,
         ipc_call(cap, method) \/ ipc_stream(cap)
  PROVE  CapEffect
<1>1. mode = "user" /\ TypeOK
  BY DEF ipc_call, ipc_stream, IpcInv
<1>2. ASSUME NEW target, reject(target) PROVE CapEffect
  BY <1>2, KillEffect, HaltEffect DEF reject
<1>3. ASSUME NEW target, NEW waiting, NEW number, send(target, waiting, number) PROVE CapEffect
  BY <1>3 DEF send, CapEffect
<1>4. ASSUME NEW index, call_method(index) PROVE CapEffect
  <2>1. "memory" \in HandlerKind
    BY DEF HandlerKind
  <2> QED
    BY <1>1, <1>4, <2>1, KillEffect, HaltEffect, StutterEffect, GrantKernelEffect, SpawnEffect
    DEF call_method
<1>5. ipc_call(cap, method) => CapEffect
  BY <1>2, <1>3, <1>4, HaltEffect, KillEffect DEF ipc_call
<1>6. ipc_stream(cap) => CapEffect
  BY <1>2, <1>3, MapHandlerEffect, HaltEffect DEF ipc_stream
<1> QED  BY <1>5, <1>6

LEMMA ReplyEffect == \A ring : ipc_reply(ring) => CapEffect
<1> SUFFICES ASSUME NEW ring, ipc_reply(ring) PROVE CapEffect
  OBVIOUS
<1>1. refuse_reply => CapEffect
  BY DEF refuse_reply, CapEffect
<1>2. \A caller, become : reply(caller, become) => CapEffect
  BY DEF reply, CapEffect
<1>3. \A caller : reply_stream(caller, ring) => CapEffect
  BY <1>1, <1>2, HaltEffect DEF reply_stream
<1> QED  BY <1>1, <1>2, <1>3, KillEffect, HaltEffect DEF ipc_reply

LEMMA CertifyingEffect == IpcInv /\ CertsInv /\ Userspace => CapEffect
<1> SUFFICES ASSUME IpcInv, CertsInv, Userspace PROVE CapEffect
  OBVIOUS
<1>1. ASSUME NEW recipient \in Actor, grant(recipient) PROVE CapEffect
  <2>1. granted(recipient).inner = NoCapability
    BY DEF granted
  <2> QED  BY <1>1, <2>1, CertifyEffect DEF grant
<1>2. ASSUME NEW cap \in RawCapability, NEW recipient \in Actor, forward(cap, recipient)
      PROVE  CapEffect
  <2>1. forwarded(recipient, cap).inner = cap /\ cap \in Issued
    BY <1>2 DEF forwarded, forward
  <2> QED  BY <1>2, <2>1, CertifyEffect DEF forward
<1>3. \A f \in Forwards : f[1] \in RawCapability /\ f[2] \in Actor
  BY BootAssumption
<1> QED  BY <1>1, <1>2, <1>3 DEF Userspace

LEMMA StepEffect ==
  ASSUME IpcInv, CertsInv, [Next]_vars
  PROVE  CapEffect
<1>0. TypeOK /\ "memory" \in HandlerKind
  BY DEF IpcInv, HandlerKind
<1>1. CASE exit \/ yield_
  BY <1>1, KillEffect DEF exit, yield_, procVars, CapEffect
<1>2. CASE \/ \E cap \in Issued, method \in Method : ipc_call(cap, method)
           \/ \E cap \in Issued : ipc_stream(cap)
  BY <1>2, CallEffect DEF Method
<1>3. CASE \E fits \in BOOLEAN : ipc_receive(fits)
  BY <1>3, KillEffect, StutterEffect DEF ipc_receive, CapEffect
<1>4. CASE \E ring \in Issued : ipc_reply(ring)
  BY <1>4, ReplyEffect
<1>5. CASE alloc_shared
  BY <1>0, <1>5, KillEffect, GrantKernelEffect DEF alloc_shared
<1>6. CASE \E cap \in Issued : map_shared(cap)
  BY <1>6, KillEffect, HaltEffect, MapHandlerEffect DEF map_shared, reject
<1>7. CASE alloc \/ free \/ log \/ handle_page_fault
  BY <1>7, KillEffect, StutterEffect, HaltEffect DEF alloc, free, log, handle_page_fault
<1>8. CASE Userspace
  BY <1>8, CertifyingEffect
<1>9. CASE Schedule
  <2>1. \A p : resume_process(p) \/ reap(p) => CapEffect
    BY DEF resume_process, reap, CapEffect
  <2> QED
    BY <1>9, <2>1, HaltEffect
    DEF Schedule, schedule_userspace, find_runnable_process, procVars, CapEffect
<1>10. CASE UNCHANGED vars
  BY <1>10, StutterEffect
<1> QED
  BY <1>1, <1>2, <1>3, <1>4, <1>5, <1>6, <1>7, <1>8, <1>9, <1>10 DEF Next, Syscall, halted

CapInv == CertsInv /\ RankInv

LEMMA CapStep == IpcInv /\ CapInv /\ [Next]_vars => CapInv'
  BY StepEffect, CertsStep, RankStep DEF CapInv, IpcInv

\* Every validation comes to an end: a program cannot send the kernel into an
\* endless loop through the certificates kernel-api lets it write.
THEOREM ValidationsEnd == Spec => []ValidationEnds
<1>1. TypeOK /\ CapInv => ValidationEnds
  <2> SUFFICES ASSUME TypeOK, CapInv, NEW cap \in Issued, NEW p \in ProcessId
               PROVE  validate(certs, cap, p) # Endless
    BY DEF ValidationEnds
  <2>1. PICK C, I : C = certs /\ I = Issued
    OBVIOUS
  <2>2. /\ C \in [RawCapability -> Certificate] /\ I \in SUBSET RawCapability
        /\ Closed(C, I) /\ cap \in RawCapability /\ p \in Actor
    BY <2>1, ProcessIds DEF TypeOK, Issued, CapInv, CertsInv
  <2>3. PICK q, fuel : /\ Loops(q, C) /\ fuel \in Nat /\ fuel = PROCESS_COUNT * CAPABILITIES_PER_PAGE
                       /\ \A c \in RawCapability, a \in Actor : validate(C, c, a) = q[fuel][c][a]
    BY <2>2, ValidateLoops
  <2>4. PICK rank : Ranks(C, I, rank) /\ \A c \in I : rank[c] < Cardinality(I)
    BY <2>1 DEF CapInv, RankInv
  <2>5. rank[cap] <= fuel
    <3>1. PICK n : n = Cardinality(I)
      OBVIOUS
    <3>2. n \in Nat /\ n <= fuel
      BY <2>2, <2>3, <3>1, CertificatesCounted, FS_CardinalityType
    <3>3. rank[cap] \in Nat /\ rank[cap] < n
      BY <2>1, <2>2, <2>4, <3>1 DEF Ranks
    <3> QED  BY <2>3, <3>2, <3>3
  <2>6. q[fuel][cap][p] # Endless
    BY <2>1, <2>2, <2>3, <2>4, <2>5, ValidEnds
  <2> QED  BY <2>1, <2>2, <2>3, <2>6
<1> QED
  BY <1>1, IpcInit, CertsInit, IpcStep, CapStep, PTL DEF Spec, IpcInv, CapInv

LEMMA SameCertificate ==
  ASSUME NEW x \in Certificate, NEW y \in Certificate, x.recipient = y.recipient, x.inner = y.inner
  PROVE  x = y
  BY DEF Certificate

\* Whoever can use a capability goes on to mean the same by it: what is issued
\* later by kernel, grants or forwards touches no chain there was before.
THEOREM AuthorityKept == Spec => AuthorityPersists
<1> DEFINE Kept == certs' # certs /\ reserved' = reserved =>
                     \A cap \in Issued, p \in ProcessId :
                       validate(certs, cap, p) \in RawCapability =>
                         validate(certs', cap, p) = validate(certs, cap, p)
<1>1. ASSUME IpcInv, IpcInv', CapInv, [Next]_vars PROVE Kept
  <2> SUFFICES ASSUME certs' # certs, reserved' = reserved, NEW cap \in Issued, NEW p \in ProcessId
               PROVE  validate(certs', cap, p) = validate(certs, cap, p)
    OBVIOUS
  <2>1. PICK new : Issues(new)
    BY <1>1, StepEffect DEF CapEffect, capVars, CapInv
  <2>2. PICK C, D, I : C = certs /\ D = certs' /\ I = Issued
    OBVIOUS
  <2>3. /\ C \in [RawCapability -> Certificate] /\ D \in [RawCapability -> Certificate]
        /\ I \in SUBSET RawCapability /\ Closed(C, I) /\ cap \in RawCapability /\ p \in Actor
        /\ cap \in I
    BY <1>1, <2>2, ProcessIds DEF IpcInv, TypeOK, Issued, CapInv, CertsInv
  <2>4. \A c \in I : D[c] = C[c]
    <3> SUFFICES ASSUME NEW c \in I PROVE D[c] = C[c]
      OBVIOUS
    <3>1. reserved' # reserved + 1
      BY <1>1 DEF IpcInv, TypeOK
    <3>2. D[c].inner = C[c].inner /\ D[c].recipient = C[c].recipient
      BY <2>1, <2>2, <2>3, <3>1 DEF Issues
    <3> QED  BY <2>3, <3>2, SameCertificate
  <2>5. PICK q, fuel : /\ Loops(q, C) /\ fuel \in Nat /\ fuel = PROCESS_COUNT * CAPABILITIES_PER_PAGE
                       /\ \A c \in RawCapability, a \in Actor : validate(C, c, a) = q[fuel][c][a]
    BY <2>3, ValidateLoops
  <2>6. PICK s, more : /\ Loops(s, D) /\ more \in Nat /\ more = PROCESS_COUNT * CAPABILITIES_PER_PAGE
                       /\ \A c \in RawCapability, a \in Actor : validate(D, c, a) = s[more][c][a]
    BY <2>3, ValidateLoops
  <2>7. s[fuel][cap][p] = q[fuel][cap][p]
    BY <2>3, <2>4, <2>5, <2>6, ValidSame
  <2>8. validate(D, cap, p) = validate(C, cap, p)
    BY <2>3, <2>5, <2>6, <2>7
  <2> QED  BY <2>2, <2>8
<1> QED
  BY <1>1, IpcInit, CertsInit, IpcStep, CapStep, PTL DEF Spec, CapInv, AuthorityPersists

\* A process that grants, forwards, spawns or allocates gives capabilities to
\* others and gains no use of one that was there before.
THEOREM NoAuthorityGained == Spec => NoSelfAuthority
<1> DEFINE Gained == \A cap \in Issued :
                       certs' # certs /\ validate(certs, cap, current) = NoCapability =>
                         validate(certs', cap, current) = NoCapability
<1>1. ASSUME IpcInv, IpcInv', CapInv, [Next]_vars PROVE Gained
  <2> SUFFICES ASSUME NEW cap \in Issued, certs' # certs,
                      validate(certs, cap, current) = NoCapability
               PROVE  validate(certs', cap, current) = NoCapability
    OBVIOUS
  <2>1. PICK new : Issues(new)
    BY <1>1, StepEffect DEF CapEffect, capVars, CapInv
  <2>2. PICK C, D, I, p, x : C = certs /\ D = certs' /\ I = Issued /\ p = current /\ x = reserved + 1
    OBVIOUS
  <2>3. /\ C \in [RawCapability -> Certificate] /\ D \in [RawCapability -> Certificate]
        /\ I \in SUBSET RawCapability /\ Closed(C, I) /\ cap \in RawCapability /\ p \in Actor
        /\ cap \in I
    BY <1>1, <2>2 DEF IpcInv, TypeOK, Issued, CapInv, CertsInv
  <2>4. p # x /\ reserved \in Nat
    BY <1>1, <2>1, <2>2 DEF Issues, IpcInv, TypeOK, Actor
  <2>5. Readdressed(C, D, I, x)
    <3> SUFFICES ASSUME NEW c \in I
                 PROVE  /\ D[c].inner = C[c].inner
                        /\ D[c].recipient = C[c].recipient \/ D[c].recipient = x
                        /\ c.certifier # x
      BY DEF Readdressed
    <3>1. c \in RawCapability /\ c # new /\ c.certifier \in Actor /\ c.local_index \in Nat
      BY <2>1, <2>2, <2>3 DEF Issues, RawCapability
    <3>2. allocated[c.certifier] # 0
      BY <2>2, <3>1 DEF Issued
    <3>3. c.certifier # x
      BY <1>1, <2>2, <2>4, <3>1, <3>2 DEF CapInv, CertsInv, Actor
    <3> QED  BY <2>1, <2>2, <3>1, <3>3 DEF Issues
  <2>6. PICK q, fuel : /\ Loops(q, C) /\ fuel \in Nat /\ fuel = PROCESS_COUNT * CAPABILITIES_PER_PAGE
                       /\ \A c \in RawCapability, a \in Actor : validate(C, c, a) = q[fuel][c][a]
    BY <2>3, ValidateLoops
  <2>7. PICK s, more : /\ Loops(s, D) /\ more \in Nat /\ more = PROCESS_COUNT * CAPABILITIES_PER_PAGE
                       /\ \A c \in RawCapability, a \in Actor : validate(D, c, a) = s[more][c][a]
    BY <2>3, ValidateLoops
  <2>8. s[fuel][cap][p] = q[fuel][cap][p] \/ s[fuel][cap][p] = NoCapability
    BY <2>3, <2>4, <2>5, <2>6, <2>7, ValidReaddressed
  <2>9. validate(C, cap, p) = NoCapability => validate(D, cap, p) = NoCapability
    BY <2>3, <2>6, <2>7, <2>8
  <2> QED  BY <2>2, <2>9
<1> QED
  BY <1>1, IpcInit, CertsInit, IpcStep, CapStep, PTL DEF Spec, CapInv, NoSelfAuthority

-----------------------------------------------------------------------------
(* Requests name what their receiver granted, and those of processes that  *)
(* wait for a stream are requests for one.  A queue changes by losing requests or by the one a send adds; a   *)
(* process that waits before and after a step waits for the same thing.    *)

Dispatchable(m, a) ==
  /\ m.cap.certifier = a
  /\ m.cap \in Issued
  /\ certs[m.cap].inner = NoCapability
  /\ state[m.sender] = "WaitingForStreamMap" => m.method = "stream"

MessagesInv ==
  \A a \in ProcessId : ~Dead(a) => \A i \in DOMAIN messages[a] : Dispatchable(messages[a][i], a)

WaitersKept == \A p \in Actor : Waiting(p) /\ Waiting(p)' => state'[p] = state[p]

Queues ==
  \A a \in ProcessId : ~Dead(a)' =>
    \A i \in DOMAIN messages'[a] :
      \/ ~Dead(a) /\ \E j \in DOMAIN messages[a] : messages[a][j] = messages'[a][i]
      \/ \E m : m = messages'[a][i] /\ Dispatchable(m, a)'

RequestEffect == WaitersKept /\ Queues

LEMMA MessagesStep ==
  ASSUME IpcInv, IpcInv', CertsInv, MessagesInv, CapEffect, RequestEffect
  PROVE  MessagesInv'
<1> SUFFICES ASSUME NEW a \in ProcessId, ~Dead(a)', NEW i \in DOMAIN messages'[a],
                    NEW m, m = messages'[a][i]
             PROVE  Dispatchable(m, a)'
  BY DEF MessagesInv, Dispatchable
<1>1. m = messages'[a][i]
  OBVIOUS
<1>2. CASE ~Dead(a) /\ \E j \in DOMAIN messages[a] : messages[a][j] = m
  <2>1. PICK j \in DOMAIN messages[a] : messages[a][j] = m
    BY <1>2
  <2>2. Dispatchable(m, a)
    BY <1>2, <2>1 DEF MessagesInv
  <2>3. m.sender \in Actor /\ WaitingOn(m.sender, a)
    BY <1>2, <2>1, SenderType, ProcessIds DEF IpcInv, Servers, Server
  <2>4. Server(a)'
    BY DEF IpcInv, Servers
  <2>5. WaitingOn(m.sender, a)'
    BY <1>1, <2>4 DEF Server, WaitingOn, Waiting
  <2>6. state'[m.sender] = state[m.sender]
    BY <2>3, <2>5 DEF RequestEffect, WaitersKept, WaitingOn, Waiting
  <2>7. m.cap \in Issued' /\ certs'[m.cap].inner = certs[m.cap].inner
    <3>1. m.cap \in Issued /\ m.cap \in RawCapability
      BY <2>2 DEF Dispatchable, Issued
    <3>2. CASE UNCHANGED <<capVars, reserved>>
      BY <3>1, <3>2 DEF capVars, Issued
    <3>3. ASSUME NEW new, Issues(new)
          PROVE  m.cap \in Issued' /\ certs'[m.cap].inner = certs[m.cap].inner
      BY <3>1, <3>3 DEF Issues
    <3> QED  BY <3>2, <3>3 DEF CapEffect
  <2>8. (m.cap.certifier = a) /\ certs[m.cap].inner = NoCapability
        /\ (state[m.sender] = "WaitingForStreamMap" => m.method = "stream")
    BY <2>2 DEF Dispatchable
  <2> QED  BY <1>1, <2>6, <2>7, <2>8 DEF Dispatchable
<1>3. CASE \E r : r = messages'[a][i] /\ Dispatchable(r, a)'
  BY <1>1, <1>3
<1> QED  BY <1>1, <1>2, <1>3 DEF RequestEffect, Queues

LEMMA SameTableRequests ==
  ASSUME state' = state, messages' = messages PROVE RequestEffect
  BY DEF RequestEffect, WaitersKept, Queues, Dead

LEMMA OneStateRequests ==
  ASSUME IpcInv, NEW x \in Actor, ~Dead(x), NEW s,
         ~Waiting(x) \/ s \notin {"WaitingForReply", "WaitingForStreamMap"},
         state' = [state EXCEPT ![x] = s], messages' = messages
  PROVE  RequestEffect
<1>1. TypeOK
  BY DEF IpcInv
<1>2. WaitersKept
  BY <1>1 DEF WaitersKept, Waiting, TypeOK
<1>3. Queues
  BY <1>1, ProcessIds DEF Queues, Dead, TypeOK
<1> QED  BY <1>2, <1>3 DEF RequestEffect

LEMMA RunningAlive ==
  ASSUME IpcInv, mode = "user"
  PROVE  current \in ProcessId /\ current \in Actor /\ state[current] = "Runnable"
         /\ ~Dead(current) /\ ~Waiting(current)
  BY DEF IpcInv, Slots, TypeOK, ProcessId, Actor, Dead, Waiting

LEMMA KillRequests == ASSUME IpcInv, mode = "user", kill PROVE RequestEffect
  BY RunningAlive, OneStateRequests DEF kill

LEMMA HaltRequests == \A how : halt(how) => RequestEffect
  BY SameTableRequests DEF halt, procVars

LEMMA StutterRequests == UNCHANGED vars => RequestEffect
  BY SameTableRequests DEF vars, procVars

LEMMA GrantKernelRequests == \A kind : grant_kernel_capability(current, kind) => RequestEffect
  BY SameTableRequests, HaltRequests DEF grant_kernel_capability, procVars

LEMMA SpawnRequests == ASSUME IpcInv, NEW args, spawn(args) PROVE RequestEffect
<1>1. CASE halt("argument not certified by sender") \/ halt("process table full")
  BY <1>1, HaltRequests
<1>2. PICK pid : pid = reserved + 1
  OBVIOUS
<1>3. CASE /\ state' = [state EXCEPT ![pid] = "Runnable"]
           /\ messages' = [messages EXCEPT ![pid] = <<>>]
  <2>1. TypeOK
    BY DEF IpcInv
  <2>2. WaitersKept
    BY <1>3, <2>1 DEF WaitersKept, Waiting, TypeOK
  <2>3. \A a \in Actor : a # pid => messages'[a] = messages[a] /\ state'[a] = state[a]
    BY <1>3, <2>1 DEF TypeOK
  <2>4. \A a \in Actor : a = pid => messages'[a] = <<>>
    BY <1>3, <2>1 DEF TypeOK
  <2>5. Queues
    BY <2>3, <2>4, ProcessIds DEF Queues, Dead
  <2> QED  BY <2>2, <2>5 DEF RequestEffect
<1> QED  BY <1>1, <1>2, <1>3 DEF spawn, reserve_process

\* The capability a validation ends in was granted by its certifier.
LEMMA ValidTarget ==
  ASSUME TypeOK, CertsInv, NEW cap \in RawCapability, NEW p \in ProcessId,
         NEW target, target = validate(certs, cap, p), target \in RawCapability
  PROVE  /\ certs[target].inner = NoCapability
         /\ certs[target].recipient \in ProcessId
         /\ cap \in Issued => target \in Issued
<1>1. PICK C, I : C = certs /\ I = Issued
  OBVIOUS
<1>2. /\ C \in [RawCapability -> Certificate] /\ I \in SUBSET RawCapability
      /\ Closed(C, I) /\ KernelGrants(C) /\ p \in Actor
  BY <1>1, ProcessIds DEF TypeOK, Issued, CertsInv
<1>3. PICK q, fuel : /\ Loops(q, C) /\ fuel \in Nat /\ fuel = PROCESS_COUNT * CAPABILITIES_PER_PAGE
                     /\ \A c \in RawCapability, a \in Actor : validate(C, c, a) = q[fuel][c][a]
  BY <1>2, ValidateLoops
<1>4. target = q[fuel][cap][p]
  BY <1>1, <1>2, <1>3
<1>5. q[fuel][cap][p] \in RawCapability =>
        /\ C[q[fuel][cap][p]].inner = NoCapability
        /\ C[q[fuel][cap][p]].recipient \in ProcessId
        /\ cap \in I => q[fuel][cap][p] \in I
  BY <1>2, <1>3, ValidGrant
<1> QED  BY <1>1, <1>4, <1>5

LEMMA SendRequests ==
  ASSUME IpcInv, mode = "user", NEW target \in UserCapability,
         target \in Issued, certs[target].inner = NoCapability,
         NEW waiting, NEW method,
         waiting = "WaitingForStreamMap" => method = "stream",
         send(target, waiting, method)
  PROVE  RequestEffect
<1>1. PICK me, dest, m : /\ me = current /\ dest = target.certifier
                         /\ m = [cap |-> target, method |-> method, sender |-> me]
  OBVIOUS
<1>2. /\ TypeOK /\ me \in Actor /\ ~Waiting(me) /\ ~Dead(me) /\ dest \in Actor
  BY <1>1, RunningAlive DEF IpcInv, UserCapability, RawCapability
<1>3. /\ state' = [state EXCEPT ![me] = waiting]
      /\ messages' = [messages EXCEPT ![dest] = Append(messages[dest], m)]
      /\ certs' = certs /\ Issued' = Issued
  BY <1>1 DEF send, sender_state, capVars, Issued
<1>4. WaitersKept
  BY <1>2, <1>3 DEF WaitersKept, Waiting, TypeOK
<1>5. ASSUME NEW a \in ProcessId, ~Dead(a)' PROVE a \in Actor /\ ~Dead(a)
  BY <1>2, <1>3, <1>5, ProcessIds DEF Dead, TypeOK
<1>6. Dispatchable(m, dest)'
  <2>1. m.cap = target /\ m.method = method /\ m.sender = me
    BY <1>1
  <2>2. state'[me] = waiting
    BY <1>2, <1>3 DEF TypeOK
  <2> QED  BY <1>1, <1>3, <2>1, <2>2 DEF Dispatchable
<1>7. ASSUME NEW a \in ProcessId, ~Dead(a)', NEW i \in DOMAIN messages'[a]
      PROVE  \/ ~Dead(a) /\ \E j \in DOMAIN messages[a] : messages[a][j] = messages'[a][i]
             \/ \E r : r = messages'[a][i] /\ Dispatchable(r, a)'
  <2>1. CASE a # dest
    <3>1. messages'[a] = messages[a]
      BY <1>2, <1>3, <1>5, <1>7, <2>1 DEF TypeOK
    <3> QED  BY <1>5, <1>7, <3>1
  <2>2. CASE a = dest
    <3>1. PICK Q, n : Q = messages[a] /\ n = Len(Q)
      OBVIOUS
    <3>2. Q \in Seq(Message) /\ n \in Nat /\ DOMAIN Q = 1 .. n
      BY <1>2, <1>5, <1>7, <3>1 DEF TypeOK
    <3>3. /\ messages'[a] = Append(Q, m) /\ DOMAIN Append(Q, m) = 1 .. n + 1
          /\ Append(Q, m)[n + 1] = m /\ \A k \in 1 .. n : Append(Q, m)[k] = Q[k]
      BY <1>2, <1>3, <2>2, <3>1, <3>2 DEF TypeOK
    <3>4. CASE i = n + 1
      <4>1. messages'[a][i] = m
        BY <3>3, <3>4
      <4> QED  BY <1>6, <2>2, <4>1
    <3>5. CASE i # n + 1
      <4>1. i \in 1 .. n
        BY <1>7, <3>2, <3>3, <3>5
      <4> QED  BY <1>5, <1>7, <3>1, <3>2, <3>3, <4>1
    <3> QED  BY <3>4, <3>5
  <2> QED  BY <2>1, <2>2
<1>8. Queues
  BY <1>7 DEF Queues
<1> QED  BY <1>4, <1>8 DEF RequestEffect

LEMMA CallRequests ==
  ASSUME IpcInv, CertsInv, NEW cap \in Issued, NEW method \in Method,
         ipc_call(cap, method) \/ ipc_stream(cap)
  PROVE  RequestEffect
<1>1. mode = "user" /\ TypeOK /\ current \in ProcessId
  BY RunningAlive DEF ipc_call, ipc_stream, IpcInv
<1>2. PICK target : target = validate(certs, cap, current)
  OBVIOUS
<1>3. target \in UserCapability => target \in Issued /\ certs[target].inner = NoCapability
  BY <1>1, <1>2, ValidTarget DEF UserCapability, Issued
<1>4. reject(target) => RequestEffect
  BY <1>1, KillRequests, HaltRequests DEF reject
<1>5. ASSUME NEW index, call_method(index) PROVE RequestEffect
  BY <1>1, <1>5, KillRequests, HaltRequests, StutterRequests, GrantKernelRequests, SpawnRequests
  DEF call_method
<1>6. ASSUME NEW index, map_handler(index, "input") PROVE RequestEffect
  BY <1>1, <1>6, KillRequests, HaltRequests, StutterRequests DEF map_handler
<1>7. target \in UserCapability /\ send(target, "WaitingForReply", method) => RequestEffect
  BY <1>1, <1>3, SendRequests
<1>8. target \in UserCapability /\ send(target, "WaitingForStreamMap", stream_method) => RequestEffect
  BY <1>1, <1>3, SendRequests DEF stream_method
<1>9. ipc_call(cap, method) => RequestEffect
  BY <1>1, <1>2, <1>4, <1>5, <1>7, HaltRequests, KillRequests DEF ipc_call
<1>10. ipc_stream(cap) => RequestEffect
  BY <1>1, <1>2, <1>4, <1>6, <1>8, HaltRequests DEF ipc_stream
<1> QED  BY <1>9, <1>10

LEMMA ReceiveRequests == ASSUME IpcInv, NEW fits, ipc_receive(fits) PROVE RequestEffect
<1>1. PICK me : me = current
  OBVIOUS
<1>2. mode = "user" /\ TypeOK /\ me \in Actor /\ ~Dead(me) /\ ~Waiting(me)
  BY <1>1, RunningAlive DEF ipc_receive, IpcInv
<1>3. CASE /\ messages[me] # <<>>
           /\ messages' = [messages EXCEPT ![me] = Tail(messages[me])]
           /\ state' = state \/ state' = [state EXCEPT ![me] = "Finished"]
  <2>1. WaitersKept
    BY <1>2, <1>3 DEF WaitersKept, Waiting, TypeOK
  <2>2. ASSUME NEW a \in ProcessId, ~Dead(a)', NEW i \in DOMAIN messages'[a]
        PROVE  ~Dead(a) /\ \E j \in DOMAIN messages[a] : messages[a][j] = messages'[a][i]
    <3>1. a \in Actor /\ ~Dead(a)
      BY <1>2, <1>3, <2>2, ProcessIds DEF Dead, TypeOK
    <3>2. CASE a # me
      <4>1. messages'[a] = messages[a]
        BY <1>2, <1>3, <3>1, <3>2 DEF TypeOK
      <4> QED  BY <2>2, <3>1, <4>1
    <3>3. CASE a = me
      <4>1. PICK Q : Q = messages[me]
        OBVIOUS
      <4>2. Q \in Seq(Message) /\ Q # <<>> /\ messages'[a] = Tail(Q)
        BY <1>2, <1>3, <3>3, <4>1 DEF TypeOK
      <4>3. i \in 1 .. Len(Q) - 1 /\ Tail(Q)[i] = Q[i + 1] /\ i + 1 \in DOMAIN Q
        BY <2>2, <4>2
      <4> QED  BY <3>1, <3>3, <4>1, <4>2, <4>3
    <3> QED  BY <3>2, <3>3
  <2>3. Queues
    BY <2>2 DEF Queues
  <2> QED  BY <2>1, <2>3 DEF RequestEffect
<1> QED
  BY <1>1, <1>2, <1>3, KillRequests, StutterRequests DEF ipc_receive, pop_front

LEMMA ReplyRequests == ASSUME IpcInv, NEW ring, ipc_reply(ring) PROVE RequestEffect
<1>1. mode = "user" /\ serving[current] \in Actor
  BY DEF ipc_reply, IpcInv, TypeOK
<1>2. ASSUME refuse_reply PROVE RequestEffect
  BY <1>1, <1>2, RunningAlive, OneStateRequests DEF refuse_reply
<1>3. ASSUME NEW become \in {"ReadyReply", "ReadyStreamMap"}, reply(serving[current], become),
             WaitingOn(serving[current], current)
      PROVE  RequestEffect
  BY <1>1, <1>3, OneStateRequests DEF reply, WaitingOn, Waiting, Dead
<1>4. reply_stream(serving[current], ring) /\ WaitingOn(serving[current], current) => RequestEffect
  BY <1>2, <1>3, HaltRequests DEF reply_stream
<1> QED
  BY <1>1, <1>2, <1>3, <1>4, KillRequests, HaltRequests DEF ipc_reply

LEMMA FindRequests == ASSUME IpcInv, find_runnable_process PROVE RequestEffect
<1>1. PICK p \in Actor : \/ Ready(p) /\ resume_process(p)
                         \/ reap(p)
                         \/ UNCHANGED procVars
  BY ScanIndexType DEF find_runnable_process, IpcInv
<1>2. CASE Ready(p) /\ resume_process(p)
  <2>1. ~Dead(p) /\ ~Waiting(p)
    BY <1>2 DEF Ready, Dead, Waiting
  <2> QED  BY <1>2, <2>1, OneStateRequests, SameTableRequests DEF resume_process
<1>3. CASE reap(p)
  <2>1. TypeOK
    BY DEF IpcInv
  <2>2. WaitersKept
    BY <1>3, <2>1 DEF WaitersKept, Waiting, TypeOK, reap
  <2>3. \A a \in Actor : a # p => messages'[a] = messages[a] /\ state'[a] = state[a]
    BY <1>3, <2>1 DEF TypeOK, reap
  <2>4. \A a \in Actor : a = p => messages'[a] = <<>>
    BY <1>3, <2>1 DEF TypeOK, reap
  <2>5. Queues
    BY <2>3, <2>4, ProcessIds DEF Queues, Dead
  <2> QED  BY <2>2, <2>5 DEF RequestEffect
<1>4. CASE UNCHANGED procVars
  BY <1>4, SameTableRequests DEF procVars
<1> QED BY <1>1, <1>2, <1>3, <1>4

LEMMA StepRequests ==
  ASSUME IpcInv, CertsInv, [Next]_vars
  PROVE  RequestEffect
<1>1. CASE exit \/ yield_
  BY <1>1, KillRequests, SameTableRequests DEF exit, yield_, procVars
<1>2. CASE \/ \E cap \in Issued, method \in Method : ipc_call(cap, method)
           \/ \E cap \in Issued : ipc_stream(cap)
  BY <1>2, CallRequests DEF Method
<1>3. CASE \E fits \in BOOLEAN : ipc_receive(fits)
  BY <1>3, ReceiveRequests
<1>4. CASE \E ring \in Issued : ipc_reply(ring)
  BY <1>4, ReplyRequests
<1>5. CASE alloc_shared \/ \E cap \in Issued : map_shared(cap)
  BY <1>5, KillRequests, HaltRequests, StutterRequests, GrantKernelRequests
  DEF alloc_shared, map_shared, reject, map_handler
<1>6. CASE alloc \/ free \/ log \/ handle_page_fault
  BY <1>6, KillRequests, StutterRequests, HaltRequests DEF alloc, free, log, handle_page_fault
<1>7. CASE Userspace
  BY <1>7, KillRequests, SameTableRequests DEF Userspace, grant, forward, certify, procVars
<1>8. CASE Schedule
  BY <1>8, FindRequests, HaltRequests DEF Schedule, schedule_userspace
<1>9. CASE UNCHANGED vars
  BY <1>9, StutterRequests
<1> QED
  BY <1>1, <1>2, <1>3, <1>4, <1>5, <1>6, <1>7, <1>8, <1>9 DEF Next, Syscall, halted

\* Whatever numbers programs pass to ipc_call, and however they pass
\* capabilities on: a request a live server has queued is for a capability the
\* server granted itself, so Dispatch::run_call has its handler, and a process
\* that waits for a stream has asked for one, so the answer ipc_reply unwraps a
\* capability from is the answer to a stream request.
THEOREM RequestsDispatched == Spec => []RequestsDispatchable
<1>1. Init => MessagesInv
  BY ProcessIds DEF Init, MessagesInv
<1>2. IpcInv /\ IpcInv' /\ CapInv /\ MessagesInv /\ [Next]_vars => MessagesInv'
  BY StepEffect, StepRequests, MessagesStep DEF CapInv
<1>3. MessagesInv => RequestsDispatchable
  BY DEF RequestsDispatchable, MessagesInv, Dispatchable
<1> QED
  BY <1>1, <1>2, <1>3, IpcInit, CertsInit, IpcStep, CapStep, PTL DEF Spec, CapInv

=============================================================================
