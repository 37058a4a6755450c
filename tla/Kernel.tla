------------------------------- MODULE Kernel -------------------------------
(***************************************************************************)
(* The kernel core: the process table, the cooperative scheduler, the IPC  *)
(* system calls, the capability certificates they consult, and the spawner *)
(* (kernel/src/process.rs, syscall.rs, capability.rs, process/spawner.rs,  *)
(* the trap entry of main.rs, and the grants of kernel-api/src).           *)
(*                                                                         *)
(* There is one hart and no trap is taken while the kernel runs, so one    *)
(* system call is one action: it either returns to the process that made   *)
(* it (mode stays "user") or ends in the scheduler (mode becomes "scan"),  *)
(* whose loop over the process table is one action per slot.  Any other    *)
(* mode is final: the kernel shut down, or stopped at the panic named.     *)
(*                                                                         *)
(* Buffers, registers and memory are abstracted: whether a result fits the *)
(* user's buffer, whether an allocation succeeds and whether bytes parse   *)
(* are free choices of the action.                                         *)
(***************************************************************************)
EXTENDS Capability, Sequences, FiniteSets

CONSTANTS
  BootHandlers,  \* what main() installs in HANDLERS, a sequence of kinds
  BootGrantees,  \* the process each of these capabilities is granted to
  SpawnArgs,     \* the capability sets a spawned program may be given
  Forwards       \* the capabilities programs pass on, each with its recipient

HandlerKind == {"device", "input", "spawner", "shutdown", "memory"}

ASSUME BootAssumption ==
  /\ PROCESS_COUNT >= 3
  /\ BootHandlers \in Seq(HandlerKind)
  /\ Len(BootHandlers) <= CAPABILITIES_PER_PAGE
  /\ BootGrantees \in [1 .. Len(BootHandlers) -> {1, 2}]
  /\ SpawnArgs \subseteq SUBSET RawCapability
  /\ Forwards \subseteq RawCapability \X Actor

VARIABLES
  \* PROCESSES: one slot per process
  state,        \* the ProcessState kind of each slot, "None" when it is empty
  from,         \* the actor a waiting process waits for
  messages,     \* the queue of requests sent to the process
  serving,      \* currently_serving, 0 when None
  reserved,     \* PROCESSES_RESERVED
  \* the hart
  current,      \* the pid stored in UserStoredCtx, 0 when None
  mode,         \* "user", "scan", or the way the kernel stopped
  scan_offset,  \* the loop counter of find_runnable_process
  \* capabilities
  certs,        \* CAPABILITY_PAGES
  allocated,    \* ALLOCATED_COUNT and each process's CAPABILITIES_ALLOCATED
  handlers      \* HANDLERS

procVars  == <<state, from, messages, serving, reserved>>
schedVars == <<current, mode, scan_offset>>
capVars   == <<certs, allocated, handlers>>
vars      == <<procVars, schedVars, capVars>>

ProcessState ==
  {"None", "Runnable", "Finished", "WaitingForReply", "WaitingForStreamMap",
   "ReadyReply", "ReadyStreamMap"}

\* A method number is below 1000 and an ordinary method's, or at least 1000 and
\* a stream's; whether the server knows the number is the server's to find out.
Method == {"call", "stream"}
Message == [cap : RawCapability, method : Method, sender : Actor]

\* The places a panic can stop the kernel.
Panics ==
  {"own slot locked", "stream to nonexistent process", "reply to nonexistent process",
   "reply to process that does not wait", "no handler", "unexpected request",
   "handler table full", "process table full", "argument not certified by sender",
   "page fault on locked process", "endless validation", "unexpected kernel trap",
   "unexpected stream reply", "stream does not fit the heap"}
Halted == mode \in Panics \cup {"shutdown"}

Waiting(p)      == state[p] \in {"WaitingForReply", "WaitingForStreamMap"}
WaitingOn(p, a) == Waiting(p) /\ from[p] = a
Ready(p)        == state[p] \in {"Runnable", "ReadyReply", "ReadyStreamMap"}
Dead(p)         == state[p] \in {"None", "Finished"}

\* Capabilities that exist: the certificates some actor has handed out.
Issued ==
  {c \in RawCapability : c.local_index < allocated[c.certifier]}

-----------------------------------------------------------------------------
(* What main() leaves behind before it enters the scheduler: the file      *)
(* system is process 1 and its export is granted to the window server,     *)
(* process 2; the kernel's capabilities are granted to the two of them.    *)

Init ==
  /\ state = [p \in Actor |-> IF p \in {1, 2} THEN "Runnable" ELSE "None"]
  /\ from = [p \in Actor |-> KERNEL]
  /\ messages = [p \in Actor |-> <<>>]
  /\ serving = [p \in Actor |-> 0]
  /\ reserved = 2
  /\ current = 0
  /\ mode = "scan"
  /\ scan_offset = 0
  /\ certs = [c \in RawCapability |->
                IF c.certifier = KERNEL /\ c.local_index < Len(BootHandlers)
                THEN granted(BootGrantees[c.local_index + 1])
                ELSE IF c = [certifier |-> 1, local_index |-> 0] THEN granted(2)
                ELSE Zeroed]
  /\ allocated = [a \in Actor |-> IF a = KERNEL THEN Len(BootHandlers)
                                  ELSE IF a \in {1, 2} THEN 1 ELSE 0]
  /\ handlers = [i \in 0 .. CAPABILITIES_PER_PAGE - 1 |->
                   IF i < Len(BootHandlers) THEN BootHandlers[i + 1] ELSE "none"]

-----------------------------------------------------------------------------
(* The ways a trap ends.                                                   *)

\* Err(Yield): on_user_trap saves the registers and enters the scheduler.
yield ==
  /\ mode' = "scan"
  /\ scan_offset' = 0
  /\ UNCHANGED current

\* A panic, or the shutdown: nothing runs any more.
halt(how) ==
  /\ mode' = how
  /\ UNCHANGED <<procVars, current, scan_offset, capVars>>

\* The kill! and kill_manual! macros, followed by the scheduler.
kill ==
  /\ state' = [state EXCEPT ![current] = "Finished"]
  /\ yield
  /\ UNCHANGED <<from, messages, serving, reserved, capVars>>

\* A capability that does not validate.  The claimer was to be killed with the
\* error in the log, but writing the error out walks the certificates again,
\* now without the permission to read user pages: the kernel faults.
reject(target) ==
  \/ target = NoCapability /\ halt("unexpected kernel trap")
  \/ target = Endless /\ halt("endless validation")

-----------------------------------------------------------------------------
(* Capabilities issued by the kernel.                                      *)

\* reserve_kernel_capability's store into HANDLERS.
install_handler(local_index, kind) == [handlers EXCEPT ![local_index] = kind]

\* reserve_kernel_capability then the store of grant_kernel_capability.
\* Indexing HANDLERS past its end panics.
grant_kernel_capability(grantee, kind) ==
  LET local_index == allocated[KERNEL]
      cap == [certifier |-> KERNEL, local_index |-> local_index]
  IN  IF local_index >= CAPABILITIES_PER_PAGE
      THEN halt("handler table full")
      ELSE /\ allocated' = [allocated EXCEPT ![KERNEL] = local_index + 1]
           /\ handlers' = install_handler(local_index, kind)
           /\ certs' = [certs EXCEPT ![cap] = granted(grantee)]
           /\ UNCHANGED <<procVars, schedVars>>

\* PROCESSES_RESERVED only counts up.  (Mutant: the lowest empty slot.)
lowest_empty_slot ==
  IF \E p \in ProcessId : state[p] = "None"
  THEN CHOOSE p \in ProcessId : state[p] = "None" /\ \A q \in 1 .. p - 1 : state[q] # "None"
  ELSE PROCESS_COUNT
reserve_process == reserved + 1

\* An argument's certificate, re-addressed to the new process.  (Mutant: to
\* the process that spawns it.)
argument_for_sender(cap, pid) == replace_recipient(certs[cap], current)
argument_certificate(cap, pid) == replace_recipient(certs[cap], pid)

\* The spawner's call_method: reserve a pid, grant the export to the caller,
\* re-address each argument's certificate to the new process, create it.  The
\* pid PROCESS_COUNT passes the check of ProcessId::new and overflows the
\* arithmetic of map_capability_memory.
spawn(args) ==
  LET pid == reserve_process
      export == [certifier |-> pid, local_index |-> 0]
  IN  IF \E cap \in args : cap.certifier # current
      THEN halt("argument not certified by sender")
      ELSE IF pid >= PROCESS_COUNT
      THEN halt("process table full")
      ELSE /\ reserved' = pid
           /\ certs' = [c \in RawCapability |->
                          IF c = export THEN granted(current)
                          ELSE IF c \in args THEN argument_certificate(c, pid)
                          ELSE certs[c]]
           /\ allocated' = [allocated EXCEPT ![pid] = 1]
           /\ state' = [state EXCEPT ![pid] = "Runnable"]
           /\ messages' = [messages EXCEPT ![pid] = <<>>]
           /\ serving' = [serving EXCEPT ![pid] = 0]
           /\ UNCHANGED <<from, handlers, schedVars>>

\* A call to a kernel handler runs at once and the caller stays Runnable.  A
\* device answers, an input device with its axes, and the caller is killed when
\* the answer does not fit its buffer; the drive may hand out memory too.  The
\* number of the method and the bytes of its arguments are the caller's, and a
\* handler panics on those it does not know.  Memory has no methods at all.
call_method(local_index) ==
  LET kind == handlers[local_index]
  IN  \/ kind = "none" /\ halt("no handler")
      \/ kind # "none" /\ halt("unexpected request")
      \/ kind = "shutdown" /\ halt("shutdown")
      \/ kind = "spawner" /\ \E args \in SpawnArgs : args \subseteq Issued /\ spawn(args)
      \/ kind \in {"device", "input"} /\ (kill \/ UNCHANGED vars)
      \/ kind = "device" /\ grant_kernel_capability(current, "memory")

\* Streams of input devices and memory are mapped in page tables, which are
\* not part of this state, unless the heap allocation fails.  Every other kind
\* has unreachable!() here, and so have streams an input device does not have.
map_handler(local_index, expected) ==
  LET kind == handlers[local_index]
  IN  \/ kind = "none" /\ halt("no handler")
      \/ kind \notin {"none", expected} /\ halt("unexpected request")
      \/ kind = expected /\ expected = "input" /\ halt("unexpected request")
      \/ kind = expected /\ (kill \/ UNCHANGED vars)

-----------------------------------------------------------------------------
(* System calls.                                                           *)

exit ==
  /\ mode = "user"
  /\ kill

yield_ ==
  /\ mode = "user"
  /\ yield
  /\ UNCHANGED <<procVars, capVars>>

\* The state the sender of a request is left in.
sender_state(waiting) == waiting

\* The number a request for a stream is queued with: 1000 more than that of
\* the stream.  (Mutant: streams are numbered as calls are.)
unshifted == "call"
stream_method == "stream"

\* Queue a request at its certifier and wait for the answer.
send(target, waiting, method) ==
  /\ state' = [state EXCEPT ![current] = sender_state(waiting)]
  /\ from' = [from EXCEPT ![current] = target.certifier]
  /\ messages' = [messages EXCEPT ![target.certifier] =
                    Append(@, [cap |-> target, method |-> method, sender |-> current])]
  /\ yield
  /\ UNCHANGED <<serving, reserved, capVars>>

\* The caller's own slot is locked while the certifier's is looked up, so a
\* request to itself finds the lock taken.  The method is whatever number the
\* program passes, a stream's included.
ipc_call(cap, method) ==
  LET target == validate(certs, cap, current)
      dest == target.certifier
  IN  /\ mode = "user"
      /\ \/ target \notin RawCapability /\ reject(target)
         \/ target \in UserCapability /\ dest = current /\ halt("own slot locked")
         \/ target \in UserCapability /\ dest # current /\ state[dest] = "None" /\ kill
         \/ target \in UserCapability /\ dest # current /\ state[dest] # "None"
            /\ send(target, "WaitingForReply", method)
         \/ target \in KernelCapability /\ call_method(target.local_index)

\* As ipc_call, but the certifier is taken to exist, the addition of 1000 is
\* checked, and a kernel stream is mapped at once (or not, when the heap
\* allocation fails).
ipc_stream(cap) ==
  LET target == validate(certs, cap, current)
      dest == target.certifier
  IN  /\ mode = "user"
      /\ \/ target \notin RawCapability /\ reject(target)
         \/ target \in UserCapability /\ dest = current /\ halt("own slot locked")
         \/ target \in UserCapability /\ dest # current /\ state[dest] = "None"
            /\ halt("stream to nonexistent process")
         \/ target \in UserCapability /\ dest # current /\ state[dest] # "None"
            /\ \/ halt("unexpected request")
               \/ send(target, "WaitingForStreamMap", stream_method)
         \/ target \in KernelCapability
            /\ map_handler(target.local_index, "input")

\* pop_front of the queue.  (Mutant: the request is read and left in place.)
front_left_in_place(queue) == queue
pop_front(queue) == Tail(queue)

\* Whose request is being served.
now_serving(message) == message.sender

\* Take the next request.  When its arguments do not fit, the server is
\* killed after the request left the queue.
ipc_receive(fits) ==
  /\ mode = "user"
  /\ \/ serving[current] # 0 /\ kill
     \/ serving[current] = 0 /\ messages[current] = <<>> /\ UNCHANGED vars
     \/ /\ serving[current] = 0 /\ messages[current] # <<>>
        /\ messages' = [messages EXCEPT ![current] = pop_front(@)]
        /\ IF fits
           THEN /\ serving' = [serving EXCEPT ![current] = now_serving(Head(messages[current]))]
                /\ UNCHANGED <<state, schedVars>>
           ELSE /\ state' = [state EXCEPT ![current] = "Finished"]
                /\ yield
                /\ UNCHANGED serving
        /\ UNCHANGED <<from, reserved, capVars>>

\* currently_serving is taken first, so it is gone even when the reply is
\* refused and its sender killed.
reply(caller, become) ==
  /\ serving' = [serving EXCEPT ![current] = 0]
  /\ state' = [state EXCEPT ![caller] = become]
  /\ UNCHANGED <<from, messages, reserved, schedVars, capVars>>

refuse_reply ==
  /\ serving' = [serving EXCEPT ![current] = 0]
  /\ state' = [state EXCEPT ![current] = "Finished"]
  /\ yield
  /\ UNCHANGED <<from, messages, reserved, capVars>>

\* ring is the capability in a reply to a stream request.  It must be valid
\* for the caller and the kernel's; too few bytes, or a size that does not fit
\* the memory, refuse the reply too, but an address that is no capability's is
\* unwrapped.  The size is added to the ring's header before it is compared,
\* and the build checks for overflow.
reply_stream(caller, ring) ==
  LET target == validate(certs, ring, caller)
  IN  \/ refuse_reply
      \/ halt("unexpected stream reply")
      \/ target = Endless /\ halt("endless validation")
      \/ target \in KernelCapability /\ handlers[target.local_index] = "none"
         /\ halt("no handler")
      \/ target \in KernelCapability /\ handlers[target.local_index] \notin {"none", "memory"}
         /\ halt("unexpected request")
      \/ target \in KernelCapability /\ handlers[target.local_index] = "memory"
         /\ (halt("unexpected stream reply") \/ reply(caller, "ReadyStreamMap"))

ipc_reply(ring) ==
  LET caller == serving[current]
  IN  /\ mode = "user"
      /\ \/ caller = 0 /\ kill
         \/ caller # 0 /\ state[caller] = "None" /\ halt("reply to nonexistent process")
         \/ caller # 0 /\ state[caller] \in {"Runnable", "Finished", "ReadyReply", "ReadyStreamMap"}
            /\ halt("reply to process that does not wait")
         \/ caller # 0 /\ Waiting(caller) /\ from[caller] # current /\ refuse_reply
         \/ caller # 0 /\ WaitingOn(caller, current)
            /\ \/ state[caller] = "WaitingForReply" /\ reply(caller, "ReadyReply")
               \/ state[caller] = "WaitingForStreamMap" /\ reply_stream(caller, ring)

\* Memory shared through a kernel capability granted to the allocating process.
alloc_shared ==
  /\ mode = "user"
  /\ \/ kill
     \/ grant_kernel_capability(current, "memory")

\* Only the kernel's memory can be mapped.
map_shared(cap) ==
  LET target == validate(certs, cap, current)
  IN  /\ mode = "user"
      /\ \/ target \notin RawCapability /\ reject(target)
         \/ target \in UserCapability /\ kill
         \/ target \in KernelCapability /\ map_handler(target.local_index, "memory")

\* alloc, free and log change no state kept here, or kill the process.
alloc == mode = "user" /\ (kill \/ UNCHANGED vars)
free  == mode = "user" /\ (kill \/ UNCHANGED vars)
log   == mode = "user" /\ (kill \/ UNCHANGED vars)

\* A page fault loads a page of a mapping, kills on the stack guard, and on
\* any other address kills through a second lock of the process it holds.
handle_page_fault ==
  /\ mode = "user"
  /\ \/ kill
     \/ halt("page fault on locked process")
     \/ UNCHANGED vars

-----------------------------------------------------------------------------
(* Certificates a process writes in its own page, through kernel-api.      *)

\* allocate_certificate: the next index, once.  (Mutant: the last one again.)
last_index(p) == allocated[p] - 1
next_index(p) == allocated[p]

\* The assertion of allocate_certificate.  (Mutant: off by one.)
one_slot_beyond(index) == index <= CAPABILITIES_PER_PAGE
slot_exists(index) == index < CAPABILITIES_PER_PAGE

\* allocate_certificate then the store.  Out of slots, the assertion fails
\* and the panic handler exits the process.
certify(certificate) ==
  LET index == next_index(current)
      cap == [certifier |-> current, local_index |-> index]
  IN  IF ~slot_exists(index)
      THEN kill
      ELSE /\ certs' = [certs EXCEPT ![cap] = certificate]
           /\ allocated' = [allocated EXCEPT ![current] = @ + 1]
           /\ UNCHANGED <<procVars, schedVars, handlers>>

\* Handlers grant to the sender of the request they serve, and to the kernel
\* when the capability is meant as an argument of a spawn.
grant(recipient) ==
  /\ mode = "user"
  /\ recipient \in {KERNEL, serving[current]}
  /\ certify(granted(recipient))

\* Programs pass capabilities on to whomever they like.
forward(cap, recipient) ==
  /\ mode = "user"
  /\ cap \in Issued
  /\ certify(forwarded(recipient, cap))

-----------------------------------------------------------------------------
(* The scheduler.                                                          *)

\* Resuming delivers a reply that is ready; when it does not fit the buffer,
\* the process just made current is killed and the search starts over.  A
\* stream that is ready is mapped in the heap, which is taken to have room.
resume_process(p) ==
  /\ current' = p
  /\ \/ /\ state' = [state EXCEPT ![p] = "Runnable"]
        /\ mode' = "user"
        /\ UNCHANGED scan_offset
     \/ /\ state[p] = "ReadyReply"
        /\ state' = [state EXCEPT ![p] = "Finished"]
        /\ scan_offset' = 0
        /\ UNCHANGED mode
     \/ /\ state[p] = "ReadyStreamMap"
        /\ mode' = "stream does not fit the heap"
        /\ UNCHANGED <<state, scan_offset>>
  /\ UNCHANGED <<from, messages, serving, reserved, capVars>>

\* inspect_can_progress: a process waiting for a dead one is finished too.
\* (Mutants: an empty slot is overlooked; a busy server is taken for dead.)
empty_slot_overlooked(p) ==
  IF Waiting(p) /\ state[from[p]] = "Finished" THEN "Finished" ELSE state[p]
busy_taken_for_dead(p) ==
  IF Waiting(p) /\ ~Ready(from[p]) THEN "Finished" ELSE state[p]
inspect_can_progress(p) ==
  IF Waiting(p) /\ Dead(from[p]) THEN "Finished" ELSE state[p]

\* Emptying a slot drops the process and the requests it did not read.
reap(p) ==
  /\ state' = [state EXCEPT ![p] = "None"]
  /\ messages' = [messages EXCEPT ![p] = <<>>]
  /\ serving' = [serving EXCEPT ![p] = 0]
  /\ scan_offset' = scan_offset + 1
  /\ UNCHANGED <<from, reserved, current, mode, capVars>>

\* The search starts behind the process that ran last.  (Mutant: always at
\* the first slot.)
first_slot == 0
scan_start == IF current = 0 THEN 0 ELSE current + 1

\* One iteration of find_runnable_process.
find_runnable_process ==
  LET p == (scan_start + scan_offset) % PROCESS_COUNT
  IN  /\ mode = "scan" /\ scan_offset < PROCESS_COUNT
      /\ \/ Ready(p) /\ resume_process(p)
         \/ inspect_can_progress(p) = "Finished" /\ reap(p)
         \/ /\ ~Ready(p) /\ inspect_can_progress(p) # "Finished"
            /\ scan_offset' = scan_offset + 1
            /\ UNCHANGED <<procVars, current, mode, capVars>>

\* schedule_userspace shuts down when nothing is left to run.
schedule_userspace ==
  /\ mode = "scan" /\ scan_offset = PROCESS_COUNT
  /\ halt("shutdown")

\* Nothing happens after the end.
halted == Halted /\ UNCHANGED vars

-----------------------------------------------------------------------------

Syscall ==
  \/ exit
  \/ yield_
  \/ \E cap \in Issued, method \in Method : ipc_call(cap, method)
  \/ \E cap \in Issued : ipc_stream(cap)
  \/ \E fits \in BOOLEAN : ipc_receive(fits)
  \/ \E ring \in Issued : ipc_reply(ring)
  \/ alloc_shared
  \/ \E cap \in Issued : map_shared(cap)
  \/ alloc
  \/ free
  \/ log
  \/ handle_page_fault

Userspace ==
  \/ \E recipient \in Actor : grant(recipient)
  \/ \E f \in Forwards : forward(f[1], f[2])

Schedule == find_runnable_process \/ schedule_userspace

Next == Syscall \/ Userspace \/ Schedule \/ halted

Spec == Init /\ [][Next]_vars

\* The kernel runs on, and a program eventually makes a system call that
\* changes something: it yields, waits, serves or ends.
Fairness == WF_vars(Schedule) /\ WF_vars(Syscall)

\* A program that serves requests (Dispatch::run_calls) receives the requests
\* queued for it and answers the one it serves.
Serves(p) ==
  /\ current = p
  /\ \/ serving[p] = 0 /\ messages[p] # <<>> /\ ipc_receive(TRUE)
     \/ serving[p] # 0 /\ \E ring \in Issued : ipc_reply(ring)

FairSpec   == Spec /\ Fairness
ServedSpec == FairSpec /\ \A p \in ProcessId : SF_vars(Serves(p))

-----------------------------------------------------------------------------
(* Properties.                                                             *)

TypeOK ==
  /\ state \in [Actor -> ProcessState]
  /\ from \in [Actor -> Actor]
  /\ messages \in [Actor -> Seq(Message)]
  /\ serving \in [Actor -> Actor]
  /\ reserved \in 0 .. PROCESS_COUNT - 1
  /\ current \in Actor
  /\ mode \in {"user", "scan", "shutdown"} \cup Panics
  /\ scan_offset \in 0 .. PROCESS_COUNT
  /\ certs \in [RawCapability -> Certificate]
  /\ allocated \in [Actor -> 0 .. CAPABILITIES_PER_PAGE]
  /\ handlers \in [0 .. CAPABILITIES_PER_PAGE - 1 -> HandlerKind \cup {"none"}]

\* The requests a live server has taken or still has queued come from
\* processes that exist and wait for this very server.
RequestsAwaited ==
  \A a \in ProcessId : ~Dead(a) =>
    /\ serving[a] # 0 => WaitingOn(serving[a], a)
    /\ \A i \in DOMAIN messages[a] : WaitingOn(messages[a][i].sender, a)

\* A caller has at most one request at a server: it is not queued twice, and
\* not queued while it is being served.
RequestsUnique ==
  \A a \in ProcessId : ~Dead(a) =>
    \A i \in DOMAIN messages[a] :
      /\ messages[a][i].sender # serving[a]
      /\ \A j \in DOMAIN messages[a] :
           messages[a][i].sender = messages[a][j].sender => i = j

\* A process waiting for a live server is served by it or in its queue.
RequestsKept ==
  \A a, c \in ProcessId : ~Dead(a) /\ WaitingOn(c, a) =>
    \/ serving[a] = c
    \/ \E i \in DOMAIN messages[a] : messages[a][i].sender = c

\* The three together: a process that waits for a live server has exactly one
\* request there, and every request there is the one its sender waits for.
ExactlyOneRequest == RequestsAwaited /\ RequestsUnique /\ RequestsKept

\* The lookups of the kernel succeed: the running process is in its slot and
\* Runnable (user.process()), and ipc_reply finds its caller, waiting for it:
\* neither the unwrap(), nor unimplemented!(), nor "replied to process waiting
\* for someone else" is ever reached.
ReplyFindsCaller ==
  /\ mode = "user" => /\ state[current] = "Runnable"
                      /\ serving[current] # 0 => WaitingOn(serving[current], current)
  /\ mode \notin {"reply to nonexistent process", "reply to process that does not wait"}

\* The calls the process table stands for.
CallOf(p) ==
  IF Waiting(p)
  THEN [server |-> from[p],
        phase |-> IF Dead(from[p]) THEN "lost"
                  ELSE IF serving[from[p]] = p THEN "accepted" ELSE "sent"]
  ELSE IF state[p] \in {"ReadyReply", "ReadyStreamMap"}
  THEN [server |-> from[p], phase |-> "answered"]
  ELSE [server |-> 0, phase |-> "none"]

\* The IPC system calls and the scheduler implement remote procedure calls.
Calls == INSTANCE Rpc WITH
           Process <- ProcessId, Boot <- {1, 2}, started <- 1 .. reserved,
           alive <- {p \in ProcessId : ~Dead(p)}, call <- [p \in ProcessId |-> CallOf(p)]
ImplementsRpc == Calls!Spec

\* What the receiving ends index and parse by.  A request a live server has
\* queued names a capability the server itself granted, never one it passed on:
\* Dispatch::run_call has a handler in that slot only.  And a process that waits
\* for a stream has a stream's number in its request: the answer to any other
\* would be parsed as a capability by ipc_reply, whose unwrap() stops the kernel.
RequestsDispatchable ==
  \A a \in ProcessId : ~Dead(a) =>
    \A i \in DOMAIN messages[a] :
      LET m == messages[a][i]
      IN  /\ m.cap.certifier = a
          /\ m.cap \in Issued
          /\ certs[m.cap].inner = NoCapability
          /\ state[m.sender] = "WaitingForStreamMap" => m.method = "stream"

\* Forwarding never makes a cycle, so validate() always comes to an end.
ValidationEnds ==
  \A cap \in Issued, p \in ProcessId : validate(certs, cap, p) # Endless

\* Pids are handed out once: certificates addressed to a dead process stay
\* behind in other pages and never come to life for a later one.
PidsNeverReused ==
  [][\A p \in ProcessId : state[p] = "None" /\ state'[p] # "None" => p > reserved]_vars

\* Only spawning re-addresses certificates: by any other step, no process
\* loses a capability it can use, nor does it come to mean something else.
AuthorityPersists ==
  [][certs' # certs /\ reserved' = reserved =>
       \A cap \in Issued, p \in ProcessId :
         validate(certs, cap, p) \in RawCapability =>
           validate(certs', cap, p) = validate(certs, cap, p)]_vars

\* No process comes to use an existing capability through what it does itself.
NoSelfAuthority ==
  [][\A cap \in Issued :
       certs' # certs /\ validate(certs, cap, current) = NoCapability =>
         validate(certs', cap, current) = NoCapability]_vars

\* The comment in ipc_call (syscall.rs:52): capability validation catches a
\* request to a nonexistent process.
ValidationFindsServer ==
  mode = "user" => \A cap \in Issued :
    LET target == validate(certs, cap, current)
    IN  target \in UserCapability => state[target.certifier] # "None"

\* Round robin: whoever can run gets the hart.
ReadyProcessesRun ==
  \A p \in ProcessId : Ready(p) ~> ((mode = "user" /\ current = p) \/ Dead(p) \/ Halted)

\* A caller in a set of processes that all wait for each other.
InWaitCycle(c) ==
  \E S \in SUBSET ProcessId : c \in S /\ \A p \in S : Waiting(p) /\ from[p] \in S

\* With servers that serve, a call ends, unless it leads into a cycle of calls:
\* it is answered, or its server dies, at whatever point of the call, and the
\* scheduler stops the caller, whether the slot is Finished or already empty.
CallsEnd ==
  \A c \in ProcessId : Waiting(c) ~> (~Waiting(c) \/ InWaitCycle(c) \/ Halted)

=============================================================================
