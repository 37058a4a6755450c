--------------------------------- MODULE Rpc --------------------------------
(***************************************************************************)
(* What the kernel promises programs that call each other: a call goes to  *)
(* one server, is accepted at most once, by a server that accepts one call *)
(* at a time, and is answered by the server that accepted it; a caller     *)
(* goes on only with an answer, and a caller whose server is gone stops.   *)
(***************************************************************************)
CONSTANTS
  Process,  \* every process there may ever be
  Boot      \* those there are at first

VARIABLES
  started,  \* processes that were started
  alive,    \* those that have not stopped
  call      \* the call each process has made and not returned from

Phase == {"none", "sent", "accepted", "answered", "lost"}
Idle == [server |-> 0, phase |-> "none"]
Call(server, phase) == [server |-> server, phase |-> phase]

\* A process executes when it is alive and its own call is over.
Executes(p) == p \in alive /\ call[p] = Idle

Init ==
  /\ started = Boot
  /\ alive = Boot
  /\ call = [p \in Process |-> Idle]

\* A process is started at most once.
Start(p) ==
  /\ p \in Process \ started
  /\ started' = started \cup {p}
  /\ alive' = alive \cup {p}
  /\ UNCHANGED call

Send(c, s) ==
  /\ Executes(c) /\ s \in started \ {c}
  /\ call' = [call EXCEPT ![c] = Call(s, IF s \in alive THEN "sent" ELSE "lost")]
  /\ UNCHANGED <<started, alive>>

Accept(c) ==
  /\ call[c].phase = "sent" /\ Executes(call[c].server)
  /\ \A other \in Process : call[other] # Call(call[c].server, "accepted")
  /\ call' = [call EXCEPT ![c] = Call(@.server, "accepted")]
  /\ UNCHANGED <<started, alive>>

Answer(c) ==
  /\ call[c].phase = "accepted" /\ Executes(call[c].server)
  /\ call' = [call EXCEPT ![c] = Call(@.server, "answered")]
  /\ UNCHANGED <<started, alive>>

Return(c) ==
  /\ c \in alive /\ call[c].phase = "answered"
  /\ call' = [call EXCEPT ![c] = Idle]
  /\ UNCHANGED <<started, alive>>

\* A process stops by what it does itself, because its answer cannot be
\* delivered, or because its server is gone; never while its server lives and
\* has yet to answer.
Stop(p) ==
  /\ p \in alive /\ call[p].phase \in {"none", "answered", "lost"}
  /\ alive' = alive \ {p}
  /\ call' = [c \in Process |->
                IF c = p THEN Idle
                ELSE IF call[c] \in {Call(p, "sent"), Call(p, "accepted")} THEN Call(p, "lost")
                ELSE call[c]]
  /\ UNCHANGED started

Next ==
  \/ \E p \in Process : Start(p) \/ Stop(p)
  \/ \E c, s \in Process : Send(c, s)
  \/ \E c \in Process : Accept(c) \/ Answer(c) \/ Return(c)

Spec == Init /\ [][Next]_<<started, alive, call>>

=============================================================================
