------------------------------ MODULE Network ------------------------------
(***************************************************************************)
(* The network card (kernel/src/virtio/net.rs): its two packet queues and  *)
(* the only call it serves, dns(), which polls the network stack inside    *)
(* the system call until the answer has come.                              *)
(*                                                                         *)
(* All buffers of a queue are in its descriptors from the start, buffer i  *)
(* in slot i of the available ring, and only the indices move.  The card   *)
(* fills and sends buffers in the order they are made available.  A packet *)
(* is its kind and a serial number; the stack is taken by what it does     *)
(* with each kind: it asks for the router's address, then for the name,    *)
(* and answers pings.  Its clock stands still, so it never asks again.     *)
(*                                                                         *)
(* The names VirtioInput has as well are other ones here (NetInit, ...):   *)
(* the proofs are about both.                                              *)
(***************************************************************************)
EXTENDS Naturals, FiniteSets

CONSTANTS
  PACKETS,       \* buffers in a queue
  INDEX_END,     \* number of values of a ring index, 2^16 in the code
  None           \* nothing

ASSUME NetworkAssumption ==
  /\ PACKETS \in Nat \ {0} /\ INDEX_END \in Nat /\ PACKETS < INDEX_END

Slot == 0 .. PACKETS - 1
Incoming == {"arp_reply", "answer", "no_such_name", "ping"}
Outgoing == {"arp_request", "query", "pong"}

VARIABLES
  rx_available, rx_used,  \* indices of the queue that receives
  used_ring,              \* of each slot of its used ring, the buffer's number
  rx_buffers,             \* of each buffer, the packet in it
  tx_available, tx_used,  \* indices of the queue that transmits
  tx_buffers,             \* of each buffer, the packet in it
  stack,                  \* where the running dns() call stands, None without one
  last_received,          \* serial number of the last packet the stack was given
  wire,                   \* packets on their way, in either direction
  lost,                   \* whether a packet of this call was lost
  panicked                \* "no" or why the kernel panicked

rx == <<rx_available, rx_used, used_ring, rx_buffers>>
tx == <<tx_available, tx_used, tx_buffers>>
net_vars == <<rx, tx, stack, last_received, wire, lost, panicked>>

Packet(kind, serial) == [kind |-> kind, serial |-> serial]

NetInit ==
  /\ rx_available = PACKETS /\ rx_used = 0
  /\ used_ring = [s \in Slot |-> 0]
  /\ rx_buffers = [s \in Slot |-> None]
  /\ tx_available = 0 /\ tx_used = 0
  /\ tx_buffers = [s \in Slot |-> None]
  /\ stack = None /\ last_received = None
  /\ wire = {} /\ lost = FALSE
  /\ panicked = "no"

-----------------------------------------------------------------------------
(* The driver, called by the stack's poll.  Additions are checked.         *)

\* used.index + QUEUE_SIZE, computed before each comparison, overflows.
AdditionPanics(used) == used + PACKETS >= INDEX_END

MutantAlwaysEmpty(available, used) == used <= available

\* Nothing was received that the stack has not been given.
RxEmpty(available, used) == available = used + PACKETS

MutantOneMore(available, used) == available = used + PACKETS + 1

\* Every buffer holds a packet the card has not sent.
TxFull(available, used) == available = used + PACKETS

\* The token's consume(): the packet goes into the slot's buffer.
TransmitPacket(kind) ==
  /\ tx_buffers' = [tx_buffers EXCEPT ![tx_available % PACKETS] = Packet(kind, tx_available)]
  /\ tx_available' = tx_available + 1
  /\ UNCHANGED tx_used

MutantNewestPacket == rx_buffers[used_ring[rx_used % PACKETS]]

\* The packet the receive token reads.
ReceivedPacket == rx_buffers[used_ring[rx_available % PACKETS]]

\* What the stack makes of a packet, and what dns() does then: it returns
\* the answer, and panics on any error.
Processed(kind) ==
  CASE stack = "arp_sent" /\ kind = "arp_reply" -> "resolved"
    [] stack = "query_sent" /\ kind = "answer" -> None
    [] OTHER -> stack

dns ==
  /\ panicked = "no" /\ stack = None
  /\ stack' = "start"
  /\ lost' = FALSE
  /\ UNCHANGED <<rx, tx, last_received, wire, panicked>>

Panic(why) == panicked' = why /\ UNCHANGED <<rx, tx, stack, last_received, wire, lost>>

\* Device::receive() and the consume() of the token it gives.
receive ==
  /\ panicked = "no" /\ stack # None
  /\ IF AdditionPanics(rx_used) \/ (~RxEmpty(rx_available, rx_used) /\ AdditionPanics(tx_used))
       THEN Panic("index")
       ELSE /\ ~RxEmpty(rx_available, rx_used)
            /\ ~TxFull(tx_available, tx_used)
            /\ LET kind == ReceivedPacket.kind
               IN  /\ stack' = Processed(kind)
                   /\ last_received' = ReceivedPacket.serial
                   /\ IF kind = "ping" THEN TransmitPacket("pong") ELSE UNCHANGED tx
                   /\ panicked' = IF stack = "query_sent" /\ kind = "no_such_name" THEN "dns" ELSE "no"
            /\ rx_available' = rx_available + 1
            /\ UNCHANGED <<rx_used, used_ring, rx_buffers, wire, lost>>

\* Device::transmit() and consume(), when the stack has something to send.
transmit ==
  /\ panicked = "no" /\ stack \in {"start", "resolved"}
  /\ IF AdditionPanics(tx_used)
       THEN Panic("index")
       ELSE /\ ~TxFull(tx_available, tx_used)
            /\ TransmitPacket(IF stack = "start" THEN "arp_request" ELSE "query")
            /\ stack' = IF stack = "start" THEN "arp_sent" ELSE "query_sent"
            /\ UNCHANGED <<rx, last_received, wire, lost, panicked>>

-----------------------------------------------------------------------------
(* The card and the network. *)

\* The card sends the next packet; nobody answers a pong.
CardSends ==
  /\ tx_used # tx_available
  /\ LET kind == tx_buffers[tx_used % PACKETS].kind
     IN  wire' = IF kind = "pong" THEN wire ELSE wire \cup {kind}
  /\ tx_used' = tx_used + 1
  /\ UNCHANGED <<rx, tx_available, tx_buffers, stack, last_received, lost, panicked>>

\* A packet arrives: the card fills the next buffer, or has none and drops it.
Arrives(kind) ==
  IF rx_used # rx_available
    THEN /\ rx_buffers' = [rx_buffers EXCEPT ![rx_used % PACKETS] = Packet(kind, rx_used)]
         /\ used_ring' = [used_ring EXCEPT ![rx_used % PACKETS] = rx_used % PACKETS]
         /\ rx_used' = rx_used + 1
         /\ UNCHANGED <<rx_available, lost>>
    ELSE lost' = TRUE /\ UNCHANGED rx

CardReceives(kind) ==
  /\ kind \in wire /\ wire' = wire \ {kind}
  /\ Arrives(kind)
  /\ UNCHANGED <<tx, stack, last_received, panicked>>

Ping ==
  /\ rx_used # rx_available
  /\ Arrives("ping")
  /\ UNCHANGED <<tx, stack, last_received, wire, panicked>>

\* The router and the name server answer.
Answer(request, answer) ==
  /\ request \in wire
  /\ wire' = (wire \ {request}) \cup {answer}
  /\ UNCHANGED <<rx, tx, stack, last_received, lost, panicked>>

Lose(kind) ==
  /\ kind \in wire /\ wire' = wire \ {kind}
  /\ lost' = TRUE
  /\ UNCHANGED <<rx, tx, stack, last_received, panicked>>

Replies ==
  \/ Answer("arp_request", "arp_reply")
  \/ Answer("query", "answer") \/ Answer("query", "no_such_name")

NetNext ==
  \/ dns \/ receive \/ transmit
  \/ CardSends \/ Ping \/ Replies
  \/ \E kind \in Incoming : CardReceives(kind)
  \/ \E kind \in Incoming \cup Outgoing : Lose(kind)

\* The call goes on polling, the card works, the network answers what it
\* does not lose.
NetFairness ==
  /\ WF_net_vars(receive) /\ WF_net_vars(transmit)
  /\ WF_net_vars(CardSends) /\ WF_net_vars(Replies)
  /\ WF_net_vars(\E kind \in Incoming : CardReceives(kind))

NetSpec == NetInit /\ [][NetNext]_net_vars /\ NetFairness

-----------------------------------------------------------------------------
(* Properties. *)

\* The indices stay in range, and each queue has as many buffers as it has.
NetTypeOK ==
  /\ {rx_available, rx_used, tx_available, tx_used} \subseteq 0 .. INDEX_END - 1
  /\ used_ring \in [Slot -> Slot]
  /\ rx_buffers \in [Slot -> {None} \cup [kind : Incoming, serial : 0 .. INDEX_END - 1]]
  /\ tx_buffers \in [Slot -> {None} \cup [kind : Outgoing, serial : 0 .. INDEX_END - 1]]
  /\ stack \in {None, "start", "arp_sent", "resolved", "query_sent"}
  /\ wire \subseteq Incoming \cup Outgoing /\ lost \in BOOLEAN
  /\ panicked \in {"no", "index", "dns"}

\* The stack is given the packets in the order they came, each once, though
\* consume() looks for them at the index of the available ring, and its indices
\* end before they would wrap.
ReceivedInOrder ==
  /\ NetTypeOK
  /\ last_received # None => last_received = rx_available - PACKETS - 1
  /\ \A k \in rx_available - PACKETS .. rx_used - 1 :
       rx_buffers[used_ring[k % PACKETS]].serial = k

\* No buffer is written while the card still has to send it.
SentIntact ==
  \A k \in tx_used .. tx_available - 1 : tx_buffers[k % PACKETS].serial = k

\* dns() returns, if no packet of the call is lost: nothing is sent twice.
DnsReturns == stack # None ~> stack = None \/ lost \/ panicked # "no"

=============================================================================
