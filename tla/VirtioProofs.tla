------------------------- MODULE VirtioProofs -------------------------------
(***************************************************************************)
(* Proofs about the virtio queues that are served as their events come.    *)
(*                                                                         *)
(* The input device, its interrupt handler and the ring they feed, for     *)
(* every number of buffers, length of the ring and index width: their      *)
(* properties hold because three indices never lead one another by more    *)
(* than a ring.  The device uses no buffer the handler has not given back, *)
(* the handler pushes no more than the device has used, and push() writes  *)
(* no cell the reader has yet to read, or is reading.                      *)
(*                                                                         *)
(* The network card and its poll loop, after them.                         *)
(***************************************************************************)
EXTENDS VirtioInput, Network, CommonTheorems

Element == Value \cup {Default}

\* The reader's copy of the counter is current, and so is the element it
\* copied, until it hands the cell back.
RingInv ==
  /\ RingTypeOK
  /\ read <= written /\ written <= read + RING_LENGTH
  /\ poll.pc # "start" => poll.read = read /\ read < written
  /\ poll.pc = "advance" => poll.element = data[read % RING_LENGTH]

DeviceType ==
  /\ buffers \in [0 .. QUEUE_SIZE - 1 -> Element]
  /\ available_index \in Index
  /\ used_index \in Index
  /\ device \in {"idle", "filled", "used"}
  /\ handler \in [pc : {"user", "clear", "load", "loop", "panicked"},
                  used_index : Index, used_end : Index]

DeviceInv ==
  /\ DeviceType
  /\ QUEUE_SIZE <= available_index /\ used_index <= available_index
  /\ available_index - QUEUE_SIZE <= FirstUnseen /\ FirstUnseen <= used_index
  /\ device = "filled" => /\ used_index < available_index
                          /\ buffers[used_index % QUEUE_SIZE] \in Value
  /\ handler.pc = "loop" => handler.used_index <= handler.used_end /\ handler.used_end <= used_index

\* What the device used since the handler looked is announced.
SignalInv ==
  /\ isr \in BOOLEAN
  /\ handler.pc = "user" /\ used_index # available_index - QUEUE_SIZE => isr \/ device = "used"
  /\ handler.pc = "loop" /\ used_index # handler.used_end => isr \/ device = "used"

InputInv == RingInv /\ DeviceInv /\ SignalInv

\* A step of Fifo under the refinement mapping.
FifoStep == [Stream!Next]_<<Contents \o Unseen, received>>

\* An element after the last one of a window is one more element of it.
Follows(next, end) == next = end + 1
Grows(ring, q, first, end, next) ==
  Window(ring, first, next, q) = Append(Window(ring, first, end, q), ring[end % q])

LEMMA WindowGrows ==
  ASSUME NEW q \in Nat \ {0}, NEW S, NEW ring, IsRing(ring, q, S),
         NEW first \in Nat, NEW end \in Nat, first <= end, NEW next, Follows(next, end)
  PROVE  Grows(ring, q, first, end, next)
  BY WindowAppend DEF Follows, Grows

LEMMA InputInit == Init => InputInv
<1> SUFFICES ASSUME Init PROVE InputInv
  OBVIOUS
<1>1. RingInv
  BY RingAssumption DEF Init, RingInit, RingInv, RingTypeOK
<1>2. DeviceInv
  BY QueueAssumption DEF Init, DeviceInv, DeviceType, Element, Index, FirstUnseen
<1>3. isr \in BOOLEAN
  BY Zenon DEF Init
<1>4. SignalInv
  BY <1>3, QueueAssumption DEF Init, SignalInv
<1> QED BY <1>1, <1>2, <1>4 DEF InputInv

-----------------------------------------------------------------------------
(* The queue the ring and the device's buffers make together.              *)

LEMMA ContentsType ==
  ASSUME RingInv
  PROVE  /\ Contents = Window(data, read, written, RING_LENGTH)
         /\ Contents \in Seq(Element) /\ IsRing(data, RING_LENGTH, Element)
         /\ read \in Nat /\ written \in Nat
<1>1. Contents = Window(data, read, written, RING_LENGTH)
  BY DEF Contents, Window
<1>2. IsRing(data, RING_LENGTH, Element) /\ read \in Nat /\ written \in Nat /\ read <= written
  BY DEF RingInv, RingTypeOK, IsRing, Element
<1>3. Window(data, read, written, RING_LENGTH) \in Seq(Element)
  BY <1>2, RingAssumption, WindowType, ZenonT(30)
<1> QED BY <1>1, <1>2, <1>3

LEMMA UnseenType ==
  ASSUME DeviceInv
  PROVE  /\ Unseen = Window(buffers, FirstUnseen, used_index, QUEUE_SIZE)
         /\ Unseen \in Seq(Element) /\ IsRing(buffers, QUEUE_SIZE, Element)
         /\ FirstUnseen \in Nat /\ used_index \in Nat /\ available_index \in Nat
<1>1. Unseen = Window(buffers, FirstUnseen, used_index, QUEUE_SIZE)
  BY DEF Unseen, Window
<1>2. /\ IsRing(buffers, QUEUE_SIZE, Element) /\ used_index \in Nat /\ available_index \in Nat
      /\ FirstUnseen \in Nat /\ FirstUnseen <= used_index
  BY QueueAssumption DEF DeviceInv, DeviceType, IsRing, Index, FirstUnseen
<1>3. QUEUE_SIZE \in Nat \ {0}
  BY QueueAssumption
<1>4. Window(buffers, FirstUnseen, used_index, QUEUE_SIZE) \in Seq(Element)
  BY <1>2, <1>3, WindowType, ZenonT(30)
<1> QED BY <1>1, <1>2, <1>4

LEMMA SameQueue ==
  ASSUME Contents' = Contents, Unseen' = Unseen, received' = received
  PROVE  FifoStep
  BY DEF FifoStep

LEMMA SameContents == UNCHANGED ringVars => Contents' = Contents /\ received' = received
  BY DEF ringVars, Contents

LEMMA RingSame == ASSUME RingInv, UNCHANGED ringVars PROVE RingInv'
  BY DEF RingInv, RingTypeOK, ringVars

-----------------------------------------------------------------------------
(* The device.                                                             *)

\* The buffer it fills is not among those the handler has yet to push.
LEMMA FillStep ==
  ASSUME InputInv, NEW event \in Value, device_fill(event)
  PROVE  InputInv' /\ FifoStep
<1> USE QueueAssumption
<1>0. PICK s : s = used_index % QUEUE_SIZE
  OBVIOUS
<1>1. RingInv /\ DeviceInv /\ SignalInv
  BY DEF InputInv
<1>2. FirstUnseen \in Nat /\ used_index \in Nat /\ available_index \in Nat /\ used_index < available_index
  BY <1>1, UnseenType DEF device_fill, DeviceInv
<1>3. s \in 0 .. QUEUE_SIZE - 1
  BY <1>0, <1>2, DivMod
<1>4. /\ buffers' = [buffers EXCEPT ![s] = event] /\ device' = "filled" /\ device = "idle"
      /\ UNCHANGED <<ringVars, used_index, isr, available_index, handler>>
  BY <1>0 DEF device_fill
<1>5. FirstUnseen' = FirstUnseen
  BY <1>4 DEF FirstUnseen
<1>6. buffers'[s] = event /\ buffers' \in [0 .. QUEUE_SIZE - 1 -> Element]
  BY <1>1, <1>3, <1>4 DEF DeviceInv, DeviceType, Element
<1>7. DeviceInv'
  BY <1>0, <1>1, <1>2, <1>4, <1>5, <1>6 DEF DeviceInv, DeviceType
<1>8. SignalInv'
  BY <1>1, <1>4 DEF SignalInv
<1>9. Unseen' = Unseen
  <2>1. ASSUME NEW k \in FirstUnseen .. used_index - 1
        PROVE  buffers'[k % QUEUE_SIZE] = buffers[k % QUEUE_SIZE]
    <3>1. k \in Nat /\ k # used_index /\ k - used_index < QUEUE_SIZE /\ used_index - k < QUEUE_SIZE
      BY <1>1, <1>2 DEF DeviceInv
    <3>2. k % QUEUE_SIZE # s
      BY <1>0, <1>2, <3>1, ModInjective
    <3>3. k % QUEUE_SIZE \in 0 .. QUEUE_SIZE - 1
      BY <3>1, DivMod
    <3> QED BY <1>1, <1>4, <3>2, <3>3 DEF DeviceInv, DeviceType
  <2>2. Window(buffers', FirstUnseen, used_index, QUEUE_SIZE) = Window(buffers, FirstUnseen, used_index, QUEUE_SIZE)
    <3>1. QUEUE_SIZE \in Nat \ {0}
      OBVIOUS
    <3> QED BY <1>2, <2>1, <3>1, WindowSame, ZenonT(30)
  <2> QED BY <1>4, <1>5, <2>2 DEF Unseen, Window
<1> QED BY <1>1, <1>4, <1>7, <1>8, <1>9, RingSame, SameContents, SameQueue DEF InputInv

\* An event enters the stream when the device counts its buffer as used.
LEMMA UseStep ==
  ASSUME InputInv, device_use
  PROVE  InputInv' /\ FifoStep
<1> USE QueueAssumption
<1>1. RingInv /\ DeviceInv /\ SignalInv
  BY DEF InputInv
<1>2. /\ FirstUnseen \in Nat /\ used_index \in Nat /\ available_index \in Nat
      /\ Unseen = Window(buffers, FirstUnseen, used_index, QUEUE_SIZE)
      /\ IsRing(buffers, QUEUE_SIZE, Element) /\ Unseen \in Seq(Element)
  BY <1>1, UnseenType
<1>3. /\ used_index < available_index /\ buffers[used_index % QUEUE_SIZE] \in Value
      /\ FirstUnseen <= used_index /\ available_index < INDEX_SIZE
  BY <1>1 DEF device_use, DeviceInv, DeviceType, Index
<1>4. (used_index + 1) % INDEX_SIZE = used_index + 1
  BY <1>2, <1>3
<1>5. /\ used_index' = used_index + 1 /\ device' = "used"
      /\ UNCHANGED <<ringVars, buffers, isr, available_index, handler>>
  BY <1>4 DEF device_use
<1>6. FirstUnseen' = FirstUnseen
  BY <1>5 DEF FirstUnseen
<1>7. DeviceInv'
  BY <1>1, <1>2, <1>3, <1>5, <1>6 DEF DeviceInv, DeviceType, Index
<1>8. SignalInv'
  BY <1>1, <1>5 DEF SignalInv
<1>9. Unseen' = Append(Unseen, buffers[used_index % QUEUE_SIZE])
  <2>1. Unseen' = Window(buffers, FirstUnseen, used_index + 1, QUEUE_SIZE)
    BY <1>5, <1>6 DEF Unseen, Window
  <2> QED BY <1>2, <1>3, <2>1, WindowAppend
<1>10. Stream!Enqueue(buffers[used_index % QUEUE_SIZE])
  <2>1. Contents \in Seq(Element) /\ Contents' = Contents /\ received' = received
    BY <1>1, <1>5, ContentsType, SameContents
  <2>2. Contents \o Append(Unseen, buffers[used_index % QUEUE_SIZE]) =
          Append(Contents \o Unseen, buffers[used_index % QUEUE_SIZE])
    BY <1>2, <1>3, <2>1, AppendConcat DEF Element
  <2> QED BY <1>9, <2>1, <2>2 DEF Stream!Enqueue
<1>11. FifoStep
  BY <1>3, <1>10 DEF FifoStep, Stream!Next
<1> QED BY <1>1, <1>5, <1>7, <1>8, <1>11, RingSame DEF InputInv

LEMMA InterruptStep ==
  ASSUME InputInv, device_interrupt
  PROVE  InputInv' /\ FifoStep
<1>1. RingInv /\ DeviceInv /\ SignalInv
  BY DEF InputInv
<1>2. isr' = TRUE /\ device' = "idle" /\ UNCHANGED <<ringVars, buffers, used_index, available_index, handler>>
  BY DEF device_interrupt
<1>3. DeviceInv'
  BY <1>1, <1>2 DEF DeviceInv, DeviceType, FirstUnseen
<1>4. SignalInv'
  BY <1>2, Zenon DEF SignalInv
<1>5. Unseen' = Unseen
  BY <1>2 DEF Unseen, FirstUnseen
<1> QED BY <1>1, <1>2, <1>3, <1>4, <1>5, RingSame, SameContents, SameQueue DEF InputInv

-----------------------------------------------------------------------------
(* The handler.                                                            *)

\* Going to another place of the handler without touching memory, when the
\* handler still starts from the same event.
LEMMA MoveStep ==
  ASSUME InputInv, UNCHANGED <<ringVars, buffers, used_index, device, available_index>>,
         DeviceType', FirstUnseen' = FirstUnseen, isr' \in BOOLEAN,
         handler'.pc # "user",
         handler'.pc = "loop" => handler'.used_index <= handler'.used_end /\ handler'.used_end = used_index
  PROVE  InputInv' /\ FifoStep
<1>1. RingInv /\ DeviceInv /\ SignalInv
  BY DEF InputInv
<1>2. DeviceInv'
  BY <1>1, UnseenType DEF DeviceInv
<1>3. SignalInv'
  BY <1>1 DEF SignalInv
<1>4. Unseen' = Unseen
  BY DEF Unseen
<1> QED BY <1>1, <1>2, <1>3, <1>4, RingSame, SameContents, SameQueue DEF InputInv

LEMMA PanicStep ==
  ASSUME InputInv, handler.pc = "loop", panic
  PROVE  InputInv' /\ FifoStep
<1>1. DeviceType /\ isr \in BOOLEAN
  BY DEF InputInv, DeviceInv, SignalInv
<1>2. handler' = [handler EXCEPT !.pc = "panicked"] /\ UNCHANGED <<ringVars, deviceVars, available_index>>
  BY DEF panic
<1>3. handler'.pc = "panicked" /\ handler'.used_index = handler.used_index /\ DeviceType'
  BY <1>1, <1>2 DEF DeviceType, deviceVars
<1>4. FirstUnseen' = FirstUnseen
  BY <1>3 DEF FirstUnseen
<1> QED BY <1>1, <1>2, <1>3, <1>4, MoveStep DEF deviceVars

LEMMA TakeStep ==
  ASSUME InputInv, take_interrupt
  PROVE  InputInv' /\ FifoStep
<1>1. DeviceType /\ isr \in BOOLEAN
  BY DEF InputInv, DeviceInv, SignalInv
<1>2. handler' = [handler EXCEPT !.pc = "clear"] /\ UNCHANGED <<ringVars, deviceVars, available_index>>
  BY DEF take_interrupt
<1>3. handler'.pc = "clear" /\ DeviceType'
  BY <1>1, <1>2 DEF DeviceType, deviceVars
<1>4. FirstUnseen' = FirstUnseen
  BY <1>2, <1>3 DEF FirstUnseen, take_interrupt
<1> QED BY <1>1, <1>2, <1>3, <1>4, MoveStep DEF deviceVars

\* The checked subtraction never fails: the index starts at QUEUE_SIZE.
LEMMA ClearStep ==
  ASSUME InputInv, handle_clear
  PROVE  InputInv' /\ FifoStep
<1>1. DeviceType /\ QUEUE_SIZE <= available_index /\ available_index \in Index
  BY DEF InputInv, DeviceInv, DeviceType
<1>2. ~(available_index < QUEUE_SIZE) /\ available_index - QUEUE_SIZE \in Index
  BY <1>1, QueueAssumption DEF Index
<1>3. /\ isr' = FALSE
      /\ handler' = [handler EXCEPT !.pc = "load", !.used_index = available_index - QUEUE_SIZE]
      /\ UNCHANGED <<ringVars, buffers, used_index, device, available_index>>
  BY <1>2 DEF handle_clear
<1>4. handler'.pc = "load" /\ handler'.used_index = available_index - QUEUE_SIZE /\ DeviceType'
  BY <1>1, <1>2, <1>3 DEF DeviceType
<1>5. FirstUnseen' = FirstUnseen
  BY <1>4 DEF FirstUnseen, handle_clear
<1>6. isr' \in BOOLEAN
  BY <1>3, Zenon
<1> QED BY <1>3, <1>4, <1>5, <1>6, MoveStep

\* From here on, what the device uses is announced by a new interrupt.
LEMMA LoadStep ==
  ASSUME InputInv, handle_load
  PROVE  InputInv' /\ FifoStep
<1>1. DeviceType /\ isr \in BOOLEAN /\ used_index \in Index
  BY DEF InputInv, DeviceInv, DeviceType, SignalInv
<1>2. /\ handler' = [handler EXCEPT !.pc = "loop", !.used_end = used_index]
      /\ UNCHANGED <<ringVars, deviceVars, available_index>>
  BY DEF handle_load
<1>3. /\ handler'.pc = "loop" /\ handler'.used_index = handler.used_index
      /\ handler'.used_end = used_index /\ DeviceType'
  BY <1>1, <1>2 DEF DeviceType, deviceVars
<1>4. FirstUnseen = handler.used_index /\ FirstUnseen' = FirstUnseen
  BY <1>3 DEF FirstUnseen, handle_load
<1>5. handler'.used_index <= handler'.used_end
  BY <1>3, <1>4 DEF InputInv, DeviceInv
<1> QED BY <1>1, <1>2, <1>3, <1>4, <1>5, MoveStep DEF deviceVars

\* The event moves from the device's buffers to the end of the ring, into a
\* cell that holds no event, and not the one the reader is reading.
LEMMA PushStep ==
  ASSUME InputInv, handle_push
  PROVE  InputInv' /\ FifoStep
<1>0. RingInv /\ DeviceInv /\ SignalInv
  BY DEF InputInv
<1>1. CASE panic
  BY <1>1, PanicStep DEF handle_push
<1>2. CASE ~panic
  <2> USE QueueAssumption, RingAssumption
  <2>0. PICK v, s, h : /\ h = handler.used_index /\ v = buffers[h % QUEUE_SIZE]
                       /\ s = written % RING_LENGTH
    OBVIOUS
  <2>1. /\ handler.pc = "loop" /\ h < handler.used_end /\ has_room
        /\ data' = [data EXCEPT ![s] = v] /\ written' = written + 1
        /\ handler' = [handler EXCEPT !.used_index = h + 1]
        /\ UNCHANGED <<read, poll, received, deviceVars, available_index>>
    BY <1>2, <2>0 DEF handle_push, push
  <2>2. /\ FirstUnseen = h /\ h \in Nat /\ used_index \in Nat /\ available_index \in Nat
        /\ h < used_index /\ handler.used_end \in Nat /\ handler.used_end <= used_index
    <3>1. FirstUnseen = h
      BY <2>0, <2>1 DEF FirstUnseen
    <3>2. h \in Nat /\ used_index \in Nat /\ available_index \in Nat /\ handler.used_end \in Nat
      BY <1>0, <2>0 DEF DeviceInv, DeviceType, Index
    <3>3. handler.used_end <= used_index
      BY <1>0, <2>1 DEF DeviceInv
    <3> QED BY <2>1, <3>1, <3>2, <3>3
  <2>3. v \in Element
    <3>1. h % QUEUE_SIZE \in 0 .. QUEUE_SIZE - 1
      BY <2>2, DivMod
    <3> QED BY <1>0, <2>0, <3>1 DEF DeviceInv, DeviceType
  <2>4. /\ read \in Nat /\ written \in Nat /\ written < read + RING_LENGTH /\ read <= written
        /\ s \in 0 .. RING_LENGTH - 1
    <3>1. read \in Nat /\ written \in Nat /\ written < read + RING_LENGTH /\ read <= written
      BY <1>0, <2>1 DEF RingInv, RingTypeOK, has_room
    <3> QED BY <2>0, <3>1, DivMod
  <2>5. /\ data' \in [0 .. RING_LENGTH - 1 -> Element] /\ data'[s] = v
        /\ \A k \in 0 .. RING_LENGTH - 1 : k # s => data'[k] = data[k]
    BY <1>0, <2>1, <2>3, <2>4 DEF RingInv, RingTypeOK, Element
  <2>6. ASSUME NEW k \in read .. written - 1
        PROVE  data'[k % RING_LENGTH] = data[k % RING_LENGTH]
    <3>1. k \in Nat /\ k # written /\ k - written < RING_LENGTH /\ written - k < RING_LENGTH
      BY <2>4
    <3>2. k % RING_LENGTH # s
      BY <2>0, <2>4, <3>1, ModInjective
    <3>3. k % RING_LENGTH \in 0 .. RING_LENGTH - 1
      BY <3>1, DivMod
    <3> QED BY <2>5, <3>2, <3>3
  <2>7. RingInv'
    <3>1. poll'.pc = "advance" => poll'.element = data'[read' % RING_LENGTH]
      BY <1>0, <2>1, <2>4, <2>6 DEF RingInv
    <3>2. RingTypeOK'
      BY <1>0, <2>1, <2>4, <2>5 DEF RingInv, RingTypeOK, Element
    <3> QED BY <1>0, <2>1, <2>4, <3>1, <3>2 DEF RingInv
  <2>8. /\ handler'.pc = "loop" /\ handler'.used_index = h + 1 /\ handler'.used_end = handler.used_end
        /\ DeviceType'
    <3>1. h + 1 \in Index
      BY <1>0, <2>1, <2>2 DEF DeviceInv, DeviceType, Index
    <3> QED BY <1>0, <2>1, <3>1 DEF DeviceInv, DeviceType, deviceVars
  <2>9. FirstUnseen' = h + 1
    BY <2>8 DEF FirstUnseen
  <2>10. DeviceInv'
    BY <1>0, <2>1, <2>2, <2>8, <2>9 DEF DeviceInv, deviceVars
  <2>11. SignalInv'
    BY <1>0, <2>1, <2>8 DEF SignalInv, deviceVars
  <2>12. Contents' = Append(Contents, v)
    <3>1. Window(data', read, written, RING_LENGTH) = Window(data, read, written, RING_LENGTH)
      <4>1. RING_LENGTH \in Nat \ {0} /\ read \in Nat /\ written \in Nat
        BY <2>4
      <4> QED BY <2>6, <4>1, WindowSame, ZenonT(30)
    <3>2. IsRing(data', RING_LENGTH, Element)
      BY <2>5 DEF IsRing
    <3>3. Window(data', read, written + 1, RING_LENGTH) =
            Append(Window(data', read, written, RING_LENGTH), data'[written % RING_LENGTH])
      <4>1. RING_LENGTH \in Nat \ {0} /\ read \in Nat /\ written \in Nat /\ read <= written
        BY <2>4
      <4>2. PICK ring : ring = data'
        OBVIOUS
      <4>3. IsRing(ring, RING_LENGTH, Element)
        BY <3>2, <4>2
      <4>4. Window(ring, read, written + 1, RING_LENGTH) =
              Append(Window(ring, read, written, RING_LENGTH), ring[written % RING_LENGTH])
        <5>1. PICK next : next = written + 1
          OBVIOUS
        <5>2. Follows(next, written)
          BY <5>1 DEF Follows
        <5>3. Grows(ring, RING_LENGTH, read, written, next)
          BY <4>1, <4>3, <5>2, WindowGrows
        <5> QED BY <5>1, <5>3 DEF Grows
      <4> QED BY <4>2, <4>4
    <3>4. Contents = Window(data, read, written, RING_LENGTH)
      BY DEF Contents, Window
    <3>5. Contents' = Window(data', read, written + 1, RING_LENGTH)
      BY <2>1 DEF Contents, Window
    <3> QED BY <2>0, <2>5, <3>1, <3>3, <3>4, <3>5
  <2>13. Unseen # <<>> /\ Head(Unseen) = v /\ Unseen' = Tail(Unseen)
    <3>1. Unseen = Window(buffers, h, used_index, QUEUE_SIZE) /\ IsRing(buffers, QUEUE_SIZE, Element)
      BY <1>0, <2>2, UnseenType
    <3>2. Unseen' = Window(buffers, h + 1, used_index, QUEUE_SIZE)
      BY <2>1, <2>9 DEF Unseen, Window, deviceVars
    <3>3. /\ QUEUE_SIZE \in Nat \ {0} /\ h \in Nat /\ used_index \in Nat /\ h < used_index
          /\ IsRing(buffers, QUEUE_SIZE, Element)
      BY <2>2, <3>1
    <3>4. /\ Window(buffers, h, used_index, QUEUE_SIZE) # <<>>
          /\ Head(Window(buffers, h, used_index, QUEUE_SIZE)) = buffers[h % QUEUE_SIZE]
          /\ Tail(Window(buffers, h, used_index, QUEUE_SIZE)) = Window(buffers, h + 1, used_index, QUEUE_SIZE)
      <4> HIDE QueueAssumption, RingAssumption
      <4> QED BY <3>3, WindowTail, ZenonT(30)
    <3> QED BY <2>0, <3>1, <3>2, <3>4
  <2>14. (Contents \o Unseen)' = Contents \o Unseen
    <3>1. Contents \in Seq(Element) /\ Unseen \in Seq(Element)
      BY <1>0, ContentsType, UnseenType
    <3> QED BY <2>12, <2>13, <3>1, MoveConcat
  <2>15. FifoStep
    BY <2>1, <2>14 DEF FifoStep
  <2> QED BY <2>7, <2>10, <2>11, <2>15 DEF InputInv
<1> QED BY <1>1, <1>2

\* The handler returns where the device announces what it did not see.
LEMMA PublishStep ==
  ASSUME InputInv, handle_publish
  PROVE  InputInv' /\ FifoStep
<1> USE QueueAssumption
<1>0. RingInv /\ DeviceInv /\ SignalInv
  BY DEF InputInv
<1>1. CASE panic
  BY <1>1, PanicStep DEF handle_publish
<1>2. CASE ~panic
  <2>1. /\ handler.pc = "loop" /\ handler.used_index >= handler.used_end
        /\ handler.used_end + QUEUE_SIZE < INDEX_SIZE
        /\ available_index' = handler.used_end + QUEUE_SIZE
        /\ handler' = [handler EXCEPT !.pc = "user"] /\ isr' = isr
        /\ UNCHANGED <<ringVars, buffers, used_index, device>>
    BY <1>2 DEF handle_publish, fits_u16, isr_at_return
  <2>2. /\ handler.used_index \in Nat /\ handler.used_end \in Nat /\ used_index \in Nat
        /\ available_index \in Nat
    BY <1>0 DEF DeviceInv, DeviceType, Index
  <2>3. FirstUnseen = handler.used_index /\ handler.used_index = handler.used_end
    BY <1>0, <2>1, <2>2 DEF DeviceInv, FirstUnseen
  <2>4. handler'.pc = "user" /\ DeviceType'
    BY <1>0, <2>1, <2>2 DEF DeviceInv, DeviceType, Index
  <2>5. FirstUnseen' = handler.used_end
    BY <2>1, <2>2, <2>4 DEF FirstUnseen
  <2>6. DeviceInv'
    BY <1>0, <2>1, <2>2, <2>3, <2>4, <2>5 DEF DeviceInv
  <2>7. SignalInv'
    <3>1. available_index' - QUEUE_SIZE = handler.used_end
      BY <2>1, <2>2
    <3> QED BY <1>0, <2>1, <2>4, <3>1 DEF SignalInv
  <2>8. Unseen' = Unseen
    BY <2>1, <2>3, <2>5 DEF Unseen
  <2> QED BY <1>0, <2>1, <2>6, <2>7, <2>8, RingSame, SameContents, SameQueue DEF InputInv
<1> QED BY <1>1, <1>2

-----------------------------------------------------------------------------
(* The reader.                                                             *)

LEMMA DeviceSame ==
  ASSUME InputInv, UNCHANGED <<deviceVars, available_index, handler>>
  PROVE  DeviceInv' /\ SignalInv' /\ Unseen' = Unseen
<1>1. DeviceInv'
  BY DEF InputInv, DeviceInv, DeviceType, FirstUnseen, deviceVars
<1>2. SignalInv'
  BY DEF InputInv, SignalInv, deviceVars
<1>3. Unseen' = Unseen
  BY DEF Unseen, FirstUnseen, deviceVars
<1> QED BY <1>1, <1>2, <1>3

\* What poll() returns is the oldest event.
LEMMA ObserveStep ==
  ASSUME InputInv, observe
  PROVE  InputInv' /\ FifoStep
<1> USE RingAssumption
<1>0. RingInv /\ DeviceInv /\ SignalInv
  BY DEF InputInv
<1>1. DeviceInv' /\ SignalInv' /\ Unseen' = Unseen
  BY DeviceSame DEF observe
<1>2. CASE poll_load
  <2>1. RingInv'
    <3>1. CASE poll' = poll
      BY <1>0, <1>2, <3>1 DEF poll_load, RingInv, RingTypeOK
    <3>2. CASE poll' # poll
      <4>1. /\ poll' = [poll EXCEPT !.pc = "copy", !.read = read] /\ ~(written <= read)
            /\ UNCHANGED <<read, written, data, received>>
        BY <1>2, <3>2 DEF poll_load
      <4>2. poll'.pc = "copy" /\ poll'.read = read /\ RingTypeOK'
        BY <1>0, <4>1 DEF RingInv, RingTypeOK
      <4> QED BY <1>0, <4>1, <4>2 DEF RingInv, RingTypeOK
    <3> QED BY <3>1, <3>2
  <2>2. Contents' = Contents /\ received' = received
    BY <1>2 DEF poll_load, Contents
  <2> QED BY <1>1, <2>1, <2>2, SameQueue DEF InputInv
<1>3. CASE poll_copy
  <2>1. poll.read = read /\ read < written /\ read \in Nat
    BY <1>0, <1>3 DEF poll_copy, RingInv, RingTypeOK
  <2>2. data[read % RING_LENGTH] \in Element
    <3>1. read % RING_LENGTH \in 0 .. RING_LENGTH - 1
      BY <2>1, DivMod
    <3> QED BY <1>0, <3>1 DEF RingInv, RingTypeOK, Element
  <2>3. /\ poll' = [poll EXCEPT !.pc = "advance", !.element = data[read % RING_LENGTH]]
        /\ UNCHANGED <<read, written, data, received>>
    BY <1>3, <2>1 DEF poll_copy
  <2>4. RingTypeOK'
    BY <1>0, <2>2, <2>3 DEF RingInv, RingTypeOK, Element
  <2>5. poll'.read = read /\ poll'.element = data[read % RING_LENGTH]
    BY <1>0, <2>1, <2>3 DEF RingInv, RingTypeOK
  <2>6. RingInv'
    BY <1>0, <2>1, <2>3, <2>4, <2>5 DEF RingInv
  <2>7. Contents' = Contents
    BY <2>3 DEF Contents
  <2> QED BY <1>1, <2>3, <2>6, <2>7, SameQueue DEF InputInv
<1>4. CASE poll_advance
  <2>1. /\ poll.read = read /\ read < written /\ read \in Nat /\ written \in Nat
        /\ poll.element = data[read % RING_LENGTH]
    BY <1>0, <1>4 DEF poll_advance, RingInv, RingTypeOK
  <2>2. /\ read' = read + 1 /\ received' = data[read % RING_LENGTH]
        /\ poll' = [poll EXCEPT !.pc = "start"] /\ UNCHANGED <<written, data>>
    BY <1>4, <2>1 DEF poll_advance
  <2>3. RingInv'
    <3>1. RingTypeOK'
      BY <1>0, <2>1, <2>2 DEF RingInv, RingTypeOK
    <3>2. poll'.pc = "start"
      BY <1>0, <2>2 DEF RingInv, RingTypeOK
    <3> QED BY <1>0, <2>1, <2>2, <3>1, <3>2 DEF RingInv
  <2>4. Contents # <<>> /\ Head(Contents) = data[read % RING_LENGTH] /\ Contents' = Tail(Contents)
    <3>1. Contents = Window(data, read, written, RING_LENGTH) /\ IsRing(data, RING_LENGTH, Element)
      BY <1>0, ContentsType
    <3>2. Contents' = Window(data, read + 1, written, RING_LENGTH)
      BY <2>2 DEF Contents, Window
    <3>3. /\ RING_LENGTH \in Nat \ {0} /\ read \in Nat /\ written \in Nat /\ read < written
          /\ IsRing(data, RING_LENGTH, Element)
      BY <2>1, <3>1
    <3>4. /\ Window(data, read, written, RING_LENGTH) # <<>>
          /\ Head(Window(data, read, written, RING_LENGTH)) = data[read % RING_LENGTH]
          /\ Tail(Window(data, read, written, RING_LENGTH)) = Window(data, read + 1, written, RING_LENGTH)
      BY <3>3, WindowTail, ZenonT(30)
    <3> QED BY <3>1, <3>2, <3>4
  <2>5. Stream!Dequeue
    <3>1. Contents \in Seq(Element) /\ Unseen \in Seq(Element)
      BY <1>0, ContentsType, UnseenType
    <3>2. /\ Contents \o Unseen # <<>> /\ Head(Contents \o Unseen) = Head(Contents)
          /\ Tail(Contents \o Unseen) = Tail(Contents) \o Unseen
      BY <2>4, <3>1, TailConcat
    <3> QED BY <1>1, <2>2, <2>4, <3>2 DEF Stream!Dequeue
  <2>6. FifoStep
    BY <2>5 DEF FifoStep, Stream!Next
  <2> QED BY <1>1, <2>3, <2>6 DEF InputInv
<1> QED BY <1>2, <1>3, <1>4 DEF observe, Poll

-----------------------------------------------------------------------------

LEMMA InputStep == InputInv /\ [Next]_vars => InputInv' /\ FifoStep
<1> SUFFICES ASSUME InputInv, [Next]_vars PROVE InputInv' /\ FifoStep
  OBVIOUS
<1>1. CASE Device
  BY <1>1, FillStep, UseStep, InterruptStep DEF Device
<1>2. CASE Handle
  BY <1>2, TakeStep, ClearStep, LoadStep, PushStep, PublishStep DEF Handle
<1>3. CASE observe
  BY <1>3, ObserveStep
<1>4. CASE UNCHANGED vars
  <2>1. UNCHANGED ringVars /\ UNCHANGED <<deviceVars, available_index, handler>>
    BY <1>4 DEF vars
  <2> QED BY <2>1, DeviceSame, RingSame, SameContents, SameQueue DEF InputInv
<1> QED BY <1>1, <1>2, <1>3, <1>4 DEF Next, halted

\* For every number of buffers, ring length and index width: while a program
\* runs, events the handler has not seen are announced by an interrupt that is
\* pending or about to be raised, however the device interleaves with handle().
THEOREM NoInterruptLost == Spec => []UnseenEventsSignalled
<1>1. InputInv => UnseenEventsSignalled
  <2> SUFFICES ASSUME InputInv PROVE UnseenEventsSignalled
    OBVIOUS
  <2>1. TypeOK
    BY DEF InputInv, RingInv, DeviceInv, DeviceType, SignalInv, TypeOK, Element
  <2> QED BY <2>1 DEF InputInv, SignalInv, UnseenEventsSignalled
<1> QED BY <1>1, InputInit, InputStep, PTL DEF Spec

\* From the device's buffers through the handler and the ring to the program,
\* events arrive once each, in order and untouched, whatever the sizes of the
\* two rings and wherever the program is interrupted in poll().
THEOREM EventsAreFifo == Spec => ImplementsFifo
<1>1. Init => Stream!Init
  <2> SUFFICES ASSUME Init PROVE Stream!Init
    OBVIOUS
  <2>1. Contents = <<>>
    BY DEF Init, RingInit, Contents
  <2>2. used_index = 0 /\ FirstUnseen = 0
    BY QueueAssumption DEF Init, FirstUnseen
  <2>3. Unseen = <<>>
    BY <2>2 DEF Unseen
  <2> QED BY <2>1, <2>3 DEF Init, RingInit, Stream!Init
<1> QED BY <1>1, InputInit, InputStep, PTL DEF Spec, ImplementsFifo, Stream!Spec, FifoStep

-----------------------------------------------------------------------------
(* The network card's queues, for every number of buffers and every width  *)
(* of the indices.                                                         *)
(*                                                                         *)
(* ReceivedInOrder and SentIntact are not inductive: a packet stays where  *)
(* it is only because the card is never more than a queue ahead of the     *)
(* driver, so that no two packets a queue holds share a slot.              *)

RxPacket == [kind : Incoming, serial : 0 .. INDEX_END - 1]
TxPacket == [kind : Outgoing, serial : 0 .. INDEX_END - 1]

\* What the card has filled and the stack was not given lies where consume()
\* will look for it.
RxInv ==
  /\ PACKETS <= rx_available
  /\ rx_used <= rx_available /\ rx_available <= rx_used + PACKETS
  /\ \A k \in rx_available - PACKETS .. rx_used - 1 :
       /\ used_ring[k % PACKETS] = k % PACKETS
       /\ rx_buffers[k % PACKETS] \in RxPacket
       /\ rx_buffers[k % PACKETS].serial = k

\* What the stack has queued and the card has not sent is still there.
TxInv ==
  /\ tx_used <= tx_available /\ tx_available <= tx_used + PACKETS
  /\ \A k \in tx_used .. tx_available - 1 :
       /\ tx_buffers[k % PACKETS] \in TxPacket
       /\ tx_buffers[k % PACKETS].serial = k

InOrder == last_received # None => last_received = rx_available - PACKETS - 1

RxType ==
  /\ {rx_available, rx_used} \subseteq 0 .. INDEX_END - 1
  /\ used_ring \in [Slot -> Slot]
  /\ rx_buffers \in [Slot -> {None} \cup RxPacket]
TxType ==
  /\ {tx_available, tx_used} \subseteq 0 .. INDEX_END - 1
  /\ tx_buffers \in [Slot -> {None} \cup TxPacket]
StackType ==
  /\ stack \in {None, "start", "arp_sent", "resolved", "query_sent"}
  /\ wire \subseteq Incoming \cup Outgoing /\ lost \in BOOLEAN
  /\ panicked \in {"no", "index", "dns"}

NetInv == RxType /\ TxType /\ StackType /\ RxInv /\ TxInv /\ InOrder

LEMMA TypeParts == NetTypeOK <=> RxType /\ TxType /\ StackType
  BY DEF NetTypeOK, RxType, TxType, StackType, RxPacket, TxPacket

LEMMA SlotType == \A k \in Nat : k % PACKETS \in Slot
  BY NetworkAssumption, DivMod DEF Slot

LEMMA NetStart == NetInit => NetInv
<1> SUFFICES ASSUME NetInit PROVE NetInv
  OBVIOUS
<1>1. RxType /\ TxType
  BY NetworkAssumption DEF NetInit, RxType, TxType, Slot
<1>2. StackType
  BY Zenon DEF NetInit, StackType
<1>3. RxInv /\ TxInv /\ InOrder
  BY NetworkAssumption DEF NetInit, RxInv, TxInv, InOrder
<1> QED BY <1>1, <1>2, <1>3 DEF NetInv

LEMMA RxSame == ASSUME RxType, RxInv, UNCHANGED rx PROVE RxType' /\ RxInv'
  BY DEF RxType, RxInv, rx

LEMMA TxSame == ASSUME TxType, TxInv, UNCHANGED tx PROVE TxType' /\ TxInv'
  BY DEF TxType, TxInv, tx

LEMMA PanicInv == ASSUME NetInv, Panic("index") PROVE NetInv'
<1>1. UNCHANGED <<rx, tx, stack, last_received, wire, lost>> /\ panicked' = "index"
  BY DEF Panic
<1>2. RxType' /\ RxInv' /\ TxType' /\ TxInv'
  BY <1>1, RxSame, TxSame DEF NetInv
<1>3. InOrder' /\ StackType'
  BY <1>1 DEF NetInv, InOrder, rx, StackType
<1> QED BY <1>2, <1>3 DEF NetInv

\* A packet is queued in a slot no packet the card still has to send lies in.
LEMMA TransmitInv ==
  ASSUME TxType, TxInv, NEW kind \in Outgoing, ~AdditionPanics(tx_used),
         ~TxFull(tx_available, tx_used), TransmitPacket(kind)
  PROVE  TxType' /\ TxInv'
<1> USE NetworkAssumption
<1>0. PICK s : s = tx_available % PACKETS
  OBVIOUS
<1>1. tx_available \in Nat /\ tx_used \in Nat /\ tx_available < tx_used + PACKETS
  BY DEF TxType, TxInv, TxFull
<1>2. tx_available + 1 \in 0 .. INDEX_END - 1 /\ tx_available \in 0 .. INDEX_END - 1
  BY <1>1 DEF AdditionPanics, TxType
<1>3. s \in Slot
  BY <1>0, <1>1, SlotType
<1>4. /\ tx_buffers' = [tx_buffers EXCEPT ![s] = Packet(kind, tx_available)]
      /\ tx_available' = tx_available + 1 /\ tx_used' = tx_used
  BY <1>0 DEF TransmitPacket
<1>5. Packet(kind, tx_available) \in TxPacket /\ Packet(kind, tx_available).serial = tx_available
  BY <1>2 DEF Packet, TxPacket
<1>6. TxType'
  BY <1>2, <1>3, <1>4, <1>5 DEF TxType
<1>7. ASSUME NEW k \in tx_used .. tx_available
      PROVE  tx_buffers'[k % PACKETS] \in TxPacket /\ tx_buffers'[k % PACKETS].serial = k
  <2>1. k \in Nat /\ k % PACKETS \in Slot
    BY <1>1, SlotType
  <2>2. CASE k = tx_available
    BY <1>0, <1>3, <1>4, <1>5, <2>2 DEF TxType
  <2>3. CASE k # tx_available
    <3>1. k \in tx_used .. tx_available - 1
      BY <1>1, <2>3
    <3>2. k % PACKETS # s
      <4>1. k - tx_available < PACKETS /\ tx_available - k < PACKETS
        BY <1>1, <2>1
      <4> QED BY <1>0, <1>1, <2>1, <2>3, <4>1, ModInjective
    <3>3. tx_buffers'[k % PACKETS] = tx_buffers[k % PACKETS]
      BY <1>3, <1>4, <2>1, <3>2 DEF TxType
    <3> QED BY <3>1, <3>3 DEF TxInv
  <2> QED BY <2>2, <2>3
<1>8. TxInv'
  BY <1>1, <1>4, <1>7 DEF TxInv
<1> QED BY <1>6, <1>8

\* The card fills a slot the stack has been given the last packet of.
LEMMA ArrivesInv ==
  ASSUME RxType, RxInv, NEW kind \in Incoming, Arrives(kind)
  PROVE  RxType' /\ RxInv' /\ rx_available' = rx_available
<1> USE NetworkAssumption
<1>1. CASE UNCHANGED rx
  BY <1>1, RxSame DEF rx
<1>2. CASE rx_used # rx_available /\ ~UNCHANGED rx
  <2>0. PICK s : s = rx_used % PACKETS
    OBVIOUS
  <2>1. rx_available \in Nat /\ rx_used \in Nat /\ rx_used < rx_available
    BY <1>2 DEF RxType, RxInv
  <2>2. rx_used + 1 \in 0 .. INDEX_END - 1 /\ rx_used \in 0 .. INDEX_END - 1
    BY <2>1 DEF RxType
  <2>3. s \in Slot
    BY <2>0, <2>1, SlotType
  <2>4. /\ rx_buffers' = [rx_buffers EXCEPT ![s] = Packet(kind, rx_used)]
        /\ used_ring' = [used_ring EXCEPT ![s] = s]
        /\ rx_used' = rx_used + 1 /\ rx_available' = rx_available
    BY <1>2, <2>0 DEF Arrives, rx
  <2>5. Packet(kind, rx_used) \in RxPacket /\ Packet(kind, rx_used).serial = rx_used
    BY <2>2 DEF Packet, RxPacket
  <2>6. RxType'
    BY <2>2, <2>3, <2>4, <2>5 DEF RxType
  <2>7. ASSUME NEW k \in rx_available - PACKETS .. rx_used
        PROVE  /\ used_ring'[k % PACKETS] = k % PACKETS
               /\ rx_buffers'[k % PACKETS] \in RxPacket
               /\ rx_buffers'[k % PACKETS].serial = k
    <3>1. k \in Nat /\ k % PACKETS \in Slot
      BY <2>1, SlotType DEF RxInv
    <3>2. CASE k = rx_used
      BY <2>0, <2>3, <2>4, <2>5, <3>2 DEF RxType
    <3>3. CASE k # rx_used
      <4>1. k \in rx_available - PACKETS .. rx_used - 1
        BY <2>1, <3>3
      <4>2. k % PACKETS # s
        <5>1. k - rx_used < PACKETS /\ rx_used - k < PACKETS
          BY <2>1, <3>1
        <5> QED BY <2>0, <2>1, <3>1, <3>3, <5>1, ModInjective
      <4>3. /\ rx_buffers'[k % PACKETS] = rx_buffers[k % PACKETS]
            /\ used_ring'[k % PACKETS] = used_ring[k % PACKETS]
        BY <2>3, <2>4, <3>1, <4>2 DEF RxType
      <4> QED BY <4>1, <4>3 DEF RxInv
    <3> QED BY <3>2, <3>3
  <2>8. RxInv'
    BY <2>1, <2>4, <2>7 DEF RxInv
  <2> QED BY <2>4, <2>6, <2>8
<1> QED BY <1>1, <1>2 DEF Arrives

\* The stack is given the oldest packet it was not given, and no packet it
\* transmits while it handles that one is in its way.
LEMMA ReceiveInv == ASSUME NetInv, receive PROVE NetInv'
<1> USE NetworkAssumption
<1>0. RxType /\ TxType /\ StackType /\ RxInv /\ TxInv /\ InOrder
  BY DEF NetInv
<1>1. CASE Panic("index")
  BY <1>1, PanicInv
<1>2. CASE ~Panic("index")
  <2>0. PICK k, s : k = rx_available - PACKETS /\ s = rx_available % PACKETS
    OBVIOUS
  <2>1. /\ ~AdditionPanics(rx_used) /\ ~AdditionPanics(tx_used)
        /\ ~RxEmpty(rx_available, rx_used) /\ ~TxFull(tx_available, tx_used)
    BY <1>2 DEF receive
  <2>2. /\ rx_available \in Nat /\ rx_used \in Nat /\ rx_available < rx_used + PACKETS
        /\ k \in Nat /\ k \in rx_available - PACKETS .. rx_used - 1 /\ rx_available = k + PACKETS
    BY <1>0, <2>0, <2>1 DEF RxType, RxInv, RxEmpty
  <2>3. s = k % PACKETS
    BY <2>0, <2>2, ModShift
  <2>4. ReceivedPacket \in RxPacket /\ ReceivedPacket.serial = k
    BY <1>0, <2>0, <2>2, <2>3 DEF RxInv, ReceivedPacket
  <2>5. /\ stack' = Processed(ReceivedPacket.kind) /\ last_received' = k
        /\ panicked' \in {"dns", "no"} /\ rx_available' = rx_available + 1
        /\ UNCHANGED <<rx_used, used_ring, rx_buffers, wire, lost>>
        /\ TransmitPacket("pong") \/ UNCHANGED tx
    BY <1>2, <2>4 DEF receive
  <2>6. RxType'
    BY <1>0, <2>1, <2>2, <2>5 DEF RxType, AdditionPanics
  <2>7. RxInv'
    BY <1>0, <2>2, <2>5 DEF RxInv
  <2>8. TxType' /\ TxInv'
    BY <1>0, <2>1, <2>5, TransmitInv, TxSame DEF Outgoing
  <2>9. StackType'
    <3>1. stack' \in {None, "start", "arp_sent", "resolved", "query_sent"}
      BY <1>0, <2>5 DEF StackType, Processed
    <3> QED BY <1>0, <2>5, <3>1 DEF StackType
  <2>10. InOrder'
    BY <2>2, <2>5 DEF InOrder
  <2> QED BY <2>6, <2>7, <2>8, <2>9, <2>10 DEF NetInv
<1> QED BY <1>1, <1>2

LEMMA TransmitStepInv == ASSUME NetInv, transmit PROVE NetInv'
<1>0. RxType /\ TxType /\ StackType /\ RxInv /\ TxInv /\ InOrder
  BY DEF NetInv
<1>1. CASE Panic("index")
  BY <1>1, PanicInv
<1>2. CASE ~Panic("index")
  <2>1. /\ ~AdditionPanics(tx_used) /\ ~TxFull(tx_available, tx_used)
        /\ \E kind \in Outgoing : TransmitPacket(kind)
        /\ stack' \in {"arp_sent", "query_sent"}
        /\ UNCHANGED <<rx, last_received, wire, lost, panicked>>
    BY <1>2 DEF transmit, Outgoing
  <2>2. TxType' /\ TxInv'
    BY <1>0, <2>1, TransmitInv
  <2>3. RxType' /\ RxInv'
    BY <1>0, <2>1, RxSame
  <2>4. InOrder' /\ StackType'
    BY <1>0, <2>1 DEF InOrder, rx, StackType
  <2> QED BY <2>2, <2>3, <2>4 DEF NetInv
<1> QED BY <1>1, <1>2

LEMMA CardSendsInv == ASSUME NetInv, CardSends PROVE NetInv'
<1>0. RxType /\ TxType /\ StackType /\ RxInv /\ TxInv /\ InOrder
  BY DEF NetInv
<1>1. tx_used \in Nat /\ tx_available \in Nat /\ tx_used < tx_available
  BY <1>0, NetworkAssumption DEF CardSends, TxType, TxInv
<1>2. /\ tx_used' = tx_used + 1 /\ UNCHANGED <<rx, tx_available, tx_buffers, stack, last_received, lost, panicked>>
      /\ wire' = wire \/ wire' = wire \cup {tx_buffers[tx_used % PACKETS].kind}
  BY DEF CardSends
<1>3. TxType'
  BY <1>0, <1>1, <1>2, NetworkAssumption DEF TxType
<1>4. TxInv'
  BY <1>0, <1>1, <1>2, NetworkAssumption DEF TxInv
<1>5. RxType' /\ RxInv'
  BY <1>0, <1>2, RxSame
<1>6. tx_buffers[tx_used % PACKETS].kind \in Outgoing
  BY <1>0, <1>1 DEF TxInv, TxPacket
<1>7. InOrder' /\ StackType'
  BY <1>0, <1>2, <1>6 DEF InOrder, rx, StackType
<1> QED BY <1>3, <1>4, <1>5, <1>7 DEF NetInv

LEMMA ArrivalInv ==
  ASSUME NetInv, NEW kind \in Incoming, Arrives(kind), wire' \subseteq wire,
         UNCHANGED <<tx, stack, last_received, panicked>>
  PROVE  NetInv'
<1>0. RxType /\ TxType /\ StackType /\ RxInv /\ TxInv /\ InOrder
  BY DEF NetInv
<1>1. RxType' /\ RxInv' /\ rx_available' = rx_available
  BY <1>0, ArrivesInv
<1>2. TxType' /\ TxInv'
  BY <1>0, TxSame
<1>3. lost' \in BOOLEAN
  BY <1>0, Zenon DEF Arrives, StackType
<1>4. InOrder' /\ StackType'
  BY <1>0, <1>1, <1>3 DEF InOrder, StackType
<1> QED BY <1>1, <1>2, <1>4 DEF NetInv

\* What the network does, and the start of a call, leaves both queues alone.
LEMMA QuietInv ==
  ASSUME NetInv, UNCHANGED <<rx, tx, last_received, panicked>>, wire' \subseteq Incoming \cup Outgoing,
         lost' \in BOOLEAN, stack' \in {stack, "start"}
  PROVE  NetInv'
<1>0. RxType /\ TxType /\ StackType /\ RxInv /\ TxInv /\ InOrder
  BY DEF NetInv
<1>1. RxType' /\ RxInv' /\ TxType' /\ TxInv'
  BY <1>0, RxSame, TxSame
<1>2. InOrder' /\ StackType'
  BY <1>0 DEF InOrder, rx, StackType
<1> QED BY <1>1, <1>2 DEF NetInv

LEMMA NetStep == NetInv /\ [NetNext]_net_vars => NetInv'
<1> SUFFICES ASSUME NetInv, [NetNext]_net_vars PROVE NetInv'
  OBVIOUS
<1>0. StackType
  BY DEF NetInv
<1>1. CASE dns
  <2>1. lost' \in BOOLEAN
    BY <1>1, Zenon DEF dns
  <2> QED BY <1>0, <1>1, <2>1, QuietInv DEF dns, StackType
<1>2. CASE receive
  BY <1>2, ReceiveInv
<1>3. CASE transmit
  BY <1>3, TransmitStepInv
<1>4. CASE CardSends
  BY <1>4, CardSendsInv
<1>5. CASE Ping
  BY <1>5, ArrivalInv DEF Ping, Incoming
<1>6. CASE Replies
  BY <1>0, <1>6, QuietInv DEF Replies, Answer, StackType, Incoming
<1>7. CASE \E kind \in Incoming : CardReceives(kind)
  BY <1>7, ArrivalInv DEF CardReceives
<1>8. CASE \E kind \in Incoming \cup Outgoing : Lose(kind)
  <2>1. lost' \in BOOLEAN
    BY <1>8, Zenon DEF Lose
  <2> QED BY <1>0, <1>8, <2>1, QuietInv DEF Lose, StackType
<1>9. CASE UNCHANGED net_vars
  BY <1>0, <1>9, QuietInv DEF net_vars, StackType
<1> QED BY <1>1, <1>2, <1>3, <1>4, <1>5, <1>6, <1>7, <1>8, <1>9 DEF NetNext

\* For every queue size and index width, the stack is given the packets in
\* the order they came, each once, and the indices end before they wrap.
THEOREM PacketsReceivedInOrder == NetSpec => []ReceivedInOrder
<1>1. NetInv => ReceivedInOrder
  <2> SUFFICES ASSUME NetInv PROVE ReceivedInOrder
    OBVIOUS
  <2>1. \A k \in rx_available - PACKETS .. rx_used - 1 :
          rx_buffers[used_ring[k % PACKETS]].serial = k
    BY DEF NetInv, RxInv
  <2> QED BY <2>1, TypeParts DEF NetInv, InOrder, ReceivedInOrder
<1> QED BY <1>1, NetStart, NetStep, PTL DEF NetSpec

\* For every queue size and index width, no buffer is written while the card
\* still has to send the packet in it.
THEOREM PacketsSentIntact == NetSpec => []SentIntact
<1>1. NetInv => SentIntact
  BY DEF NetInv, TxInv, SentIntact
<1> QED BY <1>1, NetStart, NetStep, PTL DEF NetSpec

=============================================================================
