--------------------------- MODULE ProgramProofs ----------------------------
(***************************************************************************)
(* Proofs about two of the programs, which have no state in common: the    *)
(* terminal with its shell, for windows, fonts and buffers of any size,    *)
(* and the FAT file system, for all volumes on a drive that can be read    *)
(* and all paths.                                                          *)
(***************************************************************************)
EXTENDS Console, Fat, CommonTheorems, SequenceTheorems, TLAPS

Modes == {"prompt", "line", "multiline", "command", "exited"}

\* What the terminal reads from, and how much of it there may be.
Events ==
  {SYN(nr) : nr \in Nat} \cup {KeyEvent(code, value, nr) : code \in Keys, value \in {0, 1}, nr \in Nat}
RingBound ==
  /\ ring \in Seq(Events) /\ Len(ring) <= RING
  /\ keys \in Nat /\ (due => keys # 0) /\ torn \in SUBSET (1 .. keys)
  /\ \A i \in 1 .. Len(ring) : ring[i].nr \in 1 .. keys

\* What the shell has read, and how much of it there may be.  It waits for a
\* character only while it reads a line or a file.
ShellBound ==
  /\ mode \in Modes /\ buf \in Seq(Keys)
  /\ mode = "line" => Len(buf) <= LINE_BUF
  /\ mode = "multiline" => Len(buf) < FILE_BUF
  /\ asking => mode \in {"line", "multiline"}

CursorBound == cursor_x \in Nat /\ cursor_y \in Nat /\ CursorInWindow

Flags ==
  asking \in BOOLEAN /\ line_empty \in BOOLEAN /\ stopped \in BOOLEAN /\ due \in BOOLEAN

Bounds == RingBound /\ ShellBound /\ CursorBound
ConsoleInv == Bounds /\ Flags

LEMMA Sizes ==
  /\ RING \in Nat /\ LINE_BUF \in Nat /\ FILE_BUF \in Nat /\ FILE_BUF > 0
  /\ LEFTPAD \in Nat /\ FONT_WIDTH \in Nat /\ FONT_HEIGHT \in Nat /\ FONT_HEIGHT > 0
  /\ WINDOW_WIDTH \in Nat /\ WINDOW_HEIGHT \in Nat
  /\ LEFTPAD + FONT_WIDTH <= WINDOW_WIDTH /\ FONT_HEIGHT <= WINDOW_HEIGHT
BY ConsoleAssumption

-----------------------------------------------------------------------------
(* The cursor. *)

\* A line that is full, or that ends, is left at most once for a character,
\* and scrolling makes up for it.
LEMMA CursorStays ==
  ASSUME CursorBound, NEW c, NEW pos, pos = Scrolled(Wrapped(Moved(c)))
  PROVE  /\ pos[1] \in Nat /\ pos[2] \in Nat
         /\ LEFTPAD <= pos[1] /\ pos[1] + FONT_WIDTH <= WINDOW_WIDTH
         /\ pos[2] + FONT_HEIGHT <= WINDOW_HEIGHT
<1>0. PICK moved, wrapped : moved = Moved(c) /\ wrapped = Wrapped(moved) /\ pos = Scrolled(wrapped)
  OBVIOUS
<1>1. \/ moved = <<cursor_x + FONT_WIDTH, cursor_y>>
      \/ moved = <<LEFTPAD, cursor_y + FONT_HEIGHT>>
      \/ moved = <<cursor_x, cursor_y>>
  BY <1>0, Zenon DEF Moved
<1>2. /\ wrapped[1] \in Nat /\ LEFTPAD <= wrapped[1] /\ wrapped[1] + FONT_WIDTH <= WINDOW_WIDTH
      /\ wrapped[2] \in {cursor_y, cursor_y + FONT_HEIGHT}
  BY <1>0, <1>1, Sizes DEF CursorBound, CursorInWindow, Wrapped
<1> QED  BY <1>0, <1>2, Sizes DEF CursorBound, CursorInWindow, Scrolled

LEMMA FlagsKept ==
  ASSUME Flags, [Next]_vars
  PROVE  Flags'
<1> USE DEF Next, Programs, WindowServer, PushKey, PushSyn, SynElsewhere, StraySyn, push,
            Prompt, Command, Ask, getchar, putchar, vars
<1>1. stopped' \in BOOLEAN
  BY Zenon DEF Flags
<1>2. asking' \in BOOLEAN
  BY Zenon DEF Flags, shell
<1>3. line_empty' \in BOOLEAN
  BY Zenon DEF Flags, shell, GotInLine, GotInFile
<1>4. due' \in BOOLEAN
  BY Zenon DEF Flags, input
<1> QED  BY <1>1, <1>2, <1>3, <1>4 DEF Flags

-----------------------------------------------------------------------------
(* One lemma per operation. *)

LEMMA PushKeeps ==
  ASSUME Bounds, WindowServer
  PROVE  Bounds'
<1>1. PICK event :
        /\ (push(event) /\ event \in Events /\ event.nr \in 1 .. keys') \/ ring' = ring
        /\ keys' \in Nat /\ keys <= keys' /\ (due' => keys' # 0) /\ torn' \in SUBSET (1 .. keys')
  <2>0. keys \in Nat /\ (due => keys # 0) /\ torn \in SUBSET (1 .. keys)
    BY DEF Bounds, RingBound
  <2>1. ASSUME NEW code \in Keys, NEW value \in {0, 1}, PushKey(code, value)
        PROVE  \E event : event \in Events /\ event.nr = keys + 1 /\ push(event)
                          /\ keys' = keys + 1 /\ torn' = torn
    <3>1. KeyEvent(code, value, keys + 1) \in Events /\ KeyEvent(code, value, keys + 1).nr = keys + 1
      BY <2>0 DEF Events, KeyEvent
    <3> QED  BY <2>1, <3>1 DEF PushKey
  <2>2. ASSUME NEW nr \in Nat
        PROVE  SYN(nr) \in Events /\ SYN(nr).nr = nr
    BY DEF Events, SYN
  <2>3. CASE PushSyn
    BY <2>0, <2>2, <2>3 DEF PushSyn
  <2>4. CASE SynElsewhere
    BY <2>0, <2>4 DEF SynElsewhere
  <2>5. CASE StraySyn
    <3>1. push(SYN(keys + 1)) /\ keys' = keys + 1 /\ due' = due /\ torn' = torn \cup {keys + 1}
      BY <2>5 DEF StraySyn
    <3> QED  BY <2>0, <2>2, <3>1
  <2>6. CASE \E code \in Keys, value \in {0, 1} : PushKey(code, value)
    <3>1. PICK code \in Keys, value \in {0, 1} : PushKey(code, value)
      BY <2>6
    <3>2. PICK event : event \in Events /\ event.nr = keys + 1 /\ push(event)
                       /\ keys' = keys + 1 /\ torn' = torn
      BY <2>1, <3>1
    <3> QED  BY <2>0, <3>2
  <2> QED  BY <2>3, <2>4, <2>5, <2>6 DEF WindowServer
<1>2. RingBound'
  <2>1. /\ ring \in Seq(Events) /\ Len(ring) \in Nat /\ Len(ring) <= RING /\ keys \in Nat
        /\ \A i \in 1 .. Len(ring) : ring[i].nr \in 1 .. keys
    BY DEF Bounds, RingBound
  <2>2. CASE ring' # ring
    <3>1. ring' = Append(ring, event) /\ Len(ring) # RING /\ event \in Events /\ event.nr \in 1 .. keys'
      BY <1>1, <2>2 DEF push
    <3>2. /\ ring' \in Seq(Events) /\ Len(ring') = Len(ring) + 1
          /\ \A i \in 1 .. Len(ring) : ring'[i] = ring[i]
          /\ ring'[Len(ring) + 1] = event
      BY <2>1, <3>1
    <3>3. \A i \in 1 .. Len(ring') : ring'[i].nr \in 1 .. keys'
      <4> SUFFICES ASSUME NEW i \in 1 .. Len(ring') PROVE ring'[i].nr \in 1 .. keys'
        OBVIOUS
      <4>1. CASE i = Len(ring) + 1
        BY <3>1, <3>2, <4>1
      <4>2. CASE i # Len(ring) + 1
        <5>1. i \in 1 .. Len(ring)
          BY <2>1, <3>2, <4>2
        <5> QED  BY <1>1, <2>1, <3>2, <5>1
      <4> QED  BY <4>1, <4>2
    <3> QED  BY <1>1, <2>1, <3>1, <3>2, <3>3, Sizes DEF RingBound
  <2>3. CASE ring' = ring
    <3>1. \A i \in 1 .. Len(ring) : ring[i].nr \in 1 .. keys'
      BY <1>1, <2>1
    <3> QED  BY <1>1, <2>1, <2>3, <3>1 DEF RingBound
  <2> QED  BY <2>2, <2>3
<1>3. ShellBound' /\ CursorBound'
  BY DEF Bounds, ShellBound, CursorBound, CursorInWindow, WindowServer, PushKey, PushSyn,
         SynElsewhere, StraySyn, shell, terminal
<1> QED  BY <1>2, <1>3 DEF Bounds

LEMMA PromptKeeps ==
  ASSUME Bounds, Prompt
  PROVE  Bounds'
BY Sizes DEF Bounds, RingBound, ShellBound, CursorBound, CursorInWindow, Prompt, Modes, terminal,
             input, history

LEMMA CommandKeeps ==
  ASSUME Bounds, Command
  PROVE  Bounds'
<1>1. ShellBound'
  BY Sizes DEF Bounds, ShellBound, Command, Modes
<1> QED  BY <1>1 DEF Bounds, RingBound, CursorBound, CursorInWindow, Command, terminal, input, history

LEMMA AskKeeps ==
  ASSUME Bounds, Ask
  PROVE  Bounds'
BY DEF Bounds, RingBound, ShellBound, CursorBound, CursorInWindow, Ask, terminal, input, history

\* No character is added to a line or a file that is full.
LEMMA GotKeeps ==
  ASSUME ShellBound, NEW ch \in Keys, asking' = FALSE,
         \/ mode = "line" /\ GotInLine(ch)
         \/ mode = "multiline" /\ GotInFile(ch)
  PROVE  ShellBound'
<1>0. Len(buf) \in Nat
  BY DEF ShellBound
<1>1. CASE mode = "line" /\ GotInLine(ch)
  <2>1. CASE ch = "enter" \/ Len(buf) = LINE_BUF
    BY <1>1, <2>1 DEF ShellBound, GotInLine, Modes
  <2>2. CASE ~(ch = "enter" \/ Len(buf) = LINE_BUF)
    <3>1. buf' = Append(buf, ch) /\ mode' = "line" /\ line_empty' = line_empty
      BY <1>1, <2>2 DEF GotInLine
    <3>2. Len(buf') = Len(buf) + 1 /\ buf' \in Seq(Keys)
      BY <3>1 DEF ShellBound
    <3> QED  BY <1>0, <1>1, <2>2, <3>1, <3>2, Sizes DEF ShellBound, Modes
  <2> QED  BY <2>1, <2>2
<1>2. CASE mode = "multiline" /\ GotInFile(ch)
  <2>1. CASE ch = "enter" /\ line_empty
    BY <1>2, <2>1 DEF ShellBound, GotInFile, Modes
  <2>2. CASE ~(ch = "enter" /\ line_empty)
    <3>1. /\ buf' = Append(buf, ch) /\ line_empty' = (ch = "enter")
          /\ IF Len(buf') = FILE_BUF THEN mode' = "prompt" ELSE mode' = mode
      BY <1>2, <2>2 DEF GotInFile
    <3>2. Len(buf') = Len(buf) + 1 /\ buf' \in Seq(Keys)
      BY <3>1 DEF ShellBound
    <3> QED  BY <1>0, <1>2, <3>1, <3>2, Sizes DEF ShellBound, Modes
  <2> QED  BY <2>1, <2>2
<1> QED  BY <1>1, <1>2

\* How far getchar() reads: to the first end behind the first event, or as far
\* as there are events.
LEMMA ReadsSequence ==
  ASSUME ring \in Seq(Events), ring # <<>>, NEW n, n = SequenceLength(ring)
  PROVE  /\ n \in 1 .. Len(ring)
         /\ \A i \in 2 .. Len(ring) : i < n => ring[i].type # "syn"
         /\ n < Len(ring) => n >= 2 /\ ring[n].type = "syn"
<1> DEFINE ends == {m \in 2 .. Len(ring) : ring[m].type = "syn"}
<1>0. Len(ring) \in Nat /\ Len(ring) >= 1
  OBVIOUS
<1>1. CASE ends = {}
  <2>1. n = Len(ring)
    BY <1>1, Zenon DEF SequenceLength
  <2> QED  BY <1>0, <1>1, <2>1
<1>2. CASE ends # {}
  <2>1. n = CHOOSE m \in ends : \A other \in ends : m <= other
    BY <1>2, Zenon DEF SequenceLength
  <2>2. \E m \in ends : \A other \in ends : m <= other
    <3>1. ends \in SUBSET Nat
      BY <1>0
    <3> HIDE DEF ends
    <3> QED  BY <1>2, <3>1, LeastNumber
  <2> HIDE DEF ends
  <2>3. n \in ends /\ \A other \in ends : n <= other
    BY <2>1, <2>2
  <2> QED  BY <1>0, <2>3 DEF ends
<1> QED  BY <1>1, <1>2

LEMMA Taken ==
  ASSUME NEW S, NEW s \in Seq(S), NEW n \in 1 .. Len(s), NEW t, t = SubSeq(s, n + 1, Len(s))
  PROVE  /\ t \in Seq(S) /\ Len(t) = Len(s) - n
         /\ \A i \in 1 .. Len(t) : t[i] = s[n + i] /\ n + i \in 1 .. Len(s)
OBVIOUS

LEMMA GetcharKeeps ==
  ASSUME Bounds, getchar
  PROVE  Bounds'
<1>1. RingBound'
  <2>1. PICK n, last : n = SequenceLength(ring) /\ last = ring[n]
    OBVIOUS
  <2>2. /\ ring \in Seq(Events) /\ Len(ring) <= RING /\ ring # <<>>
        /\ keys \in Nat /\ (due => keys # 0) /\ torn \in SUBSET (1 .. keys)
        /\ \A i \in 1 .. Len(ring) : ring[i].nr \in 1 .. keys
    BY DEF Bounds, RingBound, getchar
  <2>3. n \in 1 .. Len(ring)
    BY <2>1, <2>2, ReadsSequence
  <2>4. /\ ring' = SubSeq(ring, n + 1, Len(ring)) /\ keys' = keys /\ due' = due
        /\ torn' = IF last.type = "key" THEN torn \cup {last.nr} ELSE torn
    BY <2>1 DEF getchar
  <2>5. /\ ring' \in Seq(Events) /\ Len(ring') = Len(ring) - n
        /\ \A i \in 1 .. Len(ring') : ring'[i] = ring[n + i] /\ n + i \in 1 .. Len(ring)
    BY <2>2, <2>3, <2>4, Taken
  <2>6. last.nr \in 1 .. keys
    BY <2>1, <2>2, <2>3
  <2>7. Len(ring') <= RING
    BY <2>2, <2>3, <2>5, Sizes
  <2>8. \A i \in 1 .. Len(ring') : ring'[i].nr \in 1 .. keys'
    BY <2>2, <2>4, <2>5
  <2>9. torn' \in SUBSET (1 .. keys')
    BY <2>2, <2>4, <2>6
  <2> QED  BY <2>2, <2>4, <2>5, <2>7, <2>8, <2>9 DEF RingBound
<1>2. ShellBound'
  <2> DEFINE event == Head(ring)
  <2>1. CASE event.value = 1 /\ event.code \in Recognized
    <3>1. asking /\ mode \in {"line", "multiline"}
      BY DEF getchar, Bounds, ShellBound
    <3>2. event.code \in Keys
      BY <2>1 DEF Keys
    <3>3. /\ asking' = FALSE
          /\ IF mode = "line" THEN GotInLine(event.code) ELSE GotInFile(event.code)
      BY <2>1, Zenon DEF getchar, Pressed
    <3> HIDE DEF event
    <3> QED  BY <3>1, <3>2, <3>3, GotKeeps DEF Bounds
  <2>2. CASE ~(event.value = 1 /\ event.code \in Recognized)
    <3>1. UNCHANGED shell
      BY <2>2, Zenon DEF getchar, Pressed
    <3> QED  BY <3>1 DEF Bounds, ShellBound, shell
  <2> QED  BY <2>1, <2>2
<1> QED  BY <1>1, <1>2 DEF Bounds, CursorBound, CursorInWindow, getchar, terminal

LEMMA PutcharKeeps ==
  ASSUME Bounds, putchar
  PROVE  Bounds'
<1>1. CursorBound'
  <2> DEFINE pos == Scrolled(Wrapped(Moved(Head(out))))
  <2>1. cursor_x' = pos[1] /\ cursor_y' = pos[2]
    BY DEF putchar
  <2>2. /\ pos[1] \in Nat /\ pos[2] \in Nat
        /\ LEFTPAD <= pos[1] /\ pos[1] + FONT_WIDTH <= WINDOW_WIDTH
        /\ pos[2] + FONT_HEIGHT <= WINDOW_HEIGHT
    BY CursorStays DEF Bounds
  <2> HIDE DEF pos
  <2> QED  BY <2>1, <2>2 DEF CursorBound, CursorInWindow
<1> QED  BY <1>1 DEF Bounds, RingBound, ShellBound, putchar, input, history

-----------------------------------------------------------------------------

LEMMA BoundsKept ==
  ASSUME Bounds, [Next]_vars
  PROVE  Bounds'
<1>1. CASE UNCHANGED vars
  BY <1>1 DEF vars, input, history, terminal, shell, Bounds, RingBound, ShellBound, CursorBound, CursorInWindow
<1>2. CASE Programs
  BY <1>2, PromptKeeps, CommandKeeps, AskKeeps, GetcharKeeps, PutcharKeeps DEF Programs
<1>3. CASE WindowServer
  BY <1>3, PushKeeps
<1> QED  BY <1>1, <1>2, <1>3 DEF Next

LEMMA ConsoleAlways == Spec => []ConsoleInv
<1>1. Init => Bounds
  BY Sizes DEF Init, Bounds, RingBound, ShellBound, CursorBound, CursorInWindow, Modes
<1>2. Init => Flags
  BY Zenon DEF Init, Flags
<1>3. Bounds /\ Flags /\ [Next]_vars => Bounds' /\ Flags'
  BY BoundsKept, FlagsKept
<1> QED  BY <1>1, <1>2, <1>3, PTL DEF Spec, ConsoleInv

\* Neither getline() nor getmultiline() overruns its buffer, nor push() the
\* window's ring, and render_char() always leaves room in the window for
\* another glyph, whatever is typed and printed.
THEOREM BuffersAndWindowHold == Spec => []InBounds
<1>1. ConsoleInv => TypeOK
  BY DEF ConsoleInv, Bounds, Flags, RingBound, ShellBound, TypeOK, Modes
<1>2. ConsoleInv => CursorInWindow
  BY DEF ConsoleInv, Bounds, CursorBound
<1> QED  BY <1>1, <1>2, ConsoleAlways, PTL DEF InBounds

-----------------------------------------------------------------------------
(* The order of the keys. *)

\* The events in the ring are those of one sequence after the other.  Behind a
\* key stands its end, or it was given to another window; before an end that is
\* first, or right behind another, its key was taken or given to another one.
QueueInv ==
  /\ \A i, j \in 1 .. Len(ring) : i < j =>
       /\ ring[i].nr <= ring[j].nr
       /\ ring[j].type = "key" => ring[i].nr < ring[j].nr
  /\ \A i, j \in 1 .. Len(ring) : j = i + 1 =>
       /\ ring[j].type = "key" =>
            ring[i].nr = ring[j].nr - 1 /\ (ring[i].type = "key" => ring[i].nr \in torn)
       /\ ring[i].type = "syn" /\ ring[j].type = "syn" => ring[j].nr \in torn
  /\ ring # <<>> /\ ring[1].type = "syn" => ring[1].nr \in torn

\* The last event in the ring, unless the window server has failed to push one.
LastInv ==
  /\ due => \/ ring = <<>> /\ keys \in torn
            \/ ring # <<>> /\ ring[Len(ring)].type = "key" /\ ring[Len(ring)].nr = keys
  /\ ~due /\ ring # <<>> =>
       /\ ring[Len(ring)].nr = keys
       /\ ring[Len(ring)].type = "syn" \/ keys \in torn

\* The keys that were read are behind those in the ring.
GivenInv ==
  /\ read \in Seq(typed)
  /\ \A event \in typed : event.nr \in 1 .. keys
  /\ \A i, j \in 1 .. Len(read) : i < j => read[i].nr < read[j].nr
  /\ \A i \in 1 .. Len(read) : \A event \in Waiting : read[i].nr < event.nr

\* Where the keys are that were typed.
TypedInv ==
  /\ Waiting \subseteq typed
  /\ \A event \in typed :
       \/ event \in Waiting
       \/ \E i \in 1 .. Len(read) : read[i] = event
       \/ event.nr - 1 \in torn

HistoryInv == QueueInv /\ (~stopped => LastInv) /\ GivenInv /\ TypedInv

LEMMA EventKinds ==
  ASSUME NEW event \in Events
  PROVE  event.type \in {"key", "syn"} /\ event.nr \in Nat /\ (Pressed(event) => event.type = "key")
BY DEF Events, SYN, KeyEvent, Pressed

\* One more event in the ring keeps what is there in order.
LEMMA AppendOrdered ==
  ASSUME RingBound, QueueInv, NEW e \in Events, ring' = Append(ring, e), torn \subseteq torn',
         \A i \in 1 .. Len(ring) : ring[i].nr <= e.nr /\ (e.type = "key" => ring[i].nr < e.nr),
         e.type = "key" /\ ring # <<>> =>
           /\ ring[Len(ring)].nr = e.nr - 1
           /\ ring[Len(ring)].type = "key" => ring[Len(ring)].nr \in torn',
         e.type = "syn" => e.nr \in torn' \/ (ring # <<>> /\ ring[Len(ring)].type = "key")
  PROVE  QueueInv'
<1>1. PICK m : m = Len(ring) /\ m \in Nat
  BY DEF RingBound
<1>2. /\ ring \in Seq(Events) /\ Len(ring') = m + 1 /\ (m = 0 <=> ring = <<>>)
      /\ \A i \in 1 .. m : ring'[i] = ring[i]
      /\ ring'[m + 1] = e
  BY <1>1 DEF RingBound
<1>3. ASSUME NEW i \in 1 .. m + 1, NEW j \in 1 .. m + 1, i < j
      PROVE  /\ ring'[i].nr <= ring'[j].nr
             /\ ring'[j].type = "key" => ring'[i].nr < ring'[j].nr
  <2>1. i \in 1 .. m
    BY <1>1, <1>3
  <2>2. CASE j = m + 1
    BY <1>1, <1>2, <2>1, <2>2
  <2>3. CASE j # m + 1
    <3>1. j \in 1 .. m
      BY <1>1, <2>3
    <3> QED  BY <1>1, <1>2, <1>3, <2>1, <3>1 DEF QueueInv
  <2> QED  BY <2>2, <2>3
<1>4. ASSUME NEW i \in 1 .. m + 1, NEW j \in 1 .. m + 1, j = i + 1
      PROVE  /\ ring'[j].type = "key" =>
                  ring'[i].nr = ring'[j].nr - 1 /\ (ring'[i].type = "key" => ring'[i].nr \in torn')
             /\ ring'[i].type = "syn" /\ ring'[j].type = "syn" => ring'[j].nr \in torn'
  <2>1. i \in 1 .. m
    BY <1>1, <1>4
  <2>2. CASE j = m + 1
    <3>1. i = m /\ ring # <<>> /\ ring'[i] = ring[m] /\ ring'[j] = e
      BY <1>1, <1>2, <1>4, <2>1, <2>2
    <3> QED  BY <1>1, <3>1
  <2>3. CASE j # m + 1
    <3>1. j \in 1 .. m
      BY <1>1, <2>3
    <3>2. ring'[i] = ring[i] /\ ring'[j] = ring[j]
      BY <1>2, <2>1, <3>1
    <3> QED  BY <1>1, <1>4, <2>1, <3>1, <3>2 DEF QueueInv
  <2> QED  BY <2>2, <2>3
<1>5. ring'[1].type = "syn" => ring'[1].nr \in torn'
  <2>1. CASE m = 0
    <3>1. ring'[1] = e /\ ring = <<>>
      BY <1>2, <2>1
    <3> QED  BY <3>1
  <2>2. CASE m # 0
    <3>1. 1 \in 1 .. m /\ ring # <<>>
      BY <1>1, <1>2, <2>2
    <3> QED  BY <1>2, <3>1 DEF QueueInv
  <2> QED  BY <2>1, <2>2
<1> QED  BY <1>2, <1>3, <1>4, <1>5 DEF QueueInv

\* A key that is pushed waits, behind everything that was read.
LEMMA AppendWaits ==
  ASSUME RingBound, RingBound', GivenInv, TypedInv, NEW e \in Events, ring' = Append(ring, e),
         keys <= keys', torn \subseteq torn', read' = read,
         typed' = IF Pressed(e) THEN typed \cup {e} ELSE typed, Pressed(e) => e.nr = keys + 1,
         e.nr \in 1 .. keys'
  PROVE  GivenInv' /\ TypedInv'
<1>0. keys \in Nat /\ keys' \in Nat /\ ring \in Seq(Events)
  BY DEF RingBound
<1>1. /\ Waiting' = IF Pressed(e) THEN Waiting \cup {e} ELSE Waiting
  <2>1. PICK m : m = Len(ring) /\ m \in Nat
    BY <1>0
  <2>2. /\ Len(ring') = m + 1 /\ ring'[m + 1] = e
        /\ \A i \in 1 .. m : ring'[i] = ring[i]
    BY <1>0, <2>1
  <2>3. Waiting = {ring[i] : i \in {n \in 1 .. m : Pressed(ring[n])}}
    BY <2>1 DEF Waiting
  <2>4. Waiting' = {ring'[i] : i \in {n \in 1 .. m + 1 : Pressed(ring'[n])}}
    BY <2>2 DEF Waiting, Pressed
  <2>5. \A i \in 1 .. m + 1 : i \in 1 .. m \/ i = m + 1
    BY <2>1
  <2>6. 1 .. m \subseteq 1 .. m + 1 /\ m + 1 \in 1 .. m + 1
    BY <2>1
  <2> QED  BY <2>2, <2>3, <2>4, <2>5, <2>6
<1>2. GivenInv'
  <2>1. read' \in Seq(typed')
    <3>1. typed \subseteq typed'
      OBVIOUS
    <3> QED  BY <3>1 DEF GivenInv
  <2>2. \A event \in typed' : event.nr \in 1 .. keys'
    BY <1>0 DEF GivenInv
  <2>3. \A i \in 1 .. Len(read) : read[i].nr \in 1 .. keys
    <3>1. \A i \in 1 .. Len(read) : read[i] \in typed
      BY DEF GivenInv
    <3> QED  BY <3>1 DEF GivenInv
  <2>4. \A i \in 1 .. Len(read) : \A event \in Waiting' : read[i].nr < event.nr
    BY <1>0, <1>1, <2>3 DEF GivenInv
  <2> QED  BY <2>1, <2>2, <2>4 DEF GivenInv
<1>3. TypedInv'
  <2>1. Waiting' \subseteq typed'
    BY <1>1 DEF TypedInv
  <2>2. ASSUME NEW event \in typed'
        PROVE  \/ event \in Waiting'
               \/ \E i \in 1 .. Len(read') : read'[i] = event
               \/ event.nr - 1 \in torn'
    BY <1>1 DEF TypedInv
  <2> QED  BY <2>1, <2>2 DEF TypedInv
<1> QED  BY <1>2, <1>3

LEMMA NothingPushed ==
  ASSUME RingBound, HistoryInv, UNCHANGED <<ring, typed, read>>, keys' \in Nat, keys <= keys',
         torn \subseteq torn', stopped' \/ LastInv'
  PROVE  HistoryInv'
<1>1. Waiting' = Waiting
  BY DEF Waiting, Pressed
<1>2. QueueInv'
  BY DEF HistoryInv, QueueInv
<1>3. GivenInv'
  <2>1. \A event \in typed : event.nr \in 1 .. keys'
    BY DEF RingBound, HistoryInv, GivenInv
  <2> QED  BY <1>1, <2>1 DEF HistoryInv, GivenInv
<1>4. TypedInv'
  BY <1>1 DEF HistoryInv, TypedInv
<1> QED  BY <1>2, <1>3, <1>4 DEF HistoryInv

\* An event is pushed, or the ring is full and the window server stops.
LEMMA PushHistory ==
  ASSUME Bounds, Bounds', HistoryInv, ~stopped, NEW e \in Events, push(e), read' = read,
         keys <= keys', torn \subseteq torn', e.nr = keys',
         \/ e.type = "key" /\ ~due /\ due' /\ keys' = keys + 1
         \/ e.type = "syn" /\ due /\ ~due' /\ keys' = keys
         \/ e.type = "syn" /\ ~due /\ ~due' /\ keys' = keys + 1 /\ e.nr \in torn'
  PROVE  HistoryInv'
<1>0. /\ RingBound /\ RingBound' /\ QueueInv /\ LastInv /\ GivenInv /\ TypedInv
      /\ keys \in Nat /\ keys' \in Nat /\ ring \in Seq(Events)
      /\ \A i \in 1 .. Len(ring) : ring[i].nr \in 1 .. keys
  BY DEF Bounds, RingBound, HistoryInv
<1>1. CASE Len(ring) = RING
  BY <1>0, <1>1, NothingPushed DEF push
<1>2. CASE Len(ring) # RING
  <2>1. /\ ring' = Append(ring, e) /\ stopped' = stopped
        /\ typed' = IF Pressed(e) THEN typed \cup {e} ELSE typed
    BY <1>2 DEF push
  <2>2. PICK last : last = ring[Len(ring)]
    OBVIOUS
  <2>3. ring # <<>> => last \in Events /\ Len(ring) \in 1 .. Len(ring)
    BY <1>0, <2>2
  <2>4. last \in Events => last.type \in {"key", "syn"}
    BY EventKinds
  <2>5. QueueInv'
    <3>1. \A i \in 1 .. Len(ring) : ring[i].nr <= e.nr /\ (e.type = "key" => ring[i].nr < e.nr)
      <4> SUFFICES ASSUME NEW i \in 1 .. Len(ring)
                   PROVE  ring[i].nr <= e.nr /\ (e.type = "key" => ring[i].nr < e.nr)
        OBVIOUS
      <4>1. ring[i].nr \in 1 .. keys
        BY <1>0
      <4> QED  BY <1>0, <4>1
    <3>2. e.type = "key" /\ ring # <<>> => last.nr = e.nr - 1 /\ (last.type = "key" => last.nr \in torn')
      BY <1>0, <2>2, <2>3, <2>4 DEF LastInv
    <3>3. e.type = "syn" => e.nr \in torn' \/ (ring # <<>> /\ last.type = "key")
      BY <1>0, <2>2 DEF LastInv
    <3> QED  BY <1>0, <2>1, <2>2, <3>1, <3>2, <3>3, AppendOrdered
  <2>6. GivenInv' /\ TypedInv'
    <3>1. (Pressed(e) => e.type = "key") /\ e.nr \in Nat
      BY EventKinds
    <3>2. (Pressed(e) => e.nr = keys + 1) /\ e.nr \in 1 .. keys'
      BY <1>0, <3>1, Sizes DEF RingBound
    <3> QED  BY <1>0, <2>1, <3>2, AppendWaits
  <2>7. LastInv'
    <3>1. ring' # <<>> /\ ring'[Len(ring')] = e
      BY <1>0, <2>1
    <3> QED  BY <3>1 DEF LastInv
  <2> QED  BY <2>5, <2>6, <2>7 DEF HistoryInv
<1> QED  BY <1>1, <1>2

LEMMA WindowServerHistory ==
  ASSUME Bounds, Bounds', HistoryInv, WindowServer
  PROVE  HistoryInv'
<1>0. keys \in Nat /\ keys + 1 \in Nat
  BY DEF Bounds, RingBound
<1>1. ASSUME NEW code \in Keys, NEW value \in {0, 1}, PushKey(code, value) PROVE HistoryInv'
  <2>1. PICK e : e = KeyEvent(code, value, keys + 1)
    OBVIOUS
  <2>2. e \in Events /\ e.type = "key" /\ e.nr = keys + 1
    BY <1>0, <2>1 DEF Events, KeyEvent
  <2>3. /\ ~stopped /\ ~due /\ due' /\ keys' = keys + 1 /\ push(e) /\ read' = read /\ torn' = torn
        /\ keys <= keys' /\ e.nr = keys'
    BY <1>0, <1>1, <2>1, <2>2 DEF PushKey
  <2> QED  BY <2>2, <2>3, PushHistory
<1>2. CASE PushSyn
  <2>1. PICK e : e = SYN(keys)
    OBVIOUS
  <2>2. e \in Events /\ e.type = "syn" /\ e.nr = keys
    BY <1>0, <2>1 DEF Events, SYN
  <2>3. /\ ~stopped /\ due /\ ~due' /\ keys' = keys /\ push(e) /\ read' = read /\ torn' = torn
        /\ keys <= keys' /\ e.nr = keys'
    BY <1>0, <1>2, <2>1, <2>2 DEF PushSyn
  <2> QED  BY <2>2, <2>3, PushHistory
<1>3. CASE SynElsewhere
  <2>1. /\ ~stopped /\ due /\ ~due' /\ torn' = torn \cup {keys} /\ keys' = keys
        /\ UNCHANGED <<ring, typed, read>>
    BY <1>3 DEF SynElsewhere
  <2>2. LastInv'
    BY <2>1 DEF HistoryInv, LastInv
  <2> QED  BY <1>0, <2>1, <2>2, NothingPushed DEF Bounds
<1>4. CASE StraySyn
  <2>1. PICK e : e = SYN(keys + 1)
    OBVIOUS
  <2>2. e \in Events /\ e.type = "syn" /\ e.nr = keys + 1
    BY <1>0, <2>1 DEF Events, SYN
  <2>3. /\ ~stopped /\ ~due /\ due' = due /\ keys' = keys + 1 /\ push(e) /\ read' = read
        /\ torn' = torn \cup {keys + 1} /\ keys <= keys' /\ e.nr = keys'
    BY <1>0, <1>4, <2>1, <2>2 DEF StraySyn
  <2> QED  BY <2>2, <2>3, PushHistory
<1> QED  BY <1>1, <1>2, <1>3, <1>4 DEF WindowServer

\* The first event is read and the others of what getchar() takes are lost, of
\* which only the second can be behind an end.
LEMMA GetcharHistory ==
  ASSUME Bounds, HistoryInv, getchar
  PROVE  HistoryInv'
<1>0. /\ ring \in Seq(Events) /\ ring # <<>> /\ keys \in Nat
      /\ QueueInv /\ GivenInv /\ TypedInv /\ UNCHANGED <<keys, due, typed, stopped>>
  BY DEF Bounds, RingBound, HistoryInv, getchar
<1>1. PICK n, m, first, last :
        n = SequenceLength(ring) /\ m = Len(ring) /\ first = ring[1] /\ last = ring[n]
  OBVIOUS
<1>2. /\ m \in Nat /\ n \in 1 .. m /\ first \in Events /\ last \in Events
      /\ \A i \in 2 .. m : i < n => ring[i].type # "syn"
      /\ n < m => n >= 2 /\ ring[n].type = "syn"
  BY <1>0, <1>1, ReadsSequence
<1>3. /\ ring' = SubSeq(ring, n + 1, Len(ring))
      /\ torn' = IF last.type = "key" THEN torn \cup {last.nr} ELSE torn
      /\ read' = IF Pressed(first) THEN Append(read, first) ELSE read
  <2>1. Head(ring) = first
    BY <1>0, <1>1
  <2>2. /\ ring' = SubSeq(ring, n + 1, Len(ring))
        /\ torn' = IF last.type = "key" THEN torn \cup {last.nr} ELSE torn
    BY <1>1 DEF getchar
  <2>3. IF Pressed(first) THEN read' = Append(read, first) ELSE read' = read
    BY <2>1, Zenon DEF getchar
  <2> QED  BY <2>2, <2>3
<1>4. /\ ring' \in Seq(Events) /\ Len(ring') = m - n
      /\ \A i \in 1 .. m - n : ring'[i] = ring[n + i] /\ n + i \in 1 .. m
  <2>1. PICK s, t : s = ring /\ t = ring'
    OBVIOUS
  <2>2. s \in Seq(Events) /\ m = Len(s) /\ n \in 1 .. Len(s) /\ t = SubSeq(s, n + 1, Len(s))
    BY <1>0, <1>1, <1>2, <1>3, <2>1, Zenon
  <2>3. /\ t \in Seq(Events) /\ Len(t) = Len(s) - n
        /\ \A i \in 1 .. Len(t) : t[i] = s[n + i] /\ n + i \in 1 .. Len(s)
    BY <2>2, Taken
  <2>4. /\ t \in Seq(Events) /\ Len(t) = m - n
        /\ \A i \in 1 .. m - n : t[i] = s[n + i] /\ n + i \in 1 .. m
    BY <2>2, <2>3
  <2> QED  BY <2>1, <2>4
<1>5. \A i \in 1 .. m : ring[i] \in Events
  BY <1>0, <1>1
<1>6. \A i, j \in 1 .. m : i < j =>
        /\ ring[i].nr <= ring[j].nr
        /\ ring[j].type = "key" => ring[i].nr < ring[j].nr
  BY <1>0, <1>1 DEF QueueInv
<1>7. \A i, j \in 1 .. m : j = i + 1 =>
        /\ ring[j].type = "key" =>
             ring[i].nr = ring[j].nr - 1 /\ (ring[i].type = "key" => ring[i].nr \in torn)
        /\ ring[i].type = "syn" /\ ring[j].type = "syn" => ring[j].nr \in torn
  BY <1>0, <1>1 DEF QueueInv
<1>8. first.type = "syn" => first.nr \in torn
  BY <1>0, <1>1 DEF QueueInv
<1>9. torn \subseteq torn'
  BY <1>3
<1>10. QueueInv'
  <2>1. ASSUME NEW i \in 1 .. m - n, NEW j \in 1 .. m - n, i < j
        PROVE  /\ ring'[i].nr <= ring'[j].nr
               /\ ring'[j].type = "key" => ring'[i].nr < ring'[j].nr
    <3>1. n + i < n + j
      BY <1>2, <2>1
    <3> QED  BY <1>4, <1>6, <3>1
  <2>2. ASSUME NEW i \in 1 .. m - n, NEW j \in 1 .. m - n, j = i + 1
        PROVE  /\ ring'[j].type = "key" =>
                    ring'[i].nr = ring'[j].nr - 1 /\ (ring'[i].type = "key" => ring'[i].nr \in torn')
               /\ ring'[i].type = "syn" /\ ring'[j].type = "syn" => ring'[j].nr \in torn'
    <3>1. n + j = (n + i) + 1
      BY <1>2, <2>2
    <3> QED  BY <1>4, <1>7, <1>9, <3>1
  <2>3. ring' # <<>> /\ ring'[1].type = "syn" => ring'[1].nr \in torn'
    <3> SUFFICES ASSUME ring' # <<>>, ring'[1].type = "syn" PROVE ring'[1].nr \in torn'
      OBVIOUS
    <3>1. n < m /\ 1 \in 1 .. m - n
      BY <1>2, <1>4
    <3>2. ring[n].type = "syn" /\ n \in 1 .. m /\ ring'[1] = ring[n + 1] /\ n + 1 \in 1 .. m
      BY <1>2, <1>4, <3>1
    <3> QED  BY <1>7, <1>9, <3>2
  <2> QED  BY <1>4, <2>1, <2>2, <2>3 DEF QueueInv
<1>11. ~stopped' => LastInv'
  <2> SUFFICES ASSUME ~stopped' PROVE LastInv'
    OBVIOUS
  <2>1. LastInv /\ ring[m] = ring[Len(ring)]
    BY <1>0, <1>1 DEF HistoryInv
  <2>2. CASE n = m
    <3>1. ring' = <<>> /\ last = ring[m]
      BY <1>1, <1>4, <2>2
    <3> QED  BY <1>0, <1>3, <2>1, <3>1 DEF LastInv
  <2>3. CASE n # m
    <3>1. n < m /\ m - n \in 1 .. m - n /\ n + (m - n) = m
      BY <1>2, <2>3
    <3>2. ring' # <<>> /\ ring'[Len(ring')] = ring[m]
      BY <1>4, <3>1
    <3> QED  BY <1>0, <1>9, <2>1, <3>2 DEF LastInv
  <2> QED  BY <2>2, <2>3
<1>12. \A i \in 1 .. m : Pressed(ring[i]) => ring[i].type = "key" /\ ring[i] \in Waiting
  BY <1>1, <1>5, EventKinds DEF Waiting
<1>13. /\ Waiting' \subseteq Waiting
       /\ \A event \in Waiting' : \E i \in 1 .. m : i > n /\ event = ring[i] /\ Pressed(ring[i])
       /\ \A i \in 1 .. m : i > n /\ Pressed(ring[i]) => ring[i] \in Waiting'
  <2>1. Waiting' = {ring'[i] : i \in {k \in 1 .. m - n : Pressed(ring'[k])}}
    BY <1>4 DEF Waiting, Pressed
  <2>2. \A i \in 1 .. m - n : n + i > n
    BY <1>2
  <2>3. \A event \in Waiting' : \E i \in 1 .. m : i > n /\ event = ring[i] /\ Pressed(ring[i])
    BY <1>4, <2>1, <2>2
  <2>4. \A i \in 1 .. m : i > n /\ Pressed(ring[i]) => ring[i] \in Waiting'
    <3> SUFFICES ASSUME NEW i \in 1 .. m, i > n, Pressed(ring[i]) PROVE ring[i] \in Waiting'
      OBVIOUS
    <3>1. i - n \in 1 .. m - n /\ n + (i - n) = i
      BY <1>2
    <3>2. ring'[i - n] = ring[i]
      BY <1>4, <3>1
    <3> QED  BY <2>1, <3>1, <3>2
  <2> QED  BY <1>12, <2>3, <2>4
<1>14. GivenInv'
  <2>1. \A event \in Waiting' : first.nr < event.nr
    <3> SUFFICES ASSUME NEW event \in Waiting' PROVE first.nr < event.nr
      OBVIOUS
    <3>1. PICK i \in 1 .. m : i > n /\ event = ring[i] /\ Pressed(ring[i])
      BY <1>13
    <3>2. 1 \in 1 .. m /\ 1 < i /\ ring[i].type = "key"
      BY <1>2, <1>12, <3>1
    <3> QED  BY <1>1, <1>6, <3>1, <3>2
  <2>2. CASE Pressed(first)
    <3>1. first \in Waiting /\ first \in typed
      <4>1. 1 \in 1 .. m
        BY <1>2
      <4> QED  BY <1>0, <1>1, <1>12, <2>2, <4>1 DEF TypedInv
    <3>2. \A i \in 1 .. Len(read) : read[i].nr < first.nr
      BY <1>0, <3>1 DEF GivenInv
    <3>3. /\ read' \in Seq(typed) /\ Len(read') = Len(read) + 1 /\ Len(read) \in Nat
          /\ \A i \in 1 .. Len(read) : read'[i] = read[i]
          /\ read'[Len(read) + 1] = first
      BY <1>0, <1>3, <2>2, <3>1 DEF GivenInv
    <3>4. \A i \in 1 .. Len(read') : i \in 1 .. Len(read) \/ i = Len(read) + 1
      BY <3>3
    <3>5. ASSUME NEW i \in 1 .. Len(read'), NEW j \in 1 .. Len(read'), i < j
          PROVE  read'[i].nr < read'[j].nr
      <4>1. i \in 1 .. Len(read)
        BY <3>3, <3>5
      <4>2. CASE j \in 1 .. Len(read)
        BY <1>0, <3>3, <3>5, <4>1, <4>2 DEF GivenInv
      <4>3. CASE j = Len(read) + 1
        BY <3>2, <3>3, <4>1, <4>3
      <4> QED  BY <3>4, <4>2, <4>3
    <3>6. ASSUME NEW i \in 1 .. Len(read'), NEW event \in Waiting'
          PROVE  read'[i].nr < event.nr
      <4>1. CASE i \in 1 .. Len(read)
        BY <1>0, <1>13, <3>3, <4>1 DEF GivenInv
      <4>2. CASE i = Len(read) + 1
        BY <2>1, <3>3, <4>2
      <4> QED  BY <3>4, <4>1, <4>2
    <3> QED  BY <1>0, <3>3, <3>5, <3>6 DEF GivenInv
  <2>3. CASE ~Pressed(first)
    BY <1>0, <1>3, <1>13, <2>3 DEF GivenInv
  <2> QED  BY <2>2, <2>3
<1>15. TypedInv'
  <2>1. Waiting' \subseteq typed'
    BY <1>0, <1>13 DEF TypedInv
  <2>2. ASSUME NEW event \in typed'
        PROVE  \/ event \in Waiting'
               \/ \E i \in 1 .. Len(read') : read'[i] = event
               \/ event.nr - 1 \in torn'
    <3>1. CASE event \in Waiting
      <4>1. PICK j \in 1 .. m : event = ring[j] /\ Pressed(ring[j])
        BY <1>1, <3>1 DEF Waiting
      <4>2. CASE j > n
        BY <1>13, <4>1, <4>2
      <4>3. CASE j = 1
        <5>1. read' = Append(read, event) /\ Len(read) \in Nat
          BY <1>0, <1>1, <1>3, <4>1, <4>3 DEF GivenInv
        <5>2. read'[Len(read) + 1] = event /\ Len(read) + 1 \in 1 .. Len(read')
          BY <1>0, <5>1 DEF GivenInv
        <5> QED  BY <5>2
      <4>4. CASE j > 1 /\ ~(j > n)
        <5>1. j - 1 \in 1 .. m /\ j = (j - 1) + 1 /\ ring[j].type = "key"
          BY <1>2, <1>12, <4>1, <4>4
        <5>2. ring[j - 1].nr = event.nr - 1 /\ (ring[j - 1].type = "key" => ring[j - 1].nr \in torn)
          BY <1>7, <4>1, <5>1
        <5>3. ring[j - 1].type \in {"key", "syn"}
          BY <1>5, <5>1, EventKinds
        <5>4. ring[j - 1].type = "syn" => ring[j - 1].nr \in torn
          <6>1. CASE j = 2
            BY <1>1, <1>8, <6>1
          <6>2. CASE j # 2
            <7>1. j - 1 \in 2 .. m /\ j - 1 < n
              BY <1>2, <4>4, <6>2
            <7> QED  BY <1>2, <7>1
          <6> QED  BY <6>1, <6>2
        <5> QED  BY <1>9, <5>2, <5>3, <5>4
      <4> QED  BY <1>2, <4>2, <4>3, <4>4
    <3>2. CASE \E i \in 1 .. Len(read) : read[i] = event
      <4>1. PICK i \in 1 .. Len(read) : read[i] = event
        BY <3>2
      <4>2. read'[i] = event /\ i \in 1 .. Len(read')
        BY <1>0, <1>3, <4>1 DEF GivenInv
      <4> QED  BY <4>2
    <3>3. CASE event.nr - 1 \in torn
      BY <1>9, <3>3
    <3> QED  BY <1>0, <3>1, <3>2, <3>3 DEF TypedInv
  <2> QED  BY <2>1, <2>2 DEF TypedInv
<1> QED  BY <1>10, <1>11, <1>14, <1>15 DEF HistoryInv

LEMMA HistoryKept ==
  ASSUME Bounds, Bounds', HistoryInv, [Next]_vars
  PROVE  HistoryInv'
<1>1. CASE UNCHANGED <<input, history, stopped>>
  BY <1>1 DEF HistoryInv, QueueInv, LastInv, GivenInv, TypedInv, Waiting, Pressed, input, history
<1>2. CASE Prompt \/ Command \/ Ask \/ putchar \/ UNCHANGED vars
  BY <1>1, <1>2 DEF Prompt, Command, Ask, putchar, vars
<1> QED  BY <1>2, GetcharHistory, WindowServerHistory DEF Next, Programs

\* The shell gets what was typed in the order of the keys, each at most once,
\* and all of it but for the keys right behind a sequence that was torn in two.
THEOREM CharactersInOrder == Spec => []KeysInOrder
<1>1. Init => HistoryInv
  <2> SUFFICES ASSUME Init PROVE HistoryInv
    OBVIOUS
  <2>1. QueueInv /\ LastInv /\ GivenInv
    BY DEF Init, QueueInv, LastInv, GivenInv, Waiting
  <2>2. TypedInv
    BY DEF Init, TypedInv, Waiting
  <2> QED  BY <2>1, <2>2 DEF HistoryInv
<1>2. ConsoleInv /\ ConsoleInv' /\ HistoryInv /\ [Next]_vars => HistoryInv'
  BY HistoryKept DEF ConsoleInv
<1>3. HistoryInv => KeysInOrder
  <2> SUFFICES ASSUME HistoryInv PROVE KeysInOrder
    OBVIOUS
  <2>1. \A i \in 1 .. Len(read) : read[i] \in typed
    BY DEF HistoryInv, GivenInv
  <2> QED  BY <2>1 DEF HistoryInv, QueueInv, GivenInv, TypedInv, KeysInOrder
<1> QED  BY <1>1, <1>2, <1>3, ConsoleAlways, PTL DEF Spec

-----------------------------------------------------------------------------
(* The file system: its allocation table.                                  *)

Types == {"Fat12", "Fat16", "Fat32"}

\* A byte is two digits, and what is left of two bytes without one of them.
LEMMA ByteDigits ==
  ASSUME NEW b \in 0 .. 255
  PROVE  /\ b % 16 \in 0 .. 15 /\ (b \div 16) % 16 \in 0 .. 15
         /\ b = (b % 16) + 16 * ((b \div 16) % 16)
         /\ b \div 1 = b /\ b \div 16 = (b \div 16) % 16
OBVIOUS

LEMMA TwoBytes ==
  ASSUME NEW x \in 0 .. 255, NEW y \in 0 .. 255
  PROVE  /\ (x + 256 * y) % 4096 = x + 256 * (y % 16)
         /\ (x + 256 * y) \div 16 = (x \div 16) + 16 * y
OBVIOUS

\* The digits of byte j, counted from 0.
LEMMA DigitsAre ==
  ASSUME NEW table \in Seq(0 .. 255), NEW j \in Nat, j < Len(table)
  PROVE  /\ table[j + 1] \in 0 .. 255
         /\ Digit(table, 2 * j) = table[j + 1] % 16
         /\ Digit(table, 2 * j + 1) = table[j + 1] \div 16
         /\ table[j + 1] = (table[j + 1] % 16) + 16 * (table[j + 1] \div 16)
<1>1. (2 * j) \div 2 = j /\ (2 * j) % 2 = 0 /\ (2 * j + 1) \div 2 = j /\ (2 * j + 1) % 2 = 1
  OBVIOUS
<1>2. /\ Digit(table, 2 * j) = (table[j + 1] \div 1) % 16
      /\ Digit(table, 2 * j + 1) = (table[j + 1] \div 16) % 16
  BY <1>1 DEF Digit
<1>3. j + 1 \in 1 .. Len(table)
  OBVIOUS
<1>4. PICK b \in 0 .. 255 : b = table[j + 1]
  BY <1>3, ElementOfSeq
<1> QED  BY <1>2, <1>4, ByteDigits

\* The digits of two bytes, and what they make.
LEMMA DigitsOfTwo ==
  ASSUME NEW table \in Seq(0 .. 255), NEW a \in Nat, a + 2 <= Len(table)
  PROVE  /\ Digit(table, 2 * a + 0) \in Nat /\ Digit(table, 2 * a + 1) \in Nat
         /\ Digit(table, 2 * a + 2) \in Nat /\ Digit(table, 2 * a + 3) \in Nat
         /\ table[a + 1] \in 0 .. 255 /\ table[a + 2] \in 0 .. 255
         /\ Digit(table, 2 * a + 0) + 16 * Digit(table, 2 * a + 1) + 256 * Digit(table, 2 * a + 2)
              = (table[a + 1] + 256 * table[a + 2]) % 4096
         /\ Digit(table, 2 * a + 1) + 16 * Digit(table, 2 * a + 2) + 256 * Digit(table, 2 * a + 3)
              = (table[a + 1] + 256 * table[a + 2]) \div 16
         /\ Digit(table, 2 * a + 0) + 16 * Digit(table, 2 * a + 1) + 256 * Digit(table, 2 * a + 2)
              + 4096 * Digit(table, 2 * a + 3) = table[a + 1] + 256 * table[a + 2]
<1>1. PICK b \in Nat : b = a + 1
  OBVIOUS
<1>a. a < Len(table) /\ b < Len(table)
  BY <1>1
<1>b. /\ table[a + 1] \in 0 .. 255 /\ table[b + 1] \in 0 .. 255
      /\ Digit(table, 2 * a) = table[a + 1] % 16 /\ Digit(table, 2 * a + 1) = table[a + 1] \div 16
      /\ Digit(table, 2 * b) = table[b + 1] % 16 /\ Digit(table, 2 * b + 1) = table[b + 1] \div 16
  <2>1. /\ table[a + 1] \in 0 .. 255
        /\ Digit(table, 2 * a) = table[a + 1] % 16 /\ Digit(table, 2 * a + 1) = table[a + 1] \div 16
    BY <1>a, DigitsAre, Zenon
  <2>2. /\ table[b + 1] \in 0 .. 255
        /\ Digit(table, 2 * b) = table[b + 1] % 16 /\ Digit(table, 2 * b + 1) = table[b + 1] \div 16
    BY <1>a, DigitsAre, Zenon
  <2> QED  BY <2>1, <2>2
<1>2. PICK x, y : x = table[a + 1] /\ y = table[b + 1]
  OBVIOUS
<1>3. /\ x \in 0 .. 255 /\ y \in 0 .. 255
      /\ Digit(table, 2 * a) = x % 16 /\ Digit(table, 2 * a + 1) = x \div 16
      /\ Digit(table, 2 * b) = y % 16 /\ Digit(table, 2 * b + 1) = y \div 16
  BY <1>b, <1>2, Zenon
<1>c. x \in 0 .. 255 /\ y \in 0 .. 255
  BY <1>3
<1>4. 2 * b = 2 * a + 2 /\ 2 * b + 1 = 2 * a + 3 /\ b + 1 = a + 2 /\ 2 * a + 0 = 2 * a
  BY <1>1
<1>5. PICK p, q, r, s \in Nat : p = x % 16 /\ q = x \div 16 /\ r = y % 16 /\ s = y \div 16
  BY <1>c
<1>6. x = p + 16 * q /\ y = r + 16 * s
  BY <1>c, <1>5
<1>7. (x + 256 * y) % 4096 = x + 256 * r /\ (x + 256 * y) \div 16 = q + 16 * y
  <2>1. /\ (x + 256 * y) % 4096 = x + 256 * (y % 16)
        /\ (x + 256 * y) \div 16 = (x \div 16) + 16 * y
    BY <1>c, TwoBytes
  <2> QED  BY <1>5, <2>1
<1>8. /\ Digit(table, 2 * a + 0) = p /\ Digit(table, 2 * a + 1) = q
      /\ Digit(table, 2 * a + 2) = r /\ Digit(table, 2 * a + 3) = s
  BY <1>3, <1>4, <1>5, Zenon
<1>9. table[a + 1] = x /\ table[a + 2] = y
  BY <1>2, <1>4, Zenon
<1>10. /\ p + 16 * q + 256 * r = (x + 256 * y) % 4096
       /\ q + 16 * r + 256 * s = (x + 256 * y) \div 16
       /\ p + 16 * q + 256 * r + 4096 * s = x + 256 * y
  BY <1>c, <1>6, <1>7
<1>11. /\ Digit(table, 2 * a + 0) \in Nat /\ Digit(table, 2 * a + 1) \in Nat
       /\ Digit(table, 2 * a + 2) \in Nat /\ Digit(table, 2 * a + 3) \in Nat
  BY <1>5, <1>8
<1>12. /\ Digit(table, 2 * a + 0) + 16 * Digit(table, 2 * a + 1) + 256 * Digit(table, 2 * a + 2) = p + 16 * q + 256 * r
       /\ Digit(table, 2 * a + 1) + 16 * Digit(table, 2 * a + 2) + 256 * Digit(table, 2 * a + 3) = q + 16 * r + 256 * s
       /\ Digit(table, 2 * a + 0) + 16 * Digit(table, 2 * a + 1) + 256 * Digit(table, 2 * a + 2)
              + 4096 * Digit(table, 2 * a + 3) = p + 16 * q + 256 * r + 4096 * s
  BY <1>5, <1>8
<1>13. table[a + 1] + 256 * table[a + 2] = x + 256 * y
  BY <1>9
<1>14. table[a + 1] \in 0 .. 255 /\ table[a + 2] \in 0 .. 255
  BY <1>c, <1>9
<1>15. /\ (table[a + 1] + 256 * table[a + 2]) % 4096 = (x + 256 * y) % 4096
       /\ (table[a + 1] + 256 * table[a + 2]) \div 16 = (x + 256 * y) \div 16
  BY <1>13
<1>16. Digit(table, 2 * a + 0) + 16 * Digit(table, 2 * a + 1) + 256 * Digit(table, 2 * a + 2)
         = (table[a + 1] + 256 * table[a + 2]) % 4096
  BY <1>10, <1>12, <1>15
<1>17. Digit(table, 2 * a + 1) + 16 * Digit(table, 2 * a + 2) + 256 * Digit(table, 2 * a + 3)
         = (table[a + 1] + 256 * table[a + 2]) \div 16
  BY <1>10, <1>12, <1>15
<1>18. Digit(table, 2 * a + 0) + 16 * Digit(table, 2 * a + 1) + 256 * Digit(table, 2 * a + 2)
          + 4096 * Digit(table, 2 * a + 3) = table[a + 1] + 256 * table[a + 2]
  BY <1>10, <1>12, <1>13
<1> QED  BY <1>11, <1>14, <1>16, <1>17, <1>18

\* Every place of the table has a digit.
LEMMA DigitType ==
  ASSUME NEW table \in Seq(0 .. 255), NEW i \in Nat, i < 2 * Len(table)
  PROVE  Digit(table, i) \in 0 .. 15
<1>1. PICK j, b : j = i \div 2 /\ b = i % 2
  OBVIOUS
<1>2. j \in Nat /\ b \in 0 .. 1 /\ i = 2 * j + b
  BY <1>1
<1>3. j < Len(table)
  BY <1>2
<1>4. PICK x : x = table[j + 1]
  OBVIOUS
<1>5. /\ x \in 0 .. 255 /\ Digit(table, 2 * j) = x % 16 /\ Digit(table, 2 * j + 1) = x \div 16
  BY <1>2, <1>3, <1>4, DigitsAre
<1>6. x \in 0 .. 255
  BY <1>5
<1>7. x % 16 \in 0 .. 15 /\ x \div 16 \in 0 .. 15
  BY <1>6
<1>8. i = 2 * j \/ i = 2 * j + 1
  BY <1>2
<1>9. Digit(table, i) = x % 16 \/ Digit(table, i) = x \div 16
  BY <1>5, <1>8, Zenon
<1> QED  BY <1>7, <1>9

\* What the program computes of a cluster's entry is the number written there
\* in digits, and the bytes it takes are in the table.
LEMMA LinkIs ==
  ASSUME type \in Types, fat \in Seq(0 .. 255), NEW c \in Nat, Digits(type) * (c + 1) <= 2 * Len(fat)
  PROVE  /\ FatBytes(c).first + FatBytes(c).count <= Len(fat)
         /\ read_fat_entry(c) = Link(fat, type, c)
<1>0. PICK L \in Nat : L = Len(fat)
  OBVIOUS
<1>1. CASE type = "Fat12"
  <2>1. Digits(type) = 3 /\ FatBytes(c) = [first |-> c + c \div 2, count |-> 2]
    BY <1>1 DEF Digits, FatBytes
  <2>2. PICK m, b : m = c \div 2 /\ b = c % 2
    OBVIOUS
  <2>3. m \in Nat /\ b \in 0 .. 1 /\ c = 2 * m + b
    BY <2>2
  <2>4. PICK a \in Nat : a = c + m
    BY <2>3
  <2>5. a + 2 <= L
    BY <1>0, <2>1, <2>3, <2>4
  <2>5a. a + 2 <= Len(fat)
    BY <1>0, <2>5
  <2>6. FatBytes(c).first = a /\ FatBytes(c).count = 2
    BY <2>1, <2>2, <2>4
  <2>7. read_fat_entry(c) = IF c % 2 = 0 THEN (fat[a + 1] + 256 * fat[a + 2]) % 4096
                                        ELSE (fat[a + 1] + 256 * fat[a + 2]) \div 16
    BY <1>1, <2>6 DEF read_fat_entry
  <2>8. PICK e \in Nat : e = 3 * c
    OBVIOUS
  <2>9. Link(fat, type, c) = Digit(fat, e + 0) + 16 * Digit(fat, e + 1) + 256 * Digit(fat, e + 2)
    BY <1>1, <2>1, <2>8 DEF Link
  <2>10. CASE b = 0
    <3>1. e + 0 = 2 * a + 0 /\ e + 1 = 2 * a + 1 /\ e + 2 = 2 * a + 2
      BY <2>3, <2>4, <2>8, <2>10
    <3>2. read_fat_entry(c) = (fat[a + 1] + 256 * fat[a + 2]) % 4096
      BY <2>2, <2>7, <2>10
    <3>3. Digit(fat, 2 * a + 0) + 16 * Digit(fat, 2 * a + 1) + 256 * Digit(fat, 2 * a + 2)
            = (fat[a + 1] + 256 * fat[a + 2]) % 4096
      BY <2>5a, DigitsOfTwo
    <3>4. /\ Digit(fat, 2 * a + 0) \in 0 .. 15 /\ Digit(fat, 2 * a + 1) \in 0 .. 15
          /\ Digit(fat, 2 * a + 2) \in 0 .. 15 /\ Digit(fat, 2 * a + 3) \in 0 .. 15
      <4>1. /\ 2 * a + 0 \in Nat /\ 2 * a + 1 \in Nat /\ 2 * a + 2 \in Nat /\ 2 * a + 3 \in Nat
            /\ 2 * a + 0 < 2 * Len(fat) /\ 2 * a + 1 < 2 * Len(fat)
            /\ 2 * a + 2 < 2 * Len(fat) /\ 2 * a + 3 < 2 * Len(fat)
        BY <2>5a
      <4> QED  BY <4>1, DigitType
    <3>6. Digit(fat, e + 0) = Digit(fat, 2 * a + 0) /\ Digit(fat, e + 1) = Digit(fat, 2 * a + 1)
          /\ Digit(fat, e + 2) = Digit(fat, 2 * a + 2)
      BY <3>1
    <3>5. read_fat_entry(c) = Link(fat, type, c)
      BY <2>9, <3>2, <3>3, <3>4, <3>6
    <3> QED  BY <1>0, <2>5, <2>6, <3>5
  <2>11. CASE b = 1
    <3>1. e + 0 = 2 * a + 1 /\ e + 1 = 2 * a + 2 /\ e + 2 = 2 * a + 3
      BY <2>3, <2>4, <2>8, <2>11
    <3>2. read_fat_entry(c) = (fat[a + 1] + 256 * fat[a + 2]) \div 16
      BY <2>2, <2>7, <2>11
    <3>3. Digit(fat, 2 * a + 1) + 16 * Digit(fat, 2 * a + 2) + 256 * Digit(fat, 2 * a + 3)
            = (fat[a + 1] + 256 * fat[a + 2]) \div 16
      BY <2>5a, DigitsOfTwo
    <3>4. /\ Digit(fat, 2 * a + 0) \in 0 .. 15 /\ Digit(fat, 2 * a + 1) \in 0 .. 15
          /\ Digit(fat, 2 * a + 2) \in 0 .. 15 /\ Digit(fat, 2 * a + 3) \in 0 .. 15
      <4>1. /\ 2 * a + 0 \in Nat /\ 2 * a + 1 \in Nat /\ 2 * a + 2 \in Nat /\ 2 * a + 3 \in Nat
            /\ 2 * a + 0 < 2 * Len(fat) /\ 2 * a + 1 < 2 * Len(fat)
            /\ 2 * a + 2 < 2 * Len(fat) /\ 2 * a + 3 < 2 * Len(fat)
        BY <2>5a
      <4> QED  BY <4>1, DigitType
    <3>6. Digit(fat, e + 0) = Digit(fat, 2 * a + 1) /\ Digit(fat, e + 1) = Digit(fat, 2 * a + 2)
          /\ Digit(fat, e + 2) = Digit(fat, 2 * a + 3)
      BY <3>1
    <3>5. read_fat_entry(c) = Link(fat, type, c)
      BY <2>9, <3>2, <3>3, <3>4, <3>6
    <3> QED  BY <1>0, <2>5, <2>6, <3>5
  <2> QED  BY <2>3, <2>10, <2>11
<1>2. CASE type = "Fat16"
  <2>1. Digits(type) = 4 /\ FatBytes(c) = [first |-> 2 * c, count |-> 2]
    BY <1>2 DEF Digits, FatBytes
  <2>2. PICK a, e \in Nat : a = 2 * c /\ e = 4 * c
    OBVIOUS
  <2>3. a + 2 <= L /\ FatBytes(c).first = a /\ FatBytes(c).count = 2
    BY <1>0, <2>1, <2>2
  <2>3a. a + 2 <= Len(fat)
    BY <1>0, <2>3
  <2>4. read_fat_entry(c) = fat[a + 1] + 256 * fat[a + 2]
    BY <1>2, <2>3 DEF read_fat_entry
  <2>5. Link(fat, type, c) = Digit(fat, e + 0) + 16 * Digit(fat, e + 1) + 256 * Digit(fat, e + 2)
                             + 4096 * Digit(fat, e + 3)
    BY <1>2, <2>1, <2>2 DEF Link
  <2>6. e = 2 * a
    BY <2>2
  <2>7. Digit(fat, 2 * a + 0) + 16 * Digit(fat, 2 * a + 1) + 256 * Digit(fat, 2 * a + 2)
          + 4096 * Digit(fat, 2 * a + 3) = fat[a + 1] + 256 * fat[a + 2]
    BY <2>3a, DigitsOfTwo
  <2>8. read_fat_entry(c) = Link(fat, type, c)
    <3>1. /\ Digit(fat, 2 * a + 0) \in 0 .. 15 /\ Digit(fat, 2 * a + 1) \in 0 .. 15
          /\ Digit(fat, 2 * a + 2) \in 0 .. 15 /\ Digit(fat, 2 * a + 3) \in 0 .. 15
      <4>1. /\ 2 * a + 0 \in Nat /\ 2 * a + 1 \in Nat /\ 2 * a + 2 \in Nat /\ 2 * a + 3 \in Nat
            /\ 2 * a + 0 < 2 * Len(fat) /\ 2 * a + 1 < 2 * Len(fat)
            /\ 2 * a + 2 < 2 * Len(fat) /\ 2 * a + 3 < 2 * Len(fat)
        BY <2>3a
      <4> QED  BY <4>1, DigitType
    <3>2. /\ Digit(fat, e + 0) = Digit(fat, 2 * a + 0) /\ Digit(fat, e + 1) = Digit(fat, 2 * a + 1)
          /\ Digit(fat, e + 2) = Digit(fat, 2 * a + 2) /\ Digit(fat, e + 3) = Digit(fat, 2 * a + 3)
      BY <2>6
    <3> QED  BY <2>4, <2>5, <2>7, <3>1, <3>2
  <2> QED  BY <1>0, <2>3, <2>8
<1>3. CASE type = "Fat32"
  <2>1. Digits(type) = 8 /\ FatBytes(c) = [first |-> 4 * c, count |-> 4]
    BY <1>3 DEF Digits, FatBytes
  <2>2. PICK a, b, e \in Nat : a = 4 * c /\ b = 4 * c + 2 /\ e = 8 * c
    OBVIOUS
  <2>3. a + 4 <= L /\ FatBytes(c).first = a /\ FatBytes(c).count = 4
    BY <1>0, <2>1, <2>2
  <2>4. read_fat_entry(c) = fat[a + 1] + 256 * fat[a + 2] + 65536 * fat[a + 3]
                            + 16777216 * (fat[a + 4] % 16)
    BY <1>3, <2>3 DEF read_fat_entry
  <2>5. Link(fat, type, c) = Digit(fat, e + 0) + 16 * Digit(fat, e + 1) + 256 * Digit(fat, e + 2)
                             + 4096 * Digit(fat, e + 3) + 65536 * Digit(fat, e + 4)
                             + 1048576 * Digit(fat, e + 5) + 16777216 * Digit(fat, e + 6)
    BY <1>3, <2>1, <2>2 DEF Link
  <2>6. a + 2 <= Len(fat) /\ b + 2 <= Len(fat)
    BY <1>0, <2>2, <2>3
  <2>7. Digit(fat, 2 * a + 0) + 16 * Digit(fat, 2 * a + 1) + 256 * Digit(fat, 2 * a + 2)
          + 4096 * Digit(fat, 2 * a + 3) = fat[a + 1] + 256 * fat[a + 2]
    BY <2>6, DigitsOfTwo
  <2>8. PICK g \in Nat : g = b + 1
    OBVIOUS
  <2>9. b < Len(fat) /\ g < Len(fat)
    BY <2>6, <2>8
  <2>10. /\ fat[b + 1] \in 0 .. 255 /\ fat[g + 1] \in 0 .. 255
         /\ Digit(fat, 2 * b) = fat[b + 1] % 16 /\ Digit(fat, 2 * b + 1) = fat[b + 1] \div 16
         /\ Digit(fat, 2 * g) = fat[g + 1] % 16
         /\ fat[b + 1] = (fat[b + 1] % 16) + 16 * (fat[b + 1] \div 16)
    BY <2>9, DigitsAre
  <2>11. /\ e = 2 * a /\ e + 4 = 2 * b /\ e + 5 = 2 * b + 1 /\ e + 6 = 2 * g
         /\ a + 3 = b + 1 /\ a + 4 = g + 1
    BY <2>2, <2>8
  <2>12. PICK low, z, u, v, x : /\ low = fat[a + 1] + 256 * fat[a + 2] /\ z = fat[a + 3]
                                /\ u = z % 16 /\ v = z \div 16 /\ x = fat[a + 4] % 16
    OBVIOUS
  <2>13. /\ Digit(fat, e + 4) = u /\ Digit(fat, e + 5) = v /\ Digit(fat, e + 6) = x
         /\ z = u + 16 * v
    BY <2>10, <2>11, <2>12
  <2>14. low \in Int /\ z \in 0 .. 255 /\ fat[a + 4] \in 0 .. 255
    <3>1. a + 1 \in 1 .. Len(fat) /\ a + 2 \in 1 .. Len(fat)
      BY <2>6
    <3>2. fat[a + 1] \in 0 .. 255 /\ fat[a + 2] \in 0 .. 255
      BY <3>1, ElementOfSeq
    <3>3. fat[a + 1] + 256 * fat[a + 2] \in Int
      <4>1. PICK p, q \in 0 .. 255 : p = fat[a + 1] /\ q = fat[a + 2]
        BY <3>2
      <4>2. p + 256 * q \in Int
        OBVIOUS
      <4> QED  BY <4>1, <4>2
    <3>4. low \in Int
      BY <2>12, <3>3
    <3>5. fat[a + 3] \in 0 .. 255 /\ fat[a + 4] \in 0 .. 255
      BY <2>10, <2>11
    <3>6. z = fat[a + 3]
      BY <2>12, Zenon
    <3>7. z \in 0 .. 255
      BY <3>5, <3>6, Zenon
    <3> QED  BY <3>4, <3>5, <3>7, Zenon
  <2>15. u \in Int /\ v \in Int /\ x \in Int
    <3>1. z % 16 \in Int /\ z \div 16 \in Int /\ fat[a + 4] % 16 \in Int
      <4>1. PICK p, q \in 0 .. 255 : p = z /\ q = fat[a + 4]
        BY <2>14, Zenon
      <4>2. p % 16 \in Int /\ p \div 16 \in Int /\ q % 16 \in Int
        OBVIOUS
      <4> QED  BY <4>1, <4>2, Zenon
    <3>2. u = z % 16 /\ v = z \div 16 /\ x = fat[a + 4] % 16
      BY <2>12, Zenon
    <3> QED  BY <3>1, <3>2, Zenon
  <2>16. Link(fat, type, c) = low + 65536 * u + 1048576 * v + 16777216 * x
    <3>1. /\ Digit(fat, 2 * a + 0) \in 0 .. 15 /\ Digit(fat, 2 * a + 1) \in 0 .. 15
          /\ Digit(fat, 2 * a + 2) \in 0 .. 15 /\ Digit(fat, 2 * a + 3) \in 0 .. 15
      <4>1. /\ 2 * a + 0 \in Nat /\ 2 * a + 1 \in Nat /\ 2 * a + 2 \in Nat /\ 2 * a + 3 \in Nat
            /\ 2 * a + 0 < 2 * Len(fat) /\ 2 * a + 1 < 2 * Len(fat)
            /\ 2 * a + 2 < 2 * Len(fat) /\ 2 * a + 3 < 2 * Len(fat)
        BY <2>6
      <4> QED  BY <4>1, DigitType
    <3>3. /\ Digit(fat, e + 0) \in Nat /\ Digit(fat, e + 1) \in Nat
          /\ Digit(fat, e + 2) \in Nat /\ Digit(fat, e + 3) \in Nat
      <4>1. /\ e + 0 \in Nat /\ e + 1 \in Nat /\ e + 2 \in Nat /\ e + 3 \in Nat
            /\ e + 0 < 2 * Len(fat) /\ e + 1 < 2 * Len(fat) /\ e + 2 < 2 * Len(fat) /\ e + 3 < 2 * Len(fat)
        BY <2>6, <2>11
      <4>2. /\ Digit(fat, e + 0) \in 0 .. 15 /\ Digit(fat, e + 1) \in 0 .. 15
            /\ Digit(fat, e + 2) \in 0 .. 15 /\ Digit(fat, e + 3) \in 0 .. 15
        BY <4>1, DigitType
      <4>3. PICK p, q, r, s \in 0 .. 15 : /\ Digit(fat, e + 0) = p /\ Digit(fat, e + 1) = q
                                          /\ Digit(fat, e + 2) = r /\ Digit(fat, e + 3) = s
        BY <4>2, Zenon
      <4>4. p \in Nat /\ q \in Nat /\ r \in Nat /\ s \in Nat
        OBVIOUS
      <4> QED  BY <4>3, <4>4, Zenon
    <3>2. Digit(fat, e + 0) + 16 * Digit(fat, e + 1) + 256 * Digit(fat, e + 2) + 4096 * Digit(fat, e + 3) = low
      <4>1. /\ Digit(fat, e + 0) = Digit(fat, 2 * a + 0) /\ Digit(fat, e + 1) = Digit(fat, 2 * a + 1)
            /\ Digit(fat, e + 2) = Digit(fat, 2 * a + 2) /\ Digit(fat, e + 3) = Digit(fat, 2 * a + 3)
        BY <2>11
      <4>3. PICK p, q, r, s \in Nat : /\ p = Digit(fat, e + 0) /\ q = Digit(fat, e + 1)
                                      /\ r = Digit(fat, e + 2) /\ s = Digit(fat, e + 3)
        BY <3>3
      <4>4. p + 16 * q + 256 * r + 4096 * s = low
        <5>1. /\ Digit(fat, 2 * a + 0) = p /\ Digit(fat, 2 * a + 1) = q
              /\ Digit(fat, 2 * a + 2) = r /\ Digit(fat, 2 * a + 3) = s
          BY <4>1, <4>3
        <5>2. fat[a + 1] + 256 * fat[a + 2] \in Int
          BY <2>12, <2>14
        <5>3. Digit(fat, 2 * a + 0) + 16 * Digit(fat, 2 * a + 1) + 256 * Digit(fat, 2 * a + 2)
                + 4096 * Digit(fat, 2 * a + 3) = p + 16 * q + 256 * r + 4096 * s
          BY <4>3, <5>1
        <5>4. low = fat[a + 1] + 256 * fat[a + 2]
          BY <2>12
        <5>5. p + 16 * q + 256 * r + 4096 * s = fat[a + 1] + 256 * fat[a + 2]
          BY <2>7, <5>3
        <5> QED  BY <5>4, <5>5
      <4> QED  BY <4>3, <4>4
    <3>4. /\ Digit(fat, e + 4) \in Int /\ Digit(fat, e + 5) \in Int /\ Digit(fat, e + 6) \in Int
      BY <2>13, <2>15
    <3>5. Link(fat, type, c) = low + 65536 * Digit(fat, e + 4) + 1048576 * Digit(fat, e + 5)
                                   + 16777216 * Digit(fat, e + 6)
      BY <2>5, <2>14, <3>2, <3>3, <3>4
    <3> QED  BY <2>13, <2>15, <3>5
  <2>17. read_fat_entry(c) = low + 65536 * z + 16777216 * x
    BY <2>4, <2>12, <2>14, <2>15
  <2>18. low + 65536 * z + 16777216 * x = low + 65536 * u + 1048576 * v + 16777216 * x
    BY <2>13, <2>14, <2>15
  <2>19. FatBytes(c).first + FatBytes(c).count <= Len(fat)
    BY <1>0, <2>3
  <2> QED  BY <2>16, <2>17, <2>18, <2>19
<1> QED  BY <1>1, <1>2, <1>3 DEF Types

\* Every volume is of one of the types.
LEMMA TypeFound == ASSUME NEW v PROVE determine_type(v) \in Types
BY DEF determine_type, Types

\* A cluster of a chain leads to the next one of it.
Following(chain, i) == IF i < Len(chain) THEN chain[i + 1] ELSE NoCluster

\* The program finds it in the table.
LEMMA ChainFollowed ==
  ASSUME NEW chain, type \in Types, fat \in Seq(0 .. 255), fat = TableOf(volume, type),
         Chained(volume, type, chain), max_cluster(volume, type) \in Int, NEW i \in DOMAIN chain
  PROVE  /\ chain[i] \in Nat /\ chain[i] >= 2
         /\ FatBytes(chain[i]).first + FatBytes(chain[i]).count <= Len(fat)
         /\ Successor(chain[i]) = Following(chain, i)
         /\ Successor(chain[i]) # Unknown
<1>1. PICK M, c, link : M = max_cluster(volume, type) /\ c = chain[i] /\ link = Link(fat, type, c)
  OBVIOUS
<1>2. M \in Int /\ chain \in Seq(2 .. M) /\ i \in 1 .. Len(chain)
  BY <1>1 DEF Chained
<1>3. c \in 2 .. M /\ (i < Len(chain) => chain[i + 1] \in 2 .. M)
  <2>1. c \in 2 .. M
    BY <1>1, <1>2, ElementOfSeq
  <2>2. i < Len(chain) => i + 1 \in 1 .. Len(chain)
    BY <1>2
  <2> QED  BY <1>2, <2>1, <2>2, ElementOfSeq
<1>4. /\ Digits(type) * (c + 1) <= 2 * Len(fat)
      /\ IF i < Len(chain) THEN link = chain[i + 1] ELSE link \in EndMarks(type) /\ link > M
  BY <1>1 DEF Chained
<1>5. c \in Nat /\ c >= 2
  BY <1>3
<1>6. FatBytes(c).first + FatBytes(c).count <= Len(fat) /\ read_fat_entry(c) = link
  BY <1>1, <1>4, <1>5, LinkIs
<1>7. CASE i < Len(chain)
  <2>1. link = chain[i + 1] /\ link \in 2 .. M
    BY <1>3, <1>4, <1>7
  <2>2. link \in 2 .. M /\ link # Unknown
    BY <1>2, <2>1 DEF Unknown
  <2>3. Successor(c) = link
    BY <1>1, <1>6, <2>2 DEF Successor
  <2> QED  BY <1>1, <1>5, <1>6, <1>7, <2>1, <2>2, <2>3 DEF Following
<1>8. CASE ~(i < Len(chain))
  <2>1. link \in EndMarks(type) /\ link > M
    BY <1>4, <1>8
  <2>2. link \in Int
    <3>1. CASE type = "Fat12"
      <4>1. EndMarks(type) = 4088 .. 4095
        BY <3>1 DEF EndMarks
      <4> QED  BY <2>1, <4>1
    <3>2. CASE type = "Fat16"
      <4>1. EndMarks(type) = 65528 .. 65535
        BY <3>2 DEF EndMarks
      <4> QED  BY <2>1, <4>1
    <3>3. CASE type = "Fat32"
      <4>1. EndMarks(type) = 268435448 .. 268435455
        BY <3>3 DEF EndMarks
      <4> QED  BY <2>1, <4>1
    <3> QED  BY <3>1, <3>2, <3>3 DEF Types
  <2>3. ~(link \in 2 .. M)
    BY <1>2, <2>1, <2>2
  <2>4. Successor(c) = NoCluster
    BY <1>1, <1>6, <2>1, <2>3 DEF Successor
  <2> QED  BY <1>1, <1>5, <1>6, <1>8, <2>4 DEF Following, NoCluster, Unknown
<1> QED  BY <1>7, <1>8

\* Entering a cluster of a chain does not fail.
LEMMA ChainEntered ==
  ASSUME NEW chain, type \in Types, fat \in Seq(0 .. 255), fat = TableOf(volume, type),
         Chained(volume, type, chain), max_cluster(volume, type) \in Int, EnoughForData(volume, type),
         NEW i \in DOMAIN chain, Enter(chain[i])
  PROVE  /\ walk' = [cluster |-> chain[i], next |-> Following(chain, i), sector |-> 0]
         /\ pc' = "read" /\ reason' = reason
<1>1. PICK c : c = chain[i]
  OBVIOUS
<1>2. /\ c \in Nat /\ c >= 2 /\ Successor(c) # Unknown /\ Successor(c) = Following(chain, i)
      /\ FatBytes(c).first + FatBytes(c).count <= Len(fat)
  BY <1>1, ChainFollowed
<1>3. FatBytes(c).first + FatBytes(c).count \in Int
  BY <1>2 DEF FatBytes, Types
<1>4. ~(FatBytes(c).first + FatBytes(c).count > Len(fat)) /\ ~(c < 2)
  BY <1>2, <1>3
<1>5. Enter(c)
  BY <1>1
<1> QED  BY <1>1, <1>2, <1>4, <1>5 DEF Enter

\* Cluster 0, which entries without clusters give.
LEMMA ZeroEntered ==
  ASSUME Enter(0)
  PROVE  pc' = "panicked"
<1>1. 0 < 2
  OBVIOUS
<1> QED  BY <1>1 DEF Enter, Panic

\* What is entered otherwise.
LEMMA Entered ==
  ASSUME type \in Types, fat \in Seq(0 .. 255), max_cluster(volume, type) \in Int, NEW c \in Nat, Enter(c)
  PROVE  \/ pc' = "panicked" /\ walk' = walk
         \/ /\ pc' = "read" /\ c >= 2 /\ walk'.cluster = c /\ walk'.sector = 0
            /\ walk'.next \in {NoCluster} \cup 2 .. max_cluster(volume, type)
<1> DEFINE Counts == read_fat_entry(c) >= 2 /\ ~EnoughForData(volume, type)
<1>1. CASE FatBytes(c).first + FatBytes(c).count > Len(fat) \/ Counts \/ Successor(c) = Unknown \/ c < 2
  <2>1. pc' = "panicked" /\ walk' = walk
    BY <1>1 DEF Enter, Panic
  <2> QED  BY <2>1
<1>2. CASE /\ ~(FatBytes(c).first + FatBytes(c).count > Len(fat)) /\ ~Counts
           /\ Successor(c) # Unknown /\ ~(c < 2)
  <2>1. pc' = "read" /\ walk' = [cluster |-> c, next |-> Successor(c), sector |-> 0]
    BY <1>2 DEF Enter
  <2>2. Successor(c) \in {NoCluster} \cup 2 .. max_cluster(volume, type)
    BY <1>2 DEF Successor
  <2>3. c >= 2
    BY <1>2
  <2> QED  BY <2>1, <2>2, <2>3
<1> QED  BY <1>1, <1>2

-----------------------------------------------------------------------------
(* The layout of a volume.                                                 *)

\* A size that is a product of sizes.
LEMMA ProductPositive ==
  ASSUME NEW r \in Nat \ {0}, NEW s \in Nat \ {0}
  PROVE  r * s \in Nat \ {0}
<1>1. PICK d, e \in Nat : r = d + 1 /\ s = e + 1
  <2>1. r - 1 \in Nat /\ s - 1 \in Nat /\ r = (r - 1) + 1 /\ s = (s - 1) + 1
    OBVIOUS
  <2> QED  BY <2>1
<1>2. r * s = e * d + e + d + 1 /\ e * d \in Nat
  BY <1>1
<1> QED  BY <1>1, <1>2

\* Record j of sector s of cluster i, all counted from 0, where a cluster has S
\* sectors of D records, R together: the sector's records begin at n.
SectorAt(D, S, R, i, s, n) ==
  /\ D \in Nat \ {0} /\ S \in Nat \ {0} /\ i \in Nat /\ s \in 0 .. S - 1
  /\ R = S * D /\ n = (i * S + s) * D

RecordAt(D, R, i, s, n, j) ==
  /\ (n + j) \div R = i /\ (n + j) % R = s * D + j
  /\ (s * D + j) \div D = s /\ (s * D + j) % D = j

\* Dividing the place of a record gives its cluster, sector and place there.
LEMMA Positions ==
  ASSUME NEW D, NEW S, NEW R, NEW i, NEW s, NEW n, SectorAt(D, S, R, i, s, n)
  PROVE  /\ n \in Nat /\ R \in Nat \ {0} /\ n + D <= (i + 1) * R
         /\ \A j \in 0 .. D - 1 : RecordAt(D, R, i, s, n, j)
<1>0. /\ D \in Nat \ {0} /\ S \in Nat \ {0} /\ i \in Nat /\ s \in 0 .. S - 1 /\ s \in Nat
      /\ R = S * D /\ n = (i * S + s) * D
  BY DEF SectorAt
<1>1. R \in Nat \ {0}
  BY <1>0, ProductPositive
<1>2. PICK m \in Nat : m = s * D
  BY <1>0
<1>3. n = R * i + m /\ n \in Nat
  <2>1. (i * S + s) * D = (S * D) * i + s * D
    BY <1>0
  <2>2. R * i \in Nat
    BY <1>0, <1>1
  <2> QED  BY <1>0, <1>2, <2>1, <2>2
<1>4. m + D <= R
  <2>1. PICK r \in Nat : S = s + 1 + r
    <3>1. S - 1 - s \in Nat /\ S = s + 1 + (S - 1 - s)
      BY <1>0
    <3> QED  BY <3>1
  <2>2. S * D = s * D + D + r * D /\ r * D \in Nat
    BY <1>0, <2>1
  <2> QED  BY <1>0, <1>2, <2>2
<1>5. ASSUME NEW j \in 0 .. D - 1 PROVE RecordAt(D, R, i, s, n, j)
  <2>1. PICK q \in Nat : q = m + j
    BY <1>0
  <2>2. q \in 0 .. R - 1 /\ n + j = R * i + q /\ n + j \in Nat
    BY <1>0, <1>1, <1>2, <1>3, <1>4, <2>1
  <2>3. (n + j) \div R = i /\ (n + j) % R = q
    BY <1>0, <1>1, <2>2, DivUnique, Zenon
  <2>4. q = D * s + j
    BY <1>0, <1>2, <2>1
  <2>5. q \div D = s /\ q % D = j
    BY <1>0, <2>1, <2>4, DivUnique, Zenon
  <2> QED  BY <1>2, <2>1, <2>3, <2>5 DEF RecordAt
<1>6. n + D <= (i + 1) * R
  <2>1. (i + 1) * R = R * i + R /\ R * i \in Nat
    BY <1>0, <1>1
  <2> QED  BY <1>0, <1>1, <1>2, <1>3, <1>4, <2>1
<1> QED  BY <1>1, <1>3, <1>5, <1>6

\* What the layout of a readable volume is made of.
LEMMA Layout ==
  ASSUME NEW v \in Volumes, NEW t, t = determine_type(v)
  PROVE  /\ t \in Types /\ v.bpb.ratio \in Nat \ {0} /\ v.bpb.sec_per_clus \in Nat \ {0}
         /\ v.bpb.root_clus \in Nat
         /\ DISK_SECTOR_SIZE \in Nat \ {0} /\ ClusterSectors(v) \in Nat \ {0}
         /\ DataStart(v, t) \in Nat /\ max_cluster(v, t) \in Int
         /\ fat_sectors(v, t).end \in Nat /\ fat_sectors(v, t).end <= DataStart(v, t)
<1>1. v.bpb \in [Fields -> Nat] /\ v.bpb.ratio > 0 /\ v.bpb.sec_per_clus > 0
  BY FatAssumption DEF Readable
<1>2. PICK b : b = v.bpb
  OBVIOUS
<1>3. /\ b.ratio \in Nat \ {0} /\ b.sec_per_clus \in Nat \ {0} /\ b.rsvd_sec_cnt \in Nat
      /\ b.num_fats \in Nat /\ b.root_ent_cnt \in Nat /\ b.tot_sec_16 \in Nat /\ b.tot_sec_32 \in Nat
      /\ b.fat_sz_16 \in Nat /\ b.fat_sz_32 \in Nat /\ b.root_clus \in Nat
  BY <1>1, <1>2 DEF Fields
<1>4. DISK_SECTOR_SIZE \in Nat \ {0}
  BY FatAssumption
<1>5. ClusterSectors(v) \in Nat \ {0}
  <2>1. PICK r, s : r = b.ratio /\ s = b.sec_per_clus
    OBVIOUS
  <2>2. r \in Nat \ {0} /\ s \in Nat \ {0}
    BY <1>3, <2>1
  <2>3. r * s \in Nat \ {0}
    BY <2>2, ProductPositive
  <2> QED  BY <1>2, <2>1, <2>3 DEF ClusterSectors
<1>6. byts_per_sec(v) \in Nat \ {0}
  <2>1. PICK r, s : r = b.ratio /\ s = DISK_SECTOR_SIZE
    OBVIOUS
  <2>2. r \in Nat \ {0} /\ s \in Nat \ {0}
    BY <1>3, <1>4, <2>1
  <2>3. r * s \in Nat \ {0}
    BY <2>2, ProductPositive
  <2> QED  BY <1>2, <2>1, <2>3 DEF byts_per_sec
<1>7. fat_sectors(v, t).end \in Nat
  <2>1. PICK z : z = fat_sz(v, t)
    OBVIOUS
  <2>2. z \in Nat
    BY <1>2, <1>3, <2>1 DEF fat_sz
  <2>3. b.num_fats * z \in Nat
    BY <1>3, <2>2
  <2>4. fat_sectors(v, t).end = b.rsvd_sec_cnt + b.num_fats * z
    BY <1>2, <2>1 DEF fat_sectors
  <2> QED  BY <1>3, <2>3, <2>4
<1>8. DataStart(v, t) \in Nat /\ fat_sectors(v, t).end <= DataStart(v, t)
  <2>1. DataStart(v, t) = fat_sectors(v, t).end + b.root_ent_cnt \div byts_per_sec(v)
    BY <1>2 DEF DataStart, root_directory_sectors
  <2>2. b.root_ent_cnt \div byts_per_sec(v) \in Nat
    BY <1>3, <1>6, DivMod
  <2> QED  BY <1>7, <2>1, <2>2
<1>9. max_cluster(v, t) \in Int
  <2>1. PICK T, D, s : T = total_sectors_count(v, t) /\ D = DataStart(v, t) /\ s = b.sec_per_clus
    OBVIOUS
  <2>2. T \in Nat /\ D \in Nat /\ s \in Nat \ {0}
    BY <1>2, <1>3, <1>8, <2>1 DEF total_sectors_count
  <2>3. (T - D) \div s \in Int
    BY <2>2
  <2>4. (T - D) \div s + 1 \in Int
    BY <2>3
  <2> QED  BY <1>2, <2>1, <2>4 DEF max_cluster
<1> QED  BY <1>2, <1>3, <1>4, <1>5, <1>7, <1>8, <1>9, TypeFound

\* The sector that is read next, counted from the first of its cluster.
LEMMA SectorIs ==
  ASSUME volume \in Volumes, type = determine_type(volume),
         walk.cluster \in Nat, walk.cluster >= 2, walk.sector \in Nat
  PROVE  /\ DriveSector = FirstSector(volume, type, walk.cluster) + walk.sector
         /\ DriveSector \in Nat /\ DriveSector >= volume.bpb.ratio * DataStart(volume, type)
<1>1. PICK r, s, D, c, k : /\ r = volume.bpb.ratio /\ s = volume.bpb.sec_per_clus
                           /\ D = DataStart(volume, type) /\ c = walk.cluster - 2 /\ k = walk.sector
  OBVIOUS
<1>2. r \in Nat \ {0} /\ s \in Nat \ {0} /\ D \in Nat /\ c \in Nat /\ k \in Nat
  BY <1>1, Layout
<1>3. PICK a, b : a = k \div r /\ b = k % r
  OBVIOUS
<1>4. a \in Nat /\ b \in 0 .. r - 1 /\ k = r * a + b
  BY <1>2, <1>3, DivMod
<1>5. DriveSector = r * (D + c * s + a) + b
  BY <1>1, <1>3 DEF DriveSector
<1>6. FirstSector(volume, type, walk.cluster) + walk.sector = r * D + c * (r * s) + k
  BY <1>1 DEF FirstSector, ClusterSectors
<1>7. r * (D + c * s + a) + b = r * D + c * (r * s) + k
  <2>1. r * (D + c * s + a) = r * D + r * (c * s) + r * a
    BY <1>2, <1>4
  <2>2. r * (c * s) = c * (r * s)
    BY <1>2
  <2>3. r * D \in Nat /\ c * (r * s) \in Nat /\ r * a \in Nat
    BY <1>2, <1>4
  <2> QED  BY <1>2, <1>4, <2>1, <2>2, <2>3
<1>8. r * D \in Nat /\ c * (r * s) \in Nat
  BY <1>2
<1>9. r * D + c * (r * s) + k \in Nat /\ r * D + c * (r * s) + k >= r * D
  BY <1>2, <1>8
<1> QED  BY <1>1, <1>5, <1>6, <1>7, <1>9

-----------------------------------------------------------------------------
(* The contents of a file.                                                 *)

\* Sector s of a cluster of a chain.
LEMMA ClusterSector ==
  ASSUME NEW v \in Volumes, NEW t, t = determine_type(v), NEW chain, Chained(v, t, chain),
         NEW i \in DOMAIN chain, NEW s \in 0 .. ClusterSectors(v) - 1,
         NEW sector, sector = FirstSector(v, t, chain[i]) + s
  PROVE  /\ sector \in DOMAIN v.disk
         /\ v.disk[sector] \in [1 .. DISK_SECTOR_SIZE -> RecordsOf(v, t)]
<1>1. PICK S, r, D, c, M : /\ S = ClusterSectors(v) /\ r = v.bpb.ratio /\ D = DataStart(v, t)
                           /\ c = chain[i] /\ M = max_cluster(v, t)
  OBVIOUS
<1>2. S \in Nat \ {0} /\ r \in Nat \ {0} /\ D \in Nat /\ M \in Int
  BY <1>1, Layout
<1>3. chain \in Seq(2 .. M) /\ i \in 1 .. Len(chain)
  BY <1>1 DEF Chained
<1>4. c \in 2 .. M
  BY <1>1, <1>3, ElementOfSeq
<1>5. PICK e \in Nat : e = c - 2
  BY <1>4
<1>6. PICK p, q \in Nat : p = r * D /\ q = e * S
  BY <1>2, <1>5
<1>7. FirstSector(v, t, chain[i]) = p + q
  BY <1>1, <1>5, <1>6 DEF FirstSector
<1>8. s \in 0 .. S - 1 /\ sector = p + q + s
  BY <1>1, <1>7
<1>9. sector \in p + q .. p + q + S - 1 /\ sector >= p
  BY <1>2, <1>6, <1>8
<1>10. FirstSector(v, t, chain[i]) .. FirstSector(v, t, chain[i]) + ClusterSectors(v) - 1 \subseteq DOMAIN v.disk
  BY DEF Chained
<1>11. sector \in DOMAIN v.disk
  BY <1>1, <1>7, <1>9, <1>10
<1>12. \A x \in DOMAIN v.disk :
          x >= v.bpb.ratio * DataStart(v, t) => v.disk[x] \in [1 .. DISK_SECTOR_SIZE -> RecordsOf(v, t)]
  BY FatAssumption DEF Readable
<1> QED  BY <1>1, <1>6, <1>9, <1>11, <1>12

\* A file has the records of all its clusters.
LEMMA FileContents ==
  ASSUME NEW v \in Volumes, NEW t, t = determine_type(v), NEW f, ~InRegion(t, f),
         Chained(v, t, f.chain), NEW C, C = Contents(v, t, f)
  PROVE  /\ C \in Seq(RecordsOf(v, t)) /\ Len(C) = Len(f.chain) * ClusterRecords(v)
<1>1. PICK S, D, R, l, chain : /\ S = ClusterSectors(v) /\ D = DISK_SECTOR_SIZE /\ R = ClusterRecords(v)
                               /\ l = Len(f.chain) /\ chain = f.chain
  OBVIOUS
<1>2. S \in Nat \ {0} /\ D \in Nat \ {0} /\ R = S * D
  BY <1>1, Layout DEF ClusterRecords
<1>3. R \in Nat \ {0}
  BY <1>2, ProductPositive
<1>4. chain \in Seq(2 .. max_cluster(v, t)) /\ l \in Nat /\ DOMAIN chain = 1 .. l
  BY <1>1 DEF Chained
<1>5. PICK m \in Nat : m = l * R
  BY <1>3, <1>4
<1>6. C = [k \in 1 .. m |->
             v.disk[FirstSector(v, t, chain[(k - 1) \div R + 1]) + ((k - 1) % R) \div D][(((k - 1) % R) % D) + 1]]
  BY <1>1, <1>5 DEF Contents
<1>7. ASSUME NEW k \in 1 .. m
      PROVE  v.disk[FirstSector(v, t, chain[(k - 1) \div R + 1]) + ((k - 1) % R) \div D][(((k - 1) % R) % D) + 1]
               \in RecordsOf(v, t)
  <2>1. PICK a, b : a = (k - 1) \div R /\ b = (k - 1) % R
    OBVIOUS
  <2>2. a \in Nat /\ b \in 0 .. R - 1 /\ k - 1 = R * a + b
    <3>1. k - 1 \in Nat
      BY <1>5
    <3> QED  BY <1>3, <2>1, <3>1, DivMod
  <2>3. a < l
    <3> SUFFICES ASSUME ~(a < l) PROVE FALSE
      OBVIOUS
    <3>1. PICK d \in Nat : a = l + d
      <4>1. a - l \in Nat /\ a = l + (a - l)
        BY <1>4, <2>2
      <4> QED  BY <4>1
    <3>2. R * a = l * R + R * d /\ R * d \in Nat
      BY <1>3, <1>4, <3>1
    <3>3. PICK x, y \in Nat : x = R * a /\ y = R * d
      <4>1. R * a \in Nat
        BY <1>3, <2>2
      <4> QED  BY <3>2, <4>1
    <3>4. x = m + y
      BY <1>5, <3>2, <3>3
    <3>5. k - 1 = x + b
      BY <2>2, <3>3
    <3>6. b \in Nat
      BY <1>3, <2>2
    <3> QED  BY <3>3, <3>4, <3>5, <3>6
  <2>4. PICK i : i = a + 1
    OBVIOUS
  <2>5. i \in DOMAIN chain
    BY <1>4, <2>2, <2>3, <2>4
  <2>6. PICK s, j : s = b \div D /\ j = b % D
    OBVIOUS
  <2>7. s \in Nat /\ j \in 0 .. D - 1 /\ b = D * s + j
    <3>1. b \in Nat
      BY <1>3, <2>2
    <3> QED  BY <1>2, <2>6, <3>1, DivMod
  <2>8. s < S
    <3> SUFFICES ASSUME ~(s < S) PROVE FALSE
      OBVIOUS
    <3>1. PICK d \in Nat : s = S + d
      <4>1. s - S \in Nat /\ s = S + (s - S)
        BY <1>2, <2>7
      <4> QED  BY <4>1
    <3>2. D * s = S * D + D * d /\ D * d \in Nat
      BY <1>2, <3>1
    <3>3. PICK x, y \in Nat : x = D * s /\ y = D * d
      <4>1. D * s \in Nat
        BY <1>2, <2>7
      <4> QED  BY <3>2, <4>1
    <3>4. x = R + y
      BY <1>2, <3>2, <3>3
    <3>5. b = x + j
      BY <2>7, <3>3
    <3>6. j \in Nat /\ b \in 0 .. R - 1
      BY <1>2, <2>2, <2>7
    <3>7. R \in Nat
      BY <1>3
    <3> QED  BY <3>3, <3>4, <3>5, <3>6, <3>7
  <2>9. s \in 0 .. S - 1 /\ j + 1 \in 1 .. D
    BY <1>2, <2>7, <2>8
  <2>10. PICK sector : sector = FirstSector(v, t, chain[i]) + s
    OBVIOUS
  <2>11. v.disk[sector] \in [1 .. D -> RecordsOf(v, t)]
    BY <1>1, <2>5, <2>9, <2>10, ClusterSector
  <2>12. v.disk[sector][j + 1] \in RecordsOf(v, t)
    BY <2>9, <2>11
  <2> QED  BY <2>1, <2>4, <2>6, <2>10, <2>12
<1> HIDE <1>6
<1>8. PICK h : h = [k \in 1 .. m |->
             v.disk[FirstSector(v, t, chain[(k - 1) \div R + 1]) + ((k - 1) % R) \div D][(((k - 1) % R) % D) + 1]]
  OBVIOUS
<1>9. h \in [1 .. m -> RecordsOf(v, t)]
  BY <1>7, <1>8, Zenon
<1>10. h \in Seq(RecordsOf(v, t)) /\ Len(h) = m
  BY <1>9
<1> QED  BY <1>1, <1>5, <1>6, <1>8, <1>10

\* The first records of a file.
LEMMA FirstRecords ==
  ASSUME NEW Q, NEW C \in Seq(Q), NEW n \in Nat, n <= Len(C)
  PROVE  /\ SubSeq(C, 1, n) \in Seq(Q) /\ Len(SubSeq(C, 1, n)) = n
         /\ \A j \in 1 .. n : SubSeq(C, 1, n)[j] = C[j]
OBVIOUS

\* Reading a sector adds the records that follow.
Adds(C, n, x) == SubSeq(C, 1, n) \o x = SubSeq(C, 1, n + DISK_SECTOR_SIZE)

LEMMA ContentsExtended ==
  ASSUME NEW v \in Volumes, NEW t, t = determine_type(v), NEW f, ~InRegion(t, f),
         Chained(v, t, f.chain), NEW C, C = Contents(v, t, f),
         NEW i \in DOMAIN f.chain, NEW s \in 0 .. ClusterSectors(v) - 1,
         NEW sector, sector = FirstSector(v, t, f.chain[i]) + s,
         NEW n, n = ((i - 1) * ClusterSectors(v) + s) * DISK_SECTOR_SIZE
  PROVE  /\ n \in Nat /\ n + DISK_SECTOR_SIZE <= Len(C)
         /\ Adds(C, n, v.disk[sector])
<1>1. PICK S, D, R, l, e : /\ S = ClusterSectors(v) /\ D = DISK_SECTOR_SIZE /\ R = ClusterRecords(v)
                           /\ l = Len(f.chain) /\ e = i - 1
  OBVIOUS
<1>2. S \in Nat \ {0} /\ D \in Nat \ {0} /\ R = S * D
  BY <1>1, Layout DEF ClusterRecords
<1>3. l \in Nat /\ i \in 1 .. l /\ e \in Nat /\ e + 1 <= l /\ i = e + 1
  BY <1>1 DEF Chained
<1>4. n = (e * S + s) * D /\ s \in 0 .. S - 1
  BY <1>1
<1>5. C \in Seq(RecordsOf(v, t)) /\ Len(C) = l * R
  BY <1>1, FileContents
<1>6. /\ n \in Nat /\ R \in Nat \ {0} /\ n + D <= (e + 1) * R
      /\ \A j \in 0 .. D - 1 : RecordAt(D, R, e, s, n, j)
  <2>1. SectorAt(D, S, R, e, s, n)
    BY <1>2, <1>3, <1>4 DEF SectorAt
  <2> QED  BY <2>1, Positions, Zenon
<1>7. n + D <= Len(C)
  <2>1. PICK d \in Nat : l = e + 1 + d
    <3>1. l - (e + 1) \in Nat /\ l = e + 1 + (l - (e + 1))
      BY <1>3
    <3> QED  BY <3>1
  <2>2. l * R = (e + 1) * R + d * R /\ d * R \in Nat /\ (e + 1) * R \in Nat
    BY <1>3, <1>6, <2>1
  <2>3. PICK x, y \in Nat : x = (e + 1) * R /\ y = d * R
    BY <2>2
  <2>4. Len(C) = x + y
    BY <1>5, <2>2, <2>3
  <2>5. n + D <= x
    BY <1>6, <2>3
  <2> QED  BY <1>2, <1>6, <2>3, <2>4, <2>5
<1>8. v.disk[sector] \in [1 .. D -> RecordsOf(v, t)]
  BY <1>1, ClusterSector
<1>9. ASSUME NEW j \in 1 .. D PROVE C[n + j] = v.disk[sector][j]
  <2>1. PICK h : h = j - 1
    OBVIOUS
  <2>2. h \in 0 .. D - 1 /\ h \in Nat /\ j = h + 1
    BY <1>2, <2>1
  <2>3. /\ (n + h) \div R = e /\ (n + h) % R = s * D + h
        /\ (s * D + h) \div D = s /\ (s * D + h) % D = h
    <3>1. RecordAt(D, R, e, s, n, h)
      BY <1>6, <2>2, Zenon
    <3> QED  BY <3>1 DEF RecordAt
  <2>4. PICK k : k = n + j
    OBVIOUS
  <2>5. k - 1 = n + h /\ k \in 1 .. Len(C)
    BY <1>2, <1>6, <1>7, <2>2, <2>4
  <2>6. C[k] = v.disk[FirstSector(v, t, f.chain[(k - 1) \div R + 1]) + ((k - 1) % R) \div D]
                     [(((k - 1) % R) % D) + 1]
    <3>0. Len(f.chain) * ClusterRecords(v) = Len(C)
      BY <1>1, <1>5
    <3>1. k \in 1 .. Len(f.chain) * ClusterRecords(v)
      BY <2>5, <3>0
    <3>2. Contents(v, t, f)[k] =
            v.disk[FirstSector(v, t, f.chain[(k - 1) \div ClusterRecords(v) + 1])
                     + ((k - 1) % ClusterRecords(v)) \div DISK_SECTOR_SIZE]
                  [(((k - 1) % ClusterRecords(v)) % DISK_SECTOR_SIZE) + 1]
      BY <3>1 DEF Contents
    <3> QED  BY <1>1, <3>2
  <2>7. C[k] = v.disk[FirstSector(v, t, f.chain[e + 1]) + s][h + 1]
    <3>1. (k - 1) \div R = e /\ (k - 1) % R = s * D + h
      BY <2>3, <2>5
    <3> QED  BY <2>3, <2>6, <3>1, Zenon
  <2> QED  BY <1>3, <2>2, <2>4, <2>7
<1>10. PICK Q, x, m : Q = RecordsOf(v, t) /\ x = v.disk[sector] /\ m = n + D
  OBVIOUS
<1>11. x \in Seq(Q) /\ Len(x) = D /\ C \in Seq(Q)
  <2>1. x \in [1 .. D -> Q] /\ C \in Seq(Q)
    BY <1>5, <1>8, <1>10
  <2>2. D \in Nat
    BY <1>2
  <2> QED  BY <2>1, <2>2
<1>12. m \in Nat /\ m <= Len(C) /\ n <= m
  BY <1>2, <1>6, <1>7, <1>10
<1>13. SubSeq(C, 1, n) \o x = SubSeq(C, 1, m)
  <2>1. PICK a, b : a = SubSeq(C, 1, n) /\ b = SubSeq(C, 1, m)
    OBVIOUS
  <2>2. /\ a \in Seq(Q) /\ Len(a) = n /\ \A j \in 1 .. n : a[j] = C[j]
        /\ b \in Seq(Q) /\ Len(b) = m /\ \A j \in 1 .. m : b[j] = C[j]
    <3>1. n \in Nat /\ n <= Len(C)
      BY <1>6, <1>11, <1>12
    <3> QED  BY <1>11, <1>12, <2>1, <3>1, FirstRecords
  <2>3. a \o x \in Seq(Q) /\ Len(a \o x) = m
    <3>1. a \o x \in Seq(Q) /\ Len(a \o x) = Len(a) + Len(x)
      BY <1>11, <2>2, ConcatProperties, Zenon
    <3> QED  BY <1>10, <1>11, <2>2, <3>1
  <2>4. ASSUME NEW j \in 1 .. m PROVE (a \o x)[j] = b[j]
    <3>1. CASE j <= n
      <4>1. (a \o x)[j] = a[j]
        BY <1>6, <1>11, <2>2, <3>1
      <4> QED  BY <1>6, <2>2, <3>1, <4>1
    <3>2. CASE j > n
      <4>1. PICK h : h = j - n
        OBVIOUS
      <4>2. h \in 1 .. D /\ n + h = j
        BY <1>2, <1>6, <1>10, <3>2, <4>1
      <4>3. j \in 1 .. Len(a) + Len(x) /\ ~(j <= Len(a)) /\ h = j - Len(a)
        BY <1>2, <1>6, <1>10, <1>11, <2>2, <3>2, <4>1
      <4>4. (a \o x)[j] = x[j - Len(a)]
        <5>1. \A k \in 1 .. Len(a) + Len(x) :
                (a \o x)[k] = IF k <= Len(a) THEN a[k] ELSE x[k - Len(a)]
          <6>1. a \in Seq(Q) /\ x \in Seq(Q)
            BY <1>11, <2>2
          <6> QED  BY <6>1, ConcatProperties, Zenon
        <5> QED  BY <4>3, <5>1, Zenon
      <4>5. C[n + h] = x[h]
        BY <1>9, <1>10, <4>2
      <4>6. b[j] = C[j]
        BY <2>2
      <4> QED  BY <4>2, <4>3, <4>4, <4>5, <4>6, Zenon
    <3>3. n \in Nat /\ j \in Nat
      BY <1>6, <1>12
    <3>4. j <= n \/ j > n
      BY <3>3
    <3> QED  BY <3>1, <3>2, <3>4
  <2>5. a \o x = b
    BY <2>2, <2>3, <2>4, SeqEqual
  <2> QED  BY <2>1, <2>5
<1> QED  BY <1>1, <1>6, <1>7, <1>10, <1>13 DEF Adds

-----------------------------------------------------------------------------
(* Any volume.                                                             *)

Kind == determine_type(volume)
Entries == RecordsOf(volume, Kind)
Directories == {Region} \cup {Normal(c) : c \in Nat}
Serving == {"idle", "open", "scan", "read", "done"}

\* What is mapped once the volume is mounted.
Mapped == type = Kind /\ fat = TableOf(volume, Kind) /\ rdr = RegionOf(volume, Kind)

\* A walk goes on in the volume, and is only outside of it in the first of its
\* clusters.
WalkOK ==
  /\ walk.cluster \in Nat /\ walk.cluster >= 2 /\ walk.sector \in Nat
  /\ walk.next \in {NoCluster} \cup 2 .. max_cluster(volume, type)
  /\ walk.cluster \notin 2 .. max_cluster(volume, type) => Len(data) = walk.sector * DISK_SECTOR_SIZE

\* What is read is made of the volume's records, and fits in memory.
ReadOK == entries \in Seq(Entries) /\ data \in Seq(Entries) /\ Len(data) <= HEAP

\* What is used up, and the size of the file that is read.
SpentOK == certificates \in Nat /\ kept \in Nat /\ size \in Nat

\* What holds on any volume, sound or not.
Shape ==
  /\ volume \in Volumes /\ type \in {"none"} \cup Types
  /\ pc \in {"mount", "panicked"} \cup Serving
  /\ pc \in Serving => Mapped
  /\ pc = "read" => WalkOK
  /\ \A o \in objects : o.dir \in Directories
  /\ look.dir \in Directories /\ look.path \in Seq(Names)
  /\ ReadOK /\ SpentOK

\* What a mounted volume has of the drive is bytes and records.
LEMMA MountedVolume ==
  ASSUME volume \in Volumes, Mapped
  PROVE  /\ type \in Types /\ fat \in Seq(0 .. 255) /\ rdr \in Seq(Entries)
         /\ max_cluster(volume, type) \in Int
BY FatAssumption, TypeFound, Layout DEF Readable, Mapped, Kind, Entries

\* An entry found on the drive can be followed.
LEMMA ShortRecord ==
  ASSUME volume \in Volumes, NEW r \in Entries, ~r.long
  PROVE  r.cluster \in Nat /\ r.size \in Nat
BY FatAssumption DEF Readable, Entries, Kind

\* What only depends on the volume.
LEMMA SameVolume ==
  ASSUME volume' = volume
  PROVE  Kind' = Kind /\ Entries' = Entries
BY DEF Kind, Entries

\* A file that fits in memory is smaller than the size that stands for all.
LEMMA HeapSize == HEAP \in Nat /\ HEAP < NoSize
<1>1. HEAP \in 0 .. NoSize - 1
  BY FatAssumption
<1>2. NoSize \in Nat
  BY SMT DEF NoSize
<1> QED  BY <1>1, <1>2

\* Sizes that are rounded up, and that memory is in whole sectors.
LEMMA RoundedUp ==
  ASSUME NEW n \in Nat, NEW unit \in Nat \ {0}
  PROVE  /\ RoundUp(n, unit) \in Nat
         /\ \A h \in Nat : n <= h /\ h % unit = 0 => RoundUp(n, unit) <= h
<1>1. PICK a \in Nat : a = n + unit - 1
  <2>1. n + unit - 1 \in Nat
    OBVIOUS
  <2> QED  BY <2>1
<1>2. PICK q, r : q = a \div unit /\ r = a % unit
  OBVIOUS
<1>3. q \in Nat /\ r \in 0 .. unit - 1 /\ a = unit * q + r
  BY <1>1, <1>2, DivMod
<1>4. RoundUp(n, unit) = unit * q
  BY <1>1, <1>2 DEF RoundUp
<1>5. unit * q \in Nat
  BY <1>3
<1>6. ASSUME NEW h \in Nat, n <= h, h % unit = 0 PROVE unit * q <= h
  <2>1. PICK d : d = h \div unit
    OBVIOUS
  <2>2. d \in Nat /\ h = unit * d
    BY <1>6, <2>1, DivMod
  <2>3. CASE q <= d
    <3>1. PICK e \in Nat : d = q + e
      <4>1. d - q \in Nat /\ d = q + (d - q)
        BY <1>3, <2>2, <2>3
      <4> QED  BY <4>1
    <3>2. unit * d = unit * q + unit * e /\ unit * e \in Nat
      BY <1>3, <3>1
    <3> QED  BY <1>5, <2>2, <3>2
  <2>4. CASE ~(q <= d)
    <3>1. PICK e \in Nat : q = d + 1 + e
      <4>1. q - d - 1 \in Nat /\ q = d + 1 + (q - d - 1)
        BY <1>3, <2>2, <2>4
      <4> QED  BY <4>1
    <3>2. unit * q = unit * d + unit + unit * e /\ unit * e \in Nat
      BY <2>2, <3>1
    <3>3. a >= h + unit
      BY <1>1, <1>3, <1>5, <2>2, <3>2
    <3> QED  BY <1>1, <1>6, <3>3
  <2> QED  BY <2>3, <2>4
<1> QED  BY <1>4, <1>5, <1>6

\* What a file and its copy take, and that a file alone fits if it is no larger
\* than the memory.
LEMMA SizesRounded ==
  ASSUME NEW n \in Nat
  PROVE  /\ Reserved(n) \in Nat /\ Copied(n) \in Nat
         /\ n <= HEAP => Reserved(n) <= HEAP
<1>1. /\ DISK_SECTOR_SIZE \in Nat \ {0} /\ PAGE_SECTORS \in Nat \ {0}
      /\ HEAP \in Nat /\ HEAP % DISK_SECTOR_SIZE = 0
  BY FatAssumption, HeapSize
<1>2. PAGE_SECTORS * DISK_SECTOR_SIZE \in Nat \ {0}
  BY <1>1, ProductPositive
<1> QED  BY <1>1, <1>2, RoundedUp DEF Reserved, Copied

LEMMA FatInitShape == FatInit => Shape
<1> SUFFICES ASSUME FatInit PROVE Shape
  OBVIOUS
<1>1. <<>> \in Seq(Entries) /\ Len(<<>>) = 0
  OBVIOUS
<1>2. HEAP \in Nat
  BY HeapSize
<1>3. SpentOK
  BY DEF FatInit, SpentOK, NoSize
<1> QED  BY <1>1, <1>2, <1>3 DEF FatInit, Shape, ReadOK, Directories, NoLook, Serving

\* Steps that keep the volume mounted, and their parts.
LEMMA KeepsMapped ==
  ASSUME Mapped, UNCHANGED mounted
  PROVE  Mapped'
BY DEF Mapped, mounted, Kind

LEMMA EnterShape ==
  ASSUME volume \in Volumes, Mapped, UNCHANGED mounted, NEW c \in Nat, Enter(c),
         data' = <<>> \/ c \in 2 .. max_cluster(volume, type)
  PROVE  /\ pc' \in {"panicked", "read"}
         /\ pc' = "read" => WalkOK'
<1>1. /\ type \in Types /\ fat \in Seq(0 .. 255) /\ max_cluster(volume, type) \in Int
  BY MountedVolume
<1>2. \/ pc' = "panicked" /\ walk' = walk
      \/ /\ pc' = "read" /\ c >= 2 /\ walk'.cluster = c /\ walk'.sector = 0
         /\ walk'.next \in {NoCluster} \cup 2 .. max_cluster(volume, type)
  BY <1>1, Entered
<1>3. volume' = volume /\ type' = type
  BY DEF mounted
<1>4. max_cluster(volume, type)' = max_cluster(volume, type)
  BY <1>3 DEF max_cluster, total_sectors_count, DataStart, root_directory_sectors, fat_sectors, fat_sz, byts_per_sec
<1>5. data' = <<>> => Len(data') = 0 * DISK_SECTOR_SIZE
  BY FatAssumption
<1>6. CASE pc' = "panicked"
  BY <1>6
<1>7. CASE /\ pc' = "read" /\ c >= 2 /\ walk'.cluster = c /\ walk'.sector = 0
           /\ walk'.next \in {NoCluster} \cup 2 .. max_cluster(volume, type)
  <2>1. walk'.cluster \notin 2 .. max_cluster(volume, type) => Len(data') = walk'.sector * DISK_SECTOR_SIZE
    BY <1>5, <1>7
  <2> QED  BY <1>4, <1>7, <2>1 DEF WalkOK
<1> QED  BY <1>2, <1>6, <1>7

LEMMA FoundShape ==
  ASSUME Shape, pc \in Serving, NEW short \in Entries, ~short.long, Found(short), UNCHANGED <<mounted, kept>>
  PROVE  Shape'
<1>1. volume \in Volumes /\ Mapped
  BY DEF Shape
<1>2. short.cluster \in Nat
  BY <1>1, ShortRecord
<1>3. Mapped' /\ volume' = volume /\ type' = type /\ Entries' = Entries
  BY <1>1, KeepsMapped, SameVolume DEF mounted
<1>k. kept' = kept /\ kept \in Nat /\ certificates \in Nat /\ size \in Nat /\ NoSize \in Nat
  BY DEF Shape, SpentOK, NoSize
<1>4. Normal(short.cluster) \in Directories
  BY <1>2 DEF Directories
<1>5. <<>> \in Seq(Entries) /\ Len(<<>>) = 0 /\ HEAP \in Nat
  BY HeapSize
<1>0. look.path \in Seq(Names) /\ Len(look.path) \in Nat
  BY DEF Shape
<1>6. CASE Len(look.path) > 1
  <2>1. look' = [dir |-> Normal(short.cluster), path |-> Tail(look.path)] /\ pc' = "open"
        /\ entries' = <<>> /\ UNCHANGED <<objects, certificates, file>>
    BY <1>0, <1>6 DEF Found, Goto
  <2>2. look'.dir \in Directories /\ look'.path \in Seq(Names) /\ data' = data /\ objects' = objects
    BY <1>0, <1>4, <1>6, <2>1 DEF file
  <2>3. SpentOK'
    BY <1>k, <2>1 DEF SpentOK, file
  <2> QED  BY <1>3, <1>5, <2>1, <2>2, <2>3 DEF Shape, ReadOK, Serving
<1>9. CASE ~(Len(look.path) > 1) /\ request.op = "subcapability" /\ NoCertificate
  <2>1. pc' = "panicked" /\ certificates' = certificates + 1 /\ UNCHANGED <<objects, look, entries, file>>
    BY <1>0, <1>9 DEF Found, Panic, allocate_certificate
  <2>2. SpentOK'
    BY <1>k, <2>1 DEF SpentOK, file
  <2> QED  BY <1>3, <2>1, <2>2 DEF Shape, ReadOK, file, Serving
<1>7. CASE ~(Len(look.path) > 1) /\ request.op = "subcapability" /\ ~NoCertificate
  <2>1. /\ objects' = objects \cup {[at |-> request.at \o request.path, dir |-> Normal(short.cluster)]}
        /\ pc' = "idle" /\ look' = NoLook /\ entries' = <<>> /\ data' = <<>> /\ size' = NoSize
        /\ certificates' = certificates + 1
    BY <1>0, <1>7 DEF Found, Return, allocate_certificate
  <2>2. look'.dir \in Directories /\ look'.path \in Seq(Names)
    BY <2>1 DEF NoLook, Directories
  <2>3. \A o \in objects' : o.dir \in Directories
    <3>1. \A o \in objects : o.dir \in Directories
      BY DEF Shape
    <3>2. ASSUME NEW o \in objects' PROVE o.dir \in Directories
      <4>1. CASE o \in objects
        BY <3>1, <4>1
      <4>2. CASE o = [at |-> request.at \o request.path, dir |-> Normal(short.cluster)]
        <5>1. o.dir = Normal(short.cluster)
          BY <4>2
        <5> QED  BY <1>4, <5>1
      <4> QED  BY <2>1, <4>1, <4>2
    <3> QED  BY <3>2
  <2>4. ReadOK'
    BY <1>3, <1>5, <2>1 DEF ReadOK
  <2>5. volume' \in Volumes /\ type' \in {"none"} \cup Types /\ pc' = "idle" /\ Mapped'
    BY <1>3, <2>1 DEF Shape
  <2>6. SpentOK'
    BY <1>k, <2>1 DEF SpentOK
  <2> QED  BY <2>2, <2>3, <2>4, <2>5, <2>6 DEF Shape, Serving
<1>8. CASE ~(Len(look.path) > 1) /\ request.op # "subcapability"
  <2>1. /\ data' = <<>> /\ entries' = <<>> /\ size' = short.size
        /\ UNCHANGED <<objects, certificates, look>>
        /\ IF Reserved(short.size) + kept > HEAP THEN Panic("memory") ELSE Enter(short.cluster)
    BY <1>0, <1>8 DEF Found
  <2>2. pc' \in {"panicked", "read"} /\ (pc' = "read" => WalkOK')
    <3>1. CASE Reserved(short.size) + kept > HEAP
      BY <2>1, <3>1 DEF Panic
    <3>2. CASE ~(Reserved(short.size) + kept > HEAP)
      BY <1>1, <1>2, <2>1, <3>2, EnterShape
    <3> QED  BY <3>1, <3>2
  <2>3. SpentOK'
    BY <1>1, <1>k, <2>1, ShortRecord DEF SpentOK
  <2> QED  BY <1>3, <1>5, <2>1, <2>2, <2>3 DEF Shape, ReadOK, Serving
<1> QED  BY <1>6, <1>7, <1>8, <1>9

LEMMA YieldShape ==
  ASSUME Shape, pc \in Serving, NEW short \in Entries, ~short.long, NEW matches, NEW count \in Nat,
         Yield(short, matches, count), UNCHANGED <<mounted, kept>>
  PROVE  Shape'
<1>1. volume \in Volumes /\ Mapped /\ entries \in Seq(Entries)
  BY DEF Shape, ReadOK
<1>3. Mapped' /\ volume' = volume /\ type' = type /\ Entries' = Entries
  BY <1>1, KeepsMapped, SameVolume DEF mounted
<1>k. UNCHANGED <<kept, certificates, file>> => SpentOK'
  BY DEF Shape, SpentOK, file
<1>4. CASE short.name[1] = 0
  <2>1. pc' = "panicked" /\ UNCHANGED <<objects, certificates, look, entries, file>>
    BY <1>4 DEF Yield, Panic
  <2> QED  BY <1>3, <1>k, <2>1 DEF Shape, ReadOK, file, Serving
<1>5. CASE short.name[1] # 0 /\ short.name[1] # 229 /\ matches
  <2>1. Found(short)
    BY <1>5 DEF Yield
  <2> QED  BY <2>1, FoundShape
<1>6. CASE ~(short.name[1] = 0) /\ ~(short.name[1] # 0 /\ short.name[1] # 229 /\ matches)
  <2>1. pc' = "scan" /\ entries' = After(count) /\ UNCHANGED <<objects, certificates, look, file>>
    BY <1>6 DEF Yield, Goto
  <2>2. After(count) \in Seq(Entries)
    BY <1>1 DEF After
  <2> QED  BY <1>3, <1>k, <2>1, <2>2 DEF Shape, ReadOK, file, Serving
<1> QED  BY <1>4, <1>5, <1>6

\* A set of long entries has at most 63 of them.
LEMMA CountType ==
  ASSUME NEW entry
  PROVE  LongCount(entry) \in 0 .. 63
<1>1. MAX_LONG_ENTRIES \in 0 .. 63
  BY FatAssumption
<1>2. CASE entry.ord \in 65 .. 64 + MAX_LONG_ENTRIES
  <2>1. LongCount(entry) = entry.ord - 64
    BY <1>2 DEF LongCount
  <2> QED  BY <1>1, <1>2, <2>1
<1>3. CASE entry.ord \notin 65 .. 64 + MAX_LONG_ENTRIES
  BY <1>3 DEF LongCount
<1> QED  BY <1>2, <1>3

LEMMA MountShape == ASSUME Shape, Mount PROVE Shape'
<1>1. volume' = volume /\ volume \in Volumes /\ Entries' = Entries /\ Kind' = Kind
  BY SameVolume DEF Mount, Shape
<1>2. pc = "mount" /\ look' = look /\ entries' = entries /\ data' = data /\ size' = size
      /\ kept' = kept /\ certificates' = certificates
  BY DEF Mount, file, spent
<1>3. ReadOK' /\ SpentOK' /\ look'.dir \in Directories /\ look'.path \in Seq(Names)
  BY <1>1, <1>2 DEF Shape, ReadOK, SpentOK
<1> DEFINE Fails == ~EnoughForTable(volume) \/ ~validate_bpb(volume, Kind) \/ ~Mappable(volume, Kind)
<1>4. CASE Fails
  <2>1. pc' = "panicked" /\ UNCHANGED <<type, fat, rdr, objects>>
    BY <1>4 DEF Mount, Panic, Kind
  <2> QED  BY <1>1, <1>3, <2>1 DEF Shape, Serving
<1>5. CASE ~Fails
  <2>1. /\ type' = Kind /\ fat' = TableOf(volume, Kind) /\ rdr' = RegionOf(volume, Kind)
        /\ objects' = {[at |-> <<>>, dir |-> RootOf(volume, Kind)]} /\ pc' = "idle"
    BY <1>5 DEF Mount, Goto, Kind
  <2>2. Mapped' /\ type' \in Types
    BY <1>1, <2>1, TypeFound DEF Mapped, Kind
  <2>3. RootOf(volume, Kind) \in Directories
    <3>1. volume.bpb.root_clus \in Nat
      BY <1>1, Layout DEF Kind
    <3> QED  BY <3>1 DEF RootOf, Directories
  <2>4. \A o \in objects' : o.dir \in Directories
    BY <2>1, <2>3
  <2> QED  BY <1>1, <1>3, <2>1, <2>2, <2>4 DEF Shape, Serving
<1> QED  BY <1>4, <1>5

LEMMA CallShape ==
  ASSUME Shape, NEW op, NEW object \in objects, NEW path \in Paths, Call(op, object, path)
  PROVE  Shape'
<1>1. /\ pc = "idle" /\ pc' \in {"panicked", "open"}
      /\ look' = [dir |-> object.dir, path |-> path]
      /\ UNCHANGED <<mounted, objects, spent, entries, file>>
  BY DEF Call, Goto, Panic
<1>2. volume' = volume /\ type' = type /\ Entries' = Entries /\ data' = data
  BY <1>1, SameVolume DEF mounted, file
<1>3. Mapped'
  BY <1>1, KeepsMapped DEF Shape, Serving
<1>4. look'.dir \in Directories /\ look'.path \in Seq(Names)
  BY <1>1, FatAssumption DEF Shape
<1>5. SpentOK'
  BY <1>1 DEF Shape, SpentOK, spent, file
<1> QED  BY <1>1, <1>2, <1>3, <1>4, <1>5 DEF Shape, ReadOK, Serving

LEMMA OpenShape == ASSUME Shape, OpenDirectory PROVE Shape'
<1>1. pc = "open" /\ UNCHANGED <<mounted, served, spent, look>>
  BY DEF OpenDirectory
<1>2. volume \in Volumes /\ Mapped /\ volume' = volume /\ type' = type /\ Entries' = Entries /\ objects' = objects
  BY <1>1, SameVolume DEF mounted, served, Shape, Serving
<1>3. Mapped'
  BY <1>1, <1>2, KeepsMapped
<1>4. <<>> \in Seq(Entries) /\ Len(<<>>) = 0 /\ HEAP \in Nat
  BY HeapSize
<1>s. size' \in {size, NoSize}
  BY DEF OpenDirectory, file
<1>t. SpentOK'
  BY <1>1, <1>s DEF Shape, SpentOK, spent, NoSize
<1>5. CASE look.dir.normal
  <2>1. Enter(look.dir.cluster) /\ data' = <<>> /\ entries' = entries
    BY <1>5 DEF OpenDirectory
  <2>2. look.dir.cluster \in Nat
    <3>1. look.dir \in Directories
      BY DEF Shape
    <3> QED  BY <1>5, <3>1 DEF Directories, Region, Normal
  <2>3. pc' \in {"panicked", "read"} /\ (pc' = "read" => WalkOK')
    BY <1>1, <1>2, <2>1, <2>2, EnterShape
  <2> QED  BY <1>t, <1>1, <1>2, <1>3, <1>4, <2>1, <2>3 DEF Shape, ReadOK, Serving
<1>6. CASE ~look.dir.normal
  <2>1. entries' = rdr /\ pc' = "scan" /\ data' = data
    BY <1>6 DEF OpenDirectory, Goto, file
  <2>2. rdr \in Seq(Entries)
    BY <1>2, MountedVolume
  <2> QED  BY <1>t, <1>1, <1>2, <1>3, <2>1, <2>2 DEF Shape, ReadOK, Serving
<1> QED  BY <1>5, <1>6

LEMMA DirectoryReadShape == ASSUME Shape, DirectoryRead PROVE Shape'
<1>1. /\ pc = "done" /\ UNCHANGED <<mounted, served, spent, look, size>> /\ entries' = data /\ data' = <<>>
      /\ pc' = "scan"
  BY DEF DirectoryRead, Goto
<1>2. volume' = volume /\ type' = type /\ Entries' = Entries /\ objects' = objects /\ Mapped'
  BY <1>1, SameVolume, KeepsMapped DEF mounted, served, Shape, Serving
<1>3. <<>> \in Seq(Entries) /\ Len(<<>>) = 0 /\ HEAP \in Nat
  BY HeapSize
<1>4. SpentOK'
  BY <1>1 DEF Shape, SpentOK, spent
<1> QED  BY <1>1, <1>2, <1>3, <1>4 DEF Shape, ReadOK, Serving

LEMMA ShortShape == ASSUME Shape, ShortEntry PROVE Shape'
<1>1. /\ pc = "scan" /\ entries # <<>> /\ ~entries[1].long
      /\ UNCHANGED <<mounted, kept>>
      /\ Yield(entries[1], to_short_name(look.path[1]) = entries[1].name, 1)
  BY DEF ShortEntry
<1>2. entries \in Seq(Entries)
  BY DEF Shape, ReadOK
<1>3. entries[1] \in Entries
  BY <1>1, <1>2
<1>4. PICK m : m = (to_short_name(look.path[1]) = entries[1].name)
  OBVIOUS
<1>5. Yield(entries[1], m, 1)
  BY <1>1, <1>4
<1> QED  BY <1>1, <1>3, <1>5, YieldShape DEF Serving

LEMMA LongShape == ASSUME Shape, LongEntry PROVE Shape'
<1>1. /\ pc = "scan" /\ entries # <<>> /\ UNCHANGED <<mounted, request, reply, kept>>
  BY DEF LongEntry
<1>2. entries \in Seq(Entries)
  BY DEF Shape, ReadOK
<1>3. PICK count : count = LongCount(entries[1])
  OBVIOUS
<1>4. count \in Nat
  BY <1>3, CountType
<1>5. CASE LongSet(entries, 1)
  <2>1. 1 + count <= Len(entries) /\ ~entries[1 + count].long
    BY <1>3, <1>5 DEF LongSet, LongsValid
  <2>2. entries[1 + count] \in Entries
    BY <1>2, <1>4, <2>1
  <2>3. Yield(entries[1 + count], LongNameAt(entries, 1) = look.path[1], count)
    BY <1>3, <1>5 DEF LongEntry
  <2>4. PICK m : m = (LongNameAt(entries, 1) = look.path[1])
    OBVIOUS
  <2>5. Yield(entries[1 + count], m, count)
    BY <2>3, <2>4
  <2> QED  BY <1>1, <1>4, <2>1, <2>2, <2>5, YieldShape DEF Serving
<1>6. CASE ~LongSet(entries, 1)
  <2>1. pc' = "panicked" /\ UNCHANGED <<objects, certificates, look, entries, file>>
    BY <1>6 DEF LongEntry, Panic
  <2>2. volume' = volume /\ type' = type /\ Entries' = Entries /\ data' = data
    BY <1>1, <2>1, SameVolume DEF mounted, file
  <2>3. SpentOK'
    BY <1>1, <2>1 DEF Shape, SpentOK, file
  <2> QED  BY <2>1, <2>2, <2>3 DEF Shape, ReadOK, Serving
<1> QED  BY <1>5, <1>6

LEMMA NoEntryShape == ASSUME Shape, NoEntry PROVE Shape'
<1>1. pc' = "panicked" /\ UNCHANGED <<mounted, served, spent, look, entries, file>>
  BY DEF NoEntry, Panic
<1>2. volume' = volume /\ type' = type /\ Entries' = Entries /\ data' = data /\ objects' = objects
  BY <1>1, SameVolume DEF mounted, file, served
<1>3. SpentOK'
  BY <1>1 DEF Shape, SpentOK, spent, file
<1> QED  BY <1>1, <1>2, <1>3 DEF Shape, ReadOK, Serving

\* A request for a file is answered, or the program ends.
LEMMA AnswerShape ==
  ASSUME Shape, pc = "done", UNCHANGED <<mounted, objects, request>>, kept' \in Nat, certificates' \in Nat,
         Answer \/ (pc' = "panicked" /\ UNCHANGED <<look, entries, file>>)
  PROVE  Shape'
<1>1. /\ volume' = volume /\ type' = type /\ objects' = objects /\ Entries' = Entries /\ Mapped'
      /\ NoSize \in Nat /\ size \in Nat
  BY SameVolume, KeepsMapped DEF mounted, Shape, Serving, SpentOK, NoSize
<1>2. <<>> \in Seq(Entries) /\ Len(<<>>) = 0 /\ HEAP \in Nat /\ <<>> \in Seq(Names)
  BY HeapSize
<1>3. CASE Answer
  <2>1. /\ pc' = "idle" /\ look' = NoLook /\ entries' = <<>> /\ data' = <<>> /\ size' = NoSize
    BY <1>3 DEF Answer, Return
  <2>2. SpentOK'
    BY <1>1, <2>1 DEF SpentOK
  <2> QED  BY <1>1, <1>2, <2>1, <2>2 DEF Shape, ReadOK, Serving, NoLook, Directories
<1>4. CASE pc' = "panicked" /\ UNCHANGED <<look, entries, file>>
  <2>1. SpentOK'
    BY <1>1, <1>4 DEF SpentOK, file
  <2> QED  BY <1>1, <1>4, <2>1 DEF Shape, ReadOK, file, Serving
<1> QED  BY <1>3, <1>4

LEMMA FileShape == ASSUME Shape, Read PROVE Shape'
<1>1. pc = "done" /\ UNCHANGED <<mounted, objects, request, spent>>
  BY DEF Read
<1>2. Answer \/ (pc' = "panicked" /\ UNCHANGED <<look, entries, file>>)
  BY DEF Read, Panic
<1>3. kept' \in Nat /\ certificates' \in Nat
  BY <1>1 DEF Shape, SpentOK, spent
<1> QED  BY <1>1, <1>2, <1>3, AnswerShape

LEMMA LargeShape == ASSUME Shape, ReadLarge PROVE Shape'
<1>1. pc = "done" /\ UNCHANGED <<mounted, objects, request>>
  BY DEF ReadLarge
<1>2. Answer \/ (pc' = "panicked" /\ UNCHANGED <<look, entries, file>>)
  BY DEF ReadLarge, Panic
<1>3. kept \in Nat /\ certificates \in Nat /\ size \in Nat /\ Copied(size) \in Nat
  BY SizesRounded DEF Shape, SpentOK
<1>4. \/ kept' = kept /\ certificates' = certificates
      \/ kept' = kept + Copied(size) /\ certificates' = certificates + 1
  BY DEF ReadLarge, spent, allocate_certificate
<1>5. kept' \in Nat /\ certificates' \in Nat
  BY <1>3, <1>4
<1> QED  BY <1>1, <1>2, <1>5, AnswerShape

LEMMA ReadShape == ASSUME Shape, ReadSector PROVE Shape'
<1>1. pc = "read" /\ UNCHANGED <<mounted, served, spent, look, entries, size>>
  BY DEF ReadSector
<1>2. volume \in Volumes /\ Mapped /\ WalkOK /\ ReadOK
  BY <1>1 DEF Shape, Serving
<1>3. volume' = volume /\ type' = type /\ Entries' = Entries /\ objects' = objects /\ Mapped'
  BY <1>1, <1>2, SameVolume, KeepsMapped DEF mounted, served
<1>s. SpentOK'
  BY <1>1 DEF Shape, SpentOK, spent
<1>4. max_cluster(volume, type)' = max_cluster(volume, type)
  BY <1>3 DEF max_cluster, total_sectors_count, DataStart, root_directory_sectors, fat_sectors, fat_sz, byts_per_sec
<1>5. CASE DriveSector \notin DOMAIN volume.disk \/ Len(data) + DISK_SECTOR_SIZE + kept > HEAP
  <2>1. pc' = "panicked" /\ data' = data
    BY <1>5 DEF ReadSector, Panic
  <2> QED  BY <1>1, <1>3, <1>s, <2>1 DEF Shape, ReadOK, Serving
<1>6. CASE ~(DriveSector \notin DOMAIN volume.disk \/ Len(data) + DISK_SECTOR_SIZE + kept > HEAP)
  <2>1. PICK x : x = volume.disk[DriveSector]
    OBVIOUS
  <2>2. x \in Seq(Entries) /\ Len(x) = DISK_SECTOR_SIZE
    <3>1. DriveSector >= volume.bpb.ratio * DataStart(volume, type)
      BY <1>2, SectorIs DEF WalkOK, Mapped, Kind
    <3>2. \A s \in DOMAIN volume.disk :
             s >= volume.bpb.ratio * DataStart(volume, Kind) => volume.disk[s] \in [1 .. DISK_SECTOR_SIZE -> Entries]
      BY <1>2, FatAssumption DEF Readable, Kind, Entries
    <3>3. x \in [1 .. DISK_SECTOR_SIZE -> Entries]
      BY <1>2, <1>6, <2>1, <3>1, <3>2 DEF Mapped
    <3>4. DISK_SECTOR_SIZE \in Nat
      BY FatAssumption
    <3> QED  BY <3>3, <3>4
  <2>3. data' = data \o x
    BY <1>6, <2>1 DEF ReadSector
  <2>4. data' \in Seq(Entries) /\ Len(data') <= HEAP
    <3>1. data \in Seq(Entries)
      BY <1>2 DEF ReadOK
    <3>2. data \o x \in Seq(Entries) /\ Len(data \o x) = Len(data) + Len(x)
      BY <2>2, <3>1, ConcatProperties
    <3>3. ~(Len(data) + DISK_SECTOR_SIZE + kept > HEAP)
      BY <1>6
    <3>4. Len(data) \in Nat /\ DISK_SECTOR_SIZE \in Nat /\ HEAP \in Nat /\ kept \in Nat
      BY <3>1, FatAssumption, HeapSize DEF Shape, SpentOK
    <3> QED  BY <2>2, <2>3, <3>2, <3>3, <3>4
  <2>5. ReadOK'
    BY <1>1, <1>2, <1>3, <2>4 DEF ReadOK
  <2>6. pc' \in {"done", "read", "panicked"} /\ (pc' = "read" => WalkOK')
    <3>1. CASE size # NoSize /\ Len(data') >= size
      BY <1>6, <3>1 DEF ReadSector, Goto
    <3>2. CASE ~(size # NoSize /\ Len(data') >= size) /\ walk.sector + 1 < volume.bpb.sec_per_clus * volume.bpb.ratio
      <4>1. walk' = [walk EXCEPT !.sector = @ + 1] /\ pc' = pc
        BY <1>6, <3>2 DEF ReadSector
      <4>2. walk'.cluster = walk.cluster /\ walk'.next = walk.next /\ walk'.sector = walk.sector + 1
        BY <4>1
      <4>3. Len(data') = Len(data) + DISK_SECTOR_SIZE /\ DISK_SECTOR_SIZE \in Nat
        <5>1. data \in Seq(Entries)
          BY <1>2 DEF ReadOK
        <5>2. Len(data \o x) = Len(data) + Len(x)
          BY <2>2, <5>1, ConcatProperties
        <5>3. DISK_SECTOR_SIZE \in Nat
          BY FatAssumption
        <5> QED  BY <2>2, <2>3, <5>2, <5>3
      <4>4. /\ walk.cluster \in Nat /\ walk.cluster >= 2 /\ walk.sector \in Nat
            /\ walk.next \in {NoCluster} \cup 2 .. max_cluster(volume, type)
        BY <1>2 DEF WalkOK
      <4>5. walk.cluster \notin 2 .. max_cluster(volume, type) =>
              Len(data') = (walk.sector + 1) * DISK_SECTOR_SIZE
        <5>1. (walk.sector + 1) * DISK_SECTOR_SIZE = walk.sector * DISK_SECTOR_SIZE + DISK_SECTOR_SIZE
          BY <4>3, <4>4
        <5> QED  BY <1>2, <4>3, <5>1 DEF WalkOK
      <4>6. WalkOK'
        BY <1>4, <4>2, <4>4, <4>5 DEF WalkOK
      <4> QED  BY <1>1, <4>1, <4>6
    <3>3. CASE /\ ~(size # NoSize /\ Len(data') >= size)
               /\ ~(walk.sector + 1 < volume.bpb.sec_per_clus * volume.bpb.ratio)
      <4>1. IF walk.next = NoCluster THEN Goto("done") ELSE Enter(walk.next)
        BY <1>6, <3>3 DEF ReadSector
      <4>2. walk.next \in Nat
        <5>1. max_cluster(volume, type) \in Int
          BY <1>2, MountedVolume
        <5> QED  BY <1>2, <5>1 DEF WalkOK, NoCluster
      <4>3. ASSUME walk.next # NoCluster, Enter(walk.next)
            PROVE  pc' \in {"panicked", "read"} /\ (pc' = "read" => WalkOK')
        <5>1. walk.next \in 2 .. max_cluster(volume, type)
          BY <1>2, <4>3 DEF WalkOK
        <5> QED  BY <1>1, <1>2, <4>2, <4>3, <5>1, EnterShape
      <4> QED  BY <4>1, <4>3 DEF Goto
    <3> QED  BY <3>1, <3>2, <3>3
  <2> QED  BY <1>1, <1>3, <1>s, <2>5, <2>6 DEF Shape, Serving
<1> QED  BY <1>5, <1>6

LEMMA FatNextShape == Shape /\ [FatNext]_fat_vars => Shape'
<1> SUFFICES ASSUME Shape, [FatNext]_fat_vars PROVE Shape'
  OBVIOUS
<1>1. CASE UNCHANGED fat_vars
  <2>1. /\ UNCHANGED <<mounted, objects, pc, look, entries, walk, data, size, kept, certificates>> /\ volume' = volume /\ type' = type
    BY <1>1 DEF fat_vars, mounted, served, spent, file
  <2>2. Entries' = Entries /\ (Mapped => Mapped')
    BY <2>1, SameVolume, KeepsMapped
  <2>3. max_cluster(volume, type)' = max_cluster(volume, type)
    BY <2>1 DEF max_cluster, total_sectors_count, DataStart, root_directory_sectors, fat_sectors, fat_sz, byts_per_sec
  <2>4. (WalkOK => WalkOK') /\ (ReadOK => ReadOK') /\ (SpentOK => SpentOK')
    BY <2>1, <2>2, <2>3 DEF WalkOK, ReadOK, SpentOK
  <2> QED  BY <2>1, <2>2, <2>4 DEF Shape
<1>2. CASE Serve
  BY <1>2, MountShape, OpenShape, DirectoryReadShape, ShortShape, LongShape, NoEntryShape, ReadShape,
     FileShape, LargeShape DEF Serve
<1>3. CASE \E op \in Operations, object \in objects, path \in Paths : Call(op, object, path)
  BY <1>3, CallShape
<1> QED  BY <1>1, <1>2, <1>3 DEF FatNext

-----------------------------------------------------------------------------
(* Sound volumes.                                                          *)

\* A file's records, and whether a path leads to one.
Content(v, f) == Contents(v, determine_type(v), f)
IsFile(v, path) == \E f \in v.files : path \in f.paths

\* What stands for a path: the directory of the file there, or a cluster that
\* cannot be entered.
Stands(v, dir, path) ==
  IF IsFile(v, path)
    THEN \E f \in v.files : path \in f.paths /\ dir = DirectoryOf(determine_type(v), f)
    ELSE dir = Normal(0)

\* The parts of a volume's soundness.
RootThere(v) ==
  \E f \in v.files : f.paths = {<<>>} /\ DirectoryOf(determine_type(v), f) = RootOf(v, determine_type(v))
PathsApart(v) == \A f, g \in v.files : f.paths \cap g.paths # {} => f = g
Stored(v) ==
  \A f \in v.files :
    /\ Chained(v, determine_type(v), f.chain) /\ Len(Content(v, f)) <= HEAP
    /\ \E n \in 0 .. Len(Content(v, f)) : f.data = SubSeq(Content(v, f), 1, n)
Leads(v) ==
  \A f \in v.files : \A path \in f.paths, k \in DOMAIN Content(v, f), name \in Names :
    NamedAt(Content(v, f), k, name) => Describes(v, EntryAt(Content(v, f), k), Append(path, name))
Complete(v) ==
  \A f \in v.files : \A path \in f.paths : \A i \in 1 .. Len(path) :
    \E g \in v.files : \E k \in DOMAIN Content(v, g) :
      /\ SubSeq(path, 1, i - 1) \in g.paths
      /\ NamedAt(Content(v, g), k, path[i]) /\ Passable(Content(v, g), k)

\* A volume that says it is sound is.
LEMMA SoundParts ==
  ASSUME NEW v \in Volumes, v.sound
  PROVE  /\ validate_bpb(v, determine_type(v))
         /\ EnoughForTable(v) /\ EnoughForData(v, determine_type(v))
         /\ RootThere(v) /\ PathsApart(v) /\ Stored(v) /\ Leads(v) /\ Complete(v)
<1>1. Sound(v)
  BY FatAssumption
<1>2. /\ validate_bpb(v, determine_type(v)) /\ RootThere(v) /\ PathsApart(v)
      /\ EnoughForTable(v) /\ EnoughForData(v, determine_type(v))
  BY <1>1 DEF Sound, RootThere, PathsApart
<1>3. Stored(v)
  BY <1>1 DEF Sound, Stored, Content
<1>4. Leads(v)
  BY <1>1 DEF Sound, Leads, Content
<1>5. Complete(v)
  BY <1>1 DEF Sound, Complete, Content
<1> QED  BY <1>2, <1>3, <1>4, <1>5

\* A path leads to one file.
LEMMA OneFile ==
  ASSUME NEW v \in Volumes, v.sound, NEW f \in v.files, NEW g \in v.files, NEW path, path \in f.paths, path \in g.paths
  PROVE  f = g
<1>1. f.paths \cap g.paths # {}
  OBVIOUS
<1> QED  BY <1>1, SoundParts DEF PathsApart

\* The directory that the first capability is for is the root.
LEMMA RootStands ==
  ASSUME NEW v \in Volumes, v.sound
  PROVE  Stands(v, RootOf(v, determine_type(v)), <<>>)
<1>1. PICK f \in v.files : f.paths = {<<>>} /\ DirectoryOf(determine_type(v), f) = RootOf(v, determine_type(v))
  BY SoundParts DEF RootThere
<1>2. <<>> \in f.paths
  BY <1>1
<1> QED  BY <1>1, <1>2 DEF Stands, IsFile

\* Only the root's data can be in the region.
LEMMA BelowRoot ==
  ASSUME NEW v \in Volumes, v.sound, NEW f \in v.files, NEW path \in f.paths, path # <<>>
  PROVE  /\ ~InRegion(determine_type(v), f)
         /\ DirectoryOf(determine_type(v), f) = Normal(FirstCluster(f))
<1>1. PICK r \in v.files : r.paths = {<<>>}
  BY SoundParts DEF RootThere
<1>2. <<>> \notin f.paths
  <2> SUFFICES ASSUME <<>> \in f.paths PROVE FALSE
    OBVIOUS
  <2>1. f = r
    BY <1>1, OneFile
  <2> QED  BY <1>1, <2>1
<1> QED  BY <1>2 DEF InRegion, DirectoryOf

\* What soundness says of any file.
LEMMA FileFacts ==
  ASSUME NEW v \in Volumes, v.sound, NEW f \in v.files
  PROVE  /\ Chained(v, determine_type(v), f.chain)
         /\ Content(v, f) \in Seq(RecordsOf(v, determine_type(v))) /\ Len(Content(v, f)) <= HEAP
         /\ \E n \in 0 .. Len(Content(v, f)) : f.data = SubSeq(Content(v, f), 1, n)
<1>1. /\ Chained(v, determine_type(v), f.chain) /\ Len(Content(v, f)) <= HEAP
      /\ \E n \in 0 .. Len(Content(v, f)) : f.data = SubSeq(Content(v, f), 1, n)
  BY SoundParts DEF Stored
<1>2. Content(v, f) \in Seq(RecordsOf(v, determine_type(v)))
  <2>1. CASE InRegion(determine_type(v), f)
    <3>1. Content(v, f) = RegionOf(v, determine_type(v))
      BY <2>1 DEF Content, Contents
    <3> QED  BY <3>1, FatAssumption DEF Readable
  <2>2. CASE ~InRegion(determine_type(v), f)
    BY <1>1, <2>2, FileContents DEF Content
  <2> QED  BY <2>1, <2>2
<1> QED  BY <1>1, <1>2, Zenon

\* What an entry on the way leads to.
LeadsTo(v, short, way) ==
  /\ Stands(v, Normal(short.cluster), way)
  /\ IsFile(v, way) => \E g \in v.files : /\ way \in g.paths /\ ~InRegion(determine_type(v), g)
                                          /\ short.cluster = FirstCluster(g) /\ short.size = Len(g.data)
  /\ ~IsFile(v, way) => short.cluster = 0

LEMMA EntryLeads ==
  ASSUME NEW v \in Volumes, v.sound, NEW f \in v.files, NEW path \in f.paths, path \in Seq(Names),
         NEW k \in DOMAIN Content(v, f), NEW name \in Names, NamedAt(Content(v, f), k, name)
  PROVE  LeadsTo(v, EntryAt(Content(v, f), k), Append(path, name))
<1>0. PICK short, way : short = EntryAt(Content(v, f), k) /\ way = Append(path, name)
  OBVIOUS
<1>1. Describes(v, short, way)
  BY <1>0, SoundParts DEF Leads
<1>2. way # <<>>
  BY <1>0
<1>3. CASE IsFile(v, way)
  <2>1. PICK g \in v.files : way \in g.paths /\ short.cluster = FirstCluster(g) /\ short.size = Len(g.data)
    BY <1>1, <1>3 DEF Describes, IsFile
  <2>2. ~InRegion(determine_type(v), g) /\ DirectoryOf(determine_type(v), g) = Normal(FirstCluster(g))
    BY <1>2, <2>1, BelowRoot
  <2> QED  BY <1>0, <1>3, <2>1, <2>2 DEF Stands, LeadsTo
<1>4. CASE ~IsFile(v, way)
  <2>1. short.cluster = 0
    BY <1>1, <1>4 DEF Describes, IsFile
  <2> QED  BY <1>0, <1>4, <2>1 DEF Stands, LeadsTo
<1> QED  BY <1>3, <1>4

\* Directories on the way to a file have an entry for the next name.
LEMMA OnTheWay ==
  ASSUME NEW v \in Volumes, v.sound, NEW path \in Seq(Names), NEW rest \in Seq(Names), rest # <<>>,
         IsFile(v, path \o rest)
  PROVE  /\ IsFile(v, path)
         /\ \A f \in v.files : path \in f.paths =>
              \E k \in DOMAIN Content(v, f) : NamedAt(Content(v, f), k, rest[1]) /\ Passable(Content(v, f), k)
<1>1. PICK h \in v.files : path \o rest \in h.paths
  BY DEF IsFile
<1>2. PICK all, i : all = path \o rest /\ i = Len(path) + 1
  OBVIOUS
<1>3. i \in 1 .. Len(all) /\ SubSeq(all, 1, i - 1) = path /\ all[i] = rest[1]
  <2>1. Len(rest) >= 1 /\ Len(path) \in Nat /\ Len(all) = Len(path) + Len(rest)
    BY <1>2
  <2>2. all[i] = rest[1]
    BY <1>2
  <2>3. SubSeq(all, 1, i - 1) = path
    BY <1>2
  <2> QED  BY <1>2, <2>1, <2>2, <2>3
<1>4. PICK g \in v.files : \E k \in DOMAIN Content(v, g) :
          /\ SubSeq(all, 1, i - 1) \in g.paths
          /\ NamedAt(Content(v, g), k, all[i]) /\ Passable(Content(v, g), k)
  <2>1. all \in h.paths
    BY <1>1, <1>2
  <2>2. Complete(v)
    BY SoundParts
  <2> QED  BY <1>3, <2>1, <2>2 DEF Complete
<1>5. path \in g.paths
  BY <1>3, <1>4
<1>6. ASSUME NEW f \in v.files, path \in f.paths PROVE f = g
  BY <1>5, <1>6, OneFile
<1> QED  BY <1>3, <1>4, <1>5, <1>6 DEF IsFile

-----------------------------------------------------------------------------
(* Looking through a directory.                                            *)

\* An entry that the program looks at is not in the middle of a long name.
Begins(e, p) == p <= Len(e) /\ e[p].long => p = 1 \/ ~e[p - 1].long

\* The entry that is looked for comes.
Ahead(e, p, name) == \E k \in p .. Len(e) : NamedAt(e, k, name) /\ Passable(e, k)

\* Part of a sequence.
LEMMA Slice ==
  ASSUME NEW R, NEW e \in Seq(R), NEW a \in 1 .. Len(e) + 1, NEW b \in a - 1 .. Len(e),
         NEW n, n = b - a + 1, NEW s, s = SubSeq(e, a, b)
  PROVE  s \in Seq(R) /\ Len(s) = n /\ n \in Nat /\ \A j \in 1 .. n : s[j] = e[a + j - 1]
OBVIOUS

\* The entries of a set are long, and but for the first none begins a set.
LEMMA SetOfLongs ==
  ASSUME NEW R, NEW e \in Seq(R), NEW l \in 1 .. Len(e), LongSet(e, l)
  PROVE  /\ LongCount(e[l]) \in 1 .. 63 /\ l + LongCount(e[l]) <= Len(e)
         /\ ~e[l + LongCount(e[l])].long
         /\ \A i \in l .. l + LongCount(e[l]) - 1 : e[i].long
         /\ \A i \in l + 1 .. l + LongCount(e[l]) - 1 : ~LongSet(e, i)
<1>1. PICK c, longs : c = LongCount(e[l]) /\ longs = SubSeq(e, l, l + c - 1)
  OBVIOUS
<1>2. c \in 0 .. 63
  BY <1>1, CountType
<1>3. c > 0 /\ l + c <= Len(e) /\ LongsValid(longs, e[l + c])
  BY <1>1 DEF LongSet
<1>4. c \in 1 .. 63 /\ l + c - 1 \in l .. Len(e)
  BY <1>2, <1>3
<1>5. /\ Len(longs) = c /\ DOMAIN longs = 1 .. c
      /\ \A j \in 1 .. c : longs[j] = e[l + j - 1]
  <2>1. l \in 1 .. Len(e) + 1 /\ l + c - 1 \in l - 1 .. Len(e) /\ c = (l + c - 1) - l + 1
    BY <1>4
  <2>2. longs \in Seq(R) /\ Len(longs) = c /\ \A j \in 1 .. c : longs[j] = e[l + j - 1]
    BY <1>1, <2>1, Slice
  <2> QED  BY <2>2
<1>6. /\ ~e[l + c].long
      /\ \A j \in 1 .. c : longs[j].long /\ longs[j].ord = ord(c + 1 - j, c)
  BY <1>3, <1>5 DEF LongsValid
<1>7. ASSUME NEW i \in l .. l + c - 1
      PROVE  e[i].long /\ e[i].ord = ord(c + 1 - (i - l + 1), c)
  <2>1. PICK j : j = i - l + 1
    OBVIOUS
  <2>2. j \in 1 .. c /\ i = l + j - 1
    BY <1>4, <2>1
  <2>3. longs[j] = e[i] /\ longs[j].long /\ longs[j].ord = ord(c + 1 - j, c)
    BY <1>5, <1>6, <2>2
  <2> QED  BY <2>1, <2>3
<1>8. ASSUME NEW i \in l + 1 .. l + c - 1
      PROVE  ~LongSet(e, i)
  <2>1. PICK m : m = c + 1 - (i - l + 1)
    OBVIOUS
  <2>2. m \in 1 .. c - 1 /\ i \in l .. l + c - 1
    BY <1>4, <2>1
  <2>3. e[i].ord = ord(m, c)
    BY <1>7, <2>1, <2>2
  <2>4. e[i].ord = m
    BY <1>4, <2>2, <2>3 DEF ord
  <2>5. e[i].ord \notin 65 .. 64 + MAX_LONG_ENTRIES
    BY <1>4, <2>2, <2>4
  <2>6. LongCount(e[i]) = 0
    BY <2>5 DEF LongCount
  <2> QED  BY <2>6 DEF LongSet
<1> QED  BY <1>1, <1>3, <1>4, <1>6, <1>7, <1>8

\* An entry that is not the one looked for is passed: the next one is still
\* not in the middle of a long name, and what is looked for is still ahead.
LEMMA ShortPassed ==
  ASSUME NEW R, NEW e \in Seq(R), NEW p \in 1 .. Len(e), ~e[p].long, NEW name
  PROVE  /\ Begins(e, p + 1)
         /\ Ahead(e, p, name) /\ ~NamedAt(e, p, name) => Ahead(e, p + 1, name) /\ e[p].name[1] # 0
<1>1. Begins(e, p + 1)
  BY DEF Begins
<1>2. ASSUME Ahead(e, p, name), ~NamedAt(e, p, name) PROVE Ahead(e, p + 1, name) /\ e[p].name[1] # 0
  <2>1. PICK k \in p .. Len(e) : NamedAt(e, k, name) /\ Passable(e, k)
    BY <1>2 DEF Ahead
  <2>2. k # p
    BY <1>2, <2>1
  <2>3. k \in p + 1 .. Len(e) /\ p \in 1 .. k - 1
    BY <2>2
  <2>4. e[p].name[1] # 0
    BY <2>1, <2>3 DEF Passable
  <2> QED  BY <2>1, <2>3, <2>4 DEF Ahead
<1> QED  BY <1>1, <1>2

\* So is a set of long entries, up to the short entry after it.
LEMMA LongPassed ==
  ASSUME NEW R, NEW e \in Seq(R), NEW p \in 1 .. Len(e), e[p].long, Begins(e, p), NEW name,
         NEW c, c = LongCount(e[p])
  PROVE  /\ LongSet(e, p) => Begins(e, p + c) /\ p + c \in 1 .. Len(e)
         /\ Ahead(e, p, name) => LongSet(e, p)
         /\ Ahead(e, p, name) /\ ~NamedAt(e, p, name) => Ahead(e, p + c, name) /\ e[p + c].name[1] # 0
<1>1. c \in 0 .. 63
  BY CountType
<1>2. ASSUME LongSet(e, p) PROVE Begins(e, p + c) /\ p + c \in 1 .. Len(e)
  <2>1. c \in 1 .. 63 /\ p + c <= Len(e) /\ ~e[p + c].long
    BY <1>2, SetOfLongs
  <2>2. Begins(e, p + c)
    BY <2>1, Zenon DEF Begins
  <2>3. p + c \in 1 .. Len(e)
    <3>a. Len(e) \in Nat
      BY LenProperties, Zenon
    <3>b. c \in Nat
      <4>1. PICK d : d = c
        OBVIOUS
      <4>2. d \in 1 .. 63
        BY <2>1, <4>1, Zenon
      <4>3. d \in Nat
        BY <4>2
      <4> QED  BY <4>1, <4>3, Zenon
    <3>0. Len(e) \in Nat /\ c \in Nat
      BY <3>a, <3>b, Zenon
    <3>1. PICK n, d \in Nat : n = Len(e) /\ d = c
      BY <3>0, Zenon
    <3>2. p \in 1 .. n /\ d >= 1 /\ p + d <= n
      BY <2>1, <3>1
    <3>3. p + d \in 1 .. n
      BY <3>2
    <3> QED  BY <3>1, <3>3
  <2> QED  BY <2>2, <2>3
<1>3. ASSUME Ahead(e, p, name)
      PROVE  LongSet(e, p) /\ (~NamedAt(e, p, name) => Ahead(e, p + c, name) /\ e[p + c].name[1] # 0)
  <2>1. PICK k \in p .. Len(e) : NamedAt(e, k, name) /\ Passable(e, k)
    BY <1>3 DEF Ahead
  <2>2. CASE k = p
    BY <2>1, <2>2 DEF NamedAt
  <2>3. CASE k # p
    <3>1. k \in p + 1 .. Len(e) /\ p \in 1 .. k - 1
      BY <2>3
    <3>2. PICK l \in 1 .. p : e[l].long /\ LongSet(e, l) /\ p < l + LongCount(e[l])
      BY <2>1, <3>1 DEF Passable
    <3>3. l = p
      <4> SUFFICES ASSUME l # p PROVE FALSE
        OBVIOUS
      <4>1. PICK m : m = LongCount(e[l])
        OBVIOUS
      <4>2. l \in 1 .. Len(e) /\ m \in 0 .. 63 /\ p < l + m
        BY <3>2, <4>1, CountType
      <4>3. p - 1 \in l .. l + m - 1
        BY <4>2
      <4>4. e[p - 1].long
        BY <3>2, <4>1, <4>2, <4>3, SetOfLongs
      <4>5. p # 1 /\ p <= Len(e)
        BY <4>2
      <4> QED  BY <4>4, <4>5 DEF Begins
    <3>4. LongSet(e, p)
      BY <3>2, <3>3
    <3>5. /\ c \in 1 .. 63 /\ p + c <= Len(e) /\ ~e[p + c].long
          /\ \A i \in p .. p + c - 1 : e[i].long
          /\ \A i \in p + 1 .. p + c - 1 : ~LongSet(e, i)
      BY <3>4, SetOfLongs
    <3>6. ~(k < p + c)
      <4> SUFFICES ASSUME k < p + c PROVE FALSE
        OBVIOUS
      <4>1. k \in p + 1 .. p + c - 1 /\ k \in p .. p + c - 1
        BY <3>1, <3>5
      <4>2. e[k].long /\ ~LongSet(e, k)
        BY <3>5, <4>1
      <4> QED  BY <2>1, <4>2 DEF NamedAt
    <3>7. k \in p + c .. Len(e)
      BY <3>1, <3>5, <3>6
    <3>8. e[p + c].name[1] # 0
      <4>1. CASE k = p + c
        <5>1. ~e[k].long
          BY <3>5, <4>1
        <5>2. k + 0 = k
          OBVIOUS
        <5>3. EntryAt(e, k) = e[k]
          BY <5>1, <5>2 DEF EntryAt
        <5>4. EntryAt(e, k).name[1] \notin {0, 229}
          BY <2>1, Zenon DEF NamedAt
        <5>5. EntryAt(e, k).name[1] # 0
          BY <5>4
        <5> QED  BY <4>1, <5>3, <5>5, Zenon
      <4>2. CASE k # p + c
        <5>1. p + c \in 1 .. k - 1
          <6>1. PICK d : d = c
            OBVIOUS
          <6>2. d \in 1 .. 63 /\ k \in p + d .. Len(e) /\ k # p + d
            BY <3>5, <3>7, <4>2, <6>1, Zenon
          <6>3. p + d \in 1 .. k - 1
            BY <6>2
          <6> QED  BY <6>1, <6>3, Zenon
        <5>2. PICK q : q = p + c
          OBVIOUS
        <5>3. q \in 1 .. k - 1 /\ ~e[q].long
          BY <3>5, <5>1, <5>2
        <5>4. e[q].name[1] # 0
          BY <2>1, <5>3, Zenon DEF Passable
        <5> QED  BY <5>2, <5>4
      <4> QED  BY <4>1, <4>2
    <3> QED  BY <2>1, <3>4, <3>7, <3>8 DEF Ahead
  <2> QED  BY <2>2, <2>3
<1> QED  BY <1>2, <1>3

\* What the program sees of a directory's entries from place p on.
LEMMA SeenAt ==
  ASSUME NEW R, NEW C \in Seq(R), NEW p \in 1 .. Len(C), NEW e, e = SubSeq(C, p, Len(C))
  PROVE  /\ e \in Seq(R) /\ Len(e) = Len(C) - p + 1 /\ e # <<>> /\ e[1] = C[p]
         /\ \A i \in 1 .. Len(e) : e[i] = C[p + i - 1]
         /\ \A i \in 1 .. Len(e) : SubSeq(e, i + 1, Len(e)) = SubSeq(C, p + i, Len(C))
<1>1. PICK n \in Nat : n = Len(C) - p + 1
  OBVIOUS
<1>2. n >= 1 /\ e \in Seq(R) /\ Len(e) = n /\ \A i \in 1 .. n : e[i] = C[p + i - 1]
  <2>1. n >= 1 /\ p \in 1 .. Len(C) + 1 /\ Len(C) \in p - 1 .. Len(C)
    BY <1>1
  <2> QED  BY <1>1, <2>1, Slice
<1>3. e # <<>> /\ e[1] = C[p]
  <2>1. e[1] = C[p + 1 - 1] /\ p + 1 - 1 = p
    BY <1>1, <1>2
  <2>2. Len(e) # 0
    BY <1>1, <1>2
  <2> QED  BY <2>1, <2>2
<1>4. ASSUME NEW i \in 1 .. n
      PROVE  SubSeq(e, i + 1, n) = SubSeq(C, p + i, Len(C))
  <2>1. PICK x, y : x = SubSeq(e, i + 1, n) /\ y = SubSeq(C, p + i, Len(C))
    OBVIOUS
  <2>0. PICK m \in Nat : m = n - i
    BY <1>2
  <2>2. x \in Seq(R) /\ Len(x) = m /\ \A j \in 1 .. m : x[j] = e[i + 1 + j - 1]
    <3>1. i + 1 \in 1 .. Len(e) + 1 /\ n \in (i + 1) - 1 .. Len(e) /\ m = n - (i + 1) + 1
      BY <1>2, <2>0
    <3>2. PICK k : k = i + 1
      OBVIOUS
    <3>3. k \in 1 .. Len(e) + 1 /\ n \in k - 1 .. Len(e) /\ m = n - k + 1 /\ x = SubSeq(e, k, n)
      BY <2>1, <3>1, <3>2, Zenon
    <3>4. x \in Seq(R) /\ Len(x) = m /\ \A j \in 1 .. m : x[j] = e[k + j - 1]
      BY <1>2, <3>3, Slice
    <3> QED  BY <3>2, <3>4, Zenon
  <2>3. y \in Seq(R) /\ Len(y) = m /\ \A j \in 1 .. m : y[j] = C[p + i + j - 1]
    <3>1. p + i \in 1 .. Len(C) + 1 /\ Len(C) \in (p + i) - 1 .. Len(C) /\ m = Len(C) - (p + i) + 1
      BY <1>1, <2>0
    <3>2. PICK k : k = p + i
      OBVIOUS
    <3>3. k \in 1 .. Len(C) + 1 /\ Len(C) \in k - 1 .. Len(C) /\ m = Len(C) - k + 1 /\ y = SubSeq(C, k, Len(C))
      BY <2>1, <3>1, <3>2, Zenon
    <3>4. y \in Seq(R) /\ Len(y) = m /\ \A j \in 1 .. m : y[j] = C[k + j - 1]
      BY <3>3, Slice
    <3> QED  BY <3>2, <3>4, Zenon
  <2>4. ASSUME NEW j \in 1 .. m PROVE x[j] = y[j]
    <3>1. i + j \in 1 .. n /\ p + (i + j) - 1 = p + i + j - 1 /\ i + 1 + j - 1 = i + j
      BY <1>1, <2>0
    <3>2. e[i + j] = C[p + (i + j) - 1]
      BY <1>2, <3>1
    <3> QED  BY <2>2, <2>3, <3>1, <3>2
  <2> QED  BY <2>1, <2>2, <2>3, <2>4, SeqEqual
<1> QED  BY <1>1, <1>2, <1>3, <1>4

\* A set of long entries is seen as it is in the directory.
LEMMA LongSeenAt ==
  ASSUME NEW R, NEW C \in Seq(R), NEW p \in 1 .. Len(C), NEW e, e = SubSeq(C, p, Len(C))
  PROVE  /\ LongSet(e, 1) <=> LongSet(C, p)
         /\ LongSet(C, p) => /\ LongNameAt(e, 1) = LongNameAt(C, p)
                             /\ e[1 + LongCount(e[1])] = C[p + LongCount(C[p])]
<1>1. PICK c : c = LongCount(C[p])
  OBVIOUS
<1>2. c \in 0 .. 63
  BY <1>1, CountType
<1>3. /\ e \in Seq(R) /\ Len(e) = Len(C) - p + 1 /\ e[1] = C[p]
      /\ \A i \in 1 .. Len(e) : e[i] = C[p + i - 1]
  BY SeenAt
<1>4. LongCount(e[1]) = c
  BY <1>1, <1>3
<1>5. 1 + c <= Len(e) <=> p + c <= Len(C)
  BY <1>2, <1>3
<1>6. ASSUME c > 0, p + c <= Len(C)
      PROVE  /\ e[1 + c] = C[p + c]
             /\ SubSeq(e, 1, 1 + c - 1) = SubSeq(C, p, p + c - 1)
  <2>1. c \in 1 .. 63 /\ 1 + c \in 1 .. Len(e) /\ p + (1 + c) - 1 = p + c /\ 1 + c - 1 = c
    BY <1>2, <1>3, <1>6
  <2>2. e[1 + c] = C[p + c]
    BY <1>3, <2>1
  <2>3. PICK x, y : x = SubSeq(e, 1, c) /\ y = SubSeq(C, p, p + c - 1)
    OBVIOUS
  <2>4. x \in Seq(R) /\ Len(x) = c /\ \A j \in 1 .. c : x[j] = e[j]
    <3>1. c \in Nat /\ c <= Len(e)
      BY <1>3, <2>1
    <3> QED  BY <1>3, <2>3, <3>1, FirstRecords
  <2>5. y \in Seq(R) /\ Len(y) = c /\ \A j \in 1 .. c : y[j] = C[p + j - 1]
    <3>1. PICK b : b = p + c - 1
      OBVIOUS
    <3>2. p \in 1 .. Len(C) + 1 /\ b \in p - 1 .. Len(C) /\ c = b - p + 1
      BY <1>6, <2>1, <3>1
    <3> QED  BY <2>3, <3>1, <3>2, Slice
  <2>6. ASSUME NEW j \in 1 .. c PROVE x[j] = y[j]
    <3>1. j \in 1 .. Len(e)
      BY <1>3, <2>1
    <3> QED  BY <1>3, <2>4, <2>5, <3>1
  <2>7. x = y
    BY <2>4, <2>5, <2>6, SeqEqual
  <2> QED  BY <2>1, <2>2, <2>3, <2>7
<1>7. LongSet(e, 1) <=> LongSet(C, p)
  BY <1>1, <1>4, <1>5, <1>6 DEF LongSet
<1>8. ASSUME LongSet(C, p) PROVE LongNameAt(e, 1) = LongNameAt(C, p) /\ e[1 + c] = C[p + c]
  <2>1. c > 0 /\ p + c <= Len(C)
    BY <1>1, <1>8 DEF LongSet
  <2> QED  BY <1>1, <1>4, <1>6, <2>1 DEF LongNameAt
<1> QED  BY <1>1, <1>4, <1>7, <1>8

-----------------------------------------------------------------------------
(* Serving requests on a sound volume.                                     *)

\* The path that a request is for, from the root.
AskedBy(rq) == rq.at \o rq.path

\* The program looks at what stands for a path, and the rest leads on from it.
Headed(v, lk, rq, path) ==
  /\ lk.path \in Seq(Names) \ {<<>>} /\ path \in Seq(Names)
  /\ path \o lk.path = AskedBy(rq)
  /\ Stands(v, lk.dir, path)
  /\ \E q \in Seq(Names) : path = rq.at \o q

\* A request is one of those that are served, and is not answered yet.
Served(rq, rp) ==
  /\ rq.op \in {"read", "read_large", "subcapability"} /\ ~rp.given
  /\ rq.at \in Seq(Names) /\ rq.path \in Seq(Names) \ {<<>>}

\* The entries left are those of a file's contents from a place on, and the one
\* that is looked for is among them if it has to be.
Scanned(v, e, lk, rq, f) ==
  \E p \in 1 .. Len(Content(v, f)) + 1 :
    /\ e = SubSeq(Content(v, f), p, Len(Content(v, f))) /\ Begins(Content(v, f), p)
    /\ IsFile(v, AskedBy(rq)) => Ahead(Content(v, f), p, lk.path[1])

\* The walk is in a file's chain, and what is read is what comes before it.
Walked(v, w, d, f) ==
  \E i \in DOMAIN f.chain :
    /\ w.cluster = f.chain[i] /\ w.next = Following(f.chain, i)
    /\ w.sector \in 0 .. ClusterSectors(v) - 1
    /\ d = SubSeq(Content(v, f), 1, ((i - 1) * ClusterSectors(v) + w.sector) * DISK_SECTOR_SIZE)

\* A file is read as a directory on the way, or because it was asked for.
Wanted(v, sz, lk, rq, f) ==
  IF sz = NoSize THEN \E path \in f.paths : Headed(v, lk, rq, path)
                 ELSE AskedBy(rq) \in f.paths /\ rq.op \in {"read", "read_large"} /\ sz = Len(f.data)

\* All that is wanted of the file is read.
ReadAll(v, d, sz, f) ==
  IF sz = NoSize THEN d = Content(v, f)
                 ELSE \E m \in 0 .. Len(Content(v, f)) : m >= sz /\ d = SubSeq(Content(v, f), 1, m)

\* The last request, if it was a read, has got the data of the file.
Answered(v, rq, rp) == rp.given => \E f \in v.files : AskedBy(rq) \in f.paths /\ rp.data = f.data

\* The program ends for what cannot be mapped, for what is not implemented, for
\* what is not there, and for files without clusters or too long for a reply.
Ended(v, rq) ==
  \/ rq.op = "none" /\ ~Mappable(v, determine_type(v))
  \/ rq.op = "write"
  \/ ~IsFile(v, AskedBy(rq))
  \/ /\ rq.op \in {"read", "read_large"}
     /\ \E f \in v.files : AskedBy(rq) \in f.paths /\ f.chain = <<>>
  \/ /\ rq.op = "read"
     /\ \E f \in v.files : AskedBy(rq) \in f.paths /\ Len(f.data) > REPLY

\* It ends too when certificates or memory are used up.
Exhausted ==
  \/ request.op \in {"subcapability", "read_large"} /\ certificates > CERTIFICATES
  \/ reason = "memory" /\ (request.op = "read_large" \/ kept > 0)

\* A file that is read by its clusters.
FileOf(v, f) == f \in v.files /\ ~InRegion(determine_type(v), f)

\* Capabilities stand for the directories that they were asked for.
Granted(v, os) == \A o \in os : o.at \in Seq(Names) /\ Stands(v, o.dir, o.at)

\* What holds at the labels of the program.
OpenInv == \E path : Headed(volume, look, request, path)
ScanInv ==
  \E f \in volume.files : \E path \in f.paths :
    Headed(volume, look, request, path) /\ Scanned(volume, entries, look, request, f)
ReadInv == \E f : FileOf(volume, f) /\ Wanted(volume, size, look, request, f) /\ Walked(volume, walk, data, f)
DoneInv == \E f : FileOf(volume, f) /\ Wanted(volume, size, look, request, f) /\ ReadAll(volume, data, size, f)

\* What holds on a sound volume: from a request's arrival on, the program is
\* on the way to the file it is for.
SoundInv ==
  volume.sound =>
    /\ Granted(volume, objects)
    /\ pc = "mount" => ~reply.given /\ request.op = "none"
    /\ pc \in {"open", "scan", "read", "done"} => Served(request, reply)
    /\ pc = "open" => OpenInv
    /\ pc = "scan" => ScanInv
    /\ pc = "read" => ReadInv
    /\ pc = "done" => DoneInv
    /\ pc = "idle" => Answered(volume, request, reply)
    /\ pc = "panicked" => Ended(volume, request) \/ Exhausted

LEMMA FatInitSound == FatInit => SoundInv
BY DEF FatInit, SoundInv, Granted, NoReply

LEMMA MountSound == ASSUME Shape, SoundInv, Mount PROVE SoundInv'
<1> SUFFICES ASSUME volume'.sound PROVE SoundInv'
  BY DEF SoundInv
<1>1. volume' = volume /\ volume \in Volumes /\ volume.sound /\ reply' = reply /\ request' = request /\ pc = "mount"
  BY DEF Mount, Shape
<1>2. /\ validate_bpb(volume, determine_type(volume)) /\ EnoughForTable(volume)
      /\ Granted(volume, objects) /\ ~reply.given /\ request.op = "none"
  BY <1>1, SoundParts DEF SoundInv
<1>e. CASE ~Mappable(volume, determine_type(volume))
  <2>1. pc' = "panicked" /\ objects' = objects
    BY <1>e DEF Mount, Panic
  <2>2. Ended(volume, request)
    BY <1>2, <1>e DEF Ended
  <2> QED  BY <1>1, <1>2, <2>1, <2>2 DEF SoundInv
<1> SUFFICES ASSUME Mappable(volume, determine_type(volume)) PROVE SoundInv'
  BY <1>e
<1>3. objects' = {[at |-> <<>>, dir |-> RootOf(volume, determine_type(volume))]} /\ pc' = "idle"
  BY <1>2 DEF Mount, Goto
<1>4. Granted(volume, objects')
  <2>1. Stands(volume, RootOf(volume, determine_type(volume)), <<>>) /\ <<>> \in Seq(Names)
    BY <1>1, RootStands
  <2>2. ASSUME NEW o \in objects' PROVE o.at \in Seq(Names) /\ Stands(volume, o.dir, o.at)
    <3>1. o.at = <<>> /\ o.dir = RootOf(volume, determine_type(volume))
      BY <1>3
    <3> QED  BY <2>1, <3>1
  <2> QED  BY <2>2 DEF Granted
<1> QED  BY <1>1, <1>2, <1>3, <1>4 DEF SoundInv, Answered

LEMMA CallSound ==
  ASSUME Shape, SoundInv, NEW op \in Operations, NEW object \in objects, NEW path \in Paths, Call(op, object, path)
  PROVE  SoundInv'
<1> SUFFICES ASSUME volume'.sound PROVE SoundInv'
  BY DEF SoundInv
<1>1. /\ pc = "idle" /\ UNCHANGED <<mounted, objects, entries, file>>
      /\ request' = [op |-> op, at |-> object.at, path |-> path] /\ reply' = NoReply
      /\ look' = [dir |-> object.dir, path |-> path]
      /\ IF op = "write" THEN pc' = "panicked" ELSE pc' = "open"
  BY DEF Call, Goto, Panic
<1>2. volume' = volume /\ volume.sound /\ objects' = objects
  BY <1>1 DEF mounted
<1>3. Granted(volume, objects) /\ object.at \in Seq(Names) /\ Stands(volume, object.dir, object.at)
  BY <1>2 DEF SoundInv, Granted
<1>4. path \in Seq(Names) \ {<<>>}
  BY FatAssumption
<1>5. CASE op = "write"
  <2>1. Ended(volume, request')
    BY <1>1, <1>5 DEF Ended
  <2> QED  BY <1>1, <1>2, <1>3, <1>5, <2>1 DEF SoundInv
<1>6. CASE op # "write"
  <2>1. op \in {"read", "read_large", "subcapability"}
    BY <1>6 DEF Operations
  <2>2. Served(request', reply')
    BY <1>1, <1>3, <1>4, <2>1 DEF Served, NoReply
  <2>3. Headed(volume, look', request', object.at)
    <3>1. object.at = object.at \o <<>> /\ <<>> \in Seq(Names)
      BY <1>3
    <3> QED  BY <1>1, <1>3, <1>4, <3>1 DEF Headed, AskedBy
  <2>4. OpenInv'
    BY <1>2, <2>3 DEF OpenInv
  <2> QED  BY <1>1, <1>2, <1>3, <1>6, <2>2, <2>4 DEF SoundInv
<1> QED  BY <1>5, <1>6

\* The first cluster of a file that has one.
LEMMA StartRead ==
  ASSUME volume \in Volumes, volume.sound, Mapped, NEW f, FileOf(volume, f), f.chain # <<>>, Enter(FirstCluster(f))
  PROVE  pc' = "read" /\ Walked(volume, walk', <<>>, f)
<1>1. Chained(volume, type, f.chain) /\ f.chain \in Seq(2 .. max_cluster(volume, type))
  BY FileFacts DEF Mapped, Kind, FileOf, Chained
<1>2. 1 \in DOMAIN f.chain /\ FirstCluster(f) = f.chain[1]
  BY <1>1 DEF FirstCluster
<1>3. /\ type \in Types /\ fat \in Seq(0 .. 255) /\ max_cluster(volume, type) \in Int
      /\ fat = TableOf(volume, type)
  BY MountedVolume DEF Mapped
<1>e. EnoughForData(volume, type)
  BY SoundParts DEF Mapped, Kind
<1>4. /\ walk' = [cluster |-> f.chain[1], next |-> Following(f.chain, 1), sector |-> 0]
      /\ pc' = "read"
  BY <1>1, <1>2, <1>3, <1>e, ChainEntered
<1>5. PICK S, D : S = ClusterSectors(volume) /\ D = DISK_SECTOR_SIZE
  OBVIOUS
<1>6. S \in Nat \ {0} /\ D \in Nat \ {0}
  BY <1>5, Layout
<1>7. ((1 - 1) * S + 0) * D = 0 /\ 0 \in 0 .. S - 1
  BY <1>6
<1>8. SubSeq(Content(volume, f), 1, 0) = <<>>
  OBVIOUS
<1>9. PICK i, w, n : i = 1 /\ w = walk' /\ n = ((i - 1) * S + 0) * D
  OBVIOUS
<1>10. n = 0
  BY <1>7, <1>9
<1>11. <<>> = SubSeq(Content(volume, f), 1, n)
  BY <1>8, <1>10
<1>12. w.cluster = f.chain[i] /\ w.next = Following(f.chain, i) /\ w.sector = 0
  BY <1>4, <1>9
<1>13. <<>> = SubSeq(Content(volume, f), 1, ((i - 1) * ClusterSectors(volume) + w.sector) * DISK_SECTOR_SIZE)
  BY <1>5, <1>9, <1>11, <1>12, Zenon
<1>14. w.sector \in 0 .. ClusterSectors(volume) - 1
  BY <1>5, <1>7, <1>12, Zenon
<1>15. Walked(volume, w, <<>>, f)
  <2>1. i \in DOMAIN f.chain
    BY <1>2, <1>9
  <2> QED  BY <2>1, <1>12, <1>13, <1>14, Zenon DEF Walked
<1> QED  BY <1>4, <1>9, <1>15

LEMMA OpenSound == ASSUME Shape, SoundInv, OpenDirectory PROVE SoundInv'
<1> SUFFICES ASSUME volume'.sound PROVE SoundInv'
  BY DEF SoundInv
<1>1. pc = "open" /\ UNCHANGED <<mounted, served, look>>
  BY DEF OpenDirectory
<1>2. /\ volume' = volume /\ volume.sound /\ volume \in Volumes /\ Mapped
      /\ objects' = objects /\ request' = request /\ reply' = reply /\ look' = look
  BY <1>1 DEF mounted, served, Shape, Serving
<1>3. Granted(volume, objects) /\ Served(request, reply)
  BY <1>1, <1>2 DEF SoundInv
<1>4. PICK path : Headed(volume, look, request, path)
  BY <1>1, <1>2 DEF SoundInv, OpenInv
<1>5. /\ look.path \in Seq(Names) /\ look.path # <<>> /\ path \in Seq(Names)
      /\ path \o look.path = AskedBy(request) /\ Stands(volume, look.dir, path)
  BY <1>4 DEF Headed
<1>6. IsFile(volume, AskedBy(request)) =>
        /\ IsFile(volume, path)
        /\ \A f \in volume.files : path \in f.paths =>
             \E k \in DOMAIN Content(volume, f) :
               NamedAt(Content(volume, f), k, look.path[1]) /\ Passable(Content(volume, f), k)
  <2>1. PICK lp, v : lp = look.path /\ v = volume
    OBVIOUS
  <2>2. lp \in Seq(Names) /\ lp # <<>> /\ path \in Seq(Names) /\ v \in Volumes /\ v.sound
    BY <1>2, <1>5, <2>1
  <2>3. AskedBy(request) = path \o lp
    BY <1>5, <2>1
  <2>4. IsFile(v, path \o lp) =>
          /\ IsFile(v, path)
          /\ \A f \in v.files : path \in f.paths =>
               \E k \in DOMAIN Content(v, f) : NamedAt(Content(v, f), k, lp[1]) /\ Passable(Content(v, f), k)
    BY <2>2, OnTheWay, Zenon
  <2> QED  BY <2>1, <2>3, <2>4
<1>7. request.op # "none"
  BY <1>3 DEF Served
<1>8. CASE ~IsFile(volume, path)
  <2>1. look.dir = Normal(0)
    BY <1>5, <1>8 DEF Stands
  <2>2. Enter(0)
    BY <2>1 DEF OpenDirectory, Normal
  <2>3. pc' = "panicked"
    BY <2>2, ZeroEntered
  <2>4. Ended(volume, request)
    BY <1>6, <1>7, <1>8 DEF Ended
  <2> QED  BY <1>2, <1>3, <2>3, <2>4 DEF SoundInv
<1>9. CASE IsFile(volume, path)
  <2>1. PICK f \in volume.files : path \in f.paths /\ look.dir = DirectoryOf(Kind, f)
    BY <1>5, <1>9 DEF Stands, Kind
  <2>2. PICK C : C = Content(volume, f)
    OBVIOUS
  <2>3. C \in Seq(Entries)
    BY <1>2, <2>2, FileFacts DEF Entries, Kind
  <2>4. IsFile(volume, AskedBy(request)) => \E k \in DOMAIN C : NamedAt(C, k, look.path[1]) /\ Passable(C, k)
    BY <1>6, <2>1, <2>2
  <2>5. CASE InRegion(Kind, f)
    <3>1. ~look.dir.normal
      BY <2>1, <2>5 DEF DirectoryOf, Region
    <3>2. entries' = rdr /\ pc' = "scan"
      BY <3>1 DEF OpenDirectory, Goto
    <3>3. rdr = C
      BY <1>2, <2>2, <2>5 DEF Mapped, Content, Contents, Kind
    <3>4. Scanned(volume, entries', look, request, f)
      <4>1. 1 \in 1 .. Len(C) + 1 /\ SubSeq(C, 1, Len(C)) = C /\ DOMAIN C = 1 .. Len(C)
        BY <2>3
      <4>2. Begins(C, 1)
        BY DEF Begins
      <4>3. IsFile(volume, AskedBy(request)) => Ahead(C, 1, look.path[1])
        BY <2>4, <4>1 DEF Ahead
      <4> QED  BY <2>2, <3>2, <3>3, <4>1, <4>2, <4>3 DEF Scanned
    <3>5. ScanInv'
      BY <1>2, <1>4, <2>1, <3>4 DEF ScanInv
    <3> QED  BY <1>2, <1>3, <3>2, <3>5 DEF SoundInv
  <2>6. CASE ~InRegion(Kind, f)
    <3>1. look.dir = Normal(FirstCluster(f))
      BY <2>1, <2>6 DEF DirectoryOf
    <3>2. Enter(FirstCluster(f)) /\ data' = <<>> /\ size' = NoSize
      BY <3>1 DEF OpenDirectory, Normal
    <3>3. FileOf(volume, f)
      BY <2>6 DEF FileOf, Kind
    <3>4. CASE f.chain # <<>>
      <4>1. pc' = "read" /\ Walked(volume, walk', <<>>, f)
        BY <1>2, <3>2, <3>3, <3>4, StartRead
      <4>2. Wanted(volume, size', look, request, f)
        BY <1>4, <2>1, <3>2 DEF Wanted
      <4>3. ReadInv'
        BY <1>2, <3>2, <3>3, <4>1, <4>2 DEF ReadInv
      <4> QED  BY <1>2, <1>3, <4>1, <4>3 DEF SoundInv
    <3>5. CASE f.chain = <<>>
      <4>1. Enter(0)
        BY <3>2, <3>5 DEF FirstCluster
      <4>2. pc' = "panicked"
        BY <4>1, ZeroEntered
      <4>3. Len(C) = 0
        <5>1. Len(C) = Len(f.chain) * ClusterRecords(volume) /\ Chained(volume, Kind, f.chain)
          BY <1>2, <2>2, <2>6, FileFacts, FileContents DEF Content, Kind
        <5>2. ClusterRecords(volume) \in Nat
          BY <1>2, Layout DEF ClusterRecords
        <5> QED  BY <3>5, <5>1, <5>2
      <4>4. ~IsFile(volume, AskedBy(request))
        BY <2>3, <2>4, <4>3
      <4>5. Ended(volume, request)
        BY <1>7, <4>4 DEF Ended
      <4> QED  BY <1>2, <1>3, <4>2, <4>5 DEF SoundInv
    <3> QED  BY <3>4, <3>5
  <2> QED  BY <2>5, <2>6
<1> QED  BY <1>8, <1>9

\* The rest of a path.
LEMMA EmptyTail == ASSUME NEW Q, NEW s \in Seq(Q), s # <<>>, ~(Len(s) > 1) PROVE Tail(s) = <<>>
OBVIOUS

LEMMA LongerTail == ASSUME NEW Q, NEW s \in Seq(Q), Len(s) > 1 PROVE Tail(s) \in Seq(Q) \ {<<>>}
<1>1. s # <<>> /\ Len(s) \in Nat
  OBVIOUS
<1>2. Tail(s) \in Seq(Q) /\ Len(Tail(s)) = Len(s) - 1
  BY <1>1, HeadTailProperties
<1>3. Len(Tail(s)) # 0
  BY <1>1, <1>2
<1>4. Len(<<>>) = 0
  OBVIOUS
<1> QED  BY <1>2, <1>3, <1>4, Zenon

\* The next name of a path is found.
LEMMA FoundSound ==
  ASSUME Shape, SoundInv, volume.sound, pc = "scan", UNCHANGED <<mounted, request, reply, kept>>,
         NEW f \in volume.files, NEW path \in f.paths, Headed(volume, look, request, path),
         NEW C, C = Content(volume, f), NEW k \in DOMAIN C, NamedAt(C, k, look.path[1]),
         NEW short, short = EntryAt(C, k), Found(short)
  PROVE  SoundInv'
<1>1. /\ volume' = volume /\ volume.sound /\ volume \in Volumes /\ Mapped
      /\ request' = request /\ reply' = reply
  BY DEF mounted, Shape, Serving
<1>2. Granted(volume, objects) /\ Served(request, reply)
  BY DEF SoundInv
<1>3. /\ look.path \in Seq(Names) /\ look.path # <<>> /\ path \in Seq(Names)
      /\ path \o look.path = AskedBy(request)
  BY DEF Headed
<1>4. PICK q \in Seq(Names) : path = request.at \o q
  BY DEF Headed
<1>5. PICK rest, name, way : rest = look.path /\ name = look.path[1] /\ way = Append(path, name)
  OBVIOUS
<1>6. rest \in Seq(Names) /\ rest # <<>> /\ name \in Names /\ Len(rest) \in Nat /\ Len(rest) >= 1
  <2>1. rest \in Seq(Names) /\ rest # <<>> /\ name = rest[1]
    BY <1>3, <1>5
  <2>2. Len(rest) \in Nat /\ Len(rest) >= 1
    BY <2>1
  <2> QED  BY <2>1, <2>2
<1>7. way \in Seq(Names) /\ way \o Tail(rest) = AskedBy(request)
  <2>1. way \in Seq(Names)
    BY <1>3, <1>5, <1>6
  <2>2. name = Head(rest)
    BY <1>5, <1>6
  <2>3. way \o Tail(rest) = path \o rest
    <3>1. PICK names, front : names = Names /\ front = path
      OBVIOUS
    <3>2. front \in Seq(names) /\ rest \in Seq(names) /\ rest # <<>>
      BY <1>3, <1>6, <3>1
    <3>3. Append(front, Head(rest)) \o Tail(rest) = front \o rest
      BY <3>2, MoveConcat
    <3> QED  BY <1>5, <2>2, <3>1, <3>3, Zenon
  <2> QED  BY <1>3, <1>5, <2>1, <2>3
<1>8. way = request.at \o Append(q, name) /\ Append(q, name) \in Seq(Names)
  <2>1. request.at \in Seq(Names)
    BY <1>2 DEF Served
  <2>2. PICK front : front = request.at
    OBVIOUS
  <2>3. front \in Seq(Names)
    BY <2>1, <2>2
  <2>4. front \o Append(q, name) = Append(front \o q, name)
    <3>1. PICK names : names = Names
      OBVIOUS
    <3>2. front \in Seq(names) /\ q \in Seq(names) /\ name \in names
      BY <1>4, <1>6, <2>3, <3>1
    <3> QED  BY <3>2, AppendConcat
  <2>5. Append(q, name) \in Seq(Names)
    BY <1>6
  <2> QED  BY <1>4, <1>5, <2>2, <2>4, <2>5, Zenon
<1>9. ~(Len(rest) > 1) => way = AskedBy(request)
  <2>1. ASSUME ~(Len(rest) > 1) PROVE Tail(rest) = <<>>
    BY <1>6, <2>1, EmptyTail
  <2>2. way \o <<>> = way
    BY <1>7
  <2>3. SUFFICES ASSUME ~(Len(rest) > 1) PROVE way = AskedBy(request)
    OBVIOUS
  <2>4. way \o Tail(rest) = way
    BY <2>1, <2>2, <2>3, Zenon
  <2> QED  BY <1>7, <2>4, Zenon
<1>10. /\ Stands(volume, Normal(short.cluster), way)
       /\ IsFile(volume, way) => \E g \in volume.files : /\ way \in g.paths /\ ~InRegion(determine_type(volume), g)
                                                         /\ short.cluster = FirstCluster(g) /\ short.size = Len(g.data)
       /\ ~IsFile(volume, way) => short.cluster = 0
  <2>1. PICK v : v = volume
    OBVIOUS
  <2>2. /\ v \in Volumes /\ v.sound /\ f \in v.files /\ path \in f.paths /\ path \in Seq(Names)
        /\ k \in DOMAIN Content(v, f) /\ name \in Names /\ NamedAt(Content(v, f), k, name)
        /\ short = EntryAt(Content(v, f), k)
    BY <1>1, <1>3, <1>5, <1>6, <2>1
  <2>3. /\ Stands(v, Normal(short.cluster), way)
        /\ IsFile(v, way) => \E g \in v.files : /\ way \in g.paths /\ ~InRegion(determine_type(v), g)
                                                /\ short.cluster = FirstCluster(g) /\ short.size = Len(g.data)
        /\ ~IsFile(v, way) => short.cluster = 0
    <3>1. LeadsTo(v, EntryAt(Content(v, f), k), Append(path, name))
      BY <2>2, EntryLeads
    <3> QED  BY <1>5, <2>2, <3>1, Zenon DEF LeadsTo
  <2> QED  BY <2>1, <2>3
<1>11. CASE Len(rest) > 1
  <2>1. /\ look' = [dir |-> Normal(short.cluster), path |-> Tail(rest)]
        /\ pc' = "open" /\ objects' = objects
    BY <1>5, <1>11 DEF Found, Goto
  <2>2. Tail(rest) \in Seq(Names) \ {<<>>}
    BY <1>6, <1>11, LongerTail, Zenon
  <2>3. Headed(volume, look', request, way)
    <3>1. PICK w, lk : w = Append(q, name) /\ lk = look'
      OBVIOUS
    <3>2. w \in Seq(Names) /\ way = request.at \o w
      BY <1>8, <3>1
    <3>a. lk.path = Tail(rest) /\ lk.dir = Normal(short.cluster)
      BY <2>1, <3>1
    <3>3. lk.path \in Seq(Names) \ {<<>>} /\ way \o lk.path = AskedBy(request) /\ Stands(volume, lk.dir, way)
      BY <1>7, <1>10, <2>2, <3>a, Zenon
    <3>4. Headed(volume, lk, request, way)
      BY <1>7, <3>2, <3>3, Zenon DEF Headed
    <3> QED  BY <3>1, <3>4
  <2>4. OpenInv'
    BY <1>1, <2>3 DEF OpenInv
  <2> QED  BY <1>1, <1>2, <2>1, <2>4 DEF SoundInv
<1>12. CASE ~(Len(rest) > 1) /\ request.op = "subcapability"
  <2>a. CASE NoCertificate
    <3>1. /\ pc' = "panicked" /\ objects' = objects /\ certificates' = certificates + 1
          /\ certificates >= CERTIFICATES
      BY <1>5, <1>12, <2>a DEF Found, Panic, NoCertificate, allocate_certificate
    <3>2. certificates \in Nat /\ CERTIFICATES \in Nat
      BY FatAssumption DEF Shape, SpentOK
    <3>3. certificates' > CERTIFICATES
      BY <3>1, <3>2
    <3>4. Exhausted'
      BY <1>1, <1>12, <3>3 DEF Exhausted
    <3> QED  BY <1>1, <1>2, <3>1, <3>4 DEF SoundInv
  <2>b. SUFFICES ASSUME ~NoCertificate PROVE SoundInv'
    BY <2>a
  <2>1. /\ objects' = objects \cup {[at |-> request.at \o request.path, dir |-> Normal(short.cluster)]}
        /\ pc' = "idle"
    BY <1>5, <1>12, <2>b DEF Found, Return
  <2>2. request.at \o request.path = way
    BY <1>9, <1>12 DEF AskedBy
  <2>3. ASSUME NEW o \in objects' PROVE o.at \in Seq(Names) /\ Stands(volume, o.dir, o.at)
    <3>1. CASE o \in objects
      BY <1>2, <3>1 DEF Granted
    <3>2. CASE o = [at |-> way, dir |-> Normal(short.cluster)]
      <4>1. o.at = way /\ o.dir = Normal(short.cluster)
        BY <3>2
      <4> QED  BY <1>7, <1>10, <4>1
    <3> QED  BY <2>1, <2>2, <3>1, <3>2
  <2>4. Granted(volume, objects')
    BY <2>3 DEF Granted
  <2>5. Answered(volume, request, reply)
    BY <1>2 DEF Answered, Served
  <2> QED  BY <1>1, <2>1, <2>4, <2>5 DEF SoundInv
<1>13. CASE ~(Len(rest) > 1) /\ request.op # "subcapability"
  <2> DEFINE Full == Reserved(short.size) + kept > HEAP
  <2>1. /\ data' = <<>> /\ size' = short.size /\ objects' = objects /\ look' = look
        /\ IF Full THEN pc' = "panicked" /\ reason' = "memory" ELSE Enter(short.cluster)
    BY <1>5, <1>13 DEF Found, Panic
  <2>2. way = AskedBy(request) /\ request.op \in {"read", "read_large"}
    BY <1>2, <1>9, <1>13 DEF Served
  <2>0. ASSUME short.cluster = 0 PROVE pc' = "panicked"
    <3>1. CASE Full
      BY <2>1, <3>1
    <3>2. CASE ~Full
      BY <2>0, <2>1, <3>2, ZeroEntered
    <3> QED  BY <3>1, <3>2
  <2>3. CASE IsFile(volume, way)
    <3>1. PICK g \in volume.files : /\ way \in g.paths /\ ~InRegion(determine_type(volume), g)
                                    /\ short.cluster = FirstCluster(g) /\ short.size = Len(g.data)
      BY <1>10, <2>3
    <3>2. FileOf(volume, g)
      BY <3>1 DEF FileOf
    <3>3. CASE g.chain # <<>>
      <4>1. PICK n \in Nat : n = Len(g.data) /\ n <= HEAP
        <5>1. PICK D : D = Content(volume, g)
          OBVIOUS
        <5>2. D \in Seq(RecordsOf(volume, determine_type(volume))) /\ Len(D) <= HEAP
          BY <1>1, <5>1, FileFacts
        <5>3. PICK l \in 0 .. Len(D) : g.data = SubSeq(D, 1, l)
          BY <1>1, <5>1, FileFacts
        <5>4. Len(g.data) = l
          BY <5>2, <5>3, FirstRecords
        <5>5. HEAP \in Nat
          BY HeapSize
        <5>6. l \in Nat /\ l <= HEAP
          BY <5>2, <5>3, <5>5
        <5> QED  BY <5>4, <5>6
      <4>2. Len(g.data) # NoSize
        <5>1. PICK m : m = NoSize
          OBVIOUS
        <5>2. m \in Int
          BY <5>1, SMT DEF NoSize
        <5>3. n < m
          BY <4>1, <5>1, <5>2, HeapSize
        <5> QED  BY <4>1, <5>1, <5>2, <5>3
      <4>3. CASE Full
        <5>1. pc' = "panicked" /\ reason' = "memory" /\ kept' = kept
          BY <2>1, <4>3
        <5>2. PICK t \in Nat : t = Reserved(n) /\ t <= HEAP
          BY <4>1, SizesRounded
        <5>3. t + kept > HEAP
          BY <3>1, <4>1, <4>3, <5>2
        <5>4. kept \in Nat /\ HEAP \in Nat
          BY HeapSize DEF Shape, SpentOK
        <5>5. kept > 0
          BY <5>2, <5>3, <5>4
        <5>6. Exhausted'
          BY <5>1, <5>5 DEF Exhausted
        <5> QED  BY <1>1, <1>2, <2>1, <5>1, <5>6 DEF SoundInv
      <4>4. CASE ~Full
        <5>1. Enter(short.cluster)
          BY <2>1, <4>4
        <5>2. pc' = "read" /\ Walked(volume, walk', <<>>, g)
          BY <1>1, <3>1, <3>2, <3>3, <5>1, StartRead
        <5>3. Wanted(volume, size', look, request, g)
          BY <2>1, <2>2, <3>1, <4>2 DEF Wanted
        <5>4. ReadInv'
          BY <1>1, <2>1, <3>2, <5>2, <5>3 DEF ReadInv
        <5> QED  BY <1>1, <1>2, <2>1, <5>2, <5>4 DEF SoundInv
      <4> QED  BY <4>3, <4>4
    <3>4. CASE g.chain = <<>>
      <4>1. pc' = "panicked"
        BY <2>0, <3>1, <3>4 DEF FirstCluster
      <4>2. Ended(volume, request)
        BY <2>2, <3>1, <3>4 DEF Ended
      <4> QED  BY <1>1, <1>2, <2>1, <4>1, <4>2 DEF SoundInv
    <3> QED  BY <3>3, <3>4
  <2>4. CASE ~IsFile(volume, way)
    <3>1. pc' = "panicked"
      BY <1>10, <2>0, <2>4
    <3>2. Ended(volume, request)
      BY <2>2, <2>4 DEF Ended
    <3> QED  BY <1>1, <1>2, <2>1, <3>1, <3>2 DEF SoundInv
  <2> QED  BY <2>3, <2>4
<1> QED  BY <1>11, <1>12, <1>13

\* Where the program is while it looks through a directory.
Scanning(f, path, C, p) ==
  /\ f \in volume.files /\ path \in f.paths /\ Headed(volume, look, request, path)
  /\ C = Content(volume, f) /\ C \in Seq(Entries) /\ p \in 1 .. Len(C) + 1
  /\ entries = SubSeq(C, p, Len(C)) /\ Begins(C, p)
  /\ IsFile(volume, AskedBy(request)) => Ahead(C, p, look.path[1])

\* The entry at place p is looked at, and the next one after it is at place next.
Passes(C, p, name, short, matches, count, next) ==
  /\ NamedAt(C, p, name) <=> matches /\ short.name[1] \notin {0, 229}
  /\ next \in 1 .. Len(C) + 1 /\ After(count) = SubSeq(C, next, Len(C)) /\ Begins(C, next)
  /\ Ahead(C, p, name) /\ ~NamedAt(C, p, name) => Ahead(C, next, name) /\ short.name[1] # 0

\* An entry is looked at, and is found or passed.
LEMMA YieldSound ==
  ASSUME Shape, SoundInv, volume.sound, pc = "scan", UNCHANGED <<mounted, request, reply, kept>>,
         NEW f, NEW path, NEW C, NEW p \in DOMAIN C, Scanning(f, path, C, p),
         NEW short, NEW matches, NEW count, NEW next, short = EntryAt(C, p),
         Passes(C, p, look.path[1], short, matches, count, next), Yield(short, matches, count)
  PROVE  SoundInv'
<1>0. PICK name : name = look.path[1]
  OBVIOUS
<1>s. /\ f \in volume.files /\ path \in f.paths /\ Headed(volume, look, request, path)
      /\ C = Content(volume, f) /\ C \in Seq(Entries)
      /\ IsFile(volume, AskedBy(request)) => Ahead(C, p, name)
  BY <1>0 DEF Scanning
<1>p. /\ NamedAt(C, p, name) <=> matches /\ short.name[1] \notin {0, 229}
      /\ next \in 1 .. Len(C) + 1 /\ After(count) = SubSeq(C, next, Len(C)) /\ Begins(C, next)
      /\ Ahead(C, p, name) /\ ~NamedAt(C, p, name) => Ahead(C, next, name) /\ short.name[1] # 0
  BY <1>0, Zenon DEF Passes
<1>1. /\ volume' = volume /\ volume.sound /\ volume \in Volumes
      /\ request' = request /\ reply' = reply
  BY DEF mounted, Shape
<1>2. Granted(volume, objects) /\ Served(request, reply)
  BY DEF SoundInv
<1>3. CASE short.name[1] = 0
  <2>1. pc' = "panicked" /\ objects' = objects
    BY <1>3, Zenon DEF Yield, Panic
  <2>2. ~IsFile(volume, AskedBy(request))
    BY <1>3, <1>s, <1>p
  <2>3. Ended(volume, request)
    BY <1>2, <2>2 DEF Ended, Served
  <2> QED  BY <1>1, <1>2, <2>1, <2>3 DEF SoundInv
<1>4. CASE short.name[1] # 0 /\ short.name[1] # 229 /\ matches
  <2>1. Found(short)
    BY <1>4 DEF Yield
  <2>2. NamedAt(C, p, look.path[1])
    BY <1>0, <1>4, <1>p
  <2> QED  BY <1>s, <2>1, <2>2, FoundSound
<1>5. CASE ~(short.name[1] = 0) /\ ~(short.name[1] # 0 /\ short.name[1] # 229 /\ matches)
  <2>1. pc' = "scan" /\ entries' = After(count) /\ objects' = objects /\ look' = look
    BY <1>5 DEF Yield, Goto
  <2>2. ~NamedAt(C, p, name)
    BY <1>5, <1>p
  <2>3. IsFile(volume, AskedBy(request)) => Ahead(C, next, look.path[1])
    BY <1>0, <1>s, <1>p, <2>2
  <2>4. Scanned(volume, entries', look, request, f)
    <3>1. entries' = SubSeq(C, next, Len(C))
      BY <1>p, <2>1
    <3> QED  BY <1>s, <1>p, <2>3, <3>1, Zenon DEF Scanned
  <2>5. ScanInv'
    BY <1>1, <1>s, <2>1, <2>4 DEF ScanInv
  <2> QED  BY <1>1, <1>2, <2>1, <2>5 DEF SoundInv
<1> QED  BY <1>3, <1>4, <1>5

\* A program that scans is at some entry of some directory.
LEMMA ScanFacts ==
  ASSUME Shape, SoundInv, volume.sound, pc = "scan"
  PROVE  /\ Granted(volume, objects) /\ Served(request, reply) /\ volume \in Volumes
         /\ \E f, path, C, p : Scanning(f, path, C, p)
<1>1. Granted(volume, objects) /\ Served(request, reply) /\ volume \in Volumes /\ ScanInv
  BY DEF SoundInv, Shape
<1>2. PICK f \in volume.files : \E path \in f.paths :
        Headed(volume, look, request, path) /\ Scanned(volume, entries, look, request, f)
  BY <1>1 DEF ScanInv
<1>3. PICK p \in 1 .. Len(Content(volume, f)) + 1 :
        /\ entries = SubSeq(Content(volume, f), p, Len(Content(volume, f))) /\ Begins(Content(volume, f), p)
        /\ IsFile(volume, AskedBy(request)) => Ahead(Content(volume, f), p, look.path[1])
  BY <1>2 DEF Scanned
<1>4. Content(volume, f) \in Seq(Entries)
  BY <1>1, FileFacts DEF Entries, Kind
<1>5. PICK path \in f.paths : Headed(volume, look, request, path)
  BY <1>2
<1>6. PICK C : C = Content(volume, f)
  OBVIOUS
<1>7. Scanning(f, path, C, p)
  BY <1>3, <1>4, <1>5, <1>6 DEF Scanning
<1> QED  BY <1>1, <1>7

\* The entries of a directory from place p on.
Rest(e, C, p) ==
  /\ e # <<>> /\ e[1] = C[p] /\ Len(e) = Len(C) - p + 1
  /\ \A i \in 1 .. Len(e) : SubSeq(e, i + 1, Len(e)) = SubSeq(C, p + i, Len(C))

LEMMA RestSeen ==
  ASSUME NEW Q, NEW C \in Seq(Q), NEW p \in 1 .. Len(C)
  PROVE  Rest(SubSeq(C, p, Len(C)), C, p)
<1>1. PICK e : e = SubSeq(C, p, Len(C))
  OBVIOUS
<1>2. e # <<>> /\ e[1] = C[p] /\ Len(e) = Len(C) - p + 1
  BY <1>1, SeenAt
<1>3. \A i \in 1 .. Len(e) : SubSeq(e, i + 1, Len(e)) = SubSeq(C, p + i, Len(C))
  BY <1>1, SeenAt
<1> QED  BY <1>1, <1>2, <1>3 DEF Rest

\* No entries are left after the last one.
LEMMA NothingLeft ==
  ASSUME NEW Q, NEW C \in Seq(Q), NEW p \in 1 .. Len(C) + 1
  PROVE  SubSeq(C, p, Len(C)) = <<>> <=> p \notin DOMAIN C
<1>1. CASE p = Len(C) + 1
  BY <1>1
<1>2. CASE p # Len(C) + 1
  <2>1. p \in 1 .. Len(C) /\ DOMAIN C = 1 .. Len(C)
    BY <1>2
  <2>2. SubSeq(C, p, Len(C)) # <<>>
    BY <2>1, SeenAt
  <2> QED  BY <2>1, <2>2
<1> QED  BY <1>1, <1>2

LEMMA ShortSound == ASSUME Shape, SoundInv, volume.sound, ShortEntry PROVE SoundInv'
<1>1. /\ pc = "scan" /\ entries # <<>> /\ ~entries[1].long /\ UNCHANGED <<mounted, request, reply, kept>>
      /\ Yield(entries[1], to_short_name(look.path[1]) = entries[1].name, 1)
  BY DEF ShortEntry
<1>2. PICK f, path, C, p : Scanning(f, path, C, p)
  BY <1>1, ScanFacts
<1>3. /\ f \in volume.files /\ path \in f.paths /\ Headed(volume, look, request, path)
      /\ C = Content(volume, f) /\ C \in Seq(Entries) /\ p \in 1 .. Len(C) + 1
      /\ entries = SubSeq(C, p, Len(C)) /\ Begins(C, p)
      /\ IsFile(volume, AskedBy(request)) => Ahead(C, p, look.path[1])
  BY <1>2 DEF Scanning
<1>4. PICK n \in Nat : n = Len(C)
  BY <1>3
<1>5. p \in DOMAIN C /\ p \in 1 .. Len(C)
  BY <1>1, <1>3, NothingLeft
<1>6. entries[1] = C[p] /\ Len(entries) = n - p + 1
      /\ \A i \in 1 .. Len(entries) : SubSeq(entries, i + 1, Len(entries)) = SubSeq(C, p + i, Len(C))
  <2>1. Rest(entries, C, p)
    BY <1>3, <1>5, RestSeen
  <2> QED  BY <1>4, <2>1 DEF Rest
<1>7. PICK name, short : name = look.path[1] /\ short = C[p]
  OBVIOUS
<1>8. ~C[p].long /\ p + 0 = p
  BY <1>1, <1>5, <1>6
<1>9. short = EntryAt(C, p)
  BY <1>7, <1>8 DEF EntryAt
<1>10. NamedAt(C, p, name) <=> to_short_name(name) = short.name /\ short.name[1] \notin {0, 229}
  BY <1>7, <1>8, <1>9 DEF NamedAt
<1>11. After(1) = SubSeq(C, p + 1, Len(C))
  <2>1. 1 \in 1 .. Len(entries)
    BY <1>4, <1>5, <1>6
  <2> QED  BY <1>6, <2>1 DEF After
<1>12. Begins(C, p + 1) /\ (Ahead(C, p, name) /\ ~NamedAt(C, p, name) => Ahead(C, p + 1, name) /\ short.name[1] # 0)
  BY <1>3, <1>5, <1>7, <1>8, ShortPassed
<1>13. p + 1 \in 1 .. Len(C) + 1
  BY <1>4, <1>5
<1>14. Yield(short, to_short_name(name) = short.name, 1)
  BY <1>1, <1>6, <1>7
<1>16. PICK next, matches : next = p + 1 /\ matches = (to_short_name(name) = short.name)
  OBVIOUS
<1>17. Passes(C, p, look.path[1], short, matches, 1, next) /\ Yield(short, matches, 1)
  BY <1>7, <1>10, <1>11, <1>12, <1>13, <1>14, <1>16, Zenon DEF Passes
<1> QED  BY <1>1, <1>2, <1>5, <1>9, <1>17, YieldSound

\* A set of long entries is the same from place p on.
SameLongs(e, C, p) ==
  /\ LongSet(e, 1) <=> LongSet(C, p)
  /\ LongSet(C, p) => LongNameAt(e, 1) = LongNameAt(C, p) /\ e[1 + LongCount(e[1])] = C[p + LongCount(C[p])]

LEMMA LongsSeen ==
  ASSUME NEW Q, NEW C \in Seq(Q), NEW p \in 1 .. Len(C)
  PROVE  SameLongs(SubSeq(C, p, Len(C)), C, p)
<1>1. PICK e : e = SubSeq(C, p, Len(C))
  OBVIOUS
<1>2. LongSet(e, 1) <=> LongSet(C, p)
  BY <1>1, LongSeenAt
<1>3. LongSet(C, p) => LongNameAt(e, 1) = LongNameAt(C, p) /\ e[1 + LongCount(e[1])] = C[p + LongCount(C[p])]
  BY <1>1, LongSeenAt
<1> QED  BY <1>1, <1>2, <1>3 DEF SameLongs

LEMMA LongSound == ASSUME Shape, SoundInv, volume.sound, LongEntry PROVE SoundInv'
<1>1. /\ pc = "scan" /\ entries # <<>> /\ entries[1].long /\ UNCHANGED <<mounted, request, reply, kept>>
      /\ IF LongSet(entries, 1)
           THEN Yield(entries[1 + LongCount(entries[1])], LongNameAt(entries, 1) = look.path[1], LongCount(entries[1]))
           ELSE pc' = "panicked" /\ objects' = objects
  BY DEF LongEntry, Panic
<1>2. PICK f, path, C, p : Scanning(f, path, C, p)
  BY <1>1, ScanFacts
<1>3. /\ f \in volume.files /\ path \in f.paths /\ Headed(volume, look, request, path)
      /\ C = Content(volume, f) /\ C \in Seq(Entries) /\ p \in 1 .. Len(C) + 1
      /\ entries = SubSeq(C, p, Len(C)) /\ Begins(C, p)
      /\ IsFile(volume, AskedBy(request)) => Ahead(C, p, look.path[1])
  BY <1>2 DEF Scanning
<1>4. PICK n \in Nat : n = Len(C)
  BY <1>3
<1>5. p \in DOMAIN C /\ p \in 1 .. Len(C)
  BY <1>1, <1>3, NothingLeft
<1>6. entries[1] = C[p] /\ Len(entries) = n - p + 1
      /\ \A i \in 1 .. Len(entries) : SubSeq(entries, i + 1, Len(entries)) = SubSeq(C, p + i, Len(C))
  <2>1. Rest(entries, C, p)
    BY <1>3, <1>5, RestSeen
  <2> QED  BY <1>4, <2>1 DEF Rest
<1>7. PICK name, c : name = look.path[1] /\ c = LongCount(C[p])
  OBVIOUS
<1>8. /\ LongSet(entries, 1) <=> LongSet(C, p)
      /\ LongSet(C, p) => LongNameAt(entries, 1) = LongNameAt(C, p) /\ entries[1 + c] = C[p + c]
  <2>1. SameLongs(entries, C, p)
    BY <1>3, <1>5, LongsSeen
  <2>2. LongCount(entries[1]) = c
    BY <1>6, <1>7
  <2> QED  BY <1>7, <2>1, <2>2, Zenon DEF SameLongs
<1>9. /\ LongSet(C, p) => Begins(C, p + c) /\ p + c \in 1 .. Len(C)
      /\ Ahead(C, p, name) => LongSet(C, p)
      /\ Ahead(C, p, name) /\ ~NamedAt(C, p, name) => Ahead(C, p + c, name) /\ C[p + c].name[1] # 0
  <2>1. C[p].long
    BY <1>1, <1>6
  <2> QED  BY <1>3, <1>5, <1>7, <2>1, LongPassed
<1>10. CASE LongSet(C, p)
  <2>1. PICK short, next, matches : /\ short = C[p + c] /\ next = p + c
                                    /\ matches = (LongNameAt(entries, 1) = look.path[1])
    OBVIOUS
  <2>2. Yield(short, matches, c)
    <3>1. LongCount(entries[1]) = c
      BY <1>6, <1>7
    <3> QED  BY <1>1, <1>8, <1>10, <2>1, <3>1, Zenon
  <2>3. C[p].long
    BY <1>1, <1>6
  <2>4. short = EntryAt(C, p)
    BY <1>7, <2>1, <2>3 DEF EntryAt
  <2>5. NamedAt(C, p, name) <=> matches /\ short.name[1] \notin {0, 229}
    <3>1. LongNameAt(entries, 1) = LongNameAt(C, p)
      BY <1>8, <1>10, Zenon
    <3>2. matches <=> LongNameAt(C, p) = name
      BY <1>7, <2>1, <3>1, Zenon
    <3> QED  BY <1>10, <2>3, <2>4, <3>2, Zenon DEF NamedAt
  <2>6. next \in 1 .. Len(C) + 1 /\ Begins(C, next)
    BY <1>9, <1>10, <2>1
  <2>7. Ahead(C, p, name) /\ ~NamedAt(C, p, name) => Ahead(C, next, name) /\ short.name[1] # 0
    BY <1>9, <2>1
  <2>8. After(c) = SubSeq(C, next, Len(C))
    <3>1. c \in 1 .. 63
      BY <1>3, <1>5, <1>7, <1>10, SetOfLongs
    <3>2. c \in 1 .. Len(entries)
      <4>1. p + c \in 1 .. n /\ p \in 1 .. n
        BY <1>4, <1>5, <1>9, <1>10, Zenon
      <4>2. Len(entries) = n - p + 1
        BY <1>6, Zenon
      <4>3. c \in 1 .. n - p + 1
        BY <3>1, <4>1
      <4> QED  BY <4>2, <4>3, Zenon
    <3> QED  BY <1>6, <2>1, <3>2 DEF After
  <2>9. Passes(C, p, look.path[1], short, matches, c, next)
    BY <1>7, <2>5, <2>6, <2>7, <2>8, Zenon DEF Passes
  <2> QED  BY <1>1, <1>2, <1>5, <2>2, <2>4, <2>9, YieldSound
<1>11. CASE ~LongSet(C, p)
  <2>1. pc' = "panicked" /\ objects' = objects
    BY <1>1, <1>8, <1>11
  <2>2. ~IsFile(volume, AskedBy(request))
    BY <1>3, <1>7, <1>9, <1>11
  <2>3. volume' = volume /\ request' = request /\ reply' = reply
    BY <1>1 DEF mounted
  <2>4. Granted(volume, objects) /\ Served(request, reply)
    BY <1>1, ScanFacts
  <2>5. Ended(volume, request)
    BY <2>2, <2>4 DEF Ended, Served
  <2> QED  BY <2>1, <2>3, <2>4, <2>5 DEF SoundInv
<1> QED  BY <1>10, <1>11

LEMMA NoEntrySound == ASSUME Shape, SoundInv, volume.sound, NoEntry PROVE SoundInv'
<1>1. pc = "scan" /\ entries = <<>> /\ pc' = "panicked" /\ UNCHANGED <<mounted, served>>
  BY DEF NoEntry, Panic
<1>2. PICK f, path, C, p : Scanning(f, path, C, p)
  BY <1>1, ScanFacts
<1>3. /\ C \in Seq(Entries) /\ p \in 1 .. Len(C) + 1 /\ entries = SubSeq(C, p, Len(C))
      /\ IsFile(volume, AskedBy(request)) => Ahead(C, p, look.path[1])
  BY <1>2 DEF Scanning
<1>4. p \notin DOMAIN C
  BY <1>1, <1>3, NothingLeft
<1>5. ~Ahead(C, p, look.path[1])
  <2>1. p = Len(C) + 1
    BY <1>3, <1>4
  <2>2. p .. Len(C) = {}
    BY <1>3, <2>1
  <2> QED  BY <2>2 DEF Ahead
<1>6. volume' = volume /\ request' = request /\ reply' = reply /\ objects' = objects
  BY <1>1 DEF mounted, served
<1>7. Granted(volume, objects) /\ Served(request, reply)
  BY <1>1, ScanFacts
<1>8. Ended(volume, request)
  BY <1>3, <1>5, <1>7 DEF Ended, Served
<1> QED  BY <1>1, <1>6, <1>7, <1>8 DEF SoundInv

\* Where the records of the next sector begin.
LEMMA NextPosition ==
  ASSUME NEW D, NEW S, NEW R, NEW i, NEW s, NEW n, SectorAt(D, S, R, i, s, n)
  PROVE  /\ n + D = (i * S + (s + 1)) * D
         /\ s + 1 = S => n + D = ((i + 1) * S + 0) * D /\ n + D = (i + 1) * R
<1>0. /\ D \in Nat \ {0} /\ S \in Nat \ {0} /\ i \in Nat /\ s \in Nat
      /\ R = S * D /\ n = (i * S + s) * D
  BY DEF SectorAt
<1>1. PICK a \in Nat : a = i * S
  BY <1>0
<1>2. (a + s) * D + D = (a + (s + 1)) * D
  BY <1>0, <1>1
<1>3. n + D = (i * S + (s + 1)) * D
  BY <1>0, <1>1, <1>2
<1>4. ASSUME s + 1 = S PROVE n + D = ((i + 1) * S + 0) * D /\ n + D = (i + 1) * R
  <2>1. a + S = (i + 1) * S + 0
    BY <1>0, <1>1
  <2>2. n + D = ((i + 1) * S + 0) * D
    BY <1>1, <1>3, <1>4, <2>1
  <2>3. ((i + 1) * S + 0) * D = (i + 1) * (S * D)
    BY <1>0
  <2> QED  BY <1>0, <2>2, <2>3
<1> QED  BY <1>3, <1>4

\* What the invariant says while a file is read.
Reading(f, C, i, s, n) ==
  /\ FileOf(volume, f) /\ Wanted(volume, size, look, request, f)
  /\ C = Content(volume, f) /\ i \in DOMAIN f.chain /\ s \in 0 .. ClusterSectors(volume) - 1
  /\ walk.cluster = f.chain[i] /\ walk.next = Following(f.chain, i) /\ walk.sector = s
  /\ n = ((i - 1) * ClusterSectors(volume) + s) * DISK_SECTOR_SIZE
  /\ data = SubSeq(C, 1, n)

\* A program that reads is at some sector of some file.
LEMMA ReadFacts ==
  ASSUME Shape, SoundInv, volume.sound, pc = "read"
  PROVE  /\ Granted(volume, objects) /\ Served(request, reply) /\ volume \in Volumes
         /\ \E f, C, i, s, n : Reading(f, C, i, s, n)
<1>1. Granted(volume, objects) /\ Served(request, reply) /\ volume \in Volumes /\ ReadInv
  BY DEF SoundInv, Shape
<1>2. PICK f : FileOf(volume, f) /\ Wanted(volume, size, look, request, f) /\ Walked(volume, walk, data, f)
  BY <1>1 DEF ReadInv
<1>3. PICK i \in DOMAIN f.chain :
        /\ walk.cluster = f.chain[i] /\ walk.next = Following(f.chain, i)
        /\ walk.sector \in 0 .. ClusterSectors(volume) - 1
        /\ data = SubSeq(Content(volume, f), 1,
                         ((i - 1) * ClusterSectors(volume) + walk.sector) * DISK_SECTOR_SIZE)
  BY <1>2 DEF Walked
<1>4. PICK C, s, n : /\ C = Content(volume, f) /\ s = walk.sector
                     /\ n = ((i - 1) * ClusterSectors(volume) + s) * DISK_SECTOR_SIZE
  OBVIOUS
<1>5. Reading(f, C, i, s, n)
  BY <1>2, <1>3, <1>4, Zenon DEF Reading
<1> QED  BY <1>1, <1>5

\* The next sector is there, is the next of the file, and fits in memory.
LEMMA SectorRead ==
  ASSUME Shape, volume.sound, pc = "read", NEW f, NEW C, NEW i, NEW s, NEW n, Reading(f, C, i, s, n),
         NEW D, D = DISK_SECTOR_SIZE, NEW S, S = ClusterSectors(volume)
  PROVE  /\ C \in Seq(Entries) /\ n \in Nat /\ D \in Nat \ {0} /\ S \in Nat \ {0}
         /\ Len(data) = n /\ n + D <= Len(C) /\ Len(C) <= HEAP
         /\ DriveSector \in DOMAIN volume.disk
         /\ data \o volume.disk[DriveSector] = SubSeq(C, 1, n + D)
         /\ Chained(volume, Kind, f.chain) /\ Len(C) = Len(f.chain) * (S * D)
         /\ SectorAt(D, S, S * D, i - 1, s, n)
<1>1. volume \in Volumes /\ Mapped /\ WalkOK
  BY DEF Shape, Serving
<1>2. /\ f \in volume.files /\ ~InRegion(Kind, f) /\ C = Content(volume, f) /\ i \in DOMAIN f.chain
      /\ s \in 0 .. ClusterSectors(volume) - 1 /\ walk.cluster = f.chain[i] /\ walk.sector = s
      /\ n = ((i - 1) * ClusterSectors(volume) + s) * DISK_SECTOR_SIZE /\ data = SubSeq(C, 1, n)
  BY DEF Reading, FileOf, Kind
<1>3. Chained(volume, Kind, f.chain) /\ C \in Seq(Entries) /\ Len(C) <= HEAP /\ C = Contents(volume, Kind, f)
  BY <1>1, <1>2, FileFacts DEF Kind, Entries, Content
<1>4. PICK sector : sector = FirstSector(volume, Kind, f.chain[i]) + s
  OBVIOUS
<1>5. DriveSector = sector
  <2>1. type = Kind /\ type = determine_type(volume) /\ walk.cluster \in Nat /\ walk.cluster >= 2 /\ walk.sector \in Nat
    BY <1>1 DEF WalkOK, Mapped, Kind
  <2>2. DriveSector = FirstSector(volume, type, walk.cluster) + walk.sector
    BY <1>1, <2>1, SectorIs
  <2> QED  BY <1>2, <1>4, <2>1, <2>2, Zenon
<1>6. sector \in DOMAIN volume.disk
  BY <1>1, <1>2, <1>3, <1>4, ClusterSector DEF Kind
<1>7. /\ n \in Nat /\ n + D <= Len(C)
      /\ SubSeq(C, 1, n) \o volume.disk[sector] = SubSeq(C, 1, n + D)
  <2>1. PICK v, t, chain : v = volume /\ t = Kind /\ chain = f.chain
    OBVIOUS
  <2>2. /\ v \in Volumes /\ t = determine_type(v) /\ ~InRegion(t, f) /\ Chained(v, t, f.chain)
        /\ C = Contents(v, t, f) /\ i \in DOMAIN f.chain /\ s \in 0 .. ClusterSectors(v) - 1
        /\ sector = FirstSector(v, t, f.chain[i]) + s
        /\ n = ((i - 1) * ClusterSectors(v) + s) * DISK_SECTOR_SIZE
    BY <1>1, <1>2, <1>3, <1>4, <2>1, Zenon DEF Kind
  <2>3. n \in Nat /\ n + DISK_SECTOR_SIZE <= Len(C)
    BY <2>2, ContentsExtended, Zenon
  <2>4. Adds(C, n, v.disk[sector])
    BY <2>2, ContentsExtended, Zenon
  <2>5. n \in Nat /\ n + D <= Len(C)
    BY <2>3, Zenon
  <2> QED  BY <2>1, <2>4, <2>5 DEF Adds
<1>8. D \in Nat \ {0} /\ S \in Nat \ {0}
  BY <1>1, Layout
<1>9. Len(data) = n
  <2>1. n <= Len(C)
    BY <1>3, <1>7, <1>8
  <2> QED  BY <1>2, <1>3, <1>7, <2>1, FirstRecords
<1>10. Len(C) = Len(f.chain) * (S * D)
  BY <1>1, <1>2, <1>3, FileContents DEF Kind, ClusterRecords
<1>11. SectorAt(D, S, S * D, i - 1, s, n)
  <2>1. i - 1 \in Nat
    BY <1>2, <1>3 DEF Chained
  <2> QED  BY <1>2, <1>8, <2>1 DEF SectorAt
<1> QED  BY <1>2, <1>3, <1>5, <1>6, <1>7, <1>8, <1>9, <1>10, <1>11

\* A sector of a file on the way or of the file that was asked for is read.
LEMMA ReadSound == ASSUME Shape, SoundInv, volume.sound, ReadSector PROVE SoundInv'
<1>1. pc = "read" /\ UNCHANGED <<mounted, served, spent, look, entries, size>>
  BY DEF ReadSector
<1>2. /\ volume' = volume /\ volume \in Volumes /\ Mapped /\ objects' = objects /\ request' = request
      /\ reply' = reply /\ look' = look /\ size' = size
  BY <1>1 DEF mounted, served, Shape, Serving
<1>3. Granted(volume, objects) /\ Served(request, reply)
  BY <1>1, ReadFacts
<1>4. PICK f, C, i, s, n : Reading(f, C, i, s, n)
  BY <1>1, ReadFacts
<1>5. PICK D, S : D = DISK_SECTOR_SIZE /\ S = ClusterSectors(volume)
  OBVIOUS
<1>6. /\ C \in Seq(Entries) /\ n \in Nat /\ D \in Nat \ {0} /\ S \in Nat \ {0}
      /\ Len(data) = n /\ n + D <= Len(C) /\ Len(C) <= HEAP
      /\ DriveSector \in DOMAIN volume.disk
      /\ data \o volume.disk[DriveSector] = SubSeq(C, 1, n + D)
      /\ Chained(volume, Kind, f.chain) /\ SectorAt(D, S, S * D, i - 1, s, n)
  BY <1>1, <1>4, <1>5, SectorRead
<1>l. Len(C) = Len(f.chain) * (S * D)
  BY <1>1, <1>4, <1>5, SectorRead
<1>7. /\ FileOf(volume, f) /\ Wanted(volume, size, look, request, f)
      /\ C = Content(volume, f) /\ i \in DOMAIN f.chain /\ s \in 0 .. S - 1
      /\ walk.cluster = f.chain[i] /\ walk.next = Following(f.chain, i) /\ walk.sector = s
      /\ n = ((i - 1) * S + s) * D
  BY <1>4, <1>5 DEF Reading
<1>8. n + D \in Nat /\ n + D <= Len(C)
  BY <1>6
<1>9. PICK m \in Nat : m = n + D
  BY <1>8
<1>h. PICK h, whole \in Nat : h = HEAP /\ whole = Len(C)
  <2>1. HEAP \in Nat
    BY HeapSize, Zenon
  <2>2. Len(C) \in Nat
    BY <1>6, LenProperties, Zenon
  <2> QED  BY <2>1, <2>2, Zenon
<1>m. m <= whole /\ whole <= h /\ m <= h
  BY <1>6, <1>8, <1>9, <1>h
<1>x. CASE Len(data) + DISK_SECTOR_SIZE + kept > HEAP
  <2>1. pc' = "panicked" /\ reason' = "memory"
    BY <1>6, <1>x DEF ReadSector, Panic
  <2>2. kept' = kept /\ kept \in Nat
    BY <1>1 DEF spent, Shape, SpentOK
  <2>3. m + kept > h
    BY <1>5, <1>6, <1>9, <1>h, <1>x
  <2>4. kept > 0
    BY <1>m, <2>2, <2>3
  <2>5. Exhausted'
    BY <2>1, <2>2, <2>4 DEF Exhausted
  <2> QED  BY <1>2, <1>3, <2>1, <2>5 DEF SoundInv
<1> SUFFICES ASSUME ~(Len(data) + DISK_SECTOR_SIZE + kept > HEAP) PROVE SoundInv'
  BY <1>x
<1>10. ~(DriveSector \notin DOMAIN volume.disk \/ Len(data) + DISK_SECTOR_SIZE + kept > HEAP)
  BY <1>6
<1>11. data' = SubSeq(C, 1, m)
  <2>1. data' = data \o volume.disk[DriveSector]
    BY <1>10 DEF ReadSector
  <2> QED  BY <1>6, <1>9, <2>1
<1>12. CASE size # NoSize /\ Len(data') >= size
  <2>1. pc' = "done"
    BY <1>10, <1>12 DEF ReadSector, Goto
  <2>2. Len(data') = m
    BY <1>6, <1>8, <1>9, <1>11, FirstRecords
  <2>3. ReadAll(volume, data', size, f)
    <3>1. m \in 0 .. Len(C) /\ m >= size
      BY <1>9, <1>12, <1>h, <1>m, <2>2
    <3> QED  BY <1>7, <1>11, <1>12, <3>1 DEF ReadAll
  <2>4. DoneInv'
    BY <1>2, <1>7, <2>3 DEF DoneInv
  <2> QED  BY <1>2, <1>3, <2>1, <2>4 DEF SoundInv
<1>13. CASE ~(size # NoSize /\ Len(data') >= size) /\ walk.sector + 1 < volume.bpb.sec_per_clus * volume.bpb.ratio
  <2>1. walk' = [walk EXCEPT !.sector = @ + 1] /\ pc' = pc
    BY <1>10, <1>13 DEF ReadSector
  <2>2. walk'.cluster = f.chain[i] /\ walk'.next = Following(f.chain, i) /\ walk'.sector = s + 1
    BY <1>7, <2>1
  <2>3. s + 1 \in 0 .. S - 1
    <3>1. volume.bpb.sec_per_clus * volume.bpb.ratio = S
      <4>1. volume.bpb.sec_per_clus \in Nat /\ volume.bpb.ratio \in Nat
        BY <1>2, Layout
      <4> QED  BY <1>5, <4>1 DEF ClusterSectors
    <3>2. s + 1 < S
      BY <1>7, <1>13, <3>1
    <3> QED  BY <1>6, <1>7, <3>2
  <2>4. m = ((i - 1) * S + (s + 1)) * D
    BY <1>6, <1>9, NextPosition
  <2>5. PICK w : w = walk'
    OBVIOUS
  <2>6. data' = SubSeq(C, 1, ((i - 1) * S + w.sector) * D)
    BY <1>11, <2>2, <2>4, <2>5, Zenon
  <2>7. Walked(volume, w, data', f)
    <3>1. w.cluster = f.chain[i] /\ w.next = Following(f.chain, i) /\ w.sector \in 0 .. S - 1
      BY <2>2, <2>3, <2>5
    <3> QED  BY <1>5, <1>7, <2>6, <3>1, Zenon DEF Walked
  <2>8. ReadInv'
    BY <1>2, <1>7, <2>5, <2>7 DEF ReadInv
  <2> QED  BY <1>1, <1>2, <1>3, <2>1, <2>8 DEF SoundInv
<1>14. CASE /\ ~(size # NoSize /\ Len(data') >= size)
            /\ ~(walk.sector + 1 < volume.bpb.sec_per_clus * volume.bpb.ratio)
  <2>1. IF walk.next = NoCluster THEN Goto("done") ELSE Enter(walk.next)
    BY <1>10, <1>14 DEF ReadSector
  <2>2. s + 1 = S
    <3>1. volume.bpb.sec_per_clus * volume.bpb.ratio = S
      <4>1. volume.bpb.sec_per_clus \in Nat /\ volume.bpb.ratio \in Nat
        BY <1>2, Layout
      <4> QED  BY <1>5, <4>1 DEF ClusterSectors
    <3>2. ~(s + 1 < S)
      BY <1>7, <1>14, <3>1
    <3> QED  BY <1>6, <1>7, <3>2
  <2>3. PICK e : e = i - 1
    OBVIOUS
  <2>4. m = ((e + 1) * S + 0) * D /\ m = (e + 1) * (S * D)
    BY <1>6, <1>9, <2>2, <2>3, NextPosition
  <2>5. /\ type \in Types /\ fat \in Seq(0 .. 255) /\ max_cluster(volume, type) \in Int
        /\ fat = TableOf(volume, type) /\ type = Kind
    BY <1>2, MountedVolume DEF Mapped
  <2>e. EnoughForData(volume, type)
    BY <1>2, SoundParts DEF Mapped, Kind
  <2>6. f.chain \in Seq(2 .. max_cluster(volume, type)) /\ Chained(volume, type, f.chain)
    BY <1>6, <2>5 DEF Chained
  <2>7. i \in 1 .. Len(f.chain) /\ Len(f.chain) \in Nat /\ e + 1 = i
    BY <1>7, <2>3, <2>6
  <2>8. CASE i = Len(f.chain)
    <3>1. pc' = "done"
      BY <1>7, <2>1, <2>7, <2>8 DEF Following, Goto
    <3>2. m = Len(C)
      BY <1>l, <2>4, <2>7, <2>8
    <3>3. data' = C
      <4>1. SubSeq(C, 1, Len(C)) = C
        BY <1>6
      <4> QED  BY <1>11, <3>2, <4>1
    <3>4. ReadAll(volume, data', size, f)
      <4>1. CASE size = NoSize
        BY <1>7, <3>3, <4>1 DEF ReadAll
      <4>2. CASE size # NoSize
        <5>1. size = Len(f.data)
          BY <1>7, <4>2 DEF Wanted
        <5>2. PICK l \in 0 .. Len(C) : f.data = SubSeq(C, 1, l)
          BY <1>2, <1>7, FileFacts DEF FileOf
        <5>3. Len(f.data) = l
          BY <1>6, <5>2, FirstRecords
        <5>4. m \in 0 .. Len(C) /\ m >= size
          BY <1>h, <3>2, <5>1, <5>2, <5>3
        <5> QED  BY <1>7, <1>11, <4>2, <5>4 DEF ReadAll
      <4> QED  BY <4>1, <4>2
    <3>5. DoneInv'
      BY <1>2, <1>7, <3>4 DEF DoneInv
    <3> QED  BY <1>2, <1>3, <3>1, <3>5 DEF SoundInv
  <2>9. CASE i # Len(f.chain)
    <3>1. PICK j : j = i + 1
      OBVIOUS
    <3>2. j \in DOMAIN f.chain /\ i < Len(f.chain)
      BY <2>6, <2>7, <2>9, <3>1
    <3>3. walk.next = f.chain[j]
      BY <1>7, <3>1, <3>2 DEF Following
    <3>4. f.chain[j] # NoCluster
      <4>1. f.chain[j] \in 2 .. max_cluster(volume, type)
        <5>1. PICK chain : chain = f.chain
          OBVIOUS
        <5>2. chain \in Seq(2 .. max_cluster(volume, type)) /\ j \in 1 .. Len(chain)
          BY <2>6, <3>2, <5>1
        <5> QED  BY <5>1, <5>2, ElementOfSeq
      <4> QED  BY <2>5, <4>1 DEF NoCluster
    <3>5. Enter(f.chain[j])
      BY <2>1, <3>3, <3>4
    <3>6. walk' = [cluster |-> f.chain[j], next |-> Following(f.chain, j), sector |-> 0] /\ pc' = "read"
      BY <2>5, <2>e, <2>6, <3>2, <3>5, ChainEntered
    <3>7. PICK w : w = walk'
      OBVIOUS
    <3>8. w.cluster = f.chain[j] /\ w.next = Following(f.chain, j) /\ w.sector = 0
      BY <3>6, <3>7
    <3>9. e + 1 = j - 1
      BY <2>7, <3>1
    <3>10. data' = SubSeq(C, 1, ((j - 1) * S + w.sector) * D)
      BY <1>11, <2>4, <3>8, <3>9, Zenon
    <3>11. w.sector \in 0 .. S - 1
      BY <1>6, <3>8
    <3>12. Walked(volume, w, data', f)
      BY <1>5, <1>7, <3>2, <3>8, <3>10, <3>11, Zenon DEF Walked
    <3>13. ReadInv'
      BY <1>2, <1>7, <3>7, <3>12 DEF ReadInv
    <3> QED  BY <1>2, <1>3, <3>6, <3>13 DEF SoundInv
  <2> QED  BY <2>8, <2>9
<1> QED  BY <1>12, <1>13, <1>14

\* Looking through the data of a directory begins.
LEMMA ScanStarts ==
  ASSUME volume \in Volumes, volume.sound, NEW f \in volume.files, NEW path \in f.paths,
         Headed(volume, look, request, path)
  PROVE  Scanned(volume, Content(volume, f), look, request, f)
<1>1. PICK C, lp, v, asked : C = Content(volume, f) /\ lp = look.path /\ v = volume /\ asked = AskedBy(request)
  OBVIOUS
<1>2. C \in Seq(Entries)
  BY <1>1, FileFacts DEF Entries, Kind
<1>3. lp \in Seq(Names) /\ lp # <<>> /\ path \in Seq(Names) /\ asked = path \o lp
  BY <1>1 DEF Headed
<1>4. v \in Volumes /\ v.sound /\ f \in v.files /\ C = Content(v, f)
  BY <1>1
<1>5. IsFile(v, path \o lp) =>
        \A g \in v.files : path \in g.paths =>
          \E k \in DOMAIN Content(v, g) : NamedAt(Content(v, g), k, lp[1]) /\ Passable(Content(v, g), k)
  BY <1>3, <1>4, OnTheWay, Zenon
<1>6. 1 \in 1 .. Len(C) + 1 /\ SubSeq(C, 1, Len(C)) = C /\ DOMAIN C = 1 .. Len(C)
  BY <1>2
<1>7. IsFile(v, asked) => Ahead(C, 1, lp[1])
  BY <1>3, <1>4, <1>5, <1>6, Zenon DEF Ahead
<1>8. Begins(C, 1)
  BY DEF Begins
<1> QED  BY <1>1, <1>6, <1>7, <1>8, Zenon DEF Scanned

LEMMA DirectoryReadSound == ASSUME Shape, SoundInv, volume.sound, DirectoryRead PROVE SoundInv'
<1>1. /\ pc = "done" /\ size = NoSize /\ entries' = data /\ pc' = "scan"
      /\ UNCHANGED <<mounted, served, look>>
  BY DEF DirectoryRead, Goto
<1>2. /\ volume' = volume /\ volume \in Volumes /\ objects' = objects /\ request' = request
      /\ reply' = reply /\ look' = look
  BY <1>1 DEF mounted, served, Shape
<1>3. Granted(volume, objects) /\ Served(request, reply) /\ DoneInv
  BY <1>1 DEF SoundInv
<1>4. PICK f : FileOf(volume, f) /\ Wanted(volume, size, look, request, f) /\ ReadAll(volume, data, size, f)
  BY <1>3 DEF DoneInv
<1>5. f \in volume.files /\ data = Content(volume, f)
  BY <1>1, <1>4 DEF FileOf, ReadAll
<1>6. PICK path \in f.paths : Headed(volume, look, request, path)
  BY <1>1, <1>4 DEF Wanted
<1>7. Scanned(volume, entries', look, request, f)
  BY <1>1, <1>2, <1>5, <1>6, ScanStarts
<1>8. ScanInv'
  BY <1>2, <1>5, <1>6, <1>7 DEF ScanInv
<1> QED  BY <1>1, <1>2, <1>3, <1>8 DEF SoundInv

\* A file that was asked for is read, and is answered with.
LEMMA AnswerSound ==
  ASSUME Shape, SoundInv, volume.sound, pc = "done", size # NoSize, UNCHANGED <<mounted, objects, request>>, Answer
  PROVE  SoundInv'
<1>1. /\ pc' = "idle" /\ UNCHANGED <<mounted, objects, request>>
      /\ reply' = [given |-> TRUE, data |-> [i \in 1 .. size |-> IF i <= Len(data) THEN data[i] ELSE End]]
  BY DEF Answer, Data, Return
<1>2. volume' = volume /\ volume \in Volumes /\ objects' = objects /\ request' = request
  BY <1>1 DEF mounted, Shape
<1>3. Granted(volume, objects) /\ DoneInv
  BY <1>1 DEF SoundInv
<1>4. PICK f : FileOf(volume, f) /\ Wanted(volume, size, look, request, f) /\ ReadAll(volume, data, size, f)
  BY <1>3 DEF DoneInv
<1>5. PICK C : C = Content(volume, f)
  OBVIOUS
<1>6. f \in volume.files /\ AskedBy(request) \in f.paths /\ size = Len(f.data)
  BY <1>1, <1>4 DEF FileOf, Wanted
<1>7. C \in Seq(Entries)
  BY <1>2, <1>5, <1>6, FileFacts DEF Entries, Kind
<1>8. PICK l \in 0 .. Len(C) : f.data = SubSeq(C, 1, l)
  BY <1>2, <1>5, <1>6, FileFacts
<1>9. PICK m \in 0 .. Len(C) : m >= size /\ data = SubSeq(C, 1, m)
  BY <1>1, <1>4, <1>5 DEF ReadAll
<1>10. /\ f.data \in Seq(Entries) /\ Len(f.data) = l /\ \A j \in 1 .. l : f.data[j] = C[j]
       /\ Len(data) = m /\ \A j \in 1 .. m : data[j] = C[j]
  BY <1>7, <1>8, <1>9, FirstRecords
<1>11. reply'.data = f.data
  <2>1. PICK x, y : x = reply'.data /\ y = f.data
    OBVIOUS
  <2>2. x = [i \in 1 .. l |-> IF i <= m THEN data[i] ELSE End]
    BY <1>1, <1>6, <1>10, <2>1
  <2>3. l <= m /\ l \in Nat /\ m \in Nat
    BY <1>6, <1>7, <1>8, <1>9, <1>10
  <2>4. \A j \in 1 .. l : j <= m /\ j \in 1 .. m
    BY <2>3
  <2>5. x = [i \in 1 .. l |-> C[i]]
    BY <1>10, <2>2, <2>4
  <2>6. y = [i \in 1 .. l |-> y[i]]
    BY <1>10, <2>1
  <2>7. \A i \in 1 .. l : y[i] = C[i]
    BY <1>10, <2>1
  <2> QED  BY <2>1, <2>5, <2>6, <2>7
<1>12. Answered(volume, request, reply')
  BY <1>6, <1>11 DEF Answered
<1> QED  BY <1>1, <1>2, <1>3, <1>12 DEF SoundInv

\* The length of the file that is read.
LEMMA ReadLength ==
  ASSUME SoundInv, volume.sound, pc = "done", size # NoSize
  PROVE  \E f \in volume.files : AskedBy(request) \in f.paths /\ size = Len(f.data)
<1>1. PICK f : FileOf(volume, f) /\ Wanted(volume, size, look, request, f)
  BY DEF SoundInv, DoneInv
<1> QED  BY <1>1 DEF FileOf, Wanted

LEMMA FileReadSound == ASSUME Shape, SoundInv, volume.sound, Read PROVE SoundInv'
<1>1. pc = "done" /\ size # NoSize /\ request.op = "read" /\ UNCHANGED <<mounted, objects, request>>
  BY DEF Read
<1>2. CASE size > REPLY
  <2>1. pc' = "panicked" /\ UNCHANGED <<volume, objects, request, reply>>
    BY <1>1, <1>2 DEF Read, Panic, mounted
  <2>2. Ended(volume, request)
    BY <1>1, <1>2, ReadLength DEF Ended
  <2>3. Granted(volume, objects)
    BY DEF SoundInv
  <2> QED  BY <2>1, <2>2, <2>3 DEF SoundInv
<1>3. CASE ~(size > REPLY)
  <2>1. Answer
    BY <1>3 DEF Read
  <2> QED  BY <1>1, <2>1, AnswerSound
<1> QED  BY <1>2, <1>3

LEMMA LargeReadSound == ASSUME Shape, SoundInv, volume.sound, ReadLarge PROVE SoundInv'
<1>1. pc = "done" /\ size # NoSize /\ request.op = "read_large" /\ UNCHANGED <<mounted, objects, request>>
  BY DEF ReadLarge
<1>2. volume' = volume /\ objects' = objects /\ request' = request /\ Granted(volume, objects)
  BY <1>1 DEF mounted, SoundInv
<1>3. CASE Reserved(size) + Copied(size) + kept > HEAP
  <2>1. pc' = "panicked" /\ reason' = "memory"
    BY <1>3 DEF ReadLarge, Panic
  <2>2. Exhausted'
    BY <1>1, <1>2, <2>1 DEF Exhausted
  <2> QED  BY <1>2, <2>1, <2>2 DEF SoundInv
<1>4. CASE ~(Reserved(size) + Copied(size) + kept > HEAP) /\ NoCertificate
  <2>1. pc' = "panicked" /\ certificates' = certificates + 1 /\ certificates >= CERTIFICATES
    BY <1>4 DEF ReadLarge, Panic, NoCertificate, allocate_certificate
  <2>2. certificates \in Nat /\ CERTIFICATES \in Nat
    BY FatAssumption DEF Shape, SpentOK
  <2>3. certificates' > CERTIFICATES
    BY <2>1, <2>2
  <2>4. Exhausted'
    BY <1>1, <1>2, <2>3 DEF Exhausted
  <2> QED  BY <1>2, <2>1, <2>4 DEF SoundInv
<1>5. CASE ~(Reserved(size) + Copied(size) + kept > HEAP) /\ ~NoCertificate
  <2>1. Answer
    BY <1>5 DEF ReadLarge
  <2> QED  BY <1>1, <2>1, AnswerSound
<1> QED  BY <1>3, <1>4, <1>5

LEMMA FatNextSound == Shape /\ SoundInv /\ [FatNext]_fat_vars => SoundInv'
<1> SUFFICES ASSUME Shape, SoundInv, [FatNext]_fat_vars PROVE SoundInv'
  OBVIOUS
<1>1. CASE UNCHANGED fat_vars
  <2>1. UNCHANGED <<volume, objects, request, reply, certificates, kept, pc, reason, look, entries, walk, data, size>>
    BY <1>1 DEF fat_vars, mounted, served, spent, file
  <2>2. UNCHANGED <<OpenInv, ScanInv, ReadInv, DoneInv, Exhausted>>
    BY <2>1 DEF OpenInv, ScanInv, ReadInv, DoneInv, Exhausted
  <2> QED  BY <2>1, <2>2 DEF SoundInv
<1>2. CASE FatNext
  <2>1. volume' = volume
    BY <1>2 DEF FatNext, Serve, Call, Mount, OpenDirectory, DirectoryRead, ShortEntry, LongEntry, NoEntry,
                ReadSector, Read, ReadLarge, mounted
  <2>2. CASE volume.sound
    <3>1. CASE Serve
      BY <2>2, <3>1, MountSound, OpenSound, DirectoryReadSound, ShortSound, LongSound, NoEntrySound, ReadSound,
         FileReadSound, LargeReadSound DEF Serve
    <3>2. CASE \E op \in Operations, object \in objects, path \in Paths : Call(op, object, path)
      BY <3>2, CallSound
    <3> QED  BY <1>2, <3>1, <3>2 DEF FatNext
  <2>3. CASE ~volume.sound
    BY <2>1, <2>3 DEF SoundInv
  <2> QED  BY <2>2, <2>3
<1> QED  BY <1>1, <1>2

\* The inductive invariant of the file system.
LEMMA FatInvariant == FatSpec => [](Shape /\ SoundInv)
<1> QED  BY FatInitShape, FatNextShape, FatInitSound, FatNextSound, PTL DEF FatSpec

-----------------------------------------------------------------------------
(* The theorems about the file system.                                     *)

\* On every sound volume, whatever its type, layout and names, and for any ASCII
\* names asked for, read() and read_large() answer with the data of the file that
\* the path names, and with nothing for a path that names no file.
THEOREM ReadsAreExact == FatSpec => []ReadsExact
<1>1. Shape /\ SoundInv => ReadsExact
  BY DEF SoundInv, ReadsExact, Answered, AskedBy, Asked
<1> QED  BY <1>1, FatInvariant, PTL

\* On every sound volume that can be mapped in whole pages, traverse_path() and
\* read_file() end the program for no request for something there, but for a
\* read of a file without clusters or too long for a reply, and when certificates
\* or memory are used up: the iterator of coalesce_long_names() does not miss an
\* entry that has the name looked for, and no other index, sector or assertion
\* fails before it.
THEOREM FilesAreFound == FatSpec => []FilesFound
<1>1. Shape /\ SoundInv => FilesFound
  BY DEF SoundInv, FilesFound, Ended, Exhausted, IsFile, AskedBy, Asked
<1> QED  BY <1>1, FatInvariant, PTL

\* A path begins with each of its beginnings.
LEMMA Prefix ==
  ASSUME NEW Q, NEW s \in Seq(Q), NEW t \in Seq(Q)
  PROVE  IsPrefix(s, s \o t)
BY DEF IsPrefix

\* On every volume, walk_clusters() follows a table's entry only to a cluster of
\* the volume: one the volume does not have is read only as the first of a chain,
\* as a directory entry or the parameter block names it unchecked.  On a sound
\* volume read_file() reads only what is on the path from the directory that a
\* capability is for.
THEOREM RequestsStayConfined == FatSpec => []Confined
<1>1. Shape => FatTypeOK
  BY DEF Shape, FatTypeOK, Types, Serving, ReadOK, SpentOK
<1>3. Shape /\ pc = "read" => WalkOK
  BY DEF Shape
<1>2. Shape /\ SoundInv => Confined
  <2> SUFFICES ASSUME Shape, SoundInv, volume.sound, pc = "read"
               PROVE  \E f \in volume.files :
                        /\ walk.cluster \in Range(f.chain)
                        /\ \E path \in f.paths : IsPrefix(request.at, path) /\ IsPrefix(path, Asked)
    BY <1>1, <1>3 DEF Confined, WalkOK
  <2>1. Served(request, reply) /\ ReadInv
    BY DEF SoundInv
  <2>2. PICK f : FileOf(volume, f) /\ Wanted(volume, size, look, request, f) /\ Walked(volume, walk, data, f)
    BY <2>1 DEF ReadInv
  <2>3. f \in volume.files /\ walk.cluster \in Range(f.chain)
    BY <2>2 DEF FileOf, Walked, Range
  <2>4. request.at \in Seq(Names) /\ request.path \in Seq(Names)
    BY <2>1 DEF Served
  <2>5. \E path \in f.paths : IsPrefix(request.at, path) /\ IsPrefix(path, Asked)
    <3>1. CASE size = NoSize
      <4>1. PICK path \in f.paths : Headed(volume, look, request, path)
        BY <2>2, <3>1 DEF Wanted
      <4>2. PICK q, rest : /\ q \in Seq(Names) /\ path = request.at \o q
                           /\ rest \in Seq(Names) /\ path \in Seq(Names) /\ path \o rest = Asked
        BY <4>1 DEF Headed, AskedBy, Asked
      <4>3. IsPrefix(request.at, path) /\ IsPrefix(path, Asked)
        BY <2>4, <4>2, Prefix
      <4> QED  BY <4>3
    <3>2. CASE size # NoSize
      <4>1. Asked \in f.paths
        BY <2>2, <3>2 DEF Wanted, AskedBy, Asked
      <4>2. IsPrefix(request.at, Asked)
        BY <2>4, Prefix DEF Asked
      <4>3. Asked \in Seq(Names) /\ Asked = Asked \o <<>> /\ <<>> \in Seq(Names)
        BY <2>4 DEF Asked
      <4>4. IsPrefix(Asked, Asked)
        BY <4>3, Prefix
      <4> QED  BY <4>1, <4>2, <4>4
    <3> QED  BY <3>1, <3>2
  <2> QED  BY <2>3, <2>5
<1> QED  BY <1>2, FatInvariant, PTL

=============================================================================
