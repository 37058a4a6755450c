------------------------------ MODULE Console ------------------------------
(***************************************************************************)
(* A terminal and its shell (apps/src/bin/terminal.rs, shell.rs).          *)
(*                                                                         *)
(* The window server pushes the events of the keyboard into the window's   *)
(* ring (modules Desktop, RingBuffer), one by one as the device gives them *)
(* and each to the window that is active then; the terminal serves         *)
(* getchar() from the ring, spinning with yield, and putchar() by moving   *)
(* its cursor over the window.  The shell prints a prompt, reads a line,   *)
(* echoes it and runs a command.  The terminal and the shell run between   *)
(* any two events.  Of the characters three matter: one with a glyph, one  *)
(* that ends a line, and those the terminal ignores; what a command does   *)
(* is left open.                                                           *)
(***************************************************************************)
EXTENDS Naturals, Sequences, SequencesExt

CONSTANTS
  RING,            \* events the window's ring can hold
  LINE_BUF,        \* characters in a command line, 128 in the code
  FILE_BUF,        \* characters in a file that is typed in, 512 in the code
  LEFTPAD, FONT_WIDTH, FONT_HEIGHT,
  WINDOW_WIDTH, WINDOW_HEIGHT,
  MAX_KEYS         \* bound: sequences of which this window gets events

ASSUME ConsoleAssumption ==
  /\ {RING, LINE_BUF, FILE_BUF, LEFTPAD, FONT_WIDTH, FONT_HEIGHT, MAX_KEYS} \subseteq Nat
  /\ {WINDOW_WIDTH, WINDOW_HEIGHT} \subseteq Nat /\ FILE_BUF > 0
  /\ LEFTPAD + FONT_WIDTH <= WINDOW_WIDTH
  /\ FONT_HEIGHT > 0 /\ FONT_HEIGHT <= WINDOW_HEIGHT

\* A sequence is a key event and its end; nr tells the sequences apart.
SYN(nr) == [type |-> "syn", code |-> "none", value |-> 0, nr |-> nr]
KeyEvent(code, value, nr) == [type |-> "key", code |-> code, value |-> value, nr |-> nr]

\* Keys with a character, and the others.
Recognized == {"a", "enter"}
Keys == Recognized \cup {"alt"}

VARIABLES
  ring,          \* the events of the window that were not read
  keys,          \* number of sequences of which the window got events
  due,           \* whether the end of the last one is still to come
  typed,         \* the events with a character the window got
  read,          \* those whose character the shell was given, in order
  torn,          \* the sequences that the window got a half of, or whose key
                 \* the terminal took before their end came
  cursor_x, cursor_y,
  mode,          \* what the shell does: "prompt", "line", "multiline" or "exited"
  asking,        \* whether it waits in getchar()
  out,           \* what it still has to print before it goes on
  buf,           \* what it has read of a line or a file
  line_empty,    \* whether a line of the file is empty so far
  stopped        \* whether the window server's push() failed

input == <<ring, keys, due>>
history == <<typed, read, torn>>
terminal == <<cursor_x, cursor_y>>
shell == <<mode, asking, out, buf, line_empty>>
vars == <<input, history, terminal, shell, stopped>>

Init ==
  /\ ring = <<>> /\ keys = 0 /\ due = FALSE
  /\ typed = {} /\ read = <<>> /\ torn = {}
  /\ cursor_x = LEFTPAD /\ cursor_y = 0
  /\ mode = "prompt" /\ asking = FALSE /\ out = <<>> /\ buf = <<>> /\ line_empty = TRUE
  /\ stopped = FALSE

-----------------------------------------------------------------------------
(* The window server: a key is pressed or released.  The window that is    *)
(* active, which the mouse or a new window may change between two events,  *)
(* gets the event; its full ring fails the assertion of push().            *)

Pressed(event) == event.value = 1 /\ event.code \in Recognized

push(event) ==
  IF Len(ring) = RING
    THEN stopped' = TRUE /\ UNCHANGED <<ring, typed>>
    ELSE /\ ring' = Append(ring, event)
         /\ typed' = IF Pressed(event) THEN typed \cup {event} ELSE typed
         /\ UNCHANGED stopped

\* The key of a sequence, in this window.
PushKey(code, value) ==
  /\ ~stopped /\ ~due /\ keys < MAX_KEYS
  /\ keys' = keys + 1 /\ due' = TRUE
  /\ push(KeyEvent(code, value, keys + 1))
  /\ UNCHANGED <<read, torn, terminal, shell>>

\* Its end ...
PushSyn ==
  /\ ~stopped /\ due
  /\ due' = FALSE
  /\ push(SYN(keys))
  /\ UNCHANGED <<keys, read, torn, terminal, shell>>

\* ... which another window gets if it became active in between, and the end of
\* a sequence that began in another one.
SynElsewhere ==
  /\ ~stopped /\ due
  /\ due' = FALSE /\ torn' = torn \cup {keys}
  /\ UNCHANGED <<ring, keys, typed, read, terminal, shell, stopped>>

StraySyn ==
  /\ ~stopped /\ ~due /\ keys < MAX_KEYS
  /\ keys' = keys + 1 /\ torn' = torn \cup {keys + 1}
  /\ push(SYN(keys + 1))
  /\ UNCHANGED <<due, read, terminal, shell>>

-----------------------------------------------------------------------------
(* The shell: what it does with a character.                               *)

\* getline(): the end of the line, a line that is too long, or one more.
GotInLine(ch) ==
  IF ch = "enter"
    THEN /\ out' = <<ch, "newline">>
         /\ mode' = "command" /\ UNCHANGED <<buf, line_empty>>
    ELSE IF Len(buf) = LINE_BUF
      THEN /\ out' = <<ch, "newline", "a", "newline">>
           /\ mode' = "prompt" /\ UNCHANGED <<buf, line_empty>>
      ELSE /\ out' = <<ch>>
           /\ buf' = Append(buf, ch)
           /\ UNCHANGED <<mode, line_empty>>

\* getmultiline(): an empty line ends the file, and a full buffer gives up.
GotInFile(ch) ==
  IF ch = "enter" /\ line_empty
    THEN /\ out' = <<ch>>
         /\ mode' = "prompt" /\ UNCHANGED <<buf, line_empty>>
    ELSE /\ buf' = Append(buf, ch)
         /\ line_empty' = (ch = "enter")
         /\ LET echo == IF ch = "enter" THEN <<ch, "newline">> ELSE <<ch>>
            IN  IF Len(buf') = FILE_BUF
                  THEN out' = echo \o <<"newline", "a", "newline">> /\ mode' = "prompt"
                  ELSE out' = echo /\ UNCHANGED mode

Prompt ==
  /\ mode = "prompt" /\ out = <<>>
  /\ out' = <<"a", "space">>
  /\ mode' = "line" /\ buf' = <<>>
  /\ UNCHANGED <<input, history, terminal, asking, line_empty, stopped>>

\* A command prints something, reads a file, or ends the shell.
Command ==
  /\ mode = "command" /\ out = <<>>
  /\ \/ \E output \in {<<>>, <<"a", "newline">>} : out' = output /\ mode' = "prompt"
     \/ mode' = "multiline" /\ UNCHANGED out
     \/ mode' = "exited" /\ UNCHANGED out
  /\ buf' = <<>> /\ line_empty' = TRUE
  /\ UNCHANGED <<input, history, terminal, asking, stopped>>

\* Mutant: the text of a file is not asked for.
MutantAskOnce ==
  /\ mode = "line" /\ out = <<>> /\ ~asking
  /\ asking' = TRUE
  /\ UNCHANGED <<input, history, terminal, mode, out, buf, line_empty, stopped>>

Ask ==
  /\ mode \in {"line", "multiline"} /\ out = <<>> /\ ~asking
  /\ asking' = TRUE
  /\ UNCHANGED <<input, history, terminal, mode, out, buf, line_empty, stopped>>

-----------------------------------------------------------------------------
(* The terminal. *)

\* Mutant: everything in the ring is thrown away with the sequence.
MutantDrains(events) == Len(events)

\* The number of events getchar() takes: one, and those that follow it up to
\* the first of type 0.
SequenceLength(events) ==
  LET ends == {n \in 2 .. Len(events) : events[n].type = "syn"}
  IN  IF ends = {} THEN Len(events) ELSE CHOOSE n \in ends : \A other \in ends : n <= other

\* getchar(): the first event is read and those behind it up to the end of a
\* sequence, be they of the same one or not; the first answers the call if it is
\* a key that was pressed and has a character; otherwise the loop goes on.
getchar ==
  /\ asking /\ ring # <<>>
  /\ LET event == Head(ring)
         length == SequenceLength(ring)
         last == ring[length]
     IN  /\ ring' = SubSeq(ring, length + 1, Len(ring))
         /\ torn' = IF last.type = "key" THEN torn \cup {last.nr} ELSE torn
         /\ IF Pressed(event)
              THEN /\ read' = Append(read, event)
                   /\ asking' = FALSE
                   /\ IF mode = "line" THEN GotInLine(event.code) ELSE GotInFile(event.code)
              ELSE UNCHANGED <<read, shell>>
  /\ UNCHANGED <<keys, due, typed, terminal, stopped>>

\* render_char(): the cursor moves, then wraps, then the window scrolls.
Moved(c) ==
  CASE c \in {"a", "space"} -> <<cursor_x + FONT_WIDTH, cursor_y>>
    [] c = "newline" -> <<LEFTPAD, cursor_y + FONT_HEIGHT>>
    [] OTHER -> <<cursor_x, cursor_y>>

Wrapped(pos) ==
  IF pos[1] + FONT_WIDTH > WINDOW_WIDTH THEN <<LEFTPAD, pos[2] + FONT_HEIGHT>> ELSE pos

\* Mutant: the window scrolls only once the cursor has left it.
MutantLateScroll(pos) ==
  IF pos[2] > WINDOW_HEIGHT THEN <<LEFTPAD, pos[2] - FONT_HEIGHT>> ELSE pos

Scrolled(pos) ==
  IF pos[2] + FONT_HEIGHT > WINDOW_HEIGHT THEN <<LEFTPAD, pos[2] - FONT_HEIGHT>> ELSE pos

putchar ==
  /\ out # <<>>
  /\ LET pos == Scrolled(Wrapped(Moved(Head(out))))
     IN  cursor_x' = pos[1] /\ cursor_y' = pos[2]
  /\ out' = Tail(out)
  /\ UNCHANGED <<input, history, mode, asking, buf, line_empty, stopped>>

-----------------------------------------------------------------------------
(* The specification. *)

Programs == Prompt \/ Command \/ Ask \/ getchar \/ putchar

WindowServer ==
  \/ \E code \in Keys, value \in {0, 1} : PushKey(code, value)
  \/ PushSyn
  \/ SynElsewhere
  \/ StraySyn

Next == Programs \/ WindowServer

\* The kernel lets the shell and the terminal run again and again.
Spec == Init /\ [][Next]_vars /\ WF_vars(Programs)

-----------------------------------------------------------------------------
(* Properties. *)

\* The state has its shape, and no buffer holds more than it can.
TypeOK ==
  /\ Len(ring) <= RING
  /\ mode \in {"prompt", "line", "multiline", "command", "exited"}
  /\ mode = "line" => Len(buf) <= LINE_BUF
  /\ mode = "multiline" => Len(buf) < FILE_BUF
  /\ due \in BOOLEAN /\ torn \subseteq 1 .. keys
  /\ asking \in BOOLEAN /\ line_empty \in BOOLEAN /\ stopped \in BOOLEAN

\* The characters that wait in the ring.
Waiting == {ring[i] : i \in {n \in 1 .. Len(ring) : Pressed(ring[n])}}

\* What the shell is given and what then waits are keys of the user in the order
\* they were pressed, none of them twice.  getchar() throws keys away, since it
\* takes whatever is behind an event up to an end for the rest of its sequence:
\* but only the key right behind a sequence it was given half of.
KeysInOrder ==
  /\ \A i, j \in 1 .. Len(read) : i < j => read[i].nr < read[j].nr
  /\ \A i, j \in 1 .. Len(ring) : i < j /\ ring[j].type = "key" => ring[i].nr < ring[j].nr
  /\ \A i \in 1 .. Len(read) : read[i] \in typed /\ \A event \in Waiting : read[i].nr < event.nr
  /\ \A event \in typed :
       \/ event \in Waiting
       \/ \E i \in 1 .. Len(read) : read[i] = event
       \/ event.nr - 1 \in torn

\* The cursor always has room for another character: glyphs are drawn inside
\* the window after any output, through wrapping and scrolling.
CursorInWindow ==
  /\ LEFTPAD <= cursor_x /\ cursor_x + FONT_WIDTH <= WINDOW_WIDTH
  /\ 0 <= cursor_y /\ cursor_y + FONT_HEIGHT <= WINDOW_HEIGHT

\* Neither the buffers of the shell nor the terminal's window are ever overrun.
InBounds == TypeOK /\ CursorInWindow

\* What is typed is taken from the ring, unless the shell has ended or a ring was
\* full.
KeysRead == Waiting # {} ~> Waiting = {} \/ mode = "exited" \/ stopped

=============================================================================
