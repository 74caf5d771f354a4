------------------------------- MODULE Logger ------------------------------
(***************************************************************************)
(* The log viewer (logger.c) over the file that log_write() (log.c)        *)
(* appends to: the buffer of the newest lines, the scroll position, the    *)
(* keys and the reload that follows the end of the log.                    *)
(*                                                                         *)
(* The lines ever written are numbered 1, 2, ...; the file holds the lines *)
(* first + 1 .. last, and a line of the buffer is its number.  Writers,    *)
(* the keyboard and the size of the terminal change between any two steps. *)
(***************************************************************************)
EXTENDS Naturals, Sequences

CONSTANTS
  MaxLines,   \* LOGGER_MAX_LINES
  MaxRows,    \* bound: the largest terminal
  MaxWritten, \* bound: lines written in all
  MaxTyped,   \* bound: bytes typed that can be waiting
  Keys        \* the keys, or single bytes, that arrive from the terminal

\* The keys that logger_read_key() knows.
KnownKeys == {"Up", "Down", "PgUp", "PgDn", "Home", "End", "g", "G", "q"}

AllBytes == {"esc", "[", "A", "B", "5", "6", "~", "H", "F", "g", "G", "q"}

ASSUME LoggerAssumption ==
  /\ MaxLines \in Nat \ {0}
  /\ MaxRows \in Nat \ {0}
  /\ MaxWritten \in Nat
  /\ MaxTyped \in Nat
  /\ Keys \subseteq KnownKeys \cup AllBytes

VARIABLES
  pc,
  lines,      \* lines[0 .. line_count - 1] of the code
  top_line,
  read,       \* the last line that fgets() has returned
  first,      \* the last line before the ones in the file
  last,       \* the last line written
  visible,    \* what logger_visible_lines() returns
  tty,        \* bytes typed and not read
  old_count,  \* line_count when the reload began
  shown       \* the lines on the screen

viewVars == <<lines, top_line, read, old_count, shown>>
fileVars == <<first, last>>
vars     == <<pc, viewVars, fileVars, visible, tty>>

line_count == Len(lines)

\* The bytes that a key sends.  A byte is sent as it is, so a sequence that
\* arrives in pieces is its bytes, or its first bytes alone.
Bytes(key) ==
  CASE key = "Up"   -> <<"esc", "[", "A">>
    [] key = "Down" -> <<"esc", "[", "B">>
    [] key = "PgUp" -> <<"esc", "[", "5", "~">>
    [] key = "PgDn" -> <<"esc", "[", "6", "~">>
    [] key = "Home" -> <<"esc", "[", "H">>
    [] key = "End"  -> <<"esc", "[", "F">>
    [] OTHER        -> <<key>>

TypeOK ==
  /\ pc \in {"start", "load", "key", "reload", "ended"}
  /\ lines \in Seq(Nat)
  /\ line_count <= MaxLines
  /\ top_line \in Nat
  /\ read \in Nat /\ first \in Nat /\ last \in Nat
  /\ first <= last
  /\ visible \in 1..MaxRows
  /\ tty \in Seq(AllBytes)
  /\ old_count \in Nat
  /\ shown \in SUBSET Nat

Init ==
  /\ pc = "start"
  /\ lines = <<>>
  /\ top_line = 0
  /\ read = 0
  /\ first = 0
  /\ last \in 0..MaxWritten
  /\ visible \in 1..MaxRows
  /\ tty = <<>>
  /\ old_count = 0
  /\ shown = {}

-----------------------------------------------------------------------------
(***************************************************************************)
(* Scrolling: the new top_line, for top_line t and v visible lines.        *)
(***************************************************************************)

ScrollUp(t, amount) == IF t >= amount THEN t - amount ELSE 0

\* logger_end()
EndTop(v) == IF line_count > v THEN line_count - v ELSE 0

ScrollDown(t, amount, v) ==
  IF line_count <= v THEN 0
  ELSE IF t + amount >= line_count - v THEN line_count - v ELSE t + amount

\* Mutant: a position behind the end is left as it is.
ClampNot(t) == t

\* logger_draw() corrects top_line before it draws.
Clamp(t) ==
  IF line_count = 0 THEN 0 ELSE IF t >= line_count THEN line_count - 1 ELSE t

\* The lines that logger_draw() prints with top_line t.
Window(t, v) == {lines[i + 1] : i \in {j \in t..(t + v - 1) : j < line_count}}

\* logger_draw(), with top_line t on entry.
Draw(t) ==
  /\ top_line' = Clamp(t)
  /\ shown' = Window(Clamp(t), visible)

-----------------------------------------------------------------------------
(***************************************************************************)
(* logger_load_file().                                                     *)
(***************************************************************************)

\* rewind() and line_count = 0.
Rewind ==
  /\ read' = first
  /\ lines' = <<>>

\* Mutant: a full buffer drops the new line.
KeepOldest(seq, line) == IF Len(seq) < MaxLines THEN Append(seq, line) ELSE seq

\* Mutant: the limit is off by one.
KeepOneMore(seq, line) ==
  IF Len(seq) <= MaxLines THEN Append(seq, line) ELSE Append(Tail(seq), line)

\* A line goes to the end; in a full buffer the others move up by one.
KeepNewest(seq, line) ==
  IF Len(seq) < MaxLines THEN Append(seq, line) ELSE Append(Tail(seq), line)

\* fgets() returns a line.
ReadLine ==
  /\ pc \in {"load", "reload"}
  /\ read < last
  /\ read' = read + 1
  /\ lines' = KeepNewest(lines, read + 1)
  /\ UNCHANGED <<pc, top_line, old_count, shown, fileVars, visible, tty>>

EndOfFile == read = last

-----------------------------------------------------------------------------
(***************************************************************************)
(* main().                                                                 *)
(***************************************************************************)

\* The file is opened and the terminal made raw, or the program ends.
Start ==
  /\ pc = "start"
  /\ pc' \in {"load", "ended"}
  /\ Rewind
  /\ UNCHANGED <<top_line, old_count, shown, fileVars, visible, tty>>

\* The first load has reached the end of the file: logger_end() and a drawing.
FirstView ==
  /\ pc = "load"
  /\ EndOfFile
  /\ Draw(EndTop(visible))
  /\ pc' = "key"
  /\ UNCHANGED <<lines, read, old_count, fileVars, visible, tty>>

\* Mutant: the array for the rest of a sequence is one byte longer.
TakenOneMore == IF tty # <<>> /\ Head(tty) = "esc"
                THEN IF Len(tty) < 5 THEN Len(tty) ELSE 5
                ELSE IF tty = <<>> THEN 0 ELSE 1

\* The bytes that logger_read_key() takes: one, and after an escape up to
\* three more, whatever they belong to.  Nothing but this reads them, so the
\* two calls of read() are one step, at the moment of the second.
Taken == IF tty # <<>> /\ Head(tty) = "esc"
         THEN IF Len(tty) < 4 THEN Len(tty) ELSE 4
         ELSE IF tty = <<>> THEN 0 ELSE 1

\* The key that those bytes are for logger_read_key().
KeyRead ==
  LET is(key) == /\ Taken >= Len(Bytes(key))
                 /\ SubSeq(tty, 1, Len(Bytes(key))) = Bytes(key)
  IN  IF \E key \in KnownKeys : is(key)
      THEN CHOOSE key \in KnownKeys : is(key)
      ELSE "none"

\* PgUp and PgDn keep one line of the page.
Page == IF visible > 1 THEN visible - 1 ELSE 1

\* The new top_line by logger_process_key(), or by logger_read_key() itself
\* for g and G.
ProcessKey(key) ==
  CASE key = "Up"            -> ScrollUp(top_line, 1)
    [] key = "Down"          -> ScrollDown(top_line, 1, visible)
    [] key = "PgUp"          -> ScrollUp(top_line, Page)
    [] key = "PgDn"          -> ScrollDown(top_line, Page, visible)
    [] key \in {"Home", "g"} -> 0
    [] key \in {"End", "G"}  -> EndTop(visible)

\* A turn of the main loop up to the reload: at most one key, and a drawing
\* when there was one.
ReadKey ==
  /\ pc = "key"
  /\ tty' = SubSeq(tty, Taken + 1, Len(tty))
  /\ IF KeyRead = "q"
     THEN pc' = "ended" /\ UNCHANGED viewVars
     ELSE /\ IF KeyRead = "none"
             THEN UNCHANGED <<top_line, shown>>
             ELSE Draw(ProcessKey(KeyRead))
          /\ pc' = "reload"
          /\ old_count' = line_count
          /\ Rewind
  /\ UNCHANGED <<fileVars, visible>>

\* Mutant: the margin of one line is missing.
FollowsStrictly == line_count > visible /\ top_line + visible >= line_count

\* Mutant: the position is not looked at.
FollowsAlways == line_count > visible

\* The condition for following, with the line count after the reload.  That
\* ftell() succeeds, which the code asks too, is so for any regular file.
Follows == line_count > visible /\ top_line + visible >= line_count - 1

\* The reload has reached the end of the file: follow, draw and nap.
Refresh ==
  /\ pc = "reload"
  /\ EndOfFile
  /\ Draw(IF Follows THEN EndTop(visible) ELSE top_line)
  /\ pc' = "key"
  /\ UNCHANGED <<lines, read, old_count, fileVars, visible, tty>>

-----------------------------------------------------------------------------
(***************************************************************************)
(* The rest of the machine.                                                *)
(***************************************************************************)

\* log_write() in some process.
LogWrite ==
  /\ pc # "ended"
  /\ last < MaxWritten
  /\ last' = last + 1
  /\ UNCHANGED <<pc, viewVars, first, visible, tty>>

\* Somebody empties the file.  Not in the middle of a reload: what fgets() then
\* returns depends on stdio's buffer and on offsets, which are not modelled.
Truncate ==
  /\ pc = "key"
  /\ first < last
  /\ first' = last
  /\ UNCHANGED <<pc, viewVars, last, visible, tty>>

\* A key is typed.  One typed during a reload is read after it, so this is
\* the only place where a key has to arrive.
Type(key) ==
  /\ pc = "key"
  /\ Len(tty) + Len(Bytes(key)) <= MaxTyped
  /\ tty' = tty \o Bytes(key)
  /\ UNCHANGED <<pc, viewVars, fileVars, visible>>

Resize ==
  /\ pc # "ended"
  /\ visible' \in 1..MaxRows
  /\ UNCHANGED <<pc, viewVars, fileVars, tty>>

Ended == pc = "ended" /\ UNCHANGED vars

-----------------------------------------------------------------------------

ViewerStep == Start \/ ReadLine \/ FirstView \/ ReadKey \/ Refresh

Environment ==
  LogWrite \/ Truncate \/ (\E key \in Keys : Type(key)) \/ Resize \/ Ended

Next == ViewerStep \/ Environment

Spec == Init /\ [][Next]_vars

\* The viewer is scheduled.  It does not have to be typed or written to.
FairSpec == Spec /\ WF_vars(ViewerStep)

-----------------------------------------------------------------------------
(***************************************************************************)
(* Properties.                                                             *)
(***************************************************************************)

Loading == pc \in {"load", "reload"}

\* "Keep the newest entries": at every point of a load the buffer holds the
\* newest lines read so far, without a gap, and as many as there are room for.
BufferNewest ==
  /\ \A i \in 1..line_count : lines[i] + line_count = read + i
  /\ Loading => line_count = IF read - first < MaxLines THEN read - first
                             ELSE MaxLines

\* After a drawing the position is inside the buffer, also when the file has
\* been emptied or the terminal resized: something is shown unless the buffer
\* is empty, and never an entry behind the last one.
ViewInBounds ==
  pc = "key" => /\ IF line_count = 0 THEN top_line = 0 ELSE top_line < line_count
                /\ (shown = {}) <=> (line_count = 0)

\* A viewer at the end of the log is still there after a reload that brought
\* at most one more line, and after any reload of a full buffer.
FollowsSlowLog ==
  [][pc = "reload" /\ pc' = "key" /\ top_line + visible >= old_count
       /\ line_count <= old_count + 1 => top_line' + visible >= line_count]_vars

TopText == CHOOSE n \in shown : \A m \in shown : n <= m

\* A reload does not move the text under a reader who has scrolled up by two
\* lines or more: the first line on the screen stays the same, as long as it is
\* still in the file and the file fits into the buffer.
ReaderUndisturbed ==
  [][pc = "reload" /\ pc' = "key" /\ top_line + visible + 1 < old_count
       /\ TopText > first /\ last <= first + MaxLines
       => TopText' = TopText]_vars

\* No escape byte is near enough before byte i to take it along.
OutOfReach(i) == \A j \in 1..(i - 1) : j + 3 >= i => tty[j] # "esc"

\* A q that is waiting to be read ends the viewer, whatever is typed before and
\* behind it, unless it comes within three bytes of an escape: what follows an
\* escape is read together with it, and a q is lost there (after a cursor key)
\* but not behind the four bytes of PgUp and PgDn.
QuitObeyed ==
  (\E i \in 1..Len(tty) : tty[i] = "q" /\ OutOfReach(i)) ~> pc = "ended"

=============================================================================
