---------------------------- MODULE LoggerProofs ---------------------------
(***************************************************************************)
(* Proofs about Logger, for any LOGGER_MAX_LINES, any size of the terminal *)
(* and any number of lines and keys: its type, that the buffer holds the   *)
(* newest lines without a gap, that the position stays inside the buffer,  *)
(* that a log growing slowly is followed, and that a reload does not move  *)
(* the text under a reader who has scrolled up.                            *)
(***************************************************************************)
EXTENDS Logger, SequenceTheorems, TLAPS

\* During a load the file has the lines that were read; the buffer never has
\* more lines than were read.
ReadInFile ==
  /\ line_count <= read
  /\ Loading => first <= read /\ read <= last
  /\ pc = "start" => lines = <<>>

\* The inductive invariant.
IInv == TypeOK /\ BufferNewest /\ ReadInFile /\ ViewInBounds

\* The length of the buffer is a number and its elements are lines.
LEMMA BufferLines ==
  ASSUME TypeOK
  PROVE  line_count \in Nat /\ \A i \in 1..line_count : lines[i] \in Nat
BY LenProperties, ElementOfSeq DEF TypeOK, line_count

\* The viewer starts with an empty buffer.
LEMMA InitIInv == Init => IInv
<1> SUFFICES ASSUME Init PROVE IInv
  OBVIOUS
<1> USE LoggerAssumption DEF Init
<1>1. lines \in Seq(Nat) /\ tty \in Seq(AllBytes) /\ line_count = 0
  BY EmptySeq DEF line_count
<1>2. TypeOK
  BY <1>1 DEF TypeOK
<1>3. BufferNewest /\ ReadInFile /\ ViewInBounds
  BY <1>1 DEF BufferNewest, ReadInFile, ViewInBounds, Loading
<1> QED
  BY <1>2, <1>3 DEF IInv

\* Adding one on both sides.
LEMMA AddOne ==
  ASSUME NEW a \in Nat, NEW b \in Nat, NEW c \in Nat, NEW d \in Nat, a + b = c + d
  PROVE  a + (b + 1) = (c + 1) + d
OBVIOUS

\* Append() to a sequence of lines.
LEMMA AppendLine ==
  ASSUME NEW seq \in Seq(Nat), NEW line \in Nat
  PROVE  /\ Append(seq, line) \in Seq(Nat)
         /\ Len(Append(seq, line)) = Len(seq) + 1
         /\ \A i \in 1..Len(seq) : Append(seq, line)[i] = seq[i]
         /\ Append(seq, line)[Len(seq) + 1] = line
<1>1. Append(seq, line) \in Seq(Nat) /\ Len(Append(seq, line)) = Len(seq) + 1
  BY AppendProperties
<1>2. \A i \in 1..Len(seq) : Append(seq, line)[i] = seq[i]
  BY AppendProperties
<1>3. Append(seq, line)[Len(seq) + 1] = line
  BY AppendProperties
<1> QED
  BY <1>1, <1>2, <1>3

\* Reading a line into a buffer of the newest lines gives such a buffer, one
\* longer unless it was full.
LEMMA KeepNewestProperties ==
  ASSUME NEW seq \in Seq(Nat), NEW r \in Nat,
         Len(seq) <= MaxLines,
         \A i \in 1..Len(seq) : seq[i] + Len(seq) = r + i
  PROVE  /\ KeepNewest(seq, r + 1) \in Seq(Nat)
         /\ Len(KeepNewest(seq, r + 1)) =
              IF Len(seq) < MaxLines THEN Len(seq) + 1 ELSE MaxLines
         /\ \A i \in 1..Len(KeepNewest(seq, r + 1)) :
              KeepNewest(seq, r + 1)[i] + Len(KeepNewest(seq, r + 1)) = (r + 1) + i
<1> DEFINE new == KeepNewest(seq, r + 1)
<1>1. /\ r + 1 \in Nat /\ Len(seq) \in Nat /\ MaxLines \in Nat \ {0}
      /\ \A i \in 1..Len(seq) : seq[i] \in Nat
  BY LoggerAssumption, LenProperties, ElementOfSeq
<1>2. CASE Len(seq) < MaxLines
  <2>1. new = Append(seq, r + 1)
    BY <1>2 DEF KeepNewest
  <2> HIDE DEF new
  <2>2. new \in Seq(Nat) /\ Len(new) = Len(seq) + 1
    BY <1>1, <2>1, AppendLine
  <2>3. (\A i \in 1..Len(seq) : new[i] = seq[i]) /\ new[Len(seq) + 1] = r + 1
    BY <1>1, <2>1, AppendLine
  <2>4. ASSUME NEW i \in 1..(Len(seq) + 1)
        PROVE  new[i] + (Len(seq) + 1) = (r + 1) + i
    <3>1. CASE i = Len(seq) + 1
      BY <3>1, <2>3, <1>1
    <3>2. CASE i \in 1..Len(seq)
      <4>1. new[i] = seq[i] /\ seq[i] \in Nat /\ seq[i] + Len(seq) = r + i
        BY <3>2, <2>3, <1>1
      <4>2. seq[i] + (Len(seq) + 1) = (r + 1) + i
        <5> DEFINE x == seq[i]  n == Len(seq)
        <5>1. x \in Nat /\ n \in Nat /\ i \in Nat /\ x + n = r + i
          BY <4>1, <1>1
        <5> HIDE DEF x, n
        <5>2. x + (n + 1) = (r + 1) + i
          BY <5>1, AddOne
        <5> QED
          BY <5>2 DEF x, n
      <4> QED
        BY <4>1, <4>2
    <3> QED
      BY <3>1, <3>2, <1>1
  <2>5. Len(new) = IF Len(seq) < MaxLines THEN Len(seq) + 1 ELSE MaxLines
    BY <1>2, <2>2
  <2>6. \A i \in 1..Len(new) : new[i] + Len(new) = (r + 1) + i
    BY <2>2, <2>4
  <2> QED
    BY <2>2, <2>5, <2>6 DEF new
<1>3. CASE Len(seq) = MaxLines
  <2>1. seq # <<>>
    BY <1>1, <1>3
  <2>2. Tail(seq) \in Seq(Nat) /\ Len(Tail(seq)) = MaxLines - 1
    BY <1>3, <2>1, HeadTailProperties
  <2>3. \A i \in 1..(MaxLines - 1) : Tail(seq)[i] = seq[i + 1]
    BY <1>3, <2>1, <2>2, HeadTailProperties
  <2>4. new = Append(Tail(seq), r + 1)
    BY <1>1, <1>3 DEF KeepNewest
  <2> HIDE DEF new
  <2>5. new \in Seq(Nat) /\ Len(new) = MaxLines
    BY <1>1, <2>2, <2>4, AppendLine
  <2>6. /\ \A i \in 1..(MaxLines - 1) : new[i] = Tail(seq)[i]
        /\ new[MaxLines] = r + 1
    BY <1>1, <2>2, <2>4, AppendLine
  <2>7. ASSUME NEW i \in 1..MaxLines PROVE new[i] + MaxLines = (r + 1) + i
    <3>1. CASE i = MaxLines
      BY <3>1, <2>6, <1>1
    <3>2. CASE i \in 1..(MaxLines - 1)
      <4>1. new[i] = seq[i + 1] /\ i + 1 \in 1..Len(seq)
        BY <3>2, <2>3, <2>6, <1>1, <1>3
      <4> QED
        BY <4>1, <1>1, <1>3
    <3> QED
      BY <3>1, <3>2, <1>1
  <2>8. Len(new) = IF Len(seq) < MaxLines THEN Len(seq) + 1 ELSE MaxLines
    BY <1>1, <1>3, <2>5
  <2>9. \A i \in 1..Len(new) : new[i] + Len(new) = (r + 1) + i
    BY <2>5, <2>7
  <2> QED
    BY <2>5, <2>8, <2>9 DEF new
<1> QED
  BY <1>1, <1>2, <1>3

\* logger_draw() leaves a position inside the buffer and shows something unless
\* the buffer is empty.
LEMMA DrawProperties ==
  ASSUME TypeOK, NEW t \in Nat, Draw(t)
  PROVE  /\ top_line' \in Nat
         /\ IF line_count = 0 THEN top_line' = 0 ELSE top_line' < line_count
         /\ shown' \in SUBSET Nat
         /\ (shown' = {}) <=> (line_count = 0)
<1> DEFINE c == Clamp(t)
<1>1. line_count \in Nat /\ \A i \in 1..line_count : lines[i] \in Nat
  BY BufferLines
<1>2. c \in Nat /\ IF line_count = 0 THEN c = 0 ELSE c < line_count
  BY <1>1 DEF Clamp
<1>3. visible \in Nat /\ visible >= 1
  BY LoggerAssumption DEF TypeOK
<1>4. shown' = {lines[i + 1] : i \in {j \in c..(c + visible - 1) : j < line_count}}
  BY DEF Draw, Window
<1>5. shown' \in SUBSET Nat
  BY <1>1, <1>2, <1>3, <1>4
<1>6. (shown' = {}) <=> (line_count = 0)
  <2>1. CASE line_count = 0
    <3>1. {j \in c..(c + visible - 1) : j < line_count} = {}
      BY <1>2, <1>3, <2>1
    <3> QED
      BY <3>1, <1>4, <2>1
  <2>2. CASE line_count # 0
    <3>1. c \in {j \in c..(c + visible - 1) : j < line_count}
      BY <1>1, <1>2, <1>3, <2>2
    <3>2. lines[c + 1] \in shown'
      BY <3>1, <1>4, Zenon
    <3> QED
      BY <3>2, <2>2
  <2> QED
    BY <2>1, <2>2
<1>7. top_line' = c
  BY DEF Draw
<1> QED
  BY <1>2, <1>5, <1>6, <1>7
\* A key leads to a position.
LEMMA ProcessKeyPosition ==
  ASSUME TypeOK, KeyRead \notin {"none", "q"}
  PROVE  ProcessKey(KeyRead) \in Nat
<1>1. line_count \in Nat /\ top_line \in Nat /\ visible \in Nat /\ visible >= 1
  BY BufferLines, LoggerAssumption DEF TypeOK
<1>2. KeyRead \in KnownKeys
  BY DEF KeyRead
<1>3. Page \in Nat
  BY <1>1 DEF Page
<1>4. EndTop(visible) \in Nat
  BY <1>1 DEF EndTop
<1>5. \A a \in Nat : ScrollUp(top_line, a) \in Nat /\ ScrollDown(top_line, a, visible) \in Nat
  BY <1>1 DEF ScrollUp, ScrollDown
<1>6. KeyRead \in {"Up", "Down", "PgUp", "PgDn", "Home", "End", "g", "G"}
  BY <1>2 DEF KnownKeys
<1> HIDE DEF KeyRead
<1> QED
  BY <1>3, <1>4, <1>5, <1>6 DEF ProcessKey

\* The bytes that are typed are bytes, and what is left after a key was read is
\* a sequence of them.
LEMMA TtyBytes ==
  ASSUME TypeOK
  PROVE  /\ \A key \in Keys : tty \o Bytes(key) \in Seq(AllBytes)
         /\ SubSeq(tty, Taken + 1, Len(tty)) \in Seq(AllBytes)
<1>1. tty \in Seq(AllBytes) /\ Len(tty) \in Nat
  BY LenProperties DEF TypeOK
<1>2. ASSUME NEW key \in Keys PROVE Bytes(key) \in Seq(AllBytes)
  <2>1. key \in KnownKeys \cup AllBytes
    BY LoggerAssumption
  <2>2. CASE key \in AllBytes
    <3>1. Bytes(key) = <<key>> /\ key \in AllBytes
      BY <2>2 DEF Bytes, AllBytes
    <3> QED
      BY <3>1
  <2>3. CASE key \in {"Up", "Down", "Home", "End"}
    <3>1. PICK c \in AllBytes : Bytes(key) = <<"esc", "[", c>>
      BY <2>3 DEF Bytes, AllBytes
    <3>2. "esc" \in AllBytes /\ "[" \in AllBytes
      BY DEF AllBytes
    <3> QED
      BY <3>1, <3>2
  <2>4. CASE key \in {"PgUp", "PgDn"}
    <3>1. PICK c \in AllBytes : Bytes(key) = <<"esc", "[", c, "~">>
      BY <2>4 DEF Bytes, AllBytes
    <3>2. "esc" \in AllBytes /\ "[" \in AllBytes /\ "~" \in AllBytes
      BY DEF AllBytes
    <3> QED
      BY <3>1, <3>2
  <2> QED
    BY <2>1, <2>2, <2>3, <2>4 DEF KnownKeys, AllBytes
<1>3. Taken \in Nat
  BY <1>1 DEF Taken
<1>4. \A i \in (Taken + 1)..Len(tty) : tty[i] \in AllBytes
  BY <1>1, <1>3, ElementOfSeq
<1>5. SubSeq(tty, Taken + 1, Len(tty)) \in Seq(AllBytes)
  <2> HIDE DEF Taken
  <2>1. Taken + 1 \in Int /\ Len(tty) \in Int
    BY <1>1, <1>3
  <2> QED
    BY <1>4, <2>1, SubSeqProperties
<1> QED
  BY <1>1, <1>2, <1>5, ConcatProperties

-----------------------------------------------------------------------------

\* rewind() and the empty buffer, wherever a load begins, keep IInv.
LEMMA RewindStep ==
  ASSUME IInv, Rewind, UNCHANGED fileVars, pc' \in {"load", "reload", "ended"},
         top_line' \in Nat, old_count' \in Nat, shown' \in SUBSET Nat,
         tty' \in Seq(AllBytes), visible' = visible
  PROVE  IInv'
<1> USE LoggerAssumption DEF IInv
<1>1. lines' = <<>> /\ read' = first
  BY DEF Rewind
<1>2. lines' \in Seq(Nat) /\ line_count' = 0
  BY <1>1 DEF line_count
<1>3. TypeOK'
  BY <1>1, <1>2 DEF TypeOK, fileVars
<1>4. BufferNewest'
  BY <1>1, <1>2 DEF BufferNewest, TypeOK, fileVars
<1>5. ReadInFile' /\ ViewInBounds'
  BY <1>1, <1>2 DEF ReadInFile, ViewInBounds, TypeOK, fileVars
<1> QED
  BY <1>3, <1>4, <1>5

\* One more line of the file.
LEMMA ReadLineStep ==
  ASSUME IInv, ReadLine
  PROVE  IInv'
<1> USE LoggerAssumption DEF IInv
<1>1. /\ lines \in Seq(Nat) /\ read \in Nat /\ Len(lines) <= MaxLines
      /\ \A i \in 1..Len(lines) : lines[i] + Len(lines) = read + i
  BY DEF TypeOK, BufferNewest, line_count
<1>2. lines' = KeepNewest(lines, read + 1) /\ read' = read + 1
  BY DEF ReadLine
<1>3. lines' \in Seq(Nat)
  BY <1>1, <1>2, KeepNewestProperties
<1>4. line_count' = IF line_count < MaxLines THEN line_count + 1 ELSE MaxLines
  BY <1>1, <1>2, KeepNewestProperties DEF line_count
<1>5. \A i \in 1..line_count' : lines'[i] + line_count' = read' + i
  BY <1>1, <1>2, KeepNewestProperties DEF line_count
<1>6. /\ pc' = pc /\ pc \in {"load", "reload"} /\ read < last
      /\ UNCHANGED <<top_line, old_count, shown, first, last, visible, tty>>
  BY DEF ReadLine, fileVars
<1>7. line_count \in Nat
  BY BufferLines
<1>8. TypeOK'
  BY <1>1, <1>2, <1>3, <1>4, <1>6, <1>7 DEF TypeOK
<1>9. /\ line_count = IF read - first < MaxLines THEN read - first ELSE MaxLines
      /\ first <= read /\ first \in Nat /\ last \in Nat /\ MaxLines \in Nat
      /\ line_count <= read
  BY <1>6 DEF BufferNewest, ReadInFile, Loading, TypeOK
<1>10. line_count' = IF read' - first' < MaxLines THEN read' - first' ELSE MaxLines
  BY <1>1, <1>2, <1>4, <1>6, <1>7, <1>9
<1>11. BufferNewest'
  BY <1>5, <1>10 DEF BufferNewest
<1>12. ReadInFile' /\ ViewInBounds'
  BY <1>1, <1>2, <1>4, <1>6, <1>7, <1>9 DEF ReadInFile, ViewInBounds, Loading
<1> QED
  BY <1>8, <1>11, <1>12

\* The drawing at the end of a load.
LEMMA DrawStep ==
  ASSUME IInv, NEW t \in Nat, Draw(t), pc' = "key",
         UNCHANGED <<lines, read, old_count, fileVars, visible, tty>>
  PROVE  IInv'
<1> USE DEF IInv
<1>1. /\ top_line' \in Nat /\ shown' \in SUBSET Nat
      /\ IF line_count = 0 THEN top_line' = 0 ELSE top_line' < line_count
      /\ (shown' = {}) <=> (line_count = 0)
  BY DrawProperties
<1>2. line_count' = line_count
  BY DEF line_count
<1>3. TypeOK'
  BY <1>1, <1>2 DEF TypeOK, fileVars
<1>4. BufferNewest' /\ ReadInFile'
  BY <1>2 DEF BufferNewest, ReadInFile, Loading, fileVars
<1>5. ViewInBounds'
  BY <1>1, <1>2 DEF ViewInBounds
<1> QED
  BY <1>3, <1>4, <1>5

\* A turn of the main loop up to the reload.
LEMMA ReadKeyStep ==
  ASSUME IInv, ReadKey
  PROVE  IInv'
<1> USE DEF IInv
<1>1. tty' \in Seq(AllBytes)
  BY TtyBytes DEF ReadKey
<1>2. CASE KeyRead = "q"
  <2>1. pc' = "ended" /\ UNCHANGED <<viewVars, fileVars, visible>>
    BY <1>2 DEF ReadKey
  <2>2. line_count' = line_count
    BY <2>1 DEF line_count, viewVars
  <2>3. TypeOK'
    BY <1>1, <2>1, <2>2 DEF TypeOK, viewVars, fileVars
  <2> QED
    BY <2>1, <2>2, <2>3
       DEF BufferNewest, ReadInFile, ViewInBounds, Loading, viewVars, fileVars
<1>3. CASE KeyRead # "q"
  <2>1. /\ pc' = "reload" /\ old_count' = line_count /\ Rewind
        /\ UNCHANGED <<fileVars, visible>>
        /\ \/ UNCHANGED <<top_line, shown>>
           \/ KeyRead \notin {"none", "q"} /\ Draw(ProcessKey(KeyRead))
    BY <1>3 DEF ReadKey
  <2>2. top_line' \in Nat /\ shown' \in SUBSET Nat
    <3>1. CASE UNCHANGED <<top_line, shown>>
      BY <3>1 DEF TypeOK
    <3>2. CASE KeyRead \notin {"none", "q"} /\ Draw(ProcessKey(KeyRead))
      BY <3>2, ProcessKeyPosition, DrawProperties
    <3> QED
      BY <2>1, <3>1, <3>2
  <2>3. old_count' \in Nat
    BY <2>1, BufferLines
  <2> QED
    BY <1>1, <2>1, <2>2, <2>3, RewindStep
<1> QED
  BY <1>2, <1>3

\* Writers, the keyboard and the terminal keep IInv.
LEMMA EnvironmentStep ==
  ASSUME IInv, Environment \/ UNCHANGED vars
  PROVE  IInv'
<1> USE LoggerAssumption DEF IInv, viewVars, fileVars
<1>1. lines' = lines /\ UNCHANGED <<top_line, read, old_count, shown, pc>>
  BY DEF Environment, LogWrite, Truncate, Type, Resize, Ended, vars
<1>2. line_count' = line_count
  BY <1>1 DEF line_count
<1>3. tty' \in Seq(AllBytes) /\ visible' \in 1..MaxRows
  BY TtyBytes DEF Environment, LogWrite, Truncate, Type, Resize, Ended, vars, TypeOK
<1>4. /\ first' \in Nat /\ last' \in Nat /\ first' <= last' /\ last <= last'
      /\ first' = first \/ pc = "key"
  BY DEF Environment, LogWrite, Truncate, Type, Resize, Ended, vars, TypeOK
<1>5. TypeOK'
  BY <1>1, <1>2, <1>3, <1>4 DEF TypeOK
<1>6. BufferNewest'
  BY <1>1, <1>2, <1>4 DEF BufferNewest, Loading
<1>7. ReadInFile'
  BY <1>1, <1>2, <1>4 DEF ReadInFile, Loading, TypeOK
<1>8. ViewInBounds'
  BY <1>1, <1>2 DEF ViewInBounds
<1> QED
  BY <1>5, <1>6, <1>7, <1>8

\* Every step of the viewer and around it keeps IInv.
LEMMA NextIInv == IInv /\ [Next]_vars => IInv'
<1> SUFFICES ASSUME IInv, [Next]_vars PROVE IInv'
  OBVIOUS
<1>e. EndTop(visible) \in Nat /\ top_line \in Nat
  BY BufferLines, LoggerAssumption DEF EndTop, IInv, TypeOK
<1>1. CASE Start
  BY <1>1, RewindStep DEF Start, IInv, TypeOK
<1>2. CASE ReadLine
  BY <1>2, ReadLineStep
<1>3. CASE FirstView
  BY <1>3, <1>e, DrawStep DEF FirstView
<1>4. CASE ReadKey
  BY <1>4, ReadKeyStep
<1>5. CASE Refresh
  <2>1. (IF Follows THEN EndTop(visible) ELSE top_line) \in Nat
    BY <1>e
  <2> QED
    BY <1>5, <2>1, DrawStep DEF Refresh
<1>6. CASE Environment \/ UNCHANGED vars
  BY <1>6, EnvironmentStep
<1> QED
  BY <1>1, <1>2, <1>3, <1>4, <1>5, <1>6 DEF Next, ViewerStep

\* IInv is an invariant.
LEMMA Invariance == Spec => []IInv
BY InitIInv, NextIInv, PTL DEF Spec

-----------------------------------------------------------------------------
(***************************************************************************)
(* The theorems.                                                           *)
(***************************************************************************)

\* The variables of logger.c keep their types; in particular the buffer never
\* has more than LOGGER_MAX_LINES lines.
THEOREM TypeCorrect == Spec => []TypeOK
<1>1. IInv => TypeOK
  BY DEF IInv
<1> QED
  BY <1>1, Invariance, PTL

\* logger_load_file() keeps the newest lines, all of them and in order.
THEOREM NewestKept == Spec => []BufferNewest
<1>1. IInv => BufferNewest
  BY DEF IInv
<1> QED
  BY <1>1, Invariance, PTL

\* logger_draw() never shows an entry outside the buffer, nor an empty screen
\* while there are lines.
THEOREM ViewStaysInBounds == Spec => []ViewInBounds
<1>1. IInv => ViewInBounds
  BY DEF IInv
<1> QED
  BY <1>1, Invariance, PTL

\* A viewer at the end of the log stays there when at most one line is new.
THEOREM SlowLogFollowed == Spec => FollowsSlowLog
<1> DEFINE A == pc = "reload" /\ pc' = "key" /\ top_line + visible >= old_count
                /\ line_count <= old_count + 1 => top_line' + visible >= line_count
<1>1. ASSUME IInv, [Next]_vars PROVE [A]_vars
  <2> SUFFICES ASSUME Next, pc = "reload", pc' = "key",
                      top_line + visible >= old_count,
                      line_count <= old_count + 1
               PROVE  top_line' + visible >= line_count
    BY <1>1
  <2>1. Refresh
    BY DEF Next, ViewerStep, Start, ReadLine, FirstView, ReadKey, Environment,
           LogWrite, Truncate, Type, Resize, Ended, vars
  <2>2. /\ line_count \in Nat /\ visible \in Nat /\ visible >= 1
        /\ top_line \in Nat /\ old_count \in Nat
    BY <1>1, BufferLines, LoggerAssumption DEF IInv, TypeOK
  <2>3. top_line' = Clamp(IF Follows THEN EndTop(visible) ELSE top_line)
    BY <2>1 DEF Refresh, Draw
  <2>4. CASE line_count > visible
    <3>1. Follows
      BY <2>2, <2>4 DEF Follows
    <3> QED
      BY <2>2, <2>3, <2>4, <3>1 DEF Clamp, EndTop
  <2>5. CASE line_count <= visible
    BY <2>2, <2>3, <2>5 DEF Clamp, EndTop
  <2> QED
    BY <2>2, <2>4, <2>5
<1> QED
  BY <1>1, Invariance, PTL DEF Spec, FollowsSlowLog

-----------------------------------------------------------------------------
(***************************************************************************)
(* The reader who has scrolled up.  What is on the screen was drawn from a *)
(* buffer that the reload has thrown away, so the invariant has to say how *)
(* the screen, the position and the file hang together meanwhile.          *)
(***************************************************************************)

\* n is the smallest of the lines on a screen.
IsTop(n, screen) == n \in screen /\ \A m \in screen : n <= m

\* The first line on the screen is the one at top_line.
ScreenTop == pc = "key" /\ line_count > 0 => IsTop(lines[top_line + 1], shown)

\* Between two loads the buffer has all of the file up to some line, unless the
\* file has outgrown it or was emptied since.
BufferOfFile ==
  pc = "key" =>
    /\ read <= last
    /\ read <= first \/ last > first + MaxLines \/ read = first + line_count

\* The same during a reload, for the screen and the buffer before it.
ScreenOfFile ==
  pc = "reload" /\ old_count > 0 =>
    \E n \in Nat :
      /\ IsTop(n, shown)
      /\ \/ n <= first
         \/ last > first + MaxLines
         \/ n = first + top_line + 1 /\ first + old_count <= last

ReaderInv == ScreenTop /\ BufferOfFile /\ ScreenOfFile

\* The smallest line on the screen is TopText.
LEMMA TopTextIsTop ==
  ASSUME NEW n \in Nat, shown \in SUBSET Nat, IsTop(n, shown)
  PROVE  TopText = n
<1>1. \A m \in shown : (\A k \in shown : m <= k) => m = n
  BY DEF IsTop
<1>2. n \in shown /\ \A m \in shown : n <= m
  BY DEF IsTop
<1>3. TopText \in shown /\ \A m \in shown : TopText <= m
  BY <1>2 DEF TopText
<1> QED
  BY <1>1, <1>3

\* logger_draw() puts the line at the new position at the top.
LEMMA DrawTop ==
  ASSUME IInv, NEW t \in Nat, Draw(t), line_count > 0
  PROVE  /\ top_line' \in Nat /\ top_line' < line_count
         /\ lines[top_line' + 1] \in Nat
         /\ lines[top_line' + 1] + line_count = read + top_line' + 1
         /\ IsTop(lines[top_line' + 1], shown')
<1> DEFINE c == Clamp(t)
<1>1. line_count \in Nat /\ \A i \in 1..line_count : lines[i] \in Nat
  BY BufferLines DEF IInv
<1>2. c \in Nat /\ c < line_count
  BY <1>1 DEF Clamp
<1>3. visible \in Nat /\ visible >= 1 /\ read \in Nat
  BY LoggerAssumption DEF IInv, TypeOK
<1>4. top_line' = c /\ shown' = {lines[i + 1] : i \in {j \in c..(c + visible - 1) : j < line_count}}
  BY DEF Draw, Window
<1>5. \A i \in 1..line_count : lines[i] + line_count = read + i
  BY DEF IInv, BufferNewest
<1> HIDE DEF c
<1>6. lines[c + 1] \in Nat /\ lines[c + 1] + line_count = read + c + 1
  <2>1. c + 1 \in 1..line_count
    BY <1>1, <1>2
  <2> QED
    BY <1>1, <1>2, <1>3, <1>5, <2>1
<1>7. lines[c + 1] \in shown'
  <2>1. c \in {j \in c..(c + visible - 1) : j < line_count}
    BY <1>1, <1>2, <1>3
  <2> QED
    BY <1>4, <2>1, Zenon
<1>8. ASSUME NEW m \in shown' PROVE lines[c + 1] <= m
  <2>1. PICK i \in c..(c + visible - 1) : i < line_count /\ m = lines[i + 1]
    BY <1>4, <1>8, Zenon
  <2>2. i \in Nat /\ c <= i /\ i + 1 \in 1..line_count
    BY <1>1, <1>2, <1>3, <2>1
  <2>3. m \in Nat /\ m + line_count = read + (i + 1)
    BY <1>1, <1>5, <2>1, <2>2
  <2> QED
    BY <1>1, <1>2, <1>3, <1>6, <2>2, <2>3
<1> QED
  BY <1>2, <1>4, <1>6, <1>7, <1>8 DEF IsTop

\* Nothing is shown before the first drawing.
LEMMA InitReader == Init => ReaderInv
  BY DEF Init, ReaderInv, ScreenTop, BufferOfFile, ScreenOfFile

\* A drawing at the end of a load: the buffer has the whole file, or the file
\* has outgrown it.
LEMMA DrawReader ==
  ASSUME IInv, NEW t \in Nat, Draw(t), Loading, EndOfFile, pc' = "key",
         UNCHANGED <<lines, read, fileVars>>
  PROVE  ReaderInv'
<1>1. line_count' = line_count /\ line_count \in Nat
  BY BufferLines DEF line_count, IInv
<1>2. ScreenTop'
  <2> SUFFICES ASSUME line_count > 0
               PROVE  IsTop(lines[top_line' + 1], shown')
    BY <1>1 DEF ScreenTop, IsTop
  <2> QED
    BY DrawTop
<1>3. /\ read = last /\ first \in Nat /\ last \in Nat /\ MaxLines \in Nat /\ first <= read
      /\ line_count = IF read - first < MaxLines THEN read - first ELSE MaxLines
  BY LoggerAssumption DEF EndOfFile, IInv, TypeOK, BufferNewest, ReadInFile
<1>4. BufferOfFile'
  BY <1>1, <1>3 DEF BufferOfFile, fileVars
<1> QED
  BY <1>2, <1>4 DEF ReaderInv, ScreenOfFile

\* Where the first line on the screen is in the file: n at position t of a
\* buffer of c lines that ends with line r.
LEMMA TopLineInFile ==
  ASSUME NEW n \in Nat, NEW c \in Nat, NEW r \in Nat, NEW t \in Nat, NEW f \in Nat,
         n + c = r + t + 1, t < c
  PROVE  /\ r <= f => n <= f
         /\ r = f + c => n = f + t + 1
OBVIOUS

\* The reload begins: what is on the screen is what the buffer had there.
LEMMA ReadKeyReader ==
  ASSUME IInv, ReaderInv, ReadKey
  PROVE  ReaderInv'
<1>1. CASE pc' = "ended"
  BY <1>1 DEF ReaderInv, ScreenTop, BufferOfFile, ScreenOfFile
<1>2. CASE pc' # "ended"
  <2>1. /\ pc = "key" /\ pc' = "reload" /\ old_count' = line_count
        /\ first' = first /\ last' = last
        /\ \/ UNCHANGED <<top_line, shown>>
           \/ KeyRead \notin {"none", "q"} /\ Draw(ProcessKey(KeyRead))
    BY <1>2 DEF ReadKey, fileVars
  <2> SUFFICES ASSUME line_count > 0
               PROVE  ScreenOfFile'
    BY <2>1 DEF ReaderInv, ScreenTop, BufferOfFile, ScreenOfFile
  <2> DEFINE n == lines[top_line' + 1]
  <2>2. /\ top_line' \in Nat /\ top_line' < line_count /\ n \in Nat
        /\ n + line_count = read + top_line' + 1 /\ IsTop(n, shown')
    <3>1. CASE UNCHANGED <<top_line, shown>>
      <4>1. /\ line_count \in Nat /\ read \in Nat
            /\ \A i \in 1..line_count : lines[i] \in Nat /\ lines[i] + line_count = read + i
        BY BufferLines DEF IInv, TypeOK, BufferNewest
      <4>2. top_line \in Nat /\ top_line < line_count
        BY <2>1 DEF IInv, TypeOK, ViewInBounds
      <4>3. top_line + 1 \in 1..line_count
        BY <4>1, <4>2
      <4>4. n = lines[top_line + 1] /\ n \in Nat /\ n + line_count = read + (top_line + 1)
        BY <3>1, <4>1, <4>3
      <4>5. IsTop(n, shown')
        BY <2>1, <3>1, <4>4 DEF ReaderInv, ScreenTop
      <4> HIDE DEF n
      <4> QED
        BY <3>1, <4>1, <4>2, <4>4, <4>5
    <3>2. CASE KeyRead \notin {"none", "q"} /\ Draw(ProcessKey(KeyRead))
      <4>1. ProcessKey(KeyRead) \in Nat
        BY <3>2, ProcessKeyPosition DEF IInv
      <4> QED
        BY <3>2, <4>1, DrawTop
    <3> QED
      BY <2>1, <3>1, <3>2
  <2> HIDE DEF n
  <2>3. /\ line_count \in Nat /\ read \in Nat /\ first \in Nat /\ last \in Nat
        /\ top_line' \in Nat /\ MaxLines \in Nat
    BY <2>2, BufferLines, LoggerAssumption DEF IInv, TypeOK
  <2>4. /\ read <= last
        /\ read <= first \/ last > first + MaxLines \/ read = first + line_count
    BY <2>1 DEF ReaderInv, BufferOfFile
  <2>5. \/ n <= first
        \/ last > first + MaxLines
        \/ n = first + top_line' + 1 /\ first + line_count <= last
    <3>0. /\ read <= first => n <= first
          /\ read = first + line_count => n = first + top_line' + 1
      <4> DEFINE c == line_count  t == top_line'
      <4>1. n \in Nat /\ c \in Nat /\ t \in Nat /\ n + c = read + t + 1 /\ t < c
        BY <2>2, <2>3
      <4>2. read \in Nat /\ first \in Nat
        BY <2>3
      <4> HIDE DEF c, t
      <4>3. (read <= first => n <= first) /\ (read = first + c => n = first + t + 1)
        BY <4>1, <4>2, TopLineInFile
      <4> QED
        BY <4>3 DEF c, t
    <3>1. CASE read <= first
      BY <3>0, <3>1
    <3>2. CASE read = first + line_count
      <4>1. n = first + top_line' + 1
        BY <3>0, <3>2
      <4>2. first + line_count <= last
        BY <2>4, <3>2
      <4> QED
        BY <4>1, <4>2
    <3> QED
      BY <2>4, <3>1, <3>2
  <2> QED
    BY <2>1, <2>2, <2>5 DEF ScreenOfFile
<1> QED
  BY <1>1, <1>2

\* Writers, the keyboard and the terminal.
LEMMA EnvironmentReader ==
  ASSUME IInv, ReaderInv, Environment \/ UNCHANGED vars
  PROVE  ReaderInv'
<1> USE DEF viewVars, fileVars
<1>1. lines' = lines /\ UNCHANGED <<top_line, read, old_count, shown, pc>>
  BY DEF Environment, LogWrite, Truncate, Type, Resize, Ended, vars
<1>2. line_count' = line_count /\ line_count \in Nat
  BY <1>1, BufferLines DEF line_count, IInv
<1>3. ScreenTop'
  BY <1>1, <1>2 DEF ReaderInv, ScreenTop
<1>4. /\ first \in Nat /\ last \in Nat /\ read \in Nat /\ MaxLines \in Nat
      /\ old_count \in Nat /\ top_line \in Nat
  BY LoggerAssumption DEF IInv, TypeOK
<1>5. \/ first' = first /\ last' \in {last, last + 1}
      \/ first' = last /\ last' = last /\ pc = "key"
  BY DEF Environment, LogWrite, Truncate, Type, Resize, Ended, vars
<1>6. BufferOfFile'
  BY <1>1, <1>2, <1>4, <1>5 DEF ReaderInv, BufferOfFile
<1>7. ScreenOfFile'
  <2> SUFFICES ASSUME pc = "reload", old_count > 0
               PROVE  ScreenOfFile'
    BY <1>1 DEF ScreenOfFile
  <2>1. PICK n \in Nat :
          /\ IsTop(n, shown)
          /\ \/ n <= first
             \/ last > first + MaxLines
             \/ n = first + top_line + 1 /\ first + old_count <= last
    BY DEF ReaderInv, ScreenOfFile
  <2>2. \/ n <= first'
        \/ last' > first' + MaxLines
        \/ n = first' + top_line + 1 /\ first' + old_count <= last'
    BY <1>4, <1>5, <2>1
  <2> QED
    BY <1>1, <2>1, <2>2 DEF ScreenOfFile
<1> QED
  BY <1>3, <1>6, <1>7 DEF ReaderInv

\* Every step keeps the reader's invariant.
LEMMA NextReader == IInv /\ ReaderInv /\ [Next]_vars => ReaderInv'
<1> SUFFICES ASSUME IInv, ReaderInv, [Next]_vars PROVE ReaderInv'
  OBVIOUS
<1>e. EndTop(visible) \in Nat /\ top_line \in Nat
  BY BufferLines, LoggerAssumption DEF EndTop, IInv, TypeOK
<1>1. CASE Start
  BY <1>1 DEF Start, ReaderInv, ScreenTop, BufferOfFile, ScreenOfFile
<1>2. CASE ReadLine
  BY <1>2 DEF ReadLine, fileVars, ReaderInv, ScreenTop, BufferOfFile, ScreenOfFile
<1>3. CASE FirstView
  BY <1>3, <1>e, DrawReader DEF FirstView, Loading
<1>4. CASE ReadKey
  BY <1>4, ReadKeyReader
<1>5. CASE Refresh
  <2>1. (IF Follows THEN EndTop(visible) ELSE top_line) \in Nat
    BY <1>e
  <2> QED
    BY <1>5, <2>1, DrawReader DEF Refresh, Loading
<1>6. CASE Environment \/ UNCHANGED vars
  BY <1>6, EnvironmentReader
<1> QED
  BY <1>1, <1>2, <1>3, <1>4, <1>5, <1>6 DEF Next, ViewerStep

\* A reload does not move the text under a reader who has scrolled up by two
\* lines or more, for any size of the terminal, the buffer and the log.
THEOREM ReaderIsUndisturbed == Spec => ReaderUndisturbed
<1> DEFINE A == pc = "reload" /\ pc' = "key" /\ top_line + visible + 1 < old_count
                /\ TopText > first /\ last <= first + MaxLines
                => TopText' = TopText
<1>1. ASSUME IInv, IInv', ReaderInv, [Next]_vars PROVE [A]_vars
  <2> SUFFICES ASSUME Next, pc = "reload", pc' = "key",
                      top_line + visible + 1 < old_count,
                      TopText > first, last <= first + MaxLines
               PROVE  TopText' = TopText
    BY <1>1
  <2>1. Refresh
    BY DEF Next, ViewerStep, Start, ReadLine, FirstView, ReadKey, Environment,
           LogWrite, Truncate, Type, Resize, Ended, vars
  <2>2. /\ line_count \in Nat /\ visible \in Nat /\ visible >= 1 /\ top_line \in Nat
        /\ old_count \in Nat /\ first \in Nat /\ last \in Nat /\ MaxLines \in Nat
        /\ shown \in SUBSET Nat /\ shown' \in SUBSET Nat
    BY <1>1, BufferLines, LoggerAssumption DEF IInv, TypeOK
  <2>3. PICK n \in Nat :
          /\ IsTop(n, shown)
          /\ \/ n <= first
             \/ last > first + MaxLines
             \/ n = first + top_line + 1 /\ first + old_count <= last
    BY <1>1, <2>2 DEF ReaderInv, ScreenOfFile
  <2>4. TopText = n
    BY <2>2, <2>3, TopTextIsTop
  <2>5. n = first + top_line + 1 /\ first + old_count <= last
    BY <2>2, <2>3, <2>4
  <2>6. read = last /\ line_count = last - first
    <3>1. /\ read = last /\ first <= read
          /\ line_count = IF read - first < MaxLines THEN read - first ELSE MaxLines
      BY <1>1, <2>1 DEF Refresh, EndOfFile, IInv, BufferNewest, ReadInFile, Loading
    <3> QED
      BY <2>2, <3>1
  <2>7. ~Follows
    BY <2>2, <2>5, <2>6 DEF Follows
  <2>8. Draw(top_line)
    BY <2>1, <2>7 DEF Refresh
  <2>9. top_line' = top_line
    BY <2>2, <2>5, <2>6, <2>8 DEF Draw, Clamp
  <2>10. /\ lines[top_line' + 1] \in Nat /\ IsTop(lines[top_line' + 1], shown')
         /\ lines[top_line' + 1] + line_count = read + top_line' + 1
    BY <1>1, <2>2, <2>5, <2>6, <2>8, DrawTop
  <2>11. lines[top_line' + 1] = n
    <3> DEFINE x == lines[top_line' + 1]
    <3>1. x \in Nat /\ x + (last - first) = last + top_line + 1
      BY <2>6, <2>9, <2>10
    <3> HIDE DEF x
    <3>2. x = n
      BY <2>2, <2>5, <3>1
    <3> QED
      BY <3>2 DEF x
  <2>12. IsTop(n, shown')
    BY <2>10, <2>11
  <2>13. TopText' = n
    <3>1. \A m \in shown' : (\A k \in shown' : m <= k) => m = n
      BY <2>2, <2>12 DEF IsTop
    <3>2. TopText' = CHOOSE k \in shown' : \A m \in shown' : k <= m
      BY DEF TopText
    <3>3. n \in shown' /\ \A m \in shown' : n <= m
      BY <2>12 DEF IsTop
    <3> QED
      BY <3>1, <3>2, <3>3
  <2> QED
    BY <2>4, <2>13
<1> QED
  BY <1>1, Invariance, InitReader, NextReader, PTL DEF Spec, ReaderUndisturbed
=============================================================================
