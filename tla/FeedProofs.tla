----------------------------- MODULE FeedProofs ----------------------------
(***************************************************************************)
(* Proofs about Feed, for any clients and any FEED_BACKLOG: its type, that *)
(* no connection is leaked, closed twice or served beside another one, and *)
(* that a command which has arrived before accept() is answered.           *)
(***************************************************************************)
EXTENDS Feed, SequenceTheorems, TLAPS

Serving == {"setup", "recv", "command"}

\* feed_loop() has a connection exactly between accept() and close().
ClientAtPc == pc \in Serving <=> client \in Clients

\* What had arrived at accept() is still there for recv(): nobody takes it back.
EarlyStays ==
  \A c \in Clients : conn[c] = "open" /\ early[c] => sent[c] \in {"part", "all"}

\* The inductive invariant.
IInv == TypeOK /\ ClientAtPc /\ ConnectionsKnown /\ EarlyStays /\ EarlyAnswered

-----------------------------------------------------------------------------

\* There are no connections at the start.
LEMMA InitIInv == Init => IInv
<1> SUFFICES ASSUME Init PROVE IInv
  OBVIOUS
<1> USE FeedAssumption DEF Init
<1>1. queue \in Seq(Clients) /\ Len(queue) = 0
  BY EmptySeq
<1>2. TypeOK
  <2>1. Len(queue) <= Backlog
    BY <1>1
  <2>2. early \in [Clients -> BOOLEAN]
    OBVIOUS
  <2>3. sent \in [Clients -> Arrivals]
    BY DEF Arrivals
  <2>4. conn \in [Clients -> {"none", "queued", "open", "closed"}]
    OBVIOUS
  <2>5. answer \in [Clients -> {"none", "OK", "ERR"}]
    OBVIOUS
  <2> QED
    BY <1>1, <2>1, <2>2, <2>3, <2>4, <2>5 DEF TypeOK
<1>3. ClientAtPc /\ EarlyStays /\ EarlyAnswered
  <2>1. ClientAtPc
    BY DEF ClientAtPc, Serving
  <2>2. \A c \in Clients : conn[c] = "none"
    OBVIOUS
  <2> QED
    BY <2>1, <2>2 DEF EarlyStays, EarlyAnswered
<1>4. ConnectionsKnown
  <2>1. 1..Len(queue) = {}
    BY <1>1
  <2>2. \A c \in Clients : conn[c] = "none" /\ client # c
    OBVIOUS
  <2> QED
    BY <2>1, <2>2 DEF ConnectionsKnown
<1> QED
  BY <1>2, <1>3, <1>4 DEF IInv

\* The backlog has connections in it, each once.
LEMMA QueueFacts ==
  ASSUME IInv
  PROVE  /\ queue \in Seq(Clients) /\ Len(queue) \in Nat
         /\ \A i \in 1..Len(queue) : queue[i] \in Clients
         /\ \A i, j \in 1..Len(queue) : queue[i] = queue[j] => i = j
<1>1. queue \in Seq(Clients) /\ Len(queue) \in Nat
  BY LenProperties DEF IInv, TypeOK
<1>2. \A i \in 1..Len(queue) : queue[i] \in Clients
  BY <1>1, ElementOfSeq
<1>3. \A i, j \in 1..Len(queue) : queue[i] = queue[j] => i = j
  BY <1>2 DEF IInv, ConnectionsKnown
<1> QED
  BY <1>1, <1>2, <1>3

\* accept() takes the oldest connection out of the backlog and opens it.
LEMMA AcceptStep ==
  ASSUME IInv, Accept
  PROVE  IInv'
<1> USE FeedAssumption DEF IInv
<1> DEFINE n == Len(queue)
<1>1. /\ queue \in Seq(Clients) /\ n \in Nat
      /\ \A i \in 1..n : queue[i] \in Clients
      /\ \A i, j \in 1..n : queue[i] = queue[j] => i = j
  BY QueueFacts
<1>2. /\ pc = "accept" /\ pc' = "setup" /\ queue # <<>>
      /\ client' = Head(queue) /\ queue' = Tail(queue)
      /\ conn' = [conn EXCEPT ![client'] = "open"]
      /\ early' = [early EXCEPT ![client'] = sent[client'] \in {"part", "all"}]
      /\ sent' = sent /\ answer' = answer
  BY DEF Accept
<1>3. n >= 1 /\ client' = queue[1]
  BY <1>1, <1>2
<1>4. client' \in Clients
  BY <1>1, <1>3
<1>5. /\ queue' \in Seq(Clients) /\ Len(queue') = n - 1
      /\ \A i \in 1..(n - 1) : queue'[i] = queue[i + 1]
  BY <1>1, <1>2, HeadTailProperties
<1>6. TypeOK'
  <2>1. early' \in [Clients -> BOOLEAN]
    BY <1>2, <1>4 DEF TypeOK
  <2>2. conn' \in [Clients -> {"none", "queued", "open", "closed"}]
    BY <1>2, <1>4 DEF TypeOK
  <2>3. Len(queue') <= Backlog
    BY <1>1, <1>5 DEF TypeOK
  <2> QED
    BY <1>2, <1>4, <1>5, <2>1, <2>2, <2>3 DEF TypeOK
<1>7. ClientAtPc'
  BY <1>2, <1>4 DEF ClientAtPc, Serving
<1>8. client = NoClient
  BY <1>2 DEF ClientAtPc, Serving, TypeOK
<1>9. ConnectionsKnown'
  <2> SUFFICES ASSUME NEW c \in Clients
               PROVE  /\ conn'[c] = "queued" <=> \E i \in 1..Len(queue') : queue'[i] = c
                      /\ conn'[c] = "open" <=> client' = c
                      /\ \A i, j \in 1..Len(queue') : queue'[i] = queue'[j] => i = j
    BY DEF ConnectionsKnown
  <2>1. ASSUME NEW i \in 1..Len(queue'), NEW j \in 1..Len(queue'), queue'[i] = queue'[j]
        PROVE  i = j
    BY <1>1, <1>5, <2>1
  <2>2. ASSUME NEW i \in 1..Len(queue') PROVE queue'[i] # client' /\ i + 1 \in 1..n
    BY <1>1, <1>3, <1>5
  <2>3. CASE c = client'
    <3>1. conn'[c] = "open"
      BY <1>2, <1>4, <2>3 DEF TypeOK
    <3> QED
      BY <3>1, <2>1, <2>2, <2>3
  <2>4. CASE c # client'
    <3>1. conn'[c] = conn[c]
      BY <1>2, <1>4, <2>4 DEF TypeOK
    <3>2. conn[c] # "open"
      BY <1>8 DEF ConnectionsKnown
    <3>3. ASSUME NEW i \in 1..n, queue[i] = c
          PROVE  \E k \in 1..Len(queue') : queue'[k] = c
      <4>1. i - 1 \in 1..Len(queue') /\ queue'[i - 1] = c
        BY <1>1, <1>3, <1>5, <2>4, <3>3
      <4> QED
        BY <4>1
    <3>4. ASSUME NEW i \in 1..Len(queue'), queue'[i] = c
          PROVE  \E k \in 1..n : queue[k] = c
      BY <1>1, <1>5, <3>4, <2>2
    <3>5. conn'[c] = "queued" <=> \E i \in 1..Len(queue') : queue'[i] = c
      BY <3>1, <3>3, <3>4 DEF ConnectionsKnown
    <3> QED
      BY <3>1, <3>2, <3>5, <2>1, <2>4
  <2> QED
    BY <2>3, <2>4
<1>10. EarlyStays' /\ EarlyAnswered'
  BY <1>2, <1>4 DEF EarlyStays, EarlyAnswered, TypeOK
<1> QED
  BY <1>6, <1>7, <1>9, <1>10

\* A new connection goes to the end of the backlog.
LEMMA ConnectStep ==
  ASSUME IInv, NEW c \in Clients, Connect(c)
  PROVE  IInv'
<1> USE FeedAssumption DEF IInv
<1> DEFINE n == Len(queue)
<1>1. /\ queue \in Seq(Clients) /\ n \in Nat
      /\ \A i, j \in 1..n : queue[i] = queue[j] => i = j
  BY QueueFacts
<1>2. /\ conn[c] \in {"none", "closed"} /\ n < Backlog
      /\ queue' = Append(queue, c)
      /\ conn' = [conn EXCEPT ![c] = "queued"]
      /\ sent' = [sent EXCEPT ![c] = "nothing"]
      /\ early' = [early EXCEPT ![c] = FALSE]
      /\ answer' = [answer EXCEPT ![c] = "none"]
      /\ UNCHANGED <<pc, client>>
  BY DEF Connect
<1>3. /\ queue' \in Seq(Clients) /\ Len(queue') = n + 1
      /\ \A i \in 1..n : queue'[i] = queue[i]
      /\ queue'[n + 1] = c
  BY <1>1, <1>2, AppendProperties
<1>4. TypeOK'
  <2>1. early' \in [Clients -> BOOLEAN]
    BY <1>2 DEF TypeOK
  <2>2. sent' \in [Clients -> Arrivals] /\ answer' \in [Clients -> {"none", "OK", "ERR"}]
    BY <1>2 DEF TypeOK, Arrivals
  <2>3. conn' \in [Clients -> {"none", "queued", "open", "closed"}]
    BY <1>2 DEF TypeOK
  <2>4. Len(queue') <= Backlog
    BY <1>1, <1>2, <1>3
  <2> QED
    BY <1>2, <1>3, <2>1, <2>2, <2>3, <2>4 DEF TypeOK
<1>5. ClientAtPc'
  BY <1>2 DEF ClientAtPc
<1>6. \A i \in 1..n : queue[i] # c
  BY <1>2 DEF ConnectionsKnown
<1>7. ConnectionsKnown'
  <2> SUFFICES ASSUME NEW d \in Clients
               PROVE  /\ conn'[d] = "queued" <=> \E i \in 1..Len(queue') : queue'[i] = d
                      /\ conn'[d] = "open" <=> client' = d
                      /\ \A i, j \in 1..Len(queue') : queue'[i] = queue'[j] => i = j
    BY DEF ConnectionsKnown
  <2>1. ASSUME NEW i \in 1..Len(queue'), NEW j \in 1..Len(queue'), queue'[i] = queue'[j]
        PROVE  i = j
    BY <1>1, <1>3, <1>6, <2>1
  <2>2. conn'[d] = "open" <=> client' = d
    BY <1>2 DEF ConnectionsKnown, TypeOK
  <2>3. conn'[d] = "queued" <=> \E i \in 1..Len(queue') : queue'[i] = d
    <3>1. CASE d = c
      <4>1. conn'[d] = "queued" /\ n + 1 \in 1..Len(queue')
        BY <1>1, <1>2, <1>3, <3>1 DEF TypeOK
      <4> QED
        BY <1>3, <3>1, <4>1
    <3>2. CASE d # c
      <4>1. conn'[d] = conn[d]
        BY <1>2, <3>2 DEF TypeOK
      <4>2. \A i \in 1..Len(queue') : queue'[i] = d => i \in 1..n
        BY <1>1, <1>3, <3>2
      <4>3. \A i \in 1..n : i \in 1..Len(queue')
        BY <1>1, <1>3
      <4> QED
        BY <1>3, <4>1, <4>2, <4>3 DEF ConnectionsKnown
    <3> QED
      BY <3>1, <3>2
  <2> QED
    BY <2>1, <2>2, <2>3
<1>8. EarlyStays' /\ EarlyAnswered'
  BY <1>2 DEF EarlyStays, EarlyAnswered, TypeOK
<1> QED
  BY <1>4, <1>5, <1>7, <1>8

\* feed_reply() and close(): the connection that was open is closed, and one
\* that had a command waiting has been answered.
LEMMA CloseStep ==
  ASSUME IInv, pc \in Serving, NEW a \in {"none", "OK", "ERR"}, Close(a),
         a = "none" => ~early[client], UNCHANGED <<queue, sent, early>>
  PROVE  IInv'
<1> USE FeedAssumption DEF IInv
<1>1. client \in Clients
  BY DEF ClientAtPc
<1>2. /\ answer' = [answer EXCEPT ![client] = a]
      /\ conn' = [conn EXCEPT ![client] = "closed"]
      /\ client' = NoClient /\ pc' = "accept"
  BY DEF Close
<1>3. TypeOK'
  BY <1>1, <1>2 DEF TypeOK
<1>4. ClientAtPc'
  BY <1>2 DEF ClientAtPc, Serving
<1>5. conn[client] = "open"
  BY <1>1 DEF ConnectionsKnown
<1>6. \A c \in Clients : c # client => conn'[c] = conn[c] /\ answer'[c] = answer[c]
  BY <1>1, <1>2 DEF TypeOK
<1>7. conn'[client] = "closed" /\ answer'[client] = a
  BY <1>1, <1>2 DEF TypeOK
<1>8. ConnectionsKnown'
  <2> SUFFICES ASSUME NEW c \in Clients
               PROVE  /\ conn'[c] = "queued" <=> \E i \in 1..Len(queue) : queue[i] = c
                      /\ conn'[c] = "open" <=> client' = c
                      /\ \A i, j \in 1..Len(queue) : queue[i] = queue[j] => i = j
    BY DEF ConnectionsKnown
  <2>1. \A i, j \in 1..Len(queue) : queue[i] = queue[j] => i = j
    BY QueueFacts
  <2>2. CASE c = client
    BY <1>2, <1>5, <1>7, <2>1, <2>2 DEF ConnectionsKnown
  <2>3. CASE c # client
    BY <1>2, <1>6, <2>1, <2>3 DEF ConnectionsKnown
  <2> QED
    BY <2>2, <2>3
<1>9. EarlyStays'
  BY <1>6, <1>7 DEF EarlyStays
<1>10. EarlyAnswered'
  <2> SUFFICES ASSUME NEW c \in Clients, conn'[c] = "closed", answer'[c] = "none"
               PROVE  ~early[c]
    BY DEF EarlyAnswered
  <2>1. CASE c = client
    BY <1>7, <2>1
  <2>2. CASE c # client
    BY <1>6, <2>2 DEF EarlyAnswered
  <2> QED
    BY <2>1, <2>2
<1> QED
  BY <1>3, <1>4, <1>8, <1>9, <1>10

\* recv() turns a connection away without a word only if nothing was there,
\* and then nothing was there at accept() either.
LEMMA RecvStep ==
  ASSUME IInv, Recv
  PROVE  IInv'
<1> USE FeedAssumption DEF IInv
<1>1. pc = "recv" /\ UNCHANGED <<queue, sent, early>>
  BY DEF Recv
<1>2. client \in Clients /\ conn[client] = "open"
  BY <1>1 DEF ClientAtPc, Serving, ConnectionsKnown
<1>3. CASE pc' = "command" /\ UNCHANGED <<client, conn, answer>>
  BY <1>1, <1>3 DEF TypeOK, ClientAtPc, Serving, ConnectionsKnown, EarlyStays, EarlyAnswered
<1>4. CASE sent[client] \in {"nothing", "hangup"} /\ Close("none")
  <2>1. ~early[client]
    BY <1>2, <1>4 DEF EarlyStays
  <2> QED
    BY <1>1, <1>4, <2>1, CloseStep DEF Serving
<1>5. CASE Close("ERR")
  BY <1>1, <1>5, CloseStep DEF Serving
<1> QED
  BY <1>3, <1>4, <1>5 DEF Recv

\* More of the command arrives, or the client hangs up before it has sent any.
LEMMA SendStep ==
  ASSUME IInv, NEW c \in Clients, Send(c)
  PROVE  IInv'
<1> USE FeedAssumption DEF IInv
<1>1. UNCHANGED <<pc, queue, client, conn, early, answer>>
  BY DEF Send
<1>2. PICK a \in {"part", "all", "hangup"} :
        /\ sent' = [sent EXCEPT ![c] = a]
        /\ sent[c] = "nothing" \/ (sent[c] = "part" /\ a = "all")
  <2>1. CASE sent[c] = "nothing" /\ sent' \in {[sent EXCEPT ![c] = a] : a \in {"part", "all", "hangup"}}
    BY <2>1
  <2>2. CASE sent[c] = "part" /\ sent' = [sent EXCEPT ![c] = "all"]
    BY <2>2
  <2> QED
    BY <2>1, <2>2 DEF Send
<1>3. sent' \in [Clients -> Arrivals]
  BY <1>2 DEF TypeOK, Arrivals
<1>4. EarlyStays'
  <2> SUFFICES ASSUME NEW d \in Clients, conn[d] = "open", early[d]
               PROVE  sent'[d] \in {"part", "all"}
    BY <1>1 DEF EarlyStays
  <2>1. sent[d] \in {"part", "all"}
    BY DEF EarlyStays
  <2> QED
    BY <1>2, <2>1 DEF TypeOK
<1>5. TypeOK' /\ ClientAtPc' /\ ConnectionsKnown' /\ EarlyAnswered'
  BY <1>1, <1>3 DEF TypeOK, ClientAtPc, ConnectionsKnown, EarlyAnswered
<1> QED
  BY <1>4, <1>5

\* Every step keeps the inductive invariant.
LEMMA NextIInv == IInv /\ [Next]_vars => IInv'
<1> SUFFICES ASSUME IInv, [Next]_vars PROVE IInv'
  OBVIOUS
<1> USE FeedAssumption
<1>1. CASE FeedPrepare
  BY <1>1 DEF FeedPrepare, clientVars, IInv, TypeOK, ClientAtPc, Serving,
              ConnectionsKnown, EarlyStays, EarlyAnswered
<1>2. CASE FeedLoop
  BY <1>2 DEF FeedLoop, clientVars, IInv, TypeOK, ClientAtPc, Serving,
              ConnectionsKnown, EarlyStays, EarlyAnswered
<1>3. CASE Accept
  BY <1>3, AcceptStep
<1>4. CASE AcceptFails
  BY <1>4 DEF AcceptFails, clientVars, IInv, TypeOK, ClientAtPc, Serving,
              ConnectionsKnown, EarlyStays, EarlyAnswered
<1>5. CASE SetNonblock
  <2>1. CASE pc' = "recv" /\ UNCHANGED <<client, conn, answer>>
    BY <1>5, <2>1 DEF SetNonblock, IInv, TypeOK, ClientAtPc, Serving,
                      ConnectionsKnown, EarlyStays, EarlyAnswered
  <2>2. CASE Close("ERR")
    BY <1>5, <2>2, CloseStep DEF SetNonblock, Serving
  <2> QED
    BY <1>5, <2>1, <2>2 DEF SetNonblock
<1>6. CASE Recv
  BY <1>6, RecvStep
<1>7. CASE FeedCommand
  <2>1. PICK a \in {"OK", "ERR"} : Close(a)
    BY <1>7 DEF FeedCommand
  <2> QED
    BY <1>7, <2>1, CloseStep DEF FeedCommand, Serving
<1>8. ASSUME NEW c \in Clients, Connect(c) PROVE IInv'
  BY <1>8, ConnectStep
<1>9. ASSUME NEW c \in Clients, Send(c) PROVE IInv'
  BY <1>9, SendStep
<1>10. CASE Disabled \/ UNCHANGED vars
  BY <1>10 DEF Disabled, vars, clientVars, IInv, TypeOK, ClientAtPc, ConnectionsKnown,
               EarlyStays, EarlyAnswered
<1> QED
  BY <1>1, <1>2, <1>3, <1>4, <1>5, <1>6, <1>7, <1>8, <1>9, <1>10 DEF Next, Serve

\* The inductive invariant holds in every reachable state.
LEMMA Invariance == Spec => []IInv
  BY InitIInv, NextIInv, PTL DEF Spec

\* Every state of feed_loop() and of its clients has its type; the backlog is
\* never exceeded.
THEOREM TypeCorrect == Spec => []TypeOK
<1>1. IInv => TypeOK
  BY DEF IInv
<1> QED
  BY <1>1, Invariance, PTL

\* No connection is leaked, closed twice or served while another one is, for
\* any number of clients.
THEOREM ConnectionsAreKnown == Spec => []ConnectionsKnown
<1>1. IInv => ConnectionsKnown
  BY DEF IInv
<1> QED
  BY <1>1, Invariance, PTL

\* A command that is there when accept() returns is never dropped without an
\* answer, whatever the other clients do.
THEOREM EarlyIsAnswered == Spec => []EarlyAnswered
<1>1. IInv => EarlyAnswered
  BY DEF IInv
<1> QED
  BY <1>1, Invariance, PTL
=============================================================================
