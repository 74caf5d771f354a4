-------------------------------- MODULE Feed -------------------------------
(***************************************************************************)
(* The control socket (feed.c): one process that accepts connections one   *)
(* after the other, reads from each without waiting, executes what it got  *)
(* and closes it.  Clients connect, write in as many pieces as they like   *)
(* and stop writing or hang up when they like.                             *)
(*                                                                         *)
(* What a command does is in Load and HInit; here it has an answer, if it  *)
(* comes to an end at all.                                                 *)
(***************************************************************************)
EXTENDS Naturals, Sequences

CONSTANTS
  Clients,
  NoClient,
  Backlog     \* FEED_BACKLOG

ASSUME FeedAssumption == NoClient \notin Clients /\ Backlog \in Nat \ {0}

VARIABLES
  pc,
  queue,      \* connections that accept() has not returned
  client,     \* the connection feed_loop() serves
  conn,       \* each client's connection
  sent,       \* how much of its command has arrived
  early,      \* something had arrived when accept() returned it
  answer      \* feed_reply()

clientVars == <<sent, early, answer>>
vars == <<pc, queue, client, conn, clientVars>>

Arrivals == {"nothing", "part", "all", "hangup"}

TypeOK ==
  /\ pc \in {"start", "away", "accept", "setup", "recv", "command", "disabled"}
  /\ queue \in Seq(Clients)
  /\ Len(queue) <= Backlog
  /\ client \in Clients \cup {NoClient}
  /\ conn \in [Clients -> {"none", "queued", "open", "closed"}]
  /\ sent \in [Clients -> Arrivals]
  /\ early \in [Clients -> BOOLEAN]
  /\ answer \in [Clients -> {"none", "OK", "ERR"}]

Init ==
  /\ pc = "start"
  /\ queue = <<>>
  /\ client = NoClient
  /\ conn = [c \in Clients |-> "none"]
  /\ sent = [c \in Clients |-> "nothing"]
  /\ early = [c \in Clients |-> FALSE]
  /\ answer = [c \in Clients |-> "none"]

-----------------------------------------------------------------------------
(***************************************************************************)
(* feed_prepare() and feed_loop().                                         *)
(***************************************************************************)

\* The socket is made, or some step fails and feed_loop() will do nothing.
FeedPrepare ==
  /\ pc = "start"
  /\ pc' \in {"away", "disabled"}
  /\ UNCHANGED <<queue, client, conn, clientVars>>

\* The process gets round to feed_loop().
FeedLoop ==
  /\ pc = "away"
  /\ pc' = "accept"
  /\ UNCHANGED <<queue, client, conn, clientVars>>

\* accept() takes the oldest connection out of the kernel's queue.
Accept ==
  /\ pc = "accept"
  /\ queue # <<>>
  /\ client' = Head(queue)
  /\ queue' = Tail(queue)
  /\ conn' = [conn EXCEPT ![client'] = "open"]
  /\ early' = [early EXCEPT ![client'] = sent[client'] \in {"part", "all"}]
  /\ pc' = "setup"
  /\ UNCHANGED <<sent, answer>>

\* Mutant: the listening socket blocks, so accept() waits for a connection.
AcceptBlocks ==
  /\ pc = "accept"
  /\ queue # <<>>
  /\ pc' = "away"
  /\ UNCHANGED <<queue, client, conn, clientVars>>

\* accept() fails: nobody is there, or there is some other error.
AcceptFails ==
  /\ pc = "accept"
  /\ pc' = "away"
  /\ UNCHANGED <<queue, client, conn, clientVars>>

\* Mutant: the connection is not closed.
CloseLeaks(a) ==
  /\ answer' = [answer EXCEPT ![client] = a]
  /\ client' = NoClient
  /\ pc' = "accept"
  /\ UNCHANGED conn

\* feed_reply(), unless a is "none", and close().
Close(a) ==
  /\ answer' = [answer EXCEPT ![client] = a]
  /\ conn' = [conn EXCEPT ![client] = "closed"]
  /\ client' = NoClient
  /\ pc' = "accept"

\* feed_set_nonblock() of the connection.
SetNonblock ==
  /\ pc = "setup"
  /\ \/ pc' = "recv" /\ UNCHANGED <<client, conn, answer>>
     \/ Close("ERR")
  /\ UNCHANGED <<queue, sent, early>>

\* Mutant: a command that has not arrived in full is not answered.
RecvWhole ==
  /\ pc = "recv"
  /\ IF sent[client] = "all"
     THEN pc' = "command" /\ UNCHANGED <<client, conn, answer>>
     ELSE Close("none")
  /\ UNCHANGED <<queue, sent, early>>

\* Mutant: the connection is not made non-blocking, so recv() waits.
RecvBlocks ==
  /\ pc = "recv"
  /\ \/ /\ sent[client] \in {"part", "all"}
        /\ pc' = "command"
        /\ UNCHANGED <<client, conn, answer>>
     \/ sent[client] = "hangup" /\ Close("none")
  /\ UNCHANGED <<queue, sent, early>>

\* recv() takes what is there, or fails.  With nothing there, and at the end
\* of the stream, the connection is closed without a word.
Recv ==
  /\ pc = "recv"
  /\ \/ /\ sent[client] \in {"part", "all"}
        /\ pc' = "command"
        /\ UNCHANGED <<client, conn, answer>>
     \/ sent[client] \in {"nothing", "hangup"} /\ Close("none")
     \/ Close("ERR")
  /\ UNCHANGED <<queue, sent, early>>

\* Mutant: the loader's return value is sent as it is.
FeedCommandRaw ==
  /\ pc = "command"
  /\ \E a \in {"0", "-1"} : Close(a)
  /\ UNCHANGED <<queue, sent, early>>

\* feed_command() on what was received, cut off or not: a malformed or refused
\* command is an ERR, and setmode is an OK even when mode_start() refuses.  It
\* need not come to this: setmode to MD0 can wait for MD2 for ever (see HInit).
FeedCommand ==
  /\ pc = "command"
  /\ \E a \in {"OK", "ERR"} : Close(a)
  /\ UNCHANGED <<queue, sent, early>>

-----------------------------------------------------------------------------
(***************************************************************************)
(* Clients.                                                                *)
(***************************************************************************)

\* A new connection, also of a client that has been served before.
Connect(c) ==
  /\ pc \notin {"start", "disabled"}
  /\ conn[c] \in {"none", "closed"}
  /\ Len(queue) < Backlog
  /\ queue' = Append(queue, c)
  /\ conn' = [conn EXCEPT ![c] = "queued"]
  /\ sent' = [sent EXCEPT ![c] = "nothing"]
  /\ early' = [early EXCEPT ![c] = FALSE]
  /\ answer' = [answer EXCEPT ![c] = "none"]
  /\ UNCHANGED <<pc, client>>

\* The client writes its command, in one piece or in two, or hangs up.  Of one
\* that hangs up after writing the socket keeps what was written, and
\* feed_reply() does not care who reads it: it has just stopped writing.
Send(c) ==
  /\ conn[c] \in {"queued", "open"}
  /\ \/ sent[c] = "nothing" /\ sent' \in {[sent EXCEPT ![c] = a] : a \in {"part", "all", "hangup"}}
     \/ sent[c] = "part" /\ sent' = [sent EXCEPT ![c] = "all"]
  /\ UNCHANGED <<pc, queue, client, conn, early, answer>>

\* Without a socket there is nothing to do.
Disabled == pc = "disabled" /\ UNCHANGED vars

-----------------------------------------------------------------------------

Serve == SetNonblock \/ Recv \/ FeedCommand

Next ==
  \/ FeedPrepare \/ FeedLoop \/ Accept \/ AcceptFails \/ Serve \/ Disabled
  \/ \E c \in Clients : Connect(c) \/ Send(c)

Spec == Init /\ [][Next]_vars

\* The process runs and comes back to feed_loop(); accept() does not fail for
\* ever while connections are waiting.  No command has to end.
FairSpec ==
  /\ Spec
  /\ WF_vars(FeedLoop) /\ WF_vars(SetNonblock \/ Recv) /\ WF_vars(Accept \/ AcceptFails)
  /\ SF_vars(Accept)

-----------------------------------------------------------------------------
(***************************************************************************)
(* Properties.                                                             *)
(***************************************************************************)

\* The queue and the connection being served are exactly the connections that
\* are open on the client's side, each once: none is leaked, closed twice or
\* served while another one is.
ConnectionsKnown ==
  \A c \in Clients :
    /\ conn[c] = "queued" <=> \E i \in 1..Len(queue) : queue[i] = c
    /\ conn[c] = "open" <=> client = c
    /\ \A i, j \in 1..Len(queue) : queue[i] = queue[j] => i = j

\* Only a client that had sent nothing by the time accept() returned it is
\* turned away without an answer: recv() does not wait for a command, but it
\* does not lose one that is there.
EarlyAnswered ==
  \A c \in Clients : conn[c] = "closed" /\ answer[c] = "none" => ~early[c]

\* Every connection is served and closed in the end, however many others come
\* and however little they send, unless some command never returns: recv()
\* does not wait, and the kernel hands out the oldest connection first.
Served ==
  \A c \in Clients :
    conn[c] = "queued" ~> (conn[c] = "closed" \/ [](pc = "command"))

\* feed_loop() returns to the process that has called it, unless new
\* connections keep coming for ever or some command never returns.
LoopReturns ==
  \/ pc = "accept" ~> (pc = "away" \/ [](pc = "command"))
  \/ []<><<\E c \in Clients : Connect(c)>>_vars
=============================================================================
