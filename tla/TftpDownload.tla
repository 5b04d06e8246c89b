---------------------------- MODULE TftpDownload ----------------------------
(***************************************************************************)
(* A TFTP download: client.rs `download` against the sessions server.rs    *)
(* opens for its RRQ.  The network may deliver the RRQ twice and the       *)
(* client repeats it, so several sessions may answer, each from its own    *)
(* port; the client stays with the first answer it reads.                  *)
(*                                                                         *)
(* An unanswered wait is a timeout that may happen at any time.  Each      *)
(* failure of the operating system (disk, socket) may happen where the     *)
(* code calls it.                                                          *)
(***************************************************************************)
EXTENDS TftpNet

CONSTANTS OldFile, NoFile

ASSUME FilesAssumption ==
  /\ OldFile \notin Seq(Nat) /\ NoFile \notin Seq(Nat)
  /\ OldFile # NoFile

VARIABLES
  net,        \* every datagram sent so far
  cpc,        \* client: "handshake", "receiving", "saving", or its outcome
  peer,       \* client: the session its socket is connected to
  stray,      \* client: datagrams of others queued before connect()
  want,       \* client: the position of the block it waits for
  ctries,     \* client: iterations of the current wait
  part, dest, \* client: `<local>.part` and the destination
  events,     \* client: the transfer events sent to the UI, but Progress
  cancelled,  \* the user asked to cancel
  spc,        \* session: "absent", "sending", or its outcome
  sblk,       \* session: the position of the block it sends, 0 for the OACK
  stries,     \* session: iterations of the current wait
  accepting,  \* the accept loop: "up", "stopping", "closed"
  options     \* the server knows the options (blksize, tsize)

client == <<cpc, peer, stray, want, ctries, part, dest, events>>
session == <<spc, sblk, stries>>
server == <<accepting, options>>
vars == <<net, client, cancelled, session, server>>

Failures == {"timeout", "protocol", "remote", "io", "cancelled"}
ClientOver == cpc \in Failures \cup {"done"}

Send(d) == net' = net \cup {d}

Init ==
  /\ net = {Request}
  /\ cpc = "handshake"
  /\ peer = None
  /\ stray = {}
  /\ want = 1
  /\ ctries = 0
  /\ part = NoFile
  /\ dest = OldFile
  /\ events = <<>>
  /\ cancelled = FALSE
  /\ spc = [s \in Sessions |-> "absent"]
  /\ sblk = [s \in Sessions |-> 0]
  /\ stries = [s \in Sessions |-> 0]
  /\ accepting = "up"
  /\ options \in BOOLEAN

-----------------------------------------------------------------------------
(* The client.                                                             *)

\* The download fails after n Error events; `.part` is removed.
Fail(why, n) ==
  /\ cpc' = why
  /\ events' = events \o [i \in 1..n |-> "Error"]
  /\ part' = NoFile
  /\ UNCHANGED <<peer, stray, want, ctries, dest, cancelled, session, server>>

\* One iteration of a retry loop is spent; the last one is the timeout.
SpendTry(n) ==
  IF ctries + 1 < MaxRetries
  THEN /\ ctries' = ctries + 1
       /\ UNCHANGED <<cpc, peer, stray, want, part, dest, events, cancelled,
                      session, server>>
  ELSE Fail("timeout", n)

HandshakeTimeout ==
  /\ cpc = "handshake"
  /\ Send(Request)
  /\ SpendTry(1)

\* The socket reports an error: an Error event.  Sending the RRQ again or
\* ACK 0 fails: `?` leaves the function with no event.
HandshakeIoError ==
  /\ cpc = "handshake"
  /\ \E n \in {0, 1} : Fail("io", n)
  /\ UNCHANGED net

\* connect(): from here on only datagrams of s get in, but those of other
\* sessions that were already queued stay in the socket.
Connect(s) ==
  /\ peer' = s
  /\ stray' \in SUBSET {d \in net : /\ d.type \in {"oack", "data", "error"}
                                    /\ d.session # s}

HandshakeOack(d) ==
  /\ cpc = "handshake"
  /\ d.type = "oack"
  /\ Connect(d.session)
  /\ Send(Ack(d.session, 0))
  /\ events' = Append(events, "Started")
  /\ part' = <<>>
  /\ ctries' = 0
  /\ cpc' = "receiving"
  /\ UNCHANGED <<want, dest, cancelled, session, server>>

\* A server without options answers with the first block at once.
HandshakeData(d) ==
  /\ cpc = "handshake"
  /\ d.type = "data" /\ SameBlock(d.index, 1)
  /\ Connect(d.session)
  /\ Send(Ack(d.session, 1))
  /\ events' = Append(events, "Started")
  /\ part' = <<d.index>>
  /\ want' = 2
  /\ ctries' = 0
  /\ cpc' = IF d.index = Chunks THEN "saving" ELSE "receiving"
  /\ UNCHANGED <<dest, cancelled, session, server>>

HandshakeError(d) ==
  /\ cpc = "handshake"
  /\ d.type = "error"
  /\ Fail("remote", 1)
  /\ UNCHANGED net

Handshake(d) == HandshakeOack(d) \/ HandshakeData(d) \/ HandshakeError(d)

\* The datagrams recv() may return once the socket is connected.
Incoming(d) ==
  /\ d.type \in {"oack", "data", "error"}
  /\ d \in stray \/ d.session = peer
  /\ Fresh(d.index, sblk[peer])

IsData(d, i) == d.type = "data" /\ SameBlock(d.index, i)

\* Variant of ReceiveWanted: a repeated block is written too.
ReceiveWantedOrRepeated(d) ==
  /\ cpc = "receiving"
  /\ Incoming(d)
  /\ IsData(d, want) \/ IsData(d, want - 1)
  /\ part' = Append(part, d.index)
  /\ Send(Ack(peer, want))
  /\ want' = want + 1
  /\ ctries' = 0
  /\ cpc' = IF d.index = Chunks THEN "saving" ELSE cpc
  /\ UNCHANGED <<peer, stray, dest, events, cancelled, session, server>>

\* The wanted block is written, then acknowledged; a short one is the last.
ReceiveWanted(d) ==
  /\ cpc = "receiving"
  /\ Incoming(d)
  /\ IsData(d, want)
  /\ part' = Append(part, d.index)
  /\ Send(Ack(peer, want))
  /\ want' = want + 1
  /\ ctries' = 0
  /\ cpc' = IF d.index = Chunks THEN "saving" ELSE cpc
  /\ UNCHANGED <<peer, stray, dest, events, cancelled, session, server>>

\* The block before is acknowledged again, for one iteration.
ReceiveDuplicate(d) ==
  /\ cpc = "receiving"
  /\ Incoming(d)
  /\ ~IsData(d, want) /\ IsData(d, want - 1)
  /\ Send(Ack(peer, want - 1))
  /\ SpendTry(2)

\* Anything else ends the download: an Error event of the wait, another one
\* of the common exit.
ReceiveOther(d) ==
  /\ cpc = "receiving"
  /\ Incoming(d)
  /\ ~IsData(d, want) /\ ~IsData(d, want - 1)
  /\ Fail(IF d.type = "error" THEN "remote" ELSE "protocol", 2)
  /\ UNCHANGED net

Receive(d) == ReceiveWanted(d) \/ ReceiveDuplicate(d) \/ ReceiveOther(d)

ReceiveTimeout ==
  /\ cpc = "receiving"
  /\ Send(Ack(peer, want - 1))
  /\ SpendTry(2)

\* recv() fails (2 events), or the disk or a send does (1 event).
ReceiveIoError ==
  /\ cpc = "receiving"
  /\ \E n \in {1, 2} : Fail("io", n)
  /\ UNCHANGED net

\* rename() of `.part` to the destination.
Save ==
  /\ cpc = "saving"
  /\ dest' = part
  /\ part' = NoFile
  /\ cpc' = "done"
  /\ events' = Append(events, "Done")
  /\ UNCHANGED <<net, peer, stray, want, ctries, cancelled, session, server>>

\* Variant of SaveFails: Done was announced before the rename.
SaveFailsLate ==
  /\ cpc = "saving"
  /\ cpc' = "io"
  /\ part' = NoFile
  /\ events' = events \o <<"Done", "Error">>
  /\ UNCHANGED <<net, peer, stray, want, ctries, dest, cancelled, session,
                 server>>

SaveFails ==
  /\ cpc = "saving"
  /\ Fail("io", 1)
  /\ UNCHANGED net

AskCancel ==
  /\ ~cancelled /\ ~ClientOver
  /\ cancelled' = TRUE
  /\ UNCHANGED <<net, client, session, server>>

\* The token is seen while waiting, or between two blocks (1 event).
Cancel ==
  /\ cancelled
  /\ \/ cpc = "handshake" /\ Fail("cancelled", 1)
     \/ cpc = "receiving" /\ \E n \in {1, 2} : Fail("cancelled", n)
  /\ UNCHANGED net

Client ==
  \/ HandshakeTimeout \/ HandshakeIoError
  \/ \E d \in net : Handshake(d) \/ Receive(d)
  \/ ReceiveTimeout \/ ReceiveIoError
  \/ Save \/ SaveFails
  \/ Cancel

-----------------------------------------------------------------------------
(* The sessions of the server.                                             *)

SetSession(s, state) ==
  /\ spc' = [spc EXCEPT ![s] = state]
  /\ UNCHANGED <<client, cancelled, sblk, stries, server>>

\* The position of the first packet of a session.
First == IF options THEN 0 ELSE 1

\* A copy of the RRQ opens a session: the file is opened first, then the
\* OACK is sent, or the first block where there is nothing to negotiate.
Open(s) ==
  /\ accepting # "closed"
  /\ spc[s] = "absent"
  /\ spc' = [spc EXCEPT ![s] = "sending"]
  /\ sblk' = [sblk EXCEPT ![s] = First]
  /\ Send(IF options THEN Oack(s) ELSE Data(s, 1))
  /\ UNCHANGED <<client, cancelled, stries, server>>

OpenFails(s) ==
  /\ accepting # "closed"
  /\ spc[s] = "absent"
  /\ Send(ErrorPacket(s))
  /\ SetSession(s, "failed")

Outstanding(s) == IF sblk[s] = 0 THEN Oack(s) ELSE Data(s, sblk[s])

\* An acknowledgement the network can still deliver to session s.
Acked(s, i) == Ack(s, i) \in net /\ Fresh(i, want - 1)

\* Variant of GetAck: every ACK sends the next chunk.
GetAnyAck(s, i) ==
  /\ spc[s] = "sending"
  /\ Acked(s, i)
  /\ sblk[s] < Chunks
  /\ sblk' = [sblk EXCEPT ![s] = @ + 1]
  /\ stries' = [stries EXCEPT ![s] = 0]
  /\ Send(Data(s, sblk[s] + 1))
  /\ UNCHANGED <<client, cancelled, spc, server>>

\* The next chunk is sent when the one before is acknowledged.
GetAck(s, i) ==
  /\ spc[s] = "sending"
  /\ Acked(s, i) /\ SameBlock(i, sblk[s])
  /\ sblk[s] < Chunks
  /\ sblk' = [sblk EXCEPT ![s] = @ + 1]
  /\ stries' = [stries EXCEPT ![s] = 0]
  /\ Send(Data(s, sblk[s] + 1))
  /\ UNCHANGED <<client, cancelled, spc, server>>

\* Variant of GetLastAck: done once the last chunk is sent.
LastAckNotAwaited(s, i) ==
  /\ spc[s] = "sending"
  /\ sblk[s] = Chunks
  /\ i = Chunks
  /\ SetSession(s, "done")
  /\ UNCHANGED net

GetLastAck(s, i) ==
  /\ spc[s] = "sending"
  /\ Acked(s, i) /\ SameBlock(i, sblk[s])
  /\ sblk[s] = Chunks
  /\ SetSession(s, "done")
  /\ UNCHANGED net

\* An iteration of await_ack is spent, for a timeout or an old ACK.
SpendSessionTry(s) ==
  IF stries[s] + 1 < MaxRetries
  THEN /\ stries' = [stries EXCEPT ![s] = @ + 1]
       /\ UNCHANGED spc
  ELSE /\ spc' = [spc EXCEPT ![s] = "timeout"]
       /\ UNCHANGED stries

\* `continue` in a bounded for: an old ACK spends an iteration.
GetOldAck(s, i) ==
  /\ spc[s] = "sending"
  /\ Acked(s, i) /\ ~SameBlock(i, sblk[s])
  /\ SpendSessionTry(s)
  /\ UNCHANGED <<net, client, cancelled, sblk, server>>

\* Variant of SessionTimeout: the wait is never given up.
SessionTimeoutForever(s) ==
  /\ spc[s] = "sending"
  /\ Send(Outstanding(s))
  /\ UNCHANGED <<client, cancelled, session, server>>

SessionTimeout(s) ==
  /\ spc[s] = "sending"
  /\ Send(Outstanding(s))
  /\ SpendSessionTry(s)
  /\ UNCHANGED <<client, cancelled, sblk, server>>

\* Reading the file, sending or receiving fails: the session just ends.  Its
\* datagrams bounce as soon as the client has no socket for them.
SessionIoError(s) ==
  /\ spc[s] = "sending"
  /\ SetSession(s, "failed")
  /\ UNCHANGED net

\* select! drops handle_session when the server stops.
AbortSession(s) ==
  /\ accepting # "up"
  /\ spc[s] = "sending"
  /\ SetSession(s, "aborted")
  /\ UNCHANGED net

StopServer ==
  /\ accepting = "up"
  /\ accepting' = "stopping"
  /\ UNCHANGED <<net, client, cancelled, session, options>>

CloseListener ==
  /\ accepting = "stopping"
  /\ accepting' = "closed"
  /\ UNCHANGED <<net, client, cancelled, session, options>>

Session(s) ==
  \/ Open(s) \/ OpenFails(s)
  \/ \E i \in 0..Chunks : GetAck(s, i) \/ GetLastAck(s, i) \/ GetOldAck(s, i)
  \/ SessionTimeout(s) \/ SessionIoError(s) \/ AbortSession(s)

Next ==
  \/ Client
  \/ AskCancel
  \/ \E s \in Sessions : Session(s)
  \/ StopServer \/ CloseListener

\* Everything is over: the transfer is not repeated.
Safety == Init /\ [][Next]_vars

\* Timers fire, the rename returns, a cancel and a stop are heard.
Fairness ==
  /\ WF_vars(HandshakeTimeout) /\ WF_vars(ReceiveTimeout)
  /\ WF_vars(Save \/ SaveFails)
  /\ \A s \in Sessions : WF_vars(SessionTimeout(s))

Spec == Safety /\ Fairness

-----------------------------------------------------------------------------
(* Properties.                                                             *)

TypeOK ==
  /\ net \subseteq Datagram
  /\ cpc \in {"handshake", "receiving", "saving", "done"} \cup Failures
  /\ peer \in Sessions \cup {None}
  /\ stray \subseteq net
  /\ want \in 1..Chunks + 1
  /\ ctries \in 0..MaxRetries - 1
  /\ part \in Seq(1..Chunks) \cup {NoFile}
  /\ dest \in Seq(1..Chunks) \cup {OldFile}
  /\ events \in Seq({"Started", "Done", "Error"})
  /\ cancelled \in BOOLEAN
  /\ spc \in [Sessions -> {"absent", "sending", "done", "timeout", "failed",
                           "aborted"}]
  /\ sblk \in [Sessions -> 0..Chunks]
  /\ stries \in [Sessions -> 0..MaxRetries - 1]
  /\ accepting \in {"up", "stopping", "closed"}
  /\ options \in BOOLEAN

\* The two ends stay in step though block numbers wrap and datagrams are
\* repeated: the client waits for the block its session sends, or for the
\* next one; a session it is not connected to never gets past its first
\* packet.
InStep ==
  \A s \in Sessions :
    IF s = peer THEN want \in {sblk[s], sblk[s] + 1}
                ELSE sblk[s] \in {0, First}

\* A session that logs "send complete" has a client that wrote every chunk
\* of the file, whatever became of the ACKs on the way.
SendCompleteMeansReceived ==
  \A s \in Sessions : spc[s] = "done" => s = peer /\ want = Chunks + 1

\* The UI is told Done once, last, and only of a destination that holds the
\* whole file; a failure that is not one of the socket or disk always ends
\* with an Error event.
EventsMatchOutcome ==
  /\ cpc = "done" => /\ events = Append(<<"Started">>, "Done")
                     /\ dest = [i \in 1..Chunks |-> i]
  /\ cpc # "done" => \A i \in DOMAIN events : events[i] # "Done"
  /\ cpc \in Failures \ {"io"} =>
       events # <<>> /\ events[Len(events)] = "Error"

\* Whatever is lost, repeated or late, whatever fails, the destination is
\* the old file until it is the whole new one, and `.part` never survives.
Outcome ==
  CASE cpc = "done" -> "done"
    [] cpc \in Failures -> "failed"
    [] OTHER -> "running"

Atomic == INSTANCE AtomicDownload WITH outcome <- Outcome

AtomicSafety == Atomic!Safety

\* The client gives up or finishes, and no session waits for ever, however
\* few packets get through.
EverythingEnds ==
  /\ <>ClientOver
  /\ \A s \in Sessions : [](spc[s] = "sending" => <>(spc[s] # "sending"))

=============================================================================
