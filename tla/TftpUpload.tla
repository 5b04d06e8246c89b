----------------------------- MODULE TftpUpload -----------------------------
(***************************************************************************)
(* A TFTP upload: client.rs `upload` against the sessions server.rs opens  *)
(* for its WRQ.  Every copy of the WRQ that arrives opens a session of its *)
(* own, and every session truncates and writes the same file: the server   *)
(* keeps no table of the transfers under way.  A block is acknowledged when *)
(* it was handed to a thread that writes it; how that went is told to the  *)
(* next write or to the flush, which follows the last ACK.                 *)
(***************************************************************************)
EXTENDS TftpNet

CONSTANTS
  Caps,        \* values of MAX_UPLOAD_BYTES, counted in chunks
  OldFile,     \* what the server held under that name
  NoFile       \* no file of that name

ASSUME CapAssumption == Caps \subseteq Nat
ASSUME FilesAssumption ==
  /\ OldFile \notin Seq(Nat) /\ NoFile \notin Seq(Nat)
  /\ OldFile # NoFile

VARIABLES
  net,        \* every datagram sent so far
  cpc,        \* client: "handshake", "sending", or its outcome
  peer,       \* client: the session its socket is connected to
  stray,      \* client: datagrams of others queued before connect()
  cblk,       \* client: the position of the chunk it sends
  ctries,     \* client: iterations of the current wait
  events,     \* client: the transfer events sent to the UI, but Progress
  cancelled,  \* the user asked to cancel
  spc,        \* session: "absent", "receiving", "flushing", or its outcome
  swant,      \* session: the position of the block it waits for
  wbuf,       \* session: the block being written, the one before swant, or 0
  broken,     \* the sessions whose last write failed
  stries,     \* session: iterations of the current wait
  file,       \* the file on the server, a sequence of chunks
  linked,     \* the sessions whose open handle is that file
  accepting,  \* the accept loop: "up", "stopping", "closed"
  options,    \* the server knows the options (blksize, tsize)
  cap         \* MAX_UPLOAD_BYTES

client == <<cpc, peer, stray, cblk, ctries, events>>
session == <<spc, swant, stries>>
disk == <<file, linked, wbuf, broken>>
server == <<accepting, options, cap>>
vars == <<net, client, cancelled, session, disk, server>>

Failures == {"timeout", "protocol", "remote", "io", "cancelled"}
ClientOver == cpc \in Failures \cup {"done"}

Send(d) == net' = net \cup {d}

Init ==
  /\ net = {Request}
  /\ cpc = "handshake"
  /\ peer = None
  /\ stray = {}
  /\ cblk = 1
  /\ ctries = 0
  /\ events = <<"Started">>
  /\ cancelled = FALSE
  /\ spc = [s \in Sessions |-> "absent"]
  /\ swant = [s \in Sessions |-> 1]
  /\ stries = [s \in Sessions |-> 0]
  /\ file = OldFile
  /\ linked = {}
  /\ wbuf = [s \in Sessions |-> 0]
  /\ broken = {}
  /\ accepting = "up"
  /\ options \in BOOLEAN /\ cap \in Caps

-----------------------------------------------------------------------------
(* The client.                                                             *)

\* The upload fails after n Error events.
Fail(why, n) ==
  /\ cpc' = why
  /\ events' = events \o [i \in 1..n |-> "Error"]
  /\ UNCHANGED <<peer, stray, cblk, ctries, cancelled, session, disk, server>>

\* One iteration of a retry loop is spent; the last one is the timeout.
SpendTry ==
  IF ctries + 1 < MaxRetries
  THEN /\ ctries' = ctries + 1
       /\ UNCHANGED <<cpc, peer, stray, cblk, events, cancelled, session,
                      disk, server>>
  ELSE Fail("timeout", 1)

HandshakeTimeout ==
  /\ cpc = "handshake"
  /\ Send(Request)
  /\ SpendTry

\* The OACK, or ACK 0 of a server without options.  The client connects to
\* that session; what others sent before stays queued in its socket.
HandshakeReply(d) ==
  /\ cpc = "handshake"
  /\ d.type \in {"oack", "ack"} /\ d.index = 0
  /\ peer' = d.session
  /\ stray' \in SUBSET {e \in net : /\ e.type \in {"oack", "ack", "error"}
                                    /\ e.session # d.session}
  /\ cpc' = "sending"
  /\ ctries' = 0
  /\ Send(Data(d.session, 1))
  /\ UNCHANGED <<cblk, events, cancelled, session, disk, server>>

HandshakeError(d) ==
  /\ cpc = "handshake"
  /\ d.type = "error"
  /\ Fail("remote", 1)
  /\ UNCHANGED net

\* The datagrams recv() may return once the socket is connected.
Incoming(d) ==
  /\ d.type \in {"oack", "ack", "error"}
  /\ d \in stray \/ d.session = peer
  /\ Fresh(d.index, swant[peer] - 1)

IsAck(d) == d.type = "ack" /\ SameBlock(d.index, cblk)

\* Variant of GetAck: every ACK sends the next chunk.
GetAnyAck(d) ==
  /\ cpc = "sending"
  /\ Incoming(d) /\ d.type = "ack"
  /\ cblk < Chunks
  /\ cblk' = cblk + 1
  /\ ctries' = 0
  /\ Send(Data(peer, cblk + 1))
  /\ UNCHANGED <<cpc, peer, stray, events, cancelled, session, disk, server>>

\* The next chunk follows the acknowledgement of the one before.
GetAck(d) ==
  /\ cpc = "sending"
  /\ Incoming(d) /\ IsAck(d)
  /\ cblk < Chunks
  /\ cblk' = cblk + 1
  /\ ctries' = 0
  /\ Send(Data(peer, cblk + 1))
  /\ UNCHANGED <<cpc, peer, stray, events, cancelled, session, disk, server>>

\* Variant of GetLastAck: any ACK ends the upload.
GetAnyLastAck(d) ==
  /\ cpc = "sending"
  /\ Incoming(d) /\ d.type = "ack"
  /\ cblk = Chunks
  /\ cpc' = "done"
  /\ events' = Append(events, "Done")
  /\ UNCHANGED <<net, peer, stray, cblk, ctries, cancelled, session, disk,
                 server>>

\* The acknowledgement of the short chunk.
GetLastAck(d) ==
  /\ cpc = "sending"
  /\ Incoming(d) /\ IsAck(d)
  /\ cblk = Chunks
  /\ cpc' = "done"
  /\ events' = Append(events, "Done")
  /\ UNCHANGED <<net, peer, stray, cblk, ctries, cancelled, session, disk,
                 server>>

\* `continue` in a bounded for: an old ACK spends an iteration.
GetOldAck(d) ==
  /\ cpc = "sending"
  /\ Incoming(d) /\ d.type = "ack" /\ ~IsAck(d)
  /\ SpendTry
  /\ UNCHANGED net

\* Anything but an ACK ends the upload, an OACK sent again included.
GetOther(d) ==
  /\ cpc = "sending"
  /\ Incoming(d) /\ d.type # "ack"
  /\ Fail(IF d.type = "error" THEN "remote" ELSE "protocol", 1)
  /\ UNCHANGED net

SendTimeout ==
  /\ cpc = "sending"
  /\ Send(Data(peer, cblk))
  /\ SpendTry

\* The socket reports an error (1 event); sending, or reading the file,
\* fails: `?` leaves the function with no event.
IoError ==
  /\ cpc \in {"handshake", "sending"}
  /\ \E n \in {0, 1} : Fail("io", n)
  /\ UNCHANGED net

AskCancel ==
  /\ ~cancelled /\ ~ClientOver
  /\ cancelled' = TRUE
  /\ UNCHANGED <<net, client, session, disk, server>>

Cancel ==
  /\ cancelled
  /\ cpc \in {"handshake", "sending"}
  /\ Fail("cancelled", 1)
  /\ UNCHANGED net

Client ==
  \/ HandshakeTimeout \/ SendTimeout \/ IoError \/ Cancel
  \/ \E d \in net :
       \/ HandshakeReply(d) \/ HandshakeError(d)
       \/ GetAck(d) \/ GetLastAck(d) \/ GetOldAck(d) \/ GetOther(d)

-----------------------------------------------------------------------------
(* The sessions of the server.                                             *)

EndSession(s, state) ==
  /\ spc' = [spc EXCEPT ![s] = state]
  /\ UNCHANGED <<client, cancelled, swant, stries, server>>

\* A declared size above the cap is refused before the file is touched.
TooLarge == options /\ Chunks > cap

FirstReply(s) == IF options THEN Oack(s) ELSE Ack(s, 0)

\* File::create truncates the file if there is one, whoever is writing it.
Open(s) ==
  /\ accepting # "closed"
  /\ spc[s] = "absent"
  /\ ~TooLarge
  /\ spc' = [spc EXCEPT ![s] = "receiving"]
  /\ file' = <<>>
  /\ linked' = linked \cup {s}
  /\ Send(FirstReply(s))
  /\ UNCHANGED <<client, cancelled, swant, stries, wbuf, broken, server>>

\* Too large, or the file cannot be created: an ERROR answers the WRQ.  No
\* answer at all if the name or its directory is at fault.
Refuse(s) ==
  /\ accepting # "closed"
  /\ spc[s] = "absent"
  /\ Send(ErrorPacket(s)) \/ (~TooLarge /\ UNCHANGED net)
  /\ EndSession(s, "refused")
  /\ UNCHANGED disk

\* The packet await_data sends again.
LastReply(s) == IF swant[s] = 1 THEN FirstReply(s) ELSE Ack(s, swant[s] - 1)

\* A block the network can still deliver to session s.
Arrives(s, i) == Data(s, i) \in net /\ Fresh(i, cblk)

\* Writing chunk c at position n leaves a hole in a file that was truncated
\* since; 0 stands for a chunk of zeros.
WriteAt(f, n, c) ==
  [i \in 1..(IF Len(f) < n THEN n ELSE Len(f)) |->
     IF i = n THEN c ELSE IF i <= Len(f) THEN f[i] ELSE 0]

\* The file once session s has written the block before the one it wants.
Stored(s) ==
  IF s \in linked THEN WriteAt(file, swant[s] - 1, wbuf[s]) ELSE file

\* write_all takes a block only when the one before it went to the disk.
TakesBlock(s) == wbuf[s] = 0 /\ s \notin broken

\* Variant of GetData: the block before is taken for the wanted one.
GetDataAgain(s, i) ==
  /\ spc[s] = "receiving"
  /\ Arrives(s, i)
  /\ SameBlock(i, swant[s]) \/ SameBlock(i, swant[s] - 1)
  /\ swant[s] <= cap
  /\ TakesBlock(s)
  /\ wbuf' = [wbuf EXCEPT ![s] = i]
  /\ swant' = [swant EXCEPT ![s] = @ + 1]
  /\ stries' = [stries EXCEPT ![s] = 0]
  /\ spc' = [spc EXCEPT ![s] = IF i = Chunks THEN "flushing" ELSE @]
  /\ Send(Ack(s, swant[s]))
  /\ UNCHANGED <<client, cancelled, file, linked, broken, server>>

\* The wanted block is handed to a writing thread and acknowledged; a short
\* one is the last.
GetData(s, i) ==
  /\ spc[s] = "receiving"
  /\ Arrives(s, i)
  /\ SameBlock(i, swant[s])
  /\ swant[s] <= cap
  /\ TakesBlock(s)
  /\ wbuf' = [wbuf EXCEPT ![s] = i]
  /\ swant' = [swant EXCEPT ![s] = @ + 1]
  /\ stries' = [stries EXCEPT ![s] = 0]
  /\ spc' = [spc EXCEPT ![s] = IF i = Chunks THEN "flushing" ELSE @]
  /\ Send(Ack(s, swant[s]))
  /\ UNCHANGED <<client, cancelled, file, linked, broken, server>>

\* A block past the cap: ERROR, and the file of that name is removed.
GetTooMuch(s, i) ==
  /\ spc[s] = "receiving"
  /\ Arrives(s, i)
  /\ SameBlock(i, swant[s])
  /\ swant[s] > cap
  /\ Send(ErrorPacket(s))
  /\ file' = NoFile
  /\ linked' = {}
  /\ UNCHANGED <<wbuf, broken>>
  /\ EndSession(s, "refused")

\* Variant of SpendSessionTry: the wait is never given up.
SpendNoSessionTry(s) ==
  UNCHANGED <<client, cancelled, session, disk, server>>

\* An iteration of await_data is spent.
SpendSessionTry(s) ==
  /\ IF stries[s] + 1 < MaxRetries
     THEN /\ stries' = [stries EXCEPT ![s] = @ + 1]
          /\ UNCHANGED spc
     ELSE /\ spc' = [spc EXCEPT ![s] = "failed"]
          /\ UNCHANGED stries
  /\ UNCHANGED <<client, cancelled, swant, disk, server>>

\* The block before is acknowledged again, for one iteration.
GetDuplicate(s, i) ==
  /\ spc[s] = "receiving"
  /\ Arrives(s, i)
  /\ ~SameBlock(i, swant[s]) /\ SameBlock(i, swant[s] - 1)
  /\ Send(LastReply(s))
  /\ SpendSessionTry(s)

\* Any other block ends the session.
GetUnexpected(s, i) ==
  /\ spc[s] = "receiving"
  /\ Arrives(s, i)
  /\ ~SameBlock(i, swant[s]) /\ ~SameBlock(i, swant[s] - 1)
  /\ EndSession(s, "failed")
  /\ UNCHANGED <<net, disk>>

SessionTimeout(s) ==
  /\ spc[s] = "receiving"
  /\ Send(LastReply(s))
  /\ SpendSessionTry(s)

\* The thread has written the block, or could not: it goes on when its
\* session is over.
WriteLands(s) ==
  /\ wbuf[s] # 0
  /\ file' = Stored(s)
  /\ wbuf' = [wbuf EXCEPT ![s] = 0]
  /\ UNCHANGED <<net, client, cancelled, session, linked, broken, server>>

WriteFails(s) ==
  /\ wbuf[s] # 0
  /\ broken' = broken \cup {s}
  /\ wbuf' = [wbuf EXCEPT ![s] = 0]
  /\ UNCHANGED <<net, client, cancelled, session, file, linked, server>>

\* The last block was acknowledged; the client is not told how it ends.
Flush(s) ==
  /\ spc[s] = "flushing" /\ wbuf[s] = 0
  /\ EndSession(s, IF s \in broken THEN "failed" ELSE "done")
  /\ UNCHANGED <<net, disk>>

\* The socket fails, a block comes after a write that failed, or the server
\* stops: what was written so far stays.
SessionDies(s) ==
  /\ \/ spc[s] = "receiving"
     \/ spc[s] = "flushing" /\ accepting # "up"
  /\ EndSession(s, "failed")
  /\ UNCHANGED <<net, disk>>

StopServer ==
  /\ accepting = "up"
  /\ accepting' = "stopping"
  /\ UNCHANGED <<net, client, cancelled, session, disk, options, cap>>

CloseListener ==
  /\ accepting = "stopping"
  /\ accepting' = "closed"
  /\ UNCHANGED <<net, client, cancelled, session, disk, options, cap>>

Session(s) ==
  \/ Open(s) \/ Refuse(s)
  \/ \E i \in 1..Chunks : \/ GetData(s, i) \/ GetTooMuch(s, i)
                          \/ GetDuplicate(s, i) \/ GetUnexpected(s, i)
  \/ SessionTimeout(s) \/ SessionDies(s)
  \/ WriteLands(s) \/ WriteFails(s) \/ Flush(s)

Next ==
  \/ Client
  \/ AskCancel
  \/ \E s \in Sessions : Session(s)
  \/ StopServer \/ CloseListener

Safety == Init /\ [][Next]_vars

\* Timers fire, and a write or a flush of the disk comes to an end.
Fairness ==
  /\ WF_vars(HandshakeTimeout \/ SendTimeout)
  /\ \A s \in Sessions :
       /\ WF_vars(SessionTimeout(s))
       /\ WF_vars(WriteLands(s) \/ WriteFails(s) \/ Flush(s))

Spec == Safety /\ Fairness

-----------------------------------------------------------------------------
(* Properties.                                                             *)

Prefix(n) == [i \in 1..n |-> i]
Whole == Prefix(Chunks)

TypeOK ==
  /\ net \subseteq Datagram
  /\ cpc \in {"handshake", "sending", "done"} \cup Failures
  /\ peer \in Sessions \cup {None}
  /\ stray \subseteq net
  /\ cblk \in 1..Chunks
  /\ ctries \in 0..MaxRetries - 1
  /\ events \in Seq({"Started", "Done", "Error"})
  /\ cancelled \in BOOLEAN
  /\ spc \in [Sessions -> {"absent", "receiving", "flushing", "done",
                           "failed", "refused"}]
  /\ swant \in [Sessions -> 1..Chunks + 1]
  /\ stries \in [Sessions -> 0..MaxRetries - 1]
  /\ file \in Seq(0..Chunks) \cup {OldFile, NoFile}
  /\ linked \subseteq Sessions
  /\ wbuf \in [Sessions -> 0..Chunks]
  /\ broken \subseteq Sessions
  /\ accepting \in {"up", "stopping", "closed"}
  /\ options \in BOOLEAN /\ cap \in Caps

\* The two ends stay in step: the session waits for the chunk its client
\* sends, or for the next one; a session the client is not connected to
\* never gets a block.
InStep ==
  \A s \in Sessions :
    IF s = peer THEN swant[s] \in {cblk, cblk + 1} ELSE swant[s] = 1

\* The blocks of session s on the disk: what it acknowledged, but for a last
\* one that is being written or could not be.
Written(s) ==
  IF wbuf[s] # 0 \/ s \in broken THEN swant[s] - 2 ELSE swant[s] - 1

\* The client reports Done only when its session has acknowledged every chunk
\* and, if it has the file to itself, stored all but possibly the last, whose
\* write is then still under way or has failed.
DoneMeansReceived ==
  cpc = "done" =>
    /\ swant[peer] = Chunks + 1
    /\ linked = {peer} =>
         \/ file = Whole
         \/ file = Prefix(Chunks - 1) /\ (wbuf[peer] # 0 \/ peer \in broken)

\* A session that has the file to itself has in it exactly the chunks it
\* acknowledged, in order, or all but the last of them: a repeated, late or
\* wrapped block never gets in, what an interrupted upload leaves is a prefix,
\* and after a write that failed no other block is written.
AloneWritesPrefix ==
  \A s \in Sessions : linked = {s} => file = Prefix(Written(s))

\* No upload, declared or blind, leaves more than the cap in the directory.
CapHolds == file \notin {OldFile, NoFile} => Len(file) <= cap

\* What the server stores of an upload, whatever becomes of the transfer.
StoresInOrderUpToCap == AloneWritesPrefix /\ CapHolds

\* An upload declared too large does not touch the old file, and the client
\* learns of it: no session ever waits for its blocks.
DeclaredTooLargeRefused ==
  TooLarge => /\ file = OldFile
              /\ \A s \in Sessions : spc[s] \in {"absent", "refused"}
              /\ cpc # "sending"

\* Neither end waits for ever.
EverythingEnds ==
  /\ <>ClientOver
  /\ \A s \in Sessions :
       LET busy == spc[s] \in {"receiving", "flushing"}
       IN  [](busy => <>~busy)

\* Doc of TransferEvent: Done means finished successfully.  Then the server
\* holds the file when the client says Done, once every write went through.
DoneMeansStored ==
  cpc = "done" /\ broken = {} /\ (\A s \in Sessions : wbuf[s] = 0) =>
    file = Whole

=============================================================================
