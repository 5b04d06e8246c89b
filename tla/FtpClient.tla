----------------------------- MODULE FtpClient -----------------------------
(***************************************************************************)
(* The FTP client session of the shell: the commands that share it, the    *)
(* mutex that lets one of them in at a time, the transfers of the engine   *)
(* (ftp/client.rs), the registry of cancellation tokens (cancel.rs), and   *)
(* the server at the other end of the control connection.                  *)
(*                                                                         *)
(* FTP answers in order and an answer does not say what it answers: a      *)
(* transfer that leaves one unread makes every later command read the      *)
(* answer of the one before.                                               *)
(*                                                                         *)
(* A file is Chunks chunks, read and written in order, so a count says     *)
(* which.  Opening a transfer is suppaftp's data_command: PASV, then STOR  *)
(* or RETR is sent, then the data connection is made, and only then is the *)
(* first answer to STOR or RETR read.  The making of the session's own     *)
(* connection and the exchange of a listing are taken as one step each.    *)
(* The server is honest: it says that a transfer is complete only if it is.*)
(***************************************************************************)
EXTENDS Naturals, Sequences

CONSTANTS
  MaxJobs,   \* bound: commands issued
  Chunks,    \* the number of chunks of every file
  OldFile,   \* what the destination of a download held before
  NoFile,    \* there is no file of that name
  None

ASSUME MaxJobsAssumption == MaxJobs \in Nat
ASSUME ChunksAssumption == Chunks \in Nat
ASSUME NoneAssumption == None \notin 1..MaxJobs
ASSUME NoFileAssumption == NoFile \notin Seq(Nat)

\* A command is known by its number; that of a transfer is its transfer id.
Jobs == 1..MaxJobs

Transfers == {"upload", "download"}
Kinds == Transfers \cup {"simple", "connect", "disconnect"}

VARIABLES
  kind,        \* each command, "none" before it is issued
  st,          \* each command: unborn, queued, running, or its outcome
  queue,       \* the commands waiting for the session's mutex, in order
  step,        \* where the command that holds the mutex is
  cause,       \* why the current transfer was aborted
  conn,        \* AppState.ftp_client: "none", or a connection "up" or "lost"
  requests,    \* the commands the server has not answered yet
  replies,     \* the answers the client has not read yet
  serving,     \* the transfer the server is busy with
  chan,        \* each transfer's data connection
  near, far,   \* the chunks the client, the server has moved
  partFile,    \* the downloads whose `.part` exists
  saved,       \* the downloads that replaced their destination
  registered,  \* CancelRegistry: the transfers that have a token in it
  fired,       \* the transfers whose token was cancelled
  active,      \* the page: the transfer the cancel button is for
  bar,         \* the page: what it was told of each transfer
  unread       \* history: on this connection, a transfer left an answer unread

commands == <<kind, st, queue>>
control == <<conn, requests, replies, serving, unread>>
data == <<chan, near, far>>
disk == <<partFile, saved>>
cancels == <<registered, fired, active>>
vars == <<commands, step, cause, control, data, disk, cancels, bar>>

Outcomes == {"done", "failed", "cancelled"}
Over(j) == st[j] \in Outcomes
Running(j) == st[j] = "running"
At(j, s) == Running(j) /\ step = s

Request(op, j) == [op |-> op, job |-> j]
Answer(code, j) == [code |-> code, job |-> j]

\* What is sent on a lost connection reaches nobody.
Ask(op, j) ==
  requests' = IF conn = "up" THEN Append(requests, Request(op, j)) ELSE requests

\* Nothing more can be read from the control connection.
Dead == conn = "lost" /\ replies = <<>>
Answered(code) == replies # <<>> /\ Head(replies).code = code
Take == replies' = Tail(replies)
Read(code) == Answered(code) /\ Take
ReadOther(code) == replies # <<>> /\ Head(replies).code # code /\ Take

-----------------------------------------------------------------------------
(* The page and the mutex.                                                 *)

\* The page shows the cancel button before it calls the command.  It runs one
\* batch of transfers, one at a time, and lists nothing new meanwhile.
Issue(j, k) ==
  /\ st[j] = "unborn" /\ \A i \in 1..(j - 1) : st[i] # "unborn"
  /\ k \in Transfers \cup {"simple"} => active = None
  /\ active' = IF k \in Transfers THEN j ELSE active
  /\ kind' = [kind EXCEPT ![j] = k]
  /\ st' = [st EXCEPT ![j] = "queued"]
  /\ queue' = Append(queue, j)
  /\ UNCHANGED <<step, cause, control, data, disk, registered, fired, bar>>

\* tokio's mutex is fair: the lock goes to the first in the queue.
Granted(j) ==
  /\ \A i \in Jobs : ~Running(i)
  /\ queue # <<>> /\ j = Head(queue)

Enter(j, s) ==
  /\ st' = [st EXCEPT ![j] = "running"] /\ queue' = Tail(queue)
  /\ step' = s
  /\ UNCHANGED <<kind, cause>>

\* The command is over without having run.
Skip(j, how) ==
  /\ st' = [st EXCEPT ![j] = how] /\ queue' = Tail(queue)
  /\ UNCHANGED <<kind, step, cause>>

\* The command that holds the mutex is over.
Settle(j, how) ==
  /\ st' = [st EXCEPT ![j] = how]
  /\ step' = "idle" /\ cause' = "failed"
  /\ UNCHANGED <<kind, queue>>

Tell(j, what) == bar' = [bar EXCEPT ![j] = what]

\* A fresh connection: nothing asked, nothing to read.
Fresh(c) ==
  /\ conn' = c /\ requests' = <<>> /\ replies' = <<>>
  /\ serving' = None /\ unread' = FALSE

-----------------------------------------------------------------------------
(* Commands get the mutex.                                                 *)

NotConnected(j) ==
  /\ Granted(j) /\ kind[j] # "connect" /\ conn = "none"
  /\ Skip(j, "failed")
  /\ UNCHANGED <<control, data, disk, cancels, bar>>

\* The token is registered now, not while the transfer was queued.
BeginUpload(j) ==
  /\ Granted(j) /\ kind[j] = "upload" /\ conn # "none"
  /\ registered' = registered \cup {j}
  /\ Enter(j, "pasv") /\ Ask("pasv", j) /\ Tell(j, "started")
  /\ UNCHANGED <<conn, replies, serving, unread, data, disk, fired, active>>

\* The local file cannot be opened: the transfer never started.
NoSource(j) ==
  /\ Granted(j) /\ kind[j] = "upload" /\ conn # "none"
  /\ registered' = registered \cup {j}
  /\ Skip(j, "failed")
  /\ UNCHANGED <<control, data, disk, fired, active, bar>>

BeginDownload(j) ==
  /\ Granted(j) /\ kind[j] = "download" /\ conn # "none"
  /\ registered' = registered \cup {j}
  /\ Enter(j, "size") /\ Ask("size", j)
  /\ UNCHANGED <<conn, replies, serving, unread, data, disk, fired, active,
                 bar>>

BeginSimple(j) ==
  /\ Granted(j) /\ kind[j] = "simple" /\ conn # "none"
  /\ Enter(j, "simple") /\ Ask("simple", j)
  /\ UNCHANGED <<conn, replies, serving, unread, data, disk, cancels, bar>>

\* The first connection.  It was made before the mutex was asked for.
BeginConnect(j) ==
  /\ Granted(j) /\ kind[j] = "connect" /\ conn = "none"
  /\ Skip(j, "done") /\ Fresh("up")
  /\ UNCHANGED <<data, disk, cancels, bar>>

\* The connection there is, is quit, under the mutex.
BeginQuit(j) ==
  /\ Granted(j) /\ kind[j] \in {"connect", "disconnect"} /\ conn # "none"
  /\ Enter(j, "quit") /\ Ask("quit", j)
  /\ UNCHANGED <<conn, replies, serving, unread, data, disk, cancels, bar>>

SimpleAnswered(j) ==
  /\ At(j, "simple")
  /\ \/ Read("ok") /\ Settle(j, "done")
     \/ (ReadOther("ok") \/ (Dead /\ UNCHANGED replies)) /\ Settle(j, "failed")
  /\ UNCHANGED <<conn, requests, serving, unread, data, disk, cancels, bar>>

\* The data connection of a listing fails: its answers are left unread.
ListingFails(j) ==
  /\ At(j, "simple")
  /\ unread' = TRUE
  /\ Settle(j, "failed")
  /\ UNCHANGED <<conn, requests, replies, serving, data, disk, cancels, bar>>

QuitAnswered(j) ==
  /\ At(j, "quit")
  /\ replies # <<>> \/ Dead
  /\ Fresh(IF kind[j] = "connect" THEN "up" ELSE "none")
  /\ Settle(j, IF kind[j] = "connect" \/ Answered("ok") THEN "done"
                                                        ELSE "failed")
  /\ UNCHANGED <<data, disk, cancels, bar>>

-----------------------------------------------------------------------------
(* A transfer opens its data connection.                                   *)

\* Whatever SIZE says, the download goes on, and is now announced.
SizeAnswered(j) ==
  /\ At(j, "size")
  /\ \/ replies # <<>> /\ Take
     \/ Dead /\ UNCHANGED replies
  /\ step' = "pasv" /\ Ask("pasv", j) /\ Tell(j, "started")
  /\ UNCHANGED <<commands, cause, conn, serving, unread, data, disk, cancels>>

\* STOR or RETR is sent before the data connection is made.
PortAnswered(j) ==
  /\ At(j, "pasv") /\ Read("port")
  /\ step' = "dial" /\ Ask("open", j)
  /\ UNCHANGED <<commands, cause, conn, serving, unread, data, disk, cancels,
                 bar>>

\* The server still means to use the data connection it was asked for.
Expected(j) ==
  serving = j \/ \E i \in DOMAIN requests : requests[i] = Request("open", j)

\* One that the server has already done with is closed as soon as it is made.
Dialled(j) ==
  /\ At(j, "dial")
  /\ chan' = [chan EXCEPT ![j] = IF Expected(j) THEN "open" ELSE "cut"]
  /\ step' = "open"
  /\ UNCHANGED <<commands, cause, control, near, far, disk, cancels, bar>>

\* The data connection is not made, or its TLS handshake fails: the answers to
\* STOR or RETR are left unread, and nothing drains them.
DialFails(j) ==
  /\ At(j, "dial")
  /\ chan' \in {chan, [chan EXCEPT ![j] = "ended"]}
  /\ unread' = TRUE
  /\ Settle(j, "failed") /\ Tell(j, "error")
  /\ UNCHANGED <<conn, requests, replies, serving, near, far, disk, cancels>>

OpenAnswered(j) ==
  /\ At(j, "open") /\ Read("mark")
  /\ step' = "data"
  /\ UNCHANGED <<commands, cause, conn, requests, serving, unread, data, disk,
                 cancels, bar>>

\* The client lets go of its end of the data connection.
HangUp(j) == chan' = [chan EXCEPT ![j] = IF @ = "none" THEN @ ELSE "ended"]

\* Variant of OpenFails: the refusal is not announced.
OpenFailsSilently(j) ==
  /\ At(j, "pasv") \/ At(j, "open")
  /\ \/ step = "pasv" /\ ReadOther("port")
     \/ step = "open" /\ ReadOther("mark")
     \/ Dead /\ UNCHANGED replies
  /\ HangUp(j) /\ Settle(j, "failed")
  /\ UNCHANGED <<conn, requests, serving, unread, near, far, disk, cancels,
                 bar>>

\* PASV, or STOR or RETR, is refused.
OpenFails(j) ==
  /\ At(j, "pasv") \/ At(j, "open")
  /\ \/ step = "pasv" /\ ReadOther("port")
     \/ step = "open" /\ ReadOther("mark")
     \/ Dead /\ UNCHANGED replies
  /\ HangUp(j) /\ Settle(j, "failed") /\ Tell(j, "error")
  /\ UNCHANGED <<conn, requests, serving, unread, near, far, disk, cancels>>

-----------------------------------------------------------------------------
(* The chunks.  The token is checked before each of them.                  *)

Moving(j, k) == At(j, "data") /\ kind[j] = k /\ j \notin fired

\* The result of the write is not looked at, so a cut data connection does
\* not stop the upload.
WriteChunk(j) ==
  /\ Moving(j, "upload") /\ near[j] < Chunks
  /\ near' = [near EXCEPT ![j] = @ + 1]
  /\ UNCHANGED <<commands, step, cause, control, chan, far, disk, cancels, bar>>

CreatePart(j) ==
  /\ At(j, "data") /\ kind[j] = "download" /\ j \notin partFile
  /\ partFile' = partFile \cup {j}
  /\ UNCHANGED <<commands, step, cause, control, data, saved, cancels, bar>>

ReadChunk(j) ==
  /\ Moving(j, "download") /\ j \in partFile /\ near[j] < far[j]
  /\ near' = [near EXCEPT ![j] = @ + 1]
  /\ UNCHANGED <<commands, step, cause, control, chan, far, disk, cancels, bar>>

\* Variant of LastChunk: the end of the data connection ends the download.
LastChunkUnconfirmed(j) ==
  /\ Moving(j, "download") /\ j \in partFile
  /\ chan[j] = "cut" \/ (chan[j] = "eof" /\ near[j] = far[j])
  /\ HangUp(j) /\ Settle(j, "done") /\ Tell(j, "done")
  /\ partFile' = partFile \ {j} /\ saved' = saved \cup {j}
  /\ UNCHANGED <<control, near, far, cancels>>

\* The source is at its end, or the server's end of the data connection was
\* closed: a cut one looks like the end of the file.
LastChunk(j) ==
  /\ \/ Moving(j, "upload") /\ near[j] = Chunks
     \/ /\ Moving(j, "download") /\ j \in partFile
        /\ chan[j] = "cut" \/ (chan[j] = "eof" /\ near[j] = far[j])
  /\ HangUp(j) /\ step' = "final"
  /\ UNCHANGED <<commands, cause, control, near, far, disk, cancels, bar>>

\* The transfer is aborted; the closing answer is still to be read.
Abort(j, why) ==
  /\ At(j, "data")
  /\ HangUp(j) /\ step' = "drain" /\ cause' = why
  /\ UNCHANGED <<commands, control, near, far, disk, cancels, bar>>

\* Variant of DataFails: a chunk is waited for without a bound.
DataFailsUntimed(j) ==
  /\ kind[j] = "download" /\ chan[j] = "cut"
  /\ Abort(j, "failed")

\* The disk fails, the data connection of a download does, or a chunk takes
\* longer than IDLE_TIMEOUT.
DataFails(j) == Abort(j, "failed")

CancelHeard(j) == j \in fired /\ Abort(j, "cancelled")

-----------------------------------------------------------------------------
(* The closing answer.                                                     *)

\* Variant of Completed: Done is announced before the closing answer.
CompletedUnread(j) ==
  /\ At(j, "final")
  /\ Settle(j, "done") /\ Tell(j, "done")
  /\ partFile' = partFile \ {j}
  /\ saved' = IF kind[j] = "download" THEN saved \cup {j} ELSE saved
  /\ UNCHANGED <<control, data, cancels>>

\* `.part` is renamed to the destination of a download.
Completed(j) ==
  /\ At(j, "final") /\ Read("complete")
  /\ Settle(j, "done") /\ Tell(j, "done")
  /\ partFile' = partFile \ {j}
  /\ saved' = IF kind[j] = "download" THEN saved \cup {j} ELSE saved
  /\ UNCHANGED <<conn, requests, serving, unread, data, cancels>>

NotCompleted(j) ==
  /\ At(j, "final")
  /\ \/ ReadOther("complete")
     \/ kind[j] = "download" /\ Read("complete")
     \/ Dead /\ UNCHANGED replies
  /\ Settle(j, "failed") /\ Tell(j, "error")
  /\ partFile' = partFile \ {j}
  /\ UNCHANGED <<conn, requests, serving, unread, saved, data, cancels>>

\* Variant of Drained: the closing answer is left.
NotDrained(j) ==
  /\ At(j, "drain")
  /\ Settle(j, cause) /\ Tell(j, "error")
  /\ partFile' = partFile \ {j}
  /\ UNCHANGED <<control, saved, data, cancels>>

Drained(j) ==
  /\ At(j, "drain")
  /\ \/ replies # <<>> /\ Take
     \/ Dead /\ UNCHANGED replies
  /\ Settle(j, cause) /\ Tell(j, "error")
  /\ partFile' = partFile \ {j}
  /\ UNCHANGED <<conn, requests, serving, unread, saved, data, cancels>>

\* No answer within IDLE_TIMEOUT: it may still come.
DrainGivesUp(j) ==
  /\ At(j, "drain") /\ replies = <<>> /\ conn = "up"
  /\ unread' = TRUE
  /\ Settle(j, cause) /\ Tell(j, "error")
  /\ partFile' = partFile \ {j}
  /\ UNCHANGED <<conn, requests, replies, serving, saved, data, cancels>>

\* Variant of Return: the token stays.
ReturnUnregistered(j) ==
  /\ active = j /\ Over(j)
  /\ active' = None
  /\ UNCHANGED <<commands, step, cause, control, data, disk, registered, fired,
                 bar>>

\* The command unregisters its token and returns to the page, some time after
\* it let go of the mutex.
Return(j) ==
  /\ active = j /\ Over(j)
  /\ registered' = registered \ {j} /\ active' = None
  /\ UNCHANGED <<commands, step, cause, control, data, disk, fired, bar>>

\* cancel_transfer.  Where there is no token it only reports that.
PressCancel(j) ==
  /\ active = j /\ j \in registered
  /\ registered' = registered \ {j} /\ fired' = fired \cup {j}
  /\ UNCHANGED <<commands, step, cause, control, data, disk, active, bar>>

-----------------------------------------------------------------------------
(* The server: it answers one command after the other; a transfer has two  *)
(* answers, a mark and a closing one.                                      *)

Good(op) == CASE op = "pasv" -> "port" [] OTHER -> "ok"

Reply(code, j) == replies' = Append(replies, Answer(code, j))

Serve ==
  /\ conn = "up" /\ serving = None /\ requests # <<>>
  /\ requests' = Tail(requests)
  /\ LET r == Head(requests) IN
     \/ Reply("failed", r.job) /\ UNCHANGED serving
     \/ r.op # "open" /\ Reply(Good(r.op), r.job) /\ UNCHANGED serving
     \/ r.op = "open" /\ Reply("mark", r.job) /\ serving' = r.job
  /\ UNCHANGED <<commands, step, cause, conn, unread, data, disk, cancels, bar>>

\* A chunk arrives, or is sent.
Relay(j) ==
  /\ serving = j
  /\ \/ kind[j] = "upload" /\ far[j] < near[j]
     \/ kind[j] = "download" /\ far[j] < Chunks /\ chan[j] = "open"
  /\ far' = [far EXCEPT ![j] = @ + 1]
  /\ UNCHANGED <<commands, step, cause, control, chan, near, disk, cancels,
                 bar>>

CloseTransfer(j, code) ==
  /\ serving = j /\ serving' = None /\ Reply(code, j)
  /\ UNCHANGED <<commands, step, cause, conn, requests, unread, near, far, disk,
                 cancels, bar>>

\* The server cannot tell an aborted upload from a complete one.
Complete(j) ==
  /\ CloseTransfer(j, "complete")
  /\ chan[j] # "none"
  /\ \/ /\ kind[j] = "upload" /\ chan[j] = "ended" /\ far[j] = near[j]
        /\ UNCHANGED chan
     \/ /\ kind[j] = "download" /\ far[j] = Chunks
        /\ chan' = [chan EXCEPT ![j] = IF @ = "open" THEN "eof" ELSE @]

Incomplete(j) ==
  /\ CloseTransfer(j, "failed")
  /\ chan' = [chan EXCEPT ![j] = IF @ = "open" THEN "cut" ELSE @]

\* The peer is gone; what it had sent before can still be read.
LoseLink ==
  /\ conn = "up"
  /\ conn' = "lost" /\ requests' = <<>> /\ serving' = None
  /\ chan' = [j \in Jobs |-> IF chan[j] = "open" THEN "cut" ELSE chan[j]]
  /\ UNCHANGED <<commands, step, cause, replies, unread, near, far, disk,
                 cancels, bar>>

-----------------------------------------------------------------------------
Init ==
  /\ kind = [j \in Jobs |-> "none"] /\ st = [j \in Jobs |-> "unborn"]
  /\ queue = <<>> /\ step = "idle" /\ cause = "failed"
  /\ conn = "none" /\ requests = <<>> /\ replies = <<>> /\ serving = None
  /\ chan = [j \in Jobs |-> "none"]
  /\ near = [j \in Jobs |-> 0] /\ far = [j \in Jobs |-> 0]
  /\ partFile = {} /\ saved = {}
  /\ registered = {} /\ fired = {} /\ active = None
  /\ bar = [j \in Jobs |-> "none"] /\ unread = FALSE

Begin(j) ==
  \/ NotConnected(j) \/ BeginUpload(j) \/ NoSource(j) \/ BeginDownload(j)
  \/ BeginSimple(j) \/ BeginConnect(j) \/ BeginQuit(j)

Transfer(j) ==
  \/ SizeAnswered(j) \/ PortAnswered(j) \/ Dialled(j) \/ DialFails(j)
  \/ OpenAnswered(j) \/ OpenFails(j)
  \/ WriteChunk(j) \/ CreatePart(j) \/ ReadChunk(j) \/ LastChunk(j)
  \/ DataFails(j) \/ CancelHeard(j)
  \/ Completed(j) \/ NotCompleted(j) \/ Drained(j) \/ DrainGivesUp(j)

Client(j) ==
  \/ Begin(j) \/ SimpleAnswered(j) \/ ListingFails(j) \/ QuitAnswered(j)
  \/ Transfer(j) \/ Return(j)

Server == Serve \/ \E j \in Jobs : Relay(j) \/ Complete(j) \/ Incomplete(j)

Next ==
  \/ \E j \in Jobs : (\E k \in Kinds : Issue(j, k)) \/ PressCancel(j)
  \/ \E j \in Jobs : Client(j)
  \/ Server \/ LoseLink

Safety == Init /\ [][Next]_vars

\* The client's tasks run, its timers fire, and an attempt to make a data
\* connection ends.
Spec == Safety /\ \A j \in Jobs : WF_vars(Client(j))

\* The server answers what it is asked, and closes a transfer whose data
\* connection the client has closed or never made.  The data may stall for
\* ever.
AnsweringSpec ==
  /\ Spec
  /\ WF_vars(Serve)
  /\ \A j \in Jobs :
       WF_vars(/\ chan[j] \in {"none", "ended"}
               /\ Relay(j) \/ Complete(j) \/ Incomplete(j))

-----------------------------------------------------------------------------
CommandsTyped ==
  /\ kind \in [Jobs -> Kinds \cup {"none"}]
  /\ st \in [Jobs -> Outcomes \cup {"unborn", "queued", "running"}]
  /\ queue \in Seq(Jobs)
  /\ step \in {"idle", "simple", "quit", "size", "pasv", "dial", "open", "data",
               "final", "drain"}
  /\ cause \in {"failed", "cancelled"}

Requests == [op : {"simple", "quit", "size", "pasv", "open"}, job : Jobs]
Answers == [code : {"ok", "port", "mark", "complete", "failed"}, job : Jobs]

ControlTyped ==
  /\ conn \in {"none", "up", "lost"}
  /\ requests \in Seq(Requests) /\ replies \in Seq(Answers)
  /\ serving \in Jobs \cup {None}
  /\ unread \in BOOLEAN

DataTyped ==
  /\ chan \in [Jobs -> {"none", "open", "ended", "cut", "eof"}]
  /\ near \in [Jobs -> 0..Chunks] /\ far \in [Jobs -> 0..Chunks]
  /\ partFile \subseteq Jobs /\ saved \subseteq Jobs

PageTyped ==
  /\ registered \subseteq Jobs /\ fired \subseteq Jobs
  /\ active \in Jobs \cup {None}
  /\ bar \in [Jobs -> {"none", "started", "done", "error"}]

TypeOK == CommandsTyped /\ ControlTyped /\ DataTyped /\ PageTyped

\* A command that is over has left nothing on the control connection that a
\* later one would take for its own answer, whatever way it ended
\* (client.rs:544-573, review 2026-10-09 #1), except the two ways in which the
\* code does leave one on this connection: a data connection that fails after
\* its command was sent (client.rs:267, 275, 323, 455), and a closing answer
\* that takes longer than IDLE_TIMEOUT (client.rs:563-573).
InSync ==
  ~unread =>
    /\ \A i \in DOMAIN requests : Running(requests[i].job)
    /\ \A i \in DOMAIN replies : Running(replies[i].job)
    /\ serving # None => Running(serving)

\* An upload is reported Done only of a file the server has in full, though
\* failed writes go unnoticed (client.rs:354).  Where an answer was left
\* unread before it, the 226 it reads need not be its own.
DoneMeansStored ==
  [][\A j \in Jobs :
       ~unread /\ kind[j] = "upload" /\ st[j] # "done" /\ st'[j] = "done"
         => far[j] = Chunks]_vars

\* The progress bar of a transfer that is over does not hang: an Error or a
\* Done has followed its Started (client.rs:323-324, 369).
NoStuckBar == \A j \in Jobs : Over(j) => bar[j] # "started"

\* A token in the registry is that of the transfer the page waits for, and
\* that transfer got the mutex: none is stranded (cancel.rs:17-23, 34-36).
TokensInFlight ==
  \A j \in registered : j = active /\ (Running(j) \/ Over(j))

\* The destination of a download is what it was until it is the whole file,
\* and its `.part` is gone when it is over (client.rs:448-451).  It is the
\* closing answer that says so, as long as none was left unread before it.
Prefix(n) == [i \in 1..n |-> i]
Destination(j) == IF j \in saved THEN Prefix(near[j]) ELSE OldFile
PartOf(j) == IF j \in partFile THEN Prefix(near[j]) ELSE NoFile
OutcomeOf(j) ==
  IF kind[j] = "download" /\ Over(j)
  THEN IF st[j] = "done" THEN "done" ELSE "failed"
  ELSE "running"

Atomic(j) == INSTANCE AtomicDownload WITH
  dest <- Destination(j), part <- PartOf(j), outcome <- OutcomeOf(j)

DownloadStays(j) == UNCHANGED <<Atomic(j)!vars>>
DownloadsAtomic ==
  /\ \A j \in Jobs : Atomic(j)!Init
  /\ [][~unread => \A j \in Jobs : Atomic(j)!Next \/ DownloadStays(j)]_vars

\* Every command is over in the end, if the server answers: the mutex is not
\* lost, the queue moves on, a stalled data connection is given up.
JobsEnd == \A j \in Jobs : st[j] = "queued" ~> Over(j)

\* A transfer lets go of the mutex in the end, even if the server never says a
\* word again: "a silently dead peer can no longer wedge a transfer - and with
\* it the client session mutex - forever" (cancel.rs:5-8).
TransfersLetGo ==
  \A j \in Jobs : kind[j] \in Transfers /\ Running(j) ~> ~Running(j)

=============================================================================
