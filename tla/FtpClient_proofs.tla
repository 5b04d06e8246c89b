-------------------------- MODULE FtpClient_proofs --------------------------
(***************************************************************************)
(* Proofs about FtpClient, for any number of commands and any length of    *)
(* file.  The heart is SyncInv: what is under way on the control           *)
(* connection is what the running command has asked and not read yet.      *)
(***************************************************************************)
EXTENDS FtpClient, TLAPS

\* A queued command waits once; the one that runs is alone, at a step of its
\* own kind; the page waits for its transfer.
TransferSteps ==
  {"size", "pasv", "dial", "open", "data", "final", "drain"}
StepsOf(k) ==
  CASE k = "simple" -> {"simple"}
    [] k \in {"connect", "disconnect"} -> {"quit"}
    [] k \in Transfers -> TransferSteps
    [] OTHER -> {}

QueueInv ==
  /\ \A i \in DOMAIN queue : st[queue[i]] = "queued"
  /\ \A i, k \in DOMAIN queue : queue[i] = queue[k] => i = k

CommandInv ==
  /\ \A j \in Jobs :
       /\ st[j] # "unborn" => kind[j] \in Kinds
       /\ Running(j) => step \in StepsOf(kind[j])
       /\ Running(j) => \A i \in Jobs : Running(i) => i = j
       /\ kind[j] \in Transfers /\ st[j] \in {"queued", "running"} => active = j
  /\ step = "idle" \/ \E j \in Jobs : Running(j)

\* What was announced and is not over is a transfer under way.
BarInv ==
  \A j \in Jobs :
    bar[j] = "started" => Running(j) /\ step \in TransferSteps \ {"size"}

\* While no answer was left unread, what is under way on the control connection
\* is what the running command has asked and not read yet; of "open" it waits
\* for the answer only once it has made the data connection.
ConnInv ==
  /\ conn # "up" => requests = <<>> /\ serving = None
  /\ conn = "none" => replies = <<>> /\ \A j \in Jobs : ~Running(j)

Waiting == IF step = "dial" THEN "open" ELSE step

SyncInv ==
  ~unread =>
    /\ \A i \in DOMAIN requests : Running(requests[i].job)
    /\ \A i \in DOMAIN replies : Running(replies[i].job)
    /\ serving # None => Running(serving)
    /\ requests # <<>> =>
         /\ Len(requests) = 1 /\ requests[1].op = Waiting
         /\ replies = <<>> /\ serving = None
    /\ serving # None =>
         /\ step \in {"dial", "open", "data", "final", "drain"}
         /\ Waiting # "open" => replies = <<>>
         /\ Len(replies) <= 1
         /\ \A i \in DOMAIN replies : replies[i].code = "mark"
    /\ Len(replies) > 1 =>
         /\ Waiting = "open" /\ Len(replies) = 2
         /\ replies[1].code = "mark"

\* The client makes the data connection after it has sent the command, and lets
\* go of it before the closing answer, of an upload only after its last chunk.
ChanInv ==
  \A j \in Jobs :
    /\ st[j] \in {"unborn", "queued"} => chan[j] = "none"
    /\ Running(j) /\ step \in {"size", "pasv", "dial"} => chan[j] = "none"
    /\ Running(j) /\ chan[j] = "ended" => step \in {"final", "drain"}

UploadInv ==
  \A j \in Jobs : kind[j] = "upload" =>
    /\ Running(j) /\ step = "final" => near[j] = Chunks
    /\ ~unread => \A i \in DOMAIN replies :
         replies[i].code = "complete" /\ replies[i].job = j
           => chan[j] = "ended" /\ far[j] = near[j]

\* The `.part` of a download exists only while it moves chunks or ends.
PartInv ==
  \A j \in Jobs :
    /\ j \in partFile => Running(j) /\ kind[j] = "download"
                          /\ step \in {"data", "final", "drain"}
    /\ j \in saved => Over(j)
    /\ st[j] \in {"unborn", "queued"} => near[j] = 0
    /\ Running(j) /\ kind[j] = "download" /\ j \notin partFile => near[j] = 0
    /\ Running(j) /\ kind[j] = "download" /\ step = "final" => j \in partFile

\* The server says that a download is complete only if it has sent it in full,
\* over a data connection, and the client then has it in full, unless the data
\* connection was cut.
NotComplete(j) ==
  \A n \in DOMAIN replies :
    replies[n].job = j => replies[n].code # "complete"

DownloadInv ==
  ~unread => \A j \in Jobs : kind[j] = "download" /\ Running(j) =>
    /\ chan[j] = "eof" => far[j] = Chunks
    /\ chan[j] \in {"none", "open", "cut"} => NotComplete(j)
    /\ chan[j] = "cut" \/ (step = "final" /\ near[j] # Chunks)
         => requests = <<>> /\ serving # j /\ NotComplete(j)

IInv ==
  /\ TypeOK /\ QueueInv /\ CommandInv /\ BarInv /\ TokensInFlight
  /\ ConnInv /\ SyncInv /\ ChanInv /\ UploadInv /\ PartInv /\ DownloadInv

-----------------------------------------------------------------------------
(* The types.                                                              *)

LEMMA EmptyTyped == ASSUME NEW S PROVE <<>> \in Seq(S)
OBVIOUS

LEMMA TailTyped ==
  ASSUME NEW S, NEW s \in Seq(S), s # <<>>
  PROVE  Head(s) \in S /\ Tail(s) \in Seq(S)
OBVIOUS

LEMMA RequestsTyped ==
  ASSUME NEW j \in Jobs, requests \in Seq(Requests),
         NEW op \in {"simple", "quit", "size", "pasv", "open"}
  PROVE  Append(requests, Request(op, j)) \in Seq(Requests)
BY DEF Requests, Request

LEMMA RepliesTyped ==
  ASSUME NEW j \in Jobs, replies \in Seq(Answers),
         NEW code \in {"ok", "port", "mark", "complete", "failed"}
  PROVE  Append(replies, Answer(code, j)) \in Seq(Answers)
BY DEF Answers, Answer

\* Each step keeps the types.
LEMMA TypeNext == TypeOK /\ [Next]_vars => TypeOK'
<1> SUFFICES ASSUME TypeOK, [Next]_vars PROVE TypeOK'
  OBVIOUS
<1> USE DEF TypeOK
<1>1. ASSUME NEW j \in Jobs, NEW k \in Kinds, Issue(j, k) PROVE TypeOK'
  <2>1. CommandsTyped'
    BY <1>1 DEF Issue, Kinds, CommandsTyped
  <2>2. ControlTyped'
    BY <1>1 DEF Issue, control, ControlTyped
  <2>3. DataTyped'
    BY <1>1 DEF Issue, data, disk, DataTyped
  <2>4. PageTyped'
    BY <1>1 DEF Issue, PageTyped
  <2> QED BY <2>1, <2>2, <2>3, <2>4
<1>2. ASSUME NEW j \in Jobs, NotConnected(j) PROVE TypeOK'
  <2>1. CommandsTyped'
    BY <1>2, TailTyped DEF NotConnected, Granted, Running, Skip, Outcomes,
         CommandsTyped
  <2>2. ControlTyped'
    BY <1>2 DEF NotConnected, control, ControlTyped
  <2>3. DataTyped'
    BY <1>2 DEF NotConnected, data, disk, DataTyped
  <2>4. PageTyped'
    BY <1>2 DEF NotConnected, cancels, PageTyped
  <2> QED BY <2>1, <2>2, <2>3, <2>4
<1>3. ASSUME NEW j \in Jobs, BeginUpload(j) PROVE TypeOK'
  <2>1. CommandsTyped'
    BY <1>3, TailTyped DEF BeginUpload, Granted, Running, Enter, CommandsTyped
  <2>2. ControlTyped'
    BY <1>3, RequestsTyped DEF BeginUpload, Ask, ControlTyped
  <2>3. DataTyped'
    BY <1>3 DEF BeginUpload, data, disk, DataTyped
  <2>4. PageTyped'
    BY <1>3 DEF BeginUpload, Tell, PageTyped
  <2> QED BY <2>1, <2>2, <2>3, <2>4
<1>4. ASSUME NEW j \in Jobs, NoSource(j) PROVE TypeOK'
  <2>1. CommandsTyped'
    BY <1>4, TailTyped DEF NoSource, Granted, Running, Skip, Outcomes,
         CommandsTyped
  <2>2. ControlTyped'
    BY <1>4 DEF NoSource, control, ControlTyped
  <2>3. DataTyped'
    BY <1>4 DEF NoSource, data, disk, DataTyped
  <2>4. PageTyped'
    BY <1>4 DEF NoSource, PageTyped
  <2> QED BY <2>1, <2>2, <2>3, <2>4
<1>5. ASSUME NEW j \in Jobs, BeginDownload(j) PROVE TypeOK'
  <2>1. CommandsTyped'
    BY <1>5, TailTyped DEF BeginDownload, Granted, Running, Enter,
         CommandsTyped
  <2>2. ControlTyped'
    BY <1>5, RequestsTyped DEF BeginDownload, Ask, ControlTyped
  <2>3. DataTyped'
    BY <1>5 DEF BeginDownload, data, disk, DataTyped
  <2>4. PageTyped'
    BY <1>5 DEF BeginDownload, PageTyped
  <2> QED BY <2>1, <2>2, <2>3, <2>4
<1>6. ASSUME NEW j \in Jobs, BeginSimple(j) PROVE TypeOK'
  <2>1. CommandsTyped'
    BY <1>6, TailTyped DEF BeginSimple, Granted, Running, Enter, CommandsTyped
  <2>2. ControlTyped'
    BY <1>6, RequestsTyped DEF BeginSimple, Ask, ControlTyped
  <2>3. DataTyped'
    BY <1>6 DEF BeginSimple, data, disk, DataTyped
  <2>4. PageTyped'
    BY <1>6 DEF BeginSimple, cancels, PageTyped
  <2> QED BY <2>1, <2>2, <2>3, <2>4
<1>7. ASSUME NEW j \in Jobs, BeginConnect(j) PROVE TypeOK'
  <2>1. CommandsTyped'
    BY <1>7, TailTyped DEF BeginConnect, Granted, Running, Skip, Outcomes,
         CommandsTyped
  <2>2. ControlTyped'
    BY <1>7, EmptyTyped DEF BeginConnect, Fresh, ControlTyped
  <2>3. DataTyped'
    BY <1>7 DEF BeginConnect, data, disk, DataTyped
  <2>4. PageTyped'
    BY <1>7 DEF BeginConnect, cancels, PageTyped
  <2> QED BY <2>1, <2>2, <2>3, <2>4
<1>8. ASSUME NEW j \in Jobs, BeginQuit(j) PROVE TypeOK'
  <2>1. CommandsTyped'
    BY <1>8, TailTyped DEF BeginQuit, Granted, Running, Enter, CommandsTyped
  <2>2. ControlTyped'
    BY <1>8, RequestsTyped DEF BeginQuit, Ask, ControlTyped
  <2>3. DataTyped'
    BY <1>8 DEF BeginQuit, data, disk, DataTyped
  <2>4. PageTyped'
    BY <1>8 DEF BeginQuit, cancels, PageTyped
  <2> QED BY <2>1, <2>2, <2>3, <2>4
<1>9. ASSUME NEW j \in Jobs, SimpleAnswered(j) PROVE TypeOK'
  <2>1. CommandsTyped'
    BY <1>9 DEF SimpleAnswered, At, Running, Settle, Outcomes, CommandsTyped
  <2>2. ControlTyped'
    BY <1>9, TailTyped DEF SimpleAnswered, Read, Answered, Take, ReadOther,
         Dead, ControlTyped
  <2>3. DataTyped'
    BY <1>9 DEF SimpleAnswered, data, disk, DataTyped
  <2>4. PageTyped'
    BY <1>9 DEF SimpleAnswered, cancels, PageTyped
  <2> QED BY <2>1, <2>2, <2>3, <2>4
<1>35. ASSUME NEW j \in Jobs, ListingFails(j) PROVE TypeOK'
  <2>1. CommandsTyped'
    BY <1>35 DEF ListingFails, At, Running, Settle, Outcomes, CommandsTyped
  <2>2. ControlTyped'
    BY <1>35 DEF ListingFails, ControlTyped
  <2>3. DataTyped'
    BY <1>35 DEF ListingFails, data, disk, DataTyped
  <2>4. PageTyped'
    BY <1>35 DEF ListingFails, cancels, PageTyped
  <2> QED BY <2>1, <2>2, <2>3, <2>4
<1>10. ASSUME NEW j \in Jobs, QuitAnswered(j) PROVE TypeOK'
  <2>1. CommandsTyped'
    BY <1>10 DEF QuitAnswered, At, Running, Settle, Outcomes, CommandsTyped
  <2>2. ControlTyped'
    BY <1>10, EmptyTyped DEF QuitAnswered, Dead, Fresh, Answered, ControlTyped
  <2>3. DataTyped'
    BY <1>10 DEF QuitAnswered, data, disk, DataTyped
  <2>4. PageTyped'
    BY <1>10 DEF QuitAnswered, cancels, PageTyped
  <2> QED BY <2>1, <2>2, <2>3, <2>4
<1>11. ASSUME NEW j \in Jobs, SizeAnswered(j) PROVE TypeOK'
  <2>1. CommandsTyped'
    BY <1>11 DEF SizeAnswered, At, Running, commands, CommandsTyped
  <2>2. ControlTyped'
    BY <1>11, TailTyped, RequestsTyped DEF SizeAnswered, Take, Dead, Ask,
         ControlTyped
  <2>3. DataTyped'
    BY <1>11 DEF SizeAnswered, data, disk, DataTyped
  <2>4. PageTyped'
    BY <1>11 DEF SizeAnswered, Tell, cancels, PageTyped
  <2> QED BY <2>1, <2>2, <2>3, <2>4
<1>12. ASSUME NEW j \in Jobs, PortAnswered(j) PROVE TypeOK'
  <2>1. CommandsTyped'
    BY <1>12 DEF PortAnswered, At, Running, commands, CommandsTyped
  <2>2. ControlTyped'
    BY <1>12, TailTyped, RequestsTyped DEF PortAnswered, Read, Answered, Take,
         Ask, ControlTyped
  <2>3. DataTyped'
    BY <1>12 DEF PortAnswered, data, disk, DataTyped
  <2>4. PageTyped'
    BY <1>12 DEF PortAnswered, cancels, PageTyped
  <2> QED BY <2>1, <2>2, <2>3, <2>4
<1>13. ASSUME NEW j \in Jobs, OpenAnswered(j) PROVE TypeOK'
  <2>1. CommandsTyped'
    BY <1>13 DEF OpenAnswered, At, Running, commands, CommandsTyped
  <2>2. ControlTyped'
    BY <1>13, TailTyped DEF OpenAnswered, Read, Answered, Take, ControlTyped
  <2>3. DataTyped'
    BY <1>13 DEF OpenAnswered, data, disk, DataTyped
  <2>4. PageTyped'
    BY <1>13 DEF OpenAnswered, cancels, PageTyped
  <2> QED BY <2>1, <2>2, <2>3, <2>4
<1>14. ASSUME NEW j \in Jobs, OpenFails(j) PROVE TypeOK'
  <2>1. CommandsTyped'
    BY <1>14 DEF OpenFails, At, Running, Settle, Outcomes, CommandsTyped
  <2>2. ControlTyped'
    BY <1>14, TailTyped DEF OpenFails, Take, ReadOther, Dead, ControlTyped
  <2>3. DataTyped'
    BY <1>14 DEF OpenFails, HangUp, disk, DataTyped
  <2>4. PageTyped'
    BY <1>14 DEF OpenFails, Tell, cancels, PageTyped
  <2> QED BY <2>1, <2>2, <2>3, <2>4
<1>33. ASSUME NEW j \in Jobs, Dialled(j) PROVE TypeOK'
  <2>1. CommandsTyped'
    BY <1>33 DEF Dialled, At, Running, commands, CommandsTyped
  <2>2. ControlTyped'
    BY <1>33 DEF Dialled, control, ControlTyped
  <2>3. DataTyped'
    BY <1>33 DEF Dialled, disk, DataTyped
  <2>4. PageTyped'
    BY <1>33 DEF Dialled, cancels, PageTyped
  <2> QED BY <2>1, <2>2, <2>3, <2>4
<1>34. ASSUME NEW j \in Jobs, DialFails(j) PROVE TypeOK'
  <2>1. CommandsTyped'
    BY <1>34 DEF DialFails, At, Running, Settle, Outcomes, CommandsTyped
  <2>2. ControlTyped'
    BY <1>34 DEF DialFails, ControlTyped
  <2>3. DataTyped'
    BY <1>34 DEF DialFails, disk, DataTyped
  <2>4. PageTyped'
    BY <1>34 DEF DialFails, Tell, cancels, PageTyped
  <2> QED BY <2>1, <2>2, <2>3, <2>4
<1>15. ASSUME NEW j \in Jobs, WriteChunk(j) PROVE TypeOK'
  <2>1. CommandsTyped'
    BY <1>15 DEF WriteChunk, Moving, At, Running, commands, CommandsTyped
  <2>2. ControlTyped'
    BY <1>15 DEF WriteChunk, control, ControlTyped
  <2>3. DataTyped'
    BY <1>15, ChunksAssumption DEF WriteChunk, disk, DataTyped
  <2>4. PageTyped'
    BY <1>15 DEF WriteChunk, Moving, cancels, PageTyped
  <2> QED BY <2>1, <2>2, <2>3, <2>4
<1>16. ASSUME NEW j \in Jobs, CreatePart(j) PROVE TypeOK'
  <2>1. CommandsTyped'
    BY <1>16 DEF CreatePart, At, Running, commands, CommandsTyped
  <2>2. ControlTyped'
    BY <1>16 DEF CreatePart, control, ControlTyped
  <2>3. DataTyped'
    BY <1>16 DEF CreatePart, data, DataTyped
  <2>4. PageTyped'
    BY <1>16 DEF CreatePart, cancels, PageTyped
  <2> QED BY <2>1, <2>2, <2>3, <2>4
<1>17. ASSUME NEW j \in Jobs, ReadChunk(j) PROVE TypeOK'
  <2>1. CommandsTyped'
    BY <1>17 DEF ReadChunk, Moving, At, Running, commands, CommandsTyped
  <2>2. ControlTyped'
    BY <1>17 DEF ReadChunk, control, ControlTyped
  <2>3. DataTyped'
    BY <1>17, ChunksAssumption DEF ReadChunk, disk, DataTyped
  <2>4. PageTyped'
    BY <1>17 DEF ReadChunk, Moving, cancels, PageTyped
  <2> QED BY <2>1, <2>2, <2>3, <2>4
<1>18. ASSUME NEW j \in Jobs, LastChunk(j) PROVE TypeOK'
  <2>1. CommandsTyped'
    BY <1>18 DEF LastChunk, Moving, At, Running, commands, CommandsTyped
  <2>2. ControlTyped'
    BY <1>18 DEF LastChunk, control, ControlTyped
  <2>3. DataTyped'
    BY <1>18 DEF LastChunk, HangUp, disk, DataTyped
  <2>4. PageTyped'
    BY <1>18 DEF LastChunk, Moving, cancels, PageTyped
  <2> QED BY <2>1, <2>2, <2>3, <2>4
<1>19. ASSUME NEW j \in Jobs, DataFails(j) PROVE TypeOK'
  <2>1. CommandsTyped'
    BY <1>19 DEF DataFails, Abort, At, Running, commands, CommandsTyped
  <2>2. ControlTyped'
    BY <1>19 DEF DataFails, Abort, control, ControlTyped
  <2>3. DataTyped'
    BY <1>19 DEF DataFails, Abort, HangUp, disk, DataTyped
  <2>4. PageTyped'
    BY <1>19 DEF DataFails, Abort, cancels, PageTyped
  <2> QED BY <2>1, <2>2, <2>3, <2>4
<1>20. ASSUME NEW j \in Jobs, CancelHeard(j) PROVE TypeOK'
  <2>1. CommandsTyped'
    BY <1>20 DEF CancelHeard, Abort, At, Running, commands, CommandsTyped
  <2>2. ControlTyped'
    BY <1>20 DEF CancelHeard, Abort, control, ControlTyped
  <2>3. DataTyped'
    BY <1>20 DEF CancelHeard, Abort, HangUp, disk, DataTyped
  <2>4. PageTyped'
    BY <1>20 DEF CancelHeard, Abort, cancels, PageTyped
  <2> QED BY <2>1, <2>2, <2>3, <2>4
<1>21. ASSUME NEW j \in Jobs, Completed(j) PROVE TypeOK'
  <2>1. CommandsTyped'
    BY <1>21 DEF Completed, At, Running, Settle, Outcomes, CommandsTyped
  <2>2. ControlTyped'
    BY <1>21, TailTyped DEF Completed, Read, Answered, Take, ControlTyped
  <2>3. DataTyped'
    BY <1>21 DEF Completed, data, DataTyped
  <2>4. PageTyped'
    BY <1>21 DEF Completed, Tell, cancels, PageTyped
  <2> QED BY <2>1, <2>2, <2>3, <2>4
<1>22. ASSUME NEW j \in Jobs, NotCompleted(j) PROVE TypeOK'
  <2>1. CommandsTyped'
    BY <1>22 DEF NotCompleted, At, Running, Settle, Outcomes, CommandsTyped
  <2>2. ControlTyped'
    BY <1>22, TailTyped DEF NotCompleted, ReadOther, Take, Read, Answered,
         Dead, ControlTyped
  <2>3. DataTyped'
    BY <1>22 DEF NotCompleted, data, DataTyped
  <2>4. PageTyped'
    BY <1>22 DEF NotCompleted, Tell, cancels, PageTyped
  <2> QED BY <2>1, <2>2, <2>3, <2>4
<1>23. ASSUME NEW j \in Jobs, Drained(j) PROVE TypeOK'
  <2>1. CommandsTyped'
    BY <1>23 DEF Drained, At, Running, Settle, Outcomes, CommandsTyped
  <2>2. ControlTyped'
    BY <1>23, TailTyped DEF Drained, Take, Dead, ControlTyped
  <2>3. DataTyped'
    BY <1>23 DEF Drained, data, DataTyped
  <2>4. PageTyped'
    BY <1>23 DEF Drained, Tell, cancels, PageTyped
  <2> QED BY <2>1, <2>2, <2>3, <2>4
<1>24. ASSUME NEW j \in Jobs, DrainGivesUp(j) PROVE TypeOK'
  <2>1. CommandsTyped'
    BY <1>24 DEF DrainGivesUp, At, Running, Settle, Outcomes, CommandsTyped
  <2>2. ControlTyped'
    BY <1>24 DEF DrainGivesUp, ControlTyped
  <2>3. DataTyped'
    BY <1>24 DEF DrainGivesUp, data, DataTyped
  <2>4. PageTyped'
    BY <1>24 DEF DrainGivesUp, Tell, cancels, PageTyped
  <2> QED BY <2>1, <2>2, <2>3, <2>4
<1>25. ASSUME NEW j \in Jobs, Return(j) PROVE TypeOK'
  <2>1. CommandsTyped'
    BY <1>25 DEF Return, Over, commands, CommandsTyped
  <2>2. ControlTyped'
    BY <1>25 DEF Return, control, ControlTyped
  <2>3. DataTyped'
    BY <1>25 DEF Return, data, disk, DataTyped
  <2>4. PageTyped'
    BY <1>25 DEF Return, PageTyped
  <2> QED BY <2>1, <2>2, <2>3, <2>4
<1>26. ASSUME NEW j \in Jobs, PressCancel(j) PROVE TypeOK'
  <2>1. CommandsTyped'
    BY <1>26 DEF PressCancel, commands, CommandsTyped
  <2>2. ControlTyped'
    BY <1>26 DEF PressCancel, control, ControlTyped
  <2>3. DataTyped'
    BY <1>26 DEF PressCancel, data, disk, DataTyped
  <2>4. PageTyped'
    BY <1>26 DEF PressCancel, PageTyped
  <2> QED BY <2>1, <2>2, <2>3, <2>4
<1>27. ASSUME NEW j \in Jobs, Relay(j) PROVE TypeOK'
  <2>1. CommandsTyped'
    BY <1>27 DEF Relay, commands, CommandsTyped
  <2>2. ControlTyped'
    BY <1>27 DEF Relay, control, ControlTyped
  <2>3. DataTyped'
    BY <1>27, ChunksAssumption DEF Relay, disk, DataTyped
  <2>4. PageTyped'
    BY <1>27 DEF Relay, cancels, PageTyped
  <2> QED BY <2>1, <2>2, <2>3, <2>4
<1>28. ASSUME NEW j \in Jobs, Complete(j) PROVE TypeOK'
  <2>1. CommandsTyped'
    BY <1>28 DEF Complete, CloseTransfer, commands, CommandsTyped
  <2>2. ControlTyped'
    BY <1>28, RepliesTyped DEF Complete, CloseTransfer, Reply, ControlTyped
  <2>3. DataTyped'
    BY <1>28 DEF Complete, CloseTransfer, disk, DataTyped
  <2>4. PageTyped'
    BY <1>28 DEF Complete, CloseTransfer, cancels, PageTyped
  <2> QED BY <2>1, <2>2, <2>3, <2>4
<1>29. ASSUME NEW j \in Jobs, Incomplete(j) PROVE TypeOK'
  <2>1. CommandsTyped'
    BY <1>29 DEF Incomplete, CloseTransfer, commands, CommandsTyped
  <2>2. ControlTyped'
    BY <1>29, RepliesTyped DEF Incomplete, CloseTransfer, Reply, ControlTyped
  <2>3. DataTyped'
    BY <1>29 DEF Incomplete, CloseTransfer, disk, DataTyped
  <2>4. PageTyped'
    BY <1>29 DEF Incomplete, CloseTransfer, cancels, PageTyped
  <2> QED BY <2>1, <2>2, <2>3, <2>4
<1>30. ASSUME Serve PROVE TypeOK'
  <2>1. CommandsTyped'
    BY <1>30 DEF Serve, commands, CommandsTyped
  <2>2. ControlTyped'
    <3> DEFINE r == Head(requests)
    <3>1. r \in Requests /\ requests' \in Seq(Requests)
      BY <1>30, TailTyped DEF Serve, ControlTyped
    <3>2. r.job \in Jobs
      BY <3>1 DEF Requests
    <3>3. replies' \in Seq(Answers)
      BY <1>30, <3>2, RepliesTyped DEF Serve, Reply, Good, ControlTyped
    <3> QED
      BY <1>30, <3>1, <3>2, <3>3 DEF Serve, ControlTyped
  <2>3. DataTyped'
    BY <1>30 DEF Serve, data, disk, DataTyped
  <2>4. PageTyped'
    BY <1>30 DEF Serve, cancels, PageTyped
  <2> QED BY <2>1, <2>2, <2>3, <2>4
<1>31. ASSUME LoseLink PROVE TypeOK'
  <2>1. CommandsTyped'
    BY <1>31 DEF LoseLink, commands, CommandsTyped
  <2>2. ControlTyped'
    BY <1>31 DEF LoseLink, ControlTyped
  <2>3. DataTyped'
    BY <1>31 DEF LoseLink, disk, DataTyped
  <2>4. PageTyped'
    BY <1>31 DEF LoseLink, cancels, PageTyped
  <2> QED BY <2>1, <2>2, <2>3, <2>4
<1>32. CASE UNCHANGED vars
  BY <1>32 DEF vars, commands, control, data, disk, cancels, CommandsTyped,
     ControlTyped, DataTyped, PageTyped
<1> QED BY <1>1, <1>2, <1>3, <1>4, <1>5, <1>6, <1>7, <1>8, <1>9, <1>10, <1>11,
     <1>12, <1>13, <1>14, <1>15, <1>16, <1>17, <1>18, <1>19, <1>20, <1>21,
     <1>22, <1>23, <1>24, <1>25, <1>26, <1>27, <1>28, <1>29, <1>30, <1>31,
     <1>32, <1>33, <1>34, <1>35
     DEF Next, Client, Begin, Transfer, Server

-----------------------------------------------------------------------------
(* The control connection.                                                 *)

LEMMA TailFacts ==
  ASSUME NEW S, NEW s \in Seq(S), s # <<>>
  PROVE  /\ Len(Tail(s)) = Len(s) - 1 /\ Len(s) \in Nat \ {0}
         /\ \A i \in DOMAIN Tail(s) :
              i + 1 \in DOMAIN s /\ Tail(s)[i] = s[i + 1]
         /\ Head(s) = s[1] /\ 1 \in DOMAIN s
         /\ Len(s) = 1 => Tail(s) = <<>>
OBVIOUS

LEMMA AppendFacts ==
  ASSUME NEW S, NEW s \in Seq(S), NEW e
  PROVE  /\ Len(Append(s, e)) = Len(s) + 1 /\ Len(s) \in Nat
         /\ DOMAIN Append(s, e) = DOMAIN s \cup {Len(s) + 1}
         /\ \A i \in DOMAIN s : Append(s, e)[i] = s[i]
         /\ Append(s, e)[Len(s) + 1] = e
         /\ Append(s, e) # <<>>
OBVIOUS

LEMMA NoneNotJob == None \notin Jobs
BY NoneAssumption DEF Jobs

LEMMA ElementsTyped ==
  ASSUME TypeOK
  PROVE  /\ \A i \in DOMAIN requests : requests[i].job \in Jobs
              /\ requests[i].op \in {"simple", "quit", "size", "pasv", "open"}
         /\ \A i \in DOMAIN replies : replies[i].job \in Jobs
<1>1. \A S : \A s \in Seq(S) : \A i \in DOMAIN s : s[i] \in S
  OBVIOUS
<1>2. /\ \A i \in DOMAIN requests : requests[i] \in Requests
      /\ \A i \in DOMAIN replies : replies[i] \in Answers
  BY <1>1 DEF TypeOK, ControlTyped
<1> QED BY <1>2 DEF Requests, Answers

\* A command that is granted the mutex finds nothing under way.
LEMMA GrantedFacts ==
  ASSUME IInv, NEW j \in Jobs, Granted(j)
  PROVE  /\ queue # <<>> /\ queue \in Seq(Jobs)
         /\ st[j] = "queued" /\ chan[j] = "none"
         /\ kind[j] \in Kinds /\ kind[j] \in Transfers => active = j
         /\ step = "idle"
         /\ ~unread => requests = <<>> /\ replies = <<>> /\ serving = None
<1>1. queue # <<>> /\ queue \in Seq(Jobs) /\ j = queue[1] /\ 1 \in DOMAIN queue
  BY TailFacts DEF IInv, TypeOK, CommandsTyped, Granted
<1>2. st[j] = "queued"
  BY <1>1 DEF IInv, QueueInv
<1>3. step = "idle" /\ \A i \in Jobs : ~Running(i)
  BY DEF Granted, IInv, CommandInv
<1>4. chan[j] = "none" /\ kind[j] \in Kinds
      /\ (kind[j] \in Transfers => active = j)
  BY <1>2 DEF IInv, ChanInv, CommandInv
<1>5. ASSUME ~unread
      PROVE  requests = <<>> /\ replies = <<>> /\ serving = None
  <2>1. requests \in Seq(Requests) /\ replies \in Seq(Answers)
        /\ serving \in Jobs \cup {None}
    BY DEF IInv, TypeOK, ControlTyped
  <2>4. DOMAIN requests = {} /\ DOMAIN replies = {} /\ serving = None
    BY <1>3, <1>5, <2>1, ElementsTyped DEF IInv, SyncInv
  <2> QED BY <2>1, <2>4
<1> QED BY <1>1, <1>2, <1>3, <1>4, <1>5

\* An answer that the running command reads was its own, and the last it had
\* to expect, but for the mark that opens a transfer.
LEMMA AnswerFacts ==
  ASSUME IInv, NEW j \in Jobs, Running(j), ~unread, replies # <<>>,
         step # "dial", step # "open" \/ Head(replies).code # "mark"
  PROVE  /\ Tail(replies) = <<>> /\ requests = <<>> /\ serving = None
         /\ Head(replies) = replies[1] /\ replies[1].job = j
         /\ 1 \in DOMAIN replies
<1>1. replies \in Seq(Answers) /\ serving \in Jobs \cup {None}
  BY DEF IInv, TypeOK, ControlTyped
<1>2. Len(replies) \in Nat \ {0} /\ 1 \in DOMAIN replies
      /\ Head(replies) = replies[1]
  BY <1>1, TailFacts
<1>3. requests = <<>>
  BY DEF IInv, SyncInv
<1>4. serving = None
  BY <1>2 DEF IInv, SyncInv, Waiting
<1>5. Len(replies) = 1
  <2>1. Len(replies) > 1 => step = "open" /\ replies[1].code = "mark"
    BY DEF IInv, SyncInv, Waiting
  <2>2. ~(Len(replies) > 1)
    BY <1>2, <2>1
  <2>3. Len(replies) \in Nat /\ Len(replies) # 0
    BY <1>2
  <2>4. \A n \in Nat : n # 0 /\ ~(n > 1) => n = 1
    OBVIOUS
  <2> QED BY <2>2, <2>3, <2>4, Zenon
<1>6. Tail(replies) = <<>>
  BY <1>1, <1>5, TailFacts
<1>7. replies[1].job = j
  BY <1>2, ElementsTyped DEF IInv, SyncInv, CommandInv
<1> QED BY <1>2, <1>3, <1>4, <1>6, <1>7

\* The running command asks, with nothing else under way.
LEMMA AskKeepsSync ==
  ASSUME NEW j \in Jobs, NEW op, requests \in Seq(Requests),
         st'[j] = "running", Waiting' = op, unread' = unread,
         requests' = IF conn = "up" THEN Append(requests, Request(op, j))
                                    ELSE requests,
         ~unread => requests = <<>> /\ replies' = <<>> /\ serving' = None
  PROVE  SyncInv'
<1> SUFFICES ASSUME ~unread PROVE SyncInv'
  BY DEF SyncInv
<1>1. Len(Append(requests, Request(op, j))) = 1
      /\ Append(requests, Request(op, j))[1] = Request(op, j)
      /\ DOMAIN Append(requests, Request(op, j)) = {1}
  BY AppendFacts
<1>2. requests' # <<>> =>
        /\ Len(requests') = 1 /\ requests'[1] = Request(op, j)
        /\ DOMAIN requests' = {1}
  BY <1>1
<1>3. DOMAIN requests' = {} \/ requests' # <<>>
  OBVIOUS
<1> QED BY <1>2, <1>3 DEF SyncInv, Running, Request

\* Nothing but the closing answer is under way once the mark was read.
LEMMA MoveKeepsSync ==
  ASSUME IInv, step = "data", step' \in {"final", "drain"},
         UNCHANGED <<st, requests, replies, serving, unread>>
  PROVE  SyncInv'
<1> SUFFICES ASSUME ~unread PROVE SyncInv'
  BY DEF SyncInv
<1>1. requests = <<>>
  <2>1. SUFFICES ASSUME requests # <<>> PROVE FALSE
    OBVIOUS
  <2>2. requests[1].op = step /\ 1 \in DOMAIN requests
    BY <2>1 DEF IInv, SyncInv, Waiting
  <2> QED BY <2>2, ElementsTyped DEF IInv
<1>2. Len(replies) <= 1 /\ (serving # None => replies = <<>>)
  BY DEF IInv, SyncInv, Waiting, TypeOK, ControlTyped
<1>3. replies \in Seq(Answers)
  BY DEF IInv, TypeOK, ControlTyped
<1> QED BY <1>1, <1>2, <1>3 DEF IInv, SyncInv, Waiting, Running

\* The closing answer.
LEMMA CloseKeepsSync ==
  ASSUME IInv, NEW j \in Jobs, NEW code, serving = j, serving' = None,
         replies' = Append(replies, Answer(code, j)),
         UNCHANGED <<st, step, requests, unread>>
  PROVE  SyncInv'
<1> SUFFICES ASSUME ~unread PROVE SyncInv'
  BY DEF SyncInv
<1>1. replies \in Seq(Answers)
  BY DEF IInv, TypeOK, ControlTyped
<1>2. serving # None
  BY NoneNotJob
<1>3. Running(j) /\ requests = <<>> /\ Len(replies) <= 1
      /\ (Waiting # "open" => replies = <<>>)
      /\ \A i \in DOMAIN replies : replies[i].code = "mark"
  BY <1>2 DEF IInv, SyncInv
<1>4. /\ Len(replies') = Len(replies) + 1 /\ Len(replies) \in Nat
      /\ DOMAIN replies' = DOMAIN replies \cup {Len(replies) + 1}
      /\ \A i \in DOMAIN replies : replies'[i] = replies[i]
      /\ replies'[Len(replies) + 1] = Answer(code, j)
  BY <1>1, AppendFacts
<1>5. \A i \in DOMAIN replies' : Running(replies'[i].job)
  BY <1>3, <1>4 DEF IInv, SyncInv, Answer
<1>6. Len(replies') > 1 =>
        Waiting = "open" /\ Len(replies') = 2 /\ replies'[1].code = "mark"
  BY <1>1, <1>3, <1>4
<1> QED BY <1>3, <1>5, <1>6 DEF SyncInv, Waiting, Running

-----------------------------------------------------------------------------
\* Each step keeps the inductive invariant.
LEMMA InvNext == IInv /\ [Next]_vars => IInv'
<1> SUFFICES ASSUME IInv, [Next]_vars PROVE IInv'
  OBVIOUS
<1>0. TypeOK /\ TypeOK'
  BY TypeNext DEF IInv
<1> USE NoneNotJob DEF IInv
<1>1. ASSUME NEW j \in Jobs, NEW k \in Kinds, Issue(j, k) PROVE IInv'
  <2>1. QueueInv'
    BY <1>1, AppendFacts DEF Issue, QueueInv, Running, CommandsTyped, TypeOK
  <2>2. CommandInv'
    BY <1>1 DEF Issue, CommandInv, QueueInv, StepsOf, TransferSteps,
         Transfers, Kinds, Running, CommandsTyped, TypeOK
  <2>3. BarInv'
    BY <1>1 DEF Issue, BarInv, CommandInv, StepsOf, TransferSteps, Transfers,
         Kinds, Running, CommandsTyped, PageTyped, TypeOK
  <2>4. TokensInFlight'
    BY <1>1 DEF Issue, TokensInFlight, CommandInv, Over, Outcomes, Transfers,
         Running, CommandsTyped, PageTyped, TypeOK
  <2>5. ConnInv'
    BY <1>1 DEF Issue, control, ConnInv, CommandInv, CommandsTyped, Running,
         ControlTyped, TypeOK
  <2>6. SyncInv'
    BY <1>1, AppendFacts DEF Issue, control, SyncInv, Waiting, ConnInv,
       CommandInv, Running, ControlTyped, CommandsTyped, TypeOK
  <2>7. ChanInv'
    BY <1>1 DEF Issue, data, ChanInv, CommandInv, Running, DataTyped,
         CommandsTyped, TypeOK
  <2>8. PartInv'
    BY <1>1 DEF Issue, data, disk, PartInv, CommandInv, Over, Outcomes,
         StepsOf, TransferSteps, Transfers, Running, DataTyped, CommandsTyped,
         TypeOK
  <2>9. DownloadInv'
    BY <1>1, AppendFacts DEF Issue, control, data, DownloadInv, NotComplete,
         ChanInv, SyncInv, Waiting, CommandInv, PartInv, ConnInv, StepsOf,
         TransferSteps, Transfers, Running, DataTyped, ControlTyped,
         CommandsTyped, TypeOK
  <2>10. UploadInv'
    BY <1>1, AppendFacts DEF Issue, control, data, UploadInv, ChanInv, SyncInv,
       Waiting, CommandInv, Running, DataTyped, ControlTyped, CommandsTyped,
       TypeOK
  <2> QED BY <1>0, <2>1, <2>2, <2>3, <2>4, <2>5, <2>6, <2>7, <2>8, <2>9, <2>10
<1>2. ASSUME NEW j \in Jobs, NotConnected(j) PROVE IInv'
  <2>1. QueueInv'
    BY <1>2, TailFacts DEF NotConnected, Granted, Running, Skip, QueueInv,
         CommandsTyped, TypeOK
  <2>2. CommandInv'
    BY <1>2, GrantedFacts DEF NotConnected, Granted, Running, Skip, cancels,
         CommandInv, QueueInv, StepsOf, TransferSteps, Transfers, Kinds,
         CommandsTyped, TypeOK
  <2>3. BarInv'
    BY <1>2 DEF NotConnected, Granted, Running, Skip, BarInv, CommandInv,
         StepsOf, TransferSteps, Transfers, Kinds, CommandsTyped, PageTyped,
         TypeOK
  <2>4. TokensInFlight'
    BY <1>2, GrantedFacts DEF NotConnected, Granted, Running, Skip, cancels,
         TokensInFlight, CommandInv, Over, Outcomes, Transfers, CommandsTyped,
         PageTyped, TypeOK
  <2>5. ConnInv'
    BY <1>2 DEF NotConnected, Granted, Running, Skip, control, ConnInv,
         CommandInv, CommandsTyped, ControlTyped, TypeOK
  <2>6. SyncInv'
    BY <1>2, GrantedFacts, TailFacts DEF NotConnected, Granted, Running, Skip,
       control, SyncInv, Waiting, ConnInv, CommandInv, ControlTyped,
       CommandsTyped, TypeOK
  <2>7. ChanInv'
    BY <1>2, GrantedFacts DEF NotConnected, Granted, Running, Skip, data,
         ChanInv, CommandInv, DataTyped, CommandsTyped, TypeOK
  <2>8. PartInv'
    BY <1>2, GrantedFacts DEF NotConnected, Granted, Running, Skip, data,
         disk, PartInv, CommandInv, Over, Outcomes, StepsOf, TransferSteps,
         Transfers, DataTyped, CommandsTyped, TypeOK
  <2>9. DownloadInv'
    BY <1>2, GrantedFacts, TailFacts DEF NotConnected, Granted, Running, Skip,
         control, data, DownloadInv, NotComplete, ChanInv, SyncInv, Waiting,
         CommandInv, PartInv, ConnInv, StepsOf, TransferSteps, Transfers,
         DataTyped, ControlTyped, CommandsTyped, TypeOK
  <2>10. UploadInv'
    BY <1>2, TailFacts DEF NotConnected, Granted, Running, Skip, control,
         data, UploadInv, ChanInv, SyncInv, Waiting, CommandInv,
         DataTyped,
         ControlTyped, CommandsTyped, TypeOK
  <2> QED BY <1>0, <2>1, <2>2, <2>3, <2>4, <2>5, <2>6, <2>7, <2>8, <2>9, <2>10
<1>3. ASSUME NEW j \in Jobs, BeginUpload(j) PROVE IInv'
  <2>1. QueueInv'
    BY <1>3, TailFacts, AppendFacts DEF BeginUpload, Granted, Running, Enter,
         QueueInv, CommandsTyped, TypeOK
  <2>2. CommandInv'
    BY <1>3, GrantedFacts DEF BeginUpload, Granted, Running, Enter,
         CommandInv, QueueInv, StepsOf, TransferSteps, Transfers, Kinds,
         CommandsTyped, TypeOK
  <2>3. BarInv'
    BY <1>3 DEF BeginUpload, Granted, Running, Enter, Tell, BarInv,
         CommandInv, StepsOf, TransferSteps, Transfers, Kinds, CommandsTyped,
         PageTyped, TypeOK
  <2>4. TokensInFlight'
    BY <1>3, GrantedFacts DEF BeginUpload, Granted, Running, Enter,
         TokensInFlight, CommandInv, Over, Outcomes, Transfers, CommandsTyped,
         PageTyped, TypeOK
  <2>5. ConnInv'
    BY <1>3 DEF BeginUpload, Granted, Running, Enter, Ask, ConnInv,
         CommandInv, CommandsTyped, ControlTyped, TypeOK
  <2>6. SyncInv'
    <3>1. /\ st'[j] = "running" /\ unread' = unread
          /\ requests' = IF conn = "up"
                          THEN Append(requests, Request(Waiting', j))
                          ELSE requests
          /\ requests \in Seq(Requests)
      BY <1>3 DEF BeginUpload, Granted, Running, Enter, Ask, Waiting, TypeOK,
             CommandsTyped, ControlTyped
    <3>2. ~unread => requests = <<>> /\ replies' = <<>> /\ serving' = None
      BY <1>3, GrantedFacts DEF BeginUpload, Granted, Running, Enter, Ask
    <3> QED BY <3>1, <3>2, AskKeepsSync
  <2>7. ChanInv'
    BY <1>3, GrantedFacts DEF BeginUpload, Granted, Running, Enter, data,
         ChanInv, CommandInv, DataTyped, CommandsTyped, TypeOK
  <2>8. PartInv'
    BY <1>3, GrantedFacts DEF BeginUpload, Granted, Running, Enter, data,
         disk, PartInv, CommandInv, Over, Outcomes, StepsOf, TransferSteps,
         Transfers, DataTyped, CommandsTyped, TypeOK
  <2>9. DownloadInv'
    BY <1>3, GrantedFacts, TailFacts, AppendFacts DEF BeginUpload, Granted,
         Running, Enter, Ask, data, DownloadInv, NotComplete, ChanInv,
         SyncInv, Waiting, CommandInv, PartInv, ConnInv, StepsOf, TransferSteps,
         Transfers, DataTyped, ControlTyped, CommandsTyped, TypeOK
  <2>10. UploadInv'
    BY <1>3, TailFacts, AppendFacts DEF BeginUpload, Granted, Running, Enter,
         data, UploadInv, ChanInv, SyncInv, Waiting, CommandInv,
         DataTyped,
         ControlTyped, CommandsTyped, TypeOK
  <2> QED BY <1>0, <2>1, <2>2, <2>3, <2>4, <2>5, <2>6, <2>7, <2>8, <2>9, <2>10
<1>4. ASSUME NEW j \in Jobs, NoSource(j) PROVE IInv'
  <2>1. QueueInv'
    BY <1>4, TailFacts DEF NoSource, Granted, Running, Skip, QueueInv,
         CommandsTyped, TypeOK
  <2>2. CommandInv'
    BY <1>4, GrantedFacts DEF NoSource, Granted, Running, Skip, CommandInv,
         QueueInv, StepsOf, TransferSteps, Transfers, Kinds, CommandsTyped,
         TypeOK
  <2>3. BarInv'
    BY <1>4 DEF NoSource, Granted, Running, Skip, BarInv, CommandInv, StepsOf,
         TransferSteps, Transfers, Kinds, CommandsTyped, PageTyped, TypeOK
  <2>4. TokensInFlight'
    BY <1>4, GrantedFacts DEF NoSource, Granted, Running, Skip,
         TokensInFlight, CommandInv, Over, Outcomes, Transfers, CommandsTyped,
         PageTyped, TypeOK
  <2>5. ConnInv'
    BY <1>4 DEF NoSource, Granted, Running, Skip, control, ConnInv,
         CommandInv, CommandsTyped, ControlTyped, TypeOK
  <2>6. SyncInv'
    BY <1>4, GrantedFacts, TailFacts DEF NoSource, Granted, Running, Skip,
       control, SyncInv, Waiting, ConnInv, CommandInv, ControlTyped,
       CommandsTyped, TypeOK
  <2>7. ChanInv'
    BY <1>4, GrantedFacts DEF NoSource, Granted, Running, Skip, data, ChanInv,
         CommandInv, DataTyped, CommandsTyped, TypeOK
  <2>8. PartInv'
    BY <1>4, GrantedFacts DEF NoSource, Granted, Running, Skip, data, disk,
         PartInv, CommandInv, Over, Outcomes, StepsOf, TransferSteps,
         Transfers, DataTyped, CommandsTyped, TypeOK
  <2>9. DownloadInv'
    BY <1>4, GrantedFacts, TailFacts DEF NoSource, Granted, Running, Skip,
         control, data, DownloadInv, NotComplete, ChanInv, SyncInv, Waiting,
         CommandInv, PartInv, ConnInv, StepsOf, TransferSteps, Transfers,
         DataTyped, ControlTyped, CommandsTyped, TypeOK
  <2>10. UploadInv'
    BY <1>4, TailFacts DEF NoSource, Granted, Running, Skip, control, data,
       UploadInv, ChanInv, SyncInv, Waiting, CommandInv,
         DataTyped,
       ControlTyped, CommandsTyped, TypeOK
  <2> QED BY <1>0, <2>1, <2>2, <2>3, <2>4, <2>5, <2>6, <2>7, <2>8, <2>9, <2>10
<1>5. ASSUME NEW j \in Jobs, BeginDownload(j) PROVE IInv'
  <2>1. QueueInv'
    BY <1>5, TailFacts, AppendFacts DEF BeginDownload, Granted, Running,
         Enter, QueueInv, CommandsTyped, TypeOK
  <2>2. CommandInv'
    BY <1>5, GrantedFacts DEF BeginDownload, Granted, Running, Enter,
         CommandInv, QueueInv, StepsOf, TransferSteps, Transfers, Kinds,
         CommandsTyped, TypeOK
  <2>3. BarInv'
    BY <1>5 DEF BeginDownload, Granted, Running, Enter, BarInv, CommandInv,
         StepsOf, TransferSteps, Transfers, Kinds, CommandsTyped, PageTyped,
         TypeOK
  <2>4. TokensInFlight'
    BY <1>5, GrantedFacts DEF BeginDownload, Granted, Running, Enter,
         TokensInFlight, CommandInv, Over, Outcomes, Transfers, CommandsTyped,
         PageTyped, TypeOK
  <2>5. ConnInv'
    BY <1>5 DEF BeginDownload, Granted, Running, Enter, Ask, ConnInv,
         CommandInv, CommandsTyped, ControlTyped, TypeOK
  <2>6. SyncInv'
    <3>1. /\ st'[j] = "running" /\ unread' = unread
          /\ requests' = IF conn = "up"
                          THEN Append(requests, Request(Waiting', j))
                          ELSE requests
          /\ requests \in Seq(Requests)
      BY <1>5 DEF BeginDownload, Granted, Running, Enter, Ask, Waiting, TypeOK,
             CommandsTyped, ControlTyped
    <3>2. ~unread => requests = <<>> /\ replies' = <<>> /\ serving' = None
      BY <1>5, GrantedFacts DEF BeginDownload, Granted, Running, Enter, Ask
    <3> QED BY <3>1, <3>2, AskKeepsSync
  <2>7. ChanInv'
    BY <1>5, GrantedFacts DEF BeginDownload, Granted, Running, Enter, data,
         ChanInv, CommandInv, DataTyped, CommandsTyped, TypeOK
  <2>8. PartInv'
    BY <1>5, GrantedFacts DEF BeginDownload, Granted, Running, Enter, data,
         disk, PartInv, CommandInv, Over, Outcomes, StepsOf, TransferSteps,
         Transfers, DataTyped, CommandsTyped, TypeOK
  <2>9. DownloadInv'
    <3>1. ASSUME NEW i \in Jobs, Running(i)' PROVE i = j
      BY <1>5, <3>1 DEF BeginDownload, Granted, Running, Enter, TypeOK,
             CommandsTyped
    <3>2. chan'[j] = "none" /\ step' = "size"
      BY <1>5, GrantedFacts DEF BeginDownload, Enter, data
    <3>3. ~unread => NotComplete(j)'
      BY <1>5, GrantedFacts DEF BeginDownload, NotComplete
    <3> QED BY <1>5, <3>1, <3>2, <3>3 DEF BeginDownload, DownloadInv
  <2>10. UploadInv'
    BY <1>5, TailFacts, AppendFacts DEF BeginDownload, Granted, Running,
         Enter, data, UploadInv, ChanInv, SyncInv, Waiting, CommandInv,
         DataTyped,
         ControlTyped, CommandsTyped, TypeOK
  <2> QED BY <1>0, <2>1, <2>2, <2>3, <2>4, <2>5, <2>6, <2>7, <2>8, <2>9, <2>10
<1>6. ASSUME NEW j \in Jobs, BeginSimple(j) PROVE IInv'
  <2>1. QueueInv'
    BY <1>6, TailFacts, AppendFacts DEF BeginSimple, Granted, Running, Enter,
         QueueInv, CommandsTyped, TypeOK
  <2>2. CommandInv'
    BY <1>6, GrantedFacts DEF BeginSimple, Granted, Running, Enter, cancels,
         CommandInv, QueueInv, StepsOf, TransferSteps, Transfers, Kinds,
         CommandsTyped, TypeOK
  <2>3. BarInv'
    BY <1>6 DEF BeginSimple, Granted, Running, Enter, BarInv, CommandInv,
         StepsOf, TransferSteps, Transfers, Kinds, CommandsTyped, PageTyped,
         TypeOK
  <2>4. TokensInFlight'
    BY <1>6, GrantedFacts DEF BeginSimple, Granted, Running, Enter, cancels,
         TokensInFlight, CommandInv, Over, Outcomes, Transfers, CommandsTyped,
         PageTyped, TypeOK
  <2>5. ConnInv'
    BY <1>6 DEF BeginSimple, Granted, Running, Enter, Ask, ConnInv,
         CommandInv, CommandsTyped, ControlTyped, TypeOK
  <2>6. SyncInv'
    <3>1. /\ st'[j] = "running" /\ unread' = unread
          /\ requests' = IF conn = "up"
                          THEN Append(requests, Request(Waiting', j))
                          ELSE requests
          /\ requests \in Seq(Requests)
      BY <1>6 DEF BeginSimple, Granted, Running, Enter, Ask, Waiting, TypeOK,
             CommandsTyped, ControlTyped
    <3>2. ~unread => requests = <<>> /\ replies' = <<>> /\ serving' = None
      BY <1>6, GrantedFacts DEF BeginSimple, Granted, Running, Enter, Ask
    <3> QED BY <3>1, <3>2, AskKeepsSync
  <2>7. ChanInv'
    BY <1>6, GrantedFacts DEF BeginSimple, Granted, Running, Enter, data,
         ChanInv, CommandInv, DataTyped, CommandsTyped, TypeOK
  <2>8. PartInv'
    BY <1>6, GrantedFacts DEF BeginSimple, Granted, Running, Enter, data,
         disk, PartInv, CommandInv, Over, Outcomes, StepsOf, TransferSteps,
         Transfers, DataTyped, CommandsTyped, TypeOK
  <2>9. DownloadInv'
    <3>1. ASSUME NEW i \in Jobs, kind'[i] = "download" PROVE ~Running(i)'
      BY <1>6, <3>1 DEF BeginSimple, Granted, Running, Enter, CommandInv,
             StepsOf, TypeOK, CommandsTyped
    <3> QED BY <3>1 DEF DownloadInv
  <2>10. UploadInv'
    BY <1>6, TailFacts, AppendFacts DEF BeginSimple, Granted, Running, Enter,
         data, UploadInv, ChanInv, SyncInv, Waiting, CommandInv,
         DataTyped,
         ControlTyped, CommandsTyped, TypeOK
  <2> QED BY <1>0, <2>1, <2>2, <2>3, <2>4, <2>5, <2>6, <2>7, <2>8, <2>9, <2>10
<1>7. ASSUME NEW j \in Jobs, BeginConnect(j) PROVE IInv'
  <2>1. QueueInv'
    BY <1>7, TailFacts DEF BeginConnect, Granted, Running, Skip, QueueInv,
         CommandsTyped, TypeOK
  <2>2. CommandInv'
    BY <1>7, GrantedFacts DEF BeginConnect, Granted, Running, Skip, cancels,
         CommandInv, QueueInv, StepsOf, TransferSteps, Transfers, Kinds,
         CommandsTyped, TypeOK
  <2>3. BarInv'
    BY <1>7 DEF BeginConnect, Granted, Running, Skip, BarInv, CommandInv,
         StepsOf, TransferSteps, Transfers, Kinds, CommandsTyped, PageTyped,
         TypeOK
  <2>4. TokensInFlight'
    BY <1>7, GrantedFacts DEF BeginConnect, Granted, Running, Skip, cancels,
         TokensInFlight, CommandInv, Over, Outcomes, Transfers, CommandsTyped,
         PageTyped, TypeOK
  <2>5. ConnInv'
    BY <1>7 DEF BeginConnect, Granted, Running, Skip, Fresh, ConnInv,
         CommandInv, CommandsTyped, ControlTyped, TypeOK
  <2>6. SyncInv'
    BY <1>7, GrantedFacts, TailFacts DEF BeginConnect, Granted, Running, Skip,
       Fresh, SyncInv, Waiting, ConnInv, CommandInv, ControlTyped,
       CommandsTyped, TypeOK
  <2>7. ChanInv'
    BY <1>7, GrantedFacts DEF BeginConnect, Granted, Running, Skip, data,
         ChanInv, CommandInv, DataTyped, CommandsTyped, TypeOK
  <2>8. PartInv'
    BY <1>7, GrantedFacts DEF BeginConnect, Granted, Running, Skip, data,
         disk, PartInv, CommandInv, Over, Outcomes, StepsOf, TransferSteps,
         Transfers, DataTyped, CommandsTyped, TypeOK
  <2>9. DownloadInv'
    BY <1>7, GrantedFacts, TailFacts DEF BeginConnect, Granted, Running, Skip,
       Fresh, data, DownloadInv, NotComplete, ChanInv, SyncInv, Waiting,
       CommandInv, PartInv, ConnInv, StepsOf, TransferSteps, Transfers,
       DataTyped, ControlTyped, CommandsTyped, TypeOK
  <2>10. UploadInv'
    BY <1>7, TailFacts DEF BeginConnect, Granted, Running, Skip, Fresh, data,
       UploadInv, ChanInv, SyncInv, Waiting, CommandInv,
         DataTyped,
       ControlTyped, CommandsTyped, TypeOK
  <2> QED BY <1>0, <2>1, <2>2, <2>3, <2>4, <2>5, <2>6, <2>7, <2>8, <2>9, <2>10
<1>8. ASSUME NEW j \in Jobs, BeginQuit(j) PROVE IInv'
  <2>1. QueueInv'
    BY <1>8, TailFacts, AppendFacts DEF BeginQuit, Granted, Running, Enter,
         QueueInv, CommandsTyped, TypeOK
  <2>2. CommandInv'
    BY <1>8, GrantedFacts DEF BeginQuit, Granted, Running, Enter, cancels,
         CommandInv, QueueInv, StepsOf, TransferSteps, Transfers, Kinds,
         CommandsTyped, TypeOK
  <2>3. BarInv'
    BY <1>8 DEF BeginQuit, Granted, Running, Enter, BarInv, CommandInv,
         StepsOf, TransferSteps, Transfers, Kinds, CommandsTyped, PageTyped,
         TypeOK
  <2>4. TokensInFlight'
    BY <1>8, GrantedFacts DEF BeginQuit, Granted, Running, Enter, cancels,
         TokensInFlight, CommandInv, Over, Outcomes, Transfers, CommandsTyped,
         PageTyped, TypeOK
  <2>5. ConnInv'
    BY <1>8 DEF BeginQuit, Granted, Running, Enter, Ask, ConnInv, CommandInv,
         CommandsTyped, ControlTyped, TypeOK
  <2>6. SyncInv'
    <3>1. /\ st'[j] = "running" /\ unread' = unread
          /\ requests' = IF conn = "up"
                          THEN Append(requests, Request(Waiting', j))
                          ELSE requests
          /\ requests \in Seq(Requests)
      BY <1>8 DEF BeginQuit, Granted, Running, Enter, Ask, Waiting, TypeOK,
             CommandsTyped, ControlTyped
    <3>2. ~unread => requests = <<>> /\ replies' = <<>> /\ serving' = None
      BY <1>8, GrantedFacts DEF BeginQuit, Granted, Running, Enter, Ask
    <3> QED BY <3>1, <3>2, AskKeepsSync
  <2>7. ChanInv'
    BY <1>8, GrantedFacts DEF BeginQuit, Granted, Running, Enter, data,
         ChanInv, CommandInv, DataTyped, CommandsTyped, TypeOK
  <2>8. PartInv'
    BY <1>8, GrantedFacts DEF BeginQuit, Granted, Running, Enter, data, disk,
         PartInv, CommandInv, Over, Outcomes, StepsOf, TransferSteps,
         Transfers, DataTyped, CommandsTyped, TypeOK
  <2>9. DownloadInv'
    BY <1>8, GrantedFacts, TailFacts, AppendFacts DEF BeginQuit, Granted,
         Running, Enter, Ask, data, DownloadInv, NotComplete, ChanInv,
         SyncInv, Waiting, CommandInv, PartInv, ConnInv, StepsOf, TransferSteps,
         Transfers, DataTyped, ControlTyped, CommandsTyped, TypeOK
  <2>10. UploadInv'
    BY <1>8, TailFacts, AppendFacts DEF BeginQuit, Granted, Running, Enter,
         data, UploadInv, ChanInv, SyncInv, Waiting, CommandInv,
         DataTyped,
         ControlTyped, CommandsTyped, TypeOK
  <2> QED BY <1>0, <2>1, <2>2, <2>3, <2>4, <2>5, <2>6, <2>7, <2>8, <2>9, <2>10
<1>9. ASSUME NEW j \in Jobs, SimpleAnswered(j) PROVE IInv'
  <2>1. QueueInv'
    BY <1>9, TailFacts DEF SimpleAnswered, At, Running, Settle, QueueInv,
         CommandsTyped, TypeOK
  <2>2. CommandInv'
    BY <1>9 DEF SimpleAnswered, At, Running, Settle, cancels, CommandInv,
         QueueInv, StepsOf, TransferSteps, Transfers, Kinds, CommandsTyped,
         TypeOK
  <2>3. BarInv'
    BY <1>9 DEF SimpleAnswered, At, Running, Settle, BarInv, CommandInv,
         StepsOf, TransferSteps, Transfers, Kinds, CommandsTyped, PageTyped,
         TypeOK
  <2>4. TokensInFlight'
    BY <1>9 DEF SimpleAnswered, At, Running, Settle, cancels, TokensInFlight,
         CommandInv, Over, Outcomes, Transfers, CommandsTyped, PageTyped,
         TypeOK
  <2>5. ConnInv'
    BY <1>9 DEF SimpleAnswered, At, Running, Read, Answered, Take, Settle,
         ReadOther, Dead, ConnInv, CommandInv, CommandsTyped, ControlTyped,
         TypeOK
  <2>6. SyncInv'
    BY <1>9, AnswerFacts, TailFacts DEF SimpleAnswered, At, Running, Read,
         Answered, Take, Settle, ReadOther, Dead, SyncInv, Waiting, ConnInv,
         CommandInv, ControlTyped, CommandsTyped, TypeOK
  <2>7. ChanInv'
    BY <1>9 DEF SimpleAnswered, At, Running, Settle, data, ChanInv,
         CommandInv, DataTyped, CommandsTyped, TypeOK
  <2>8. PartInv'
    BY <1>9 DEF SimpleAnswered, At, Running, Settle, data, disk, PartInv,
         CommandInv, Over, Outcomes, StepsOf, TransferSteps, Transfers,
         DataTyped, CommandsTyped, TypeOK
  <2>9. DownloadInv'
    <3>1. ASSUME NEW i \in Jobs, kind'[i] = "download" PROVE ~Running(i)'
      BY <1>9, <3>1 DEF SimpleAnswered, At, Running, Settle, CommandInv,
             StepsOf, TypeOK, CommandsTyped
    <3> QED BY <3>1 DEF DownloadInv
  <2>10. UploadInv'
    BY <1>9, AnswerFacts, TailFacts DEF SimpleAnswered, At, Running, Read,
       Answered, Take, Settle, ReadOther, Dead, data, UploadInv, ChanInv,
       SyncInv, Waiting, CommandInv, DataTyped, ControlTyped, CommandsTyped,
       TypeOK
  <2> QED BY <1>0, <2>1, <2>2, <2>3, <2>4, <2>5, <2>6, <2>7, <2>8, <2>9, <2>10
<1>35. ASSUME NEW j \in Jobs, ListingFails(j) PROVE IInv'
  <2>1. QueueInv'
    BY <1>35 DEF ListingFails, At, Running, Settle, QueueInv, CommandsTyped,
         TypeOK
  <2>2. CommandInv'
    BY <1>35 DEF ListingFails, At, Running, Settle, cancels, CommandInv,
         QueueInv, StepsOf, TransferSteps, Transfers, Kinds, CommandsTyped,
         TypeOK
  <2>3. BarInv'
    BY <1>35 DEF ListingFails, At, Running, Settle, BarInv, CommandInv,
         StepsOf, TransferSteps, Transfers, Kinds, CommandsTyped, PageTyped,
         TypeOK
  <2>4. TokensInFlight'
    BY <1>35 DEF ListingFails, At, Running, Settle, cancels, TokensInFlight,
         CommandInv, Over, Outcomes, Transfers, CommandsTyped, PageTyped,
         TypeOK
  <2>5. ConnInv'
    BY <1>35 DEF ListingFails, At, Running, Settle, ConnInv, CommandInv,
         CommandsTyped, ControlTyped, TypeOK
  <2>6. SyncInv' /\ DownloadInv'
    BY <1>35 DEF ListingFails, SyncInv, DownloadInv
  <2>7. ChanInv'
    BY <1>35 DEF ListingFails, At, Running, Settle, data, ChanInv, CommandInv,
         DataTyped, CommandsTyped, TypeOK
  <2>8. PartInv'
    BY <1>35 DEF ListingFails, At, Running, Settle, data, disk, PartInv,
         CommandInv, Over, Outcomes, StepsOf, TransferSteps, Transfers,
         DataTyped, CommandsTyped, TypeOK
  <2>9. UploadInv'
    BY <1>35 DEF ListingFails, At, Running, Settle, UploadInv, data,
         CommandsTyped, TypeOK
  <2> QED BY <1>0, <2>1, <2>2, <2>3, <2>4, <2>5, <2>6, <2>7, <2>8, <2>9
<1>10. ASSUME NEW j \in Jobs, QuitAnswered(j) PROVE IInv'
  <2>1. QueueInv'
    BY <1>10 DEF QuitAnswered, At, Running, Settle, QueueInv, CommandsTyped,
         TypeOK
  <2>2. CommandInv'
    BY <1>10 DEF QuitAnswered, At, Running, Settle, cancels, CommandInv,
         QueueInv, StepsOf, TransferSteps, Transfers, Kinds, CommandsTyped,
         TypeOK
  <2>3. BarInv'
    BY <1>10 DEF QuitAnswered, At, Running, Settle, BarInv, CommandInv,
         StepsOf, TransferSteps, Transfers, Kinds, CommandsTyped, PageTyped,
         TypeOK
  <2>4. TokensInFlight'
    BY <1>10 DEF QuitAnswered, At, Running, Settle, cancels, TokensInFlight,
         CommandInv, Over, Outcomes, Transfers, CommandsTyped, PageTyped,
         TypeOK
  <2>5. ConnInv'
    BY <1>10 DEF QuitAnswered, At, Running, Dead, Fresh, Settle, Answered,
         ConnInv, CommandInv, CommandsTyped, ControlTyped, TypeOK
  <2>6. SyncInv'
    BY <1>10 DEF QuitAnswered, At, Running, Dead, Fresh, Settle, Answered,
       SyncInv, Waiting, ConnInv, CommandInv, ControlTyped, CommandsTyped,
       TypeOK
  <2>7. ChanInv'
    BY <1>10 DEF QuitAnswered, At, Running, Settle, data, ChanInv, CommandInv,
         DataTyped, CommandsTyped, TypeOK
  <2>8. PartInv'
    BY <1>10 DEF QuitAnswered, At, Running, Settle, data, disk, PartInv,
         CommandInv, Over, Outcomes, StepsOf, TransferSteps, Transfers,
         DataTyped, CommandsTyped, TypeOK
  <2>9. DownloadInv'
    BY <1>10 DEF QuitAnswered, At, Running, Dead, Fresh, Settle, Answered,
         data, DownloadInv, NotComplete, ChanInv, SyncInv, Waiting, CommandInv,
         PartInv, ConnInv, StepsOf, TransferSteps, Transfers, DataTyped,
         ControlTyped, CommandsTyped, TypeOK
  <2>10. UploadInv'
    BY <1>10 DEF QuitAnswered, At, Running, Dead, Fresh, Settle, Answered,
         data, UploadInv, ChanInv, SyncInv, Waiting, CommandInv,
         DataTyped,
         ControlTyped, CommandsTyped, TypeOK
  <2> QED BY <1>0, <2>1, <2>2, <2>3, <2>4, <2>5, <2>6, <2>7, <2>8, <2>9, <2>10
<1>11. ASSUME NEW j \in Jobs, SizeAnswered(j) PROVE IInv'
  <2>1. UNCHANGED <<st, queue, registered, active>>
    BY <1>11 DEF SizeAnswered, At, Running, commands, cancels
  <2>2. QueueInv' /\ TokensInFlight'
    BY <2>1 DEF QueueInv, TokensInFlight, Running, Over
  <2>3. CommandInv'
    BY <1>11 DEF SizeAnswered, At, Running, commands, cancels, CommandInv,
         QueueInv, StepsOf, TransferSteps, Transfers, Kinds, CommandsTyped,
         TypeOK
  <2>4. BarInv'
    BY <1>11 DEF SizeAnswered, At, Running, Tell, commands, BarInv,
         CommandInv, StepsOf, TransferSteps, Transfers, Kinds, CommandsTyped,
         PageTyped, TypeOK
  <2>5. ConnInv'
    BY <1>11 DEF SizeAnswered, At, Running, Take, Dead, Ask, commands,
         ConnInv, CommandInv, CommandsTyped, ControlTyped, TypeOK
  <2>6. SyncInv'
    <3>1. /\ st'[j] = "running" /\ unread' = unread
          /\ requests' = IF conn = "up"
                          THEN Append(requests, Request(Waiting', j))
                          ELSE requests
          /\ requests \in Seq(Requests)
      BY <1>11 DEF SizeAnswered, At, Running, Take, Dead, Ask, commands,
             Waiting, TypeOK, CommandsTyped, ControlTyped
    <3>2. ~unread => requests = <<>> /\ replies' = <<>> /\ serving' = None
      <4>1. ~unread /\ replies # <<>> => Tail(replies) = <<>> /\ requests = <<>>
                                        /\ serving = None
        BY <1>11, AnswerFacts DEF SizeAnswered, At
      <4> QED BY <1>11, <4>1 DEF SizeAnswered, Take, Dead, ConnInv
    <3> QED BY <3>1, <3>2, AskKeepsSync
  <2>7. ChanInv'
    BY <1>11 DEF SizeAnswered, At, Running, commands, data, ChanInv,
         CommandInv, DataTyped, CommandsTyped, TypeOK
  <2>8. PartInv'
    BY <1>11 DEF SizeAnswered, At, Running, commands, data, disk, PartInv,
         CommandInv, Over, Outcomes, StepsOf, TransferSteps, Transfers,
         DataTyped, CommandsTyped, TypeOK
  <2>9. DownloadInv'
    BY <1>11, AnswerFacts, TailFacts, AppendFacts DEF SizeAnswered, At,
         Running, Take, Dead, Ask, commands, data, DownloadInv, NotComplete,
         ChanInv, SyncInv, Waiting, CommandInv, PartInv, ConnInv, StepsOf,
         TransferSteps, Transfers, DataTyped, ControlTyped, CommandsTyped,
         TypeOK
  <2>10. UploadInv'
    BY <1>11, AnswerFacts, TailFacts, AppendFacts DEF SizeAnswered, At, Running,
       Take, Dead, commands, data, UploadInv, ChanInv, SyncInv, Waiting,
       CommandInv, DataTyped, ControlTyped, CommandsTyped, TypeOK
  <2> QED BY <1>0, <2>1, <2>2, <2>3, <2>4, <2>5, <2>6, <2>7, <2>8, <2>9, <2>10
<1>12. ASSUME NEW j \in Jobs, PortAnswered(j) PROVE IInv'
  <2>1. UNCHANGED <<st, queue, registered, active>>
    BY <1>12 DEF PortAnswered, At, Running, commands, cancels
  <2>2. QueueInv' /\ TokensInFlight'
    BY <2>1 DEF QueueInv, TokensInFlight, Running, Over
  <2>3. CommandInv'
    BY <1>12 DEF PortAnswered, At, Running, commands, cancels, CommandInv,
         QueueInv, StepsOf, TransferSteps, Transfers, Kinds, CommandsTyped,
         TypeOK
  <2>4. BarInv'
    BY <1>12 DEF PortAnswered, At, Running, commands, BarInv, CommandInv,
         StepsOf, TransferSteps, Transfers, Kinds, CommandsTyped, PageTyped,
         TypeOK
  <2>5. ConnInv'
    BY <1>12 DEF PortAnswered, At, Running, Read, Answered, Take, Ask,
         commands, ConnInv, CommandInv, CommandsTyped, ControlTyped, TypeOK
  <2>6. SyncInv'
    <3>1. /\ st'[j] = "running" /\ unread' = unread
          /\ requests' = IF conn = "up"
                          THEN Append(requests, Request(Waiting', j))
                          ELSE requests
          /\ requests \in Seq(Requests)
      BY <1>12 DEF PortAnswered, At, Running, Read, Answered, Take, Ask,
             commands, Waiting, TypeOK, CommandsTyped, ControlTyped
    <3>2. ~unread => requests = <<>> /\ replies' = <<>> /\ serving' = None
      BY <1>12, AnswerFacts DEF PortAnswered, At, Running, Read, Answered,
             Take, Ask, commands, ConnInv
    <3> QED BY <3>1, <3>2, AskKeepsSync
  <2>7. ChanInv'
    BY <1>12 DEF PortAnswered, At, Running, commands, data, ChanInv, CommandInv,
         DataTyped, CommandsTyped, TypeOK
  <2>8. PartInv'
    BY <1>12 DEF PortAnswered, At, Running, commands, data, disk, PartInv,
         CommandInv, Over, Outcomes, StepsOf, TransferSteps, Transfers,
         DataTyped, CommandsTyped, TypeOK
  <2>9. DownloadInv'
    BY <1>12, AnswerFacts, TailFacts, AppendFacts DEF PortAnswered, At, Running,
       Read, Answered, Take, Ask, commands, data, DownloadInv, NotComplete,
       ChanInv, SyncInv, Waiting, CommandInv, PartInv, ConnInv, StepsOf,
       TransferSteps, Transfers, DataTyped, ControlTyped, CommandsTyped, TypeOK
  <2>10. UploadInv'
    BY <1>12, AnswerFacts, TailFacts, AppendFacts DEF PortAnswered, At, Running,
       Read, Answered, Take, commands, data, UploadInv, ChanInv, SyncInv,
       Waiting, CommandInv, DataTyped, ControlTyped, CommandsTyped, TypeOK
  <2> QED BY <1>0, <2>1, <2>2, <2>3, <2>4, <2>5, <2>6, <2>7, <2>8, <2>9, <2>10
<1>13. ASSUME NEW j \in Jobs, OpenAnswered(j) PROVE IInv'
  <2>1. UNCHANGED <<st, queue, registered, active>>
    BY <1>13 DEF OpenAnswered, At, Running, commands, cancels
  <2>2. QueueInv' /\ TokensInFlight'
    BY <2>1 DEF QueueInv, TokensInFlight, Running, Over
  <2>3. CommandInv'
    BY <1>13 DEF OpenAnswered, At, Running, commands, cancels, CommandInv,
         QueueInv, StepsOf, TransferSteps, Transfers, Kinds, CommandsTyped,
         TypeOK
  <2>4. BarInv'
    BY <1>13 DEF OpenAnswered, At, Running, commands, BarInv, CommandInv,
         StepsOf, TransferSteps, Transfers, Kinds, CommandsTyped, PageTyped,
         TypeOK
  <2>5. ConnInv'
    BY <1>13 DEF OpenAnswered, At, Running, Read, Answered, Take, commands,
         ConnInv, CommandInv, CommandsTyped, ControlTyped, TypeOK
  <2>6. SyncInv'
    BY <1>13, TailFacts DEF OpenAnswered, At, Running, Read, Answered, Take,
       commands, SyncInv, Waiting, ConnInv, CommandInv, ControlTyped,
       CommandsTyped, TypeOK
  <2>7. ChanInv'
    BY <1>13 DEF OpenAnswered, At, Running, commands, data, ChanInv,
         CommandInv, DataTyped, CommandsTyped, TypeOK
  <2>8. PartInv'
    BY <1>13 DEF OpenAnswered, At, Running, commands, data, disk, PartInv,
         CommandInv, Over, Outcomes, StepsOf, TransferSteps, Transfers,
         DataTyped, CommandsTyped, TypeOK
  <2>9. DownloadInv'
    BY <1>13, TailFacts DEF OpenAnswered, At, Running, Read, Answered, Take,
         commands, data, DownloadInv, NotComplete, ChanInv, SyncInv, Waiting,
         CommandInv, PartInv, ConnInv, StepsOf, TransferSteps, Transfers,
         DataTyped, ControlTyped, CommandsTyped, TypeOK
  <2>10. UploadInv'
    BY <1>13, TailFacts DEF OpenAnswered, At, Running, Read, Answered, Take,
       commands, data, UploadInv, ChanInv, SyncInv, Waiting, CommandInv,
       DataTyped, ControlTyped, CommandsTyped, TypeOK
  <2> QED BY <1>0, <2>1, <2>2, <2>3, <2>4, <2>5, <2>6, <2>7, <2>8, <2>9, <2>10
<1>14. ASSUME NEW j \in Jobs, OpenFails(j) PROVE IInv'
  <2>1. QueueInv'
    BY <1>14, TailFacts DEF OpenFails, At, Running, Settle, QueueInv,
         CommandsTyped, TypeOK
  <2>2. CommandInv'
    BY <1>14 DEF OpenFails, At, Running, Settle, cancels, CommandInv,
         QueueInv, StepsOf, TransferSteps, Transfers, Kinds, CommandsTyped,
         TypeOK
  <2>3. BarInv'
    BY <1>14 DEF OpenFails, At, Running, Settle, Tell, BarInv, CommandInv,
         StepsOf, TransferSteps, Transfers, Kinds, CommandsTyped, PageTyped,
         TypeOK
  <2>4. TokensInFlight'
    BY <1>14 DEF OpenFails, At, Running, Settle, cancels, TokensInFlight,
         CommandInv, Over, Outcomes, Transfers, CommandsTyped, PageTyped,
         TypeOK
  <2>5. ConnInv'
    BY <1>14 DEF OpenFails, At, Running, Take, ReadOther, Dead, Settle,
         ConnInv, CommandInv, CommandsTyped, ControlTyped, TypeOK
  <2>6. SyncInv'
    BY <1>14, AnswerFacts, TailFacts DEF OpenFails, At, Running, Take,
       ReadOther, Dead, Settle, SyncInv, Waiting, ConnInv, CommandInv,
       ControlTyped, CommandsTyped, TypeOK
  <2>7. ChanInv'
    BY <1>14 DEF OpenFails, At, Running, HangUp, Settle, ChanInv, CommandInv,
         DataTyped, CommandsTyped, TypeOK
  <2>8. PartInv'
    BY <1>14 DEF OpenFails, At, Running, Settle, disk, PartInv, CommandInv,
         Over, Outcomes, StepsOf, TransferSteps, Transfers, DataTyped,
         CommandsTyped, TypeOK
  <2>9. DownloadInv'
    BY <1>14, AnswerFacts, TailFacts DEF OpenFails, At, Running, Take,
         ReadOther, Dead, HangUp, Settle, DownloadInv, NotComplete, ChanInv,
         SyncInv, Waiting, CommandInv, PartInv, ConnInv, StepsOf, TransferSteps,
         Transfers, DataTyped, ControlTyped, CommandsTyped, TypeOK
  <2>10. UploadInv'
    BY <1>14, AnswerFacts, TailFacts DEF OpenFails, At, Running, Take,
         ReadOther, Dead, HangUp, Settle, UploadInv, ChanInv, SyncInv, Waiting,
         CommandInv, DataTyped, ControlTyped, CommandsTyped, TypeOK
  <2> QED BY <1>0, <2>1, <2>2, <2>3, <2>4, <2>5, <2>6, <2>7, <2>8, <2>9, <2>10
<1>33. ASSUME NEW j \in Jobs, Dialled(j) PROVE IInv'
  <2>1. /\ UNCHANGED <<st, queue, registered, active, kind, bar, partFile,
                       saved, near, far, conn, requests, replies, serving,
                       unread>>
        /\ step = "dial" /\ step' = "open" /\ Running(j)
    BY <1>33 DEF Dialled, At, commands, cancels, disk, control
  <2>2. /\ \A i \in Jobs \ {j} : chan'[i] = chan[i]
        /\ chan[j] = "none" /\ chan'[j] \in {"open", "cut"}
        /\ chan'[j] = "cut" => ~Expected(j)
    BY <1>33, <2>1 DEF Dialled, ChanInv, TypeOK, DataTyped
  <2>3. QueueInv' /\ TokensInFlight' /\ ConnInv'
    BY <2>1 DEF QueueInv, TokensInFlight, ConnInv, Running, Over
  <2>4. CommandInv' /\ BarInv' /\ PartInv'
    BY <2>1 DEF CommandInv, BarInv, PartInv, StepsOf, TransferSteps,
         Transfers, Kinds, Running, Over
  <2>5. SyncInv'
    BY <2>1 DEF SyncInv, Waiting, Running
  <2>6. ChanInv'
    BY <2>1, <2>2 DEF ChanInv, CommandInv, Running
  <2>7. UploadInv'
    BY <2>1, <2>2 DEF UploadInv, Running
  <2>8. ASSUME ~unread, ~Expected(j) PROVE requests = <<>> /\ serving # j
    <3>1. SUFFICES ASSUME requests # <<>> PROVE FALSE
      BY <2>8 DEF Expected
    <3>2. requests \in Seq(Requests) /\ 1 \in DOMAIN requests
      BY <3>1, <2>8 DEF SyncInv, Waiting, TypeOK, ControlTyped
    <3>3. requests[1].op = "open" /\ Running(requests[1].job)
      BY <2>1, <2>8, <3>1, <3>2 DEF SyncInv, Waiting
    <3>4. requests[1].job = j /\ requests[1] \in Requests
      BY <2>1, <3>2, <3>3, ElementsTyped DEF CommandInv
    <3>5. requests[1] = Request("open", j)
      BY <3>3, <3>4 DEF Requests, Request
    <3> QED BY <2>8, <3>2, <3>5 DEF Expected
  <2>9. DownloadInv'
    <3> SUFFICES ASSUME ~unread, NEW i \in Jobs, kind[i] = "download",
                        Running(i)
                 PROVE  /\ chan'[i] = "eof" => far[i] = Chunks
                        /\ chan'[i] \in {"none", "open", "cut"}
                             => NotComplete(i)
                        /\ chan'[i] = "cut"
                             => requests = <<>> /\ serving # i
      BY <2>1 DEF DownloadInv, NotComplete, Running
    <3>1. i = j
      BY <2>1 DEF CommandInv
    <3>2. NotComplete(i)
      BY <2>2, <3>1 DEF DownloadInv
    <3> QED BY <2>2, <2>8, <3>1, <3>2
  <2> QED BY <1>0, <2>3, <2>4, <2>5, <2>6, <2>7, <2>9
<1>34. ASSUME NEW j \in Jobs, DialFails(j) PROVE IInv'
  <2>1. QueueInv'
    BY <1>34 DEF DialFails, At, Running, Settle, QueueInv, CommandsTyped,
         TypeOK
  <2>2. CommandInv'
    BY <1>34 DEF DialFails, At, Running, Settle, cancels, CommandInv,
         QueueInv, StepsOf, TransferSteps, Transfers, Kinds, CommandsTyped,
         TypeOK
  <2>3. BarInv'
    BY <1>34 DEF DialFails, At, Running, Settle, Tell, BarInv, CommandInv,
         StepsOf, TransferSteps, Transfers, Kinds, CommandsTyped, PageTyped,
         TypeOK
  <2>4. TokensInFlight'
    BY <1>34 DEF DialFails, At, Running, Settle, cancels, TokensInFlight,
         CommandInv, Over, Outcomes, Transfers, CommandsTyped, PageTyped,
         TypeOK
  <2>5. ConnInv'
    BY <1>34 DEF DialFails, At, Running, Settle, ConnInv, CommandInv,
         CommandsTyped, ControlTyped, TypeOK
  <2>6. SyncInv' /\ DownloadInv'
    BY <1>34 DEF DialFails, SyncInv, Waiting, DownloadInv
  <2>7. ChanInv'
    BY <1>34 DEF DialFails, At, Running, Settle, ChanInv, CommandInv,
         DataTyped, CommandsTyped, TypeOK
  <2>8. PartInv'
    BY <1>34 DEF DialFails, At, Running, Settle, disk, PartInv, CommandInv,
         Over, Outcomes, StepsOf, TransferSteps, Transfers, DataTyped,
         CommandsTyped, TypeOK
  <2>9. UploadInv'
    BY <1>34 DEF DialFails, At, Running, Settle, UploadInv, CommandsTyped,
         TypeOK
  <2> QED BY <1>0, <2>1, <2>2, <2>3, <2>4, <2>5, <2>6, <2>7, <2>8, <2>9
<1>15. ASSUME NEW j \in Jobs, WriteChunk(j) PROVE IInv'
  <2>1. UNCHANGED <<kind, st, queue, step, conn, requests, replies, serving,
                    chan, registered, active, bar, unread>>
    BY <1>15 DEF WriteChunk, Moving, At, Running, commands, control, cancels
  <2>2. QueueInv' /\ CommandInv' /\ BarInv' /\ TokensInFlight'
        /\ ConnInv' /\ SyncInv' /\ ChanInv'
    BY <2>1 DEF QueueInv, CommandInv, BarInv, TokensInFlight, ConnInv,
         SyncInv, Waiting, ChanInv, Running, Over
  <2>3. PartInv'
    BY <1>15 DEF WriteChunk, Moving, At, Running, commands, disk, PartInv,
         CommandInv, Over, Outcomes, StepsOf, TransferSteps, Transfers,
         DataTyped, CommandsTyped, TypeOK
  <2>4. DownloadInv'
    BY <1>15 DEF WriteChunk, Moving, At, Running, commands, control,
         DownloadInv, NotComplete, ChanInv, SyncInv, Waiting, CommandInv,
         PartInv,
         ConnInv, StepsOf, TransferSteps, Transfers, DataTyped, ControlTyped,
         CommandsTyped, TypeOK
  <2>5. UploadInv'
    BY <1>15 DEF WriteChunk, Moving, At, Running, commands, control, UploadInv,
       ChanInv, SyncInv, Waiting, CommandInv, DataTyped, ControlTyped,
       CommandsTyped, TypeOK
  <2> QED BY <1>0, <2>1, <2>2, <2>3, <2>4, <2>5
<1>16. ASSUME NEW j \in Jobs, CreatePart(j) PROVE IInv'
  <2>1. UNCHANGED <<kind, st, queue, step, conn, requests, replies, serving,
                    chan, near, far, registered, active, bar, unread>>
    BY <1>16 DEF CreatePart, At, Running, commands, control, data, cancels
  <2>2. QueueInv' /\ CommandInv' /\ BarInv' /\ TokensInFlight'
        /\ ConnInv' /\ SyncInv' /\ ChanInv' /\ DownloadInv' /\ UploadInv'
    BY <2>1 DEF QueueInv, CommandInv, BarInv, TokensInFlight, ConnInv, SyncInv,
       Waiting, ChanInv, DownloadInv, UploadInv, Running, Over, NotComplete
  <2>3. PartInv'
    BY <1>16 DEF CreatePart, At, Running, commands, data, PartInv, CommandInv,
         Over, Outcomes, StepsOf, TransferSteps, Transfers, DataTyped,
         CommandsTyped, TypeOK
  <2> QED BY <1>0, <2>1, <2>2, <2>3
<1>17. ASSUME NEW j \in Jobs, ReadChunk(j) PROVE IInv'
  <2>1. UNCHANGED <<kind, st, queue, step, conn, requests, replies, serving,
                    chan, registered, active, bar, unread>>
    BY <1>17 DEF ReadChunk, Moving, At, Running, commands, control, cancels
  <2>2. QueueInv' /\ CommandInv' /\ BarInv' /\ TokensInFlight'
        /\ ConnInv' /\ SyncInv' /\ ChanInv'
    BY <2>1 DEF QueueInv, CommandInv, BarInv, TokensInFlight, ConnInv,
         SyncInv, Waiting, ChanInv, Running, Over
  <2>3. PartInv'
    BY <1>17 DEF ReadChunk, Moving, At, Running, commands, disk, PartInv,
         CommandInv, Over, Outcomes, StepsOf, TransferSteps, Transfers,
         DataTyped, CommandsTyped, TypeOK
  <2>4. DownloadInv'
    BY <1>17 DEF ReadChunk, Moving, At, Running, commands, control,
         DownloadInv, NotComplete, ChanInv, SyncInv, Waiting, CommandInv,
         PartInv,
         ConnInv, StepsOf, TransferSteps, Transfers, DataTyped, ControlTyped,
         CommandsTyped, TypeOK
  <2>5. UploadInv'
    BY <1>17 DEF ReadChunk, Moving, At, Running, commands, control, UploadInv,
       ChanInv, SyncInv, Waiting, CommandInv, DataTyped, ControlTyped,
       CommandsTyped, TypeOK
  <2> QED BY <1>0, <2>1, <2>2, <2>3, <2>4, <2>5
<1>18. ASSUME NEW j \in Jobs, LastChunk(j) PROVE IInv'
  <2>1. UNCHANGED <<st, queue, conn, requests, replies, serving, registered,
                    active>>
    BY <1>18 DEF LastChunk, Moving, At, Running, commands, control, cancels
  <2>2. QueueInv' /\ TokensInFlight' /\ ConnInv'
    BY <2>1 DEF QueueInv, TokensInFlight, ConnInv, Running, Over
  <2>3. CommandInv'
    BY <1>18 DEF LastChunk, Moving, At, Running, commands, cancels,
         CommandInv, QueueInv, StepsOf, TransferSteps, Transfers, Kinds,
         CommandsTyped, TypeOK
  <2>4. BarInv'
    BY <1>18 DEF LastChunk, Moving, At, Running, commands, BarInv, CommandInv,
         StepsOf, TransferSteps, Transfers, Kinds, CommandsTyped, PageTyped,
         TypeOK
  <2>5. SyncInv'
    BY <1>18, MoveKeepsSync DEF LastChunk, Moving, At, Running, commands,
         control
  <2>6. ChanInv'
    BY <1>18 DEF LastChunk, Moving, At, Running, HangUp, commands, ChanInv,
         CommandInv, DataTyped, CommandsTyped, TypeOK
  <2>7. PartInv'
    BY <1>18 DEF LastChunk, Moving, At, Running, commands, disk, PartInv,
         CommandInv, Over, Outcomes, StepsOf, TransferSteps, Transfers,
         DataTyped, CommandsTyped, TypeOK
  <2>8. DownloadInv'
    BY <1>18 DEF LastChunk, Moving, At, Running, HangUp, commands, control,
         DownloadInv, NotComplete, ChanInv, SyncInv, Waiting, CommandInv,
         PartInv,
         ConnInv, StepsOf, TransferSteps, Transfers, DataTyped, ControlTyped,
         CommandsTyped, TypeOK
  <2>9. UploadInv'
    BY <1>18 DEF LastChunk, Moving, At, Running, HangUp, commands, control,
       UploadInv, ChanInv, SyncInv, Waiting, CommandInv,
         DataTyped,
       ControlTyped, CommandsTyped, TypeOK
  <2> QED BY <1>0, <2>1, <2>2, <2>3, <2>4, <2>5, <2>6, <2>7, <2>8, <2>9
<1>19. ASSUME NEW j \in Jobs, DataFails(j) PROVE IInv'
  <2>1. UNCHANGED <<st, queue, conn, requests, replies, serving, registered,
                    active>>
    BY <1>19 DEF DataFails, Abort, At, Running, commands, control, cancels
  <2>2. QueueInv' /\ TokensInFlight' /\ ConnInv'
    BY <2>1 DEF QueueInv, TokensInFlight, ConnInv, Running, Over
  <2>3. CommandInv'
    BY <1>19 DEF DataFails, Abort, At, Running, commands, cancels, CommandInv,
         QueueInv, StepsOf, TransferSteps, Transfers, Kinds, CommandsTyped,
         TypeOK
  <2>4. BarInv'
    BY <1>19 DEF DataFails, Abort, At, Running, commands, BarInv, CommandInv,
         StepsOf, TransferSteps, Transfers, Kinds, CommandsTyped, PageTyped,
         TypeOK
  <2>5. SyncInv'
    BY <1>19, MoveKeepsSync DEF DataFails, Abort, At, Running, commands,
         control
  <2>6. ChanInv'
    BY <1>19 DEF DataFails, Abort, At, Running, HangUp, commands, ChanInv,
         CommandInv, DataTyped, CommandsTyped, TypeOK
  <2>7. PartInv'
    BY <1>19 DEF DataFails, Abort, At, Running, commands, disk, PartInv,
         CommandInv, Over, Outcomes, StepsOf, TransferSteps, Transfers,
         DataTyped, CommandsTyped, TypeOK
  <2>8. DownloadInv'
    BY <1>19 DEF DataFails, Abort, At, Running, HangUp, commands, control,
         DownloadInv, NotComplete, ChanInv, SyncInv, Waiting, CommandInv,
         PartInv,
         ConnInv, StepsOf, TransferSteps, Transfers, DataTyped, ControlTyped,
         CommandsTyped, TypeOK
  <2>9. UploadInv'
    BY <1>19 DEF DataFails, Abort, At, Running, HangUp, commands, control,
       UploadInv, ChanInv, SyncInv, Waiting, CommandInv,
         DataTyped,
       ControlTyped, CommandsTyped, TypeOK
  <2> QED BY <1>0, <2>1, <2>2, <2>3, <2>4, <2>5, <2>6, <2>7, <2>8, <2>9
<1>20. ASSUME NEW j \in Jobs, CancelHeard(j) PROVE IInv'
  <2>1. UNCHANGED <<st, queue, conn, requests, replies, serving, registered,
                    active>>
    BY <1>20 DEF CancelHeard, Abort, At, Running, commands, control, cancels
  <2>2. QueueInv' /\ TokensInFlight' /\ ConnInv'
    BY <2>1 DEF QueueInv, TokensInFlight, ConnInv, Running, Over
  <2>3. CommandInv'
    BY <1>20 DEF CancelHeard, Abort, At, Running, commands, cancels,
         CommandInv, QueueInv, StepsOf, TransferSteps, Transfers, Kinds,
         CommandsTyped, TypeOK
  <2>4. BarInv'
    BY <1>20 DEF CancelHeard, Abort, At, Running, commands, BarInv,
         CommandInv, StepsOf, TransferSteps, Transfers, Kinds, CommandsTyped,
         PageTyped, TypeOK
  <2>5. SyncInv'
    BY <1>20, MoveKeepsSync DEF CancelHeard, Abort, At, Running, commands,
         control
  <2>6. ChanInv'
    BY <1>20 DEF CancelHeard, Abort, At, Running, HangUp, commands, ChanInv,
         CommandInv, DataTyped, CommandsTyped, TypeOK
  <2>7. PartInv'
    BY <1>20 DEF CancelHeard, Abort, At, Running, commands, disk, PartInv,
         CommandInv, Over, Outcomes, StepsOf, TransferSteps, Transfers,
         DataTyped, CommandsTyped, TypeOK
  <2>8. DownloadInv'
    BY <1>20 DEF CancelHeard, Abort, At, Running, HangUp, commands, control,
         DownloadInv, NotComplete, ChanInv, SyncInv, Waiting, CommandInv,
         PartInv,
         ConnInv, StepsOf, TransferSteps, Transfers, DataTyped, ControlTyped,
         CommandsTyped, TypeOK
  <2>9. UploadInv'
    BY <1>20 DEF CancelHeard, Abort, At, Running, HangUp, commands, control,
       UploadInv, ChanInv, SyncInv, Waiting, CommandInv,
         DataTyped,
       ControlTyped, CommandsTyped, TypeOK
  <2> QED BY <1>0, <2>1, <2>2, <2>3, <2>4, <2>5, <2>6, <2>7, <2>8, <2>9
<1>21. ASSUME NEW j \in Jobs, Completed(j) PROVE IInv'
  <2>1. QueueInv'
    BY <1>21, TailFacts DEF Completed, At, Running, Settle, QueueInv,
         CommandsTyped, TypeOK
  <2>2. CommandInv'
    BY <1>21 DEF Completed, At, Running, Settle, cancels, CommandInv,
         QueueInv, StepsOf, TransferSteps, Transfers, Kinds, CommandsTyped,
         TypeOK
  <2>3. BarInv'
    BY <1>21 DEF Completed, At, Running, Settle, Tell, BarInv, CommandInv,
         StepsOf, TransferSteps, Transfers, Kinds, CommandsTyped, PageTyped,
         TypeOK
  <2>4. TokensInFlight'
    BY <1>21 DEF Completed, At, Running, Settle, cancels, TokensInFlight,
         CommandInv, Over, Outcomes, Transfers, CommandsTyped, PageTyped,
         TypeOK
  <2>5. ConnInv'
    BY <1>21 DEF Completed, At, Running, Read, Answered, Take, Settle,
         ConnInv, CommandInv, CommandsTyped, ControlTyped, TypeOK
  <2>6. SyncInv'
    BY <1>21, AnswerFacts, TailFacts DEF Completed, At, Running, Read, Answered,
       Take, Settle, SyncInv, Waiting, ConnInv, CommandInv, ControlTyped,
       CommandsTyped, TypeOK
  <2>7. ChanInv'
    BY <1>21 DEF Completed, At, Running, Settle, data, ChanInv, CommandInv,
         DataTyped, CommandsTyped, TypeOK
  <2>8. PartInv'
    BY <1>21 DEF Completed, At, Running, Settle, data, PartInv, CommandInv,
         Over, Outcomes, StepsOf, TransferSteps, Transfers, DataTyped,
         CommandsTyped, TypeOK
  <2>9. DownloadInv'
    BY <1>21, AnswerFacts, TailFacts DEF Completed, At, Running, Read,
         Answered, Take, Settle, data, DownloadInv, NotComplete, ChanInv,
         SyncInv, Waiting, CommandInv, PartInv, ConnInv, StepsOf, TransferSteps,
         Transfers, DataTyped, ControlTyped, CommandsTyped, TypeOK
  <2>10. UploadInv'
    BY <1>21, AnswerFacts, TailFacts DEF Completed, At, Running, Read,
         Answered, Take, Settle, data, UploadInv, ChanInv, SyncInv, Waiting,
         CommandInv, DataTyped, ControlTyped, CommandsTyped, TypeOK
  <2> QED BY <1>0, <2>1, <2>2, <2>3, <2>4, <2>5, <2>6, <2>7, <2>8, <2>9, <2>10
<1>22. ASSUME NEW j \in Jobs, NotCompleted(j) PROVE IInv'
  <2>1. QueueInv'
    BY <1>22, TailFacts DEF NotCompleted, At, Running, Settle, QueueInv,
         CommandsTyped, TypeOK
  <2>2. CommandInv'
    BY <1>22 DEF NotCompleted, At, Running, Settle, cancels, CommandInv,
         QueueInv, StepsOf, TransferSteps, Transfers, Kinds, CommandsTyped,
         TypeOK
  <2>3. BarInv'
    BY <1>22 DEF NotCompleted, At, Running, Settle, Tell, BarInv, CommandInv,
         StepsOf, TransferSteps, Transfers, Kinds, CommandsTyped, PageTyped,
         TypeOK
  <2>4. TokensInFlight'
    BY <1>22 DEF NotCompleted, At, Running, Settle, cancels, TokensInFlight,
         CommandInv, Over, Outcomes, Transfers, CommandsTyped, PageTyped,
         TypeOK
  <2>5. ConnInv'
    BY <1>22 DEF NotCompleted, At, Running, ReadOther, Take, Read, Answered,
         Dead, Settle, ConnInv, CommandInv, CommandsTyped, ControlTyped,
         TypeOK
  <2>6. SyncInv'
    BY <1>22, AnswerFacts, TailFacts DEF NotCompleted, At, Running, ReadOther,
       Take, Read, Answered, Dead, Settle, SyncInv, Waiting, ConnInv,
       CommandInv, ControlTyped, CommandsTyped, TypeOK
  <2>7. ChanInv'
    BY <1>22 DEF NotCompleted, At, Running, Settle, data, ChanInv, CommandInv,
         DataTyped, CommandsTyped, TypeOK
  <2>8. PartInv'
    BY <1>22 DEF NotCompleted, At, Running, Settle, data, PartInv, CommandInv,
         Over, Outcomes, StepsOf, TransferSteps, Transfers, DataTyped,
         CommandsTyped, TypeOK
  <2>9. DownloadInv'
    BY <1>22, AnswerFacts, TailFacts DEF NotCompleted, At, Running, ReadOther,
         Take, Read, Answered, Dead, Settle, data, DownloadInv, NotComplete,
         ChanInv, SyncInv, Waiting, CommandInv, PartInv, ConnInv, StepsOf,
         TransferSteps, Transfers, DataTyped, ControlTyped, CommandsTyped,
         TypeOK
  <2>10. UploadInv'
    BY <1>22, AnswerFacts, TailFacts DEF NotCompleted, At, Running, ReadOther,
       Take, Read, Answered, Dead, Settle, data, UploadInv, ChanInv, SyncInv,
       Waiting, CommandInv, DataTyped, ControlTyped, CommandsTyped, TypeOK
  <2> QED BY <1>0, <2>1, <2>2, <2>3, <2>4, <2>5, <2>6, <2>7, <2>8, <2>9, <2>10
<1>23. ASSUME NEW j \in Jobs, Drained(j) PROVE IInv'
  <2>1. QueueInv'
    BY <1>23, TailFacts DEF Drained, At, Running, Settle, QueueInv,
         CommandsTyped, TypeOK
  <2>2. CommandInv'
    BY <1>23 DEF Drained, At, Running, Settle, cancels, CommandInv, QueueInv,
         StepsOf, TransferSteps, Transfers, Kinds, CommandsTyped, TypeOK
  <2>3. BarInv'
    BY <1>23 DEF Drained, At, Running, Settle, Tell, BarInv, CommandInv,
         StepsOf, TransferSteps, Transfers, Kinds, CommandsTyped, PageTyped,
         TypeOK
  <2>4. TokensInFlight'
    BY <1>23 DEF Drained, At, Running, Settle, cancels, TokensInFlight,
         CommandInv, Over, Outcomes, Transfers, CommandsTyped, PageTyped,
         TypeOK
  <2>5. ConnInv'
    BY <1>23 DEF Drained, At, Running, Take, Dead, Settle, ConnInv,
         CommandInv, CommandsTyped, ControlTyped, TypeOK
  <2>6. SyncInv'
    BY <1>23, AnswerFacts, TailFacts DEF Drained, At, Running, Take, Dead,
       Settle, SyncInv, Waiting, ConnInv, CommandInv, ControlTyped,
       CommandsTyped, TypeOK
  <2>7. ChanInv'
    BY <1>23 DEF Drained, At, Running, Settle, data, ChanInv, CommandInv,
         DataTyped, CommandsTyped, TypeOK
  <2>8. PartInv'
    BY <1>23 DEF Drained, At, Running, Settle, data, PartInv, CommandInv,
         Over, Outcomes, StepsOf, TransferSteps, Transfers, DataTyped,
         CommandsTyped, TypeOK
  <2>9. DownloadInv'
    BY <1>23, AnswerFacts, TailFacts DEF Drained, At, Running, Take, Dead,
       Settle, data, DownloadInv, NotComplete, ChanInv, SyncInv, Waiting,
       CommandInv, PartInv, ConnInv, StepsOf, TransferSteps, Transfers,
       DataTyped, ControlTyped, CommandsTyped, TypeOK
  <2>10. UploadInv'
    BY <1>23, AnswerFacts, TailFacts DEF Drained, At, Running, Take, Dead,
       Settle, data, UploadInv, ChanInv, SyncInv, Waiting, CommandInv,
       DataTyped, ControlTyped, CommandsTyped, TypeOK
  <2> QED BY <1>0, <2>1, <2>2, <2>3, <2>4, <2>5, <2>6, <2>7, <2>8, <2>9, <2>10
<1>24. ASSUME NEW j \in Jobs, DrainGivesUp(j) PROVE IInv'
  <2>1. QueueInv'
    BY <1>24 DEF DrainGivesUp, At, Running, Settle, QueueInv, CommandsTyped,
         TypeOK
  <2>2. CommandInv'
    BY <1>24 DEF DrainGivesUp, At, Running, Settle, cancels, CommandInv,
         QueueInv, StepsOf, TransferSteps, Transfers, Kinds, CommandsTyped,
         TypeOK
  <2>3. BarInv'
    BY <1>24 DEF DrainGivesUp, At, Running, Settle, Tell, BarInv, CommandInv,
         StepsOf, TransferSteps, Transfers, Kinds, CommandsTyped, PageTyped,
         TypeOK
  <2>4. TokensInFlight'
    BY <1>24 DEF DrainGivesUp, At, Running, Settle, cancels, TokensInFlight,
         CommandInv, Over, Outcomes, Transfers, CommandsTyped, PageTyped,
         TypeOK
  <2>5. ConnInv'
    BY <1>24 DEF DrainGivesUp, At, Running, Settle, ConnInv, CommandInv,
         CommandsTyped, ControlTyped, TypeOK
  <2>6. SyncInv'
    BY <1>24 DEF DrainGivesUp, At, Running, Settle, SyncInv, Waiting, ConnInv,
         CommandInv, ControlTyped, CommandsTyped, TypeOK
  <2>7. ChanInv'
    BY <1>24 DEF DrainGivesUp, At, Running, Settle, data, ChanInv, CommandInv,
         DataTyped, CommandsTyped, TypeOK
  <2>8. PartInv'
    BY <1>24 DEF DrainGivesUp, At, Running, Settle, data, PartInv, CommandInv,
         Over, Outcomes, StepsOf, TransferSteps, Transfers, DataTyped,
         CommandsTyped, TypeOK
  <2>9. DownloadInv'
    BY <1>24 DEF DrainGivesUp, At, Running, Settle, data, DownloadInv,
       NotComplete, ChanInv, SyncInv, Waiting, CommandInv, PartInv, ConnInv,
       StepsOf, TransferSteps, Transfers, DataTyped, ControlTyped,
       CommandsTyped, TypeOK
  <2>10. UploadInv'
    BY <1>24 DEF DrainGivesUp, At, Running, Settle, data, UploadInv, ChanInv,
       SyncInv, Waiting, CommandInv, DataTyped, ControlTyped, CommandsTyped,
       TypeOK
  <2> QED BY <1>0, <2>1, <2>2, <2>3, <2>4, <2>5, <2>6, <2>7, <2>8, <2>9, <2>10
<1>25. ASSUME NEW j \in Jobs, Return(j) PROVE IInv'
  <2>1. UNCHANGED <<kind, st, queue, step, conn, requests, replies, serving,
                    chan, near, far, partFile, saved, bar, unread>>
    BY <1>25 DEF Return, Over, commands, control, data, disk
  <2>2. QueueInv' /\ BarInv' /\ ConnInv' /\ SyncInv'
        /\ ChanInv' /\ PartInv' /\ DownloadInv' /\ UploadInv'
    BY <2>1 DEF QueueInv, BarInv, ConnInv, SyncInv, Waiting, ChanInv, PartInv,
         DownloadInv, UploadInv, Running, Over, NotComplete
  <2>3. CommandInv'
    BY <1>25 DEF Return, Over, commands, CommandInv, QueueInv, Outcomes,
         StepsOf, TransferSteps, Transfers, Kinds, Running, CommandsTyped,
         TypeOK
  <2>4. TokensInFlight'
    BY <1>25 DEF Return, Over, commands, TokensInFlight, CommandInv, Outcomes,
         Transfers, Running, CommandsTyped, PageTyped, TypeOK
  <2> QED BY <1>0, <2>1, <2>2, <2>3, <2>4
<1>26. ASSUME NEW j \in Jobs, PressCancel(j) PROVE IInv'
  <2>1. UNCHANGED <<kind, st, queue, step, conn, requests, replies, serving,
                    chan, near, far, partFile, saved, active, bar, unread>>
    BY <1>26 DEF PressCancel, commands, control, data, disk
  <2>2. QueueInv' /\ CommandInv' /\ BarInv' /\ ConnInv'
        /\ SyncInv' /\ ChanInv' /\ PartInv' /\ DownloadInv' /\ UploadInv'
    BY <2>1 DEF QueueInv, CommandInv, BarInv, ConnInv, SyncInv, Waiting,
         ChanInv,
         PartInv, DownloadInv, UploadInv, Running, Over, NotComplete
  <2>3. TokensInFlight'
    BY <1>26 DEF PressCancel, commands, TokensInFlight, CommandInv, Over,
         Outcomes, Transfers, Running, CommandsTyped, PageTyped, TypeOK
  <2> QED BY <1>0, <2>1, <2>2, <2>3
<1>27. ASSUME NEW j \in Jobs, Relay(j) PROVE IInv'
  <2>1. UNCHANGED <<kind, st, queue, step, conn, requests, replies, serving,
                    chan, near, partFile, saved, registered, active, bar,
                    unread>>
    BY <1>27 DEF Relay, commands, control, disk, cancels
  <2>2. QueueInv' /\ CommandInv' /\ BarInv' /\ TokensInFlight'
        /\ ConnInv' /\ SyncInv' /\ ChanInv' /\ PartInv'
    BY <2>1 DEF QueueInv, CommandInv, BarInv, TokensInFlight, ConnInv,
         SyncInv, Waiting, ChanInv, PartInv, Running, Over
  <2>3. DownloadInv'
    BY <1>27 DEF Relay, commands, control, DownloadInv, NotComplete, ChanInv,
         SyncInv, Waiting, CommandInv, PartInv, ConnInv, StepsOf, TransferSteps,
         Transfers, Running, DataTyped, ControlTyped, CommandsTyped, TypeOK
  <2>4. UploadInv'
    BY <1>27 DEF Relay, commands, control, UploadInv, ChanInv, SyncInv, Waiting,
         CommandInv, Running, DataTyped, ControlTyped, CommandsTyped, TypeOK
  <2> QED BY <1>0, <2>1, <2>2, <2>3, <2>4
<1>28. ASSUME NEW j \in Jobs, Complete(j) PROVE IInv'
  <2>1. UNCHANGED <<kind, st, queue, step, near, partFile, saved, registered,
                    active, bar>>
    BY <1>28 DEF Complete, CloseTransfer, commands, disk, cancels
  <2>2. QueueInv' /\ CommandInv' /\ BarInv' /\ TokensInFlight'
        /\ PartInv'
    BY <2>1 DEF QueueInv, CommandInv, BarInv, TokensInFlight, PartInv,
         Running, Over
  <2>3. ConnInv'
    BY <1>28 DEF Complete, CloseTransfer, Reply, commands, ConnInv,
         CommandInv, CommandsTyped, Running, ControlTyped, TypeOK
  <2>4. SyncInv'
    BY <1>28, CloseKeepsSync DEF Complete, CloseTransfer, Reply, commands
  <2>5. ChanInv'
    BY <1>28 DEF Complete, CloseTransfer, commands, ChanInv, CommandInv,
         Running, DataTyped, CommandsTyped, TypeOK
  <2>6. DownloadInv'
    BY <1>28, AppendFacts DEF Complete, CloseTransfer, Reply, commands,
         DownloadInv, NotComplete, ChanInv, SyncInv, Waiting, CommandInv,
         PartInv,
         ConnInv, StepsOf, TransferSteps, Transfers, Running, DataTyped,
         ControlTyped, CommandsTyped, TypeOK
  <2>7. UploadInv'
    <3>1. ASSUME NEW i \in Jobs, kind'[i] = "upload", Running(i)', step' = "final"
          PROVE  near'[i] = Chunks
      BY <1>28, <3>1 DEF Complete, CloseTransfer, Reply, commands, UploadInv,
             Running
    <3>2. PICK who, code :
            /\ replies' = Append(replies, Answer(code, who))
            /\ who = j /\ code = "complete"
      BY <1>28 DEF Complete, CloseTransfer, Reply, commands
    <3>3. ASSUME NEW i \in Jobs, kind'[i] = "upload", ~unread',
                 NEW n \in DOMAIN replies',
                 replies'[n].code = "complete", replies'[n].job = i
          PROVE  chan'[i] = "ended" /\ far'[i] = near'[i]
      <4>0. /\ replies \in Seq(Answers)
            /\ chan \in [Jobs -> {"none", "open", "ended", "cut", "eof"}]
        BY DEF TypeOK, ControlTyped, DataTyped
      <4>1. CASE n \in DOMAIN replies
        <5>1. replies'[n] = replies[n]
          BY <3>2, <4>0, <4>1, AppendFacts
        <5>2. chan[i] = "ended" /\ far[i] = near[i]
          BY <1>28, <3>3, <4>1, <5>1 DEF Complete, CloseTransfer, Reply,
             commands, UploadInv
        <5> QED
          BY <1>28, <4>0, <5>2 DEF Complete, CloseTransfer, Reply, commands
      <4>2. CASE n \notin DOMAIN replies
        <5>1. replies'[n] = Answer(code, who)
          BY <3>2, <3>3, <4>0, <4>2, AppendFacts
        <5> QED
          BY <1>28, <3>2, <3>3, <5>1 DEF Complete, CloseTransfer, Reply,
             commands, Answer
      <4> QED BY <4>1, <4>2
    <3> QED BY <3>1, <3>3 DEF UploadInv
  <2> QED BY <1>0, <2>1, <2>2, <2>3, <2>4, <2>5, <2>6, <2>7
<1>29. ASSUME NEW j \in Jobs, Incomplete(j) PROVE IInv'
  <2>1. UNCHANGED <<kind, st, queue, step, near, partFile, saved, registered,
                    active, bar>>
    BY <1>29 DEF Incomplete, CloseTransfer, commands, disk, cancels
  <2>2. QueueInv' /\ CommandInv' /\ BarInv' /\ TokensInFlight'
        /\ PartInv'
    BY <2>1 DEF QueueInv, CommandInv, BarInv, TokensInFlight, PartInv,
         Running, Over
  <2>3. ConnInv'
    BY <1>29 DEF Incomplete, CloseTransfer, Reply, commands, ConnInv,
         CommandInv, CommandsTyped, Running, ControlTyped, TypeOK
  <2>4. SyncInv'
    BY <1>29, CloseKeepsSync DEF Incomplete, CloseTransfer, Reply, commands
  <2>5. ChanInv'
    BY <1>29 DEF Incomplete, CloseTransfer, commands, ChanInv, CommandInv,
         Running, DataTyped, CommandsTyped, TypeOK
  <2>6. DownloadInv'
    <3> SUFFICES ASSUME ~unread PROVE DownloadInv'
      BY <1>29 DEF Incomplete, CloseTransfer, DownloadInv
    <3>1. PICK who, code :
            /\ replies' = Append(replies, Answer(code, who))
            /\ code # "complete"
      BY <1>29 DEF Incomplete, CloseTransfer, Reply
    <3>2. ASSUME NEW i \in Jobs, NotComplete(i) PROVE NotComplete(i)'
      <4>1. replies \in Seq(Answers)
        BY DEF TypeOK, ControlTyped
      <4>2. ASSUME NEW n \in DOMAIN replies', replies'[n].job = i
            PROVE  replies'[n].code # "complete"
        <5>1. CASE n \in DOMAIN replies
          BY <3>1, <3>2, <4>1, <4>2, <5>1, AppendFacts DEF NotComplete
        <5>2. CASE n \notin DOMAIN replies
          BY <3>1, <4>1, <4>2, <5>2, AppendFacts DEF Answer
        <5> QED BY <5>1, <5>2
      <4> QED BY <4>2 DEF NotComplete
    <3>3. requests = <<>> /\ requests' = <<>> /\ serving' = None
      BY <1>29 DEF Incomplete, CloseTransfer, SyncInv, Waiting
    <3>4. far' = far /\ near' = near /\ st' = st /\ kind' = kind
          /\ step' = step
      BY <1>29 DEF Incomplete, CloseTransfer, commands
    <3>5. \A i \in Jobs : chan'[i] = chan[i]
                        \/ (chan[i] = "open" /\ chan'[i] = "cut")
      BY <1>29 DEF Incomplete, TypeOK, DataTyped
    <3> QED BY <3>2, <3>3, <3>4, <3>5 DEF DownloadInv, Running
  <2>7. UploadInv'
    <3>1. ASSUME NEW i \in Jobs, kind'[i] = "upload", Running(i)', step' = "final"
          PROVE  near'[i] = Chunks
      BY <1>29, <3>1 DEF Incomplete, CloseTransfer, Reply, commands, UploadInv,
             Running
    <3>2. PICK who, code :
            /\ replies' = Append(replies, Answer(code, who))
            /\ code = "failed"
      BY <1>29 DEF Incomplete, CloseTransfer, Reply, commands
    <3>3. ASSUME NEW i \in Jobs, kind'[i] = "upload", ~unread',
                 NEW n \in DOMAIN replies',
                 replies'[n].code = "complete", replies'[n].job = i
          PROVE  chan'[i] = "ended" /\ far'[i] = near'[i]
      <4>0. /\ replies \in Seq(Answers)
            /\ chan \in [Jobs -> {"none", "open", "ended", "cut", "eof"}]
        BY DEF TypeOK, ControlTyped, DataTyped
      <4>1. CASE n \in DOMAIN replies
        <5>1. replies'[n] = replies[n]
          BY <3>2, <4>0, <4>1, AppendFacts
        <5>2. chan[i] = "ended" /\ far[i] = near[i]
          BY <1>29, <3>3, <4>1, <5>1 DEF Incomplete, CloseTransfer, Reply,
             commands, UploadInv
        <5> QED
          BY <1>29, <4>0, <5>2 DEF Incomplete, CloseTransfer, Reply, commands
      <4>2. CASE n \notin DOMAIN replies
        <5>1. replies'[n] = Answer(code, who)
          BY <3>2, <3>3, <4>0, <4>2, AppendFacts
        <5> QED
          BY <1>29, <3>2, <3>3, <5>1 DEF Incomplete, CloseTransfer, Reply,
             commands, Answer
      <4> QED BY <4>1, <4>2
    <3> QED BY <3>1, <3>3 DEF UploadInv
  <2> QED BY <1>0, <2>1, <2>2, <2>3, <2>4, <2>5, <2>6, <2>7
<1>30. ASSUME Serve PROVE IInv'
  <2>1. UNCHANGED <<kind, st, queue, step, chan, near, partFile, saved,
                    registered, active, bar>>
    BY <1>30 DEF Serve, commands, data, disk, cancels
  <2>2. QueueInv' /\ CommandInv' /\ BarInv' /\ TokensInFlight'
        /\ ChanInv' /\ PartInv'
    BY <2>1 DEF QueueInv, CommandInv, BarInv, TokensInFlight, ChanInv,
         PartInv, Running, Over
  <2>3. ConnInv'
    BY <1>30 DEF Serve, Reply, commands, ConnInv, CommandInv, CommandsTyped,
         Running, ControlTyped, TypeOK
  <2>4. SyncInv'
    <3> SUFFICES ASSUME ~unread PROVE SyncInv'
      BY <1>30 DEF Serve, SyncInv, Waiting
    <3> DEFINE r == Head(requests)
    <3>1. requests \in Seq(Requests) /\ replies \in Seq(Answers)
      BY DEF TypeOK, ControlTyped
    <3>2. r = requests[1] /\ 1 \in DOMAIN requests /\ requests # <<>>
      BY <1>30, <3>1, TailFacts DEF Serve
    <3>3. /\ Len(requests) = 1 /\ replies = <<>> /\ serving = None
          /\ Running(r.job) /\ r.op = Waiting
      BY <3>2 DEF SyncInv, Waiting
    <3>4. requests' = <<>>
      BY <1>30, <3>1, <3>2, <3>3, TailFacts DEF Serve
    <3>5. \E code :
            /\ replies' = Append(replies, Answer(code, r.job))
            /\ serving' # None =>
                 serving' = r.job /\ code = "mark" /\ Waiting = "open"
      BY <1>30, <3>3 DEF Serve, Reply
    <3>6. PICK code :
            /\ replies' = Append(replies, Answer(code, r.job))
            /\ serving' # None =>
                 serving' = r.job /\ code = "mark" /\ Waiting = "open"
      BY <3>5
    <3>7. /\ Len(replies') = 1 /\ DOMAIN replies' = {1}
          /\ replies'[1] = Answer(code, r.job)
      BY <3>1, <3>3, <3>6, AppendFacts
    <3>8. st' = st /\ step' = step /\ unread' = unread
      BY <1>30 DEF Serve, commands
    <3> QED
      BY <3>3, <3>4, <3>6, <3>7, <3>8 DEF SyncInv, Waiting, Running, Answer
  <2>5. DownloadInv'
    <3> SUFFICES ASSUME ~unread PROVE DownloadInv'
      BY <1>30 DEF Serve, DownloadInv
    <3>1. PICK who, code :
            /\ replies' = Append(replies, Answer(code, who))
            /\ code # "complete"
      BY <1>30 DEF Serve, Reply, Good
    <3>2. ASSUME NEW i \in Jobs, NotComplete(i) PROVE NotComplete(i)'
      <4>1. replies \in Seq(Answers)
        BY DEF TypeOK, ControlTyped
      <4>2. ASSUME NEW n \in DOMAIN replies', replies'[n].job = i
            PROVE  replies'[n].code # "complete"
        <5>1. CASE n \in DOMAIN replies
          BY <3>1, <3>2, <4>1, <4>2, <5>1, AppendFacts DEF NotComplete
        <5>2. CASE n \notin DOMAIN replies
          BY <3>1, <4>1, <4>2, <5>2, AppendFacts DEF Answer
        <5> QED BY <5>1, <5>2
      <4> QED BY <4>2 DEF NotComplete
    <3>3. requests # <<>> /\ chan' = chan /\ far' = far /\ near' = near
          /\ st' = st /\ kind' = kind /\ step' = step
      BY <1>30 DEF Serve, commands, data
    <3> QED BY <3>2, <3>3 DEF DownloadInv, Running
  <2>6. UploadInv'
    <3>1. ASSUME NEW i \in Jobs, kind'[i] = "upload", Running(i)', step' = "final"
          PROVE  near'[i] = Chunks
      BY <1>30, <3>1 DEF Serve, Reply, commands, data, UploadInv, Running
    <3>2. PICK who, code :
            /\ replies' = Append(replies, Answer(code, who))
            /\ code # "complete"
      BY <1>30 DEF Serve, Reply, commands, data, Good
    <3>3. ASSUME NEW i \in Jobs, kind'[i] = "upload", ~unread',
                 NEW n \in DOMAIN replies',
                 replies'[n].code = "complete", replies'[n].job = i
          PROVE  chan'[i] = "ended" /\ far'[i] = near'[i]
      <4>0. /\ replies \in Seq(Answers)
            /\ chan \in [Jobs -> {"none", "open", "ended", "cut", "eof"}]
        BY DEF TypeOK, ControlTyped, DataTyped
      <4>1. CASE n \in DOMAIN replies
        <5>1. replies'[n] = replies[n]
          BY <3>2, <4>0, <4>1, AppendFacts
        <5>2. chan[i] = "ended" /\ far[i] = near[i]
          BY <1>30, <3>3, <4>1, <5>1 DEF Serve, Reply, commands, data,
             UploadInv
        <5> QED
          BY <1>30, <4>0, <5>2 DEF Serve, Reply, commands, data
      <4>2. CASE n \notin DOMAIN replies
        <5>1. replies'[n] = Answer(code, who)
          BY <3>2, <3>3, <4>0, <4>2, AppendFacts
        <5> QED
          BY <1>30, <3>2, <3>3, <5>1 DEF Serve, Reply, commands, data, Answer
      <4> QED BY <4>1, <4>2
    <3> QED BY <3>1, <3>3 DEF UploadInv
  <2> QED BY <1>0, <2>1, <2>2, <2>3, <2>4, <2>5, <2>6
<1>31. ASSUME LoseLink PROVE IInv'
  <2>1. UNCHANGED <<kind, st, queue, step, near, partFile, saved, registered,
                    active, bar>>
    BY <1>31 DEF LoseLink, commands, disk, cancels
  <2>2. QueueInv' /\ CommandInv' /\ BarInv' /\ TokensInFlight'
        /\ PartInv'
    BY <2>1 DEF QueueInv, CommandInv, BarInv, TokensInFlight, PartInv,
         Running, Over
  <2>3. ConnInv'
    BY <1>31 DEF LoseLink, commands, ConnInv, CommandInv, CommandsTyped,
         Running, ControlTyped, TypeOK
  <2>4. SyncInv'
    BY <1>31 DEF LoseLink, commands, SyncInv, Waiting, ConnInv, CommandInv,
       Running, ControlTyped, CommandsTyped, TypeOK
  <2>5. ChanInv'
    BY <1>31 DEF LoseLink, commands, ChanInv, CommandInv, Running, DataTyped,
         CommandsTyped, TypeOK
  <2>6. DownloadInv'
    BY <1>31 DEF LoseLink, commands, DownloadInv, NotComplete, ChanInv,
         SyncInv, Waiting, CommandInv, PartInv, ConnInv, StepsOf, TransferSteps,
         Transfers, Running, DataTyped, ControlTyped, CommandsTyped, TypeOK
  <2>7. UploadInv'
    BY <1>31 DEF LoseLink, commands, UploadInv, ChanInv, SyncInv, Waiting,
       CommandInv, Running, DataTyped, ControlTyped, CommandsTyped, TypeOK
  <2> QED BY <1>0, <2>1, <2>2, <2>3, <2>4, <2>5, <2>6, <2>7
<1>32. CASE UNCHANGED vars
  <2>1. UNCHANGED <<kind, st, queue, step, cause, conn, requests, replies,
                    serving, chan, near, far, partFile, saved, registered,
                    fired, active, bar, unread>>
    BY <1>32 DEF vars, commands, control, data, disk, cancels
  <2>2. QueueInv' /\ CommandInv' /\ BarInv' /\ TokensInFlight' /\ PartInv'
    BY <2>1 DEF QueueInv, CommandInv, BarInv, TokensInFlight, PartInv, Over,
         Running
  <2>3. ConnInv' /\ SyncInv' /\ ChanInv' /\ DownloadInv' /\ UploadInv'
    BY <2>1 DEF ConnInv, SyncInv, Waiting, ChanInv, DownloadInv, UploadInv,
       NotComplete, Running
  <2> QED BY <1>0, <2>2, <2>3
<1> QED BY <1>1, <1>2, <1>3, <1>4, <1>5, <1>6, <1>7, <1>8, <1>9, <1>10, <1>11,
     <1>12, <1>13, <1>14, <1>15, <1>16, <1>17, <1>18, <1>19, <1>20, <1>21,
     <1>22, <1>23, <1>24, <1>25, <1>26, <1>27, <1>28, <1>29, <1>30, <1>31,
     <1>32, <1>33, <1>34, <1>35
     DEF Next, Client, Begin, Transfer, Server

\* It holds at first.
LEMMA InitIInv == Init => IInv
<1> SUFFICES ASSUME Init PROVE IInv
  OBVIOUS
<1>1. CommandsTyped /\ PageTyped
  BY EmptyTyped DEF Init, CommandsTyped, PageTyped
<1>2. ControlTyped /\ DataTyped
  <2>1. <<>> \in Seq(Requests) /\ <<>> \in Seq(Answers) /\ 0 \in 0..Chunks
    BY EmptyTyped, ChunksAssumption
  <2>2. ControlTyped
    BY <2>1 DEF Init, ControlTyped
  <2>3. DataTyped
    BY <2>1 DEF Init, DataTyped
  <2> QED BY <2>2, <2>3
<1>3. QueueInv /\ CommandInv /\ BarInv /\ TokensInFlight /\ ConnInv
  BY DEF Init, QueueInv, CommandInv, BarInv, TokensInFlight, ConnInv, Running,
     Transfers
<1>4. SyncInv /\ ChanInv /\ UploadInv /\ PartInv /\ DownloadInv
  BY DEF Init, SyncInv, ChanInv, UploadInv, PartInv, DownloadInv, Running
<1> QED BY <1>1, <1>2, <1>3, <1>4 DEF IInv, TypeOK

\* The inductive invariant holds in every reachable state.
THEOREM Inductive == Safety => []IInv
BY InitIInv, InvNext, PTL DEF Safety

\* The types, for any number of commands and any length of file.
THEOREM TypeCorrect == Safety => []TypeOK
<1>1. IInv => TypeOK
  BY DEF IInv
<1> QED BY <1>1, Inductive, PTL

\* No command leaves an answer that a later one would take for its own.
THEOREM SessionInSync == Safety => []InSync
<1>1. IInv => InSync
  BY DEF IInv, SyncInv, InSync
<1> QED BY <1>1, Inductive, PTL

\* No progress bar stays when its transfer is over.
THEOREM BarsEnd == Safety => []NoStuckBar
<1>1. IInv => NoStuckBar
  BY DEF IInv, BarInv, NoStuckBar, Running, Over, Outcomes
<1> QED BY <1>1, Inductive, PTL

\* Every token in the registry is that of the transfer the page waits for.
THEOREM TokensCorrect == Safety => []TokensInFlight
<1>1. IInv => TokensInFlight
  BY DEF IInv
<1> QED BY <1>1, Inductive, PTL

-----------------------------------------------------------------------------
\* Only a closing answer that says so makes an upload Done.
LEMMA CompletedOnly ==
  ASSUME IInv, [Next]_vars, NEW i \in Jobs,
         ~unread, kind[i] = "upload", st[i] # "done", st'[i] = "done"
  PROVE  far[i] = Chunks
<1> USE DEF IInv
<1>0. st \in [Jobs -> Outcomes \cup {"unborn", "queued", "running"}]
  BY DEF TypeOK, CommandsTyped
<1>1. ASSUME Completed(i) PROVE far[i] = Chunks
  <2>1. replies # <<>> /\ Head(replies).code = "complete" /\ step = "final"
        /\ Running(i)
    BY <1>1 DEF Completed, At, Read, Answered
  <2>2. replies[1].code = "complete" /\ replies[1].job = i /\ 1 \in DOMAIN replies
    BY <2>1, AnswerFacts
  <2> QED BY <2>1, <2>2 DEF UploadInv
<1>2. ASSUME UNCHANGED st PROVE FALSE
  BY <1>2
<1>3. ASSUME NEW j \in Jobs, SizeAnswered(j) PROVE FALSE
  BY <1>2, <1>3 DEF SizeAnswered, At, Running, commands
<1>4. ASSUME NEW j \in Jobs, PortAnswered(j) PROVE FALSE
  BY <1>2, <1>4 DEF PortAnswered, At, Running, commands
<1>5. ASSUME NEW j \in Jobs, OpenAnswered(j) PROVE FALSE
  BY <1>2, <1>5 DEF OpenAnswered, At, Running, commands
<1>35. ASSUME NEW j \in Jobs, Dialled(j) PROVE FALSE
  BY <1>2, <1>35 DEF Dialled, At, Running, commands
<1>36. ASSUME NEW j \in Jobs, DialFails(j) PROVE FALSE
  BY <1>0, <1>36 DEF DialFails, At, Running, Settle, TypeOK, CommandsTyped
<1>6. ASSUME NEW j \in Jobs, WriteChunk(j) PROVE FALSE
  BY <1>2, <1>6 DEF WriteChunk, Moving, At, Running, commands
<1>7. ASSUME NEW j \in Jobs, CreatePart(j) PROVE FALSE
  BY <1>2, <1>7 DEF CreatePart, At, Running, commands
<1>8. ASSUME NEW j \in Jobs, ReadChunk(j) PROVE FALSE
  BY <1>2, <1>8 DEF ReadChunk, Moving, At, Running, commands
<1>9. ASSUME NEW j \in Jobs, LastChunk(j) PROVE FALSE
  BY <1>2, <1>9 DEF LastChunk, Moving, At, Running, commands
<1>10. ASSUME NEW j \in Jobs, DataFails(j) PROVE FALSE
  BY <1>2, <1>10 DEF DataFails, Abort, At, Running, commands
<1>11. ASSUME NEW j \in Jobs, CancelHeard(j) PROVE FALSE
  BY <1>2, <1>11 DEF CancelHeard, Abort, At, Running, commands
<1>12. ASSUME NEW j \in Jobs, Return(j) PROVE FALSE
  BY <1>2, <1>12 DEF Return, Over, commands
<1>13. ASSUME NEW j \in Jobs, PressCancel(j) PROVE FALSE
  BY <1>2, <1>13 DEF PressCancel, commands
<1>14. ASSUME NEW j \in Jobs, Relay(j) PROVE FALSE
  BY <1>2, <1>14 DEF Relay, commands
<1>15. ASSUME NEW j \in Jobs, Complete(j) PROVE FALSE
  BY <1>2, <1>15 DEF Complete, CloseTransfer, commands
<1>16. ASSUME NEW j \in Jobs, Incomplete(j) PROVE FALSE
  BY <1>2, <1>16 DEF Incomplete, CloseTransfer, commands
<1>17. ASSUME Serve PROVE FALSE
  BY <1>2, <1>17 DEF Serve, commands
<1>18. ASSUME LoseLink PROVE FALSE
  BY <1>2, <1>18 DEF LoseLink, commands
<1>19. ASSUME UNCHANGED vars PROVE FALSE
  BY <1>2, <1>19 DEF vars, commands, control, data, disk, cancels
<1>20. ASSUME NEW j \in Jobs, NEW k \in Kinds, Issue(j, k) PROVE FALSE
  BY <1>0, <1>20 DEF Issue
<1>21. ASSUME NEW j \in Jobs, NotConnected(j) PROVE FALSE
  BY <1>0, <1>21 DEF NotConnected, Granted, Running, Skip, TypeOK,
     CommandsTyped
<1>22. ASSUME NEW j \in Jobs, BeginUpload(j) PROVE FALSE
  BY <1>0, <1>22 DEF BeginUpload, Granted, Running, Enter, TypeOK,
     CommandsTyped
<1>23. ASSUME NEW j \in Jobs, NoSource(j) PROVE FALSE
  BY <1>0, <1>23 DEF NoSource, Granted, Running, Skip, TypeOK, CommandsTyped
<1>24. ASSUME NEW j \in Jobs, BeginDownload(j) PROVE FALSE
  BY <1>0, <1>24 DEF BeginDownload, Granted, Running, Enter, TypeOK,
     CommandsTyped
<1>25. ASSUME NEW j \in Jobs, BeginSimple(j) PROVE FALSE
  BY <1>0, <1>25 DEF BeginSimple, Granted, Running, Enter, TypeOK,
     CommandsTyped
<1>26. ASSUME NEW j \in Jobs, BeginQuit(j) PROVE FALSE
  BY <1>0, <1>26 DEF BeginQuit, Granted, Running, Enter, TypeOK, CommandsTyped
<1>27. ASSUME NEW j \in Jobs, OpenFails(j) PROVE FALSE
  BY <1>0, <1>27 DEF OpenFails, At, Running, Settle, TypeOK, CommandsTyped
<1>28. ASSUME NEW j \in Jobs, NotCompleted(j) PROVE FALSE
  BY <1>0, <1>28 DEF NotCompleted, At, Running, Settle, TypeOK, CommandsTyped
<1>29. ASSUME NEW j \in Jobs, Drained(j) PROVE FALSE
  BY <1>0, <1>29 DEF Drained, At, Running, Settle, TypeOK, CommandsTyped
<1>30. ASSUME NEW j \in Jobs, DrainGivesUp(j) PROVE FALSE
  BY <1>0, <1>30 DEF DrainGivesUp, At, Running, Settle, TypeOK, CommandsTyped
<1>31. ASSUME NEW j \in Jobs, BeginConnect(j) PROVE FALSE
  BY <1>0, <1>31 DEF BeginConnect, Granted, Running, Skip
<1>32. ASSUME NEW j \in Jobs, SimpleAnswered(j) PROVE FALSE
  BY <1>0, <1>32 DEF SimpleAnswered, At, Running, Settle, CommandInv, StepsOf,
     Transfers, TransferSteps
<1>37. ASSUME NEW j \in Jobs, ListingFails(j) PROVE FALSE
  BY <1>0, <1>37 DEF ListingFails, At, Running, Settle, TypeOK, CommandsTyped
<1>33. ASSUME NEW j \in Jobs, QuitAnswered(j) PROVE FALSE
  BY <1>0, <1>33 DEF QuitAnswered, At, Running, Settle, CommandInv, StepsOf,
     Transfers, TransferSteps
<1>34. ASSUME NEW j \in Jobs, Completed(j), j # i PROVE FALSE
  BY <1>0, <1>34 DEF Completed, At, Running, Settle
<1> QED BY <1>1, <1>2, <1>3, <1>4, <1>5, <1>6, <1>7, <1>8, <1>9, <1>10, <1>11,
     <1>12, <1>13, <1>14, <1>15, <1>16, <1>17, <1>18, <1>19, <1>20, <1>21,
     <1>22, <1>23, <1>24, <1>25, <1>26, <1>27, <1>28, <1>29, <1>30, <1>31,
     <1>32, <1>33, <1>34, <1>35, <1>36, <1>37
     DEF Next, Client, Begin, Transfer, Server

\* An upload that is reported Done is on the server in full.
THEOREM StoredCorrect == Safety => DoneMeansStored
<1>1. ASSUME IInv, [Next]_vars
      PROVE  [\A j \in Jobs :
                ~unread /\ kind[j] = "upload" /\ st[j] # "done" /\ st'[j] = "done"
                  => far[j] = Chunks]_vars
  BY <1>1, CompletedOnly
<1> QED BY <1>1, Inductive, PTL DEF Safety, DoneMeansStored

-----------------------------------------------------------------------------
(* Every download implements AtomicDownload.                               *)

\* What a step does to the download it is not about: nothing.
LEMMA Unmoved ==
  ASSUME NEW i \in Jobs, OutcomeOf(i)' = OutcomeOf(i),
         i \in saved' <=> i \in saved, i \in partFile' <=> i \in partFile,
         i \in saved \cup partFile => near'[i] = near[i]
  PROVE  DownloadStays(i)
BY DEF DownloadStays, Atomic!vars, Destination, PartOf, Prefix

LEMMA SameOutcome ==
  ASSUME NEW i \in Jobs, kind'[i] = kind[i], st'[i] = st[i]
  PROVE  OutcomeOf(i)' = OutcomeOf(i)
BY DEF OutcomeOf, Over

LEMMA StillRunning ==
  ASSUME NEW i \in Jobs, ~Over(i), ~Over(i)' \/ kind'[i] # "download"
  PROVE  OutcomeOf(i)' = OutcomeOf(i)
BY DEF OutcomeOf, Over

\* A command that ends badly: a download fails, and leaves no `.part`.
LEMMA FailureAborts ==
  ASSUME NEW i \in Jobs, kind'[i] = kind[i],
         ~Over(i), st'[i] \in {"failed", "cancelled"},
         i \notin saved, i \notin saved', i \notin partFile',
         kind[i] # "download" => i \notin partFile
  PROVE  Atomic(i)!Next \/ DownloadStays(i)
<1>1. CASE kind[i] = "download"
  <2>1. /\ OutcomeOf(i) = "running" /\ OutcomeOf(i)' = "failed"
        /\ PartOf(i)' = NoFile /\ Destination(i)' = Destination(i)
    BY <1>1 DEF OutcomeOf, Over, Outcomes, PartOf, Destination
  <2> QED BY <2>1 DEF Atomic!Next, Atomic!Abort
<1>2. CASE kind[i] # "download"
  <2>1. OutcomeOf(i)' = OutcomeOf(i)
    BY <1>2, StillRunning
  <2> QED BY <1>2, <2>1, Unmoved
<1> QED BY <1>1, <1>2

\* A file one chunk longer.
LEMMA PrefixGrows ==
  ASSUME NEW n \in Nat
  PROVE  Len(Prefix(n)) = n /\ Append(Prefix(n), n + 1) = Prefix(n + 1)
<1>1. Prefix(n) \in Seq(Nat) /\ Prefix(n + 1) \in Seq(Nat) /\ Len(Prefix(n)) = n
      /\ Len(Prefix(n + 1)) = n + 1
  BY DEF Prefix
<1>2. /\ Append(Prefix(n), n + 1) \in Seq(Nat)
      /\ Len(Append(Prefix(n), n + 1)) = n + 1
      /\ \A i \in 1..(n + 1) : Append(Prefix(n), n + 1)[i] = Prefix(n + 1)[i]
  BY <1>1 DEF Prefix
<1> QED BY <1>1, <1>2

\* Each step of the session is, for each download, one of AtomicDownload.
LEMMA AtomicNext ==
  IInv /\ [Next]_vars
    => (~unread => \A i \in Jobs : Atomic(i)!Next \/ DownloadStays(i))
<1> SUFFICES ASSUME IInv, [Next]_vars, ~unread, NEW i \in Jobs
             PROVE  Atomic(i)!Next \/ DownloadStays(i)
  OBVIOUS
<1> USE DEF IInv
<1>0. /\ kind \in [Jobs -> Kinds \cup {"none"}]
      /\ st \in [Jobs -> Outcomes \cup {"unborn", "queued", "running"}]
      /\ near \in [Jobs -> 0..Chunks] /\ far \in [Jobs -> 0..Chunks]
  BY DEF TypeOK, CommandsTyped, DataTyped
<1>1. ASSUME UNCHANGED <<kind, st, near, saved, partFile>>
      PROVE  Atomic(i)!Next \/ DownloadStays(i)
  BY <1>1, SameOutcome, Unmoved
<1>2. ASSUME NEW j \in Jobs, SizeAnswered(j)
      PROVE  Atomic(i)!Next \/ DownloadStays(i)
  BY <1>1, <1>2 DEF SizeAnswered, At, Running, commands, data, disk
<1>3. ASSUME NEW j \in Jobs, PortAnswered(j)
      PROVE  Atomic(i)!Next \/ DownloadStays(i)
  BY <1>1, <1>3 DEF PortAnswered, At, Running, commands, data, disk
<1>34. ASSUME NEW j \in Jobs, Dialled(j)
      PROVE  Atomic(i)!Next \/ DownloadStays(i)
  BY <1>1, <1>34 DEF Dialled, At, Running, commands, disk
<1>35. ASSUME NEW j \in Jobs, DialFails(j)
      PROVE  Atomic(i)!Next \/ DownloadStays(i)
  <2>1. CASE i = j
    <3>1. kind'[i] = kind[i] /\ ~Over(i) /\ st'[i] \in {"failed", "cancelled"}
      BY <1>0, <1>35, <2>1 DEF DialFails, At, Running, Settle, Over, Outcomes,
         TypeOK, CommandsTyped
    <3>2. i \notin saved /\ i \notin saved' /\ i \notin partFile'
      BY <1>35, <2>1, <3>1 DEF DialFails, disk, PartInv, At, Running
    <3> QED BY <3>1, <3>2, FailureAborts DEF PartInv
  <2>2. CASE i # j
    <3>1. kind'[i] = kind[i] /\ st'[i] = st[i] /\ near'[i] = near[i]
          /\ (i \in saved' <=> i \in saved) /\ (i \in partFile' <=> i \in partFile)
      BY <1>0, <1>35, <2>2 DEF DialFails, At, Running, Settle, disk
    <3> QED BY <3>1, SameOutcome, Unmoved
  <2> QED BY <2>1, <2>2
<1>4. ASSUME NEW j \in Jobs, OpenAnswered(j)
      PROVE  Atomic(i)!Next \/ DownloadStays(i)
  BY <1>1, <1>4 DEF OpenAnswered, At, Running, commands, data, disk
<1>5. ASSUME NEW j \in Jobs, LastChunk(j)
      PROVE  Atomic(i)!Next \/ DownloadStays(i)
  BY <1>1, <1>5 DEF LastChunk, Moving, At, Running, commands, disk
<1>6. ASSUME NEW j \in Jobs, DataFails(j)
      PROVE  Atomic(i)!Next \/ DownloadStays(i)
  BY <1>1, <1>6 DEF DataFails, Abort, At, Running, commands, disk
<1>7. ASSUME NEW j \in Jobs, CancelHeard(j)
      PROVE  Atomic(i)!Next \/ DownloadStays(i)
  BY <1>1, <1>7 DEF CancelHeard, Abort, At, Running, commands, disk
<1>8. ASSUME NEW j \in Jobs, Return(j)
      PROVE  Atomic(i)!Next \/ DownloadStays(i)
  BY <1>1, <1>8 DEF Return, Over, commands, data, disk
<1>9. ASSUME NEW j \in Jobs, PressCancel(j)
      PROVE  Atomic(i)!Next \/ DownloadStays(i)
  BY <1>1, <1>9 DEF PressCancel, commands, data, disk
<1>10. ASSUME NEW j \in Jobs, Relay(j)
      PROVE  Atomic(i)!Next \/ DownloadStays(i)
  BY <1>1, <1>10 DEF Relay, commands, disk
<1>11. ASSUME NEW j \in Jobs, Complete(j)
      PROVE  Atomic(i)!Next \/ DownloadStays(i)
  BY <1>1, <1>11 DEF Complete, CloseTransfer, commands, disk
<1>12. ASSUME NEW j \in Jobs, Incomplete(j)
      PROVE  Atomic(i)!Next \/ DownloadStays(i)
  BY <1>1, <1>12 DEF Incomplete, CloseTransfer, commands, disk
<1>13. ASSUME Serve
      PROVE  Atomic(i)!Next \/ DownloadStays(i)
  BY <1>1, <1>13 DEF Serve, commands, data, disk
<1>14. ASSUME LoseLink
      PROVE  Atomic(i)!Next \/ DownloadStays(i)
  BY <1>1, <1>14 DEF LoseLink, commands, disk
<1>15. ASSUME NEW j \in Jobs, NEW k \in Kinds, Issue(j, k)
      PROVE  Atomic(i)!Next \/ DownloadStays(i)
  <2>1. UNCHANGED <<near, saved, partFile>>
    BY <1>15 DEF Issue, data, disk
  <2>2. OutcomeOf(i)' = OutcomeOf(i)
    <3>1. CASE i = j
      <4>1. ~Over(j) /\ (~Over(j)' \/ kind'[j] # "download")
        BY <1>0, <1>15 DEF Issue, Over, Outcomes
      <4> QED BY <3>1, <4>1, StillRunning
    <3>2. CASE i # j
      <4>1. kind'[i] = kind[i] /\ st'[i] = st[i]
        BY <1>0, <1>15, <3>2 DEF Issue
      <4> QED BY <4>1, SameOutcome
    <3> QED BY <3>1, <3>2
  <2> QED BY <2>1, <2>2, Unmoved
<1>16. ASSUME NEW j \in Jobs, BeginUpload(j)
      PROVE  Atomic(i)!Next \/ DownloadStays(i)
  <2>1. UNCHANGED <<near, saved, partFile>>
    BY <1>16 DEF BeginUpload, data, disk
  <2>2. OutcomeOf(i)' = OutcomeOf(i)
    <3>1. CASE i = j
      <4>1. ~Over(j) /\ (~Over(j)' \/ kind'[j] # "download")
        BY <1>0, <1>16, GrantedFacts DEF BeginUpload, Granted, Running, Enter,
           Over, Outcomes
      <4> QED BY <3>1, <4>1, StillRunning
    <3>2. CASE i # j
      <4>1. kind'[i] = kind[i] /\ st'[i] = st[i]
        BY <1>0, <1>16, <3>2 DEF BeginUpload, Granted, Running, Enter
      <4> QED BY <4>1, SameOutcome
    <3> QED BY <3>1, <3>2
  <2> QED BY <2>1, <2>2, Unmoved
<1>17. ASSUME NEW j \in Jobs, BeginDownload(j)
      PROVE  Atomic(i)!Next \/ DownloadStays(i)
  <2>1. UNCHANGED <<near, saved, partFile>>
    BY <1>17 DEF BeginDownload, data, disk
  <2>2. OutcomeOf(i)' = OutcomeOf(i)
    <3>1. CASE i = j
      <4>1. ~Over(j) /\ (~Over(j)' \/ kind'[j] # "download")
        BY <1>0, <1>17, GrantedFacts DEF BeginDownload, Granted, Running,
           Enter, Over, Outcomes
      <4> QED BY <3>1, <4>1, StillRunning
    <3>2. CASE i # j
      <4>1. kind'[i] = kind[i] /\ st'[i] = st[i]
        BY <1>0, <1>17, <3>2 DEF BeginDownload, Granted, Running, Enter
      <4> QED BY <4>1, SameOutcome
    <3> QED BY <3>1, <3>2
  <2> QED BY <2>1, <2>2, Unmoved
<1>18. ASSUME NEW j \in Jobs, BeginSimple(j)
      PROVE  Atomic(i)!Next \/ DownloadStays(i)
  <2>1. UNCHANGED <<near, saved, partFile>>
    BY <1>18 DEF BeginSimple, data, disk
  <2>2. OutcomeOf(i)' = OutcomeOf(i)
    <3>1. CASE i = j
      <4>1. ~Over(j) /\ (~Over(j)' \/ kind'[j] # "download")
        BY <1>0, <1>18, GrantedFacts DEF BeginSimple, Granted, Running, Enter,
           Over, Outcomes
      <4> QED BY <3>1, <4>1, StillRunning
    <3>2. CASE i # j
      <4>1. kind'[i] = kind[i] /\ st'[i] = st[i]
        BY <1>0, <1>18, <3>2 DEF BeginSimple, Granted, Running, Enter
      <4> QED BY <4>1, SameOutcome
    <3> QED BY <3>1, <3>2
  <2> QED BY <2>1, <2>2, Unmoved
<1>19. ASSUME NEW j \in Jobs, BeginQuit(j)
      PROVE  Atomic(i)!Next \/ DownloadStays(i)
  <2>1. UNCHANGED <<near, saved, partFile>>
    BY <1>19 DEF BeginQuit, data, disk
  <2>2. OutcomeOf(i)' = OutcomeOf(i)
    <3>1. CASE i = j
      <4>1. ~Over(j) /\ (~Over(j)' \/ kind'[j] # "download")
        BY <1>0, <1>19, GrantedFacts DEF BeginQuit, Granted, Running, Enter,
           Over, Outcomes
      <4> QED BY <3>1, <4>1, StillRunning
    <3>2. CASE i # j
      <4>1. kind'[i] = kind[i] /\ st'[i] = st[i]
        BY <1>0, <1>19, <3>2 DEF BeginQuit, Granted, Running, Enter
      <4> QED BY <4>1, SameOutcome
    <3> QED BY <3>1, <3>2
  <2> QED BY <2>1, <2>2, Unmoved
<1>20. ASSUME NEW j \in Jobs, NoSource(j)
      PROVE  Atomic(i)!Next \/ DownloadStays(i)
  <2>1. UNCHANGED <<near, saved, partFile>>
    BY <1>20 DEF NoSource, data, disk
  <2>2. OutcomeOf(i)' = OutcomeOf(i)
    <3>1. CASE i = j
      <4>1. ~Over(j) /\ (~Over(j)' \/ kind'[j] # "download")
        BY <1>0, <1>20, GrantedFacts DEF NoSource, Granted, Running, Skip,
           Over, Outcomes
      <4> QED BY <3>1, <4>1, StillRunning
    <3>2. CASE i # j
      <4>1. kind'[i] = kind[i] /\ st'[i] = st[i]
        BY <1>0, <1>20, <3>2 DEF NoSource, Granted, Running, Skip
      <4> QED BY <4>1, SameOutcome
    <3> QED BY <3>1, <3>2
  <2> QED BY <2>1, <2>2, Unmoved
<1>21. ASSUME NEW j \in Jobs, BeginConnect(j)
      PROVE  Atomic(i)!Next \/ DownloadStays(i)
  <2>1. UNCHANGED <<near, saved, partFile>>
    BY <1>21 DEF BeginConnect, data, disk
  <2>2. OutcomeOf(i)' = OutcomeOf(i)
    <3>1. CASE i = j
      <4>1. ~Over(j) /\ (~Over(j)' \/ kind'[j] # "download")
        BY <1>0, <1>21, GrantedFacts DEF BeginConnect, Granted, Running, Skip,
           Over, Outcomes
      <4> QED BY <3>1, <4>1, StillRunning
    <3>2. CASE i # j
      <4>1. kind'[i] = kind[i] /\ st'[i] = st[i]
        BY <1>0, <1>21, <3>2 DEF BeginConnect, Granted, Running, Skip
      <4> QED BY <4>1, SameOutcome
    <3> QED BY <3>1, <3>2
  <2> QED BY <2>1, <2>2, Unmoved
<1>22. ASSUME NEW j \in Jobs, SimpleAnswered(j)
      PROVE  Atomic(i)!Next \/ DownloadStays(i)
  <2>1. UNCHANGED <<near, saved, partFile>>
    BY <1>22 DEF SimpleAnswered, data, disk
  <2>2. OutcomeOf(i)' = OutcomeOf(i)
    <3>1. CASE i = j
      <4>1. ~Over(j) /\ (~Over(j)' \/ kind'[j] # "download")
        BY <1>0, <1>22 DEF SimpleAnswered, At, Running, Settle, Over, Outcomes,
           CommandInv, StepsOf, Transfers, TransferSteps
      <4> QED BY <3>1, <4>1, StillRunning
    <3>2. CASE i # j
      <4>1. kind'[i] = kind[i] /\ st'[i] = st[i]
        BY <1>0, <1>22, <3>2 DEF SimpleAnswered, At, Running, Settle
      <4> QED BY <4>1, SameOutcome
    <3> QED BY <3>1, <3>2
  <2> QED BY <2>1, <2>2, Unmoved
<1>36. ASSUME NEW j \in Jobs, ListingFails(j)
      PROVE  Atomic(i)!Next \/ DownloadStays(i)
  <2>1. UNCHANGED <<near, saved, partFile>>
    BY <1>36 DEF ListingFails, data, disk
  <2>2. OutcomeOf(i)' = OutcomeOf(i)
    <3>1. CASE i = j
      <4>1. ~Over(j) /\ (~Over(j)' \/ kind'[j] # "download")
        BY <1>0, <1>36 DEF ListingFails, At, Running, Settle, Over, Outcomes,
           CommandInv, StepsOf, Transfers, TransferSteps
      <4> QED BY <3>1, <4>1, StillRunning
    <3>2. CASE i # j
      <4>1. kind'[i] = kind[i] /\ st'[i] = st[i]
        BY <1>0, <1>36, <3>2 DEF ListingFails, At, Running, Settle
      <4> QED BY <4>1, SameOutcome
    <3> QED BY <3>1, <3>2
  <2> QED BY <2>1, <2>2, Unmoved
<1>23. ASSUME NEW j \in Jobs, QuitAnswered(j)
      PROVE  Atomic(i)!Next \/ DownloadStays(i)
  <2>1. UNCHANGED <<near, saved, partFile>>
    BY <1>23 DEF QuitAnswered, data, disk
  <2>2. OutcomeOf(i)' = OutcomeOf(i)
    <3>1. CASE i = j
      <4>1. ~Over(j) /\ (~Over(j)' \/ kind'[j] # "download")
        BY <1>0, <1>23 DEF QuitAnswered, At, Running, Settle, Over, Outcomes,
           CommandInv, StepsOf, Transfers, TransferSteps
      <4> QED BY <3>1, <4>1, StillRunning
    <3>2. CASE i # j
      <4>1. kind'[i] = kind[i] /\ st'[i] = st[i]
        BY <1>0, <1>23, <3>2 DEF QuitAnswered, At, Running, Settle
      <4> QED BY <4>1, SameOutcome
    <3> QED BY <3>1, <3>2
  <2> QED BY <2>1, <2>2, Unmoved
<1>24. ASSUME NEW j \in Jobs, WriteChunk(j)
      PROVE  Atomic(i)!Next \/ DownloadStays(i)
  <2>1. UNCHANGED <<kind, st, saved, partFile>>
        /\ j \notin saved \cup partFile /\ (i # j => near'[i] = near[i])
    BY <1>0, <1>24 DEF WriteChunk, Moving, At, Running, Over, Outcomes, commands,
       disk, PartInv
  <2> QED BY <2>1, SameOutcome, Unmoved
<1>25. ASSUME NEW j \in Jobs, NotConnected(j)
      PROVE  Atomic(i)!Next \/ DownloadStays(i)
  <2>1. CASE i = j
    <3>1. kind'[i] = kind[i] /\ ~Over(i) /\ st'[i] \in {"failed", "cancelled"}
      BY <1>0, <1>25, <2>1, GrantedFacts DEF NotConnected, Granted, Running,
         Skip, Over, Outcomes, TypeOK, CommandsTyped
    <3>2. i \notin saved /\ i \notin saved' /\ i \notin partFile'
      BY <1>25, <2>1, <3>1, GrantedFacts DEF NotConnected, disk, PartInv,
         Running
    <3> QED BY <3>1, <3>2, FailureAborts DEF PartInv
  <2>2. CASE i # j
    <3>1. kind'[i] = kind[i] /\ st'[i] = st[i] /\ near'[i] = near[i]
          /\ (i \in saved' <=> i \in saved) /\ (i \in partFile' <=> i \in partFile)
      BY <1>0, <1>25, <2>2 DEF NotConnected, Granted, Running, Skip, data, disk
    <3> QED BY <3>1, SameOutcome, Unmoved
  <2> QED BY <2>1, <2>2
<1>26. ASSUME NEW j \in Jobs, OpenFails(j)
      PROVE  Atomic(i)!Next \/ DownloadStays(i)
  <2>1. CASE i = j
    <3>1. kind'[i] = kind[i] /\ ~Over(i) /\ st'[i] \in {"failed", "cancelled"}
      BY <1>0, <1>26, <2>1 DEF OpenFails, At, Running, Settle, Over, Outcomes,
         TypeOK, CommandsTyped
    <3>2. i \notin saved /\ i \notin saved' /\ i \notin partFile'
      BY <1>26, <2>1, <3>1 DEF OpenFails, disk, PartInv, At, Running
    <3> QED BY <3>1, <3>2, FailureAborts DEF PartInv
  <2>2. CASE i # j
    <3>1. kind'[i] = kind[i] /\ st'[i] = st[i] /\ near'[i] = near[i]
          /\ (i \in saved' <=> i \in saved) /\ (i \in partFile' <=> i \in partFile)
      BY <1>0, <1>26, <2>2 DEF OpenFails, At, Running, Settle, disk
    <3> QED BY <3>1, SameOutcome, Unmoved
  <2> QED BY <2>1, <2>2
<1>27. ASSUME NEW j \in Jobs, NotCompleted(j)
      PROVE  Atomic(i)!Next \/ DownloadStays(i)
  <2>1. CASE i = j
    <3>1. kind'[i] = kind[i] /\ ~Over(i) /\ st'[i] \in {"failed", "cancelled"}
      BY <1>0, <1>27, <2>1 DEF NotCompleted, At, Running, Settle, Over,
         Outcomes, TypeOK, CommandsTyped
    <3>2. i \notin saved /\ i \notin saved' /\ i \notin partFile'
      BY <1>27, <2>1, <3>1 DEF NotCompleted, PartInv, At, Running
    <3> QED BY <3>1, <3>2, FailureAborts DEF PartInv
  <2>2. CASE i # j
    <3>1. kind'[i] = kind[i] /\ st'[i] = st[i] /\ near'[i] = near[i]
          /\ (i \in saved' <=> i \in saved) /\ (i \in partFile' <=> i \in partFile)
      BY <1>0, <1>27, <2>2 DEF NotCompleted, At, Running, Settle, data
    <3> QED BY <3>1, SameOutcome, Unmoved
  <2> QED BY <2>1, <2>2
<1>28. ASSUME NEW j \in Jobs, Drained(j)
      PROVE  Atomic(i)!Next \/ DownloadStays(i)
  <2>1. CASE i = j
    <3>1. kind'[i] = kind[i] /\ ~Over(i) /\ st'[i] \in {"failed", "cancelled"}
      BY <1>0, <1>28, <2>1 DEF Drained, At, Running, Settle, Over, Outcomes,
         TypeOK, CommandsTyped
    <3>2. i \notin saved /\ i \notin saved' /\ i \notin partFile'
      BY <1>28, <2>1, <3>1 DEF Drained, PartInv, At, Running
    <3> QED BY <3>1, <3>2, FailureAborts DEF PartInv
  <2>2. CASE i # j
    <3>1. kind'[i] = kind[i] /\ st'[i] = st[i] /\ near'[i] = near[i]
          /\ (i \in saved' <=> i \in saved) /\ (i \in partFile' <=> i \in partFile)
      BY <1>0, <1>28, <2>2 DEF Drained, At, Running, Settle, data
    <3> QED BY <3>1, SameOutcome, Unmoved
  <2> QED BY <2>1, <2>2
<1>29. ASSUME NEW j \in Jobs, DrainGivesUp(j)
      PROVE  Atomic(i)!Next \/ DownloadStays(i)
  <2>1. CASE i = j
    <3>1. kind'[i] = kind[i] /\ ~Over(i) /\ st'[i] \in {"failed", "cancelled"}
      BY <1>0, <1>29, <2>1 DEF DrainGivesUp, At, Running, Settle, Over,
         Outcomes, TypeOK, CommandsTyped
    <3>2. i \notin saved /\ i \notin saved' /\ i \notin partFile'
      BY <1>29, <2>1, <3>1 DEF DrainGivesUp, PartInv, At, Running
    <3> QED BY <3>1, <3>2, FailureAborts DEF PartInv
  <2>2. CASE i # j
    <3>1. kind'[i] = kind[i] /\ st'[i] = st[i] /\ near'[i] = near[i]
          /\ (i \in saved' <=> i \in saved) /\ (i \in partFile' <=> i \in partFile)
      BY <1>0, <1>29, <2>2 DEF DrainGivesUp, At, Running, Settle, data
    <3> QED BY <3>1, SameOutcome, Unmoved
  <2> QED BY <2>1, <2>2
<1>30. ASSUME NEW j \in Jobs, CreatePart(j)
      PROVE  Atomic(i)!Next \/ DownloadStays(i)
  <2>1. CASE i = j
    <3>1. /\ near[i] = 0 /\ near' = near /\ i \in partFile' /\ i \notin partFile
          /\ UNCHANGED <<kind, st, saved>> /\ ~Over(i)
      BY <1>0, <1>30, <2>1 DEF CreatePart, At, Running, Over, Outcomes, commands,
         data, PartInv
    <3>2. /\ PartOf(i) = NoFile /\ PartOf(i)' = <<>>
          /\ Destination(i)' = Destination(i)
          /\ OutcomeOf(i) = "running" /\ OutcomeOf(i)' = OutcomeOf(i)
      BY <3>1 DEF PartOf, Destination, OutcomeOf, Over, Prefix
    <3> QED BY <3>2 DEF Atomic!Next, Atomic!Begin
  <2>2. CASE i # j
    <3>1. kind'[i] = kind[i] /\ st'[i] = st[i] /\ near'[i] = near[i]
          /\ (i \in saved' <=> i \in saved) /\ (i \in partFile' <=> i \in partFile)
      BY <1>0, <1>30, <2>2 DEF CreatePart, At, Running, commands, data
    <3> QED BY <3>1, SameOutcome, Unmoved
  <2> QED BY <2>1, <2>2
<1>31. ASSUME NEW j \in Jobs, ReadChunk(j)
      PROVE  Atomic(i)!Next \/ DownloadStays(i)
  <2>1. CASE i = j
    <3>1. /\ near[i] \in Nat /\ near[i] < Chunks /\ near'[i] = near[i] + 1
          /\ i \in partFile /\ i \in partFile' /\ i \notin saved
          /\ UNCHANGED <<kind, st, saved>> /\ ~Over(i)
      BY <1>0, <1>31, <2>1, ChunksAssumption DEF ReadChunk, Moving, At, Running,
         Over, Outcomes, commands, disk, PartInv
    <3>2. /\ PartOf(i) = Prefix(near[i]) /\ PartOf(i)' = Prefix(near[i] + 1)
          /\ Destination(i)' = Destination(i)
          /\ OutcomeOf(i) = "running" /\ OutcomeOf(i)' = OutcomeOf(i)
      BY <3>1 DEF PartOf, Destination, OutcomeOf, Over, Prefix
    <3>3. PartOf(i) # NoFile
      BY <3>1, <3>2, NoFileAssumption DEF Prefix
    <3> QED BY <3>1, <3>2, <3>3, PrefixGrows DEF Atomic!Next, Atomic!Grow
  <2>2. CASE i # j
    <3>1. kind'[i] = kind[i] /\ st'[i] = st[i] /\ near'[i] = near[i]
          /\ (i \in saved' <=> i \in saved) /\ (i \in partFile' <=> i \in partFile)
      BY <1>0, <1>31, <2>2 DEF ReadChunk, Moving, At, Running, commands, disk
    <3> QED BY <3>1, SameOutcome, Unmoved
  <2> QED BY <2>1, <2>2
<1>32. ASSUME NEW j \in Jobs, Completed(j)
      PROVE  Atomic(i)!Next \/ DownloadStays(i)
  <2>1. CASE i = j
    <3>1. /\ kind' = kind /\ near' = near /\ ~Over(i) /\ st'[i] = "done"
          /\ i \notin partFile' /\ i \notin saved
      BY <1>0, <1>32, <2>1 DEF Completed, At, Running, Settle, Over, Outcomes,
         data, PartInv
    <3>2. CASE kind[i] = "download"
      <4>1. i \in saved' /\ i \in partFile
        BY <1>32, <2>1, <3>2 DEF Completed, At, PartInv
      <4>2. replies # <<>> /\ Head(replies).code = "complete" /\ step = "final"
            /\ Running(i)
        BY <1>32, <2>1 DEF Completed, At, Read, Answered
      <4>3. replies[1].code = "complete" /\ replies[1].job = i
            /\ 1 \in DOMAIN replies
        BY <4>2, AnswerFacts
      <4>4. near[i] = Chunks
        BY <3>2, <4>2, <4>3 DEF DownloadInv, NotComplete
      <4>5. /\ PartOf(i) = Prefix(Chunks) /\ PartOf(i)' = NoFile
            /\ Destination(i)' = Prefix(Chunks)
            /\ OutcomeOf(i) = "running" /\ OutcomeOf(i)' = "done"
        BY <3>1, <3>2, <4>1, <4>4 DEF PartOf, Destination, OutcomeOf, Over,
           Outcomes, Prefix
      <4> QED BY <4>5 DEF Atomic!Next, Atomic!Publish, Atomic!Whole, Prefix
    <3>3. CASE kind[i] # "download"
      <4>1. saved' = saved /\ i \notin partFile
        BY <1>32, <2>1, <3>3 DEF Completed, PartInv
      <4> QED BY <3>1, <3>3, <4>1, StillRunning, Unmoved
    <3> QED BY <3>2, <3>3
  <2>2. CASE i # j
    <3>1. kind'[i] = kind[i] /\ st'[i] = st[i] /\ near'[i] = near[i]
          /\ (i \in saved' <=> i \in saved) /\ (i \in partFile' <=> i \in partFile)
      BY <1>0, <1>32, <2>2 DEF Completed, At, Running, Settle, data
    <3> QED BY <3>1, SameOutcome, Unmoved
  <2> QED BY <2>1, <2>2
<1>33. CASE UNCHANGED vars
  BY <1>1, <1>33 DEF vars, commands, control, data, disk, cancels
<1> QED BY <1>1, <1>2, <1>3, <1>4, <1>5, <1>6, <1>7, <1>8, <1>9, <1>10, <1>11,
     <1>12, <1>13, <1>14, <1>15, <1>16, <1>17, <1>18, <1>19, <1>20, <1>21,
     <1>22, <1>23, <1>24, <1>25, <1>26, <1>27, <1>28, <1>29, <1>30, <1>31,
     <1>32, <1>33, <1>34, <1>35, <1>36
     DEF Next, Client, Begin, Transfer, Server

\* Every download of the session implements AtomicDownload.
THEOREM DownloadsImplement == Safety => DownloadsAtomic
<1>1. Init => \A j \in Jobs : Atomic(j)!Init
  BY DEF Init, Atomic!Init, Destination, PartOf, OutcomeOf, Over, Outcomes
<1>2. IInv /\ [Next]_vars
        => [~unread => \A j \in Jobs : Atomic(j)!Next \/ DownloadStays(j)]_vars
  BY AtomicNext
<1> QED BY <1>1, <1>2, Inductive, PTL DEF Safety, DownloadsAtomic


-----------------------------------------------------------------------------
(* What is over is over, also where an answer was left unread.             *)

\* Once a command is over no step changes its outcome, what the page was told
\* of it, its destination or its `.part`: a late answer, a cancel pressed after
\* the end, a quit of the session change nothing of it.
Told(j) == <<kind[j], st[j], bar[j], near[j], j \in partFile, j \in saved>>
OverIsFinal == [][\A j \in Jobs : Over(j) => UNCHANGED Told(j)]_vars

\* A command that is over left no `.part`, and one that did not end well left
\* the destination alone.  DownloadsAtomic says so only while no answer was
\* left unread; of a failure it holds all the same.
FailedLeavesNothing ==
  \A j \in Jobs :
    Over(j) => j \notin partFile /\ (st[j] # "done" => j \notin saved)

SavedInv == \A j \in saved : st[j] = "done"

\* A step that is not about i, or not about what was told of it.
LEMMA NotAbout ==
  ASSUME NEW i, UNCHANGED <<kind, st, bar, near, partFile, saved>>
  PROVE  UNCHANGED Told(i)
BY DEF Told

\* The command a step is about is not over, and the step renames only the
\* `.part` of a download it makes Done.
LEMMA OverStep ==
  ASSUME IInv, [Next]_vars
  PROVE  /\ \A i \in Jobs : Over(i) => UNCHANGED Told(i)
         /\ \A i \in saved' \ saved : st'[i] = "done"
<1> DEFINE Goal == /\ \A i \in Jobs : Over(i) => UNCHANGED Told(i)
                   /\ \A i \in saved' \ saved : st'[i] = "done"
<1>0. /\ kind \in [Jobs -> Kinds \cup {"none"}]
      /\ st \in [Jobs -> Outcomes \cup {"unborn", "queued", "running"}]
      /\ near \in [Jobs -> 0..Chunks] /\ saved \subseteq Jobs
      /\ bar \in [Jobs -> {"none", "started", "done", "error"}]
  BY DEF IInv, TypeOK, CommandsTyped, DataTyped, PageTyped
<1> USE <1>0
<1>1. ASSUME UNCHANGED <<kind, st, bar, near, partFile, saved>> PROVE Goal
  BY <1>1, NotAbout
<1>2. ASSUME NEW j \in Jobs, ~Over(j), saved' = saved,
             \A i \in Jobs \ {j} :
               /\ kind'[i] = kind[i] /\ st'[i] = st[i] /\ bar'[i] = bar[i]
               /\ near'[i] = near[i] /\ (i \in partFile') = (i \in partFile)
      PROVE  Goal
  BY <1>2 DEF Told
<1>3. \A j \in Jobs : Running(j) \/ Granted(j) => ~Over(j)
  BY GrantedFacts DEF Running, Over, Outcomes
<1>4. ASSUME NEW j \in Jobs, NEW k \in Kinds, Issue(j, k) PROVE Goal
  BY <1>2, <1>4 DEF Issue, Over, Outcomes, data, disk
<1>5. ASSUME NEW j \in Jobs, Begin(j) PROVE Goal
  <2>1. ~Over(j) /\ saved' = saved
    BY <1>3, <1>5 DEF Begin, NotConnected, BeginUpload, NoSource,
       BeginDownload, BeginSimple, BeginConnect, BeginQuit, disk
  <2>2. UNCHANGED <<near, partFile, kind>>
    BY <1>5 DEF Begin, NotConnected, BeginUpload, NoSource, BeginDownload,
       BeginSimple, BeginConnect, BeginQuit, disk, data, Enter, Skip
  <2>3. \A i \in Jobs \ {j} : st'[i] = st[i] /\ bar'[i] = bar[i]
    BY <1>5 DEF Begin, NotConnected, BeginUpload, NoSource, BeginDownload,
       BeginSimple, BeginConnect, BeginQuit, Enter, Skip, Tell
  <2> QED BY <1>2, <2>1, <2>2, <2>3
<1>6. ASSUME NEW j \in Jobs,
             SimpleAnswered(j) \/ ListingFails(j) \/ QuitAnswered(j)
      PROVE  Goal
  BY <1>2, <1>3, <1>6 DEF SimpleAnswered, ListingFails, QuitAnswered, At,
     Settle, data, disk
<1>7. ASSUME NEW j \in Jobs,
             \/ SizeAnswered(j) \/ PortAnswered(j)
             \/ Dialled(j) \/ OpenAnswered(j)
      PROVE  Goal
  BY <1>2, <1>3, <1>7 DEF SizeAnswered, PortAnswered, Dialled, OpenAnswered,
     At, Tell, commands, data, disk
<1>8. ASSUME NEW j \in Jobs, OpenFails(j) \/ DialFails(j) PROVE Goal
  BY <1>2, <1>3, <1>8 DEF OpenFails, DialFails, At, Settle, Tell, disk
<1>9. ASSUME NEW j \in Jobs, WriteChunk(j) \/ ReadChunk(j) PROVE Goal
  BY <1>2, <1>3, <1>9 DEF WriteChunk, ReadChunk, Moving, At, commands, disk
<1>10. ASSUME NEW j \in Jobs, CreatePart(j) PROVE Goal
  BY <1>2, <1>3, <1>10 DEF CreatePart, At, commands, data
<1>11. ASSUME NEW j \in Jobs, LastChunk(j) \/ DataFails(j) \/ CancelHeard(j)
       PROVE  Goal
  BY <1>1, <1>11 DEF LastChunk, DataFails, CancelHeard, Abort, commands, disk
<1>12. ASSUME NEW j \in Jobs, Completed(j) PROVE Goal
  <2>1. ~Over(j) /\ st'[j] = "done" /\ saved' \ saved \subseteq {j}
    BY <1>3, <1>12 DEF Completed, At, Settle
  <2>2. ASSUME NEW i \in Jobs, i # j PROVE UNCHANGED Told(i)
    <3>1. /\ kind'[i] = kind[i] /\ st'[i] = st[i] /\ bar'[i] = bar[i]
          /\ near'[i] = near[i]
      BY <1>12, <2>2 DEF Completed, Settle, Tell, data
    <3>2. (i \in partFile') = (i \in partFile) /\ (i \in saved') = (i \in saved)
      BY <1>12, <2>2 DEF Completed
    <3> QED BY <3>1, <3>2 DEF Told
  <2> QED BY <2>1, <2>2
<1>13. ASSUME NEW j \in Jobs, NotCompleted(j) \/ Drained(j) \/ DrainGivesUp(j)
       PROVE  Goal
  <2>1. ~Over(j) /\ saved' = saved /\ UNCHANGED <<kind, near>>
    BY <1>3, <1>13 DEF NotCompleted, Drained, DrainGivesUp, At, Settle, data
  <2>2. \A i \in Jobs \ {j} : st'[i] = st[i] /\ bar'[i] = bar[i]
    BY <1>13 DEF NotCompleted, Drained, DrainGivesUp, Settle, Tell
  <2>3. \A i \in Jobs \ {j} : (i \in partFile') = (i \in partFile)
    BY <1>13 DEF NotCompleted, Drained, DrainGivesUp
  <2> QED BY <1>2, <2>1, <2>2, <2>3
<1>14. ASSUME NEW j \in Jobs, Return(j) \/ PressCancel(j) PROVE Goal
  BY <1>1, <1>14 DEF Return, PressCancel, commands, data, disk
<1>15. ASSUME NEW j \in Jobs, Relay(j) \/ Complete(j) \/ Incomplete(j) PROVE Goal
  BY <1>1, <1>15 DEF Relay, Complete, Incomplete, CloseTransfer, commands, disk
<1>16. ASSUME Serve \/ LoseLink \/ UNCHANGED vars PROVE Goal
  BY <1>1, <1>16 DEF Serve, LoseLink, vars, commands, data, disk
<1> QED
  BY <1>4, <1>5, <1>6, <1>7, <1>8, <1>9, <1>10, <1>11, <1>12, <1>13, <1>14,
     <1>15, <1>16 DEF Next, Client, Transfer, Server

\* Nothing that comes late changes what a command became.
THEOREM OutcomesStay == Safety => OverIsFinal
<1>1. IInv /\ [Next]_vars => [\A j \in Jobs : Over(j) => UNCHANGED Told(j)]_vars
  BY OverStep
<1> QED BY <1>1, Inductive, PTL DEF Safety, OverIsFinal

\* A transfer that failed or was cancelled leaves the disk as it found it,
\* whatever answers were left unread.
THEOREM FailuresLeaveNothing == Safety => []FailedLeavesNothing
<1>1. Init => SavedInv
  BY DEF Init, SavedInv
<1>2. IInv /\ SavedInv /\ [Next]_vars => SavedInv'
  <2> SUFFICES ASSUME IInv, SavedInv, [Next]_vars, NEW j \in saved'
               PROVE  st'[j] = "done"
    BY DEF SavedInv
  <2>1. CASE j \in saved
    <3>1. j \in Jobs /\ st[j] = "done"
      BY <2>1 DEF SavedInv, IInv, TypeOK, DataTyped
    <3>2. UNCHANGED Told(j)
      BY <3>1, OverStep DEF Over, Outcomes
    <3> QED BY <3>1, <3>2 DEF Told
  <2>2. CASE j \notin saved
    BY <2>2, OverStep
  <2> QED BY <2>1, <2>2
<1>3. IInv /\ SavedInv => FailedLeavesNothing
  BY DEF IInv, PartInv, SavedInv, FailedLeavesNothing, Over, Running, Outcomes
<1> QED BY <1>1, <1>2, <1>3, Inductive, PTL DEF Safety

=============================================================================
