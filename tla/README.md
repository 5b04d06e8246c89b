# A TLA+ model of ftp-toolbox

ftp-toolbox is a desktop application that runs an FTP, a TFTP and an SFTP
server and the clients of the same protocols.  `src/crates/ftp-core` is the
engine (tokio), `src/app/src-tauri/src/lib.rs` the shell that exposes it to the
page as commands and events, `src/app/ui` the page.  This directory holds TLA+
modules of its concurrent core, the TLC configurations that check them on small
instances, and theorems about them checked by TLAPS.

    tlc -config MC_slot.cfg ServerSlot      # a run, see PROJECT.json "runs"
    tlapm ServerSlot_proofs.tla             # the proofs of a module

Contents: [the system](#the-system), [the modules](#the-modules),
[the runs](#the-runs), [bounds](#bounds), [fairness](#fairness),
[the proofs](#the-proofs), [disagreements](#disagreements-between-code-and-comments),
[what is not modelled](#not-modelled), [what could come next](#what-could-come-next).

## The system

Paths are relative to `src/crates/ftp-core/src` unless they start with `app/`.

| Component | State it keeps | Operations | Hard because |
|---|---|---|---|
| server lifecycle (`lifecycle.rs`) | `running`, `sessions`, `stop_requested`, a watch channel with a snapshot of the first two | `publish`, the guard of the accept loop, the guard of a session | three atomics and a channel, written by all tasks of the server without a lock |
| accept loops and session tasks (`ftp/server.rs`, `tftp/server.rs`, `sftp/server.rs`) | listener, broadcast sender of the stop, the receiver of each task, russh's session | accept, spawn, `signal_stop`, `stop`, `Drop` of the handle | a stop races accepts, spawns, the end of sessions and a loop that dies |
| server slot (shell) | `Mutex<Option<Handle>>` per kind of server | `*_start`, `*_stop`, `*_status`, the forwarder of the state to the page | commands interleave at awaits; the forwarders of two servers emit the same event |
| TFTP protocol, client, server (`tftp/`) | block number, retry counter, `.part` file, one session per request | RRQ, WRQ, OACK, DATA, ACK, ERROR, retransmission, cancel | datagrams are lost, repeated, late; block numbers wrap; a request may open several sessions |
| transfer cancellation (`cancel.rs`) | map from id to token | register, unregister, cancel, the waits that watch a token | a cancel may come before, in or after the transfer |
| transfer commands (shell) | the client sessions behind async mutexes | connect, disconnect, upload, download, cancel | a transfer holds the lock for its length; a disconnect waits for it |
| FTP client (`ftp/client.rs`) | the control connection, a data connection, the `.part` file | upload, download, abort | an abort leaves a response to be drained, or the next command reads it |
| SFTP client (`sftp/client.rs`) | the session, the known hosts, the `.part` file | trust on first use, upload, download | as for FTP |
| SFTP server session (`sftp/server.rs`) | open handles, each with its path and file | open, close, read, write, readdir, rename, setstat, ... | handles outlive renames; several sessions share a tree |
| host keys, known hosts, certificate (`sftp/keys.rs`, `tls.rs`) | files | load or generate, regenerate, check, trust, update, forget | read-modify-write without a lock, two files written one after the other, a crash or a failed write between two of the steps |
| passive ports, bind diagnosis, interfaces (`ftp/passive.rs`, `error.rs`, `net.rs`) | none | pure functions | closed and half-open ranges, 16-bit boundaries |
| the page (`app/ui`) | status and busy flag of each card, transfers, the tree of the remote browser | commands, event listeners | answers and pushed events arrive in either order |

How they interact.  A command of the page calls the shell; `*_start` binds a
server, stores its handle in the slot and spawns a forwarder, which copies each
new snapshot of the server's watch channel to the page as an event.  `*_stop`
takes the handle out of the slot, sends the stop over the broadcast channel and
waits for the accept loop's task.  The accept loop spawns a task per session;
both publish through the shared state.  A transfer command registers a token in
the cancel registry, runs the engine's transfer under the client session's lock
and forwards its events to the page.

What makes each component correct: *lifecycle*: the counter is the number of live
sessions however they end, the published snapshot is the actual state but for
overlapping publishes, no false alarm.  *Accept loops*: a stop ends everything and
frees the port before it returns.  *Slot*: no server is left without a handle, a
stop that returned lets the next start bind, nothing is lost on the way to the
page.  *TFTP*: both ends stay in step whatever the network does, `.part` replaces
the destination whole or not at all, an upload stays under the cap, both ends give
up in the end.  *Cancellation and transfers*: a cancel reaches the transfer it was
meant for and leaves the session usable.  *SFTP server*: an operation works on the
file its handle was opened on, a failed rename loses nothing that it moves, a
block that was acknowledged and not written is told of, a read-only server changes
nothing.  *Keys*: a trusted host stays trusted and is what the user confirmed,
certificate and key match, a fingerprint that was told stays the one on disk.
*Page*: it shows the last state pushed, and its buttons come back. `PROJECT.json`
lists, under "hazards", the line where each of these can go wrong and the property
that watches it.

## The modules

| Module | Stands for | Lines |
|---|---|---|
| `ServerContract` | what a server promises to whoever drives it: the abstract specification | 61 |
| `ServerLifecycle` | one server: shared state, accept loop, session tasks, stop of the handle | 391 |
| `ServerSlot` | the shell's slot, the servers it held with their watch channels and forwarders, and the page | 485 |
| `AtomicDownload` | what a download promises about the local disk: the abstract specification | 60 |
| `TftpNet` | datagrams, network and block counter, common to the two directions | 49 |
| `TftpDownload` | RRQ: client against the sessions of the server | 437 |
| `TftpUpload` | WRQ: client against the sessions of the server | 473 |
| `FtpClient` | the FTP session of the shell: its commands, their mutex, transfers, cancellation, against a server | 576 |
| `SftpSession` | the SFTP sessions of a server on one shared directory: channels, handles, requests | 523 |
| `KnownHosts` | the known_hosts file, the commands and the page that trust, connect, update and remove | 524 |
| `KeyFiles` | the FTPS certificate and the SSH host key as pairs of files | 234 |
| `MC_sftp_session`, `MC_known_hosts` | the sets and symmetries of two runs, which a configuration file cannot hold | 15, 17 |
| `*_proofs` | theorems about the module of that name | |

`ServerLifecycle` implements `ServerContract`, by TLC with its fairness
(`ContractSpec`) and by proof without (`ContractSafety`); `ServerSlot` composes
several servers and takes from the contract what it assumes of each: once told to
stop, its loop and its sessions end.  `TftpDownload` implements `AtomicDownload`
(`AtomicSafety`), and so does every download of `FtpClient` while its session is
in step (`DownloadsAtomic`).

In every module the definitions introduced by "Variant of" are deliberate
mistakes: they are never part of `Next`, and PROJECT.json "mutants" says which
definition each replaces and which property then fails.

### ServerLifecycle

The grain is one access to shared memory, because that is where the races of
`lifecycle.rs` are.

| Model | Code |
|---|---|
| `running`, `sessions`, `stopRequested`, `watch` | the fields of `ServerShared` |
| `EnterPublish`, `LoadRunning`, `LoadSessions`, `Replace` | `publish()`: two loads, then `send_replace` |
| `pc[Loop]`, `Accept`, `Spawn` | the accept branch of `select!`: `session()` counts and publishes, then the task subscribes to the broadcast and is spawned |
| `LoopStop`, `LoopDies`, `DropLoopGuard`, `ReportExit`, `DropCaptures` | the stop branch; a panic or the application's shutdown channel; `LoopGuard::drop`; the captured listener and sender dropped after the guard |
| `HandshakeDone`, `SessionEnds`, `SessionStopped`, `Disconnected`, `DropSessionGuard`, `SessionGone` | a session task from spawn to end |
| `RequestStop`, `SendStop`, `DropSender`, `StopReturns` | `signal_stop()` (flag, send, drop of the sender), and `stop()` that joins the loop |
| `inbox[t]`, `StopVisible` | the task's broadcast receiver: `recv()` returns on a message, or when every sender is gone |

`Detached = TRUE` is the SFTP server: after the handshake russh runs the session
in a task of its own, `conn` is the set of the peers still served and
`Disconnected` the moment russh processes the disconnect.  A session of the FTP
or TFTP server is one that never leaves the state "handshake": it is in `conn`
as long as its task serves it.  So the one run with `Detached = TRUE` covers the
three servers; the theorems hold for both values.  A session slot is reused as
soon as its task and its connection are over, so the number of sessions over
time is unbounded.

History variables: `exitCause`, `alarm`, `cut`, `overlapped`.  The code has no
such state; they only say what happened.

### ServerSlot

The grain is what a command does between two awaits.  `slot` is the
`Mutex<Option<Handle>>`, `pc`/`arg` the command of each caller, `life[i]` the
i-th server that was bound: "up", then "closing" or "dying" when the run flag has
fallen, after a stop or without one, "down" when the loop's task is over and the
socket closed.  `watch` is the value in each server's watch channel, `unseen` its
version check, `fwd`/`got` the forwarder, `ui` what the page shows, whose event
(`from`) or answer that was, and whether the answer was `late`.

| Model | Code |
|---|---|
| `BeginStart`, `RefuseStart`, `Bind`, `BindFails`, `Store` | the guard of `*_start`, the engine's start, `replace` of the handle and the spawn of the forwarder |
| `BeginStop`, `RefuseStop`, `EndStop` | `*_stop` |
| `BeginRefresh`, `Ask`, `Reply` | `*_status`, which every start and stop of the page ends with |
| `ReadState`, `Emit`, `Changed`, `Gone` | the loop of `forward_server_state` |
| `EnterPublish`, `LoadRunning`, `LoadSessions`, `Replace` | `publish()`, access by access, of the loop and of each leaving session (`pub[i][t]`) |
| `Admit`, `Leave`, `LoopEnds`, `Close` | the server in the large: a session counted, a session gone, the flag down, the socket closed |

What the forwarder reads is what the last `Replace` stored, so an overlap of two
publishes reaches the page here as it does in the code.  History variables:
`killed` (a start or store cost a running server), `overlapped` (the servers of
which two publishes overlapped), `passed` (the commands whose answer was read
before an event that the page got first; `ui.late` is set when such an answer is
shown).

`Cards` are the callers of start and stop; the page disables
the buttons of a card while one of its commands is pending, so there is one.
With two (`Cards = {c1, c2}`, two ports) overlapping starts can replace a
running server, so `OneCardIsSafe` (`LiveServerKept` and `RestartFindsPortFree`)
is stated for one card; `NoOrphan` is proved for any number.

### TftpNet, TftpDownload, TftpUpload

A file is the chunks 1, 2, ..., `Chunks`; a datagram carries the true position of
its block, and the code's comparisons see it modulo `Wrap` (`SameBlock`).  The
network is the set of all datagrams sent: receiving does not remove one
(duplication), nothing must be received (loss), any order is possible
(reordering).  The only limit is `Life`: a datagram is not delivered once the
transfer has moved on by `Life` blocks, and `Life < Wrap` - without that
assumption a 16-bit protocol cannot work at all; in the code `Wrap` is 65536.

The client is `cpc`, with `peer` the session whose port its socket is connected
to, `want` or `cblk` the block it waits for or sends, `ctries` the iteration of
the retry loop.  `stray` is the set of datagrams of other sessions that were in
the socket's queue before `connect()` and are read after it.  A session of the
server is `spc`, `sblk`/`swant`, `stries`.  There are several because every copy
of the request opens one; the client itself sends a second copy after a
timeout.  `options` is chosen at the start and says whether the server's first
answer is an OACK, or DATA 1 or ACK 0 from a peer that knows no options.

Each wait of the code is a bounded `for` around a receive under a timer;
`SpendTry` and `SpendSessionTry` are one iteration of it, the last of which is
the timeout.  Failures of the disk or the socket are the actions `*IoError`,
`SaveFails`, `OpenFails`, `Refuse`, `SessionDies`, at the calls that may fail;
the number of Error events a failure emits is the code's (a failed wait of a
download emits two, a failed send in a handshake none).  `File::create` of
`.part` fails in the same way as the first write and is folded into
`ReceiveIoError`.  A cancel that rises once the last block is written
("saving") is not seen, as in the code.

In `TftpUpload`, `file` is the file under the upload's name and `linked` the
sessions whose open handle is that file: opening truncates it for everybody, and
a removal by the cap leaves handles to an unlinked file.  `WriteAt` is a write
at the session's own offset, so that a file truncated by another session gets a
hole (chunk 0).  `cap`, one of `Caps`, is the upload limit in chunks; without
options the size of an upload is not declared and the cap is met in the middle.

tokio's `write_all` hands a block to a writing thread and returns; the next
write waits for that thread and gets its error, and so does the flush that
follows the last ACK.  `wbuf[s]` is the block under way, `broken` the sessions a
write of which failed: `GetData` takes a block when neither is in its way
(`TakesBlock`) and acknowledges it before it is on the disk, `WriteLands` and
`WriteFails` are the thread, which goes on when its session is over, and `Flush`
ends a session that has every block.  A session that dies of the error of the
write before is a `SessionDies`.

### FtpClient

The shell holds one FTP connection for all commands of the page, behind a tokio
mutex.  The model has the commands as jobs in a queue, so that what one leaves
behind meets the next: FTP answers in order, and an answer does not say what it
answers.

| Model | Code |
|---|---|
| `queue`, `Granted`, `Enter`, `Settle` | `AppState.ftp_client.lock().await`, granted first come first served, and the guard dropped at the end of the command |
| `conn`, `requests`, `replies`, `serving` | the control connection: commands under way, answers under way, the transfer the server is busy with |
| `BeginConnect`, `BeginQuit`, `QuitAnswered` | `ftp_connect`, which logs in before it locks and quits the old connection after, and `ftp_disconnect` |
| `BeginSimple`, `SimpleAnswered`, `ListingFails` | `ftp_list`, `ftp_list_detailed`, `ftp_mkdir`; a listing whose data connection fails |
| `BeginUpload`, `NoSource`, `BeginDownload`, `SizeAnswered` | the token registered under the lock, the local file opened, SIZE |
| `PortAnswered`, `Dialled`, `OpenAnswered` | `put_with_stream`, `retr_as_stream`: the answer to PASV, after which STOR or RETR is sent; then the data connection; then the mark |
| `OpenFails`, `DialFails` | PASV, STOR or RETR refused; a data connection, or its TLS handshake, that fails, with the answers to STOR or RETR still to come |
| `WriteChunk`, `CreatePart`, `ReadChunk`, `LastChunk` | the chunk loops |
| `DataFails`, `CancelHeard`, `Drained`, `DrainGivesUp` | a failed or stalled chunk, a token that fired, and `drain_closing_response` with its 30 s |
| `Completed`, `NotCompleted` | `finalize_*_stream`, the rename of `.part`, the last event |
| `registered`, `fired`, `PressCancel`, `Return` | `CancelRegistry` |
| `Serve`, `Relay`, `Complete`, `Incomplete`, `LoseLink` | the server and the network, external |

A file is `Chunks` chunks, moved in order, so the numbers moved by the client
(`near`) and by the server (`far`) say which they are.  An upload whose data
connection is cut goes on to its end, as in the code, which does not look at the
result of a write.  The server is honest: it completes a download it has sent in
full, and an upload of which it has all that was sent; it cannot tell an aborted
upload from a whole one.  A data connection that is made after the server has
done with the transfer is closed at once (`Expected`).  What is sent on a lost
connection reaches nobody.  The exchange of a listing is suppaftp's and one
request with one answer here; a transfer id is the number of its command, for the page
makes a fresh UUID each time.  The page runs one batch at a time, one file after
the other, and lists no new directory meanwhile (`useRemoteTree.ts:87`), which
is the guard of `Issue`.

`unread` is a history variable: on this connection the code itself has left an
answer unread.  There are two ways.  suppaftp sends STOR, RETR or LIST before it
connects the data stream and reads the first answer after; when that connection
fails, `put_with_stream`, `retr_as_stream`, `list` and `mlsd` return by `?`
(`ftp/client.rs:323, 455, 267, 275`), and nothing drains what the server still
answers.  And the drain of an aborted transfer gives up after 30 s.  From then on
the session is out of step, so `InSync`, `DoneMeansStored` and `DownloadsAtomic`
say nothing of a step taken then; what `InSync` says is that no third way exists.
What holds on an unsynchronised session as well - the bars, the tokens, the end
of every command, `OutcomesStay`, `FailuresLeaveNothing` - is stated without the
exception.

### SftpSession

A session answers one request at a time, so a request is one step, except where
the code lets go of the file system between two calls, or tokio goes on after
the answer.

| Model | Code |
|---|---|
| `waiting`, `chan`, `OpenChannel`, `AskSubsystem`, `EndChannel` | `SshSession::channel`, one slot for the channel opened last, and the subsystem request that takes it whichever channel it names |
| `kind`, `inode`, `path`, `flags` | a `SftpHandle`: an open file, or a directory; the path it was opened by |
| `Accepted`, `Mutating`, `OpenExisting`, `OpenNew`, `OpenDir` | `open` with every combination of flags, what a read-only server refuses of them, `opendir` |
| `Write`, `Land`, `flight`, `failed` | `write_all` on a `tokio::fs::File`: it returns when the block was handed to the blocking pool, and an error is given to the next write |
| `Close`, `Drop`, `late`, `LandLate` | a handle that is closed, or dropped with its session, while a block is under way; nothing flushes |
| `SetStat`, `FSetStat`, `PathOf`, `Stamp` | attributes by path; those of a handle are set through its path |
| `Remove`, `MkDir`, `RmDir` | the requests by path |
| `RenameLook`, `RenameClear`, `RenameMove`, `RenameFails` | `rename`: `symlink_metadata` of the target, its removal, the rename of the operating system; each may fail, and the other sessions run in between |
| `ReadBlock` | `read`, for the Progress it sends |
| `bar`, `Show`, `ShowNone` | the page's one progress slot (`App.tsx:51`): Started and Progress put their transfer in it, the Done of any empties it |

`tree` maps a path to a file, a directory or nothing, `size` and `stamp` are
contents and attributes of a file.  The root is the path `<<>>`.  History
variables: `owed` (blocks acknowledged, neither written nor denied), `astray`
(the path of a handle was renamed, replaced or removed), `source` and `crossed`
(what a rename moves, and whether another session touched it), `crowded` (two
channels were open at a time before either was served).  A request that is
refused, or only looks, changes none of this and is a stuttering step.  The
slot is told apart by handle; the page tells transfers apart by path and
direction, which matters to the speed it shows and not to when the slot is
emptied.  A file that is open need not be shown: the Done of another empties
the slot until its next block.

### KnownHosts

The file is read, changed and written back by three commands and by the
handshake of a connect, each on a thread of its own and without a lock; every
access to the file is a step.

| Model | Code |
|---|---|
| `ClickConnect`, `Confirm`, `Dismiss`, `RemoveSelected`, `ClickDisconnect` | the buttons and the dialog of `SftpClientView.tsx`; `Confirm` acts on the endpoint the fields hold *now* |
| `busy`, `managing`, `prompt`, `connected` | the states of the page that disable or show something |
| `Dial`, `Probe`, `NoAnswer` | `fetch_host_fingerprint`: the connection and the exchange of SSH identifications, which nothing bounds, then the key exchange under the inactivity timeout of 10 s, which lives in russh's session task |
| `Checked`, `Verdict`, `Ask`, `Connect` | `check_known_host`, and what the page makes of the answer |
| `Handshake`, `Lookup`, `Accepted`, `Login` | the connect: the host key, its look-up, authentication and the channel |
| `Swap`, `Listed` | the new session takes the place of the old one under the mutex, outside the deadline; the first listing |
| `lock`, `Hold`, `Release` | the session's mutex, which a listing or a batch of transfers holds |
| `Disconnected`, `ServerStops` | the disconnect command, which waits for the mutex; the page that sees its own server stop and does not wait |
| `Deadline`, `op = "orphan"` | the 15 s around the connect: the caller gives up, russh's task stays behind and may still record the key |
| `Load`, `Changed` | the read of the records, which gives none when the file cannot be read (`Readings`) |
| `Replace`, `Truncate`, `Rewrite`, `SaveFails` | the temporary file and its rename; or, when that is refused, the truncation and the write in place, which may fail too |
| `Rekey`, `Crash` | a server gets another key; the app is killed at any step |

History variables: `book` is what the records would be if the writes had
happened one after the other; `shown` the dialog a command was confirmed in;
`hurt` that two writers overlapped, the file could not be read, or a write in
place was cut short.  These are the provisos of `TrustedStays` and
`OnlyUpdateOverwrites`: the code has no defence against the three, and each of
them alone can cost a record.

`TrustAsShown` has three provisos of its own: the fields still hold the endpoint
of the check, the dialog showed a fingerprint, and the server of that endpoint
has not changed its key (`turned`).  Outside them the code does record a key that
nobody was shown: the confirmed command looks at the server afresh and compares
nothing with the dialog.  The property says what is left: a key is recorded on a
confirmation only, an update on a warning only, and then the key shown.

`BusyEnds` has one: a check whose server accepts the connection and never sends
its SSH identification.  No timer of the code is running then, and the buttons
stay disabled for as long as the server likes.

### KeyFiles

`store` says which pair it is; `first` is the file the fingerprint is of,
written first, `second` the other.  The content of a file is the number of the
pair it was made with, or what is left when it was not (`Missing`, `Empty`,
`Broken`).  `Load` and `Look` are the command that loads the pair or makes it,
`Regenerate`, `RemoveFirst` and `RemoveSecond` the one that makes it anew,
`OpenFirst` to `FillSecond` the writes, each of which opens the file empty and
then fills it, `ReadBack` the answer, which for a certificate is read from the
file again.  `WriteFails` and `Crash` may leave a file half-filled.  `Parses` is
what a reader takes for a key: a private key is parsed, of a certificate only
the base64 of its body is decoded, so that an empty body has a fingerprint.
`shown` is the fingerprint told last, `hurt` and `cut` say that two commands
overlapped (or the pair could not be read for a moment), and that a write was
cut short.

## The runs

| Run | Module | What it asks |
|---|---|---|
| `lifecycle` | ServerLifecycle | counter = live guards, port free and flag down when stop returns, nothing ends without the cause it is reported with, the snapshot is current unless publishes overlapped; the server implements `ServerContract` with its fairness, so a stop closes the port and ends every session |
| `lifecycle_zombie` | ServerLifecycle | violated: a server whose loop is gone is not shown as running |
| `slot` | ServerSlot | no orphan server; with one card a running server is never replaced and a stop that returned lets the next start bind; what a forwarder sent last is what was stored last, and how the server is unless its publishes overlapped; a server that is gone stays on the page only by such an overlap or by a late answer; commands return, told servers vanish and the page hears so |
| `slot_shown` | ServerSlot | violated: at rest, a running server is shown as running |
| `tftp_download` | TftpDownload | both ends in step over a wrapping counter, "send complete" means received, events match the outcome, atomicity of the destination; the download ends and no session waits for ever |
| `tftp_upload` | TftpUpload | both ends in step, Done means that every block was acknowledged and all but possibly the last stored, what is stored is in order and under the cap; the upload ends and no session waits for ever |
| `tftp_upload_stored` | TftpUpload | violated: Done means the server holds the file, once every write went through |
| `ftp_client` | FtpClient | no answer is left for a later command but by a data connection that fails and a drain that gives up; while none was left, Done means the server has the whole file and every download is atomic; always, no progress bar hangs, no token is stranded, every command ends if the server answers |
| `ftp_client_silent` | FtpClient | violated: a transfer lets go of the mutex though the server falls silent |
| `sftp_session` | MC_sftp_session | a client is served on the channel it asked for, `fsetstat` lands on the file of its handle, at most one acknowledged block is neither written nor told of, the page's slot shows an open file, or one its session ended with, a read-only server changes nothing, a rename keeps what it moves |
| `known_hosts` | MC_known_hosts | no record is lost or overwritten without the user, a key is recorded on a confirmation and, three cases apart, as it was shown, the buttons come back unless a check's server never speaks SSH |
| `key_files` | KeyFiles | a fingerprint that was told stays the one on disk, no command tells that of half a key, at rest the two files are of one pair |

Each property of a passing run has a mutant of the code that breaks it.  The
type invariants are proved.
A violated property states what a comment or document of the repository says; the
section on disagreements quotes it.

## Bounds

- `lifecycle`: two session tasks.  Every property is about the loop, one session
  and what another one does meanwhile; slots are reused, so the run covers any
  number of sessions one after the other.  The safety half is proved for any
  finite set.
- `slot`: two successful starts on one port, one live session, and one leaving
  at a time, per server, one page; sessions come to the first server only
  (`Visited`).  Two servers are needed for the predecessor and successor hazards;
  one with sessions is enough for "stopped, but a session still leaves" and for
  an end of the loop whose publish overlaps a session's, beside a successor whose
  own publish at its end is all it needs.  A third start adds servers that are
  over.  299 thousand states.  The safety half is proved for all values.
- `tftp_download`, `tftp_upload`: `Wrap` 3 and `Life` 2, so the counter wraps
  inside a file of 4 chunks and a datagram of the lap before can be around at the
  time; two sessions, the least for a displaced one; `MaxRetries` 2, the least
  where an iteration is spent and the wait goes on; the server with and without
  options; `Caps` 2, met in the middle of the file, and 9, never met.  The safety
  half is proved for all values.  `tftp_upload_stored` has the same bounds.
- `ftp_client`: three commands, the least for a connection, a transfer and the
  command that would read what the transfer left, in any mix of the five kinds;
  files of two chunks, so that a transfer can be cut, cancelled or fail at its
  start, between chunks and at its end.  The safety half is proved for any number
  of commands and any length of file.
- `sftp_session`: two sessions with a handle each and three requests between
  them, the least for a handle that is opened, loses its path to the other
  session and is used again; the paths `/`, `/f`, `/d` and `/d/f`, the least with
  a file in the root, a directory and something in it; two files of one block, so
  that a write lands, or fails, once; files and channels are symmetric.  Proved
  for all values but for the bound on requests, which no proof uses as a number.
- `known_hosts`: two endpoints, two keys, two commands at a time and three in
  all: the least for a record of another endpoint that an overlap or a failure
  could cost, and for a command behind one that was given up on; one change of a
  server's key.  The keys the servers begin with are fixed, since the two keys
  are interchangeable.  The safety half is proved for all values.
- `key_files`: two commands at a time, four in all: a pair made, one made after
  a failure or crash, one asked for, and a look at the result.

`CHECK_DEADLOCK FALSE` stands in every configuration: a server that was stopped,
a transfer that is over and a page nobody touches have nothing left to do.

## Fairness

- `ServerLifecycle`: a runnable task runs (weak fairness of publishing, of the
  loop's exit, of a session's exit, of `signal_stop`, which does not await).
  `LoopStop` is strongly fair: `select!` picks at random among ready branches,
  so connections that keep arriving cannot hide the stop for ever, while weak
  fairness would not do because the loop keeps leaving the `select!`.
  `Disconnected` is fair by assumption on russh.  Nothing makes a peer leave, a
  caller stop a server or a loop die.
- `ServerSlot`: commands, forwarders and publishes run; a server that was told
  to stop does, and its sessions leave, which is the fairness of `ServerContract`
  and checked of `ServerLifecycle` by `ContractSpec`.  The end of its loop is
  strongly fair for the reason given for `LoopStop`.  Nobody has to issue a
  command, and a session may stay for ever on a server that was not told to stop.
- `TftpDownload`, `TftpUpload`: every wait is under a timer, and timers fire; in
  `TftpUpload` a write to the disk lands or fails in the end. Nothing makes a
  datagram arrive or a cancel happen. Retries are bounded, so this is enough for
  both ends to end.
- `FtpClient`: `Spec` has the client's side only: its tasks run, and the 30 s
  timers of the chunk loop and of the drain fire. `AnsweringSpec` adds that the
  server answers a request and closes a transfer whose data connection the client
  has closed or never made, which is an assumption on the server, and why
  `JobsEnd` needs it is what `ftp_client_silent` shows. In `Spec` an attempt to
  make a data connection ends: the operating system bounds a TCP connect; that a
  TLS handshake ends is part of the assumption on the server. A data connection
  may stall for ever in both.
- `KnownHosts`: the deadline of the connect fires, and the inactivity timeout of
  a probe once its session task runs; every request of a listing or a transfer
  has a timeout, so the mutex is let go of, and who waits for it goes before
  later comers (tokio's mutex is a queue); the app takes its own steps.  A server
  need not go on (`Dial`, `Handshake` and `Login` are not fair), a user need not
  answer the dialog.
- `SftpSession` and `KeyFiles` have no liveness property and no fairness.

## The proofs

All theorems hold for every value of the constants under the modules' named
assumptions: finite `Sessions` without `Loop`, `Life < Wrap`, positive `Chunks`
and `MaxRetries` (an FTP file may be empty), model values that differ from data
and from each other (`ContentsAssumption`: a file that is missing, empty or
broken is none that was made), `Cards` among `Callers`.  `LateEventsHide` and
`OneCardCorrect` say in their statement that one caller, or one card, is assumed;
no other theorem has such a proviso.

Besides the properties the runs check, the modules prove what was found to stand
behind them: why the counterexamples of `lifecycle_zombie`, `slot_shown` and
`tftp_upload_stored` are the only kind there is, and the safety half of what the
runs check under fairness.

`ServerLifecycle_proofs` - from the inductive invariant `IInv`: `TypeCorrect`,
`CounterCorrect`, `StopFreesPort`, `AlarmCorrect`, `CutCorrect` (together
`EndsCorrect`), `SnapshotCorrect`, and the refinement `ImplementsContract`. None
of these properties is inductive alone. `LoopInv` ties the flag, the sender and
the exit cause to where the loop is; `StopInv` ties the stop request to the handle
and to the messages sent; `PubInv` says that a session publishes only after it
dropped its guard; `SnapInv` that as long as publishes have not overlapped at most
one task publishes, and what it has read is still true. The counter needs the
cardinality lemmas: a step adds one guard or removes one. Two theorems are about
the end: `StopReachesSessions` (once `stop()` has returned, every session that is
still counted is leaving or has the stop to hear) and `StopAdmitsNone` (no session
begins after it). Their invariant is `HearInv`: a session that is served has a
receiver of its own, the loop's spawn being the one place where it gets it.
`ZombieNeedsStaleSession` delimits finding 1: the loop's own last publish shows
the server as ended, and after it only a session that had read the flag before it
fell, and stores what it read, shows it as running again. `LoopPubInv` says when
the loop publishes, and what it reads of the flag once it is over.

`TftpDownload_proofs` - `TypeCorrect`, `EndsInStep`, `SendCompleteCorrect`,
`EventsCorrect`, and the refinement `DownloadIsAtomic`. `NetInv` bounds what
datagrams can be in the network (data up to the block its session sends, acks
below the block the client waits for); with `InStep` and `Life < Wrap` it follows
that a datagram with the right block number has the right position, which is the
lemma all the steps rest on. `PeerInv` says when the client is connected,
`PartInv` that `.part` is what was received in order, `EventsInv` which events
each state of the client has behind it. `NothingHalfPublished` is what the
refinement gives a reader of the directory, proved from the steps of
`AtomicDownload` alone: no half file, no `.part` after the end. `DownloadMovesOn`
is the ranking argument of `EverythingEnds`: each step of one end spends an
iteration, moves a block on or ends it, and no step of another takes that back, so
with the bounds of `TypeCorrect` a download takes a bounded number of steps.

`TftpUpload_proofs` - `TypeCorrect`, `EndsInStep`, `DoneCorrect`, `StoredInOrder`,
`CapCorrect` (together `StoredCorrect`), `RefusalCorrect` (an upload declared too
large touches nothing), by the same argument in the other direction, with
`SessionInv` for the handles, `WriteInv` for the block under way (it is the one
before the one wanted, under the cap, and there is none after a failure), and
`UploadMovesOn` as for a download. `AloneStored` and `StoredUntilOpened` delimit
finding 3: while no other session opened the file, a Done that is not stored takes
a last write that is under way or failed, and the session does not log such an
upload as complete; after Done that write and another opening are all that changes
the file, because the other sessions never get a block to write.

`ServerSlot_proofs` - `TypeCorrect`, `NoServerLost`, `LastEventCorrect` and
`DeadShownOnlyLate` for any callers; `StartKeepsServer` and `StopFreesPort`
(together `OneCardCorrect`) for one card (`OneCard`), since two overlapping starts
break them.  `CommandInv` says what a command works on, `ServerInv` what a server
that is unborn or over has left behind, `EventInv` that what a forwarder read last
is what was stored last unless the channel says otherwise.  `ChannelInv` is about
the channel: until two publishes of a server overlapped, what the one under way
has loaded is still true, and what is stored is the state itself when none is
under way (`FlagInv`, `StoreInv`).  `PortInv` says that a server with a port died
by itself or is still held.  `GoneForGood` is the safety half of
`ToldServersVanish`.

`LateEventsHide` delimits finding 2: with one command at a time (`OneCaller`) a
running server is shown as stopped, at rest, only if the last event the page got
was of another server.  `SentInv` says that the server in the slot has a
forwarder, and that the page shows the last state a forwarder sent until something
else is shown; `AnswerInv` that an answer under way, or the one shown last, is not
older than the server in the slot.  `DeadShownOnlyLate` is its converse, for
any number of callers: a page that shows a dead server as running does so by a
late answer or an overlap.  `NewsInv` says why: as long as the page or an answer
that no event overtook says "running", a server is up or the news of its end is
still on the way.

`FtpClient_proofs` - `TypeCorrect`, `SessionInSync`, `BarsEnd`, `TokensCorrect`,
`StoredCorrect`, and the refinement `DownloadsImplement`. That no command leaves
an answer behind (`InSync`) is not inductive, because what may be left depends on
how far the command is: `SyncInv` says that, as long as no answer was left unread,
what is under way is either the one request of the running command's step, or the
transfer it opened, or answers to it, and how many. With `QueueInv` and
`CommandInv` (one command runs, at a step of its own kind) it follows that an
answer read is the command's own and the last one (`AnswerFacts`), and that a
command that is granted the mutex finds nothing (`GrantedFacts`). `ChanInv`,
`UploadInv` say when an upload's "complete" can exist, `DownloadInv`, `PartInv`
the same of a download and its `.part`. Two theorems need no answer to be in step,
and hold after an answer was left unread as well: `OutcomesStay` (nothing that
comes after the end of a command changes its outcome, its announcement, its files)
and `FailuresLeaveNothing` (no `.part` outlives its transfer, and one that failed
or was cancelled left the destination alone).

`SftpSession_proofs` - `TypeCorrect`, `ServedCorrect`, `StampCorrect`,
`WritesTold`, `BarsCorrect`, and for the steps `ReadOnlyCorrect` and
`RenameCorrect`.  `ConnectionInv` says that, unless channels were opened side by
side, the only open one is the one that waits; `WriteInv` that a block under way
or failed is the only one owed, and of a file opened for writing; `ReadOnlyInv`
that a read-only server has no such handle and no rename under way; `PathInv`
that a path nobody touched leads to the file of the handle; `RenameInv` that a
rename nobody crossed has its source where it was.  The lemma `Steps` reduces
every request to one disjunct, so that each part is shown once per action.

`KnownHosts_proofs` - `TypeCorrect`, `TrustCorrect`, `ShownCorrect` and, for the
steps, `OverwriteCorrect`. `TaskInv` says what a command at each step is doing;
`SaveInv` that, until something is hurt, one command saves at a time, what it is
to write is what the records are to be, and a connect writes where nothing was -
which is why a connect that was given up on cannot overwrite; `KeyInv` that every
fingerprint seen is its server's until that server changes its key; `TrustInv`
that trust comes from a dialog and a connect saves on trust only.

`KeyFiles_proofs` - `TypeCorrect`, `FingerprintOnDisk`, `WholeKeyTold`,
`FilesOfOnePair`, and for the steps `FingerprintKept`: what was told before a step
and what is told after it differ only if the user regenerated.  `TypeOK` is not
inductive, for it says that no more pairs are made than commands were given:
`CountInv` adds that the pairs made and the commands that may still make one
(`Pending`, a finite set) are together no more.  `MakingInv` says that, until
commands overlap, the one that makes a pair is alone, nothing is told meanwhile,
and each file it has filled is of its pair; `BornInv` that this pair is one that
was made; `ToldInv` that what was told is on disk and usable, so that the next
`Look` finds it; `PairInv` that where no pair is being made and no write was cut
short the two files are equal.

Only model-checked: everything under fairness (`ContractSpec`, `CommandsReturn`,
`ToldServersVanish`, `EverythingEnds`, `JobsEnd`, `BusyEnds`), which the prover
does not do.  Every safety property and every refinement the passing runs check
is a theorem.

## Disagreements between code and comments

Run as violations, see "findings" in PROJECT.json:

1. `lifecycle_zombie`: the publish of a session that ends while the loop ends may
   be the last one, with a flag read before it fell; a dead server then stays
   "running" in the channel.  `lifecycle.rs:8-14` says this cannot happen.
2. `slot_shown`: the last event of a stopped server may arrive after the first
   of its successor, which is then shown as stopped (`App.tsx:128-129`).  The
   opposite, a dead server shown as running, has two causes: finding 1, and a
   status query (`App.tsx:100`) answered before the server died and shown after
   the event that told so.  `DeadServerHidden` excepts the two and no other.
3. `tftp_upload_stored`: a second copy of the WRQ truncates the file under the
   first session, so Done may be announced of an empty or holed file, though
   every write went through.
4. `ftp_client_silent`: `cancel.rs:6-8` says that a silent peer no longer wedges a
   transfer and the mutex with it; the exchanges that open and finish a transfer
   are awaited without a bound and without the token, so it still does, and a
   cancel does not help.

Read in the code, not run:

- TFTP.  "keep waiting without burning a retry" (`tftp/server.rs:259`) is a
  `continue` in a counted loop, which does burn one.  A handshake that fails in a
  send leaves with `?` and no Error event, though an event must cover its
  failures (`tftp/client.rs:91-92`; in `TftpDownload` the client ends in "io" with
  no event, which `EventsMatchOutcome` excepts).  A repeated OACK aborts a
  download whose handshake is over, although a review calls retransmission
  correct (`deliverables/software-company/code-review-full-2026-09-29.md:148`;
  the client ends in "protocol").  Comments in `tftp/mod.rs` and
  `tftp/client.rs` give limits of about 32 MiB and 536 MB for 65535 blocks, while
  the code lets the counter wrap and goes on.  The last block is acknowledged
  before it is written (`tftp/server.rs:392-396`), so a full disk may cost it
  after the client's Done, "Finished successfully" (`progress.rs:43`);
  `DoneMeansReceived` says that it is the only one.
- FTP.  The page offers to cancel a transfer from the moment it calls the command
  (`useRemoteTree.ts:151-152`), so also while it is queued, where
  `cancel.rs:34-36` says it never does.  "every later command reads it first"
  (`client.rs:543-548`, review 2026-10-09 #1) is what the drain was written
  against, but a data connection that fails after STOR, RETR or LIST was sent
  returns without one (`client.rs:323, 455, 267, 275`; `DialFails`,
  `ListingFails`), and a closing answer that comes after the 30 s of the drain is
  read as the answer to the next command (`DrainGivesUp`): the two causes of
  `unread`.
- Stop.  The TFTP handle says "Transfers already in flight are left to finish"
  (`tftp/server.rs:22-23`) and the SFTP one "live SSH sessions are detached"
  (`sftp/server.rs:87-89`), while a stop cuts both.  Overlapping publishes also
  break "never starts from a stale snapshot" (`lifecycle.rs:73-74`).
- SFTP server.  The target of a rename is removed before it is known that the
  source exists, and a file renamed onto itself is removed: `rename(2)`, which the
  comment says is followed (`sftp/server.rs:1008-1014`), does neither;
  `RenameKeepsSource` excepts a rename onto itself.  The last block of an upload
  may be lost though Done was said and the close was answered, because nothing
  flushes.  The subsystem request ignores the channel it names.
- Keys.  "a half-written or corrupted pair must never wedge FTPS startup"
  (`tls.rs:87`): a certificate whose body is cut at a place where the base64 still
  decodes counts as readable, and of its key nothing is read at all; `TellsWhole`
  and `PairMatches` except a write that was cut short. The in-place write of
  known_hosts (`sftp/keys.rs:347`) truncates first, so a crash in it loses every
  record, not one. A known_hosts file that cannot be read counts as empty: a
  trusting connect then records a changed key, and drops the others. A dialog
  about endpoint A that is confirmed after the field was edited to B trusts B; and
  a check that got no fingerprint asks for trust all the same
  (`SftpClientView.tsx:121`). `TrustAsShown` excepts the two, and a server that
  changed its key.
- Probe.  "an `inactivity_timeout` on the client config is exactly the right
  instrument" (`sftp/client.rs:99-102`): it lives in russh's session task, which
  starts after the SSH identifications were exchanged, so a server that accepts
  the connection and says nothing holds the check, and the page's buttons, for
  as long as it likes.  `CONNECT_TIMEOUT` was put around the connect for this
  very server (`sftp/client.rs:245-247`); `BusyEnds` excepts the check.

## Not modelled

- Bytes of packets, the negotiation of `blksize` (the size of a chunk), paths
  and names in the TFTP modules; wording, logs, firewall hints.
- libunftp, russh, suppaftp, tokio and the operating system: what the code
  relies on is in the definitions marked external and in the fairness.
- A steady stream of datagrams from hosts that take no part in the transfer: the
  code restarts the timer of a TFTP handshake for each of them.
- Of the SFTP server: authentication, the lexical check of a path, symbolic
  links, and the requests that only read.
- Upload and download of the SFTP client: the chunk loop, the `.part` file, the
  token and the mutex are those `FtpClient` models for FTP, without a closing
  answer to be drained.
- Passive ports (`ftp/passive.rs`), bind diagnosis (`error.rs`), network
  interfaces (`net.rs`): functions without state, whose tests enumerate the cases.
- The tree of the remote browser, the speed estimate, parsing of `LIST` and
  `MLSD`, layout and forms of the page: they change what is drawn, and no other
  part relies on it.

## What could come next

- The transfers of the SFTP client, with `AtomicDownload` as the specification of
  its downloads.
- The tree of the remote browser: a listing that arrives after a disconnect, or
  after that of a directory opened later (`useRemoteTree.ts:94`), the one hazard
  listed that no property covers.
