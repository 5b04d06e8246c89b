---------------------------- MODULE SftpSession ----------------------------
(***************************************************************************)
(* The SFTP sessions of sftp/server.rs on one shared directory: the        *)
(* channels of a connection and the subsystem each asks for, the handles a *)
(* session holds, the requests that change the directory, and the slot in   *)
(* which the page shows a transfer under way.                              *)
(*                                                                         *)
(* A session answers one request at a time, but no lock is shared between  *)
(* sessions: `rename` alone takes several steps of the file system, and    *)
(* tokio writes a block after `write` returned.  A request that is refused *)
(* and changes nothing is a stuttering step.                               *)
(***************************************************************************)
EXTENDS Naturals, Sequences

CONSTANTS
  Channels,     \* the channels of the connection, a session each
  Slots,        \* a handle is a channel and a slot
  Paths,        \* the paths below the root, <<>> is the root itself
  Files,        \* the files of the disk, whatever their names
  FlagSets,     \* the flags clients open with
  MaxBlocks,    \* bound on the length of a file
  MaxRequests,  \* bound on the requests of all sessions
  NoChannel, NoHandle, NoEntry, Dir, NoBlock

Flags == {"read", "write", "append", "create", "exclude", "truncate"}

ASSUME PathsAssumption ==
  /\ \A p \in Paths : p \in Seq(STRING)
  /\ <<>> \in Paths
ASSUME FlagsAssumption == FlagSets \subseteq SUBSET Flags
ASSUME BoundsAssumption ==
  MaxBlocks \in Nat /\ MaxRequests \in Nat /\ NoBlock \notin Nat
ASSUME NamesAssumption ==
  /\ NoChannel \notin Channels /\ NoHandle \notin Channels \X Slots
  /\ NoEntry # Dir /\ NoEntry \notin Files /\ Dir \notin Files

Handles == Channels \X Slots

VARIABLES
  waiting,   \* SshSession::channel, the channel opened last and not served
  chan,      \* channel: "closed", "open", "serving", "ended"
  acked,     \* the channels whose subsystem request was granted
  readOnly,  \* the server is read-only
  tree,      \* path: a file, Dir or NoEntry
  size,      \* file: its blocks
  stamp,     \* file: the handle whose fsetstat set its attributes last
  late,      \* the blocks still to be written for closed handles
  kind,      \* handle: "none", "file", "dir"
  inode,     \* handle: the file it is open on
  path,      \* handle: the path it was opened by
  flags,     \* handle: the flags it was opened with
  flight,    \* handle: the block tokio is writing
  failed,    \* handle: a block failed and nobody was told
  bar,       \* the page: the handle its one transfer slot shows
  pc,        \* session: "idle", or the next step of a rename
  from, to,  \* session: the paths of the rename
  seen,      \* session: what the rename found at `to`
  requests,  \* the requests so far
  owed,      \* history: blocks acknowledged, neither written nor denied
  astray,    \* history: the handle's path was renamed, replaced or removed
  source,    \* history: what the rename is to move
  crossed,   \* history: another session changed the tree during the rename
  crowded    \* history: a channel was opened while another waited

connection == <<waiting, chan, acked, crowded>>
disk == <<tree, size, stamp, late>>
handle == <<kind, inode, path, flags, flight, failed, bar, owed>>
rename == <<pc, from, to, seen, source>>
hist == <<astray, crossed>>
vars == <<connection, readOnly, disk, handle, rename, hist, requests>>

-----------------------------------------------------------------------------
(* The shared directory.                                                   *)

\* x is p or below it.
Under(x, p) == Len(p) <= Len(x) /\ SubSeq(x, 1, Len(p)) = p

Parent(p) == SubSeq(p, 1, Len(p) - 1)
InDirectory(p) == p = <<>> \/ tree[Parent(p)] = Dir
Empty(p) == \A x \in Paths : Under(x, p) /\ x # p => tree[x] = NoEntry

\* The tree after p is moved to q, with all that is below it.
Moved(p, q) ==
  [x \in Paths |->
     IF Under(x, q)
     THEN LET y == p \o SubSeq(x, Len(q) + 1, Len(x))
          IN  IF y \in Paths THEN tree[y] ELSE NoEntry
     ELSE IF Under(x, p) THEN NoEntry ELSE tree[x]]

\* What lies below p stays within the modelled paths when it is moved to q.
Fits(p, q) ==
  \A x \in Paths : Under(x, p) /\ tree[x] # NoEntry =>
    q \o SubSeq(x, Len(p) + 1, Len(x)) \in Paths

\* rename(2).
CanMove(p, q) ==
  /\ tree[p] # NoEntry
  /\ InDirectory(q)
  /\ Under(q, p) => q = p
  /\ \/ tree[q] = NoEntry
     \/ tree[p] \in Files /\ tree[q] \in Files
     \/ tree[p] = Dir /\ tree[q] = Dir /\ (p = q \/ Empty(q))
  /\ Fits(p, q)

\* A directory with one name for a file, and entries in directories only.
Shape(t) ==
  /\ t[<<>>] = Dir
  /\ \A p \in Paths \ {<<>>} : t[p] # NoEntry => t[Parent(p)] = Dir
  /\ \A p, q \in Paths : t[p] = t[q] /\ t[p] \in Files => p = q

Init ==
  /\ waiting = NoChannel
  /\ chan = [c \in Channels |-> "closed"]
  /\ acked = {}
  /\ readOnly \in BOOLEAN
  /\ tree \in {t \in [Paths -> Files \cup {Dir, NoEntry}] : Shape(t)}
  /\ size = [f \in Files |-> 0]
  /\ stamp = [f \in Files |-> NoHandle]
  /\ late = {}
  /\ kind = [h \in Handles |-> "none"]
  /\ inode = [h \in Handles |-> NoEntry]
  /\ path = [h \in Handles |-> <<>>]
  /\ flags = [h \in Handles |-> {}]
  /\ flight = [h \in Handles |-> NoBlock]
  /\ failed = [h \in Handles |-> FALSE]
  /\ bar = NoHandle
  /\ pc = [c \in Channels |-> "idle"]
  /\ from = [c \in Channels |-> <<>>]
  /\ to = [c \in Channels |-> <<>>]
  /\ seen = [c \in Channels |-> NoEntry]
  /\ requests = 0
  /\ owed = [h \in Handles |-> 0]
  /\ astray = [h \in Handles |-> FALSE]
  /\ source = [c \in Channels |-> NoEntry]
  /\ crossed = [c \in Channels |-> FALSE]
  /\ crowded = FALSE

\* A request of session c changes the tree; the paths in `touched` no longer
\* lead where they led.
Retree(c, new, touched) ==
  /\ tree' = new
  /\ astray' = [h \in Handles |->
                  astray[h] \/ \E p \in touched : Under(path[h], p)]
  /\ crossed' = [k \in Channels |-> crossed[k] \/ k # c]

-----------------------------------------------------------------------------
(* The connection.                                                         *)

\* Variant of OpenChannel: a channel already waiting is kept.
OpenChannelKeepsFirst(c) ==
  /\ chan[c] = "closed"
  /\ chan' = [chan EXCEPT ![c] = "open"]
  /\ waiting' = IF waiting = NoChannel THEN c ELSE waiting
  /\ crowded' = (crowded \/ \E k \in Channels : chan[k] = "open")
  /\ UNCHANGED <<acked, readOnly, disk, handle, rename, hist, requests>>

\* The channel opened last takes the place of one that still waits.
OpenChannel(c) ==
  /\ chan[c] = "closed"
  /\ chan' = [chan EXCEPT ![c] = "open"]
  /\ waiting' = c
  /\ crowded' = (crowded \/ \E k \in Channels : chan[k] = "open")
  /\ UNCHANGED <<acked, readOnly, disk, handle, rename, hist, requests>>

\* `take()`: the waiting channel is served, unless it closed meanwhile, and
\* the asking one is told so.  A client asks once per channel, as SSH demands.
AskSubsystem(c) ==
  /\ chan[c] = "open"
  /\ waiting # NoChannel
  /\ chan' = [chan EXCEPT ![waiting] = IF @ = "open" THEN "serving" ELSE @]
  /\ acked' = acked \cup {c}
  /\ waiting' = NoChannel
  /\ UNCHANGED <<crowded, readOnly, disk, handle, rename, hist, requests>>

\* The handles of hs are dropped; what tokio is writing goes on.
Drop(hs) ==
  /\ kind' = [h \in Handles |-> IF h \in hs THEN "none" ELSE kind[h]]
  /\ late' = late \cup {<<inode[h], flight[h]>> :
                          h \in {x \in hs : flight[x] # NoBlock}}
  /\ flight' = [h \in Handles |-> IF h \in hs THEN NoBlock ELSE flight[h]]
  /\ failed' = [h \in Handles |-> failed[h] /\ h \notin hs]

\* The channel closes once the request under way is answered; the handles
\* still open are dropped without a word to the page.
EndChannel(c) ==
  /\ chan[c] \in {"open", "serving"}
  /\ pc[c] = "idle"
  /\ chan' = [chan EXCEPT ![c] = "ended"]
  /\ Drop({h \in Handles : h[1] = c})
  /\ UNCHANGED <<waiting, acked, crowded, readOnly, tree, size, stamp, inode,
                 path, flags, bar, owed, rename, hist, requests>>

-----------------------------------------------------------------------------
(* Handles, and what the page shows of them.                               *)

\* Started and Progress put their transfer in the slot, whichever was there.
Show(h) == bar' = h

\* Done empties the slot, whichever transfer it shows.
ShowNone == bar' = NoHandle

Writes(F) == F \cap {"write", "append"} # {}

\* Variant of Mutating: only the write flags count, and one is forgotten.
MutatingWrite(F) == F \cap {"write", "create", "truncate"} # {}

\* What the read-only gate refuses.
Mutating(F) == Writes(F) \/ F \cap {"create", "truncate"} # {}

\* OpenOptions: creating or truncating takes the write flag, and appending
\* excludes truncating unless the file is new.
Accepted(F) ==
  /\ F # {}
  /\ ~Writes(F) => F \cap {"create", "truncate"} = {}
  /\ {"append", "truncate"} \subseteq F => {"create", "exclude"} \subseteq F

Opened(h, p, f, F) ==
  /\ kind' = [kind EXCEPT ![h] = "file"]
  /\ inode' = [inode EXCEPT ![h] = f]
  /\ path' = [path EXCEPT ![h] = p]
  /\ flags' = [flags EXCEPT ![h] = F]
  /\ Show(h)
  /\ owed' = [owed EXCEPT ![h] = 0]
  /\ stamp' = [g \in Files |-> IF stamp[g] = h THEN NoHandle ELSE stamp[g]]
  /\ UNCHANGED <<flight, failed, late>>

\* No name, no handle and no write under way leads to file f.
Unused(f) ==
  /\ \A p \in Paths : tree[p] # f
  /\ \A h \in Handles : kind[h] = "none" \/ inode[h] # f
  /\ \A w \in late : w[1] # f

MayOpen(h, F) ==
  /\ kind[h] = "none"
  /\ readOnly => ~Mutating(F)
  /\ Accepted(F)

\* A directory opens too, for reading, on some systems.
OpenExisting(h, p, F) ==
  /\ MayOpen(h, F)
  /\ ~({"create", "exclude"} \subseteq F)
  /\ \/ tree[p] \in Files
     \/ tree[p] = Dir /\ ~Writes(F)
  /\ Opened(h, p, tree[p], F)
  /\ size' = [f \in Files |->
                IF f = tree[p] /\ "truncate" \in F THEN 0 ELSE size[f]]
  /\ astray' = [astray EXCEPT ![h] = FALSE]
  /\ UNCHANGED <<connection, readOnly, tree, rename, crossed>>

OpenNew(h, p, F, f) ==
  /\ MayOpen(h, F)
  /\ "create" \in F
  /\ tree[p] = NoEntry /\ InDirectory(p)
  /\ Unused(f)
  /\ Opened(h, p, f, F)
  /\ size' = [size EXCEPT ![f] = 0]
  /\ tree' = [tree EXCEPT ![p] = f]
  /\ crossed' = [k \in Channels |-> crossed[k] \/ k # h[1]]
  /\ astray' = [astray EXCEPT ![h] = FALSE]
  /\ UNCHANGED <<connection, readOnly, rename>>

OpenDir(h, p) ==
  /\ kind[h] = "none"
  /\ tree[p] = Dir
  /\ kind' = [kind EXCEPT ![h] = "dir"]
  /\ UNCHANGED <<connection, readOnly, disk, inode, path, flags, flight,
                 failed, bar, owed, rename, hist>>

\* Variant of Close: a handle with an error says nothing.
CloseSilently(h) ==
  /\ kind[h] # "none"
  /\ Drop({h})
  /\ IF kind[h] = "file" /\ ~failed[h] THEN ShowNone ELSE UNCHANGED bar
  /\ UNCHANGED <<connection, readOnly, tree, size, stamp, inode, path, flags,
                 owed, rename, hist>>

\* A file says Done, whatever became of its last block.
Close(h) ==
  /\ kind[h] # "none"
  /\ Drop({h})
  /\ IF kind[h] = "file" THEN ShowNone ELSE UNCHANGED bar
  /\ UNCHANGED <<connection, readOnly, tree, size, stamp, inode, path, flags,
                 owed, rename, hist>>

\* Variant of Write: the error of the block before is not looked at.
WriteForgetsError(h, b) ==
  /\ kind[h] = "file" /\ Writes(flags[h])
  /\ flight[h] = NoBlock
  /\ failed' = [failed EXCEPT ![h] = FALSE]
  /\ flight' = [flight EXCEPT ![h] = b]
  /\ owed' = [owed EXCEPT ![h] = @ + 1]
  /\ Show(h)
  /\ UNCHANGED <<connection, readOnly, disk, kind, inode, path, flags, rename,
                 hist>>

\* The seek waits for the block before.  If that one failed the write says
\* so and is not done; otherwise it returns before its block is written and
\* says Progress.
Write(h, b) ==
  /\ kind[h] = "file" /\ Writes(flags[h])
  /\ flight[h] = NoBlock
  /\ IF failed[h]
     THEN /\ failed' = [failed EXCEPT ![h] = FALSE]
          /\ owed' = [owed EXCEPT ![h] = @ - 1]
          /\ UNCHANGED <<flight, bar>>
     ELSE /\ flight' = [flight EXCEPT ![h] = b]
          /\ owed' = [owed EXCEPT ![h] = @ + 1]
          /\ Show(h)
          /\ UNCHANGED failed
  /\ UNCHANGED <<connection, readOnly, disk, kind, inode, path, flags, rename,
                 hist>>

\* A read that finds a block says Progress; one beyond the end, or of a handle
\* not open for reading, says nothing.
ReadBlock(h) ==
  /\ kind[h] = "file" /\ "read" \in flags[h]
  /\ inode[h] \in Files /\ size[inode[h]] > 0
  /\ flight[h] = NoBlock
  /\ Show(h)
  /\ UNCHANGED <<connection, readOnly, disk, kind, inode, path, flags, flight,
                 failed, owed, rename, hist>>

Grown(f, b) == IF size[f] <= b THEN [size EXCEPT ![f] = b + 1] ELSE size

\* The block reaches the file, or the disk is full.
Land(h) ==
  /\ flight[h] # NoBlock
  /\ flight' = [flight EXCEPT ![h] = NoBlock]
  /\ \/ /\ size' = Grown(inode[h], flight[h])
        /\ owed' = [owed EXCEPT ![h] = @ - 1]
        /\ UNCHANGED failed
     \/ /\ failed' = [failed EXCEPT ![h] = TRUE]
        /\ UNCHANGED <<size, owed>>
  /\ UNCHANGED <<connection, readOnly, tree, stamp, late, kind, inode, path,
                 flags, bar, rename, hist, requests>>

LandLate(w) ==
  /\ late' = late \ {w}
  /\ size' = Grown(w[1], w[2]) \/ UNCHANGED size
  /\ UNCHANGED <<connection, readOnly, tree, stamp, handle, rename, hist,
                 requests>>

-----------------------------------------------------------------------------
(* Requests by path, and fsetstat.                                         *)

Stamp(f, h) ==
  /\ stamp' = [stamp EXCEPT ![f] = h]
  /\ UNCHANGED <<connection, readOnly, tree, size, late, handle, rename, hist>>

SetStat(p) ==
  /\ ~readOnly
  /\ tree[p] \in Files
  /\ Stamp(tree[p], NoHandle)

\* Variant of PathOf: only the last name of the path is kept.
LastName(h) ==
  IF path[h] = <<>> THEN <<>> ELSE SubSeq(path[h], Len(path[h]), Len(path[h]))

\* The path the handle was opened by, not what it is open on.
PathOf(h) == path[h]

FSetStat(h) ==
  /\ ~readOnly
  /\ kind[h] = "file"
  /\ tree[PathOf(h)] \in Files
  /\ Stamp(tree[PathOf(h)], h)

Remove(c, p) ==
  /\ ~readOnly
  /\ tree[p] \in Files
  /\ Retree(c, [tree EXCEPT ![p] = NoEntry], {p})
  /\ UNCHANGED <<connection, readOnly, size, stamp, late, handle, rename>>

MkDir(c, p) ==
  /\ ~readOnly
  /\ tree[p] = NoEntry /\ InDirectory(p)
  /\ Retree(c, [tree EXCEPT ![p] = Dir], {})
  /\ UNCHANGED <<connection, readOnly, size, stamp, late, handle, rename>>

RmDir(c, p) ==
  /\ ~readOnly
  /\ tree[p] = Dir /\ Empty(p)
  /\ Retree(c, [tree EXCEPT ![p] = NoEntry], {p})
  /\ UNCHANGED <<connection, readOnly, size, stamp, late, handle, rename>>

\* rename looks at the target first.
RenameLook(c, p, q) ==
  /\ ~readOnly
  /\ from' = [from EXCEPT ![c] = p]
  /\ to' = [to EXCEPT ![c] = q]
  /\ seen' = [seen EXCEPT ![c] = tree[q]]
  /\ pc' = [pc EXCEPT ![c] = IF tree[q] = NoEntry THEN "move" ELSE "clear"]
  /\ source' = [source EXCEPT ![c] = tree[p]]
  /\ crossed' = [crossed EXCEPT ![c] = FALSE]
  /\ UNCHANGED <<connection, readOnly, disk, handle, astray>>

GoTo(c, step) ==
  /\ pc' = [pc EXCEPT ![c] = step]
  /\ UNCHANGED <<connection, readOnly, size, stamp, late, handle, from, to,
                 seen, source, requests>>

\* Variant of RenameClear: a directory goes with all that is in it.
RenameClearAll(c) ==
  LET q == to[c]
  IN  /\ pc[c] = "clear"
      /\ tree[q] = seen[c] \/ (tree[q] \in Files /\ seen[c] \in Files)
      /\ Retree(c, [x \in Paths |-> IF Under(x, q) THEN NoEntry ELSE tree[x]],
                {q})
      /\ GoTo(c, "move")

\* A file, or an empty directory, is removed.
RenameClear(c) ==
  LET q == to[c]
  IN  /\ pc[c] = "clear"
      /\ \/ seen[c] = Dir /\ tree[q] = Dir /\ Empty(q)
         \/ seen[c] # Dir /\ tree[q] \in Files
      /\ Retree(c, [tree EXCEPT ![q] = NoEntry], {q})
      /\ GoTo(c, "move")

RenameMove(c) ==
  /\ pc[c] = "move"
  /\ CanMove(from[c], to[c])
  /\ Retree(c, Moved(from[c], to[c]), {from[c], to[c]})
  /\ GoTo(c, "idle")

\* The file system refuses a step: the rename ends where it is.
RenameFails(c) ==
  /\ pc[c] \in {"clear", "move"}
  /\ GoTo(c, "idle")
  /\ UNCHANGED <<tree, hist>>

-----------------------------------------------------------------------------
Request(c) ==
  /\ chan[c] = "serving" /\ pc[c] = "idle"
  /\ requests < MaxRequests
  /\ requests' = requests + 1
  /\ \/ \E s \in Slots :
          \/ \E p \in Paths, F \in FlagSets :
               \/ OpenExisting(<<c, s>>, p, F)
               \/ \E f \in Files : OpenNew(<<c, s>>, p, F, f)
          \/ \E p \in Paths : OpenDir(<<c, s>>, p)
          \/ Close(<<c, s>>)
          \/ \E b \in 0..MaxBlocks - 1 : Write(<<c, s>>, b)
          \/ ReadBlock(<<c, s>>)
          \/ FSetStat(<<c, s>>)
     \/ \E p \in Paths : \/ SetStat(p) \/ Remove(c, p)
                         \/ MkDir(c, p) \/ RmDir(c, p)
     \/ \E p, q \in Paths : RenameLook(c, p, q)

Next ==
  \/ \E c \in Channels :
       \/ OpenChannel(c) \/ AskSubsystem(c) \/ EndChannel(c)
       \/ Request(c)
       \/ RenameClear(c) \/ RenameMove(c) \/ RenameFails(c)
  \/ \E h \in Handles : Land(h)
  \/ \E w \in late : LandLate(w)

Spec == Init /\ [][Next]_vars

-----------------------------------------------------------------------------
(* Properties.                                                             *)

TypeOK ==
  /\ waiting \in Channels \cup {NoChannel}
  /\ chan \in [Channels -> {"closed", "open", "serving", "ended"}]
  /\ acked \subseteq Channels
  /\ readOnly \in BOOLEAN
  /\ tree \in [Paths -> Files \cup {Dir, NoEntry}]
  /\ size \in [Files -> 0..MaxBlocks]
  /\ stamp \in [Files -> Handles \cup {NoHandle}]
  /\ late \subseteq Files \X (0..MaxBlocks - 1)
  /\ kind \in [Handles -> {"none", "file", "dir"}]
  /\ inode \in [Handles -> Files \cup {Dir, NoEntry}]
  /\ path \in [Handles -> Paths]
  /\ flags \in [Handles -> SUBSET Flags]
  /\ flight \in [Handles -> (0..MaxBlocks - 1) \cup {NoBlock}]
  /\ failed \in [Handles -> BOOLEAN]
  /\ bar \in Handles \cup {NoHandle}
  /\ pc \in [Channels -> {"idle", "clear", "move"}]
  /\ from \in [Channels -> Paths] /\ to \in [Channels -> Paths]
  /\ seen \in [Channels -> Files \cup {Dir, NoEntry}]
  /\ requests \in 0..MaxRequests
  /\ owed \in [Handles -> Nat]
  /\ astray \in [Handles -> BOOLEAN]
  /\ source \in [Channels -> Files \cup {Dir, NoEntry}]
  /\ crossed \in [Channels -> BOOLEAN]
  /\ crowded \in BOOLEAN

\* A client that asks for the subsystem of one channel before it opens the
\* next is served on the channels it asked for, and told so of no other.
ServedOwnChannel ==
  ~crowded => \A c \in Channels : /\ chan[c] = "serving" => c \in acked
                                  /\ c \in acked => chan[c] # "open"

\* A read-only server leaves names, contents and attributes alone, through
\* handles and by path, whatever flags a client opens with.
ReadOnlyKeepsTree == [][readOnly => UNCHANGED <<tree, size, stamp>>]_vars

\* fsetstat sets the attributes of the file its handle is open on, unless
\* the path of the handle was renamed, replaced or removed meanwhile.
StampHitsOwnFile ==
  \A f \in Files, h \in Handles : stamp[f] = h => inode[h] = f \/ astray[h]

\* A rename nobody crossed does not lose what it moves, though it removes
\* the target first and may fail at every step: when it ends the entry is at
\* the one path or the other.  A rename of a path onto itself is excepted.
RenameKeepsSource ==
  [][\A c \in Channels :
       pc[c] # "idle" /\ pc'[c] = "idle" /\ ~crossed[c] /\ from[c] # to[c] =>
         source[c] \in {tree'[from[c]], tree'[to[c]]}]_vars

\* An upload misses at most one of the blocks it was told are written: an
\* error is told by the next write, and by no other request.
OnlyLastWriteUntold == \A h \in Handles : owed[h] <= 1

\* The one slot of the page shows a file that is open, however the requests of
\* the sessions interleave; a transfer that is over stays in it only when its
\* session ended with the file open.  An open file may go unshown: the Done of
\* another empties the slot until the next block.
BarsEnd ==
  bar # NoHandle => kind[bar] = "file" \/ chan[bar[1]] = "ended"

=============================================================================
