------------------------- MODULE SftpSession_proofs -------------------------
(***************************************************************************)
(* Proofs about SftpSession, for any number of channels, handles, files    *)
(* and paths, any flags and any bound on the requests.                     *)
(***************************************************************************)
EXTENDS SftpSession, TLAPS

-----------------------------------------------------------------------------
(* The inductive invariant.                                                *)

\* Unless channels were opened side by side, only the one that waits is
\* open, and whoever was told yes is served.
ConnectionInv ==
  ~crowded =>
    \A c \in Channels : /\ chan[c] = "open" => c = waiting
                        /\ chan[c] = "serving" => c \in acked
                        /\ c \in acked => chan[c] \in {"serving", "ended"}

\* A block under way is of a file open for writing, and the only one owed;
\* a failed block is owed until a write tells of it.
WriteInv ==
  \A h \in Handles :
    /\ kind[h] = "file" => inode[h] # NoEntry
    /\ kind[h] = "file" /\ Writes(flags[h]) => inode[h] \in Files
    /\ flight[h] # NoBlock => /\ kind[h] = "file" /\ Writes(flags[h])
                             /\ ~failed[h] /\ owed[h] = 1
    /\ failed[h] => kind[h] = "file" /\ owed[h] = 1
    /\ kind[h] = "file" /\ flight[h] = NoBlock /\ ~failed[h] => owed[h] = 0
    /\ owed[h] <= 1

\* A read-only server has no handle open for writing, and no rename.
ReadOnlyInv ==
  readOnly => /\ late = {}
              /\ \A h \in Handles : kind[h] = "file" => ~Writes(flags[h])
              /\ \A c \in Channels : pc[c] = "idle"
              /\ \A f \in Files : stamp[f] = NoHandle

\* A path nobody touched still leads to the file of the handle.
PathInv ==
  /\ \A h \in Handles : kind[h] = "file" => astray[h] \/ tree[path[h]] = inode[h]
  /\ StampHitsOwnFile

\* A rename nobody crossed still has its source where it was.
RenameInv ==
  \A c \in Channels :
    pc[c] # "idle" /\ ~crossed[c] /\ from[c] # to[c] =>
      tree[from[c]] = source[c]

IInv ==
  /\ TypeOK
  /\ ConnectionInv
  /\ WriteInv
  /\ ReadOnlyInv
  /\ PathInv
  /\ RenameInv
  /\ BarsEnd

-----------------------------------------------------------------------------
(* The steps, with the handle of a request in place of its slot.           *)

Asked(c) ==
  /\ chan[c] = "serving" /\ pc[c] = "idle"
  /\ requests < MaxRequests /\ requests' = requests + 1

HandleRequest(h) ==
  \/ \E p \in Paths, F \in FlagSets : OpenExisting(h, p, F)
  \/ \E p \in Paths, F \in FlagSets, f \in Files : OpenNew(h, p, F, f)
  \/ \E p \in Paths : OpenDir(h, p)
  \/ Close(h)
  \/ \E b \in 0..MaxBlocks - 1 : Write(h, b)
  \/ ReadBlock(h)
  \/ FSetStat(h)

PathRequest(c) ==
  \/ \E p \in Paths : SetStat(p) \/ Remove(c, p) \/ MkDir(c, p) \/ RmDir(c, p)
  \/ \E p, q \in Paths : RenameLook(c, p, q)

ChannelStep(c) ==
  \/ OpenChannel(c) \/ AskSubsystem(c) \/ EndChannel(c)
  \/ RenameClear(c) \/ RenameMove(c) \/ RenameFails(c)

LEMMA Steps ==
  ASSUME [Next]_vars
  PROVE  \/ UNCHANGED vars
         \/ \E c \in Channels : ChannelStep(c)
         \/ \E c \in Channels : Asked(c) /\ PathRequest(c)
         \/ \E h \in Handles : Asked(h[1]) /\ HandleRequest(h)
         \/ \E h \in Handles : Land(h)
         \/ \E w \in late : LandLate(w)
<1>1. ASSUME NEW c \in Channels, Request(c)
      PROVE  \/ Asked(c) /\ PathRequest(c)
             \/ \E h \in Handles : Asked(h[1]) /\ HandleRequest(h)
  <2>1. Asked(c)
    BY <1>1 DEF Request, Asked
  <2>2. ASSUME NEW s \in Slots, HandleRequest(<<c, s>>)
        PROVE  \E h \in Handles : Asked(h[1]) /\ HandleRequest(h)
    <3>1. <<c, s>> \in Handles /\ <<c, s>>[1] = c
      BY DEF Handles
    <3> QED BY <2>1, <2>2, <3>1
  <2>3. CASE PathRequest(c)
    BY <2>1, <2>3
  <2>4. (\E s \in Slots : HandleRequest(<<c, s>>)) \/ PathRequest(c)
    BY <1>1 DEF Request, HandleRequest, PathRequest
  <2> QED BY <2>2, <2>3, <2>4
<1> QED BY <1>1 DEF Next, ChannelStep

-----------------------------------------------------------------------------
(* Lemmas about paths.                                                     *)

LEMMA UnderItself ==
  ASSUME NEW p \in Paths PROVE Under(p, p)
BY PathsAssumption DEF Under

\* What is moved arrives.
LEMMA MovedThere ==
  ASSUME NEW p \in Paths, NEW q \in Paths
  PROVE  Moved(p, q)[q] = tree[p]
<1>1. p \in Seq(STRING) /\ q \in Seq(STRING)
  BY PathsAssumption
<1>2. SubSeq(q, Len(q) + 1, Len(q)) = <<>>
  BY <1>1
<1>3. p \o <<>> = p
  BY <1>1
<1> QED BY <1>2, <1>3, UnderItself DEF Moved

\* What lies below neither path stays.
LEMMA MovedElsewhere ==
  ASSUME NEW p \in Paths, NEW q \in Paths, NEW x \in Paths,
         ~Under(x, p), ~Under(x, q)
  PROVE  Moved(p, q)[x] = tree[x]
BY DEF Moved

LEMMA MovedTyped ==
  ASSUME TypeOK, NEW p \in Paths, NEW q \in Paths
  PROVE  Moved(p, q) \in [Paths -> Files \cup {Dir, NoEntry}]
BY DEF Moved, TypeOK

LEMMA GrownTyped ==
  ASSUME TypeOK, NEW f \in Files, NEW b \in 0..MaxBlocks - 1
  PROVE  Grown(f, b) \in [Files -> 0..MaxBlocks]
<1>1. b + 1 \in 0..MaxBlocks
  BY BoundsAssumption
<1> QED BY <1>1 DEF Grown, TypeOK

LEMMA DropTyped ==
  ASSUME TypeOK, WriteInv, NEW hs \in SUBSET Handles, Drop(hs)
  PROVE  /\ late' \subseteq Files \X (0..MaxBlocks - 1)
         /\ kind' \in [Handles -> {"none", "file", "dir"}]
         /\ flight' \in [Handles -> (0..MaxBlocks - 1) \cup {NoBlock}]
         /\ failed' \in [Handles -> BOOLEAN]
<1>1. ASSUME NEW h \in hs, flight[h] # NoBlock
      PROVE  <<inode[h], flight[h]>> \in Files \X (0..MaxBlocks - 1)
  BY <1>1 DEF WriteInv, TypeOK
<1> QED BY <1>1 DEF Drop, TypeOK

-----------------------------------------------------------------------------
(* Each step keeps the inductive invariant.                                *)

LEMMA TypeStep ==
  ASSUME IInv, [Next]_vars
  PROVE  TypeOK'
<1> USE BoundsAssumption, FlagsAssumption
<1>1. ASSUME NEW c \in Channels, OpenChannel(c)
      PROVE  TypeOK'
  BY <1>1 DEF OpenChannel, connection, disk, handle, rename, hist, IInv, TypeOK
<1>2. ASSUME NEW c \in Channels, AskSubsystem(c)
      PROVE  TypeOK'
  BY <1>2 DEF AskSubsystem, connection, disk, handle, rename, hist, IInv, TypeOK
<1>3. ASSUME NEW c \in Channels, EndChannel(c)
      PROVE  TypeOK'
  <2>1. /\ late' \subseteq Files \X (0..MaxBlocks - 1)
        /\ kind' \in [Handles -> {"none", "file", "dir"}]
        /\ flight' \in [Handles -> (0..MaxBlocks - 1) \cup {NoBlock}]
        /\ failed' \in [Handles -> BOOLEAN]
    BY <1>3, DropTyped DEF EndChannel, IInv
  <2> QED
    BY <1>3, <2>1 DEF EndChannel, connection, disk, handle, rename, hist, IInv,
       TypeOK
<1>4. ASSUME NEW c \in Channels, RenameClear(c)
      PROVE  TypeOK'
  BY <1>4 DEF RenameClear, Retree, GoTo, connection, disk, handle, rename, hist,
     IInv, TypeOK
<1>5. ASSUME NEW c \in Channels, RenameMove(c)
      PROVE  TypeOK'
  <2>1. Moved(from[c], to[c]) \in [Paths -> Files \cup {Dir, NoEntry}]
    BY <1>5, MovedTyped DEF IInv, TypeOK
  <2> QED
    BY <1>5, <2>1 DEF RenameMove, Retree, GoTo, connection, disk, handle,
       rename, hist, IInv, TypeOK
<1>6. ASSUME NEW c \in Channels, RenameFails(c)
      PROVE  TypeOK'
  BY <1>6 DEF RenameFails, GoTo, connection, disk, handle, rename, hist, IInv,
     TypeOK
<1>7. ASSUME NEW c \in Channels, Asked(c), NEW p \in Paths, SetStat(p)
      PROVE  TypeOK'
  BY <1>7 DEF SetStat, Stamp, Asked, connection, disk, handle, rename, hist, IInv,
     TypeOK
<1>8. ASSUME NEW c \in Channels, Asked(c), NEW p \in Paths, Remove(c, p)
      PROVE  TypeOK'
  BY <1>8 DEF Remove, Retree, Asked, connection, disk, handle, rename, hist, IInv,
     TypeOK
<1>9. ASSUME NEW c \in Channels, Asked(c), NEW p \in Paths, MkDir(c, p)
      PROVE  TypeOK'
  BY <1>9 DEF MkDir, Retree, Asked, connection, disk, handle, rename, hist, IInv,
     TypeOK
<1>10. ASSUME NEW c \in Channels, Asked(c), NEW p \in Paths, RmDir(c, p)
      PROVE  TypeOK'
  BY <1>10 DEF RmDir, Retree, Asked, connection, disk, handle, rename, hist, IInv,
     TypeOK
<1>11. ASSUME NEW c \in Channels, Asked(c), NEW p \in Paths, NEW q
             \in Paths, RenameLook(c, p, q)
      PROVE  TypeOK'
  BY <1>11 DEF RenameLook, Asked, connection, disk, handle, rename, hist, IInv,
     TypeOK
<1>12. ASSUME NEW h \in Handles, Asked(h[1]), NEW p \in Paths, NEW
             F \in FlagSets, OpenExisting(h, p, F)
      PROVE  TypeOK'
  BY <1>12 DEF OpenExisting, MayOpen, Opened, Show, Asked, connection, disk,
     handle, rename, hist, IInv, TypeOK
<1>13. ASSUME NEW h \in Handles, Asked(h[1]), NEW p \in Paths, NEW
             F \in FlagSets, NEW f \in Files, OpenNew(h, p, F, f)
      PROVE  TypeOK'
  BY <1>13 DEF OpenNew, MayOpen, Opened, Show, Asked, connection, disk, handle,
     rename, hist, IInv, TypeOK
<1>14. ASSUME NEW h \in Handles, Asked(h[1]), NEW p \in Paths, OpenDir(h, p)
      PROVE  TypeOK'
  BY <1>14 DEF OpenDir, Asked, connection, disk, handle, rename, hist, IInv,
     TypeOK
<1>15. ASSUME NEW h \in Handles, Asked(h[1]), Close(h)
      PROVE  TypeOK'
  <2>1. /\ late' \subseteq Files \X (0..MaxBlocks - 1)
        /\ kind' \in [Handles -> {"none", "file", "dir"}]
        /\ flight' \in [Handles -> (0..MaxBlocks - 1) \cup {NoBlock}]
        /\ failed' \in [Handles -> BOOLEAN]
    BY <1>15, DropTyped DEF Close, IInv
  <2> QED
    BY <1>15, <2>1 DEF Close, ShowNone, Asked, connection, disk, handle, rename,
       hist, IInv, TypeOK
<1>16. ASSUME NEW h \in Handles, Asked(h[1]), NEW b \in
             0..MaxBlocks - 1, Write(h, b)
      PROVE  TypeOK'
  <2>1. owed' \in [Handles -> Nat]
    BY <1>16 DEF Write, Show, IInv, WriteInv, TypeOK
  <2>2. flight' \in [Handles -> (0..MaxBlocks - 1) \cup {NoBlock}]
    BY <1>16 DEF Write, Show, IInv, TypeOK
  <2>3. failed' \in [Handles -> BOOLEAN]
    BY <1>16 DEF Write, Show, IInv, TypeOK
  <2>4. /\ UNCHANGED <<connection, readOnly, disk, kind, inode, path, flags,
                       rename, hist>>
        /\ bar' \in {bar, h}
        /\ Asked(h[1]) /\ TypeOK
    BY <1>16 DEF Write, Show, IInv
  <2> QED
    BY <2>1, <2>2, <2>3, <2>4, BoundsAssumption
    DEF Asked, connection, disk, rename, hist, TypeOK
<1>17. ASSUME NEW h \in Handles, Asked(h[1]), ReadBlock(h)
      PROVE  TypeOK'
  BY <1>17 DEF ReadBlock, Show, Asked, connection, disk, handle, rename,
     hist, IInv, TypeOK
<1>18. ASSUME NEW h \in Handles, Asked(h[1]), FSetStat(h)
      PROVE  TypeOK'
  BY <1>18 DEF FSetStat, Stamp, PathOf, Asked, connection, disk, handle, rename,
     hist, IInv, TypeOK
<1>19. ASSUME NEW h \in Handles, Land(h)
      PROVE  TypeOK'
  <2>1. /\ inode[h] \in Files /\ flight[h] \in 0..MaxBlocks - 1
        /\ owed[h] = 1
    BY <1>19 DEF Land, IInv, WriteInv, TypeOK
  <2>2. size' \in [Files -> 0..MaxBlocks]
    BY <1>19, <2>1, GrownTyped DEF Land, IInv, TypeOK
  <2>3. owed' \in [Handles -> Nat]
    BY <1>19, <2>1 DEF Land, IInv, TypeOK
  <2> QED
    BY <1>19, <2>2, <2>3 DEF Land, connection, disk, handle, rename, hist, IInv,
       TypeOK
<1>20. ASSUME NEW w \in late, LandLate(w)
      PROVE  TypeOK'
  BY <1>20 DEF LandLate, Grown, connection, disk, handle, rename, hist, IInv,
     TypeOK
<1>21. CASE UNCHANGED vars
  BY <1>21 DEF vars, connection, disk, handle, rename, hist, IInv, TypeOK
<1> QED
  BY Steps, <1>1, <1>2, <1>3, <1>4, <1>5, <1>6, <1>7, <1>8, <1>9, <1>10, <1>11,
     <1>12, <1>13, <1>14, <1>15, <1>16, <1>17, <1>18, <1>19, <1>20,
     <1>21 DEF
     ChannelStep, PathRequest, HandleRequest

LEMMA ConnectionStep ==
  ASSUME IInv, [Next]_vars
  PROVE  ConnectionInv'
<1> USE NamesAssumption
<1>1. ASSUME NEW c \in Channels, OpenChannel(c)
      PROVE  ConnectionInv'
  BY <1>1 DEF OpenChannel, connection, disk, handle, rename, hist, IInv, TypeOK,
     ConnectionInv
<1>2. ASSUME NEW c \in Channels, AskSubsystem(c)
      PROVE  ConnectionInv'
  BY <1>2 DEF AskSubsystem, connection, disk, handle, rename, hist, IInv, TypeOK,
     ConnectionInv
<1>3. ASSUME NEW c \in Channels, EndChannel(c)
      PROVE  ConnectionInv'
  BY <1>3 DEF EndChannel, Drop, connection, disk, handle, rename, hist, IInv,
     TypeOK, ConnectionInv
<1>4. ASSUME NEW c \in Channels, RenameClear(c)
      PROVE  ConnectionInv'
  BY <1>4 DEF RenameClear, Retree, GoTo, connection, disk, handle, rename, hist,
     IInv, TypeOK, ConnectionInv
<1>5. ASSUME NEW c \in Channels, RenameMove(c)
      PROVE  ConnectionInv'
  BY <1>5 DEF RenameMove, Retree, GoTo, connection, disk, handle, rename, hist,
     IInv, TypeOK, ConnectionInv
<1>6. ASSUME NEW c \in Channels, RenameFails(c)
      PROVE  ConnectionInv'
  BY <1>6 DEF RenameFails, GoTo, connection, disk, handle, rename, hist, IInv,
     TypeOK, ConnectionInv
<1>7. ASSUME NEW c \in Channels, Asked(c), NEW p \in Paths, SetStat(p)
      PROVE  ConnectionInv'
  BY <1>7 DEF SetStat, Stamp, Asked, connection, disk, handle, rename, hist, IInv,
     TypeOK, ConnectionInv
<1>8. ASSUME NEW c \in Channels, Asked(c), NEW p \in Paths, Remove(c, p)
      PROVE  ConnectionInv'
  BY <1>8 DEF Remove, Retree, Asked, connection, disk, handle, rename, hist, IInv,
     TypeOK, ConnectionInv
<1>9. ASSUME NEW c \in Channels, Asked(c), NEW p \in Paths, MkDir(c, p)
      PROVE  ConnectionInv'
  BY <1>9 DEF MkDir, Retree, Asked, connection, disk, handle, rename, hist, IInv,
     TypeOK, ConnectionInv
<1>10. ASSUME NEW c \in Channels, Asked(c), NEW p \in Paths, RmDir(c, p)
      PROVE  ConnectionInv'
  BY <1>10 DEF RmDir, Retree, Asked, connection, disk, handle, rename, hist, IInv,
     TypeOK, ConnectionInv
<1>11. ASSUME NEW c \in Channels, Asked(c), NEW p \in Paths, NEW q
             \in Paths, RenameLook(c, p, q)
      PROVE  ConnectionInv'
  BY <1>11 DEF RenameLook, Asked, connection, disk, handle, rename, hist, IInv,
     TypeOK, ConnectionInv
<1>12. ASSUME NEW h \in Handles, Asked(h[1]), NEW p \in Paths, NEW
             F \in FlagSets, OpenExisting(h, p, F)
      PROVE  ConnectionInv'
  BY <1>12 DEF OpenExisting, MayOpen, Opened, Show, Asked, connection, disk,
     handle, rename, hist, IInv, TypeOK, ConnectionInv
<1>13. ASSUME NEW h \in Handles, Asked(h[1]), NEW p \in Paths, NEW
             F \in FlagSets, NEW f \in Files, OpenNew(h, p, F, f)
      PROVE  ConnectionInv'
  BY <1>13 DEF OpenNew, MayOpen, Opened, Show, Asked, connection, disk, handle,
     rename, hist, IInv, TypeOK, ConnectionInv
<1>14. ASSUME NEW h \in Handles, Asked(h[1]), NEW p \in Paths, OpenDir(h, p)
      PROVE  ConnectionInv'
  BY <1>14 DEF OpenDir, Asked, connection, disk, handle, rename, hist, IInv,
     TypeOK, ConnectionInv
<1>15. ASSUME NEW h \in Handles, Asked(h[1]), Close(h)
      PROVE  ConnectionInv'
  BY <1>15 DEF Close, ShowNone, Drop, Asked, connection, disk, handle, rename,
     hist, IInv, TypeOK, ConnectionInv
<1>16. ASSUME NEW h \in Handles, Asked(h[1]), NEW b \in
             0..MaxBlocks - 1, Write(h, b)
      PROVE  ConnectionInv'
  BY <1>16 DEF Write, Show, Asked, connection, disk, handle, rename, hist, IInv,
     TypeOK, ConnectionInv
<1>17. ASSUME NEW h \in Handles, Asked(h[1]), ReadBlock(h)
      PROVE  ConnectionInv'
  BY <1>17 DEF ReadBlock, Show, Asked, connection, disk, handle, rename,
     hist, IInv, TypeOK, ConnectionInv
<1>18. ASSUME NEW h \in Handles, Asked(h[1]), FSetStat(h)
      PROVE  ConnectionInv'
  BY <1>18 DEF FSetStat, Stamp, PathOf, Asked, connection, disk, handle, rename,
     hist, IInv, TypeOK, ConnectionInv
<1>19. ASSUME NEW h \in Handles, Land(h)
      PROVE  ConnectionInv'
  BY <1>19 DEF Land, Grown, connection, disk, handle, rename, hist, IInv, TypeOK,
     ConnectionInv
<1>20. ASSUME NEW w \in late, LandLate(w)
      PROVE  ConnectionInv'
  BY <1>20 DEF LandLate, Grown, connection, disk, handle, rename, hist, IInv,
     TypeOK, ConnectionInv
<1>21. CASE UNCHANGED vars
  BY <1>21 DEF vars, connection, disk, handle, rename, hist, IInv, TypeOK,
     ConnectionInv
<1> QED
  BY Steps, <1>1, <1>2, <1>3, <1>4, <1>5, <1>6, <1>7, <1>8, <1>9, <1>10, <1>11,
     <1>12, <1>13, <1>14, <1>15, <1>16, <1>17, <1>18, <1>19, <1>20,
     <1>21 DEF
     ChannelStep, PathRequest, HandleRequest

LEMMA WriteStep ==
  ASSUME IInv, [Next]_vars
  PROVE  WriteInv'
<1> USE NamesAssumption, BoundsAssumption, FlagsAssumption
<1>1. ASSUME NEW c \in Channels, OpenChannel(c)
      PROVE  WriteInv'
  BY <1>1 DEF OpenChannel, connection, disk, handle, rename, hist, IInv, TypeOK,
     WriteInv
<1>2. ASSUME NEW c \in Channels, AskSubsystem(c)
      PROVE  WriteInv'
  BY <1>2 DEF AskSubsystem, connection, disk, handle, rename, hist, IInv, TypeOK,
     WriteInv
<1>3. ASSUME NEW c \in Channels, EndChannel(c)
      PROVE  WriteInv'
  BY <1>3 DEF EndChannel, Drop, connection, disk, handle, rename, hist, IInv,
     TypeOK, WriteInv
<1>4. ASSUME NEW c \in Channels, RenameClear(c)
      PROVE  WriteInv'
  BY <1>4 DEF RenameClear, Retree, GoTo, connection, disk, handle, rename, hist,
     IInv, TypeOK, WriteInv
<1>5. ASSUME NEW c \in Channels, RenameMove(c)
      PROVE  WriteInv'
  BY <1>5 DEF RenameMove, Retree, GoTo, connection, disk, handle, rename, hist,
     IInv, TypeOK, WriteInv
<1>6. ASSUME NEW c \in Channels, RenameFails(c)
      PROVE  WriteInv'
  BY <1>6 DEF RenameFails, GoTo, connection, disk, handle, rename, hist, IInv,
     TypeOK, WriteInv
<1>7. ASSUME NEW c \in Channels, Asked(c), NEW p \in Paths, SetStat(p)
      PROVE  WriteInv'
  BY <1>7 DEF SetStat, Stamp, Asked, connection, disk, handle, rename, hist, IInv,
     TypeOK, WriteInv
<1>8. ASSUME NEW c \in Channels, Asked(c), NEW p \in Paths, Remove(c, p)
      PROVE  WriteInv'
  BY <1>8 DEF Remove, Retree, Asked, connection, disk, handle, rename, hist, IInv,
     TypeOK, WriteInv
<1>9. ASSUME NEW c \in Channels, Asked(c), NEW p \in Paths, MkDir(c, p)
      PROVE  WriteInv'
  BY <1>9 DEF MkDir, Retree, Asked, connection, disk, handle, rename, hist, IInv,
     TypeOK, WriteInv
<1>10. ASSUME NEW c \in Channels, Asked(c), NEW p \in Paths, RmDir(c, p)
      PROVE  WriteInv'
  BY <1>10 DEF RmDir, Retree, Asked, connection, disk, handle, rename, hist, IInv,
     TypeOK, WriteInv
<1>11. ASSUME NEW c \in Channels, Asked(c), NEW p \in Paths, NEW q
             \in Paths, RenameLook(c, p, q)
      PROVE  WriteInv'
  BY <1>11 DEF RenameLook, Asked, connection, disk, handle, rename, hist, IInv,
     TypeOK, WriteInv
<1>12. ASSUME NEW h \in Handles, Asked(h[1]), NEW p \in Paths, NEW
             F \in FlagSets, OpenExisting(h, p, F)
      PROVE  WriteInv'
  BY <1>12 DEF OpenExisting, MayOpen, Opened, Show, Asked, connection, disk,
     handle, rename, hist, IInv, TypeOK, WriteInv
<1>13. ASSUME NEW h \in Handles, Asked(h[1]), NEW p \in Paths, NEW
             F \in FlagSets, NEW f \in Files, OpenNew(h, p, F, f)
      PROVE  WriteInv'
  BY <1>13 DEF OpenNew, MayOpen, Opened, Show, Asked, connection, disk, handle,
     rename, hist, IInv, TypeOK, WriteInv
<1>14. ASSUME NEW h \in Handles, Asked(h[1]), NEW p \in Paths, OpenDir(h, p)
      PROVE  WriteInv'
  BY <1>14 DEF OpenDir, Asked, connection, disk, handle, rename, hist, IInv,
     TypeOK, WriteInv
<1>15. ASSUME NEW h \in Handles, Asked(h[1]), Close(h)
      PROVE  WriteInv'
  BY <1>15 DEF Close, ShowNone, Drop, Asked, connection, disk, handle, rename,
     hist, IInv, TypeOK, WriteInv
<1>16. ASSUME NEW h \in Handles, Asked(h[1]), NEW b \in
             0..MaxBlocks - 1, Write(h, b)
      PROVE  WriteInv'
  BY <1>16 DEF Write, Show, Asked, connection, disk, handle, rename, hist, IInv,
     TypeOK, WriteInv
<1>17. ASSUME NEW h \in Handles, Asked(h[1]), ReadBlock(h)
      PROVE  WriteInv'
  BY <1>17 DEF ReadBlock, Show, Asked, connection, disk, handle, rename,
     hist, IInv, TypeOK, WriteInv
<1>18. ASSUME NEW h \in Handles, Asked(h[1]), FSetStat(h)
      PROVE  WriteInv'
  BY <1>18 DEF FSetStat, Stamp, PathOf, Asked, connection, disk, handle, rename,
     hist, IInv, TypeOK, WriteInv
<1>19. ASSUME NEW h \in Handles, Land(h)
      PROVE  WriteInv'
  BY <1>19 DEF Land, Grown, connection, disk, handle, rename, hist, IInv, TypeOK,
     WriteInv
<1>20. ASSUME NEW w \in late, LandLate(w)
      PROVE  WriteInv'
  BY <1>20 DEF LandLate, Grown, connection, disk, handle, rename, hist, IInv,
     TypeOK, WriteInv
<1>21. CASE UNCHANGED vars
  BY <1>21 DEF vars, connection, disk, handle, rename, hist, IInv, TypeOK,
     WriteInv
<1> QED
  BY Steps, <1>1, <1>2, <1>3, <1>4, <1>5, <1>6, <1>7, <1>8, <1>9, <1>10, <1>11,
     <1>12, <1>13, <1>14, <1>15, <1>16, <1>17, <1>18, <1>19, <1>20,
     <1>21 DEF
     ChannelStep, PathRequest, HandleRequest

LEMMA ReadOnlyStep ==
  ASSUME IInv, [Next]_vars
  PROVE  ReadOnlyInv'
<1>1. ASSUME NEW c \in Channels, OpenChannel(c)
      PROVE  ReadOnlyInv'
  BY <1>1 DEF OpenChannel, connection, disk, handle, rename, hist, IInv, TypeOK,
     ReadOnlyInv, WriteInv
<1>2. ASSUME NEW c \in Channels, AskSubsystem(c)
      PROVE  ReadOnlyInv'
  BY <1>2 DEF AskSubsystem, connection, disk, handle, rename, hist, IInv, TypeOK,
     ReadOnlyInv, WriteInv
<1>3. ASSUME NEW c \in Channels, EndChannel(c)
      PROVE  ReadOnlyInv'
  BY <1>3 DEF EndChannel, Drop, connection, disk, handle, rename, hist, IInv,
     TypeOK, ReadOnlyInv, WriteInv
<1>4. ASSUME NEW c \in Channels, RenameClear(c)
      PROVE  ReadOnlyInv'
  BY <1>4 DEF RenameClear, Retree, GoTo, connection, disk, handle, rename, hist,
     IInv, TypeOK, ReadOnlyInv, WriteInv
<1>5. ASSUME NEW c \in Channels, RenameMove(c)
      PROVE  ReadOnlyInv'
  BY <1>5 DEF RenameMove, Retree, GoTo, connection, disk, handle, rename, hist,
     IInv, TypeOK, ReadOnlyInv, WriteInv
<1>6. ASSUME NEW c \in Channels, RenameFails(c)
      PROVE  ReadOnlyInv'
  BY <1>6 DEF RenameFails, GoTo, connection, disk, handle, rename, hist, IInv,
     TypeOK, ReadOnlyInv, WriteInv
<1>7. ASSUME NEW c \in Channels, Asked(c), NEW p \in Paths, SetStat(p)
      PROVE  ReadOnlyInv'
  BY <1>7 DEF SetStat, Stamp, Asked, connection, disk, handle, rename, hist, IInv,
     TypeOK, ReadOnlyInv, WriteInv
<1>8. ASSUME NEW c \in Channels, Asked(c), NEW p \in Paths, Remove(c, p)
      PROVE  ReadOnlyInv'
  BY <1>8 DEF Remove, Retree, Asked, connection, disk, handle, rename, hist, IInv,
     TypeOK, ReadOnlyInv, WriteInv
<1>9. ASSUME NEW c \in Channels, Asked(c), NEW p \in Paths, MkDir(c, p)
      PROVE  ReadOnlyInv'
  BY <1>9 DEF MkDir, Retree, Asked, connection, disk, handle, rename, hist, IInv,
     TypeOK, ReadOnlyInv, WriteInv
<1>10. ASSUME NEW c \in Channels, Asked(c), NEW p \in Paths, RmDir(c, p)
      PROVE  ReadOnlyInv'
  BY <1>10 DEF RmDir, Retree, Asked, connection, disk, handle, rename, hist, IInv,
     TypeOK, ReadOnlyInv, WriteInv
<1>11. ASSUME NEW c \in Channels, Asked(c), NEW p \in Paths, NEW q
             \in Paths, RenameLook(c, p, q)
      PROVE  ReadOnlyInv'
  BY <1>11 DEF RenameLook, Asked, connection, disk, handle, rename, hist, IInv,
     TypeOK, ReadOnlyInv, WriteInv
<1>12. ASSUME NEW h \in Handles, Asked(h[1]), NEW p \in Paths, NEW
             F \in FlagSets, OpenExisting(h, p, F)
      PROVE  ReadOnlyInv'
  BY <1>12 DEF OpenExisting, MayOpen, Opened, Show, Asked, Mutating, connection,
     disk, handle, rename, hist, IInv, TypeOK, ReadOnlyInv, WriteInv
<1>13. ASSUME NEW h \in Handles, Asked(h[1]), NEW p \in Paths, NEW
             F \in FlagSets, NEW f \in Files, OpenNew(h, p, F, f)
      PROVE  ReadOnlyInv'
  BY <1>13 DEF OpenNew, MayOpen, Opened, Show, Asked, Mutating, connection, disk,
     handle, rename, hist, IInv, TypeOK, ReadOnlyInv, WriteInv
<1>14. ASSUME NEW h \in Handles, Asked(h[1]), NEW p \in Paths, OpenDir(h, p)
      PROVE  ReadOnlyInv'
  BY <1>14 DEF OpenDir, Asked, connection, disk, handle, rename, hist, IInv,
     TypeOK, ReadOnlyInv, WriteInv
<1>15. ASSUME NEW h \in Handles, Asked(h[1]), Close(h)
      PROVE  ReadOnlyInv'
  BY <1>15 DEF Close, ShowNone, Drop, Asked, connection, disk, handle, rename,
     hist, IInv, TypeOK, ReadOnlyInv, WriteInv
<1>16. ASSUME NEW h \in Handles, Asked(h[1]), NEW b \in
             0..MaxBlocks - 1, Write(h, b)
      PROVE  ReadOnlyInv'
  BY <1>16 DEF Write, Show, Asked, connection, disk, handle, rename, hist, IInv,
     TypeOK, ReadOnlyInv, WriteInv
<1>17. ASSUME NEW h \in Handles, Asked(h[1]), ReadBlock(h)
      PROVE  ReadOnlyInv'
  BY <1>17 DEF ReadBlock, Show, Asked, connection, disk, handle, rename,
     hist, IInv, TypeOK, ReadOnlyInv, WriteInv
<1>18. ASSUME NEW h \in Handles, Asked(h[1]), FSetStat(h)
      PROVE  ReadOnlyInv'
  BY <1>18 DEF FSetStat, Stamp, PathOf, Asked, connection, disk, handle, rename,
     hist, IInv, TypeOK, ReadOnlyInv, WriteInv
<1>19. ASSUME NEW h \in Handles, Land(h)
      PROVE  ReadOnlyInv'
  BY <1>19 DEF Land, Grown, connection, disk, handle, rename, hist, IInv, TypeOK,
     ReadOnlyInv, WriteInv
<1>20. ASSUME NEW w \in late, LandLate(w)
      PROVE  ReadOnlyInv'
  BY <1>20 DEF LandLate, Grown, connection, disk, handle, rename, hist, IInv,
     TypeOK, ReadOnlyInv, WriteInv
<1>21. CASE UNCHANGED vars
  BY <1>21 DEF vars, connection, disk, handle, rename, hist, IInv, TypeOK,
     ReadOnlyInv, WriteInv
<1> QED
  BY Steps, <1>1, <1>2, <1>3, <1>4, <1>5, <1>6, <1>7, <1>8, <1>9, <1>10, <1>11,
     <1>12, <1>13, <1>14, <1>15, <1>16, <1>17, <1>18, <1>19, <1>20,
     <1>21 DEF
     ChannelStep, PathRequest, HandleRequest

LEMMA PathStep ==
  ASSUME IInv, [Next]_vars
  PROVE  PathInv'
<1> USE NamesAssumption, UnderItself
<1>1. ASSUME NEW c \in Channels, OpenChannel(c)
      PROVE  PathInv'
  BY <1>1 DEF OpenChannel, connection, disk, handle, rename, hist, IInv, TypeOK,
     PathInv, StampHitsOwnFile, WriteInv
<1>2. ASSUME NEW c \in Channels, AskSubsystem(c)
      PROVE  PathInv'
  BY <1>2 DEF AskSubsystem, connection, disk, handle, rename, hist, IInv, TypeOK,
     PathInv, StampHitsOwnFile, WriteInv
<1>3. ASSUME NEW c \in Channels, EndChannel(c)
      PROVE  PathInv'
  BY <1>3 DEF EndChannel, Drop, connection, disk, handle, rename, hist, IInv,
     TypeOK, PathInv, StampHitsOwnFile, WriteInv
<1>4. ASSUME NEW c \in Channels, RenameClear(c)
      PROVE  PathInv'
  BY <1>4 DEF RenameClear, Retree, GoTo, connection, disk, handle, rename, hist,
     IInv, TypeOK, PathInv, StampHitsOwnFile, WriteInv
<1>5. ASSUME NEW c \in Channels, RenameMove(c)
      PROVE  PathInv'
  <2>1. /\ \A k \in Handles : ~astray'[k] =>
              /\ ~astray[k]
              /\ ~Under(path[k], from[c]) /\ ~Under(path[k], to[c])
        /\ UNCHANGED <<kind, inode, path, stamp>>
    BY <1>5 DEF RenameMove, Retree, GoTo, handle, disk, TypeOK, IInv
  <2>2. \A k \in Handles : ~astray'[k] => tree'[path[k]] = tree[path[k]]
    BY <1>5, <2>1, UnderItself, MovedElsewhere DEF RenameMove, Retree, TypeOK,
       IInv
  <2>3. \A k \in Handles : astray[k] => astray'[k]
    BY <1>5 DEF RenameMove, Retree, TypeOK, IInv
  <2> QED BY <2>1, <2>2, <2>3 DEF IInv, PathInv, StampHitsOwnFile
<1>6. ASSUME NEW c \in Channels, RenameFails(c)
      PROVE  PathInv'
  BY <1>6 DEF RenameFails, GoTo, connection, disk, handle, rename, hist, IInv,
     TypeOK, PathInv, StampHitsOwnFile, WriteInv
<1>7. ASSUME NEW c \in Channels, Asked(c), NEW p \in Paths, SetStat(p)
      PROVE  PathInv'
  <2>1. /\ stamp' = [stamp EXCEPT ![tree[p]] = NoHandle]
        /\ UNCHANGED <<tree, kind, inode, path, astray>>
    BY <1>7 DEF SetStat, Stamp, handle, hist
  <2>2. NoHandle \notin Handles
    BY NamesAssumption DEF Handles
  <2> QED BY <2>1, <2>2 DEF IInv, TypeOK, PathInv, StampHitsOwnFile
<1>8. ASSUME NEW c \in Channels, Asked(c), NEW p \in Paths, Remove(c, p)
      PROVE  PathInv'
  <2>1. /\ \A k \in Handles : ~astray'[k] =>
              /\ ~astray[k]
              /\ ~Under(path[k], p)
        /\ UNCHANGED <<kind, inode, path, stamp>>
    BY <1>8 DEF Remove, Retree, GoTo, handle, disk, TypeOK, IInv
  <2>2. \A k \in Handles : ~astray'[k] => tree'[path[k]] = tree[path[k]]
    BY <1>8, <2>1, UnderItself DEF Remove, Retree, TypeOK, IInv
  <2>3. \A k \in Handles : astray[k] => astray'[k]
    BY <1>8 DEF Remove, Retree, TypeOK, IInv
  <2> QED BY <2>1, <2>2, <2>3 DEF IInv, PathInv, StampHitsOwnFile
<1>9. ASSUME NEW c \in Channels, Asked(c), NEW p \in Paths, MkDir(c, p)
      PROVE  PathInv'
  BY <1>9 DEF MkDir, Retree, Asked, connection, disk, handle, rename, hist, IInv,
     TypeOK, PathInv, StampHitsOwnFile, WriteInv
<1>10. ASSUME NEW c \in Channels, Asked(c), NEW p \in Paths, RmDir(c, p)
      PROVE  PathInv'
  <2>1. /\ \A k \in Handles : ~astray'[k] =>
              /\ ~astray[k]
              /\ ~Under(path[k], p)
        /\ UNCHANGED <<kind, inode, path, stamp>>
    BY <1>10 DEF RmDir, Retree, GoTo, handle, disk, TypeOK, IInv
  <2>2. \A k \in Handles : ~astray'[k] => tree'[path[k]] = tree[path[k]]
    BY <1>10, <2>1, UnderItself DEF RmDir, Retree, TypeOK, IInv
  <2>3. \A k \in Handles : astray[k] => astray'[k]
    BY <1>10 DEF RmDir, Retree, TypeOK, IInv
  <2> QED BY <2>1, <2>2, <2>3 DEF IInv, PathInv, StampHitsOwnFile
<1>11. ASSUME NEW c \in Channels, Asked(c), NEW p \in Paths, NEW q
             \in Paths, RenameLook(c, p, q)
      PROVE  PathInv'
  BY <1>11 DEF RenameLook, Asked, connection, disk, handle, rename, hist, IInv,
     TypeOK, PathInv, StampHitsOwnFile, WriteInv
<1>12. ASSUME NEW h \in Handles, Asked(h[1]), NEW p \in Paths, NEW
             F \in FlagSets, OpenExisting(h, p, F)
      PROVE  PathInv'
  <2>1. /\ stamp' = [g \in Files |-> IF stamp[g] = h THEN NoHandle ELSE stamp[g]]
        /\ inode' = [inode EXCEPT ![h] = tree[p]] /\ tree' = tree
        /\ path' = [path EXCEPT ![h] = p] /\ kind' = [kind EXCEPT ![h] = "file"]
        /\ astray' = [astray EXCEPT ![h] = FALSE]
    BY <1>12 DEF OpenExisting, Opened, Show
  <2>2. NoHandle \notin Handles
    BY NamesAssumption DEF Handles
  <2>3. StampHitsOwnFile'
    BY <2>1, <2>2 DEF IInv, TypeOK, PathInv, StampHitsOwnFile
  <2> QED BY <2>1, <2>3 DEF IInv, TypeOK, PathInv
<1>13. ASSUME NEW h \in Handles, Asked(h[1]), NEW p \in Paths, NEW
             F \in FlagSets, NEW f \in Files, OpenNew(h, p, F, f)
      PROVE  PathInv'
  <2>1. /\ stamp' = [g \in Files |-> IF stamp[g] = h THEN NoHandle ELSE stamp[g]]
        /\ inode' = [inode EXCEPT ![h] = f] /\ tree' = [tree EXCEPT ![p] = f]
        /\ path' = [path EXCEPT ![h] = p] /\ kind' = [kind EXCEPT ![h] = "file"]
        /\ astray' = [astray EXCEPT ![h] = FALSE] /\ tree[p] = NoEntry
    BY <1>13 DEF OpenNew, Opened, Show
  <2>2. NoHandle \notin Handles
    BY NamesAssumption DEF Handles
  <2>3. StampHitsOwnFile'
    BY <2>1, <2>2 DEF IInv, TypeOK, PathInv, StampHitsOwnFile
  <2>4. ASSUME NEW k \in Handles, kind'[k] = "file", ~astray'[k]
        PROVE  tree'[path'[k]] = inode'[k]
    <3>1. CASE k = h
      BY <2>1, <3>1 DEF IInv, TypeOK
    <3>2. CASE k # h
      <4>1. kind[k] = "file" /\ ~astray[k] /\ path'[k] = path[k]
            /\ inode'[k] = inode[k]
        BY <2>1, <2>4, <3>2 DEF IInv, TypeOK
      <4>2. tree[path[k]] = inode[k] /\ inode[k] # NoEntry
        BY <4>1 DEF IInv, PathInv, WriteInv
      <4> QED BY <2>1, <4>1, <4>2 DEF IInv, TypeOK
    <3> QED BY <3>1, <3>2
  <2> QED BY <2>3, <2>4 DEF PathInv
<1>14. ASSUME NEW h \in Handles, Asked(h[1]), NEW p \in Paths, OpenDir(h, p)
      PROVE  PathInv'
  BY <1>14 DEF OpenDir, Asked, connection, disk, handle, rename, hist, IInv,
     TypeOK, PathInv, StampHitsOwnFile, WriteInv
<1>15. ASSUME NEW h \in Handles, Asked(h[1]), Close(h)
      PROVE  PathInv'
  BY <1>15 DEF Close, ShowNone, Drop, Asked, connection, disk, handle, rename,
     hist, IInv, TypeOK, PathInv, StampHitsOwnFile, WriteInv
<1>16. ASSUME NEW h \in Handles, Asked(h[1]), NEW b \in
             0..MaxBlocks - 1, Write(h, b)
      PROVE  PathInv'
  BY <1>16 DEF Write, Show, Asked, connection, disk, handle, rename, hist, IInv,
     TypeOK, PathInv, StampHitsOwnFile, WriteInv
<1>17. ASSUME NEW h \in Handles, Asked(h[1]), ReadBlock(h)
      PROVE  PathInv'
  BY <1>17 DEF ReadBlock, Show, Asked, connection, disk, handle, rename,
     hist, IInv, TypeOK, PathInv, StampHitsOwnFile, WriteInv
<1>18. ASSUME NEW h \in Handles, Asked(h[1]), FSetStat(h)
      PROVE  PathInv'
  BY <1>18 DEF FSetStat, Stamp, PathOf, Asked, connection, disk, handle, rename,
     hist, IInv, TypeOK, PathInv, StampHitsOwnFile, WriteInv
<1>19. ASSUME NEW h \in Handles, Land(h)
      PROVE  PathInv'
  BY <1>19 DEF Land, Grown, connection, disk, handle, rename, hist, IInv, TypeOK,
     PathInv, StampHitsOwnFile, WriteInv
<1>20. ASSUME NEW w \in late, LandLate(w)
      PROVE  PathInv'
  BY <1>20 DEF LandLate, Grown, connection, disk, handle, rename, hist, IInv,
     TypeOK, PathInv, StampHitsOwnFile, WriteInv
<1>21. CASE UNCHANGED vars
  BY <1>21 DEF vars, connection, disk, handle, rename, hist, IInv, TypeOK,
     PathInv, StampHitsOwnFile, WriteInv
<1> QED
  BY Steps, <1>1, <1>2, <1>3, <1>4, <1>5, <1>6, <1>7, <1>8, <1>9, <1>10, <1>11,
     <1>12, <1>13, <1>14, <1>15, <1>16, <1>17, <1>18, <1>19, <1>20,
     <1>21 DEF
     ChannelStep, PathRequest, HandleRequest

LEMMA RenameStep ==
  ASSUME IInv, [Next]_vars
  PROVE  RenameInv'
<1>1. ASSUME NEW c \in Channels, OpenChannel(c)
      PROVE  RenameInv'
  BY <1>1 DEF OpenChannel, connection, disk, handle, rename, hist, IInv, TypeOK,
     RenameInv
<1>2. ASSUME NEW c \in Channels, AskSubsystem(c)
      PROVE  RenameInv'
  BY <1>2 DEF AskSubsystem, connection, disk, handle, rename, hist, IInv, TypeOK,
     RenameInv
<1>3. ASSUME NEW c \in Channels, EndChannel(c)
      PROVE  RenameInv'
  BY <1>3 DEF EndChannel, Drop, connection, disk, handle, rename, hist, IInv,
     TypeOK, RenameInv
<1>4. ASSUME NEW c \in Channels, RenameClear(c)
      PROVE  RenameInv'
  BY <1>4 DEF RenameClear, Retree, GoTo, connection, disk, handle, rename, hist,
     IInv, TypeOK, RenameInv
<1>5. ASSUME NEW c \in Channels, RenameMove(c)
      PROVE  RenameInv'
  BY <1>5 DEF RenameMove, Retree, GoTo, connection, disk, handle, rename, hist,
     IInv, TypeOK, RenameInv
<1>6. ASSUME NEW c \in Channels, RenameFails(c)
      PROVE  RenameInv'
  BY <1>6 DEF RenameFails, GoTo, connection, disk, handle, rename, hist, IInv,
     TypeOK, RenameInv
<1>7. ASSUME NEW c \in Channels, Asked(c), NEW p \in Paths, SetStat(p)
      PROVE  RenameInv'
  BY <1>7 DEF SetStat, Stamp, Asked, connection, disk, handle, rename, hist, IInv,
     TypeOK, RenameInv
<1>8. ASSUME NEW c \in Channels, Asked(c), NEW p \in Paths, Remove(c, p)
      PROVE  RenameInv'
  BY <1>8 DEF Remove, Retree, Asked, connection, disk, handle, rename, hist, IInv,
     TypeOK, RenameInv
<1>9. ASSUME NEW c \in Channels, Asked(c), NEW p \in Paths, MkDir(c, p)
      PROVE  RenameInv'
  BY <1>9 DEF MkDir, Retree, Asked, connection, disk, handle, rename, hist, IInv,
     TypeOK, RenameInv
<1>10. ASSUME NEW c \in Channels, Asked(c), NEW p \in Paths, RmDir(c, p)
      PROVE  RenameInv'
  BY <1>10 DEF RmDir, Retree, Asked, connection, disk, handle, rename, hist, IInv,
     TypeOK, RenameInv
<1>11. ASSUME NEW c \in Channels, Asked(c), NEW p \in Paths, NEW q
             \in Paths, RenameLook(c, p, q)
      PROVE  RenameInv'
  BY <1>11 DEF RenameLook, Asked, connection, disk, handle, rename, hist, IInv,
     TypeOK, RenameInv
<1>12. ASSUME NEW h \in Handles, Asked(h[1]), NEW p \in Paths, NEW
             F \in FlagSets, OpenExisting(h, p, F)
      PROVE  RenameInv'
  BY <1>12 DEF OpenExisting, MayOpen, Opened, Show, Asked, connection, disk,
     handle, rename, hist, IInv, TypeOK, RenameInv
<1>13. ASSUME NEW h \in Handles, Asked(h[1]), NEW p \in Paths, NEW
             F \in FlagSets, NEW f \in Files, OpenNew(h, p, F, f)
      PROVE  RenameInv'
  BY <1>13 DEF OpenNew, MayOpen, Opened, Show, Asked, connection, disk, handle,
     rename, hist, IInv, TypeOK, RenameInv
<1>14. ASSUME NEW h \in Handles, Asked(h[1]), NEW p \in Paths, OpenDir(h, p)
      PROVE  RenameInv'
  BY <1>14 DEF OpenDir, Asked, connection, disk, handle, rename, hist, IInv,
     TypeOK, RenameInv
<1>15. ASSUME NEW h \in Handles, Asked(h[1]), Close(h)
      PROVE  RenameInv'
  BY <1>15 DEF Close, ShowNone, Drop, Asked, connection, disk, handle, rename,
     hist, IInv, TypeOK, RenameInv
<1>16. ASSUME NEW h \in Handles, Asked(h[1]), NEW b \in
             0..MaxBlocks - 1, Write(h, b)
      PROVE  RenameInv'
  BY <1>16 DEF Write, Show, Asked, connection, disk, handle, rename, hist, IInv,
     TypeOK, RenameInv
<1>17. ASSUME NEW h \in Handles, Asked(h[1]), ReadBlock(h)
      PROVE  RenameInv'
  BY <1>17 DEF ReadBlock, Show, Asked, connection, disk, handle, rename,
     hist, IInv, TypeOK, RenameInv
<1>18. ASSUME NEW h \in Handles, Asked(h[1]), FSetStat(h)
      PROVE  RenameInv'
  BY <1>18 DEF FSetStat, Stamp, PathOf, Asked, connection, disk, handle, rename,
     hist, IInv, TypeOK, RenameInv
<1>19. ASSUME NEW h \in Handles, Land(h)
      PROVE  RenameInv'
  BY <1>19 DEF Land, Grown, connection, disk, handle, rename, hist, IInv, TypeOK,
     RenameInv
<1>20. ASSUME NEW w \in late, LandLate(w)
      PROVE  RenameInv'
  BY <1>20 DEF LandLate, Grown, connection, disk, handle, rename, hist, IInv,
     TypeOK, RenameInv
<1>21. CASE UNCHANGED vars
  BY <1>21 DEF vars, connection, disk, handle, rename, hist, IInv, TypeOK,
     RenameInv
<1> QED
  BY Steps, <1>1, <1>2, <1>3, <1>4, <1>5, <1>6, <1>7, <1>8, <1>9, <1>10, <1>11,
     <1>12, <1>13, <1>14, <1>15, <1>16, <1>17, <1>18, <1>19, <1>20,
     <1>21 DEF
     ChannelStep, PathRequest, HandleRequest

LEMMA BarsStep ==
  ASSUME IInv, [Next]_vars
  PROVE  BarsEnd'
<1>1. ASSUME NEW c \in Channels, OpenChannel(c)
      PROVE  BarsEnd'
  BY <1>1 DEF OpenChannel, connection, disk, handle, rename, hist, IInv, TypeOK,
     BarsEnd
<1>2. ASSUME NEW c \in Channels, AskSubsystem(c)
      PROVE  BarsEnd'
  BY <1>2 DEF AskSubsystem, connection, disk, handle, rename, hist, IInv, TypeOK,
     BarsEnd
<1>3. ASSUME NEW c \in Channels, EndChannel(c)
      PROVE  BarsEnd'
  BY <1>3 DEF EndChannel, Drop, connection, disk, handle, rename, hist, IInv,
     TypeOK, BarsEnd
<1>4. ASSUME NEW c \in Channels, RenameClear(c)
      PROVE  BarsEnd'
  BY <1>4 DEF RenameClear, Retree, GoTo, connection, disk, handle, rename, hist,
     IInv, TypeOK, BarsEnd
<1>5. ASSUME NEW c \in Channels, RenameMove(c)
      PROVE  BarsEnd'
  BY <1>5 DEF RenameMove, Retree, GoTo, connection, disk, handle, rename, hist,
     IInv, TypeOK, BarsEnd
<1>6. ASSUME NEW c \in Channels, RenameFails(c)
      PROVE  BarsEnd'
  BY <1>6 DEF RenameFails, GoTo, connection, disk, handle, rename, hist, IInv,
     TypeOK, BarsEnd
<1>7. ASSUME NEW c \in Channels, Asked(c), NEW p \in Paths, SetStat(p)
      PROVE  BarsEnd'
  BY <1>7 DEF SetStat, Stamp, Asked, connection, disk, handle, rename, hist, IInv,
     TypeOK, BarsEnd
<1>8. ASSUME NEW c \in Channels, Asked(c), NEW p \in Paths, Remove(c, p)
      PROVE  BarsEnd'
  BY <1>8 DEF Remove, Retree, Asked, connection, disk, handle, rename, hist, IInv,
     TypeOK, BarsEnd
<1>9. ASSUME NEW c \in Channels, Asked(c), NEW p \in Paths, MkDir(c, p)
      PROVE  BarsEnd'
  BY <1>9 DEF MkDir, Retree, Asked, connection, disk, handle, rename, hist, IInv,
     TypeOK, BarsEnd
<1>10. ASSUME NEW c \in Channels, Asked(c), NEW p \in Paths, RmDir(c, p)
      PROVE  BarsEnd'
  BY <1>10 DEF RmDir, Retree, Asked, connection, disk, handle, rename, hist, IInv,
     TypeOK, BarsEnd
<1>11. ASSUME NEW c \in Channels, Asked(c), NEW p \in Paths, NEW q
             \in Paths, RenameLook(c, p, q)
      PROVE  BarsEnd'
  BY <1>11 DEF RenameLook, Asked, connection, disk, handle, rename, hist, IInv,
     TypeOK, BarsEnd
<1>12. ASSUME NEW h \in Handles, Asked(h[1]), NEW p \in Paths, NEW
             F \in FlagSets, OpenExisting(h, p, F)
      PROVE  BarsEnd'
  BY <1>12 DEF OpenExisting, MayOpen, Opened, Show, Asked, connection, disk,
     handle, rename, hist, IInv, TypeOK, BarsEnd
<1>13. ASSUME NEW h \in Handles, Asked(h[1]), NEW p \in Paths, NEW
             F \in FlagSets, NEW f \in Files, OpenNew(h, p, F, f)
      PROVE  BarsEnd'
  BY <1>13 DEF OpenNew, MayOpen, Opened, Show, Asked, connection, disk, handle,
     rename, hist, IInv, TypeOK, BarsEnd
<1>14. ASSUME NEW h \in Handles, Asked(h[1]), NEW p \in Paths, OpenDir(h, p)
      PROVE  BarsEnd'
  BY <1>14 DEF OpenDir, Asked, connection, disk, handle, rename, hist, IInv,
     TypeOK, BarsEnd
<1>15. ASSUME NEW h \in Handles, Asked(h[1]), Close(h)
      PROVE  BarsEnd'
  BY <1>15 DEF Close, ShowNone, Drop, Asked, connection, disk, handle, rename,
     hist, IInv, TypeOK, BarsEnd
<1>16. ASSUME NEW h \in Handles, Asked(h[1]), NEW b \in
             0..MaxBlocks - 1, Write(h, b)
      PROVE  BarsEnd'
  BY <1>16 DEF Write, Show, Asked, connection, disk, handle, rename, hist, IInv,
     TypeOK, BarsEnd
<1>17. ASSUME NEW h \in Handles, Asked(h[1]), ReadBlock(h)
      PROVE  BarsEnd'
  BY <1>17 DEF ReadBlock, Show, Asked, connection, disk, handle, rename,
     hist, IInv, TypeOK, BarsEnd
<1>18. ASSUME NEW h \in Handles, Asked(h[1]), FSetStat(h)
      PROVE  BarsEnd'
  BY <1>18 DEF FSetStat, Stamp, PathOf, Asked, connection, disk, handle, rename,
     hist, IInv, TypeOK, BarsEnd
<1>19. ASSUME NEW h \in Handles, Land(h)
      PROVE  BarsEnd'
  BY <1>19 DEF Land, Grown, connection, disk, handle, rename, hist, IInv, TypeOK,
     BarsEnd
<1>20. ASSUME NEW w \in late, LandLate(w)
      PROVE  BarsEnd'
  BY <1>20 DEF LandLate, Grown, connection, disk, handle, rename, hist, IInv,
     TypeOK, BarsEnd
<1>21. CASE UNCHANGED vars
  BY <1>21 DEF vars, connection, disk, handle, rename, hist, IInv, TypeOK, BarsEnd
<1> QED
  BY Steps, <1>1, <1>2, <1>3, <1>4, <1>5, <1>6, <1>7, <1>8, <1>9, <1>10, <1>11,
     <1>12, <1>13, <1>14, <1>15, <1>16, <1>17, <1>18, <1>19, <1>20,
     <1>21 DEF
     ChannelStep, PathRequest, HandleRequest

LEMMA InitInv == Init => IInv
<1> SUFFICES ASSUME Init PROVE IInv
  OBVIOUS
<1> USE PathsAssumption, BoundsAssumption, NamesAssumption DEF Init
<1>1. TypeOK
  <2>1. <<>> \in Paths /\ 0 \in Nat /\ 0 \in 0..MaxBlocks /\ 0 \in 0..MaxRequests
    OBVIOUS
  <2>2. /\ waiting \in Channels \cup {NoChannel}
        /\ chan \in [Channels -> {"closed", "open", "serving", "ended"}]
        /\ acked \subseteq Channels
        /\ tree \in [Paths -> Files \cup {Dir, NoEntry}]
        /\ size \in [Files -> 0..MaxBlocks]
        /\ stamp \in [Files -> Handles \cup {NoHandle}]
        /\ late \subseteq Files \X (0..MaxBlocks - 1)
    BY <2>1
  <2>3. /\ kind \in [Handles -> {"none", "file", "dir"}]
        /\ inode \in [Handles -> Files \cup {Dir, NoEntry}]
        /\ path \in [Handles -> Paths]
        /\ flags \in [Handles -> SUBSET Flags]
        /\ flight \in [Handles -> (0..MaxBlocks - 1) \cup {NoBlock}]
        /\ failed \in [Handles -> BOOLEAN]
        /\ bar \in Handles \cup {NoHandle}
        /\ owed \in [Handles -> Nat] /\ astray \in [Handles -> BOOLEAN]
    BY <2>1
  <2>4. /\ pc \in [Channels -> {"idle", "clear", "move"}]
        /\ from \in [Channels -> Paths] /\ to \in [Channels -> Paths]
        /\ seen \in [Channels -> Files \cup {Dir, NoEntry}]
        /\ requests \in 0..MaxRequests
        /\ source \in [Channels -> Files \cup {Dir, NoEntry}]
        /\ crossed \in [Channels -> BOOLEAN] /\ crowded \in BOOLEAN
        /\ readOnly \in BOOLEAN
    BY <2>1
  <2> QED BY <2>2, <2>3, <2>4 DEF TypeOK
<1>2. ConnectionInv /\ WriteInv /\ ReadOnlyInv /\ RenameInv /\ BarsEnd
  BY DEF ConnectionInv, WriteInv, ReadOnlyInv, RenameInv, BarsEnd
<1>3. PathInv
  BY DEF PathInv, StampHitsOwnFile, Handles
<1> QED BY <1>1, <1>2, <1>3 DEF IInv

LEMMA StepInv == IInv /\ [Next]_vars => IInv'
BY TypeStep, ConnectionStep, WriteStep, ReadOnlyStep, PathStep, RenameStep,
   BarsStep DEF IInv

LEMMA InvariantHolds == Spec => []IInv
BY InitInv, StepInv, PTL DEF Spec

-----------------------------------------------------------------------------
(* The theorems.                                                           *)

\* Every variable keeps to its type.
THEOREM TypeCorrect == Spec => []TypeOK
<1>1. IInv => TypeOK
  BY DEF IInv
<1> QED BY <1>1, InvariantHolds, PTL

\* A client that opens one channel at a time is served on the channel it
\* asked for, however many it opens.
THEOREM ServedCorrect == Spec => []ServedOwnChannel
<1>1. IInv => ServedOwnChannel
  BY DEF IInv, ConnectionInv, ServedOwnChannel
<1> QED BY <1>1, InvariantHolds, PTL

\* fsetstat by handle never hits the file of another, unless the path of the
\* handle was renamed, replaced or removed by some request.
THEOREM StampCorrect == Spec => []StampHitsOwnFile
<1>1. IInv => StampHitsOwnFile
  BY DEF IInv, PathInv
<1> QED BY <1>1, InvariantHolds, PTL

\* However long the upload, at most one acknowledged block is missing from
\* the file without an answer that says so.
THEOREM WritesTold == Spec => []OnlyLastWriteUntold
<1>1. IInv => OnlyLastWriteUntold
  BY DEF IInv, WriteInv, OnlyLastWriteUntold
<1> QED BY <1>1, InvariantHolds, PTL

\* The transfer in the page's slot is one of an open file, unless its session
\* ended with the file open.
THEOREM BarsCorrect == Spec => []BarsEnd
<1>1. IInv => BarsEnd
  BY DEF IInv
<1> QED BY <1>1, InvariantHolds, PTL

\* No step changes the directory of a read-only server.
LEMMA ReadOnlyKeeps ==
  ASSUME IInv, [Next]_vars
  PROVE  readOnly => UNCHANGED <<tree, size, stamp>>
<1>1. ASSUME NEW c \in Channels, OpenChannel(c)
      PROVE  readOnly => UNCHANGED <<tree, size, stamp>>
  BY <1>1 DEF OpenChannel, connection, disk, handle, rename, hist, IInv,
     ReadOnlyInv, WriteInv
<1>2. ASSUME NEW c \in Channels, AskSubsystem(c)
      PROVE  readOnly => UNCHANGED <<tree, size, stamp>>
  BY <1>2 DEF AskSubsystem, connection, disk, handle, rename, hist, IInv,
     ReadOnlyInv, WriteInv
<1>3. ASSUME NEW c \in Channels, EndChannel(c)
      PROVE  readOnly => UNCHANGED <<tree, size, stamp>>
  BY <1>3 DEF EndChannel, Drop, connection, disk, handle, rename, hist, IInv,
     ReadOnlyInv, WriteInv
<1>4. ASSUME NEW c \in Channels, RenameClear(c)
      PROVE  readOnly => UNCHANGED <<tree, size, stamp>>
  BY <1>4 DEF RenameClear, Retree, GoTo, connection, disk, handle, rename, hist,
     IInv, ReadOnlyInv, WriteInv
<1>5. ASSUME NEW c \in Channels, RenameMove(c)
      PROVE  readOnly => UNCHANGED <<tree, size, stamp>>
  BY <1>5 DEF RenameMove, Retree, GoTo, connection, disk, handle, rename, hist,
     IInv, ReadOnlyInv, WriteInv
<1>6. ASSUME NEW c \in Channels, RenameFails(c)
      PROVE  readOnly => UNCHANGED <<tree, size, stamp>>
  BY <1>6 DEF RenameFails, GoTo, connection, disk, handle, rename, hist, IInv,
     ReadOnlyInv, WriteInv
<1>7. ASSUME NEW c \in Channels, Asked(c), NEW p \in Paths, SetStat(p)
      PROVE  readOnly => UNCHANGED <<tree, size, stamp>>
  BY <1>7 DEF SetStat, Stamp, Asked, connection, disk, handle, rename, hist, IInv,
     ReadOnlyInv, WriteInv
<1>8. ASSUME NEW c \in Channels, Asked(c), NEW p \in Paths, Remove(c, p)
      PROVE  readOnly => UNCHANGED <<tree, size, stamp>>
  BY <1>8 DEF Remove, Retree, Asked, connection, disk, handle, rename, hist, IInv,
     ReadOnlyInv, WriteInv
<1>9. ASSUME NEW c \in Channels, Asked(c), NEW p \in Paths, MkDir(c, p)
      PROVE  readOnly => UNCHANGED <<tree, size, stamp>>
  BY <1>9 DEF MkDir, Retree, Asked, connection, disk, handle, rename, hist, IInv,
     ReadOnlyInv, WriteInv
<1>10. ASSUME NEW c \in Channels, Asked(c), NEW p \in Paths, RmDir(c, p)
      PROVE  readOnly => UNCHANGED <<tree, size, stamp>>
  BY <1>10 DEF RmDir, Retree, Asked, connection, disk, handle, rename, hist, IInv,
     ReadOnlyInv, WriteInv
<1>11. ASSUME NEW c \in Channels, Asked(c), NEW p \in Paths, NEW q
             \in Paths, RenameLook(c, p, q)
      PROVE  readOnly => UNCHANGED <<tree, size, stamp>>
  BY <1>11 DEF RenameLook, Asked, connection, disk, handle, rename, hist, IInv,
     ReadOnlyInv, WriteInv
<1>12. ASSUME NEW h \in Handles, Asked(h[1]), NEW p \in Paths, NEW
             F \in FlagSets, OpenExisting(h, p, F)
      PROVE  readOnly => UNCHANGED <<tree, size, stamp>>
  <2> SUFFICES ASSUME readOnly PROVE UNCHANGED <<tree, size, stamp>>
    OBVIOUS
  <2>1. ~Mutating(F) /\ tree' = tree
        /\ size' = [f \in Files |->
              IF f = tree[p] /\ "truncate" \in F THEN 0 ELSE size[f]]
        /\ stamp' = [g \in Files |-> IF stamp[g] = h THEN NoHandle ELSE stamp[g]]
    BY <1>12 DEF OpenExisting, MayOpen, Opened, Show
  <2>2. "truncate" \notin F
    BY <2>1 DEF Mutating
  <2>3. size' = size
    BY <2>1, <2>2 DEF IInv, TypeOK
  <2>4. stamp' = stamp
    BY <2>1, NamesAssumption DEF IInv, TypeOK, ReadOnlyInv, Handles
  <2> QED BY <2>1, <2>3, <2>4
<1>13. ASSUME NEW h \in Handles, Asked(h[1]), NEW p \in Paths, NEW
             F \in FlagSets, NEW f \in Files, OpenNew(h, p, F, f)
      PROVE  readOnly => UNCHANGED <<tree, size, stamp>>
  BY <1>13 DEF OpenNew, MayOpen, Opened, Show, Asked, Mutating, connection, disk,
     handle, rename, hist, IInv, ReadOnlyInv
<1>14. ASSUME NEW h \in Handles, Asked(h[1]), NEW p \in Paths, OpenDir(h, p)
      PROVE  readOnly => UNCHANGED <<tree, size, stamp>>
  BY <1>14 DEF OpenDir, Asked, connection, disk, handle, rename, hist, IInv,
     ReadOnlyInv, WriteInv
<1>15. ASSUME NEW h \in Handles, Asked(h[1]), Close(h)
      PROVE  readOnly => UNCHANGED <<tree, size, stamp>>
  BY <1>15 DEF Close, ShowNone, Drop, Asked, connection, disk, handle, rename,
     hist, IInv, ReadOnlyInv, WriteInv
<1>16. ASSUME NEW h \in Handles, Asked(h[1]), NEW b \in
             0..MaxBlocks - 1, Write(h, b)
      PROVE  readOnly => UNCHANGED <<tree, size, stamp>>
  BY <1>16 DEF Write, Show, Asked, connection, disk, handle, rename, hist, IInv,
     ReadOnlyInv, WriteInv
<1>17. ASSUME NEW h \in Handles, Asked(h[1]), ReadBlock(h)
      PROVE  readOnly => UNCHANGED <<tree, size, stamp>>
  BY <1>17 DEF ReadBlock, Show, Asked, connection, disk, handle, rename,
     hist, IInv, ReadOnlyInv, WriteInv
<1>18. ASSUME NEW h \in Handles, Asked(h[1]), FSetStat(h)
      PROVE  readOnly => UNCHANGED <<tree, size, stamp>>
  BY <1>18 DEF FSetStat, Stamp, PathOf, Asked, connection, disk, handle, rename,
     hist, IInv, ReadOnlyInv, WriteInv
<1>19. ASSUME NEW h \in Handles, Land(h)
      PROVE  readOnly => UNCHANGED <<tree, size, stamp>>
  BY <1>19 DEF Land, Grown, connection, disk, handle, rename, hist, IInv,
     ReadOnlyInv, WriteInv
<1>20. ASSUME NEW w \in late, LandLate(w)
      PROVE  readOnly => UNCHANGED <<tree, size, stamp>>
  BY <1>20 DEF LandLate, Grown, connection, disk, handle, rename, hist, IInv,
     ReadOnlyInv, WriteInv
<1>21. CASE UNCHANGED vars
  BY <1>21 DEF vars, connection, disk, handle, rename, hist, IInv, ReadOnlyInv,
     WriteInv
<1> QED
  BY Steps, <1>1, <1>2, <1>3, <1>4, <1>5, <1>6, <1>7, <1>8, <1>9, <1>10, <1>11,
     <1>12, <1>13, <1>14, <1>15, <1>16, <1>17, <1>18, <1>19, <1>20,
     <1>21 DEF
     ChannelStep, PathRequest, HandleRequest

\* A read-only server never changes a name, a content or an attribute,
\* whatever the clients open, hold and ask, in whatever order.
THEOREM ReadOnlyCorrect == Spec => ReadOnlyKeepsTree
<1>1. IInv /\ [Next]_vars => [readOnly => UNCHANGED <<tree, size, stamp>>]_vars
  BY ReadOnlyKeeps
<1> QED BY <1>1, InvariantHolds, PTL DEF Spec, ReadOnlyKeepsTree

\* When a rename ends, what it was to move is at the one path or the other.
SourceKept ==
  \A k \in Channels :
    pc[k] # "idle" /\ pc'[k] = "idle" /\ ~crossed[k] /\ from[k] # to[k] =>
      source[k] \in {tree'[from[k]], tree'[to[k]]}

LEMMA RenameKeeps ==
  ASSUME IInv, [Next]_vars
  PROVE  SourceKept
<1>1. ASSUME NEW c \in Channels, OpenChannel(c)
      PROVE  SourceKept
  BY <1>1 DEF OpenChannel, connection, disk, handle, rename, hist, IInv, TypeOK,
     RenameInv, SourceKept
<1>2. ASSUME NEW c \in Channels, AskSubsystem(c)
      PROVE  SourceKept
  BY <1>2 DEF AskSubsystem, connection, disk, handle, rename, hist, IInv, TypeOK,
     RenameInv, SourceKept
<1>3. ASSUME NEW c \in Channels, EndChannel(c)
      PROVE  SourceKept
  BY <1>3 DEF EndChannel, Drop, connection, disk, handle, rename, hist, IInv,
     TypeOK, RenameInv, SourceKept
<1>4. ASSUME NEW c \in Channels, RenameClear(c)
      PROVE  SourceKept
  BY <1>4 DEF RenameClear, Retree, GoTo, connection, disk, handle, rename, hist,
     IInv, TypeOK, RenameInv, SourceKept
<1>5. ASSUME NEW c \in Channels, RenameMove(c)
      PROVE  SourceKept
  <2>1. tree' = Moved(from[c], to[c]) /\ \A k \in Channels \ {c} : pc'[k] = pc[k]
    BY <1>5 DEF RenameMove, Retree, GoTo, TypeOK, IInv
  <2>2. tree'[to[c]] = tree[from[c]]
    BY <2>1, MovedThere DEF IInv, TypeOK
  <2> QED BY <2>1, <2>2 DEF SourceKept, IInv, RenameInv, TypeOK
<1>6. ASSUME NEW c \in Channels, RenameFails(c)
      PROVE  SourceKept
  BY <1>6 DEF RenameFails, GoTo, connection, disk, handle, rename, hist, IInv,
     TypeOK, RenameInv, SourceKept
<1>7. ASSUME NEW c \in Channels, Asked(c), NEW p \in Paths, SetStat(p)
      PROVE  SourceKept
  BY <1>7 DEF SetStat, Stamp, Asked, connection, disk, handle, rename, hist, IInv,
     TypeOK, RenameInv, SourceKept
<1>8. ASSUME NEW c \in Channels, Asked(c), NEW p \in Paths, Remove(c, p)
      PROVE  SourceKept
  BY <1>8 DEF Remove, Retree, Asked, connection, disk, handle, rename, hist, IInv,
     TypeOK, RenameInv, SourceKept
<1>9. ASSUME NEW c \in Channels, Asked(c), NEW p \in Paths, MkDir(c, p)
      PROVE  SourceKept
  BY <1>9 DEF MkDir, Retree, Asked, connection, disk, handle, rename, hist, IInv,
     TypeOK, RenameInv, SourceKept
<1>10. ASSUME NEW c \in Channels, Asked(c), NEW p \in Paths, RmDir(c, p)
      PROVE  SourceKept
  BY <1>10 DEF RmDir, Retree, Asked, connection, disk, handle, rename, hist, IInv,
     TypeOK, RenameInv, SourceKept
<1>11. ASSUME NEW c \in Channels, Asked(c), NEW p \in Paths, NEW q
             \in Paths, RenameLook(c, p, q)
      PROVE  SourceKept
  BY <1>11 DEF RenameLook, Asked, connection, disk, handle, rename, hist, IInv,
     TypeOK, RenameInv, SourceKept
<1>12. ASSUME NEW h \in Handles, Asked(h[1]), NEW p \in Paths, NEW
             F \in FlagSets, OpenExisting(h, p, F)
      PROVE  SourceKept
  BY <1>12 DEF OpenExisting, MayOpen, Opened, Show, Asked, connection, disk,
     handle, rename, hist, IInv, TypeOK, RenameInv, SourceKept
<1>13. ASSUME NEW h \in Handles, Asked(h[1]), NEW p \in Paths, NEW
             F \in FlagSets, NEW f \in Files, OpenNew(h, p, F, f)
      PROVE  SourceKept
  BY <1>13 DEF OpenNew, MayOpen, Opened, Show, Asked, connection, disk, handle,
     rename, hist, IInv, TypeOK, RenameInv, SourceKept
<1>14. ASSUME NEW h \in Handles, Asked(h[1]), NEW p \in Paths, OpenDir(h, p)
      PROVE  SourceKept
  BY <1>14 DEF OpenDir, Asked, connection, disk, handle, rename, hist, IInv,
     TypeOK, RenameInv, SourceKept
<1>15. ASSUME NEW h \in Handles, Asked(h[1]), Close(h)
      PROVE  SourceKept
  BY <1>15 DEF Close, ShowNone, Drop, Asked, connection, disk, handle, rename,
     hist, IInv, TypeOK, RenameInv, SourceKept
<1>16. ASSUME NEW h \in Handles, Asked(h[1]), NEW b \in
             0..MaxBlocks - 1, Write(h, b)
      PROVE  SourceKept
  BY <1>16 DEF Write, Show, Asked, connection, disk, handle, rename, hist, IInv,
     TypeOK, RenameInv, SourceKept
<1>17. ASSUME NEW h \in Handles, Asked(h[1]), ReadBlock(h)
      PROVE  SourceKept
  BY <1>17 DEF ReadBlock, Show, Asked, connection, disk, handle, rename,
     hist, IInv, TypeOK, RenameInv, SourceKept
<1>18. ASSUME NEW h \in Handles, Asked(h[1]), FSetStat(h)
      PROVE  SourceKept
  BY <1>18 DEF FSetStat, Stamp, PathOf, Asked, connection, disk, handle, rename,
     hist, IInv, TypeOK, RenameInv, SourceKept
<1>19. ASSUME NEW h \in Handles, Land(h)
      PROVE  SourceKept
  BY <1>19 DEF Land, Grown, connection, disk, handle, rename, hist, IInv, TypeOK,
     RenameInv, SourceKept
<1>20. ASSUME NEW w \in late, LandLate(w)
      PROVE  SourceKept
  BY <1>20 DEF LandLate, Grown, connection, disk, handle, rename, hist, IInv,
     TypeOK, RenameInv, SourceKept
<1>21. CASE UNCHANGED vars
  BY <1>21 DEF vars, connection, disk, handle, rename, hist, IInv, TypeOK,
     RenameInv, SourceKept
<1> QED
  BY Steps, <1>1, <1>2, <1>3, <1>4, <1>5, <1>6, <1>7, <1>8, <1>9, <1>10, <1>11,
     <1>12, <1>13, <1>14, <1>15, <1>16, <1>17, <1>18, <1>19, <1>20,
     <1>21 DEF
     ChannelStep, PathRequest, HandleRequest

\* A rename that no other session crossed never loses what it moves,
\* wherever it fails, for every pair of different paths.
THEOREM RenameCorrect == Spec => RenameKeepsSource
<1>1. IInv /\ [Next]_vars =>
        [\A c \in Channels :
           pc[c] # "idle" /\ pc'[c] = "idle" /\ ~crossed[c] /\ from[c] # to[c] =>
             source[c] \in {tree'[from[c]], tree'[to[c]]}]_vars
  BY RenameKeeps DEF SourceKept
<1> QED
  BY <1>1, InvariantHolds, PTL DEF Spec, RenameKeepsSource

=============================================================================
