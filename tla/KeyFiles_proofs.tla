-------------------------- MODULE KeyFiles_proofs --------------------------
(***************************************************************************)
(* Proofs about KeyFiles, for any number of commands under way together    *)
(* and any bound on the commands.                                          *)
(***************************************************************************)
EXTENDS KeyFiles, FiniteSetTheorems, TLAPS

-----------------------------------------------------------------------------
(* The inductive invariant.                                                *)

\* The commands that may still make a pair.
Before == {"look", "removeFirst", "removeSecond", "openFirst"}

Pending == {t \in Tasks : stage[t] \in Before}

\* Every pair made belongs to a command that makes no other.
CountInv ==
  /\ IsFiniteSet(Pending)
  /\ made + Cardinality(Pending) <= commands

\* A command past the open of the first file makes a pair.
BornInv ==
  \A t \in Tasks :
    stage[t] \in {"fillFirst", "openSecond", "fillSecond", "readBack"} =>
      born[t] \in Made

\* Until something is hurt a pair is made alone, its files written in order.
MakingInv ==
  ~hurt =>
    \A t \in Tasks :
      /\ stage[t] \in Making =>
           /\ \A u \in Tasks \ {t} : stage[u] = "free"
           /\ shown = Nothing
      /\ stage[t] \in {"openSecond", "fillSecond", "readBack"} => first = born[t]
      /\ stage[t] = "readBack" => second = born[t]

\* What was told could be told again.
ToldInv ==
  ~hurt /\ shown # Nothing => first = shown /\ Usable

\* While no pair is being made, and no write was cut short, the files are of
\* one pair or of none.
PairInv ==
  ~hurt /\ ~cut /\ (\A t \in Tasks : stage[t] \notin Making) =>
    /\ first = second
    /\ first \in Made \cup {Missing}

IInv ==
  /\ TypeOK
  /\ CountInv
  /\ BornInv
  /\ MakingInv
  /\ ToldInv
  /\ TellsWhole
  /\ PairInv

-----------------------------------------------------------------------------
(* The commands that may still make a pair.                                *)

\* The command of t goes on to s, which adds t to the pending ones, takes it
\* away or leaves it.
LEMMA PendingMoves ==
  ASSUME TypeOK, IsFiniteSet(Pending), NEW t \in Tasks, NEW s, Goes(t, s)
  PROVE  /\ IsFiniteSet(Pending')
         /\ stage[t] \notin Before /\ s \in Before =>
              Cardinality(Pending') = Cardinality(Pending) + 1
         /\ stage[t] \in Before /\ s \notin Before =>
              Cardinality(Pending') = Cardinality(Pending) - 1
         /\ (stage[t] \in Before <=> s \in Before) =>
              Cardinality(Pending') = Cardinality(Pending)
<1>1. /\ stage'[t] = s
      /\ \A u \in Tasks \ {t} : stage'[u] = stage[u]
  BY DEF Goes, TypeOK
<1>2. t \in Pending <=> stage[t] \in Before
  BY DEF Pending
<1>3. Pending' = IF s \in Before THEN Pending \cup {t} ELSE Pending \ {t}
  BY <1>1 DEF Pending
<1>4. CASE s \in Before /\ stage[t] \notin Before
  BY <1>2, <1>3, <1>4, FS_AddElement
<1>5. CASE s \notin Before /\ stage[t] \in Before
  BY <1>2, <1>3, <1>5, FS_RemoveElement
<1>6. CASE stage[t] \in Before <=> s \in Before
  <2>1. Pending' = Pending
    BY <1>2, <1>3, <1>6
  <2> QED BY <2>1, <1>6
<1> QED BY <1>4, <1>5, <1>6

\* Nothing is pending once every command is gone.
LEMMA PendingNone ==
  ASSUME \A t \in Tasks : stage[t] = "free"
  PROVE  IsFiniteSet(Pending) /\ Cardinality(Pending) = 0
<1>1. Pending = {}
  BY DEF Pending, Before
<1> QED BY <1>1, FS_EmptySet

-----------------------------------------------------------------------------
(* The initial state.                                                      *)

LEMMA InitIInv == Init => IInv
<1> SUFFICES ASSUME Init PROVE IInv
  OBVIOUS
<1>1. TypeOK
  <2>1. 0 \in 0..MaxCommands
    BY BoundsAssumption
  <2>2. /\ stage \in [Tasks -> Making \cup {"free", "look"}]
        /\ born \in [Tasks -> 0..MaxCommands]
    BY <2>1 DEF Init
  <2> QED BY <2>1, <2>2 DEF Init, TypeOK, Contents
<1>2. CountInv
  BY PendingNone DEF Init, CountInv
<1>3. BornInv /\ MakingInv /\ ToldInv /\ TellsWhole /\ PairInv
  BY DEF Init, BornInv, MakingInv, Making, ToldInv, TellsWhole, PairInv
<1> QED BY <1>1, <1>2, <1>3 DEF IInv

-----------------------------------------------------------------------------
(* Each step keeps the inductive invariant.                                *)

\* A step of the command of task t.
Step(t) ==
  \/ Load(t) \/ Regenerate(t) \/ Look(t)
  \/ RemoveFirst(t) \/ RemoveSecond(t)
  \/ OpenFirst(t) \/ FillFirst(t) \/ OpenSecond(t) \/ FillSecond(t)
  \/ ReadBack(t) \/ WriteFails(t)

\* The commands bound the pairs made.
LEMMA StepCountInv ==
  ASSUME IInv, NEW t \in Tasks, Step(t)
  PROVE  CountInv'
<1>1. /\ IsFiniteSet(Pending) /\ Cardinality(Pending) \in Nat
      /\ made + Cardinality(Pending) <= commands
      /\ made \in Nat /\ commands \in Nat
  <2>1. made \in Nat /\ commands \in Nat
    BY BoundsAssumption DEF IInv, TypeOK, Making
  <2>2. IsFiniteSet(Pending) /\ made + Cardinality(Pending) <= commands
    BY DEF IInv, CountInv
  <2> QED BY <2>1, <2>2, FS_CardinalityType
<1>2. TypeOK
  BY DEF IInv
<1>3. CASE Load(t)
  <2>1. Goes(t, "look") /\ stage[t] \notin Before /\ "look" \in Before
    BY <1>3 DEF Load, Enters, Before
  <2>2. made' = made /\ commands' = commands + 1
    BY <1>3 DEF Load
  <2> QED BY <1>1, <1>2, <2>1, <2>2, PendingMoves DEF CountInv
<1>4. CASE Regenerate(t)
  <2>1. /\ Goes(t, "removeFirst")
        /\ stage[t] \notin Before /\ "removeFirst" \in Before
    BY <1>4 DEF Regenerate, Enters, Before
  <2>2. made' = made /\ commands' = commands + 1
    BY <1>4 DEF Regenerate
  <2> QED BY <1>1, <1>2, <2>1, <2>2, PendingMoves DEF CountInv
<1>5. CASE OpenFirst(t)
  <2>1. /\ Goes(t, "fillFirst")
        /\ stage[t] \in Before /\ "fillFirst" \notin Before
    BY <1>5 DEF OpenFirst, Before
  <2>2. made' = made + 1 /\ commands' = commands
    BY <1>5 DEF OpenFirst
  <2> QED BY <1>1, <1>2, <2>1, <2>2, PendingMoves DEF CountInv
<1>6. CASE \/ Look(t) \/ RemoveFirst(t) \/ RemoveSecond(t) \/ FillFirst(t)
           \/ OpenSecond(t) \/ FillSecond(t) \/ ReadBack(t) \/ WriteFails(t)
  <2>1. PICK s : Goes(t, s) /\ (s \in Before => stage[t] \in Before)
    BY <1>6 DEF Look, RemoveFirst, RemoveSecond, FillFirst, OpenSecond, FillSecond,
                ReadBack, WriteFails, Tells, Enters, Before
  <2>2. made' = made /\ commands' = commands
    BY <1>6 DEF Look, RemoveFirst, RemoveSecond, FillFirst, OpenSecond, FillSecond,
                ReadBack, WriteFails
  <2> QED BY <1>1, <1>2, <2>1, <2>2, PendingMoves DEF CountInv
<1> QED BY <1>3, <1>4, <1>5, <1>6 DEF Step

\* The pair a command is about to make has a number left.
LEMMA PairsLeft ==
  ASSUME IInv, NEW t \in Tasks, stage[t] = "openFirst"
  PROVE  made + 1 \in Made /\ made + 1 \in 0..MaxCommands
<1>1. /\ made \in Nat /\ commands \in Nat /\ commands <= MaxCommands
      /\ MaxCommands \in Nat
  BY BoundsAssumption DEF IInv, TypeOK, Making
<1>2. IsFiniteSet(Pending) /\ made + Cardinality(Pending) <= commands
  BY DEF IInv, CountInv
<1>3. Cardinality(Pending) \in Nat
  BY <1>2, FS_CardinalityType
<1>4. Cardinality(Pending) # 0
  <2>1. t \in Pending
    BY DEF Pending, Before
  <2> QED BY <1>2, <2>1, FS_EmptySet
<1> QED BY <1>1, <1>2, <1>3, <1>4 DEF Made

LEMMA StepTypeOK ==
  ASSUME IInv, NEW t \in Tasks, Step(t)
  PROVE  TypeOK'
<1>1. TypeOK /\ MaxCommands \in Nat
  BY BoundsAssumption DEF IInv
<1>2. CASE Load(t) \/ Regenerate(t)
  <2>1. commands + 1 \in 0..MaxCommands
    <3>1. commands < MaxCommands
      BY <1>2 DEF Load, Regenerate
    <3> QED BY <1>1, <3>1 DEF TypeOK
  <2>2. hurt' \in BOOLEAN
    BY <1>2 DEF Load, Regenerate, Enters
  <2> QED BY <1>1, <1>2, <2>1, <2>2 DEF Load, Regenerate, Enters, Goes, TypeOK, Making
<1>3. CASE Look(t)
  BY <1>1, <1>3 DEF Look, Enters, Tells, Goes, TypeOK, Making, Usable, Parses
<1>4. CASE RemoveFirst(t) \/ RemoveSecond(t) \/ OpenSecond(t)
  BY <1>1, <1>4 DEF RemoveFirst, RemoveSecond, OpenSecond, Goes, TypeOK, Making,
                    Contents
<1>5. CASE OpenFirst(t)
  <2>1. made + 1 \in 0..MaxCommands
    BY <1>5, PairsLeft DEF OpenFirst
  <2> QED BY <1>1, <1>5, <2>1 DEF OpenFirst, Goes, TypeOK, Making, Contents
<1>6. CASE FillFirst(t) \/ FillSecond(t)
  <2>1. born[t] \in Made
    BY <1>6 DEF FillFirst, FillSecond, IInv, BornInv
  <2> QED BY <1>1, <1>6, <2>1 DEF FillFirst, FillSecond, Goes, TypeOK, Making, Contents
<1>7. CASE ReadBack(t)
  <2>1. born[t] \in Made
    BY <1>7 DEF ReadBack, IInv, BornInv
  <2> QED BY <1>1, <1>7, <2>1 DEF ReadBack, Tells, Goes, TypeOK, Making, Parses
<1>8. CASE WriteFails(t)
  BY <1>1, <1>8 DEF WriteFails, Left, Goes, TypeOK, Making, Contents
<1> QED BY <1>2, <1>3, <1>4, <1>5, <1>6, <1>7, <1>8 DEF Step

LEMMA StepBornInv ==
  ASSUME IInv, NEW t \in Tasks, Step(t)
  PROVE  BornInv'
<1> SUFFICES ASSUME NEW u \in Tasks,
                    stage'[u] \in {"fillFirst", "openSecond", "fillSecond", "readBack"}
             PROVE  born'[u] \in Made
  BY DEF BornInv
<1>1. TypeOK /\ BornInv
  BY DEF IInv
<1>2. CASE OpenFirst(t)
  <2>1. made + 1 \in Made
    BY <1>2, PairsLeft DEF OpenFirst
  <2> QED BY <1>1, <1>2, <2>1 DEF OpenFirst, Goes, TypeOK, BornInv
<1>3. CASE Load(t) \/ Regenerate(t) \/ Look(t) \/ RemoveFirst(t) \/ RemoveSecond(t)
  BY <1>1, <1>3 DEF Load, Regenerate, Look, RemoveFirst, RemoveSecond, Enters, Tells,
                    Goes, TypeOK, BornInv
<1>4. CASE FillFirst(t) \/ OpenSecond(t) \/ FillSecond(t)
  BY <1>1, <1>4 DEF FillFirst, OpenSecond, FillSecond, Goes, TypeOK, BornInv
<1>5. CASE ReadBack(t) \/ WriteFails(t)
  BY <1>1, <1>5 DEF ReadBack, WriteFails, Tells, Goes, TypeOK, BornInv
<1> QED BY <1>2, <1>3, <1>4, <1>5 DEF Step

LEMMA StepMakingInv ==
  ASSUME IInv, NEW t \in Tasks, Step(t)
  PROVE  MakingInv'
<1>1. TypeOK /\ MakingInv /\ BornInv
  BY DEF IInv
<1>2. CASE Load(t)
  BY <1>1, <1>2 DEF Load, Enters, Goes, TypeOK, MakingInv, Making
<1>3. CASE Regenerate(t)
  BY <1>1, <1>3 DEF Regenerate, Enters, Goes, TypeOK, MakingInv, Making
<1>4. CASE Look(t)
  <2>1. CASE Tells(t, first) /\ UNCHANGED hurt
    BY <1>1, <1>4, <2>1 DEF Look, Tells, Goes, TypeOK, MakingInv, Making
  <2>2. CASE Enters(t, "openFirst", Usable) /\ UNCHANGED shown
    <3>1. ~hurt' => ~hurt /\ ~Usable /\ \A u \in Tasks \ {t} : stage[u] = "free"
      BY <2>2 DEF Enters, Making
    <3>2. ~hurt' => shown = Nothing
      BY <3>1 DEF IInv, ToldInv
    <3> QED BY <1>1, <1>4, <2>2, <3>1, <3>2
            DEF Look, Enters, Goes, TypeOK, MakingInv, Making
  <2> QED BY <1>4, <2>1, <2>2 DEF Look
<1>5. CASE RemoveFirst(t) \/ RemoveSecond(t)
  BY <1>1, <1>5 DEF RemoveFirst, RemoveSecond, Goes, TypeOK, MakingInv, Making
<1>6. CASE OpenFirst(t)
  BY <1>1, <1>6 DEF OpenFirst, Goes, TypeOK, MakingInv, Making
<1>7. CASE FillFirst(t)
  BY <1>1, <1>7 DEF FillFirst, Goes, TypeOK, MakingInv, Making
<1>8. CASE OpenSecond(t)
  BY <1>1, <1>8 DEF OpenSecond, Goes, TypeOK, MakingInv, Making
<1>9. CASE FillSecond(t)
  BY <1>1, <1>9 DEF FillSecond, Goes, TypeOK, MakingInv, Making
<1>10. CASE ReadBack(t)
  BY <1>1, <1>10 DEF ReadBack, Tells, Goes, TypeOK, MakingInv, Making
<1>11. CASE WriteFails(t)
  BY <1>1, <1>11 DEF WriteFails, Goes, TypeOK, MakingInv, Making
<1> QED BY <1>2, <1>3, <1>4, <1>5, <1>6, <1>7, <1>8, <1>9, <1>10, <1>11 DEF Step

LEMMA StepToldInv ==
  ASSUME IInv, NEW t \in Tasks, Step(t)
  PROVE  ToldInv'
<1>1. TypeOK /\ MakingInv /\ BornInv /\ ToldInv
  BY DEF IInv
<1>2. CASE Load(t) \/ Regenerate(t)
  BY <1>1, <1>2 DEF Load, Regenerate, Enters, ToldInv, Usable, Parses
<1>3. CASE Look(t)
  BY <1>1, <1>3 DEF Look, Enters, Tells, ToldInv, Usable, Parses
<1>4. CASE \/ RemoveFirst(t) \/ RemoveSecond(t) \/ OpenFirst(t) \/ FillFirst(t)
           \/ OpenSecond(t) \/ FillSecond(t) \/ WriteFails(t)
  <2>1. stage[t] \in Making /\ shown' = shown /\ hurt' = hurt
    BY <1>4 DEF RemoveFirst, RemoveSecond, OpenFirst, FillFirst, OpenSecond, FillSecond,
                WriteFails, Making
  <2>2. ~hurt' => shown' = Nothing
    BY <1>1, <2>1 DEF MakingInv
  <2> QED BY <2>2 DEF ToldInv
<1>5. CASE ReadBack(t)
  <2>1. born[t] \in Made /\ stage[t] \in Making
    BY <1>1, <1>5 DEF ReadBack, BornInv, Making
  <2>2. ~hurt => first = born[t] /\ second = born[t] /\ shown = Nothing
    BY <1>1, <1>5, <2>1 DEF ReadBack, MakingInv
  <2>3. Missing \notin Made
    BY ContentsAssumption
  <2> QED BY <1>1, <1>5, <2>1, <2>2, <2>3
          DEF ReadBack, Tells, ToldInv, Usable, Parses
<1> QED BY <1>2, <1>3, <1>4, <1>5 DEF Step

LEMMA StepTellsWhole ==
  ASSUME IInv, NEW t \in Tasks, Step(t)
  PROVE  TellsWhole'
<1>1. TypeOK /\ MakingInv /\ BornInv /\ TellsWhole /\ PairInv
  BY DEF IInv
<1>2. CASE Load(t) \/ Regenerate(t)
  BY <1>1, <1>2 DEF Load, Regenerate, Enters, TellsWhole
<1>3. CASE Look(t)
  <2>1. CASE Usable /\ Tells(t, first) /\ UNCHANGED hurt
    <3>1. /\ store' = store /\ hurt' = hurt /\ cut' = cut /\ shown' = first
          /\ first \in Made \/ (first = Empty /\ store = "cert")
      BY <1>3, <2>1 DEF Look, Tells, Usable, Parses
    <3>2. ~hurt /\ ~cut => first \in Made \cup {Missing}
      <4>1. ~hurt => \A u \in Tasks : stage[u] \notin Making
        BY <1>1, <1>3 DEF Look, MakingInv, Making
      <4> QED BY <1>1, <4>1 DEF PairInv
    <3>3. Empty # Missing /\ Empty \notin Made
      BY ContentsAssumption
    <3> QED BY <3>1, <3>2, <3>3 DEF TellsWhole
  <2>2. CASE Enters(t, "openFirst", Usable) /\ UNCHANGED shown
    BY <1>1, <1>3, <2>2 DEF Look, Enters, TellsWhole
  <2> QED BY <1>3, <2>1, <2>2 DEF Look
<1>4. CASE \/ RemoveFirst(t) \/ RemoveSecond(t) \/ OpenFirst(t) \/ FillFirst(t)
           \/ OpenSecond(t) \/ FillSecond(t) \/ WriteFails(t)
  BY <1>1, <1>4 DEF RemoveFirst, RemoveSecond, OpenFirst, FillFirst, OpenSecond,
                    FillSecond, WriteFails, TellsWhole
<1>5. CASE ReadBack(t)
  <2>1. born[t] \in Made /\ stage[t] \in Making
    BY <1>1, <1>5 DEF ReadBack, BornInv, Making
  <2>2. ~hurt => first = born[t]
    BY <1>1, <1>5, <2>1 DEF ReadBack, MakingInv
  <2> QED BY <1>1, <1>5, <2>1, <2>2 DEF ReadBack, Tells, TellsWhole
<1> QED BY <1>2, <1>3, <1>4, <1>5 DEF Step

LEMMA StepPairInv ==
  ASSUME IInv, NEW t \in Tasks, Step(t)
  PROVE  PairInv'
<1>1. TypeOK /\ MakingInv /\ BornInv /\ PairInv
  BY DEF IInv
<1>2. CASE Load(t)
  BY <1>1, <1>2 DEF Load, Enters, Goes, TypeOK, PairInv, Making
<1>3. CASE Look(t)
  BY <1>1, <1>3 DEF Look, Enters, Tells, Goes, TypeOK, PairInv, Making
<1>4. CASE Regenerate(t) \/ RemoveFirst(t) \/ RemoveSecond(t) \/ OpenFirst(t)
  <2>1. stage'[t] \in Making
    BY <1>1, <1>4 DEF Regenerate, RemoveFirst, RemoveSecond, OpenFirst, Enters, Goes,
                      TypeOK, Making
  <2> QED BY <2>1 DEF PairInv
<1>5. CASE FillFirst(t) \/ OpenSecond(t) \/ FillSecond(t)
  <2>1. stage'[t] \in Making
    BY <1>1, <1>5 DEF FillFirst, OpenSecond, FillSecond, Goes, TypeOK, Making
  <2> QED BY <2>1 DEF PairInv
<1>6. CASE ReadBack(t)
  <2>1. born[t] \in Made /\ stage[t] \in Making
    BY <1>1, <1>6 DEF ReadBack, BornInv, Making
  <2>2. ~hurt => first = born[t] /\ second = born[t]
    BY <1>1, <1>6, <2>1 DEF ReadBack, MakingInv
  <2> QED BY <1>6, <2>1, <2>2 DEF ReadBack, PairInv
<1>7. CASE WriteFails(t)
  BY <1>7 DEF WriteFails, PairInv
<1> QED BY <1>2, <1>3, <1>4, <1>5, <1>6, <1>7 DEF Step

\* Killing the app leaves no command under way.
LEMMA CrashIInv ==
  ASSUME IInv, Crash
  PROVE  IInv'
<1>1. TypeOK /\ TellsWhole /\ PairInv /\ ToldInv /\ CountInv
  BY DEF IInv
<1>2. /\ \A t \in Tasks : stage'[t] = "free"
      /\ stage' \in [Tasks -> Making \cup {"free", "look"}]
      /\ UNCHANGED <<store, made, born, commands, shown, hurt>>
      /\ cut' = (cut \/ \E t \in Tasks : stage[t] \in Making)
  BY DEF Crash
<1>3. /\ first' \in {first, Empty, Broken} /\ second' \in {second, Empty, Broken}
      /\ (\A t \in Tasks : stage[t] \notin Making) => first' = first /\ second' = second
  BY DEF Crash, Left, Making
<1>4. TypeOK'
  <2>1. cut' \in BOOLEAN
    BY <1>2
  <2> QED BY <1>1, <1>2, <1>3, <2>1 DEF TypeOK, Contents
<1>5. CountInv'
  <2>1. IsFiniteSet(Pending') /\ Cardinality(Pending') = 0
    <3>1. Pending' = {}
      BY <1>2 DEF Pending, Before
    <3> QED BY <3>1, FS_EmptySet
  <2>2. IsFiniteSet(Pending) /\ made + Cardinality(Pending) <= commands
    BY <1>1 DEF CountInv
  <2>3. Cardinality(Pending) \in Nat
    BY <2>2, FS_CardinalityType
  <2>4. made \in Nat /\ commands \in Nat
    BY <1>1, BoundsAssumption DEF TypeOK
  <2> QED BY <1>2, <2>1, <2>2, <2>3, <2>4 DEF CountInv
<1>6. BornInv' /\ MakingInv'
  BY <1>2 DEF BornInv, MakingInv, Making
<1>7. ToldInv'
  <2>1. ~hurt /\ shown # Nothing => \A t \in Tasks : stage[t] \notin Making
    BY DEF IInv, MakingInv
  <2> QED BY <1>1, <1>2, <1>3, <2>1 DEF ToldInv, Usable, Parses
<1>8. TellsWhole'
  BY <1>1, <1>2 DEF TellsWhole
<1>9. PairInv'
  <2>1. ~hurt' /\ ~cut' =>
          ~hurt /\ ~cut /\ (\A t \in Tasks : stage[t] \notin Making)
    BY <1>2
  <2> QED BY <1>1, <1>3, <2>1 DEF PairInv
<1> QED BY <1>4, <1>5, <1>6, <1>7, <1>8, <1>9 DEF IInv

LEMMA NextIInv == IInv /\ [Next]_vars => IInv'
<1> SUFFICES ASSUME IInv, [Next]_vars PROVE IInv'
  OBVIOUS
<1>1. ASSUME NEW t \in Tasks, Step(t) PROVE IInv'
  BY <1>1, StepTypeOK, StepCountInv, StepBornInv, StepMakingInv, StepToldInv,
     StepTellsWhole, StepPairInv DEF IInv
<1>2. CASE Crash
  BY <1>2, CrashIInv
<1>3. CASE UNCHANGED vars
  BY <1>3 DEF vars, IInv, TypeOK, CountInv, Pending, BornInv, MakingInv, ToldInv, TellsWhole,
              PairInv, Usable, Parses
<1> QED BY <1>1, <1>2, <1>3 DEF Next, Step

LEMMA InvariantHolds == Spec => []IInv
<1> QED BY InitIInv, NextIInv, PTL DEF Spec

-----------------------------------------------------------------------------
(* The theorems.                                                           *)

\* The pair a peer was told of is not exchanged behind its back: neither the
\* fingerprint told last nor the file it is of changes before the user asks
\* for a new pair, however often the app is killed and started again.
NoSilentChange ==
  [][~hurt' /\ shown # Nothing /\ shown' # Nothing =>
       shown' = shown /\ first' = first /\ second' = second]_vars

\* Every variable keeps its type: no more pairs are made than commands given.
THEOREM TypeCorrect == Spec => []TypeOK
<1>1. IInv => TypeOK
  BY DEF IInv
<1> QED BY <1>1, InvariantHolds, PTL

\* The fingerprint told last is that of the pair on disk, whatever write fails
\* and whenever the app is killed, until the user asks for a new pair.
THEOREM FingerprintOnDisk == Spec => []ShownOnDisk
<1>1. IInv => ShownOnDisk
  BY DEF IInv, ToldInv, ShownOnDisk
<1> QED BY <1>1, InvariantHolds, PTL

\* The fingerprint of half a host key is never told, and that of half a
\* certificate only after a write was cut short.
THEOREM WholeKeyTold == Spec => []TellsWhole
<1>1. IInv => TellsWhole
  BY DEF IInv
<1> QED BY <1>1, InvariantHolds, PTL

\* Commands that make a pair one at a time, with no write cut short, leave two
\* files that belong together.
THEOREM FilesOfOnePair == Spec => []PairMatches
<1>1. IInv => PairMatches
  BY DEF IInv, PairInv, PairMatches, Making
<1> QED BY <1>1, InvariantHolds, PTL

\* A fingerprint once told changes only through the user's command.
THEOREM FingerprintKept == Spec => NoSilentChange
<1>1. ASSUME IInv, IInv', [Next]_vars, ~hurt', shown # Nothing, shown' # Nothing
      PROVE  shown' = shown /\ first' = first /\ second' = second
  <2>1. ~hurt
    BY <1>1 DEF Next, Load, Regenerate, Look, RemoveFirst, RemoveSecond, OpenFirst,
                FillFirst, OpenSecond, FillSecond, ReadBack, WriteFails, Crash, Enters, vars
  <2>2. \A t \in Tasks : stage[t] \notin Making
    BY <1>1, <2>1 DEF IInv, MakingInv
  <2>3. CASE \E t \in Tasks : Load(t) \/ Regenerate(t) \/ Look(t)
    <3>1. first' = first /\ second' = second
      BY <2>3 DEF Load, Regenerate, Look
    <3>2. first = shown /\ first' = shown'
      BY <1>1, <2>1 DEF IInv, ToldInv
    <3> QED BY <3>1, <3>2
  <2>4. CASE Crash
    BY <2>2, <2>4 DEF Crash, Left, Making
  <2>5. ASSUME NEW t \in Tasks,
               \/ RemoveFirst(t) \/ RemoveSecond(t) \/ OpenFirst(t) \/ FillFirst(t)
               \/ OpenSecond(t) \/ FillSecond(t) \/ ReadBack(t) \/ WriteFails(t)
        PROVE  FALSE
    <3>1. stage[t] \in Making
      BY <2>5 DEF RemoveFirst, RemoveSecond, OpenFirst, FillFirst, OpenSecond, FillSecond,
                  ReadBack, WriteFails, Making
    <3> QED BY <2>2, <3>1
  <2>6. CASE UNCHANGED vars
    BY <2>6 DEF vars
  <2> QED BY <1>1, <2>3, <2>4, <2>5, <2>6 DEF Next
<1>2. IInv /\ IInv' /\ [Next]_vars =>
        [~hurt' /\ shown # Nothing /\ shown' # Nothing =>
           shown' = shown /\ first' = first /\ second' = second]_vars
  BY <1>1
<1> QED BY <1>2, InvariantHolds, PTL DEF Spec, NoSilentChange

=============================================================================
