----------------------- MODULE ServerLifecycle_proofs -----------------------
(***************************************************************************)
(* Proofs about ServerLifecycle, for any finite set of session tasks and   *)
(* for attached (FTP, TFTP) and detached (SFTP) sessions alike.            *)
(***************************************************************************)
EXTENDS ServerLifecycle, FiniteSetTheorems, TLAPS

\* What the accept loop's position says of the flag, of its sender and of the
\* reason it left.
LoopInv ==
  /\ running <=> pc[Loop] \in {"select", "spawn", "exiting"}
  /\ loopTx <=> pc[Loop] # "done"
  /\ exitCause = "none" <=> pc[Loop] \in {"select", "spawn"}
  /\ alarm => pc[Loop] \in {"unwound", "done"}

\* What the handle's position says of the stop request and of its signal.
StopInv ==
  /\ handle = "held" <=> ~stopRequested
  /\ \A t \in Tasks : inbox[t] = "sent" => stopRequested
  /\ exitCause = "stop" => stopRequested
  /\ handle = "joined" => pc[Loop] = "done"

\* A session publishes only between the drop of its guard and its end.
PubInv == \A s \in Sessions : pc[s] # "dropped" => pub[s] = "idle"

\* As long as no publishes have overlapped, at most one task publishes, and
\* what it has read so far is still true.
SnapInv ==
  ~overlapped =>
    /\ \A t, u \in Publishing : t = u
    /\ \A t \in Publishing :
         /\ pub[t] \in {"sessions", "replace"} => snap[t].running = running
         /\ pub[t] = "replace" => snap[t].sessions = sessions

IInv ==
  /\ TypeOK
  /\ CountIsGuards
  /\ LoopInv
  /\ StopInv
  /\ PubInv
  /\ SnapInv
  /\ SnapshotCurrentIfNoOverlap
  /\ NoFalseAlarm
  /\ OnlyStopCutsSessions

\* The step relation as one disjunction, for the case splits below.
LEMMA NextCases ==
  ASSUME [Next]_vars
  PROVE  \/ \E t \in Tasks : LoadRunning(t) \/ LoadSessions(t) \/ Replace(t)
         \/ \E s \in Sessions : Accept(s) \/ Spawn(s)
         \/ \E s \in Sessions :
              \/ HandshakeDone(s) \/ SessionEnds(s) \/ SessionStopped(s)
              \/ Disconnected(s) \/ DropSessionGuard(s) \/ SessionGone(s)
         \/ LoopStop \/ LoopDies \/ DropLoopGuard \/ ReportExit
         \/ DropCaptures
         \/ RequestStop \/ SendStop \/ DropSender \/ StopReturns
         \/ UNCHANGED vars
BY DEF Next, Publish, LoopNext, SessionNext, HandleNext

\* The guards are some of finitely many session tasks.
LEMMA GuardsFinite == IsFiniteSet(Guards)
BY FS_Subset, SessionsFinite DEF Guards

\* Every step keeps the types; the counter is positive when a guard drops.
LEMMA TypeStep ==
  ASSUME TypeOK, CountIsGuards, [Next]_vars
  PROVE  TypeOK'
<1> DEFINE Goal == TypeOK'
<1>1. ASSUME NEW t \in Tasks, LoadRunning(t) PROVE Goal
  BY <1>1, LoopIsNoSession, DetachedIsFlag
  DEF LoadRunning, TypeOK, Tasks, Snapshot, NoSnap, LoopStates,
      SessionStates, GuardStates, shared, history
<1>2. ASSUME NEW t \in Tasks, LoadSessions(t) PROVE Goal
  BY <1>2, LoopIsNoSession, DetachedIsFlag
  DEF LoadSessions, TypeOK, Tasks, Snapshot, NoSnap, LoopStates,
      SessionStates, GuardStates, shared, history
<1>3. ASSUME NEW t \in Tasks, Replace(t) PROVE Goal
  BY <1>3, LoopIsNoSession, DetachedIsFlag
  DEF Replace, TypeOK, Tasks, Snapshot, NoSnap, LoopStates, SessionStates,
      GuardStates, shared, history
<1>4. ASSUME NEW s \in Sessions, Accept(s) PROVE Goal
  BY <1>4, LoopIsNoSession, DetachedIsFlag
  DEF Accept, EnterPublish, TypeOK, Tasks, Snapshot, NoSnap, LoopStates,
      SessionStates, GuardStates, shared, history
<1>5. ASSUME NEW s \in Sessions, Spawn(s) PROVE Goal
  BY <1>5, LoopIsNoSession, DetachedIsFlag
  DEF Spawn, TypeOK, Tasks, Snapshot, NoSnap, LoopStates, SessionStates,
      GuardStates, shared, history
<1>6. ASSUME NEW s \in Sessions, HandshakeDone(s) PROVE Goal
  BY <1>6, LoopIsNoSession, DetachedIsFlag
  DEF HandshakeDone, TypeOK, Tasks, Snapshot, NoSnap, LoopStates,
      SessionStates, GuardStates, shared, history
<1>7. ASSUME NEW s \in Sessions, SessionEnds(s) PROVE Goal
  BY <1>7, LoopIsNoSession, DetachedIsFlag
  DEF SessionEnds, TypeOK, Tasks, Snapshot, NoSnap, LoopStates,
      SessionStates, GuardStates, shared, history
<1>8. ASSUME NEW s \in Sessions, SessionStopped(s) PROVE Goal
  BY <1>8, LoopIsNoSession, DetachedIsFlag
  DEF SessionStopped, TypeOK, Tasks, Snapshot, NoSnap, LoopStates,
      SessionStates, GuardStates, shared, history
<1>9. ASSUME NEW s \in Sessions, Disconnected(s) PROVE Goal
  BY <1>9, LoopIsNoSession, DetachedIsFlag
  DEF Disconnected, TypeOK, Tasks, Snapshot, NoSnap, LoopStates,
      SessionStates, GuardStates, shared, history
<1>10. ASSUME NEW s \in Sessions, SessionGone(s) PROVE Goal
  BY <1>10, LoopIsNoSession, DetachedIsFlag
  DEF SessionGone, TypeOK, Tasks, Snapshot, NoSnap, LoopStates,
      SessionStates, GuardStates, shared, history
<1>11. ASSUME NEW s \in Sessions, DropSessionGuard(s) PROVE Goal
  <2>1. sessions # 0
    <3>1. s \in Guards
      BY <1>11 DEF DropSessionGuard, Guards, GuardStates
    <3>2. QED
      BY <3>1, GuardsFinite, FS_EmptySet DEF CountIsGuards
  <2>2. sessions - 1 \in Nat
    BY <2>1 DEF TypeOK
  <2> QED
    BY <1>11, <2>2, LoopIsNoSession
    DEF DropSessionGuard, EnterPublish, TypeOK, Tasks, Snapshot, NoSnap,
        LoopStates, SessionStates, GuardStates, shared, history
<1>12. ASSUME LoopStop PROVE Goal
  BY <1>12, LoopIsNoSession, DetachedIsFlag
  DEF LoopStop, TypeOK, Tasks, Snapshot, NoSnap, LoopStates, SessionStates,
      GuardStates, shared, history
<1>13. ASSUME LoopDies PROVE Goal
  BY <1>13, LoopIsNoSession, DetachedIsFlag
  DEF LoopDies, TypeOK, Tasks, Snapshot, NoSnap, LoopStates, SessionStates,
      GuardStates, shared, history
<1>14. ASSUME DropLoopGuard PROVE Goal
  BY <1>14, LoopIsNoSession, DetachedIsFlag
  DEF DropLoopGuard, EnterPublish, TypeOK, Tasks, Snapshot, NoSnap,
      LoopStates, SessionStates, GuardStates, shared, history
<1>15. ASSUME ReportExit PROVE Goal
  BY <1>15, LoopIsNoSession, DetachedIsFlag
  DEF ReportExit, TypeOK, Tasks, Snapshot, NoSnap, LoopStates, SessionStates,
      GuardStates, shared, history
<1>16. ASSUME DropCaptures PROVE Goal
  BY <1>16, LoopIsNoSession, DetachedIsFlag
  DEF DropCaptures, TypeOK, Tasks, Snapshot, NoSnap, LoopStates,
      SessionStates, GuardStates, shared, history
<1>17. ASSUME RequestStop \/ SendStop \/ DropSender \/ StopReturns PROVE Goal
  <2>1. CASE RequestStop
    BY <2>1 DEF RequestStop, TypeOK, Tasks, shared, history
  <2>2. CASE SendStop
    BY <2>2 DEF SendStop, TypeOK, Tasks, shared, history
  <2>3. CASE DropSender
    BY <2>3 DEF DropSender, TypeOK, Tasks, shared, history
  <2>4. CASE StopReturns
    BY <2>4 DEF StopReturns, TypeOK, Tasks, shared, history
  <2> QED BY <1>17, <2>1, <2>2, <2>3, <2>4
<1>18. ASSUME UNCHANGED vars PROVE Goal
  BY <1>18, LoopIsNoSession, DetachedIsFlag
  DEF vars, TypeOK, Tasks, Snapshot, NoSnap, LoopStates, SessionStates,
      GuardStates, shared, history
<1> QED
  BY <1>1, <1>2, <1>3, <1>4, <1>5, <1>6, <1>7, <1>8, <1>9, <1>10, <1>11,
     <1>12, <1>13, <1>14, <1>15, <1>16, <1>17, <1>18, NextCases

\* Accept adds a guard and counts it, DropSessionGuard removes both, and no
\* other step touches either.
LEMMA CountStep ==
  ASSUME TypeOK, CountIsGuards, [Next]_vars
  PROVE  CountIsGuards'
<1> DEFINE Goal == CountIsGuards'
<1>1. ASSUME NEW t \in Tasks,
       LoadRunning(t) \/ LoadSessions(t) \/ Replace(t)
       PROVE  Goal
  <2>1. Guards' = Guards /\ sessions' = sessions
    BY <1>1, LoopIsNoSession
    DEF LoadRunning, LoadSessions, Replace, Guards, GuardStates, TypeOK,
        Tasks, shared
  <2> QED
    BY <2>1 DEF CountIsGuards
<1>2. ASSUME NEW s \in Sessions, Accept(s) PROVE Goal
  <2>1. Guards' = Guards \cup {s} /\ s \notin Guards
    BY <1>2, LoopIsNoSession
    DEF Accept, Guards, GuardStates, TypeOK, Tasks
  <2>2. Cardinality(Guards') = Cardinality(Guards) + 1
    BY <2>1, GuardsFinite, FS_AddElement
  <2> QED
    BY <1>2, <2>2 DEF Accept, CountIsGuards
<1>3. ASSUME NEW s \in Sessions, Spawn(s) PROVE Goal
  <2>1. Guards' = Guards /\ sessions' = sessions
    BY <1>3, LoopIsNoSession
    DEF Spawn, Guards, GuardStates, TypeOK, Tasks, shared
  <2> QED
    BY <2>1 DEF CountIsGuards
<1>4. ASSUME NEW s \in Sessions,
       HandshakeDone(s) \/ SessionEnds(s) \/ SessionStopped(s) \/
       Disconnected(s) \/ SessionGone(s)
       PROVE  Goal
  <2>1. Guards' = Guards /\ sessions' = sessions
    BY <1>4, LoopIsNoSession
    DEF HandshakeDone, SessionEnds, SessionStopped, Disconnected,
        SessionGone, Guards, GuardStates, TypeOK, Tasks, shared
  <2> QED
    BY <2>1 DEF CountIsGuards
<1>5. ASSUME NEW s \in Sessions, DropSessionGuard(s) PROVE Goal
  <2>1. Guards' = Guards \ {s} /\ s \in Guards
    BY <1>5, LoopIsNoSession
    DEF DropSessionGuard, Guards, GuardStates, TypeOK, Tasks
  <2>2. Cardinality(Guards') = Cardinality(Guards) - 1
    BY <2>1, GuardsFinite, FS_RemoveElement
  <2> QED
    BY <1>5, <2>2 DEF DropSessionGuard, CountIsGuards
<1>6. ASSUME
       LoopStop \/ LoopDies \/ DropLoopGuard \/ ReportExit \/
       DropCaptures
       PROVE  Goal
  <2>1. Guards' = Guards /\ sessions' = sessions
    BY <1>6, LoopIsNoSession
    DEF LoopStop, LoopDies, DropLoopGuard, ReportExit, DropCaptures, Guards,
        GuardStates, TypeOK, Tasks, shared
  <2> QED
    BY <2>1 DEF CountIsGuards
<1>7. ASSUME RequestStop \/ SendStop \/ DropSender \/ StopReturns PROVE Goal
  <2>1. Guards' = Guards /\ sessions' = sessions
    BY <1>7, LoopIsNoSession
    DEF RequestStop, SendStop, DropSender, StopReturns, Guards, GuardStates,
        TypeOK, Tasks, shared
  <2> QED
    BY <2>1 DEF CountIsGuards
<1>8. ASSUME UNCHANGED vars PROVE Goal
  <2>1. Guards' = Guards /\ sessions' = sessions
    BY <1>8, LoopIsNoSession
    DEF vars, Guards, GuardStates, TypeOK, Tasks, shared
  <2> QED
    BY <2>1 DEF CountIsGuards
<1> QED
  BY <1>1, <1>2, <1>3, <1>4, <1>5, <1>6, <1>7, <1>8, NextCases

\* The accept loop alone moves its flag, its sender and its exit cause, in the
\* order of its drops.
LEMMA LoopStep ==
  ASSUME TypeOK, LoopInv, [Next]_vars
  PROVE  LoopInv'
<1> DEFINE Goal == LoopInv'
<1>1. ASSUME NEW t \in Tasks,
       LoadRunning(t) \/ LoadSessions(t) \/ Replace(t)
       PROVE  Goal
  BY <1>1, LoopIsNoSession
  DEF LoadRunning, LoadSessions, Replace, LoopInv, TypeOK, Tasks, shared,
      history
<1>2. ASSUME NEW s \in Sessions, Accept(s) PROVE Goal
  BY <1>2, LoopIsNoSession
  DEF Accept, LoopInv, TypeOK, Tasks, shared, history
<1>3. ASSUME NEW s \in Sessions, Spawn(s) PROVE Goal
  BY <1>3, LoopIsNoSession
  DEF Spawn, LoopInv, TypeOK, Tasks, shared, history
<1>4. ASSUME NEW s \in Sessions,
       HandshakeDone(s) \/ SessionEnds(s) \/ SessionStopped(s) \/
       Disconnected(s) \/ SessionGone(s)
       PROVE  Goal
  BY <1>4, LoopIsNoSession
  DEF HandshakeDone, SessionEnds, SessionStopped, Disconnected, SessionGone,
      LoopInv, TypeOK, Tasks, shared, history
<1>5. ASSUME NEW s \in Sessions, DropSessionGuard(s) PROVE Goal
  BY <1>5, LoopIsNoSession
  DEF DropSessionGuard, LoopInv, TypeOK, Tasks, shared, history
<1>6. ASSUME
       LoopStop \/ LoopDies \/ DropLoopGuard \/ ReportExit \/
       DropCaptures
       PROVE  Goal
  BY <1>6, LoopIsNoSession
  DEF LoopStop, LoopDies, DropLoopGuard, ReportExit, DropCaptures, LoopInv,
      TypeOK, Tasks, shared, history
<1>7. ASSUME RequestStop \/ SendStop \/ DropSender \/ StopReturns PROVE Goal
  BY <1>7, LoopIsNoSession
  DEF RequestStop, SendStop, DropSender, StopReturns, LoopInv, TypeOK, Tasks,
      shared, history
<1>8. ASSUME UNCHANGED vars PROVE Goal
  BY <1>8, LoopIsNoSession
  DEF vars, LoopInv, TypeOK, Tasks, shared, history
<1> QED
  BY <1>1, <1>2, <1>3, <1>4, <1>5, <1>6, <1>7, <1>8, NextCases

\* A stop signal is seen only after the stop was requested, and stop() returns
\* only after the loop's task.
LEMMA StopStep ==
  ASSUME TypeOK, StopInv, [Next]_vars
  PROVE  StopInv'
<1> DEFINE Goal == StopInv'
<1>1. ASSUME NEW t \in Tasks,
       LoadRunning(t) \/ LoadSessions(t) \/ Replace(t)
       PROVE  Goal
  BY <1>1, LoopIsNoSession
  DEF LoadRunning, LoadSessions, Replace, StopInv, TypeOK, Tasks, shared,
      history
<1>2. ASSUME NEW s \in Sessions, Accept(s) PROVE Goal
  BY <1>2, LoopIsNoSession
  DEF Accept, StopInv, TypeOK, Tasks, shared, history
<1>3. ASSUME NEW s \in Sessions, Spawn(s) PROVE Goal
  BY <1>3, LoopIsNoSession
  DEF Spawn, StopInv, TypeOK, Tasks, shared, history
<1>4. ASSUME NEW s \in Sessions,
       HandshakeDone(s) \/ SessionEnds(s) \/ SessionStopped(s) \/
       Disconnected(s) \/ SessionGone(s)
       PROVE  Goal
  BY <1>4, LoopIsNoSession
  DEF HandshakeDone, SessionEnds, SessionStopped, Disconnected, SessionGone,
      StopInv, TypeOK, Tasks, shared, history
<1>5. ASSUME NEW s \in Sessions, DropSessionGuard(s) PROVE Goal
  BY <1>5, LoopIsNoSession
  DEF DropSessionGuard, StopInv, TypeOK, Tasks, shared, history
<1>6. ASSUME
       LoopStop \/ LoopDies \/ DropLoopGuard \/ ReportExit \/
       DropCaptures
       PROVE  Goal
  BY <1>6, LoopIsNoSession
  DEF LoopStop, LoopDies, DropLoopGuard, ReportExit, DropCaptures,
      StopVisible, StopInv, TypeOK, Tasks, shared, history
<1>7. ASSUME RequestStop \/ SendStop \/ DropSender \/ StopReturns PROVE Goal
  BY <1>7, LoopIsNoSession
  DEF RequestStop, SendStop, DropSender, StopReturns, StopInv, TypeOK, Tasks,
      shared, history
<1>8. ASSUME UNCHANGED vars PROVE Goal
  BY <1>8, LoopIsNoSession
  DEF vars, StopInv, TypeOK, Tasks, shared, history
<1> QED
  BY <1>1, <1>2, <1>3, <1>4, <1>5, <1>6, <1>7, <1>8, NextCases

\* A session enters publish() with the step that drops its guard, and leaves
\* it before it is gone.
LEMMA PubStep ==
  ASSUME TypeOK, PubInv, [Next]_vars
  PROVE  PubInv'
<1> DEFINE Goal == PubInv'
<1>1. ASSUME NEW t \in Tasks,
       LoadRunning(t) \/ LoadSessions(t) \/ Replace(t)
       PROVE  Goal
  BY <1>1, LoopIsNoSession
  DEF LoadRunning, LoadSessions, Replace, PubInv, TypeOK, Tasks, Idle
<1>2. ASSUME NEW s \in Sessions, Accept(s) PROVE Goal
  BY <1>2, LoopIsNoSession
  DEF Accept, EnterPublish, PubInv, TypeOK, Tasks, Idle
<1>3. ASSUME NEW s \in Sessions, Spawn(s) PROVE Goal
  BY <1>3, LoopIsNoSession
  DEF Spawn, PubInv, TypeOK, Tasks, Idle
<1>4. ASSUME NEW s \in Sessions,
       HandshakeDone(s) \/ SessionEnds(s) \/ SessionStopped(s) \/
       Disconnected(s) \/ SessionGone(s)
       PROVE  Goal
  BY <1>4, LoopIsNoSession
  DEF HandshakeDone, SessionEnds, SessionStopped, Disconnected, SessionGone,
      PubInv, TypeOK, Tasks, Idle
<1>5. ASSUME NEW s \in Sessions, DropSessionGuard(s) PROVE Goal
  BY <1>5, LoopIsNoSession
  DEF DropSessionGuard, EnterPublish, PubInv, TypeOK, Tasks, Idle
<1>6. ASSUME
       LoopStop \/ LoopDies \/ DropLoopGuard \/ ReportExit \/
       DropCaptures
       PROVE  Goal
  BY <1>6, LoopIsNoSession
  DEF LoopStop, LoopDies, DropLoopGuard, ReportExit, DropCaptures,
      EnterPublish, PubInv, TypeOK, Tasks, Idle
<1>7. ASSUME RequestStop \/ SendStop \/ DropSender \/ StopReturns PROVE Goal
  BY <1>7, LoopIsNoSession
  DEF RequestStop, SendStop, DropSender, StopReturns, PubInv, TypeOK, Tasks,
      Idle
<1>8. ASSUME UNCHANGED vars PROVE Goal
  BY <1>8, LoopIsNoSession
  DEF vars, PubInv, TypeOK, Tasks, Idle
<1> QED
  BY <1>1, <1>2, <1>3, <1>4, <1>5, <1>6, <1>7, <1>8, NextCases

\* A publish that nobody overlaps stores what is true: the flag and the
\* counter change only together with the start of a publish.
LEMMA SnapStep ==
  ASSUME TypeOK, PubInv, SnapInv, SnapshotCurrentIfNoOverlap, [Next]_vars
  PROVE  SnapInv' /\ SnapshotCurrentIfNoOverlap'
<1> DEFINE Goal == SnapInv' /\ SnapshotCurrentIfNoOverlap'
<1>1. ASSUME NEW t \in Tasks, LoadRunning(t) PROVE Goal
  BY <1>1, LoopIsNoSession
  DEF LoadRunning, SnapInv, SnapshotCurrentIfNoOverlap, Publishing, Idle,
      Actual, Snapshot, NoSnap, TypeOK, Tasks, shared, history
<1>2. ASSUME NEW t \in Tasks, LoadSessions(t) PROVE Goal
  BY <1>2, LoopIsNoSession
  DEF LoadSessions, SnapInv, SnapshotCurrentIfNoOverlap, Publishing, Idle,
      Actual, Snapshot, NoSnap, TypeOK, Tasks, shared, history
<1>3. ASSUME NEW t \in Tasks, Replace(t) PROVE Goal
  BY <1>3, LoopIsNoSession
  DEF Replace, SnapInv, SnapshotCurrentIfNoOverlap, Publishing, Idle, Actual,
      Snapshot, NoSnap, TypeOK, Tasks, shared, history
<1>4. ASSUME NEW s \in Sessions, Accept(s) PROVE Goal
  BY <1>4, LoopIsNoSession
  DEF Accept, EnterPublish, SnapInv, SnapshotCurrentIfNoOverlap, Publishing,
      Idle, Actual, Snapshot, NoSnap, TypeOK, Tasks, shared, history
<1>5. ASSUME NEW s \in Sessions, Spawn(s) PROVE Goal
  BY <1>5, LoopIsNoSession
  DEF Spawn, SnapInv, SnapshotCurrentIfNoOverlap, Publishing, Idle, Actual,
      Snapshot, NoSnap, TypeOK, Tasks, shared, history
<1>6. ASSUME NEW s \in Sessions,
       HandshakeDone(s) \/ SessionEnds(s) \/ SessionStopped(s) \/
       Disconnected(s) \/ SessionGone(s)
       PROVE  Goal
  BY <1>6, LoopIsNoSession
  DEF HandshakeDone, SessionEnds, SessionStopped, Disconnected, SessionGone,
      SnapInv, SnapshotCurrentIfNoOverlap, Publishing, Idle, Actual,
      Snapshot, NoSnap, TypeOK, Tasks, shared, history
<1>7. ASSUME NEW s \in Sessions, DropSessionGuard(s) PROVE Goal
  BY <1>7, LoopIsNoSession
  DEF DropSessionGuard, EnterPublish, SnapInv, SnapshotCurrentIfNoOverlap,
      Publishing, Idle, Actual, Snapshot, NoSnap, TypeOK, Tasks, shared,
      history, PubInv
<1>8. ASSUME LoopStop PROVE Goal
  BY <1>8, LoopIsNoSession
  DEF LoopStop, SnapInv, SnapshotCurrentIfNoOverlap, Publishing, Idle,
      Actual, Snapshot, NoSnap, TypeOK, Tasks, shared, history
<1>9. ASSUME LoopDies PROVE Goal
  BY <1>9, LoopIsNoSession
  DEF LoopDies, SnapInv, SnapshotCurrentIfNoOverlap, Publishing, Idle,
      Actual, Snapshot, NoSnap, TypeOK, Tasks, shared, history
<1>10. ASSUME DropLoopGuard PROVE Goal
  BY <1>10, LoopIsNoSession
  DEF DropLoopGuard, EnterPublish, SnapInv, SnapshotCurrentIfNoOverlap,
      Publishing, Idle, Actual, Snapshot, NoSnap, TypeOK, Tasks, shared,
      history
<1>11. ASSUME ReportExit PROVE Goal
  BY <1>11, LoopIsNoSession
  DEF ReportExit, SnapInv, SnapshotCurrentIfNoOverlap, Publishing, Idle,
      Actual, Snapshot, NoSnap, TypeOK, Tasks, shared, history
<1>12. ASSUME DropCaptures PROVE Goal
  BY <1>12, LoopIsNoSession
  DEF DropCaptures, SnapInv, SnapshotCurrentIfNoOverlap, Publishing, Idle,
      Actual, Snapshot, NoSnap, TypeOK, Tasks, shared, history
<1>13. ASSUME RequestStop \/ SendStop \/ DropSender \/ StopReturns PROVE Goal
  BY <1>13, LoopIsNoSession
  DEF RequestStop, SendStop, DropSender, StopReturns, SnapInv,
      SnapshotCurrentIfNoOverlap, Publishing, Idle, Actual, Snapshot, NoSnap,
      TypeOK, Tasks, shared, history
<1>14. ASSUME UNCHANGED vars PROVE Goal
  BY <1>14, LoopIsNoSession
  DEF vars, SnapInv, SnapshotCurrentIfNoOverlap, Publishing, Idle, Actual,
      Snapshot, NoSnap, TypeOK, Tasks, shared, history
<1> QED
  BY <1>1, <1>2, <1>3, <1>4, <1>5, <1>6, <1>7, <1>8, <1>9, <1>10, <1>11,
     <1>12, <1>13, <1>14, NextCases

\* The report tests the request that StopInv ties to the loop's exit cause.
LEMMA AlarmStep ==
  ASSUME TypeOK, LoopInv, StopInv, NoFalseAlarm, [Next]_vars
  PROVE  NoFalseAlarm'
<1> DEFINE Goal == NoFalseAlarm'
<1>1. ASSUME NEW t \in Tasks,
       LoadRunning(t) \/ LoadSessions(t) \/ Replace(t)
       PROVE  Goal
  BY <1>1
  DEF LoadRunning, LoadSessions, Replace, NoFalseAlarm, TypeOK, LoopInv,
      StopInv, shared, history
<1>2. ASSUME NEW s \in Sessions, Accept(s) PROVE Goal
  BY <1>2
  DEF Accept, NoFalseAlarm, TypeOK, LoopInv, StopInv, shared, history
<1>3. ASSUME NEW s \in Sessions, Spawn(s) PROVE Goal
  BY <1>3
  DEF Spawn, NoFalseAlarm, TypeOK, LoopInv, StopInv, shared, history
<1>4. ASSUME NEW s \in Sessions,
       HandshakeDone(s) \/ SessionEnds(s) \/ SessionStopped(s) \/
       Disconnected(s) \/ SessionGone(s)
       PROVE  Goal
  BY <1>4
  DEF HandshakeDone, SessionEnds, SessionStopped, Disconnected, SessionGone,
      NoFalseAlarm, TypeOK, LoopInv, StopInv, shared, history
<1>5. ASSUME NEW s \in Sessions, DropSessionGuard(s) PROVE Goal
  BY <1>5
  DEF DropSessionGuard, NoFalseAlarm, TypeOK, LoopInv, StopInv, shared,
      history
<1>6. ASSUME
       LoopStop \/ LoopDies \/ DropLoopGuard \/ ReportExit \/
       DropCaptures
       PROVE  Goal
  BY <1>6
  DEF LoopStop, LoopDies, DropLoopGuard, ReportExit, DropCaptures,
      NoFalseAlarm, TypeOK, LoopInv, StopInv, shared, history
<1>7. ASSUME RequestStop \/ SendStop \/ DropSender \/ StopReturns PROVE Goal
  BY <1>7
  DEF RequestStop, SendStop, DropSender, StopReturns, NoFalseAlarm, TypeOK,
      LoopInv, StopInv, shared, history
<1>8. ASSUME UNCHANGED vars PROVE Goal
  BY <1>8
  DEF vars, NoFalseAlarm, TypeOK, LoopInv, StopInv, shared, history
<1> QED
  BY <1>1, <1>2, <1>3, <1>4, <1>5, <1>6, <1>7, <1>8, NextCases

\* A session is cut on a message or on a closed channel; both follow a request.
LEMMA CutStep ==
  ASSUME TypeOK, StopInv, OnlyStopCutsSessions, [Next]_vars
  PROVE  OnlyStopCutsSessions'
<1> DEFINE Goal == OnlyStopCutsSessions'
<1>1. ASSUME NEW t \in Tasks,
       LoadRunning(t) \/ LoadSessions(t) \/ Replace(t)
       PROVE  Goal
  BY <1>1
  DEF LoadRunning, LoadSessions, Replace, OnlyStopCutsSessions, StopInv,
      shared, history
<1>2. ASSUME NEW s \in Sessions, Accept(s) PROVE Goal
  BY <1>2
  DEF Accept, OnlyStopCutsSessions, StopInv, shared, history
<1>3. ASSUME NEW s \in Sessions, Spawn(s) PROVE Goal
  BY <1>3
  DEF Spawn, OnlyStopCutsSessions, StopInv, shared, history
<1>4. ASSUME NEW s \in Sessions,
       HandshakeDone(s) \/ SessionEnds(s) \/ SessionStopped(s) \/
       Disconnected(s) \/ SessionGone(s)
       PROVE  Goal
  BY <1>4
  DEF HandshakeDone, SessionEnds, SessionStopped, Disconnected, SessionGone,
      OnlyStopCutsSessions, StopInv, shared, history, StopVisible, Tasks
<1>5. ASSUME NEW s \in Sessions, DropSessionGuard(s) PROVE Goal
  BY <1>5
  DEF DropSessionGuard, OnlyStopCutsSessions, StopInv, shared, history
<1>6. ASSUME
       LoopStop \/ LoopDies \/ DropLoopGuard \/ ReportExit \/
       DropCaptures
       PROVE  Goal
  BY <1>6
  DEF LoopStop, LoopDies, DropLoopGuard, ReportExit, DropCaptures,
      OnlyStopCutsSessions, StopInv, shared, history
<1>7. ASSUME RequestStop \/ SendStop \/ DropSender \/ StopReturns PROVE Goal
  BY <1>7
  DEF RequestStop, SendStop, DropSender, StopReturns, OnlyStopCutsSessions,
      StopInv, shared, history
<1>8. ASSUME UNCHANGED vars PROVE Goal
  BY <1>8
  DEF vars, OnlyStopCutsSessions, StopInv, shared, history
<1> QED
  BY <1>1, <1>2, <1>3, <1>4, <1>5, <1>6, <1>7, <1>8, NextCases

\* A server that was just started satisfies the inductive invariant.
LEMMA InitIInv == Init => IInv
<1> SUFFICES ASSUME Init PROVE IInv
  OBVIOUS
<1>1. TypeOK
  BY LoopIsNoSession
  DEF Init, TypeOK, Tasks, Snapshot, NoSnap, LoopStates, SessionStates
<1>2. CountIsGuards
  <2>1. Guards = {}
    BY LoopIsNoSession DEF Init, Guards, GuardStates, Tasks
  <2> QED
    BY <2>1, FS_EmptySet DEF Init, CountIsGuards
<1>3. LoopInv /\ StopInv /\ PubInv
  BY LoopIsNoSession DEF Init, LoopInv, StopInv, PubInv, Tasks
<1>4. SnapInv /\ SnapshotCurrentIfNoOverlap
  BY DEF Init, SnapInv, SnapshotCurrentIfNoOverlap, Publishing, Idle, Tasks,
         Actual, NoSnap
<1>5. NoFalseAlarm /\ OnlyStopCutsSessions
  BY DEF Init, NoFalseAlarm, OnlyStopCutsSessions
<1> QED
  BY <1>1, <1>2, <1>3, <1>4, <1>5 DEF IInv

\* Every step preserves it.
LEMMA NextIInv == IInv /\ [Next]_vars => IInv'
BY TypeStep, CountStep, LoopStep, StopStep, PubStep, SnapStep, AlarmStep,
   CutStep DEF IInv

\* IInv is inductive: it holds in every reachable state of every server.
THEOREM Invariance == Spec => []IInv
BY InitIInv, NextIInv, PTL DEF Spec

\* The state always has its types; in particular the session counter never
\* wraps below zero.
THEOREM TypeCorrect == Spec => []TypeOK
<1>1. IInv => TypeOK
  BY DEF IInv
<1> QED
  BY <1>1, Invariance, PTL

\* The session counter is the number of live session guards, whatever the
\* number of sessions and the way each one ends (lifecycle.rs:94-123).
THEOREM CounterCorrect == Spec => []CountIsGuards
<1>1. IInv => CountIsGuards
  BY DEF IInv
<1> QED
  BY <1>1, Invariance, PTL

\* When stop() returns, the socket is closed (ftp/server.rs:221-225).
THEOREM StopFreesPort == Spec => []PortFreeAfterStop
<1>1. IInv => PortFreeAfterStop
  BY DEF IInv, PortFreeAfterStop, Listening, LoopInv, StopInv
<1> QED
  BY <1>1, Invariance, PTL

\* A stop that was asked for is never reported as an unexpected exit.
THEOREM AlarmCorrect == Spec => []NoFalseAlarm
<1>1. IInv => NoFalseAlarm
  BY DEF IInv
<1> QED
  BY <1>1, Invariance, PTL

\* Without a stop request no session is cut, whatever becomes of the loop.
THEOREM CutCorrect == Spec => []OnlyStopCutsSessions
<1>1. IInv => OnlyStopCutsSessions
  BY DEF IInv
<1> QED
  BY <1>1, Invariance, PTL

\* Both together: nothing ends without the cause it is reported with.
THEOREM EndsCorrect == Spec => []EndsExplained
<1>1. NoFalseAlarm /\ OnlyStopCutsSessions => EndsExplained
  BY DEF EndsExplained
<1> QED
  BY <1>1, AlarmCorrect, CutCorrect, PTL

\* The pushed snapshot is right at rest as long as publishes do not overlap:
\* the overlap is the only way it can become stale.
THEOREM SnapshotCorrect == Spec => []SnapshotCurrentIfNoOverlap
<1>1. IInv => SnapshotCurrentIfNoOverlap
  BY DEF IInv
<1> QED
  BY <1>1, Invariance, PTL

-----------------------------------------------------------------------------
\* Every step is a step of the contract or leaves what it speaks of alone.
LEMMA ContractStep ==
  ASSUME IInv, [Next]_vars
  PROVE  [Contract!Next]_(Contract!vars)
<1> DEFINE Goal == [Contract!Next]_(Contract!vars)
<1> USE DEF IInv
<1>1. ASSUME NEW t \in Tasks,
       LoadRunning(t) \/ LoadSessions(t) \/ Replace(t)
       PROVE  Goal
  BY <1>1, LoopIsNoSession
  DEF LoadRunning, LoadSessions, Replace, TypeOK, Tasks, Listening, Guards,
      GuardStates, shared, Contract!vars
<1>2. ASSUME NEW s \in Sessions, Accept(s) PROVE Goal
  BY <1>2, LoopIsNoSession
  DEF Accept, TypeOK, Tasks, Listening, Guards, GuardStates, shared,
      Contract!Next, Contract!Admit
<1>3. ASSUME NEW s \in Sessions, Spawn(s) PROVE Goal
  BY <1>3, LoopIsNoSession
  DEF Spawn, TypeOK, Tasks, Listening, Guards, GuardStates, shared,
      Contract!vars
<1>4. ASSUME NEW s \in Sessions, HandshakeDone(s) PROVE Goal
  BY <1>4, LoopIsNoSession
  DEF HandshakeDone, TypeOK, Tasks, Listening, Guards, GuardStates, shared,
      Contract!vars
<1>5. ASSUME NEW s \in Sessions, SessionEnds(s) PROVE Goal
  BY <1>5, LoopIsNoSession
  DEF SessionEnds, TypeOK, Tasks, Listening, Guards, GuardStates, shared,
      Contract!vars
<1>6. ASSUME NEW s \in Sessions, SessionStopped(s) PROVE Goal
  BY <1>6, LoopIsNoSession
  DEF SessionStopped, TypeOK, Tasks, Listening, Guards, GuardStates, shared,
      Contract!vars
<1>7. ASSUME NEW s \in Sessions, Disconnected(s) PROVE Goal
  BY <1>7, LoopIsNoSession
  DEF Disconnected, TypeOK, Tasks, Listening, Guards, GuardStates, shared,
      Contract!Next, Contract!Leave, Contract!vars
<1>8. ASSUME NEW s \in Sessions, SessionGone(s) PROVE Goal
  BY <1>8, LoopIsNoSession
  DEF SessionGone, TypeOK, Tasks, Listening, Guards, GuardStates, shared,
      Contract!vars
<1>9. ASSUME NEW s \in Sessions, DropSessionGuard(s) PROVE Goal
  BY <1>9, LoopIsNoSession
  DEF DropSessionGuard, TypeOK, Tasks, Listening, Guards, GuardStates,
      shared, Contract!Next, Contract!Leave, Contract!vars
<1>10. ASSUME LoopStop PROVE Goal
  BY <1>10, LoopIsNoSession
  DEF LoopStop, TypeOK, Tasks, Listening, Guards, GuardStates, shared,
      Contract!vars
<1>11. ASSUME LoopDies PROVE Goal
  BY <1>11, LoopIsNoSession
  DEF LoopDies, TypeOK, Tasks, Listening, Guards, GuardStates, shared,
      Contract!vars
<1>12. ASSUME DropLoopGuard PROVE Goal
  BY <1>12, LoopIsNoSession
  DEF DropLoopGuard, TypeOK, Tasks, Listening, Guards, GuardStates, shared,
      Contract!vars
<1>13. ASSUME ReportExit PROVE Goal
  BY <1>13, LoopIsNoSession
  DEF ReportExit, TypeOK, Tasks, Listening, Guards, GuardStates, shared,
      Contract!vars
<1>14. ASSUME DropCaptures PROVE Goal
  BY <1>14, LoopIsNoSession
  DEF DropCaptures, TypeOK, Tasks, Listening, Guards, GuardStates, shared,
      Contract!Next, Contract!Close
<1>15. ASSUME RequestStop PROVE Goal
  BY <1>15, LoopIsNoSession
  DEF RequestStop, TypeOK, Tasks, Listening, Guards, GuardStates, shared,
      StopInv, Contract!Next, Contract!AskStop
<1>16. ASSUME SendStop PROVE Goal
  BY <1>16, LoopIsNoSession
  DEF SendStop, TypeOK, Tasks, Listening, Guards, GuardStates, shared,
      Contract!vars
<1>17. ASSUME DropSender PROVE Goal
  BY <1>17, LoopIsNoSession
  DEF DropSender, TypeOK, Tasks, Listening, Guards, GuardStates, shared,
      Contract!vars
<1>18. ASSUME StopReturns PROVE Goal
  BY <1>18, LoopIsNoSession
  DEF StopReturns, TypeOK, Tasks, Listening, Guards, GuardStates, shared,
      Contract!vars
<1>19. ASSUME UNCHANGED vars PROVE Goal
  BY <1>19, LoopIsNoSession
  DEF vars, TypeOK, Tasks, Listening, Guards, GuardStates, shared,
      Contract!vars
<1> QED
  BY <1>1, <1>2, <1>3, <1>4, <1>5, <1>6, <1>7, <1>8, <1>9, <1>10, <1>11,
     <1>12, <1>13, <1>14, <1>15, <1>16, <1>17, <1>18, <1>19, NextCases

\* The server implements the contract, safety part: sessions begin only while
\* the socket is open, one at a time, and a closed server never reopens.
THEOREM ImplementsContract == Spec => ContractSafety
<1>1. Init => Contract!Init
  BY LoopIsNoSession
  DEF Init, Contract!Init, Listening, Guards, GuardStates, Tasks
<1>2. IInv /\ [Next]_vars => [Contract!Next]_(Contract!vars)
  BY ContractStep
<1> QED
  BY <1>1, <1>2, Invariance, PTL DEF Spec, ContractSafety, Contract!Safety

-----------------------------------------------------------------------------
(* After the stop: no session is deaf to it, and none begins.              *)

\* A counted connection without a task is the one being spawned; a session
\* that is served has subscribed to the stop broadcast.
HearInv ==
  \A s \in Sessions :
    /\ pc[s] = "guarded" =>
         pc[Loop] = "spawn" /\ \A u \in Sessions : pc[u] = "guarded" => u = s
    /\ pc[s] \in {"handshake", "serving"} => inbox[s] \in {"open", "sent"}

\* Once stop() has returned, every session still counted hears the stop or is
\* leaving already: none was counted too late to be told (the session's
\* subscription is later than its guard: ftp/server.rs, sftp/server.rs).
StoppedSessionsHear ==
  handle = "joined" => \A s \in Guards : pc[s] = "leaving" \/ StopVisible(s)

\* Once stop() has returned, sessions go and none comes.
NoneBeginsAfterStop ==
  [][handle = "joined" => Guards' \cup conn' \subseteq Guards \cup conn]_vars

LEMMA HearStep ==
  ASSUME TypeOK, HearInv, [Next]_vars
  PROVE  HearInv'
<1> USE LoopIsNoSession DEF TypeOK, Tasks
<1>1. CASE UNCHANGED <<pc, inbox>>
  BY <1>1 DEF HearInv
<1>2. ASSUME NEW s \in Sessions, Accept(s) PROVE HearInv'
  BY <1>2 DEF Accept, HearInv
<1>3. ASSUME NEW s \in Sessions, Spawn(s) PROVE HearInv'
  <2>1. /\ \A u \in Sessions : pc'[u] # "guarded"
        /\ \A u \in Sessions \ {s} : pc'[u] = pc[u] /\ inbox'[u] = inbox[u]
        /\ inbox'[s] = "open"
    BY <1>3 DEF Spawn, HearInv
  <2> QED BY <2>1 DEF HearInv
<1>4. ASSUME NEW s \in Sessions,
             \/ HandshakeDone(s) \/ SessionEnds(s) \/ SessionStopped(s)
             \/ DropSessionGuard(s) \/ SessionGone(s)
      PROVE  HearInv'
  BY <1>4 DEF HandshakeDone, SessionEnds, SessionStopped, DropSessionGuard, SessionGone,
              HearInv
<1>5. ASSUME LoopStop \/ LoopDies \/ DropLoopGuard \/ ReportExit \/ DropCaptures
      PROVE  HearInv'
  BY <1>5 DEF LoopStop, LoopDies, DropLoopGuard, ReportExit, DropCaptures, HearInv
<1>6. ASSUME SendStop PROVE HearInv'
  BY <1>6 DEF SendStop, HearInv
<1>7. \/ UNCHANGED <<pc, inbox>> \/ SendStop
      \/ \E s \in Sessions :
           \/ Accept(s) \/ Spawn(s) \/ HandshakeDone(s) \/ SessionEnds(s)
           \/ SessionStopped(s) \/ DropSessionGuard(s) \/ SessionGone(s)
      \/ LoopStop \/ LoopDies \/ DropLoopGuard \/ ReportExit \/ DropCaptures
  BY NextCases DEF LoadRunning, LoadSessions, Replace, Disconnected, RequestStop, DropSender,
                   StopReturns, vars
<1> QED BY <1>1, <1>2, <1>3, <1>4, <1>5, <1>6, <1>7

\* A stop that has returned has reached every session there is.
THEOREM StopReachesSessions == Spec => []StoppedSessionsHear
<1>1. Init => HearInv
  BY LoopIsNoSession DEF Init, HearInv, Tasks
<1>2. IInv /\ HearInv /\ [Next]_vars => HearInv'
  BY HearStep DEF IInv
<1>3. IInv /\ HearInv => StoppedSessionsHear
  BY DEF IInv, HearInv, StopInv, LoopInv, StoppedSessionsHear, Guards, GuardStates, StopVisible
<1> QED
  BY <1>1, <1>2, <1>3, Invariance, PTL DEF Spec

\* No session is counted or served anew after stop() has returned.
THEOREM StopAdmitsNone == Spec => NoneBeginsAfterStop
<1>1. IInv /\ [Next]_vars =>
        [handle = "joined" => Guards' \cup conn' \subseteq Guards \cup conn]_vars
  <2> SUFFICES ASSUME IInv, [Next]_vars, handle = "joined"
               PROVE  Guards' \cup conn' \subseteq Guards \cup conn
    OBVIOUS
  <2>1. ~Listening
    BY DEF IInv, StopInv, Listening
  <2>2. [Contract!Next]_(Contract!vars)
    BY ContractStep
  <2> QED
    BY <2>1, <2>2 DEF Contract!Next, Contract!vars, Contract!AskStop, Contract!Close,
                      Contract!Admit, Contract!Leave
<1> QED
  BY <1>1, Invariance, PTL DEF Spec, NoneBeginsAfterStop

-----------------------------------------------------------------------------
(* How a dead server comes to be shown as running.                         *)

\* The loop publishes after it has counted a session and after it has cleared
\* the flag; what it then reads of the flag is FALSE.
LoopPubInv ==
  /\ pub[Loop] # "idle" => pc[Loop] \in {"spawn", "guardDropped"}
  /\ pc[Loop] = "guardDropped" /\ pub[Loop] \in {"sessions", "replace"} =>
       ~snap[Loop].running

\* The loop's own last publish shows the server as ended (lifecycle.rs:98-108).
\* After it only one thing shows it as running again: a session that had read
\* the flag before it fell, and stores what it read.
OnlyStaleSessionRevives ==
  [][/\ pc[Loop] = "guardDropped" /\ Replace(Loop) => ~watch'.running
     /\ ~running /\ ~watch.running /\ watch'.running =>
          overlapped /\ \E s \in Sessions : Replace(s) /\ snap[s].running]_vars

LEMMA LoopPubStep ==
  ASSUME TypeOK, LoopInv, LoopPubInv, [Next]_vars
  PROVE  LoopPubInv'
<1> USE LoopIsNoSession DEF TypeOK, Tasks, LoopPubInv
<1>1. ASSUME NEW t \in Tasks, LoadRunning(t) PROVE LoopPubInv'
  <2>1. pc[Loop] = "guardDropped" => ~running
    BY DEF LoopInv
  <2> QED BY <1>1, <2>1 DEF LoadRunning, shared
<1>2. ASSUME NEW t \in Tasks, LoadSessions(t) PROVE LoopPubInv'
  BY <1>2 DEF LoadSessions, shared
<1>3. ASSUME NEW t \in Tasks, Replace(t) PROVE LoopPubInv'
  BY <1>3 DEF Replace
<1>4. ASSUME NEW s \in Sessions, Accept(s) \/ Spawn(s) PROVE LoopPubInv'
  BY <1>4 DEF Accept, Spawn, EnterPublish, Idle
<1>5. ASSUME NEW s \in Sessions,
             \/ HandshakeDone(s) \/ SessionEnds(s) \/ SessionStopped(s)
             \/ Disconnected(s) \/ DropSessionGuard(s) \/ SessionGone(s)
      PROVE  LoopPubInv'
  BY <1>5 DEF HandshakeDone, SessionEnds, SessionStopped, Disconnected,
     DropSessionGuard, SessionGone, EnterPublish
<1>6. CASE \/ LoopStop \/ LoopDies \/ DropLoopGuard \/ ReportExit \/ DropCaptures
           \/ RequestStop \/ SendStop \/ DropSender \/ StopReturns
           \/ UNCHANGED vars
  BY <1>6 DEF LoopStop, LoopDies, DropLoopGuard, ReportExit, DropCaptures,
     RequestStop, SendStop, DropSender, StopReturns, EnterPublish, Idle, vars
<1> QED BY <1>1, <1>2, <1>3, <1>4, <1>5, <1>6, NextCases

LEMMA ReviveStep ==
  ASSUME IInv, LoopPubInv, [Next]_vars, ~running, ~watch.running, watch'.running
  PROVE  overlapped /\ \E s \in Sessions : Replace(s) /\ snap[s].running
<1>1. PICK t \in Tasks : Replace(t)
  BY NextCases DEF LoadRunning, LoadSessions, Accept, Spawn, HandshakeDone,
     SessionEnds, SessionStopped, Disconnected, DropSessionGuard, SessionGone,
     LoopStop, LoopDies, DropLoopGuard, ReportExit, DropCaptures, RequestStop,
     SendStop, DropSender, StopReturns, vars, shared
<1>2. snap[t].running /\ pub[t] = "replace"
  BY <1>1 DEF Replace
<1>3. pc[Loop] \notin {"select", "spawn", "exiting"}
  BY DEF IInv, LoopInv
<1>4. t # Loop
  BY <1>2, <1>3 DEF LoopPubInv
<1>5. overlapped
  BY <1>2 DEF IInv, SnapInv, Publishing, Idle
<1> QED BY <1>1, <1>2, <1>4, <1>5 DEF Tasks

\* The only way a server whose loop is gone is shown as running: finding 1 is
\* the overlap of a session's last publish with the loop's, and nothing else.
THEOREM ZombieNeedsStaleSession == Spec => OnlyStaleSessionRevives
<1>1. Init => LoopPubInv
  BY DEF Init, LoopPubInv, Tasks
<1>2. IInv /\ LoopPubInv /\ [Next]_vars => LoopPubInv'
  BY LoopPubStep DEF IInv
<1>3. IInv /\ LoopPubInv /\ [Next]_vars =>
        [/\ pc[Loop] = "guardDropped" /\ Replace(Loop) => ~watch'.running
         /\ ~running /\ ~watch.running /\ watch'.running =>
              overlapped /\ \E s \in Sessions : Replace(s) /\ snap[s].running]_vars
  BY ReviveStep DEF Replace, LoopPubInv
<1> QED
  BY <1>1, <1>2, <1>3, Invariance, PTL DEF Spec, OnlyStaleSessionRevives

=============================================================================
