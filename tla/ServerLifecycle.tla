-------------------------- MODULE ServerLifecycle --------------------------
(***************************************************************************)
(* The life of one server: the state shared between its handle, its accept *)
(* loop and its session tasks (lifecycle.rs), the accept loop and session  *)
(* tasks of the three servers, and the stop of the handle.                 *)
(*                                                                         *)
(* The three servers run the same loop.  They differ in what serves a      *)
(* session: an FTP or TFTP session task serves its peer itself, while an   *)
(* SFTP one hands it, after the handshake, to a task of russh that goes on *)
(* serving until it has processed a disconnect (constant Detached).        *)
(*                                                                         *)
(* The grain is one access to shared memory: publish() loads `running`,    *)
(* loads `sessions` and replaces the value of the watch channel in three   *)
(* steps, and other threads run in between.                                *)
(***************************************************************************)
EXTENDS Naturals, FiniteSets

CONSTANTS
  Sessions,   \* the session tasks that may exist at the same time
  Loop,       \* the accept loop's task
  Detached    \* SFTP: a session survives the task that started it

ASSUME SessionsFinite == IsFiniteSet(Sessions)
ASSUME LoopIsNoSession == Loop \notin Sessions
ASSUME DetachedIsFlag == Detached \in BOOLEAN

Tasks == Sessions \cup {Loop}

Snapshot == [running : BOOLEAN, sessions : Nat]

VARIABLES
  running,        \* ServerShared.running
  sessions,       \* ServerShared.sessions
  stopRequested,  \* ServerShared.stop_requested
  watch,          \* the snapshot held by the channel state_tx
  pc,             \* where each task is in its own code
  pub,            \* where each task is in publish()
  snap,           \* the snapshot publish() has read so far
  handle,         \* how far the stop of the server handle has gone
  loopTx,         \* session_tx, the sender the accept loop keeps
  inbox,          \* each task's receiver of the stop broadcast
  conn,           \* the sessions whose peer is being served
  exitCause,      \* history: why the accept loop left its loop
  alarm,          \* history: "loop exited on its own" was reported
  cut,            \* history: a session was ended by the stop signal
  overlapped      \* history: two tasks were once in publish() together

shared == <<running, sessions, stopRequested, watch>>
history == <<exitCause, alarm, cut, overlapped>>
vars == <<shared, pc, pub, snap, handle, loopTx, inbox, conn, history>>

Actual == [running |-> running, sessions |-> sessions]
NoSnap == [running |-> TRUE, sessions |-> 0]

\* The tasks that hold a session guard.
GuardStates == {"guarded", "handshake", "serving", "leaving"}
Guards == {s \in Sessions : pc[s] \in GuardStates}

LoopStates == {"select", "spawn", "exiting", "guardDropped", "unwound", "done"}
SessionStates == GuardStates \cup {"absent", "dropped"}

Idle(t) == pub[t] = "idle"
Publishing == {t \in Tasks : ~Idle(t)}

\* Variant of StopVisible: the handle holds no sender of its own.
StopVisibleWithoutHandle(t) ==
  \/ inbox[t] = "sent"
  \/ inbox[t] = "open" /\ ~loopTx

\* recv() on the stop broadcast returns: a message is waiting, or every
\* sender is gone.
StopVisible(t) ==
  \/ inbox[t] = "sent"
  \/ /\ inbox[t] = "open"
     /\ handle \in {"released", "joined"}
     /\ ~loopTx

-----------------------------------------------------------------------------
(* publish(): a task enters it from its own code, and goes on after it.    *)

EnterPublish(t) ==
  /\ pub' = [pub EXCEPT ![t] = "running"]
  /\ overlapped' = (overlapped \/ Publishing \ {t} # {})

LoadRunning(t) ==
  /\ pub[t] = "running"
  /\ snap' = [snap EXCEPT ![t] = [running |-> running, sessions |-> 0]]
  /\ pub' = [pub EXCEPT ![t] = "sessions"]
  /\ UNCHANGED <<shared, pc, handle, loopTx, inbox, conn, history>>

LoadSessions(t) ==
  /\ pub[t] = "sessions"
  /\ snap' = [snap EXCEPT ![t] = [running |-> @.running,
                                  sessions |-> sessions]]
  /\ pub' = [pub EXCEPT ![t] = "replace"]
  /\ UNCHANGED <<shared, pc, handle, loopTx, inbox, conn, history>>

\* send_replace stores the value whether or not anybody has subscribed.
Replace(t) ==
  /\ pub[t] = "replace"
  /\ watch' = snap[t]
  /\ pub' = [pub EXCEPT ![t] = "idle"]
  /\ snap' = [snap EXCEPT ![t] = NoSnap]
  /\ UNCHANGED <<running, sessions, stopRequested, pc, handle, loopTx, inbox,
                 conn, history>>

-----------------------------------------------------------------------------
(* The accept loop.                                                        *)

\* accept() returns a connection: session() counts it, then publishes.
Accept(s) ==
  /\ pc[Loop] = "select" /\ Idle(Loop)
  /\ pc[s] = "absent" /\ s \notin conn
  /\ sessions' = sessions + 1
  /\ pc' = [pc EXCEPT ![Loop] = "spawn", ![s] = "guarded"]
  /\ EnterPublish(Loop)
  /\ UNCHANGED <<running, stopRequested, watch, snap, handle, loopTx, inbox,
                 conn, exitCause, alarm, cut>>

\* session_tx.subscribe() and spawn: only now can the task hear a stop.
Spawn(s) ==
  /\ pc[Loop] = "spawn" /\ Idle(Loop)
  /\ pc[s] = "guarded"
  /\ inbox' = [inbox EXCEPT ![s] = "open"]
  /\ pc' = [pc EXCEPT ![Loop] = "select",
                      ![s] = IF Detached THEN "handshake" ELSE "serving"]
  /\ conn' = conn \cup {s}
  /\ UNCHANGED <<shared, pub, snap, handle, loopTx, history>>

\* The stop branch of select!; the accept branch may win any number of times
\* before it, select! picks a ready branch at random.
LoopStop ==
  /\ pc[Loop] = "select" /\ Idle(Loop)
  /\ StopVisible(Loop)
  /\ pc' = [pc EXCEPT ![Loop] = "exiting"]
  /\ exitCause' = "stop"
  /\ UNCHANGED <<shared, pub, snap, handle, loopTx, inbox, conn, alarm, cut,
                 overlapped>>

\* The loop ends though no stop was heard: a panic, or for SFTP the shutdown
\* channel of the application.
LoopDies ==
  /\ pc[Loop] = "select" /\ Idle(Loop)
  /\ pc' = [pc EXCEPT ![Loop] = "exiting"]
  /\ exitCause' = "died"
  /\ UNCHANGED <<shared, pub, snap, handle, loopTx, inbox, conn, alarm, cut,
                 overlapped>>

\* LoopGuard::drop: clear the flag, publish, then report an unasked exit.
DropLoopGuard ==
  /\ pc[Loop] = "exiting" /\ Idle(Loop)
  /\ running' = FALSE
  /\ pc' = [pc EXCEPT ![Loop] = "guardDropped"]
  /\ EnterPublish(Loop)
  /\ UNCHANGED <<sessions, stopRequested, watch, snap, handle, loopTx, inbox,
                 conn, exitCause, alarm, cut>>

ReportExit ==
  /\ pc[Loop] = "guardDropped" /\ Idle(Loop)
  /\ alarm' = ~stopRequested
  /\ pc' = [pc EXCEPT ![Loop] = "unwound"]
  /\ UNCHANGED <<shared, pub, snap, handle, loopTx, inbox, conn, exitCause,
                 cut, overlapped>>

\* What the loop captured is dropped last: the listener and session_tx.
DropCaptures ==
  /\ pc[Loop] = "unwound"
  /\ loopTx' = FALSE
  /\ pc' = [pc EXCEPT ![Loop] = "done"]
  /\ UNCHANGED <<shared, pub, snap, handle, inbox, conn, history>>

Listening == pc[Loop] # "done"

-----------------------------------------------------------------------------
(* The session tasks.                                                      *)

\* SFTP: run_stream returns, the session now runs in a task of russh.
HandshakeDone(s) ==
  /\ pc[s] = "handshake"
  /\ pc' = [pc EXCEPT ![s] = "serving"]
  /\ UNCHANGED <<shared, pub, snap, handle, loopTx, inbox, conn, history>>

\* Variant of SessionEnds: no guard, a panic skips the decrement.
SessionEndsUncounted(s) ==
  /\ pc[s] \in {"handshake", "serving"}
  /\ pc' = [pc EXCEPT ![s] = "absent"]
  /\ conn' = conn \ {s}
  /\ inbox' = [inbox EXCEPT ![s] = "none"]
  /\ UNCHANGED <<shared, pub, snap, handle, loopTx, history>>

\* The session ends by itself: the peer left, an error, or a panic.
SessionEnds(s) ==
  /\ pc[s] \in {"handshake", "serving"}
  /\ pc' = [pc EXCEPT ![s] = "leaving"]
  /\ conn' = conn \ {s}
  /\ UNCHANGED <<shared, pub, snap, handle, loopTx, inbox, history>>

\* The stop branch of the session's select!.  It drops the connection, except
\* that a session russh runs is only told to disconnect.
SessionStopped(s) ==
  /\ pc[s] \in {"handshake", "serving"}
  /\ StopVisible(s)
  /\ pc' = [pc EXCEPT ![s] = "leaving"]
  /\ conn' = IF Detached /\ pc[s] = "serving" THEN conn ELSE conn \ {s}
  /\ cut' = TRUE
  /\ UNCHANGED <<shared, pub, snap, handle, loopTx, inbox, exitCause, alarm,
                 overlapped>>

\* Variant of Disconnected: the task of russh is never told.
NeverDisconnected(s) ==
  /\ s \in conn /\ ~Detached
  /\ UNCHANGED vars

\* russh processes the disconnect.
Disconnected(s) ==
  /\ s \in conn
  /\ pc[s] \in {"leaving", "dropped", "absent"}
  /\ conn' = conn \ {s}
  /\ UNCHANGED <<shared, pc, pub, snap, handle, loopTx, inbox, history>>

\* Variant of DropSessionGuard: the count falls and is not published.
DropSessionGuardSilently(s) ==
  /\ pc[s] = "leaving"
  /\ sessions' = sessions - 1
  /\ pc' = [pc EXCEPT ![s] = "dropped"]
  /\ UNCHANGED <<running, stopRequested, watch, pub, snap, handle, loopTx,
                 inbox, conn, history>>

\* SessionGuard::drop: count down, then publish.
DropSessionGuard(s) ==
  /\ pc[s] = "leaving"
  /\ sessions' = sessions - 1
  /\ pc' = [pc EXCEPT ![s] = "dropped"]
  /\ EnterPublish(s)
  /\ UNCHANGED <<running, stopRequested, watch, snap, handle, loopTx, inbox,
                 conn, exitCause, alarm, cut>>

\* The task is over; another connection may take its place.
SessionGone(s) ==
  /\ pc[s] = "dropped" /\ Idle(s)
  /\ pc' = [pc EXCEPT ![s] = "absent"]
  /\ inbox' = [inbox EXCEPT ![s] = "none"]
  /\ UNCHANGED <<shared, pub, snap, handle, loopTx, conn, history>>

-----------------------------------------------------------------------------
(* The handle: signal_stop() in three steps, and stop() waiting after it.  *)

RequestStop ==
  /\ handle = "held"
  /\ stopRequested' = TRUE
  /\ handle' = "requested"
  /\ UNCHANGED <<running, sessions, watch, pc, pub, snap, loopTx, inbox, conn,
                 history>>

SendStop ==
  /\ handle = "requested"
  /\ inbox' = [t \in Tasks |-> IF inbox[t] = "open" THEN "sent" ELSE inbox[t]]
  /\ handle' = "signalled"
  /\ UNCHANGED <<shared, pc, pub, snap, loopTx, conn, history>>

DropSender ==
  /\ handle = "signalled"
  /\ handle' = "released"
  /\ UNCHANGED <<shared, pc, pub, snap, loopTx, inbox, conn, history>>

\* Variant of StopReturns: stop() polls the flag instead of joining the task.
StopReturnsOnFlag ==
  /\ handle = "released"
  /\ ~running
  /\ handle' = "joined"
  /\ UNCHANGED <<shared, pc, pub, snap, loopTx, inbox, conn, history>>

\* stop() awaits the accept loop's task and returns.
StopReturns ==
  /\ handle = "released"
  /\ pc[Loop] = "done"
  /\ handle' = "joined"
  /\ UNCHANGED <<shared, pc, pub, snap, loopTx, inbox, conn, history>>

-----------------------------------------------------------------------------
Init ==
  /\ running = TRUE /\ sessions = 0 /\ stopRequested = FALSE
  /\ watch = NoSnap
  /\ pc = [t \in Tasks |-> IF t = Loop THEN "select" ELSE "absent"]
  /\ pub = [t \in Tasks |-> "idle"]
  /\ snap = [t \in Tasks |-> NoSnap]
  /\ handle = "held"
  /\ loopTx = TRUE
  /\ inbox = [t \in Tasks |-> IF t = Loop THEN "open" ELSE "none"]
  /\ conn = {}
  /\ exitCause = "none" /\ alarm = FALSE
  /\ cut = FALSE /\ overlapped = FALSE

Publish(t) == LoadRunning(t) \/ LoadSessions(t) \/ Replace(t)

LoopNext ==
  \/ LoopStop \/ LoopDies \/ DropLoopGuard \/ ReportExit \/ DropCaptures
  \/ \E s \in Sessions : Accept(s) \/ Spawn(s)

SessionNext(s) ==
  \/ HandshakeDone(s) \/ SessionEnds(s) \/ SessionStopped(s)
  \/ Disconnected(s) \/ DropSessionGuard(s) \/ SessionGone(s)

HandleNext == RequestStop \/ SendStop \/ DropSender \/ StopReturns

Next ==
  \/ \E t \in Tasks : Publish(t)
  \/ LoopNext
  \/ \E s \in Sessions : SessionNext(s)
  \/ HandleNext

Spec == Init /\ [][Next]_vars

-----------------------------------------------------------------------------
(* Fairness.  A task that tokio can run is eventually run, so every step    *)
(* that waits for nothing is weakly fair.  select! picks at random among    *)
(* its ready branches: a ready stop branch cannot lose for ever to accept,  *)
(* hence strong fairness for LoopStop.  signal_stop() does not await.       *)
(* Nothing obliges a peer to leave, a caller to stop or a loop to die.      *)
Fairness ==
  /\ \A t \in Tasks : WF_vars(Publish(t))
  /\ SF_vars(LoopStop)
  /\ WF_vars(DropLoopGuard \/ ReportExit \/ DropCaptures)
  /\ WF_vars(\E s \in Sessions : Spawn(s))
  /\ \A s \in Sessions :
       /\ WF_vars(SessionStopped(s))
       /\ WF_vars(DropSessionGuard(s) \/ SessionGone(s))
       /\ WF_vars(Disconnected(s))
  /\ WF_vars(SendStop \/ DropSender)

FairSpec == Spec /\ Fairness

-----------------------------------------------------------------------------
TypeOK ==
  /\ running \in BOOLEAN /\ sessions \in Nat /\ stopRequested \in BOOLEAN
  /\ watch \in Snapshot
  /\ pc \in [Tasks -> LoopStates \cup SessionStates]
  /\ pc[Loop] \in LoopStates
  /\ \A s \in Sessions : pc[s] \in SessionStates
  /\ pub \in [Tasks -> {"idle", "running", "sessions", "replace"}]
  /\ snap \in [Tasks -> Snapshot]
  /\ handle \in {"held", "requested", "signalled", "released", "joined"}
  /\ loopTx \in BOOLEAN
  /\ inbox \in [Tasks -> {"none", "open", "sent"}]
  /\ conn \subseteq Sessions
  /\ exitCause \in {"none", "stop", "died"}
  /\ alarm \in BOOLEAN /\ cut \in BOOLEAN /\ overlapped \in BOOLEAN

\* The counter the UI shows is the number of live session guards, however a
\* session ends and whatever else runs; in particular it never wraps below
\* zero (lifecycle.rs:110-123).
CountIsGuards == sessions = Cardinality(Guards)

\* When stop() returns the socket is closed, so the port can be bound again
\* at once (lib.rs stop_ftp_server: "the port is free when this returns").
PortFreeAfterStop == handle = "joined" => ~Listening /\ ~running /\ ~loopTx

\* An asked-for stop is never reported as an unexpected exit of the loop
\* (lifecycle.rs:79-83): the request is recorded before the signal is sent.
NoFalseAlarm == alarm => exitCause = "died"

\* As long as no two publishes have overlapped, the channel holds the actual
\* state whenever nobody is publishing: every change of the flag or of the
\* counter is followed by a publish, on every path (lifecycle.rs:98-134).
SnapshotCurrentIfNoOverlap ==
  ~overlapped /\ Publishing = {} => watch = Actual

\* A server whose loop is gone is not shown as running once every publish is
\* over (lifecycle.rs:8-14); a late session publish can undo the loop's one.
DeadLoopNotShownRunning ==
  Publishing = {} /\ ~running => ~watch.running

\* Only a stop cuts sessions: when the accept loop dies by itself, or with the
\* application's shutdown channel, the sessions it started go on, because the
\* handle still holds a sender of the broadcast (sftp/server.rs:213-233).
OnlyStopCutsSessions == cut => stopRequested

\* What ends is ended by what it says: an exit reported as unexpected is one
\* nobody asked for, and a session that was cut was cut by a stop.
EndsExplained == NoFalseAlarm /\ OnlyStopCutsSessions

\* The server implements the contract the shell relies on.
Contract == INSTANCE ServerContract WITH
  accepting <- Listening,
  asked <- stopRequested,
  live <- Guards \cup conn

ContractSafety == Contract!Safety
ContractSpec == Contract!Spec

=============================================================================
