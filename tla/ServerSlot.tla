----------------------------- MODULE ServerSlot -----------------------------
(***************************************************************************)
(* The shell's slot for one kind of server (FTP, TFTP or SFTP): the start, *)
(* stop and status commands on it, the task that forwards each server's    *)
(* state to the UI, and the status the UI shows.  The three slots run the  *)
(* same code.                                                              *)
(*                                                                         *)
(* A server is taken in the large: its run flag falls when the accept loop *)
(* ends, its port is free when the loop's task is over, sessions come and  *)
(* go.  What the forwarder reads is the value publish() stored in the      *)
(* watch channel, so publish() is here access by access, as it is in       *)
(* ServerLifecycle: the loop and the leaving sessions may overlap in it.   *)
(*                                                                         *)
(* A command runs on a task of its own, so the grain is what it does       *)
(* between two awaits.  The page does not issue a command while one of its *)
(* own is busy; Callers says how many commands may overlap all the same.   *)
(***************************************************************************)
EXTENDS Naturals, FiniteSets

CONSTANTS
  MaxStarts,  \* bound: starts that succeed
  Ports,      \* the addresses a server may be told to listen on
  Cards,      \* the callers of start and stop: the busy flag of a page
  Callers,    \* all callers; those not in Cards only ask for the status
  MaxLive,    \* bound: sessions of one server, and of those leaving it
  Visited,    \* bound: the servers that sessions come to
  None

ASSUME CardsAreCallers == Cards \subseteq Callers
\* A server is known by the number of the start that made it.
Servers == 1..MaxStarts

ASSUME MaxStartsAssumption == MaxStarts \in Nat
ASSUME NoneAssumption == None \notin Servers \cup Ports
ASSUME MaxLiveAssumption == MaxLive \in Nat
ASSUME VisitedAssumption == Visited \subseteq Servers

\* Who publishes: the accept loop, and the sessions that are leaving.
Loop == 0
Leavers == 1..MaxLive
Publishers == {Loop} \cup Leavers

VARIABLES
  slot,       \* AppState.*_server
  life,       \* each server: unborn, up, closing (told) or dying (untold)
              \* once its flag has fallen, down
  port,       \* the address each server is bound to
  asked,      \* the servers that were told to stop
  live,       \* how many sessions each server serves
  watch,      \* the state stored in each server's watch channel
  pub,        \* the publishes under way, with what they have loaded
  unseen,     \* the watch channel holds a value the forwarder has not seen
  fwd,        \* where each server's forwarder is
  got,        \* the state each forwarder read last, as it is shown
  ui,         \* what the page shows: running or not, from whom, and if late
  pc,         \* where each command is
  arg,        \* the address or the server a command works on
  answer,     \* what a command is about to return: running or not
  killed,     \* history: a running server was replaced or dropped unasked
  overlapped, \* history: the servers of which two publishes overlapped
  passed      \* history: the answers under way that an event overtook

server == <<life, port, asked, live>>
channel == <<watch, pub, unseen, overlapped>>
forwarder == <<fwd, got>>
command == <<pc, arg, answer>>
history == <<killed, passed>>
vars == <<slot, server, channel, forwarder, ui, command, history>>

Status == [running : BOOLEAN, sessions : 0..MaxLive]
Stopped == [running |-> FALSE, sessions |-> 0]

IsRunning(i) == life[i] = "up"

\* from_state: a server whose flag has fallen is shown without sessions.
Shown(state) == IF state.running THEN state ELSE Stopped

\* ServerShared::state, and what would be shown of it.
Actual(i) == [running |-> IsRunning(i), sessions |-> live[i]]
StatusOf(i) == Shown(Actual(i))

\* A publish: where it is, and what it has loaded so far.
Publish == [at : {"idle", "running", "sessions", "replace"},
            running : BOOLEAN, sessions : 0..MaxLive]
NoPublish == [at |-> "idle", running |-> FALSE, sessions |-> 0]

Publishing(i) == {t \in Publishers : pub[i][t].at # "idle"}

\* Somebody has the handle: the slot, a start before it, a stop after it.
Held(i) ==
  \/ slot = i
  \/ \E c \in Cards : pc[c] \in {"storing", "joining"} /\ arg[c] = i

\* Every sender of the watch channel is gone: handle, loop and sessions.  A
\* session keeps its sender until its last publish is over.
Closed(i) ==
  ~Held(i) /\ life[i] = "down" /\ live[i] = 0 /\ Publishing(i) = {}

\* h.is_running() of the handle in the slot.
SlotRuns == slot # None /\ IsRunning(slot)

PortTaken(p) ==
  {i \in Servers : life[i] \in {"up", "closing", "dying"} /\ port[i] = p}

\* Dropping a handle tells its server to stop.
Told(handles) == asked' = asked \cup (handles \ {None})

Goto(c, l) == pc' = [pc EXCEPT ![c] = l]

\* The command is over but for the status the page asks for.
Finish(c) == Goto(c, "ask") /\ arg' = [arg EXCEPT ![c] = None]

-----------------------------------------------------------------------------
(* start: guard, bind, store.                                              *)

\* Variant of BeginStart: no guard, the running server is dropped.
BeginStartUnguarded(c, p) ==
  /\ c \in Cards /\ pc[c] = "idle"
  /\ \E i \in Servers : life[i] = "unborn"
  /\ slot' = None /\ Told({slot})
  /\ killed' = (killed \/ SlotRuns)
  /\ arg' = [arg EXCEPT ![c] = p] /\ Goto(c, "binding")
  /\ UNCHANGED <<life, port, live, channel, forwarder, ui, answer, passed>>

\* A handle whose loop has ended is dropped first.
BeginStart(c, p) ==
  /\ c \in Cards /\ pc[c] = "idle"
  /\ \E i \in Servers : life[i] = "unborn"
  /\ ~SlotRuns
  /\ slot' = None /\ Told({slot})
  /\ arg' = [arg EXCEPT ![c] = p] /\ Goto(c, "binding")
  /\ UNCHANGED <<life, port, live, channel, forwarder, ui, answer, history>>

RefuseStart(c) ==
  /\ c \in Cards /\ pc[c] = "idle"
  /\ SlotRuns
  /\ Goto(c, "ask")
  /\ UNCHANGED <<slot, server, channel, forwarder, ui, arg, answer, history>>

Bind(c, i) ==
  /\ pc[c] = "binding" /\ PortTaken(arg[c]) = {}
  /\ life[i] = "unborn" /\ \A j \in 1..(i - 1) : life[j] # "unborn"
  /\ life' = [life EXCEPT ![i] = "up"]
  /\ watch' = [watch EXCEPT ![i] = [running |-> TRUE, sessions |-> 0]]
  /\ port' = [port EXCEPT ![i] = arg[c]]
  /\ arg' = [arg EXCEPT ![c] = i] /\ Goto(c, "storing")
  /\ UNCHANGED <<slot, asked, live, pub, unseen, overlapped, forwarder, ui,
                 answer, history>>

\* The start fails: the address is in use, or anything else is wrong.
BindFails(c) ==
  /\ pc[c] = "binding"
  /\ Finish(c)
  /\ UNCHANGED <<slot, server, channel, forwarder, ui, answer, history>>

\* Variant of Store: the handle is forgotten, its server lives on.
StoreForgets(c) ==
  /\ pc[c] = "storing"
  /\ fwd' = [fwd EXCEPT ![arg[c]] = "read"]
  /\ Finish(c)
  /\ UNCHANGED <<slot, server, channel, got, ui, answer, history>>

\* replace() drops the handle it finds; then the forwarder is spawned.
Store(c) ==
  /\ pc[c] = "storing"
  /\ slot' = arg[c] /\ Told({slot})
  /\ killed' = (killed \/ SlotRuns)
  /\ fwd' = [fwd EXCEPT ![arg[c]] = "read"]
  /\ Finish(c)
  /\ UNCHANGED <<life, port, live, channel, got, ui, answer, passed>>

-----------------------------------------------------------------------------
(* stop: take the handle, wait for the loop's task.                        *)

BeginStop(c) ==
  /\ c \in Cards /\ pc[c] = "idle" /\ slot # None
  /\ slot' = None /\ Told({slot})
  /\ arg' = [arg EXCEPT ![c] = slot] /\ Goto(c, "joining")
  /\ UNCHANGED <<life, port, live, channel, forwarder, ui, answer, history>>

RefuseStop(c) ==
  /\ c \in Cards /\ pc[c] = "idle" /\ slot = None
  /\ Goto(c, "ask")
  /\ UNCHANGED <<slot, server, channel, forwarder, ui, arg, answer, history>>

\* Variant of EndStop: the command returns only when the forwarder is over.
EndStopAfterForwarder(c) ==
  /\ pc[c] = "joining" /\ fwd[arg[c]] = "ended"
  /\ Finish(c)
  /\ UNCHANGED <<slot, server, channel, forwarder, ui, answer, history>>

EndStop(c) ==
  /\ pc[c] = "joining" /\ life[arg[c]] = "down"
  /\ Finish(c)
  /\ UNCHANGED <<slot, server, channel, forwarder, ui, answer, history>>

-----------------------------------------------------------------------------
(* status: the page asks when it is shown, on the refresh button and after *)
(* every start and stop, whatever came of it.                              *)

BeginRefresh(c) ==
  /\ pc[c] = "idle"
  /\ Goto(c, "ask")
  /\ UNCHANGED <<slot, server, channel, forwarder, ui, arg, answer, history>>

\* A handle whose loop has ended is taken out of the slot and dropped.
Ask(c) ==
  /\ pc[c] = "ask"
  /\ answer' = [answer EXCEPT ![c] = SlotRuns]
  /\ IF SlotRuns THEN UNCHANGED <<slot, asked>>
                 ELSE slot' = None /\ Told({slot})
  /\ Goto(c, "reply")
  /\ UNCHANGED <<life, port, live, channel, forwarder, ui, arg, history>>

\* The answer reaches the page, which may have heard of the server since.
Reply(c) ==
  /\ pc[c] = "reply"
  /\ ui' = [from |-> None, running |-> answer[c], late |-> c \in passed]
  /\ passed' = passed \ {c}
  /\ answer' = [answer EXCEPT ![c] = FALSE]
  /\ Goto(c, "idle")
  /\ UNCHANGED <<slot, server, channel, forwarder, arg, killed>>

-----------------------------------------------------------------------------
(* The forwarder of a server.                                              *)

\* borrow_and_update: the value the last publish stored.
ReadState(i) ==
  /\ fwd[i] = "read"
  /\ got' = [got EXCEPT ![i] = Shown(watch[i])]
  /\ unseen' = unseen \ {i}
  /\ fwd' = [fwd EXCEPT ![i] = "emit"]
  /\ UNCHANGED <<slot, server, watch, pub, overlapped, ui, command, history>>

Emit(i) ==
  /\ fwd[i] = "emit"
  /\ ui' = [from |-> i, running |-> got[i].running, late |-> FALSE]
  /\ passed' = {c \in Callers : pc[c] = "reply"}
  /\ fwd' = [fwd EXCEPT ![i] = "wait"]
  /\ UNCHANGED <<slot, server, channel, got, command, killed>>

Changed(i) ==
  /\ fwd[i] = "wait" /\ i \in unseen
  /\ fwd' = [fwd EXCEPT ![i] = "read"]
  /\ UNCHANGED <<slot, server, channel, got, ui, command, history>>

\* Variant of Gone: the loop leaves as soon as the server has ended.
GoneEarly(i) ==
  /\ fwd[i] = "wait" /\ life[i] # "up"
  /\ fwd' = [fwd EXCEPT ![i] = "ended"]
  /\ UNCHANGED <<slot, server, channel, got, ui, command, history>>

\* changed() fails only when the last value was seen and no sender is left.
Gone(i) ==
  /\ fwd[i] = "wait" /\ i \notin unseen /\ Closed(i)
  /\ fwd' = [fwd EXCEPT ![i] = "ended"]
  /\ UNCHANGED <<slot, server, channel, got, ui, command, history>>

-----------------------------------------------------------------------------
(* publish(): entered by the step that changed the state it publishes.     *)

EnterPublish(i, t) ==
  /\ pub' = [pub EXCEPT ![i][t] = [at |-> "running", running |-> FALSE,
                                   sessions |-> 0]]
  /\ overlapped' = IF Publishing(i) = {} THEN overlapped
                                         ELSE overlapped \cup {i}

LoadRunning(i, t) ==
  /\ pub[i][t].at = "running"
  /\ pub' = [pub EXCEPT ![i][t] = [at |-> "sessions",
                                   running |-> IsRunning(i),
                                   sessions |-> 0]]
  /\ UNCHANGED <<slot, server, watch, unseen, overlapped, forwarder, ui,
                 command, history>>

LoadSessions(i, t) ==
  /\ pub[i][t].at = "sessions"
  /\ pub' = [pub EXCEPT ![i][t] = [at |-> "replace",
                                   running |-> pub[i][t].running,
                                   sessions |-> live[i]]]
  /\ UNCHANGED <<slot, server, watch, unseen, overlapped, forwarder, ui,
                 command, history>>

\* Variant of Replace: send() keeps the old value when nobody subscribed.
ReplaceIfSubscribed(i, t) ==
  /\ pub[i][t].at = "replace"
  /\ IF fwd[i] = "none"
       THEN UNCHANGED <<watch, unseen>>
       ELSE /\ watch' = [watch EXCEPT ![i] = [running |-> pub[i][t].running,
                                              sessions |-> pub[i][t].sessions]]
            /\ unseen' = unseen \cup {i}
  /\ pub' = [pub EXCEPT ![i][t] = NoPublish]
  /\ UNCHANGED <<slot, server, overlapped, forwarder, ui, command, history>>

\* send_replace stores the value and marks it as changed.
Replace(i, t) ==
  /\ pub[i][t].at = "replace"
  /\ watch' = [watch EXCEPT ![i] = [running |-> pub[i][t].running,
                                    sessions |-> pub[i][t].sessions]]
  /\ unseen' = unseen \cup {i}
  /\ pub' = [pub EXCEPT ![i][t] = NoPublish]
  /\ UNCHANGED <<slot, server, overlapped, forwarder, ui, command, history>>

-----------------------------------------------------------------------------
(* The servers.                                                            *)

\* The loop counts a session it has accepted, then publishes; only then has
\* the session its guard.
Admitting(i) == IsRunning(i) /\ Loop \in Publishing(i)

Admit(i) ==
  /\ IsRunning(i) /\ Loop \notin Publishing(i)
  /\ i \in Visited /\ live[i] < MaxLive
  /\ live' = [live EXCEPT ![i] = @ + 1]
  /\ EnterPublish(i, Loop)
  /\ UNCHANGED <<slot, life, port, asked, watch, unseen, forwarder, ui,
                 command, history>>

Leave(i) ==
  /\ live[i] > IF Admitting(i) THEN 1 ELSE 0
  /\ live' = [live EXCEPT ![i] = @ - 1]
  /\ \E t \in Leavers \ Publishing(i) : EnterPublish(i, t)
  /\ UNCHANGED <<slot, life, port, asked, watch, unseen, forwarder, ui,
                 command, history>>

\* Variant of LoopEnds: the end is not published.
LoopEndsSilently(i) ==
  /\ IsRunning(i) /\ Loop \notin Publishing(i)
  /\ life' = [life EXCEPT ![i] = IF i \in asked THEN "closing" ELSE "dying"]
  /\ UNCHANGED <<slot, port, asked, live, channel, forwarder, ui, command,
                 history>>

\* The loop ends, asked or not: the flag falls, and this is published.
LoopEnds(i) ==
  /\ IsRunning(i) /\ Loop \notin Publishing(i)
  /\ life' = [life EXCEPT ![i] = IF i \in asked THEN "closing" ELSE "dying"]
  /\ EnterPublish(i, Loop)
  /\ UNCHANGED <<slot, port, asked, live, watch, unseen, forwarder, ui,
                 command, history>>

Close(i) ==
  /\ life[i] \in {"closing", "dying"} /\ Loop \notin Publishing(i)
  /\ life' = [life EXCEPT ![i] = "down"]
  /\ UNCHANGED <<slot, port, asked, live, channel, forwarder, ui, command,
                 history>>

-----------------------------------------------------------------------------
Init ==
  /\ slot = None
  /\ life = [i \in Servers |-> "unborn"]
  /\ port = [i \in Servers |-> None]
  /\ asked = {}
  /\ live = [i \in Servers |-> 0]
  /\ watch = [i \in Servers |-> Stopped]
  /\ pub = [i \in Servers |-> [t \in Publishers |-> NoPublish]]
  /\ unseen = {}
  /\ fwd = [i \in Servers |-> "none"]
  /\ got = [i \in Servers |-> Stopped]
  /\ ui = [from |-> None, running |-> FALSE, late |-> FALSE]
  /\ pc = [c \in Callers |-> "idle"]
  /\ arg = [c \in Callers |-> None]
  /\ answer = [c \in Callers |-> FALSE]
  /\ killed = FALSE /\ overlapped = {} /\ passed = {}

\* What a command does by itself once it was issued.
Proceed(c) ==
  \/ (\E i \in Servers : Bind(c, i)) \/ BindFails(c) \/ Store(c)
  \/ EndStop(c) \/ Ask(c) \/ Reply(c)

Issue(c) ==
  \/ \E p \in Ports : BeginStart(c, p)
  \/ RefuseStart(c) \/ BeginStop(c) \/ RefuseStop(c) \/ BeginRefresh(c)

Forward(i) == ReadState(i) \/ Emit(i) \/ Changed(i) \/ Gone(i)

Send(i, t) == LoadRunning(i, t) \/ LoadSessions(i, t) \/ Replace(i, t)

Serve(i) == Admit(i) \/ Leave(i) \/ LoopEnds(i) \/ Close(i)

Next ==
  \/ \E c \in Callers : Issue(c) \/ Proceed(c)
  \/ \E i \in Servers :
       Forward(i) \/ Serve(i) \/ \E t \in Publishers : Send(i, t)

Safety == Init /\ [][Next]_vars

\* Tasks that can run do run; a server that was told to stop does, however
\* often select! lets a connection go first, and its sessions leave (what
\* ServerContract promises).  Nobody has to issue a command, and a session may
\* stay for ever on a server that was not told to stop.
Spec ==
  /\ Safety
  /\ \A c \in Callers : WF_vars(Proceed(c))
  /\ \A i \in Servers :
       /\ WF_vars(Forward(i)) /\ \A t \in Publishers : WF_vars(Send(i, t))
       /\ SF_vars(i \in asked /\ LoopEnds(i)) /\ WF_vars(Close(i))
       /\ WF_vars(i \in asked /\ life[i] = "down" /\ Leave(i))

-----------------------------------------------------------------------------
TypeOK ==
  /\ slot \in Servers \cup {None}
  /\ life \in [Servers -> {"unborn", "up", "closing", "dying", "down"}]
  /\ port \in [Servers -> Ports \cup {None}]
  /\ asked \subseteq Servers
  /\ live \in [Servers -> 0..MaxLive]
  /\ watch \in [Servers -> Status]
  /\ pub \in [Servers -> [Publishers -> Publish]]
  /\ unseen \subseteq Servers
  /\ fwd \in [Servers -> {"none", "read", "emit", "wait", "ended"}]
  /\ got \in [Servers -> Status]
  /\ ui \in [from : Servers \cup {None}, running : BOOLEAN, late : BOOLEAN]
  /\ pc \in [Callers -> {"idle", "binding", "storing", "joining", "ask",
                         "reply"}]
  /\ arg \in [Callers -> Servers \cup Ports \cup {None}]
  /\ answer \in [Callers -> BOOLEAN]
  /\ killed \in BOOLEAN
  /\ overlapped \subseteq Servers /\ passed \subseteq Callers

\* A server that runs and was not told to stop can be stopped: its handle is
\* in the slot, or a start is about to put it there.  However commands
\* overlap, no server is left that only the end of the process ends.
NoOrphan ==
  \A i \in Servers : IsRunning(i) /\ i \notin asked => Held(i)

\* A start never takes down a running server (lib.rs:193-195, 1025), as long
\* as one page issues the commands, one at a time.
LiveServerKept == ~killed

\* A start that finds its port taken by a server of this slot finds one whose
\* loop ended unasked, and has not closed its socket yet: a stop that has
\* returned never makes the next start fail (lib.rs:310).
RestartFindsPortFree ==
  \A c \in Callers : pc[c] = "binding" =>
    \A i \in PortTaken(arg[c]) : life[i] = "dying"

\* What the guards of the commands are for, together: a start costs no server
\* and a stop leaves nothing in its way.
OneCardIsSafe == LiveServerKept /\ RestartFindsPortFree

\* Nothing is lost on the way to the page (lib.rs:441-445): once a forwarder
\* has nothing left to read, what it sent last is what was stored last.  And
\* that is how its server is now, unless two publishes of the server overlapped
\* (then it may be older, see DeadLoopNotShownRunning of ServerLifecycle).
LastEventCurrent ==
  \A i \in Servers :
    (fwd[i] = "wait" /\ i \notin unseen) \/ fwd[i] = "ended"
      => /\ got[i] = Shown(watch[i])
         /\ i \notin overlapped /\ Publishing(i) = {} => got[i] = StatusOf(i)

\* Every command returns.
CommandsReturn == \A c \in Callers : []<>(pc[c] = "idle")

\* A server that was told to stop, or whose handle was dropped, is gone in the
\* end with its sessions and its forwarder, and the page was told what its
\* channel held last: that it is stopped, unless two publishes overlapped.
\* Nothing is ever told twice, so the end is stated once for all that were.
ToldServersVanish ==
  <>[](\A i \in asked :
         /\ Closed(i) /\ fwd[i] = "ended"
         /\ got[i] = Shown(watch[i])
         /\ i \notin overlapped => got[i] = Stopped)

\* No command, no forwarder and no publish has anything left to do.
AtRest ==
  /\ \A c \in Callers : pc[c] = "idle"
  /\ \A i \in Servers :
       /\ fwd[i] \in {"none", "wait", "ended"} /\ i \notin unseen
       /\ Publishing(i) = {}

\* "So it stays correct without a manual refresh" (App.tsx:128-130), for a
\* server that is gone: with all at rest and no server up the page shows none,
\* with two exceptions.  The answer to a status query may be read before a
\* server ends and shown after the event that told so; and the state two
\* overlapping publishes leave behind may be an older one.
DeadServerHidden ==
  AtRest /\ (\A i \in Servers : ~IsRunning(i)) /\ ui.running
    => ui.late \/ ui.from \in overlapped

\* The page shows a running server as running.  App.tsx:128-130 says so ("Run
\* state is *pushed* by the backend, so it stays correct without a manual
\* refresh"); the last event of the server before it may come in between.
RunningServerShown ==
  AtRest /\ SlotRuns => ui.running

=============================================================================
