------------------------- MODULE ServerSlot_proofs -------------------------
(***************************************************************************)
(* Proofs about ServerSlot, for any number of starts, addresses, sessions  *)
(* and overlapping commands; where a theorem needs the page to issue one   *)
(* start or stop at a time, it says so (OneCard).                          *)
(***************************************************************************)
EXTENDS ServerSlot, TLAPS

\* What a command works on.
CommandInv ==
  \A c \in Callers :
    /\ pc[c] \in {"binding", "storing", "joining"} => c \in Cards
    /\ pc[c] = "binding" => arg[c] \in Ports
    /\ pc[c] \in {"storing", "joining"} =>
         arg[c] \in Servers /\ life[arg[c]] # "unborn"

\* A server that was not bound yet has left no trace, serves nobody and
\* publishes nothing; one whose forwarder is over is over.
ServerInv ==
  /\ slot # None => life[slot] # "unborn"
  /\ \A i \in Servers :
       /\ life[i] = "unborn" =>
            /\ fwd[i] = "none" /\ i \notin asked /\ live[i] = 0
            /\ Publishing(i) = {}
       /\ fwd[i] = "ended" =>
            life[i] = "down" /\ live[i] = 0 /\ Publishing(i) = {}

\* What the forwarder has read is what was stored last, but for a change it
\* has not seen yet.
EventInv ==
  \A i \in Servers :
    (fwd[i] \in {"emit", "wait"} /\ i \notin unseen) \/ fwd[i] = "ended"
      => got[i] = Shown(watch[i])

IInv == TypeOK /\ CommandInv /\ ServerInv /\ NoOrphan /\ EventInv

-----------------------------------------------------------------------------
LEMMA StatusTyped ==
  ASSUME TypeOK
  PROVE  /\ Stopped \in Status
         /\ \A i \in Servers : Shown(watch[i]) \in Status
BY MaxLiveAssumption DEF TypeOK, Status, Stopped, Shown

LEMMA InitIInv == Init => IInv
<1> SUFFICES ASSUME Init PROVE IInv
  OBVIOUS
<1>1. Stopped \in Status /\ NoPublish \in Publish /\ 0 \in 0..MaxLive
  BY MaxLiveAssumption DEF Stopped, Status, NoPublish, Publish
<1>0. TypeOK
  BY <1>1 DEF Init, TypeOK
<1>2. CommandInv /\ ServerInv /\ NoOrphan /\ EventInv
  BY NoneAssumption DEF Init, CommandInv, ServerInv, NoOrphan, EventInv,
     IsRunning, Publishing, NoPublish
<1> QED BY <1>0, <1>2 DEF IInv

\* Who publishes after a step of one of the publishers.
LEMMA PublishingAfter ==
  ASSUME TypeOK, NEW i \in Servers, NEW t \in Publishers, NEW r,
         pub' = [pub EXCEPT ![i][t] = r]
  PROVE  /\ \A j \in Servers : j # i => Publishing(j)' = Publishing(j)
         /\ r.at = "idle" => Publishing(i)' = Publishing(i) \ {t}
         /\ r.at # "idle" => Publishing(i)' = Publishing(i) \cup {t}
BY DEF TypeOK, Publishing

LEMMA EnteredPublishing ==
  ASSUME TypeOK, NEW i \in Servers, NEW t \in Publishers, EnterPublish(i, t)
  PROVE  /\ \A j \in Servers :
              /\ j # i => Publishing(j)' = Publishing(j)
              /\ j = i => Publishing(j)' = Publishing(i) \cup {t}
         /\ pub'[i][t].at = "running"
<1> DEFINE r == [at |-> "running", running |-> FALSE, sessions |-> 0]
<1>1. pub' = [pub EXCEPT ![i][t] = r] /\ r.at = "running"
  BY DEF EnterPublish
<1> HIDE DEF r
<1> QED BY <1>1, PublishingAfter DEF TypeOK

LEMMA EnterTyped ==
  ASSUME TypeOK, NEW i \in Servers, NEW t \in Publishers, EnterPublish(i, t)
  PROVE  /\ pub' \in [Servers -> [Publishers -> Publish]]
         /\ overlapped' \subseteq Servers
BY MaxLiveAssumption DEF TypeOK, EnterPublish, Publish

\* Each step keeps the inductive invariant.
LEMMA NextIInv == IInv /\ [Next]_vars => IInv'
<1> SUFFICES ASSUME IInv, [Next]_vars PROVE IInv'
  OBVIOUS
<1> USE CardsAreCallers, NoneAssumption, MaxLiveAssumption DEF channel
<1>1. ASSUME NEW c \in Callers, NEW p \in Ports, BeginStart(c, p)
      PROVE  IInv'
  <2> USE <1>1 DEF IInv
  <2>1. TypeOK'
    BY StatusTyped DEF BeginStart, Goto, Told, SlotRuns, forwarder, history,
           IsRunning, TypeOK, Status, Stopped
  <2>2. CommandInv'
    BY DEF BeginStart, Goto, Told, SlotRuns, forwarder, history, IsRunning,
           CommandInv, TypeOK
  <2>3. ServerInv'
    BY DEF BeginStart, Goto, Told, SlotRuns, forwarder, history, IsRunning,
           ServerInv, Publishing, CommandInv, TypeOK
  <2>4. NoOrphan'
    <3> SUFFICES ASSUME NEW j \in Servers, IsRunning(j)', j \notin asked'
                 PROVE  Held(j)'
      BY DEF NoOrphan
    <3>1. IsRunning(j) /\ j \notin asked
      BY DEF BeginStart, Goto, Told, SlotRuns, IsRunning, TypeOK
    <3>2. Held(j)
      BY <3>1 DEF NoOrphan
    <3> QED
      BY <3>1, <3>2 DEF BeginStart, Goto, Told, SlotRuns, forwarder, history,
          IsRunning, CommandInv, TypeOK, Held
  <2>5. EventInv'
    BY DEF BeginStart, Goto, Told, SlotRuns, forwarder, history, IsRunning,
           EventInv, ServerInv, CommandInv, TypeOK, Stopped
  <2> QED BY <2>1, <2>2, <2>3, <2>4, <2>5
<1>2. ASSUME NEW c \in Callers, RefuseStart(c)
      PROVE  IInv'
  <2> USE <1>2 DEF IInv
  <2>1. TypeOK'
    BY StatusTyped DEF RefuseStart, Goto, SlotRuns, server, forwarder,
           history, IsRunning, TypeOK, Status, Stopped
  <2>2. CommandInv'
    BY DEF RefuseStart, Goto, SlotRuns, server, forwarder, history,
           IsRunning, CommandInv, TypeOK
  <2>3. ServerInv'
    BY DEF RefuseStart, Goto, SlotRuns, server, forwarder, history,
           IsRunning, ServerInv, Publishing, CommandInv, TypeOK
  <2>4. NoOrphan'
    BY DEF RefuseStart, Goto, SlotRuns, server, forwarder, history,
           IsRunning, NoOrphan, ServerInv, CommandInv, TypeOK, Held
  <2>5. EventInv'
    BY DEF RefuseStart, Goto, SlotRuns, server, forwarder, history,
           IsRunning, EventInv, ServerInv, CommandInv, TypeOK, 
           Stopped
  <2> QED BY <2>1, <2>2, <2>3, <2>4, <2>5
<1>3. ASSUME NEW c \in Callers, BeginStop(c)
      PROVE  IInv'
  <2> USE <1>3 DEF IInv
  <2>1. TypeOK'
    BY StatusTyped DEF BeginStop, Goto, Told, forwarder, history, TypeOK,
           Status, Stopped
  <2>2. CommandInv'
    BY DEF BeginStop, Goto, Told, CommandInv, ServerInv, TypeOK
  <2>3. ServerInv'
    BY DEF BeginStop, Goto, Told, forwarder, history, ServerInv, Publishing, CommandInv,
           TypeOK
  <2>4. NoOrphan'
    <3> SUFFICES ASSUME NEW j \in Servers, IsRunning(j)', j \notin asked'
                 PROVE  Held(j)'
      BY DEF NoOrphan
    <3>1. IsRunning(j) /\ j \notin asked
      BY DEF BeginStop, Goto, Told, TypeOK, IsRunning
    <3>2. Held(j)
      BY <3>1 DEF NoOrphan
    <3> QED
      BY <3>1, <3>2 DEF BeginStop, Goto, Told, forwarder, history,
          CommandInv, TypeOK, Held, IsRunning
  <2>5. EventInv'
    BY DEF BeginStop, Goto, Told, forwarder, history, EventInv, ServerInv,
           CommandInv, TypeOK, IsRunning, Stopped
  <2> QED BY <2>1, <2>2, <2>3, <2>4, <2>5
<1>4. ASSUME NEW c \in Callers, RefuseStop(c)
      PROVE  IInv'
  <2> USE <1>4 DEF IInv
  <2>1. TypeOK'
    BY StatusTyped DEF RefuseStop, Goto, server, forwarder, history, TypeOK,
           Status, Stopped
  <2>2. CommandInv'
    BY DEF RefuseStop, Goto, server, forwarder, history, CommandInv, TypeOK
  <2>3. ServerInv'
    BY DEF RefuseStop, Goto, server, forwarder, history, ServerInv, Publishing,
           CommandInv, TypeOK
  <2>4. NoOrphan'
    BY DEF RefuseStop, Goto, server, forwarder, history, NoOrphan, ServerInv,
           CommandInv, TypeOK, Held, IsRunning
  <2>5. EventInv'
    BY DEF RefuseStop, Goto, server, forwarder, history, EventInv, ServerInv,
           CommandInv, TypeOK, IsRunning, Stopped
  <2> QED BY <2>1, <2>2, <2>3, <2>4, <2>5
<1>5. ASSUME NEW c \in Callers, BeginRefresh(c)
      PROVE  IInv'
  <2> USE <1>5 DEF IInv
  <2>1. TypeOK'
    BY StatusTyped DEF BeginRefresh, Goto, server, forwarder, history,
           TypeOK, Status, Stopped
  <2>2. CommandInv'
    BY DEF BeginRefresh, Goto, server, forwarder, history, CommandInv, TypeOK
  <2>3. ServerInv'
    BY DEF BeginRefresh, Goto, server, forwarder, history, ServerInv, Publishing,
           CommandInv, TypeOK
  <2>4. NoOrphan'
    BY DEF BeginRefresh, Goto, server, forwarder, history, NoOrphan,
           ServerInv, CommandInv, TypeOK, Held, IsRunning
  <2>5. EventInv'
    BY DEF BeginRefresh, Goto, server, forwarder, history, EventInv,
           ServerInv, CommandInv, TypeOK, IsRunning, Stopped
  <2> QED BY <2>1, <2>2, <2>3, <2>4, <2>5
<1>6. ASSUME NEW c \in Callers, NEW i \in Servers, Bind(c, i)
      PROVE  IInv'
  <2> USE <1>6 DEF IInv
  <2>1. TypeOK'
    <3>1. arg[c] \in Ports /\ [running |-> TRUE, sessions |-> 0] \in Status
      BY DEF Bind, CommandInv, Status
    <3> QED BY <3>1 DEF Bind, Goto, forwarder, history, TypeOK
  <2>2. CommandInv'
    BY DEF Bind, Goto, PortTaken, forwarder, history, CommandInv, TypeOK
  <2>3. ServerInv'
    BY DEF Bind, Goto, PortTaken, forwarder, history, ServerInv, Publishing, CommandInv,
           TypeOK
  <2>4. NoOrphan'
    <3> SUFFICES ASSUME NEW j \in Servers, IsRunning(j)', j \notin asked'
                 PROVE  Held(j)'
      BY DEF NoOrphan
    <3>1. c \in Cards
      BY DEF Bind, CommandInv
    <3>2. CASE j = i
      BY <3>1, <3>2 DEF Bind, Goto, Held, TypeOK
    <3>3. CASE j # i
      <4>1. IsRunning(j) /\ j \notin asked
        BY <3>3 DEF Bind, IsRunning, TypeOK
      <4>2. Held(j)
        BY <4>1 DEF NoOrphan
      <4> QED BY <4>2 DEF Bind, Goto, Held, TypeOK
    <3> QED BY <3>2, <3>3
  <2>5. EventInv'
    BY DEF Bind, Goto, PortTaken, forwarder, history, EventInv, ServerInv,
           CommandInv, TypeOK, IsRunning, Stopped
  <2> QED BY <2>1, <2>2, <2>3, <2>4, <2>5
<1>7. ASSUME NEW c \in Callers, BindFails(c)
      PROVE  IInv'
  <2> USE <1>7 DEF IInv
  <2>1. TypeOK'
    BY StatusTyped DEF BindFails, Finish, server, forwarder, history, Goto,
           TypeOK, Status, Stopped
  <2>2. CommandInv'
    BY DEF BindFails, Finish, server, forwarder, history, Goto, CommandInv,
           TypeOK
  <2>3. ServerInv'
    BY DEF BindFails, Finish, server, forwarder, history, Goto, ServerInv, Publishing,
           CommandInv, TypeOK
  <2>4. NoOrphan'
    <3> SUFFICES ASSUME NEW j \in Servers, IsRunning(j)', j \notin asked'
                 PROVE  Held(j)'
      BY DEF NoOrphan
    <3>1. IsRunning(j) /\ j \notin asked
      BY DEF BindFails, Finish, server, Goto, TypeOK, IsRunning
    <3>2. Held(j)
      BY <3>1 DEF NoOrphan
    <3> QED
      BY <3>1, <3>2 DEF BindFails, Finish, PortTaken, server, forwarder,
          Goto, CommandInv, TypeOK, Held, IsRunning
  <2>5. EventInv'
    BY DEF BindFails, Finish, server, forwarder, history, Goto, EventInv,
           ServerInv, CommandInv, TypeOK, IsRunning, Stopped
  <2> QED BY <2>1, <2>2, <2>3, <2>4, <2>5
<1>8. ASSUME NEW c \in Callers, Store(c)
      PROVE  IInv'
  <2> USE <1>8 DEF IInv
  <2>1. TypeOK'
    <3>1. arg[c] \in Servers
      BY DEF Store, CommandInv
    <3> QED BY <3>1 DEF Store, Finish, Told, Goto, TypeOK
  <2>2. CommandInv'
    BY DEF Store, Finish, Told, SlotRuns, Goto, IsRunning, CommandInv, TypeOK
  <2>3. ServerInv'
    BY DEF Store, Finish, Told, SlotRuns, Goto, IsRunning, ServerInv, Publishing,
           CommandInv, TypeOK
  <2>4. NoOrphan'
    <3> SUFFICES ASSUME NEW j \in Servers, IsRunning(j)', j \notin asked'
                 PROVE  Held(j)'
      BY DEF NoOrphan
    <3>1. IsRunning(j) /\ j \notin asked
      BY DEF Store, Finish, Told, SlotRuns, Goto, IsRunning, TypeOK
    <3>2. Held(j)
      BY <3>1 DEF NoOrphan
    <3> QED
      BY <3>1, <3>2 DEF Store, Finish, Told, SlotRuns, Goto, IsRunning,
          CommandInv, TypeOK, Held
  <2>5. EventInv'
    BY DEF Store, Finish, Told, SlotRuns, Goto, IsRunning, EventInv,
           ServerInv, CommandInv, TypeOK, Stopped
  <2> QED BY <2>1, <2>2, <2>3, <2>4, <2>5
<1>9. ASSUME NEW c \in Callers, EndStop(c)
      PROVE  IInv'
  <2> USE <1>9 DEF IInv
  <2>1. TypeOK'
    BY StatusTyped DEF EndStop, Finish, server, forwarder, history, Goto,
           TypeOK, Status, Stopped
  <2>2. CommandInv'
    BY DEF EndStop, Finish, server, forwarder, history, Goto, CommandInv,
           TypeOK
  <2>3. ServerInv'
    BY DEF EndStop, Finish, server, forwarder, history, Goto, ServerInv, Publishing,
           CommandInv, TypeOK
  <2>4. NoOrphan'
    <3> SUFFICES ASSUME NEW j \in Servers, IsRunning(j)', j \notin asked'
                 PROVE  Held(j)'
      BY DEF NoOrphan
    <3>1. IsRunning(j) /\ j \notin asked
      BY DEF EndStop, Finish, server, Goto, TypeOK, IsRunning
    <3>2. Held(j)
      BY <3>1 DEF NoOrphan
    <3> QED
      BY <3>1, <3>2 DEF EndStop, Finish, server, forwarder, history, Goto,
          CommandInv, TypeOK, Held, IsRunning
  <2>5. EventInv'
    BY DEF EndStop, Finish, server, forwarder, history, Goto, EventInv,
           ServerInv, CommandInv, TypeOK, IsRunning, Stopped
  <2> QED BY <2>1, <2>2, <2>3, <2>4, <2>5
<1>10. ASSUME NEW c \in Callers, Ask(c)
      PROVE  IInv'
  <2> USE <1>10 DEF IInv
  <2>1. TypeOK'
    <3>1. SlotRuns \in BOOLEAN
      BY DEF SlotRuns, IsRunning
    <3>2. slot' \in Servers \cup {None} /\ asked' \subseteq Servers
      BY DEF Ask, Told, TypeOK
    <3> QED BY <3>1, <3>2 DEF Ask, Goto, forwarder, history, TypeOK
  <2>2. CommandInv'
    BY DEF Ask, Goto, Told, SlotRuns, forwarder, history,
           IsRunning, CommandInv, TypeOK
  <2>3. ServerInv'
    BY DEF Ask, Goto, Told, SlotRuns, forwarder, history,
           IsRunning, ServerInv, Publishing, CommandInv, TypeOK
  <2>4. NoOrphan'
    <3> SUFFICES ASSUME NEW j \in Servers, IsRunning(j)', j \notin asked'
                 PROVE  Held(j)'
      BY DEF NoOrphan
    <3>1. IsRunning(j) /\ j \notin asked
      BY DEF Ask, Goto, Told, SlotRuns, IsRunning, TypeOK
    <3>2. Held(j)
      BY <3>1 DEF NoOrphan
    <3> QED
      BY <3>1, <3>2 DEF Ask, Goto, Told, SlotRuns, forwarder,
          history, IsRunning, CommandInv, TypeOK, Held
  <2>5. EventInv'
    BY DEF Ask, Goto, Told, SlotRuns, forwarder, history,
           IsRunning, EventInv, ServerInv, CommandInv, TypeOK, Stopped
  <2> QED BY <2>1, <2>2, <2>3, <2>4, <2>5
<1>11. ASSUME NEW c \in Callers, Reply(c)
      PROVE  IInv'
  <2> USE <1>11 DEF IInv
  <2>1. TypeOK'
    <3>1. answer[c] \in BOOLEAN
      BY DEF TypeOK
    <3> QED BY <3>1 DEF Reply, Goto, server, forwarder, history, TypeOK
  <2>2. CommandInv'
    BY DEF Reply, Goto, server, forwarder, history, CommandInv, TypeOK
  <2>3. ServerInv'
    BY DEF Reply, Goto, server, forwarder, history, ServerInv, Publishing, CommandInv,
           TypeOK
  <2>4. NoOrphan'
    BY DEF Reply, Goto, server, forwarder, history, NoOrphan, ServerInv,
           CommandInv, TypeOK, Held, IsRunning
  <2>5. EventInv'
    BY DEF Reply, Goto, server, forwarder, history, EventInv, ServerInv,
           CommandInv, TypeOK, IsRunning, Stopped
  <2> QED BY <2>1, <2>2, <2>3, <2>4, <2>5
<1>12. ASSUME NEW i \in Servers, ReadState(i)
      PROVE  IInv'
  <2> USE <1>12 DEF IInv
  <2>1. TypeOK'
    <3>1. Shown(watch[i]) \in Status
      BY StatusTyped
    <3> QED BY <3>1 DEF ReadState, server, command, history, TypeOK
  <2>2. CommandInv'
    BY DEF ReadState, server, command, history, IsRunning,
           CommandInv, TypeOK
  <2>3. ServerInv'
    BY DEF ReadState, server, command, history, IsRunning,
           ServerInv, Publishing, CommandInv, TypeOK
  <2>4. NoOrphan'
    BY DEF ReadState, server, command, history, IsRunning,
           NoOrphan, ServerInv, CommandInv, TypeOK, Held
  <2>5. EventInv'
    BY DEF ReadState, server, command, history, IsRunning,
           EventInv, ServerInv, CommandInv, TypeOK, Stopped
  <2> QED BY <2>1, <2>2, <2>3, <2>4, <2>5
<1>13. ASSUME NEW i \in Servers, Emit(i)
      PROVE  IInv'
  <2> USE <1>13 DEF IInv
  <2>1. TypeOK'
    <3>1. got[i].running \in BOOLEAN
      BY DEF TypeOK, Status
    <3> QED BY <3>1 DEF Emit, server, command, history, TypeOK
  <2>2. CommandInv'
    BY DEF Emit, server, command, history, CommandInv, TypeOK
  <2>3. ServerInv'
    BY DEF Emit, server, command, history, ServerInv, Publishing, CommandInv, TypeOK
  <2>4. NoOrphan'
    BY DEF Emit, server, command, history, NoOrphan, ServerInv, CommandInv,
           TypeOK, Held, IsRunning
  <2>5. EventInv'
    BY DEF Emit, server, command, history, EventInv, ServerInv, CommandInv,
           TypeOK, IsRunning, Stopped
  <2> QED BY <2>1, <2>2, <2>3, <2>4, <2>5
<1>14. ASSUME NEW i \in Servers, Changed(i)
      PROVE  IInv'
  <2> USE <1>14 DEF IInv
  <2>1. TypeOK'
    BY StatusTyped DEF Changed, server, command, history, TypeOK, Status,
           Stopped
  <2>2. CommandInv'
    BY DEF Changed, server, command, history, CommandInv, TypeOK
  <2>3. ServerInv'
    BY DEF Changed, server, command, history, ServerInv, Publishing, CommandInv, TypeOK
  <2>4. NoOrphan'
    BY DEF Changed, server, command, history, NoOrphan, ServerInv,
           CommandInv, TypeOK, Held, IsRunning
  <2>5. EventInv'
    BY DEF Changed, server, command, history, EventInv, ServerInv,
           CommandInv, TypeOK, IsRunning, Stopped
  <2> QED BY <2>1, <2>2, <2>3, <2>4, <2>5
<1>15. ASSUME NEW i \in Servers, Gone(i)
      PROVE  IInv'
  <2> USE <1>15 DEF IInv
  <2>1. TypeOK'
    BY StatusTyped DEF Gone, Closed, server, command, history, Held, TypeOK,
           Status, Stopped
  <2>2. CommandInv'
    BY DEF Gone, Closed, server, command, history, Held, CommandInv, TypeOK
  <2>3. ServerInv'
    BY DEF Gone, Closed, server, command, history, Held, ServerInv, Publishing,
           CommandInv, TypeOK
  <2>4. NoOrphan'
    BY DEF Gone, Closed, server, command, history, Held, NoOrphan, ServerInv,
           CommandInv, TypeOK, IsRunning
  <2>5. EventInv'
    BY DEF Gone, Closed, server, command, history, Held, EventInv, ServerInv,
           CommandInv, TypeOK, IsRunning, Stopped
  <2> QED BY <2>1, <2>2, <2>3, <2>4, <2>5
<1>16. ASSUME NEW i \in Servers, Admit(i)
      PROVE  IInv'
  <2> USE <1>16 DEF IInv
  <2>1. PICK t \in Publishers : EnterPublish(i, t)
    BY DEF Admit, Publishers
  <2>2. TypeOK'
    <3>1. live[i] + 1 \in 0..MaxLive
      BY DEF Admit, TypeOK
    <3> QED BY <2>1, <3>1, EnterTyped DEF Admit, forwarder, command, history, TypeOK
  <2>3. CommandInv'
    BY DEF Admit, IsRunning, forwarder, command, history, CommandInv, TypeOK
  <2>4. ServerInv'
    <3>1. life[i] # "unborn" /\ fwd[i] # "ended"
      BY DEF Admit, IsRunning, ServerInv, TypeOK
    <3>2. \A j \in Servers : j # i => Publishing(j)' = Publishing(j)
      BY <2>1, EnteredPublishing
    <3> QED BY <3>1, <3>2 DEF Admit, IsRunning, forwarder, command, history, ServerInv, TypeOK
  <2>5. NoOrphan'
    BY DEF Admit, IsRunning, forwarder, command, history, NoOrphan, TypeOK, Held
  <2>6. EventInv'
    BY DEF Admit, forwarder, EventInv
  <2> QED BY <2>2, <2>3, <2>4, <2>5, <2>6
<1>17. ASSUME NEW i \in Servers, Leave(i)
      PROVE  IInv'
  <2> USE <1>17 DEF IInv
  <2>1. PICK t \in Publishers : EnterPublish(i, t)
    BY DEF Leave, Publishers
  <2>2. TypeOK'
    <3>1. live[i] > 0 /\ live[i] - 1 \in 0..MaxLive
      BY DEF Leave, TypeOK
    <3> QED BY <2>1, <3>1, EnterTyped DEF Leave, forwarder, command, history, TypeOK
  <2>3. CommandInv'
    BY DEF Leave, forwarder, command, history, CommandInv, TypeOK
  <2>4. ServerInv'
    <3>1. life[i] # "unborn" /\ fwd[i] # "ended"
      BY DEF Leave, IsRunning, ServerInv, TypeOK
    <3>2. \A j \in Servers : j # i => Publishing(j)' = Publishing(j)
      BY <2>1, EnteredPublishing
    <3> QED BY <3>1, <3>2 DEF Leave, forwarder, command, history, ServerInv, TypeOK
  <2>5. NoOrphan'
    BY DEF Leave, forwarder, command, history, NoOrphan, TypeOK, Held, IsRunning
  <2>6. EventInv'
    BY DEF Leave, forwarder, EventInv
  <2> QED BY <2>2, <2>3, <2>4, <2>5, <2>6
<1>18. ASSUME NEW i \in Servers, LoopEnds(i)
      PROVE  IInv'
  <2> USE <1>18 DEF IInv
  <2>1. PICK t \in Publishers : EnterPublish(i, t)
    BY DEF LoopEnds, Publishers
  <2>2. TypeOK'
    <3>1. IsRunning(i)
      BY DEF LoopEnds
    <3> QED BY <2>1, <3>1, EnterTyped DEF LoopEnds, forwarder, command, history, TypeOK
  <2>3. CommandInv'
    BY DEF LoopEnds, IsRunning, forwarder, command, history, CommandInv, TypeOK
  <2>4. ServerInv'
    <3>1. life[i] # "unborn" /\ fwd[i] # "ended"
      BY DEF LoopEnds, IsRunning, ServerInv, TypeOK
    <3>2. \A j \in Servers : j # i => Publishing(j)' = Publishing(j)
      BY <2>1, EnteredPublishing
    <3> QED BY <3>1, <3>2 DEF LoopEnds, IsRunning, forwarder, command, history, ServerInv, TypeOK
  <2>5. NoOrphan'
    BY DEF LoopEnds, IsRunning, forwarder, command, history, NoOrphan, TypeOK, Held
  <2>6. EventInv'
    BY DEF LoopEnds, forwarder, EventInv
  <2> QED BY <2>2, <2>3, <2>4, <2>5, <2>6
<1>19. ASSUME NEW i \in Servers, Close(i)
      PROVE  IInv'
  <2> USE <1>19 DEF IInv
  <2>1. TypeOK'
    BY StatusTyped DEF Close, forwarder, command, history, TypeOK, Status,
           Stopped
  <2>2. CommandInv'
    BY DEF Close, forwarder, command, history, CommandInv, TypeOK
  <2>3. ServerInv'
    BY DEF Close, forwarder, command, history, ServerInv, Publishing, CommandInv, TypeOK
  <2>4. NoOrphan'
    BY DEF Close, forwarder, command, history, NoOrphan, ServerInv,
           CommandInv, TypeOK, Held, IsRunning
  <2>5. EventInv'
    BY DEF Close, forwarder, command, history, EventInv, ServerInv,
           CommandInv, TypeOK, IsRunning, Stopped
  <2> QED BY <2>1, <2>2, <2>3, <2>4, <2>5
<1>20. ASSUME NEW i \in Servers, NEW t \in Publishers,
              LoadRunning(i, t) \/ LoadSessions(i, t)
       PROVE  IInv'
  <2> USE DEF IInv
  <2>1. PICK r \in Publish : /\ r.at # "idle" /\ t \in Publishing(i)
                             /\ pub' = [pub EXCEPT ![i][t] = r]
    <3>1. pub[i][t] \in Publish /\ live[i] \in 0..MaxLive /\ IsRunning(i) \in BOOLEAN
      BY DEF TypeOK, IsRunning
    <3>2. CASE LoadRunning(i, t)
      <4>1. [at |-> "sessions", running |-> IsRunning(i), sessions |-> 0]
              \in Publish
        BY <3>1 DEF Publish
      <4> QED BY <3>2, <4>1 DEF LoadRunning, Publishing
    <3>3. CASE LoadSessions(i, t)
      <4>1. [at |-> "replace", running |-> pub[i][t].running,
             sessions |-> live[i]] \in Publish
        BY <3>1 DEF Publish
      <4> QED BY <3>3, <4>1 DEF LoadSessions, Publishing
    <3> QED BY <1>20, <3>2, <3>3
  <2>2. /\ UNCHANGED <<slot, server, watch, unseen, overlapped, forwarder, ui>>
        /\ UNCHANGED <<command, history>>
    BY <1>20 DEF LoadRunning, LoadSessions
  <2>3. TypeOK'
    BY <2>1, <2>2 DEF TypeOK, server, forwarder, command, history
  <2>4. \A j \in Servers : Publishing(j)' = Publishing(j)
    <3>1. /\ \A j \in Servers : j # i => Publishing(j)' = Publishing(j)
          /\ Publishing(i)' = Publishing(i) \cup {t}
      BY <2>1, PublishingAfter
    <3> QED BY <2>1, <3>1
  <2>5. CommandInv' /\ ServerInv' /\ NoOrphan' /\ EventInv'
    BY <2>2, <2>4 DEF server, forwarder, command, history, CommandInv,
           ServerInv, NoOrphan, EventInv, IsRunning, Held
  <2> QED BY <2>3, <2>5
<1>21. ASSUME NEW i \in Servers, NEW t \in Publishers, Replace(i, t)
       PROVE  IInv'
  <2> USE DEF IInv
  <2>1. /\ pub' = [pub EXCEPT ![i][t] = NoPublish]
        /\ NoPublish \in Publish /\ NoPublish.at = "idle"
    BY <1>21 DEF Replace, NoPublish, Publish
  <2>2. TypeOK'
    <3>1. pub[i][t] \in Publish
      BY DEF TypeOK
    <3>2. [running |-> pub[i][t].running, sessions |-> pub[i][t].sessions]
            \in Status
      BY <3>1 DEF Publish, Status
    <3> QED BY <1>21, <2>1, <3>2 DEF Replace, TypeOK, server, forwarder,
               command, history
  <2>3. t \in Publishing(i)
    BY <1>21 DEF Replace, Publishing
  <2>4. \A j \in Servers : Publishing(j)' \subseteq Publishing(j)
    <3>1. /\ \A j \in Servers : j # i => Publishing(j)' = Publishing(j)
          /\ Publishing(i)' = Publishing(i) \ {t}
      BY <2>1, PublishingAfter
    <3> QED BY <3>1
  <2>5. CommandInv' /\ ServerInv' /\ NoOrphan'
    BY <1>21, <2>4 DEF Replace, server, forwarder, command, history,
           CommandInv, ServerInv, NoOrphan, IsRunning, Held
  <2>6. EventInv'
    <3> SUFFICES ASSUME NEW j \in Servers,
                        \/ fwd[j] \in {"emit", "wait"} /\ j \notin unseen'
                        \/ fwd[j] = "ended"
                 PROVE  got[j] = Shown(watch'[j])
      BY <1>21 DEF Replace, forwarder, EventInv, Shown
    <3>1. j # i
      BY <1>21, <2>3 DEF Replace, ServerInv
    <3>2. watch'[j] = watch[j] /\ (j \in unseen' <=> j \in unseen)
      BY <1>21, <3>1 DEF Replace, TypeOK
    <3> QED BY <3>2 DEF EventInv
  <2> QED BY <2>2, <2>5, <2>6
<1>22. CASE UNCHANGED vars
  BY <1>22 DEF IInv, TypeOK, CommandInv, ServerInv, Publishing, NoOrphan, EventInv,
              Held, IsRunning, vars, server, forwarder,
              command, history
<1> QED
  BY <1>1, <1>2, <1>3, <1>4, <1>5, <1>6, <1>7, <1>8, <1>9, <1>10, <1>11,
     <1>12, <1>13, <1>14, <1>15, <1>16, <1>17, <1>18, <1>19, <1>20,
     <1>21, <1>22
  DEF Next, Issue, Proceed, Forward, Serve, Send

LEMMA InvariantHolds == Safety => []IInv
BY InitIInv, NextIInv, PTL DEF Safety

\* The slot, the commands, the forwarders and the page keep their types.
THEOREM TypeCorrect == Safety => []TypeOK
<1>1. IInv => TypeOK
  BY DEF IInv
<1> QED BY <1>1, InvariantHolds, PTL

\* However commands overlap, no running server is left that no handle reaches
\* (start and stop commands of lib.rs).
THEOREM NoServerLost == Safety => []NoOrphan
<1>1. IInv => NoOrphan
  BY DEF IInv
<1> QED BY <1>1, InvariantHolds, PTL

-----------------------------------------------------------------------------
(* The watch channels: what is stored, and what is about to be.            *)

\* Nobody has read or stored that the flag has fallen while it has not.
FlagInv ==
  \A i \in Servers :
    /\ ~watch[i].running => ~IsRunning(i)
    /\ \A t \in Publishing(i) :
         pub[i][t].at # "running" /\ ~pub[i][t].running => ~IsRunning(i)

\* While no two publishes of a server overlap, what the only one has read is
\* how the server is, and between two of them that is what is stored.
StoreInv ==
  \A i \in Servers : i \notin overlapped =>
    /\ \A t, u \in Publishing(i) : t = u
    /\ \A t \in Publishing(i) :
         /\ pub[i][t].at # "running" => pub[i][t].running = IsRunning(i)
         /\ pub[i][t].at = "replace" => pub[i][t].sessions = live[i]
    /\ Publishing(i) = {} => watch[i] = Actual(i)

ChannelInv == FlagInv /\ StoreInv

LEMMA InitChannelInv == Init => ChannelInv
<1> SUFFICES ASSUME Init PROVE ChannelInv
  OBVIOUS
<1>1. ASSUME NEW i \in Servers
      PROVE  /\ Publishing(i) = {} /\ ~IsRunning(i)
             /\ watch[i] = Actual(i)
  <2>1. Publishing(i) = {}
    BY DEF Init, Publishing, NoPublish
  <2>2. IsRunning(i) = FALSE
    BY DEF Init, IsRunning
  <2> QED BY <2>1, <2>2 DEF Init, Actual, Stopped
<1> QED BY <1>1 DEF ChannelInv, FlagInv, StoreInv

\* A server changes and enters a publish.
LEMMA ChannelEntered ==
  ASSUME IInv, ChannelInv, NEW i \in Servers, NEW t \in Publishers,
         t \notin Publishing(i), EnterPublish(i, t), UNCHANGED watch,
         IsRunning(i)' => IsRunning(i),
         \A j \in Servers \ {i} :
           IsRunning(j)' = IsRunning(j) /\ live'[j] = live[j]
  PROVE  ChannelInv'
<1>1. TypeOK
  BY DEF IInv
<1>2. /\ \A j \in Servers :
           /\ j # i => Publishing(j)' = Publishing(j)
           /\ j = i => Publishing(j)' = Publishing(i) \cup {t}
      /\ pub'[i][t].at = "running"
  BY <1>1, EnteredPublishing
<1>3. \A j \in Servers : \A u \in Publishing(j) : pub'[j][u] = pub[j][u]
  BY <1>1 DEF EnterPublish, TypeOK, Publishing
<1>4. \A j \in Servers : j \notin overlapped' =>
        j \notin overlapped /\ (j = i => Publishing(i) = {})
  BY DEF EnterPublish
<1>5. FlagInv'
  BY <1>2, <1>3 DEF ChannelInv, FlagInv
<1>6. StoreInv'
  <2> SUFFICES ASSUME NEW j \in Servers, j \notin overlapped'
               PROVE  /\ \A u, v \in Publishing(j)' : u = v
                      /\ \A u \in Publishing(j)' :
                           /\ pub'[j][u].at # "running" =>
                                pub'[j][u].running = IsRunning(j)'
                           /\ pub'[j][u].at = "replace" =>
                                pub'[j][u].sessions = live'[j]
                      /\ Publishing(j)' = {} => watch'[j] = Actual(j)'
    BY DEF StoreInv
  <2>1. CASE j = i
    BY <1>2, <1>4, <2>1
  <2>2. CASE j # i
    <3>1. Actual(j)' = Actual(j)
      BY <2>2 DEF Actual
    <3> QED BY <1>2, <1>3, <1>4, <2>2, <3>1 DEF ChannelInv, StoreInv
  <2> QED BY <2>1, <2>2
<1> QED BY <1>5, <1>6 DEF ChannelInv

\* One step of a publish, or nothing that a channel is about.
LEMMA ChannelSent ==
  ASSUME IInv, ChannelInv, NEW i \in Servers, NEW t \in Publishers, Send(i, t)
  PROVE  ChannelInv'
<1>1. TypeOK
  BY DEF IInv
<1>2. t \in Publishing(i) /\ UNCHANGED <<life, live, overlapped>>
  BY DEF Send, LoadRunning, LoadSessions, Replace, Publishing, server
<1>3. \A j \in Servers : IsRunning(j)' = IsRunning(j) /\ Actual(j)' = Actual(j)
  BY <1>2 DEF IsRunning, Actual
<1>4. \A j \in Servers, u \in Publishers : j # i \/ u # t => pub'[j][u] = pub[j][u]
  BY <1>1 DEF Send, LoadRunning, LoadSessions, Replace, TypeOK
<1>5. \A j \in Servers : Publishing(j) \subseteq Publishers
  BY DEF Publishing
<1>6. CASE LoadRunning(i, t)
  <2>1. /\ UNCHANGED watch
        /\ pub'[i][t] = [at |-> "sessions", running |-> IsRunning(i), sessions |-> 0]
    BY <1>1, <1>6 DEF LoadRunning, TypeOK
  <2>2. \A j \in Servers : Publishing(j)' = Publishing(j)
    BY <1>2, <1>4, <2>1 DEF Publishing
  <2>3. FlagInv'
    BY <1>3, <1>4, <1>5, <2>1, <2>2 DEF ChannelInv, FlagInv
  <2>4. StoreInv'
    BY <1>2, <1>3, <1>4, <1>5, <2>1, <2>2 DEF ChannelInv, StoreInv
  <2> QED BY <2>3, <2>4 DEF ChannelInv
<1>7. CASE LoadSessions(i, t)
  <2>1. /\ UNCHANGED watch /\ pub[i][t].at = "sessions"
        /\ pub'[i][t] = [at |-> "replace", running |-> pub[i][t].running,
                         sessions |-> live[i]]
    BY <1>1, <1>7 DEF LoadSessions, TypeOK
  <2>2. \A j \in Servers : Publishing(j)' = Publishing(j)
    BY <1>2, <1>4, <2>1 DEF Publishing
  <2>3. FlagInv'
    BY <1>2, <1>3, <1>4, <1>5, <2>1, <2>2 DEF ChannelInv, FlagInv
  <2>4. StoreInv'
    BY <1>2, <1>3, <1>4, <1>5, <2>1, <2>2 DEF ChannelInv, StoreInv
  <2> QED BY <2>3, <2>4 DEF ChannelInv
<1>8. CASE Replace(i, t)
  <2>1. /\ pub[i][t].at = "replace" /\ pub'[i][t].at = "idle"
        /\ watch'[i] = [running |-> pub[i][t].running, sessions |-> pub[i][t].sessions]
        /\ \A j \in Servers \ {i} : watch'[j] = watch[j]
    BY <1>1, <1>8 DEF Replace, TypeOK, NoPublish
  <2>2. \A j \in Servers : Publishing(j)' = IF j = i THEN Publishing(i) \ {t}
                                                     ELSE Publishing(j)
    BY <1>2, <1>4, <2>1 DEF Publishing
  <2>3. FlagInv'
    BY <1>2, <1>3, <1>4, <1>5, <2>1, <2>2 DEF ChannelInv, FlagInv
  <2>4. StoreInv'
    <3>1. i \notin overlapped => Publishing(i)' = {} /\ watch'[i] = Actual(i)
      BY <1>2, <2>1, <2>2 DEF ChannelInv, StoreInv, Actual
    <3> QED BY <1>2, <1>3, <1>4, <1>5, <2>1, <2>2, <3>1 DEF ChannelInv, StoreInv
  <2> QED BY <2>3, <2>4 DEF ChannelInv
<1> QED BY <1>6, <1>7, <1>8 DEF Send

LEMMA NextChannelInv == IInv /\ ChannelInv /\ [Next]_vars => ChannelInv'
<1> SUFFICES ASSUME IInv, ChannelInv, [Next]_vars PROVE ChannelInv'
  OBVIOUS
<1>1. TypeOK /\ ServerInv
  BY DEF IInv
<1>2. ASSUME UNCHANGED <<watch, pub, overlapped, live>>,
             \A j \in Servers : IsRunning(j)' = IsRunning(j)
      PROVE  ChannelInv'
  BY <1>2 DEF ChannelInv, FlagInv, StoreInv, Publishing, Actual
<1>3. ASSUME NEW c \in Callers, NEW i \in Servers, Bind(c, i) PROVE ChannelInv'
  <2>1. /\ life' = [life EXCEPT ![i] = "up"] /\ life[i] = "unborn"
        /\ watch' = [watch EXCEPT ![i] = [running |-> TRUE, sessions |-> 0]]
        /\ UNCHANGED <<pub, overlapped, live>>
    BY <1>3 DEF Bind
  <2>2. Publishing(i) = {} /\ live[i] = 0
    BY <1>1, <2>1 DEF ServerInv
  <2>3. \A j \in Servers : Publishing(j)' = Publishing(j)
    BY <2>1 DEF Publishing
  <2>4. /\ IsRunning(i)' /\ watch'[i] = Actual(i)' /\ watch'[i].running
        /\ \A j \in Servers : j # i => /\ IsRunning(j)' = IsRunning(j)
                                       /\ Actual(j)' = Actual(j)
                                       /\ watch'[j] = watch[j]
    BY <1>1, <2>1, <2>2 DEF TypeOK, IsRunning, Actual
  <2>5. FlagInv'
    BY <2>1, <2>2, <2>3, <2>4 DEF ChannelInv, FlagInv
  <2>6. StoreInv'
    BY <2>1, <2>2, <2>3, <2>4 DEF ChannelInv, StoreInv
  <2> QED BY <2>5, <2>6 DEF ChannelInv
<1>4. ASSUME NEW c \in Callers, Issue(c) \/ Proceed(c),
             \A i \in Servers : ~Bind(c, i)
      PROVE  ChannelInv'
  <2>1. UNCHANGED <<watch, pub, overlapped, live, life>>
    BY <1>4 DEF Issue, Proceed, BeginStart, RefuseStart, BeginStop, RefuseStop,
       BeginRefresh, BindFails, Store, EndStop, Ask, Reply, channel, server
  <2> QED BY <1>2, <2>1 DEF IsRunning
<1>5. ASSUME NEW i \in Servers, Forward(i) PROVE ChannelInv'
  <2>1. UNCHANGED <<watch, pub, overlapped, live, life>>
    BY <1>5 DEF Forward, ReadState, Emit, Changed, Gone, channel, server
  <2> QED BY <1>2, <2>1 DEF IsRunning
<1>6. ASSUME NEW i \in Servers, Admit(i) PROVE ChannelInv'
  <2>1. /\ Loop \in Publishers \ Publishing(i) /\ EnterPublish(i, Loop)
        /\ live' = [live EXCEPT ![i] = live[i] + 1] /\ UNCHANGED <<watch, life>>
    BY <1>6 DEF Admit, Publishers
  <2>2. /\ IsRunning(i)' => IsRunning(i)
        /\ \A j \in Servers \ {i} :
             IsRunning(j)' = IsRunning(j) /\ live'[j] = live[j]
    BY <1>1, <2>1 DEF TypeOK, IsRunning
  <2> QED BY <2>1, <2>2, ChannelEntered
<1>7. ASSUME NEW i \in Servers, Leave(i) PROVE ChannelInv'
  <2>1. PICK t \in Publishers \ Publishing(i) : EnterPublish(i, t)
    BY <1>7 DEF Leave, Publishers
  <2>2. live' = [live EXCEPT ![i] = live[i] - 1] /\ UNCHANGED <<watch, life>>
    BY <1>7 DEF Leave
  <2>3. /\ IsRunning(i)' => IsRunning(i)
        /\ \A j \in Servers \ {i} :
             IsRunning(j)' = IsRunning(j) /\ live'[j] = live[j]
    BY <1>1, <2>2 DEF TypeOK, IsRunning
  <2> QED BY <2>1, <2>2, <2>3, ChannelEntered
<1>8. ASSUME NEW i \in Servers, LoopEnds(i) PROVE ChannelInv'
  <2>1. /\ Loop \in Publishers \ Publishing(i) /\ EnterPublish(i, Loop)
        /\ UNCHANGED <<watch, live>> /\ IsRunning(i)
        /\ \A j \in Servers \ {i} : life'[j] = life[j]
    BY <1>1, <1>8 DEF LoopEnds, Publishers, TypeOK
  <2> QED BY <2>1, ChannelEntered DEF IsRunning
<1>9. ASSUME NEW i \in Servers, Close(i) PROVE ChannelInv'
  <2>1. UNCHANGED <<watch, pub, overlapped, live>>
    BY <1>9 DEF Close, channel
  <2>2. \A j \in Servers : IsRunning(j)' = IsRunning(j)
    BY <1>1, <1>9 DEF Close, TypeOK, IsRunning
  <2> QED BY <1>2, <2>1, <2>2
<1>10. CASE UNCHANGED vars
  BY <1>2, <1>10 DEF vars, channel, server, IsRunning
<1> QED
  BY <1>3, <1>4, <1>5, <1>6, <1>7, <1>8, <1>9, <1>10, ChannelSent
  DEF Next, Serve

LEMMA ChannelHolds == Safety => []ChannelInv
BY InitChannelInv, NextChannelInv, InvariantHolds, PTL DEF Safety

LEMMA EventIsLast == IInv /\ ChannelInv => LastEventCurrent
BY DEF IInv, EventInv, ChannelInv, StoreInv, LastEventCurrent, StatusOf

\* What a forwarder sent last is what was stored last, and how its server is
\* unless two publishes of it overlapped (lib.rs:441-445).
THEOREM LastEventCorrect == Safety => []LastEventCurrent
BY EventIsLast, InvariantHolds, ChannelHolds, PTL


-----------------------------------------------------------------------------
(* A server that is gone is gone for good.                                 *)

\* No handle, no loop, no session, no forwarder.
Vanished(i) == Closed(i) /\ fwd[i] = "ended"

\* Nothing brings back a server that is gone, and the page hears no more of it,
\* however commands overlap: once reached, the end that ToldServersVanish
\* promises is never left.
VanishedForGood ==
  [][\A i \in Servers : Vanished(i) =>
       /\ Vanished(i)' /\ got'[i] = Shown(watch'[i])
       /\ i \notin overlapped' => got'[i] = Stopped
       /\ ui'.from = i => ui' = ui]_vars

\* A step that gives nobody a handle.
LEMMA NoNewHandle ==
  ASSUME NEW i \in Servers, ~Held(i), slot' \in {slot, None},
         \A c \in Cards : pc'[c] \in {"storing", "joining"} =>
           pc[c] = pc'[c] /\ arg'[c] = arg[c]
  PROVE  ~Held(i)'
BY NoneAssumption DEF Held

\* The command that lets go of a server, or takes another one.
LEMMA StillNotHeld ==
  ASSUME IInv, NEW i \in Servers, Vanished(i), NEW c \in Callers,
         Issue(c) \/ Proceed(c)
  PROVE  ~Held(i)'
<1>1. ~Held(i) /\ life[i] = "down" /\ slot # i
  BY DEF Vanished, Closed, Held
<1>2. /\ pc \in [Callers -> {"idle", "binding", "storing", "joining", "ask",
                            "reply"}]
      /\ arg \in [Callers -> Servers \cup Ports \cup {None}]
  BY DEF IInv, TypeOK
<1> USE <1>1, <1>2, CardsAreCallers
<1>3. ASSUME NEW p \in Ports, BeginStart(c, p) PROVE ~Held(i)'
  BY <1>3, NoNewHandle DEF BeginStart, Goto
<1>4. CASE \/ RefuseStart(c) \/ RefuseStop(c) \/ BeginRefresh(c) \/ BindFails(c)
           \/ EndStop(c) \/ Reply(c)
  BY <1>4, NoNewHandle DEF RefuseStart, RefuseStop, BeginRefresh, BindFails,
     EndStop, Reply, Finish, Goto
<1>5. CASE Ask(c)
  BY <1>5, NoNewHandle DEF Ask, Goto
<1>6. CASE BeginStop(c)
  BY <1>6, NoneAssumption DEF BeginStop, Goto, Held
<1>7. CASE Store(c)
  <2>1. c \in Cards /\ arg[c] # i
    BY <1>7 DEF IInv, CommandInv, Store, Held
  <2> QED BY <1>7, <2>1, NoneAssumption DEF Store, Finish, Goto, Held
<1>8. ASSUME NEW j \in Servers, Bind(c, j) PROVE ~Held(i)'
  <2>1. i # j
    BY <1>8 DEF Bind
  <2> QED BY <1>8, <2>1 DEF Bind, Goto, Held
<1> QED BY <1>3, <1>4, <1>5, <1>6, <1>7, <1>8 DEF Issue, Proceed

LEMMA VanishedNext ==
  ASSUME IInv, [Next]_vars, NEW i \in Servers, Vanished(i)
  PROVE  Vanished(i)' /\ (ui'.from = i => ui' = ui)
<1>1. /\ ~Held(i) /\ life[i] = "down" /\ live[i] = 0 /\ fwd[i] = "ended"
      /\ Publishing(i) = {}
  BY DEF Vanished, Closed
<1>2. /\ life \in [Servers -> {"unborn", "up", "closing", "dying", "down"}]
      /\ live \in [Servers -> 0..MaxLive] /\ TypeOK
      /\ fwd \in [Servers -> {"none", "read", "emit", "wait", "ended"}]
  BY DEF IInv, TypeOK
<1> DEFINE Same == life'[i] = "down" /\ live'[i] = 0 /\ fwd'[i] = "ended"
           Mute == ui'.from = i => ui' = ui
<1> USE <1>1, <1>2
<1>3. UNCHANGED pub => Publishing(i)' = {}
  BY DEF Publishing
<1>4. ASSUME NEW c \in Callers, Issue(c) \/ Proceed(c)
      PROVE  Same /\ Mute /\ UNCHANGED pub
  <2>1. CASE Store(c)
    <3>1. arg[c] # i
      BY <2>1 DEF IInv, CommandInv, Store, Held
    <3> QED BY <2>1, <3>1 DEF Store, channel
  <2>2. CASE Reply(c)
    BY <2>2, NoneAssumption DEF Reply, server, forwarder, channel
  <2>3. ASSUME NEW j \in Servers, Bind(c, j) PROVE Same /\ Mute /\ UNCHANGED pub
    BY <2>3 DEF Bind, forwarder
  <2>4. CASE \/ RefuseStart(c) \/ RefuseStop(c) \/ BeginRefresh(c)
             \/ BindFails(c) \/ EndStop(c) \/ Ask(c) \/ BeginStop(c)
             \/ \E p \in Ports : BeginStart(c, p)
    BY <2>4 DEF RefuseStart, RefuseStop, BeginRefresh, BindFails, EndStop, Ask,
       BeginStop, BeginStart, server, forwarder, channel
  <2> QED BY <1>4, <2>1, <2>2, <2>3, <2>4 DEF Issue, Proceed
<1>5. ASSUME NEW j \in Servers, Forward(j) PROVE Same /\ Mute /\ UNCHANGED pub
  BY <1>5 DEF Forward, ReadState, Emit, Changed, Gone, server, forwarder, channel
<1>6. ASSUME NEW j \in Servers, Serve(j)
      PROVE  Same /\ Mute /\ Publishing(i)' = {}
  <2>1. j # i \/ Close(j)
    BY <1>6 DEF Serve, Admit, Leave, LoopEnds, IsRunning
  <2>2. Same /\ Mute
    BY <1>6, <2>1 DEF Serve, Admit, Leave, LoopEnds, Close, IsRunning, forwarder
  <2>3. CASE Close(j)
    BY <1>3, <2>2, <2>3 DEF Close, channel
  <2>4. ASSUME j # i, NEW t \in Publishers, EnterPublish(j, t)
        PROVE  Publishing(i)' = {}
    <3>1. Publishing(i)' = Publishing(i)
      BY <2>4, EnteredPublishing
    <3> QED BY <3>1
  <2> QED BY <1>6, <2>1, <2>2, <2>3, <2>4
          DEF Serve, Admit, Leave, LoopEnds, Publishers
<1>7. ASSUME NEW j \in Servers, NEW t \in Publishers, Send(j, t)
      PROVE  Same /\ Mute /\ Publishing(i)' = {}
  <2>1. j # i
    BY <1>7 DEF Send, LoadRunning, LoadSessions, Replace, Publishing
  <2>2. PICK r : pub' = [pub EXCEPT ![j][t] = r]
    BY <1>7 DEF Send, LoadRunning, LoadSessions, Replace
  <2>3. Publishing(i)' = Publishing(i)
    BY <2>1, <2>2, PublishingAfter
  <2> QED BY <1>7, <2>3 DEF Send, LoadRunning, LoadSessions, Replace, server, forwarder
<1>8. ASSUME NEW j \in Servers,
             Forward(j) \/ Serve(j) \/ \E t \in Publishers : Send(j, t)
      PROVE  ~Held(i)'
  BY <1>8 DEF Forward, Serve, Send, ReadState, Emit, Changed, Gone, Admit, Leave,
     LoopEnds, Close, LoadRunning, LoadSessions, Replace, command, Held
<1>9. CASE UNCHANGED vars
  BY <1>9 DEF vars, server, forwarder, command, channel, Vanished, Closed, Held,
     Publishing
<1>10. ASSUME Same /\ Mute /\ Publishing(i)' = {} /\ ~Held(i)'
       PROVE  Vanished(i)' /\ Mute
  BY <1>10 DEF Vanished, Closed
<1>11. ASSUME NEW c \in Callers, Issue(c) \/ Proceed(c)
       PROVE  Vanished(i)' /\ Mute
  BY <1>4, <1>3, <1>10, <1>11, StillNotHeld
<1>12. ASSUME NEW j \in Servers,
              Forward(j) \/ Serve(j) \/ \E t \in Publishers : Send(j, t)
       PROVE  Vanished(i)' /\ Mute
  BY <1>5, <1>6, <1>7, <1>8, <1>3, <1>10, <1>12
<1> QED
  BY <1>9, <1>11, <1>12 DEF Next

\* The safety half of ToldServersVanish.
THEOREM GoneForGood == Safety => VanishedForGood
<1>1. IInv /\ [Next]_vars /\ IInv' /\ ChannelInv' =>
        [\A i \in Servers : Vanished(i) =>
           /\ Vanished(i)' /\ got'[i] = Shown(watch'[i])
           /\ i \notin overlapped' => got'[i] = Stopped
           /\ ui'.from = i => ui' = ui]_vars
  <2> SUFFICES ASSUME IInv, [Next]_vars, IInv', ChannelInv',
                      NEW i \in Servers, Vanished(i)
               PROVE  /\ Vanished(i)' /\ got'[i] = Shown(watch'[i])
                      /\ i \notin overlapped' => got'[i] = Stopped
                      /\ ui'.from = i => ui' = ui
    OBVIOUS
  <2>1. Vanished(i)' /\ (ui'.from = i => ui' = ui)
    BY VanishedNext
  <2>2. /\ got'[i] = Shown(watch[i])'
        /\ i \notin overlapped' => got'[i] = Stopped'
    BY <2>1 DEF IInv, EventInv, ChannelInv, StoreInv, Vanished, Closed, Actual,
       Shown, Stopped, IsRunning
  <2> QED BY <2>1, <2>2 DEF Shown, Stopped
<1> QED BY <1>1, InvariantHolds, ChannelHolds, PTL DEF Safety, VanishedForGood

-----------------------------------------------------------------------------
(* One start or stop at a time: the busy flag of the only page.            *)

OneCard == \A c, d \in Cards : c = d

\* A server that holds a port died by itself, or somebody has its handle; the
\* one in the slot was not told to stop; the slot is empty during a start.
PortInv ==
  /\ \A i \in Servers : life[i] \in {"up", "closing"} => Held(i)
  /\ \A i \in Servers : life[i] = "closing" => i \in asked
  /\ slot \notin asked
  /\ \A c \in Cards :
       pc[c] \in {"binding", "storing", "joining"} => slot = None
  /\ \A c \in Cards : pc[c] = "storing" => arg[c] \notin asked

CardInv == PortInv /\ LiveServerKept

\* Each step keeps it.
LEMMA NextCardInv ==
  ASSUME OneCard PROVE IInv /\ CardInv /\ [Next]_vars => CardInv'
<1> SUFFICES ASSUME IInv, CardInv, [Next]_vars PROVE CardInv'
  OBVIOUS
<1> USE CardsAreCallers, NoneAssumption DEF IInv, channel
<1>1. ASSUME NEW c \in Callers, NEW p \in Ports, BeginStart(c, p)
      PROVE  CardInv'
  <2> USE <1>1 DEF CardInv
  <2>1. PortInv'
    BY DEF BeginStart, Goto, Told, SlotRuns, forwarder, history, IsRunning,
           PortInv, ServerInv, CommandInv, TypeOK, Held, OneCard
  <2>2. LiveServerKept'
    BY DEF BeginStart, Goto, Told, SlotRuns, forwarder, history, IsRunning,
           LiveServerKept, PortInv, CommandInv, TypeOK
  <2> QED BY <2>1, <2>2
<1>2. ASSUME NEW c \in Callers, RefuseStart(c)
      PROVE  CardInv'
  <2> USE <1>2 DEF CardInv
  <2>1. PortInv'
    BY DEF RefuseStart, Goto, SlotRuns, server, forwarder, history,
           IsRunning, PortInv, ServerInv, CommandInv, TypeOK, Held, OneCard
  <2>2. LiveServerKept'
    BY DEF RefuseStart, Goto, SlotRuns, server, forwarder, history,
           IsRunning, LiveServerKept, PortInv, CommandInv, TypeOK
  <2> QED BY <2>1, <2>2
<1>3. ASSUME NEW c \in Callers, BeginStop(c)
      PROVE  CardInv'
  <2> USE <1>3 DEF CardInv
  <2>1. PortInv'
    BY DEF BeginStop, Goto, Told, forwarder, history, PortInv, ServerInv,
           CommandInv, TypeOK, Held, IsRunning, OneCard
  <2>2. LiveServerKept'
    BY DEF BeginStop, Goto, Told, forwarder, history, LiveServerKept,
           PortInv, CommandInv, TypeOK
  <2> QED BY <2>1, <2>2
<1>4. ASSUME NEW c \in Callers, RefuseStop(c)
      PROVE  CardInv'
  <2> USE <1>4 DEF CardInv
  <2>1. PortInv'
    BY DEF RefuseStop, Goto, server, forwarder, history, PortInv, ServerInv,
           CommandInv, TypeOK, Held, IsRunning, OneCard
  <2>2. LiveServerKept'
    BY DEF RefuseStop, Goto, server, forwarder, history, LiveServerKept,
           PortInv, CommandInv, TypeOK
  <2> QED BY <2>1, <2>2
<1>5. ASSUME NEW c \in Callers, BeginRefresh(c)
      PROVE  CardInv'
  <2> USE <1>5 DEF CardInv
  <2>1. PortInv'
    BY DEF BeginRefresh, Goto, server, forwarder, history, PortInv,
           ServerInv, CommandInv, TypeOK, Held, IsRunning, OneCard
  <2>2. LiveServerKept'
    BY DEF BeginRefresh, Goto, server, forwarder, history, LiveServerKept,
           PortInv, CommandInv, TypeOK
  <2> QED BY <2>1, <2>2
<1>6. ASSUME NEW c \in Callers, NEW i \in Servers, Bind(c, i)
      PROVE  CardInv'
  <2> USE <1>6 DEF CardInv
  <2>1. PortInv'
    BY DEF Bind, Goto, PortTaken, forwarder, history, PortInv, ServerInv,
           CommandInv, TypeOK, Held, IsRunning, OneCard
  <2>2. LiveServerKept'
    BY DEF Bind, Goto, PortTaken, forwarder, history, LiveServerKept,
           PortInv, CommandInv, TypeOK
  <2> QED BY <2>1, <2>2
<1>7. ASSUME NEW c \in Callers, BindFails(c)
      PROVE  CardInv'
  <2> USE <1>7 DEF CardInv
  <2>1. PortInv'
    BY DEF BindFails, Finish, server, forwarder, history, Goto, PortInv,
           ServerInv, CommandInv, TypeOK, Held, IsRunning, OneCard
  <2>2. LiveServerKept'
    BY DEF BindFails, Finish, server, forwarder, history, Goto,
           LiveServerKept, PortInv, CommandInv, TypeOK
  <2> QED BY <2>1, <2>2
<1>8. ASSUME NEW c \in Callers, Store(c)
      PROVE  CardInv'
  <2> USE <1>8 DEF CardInv
  <2>1. PortInv'
    BY DEF Store, Finish, Told, SlotRuns, Goto, IsRunning, PortInv,
           ServerInv, CommandInv, TypeOK, Held, OneCard
  <2>2. LiveServerKept'
    BY DEF Store, Finish, Told, SlotRuns, Goto, IsRunning, LiveServerKept,
           PortInv, CommandInv, TypeOK
  <2> QED BY <2>1, <2>2
<1>9. ASSUME NEW c \in Callers, EndStop(c)
      PROVE  CardInv'
  <2> USE <1>9 DEF CardInv
  <2>1. PortInv'
    BY DEF EndStop, Finish, server, forwarder, history, Goto, PortInv,
           ServerInv, CommandInv, TypeOK, Held, IsRunning, OneCard
  <2>2. LiveServerKept'
    BY DEF EndStop, Finish, server, forwarder, history, Goto, LiveServerKept,
           PortInv, CommandInv, TypeOK
  <2> QED BY <2>1, <2>2
<1>10. ASSUME NEW c \in Callers, Ask(c)
      PROVE  CardInv'
  <2> USE <1>10 DEF CardInv
  <2>1. PortInv'
    BY DEF Ask, Goto, Told, SlotRuns, forwarder, history,
           IsRunning, PortInv, ServerInv, CommandInv, TypeOK, Held, OneCard
  <2>2. LiveServerKept'
    BY DEF Ask, Goto, Told, SlotRuns, forwarder, history,
           IsRunning, LiveServerKept, PortInv, CommandInv, TypeOK
  <2> QED BY <2>1, <2>2
<1>11. ASSUME NEW c \in Callers, Reply(c)
      PROVE  CardInv'
  <2> USE <1>11 DEF CardInv
  <2>1. PortInv'
    BY DEF Reply, Goto, server, forwarder, history, PortInv, ServerInv,
           CommandInv, TypeOK, Held, IsRunning, OneCard
  <2>2. LiveServerKept'
    BY DEF Reply, Goto, server, forwarder, history, LiveServerKept, PortInv,
           CommandInv, TypeOK
  <2> QED BY <2>1, <2>2
<1>12. ASSUME NEW i \in Servers, ReadState(i)
      PROVE  CardInv'
  <2> USE <1>12 DEF CardInv
  <2>1. PortInv'
    BY DEF ReadState, server, command, history, IsRunning, PortInv,
           ServerInv, CommandInv, TypeOK, Held, OneCard
  <2>2. LiveServerKept'
    BY DEF ReadState, server, command, history, IsRunning,
           LiveServerKept, PortInv, CommandInv, TypeOK
  <2> QED BY <2>1, <2>2
<1>13. ASSUME NEW i \in Servers, Emit(i)
      PROVE  CardInv'
  <2> USE <1>13 DEF CardInv
  <2>1. PortInv'
    BY DEF Emit, server, command, history, PortInv, ServerInv, CommandInv,
           TypeOK, Held, IsRunning, OneCard
  <2>2. LiveServerKept'
    BY DEF Emit, server, command, history, LiveServerKept, PortInv,
           CommandInv, TypeOK
  <2> QED BY <2>1, <2>2
<1>14. ASSUME NEW i \in Servers, Changed(i)
      PROVE  CardInv'
  <2> USE <1>14 DEF CardInv
  <2>1. PortInv'
    BY DEF Changed, server, command, history, PortInv, ServerInv, CommandInv,
           TypeOK, Held, IsRunning, OneCard
  <2>2. LiveServerKept'
    BY DEF Changed, server, command, history, LiveServerKept, PortInv,
           CommandInv, TypeOK
  <2> QED BY <2>1, <2>2
<1>15. ASSUME NEW i \in Servers, Gone(i)
      PROVE  CardInv'
  <2> USE <1>15 DEF CardInv
  <2>1. PortInv'
    BY DEF Gone, Closed, server, command, history, Held, PortInv, ServerInv,
           CommandInv, TypeOK, IsRunning, OneCard
  <2>2. LiveServerKept'
    BY DEF Gone, Closed, server, command, history, Held, LiveServerKept,
           PortInv, CommandInv, TypeOK
  <2> QED BY <2>1, <2>2
<1>16. ASSUME NEW i \in Servers, Admit(i)
      PROVE  CardInv'
  <2> USE <1>16 DEF CardInv
  <2>1. PortInv'
    BY DEF Admit, IsRunning, forwarder, command, history, PortInv, ServerInv,
           CommandInv, TypeOK, Held, OneCard
  <2>2. LiveServerKept'
    BY DEF Admit, IsRunning, forwarder, command, history, LiveServerKept,
           PortInv, CommandInv, TypeOK
  <2> QED BY <2>1, <2>2
<1>17. ASSUME NEW i \in Servers, Leave(i)
      PROVE  CardInv'
  <2> USE <1>17 DEF CardInv
  <2>1. PortInv'
    BY DEF Leave, forwarder, command, history, PortInv, ServerInv,
           CommandInv, TypeOK, Held, IsRunning, OneCard
  <2>2. LiveServerKept'
    BY DEF Leave, forwarder, command, history, LiveServerKept, PortInv,
           CommandInv, TypeOK
  <2> QED BY <2>1, <2>2
<1>18. ASSUME NEW i \in Servers, LoopEnds(i)
      PROVE  CardInv'
  <2> USE <1>18 DEF CardInv
  <2>1. PortInv'
    BY DEF LoopEnds, IsRunning, forwarder, command, history, PortInv, ServerInv,
           CommandInv, TypeOK, Held, OneCard
  <2>2. LiveServerKept'
    BY DEF LoopEnds, IsRunning, forwarder, command, history, LiveServerKept, PortInv,
           CommandInv, TypeOK
  <2> QED BY <2>1, <2>2
<1>19. ASSUME NEW i \in Servers, Close(i)
      PROVE  CardInv'
  <2> USE <1>19 DEF CardInv
  <2>1. PortInv'
    BY DEF Close, forwarder, command, history, PortInv, ServerInv,
           CommandInv, TypeOK, Held, IsRunning, OneCard
  <2>2. LiveServerKept'
    BY DEF Close, forwarder, command, history, LiveServerKept, PortInv,
           CommandInv, TypeOK
  <2> QED BY <2>1, <2>2
<1>20. ASSUME NEW i \in Servers, NEW t \in Publishers, Send(i, t)
       PROVE  CardInv'
  <2>1. UNCHANGED <<slot, server, command, history>>
    BY <1>20 DEF Send, LoadRunning, LoadSessions, Replace
  <2> QED BY <2>1 DEF CardInv, PortInv, LiveServerKept, Held, server, command,
                  history
<1>21. CASE UNCHANGED vars
  BY <1>21 DEF CardInv, PortInv, LiveServerKept, Held, vars, server,
               forwarder, command, history
<1> QED
  BY <1>1, <1>2, <1>3, <1>4, <1>5, <1>6, <1>7, <1>8, <1>9, <1>10, <1>11,
     <1>12, <1>13, <1>14, <1>15, <1>16, <1>17, <1>18, <1>19, <1>20, <1>21
  DEF Next, Issue, Proceed, Forward, Serve

\* A start that is about to bind holds no handle, and no other card does.
LEMMA PortsFree ==
  ASSUME OneCard, IInv, CardInv
  PROVE  RestartFindsPortFree
<1> SUFFICES ASSUME NEW c \in Callers, pc[c] = "binding",
                    NEW i \in PortTaken(arg[c])
             PROVE  life[i] = "dying"
  BY DEF RestartFindsPortFree
<1>1. c \in Cards /\ slot = None
  BY DEF IInv, CommandInv, CardInv, PortInv
<1>2. ~Held(i)
  BY <1>1, NoneAssumption DEF OneCard, Held, PortTaken
<1> QED BY <1>2 DEF PortTaken, CardInv, PortInv

LEMMA CardInvHolds == ASSUME OneCard PROVE Safety => []CardInv
<1>1. Init => CardInv
  BY NoneAssumption, CardsAreCallers
  DEF Init, CardInv, PortInv, LiveServerKept
<1>2. IInv /\ CardInv /\ [Next]_vars => CardInv'
  BY NextCardInv
<1> QED BY <1>1, <1>2, InvariantHolds, PTL DEF Safety

\* One page that issues one command at a time never takes a running server
\* down with a start (lib.rs:193-195, 1025).
THEOREM StartKeepsServer == ASSUME OneCard PROVE Safety => []LiveServerKept
<1>1. CardInv => LiveServerKept
  BY DEF CardInv
<1> QED BY <1>1, CardInvHolds, PTL

\* With one page, a start never finds its port taken by a server of the slot
\* that was stopped (lib.rs:310).
THEOREM StopFreesPort ==
  ASSUME OneCard PROVE Safety => []RestartFindsPortFree
<1>1. IInv /\ CardInv => RestartFindsPortFree
  BY PortsFree
<1> QED BY <1>1, CardInvHolds, InvariantHolds, PTL

\* With one page that issues one command at a time, a start costs no running
\* server and a stop leaves nothing in the way of the next start.
THEOREM OneCardCorrect == ASSUME OneCard PROVE Safety => []OneCardIsSafe
<1>1. IInv /\ CardInv => OneCardIsSafe
  BY PortsFree DEF CardInv, OneCardIsSafe
<1> QED BY <1>1, CardInvHolds, InvariantHolds, PTL

-----------------------------------------------------------------------------
(* What hides a running server from the page: with one caller, nothing but *)
(* the late event of another server (App.tsx:128-130).                     *)

OneCaller == \A c, d \in Callers : c = d

\* Once all is quiet the page shows the running server as running, if what it
\* shows comes from that server or from the answer to a command.
HiddenByOthersOnly ==
  AtRest /\ SlotRuns /\ ui.from \in {None, slot} => ui.running

\* The server in the slot has a forwarder; the page shows the last state a
\* forwarder sent until something else is shown.  A start that has bound its
\* server has not spawned the forwarder, and no other start has that server.
SentInv ==
  /\ slot # None => fwd[slot] # "none"
  /\ \A i \in Servers :
       ui.from = i => fwd[i] # "none" /\ (fwd[i] # "emit" => ui.running = got[i].running)
  /\ \A c \in Callers : pc[c] = "storing" =>
       /\ fwd[arg[c]] = "none"
       /\ \A d \in Callers : pc[d] = "storing" /\ arg[d] = arg[c] => d = c

\* An answer under way, or the one shown last, is not older than the server
\* in the slot.
AnswerInv ==
  /\ \A c \in Callers : pc[c] = "reply" /\ SlotRuns => answer[c]
  /\ SlotRuns /\ ui.from = None /\ (\A c \in Callers : pc[c] = "idle") =>
       ui.running

\* A step takes up no server that runs, unless it is the store of a start.
LEMMA SlotRunsBefore ==
  ASSUME IInv, [Next]_vars, \A c \in Callers : ~Store(c), SlotRuns'
  PROVE  SlotRuns /\ slot' = slot
<1>1. TypeOK /\ ServerInv
  BY DEF IInv
<1>2. slot' # None => slot' = slot
  BY <1>1 DEF Next, Issue, Proceed, Forward, Serve, BeginStart, RefuseStart, Bind, BindFails,
         BeginStop, RefuseStop, BeginRefresh, EndStop, Ask, Reply, ReadState, Emit,
         Changed, Gone, Admit, Leave, LoopEnds, Close, Send, LoadRunning,
         LoadSessions, Replace, vars
<1>3. slot' # None /\ slot' = slot
  BY <1>2 DEF SlotRuns
<1>4. life[slot] # "unborn" /\ slot \in Servers /\ life'[slot] = "up"
  BY <1>1, <1>3 DEF ServerInv, TypeOK, SlotRuns, IsRunning
<1>5. life[slot] = "up"
  <2>1. CASE \E c \in Callers, j \in Servers : Bind(c, j)
    BY <1>1, <1>4, <2>1 DEF Bind, TypeOK
  <2>2. CASE \E j \in Servers : LoopEnds(j) \/ Close(j)
    BY <1>1, <1>4, <2>2 DEF LoopEnds, Close, IsRunning, TypeOK
  <2>3. CASE UNCHANGED life
    BY <1>4, <2>3
  <2>4. \/ \E c \in Callers, j \in Servers : Bind(c, j)
        \/ \E j \in Servers : LoopEnds(j) \/ Close(j)
        \/ UNCHANGED life
    BY DEF Next, Issue, Proceed, Forward, Serve, BeginStart, RefuseStart, BeginStop,
           RefuseStop, BeginRefresh, BindFails, Store, EndStop, Ask, Reply, ReadState,
           Emit, Changed, Gone, Admit, Leave, Send, LoadRunning, LoadSessions,
           Replace, vars, server
  <2> QED BY <2>1, <2>2, <2>3, <2>4
<1> QED BY <1>3, <1>5 DEF SlotRuns, IsRunning

LEMMA SentNext == IInv /\ SentInv /\ [Next]_vars => SentInv'
<1> SUFFICES ASSUME IInv, SentInv, [Next]_vars PROVE SentInv'
  OBVIOUS
<1>1. TypeOK /\ CommandInv /\ ServerInv
  BY DEF IInv
<1> USE <1>1, NoneAssumption
<1>2. ASSUME NEW c \in Callers, Store(c) PROVE SentInv'
  <2>1. arg[c] \in Servers /\ fwd[arg[c]] = "none"
    BY <1>2 DEF Store, CommandInv, SentInv
  <2>2. /\ slot' = arg[c] /\ fwd' = [fwd EXCEPT ![arg[c]] = "read"]
        /\ UNCHANGED <<ui, got>>
        /\ pc' = [pc EXCEPT ![c] = "ask"] /\ arg' = [arg EXCEPT ![c] = None]
    BY <1>2 DEF Store, Finish, Goto
  <2>3. /\ slot' # None => fwd'[slot'] # "none"
        /\ \A i \in Servers :
             ui'.from = i =>
               fwd'[i] # "none" /\ (fwd'[i] # "emit" => ui'.running = got'[i].running)
    BY <2>1, <2>2 DEF SentInv, TypeOK
  <2>4. ASSUME NEW d \in Callers, pc'[d] = "storing"
        PROVE  /\ fwd'[arg'[d]] = "none"
               /\ \A e \in Callers : pc'[e] = "storing" /\ arg'[e] = arg'[d] => e = d
    <3>1. d # c /\ pc[d] = "storing" /\ arg'[d] = arg[d]
      BY <2>2, <2>4 DEF TypeOK
    <3>2. arg[d] \in Servers /\ arg[d] # arg[c] /\ fwd[arg[d]] = "none"
      BY <1>2, <3>1 DEF Store, CommandInv, SentInv
    <3> QED BY <2>2, <3>1, <3>2 DEF SentInv, TypeOK
  <2> QED BY <2>3, <2>4 DEF SentInv
<1>3. ASSUME slot' \in {slot, None}, UNCHANGED <<forwarder, ui>>,
             \A c \in Callers : pc'[c] = "storing" => pc[c] = "storing" /\ arg'[c] = arg[c]
      PROVE  SentInv'
  BY <1>3 DEF forwarder, SentInv
<1>4. ASSUME NEW c \in Callers, NEW i \in Servers, Bind(c, i) PROVE SentInv'
  <2>1. /\ fwd[i] = "none" /\ life[i] = "unborn"
        /\ pc' = [pc EXCEPT ![c] = "storing"] /\ arg' = [arg EXCEPT ![c] = i]
        /\ UNCHANGED <<slot, fwd, got, ui>>
    BY <1>4 DEF Bind, Goto, ServerInv, forwarder
  <2>2. ASSUME NEW d \in Callers, pc'[d] = "storing"
        PROVE  /\ fwd[arg'[d]] = "none"
               /\ \A e \in Callers : pc'[e] = "storing" /\ arg'[e] = arg'[d] => e = d
    <3>1. \A e \in Callers : pc'[e] = "storing" /\ e # c =>
            pc[e] = "storing" /\ arg'[e] = arg[e] /\ arg[e] # i
      BY <2>1 DEF TypeOK, CommandInv
    <3>2. arg'[c] = i
      BY <2>1 DEF TypeOK
    <3> QED BY <2>1, <2>2, <3>1, <3>2 DEF SentInv
  <2> QED BY <2>1, <2>2 DEF SentInv
<1>5. ASSUME NEW c \in Callers, Reply(c) PROVE SentInv'
  BY <1>5 DEF Reply, Goto, forwarder, SentInv, TypeOK
<1>6. ASSUME NEW i \in Servers, ReadState(i) PROVE SentInv'
  BY <1>6 DEF ReadState, command, SentInv, TypeOK, CommandInv
<1>7. ASSUME NEW i \in Servers, Emit(i) PROVE SentInv'
  BY <1>7 DEF Emit, command, SentInv, TypeOK, CommandInv
<1>8. ASSUME NEW i \in Servers, Changed(i) \/ Gone(i) PROVE SentInv'
  BY <1>8 DEF Changed, Gone, command, SentInv, TypeOK, CommandInv
<1>9. ASSUME NEW c \in Callers, Issue(c) PROVE SentInv'
  <2>1. slot' \in {slot, None} /\ UNCHANGED <<forwarder, ui>>
    BY <1>9 DEF Issue, BeginStart, RefuseStart, BeginStop, RefuseStop, BeginRefresh
  <2>2. \A d \in Callers : pc'[d] = "storing" => pc[d] = "storing" /\ arg'[d] = arg[d]
    BY <1>9 DEF Issue, BeginStart, RefuseStart, BeginStop, RefuseStop, BeginRefresh, Goto,
                TypeOK
  <2> QED BY <1>3, <2>1, <2>2
<1>10. ASSUME NEW c \in Callers, BindFails(c) \/ EndStop(c) \/ Ask(c) PROVE SentInv'
  <2>1. slot' \in {slot, None} /\ UNCHANGED <<forwarder, ui>>
    BY <1>10 DEF BindFails, EndStop, Ask
  <2>2. \A d \in Callers : pc'[d] = "storing" => pc[d] = "storing" /\ arg'[d] = arg[d]
    BY <1>10 DEF BindFails, EndStop, Ask, Finish, Goto, TypeOK
  <2> QED BY <1>3, <2>1, <2>2
<1>11. ASSUME NEW i \in Servers, Serve(i) PROVE SentInv'
  <2>1. UNCHANGED <<slot, forwarder, ui, pc, arg>>
    BY <1>11 DEF Serve, Admit, Leave, LoopEnds, Close, command
  <2> QED BY <1>3, <2>1
<1>12. ASSUME NEW i \in Servers, NEW t \in Publishers, Send(i, t) PROVE SentInv'
  <2>1. UNCHANGED <<slot, forwarder, ui, pc, arg>>
    BY <1>12 DEF Send, LoadRunning, LoadSessions, Replace, command
  <2> QED BY <1>3, <2>1
<1>13. CASE UNCHANGED vars
  BY <1>3, <1>13 DEF vars, command
<1> QED BY <1>2, <1>4, <1>5, <1>6, <1>7, <1>8, <1>9, <1>10, <1>11, <1>12, <1>13
        DEF Next, Forward, Proceed

LEMMA AnswerNext ==
  ASSUME OneCaller PROVE IInv /\ AnswerInv /\ [Next]_vars => AnswerInv'
<1> SUFFICES ASSUME IInv, AnswerInv, [Next]_vars PROVE AnswerInv'
  OBVIOUS
<1>1. TypeOK
  BY DEF IInv
<1>2. ASSUME NEW c \in Callers, pc'[c] \notin {"idle", "reply"} PROVE AnswerInv'
  BY <1>2 DEF OneCaller, AnswerInv
<1>3. (\A c \in Callers : ~Store(c)) /\ SlotRuns' => SlotRuns /\ slot' = slot
  BY SlotRunsBefore
<1>4. ASSUME NEW c \in Callers, Issue(c) PROVE AnswerInv'
  <2>1. pc'[c] \in {"ask", "binding", "joining"}
    BY <1>1, <1>4 DEF Issue, BeginStart, RefuseStart, BeginStop, RefuseStop, BeginRefresh,
                      Goto, TypeOK
  <2> QED BY <1>2, <2>1
<1>5. ASSUME NEW c \in Callers,
             \/ \E i \in Servers : Bind(c, i)
             \/ BindFails(c) \/ Store(c) \/ EndStop(c)
      PROVE  AnswerInv'
  <2>1. pc'[c] \in {"storing", "ask"}
    BY <1>1, <1>5 DEF Bind, BindFails, Store, EndStop, Finish, Goto, TypeOK
  <2> QED BY <1>2, <2>1
<1>6. ASSUME NEW c \in Callers, Ask(c) PROVE AnswerInv'
  <2>1. \A d \in Callers : d = c
    BY DEF OneCaller
  <2>2. pc'[c] = "reply"
    BY <1>1, <1>6 DEF Ask, Goto, TypeOK
  <2>3. \A d \in Callers : ~Store(d)
    BY <1>1, <1>6, <2>1 DEF Ask, Store
  <2>4. SlotRuns' => answer'[c]
    <3>1. answer'[c] = SlotRuns
      BY <1>1, <1>6 DEF Ask, TypeOK
    <3> QED BY <1>3, <2>3, <3>1
  <2> QED BY <2>1, <2>2, <2>4 DEF AnswerInv
<1>7. ASSUME NEW c \in Callers, Reply(c) PROVE AnswerInv'
  <2>1. \A d \in Callers : d = c
    BY DEF OneCaller
  <2>2. /\ pc[c] = "reply" /\ pc'[c] = "idle"
        /\ ui' = [from |-> None, running |-> answer[c], late |-> c \in passed]
    BY <1>1, <1>7 DEF Reply, Goto, TypeOK
  <2>3. \A d \in Callers : ~Store(d)
    BY <2>1, <2>2 DEF Store
  <2>4. SlotRuns' => ui'.running
    BY <1>3, <2>2, <2>3 DEF AnswerInv
  <2> QED BY <2>1, <2>2, <2>4 DEF AnswerInv
<1>8. ASSUME UNCHANGED <<pc, answer>>, ui' = ui \/ ui'.from \in Servers,
             \A c \in Callers : ~Store(c)
      PROVE  AnswerInv'
  BY <1>3, <1>8, NoneAssumption DEF AnswerInv
<1>9. ASSUME NEW i \in Servers,
             Forward(i) \/ Serve(i) \/ \E t \in Publishers : Send(i, t)
      PROVE  AnswerInv'
  <2>1. UNCHANGED pc
    BY <1>9 DEF Forward, ReadState, Emit, Changed, Gone, Serve, Admit, Leave, LoopEnds,
                Close, Send, LoadRunning, LoadSessions, Replace, command
  <2>2. UNCHANGED answer /\ (ui' = ui \/ ui'.from \in Servers)
    BY <1>9 DEF Forward, ReadState, Emit, Changed, Gone, Serve, Admit, Leave, LoopEnds,
                Close, Send, LoadRunning, LoadSessions, Replace, command
  <2>3. \A c \in Callers : ~Store(c)
    BY <1>1, <2>1 DEF Store, Finish, Goto, TypeOK
  <2> QED BY <1>8, <2>1, <2>2, <2>3
<1>10. CASE UNCHANGED vars
  <2>1. \A c \in Callers : ~Store(c)
    BY <1>1, <1>10 DEF Store, Finish, Goto, TypeOK, vars, command
  <2> QED BY <1>8, <1>10, <2>1 DEF vars, command
<1> QED BY <1>4, <1>5, <1>6, <1>7, <1>9, <1>10 DEF Next, Proceed

\* With one page that has one command under way, a running server is shown as
\* stopped at rest only because another server's last event came late.
THEOREM LateEventsHide ==
  ASSUME OneCaller PROVE Safety => []HiddenByOthersOnly
<1>1. Init => SentInv /\ AnswerInv
  BY NoneAssumption DEF Init, SentInv, AnswerInv, SlotRuns
<1>2. IInv /\ SentInv /\ AnswerInv /\ [Next]_vars => SentInv' /\ AnswerInv'
  BY SentNext, AnswerNext
<1>3. IInv /\ ChannelInv /\ SentInv /\ AnswerInv => HiddenByOthersOnly
  <2> SUFFICES ASSUME IInv, ChannelInv, SentInv, AnswerInv, AtRest, SlotRuns,
                      ui.from \in {None, slot}
               PROVE  ui.running
    BY DEF HiddenByOthersOnly
  <2>1. slot \in Servers /\ IsRunning(slot)
    BY DEF SlotRuns, IInv, TypeOK
  <2>2. CASE ui.from = slot
    <3>1. /\ fwd[slot] \in {"wait", "ended"} /\ slot \notin unseen
          /\ ui.running = got[slot].running
      BY <2>1, <2>2 DEF AtRest, SentInv
    <3>2. got[slot] = Shown(watch[slot]) /\ watch[slot].running
      BY <2>1, <3>1 DEF IInv, EventInv, ChannelInv, FlagInv
    <3> QED BY <3>1, <3>2 DEF Shown
  <2>3. CASE ui.from = None
    BY <2>3 DEF AtRest, AnswerInv
  <2> QED BY <2>2, <2>3
<1> QED BY <1>1, <1>2, <1>3, InvariantHolds, ChannelHolds, PTL DEF Safety

-----------------------------------------------------------------------------
(* What leaves a dead server on the page: a late answer or an overlap of   *)
(* publishes, however many callers there are (App.tsx:98-130).             *)

\* A server is up, or news of one is on its way to the page.
NewsOf(i) ==
  \/ IsRunning(i)
  \/ fwd[i] \in {"read", "emit"} \/ i \in unseen \/ Publishing(i) # {}
NewsLeft == \E i \in Servers : NewsOf(i)

\* An answer that says running was true when it was read: since then nothing
\* ended, or the news has come, or it is still to come.
NewsInv ==
  /\ \A c \in Callers :
       pc[c] = "reply" /\ answer[c] /\ c \notin passed => NewsLeft
  /\ ui.from = None /\ ui.running /\ ~ui.late => NewsLeft

\* News reaches the page by an event only.
LEMMA NewsStays ==
  ASSUME IInv, [Next]_vars, \A i \in Servers : ~Emit(i), NewsLeft
  PROVE  NewsLeft'
<1>1. TypeOK
  BY DEF IInv
<1>2. PICK i \in Servers : NewsOf(i)
  BY DEF NewsLeft
<1> SUFFICES NewsOf(i)'
  BY DEF NewsLeft
<1>3. ASSUME UNCHANGED <<watch, pub, unseen, overlapped>>,
             \A j \in Servers : IsRunning(j) => IsRunning(j)',
             \A j \in Servers :
               fwd[j] \in {"read", "emit"} => fwd'[j] \in {"read", "emit"}
      PROVE  NewsOf(i)'
  BY <1>2, <1>3 DEF NewsOf, Publishing
<1>4. ASSUME NEW c \in Callers, Issue(c) \/ Proceed(c) PROVE NewsOf(i)'
  <2>1. CASE \E j \in Servers : Bind(c, j)
    <3>1. PICK j \in Servers : Bind(c, j)
      BY <2>1
    <3>2. /\ UNCHANGED <<pub, unseen, fwd>>
          /\ \A k \in Servers : IsRunning(k) => IsRunning(k)'
      BY <1>1, <3>1 DEF Bind, forwarder, IsRunning, TypeOK
    <3> QED BY <1>2, <3>2 DEF NewsOf, Publishing
  <2>2. CASE Store(c)
    <3>1. UNCHANGED <<pub, unseen, life>> /\ fwd' = [fwd EXCEPT ![arg[c]] = "read"]
      BY <2>2 DEF Store, channel
    <3> QED BY <1>1, <1>2, <3>1 DEF NewsOf, Publishing, IsRunning, TypeOK
  <2>3. CASE ~Store(c) /\ \A j \in Servers : ~Bind(c, j)
    <3>1. UNCHANGED <<watch, pub, unseen, overlapped, life, fwd>>
      BY <1>4, <2>3 DEF Issue, Proceed, BeginStart, RefuseStart, BeginStop,
         RefuseStop, BeginRefresh, BindFails, EndStop, Ask, Reply, channel, server,
         forwarder
    <3> QED BY <1>3, <3>1 DEF IsRunning
  <2> QED BY <2>1, <2>2, <2>3
<1>5. ASSUME NEW j \in Servers, Forward(j) PROVE NewsOf(i)'
  <2>1. UNCHANGED <<pub, life>>
    BY <1>5 DEF Forward, ReadState, Emit, Changed, Gone, channel, server
  <2>2. i \in unseen \/ fwd[i] \in {"read", "emit"} =>
          i \in unseen' \/ fwd'[i] \in {"read", "emit"}
    BY <1>1, <1>5 DEF Forward, ReadState, Changed, Gone, channel, TypeOK
  <2> QED BY <1>2, <2>1, <2>2 DEF NewsOf, Publishing, IsRunning
<1>6. ASSUME NEW j \in Servers, Admit(j) \/ Leave(j) \/ LoopEnds(j)
      PROVE  NewsOf(i)'
  <2>1. PICK t \in Publishers : EnterPublish(j, t)
    BY <1>6 DEF Admit, Leave, LoopEnds, Publishers
  <2>2. /\ \A k \in Servers : k # j => Publishing(k)' = Publishing(k)
        /\ Publishing(j)' # {}
    BY <1>1, <2>1, EnteredPublishing
  <2>3. UNCHANGED <<unseen, fwd>> /\ (i # j => life'[i] = life[i])
    BY <1>1, <1>6 DEF Admit, Leave, LoopEnds, forwarder, TypeOK
  <2> QED BY <1>2, <2>2, <2>3 DEF NewsOf, IsRunning
<1>7. ASSUME NEW j \in Servers, Close(j) PROVE NewsOf(i)'
  BY <1>1, <1>3, <1>7 DEF Close, channel, forwarder, TypeOK, IsRunning
<1>8. ASSUME NEW j \in Servers, NEW t \in Publishers, Send(j, t) PROVE NewsOf(i)'
  <2>1. UNCHANGED <<fwd, life>> /\ unseen \subseteq unseen'
    BY <1>8 DEF Send, LoadRunning, LoadSessions, Replace, forwarder, server
  <2>2. CASE Replace(j, t)
    <3>1. j \in unseen' /\ pub' = [pub EXCEPT ![j][t] = NoPublish]
      BY <2>2 DEF Replace
    <3>2. i # j => Publishing(i)' = Publishing(i)
      BY <1>1, <3>1, PublishingAfter
    <3> QED BY <1>2, <2>1, <3>1, <3>2 DEF NewsOf, IsRunning
  <2>3. CASE LoadRunning(j, t) \/ LoadSessions(j, t)
    <3>1. PICK r : r.at # "idle" /\ pub' = [pub EXCEPT ![j][t] = r]
      BY <2>3 DEF LoadRunning, LoadSessions
    <3>2. Publishing(i) \subseteq Publishing(i)'
      BY <1>1, <3>1, PublishingAfter
    <3> QED BY <1>2, <2>1, <3>2 DEF NewsOf, IsRunning
  <2> QED BY <1>8, <2>2, <2>3 DEF Send
<1>9. CASE UNCHANGED vars
  BY <1>3, <1>9 DEF vars, channel, forwarder, server, IsRunning
<1> QED
  BY <1>4, <1>5, <1>6, <1>7, <1>8, <1>9 DEF Next, Serve

LEMMA NewsNext == IInv /\ NewsInv /\ [Next]_vars => NewsInv'
<1> SUFFICES ASSUME IInv, NewsInv, [Next]_vars PROVE NewsInv'
  OBVIOUS
<1>1. TypeOK
  BY DEF IInv
<1>2. ASSUME NEW i \in Servers, Emit(i) PROVE NewsInv'
  <2>1. /\ passed' = {c \in Callers : pc[c] = "reply"} /\ UNCHANGED <<pc, answer>>
        /\ ui'.from = i
    BY <1>2 DEF Emit, command
  <2> QED BY <2>1, NoneAssumption DEF NewsInv
<1>3. ASSUME \A i \in Servers : ~Emit(i), NewsLeft PROVE NewsInv'
  BY <1>3, NewsStays DEF NewsInv
<1>4. ASSUME NEW c \in Callers, Ask(c), ~NewsLeft PROVE NewsInv'
  <2>1. SlotRuns = FALSE
    BY <1>1, <1>4 DEF NewsLeft, NewsOf, SlotRuns, IsRunning, TypeOK
  <2>2. /\ answer' = [answer EXCEPT ![c] = FALSE] /\ UNCHANGED <<ui, passed>>
        /\ pc' = [pc EXCEPT ![c] = "reply"]
    BY <1>4, <2>1 DEF Ask, Goto, history
  <2> QED BY <1>1, <1>4, <2>2 DEF NewsInv, TypeOK
<1>5. ASSUME NEW c \in Callers, Reply(c), ~NewsLeft PROVE NewsInv'
  <2>1. /\ pc[c] = "reply" /\ pc' = [pc EXCEPT ![c] = "idle"]
        /\ ui' = [from |-> None, running |-> answer[c], late |-> c \in passed]
        /\ passed' = passed \ {c} /\ answer' = [answer EXCEPT ![c] = FALSE]
    BY <1>5 DEF Reply, Goto
  <2> QED BY <1>1, <1>5, <2>1 DEF NewsInv, TypeOK
<1>6. ASSUME ~NewsLeft, UNCHANGED <<ui, passed, answer>>,
             \A c \in Callers : pc'[c] = "reply" => pc[c] = "reply"
      PROVE  NewsInv'
  BY <1>6 DEF NewsInv
<1>7. ASSUME NEW c \in Callers, Issue(c) \/ Proceed(c), ~Ask(c), ~Reply(c), ~NewsLeft
      PROVE  NewsInv'
  <2>1. UNCHANGED <<ui, passed, answer>>
    BY <1>7 DEF Issue, Proceed, BeginStart, RefuseStart, BeginStop, RefuseStop,
       BeginRefresh, Bind, BindFails, Store, EndStop, history
  <2>2. \A d \in Callers : pc'[d] = "reply" => pc[d] = "reply"
    BY <1>1, <1>7 DEF Issue, Proceed, BeginStart, RefuseStart, BeginStop,
       RefuseStop, BeginRefresh, Bind, BindFails, Store, EndStop, Finish, Goto, TypeOK
  <2> QED BY <1>6, <1>7, <2>1, <2>2
<1>8. ASSUME NEW i \in Servers, ~Emit(i), ~NewsLeft,
             Forward(i) \/ Serve(i) \/ \E t \in Publishers : Send(i, t)
      PROVE  NewsInv'
  <2>1. UNCHANGED <<ui, passed, answer, pc>>
    BY <1>8 DEF Forward, ReadState, Changed, Gone, Serve, Admit, Leave, LoopEnds,
       Close, Send, LoadRunning, LoadSessions, Replace, command, history
  <2> QED BY <1>6, <1>8, <2>1
<1>9. CASE UNCHANGED vars /\ ~NewsLeft
  BY <1>6, <1>9 DEF vars, command, history
<1> QED
  BY <1>2, <1>3, <1>4, <1>5, <1>7, <1>8, <1>9 DEF Next

\* However many pages ask, a server that is gone stays on the page only by an
\* answer that its last event overtook or by an overlap of its publishes.
THEOREM DeadShownOnlyLate == Safety => []DeadServerHidden
<1>1. Init => SentInv /\ NewsInv
  BY NoneAssumption DEF Init, SentInv, NewsInv
<1>2. IInv /\ SentInv /\ NewsInv /\ [Next]_vars => SentInv' /\ NewsInv'
  BY SentNext, NewsNext
<1>3. IInv /\ ChannelInv /\ SentInv /\ NewsInv => DeadServerHidden
  <2> SUFFICES ASSUME IInv, ChannelInv, SentInv, NewsInv, AtRest, ui.running,
                      \A i \in Servers : ~IsRunning(i)
               PROVE  ui.late \/ ui.from \in overlapped
    BY DEF DeadServerHidden
  <2>1. ui.from \in Servers \cup {None} /\ ui.late \in BOOLEAN
    BY DEF IInv, TypeOK
  <2>2. ~NewsLeft
    BY DEF AtRest, NewsLeft, NewsOf
  <2>3. CASE ui.from = None
    BY <2>2, <2>3 DEF NewsInv
  <2>4. ASSUME NEW i \in Servers, ui.from = i, i \notin overlapped PROVE FALSE
    <3>1. /\ fwd[i] \in {"wait", "ended"} /\ i \notin unseen /\ Publishing(i) = {}
          /\ ui.running = got[i].running
      BY <2>4 DEF AtRest, SentInv
    <3>2. got[i] = Shown(Actual(i))
      BY <2>4, <3>1 DEF IInv, EventInv, ChannelInv, StoreInv
    <3>3. ~Actual(i).running /\ ~Stopped.running
      BY DEF Actual, Stopped
    <3> QED BY <3>1, <3>2, <3>3 DEF Shown
  <2> QED BY <2>1, <2>3, <2>4
<1> QED BY <1>1, <1>2, <1>3, InvariantHolds, ChannelHolds, PTL DEF Safety

=============================================================================
