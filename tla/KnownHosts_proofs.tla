------------------------- MODULE KnownHosts_proofs -------------------------
(***************************************************************************)
(* Proofs about KnownHosts, for any number of endpoints, keys and commands *)
(* under way, and any bound on the commands and the key changes.           *)
(***************************************************************************)
EXTENDS KnownHosts, TLAPS

-----------------------------------------------------------------------------
(* The inductive invariant.                                                *)

\* What a task at each stage is doing, and for whom.
TaskInv ==
  \A t \in Tasks :
    /\ key[t] # NoKey => host[t] \in Hosts
    /\ stage[t] \in {"dial", "probe", "verdict", "handshake", "lookup"} =>
         host[t] \in Hosts
    /\ stage[t] \in {"dial", "probe"} => op[t] \in {"check", "update"}
    /\ stage[t] = "verdict" => op[t] = "check"
    /\ stage[t] = "handshake" => op[t] \in {"connect", "orphan"}
    /\ stage[t] = "lookup" => op[t] \in {"connect", "orphan"} /\ key[t] \in Keys
    /\ stage[t] \in Saving => \/ op[t] = "remove"
                              \/ /\ op[t] \in {"update", "connect", "orphan"}
                                 /\ key[t] \in Keys

\* Until something is hurt, one task saves at a time, what it has to write is
\* what the records are to be, and a connect writes where nothing was.
SaveInv ==
  ~hurt =>
    /\ \A t, u \in Tasks : stage[t] \in Saving /\ stage[u] \in Saving => t = u
    /\ (\A t \in Tasks : stage[t] # "rewrite") => file = book
    /\ \A t \in Tasks : stage[t] \in {"store", "rewrite"} =>
         text[t] = Changed(t, book)
    /\ \A t \in Tasks : stage[t] \in Saving /\ op[t] \in {"connect", "orphan"} =>
         book[host[t]] = NoKey

\* Until a server changes its key, every fingerprint seen of it is its own.
KeyInv ==
  /\ \A t \in Tasks : key[t] # NoKey /\ host[t] \notin turned =>
       key[t] = serverKey[host[t]]
  /\ \A t \in Tasks :
       shown[t] # NoPrompt /\ shown[t].key # NoKey /\ shown[t].host \notin turned
         => shown[t].key = serverKey[shown[t].host]
  /\ prompt # NoPrompt /\ prompt.key # NoKey /\ prompt.host \notin turned =>
       prompt.key = serverKey[prompt.host]

\* Trust comes from a dialog, an update from a warning, and a connect saves on
\* trust only.
TrustInv ==
  \A t \in Tasks :
    /\ trust[t] => shown[t] # NoPrompt
    /\ op[t] = "update" => shown[t] # NoPrompt /\ shown[t].kind = "changed"
    /\ op[t] \in {"connect", "orphan"} /\ stage[t] \in Saving => trust[t]

IInv ==
  /\ TypeOK
  /\ TaskInv
  /\ SaveInv
  /\ KeyInv
  /\ TrustInv

LEMMA ChangedTyped ==
  ASSUME TypeOK, TaskInv, NEW t \in Tasks, stage[t] \in Saving,
         NEW r \in Records
  PROVE  Changed(t, r) \in Records
BY DEF Changed, Records, TypeOK, TaskInv

-----------------------------------------------------------------------------
(* The types of the task and of the page, apart.                           *)

Stages == {"free", "dial", "probe", "verdict", "handshake", "lookup", "load",
           "store", "rewrite", "login", "swap", "list", "drop"}

Ops == {"check", "update", "connect", "remove", "orphan", "disconnect"}

TaskTyped ==
  /\ serverKey \in [Hosts -> Keys] /\ rekeys \in 0..MaxRekeys
  /\ turned \subseteq Hosts
  /\ lock \in {"free", "listing", "batch"}
  /\ stage \in [Tasks -> Stages]
  /\ op \in [Tasks -> Ops]
  /\ host \in [Tasks -> Hosts \cup {NoHost}]
  /\ trust \in [Tasks -> BOOLEAN]
  /\ key \in [Tasks -> Keys \cup {NoKey}]
  /\ picked \in [Tasks -> SUBSET Hosts]
  /\ text \in [Tasks -> Records]
  /\ commands \in 0..MaxCommands
  /\ shown \in [Tasks -> Prompt \cup {NoPrompt}]

PageTyped ==
  /\ busy \in BOOLEAN /\ managing \in BOOLEAN /\ connected \in BOOLEAN
  /\ prompt \in Prompt \cup {NoPrompt}

LEMMA Typed ==
  TypeOK <=> /\ TaskTyped /\ PageTyped
             /\ file \in Records /\ book \in Records /\ hurt \in BOOLEAN
BY DEF TypeOK, TaskTyped, PageTyped, Stages, Ops

LEMMA Together ==
  ASSUME TaskTyped', PageTyped', file' \in Records, book' \in Records,
         hurt' \in BOOLEAN
  PROVE  TypeOK'
BY DEF TypeOK, TaskTyped, PageTyped, Stages, Ops

LEMMA StartTyped ==
  ASSUME TaskTyped, NEW t \in Tasks,
         NEW o \in Ops,
         NEW s \in Stages, NEW h \in Hosts \cup {NoHost}, NEW b \in BOOLEAN,
         NEW ps \in SUBSET Hosts, NEW d \in Prompt \cup {NoPrompt},
         Start(t, o, s, h, b, ps, d)
  PROVE  TaskTyped' /\ UNCHANGED <<file, book, connected>>
<1>1. None \in Records
  BY DEF None, Records
<1>2. commands' \in 0..MaxCommands
  BY BoundsAssumption DEF Start, TaskTyped
<1> QED BY <1>1, <1>2 DEF TaskTyped, Start, servers, Ops

LEMMA GoesTyped ==
  ASSUME TaskTyped, NEW t \in Tasks, NEW s \in Stages, Goes(t, s),
         op' \in [Tasks -> Ops],
         trust' \in [Tasks -> BOOLEAN], key' \in [Tasks -> Keys \cup {NoKey}],
         text' \in [Tasks -> Records]
  PROVE  TaskTyped'
BY DEF TaskTyped, Goes, servers

LEMMA EndsTyped ==
  ASSUME TaskTyped, NEW t \in Tasks, Ends(t)
  PROVE  TaskTyped'
<1>1. None \in Records /\ "free" \in Stages
  BY DEF None, Records, Stages
<1> QED BY <1>1 DEF TaskTyped, Ends, servers, Ops

LEMMA FailsTyped ==
  ASSUME TaskTyped, PageTyped, NEW t \in Tasks, Fails(t)
  PROVE  TaskTyped' /\ PageTyped'
BY EndsTyped DEF PageTyped, Fails

LEMMA ConnectTyped ==
  ASSUME TaskTyped, PageTyped, NEW t \in Tasks, NEW b \in BOOLEAN, Connect(t, b)
  PROVE  TaskTyped' /\ PageTyped'
<1>1. /\ op' \in [Tasks -> Ops]
      /\ trust' \in [Tasks -> BOOLEAN]
      /\ key' \in [Tasks -> Keys \cup {NoKey}] /\ text' \in [Tasks -> Records]
      /\ Goes(t, "handshake") /\ "handshake" \in Stages
  BY DEF Connect, TaskTyped, Stages, Ops
<1> QED BY <1>1, GoesTyped DEF Connect, PageTyped

LEMMA AcceptedTyped ==
  ASSUME TaskTyped, PageTyped, NEW t \in Tasks, Accepted(t)
  PROVE  TaskTyped' /\ PageTyped'
<1>1. CASE Goes(t, "login") /\ UNCHANGED local
  <2>1. /\ op' \in [Tasks -> Ops]
        /\ trust' \in [Tasks -> BOOLEAN]
        /\ key' \in [Tasks -> Keys \cup {NoKey}] /\ text' \in [Tasks -> Records]
        /\ "login" \in Stages
    BY <1>1 DEF local, TaskTyped, Stages
  <2> QED BY <1>1, <2>1, GoesTyped DEF Accepted, PageTyped, page
<1>2. CASE Ends(t)
  BY <1>2, EndsTyped DEF Accepted, PageTyped, page
<1> QED BY <1>1, <1>2 DEF Accepted

LEMMA NoAnswerTyped ==
  ASSUME TaskTyped, PageTyped, NEW t \in Tasks, NoAnswer(t)
  PROVE  TaskTyped' /\ PageTyped'
<1>1. CASE Goes(t, "verdict") /\ UNCHANGED <<local, page>>
  <2>1. /\ op' \in [Tasks -> Ops] /\ trust' \in [Tasks -> BOOLEAN]
        /\ key' \in [Tasks -> Keys \cup {NoKey}] /\ text' \in [Tasks -> Records]
        /\ "verdict" \in Stages
    BY <1>1 DEF local, TaskTyped, Stages
  <2> QED BY <1>1, <2>1, GoesTyped DEF PageTyped, page
<1>2. CASE Fails(t)
  BY <1>2, FailsTyped
<1> QED BY <1>1, <1>2 DEF NoAnswer

-----------------------------------------------------------------------------
(* What a step of one task leaves of the others.                           *)

Others(t) ==
  \A u \in Tasks \ {t} :
    /\ stage'[u] = stage[u] /\ op'[u] = op[u] /\ host'[u] = host[u]
    /\ key'[u] = key[u] /\ picked'[u] = picked[u] /\ text'[u] = text[u]

LEMMA EndsOthers ==
  ASSUME TypeOK, NEW t \in Tasks, Ends(t)
  PROVE  Others(t) /\ stage'[t] = "free"
BY DEF TypeOK, Ends, Others

LEMMA GoesOthers ==
  ASSUME TypeOK, NEW t \in Tasks, NEW s, Goes(t, s),
         \A u \in Tasks \ {t} : /\ op'[u] = op[u] /\ key'[u] = key[u]
                                /\ text'[u] = text[u]
  PROVE  Others(t) /\ stage'[t] = s /\ host' = host
BY DEF TypeOK, Goes, Others

LEMMA FailsOthers ==
  ASSUME TypeOK, NEW t \in Tasks, Fails(t)
  PROVE  Others(t) /\ stage'[t] = "free"
BY EndsOthers DEF Fails

LEMMA ConnectOthers ==
  ASSUME TypeOK, NEW t \in Tasks, NEW b, Connect(t, b)
  PROVE  Others(t) /\ stage'[t] = "handshake"
<1>1. \A u \in Tasks \ {t} : /\ op'[u] = op[u] /\ key'[u] = key[u]
                             /\ text'[u] = text[u]
  BY DEF Connect, TypeOK
<1> QED BY <1>1, GoesOthers DEF Connect

LEMMA AcceptedOthers ==
  ASSUME TypeOK, NEW t \in Tasks, Accepted(t)
  PROVE  Others(t) /\ stage'[t] \in {"free", "login"}
<1>1. CASE Goes(t, "login") /\ UNCHANGED local
  BY <1>1, GoesOthers DEF local
<1>2. CASE Ends(t)
  BY <1>2, EndsOthers
<1> QED BY <1>1, <1>2 DEF Accepted

LEMMA NoAnswerOthers ==
  ASSUME TypeOK, NEW t \in Tasks, NoAnswer(t)
  PROVE  Others(t) /\ stage'[t] \in {"free", "verdict"}
<1>1. CASE Goes(t, "verdict") /\ UNCHANGED <<local, page>>
  BY <1>1, GoesOthers DEF local
<1>2. CASE Fails(t)
  BY <1>2, FailsOthers
<1> QED BY <1>1, <1>2 DEF NoAnswer

LEMMA SameChange ==
  ASSUME NEW t \in Tasks, NEW u \in Tasks \ {t}, Others(t), book' = book
  PROVE  Changed(u, book)' = Changed(u, book)
BY DEF Others, Changed

-----------------------------------------------------------------------------
(* A step begins to save, goes on, has saved, or has nothing to do with it. *)

LEMMA NotSaving ==
  ASSUME IInv, NEW t \in Tasks, Others(t), stage[t] # "rewrite",
         stage'[t] \notin Saving, UNCHANGED <<file, book, hurt>>
  PROVE  SaveInv'
<1> SUFFICES ASSUME ~hurt PROVE SaveInv'
  BY DEF SaveInv
<1>1. \A u, v \in Tasks : stage'[u] \in Saving /\ stage'[v] \in Saving => u = v
  BY DEF IInv, SaveInv, Others
<1>2. (\A u \in Tasks : stage'[u] # "rewrite") => file' = book'
  BY DEF IInv, SaveInv, Others
<1>3. ASSUME NEW u \in Tasks, stage'[u] \in {"store", "rewrite"}
      PROVE  text'[u] = Changed(u, book)'
  <2>1. u # t
    BY <1>3 DEF Saving
  <2> QED BY <1>3, <2>1, SameChange DEF IInv, SaveInv, Others
<1>4. ASSUME NEW u \in Tasks, stage'[u] \in Saving, op'[u] \in {"connect", "orphan"}
      PROVE  book'[host'[u]] = NoKey
  BY <1>4 DEF IInv, SaveInv, Others
<1> QED BY <1>1, <1>2, <1>3, <1>4 DEF SaveInv

LEMMA BeginsToSave ==
  ASSUME IInv, NEW t \in Tasks, Others(t),
         stage[t] \notin Saving, stage'[t] = "load",
         hurt \/ (\E u \in Tasks \ {t} : stage[u] \in Saving) => hurt',
         UNCHANGED <<file, book>>,
         ~hurt' /\ file = book /\ op'[t] \in {"connect", "orphan"} =>
           book[host'[t]] = NoKey
  PROVE  SaveInv'
<1> SUFFICES ASSUME ~hurt' PROVE SaveInv'
  BY DEF SaveInv
<1>1. ~hurt /\ \A u \in Tasks : stage[u] \notin Saving
  OBVIOUS
<1>2. file = book
  BY <1>1 DEF IInv, SaveInv, Saving
<1>3. \A u \in Tasks : u # t => stage'[u] \notin Saving
  BY <1>1 DEF Others
<1> QED BY <1>2, <1>3 DEF SaveInv, Saving

LEMMA HasSaved ==
  ASSUME IInv, NEW t \in Tasks, Others(t), stage[t] \in {"store", "rewrite"},
         stage'[t] \notin Saving, file' = text[t], book' = Changed(t, book),
         hurt' = hurt
  PROVE  SaveInv'
<1> SUFFICES ASSUME ~hurt PROVE SaveInv'
  BY DEF SaveInv
<1>1. \A u \in Tasks : stage'[u] \notin Saving
  BY DEF IInv, SaveInv, Saving, Others
<1>2. file' = book'
  BY DEF IInv, SaveInv
<1> QED BY <1>1, <1>2 DEF SaveInv, Saving

-----------------------------------------------------------------------------
(* Each step keeps the inductive invariant.                                *)

LEMMA TypeStep ==
  ASSUME IInv, [Next]_vars
  PROVE  TypeOK'
<1> USE BoundsAssumption
<1>1. ASSUME NEW t \in Tasks, NEW h \in Hosts, ClickConnect(t, h)
      PROVE  TypeOK'
  BY <1>1 DEF ClickConnect, Start, servers, task, page, local, IInv, TypeOK,
     TaskInv, Prompt, Records, None
<1>2. ASSUME NEW t \in Tasks, NEW h \in Hosts, Confirm(t, h)
      PROVE  TypeOK'
  <2>1. /\ {"dial", "handshake"} \subseteq Stages /\ {"update", "connect"} \subseteq Ops
        /\ {} \in SUBSET Hosts /\ prompt \in Prompt \cup {NoPrompt}
    BY Typed DEF IInv, Stages, Ops, PageTyped
  <2>2. TaskTyped' /\ UNCHANGED <<file, book, connected>>
    BY <1>2, <2>1, StartTyped, Typed DEF Confirm, IInv
  <2>3. PageTyped' /\ hurt' = hurt
    BY <1>2, <2>2, Typed DEF Confirm, IInv, PageTyped
  <2> QED BY <2>2, <2>3, Typed, Together DEF IInv
<1>3. ASSUME NEW t \in Tasks, NEW hs \in SUBSET Hosts, RemoveSelected(t, hs)
      PROVE  TypeOK'
  BY <1>3 DEF RemoveSelected, Start, servers, task, page, local, IInv, TypeOK,
     TaskInv, Prompt, Records, None
<1>4. ASSUME NEW t \in Tasks, Probe(t)
      PROVE  TypeOK'
  <2>1. CASE NoAnswer(t)
    BY <2>1, NoAnswerTyped, Typed, Together DEF NoAnswer, IInv
  <2>2. ASSUME NEW s \in {"verdict", "load"}, Goes(t, s),
               UNCHANGED <<op, trust, text, page, file, book>>, hurt' \in BOOLEAN,
               key' = [key EXCEPT ![t] = serverKey[host[t]]]
        PROVE  TypeOK'
    <3>1. host[t] \in Hosts
      BY <1>4 DEF Probe, IInv, TaskInv
    <3>2. /\ op' \in [Tasks -> Ops] /\ trust' \in [Tasks -> BOOLEAN]
          /\ key' \in [Tasks -> Keys \cup {NoKey}] /\ text' \in [Tasks -> Records]
      BY <2>2, <3>1, Typed DEF IInv, TaskTyped
    <3>3. TaskTyped'
      BY <2>2, <3>2, GoesTyped, Typed DEF IInv, Stages
    <3>4. PageTyped'
      BY <2>2, Typed DEF IInv, PageTyped, page
    <3> QED BY <2>2, <3>3, <3>4, Typed, Together DEF IInv
  <2>3. hurt' \in BOOLEAN
    BY <1>4, Typed DEF Probe, NoAnswer, Begins, IInv
  <2> QED BY <1>4, <2>1, <2>2, <2>3 DEF Probe, Begins
<1>5. ASSUME NEW t \in Tasks, Checked(t)
      PROVE  TypeOK'
  <2>1. UNCHANGED <<file, book, hurt>>
    BY <1>5 DEF Checked
  <2>2. CASE Connect(t, FALSE)
    BY <2>1, <2>2, ConnectTyped, Typed, Together DEF IInv
  <2>3. ASSUME NEW v \in {"unknown", "changed"}, Ask(t, v)
        PROVE  TypeOK'
    <3>1. host[t] \in Hosts
      BY <1>5 DEF Checked, IInv, TaskInv
    <3>2. PageTyped'
      BY <2>3, <3>1, Typed DEF Ask, IInv, PageTyped, TaskTyped, Prompt
    <3> QED BY <2>1, <2>3, <3>2, EndsTyped, Typed, Together DEF Ask, IInv
  <2> QED BY <1>5, <2>2, <2>3 DEF Checked, Verdict
<1>6. ASSUME NEW t \in Tasks, Handshake(t)
      PROVE  TypeOK'
  <2>1. UNCHANGED <<file, book, hurt>>
    BY <1>6 DEF Handshake
  <2>2. CASE Fails(t)
    BY <2>1, <2>2, FailsTyped, Typed, Together DEF IInv
  <2>3. CASE /\ key' = [key EXCEPT ![t] = serverKey[host[t]]]
             /\ Goes(t, "lookup") /\ UNCHANGED <<op, trust, text, page>>
    <3>1. host[t] \in Hosts
      BY <1>6 DEF Handshake, IInv, TaskInv
    <3>2. /\ op' \in [Tasks -> Ops]
        /\ trust' \in [Tasks -> BOOLEAN]
        /\ key' \in [Tasks -> Keys \cup {NoKey}] /\ text' \in [Tasks -> Records]
      BY <2>3, <3>1, Typed DEF IInv, TaskTyped
    <3>3. TaskTyped'
      BY <2>3, <3>2, GoesTyped, Typed DEF IInv, Stages
    <3> QED BY <2>1, <2>3, <3>3, Typed, Together DEF IInv, PageTyped, page
  <2> QED BY <1>6, <2>2, <2>3 DEF Handshake
<1>7. ASSUME NEW t \in Tasks, Lookup(t)
      PROVE  TypeOK'
  <2>1. file' = file /\ book' = book /\ hurt' \in BOOLEAN
    BY <1>7, Typed DEF Lookup, Begins, IInv
  <2>2. CASE Accepted(t) \/ Fails(t)
    BY <2>1, <2>2, AcceptedTyped, FailsTyped, Typed, Together DEF IInv
  <2>3. CASE Goes(t, "load") /\ UNCHANGED <<local, page>>
    <3>1. /\ op' \in [Tasks -> Ops]
        /\ trust' \in [Tasks -> BOOLEAN]
        /\ key' \in [Tasks -> Keys \cup {NoKey}] /\ text' \in [Tasks -> Records]
      BY <2>3, Typed DEF IInv, TaskTyped, local
    <3>2. TaskTyped'
      BY <2>3, <3>1, GoesTyped, Typed DEF IInv, Stages
    <3> QED BY <2>1, <2>3, <3>2, Typed, Together DEF IInv, PageTyped, page
  <2> QED BY <1>7, <2>2, <2>3 DEF Lookup
<1>8. ASSUME NEW t \in Tasks, Login(t)
      PROVE  TypeOK'
  <2>1. UNCHANGED <<file, book, hurt>>
    BY <1>8 DEF Login
  <2>2. CASE Fails(t)
    BY <2>1, <2>2, FailsTyped, Typed, Together DEF IInv
  <2>3. CASE Goes(t, "swap") /\ UNCHANGED <<local, page>>
    <3>1. /\ op' \in [Tasks -> Ops] /\ trust' \in [Tasks -> BOOLEAN]
          /\ key' \in [Tasks -> Keys \cup {NoKey}] /\ text' \in [Tasks -> Records]
      BY <2>3, Typed DEF IInv, TaskTyped, local
    <3>2. TaskTyped'
      BY <2>3, <3>1, GoesTyped, Typed DEF IInv, Stages
    <3> QED BY <2>1, <2>3, <3>2, Typed, Together DEF IInv, PageTyped, page
  <2> QED BY <1>8, <2>2, <2>3 DEF Login
<1>9. ASSUME NEW t \in Tasks, Listed(t)
      PROVE  TypeOK'
  BY <1>9 DEF Listed, Fails, Ends, servers, task, page, local, IInv, TypeOK,
     TaskInv, Prompt, Records, None
<1>10. ASSUME NEW t \in Tasks, Deadline(t)
      PROVE  TypeOK'
  <2>1. UNCHANGED <<file, book, hurt>> /\ PageTyped'
    BY <1>10, Typed DEF Deadline, IInv, PageTyped
  <2>2. CASE Ends(t)
    BY <2>1, <2>2, EndsTyped, Typed, Together DEF IInv
  <2>3. CASE /\ Goes(t, stage[t]) /\ op' = [op EXCEPT ![t] = "orphan"]
             /\ UNCHANGED <<trust, key, text>>
    <3>1. /\ op' \in [Tasks -> Ops]
        /\ trust' \in [Tasks -> BOOLEAN]
        /\ key' \in [Tasks -> Keys \cup {NoKey}] /\ text' \in [Tasks -> Records]
      BY <2>3, Typed DEF IInv, TaskTyped, Ops
    <3>2. TaskTyped'
      <4>1. stage[t] \in Stages
        BY Typed DEF IInv, TaskTyped
      <4> QED BY <2>3, <3>1, <4>1, GoesTyped, Typed, Together DEF IInv
    <3> QED BY <2>1, <3>2, Typed, Together DEF IInv
  <2> QED BY <1>10, <2>2, <2>3 DEF Deadline
<1>11. ASSUME NEW t \in Tasks, Load(t)
      PROVE  TypeOK'
  <2>1. file' = file /\ book' = book /\ hurt' \in BOOLEAN
    BY <1>11, Typed DEF Load, IInv
  <2>2. CASE Fails(t)
    BY <2>1, <2>2, FailsTyped, Typed, Together DEF IInv
  <2>3. ASSUME NEW r \in Readings, Goes(t, "store"),
               text' = [text EXCEPT ![t] = Changed(t, r)],
               UNCHANGED <<op, trust, key, page>>
        PROVE  TypeOK'
    <3>1. r \in Records
      BY <2>3, Typed DEF IInv, Readings, None, Records
    <3>2. Changed(t, r) \in Records
      BY <1>11, <3>1, ChangedTyped DEF Load, Saving, IInv
    <3>3. /\ op' \in [Tasks -> Ops]
        /\ trust' \in [Tasks -> BOOLEAN]
        /\ key' \in [Tasks -> Keys \cup {NoKey}] /\ text' \in [Tasks -> Records]
      BY <2>3, <3>2, Typed DEF IInv, TaskTyped
    <3>4. TaskTyped'
      BY <2>3, <3>3, GoesTyped, Typed DEF IInv, Stages
    <3> QED BY <2>1, <2>3, <3>4, Typed, Together DEF IInv, PageTyped, page
  <2> QED BY <1>11, <2>2, <2>3 DEF Load
<1>12. ASSUME NEW t \in Tasks, Replace(t)
      PROVE  TypeOK'
  <2>1. file' \in Records /\ book' \in Records /\ hurt' \in BOOLEAN
    <3>1. Changed(t, book) \in Records
      BY <1>12, ChangedTyped, Typed DEF Replace, Saving, IInv
    <3> QED BY <1>12, <3>1, Typed, Together DEF Replace, Saved, IInv, TaskTyped
  <2>2. CASE Connect(t, TRUE)
    BY <2>1, <2>2, ConnectTyped, Typed, Together DEF IInv
  <2>3. CASE Fails(t) \/ Accepted(t)
    BY <2>1, <2>3, FailsTyped, AcceptedTyped, Typed, Together DEF IInv
  <2> QED BY <1>12, <2>2, <2>3 DEF Replace, Saved
<1>13. ASSUME NEW t \in Tasks, Truncate(t)
      PROVE  TypeOK'
  BY <1>13 DEF Truncate, Goes, servers, task, page, local, IInv, TypeOK, TaskInv,
     Prompt, Records, None
<1>14. ASSUME NEW t \in Tasks, Rewrite(t)
      PROVE  TypeOK'
  <2>1. file' \in Records /\ book' \in Records /\ hurt' \in BOOLEAN
    <3>1. Changed(t, book) \in Records
      BY <1>14, ChangedTyped, Typed DEF Rewrite, Saving, IInv
    <3> QED BY <1>14, <3>1, Typed, Together DEF Rewrite, Saved, IInv, TaskTyped
  <2>2. CASE Connect(t, TRUE)
    BY <2>1, <2>2, ConnectTyped, Typed, Together DEF IInv
  <2>3. CASE Fails(t) \/ Accepted(t)
    BY <2>1, <2>3, FailsTyped, AcceptedTyped, Typed, Together DEF IInv
  <2> QED BY <1>14, <2>2, <2>3 DEF Rewrite, Saved
<1>15. ASSUME NEW t \in Tasks, SaveFails(t)
      PROVE  TypeOK'
  <2>1. UNCHANGED <<file, book>> /\ hurt' \in BOOLEAN
    BY <1>15, Typed DEF SaveFails, IInv
  <2> QED BY <1>15, <2>1, FailsTyped, AcceptedTyped, Typed, Together DEF
     SaveFails, IInv
<1>16. ASSUME NEW h \in Hosts, NEW k \in Keys, Rekey(h, k)
      PROVE  TypeOK'
  BY <1>16 DEF Rekey, servers, task, page, local, IInv, TypeOK, TaskInv, Prompt,
     Records, None
<1>17. CASE Dismiss
  BY <1>17 DEF Dismiss, servers, task, page, local, IInv, TypeOK, TaskInv, Prompt,
     Records, None
<1>18. CASE ServerStops
  BY <1>18 DEF ServerStops, servers, task, page, local, IInv, TypeOK, TaskInv,
     Prompt, Records, None
<1>19. CASE Crash
  BY <1>19 DEF Crash, servers, task, page, local, IInv, TypeOK, TaskInv, Prompt,
     Records, None
<1>20. ASSUME NEW t \in Tasks, Dial(t)
      PROVE  TypeOK'
  <2>1. CASE NoAnswer(t)
    BY <2>1, NoAnswerTyped, Typed, Together DEF NoAnswer, IInv
  <2>2. CASE Goes(t, "probe") /\ UNCHANGED <<local, page, file, book, hurt>>
    <3>1. /\ op' \in [Tasks -> Ops] /\ trust' \in [Tasks -> BOOLEAN]
          /\ key' \in [Tasks -> Keys \cup {NoKey}] /\ text' \in [Tasks -> Records]
      BY <2>2, Typed DEF IInv, TaskTyped, local
    <3>2. TaskTyped'
      BY <2>2, <3>1, GoesTyped, Typed DEF IInv, Stages
    <3> QED BY <2>2, <3>2, Typed, Together DEF IInv, PageTyped, page
  <2> QED BY <1>20, <2>1, <2>2 DEF Dial
<1>21. ASSUME NEW t \in Tasks, ClickDisconnect(t)
      PROVE  TypeOK'
  BY <1>21 DEF ClickDisconnect, Start, servers, task, page, local, IInv, TypeOK,
     TaskInv, Prompt, Records, None
<1>22. ASSUME NEW t \in Tasks, Disconnected(t)
      PROVE  TypeOK'
  BY <1>22 DEF Disconnected, Ends, servers, task, page, local, IInv, TypeOK,
     TaskInv, Prompt, Records, None
<1>23. ASSUME NEW t \in Tasks, Swap(t)
      PROVE  TypeOK'
  BY <1>23 DEF Swap, Goes, servers, task, page, local, IInv, TypeOK, TaskInv,
     Prompt, Records, None
<1>24. ASSUME NEW what \in {"listing", "batch"}, Hold(what)
      PROVE  TypeOK'
  BY <1>24 DEF Hold, servers, task, page, local, IInv, TypeOK, TaskInv, Prompt,
     Records, None
<1>25. CASE Release
  BY <1>25 DEF Release, servers, task, page, local, IInv, TypeOK, TaskInv,
     Prompt, Records, None
<1>26. CASE UNCHANGED vars
  BY <1>26 DEF vars, servers, task, page, local, IInv, TypeOK, TaskInv, Prompt,
     Records, None
<1> QED
  BY <1>1, <1>2, <1>3, <1>4, <1>5, <1>6, <1>7, <1>8, <1>9, <1>10, <1>11, <1>12,
     <1>13, <1>14, <1>15, <1>16, <1>17, <1>18, <1>19, <1>20, <1>21, <1>22, <1>23,
     <1>24, <1>25, <1>26 DEF Next, User, Save

LEMMA TaskStep ==
  ASSUME IInv, [Next]_vars
  PROVE  TaskInv'
<1> USE NamesAssumption
<1>1. ASSUME NEW t \in Tasks, NEW h \in Hosts, ClickConnect(t, h)
      PROVE  TaskInv'
  BY <1>1 DEF ClickConnect, Start, servers, task, page, local, IInv, TypeOK,
     TaskInv, Saving
<1>2. ASSUME NEW t \in Tasks, NEW h \in Hosts, Confirm(t, h)
      PROVE  TaskInv'
  BY <1>2 DEF Confirm, Start, servers, task, page, local, IInv, TypeOK, TaskInv,
     Saving
<1>3. ASSUME NEW t \in Tasks, NEW hs \in SUBSET Hosts, RemoveSelected(t, hs)
      PROVE  TaskInv'
  BY <1>3 DEF RemoveSelected, Start, servers, task, page, local, IInv, TypeOK,
     TaskInv, Saving
<1>4. ASSUME NEW t \in Tasks, Probe(t)
      PROVE  TaskInv'
  BY <1>4 DEF Probe, NoAnswer, Goes, Begins, Fails, Ends, servers, task, page,
     local, IInv, TypeOK, TaskInv, Saving
<1>5. ASSUME NEW t \in Tasks, Checked(t)
      PROVE  TaskInv'
  BY <1>5 DEF Checked, Readings, Connect, Goes, Ask, Ends, servers, task, page,
     local, IInv, TypeOK, TaskInv, Saving
<1>6. ASSUME NEW t \in Tasks, Handshake(t)
      PROVE  TaskInv'
  BY <1>6 DEF Handshake, Goes, Fails, Ends, servers, task, page, local, IInv,
     TypeOK, TaskInv, Saving
<1>7. ASSUME NEW t \in Tasks, Lookup(t)
      PROVE  TaskInv'
  BY <1>7 DEF Lookup, Readings, Goes, Begins, Accepted, Fails, Ends, servers,
     task, page, local, IInv, TypeOK, TaskInv, Saving
<1>8. ASSUME NEW t \in Tasks, Login(t)
      PROVE  TaskInv'
  BY <1>8 DEF Login, Goes, Fails, Ends, servers, task, page, local, IInv, TypeOK,
     TaskInv, Saving
<1>9. ASSUME NEW t \in Tasks, Listed(t)
      PROVE  TaskInv'
  BY <1>9 DEF Listed, Fails, Ends, servers, task, page, local, IInv, TypeOK,
     TaskInv, Saving
<1>10. ASSUME NEW t \in Tasks, Deadline(t)
      PROVE  TaskInv'
  BY <1>10 DEF Deadline, Goes, Ends, servers, task, page, local, IInv, TypeOK,
     TaskInv, Saving
<1>11. ASSUME NEW t \in Tasks, Load(t)
      PROVE  TaskInv'
  BY <1>11 DEF Load, Readings, Goes, Fails, Ends, servers, task, page, local,
     IInv, TypeOK, TaskInv, Saving
<1>12. ASSUME NEW t \in Tasks, Replace(t)
      PROVE  TaskInv'
  BY <1>12 DEF Replace, Saved, Connect, Accepted, Goes, Fails, Ends, servers,
     task, page, local, IInv, TypeOK, TaskInv, Saving
<1>13. ASSUME NEW t \in Tasks, Truncate(t)
      PROVE  TaskInv'
  BY <1>13 DEF Truncate, Goes, servers, task, page, local, IInv, TypeOK, TaskInv,
     Saving
<1>14. ASSUME NEW t \in Tasks, Rewrite(t)
      PROVE  TaskInv'
  BY <1>14 DEF Rewrite, Saved, Connect, Accepted, Goes, Fails, Ends, servers,
     task, page, local, IInv, TypeOK, TaskInv, Saving
<1>15. ASSUME NEW t \in Tasks, SaveFails(t)
      PROVE  TaskInv'
  BY <1>15 DEF SaveFails, Accepted, Goes, Fails, Ends, servers, task, page, local,
     IInv, TypeOK, TaskInv, Saving
<1>16. ASSUME NEW h \in Hosts, NEW k \in Keys, Rekey(h, k)
      PROVE  TaskInv'
  BY <1>16 DEF Rekey, servers, task, page, local, IInv, TypeOK, TaskInv, Saving
<1>17. CASE Dismiss
  BY <1>17 DEF Dismiss, servers, task, page, local, IInv, TypeOK, TaskInv, Saving
<1>18. CASE ServerStops
  BY <1>18 DEF ServerStops, servers, task, page, local, IInv, TypeOK, TaskInv,
     Saving
<1>19. CASE Crash
  BY <1>19 DEF Crash, servers, task, page, local, IInv, TypeOK, TaskInv, Saving
<1>20. ASSUME NEW t \in Tasks, Dial(t)
      PROVE  TaskInv'
  BY <1>20 DEF Dial, NoAnswer, Goes, Fails, Ends, servers, task, page, local,
     IInv, TypeOK, TaskInv, Saving
<1>21. ASSUME NEW t \in Tasks, ClickDisconnect(t)
      PROVE  TaskInv'
  BY <1>21 DEF ClickDisconnect, Start, servers, task, page, local, IInv, TypeOK,
     TaskInv, Saving
<1>22. ASSUME NEW t \in Tasks, Disconnected(t)
      PROVE  TaskInv'
  BY <1>22 DEF Disconnected, Ends, servers, task, page, local, IInv, TypeOK,
     TaskInv, Saving
<1>23. ASSUME NEW t \in Tasks, Swap(t)
      PROVE  TaskInv'
  BY <1>23 DEF Swap, Goes, servers, task, page, local, IInv, TypeOK, TaskInv,
     Saving
<1>24. ASSUME NEW what \in {"listing", "batch"}, Hold(what)
      PROVE  TaskInv'
  BY <1>24 DEF Hold, servers, task, page, local, IInv, TypeOK, TaskInv, Saving
<1>25. CASE Release
  BY <1>25 DEF Release, servers, task, page, local, IInv, TypeOK, TaskInv, Saving
<1>26. CASE UNCHANGED vars
  BY <1>26 DEF vars, servers, task, page, local, IInv, TypeOK, TaskInv, Saving
<1> QED
  BY <1>1, <1>2, <1>3, <1>4, <1>5, <1>6, <1>7, <1>8, <1>9, <1>10, <1>11, <1>12,
     <1>13, <1>14, <1>15, <1>16, <1>17, <1>18, <1>19, <1>20, <1>21, <1>22, <1>23,
     <1>24, <1>25, <1>26 DEF Next, User, Save

LEMMA SaveStep ==
  ASSUME IInv, [Next]_vars
  PROVE  SaveInv'
<1> USE NamesAssumption
<1>1. ASSUME NEW t \in Tasks, NEW h \in Hosts, ClickConnect(t, h)
      PROVE  SaveInv'
  <2>1. Others(t) /\ stage'[t] \notin Saving /\ stage[t] # "rewrite"
    BY <1>1 DEF ClickConnect, Start, IInv, TypeOK, Others, Saving
  <2> QED BY <1>1, <2>1, NotSaving DEF ClickConnect, Start
<1>2. ASSUME NEW t \in Tasks, NEW h \in Hosts, Confirm(t, h)
      PROVE  SaveInv'
  <2>1. Others(t) /\ stage'[t] \notin Saving /\ stage[t] # "rewrite"
    BY <1>2 DEF Confirm, Start, IInv, TypeOK, Others, Saving
  <2> QED BY <1>2, <2>1, NotSaving DEF Confirm, Start
<1>3. ASSUME NEW t \in Tasks, NEW hs \in SUBSET Hosts, RemoveSelected(t, hs)
      PROVE  SaveInv'
  BY <1>3 DEF RemoveSelected, Start, servers, task, page, local, IInv, TypeOK,
     TaskInv, SaveInv, Saving, Changed, Records
<1>4. ASSUME NEW t \in Tasks, Probe(t)
      PROVE  SaveInv'
  <2>1. CASE NoAnswer(t)
    BY <1>4, <2>1, NoAnswerOthers, NotSaving DEF Probe, NoAnswer, IInv, Saving
  <2>2. ASSUME NEW s, Goes(t, s), UNCHANGED <<op, text, file>>,
               key' = [key EXCEPT ![t] = serverKey[host[t]]]
        PROVE  Others(t) /\ stage'[t] = s
    <3>1. \A u \in Tasks \ {t} : key'[u] = key[u]
      BY <2>2 DEF IInv, TypeOK
    <3> QED BY <2>2, <3>1, GoesOthers DEF IInv
  <2>3. CASE /\ Goes(t, "load") /\ Begins(t, FALSE) /\ UNCHANGED <<op, text, file>>
             /\ key' = [key EXCEPT ![t] = serverKey[host[t]]]
    <3>1. Others(t) /\ stage'[t] = "load"
      BY <2>2, <2>3
    <3>2. op'[t] = "update" \/ op'[t] = "check"
      BY <1>4, <2>3 DEF Probe, IInv, TaskInv
    <3> QED BY <1>4, <2>3, <3>1, <3>2, BeginsToSave DEF Probe, Begins, Saving
  <2>4. CASE /\ Goes(t, "verdict") /\ UNCHANGED <<op, text, file, book, hurt>>
             /\ key' = [key EXCEPT ![t] = serverKey[host[t]]]
    <3>1. Others(t) /\ stage'[t] = "verdict"
      BY <2>2, <2>4
    <3> QED BY <1>4, <2>4, <3>1, NotSaving DEF Probe, Saving
  <2> QED BY <1>4, <2>1, <2>3, <2>4 DEF Probe
<1>5. ASSUME NEW t \in Tasks, Checked(t)
      PROVE  SaveInv'
  <2>1. UNCHANGED <<file, book, hurt>> /\ stage[t] # "rewrite"
    BY <1>5 DEF Checked
  <2>2. CASE Connect(t, FALSE)
    BY <2>1, <2>2, ConnectOthers, NotSaving DEF IInv, Saving
  <2>3. CASE Ends(t)
    BY <2>1, <2>3, EndsOthers, NotSaving DEF IInv, Saving
  <2> QED BY <1>5, <2>2, <2>3 DEF Checked, Ask
<1>6. ASSUME NEW t \in Tasks, Handshake(t)
      PROVE  SaveInv'
  <2>1. UNCHANGED <<file, book, hurt>> /\ stage[t] # "rewrite"
    BY <1>6 DEF Handshake
  <2>2. CASE Fails(t)
    BY <2>1, <2>2, FailsOthers, NotSaving DEF IInv, Saving
  <2>3. CASE /\ key' = [key EXCEPT ![t] = serverKey[host[t]]]
             /\ Goes(t, "lookup") /\ UNCHANGED <<op, trust, text, page>>
    <3>1. \A u \in Tasks \ {t} : key'[u] = key[u]
      BY <2>3 DEF IInv, TypeOK
    <3>2. Others(t) /\ stage'[t] = "lookup"
      BY <2>3, <3>1, GoesOthers DEF IInv
    <3> QED BY <2>1, <3>2, NotSaving DEF Saving
  <2> QED BY <1>6, <2>2, <2>3 DEF Handshake
<1>7. ASSUME NEW t \in Tasks, Lookup(t)
      PROVE  SaveInv'
  <2>1. UNCHANGED <<file, book>> /\ stage[t] \notin Saving /\ stage[t] # "rewrite"
    BY <1>7 DEF Lookup, Begins, Saving
  <2>2. CASE (Accepted(t) \/ Fails(t)) /\ hurt' = hurt
    BY <2>1, <2>2, FailsOthers, AcceptedOthers, NotSaving DEF IInv, Saving
  <2>3. ASSUME NEW r \in Readings, r[host[t]] = NoKey, Goes(t, "load"),
               Begins(t, r # file), UNCHANGED <<local, page>>
        PROVE  SaveInv'
    <3>1. Others(t) /\ stage'[t] = "load" /\ host' = host
      BY <2>3, GoesOthers DEF IInv, local
    <3>2. ~hurt' => file[host'[t]] = NoKey
      BY <2>3, <3>1 DEF Begins
    <3> QED BY <2>1, <2>3, <3>1, <3>2, BeginsToSave DEF Begins
  <2> QED BY <1>7, <2>2, <2>3 DEF Lookup
<1>8. ASSUME NEW t \in Tasks, Login(t)
      PROVE  SaveInv'
  <2>1. UNCHANGED <<file, book, hurt>> /\ stage[t] # "rewrite"
    BY <1>8 DEF Login
  <2>2. CASE Fails(t)
    BY <2>1, <2>2, FailsOthers, NotSaving DEF IInv, Saving
  <2>3. CASE Goes(t, "swap") /\ UNCHANGED local
    <3>1. Others(t) /\ stage'[t] = "swap"
      BY <2>3, GoesOthers DEF IInv, local
    <3> QED BY <2>1, <3>1, NotSaving DEF Saving
  <2> QED BY <1>8, <2>2, <2>3 DEF Login
<1>9. ASSUME NEW t \in Tasks, Listed(t)
      PROVE  SaveInv'
  <2> QED
    BY <1>9, FailsOthers, NotSaving DEF Listed, IInv, Saving
<1>10. ASSUME NEW t \in Tasks, Deadline(t)
      PROVE  SaveInv'
  <2>1. UNCHANGED <<file, book, hurt>>
    BY <1>10 DEF Deadline
  <2>2. CASE Ends(t) /\ stage[t] = "login"
    BY <2>1, <2>2, EndsOthers, NotSaving DEF IInv, Saving
  <2>3. CASE /\ Goes(t, stage[t]) /\ op' = [op EXCEPT ![t] = "orphan"]
             /\ UNCHANGED <<trust, key, text>>
    <3>1. UNCHANGED <<stage, host, picked, key, text>> /\ op[t] = "connect"
      BY <1>10, <2>3 DEF Goes, Deadline, IInv, TypeOK
    <3>2. /\ op'[t] = "orphan"
          /\ \A u \in Tasks : u # t => op'[u] = op[u]
      BY <2>3 DEF IInv, TypeOK
    <3>3. \A u \in Tasks : Changed(u, book)' = Changed(u, book)
      BY <2>1, <3>1, <3>2 DEF Changed
    <3> QED BY <2>1, <3>1, <3>2, <3>3 DEF IInv, SaveInv
  <2> QED BY <1>10, <2>2, <2>3 DEF Deadline
<1>11. ASSUME NEW t \in Tasks, Load(t)
      PROVE  SaveInv'
  <2>1. UNCHANGED <<file, book>> /\ stage[t] = "load" /\ (hurt => hurt')
    BY <1>11 DEF Load
  <2>2. CASE Fails(t)
    <3>1. CASE hurt'
      BY <3>1 DEF SaveInv
    <3>2. CASE ~hurt'
      <4>1. hurt' = hurt
        BY <1>11, <3>2 DEF Load, IInv, TypeOK
      <4> QED BY <2>1, <2>2, <4>1, FailsOthers, NotSaving DEF IInv, Saving
    <3> QED BY <3>1, <3>2
  <2>3. ASSUME NEW r \in Readings, Goes(t, "store"), r # file => hurt',
               text' = [text EXCEPT ![t] = Changed(t, r)],
               UNCHANGED <<op, trust, key, page>>
        PROVE  SaveInv'
    <3> SUFFICES ASSUME ~hurt' PROVE SaveInv'
      BY DEF SaveInv
    <3>1. Others(t) /\ stage'[t] = "store" /\ host' = host
      <4>1. \A u \in Tasks \ {t} : text'[u] = text[u]
        BY <2>3 DEF IInv, TypeOK
      <4> QED BY <2>3, <4>1, GoesOthers DEF IInv
    <3>2. r = file /\ \A u \in Tasks : u # t => stage[u] \notin Saving
      BY <2>1, <2>3 DEF IInv, SaveInv, Saving
    <3>3. \A u \in Tasks : u # t => stage'[u] \notin Saving
      BY <3>1, <3>2 DEF Others
    <3>4. file = book
      BY <2>1, <3>2 DEF IInv, SaveInv, Saving
    <3>5. text'[t] = Changed(t, book)'
      <4>1. text'[t] = Changed(t, book)
        BY <2>3, <3>2, <3>4 DEF IInv, TypeOK
      <4>2. UNCHANGED <<op, host, key, picked, book>>
        BY <2>1, <2>3 DEF Goes
      <4> QED BY <4>1, <4>2 DEF Changed
    <3>6. op'[t] \in {"connect", "orphan"} => book'[host'[t]] = NoKey
      BY <2>1, <2>3, <3>1 DEF IInv, SaveInv, Saving
    <3>7. file' = book'
      BY <2>1, <3>4
    <3> QED BY <3>1, <3>3, <3>5, <3>6, <3>7 DEF SaveInv, Saving
  <2> QED BY <1>11, <2>2, <2>3 DEF Load
<1>12. ASSUME NEW t \in Tasks, Replace(t)
      PROVE  SaveInv'
  <2>1. /\ stage[t] \in {"store", "rewrite"} /\ hurt' = hurt
        /\ file' = text[t] /\ book' = Changed(t, book)
    BY <1>12 DEF Replace, Saved
  <2>2. CASE Connect(t, TRUE)
    BY <2>1, <2>2, ConnectOthers, HasSaved DEF IInv, Saving
  <2>3. CASE Fails(t) \/ Accepted(t)
    BY <2>1, <2>3, FailsOthers, AcceptedOthers, HasSaved DEF IInv, Saving
  <2> QED BY <1>12, <2>2, <2>3 DEF Replace, Saved
<1>13. ASSUME NEW t \in Tasks, Truncate(t)
      PROVE  SaveInv'
  BY <1>13 DEF Truncate, Goes, servers, task, page, local, IInv, TypeOK, TaskInv,
     SaveInv, Saving, Changed, Records
<1>14. ASSUME NEW t \in Tasks, Rewrite(t)
      PROVE  SaveInv'
  <2>1. /\ stage[t] \in {"store", "rewrite"} /\ hurt' = hurt
        /\ file' = text[t] /\ book' = Changed(t, book)
    BY <1>14 DEF Rewrite, Saved
  <2>2. CASE Connect(t, TRUE)
    BY <2>1, <2>2, ConnectOthers, HasSaved DEF IInv, Saving
  <2>3. CASE Fails(t) \/ Accepted(t)
    BY <2>1, <2>3, FailsOthers, AcceptedOthers, HasSaved DEF IInv, Saving
  <2> QED BY <1>14, <2>2, <2>3 DEF Rewrite, Saved
<1>15. ASSUME NEW t \in Tasks, SaveFails(t)
      PROVE  SaveInv'
  <2>1. UNCHANGED <<file, book>> /\ hurt' = (hurt \/ stage[t] = "rewrite")
    BY <1>15 DEF SaveFails
  <2>2. Others(t) /\ stage'[t] \notin Saving
    BY <1>15, FailsOthers, AcceptedOthers DEF SaveFails, IInv, Saving
  <2>3. CASE stage[t] = "rewrite"
    BY <2>1, <2>3 DEF SaveInv
  <2>4. CASE stage[t] # "rewrite"
    <3>1. hurt' = hurt
      BY <2>1, <2>4 DEF IInv, TypeOK
    <3> QED BY <2>1, <2>2, <2>4, <3>1, NotSaving
  <2> QED BY <2>3, <2>4
<1>16. ASSUME NEW h \in Hosts, NEW k \in Keys, Rekey(h, k)
      PROVE  SaveInv'
  BY <1>16 DEF Rekey, servers, task, page, local, IInv, TypeOK, TaskInv, SaveInv,
     Saving, Changed, Records
<1>17. CASE Dismiss
  BY <1>17 DEF Dismiss, servers, task, page, local, IInv, TypeOK, TaskInv,
     SaveInv, Saving, Changed, Records
<1>18. CASE ServerStops
  BY <1>18 DEF ServerStops, servers, task, page, local, IInv, TypeOK, TaskInv,
     SaveInv, Saving, Changed, Records
<1>19. CASE Crash
  BY <1>19 DEF Crash, servers, task, page, local, IInv, TypeOK, TaskInv, SaveInv,
     Saving, Changed, Records
<1>20. ASSUME NEW t \in Tasks, Dial(t)
      PROVE  SaveInv'
  <2>1. CASE NoAnswer(t)
    BY <1>20, <2>1, NoAnswerOthers, NotSaving DEF Dial, NoAnswer, IInv, Saving
  <2>2. CASE Goes(t, "probe") /\ UNCHANGED <<local, file, book, hurt>>
    <3>1. Others(t) /\ stage'[t] = "probe"
      BY <2>2, GoesOthers DEF IInv, local
    <3> QED BY <1>20, <2>2, <3>1, NotSaving DEF Dial, Saving
  <2> QED BY <1>20, <2>1, <2>2 DEF Dial
<1>21. ASSUME NEW t \in Tasks, ClickDisconnect(t)
      PROVE  SaveInv'
  <2>1. Others(t) /\ stage'[t] \notin Saving /\ stage[t] # "rewrite"
    BY <1>21 DEF ClickDisconnect, Start, IInv, TypeOK, Others, Saving
  <2> QED BY <1>21, <2>1, NotSaving DEF ClickDisconnect, Start
<1>22. ASSUME NEW t \in Tasks, Disconnected(t)
      PROVE  SaveInv'
  BY <1>22, EndsOthers, NotSaving DEF Disconnected, IInv, Saving
<1>23. ASSUME NEW t \in Tasks, Swap(t)
      PROVE  SaveInv'
  BY <1>23 DEF Swap, Goes, servers, task, page, local, IInv, TypeOK, TaskInv,
     SaveInv, Saving, Changed, Records
<1>24. ASSUME NEW what \in {"listing", "batch"}, Hold(what)
      PROVE  SaveInv'
  BY <1>24 DEF Hold, servers, task, page, local, IInv, TypeOK, TaskInv, SaveInv,
     Saving, Changed, Records
<1>25. CASE Release
  BY <1>25 DEF Release, servers, task, page, local, IInv, TypeOK, TaskInv,
     SaveInv, Saving, Changed, Records
<1>26. CASE UNCHANGED vars
  BY <1>26 DEF vars, servers, task, page, local, IInv, TypeOK, TaskInv, SaveInv,
     Saving, Changed, Records
<1> QED
  BY <1>1, <1>2, <1>3, <1>4, <1>5, <1>6, <1>7, <1>8, <1>9, <1>10, <1>11, <1>12,
     <1>13, <1>14, <1>15, <1>16, <1>17, <1>18, <1>19, <1>20, <1>21, <1>22, <1>23,
     <1>24, <1>25, <1>26 DEF Next, User, Save

LEMMA KeyStep ==
  ASSUME IInv, [Next]_vars
  PROVE  KeyInv'
<1> USE NamesAssumption, BoundsAssumption
<1>1. ASSUME NEW t \in Tasks, NEW h \in Hosts, ClickConnect(t, h)
      PROVE  KeyInv'
  BY <1>1 DEF ClickConnect, Start, servers, task, page, local, IInv, TypeOK,
     TaskInv, KeyInv
<1>2. ASSUME NEW t \in Tasks, NEW h \in Hosts, Confirm(t, h)
      PROVE  KeyInv'
  BY <1>2 DEF Confirm, Start, servers, task, page, local, IInv, TypeOK, TaskInv,
     KeyInv
<1>3. ASSUME NEW t \in Tasks, NEW hs \in SUBSET Hosts, RemoveSelected(t, hs)
      PROVE  KeyInv'
  BY <1>3 DEF RemoveSelected, Start, servers, task, page, local, IInv, TypeOK,
     TaskInv, KeyInv
<1>4. ASSUME NEW t \in Tasks, Probe(t)
      PROVE  KeyInv'
  BY <1>4 DEF Probe, NoAnswer, Goes, Begins, Fails, Ends, servers, task, page,
     local, IInv, TypeOK, TaskInv, KeyInv
<1>5. ASSUME NEW t \in Tasks, Checked(t)
      PROVE  KeyInv'
  BY <1>5 DEF Checked, Readings, Connect, Goes, Ask, Ends, servers, task, page,
     local, IInv, TypeOK, TaskInv, KeyInv
<1>6. ASSUME NEW t \in Tasks, Handshake(t)
      PROVE  KeyInv'
  BY <1>6 DEF Handshake, Goes, Fails, Ends, servers, task, page, local, IInv,
     TypeOK, TaskInv, KeyInv
<1>7. ASSUME NEW t \in Tasks, Lookup(t)
      PROVE  KeyInv'
  BY <1>7 DEF Lookup, Readings, Goes, Begins, Accepted, Fails, Ends, servers,
     task, page, local, IInv, TypeOK, TaskInv, KeyInv
<1>8. ASSUME NEW t \in Tasks, Login(t)
      PROVE  KeyInv'
  BY <1>8 DEF Login, Goes, Fails, Ends, servers, task, page, local, IInv, TypeOK,
     TaskInv, KeyInv
<1>9. ASSUME NEW t \in Tasks, Listed(t)
      PROVE  KeyInv'
  BY <1>9 DEF Listed, Fails, Ends, servers, task, page, local, IInv, TypeOK,
     TaskInv, KeyInv
<1>10. ASSUME NEW t \in Tasks, Deadline(t)
      PROVE  KeyInv'
  BY <1>10 DEF Deadline, Goes, Ends, servers, task, page, local, IInv, TypeOK,
     TaskInv, KeyInv
<1>11. ASSUME NEW t \in Tasks, Load(t)
      PROVE  KeyInv'
  BY <1>11 DEF Load, Readings, Goes, Fails, Ends, servers, task, page, local,
     IInv, TypeOK, TaskInv, KeyInv
<1>12. ASSUME NEW t \in Tasks, Replace(t)
      PROVE  KeyInv'
  BY <1>12 DEF Replace, Saved, Connect, Accepted, Goes, Fails, Ends, servers,
     task, page, local, IInv, TypeOK, TaskInv, KeyInv
<1>13. ASSUME NEW t \in Tasks, Truncate(t)
      PROVE  KeyInv'
  BY <1>13 DEF Truncate, Goes, servers, task, page, local, IInv, TypeOK, TaskInv,
     KeyInv
<1>14. ASSUME NEW t \in Tasks, Rewrite(t)
      PROVE  KeyInv'
  BY <1>14 DEF Rewrite, Saved, Connect, Accepted, Goes, Fails, Ends, servers,
     task, page, local, IInv, TypeOK, TaskInv, KeyInv
<1>15. ASSUME NEW t \in Tasks, SaveFails(t)
      PROVE  KeyInv'
  BY <1>15 DEF SaveFails, Accepted, Goes, Fails, Ends, servers, task, page, local,
     IInv, TypeOK, TaskInv, KeyInv
<1>16. ASSUME NEW h \in Hosts, NEW k \in Keys, Rekey(h, k)
      PROVE  KeyInv'
  BY <1>16 DEF Rekey, servers, task, page, local, IInv, TypeOK, TaskInv, KeyInv
<1>17. CASE Dismiss
  BY <1>17 DEF Dismiss, servers, task, page, local, IInv, TypeOK, TaskInv, KeyInv
<1>18. CASE ServerStops
  BY <1>18 DEF ServerStops, servers, task, page, local, IInv, TypeOK, TaskInv,
     KeyInv
<1>19. CASE Crash
  BY <1>19 DEF Crash, servers, task, page, local, IInv, TypeOK, TaskInv, KeyInv
<1>20. ASSUME NEW t \in Tasks, Dial(t)
      PROVE  KeyInv'
  BY <1>20 DEF Dial, NoAnswer, Goes, Fails, Ends, servers, task, page, local,
     IInv, TypeOK, TaskInv, KeyInv
<1>21. ASSUME NEW t \in Tasks, ClickDisconnect(t)
      PROVE  KeyInv'
  BY <1>21 DEF ClickDisconnect, Start, servers, task, page, local, IInv, TypeOK,
     TaskInv, KeyInv
<1>22. ASSUME NEW t \in Tasks, Disconnected(t)
      PROVE  KeyInv'
  BY <1>22 DEF Disconnected, Ends, servers, task, page, local, IInv, TypeOK,
     TaskInv, KeyInv
<1>23. ASSUME NEW t \in Tasks, Swap(t)
      PROVE  KeyInv'
  BY <1>23 DEF Swap, Goes, servers, task, page, local, IInv, TypeOK, TaskInv,
     KeyInv
<1>24. ASSUME NEW what \in {"listing", "batch"}, Hold(what)
      PROVE  KeyInv'
  BY <1>24 DEF Hold, servers, task, page, local, IInv, TypeOK, TaskInv, KeyInv
<1>25. CASE Release
  BY <1>25 DEF Release, servers, task, page, local, IInv, TypeOK, TaskInv, KeyInv
<1>26. CASE UNCHANGED vars
  BY <1>26 DEF vars, servers, task, page, local, IInv, TypeOK, TaskInv, KeyInv
<1> QED
  BY <1>1, <1>2, <1>3, <1>4, <1>5, <1>6, <1>7, <1>8, <1>9, <1>10, <1>11, <1>12,
     <1>13, <1>14, <1>15, <1>16, <1>17, <1>18, <1>19, <1>20, <1>21, <1>22, <1>23,
     <1>24, <1>25, <1>26 DEF Next, User, Save

LEMMA TrustStep ==
  ASSUME IInv, [Next]_vars
  PROVE  TrustInv'
<1>1. ASSUME NEW t \in Tasks, NEW h \in Hosts, ClickConnect(t, h)
      PROVE  TrustInv'
  BY <1>1 DEF ClickConnect, Start, servers, task, page, local, IInv, TypeOK,
     TaskInv, TrustInv, Saving
<1>2. ASSUME NEW t \in Tasks, NEW h \in Hosts, Confirm(t, h)
      PROVE  TrustInv'
  BY <1>2 DEF Confirm, Start, servers, task, page, local, IInv, TypeOK, TaskInv,
     TrustInv, Saving
<1>3. ASSUME NEW t \in Tasks, NEW hs \in SUBSET Hosts, RemoveSelected(t, hs)
      PROVE  TrustInv'
  BY <1>3 DEF RemoveSelected, Start, servers, task, page, local, IInv, TypeOK,
     TaskInv, TrustInv, Saving
<1>4. ASSUME NEW t \in Tasks, Probe(t)
      PROVE  TrustInv'
  BY <1>4 DEF Probe, NoAnswer, Goes, Begins, Fails, Ends, servers, task, page,
     local, IInv, TypeOK, TaskInv, TrustInv, Saving
<1>5. ASSUME NEW t \in Tasks, Checked(t)
      PROVE  TrustInv'
  BY <1>5 DEF Checked, Readings, Connect, Goes, Ask, Ends, servers, task, page,
     local, IInv, TypeOK, TaskInv, TrustInv, Saving
<1>6. ASSUME NEW t \in Tasks, Handshake(t)
      PROVE  TrustInv'
  BY <1>6 DEF Handshake, Goes, Fails, Ends, servers, task, page, local, IInv,
     TypeOK, TaskInv, TrustInv, Saving
<1>7. ASSUME NEW t \in Tasks, Lookup(t)
      PROVE  TrustInv'
  BY <1>7 DEF Lookup, Readings, Goes, Begins, Accepted, Fails, Ends, servers,
     task, page, local, IInv, TypeOK, TaskInv, TrustInv, Saving
<1>8. ASSUME NEW t \in Tasks, Login(t)
      PROVE  TrustInv'
  BY <1>8 DEF Login, Goes, Fails, Ends, servers, task, page, local, IInv, TypeOK,
     TaskInv, TrustInv, Saving
<1>9. ASSUME NEW t \in Tasks, Listed(t)
      PROVE  TrustInv'
  BY <1>9 DEF Listed, Fails, Ends, servers, task, page, local, IInv, TypeOK,
     TaskInv, TrustInv, Saving
<1>10. ASSUME NEW t \in Tasks, Deadline(t)
      PROVE  TrustInv'
  BY <1>10 DEF Deadline, Goes, Ends, servers, task, page, local, IInv, TypeOK,
     TaskInv, TrustInv, Saving
<1>11. ASSUME NEW t \in Tasks, Load(t)
      PROVE  TrustInv'
  BY <1>11 DEF Load, Readings, Goes, Fails, Ends, servers, task, page, local,
     IInv, TypeOK, TaskInv, TrustInv, Saving
<1>12. ASSUME NEW t \in Tasks, Replace(t)
      PROVE  TrustInv'
  BY <1>12 DEF Replace, Saved, Connect, Accepted, Goes, Fails, Ends, servers,
     task, page, local, IInv, TypeOK, TaskInv, TrustInv, Saving
<1>13. ASSUME NEW t \in Tasks, Truncate(t)
      PROVE  TrustInv'
  BY <1>13 DEF Truncate, Goes, servers, task, page, local, IInv, TypeOK, TaskInv,
     TrustInv, Saving
<1>14. ASSUME NEW t \in Tasks, Rewrite(t)
      PROVE  TrustInv'
  BY <1>14 DEF Rewrite, Saved, Connect, Accepted, Goes, Fails, Ends, servers,
     task, page, local, IInv, TypeOK, TaskInv, TrustInv, Saving
<1>15. ASSUME NEW t \in Tasks, SaveFails(t)
      PROVE  TrustInv'
  BY <1>15 DEF SaveFails, Accepted, Goes, Fails, Ends, servers, task, page, local,
     IInv, TypeOK, TaskInv, TrustInv, Saving
<1>16. ASSUME NEW h \in Hosts, NEW k \in Keys, Rekey(h, k)
      PROVE  TrustInv'
  BY <1>16 DEF Rekey, servers, task, page, local, IInv, TypeOK, TaskInv, TrustInv,
     Saving
<1>17. CASE Dismiss
  BY <1>17 DEF Dismiss, servers, task, page, local, IInv, TypeOK, TaskInv,
     TrustInv, Saving
<1>18. CASE ServerStops
  BY <1>18 DEF ServerStops, servers, task, page, local, IInv, TypeOK, TaskInv,
     TrustInv, Saving
<1>19. CASE Crash
  BY <1>19 DEF Crash, servers, task, page, local, IInv, TypeOK, TaskInv, TrustInv,
     Saving
<1>20. ASSUME NEW t \in Tasks, Dial(t)
      PROVE  TrustInv'
  BY <1>20 DEF Dial, NoAnswer, Goes, Fails, Ends, servers, task, page, local,
     IInv, TypeOK, TaskInv, TrustInv, Saving
<1>21. ASSUME NEW t \in Tasks, ClickDisconnect(t)
      PROVE  TrustInv'
  BY <1>21 DEF ClickDisconnect, Start, servers, task, page, local, IInv, TypeOK,
     TaskInv, TrustInv, Saving
<1>22. ASSUME NEW t \in Tasks, Disconnected(t)
      PROVE  TrustInv'
  BY <1>22 DEF Disconnected, Ends, servers, task, page, local, IInv, TypeOK,
     TaskInv, TrustInv, Saving
<1>23. ASSUME NEW t \in Tasks, Swap(t)
      PROVE  TrustInv'
  BY <1>23 DEF Swap, Goes, servers, task, page, local, IInv, TypeOK, TaskInv,
     TrustInv, Saving
<1>24. ASSUME NEW what \in {"listing", "batch"}, Hold(what)
      PROVE  TrustInv'
  BY <1>24 DEF Hold, servers, task, page, local, IInv, TypeOK, TaskInv,
     TrustInv, Saving
<1>25. CASE Release
  BY <1>25 DEF Release, servers, task, page, local, IInv, TypeOK, TaskInv,
     TrustInv, Saving
<1>26. CASE UNCHANGED vars
  BY <1>26 DEF vars, servers, task, page, local, IInv, TypeOK, TaskInv, TrustInv,
     Saving
<1> QED
  BY <1>1, <1>2, <1>3, <1>4, <1>5, <1>6, <1>7, <1>8, <1>9, <1>10, <1>11, <1>12,
     <1>13, <1>14, <1>15, <1>16, <1>17, <1>18, <1>19, <1>20, <1>21, <1>22, <1>23,
     <1>24, <1>25, <1>26 DEF Next, User, Save

LEMMA InitInv == Init => IInv
<1> SUFFICES ASSUME Init PROVE IInv
  OBVIOUS
<1>1. TypeOK
  <2>1. None \in Records /\ "free" \in Stages /\ 0 \in 0..MaxRekeys
        /\ 0 \in 0..MaxCommands
    BY BoundsAssumption DEF None, Records, Stages
  <2>2. TaskTyped
    BY <2>1 DEF Init, TaskTyped, Ops
  <2>3. PageTyped
    BY DEF Init, PageTyped
  <2>4. file \in Records /\ book \in Records /\ hurt \in BOOLEAN
    BY DEF Init
  <2> QED BY <2>2, <2>3, <2>4, Typed
<1>2. TaskInv /\ SaveInv /\ KeyInv /\ TrustInv
  BY NamesAssumption DEF Init, TaskInv, SaveInv, KeyInv, TrustInv, Saving
<1> QED BY <1>1, <1>2 DEF IInv

LEMMA InvariantHolds == Spec => []IInv
<1>1. IInv /\ [Next]_vars => IInv'
  BY TypeStep, TaskStep, SaveStep, KeyStep, TrustStep DEF IInv
<1> QED BY <1>1, InitInv, PTL DEF Spec

-----------------------------------------------------------------------------
(* The theorems.                                                           *)

\* Every variable keeps to its type.
THEOREM TypeCorrect == Spec => []TypeOK
<1>1. IInv => TypeOK
  BY DEF IInv
<1> QED BY <1>1, InvariantHolds, PTL

\* The records on disk are what the commands made of them, one after the
\* other, through crashes and failed writes, until two writers overlap, a
\* read fails or a write in place is cut short.
THEOREM TrustCorrect == Spec => []TrustedStays
<1>1. IInv => TrustedStays
  BY DEF IInv, SaveInv, TrustedStays
<1> QED BY <1>1, InvariantHolds, PTL

\* Nothing is recorded that no dialog was confirmed for, and no record is
\* updated without a warning.  What is recorded is what the dialog showed,
\* unless the endpoint was edited after the check, the check had got no
\* fingerprint, or the server of the endpoint changed its key.
THEOREM ShownCorrect == Spec => []TrustAsShown
<1>1. IInv => TrustAsShown
  <2> SUFFICES ASSUME IInv, NEW t \in Tasks, op[t] # "remove", stage[t] \in Saving
               PROVE  /\ shown[t] # NoPrompt
                      /\ op[t] = "update" => shown[t].kind = "changed"
                      /\ /\ shown[t].host = host[t] /\ shown[t].key # NoKey
                         /\ host[t] \notin turned
                         => shown[t].key = key[t]
    BY Zenon DEF TrustAsShown
  <2>1. op[t] \in {"update", "connect", "orphan"} /\ key[t] # NoKey
    BY NamesAssumption DEF IInv, TaskInv
  <2>2. shown[t] # NoPrompt /\ (op[t] = "update" => shown[t].kind = "changed")
    BY <2>1 DEF IInv, TrustInv
  <2>3. host[t] \notin turned => key[t] = serverKey[host[t]]
    BY <2>1 DEF IInv, KeyInv
  <2>4. shown[t].key # NoKey /\ shown[t].host \notin turned =>
          shown[t].key = serverKey[shown[t].host]
    BY <2>2 DEF IInv, KeyInv
  <2> QED BY <2>2, <2>3, <2>4
<1> QED BY <1>1, InvariantHolds, PTL

\* A record replaced by another key is replaced by an update.
UpdateOverwrites ==
  ~hurt => \A h \in Hosts :
         book[h] # NoKey /\ book'[h] \notin {book[h], NoKey} =>
           \E t \in Tasks : /\ stage[t] \in Saving
                            /\ op[t] = "update" /\ host[t] = h

LEMMA Overwrites ==
  ASSUME IInv, [Next]_vars
  PROVE  UpdateOverwrites
<1>1. ASSUME NEW t \in Tasks, NEW h \in Hosts, ClickConnect(t, h)
      PROVE  UpdateOverwrites
  BY <1>1 DEF ClickConnect, Start, servers, task, page, local, UpdateOverwrites
<1>2. ASSUME NEW t \in Tasks, NEW h \in Hosts, Confirm(t, h)
      PROVE  UpdateOverwrites
  BY <1>2 DEF Confirm, Start, servers, task, page, local, UpdateOverwrites
<1>3. ASSUME NEW t \in Tasks, NEW hs \in SUBSET Hosts, RemoveSelected(t, hs)
      PROVE  UpdateOverwrites
  BY <1>3 DEF RemoveSelected, Start, servers, task, page, local, UpdateOverwrites
<1>4. ASSUME NEW t \in Tasks, Probe(t)
      PROVE  UpdateOverwrites
  BY <1>4 DEF Probe, NoAnswer, Goes, Begins, Fails, Ends, servers, task, page,
     local, UpdateOverwrites
<1>5. ASSUME NEW t \in Tasks, Checked(t)
      PROVE  UpdateOverwrites
  BY <1>5 DEF Checked, Readings, Connect, Goes, Ask, Ends, servers, task, page,
     local, UpdateOverwrites
<1>6. ASSUME NEW t \in Tasks, Handshake(t)
      PROVE  UpdateOverwrites
  BY <1>6 DEF Handshake, Goes, Fails, Ends, servers, task, page, local,
     UpdateOverwrites
<1>7. ASSUME NEW t \in Tasks, Lookup(t)
      PROVE  UpdateOverwrites
  BY <1>7 DEF Lookup, Readings, Goes, Begins, Accepted, Fails, Ends, servers,
     task, page, local, UpdateOverwrites
<1>8. ASSUME NEW t \in Tasks, Login(t)
      PROVE  UpdateOverwrites
  BY <1>8 DEF Login, Goes, Fails, Ends, servers, task, page, local,
     UpdateOverwrites
<1>9. ASSUME NEW t \in Tasks, Listed(t)
      PROVE  UpdateOverwrites
  BY <1>9 DEF Listed, Fails, Ends, servers, task, page, local, UpdateOverwrites
<1>10. ASSUME NEW t \in Tasks, Deadline(t)
      PROVE  UpdateOverwrites
  BY <1>10 DEF Deadline, Goes, Ends, servers, task, page, local, UpdateOverwrites
<1>11. ASSUME NEW t \in Tasks, Load(t)
      PROVE  UpdateOverwrites
  BY <1>11 DEF Load, Readings, Goes, Fails, Ends, servers, task, page, local,
     UpdateOverwrites
<1>12. ASSUME NEW t \in Tasks, Replace(t)
      PROVE  UpdateOverwrites
  BY <1>12 DEF Replace, Saved, Connect, Accepted, Goes, Fails, Ends, servers,
     task, page, local, UpdateOverwrites, IInv, TypeOK, Records, TaskInv, SaveInv,
     Saving, Changed
<1>13. ASSUME NEW t \in Tasks, Truncate(t)
      PROVE  UpdateOverwrites
  BY <1>13 DEF Truncate, Goes, servers, task, page, local, UpdateOverwrites
<1>14. ASSUME NEW t \in Tasks, Rewrite(t)
      PROVE  UpdateOverwrites
  BY <1>14 DEF Rewrite, Saved, Connect, Accepted, Goes, Fails, Ends, servers,
     task, page, local, UpdateOverwrites, IInv, TypeOK, Records, TaskInv, SaveInv,
     Saving, Changed
<1>15. ASSUME NEW t \in Tasks, SaveFails(t)
      PROVE  UpdateOverwrites
  BY <1>15 DEF SaveFails, Accepted, Goes, Fails, Ends, servers, task, page, local,
     UpdateOverwrites
<1>16. ASSUME NEW h \in Hosts, NEW k \in Keys, Rekey(h, k)
      PROVE  UpdateOverwrites
  BY <1>16 DEF Rekey, servers, task, page, local, UpdateOverwrites
<1>17. CASE Dismiss
  BY <1>17 DEF Dismiss, servers, task, page, local, UpdateOverwrites
<1>18. CASE ServerStops
  BY <1>18 DEF ServerStops, servers, task, page, local, UpdateOverwrites
<1>19. CASE Crash
  BY <1>19 DEF Crash, servers, task, page, local, UpdateOverwrites
<1>20. ASSUME NEW t \in Tasks, Dial(t)
      PROVE  UpdateOverwrites
  BY <1>20 DEF Dial, NoAnswer, Goes, Fails, Ends, servers, task, page, local,
     UpdateOverwrites
<1>21. ASSUME NEW t \in Tasks, ClickDisconnect(t)
      PROVE  UpdateOverwrites
  BY <1>21 DEF ClickDisconnect, Start, servers, task, page, local,
     UpdateOverwrites
<1>22. ASSUME NEW t \in Tasks, Disconnected(t)
      PROVE  UpdateOverwrites
  BY <1>22 DEF Disconnected, Ends, servers, task, page, local, UpdateOverwrites
<1>23. ASSUME NEW t \in Tasks, Swap(t)
      PROVE  UpdateOverwrites
  BY <1>23 DEF Swap, Goes, servers, task, page, local, UpdateOverwrites
<1>24. ASSUME NEW what \in {"listing", "batch"}, Hold(what)
      PROVE  UpdateOverwrites
  BY <1>24 DEF Hold, servers, task, page, local, UpdateOverwrites
<1>25. CASE Release
  BY <1>25 DEF Release, servers, task, page, local, UpdateOverwrites
<1>26. CASE UNCHANGED vars
  BY <1>26 DEF vars, servers, task, page, local, UpdateOverwrites
<1> QED
  BY <1>1, <1>2, <1>3, <1>4, <1>5, <1>6, <1>7, <1>8, <1>9, <1>10, <1>11, <1>12,
     <1>13, <1>14, <1>15, <1>16, <1>17, <1>18, <1>19, <1>20, <1>21, <1>22, <1>23,
     <1>24, <1>25, <1>26 DEF Next, User, Save

\* No connect replaces a record by another key, whatever is under way beside
\* it, until two writers overlap, a read fails or a write is cut short.
THEOREM OverwriteCorrect == Spec => OnlyUpdateOverwrites
<1>1. IInv /\ [Next]_vars =>
        [~hurt => \A h \in Hosts :
             book[h] # NoKey /\ book'[h] \notin {book[h], NoKey} =>
               \E t \in Tasks : /\ stage[t] \in Saving
                                /\ op[t] = "update" /\ host[t] = h]_vars
  BY Overwrites DEF UpdateOverwrites
<1> QED BY <1>1, InvariantHolds, PTL DEF Spec, OnlyUpdateOverwrites

============================================================================
