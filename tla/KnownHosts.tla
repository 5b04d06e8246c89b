----------------------------- MODULE KnownHosts -----------------------------
(***************************************************************************)
(* Trust on first use: the known_hosts file of sftp/keys.rs, the probe and *)
(* the handshake of sftp/client.rs that read and write it, the commands of *)
(* the shell, and the page that asks the user (SftpClientView.tsx).        *)
(*                                                                         *)
(* A command runs on a thread of its own; every access to the file is a    *)
(* step, and no lock is held between the read of the records and the write *)
(* that replaces them.  The session that is open is behind a mutex, which  *)
(* a connect and a disconnect of the page wait for.                        *)
(***************************************************************************)
EXTENDS Naturals

CONSTANTS
  Hosts,        \* the endpoints, "host:port" in lower case
  Keys,         \* the fingerprints servers may present
  Tasks,        \* the commands that can be under way together
  MaxCommands,  \* bound on the commands of the user
  MaxRekeys,    \* bound on the key changes of the servers
  NoKey, NoHost, NoPrompt

ASSUME BoundsAssumption == MaxCommands \in Nat /\ MaxRekeys \in Nat
ASSUME NamesAssumption == NoKey \notin Keys /\ NoHost \notin Hosts

Records == [Hosts -> Keys \cup {NoKey}]
None == [h \in Hosts |-> NoKey]

Prompt == [kind: {"unknown", "changed"}, host: Hosts, key: Keys \cup {NoKey}]

VARIABLES
  serverKey, \* host: the key its server presents
  rekeys,    \* the key changes so far
  file,      \* the records on disk
  stage,     \* task: "free", or its next step
  op,        \* task: "check", "update", "connect", "remove"; "orphan" is a
             \* connect whose caller gave up on it; "disconnect"
  host,      \* task: the endpoint it was started for
  trust,     \* task: trust_new_host
  key,       \* task: the fingerprint it was presented
  picked,    \* task: the endpoints to remove
  text,      \* task: the records it is to write
  busy,      \* page: the connection buttons are disabled
  managing,  \* page: the buttons of the trusted hosts are disabled
  prompt,    \* page: the dialog on the screen
  connected, \* page: shown as connected
  lock,      \* the session's mutex: "free", or held for a "listing" or a
             \* "batch" of transfers of the page
  commands,  \* the commands so far
  turned,    \* history: the endpoints whose server changed its key
  shown,     \* history: the dialog the task was confirmed in
  book,      \* history: the records after every write in turn
  hurt       \* history: two writers overlapped, the file could not be read,
             \* or a write in place was cut short

servers == <<serverKey, rekeys, turned>>
task == <<stage, op, host, trust, key, picked, text, shown>>
page == <<busy, managing, prompt, connected>>
vars == <<servers, file, task, page, lock, commands, book, hurt>>

Init ==
  /\ serverKey \in [Hosts -> Keys]
  /\ rekeys = 0 /\ turned = {}
  /\ file \in Records
  /\ stage = [t \in Tasks |-> "free"]
  /\ op = [t \in Tasks |-> "check"]
  /\ host = [t \in Tasks |-> NoHost]
  /\ trust = [t \in Tasks |-> FALSE]
  /\ key = [t \in Tasks |-> NoKey]
  /\ picked = [t \in Tasks |-> {}]
  /\ text = [t \in Tasks |-> None]
  /\ busy = FALSE /\ managing = FALSE /\ connected = FALSE
  /\ prompt = NoPrompt
  /\ lock = "free"
  /\ commands = 0
  /\ shown = [t \in Tasks |-> NoPrompt]
  /\ book = file
  /\ hurt = FALSE

\* Task t starts as command o on endpoint h.
Start(t, o, s, h, tr, ps, dialog) ==
  /\ stage[t] = "free"
  /\ commands < MaxCommands
  /\ commands' = commands + 1
  /\ stage' = [stage EXCEPT ![t] = s]
  /\ op' = [op EXCEPT ![t] = o]
  /\ host' = [host EXCEPT ![t] = h]
  /\ trust' = [trust EXCEPT ![t] = tr]
  /\ key' = [key EXCEPT ![t] = NoKey]
  /\ picked' = [picked EXCEPT ![t] = ps]
  /\ text' = [text EXCEPT ![t] = None]
  /\ shown' = [shown EXCEPT ![t] = dialog]
  /\ UNCHANGED <<servers, lock, file, connected, book>>

\* Task t goes on, or ends.
Goes(t, s) ==
  /\ stage' = [stage EXCEPT ![t] = s]
  /\ UNCHANGED <<servers, lock, host, picked, shown, commands>>

Ends(t) ==
  /\ stage' = [stage EXCEPT ![t] = "free"]
  /\ op' = [op EXCEPT ![t] = "check"]
  /\ host' = [host EXCEPT ![t] = NoHost]
  /\ trust' = [trust EXCEPT ![t] = FALSE]
  /\ key' = [key EXCEPT ![t] = NoKey]
  /\ picked' = [picked EXCEPT ![t] = {}]
  /\ text' = [text EXCEPT ![t] = None]
  /\ shown' = [shown EXCEPT ![t] = NoPrompt]
  /\ UNCHANGED <<servers, lock, commands>>

local == <<op, trust, key, text>>

\* What a reader of the file gets: a file that cannot be read is no records.
Readings == {file, None}

Saving == {"load", "store", "rewrite"}

\* Task t is about to read the records it writes back.
Begins(t, blind) ==
  /\ hurt' = (hurt \/ blind \/ \E u \in Tasks \ {t} : stage[u] \in Saving)
  /\ UNCHANGED book

-----------------------------------------------------------------------------
(* The page.                                                               *)

\* The endpoint is what the input field holds when a button is clicked.
ClickConnect(t, h) ==
  /\ ~busy /\ ~connected /\ prompt = NoPrompt
  /\ Start(t, "check", "dial", h, FALSE, {}, NoPrompt)
  /\ busy' = TRUE
  /\ UNCHANGED <<managing, prompt, hurt>>

\* It may have been edited since the check the dialog is about.
Confirm(t, h) ==
  /\ ~busy /\ prompt # NoPrompt
  /\ IF prompt.kind = "changed"
     THEN /\ Start(t, "update", "dial", h, FALSE, {}, prompt)
          /\ UNCHANGED busy
     ELSE /\ Start(t, "connect", "handshake", h, TRUE, {}, prompt)
          /\ busy' = TRUE
  /\ prompt' = NoPrompt
  /\ UNCHANGED <<managing, hurt>>

Dismiss ==
  /\ ~busy /\ prompt # NoPrompt
  /\ prompt' = NoPrompt
  /\ UNCHANGED <<servers, lock, file, task, busy, managing, connected,
                 commands, book, hurt>>

RemoveSelected(t, hs) ==
  /\ ~managing /\ prompt = NoPrompt /\ hs # {}
  /\ Start(t, "remove", "load", NoHost, FALSE, hs, NoPrompt)
  /\ managing' = TRUE
  /\ hurt' = (hurt \/ \E u \in Tasks \ {t} : stage[u] \in Saving)
  /\ UNCHANGED <<busy, prompt>>

\* The buttons are disabled until the session's mutex was had.
ClickDisconnect(t) ==
  /\ ~busy /\ connected /\ prompt = NoPrompt
  /\ Start(t, "disconnect", "drop", NoHost, FALSE, {}, NoPrompt)
  /\ busy' = TRUE
  /\ UNCHANGED <<managing, prompt, hurt>>

Disconnected(t) ==
  /\ stage[t] = "drop" /\ lock = "free"
  /\ Ends(t)
  /\ busy' = FALSE /\ connected' = FALSE
  /\ UNCHANGED <<file, managing, prompt, book, hurt>>

\* The local server the page is connected to stops: the page does not wait.
ServerStops ==
  /\ connected
  /\ connected' = FALSE
  /\ UNCHANGED <<servers, lock, file, task, busy, managing, prompt, commands,
                 book, hurt>>

\* The page lists a directory, or starts a transfer, which goes on when the
\* page is not connected any more.  The mutex is fair: who waits goes first.
Hold(what) ==
  /\ connected /\ lock = "free"
  /\ \A t \in Tasks : stage[t] \notin {"swap", "list", "drop"}
  /\ lock' = what
  /\ UNCHANGED <<servers, file, task, page, commands, book, hurt>>

Release ==
  /\ lock # "free"
  /\ lock' = "free"
  /\ UNCHANGED <<servers, file, task, page, commands, book, hurt>>

-----------------------------------------------------------------------------
(* Probe, handshake and ruling.                                            *)

Rekey(h, k) ==
  /\ rekeys < MaxRekeys
  /\ k # serverKey[h]
  /\ rekeys' = rekeys + 1
  /\ turned' = turned \cup {h}
  /\ serverKey' = [serverKey EXCEPT ![h] = k]
  /\ UNCHANGED <<lock, file, task, page, commands, book, hurt>>

\* The command of task t ends with an error, or with nothing more to do.
Fails(t) ==
  /\ Ends(t)
  /\ busy' = (busy /\ op[t] # "connect")
  /\ managing' = (managing /\ op[t] # "remove")
  /\ UNCHANGED <<prompt, connected>>

\* The probe has no fingerprint: the check goes on without one, the update
\* fails.
NoAnswer(t) ==
  /\ \/ op[t] = "check" /\ Goes(t, "verdict") /\ UNCHANGED <<local, page>>
     \/ op[t] = "update" /\ Fails(t)
  /\ UNCHANGED <<file, book, hurt>>

\* The connection and the exchange of SSH identifications, before russh's
\* session task runs: PROBE_TIMEOUT, its inactivity timeout, is not yet there.
Dial(t) ==
  /\ stage[t] = "dial"
  /\ \/ Goes(t, "probe") /\ UNCHANGED <<local, page, file, book, hurt>>
     \/ NoAnswer(t)

\* The key exchange, which a server that falls silent does not hold up.
Probe(t) ==
  /\ stage[t] = "probe"
  /\ \/ /\ key' = [key EXCEPT ![t] = serverKey[host[t]]]
        /\ IF op[t] = "check"
           THEN Goes(t, "verdict") /\ UNCHANGED <<book, hurt>>
           ELSE Goes(t, "load") /\ Begins(t, FALSE)
        /\ UNCHANGED <<op, trust, text, page, file>>
     \/ NoAnswer(t)

\* check_known_host.
Verdict(recorded, presented) ==
  IF recorded = NoKey THEN "unknown"
  ELSE IF presented \in {recorded, NoKey} THEN "known" ELSE "changed"

\* doConnect, of the click or confirmation that started task t.
Connect(t, trusting) ==
  /\ Goes(t, "handshake")
  /\ op' = [op EXCEPT ![t] = "connect"]
  /\ trust' = [trust EXCEPT ![t] = trusting]
  /\ busy' = TRUE
  /\ UNCHANGED <<key, text, managing, prompt, connected>>

Ask(t, v) ==
  /\ Ends(t)
  /\ busy' = FALSE
  /\ prompt' = [kind |-> v, host |-> host[t], key |-> key[t]]
  /\ UNCHANGED <<managing, connected>>

\* Variant of Checked: a known endpoint is connected to with trust granted.
CheckedTrusting(t) ==
  /\ stage[t] = "verdict"
  /\ \E r \in Readings :
       LET v == Verdict(r[host[t]], key[t])
       IN  IF v = "known" THEN Connect(t, TRUE) ELSE Ask(t, v)
  /\ UNCHANGED <<file, book, hurt>>

Checked(t) ==
  /\ stage[t] = "verdict"
  /\ \E r \in Readings :
       LET v == Verdict(r[host[t]], key[t])
       IN  IF v = "known" THEN Connect(t, FALSE) ELSE Ask(t, v)
  /\ UNCHANGED <<file, book, hurt>>

Handshake(t) ==
  /\ stage[t] = "handshake"
  /\ \/ /\ key' = [key EXCEPT ![t] = serverKey[host[t]]]
        /\ Goes(t, "lookup")
        /\ UNCHANGED <<op, trust, text, page>>
     \/ Fails(t)
  /\ UNCHANGED <<file, book, hurt>>

\* The key is accepted; nobody waits for an orphan.
Accepted(t) ==
  /\ IF op[t] = "orphan" THEN Ends(t) ELSE Goes(t, "login") /\ UNCHANGED local
  /\ UNCHANGED page

\* Variant of Lookup: trust_new_host covers a changed key.
LookupTrusting(t) ==
  /\ stage[t] = "lookup"
  /\ \E r \in Readings :
       \/ /\ r[host[t]] = key[t]
          /\ Accepted(t)
          /\ UNCHANGED <<book, hurt>>
       \/ /\ r[host[t]] # key[t] /\ trust[t]
          /\ Goes(t, "load")
          /\ Begins(t, r # file)
          /\ UNCHANGED <<local, page>>
       \/ /\ r[host[t]] # key[t] /\ ~trust[t]
          /\ Fails(t)
          /\ UNCHANGED <<book, hurt>>
  /\ UNCHANGED file

\* check_server_key.
Lookup(t) ==
  /\ stage[t] = "lookup"
  /\ \E r \in Readings :
       \/ /\ r[host[t]] = key[t]
          /\ Accepted(t)
          /\ UNCHANGED <<book, hurt>>
       \/ /\ r[host[t]] = NoKey /\ trust[t]
          /\ Goes(t, "load")
          /\ Begins(t, r # file)
          /\ UNCHANGED <<local, page>>
       \/ /\ r[host[t]] # key[t]
          /\ r[host[t]] # NoKey \/ ~trust[t]
          /\ Fails(t)
          /\ UNCHANGED <<book, hurt>>
  /\ UNCHANGED file

Login(t) ==
  /\ stage[t] = "login"
  /\ \/ Goes(t, "swap") /\ UNCHANGED <<local, page>>
     \/ Fails(t)
  /\ UNCHANGED <<file, book, hurt>>

\* The new session takes the place of the old one, which is disconnected;
\* CONNECT_TIMEOUT does not count any more.
Swap(t) ==
  /\ stage[t] = "swap" /\ lock = "free"
  /\ Goes(t, "list")
  /\ connected' = TRUE
  /\ UNCHANGED <<local, busy, managing, prompt, file, book, hurt>>

\* The root is listed, or its requests time out; while a batch is under way
\* it is not asked for.
Listed(t) ==
  /\ stage[t] = "list" /\ lock # "listing"
  /\ Fails(t)
  /\ UNCHANGED <<file, book, hurt>>

\* Variant of Deadline: the deadline is around the handshake only.
DeadlineHandshakeOnly(t) ==
  /\ op[t] = "connect" /\ stage[t] = "handshake"
  /\ busy' = FALSE
  /\ Goes(t, stage[t])
  /\ op' = [op EXCEPT ![t] = "orphan"]
  /\ UNCHANGED <<trust, key, text, file, managing, prompt, connected, book,
                 hurt>>

\* CONNECT_TIMEOUT is over.  A handshake that got as far as a task of its own
\* goes on and may still record the key.
Deadline(t) ==
  /\ op[t] = "connect" /\ stage[t] \notin {"swap", "list"}
  /\ busy' = FALSE
  /\ IF stage[t] = "login"
     THEN Ends(t)
     ELSE /\ Goes(t, stage[t])
          /\ op' = [op EXCEPT ![t] = "orphan"]
          /\ UNCHANGED <<trust, key, text>>
  /\ UNCHANGED <<file, managing, prompt, connected, book, hurt>>

-----------------------------------------------------------------------------
(* The file.                                                               *)

\* The records r without those picked, or with the key of t.
Changed(t, r) ==
  IF op[t] = "remove"
  THEN [h \in Hosts |-> IF h \in picked[t] THEN NoKey ELSE r[h]]
  ELSE [r EXCEPT ![host[t]] = key[t]]

\* Variant of Load: what was read is not kept.
LoadAlone(t) ==
  /\ stage[t] = "load"
  /\ \E r \in Readings :
       /\ hurt' = (hurt \/ r # file)
       /\ IF op[t] = "remove" /\ Changed(t, r) = r
          THEN Fails(t)
          ELSE /\ Goes(t, "store")
               /\ text' = [text EXCEPT ![t] = Changed(t, None)]
               /\ UNCHANGED <<op, trust, key, page>>
  /\ UNCHANGED <<file, book>>

Load(t) ==
  /\ stage[t] = "load"
  /\ \E r \in Readings :
       /\ hurt' = (hurt \/ r # file)
       /\ IF op[t] = "remove" /\ Changed(t, r) = r
          THEN Fails(t)
          ELSE /\ Goes(t, "store")
               /\ text' = [text EXCEPT ![t] = Changed(t, r)]
               /\ UNCHANGED <<op, trust, key, page>>
  /\ UNCHANGED <<file, book>>

\* The new records are on disk: the page goes on.
Saved(t) ==
  /\ file' = text[t]
  /\ book' = Changed(t, book)
  /\ \/ op[t] = "update" /\ Connect(t, TRUE)
     \/ op[t] = "remove" /\ Fails(t)
     \/ op[t] \in {"connect", "orphan"} /\ Accepted(t)
  /\ UNCHANGED hurt

\* The temporary file is renamed over the records, or the file of no records
\* is removed.
Replace(t) == stage[t] = "store" /\ Saved(t)

\* The rename is refused: the file is truncated to be written in place.
Truncate(t) ==
  /\ stage[t] = "store"
  /\ op[t] = "remove" => text[t] # None
  /\ file' = None
  /\ Goes(t, "rewrite")
  /\ UNCHANGED <<local, page, book, hurt>>

Rewrite(t) == stage[t] = "rewrite" /\ Saved(t)

\* The write fails, before the file is truncated or after.  A connect goes on
\* without the record.
SaveFails(t) ==
  /\ stage[t] \in {"store", "rewrite"}
  /\ IF op[t] \in {"connect", "orphan"} THEN Accepted(t) ELSE Fails(t)
  /\ hurt' = (hurt \/ stage[t] = "rewrite")
  /\ UNCHANGED <<file, book>>

\* The app is killed and started again.
Crash ==
  /\ stage' = [t \in Tasks |-> "free"]
  /\ op' = [t \in Tasks |-> "check"]
  /\ host' = [t \in Tasks |-> NoHost]
  /\ trust' = [t \in Tasks |-> FALSE]
  /\ key' = [t \in Tasks |-> NoKey]
  /\ picked' = [t \in Tasks |-> {}]
  /\ text' = [t \in Tasks |-> None]
  /\ shown' = [t \in Tasks |-> NoPrompt]
  /\ hurt' = (hurt \/ \E t \in Tasks : stage[t] = "rewrite")
  /\ busy' = FALSE /\ managing' = FALSE /\ connected' = FALSE
  /\ prompt' = NoPrompt
  /\ lock' = "free"
  /\ UNCHANGED <<servers, file, commands, book>>

-----------------------------------------------------------------------------
User(t) ==
  \/ \E h \in Hosts : ClickConnect(t, h) \/ Confirm(t, h)
  \/ \E hs \in SUBSET Hosts : RemoveSelected(t, hs)
  \/ ClickDisconnect(t)

Save(t) == Load(t) \/ Replace(t) \/ Truncate(t) \/ Rewrite(t) \/ SaveFails(t)

Next ==
  \/ \E t \in Tasks :
       \/ User(t)
       \/ Dial(t) \/ Probe(t) \/ Checked(t)
       \/ Handshake(t) \/ Lookup(t) \/ Login(t) \/ Deadline(t)
       \/ Swap(t) \/ Listed(t) \/ Disconnected(t) \/ Save(t)
  \/ \E h \in Hosts, k \in Keys : Rekey(h, k)
  \/ \E what \in {"listing", "batch"} : Hold(what)
  \/ Release \/ Dismiss \/ ServerStops \/ Crash

Spec == Init /\ [][Next]_vars

\* Timers fire and the app does what is up to it; servers and users may be
\* silent for ever.  No timer is around Dial.  Every request of a listing or a
\* transfer times out, so the mutex is let go of.
Fairness ==
  /\ \A t \in Tasks : /\ WF_vars(Probe(t)) /\ WF_vars(Checked(t))
                      /\ WF_vars(Lookup(t)) /\ WF_vars(Save(t))
                      /\ WF_vars(Deadline(t)) /\ WF_vars(Swap(t))
                      /\ WF_vars(Listed(t)) /\ WF_vars(Disconnected(t))
  /\ WF_vars(Release)

FairSpec == Spec /\ Fairness

-----------------------------------------------------------------------------
(* Properties.                                                             *)

TypeOK ==
  /\ serverKey \in [Hosts -> Keys] /\ rekeys \in 0..MaxRekeys
  /\ turned \subseteq Hosts
  /\ file \in Records
  /\ stage \in [Tasks -> {"free", "dial", "probe", "verdict", "handshake",
                          "lookup", "load", "store", "rewrite", "login",
                          "swap", "list", "drop"}]
  /\ op \in [Tasks -> {"check", "update", "connect", "remove", "orphan",
                       "disconnect"}]
  /\ host \in [Tasks -> Hosts \cup {NoHost}]
  /\ trust \in [Tasks -> BOOLEAN]
  /\ key \in [Tasks -> Keys \cup {NoKey}]
  /\ picked \in [Tasks -> SUBSET Hosts]
  /\ text \in [Tasks -> Records]
  /\ busy \in BOOLEAN /\ managing \in BOOLEAN /\ connected \in BOOLEAN
  /\ prompt \in Prompt \cup {NoPrompt}
  /\ lock \in {"free", "listing", "batch"}
  /\ commands \in 0..MaxCommands
  /\ shown \in [Tasks -> Prompt \cup {NoPrompt}]
  /\ book \in Records
  /\ hurt \in BOOLEAN

\* Trusting, updating and removing one endpoint leaves every other record as
\* it was, whatever fails or is killed on the way, as long as no two writers
\* overlap, the file can be read and no write in place is cut short.
TrustedStays ==
  ~hurt /\ (\A t \in Tasks : stage[t] # "rewrite") => file = book

\* A record is replaced by another key only by the command that updates it,
\* under the same provisos: a connect refuses a changed key whatever the
\* page, the panel and a connect given up on do at the same time.
OnlyUpdateOverwrites ==
  [][~hurt => \A h \in Hosts :
       book[h] # NoKey /\ book'[h] \notin {book[h], NoKey} =>
         \E t \in Tasks : /\ stage[t] \in Saving
                          /\ op[t] = "update" /\ host[t] = h]_vars

\* A connect or an update records a key only after the user confirmed a
\* dialog, and an update only after a warning; what is recorded is what the
\* dialog showed.  There are three exceptions, where the code records another
\* key than the one shown: the fields were edited since the check, the check
\* had got no fingerprint, or the server of that endpoint changed its key.
TrustAsShown ==
  \A t \in Tasks :
    op[t] # "remove" /\ stage[t] \in Saving =>
      /\ shown[t] # NoPrompt
      /\ op[t] = "update" => shown[t].kind = "changed"
      /\ shown[t].host = host[t] /\ shown[t].key # NoKey /\ host[t] \notin turned
           => shown[t].key = key[t]

\* The connection buttons do not stay disabled, though a server may stop
\* answering at any point and transfers hold the mutex, except while a check
\* waits for a server that accepted the connection and never spoke SSH.
BusyEnds ==
  busy ~> \/ ~busy
          \/ \E t \in Tasks : op[t] = "check" /\ stage[t] = "dial"

=============================================================================
