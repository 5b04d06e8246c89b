------------------------------ MODULE KeyFiles ------------------------------
(***************************************************************************)
(* The two pairs of key files: the FTPS certificate and its key (tls.rs),  *)
(* and the SSH host key and its public half (sftp/keys.rs).  A pair is     *)
(* loaded, or made when it cannot be, by the start of a server and by the  *)
(* page that shows its fingerprint; the user may have it made anew.        *)
(*                                                                         *)
(* The commands run on a pool of threads without a lock.  A write opens    *)
(* the file empty and then fills it.                                       *)
(***************************************************************************)
EXTENDS Naturals

CONSTANTS
  Tasks,        \* the commands that can be under way together
  MaxCommands,  \* bound on the commands, and on the pairs made
  Missing,      \* what is in a file of which no pair was written: no file,
  Empty,        \* nothing in it, or a part whose base64 still decodes,
  Broken,       \* or any other part
  Nothing       \* no fingerprint

ASSUME BoundsAssumption == MaxCommands \in Nat

Made == 1..MaxCommands                       \* a pair made, by its number
Contents == Made \cup {Missing, Empty, Broken}

ASSUME ContentsAssumption ==
  /\ Missing # Empty /\ Missing # Broken /\ Empty # Broken
  /\ {Missing, Empty, Broken, Nothing} \cap Made = {}
  /\ Nothing \notin {Missing, Empty, Broken}

VARIABLES
  store,    \* "cert": certificate and key; "hostkey": private and public key
  first,    \* the file with the fingerprint, written first
  second,
  made,     \* the pairs made so far
  stage,    \* task: "free", or its next step
  born,     \* task: the pair it makes
  commands, \* the commands so far
  shown,    \* history: the fingerprint told last, until a new one is asked for
  hurt,     \* history: a pair was made while another command was under way,
            \* or because it could not be read
  cut       \* history: a write failed or was killed

vars == <<store, first, second, made, stage, born, commands, shown, hurt, cut>>

Init ==
  /\ store \in {"cert", "hostkey"}
  /\ first = Missing /\ second = Missing
  /\ made = 0
  /\ stage = [t \in Tasks |-> "free"]
  /\ born = [t \in Tasks |-> 0]
  /\ commands = 0
  /\ shown = Nothing
  /\ hurt = FALSE /\ cut = FALSE

Making == {"removeFirst", "removeSecond", "openFirst", "fillFirst",
           "openSecond", "fillSecond", "readBack"}

Goes(t, s) == stage' = [stage EXCEPT ![t] = s]

\* Task t goes on to s, in the making if s is part of it.
Enters(t, s, unreadable) ==
  /\ Goes(t, s)
  /\ hurt' = (hurt \/ unreadable \/
                \E u \in Tasks \ {t} : IF s \in Making THEN stage[u] # "free"
                                       ELSE stage[u] \in Making)

\* The command of t answers with the fingerprint f.
Tells(t, f) ==
  /\ Goes(t, "free")
  /\ shown' = f

-----------------------------------------------------------------------------
\* Variant of Parses: an empty file is a key.
ParsesEmpty(c) == c \in Made \cup {Empty}

\* Variant of Parses: of a certificate nothing is decoded.
ParsesAnything(c) == c \in Made \/ (c # Missing /\ store = "cert")

\* A private key is parsed; of a certificate only the base64 of its body is
\* decoded, which may be nothing.
Parses(c) == c \in Made \/ (c = Empty /\ store = "cert")

\* The private file decides for a host key, both files for a certificate.
Usable ==
  Parses(first) /\ (store = "cert" => second # Missing)

Load(t) ==
  /\ stage[t] = "free"
  /\ commands < MaxCommands
  /\ commands' = commands + 1
  /\ Enters(t, "look", FALSE)
  /\ UNCHANGED <<store, first, second, made, born, shown, cut>>

Regenerate(t) ==
  /\ stage[t] = "free"
  /\ commands < MaxCommands
  /\ commands' = commands + 1
  /\ Enters(t, "removeFirst", FALSE)
  /\ shown' = Nothing
  /\ UNCHANGED <<store, first, second, made, born, cut>>

\* A file that cannot be read is made anew like one that does not parse.
Look(t) ==
  /\ stage[t] = "look"
  /\ \/ Usable /\ Tells(t, first) /\ UNCHANGED hurt
     \/ Enters(t, "openFirst", Usable) /\ UNCHANGED shown
  /\ UNCHANGED <<store, first, second, made, born, commands, cut>>

\* Nobody looks whether the files went.
RemoveFirst(t) ==
  /\ stage[t] = "removeFirst"
  /\ first' = Missing \/ UNCHANGED first
  /\ Goes(t, "removeSecond")
  /\ UNCHANGED <<store, second, made, born, commands, shown, hurt, cut>>

RemoveSecond(t) ==
  /\ stage[t] = "removeSecond"
  /\ second' = Missing \/ UNCHANGED second
  /\ Goes(t, "openFirst")
  /\ UNCHANGED <<store, first, made, born, commands, shown, hurt, cut>>

OpenFirst(t) ==
  /\ stage[t] = "openFirst"
  /\ first' = Empty
  /\ made' = made + 1
  /\ born' = [born EXCEPT ![t] = made + 1]
  /\ Goes(t, "fillFirst")
  /\ UNCHANGED <<store, second, commands, shown, hurt, cut>>

FillFirst(t) ==
  /\ stage[t] = "fillFirst"
  /\ first' = born[t]
  /\ Goes(t, "openSecond")
  /\ UNCHANGED <<store, second, made, born, commands, shown, hurt, cut>>

\* Variant of OpenSecond: a second file that is there is kept.
OpenSecondKeeps(t) ==
  /\ stage[t] = "openSecond"
  /\ IF second = Missing
     THEN second' = Empty /\ Goes(t, "fillSecond")
     ELSE Goes(t, "readBack") /\ UNCHANGED second
  /\ UNCHANGED <<store, first, made, born, commands, shown, hurt, cut>>

OpenSecond(t) ==
  /\ stage[t] = "openSecond"
  /\ second' = Empty
  /\ Goes(t, "fillSecond")
  /\ UNCHANGED <<store, first, made, born, commands, shown, hurt, cut>>

FillSecond(t) ==
  /\ stage[t] = "fillSecond"
  /\ second' = born[t]
  /\ Goes(t, "readBack")
  /\ UNCHANGED <<store, first, made, born, commands, shown, hurt, cut>>

\* The fingerprint of a certificate is read from the file again, that of a
\* host key is known.
ReadBack(t) ==
  /\ stage[t] = "readBack"
  /\ \/ store = "hostkey" /\ Tells(t, born[t])
     \/ store = "cert" /\ Parses(first) /\ Tells(t, first)
     \/ store = "cert" /\ Goes(t, "free") /\ UNCHANGED shown
  /\ UNCHANGED <<store, first, second, made, born, commands, hurt, cut>>

\* What is left of a file that was being filled.
Left(file, filling) == IF filling THEN {Empty, Broken} ELSE {file}

\* Variant of WriteFails: the command goes on.
WriteFailsUnseen(t) ==
  /\ stage[t] = "fillFirst"
  /\ first' \in {Empty, Broken}
  /\ Goes(t, "openSecond")
  /\ cut' = TRUE
  /\ UNCHANGED <<store, second, made, born, commands, shown, hurt>>

\* A write fails and the command with it.
WriteFails(t) ==
  /\ stage[t] \in {"openFirst", "fillFirst", "openSecond", "fillSecond"}
  /\ first' \in Left(first, stage[t] = "fillFirst")
  /\ second' \in Left(second, stage[t] = "fillSecond")
  /\ Goes(t, "free")
  /\ cut' = TRUE
  /\ UNCHANGED <<store, made, born, commands, shown, hurt>>

\* The app is killed and started again.
Crash ==
  /\ \E t \in Tasks : stage[t] # "free"
  /\ first' \in Left(first, \E t \in Tasks : stage[t] = "fillFirst")
  /\ second' \in Left(second, \E t \in Tasks : stage[t] = "fillSecond")
  /\ stage' = [t \in Tasks |-> "free"]
  /\ cut' = (cut \/ \E t \in Tasks : stage[t] \in Making)
  /\ UNCHANGED <<store, made, born, commands, shown, hurt>>

Next ==
  \/ \E t \in Tasks :
       \/ Load(t) \/ Regenerate(t) \/ Look(t)
       \/ RemoveFirst(t) \/ RemoveSecond(t)
       \/ OpenFirst(t) \/ FillFirst(t) \/ OpenSecond(t) \/ FillSecond(t)
       \/ ReadBack(t) \/ WriteFails(t)
  \/ Crash

Spec == Init /\ [][Next]_vars

-----------------------------------------------------------------------------
(* Properties.                                                             *)

TypeOK ==
  /\ store \in {"cert", "hostkey"}
  /\ first \in Contents /\ second \in Contents
  /\ made \in 0..MaxCommands
  /\ stage \in [Tasks -> Making \cup {"free", "look"}]
  /\ born \in [Tasks -> 0..MaxCommands]
  /\ commands \in 0..MaxCommands
  /\ shown \in Made \cup {Empty, Nothing}
  /\ hurt \in BOOLEAN /\ cut \in BOOLEAN

\* The fingerprint a peer was told is the one on disk and does not change
\* silently: only when the user asks for a new pair, whatever write fails and
\* whenever the app is killed.  Two commands that make a pair at a time, and
\* a file that cannot be read for a moment, are excepted.
ShownOnDisk == ~hurt /\ shown # Nothing => first = shown

\* No command answers with the fingerprint of half a host key, however the
\* file was left; of a certificate only if no write was ever cut short.
TellsWhole ==
  store = "hostkey" \/ (~hurt /\ ~cut) => shown \in Made \cup {Nothing}

\* When no command is under way the two files are of one pair, unless a
\* write was cut short or two commands overlapped.
PairMatches ==
  ~hurt /\ ~cut /\ (\A t \in Tasks : stage[t] = "free") => first = second

=============================================================================
