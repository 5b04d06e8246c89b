--------------------------- MODULE AtomicDownload ---------------------------
(***************************************************************************)
(* What a download of the engine promises about the local disk: the data   *)
(* goes to `<local>.part`, in order; the destination keeps what it held    *)
(* until the moment it holds the whole file; a download that fails leaves  *)
(* no `.part` behind.  Nothing is said of packets, acks or retries.        *)
(***************************************************************************)
EXTENDS Naturals, Sequences

CONSTANTS
  Chunks,    \* the file is the sequence of chunks 1, 2, ..., Chunks
  OldFile,   \* what the destination held before
  NoFile     \* there is no file of that name

VARIABLES
  dest,      \* the content of the destination
  part,      \* the content of `<local>.part`
  outcome    \* "running", then "done" or "failed"

vars == <<dest, part, outcome>>

Whole == [i \in 1..Chunks |-> i]

Init ==
  /\ dest = OldFile
  /\ part = NoFile
  /\ outcome = "running"

\* The first data may come with the file.
Begin ==
  /\ outcome = "running"
  /\ part = NoFile
  /\ part' \in {<<>>, <<1>>}
  /\ UNCHANGED <<dest, outcome>>

Grow ==
  /\ outcome = "running"
  /\ part # NoFile
  /\ Len(part) < Chunks
  /\ part' = Append(part, Len(part) + 1)
  /\ UNCHANGED <<dest, outcome>>

Publish ==
  /\ outcome = "running"
  /\ part = Whole
  /\ dest' = Whole
  /\ part' = NoFile
  /\ outcome' = "done"

Abort ==
  /\ outcome = "running"
  /\ part' = NoFile
  /\ outcome' = "failed"
  /\ UNCHANGED dest

Next == Begin \/ Grow \/ Publish \/ Abort

Safety == Init /\ [][Next]_vars

=============================================================================
