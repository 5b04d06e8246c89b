--------------------------- MODULE ServerContract ---------------------------
(***************************************************************************)
(* What a server of the toolbox (FTP, TFTP or SFTP) promises to the shell  *)
(* that drives it, with no word about tasks, channels or counters.  A      *)
(* server accepts sessions until it closes; a session may leave at any     *)
(* time; once the shell has asked for a stop, the server closes and every  *)
(* session leaves.                                                         *)
(***************************************************************************)

CONSTANT Sessions     \* the sessions a server may serve

VARIABLES
  accepting,          \* the listening socket is open
  asked,              \* a stop was asked for
  live                \* the sessions being served

vars == <<accepting, asked, live>>

Init ==
  /\ accepting = TRUE
  /\ asked = FALSE
  /\ live = {}

\* A session begins, at any time before the socket is closed.
Admit(s) ==
  /\ accepting
  /\ s \notin live
  /\ live' = live \cup {s}
  /\ UNCHANGED <<accepting, asked>>

\* A session is over, because its peer left or because of the stop.
Leave(s) ==
  /\ s \in live
  /\ live' = live \ {s}
  /\ UNCHANGED <<accepting, asked>>

AskStop ==
  /\ ~asked
  /\ asked' = TRUE
  /\ UNCHANGED <<accepting, live>>

\* The socket is closed: asked for, or because the server died.
Close ==
  /\ accepting
  /\ accepting' = FALSE
  /\ UNCHANGED <<asked, live>>

Next ==
  \/ AskStop
  \/ Close
  \/ \E s \in Sessions : Admit(s) \/ Leave(s)

Safety == Init /\ [][Next]_vars

\* A stop that was asked for closes the socket, then empties the server.
Spec ==
  /\ Safety
  /\ WF_vars(asked /\ Close)
  /\ \A s \in Sessions : WF_vars(asked /\ ~accepting /\ Leave(s))

=============================================================================
