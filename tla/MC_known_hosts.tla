--------------------------- MODULE MC_known_hosts ---------------------------
(***************************************************************************)
(* KnownHosts for TLC: two endpoints whose servers start with keys of      *)
(* their own; which one has which key makes no difference.                 *)
(***************************************************************************)
EXTENDS KnownHosts

CONSTANTS h1, h2, k1, k2

MCHosts == {h1, h2}
MCKeys == {k1, k2}

MCInit == Init /\ serverKey = [h \in Hosts |-> IF h = h1 THEN k1 ELSE k2]

MCSpec == MCInit /\ [][Next]_vars /\ Fairness

=============================================================================
