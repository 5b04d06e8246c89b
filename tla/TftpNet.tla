------------------------------ MODULE TftpNet ------------------------------
(***************************************************************************)
(* What the two directions of a TFTP transfer share: the datagrams, the    *)
(* network and the 16-bit block counter.                                   *)
(*                                                                         *)
(* A file is the chunks 1, 2, ..., Chunks; only the last one is shorter    *)
(* than the block size.  A datagram carries `index`, the true position of  *)
(* its block in the transfer; what the code can see of it is the block     *)
(* number, index modulo Wrap.                                              *)
(*                                                                         *)
(* The network is the set of the datagrams sent so far.  Receiving does    *)
(* not remove one (duplication), nothing forces one to be received (loss), *)
(* and they are received in any order.  The one thing it does not do is    *)
(* keep a datagram while the transfer moves on by Life blocks.             *)
(***************************************************************************)
EXTENDS Naturals, Sequences

CONSTANTS
  Sessions,    \* the sessions the server may open for the request
  None,        \* no session
  Chunks,      \* the number of chunks of the file
  MaxRetries,  \* MAX_RETRIES
  Wrap,        \* the size of the block counter, 65536 in the code
  Life         \* the life of a datagram, counted in blocks

ASSUME NoneAssumption == None \notin Sessions
ASSUME ChunksAssumption == Chunks \in Nat \ {0}
ASSUME RetriesAssumption == MaxRetries \in Nat \ {0}
ASSUME WrapAssumption == Wrap \in Nat /\ Life \in Nat /\ Life < Wrap

Types == {"request", "oack", "ack", "data", "error"}

Datagram ==
  [type : Types, session : Sessions \cup {None}, index : 0..Chunks]

\* The RRQ or WRQ: the server may open a session for each copy of it.
Request == [type |-> "request", session |-> None, index |-> 0]
Oack(s) == [type |-> "oack", session |-> s, index |-> 0]
Ack(s, i) == [type |-> "ack", session |-> s, index |-> i]
Data(s, i) == [type |-> "data", session |-> s, index |-> i]
ErrorPacket(s) == [type |-> "error", session |-> s, index |-> 0]

\* Two positions with the same block number.
SameBlock(i, j) == i % Wrap = j % Wrap

\* A datagram of position i may still arrive when its sender is at n.
Fresh(i, n) == n < i + Life

=============================================================================
