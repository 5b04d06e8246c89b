------------------------- MODULE TftpUpload_proofs -------------------------
(***************************************************************************)
(* Proofs about TftpUpload, for a file of any length, any cap, any number  *)
(* of sessions opened for the same WRQ, and a block counter of any size    *)
(* larger than the life of a datagram.                                     *)
(***************************************************************************)
EXTENDS TftpUpload, SequenceTheorems, TLAPS

\* What the datagrams in the network say of the two ends.
NetInv ==
  \A d \in net :
    /\ d.type \in {"oack", "ack", "error"} =>
         d.session \in Sessions /\ spc[d.session] # "absent"
    /\ d.type \in {"oack", "ack"} => ~TooLarge
    /\ d.type = "ack" => d.index < swant[d.session]
    /\ d.type = "data" => /\ d.session = peer /\ peer \in Sessions
                          /\ d.index \in 1..cblk

\* The client is connected once the handshake is over; a session that was
\* not opened waits for nothing.
PeerInv ==
  /\ cpc = "handshake" => peer = None
  /\ cpc \in {"sending", "done"} => peer # None
  /\ peer = None => cblk = 1
  /\ peer # None => spc[peer] # "absent"

\* A session stops receiving when it has every chunk, not before; it holds a
\* handle once it was opened.
SessionInv ==
  /\ \A s \in Sessions : spc[s] = "absent" => swant[s] = 1 /\ s \notin linked
  /\ \A s \in Sessions : spc[s] = "receiving" => swant[s] # Chunks + 1
  /\ \A s \in Sessions : spc[s] \in {"flushing", "done"} =>
                            swant[s] = Chunks + 1
  /\ linked # {} => file \in Seq(0..Chunks)

\* What a session writes is the block before the one it wants, and under the
\* cap; once a write failed there is no other.
WriteInv ==
  \A s \in Sessions :
    /\ wbuf[s] # 0 => /\ wbuf[s] = swant[s] - 1 /\ wbuf[s] <= cap
                      /\ s \notin broken
    /\ s \in broken => swant[s] # 1
    /\ spc[s] = "done" => wbuf[s] = 0 /\ s \notin broken

\* Done is reported when the session wants no block any more.
DoneInv == cpc = "done" => swant[peer] = Chunks + 1

IInv ==
  /\ TypeOK
  /\ NetInv
  /\ PeerInv
  /\ SessionInv
  /\ WriteInv
  /\ InStep
  /\ DoneInv
  /\ AloneWritesPrefix
  /\ CapHolds
  /\ DeclaredTooLargeRefused

-----------------------------------------------------------------------------
(* What the block number of a datagram that is received tells.             *)

\* Within the life of a datagram a block number names one position.
LEMMA SameBlockSamePosition ==
  ASSUME NEW i \in Nat, NEW j \in Nat, SameBlock(i, j), i <= j, j < i + Wrap
  PROVE  i = j
<1> DEFINE qi == i \div Wrap
           qj == j \div Wrap
<1>1. Wrap \in Nat /\ Wrap > 0
  BY WrapAssumption
<1>2. i = Wrap * qi + (i % Wrap) /\ qi \in Nat
  BY <1>1, Z3
<1>3. j = Wrap * qj + (j % Wrap) /\ qj \in Nat
  BY <1>1, Z3
<1> HIDE DEF qi, qj
<1>4. qi = qj
  <2>1. 0 <= Wrap * (qj - qi) /\ Wrap * (qj - qi) < Wrap
    BY <1>1, <1>2, <1>3 DEF SameBlock
  <2>2. CASE qj > qi
    BY <1>1, <1>2, <1>3, <2>1, <2>2, qj - qi >= 1
  <2>3. CASE qj < qi
    BY <1>1, <1>2, <1>3, <2>1, <2>3
  <2> QED BY <2>2, <2>3, <1>2, <1>3
<1> QED BY <1>2, <1>3, <1>4 DEF SameBlock

\* A session that receives still waits for a chunk.
LEMMA ReceivingWantsAChunk ==
  ASSUME IInv, NEW s \in Sessions, spc[s] = "receiving"
  PROVE  swant[s] \in 1..Chunks
<1>1. swant[s] \in 1..Chunks + 1
  BY DEF IInv, TypeOK
<1>2. swant[s] # Chunks + 1
  BY DEF IInv, SessionInv
<1> QED BY <1>1, <1>2, ChunksAssumption

\* DATA with the wanted number is the wanted block, the one the client is at.
LEMMA WantedBlock ==
  ASSUME IInv, NEW s \in Sessions, NEW i \in 1..Chunks, Arrives(s, i),
         SameBlock(i, swant[s])
  PROVE  s = peer /\ i = swant[s] /\ cblk = swant[s]
<1>1. Data(s, i) \in net /\ cblk < i + Life
  BY DEF Arrives, Fresh
<1>2. s = peer /\ i <= cblk
  BY <1>1 DEF IInv, NetInv, Data
<1>3. /\ i \in Nat /\ cblk \in Nat /\ swant[s] \in Nat /\ Life \in Nat
      /\ Wrap \in Nat /\ Life < Wrap
  BY WrapAssumption, ChunksAssumption DEF IInv, TypeOK
<1>4. swant[s] \in {cblk, cblk + 1}
  BY <1>2 DEF IInv, InStep
<1>5. i <= swant[s] /\ swant[s] < i + Wrap
  BY <1>1, <1>2, <1>3, <1>4
<1>6. i = swant[s]
  BY <1>3, <1>5, SameBlockSamePosition
<1> QED BY <1>2, <1>3, <1>4, <1>6

\* An ACK with the number of the chunk sent last is of that chunk, and its
\* session waits for the next one.
LEMMA AckedBlock ==
  ASSUME IInv, NEW d \in net, cpc = "sending", Incoming(d), IsAck(d)
  PROVE  swant[peer] = cblk + 1 /\ peer \in Sessions
<1>1. /\ d.index \in Nat /\ cblk \in Nat /\ 1 <= cblk
      /\ Life \in Nat /\ Wrap \in Nat /\ Life < Wrap
      /\ peer \in Sessions /\ swant[peer] \in Nat
  BY WrapAssumption, ChunksAssumption DEF IInv, TypeOK, Datagram, PeerInv
<1>2. d.session \in Sessions /\ d.index < swant[d.session]
  BY DEF IInv, NetInv, IsAck
<1>3. swant[peer] - 1 < d.index + Life /\ SameBlock(d.index, cblk)
  BY DEF Incoming, Fresh, IsAck
<1>4. swant[peer] \in {cblk, cblk + 1}
  BY <1>1 DEF IInv, InStep
<1>5. d.index <= cblk
  BY <1>1, <1>2, <1>4 DEF IInv, InStep
<1>6. d.index = cblk
  BY <1>1, <1>3, <1>4, <1>5, SameBlockSamePosition
<1>7. d.session = peer
  BY <1>1, <1>2, <1>6 DEF IInv, InStep
<1> QED BY <1>1, <1>2, <1>4, <1>6, <1>7

\* What a write at the end of a file of n - 1 chunks, or at n anywhere in a
\* file, gives.
LEMMA BlockWritten ==
  ASSUME NEW n \in 1..Chunks, NEW f \in Seq(0..Chunks)
  PROVE  /\ WriteAt(f, n, n) \in Seq(0..Chunks)
         /\ Len(WriteAt(f, n, n)) = IF Len(f) < n THEN n ELSE Len(f)
         /\ f = [i \in 1..(n - 1) |-> i] =>
              WriteAt(f, n, n) = [i \in 1..n |-> i]
<1> DEFINE m == IF Len(f) < n THEN n ELSE Len(f)
<1>1. m \in Nat /\ Chunks \in Nat /\ n \in Nat
  BY ChunksAssumption
<1>2. \A i \in 1..m : i <= Len(f) => f[i] \in 0..Chunks
  BY <1>1
<1>3. WriteAt(f, n, n) = [i \in 1..m |-> IF i = n THEN n
                                     ELSE IF i <= Len(f) THEN f[i] ELSE 0]
  BY DEF WriteAt
<1>4. \A i \in 1..m : (IF i = n THEN n ELSE IF i <= Len(f) THEN f[i] ELSE 0)
                        \in 0..Chunks
  BY <1>1, <1>2
<1>5. WriteAt(f, n, n) \in Seq(0..Chunks) /\ Len(WriteAt(f, n, n)) = m
  <2> HIDE DEF m
  <2> QED BY <1>1, <1>3, <1>4
<1>6. ASSUME f = [i \in 1..(n - 1) |-> i]
      PROVE  WriteAt(f, n, n) = [i \in 1..n |-> i]
  <2>1. Len(f) = n - 1
    BY <1>1, <1>6
  <2>2. m = n
    BY <1>1, <2>1
  <2>3. \A i \in 1..n :
          (IF i = n THEN n ELSE IF i <= Len(f) THEN f[i] ELSE 0) = i
    BY <1>1, <1>6, <2>1
  <2> QED BY <1>3, <2>2, <2>3
<1> QED BY <1>5, <1>6

-----------------------------------------------------------------------------
(* Each step keeps the inductive invariant.                                *)

\* Error events added at the end.
LEMMA ErrorsAdded ==
  ASSUME NEW S, "Error" \in S, NEW e \in Seq(S), NEW n \in Nat
  PROVE  e \o [i \in 1..n |-> "Error"] \in Seq(S)
<1>1. [i \in 1..n |-> "Error"] \in Seq(S)
  OBVIOUS
<1> QED BY <1>1, ConcatProperties

\* The events stay a sequence of events when Error events are added.
LEMMA ErrorsTyped ==
  ASSUME TypeOK
  PROVE  \A n \in Nat : events \o [i \in 1..n |-> "Error"]
                          \in Seq({"Started", "Done", "Error"})
BY ErrorsAdded DEF TypeOK

\* The client fails, or spends an iteration of a wait.
LEMMA WaitStep ==
  ASSUME IInv, cpc' \in Failures \/ UNCHANGED cpc, cpc # "done",
         ctries' \in 0..MaxRetries - 1,
         events' \in Seq({"Started", "Done", "Error"}),
         UNCHANGED <<peer, stray, cblk, cancelled, session, disk, server>>,
         \/ net' = net \/ net' = net \cup {Request}
         \/ cpc = "sending" /\ net' = net \cup {Data(peer, cblk)}
  PROVE  IInv'
<1> USE NoneAssumption, ChunksAssumption, RetriesAssumption, CapAssumption
    DEF server, IInv
<1>1. net' \subseteq Datagram /\ stray' \subseteq net' /\ NetInv'
  BY DEF TypeOK, NetInv, PeerInv, Datagram, Types, Request, Data, session,
         TooLarge
<1>2. TypeOK'
  BY <1>1 DEF TypeOK, session, disk
<1>3. /\ PeerInv' /\ SessionInv' /\ WriteInv' /\ InStep' /\ DoneInv'
      /\ AloneWritesPrefix' /\ CapHolds' /\ DeclaredTooLargeRefused'
  <2>1. PeerInv'
    BY DEF Failures, session, disk, TooLarge, TypeOK, PeerInv, NetInv
  <2>2. SessionInv'
    BY DEF Failures, session, disk, TooLarge, TypeOK, SessionInv, NetInv,
       InStep
  <2>2a. WriteInv'
    BY DEF Failures, session, disk, TooLarge, TypeOK, SessionInv, WriteInv,
       NetInv, InStep
  <2>3. InStep'
    BY DEF Failures, session, disk, TooLarge, TypeOK, InStep, PeerInv,
       SessionInv, NetInv
  <2>4. DoneInv'
    BY DEF Failures, session, disk, TooLarge, TypeOK, DoneInv,
       PeerInv, SessionInv
  <2>5. AloneWritesPrefix'
    BY DEF Failures, session, disk, TooLarge, TypeOK, AloneWritesPrefix, Written,
       SessionInv
  <2>6. CapHolds'
    BY DEF Failures, session, disk, TooLarge, TypeOK, CapHolds, SessionInv
  <2>7. DeclaredTooLargeRefused'
    BY DEF Failures, session, disk, TooLarge, TypeOK, DeclaredTooLargeRefused,
       NetInv, PeerInv
  <2> QED BY <2>1, <2>2, <2>2a, <2>3, <2>4, <2>5, <2>6, <2>7
<1> QED BY <1>1, <1>2, <1>3

\* The client fails, after n Error events.
LEMMA FailStep ==
  ASSUME IInv, NEW why \in Failures, NEW n \in Nat, Fail(why, n),
         cpc # "done", UNCHANGED net
  PROVE  IInv'
<1>1. events' \in Seq({"Started", "Done", "Error"})
  BY ErrorsTyped DEF Fail, IInv
<1>2. /\ cpc' \in Failures /\ ctries' = ctries
      /\ UNCHANGED <<peer, stray, cblk, cancelled, session, disk, server>>
  BY DEF Fail
<1>3. ctries' \in 0..MaxRetries - 1
  BY <1>2 DEF IInv, TypeOK
<1> QED BY <1>1, <1>2, <1>3, WaitStep

LEMMA SpendTryStep ==
  ASSUME IInv, SpendTry, cpc # "done",
         \/ net' = net \/ net' = net \cup {Request}
         \/ cpc = "sending" /\ net' = net \cup {Data(peer, cblk)}
  PROVE  IInv'
<1>1. CASE ctries + 1 < MaxRetries
  <2>1. ctries' \in 0..MaxRetries - 1
    BY <1>1, RetriesAssumption DEF SpendTry, IInv, TypeOK
  <2> QED
    BY <1>1, <2>1, WaitStep DEF SpendTry, IInv, TypeOK
<1>2. CASE ~(ctries + 1 < MaxRetries)
  BY <1>2, WaitStep, ErrorsTyped DEF SpendTry, Fail, Failures, IInv, TypeOK
<1> QED BY <1>1, <1>2

LEMMA ClientStep ==
  ASSUME IInv, Client
  PROVE  IInv'
<1> USE NoneAssumption, ChunksAssumption, RetriesAssumption, CapAssumption
    DEF server
<1>1. CASE HandshakeTimeout \/ SendTimeout
  BY <1>1, SpendTryStep DEF HandshakeTimeout, SendTimeout, Send
<1>2. CASE IoError \/ Cancel
  <2>1. ASSUME NEW why \in Failures, NEW n \in {0, 1}, Fail(why, n),
               cpc # "done", UNCHANGED net
        PROVE  IInv'
    BY <2>1, FailStep
  <2>2. CASE IoError
    BY <2>1, <2>2 DEF IoError, Failures
  <2>3. CASE Cancel
    BY <2>1, <2>3 DEF Cancel, Failures
  <2> QED BY <1>2, <2>2, <2>3
<1>3. ASSUME NEW d \in net, HandshakeError(d) \/ GetOther(d) PROVE IInv'
  <2>1. CASE HandshakeError(d)
    BY <2>1, FailStep DEF HandshakeError, Failures
  <2>2. CASE GetOther(d)
    BY <2>2, FailStep DEF GetOther, Failures
  <2> QED BY <1>3, <2>1, <2>2
<1>4. ASSUME NEW d \in net, GetOldAck(d) PROVE IInv'
  BY <1>4, SpendTryStep DEF GetOldAck
<1>5. ASSUME NEW d \in net, HandshakeReply(d) PROVE IInv'
  <2> USE <1>5 DEF IInv
  <2>1. /\ d.session \in Sessions /\ spc[d.session] # "absent"
        /\ cpc = "handshake" /\ peer = None /\ cblk = 1 /\ ~TooLarge
        /\ TooLarge' = TooLarge
    BY DEF HandshakeReply, NetInv, PeerInv, TooLarge
  <2>2. net' \subseteq Datagram /\ stray' \subseteq net' /\ NetInv'
    BY <2>1 DEF HandshakeReply, Send, TypeOK, NetInv, Datagram, Types, Data,
                session
  <2>3. TypeOK'
    BY <2>1, <2>2 DEF HandshakeReply, TypeOK, session, disk
  <2>4. /\ PeerInv' /\ SessionInv' /\ WriteInv' /\ InStep' /\ DoneInv'
        /\ AloneWritesPrefix' /\ CapHolds' /\ DeclaredTooLargeRefused'
    <3>1. PeerInv'
      BY <2>1 DEF HandshakeReply, session, disk, TypeOK, PeerInv, NetInv
    <3>2. SessionInv'
      BY <2>1 DEF HandshakeReply, session, disk, TypeOK, SessionInv, NetInv,
         InStep
    <3>2a. WriteInv'
      BY <2>1 DEF HandshakeReply, session, disk, TypeOK, SessionInv, WriteInv,
         NetInv, InStep
    <3>3. InStep'
      BY <2>1 DEF HandshakeReply, session, disk, TypeOK, InStep, PeerInv,
         SessionInv, NetInv
    <3>4. DoneInv'
      BY <2>1 DEF HandshakeReply, session, disk, TypeOK, DoneInv,
         PeerInv, SessionInv
    <3>5. AloneWritesPrefix'
      BY <2>1 DEF HandshakeReply, session, disk, TypeOK, AloneWritesPrefix,
         Written, SessionInv
    <3>6. CapHolds'
      BY <2>1 DEF HandshakeReply, session, disk, TypeOK, CapHolds, SessionInv
    <3>7. DeclaredTooLargeRefused'
      BY <2>1 DEF HandshakeReply, session, disk, TypeOK,
         DeclaredTooLargeRefused, NetInv, PeerInv
    <3> QED BY <3>1, <3>2, <3>2a, <3>3, <3>4, <3>5, <3>6, <3>7
  <2> QED BY <2>2, <2>3, <2>4
<1>6. ASSUME NEW d \in net, GetAck(d) PROVE IInv'
  <2>1. /\ swant[peer] = cblk + 1 /\ peer \in Sessions /\ cpc = "sending"
        /\ TooLarge' = TooLarge
    BY <1>6, AckedBlock DEF GetAck, TooLarge
  <2> USE <1>6 DEF IInv
  <2>2. net' \subseteq Datagram /\ stray' \subseteq net' /\ NetInv'
    BY <2>1 DEF GetAck, Send, TypeOK, NetInv, Datagram, Types, Data, session
  <2>3. TypeOK'
    BY <2>1, <2>2 DEF GetAck, TypeOK, session, disk
  <2>4. /\ PeerInv' /\ SessionInv' /\ WriteInv' /\ InStep' /\ DoneInv'
        /\ AloneWritesPrefix' /\ CapHolds' /\ DeclaredTooLargeRefused'
    <3>1. PeerInv'
      BY <2>1 DEF GetAck, session, disk, TypeOK, PeerInv, NetInv
    <3>2. SessionInv'
      BY <2>1 DEF GetAck, session, disk, TypeOK, SessionInv, NetInv, InStep
    <3>2a. WriteInv'
      BY <2>1 DEF GetAck, session, disk, TypeOK, SessionInv, WriteInv, NetInv,
         InStep
    <3>3. InStep'
      BY <2>1 DEF GetAck, session, disk, TypeOK, InStep, PeerInv, SessionInv,
         NetInv
    <3>4. DoneInv'
      BY <2>1 DEF GetAck, session, disk, TypeOK, DoneInv, PeerInv,
         SessionInv
    <3>5. AloneWritesPrefix'
      BY <2>1 DEF GetAck, session, disk, TypeOK, AloneWritesPrefix, Written,
         SessionInv
    <3>6. CapHolds'
      BY <2>1 DEF GetAck, session, disk, TypeOK, CapHolds, SessionInv
    <3>7. DeclaredTooLargeRefused'
      BY <2>1 DEF GetAck, session, disk, TypeOK, DeclaredTooLargeRefused,
         NetInv, PeerInv
    <3> QED BY <3>1, <3>2, <3>2a, <3>3, <3>4, <3>5, <3>6, <3>7
  <2> QED BY <2>2, <2>3, <2>4
<1>7. ASSUME NEW d \in net, GetLastAck(d) PROVE IInv'
  <2>1. /\ swant[peer] = Chunks + 1 /\ peer \in Sessions /\ cpc = "sending"
        /\ TooLarge' = TooLarge
    BY <1>7, AckedBlock DEF GetLastAck, TooLarge
  <2> USE <1>7 DEF IInv
  <2>2. NetInv'
    BY <2>1 DEF GetLastAck, TypeOK, NetInv, session
  <2>3. TypeOK'
    BY <2>1, <2>2 DEF GetLastAck, TypeOK, session, disk
  <2>4. /\ PeerInv' /\ SessionInv' /\ WriteInv' /\ InStep' /\ DoneInv'
        /\ AloneWritesPrefix' /\ CapHolds' /\ DeclaredTooLargeRefused'
    <3>1. PeerInv'
      BY <2>1 DEF GetLastAck, session, disk, TypeOK, PeerInv, NetInv
    <3>2. SessionInv'
      BY <2>1 DEF GetLastAck, session, disk, TypeOK, SessionInv, NetInv,
         InStep
    <3>2a. WriteInv'
      BY <2>1 DEF GetLastAck, session, disk, TypeOK, SessionInv, WriteInv, NetInv,
         InStep
    <3>3. InStep'
      BY <2>1 DEF GetLastAck, session, disk, TypeOK, InStep, PeerInv,
         SessionInv, NetInv
    <3>4. DoneInv'
      BY <2>1 DEF GetLastAck, session, disk, TypeOK, DoneInv,
         PeerInv, SessionInv
    <3>5. AloneWritesPrefix'
      BY <2>1 DEF GetLastAck, session, disk, TypeOK, AloneWritesPrefix, Written,
         SessionInv
    <3>6. CapHolds'
      BY <2>1 DEF GetLastAck, session, disk, TypeOK, CapHolds, SessionInv
    <3>7. DeclaredTooLargeRefused'
      BY <2>1 DEF GetLastAck, session, disk, TypeOK, DeclaredTooLargeRefused,
         NetInv, PeerInv
    <3> QED BY <3>1, <3>2, <3>2a, <3>3, <3>4, <3>5, <3>6, <3>7
  <2> QED BY <2>2, <2>3, <2>4
<1> QED
  BY <1>1, <1>2, <1>3, <1>4, <1>5, <1>6, <1>7 DEF Client

\* Spending an iteration of a session's wait: it goes on, or has timed out.
LEMMA SessionWaitStep ==
  ASSUME IInv, NEW s \in Sessions, spc[s] = "receiving", SpendSessionTry(s),
         Send(LastReply(s))
  PROVE  IInv'
<1> USE NoneAssumption, ChunksAssumption, RetriesAssumption, CapAssumption
    DEF server
<1>1. /\ stries' \in [Sessions -> 0..MaxRetries - 1]
      /\ spc' \in [Sessions -> {"absent", "receiving", "flushing", "done",
                                "failed", "refused"}]
      /\ \A t \in Sessions : \/ spc'[t] = spc[t]
                             \/ t = s /\ spc'[t] = "failed"
  <2>1. /\ stries \in [Sessions -> 0..MaxRetries - 1]
        /\ spc \in [Sessions -> {"absent", "receiving", "flushing", "done",
                                 "failed", "refused"}]
        /\ MaxRetries \in Nat
    BY DEF IInv, TypeOK
  <2>2. CASE stries[s] + 1 < MaxRetries
    <3>1. stries[s] + 1 \in 0..MaxRetries - 1
      BY <2>1, <2>2
    <3> QED BY <2>1, <2>2, <3>1 DEF SpendSessionTry
  <2>3. CASE ~(stries[s] + 1 < MaxRetries)
    BY <2>1, <2>3 DEF SpendSessionTry
  <2> QED BY <2>2, <2>3
<1>2. /\ UNCHANGED <<client, cancelled, swant, disk, server>>
      /\ net' = net \cup {LastReply(s)} /\ ~TooLarge /\ TooLarge' = TooLarge
  BY DEF SpendSessionTry, Send, TooLarge, IInv, DeclaredTooLargeRefused
<1>3. /\ LastReply(s) \in Datagram
      /\ LastReply(s).type \in {"oack", "ack"} /\ LastReply(s).session = s
      /\ LastReply(s).type = "ack" => LastReply(s).index < swant[s]
  <2>1. swant[s] \in 1..Chunks
    BY ReceivingWantsAChunk
  <2> QED BY <2>1 DEF LastReply, FirstReply, Oack, Ack, Datagram, Types
<1> USE DEF IInv
<1>4. net' \subseteq Datagram /\ stray' \subseteq net' /\ NetInv'
  BY <1>1, <1>2, <1>3 DEF TypeOK, NetInv, client
<1>5. TypeOK'
  BY <1>1, <1>2, <1>4 DEF TypeOK, client, disk
<1>6. /\ PeerInv' /\ SessionInv' /\ WriteInv' /\ InStep' /\ DoneInv'
      /\ AloneWritesPrefix' /\ CapHolds' /\ DeclaredTooLargeRefused'
  <2>1. PeerInv'
    BY <1>1, <1>2 DEF client, disk, TypeOK, PeerInv, NetInv
  <2>2. SessionInv'
    BY <1>1, <1>2 DEF client, disk, TypeOK, SessionInv, NetInv, InStep
  <2>2a. WriteInv'
    BY <1>1, <1>2 DEF client, disk, TypeOK, SessionInv, WriteInv, NetInv, InStep
  <2>3. InStep'
    BY <1>1, <1>2 DEF client, disk, TypeOK, InStep, PeerInv, SessionInv,
       NetInv
  <2>4. DoneInv'
    BY <1>1, <1>2 DEF client, disk, TypeOK, DoneInv, PeerInv,
       SessionInv
  <2>5. AloneWritesPrefix'
    BY <1>1, <1>2 DEF client, disk, TypeOK, AloneWritesPrefix, Written, SessionInv
  <2>6. CapHolds'
    BY <1>1, <1>2 DEF client, disk, TypeOK, CapHolds, SessionInv
  <2>7. DeclaredTooLargeRefused'
    BY <1>1, <1>2 DEF client, disk, TypeOK, DeclaredTooLargeRefused, NetInv,
       PeerInv
  <2> QED BY <2>1, <2>2, <2>2a, <2>3, <2>4, <2>5, <2>6, <2>7
<1> QED BY <1>4, <1>5, <1>6

\* A block reaches the disk, or does not.
LEMMA WriteStep ==
  ASSUME IInv, NEW s \in Sessions, WriteLands(s) \/ WriteFails(s)
  PROVE  IInv'
<1> USE ChunksAssumption, CapAssumption, FilesAssumption
    DEF IInv, server, client, session
<1>1. /\ UNCHANGED <<net, client, cancelled, session, linked, server>>
      /\ TooLarge' = TooLarge
      /\ wbuf[s] = swant[s] - 1 /\ wbuf[s] \in 1..Chunks /\ wbuf[s] <= cap
      /\ s \notin broken /\ cap \in Nat /\ swant[s] \in Nat
      /\ wbuf' = [wbuf EXCEPT ![s] = 0]
  BY DEF WriteLands, WriteFails, TooLarge, TypeOK, WriteInv
<1>2. \/ broken' = broken
      \/ broken' = broken \cup {s} /\ WriteFails(s)
  BY DEF WriteLands, WriteFails
<1>3. /\ s \notin linked \/ WriteFails(s) => file' = file
      /\ s \in linked /\ WriteLands(s) =>
           /\ file \in Seq(0..Chunks)
           /\ file' = WriteAt(file, swant[s] - 1, swant[s] - 1)
           /\ file' \in Seq(0..Chunks)
  BY <1>1, BlockWritten DEF WriteLands, WriteFails, Stored, SessionInv
<1>4. TypeOK'
  <2>1. wbuf' \in [Sessions -> 0..Chunks] /\ broken' \subseteq Sessions
    BY <1>1, <1>2 DEF TypeOK
  <2>2. file' \in Seq(0..Chunks) \cup {OldFile, NoFile}
    BY <1>3 DEF TypeOK
  <2> QED BY <1>1, <2>1, <2>2 DEF TypeOK
<1>5. NetInv' /\ PeerInv' /\ InStep' /\ DoneInv'
  BY <1>1 DEF NetInv, PeerInv, InStep, DoneInv
<1>6. SessionInv'
  BY <1>1, <1>3 DEF SessionInv
<1>7. WriteInv'
  <2> SUFFICES ASSUME NEW t \in Sessions
               PROVE  /\ wbuf'[t] # 0 => /\ wbuf'[t] = swant[t] - 1
                                         /\ wbuf'[t] <= cap
                                         /\ t \notin broken'
                      /\ t \in broken' => swant[t] # 1
                      /\ spc[t] = "done" => wbuf'[t] = 0 /\ t \notin broken'
    BY <1>1 DEF WriteInv
  <2>1. CASE t = s
    BY <1>1, <1>2, <2>1 DEF TypeOK, WriteInv
  <2>2. CASE t # s
    BY <1>1, <1>2, <2>2 DEF TypeOK, WriteInv
  <2> QED BY <2>1, <2>2
<1>8. AloneWritesPrefix'
  <2> SUFFICES ASSUME NEW t \in Sessions, linked = {t}
               PROVE  file' = Prefix(Written(t)')
    BY <1>1 DEF AloneWritesPrefix, Prefix
  <2>1. file = Prefix(Written(t))
    BY DEF AloneWritesPrefix
  <2>2. CASE t # s
    <3>1. Written(t)' = Written(t) /\ s \notin linked
      BY <1>1, <1>2, <2>2 DEF Written, TypeOK
    <3> QED BY <1>3, <2>1, <3>1
  <2>3. CASE t = s /\ WriteLands(s)
    <3>1. Written(s) = wbuf[s] - 1 /\ Written(s)' = wbuf[s]
      BY <1>1, <2>3 DEF Written, TypeOK, WriteLands
    <3>2. file = [i \in 1..(wbuf[s] - 1) |-> i]
      BY <2>1, <2>3, <3>1 DEF Prefix
    <3>3. file' = [i \in 1..wbuf[s] |-> i]
      BY <1>1, <1>3, <2>3, <3>2, BlockWritten
    <3> QED BY <2>3, <3>1, <3>3 DEF Prefix
  <2>4. CASE t = s /\ WriteFails(s)
    <3>1. Written(s)' = Written(s)
      BY <1>1, <2>4 DEF Written, TypeOK, WriteFails
    <3> QED BY <2>1, <2>4, <3>1 DEF WriteFails
  <2> QED BY <2>2, <2>3, <2>4
<1>9. CapHolds'
  <2>1. CASE s \in linked /\ WriteLands(s)
    <3>1. Len(file) <= cap /\ Len(file) \in Nat
      BY <1>3, <2>1 DEF CapHolds
    <3>2. Len(file') = IF Len(file) < wbuf[s] THEN wbuf[s] ELSE Len(file)
      BY <1>1, <1>3, <2>1, BlockWritten
    <3> QED BY <1>1, <3>1, <3>2 DEF CapHolds
  <2>2. CASE ~(s \in linked /\ WriteLands(s))
    BY <1>1, <1>3, <2>2 DEF CapHolds
  <2> QED BY <2>1, <2>2
<1>10. DeclaredTooLargeRefused'
  <2>1. spc[s] # "absent"
    BY <1>1 DEF SessionInv
  <2>2. TooLarge => s \notin linked
    BY <1>1 DEF DeclaredTooLargeRefused, SessionInv
  <2> QED BY <1>1, <1>3, <2>1, <2>2 DEF DeclaredTooLargeRefused
<1> QED BY <1>4, <1>5, <1>6, <1>7, <1>8, <1>9, <1>10

LEMMA SessionStep ==
  ASSUME IInv, NEW s \in Sessions, Session(s)
  PROVE  IInv'
<1> USE NoneAssumption, ChunksAssumption, RetriesAssumption, CapAssumption,
        FilesAssumption DEF server
<1>1. CASE Open(s)
  <2> USE <1>1 DEF IInv
  <2>1. /\ spc[s] = "absent" /\ swant[s] = 1 /\ s \notin linked /\ ~TooLarge
        /\ TooLarge' = TooLarge
    BY DEF Open, SessionInv, TooLarge
  <2>2. net' \subseteq Datagram /\ stray' \subseteq net' /\ NetInv'
    BY <2>1 DEF Open, FirstReply, Send, TypeOK, NetInv, Datagram, Types, Oack,
                Ack, client
  <2>3. TypeOK' /\ file' \in Seq(0..Chunks) /\ Len(file') = 0
    <3>1. file' = <<>> /\ <<>> \in Seq(0..Chunks) /\ Len(<<>>) = 0
      BY DEF Open
    <3> QED BY <2>1, <2>2, <3>1 DEF Open, TypeOK, client
  <2>4. /\ PeerInv' /\ SessionInv' /\ WriteInv' /\ InStep' /\ DoneInv'
        /\ AloneWritesPrefix' /\ CapHolds' /\ DeclaredTooLargeRefused'
    <3>1. PeerInv'
      BY <2>1, <2>3 DEF Open, client, TypeOK, PeerInv, NetInv
    <3>2. SessionInv'
      BY <2>1, <2>3 DEF Open, client, TypeOK, SessionInv, NetInv, InStep
    <3>2a. WriteInv'
      BY <2>1, <2>3 DEF Open, client, TypeOK, SessionInv, WriteInv, NetInv, InStep
    <3>3. InStep'
      BY <2>1, <2>3 DEF Open, client, TypeOK, InStep, PeerInv, SessionInv,
         NetInv
    <3>4. DoneInv'
      BY <2>1, <2>3 DEF Open, client, TypeOK, DoneInv, PeerInv,
         SessionInv
    <3>5. AloneWritesPrefix'
      <4> SUFFICES ASSUME NEW t \in Sessions, linked' = {t}
                   PROVE  file' = Prefix(Written(t)')
        BY DEF AloneWritesPrefix, Prefix
      <4>1. t = s
        BY DEF Open
      <4>2. Written(s)' = 0
        BY <2>1 DEF Open, Written, WriteInv, TypeOK
      <4>3. file' = <<>> /\ Prefix(0) = <<>>
        BY DEF Open, Prefix
      <4> QED BY <4>1, <4>2, <4>3
    <3>6. CapHolds'
      BY <2>1, <2>3 DEF Open, client, TypeOK, CapHolds, SessionInv
    <3>7. DeclaredTooLargeRefused'
      BY <2>1, <2>3 DEF Open, client, TypeOK, DeclaredTooLargeRefused, NetInv,
         PeerInv
    <3> QED BY <3>1, <3>2, <3>2a, <3>3, <3>4, <3>5, <3>6, <3>7
  <2> QED BY <2>2, <2>3, <2>4
<1>2. CASE Refuse(s)
  <2> USE <1>2 DEF IInv
  <2>1. spc[s] = "absent" /\ swant[s] = 1 /\ s \notin linked
        /\ TooLarge' = TooLarge
    BY DEF Refuse, EndSession, SessionInv, TooLarge
  <2>2. net' \subseteq Datagram /\ stray' \subseteq net' /\ NetInv'
    BY <2>1 DEF Refuse, EndSession, Send, TypeOK, NetInv, Datagram, Types,
                ErrorPacket, client
  <2>3. TypeOK'
    BY <2>1, <2>2 DEF Refuse, EndSession, TypeOK, client, disk
  <2>4. /\ PeerInv' /\ SessionInv' /\ WriteInv' /\ InStep' /\ DoneInv'
        /\ AloneWritesPrefix' /\ CapHolds' /\ DeclaredTooLargeRefused'
    <3>1. PeerInv'
      BY <2>1 DEF Refuse, EndSession, client, disk, TypeOK, PeerInv, NetInv
    <3>2. SessionInv'
      BY <2>1 DEF Refuse, EndSession, client, disk, TypeOK, SessionInv,
         NetInv, InStep
    <3>2a. WriteInv'
      BY <2>1 DEF Refuse, EndSession, client, disk, TypeOK, SessionInv, WriteInv,
         NetInv, InStep
    <3>3. InStep'
      BY <2>1 DEF Refuse, EndSession, client, disk, TypeOK, InStep, PeerInv,
         SessionInv, NetInv
    <3>4. DoneInv'
      BY <2>1 DEF Refuse, EndSession, client, disk, TypeOK, DoneInv,
         PeerInv, SessionInv
    <3>5. AloneWritesPrefix'
      BY <2>1 DEF Refuse, EndSession, client, disk, TypeOK, AloneWritesPrefix,
         Written, SessionInv
    <3>6. CapHolds'
      BY <2>1 DEF Refuse, EndSession, client, disk, TypeOK, CapHolds,
         SessionInv
    <3>7. DeclaredTooLargeRefused'
      BY <2>1 DEF Refuse, EndSession, client, disk, TypeOK,
         DeclaredTooLargeRefused, NetInv, PeerInv
    <3> QED BY <3>1, <3>2, <3>2a, <3>3, <3>4, <3>5, <3>6, <3>7
  <2> QED BY <2>2, <2>3, <2>4
<1>3. ASSUME NEW i \in 1..Chunks, GetData(s, i) PROVE IInv'
  <2>1. /\ s = peer /\ i = swant[s] /\ cblk = swant[s]
        /\ swant[s] \in 1..Chunks /\ ~TooLarge /\ TooLarge' = TooLarge
    BY <1>3, WantedBlock DEF GetData, TooLarge, IInv, DeclaredTooLargeRefused
  <2> USE <1>3 DEF IInv
  <2>2. /\ swant' \in [Sessions -> 1..Chunks + 1]
        /\ swant'[s] = swant[s] + 1
        /\ \A t \in Sessions \ {s} : /\ swant'[t] = swant[t]
                                     /\ spc'[t] = spc[t] /\ wbuf'[t] = wbuf[t]
        /\ spc'[s] = IF swant[s] = Chunks THEN "flushing" ELSE "receiving"
        /\ spc[s] = "receiving" /\ swant[s] <= cap
        /\ wbuf[s] = 0 /\ s \notin broken /\ wbuf'[s] = swant[s]
        /\ UNCHANGED <<file, linked, broken, cap>> /\ cap \in Nat
    BY <2>1 DEF GetData, TakesBlock, TypeOK
  <2>3. net' \subseteq Datagram /\ stray' \subseteq net' /\ NetInv'
    BY <2>1, <2>2 DEF GetData, Send, TypeOK, NetInv, Datagram, Types, Ack,
                      client
  <2>4. wbuf' \in [Sessions -> 0..Chunks]
    BY <2>1 DEF GetData, TypeOK
  <2>5. TypeOK'
    <3>1. /\ stries' \in [Sessions -> 0..MaxRetries - 1]
          /\ spc' \in [Sessions -> {"absent", "receiving", "flushing", "done",
                                    "failed", "refused"}]
      BY DEF GetData, TypeOK
    <3> QED BY <2>2, <2>3, <2>4, <3>1 DEF GetData, TypeOK, client
  <2>6. /\ PeerInv' /\ SessionInv' /\ WriteInv' /\ InStep' /\ DoneInv'
        /\ AloneWritesPrefix' /\ CapHolds' /\ DeclaredTooLargeRefused'
    <3>1. PeerInv'
      BY <2>1, <2>2, <2>4 DEF GetData, client, TypeOK, PeerInv, NetInv
    <3>2. SessionInv'
      BY <2>1, <2>2, <2>4 DEF GetData, client, TypeOK, SessionInv, NetInv,
         InStep
    <3>2a. WriteInv'
      BY <2>1, <2>2, <2>4 DEF GetData, client, TypeOK, SessionInv, WriteInv,
         NetInv, InStep
    <3>3. InStep'
      BY <2>1, <2>2, <2>4 DEF GetData, client, TypeOK, InStep, PeerInv,
         SessionInv, NetInv
    <3>4. DoneInv'
      BY <2>1, <2>2, <2>4 DEF GetData, client, TypeOK, DoneInv,
         PeerInv, SessionInv
    <3>5. AloneWritesPrefix'
      <4>1. ASSUME NEW t \in Sessions PROVE Written(t)' = Written(t)
        <5>1. CASE t = s
          BY <2>1, <2>2, <5>1 DEF Written
        <5>2. CASE t # s
          BY <2>2, <5>2 DEF Written
        <5> QED BY <5>1, <5>2
      <4> QED BY <2>2, <4>1 DEF AloneWritesPrefix
    <3>6. CapHolds'
      BY <2>2 DEF CapHolds
    <3>7. DeclaredTooLargeRefused'
      BY <2>1, <2>2, <2>4 DEF GetData, client, TypeOK,
         DeclaredTooLargeRefused, NetInv, PeerInv
    <3> QED BY <3>1, <3>2, <3>2a, <3>3, <3>4, <3>5, <3>6, <3>7
  <2> QED BY <2>3, <2>5, <2>6
<1>4. ASSUME NEW i \in 1..Chunks, GetTooMuch(s, i) PROVE IInv'
  <2> USE <1>4 DEF IInv
  <2>1. /\ spc[s] = "receiving" /\ ~TooLarge /\ TooLarge' = TooLarge
        /\ swant[s] \in 1..Chunks
    <3>1. spc[s] = "receiving" /\ IInv
      BY DEF GetTooMuch
    <3>2. swant[s] \in 1..Chunks
      BY <3>1, ReceivingWantsAChunk
    <3> QED
      BY <3>1, <3>2 DEF GetTooMuch, EndSession, TooLarge,
                        DeclaredTooLargeRefused
  <2>a. /\ net' = net \cup {ErrorPacket(s)} /\ swant' = swant
        /\ UNCHANGED <<peer, stray, cblk>>
        /\ \A t \in Sessions : spc'[t] = "absent" => spc[t] = "absent"
    BY DEF GetTooMuch, EndSession, Send, client, TypeOK
  <2>2. net' \subseteq Datagram /\ stray' \subseteq net' /\ NetInv'
    <3>1. net' \subseteq Datagram /\ stray' \subseteq net'
      BY <2>a DEF TypeOK, Datagram, Types, ErrorPacket
    <3>2. spc'[s] # "absent"
      BY DEF GetTooMuch, EndSession, TypeOK
    <3> QED BY <2>1, <2>a, <3>1, <3>2 DEF NetInv, ErrorPacket
  <2>3. TypeOK'
    BY <2>1, <2>2 DEF GetTooMuch, EndSession, TypeOK, client
  <2>4. /\ PeerInv' /\ SessionInv' /\ WriteInv' /\ InStep' /\ DoneInv'
        /\ AloneWritesPrefix' /\ CapHolds' /\ DeclaredTooLargeRefused'
    <3>1. PeerInv'
      BY <2>1 DEF GetTooMuch, EndSession, client, TypeOK, PeerInv, NetInv
    <3>2. SessionInv'
      BY <2>1 DEF GetTooMuch, EndSession, client, TypeOK, SessionInv, NetInv,
         InStep
    <3>2a. WriteInv'
      BY <2>1 DEF GetTooMuch, EndSession, client, TypeOK, SessionInv, WriteInv,
         NetInv, InStep
    <3>3. InStep'
      BY <2>1 DEF GetTooMuch, EndSession, client, TypeOK, InStep, PeerInv,
         SessionInv, NetInv
    <3>4. DoneInv'
      BY <2>1 DEF GetTooMuch, EndSession, client, TypeOK, DoneInv,
         PeerInv, SessionInv
    <3>5. AloneWritesPrefix'
      BY <2>1 DEF GetTooMuch, EndSession, client, TypeOK, AloneWritesPrefix,
         Written, SessionInv
    <3>6. CapHolds'
      BY <2>1 DEF GetTooMuch, EndSession, client, TypeOK, CapHolds, SessionInv
    <3>7. DeclaredTooLargeRefused'
      BY <2>1 DEF GetTooMuch, EndSession, client, TypeOK,
         DeclaredTooLargeRefused, NetInv, PeerInv
    <3> QED BY <3>1, <3>2, <3>2a, <3>3, <3>4, <3>5, <3>6, <3>7
  <2> QED BY <2>2, <2>3, <2>4
<1>5. ASSUME NEW i \in 1..Chunks, GetDuplicate(s, i) PROVE IInv'
  BY <1>5, SessionWaitStep DEF GetDuplicate
<1>6. CASE SessionTimeout(s)
  BY <1>6, SessionWaitStep DEF SessionTimeout
<1>7. ASSUME spc[s] \in {"receiving", "flushing"},
             NEW why \in {"done", "failed"}, EndSession(s, why),
             why = "done" => spc[s] = "flushing" /\ wbuf[s] = 0
                             /\ s \notin broken,
             UNCHANGED <<net, disk>>
      PROVE  IInv'
  <2> USE <1>7 DEF IInv
  <2>1. ~TooLarge /\ TooLarge' = TooLarge
    BY DEF EndSession, TooLarge, DeclaredTooLargeRefused
  <2>2. NetInv'
    BY <2>1 DEF EndSession, TypeOK, NetInv, client
  <2>3. TypeOK'
    BY <2>1, <2>2 DEF EndSession, TypeOK, client, disk
  <2>4. /\ PeerInv' /\ SessionInv' /\ WriteInv' /\ InStep' /\ DoneInv'
        /\ AloneWritesPrefix' /\ CapHolds' /\ DeclaredTooLargeRefused'
    <3>1. PeerInv'
      BY <2>1 DEF EndSession, client, disk, TypeOK, PeerInv, NetInv
    <3>2. SessionInv'
      BY <2>1 DEF EndSession, client, disk, TypeOK, SessionInv, NetInv, InStep
    <3>2a. WriteInv'
      BY <2>1 DEF EndSession, client, disk, TypeOK, SessionInv, WriteInv,
         NetInv, InStep
    <3>3. InStep'
      BY <2>1 DEF EndSession, client, disk, TypeOK, InStep, PeerInv,
         SessionInv, NetInv
    <3>4. DoneInv'
      BY <2>1 DEF EndSession, client, disk, TypeOK, DoneInv,
         PeerInv, SessionInv
    <3>5. AloneWritesPrefix'
      BY <2>1 DEF EndSession, client, disk, TypeOK, AloneWritesPrefix, Written,
         SessionInv
    <3>6. CapHolds'
      BY <2>1 DEF EndSession, client, disk, TypeOK, CapHolds, SessionInv
    <3>7. DeclaredTooLargeRefused'
      BY <2>1 DEF EndSession, client, disk, TypeOK, DeclaredTooLargeRefused,
         NetInv, PeerInv
    <3> QED BY <3>1, <3>2, <3>2a, <3>3, <3>4, <3>5, <3>6, <3>7
  <2> QED BY <2>2, <2>3, <2>4
<1>8. ASSUME NEW i \in 1..Chunks, GetUnexpected(s, i) PROVE IInv'
  BY <1>7, <1>8 DEF GetUnexpected
<1>9. CASE SessionDies(s)
  BY <1>7, <1>9 DEF SessionDies
<1>10. CASE Flush(s)
  BY <1>7, <1>10 DEF Flush
<1>11. CASE WriteLands(s) \/ WriteFails(s)
  BY <1>11, WriteStep
<1> QED
  BY <1>1, <1>2, <1>3, <1>4, <1>5, <1>6, <1>8, <1>9, <1>10, <1>11 DEF Session

LEMMA InitInv == Init => IInv
<1> SUFFICES ASSUME Init PROVE IInv
  OBVIOUS
<1> USE NoneAssumption, ChunksAssumption, RetriesAssumption, CapAssumption
        DEF Init, server
<1>1. TypeOK
  <2>1. <<"Started">> \in Seq({"Started", "Done", "Error"})
    OBVIOUS
  <2>2. net \subseteq Datagram /\ stray \subseteq net
    BY DEF Datagram, Types, Request
  <2>3. cblk \in 1..Chunks /\ ctries \in 0..MaxRetries - 1
    OBVIOUS
  <2>4. /\ swant \in [Sessions -> 1..Chunks + 1]
        /\ stries \in [Sessions -> 0..MaxRetries - 1]
        /\ wbuf \in [Sessions -> 0..Chunks]
    OBVIOUS
  <2> QED BY <2>1, <2>2, <2>3, <2>4 DEF TypeOK
<1>2. NetInv /\ PeerInv /\ InStep /\ DoneInv
  BY DEF NetInv, PeerInv, InStep, DoneInv, Request
<1>3. /\ SessionInv /\ WriteInv /\ AloneWritesPrefix /\ CapHolds
      /\ DeclaredTooLargeRefused
  BY DEF SessionInv, WriteInv, AloneWritesPrefix, CapHolds,
     DeclaredTooLargeRefused
<1> QED BY <1>1, <1>2, <1>3 DEF IInv

LEMMA StepInv == IInv /\ [Next]_vars => IInv'
<1> SUFFICES ASSUME IInv, [Next]_vars PROVE IInv'
  OBVIOUS
<1>1. CASE Client
  BY <1>1, ClientStep
<1>2. ASSUME NEW s \in Sessions, Session(s) PROVE IInv'
  BY <1>2, SessionStep
<1>3. CASE AskCancel \/ StopServer \/ CloseListener \/ UNCHANGED vars
  <2> USE <1>3 DEF AskCancel, StopServer, CloseListener, vars, client, session,
                   disk, server, IInv
  <2>0. TypeOK'
    BY DEF TypeOK
  <2>1. NetInv' /\ PeerInv' /\ SessionInv' /\ WriteInv'
    BY DEF NetInv, PeerInv, SessionInv, WriteInv, TooLarge
  <2>2. InStep' /\ DoneInv' /\ AloneWritesPrefix' /\ CapHolds'
        /\ DeclaredTooLargeRefused'
    BY DEF InStep, DoneInv, AloneWritesPrefix, Written, CapHolds,
           DeclaredTooLargeRefused, TooLarge
  <2> QED BY <2>0, <2>1, <2>2
<1> QED
  BY <1>1, <1>2, <1>3 DEF Next

LEMMA InvariantHolds == Safety => []IInv
BY InitInv, StepInv, PTL DEF Safety

-----------------------------------------------------------------------------
(* The theorems.                                                           *)

\* Every variable keeps to its type.
THEOREM TypeCorrect == Safety => []TypeOK
<1>1. IInv => TypeOK
  BY DEF IInv
<1> QED BY <1>1, InvariantHolds, PTL

\* The two ends of an upload stay in step, whatever the network loses,
\* repeats or reorders, and although the block number wraps.
THEOREM EndsInStep == Safety => []InStep
<1>1. IInv => InStep
  BY DEF IInv
<1> QED BY <1>1, InvariantHolds, PTL

\* Done is only reported of an upload whose session acknowledged every chunk
\* and, alone on its file, stored all but possibly the last one.
THEOREM DoneCorrect == Safety => []DoneMeansReceived
<1>1. IInv => DoneMeansReceived
  <2> SUFFICES ASSUME IInv, cpc = "done"
               PROVE  /\ swant[peer] = Chunks + 1
                      /\ linked = {peer} =>
                           \/ file = Whole
                           \/ /\ file = Prefix(Chunks - 1)
                              /\ wbuf[peer] # 0 \/ peer \in broken
    BY DEF DoneMeansReceived
  <2>1. swant[peer] = Chunks + 1 /\ peer \in Sessions /\ Chunks \in Nat
    BY ChunksAssumption DEF IInv, DoneInv, TypeOK, PeerInv
  <2>2. linked = {peer} => file = Prefix(Written(peer))
    BY <2>1 DEF IInv, AloneWritesPrefix
  <2>3. Written(peer) = IF wbuf[peer] # 0 \/ peer \in broken
                        THEN Chunks - 1 ELSE Chunks
    BY <2>1 DEF Written
  <2> QED BY <2>1, <2>2, <2>3 DEF Whole
<1> QED BY <1>1, InvariantHolds, PTL

\* A session that has the file to itself stores the chunks in order, all it
\* acknowledged but for a last one under way or failed.
THEOREM StoredInOrder == Safety => []AloneWritesPrefix
<1>1. IInv => AloneWritesPrefix
  BY DEF IInv
<1> QED BY <1>1, InvariantHolds, PTL

\* No upload leaves more than the cap in the directory.
THEOREM CapCorrect == Safety => []CapHolds
<1>1. IInv => CapHolds
  BY DEF IInv
<1> QED BY <1>1, InvariantHolds, PTL

\* What is stored is the chunks acknowledged, in order, but for a last one under
\* way or failed, and never past the cap.
THEOREM StoredCorrect == Safety => []StoresInOrderUpToCap
<1>1. AloneWritesPrefix /\ CapHolds => StoresInOrderUpToCap
  BY DEF StoresInOrderUpToCap
<1> QED BY <1>1, StoredInOrder, CapCorrect, PTL

\* An upload declared too large never touches the old file.
THEOREM RefusalCorrect == Safety => []DeclaredTooLargeRefused
<1>1. IInv => DeclaredTooLargeRefused
  BY DEF IInv
<1> QED BY <1>1, InvariantHolds, PTL


-----------------------------------------------------------------------------
(* When Done means stored.                                                 *)

\* If the session of the client is the only one whose handle is the file, a
\* Done of a file that is not whole was said while the last write was under
\* way, or that write failed; and "receive complete", which a session logs
\* after the flush, is right of a file it has to itself.
CompleteAloneMeansStored ==
  /\ cpc = "done" /\ linked = {peer} /\ file # Whole =>
       spc[peer] # "done" /\ (wbuf[peer] # 0 \/ peer \in broken)
  /\ \A s \in Sessions : spc[s] = "done" /\ linked = {s} => file = Whole

\* For an upload whose WRQ opened one session there is one way to a Done that
\* is not stored, the write of the last block, which is acknowledged first;
\* the session itself is not wrong about it.
THEOREM AloneStored == Safety => []CompleteAloneMeansStored
<1>1. IInv /\ DoneMeansReceived => CompleteAloneMeansStored
  <2> SUFFICES ASSUME IInv, DoneMeansReceived PROVE CompleteAloneMeansStored
    OBVIOUS
  <2>1. ASSUME NEW s \in Sessions, spc[s] = "done", linked = {s}
        PROVE  file = Whole
    <3>1. swant[s] = Chunks + 1 /\ wbuf[s] = 0 /\ s \notin broken
      BY <2>1 DEF IInv, SessionInv, WriteInv
    <3>2. Written(s) = Chunks
      BY <3>1, ChunksAssumption DEF Written
    <3> QED BY <2>1, <3>2 DEF IInv, AloneWritesPrefix, Whole
  <2>2. cpc = "done" => peer \in Sessions
    BY DEF IInv, TypeOK, PeerInv
  <2> QED BY <2>1, <2>2 DEF CompleteAloneMeansStored, DoneMeansReceived
<1> QED BY <1>1, InvariantHolds, DoneCorrect, PTL

\* Once Done is reported, two things can still change the file: the last block
\* reaches the disk, and the File::create of another session, for another copy
\* of the WRQ.  No other session gets a block, so none writes, and none can run
\* past the cap.
LastBlockOrAnotherOpen ==
  [][cpc = "done" /\ file' # file =>
       \/ WriteLands(peer) /\ wbuf[peer] = Chunks
       \/ \E s \in Sessions \ {peer} : Open(s)]_vars

LEMMA DoneStep ==
  ASSUME IInv, Next, cpc = "done", file' # file
  PROVE  \/ WriteLands(peer) /\ wbuf[peer] = Chunks
         \/ \E s \in Sessions \ {peer} : Open(s)
<1>1. ~Client
  BY DEF Client, HandshakeTimeout, SendTimeout, IoError, Cancel,
     HandshakeReply, HandshakeError, GetAck, GetLastAck, GetOldAck, GetOther
<1>2. ~(AskCancel \/ StopServer \/ CloseListener)
  BY DEF AskCancel, StopServer, CloseListener, disk
<1>3. PICK s \in Sessions : Session(s)
  BY <1>1, <1>2 DEF Next
<1>4. /\ swant[peer] = Chunks + 1 /\ peer \in Sessions
      /\ spc[peer] \notin {"absent", "receiving"}
  BY DEF IInv, DoneInv, PeerInv, SessionInv, TypeOK
<1>5. \A i \in 1..Chunks : spc[s] = "receiving" => ~Arrives(s, i)
  BY <1>4 DEF Arrives, Data, IInv, NetInv
<1>6. Open(s) \/ WriteLands(s)
  BY <1>3, <1>5 DEF Session, Refuse, GetData, GetTooMuch, GetDuplicate,
     GetUnexpected, SessionTimeout, SessionDies, SpendSessionTry, disk,
     WriteFails, Flush
<1>7. CASE Open(s)
  BY <1>4, <1>7 DEF Open
<1>8. CASE WriteLands(s)
  <2>1. wbuf[s] # 0 /\ wbuf[s] = swant[s] - 1 /\ swant[s] # 1
    BY <1>8 DEF WriteLands, IInv, WriteInv, TypeOK
  <2>2. s = peer
    BY <2>1 DEF IInv, InStep
  <2> QED BY <1>4, <1>8, <2>1, <2>2, ChunksAssumption
<1> QED BY <1>6, <1>7, <1>8

\* What Done was said of changes in one more way only, its last block, until
\* a late copy of the WRQ is served.
THEOREM StoredUntilOpened == Safety => LastBlockOrAnotherOpen
<1>1. IInv /\ [Next]_vars =>
        [cpc = "done" /\ file' # file =>
           \/ WriteLands(peer) /\ wbuf[peer] = Chunks
           \/ \E s \in Sessions \ {peer} : Open(s)]_vars
  BY DoneStep
<1> QED BY <1>1, InvariantHolds, PTL DEF Safety, LastBlockOrAnotherOpen

-----------------------------------------------------------------------------
(* Why an upload ends: every step brings an end nearer.                    *)

\* A step of the client ends the upload, connects it, moves it one chunk on
\* or spends an iteration of the wait.
ClientAhead ==
  \/ ~ClientOver /\ ClientOver'
  \/ cpc = "handshake" /\ cpc' = "sending"
  \/ cpc = "sending" /\ UNCHANGED cpc /\ cblk' = cblk + 1
  \/ ~ClientOver /\ UNCHANGED <<cpc, cblk>> /\ ctries' = ctries + 1

\* A step of session s opens or refuses it, ends it, takes one block more,
\* spends an iteration of the wait or is the end of a write.
SessionAhead(s) ==
  \/ spc[s] = "absent" /\ spc'[s] # "absent"
  \/ spc[s] = "receiving" /\ spc'[s] \notin {"absent", "receiving"}
  \/ spc[s] = "flushing" /\ spc'[s] \in {"done", "failed"}
  \/ /\ spc[s] = "receiving" /\ spc'[s] = "receiving"
     /\ \/ swant'[s] = swant[s] + 1
        \/ swant'[s] = swant[s] /\ stries'[s] = stries[s] + 1
  \/ /\ spc'[s] = spc[s] /\ swant'[s] = swant[s] /\ stries'[s] = stries[s]
     /\ wbuf[s] # 0 /\ wbuf'[s] = 0

\* No wait starts over: whatever datagrams are repeated or late, each step of
\* one end is such a step, and no step of another takes it back.  Blocks and
\* iterations are bounded (TypeCorrect), so an upload takes a bounded number
\* of steps: what EverythingEnds adds is that the timers fire.
NoWaitStartsOver ==
  [][/\ IF Client THEN ClientAhead ELSE UNCHANGED client
     /\ \A s \in Sessions :
          IF Session(s) THEN SessionAhead(s)
          ELSE /\ spc'[s] = spc[s] /\ wbuf'[s] = wbuf[s]
               /\ swant'[s] = swant[s] /\ stries'[s] = stries[s]]_vars

LEMMA ClientMoves ==
  ASSUME IInv, Client
  PROVE  ClientAhead /\ UNCHANGED <<session, wbuf>>
<1> USE DEF ClientAhead, ClientOver, Failures, session, disk
<1>1. ASSUME NEW n, NEW why \in Failures, Fail(why, n),
             cpc \in {"handshake", "sending"}
      PROVE  ClientAhead /\ UNCHANGED <<session, wbuf>>
  BY <1>1 DEF Fail
<1>2. ASSUME SpendTry, cpc \in {"handshake", "sending"}
      PROVE  ClientAhead /\ UNCHANGED <<session, wbuf>>
  BY <1>1, <1>2 DEF SpendTry
<1>3. CASE HandshakeTimeout \/ SendTimeout
  BY <1>2, <1>3 DEF HandshakeTimeout, SendTimeout
<1>4. CASE IoError \/ Cancel
  BY <1>1, <1>4 DEF IoError, Cancel
<1>5. ASSUME NEW d \in net, HandshakeReply(d) \/ HandshakeError(d)
      PROVE  ClientAhead /\ UNCHANGED <<session, wbuf>>
  BY <1>1, <1>5 DEF HandshakeReply, HandshakeError
<1>6. ASSUME NEW d \in net, GetAck(d) \/ GetLastAck(d)
      PROVE  ClientAhead /\ UNCHANGED <<session, wbuf>>
  BY <1>6 DEF GetAck, GetLastAck
<1>7. ASSUME NEW d \in net, GetOldAck(d) \/ GetOther(d)
      PROVE  ClientAhead /\ UNCHANGED <<session, wbuf>>
  BY <1>1, <1>2, <1>7 DEF GetOldAck, GetOther
<1> QED BY <1>3, <1>4, <1>5, <1>6, <1>7 DEF Client

LEMMA SessionMoves ==
  ASSUME IInv, NEW s \in Sessions, Session(s)
  PROVE  /\ SessionAhead(s) /\ UNCHANGED client
         /\ \A t \in Sessions \ {s} : /\ spc'[t] = spc[t]
                                      /\ wbuf'[t] = wbuf[t]
                                      /\ swant'[t] = swant[t]
                                      /\ stries'[t] = stries[t]
<1> USE DEF SessionAhead, IInv, TypeOK, disk
<1> DEFINE Moves == /\ SessionAhead(s) /\ UNCHANGED client
                    /\ \A t \in Sessions \ {s} : /\ spc'[t] = spc[t]
                                                 /\ wbuf'[t] = wbuf[t]
                                                 /\ swant'[t] = swant[t]
                                                 /\ stries'[t] = stries[t]
<1>1. CASE Open(s) \/ Refuse(s)
  BY <1>1 DEF Open, Refuse, EndSession
<1>2. ASSUME NEW i \in 1..Chunks, GetData(s, i) PROVE Moves
  BY <1>2 DEF GetData
<1>3. ASSUME NEW i \in 1..Chunks, GetTooMuch(s, i) \/ GetUnexpected(s, i)
      PROVE  Moves
  BY <1>3 DEF GetTooMuch, GetUnexpected, EndSession
<1>4. ASSUME SpendSessionTry(s), spc[s] = "receiving" PROVE Moves
  BY <1>4 DEF SpendSessionTry
<1>5. ASSUME NEW i \in 1..Chunks, GetDuplicate(s, i) PROVE Moves
  BY <1>4, <1>5 DEF GetDuplicate
<1>6. CASE SessionTimeout(s)
  BY <1>4, <1>6 DEF SessionTimeout
<1>7. CASE SessionDies(s)
  BY <1>7 DEF SessionDies, EndSession
<1>8. CASE Flush(s)
  BY <1>8 DEF Flush, EndSession
<1>9. CASE WriteLands(s) \/ WriteFails(s)
  BY <1>9 DEF WriteLands, WriteFails, session
<1> QED BY <1>1, <1>2, <1>3, <1>5, <1>6, <1>7, <1>8, <1>9 DEF Session

\* No wait of an upload starts over, at either end.
THEOREM UploadMovesOn == Safety => NoWaitStartsOver
<1> DEFINE Still(s) == /\ spc'[s] = spc[s] /\ wbuf'[s] = wbuf[s]
                       /\ swant'[s] = swant[s] /\ stries'[s] = stries[s]
           Moves == /\ IF Client THEN ClientAhead ELSE UNCHANGED client
                    /\ \A s \in Sessions :
                         IF Session(s) THEN SessionAhead(s) ELSE Still(s)
<1>1. IInv /\ [Next]_vars => [Moves]_vars
  <2> SUFFICES ASSUME IInv, Next PROVE Moves
    OBVIOUS
  <2>1. IF Client THEN ClientAhead ELSE UNCHANGED client
    <3>1. CASE Client
      BY <3>1, ClientMoves
    <3>2. CASE ~Client
      BY <3>2, SessionMoves DEF Next, AskCancel, StopServer, CloseListener
    <3> QED BY <3>1, <3>2
  <2>2. ASSUME NEW s \in Sessions
        PROVE  IF Session(s) THEN SessionAhead(s) ELSE Still(s)
    <3>1. CASE Session(s)
      BY <3>1, SessionMoves
    <3>2. ASSUME ~Session(s), NEW t \in Sessions, Session(t) PROVE Still(s)
      BY <3>2, SessionMoves
    <3>3. CASE Client
      BY <3>1, <3>3, ClientMoves DEF session
    <3>4. CASE AskCancel \/ StopServer \/ CloseListener
      BY <3>1, <3>4 DEF AskCancel, StopServer, CloseListener, session, disk
    <3> QED BY <3>1, <3>2, <3>3, <3>4 DEF Next
  <2> QED BY <2>1, <2>2
<1> QED BY <1>1, InvariantHolds, PTL DEF Safety, NoWaitStartsOver

=============================================================================
