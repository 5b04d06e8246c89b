------------------------ MODULE TftpDownload_proofs ------------------------
(***************************************************************************)
(* Proofs about TftpDownload, for a file of any length, any number of      *)
(* sessions answering the same request, and a block counter of any size    *)
(* larger than the life of a datagram.                                     *)
(***************************************************************************)
EXTENDS TftpDownload, SequenceTheorems, TLAPS

\* What the datagrams in the network say of the two ends.
NetInv ==
  \A d \in net :
    /\ d.type \in {"oack", "data", "error"} =>
         d.session \in Sessions /\ spc[d.session] # "absent"
    /\ d.type = "oack" => options
    /\ d.type = "data" => d.index \in 1..sblk[d.session]
    /\ d.type = "ack" =>
         d.session \in Sessions /\ d.session = peer /\ d.index < want

\* The client is connected once the handshake is over; a session that was
\* not opened has sent nothing.
PeerInv ==
  /\ cpc = "handshake" => peer = None /\ want = 1
  /\ cpc \in {"receiving", "saving"} => peer # None
  /\ peer # None => spc[peer] # "absent"
  /\ \A s \in Sessions : spc[s] = "absent" => sblk[s] = 0
  /\ \A s \in Sessions : spc[s] = "sending" => First <= sblk[s]
  /\ peer = None => want = 1

\* `.part` is what was received, in order.
PartInv ==
  /\ cpc = "receiving" => /\ part = [i \in 1..want - 1 |-> i]
                          /\ First < want /\ want <= Chunks
  /\ cpc = "saving" => part = [i \in 1..Chunks |-> i] /\ want = Chunks + 1
  /\ cpc \notin {"receiving", "saving"} => part = NoFile

IInv ==
  /\ TypeOK
  /\ NetInv
  /\ PeerInv
  /\ InStep
  /\ PartInv
  /\ SendCompleteMeansReceived

-----------------------------------------------------------------------------
(* A lemma about the chunks received.                                      *)

\* The chunks received so far, and one more.
LEMMA OneMoreChunk ==
  ASSUME NEW n \in Nat
  PROVE  /\ [i \in 1..n |-> i] \in Seq(Nat)
         /\ Len([i \in 1..n |-> i]) = n
         /\ Append([i \in 1..n |-> i], n + 1) = [i \in 1..n + 1 |-> i]
OBVIOUS

-----------------------------------------------------------------------------
(* What the block number of a datagram that is received tells.             *)

\* Within the life of a datagram a block number names one position.
LEMMA SameBlockSamePosition ==
  ASSUME NEW i \in Nat, NEW j \in Nat, SameBlock(i, j), i <= j, j < i + Wrap
  PROVE  i = j
<1> DEFINE qi == i \div Wrap
           qj == j \div Wrap
<1>1. Wrap \in Nat /\ Wrap > 0
  BY WrapAssumption
<1>2. i = Wrap * qi + (i % Wrap) /\ qi \in Nat
  BY <1>1, Z3
<1>3. j = Wrap * qj + (j % Wrap) /\ qj \in Nat
  BY <1>1, Z3
<1> HIDE DEF qi, qj
<1>4. qi = qj
  <2>1. 0 <= Wrap * (qj - qi) /\ Wrap * (qj - qi) < Wrap
    BY <1>1, <1>2, <1>3 DEF SameBlock
  <2>2. CASE qj > qi
    BY <1>1, <1>2, <1>3, <2>1, <2>2, qj - qi >= 1
  <2>3. CASE qj < qi
    BY <1>1, <1>2, <1>3, <2>1, <2>3
  <2> QED BY <2>2, <2>3, <1>2, <1>3
<1> QED BY <1>2, <1>3, <1>4 DEF SameBlock

\* DATA with the wanted number is the wanted block.
LEMMA WantedBlock ==
  ASSUME IInv, NEW d \in net, cpc = "receiving", Incoming(d), IsData(d, want)
  PROVE  d.index = want
<1>1. /\ d.index \in Nat /\ want \in Nat /\ Life \in Nat /\ Wrap \in Nat
      /\ Life < Wrap
      /\ peer \in Sessions /\ sblk[peer] \in Nat
  BY WrapAssumption, ChunksAssumption DEF IInv, TypeOK, Datagram, PeerInv
<1>2. /\ d.session \in Sessions
      /\ 1 <= d.index /\ d.index <= sblk[d.session]
      /\ sblk[d.session] \in Nat
  BY DEF IInv, NetInv, IsData, TypeOK
<1>3. sblk[peer] < d.index + Life
  BY DEF Incoming, Fresh
<1>4. want \in {sblk[peer], sblk[peer] + 1} /\ 1 <= want
  BY <1>1, ChunksAssumption DEF IInv, InStep, TypeOK
<1>5. d.index <= want
  BY <1>1, <1>2, <1>4 DEF IInv, InStep, First
<1> QED
  BY <1>1, <1>3, <1>4, <1>5, SameBlockSamePosition DEF IsData

\* The first DATA of a session is its first block.
LEMMA FirstBlock ==
  ASSUME IInv, NEW d \in net, cpc = "handshake", d.type = "data"
  PROVE  d.index = 1 /\ sblk[d.session] = 1 /\ d.session \in Sessions
<1>1. /\ peer = None
      /\ d.session \in Sessions
      /\ 1 <= d.index /\ d.index <= sblk[d.session]
      /\ d.index \in Nat /\ sblk[d.session] \in Nat
  BY ChunksAssumption DEF IInv, NetInv, PeerInv, TypeOK, Datagram
<1>2. sblk[d.session] <= 1
  BY <1>1, NoneAssumption DEF IInv, InStep, First
<1> QED BY <1>1, <1>2

\* An ACK with the number of the block sent last is of that block, and comes
\* from the client, that waits for the next one.
LEMMA AckedBlock ==
  ASSUME IInv, NEW s \in Sessions, NEW i \in 0..Chunks, Acked(s, i),
         SameBlock(i, sblk[s])
  PROVE  s = peer /\ i = sblk[s] /\ want = sblk[s] + 1
<1>1. Ack(s, i) \in net /\ want - 1 < i + Life
  BY DEF Acked, Fresh
<1>2. s = peer /\ i < want
  BY <1>1 DEF IInv, NetInv, Ack
<1>3. /\ i \in Nat /\ want \in Nat /\ sblk[s] \in Nat /\ Life \in Nat
      /\ Wrap \in Nat /\ Life < Wrap
  BY WrapAssumption, ChunksAssumption DEF IInv, TypeOK
<1>4. want \in {sblk[s], sblk[s] + 1}
  BY <1>2 DEF IInv, InStep
<1>5. i <= sblk[s] /\ sblk[s] < i + Wrap
  BY <1>1, <1>2, <1>3, <1>4
<1>6. i = sblk[s]
  BY <1>3, <1>5, SameBlockSamePosition
<1> QED BY <1>2, <1>3, <1>4, <1>6

-----------------------------------------------------------------------------
(* Each step keeps the inductive invariant.                                *)

\* Error events added at the end.
LEMMA ErrorsAdded ==
  ASSUME NEW S, "Error" \in S, NEW e \in Seq(S), NEW n \in Nat
  PROVE  e \o [i \in 1..n |-> "Error"] \in Seq(S)
<1>1. [i \in 1..n |-> "Error"] \in Seq(S)
  OBVIOUS
<1> QED BY <1>1, ConcatProperties

\* The events stay a sequence of events when Error events are added.
LEMMA ErrorsTyped ==
  ASSUME TypeOK
  PROVE  \A n \in Nat : events \o [i \in 1..n |-> "Error"]
                          \in Seq({"Started", "Done", "Error"})
BY ErrorsAdded DEF TypeOK

\* The client fails, for whatever reason.
LEMMA EndStep ==
  ASSUME IInv, cpc' \in Failures,
         events' \in Seq({"Started", "Done", "Error"}), part' = NoFile,
         UNCHANGED <<peer, stray, want, ctries, dest, cancelled, session,
                     server>>,
         \/ net' = net \/ net' = net \cup {Request}
         \/ cpc = "receiving" /\ net' = net \cup {Ack(peer, want - 1)}
  PROVE  IInv'
<1> USE NoneAssumption, ChunksAssumption, RetriesAssumption DEF IInv, server
<1>1. net' \subseteq Datagram /\ stray' \subseteq net' /\ NetInv'
  BY DEF TypeOK, NetInv, PeerInv, PartInv, Datagram, Types, Request, Ack,
         session
<1>2. TypeOK'
  BY <1>1 DEF TypeOK, Failures, session
<1>3. PeerInv' /\ InStep' /\ PartInv'
      /\ SendCompleteMeansReceived'
  BY DEF TypeOK, Failures, session, PeerInv, InStep, PartInv, First,
         SendCompleteMeansReceived
<1> QED BY <1>1, <1>2, <1>3

LEMMA SpendTryStep ==
  ASSUME IInv, NEW n \in Nat, SpendTry(n),
         \/ net' = net \cup {Request}
         \/ cpc = "receiving" /\ net' = net \cup {Ack(peer, want - 1)}
  PROVE  IInv'
<1> USE NoneAssumption, ChunksAssumption, RetriesAssumption DEF server
<1>1. CASE ctries + 1 < MaxRetries
  <2> USE DEF IInv
  <2>0. UNCHANGED <<peer, want, spc, sblk, options>>
    BY <1>1 DEF SpendTry, session
  <2>1. net' \subseteq Datagram /\ NetInv'
    <3>1. CASE net' = net \cup {Request}
      BY <2>0, <3>1 DEF TypeOK, NetInv, Datagram, Types, Request
    <3>2. CASE cpc = "receiving" /\ net' = net \cup {Ack(peer, want - 1)}
      BY <2>0, <3>2 DEF TypeOK, NetInv, PeerInv, PartInv, Datagram, Types, Ack
    <3> QED BY <3>1, <3>2
  <2>2. TypeOK'
    BY <1>1, <2>1 DEF SpendTry, TypeOK, session
  <2>3. PeerInv' /\ InStep' /\ PartInv'
        /\ SendCompleteMeansReceived'
    <3>1. PeerInv'
      BY <1>1 DEF SpendTry, session, TypeOK, PeerInv, NetInv, First
    <3>2. InStep'
      BY <1>1 DEF SpendTry, session, TypeOK, InStep, PeerInv, PartInv, First
    <3>3. PartInv'
      BY <1>1 DEF SpendTry, session, TypeOK, PartInv, PeerInv, NetInv, First,
         Failures
    <3>5. SendCompleteMeansReceived'
      BY <1>1 DEF SpendTry, session, TypeOK, SendCompleteMeansReceived,
         InStep, PeerInv
    <3> QED BY <3>1, <3>2, <3>3, <3>5
  <2> QED BY <2>1, <2>2, <2>3
<1>2. CASE ~(ctries + 1 < MaxRetries)
  BY <1>2, EndStep, ErrorsTyped DEF SpendTry, Fail, Failures, IInv
<1> QED BY <1>1, <1>2

LEMMA HandshakeStep ==
  ASSUME IInv, NEW d \in net, Handshake(d)
  PROVE  IInv'
<1> USE NoneAssumption, ChunksAssumption, RetriesAssumption DEF server
<1>1. CASE HandshakeOack(d)
  <2> USE DEF IInv
  <2>0. d.session \in Sessions /\ cpc = "handshake" /\ peer = None /\ want = 1
    BY <1>1 DEF HandshakeOack, NetInv, PeerInv
  <2>1. net' \subseteq Datagram /\ NetInv' /\ stray' \subseteq net'
    BY <1>1, <2>0 DEF HandshakeOack, Connect, Send, TypeOK, NetInv, Datagram,
                Types, Ack, session
  <2>2. events' \in Seq({"Started", "Done", "Error"})
        /\ part' \in Seq(1..Chunks) /\ part' = [i \in 1..0 |-> i]
    BY <1>1 DEF HandshakeOack, TypeOK
  <2>3. TypeOK'
    BY <1>1, <2>0, <2>1, <2>2 DEF HandshakeOack, Connect, TypeOK, session
  <2>4. PeerInv' /\ InStep' /\ PartInv'
        /\ SendCompleteMeansReceived'
    <3>1. PeerInv'
      BY <1>1, <2>0, <2>2 DEF HandshakeOack, Connect, session, TypeOK,
         PeerInv, NetInv, First
    <3>2. InStep'
      BY <1>1, <2>0, <2>2 DEF HandshakeOack, Connect, session, TypeOK, InStep,
         PeerInv, PartInv, First
    <3>3. PartInv'
      BY <1>1, <2>0, <2>2 DEF HandshakeOack, Connect, session, TypeOK,
         PartInv, PeerInv, NetInv, First, Failures
    <3>5. SendCompleteMeansReceived'
      BY <1>1, <2>0, <2>2 DEF HandshakeOack, Connect, session, TypeOK,
         SendCompleteMeansReceived, InStep, PeerInv
    <3> QED BY <3>1, <3>2, <3>3, <3>5
  <2> QED BY <2>1, <2>3, <2>4
<1>2. CASE HandshakeData(d)
  <2>0. /\ d.session \in Sessions /\ cpc = "handshake" /\ peer = None
        /\ want = 1 /\ d.index = 1 /\ sblk[d.session] = 1
    BY <1>2, FirstBlock DEF HandshakeData, PeerInv, IInv
  <2> USE DEF IInv
  <2>1. net' \subseteq Datagram /\ NetInv' /\ stray' \subseteq net'
    BY <1>2, <2>0 DEF HandshakeData, Connect, Send, TypeOK, NetInv, Datagram,
                Types, Ack, session
  <2>2. events' \in Seq({"Started", "Done", "Error"})
        /\ part' \in Seq(1..Chunks) /\ part' = [i \in 1..1 |-> i]
    BY <1>2, <2>0 DEF HandshakeData, TypeOK
  <2>3. TypeOK'
    BY <1>2, <2>0, <2>1, <2>2 DEF HandshakeData, Connect, TypeOK, session
  <2>4. PeerInv' /\ InStep' /\ PartInv'
        /\ SendCompleteMeansReceived'
    <3>1. PeerInv'
      BY <1>2, <2>0, <2>2 DEF HandshakeData, Connect, session, TypeOK,
         PeerInv, NetInv, First
    <3>2. InStep'
      BY <1>2, <2>0, <2>2 DEF HandshakeData, Connect, session, TypeOK, InStep,
         PeerInv, PartInv, First
    <3>3. PartInv'
      BY <1>2, <2>0, <2>2 DEF HandshakeData, Connect, session, TypeOK,
         PartInv, PeerInv, NetInv, First, Failures
    <3>5. SendCompleteMeansReceived'
      BY <1>2, <2>0, <2>2 DEF HandshakeData, Connect, session, TypeOK,
         SendCompleteMeansReceived, InStep, PeerInv
    <3> QED BY <3>1, <3>2, <3>3, <3>5
  <2> QED BY <2>1, <2>3, <2>4
<1>3. CASE HandshakeError(d)
  BY <1>3, EndStep, ErrorsTyped DEF HandshakeError, Fail, Failures, IInv
<1> QED BY <1>1, <1>2, <1>3 DEF Handshake

LEMMA ReceiveStep ==
  ASSUME IInv, NEW d \in net, Receive(d)
  PROVE  IInv'
<1> USE NoneAssumption, ChunksAssumption, RetriesAssumption DEF server
<1>1. CASE ReceiveWanted(d)
  <2>0. d.index = want /\ cpc = "receiving"
    BY <1>1, WantedBlock DEF ReceiveWanted
  <2> USE DEF IInv
  <2>1. /\ peer \in Sessions /\ want \in 1..Chunks
        /\ want' = want + 1
        /\ UNCHANGED <<peer, sblk, spc>>
        /\ want' - 1 = want
        /\ cpc' = IF want = Chunks THEN "saving" ELSE "receiving"
    BY <1>1, <2>0 DEF ReceiveWanted, PeerInv, PartInv, TypeOK, session
  <2>2. sblk[peer] = want
    <3>1. d.index <= sblk[peer]
      <4>1. d.session \in Sessions /\ want \in 1..sblk[d.session]
        BY <2>0, <1>1 DEF ReceiveWanted, IsData, NetInv
      <4>2. First < want /\ First \in Nat
        BY <2>0 DEF PartInv, First
      <4>3. d.session = peer
        BY <2>1, <4>1, <4>2 DEF InStep
      <4> QED BY <2>0, <2>1, <4>1, <4>3 DEF TypeOK
    <3> QED BY <2>0, <2>1, <3>1 DEF InStep, TypeOK
  <2>3. part' = [i \in 1..want |-> i] /\ part' \in Seq(1..Chunks)
    <3>1. part = [i \in 1..want - 1 |-> i] /\ want - 1 \in Nat
      BY <2>0, <2>1 DEF PartInv
    <3>2. part' = Append(part, want)
      BY <1>1, <2>0 DEF ReceiveWanted
    <3>3. part' = [i \in 1..want |-> i]
      BY <2>1, <3>1, <3>2, OneMoreChunk, want - 1 + 1 = want
    <3>4. part \in Seq(1..Chunks)
      <4>1. \A i \in 1..want - 1 : i \in 1..Chunks
        BY <2>1
      <4> QED BY <3>1, <4>1
    <3> QED BY <2>1, <3>2, <3>3, <3>4
  <2>4. net' \subseteq Datagram /\ NetInv' /\ stray' \subseteq net'
    BY <1>1, <2>1 DEF ReceiveWanted, Send, TypeOK, NetInv, Datagram, Types,
                      Ack, session
  <2>5. TypeOK'
    BY <1>1, <2>1, <2>3, <2>4 DEF ReceiveWanted, TypeOK, session
  <2>6. PeerInv' /\ InStep' /\ PartInv'
        /\ SendCompleteMeansReceived'
    <3>1. PeerInv'
      BY <1>1, <2>0, <2>1, <2>2, <2>3 DEF ReceiveWanted, session, TypeOK,
         PeerInv, NetInv, First
    <3>2. InStep'
      BY <1>1, <2>0, <2>1, <2>2, <2>3 DEF ReceiveWanted, session, TypeOK,
         InStep, PeerInv, PartInv, First
    <3>3. PartInv'
      BY <2>0, <2>1, <2>3 DEF PartInv, First, Failures, TypeOK
    <3>5. SendCompleteMeansReceived'
      BY <1>1, <2>0, <2>1, <2>2, <2>3 DEF ReceiveWanted, session, TypeOK,
         SendCompleteMeansReceived, InStep, PeerInv
    <3> QED BY <3>1, <3>2, <3>3, <3>5
  <2> QED BY <2>4, <2>5, <2>6
<1>2. CASE ReceiveDuplicate(d)
  BY <1>2, SpendTryStep DEF ReceiveDuplicate, Send
<1>3. CASE ReceiveOther(d)
  BY <1>3, EndStep, ErrorsTyped DEF ReceiveOther, Fail, Failures, IInv
<1> QED BY <1>1, <1>2, <1>3 DEF Receive

LEMMA ClientStep ==
  ASSUME IInv, Client
  PROVE  IInv'
<1> USE NoneAssumption, ChunksAssumption, RetriesAssumption DEF server
<1>1. CASE HandshakeTimeout
  BY <1>1, SpendTryStep DEF HandshakeTimeout, Send
<1>2. CASE HandshakeIoError
  BY <1>2, EndStep, ErrorsTyped DEF HandshakeIoError, Fail, Failures, IInv
<1>3. ASSUME NEW d \in net, Handshake(d) \/ Receive(d) PROVE IInv'
  BY <1>3, HandshakeStep, ReceiveStep
<1>4. CASE ReceiveTimeout
  BY <1>4, SpendTryStep DEF ReceiveTimeout, Send
<1>5. CASE ReceiveIoError
  BY <1>5, EndStep, ErrorsTyped DEF ReceiveIoError, Fail, Failures, IInv
<1>6. CASE Save
  <2> USE <1>6 DEF IInv
  <2>1. /\ part \in Seq(1..Chunks)
        /\ events' \in Seq({"Started", "Done", "Error"})
    <3>1. part = [i \in 1..Chunks |-> i]
      BY DEF Save, PartInv
    <3> QED BY <3>1 DEF Save, TypeOK
  <2>2. TypeOK'
    BY <2>1 DEF Save, TypeOK, session
  <2>3. NetInv' /\ PeerInv' /\ InStep' /\ PartInv'
        /\ SendCompleteMeansReceived'
    BY DEF Save, session, NetInv, PeerInv, InStep, PartInv, First,
           SendCompleteMeansReceived
  <2> QED BY <2>2, <2>3
<1>7. CASE SaveFails
  BY <1>7, EndStep, ErrorsTyped DEF SaveFails, Fail, Failures, IInv
<1>8. CASE Cancel
  BY <1>8, EndStep, ErrorsTyped DEF Cancel, Fail, Failures, IInv
<1> QED
  BY <1>1, <1>2, <1>3, <1>4, <1>5, <1>6, <1>7, <1>8 DEF Client

\* Spending an iteration of a session's wait keeps the types.
LEMMA TryTyped ==
  ASSUME TypeOK, NEW s \in Sessions, SpendSessionTry(s)
  PROVE  /\ stries' \in [Sessions -> 0..MaxRetries - 1]
         /\ spc' \in [Sessions -> {"absent", "sending", "done", "timeout",
                                  "failed", "aborted"}]
         /\ \A t \in Sessions : stries[t] <= stries'[t]
         /\ spc'[s] # "timeout" => stries'[s] = stries[s] + 1
<1>1. /\ stries \in [Sessions -> 0..MaxRetries - 1]
      /\ spc \in [Sessions -> {"absent", "sending", "done", "timeout",
                               "failed", "aborted"}]
      /\ MaxRetries \in Nat
  BY RetriesAssumption DEF TypeOK
<1>2. CASE stries[s] + 1 < MaxRetries
  <2>1. stries[s] + 1 \in 0..MaxRetries - 1
    BY <1>1, <1>2
  <2> QED BY <1>1, <1>2, <2>1 DEF SpendSessionTry
<1>3. CASE ~(stries[s] + 1 < MaxRetries)
  BY <1>1, <1>3 DEF SpendSessionTry
<1> QED BY <1>2, <1>3

LEMMA SessionStep ==
  ASSUME IInv, NEW s \in Sessions, Session(s)
  PROVE  IInv'
<1> USE NoneAssumption, ChunksAssumption, RetriesAssumption DEF server
<1> DEFINE Rest == /\ PeerInv' /\ InStep' /\ PartInv'
                   /\ SendCompleteMeansReceived'
<1>1. CASE Open(s)
  <2> USE <1>1 DEF IInv
  <2>1. net' \subseteq Datagram /\ NetInv' /\ stray' \subseteq net'
    BY DEF Open, First, Send, TypeOK, NetInv, PeerInv, Datagram, Types, Oack,
           Data, client
  <2>2. TypeOK'
    BY <2>1 DEF Open, First, TypeOK, client
  <2>3. Rest
    <3>1. PeerInv'
      BY DEF Open, client, TypeOK, PeerInv, NetInv, First
    <3>2. InStep'
      BY DEF Open, client, TypeOK, InStep, PeerInv, PartInv, First
    <3>3. PartInv'
      BY DEF Open, client, TypeOK, PartInv, PeerInv, NetInv, First, Failures
    <3>5. SendCompleteMeansReceived'
      BY DEF Open, client, TypeOK, SendCompleteMeansReceived, InStep, PeerInv
    <3> QED BY <3>1, <3>2, <3>3, <3>5
  <2> QED BY <2>1, <2>2, <2>3
<1>2. CASE OpenFails(s)
  <2> USE <1>2 DEF IInv
  <2>1. net' \subseteq Datagram /\ NetInv' /\ stray' \subseteq net'
    BY DEF OpenFails, SetSession, Send, TypeOK, NetInv, Datagram, Types,
           ErrorPacket, client
  <2>2. TypeOK'
    BY <2>1 DEF OpenFails, SetSession, TypeOK, client
  <2>3. Rest
    <3>1. PeerInv'
      BY DEF OpenFails, SetSession, client, TypeOK, PeerInv, NetInv, First
    <3>2. InStep'
      BY DEF OpenFails, SetSession, client, TypeOK, InStep, PeerInv, PartInv,
         First
    <3>3. PartInv'
      BY DEF OpenFails, SetSession, client, TypeOK, PartInv, PeerInv, NetInv,
         First, Failures
    <3>5. SendCompleteMeansReceived'
      BY DEF OpenFails, SetSession, client, TypeOK, SendCompleteMeansReceived,
         InStep, PeerInv
    <3> QED BY <3>1, <3>2, <3>3, <3>5
  <2> QED BY <2>1, <2>2, <2>3
<1>3. ASSUME NEW i \in 0..Chunks, GetAck(s, i) PROVE IInv'
  <2>0. s = peer /\ want = sblk[s] + 1
    BY <1>3, AckedBlock DEF GetAck
  <2> USE <1>3 DEF IInv
  <2>1. net' \subseteq Datagram /\ NetInv' /\ stray' \subseteq net'
    BY DEF GetAck, Send, TypeOK, NetInv, Datagram, Types, Data, client
  <2>2. TypeOK'
    <3>1. sblk' \in [Sessions -> 0..Chunks]
      BY DEF GetAck, TypeOK
    <3>2. stries' \in [Sessions -> 0..MaxRetries - 1]
      BY DEF GetAck, TypeOK
    <3> QED BY <2>1, <3>1, <3>2 DEF GetAck, TypeOK, client
  <2>3. Rest
    <3>1. PeerInv'
      BY <2>0 DEF GetAck, client, TypeOK, PeerInv, NetInv, First
    <3>2. InStep'
      BY <2>0 DEF GetAck, client, TypeOK, InStep, PeerInv, PartInv, First
    <3>3. PartInv'
      BY <2>0 DEF GetAck, client, TypeOK, PartInv, PeerInv, NetInv, First,
         Failures
    <3>5. SendCompleteMeansReceived'
      BY <2>0 DEF GetAck, client, TypeOK, SendCompleteMeansReceived, InStep,
         PeerInv
    <3> QED BY <3>1, <3>2, <3>3, <3>5
  <2> QED BY <2>1, <2>2, <2>3
<1>4. ASSUME NEW i \in 0..Chunks, GetLastAck(s, i) PROVE IInv'
  <2>0. s = peer /\ want = sblk[s] + 1
    BY <1>4, AckedBlock DEF GetLastAck
  <2> USE <1>4 DEF IInv
  <2>1. NetInv'
    BY DEF GetLastAck, SetSession, TypeOK, NetInv, client
  <2>2. TypeOK'
    BY DEF GetLastAck, SetSession, TypeOK, client
  <2>3. Rest
    <3>1. PeerInv'
      BY <2>0 DEF GetLastAck, SetSession, client, TypeOK, PeerInv, NetInv,
         First
    <3>2. InStep'
      BY <2>0 DEF GetLastAck, SetSession, client, TypeOK, InStep, PeerInv,
         PartInv, First
    <3>3. PartInv'
      BY <2>0 DEF GetLastAck, SetSession, client, TypeOK, PartInv, PeerInv,
         NetInv, First, Failures
    <3>5. SendCompleteMeansReceived'
      BY <2>0 DEF GetLastAck, SetSession, client, TypeOK,
         SendCompleteMeansReceived, InStep, PeerInv
    <3> QED BY <3>1, <3>2, <3>3, <3>5
  <2> QED BY <2>1, <2>2, <2>3
<1>5. ASSUME NEW i \in 0..Chunks, GetOldAck(s, i) PROVE IInv'
  <2> USE <1>5 DEF IInv
  <2>1. NetInv'
    BY DEF GetOldAck, SpendSessionTry, TypeOK, NetInv, client
  <2>2. TypeOK'
    BY TryTyped DEF GetOldAck, TypeOK, client
  <2>3. Rest
    <3>1. PeerInv'
      BY DEF GetOldAck, SpendSessionTry, client, TypeOK, PeerInv, NetInv,
         First
    <3>2. InStep'
      BY DEF GetOldAck, SpendSessionTry, client, TypeOK, InStep, PeerInv,
         PartInv, First
    <3>3. PartInv'
      BY DEF GetOldAck, SpendSessionTry, client, TypeOK, PartInv, PeerInv,
         NetInv, First, Failures
    <3>5. SendCompleteMeansReceived'
      BY DEF GetOldAck, SpendSessionTry, client, TypeOK,
         SendCompleteMeansReceived, InStep, PeerInv
    <3> QED BY <3>1, <3>2, <3>3, <3>5
  <2> QED BY <2>1, <2>2, <2>3
<1>6. CASE SessionTimeout(s)
  <2> USE <1>6 DEF IInv
  <2>1. net' \subseteq Datagram /\ NetInv' /\ stray' \subseteq net'
    <3>1. /\ net' = net \cup {Outstanding(s)} /\ spc[s] = "sending"
          /\ UNCHANGED <<peer, want, stray, sblk, options>>
          /\ \A t \in Sessions : spc'[t] = "absent" => spc[t] = "absent"
          /\ spc'[s] # "absent"
      BY DEF SessionTimeout, SpendSessionTry, Send, client, TypeOK
    <3>2. CASE sblk[s] = 0
      <4>1. Outstanding(s) = Oack(s) /\ options
        BY <3>1, <3>2 DEF Outstanding, PeerInv, First
      <4> QED BY <3>1, <4>1 DEF TypeOK, NetInv, Datagram, Types, Oack
    <3>3. CASE sblk[s] # 0
      <4>1. Outstanding(s) = Data(s, sblk[s]) /\ sblk[s] \in 1..Chunks
        BY <3>3 DEF Outstanding, TypeOK
      <4> QED BY <3>1, <4>1 DEF TypeOK, NetInv, Datagram, Types, Data
    <3> QED BY <3>2, <3>3
  <2>2. TypeOK'
    BY <2>1, TryTyped DEF SessionTimeout, TypeOK, client
  <2>3. Rest
    <3>1. PeerInv'
      BY DEF SessionTimeout, SpendSessionTry, client, TypeOK, PeerInv, NetInv,
         First
    <3>2. InStep'
      BY DEF SessionTimeout, SpendSessionTry, client, TypeOK, InStep, PeerInv,
         PartInv, First
    <3>3. PartInv'
      BY DEF SessionTimeout, SpendSessionTry, client, TypeOK, PartInv,
         PeerInv, NetInv, First, Failures
    <3>5. SendCompleteMeansReceived'
      BY DEF SessionTimeout, SpendSessionTry, client, TypeOK,
         SendCompleteMeansReceived, InStep, PeerInv
    <3> QED BY <3>1, <3>2, <3>3, <3>5
  <2> QED BY <2>1, <2>2, <2>3
<1>7. CASE SessionIoError(s) \/ AbortSession(s)
  <2> USE <1>7 DEF IInv
  <2>1. NetInv'
    BY DEF SessionIoError, AbortSession, SetSession, TypeOK, NetInv, client
  <2>2. TypeOK'
    BY DEF SessionIoError, AbortSession, SetSession, TypeOK, client
  <2>3. Rest
    <3>1. PeerInv'
      BY DEF SessionIoError, AbortSession, SetSession, client, TypeOK,
         PeerInv, NetInv, First
    <3>2. InStep'
      BY DEF SessionIoError, AbortSession, SetSession, client, TypeOK, InStep,
         PeerInv, PartInv, First
    <3>3. PartInv'
      BY DEF SessionIoError, AbortSession, SetSession, client, TypeOK,
         PartInv, PeerInv, NetInv, First, Failures
    <3>5. SendCompleteMeansReceived'
      BY DEF SessionIoError, AbortSession, SetSession, client, TypeOK,
         SendCompleteMeansReceived, InStep, PeerInv
    <3> QED BY <3>1, <3>2, <3>3, <3>5
  <2> QED BY <2>1, <2>2, <2>3
<1> QED
  BY <1>1, <1>2, <1>3, <1>4, <1>5, <1>6, <1>7 DEF Session

LEMMA InitInv == Init => IInv
<1> SUFFICES ASSUME Init PROVE IInv
  OBVIOUS
<1> USE NoneAssumption, ChunksAssumption, RetriesAssumption
        DEF Init
<1>1. TypeOK
  <2>1. <<>> \in Seq({"Started", "Done", "Error"})
    OBVIOUS
  <2>2. net \subseteq Datagram /\ stray \subseteq net
    BY DEF Datagram, Types, Request
  <2>3. want \in 1..Chunks + 1 /\ ctries \in 0..MaxRetries - 1
    OBVIOUS
  <2>4. /\ sblk \in [Sessions -> 0..Chunks]
        /\ stries \in [Sessions -> 0..MaxRetries - 1]
    OBVIOUS
  <2> QED BY <2>1, <2>2, <2>3, <2>4 DEF TypeOK
<1>2. NetInv /\ PeerInv /\ InStep
  BY DEF NetInv, PeerInv, InStep, Request, First, server
<1>3. PartInv /\ SendCompleteMeansReceived
  BY DEF PartInv, SendCompleteMeansReceived
<1> QED BY <1>1, <1>2, <1>3 DEF IInv

LEMMA StepInv == IInv /\ [Next]_vars => IInv'
<1> SUFFICES ASSUME IInv, [Next]_vars PROVE IInv'
  OBVIOUS
<1>1. CASE Client
  BY <1>1, ClientStep
<1>2. ASSUME NEW s \in Sessions, Session(s) PROVE IInv'
  BY <1>2, SessionStep
<1>3. CASE AskCancel \/ StopServer \/ CloseListener \/ UNCHANGED vars
  <2> USE <1>3 DEF AskCancel, StopServer, CloseListener, vars, client, session,
                   server, IInv
  <2>1. TypeOK' /\ NetInv'
    BY DEF TypeOK, NetInv
  <2>2. PeerInv' /\ InStep' /\ PartInv' /\ SendCompleteMeansReceived'
    BY DEF First, PeerInv, InStep, PartInv, SendCompleteMeansReceived
  <2> QED BY <2>1, <2>2
<1> QED
  BY <1>1, <1>2, <1>3 DEF Next

LEMMA InvariantHolds == Safety => []IInv
BY InitInv, StepInv, PTL DEF Safety

-----------------------------------------------------------------------------
(* The theorems.                                                           *)

\* Every variable keeps to its type.
THEOREM TypeCorrect == Safety => []TypeOK
<1>1. IInv => TypeOK
  BY DEF IInv
<1> QED BY <1>1, InvariantHolds, PTL

\* The two ends of a download stay in step, whatever the network loses,
\* repeats or reorders, and although the block number wraps.
THEOREM EndsInStep == Safety => []InStep
<1>1. IInv => InStep
  BY DEF IInv
<1> QED BY <1>1, InvariantHolds, PTL

\* A session that counts its transfer as complete is right.
THEOREM SendCompleteCorrect == Safety => []SendCompleteMeansReceived
<1>1. IInv => SendCompleteMeansReceived
  BY DEF IInv
<1> QED BY <1>1, InvariantHolds, PTL

-----------------------------------------------------------------------------
(* What the UI is told.                                                    *)

\* Nothing is told before the file is opened, then Started.
EventsInv ==
  /\ cpc = "handshake" => events = <<>>
  /\ cpc \in {"receiving", "saving"} => events = <<"Started">>
  /\ EventsMatchOutcome

\* Copies of err after at most one start: none of them is done.
LEMMA Padded ==
  ASSUME NEW S, NEW start \in S, NEW err \in S, NEW done \in S,
         start # done, err # done,
         NEW e \in Seq(S), e = <<>> \/ e = <<start>>,
         NEW p \in Seq(S), \A i \in 1..Len(p) : p[i] = err
  PROVE  /\ \A i \in DOMAIN (e \o p) : (e \o p)[i] # done
         /\ Len(p) # 0 => e \o p # <<>> /\ (e \o p)[Len(e \o p)] = err
<1> DEFINE q == e \o p
<1>1. Len(e) \in {0, 1} /\ Len(p) \in Nat /\ \A i \in 1..Len(e) : e[i] = start
  OBVIOUS
<1>2. q \in Seq(S) /\ Len(q) = Len(e) + Len(p) /\ DOMAIN q = 1..Len(q)
  OBVIOUS
<1>3. \A i \in 1..Len(e) + Len(p) :
        q[i] = IF i <= Len(e) THEN e[i] ELSE p[i - Len(e)]
  OBVIOUS
<1>4. ASSUME NEW i \in 1..Len(e) + Len(p)
      PROVE  q[i] = IF i <= Len(e) THEN start ELSE err
  <2>1. CASE i <= Len(e)
    BY <1>1, <1>3, <1>4, <2>1
  <2>2. CASE ~(i <= Len(e))
    <3>1. i - Len(e) \in 1..Len(p)
      BY <1>1, <1>4, <2>2
    <3> QED BY <1>3, <1>4, <2>2, <3>1
  <2> QED BY <2>1, <2>2
<1>5. Len(p) # 0 => /\ Len(e) + Len(p) \in 1..Len(e) + Len(p)
                    /\ ~(Len(e) + Len(p) <= Len(e))
  BY <1>1
<1> HIDE DEF q
<1>6. /\ \A i \in DOMAIN q : q[i] # done
      /\ Len(p) # 0 => q # <<>> /\ q[Len(q)] = err
  BY <1>1, <1>2, <1>4, <1>5
<1> QED BY <1>6 DEF q

\* A client that fails told no Done, and an Error unless the socket or the
\* disk was at fault.
LEMMA FailTold ==
  ASSUME EventsInv, cpc \in {"handshake", "receiving", "saving"},
         cpc' \in Failures,
         \E n \in Nat : /\ cpc' # "io" => n # 0
                        /\ events' = events \o [i \in 1..n |-> "Error"]
  PROVE  EventsInv'
<1>1. PICK n \in Nat : /\ cpc' # "io" => n # 0
                      /\ events' = events \o [i \in 1..n |-> "Error"]
  OBVIOUS
<1> DEFINE S == {"Started", "Error", "Done"}
           p == [i \in 1..n |-> "Error"]
<1>2. events \in Seq(S) /\ (events = <<>> \/ events = <<"Started">>)
  <2>1. events = <<>> \/ events = <<"Started">>
    BY DEF EventsInv
  <2>2. <<>> \in Seq(S) /\ <<"Started">> \in Seq(S)
    OBVIOUS
  <2> QED BY <2>1, <2>2
<1>3. p \in Seq(S) /\ Len(p) = n /\ \A i \in 1..Len(p) : p[i] = "Error"
  OBVIOUS
<1>4. /\ "Started" \in S /\ "Error" \in S /\ "Done" \in S
      /\ "Started" # "Done" /\ "Error" # "Done"
  OBVIOUS
<1>5. events' = events \o p
  BY <1>1
<1> HIDE DEF S, p
<1>6. /\ \A i \in DOMAIN (events \o p) : (events \o p)[i] # "Done"
      /\ Len(p) # 0 => /\ events \o p # <<>>
                       /\ (events \o p)[Len(events \o p)] = "Error"
  BY <1>2, <1>3, <1>4, Padded, SMTT(30)
<1>7. /\ \A i \in DOMAIN events' : events'[i] # "Done"
      /\ cpc' # "io" => events' # <<>> /\ events'[Len(events')] = "Error"
  BY <1>1, <1>3, <1>5, <1>6
<1> QED BY <1>7 DEF EventsInv, EventsMatchOutcome, Failures

LEMMA SpendTryTold ==
  ASSUME EventsInv, cpc \in {"handshake", "receiving"}, NEW n \in {1, 2},
         SpendTry(n)
  PROVE  EventsInv'
<1>1. CASE ctries + 1 < MaxRetries
  BY <1>1 DEF SpendTry, EventsInv, EventsMatchOutcome
<1>2. CASE ~(ctries + 1 < MaxRetries)
  <2>1. /\ cpc' = "timeout" /\ n \in Nat /\ n # 0
        /\ events' = events \o [i \in 1..n |-> "Error"]
    BY <1>2 DEF SpendTry, Fail
  <2> QED BY <2>1, FailTold DEF Failures
<1> QED BY <1>1, <1>2

LEMMA ClientTold ==
  ASSUME IInv, EventsInv, Client
  PROVE  EventsInv'
<1>1. CASE HandshakeTimeout \/ ReceiveTimeout
  BY <1>1, SpendTryTold DEF HandshakeTimeout, ReceiveTimeout
<1>2. CASE HandshakeIoError \/ ReceiveIoError \/ SaveFails \/ Cancel
  <2>1. ASSUME NEW n \in Nat, NEW why \in Failures, Fail(why, n),
               why # "io" => n # 0,
               cpc \in {"handshake", "receiving", "saving"}
        PROVE  EventsInv'
    BY <2>1, FailTold DEF Fail
  <2>2. CASE HandshakeIoError \/ ReceiveIoError \/ SaveFails
    BY <2>1, <2>2 DEF HandshakeIoError, ReceiveIoError, SaveFails, Failures
  <2>3. CASE Cancel
    BY <2>1, <2>3 DEF Cancel, Failures
  <2> QED BY <1>2, <2>2, <2>3
<1>3. ASSUME NEW d \in net, Handshake(d) PROVE EventsInv'
  <2>1. CASE HandshakeOack(d) \/ HandshakeData(d)
    <3>1. /\ cpc = "handshake" /\ events' = Append(events, "Started")
          /\ cpc' = "receiving" \/ cpc' = "saving"
      BY <2>1 DEF HandshakeOack, HandshakeData
    <3>2. events' = <<"Started">>
      BY <3>1 DEF EventsInv
    <3> QED BY <3>1, <3>2 DEF EventsInv, EventsMatchOutcome, Failures
  <2>2. CASE HandshakeError(d)
    <3>1. /\ cpc = "handshake" /\ cpc' = "remote"
          /\ events' = events \o [i \in 1..1 |-> "Error"]
      BY <2>2 DEF HandshakeError, Fail
    <3> QED BY <3>1, FailTold DEF Failures
  <2> QED BY <1>3, <2>1, <2>2 DEF Handshake
<1>4. ASSUME NEW d \in net, Receive(d) PROVE EventsInv'
  <2>1. CASE ReceiveWanted(d)
    BY <2>1 DEF ReceiveWanted, EventsInv, EventsMatchOutcome, Failures
  <2>2. CASE ReceiveDuplicate(d)
    BY <2>2, SpendTryTold DEF ReceiveDuplicate
  <2>3. CASE ReceiveOther(d)
    <3>1. /\ cpc = "receiving" /\ cpc' \in {"remote", "protocol"}
          /\ events' = events \o [i \in 1..2 |-> "Error"]
      BY <2>3 DEF ReceiveOther, Fail
    <3>2. 2 \in Nat /\ 2 # 0
      OBVIOUS
    <3> QED BY <3>1, <3>2, FailTold DEF Failures
  <2> QED BY <1>4, <2>1, <2>2, <2>3 DEF Receive
<1>5. CASE Save
  <2>1. /\ cpc' = "done" /\ events' = Append(<<"Started">>, "Done")
        /\ dest' = [i \in 1..Chunks |-> i]
    <3>1. events = <<"Started">> /\ part = [i \in 1..Chunks |-> i]
      BY <1>5 DEF Save, EventsInv, IInv, PartInv
    <3>2. cpc' = "done" /\ events' = Append(events, "Done") /\ dest' = part
      BY <1>5 DEF Save
    <3> QED BY <3>1, <3>2
  <2> QED BY <2>1 DEF EventsInv, EventsMatchOutcome, Failures
<1> QED BY <1>1, <1>2, <1>3, <1>4, <1>5 DEF Client

\* Done is told once, last, and of the whole file; every failure but one of
\* the socket or disk ends with Error.
THEOREM EventsCorrect == Safety => []EventsMatchOutcome
<1>1. Init => EventsInv
  BY DEF Init, EventsInv, EventsMatchOutcome, Failures
<1>2. IInv /\ EventsInv /\ [Next]_vars => EventsInv'
  <2> SUFFICES ASSUME IInv, EventsInv, [Next]_vars PROVE EventsInv'
    OBVIOUS
  <2>1. CASE Client
    BY <2>1, ClientTold
  <2>2. CASE UNCHANGED client
    BY <2>2 DEF client, EventsInv, EventsMatchOutcome
  <2>3. ASSUME NEW s \in Sessions, Session(s) PROVE UNCHANGED client
    BY <2>3 DEF Session, Open, OpenFails, GetAck, GetLastAck, GetOldAck,
       SessionTimeout, SessionIoError, AbortSession, SetSession
  <2>4. CASE AskCancel \/ StopServer \/ CloseListener \/ UNCHANGED vars
    BY <2>2, <2>4 DEF AskCancel, StopServer, CloseListener, vars
  <2> QED BY <2>1, <2>2, <2>3, <2>4 DEF Next
<1>3. EventsInv => EventsMatchOutcome
  BY DEF EventsInv
<1> QED BY <1>1, <1>2, <1>3, InvariantHolds, PTL DEF Safety

-----------------------------------------------------------------------------
(* A download is atomic on the local disk: refinement of AtomicDownload.   *)

\* A client step that fails the download is the Abort of the contract.
LEMMA EndAborts ==
  ASSUME IInv, cpc' \in Failures, part' = NoFile, UNCHANGED dest,
         cpc \in {"handshake", "receiving", "saving"}
  PROVE  Atomic!Abort
BY DEF Atomic!Abort, Outcome, Failures

\* Every step of the client is a step of the contract, or none.
LEMMA ClientRefines ==
  ASSUME IInv, Client
  PROVE  Atomic!Next \/ UNCHANGED Atomic!vars
<1> DEFINE Goal == Atomic!Next \/ UNCHANGED Atomic!vars
<1>1. CASE HandshakeTimeout \/ ReceiveTimeout
  BY <1>1, EndAborts DEF HandshakeTimeout, ReceiveTimeout, SpendTry, Fail,
     Failures, Atomic!Next, Atomic!vars, Outcome
<1>2. CASE HandshakeIoError \/ ReceiveIoError \/ SaveFails \/ Cancel
  BY <1>2, EndAborts DEF HandshakeIoError, ReceiveIoError, SaveFails, Cancel,
     Fail, Failures, Atomic!Next
<1>3. ASSUME NEW d \in net, Handshake(d) PROVE Goal
  <2>1. CASE HandshakeOack(d)
    BY <1>3, <2>1 DEF HandshakeOack, IInv, PartInv, Outcome, Failures,
       Atomic!Next, Atomic!Begin
  <2>2. CASE HandshakeData(d)
    <3>1. d.index = 1
      BY <2>2, FirstBlock DEF HandshakeData
    <3> QED
      BY <2>2, <3>1 DEF HandshakeData, IInv, PartInv, Outcome, Failures,
         Atomic!Next, Atomic!Begin
  <2>3. CASE HandshakeError(d)
    BY <2>3, EndAborts DEF HandshakeError, Fail, Failures, Atomic!Next
  <2> QED BY <1>3, <2>1, <2>2, <2>3 DEF Handshake
<1>4. ASSUME NEW d \in net, Receive(d) PROVE Goal
  <2>1. CASE ReceiveWanted(d)
    <3>1. d.index = want /\ cpc = "receiving"
      BY <2>1, WantedBlock DEF ReceiveWanted
    <3>2. /\ part = [i \in 1..want - 1 |-> i]
          /\ want \in Nat /\ want - 1 \in Nat
          /\ want <= Chunks /\ Chunks \in Nat
      BY <3>1, ChunksAssumption DEF IInv, PartInv, TypeOK
    <3>3. Len(part) = want - 1 /\ part \in Seq(Nat)
      BY <3>2, OneMoreChunk
    <3>4. part # NoFile
      BY <3>3, FilesAssumption
    <3>5. part' = Append(part, Len(part) + 1)
      BY <2>1, <3>1, <3>2, <3>3 DEF ReceiveWanted
    <3>6. /\ Outcome = "running" /\ Outcome' = "running"
          /\ UNCHANGED dest
      BY <2>1, <3>1 DEF ReceiveWanted, Outcome, Failures
    <3> QED
      BY <3>2, <3>3, <3>4, <3>5, <3>6 DEF Atomic!Next, Atomic!Grow
  <2>2. CASE ReceiveDuplicate(d)
    BY <2>2, EndAborts DEF ReceiveDuplicate, SpendTry, Fail, Failures,
       Atomic!Next, Atomic!vars, Outcome
  <2>3. CASE ReceiveOther(d)
    BY <2>3, EndAborts DEF ReceiveOther, Fail, Failures, Atomic!Next
  <2> QED BY <1>4, <2>1, <2>2, <2>3 DEF Receive
<1>5. CASE Save
  BY <1>5 DEF Save, IInv, PartInv, Outcome, Failures, Atomic!Next,
     Atomic!Publish, Atomic!Whole
<1> QED BY <1>1, <1>2, <1>3, <1>4, <1>5 DEF Client

\* The destination is the old file until it is the whole new one, `.part`
\* grows in order and does not survive, for every file length, any number of
\* sessions and every behaviour of the network.
THEOREM DownloadIsAtomic == Safety => AtomicSafety
<1>1. Init => Atomic!Init
  BY DEF Init, Atomic!Init, Outcome, Failures
<1>2. IInv /\ [Next]_vars => [Atomic!Next]_(Atomic!vars)
  <2> SUFFICES ASSUME IInv, [Next]_vars
               PROVE  Atomic!Next \/ UNCHANGED Atomic!vars
    OBVIOUS
  <2>1. CASE Client
    BY <2>1, ClientRefines
  <2>2. CASE UNCHANGED client
    BY <2>2 DEF client, Atomic!vars, Outcome
  <2>3. ASSUME NEW s \in Sessions, Session(s) PROVE UNCHANGED client
    BY <2>3 DEF Session, Open, OpenFails, GetAck, GetLastAck, GetOldAck,
       SessionTimeout, SessionIoError, AbortSession, SetSession
  <2>4. CASE AskCancel \/ StopServer \/ CloseListener \/ UNCHANGED vars
    BY <2>2, <2>4 DEF AskCancel, StopServer, CloseListener, vars
  <2> QED BY <2>1, <2>2, <2>3, <2>4 DEF Next
<1> QED
  BY <1>1, <1>2, InvariantHolds, PTL
  DEF Safety, AtomicSafety, Atomic!Safety


-----------------------------------------------------------------------------
(* Why a download ends: every step brings an end nearer.                   *)

\* A step of the client ends the download, connects it, moves it one block on
\* or spends an iteration of the wait.
ClientAhead ==
  \/ ~ClientOver /\ ClientOver'
  \/ cpc = "handshake" /\ cpc' \in {"receiving", "saving"}
  \/ cpc = "receiving" /\ cpc' \in {"receiving", "saving"} /\ want' = want + 1
  \/ ~ClientOver /\ UNCHANGED <<cpc, want>> /\ ctries' = ctries + 1

\* A step of session s opens it or turns it away, ends it, sends the next
\* block or spends an iteration of the wait.
SessionAhead(s) ==
  \/ spc[s] = "absent" /\ spc'[s] # "absent"
  \/ spc[s] = "sending" /\ spc'[s] \notin {"absent", "sending"}
  \/ /\ spc[s] = "sending" /\ spc'[s] = "sending"
     /\ \/ sblk'[s] = sblk[s] + 1
        \/ sblk'[s] = sblk[s] /\ stries'[s] = stries[s] + 1

\* No wait starts over: each step of one end is such a step, and no step of
\* another takes it back.  Blocks and iterations are bounded (TypeCorrect), so
\* a download takes a bounded number of steps, however often the network
\* repeats a block or an ACK: the loop in which both ends answer every repeat
\* by another one cannot happen.
NoWaitStartsOver ==
  [][/\ IF Client THEN ClientAhead ELSE UNCHANGED client
     /\ \A s \in Sessions :
          IF Session(s) THEN SessionAhead(s)
          ELSE /\ spc'[s] = spc[s]
               /\ sblk'[s] = sblk[s] /\ stries'[s] = stries[s]]_vars

LEMMA ClientMoves ==
  ASSUME IInv, Client
  PROVE  ClientAhead /\ UNCHANGED session
<1> USE DEF ClientAhead, ClientOver, Failures
<1> DEFINE Moves == ClientAhead /\ UNCHANGED session
<1>1. ASSUME NEW n, NEW why \in Failures, Fail(why, n),
             cpc \in {"handshake", "receiving", "saving"}
      PROVE  Moves
  BY <1>1 DEF Fail
<1>2. ASSUME NEW n, SpendTry(n), cpc \in {"handshake", "receiving"}
      PROVE  Moves
  BY <1>1, <1>2 DEF SpendTry
<1>3. CASE HandshakeTimeout \/ ReceiveTimeout
  BY <1>2, <1>3 DEF HandshakeTimeout, ReceiveTimeout
<1>4. CASE HandshakeIoError \/ ReceiveIoError \/ SaveFails \/ Cancel
  BY <1>1, <1>4 DEF HandshakeIoError, ReceiveIoError, SaveFails, Cancel
<1>5. ASSUME NEW d \in net, Handshake(d) PROVE Moves
  BY <1>1, <1>5 DEF Handshake, HandshakeOack, HandshakeData, HandshakeError
<1>6. ASSUME NEW d \in net, Receive(d) PROVE Moves
  <2>1. CASE ReceiveWanted(d)
    BY <2>1 DEF ReceiveWanted
  <2>2. CASE ReceiveDuplicate(d) \/ ReceiveOther(d)
    BY <1>1, <1>2, <2>2 DEF ReceiveDuplicate, ReceiveOther
  <2> QED BY <1>6, <2>1, <2>2 DEF Receive
<1>7. CASE Save
  BY <1>7 DEF Save
<1> QED BY <1>3, <1>4, <1>5, <1>6, <1>7 DEF Client

LEMMA SessionMoves ==
  ASSUME IInv, NEW s \in Sessions, Session(s)
  PROVE  /\ SessionAhead(s) /\ UNCHANGED client
         /\ \A t \in Sessions \ {s} : /\ spc'[t] = spc[t]
                                      /\ sblk'[t] = sblk[t]
                                      /\ stries'[t] = stries[t]
<1> USE DEF SessionAhead, IInv, TypeOK
<1> DEFINE Moves == /\ SessionAhead(s) /\ UNCHANGED client
                    /\ \A t \in Sessions \ {s} : /\ spc'[t] = spc[t]
                                                 /\ sblk'[t] = sblk[t]
                                                 /\ stries'[t] = stries[t]
<1>1. CASE Open(s) \/ OpenFails(s)
  BY <1>1 DEF Open, OpenFails, SetSession
<1>2. ASSUME NEW i \in 0..Chunks, GetAck(s, i) PROVE Moves
  BY <1>2 DEF GetAck
<1>3. ASSUME NEW i \in 0..Chunks, GetLastAck(s, i) PROVE Moves
  BY <1>3 DEF GetLastAck, SetSession
<1>4. ASSUME NEW i \in 0..Chunks, GetOldAck(s, i) PROVE Moves
  BY <1>4 DEF GetOldAck, SpendSessionTry
<1>5. CASE SessionTimeout(s)
  BY <1>5 DEF SessionTimeout, SpendSessionTry
<1>6. CASE SessionIoError(s) \/ AbortSession(s)
  BY <1>6 DEF SessionIoError, AbortSession, SetSession
<1> QED BY <1>1, <1>2, <1>3, <1>4, <1>5, <1>6 DEF Session

\* No wait of a download starts over, at either end.
THEOREM DownloadMovesOn == Safety => NoWaitStartsOver
<1> DEFINE Still(s) == /\ spc'[s] = spc[s]
                       /\ sblk'[s] = sblk[s] /\ stries'[s] = stries[s]
           Moves == /\ IF Client THEN ClientAhead ELSE UNCHANGED client
                    /\ \A s \in Sessions :
                         IF Session(s) THEN SessionAhead(s) ELSE Still(s)
<1>1. IInv /\ [Next]_vars => [Moves]_vars
  <2> SUFFICES ASSUME IInv, Next PROVE Moves
    OBVIOUS
  <2>1. IF Client THEN ClientAhead ELSE UNCHANGED client
    <3>1. CASE Client
      BY <3>1, ClientMoves
    <3>2. CASE ~Client
      BY <3>2, SessionMoves DEF Next, AskCancel, StopServer, CloseListener
    <3> QED BY <3>1, <3>2
  <2>2. ASSUME NEW s \in Sessions
        PROVE  IF Session(s) THEN SessionAhead(s) ELSE Still(s)
    <3>1. CASE Session(s)
      BY <3>1, SessionMoves
    <3>2. ASSUME ~Session(s), NEW t \in Sessions, Session(t) PROVE Still(s)
      BY <3>2, SessionMoves
    <3>3. CASE Client
      BY <3>1, <3>3, ClientMoves DEF session
    <3>4. CASE AskCancel \/ StopServer \/ CloseListener
      BY <3>1, <3>4 DEF AskCancel, StopServer, CloseListener, session
    <3> QED BY <3>1, <3>2, <3>3, <3>4 DEF Next
  <2> QED BY <2>1, <2>2
<1> QED BY <1>1, InvariantHolds, PTL DEF Safety, NoWaitStartsOver

-----------------------------------------------------------------------------
(* What atomic means for whoever reads the directory.                      *)

\* In every state the destination is the old file or the whole new one, the
\* whole one exactly when the download is done, and once the client is over
\* no `.part` is left.
NeverHalfAFile ==
  /\ dest = IF cpc = "done" THEN [i \in 1..Chunks |-> i] ELSE OldFile
  /\ ClientOver => part = NoFile
  /\ part \in {NoFile} \cup {[i \in 1..n |-> i] : n \in 0..Chunks}

\* The contract's own invariant, from its steps alone.
AtomicInv ==
  /\ dest = IF Outcome = "done" THEN Atomic!Whole ELSE OldFile
  /\ Outcome # "running" => part = NoFile
  /\ part \in {NoFile} \cup {[i \in 1..n |-> i] : n \in 0..Chunks}

LEMMA AtomicStep ==
  ASSUME AtomicInv, [Atomic!Next]_(Atomic!vars)
  PROVE  AtomicInv'
<1> USE FilesAssumption, ChunksAssumption DEF AtomicInv
<1> DEFINE Parts == {[i \in 1..n |-> i] : n \in 0..Chunks}
<1>1. CASE Atomic!Begin
  <2>1. <<>> \in Parts
    <3>1. <<>> = [i \in 1..0 |-> i]
      OBVIOUS
    <3> QED BY <3>1
  <2>2. <<1>> \in Parts
    <3>1. <<1>> = [i \in 1..1 |-> i]
      OBVIOUS
    <3> QED BY <3>1
  <2> QED BY <1>1, <2>1, <2>2 DEF Atomic!Begin
<1>2. CASE Atomic!Grow
  <2>1. PICK n \in 0..Chunks : part = [i \in 1..n |-> i]
    BY <1>2 DEF Atomic!Grow
  <2>2. Len(part) = n /\ Append(part, n + 1) = [i \in 1..n + 1 |-> i]
    BY <2>1, OneMoreChunk
  <2>3. n + 1 \in 0..Chunks
    BY <1>2, <2>2 DEF Atomic!Grow
  <2>4. part' \in Parts
    BY <1>2, <2>2, <2>3 DEF Atomic!Grow
  <2> QED BY <1>2, <2>4 DEF Atomic!Grow
<1>3. CASE Atomic!Publish \/ Atomic!Abort
  BY <1>3 DEF Atomic!Publish, Atomic!Abort, Atomic!Whole
<1>4. CASE UNCHANGED Atomic!vars
  BY <1>4 DEF Atomic!vars, Atomic!Whole
<1> QED BY <1>1, <1>2, <1>3, <1>4 DEF Atomic!Next

\* Whatever else a download does, nobody ever reads half a file.
THEOREM NothingHalfPublished == Safety => []NeverHalfAFile
<1>1. Atomic!Init => AtomicInv
  BY DEF Atomic!Init, AtomicInv
<1>2. AtomicInv => NeverHalfAFile
  BY DEF AtomicInv, NeverHalfAFile, Outcome, Atomic!Whole, ClientOver, Failures
<1>3. AtomicSafety => []AtomicInv
  BY <1>1, AtomicStep, PTL DEF AtomicSafety, Atomic!Safety
<1> QED BY <1>2, <1>3, DownloadIsAtomic, PTL

=============================================================================
