--------------------------- MODULE TestClassProofs ---------------------------
(***************************************************************************)
(* Theorems about TestClass, for every packet size, buffer, message length *)
(* and number of messages, and a driver whose read finds only the packets  *)
(* that its poll has reported.                                             *)
(***************************************************************************)
EXTENDS TestClass, SequenceTheorems, TLAPS

-----------------------------------------------------------------------------
(* The invariant. *)

(* Bytes f + 1 to f + n of message m. *)
Piece(m, f, n) == [k \in 1..n |-> <<m, f + k>>]

(* A reply is on its way, or its completion is. *)
Busy(e) == inp[e] # <<>> \/ in_done[e] \/ e \in snapshot.in_complete

(* The events of a snapshot are dispatched before TestClass::poll runs, and in
   bench mode that does not come to the second endpoint. *)
CycleInv ==
    /\ pc \in {"poll", "class", "interrupt"} => snapshot = NoSnapshot
    /\ pc = "interrupt" => ~bench
    /\ pc # "panic"

(* Host and class are in bench mode together, but for a request that waits
   and a bus reset that poll has not seen. *)
BenchInv ==
    /\ (stage[BULK] = "bench") <=> (stage[INTERRUPT] = "bench")
    /\ stage[BULK] = "bench" => request \/ bench
    /\ bench => stage[BULK] = "bench" \/ bus_reset
    /\ request => stage[BULK] = "bench"
    /\ bus_reset => stage = [e \in Eps |-> "idle"] /\ outp = NoPackets /\ in_done = NoEvents

(* A packet that poll has reported was or will be announced to the class, and
   no other; it is still there, and no completion came after it. *)
AnnouncedInv ==
    ~bench =>
        /\ \A e \in Eps : e \in fetched <=> (expect_out[e] \/ e \in snapshot.out)
        /\ ~bus_reset =>
              /\ \A e \in fetched : outp[e] # <<>> /\ ~in_done[e]
              /\ pc = "poll" => fetched = {}
              /\ pc = "interrupt" => BULK \notin fetched

(* An endpoint has a packet to send, or its completion, or neither; the class
   expects exactly these completions. *)
CompletionInv ==
    ~bench =>
        \A e \in Eps :
            /\ ~bus_reset => (expect_in_complete[e] <=> Busy(e))
            /\ in_done[e] => inp[e] = <<>> /\ e \notin snapshot.in_complete
            /\ e \in snapshot.in_complete =>
                  inp[e] = <<>> /\ expect_in_complete[e] /\ (e = BULK => i <= len)

(* What the class has read of the bulk message. *)
Received == IF outp[BULK] = <<>> THEN sent[BULK] ELSE sent[BULK] - Len(Head(outp[BULK]))
Filled(b, m, n) == \A j \in 0..n - 1 : b[j] = <<m, j + 1>>
Holds(n) == Filled(bulk_buf, message[BULK], n)

(* Between two messages: the last completion will make the class ready. *)
BulkQuiet ==
    /\ outp[BULK] = <<>> /\ inp[BULK] = <<>>
    /\ IF Busy(BULK) THEN i = len ELSE i = 0

(* The host writes: what the class has read is in its buffer, and it has read
   nothing before it was ready. *)
BulkReceiving ==
    /\ inp[BULK] = <<>> /\ got[BULK] = <<>> /\ sent[BULK] <= total[BULK]
    /\ Received \in Nat
    /\ outp[BULK] # <<>> =>
          LET p == Head(outp[BULK])
          IN /\ p = Piece(message[BULK], Received, Len(p)) /\ Len(p) <= MPS
             /\ IF stage[BULK] = "write" THEN Len(p) = MPS ELSE Len(p) < MPS
    /\ stage[BULK] = "read" => sent[BULK] = total[BULK]
    /\ IF Busy(BULK) THEN Received = 0 /\ i = len ELSE i = Received /\ Holds(i)

(* The class replies: the host has the bytes before the packet that waits, or
   before i. *)
BulkReplying ==
    /\ len = total[BULK] /\ i <= len /\ Holds(len) /\ Busy(BULK)
    /\ IF inp[BULK] = <<>>
       THEN i = Len(got[BULK]) /\ i < len
       ELSE LET n == Least(len - Len(got[BULK]), MPS)
            IN /\ inp[BULK] = <<Piece(message[BULK], Len(got[BULK]), n)>>
               /\ i = Len(got[BULK]) + n

BulkInv ==
    ~bench /\ ~bus_reset =>
        /\ stage[BULK] \in {"idle", "done", "bench"} => BulkQuiet
        /\ stage[BULK] = "write" => BulkReceiving
        /\ stage[BULK] = "read" =>
              IF outp[BULK] # <<>> THEN BulkReceiving ELSE BulkReplying

(* The interrupt message is in one place. *)
InterruptInv ==
    ~bench /\ ~bus_reset =>
        LET p == Piece(message[INTERRUPT], 0, total[INTERRUPT])
        IN /\ stage[INTERRUPT] # "read" => outp[INTERRUPT] = <<>> /\ inp[INTERRUPT] = <<>>
           /\ stage[INTERRUPT] = "write" => sent[INTERRUPT] = 0 /\ got[INTERRUPT] = <<>>
           /\ stage[INTERRUPT] = "read" =>
                 /\ got[INTERRUPT] = <<>>
                 /\ \/ outp[INTERRUPT] = <<p>> /\ inp[INTERRUPT] = <<>>
                    \/ outp[INTERRUPT] = <<>> /\ inp[INTERRUPT] = <<p>>

LengthInv == total[BULK] <= BUFFER /\ total[INTERRUPT] <= MPS

LoopbackInv ==
    /\ TestTypeOK /\ CycleInv /\ BenchInv /\ AnnouncedInv /\ CompletionInv
    /\ BulkInv /\ InterruptInv /\ LengthInv /\ EchoIntact

-----------------------------------------------------------------------------
(* Lemmas about the operators. *)

LEMMA Sizes ==
    /\ MPS \in Nat /\ MPS > 0 /\ BUFFER \in Nat /\ MPS <= BUFFER /\ MaxMessages \in Nat
    /\ \A e \in Eps : Lengths[e] \subseteq Nat
    /\ \A n \in Lengths[BULK] : n <= BUFFER
    /\ \A n \in Lengths[INTERRUPT] : n <= MPS
BY EndpointAssumption

(* There are two endpoints. *)
LEMMA TwoEndpoints ==
    /\ BULK \in Eps /\ INTERRUPT \in Eps /\ BULK # INTERRUPT
    /\ \A e \in Eps : e = BULK \/ e = INTERRUPT
BY DEF Eps, BULK, INTERRUPT

(* Least is the minimum of two lengths. *)
LEMMA LeastIsMin ==
    ASSUME NEW a \in Nat, NEW b \in Nat
    PROVE  /\ Least(a, b) \in Nat
           /\ Least(a, b) <= a /\ Least(a, b) <= b
           /\ Least(a, b) = a \/ Least(a, b) = b
BY DEF Least

(* A packet is the only one at its endpoint. *)
LEMMA OnePacket ==
    ASSUME NEW p \in Seq(Byte)
    PROVE  /\ <<p>> \in Seq(Seq(Byte)) /\ Len(<<p>>) = 1
           /\ Head(<<p>>) = p /\ <<p>> # <<>>
OBVIOUS

LEMMA NoPacketAtAll == <<>> \in Seq(Seq(Byte)) /\ Len(<<>>) = 0 /\ <<>> \in Seq(Byte)
OBVIOUS

LEMMA ThePacket ==
    ASSUME NEW s \in Seq(Seq(Byte)), s # <<>>
    PROVE  Head(s) \in Seq(Byte)
BY HeadTailProperties

(* A piece of a message is a packet of that length. *)
LEMMA PieceType ==
    ASSUME NEW m \in Nat, NEW f \in Nat, NEW n \in Nat
    PROVE  /\ Piece(m, f, n) \in Seq(Byte) /\ Len(Piece(m, f, n)) = n
           /\ \A k \in 1..n : Piece(m, f, n)[k] = <<m, f + k>>
<1>1. ASSUME NEW k \in 1..n PROVE <<m, f + k>> \in Byte
  BY DEF Byte
<1>2. Piece(m, f, n) \in [1..n -> Byte]
  BY <1>1 DEF Piece
<1> QED BY <1>2 DEF Piece

(* The reply grows by the packet that the host takes. *)
LEMMA ReplyGrows ==
    ASSUME NEW m \in Nat, NEW n \in Nat, NEW g \in Seq(Byte)
    PROVE  /\ g \o Piece(m, Len(g), n) \in Seq(Byte)
           /\ Len(g \o Piece(m, Len(g), n)) = Len(g) + n
           /\ \A k \in 1..Len(g) + n :
                 (g \o Piece(m, Len(g), n))[k] = IF k <= Len(g) THEN g[k] ELSE <<m, k>>
<1> DEFINE f == Len(g)
           p == Piece(m, f, n)
<1>0. f \in Nat
  BY LenProperties
<1>1. p \in Seq(Byte) /\ Len(p) = n /\ \A k \in 1..n : p[k] = <<m, f + k>>
  BY <1>0, PieceType
<1> HIDE DEF p
<1>2. /\ g \o p \in Seq(Byte) /\ Len(g \o p) = f + n
      /\ \A k \in 1..f + n : (g \o p)[k] = IF k <= f THEN g[k] ELSE p[k - f]
  BY <1>1, ConcatProperties
<1> HIDE DEF f
<1>3. ASSUME NEW k \in 1..f + n PROVE (g \o p)[k] = IF k <= f THEN g[k] ELSE <<m, k>>
  <2>1. CASE k <= f BY <1>2, <2>1
  <2>2. CASE ~(k <= f)
    <3>1. k - f \in 1..n /\ f + (k - f) = k BY <1>0, <2>2
    <3>2. p[k - f] = <<m, f + (k - f)>> BY <1>1, <3>1
    <3> QED BY <1>2, <2>2, <3>1, <3>2
  <2> QED BY <2>1, <2>2
<1> QED BY <1>2, <1>3 DEF p, f

-----------------------------------------------------------------------------
(* Initial states. *)
LEMMA InitLoopback == Init => LoopbackInv
<1> SUFFICES ASSUME Init PROVE LoopbackInv
  OBVIOUS
<1> USE DEF Init, BusInit, NoSnapshot
<1>1. TestTypeOK
  <2>1. /\ outp \in [Eps -> Seq(Seq(Byte))] /\ inp \in [Eps -> Seq(Seq(Byte))]
        /\ got \in [Eps -> Seq(Byte)]
    BY NoPacketAtAll DEF NoPackets
  <2>2. \A e \in Eps : Len(outp[e]) <= 1 /\ Len(inp[e]) <= 1 /\ inp[e] = <<>>
    BY NoPacketAtAll DEF NoPackets
  <2>3. BusTypeOK
    <3>1. message \in [Eps -> 0..MaxMessages] /\ total \in [Eps -> Nat] /\ sent \in [Eps -> Nat]
      BY Sizes
    <3>2. in_done \in [Eps -> BOOLEAN] /\ fetched \subseteq Eps /\ stage \in [Eps -> Stages]
      BY DEF NoEvents, Stages
    <3> QED BY <2>1, <2>2, <3>1, <3>2 DEF BusTypeOK
  <2>4. bulk_buf \in [Idx -> Byte]
    BY DEF Byte
  <2>5. snapshot \in [out : SUBSET Eps, in_complete : SUBSET Eps]
    OBVIOUS
  <2>6. expect_out \in [Eps -> BOOLEAN] /\ expect_in_complete \in [Eps -> BOOLEAN]
    BY DEF NoEvents
  <2>7. i \in 0..BUFFER /\ len \in 0..BUFFER
    BY Sizes
  <2> QED BY <2>3, <2>4, <2>5, <2>6, <2>7 DEF TestTypeOK
<1>2. \A e \in Eps : /\ outp[e] = <<>> /\ inp[e] = <<>> /\ ~in_done[e] /\ stage[e] = "idle"
                     /\ got[e] = <<>> /\ total[e] = 0 /\ ~expect_out[e]
                     /\ ~expect_in_complete[e] /\ ~Busy(e)
  BY DEF NoPackets, NoEvents, Busy
<1>3. CycleInv /\ BenchInv
  BY <1>2, TwoEndpoints DEF CycleInv, BenchInv
<1>4. AnnouncedInv /\ CompletionInv
  BY <1>2 DEF AnnouncedInv, CompletionInv
<1>5. BulkInv /\ InterruptInv
  BY <1>2, TwoEndpoints DEF BulkInv, BulkQuiet, InterruptInv
<1>6. LengthInv
  BY <1>2, TwoEndpoints, Sizes DEF LengthInv
<1>7. EchoIntact
  BY <1>2, NoPacketAtAll DEF EchoIntact
<1> QED BY <1>1, <1>3, <1>4, <1>5, <1>6, <1>7 DEF LoopbackInv

-----------------------------------------------------------------------------
(* Steps of UsbDevice::poll. *)

(* The class is polled when no event is left. *)
LEMMA NothingLeft ==
    ASSUME NEW s \in [out : SUBSET Eps, in_complete : SUBSET Eps]
    PROVE  /\ AfterEvent(s) \in {"class", "endpoints"}
           /\ AfterEvent(s) = "class" => s = NoSnapshot
BY DEF AfterEvent, NoSnapshot

LEMMA PollDataKeeps == LoopbackInv /\ PollData => LoopbackInv'
<1> SUFFICES ASSUME LoopbackInv, PollData PROVE LoopbackInv'
  OBVIOUS
<1> USE DEF LoopbackInv, hostVars, classVars
<1>1. /\ snapshot.out = {} /\ snapshot.in_complete = {}
      /\ snapshot' = [out |-> OutEvents, in_complete |-> InEvents]
      /\ snapshot' \in [out : SUBSET Eps, in_complete : SUBSET Eps]
      /\ snapshot'.out = OutEvents /\ snapshot'.in_complete = InEvents
  BY DEF PollData, CycleInv, NoSnapshot, OutEvents, InEvents
<1>2. pc' \in {"ep0", "class", "endpoints"} /\ (pc' = "class" => snapshot' = NoSnapshot)
  BY <1>1, NothingLeft DEF PollData
<1>3. TestTypeOK'
  BY <1>1, <1>2 DEF PollData, TestTypeOK, BusTypeOK, OutEvents, NoEvents
<1>4. CycleInv'
  BY <1>2 DEF CycleInv
<1>5. BenchInv'
  BY DEF BenchInv, PollData, NoEvents
<1>6. \A e \in Eps : Busy(e)' <=> Busy(e)
  BY <1>1 DEF Busy, PollData, InEvents, NoEvents
<1>7. AnnouncedInv'
  BY <1>1, <1>2 DEF AnnouncedInv, PollData, NoEvents, OutEvents
<1>8. CompletionInv'
  <2> SUFFICES ASSUME ~bench, NEW e \in Eps
               PROVE  /\ expect_in_complete[e] <=> Busy(e)
                      /\ in_done'[e] => FALSE
                      /\ e \in InEvents =>
                            inp[e] = <<>> /\ expect_in_complete[e] /\ (e = BULK => i <= len)
    BY <1>1, <1>6 DEF CompletionInv, PollData
  <2>1. expect_in_complete[e] <=> Busy(e)
    BY DEF CompletionInv, PollData
  <2>2. in_done'[e] => FALSE
    BY DEF PollData, NoEvents
  <2>3. ASSUME e \in InEvents
        PROVE  inp[e] = <<>> /\ expect_in_complete[e] /\ Busy(e)
    BY <2>1, <2>3 DEF InEvents, CompletionInv, Busy
  <2>4. ASSUME Busy(BULK) PROVE i <= len
    BY <2>4, TwoEndpoints DEF BulkInv, BulkQuiet, BulkReceiving, BulkReplying, PollData,
                              TestTypeOK, BusTypeOK, Stages
  <2> QED BY <2>1, <2>2, <2>3, <2>4
<1>9. BulkInv'
  BY <1>6, TwoEndpoints DEF BulkInv, BulkQuiet, BulkReceiving, BulkReplying, Received, Holds,
                            PollData
<1>10. InterruptInv' /\ LengthInv' /\ EchoIntact'
  BY DEF InterruptInv, LengthInv, EchoIntact, PollData
<1> QED BY <1>3, <1>4, <1>5, <1>7, <1>8, <1>9, <1>10

LEMMA PollResetKeeps == LoopbackInv /\ PollReset => LoopbackInv'
<1> SUFFICES ASSUME LoopbackInv, PollReset PROVE LoopbackInv'
  OBVIOUS
<1> USE DEF LoopbackInv, hostVars
<1>1. /\ snapshot = NoSnapshot /\ snapshot' = NoSnapshot /\ pc' = "class"
      /\ bench' = FALSE /\ bus_reset' = FALSE /\ request' = FALSE /\ fetched' = {}
      /\ i' = 0 /\ len' = 0
  BY TwoEndpoints DEF PollReset, ResetBus, ResetClass, CycleInv, BenchInv, TestTypeOK, BusTypeOK
<1>2. \A e \in Eps : /\ outp'[e] = <<>> /\ inp'[e] = <<>> /\ ~in_done'[e]
                     /\ ~expect_out'[e] /\ ~expect_in_complete'[e] /\ stage'[e] = "idle"
                     /\ ~Busy(e)'
  BY <1>1 DEF PollReset, ResetBus, ResetClass, NoPackets, NoEvents, BenchInv, Busy, NoSnapshot
<1>3. TestTypeOK'
  <2>1. /\ outp' \in [Eps -> Seq(Seq(Byte))] /\ inp' \in [Eps -> Seq(Seq(Byte))]
        /\ \A e \in Eps : Len(outp'[e]) <= 1 /\ Len(inp'[e]) <= 1
    BY NoPacketAtAll DEF PollReset, ResetBus, NoPackets
  <2>2. /\ in_done' \in [Eps -> BOOLEAN] /\ expect_out' \in [Eps -> BOOLEAN]
        /\ expect_in_complete' \in [Eps -> BOOLEAN]
    BY DEF PollReset, ResetBus, ResetClass, NoEvents
  <2>3. BusTypeOK'
    BY <1>1, <1>2, <2>1, <2>2 DEF PollReset, TestTypeOK, BusTypeOK
  <2>4. i' \in 0..BUFFER /\ len' \in 0..BUFFER
    BY <1>1, Sizes
  <2>6. bench' \in BOOLEAN
    BY <1>1
  <2>5. bulk_buf' \in [Idx -> Byte] /\ snapshot' \in [out : SUBSET Eps, in_complete : SUBSET Eps]
    BY DEF PollReset, TestTypeOK
  <2> QED BY <1>1, <2>2, <2>3, <2>4, <2>5, <2>6 DEF TestTypeOK
<1>4. CycleInv' /\ BenchInv'
  BY <1>1, <1>2, TwoEndpoints DEF CycleInv, BenchInv
<1>5. AnnouncedInv' /\ CompletionInv'
  BY <1>1, <1>2 DEF AnnouncedInv, CompletionInv, NoSnapshot
<1>6. BulkInv' /\ InterruptInv'
  BY <1>1, <1>2, TwoEndpoints DEF BulkInv, BulkQuiet, InterruptInv
<1>7. LengthInv' /\ EchoIntact'
  BY DEF LengthInv, EchoIntact, PollReset
<1> QED BY <1>3, <1>4, <1>5, <1>6, <1>7

LEMMA SetBenchKeeps == LoopbackInv /\ SetBenchEnabled => LoopbackInv'
<1> SUFFICES ASSUME LoopbackInv, SetBenchEnabled PROVE LoopbackInv'
  OBVIOUS
<1> USE DEF LoopbackInv, hostVars
<1>1. pc' \in {"class", "endpoints"} /\ (pc' = "class" => snapshot = NoSnapshot)
  BY NothingLeft DEF SetBenchEnabled, TestTypeOK
<1>2. bench' \in BOOLEAN /\ (bench' <=> request \/ bench) /\ (~bench' => ~bench)
  BY DEF SetBenchEnabled, TestTypeOK, BusTypeOK
<1>3. TestTypeOK'
  BY <1>1, <1>2 DEF SetBenchEnabled, TestTypeOK, BusTypeOK
<1>4. CycleInv' /\ BenchInv'
  BY <1>1, <1>2 DEF CycleInv, BenchInv, SetBenchEnabled
<1>5. AnnouncedInv' /\ CompletionInv'
  BY <1>1, <1>2 DEF AnnouncedInv, CompletionInv, SetBenchEnabled, Busy
<1>6. BulkInv' /\ InterruptInv'
  BY <1>1, <1>2, TwoEndpoints DEF BulkInv, BulkQuiet, BulkReceiving, BulkReplying, Received,
                                  Holds, Busy, InterruptInv, SetBenchEnabled
<1>7. LengthInv' /\ EchoIntact'
  BY DEF LengthInv, EchoIntact, SetBenchEnabled
<1> QED BY <1>3, <1>4, <1>5, <1>6, <1>7

-----------------------------------------------------------------------------
(* Steps of the host. *)

ClassWaits == UNCHANGED <<classVars, snapshot, pc>>

LEMMA HostWritesKeeps ==
    ASSUME LoopbackInv, NEW d \in Eps, NEW n \in Lengths[d], HostWrites(d, n), ClassWaits
    PROVE  LoopbackInv'
<1> USE DEF LoopbackInv, ClassWaits, classVars, busVars
<1>1. /\ ~bench /\ ~bus_reset /\ ~request /\ stage[BULK] # "bench" /\ stage[INTERRUPT] # "bench"
      /\ n \in Nat
  BY TwoEndpoints, Sizes DEF HostWrites, BenchInv
<1>2. /\ message'[d] = message[d] + 1 /\ total'[d] = n /\ sent'[d] = 0 /\ got'[d] = <<>>
      /\ stage'[d] = "write"
      /\ \A e \in Eps \ {d} : /\ message'[e] = message[e] /\ total'[e] = total[e]
                              /\ sent'[e] = sent[e] /\ got'[e] = got[e] /\ stage'[e] = stage[e]
  BY DEF HostWrites, TestTypeOK, BusTypeOK
<1>3. TestTypeOK'
  BY <1>1, NoPacketAtAll, Sizes DEF HostWrites, TestTypeOK, BusTypeOK, Stages
<1>4. CycleInv' /\ BenchInv' /\ AnnouncedInv' /\ CompletionInv'
  BY <1>1, <1>2, TwoEndpoints DEF HostWrites, CycleInv, BenchInv, AnnouncedInv, CompletionInv, Busy
<1>5. BulkInv'
  <2>1. CASE d = BULK
    <3>1. BulkQuiet
      BY <1>1, <2>1 DEF BulkInv, HostWrites
    <3>2. BulkReceiving'
      BY <1>1, <1>2, <2>1, <3>1, NoPacketAtAll
         DEF BulkQuiet, BulkReceiving, Received, Holds, Filled, Busy, HostWrites
    <3> QED BY <1>2, <2>1, <3>2 DEF BulkInv
  <2>2. CASE d # BULK
    BY <1>1, <1>2, <2>2, TwoEndpoints
       DEF BulkInv, BulkQuiet, BulkReceiving, BulkReplying, Received, Holds, Busy, HostWrites
  <2> QED BY <2>1, <2>2
<1>6. InterruptInv'
  <2>1. CASE d = INTERRUPT
    BY <1>1, <1>2, <2>1 DEF InterruptInv, HostWrites
  <2>2. CASE d # INTERRUPT
    BY <1>1, <1>2, <2>2, TwoEndpoints DEF InterruptInv, HostWrites
  <2> QED BY <2>1, <2>2
<1>7. LengthInv'
  BY <1>2, TwoEndpoints, Sizes DEF LengthInv
<1>8. EchoIntact'
  BY <1>1, <1>2, NoPacketAtAll DEF EchoIntact
<1> QED BY <1>3, <1>4, <1>5, <1>6, <1>7, <1>8

LEMMA HostSendsKeeps ==
    ASSUME LoopbackInv, NEW d \in Eps, HostSends(d), ClassWaits
    PROVE  LoopbackInv'
<1> USE DEF LoopbackInv, ClassWaits, classVars
<1> DEFINE n == Least(MPS, total[d] - sent[d])
           p == Piece(message[d], sent[d], n)
<1>1. /\ ~bench /\ ~bus_reset /\ stage[d] = "write" /\ outp[d] = <<>>
      /\ stage[BULK] # "bench" /\ stage[INTERRUPT] # "bench"
  BY TwoEndpoints DEF HostSends, BenchInv
<1>2. message[d] \in Nat /\ sent[d] \in Nat /\ total[d] \in Nat /\ sent[d] <= total[d]
  <2>1. message[d] \in Nat /\ sent[d] \in Nat /\ total[d] \in Nat
    BY Sizes DEF TestTypeOK, BusTypeOK
  <2>2. CASE d = BULK
    BY <1>1, <2>1, <2>2 DEF BulkInv, BulkReceiving
  <2>3. CASE d = INTERRUPT
    BY <1>1, <2>1, <2>3 DEF InterruptInv
  <2> QED BY <2>1, <2>2, <2>3, TwoEndpoints
<1>3. n \in Nat /\ n <= MPS /\ n <= total[d] - sent[d] /\ (n = MPS \/ n = total[d] - sent[d])
  BY <1>2, LeastIsMin, Sizes
<1>4. p \in Seq(Byte) /\ Len(p) = n /\ <<p>> \in Seq(Seq(Byte)) /\ Len(<<p>>) = 1
      /\ Head(<<p>>) = p /\ <<p>> # <<>>
  BY <1>2, <1>3, PieceType, OnePacket
<1>5. /\ outp' = [outp EXCEPT ![d] = <<p>>]
      /\ sent' = [sent EXCEPT ![d] = sent[d] + n]
      /\ stage' = [stage EXCEPT ![d] = IF n < MPS \/ d = INTERRUPT THEN "read" ELSE stage[d]]
  BY DEF HostSends, Piece
<1> HIDE DEF n, p
<1>6. /\ outp'[d] = <<p>> /\ sent'[d] = sent[d] + n
      /\ stage'[d] = IF n < MPS \/ d = INTERRUPT THEN "read" ELSE "write"
      /\ \A e \in Eps \ {d} : outp'[e] = outp[e] /\ sent'[e] = sent[e] /\ stage'[e] = stage[e]
  BY <1>1, <1>5 DEF TestTypeOK, BusTypeOK
<1>7. TestTypeOK'
  <2>1. /\ outp' \in [Eps -> Seq(Seq(Byte))]
        /\ \A e \in Eps : Len(outp'[e]) <= 1
    BY <1>4, <1>5, <1>6 DEF TestTypeOK, BusTypeOK
  <2>2. sent' \in [Eps -> Nat] /\ stage' \in [Eps -> Stages]
    BY <1>2, <1>3, <1>5 DEF TestTypeOK, BusTypeOK, Stages
  <2> QED BY <2>1, <2>2 DEF HostSends, TestTypeOK, BusTypeOK
<1>8. CycleInv' /\ BenchInv' /\ AnnouncedInv' /\ CompletionInv'
  BY <1>1, <1>4, <1>6, TwoEndpoints
     DEF HostSends, CycleInv, BenchInv, AnnouncedInv, CompletionInv, Busy
<1>9. BulkInv'
  <2>1. CASE d = BULK
    <3>1. BulkReceiving /\ Received = sent[BULK]
      BY <1>1, <2>1 DEF BulkInv, Received
    <3>2. /\ Received' = Received /\ outp'[BULK] = <<p>> /\ Head(outp'[BULK]) = p
          /\ Len(p) = n /\ p = Piece(message[BULK], Received, Len(p))
          /\ message'[BULK] = message[BULK]
      <4>1. outp'[BULK] = <<p>> /\ sent'[BULK] = sent[BULK] + n /\ message' = message
        BY <1>6, <2>1 DEF HostSends
      <4>2. Received' = sent[BULK]
        BY <1>2, <1>3, <1>4, <4>1, <2>1 DEF Received
      <4>3. p = Piece(message[BULK], sent[BULK], n)
        BY <2>1 DEF p
      <4> QED BY <1>4, <3>1, <4>1, <4>2, <4>3
    <3>3. stage'[BULK] = IF n < MPS THEN "read" ELSE "write"
      BY <1>6, <2>1, TwoEndpoints
    <3>4. sent'[BULK] <= total[BULK] /\ (n < MPS => sent'[BULK] = total[BULK])
      BY <1>2, <1>3, <1>6, <2>1
    <3>5. BulkReceiving'
      <4>1. /\ inp' = inp /\ got' = got /\ total' = total /\ message' = message
            /\ (Busy(BULK)' <=> Busy(BULK)) /\ (Holds(i)' <=> Holds(i))
        BY DEF HostSends, Busy, Holds
      <4>2. IF stage'[BULK] = "write" THEN Len(p) = MPS ELSE Len(p) < MPS
        BY <1>3, <3>2, <3>3, Sizes
      <4>3. stage'[BULK] = "read" => sent'[BULK] = total[BULK]
        BY <1>3, <3>3, <3>4, Sizes
      <4> HIDE DEF LoopbackInv
      <4> QED BY <1>3, <3>1, <3>2, <3>4, <4>1, <4>2, <4>3 DEF BulkReceiving
    <3> QED BY <1>4, <3>2, <3>3, <3>5 DEF BulkInv
  <2>2. CASE d # BULK
    BY <1>1, <1>6, <2>2, TwoEndpoints
       DEF BulkInv, BulkQuiet, BulkReceiving, BulkReplying, Received, Holds, Busy, HostSends
  <2> QED BY <2>1, <2>2
<1>10. InterruptInv'
  <2>1. CASE d = INTERRUPT
    <3>1. sent[d] = 0 /\ got[d] = <<>> /\ inp[d] = <<>> /\ n = total[d]
      BY <1>1, <1>2, <1>3, <2>1, Sizes DEF InterruptInv, LengthInv
    <3> QED BY <1>6, <2>1, <3>1 DEF InterruptInv, HostSends, p
  <2>2. CASE d # INTERRUPT
    BY <1>1, <1>6, <2>2, TwoEndpoints DEF InterruptInv, HostSends
  <2> QED BY <2>1, <2>2
<1>11. LengthInv' /\ EchoIntact'
  BY <1>6 DEF LengthInv, EchoIntact, HostSends
<1> QED BY <1>7, <1>8, <1>9, <1>10, <1>11

LEMMA HostReadsKeeps ==
    ASSUME LoopbackInv, NEW d \in Eps, HostReads(d), ClassWaits
    PROVE  LoopbackInv'
<1> USE DEF LoopbackInv, ClassWaits, classVars
<1> DEFINE f == Len(got[d])
           n == Len(Head(inp[d]))
           reply == got[d] \o Head(inp[d])
<1>1. /\ ~bench /\ ~bus_reset /\ stage[d] = "read" /\ inp[d] # <<>>
      /\ stage[BULK] # "bench" /\ stage[INTERRUPT] # "bench"
  BY TwoEndpoints DEF HostReads, TakesPacket, BenchInv
<1>2. message[d] \in Nat /\ total[d] \in Nat /\ got[d] \in Seq(Byte) /\ f \in Nat
  BY Sizes DEF TestTypeOK, BusTypeOK
<1>0. \A k \in 1..f : got[d][k] = <<message[d], k>>
  BY DEF EchoIntact
<1>3. /\ outp[d] = <<>> /\ n \in Nat /\ n <= MPS /\ f + n <= total[d]
      /\ f + n < total[d] => n = MPS /\ d = BULK
      /\ Head(inp[d]) = Piece(message[d], f, n)
  <2>1. CASE d = BULK
    <3>1. outp[BULK] = <<>> /\ BulkReplying
      BY <1>1, <2>1 DEF BulkInv, BulkReceiving
    <3> DEFINE l == Least(len - f, MPS)
    <3>2. /\ inp[BULK] = <<Piece(message[BULK], f, l)>> /\ i = f + l /\ i <= len
          /\ len = total[BULK]
      BY <1>1, <2>1, <3>1 DEF BulkReplying
    <3>3. len - f \in Nat
      BY <1>2, <2>1, <3>2 DEF EchoIntact
    <3>4. l \in Nat /\ l <= MPS /\ (l = len - f \/ l = MPS)
      BY <3>3, LeastIsMin, Sizes
    <3> HIDE DEF l
    <3>5. Len(Piece(message[BULK], f, l)) = l /\ Piece(message[BULK], f, l) \in Seq(Byte)
      <4>1. message[BULK] \in Nat /\ f \in Nat
        BY <1>2, <2>1
      <4> HIDE DEF f
      <4> QED BY <3>4, <4>1, PieceType
    <3>6. Head(inp[BULK]) = Piece(message[BULK], f, l)
      BY <3>2, <3>5, OnePacket
    <3>7. n = l
      BY <2>1, <3>5, <3>6
    <3>8. f + l <= total[BULK] /\ (f + l < total[BULK] => l = MPS)
      BY <1>2, <2>1, <3>2, <3>4
    <3> HIDE DEF f, n
    <3> QED BY <2>1, <3>1, <3>4, <3>6, <3>7, <3>8
  <2>2. CASE d = INTERRUPT
    <3> DEFINE q == Piece(message[INTERRUPT], 0, total[INTERRUPT])
    <3>1. outp[INTERRUPT] = <<>> /\ inp[INTERRUPT] = <<q>> /\ got[INTERRUPT] = <<>>
      BY <1>1, <2>2 DEF InterruptInv
    <3>2. q \in Seq(Byte) /\ Len(q) = total[INTERRUPT]
      BY <1>2, <2>2, PieceType
    <3>3. f = 0 /\ Head(inp[INTERRUPT]) = q /\ total[INTERRUPT] <= MPS
      BY <2>2, <3>1, <3>2, OnePacket, NoPacketAtAll DEF LengthInv
    <3> QED BY <1>2, <2>2, <3>1, <3>2, <3>3
  <2> QED BY <2>1, <2>2, TwoEndpoints
<1>4. reply \in Seq(Byte) /\ Len(reply) = f + n /\ \A k \in 1..f + n : reply[k] = <<message[d], k>>
  <2> DEFINE m == message[d]
             g == got[d]
  <2>1. m \in Nat /\ f \in Nat /\ n \in Nat /\ g \in Seq(Byte) /\ Len(g) = f
    BY <1>2, <1>3
  <2>2. \A k \in 1..f : g[k] = <<m, k>>
    BY <1>0
  <2>3. reply = g \o Piece(m, Len(g), n)
    BY <1>3
  <2> HIDE DEF m, g, f, n, reply
  <2>4. /\ reply \in Seq(Byte) /\ Len(reply) = f + n
        /\ \A k \in 1..f + n : reply[k] = IF k <= f THEN g[k] ELSE <<m, k>>
    BY <2>1, <2>3, ReplyGrows
  <2>5. ASSUME NEW k \in 1..f + n PROVE reply[k] = <<m, k>>
    <3>1. k <= f => k \in 1..f
      BY <2>1
    <3> QED BY <2>2, <2>4, <3>1, Zenon
  <2> QED BY <2>4, <2>5 DEF m
<1>5. /\ inp' = [inp EXCEPT ![d] = <<>>] /\ in_done' = [in_done EXCEPT ![d] = TRUE]
      /\ got' = [got EXCEPT ![d] = reply]
      /\ stage' = [stage EXCEPT ![d] = IF f + n >= total[d] \/ n < MPS THEN "done" ELSE "read"]
      /\ UNCHANGED <<outp, fetched, request, bus_reset, message, total, sent>>
  BY <1>1, <1>4 DEF HostReads, TakesPacket
<1> HIDE DEF f, n, reply
<1>6. /\ inp'[d] = <<>> /\ in_done'[d] /\ got'[d] = reply
      /\ stage'[d] = IF f + n = total[d] THEN "done" ELSE "read"
      /\ \A e \in Eps \ {d} : /\ inp'[e] = inp[e] /\ (in_done'[e] <=> in_done[e])
                              /\ got'[e] = got[e] /\ stage'[e] = stage[e]
  <2>1. (f + n >= total[d] \/ n < MPS) <=> f + n = total[d]
    BY <1>2, <1>3, Sizes
  <2> QED BY <1>5, <2>1 DEF TestTypeOK, BusTypeOK
<1>7. TestTypeOK'
  <2>1. inp' \in [Eps -> Seq(Seq(Byte))] /\ got' \in [Eps -> Seq(Byte)]
    BY <1>4, <1>5, NoPacketAtAll DEF TestTypeOK, BusTypeOK
  <2>2. \A e \in Eps : Len(inp'[e]) <= 1 /\ (inp'[e] # <<>> => Len(Head(inp'[e])) <= MPS)
    <3>1. Len(inp'[d]) <= 1 /\ inp'[d] = <<>>
      BY <1>6, NoPacketAtAll
    <3> QED BY <1>6, <3>1 DEF TestTypeOK, BusTypeOK
  <2>3. in_done' \in [Eps -> BOOLEAN] /\ stage' \in [Eps -> Stages]
    BY <1>5 DEF TestTypeOK, BusTypeOK, Stages
  <2> QED BY <1>5, <2>1, <2>2, <2>3 DEF TestTypeOK, BusTypeOK
<1>8. CycleInv' /\ BenchInv'
  BY <1>1, <1>5, <1>6, TwoEndpoints DEF CycleInv, BenchInv
<1>9. AnnouncedInv'
  BY <1>1, <1>3, <1>5, <1>6 DEF AnnouncedInv
<1>10. CompletionInv'
  <2>1. Busy(d) /\ d \notin snapshot.in_complete
    BY <1>1 DEF Busy, CompletionInv
  <2>2. \A e \in Eps : Busy(e)' <=> Busy(e)
    BY <1>6, <2>1 DEF Busy
  <2> QED BY <1>1, <1>5, <1>6, <2>1, <2>2 DEF CompletionInv
<1>11. BulkInv'
  <2>1. CASE d = BULK
    <3>1. BulkReplying /\ i = f + n /\ len = total[BULK]
      <4>1. BulkReplying
        BY <1>1, <1>3, <2>1 DEF BulkInv
      <4>2. DEFINE l == Least(len - f, MPS)
      <4>3. inp[BULK] = <<Piece(message[BULK], f, l)>> /\ i = f + l /\ len = total[BULK]
        BY <1>1, <2>1, <4>1 DEF BulkReplying, f
      <4>4. l \in Nat
        <5>1. len - f \in Nat BY <1>2, <1>3, <2>1, <4>3
        <5> QED BY <5>1, LeastIsMin, Sizes
      <4>5. l = n
        <5> HIDE DEF l
        <5>1. message[BULK] \in Nat /\ f \in Nat
          BY <1>2, <2>1
        <5>2. Piece(message[BULK], f, l) \in Seq(Byte) /\ Len(Piece(message[BULK], f, l)) = l
          BY <4>4, <5>1, PieceType
        <5> QED BY <2>1, <4>3, <5>2, OnePacket DEF n
      <4> QED BY <4>1, <4>3, <4>5
    <3>2. Busy(BULK)' /\ outp'[BULK] = <<>> /\ inp'[BULK] = <<>> /\ Len(got'[BULK]) = f + n
      BY <1>3, <1>4, <1>5, <1>6, <2>1 DEF Busy
    <3>3. CASE f + n = total[BULK]
      BY <1>6, <2>1, <3>1, <3>2, <3>3 DEF BulkInv, BulkQuiet
    <3>4. CASE f + n # total[BULK]
      <4>1. i < len
        BY <1>2, <1>3, <2>1, <3>1, <3>4
      <4>2. BulkReplying'
        BY <1>5, <3>1, <3>2, <4>1 DEF BulkReplying, Holds
      <4> QED BY <1>6, <2>1, <3>2, <3>4, <4>2 DEF BulkInv
    <3> QED BY <3>3, <3>4
  <2>2. CASE d # BULK
    BY <1>1, <1>5, <1>6, <2>2, TwoEndpoints
       DEF BulkInv, BulkQuiet, BulkReceiving, BulkReplying, Received, Holds, Busy
  <2> QED BY <2>1, <2>2
<1>12. InterruptInv'
  <2>1. CASE d = INTERRUPT
    <3>1. f + n = total[INTERRUPT]
      BY <1>2, <1>3, <2>1, TwoEndpoints
    <3> QED BY <1>3, <1>5, <1>6, <2>1, <3>1 DEF InterruptInv
  <2>2. CASE d # INTERRUPT
    BY <1>1, <1>5, <1>6, <2>2, TwoEndpoints DEF InterruptInv
  <2> QED BY <2>1, <2>2
<1>13. LengthInv'
  BY <1>5 DEF LengthInv
<1>14. EchoIntact'
  BY <1>3, <1>4, <1>5, <1>6 DEF EchoIntact
<1> QED BY <1>7, <1>8, <1>9, <1>10, <1>11, <1>12, <1>13, <1>14

LEMMA HostBenchKeeps == LoopbackInv /\ HostBench /\ ClassWaits => LoopbackInv'
<1> SUFFICES ASSUME LoopbackInv, HostBench, ClassWaits PROVE LoopbackInv'
  OBVIOUS
<1> USE DEF LoopbackInv, ClassWaits, classVars
<1>1. /\ ~bench /\ ~bus_reset /\ ~bus_reset' /\ request'
      /\ \A e \in Eps : stage[e] \in {"idle", "done"} /\ stage'[e] = "bench"
  BY TwoEndpoints DEF HostBench, BenchInv
<1>2. TestTypeOK'
  BY <1>1 DEF HostBench, TestTypeOK, BusTypeOK, Stages
<1>3. CycleInv' /\ BenchInv' /\ AnnouncedInv' /\ CompletionInv'
  BY <1>1, TwoEndpoints DEF HostBench, CycleInv, BenchInv, AnnouncedInv, CompletionInv, Busy
<1>4. BulkInv'
  BY <1>1, TwoEndpoints DEF HostBench, BulkInv, BulkQuiet, Busy
<1>5. InterruptInv' /\ LengthInv' /\ EchoIntact'
  BY <1>1, TwoEndpoints DEF HostBench, InterruptInv, LengthInv, EchoIntact
<1> QED BY <1>2, <1>3, <1>4, <1>5

LEMMA HostBenchWritesKeeps == LoopbackInv /\ HostBenchWrites /\ ClassWaits => LoopbackInv'
<1> SUFFICES ASSUME LoopbackInv, HostBenchWrites, ClassWaits PROVE LoopbackInv'
  OBVIOUS
<1> USE DEF LoopbackInv, ClassWaits, classVars, hostVars
<1>1. bench /\ bench' /\ ~bus_reset /\ ~bus_reset'
  BY DEF HostBenchWrites, BenchInv
<1>2. TestTypeOK'
  <2>1. \A k \in 1..MPS : <<0, k>> \in Byte
    BY Sizes DEF Byte
  <2>2. [k \in 1..MPS |-> <<0, k>>] \in Seq(Byte)
    BY <2>1, Sizes
  <2> DEFINE q == [k \in 1..MPS |-> <<0, k>>]
  <2>3. outp' = [outp EXCEPT ![BULK] = <<q>>] /\ <<q>> \in Seq(Seq(Byte)) /\ Len(<<q>>) = 1
    BY <2>2, OnePacket DEF HostBenchWrites
  <2> HIDE DEF q
  <2>4. outp' \in [Eps -> Seq(Seq(Byte))] /\ \A e \in Eps : Len(outp'[e]) <= 1
    <3>1. \A e \in Eps : outp'[e] = <<q>> \/ outp'[e] = outp[e]
      BY <2>3 DEF TestTypeOK, BusTypeOK
    <3>2. outp' \in [Eps -> Seq(Seq(Byte))]
      BY <2>3 DEF TestTypeOK, BusTypeOK
    <3> QED BY <2>3, <3>1, <3>2 DEF TestTypeOK, BusTypeOK
  <2> QED BY <2>4 DEF HostBenchWrites, TestTypeOK, BusTypeOK
<1>3. CycleInv' /\ BenchInv' /\ AnnouncedInv' /\ CompletionInv' /\ BulkInv' /\ InterruptInv'
  BY <1>1 DEF HostBenchWrites, CycleInv, BenchInv, AnnouncedInv, CompletionInv, BulkInv,
              InterruptInv
<1>4. LengthInv' /\ EchoIntact'
  BY DEF HostBenchWrites, LengthInv, EchoIntact
<1> QED BY <1>2, <1>3, <1>4

LEMMA HostBenchReadsKeeps == LoopbackInv /\ HostBenchReads /\ ClassWaits => LoopbackInv'
<1> SUFFICES ASSUME LoopbackInv, HostBenchReads, ClassWaits PROVE LoopbackInv'
  OBVIOUS
<1> USE DEF LoopbackInv, ClassWaits, classVars, hostVars
<1>1. bench /\ bench' /\ ~bus_reset /\ ~bus_reset'
  BY DEF HostBenchReads, TakesPacket, BenchInv
<1>2. TestTypeOK'
  <2>1. inp' = [inp EXCEPT ![BULK] = <<>>] /\ in_done' = [in_done EXCEPT ![BULK] = TRUE]
    BY DEF HostBenchReads, TakesPacket
  <2>2. inp' \in [Eps -> Seq(Seq(Byte))] /\ in_done' \in [Eps -> BOOLEAN]
    BY <2>1, NoPacketAtAll DEF TestTypeOK, BusTypeOK
  <2>3. \A e \in Eps : inp'[e] = <<>> \/ inp'[e] = inp[e]
    BY <2>1 DEF TestTypeOK, BusTypeOK
  <2>4. \A e \in Eps : Len(inp'[e]) <= 1 /\ (inp'[e] # <<>> => Len(Head(inp'[e])) <= MPS)
    BY <2>3, NoPacketAtAll DEF TestTypeOK, BusTypeOK
  <2> QED BY <2>2, <2>4 DEF HostBenchReads, TakesPacket, TestTypeOK, BusTypeOK
<1>3. CycleInv' /\ BenchInv' /\ AnnouncedInv' /\ CompletionInv' /\ BulkInv' /\ InterruptInv'
  BY <1>1 DEF HostBenchReads, TakesPacket, CycleInv, BenchInv, AnnouncedInv, CompletionInv,
              BulkInv, InterruptInv
<1>4. LengthInv' /\ EchoIntact'
  BY DEF HostBenchReads, TakesPacket, LengthInv, EchoIntact
<1> QED BY <1>2, <1>3, <1>4

LEMMA HostResetKeeps == LoopbackInv /\ HostReset /\ ClassWaits => LoopbackInv'
<1> SUFFICES ASSUME LoopbackInv, HostReset, ClassWaits PROVE LoopbackInv'
  OBVIOUS
<1> USE DEF LoopbackInv, ClassWaits, classVars
<1>1. /\ bus_reset' /\ ~request'
      /\ \A e \in Eps : /\ outp'[e] = <<>> /\ inp'[e] = <<>> /\ ~in_done'[e]
                        /\ stage'[e] = "idle"
  BY DEF HostReset, NoPackets, NoEvents
<1>2. TestTypeOK'
  <2>1. /\ outp' \in [Eps -> Seq(Seq(Byte))] /\ inp' \in [Eps -> Seq(Seq(Byte))]
        /\ \A e \in Eps : Len(outp'[e]) <= 1 /\ Len(inp'[e]) <= 1
    BY NoPacketAtAll DEF HostReset, NoPackets
  <2>2. /\ in_done' \in [Eps -> BOOLEAN] /\ stage' \in [Eps -> Stages]
        /\ bus_reset' \in BOOLEAN /\ request' \in BOOLEAN
    BY DEF HostReset, NoEvents, Stages
  <2> QED BY <1>1, <2>1, <2>2 DEF HostReset, TestTypeOK, BusTypeOK
<1>3. CycleInv' /\ BenchInv' /\ AnnouncedInv' /\ CompletionInv'
  BY <1>1, TwoEndpoints DEF HostReset, CycleInv, BenchInv, AnnouncedInv, CompletionInv
<1>4. BulkInv' /\ InterruptInv'
  BY <1>1 DEF BulkInv, InterruptInv
<1>5. LengthInv' /\ EchoIntact'
  BY <1>1 DEF HostReset, LengthInv, EchoIntact
<1> QED BY <1>2, <1>3, <1>4, <1>5

-----------------------------------------------------------------------------
(* The class called back with an event. *)

(* Bytes p to p + n - 1 of a buffer. *)
Chunk(b, p, n) == [k \in 1..n |-> b[p + k - 1]]

LEMMA ChunkType ==
    ASSUME NEW b \in [Idx -> Byte], NEW p \in Nat, NEW n \in Nat, p + n <= BUFFER
    PROVE  Chunk(b, p, n) \in Seq(Byte) /\ Len(Chunk(b, p, n)) = n
<1>1. ASSUME NEW k \in 1..n PROVE b[p + k - 1] \in Byte
  <2>1. p + k - 1 \in Idx
    BY Sizes DEF Idx
  <2> QED BY <2>1
<1>2. Chunk(b, p, n) \in [1..n -> Byte]
  BY <1>1 DEF Chunk
<1> QED BY <1>2

(* A chunk of a buffer that holds the message is a piece of the message. *)
LEMMA ChunkIsPiece ==
    ASSUME NEW b, NEW m \in Nat, NEW l \in Nat, NEW p \in Nat, NEW n \in Nat, p + n <= l,
           Filled(b, m, l)
    PROVE  Chunk(b, p, n) = Piece(m, p, n)
<1>1. ASSUME NEW k \in 1..n PROVE b[p + k - 1] = <<m, p + k>>
  <2>1. p + k - 1 \in 0..l - 1 /\ (p + k - 1) + 1 = p + k
    OBVIOUS
  <2>2. b[p + k - 1] = <<m, (p + k - 1) + 1>>
    BY <2>1 DEF Filled
  <2> QED BY <2>1, <2>2
<1> QED BY <1>1 DEF Chunk, Piece

(* What write_bulk_in does in endpoint_in_complete when no packet waits to be
   sent. *)
LEMMA WritesTheRest ==
    ASSUME NEW l \in 0..BUFFER, NEW p \in 0..l, NEW f \in [Eps -> BOOLEAN],
           NEW b \in [Idx -> Byte], inp[BULK] = <<>>, WriteBulkIn(FALSE, l, p, f, b)
    PROVE  \/ p = l /\ len' = 0 /\ i' = 0 /\ inp' = inp /\ expect_in_complete' = f
           \/ /\ p < l
              /\ len' = l /\ i' = p + Least(l - p, MPS)
              /\ inp' = [inp EXCEPT ![BULK] = <<Chunk(b, p, Least(l - p, MPS))>>]
              /\ expect_in_complete' = [f EXCEPT ![BULK] = TRUE]
<1>1. l - p \in Nat /\ MPS \in Nat /\ MPS > 0 /\ l \in Nat /\ p \in Nat /\ p <= l
  BY Sizes
<1>2. Least(l - p, MPS) = 0 <=> p = l
  BY <1>1 DEF Least
<1>3. CASE p = l
  BY <1>2, <1>3 DEF WriteBulkIn, ToWrite
<1>4. CASE p < l
  BY <1>1, <1>2, <1>4 DEF WriteBulkIn, ToWrite, ExpectComplete, Chunk
<1> QED BY <1>1, <1>3, <1>4

LEMMA DispatchKeeps ==
    ASSUME LoopbackInv, NEW d \in Eps, Dispatch(d)
    PROVE  LoopbackInv'
<1> USE DEF LoopbackInv, hostVars
<1> DEFINE quiet == UNCHANGED <<i, len, inp, expect_in_complete>>
           n == Least(len - i, MPS)
<1>1. /\ snapshot' = [out |-> snapshot.out \ {d}, in_complete |-> snapshot.in_complete \ {d}]
      /\ snapshot' \in [out : SUBSET Eps, in_complete : SUBSET Eps]
      /\ snapshot'.out = snapshot.out \ {d}
      /\ snapshot'.in_complete = snapshot.in_complete \ {d}
  BY DEF Dispatch, TestTypeOK
<1>2. /\ expect_out' \in [Eps -> BOOLEAN]
      /\ expect_out'[d] <=> expect_out[d] \/ d \in snapshot.out
      /\ \A e \in Eps \ {d} : expect_out'[e] <=> expect_out[e]
  BY DEF Dispatch, TestTypeOK
<1>3. /\ UNCHANGED <<outp, in_done, fetched, request, bus_reset, bulk_buf, bench>>
      /\ UNCHANGED <<message, total, sent, got, stage>>
  BY DEF Dispatch
<1>4. ASSUME ~bench, d \in snapshot.in_complete
      PROVE  /\ inp[d] = <<>> /\ expect_in_complete[d] /\ ~in_done[d]
             /\ d = BULK => i <= len
  BY <1>4 DEF CompletionInv
<1>5. /\ pc' = AfterEvent(snapshot')
      /\ \/ (bench \/ d \notin snapshot.in_complete) /\ quiet
         \/ /\ ~bench /\ d \in snapshot.in_complete /\ d # BULK
            /\ expect_in_complete' = Completed(d) /\ UNCHANGED <<i, len, inp>>
         \/ /\ ~bench /\ d \in snapshot.in_complete /\ d = BULK
            /\ WriteBulkIn(FALSE, len, i, Completed(BULK), bulk_buf)
  BY <1>4 DEF Dispatch, InComplete, HasCompleted
<1>6. pc' \in {"class", "endpoints"} /\ (pc' = "class" => snapshot' = NoSnapshot)
  BY <1>1, <1>5, NothingLeft
<1>7. CycleInv' /\ BenchInv' /\ AnnouncedInv' /\ LengthInv' /\ EchoIntact'
  <2>1. CycleInv' /\ BenchInv'
    BY <1>3, <1>6 DEF CycleInv, BenchInv
  <2>2. AnnouncedInv'
    BY <1>1, <1>2, <1>3, <1>6 DEF AnnouncedInv
  <2>3. LengthInv' /\ EchoIntact'
    BY <1>3 DEF LengthInv, EchoIntact
  <2> QED BY <2>1, <2>2, <2>3
<1>8. ASSUME /\ i' \in 0..BUFFER /\ len' \in 0..BUFFER /\ inp' \in [Eps -> Seq(Seq(Byte))]
             /\ \A e \in Eps : Len(inp'[e]) <= 1 /\ (inp'[e] # <<>> => Len(Head(inp'[e])) <= MPS)
             /\ expect_in_complete' \in [Eps -> BOOLEAN]
      PROVE  TestTypeOK'
  BY <1>1, <1>2, <1>3, <1>6, <1>8 DEF TestTypeOK, BusTypeOK
<1>9. CASE quiet /\ (bench \/ d \notin snapshot.in_complete)
  <2>1. TestTypeOK'
    BY <1>8, <1>9 DEF TestTypeOK, BusTypeOK
  <2>2. ~bench => \A e \in Eps : Busy(e)' <=> Busy(e)
    BY <1>1, <1>3, <1>9 DEF Busy
  <2>3. CompletionInv' /\ InterruptInv'
    BY <1>1, <1>3, <1>9, <2>2 DEF CompletionInv, InterruptInv
  <2>4. BulkInv'
    BY <1>3, <1>9, <2>2, TwoEndpoints
       DEF BulkInv, BulkQuiet, BulkReceiving, BulkReplying, Received, Holds
  <2> QED BY <1>7, <2>1, <2>3, <2>4
<1>10. CASE /\ ~bench /\ d \in snapshot.in_complete /\ d # BULK
            /\ expect_in_complete' = Completed(d) /\ UNCHANGED <<i, len, inp>>
  <2>1. /\ expect_in_complete' \in [Eps -> BOOLEAN] /\ ~expect_in_complete'[d]
        /\ \A e \in Eps \ {d} : expect_in_complete'[e] <=> expect_in_complete[e]
    BY <1>10 DEF Completed, TestTypeOK
  <2>2. TestTypeOK'
    BY <1>8, <1>10, <2>1 DEF TestTypeOK, BusTypeOK
  <2>3. ~Busy(d)' /\ \A e \in Eps \ {d} : Busy(e)' <=> Busy(e)
    BY <1>1, <1>3, <1>4, <1>10 DEF Busy
  <2>4. CompletionInv' /\ InterruptInv'
    BY <1>1, <1>3, <1>10, <2>1, <2>3 DEF CompletionInv, InterruptInv
  <2>5. BulkInv'
    BY <1>3, <1>10, <2>3, TwoEndpoints
       DEF BulkInv, BulkQuiet, BulkReceiving, BulkReplying, Received, Holds
  <2> QED BY <1>7, <2>2, <2>4, <2>5
<1>11. CASE /\ ~bench /\ d \in snapshot.in_complete /\ d = BULK
            /\ WriteBulkIn(FALSE, len, i, Completed(BULK), bulk_buf)
  <2>1. i \in Nat /\ len \in Nat /\ i <= len /\ len <= BUFFER /\ len - i \in Nat
    BY <1>4, <1>11, Sizes DEF TestTypeOK
  <2>2. n \in Nat /\ n <= MPS /\ n <= len - i
    BY <2>1, LeastIsMin, Sizes
  <2>3. Completed(BULK) \in [Eps -> BOOLEAN] /\ ~Completed(BULK)[BULK]
        /\ \A e \in Eps \ {BULK} : Completed(BULK)[e] <=> expect_in_complete[e]
    BY TwoEndpoints DEF Completed, TestTypeOK
  <2>4. \/ i = len /\ len' = 0 /\ i' = 0 /\ inp' = inp /\ expect_in_complete' = Completed(BULK)
        \/ /\ i < len /\ len' = len /\ i' = i + n
           /\ inp' = [inp EXCEPT ![BULK] = <<Chunk(bulk_buf, i, n)>>]
           /\ expect_in_complete' = [Completed(BULK) EXCEPT ![BULK] = TRUE]
    <3> DEFINE c == Completed(BULK)
    <3>1. TestTypeOK /\ bulk_buf \in [Idx -> Byte] /\ len \in 0..BUFFER
      BY DEF TestTypeOK
    <3>2. c \in [Eps -> BOOLEAN]
      BY <2>3
    <3>3. inp[BULK] = <<>> /\ WriteBulkIn(FALSE, len, i, c, bulk_buf)
      BY <1>4, <1>11
    <3>4. i \in 0..len
      BY <2>1
    <3> HIDE DEF c, n, LoopbackInv
    <3>5. \/ i = len /\ len' = 0 /\ i' = 0 /\ inp' = inp /\ expect_in_complete' = c
          \/ /\ i < len
             /\ len' = len /\ i' = i + Least(len - i, MPS)
             /\ inp' = [inp EXCEPT ![BULK] = <<Chunk(bulk_buf, i, Least(len - i, MPS))>>]
             /\ expect_in_complete' = [c EXCEPT ![BULK] = TRUE]
      BY <3>1, <3>2, <3>3, <3>4, WritesTheRest
    <3> QED BY <3>5 DEF n, c
  <2>5. Busy(BULK)
    BY <1>11 DEF Busy
  <2>6. CASE i = len /\ len' = 0 /\ i' = 0 /\ inp' = inp /\ expect_in_complete' = Completed(BULK)
    <3>1. TestTypeOK'
      <4>1. i' \in 0..BUFFER /\ len' \in 0..BUFFER
        BY <2>6, Sizes
      <4> QED BY <1>8, <2>3, <2>6, <4>1 DEF TestTypeOK, BusTypeOK
    <3>2. ~Busy(BULK)' /\ \A e \in Eps \ {d} : Busy(e)' <=> Busy(e)
      BY <1>1, <1>3, <1>4, <1>11, <2>6 DEF Busy
    <3>3. CompletionInv' /\ InterruptInv'
      BY <1>1, <1>3, <1>11, <2>3, <2>6, <3>2 DEF CompletionInv, InterruptInv
    <3>4. BulkQuiet => BulkQuiet'
      BY <1>3, <2>5, <2>6, <3>2 DEF BulkQuiet
    <3>5. BulkReceiving => BulkReceiving'
      BY <1>3, <2>5, <2>6, <3>2 DEF BulkReceiving, Received, Holds, Filled
    <3>6. ~BulkReplying
      BY <1>4, <1>11, <2>6 DEF BulkReplying
    <3>7. BulkInv'
      BY <1>3, <3>4, <3>5, <3>6 DEF BulkInv
    <3> QED BY <1>7, <3>1, <3>3, <3>7
  <2>7. CASE /\ i < len /\ len' = len /\ i' = i + n
             /\ inp' = [inp EXCEPT ![BULK] = <<Chunk(bulk_buf, i, n)>>]
             /\ expect_in_complete' = [Completed(BULK) EXCEPT ![BULK] = TRUE]
    <3> HIDE DEF n
    <3> DEFINE q == Chunk(bulk_buf, i, n)
    <3>1. q \in Seq(Byte) /\ Len(q) = n /\ <<q>> \in Seq(Seq(Byte)) /\ Len(<<q>>) = 1
          /\ Head(<<q>>) = q /\ <<q>> # <<>>
      <4>1. bulk_buf \in [Idx -> Byte] /\ i + n <= BUFFER
        BY <2>1, <2>2, Sizes DEF TestTypeOK
      <4> QED BY <2>1, <2>2, <4>1, ChunkType, OnePacket
    <3>2. /\ inp' \in [Eps -> Seq(Seq(Byte))] /\ inp'[BULK] = <<q>>
          /\ \A e \in Eps \ {BULK} : inp'[e] = inp[e]
      BY <2>7, <3>1, TwoEndpoints DEF TestTypeOK, BusTypeOK
    <3> HIDE DEF q
    <3>3. /\ expect_in_complete' \in [Eps -> BOOLEAN] /\ expect_in_complete'[BULK]
          /\ \A e \in Eps \ {BULK} : expect_in_complete'[e] <=> expect_in_complete[e]
      BY <2>3, <2>7, TwoEndpoints
    <3>4. TestTypeOK'
      <4>1. i' \in 0..BUFFER /\ len' \in 0..BUFFER
        BY <2>1, <2>2, <2>7, Sizes
      <4>2. \A e \in Eps : Len(inp'[e]) <= 1 /\ (inp'[e] # <<>> => Len(Head(inp'[e])) <= MPS)
        <5>1. Len(inp'[BULK]) <= 1 /\ Len(Head(inp'[BULK])) <= MPS
          BY <2>2, <3>1, <3>2
        <5> QED BY <3>2, <5>1 DEF TestTypeOK, BusTypeOK
      <4> QED BY <1>8, <3>2, <3>3, <4>1, <4>2
    <3>5. Busy(BULK)' /\ \A e \in Eps \ {BULK} : Busy(e)' <=> Busy(e)
      BY <1>1, <1>3, <1>11, <3>1, <3>2 DEF Busy
    <3>6. CompletionInv' /\ InterruptInv'
      BY <1>1, <1>3, <1>4, <1>11, <3>2, <3>3, <3>5, TwoEndpoints DEF CompletionInv, InterruptInv
    <3>7. ~BulkQuiet /\ ~BulkReceiving
      BY <2>1, <2>5, <2>7 DEF BulkQuiet, BulkReceiving
    <3>8. BulkReplying => BulkReplying'
      <4> SUFFICES ASSUME BulkReplying PROVE BulkReplying'
        OBVIOUS
      <4>1. i = Len(got[BULK]) /\ len = total[BULK] /\ Holds(len)
        BY <1>4, <1>11 DEF BulkReplying
      <4>2. q = Piece(message[BULK], i, n)
        <5>1. message[BULK] \in Nat
          BY TwoEndpoints, Sizes DEF TestTypeOK, BusTypeOK
        <5>2. Filled(bulk_buf, message[BULK], len)
          BY <4>1 DEF Holds
        <5>3. i + n <= len
          BY <2>1, <2>2
        <5> QED BY <2>1, <2>2, <5>1, <5>2, <5>3, ChunkIsPiece DEF q
      <4>3. i + n <= len
        BY <2>1, <2>2
      <4> QED BY <1>3, <2>7, <3>1, <3>2, <3>5, <4>1, <4>2, <4>3 DEF BulkReplying, Holds, n
    <3>9. BulkInv'
      BY <1>3, <3>7, <3>8, TwoEndpoints DEF BulkInv, TestTypeOK, BusTypeOK, Stages
    <3> QED BY <1>7, <3>4, <3>6, <3>9
  <2> QED BY <2>4, <2>6, <2>7
<1> QED BY <1>5, <1>9, <1>10, <1>11

-----------------------------------------------------------------------------
(* Steps of TestClass::poll. *)

LEMMA BenchPollKeeps == LoopbackInv /\ BenchPoll => LoopbackInv'
<1> SUFFICES ASSUME LoopbackInv, BenchPoll PROVE LoopbackInv'
  OBVIOUS
<1> USE DEF LoopbackInv, hostVars
<1>1. /\ bench /\ bench' /\ pc' = "poll" /\ snapshot = NoSnapshot /\ snapshot' = NoSnapshot
      /\ UNCHANGED <<in_done, request, bus_reset, i, len, expect_out, expect_in_complete>>
      /\ UNCHANGED <<message, total, sent, got, stage>>
  BY DEF BenchPoll, CycleInv
<1>2. outp' \in [Eps -> Seq(Seq(Byte))] /\ \A e \in Eps : outp'[e] = outp[e] \/ outp'[e] = <<>>
  BY NoPacketAtAll DEF BenchPoll, Taken, TestTypeOK, BusTypeOK
<1>3. bulk_buf' \in [Idx -> Byte]
  <2>1. CASE Readable(BULK)
    <3> DEFINE p == Head(outp[BULK])
    <3>1. p \in Seq(Byte)
      BY <2>1, TwoEndpoints, ThePacket DEF Readable, TestTypeOK, BusTypeOK
    <3>2. bulk_buf' = [j \in Idx |-> IF j < Len(p) THEN p[j + 1] ELSE bulk_buf[j]]
      BY <2>1 DEF BenchPoll
    <3> HIDE DEF p
    <3>3. ASSUME NEW j \in Idx, j < Len(p) PROVE p[j + 1] \in Byte
      BY <3>1, <3>3, LenProperties, ElementOfSeq, Sizes DEF Idx
    <3> QED BY <3>2, <3>3 DEF TestTypeOK
  <2>2. CASE ~Readable(BULK)
    BY <2>2 DEF BenchPoll, TestTypeOK
  <2> QED BY <2>1, <2>2
<1>4. /\ inp' \in [Eps -> Seq(Seq(Byte))]
      /\ \A e \in Eps : Len(inp'[e]) <= 1 /\ (inp'[e] # <<>> => Len(Head(inp'[e])) <= MPS)
  <2> DEFINE q == Chunk(bulk_buf', 0, MPS)
  <2>1. q \in Seq(Byte) /\ Len(q) = MPS /\ <<q>> \in Seq(Seq(Byte)) /\ Len(<<q>>) = 1
        /\ Head(<<q>>) = q
    BY <1>3, ChunkType, OnePacket, Sizes
  <2>2. q = [k \in 1..MPS |-> bulk_buf'[k - 1]]
    <3>1. \A k \in 1..MPS : 0 + k - 1 = k - 1
      BY Sizes
    <3> QED BY <3>1 DEF Chunk
  <2>3. inp' = inp \/ inp' = [inp EXCEPT ![BULK] = <<q>>]
    BY <2>2 DEF BenchPoll
  <2> HIDE DEF q
  <2>4. inp' \in [Eps -> Seq(Seq(Byte))] /\ \A e \in Eps : inp'[e] = inp[e] \/ inp'[e] = <<q>>
    BY <2>1, <2>3 DEF TestTypeOK, BusTypeOK
  <2>5. Len(<<q>>) <= 1 /\ Len(Head(<<q>>)) <= MPS
    BY <2>1, Sizes
  <2> QED BY <2>4, <2>5 DEF TestTypeOK, BusTypeOK
<1>5. fetched' \subseteq Eps
  BY DEF BenchPoll, Taken, TestTypeOK, BusTypeOK
<1>6. TestTypeOK'
  <2>1. \A e \in Eps : Len(outp'[e]) <= 1
    BY <1>2, NoPacketAtAll DEF TestTypeOK, BusTypeOK
  <2> QED BY <1>1, <1>2, <1>3, <1>4, <1>5, <2>1 DEF TestTypeOK, BusTypeOK
<1>7. CycleInv' /\ BenchInv'
  <2>1. bus_reset => outp' = NoPackets
    BY <1>2 DEF BenchInv, NoPackets
  <2> QED BY <1>1, <2>1 DEF CycleInv, BenchInv
<1>8. AnnouncedInv' /\ CompletionInv' /\ BulkInv' /\ InterruptInv'
  BY <1>1 DEF AnnouncedInv, CompletionInv, BulkInv, InterruptInv
<1>9. LengthInv' /\ EchoIntact'
  BY <1>1 DEF LengthInv, EchoIntact
<1> QED BY <1>6, <1>7, <1>8, <1>9

(* A read that finds nothing moves on to the other endpoint, or to the next
   poll. *)
LEMMA NothingReadKeeps ==
    ASSUME LoopbackInv, ReadsDirectly = FALSE, UNCHANGED <<hostVars, snapshot>>,
           \/ pc = "class" /\ ~bench /\ NothingRead(BULK, "interrupt")
           \/ pc = "interrupt" /\ NothingRead(INTERRUPT, "poll")
    PROVE  LoopbackInv'
<1> USE DEF LoopbackInv, hostVars, busVars, classVars
<1>1. /\ UNCHANGED <<outp, inp, in_done, fetched, request, bus_reset>>
      /\ UNCHANGED <<bulk_buf, i, len, bench, expect_out, expect_in_complete>>
      /\ UNCHANGED <<message, total, sent, got, stage>>
      /\ UNCHANGED snapshot
      /\ ~bench /\ snapshot = NoSnapshot
      /\ \/ pc = "class" /\ pc' = "interrupt" /\ ~Readable(BULK)
         \/ pc = "interrupt" /\ pc' = "poll" /\ ~Readable(INTERRUPT)
  BY DEF NothingRead, CycleInv
<1>2. \A e \in Eps : Busy(e)' <=> Busy(e)
  BY <1>1 DEF Busy
<1>3. TestTypeOK' /\ CycleInv' /\ BenchInv'
  BY <1>1 DEF TestTypeOK, BusTypeOK, CycleInv, BenchInv
<1>4. AnnouncedInv'
  BY <1>1, TwoEndpoints DEF AnnouncedInv, Readable, TestTypeOK, BusTypeOK
<1>5. CompletionInv' /\ InterruptInv' /\ LengthInv' /\ EchoIntact'
  BY <1>1, <1>2 DEF CompletionInv, InterruptInv, LengthInv, EchoIntact
<1>6. BulkInv'
  BY <1>1, <1>2, TwoEndpoints
     DEF BulkInv, BulkQuiet, BulkReceiving, BulkReplying, Received, Holds
<1> QED BY <1>3, <1>4, <1>5, <1>6

(* A packet that the class reads was announced, and the class is ready for
   it. *)
LEMMA ReadIsAnnounced ==
    ASSUME LoopbackInv, ReadsDirectly = FALSE, NEW d \in Eps, Readable(d), ~bench,
           snapshot = NoSnapshot
    PROVE  ~bus_reset /\ d \in fetched /\ expect_out[d] /\ ~in_done[d] /\ outp[d] # <<>>
BY DEF LoopbackInv, Readable, AnnouncedInv, BenchInv, NoSnapshot, NoPackets

LEMMA BulkReadFits ==
    ASSUME LoopbackInv, ReadsDirectly = FALSE, Readable(BULK), ~bench, snapshot = NoSnapshot
    PROVE  LET count == Len(Head(outp[BULK]))
           IN /\ BulkReceiving /\ ~Busy(BULK) /\ i = Received /\ Holds(i) /\ count \in Nat
              /\ Head(outp[BULK]) \in Seq(Byte) /\ Head(outp[BULK]) = Piece(message[BULK], i, count)
              /\ count <= MPS /\ i + count = sent[BULK] /\ i + count <= total[BULK]
              /\ total[BULK] <= BUFFER /\ i \in Nat /\ message[BULK] \in Nat
              /\ stage[BULK] = IF count < MPS THEN "read" ELSE "write"
<1> USE DEF LoopbackInv
<1> DEFINE count == Len(Head(outp[BULK]))
<1>1. ~bus_reset /\ ~in_done[BULK] /\ outp[BULK] # <<>>
  BY TwoEndpoints, ReadIsAnnounced
<1>2. BulkReceiving /\ stage[BULK] \in {"read", "write"}
  BY <1>1, TwoEndpoints DEF BulkInv, BulkQuiet, TestTypeOK, BusTypeOK, Stages
<1>3. ~Busy(BULK)
  BY <1>1, <1>2 DEF BulkReceiving, Busy, NoSnapshot
<1>4. Head(outp[BULK]) \in Seq(Byte) /\ count \in Nat
  BY <1>1, TwoEndpoints, ThePacket, LenProperties DEF TestTypeOK, BusTypeOK
<1>5. i \in Nat /\ message[BULK] \in Nat /\ sent[BULK] \in Nat /\ total[BULK] \in Nat
  BY TwoEndpoints, Sizes DEF TestTypeOK, BusTypeOK
<1>6. i = Received /\ Holds(i) /\ Received = sent[BULK] - count
  BY <1>1, <1>2, <1>3 DEF BulkReceiving, Received
<1> HIDE DEF LoopbackInv
<1>7. /\ Head(outp[BULK]) = Piece(message[BULK], i, count) /\ count <= MPS
      /\ IF stage[BULK] = "write" THEN count = MPS ELSE count < MPS
      /\ sent[BULK] <= total[BULK]
  BY <1>1, <1>2, <1>6 DEF BulkReceiving
<1>8. stage[BULK] = IF count < MPS THEN "read" ELSE "write"
  BY <1>2, <1>7, Sizes
<1>9. i + count = sent[BULK] /\ i + count <= total[BULK]
  BY <1>4, <1>5, <1>6, <1>7
<1>10. total[BULK] <= BUFFER
  BY DEF LoopbackInv, LengthInv
<1> HIDE DEF count
<1>11. /\ BulkReceiving /\ ~Busy(BULK) /\ i = Received /\ Holds(i) /\ count \in Nat
       /\ Head(outp[BULK]) \in Seq(Byte) /\ Head(outp[BULK]) = Piece(message[BULK], i, count)
       /\ count <= MPS /\ i + count = sent[BULK] /\ i + count <= total[BULK]
       /\ total[BULK] <= BUFFER /\ i \in Nat /\ message[BULK] \in Nat
       /\ stage[BULK] = IF count < MPS THEN "read" ELSE "write"
  BY <1>2, <1>3, <1>4, <1>5, <1>6, <1>7, <1>8, <1>9, <1>10
<1> QED BY <1>11 DEF count

LEMMA InterruptReadFits ==
    ASSUME LoopbackInv, ReadsDirectly = FALSE, Readable(INTERRUPT), ~bench, snapshot = NoSnapshot
    PROVE  /\ stage[INTERRUPT] = "read" /\ got[INTERRUPT] = <<>> /\ inp[INTERRUPT] = <<>>
           /\ outp[INTERRUPT] = <<Piece(message[INTERRUPT], 0, total[INTERRUPT])>>
           /\ Head(outp[INTERRUPT]) \in Seq(Byte) /\ Len(Head(outp[INTERRUPT])) <= MPS
<1> USE DEF LoopbackInv
<1> DEFINE q == Piece(message[INTERRUPT], 0, total[INTERRUPT])
<1>1. ~bus_reset /\ outp[INTERRUPT] # <<>>
  BY TwoEndpoints, ReadIsAnnounced
<1>2. /\ stage[INTERRUPT] = "read" /\ got[INTERRUPT] = <<>> /\ inp[INTERRUPT] = <<>>
      /\ outp[INTERRUPT] = <<q>>
  BY <1>1 DEF InterruptInv
<1>3. message[INTERRUPT] \in Nat /\ total[INTERRUPT] \in Nat
  BY TwoEndpoints, Sizes DEF TestTypeOK, BusTypeOK
<1>4. q \in Seq(Byte) /\ Len(q) = total[INTERRUPT]
  BY <1>3, PieceType
<1>5. Head(<<q>>) = q
  BY <1>4, OnePacket
<1> QED BY <1>2, <1>4, <1>5 DEF LengthInv

(* No assertion of TestClass::poll fails. *)
LEMMA NoPanic ==
    ASSUME LoopbackInv, ReadsDirectly = FALSE
    PROVE  /\ ~(pc = "class" /\ ~bench /\ Panics(BULK, BUFFER - i))
           /\ ~(pc = "interrupt" /\ Panics(INTERRUPT, BUFFER))
<1>1. ASSUME pc = "class", ~bench, Panics(BULK, BUFFER - i) PROVE FALSE
  <2>1. snapshot = NoSnapshot /\ Readable(BULK)
    BY <1>1 DEF LoopbackInv, CycleInv, Panics
  <2>2. expect_out[BULK]
    BY <1>1, <2>1, TwoEndpoints, ReadIsAnnounced
  <2> DEFINE count == Len(Head(outp[BULK]))
  <2>3. count \in Nat /\ i \in Nat /\ i + count <= total[BULK] /\ total[BULK] <= BUFFER
    BY <1>1, <2>1, BulkReadFits
  <2>4. total[BULK] \in Nat
    BY TwoEndpoints DEF LoopbackInv, TestTypeOK, BusTypeOK
  <2>5. ~(count > BUFFER - i)
    BY <2>3, <2>4, Sizes
  <2> QED BY <1>1, <2>2, <2>5 DEF Panics
<1>2. ASSUME pc = "interrupt", Panics(INTERRUPT, BUFFER) PROVE FALSE
  <2>1. snapshot = NoSnapshot /\ Readable(INTERRUPT) /\ ~bench
    BY <1>2 DEF LoopbackInv, CycleInv, Panics
  <2>2. expect_out[INTERRUPT]
    BY <2>1, TwoEndpoints, ReadIsAnnounced
  <2>3. Head(outp[INTERRUPT]) \in Seq(Byte) /\ Len(Head(outp[INTERRUPT])) <= MPS
    BY <2>1, InterruptReadFits
  <2>4. ~(Len(Head(outp[INTERRUPT])) > BUFFER)
    BY <2>3, LenProperties, Sizes
  <2> QED BY <1>2, <2>2, <2>4 DEF Panics
<1> QED BY <1>1, <1>2

LEMMA BulkPacketKeeps ==
    ASSUME LoopbackInv, ReadsDirectly = FALSE, UNCHANGED <<hostVars, snapshot>>,
           pc = "class", ~bench, BulkPacket
    PROVE  LoopbackInv'
<1> USE DEF LoopbackInv, hostVars
<1> DEFINE p == Head(outp[BULK])
           count == Len(p)
           m == message[BULK]
<1>1. /\ snapshot = NoSnapshot /\ snapshot' = NoSnapshot /\ pc' = "interrupt"
      /\ UNCHANGED <<in_done, request, bus_reset, bench>>
      /\ UNCHANGED <<message, total, sent, got, stage>>
      /\ Readable(BULK) /\ ~bench'
  BY DEF BulkPacket, CycleInv
<1>2. ~bus_reset /\ BULK \in fetched /\ ~in_done[BULK] /\ outp[BULK] # <<>>
  BY <1>1, TwoEndpoints, ReadIsAnnounced
<1>3. /\ BulkReceiving /\ ~Busy(BULK) /\ i = Received /\ Holds(i) /\ count \in Nat
      /\ p \in Seq(Byte) /\ p = Piece(m, i, count)
      /\ count <= MPS /\ i + count = sent[BULK] /\ i + count <= total[BULK]
      /\ total[BULK] <= BUFFER /\ i \in Nat /\ m \in Nat
      /\ stage[BULK] = IF count < MPS THEN "read" ELSE "write"
  BY <1>1, BulkReadFits
<1>4. /\ outp' = [outp EXCEPT ![BULK] = <<>>] /\ fetched' = fetched \ {BULK}
      /\ expect_out' = [expect_out EXCEPT ![BULK] = FALSE]
      /\ bulk_buf' = [j \in Idx |-> IF i <= j /\ j < i + count THEN p[j - i + 1]
                                                               ELSE bulk_buf[j]]
      /\ IF count < MPS
         THEN WriteBulkIn(WriteEmpty(count), i + count, 0, expect_in_complete, bulk_buf')
         ELSE i' = i + count /\ UNCHANGED <<len, inp, expect_in_complete>>
  BY DEF BulkPacket, Taken
<1>5. /\ outp' \in [Eps -> Seq(Seq(Byte))] /\ outp'[BULK] = <<>>
      /\ \A e \in Eps \ {BULK} : outp'[e] = outp[e]
      /\ expect_out' \in [Eps -> BOOLEAN] /\ ~expect_out'[BULK]
      /\ \A e \in Eps \ {BULK} : expect_out'[e] <=> expect_out[e]
  BY <1>4, TwoEndpoints, NoPacketAtAll DEF TestTypeOK, BusTypeOK
<1> HIDE DEF p, count, m
<1>6. bulk_buf' \in [Idx -> Byte] /\ Filled(bulk_buf', m, i + count)
  <2>1. ASSUME NEW j \in Idx, i <= j, j < i + count
        PROVE  p[j - i + 1] = <<m, j + 1>> /\ p[j - i + 1] \in Byte
    <3>1. j - i + 1 \in 1..count /\ i + (j - i + 1) = j + 1
      BY <1>3, <2>1, Sizes DEF Idx
    <3>2. p[j - i + 1] = <<m, i + (j - i + 1)>>
      <4>1. \A k \in 1..count : Piece(m, i, count)[k] = <<m, i + k>>
        BY <1>3, PieceType
      <4> QED BY <1>3, <3>1, <4>1
    <3>3. <<m, i + (j - i + 1)>> \in Byte
      BY <1>3, <3>1 DEF Byte
    <3> QED BY <3>1, <3>2, <3>3
  <2>2. bulk_buf' \in [Idx -> Byte]
    BY <1>4, <2>1 DEF TestTypeOK
  <2>3. ASSUME NEW j \in 0..(i + count) - 1 PROVE bulk_buf'[j] = <<m, j + 1>>
    <3>1. total[BULK] \in Nat
      BY TwoEndpoints DEF TestTypeOK, BusTypeOK
    <3>2. j \in Idx /\ j < i + count
      BY <1>3, <3>1, Sizes DEF Idx
    <3>3. CASE i <= j
      BY <1>4, <2>1, <3>2, <3>3
    <3>4. CASE ~(i <= j)
      <4>1. j \in 0..i - 1
        BY <1>3, <3>4
      <4>2. bulk_buf[j] = <<m, j + 1>>
        BY <1>3, <4>1 DEF Holds, Filled, m
      <4> QED BY <1>4, <3>2, <3>4, <4>2
    <3> QED BY <3>3, <3>4
  <2>4. \A j \in 0..(i + count) - 1 : bulk_buf'[j] = <<m, j + 1>>
    BY <2>3
  <2>5. Filled(bulk_buf', m, i + count)
    BY <2>4 DEF Filled
  <2> QED BY <2>2, <2>5
<1>7. CycleInv' /\ BenchInv'
  BY <1>1, <1>2 DEF CycleInv, BenchInv
<1>8. AnnouncedInv'
  BY <1>1, <1>2, <1>4, <1>5, TwoEndpoints DEF AnnouncedInv, NoSnapshot
<1>9. LengthInv' /\ EchoIntact'
  BY <1>1 DEF LengthInv, EchoIntact
<1>10. ASSUME i' \in 0..BUFFER, len' \in 0..BUFFER, inp' \in [Eps -> Seq(Seq(Byte))],
              \A e \in Eps : /\ Len(inp'[e]) <= 1
                             /\ inp'[e] # <<>> => Len(Head(inp'[e])) <= MPS,
              expect_in_complete' \in [Eps -> BOOLEAN]
       PROVE  TestTypeOK'
  <2>1. \A e \in Eps : Len(outp'[e]) <= 1
    <3>1. Len(outp'[BULK]) <= 1
      BY <1>5, NoPacketAtAll
    <3> QED BY <1>5, <3>1 DEF TestTypeOK, BusTypeOK
  <2>2. fetched' \subseteq Eps
    BY <1>4 DEF TestTypeOK, BusTypeOK
  <2>3. pc' \in {"poll", "ep0", "endpoints", "class", "interrupt", "panic"}
    BY <1>1
  <2>4. BusTypeOK'
    BY <1>1, <1>5, <1>10, <2>1, <2>2 DEF TestTypeOK, BusTypeOK
  <2> QED BY <1>1, <1>5, <1>6, <1>10, <2>3, <2>4 DEF TestTypeOK
<1>11. i + count \in 0..BUFFER
  <2>1. total[BULK] \in Nat
    BY TwoEndpoints DEF TestTypeOK, BusTypeOK
  <2> QED BY <1>3, <2>1, Sizes
<1>12. CASE count = MPS
  <2>1. i' = i + count /\ UNCHANGED <<len, inp, expect_in_complete>>
    BY <1>4, <1>12, Sizes
  <2>2. TestTypeOK'
    BY <1>10, <1>11, <2>1 DEF TestTypeOK, BusTypeOK
  <2>3. \A e \in Eps : Busy(e)' <=> Busy(e)
    BY <1>1, <2>1 DEF Busy
  <2>4. CompletionInv' /\ InterruptInv'
    BY <1>1, <1>5, <2>1, <2>3, TwoEndpoints DEF CompletionInv, InterruptInv, NoSnapshot
  <2>5. stage[BULK] = "write"
    BY <1>3, <1>12, Sizes
  <2>6. Received' = i'
    BY <1>1, <1>3, <1>5, <2>1 DEF Received
  <2>7. Holds(i)'
    BY <1>1, <1>6, <2>1 DEF Holds, m
  <2>8. ~Busy(BULK)' /\ i' \in Nat
    BY <1>3, <1>11, <2>1, <2>3, TwoEndpoints, Sizes
  <2>9. BulkReceiving'
    BY <1>1, <1>3, <1>5, <2>1, <2>5, <2>6, <2>7, <2>8 DEF BulkReceiving
  <2>10. BulkInv'
    BY <1>1, <2>5, <2>9 DEF BulkInv
  <2> QED BY <1>7, <1>8, <1>9, <2>2, <2>4, <2>10
<1>13. CASE count < MPS
  <2> DEFINE l == i + count
             n == Least(l - 0, MPS)
             q == Chunk(bulk_buf', 0, n)
  <2>1. stage[BULK] = "read" /\ l = total[BULK] /\ inp[BULK] = <<>> /\ got[BULK] = <<>>
    BY <1>3, <1>13 DEF BulkReceiving
  <2>2. l \in Nat /\ l <= BUFFER /\ n \in Nat /\ n <= l /\ n <= MPS /\ 0 + n <= BUFFER
        /\ n = Least(l, MPS)
    BY <1>11, LeastIsMin, Sizes
  <2>3. WriteBulkIn(WriteEmpty(count), l, 0, expect_in_complete, bulk_buf')
    BY <1>4, <1>13
  <2>4. ~(ToWrite(l, 0) = 0 /\ ~WriteEmpty(count))
    BY <1>3, <1>13, Sizes DEF ToWrite, Least, WriteEmpty
  <2>5. /\ len' = l /\ i' = 0 + n
        /\ inp' = [inp EXCEPT ![BULK] = <<q>>]
        /\ expect_in_complete' = [expect_in_complete EXCEPT ![BULK] = TRUE]
    BY <2>1, <2>3, <2>4 DEF WriteBulkIn, ToWrite, ExpectComplete, Chunk
  <2>6. q = Piece(m, 0, n)
    BY <1>3, <1>6, <2>2, ChunkIsPiece
  <2>7. q \in Seq(Byte) /\ Len(q) = n /\ <<q>> \in Seq(Seq(Byte)) /\ Len(<<q>>) = 1
        /\ Head(<<q>>) = q /\ <<q>> # <<>>
    BY <1>6, <2>2, ChunkType, OnePacket
  <2> HIDE DEF l, n, q
  <2>8. /\ inp' \in [Eps -> Seq(Seq(Byte))] /\ inp'[BULK] = <<q>>
        /\ \A e \in Eps \ {BULK} : inp'[e] = inp[e]
        /\ expect_in_complete' \in [Eps -> BOOLEAN] /\ expect_in_complete'[BULK]
        /\ \A e \in Eps \ {BULK} : expect_in_complete'[e] <=> expect_in_complete[e]
    BY <2>5, <2>7, TwoEndpoints DEF TestTypeOK, BusTypeOK
  <2>9. i' = n /\ len' = l /\ i' \in 0..BUFFER /\ len' \in 0..BUFFER
    BY <2>2, <2>5, Sizes
  <2>10. TestTypeOK'
    <3>1. Len(inp'[BULK]) <= 1 /\ Len(Head(inp'[BULK])) <= MPS
      BY <2>2, <2>7, <2>8
    <3>2. \A e \in Eps : Len(inp'[e]) <= 1 /\ (inp'[e] # <<>> => Len(Head(inp'[e])) <= MPS)
      BY <2>8, <3>1 DEF TestTypeOK, BusTypeOK
    <3> QED BY <1>10, <2>8, <2>9, <3>2
  <2>11. Busy(BULK)' /\ \A e \in Eps \ {BULK} : Busy(e)' <=> Busy(e)
    BY <1>1, <2>7, <2>8 DEF Busy
  <2>12. CompletionInv' /\ InterruptInv'
    <3>1. snapshot'.in_complete = {}
      BY <1>1 DEF NoSnapshot
    <3>2. CompletionInv'
      BY <1>1, <1>2, <2>8, <2>11, <3>1, TwoEndpoints DEF CompletionInv
    <3>3. InterruptInv'
      BY <1>1, <1>5, <2>8, TwoEndpoints DEF InterruptInv
    <3> QED BY <3>2, <3>3
  <2>13. BulkReplying'
    <3>1. len' = total'[BULK] /\ i' <= len' /\ Holds(len)'
      BY <1>1, <1>6, <2>1, <2>2, <2>9 DEF Holds, m, l
    <3>2. Len(got'[BULK]) = 0 /\ l - 0 = l
      BY <1>1, <2>1, <2>2, NoPacketAtAll
    <3>3. i' = 0 + n
      BY <2>5
    <3> QED BY <1>1, <2>2, <2>6, <2>7, <2>8, <2>9, <2>11, <3>1, <3>2, <3>3 DEF BulkReplying, m
  <2>14. BulkInv'
    BY <1>1, <1>5, <2>1, <2>13 DEF BulkInv
  <2> QED BY <1>7, <1>8, <1>9, <2>10, <2>12, <2>14
<1> QED BY <1>3, <1>12, <1>13, Sizes

LEMMA InterruptPacketKeeps ==
    ASSUME LoopbackInv, ReadsDirectly = FALSE, UNCHANGED <<hostVars, snapshot>>,
           pc = "interrupt", InterruptPacket
    PROVE  LoopbackInv'
<1> USE DEF LoopbackInv, hostVars
<1> DEFINE q == Piece(message[INTERRUPT], 0, total[INTERRUPT])
<1>1. /\ snapshot = NoSnapshot /\ snapshot' = NoSnapshot /\ ~bench /\ ~bench'
      /\ UNCHANGED <<in_done, request, bus_reset, bench, bulk_buf, i, len>>
      /\ UNCHANGED <<message, total, sent, got, stage>>
      /\ Readable(INTERRUPT)
  BY DEF InterruptPacket, CycleInv
<1>2. ~bus_reset /\ ~in_done[INTERRUPT] /\ outp[INTERRUPT] # <<>>
  BY <1>1, TwoEndpoints, ReadIsAnnounced
<1>3. /\ stage[INTERRUPT] = "read" /\ got[INTERRUPT] = <<>> /\ inp[INTERRUPT] = <<>>
      /\ outp[INTERRUPT] = <<q>>
      /\ Head(outp[INTERRUPT]) \in Seq(Byte) /\ Len(Head(outp[INTERRUPT])) <= MPS
  BY <1>1, InterruptReadFits
<1>4. /\ outp' = [outp EXCEPT ![INTERRUPT] = <<>>] /\ fetched' = fetched \ {INTERRUPT}
      /\ expect_out' = [expect_out EXCEPT ![INTERRUPT] = FALSE]
      /\ inp' = [inp EXCEPT ![INTERRUPT] = outp[INTERRUPT]]
      /\ expect_in_complete' = [expect_in_complete EXCEPT ![INTERRUPT] = TRUE]
      /\ pc' = "poll"
  BY <1>3 DEF InterruptPacket, Taken
<1> HIDE DEF q
<1>5. /\ outp' \in [Eps -> Seq(Seq(Byte))] /\ inp' \in [Eps -> Seq(Seq(Byte))]
      /\ outp'[INTERRUPT] = <<>> /\ inp'[INTERRUPT] = <<q>> /\ inp'[INTERRUPT] = outp[INTERRUPT]
      /\ \A e \in Eps \ {INTERRUPT} : outp'[e] = outp[e] /\ inp'[e] = inp[e]
  BY <1>3, <1>4, TwoEndpoints, NoPacketAtAll DEF TestTypeOK, BusTypeOK
<1>6. /\ expect_out' \in [Eps -> BOOLEAN] /\ expect_in_complete' \in [Eps -> BOOLEAN]
      /\ ~expect_out'[INTERRUPT] /\ expect_in_complete'[INTERRUPT]
      /\ \A e \in Eps \ {INTERRUPT} :
            /\ expect_out'[e] <=> expect_out[e]
            /\ expect_in_complete'[e] <=> expect_in_complete[e]
  BY <1>4, TwoEndpoints DEF TestTypeOK
<1>7. TestTypeOK'
  <2>1. \A e \in Eps : Len(outp'[e]) <= 1
    <3>1. Len(outp'[INTERRUPT]) <= 1
      BY <1>5, NoPacketAtAll
    <3> QED BY <1>5, <3>1 DEF TestTypeOK, BusTypeOK
  <2>2. \A e \in Eps : Len(inp'[e]) <= 1 /\ (inp'[e] # <<>> => Len(Head(inp'[e])) <= MPS)
    BY <1>3, <1>5, TwoEndpoints DEF TestTypeOK, BusTypeOK
  <2>3. BusTypeOK'
    BY <1>1, <1>4, <1>5, <2>1, <2>2 DEF TestTypeOK, BusTypeOK
  <2> QED BY <1>1, <1>4, <1>6, <2>3 DEF TestTypeOK
<1>8. CycleInv' /\ BenchInv'
  BY <1>1, <1>2, <1>4 DEF CycleInv, BenchInv
<1>0. snapshot.in_complete = {} /\ snapshot'.in_complete = {}
      /\ snapshot.out = {} /\ snapshot'.out = {}
  BY <1>1 DEF NoSnapshot
<1>9. AnnouncedInv'
  <2>1. BULK \notin fetched /\ fetched \subseteq Eps
    BY <1>1, <1>2, TwoEndpoints DEF AnnouncedInv, TestTypeOK, BusTypeOK
  <2>2. fetched' = {}
    BY <1>4, <2>1, TwoEndpoints
  <2>3. \A e \in Eps : ~expect_out'[e]
    BY <1>0, <1>1, <1>6, <2>1, TwoEndpoints DEF AnnouncedInv
  <2> QED BY <1>0, <2>2, <2>3 DEF AnnouncedInv
<1>10. inp'[INTERRUPT] # <<>>
  BY <1>2, <1>5
<1>11. Busy(INTERRUPT)' /\ \A e \in Eps \ {INTERRUPT} : Busy(e)' <=> Busy(e)
  BY <1>1, <1>5, <1>10 DEF Busy
<1>12. CompletionInv'
  BY <1>0, <1>1, <1>2, <1>5, <1>6, <1>11, TwoEndpoints DEF CompletionInv
<1>13. BulkInv'
  BY <1>1, <1>5, <1>11, TwoEndpoints
     DEF BulkInv, BulkQuiet, BulkReceiving, BulkReplying, Received, Holds
<1>14. InterruptInv'
  BY <1>1, <1>3, <1>5 DEF InterruptInv, q
<1>15. LengthInv' /\ EchoIntact'
  BY <1>1 DEF LengthInv, EchoIntact
<1> QED BY <1>7, <1>8, <1>9, <1>12, <1>13, <1>14, <1>15

-----------------------------------------------------------------------------
(* The theorems. *)

LEMMA NextKeepsLoopback ==
    ASSUME LoopbackInv, [Next]_vars, ReadsDirectly = FALSE
    PROVE  LoopbackInv'
<1>1. CASE UNCHANGED vars
  <2> USE <1>1 DEF vars, busVars, hostVars, classVars, LoopbackInv
  <2>1. TestTypeOK' /\ CycleInv' /\ BenchInv' /\ AnnouncedInv' /\ LengthInv' /\ EchoIntact'
    BY DEF TestTypeOK, BusTypeOK, CycleInv, BenchInv, AnnouncedInv, LengthInv, EchoIntact
  <2>2. CompletionInv' /\ InterruptInv'
    BY DEF CompletionInv, Busy, InterruptInv
  <2>3. BulkInv'
    BY DEF BulkInv, BulkQuiet, BulkReceiving, BulkReplying, Received, Holds, Busy
  <2> QED BY <2>1, <2>2, <2>3
<1>2. CASE HostNext /\ UNCHANGED <<classVars, snapshot, pc>>
  <2>1. ClassWaits
    BY <1>2 DEF ClassWaits
  <2> QED BY <1>2, <2>1, HostWritesKeeps, HostSendsKeeps, HostReadsKeeps, HostBenchKeeps,
             HostBenchWritesKeeps, HostBenchReadsKeeps, HostResetKeeps DEF HostNext
<1>3. CASE LoopbackPoll
  <2>1. UNCHANGED <<hostVars, snapshot>>
    BY <1>3 DEF LoopbackPoll
  <2>2. CASE /\ pc = "class" /\ ~bench
             /\ NothingRead(BULK, "interrupt") \/ Panics(BULK, BUFFER - i) \/ BulkPacket
    BY <2>1, <2>2, NothingReadKeeps, NoPanic, BulkPacketKeeps
  <2>3. CASE /\ pc = "interrupt"
             /\ NothingRead(INTERRUPT, "poll") \/ Panics(INTERRUPT, BUFFER) \/ InterruptPacket
    BY <2>1, <2>3, NothingReadKeeps, NoPanic, InterruptPacketKeeps
  <2> QED BY <1>3, <2>2, <2>3 DEF LoopbackPoll
<1>4. CASE Cycle /\ ~LoopbackPoll
  BY <1>4, PollDataKeeps, PollResetKeeps, SetBenchKeeps, DispatchKeeps, BenchPollKeeps DEF Cycle
<1> QED BY <1>1, <1>2, <1>3, <1>4 DEF Next

LEMMA LoopbackInvariant ==
    ASSUME ReadsDirectly = FALSE PROVE Spec => []LoopbackInv
<1>1. LoopbackInv /\ [Next]_vars => LoopbackInv'
  BY NextKeepsLoopback
<1> QED BY <1>1, InitLoopback, PTL DEF Spec

(* Every variable of class, driver and host keeps its type; a packet is never
   longer than an endpoint allows, and the indices stay inside the buffer. *)
THEOREM LoopbackTypeCorrect ==
    ASSUME ReadsDirectly = FALSE PROVE Spec => []TestTypeOK
<1>1. LoopbackInv => TestTypeOK
  BY DEF LoopbackInv
<1> QED BY <1>1, LoopbackInvariant, PTL

(* No assertion of TestClass fails, whatever the host writes, reads and resets
   between the steps of poll: every packet it reads was announced, every
   IN-complete event is expected, no write that must succeed blocks
   (test_class.rs:116-227, 318-347). *)
THEOREM NothingIsUnexpected ==
    ASSUME ReadsDirectly = FALSE PROVE Spec => []NothingUnexpected
<1>1. LoopbackInv => NothingUnexpected
  BY DEF LoopbackInv, CycleInv, NothingUnexpected
<1> QED BY <1>1, LoopbackInvariant, PTL

(* When TestClass::poll has returned, expect_out is clear and
   expect_in_complete is set for exactly the packets under way. *)
THEOREM ExpectationsAgree ==
    ASSUME ReadsDirectly = FALSE PROVE Spec => []ExpectationsMatch
<1>1. LoopbackInv => ExpectationsMatch
  BY DEF LoopbackInv, CycleInv, AnnouncedInv, CompletionInv, Busy, NoSnapshot, ExpectationsMatch
<1> QED BY <1>1, LoopbackInvariant, PTL

(* The host reads back what it wrote: never a byte that is wrong or out of
   order, and all of them when the reply ends. *)
THEOREM EchoComesBack ==
    ASSUME ReadsDirectly = FALSE PROVE Spec => []EchoIntact
<1>1. LoopbackInv => EchoIntact
  BY DEF LoopbackInv
<1> QED BY <1>1, LoopbackInvariant, PTL
=============================================================================
