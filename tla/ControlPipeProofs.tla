-------------------------- MODULE ControlPipeProofs --------------------------
(***************************************************************************)
(* Theorems about ControlPipe, for every value of the constants.           *)
(***************************************************************************)
EXTENDS ControlPipe, TLAPS

USE BusAssumption, RequestAssumption, PipeAssumption

-----------------------------------------------------------------------------
(* Lemmas about the operators. *)

(* Least is the minimum of two lengths. *)
LEMMA LeastIsMin ==
    ASSUME NEW a \in Nat, NEW b \in Nat
    PROVE  /\ Least(a, b) \in Nat
           /\ Least(a, b) <= a /\ Least(a, b) <= b
           /\ Least(a, b) = a \/ Least(a, b) = b
BY DEF Least

(* The request before the first SETUP packet is a request. *)
LEMMA NoRequestIsRequest == NoRequest \in Requests
BY DEF NoRequest

(* No packet at all is a value rx and tx can have. *)
LEMMA NoPacketType ==
    /\ NoPacket \in Packet
    /\ <<>> \in Seq(Seq(Byte)) /\ Len(<<>>) = 0
    /\ <<>> \in Seq(Byte)
BY DEF NoPacket, Packet

(* A packet read to the buffer leaves a buffer of bytes. *)
LEMMA BufAfterReadType ==
    ASSUME buf \in [Idx -> Byte], rx \in Packet, NEW at \in Nat
    PROVE  BufAfterRead(at) \in [Idx -> Byte]
<1>1. ASSUME NEW j \in Idx, at <= j PROVE Received(at, j) \in Byte
  <2>1. rx.xfer \in Nat /\ rx.off \in Nat BY DEF Packet
  <2>2. (IF rx.kind = "setup" THEN 0 ELSE rx.off + (j - at) + 1) \in Nat
    BY <1>1, <2>1 DEF Idx
  <2> QED BY <2>1, <2>2 DEF Received, Byte
<1>2. ASSUME NEW j \in Idx PROVE buf[j] \in Byte
  BY <1>2
<1> QED BY <1>1, <1>2 DEF BufAfterRead

(* A chunk that lies inside its buffer is a packet of bytes of its length. *)
LEMMA ChunkType ==
    ASSUME NEW b \in [Idx -> Byte], NEW st \in StaticLens \cup {None},
           NEW from \in Nat, NEW count \in Nat,
           from + count <= IF st = None THEN BufLen ELSE st
    PROVE  /\ Chunk(from, count, st, b) \in Seq(Byte)
           /\ Len(Chunk(from, count, st, b)) = count
<1> DEFINE c == [k \in 1..count |-> IF st = None THEN b[from + k - 1] ELSE <<0, from + k>>]
<1>1. ASSUME NEW k \in 1..count PROVE c[k] \in Byte
  BY <1>1 DEF Byte, Idx
<1>2. c \in [1..count -> Byte] BY <1>1
<1>3. c \in Seq(Byte) BY <1>2
<1>4. Len(c) = count BY <1>2
<1> QED BY <1>3, <1>4 DEF Chunk

(* What is needed of a chunk that write_in_chunk sends: it is a type of its
   own, not longer than a packet, and ends inside the answer. *)
LEMMA ChunkLenBounds ==
    ASSUME NEW from \in Nat, NEW total \in Nat, from <= total
    PROVE  /\ ChunkLen(from, total) \in Nat
           /\ ChunkLen(from, total) <= MPS
           /\ from + ChunkLen(from, total) <= total
<1>1. total - from \in Nat OBVIOUS
<1> QED BY <1>1, LeastIsMin DEF ChunkLen

(* An answer is not longer than what was supplied, nor than what was asked. *)
LEMMA AnswerLenBounds ==
    ASSUME NEW n \in Nat, req \in Requests
    PROVE  AnswerLen(n) \in Nat /\ AnswerLen(n) <= n /\ AnswerLen(n) <= req.length
BY LeastIsMin DEF AnswerLen

-----------------------------------------------------------------------------
(* Type correctness and the bounds of the indices. *)

(* The position in an answer never passes its end, so the length of the next
   chunk is a number. *)
InBounds == state = "DataIn" => i <= len

(* The host sends no more data than it announced. *)
SentInBounds == sent <= hreq.length

TypeInv == TypeOK /\ InBounds /\ SentInBounds

(* write_in_chunk, at a position inside the answer, keeps the types of what it
   changes and the position inside the answer. *)
LEMMA WriteInChunkType ==
    ASSUME TypeOK, NEW from \in Nat, NEW total \in Nat, from <= total,
           NEW st \in StaticLens \cup {None}, NEW b \in [Idx -> Byte],
           WriteInChunk(from, total, st, b)
    PROVE  /\ pc' \in {"poll", "panic"}
           /\ state' \in {"DataIn", "DataInZlp", "DataInLast"}
           /\ i' \in Nat /\ i' <= total
           /\ static_in_buf' \in StaticLens \cup {None}
           /\ tx' \in Seq(Seq(Byte)) /\ Len(tx') <= 1
           /\ tx' # <<>> => Len(Head(tx')) <= MPS
<1> DEFINE count == ChunkLen(from, total)
           size == IF st = None THEN BufLen ELSE st
           packet == Chunk(from, count, st, b)
<1>1. count \in Nat /\ count <= MPS /\ from + count <= total
  BY ChunkLenBounds
<1>2. CASE from + count > size
  BY <1>2 DEF WriteInChunk, TypeOK, BusTypeOK
<1>3. CASE ~(from + count > size)
  <2>1. size \in Nat BY DEF BusAssumption
  <2>2. packet \in Seq(Byte) /\ Len(packet) = count
    BY <1>1, <1>3, <2>1, ChunkType
  <2>3. CASE WriteFails /\ state' = "DataIn" /\ i' = from /\ static_in_buf' = st
             /\ UNCHANGED tx /\ pc' = "poll"
    BY <2>3 DEF TypeOK, BusTypeOK
  <2>4. CASE /\ Write(packet) /\ i' = from + count /\ pc' = "poll"
             /\ static_in_buf' = IF from + count >= total THEN None ELSE st
             /\ state' = IF from + count >= total THEN StateAfterData(count) ELSE "DataIn"
    <3>1. tx' = <<packet>> BY <2>4 DEF Write
    <3>2. tx' \in Seq(Seq(Byte)) /\ Len(tx') = 1 /\ Head(tx') = packet
      BY <2>2, <3>1
    <3> QED BY <1>1, <2>2, <2>4, <3>2 DEF StateAfterData
  <2> QED BY <1>3, <2>3, <2>4 DEF WriteInChunk
<1> QED BY <1>2, <1>3

(* The initial states satisfy the type invariant. *)
LEMMA InitType == Init => TypeInv
<1> SUFFICES ASSUME Init PROVE TypeInv
  OBVIOUS
<1> USE DEF Init, BusInit
<1>1. BusTypeOK
  <2>1. rx \in Packet /\ tx = <<>> /\ tx \in Seq(Seq(Byte)) /\ Len(tx) <= 1
    BY NoPacketType
  <2>2. rcvd \in Seq(Byte)
    BY NoPacketType
  <2>3. x \in 0..MaxSetups /\ hreq \in Requests /\ stage \in Stages /\ sent \in Nat
    BY NoRequestIsRequest DEF Stages
  <2> QED BY <2>1, <2>2, <2>3 DEF BusTypeOK
<1>2. buf \in [Idx -> Byte]
  BY DEF Byte
<1>3. TypeOK
  BY <1>1, <1>2, NoRequestIsRequest DEF TypeOK, ControlStates
<1>4. InBounds /\ SentInBounds
  BY NoRequestIsRequest DEF InBounds, SentInBounds
<1> QED BY <1>3, <1>4 DEF TypeInv

(* The host's moves. *)
LEMMA HostType ==
    ASSUME TypeInv, HostNext, UNCHANGED <<pipeVars, pc, history>>
    PROVE  TypeInv'
<1> USE DEF TypeInv, TypeOK, BusTypeOK, InBounds, SentInBounds, Packet, Stages, pipeVars, history
<1>1. ASSUME NEW r \in Requests, HostSetup(r) PROVE TypeInv'
  <2>1. x' \in 0..MaxSetups BY <1>1 DEF HostSetup
  <2>2. rx' \in Packet BY <1>1 DEF HostSetup
  <2> QED BY <1>1, <2>1, <2>2 DEF HostSetup
<1>2. CASE SendOut
  <2> DEFINE n == Least(MPS, hreq.length - sent)
  <2>1. hreq.length - sent \in Nat
    <3>1. hreq \in Requests /\ sent \in Nat /\ sent <= hreq.length OBVIOUS
    <3>2. hreq.length \in Nat BY ONLY <3>1, RequestAssumption
    <3> QED BY ONLY <3>1, <3>2
  <2>2. n \in Nat /\ n <= hreq.length - sent
    <3> DEFINE left == hreq.length - sent
    <3>1. left \in Nat /\ MPS \in Nat BY <2>1 DEF BusAssumption
    <3> HIDE DEF left
    <3>2. Least(MPS, left) \in Nat /\ Least(MPS, left) <= left
      BY ONLY <3>1, LeastIsMin
    <3> QED BY ONLY <3>2 DEF left
  <2>3. rx' \in Packet /\ sent' \in Nat /\ sent' <= hreq.length
    BY <1>2, <2>2 DEF SendOut
  <2> QED BY <1>2, <2>3 DEF SendOut
<1>3. CASE SendStatus BY <1>3 DEF SendStatus, ZlpFromHost
<1>4. CASE SendStatusEarly BY <1>4 DEF SendStatusEarly, ZlpFromHost
<1>5. CASE TakeIn
  <2>1. Head(tx) \in Seq(Byte) BY <1>5 DEF TakeIn, InReady
  <2>2. rcvd' \in Seq(Byte) BY <1>5, <2>1 DEF TakeIn
  <2>3. tx' = <<>> BY <1>5 DEF TakeIn
  <2> QED BY <1>5, <2>2, <2>3 DEF TakeIn
<1>6. CASE TakeStatus
  <2>1. tx' = <<>> BY <1>6 DEF TakeStatus
  <2> QED BY <1>6, <2>1 DEF TakeStatus
<1>7. CASE HostSeesStall BY <1>7 DEF HostSeesStall, busVars
<1>8. CASE HostReset 
  <2>1. rx' \in Packet /\ tx' = <<>> /\ tx' \in Seq(Seq(Byte)) /\ Len(tx') <= 1
    BY <1>8, NoPacketType DEF HostReset
  <2> QED BY <1>8, <2>1 DEF HostReset
<1> QED BY <1>1, <1>2, <1>3, <1>4, <1>5, <1>6, <1>7, <1>8 DEF HostNext, HostProgress

(* Reading a packet empties the slot, or leaves it. *)
LEMMA SetupType ==
    ASSUME TypeInv, HandleSetup PROVE TypeInv'
<1> USE DEF TypeInv, TypeOK, BusTypeOK, InBounds, SentInBounds, hostVars, history
<1>1. pc' \in {"poll", "in_complete", "control_in", "control_out", "panic"}
  BY DEF HandleSetup, ParsedSetup, StateForData, AfterNoRequest
<1>2. CASE UNCHANGED <<rx, tx, stallIn, stallOut, pipeVars>>
  BY <1>1, <1>2 DEF HandleSetup, PollData, pipeVars
<1>3. CASE /\ rx' = NoPacket /\ buf' = BufAfterRead(0) /\ SetupClears
           /\ IF rx.n = SetupLen
              THEN ParsedSetup
              ELSE /\ pc' = AfterNoRequest
                   /\ UNCHANGED <<i, len, state, req, xr, stallOut>>
           /\ UNCHANGED static_in_buf
  <2>1. rx' \in Packet BY <1>3, NoPacketType
  <2>2. (tx' = <<>> /\ stallIn' = FALSE) \/ UNCHANGED <<tx, stallIn>>
    BY <1>3 DEF SetupClears
  <2>3. tx' \in Seq(Seq(Byte)) /\ Len(tx') <= 1
        /\ (tx' # <<>> => Len(Head(tx')) <= MPS) /\ stallIn' \in BOOLEAN
    <3>1. CASE tx' = <<>> /\ stallIn' = FALSE
      <4>1. tx' \in Seq(Seq(Byte)) /\ Len(tx') = 0 BY <3>1, NoPacketType
      <4>2. Len(tx') <= 1 BY <4>1
      <4>3. tx' # <<>> => Len(Head(tx')) <= MPS BY <3>1, Zenon
      <4>4. stallIn' \in BOOLEAN BY <3>1
      <4> QED BY <4>1, <4>2, <4>3, <4>4
    <3>2. CASE UNCHANGED <<tx, stallIn>> BY <3>2
    <3> QED BY <2>2, <3>1, <3>2
  <2>4. buf' \in [Idx -> Byte] BY <1>3, BufAfterReadType
  <2>5. rx.xfer \in 0..MaxSetups BY DEF Packet
  <2>6. hreq.length \in Nat OBVIOUS
  <2>7. CASE ParsedSetup
    <3>1. stallOut' \in BOOLEAN BY <2>7 DEF ParsedSetup, StateForData, Unstall
    <3>2. CASE UNCHANGED <<i, len, state, req, xr>>
      BY <1>1, <1>3, <2>1, <2>3, <2>4, <3>1, <3>2 DEF HandleSetup, PollData
    <3>3. CASE /\ xr' = rx.xfer /\ req' = hreq /\ i' \in Nat /\ len' \in Nat
               /\ state' \in {"CompleteOut", "DataOut", "CompleteIn"}
      BY <1>1, <1>3, <2>1, <2>3, <2>4, <2>5, <3>1, <3>3
      DEF HandleSetup, PollData, ControlStates
    <3> QED BY <2>6, <2>7, <3>2, <3>3 DEF ParsedSetup, StateForData
  <2>8. CASE UNCHANGED <<i, len, state, req, xr, stallOut>>
    BY <1>1, <1>3, <2>1, <2>3, <2>4, <2>8 DEF HandleSetup, PollData
  <2> QED BY <1>3, <2>7, <2>8
<1> QED BY <1>2, <1>3 DEF HandleSetup

(* handle_out keeps the type invariant: the packet it reads fits the buffer. *)
LEMMA OutType ==
    ASSUME TypeInv, HandleOut PROVE TypeInv'
<1> USE DEF TypeInv, TypeOK, BusTypeOK, InBounds, SentInBounds, hostVars, history
<1>1. AfterNoRequest \in {"poll", "in_complete"} BY DEF AfterNoRequest
<1>2. rx.n \in Nat BY DEF Packet
<1>3. /\ inDone' = FALSE
      /\ UNCHANGED <<tx, busReset, xr, req, len, static_in_buf, hostVars, history>>
  BY DEF HandleOut, PollData
<1>4. SUFFICES
        /\ rx' \in Packet /\ stallIn' \in BOOLEAN /\ stallOut' \in BOOLEAN
        /\ state' \in ControlStates /\ (state' = "DataIn" => i' = i /\ state = "DataIn")
        /\ i' \in Nat /\ buf' \in [Idx -> Byte]
        /\ pc' \in {"poll", "in_complete", "control_out"}
  BY <1>3
<1>5. CASE ReceiveData
  <2>1. CASE SetError /\ pc' = AfterNoRequest /\ UNCHANGED <<rx, i, buf>>
    BY <1>1, <2>1 DEF SetError, ControlStates
  <2>2. CASE /\ rx' = NoPacket /\ buf' = BufAfterRead(i) /\ i' = i + rx.n
             /\ \/ state' = "CompleteOut" /\ pc' = "control_out"
                \/ UNCHANGED state /\ pc' = AfterNoRequest
             /\ state = "DataOut" /\ UNCHANGED <<stallIn, stallOut>>
    <3>1. buf' \in [Idx -> Byte] BY <2>2, BufAfterReadType
    <3> QED BY <1>1, <1>2, <2>2, <3>1, NoPacketType DEF ControlStates
  <2>3. CASE pc' = AfterNoRequest /\ UNCHANGED <<rx, i, buf, state, stallIn, stallOut>>
    BY <1>1, <2>3
  <2> QED BY <1>5, <2>1, <2>2, <2>3 DEF ReceiveData
<1>6. CASE ReceiveStatus
  BY <1>1, <1>6, NoPacketType DEF ReceiveStatus, EmptyRead, ControlStates
<1>7. CASE UnexpectedOut
  BY <1>1, <1>7, NoPacketType DEF UnexpectedOut, EmptyRead, SetError, ControlStates
<1> QED BY <1>5, <1>6, <1>7 DEF HandleOut

(* Reporting an IN-complete event alone changes no data. *)
LEMMA PollInCompleteType ==
    ASSUME TypeInv, PollInComplete PROVE TypeInv'
BY DEF PollInComplete, PollData, TypeInv, TypeOK, BusTypeOK, InBounds, SentInBounds,
   hostVars, pipeVars, history

(* handle_in_complete keeps the type invariant; write_in_chunk only runs
   on in DataIn, where the position is inside the answer. *)
LEMMA InCompleteType ==
    ASSUME TypeInv, HandleInComplete PROVE TypeInv'
<1> USE DEF TypeInv, TypeOK, BusTypeOK, InBounds, SentInBounds, hostVars, history
<1>1. UNCHANGED <<rx, inDone, stallIn, busReset, hostVars, xr, req, len, buf, history>>
  BY DEF HandleInComplete
<1>2. SUFFICES
        /\ tx' \in Seq(Seq(Byte)) /\ Len(tx') <= 1
        /\ tx' # <<>> => Len(Head(tx')) <= MPS
        /\ stallOut' \in BOOLEAN /\ state' \in ControlStates
        /\ i' \in Nat /\ (state' = "DataIn" => i' <= len)
        /\ static_in_buf' \in StaticLens \cup {None}
        /\ pc' \in {"poll", "panic"}
  BY <1>1
<1>3. CASE InCompleteDataIn
  <2>1. state = "DataIn" /\ WriteInChunk(i, len, static_in_buf, buf) /\ UNCHANGED stallOut
    BY <1>3 DEF InCompleteDataIn
  <2> QED BY <2>1, WriteInChunkType DEF ControlStates
<1>4. CASE InCompleteZlp
  <2>1. CASE UNCHANGED <<tx, state>>
    BY <1>4, <2>1 DEF InCompleteZlp
  <2>2. CASE Write(<<>>) /\ state' = "DataInLast"
    <3>1. tx' = << <<>> >> BY <2>2 DEF Write
    <3>2. tx' \in Seq(Seq(Byte)) /\ Len(tx') = 1 /\ Len(Head(tx')) = 0
      BY <3>1, NoPacketType
    <3> QED BY <1>4, <2>2, <3>2 DEF InCompleteZlp, ControlStates
  <2> QED BY <1>4, <2>1, <2>2 DEF InCompleteZlp
<1>5. CASE InCompleteLast BY <1>5 DEF InCompleteLast, ControlStates
<1>6. CASE InCompleteStatus BY <1>6 DEF InCompleteStatus, ControlStates
<1>7. CASE InCompleteIgnored BY <1>7 DEF InCompleteIgnored
<1> QED BY <1>3, <1>4, <1>5, <1>6, <1>7 DEF HandleInComplete

(* A bus reset keeps the type invariant. *)
LEMMA ResetType ==
    ASSUME TypeInv, PollReset PROVE TypeInv'
<1>1. rx' \in Packet /\ tx' = <<>> /\ tx' \in Seq(Seq(Byte)) /\ Len(tx') <= 1
  BY NoPacketType DEF PollReset, ResetBus
<1> QED BY <1>1 DEF PollReset, ResetBus, ControlStates, TypeInv, TypeOK, BusTypeOK,
           InBounds, SentInBounds, hostVars, history

-----------------------------------------------------------------------------
(* The answers. *)

(* accept_out keeps the type invariant. *)
LEMMA AcceptOutType ==
    ASSUME TypeInv, AcceptOut PROVE TypeInv'
<1>1. tx' = << <<>> >> BY DEF AcceptOut, Write
<1>2. tx' \in Seq(Seq(Byte)) /\ Len(tx') = 1 /\ Len(Head(tx')) = 0
  BY <1>1, NoPacketType
<1>3. xr \in 0..MaxSetups BY DEF TypeInv, TypeOK
<1> QED BY <1>2, <1>3 DEF AcceptOut, ControlStates, TypeInv, TypeOK, BusTypeOK,
           InBounds, SentInBounds, hostVars

(* Halting endpoint 0 keeps the type invariant. *)
LEMMA AcceptHaltingType ==
    ASSUME TypeInv, AcceptHalting PROVE TypeInv'
<1>1. stallIn' \in BOOLEAN /\ stallOut' \in BOOLEAN
  BY DEF AcceptHalting, TypeInv, TypeOK, BusTypeOK
<1>2. UNCHANGED <<rx, inDone, busReset, hostVars, xr, req, i, len, buf, static_in_buf, resp>>
      /\ pc' = "poll"
  BY DEF AcceptHalting
<1>3. CASE Write(<<>>) /\ state' = "StatusIn" /\ acked' = xr
  <2>1. tx' = << <<>> >> BY <1>3 DEF Write
  <2>2. tx' \in Seq(Seq(Byte)) /\ Len(tx') = 1 /\ Len(Head(tx')) = 0
    BY <2>1, NoPacketType
  <2>3. xr \in 0..MaxSetups BY DEF TypeInv, TypeOK
  <2> QED BY <1>1, <1>2, <1>3, <2>2, <2>3 DEF ControlStates, TypeInv, TypeOK, BusTypeOK,
             InBounds, SentInBounds, hostVars
<1>4. CASE UNCHANGED <<tx, state, acked>>
  BY <1>1, <1>2, <1>4 DEF TypeInv, TypeOK, BusTypeOK, InBounds, SentInBounds, hostVars
<1> QED BY <1>3, <1>4 DEF AcceptHalting

(* start_in_transfer keeps the type invariant: the answer starts at 0. *)
LEMMA StartInTransferType ==
    ASSUME TypeInv, NEW n \in Nat, NEW src \in 0..MaxSetups,
           NEW st \in StaticLens \cup {None}, NEW b \in [Idx -> Byte],
           StartInTransfer(n, src, st, b)
    PROVE  /\ pc' \in {"poll", "panic"}
           /\ state' \in {"DataIn", "DataInZlp", "DataInLast"}
           /\ len' \in Nat /\ i' \in Nat /\ i' <= len'
           /\ static_in_buf' \in StaticLens \cup {None}
           /\ tx' \in Seq(Seq(Byte)) /\ Len(tx') <= 1
           /\ tx' # <<>> => Len(Head(tx')) <= MPS
           /\ resp' \in [xfer : 0..MaxSetups, src : 0..MaxSetups, len : Nat]
<1>1. TypeOK /\ req \in Requests /\ xr \in 0..MaxSetups BY DEF TypeInv, TypeOK
<1>2. AnswerLen(n) \in Nat BY <1>1, AnswerLenBounds
<1>3. /\ len' = AnswerLen(n) /\ WriteInChunk(0, AnswerLen(n), st, b)
      /\ resp' = [xfer |-> xr, src |-> src, len |-> AnswerLen(n)]
  BY DEF StartInTransfer
<1>4. 0 \in Nat /\ 0 <= AnswerLen(n) BY <1>2
<1>5. /\ pc' \in {"poll", "panic"}
      /\ state' \in {"DataIn", "DataInZlp", "DataInLast"}
      /\ i' \in Nat /\ i' <= AnswerLen(n)
      /\ static_in_buf' \in StaticLens \cup {None}
      /\ tx' \in Seq(Seq(Byte)) /\ Len(tx') <= 1
      /\ tx' # <<>> => Len(Head(tx')) <= MPS
  BY <1>1, <1>2, <1>3, <1>4, WriteInChunkType
<1> QED BY <1>1, <1>2, <1>3, <1>5

(* accept_in keeps the type invariant, whatever length the callback returns. *)
LEMMA AcceptInType ==
    ASSUME TypeInv, NEW n \in BufLens, AcceptIn(n) PROVE TypeInv'
<1> USE DEF TypeInv, TypeOK, BusTypeOK, InBounds, SentInBounds, hostVars
<1>1. n \in Nat /\ xr \in 0..MaxSetups OBVIOUS
<1>2. buf' \in [Idx -> Byte]
  <2>1. ASSUME NEW j \in Idx PROVE <<xr, j + 1>> \in Byte
    <3>1. xr \in Nat /\ j + 1 \in Nat BY <1>1, <2>1 DEF Idx
    <3> QED BY <3>1 DEF Byte
  <2> QED BY <2>1 DEF AcceptIn
<1>3. UNCHANGED <<rx, inDone, busReset, hostVars, xr, req, acked>> BY DEF AcceptIn
<1>4. CASE SetError /\ pc' = "poll" /\ UNCHANGED <<tx, i, len, static_in_buf, resp>>
  BY <1>2, <1>3, <1>4 DEF SetError, ControlStates
<1>5. CASE StartInTransfer(n, xr, static_in_buf, buf') /\ UNCHANGED <<stallIn, stallOut>>
  <2> HIDE DEF TypeInv, TypeOK, BusTypeOK, InBounds, SentInBounds
  <2>1. static_in_buf \in StaticLens \cup {None} BY DEF TypeInv, TypeOK
  <2>2. /\ pc' \in {"poll", "panic"}
        /\ state' \in {"DataIn", "DataInZlp", "DataInLast"}
        /\ len' \in Nat /\ i' \in Nat /\ i' <= len'
        /\ static_in_buf' \in StaticLens \cup {None}
        /\ tx' \in Seq(Seq(Byte)) /\ Len(tx') <= 1
        /\ tx' # <<>> => Len(Head(tx')) <= MPS
        /\ resp' \in [xfer : 0..MaxSetups, src : 0..MaxSetups, len : Nat]
    BY <1>1, <1>2, <1>5, <2>1, StartInTransferType
  <2> QED BY <1>2, <1>3, <1>5, <2>2
      DEF ControlStates, TypeInv, TypeOK, BusTypeOK, InBounds, SentInBounds
<1> QED BY <1>4, <1>5 DEF AcceptIn

(* accept_in_static keeps the type invariant. *)
LEMMA AcceptInStaticType ==
    ASSUME TypeInv, NEW n \in StaticLens, AcceptInStatic(n) PROVE TypeInv'
<1>1. /\ n \in Nat /\ 0 \in 0..MaxSetups /\ n \in StaticLens \cup {None}
      /\ buf \in [Idx -> Byte]
  BY DEF TypeInv, TypeOK
<1>2. /\ StartInTransfer(n, 0, n, buf)
      /\ UNCHANGED <<rx, inDone, stallIn, stallOut, busReset, hostVars, xr, req, buf, acked>>
  BY DEF AcceptInStatic
<1>3. /\ pc' \in {"poll", "panic"}
      /\ state' \in {"DataIn", "DataInZlp", "DataInLast"}
      /\ len' \in Nat /\ i' \in Nat /\ i' <= len'
      /\ static_in_buf' \in StaticLens \cup {None}
      /\ tx' \in Seq(Seq(Byte)) /\ Len(tx') <= 1
      /\ tx' # <<>> => Len(Head(tx')) <= MPS
      /\ resp' \in [xfer : 0..MaxSetups, src : 0..MaxSetups, len : Nat]
  BY <1>1, <1>2, StartInTransferType
<1> QED BY <1>2, <1>3
    DEF hostVars, ControlStates, TypeInv, TypeOK, BusTypeOK, InBounds, SentInBounds

(* reject keeps the type invariant. *)
LEMMA RejectType ==
    ASSUME TypeInv, Reject \/ Abandon PROVE TypeInv'
<1> USE DEF TypeInv, TypeOK, BusTypeOK, InBounds, SentInBounds, hostVars, history
<1>1. CASE Reject BY <1>1 DEF Reject, SetError, ControlStates
<1>2. CASE Abandon BY <1>2 DEF Abandon, busVars, pipeVars
<1> QED BY <1>1, <1>2

(* Every answer keeps the type invariant. *)
LEMMA AnswerType ==
    ASSUME TypeInv, Answer PROVE TypeInv'
BY AcceptOutType, AcceptHaltingType, AcceptInType, AcceptInStaticType, RejectType DEF Answer

(* Every step keeps the invariant. *)
LEMMA StepType == TypeInv /\ [Next]_vars => TypeInv'
<1> SUFFICES ASSUME TypeInv, [Next]_vars PROVE TypeInv'
  OBVIOUS
<1>1. CASE HostNext /\ UNCHANGED <<pipeVars, pc, history>> BY <1>1, HostType
<1>2. CASE Poll
  BY <1>2, SetupType, OutType, PollInCompleteType, InCompleteType, ResetType DEF Poll
<1>3. CASE Answer BY <1>3, AnswerType
<1>4. CASE UNCHANGED vars
  BY <1>4 DEF vars, busVars, hostVars, pipeVars, history, TypeInv, TypeOK, BusTypeOK,
     InBounds, SentInBounds
<1> QED BY <1>1, <1>2, <1>3, <1>4 DEF Next

(* Whatever the host, the driver and the classes do, the fields of the pipe and
   the packets keep their types: no packet is longer than max_packet_size, the
   length of the next chunk never wraps below zero. *)
THEOREM TypeCorrect == Spec => []TypeOK
<1>1. Init => TypeInv BY InitType
<1>2. TypeInv /\ [Next]_vars => TypeInv' BY StepType
<1>3. TypeInv => TypeOK BY DEF TypeInv
<1> QED BY <1>1, <1>2, <1>3, PTL DEF Spec

-----------------------------------------------------------------------------
(* The indices of the control buffer. *)

(* The length of what an answer is read from. *)
SourceLen(st) == IF st = None THEN BufLen ELSE st

(* What makes IndicesInRange inductive, as long as a static buffer is only set
   while it is sent: the end of an answer lies in its source too, until its last
   packet is written. *)
RangeInv ==
    /\ IndicesInRange
    /\ static_in_buf # None => state = "DataIn"
    /\ state = "DataIn" => len <= SourceLen(static_in_buf)

(* write_in_chunk does not panic when the answer lies in its source, and keeps
   the source as long as there is more to send. *)
LEMMA ChunkInRange ==
    ASSUME TypeOK, NEW from \in Nat, NEW total \in Nat, from <= total,
           NEW st \in StaticLens \cup {None}, total <= SourceLen(st),
           NEW b \in [Idx -> Byte], WriteInChunk(from, total, st, b)
    PROVE  /\ pc' = "poll"
           /\ state' \in {"DataIn", "DataInZlp", "DataInLast"}
           /\ state' = "DataIn" => static_in_buf' = st
<1>1. from + ChunkLen(from, total) <= total /\ ChunkLen(from, total) \in Nat
  BY ChunkLenBounds
<1>2. SourceLen(st) \in Nat BY DEF SourceLen
<1>3. ~(from + ChunkLen(from, total) > SourceLen(st)) BY <1>1, <1>2
<1> QED BY <1>3 DEF WriteInChunk, StateAfterData, SourceLen

(* Every step keeps the slices in range. *)
LEMMA StepInRange ==
    ASSUME TypeInv, TypeInv', RangeInv, [Next]_vars, static_in_buf' # None => state' = "DataIn"
    PROVE  RangeInv'
<1> USE DEF RangeInv, IndicesInRange
<1>1. i \in Nat /\ len \in Nat /\ rx.n \in Nat BY DEF TypeInv, TypeOK, BusTypeOK, Packet
<1>2. static_in_buf \in StaticLens \cup {None} BY DEF TypeInv, TypeOK
<1>3. CASE HostNext /\ UNCHANGED <<pipeVars, pc, history>>
  BY <1>3 DEF pipeVars
<1>4. CASE HandleSetup
  <2>1. UNCHANGED static_in_buf BY <1>4 DEF HandleSetup, pipeVars
  <2>2. CASE pc' = AfterNoRequest /\ UNCHANGED <<i, len, state>>
    BY <2>1, <2>2 DEF AfterNoRequest
  <2>3. CASE ParsedSetup
    <3>1. hreq.length \in Nat BY DEF TypeInv, TypeOK, BusTypeOK
    <3> QED BY <2>1, <2>3, <3>1 DEF ParsedSetup, StateForData, DataStageFits, AfterNoRequest
  <2> QED BY <1>4, <2>2, <2>3 DEF HandleSetup, pipeVars
<1>5. CASE HandleOut
  <2>1. CASE ReceiveData
    BY <1>1, <1>5, <2>1
    DEF HandleOut, ReceiveData, DataStageComplete, AfterNoRequest, SetError
  <2>2. CASE ReceiveStatus
    BY <1>5, <2>2 DEF HandleOut, ReceiveStatus, EmptyRead, AfterNoRequest
  <2>3. CASE UnexpectedOut
    BY <1>5, <2>3 DEF HandleOut, UnexpectedOut, EmptyRead, SetError, AfterNoRequest
  <2> QED BY <1>5, <2>1, <2>2, <2>3 DEF HandleOut
<1>6. CASE PollInComplete BY <1>6 DEF PollInComplete, pipeVars
<1>7. CASE HandleInComplete
  <2>1. CASE InCompleteDataIn
    <3>1. /\ state = "DataIn" /\ WriteInChunk(i, len, static_in_buf, buf) /\ len' = len
          /\ TypeOK /\ i <= len /\ len <= SourceLen(static_in_buf) /\ buf \in [Idx -> Byte]
      BY <1>7, <2>1 DEF InCompleteDataIn, HandleInComplete, TypeInv, TypeOK, InBounds
    <3>2. /\ pc' = "poll" /\ state' \in {"DataIn", "DataInZlp", "DataInLast"}
          /\ state' = "DataIn" => static_in_buf' = static_in_buf
      BY ONLY <1>1, <1>2, <3>1, ChunkInRange
    <3> QED BY <3>1, <3>2
  <2>2. CASE InCompleteZlp \/ InCompleteLast \/ InCompleteStatus \/ InCompleteIgnored
    BY <1>7, <2>2
    DEF HandleInComplete, InCompleteZlp, InCompleteLast, InCompleteStatus, InCompleteIgnored
  <2> QED BY <1>7, <2>1, <2>2 DEF HandleInComplete
<1>8. CASE PollReset BY <1>8 DEF PollReset
<1>9. ASSUME NEW n \in Nat, NEW src, NEW st \in StaticLens \cup {None}, n <= SourceLen(st),
             NEW b \in [Idx -> Byte], StartInTransfer(n, src, st, b)
      PROVE  RangeInv'
  <2>1. TypeOK /\ req \in Requests BY DEF TypeInv, TypeOK
  <2>2. AnswerLen(n) \in Nat /\ AnswerLen(n) <= n BY <2>1, AnswerLenBounds
  <2>3. SourceLen(st) \in Nat BY DEF SourceLen
  <2>4. AnswerLen(n) <= SourceLen(st) /\ 0 \in Nat /\ 0 <= AnswerLen(n)
    BY <1>9, <2>2, <2>3
  <2>5. WriteInChunk(0, AnswerLen(n), st, b) /\ len' = AnswerLen(n)
    BY <1>9 DEF StartInTransfer
  <2>6. /\ pc' = "poll" /\ state' \in {"DataIn", "DataInZlp", "DataInLast"}
        /\ state' = "DataIn" => static_in_buf' = st
    BY ONLY <1>9, <2>1, <2>2, <2>4, <2>5, ChunkInRange
  <2> QED BY <2>4, <2>5, <2>6
<1>10. ASSUME NEW n \in BufLens, AcceptIn(n) PROVE RangeInv'
  <2>1. CASE SetError /\ pc' = "poll" BY <2>1 DEF SetError
  <2>2. CASE n <= BufLen /\ StartInTransfer(n, xr, static_in_buf, buf')
    <3>1. buf' \in [Idx -> Byte] /\ n \in Nat BY DEF TypeInv, TypeOK
    <3>2. static_in_buf = None BY <1>10 DEF AcceptIn
    <3> QED BY <1>2, <1>9, <2>2, <3>1, <3>2 DEF SourceLen
  <2>3. n \in Nat OBVIOUS
  <2> QED BY <1>10, <2>1, <2>2, <2>3 DEF AcceptIn
<1>11. ASSUME NEW n \in StaticLens, AcceptInStatic(n) PROVE RangeInv'
  <2>1. n \in Nat /\ n # None /\ buf \in [Idx -> Byte] BY DEF TypeInv, TypeOK
  <2>2. StartInTransfer(n, 0, n, buf) BY <1>11 DEF AcceptInStatic
  <2> QED BY <1>9, <2>1, <2>2 DEF SourceLen
<1>12. CASE AcceptOut \/ AcceptHalting BY <1>12 DEF AcceptOut, AcceptHalting
<1>13. CASE Reject BY <1>13 DEF Reject, SetError
<1>14. CASE Abandon BY <1>14 DEF Abandon, pipeVars
<1>15. CASE UNCHANGED vars BY <1>15 DEF vars, pipeVars
<1> QED BY <1>3, <1>4, <1>5, <1>6, <1>7, <1>8, <1>10, <1>11, <1>12, <1>13, <1>14, <1>15
        DEF Next, Poll, Answer

(* As long as no class answers from a static buffer, the slices of the control
   buffer lie inside it, whatever the host and the driver do: write_in_chunk
   and data() never panic. *)
THEOREM SlicesInRange ==
    ASSUME StaticLens = {} PROVE Spec => []IndicesInRange
<1>1. Init => TypeInv /\ RangeInv
  BY InitType DEF Init, RangeInv, IndicesInRange
<1>2. TypeInv /\ RangeInv /\ [Next]_vars => TypeInv' /\ RangeInv'
  <2> SUFFICES ASSUME TypeInv, RangeInv, [Next]_vars PROVE TypeInv' /\ RangeInv'
    OBVIOUS
  <2>1. TypeInv' BY StepType
  <2>2. static_in_buf' = None BY <2>1 DEF TypeInv, TypeOK
  <2> QED BY <2>1, <2>2, StepInRange
<1>3. RangeInv => IndicesInRange BY DEF RangeInv
<1> QED BY <1>1, <1>2, <1>3, PTL DEF Spec

-----------------------------------------------------------------------------
(* The data of OUT requests. *)

(* The driver reports no errors, and no request announces a data stage that
   the control buffer cannot hold. *)
DataStagesFit ==
    /\ BusErrors = FALSE
    /\ \A r \in Requests : r.dir = "Out" => r.length <= BufLen

(* Nothing that the host sent waits for poll and makes the request stale. *)
Current == rx.kind # "setup" /\ ~busReset

(* The waiting packet belongs to the transfer the host runs. *)
PacketInv ==
    /\ rx.kind = "setup" => rx.xfer = x /\ rx.n = SetupLen /\ sent = 0
    /\ rx.kind = "out" => rx.xfer = x /\ (hreq.dir = "Out" => rx.off + rx.n = sent)

(* In a data stage that the host did not give up, the pipe has all that was
   sent except the waiting packet. *)
DataStageInv ==
    state = "DataOut" /\ Current =>
        /\ xr = x /\ req = hreq /\ hreq.dir = "Out" /\ len = hreq.length
        /\ i + (IF rx.kind = "out" THEN rx.n ELSE 0) = sent

(* The buffer holds the bytes of the request received so far, given up or not. *)
BufferInv ==
    state = "DataOut" => i <= BufLen /\ \A j \in 0..i - 1 : buf[j] = <<xr, j + 1>>

(* A request waits for its answer only if the host still runs it. *)
DispatchInv ==
    /\ pc \in {"control_in", "control_out"} /\ Current => xr = x
    /\ pc = "control_out" => state # "DataOut"

IntactInv == PacketInv /\ DataStageInv /\ BufferInv /\ DispatchInv /\ OutDataIntact

(* The packet read in a data stage continues the data that is in the buffer. *)
LEMMA ReceivedInOrder ==
    ASSUME TypeInv, IntactInv, state = "DataOut", rx.kind = "out", ~busReset,
           rx.n <= BufLen - i
    PROVE  /\ i + rx.n = sent /\ i + rx.n <= len
           /\ \A j \in 0..i + rx.n - 1 : BufAfterRead(i)[j] = <<xr, j + 1>>
<1>1. /\ i \in Nat /\ rx.n \in Nat /\ rx.off \in Nat /\ len \in Nat /\ sent \in Nat
      /\ BufLen \in Nat /\ sent <= hreq.length
  BY DEF TypeInv, TypeOK, BusTypeOK, Packet, SentInBounds
<1>2. xr = x /\ hreq.dir = "Out" /\ len = hreq.length /\ i + rx.n = sent
  BY DEF IntactInv, DataStageInv, Current
<1>3. rx.xfer = xr /\ rx.off = i
  BY <1>1, <1>2 DEF IntactInv, PacketInv
<1>4. ASSUME NEW j \in 0..i + rx.n - 1 PROVE BufAfterRead(i)[j] = <<xr, j + 1>>
  <2>1. j \in Idx BY <1>1, <1>4 DEF Idx
  <2>2. CASE i <= j
    <3>1. BufAfterRead(i)[j] = Received(i, j) BY <1>1, <1>4, <2>1, <2>2 DEF BufAfterRead
    <3>2. rx.off + (j - i) + 1 = j + 1 BY <1>1, <1>3, <1>4
    <3> QED BY <1>3, <3>1, <3>2 DEF Received
  <2>3. CASE j < i
    <3>1. BufAfterRead(i)[j] = buf[j] BY <1>1, <1>4, <2>1, <2>3 DEF BufAfterRead
    <3>2. j \in 0..i - 1 BY <1>1, <1>4, <2>3
    <3> QED BY <3>1, <3>2 DEF IntactInv, BufferInv
  <2> QED BY <1>1, <1>4, <2>2, <2>3
<1> QED BY <1>1, <1>2, <1>4

(* The host's moves keep the data of the running data stage in order: a
   packet of another transfer is only ever a SETUP packet. *)
LEMMA HostIntact ==
    ASSUME TypeInv, IntactInv, DataStagesFit, HostNext, UNCHANGED <<pipeVars, pc, history>>
    PROVE  IntactInv'
<1> USE DEF IntactInv, PacketInv, DataStageInv, BufferInv, DispatchInv, OutDataIntact, Current
<1>1. BufferInv' /\ OutDataIntact' /\ (pc = "control_out" => state # "DataOut")'
  BY DEF pipeVars
<1>2. /\ i \in Nat /\ sent \in Nat /\ hreq.length \in Nat /\ hreq.dir \in {"In", "Out"}
      /\ sent <= hreq.length
  BY DEF TypeInv, TypeOK, BusTypeOK, SentInBounds
<1>3. ASSUME NEW r \in Requests, HostSetup(r) PROVE IntactInv'
  <2>1. rx' = [kind |-> "setup", xfer |-> x + 1, off |-> 0, n |-> SetupLen]
    BY <1>3 DEF HostSetup, DataStagesFit
  <2> QED BY <1>1, <1>3, <2>1 DEF HostSetup
<1>4. CASE SendOut
  <2> DEFINE n == Least(MPS, hreq.length - sent)
  <2>1. n \in Nat
    <3> DEFINE left == hreq.length - sent
    <3>1. left \in Nat /\ MPS \in Nat BY ONLY <1>2, BusAssumption
    <3> HIDE DEF left
    <3>2. Least(MPS, left) \in Nat BY ONLY <3>1, LeastIsMin
    <3> QED BY ONLY <3>2 DEF left
  <2>2. rx' = [kind |-> "out", xfer |-> x, off |-> sent, n |-> n] /\ sent' = sent + n
        /\ rx.kind = "none" /\ UNCHANGED <<busReset, x, hreq>>
    BY <1>4 DEF SendOut, OutReady
  <2> QED BY <1>1, <1>2, <2>1, <2>2 DEF pipeVars
<1>5. CASE SendStatus \/ SendStatusEarly
  <2>1. /\ rx' = ZlpFromHost /\ rx.kind = "none" /\ hreq.dir = "In"
        /\ UNCHANGED <<busReset, x, hreq, sent>>
    BY <1>5, <1>2 DEF SendStatus, SendStatusEarly, OutReady, StatusDir
  <2> QED BY <1>1, <1>2, <2>1 DEF pipeVars, ZlpFromHost
<1>6. CASE TakeIn \/ TakeStatus \/ HostSeesStall
  BY <1>1, <1>6 DEF TakeIn, TakeStatus, HostSeesStall, busVars, pipeVars
<1>7. CASE HostReset BY <1>1, <1>7 DEF HostReset, NoPacket
<1> QED BY <1>3, <1>4, <1>5, <1>6, <1>7 DEF HostNext, HostProgress

(* handle_setup keeps the invariant: a new data stage starts at 0. *)
LEMMA SetupIntact ==
    ASSUME TypeInv, IntactInv, DataStagesFit, HandleSetup PROVE IntactInv'
<1> USE DEF IntactInv, PacketInv, DataStageInv, BufferInv, DispatchInv, OutDataIntact, Current
<1>1. /\ rx.kind = "setup" /\ rx.xfer = x /\ rx.n = SetupLen /\ sent = 0 /\ ~busReset
      /\ rx' = NoPacket /\ ParsedSetup
      /\ UNCHANGED <<busReset, hostVars>>
  BY DEF HandleSetup, PollData, DataStagesFit
<1>2. hreq \in Requests /\ hreq.length \in Nat /\ hreq.dir \in {"In", "Out"}
  BY DEF TypeInv, TypeOK, BusTypeOK
<1>3. hreq.dir = "Out" => hreq.length <= BufLen BY <1>2 DEF DataStagesFit
<1>4. CASE hreq.dir = "In" BY <1>1, <1>4 DEF ParsedSetup, StateForData, NoPacket, hostVars
<1>5. CASE hreq.dir = "Out" /\ hreq.length = 0
  BY <1>1, <1>5 DEF ParsedSetup, StateForData, NoPacket, hostVars
<1>6. CASE hreq.dir = "Out" /\ hreq.length # 0
  <2>1. /\ i' = 0 /\ len' = hreq.length /\ state' = "DataOut" /\ req' = hreq /\ xr' = x
        /\ pc' \in {"poll", "in_complete"}
    BY <1>1, <1>3, <1>6 DEF ParsedSetup, StateForData, DataStageFits, AfterNoRequest
  <2> QED BY <1>1, <1>6, <2>1 DEF NoPacket, hostVars
<1> QED BY <1>2, <1>4, <1>5, <1>6

(* handle_out keeps the invariant: the packet continues the data, and the
   request is dispatched with the last one. *)
LEMMA OutIntact ==
    ASSUME TypeInv, IntactInv, DataStagesFit, HandleOut PROVE IntactInv'
<1> USE DEF IntactInv, PacketInv, DataStageInv, BufferInv, DispatchInv, OutDataIntact, Current
<1>1. /\ rx.kind = "out" /\ ~busReset /\ pc = "poll"
      /\ UNCHANGED <<busReset, xr, req, len, hostVars>>
  BY DEF HandleOut, PollData
<1>2. AfterNoRequest \in {"poll", "in_complete"} BY DEF AfterNoRequest
<1>3. i \in Nat /\ rx.n \in Nat /\ len \in Nat /\ sent \in Nat
  BY DEF TypeInv, TypeOK, BusTypeOK, Packet
<1>4. CASE ReceiveData
  <2>1. CASE SetError /\ pc' = AfterNoRequest /\ UNCHANGED <<rx, i, buf>>
    BY <1>1, <1>2, <2>1 DEF SetError, hostVars
  <2>2. CASE /\ state = "DataOut" /\ rx.n <= BufLen - i
             /\ rx' = NoPacket /\ buf' = BufAfterRead(i) /\ i' = i + rx.n
             /\ IF DataStageComplete(i + rx.n)
                THEN state' = "CompleteOut" /\ pc' = "control_out"
                ELSE UNCHANGED state /\ pc' = AfterNoRequest
    <3>1. /\ i + rx.n = sent /\ i + rx.n <= len
          /\ \A j \in 0..i + rx.n - 1 : buf'[j] = <<xr, j + 1>>
      BY <1>1, <2>2, ReceivedInOrder
    <3>2. xr = x /\ req = hreq /\ hreq.dir = "Out" /\ len = hreq.length
      BY <1>1, <2>2
    <3>3. CASE i + rx.n >= len
      <4>1. i + rx.n = len BY <1>3, <3>1, <3>3
      <4>2. state' = "CompleteOut" /\ pc' = "control_out"
        BY <2>2, <3>3 DEF DataStageComplete
      <4>3. len' = len /\ xr' = xr /\ req' = req BY <1>1
      <4>4. \A j \in 0..len - 1 : buf'[j] = <<xr, j + 1>> BY <1>3, <3>1, <4>1
      <4>5. OutDataIntact' BY <3>2, <4>3, <4>4
      <4> QED BY <1>1, <2>2, <3>2, <4>2, <4>3, <4>5 DEF NoPacket, hostVars
    <3>4. CASE ~(i + rx.n >= len)
      <4>1. state' = "DataOut" /\ pc' \in {"poll", "in_complete"}
        BY <1>2, <2>2, <3>4 DEF DataStageComplete
      <4>2. i' <= BufLen BY <1>3, <2>2, BusAssumption
      <4> QED BY <1>1, <1>3, <2>2, <3>1, <3>2, <4>1, <4>2 DEF NoPacket, hostVars
    <3> QED BY <3>3, <3>4
  <2> QED BY <1>4, <2>1, <2>2 DEF ReceiveData, DataStagesFit
<1>5. CASE ReceiveStatus \/ UnexpectedOut
  <2>1. /\ state # "DataOut" /\ state' # "DataOut" /\ pc' = AfterNoRequest
        /\ rx' = rx \/ rx' = NoPacket
    BY <1>5 DEF ReceiveStatus, UnexpectedOut, EmptyRead, SetError
  <2> QED BY <1>1, <1>2, <2>1 DEF NoPacket, hostVars
<1> QED BY <1>4, <1>5 DEF HandleOut

(* The other steps of poll neither touch the buffer nor start a request. *)
LEMMA PollIntact ==
    ASSUME TypeInv, IntactInv, PollInComplete \/ HandleInComplete \/ PollReset
    PROVE  IntactInv'
<1> USE DEF IntactInv, PacketInv, DataStageInv, BufferInv, DispatchInv, OutDataIntact, Current
<1>1. CASE PollInComplete BY <1>1 DEF PollInComplete, PollData, hostVars, pipeVars
<1>2. CASE HandleInComplete
  <2>1. /\ UNCHANGED <<rx, busReset, hostVars, xr, req, len, buf>>
        /\ pc' \in {"poll", "panic"}
        /\ state' # state => state # "DataOut" /\ state' # "DataOut"
        /\ state = "DataOut" => i' = i
    BY <1>2 DEF HandleInComplete, InCompleteDataIn, InCompleteZlp, InCompleteLast,
       InCompleteStatus, InCompleteIgnored, WriteInChunk, StateAfterData
  <2> QED BY <2>1 DEF hostVars
<1>3. CASE PollReset BY <1>3 DEF PollReset, ResetBus, NoPacket, hostVars
<1> QED BY <1>1, <1>2, <1>3

(* The answers leave no request dispatched, and no data stage running. *)
LEMMA AnswerIntact ==
    ASSUME TypeInv, IntactInv, Answer PROVE IntactInv'
<1> USE DEF IntactInv, PacketInv, DataStageInv, BufferInv, DispatchInv, OutDataIntact, Current
<1>1. CASE Abandon BY <1>1 DEF Abandon, busVars, hostVars, pipeVars
<1>2. CASE Answer /\ ~Abandon
  <2>1. /\ UNCHANGED <<rx, busReset, hostVars>>
        /\ pc' \in {"poll", "panic"} /\ state' # "DataOut"
    BY <1>2 DEF Answer, AcceptIn, AcceptInStatic, AcceptOut, AcceptHalting, Reject, SetError,
       StartInTransfer, WriteInChunk, StateAfterData
  <2> QED BY <2>1 DEF hostVars
<1> QED BY <1>1, <1>2

(* If the driver works and the data stages fit the buffer, a request is always
   dispatched with all of its own data and nothing else, and no request is
   dispatched that the host gave up in a step poll has seen, although the host
   may give up any transfer at any moment. *)
THEOREM OutDataArrives ==
    ASSUME DataStagesFit PROVE Spec => [](OutDataIntact /\ NoStaleDispatch)
<1>1. Init => TypeInv /\ IntactInv
  BY InitType DEF Init, BusInit, NoPacket, IntactInv, PacketInv, DataStageInv, BufferInv,
     DispatchInv, OutDataIntact
<1>2. TypeInv /\ IntactInv /\ [Next]_vars => TypeInv' /\ IntactInv'
  <2> SUFFICES ASSUME TypeInv, IntactInv, [Next]_vars PROVE TypeInv' /\ IntactInv'
    OBVIOUS
  <2>1. TypeInv' BY StepType
  <2>2. CASE HostNext /\ UNCHANGED <<pipeVars, pc, history>> BY <2>1, <2>2, HostIntact
  <2>3. CASE Poll BY <2>1, <2>3, SetupIntact, OutIntact, PollIntact DEF Poll
  <2>4. CASE Answer BY <2>1, <2>4, AnswerIntact
  <2>5. CASE UNCHANGED vars
    BY <2>1, <2>5 DEF vars, busVars, hostVars, pipeVars, IntactInv, PacketInv, DataStageInv,
       BufferInv, DispatchInv, OutDataIntact, Current
  <2> QED BY <2>2, <2>3, <2>4, <2>5 DEF Next
<1>3. IntactInv => OutDataIntact /\ NoStaleDispatch
  BY DEF IntactInv, DispatchInv, PacketInv, Current, NoStaleDispatch
<1> QED BY <1>1, <1>2, <1>3, PTL DEF Spec

=============================================================================
