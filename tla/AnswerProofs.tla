---------------------------- MODULE AnswerProofs ----------------------------
(***************************************************************************)
(* The answers of ControlPipe, for every value of the constants: every     *)
(* request is answered in the call of poll that found it, and the host     *)
(* receives the answer byte by byte.                                       *)
(***************************************************************************)
EXTENDS TransferProofs

USE BusAssumption, RequestAssumption, PipeAssumption

-----------------------------------------------------------------------------
(* Every request is answered. *)

(* A class is asked about the request that waits for its answer. *)
AskingInv ==
    /\ pc = "control_in" => state = "CompleteIn"
    /\ pc = "control_out" => state = "CompleteOut"

(* A request waits for its answer only where poll asks for it. *)
PlaceInv == AskingInv /\ (pc \in {"poll", "in_complete"} => ~WaitingForResponse)

(* Every step leaves the request that is asked about alone. *)
LEMMA StepAsking ==
    ASSUME AskingInv, [Next]_vars PROVE AskingInv'
<1> USE DEF AskingInv
<1>1. CASE HostNext /\ UNCHANGED <<pipeVars, pc, history>>
  BY <1>1 DEF pipeVars
<1>2. CASE HandleSetup
  <2>1. CASE pc' = AfterNoRequest BY <2>1 DEF AfterNoRequest
  <2>2. CASE ParsedSetup BY <2>2 DEF ParsedSetup, StateForData, AfterNoRequest
  <2> QED BY <1>2, <2>1, <2>2 DEF HandleSetup
<1>3. CASE HandleOut
  BY <1>3 DEF HandleOut, ReceiveData, ReceiveStatus, UnexpectedOut, EmptyRead, SetError,
     AfterNoRequest
<1>4. CASE PollInComplete BY <1>4 DEF PollInComplete
<1>5. CASE HandleInComplete
  BY <1>5 DEF HandleInComplete, InCompleteDataIn, InCompleteZlp, InCompleteLast,
     InCompleteStatus, InCompleteIgnored, WriteInChunk
<1>6. CASE PollReset BY <1>6 DEF PollReset
<1>7. CASE Answer
  BY <1>7 DEF Answer, AcceptIn, AcceptInStatic, AcceptOut, AcceptHalting, Reject, Abandon,
     StartInTransfer, WriteInChunk
<1>8. CASE UNCHANGED vars BY <1>8 DEF vars, pipeVars
<1> QED BY <1>1, <1>2, <1>3, <1>4, <1>5, <1>6, <1>7, <1>8 DEF Next, Poll

(* accept_out cannot fail, for nothing is waiting to be sent. *)
LEMMA AcceptOutSucceeds ==
    ASSUME GoodDriver, PipeInv, AskingInv, Abandon PROVE pc = "control_in" /\ AcceptMayFail
<1> SUFFICES ASSUME pc = "control_out", WriteFails PROVE FALSE
  BY DEF Abandon
<1>1. tx # <<>> BY DEF WriteFails, GoodDriver, DataStagesFit
<1>2. tx = <<>> BY AskedUnanswered DEF AskingInv, WaitingForResponse
<1> QED BY <1>1, <1>2

(* If no answer is left without a final reject, which is what AcceptMayFail
   stands for, every step keeps requests where they are asked about. *)
LEMMA StepPlace ==
    ASSUME GoodDriver, AcceptMayFail = FALSE, PipeInv, PlaceInv, [Next]_vars
    PROVE  PlaceInv'
<1>0. AskingInv' BY StepAsking DEF PlaceInv
<1> SUFFICES ASSUME pc' \in {"poll", "in_complete"} PROVE ~WaitingForResponse'
  BY <1>0 DEF PlaceInv
<1> USE DEF PlaceInv, WaitingForResponse
<1>1. CASE HostNext /\ UNCHANGED <<pipeVars, pc, history>>
  BY <1>1 DEF pipeVars
<1>2. CASE HandleSetup
  <2>1. CASE pc' = AfterNoRequest /\ UNCHANGED state
    BY <1>2, <2>1 DEF AfterNoRequest, HandleSetup
  <2>2. CASE ParsedSetup
    BY <1>2, <2>2 DEF ParsedSetup, StateForData, AfterNoRequest, HandleSetup
  <2> QED BY <1>2, <2>1, <2>2 DEF HandleSetup, pipeVars
<1>3. CASE HandleOut
  BY <1>3 DEF HandleOut, ReceiveData, ReceiveStatus, UnexpectedOut, EmptyRead, SetError,
     AfterNoRequest
<1>4. CASE PollInComplete BY <1>4 DEF PollInComplete, pipeVars
<1>5. CASE HandleInComplete
  BY <1>5 DEF HandleInComplete, InCompleteDataIn, InCompleteZlp, InCompleteLast,
     InCompleteStatus, InCompleteIgnored, WriteInChunk, StateAfterData
<1>6. CASE PollReset BY <1>6 DEF PollReset
<1>7. CASE Answer
  <2>1. ~Abandon /\ ~AcceptHalting BY AcceptOutSucceeds DEF AcceptHalting, GoodDriver
  <2> QED BY <1>7, <2>1 DEF Answer, AcceptIn, AcceptInStatic, AcceptOut, Reject, SetError,
       StartInTransfer, WriteInChunk, StateAfterData
<1>8. CASE UNCHANGED vars BY <1>8 DEF vars, pipeVars
<1> QED BY <1>1, <1>2, <1>3, <1>4, <1>5, <1>6, <1>7, <1>8 DEF Next, Poll

(* When poll returns, no class was left without an answer: accept_out does not
   fail, since nothing is waiting to be sent when a class is asked. *)
THEOREM EveryRequestAnswered ==
    ASSUME GoodDriver, AcceptMayFail = FALSE PROVE Spec => []NoRequestLeftWaiting
<1>1. Init => PipeInv /\ PlaceInv
  BY InitEnd DEF Init, PlaceInv, AskingInv, WaitingForResponse
<1>2. PipeInv /\ PlaceInv /\ [Next]_vars => PipeInv' /\ PlaceInv'
  BY StepEnd, StepPlace
<1>3. PlaceInv => NoRequestLeftWaiting BY DEF PlaceInv, NoRequestLeftWaiting
<1> QED BY <1>1, <1>2, <1>3, PTL DEF Spec

-----------------------------------------------------------------------------
(* The host receives the answer, if no class answers from a static buffer or
   no transfer ends before its time. *)

(* A request that is not answered yet is the host's, or its transfer ended with
   a bus reset that poll will see. *)
HeldInv ==
    state \in {"DataOut", "CompleteOut", "CompleteIn"} =>
        \/ xr = x /\ stage # "idle" /\ ~busReset
        \/ HostMayInterrupt /\ busReset

(* No transfer is given up, and none is interrupted. *)
NothingCut == HostMayAbort = FALSE /\ HostMayInterrupt = FALSE

(* A static buffer is not left behind by a transfer that was cut off. *)
Undisturbed == StaticLens = {} \/ (NothingCut /\ HeldInv)

(* The pipe and the host are with the same transfer. *)
Running == xr = x /\ stage # "idle" /\ hreq.dir = "In"

(* While an answer is sent its source holds all of it. *)
SourceInv ==
    state = "DataIn" =>
        IF static_in_buf = None
        THEN resp.src = xr /\ \A j \in 0..len - 1 : buf[j] = <<xr, j + 1>>
        ELSE resp.src = 0

(* What the host has is the beginning of the answer. *)
ReceivedInv ==
    Running /\ state \in InAnswer \cup {"Idle"} =>
        /\ resp.xfer = x
        /\ Len(rcvd) <= resp.len
        /\ \A k \in 1..Len(rcvd) : rcvd[k] = <<resp.src, k>>
        /\ stage = "status" => Len(rcvd) = resp.len

(* The packet that waits to be sent continues it, and a short one is the last. *)
PendingInv ==
    Running /\ state \in InAnswer =>
        /\ resp.len = len /\ len <= hreq.length /\ i <= len
        /\ tx = <<>> => i = Len(rcvd)
        /\ tx # <<>> =>
              /\ i = Len(rcvd) + Len(Head(tx))
              /\ \A k \in 1..Len(Head(tx)) : Head(tx)[k] = <<resp.src, Len(rcvd) + k>>
              /\ Len(Head(tx)) < MPS => i = len
        /\ state # "DataIn" => i = len

(* A static buffer is set only while the host waits for the rest of it. *)
StaticInv ==
    static_in_buf # None => state = "DataIn" /\ xr = x /\ stage = "data" /\ i < len

AnswerInv == SourceInv /\ ReceivedInv /\ PendingInv /\ StaticInv

(* Types of what the host has and of what waits to be sent. *)
LEMMA AnswerTypes ==
    ASSUME TypeInv
    PROVE  /\ rcvd \in Seq(Byte) /\ Len(rcvd) \in Nat
           /\ tx \in Seq(Seq(Byte))
           /\ tx # <<>> => Head(tx) \in Seq(Byte) /\ Len(Head(tx)) \in Nat
           /\ resp.len \in Nat /\ i \in Nat /\ len \in Nat /\ buf \in [Idx -> Byte]
           /\ MPS \in Nat /\ BufLen \in Nat
BY DEF TypeInv, TypeOK, BusTypeOK

(* The host appends the packet it takes to what it has. *)
LEMMA TakeInAnswer ==
    ASSUME PipeInv, AnswerInv, TakeIn, UNCHANGED <<pipeVars, pc, history>>
    PROVE  AnswerInv'
<1>1. TypeInv BY DEF PipeInv
<1>2. /\ rx.kind # "setup" /\ stage = "data" /\ tx # <<>> /\ tx' = <<>>
      /\ hreq.dir = "In" /\ rcvd' = rcvd \o Head(tx)
      /\ stage' = (IF Len(Head(tx)) < MPS \/ Len(rcvd \o Head(tx)) >= hreq.length
                   THEN "status" ELSE "data")
      /\ UNCHANGED <<x, hreq>>
  BY DEF TakeIn, InReady
<1>3. UNCHANGED <<state, xr, req, i, len, buf, resp, static_in_buf>> BY DEF pipeVars, history
<1>4. xr = x /\ Running BY <1>2 DEF PipeInv, EndInv, NewestInv, Running
<1>5. state \in InAnswer
  BY <1>1, <1>2, <1>4, BasicTypes
  DEF PipeInv, EndInv, QuietInv, RequestInv, StageInv, NewestInv, InAnswer, ControlStates
<1>6. /\ resp.xfer = x /\ resp.len = len /\ len <= hreq.length /\ i <= len
      /\ \A k \in 1..Len(rcvd) : rcvd[k] = <<resp.src, k>>
      /\ i = Len(rcvd) + Len(Head(tx))
      /\ \A k \in 1..Len(Head(tx)) : Head(tx)[k] = <<resp.src, Len(rcvd) + k>>
      /\ Len(Head(tx)) < MPS => i = len
      /\ state # "DataIn" => i = len
  BY <1>2, <1>4, <1>5 DEF AnswerInv, ReceivedInv, PendingInv
<1>7. /\ rcvd \in Seq(Byte) /\ Len(rcvd) \in Nat /\ Head(tx) \in Seq(Byte)
      /\ Len(Head(tx)) \in Nat /\ i \in Nat /\ len \in Nat /\ MPS \in Nat
      /\ hreq.length \in Nat
  BY <1>1, <1>2, AnswerTypes, BasicTypes
<1> DEFINE h == Head(tx)
<1> HIDE DEF h
<1>8. Len(rcvd \o h) = Len(rcvd) + Len(h) BY <1>7 DEF h
<1>9. ASSUME NEW k \in 1..Len(rcvd \o h) PROVE (rcvd \o h)[k] = <<resp.src, k>>
  <2>1. CASE k <= Len(rcvd)
    <3>1. (rcvd \o h)[k] = rcvd[k] BY <1>7, <1>8, <1>9, <2>1 DEF h
    <3> QED BY <1>6, <1>7, <1>9, <2>1, <3>1
  <2>2. CASE k > Len(rcvd)
    <3>1. (rcvd \o h)[k] = h[k - Len(rcvd)] BY <1>7, <1>8, <1>9, <2>2 DEF h
    <3>2. k - Len(rcvd) \in 1..Len(h) BY <1>7, <1>8, <1>9, <2>2 DEF h
    <3>3. h[k - Len(rcvd)] = <<resp.src, Len(rcvd) + (k - Len(rcvd))>>
      BY <1>6, <3>2 DEF h
    <3>4. Len(rcvd) + (k - Len(rcvd)) = k BY <1>7, <1>8, <1>9
    <3> QED BY <3>1, <3>3, <3>4
  <2> QED BY <1>7, <1>8, <1>9, <2>1, <2>2 DEF h
<1>10. Len(rcvd') = i /\ \A k \in 1..Len(rcvd') : rcvd'[k] = <<resp.src, k>>
  BY <1>2, <1>6, <1>8, <1>9 DEF h
<1>11. stage' = "status" => i = len
  BY <1>2, <1>6, <1>7, <1>8 DEF h
<1>12. SourceInv' BY <1>3 DEF AnswerInv, SourceInv
<1>13. ReceivedInv'
  BY <1>2, <1>3, <1>6, <1>10, <1>11 DEF ReceivedInv
<1>14. PendingInv'
  BY <1>2, <1>3, <1>6, <1>10 DEF PendingInv
<1>15. StaticInv'
  <2> SUFFICES ASSUME static_in_buf # None
               PROVE  state = "DataIn" /\ xr = x /\ stage' = "data" /\ i < len
    BY <1>2, <1>3 DEF StaticInv
  <2>1. state = "DataIn" /\ i < len BY DEF AnswerInv, StaticInv
  <2>2. ~(Len(h) < MPS) BY <1>6, <1>7, <2>1 DEF h
  <2>3. ~(Len(rcvd \o h) >= hreq.length) BY <1>6, <1>7, <1>8, <2>1 DEF h
  <2>4. stage' = "data" BY <1>2, <2>2, <2>3 DEF h
  <2> QED BY <1>4, <2>1, <2>4
<1> QED BY <1>12, <1>13, <1>14, <1>15 DEF AnswerInv

(* The other moves of the host. *)
LEMMA HostAnswer ==
    ASSUME GoodDriver, PipeInv, PipeInv', Undisturbed, AnswerInv, HostNext,
           UNCHANGED <<pipeVars, pc, history>>
    PROVE  AnswerInv'
<1> USE DEF AnswerInv, SourceInv, ReceivedInv, PendingInv, StaticInv, Running
<1>1. UNCHANGED <<state, xr, req, i, len, buf, resp, static_in_buf>> BY DEF pipeVars, history
<1>0. static_in_buf # None =>
        NothingCut /\ stage = "data" /\ hreq.dir = "In" /\ state = "DataIn"
  <2> SUFFICES ASSUME static_in_buf # None PROVE NothingCut /\ hreq.dir = "In"
    OBVIOUS
  <2>1. NothingCut BY DEF Undisturbed, PipeInv, TypeInv, TypeOK
  <2>2. req = hreq /\ req.dir = "In" BY DEF PipeInv, EndInv, NewestInv, RequestInv, InAnswer
  <2> QED BY <2>1, <2>2
<1>2. ASSUME NEW r \in Requests, HostSetup(r) PROVE AnswerInv'
  <2>1. xr' # x'
    BY <1>1, <1>2, BasicTypes DEF HostSetup, PipeInv, EndInv, NewestInv
  <2>2. static_in_buf = None BY <1>0, <1>2 DEF HostSetup, TransferOver, NothingCut
  <2> QED BY <1>1, <2>1, <2>2
<1>3. CASE SendOut
  BY <1>0, <1>1, <1>3, BasicTypes DEF SendOut, PipeInv
<1>4. CASE SendStatus \/ SendStatusEarly
  BY <1>0, <1>1, <1>4 DEF SendStatus, SendStatusEarly, NothingCut
<1>5. CASE TakeStatus
  <2>1. /\ stage' \in {"done", "failed"} /\ stage = "status" /\ tx' = <<>>
        /\ rx.kind # "setup"
        /\ hreq.dir = "Out" \/ hreq.length = 0
        /\ UNCHANGED <<x, hreq, rcvd>>
    BY <1>5, BasicTypes DEF TakeStatus, InReady, StatusDir, PipeInv
  <2>4. static_in_buf = None BY <1>0, <2>1
  <2>2. CASE hreq.dir = "Out" BY <1>1, <2>1, <2>2, <2>4
  <2>3. CASE hreq.dir = "In" /\ hreq.length = 0
    <3>1. xr = x /\ req = hreq
      BY <2>1 DEF PipeInv, EndInv, NewestInv
    <3>2. ReceivedInv' BY <1>1, <2>1, <3>1
    <3>3. state \in InAnswer => tx # <<>> /\ tx = << <<>> >>
      BY <1>5, <2>3, <3>1 DEF TakeStatus, InReady, PipeInv, EndInv, RequestInv
    <3>4. Head(<< <<>> >>) = <<>> /\ Len(<<>>) = 0 OBVIOUS
    <3>5. state \in InAnswer => i = Len(rcvd)
      BY <2>1, <2>3, <3>1, <3>3, <3>4, AnswerTypes DEF PipeInv
    <3>6. PendingInv' BY <1>1, <2>1, <3>1, <3>5
    <3> QED BY <1>1, <2>4, <3>2, <3>6
  <2> QED BY <2>1, <2>2, <2>3, BasicTypes DEF PipeInv
<1>6. CASE HostSeesStall
  <2>1. static_in_buf = None
    BY <1>0, <1>6 DEF HostSeesStall, PipeInv, EndInv, QuietInv
  <2> QED BY <1>1, <1>6, <2>1 DEF HostSeesStall, busVars
<1>7. CASE HostReset
  <2>1. static_in_buf = None BY <1>0, <1>7 DEF HostReset, TransferOver, NothingCut
  <2> QED BY <1>1, <1>7, <2>1 DEF HostReset
<1>8. CASE TakeIn BY <1>8, TakeInAnswer
<1> QED BY <1>2, <1>3, <1>4, <1>5, <1>6, <1>7, <1>8 DEF HostNext, HostProgress

(* The next packet of the answer, and what it holds: bytes of the source y. *)
NextPacketIs(from, total, st, y) ==
    \/ i' = from /\ UNCHANGED tx /\ state' = "DataIn" /\ static_in_buf' = st /\ tx # <<>>
    \/ /\ tx = <<>> /\ tx' # <<>> /\ Len(Head(tx')) \in Nat
       /\ i' = from + Len(Head(tx')) /\ i' <= total
       /\ \A k \in 1..Len(Head(tx')) : Head(tx')[k] = <<y, from + k>>
       /\ Len(Head(tx')) < MPS => i' = total
       /\ IF i' < total THEN state' = "DataIn" /\ static_in_buf' = st
                        ELSE state' # "DataIn" /\ static_in_buf' = None /\ i' = total

LEMMA NextPacket ==
    ASSUME TypeOK, BusErrors = FALSE,
           NEW from \in Nat, NEW total \in Nat, from <= total,
           NEW st \in StaticLens \cup {None}, total <= SourceLen(st),
           NEW b \in [Idx -> Byte], NEW y,
           IF st = None THEN \A j \in 0..total - 1 : b[j] = <<y, j + 1>> ELSE y = 0,
           WriteInChunk(from, total, st, b)
    PROVE  NextPacketIs(from, total, st, y)
<1> DEFINE count == ChunkLen(from, total)
           c == Chunk(from, count, st, b)
<1>1. count \in Nat /\ count <= MPS /\ from + count <= total BY ChunkLenBounds
<1>2. count < MPS => from + count = total
  <2>1. total - from \in Nat /\ MPS \in Nat BY DEF BusAssumption
  <2> QED BY <2>1 DEF ChunkLen, Least
<1>3. SourceLen(st) \in Nat /\ from + count <= SourceLen(st)
  <2>1. SourceLen(st) \in Nat BY DEF SourceLen, BusAssumption
  <2> QED BY <1>1, <2>1
<1>4. c \in Seq(Byte) /\ Len(c) = count
  <2>1. from + count <= IF st = None THEN BufLen ELSE st BY <1>3 DEF SourceLen
  <2>2. st \in StaticLens \cup {None} /\ b \in [Idx -> Byte] /\ from \in Nat OBVIOUS
  <2> HIDE DEF count
  <2> QED BY ONLY <1>1, <2>1, <2>2, ChunkType
<1> HIDE DEF count
<1>5. ASSUME NEW k \in 1..count PROVE c[k] = <<y, from + k>>
  <2>1. CASE st = None
    <3>1. c[k] = b[from + k - 1] BY <1>5, <2>1 DEF Chunk
    <3>2. from + k - 1 \in 0..total - 1 /\ (from + k - 1) + 1 = from + k BY <1>1, <1>5
    <3> QED BY <2>1, <3>1, <3>2
  <2>2. CASE st # None
    BY <1>5, <2>2 DEF Chunk
  <2> QED BY <2>1, <2>2
<1> HIDE DEF c
<1>6. CASE i' = from /\ UNCHANGED tx /\ state' = "DataIn" /\ static_in_buf' = st /\ WriteFails
  BY <1>6 DEF WriteFails, NextPacketIs
<1>7. CASE /\ Write(c) /\ i' = from + count
           /\ static_in_buf' = IF from + count >= total THEN None ELSE st
           /\ state' = IF from + count >= total THEN StateAfterData(count) ELSE "DataIn"
  <2>1. tx = <<>> /\ tx' = <<c>> BY <1>7 DEF Write
  <2>2. tx' # <<>> /\ Head(tx') = c BY <2>1
  <2>3. IF i' < total THEN state' = "DataIn" /\ static_in_buf' = st
                      ELSE state' # "DataIn" /\ static_in_buf' = None /\ i' = total
    BY <1>1, <1>7 DEF StateAfterData
  <2> QED BY <1>1, <1>2, <1>4, <1>5, <1>7, <2>1, <2>2, <2>3 DEF NextPacketIs
<1>8. ~(from + count > SourceLen(st)) BY <1>1, <1>3
<1>9. \/ WriteFails /\ i' = from /\ UNCHANGED tx /\ state' = "DataIn" /\ static_in_buf' = st
      \/ /\ Write(c) /\ i' = from + count
         /\ static_in_buf' = IF from + count >= total THEN None ELSE st
         /\ state' = IF from + count >= total THEN StateAfterData(count) ELSE "DataIn"
  BY <1>8 DEF WriteInChunk, SourceLen, count, c
<1> QED BY <1>6, <1>7, <1>9

(* An answer that begins to be sent, with n bytes of the source src. *)
LEMMA BeginAnswer ==
    ASSUME GoodDriver, PipeInv, state = "CompleteIn",
           NEW n \in Nat, NEW src, NEW st \in StaticLens \cup {None}, n <= SourceLen(st),
           buf' \in [Idx -> Byte], StartInTransfer(n, src, st, buf'),
           IF st = None THEN src = xr /\ \A j \in 0..n - 1 : buf'[j] = <<xr, j + 1>>
                        ELSE src = 0 /\ xr = x /\ stage # "idle",
           UNCHANGED <<x, hreq, stage, rcvd, xr, req>>
    PROVE  AnswerInv'
<1> DEFINE total == AnswerLen(n)
<1>1. tx = <<>> /\ TypeOK /\ TypeInv /\ xr \in Nat /\ BusErrors = FALSE
  BY BasicTypes DEF PipeInv, TypeInv, EndInv, QuietInv, GoodDriver, DataStagesFit
<1>2. SourceLen(st) \in Nat BY DEF SourceLen, BusAssumption, PipeAssumption
<1>3. total \in Nat /\ total <= n /\ total <= req.length /\ total <= SourceLen(st)
  BY <1>1, <1>2, AnswerLenBounds DEF TypeOK
<1>4. /\ len' = total /\ WriteInChunk(0, total, st, buf')
      /\ resp'.xfer = xr /\ resp'.src = src /\ resp'.len = total
  BY DEF StartInTransfer
<1>5. IF st = None THEN \A j \in 0..total - 1 : buf'[j] = <<src, j + 1>> ELSE src = 0
  BY <1>3
<1> HIDE DEF total
<1>6. NextPacketIs(0, total, st, src)
  <2>1. 0 \in Nat /\ 0 <= total BY <1>3
  <2>2. st \in StaticLens \cup {None} /\ buf' \in [Idx -> Byte] OBVIOUS
  <2> QED BY ONLY <1>1, <1>3, <1>4, <1>5, <2>1, <2>2, NextPacket
<1>7. /\ tx' # <<>> /\ Len(Head(tx')) \in Nat
      /\ i' = 0 + Len(Head(tx')) /\ i' <= total
      /\ \A k \in 1..Len(Head(tx')) : Head(tx')[k] = <<src, 0 + k>>
      /\ Len(Head(tx')) < MPS => i' = total
      /\ IF i' < total THEN state' = "DataIn" /\ static_in_buf' = st
                       ELSE state' # "DataIn" /\ static_in_buf' = None /\ i' = total
  BY <1>1, <1>6 DEF NextPacketIs
<1>8. xr = x /\ stage # "idle" => req = hreq /\ stage \in {Begun, "failed"} /\ stage # "failed"
  <2>1. xr = x => req = hreq BY DEF PipeInv, EndInv, NewestInv
  <2>2. req.dir = "In" BY DEF PipeInv, EndInv, RequestInv
  <2> QED BY <2>1, <2>2 DEF PipeInv, EndInv, StageInv
<1>9. Running' => /\ rcvd' = <<>> /\ Len(rcvd') = 0 /\ xr = x /\ req = hreq
                  /\ stage' # "status" \/ hreq.length = 0
                  /\ total <= hreq.length
  BY <1>3, <1>8 DEF Running, PipeInv, EndInv, StageInv, Begun
<1>10. SourceInv' BY <1>4, <1>5, <1>7 DEF SourceInv
<1>11. ReceivedInv'
  <2> SUFFICES ASSUME Running' PROVE
          /\ resp'.xfer = x' /\ Len(rcvd') <= resp'.len
          /\ \A k \in 1..Len(rcvd') : rcvd'[k] = <<resp'.src, k>>
          /\ stage' = "status" => Len(rcvd') = resp'.len
    BY DEF ReceivedInv
  <2>1. hreq.length = 0 => total = 0 BY <1>3, <1>9
  <2> QED BY <1>3, <1>4, <1>9, <2>1
<1>12. PendingInv'
  <2> SUFFICES ASSUME Running' PROVE
          /\ resp'.len = len' /\ len' <= hreq'.length /\ i' <= len'
          /\ tx' = <<>> => i' = Len(rcvd')
          /\ tx' # <<>> =>
                /\ i' = Len(rcvd') + Len(Head(tx'))
                /\ \A k \in 1..Len(Head(tx')) : Head(tx')[k] = <<resp'.src, Len(rcvd') + k>>
                /\ Len(Head(tx')) < MPS => i' = len'
          /\ state' # "DataIn" => i' = len'
    BY DEF PendingInv
  <2> QED BY <1>3, <1>4, <1>7, <1>9
<1>13. StaticInv'
  <2> SUFFICES ASSUME static_in_buf' # None
               PROVE  state' = "DataIn" /\ xr' = x' /\ stage' = "data" /\ i' < len'
    BY DEF StaticInv
  <2>1. i' < total /\ state' = "DataIn" /\ st # None BY <1>7
  <2>2. xr = x /\ stage = Begun /\ req = hreq BY <1>8, <2>1
  <2>3. hreq.length # 0
    <3>1. i' \in Nat /\ req.length \in Nat BY <1>1, <1>7, BasicTypes
    <3> QED BY <1>3, <2>1, <2>2, <3>1
  <2>4. stage = "data" BY <2>2, <2>3 DEF Begun
  <2> QED BY <1>4, <2>1, <2>2, <2>4
<1> QED BY <1>10, <1>11, <1>12, <1>13 DEF AnswerInv

(* The two ways to answer. *)
LEMMA AcceptInAnswer ==
    ASSUME GoodDriver, PipeInv, Undisturbed, RangeInv, AnswerInv,
           \/ \E n \in BufLens : AcceptIn(n)
           \/ \E n \in StaticLens : AcceptInStatic(n)
    PROVE  AnswerInv'
<1>1. /\ state = "CompleteIn" /\ static_in_buf = None
      /\ buf \in [Idx -> Byte] /\ xr \in Nat
      /\ UNCHANGED <<x, hreq, stage, rcvd, xr, req>>
  <2>1. state = "CompleteIn" /\ UNCHANGED <<x, hreq, stage, rcvd, xr, req>>
    BY DEF AcceptIn, AcceptInStatic, hostVars
  <2> QED BY <2>1, BasicTypes DEF AnswerInv, StaticInv, PipeInv, TypeInv, TypeOK
<1>2. ASSUME NEW n \in BufLens, AcceptIn(n) PROVE AnswerInv'
  <2>1. n \in Nat /\ BufLen \in Nat BY DEF PipeAssumption, BusAssumption
  <2>2. CASE n > BufLen
    BY <1>1, <1>2, <2>2 DEF AcceptIn, SetError, AnswerInv, SourceInv, ReceivedInv, PendingInv,
       StaticInv, InAnswer
  <2>3. CASE n <= BufLen
    <3>1. /\ buf' = [j \in Idx |-> IF j < n THEN <<xr, j + 1>> ELSE buf[j]]
          /\ StartInTransfer(n, xr, None, buf')
      BY <1>1, <1>2, <2>1, <2>3 DEF AcceptIn
    <3>2. buf' \in [Idx -> Byte] BY <1>1, <3>1 DEF Byte, Idx
    <3>3. \A j \in 0..n - 1 : buf'[j] = <<xr, j + 1>>
      BY <2>1, <2>3, <3>1 DEF Idx
    <3>4. n <= SourceLen(None) /\ None \in StaticLens \cup {None} BY <2>3 DEF SourceLen
    <3> QED BY <1>1, <2>1, <3>1, <3>2, <3>3, <3>4, BeginAnswer
  <2> QED BY <2>1, <2>2, <2>3
<1>3. ASSUME NEW n \in StaticLens, AcceptInStatic(n) PROVE AnswerInv'
  <2>1. n \in Nat /\ n # None BY DEF PipeAssumption
  <2>2. UNCHANGED buf /\ StartInTransfer(n, 0, n, buf') BY <1>3 DEF AcceptInStatic
  <2>3. xr = x /\ stage # "idle" BY <1>1 DEF Undisturbed, HeldInv, NothingCut
  <2>4. n <= SourceLen(n) /\ n \in StaticLens \cup {None} BY <2>1 DEF SourceLen
  <2>5. buf' \in [Idx -> Byte] BY <1>1, <2>2
  <2> QED BY <1>1, <2>1, <2>2, <2>3, <2>4, <2>5, BeginAnswer
<1> QED BY <1>2, <1>3

(* The steps of handle_in_complete. *)
LEMMA InCompleteAnswer ==
    ASSUME GoodDriver, PipeInv, RangeInv, AnswerInv, HandleInComplete
    PROVE  AnswerInv'
<1>1. UNCHANGED <<xr, req, len, buf, x, hreq, stage, rcvd, resp>>
  BY DEF HandleInComplete, hostVars, history
<1>2. CASE InCompleteDataIn
  <2>1. state = "DataIn" /\ WriteInChunk(i, len, static_in_buf, buf)
    BY <1>2 DEF InCompleteDataIn
  <2>2. /\ TypeOK /\ i \in Nat /\ len \in Nat /\ i <= len
        /\ static_in_buf \in StaticLens \cup {None} /\ len <= SourceLen(static_in_buf)
        /\ buf \in [Idx -> Byte] /\ BusErrors = FALSE
        /\ IF static_in_buf = None THEN \A j \in 0..len - 1 : buf[j] = <<resp.src, j + 1>>
                                   ELSE resp.src = 0
    BY <2>1 DEF PipeInv, TypeInv, TypeOK, InBounds, RangeInv, AnswerInv, SourceInv, GoodDriver,
       DataStagesFit
  <2>3. NextPacketIs(i, len, static_in_buf, resp.src)
    BY ONLY <2>1, <2>2, NextPacket
  <2>4. state' \in {"DataIn", "DataInZlp", "DataInLast"}
    BY <2>1 DEF WriteInChunk, StateAfterData
  <2>5. state' = "DataIn" => static_in_buf' = static_in_buf
    BY <2>3 DEF NextPacketIs
  <2>6. SourceInv' BY <1>1, <2>1, <2>5 DEF AnswerInv, SourceInv
  <2>7. ReceivedInv' BY <1>1, <2>1 DEF AnswerInv, ReceivedInv, Running, InAnswer
  <2>8. PendingInv'
    <3> SUFFICES ASSUME Running' PROVE
            /\ resp'.len = len' /\ len' <= hreq'.length /\ i' <= len'
            /\ tx' = <<>> => i' = Len(rcvd')
            /\ tx' # <<>> =>
                  /\ i' = Len(rcvd') + Len(Head(tx'))
                  /\ \A k \in 1..Len(Head(tx')) : Head(tx')[k] = <<resp'.src, Len(rcvd') + k>>
                  /\ Len(Head(tx')) < MPS => i' = len'
            /\ state' # "DataIn" => i' = len'
      BY DEF PendingInv
    <3>1. Running /\ xr = x /\ state \in InAnswer BY <1>1, <2>1 DEF Running, InAnswer
    <3>2. /\ resp.len = len /\ len <= hreq.length /\ i <= len
          /\ tx = <<>> => i = Len(rcvd)
          /\ tx # <<>> =>
                /\ i = Len(rcvd) + Len(Head(tx))
                /\ \A k \in 1..Len(Head(tx)) : Head(tx)[k] = <<resp.src, Len(rcvd) + k>>
                /\ Len(Head(tx)) < MPS => i = len
      BY <3>1 DEF AnswerInv, PendingInv
    <3> QED BY ONLY <1>1, <2>3, <3>1, <3>2 DEF NextPacketIs
  <2>9. StaticInv'
    BY <1>1, <2>2, <2>3 DEF NextPacketIs, AnswerInv, StaticInv
  <2> QED BY <2>6, <2>7, <2>8, <2>9 DEF AnswerInv
<1>3. CASE ~InCompleteDataIn
  <2>1. /\ state # "DataIn" /\ state' # "DataIn" /\ static_in_buf = None
        /\ static_in_buf' = None
    BY <1>3 DEF HandleInComplete, InCompleteZlp, InCompleteLast, InCompleteStatus,
       InCompleteIgnored, AnswerInv, StaticInv
  <2>2. SourceInv' /\ StaticInv' BY <2>1 DEF SourceInv, StaticInv
  <2>3. CASE InCompleteZlp
    <3>1. /\ state = "DataInZlp" /\ state' \in {"DataInZlp", "DataInLast"} /\ i' = i
          /\ \/ UNCHANGED tx
             \/ tx = <<>> /\ tx' = << <<>> >>
      BY <2>3 DEF InCompleteZlp, Write
    <3>2. Head(<< <<>> >>) = <<>> /\ Len(<<>>) = 0 /\ << <<>> >> # <<>> OBVIOUS
    <3>3. ReceivedInv' BY <1>1, <3>1 DEF AnswerInv, ReceivedInv, Running, InAnswer
    <3>4. PendingInv'
      <4>1. CASE UNCHANGED tx
        BY <1>1, <3>1, <4>1 DEF AnswerInv, PendingInv, Running, InAnswer
      <4>2. CASE tx = <<>> /\ tx' = << <<>> >>
        <5>1. tx' # <<>> /\ Len(Head(tx')) = 0 /\ 1..Len(Head(tx')) = {} BY <3>2, <4>2
        <5>2. Len(rcvd) \in Nat BY AnswerTypes DEF PipeInv
        <5>3. Running => i = len /\ i = Len(rcvd) /\ resp.len = len /\ len <= hreq.length
                         /\ i <= len
          BY <3>1, <4>2 DEF AnswerInv, PendingInv, InAnswer
        <5>4. Running' => Running BY <1>1 DEF Running
        <5> QED BY <1>1, <3>1, <5>1, <5>2, <5>3, <5>4 DEF PendingInv
      <4> QED BY <3>1, <4>1, <4>2
    <3> QED BY <2>2, <3>3, <3>4 DEF AnswerInv
  <2>4. CASE InCompleteLast
    <3>1. /\ state = "DataInLast" /\ state' = "StatusOut" /\ i' = i /\ tx' = tx
      BY <2>4 DEF InCompleteLast
    <3>2. ReceivedInv' BY <1>1, <3>1 DEF AnswerInv, ReceivedInv, Running, InAnswer
    <3>3. PendingInv' BY <1>1, <3>1 DEF AnswerInv, PendingInv, Running, InAnswer
    <3> QED BY <2>2, <3>2, <3>3 DEF AnswerInv
  <2>5. CASE InCompleteStatus
    <3>1. Running' => hreq.dir = "Out"
      BY <1>1, <2>5 DEF InCompleteStatus, Running, PipeInv, EndInv, NewestInv, RequestInv
    <3> QED BY <1>1, <2>2, <3>1 DEF AnswerInv, ReceivedInv, PendingInv, Running
  <2>6. CASE InCompleteIgnored
    BY <1>1, <2>2, <2>6 DEF InCompleteIgnored, AnswerInv, ReceivedInv, PendingInv, Running
  <2> QED BY <1>3, <2>3, <2>4, <2>5, <2>6 DEF HandleInComplete
<1> QED BY <1>2, <1>3

(* Every step. *)
LEMMA StepAnswer ==
    ASSUME GoodDriver, PipeInv, PipeInv', Undisturbed, RangeInv, AnswerInv, [Next]_vars
    PROVE  AnswerInv'
<1> USE DEF AnswerInv, SourceInv, ReceivedInv, PendingInv, StaticInv, Running
<1>1. CASE HostNext /\ UNCHANGED <<pipeVars, pc, history>>
  BY <1>1, HostAnswer
<1>2. CASE HandleSetup
  <2>1. state' \in {"CompleteIn", "CompleteOut", "DataOut"}
    <3>1. rx.kind = "setup" /\ rx.n = SetupLen /\ ParsedSetup
      BY <1>2 DEF HandleSetup, PollData, PipeInv, IntactInv, PacketInv, GoodDriver, DataStagesFit
    <3>2. hreq.dir = "Out" => DataStageFits(hreq)
      BY BasicTypes DEF PipeInv, GoodDriver, DataStagesFit, DataStageFits
    <3> QED BY <3>1, <3>2 DEF ParsedSetup, StateForData
  <2>2. static_in_buf = None
    BY <1>2, BasicTypes DEF HandleSetup, PollData, PipeInv, EndInv, NewestInv
  <2>3. static_in_buf' = None BY <1>2, <2>2 DEF HandleSetup, pipeVars
  <2> QED BY <2>1, <2>3 DEF InAnswer
<1>3. CASE HandleOut
  <2>1. UNCHANGED <<xr, req, len, tx, x, hreq, stage, rcvd, resp, static_in_buf>>
    BY <1>3 DEF HandleOut, hostVars, history
  <2>2. static_in_buf = None
    <3> SUFFICES ASSUME static_in_buf # None PROVE FALSE
      OBVIOUS
    <3>1. hreq.dir = "In" BY DEF PipeInv, EndInv, NewestInv, RequestInv, InAnswer
    <3> QED BY <1>3, <3>1 DEF HandleOut, PollData, PipeInv, EndInv, WaitingInv
  <2>3. CASE ReceiveData
    BY <2>1, <2>2, <2>3 DEF ReceiveData, SetError, InAnswer
  <2>4. CASE ReceiveStatus
    <3>1. /\ state \in InAnswer /\ UNCHANGED <<i, buf>>
          /\ state' = state \/ state' = "Idle"
      BY <2>4 DEF ReceiveStatus, EmptyRead, InAnswer
    <3>2. CASE state' = state BY <2>1, <2>2, <3>1, <3>2
    <3>3. CASE state' = "Idle" BY <2>1, <2>2, <3>1, <3>3 DEF InAnswer
    <3> QED BY <3>1, <3>2, <3>3
  <2>5. CASE UnexpectedOut
    <3>1. UNCHANGED <<i, buf>> /\ (state' = state \/ state' = "Error")
      BY <2>5 DEF UnexpectedOut, EmptyRead, SetError
    <3>2. CASE state' = state BY <2>1, <2>2, <3>1, <3>2
    <3>3. CASE state' = "Error" BY <2>1, <2>2, <3>1, <3>3 DEF InAnswer
    <3> QED BY <3>1, <3>2, <3>3
  <2> QED BY <1>3, <2>3, <2>4, <2>5 DEF HandleOut
<1>4. CASE PollInComplete
  BY <1>4 DEF PollInComplete, hostVars, pipeVars, history
<1>5. CASE HandleInComplete BY <1>5, InCompleteAnswer
<1>6. CASE PollReset
  <2>1. stage = "idle" /\ stage' = "idle" /\ state' = "Idle" /\ UNCHANGED static_in_buf
    BY <1>6 DEF PollReset, hostVars, PipeInv, EndInv, WaitingInv
  <2> QED BY <2>1 DEF InAnswer
<1>7. CASE Answer
  <2>1. CASE \/ \E n \in BufLens : AcceptIn(n)
             \/ \E n \in StaticLens : AcceptInStatic(n)
    BY <2>1, AcceptInAnswer
  <2>2. CASE AcceptOut BY <2>2 DEF AcceptOut, InAnswer
  <2>3. CASE Reject BY <2>3 DEF Reject, SetError, InAnswer, WaitingForResponse
  <2>4. CASE Abandon BY <2>4 DEF Abandon, busVars, hostVars, pipeVars, history
  <2>5. ~AcceptHalting BY DEF AcceptHalting, GoodDriver
  <2> QED BY <1>7, <2>1, <2>2, <2>3, <2>4, <2>5 DEF Answer
<1>8. CASE UNCHANGED vars BY <1>8 DEF vars, busVars, hostVars, pipeVars, history
<1> QED BY <1>1, <1>2, <1>3, <1>4, <1>5, <1>6, <1>7, <1>8 DEF Next, Poll

(* A host that gives nothing up waits for the answer to its request, or a bus
   reset ended its transfer. *)
LEMMA StepHeld ==
    ASSUME GoodDriver, HostMayAbort = FALSE, PipeInv, HeldInv, [Next]_vars
    PROVE  HeldInv'
<1> USE DEF HeldInv
<1>1. CASE HostNext /\ UNCHANGED <<pipeVars, pc, history>>
  <2>1. UNCHANGED <<state, xr, req>> BY <1>1 DEF pipeVars
  <2>2. state \in {"DataOut", "CompleteOut", "CompleteIn"} => busReset \/ ~TransferOver
    BY DEF TransferOver, PipeInv, EndInv, StageInv, NewestInv, RequestInv, Begun
  <2>3. CASE HostReset
    <3>1. HostMayInterrupt \/ TransferOver BY <2>3 DEF HostReset
    <3> QED BY <2>1, <2>2, <2>3, <3>1 DEF HostReset
  <2>5. CASE \E r \in Requests : HostSetup(r)
    BY <2>1, <2>2, <2>5 DEF HostSetup
  <2>4. CASE HostProgress \/ SendStatusEarly
    <3>1. UNCHANGED <<x, busReset>> /\ (stage # "idle" => stage' # "idle")
      BY <2>4 DEF HostProgress, SendStatusEarly, SendOut, SendStatus, TakeIn, TakeStatus,
         HostSeesStall, busVars
    <3> QED BY <2>1, <3>1
  <2> QED BY <1>1, <2>3, <2>4, <2>5 DEF HostNext
<1>2. CASE HandleSetup
  <2>1. /\ rx.kind = "setup" /\ ~busReset /\ UNCHANGED <<x, stage, busReset>>
        /\ rx.xfer = x /\ rx.n = SetupLen
    BY <1>2 DEF HandleSetup, PollData, hostVars, PipeInv, IntactInv, PacketInv
  <2>2. ParsedSetup /\ (hreq.dir = "Out" => DataStageFits(hreq))
    BY <1>2, <2>1, BasicTypes
    DEF HandleSetup, PipeInv, GoodDriver, DataStagesFit, DataStageFits
  <2>3. xr' = x BY <2>1, <2>2 DEF ParsedSetup
  <2>4. stage # "idle" BY <2>1 DEF PipeInv, EndInv, WaitingInv, Begun
  <2> QED BY <2>1, <2>3, <2>4
<1>3. CASE HandleOut
  BY <1>3 DEF HandleOut, ReceiveData, ReceiveStatus, UnexpectedOut, EmptyRead, SetError, hostVars
<1>4. CASE PollInComplete BY <1>4 DEF PollInComplete, hostVars, pipeVars
<1>5. CASE HandleInComplete
  BY <1>5 DEF HandleInComplete, InCompleteDataIn, InCompleteZlp, InCompleteLast,
     InCompleteStatus, InCompleteIgnored, WriteInChunk, StateAfterData, hostVars
<1>6. CASE PollReset BY <1>6 DEF PollReset
<1>7. CASE Answer
  <2>1. ~AcceptHalting BY DEF AcceptHalting, GoodDriver
  <2> QED BY <1>7, <2>1 DEF Answer, AcceptIn, AcceptInStatic, AcceptOut, Reject, Abandon, SetError,
     StartInTransfer, WriteInChunk, StateAfterData, busVars, hostVars, pipeVars
<1>8. CASE UNCHANGED vars BY <1>8 DEF vars, busVars, hostVars, pipeVars
<1> QED BY <1>1, <1>2, <1>3, <1>4, <1>5, <1>6, <1>7, <1>8 DEF Next, Poll

(* If the driver works, the host does not halt endpoint 0, and either no class
   answers from a static buffer or no transfer is cut off, neither by the next
   SETUP packet nor by a bus reset, what the host receives in an IN data stage is
   the answer supplied for this very transfer, byte by byte and in order, and
   when the stage ends normally all of it, for packets of any size and answers of
   any length; and the slices of the buffers lie inside them. *)
THEOREM AnswerArrives ==
    ASSUME GoodDriver, StaticLens = {} \/ NothingCut
    PROVE  Spec => [](InAnswerIntact /\ IndicesInRange)
<1> DEFINE Inv == PipeInv /\ Undisturbed /\ RangeInv /\ AnswerInv
<1>1. Init => Inv
  BY InitEnd DEF Init, BusInit, RangeInv, IndicesInRange, AnswerInv, SourceInv, ReceivedInv,
     PendingInv, StaticInv, Running, Undisturbed, HeldInv
<1>2. Inv /\ [Next]_vars => Inv'
  <2> SUFFICES ASSUME Inv, [Next]_vars PROVE Inv'
    OBVIOUS
  <2>1. PipeInv' BY StepEnd
  <2>2. Undisturbed' BY StepHeld DEF Undisturbed, NothingCut
  <2>3. AnswerInv' BY <2>1, StepAnswer
  <2>4. RangeInv' BY <2>1, <2>3, StepInRange DEF PipeInv, AnswerInv, StaticInv
  <2> QED BY <2>1, <2>2, <2>3, <2>4
<1>3. Inv => InAnswerIntact /\ IndicesInRange
  <2> SUFFICES ASSUME PipeInv, AnswerInv, stage # "idle", hreq.dir = "In", hreq.length > 0
               PROVE  /\ rcvd # <<>> =>
                            /\ resp.xfer = x /\ Len(rcvd) <= resp.len
                            /\ \A k \in 1..Len(rcvd) : rcvd[k] = <<resp.src, k>>
                      /\ stage = "status" => resp.xfer = x /\ Len(rcvd) = resp.len
    BY DEF InAnswerIntact, RangeInv
  <2>1. CASE rx.kind = "setup"
    BY <2>1 DEF PipeInv, EndInv, WaitingInv, Begun
  <2>2. CASE rx.kind # "setup"
    <3>1. xr = x /\ req = hreq /\ Running
      BY <2>2 DEF PipeInv, EndInv, NewestInv, Running
    <3>2. CASE state \in InAnswer \cup {"Idle"}
      BY <3>1, <3>2 DEF AnswerInv, ReceivedInv
    <3>3. CASE state \in {"CompleteIn", "Error"}
      BY <3>1, <3>3 DEF PipeInv, EndInv, StageInv, Begun
    <3>4. state \notin {"DataOut", "CompleteOut", "StatusIn"}
      BY <3>1 DEF PipeInv, EndInv, RequestInv
    <3>5. state \in ControlStates BY BasicTypes DEF PipeInv
    <3> QED BY <3>2, <3>3, <3>4, <3>5 DEF ControlStates, InAnswer
  <2> QED BY <2>1, <2>2
<1> QED BY <1>1, <1>2, <1>3, PTL DEF Spec
=============================================================================
