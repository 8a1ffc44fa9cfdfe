--------------------------- MODULE TransferProofs ---------------------------
(***************************************************************************)
(* ControlPipe implements ControlTransfer, for every value of the          *)
(* constants: the theorem, the invariant it rests on, and what else        *)
(* follows from that invariant.                                            *)
(***************************************************************************)
EXTENDS ControlPipeProofs

USE BusAssumption, RequestAssumption, PipeAssumption

(* The driver keeps its contract, data stages fit the control buffer, and the
   host does not halt endpoint 0 itself, which would make the status stage of
   the accepted SET_FEATURE fail. *)
GoodDriver == DataStagesFit /\ SetupClearsIn /\ Ep0Halts = {}

-----------------------------------------------------------------------------
(* The invariant: where the host and the pipe are with a transfer. *)

(* The stage a transfer begins in. *)
Begun == IF hreq.length = 0 THEN "status" ELSE "data"

InAnswer == {"DataIn", "DataInZlp", "DataInLast", "StatusOut"}

(* The pipe holds the host's transfer, or an older one if the SETUP packet of
   the host's waits or the bus was reset. *)
NewestInv ==
    /\ xr <= x
    /\ rx.kind = "setup" => xr < x
    /\ rx.kind # "setup" /\ stage # "idle" => xr = x
    /\ xr = x => req = hreq

(* What the waiting packet says about the host's stage. *)
WaitingInv ==
    /\ rx.kind = "setup" => stage = Begun /\ rcvd = <<>>
    /\ rx.kind = "out" => stage # "idle" /\ (hreq.dir = "In" => stage = "done")
    /\ busReset => stage = "idle" /\ rx.kind = "none"
    /\ stage = "idle" /\ ~busReset => state = "Idle"
    /\ stage = "data" => hreq.length > 0 /\ (hreq.dir = "Out" => sent < hreq.length)

(* Before a request is accepted, and when it was rejected, the peripheral has
   nothing to send and no event to report; only a rejected one stalls. *)
QuietInv ==
    /\ state \in {"DataOut", "CompleteOut", "CompleteIn", "Error"} => tx = <<>> /\ ~inDone
    /\ stallIn \/ stallOut => state = "Error"

(* The states belong to a direction of the request, and a request without data
   is answered without data. *)
RequestInv ==
    /\ state \in InAnswer \cup {"CompleteIn"} => req.dir = "In"
    /\ state \in {"DataOut", "CompleteOut", "StatusIn"} => req.dir = "Out"
    /\ state \in InAnswer /\ req.length = 0 =>
          len = 0 /\ i = 0 /\ (tx # <<>> => tx = << <<>> >>)

(* How far the host is with a transfer in each state of the pipe. *)
StageInv ==
    xr = x /\ stage # "idle" =>
        /\ state = "Idle" => stage = "done" /\ rx.kind = "none"
        /\ state \in {"DataOut", "CompleteOut"} => stage \in {"data", "status"}
        /\ state \in {"CompleteOut", "StatusIn"} => rx.kind = "none" /\ stage # "data"
        /\ state \in {"CompleteIn", "Error"} /\ hreq.dir = "In" =>
              stage \in {Begun, "failed"} /\ rcvd = <<>>
        /\ state = "StatusIn" =>
              \/ stage = "done"
              \/ stage = "status" /\ tx = << <<>> >> /\ ~inDone /\ pc = "poll"
        /\ stage = "failed" => state = "Error"

(* The history tells what the state does: a transfer is not recorded as
   accepted before it is. *)
HistoryInv ==
    /\ acked <= xr /\ resp.xfer <= xr
    /\ state \in {"DataOut", "CompleteOut", "CompleteIn", "Error"} =>
          acked # xr /\ resp.xfer # xr
    /\ state = "StatusIn" => acked = xr
    /\ stage = "done" /\ hreq.dir = "Out" => acked = x

EndInv == NewestInv /\ WaitingInv /\ QuietInv /\ RequestInv /\ StageInv /\ HistoryInv

(* All that the steps may use. *)
PipeInv == TypeInv /\ IntactInv /\ EndInv

-----------------------------------------------------------------------------
(* Lemmas about the mapping. *)

(* The values of the abstract variables name groups of states. *)
LEMMA AnswerMeans ==
    ASSUME state \in ControlStates
    PROVE  /\ AbstractAnswer = "none" <=> state = "Idle"
           /\ AbstractAnswer = "receiving" <=> state = "DataOut"
           /\ AbstractAnswer = "asked" <=> state \in {"CompleteOut", "CompleteIn"}
           /\ AbstractAnswer = "accepted" <=> state \in InAnswer \cup {"StatusIn"}
           /\ AbstractAnswer = "rejected" <=> state = "Error"
BY DEF AbstractAnswer, ControlStates, WaitingForResponse, InAnswer

LEMMA OutcomeMeans ==
    ASSUME stage \in Stages, hreq.dir \in {"In", "Out"}
    PROVE  /\ AbstractOutcome = "idle" <=> stage = "idle"
           /\ AbstractOutcome = "sending" <=> stage = "data" /\ hreq.dir = "Out"
           /\ AbstractOutcome = "waiting" <=>
                 stage = "status" \/ (stage = "data" /\ hreq.dir = "In")
           /\ AbstractOutcome = "completed" <=> stage = "done"
           /\ AbstractOutcome = "failed" <=> stage = "failed"
BY DEF AbstractOutcome, Stages

(* The same after a step. *)
LEMMA MeansAfterStep ==
    ASSUME state' \in ControlStates, stage' \in Stages, hreq'.dir \in {"In", "Out"}
    PROVE  /\ AbstractAnswer' = "none" <=> state' = "Idle"
           /\ AbstractAnswer' = "receiving" <=> state' = "DataOut"
           /\ AbstractAnswer' = "asked" <=> state' \in {"CompleteOut", "CompleteIn"}
           /\ AbstractAnswer' = "accepted" <=> state' \in InAnswer \cup {"StatusIn"}
           /\ AbstractAnswer' = "rejected" <=> state' = "Error"
           /\ AbstractOutcome' = "idle" <=> stage' = "idle"
           /\ AbstractOutcome' = "sending" <=> stage' = "data" /\ hreq'.dir = "Out"
           /\ AbstractOutcome' = "waiting" <=>
                 stage' = "status" \/ (stage' = "data" /\ hreq'.dir = "In")
           /\ AbstractOutcome' = "completed" <=> stage' = "done"
           /\ AbstractOutcome' = "failed" <=> stage' = "failed"
BY DEF AbstractAnswer, ControlStates, WaitingForResponse, InAnswer, AbstractOutcome, Stages

(* A step of ControlTransfer, or none. *)
TransferStep == [Transfer!TransferNext]_(Transfer!transferVars)

(* A step that leaves the state, the transfers and the host's stage alone is
   none for the abstract transfer. *)
LEMMA Stutter ==
    ASSUME UNCHANGED <<state, stage, hreq, x, xr>> PROVE TransferStep
BY DEF TransferStep, Transfer!transferVars, AbstractAnswer, AbstractOutcome, WaitingForResponse

(* What the step lemmas need of the types. *)
LEMMA BasicTypes ==
    ASSUME TypeInv
    PROVE  /\ x \in Nat /\ xr \in Nat /\ acked \in Nat /\ resp.xfer \in Nat
           /\ stage \in Stages /\ state \in ControlStates
           /\ hreq \in Requests /\ hreq.dir \in {"In", "Out"} /\ hreq.length \in Nat
           /\ req \in Requests /\ req.dir \in {"In", "Out"} /\ req.length \in Nat
           /\ sent \in Nat /\ sent <= hreq.length
           /\ i \in Nat /\ len \in Nat
           /\ rx.kind \in {"none", "setup", "out"} /\ rx.n \in Nat
BY DEF TypeInv, TypeOK, BusTypeOK, SentInBounds, Packet

-----------------------------------------------------------------------------
(* The host's moves. *)

(* The next SETUP packet begins a transfer and gives the running one up. *)
LEMMA SetupStep ==
    ASSUME PipeInv, GoodDriver, NEW r \in Requests, HostSetup(r),
           UNCHANGED <<pipeVars, pc, history>>
    PROVE  EndInv' /\ TransferStep
<1>1. /\ rx' = [kind |-> "setup", xfer |-> x + 1, off |-> 0, n |-> SetupLen]
      /\ x' = x + 1 /\ x < MaxSetups /\ hreq' = r /\ rcvd' = <<>> /\ sent' = 0
      /\ stage' = (IF r.length = 0 THEN "status" ELSE "data")
      /\ ~busReset /\ UNCHANGED <<tx, inDone, stallIn, stallOut, busReset>>
  BY DEF HostSetup, GoodDriver, DataStagesFit
<1>2. r.dir \in {"In", "Out"} /\ r.length \in Nat OBVIOUS
<1>3. xr < x' /\ x \in Nat /\ xr \in Nat
  BY <1>1, BasicTypes DEF PipeInv, EndInv, NewestInv
<1>4. EndInv'
  BY <1>1, <1>2, <1>3, BasicTypes
  DEF PipeInv, EndInv, NewestInv, WaitingInv, QuietInv, RequestInv, StageInv, HistoryInv,
      Begun, pipeVars, history
<1>5. AbstractOutcome' \in {"sending", "waiting"}
  BY <1>1, <1>2 DEF AbstractOutcome
<1>6. AbstractAnswer' = AbstractAnswer
  BY DEF AbstractAnswer, WaitingForResponse, pipeVars
<1>7. Transfer!Start
  BY <1>1, <1>5, <1>6 DEF Transfer!Start, pipeVars
<1> QED BY <1>4, <1>7 DEF TransferStep, Transfer!TransferNext

(* A data packet goes to a pipe that is in the data stage, or rejected it. *)
LEMMA SendOutStep ==
    ASSUME PipeInv, GoodDriver, SendOut, UNCHANGED <<pipeVars, pc, history>>
    PROVE  EndInv' /\ TransferStep
<1> DEFINE n == Least(MPS, hreq.length - sent)
<1>1. sent < hreq.length
  BY DEF SendOut, PipeInv, EndInv, WaitingInv
<1>2. n \in Nat /\ sent + n <= hreq.length
  <2>1. hreq.length - sent \in Nat /\ MPS \in Nat /\ sent \in Nat /\ hreq.length \in Nat
    BY <1>1, BasicTypes DEF PipeInv, BusAssumption
  <2>2. n \in Nat /\ n <= hreq.length - sent BY <2>1, LeastIsMin
  <2> QED BY ONLY <2>1, <2>2
<1>3. /\ rx.kind = "none" /\ stage = "data" /\ hreq.dir = "Out" /\ ~busReset
      /\ rx' = [kind |-> "out", xfer |-> x, off |-> sent, n |-> n] /\ sent' = sent + n
      /\ stage' = (IF sent + n = hreq.length THEN "status" ELSE "data")
      /\ UNCHANGED <<tx, inDone, stallIn, stallOut, busReset, x, hreq, rcvd>>
  BY DEF SendOut, OutReady
<1> HIDE DEF n
<1>4. EndInv'
  BY <1>2, <1>3, BasicTypes
  DEF PipeInv, EndInv, NewestInv, WaitingInv, QuietInv, RequestInv, StageInv, HistoryInv,
      Begun, InAnswer, ControlStates, pipeVars, history
<1>5. AbstractAnswer' = AbstractAnswer
  BY DEF AbstractAnswer, WaitingForResponse, pipeVars
<1>6. AbstractOutcome = "sending" /\ AbstractOutcome' \in {"sending", "waiting"}
  BY <1>3 DEF AbstractOutcome
<1>7. Transfer!AllSent \/ UNCHANGED Transfer!transferVars
  BY <1>3, <1>5, <1>6 DEF Transfer!AllSent, Transfer!transferVars, pipeVars
<1> QED BY <1>4, <1>7 DEF TransferStep, Transfer!TransferNext

(* The host ends an IN transfer only when it has been answered: it has taken
   all the data, or a packet of them. *)
LEMMA SendStatusStep ==
    ASSUME PipeInv, GoodDriver, SendStatus \/ SendStatusEarly,
           UNCHANGED <<pipeVars, pc, history>>
    PROVE  EndInv' /\ TransferStep
<1>1. /\ rx.kind = "none" /\ hreq.dir = "In" /\ hreq.length > 0 /\ ~busReset
      /\ \/ stage = "status"
         \/ stage = "data" /\ rcvd # <<>>
      /\ rx'.kind = "out" /\ stage' = "done" /\ xr = x /\ req = hreq
      /\ UNCHANGED <<tx, inDone, stallIn, stallOut, busReset, x, hreq, sent, rcvd>>
  <2>1. hreq.dir \in {"In", "Out"} /\ hreq.length \in Nat BY BasicTypes DEF PipeInv
  <2>2. stage = "data" => hreq.length > 0
    BY DEF PipeInv, EndInv, WaitingInv
  <2> QED BY <2>1, <2>2
      DEF SendStatus, SendStatusEarly, OutReady, StatusDir, ZlpFromHost, PipeInv, EndInv,
          NewestInv
<1>2. state \in InAnswer
  BY <1>1, BasicTypes
  DEF PipeInv, EndInv, WaitingInv, RequestInv, StageInv, Begun, InAnswer, ControlStates
<1>3. EndInv'
  BY <1>1, <1>2, BasicTypes
  DEF PipeInv, EndInv, NewestInv, WaitingInv, QuietInv, RequestInv, StageInv, HistoryInv,
      Begun, InAnswer, ControlStates, pipeVars, history
<1>4. AbstractAnswer = "accepted" /\ AbstractAnswer' = AbstractAnswer
  BY <1>2 DEF AbstractAnswer, WaitingForResponse, pipeVars, InAnswer
<1>5. AbstractOutcome = "waiting" /\ AbstractOutcome' = "completed"
  BY <1>1 DEF AbstractOutcome
<1>6. Transfer!Complete
  BY <1>1, <1>4, <1>5 DEF Transfer!Complete, Transfer!Answered, pipeVars
<1> QED BY <1>3, <1>6 DEF TransferStep, Transfer!TransferNext

(* Taking a packet of an answer is nothing new for the transfer. *)
LEMMA TakeInStep ==
    ASSUME PipeInv, GoodDriver, TakeIn, UNCHANGED <<pipeVars, pc, history>>
    PROVE  EndInv' /\ TransferStep
<1>1. /\ rx.kind = "none" /\ stage = "data" /\ hreq.dir = "In" /\ ~busReset
      /\ tx # <<>> /\ tx' = <<>> /\ inDone' = TRUE /\ xr = x /\ req = hreq
      /\ stage' \in {"status", "data"}
      /\ UNCHANGED <<rx, stallIn, stallOut, busReset, x, hreq, sent>>
  <2>1. /\ rx.kind # "setup" /\ stage = "data" /\ hreq.dir = "In" /\ ~busReset
        /\ tx # <<>> /\ tx' = <<>> /\ inDone' = TRUE
        /\ stage' \in {"status", "data"}
        /\ UNCHANGED <<rx, stallIn, stallOut, busReset, x, hreq, sent>>
    BY DEF TakeIn, InReady
  <2> QED BY <2>1, BasicTypes DEF PipeInv, EndInv, WaitingInv, NewestInv
<1>2. state \in InAnswer
  BY <1>1, BasicTypes
  DEF PipeInv, EndInv, QuietInv, RequestInv, StageInv, InAnswer, ControlStates
<1>3. EndInv'
  BY <1>1, <1>2, BasicTypes
  DEF PipeInv, EndInv, NewestInv, WaitingInv, QuietInv, RequestInv, StageInv, HistoryInv,
      Begun, InAnswer, pipeVars, history
<1>4. AbstractAnswer' = AbstractAnswer
  BY DEF AbstractAnswer, WaitingForResponse, pipeVars
<1>5. AbstractOutcome' = AbstractOutcome
  BY <1>1 DEF AbstractOutcome
<1> QED BY <1>1, <1>3, <1>4, <1>5 DEF TransferStep, Transfer!transferVars, pipeVars

(* The host takes the status packet of a transfer that was accepted. *)
LEMMA TakeStatusStep ==
    ASSUME PipeInv, GoodDriver, TakeStatus, UNCHANGED <<pipeVars, pc, history>>
    PROVE  EndInv' /\ TransferStep
<1>1. /\ rx.kind # "setup" /\ stage = "status" /\ ~busReset /\ ~stallIn
      /\ hreq.dir = "Out" \/ hreq.length = 0
      /\ tx # <<>> /\ tx' = <<>> /\ inDone' = TRUE /\ xr = x /\ req = hreq
      /\ stage' = (IF Head(tx) = <<>> THEN "done" ELSE "failed")
      /\ UNCHANGED <<rx, stallIn, stallOut, busReset, x, hreq, sent, rcvd>>
  <2>1. hreq.dir = "Out" \/ hreq.length = 0
    BY BasicTypes DEF PipeInv, TakeStatus, StatusDir
  <2> QED BY <2>1 DEF TakeStatus, InReady, PipeInv, EndInv, NewestInv
<1>2. state \in InAnswer \cup {"StatusIn"}
  BY <1>1, BasicTypes
  DEF PipeInv, EndInv, QuietInv, RequestInv, StageInv, InAnswer, ControlStates
<1>3. tx = << <<>> >>
  <2>1. CASE state = "StatusIn" BY <1>1, <2>1 DEF PipeInv, EndInv, StageInv
  <2>2. CASE state \in InAnswer
    BY <1>1, <2>2, BasicTypes DEF PipeInv, EndInv, RequestInv
  <2> QED BY <1>2, <2>1, <2>2
<1>4. stage' = "done"
  BY <1>1, <1>3
<1>5. hreq.dir = "In" => rx.kind = "none"
  BY <1>1, BasicTypes DEF PipeInv, EndInv, WaitingInv
<1>6. hreq.dir = "Out" => state = "StatusIn"
  BY <1>1, <1>2 DEF PipeInv, EndInv, RequestInv
<1>7. EndInv'
  BY <1>1, <1>2, <1>4, <1>5, <1>6, BasicTypes
  DEF PipeInv, EndInv, NewestInv, WaitingInv, QuietInv, RequestInv, StageInv, HistoryInv,
      Begun, InAnswer, pipeVars, history
<1>8. AbstractAnswer = "accepted" /\ AbstractAnswer' = AbstractAnswer
  BY <1>2 DEF AbstractAnswer, WaitingForResponse, pipeVars, InAnswer
<1>9. AbstractOutcome = "waiting" /\ AbstractOutcome' = "completed"
  BY <1>1, <1>4 DEF AbstractOutcome
<1>10. Transfer!Complete
  BY <1>1, <1>8, <1>9 DEF Transfer!Complete, Transfer!Answered, pipeVars
<1> QED BY <1>7, <1>10 DEF TransferStep, Transfer!TransferNext

(* The endpoint answers STALL only to a transfer that was rejected. *)
LEMMA StallStep ==
    ASSUME PipeInv, GoodDriver, HostSeesStall, UNCHANGED <<pipeVars, pc, history>>
    PROVE  EndInv' /\ TransferStep
<1>1. /\ rx.kind # "setup" /\ stage \in {"data", "status"} /\ ~busReset
      /\ stallIn \/ stallOut
      /\ stage' = "failed" /\ xr = x /\ state = "Error" /\ req = hreq
      /\ UNCHANGED <<rx, tx, inDone, stallIn, stallOut, busReset, x, hreq, sent, rcvd>>
  BY DEF HostSeesStall, busVars, PipeInv, EndInv, NewestInv, QuietInv
<1>2. hreq.dir = "In" => rx.kind = "none"
  BY <1>1, BasicTypes DEF PipeInv, EndInv, WaitingInv
<1>3. EndInv'
  BY <1>1, <1>2, BasicTypes
  DEF PipeInv, EndInv, NewestInv, WaitingInv, QuietInv, RequestInv, StageInv, HistoryInv,
      Begun, InAnswer, pipeVars, history
<1>4. AbstractAnswer = "rejected" /\ AbstractAnswer' = AbstractAnswer
  BY <1>1 DEF AbstractAnswer, WaitingForResponse, pipeVars
<1>5. AbstractOutcome \in {"sending", "waiting"} /\ AbstractOutcome' = "failed"
  BY <1>1, BasicTypes DEF AbstractOutcome, PipeInv
<1>6. Transfer!Fail
  BY <1>1, <1>4, <1>5 DEF Transfer!Fail, Transfer!Answered, pipeVars
<1> QED BY <1>3, <1>6 DEF TransferStep, Transfer!TransferNext

(* A bus reset ends the host's transfer; the pipe hears of it later. *)
LEMMA HostResetStep ==
    ASSUME PipeInv, GoodDriver, HostReset, UNCHANGED <<pipeVars, pc, history>>
    PROVE  EndInv' /\ TransferStep
<1>1. /\ busReset' = TRUE /\ stage' = "idle" /\ rx' = NoPacket /\ rx'.kind = "none"
      /\ tx' = <<>> /\ inDone' = FALSE
      /\ UNCHANGED <<stallIn, stallOut, x, hreq, sent, rcvd>>
  BY DEF HostReset, NoPacket
<1>2. EndInv'
  BY <1>1, BasicTypes
  DEF PipeInv, EndInv, NewestInv, WaitingInv, QuietInv, RequestInv, StageInv, HistoryInv,
      Begun, InAnswer, pipeVars, history
<1>3. AbstractAnswer' = AbstractAnswer
  BY DEF AbstractAnswer, WaitingForResponse, pipeVars
<1>4. AbstractOutcome' = "idle"
  BY <1>1 DEF AbstractOutcome
<1>5. Transfer!Reset
  BY <1>1, <1>3, <1>4 DEF Transfer!Reset, pipeVars
<1> QED BY <1>2, <1>5 DEF TransferStep, Transfer!TransferNext

-----------------------------------------------------------------------------
(* The steps of poll. *)

(* A SETUP packet makes the pipe take up the host's transfer. *)
LEMMA HandleSetupStep ==
    ASSUME PipeInv, GoodDriver, HandleSetup
    PROVE  EndInv' /\ TransferStep
<1>1. /\ rx.kind = "setup" /\ rx.xfer = x /\ rx.n = SetupLen /\ ~busReset /\ xr < x
      /\ stage = Begun /\ rcvd = <<>> /\ inDone' = FALSE
      /\ rx' = NoPacket /\ rx'.kind = "none" /\ tx' = <<>> /\ stallIn' = FALSE
      /\ ParsedSetup
      /\ UNCHANGED <<busReset, x, hreq, stage, sent, rcvd, resp, acked>>
  BY DEF HandleSetup, PollData, SetupClears, NoPacket, GoodDriver, DataStagesFit, PipeInv,
     IntactInv, PacketInv, EndInv, NewestInv, WaitingInv, hostVars, history
<1>2. hreq.dir = "Out" => DataStageFits(hreq)
  BY BasicTypes DEF PipeInv, GoodDriver, DataStagesFit, DataStageFits
<1>3. /\ xr' = x /\ req' = hreq /\ stallOut' = FALSE
      /\ hreq.dir = "In" => state' = "CompleteIn" /\ pc' = "control_in"
      /\ hreq.dir = "Out" /\ hreq.length = 0 => state' = "CompleteOut" /\ pc' = "control_out"
      /\ hreq.dir = "Out" /\ hreq.length # 0 => state' = "DataOut"
  BY <1>1, <1>2, BasicTypes DEF ParsedSetup, Unstall, StateForData, PipeInv
<1>4. hreq.dir \in {"In", "Out"} /\ xr \in Nat /\ x \in Nat /\ acked <= xr /\ resp.xfer <= xr
      /\ acked \in Nat /\ resp.xfer \in Nat
  BY BasicTypes DEF PipeInv, EndInv, HistoryInv
<1>5. EndInv'
  <2>1. NewestInv' BY <1>1, <1>3, <1>4 DEF NewestInv
  <2>2. WaitingInv' BY <1>1, <1>3, <1>4 DEF WaitingInv, PipeInv, EndInv, Begun
  <2>3. QuietInv' BY <1>1, <1>3, <1>4 DEF QuietInv
  <2>4. RequestInv' BY <1>1, <1>3, <1>4 DEF RequestInv, InAnswer
  <2>5. StageInv' BY <1>1, <1>3, <1>4 DEF StageInv, Begun
  <2>6. HistoryInv' BY <1>1, <1>3, <1>4 DEF HistoryInv, Begun
  <2> QED BY <2>1, <2>2, <2>3, <2>4, <2>5, <2>6 DEF EndInv
<1>6. AbstractOutcome' = AbstractOutcome BY <1>1 DEF AbstractOutcome
<1>7. \/ AbstractAnswer' = "receiving"
      \/ AbstractAnswer' = "asked" /\ AbstractOutcome # "sending"
  BY <1>1, <1>3, <1>4 DEF AbstractAnswer, AbstractOutcome, WaitingForResponse, Begun
<1>8. Transfer!TakeUp
  BY <1>1, <1>3, <1>4, <1>6, <1>7 DEF Transfer!TakeUp
<1> QED BY <1>5, <1>8 DEF TransferStep, Transfer!TransferNext

(* A packet of data: the last one makes a class be asked. *)
LEMMA ReceiveDataStep ==
    ASSUME PipeInv, GoodDriver, HandleOut, ReceiveData
    PROVE  EndInv' /\ TransferStep
<1>1. /\ rx.kind = "out" /\ ~busReset /\ inDone' = FALSE /\ state = "DataOut"
      /\ UNCHANGED <<tx, busReset, xr, req, len, x, hreq, stage, sent, rcvd, resp, acked>>
      /\ rx.n \in Nat /\ i \in Nat /\ len \in Nat
  BY BasicTypes DEF HandleOut, ReceiveData, PollData, hostVars, history, PipeInv
<1>2. /\ xr = x /\ req = hreq /\ hreq.dir = "Out" /\ len = hreq.length
      /\ i + rx.n = sent /\ sent <= hreq.length /\ hreq.length <= BufLen
      /\ stage \in {"data", "status"}
  BY <1>1, BasicTypes DEF PipeInv, IntactInv, DataStageInv, Current, GoodDriver, DataStagesFit,
     EndInv, StageInv, WaitingInv
<1>3. rx.n <= BufLen - i
  BY <1>1, <1>2, BasicTypes DEF BusAssumption, PipeInv
<1>4. /\ rx' = NoPacket /\ rx'.kind = "none" /\ UNCHANGED <<stallIn, stallOut>>
      /\ \/ sent >= len /\ state' = "CompleteOut"
         \/ ~(sent >= len) /\ state' = "DataOut"
  BY <1>1, <1>2, <1>3, BasicTypes
  DEF ReceiveData, GoodDriver, DataStagesFit, DataStageComplete, NoPacket, PipeInv
<1>5. state' = "CompleteOut" => stage = "status"
  BY <1>1, <1>2, <1>4, BasicTypes DEF PipeInv, EndInv, WaitingInv
<1>6. EndInv'
  <2>1. NewestInv' /\ WaitingInv' /\ QuietInv' /\ RequestInv'
    BY <1>1, <1>2, <1>4
    DEF PipeInv, EndInv, NewestInv, WaitingInv, QuietInv, RequestInv, InAnswer
  <2>2. StageInv' /\ HistoryInv'
    BY <1>1, <1>2, <1>4, <1>5 DEF PipeInv, EndInv, StageInv, HistoryInv
  <2> QED BY <2>1, <2>2 DEF EndInv
<1>7. AbstractOutcome' = AbstractOutcome BY <1>1 DEF AbstractOutcome
<1>8. CASE state' = "DataOut"
  BY <1>1, <1>6, <1>8, Stutter
<1>9. CASE state' = "CompleteOut"
  <2>1. AbstractAnswer = "receiving" /\ AbstractAnswer' = "asked"
    BY <1>1, <1>9 DEF AbstractAnswer, WaitingForResponse
  <2>2. AbstractOutcome # "sending" BY <1>5, <1>9 DEF AbstractOutcome
  <2>3. Transfer!Ask BY <1>1, <1>7, <2>1, <2>2 DEF Transfer!Ask
  <2> QED BY <1>6, <2>3 DEF TransferStep, Transfer!TransferNext
<1> QED BY <1>4, <1>8, <1>9

(* The status packet of an IN transfer: the host is through with it. *)
LEMMA ReceiveStatusStep ==
    ASSUME PipeInv, GoodDriver, HandleOut, ReceiveStatus
    PROVE  EndInv' /\ TransferStep
<1>1. /\ rx.kind = "out" /\ ~busReset /\ inDone' = FALSE /\ state \in InAnswer
      /\ UNCHANGED <<tx, busReset, xr, req, len, x, hreq, stage, sent, rcvd, resp, acked>>
      /\ UNCHANGED <<stallIn, stallOut, i>>
      /\ \/ UNCHANGED <<rx, state>>
         \/ rx' = NoPacket /\ rx'.kind = "none" /\ state' = "Idle"
  BY DEF HandleOut, ReceiveStatus, EmptyRead, PollData, hostVars, history, InAnswer, NoPacket
<1>2. xr = x /\ req = hreq /\ stage = "done" /\ req.dir = "In"
  BY <1>1 DEF PipeInv, EndInv, NewestInv, WaitingInv, RequestInv
<1>3. CASE UNCHANGED <<rx, state>>
  <2>1. EndInv'
    BY <1>1, <1>2, <1>3
    DEF PipeInv, EndInv, NewestInv, WaitingInv, QuietInv, RequestInv, StageInv, HistoryInv,
        InAnswer, Begun
  <2> QED BY <1>1, <1>3, <2>1, Stutter
<1>4. CASE rx' = NoPacket /\ rx'.kind = "none" /\ state' = "Idle"
  <2>1. EndInv'
    BY <1>1, <1>2, <1>4
    DEF PipeInv, EndInv, NewestInv, WaitingInv, QuietInv, RequestInv, StageInv, HistoryInv,
        InAnswer, Begun
  <2>2. AbstractOutcome = "completed" /\ AbstractOutcome' = AbstractOutcome
    BY <1>1, <1>2 DEF AbstractOutcome
  <2>3. AbstractAnswer = "accepted" /\ AbstractAnswer' = "none"
    BY <1>1, <1>4 DEF AbstractAnswer, InAnswer, WaitingForResponse
  <2>4. Transfer!Finish BY <1>1, <2>2, <2>3 DEF Transfer!Finish
  <2> QED BY <2>1, <2>4 DEF TransferStep, Transfer!TransferNext
<1> QED BY <1>1, <1>3, <1>4

(* An unexpected OUT packet comes only after a request was rejected. *)
LEMMA UnexpectedOutStep ==
    ASSUME PipeInv, GoodDriver, HandleOut, UnexpectedOut
    PROVE  EndInv' /\ TransferStep
<1>1. /\ rx.kind = "out" /\ ~busReset /\ inDone' = FALSE
      /\ state \notin {"DataOut", "DataIn", "DataInLast", "DataInZlp", "StatusOut"}
      /\ UNCHANGED <<tx, busReset, xr, req, len, x, hreq, stage, sent, rcvd, resp, acked, i>>
      /\ \/ UNCHANGED <<rx, state, stallIn, stallOut>>
         \/ rx' = NoPacket /\ rx'.kind = "none" /\ state' = "Error"
  BY DEF HandleOut, UnexpectedOut, EmptyRead, SetError, PollData, hostVars, history, NoPacket
<1>2. xr = x /\ req = hreq /\ stage # "idle" /\ (hreq.dir = "In" => stage = "done")
  BY <1>1 DEF PipeInv, EndInv, NewestInv, WaitingInv
<1>3. state = "Error"
  BY <1>1, <1>2, BasicTypes
  DEF PipeInv, EndInv, StageInv, RequestInv, ControlStates, Begun
<1>4. EndInv'
  BY <1>1, <1>2, <1>3
  DEF PipeInv, EndInv, NewestInv, WaitingInv, QuietInv, RequestInv, StageInv, HistoryInv,
      InAnswer, Begun
<1> QED BY <1>1, <1>3, <1>4, Stutter

(* Reporting an event alone is nothing new. *)
LEMMA PollInCompleteStep ==
    ASSUME PipeInv, GoodDriver, PollInComplete
    PROVE  EndInv' /\ TransferStep
<1>1. /\ inDone /\ inDone' = FALSE
      /\ UNCHANGED <<rx, tx, busReset, stallIn, stallOut, state, xr, req, i, len,
                     x, hreq, stage, sent, rcvd, resp, acked>>
  BY DEF PollInComplete, PollData, hostVars, pipeVars, history
<1>2. EndInv'
  BY <1>1
  DEF PipeInv, EndInv, NewestInv, WaitingInv, QuietInv, RequestInv, StageInv, HistoryInv,
      InAnswer, Begun
<1> QED BY <1>1, <1>2, Stutter

(* What write_in_chunk sends of an answer without data is the empty packet. *)
LEMMA EmptyAnswer ==
    ASSUME TypeOK, NEW st \in StaticLens \cup {None}, NEW b \in [Idx -> Byte],
           WriteInChunk(0, 0, st, b)
    PROVE  i' = 0 /\ (UNCHANGED tx \/ tx' = << <<>> >>)
<1> DEFINE c == Chunk(0, 0, st, b)
<1>1. ChunkLen(0, 0) = 0 BY DEF ChunkLen, Least, BusAssumption
<1>2. 0 + 0 <= IF st = None THEN BufLen ELSE st BY DEF BusAssumption, PipeAssumption
<1>3. c \in Seq(Byte) /\ Len(c) = 0 BY <1>2, ChunkType
<1>4. c = <<>> BY <1>3
<1> QED BY <1>1, <1>4 DEF WriteInChunk, Write

(* The next packet of an answer is a step inside the answer. *)
LEMMA DataInStep ==
    ASSUME PipeInv, GoodDriver, HandleInComplete,
           InCompleteDataIn \/ InCompleteZlp \/ InCompleteLast
    PROVE  EndInv' /\ TransferStep
<1>1. /\ state \in {"DataIn", "DataInZlp", "DataInLast"}
      /\ UNCHANGED <<rx, inDone, stallIn, busReset, xr, req, len,
                     x, hreq, stage, sent, rcvd, resp, acked>>
      /\ stallOut' => stallOut
  BY DEF HandleInComplete, InCompleteDataIn, InCompleteZlp, InCompleteLast, hostVars, history
<1>2. state' \in InAnswer
  BY DEF InCompleteDataIn, InCompleteZlp, InCompleteLast, WriteInChunk, StateAfterData, InAnswer
<1>3. req.length = 0 => len = 0 /\ i' = 0 /\ (tx' # <<>> => tx' = << <<>> >>)
  <2> SUFFICES ASSUME req.length = 0
               PROVE  len = 0 /\ i' = 0 /\ (tx' # <<>> => tx' = << <<>> >>)
    OBVIOUS
  <2>1. len = 0 /\ i = 0 /\ (tx # <<>> => tx = << <<>> >>)
    BY <1>1 DEF PipeInv, EndInv, RequestInv, InAnswer
  <2>2. CASE InCompleteDataIn
    <3>1. TypeOK /\ static_in_buf \in StaticLens \cup {None} /\ buf \in [Idx -> Byte]
      BY DEF PipeInv, TypeInv, TypeOK
    <3>2. WriteInChunk(0, 0, static_in_buf, buf)
      BY <2>1, <2>2 DEF InCompleteDataIn
    <3>3. i' = 0 /\ (UNCHANGED tx \/ tx' = << <<>> >>) BY <3>1, <3>2, EmptyAnswer
    <3> QED BY <2>1, <3>3
  <2>3. CASE InCompleteZlp BY <2>1, <2>3 DEF InCompleteZlp, Write
  <2>4. CASE InCompleteLast BY <2>1, <2>4 DEF InCompleteLast
  <2> QED BY <2>2, <2>3, <2>4
<1>4. EndInv'
  <2>1. NewestInv' BY <1>1 DEF PipeInv, EndInv, NewestInv
  <2>5. WaitingInv'
    <3>1. stage = "idle" => busReset BY <1>1 DEF PipeInv, EndInv, WaitingInv
    <3> QED BY <1>1, <3>1 DEF PipeInv, EndInv, WaitingInv, Begun
  <2>2. QuietInv'
    BY <1>1, <1>2 DEF PipeInv, EndInv, QuietInv, InAnswer
  <2>3. RequestInv'
    BY <1>1, <1>2, <1>3 DEF PipeInv, EndInv, RequestInv, InAnswer
  <2>4. StageInv' /\ HistoryInv'
    BY <1>1, <1>2 DEF PipeInv, EndInv, StageInv, HistoryInv, InAnswer, Begun
  <2> QED BY <2>1, <2>2, <2>3, <2>4, <2>5 DEF EndInv
<1>5. AbstractAnswer' = AbstractAnswer
  BY <1>1, <1>2 DEF AbstractAnswer, WaitingForResponse, InAnswer
<1>6. AbstractOutcome' = AbstractOutcome BY <1>1 DEF AbstractOutcome
<1> QED BY <1>1, <1>4, <1>5, <1>6 DEF TransferStep, Transfer!transferVars

(* The IN-complete event that ends an OUT transfer comes after its host took
   the status packet. *)
LEMMA StatusInStep ==
    ASSUME PipeInv, GoodDriver, HandleInComplete, InCompleteStatus
    PROVE  EndInv' /\ TransferStep
<1>1. /\ state = "StatusIn" /\ state' = "Idle" /\ pc = "in_complete"
      /\ UNCHANGED <<rx, tx, stallOut, inDone, stallIn, busReset, xr, req, i, len,
                     x, hreq, stage, sent, rcvd, resp, acked>>
  BY DEF HandleInComplete, InCompleteStatus, hostVars, history
<1>2. xr = x => stage \in {"done", "idle"}
  BY <1>1 DEF PipeInv, EndInv, StageInv
<1>3. EndInv'
  BY <1>1, <1>2
  DEF PipeInv, EndInv, NewestInv, WaitingInv, QuietInv, RequestInv, StageInv, HistoryInv,
      InAnswer, Begun
<1>4. /\ AbstractAnswer = "accepted" /\ AbstractAnswer' = "none"
      /\ AbstractOutcome' = AbstractOutcome
      /\ xr = x => AbstractOutcome \in {"completed", "idle"}
  BY <1>1, <1>2 DEF AbstractAnswer, AbstractOutcome, WaitingForResponse
<1>5. Transfer!Finish BY <1>1, <1>4 DEF Transfer!Finish
<1> QED BY <1>3, <1>5 DEF TransferStep, Transfer!TransferNext

(* Every IN-complete event. *)
LEMMA HandleInCompleteStep ==
    ASSUME PipeInv, GoodDriver, HandleInComplete
    PROVE  EndInv' /\ TransferStep
<1>1. CASE InCompleteIgnored
  <2>1. UNCHANGED <<rx, tx, stallOut, inDone, stallIn, busReset, state, xr, req, i, len,
                    x, hreq, stage, sent, rcvd, resp, acked>> /\ state # "StatusIn"
    BY <1>1 DEF HandleInComplete, InCompleteIgnored, hostVars, history
  <2>2. EndInv'
    BY <2>1
    DEF PipeInv, EndInv, NewestInv, WaitingInv, QuietInv, RequestInv, StageInv, HistoryInv,
        InAnswer, Begun
  <2> QED BY <2>1, <2>2, Stutter
<1> QED BY <1>1, DataInStep, StatusInStep DEF HandleInComplete

(* A reset makes the pipe forget every transfer. *)
LEMMA PollResetStep ==
    ASSUME PipeInv, GoodDriver, PollReset
    PROVE  EndInv' /\ TransferStep
<1>1. /\ busReset /\ busReset' = FALSE /\ state' = "Idle" /\ tx' = <<>> /\ inDone' = FALSE
      /\ rx' = NoPacket /\ rx'.kind = "none" /\ stallIn' = FALSE /\ stallOut' = FALSE
      /\ UNCHANGED <<xr, req, i, len, x, hreq, stage, sent, rcvd, resp, acked>>
  BY DEF PollReset, ResetBus, hostVars, history, NoPacket
<1>2. stage = "idle" BY <1>1 DEF PipeInv, EndInv, WaitingInv
<1>3. EndInv'
  BY <1>1, <1>2
  DEF PipeInv, EndInv, NewestInv, WaitingInv, QuietInv, RequestInv, StageInv, HistoryInv,
      InAnswer, Begun
<1>4. AbstractAnswer' = "none" /\ AbstractOutcome = "idle" /\ AbstractOutcome' = "idle"
  BY <1>1, <1>2 DEF AbstractAnswer, AbstractOutcome, WaitingForResponse
<1>5. Transfer!Finish BY <1>1, <1>4 DEF Transfer!Finish
<1> QED BY <1>3, <1>5 DEF TransferStep, Transfer!TransferNext

-----------------------------------------------------------------------------
(* The answers. *)

(* write_in_chunk begins to send the answer, or panics. *)
LEMMA StartedAnswer ==
    ASSUME TypeInv, NEW n \in Nat, NEW src, NEW st \in StaticLens \cup {None},
           NEW b \in [Idx -> Byte], StartInTransfer(n, src, st, b)
    PROVE  /\ state' \in InAnswer /\ resp'.xfer = xr
           /\ req.length = 0 =>
                 len' = 0 /\ i' = 0 /\ (UNCHANGED tx \/ tx' = << <<>> >>)
<1>1. TypeOK /\ req.length \in Nat BY BasicTypes DEF TypeInv
<1>2. req.length = 0 => AnswerLen(n) = 0 BY <1>1 DEF AnswerLen, Least
<1>3. req.length = 0 => len' = 0 /\ WriteInChunk(0, 0, st, b)
  BY <1>2 DEF StartInTransfer
<1>4. req.length = 0 => i' = 0 /\ (UNCHANGED tx \/ tx' = << <<>> >>)
  BY <1>1, <1>3, EmptyAnswer
<1> QED BY <1>3, <1>4 DEF StartInTransfer, WriteInChunk, StateAfterData, InAnswer

(* A class is asked only about a transfer that no one has answered, and for
   which nothing is waiting to be sent. *)
LEMMA AskedUnanswered ==
    ASSUME PipeInv, WaitingForResponse
    PROVE  /\ tx = <<>> /\ ~inDone /\ ~stallIn /\ ~stallOut
           /\ acked <= xr /\ acked # xr /\ resp.xfer <= xr /\ resp.xfer # xr
           /\ xr = x /\ stage # "idle" => stage \in {"data", "status"}
           /\ stage = "idle" => busReset
           /\ state = "CompleteOut" => req.dir = "Out"
           /\ state = "CompleteIn" => req.dir = "In"
<1>1. state \in {"CompleteOut", "CompleteIn"} BY DEF WaitingForResponse
<1>2. tx = <<>> /\ ~inDone /\ ~stallIn /\ ~stallOut BY <1>1 DEF PipeInv, EndInv, QuietInv
<1>3. acked <= xr /\ acked # xr /\ resp.xfer <= xr /\ resp.xfer # xr
  BY <1>1 DEF PipeInv, EndInv, HistoryInv
<1>4. /\ state = "CompleteOut" => req.dir = "Out"
      /\ state = "CompleteIn" => req.dir = "In"
  BY DEF PipeInv, EndInv, RequestInv
<1>5. xr = x /\ stage # "idle" => stage \in {"data", "status"}
  BY <1>1, <1>4 DEF PipeInv, EndInv, NewestInv, StageInv, Begun
<1>6. stage = "idle" => busReset BY <1>1 DEF PipeInv, EndInv, WaitingInv
<1> QED BY <1>2, <1>3, <1>4, <1>5, <1>6

(* An answer is a decision about the transfer a class was asked about. *)
LEMMA DecideStep ==
    ASSUME WaitingForResponse, state' \in InAnswer \cup {"StatusIn", "Error"},
           UNCHANGED <<x, hreq, stage, xr>>
    PROVE  TransferStep
<1>1. AbstractOutcome' = AbstractOutcome BY DEF AbstractOutcome
<1>2. AbstractAnswer = "asked" BY DEF AbstractAnswer, WaitingForResponse
<1>3. AbstractAnswer' \in {"accepted", "rejected"}
  BY DEF AbstractAnswer, WaitingForResponse, InAnswer
<1>4. Transfer!Decide BY <1>1, <1>2, <1>3 DEF Transfer!Decide
<1> QED BY <1>4 DEF TransferStep, Transfer!TransferNext

(* An answer with data is begun. *)
LEMMA AnsweredIn ==
    ASSUME PipeInv, state = "CompleteIn", state' \in InAnswer, resp'.xfer = xr,
           req.length = 0 => len' = 0 /\ i' = 0 /\ (UNCHANGED tx \/ tx' = << <<>> >>),
           UNCHANGED <<rx, inDone, stallIn, stallOut, busReset, x, hreq, stage, sent, rcvd,
                       xr, req, acked>>
    PROVE  EndInv' /\ TransferStep
<1>1. WaitingForResponse BY DEF WaitingForResponse
<1>2. NewestInv' BY DEF PipeInv, EndInv, NewestInv
<1>3. WaitingInv' BY <1>1, AskedUnanswered DEF PipeInv, EndInv, WaitingInv, Begun
<1>4. QuietInv' BY <1>1, AskedUnanswered DEF QuietInv, InAnswer
<1>5. RequestInv' BY <1>1, AskedUnanswered DEF RequestInv, InAnswer
<1>6. StageInv' BY <1>1, AskedUnanswered DEF PipeInv, EndInv, StageInv, InAnswer
<1>7. HistoryInv'
  BY <1>1, AskedUnanswered, BasicTypes DEF PipeInv, EndInv, HistoryInv, InAnswer
<1> QED BY <1>1, <1>2, <1>3, <1>4, <1>5, <1>6, <1>7, DecideStep DEF EndInv

(* A request is rejected with a STALL. *)
LEMMA Rejected ==
    ASSUME PipeInv, WaitingForResponse, SetError,
           UNCHANGED <<rx, tx, inDone, busReset, x, hreq, stage, sent, rcvd, xr, req,
                       acked, resp>>
    PROVE  EndInv' /\ TransferStep
<1>1. state' = "Error" BY DEF SetError
<1>2. NewestInv' BY DEF PipeInv, EndInv, NewestInv
<1>3. WaitingInv' BY <1>1, AskedUnanswered DEF PipeInv, EndInv, WaitingInv, Begun
<1>4. QuietInv' BY <1>1, AskedUnanswered DEF QuietInv
<1>5. RequestInv' BY <1>1, AskedUnanswered DEF RequestInv, InAnswer
<1>6. StageInv'
  BY <1>1, AskedUnanswered, BasicTypes
  DEF PipeInv, EndInv, StageInv, Begun, WaitingForResponse, NewestInv, RequestInv
<1>7. HistoryInv' BY <1>1, AskedUnanswered DEF PipeInv, EndInv, HistoryInv
<1> QED BY <1>1, <1>2, <1>3, <1>4, <1>5, <1>6, <1>7, DecideStep DEF EndInv

(* Every answer. *)
LEMMA AnswerStep ==
    ASSUME PipeInv, GoodDriver, Answer
    PROVE  EndInv' /\ TransferStep
<1>1. ASSUME NEW n \in BufLens, AcceptIn(n) PROVE EndInv' /\ TransferStep
  <2>1. n \in Nat /\ BufLen \in Nat /\ WaitingForResponse
    BY <1>1 DEF PipeAssumption, BusAssumption, WaitingForResponse, AcceptIn
  <2>2. CASE n > BufLen
    BY <1>1, <2>1, <2>2, Rejected DEF AcceptIn, hostVars
  <2>3. CASE ~(n > BufLen)
    <3>1. TypeOK /\ xr \in Nat /\ buf \in [Idx -> Byte]
          /\ static_in_buf \in StaticLens \cup {None}
      BY BasicTypes DEF PipeInv, TypeInv, TypeOK
    <3>2. buf' \in [Idx -> Byte]
      BY <1>1, <3>1 DEF AcceptIn, Byte, Idx
    <3>3. StartInTransfer(n, xr, static_in_buf, buf')
      BY <1>1, <2>3 DEF AcceptIn
    <3>4. /\ state' \in InAnswer /\ resp'.xfer = xr
          /\ req.length = 0 =>
                len' = 0 /\ i' = 0 /\ (UNCHANGED tx \/ tx' = << <<>> >>)
      BY <2>1, <3>1, <3>2, <3>3, StartedAnswer DEF PipeInv
    <3> QED BY <1>1, <2>3, <3>4, AnsweredIn DEF AcceptIn, hostVars
  <2> QED BY <2>2, <2>3
<1>2. ASSUME NEW n \in StaticLens, AcceptInStatic(n) PROVE EndInv' /\ TransferStep
  <2>1. n \in Nat /\ n \in StaticLens \cup {None} /\ buf \in [Idx -> Byte]
    BY DEF PipeAssumption, PipeInv, TypeInv, TypeOK
  <2>2. StartInTransfer(n, 0, n, buf) BY <1>2 DEF AcceptInStatic
  <2>3. /\ state' \in InAnswer /\ resp'.xfer = xr
        /\ req.length = 0 =>
              len' = 0 /\ i' = 0 /\ (UNCHANGED tx \/ tx' = << <<>> >>)
    BY <2>1, <2>2, StartedAnswer DEF PipeInv
  <2> QED BY <1>2, <2>3, AnsweredIn DEF AcceptInStatic, hostVars
<1>3. CASE AcceptOut
  <2>1. /\ WaitingForResponse /\ state = "CompleteOut" /\ state' = "StatusIn"
        /\ tx' = << <<>> >> /\ pc' = "poll" /\ acked' = xr
        /\ UNCHANGED <<rx, inDone, stallIn, stallOut, busReset, x, hreq, stage, sent, rcvd,
                       xr, req, i, len, resp>>
    BY <1>3 DEF AcceptOut, Write, WaitingForResponse, hostVars
  <2>2. xr = x /\ stage # "idle" => stage = "status" /\ rx.kind = "none"
    BY <2>1, AskedUnanswered DEF PipeInv, EndInv, StageInv
  <2>3. stage = "done" /\ hreq.dir = "Out" => xr = x
    BY <2>1, BasicTypes DEF PipeInv, EndInv, NewestInv, WaitingInv, Begun
  <2>4. NewestInv' /\ WaitingInv' /\ QuietInv'
    BY <2>1, AskedUnanswered DEF PipeInv, EndInv, NewestInv, WaitingInv, QuietInv, Begun
  <2>5. RequestInv' BY <2>1, AskedUnanswered DEF RequestInv, InAnswer
  <2>6. StageInv' BY <2>1, <2>2, AskedUnanswered DEF StageInv
  <2>7. HistoryInv'
    BY <2>1, <2>3, AskedUnanswered, BasicTypes DEF PipeInv, EndInv, HistoryInv
  <2> QED BY <2>1, <2>4, <2>5, <2>6, <2>7, DecideStep DEF EndInv
<1>4. CASE Reject
  BY <1>4, Rejected DEF Reject, hostVars, history
<1>5. CASE Abandon
  <2>1. /\ pc' = "poll"
        /\ UNCHANGED <<rx, tx, stallOut, inDone, stallIn, busReset, state, xr, req, i, len,
                       x, hreq, stage, sent, rcvd, resp, acked>>
    BY <1>5 DEF Abandon, busVars, hostVars, pipeVars, history
  <2>2. EndInv'
    BY <2>1
    DEF PipeInv, EndInv, NewestInv, WaitingInv, QuietInv, RequestInv, StageInv, HistoryInv,
        InAnswer, Begun
  <2> QED BY <2>1, <2>2, Stutter
<1>6. ~AcceptHalting BY DEF AcceptHalting, GoodDriver
<1> QED BY <1>1, <1>2, <1>3, <1>4, <1>5, <1>6 DEF Answer

-----------------------------------------------------------------------------
(* The theorems. *)

(* The initial states. *)
LEMMA InitEnd == Init => PipeInv /\ Transfer!TransferInit
<1> SUFFICES ASSUME Init PROVE PipeInv /\ Transfer!TransferInit
  OBVIOUS
<1>1. TypeInv BY InitType
<1>2. IntactInv
  BY DEF Init, BusInit, NoPacket, IntactInv, PacketInv, DataStageInv, BufferInv, DispatchInv,
     OutDataIntact
<1>3. EndInv
  BY <1>1, BasicTypes
  DEF Init, BusInit, NoPacket, EndInv, NewestInv, WaitingInv, QuietInv, RequestInv, StageInv,
      HistoryInv, InAnswer
<1>4. Transfer!TransferInit
  BY DEF Init, BusInit, Transfer!TransferInit, AbstractAnswer, AbstractOutcome,
     WaitingForResponse
<1> QED BY <1>1, <1>2, <1>3, <1>4 DEF PipeInv

(* Every step keeps the invariant and is a step of ControlTransfer or none. *)
LEMMA StepEnd ==
    ASSUME GoodDriver, PipeInv, [Next]_vars PROVE PipeInv' /\ TransferStep
<1>1. TypeInv' BY StepType DEF PipeInv
<1>2. CASE HostNext /\ UNCHANGED <<pipeVars, pc, history>>
  <2>1. IntactInv' BY <1>1, <1>2, HostIntact DEF PipeInv, GoodDriver
  <2>2. EndInv' /\ TransferStep
    BY <1>2, SetupStep, SendOutStep, SendStatusStep, TakeInStep, TakeStatusStep, StallStep,
       HostResetStep
    DEF HostNext, HostProgress
  <2> QED BY <1>1, <2>1, <2>2 DEF PipeInv
<1>3. CASE Poll
  <2>1. IntactInv'
    BY <1>1, <1>3, SetupIntact, OutIntact, PollIntact DEF Poll, PipeInv, GoodDriver
  <2>2. ASSUME HandleOut PROVE EndInv' /\ TransferStep
    <3>1. ReceiveData \/ ReceiveStatus \/ UnexpectedOut BY <2>2 DEF HandleOut
    <3> QED BY <2>2, <3>1, ReceiveDataStep, ReceiveStatusStep, UnexpectedOutStep
  <2>3. EndInv' /\ TransferStep
    BY <1>3, <2>2, HandleSetupStep, PollInCompleteStep, HandleInCompleteStep, PollResetStep
    DEF Poll
  <2> QED BY <1>1, <2>1, <2>3 DEF PipeInv
<1>4. CASE Answer
  BY <1>1, <1>4, AnswerIntact, AnswerStep DEF PipeInv
<1>5. CASE UNCHANGED vars
  <2>1. IntactInv'
    BY <1>5 DEF vars, busVars, hostVars, pipeVars, PipeInv, IntactInv, PacketInv, DataStageInv,
       BufferInv, DispatchInv, OutDataIntact, Current
  <2>2. EndInv'
    BY <1>5
    DEF vars, busVars, hostVars, pipeVars, history, PipeInv, EndInv, NewestInv, WaitingInv,
        QuietInv, RequestInv, StageInv, HistoryInv, InAnswer, Begun
  <2>3. TransferStep BY <1>5, Stutter DEF vars, hostVars, pipeVars
  <2> QED BY <1>1, <2>1, <2>2, <2>3 DEF PipeInv
<1> QED BY <1>2, <1>3, <1>4, <1>5 DEF Next

(* If the driver works, drops the unsent answer when a SETUP packet is read,
   the data stages fit the buffer and the host does not halt endpoint 0 itself,
   the control pipe implements ControlTransfer: whatever transfers the host runs,
   gives up or resets, and whatever the classes answer and whenever an answer
   fails, the host's transfer completes only if it was accepted and fails only if it was
   rejected, and a class is asked once about a transfer. *)
THEOREM PipeImplementsTransfer ==
    ASSUME GoodDriver PROVE Spec => ImplementsTransfer
<1>1. Init => PipeInv /\ Transfer!TransferInit BY InitEnd
<1>2. PipeInv /\ [Next]_vars => PipeInv' /\ TransferStep BY StepEnd
<1> QED BY <1>1, <1>2, PTL DEF Spec, ImplementsTransfer, Transfer!TransferSpec, TransferStep

(* Under the same conditions the host sees an OUT transfer acknowledged only
   if that very transfer was accepted. *)
THEOREM OutcomeIsTheAnswer ==
    ASSUME GoodDriver PROVE Spec => []AckOnlyAccepted
<1>1. Init => PipeInv BY InitEnd
<1>2. PipeInv /\ [Next]_vars => PipeInv' BY StepEnd
<1>3. PipeInv => AckOnlyAccepted
  BY DEF PipeInv, EndInv, HistoryInv, AckOnlyAccepted
<1> QED BY <1>1, <1>2, <1>3, PTL DEF Spec

-----------------------------------------------------------------------------
(* What is left when reads and writes fail, SETUP packets arrive truncated and
   data stages do not fit the buffer: the pipe may then hold an older request
   than the host's although no packet waits, and its state says nothing about
   the host's transfer.  The invariant ties the two only while xr = x. *)

(* The pipe is never ahead of the host; what waits says where the host is. *)
OwnInv ==
    /\ xr <= x /\ acked <= xr /\ resp.xfer <= xr
    /\ rx.kind = "setup" => xr < x /\ rx.xfer = x /\ sent = 0 /\ stage = Begun
    /\ xr = x => req = hreq

HostInv ==
    /\ rx.kind = "out" => stage # "idle" /\ (hreq.dir = "In" => stage = "done")
    /\ busReset => stage = "idle" /\ rx.kind = "none"
    /\ stage = "idle" /\ ~busReset => state = "Idle"
    /\ stage = "data" => hreq.length > 0 /\ (hreq.dir = "Out" => sent < hreq.length)

(* The device has answered, or tried to answer, a request that halts endpoint 0. *)
Halted ==
    /\ req \in Ep0Halts
    /\ state \in {"StatusIn", "Idle"} \/ (state = "CompleteOut" /\ pc \in {"poll", "in_complete"})

(* Endpoint 0 stalls only for a rejected request and for one that halts it, and
   has nothing to send before a request is accepted. *)
UnansweredInv ==
    /\ stallIn \/ stallOut => state = "Error" \/ Halted
    /\ state \in {"DataOut", "CompleteOut", "CompleteIn"} => tx = <<>> /\ ~inDone

(* The bytes of the data stage that the host has sent: those the pipe has, and
   those of the waiting packet. *)
Arrived == i + (IF rx.kind = "out" THEN rx.n ELSE 0)

(* While the pipe holds the host's transfer. *)
RunInv ==
    xr = x /\ stage # "idle" =>
        /\ state = "Idle" => stage = "done" /\ rx.kind = "none"
        /\ state \in {"DataOut", "CompleteOut", "CompleteIn", "Error"} =>
              tx = <<>> /\ ~inDone /\ acked # x /\ resp.xfer # x
        /\ state = "DataOut" => len = hreq.length /\ Arrived = sent
        /\ state \in {"DataOut", "CompleteOut"} =>
              stage \in {"data", "status"} \/ (stage = "failed" /\ Halted)
        /\ state \in {"CompleteOut", "StatusIn"} => rx.kind = "none" /\ stage # "data"
        /\ state = "StatusIn" =>
              \/ stage = "done"
              \/ stage \in {"status", "failed"} /\ tx = << <<>> >> /\ ~inDone /\ pc = "poll"
        /\ stage = "failed" => state = "Error" \/ Halted

HeldTransferInv == TypeInv /\ OwnInv /\ HostInv /\ UnansweredInv /\ RequestInv /\ RunInv

(* The five parts that a step can disturb. *)
Parts == OwnInv /\ HostInv /\ UnansweredInv /\ RequestInv /\ RunInv

(* The host's moves. *)
LEMMA HostHeld ==
    ASSUME HeldTransferInv, HostNext, UNCHANGED <<pipeVars, pc, history>>
    PROVE  Parts'
<1> USE DEF pipeVars, history, Halted
<1>0. /\ x \in Nat /\ xr \in Nat /\ acked \in Nat /\ resp.xfer \in Nat /\ sent \in Nat
      /\ i \in Nat /\ hreq.length \in Nat /\ hreq.dir \in {"In", "Out"}
      /\ state \in ControlStates /\ sent <= hreq.length /\ rx.kind \in {"none", "setup", "out"}
  BY BasicTypes DEF HeldTransferInv
<1>1. ASSUME NEW r \in Requests, HostSetup(r) PROVE Parts'
  <2>1. /\ rx'.kind = "setup" /\ rx'.xfer = x + 1 /\ x' = x + 1 /\ hreq' = r /\ sent' = 0
        /\ stage' = (IF r.length = 0 THEN "status" ELSE "data") /\ ~busReset
        /\ UNCHANGED <<tx, inDone, stallIn, stallOut, busReset>>
    BY <1>1 DEF HostSetup
  <2>2. r.dir \in {"In", "Out"} /\ r.length \in Nat BY RequestAssumption
  <2>3. xr < x' BY <1>0, <2>1 DEF HeldTransferInv, OwnInv
  <2>4. OwnInv' BY <1>0, <2>1, <2>2, <2>3 DEF HeldTransferInv, OwnInv, Begun
  <2>5. HostInv' BY <2>1, <2>2 DEF HostInv
  <2>6. UnansweredInv' /\ RequestInv'
    BY <2>1 DEF HeldTransferInv, UnansweredInv, RequestInv, InAnswer
  <2>7. RunInv' BY <1>0, <2>1, <2>3 DEF RunInv
  <2> QED BY <2>4, <2>5, <2>6, <2>7 DEF Parts
<1>2. CASE SendOut
  <2> DEFINE n == Least(MPS, hreq.length - sent)
  <2>1. hreq.length - sent \in Nat /\ sent < hreq.length
    BY <1>0, <1>2 DEF SendOut, HeldTransferInv, HostInv
  <2>2. n \in Nat /\ n <= hreq.length - sent BY <2>1, LeastIsMin DEF BusAssumption
  <2>3. /\ rx.kind = "none" /\ stage = "data" /\ hreq.dir = "Out" /\ ~busReset
        /\ rx'.kind = "out" /\ rx'.n = n /\ sent' = sent + n
        /\ stage' = (IF sent + n = hreq.length THEN "status" ELSE "data")
        /\ UNCHANGED <<tx, inDone, stallIn, stallOut, busReset, x, hreq>>
    BY <1>2 DEF SendOut, OutReady
  <2> HIDE DEF n
  <2>4. OwnInv' BY <2>3 DEF HeldTransferInv, OwnInv
  <2>5. HostInv' BY <1>0, <2>2, <2>3 DEF HeldTransferInv, HostInv
  <2>6. UnansweredInv' /\ RequestInv'
    BY <2>3 DEF HeldTransferInv, UnansweredInv, RequestInv, InAnswer
  <2>7. xr = x => state \notin {"Idle", "CompleteOut", "CompleteIn", "StatusIn"}
    BY <2>3 DEF HeldTransferInv, RunInv, OwnInv, RequestInv, InAnswer
  <2>8. xr = x /\ state = "DataOut" => Arrived = sent /\ Arrived' = sent'
    BY <1>0, <2>2, <2>3 DEF HeldTransferInv, RunInv, Arrived
  <2>9. RunInv'
    BY <2>3, <2>7, <2>8 DEF HeldTransferInv, RunInv
  <2> QED BY <2>4, <2>5, <2>6, <2>9 DEF Parts
<1>3. CASE SendStatus \/ SendStatusEarly
  <2>1. /\ rx.kind = "none" /\ stage \in {"data", "status"} /\ hreq.dir = "In" /\ ~busReset
        /\ rx'.kind = "out" /\ stage' = "done"
        /\ UNCHANGED <<tx, inDone, stallIn, stallOut, busReset, x, hreq, sent, rcvd>>
    BY <1>0, <1>3 DEF SendStatus, SendStatusEarly, OutReady, StatusDir, ZlpFromHost
  <2>2. xr = x => state \notin {"Idle", "DataOut", "CompleteOut", "StatusIn"}
    BY <2>1 DEF HeldTransferInv, RunInv, OwnInv, RequestInv
  <2>3. OwnInv' /\ HostInv' BY <2>1 DEF HeldTransferInv, OwnInv, HostInv
  <2>4. UnansweredInv' /\ RequestInv'
    BY <2>1 DEF HeldTransferInv, UnansweredInv, RequestInv, InAnswer
  <2>5. RunInv' BY <2>1, <2>2 DEF HeldTransferInv, RunInv
  <2> QED BY <2>3, <2>4, <2>5 DEF Parts
<1>4. CASE TakeIn
  <2>1. /\ rx.kind # "setup" /\ stage = "data" /\ hreq.dir = "In" /\ ~busReset
        /\ tx # <<>> /\ tx' = <<>> /\ stage' \in {"status", "data"}
        /\ UNCHANGED <<rx, stallIn, stallOut, busReset, x, hreq, sent>>
    BY <1>4 DEF TakeIn, InReady
  <2>2. state \notin {"DataOut", "CompleteOut", "CompleteIn"}
    BY <2>1 DEF HeldTransferInv, UnansweredInv
  <2>3. xr = x => state \notin {"Idle", "Error", "StatusIn"}
    BY <2>1 DEF HeldTransferInv, RunInv, OwnInv, RequestInv
  <2>4. OwnInv' /\ HostInv' BY <2>1 DEF HeldTransferInv, OwnInv, HostInv
  <2>5. UnansweredInv' BY <2>1, <2>2 DEF HeldTransferInv, UnansweredInv
  <2>6. RequestInv' BY <2>1 DEF HeldTransferInv, RequestInv, InAnswer
  <2>7. RunInv' BY <2>1, <2>2, <2>3 DEF RunInv
  <2> QED BY <2>4, <2>5, <2>6, <2>7 DEF Parts
<1>5. CASE TakeStatus
  <2>1. /\ rx.kind # "setup" /\ stage = "status" /\ ~busReset
        /\ hreq.dir = "Out" \/ hreq.length = 0
        /\ tx # <<>> /\ tx' = <<>>
        /\ stage' = (IF Head(tx) = <<>> THEN "done" ELSE "failed")
        /\ UNCHANGED <<rx, stallIn, stallOut, busReset, x, hreq, sent>>
    BY <1>0, <1>5 DEF TakeStatus, InReady, StatusDir
  <2>2. state \notin {"DataOut", "CompleteOut", "CompleteIn"}
    BY <2>1 DEF HeldTransferInv, UnansweredInv
  <2>3. xr = x => state \in InAnswer \cup {"StatusIn"}
    BY <1>0, <2>1, <2>2 DEF HeldTransferInv, RunInv, ControlStates, InAnswer
  <2>4. xr = x => tx = << <<>> >> /\ rx.kind = "none"
    <3>1. CASE xr = x /\ state = "StatusIn"
      BY <2>1, <3>1 DEF HeldTransferInv, RunInv
    <3>2. CASE xr = x /\ state \in InAnswer
      <4>1. req = hreq /\ req.dir = "In" /\ req.length = 0
        BY <2>1, <3>2 DEF HeldTransferInv, OwnInv, RequestInv
      <4>2. tx = << <<>> >> BY <2>1, <3>2, <4>1 DEF HeldTransferInv, RequestInv
      <4>3. rx.kind = "none" BY <1>0, <2>1, <4>1 DEF HeldTransferInv, HostInv
      <4> QED BY <4>2, <4>3
    <3> QED BY <2>3, <3>1, <3>2
  <2>5. xr = x => stage' = "done" BY <2>1, <2>4
  <2>6. stage' \in {"done", "failed"} BY <2>1
  <2>7. OwnInv' BY <2>1 DEF HeldTransferInv, OwnInv
  <2>8. rx.kind = "out" => hreq.dir # "In" BY <2>1 DEF HeldTransferInv, HostInv
  <2>9. HostInv' BY <2>1, <2>6, <2>8 DEF HeldTransferInv, HostInv
  <2>10. UnansweredInv' /\ RequestInv'
    BY <2>1, <2>2 DEF HeldTransferInv, UnansweredInv, RequestInv, InAnswer
  <2>11. RunInv' BY <2>1, <2>3, <2>4, <2>5 DEF RunInv, InAnswer
  <2> QED BY <2>7, <2>9, <2>10, <2>11 DEF Parts
<1>6. CASE HostSeesStall
  <2>1. /\ rx.kind # "setup" /\ stage \in {"data", "status"} /\ ~busReset
        /\ stallIn \/ stallOut
        /\ stage' = "failed"
        /\ UNCHANGED <<rx, tx, inDone, stallIn, stallOut, busReset, x, hreq, sent, rcvd>>
    BY <1>6 DEF HostSeesStall, busVars
  <2>2. state = "Error" \/ Halted BY <2>1 DEF HeldTransferInv, UnansweredInv
  <2>3. rx.kind = "out" => hreq.dir # "In" BY <2>1 DEF HeldTransferInv, HostInv
  <2>4. OwnInv' BY <2>1 DEF HeldTransferInv, OwnInv
  <2>5. HostInv' BY <2>1, <2>3 DEF HeldTransferInv, HostInv
  <2>6. UnansweredInv' /\ RequestInv'
    BY <2>1 DEF HeldTransferInv, UnansweredInv, RequestInv, InAnswer
  <2>7. RunInv' BY <2>1, <2>2 DEF HeldTransferInv, RunInv
  <2> QED BY <2>4, <2>5, <2>6, <2>7 DEF Parts
<1>7. CASE HostReset
  <2>1. /\ busReset' = TRUE /\ stage' = "idle" /\ rx'.kind = "none"
        /\ tx' = <<>> /\ inDone' = FALSE
        /\ UNCHANGED <<stallIn, stallOut, x, hreq, sent>>
    BY <1>7 DEF HostReset, NoPacket
  <2>2. OwnInv' /\ HostInv' /\ RunInv' BY <2>1 DEF HeldTransferInv, OwnInv, HostInv, RunInv
  <2>3. UnansweredInv' /\ RequestInv'
    BY <2>1 DEF HeldTransferInv, UnansweredInv, RequestInv, InAnswer
  <2> QED BY <2>2, <2>3 DEF Parts
<1> QED BY <1>1, <1>2, <1>3, <1>4, <1>5, <1>6, <1>7 DEF HostNext, HostProgress

(* The types the steps of poll and the answers need. *)
LEMMA HeldTypes ==
    ASSUME HeldTransferInv
    PROVE  /\ x \in Nat /\ xr \in Nat /\ acked \in Nat /\ resp.xfer \in Nat /\ sent \in Nat
           /\ i \in Nat /\ len \in Nat /\ rx.n \in Nat /\ hreq.length \in Nat
           /\ hreq.dir \in {"In", "Out"} /\ state \in ControlStates /\ sent <= hreq.length
           /\ rx.kind \in {"none", "setup", "out"}
BY BasicTypes DEF HeldTransferInv

(* A SETUP packet, read or not, whole or truncated, taken up or too long. *)
LEMMA SetupHeld ==
    ASSUME HeldTransferInv, SetupClearsIn, HandleSetup PROVE Parts'
<1> USE DEF Halted
<1>1. /\ rx.kind = "setup" /\ rx.xfer = x /\ xr < x /\ stage = Begun /\ sent = 0 /\ ~busReset
      /\ inDone' = FALSE /\ UNCHANGED <<busReset, x, hreq, stage, sent, rcvd, resp, acked>>
  BY DEF HandleSetup, PollData, HeldTransferInv, OwnInv, hostVars, history
<1>2. xr # x BY <1>1, HeldTypes
<1>3. CASE UNCHANGED <<rx, tx, stallIn, stallOut, pipeVars>> /\ pc' \in {"poll", "in_complete"}
  <2>1. OwnInv' /\ HostInv' /\ UnansweredInv' /\ RequestInv'
    BY <1>1, <1>3
    DEF HeldTransferInv, OwnInv, HostInv, UnansweredInv, RequestInv, InAnswer, pipeVars, Begun
  <2>2. RunInv' BY <1>1, <1>2, <1>3 DEF RunInv, pipeVars
  <2> QED BY <2>1, <2>2 DEF Parts
<1>4. CASE /\ rx' = NoPacket /\ tx' = <<>> /\ stallIn' = FALSE
           /\ UNCHANGED <<i, len, state, req, xr>>
           /\ stallOut' => stallOut /\ pc' \in {"poll", "in_complete"}
  <2>1. rx'.kind = "none" BY <1>4 DEF NoPacket
  <2>2. OwnInv' /\ HostInv' /\ UnansweredInv' /\ RequestInv'
    BY <1>1, <1>4, <2>1
    DEF HeldTransferInv, OwnInv, HostInv, UnansweredInv, RequestInv, InAnswer, Begun
  <2>3. RunInv' BY <1>1, <1>2, <1>4 DEF RunInv
  <2> QED BY <2>2, <2>3 DEF Parts
<1>5. CASE /\ rx' = NoPacket /\ tx' = <<>> /\ stallIn' = FALSE /\ stallOut' = FALSE
           /\ req' = hreq /\ xr' = x
           /\ \/ hreq.dir = "In" /\ state' = "CompleteIn"
              \/ hreq.dir = "Out" /\ hreq.length = 0 /\ state' = "CompleteOut"
              \/ hreq.dir = "Out" /\ hreq.length # 0 /\ state' = "DataOut"
                 /\ i' = 0 /\ len' = hreq.length
  <2>1. rx'.kind = "none" BY <1>5 DEF NoPacket
  <2>2. acked < x /\ resp.xfer < x BY <1>1, HeldTypes DEF HeldTransferInv, OwnInv
  <2>3. acked # x /\ resp.xfer # x BY <2>2, HeldTypes
  <2>4. OwnInv' BY <1>1, <1>5, <2>1, <2>2, HeldTypes DEF OwnInv
  <2>5. HostInv' BY <1>1, <1>5, <2>1 DEF HeldTransferInv, HostInv, Begun
  <2>6. UnansweredInv' /\ RequestInv' BY <1>1, <1>5 DEF UnansweredInv, RequestInv, InAnswer
  <2>7. state' = "DataOut" => Arrived' = sent' /\ len' = hreq'.length
    BY <1>1, <1>5, <2>1 DEF Arrived
  <2>8. stage \in {"data", "status"} /\ (hreq.length = 0 => stage = "status")
    BY <1>1 DEF Begun
  <2>9. RunInv' BY <1>1, <1>5, <2>1, <2>3, <2>7, <2>8 DEF RunInv
  <2> QED BY <2>4, <2>5, <2>6, <2>9 DEF Parts
<1>6. CASE rx' = NoPacket /\ SetupClears /\ ParsedSetup
  <2>1. tx' = <<>> /\ stallIn' = FALSE /\ stallOut' = FALSE
    BY <1>6 DEF SetupClears, ParsedSetup, Unstall
  <2> QED BY <1>1, <1>4, <1>5, <1>6, <2>1, HeldTypes DEF ParsedSetup, StateForData
<1> QED BY <1>3, <1>4, <1>6 DEF HandleSetup, SetupClears, AfterNoRequest

(* An OUT packet: of a data stage, the end of an answer, or unexpected; one
   that cannot be read stays, or ends the transfer in an error. *)
LEMMA OutHeld ==
    ASSUME HeldTransferInv, HandleOut PROVE Parts'
<1> USE DEF Halted
<1>0. AfterNoRequest \in {"poll", "in_complete"} BY DEF AfterNoRequest
<1>1. /\ rx.kind = "out" /\ ~busReset /\ inDone' = FALSE /\ stage # "idle"
      /\ hreq.dir = "In" => stage = "done"
      /\ UNCHANGED <<tx, busReset, xr, req, len, x, hreq, stage, sent, rcvd, resp, acked>>
  BY DEF HandleOut, PollData, HeldTransferInv, HostInv, hostVars, history
<1>2. xr = x => state \notin {"Idle", "CompleteOut", "StatusIn"}
  BY <1>1 DEF HeldTransferInv, RunInv
<1>3. rx' = NoPacket => rx'.kind = "none" BY DEF NoPacket
<1>4. CASE rx' \in {rx, NoPacket} /\ UNCHANGED <<state, i, stallIn, stallOut>>
           /\ state # "DataOut" /\ pc' \in {"poll", "in_complete"}
  <2>1. OwnInv' /\ HostInv' /\ UnansweredInv' /\ RequestInv'
    BY <1>1, <1>3, <1>4
    DEF HeldTransferInv, OwnInv, HostInv, UnansweredInv, RequestInv, InAnswer
  <2>2. RunInv' BY <1>1, <1>2, <1>3, <1>4 DEF HeldTransferInv, RunInv
  <2> QED BY <2>1, <2>2 DEF Parts
<1>5. CASE rx' \in {rx, NoPacket} /\ state' = "Error"
           /\ state \notin {"DataIn", "DataInLast", "DataInZlp", "StatusOut"}
  <2>1. OwnInv' /\ HostInv' /\ UnansweredInv' /\ RequestInv'
    BY <1>1, <1>3, <1>5 DEF HeldTransferInv, OwnInv, HostInv, UnansweredInv, RequestInv, InAnswer
  <2>2. xr = x => state \in {"DataOut", "CompleteIn", "Error"}
    BY <1>2, <1>5, HeldTypes DEF ControlStates
  <2>3. RunInv' BY <1>1, <1>5, <2>2 DEF HeldTransferInv, RunInv
  <2> QED BY <2>1, <2>3 DEF Parts
<1>6. CASE /\ state \in {"DataIn", "DataInLast", "DataInZlp", "StatusOut"}
           /\ rx' = NoPacket /\ state' = "Idle" /\ UNCHANGED <<stallIn, stallOut>>
  <2>1. OwnInv' /\ HostInv' /\ UnansweredInv' /\ RequestInv'
    BY <1>1, <1>3, <1>6 DEF HeldTransferInv, OwnInv, HostInv, UnansweredInv, RequestInv, InAnswer
  <2>2. xr = x => hreq.dir = "In"
    BY <1>6 DEF HeldTransferInv, OwnInv, RequestInv, InAnswer
  <2>3. RunInv' BY <1>1, <1>3, <1>6, <2>2 DEF RunInv
  <2> QED BY <2>1, <2>3 DEF Parts
<1>7. CASE /\ state = "DataOut" /\ rx' = NoPacket /\ i' = i + rx.n
           /\ UNCHANGED <<stallIn, stallOut>>
           /\ \/ i + rx.n >= len /\ state' = "CompleteOut"
              \/ UNCHANGED state
  <2>1. OwnInv' /\ HostInv' BY <1>1, <1>3, <1>7 DEF HeldTransferInv, OwnInv, HostInv
  <2>2. UnansweredInv' /\ RequestInv'
    BY <1>1, <1>3, <1>7 DEF HeldTransferInv, UnansweredInv, RequestInv, InAnswer
  <2>3. xr = x =>
          /\ i + rx.n = sent /\ len = hreq.length /\ stage \in {"data", "status"}
          /\ stage = "data" => sent < hreq.length
    BY <1>1, <1>7, HeldTypes
    DEF HeldTransferInv, RunInv, Arrived, HostInv
  <2>4. xr = x /\ i + rx.n >= len => stage = "status" BY <2>3, HeldTypes
  <2>5. Arrived' = i + rx.n BY <1>1, <1>3, <1>7, HeldTypes DEF Arrived
  <2>6. RunInv' BY <1>1, <1>3, <1>7, <2>3, <2>4, <2>5 DEF HeldTransferInv, RunInv
  <2> QED BY <2>1, <2>2, <2>6 DEF Parts
<1>8. CASE ReceiveData
  <2>1. CASE UNCHANGED <<rx, i, buf, state, stallIn, stallOut>> /\ pc' \in {"poll", "in_complete"}
    <3>1. OwnInv' /\ HostInv' /\ UnansweredInv' /\ RequestInv'
      BY <1>1, <2>1 DEF HeldTransferInv, OwnInv, HostInv, UnansweredInv, RequestInv, InAnswer,
         Begun
    <3>2. RunInv' BY <1>1, <1>2, <1>8, <2>1 DEF HeldTransferInv, RunInv, Arrived, ReceiveData
    <3> QED BY <3>1, <3>2 DEF Parts
  <2> QED BY <1>5, <1>7, <1>8, <1>0, <2>1 DEF ReceiveData, SetError, DataStageComplete
<1>9. CASE ReceiveStatus
  BY <1>4, <1>6, <1>9, <1>0 DEF ReceiveStatus, EmptyRead
<1>10. CASE UnexpectedOut
  BY <1>4, <1>5, <1>0, <1>10 DEF UnexpectedOut, EmptyRead, SetError
<1> QED BY <1>8, <1>9, <1>10 DEF HandleOut

(* Every other step of poll. *)
LEMMA PollHeld ==
    ASSUME HeldTransferInv, PollInComplete \/ HandleInComplete \/ PollReset PROVE Parts'
<1> USE DEF Halted
<1>1. CASE PollInComplete
  <2>1. /\ inDone /\ inDone' = FALSE /\ pc' \in {"poll", "in_complete"}
        /\ UNCHANGED <<rx, tx, busReset, stallIn, stallOut, state, xr, req, i, len,
                       x, hreq, stage, sent, rcvd, resp, acked>>
    BY <1>1 DEF PollInComplete, PollData, hostVars, pipeVars, history
  <2>2. OwnInv' /\ HostInv' /\ UnansweredInv' /\ RequestInv'
    BY <2>1 DEF HeldTransferInv, OwnInv, HostInv, UnansweredInv, RequestInv, InAnswer, Begun
  <2>3. RunInv' BY <2>1 DEF HeldTransferInv, RunInv, Arrived
  <2> QED BY <2>2, <2>3 DEF Parts
<1>2. CASE HandleInComplete
  <2>1. UNCHANGED <<rx, inDone, stallIn, busReset, xr, req, len, x, hreq, stage, sent, rcvd,
                    resp, acked>> /\ pc = "in_complete"
    BY <1>2 DEF HandleInComplete, hostVars, history
  <2>2. OwnInv' BY <2>1 DEF HeldTransferInv, OwnInv, Begun
  <2>3. CASE InCompleteDataIn \/ InCompleteZlp \/ InCompleteLast
    <3>1. state \in {"DataIn", "DataInZlp", "DataInLast"} /\ (stallOut' => stallOut)
      BY <2>3 DEF InCompleteDataIn, InCompleteZlp, InCompleteLast
    <3>2. state' \in InAnswer
      BY <2>3
      DEF InCompleteDataIn, InCompleteZlp, InCompleteLast, WriteInChunk, StateAfterData,
          InAnswer
    <3>3. req.length = 0 => len' = 0 /\ i' = 0 /\ (tx' # <<>> => tx' = << <<>> >>)
      <4> SUFFICES ASSUME req.length = 0
                   PROVE  len' = 0 /\ i' = 0 /\ (tx' # <<>> => tx' = << <<>> >>)
        OBVIOUS
      <4>1. len = 0 /\ i = 0 /\ (tx # <<>> => tx = << <<>> >>)
        BY <3>1 DEF HeldTransferInv, RequestInv, InAnswer
      <4>2. CASE InCompleteDataIn
        <5>1. TypeOK /\ static_in_buf \in StaticLens \cup {None} /\ buf \in [Idx -> Byte]
          BY DEF HeldTransferInv, TypeInv, TypeOK
        <5>2. WriteInChunk(0, 0, static_in_buf, buf) BY <4>1, <4>2 DEF InCompleteDataIn
        <5>3. i' = 0 /\ (UNCHANGED tx \/ tx' = << <<>> >>) BY <5>1, <5>2, EmptyAnswer
        <5> QED BY <2>1, <4>1, <5>3
      <4>3. CASE InCompleteZlp BY <2>1, <4>1, <4>3 DEF InCompleteZlp, Write
      <4>4. CASE InCompleteLast BY <2>1, <4>1, <4>4 DEF InCompleteLast
      <4> QED BY <2>3, <4>2, <4>3, <4>4
    <3>4. HostInv' BY <2>1, <3>1, <3>2 DEF HeldTransferInv, HostInv, InAnswer
    <3>5. UnansweredInv' BY <2>1, <3>1, <3>2 DEF HeldTransferInv, UnansweredInv, InAnswer
    <3>6. RequestInv' BY <2>1, <3>1, <3>2, <3>3 DEF HeldTransferInv, RequestInv, InAnswer
    <3>7. RunInv' BY <2>1, <3>1, <3>2 DEF HeldTransferInv, RunInv, InAnswer
    <3> QED BY <2>2, <3>4, <3>5, <3>6, <3>7 DEF Parts
  <2>4. CASE InCompleteStatus
    <3>1. state = "StatusIn" /\ state' = "Idle" /\ UNCHANGED <<tx, stallOut, i>>
      BY <2>4 DEF InCompleteStatus
    <3>2. xr = x /\ stage # "idle" => stage = "done" /\ rx.kind = "none"
      BY <2>1, <3>1 DEF HeldTransferInv, RunInv
    <3>3. HostInv' /\ UnansweredInv' /\ RequestInv'
      BY <2>1, <3>1 DEF HeldTransferInv, HostInv, UnansweredInv, RequestInv, InAnswer
    <3>4. RunInv' BY <2>1, <3>1, <3>2 DEF RunInv
    <3> QED BY <2>2, <3>3, <3>4 DEF Parts
  <2>5. CASE InCompleteIgnored
    <3>1. UNCHANGED <<tx, stallOut, state, i>> /\ state # "StatusIn" /\ pc' = "poll"
      BY <2>5 DEF InCompleteIgnored
    <3>2. HostInv' /\ UnansweredInv' /\ RequestInv'
      BY <2>1, <3>1 DEF HeldTransferInv, HostInv, UnansweredInv, RequestInv, InAnswer
    <3>3. RunInv' BY <2>1, <3>1 DEF HeldTransferInv, RunInv, Arrived
    <3> QED BY <2>2, <3>2, <3>3 DEF Parts
  <2> QED BY <1>2, <2>3, <2>4, <2>5 DEF HandleInComplete
<1>3. CASE PollReset
  <2>1. /\ busReset /\ busReset' = FALSE /\ state' = "Idle" /\ tx' = <<>> /\ inDone' = FALSE
        /\ rx'.kind = "none" /\ stallIn' = FALSE /\ stallOut' = FALSE
        /\ UNCHANGED <<xr, req, i, len, x, hreq, stage, sent, rcvd, resp, acked>>
    BY <1>3 DEF PollReset, ResetBus, hostVars, history, NoPacket
  <2>2. stage = "idle" BY <2>1 DEF HeldTransferInv, HostInv
  <2>3. OwnInv' /\ HostInv' /\ UnansweredInv' /\ RequestInv' /\ RunInv'
    BY <2>1, <2>2
    DEF HeldTransferInv, OwnInv, HostInv, UnansweredInv, RequestInv, RunInv, InAnswer
  <2> QED BY <2>3 DEF Parts
<1> QED BY <1>1, <1>2, <1>3

(* The answers. *)
LEMMA AnswerHeld ==
    ASSUME HeldTransferInv, Answer PROVE Parts'
<1> USE DEF Halted
<1>1. /\ UNCHANGED <<rx, inDone, busReset, x, hreq, stage, sent, rcvd, xr, req>>
      /\ acked' \in {acked, xr}
  BY DEF Answer, AcceptIn, AcceptInStatic, AcceptOut, AcceptHalting, Reject, Abandon, hostVars,
     busVars, pipeVars, history
<1>2. ASSUME WaitingForResponse, pc \in {"control_in", "control_out"}
      PROVE  /\ tx = <<>> /\ ~inDone /\ ~stallIn /\ ~stallOut
             /\ stage = "idle" => busReset
             /\ xr = x /\ stage # "idle" => stage # "failed" /\ acked # x /\ resp.xfer # x
  <2>1. state \in {"CompleteOut", "CompleteIn"} BY <1>2 DEF WaitingForResponse
  <2> QED BY <1>2, <2>1 DEF HeldTransferInv, UnansweredInv, HostInv, RunInv
<1>3. ASSUME state = "CompleteIn", pc = "control_in", state' \in InAnswer,
             resp'.xfer = xr, acked' = acked,
             req.length = 0 => len' = 0 /\ i' = 0 /\ (UNCHANGED tx \/ tx' = << <<>> >>),
             UNCHANGED <<stallIn, stallOut>>
      PROVE  Parts'
  <2>1. WaitingForResponse BY <1>3 DEF WaitingForResponse
  <2>2. OwnInv' BY <1>1, <1>3, HeldTypes DEF HeldTransferInv, OwnInv, Begun
  <2>3. HostInv' BY <1>1, <1>2, <1>3, <2>1 DEF HeldTransferInv, HostInv
  <2>4. UnansweredInv' BY <1>1, <1>2, <1>3, <2>1 DEF UnansweredInv, InAnswer
  <2>5. RequestInv' BY <1>1, <1>2, <1>3, <2>1 DEF HeldTransferInv, RequestInv, InAnswer
  <2>6. RunInv' BY <1>1, <1>2, <1>3, <2>1 DEF RunInv, InAnswer
  <2> QED BY <2>2, <2>3, <2>4, <2>5, <2>6 DEF Parts
<1>4. ASSUME WaitingForResponse, pc \in {"control_in", "control_out"}, SetError,
             UNCHANGED <<tx, resp, acked>>
      PROVE  Parts'
  <2>1. state' = "Error" BY <1>4 DEF SetError
  <2>2. OwnInv' /\ HostInv' BY <1>1, <1>2, <1>4 DEF HeldTransferInv, OwnInv, HostInv, Begun
  <2>3. UnansweredInv' /\ RequestInv' BY <2>1 DEF UnansweredInv, RequestInv, InAnswer
  <2>4. RunInv' BY <1>1, <1>2, <1>4, <2>1 DEF RunInv
  <2> QED BY <2>2, <2>3, <2>4 DEF Parts
<1>5. ASSUME NEW n \in BufLens, AcceptIn(n) PROVE Parts'
  <2>1. n \in Nat /\ BufLen \in Nat /\ state = "CompleteIn" /\ pc = "control_in"
        /\ WaitingForResponse
    BY <1>5 DEF PipeAssumption, BusAssumption, WaitingForResponse, AcceptIn
  <2>2. CASE n > BufLen BY <1>4, <1>5, <2>1, <2>2 DEF AcceptIn
  <2>3. CASE ~(n > BufLen)
    <3>1. TypeInv /\ xr \in Nat /\ static_in_buf \in StaticLens \cup {None}
          /\ buf \in [Idx -> Byte]
      BY HeldTypes DEF HeldTransferInv, TypeInv, TypeOK
    <3>2. buf' \in [Idx -> Byte] BY <1>5, <3>1 DEF AcceptIn, Byte, Idx
    <3>3. StartInTransfer(n, xr, static_in_buf, buf') BY <1>5, <2>3 DEF AcceptIn
    <3>4. /\ state' \in InAnswer /\ resp'.xfer = xr
          /\ req.length = 0 =>
                len' = 0 /\ i' = 0 /\ (UNCHANGED tx \/ tx' = << <<>> >>)
      BY <2>1, <3>1, <3>2, <3>3, StartedAnswer
    <3> QED BY <1>3, <1>5, <2>1, <2>3, <3>4 DEF AcceptIn
  <2> QED BY <2>2, <2>3
<1>6. ASSUME NEW n \in StaticLens, AcceptInStatic(n) PROVE Parts'
  <2>1. TypeInv /\ n \in Nat /\ n \in StaticLens \cup {None} /\ buf \in [Idx -> Byte]
    BY DEF PipeAssumption, HeldTransferInv, TypeInv, TypeOK
  <2>2. StartInTransfer(n, 0, n, buf) BY <1>6 DEF AcceptInStatic
  <2>3. /\ state' \in InAnswer /\ resp'.xfer = xr
        /\ req.length = 0 =>
              len' = 0 /\ i' = 0 /\ (UNCHANGED tx \/ tx' = << <<>> >>)
    BY <2>1, <2>2, StartedAnswer
  <2> QED BY <1>3, <1>6, <2>3 DEF AcceptInStatic
<1>7. ASSUME state = "CompleteOut", pc = "control_out", pc' = "poll", tx' = << <<>> >>,
             state' = "StatusIn", acked' = xr, UNCHANGED <<i, len, resp>>,
             UNCHANGED <<stallIn, stallOut>> \/ req \in Ep0Halts
      PROVE  Parts'
  <2>1. WaitingForResponse BY <1>7 DEF WaitingForResponse
  <2>2. xr = x /\ stage # "idle" => stage = "status" /\ rx.kind = "none"
    BY <1>2, <1>7, <2>1 DEF HeldTransferInv, RunInv
  <2>3. OwnInv' BY <1>1, <1>7, HeldTypes DEF HeldTransferInv, OwnInv, Begun
  <2>4. HostInv' BY <1>1, <1>2, <1>7, <2>1 DEF HeldTransferInv, HostInv
  <2>5. UnansweredInv' BY <1>1, <1>2, <1>7, <2>1 DEF UnansweredInv
  <2>6. RequestInv' BY <1>1, <1>7 DEF HeldTransferInv, RequestInv, InAnswer
  <2>7. RunInv' BY <1>1, <1>2, <1>7, <2>1, <2>2 DEF RunInv
  <2> QED BY <2>3, <2>4, <2>5, <2>6, <2>7 DEF Parts
<1>8. CASE Reject BY <1>4, <1>8 DEF Reject, history
<1>9. ASSUME pc' = "poll", UNCHANGED <<tx, state, i, len, resp, acked>>,
             \/ UNCHANGED <<stallIn, stallOut>>
             \/ state = "CompleteOut" /\ req \in Ep0Halts
      PROVE  Parts'
  <2>1. OwnInv' /\ HostInv' /\ UnansweredInv' /\ RequestInv'
    BY <1>1, <1>9
    DEF HeldTransferInv, OwnInv, HostInv, UnansweredInv, RequestInv, InAnswer, Begun
  <2>2. RunInv' BY <1>1, <1>9 DEF HeldTransferInv, RunInv, Arrived
  <2> QED BY <2>1, <2>2 DEF Parts
<1>10. CASE AcceptOut BY <1>7, <1>10 DEF AcceptOut, Write
<1>11. CASE AcceptHalting BY <1>7, <1>9, <1>11 DEF AcceptHalting, Write
<1>12. CASE Abandon BY <1>9, <1>12 DEF Abandon, busVars, pipeVars, history
<1> QED BY <1>5, <1>6, <1>8, <1>10, <1>11, <1>12 DEF Answer

(* The invariant holds at first and every step keeps it. *)
LEMMA HeldTransfer ==
    ASSUME SetupClearsIn PROVE Spec => []HeldTransferInv
<1>1. Init => HeldTransferInv
  <2> SUFFICES ASSUME Init PROVE HeldTransferInv
    OBVIOUS
  <2>1. TypeInv BY InitType
  <2>2. OwnInv /\ HostInv /\ UnansweredInv /\ RequestInv /\ RunInv
    BY DEF Init, BusInit, NoPacket, OwnInv, HostInv, UnansweredInv, RequestInv, RunInv, InAnswer
  <2> QED BY <2>1, <2>2 DEF HeldTransferInv
<1>2. HeldTransferInv /\ [Next]_vars => HeldTransferInv'
  <2> SUFFICES ASSUME HeldTransferInv, [Next]_vars PROVE HeldTransferInv'
    OBVIOUS
  <2>1. TypeInv' BY StepType DEF HeldTransferInv
  <2>2. ASSUME UNCHANGED vars PROVE Parts'
    <3> USE DEF vars, busVars, hostVars, pipeVars, history, Halted
    <3>1. OwnInv' /\ HostInv' BY <2>2 DEF HeldTransferInv, OwnInv, HostInv, Begun
    <3>2. UnansweredInv' /\ RequestInv'
      BY <2>2 DEF HeldTransferInv, UnansweredInv, RequestInv, InAnswer
    <3>3. RunInv' BY <2>2 DEF HeldTransferInv, RunInv, Arrived
    <3> QED BY <3>1, <3>2, <3>3 DEF Parts
  <2>3. Parts'
    BY <2>2, HostHeld, SetupHeld, OutHeld, PollHeld, AnswerHeld
    DEF Next, Poll
  <2> QED BY <2>1, <2>3 DEF Parts, HeldTransferInv
<1> QED BY <1>1, <1>2, PTL DEF Spec

(* A transfer that was accepted does not fail for its host, and
   handle_in_complete reports an OUT transfer complete, which gives the device
   its new address, only after the host took the status packet of that
   transfer: whatever requests come, whatever reads and writes fail, and
   whichever SETUP packets arrive truncated.  Only the driver has to drop the
   unsent answer when a SETUP packet is read.  A request that halts endpoint 0
   itself may fail, but makes no other transfer fail. *)
THEOREM AcceptedStaysAccepted ==
    ASSUME SetupClearsIn PROVE Spec => []AcceptedDoesNotFail
<1>1. HeldTransferInv => AcceptedDoesNotFail
  <2> SUFFICES ASSUME HeldTransferInv PROVE AcceptedDoesNotFail
    OBVIOUS
  <2>1. CASE xr = x
    BY <2>1, HeldTypes DEF HeldTransferInv, OwnInv, RunInv, Halted, AcceptedDoesNotFail
  <2>2. CASE xr # x BY <2>2, HeldTypes DEF HeldTransferInv, OwnInv, AcceptedDoesNotFail
  <2> QED BY <2>1, <2>2
<1> QED BY <1>1, HeldTransfer, PTL

THEOREM CompleteAfterTheHost ==
    ASSUME SetupClearsIn PROVE Spec => CompletesAfterStatus
<1>1. HeldTransferInv =>
        (pc = "in_complete" /\ state = "StatusIn" /\ xr = x => stage = "done" \/ busReset)
  BY DEF HeldTransferInv, RunInv, HostInv
<1> QED BY <1>1, HeldTransfer, PTL DEF CompletesAfterStatus
=============================================================================
