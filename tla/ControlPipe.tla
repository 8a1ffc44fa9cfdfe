----------------------------- MODULE ControlPipe -----------------------------
(***************************************************************************)
(* ControlPipe (src/src/control_pipe.rs): the control transfer state       *)
(* machine of endpoint 0, driven by UsbDevice::poll                        *)
(* (src/src/device.rs:183-284) and answered by the classes or the device   *)
(* through ControlIn and ControlOut (src/src/class.rs:144-222).            *)
(*                                                                         *)
(* One call of poll is several steps, and the host moves between them:     *)
(*   "poll"         the driver is asked for events; the handler of a SETUP *)
(*                  or OUT packet runs on the packet it reported           *)
(*   "in_complete"  handle_in_complete runs on the IN-complete event of    *)
(*                  the same report                                        *)
(*   "control_in", "control_out"   a request waits for its answer          *)
(*                                                                         *)
(* Operators that nothing uses stand before the one they are a mistaken    *)
(* form of (NoUnstall before Unstall): put in its place, they show that a  *)
(* property fails when the code goes wrong (PROJECT.json, mutants).        *)
(***************************************************************************)
EXTENDS Ep0Bus

CONSTANTS
    None,           \* static_in_buf: None
    BufLens,        \* lengths the callbacks given to accept_in return
    StaticLens,     \* lengths of the static buffers given to accept_in_static
    Ep0Halts,       \* requests that halt endpoint 0 itself (SET_FEATURE), or end that
    AcceptMayFail   \* may answering a request fail and leave it unanswered?

ASSUME PipeAssumption ==
    /\ BufLens \subseteq Nat /\ StaticLens \subseteq Nat
    /\ None \notin Nat
    /\ Ep0Halts \subseteq Requests /\ AcceptMayFail \in BOOLEAN

VARIABLES
    state,          \* ControlState
    xr,             \* transfer of the request held in the state or dispatched
    req,            \* that request
    i, len,         \* position in, and length of, the data stage
    buf,            \* the control buffer
    static_in_buf,  \* None, or the length of the static buffer being sent
    pc

VARIABLES           \* history: what the properties compare with
    resp,           \* the last IN answer: its transfer, source and length
    acked           \* the last OUT transfer that was accepted

pipeVars == <<state, xr, req, i, len, buf, static_in_buf>>
history == <<resp, acked>>
vars == <<busVars, hostVars, pipeVars, pc, history>>

Idx == 0..BufLen - 1
ControlStates ==
    {"Idle", "DataIn", "DataInZlp", "DataInLast", "CompleteIn", "StatusOut",
     "CompleteOut", "DataOut", "StatusIn", "Error"}

(* The pipe waits for a class or the device to answer a request. *)
WaitingForResponse == state \in {"CompleteOut", "CompleteIn"}

TypeOK ==
    /\ BusTypeOK
    /\ state \in ControlStates
    /\ xr \in 0..MaxSetups /\ req \in Requests
    /\ i \in Nat /\ len \in Nat
    /\ buf \in [Idx -> Byte]
    /\ static_in_buf \in StaticLens \cup {None}
    /\ pc \in {"poll", "in_complete", "control_in", "control_out", "panic"}
    /\ resp \in [xfer : 0..MaxSetups, src : 0..MaxSetups, len : Nat]
    /\ acked \in 0..MaxSetups

Init ==
    /\ BusInit
    /\ state = "Idle" /\ xr = 0 /\ req = NoRequest
    /\ i = 0 /\ len = 0 /\ static_in_buf = None
    /\ buf = [j \in Idx |-> <<0, 0>>]
    /\ pc = "poll"
    /\ resp = [xfer |-> 0, src |-> 0, len |-> 0] /\ acked = 0

-----------------------------------------------------------------------------
(* Stalling endpoint 0 in both directions, until the next SETUP packet. *)
SetError == state' = "Error" /\ stallOut' = TRUE /\ stallIn' = TRUE

(* ep_out.unstall(), once a SETUP packet was parsed. *)
NoUnstall == UNCHANGED stallOut
Unstall == stallOut' = FALSE

(* buf after the waiting packet was read to buf[at..]. *)
Received(at, j) == <<rx.xfer, IF rx.kind = "setup" THEN 0 ELSE rx.off + (j - at) + 1>>
BufReadToStart(at) ==
    [j \in Idx |-> IF j < rx.n THEN Received(0, j) ELSE buf[j]]
BufAfterRead(at) ==
    [j \in Idx |-> IF at <= j /\ j < at + rx.n THEN Received(at, j) ELSE buf[j]]

(* Where poll goes when the EP0 handler returned no request: to the
   IN-complete event of the same report, if there is one. *)
AfterNoRequest == IF inDone THEN "in_complete" ELSE "poll"

(* The data stage of an OUT request fits the control buffer. *)
FitsLoosely(r) == TRUE
FitsStrictly(r) == r.length < BufLen
DataStageFits(r) == r.length <= BufLen

(* The state for the data stage of an OUT request. *)
StateKept == state
StateForData == "DataOut"

(* What handle_setup does with a request it parsed. *)
ParsedSetup ==
    /\ Unstall
    /\ IF hreq.dir = "Out"
       THEN IF hreq.length = 0
            THEN /\ len' = 0 /\ state' = "CompleteOut" /\ pc' = "control_out"
                 /\ req' = hreq /\ xr' = rx.xfer
                 /\ UNCHANGED i
            ELSE /\ pc' = AfterNoRequest
                 /\ IF DataStageFits(hreq)
                    THEN /\ i' = 0 /\ len' = hreq.length /\ state' = StateForData
                         /\ req' = hreq /\ xr' = rx.xfer
                    ELSE UNCHANGED <<i, len, state, req, xr>>
       ELSE /\ state' = "CompleteIn" /\ pc' = "control_in"
            /\ req' = hreq /\ xr' = rx.xfer
            /\ UNCHANGED <<i, len>>

HandleSetup ==
    /\ pc = "poll" /\ PollData("setup")
    /\ \/ (* ep_out.read fails, the packet stays *)
          /\ BusErrors
          /\ pc' = AfterNoRequest
          /\ UNCHANGED <<rx, tx, stallIn, stallOut, pipeVars>>
       \/ /\ rx' = NoPacket /\ buf' = BufAfterRead(0)
          /\ SetupClears
          /\ IF rx.n = SetupLen
             THEN ParsedSetup
             ELSE /\ pc' = AfterNoRequest
                  /\ UNCHANGED <<i, len, state, req, xr, stallOut>>
          /\ UNCHANGED static_in_buf
    /\ UNCHANGED <<busReset, hostVars, history>>

(* All the bytes the SETUP packet announced have come. *)
DataStageOver(n) == n > len
AnyPacket(n) == TRUE
DataStageComplete(n) == n >= len

(* DataOut: the packet goes to the buffer.  A read that finds nothing is tried
   again with the next report, and any other failure is an error. *)
ReceiveData ==
    /\ state = "DataOut"
    /\ \/ /\ BusErrors
          /\ pc' = AfterNoRequest
          /\ UNCHANGED <<rx, i, buf, state, stallIn, stallOut>>
       \/ /\ BusErrors \/ rx.n > BufLen - i
          /\ SetError /\ pc' = AfterNoRequest
          /\ UNCHANGED <<rx, i, buf>>
       \/ /\ rx.n <= BufLen - i
          /\ rx' = NoPacket /\ buf' = BufAfterRead(i) /\ i' = i + rx.n
          /\ IF DataStageComplete(i + rx.n)
             THEN state' = "CompleteOut" /\ pc' = "control_out"
             ELSE UNCHANGED state /\ pc' = AfterNoRequest
          /\ UNCHANGED <<stallIn, stallOut>>

(* The other states read with an empty slice: only a zero-length packet can
   be read, and a longer one stays in the peripheral. *)
EmptyRead(next) ==
    /\ pc' = AfterNoRequest
    /\ UNCHANGED <<i, buf>>
    /\ \/ /\ rx.n > 0 \/ BusErrors
          /\ UNCHANGED <<rx, state, stallIn, stallOut>>
       \/ /\ rx.n = 0
          /\ rx' = NoPacket
          /\ next

(* The status packet of an IN transfer, at the end or early. *)
ReceiveStatus ==
    /\ state \in {"DataIn", "DataInLast", "DataInZlp", "StatusOut"}
    /\ EmptyRead(state' = "Idle" /\ UNCHANGED <<stallIn, stallOut>>)

UnexpectedOut ==
    /\ state \notin {"DataOut", "DataIn", "DataInLast", "DataInZlp", "StatusOut"}
    /\ EmptyRead(SetError)

HandleOut ==
    /\ pc = "poll" /\ PollData("out")
    /\ ReceiveData \/ ReceiveStatus \/ UnexpectedOut
    /\ UNCHANGED <<tx, busReset, xr, req, len, static_in_buf, hostVars, history>>

(* poll reports an IN-complete event alone. *)
PollAlwaysComplete ==
    /\ pc = "poll" /\ PollData("none")
    /\ pc' = "in_complete"
    /\ UNCHANGED <<rx, tx, stallIn, stallOut, busReset, hostVars, pipeVars, history>>
PollInComplete ==
    /\ pc = "poll" /\ inDone /\ PollData("none")
    /\ pc' = "in_complete"
    /\ UNCHANGED <<rx, tx, stallIn, stallOut, busReset, hostVars, pipeVars, history>>

-----------------------------------------------------------------------------
(* The next packet of an answer of total bytes, at position from. *)
ChunkLenUncapped(from, total) == total - from
ChunkLen(from, total) == Least(total - from, MPS)

(* The bytes of that packet, out of the static buffer if there is one (st)
   and of the buffer b otherwise. *)
ChunkFromStart(from, count, st, b) ==
    [k \in 1..count |-> IF st = None THEN b[k - 1] ELSE <<0, k>>]
Chunk(from, count, st, b) ==
    [k \in 1..count |-> IF st = None THEN b[from + k - 1] ELSE <<0, from + k>>]

(* After the last packet of data: a full one is followed by an empty one. *)
AlwaysLast(count) == "DataInLast"
StateAfterData(count) == IF count = MPS THEN "DataInZlp" ELSE "DataInLast"

(* write_in_chunk.  A slice that does not fit the buffer panics. *)
WriteInChunk(from, total, st, b) ==
    LET count == ChunkLen(from, total)
        size == IF st = None THEN BufLen ELSE st
        last == from + count >= total
    IN IF from + count > size
       THEN /\ pc' = "panic" /\ state' = "DataIn"
            /\ i' = from /\ static_in_buf' = st /\ UNCHANGED tx
       ELSE /\ pc' = "poll"
            /\ \/ /\ WriteFails
                  /\ state' = "DataIn" /\ i' = from
                  /\ static_in_buf' = st /\ UNCHANGED tx
               \/ /\ Write(Chunk(from, count, st, b))
                  /\ i' = from + count
                  /\ static_in_buf' = IF last THEN None ELSE st
                  /\ state' = IF last THEN StateAfterData(count) ELSE "DataIn"

InCompleteDataIn ==
    /\ state = "DataIn"
    /\ WriteInChunk(i, len, static_in_buf, buf)
    /\ UNCHANGED stallOut

InCompleteZlp ==
    /\ state = "DataInZlp" /\ pc' = "poll"
    /\ \/ WriteFails /\ UNCHANGED <<tx, state>>
       \/ Write(<<>>) /\ state' = "DataInLast"
    /\ UNCHANGED <<stallOut, i, static_in_buf>>

InCompleteLast ==
    /\ state = "DataInLast" /\ pc' = "poll"
    /\ stallOut' = FALSE /\ state' = "StatusOut"
    /\ UNCHANGED <<tx, i, static_in_buf>>

(* handle_in_complete returns true: the OUT transfer is complete. *)
InCompleteStatus ==
    /\ state = "StatusIn" /\ pc' = "poll"
    /\ state' = "Idle"
    /\ UNCHANGED <<tx, stallOut, i, static_in_buf>>

InCompleteIgnored ==
    /\ state \notin {"DataIn", "DataInZlp", "DataInLast", "StatusIn"}
    /\ pc' = "poll"
    /\ UNCHANGED <<tx, stallOut, state, i, static_in_buf>>

HandleInComplete ==
    /\ pc = "in_complete"
    /\ \/ InCompleteDataIn \/ InCompleteZlp \/ InCompleteLast
       \/ InCompleteStatus \/ InCompleteIgnored
    /\ UNCHANGED <<rx, inDone, stallIn, busReset, hostVars, xr, req, len, buf, history>>

-----------------------------------------------------------------------------
(* The answers of the classes and of the device. *)

AcceptOut ==
    /\ pc = "control_out" /\ state = "CompleteOut"
    /\ Write(<<>>) /\ state' = "StatusIn"
    /\ pc' = "poll" /\ acked' = xr
    /\ UNCHANGED <<rx, inDone, stallIn, stallOut, busReset, hostVars,
                   xr, req, i, len, buf, static_in_buf, resp>>

(* A request of the host to halt endpoint 0 itself, or to end that: the device
   sets or clears the STALL condition of one direction and then accepts. *)
AcceptHalting ==
    /\ pc = "control_out" /\ state = "CompleteOut" /\ req \in Ep0Halts
    /\ \/ stallIn' \in BOOLEAN /\ UNCHANGED stallOut
       \/ stallOut' \in BOOLEAN /\ UNCHANGED stallIn
    /\ \/ Write(<<>>) /\ state' = "StatusIn" /\ acked' = xr
       \/ WriteFails /\ UNCHANGED <<tx, state, acked>>
    /\ pc' = "poll"
    /\ UNCHANGED <<rx, inDone, busReset, hostVars, xr, req, i, len, buf,
                   static_in_buf, resp>>

(* The host gets no more than it asked for. *)
AsMuchAsAsked(n) == req.length
AnswerLen(n) == Least(n, req.length)

(* start_in_transfer, answering with n bytes of the source. *)
StartInTransfer(n, src, st, b) ==
    /\ len' = AnswerLen(n)
    /\ WriteInChunk(0, AnswerLen(n), st, b)
    /\ resp' = [xfer |-> xr, src |-> src, len |-> AnswerLen(n)]

(* The callback writes n bytes to the buffer. *)
AcceptIn(n) ==
    /\ pc = "control_in" /\ state = "CompleteIn"
    /\ buf' = [j \in Idx |-> IF j < n THEN <<xr, j + 1>> ELSE buf[j]]
    /\ IF n > BufLen
       THEN /\ SetError /\ pc' = "poll"
            /\ UNCHANGED <<tx, i, len, static_in_buf, resp>>
       ELSE /\ StartInTransfer(n, xr, static_in_buf, buf')
            /\ UNCHANGED <<stallIn, stallOut>>
    /\ UNCHANGED <<rx, inDone, busReset, hostVars, xr, req, acked>>

(* A static buffer of n bytes. *)
AcceptInStatic(n) ==
    /\ pc = "control_in" /\ state = "CompleteIn"
    /\ StartInTransfer(n, 0, n, buf)
    /\ UNCHANGED <<rx, inDone, stallIn, stallOut, busReset, hostVars,
                   xr, req, buf, acked>>

Reject ==
    /\ pc \in {"control_in", "control_out"} /\ WaitingForResponse
    /\ SetError /\ pc' = "poll"
    /\ UNCHANGED <<rx, tx, inDone, busReset, hostVars, xr, req, i, len, buf,
                   static_in_buf, history>>

(* The device's own answer fails before the pipe takes it and is returned
   with `?`: poll goes on with the request still waiting. *)
FinalRejectMissing ==
    /\ pc \in {"control_in", "control_out"}
    /\ pc' = "poll"
    /\ UNCHANGED <<busVars, hostVars, pipeVars, history>>

Abandon ==
    /\ \/ pc = "control_in" /\ AcceptMayFail
       \/ pc = "control_out" /\ WriteFails
    /\ pc' = "poll"
    /\ UNCHANGED <<busVars, hostVars, pipeVars, history>>

(* poll reports a bus reset: the peripheral and the pipe are reset. *)
PollReset ==
    /\ pc = "poll" /\ busReset
    /\ ResetBus
    /\ state' = "Idle"
    /\ UNCHANGED <<hostVars, xr, req, i, len, buf, static_in_buf, pc, history>>

-----------------------------------------------------------------------------
Poll == HandleSetup \/ HandleOut \/ PollInComplete \/ HandleInComplete \/ PollReset

Answer ==
    \/ \E n \in BufLens : AcceptIn(n)
    \/ \E n \in StaticLens : AcceptInStatic(n)
    \/ AcceptOut
    \/ AcceptHalting
    \/ Reject
    \/ Abandon

Next ==
    \/ HostNext /\ UNCHANGED <<pipeVars, pc, history>>
    \/ Poll
    \/ Answer

(* poll is called again and again, every request is answered in the call
   that found it, and the host goes on with the transfer it runs. *)
Fairness ==
    /\ WF_vars(Poll)
    /\ WF_vars(Answer)
    /\ WF_vars(HostProgress /\ UNCHANGED <<pipeVars, pc, history>>)

Spec == Init /\ [][Next]_vars
FairSpec == Spec /\ Fairness

-----------------------------------------------------------------------------
(* Properties. *)

(* The slices of the control buffer stay inside it: the next data packet of
   an OUT transfer is read to buf[i..], and data() gives a class buf[0..len],
   in the states that use them, whatever requests and bus errors come. *)
IndicesInRange ==
    /\ state = "DataOut" => i < len /\ len <= BufLen
    /\ pc = "control_out" => len <= BufLen
    /\ pc # "panic"

(* A request is dispatched with its own data and all of them: no byte of an
   aborted transfer, of a SETUP packet or of an older answer. *)
OutDataIntact ==
    pc = "control_out" =>
        /\ len = req.length
        /\ \A j \in 0..len - 1 : buf[j] = <<xr, j + 1>>

(* A class never answers a request that the host has given up, unless the
   SETUP packet of the new transfer, or a bus reset, is waiting for poll. *)
NoStaleDispatch ==
    pc \in {"control_in", "control_out"} =>
        xr = x \/ (rx.kind = "setup" /\ rx.xfer = x) \/ busReset

(* When poll has returned, every request it dispatched was answered: accepted
   or, when nobody did, rejected with a STALL. *)
NoRequestLeftWaiting == pc = "poll" => ~WaitingForResponse

(* What the host receives in an IN data stage is the answer supplied for
   this transfer, in order, and when the stage ends normally all of it. *)
InAnswerIntact ==
    stage # "idle" /\ hreq.dir = "In" /\ hreq.length > 0 =>
        /\ rcvd # <<>> =>
              /\ resp.xfer = x /\ Len(rcvd) <= resp.len
              /\ \A k \in 1..Len(rcvd) : rcvd[k] = <<resp.src, k>>
        /\ stage = "status" => resp.xfer = x /\ Len(rcvd) = resp.len

(* The host sees its OUT transfer acknowledged only if a class or the device
   accepted that very transfer. *)
AckOnlyAccepted ==
    stage = "done" /\ hreq.dir = "Out" => acked = x

(* A transfer that was accepted does not fail for the host: neither the
   stall of an earlier transfer nor a stale packet ends it.  The exception is a
   request that itself halts endpoint 0, before its own status stage. *)
AcceptedDoesNotFail ==
    stage = "failed" /\ hreq \notin Ep0Halts => acked # x /\ resp.xfer # x

(* handle_in_complete reports an OUT transfer complete (and the device then
   takes its new address) only after the host took the status packet of
   that transfer. *)
CompletesAfterStatus ==
    [][pc = "in_complete" /\ state = "StatusIn" /\ xr = x
        => stage = "done" \/ busReset]_vars

(* Every transfer the host does not give up comes to an end, by completion
   or by STALL: no request is left without an answer, no packet unread. *)
TransferEnds ==
    \A n \in 1..MaxSetups :
        (x = n /\ stage \in {"data", "status"}) ~> (x # n \/ TransferOver)

(* A transfer that was accepted is completed, unless the host gives it up. *)
AcceptedCompletes ==
    \A n \in 1..MaxSetups :
        (x = n /\ (acked = n \/ resp.xfer = n)) ~> (x # n \/ stage \in {"done", "idle"})

-----------------------------------------------------------------------------
(* The transfer as the host and the device see it, of ControlTransfer. *)
AbstractOutcome ==
    CASE stage = "data" /\ hreq.dir = "Out" -> "sending"
      [] stage = "status" \/ (stage = "data" /\ hreq.dir = "In") -> "waiting"
      [] stage = "done" -> "completed"
      [] stage \in {"idle", "failed"} -> stage

AbstractAnswer ==
    CASE state = "Idle" -> "none"
      [] state = "DataOut" -> "receiving"
      [] WaitingForResponse -> "asked"
      [] state \in {"DataIn", "DataInZlp", "DataInLast", "StatusOut", "StatusIn"} -> "accepted"
      [] state = "Error" -> "rejected"

Transfer == INSTANCE ControlTransfer
    WITH MaxTransfers <- MaxSetups, transfer <- x, outcome <- AbstractOutcome,
         handling <- xr, answer <- AbstractAnswer

(* The control pipe, with its packets, buffer and events, does what the
   abstract transfer allows: a class is asked once, about the newest transfer
   the pipe has read, and after all its data; the host's transfer completes
   only if accepted and fails only if rejected; and the pipe leaves an accepted
   transfer only when the host is through with it. *)
ImplementsTransfer == Transfer!TransferSpec
=============================================================================
