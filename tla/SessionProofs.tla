---------------------------- MODULE SessionProofs ----------------------------
(***************************************************************************)
(* The device and its host: the address the peripheral answers to, and the *)
(* configuration and remote wakeup setting they agree about outside        *)
(* transfers, for every value of the constants.                            *)
(***************************************************************************)
EXTENDS UsbDeviceProofs, AnswerProofs

USE BusAssumption, RequestAssumption, PipeAssumption, DeviceAssumption, DeviceRequestAssumption

(* The host does not give a transfer up by the next SETUP packet, nor ends a
   data stage early, and sets an address once.  It may reset, suspend and resume
   the bus between transfers and, with HostMayInterrupt, in the middle of them. *)
OrderlySession ==
    /\ GoodDriver /\ AnswersAllowed
    /\ HostMayAbort = FALSE /\ HostRepeatsAddress = FALSE

-----------------------------------------------------------------------------
(* The invariant. *)

(* The requests that change what the host and the device agree about are
   accepted without data only. *)
Setters == {"SET_ADDRESS", "SET_CONFIGURATION", "SET_REMOTE_WAKEUP", "CLEAR_REMOTE_WAKEUP"}
CallInv == state \in InAnswer => req.call \notin Setters

(* What the order of enumeration says of the running transfer, and, also when a
   bus reset has just ended that, of the request that waits for its answer: the
   device is configured only with an address. *)
OrderInv ==
    /\ stage \in {"data", "status"} =>
          /\ hreq.call = "SET_ADDRESS" => hconfig = 0 /\ hreq.value # haddr
          /\ hreq.call = "SET_CONFIGURATION" => haddr # 0
    /\ busReset => haddr = 0 /\ hconfig = 0 /\ ~hwakeup
    /\ state \in {"DataOut", "CompleteOut"} /\ req.call = "SET_CONFIGURATION" => addr # 0

(* The device has accepted the host's request to set something, and the host
   does not know yet. *)
Accepted(calls) ==
    xr = x /\ stage = "status" /\ state = "StatusIn" /\ hreq.call \in calls

(* With the quirk the device has the address it just accepted, and otherwise
   the host's. *)
SetAtOnce ==
    ~busReset =>
        /\ pending_address = 0
        /\ addr = IF Accepted({"SET_ADDRESS"}) THEN hreq.value ELSE haddr

(* Without it the device has the host's address, or waits for the end of the
   transfer that sets it; the host may know of the end before the device does. *)
SetAfterStatus ==
    ~busReset =>
        /\ Accepted({"SET_ADDRESS"}) => pending_address # 0
        /\ pending_address = 0 => addr = haddr
        /\ pending_address # 0 =>
              /\ state = "StatusIn" /\ xr = x /\ hreq.call = "SET_ADDRESS"
              /\ hreq.value = pending_address /\ pending_address # addr /\ hconfig = 0
              /\ \/ stage = "status" /\ haddr = addr
                 \/ stage = "done" /\ haddr = pending_address /\ (inDone \/ pc = "in_complete")

AddressInv == IF QUIRK_SET_ADDRESS_BEFORE_STATUS THEN SetAtOnce ELSE SetAfterStatus

(* The device has the host's settings, or those that it just accepted. *)
SettingsInv ==
    ~busReset =>
        /\ (AwakeState = "Configured") <=>
              (IF Accepted({"SET_CONFIGURATION"}) THEN hreq.value = 1 ELSE hconfig = 1)
        /\ remote_wakeup_enabled <=>
              (IF Accepted({"SET_REMOTE_WAKEUP", "CLEAR_REMOTE_WAKEUP"})
               THEN hreq.call = "SET_REMOTE_WAKEUP" ELSE hwakeup)

SessionInv ==
    /\ PipeInv /\ AskingInv /\ SuspendInv /\ DeviceTypeOK
    /\ HeldInv /\ CallInv /\ OrderInv
    /\ AddressInv /\ AddressedHasAddress /\ SettingsInv

-----------------------------------------------------------------------------
(* The type invariant of the device. *)

(* Every step keeps the types. *)
LEMMA DeviceType ==
    ASSUME TypeInv, SuspendInv', DeviceTypeOK, TypeOK',
           [DeviceNext]_allVars
    PROVE  DeviceTypeOK'
<1> SUFFICES /\ remote_wakeup_enabled' \in BOOLEAN
             /\ pending_address' \in 0..MaxAddress /\ addr' \in 0..MaxAddress
             /\ halted' \in BOOLEAN
             /\ line' \in {"active", "suspended"} /\ resumed' \in BOOLEAN
             /\ haddr' \in Nat /\ hconfig' \in Nat /\ hwakeup' \in BOOLEAN
  BY DEF DeviceTypeOK, SuspendInv
<1>0. /\ remote_wakeup_enabled \in BOOLEAN
      /\ pending_address \in 0..MaxAddress /\ addr \in 0..MaxAddress
      /\ halted \in BOOLEAN
      /\ line \in {"active", "suspended"} /\ resumed \in BOOLEAN
      /\ haddr \in Nat /\ hconfig \in Nat /\ hwakeup \in BOOLEAN
  BY DEF DeviceTypeOK
<1>1. CASE HostTransfer
  <2>1. hreq.value \in Nat BY BasicTypes
  <2>2. UNCHANGED <<remote_wakeup_enabled, pending_address, addr, halted, line, resumed>>
    BY <1>1 DEF HostTransfer, deviceVars
  <2>3. haddr' \in Nat /\ hconfig' \in Nat BY <1>0, <1>1, <2>1 DEF HostTransfer
  <2>4. hwakeup' \in {TRUE, FALSE, hwakeup} BY <1>1 DEF HostTransfer
  <2> QED BY <1>0, <2>2, <2>3, <2>4
<1>2. CASE HostSuspend \/ HostResume
  BY <1>0, <1>2 DEF HostSuspend, HostResume, deviceVars, beliefs
<1>7. CASE HostBusReset
  <2>1. /\ haddr' = 0 /\ hconfig' = 0 /\ hwakeup' = FALSE /\ line' = "active"
        /\ UNCHANGED <<remote_wakeup_enabled, pending_address, addr, halted>>
    BY <1>7 DEF HostBusReset, deviceVars
  <2>2. resumed' = FALSE \/ resumed' = (line = "suspended") BY <1>7 DEF HostBusReset
  <2>3. resumed' \in BOOLEAN BY <2>2, Zenon
  <2> QED BY <1>0, <2>1, <2>3
<1>3. CASE PollEp0 \/ PollSuspend \/ PollResume \/ ControlIn
  BY <1>0, <1>3 DEF PollEp0, PollSuspend, PollResume, ControlIn, deviceVars, hostSide, beliefs
<1>4. CASE PollEp0InComplete
  <2>1. /\ addr' = addr \/ addr' = pending_address
        /\ pending_address' = pending_address \/ pending_address' = 0
        /\ UNCHANGED <<remote_wakeup_enabled, halted, line, resumed, haddr, hconfig, hwakeup>>
    BY <1>4 DEF PollEp0InComplete, hostSide, beliefs
  <2> QED BY <1>0, <2>1
<1>8. CASE PollBusReset
  <2>1. 0 \in 0..MaxAddress BY DEF DeviceAssumption
  <2>2. /\ addr' = 0 /\ pending_address' = 0 /\ remote_wakeup_enabled' = FALSE /\ halted' = FALSE
        /\ UNCHANGED <<line, resumed, haddr, hconfig, hwakeup>>
    BY <1>8 DEF PollBusReset, ResetDevice, hostSide, beliefs
  <2> QED BY <1>0, <2>1, <2>2
<1>5. CASE ControlOut
  <2>1. CASE SetAddress
    BY <1>0, <2>1 DEF SetAddress, IsAddress, hostSide, beliefs
  <2>2. CASE RemoteWakeup \/ EndpointHalt
    BY <1>0, <2>2 DEF RemoteWakeup, EndpointHalt, HaltOther, HaltEp0, otherThanState,
       hostSide, beliefs
  <2>3. CASE ClassOut \/ SetConfiguration \/ SetInterface \/ UnknownOut
    BY <1>0, <2>3 DEF ClassOut, SetConfiguration, SetInterface, UnknownOut, deviceVars,
       otherThanState, hostSide, beliefs
  <2> QED BY <1>5, <2>1, <2>2, <2>3 DEF ControlOut
<1>6. CASE UNCHANGED allVars BY <1>0, <1>6 DEF allVars, deviceVars, beliefs
<1> QED BY <1>1, <1>2, <1>3, <1>4, <1>5, <1>6, <1>7, <1>8 DEF DeviceNext, DevicePoll

(* The initial states have their types. *)
LEMMA InitDeviceType == DeviceInit => TypeInv /\ SuspendInv /\ DeviceTypeOK
<1> SUFFICES ASSUME DeviceInit PROVE TypeInv /\ SuspendInv /\ DeviceTypeOK
  OBVIOUS
<1>1. TypeInv /\ Init BY InitType DEF DeviceInit
<1>2. 0 \in 0..MaxAddress BY DEF DeviceAssumption
<1> QED BY <1>1, <1>2
    DEF TypeInv, DeviceInit, Init, DeviceTypeOK, DeviceStates, SuspendInv, SuspendBookkeeping

(* The device and the host's beliefs keep their types, whatever the driver and
   the host do, with the quirk and without it: an address is always one that
   the peripheral can take. *)
THEOREM DeviceTypeCorrect ==
    ASSUME AnswersAllowed PROVE DeviceSpec => []DeviceTypeOK
<1> DEFINE Inv == TypeInv /\ SuspendInv /\ DeviceTypeOK
<1>1. DeviceInit => Inv BY InitDeviceType
<1>2. Inv /\ [DeviceNext]_allVars => Inv'
  <2> SUFFICES ASSUME Inv, [DeviceNext]_allVars PROVE Inv'
    OBVIOUS
  <2>1. TypeInv' BY DeviceStep, StepType
  <2>2. SuspendInv' BY SuspendStep
  <2>3. DeviceTypeOK' BY <2>1, <2>2, DeviceType DEF TypeInv
  <2> QED BY <2>1, <2>2, <2>3
<1> QED BY <1>1, <1>2, PTL DEF DeviceSpec

-----------------------------------------------------------------------------
(* The host's moves. *)

(* A transfer that ends normally was accepted, and by the pipe as it is. *)
LEMMA CompletedWasAccepted ==
    ASSUME GoodDriver, PipeInv, HostNext, UNCHANGED <<pipeVars, pc, history>>,
           stage = "status", stage' = "done"
    PROVE  xr = x /\ req = hreq /\ state \in InAnswer \cup {"StatusIn"} /\ ~busReset
<1>1. CASE TakeStatus
  <2>1. rx.kind # "setup" /\ tx # <<>> /\ ~busReset BY <1>1 DEF TakeStatus, InReady
  <2>2. xr = x /\ req = hreq BY <2>1 DEF PipeInv, EndInv, NewestInv
  <2>3. state \notin {"Idle", "DataOut", "CompleteOut", "CompleteIn", "Error"}
    BY <2>1, <2>2 DEF PipeInv, EndInv, QuietInv, StageInv
  <2> QED BY <2>1, <2>2, <2>3, BasicTypes DEF PipeInv, ControlStates, InAnswer
<1>2. CASE SendStatus
  <2>1. rx.kind = "none" /\ ~busReset /\ hreq.dir = "In" /\ hreq.length > 0
    BY <1>2, BasicTypes DEF SendStatus, OutReady, StatusDir, PipeInv
  <2>2. xr = x /\ req = hreq BY <2>1 DEF PipeInv, EndInv, NewestInv
  <2>3. state \notin {"Idle", "DataOut", "CompleteOut", "StatusIn", "CompleteIn", "Error"}
    BY <2>1, <2>2 DEF PipeInv, EndInv, RequestInv, StageInv, Begun
  <2> QED BY <2>1, <2>2, <2>3, BasicTypes DEF PipeInv, ControlStates, InAnswer
<1>3. ~SendOut /\ ~SendStatusEarly /\ ~TakeIn /\ ~HostSeesStall /\ ~HostReset
  BY DEF SendOut, SendStatusEarly, TakeIn, HostSeesStall, HostReset
<1>4. \A r \in Requests : ~HostSetup(r) BY DEF HostSetup
<1> QED BY <1>1, <1>2, <1>3, <1>4 DEF HostNext, HostProgress

(* The host begins a transfer: the device has its address and its settings. *)
LEMMA SessionSetup ==
    ASSUME OrderlySession, SessionInv, NEW r \in Requests, HostTransfer, InOrder(r), HostSetup(r)
    PROVE  CallInv' /\ OrderInv' /\ AddressInv' /\ AddressedHasAddress'
           /\ SettingsInv'
<1>1. /\ ~busReset /\ ~busReset' /\ stage \in {"idle", "done", "failed"} /\ x' = x + 1
      /\ hreq' = r /\ stage' \in {"data", "status"}
      /\ r.call = "SET_ADDRESS" => hconfig = 0 /\ r.value # haddr
      /\ r.call = "SET_CONFIGURATION" => haddr # 0
      /\ addr = haddr
      /\ UNCHANGED <<state, xr, req, pc, device_state, suspended_device_state,
                     remote_wakeup_enabled, pending_address, addr, inDone>>
  BY DEF OrderlySession, HostTransfer, HostSetup, TransferOver, InOrder, Reachable, pipeVars,
     deviceVars
<1>2. UNCHANGED <<haddr, hconfig, hwakeup>>
  BY <1>1 DEF HostTransfer, Completed
<1>3. xr # x' BY <1>1, BasicTypes DEF SessionInv, PipeInv, EndInv, NewestInv
<1>5. pending_address = 0
  BY <1>1 DEF SessionInv, AddressInv, SetAtOnce, SetAfterStatus
<1>6. CallInv' BY <1>1 DEF SessionInv, CallInv, InAnswer
<1>7. OrderInv' BY <1>1, <1>2 DEF SessionInv, OrderInv
<1>8. AddressInv' BY <1>1, <1>2, <1>3, <1>5 DEF AddressInv, SetAtOnce, SetAfterStatus, Accepted
<1>9. AddressedHasAddress'
  BY <1>1 DEF SessionInv, AddressedHasAddress, AwakeState, RestoredState
<1>10. SettingsInv'
  BY <1>1, <1>2, <1>3 DEF SessionInv, SettingsInv, AwakeState, RestoredState, Accepted
<1> QED BY <1>6, <1>7, <1>8, <1>9, <1>10

(* The host goes on with its transfer, and may learn that it is complete. *)
LEMMA SessionProgress ==
    ASSUME OrderlySession, SessionInv, PipeInv', HostTransfer, HostProgress
    PROVE  CallInv' /\ OrderInv' /\ AddressInv' /\ AddressedHasAddress'
           /\ SettingsInv'
<1>1. /\ stage \in {"data", "status"} /\ ~busReset /\ ~busReset'
      /\ stage' \in {"data", "status", "done", "failed"}
      /\ UNCHANGED <<state, xr, req, pc, device_state, suspended_device_state,
                     remote_wakeup_enabled, pending_address, addr, x, hreq>>
      /\ stage' = "done" /\ stage = "status" => inDone' \/ state # "StatusIn"
  <2>1. UNCHANGED <<state, xr, req, pc, device_state, suspended_device_state,
                    remote_wakeup_enabled, pending_address, addr>>
    BY DEF HostTransfer, pipeVars, deviceVars
  <2>2. CASE SendOut BY <2>1, <2>2 DEF SendOut, OutReady
  <2>3. CASE SendStatus
    <3>1. hreq.dir = "In" /\ rx.kind = "none"
      BY <2>3, BasicTypes DEF SendStatus, OutReady, StatusDir, SessionInv, PipeInv
    <3>2. state # "StatusIn"
      BY <2>3, <3>1 DEF SendStatus, SessionInv, PipeInv, EndInv, NewestInv, RequestInv
    <3> QED BY <2>1, <2>3, <3>2 DEF SendStatus, OutReady
  <2>4. CASE TakeIn BY <2>1, <2>4 DEF TakeIn, InReady
  <2>5. CASE TakeStatus BY <2>1, <2>5 DEF TakeStatus, InReady
  <2>6. CASE HostSeesStall BY <2>1, <2>6 DEF HostSeesStall, busVars
  <2> QED BY <2>2, <2>3, <2>4, <2>5, <2>6 DEF HostProgress
<1>2. HostNext /\ UNCHANGED <<pipeVars, pc, history>> BY DEF HostNext, HostTransfer
<1>3. /\ haddr' = IF Completed("SET_ADDRESS") THEN hreq.value ELSE haddr
      /\ hconfig' = IF Completed("SET_CONFIGURATION") THEN hreq.value ELSE hconfig
      /\ hwakeup' = IF Completed("SET_REMOTE_WAKEUP") THEN TRUE
                    ELSE IF Completed("CLEAR_REMOTE_WAKEUP") THEN FALSE ELSE hwakeup
  BY DEF HostTransfer
<1>4. CallInv'
  BY <1>1 DEF SessionInv, CallInv, PipeInv, EndInv, StageInv
<1>5. AddressedHasAddress'
  BY <1>1 DEF SessionInv, AddressedHasAddress, AwakeState, RestoredState
<1>6. stage = "status" /\ stage' = "done" =>
        xr = x /\ req = hreq /\ (hreq.call \in Setters => state = "StatusIn")
  BY <1>2, CompletedWasAccepted DEF SessionInv, OrderlySession, CallInv
<1>7. CASE stage = "status" /\ stage' = "done"
  <2>1. OrderInv' BY <1>1, <1>7 DEF SessionInv, OrderInv
  <2>2. \A calls : ~Accepted(calls)' BY <1>7 DEF Accepted
  <2>3. AddressInv'
    <3>1. CASE hreq.call = "SET_ADDRESS"
      <4>1. haddr' = hreq.value BY <1>3, <1>7, <3>1 DEF Completed
      <4>2. Accepted({"SET_ADDRESS"}) BY <1>6, <1>7, <3>1 DEF Accepted, Setters
      <4>3. IF QUIRK_SET_ADDRESS_BEFORE_STATUS
            THEN pending_address = 0 /\ addr = hreq.value
            ELSE /\ pending_address # 0 /\ hreq.value = pending_address /\ hconfig = 0
                 /\ pending_address # addr
        BY <1>1, <4>2 DEF SessionInv, AddressInv, SetAtOnce, SetAfterStatus
      <4>4. hconfig' = hconfig BY <1>3, <3>1 DEF Completed
      <4>5. inDone' BY <1>1, <1>7, <4>2 DEF Accepted
      <4> QED BY <1>1, <1>7, <2>2, <3>1, <4>1, <4>2, <4>3, <4>4, <4>5
          DEF AddressInv, SetAtOnce, SetAfterStatus, Accepted
    <3>2. CASE hreq.call # "SET_ADDRESS"
      <4>1. haddr' = haddr /\ pending_address = 0
        BY <1>1, <1>3, <3>2 DEF Completed, SessionInv, AddressInv, SetAtOnce, SetAfterStatus
      <4> QED BY <1>1, <2>2, <3>2, <4>1
          DEF SessionInv, AddressInv, SetAtOnce, SetAfterStatus, Accepted
    <3> QED BY <3>1, <3>2
  <2>4. SettingsInv'
    <3>1. (AwakeState = "Configured" <=> hconfig' = 1)
      <4>1. CASE hreq.call = "SET_CONFIGURATION"
        BY <1>1, <1>3, <1>6, <1>7, <4>1
        DEF Completed, SessionInv, SettingsInv, Accepted, Setters
      <4>2. CASE hreq.call # "SET_CONFIGURATION"
        BY <1>1, <1>3, <4>2 DEF Completed, SessionInv, SettingsInv, Accepted
      <4> QED BY <4>1, <4>2
    <3>2. remote_wakeup_enabled <=> hwakeup'
      <4>1. CASE hreq.call = "SET_REMOTE_WAKEUP"
        <5>1. hwakeup' = TRUE BY <1>3, <1>7, <4>1 DEF Completed
        <5> QED BY <1>1, <1>6, <1>7, <4>1, <5>1
            DEF SessionInv, SettingsInv, Accepted, Setters
      <4>2. CASE hreq.call = "CLEAR_REMOTE_WAKEUP"
        <5>1. hwakeup' = FALSE BY <1>3, <1>7, <4>2 DEF Completed
        <5> QED BY <1>1, <1>6, <1>7, <4>2, <5>1
            DEF SessionInv, SettingsInv, Accepted, Setters
      <4>3. CASE hreq.call \notin {"SET_REMOTE_WAKEUP", "CLEAR_REMOTE_WAKEUP"}
        <5>1. hwakeup' = hwakeup BY <1>3, <4>3 DEF Completed
        <5> QED BY <1>1, <4>3, <5>1 DEF SessionInv, SettingsInv, Accepted
      <4> QED BY <4>1, <4>2, <4>3
    <3>3. AwakeState' = AwakeState BY <1>1 DEF AwakeState, RestoredState
    <3> QED BY <1>1, <2>2, <3>1, <3>2, <3>3 DEF SettingsInv
  <2> QED BY <1>4, <1>5, <2>1, <2>3, <2>4
<1>8. CASE ~(stage = "status" /\ stage' = "done")
  <2>1. UNCHANGED <<haddr, hconfig, hwakeup>> BY <1>3, <1>8 DEF Completed
  <2>2. OrderInv' BY <1>1, <2>1 DEF SessionInv, OrderInv
  <2>3. xr = x /\ state = "StatusIn" => stage = "status" /\ stage' = "status"
    <3> SUFFICES ASSUME xr = x, state = "StatusIn"
                 PROVE  stage = "status" /\ stage' = "status"
      OBVIOUS
    <3>1. stage = "status" BY <1>1 DEF SessionInv, PipeInv, EndInv, StageInv
    <3>2. stage' # "failed" BY <1>1 DEF PipeInv, EndInv, StageInv
    <3>3. stage' # "data"
      BY <1>1 DEF PipeInv, EndInv, StageInv
    <3> QED BY <1>1, <1>8, <3>1, <3>2, <3>3
  <2>4. AddressInv'
    BY <1>1, <2>1, <2>3 DEF SessionInv, AddressInv, SetAtOnce, SetAfterStatus, Accepted
  <2>5. AwakeState' = AwakeState BY <1>1 DEF AwakeState, RestoredState
  <2>6. /\ Accepted({"SET_CONFIGURATION"})' <=> Accepted({"SET_CONFIGURATION"})
        /\ Accepted({"SET_REMOTE_WAKEUP", "CLEAR_REMOTE_WAKEUP"})' <=>
              Accepted({"SET_REMOTE_WAKEUP", "CLEAR_REMOTE_WAKEUP"})
    BY <1>1, <2>3 DEF Accepted
  <2>7. SettingsInv' BY <1>1, <2>1, <2>5, <2>6 DEF SessionInv, SettingsInv
  <2> QED BY <1>4, <1>5, <2>2, <2>4, <2>7
<1> QED BY <1>7, <1>8

(* A bus reset: the host forgets what it set. *)
LEMMA SessionReset ==
    ASSUME OrderlySession, SessionInv, HostBusReset
    PROVE  CallInv' /\ OrderInv' /\ AddressInv' /\ AddressedHasAddress'
           /\ SettingsInv'
<1>1. /\ busReset' /\ ~busReset /\ stage' = "idle"
      /\ haddr' = 0 /\ hconfig' = 0 /\ hwakeup' = FALSE
      /\ UNCHANGED <<state, xr, req, device_state, suspended_device_state, addr>>
  BY DEF HostBusReset, HostReset, pipeVars, deviceVars
<1> QED BY <1>1 DEF SessionInv, CallInv, OrderInv, AddressInv, SetAtOnce,
        SetAfterStatus, SettingsInv, AddressedHasAddress, AwakeState, RestoredState, InAnswer

-----------------------------------------------------------------------------
(* poll. *)

(* Waking up takes up the state from before the suspension. *)
LEMMA WakeKeepsAwakeState ==
    ASSUME SuspendInv, Wake PROVE AwakeState' = AwakeState
<1>1. device_state' = RestoredState /\ device_state' # "Suspend"
  BY WakeRestores DEF Wake
<1> QED BY <1>1 DEF AwakeState, RestoredState

(* A packet, or an IN-complete event. *)
LEMMA SessionEp0 ==
    ASSUME OrderlySession, SessionInv, PipeInv', PollEp0
    PROVE  CallInv' /\ OrderInv' /\ AddressInv' /\ AddressedHasAddress'
           /\ SettingsInv'
<1>1. /\ AwakeState' = AwakeState /\ pc = "poll" /\ ~busReset /\ ~busReset'
      /\ UNCHANGED <<x, hreq, stage, remote_wakeup_enabled, pending_address, addr,
                     haddr, hconfig, hwakeup>>
  BY WakeKeepsAwakeState DEF SessionInv, PollEp0, HandleSetup, HandleOut, PollInComplete,
     PollData, hostVars, hostSide, beliefs
<1>2. \/ UNCHANGED <<state, xr, req>>
      \/ /\ state # "StatusIn" \/ xr # x
         /\ xr' = x /\ stage # "idle"
         /\ state' \notin InAnswer \cup {"StatusIn"}
  <2>1. CASE HandleSetup
    <3>1. /\ rx.kind = "setup" /\ rx.xfer = x /\ rx.n = SetupLen /\ ParsedSetup
      BY <2>1 DEF HandleSetup, PollData, SessionInv, PipeInv, IntactInv, PacketInv,
         OrderlySession, GoodDriver, DataStagesFit
    <3>2. hreq.dir = "Out" => DataStageFits(hreq)
      BY BasicTypes DEF SessionInv, PipeInv, OrderlySession, GoodDriver, DataStagesFit,
         DataStageFits
    <3>3. xr' = x /\ state' \in {"CompleteIn", "CompleteOut", "DataOut"}
      BY <3>1, <3>2 DEF ParsedSetup, StateForData
    <3>4. xr < x /\ stage # "idle" BY <3>1 DEF SessionInv, PipeInv, EndInv, NewestInv, WaitingInv,
             Begun
    <3>5. xr # x BY <3>4, BasicTypes DEF SessionInv, PipeInv
    <3> QED BY <3>3, <3>4, <3>5 DEF InAnswer
  <2>2. CASE HandleOut
    <3>1. /\ rx.kind = "out" /\ UNCHANGED <<xr, req>>
          /\ ReceiveData \/ ReceiveStatus \/ UnexpectedOut
      BY <2>2 DEF HandleOut, PollData
    <3>2. xr = x /\ stage # "idle"
      BY <3>1 DEF SessionInv, PipeInv, EndInv, NewestInv, WaitingInv
    <3>3. state # "StatusIn"
      BY <3>1, <3>2 DEF SessionInv, PipeInv, EndInv, StageInv
    <3>4. state' = state \/ state' \in {"Idle", "Error", "CompleteOut"}
      BY <3>1 DEF ReceiveData, ReceiveStatus, UnexpectedOut, EmptyRead, SetError
    <3> QED BY <3>1, <3>2, <3>3, <3>4 DEF InAnswer
  <2>3. CASE PollInComplete BY <2>3 DEF PollInComplete, pipeVars
  <2> QED BY <2>1, <2>2, <2>3 DEF PollEp0
<1>3. inDone => inDone' \/ pc' = "in_complete" \/ state # "StatusIn" \/ xr # x
  <2>1. CASE PollInComplete BY <2>1 DEF PollInComplete
  <2>2. CASE HandleSetup
    <3>1. rx.kind = "setup" BY <2>2 DEF HandleSetup, PollData
    <3>2. xr # x BY <3>1, BasicTypes DEF SessionInv, PipeInv, EndInv, NewestInv
    <3> QED BY <3>2
  <2>3. CASE HandleOut
    <3>1. rx.kind = "out" BY <2>3 DEF HandleOut, PollData
    <3>2. xr = x => state # "StatusIn"
      BY <3>1 DEF SessionInv, PipeInv, EndInv, NewestInv, WaitingInv, StageInv
    <3> QED BY <3>2
  <2> QED BY <2>1, <2>2, <2>3 DEF PollEp0
<1>5. CallInv' BY <1>2 DEF SessionInv, CallInv
<1>6. OrderInv'
  <2>1. ASSUME state' \in {"DataOut", "CompleteOut"}, req'.call = "SET_CONFIGURATION"
        PROVE  addr # 0
    <3>1. CASE UNCHANGED req /\ state \in {"DataOut", "CompleteOut"}
      BY <2>1, <3>1 DEF SessionInv, OrderInv
    <3>2. CASE HandleSetup
      <4>1. rx.kind = "setup" /\ ~busReset /\ rx.n = SetupLen /\ ParsedSetup
        BY <3>2 DEF HandleSetup, PollData, SessionInv, PipeInv, IntactInv, PacketInv,
           OrderlySession, GoodDriver, DataStagesFit
      <4>2. hreq.dir = "Out" => DataStageFits(hreq)
        BY BasicTypes DEF SessionInv, PipeInv, OrderlySession, GoodDriver, DataStagesFit,
           DataStageFits
      <4>3. req' = hreq BY <4>1, <4>2 DEF ParsedSetup
      <4>4. stage \in {"data", "status"}
        BY <4>1 DEF SessionInv, PipeInv, EndInv, WaitingInv, Begun
      <4>5. haddr # 0 BY <2>1, <4>3, <4>4 DEF SessionInv, OrderInv
      <4>6. addr = haddr
        BY <2>1, <4>1, <4>3 DEF SessionInv, AddressInv, SetAtOnce, SetAfterStatus, Accepted
      <4> QED BY <4>5, <4>6
    <3>3. CASE HandleOut
      <4>1. /\ UNCHANGED req
            /\ \/ state = "DataOut" /\ state' = "CompleteOut"
               \/ state' \in {state, "Idle", "Error"}
        BY <3>3 DEF HandleOut, ReceiveData, ReceiveStatus, UnexpectedOut, EmptyRead, SetError
      <4> QED BY <2>1, <3>1, <4>1
    <3>4. CASE PollInComplete BY <2>1, <3>1, <3>4 DEF PollInComplete, pipeVars
    <3> QED BY <3>2, <3>3, <3>4 DEF PollEp0
  <2> QED BY <1>1, <2>1 DEF SessionInv, OrderInv
<1>7. \A calls : Accepted(calls)' <=> Accepted(calls)
  BY <1>1, <1>2 DEF Accepted
<1>8. AddressInv'
  BY <1>1, <1>2, <1>3, <1>7 DEF SessionInv, AddressInv, SetAtOnce, SetAfterStatus
<1>9. AddressedHasAddress' BY <1>1 DEF SessionInv, AddressedHasAddress
<1>10. SettingsInv' BY <1>1, <1>7 DEF SessionInv, SettingsInv
<1> QED BY <1>5, <1>6, <1>8, <1>9, <1>10

(* The IN-complete event: the device takes its address. *)
LEMMA SessionInComplete ==
    ASSUME OrderlySession, SessionInv, PipeInv', PollEp0InComplete
    PROVE  CallInv' /\ OrderInv' /\ AddressInv' /\ AddressedHasAddress'
           /\ SettingsInv'
<1>1. /\ HandleInComplete /\ pc = "in_complete"
      /\ UNCHANGED <<x, hreq, stage, xr, req, busReset, haddr, hconfig, hwakeup,
                     remote_wakeup_enabled, suspended_device_state>>
      /\ device_state # "Suspend"
  BY DEF PollEp0InComplete, HandleInComplete, hostVars, hostSide, beliefs, SessionInv, SuspendInv
<1>2. /\ state' \in InAnswer => state \in InAnswer
      /\ state = "StatusIn" => state' = "Idle"
      /\ state' = "StatusIn" => FALSE
      /\ state' \in {"DataOut", "CompleteOut", "CompleteIn"} => state' = state
  BY <1>1 DEF HandleInComplete, InCompleteDataIn, InCompleteZlp, InCompleteLast,
     InCompleteStatus, InCompleteIgnored, WriteInChunk, StateAfterData, InAnswer
<1>3. CallInv' /\ OrderInv'
  <2>1. addr' = addr \/ state = "StatusIn"
    BY DEF PollEp0InComplete, TakesAddress
  <2> QED BY <1>1, <1>2, <2>1 DEF SessionInv, CallInv, OrderInv
<1>4. \A calls : ~Accepted(calls) /\ ~Accepted(calls)'
  BY <1>1, <1>2 DEF Accepted, SessionInv, PipeInv, EndInv, StageInv
<1>5. CASE TakesAddress
  <2>1. /\ addr' = pending_address /\ pending_address' = 0 /\ device_state' = "Addressed"
        /\ pending_address # 0 /\ state = "StatusIn"
    BY <1>5 DEF PollEp0InComplete, TakesAddress
  <2>2. AwakeState' = "Addressed" BY <2>1 DEF AwakeState, RestoredState
  <2>3. ~busReset => haddr = pending_address /\ hconfig = 0
    <3> SUFFICES ASSUME ~busReset PROVE haddr = pending_address /\ hconfig = 0
      OBVIOUS
    <3>1. /\ xr = x /\ hconfig = 0
          /\ stage = "status" \/ haddr = pending_address
      BY <2>1 DEF SessionInv, AddressInv, SetAtOnce, SetAfterStatus
    <3>2. stage # "status"
      BY <1>1, <2>1, <3>1 DEF SessionInv, PipeInv, EndInv, StageInv
    <3> QED BY <3>1, <3>2
  <2>4. AddressInv' BY <1>1, <1>4, <2>1, <2>3 DEF AddressInv, SetAtOnce, SetAfterStatus
  <2>5. AddressedHasAddress' BY <2>1, <2>2 DEF AddressedHasAddress
  <2>6. SettingsInv' BY <1>1, <1>4, <2>2, <2>3 DEF SessionInv, SettingsInv
  <2> QED BY <1>3, <2>4, <2>5, <2>6
<1>6. CASE ~TakesAddress
  <2>1. UNCHANGED <<addr, pending_address, device_state>>
    BY <1>6 DEF PollEp0InComplete
  <2>2. QUIRK_SET_ADDRESS_BEFORE_STATUS \/ state # "StatusIn" \/ pending_address = 0
    BY <1>6 DEF TakesAddress
  <2>3. AwakeState' = AwakeState BY <1>1, <2>1 DEF AwakeState, RestoredState
  <2>4. AddressInv' BY <1>1, <1>4, <2>1, <2>2 DEF SessionInv, AddressInv, SetAtOnce, SetAfterStatus
  <2>5. AddressedHasAddress' BY <2>1, <2>3 DEF SessionInv, AddressedHasAddress
  <2>6. SettingsInv' BY <1>1, <1>4, <2>3 DEF SessionInv, SettingsInv
  <2> QED BY <1>3, <2>4, <2>5, <2>6
<1> QED BY <1>5, <1>6

(* The device hears of a bus reset. *)
LEMMA SessionPollReset ==
    ASSUME OrderlySession, SessionInv, PollBusReset
    PROVE  CallInv' /\ OrderInv' /\ AddressInv' /\ AddressedHasAddress'
           /\ SettingsInv'
<1>1. /\ busReset /\ ~busReset' /\ state' = "Idle" /\ device_state' = "Default"
      /\ addr' = 0 /\ pending_address' = 0 /\ remote_wakeup_enabled' = FALSE
      /\ UNCHANGED <<stage, hreq, haddr, hconfig, hwakeup>>
  BY DEF PollBusReset, PollReset, ResetBus, ResetDevice, hostVars, hostSide, beliefs
<1>2. haddr = 0 /\ hconfig = 0 /\ ~hwakeup BY <1>1 DEF SessionInv, OrderInv
<1>3. stage = "idle" BY <1>1 DEF SessionInv, PipeInv, EndInv, WaitingInv
<1>4. AwakeState' = "Default" BY <1>1 DEF AwakeState, RestoredState
<1> QED BY <1>1, <1>2, <1>3, <1>4
    DEF CallInv, OrderInv, AddressInv, SetAtOnce, SetAfterStatus,
        AddressedHasAddress, SettingsInv, Accepted, InAnswer

(* The bus is suspended and resumed. *)
LEMMA SessionSuspend ==
    ASSUME OrderlySession, SessionInv,
           HostSuspend \/ HostResume \/ PollSuspend \/ PollResume \/ UNCHANGED allVars
    PROVE  CallInv' /\ OrderInv' /\ AddressInv' /\ AddressedHasAddress'
           /\ SettingsInv'
<1>1. /\ UNCHANGED <<vars, remote_wakeup_enabled, pending_address, addr, beliefs>>
  BY DEF HostSuspend, HostResume, PollSuspend, PollResume, allVars, deviceVars, hostSide
<1>2. AwakeState' = AwakeState
  <2>1. CASE HostSuspend \/ HostResume \/ UNCHANGED allVars
    BY <2>1 DEF HostSuspend, HostResume, allVars, deviceVars, AwakeState, RestoredState
  <2>2. CASE PollSuspend BY <2>2 DEF PollSuspend, AwakeState, RestoredState
  <2>3. CASE PollResume
    BY <2>3, WakeKeepsAwakeState DEF PollResume, SessionInv
  <2> QED BY <2>1, <2>2, <2>3
<1>3. UNCHANGED <<state, xr, req, x, hreq, stage, busReset, inDone, pc, haddr, hconfig, hwakeup>>
  BY <1>1 DEF vars, busVars, hostVars, pipeVars, beliefs
<1>4. CallInv' /\ OrderInv'
  BY <1>1, <1>3 DEF SessionInv, CallInv, OrderInv
<1>5. AddressInv' BY <1>1, <1>3 DEF SessionInv, AddressInv, SetAtOnce,
     SetAfterStatus, Accepted
<1>6. AddressedHasAddress' BY <1>1, <1>2 DEF SessionInv, AddressedHasAddress
<1>7. SettingsInv' BY <1>1, <1>2, <1>3 DEF SessionInv, SettingsInv, Accepted
<1> QED BY <1>4, <1>5, <1>6, <1>7

-----------------------------------------------------------------------------
(* The answers of the device. *)

(* A request with an IN data stage changes nothing the host knows of. *)
LEMMA SessionControlIn ==
    ASSUME OrderlySession, SessionInv, ControlIn
    PROVE  CallInv' /\ OrderInv' /\ AddressInv' /\ AddressedHasAddress'
           /\ SettingsInv'
<1>1. /\ UNCHANGED <<x, hreq, stage, busReset, xr, req, deviceVars, hostSide>>
      /\ pc = "control_in" /\ state = "CompleteIn"
      /\ \/ UNCHANGED state
         \/ state' = "Error"
         \/ state' \in InAnswer /\ req.call \notin Setters
  BY DEF SessionInv, AskingInv, ControlIn, ClassIn, StatusIn, DescriptorIn, UnknownIn, AcceptIn,
     AcceptInStatic, StartInTransfer, WriteInChunk, StateAfterData, Reject, SetError, Abandon,
     Setters, InAnswer, busVars, hostVars, pipeVars
<1>2. state' # "StatusIn" /\ state # "StatusIn" BY <1>1 DEF InAnswer
<1>3. pending_address = 0 \/ busReset BY <1>2 DEF SessionInv, AddressInv, SetAtOnce, SetAfterStatus
<1>4. UNCHANGED <<device_state, suspended_device_state, remote_wakeup_enabled, pending_address,
                  addr, haddr, hconfig, hwakeup>>
  BY <1>1 DEF deviceVars, hostSide, beliefs
<1>5. CallInv' /\ OrderInv'
  BY <1>1, <1>4 DEF SessionInv, CallInv, OrderInv, InAnswer
<1>6. AwakeState' = AwakeState BY <1>4 DEF AwakeState, RestoredState
<1>7. AddressInv' BY <1>1, <1>2, <1>3, <1>4 DEF SessionInv, AddressInv, SetAtOnce,
     SetAfterStatus, Accepted
<1>8. AddressedHasAddress' BY <1>4, <1>6 DEF SessionInv, AddressedHasAddress
<1>9. SettingsInv' BY <1>1, <1>2, <1>4, <1>6 DEF SessionInv, SettingsInv, Accepted
<1> QED BY <1>5, <1>7, <1>8, <1>9

(* A request without one is accepted or rejected, and endpoint 0 is not halted. *)
LEMMA ControlOutIs ==
    ASSUME OrderlySession, SessionInv, ControlOut
    PROVE  /\ UNCHANGED <<x, hreq, stage, busReset, xr, req>>
           /\ pc = "control_out" /\ state = "CompleteOut" /\ ~Abandon /\ ~HaltEp0
           /\ AcceptOut \/ Reject
<1>1. ~AcceptHalting BY DEF AcceptHalting, OrderlySession, GoodDriver
<1>2. pc = "control_out" /\ state = "CompleteOut" /\ ~Abandon
  BY AcceptOutSucceeds DEF OrderlySession, SessionInv, AskingInv, ControlOut
<1>3. ~HaltEp0 BY <1>1 DEF HaltEp0
<1>4. AcceptOut \/ Reject
  BY <1>2, <1>3 DEF ControlOut, ClassOut, RemoteWakeup, EndpointHalt, HaltOther, SetAddress,
     SetConfiguration, SetInterface, UnknownOut, Accept
<1>5. UNCHANGED <<x, hreq, stage, busReset, xr, req>>
  BY <1>4 DEF AcceptOut, Reject, hostVars
<1> QED BY <1>2, <1>3, <1>4, <1>5

(* One that is answered after a bus reset, before poll sees that: the device may
   still take an address or a configuration, but the one only with the other. *)
LEMMA SessionLateAnswer ==
    ASSUME OrderlySession, SessionInv, ControlOut, busReset
    PROVE  CallInv' /\ OrderInv' /\ AddressInv' /\ AddressedHasAddress'
           /\ SettingsInv'
<1>1. /\ UNCHANGED <<x, hreq, stage, busReset, xr, req>>
      /\ pc = "control_out" /\ state = "CompleteOut" /\ ~Abandon /\ ~HaltEp0
      /\ AcceptOut \/ Reject
  BY ControlOutIs
<1>2. state' \in {"StatusIn", "Error"} BY <1>1 DEF AcceptOut, Reject, SetError
<1>3. UNCHANGED <<haddr, hconfig, hwakeup, suspended_device_state>>
  BY DEF ControlOut, ClassOut, RemoteWakeup, EndpointHalt, SetAddress, SetConfiguration,
     SetInterface, UnknownOut, deviceVars, otherThanState, hostSide, beliefs
<1>4. CallInv' /\ OrderInv'
  BY <1>1, <1>2, <1>3 DEF SessionInv, CallInv, OrderInv, InAnswer
<1>5. AddressInv' /\ SettingsInv'
  BY <1>1 DEF AddressInv, SetAtOnce, SetAfterStatus, SettingsInv
<1>6. device_state # "Suspend" BY <1>1 DEF SessionInv, SuspendInv
<1>7. device_state \in {"Addressed", "Configured"} <=> addr # 0
  BY <1>6 DEF SessionInv, AddressedHasAddress, AwakeState, RestoredState
<1>8. /\ device_state' # "Suspend"
      /\ device_state' \in {"Addressed", "Configured"} <=> addr' # 0
  <2>1. CASE SetAddress
    BY <1>6, <1>7, <2>1 DEF SetAddress, IsAddress
  <2>2. CASE SetConfiguration
    <3>1. addr # 0 BY <1>1, <2>2 DEF SetConfiguration, SessionInv, OrderInv
    <3>2. device_state' \in {"Addressed", "Configured"} /\ addr' = addr
      BY <1>7, <2>2, <3>1 DEF SetConfiguration, StateAfterConfiguration, otherThanState
    <3> QED BY <3>1, <3>2
  <2>3. CASE ClassOut \/ RemoteWakeup \/ EndpointHalt \/ SetInterface \/ UnknownOut
    <3>1. UNCHANGED <<device_state, addr>>
      BY <2>3 DEF ClassOut, RemoteWakeup, EndpointHalt, SetInterface, UnknownOut, deviceVars,
         otherThanState
    <3> QED BY <1>6, <1>7, <3>1
  <2> QED BY <2>1, <2>2, <2>3 DEF ControlOut
<1>9. AddressedHasAddress' BY <1>8 DEF AddressedHasAddress, AwakeState, RestoredState
<1> QED BY <1>4, <1>5, <1>9

(* Else what it sets is what the host will believe. *)
LEMMA SessionControlOut ==
    ASSUME OrderlySession, SessionInv, PipeInv', ControlOut, ~busReset
    PROVE  CallInv' /\ OrderInv' /\ AddressInv' /\ AddressedHasAddress'
           /\ SettingsInv'
<1>1. /\ UNCHANGED <<x, hreq, stage, busReset, xr, req>>
      /\ pc = "control_out" /\ state = "CompleteOut" /\ ~Abandon /\ ~HaltEp0
      /\ AcceptOut \/ Reject
  BY ControlOutIs
<1>2. /\ xr = x /\ req = hreq /\ ~busReset /\ device_state # "Suspend"
      /\ stage \in {"data", "status"} /\ pending_address = 0 /\ addr = haddr
  BY <1>1, AskedUnanswered DEF SessionInv, HeldInv, PipeInv, EndInv, NewestInv, SuspendInv,
     WaitingForResponse, AddressInv, SetAtOnce, SetAfterStatus, Accepted
<1>3. /\ AcceptOut => state' = "StatusIn" /\ stage = "status"
      /\ Reject => state' = "Error"
  BY <1>1, <1>2 DEF AcceptOut, Reject, SetError, PipeInv, SessionInv, EndInv, StageInv
<1>4. AwakeState = device_state BY <1>2 DEF AwakeState, RestoredState
<1>5. UNCHANGED <<haddr, hconfig, hwakeup, suspended_device_state>>
  BY DEF ControlOut, ClassOut, RemoteWakeup, EndpointHalt, SetAddress, SetConfiguration,
     SetInterface, UnknownOut, deviceVars, otherThanState, hostSide, beliefs
<1>6. device_state' # "Suspend"
  BY <1>2 DEF ControlOut, ClassOut, RemoteWakeup, EndpointHalt, SetAddress, SetConfiguration,
     StateAfterConfiguration, SetInterface, UnknownOut, deviceVars, otherThanState,
     OrderlySession
<1>7. AwakeState' = device_state' BY <1>6 DEF AwakeState, RestoredState
<1>8. /\ hreq.call = "SET_ADDRESS" => hconfig = 0 /\ hreq.value # haddr
      /\ hreq.call = "SET_CONFIGURATION" => haddr # 0
  BY <1>2 DEF SessionInv, OrderInv
<1>9. AcceptOut \/ Reject BY <1>1
<1>10. CallInv' /\ OrderInv'
  BY <1>1, <1>3, <1>5, <1>9 DEF SessionInv, CallInv, OrderInv, InAnswer
<1>11. /\ (device_state = "Configured") <=> (hconfig = 1)
       /\ remote_wakeup_enabled <=> hwakeup
  BY <1>1, <1>2, <1>4 DEF SessionInv, SettingsInv, Accepted
<1>12. device_state \in {"Addressed", "Configured"} <=> addr # 0
  BY <1>4 DEF SessionInv, AddressedHasAddress
<1>13. CASE SetAddress
  <2>1. /\ hreq.call = "SET_ADDRESS" /\ hreq.value # 0
        /\ UNCHANGED remote_wakeup_enabled /\ AcceptOut
    BY <1>1, <1>2, <1>13 DEF SetAddress, IsAddress, Accept
  <2>2. CASE ~QUIRK_SET_ADDRESS_BEFORE_STATUS
    <3>1. pending_address' = hreq.value /\ UNCHANGED <<addr, device_state>>
      BY <1>2, <1>13, <2>2 DEF SetAddress
    <3>2. AddressInv'
      BY <1>1, <1>2, <1>3, <1>5, <1>8, <2>1, <2>2, <3>1 DEF AddressInv, SetAfterStatus, Accepted
    <3>3. AddressedHasAddress' BY <1>7, <1>12, <3>1 DEF AddressedHasAddress
    <3>4. SettingsInv' BY <1>1, <1>5, <1>7, <1>11, <2>1, <3>1 DEF SettingsInv, Accepted
    <3> QED BY <1>10, <3>2, <3>3, <3>4
  <2>3. CASE QUIRK_SET_ADDRESS_BEFORE_STATUS
    <3>1. addr' = hreq.value /\ device_state' = "Addressed" /\ UNCHANGED pending_address
      BY <1>2, <1>13, <2>3 DEF SetAddress
    <3>2. AddressInv'
      BY <1>1, <1>2, <1>3, <1>5, <2>1, <2>3, <3>1 DEF AddressInv, SetAtOnce, Accepted
    <3>3. AddressedHasAddress' BY <1>7, <2>1, <3>1 DEF AddressedHasAddress
    <3>4. SettingsInv' BY <1>1, <1>5, <1>7, <1>8, <1>11, <2>1, <3>1 DEF SettingsInv, Accepted
    <3> QED BY <1>10, <3>2, <3>3, <3>4
  <2> QED BY <2>2, <2>3
<1>14. CASE ~SetAddress
  <2>1. /\ UNCHANGED <<addr, pending_address>>
        /\ AcceptOut => hreq.call # "SET_ADDRESS"
    BY <1>1, <1>2, <1>9, <1>14 DEF ControlOut, ClassOut, RemoteWakeup, EndpointHalt,
       SetConfiguration, SetInterface, UnknownOut, Accept, AcceptOut, Reject, deviceVars,
       otherThanState, SetError
  <2>2. AddressInv'
    BY <1>1, <1>2, <1>3, <1>5, <1>9, <2>1 DEF AddressInv, SetAtOnce, SetAfterStatus, Accepted
  <2>3. CASE SetConfiguration
    <3>1. /\ hreq.call = "SET_CONFIGURATION" /\ hreq.value \in {0, 1} /\ AcceptOut
          /\ device_state' = StateAfterConfiguration(hreq.value)
          /\ UNCHANGED remote_wakeup_enabled
      BY <1>1, <1>2, <2>3 DEF SetConfiguration, Accept
    <3>2. device_state \in {"Addressed", "Configured"} BY <1>2, <1>8, <1>12, <3>1
    <3>3. device_state' = IF hreq.value = 1 THEN "Configured" ELSE "Addressed"
      BY <3>1, <3>2 DEF StateAfterConfiguration
    <3>4. AddressedHasAddress' BY <1>7, <1>12, <2>1, <3>2, <3>3 DEF AddressedHasAddress
    <3>5. SettingsInv'
      BY <1>1, <1>2, <1>3, <1>5, <1>7, <1>11, <3>1, <3>3 DEF SettingsInv, Accepted
    <3> QED BY <1>10, <2>2, <3>4, <3>5
  <2>4. CASE RemoteWakeup
    <3>1. /\ hreq.call \in {"SET_REMOTE_WAKEUP", "CLEAR_REMOTE_WAKEUP"} /\ AcceptOut
          /\ remote_wakeup_enabled' = (hreq.call = "SET_REMOTE_WAKEUP")
          /\ UNCHANGED device_state
      BY <1>1, <1>2, <2>4 DEF RemoteWakeup, Accept
    <3>2. AddressedHasAddress' BY <1>7, <1>12, <2>1, <3>1 DEF AddressedHasAddress
    <3>3. SettingsInv'
      BY <1>1, <1>2, <1>3, <1>5, <1>7, <1>11, <3>1 DEF SettingsInv, Accepted
    <3> QED BY <1>10, <2>2, <3>2, <3>3
  <2>5. CASE ClassOut \/ EndpointHalt \/ SetInterface \/ UnknownOut
    <3>1. /\ UNCHANGED <<device_state, remote_wakeup_enabled>>
          /\ AcceptOut => hreq.call \notin Setters
      BY <1>1, <1>2, <1>9, <2>5 DEF ClassOut, EndpointHalt, HaltOther, SetInterface, UnknownOut,
         Accept, AcceptOut, Reject, SetError, deviceVars, otherThanState, Setters
    <3>2. AddressedHasAddress' BY <1>7, <1>12, <2>1, <3>1 DEF AddressedHasAddress
    <3>3. \A calls \in {{"SET_CONFIGURATION"}, {"SET_REMOTE_WAKEUP", "CLEAR_REMOTE_WAKEUP"}} :
            ~Accepted(calls)'
      BY <1>1, <1>3, <1>9, <3>1 DEF Accepted, Setters
    <3>4. SettingsInv'
      BY <1>1, <1>5, <1>7, <1>11, <3>1, <3>3 DEF SettingsInv
    <3> QED BY <1>10, <2>2, <3>2, <3>4
  <2> QED BY <1>14, <2>3, <2>4, <2>5 DEF ControlOut
<1> QED BY <1>13, <1>14

-----------------------------------------------------------------------------
(* The theorems. *)

(* The initial states. *)
LEMMA InitSession == DeviceInit => SessionInv
<1> SUFFICES ASSUME DeviceInit PROVE SessionInv
  OBVIOUS
<1>1. PipeInv /\ Init BY InitEnd DEF DeviceInit
<1>2. TypeOK BY <1>1 DEF PipeInv, TypeInv
<1>3. 0 \in 0..MaxAddress BY DEF DeviceAssumption
<1>4. DeviceTypeOK /\ SuspendInv
  BY <1>2, <1>3 DEF DeviceInit, Init, DeviceTypeOK, DeviceStates, SuspendInv, SuspendBookkeeping
<1>5. AwakeState = "Default" /\ stage = "idle" /\ state = "Idle" /\ ~busReset /\ pc = "poll"
  BY <1>1 DEF DeviceInit, Init, BusInit, AwakeState, RestoredState
<1> QED BY <1>1, <1>4, <1>5 DEF DeviceInit, SessionInv, AskingInv, HeldInv, CallInv, OrderInv,
        AddressInv, SetAtOnce, SetAfterStatus, AddressedHasAddress, SettingsInv, Accepted,
        InAnswer

(* Every step keeps the invariant. *)
LEMMA StepSession ==
    ASSUME OrderlySession, SessionInv, [DeviceNext]_allVars PROVE SessionInv'
<1>1. [Next]_vars BY DeviceStep DEF OrderlySession, SessionInv, PipeInv
<1>2. PipeInv' /\ AskingInv' /\ HeldInv'
  BY <1>1, StepEnd, StepAsking, StepHeld DEF OrderlySession, SessionInv
<1>3. SuspendInv' BY SuspendStep DEF SessionInv
<1>4. DeviceTypeOK' BY <1>2, <1>3, DeviceType DEF SessionInv, PipeInv, TypeInv
<1>5. CallInv' /\ OrderInv' /\ AddressInv' /\ AddressedHasAddress' /\ SettingsInv'
  <2>1. CASE HostTransfer
    <3>1. ~SendStatusEarly BY DEF SendStatusEarly, OrderlySession
    <3>2. (\E r \in Requests : InOrder(r) /\ HostSetup(r)) \/ HostProgress
      BY <2>1, <3>1 DEF HostTransfer
    <3> QED BY <1>2, <2>1, <3>2, SessionSetup, SessionProgress
  <2>2. CASE HostBusReset BY <2>2, SessionReset
  <2>3. CASE PollEp0 \/ PollEp0InComplete \/ PollBusReset
    BY <1>2, <2>3, SessionEp0, SessionInComplete, SessionPollReset
  <2>4. CASE HostSuspend \/ HostResume \/ PollSuspend \/ PollResume \/ UNCHANGED allVars
    BY <2>4, SessionSuspend
  <2>5. CASE ControlIn \/ ControlOut
    BY <1>2, <2>5, SessionControlIn, SessionLateAnswer, SessionControlOut
  <2> QED BY <2>1, <2>2, <2>3, <2>4, <2>5 DEF DeviceNext, DevicePoll
<1> QED BY <1>2, <1>3, <1>4, <1>5 DEF SessionInv

(* Whatever the host requests, and whenever it resets, suspends and resumes the
   bus: once poll has seen every bus reset, the peripheral answers to no address
   (but 0) that its host did not give it in this session, unless it is about to
   exchange that for the host's new one; and the device counts as addressed as
   long as the peripheral has an address.  Both kinds of drivers, with the quirk
   and without it. *)
THEOREM AddressIsKept ==
    ASSUME OrderlySession PROVE DeviceSpec => [](AddressIsTheHosts /\ AddressedHasAddress)
<1>1. DeviceInit => SessionInv BY InitSession
<1>2. SessionInv /\ [DeviceNext]_allVars => SessionInv' BY StepSession
<1>3. SessionInv => AddressIsTheHosts /\ AddressedHasAddress
  BY DEF SessionInv, AddressInv, SetAtOnce, SetAfterStatus, AddressIsTheHosts, Accepted
<1> QED BY <1>1, <1>2, <1>3, PTL DEF DeviceSpec

(* Without the quirk, an address that was set is not lost between the end of
   its transfer and the event that makes the device take it: from the end of the
   transfer to the next bus reset the peripheral has the address, or the event is
   still to be handled. *)
THEOREM AddressIsNotLost ==
    ASSUME OrderlySession, QUIRK_SET_ADDRESS_BEFORE_STATUS = FALSE
    PROVE  DeviceSpec => []AddressIsTaken
<1>1. DeviceInit => SessionInv BY InitSession
<1>2. SessionInv /\ [DeviceNext]_allVars => SessionInv' BY StepSession
<1>3. SessionInv => AddressIsTaken
  BY DEF SessionInv, AddressInv, SetAfterStatus, AddressIsTaken
<1> QED BY <1>1, <1>2, <1>3, PTL DEF DeviceSpec

(* And the device has the configuration and the remote wakeup setting that its
   host set, when no transfer is running and poll has seen every bus reset. *)
THEOREM DeviceAgrees ==
    ASSUME OrderlySession PROVE DeviceSpec => [](DeviceTypeOK /\ DeviceMatchesHost)
<1>1. DeviceInit => SessionInv BY InitSession
<1>2. SessionInv /\ [DeviceNext]_allVars => SessionInv' BY StepSession
<1>3. SessionInv => DeviceTypeOK /\ DeviceMatchesHost
  <2> SUFFICES ASSUME SessionInv PROVE DeviceMatchesHost
    BY DEF SessionInv
  <2>1. remote_wakeup_enabled \in BOOLEAN /\ hwakeup \in BOOLEAN
    BY DEF SessionInv, DeviceTypeOK
  <2>2. stage \in {"done", "idle"} /\ ~busReset =>
          /\ (hconfig = 1) <=> (AwakeState = "Configured")
          /\ remote_wakeup_enabled <=> hwakeup
    BY DEF SessionInv, SettingsInv, Accepted
  <2>3. (remote_wakeup_enabled <=> hwakeup) => remote_wakeup_enabled = hwakeup
    <3>1. CASE remote_wakeup_enabled = TRUE BY <2>1, <3>1
    <3>2. CASE remote_wakeup_enabled = FALSE BY <2>1, <3>2
    <3> QED BY <2>1, <3>1, <3>2
  <2> QED BY <2>2, <2>3 DEF DeviceMatchesHost
<1> QED BY <1>1, <1>2, <1>3, PTL DEF DeviceSpec

(* If no class answers from a static buffer, or no transfer is cut off by the
   next SETUP packet or a bus reset, and the host does not halt endpoint 0, the
   host gets the device's answers whole: descriptors, states and what the
   classes supply. *)
THEOREM DeviceAnswersArrive ==
    ASSUME GoodDriver, AnswersAllowed, StaticLens = {} \/ NothingCut
    PROVE  DeviceSpec => [](InAnswerIntact /\ IndicesInRange)
BY DeviceImplementsPipe, AnswerArrives, PTL

(* The device with all its requests keeps the promise of endpoint 0: a host's
   transfer completes only if it was accepted and fails only if it was rejected.
   The halting of endpoint 0 itself is left out, which breaks it. *)
THEOREM DeviceImplementsTransfer ==
    ASSUME GoodDriver, AnswersAllowed PROVE DeviceSpec => ImplementsTransfer
BY DeviceImplementsPipe, PipeImplementsTransfer, PTL
=============================================================================
