--------------------------- MODULE UsbDeviceProofs ---------------------------
(***************************************************************************)
(* Theorems about UsbDevice, for every value of the constants.             *)
(***************************************************************************)
EXTENDS UsbDevice, ControlPipeProofs

USE DeviceAssumption, DeviceRequestAssumption

-----------------------------------------------------------------------------
(* The device implements the control pipe. *)

(* The sizes of the answers of the device are among those that the callbacks
   of ControlPipe may return; a descriptor that does not exist, or is longer
   than the buffer, is not answered with any. *)
AnswersAllowed ==
    \A r \in Requests :
        r.call \in {"GET_STATUS", "GET_CONFIGURATION", "GET_INTERFACE", "GET_DESCRIPTOR"}
            => r.value \in BufLens \/ (r.call = "GET_DESCRIPTOR" /\ r.value \notin 1..BufLen)

(* Every step of the device is a step of the control pipe or leaves it alone. *)
LEMMA DeviceStep ==
    ASSUME AnswersAllowed, TypeInv, [DeviceNext]_allVars PROVE [Next]_vars
<1>1. req \in Requests BY DEF TypeInv, TypeOK
<1>2. CASE HostTransfer BY <1>2 DEF HostTransfer, Next, HostNext
<1>3. CASE HostBusReset BY <1>3 DEF HostBusReset, Next, HostNext
<1>4. CASE HostSuspend \/ HostResume BY <1>4 DEF HostSuspend, HostResume
<1>5. CASE DevicePoll
  BY <1>5 DEF DevicePoll, PollEp0, PollEp0InComplete, PollBusReset, PollSuspend,
     PollResume, Next, Poll
<1>6. CASE ControlIn
  <2>1. ASSUME StatusIn PROVE Answer
    <3>1. req.value \in BufLens BY <1>1, <2>1 DEF AnswersAllowed, StatusIn
    <3> QED BY <3>1, <2>1 DEF StatusIn, Answer
  <2>2. ASSUME DescriptorIn PROVE Answer
    <3>1. req.value \in 1..BufLen => req.value \in BufLens
      BY <1>1, <2>2 DEF AnswersAllowed, DescriptorIn
    <3> QED BY <3>1, <2>2 DEF DescriptorIn, Answer
  <2>3. ClassIn \/ UnknownIn => Answer BY DEF ClassIn, UnknownIn, Answer
  <2>4. Answer BY <2>1, <2>2, <2>3, <1>6 DEF ControlIn
  <2> QED BY <2>4 DEF Next
<1>7. CASE ControlOut
  <2>1. Answer
    BY <1>7 DEF ControlOut, ClassOut, RemoteWakeup, EndpointHalt, HaltOther, HaltEp0,
       SetAddress, SetConfiguration, SetInterface, UnknownOut, Accept, Answer
  <2> QED BY <2>1 DEF Next
<1>8. CASE UNCHANGED allVars BY <1>8 DEF allVars
<1> QED BY <1>2, <1>3, <1>4, <1>5, <1>6, <1>7, <1>8 DEF DeviceNext

(* UsbDevice drives its pipe as ControlPipe specifies it: each call of poll,
   control_in and control_out is a step of the pipe, or none at all, also when a
   request halts endpoint 0 itself. *)
THEOREM DeviceImplementsPipe ==
    ASSUME AnswersAllowed PROVE DeviceSpec => Spec
<1>1. DeviceInit => Init /\ TypeInv BY InitType DEF DeviceInit
<1>2. TypeInv /\ [DeviceNext]_allVars => [Next]_vars BY DeviceStep
<1>3. TypeInv /\ [Next]_vars => TypeInv' BY StepType
<1> QED BY <1>1, <1>2, <1>3, PTL DEF DeviceSpec, Spec

(* So the theorems about the pipe hold of the device: the requests that the
   device and its classes answer come with their own data. *)
THEOREM DeviceOutDataArrives ==
    ASSUME AnswersAllowed, DataStagesFit
    PROVE  DeviceSpec => [](OutDataIntact /\ NoStaleDispatch)
BY DeviceImplementsPipe, OutDataArrives, PTL

-----------------------------------------------------------------------------
(* Suspension. *)

(* What makes SuspendBookkeeping inductive: the states are states, and the
   device is awake from the moment poll found a packet until the request in it
   is answered.  So a state set meanwhile is not lost when the bus resumes. *)
SuspendInv ==
    /\ SuspendBookkeeping
    /\ device_state \in DeviceStates /\ busSuspended \in BOOLEAN
    /\ suspended_device_state \in (DeviceStates \ {"Suspend"}) \cup {None}
    /\ pc \in {"in_complete", "control_in", "control_out"} => device_state # "Suspend"

(* poll restores the state from before the suspension on any event. *)
LEMMA WakeRestores ==
    ASSUME SuspendInv, Wake
    PROVE  /\ device_state' \in DeviceStates \ {"Suspend"}
           /\ suspended_device_state' = None /\ busSuspended' = FALSE
<1> USE DEF SuspendInv, SuspendBookkeeping, DeviceStates
<1>1. CASE device_state = "Suspend"
  BY <1>1 DEF Wake, RestoredState
<1>2. CASE device_state # "Suspend"
  <2>1. suspended_device_state = None /\ ~busSuspended BY <1>2
  <2>2. busSuspended = FALSE BY <2>1
  <2>3. UNCHANGED <<device_state, suspended_device_state, busSuspended>>
    BY <1>2 DEF Wake, RestoredState
  <2> QED BY <1>2, <2>1, <2>2, <2>3
<1> QED BY <1>1, <1>2

(* Every step keeps the bookkeeping. *)
LEMMA SuspendStep ==
    ASSUME SuspendInv, [DeviceNext]_allVars PROVE SuspendInv'
<1> USE DEF SuspendInv, SuspendBookkeeping, DeviceStates
<1>1. CASE HostTransfer \/ HostBusReset \/ HostSuspend \/ HostResume
  <2>1. UNCHANGED <<pc, deviceVars>>
    BY <1>1 DEF HostTransfer, HostBusReset, HostSuspend, HostResume, vars
  <2> QED BY <2>1 DEF deviceVars
<1>2. CASE PollEp0 \/ PollResume
  <2>1. Wake BY <1>2 DEF PollEp0, PollResume
  <2>2. /\ device_state' \in DeviceStates \ {"Suspend"}
        /\ suspended_device_state' = None /\ busSuspended' = FALSE
    BY <2>1, WakeRestores
  <2> QED BY <2>2
<1>3. CASE PollEp0InComplete
  <2>1. /\ pc = "in_complete" /\ pc' \in {"poll", "panic"}
        /\ device_state' \in {device_state, "Addressed"}
        /\ UNCHANGED <<suspended_device_state, busSuspended>>
    BY <1>3 DEF PollEp0InComplete, HandleInComplete, InCompleteDataIn, InCompleteZlp,
       InCompleteLast, InCompleteStatus, InCompleteIgnored, WriteInChunk
  <2> QED BY <2>1
<1>4. CASE PollBusReset
  BY <1>4 DEF PollBusReset, ResetDevice
<1>5. CASE PollSuspend
  BY <1>5, DeviceAssumption DEF PollSuspend, vars
<1>6. CASE ControlIn
  <2>1. pc' \in {"poll", "panic"}
    BY <1>6 DEF ControlIn, ClassIn, StatusIn, DescriptorIn, UnknownIn, AcceptIn,
       AcceptInStatic, StartInTransfer, WriteInChunk, Reject, Abandon
  <2> QED BY <1>6, <2>1 DEF ControlIn, deviceVars
<1>7. CASE ControlOut
  <2>1. pc' = "poll" /\ pc = "control_out"
    BY <1>7 DEF ControlOut, ClassOut, RemoteWakeup, EndpointHalt, HaltOther, HaltEp0,
       SetAddress, SetConfiguration, SetInterface, UnknownOut, Accept, AcceptOut,
       AcceptHalting, Abandon, Reject
  <2>2. /\ device_state' \in {device_state, "Default", "Addressed", "Configured"}
        /\ UNCHANGED <<suspended_device_state, busSuspended>>
    BY <1>7 DEF ControlOut, ClassOut, RemoteWakeup, EndpointHalt, SetAddress,
       SetConfiguration, StateAfterConfiguration, SetInterface, UnknownOut,
       deviceVars, otherThanState
  <2> QED BY <2>1, <2>2
<1>8. CASE UNCHANGED allVars BY <1>8 DEF allVars, vars, deviceVars
<1> QED BY <1>1, <1>2, <1>3, <1>4, <1>5, <1>6, <1>7, <1>8 DEF DeviceNext, DevicePoll

(* The state before a suspension is there whenever it is needed: the expect in
   poll never panics, and the driver is suspended and resumed in turns. *)
THEOREM SuspensionIsTracked == DeviceSpec => []SuspendBookkeeping
<1>1. DeviceInit => SuspendInv
  <2> SUFFICES ASSUME DeviceInit PROVE SuspendInv
    OBVIOUS
  <2> QED BY DEF DeviceInit, Init, SuspendInv, SuspendBookkeeping, DeviceStates
<1>2. SuspendInv /\ [DeviceNext]_allVars => SuspendInv' BY SuspendStep
<1>3. SuspendInv => SuspendBookkeeping BY DEF SuspendInv
<1> QED BY <1>1, <1>2, <1>3, PTL DEF DeviceSpec
=============================================================================
