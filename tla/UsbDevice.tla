------------------------------ MODULE UsbDevice ------------------------------
(***************************************************************************)
(* UsbDevice (src/src/device.rs): what the device state machine adds to    *)
(* the control pipe.  Each step is a step of ControlPipe together with     *)
(* what poll, control_in, control_out and reset do to the device's own     *)
(* state: the address, the configuration, remote wakeup, endpoint halt     *)
(* and the suspension of the bus.                                          *)
(*                                                                         *)
(* A request has two more fields: call, the standard request it is (or     *)
(* "class" for a request of a class), and value: the new address,          *)
(* configuration or alternate setting, or the size of the answer of an IN  *)
(* request, or the address of the endpoint to be halted.                   *)
(*                                                                         *)
(* Unused operators are mistaken forms of the next one, as in ControlPipe. *)
(***************************************************************************)
EXTENDS ControlPipe

CONSTANTS
    QUIRK_SET_ADDRESS_BEFORE_STATUS,    \* UsbBus::QUIRK_SET_ADDRESS_BEFORE_STATUS
    HostRepeatsAddress,                 \* may the host set the address again
                                        \* that the device has already?
    MaxAddress                          \* 127 in the code

DeviceStates == {"Default", "Addressed", "Configured", "Suspend"}

ASSUME DeviceAssumption ==
    /\ QUIRK_SET_ADDRESS_BEFORE_STATUS \in BOOLEAN /\ HostRepeatsAddress \in BOOLEAN
    /\ MaxAddress \in Nat \ {0}
    /\ None \notin DeviceStates

Calls == {"SET_ADDRESS", "SET_CONFIGURATION", "SET_INTERFACE",
          "SET_REMOTE_WAKEUP", "CLEAR_REMOTE_WAKEUP", "SET_HALT", "CLEAR_HALT",
          "GET_STATUS", "GET_CONFIGURATION", "GET_INTERFACE", "GET_DESCRIPTOR",
          "class", "other"}

(* The addresses of the two directions of endpoint 0. *)
EP0_OUT == 0
EP0_IN == 128

ASSUME DeviceRequestAssumption ==
    \A r \in Requests :
        /\ r.call \in Calls /\ r.value \in Nat
        /\ r.call \in {"SET_HALT", "CLEAR_HALT"} /\ r.value \in {EP0_OUT, EP0_IN}
              => r \in Ep0Halts

VARIABLES
    device_state, suspended_device_state,
    remote_wakeup_enabled,
    pending_address,
    addr,           \* address the peripheral answers to
    halted,         \* STALL condition of an endpoint other than endpoint 0
    busSuspended    \* the peripheral is in suspend mode

VARIABLES
    line,           \* the host keeps the bus "active" or "suspended"
    resumed,        \* Resume not reported yet
    haddr,          \* address the host gave the device
    hconfig,        \* configuration the host set
    hwakeup         \* remote wakeup as the host set it

deviceVars == <<device_state, suspended_device_state, remote_wakeup_enabled,
                pending_address, addr, halted, busSuspended>>
beliefs == <<haddr, hconfig, hwakeup>>
allVars == <<vars, deviceVars, line, resumed, beliefs>>

DeviceTypeOK ==
    /\ TypeOK
    /\ device_state \in DeviceStates
    /\ suspended_device_state \in (DeviceStates \ {"Suspend"}) \cup {None}
    /\ remote_wakeup_enabled \in BOOLEAN
    /\ pending_address \in 0..MaxAddress /\ addr \in 0..MaxAddress
    /\ halted \in BOOLEAN /\ busSuspended \in BOOLEAN
    /\ line \in {"active", "suspended"} /\ resumed \in BOOLEAN
    /\ haddr \in Nat /\ hconfig \in Nat /\ hwakeup \in BOOLEAN

DeviceInit ==
    /\ Init
    /\ device_state = "Default" /\ suspended_device_state = None
    /\ remote_wakeup_enabled = FALSE /\ pending_address = 0
    /\ addr = 0 /\ halted = FALSE /\ busSuspended = FALSE
    /\ line = "active" /\ resumed = FALSE
    /\ haddr = 0 /\ hconfig = 0 /\ hwakeup = FALSE

-----------------------------------------------------------------------------
(* The host and the peripheral around it (external). *)

(* The device hears the host when it answers to the address the host uses.  A
   peripheral with the quirk applies a new address after the status stage of
   the SET_ADDRESS transfer by itself. *)
Reachable ==
    \/ addr = haddr
    \/ QUIRK_SET_ADDRESS_BEFORE_STATUS /\ hreq.call = "SET_ADDRESS" /\ stage = "status"

(* The order of enumeration: an address before a configuration, and no new
   address for a configured device. *)
InOrder(r) ==
    /\ r.call = "SET_ADDRESS" =>
          hconfig = 0 /\ (r.value # haddr \/ HostRepeatsAddress)
    /\ r.call = "SET_CONFIGURATION" => haddr # 0

(* The host took the status packet of an OUT transfer. *)
Completed(c) == stage = "status" /\ stage' = "done" /\ hreq.call = c

HostTransfer ==
    /\ line = "active" /\ Reachable
    /\ \/ \E r \in Requests : InOrder(r) /\ HostSetup(r)
       \/ HostProgress
       \/ SendStatusEarly
    /\ haddr' = IF Completed("SET_ADDRESS") THEN hreq.value ELSE haddr
    /\ hconfig' = IF Completed("SET_CONFIGURATION") THEN hreq.value ELSE hconfig
    /\ hwakeup' = IF Completed("SET_REMOTE_WAKEUP") THEN TRUE
                  ELSE IF Completed("CLEAR_REMOTE_WAKEUP") THEN FALSE ELSE hwakeup
    /\ UNCHANGED <<pipeVars, pc, history, deviceVars, line, resumed>>

HostBusReset ==
    /\ HostReset
    /\ haddr' = 0 /\ hconfig' = 0 /\ hwakeup' = FALSE
    /\ line' = "active" /\ resumed' \in {FALSE, line = "suspended"}
    /\ UNCHANGED <<pipeVars, pc, history, deviceVars>>

HostSuspend ==
    /\ line = "active" /\ ~busReset
    /\ TransferOver \/ HostMayInterrupt
    /\ line' = "suspended"
    /\ UNCHANGED <<vars, deviceVars, resumed, beliefs>>

HostResume ==
    /\ line = "suspended"
    /\ line' = "active" /\ resumed' = TRUE
    /\ UNCHANGED <<vars, deviceVars, beliefs>>

hostSide == <<line, resumed, beliefs>>

-----------------------------------------------------------------------------
(* poll. *)

(* Any event but Suspend and None ends the suspension: the bus is resumed
   and the state before it is taken up again. *)
RestoredState ==
    IF device_state = "Suspend" THEN suspended_device_state ELSE device_state
NoWake == UNCHANGED <<device_state, suspended_device_state, busSuspended>>
WakeKeepingState ==
    device_state' = RestoredState /\ busSuspended' = FALSE /\ UNCHANGED suspended_device_state
WakeToDefault ==
    /\ device_state' = IF device_state = "Suspend" THEN "Default" ELSE device_state
    /\ suspended_device_state' = None /\ busSuspended' = FALSE
Wake ==
    /\ device_state' = RestoredState
    /\ IF device_state = "Suspend"
       THEN suspended_device_state' = None /\ busSuspended' = FALSE
       ELSE UNCHANGED <<suspended_device_state, busSuspended>>

PollEp0 ==
    /\ HandleSetup \/ HandleOut \/ PollInComplete
    /\ Wake
    /\ UNCHANGED <<remote_wakeup_enabled, pending_address, addr, halted, hostSide>>

(* The new address is taken when the status stage of an OUT transfer is
   complete. *)
TakesFirstAddress ==
    ~QUIRK_SET_ADDRESS_BEFORE_STATUS /\ state = "StatusIn" /\ pending_address # 0 /\ addr = 0
TakesAddress ==
    /\ ~QUIRK_SET_ADDRESS_BEFORE_STATUS
    /\ state = "StatusIn"
    /\ pending_address # 0

PollEp0InComplete ==
    /\ HandleInComplete
    /\ IF TakesAddress
       THEN /\ addr' = pending_address /\ pending_address' = 0
            /\ device_state' = "Addressed"
       ELSE UNCHANGED <<addr, pending_address, device_state>>
    /\ UNCHANGED <<suspended_device_state, remote_wakeup_enabled, halted,
                   busSuspended, hostSide>>

(* What reset does to the device after the bus was reset. *)
ResetKeepsPending ==
    /\ device_state' = "Default" /\ suspended_device_state' = None
    /\ remote_wakeup_enabled' = FALSE /\ UNCHANGED pending_address
ResetDevice ==
    /\ device_state' = "Default" /\ suspended_device_state' = None
    /\ remote_wakeup_enabled' = FALSE /\ pending_address' = 0

PollBusReset ==
    /\ PollReset
    /\ ResetDevice
    /\ addr' = 0 /\ halted' = FALSE /\ busSuspended' = FALSE
    /\ UNCHANGED hostSide

PollSuspend ==
    /\ pc = "poll" /\ line = "suspended" /\ device_state # "Suspend"
    /\ suspended_device_state' = device_state /\ device_state' = "Suspend"
    /\ busSuspended' = TRUE
    /\ UNCHANGED <<vars, remote_wakeup_enabled, pending_address, addr, halted, hostSide>>

PollResume ==
    /\ pc = "poll" /\ resumed
    /\ resumed' = FALSE
    /\ Wake
    /\ UNCHANGED <<vars, remote_wakeup_enabled, pending_address, addr, halted,
                   line, beliefs>>

DevicePoll ==
    PollEp0 \/ PollEp0InComplete \/ PollBusReset \/ PollSuspend \/ PollResume

-----------------------------------------------------------------------------
(* control_in: the classes first, then the standard requests. *)

otherThanState == <<suspended_device_state, pending_address, addr, busSuspended, hostSide>>

(* A class answers a request of its own, or nobody does and it is rejected. *)
ClassIn ==
    /\ req.call = "class"
    /\ \/ \E n \in BufLens : AcceptIn(n)
       \/ \E n \in StaticLens : AcceptInStatic(n)
       \/ Reject

(* GET_STATUS, GET_CONFIGURATION, GET_INTERFACE answer from the state; an
   interface number that is not a byte is rejected. *)
StatusIn ==
    /\ req.call \in {"GET_STATUS", "GET_CONFIGURATION", "GET_INTERFACE"}
    /\ AcceptIn(req.value) \/ (req.call = "GET_INTERFACE" /\ Reject)

(* get_descriptor: a descriptor that does not exist is rejected; one that
   does not fit the control buffer is an error of the callback, which has
   filled the buffer with a part that nobody reads. *)
DescriptorIn ==
    /\ req.call = "GET_DESCRIPTOR"
    /\ \/ req.value \in 1..BufLen /\ AcceptIn(req.value)
       \/ req.value > BufLen /\ Abandon
       \/ req.value = 0 /\ Reject

UnknownIn ==
    /\ req.call \notin {"class", "GET_STATUS", "GET_CONFIGURATION",
                        "GET_INTERFACE", "GET_DESCRIPTOR"}
    /\ Reject

ControlIn ==
    /\ pc = "control_in"
    /\ ClassIn \/ StatusIn \/ DescriptorIn \/ UnknownIn
    /\ UNCHANGED <<deviceVars, hostSide>>

-----------------------------------------------------------------------------
(* control_out: a standard request changes the device before the transfer is
   accepted, whether accepting it succeeds or not. *)
Accept == AcceptOut \/ Abandon

ClassOut ==
    /\ req.call = "class"
    /\ AcceptOut \/ Reject
    /\ UNCHANGED <<deviceVars, hostSide>>

RemoteWakeup ==
    /\ req.call \in {"SET_REMOTE_WAKEUP", "CLEAR_REMOTE_WAKEUP"}
    /\ remote_wakeup_enabled' = (req.call = "SET_REMOTE_WAKEUP")
    /\ Accept
    /\ UNCHANGED <<device_state, halted, otherThanState>>

(* set_stalled on the endpoint that the request names.  It may be endpoint 0,
   whose status stage is then still to come. *)
HaltOther ==
    /\ req.value \notin {EP0_OUT, EP0_IN}
    /\ halted' = (req.call = "SET_HALT")
    /\ Accept
HaltEp0 ==
    /\ \/ /\ req.value = EP0_OUT
          /\ stallOut' = (req.call = "SET_HALT") /\ UNCHANGED stallIn
       \/ /\ req.value = EP0_IN
          /\ stallIn' = (req.call = "SET_HALT") /\ UNCHANGED stallOut
    /\ AcceptHalting
    /\ UNCHANGED halted

EndpointHalt ==
    /\ req.call \in {"SET_HALT", "CLEAR_HALT"}
    /\ HaltOther \/ HaltEp0
    /\ UNCHANGED <<device_state, remote_wakeup_enabled, otherThanState>>

AnyAddress(v) == TRUE
IsAddress(v) == v \in 1..MaxAddress

SetAddress ==
    /\ req.call = "SET_ADDRESS" /\ IsAddress(req.value)
    /\ IF QUIRK_SET_ADDRESS_BEFORE_STATUS
       THEN /\ addr' = req.value /\ device_state' = "Addressed"
            /\ UNCHANGED pending_address
       ELSE /\ pending_address' = req.value
            /\ UNCHANGED <<addr, device_state>>
    /\ Accept
    /\ UNCHANGED <<suspended_device_state, remote_wakeup_enabled, halted,
                   busSuspended, hostSide>>

(* Configuration 1 configures the device; 0 takes it back to Addressed,
   unless it is in the Default state. *)
DeconfiguredToDefault(v) == IF v = 1 THEN "Configured" ELSE "Default"
StateAfterConfiguration(v) ==
    IF v = 1 THEN "Configured"
    ELSE IF device_state = "Default" THEN "Default" ELSE "Addressed"

SetConfiguration ==
    /\ req.call = "SET_CONFIGURATION" /\ req.value \in {0, 1}
    /\ device_state' = StateAfterConfiguration(req.value)
    /\ Accept
    /\ UNCHANGED <<remote_wakeup_enabled, halted, otherThanState>>

(* A class may know the alternate setting, and 0 is accepted anyhow.  Numbers
   that are not bytes are rejected, of the setting and of the interface, which
   is not modelled. *)
SetInterface ==
    /\ req.call = "SET_INTERFACE"
    /\ Accept \/ Reject
    /\ UNCHANGED <<deviceVars, hostSide>>

UnknownOut ==
    /\ \/ req.call = "SET_ADDRESS" /\ ~IsAddress(req.value)
       \/ req.call = "SET_CONFIGURATION" /\ req.value \notin {0, 1}
       \/ req.call \in {"GET_STATUS", "GET_CONFIGURATION", "GET_INTERFACE",
                        "GET_DESCRIPTOR", "other"}
    /\ Reject
    /\ UNCHANGED <<deviceVars, hostSide>>

ControlOut ==
    /\ pc = "control_out"
    /\ \/ ClassOut \/ RemoteWakeup \/ EndpointHalt \/ SetAddress
       \/ SetConfiguration \/ SetInterface \/ UnknownOut

-----------------------------------------------------------------------------
DeviceNext ==
    \/ HostTransfer \/ HostBusReset \/ HostSuspend \/ HostResume
    \/ DevicePoll
    \/ ControlIn \/ ControlOut

(* poll is called again and again, and the driver reports every kind of event
   in the end: it does not hold packets back for ever because the host keeps
   suspending and resuming the bus.  The host carries its transfer on. *)
DeviceFairness ==
    /\ SF_allVars(PollEp0) /\ SF_allVars(PollBusReset) /\ SF_allVars(PollResume)
    /\ WF_allVars(PollEp0InComplete)
    /\ WF_allVars(ControlIn \/ ControlOut)
    /\ WF_allVars(HostTransfer /\ HostProgress)

DeviceSpec == DeviceInit /\ [][DeviceNext]_allVars
FairDeviceSpec == DeviceSpec /\ DeviceFairness

-----------------------------------------------------------------------------
(* Properties. *)

(* The state the device is in, or goes back to when the bus is resumed. *)
AwakeState == RestoredState

(* The state before a suspension is kept exactly as long as the device and
   the peripheral are suspended: poll's expect never panics, and the bus is
   never resumed twice or left in suspend mode. *)
SuspendBookkeeping ==
    /\ (device_state = "Suspend") <=> (suspended_device_state # None)
    /\ (device_state = "Suspend") <=> busSuspended

(* When the host has finished with a transfer, and what it knows of has been
   through poll, the device agrees with the host: it has the configuration
   and the remote wakeup setting that the host set, through suspensions and
   bus resets. *)
DeviceMatchesHost ==
    (stage \in {"done", "idle"} /\ ~busReset) =>
        /\ (hconfig = 1) <=> (AwakeState = "Configured")
        /\ remote_wakeup_enabled = hwakeup

(* Once poll has seen the resets of the bus, the peripheral answers to no other
   address than the one the host gave it in this session (and to none but 0
   before that), or is about to exchange the former one for it; a peripheral
   with the quirk may have the new one while its SET_ADDRESS is being completed. *)
AddressIsTheHosts ==
    addr # 0 /\ ~busReset =>
        \/ addr = haddr
        \/ /\ ~QUIRK_SET_ADDRESS_BEFORE_STATUS
           /\ pending_address # 0 /\ pending_address = haddr
        \/ /\ QUIRK_SET_ADDRESS_BEFORE_STATUS
           /\ stage = "status" /\ hreq.call = "SET_ADDRESS" /\ addr = hreq.value

(* A device that counts as addressed has an address, and one in the Default
   state has none. *)
AddressedHasAddress == (AwakeState \in {"Addressed", "Configured"}) <=> (addr # 0)

(* The address the host gave is not lost: the device has it, or the
   IN-complete event that makes it take it is still to be handled. *)
AddressIsTaken ==
    haddr # 0 /\ addr # haddr /\ ~busReset =>
        /\ pending_address = haddr /\ state = "StatusIn"
        /\ inDone \/ pc = "in_complete"

(* When the host resumes the bus the device wakes up. *)
ResumeWakes == resumed ~> (device_state # "Suspend" \/ line = "suspended")
=============================================================================
