--------------------------- MODULE ControlTransfer ---------------------------
(***************************************************************************)
(* What endpoint 0 promises, without packets, buffers or endpoint events:  *)
(* the host runs one transfer after another and may give any of them up;   *)
(* the device works on one transfer, the newest one it has heard of.  A    *)
(* class is asked once about a transfer, after all the data of it came,    *)
(* and answers by ControlIn and ControlOut (src/src/class.rs:144-222).     *)
(* The host sees a transfer completed only if it was accepted, and failed  *)
(* only if it was rejected, and the device is done with a transfer only    *)
(* after the host is.  ControlPipe implements this.                        *)
(***************************************************************************)
EXTENDS Naturals

CONSTANT MaxTransfers

VARIABLES
    transfer,       \* number of the host's transfer, 0 before the first
    outcome,        \* what has become of it, for the host
    handling,       \* number of the transfer the device works on
    answer          \* what has become of that one, for the device

transferVars == <<transfer, outcome, handling, answer>>

(* "sending": the data of an OUT transfer are not all sent; "waiting": the
   host waits for data or for the end; "idle": reset. *)
Outcomes == {"idle", "sending", "waiting", "completed", "failed"}
Answers == {"none", "receiving", "asked", "accepted", "rejected"}

TransferInit ==
    /\ transfer = 0 /\ outcome = "idle"
    /\ handling = 0 /\ answer = "none"

-----------------------------------------------------------------------------
(* The host. *)

Start ==
    /\ transfer < MaxTransfers
    /\ transfer' = transfer + 1 /\ outcome' \in {"sending", "waiting"}
    /\ UNCHANGED <<handling, answer>>

AllSent ==
    /\ outcome = "sending" /\ outcome' = "waiting"
    /\ UNCHANGED <<transfer, handling, answer>>

(* The device has given this answer to the host's transfer. *)
Answered(a) == handling = transfer /\ answer = a

Complete ==
    /\ outcome = "waiting" /\ Answered("accepted")
    /\ outcome' = "completed"
    /\ UNCHANGED <<transfer, handling, answer>>

Fail ==
    /\ outcome \in {"sending", "waiting"} /\ Answered("rejected")
    /\ outcome' = "failed"
    /\ UNCHANGED <<transfer, handling, answer>>

Reset ==
    /\ outcome' = "idle"
    /\ UNCHANGED <<transfer, handling, answer>>

-----------------------------------------------------------------------------
(* The device. *)

(* The device drops what it was doing for the newest transfer; a class may be
   asked at once when there are no data to wait for. *)
TakeUp ==
    /\ handling < transfer
    /\ handling' = transfer
    /\ \/ answer' = "receiving"
       \/ outcome # "sending" /\ answer' = "asked"
    /\ UNCHANGED <<transfer, outcome>>

Ask ==
    /\ answer = "receiving" /\ (handling = transfer => outcome # "sending")
    /\ answer' = "asked"
    /\ UNCHANGED <<transfer, outcome, handling>>

Decide ==
    /\ answer = "asked" /\ answer' \in {"accepted", "rejected"}
    /\ UNCHANGED <<transfer, outcome, handling>>

(* The device forgets an accepted transfer when the host is through with it,
   and everything on a reset. *)
Finish ==
    /\ \/ answer = "accepted" /\ (handling = transfer => outcome \in {"completed", "idle"})
       \/ outcome = "idle"
    /\ answer' = "none"
    /\ UNCHANGED <<transfer, outcome, handling>>

TransferNext ==
    \/ Start \/ AllSent \/ Complete \/ Fail \/ Reset
    \/ TakeUp \/ Ask \/ Decide \/ Finish

TransferSpec == TransferInit /\ [][TransferNext]_transferVars
=============================================================================
