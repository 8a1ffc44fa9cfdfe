------------------------------- MODULE Ep0Bus -------------------------------
(***************************************************************************)
(* The two neighbours of the control pipe, as the pipe sees them through   *)
(* the UsbBus trait (src/src/bus.rs:20-144, PollResult 350-381):           *)
(*                                                                         *)
(*  - the peripheral driver at endpoint 0: one received packet waiting to  *)
(*    be read, one packet waiting to be sent, the STALL condition of the   *)
(*    two directions, the latched IN-complete event and the reset event;   *)
(*  - the USB host, which runs control transfers one after another.  It    *)
(*    may give a transfer up by sending the next SETUP packet, and may     *)
(*    reset the bus.                                                       *)
(*                                                                         *)
(* Payloads are abstract: a byte is a pair <<transfer, k>>.  Transfers are *)
(* numbered from 1 (0 is the device's constant data); k = 0 marks a byte   *)
(* of a SETUP packet and k >= 1 the k-th byte of a data stage, so a byte   *)
(* that ends up in the wrong transfer or at the wrong place is seen.       *)
(***************************************************************************)
EXTENDS Integers, Sequences

CONSTANTS
    MPS,            \* max_packet_size of endpoint 0, in bytes
    BufLen,         \* length of the control buffer
    SetupLen,       \* length of a SETUP packet (8 in the code)
    Requests,       \* the requests the host may send: records with dir, length
    MaxSetups,      \* bound: SETUP packets the host sends in a behaviour
    SetupClearsIn,  \* does the peripheral drop the unsent IN packet and the
                    \* IN stall when a SETUP packet is read?
    HostMayAbort,   \* may the host give up a transfer before its end?
    HostMayInterrupt,   \* may the bus be reset or suspended in the middle of
                        \* a transfer, and not only between two?
    BusErrors       \* may the driver's read and write fail for reasons of
                    \* their own, or hand over a truncated SETUP packet?

ASSUME BusAssumption ==
    /\ MPS \in Nat /\ SetupLen \in Nat /\ BufLen \in Nat /\ MaxSetups \in Nat
    /\ 0 < SetupLen /\ SetupLen <= MPS /\ MPS <= BufLen
    /\ SetupClearsIn \in BOOLEAN /\ BusErrors \in BOOLEAN
    /\ HostMayAbort \in BOOLEAN /\ HostMayInterrupt \in BOOLEAN

ASSUME RequestAssumption ==
    /\ Requests # {}
    /\ \A r \in Requests : r.dir \in {"In", "Out"} /\ r.length \in Nat

VARIABLES
    rx,             \* the received packet that the pipe has not read yet
    tx,             \* the IN packet waiting to be sent: <<>> or <<packet>>
    inDone,         \* IN-complete latched, not reported by poll yet
    stallIn,        \* STALL condition of EP0 IN
    stallOut,       \* STALL condition of EP0 OUT
    busReset        \* a bus reset happened, not reported by poll yet

VARIABLES
    x,              \* number of the transfer the host is running
    hreq,           \* its request
    stage,          \* its stage, as the host sees it
    sent,           \* bytes of the data stage the host has sent
    rcvd            \* bytes of the data stage the host has received

busVars == <<rx, tx, inDone, stallIn, stallOut, busReset>>
hostVars == <<x, hreq, stage, sent, rcvd>>

Byte == Nat \X Nat
Packet == [kind : {"none", "setup", "out"}, xfer : 0..MaxSetups, off : Nat, n : Nat]
NoPacket == [kind |-> "none", xfer |-> 0, off |-> 0, n |-> 0]
Stages == {"idle", "data", "status", "done", "failed"}

(* The request before the first SETUP packet: nothing depends on it. *)
NoRequest == CHOOSE r \in Requests : TRUE

(* The smaller of two lengths (core::cmp::min). *)
Least(a, b) == IF a < b THEN a ELSE b

(* The status stage runs against the data stage; without one it is IN. *)
StatusDir(r) == IF r.dir = "In" /\ r.length > 0 THEN "Out" ELSE "In"

BusTypeOK ==
    /\ rx \in Packet
    /\ tx \in Seq(Seq(Byte)) /\ Len(tx) <= 1
    /\ tx # <<>> => Len(Head(tx)) <= MPS
    /\ inDone \in BOOLEAN /\ stallIn \in BOOLEAN /\ stallOut \in BOOLEAN
    /\ busReset \in BOOLEAN
    /\ x \in 0..MaxSetups
    /\ hreq \in Requests
    /\ stage \in Stages
    /\ sent \in Nat
    /\ rcvd \in Seq(Byte)

BusInit ==
    /\ rx = NoPacket /\ tx = <<>>
    /\ inDone = FALSE /\ stallIn = FALSE /\ stallOut = FALSE
    /\ busReset = FALSE
    /\ x = 0 /\ hreq = NoRequest /\ stage = "idle"
    /\ sent = 0 /\ rcvd = <<>>

-----------------------------------------------------------------------------
(* The driver: what its trait methods do for the pipe.  stall and unstall
   are written where the pipe calls them. *)

(* poll reports a packet of this kind, or none.  A packet is reported until
   it is read, an IN-complete event once. *)
PollData(kind) == ~busReset /\ rx.kind = kind /\ inDone' = FALSE

(* Reading a SETUP packet starts a new transfer in the peripheral too. *)
SetupClears == IF SetupClearsIn THEN tx' = <<>> /\ stallIn' = FALSE
                                ELSE UNCHANGED <<tx, stallIn>>

(* ep_in.write(p): it fails while a packet is waiting to be sent. *)
Write(p) == tx = <<>> /\ tx' = <<p>>
WriteFails == tx # <<>> \/ BusErrors

(* UsbBus::reset, after poll reported the reset of the bus. *)
ResetBus ==
    /\ busReset' = FALSE
    /\ rx' = NoPacket /\ tx' = <<>> /\ inDone' = FALSE
    /\ stallIn' = FALSE /\ stallOut' = FALSE

-----------------------------------------------------------------------------
(* The host. *)

TransferOver == stage \in {"idle", "done", "failed"}

(* A SETUP packet is accepted whatever the state of the endpoint, and takes
   the place of a packet that was not read yet.  A host that gives up a
   transfer sends it in the middle of that transfer. *)
HostSetup(r) ==
    /\ ~busReset /\ x < MaxSetups
    /\ TransferOver \/ HostMayAbort
    /\ x' = x + 1 /\ hreq' = r
    /\ stage' = IF r.length = 0 THEN "status" ELSE "data"
    /\ sent' = 0 /\ rcvd' = <<>>
    /\ \E n \in {SetupLen} \cup (IF BusErrors THEN {SetupLen - 1} ELSE {}) :
          rx' = [kind |-> "setup", xfer |-> x + 1, off |-> 0, n |-> n]
    /\ UNCHANGED <<tx, inDone, stallIn, stallOut, busReset>>

(* The host can send an OUT packet: the last received one was read, and the
   endpoint does not answer STALL. *)
OutReady == ~busReset /\ rx.kind = "none" /\ ~stallOut

(* The next packet of an OUT data stage. *)
SendOut ==
    /\ OutReady
    /\ stage = "data" /\ hreq.dir = "Out"
    /\ LET n == Least(MPS, hreq.length - sent)
       IN /\ rx' = [kind |-> "out", xfer |-> x, off |-> sent, n |-> n]
          /\ sent' = sent + n
          /\ stage' = IF sent + n = hreq.length THEN "status" ELSE "data"
    /\ UNCHANGED <<tx, inDone, stallIn, stallOut, busReset, x, hreq, rcvd>>

ZlpFromHost == [kind |-> "out", xfer |-> x, off |-> 0, n |-> 0]

(* The zero-length packet that acknowledges an IN data stage. *)
SendStatus ==
    /\ OutReady
    /\ stage = "status" /\ StatusDir(hreq) = "Out"
    /\ rx' = ZlpFromHost /\ stage' = "done"
    /\ UNCHANGED <<tx, inDone, stallIn, stallOut, busReset, x, hreq, sent, rcvd>>

(* The host may end an IN data stage early, with some of the data. *)
SendStatusEarly ==
    /\ HostMayAbort /\ OutReady
    /\ stage = "data" /\ hreq.dir = "In" /\ rcvd # <<>>
    /\ rx' = ZlpFromHost /\ stage' = "done"
    /\ UNCHANGED <<tx, inDone, stallIn, stallOut, busReset, x, hreq, sent, rcvd>>

(* The host can take the waiting IN packet: the peripheral answers NAK while
   a SETUP packet is unread. *)
InReady == ~busReset /\ rx.kind # "setup" /\ tx # <<>> /\ ~stallIn

(* A short packet, or all the bytes asked for, ends an IN data stage. *)
TakeIn ==
    /\ InReady
    /\ stage = "data" /\ hreq.dir = "In"
    /\ rcvd' = rcvd \o Head(tx)
    /\ stage' = IF Len(Head(tx)) < MPS \/ Len(rcvd \o Head(tx)) >= hreq.length
                THEN "status" ELSE "data"
    /\ tx' = <<>> /\ inDone' = TRUE
    /\ UNCHANGED <<rx, stallIn, stallOut, busReset, x, hreq, sent>>

(* The packet that acknowledges an OUT transfer; it has to be empty. *)
TakeStatus ==
    /\ InReady
    /\ stage = "status" /\ StatusDir(hreq) = "In"
    /\ stage' = IF Head(tx) = <<>> THEN "done" ELSE "failed"
    /\ tx' = <<>> /\ inDone' = TRUE
    /\ UNCHANGED <<rx, stallIn, stallOut, busReset, x, hreq, sent, rcvd>>

(* The transfer fails for the host when the endpoint answers STALL. *)
HostSeesStall ==
    /\ ~busReset /\ rx.kind # "setup"
    /\ \/ stage = "data" /\ hreq.dir = "Out" /\ stallOut
       \/ stage = "data" /\ hreq.dir = "In" /\ stallIn
       \/ stage = "status" /\ StatusDir(hreq) = "Out" /\ stallOut
       \/ stage = "status" /\ StatusDir(hreq) = "In" /\ stallIn
    /\ stage' = "failed"
    /\ UNCHANGED <<busVars, x, hreq, sent, rcvd>>

(* A bus reset empties the peripheral. *)
HostReset ==
    /\ ~busReset
    /\ TransferOver \/ HostMayInterrupt
    /\ busReset' = TRUE
    /\ rx' = NoPacket /\ tx' = <<>> /\ inDone' = FALSE
    /\ stage' = "idle"
    /\ UNCHANGED <<stallIn, stallOut, x, hreq, sent, rcvd>>

(* What the host does until the transfer is over, without giving it up. *)
HostProgress == SendOut \/ SendStatus \/ TakeIn \/ TakeStatus \/ HostSeesStall

HostNext ==
    \/ \E r \in Requests : HostSetup(r)
    \/ HostProgress
    \/ SendStatusEarly
    \/ HostReset
=============================================================================
