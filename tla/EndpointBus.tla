----------------------------- MODULE EndpointBus -----------------------------
(***************************************************************************)
(* The peripheral driver and the host at the endpoints of the test class   *)
(* (src/src/test_class.rs): a pair of bulk endpoints and a pair of         *)
(* interrupt endpoints.  The driver is modelled from how src/ uses UsbBus  *)
(* (src/src/bus.rs:20-144), the host from the loopback and bench tests of  *)
(* src/tests/test_class_host/tests.rs: it writes a message, reads the      *)
(* reply, and may reset the bus at any time.                               *)
(*                                                                         *)
(* A byte is <<m, k>>, the k-th byte of the host's m-th message on its     *)
(* endpoint; the bytes of bench mode have m = 0.                           *)
(***************************************************************************)
EXTENDS Integers, Sequences

CONSTANTS
    MPS,            \* maximum packet size of the endpoints (BULK_ENDPOINT)
    BUFFER,         \* size of the class's buffers
    Lengths,        \* lengths of the messages of the host, for each endpoint
    MaxMessages,    \* bound: messages of the host on one endpoint
    ReadsDirectly   \* may read find a packet that came after the last poll?

(* Their endpoint numbers, in the order they are allocated. *)
BULK == 1
INTERRUPT == 2
Eps == {BULK, INTERRUPT}

ASSUME EndpointAssumption ==
    /\ MPS \in Nat \ {0} /\ BUFFER \in Nat /\ MPS <= BUFFER /\ MaxMessages \in Nat
    /\ ReadsDirectly \in BOOLEAN
    /\ Lengths \in [Eps -> SUBSET Nat]
    /\ \A n \in Lengths[BULK] : n <= BUFFER
    /\ \A n \in Lengths[INTERRUPT] : n <= MPS

VARIABLES
    outp,           \* OUT packet waiting at each endpoint: <<>> or <<packet>>
    inp,            \* IN packet waiting to be sent: <<>> or <<packet>>
    in_done,        \* IN-complete latched, not reported by poll yet
    fetched,        \* endpoints whose OUT packet the last poll reported
    request,        \* a SET_BENCH_ENABLED request waits at endpoint 0
    bus_reset       \* a bus reset happened, not reported by poll yet

VARIABLES
    message,        \* number of the host's message
    total,          \* its length
    sent,           \* bytes sent
    got,            \* the reply so far
    stage           \* "idle", "write", "read", "done" or "bench"

busVars == <<outp, inp, in_done, fetched, request, bus_reset>>
hostVars == <<message, total, sent, got, stage>>

Byte == Nat \X Nat
Stages == {"idle", "write", "read", "done", "bench"}

(* The smaller of two lengths (core::cmp::min). *)
Least(a, b) == IF a < b THEN a ELSE b

BusTypeOK ==
    /\ outp \in [Eps -> Seq(Seq(Byte))] /\ inp \in [Eps -> Seq(Seq(Byte))]
    /\ got \in [Eps -> Seq(Byte)]
    /\ \A e \in Eps :
          /\ Len(outp[e]) <= 1 /\ Len(inp[e]) <= 1
          /\ inp[e] # <<>> => Len(Head(inp[e])) <= MPS
    /\ in_done \in [Eps -> BOOLEAN] /\ fetched \subseteq Eps
    /\ request \in BOOLEAN /\ bus_reset \in BOOLEAN
    /\ message \in [Eps -> 0..MaxMessages] /\ total \in [Eps -> Nat]
    /\ sent \in [Eps -> Nat] /\ stage \in [Eps -> Stages]

NoPackets == [e \in Eps |-> <<>>]
NoEvents == [e \in Eps |-> FALSE]

BusInit ==
    /\ outp = NoPackets /\ inp = NoPackets /\ in_done = NoEvents /\ fetched = {}
    /\ request = FALSE /\ bus_reset = FALSE
    /\ message = [e \in Eps |-> 0] /\ total = message /\ sent = message
    /\ got = NoPackets /\ stage = [e \in Eps |-> "idle"]

-----------------------------------------------------------------------------
(* The driver. *)

(* What poll reports; an IN-complete event is reported once. *)
OutEvents == {e \in Eps : outp[e] # <<>>}
InEvents == {e \in Eps : in_done[e]}

(* read finds a packet: one that poll has reported, or any one when the
   driver reads the peripheral itself. *)
Readable(e) == outp[e] # <<>> /\ (ReadsDirectly \/ e \in fetched)
Taken(e) == outp' = [outp EXCEPT ![e] = <<>>] /\ fetched' = fetched \ {e}

(* UsbBus::reset. *)
ResetBus ==
    /\ bus_reset' = FALSE /\ outp' = NoPackets /\ inp' = NoPackets
    /\ in_done' = NoEvents /\ fetched' = {}

-----------------------------------------------------------------------------
(* The host. *)

(* A message is written and its reply is read; then comes the next one. *)
HostWrites(e, n) ==
    /\ ~bus_reset /\ ~request /\ stage[e] \in {"idle", "done"} /\ message[e] < MaxMessages
    /\ message' = [message EXCEPT ![e] = @ + 1] /\ total' = [total EXCEPT ![e] = n]
    /\ sent' = [sent EXCEPT ![e] = 0] /\ got' = [got EXCEPT ![e] = <<>>]
    /\ stage' = [stage EXCEPT ![e] = "write"]
    /\ UNCHANGED busVars

(* A bulk message ends with a packet that is not full, an interrupt message
   is one packet. *)
HostSends(e) ==
    /\ ~bus_reset /\ stage[e] = "write" /\ outp[e] = <<>>
    /\ LET n == Least(MPS, total[e] - sent[e])
       IN /\ outp' = [outp EXCEPT ![e] = <<[k \in 1..n |-> <<message[e], sent[e] + k>>]>>]
          /\ sent' = [sent EXCEPT ![e] = @ + n]
          /\ stage' = [stage EXCEPT ![e] = IF n < MPS \/ e = INTERRUPT THEN "read" ELSE @]
    /\ UNCHANGED <<inp, in_done, fetched, request, bus_reset, message, total, got>>

TakesPacket(e) ==
    /\ ~bus_reset /\ inp[e] # <<>>
    /\ inp' = [inp EXCEPT ![e] = <<>>] /\ in_done' = [in_done EXCEPT ![e] = TRUE]
    /\ UNCHANGED <<outp, fetched, request, bus_reset, message, total, sent>>

(* All the bytes asked for, or a packet that is not full, end the reply. *)
HostReads(e) ==
    /\ stage[e] = "read" /\ TakesPacket(e)
    /\ LET reply == got[e] \o Head(inp[e])
       IN /\ got' = [got EXCEPT ![e] = reply]
          /\ stage' = [stage EXCEPT ![e] =
                          IF Len(reply) >= total[e] \/ Len(Head(inp[e])) < MPS THEN "done" ELSE @]

(* Between two messages the host turns on bench mode, in which it writes and
   reads as much as it likes. *)
HostBench ==
    /\ ~bus_reset /\ ~request /\ \A e \in Eps : stage[e] \in {"idle", "done"}
    /\ request' = TRUE /\ stage' = [e \in Eps |-> "bench"]
    /\ UNCHANGED <<outp, inp, in_done, fetched, bus_reset, message, total, sent, got>>

HostBenchWrites ==
    /\ ~bus_reset /\ ~request /\ stage[BULK] = "bench" /\ outp[BULK] = <<>>
    /\ outp' = [outp EXCEPT ![BULK] = <<[k \in 1..MPS |-> <<0, k>>]>>]
    /\ UNCHANGED <<inp, in_done, fetched, request, bus_reset, hostVars>>

HostBenchReads ==
    /\ ~request /\ stage[BULK] = "bench" /\ TakesPacket(BULK)
    /\ UNCHANGED <<got, stage>>

(* A bus reset empties the peripheral. *)
HostReset ==
    /\ ~bus_reset
    /\ bus_reset' = TRUE /\ request' = FALSE
    /\ outp' = NoPackets /\ inp' = NoPackets /\ in_done' = NoEvents
    /\ stage' = [e \in Eps |-> "idle"]
    /\ UNCHANGED <<fetched, message, total, sent, got>>

HostNext ==
    \/ \E e \in Eps : HostSends(e) \/ HostReads(e) \/ \E n \in Lengths[e] : HostWrites(e, n)
    \/ HostBench \/ HostBenchWrites \/ HostBenchReads
    \/ HostReset
=============================================================================
