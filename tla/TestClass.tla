------------------------------ MODULE TestClass ------------------------------
(***************************************************************************)
(* UsbDevice::poll at the endpoints other than 0 (src/src/device.rs:       *)
(* 183-332) and the class it calls back, TestClass                         *)
(* (src/src/test_class.rs): what the host writes to the bulk or interrupt  *)
(* OUT endpoint is sent back on the IN endpoint.                           *)
(*                                                                         *)
(* The application calls UsbDevice::poll and then TestClass::poll, again   *)
(* and again.  The host moves between the steps of that cycle:             *)
(*   "poll"        the driver reports a snapshot of its events             *)
(*   "ep0"         the request at endpoint 0 is answered                   *)
(*   "endpoints"   the events of the snapshot go to the class              *)
(*   "class", "interrupt"   TestClass::poll reads the two OUT endpoints    *)
(*   "panic"       one of the class's assertions failed                    *)
(*                                                                         *)
(* Unused operators are mistaken forms of the next one, as in ControlPipe. *)
(***************************************************************************)
EXTENDS EndpointBus

VARIABLES
    bulk_buf, i, len,       \* the message that is received, then sent back
    bench,                  \* bench mode
    expect_out,             \* expect_bulk_out, expect_interrupt_out
    expect_in_complete,     \* expect_bulk_in_complete, expect_interrupt_in_complete
    snapshot,               \* events of poll that are still to be dispatched
    pc

classVars == <<bulk_buf, i, len, bench, expect_out, expect_in_complete>>
vars == <<busVars, hostVars, classVars, snapshot, pc>>

Idx == 0..BUFFER - 1

TestTypeOK ==
    /\ BusTypeOK
    /\ bulk_buf \in [Idx -> Byte]
    /\ i \in 0..BUFFER /\ len \in 0..BUFFER
    /\ bench \in BOOLEAN
    /\ expect_out \in [Eps -> BOOLEAN] /\ expect_in_complete \in [Eps -> BOOLEAN]
    /\ snapshot \in [out : SUBSET Eps, in_complete : SUBSET Eps]
    /\ pc \in {"poll", "ep0", "endpoints", "class", "interrupt", "panic"}

NoSnapshot == [out |-> {}, in_complete |-> {}]

Init ==
    /\ BusInit
    /\ bulk_buf = [j \in Idx |-> <<0, 0>>] /\ i = 0 /\ len = 0
    /\ bench = FALSE /\ expect_out = NoEvents /\ expect_in_complete = NoEvents
    /\ snapshot = NoSnapshot /\ pc = "poll"

-----------------------------------------------------------------------------
(* UsbDevice::poll. *)

(* Where poll goes with the events that are left. *)
AfterEvent(s) == IF s.out \cup s.in_complete = {} THEN "class" ELSE "endpoints"

(* Without an event poll returns false; the application may call
   TestClass::poll all the same. *)
PollData ==
    /\ pc = "poll" /\ ~bus_reset
    /\ snapshot' = [out |-> OutEvents, in_complete |-> InEvents]
    /\ in_done' = NoEvents /\ fetched' = OutEvents
    /\ pc' = IF request THEN "ep0" ELSE AfterEvent(snapshot')
    /\ UNCHANGED <<outp, inp, request, bus_reset, hostVars, classVars>>

(* TestClass::reset. *)
ResetClass ==
    /\ i' = 0 /\ len' = 0 /\ bench' = FALSE
    /\ expect_out' = NoEvents /\ expect_in_complete' = NoEvents

PollReset ==
    /\ pc = "poll" /\ bus_reset
    /\ ResetBus /\ ResetClass
    /\ pc' = "class"
    /\ UNCHANGED <<request, hostVars, bulk_buf, snapshot>>

(* Endpoint 0 comes first: control_out with SET_BENCH_ENABLED. *)
SetBenchEnabled ==
    /\ pc = "ep0"
    /\ request' = FALSE
    /\ bench' = (request \/ bench)
    /\ pc' = AfterEvent(snapshot)
    /\ UNCHANGED <<outp, inp, in_done, fetched, bus_reset, hostVars, bulk_buf, i, len,
                   expect_out, expect_in_complete, snapshot>>

-----------------------------------------------------------------------------
(* write_bulk_in with l bytes to send, p of them sent, and the flags f. *)
Uncapped(l, p) == l - p
ToWrite(l, p) == Least(l - p, MPS)

ExpectIfMore(f, l, p) == [f EXCEPT ![BULK] = p < l]
ExpectComplete(f, l, p) == [f EXCEPT ![BULK] = TRUE]

WriteBulkIn(write_empty, l, p, f, b) ==
    LET n == ToWrite(l, p)
    IN IF n = 0 /\ ~write_empty
       THEN /\ len' = 0 /\ i' = 0
            /\ expect_in_complete' = f /\ UNCHANGED inp
       ELSE /\ len' = l
            /\ IF inp[BULK] = <<>>
               THEN /\ inp' = [inp EXCEPT ![BULK] = <<[k \in 1..n |-> b[p + k - 1]]>>]
                    /\ expect_in_complete' = ExpectComplete(f, l, p + n) /\ i' = p + n
               ELSE i' = p /\ expect_in_complete' = f /\ UNCHANGED inp

KeepExpecting(e) == expect_in_complete
Completed(e) == [expect_in_complete EXCEPT ![e] = FALSE]

(* endpoint_in_complete. *)
InComplete(e) ==
    \/ /\ bench /\ pc' = AfterEvent(snapshot')
       /\ UNCHANGED <<i, len, inp, expect_in_complete>>
    \/ /\ ~bench /\ ~expect_in_complete[e] /\ pc' = "panic"
       /\ UNCHANGED <<i, len, inp, expect_in_complete>>
    \/ /\ ~bench /\ expect_in_complete[e] /\ pc' = AfterEvent(snapshot')
       /\ IF e = BULK
          THEN WriteBulkIn(FALSE, len, i, Completed(e), bulk_buf)
          ELSE expect_in_complete' = Completed(e) /\ UNCHANGED <<i, len, inp>>

(* The next endpoint with an event: endpoint_out, then endpoint_in_complete. *)
CompleteAlone(e) == e \in snapshot.in_complete /\ e \notin snapshot.out
HasCompleted(e) == e \in snapshot.in_complete

Dispatch(e) ==
    /\ pc = "endpoints" /\ e \in snapshot.out \cup snapshot.in_complete
    /\ \A d \in snapshot.out \cup snapshot.in_complete : e <= d
    /\ snapshot' = [out |-> snapshot.out \ {e}, in_complete |-> snapshot.in_complete \ {e}]
    /\ expect_out' = [expect_out EXCEPT ![e] = @ \/ e \in snapshot.out]
    /\ IF HasCompleted(e)
       THEN InComplete(e)
       ELSE pc' = AfterEvent(snapshot') /\ UNCHANGED <<i, len, inp, expect_in_complete>>
    /\ UNCHANGED <<outp, in_done, fetched, request, bus_reset, hostVars, bulk_buf, bench>>

-----------------------------------------------------------------------------
(* TestClass::poll. *)

BenchPoll ==
    /\ pc = "class" /\ bench
    /\ IF Readable(BULK)
       THEN /\ Taken(BULK)
            /\ bulk_buf' = [j \in Idx |-> IF j < Len(Head(outp[BULK]))
                                          THEN Head(outp[BULK])[j + 1] ELSE bulk_buf[j]]
       ELSE UNCHANGED <<outp, fetched, bulk_buf>>
    /\ inp' = IF inp[BULK] = <<>>
              THEN [inp EXCEPT ![BULK] = <<[k \in 1..MPS |-> bulk_buf'[k - 1]]>>]
              ELSE inp
    /\ pc' = "poll"
    /\ UNCHANGED <<in_done, request, bus_reset, hostVars, i, len, bench, expect_out,
                   expect_in_complete, snapshot>>

(* A read that finds nothing. *)
NothingRead(e, next) ==
    /\ ~Readable(e)
    /\ pc' = next
    /\ UNCHANGED <<busVars, classVars>>

(* A packet that endpoint_out did not announce, or that does not fit. *)
Panics(e, room) ==
    /\ Readable(e)
    /\ ~expect_out[e] \/ Len(Head(outp[e])) > room
    /\ pc' = "panic"
    /\ UNCHANGED <<busVars, classVars>>

(* An empty message is answered with an empty packet. *)
NeverEmpty(count) == FALSE
WriteEmpty(count) == count = 0

BulkPacket ==
    /\ Readable(BULK) /\ expect_out[BULK] /\ Len(Head(outp[BULK])) <= BUFFER - i
    /\ Taken(BULK) /\ expect_out' = [expect_out EXCEPT ![BULK] = FALSE]
    /\ LET p == Head(outp[BULK])
           count == Len(p)
       IN /\ bulk_buf' = [j \in Idx |-> IF i <= j /\ j < i + count THEN p[j - i + 1]
                                                                   ELSE bulk_buf[j]]
          /\ IF count < MPS
             THEN WriteBulkIn(WriteEmpty(count), i + count, 0, expect_in_complete, bulk_buf')
             ELSE i' = i + count /\ UNCHANGED <<len, inp, expect_in_complete>>
    /\ pc' = "interrupt"
    /\ UNCHANGED <<in_done, request, bus_reset, bench>>

InterruptPacket ==
    /\ Readable(INTERRUPT) /\ expect_out[INTERRUPT]
    /\ Taken(INTERRUPT) /\ expect_out' = [expect_out EXCEPT ![INTERRUPT] = FALSE]
    /\ IF inp[INTERRUPT] = <<>>
       THEN /\ inp' = [inp EXCEPT ![INTERRUPT] = outp[INTERRUPT]]
            /\ expect_in_complete' = [expect_in_complete EXCEPT ![INTERRUPT] = TRUE]
            /\ pc' = "poll"
       ELSE pc' = "panic" /\ UNCHANGED <<inp, expect_in_complete>>
    /\ UNCHANGED <<in_done, request, bus_reset, bulk_buf, i, len, bench>>

LoopbackPoll ==
    /\ \/ /\ pc = "class" /\ ~bench
          /\ NothingRead(BULK, "interrupt") \/ Panics(BULK, BUFFER - i) \/ BulkPacket
       \/ /\ pc = "interrupt"
          /\ NothingRead(INTERRUPT, "poll") \/ Panics(INTERRUPT, BUFFER) \/ InterruptPacket
    /\ UNCHANGED <<hostVars, snapshot>>

-----------------------------------------------------------------------------
Cycle ==
    \/ PollData \/ PollReset \/ SetBenchEnabled \/ (\E e \in Eps : Dispatch(e))
    \/ BenchPoll \/ LoopbackPoll

Next ==
    \/ HostNext /\ UNCHANGED <<classVars, snapshot, pc>>
    \/ Cycle

(* The application polls again and again, and the host goes on with the
   message it has begun. *)
Fairness ==
    /\ WF_vars(Cycle)
    /\ \A e \in Eps :
          WF_vars(/\ HostSends(e) \/ HostReads(e)
                  /\ UNCHANGED <<classVars, snapshot, pc>>)

Spec == Init /\ [][Next]_vars
FairSpec == Spec /\ Fairness

-----------------------------------------------------------------------------
(* Properties. *)

(* What the host reads is a part of what it wrote, in order, and when the
   reply ends it is all of it. *)
EchoIntact ==
    \A e \in Eps :
        /\ Len(got[e]) <= total[e]
        /\ \A k \in 1..Len(got[e]) : got[e][k] = <<message[e], k>>
        /\ stage[e] = "done" => Len(got[e]) = total[e]

(* No assertion of the class fails: it never reads a packet that was not
   announced, an IN-complete event never comes unexpected, no write that must
   succeed fails and no packet is too long for the rest of the buffer. *)
NothingUnexpected == pc # "panic"

(* When TestClass::poll has returned, the flags are exactly what is under way:
   every announced packet was read, and an IN-complete event is expected for
   the packets that are waiting or taken, and for no other. *)
ExpectationsMatch ==
    pc = "poll" /\ ~bench /\ ~bus_reset =>
        \A e \in Eps :
            /\ ~expect_out[e]
            /\ expect_in_complete[e] <=> (inp[e] # <<>> \/ in_done[e])

(* Every message comes back, unless the host resets the bus. *)
EchoArrives ==
    \A e \in Eps, m \in 1..MaxMessages :
        (message[e] = m /\ stage[e] \in {"write", "read"})
            ~> (message[e] # m \/ stage[e] \in {"done", "idle"})
=============================================================================
