------------------------------- MODULE MCPipe -------------------------------
(* Instances of ControlPipe for TLC: the requests of a small host. *)
EXTENDS ControlPipe

In(n) == [dir |-> "In", length |-> n]
Out(n) == [dir |-> "Out", length |-> n]

(* With MPS = 2 and BufLen = 4: no data stage, a short packet, exactly one
   packet, a packet and a short one, the whole buffer. *)
FittingRequests == {In(0), In(1), In(2), In(3), In(4), Out(0), Out(1), Out(2), Out(3), Out(4)}

(* Also a request whose data stage is longer than the control buffer. *)
AllRequests == FittingRequests \cup {In(6), Out(5)}

(* And one that halts endpoint 0. *)
Halting == [dir |-> "Out", length |-> 0, halts |-> TRUE]
HaltingRequests == {Halting}
TroubleRequests == AllRequests \cup HaltingRequests
=============================================================================
