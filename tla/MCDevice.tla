------------------------------ MODULE MCDevice ------------------------------
(* Instances of UsbDevice for TLC: the requests of a small host. *)
EXTENDS UsbDevice

InReq(call, value, n) == [dir |-> "In", length |-> n, call |-> call, value |-> value]
OutReq(call, value) == [dir |-> "Out", length |-> 0, call |-> call, value |-> value]

(* Enumeration, with a second address, a configuration that does not exist,
   and a class request with data each way. *)
HostRequests ==
    {OutReq("SET_ADDRESS", 1), OutReq("SET_ADDRESS", 2), OutReq("SET_ADDRESS", 3),
     OutReq("SET_CONFIGURATION", 0), OutReq("SET_CONFIGURATION", 1),
     OutReq("SET_CONFIGURATION", 2),
     OutReq("SET_REMOTE_WAKEUP", 0), OutReq("CLEAR_REMOTE_WAKEUP", 0),
     OutReq("SET_HALT", 1), OutReq("CLEAR_HALT", 1),
     OutReq("SET_HALT", EP0_OUT), OutReq("SET_HALT", EP0_IN),
     OutReq("CLEAR_HALT", EP0_IN),
     OutReq("SET_INTERFACE", 0), OutReq("other", 0),
     InReq("GET_DESCRIPTOR", 3, 4), InReq("GET_DESCRIPTOR", 0, 2),
     InReq("GET_CONFIGURATION", 1, 1), InReq("GET_INTERFACE", 1, 1),
     InReq("other", 0, 1), InReq("class", 0, 2),
     [dir |-> "Out", length |-> 3, call |-> "class", value |-> 0]}

HaltingRequests == {r \in HostRequests : /\ r.call \in {"SET_HALT", "CLEAR_HALT"}
                                        /\ r.value \in {EP0_OUT, EP0_IN}}

(* Enumeration, and data of a class that are shorter and longer than asked. *)
EnumerationRequests ==
    {OutReq("SET_ADDRESS", 1), OutReq("SET_ADDRESS", 2),
     OutReq("SET_CONFIGURATION", 0), OutReq("SET_CONFIGURATION", 1),
     InReq("GET_DESCRIPTOR", 3, 4), InReq("class", 0, 2), InReq("class", 0, 6)}

(* A descriptor that does not fit the control buffer of 4 bytes. *)
LongDescriptorRequests == {InReq("GET_DESCRIPTOR", 5, 6), OutReq("SET_ADDRESS", 1)}
=============================================================================
