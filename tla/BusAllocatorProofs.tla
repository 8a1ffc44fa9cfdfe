------------------------- MODULE BusAllocatorProofs -------------------------
(***************************************************************************)
(* Theorems about BusAllocator, for every set of classes and endpoints and *)
(* every number of values of a byte.                                       *)
(***************************************************************************)
EXTENDS BusAllocator, TLAPS

USE AllocatorAssumption

-----------------------------------------------------------------------------
(* Lemmas about the operators. *)

(* A counter goes to the next number, and from the last one to 0. *)
LEMMA IncrementedWraps ==
    ASSUME NEW next \in 0..Width - 1
    PROVE  Incremented(next) = IF next + 1 = Width THEN 0 ELSE next + 1
BY DEF Incremented

(* Calls that hand out a number, for one of the two counters that began at
   first: if it has not wrapped, the numbers are consecutive. *)
Consecutive(handed, next, first) ==
    Len(handed) <= Width - first =>
        /\ next = IF Len(handed) = Width - first THEN 0 ELSE first + Len(handed)
        /\ \A p \in 1..Len(handed) : handed[p][1] = first + p - 1

(* Handing out one more number keeps them consecutive. *)
LEMMA ConsecutiveAfterCall ==
    ASSUME NEW next \in 0..Width - 1, NEW c \in Classes, NEW first \in 0..4,
           NEW handed \in Seq((0..Width - 1) \X Classes),
           Consecutive(handed, next, first)
    PROVE  /\ Append(handed, <<next, c>>) \in Seq((0..Width - 1) \X Classes)
           /\ Incremented(next) \in 0..Width - 1
           /\ Consecutive(Append(handed, <<next, c>>), Incremented(next), first)
<1> DEFINE h == Append(handed, <<next, c>>)
<1>1. /\ h \in Seq((0..Width - 1) \X Classes) /\ Len(h) = Len(handed) + 1
      /\ \A p \in 1..Len(handed) : h[p] = handed[p]
      /\ h[Len(handed) + 1] = <<next, c>>
  OBVIOUS
<1>2. Incremented(next) \in 0..Width - 1 BY IncrementedWraps
<1>3. ASSUME Len(h) <= Width - first
      PROVE  /\ Incremented(next) = IF Len(h) = Width - first THEN 0 ELSE first + Len(h)
             /\ \A p \in 1..Len(h) : h[p][1] = first + p - 1
  <2>1. /\ next = first + Len(handed)
        /\ \A p \in 1..Len(handed) : handed[p][1] = first + p - 1
    BY <1>1, <1>3 DEF Consecutive
  <2>2. Incremented(next) = IF Len(h) = Width - first THEN 0 ELSE first + Len(h)
    <3> DEFINE n == Len(handed)
    <3>1. n \in Nat /\ first \in Nat /\ Width \in Nat OBVIOUS
    <3>2. Len(h) = n + 1 BY <1>1
    <3>3. next = first + n BY <2>1
    <3>4. Incremented(next) = IF next + 1 = Width THEN 0 ELSE next + 1
      BY IncrementedWraps
    <3> HIDE DEF n, h
    <3> QED BY ONLY <3>1, <3>2, <3>3, <3>4
  <2>3. ASSUME NEW p \in 1..Len(h) PROVE h[p][1] = first + p - 1
    <3>1. CASE p \in 1..Len(handed) BY <1>1, <2>1, <3>1
    <3>2. CASE p = Len(handed) + 1 BY <1>1, <2>1, <3>2
    <3> QED BY <1>1, <3>1, <3>2
  <2> QED BY <2>2, <2>3
<1> QED BY <1>1, <1>2, <1>3 DEF Consecutive

(* The first class that knows a number is the one that got it, when the
   numbers handed out are consecutive. *)
LEMMA FirstClassIsOwner ==
    ASSUME NEW next, NEW first \in 0..4, NEW handed \in Seq((0..Width - 1) \X Classes),
           Consecutive(handed, next, first), Len(handed) <= Width - first,
           NEW p \in 1..Len(handed)
    PROVE  FirstClass(handed, handed[p][1]) = handed[p][2]
<1> DEFINE known == {c \in Classes : \E q \in 1..Len(handed) : handed[q] = <<handed[p][1], c>>}
<1>1. handed[p] = <<handed[p][1], handed[p][2]>> /\ handed[p][2] \in Classes OBVIOUS
<1>2. handed[p][2] \in known BY <1>1
<1>3. ASSUME NEW c \in known PROVE c = handed[p][2]
  <2>1. PICK q \in 1..Len(handed) : handed[q] = <<handed[p][1], c>> OBVIOUS
  <2>2. handed[q][1] = first + q - 1 /\ handed[p][1] = first + p - 1 BY DEF Consecutive
  <2>3. q = p BY <2>1, <2>2
  <2> QED BY <2>1, <2>3
<1>4. known = {handed[p][2]} BY <1>2, <1>3
<1>5. handed[p][2] <= handed[p][2]
  <2>1. handed[p][2] \in Nat BY <1>1
  <2> QED BY ONLY <2>1
<1>6. FirstClass(handed, handed[p][1]) =
         CHOOSE c \in {handed[p][2]} : \A d \in {handed[p][2]} : c <= d
  BY <1>4 DEF FirstClass
<1> QED BY <1>5, <1>6

-----------------------------------------------------------------------------
(* The inductive invariant. *)

(* Where the program is in freeze tells which of its effects are there. *)
FreezeInv ==
    /\ bus_ptr => enabled
    /\ used => bus_ptr
    /\ enabled /\ at \in {"main", "freeze1"} => bus_borrowed
    /\ at \in {"freeze2", "freeze3"} => enabled
    /\ at = "freeze1" => ~bus_borrowed

NumbersInv ==
    /\ Consecutive(interfaces, next_interface_number, 0)
    /\ Consecutive(strings, next_string_index, 4)

AllocInv == AllocatorTypeOK /\ FreezeInv /\ DeviceIsComplete /\ NumbersInv

(* The initial states satisfy the invariant. *)
LEMMA InitAlloc == Init => AllocInv
<1> SUFFICES ASSUME Init PROVE AllocInv
  OBVIOUS
<1> USE DEF Init
<1>1. AllocatorTypeOK
  <2>1. 0 \in 0..Width - 1 /\ next_string_index \in 0..Width - 1 BY DEF FirstStringIndex
  <2>2. owner \in [Address -> Classes \cup {Device, Nobody}] OBVIOUS
  <2>3. <<>> \in Seq((0..Width - 1) \X Classes) OBVIOUS
  <2> QED BY <2>1, <2>2, <2>3 DEF AllocatorTypeOK
<1>2. FreezeInv /\ DeviceIsComplete BY DEF FreezeInv, DeviceIsComplete
<1>3. NumbersInv BY DEF NumbersInv, Consecutive, FirstStringIndex
<1> QED BY <1>1, <1>2, <1>3 DEF AllocInv

(* Handing out numbers. *)
LEMMA NumbersAlloc ==
    ASSUME AllocInv, NEW c \in Classes, Interface(c) \/ String(c)
    PROVE  AllocInv'
<1> USE DEF AllocInv, AllocatorTypeOK
<1>1. /\ UNCHANGED <<state_borrowed, bus_borrowed, bus_ptr, owner, enabled, builder, device,
                     overflow_checks, used>>
      /\ at' \in {at, "panic"}
  BY DEF Interface, String, Panic
<1>2. FreezeInv' /\ DeviceIsComplete' BY <1>1 DEF FreezeInv, DeviceIsComplete
<1>3. CASE UNCHANGED numberVars
  BY <1>1, <1>2, <1>3 DEF numberVars, NumbersInv, Consecutive
<1>4. CASE /\ interfaces' = Append(interfaces, <<next_interface_number, c>>)
           /\ next_interface_number' = Incremented(next_interface_number)
           /\ UNCHANGED <<strings, next_string_index>>
  <2>1. /\ interfaces' \in Seq((0..Width - 1) \X Classes)
        /\ next_interface_number' \in 0..Width - 1
        /\ Consecutive(interfaces', next_interface_number', 0)
    <3>1. Consecutive(interfaces, next_interface_number, 0) /\ 0 \in 0..4
      BY DEF NumbersInv
    <3> QED BY <1>4, <3>1, ConsecutiveAfterCall
  <2>2. NumbersInv' BY <1>4, <2>1 DEF NumbersInv, Consecutive
  <2> QED BY <1>1, <1>2, <1>4, <2>1, <2>2
<1>5. CASE /\ strings' = Append(strings, <<next_string_index, c>>)
           /\ next_string_index' = Incremented(next_string_index)
           /\ UNCHANGED <<interfaces, next_interface_number>>
  <2>1. /\ strings' \in Seq((0..Width - 1) \X Classes)
        /\ next_string_index' \in 0..Width - 1
        /\ Consecutive(strings', next_string_index', 4)
    <3>1. Consecutive(strings, next_string_index, 4) /\ 4 \in 0..4
      BY DEF NumbersInv
    <3> QED BY <1>5, <3>1, ConsecutiveAfterCall
  <2>2. NumbersInv' BY <1>5, <2>1 DEF NumbersInv, Consecutive
  <2> QED BY <1>1, <1>2, <1>5, <2>1, <2>2
<1> QED BY <1>3, <1>4, <1>5 DEF Interface, String

(* Only endpoints that nobody has are given away, by a driver that is not
   borrowed; endpoint 0 of a device is its own. *)
LEMMA EndpointsAlloc ==
    ASSUME AllocInv, NEW c \in Classes, NEW dir \in {"Out", "In"},
           AllocAny(c, dir) \/ \E n \in Numbers : AllocAt(c, dir, n)
    PROVE  AllocInv' /\ (owner' # owner => ~bus_borrowed /\ at = "main")
<1> USE DEF AllocInv, AllocatorTypeOK
<1>1. BusStays /\ at = "main" /\ at' \in {"main", "panic"}
  BY DEF AllocAny, AllocAt, Panic
<1>2. \/ UNCHANGED owner
      \/ \E n \in Numbers : /\ Free(dir, n) /\ ~bus_borrowed
                            /\ owner' = [owner EXCEPT ![<<dir, n>>] = c]
  BY DEF AllocAny, AllocAt, FreeNumbers
<1>3. /\ owner' \in [Address -> Classes \cup {Device, Nobody}]
      /\ \A a \in Address : owner[a] = Device => owner'[a] = Device
      /\ owner' # owner => ~bus_borrowed
  <2>1. CASE UNCHANGED owner BY <2>1
  <2>2. ASSUME NEW n \in Numbers, Free(dir, n), ~bus_borrowed,
               owner' = [owner EXCEPT ![<<dir, n>>] = c]
        PROVE  <1>3!1 /\ <1>3!2
    <3>1. <<dir, n>> \in Address /\ owner[<<dir, n>>] # Device
      BY <2>2 DEF Address, Free
    <3> QED BY <2>2, <3>1
  <2> QED BY <1>2, <2>1, <2>2
<1>4. FreezeInv' /\ NumbersInv'
  BY <1>1 DEF FreezeInv, NumbersInv, Consecutive, BusStays, allocVars
<1>5. DeviceIsComplete'
  <2>1. <<"Out", 0>> \in Address /\ <<"In", 0>> \in Address BY DEF Address
  <2> QED BY <1>1, <1>3, <2>1 DEF DeviceIsComplete, BusStays
<1> QED BY <1>1, <1>3, <1>4, <1>5 DEF BusStays, allocVars

(* A handle reaches the driver through the pointer, or panics. *)
LEMMA UseAlloc ==
    ASSUME AllocInv, NEW c \in Classes, UseEndpoint(c)
    PROVE  AllocInv'
<1> USE DEF AllocInv
<1>1. /\ UNCHANGED <<allocVars, owner, enabled, builder, device, overflow_checks, interfaces,
                     strings>>
      /\ \/ used' = TRUE /\ bus_ptr /\ UNCHANGED at
         \/ UNCHANGED used /\ at' = "panic"
  BY DEF UseEndpoint, Panic, AllocatorTypeOK
<1>2. AllocatorTypeOK' BY <1>1 DEF AllocatorTypeOK, allocVars
<1>3. FreezeInv' BY <1>1 DEF FreezeInv, allocVars
<1>4. DeviceIsComplete' /\ NumbersInv'
  BY <1>1 DEF DeviceIsComplete, NumbersInv, Consecutive, allocVars
<1> QED BY <1>2, <1>3, <1>4

(* The builder's own calls. *)
LEMMA BuilderAlloc ==
    ASSUME AllocInv,
           \/ \E n \in ControlLens : BuilderNew(n)
           \/ \E n \in PacketSizes : MaxPacketSize0(n)
    PROVE  AllocInv'
<1> USE DEF AllocInv, AllocatorTypeOK
<1>1. UNCHANGED <<allocVars, owner, enabled, device, at, overflow_checks, interfaces,
                  strings, used>>
  BY DEF BuilderNew, MaxPacketSize0
<1>2. builder' \in Configs \cup {Absent}
  <2>1. ASSUME NEW n \in ControlLens, BuilderNew(n) PROVE <1>2
    BY <2>1 DEF BuilderNew, Configs
  <2>2. ASSUME NEW n \in PacketSizes, MaxPacketSize0(n) PROVE <1>2
    BY <2>2 DEF MaxPacketSize0, Configs
  <2> QED BY <2>1, <2>2
<1> QED BY <1>1, <1>2 DEF FreezeInv, DeviceIsComplete, NumbersInv, Consecutive, allocVars

(* build takes endpoint 0 before the driver is enabled. *)
LEMMA BuildAlloc ==
    ASSUME AllocInv, Build
    PROVE  AllocInv' /\ (owner' # owner => ~bus_borrowed /\ at = "main")
<1> USE DEF AllocInv, AllocatorTypeOK
<1>1. /\ builder' = Absent /\ at = "main" /\ builder \in Configs
      /\ UNCHANGED <<next_interface_number, next_string_index, bus_borrowed, bus_ptr, enabled,
                     overflow_checks, interfaces, strings, used>>
  BY DEF Build
<1>2. NumbersInv' BY <1>1 DEF NumbersInv, Consecutive
<1>3. CASE UNCHANGED <<owner, device, state_borrowed>> /\ at' \in {"main", "panic"}
  BY <1>1, <1>2, <1>3 DEF FreezeInv, DeviceIsComplete
<1>4. CASE /\ BufferLargeEnough(builder) /\ ~bus_borrowed
           /\ owner' = [a \in Address |-> IF a[2] = 0 THEN Device ELSE owner[a]]
           /\ device' = builder /\ state_borrowed' = TRUE /\ at' = "freeze1"
  <2>1. owner' \in [Address -> Classes \cup {Device, Nobody}] BY <1>4
  <2>2. DeviceIsComplete'
    <3>1. owner'[<<"Out", 0>>] = Device /\ owner'[<<"In", 0>>] = Device
      BY <1>4 DEF Address
    <3>2. device'.mps \in {8, 16, 32, 64} /\ device'.mps <= device'.len
      BY <1>1, <1>4 DEF BufferLargeEnough, Configs
    <3> QED BY <3>1, <3>2 DEF DeviceIsComplete
  <2>3. FreezeInv' BY <1>1, <1>4 DEF FreezeInv
  <2> QED BY <1>1, <1>2, <1>4, <2>1, <2>2, <2>3
<1> QED BY <1>3, <1>4 DEF Build, Panic

(* The steps of freeze. *)
LEMMA FreezeAlloc ==
    ASSUME AllocInv, Freeze
    PROVE  AllocInv' /\ UNCHANGED owner
<1> USE DEF AllocInv, AllocatorTypeOK
<1>1. /\ UNCHANGED <<next_interface_number, next_string_index, state_borrowed, owner, builder,
                     device, overflow_checks, interfaces, strings, used>>
      /\ \/ /\ at = "freeze1" /\ at' = "freeze2"
            /\ enabled' = TRUE /\ UNCHANGED <<bus_ptr, bus_borrowed>>
         \/ /\ at = "freeze2" /\ at' = "freeze3"
            /\ bus_ptr' = TRUE /\ UNCHANGED <<enabled, bus_borrowed>>
         \/ /\ at = "freeze3" /\ at' = "main"
            /\ bus_borrowed' = TRUE /\ UNCHANGED <<enabled, bus_ptr>>
  <2>1. PICK k \in 1..3 :
           /\ at = FreezeAt[k] /\ at' = FreezeAt[k + 1]
           /\ enabled' = (enabled \/ FreezeSteps[k] = "enable")
           /\ bus_ptr' = (bus_ptr \/ FreezeSteps[k] = "store")
           /\ IF FreezeSteps[k] = "forget" THEN BorrowForgotten ELSE UNCHANGED bus_borrowed
    BY DEF Freeze
  <2>2. /\ FreezeAt[1] = "freeze1" /\ FreezeAt[1 + 1] = "freeze2"
        /\ FreezeAt[2] = "freeze2" /\ FreezeAt[2 + 1] = "freeze3"
        /\ FreezeAt[3] = "freeze3" /\ FreezeAt[3 + 1] = "main"
        /\ FreezeSteps[1] = "enable" /\ FreezeSteps[2] = "store" /\ FreezeSteps[3] = "forget"
    BY DEF FreezeAt, FreezeSteps
  <2>3. UNCHANGED <<next_interface_number, next_string_index, state_borrowed, owner, builder,
                    device, overflow_checks, interfaces, strings, used>>
    BY DEF Freeze
  <2> USE DEF BorrowForgotten
  <2>4. CASE k = 1 BY <2>1, <2>2, <2>3, <2>4
  <2>5. CASE k = 2 BY <2>1, <2>2, <2>3, <2>5
  <2>6. CASE k = 3 BY <2>1, <2>2, <2>3, <2>6
  <2>7. k = 1 \/ k = 2 \/ k = 3 BY <2>1
  <2> QED BY ONLY <2>4, <2>5, <2>6, <2>7, Zenon
<1>2. NumbersInv' /\ DeviceIsComplete'
  BY <1>1 DEF NumbersInv, Consecutive, DeviceIsComplete
<1>3. FreezeInv' BY <1>1 DEF FreezeInv
<1> QED BY <1>1, <1>2, <1>3

(* Every step keeps the invariant, and the endpoints change hands only in
   front of a driver that is not enabled. *)
LEMMA NextAlloc ==
    ASSUME AllocInv, [Next]_vars
    PROVE  AllocInv' /\ (owner' # owner => ~enabled)
<1>1. CASE UNCHANGED vars
  BY <1>1 DEF vars, allocVars, AllocInv, AllocatorTypeOK, FreezeInv, DeviceIsComplete,
     NumbersInv, Consecutive
<1>2. ASSUME ~bus_borrowed /\ at = "main" PROVE ~enabled
  BY <1>2 DEF AllocInv, FreezeInv
<1>3. ASSUME NEW c \in Classes, Interface(c) \/ String(c) \/ UseEndpoint(c)
      PROVE  AllocInv' /\ UNCHANGED owner
  BY <1>3, NumbersAlloc, UseAlloc DEF Interface, String, UseEndpoint
<1>4. ASSUME \/ \E n \in ControlLens : BuilderNew(n)
             \/ \E n \in PacketSizes : MaxPacketSize0(n)
      PROVE  AllocInv' /\ UNCHANGED owner
  BY <1>4, BuilderAlloc DEF BuilderNew, MaxPacketSize0
<1> QED BY <1>1, <1>2, <1>3, <1>4, EndpointsAlloc, BuildAlloc, FreezeAlloc DEF Next

-----------------------------------------------------------------------------
(* The variables of the allocator, the builder and the driver keep their types;
   in particular the counters stay bytes. *)
THEOREM AllocatorTypeCorrect == Spec => []AllocatorTypeOK
<1>1. Init => AllocInv BY InitAlloc
<1>2. AllocInv /\ [Next]_vars => AllocInv' BY NextAlloc
<1>3. AllocInv => AllocatorTypeOK BY DEF AllocInv
<1> QED BY <1>1, <1>2, <1>3, PTL DEF Spec

(* A handle never reaches a driver that is not enabled, wherever freeze is
   interrupted, and every device that was built has endpoint 0 in both
   directions and a control buffer that holds a packet. *)
THEOREM BuiltInOrder == Spec => [](UsedAfterEnable /\ DeviceIsComplete)
<1>1. Init => AllocInv BY InitAlloc
<1>2. AllocInv /\ [Next]_vars => AllocInv' BY NextAlloc
<1>3. AllocInv => UsedAfterEnable /\ DeviceIsComplete
  BY DEF AllocInv, FreezeInv, UsedAfterEnable, AllocatorTypeOK
<1> QED BY <1>1, <1>2, <1>3, PTL DEF Spec

(* No endpoint is allocated in a driver that was enabled, whatever the
   application calls after build. *)
THEOREM NoAllocationAfterEnable == Spec => AllocatedBeforeEnable
<1>1. Init => AllocInv BY InitAlloc
<1>2. AllocInv /\ [Next]_vars => AllocInv' BY NextAlloc
<1>3. AllocInv /\ [Next]_vars => [owner' # owner => ~enabled]_vars BY NextAlloc
<1> QED BY <1>1, <1>2, <1>3, PTL DEF Spec, AllocatedBeforeEnable

(* Until a byte has no more numbers, every interface number and string index
   leads back to the class it was handed to. *)
THEOREM NumbersLeadBack == Spec => []NumbersFindTheirClass
<1>1. Init => AllocInv BY InitAlloc
<1>2. AllocInv /\ [Next]_vars => AllocInv' BY NextAlloc
<1>3. ASSUME AllocInv PROVE NumbersFindTheirClass
  <2> USE <1>3 DEF AllocInv, AllocatorTypeOK, NumbersInv
  <2>1. ASSUME Len(interfaces) <= Width, NEW p \in 1..Len(interfaces)
        PROVE  InterfaceOwner(interfaces[p][1]) = interfaces[p][2]
    <3>1. /\ Consecutive(interfaces, next_interface_number, 0) /\ 0 \in 0..4
          /\ Len(interfaces) <= Width - 0 /\ p \in 1..Len(interfaces)
          /\ interfaces \in Seq((0..Width - 1) \X Classes)
      BY <2>1
    <3>2. FirstClass(interfaces, interfaces[p][1]) = interfaces[p][2]
      BY ONLY <3>1, FirstClassIsOwner, Zenon
    <3> QED BY <3>2 DEF InterfaceOwner
  <2>2. ASSUME Len(strings) <= Width - 4, NEW p \in 1..Len(strings)
        PROVE  StringOwner(strings[p][1]) = strings[p][2]
    <3>1. /\ Consecutive(strings, next_string_index, 4) /\ 4 \in 0..4
          /\ Len(strings) <= Width - 4 /\ p \in 1..Len(strings)
          /\ strings \in Seq((0..Width - 1) \X Classes)
      BY <2>2
    <3>2. FirstClass(strings, strings[p][1]) = strings[p][2]
      BY ONLY <3>1, FirstClassIsOwner, Zenon
    <3>3. strings[p][1] = 4 + p - 1 BY <2>2, <3>1 DEF Consecutive
    <3>4. strings[p][1] \notin 0..3 BY <3>3
    <3> QED BY <3>2, <3>4 DEF StringOwner
  <2> QED BY <2>1, <2>2 DEF NumbersFindTheirClass
<1> QED BY <1>1, <1>2, <1>3, PTL DEF Spec
=============================================================================
