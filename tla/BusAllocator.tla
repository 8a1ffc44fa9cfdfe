---------------------------- MODULE BusAllocator ----------------------------
(***************************************************************************)
(* Setting a device up: UsbBusAllocator (src/src/bus.rs:146-324) hands out *)
(* interface numbers, string indices and endpoints to the classes,         *)
(* UsbDeviceBuilder (src/src/device_builder.rs) checks the configuration,  *)
(* UsbDevice::build (src/src/device.rs:89-124) takes endpoint 0 and        *)
(* freezes the allocator, and from then on the Endpoint handles            *)
(* (src/src/endpoint.rs:95-217) reach the driver through its pointer.      *)
(*                                                                         *)
(* The application may make these calls in any order.  The handles are     *)
(* Sync, so an interrupt handler may use one at any moment, also in the    *)
(* middle of freeze, which is therefore in steps.  A RefCell that is       *)
(* borrowed for ever is a flag; a panic ends the program.                  *)
(*                                                                         *)
(* Unused operators are mistaken forms of the next one, as in ControlPipe. *)
(***************************************************************************)
EXTENDS Integers, Sequences, FiniteSets

CONSTANTS
    Classes,        \* the classes, numbered as in the list given to poll
    Width,          \* number of values of a u8 (256)
    Numbers,        \* endpoint numbers of the peripheral, 0 among them
    ControlLens,    \* lengths of control buffers the application may supply
    PacketSizes,    \* values the application may pass to max_packet_size_0
    MaxInterfaces, MaxStrings,  \* bounds: numbers of each kind handed out
    Device,         \* owner of endpoint 0, and of the first string indices
    Nobody          \* owner of what is free

ASSUME AllocatorAssumption ==
    /\ Classes \subseteq Nat /\ Width \in Nat /\ Width > 4
    /\ Numbers \subseteq Nat /\ 0 \in Numbers
    /\ ControlLens \subseteq Nat /\ PacketSizes \subseteq Nat
    /\ MaxInterfaces \in Nat /\ MaxStrings \in Nat
    /\ Device \notin Classes /\ Nobody \notin Classes \cup {Device}

Address == {"Out", "In"} \X Numbers

VARIABLES           \* UsbBusAllocator
    next_interface_number, next_string_index,
    state_borrowed, bus_borrowed,   \* borrowed for ever
    bus_ptr                         \* the handles' pointer: is it set?

VARIABLES           \* the driver
    owner,          \* who allocated each endpoint
    enabled         \* enable was called

VARIABLES           \* the builder, the device and the program
    builder,        \* its buffer's length and max_packet_size_0, if there is one
    device,         \* the same of the device that was built
    at,             \* "main", before a step of freeze, or "panic"
    overflow_checks \* the build checks arithmetic

VARIABLES           \* history
    interfaces, strings,    \* pairs of number and class, in order
    used                    \* a handle reached the driver

allocVars == <<next_interface_number, next_string_index, state_borrowed, bus_borrowed, bus_ptr>>
numberVars == <<next_interface_number, next_string_index, interfaces, strings>>
vars == <<allocVars, owner, enabled, builder, device, at, overflow_checks, interfaces,
          strings, used>>

Absent == [len |-> 0, mps |-> 0]
Configs == [len : ControlLens, mps : {8, 16, 32, 64}]

AllocatorTypeOK ==
    /\ next_interface_number \in 0..Width - 1 /\ next_string_index \in 0..Width - 1
    /\ state_borrowed \in BOOLEAN /\ bus_borrowed \in BOOLEAN /\ bus_ptr \in BOOLEAN
    /\ owner \in [Address -> Classes \cup {Device, Nobody}] /\ enabled \in BOOLEAN
    /\ builder \in Configs \cup {Absent} /\ device \in Configs \cup {Absent}
    /\ at \in {"main", "freeze1", "freeze2", "freeze3", "panic"}
    /\ overflow_checks \in BOOLEAN /\ used \in BOOLEAN
    /\ interfaces \in Seq((0..Width - 1) \X Classes)
    /\ strings \in Seq((0..Width - 1) \X Classes)

(* Indices 0 to 3 are the languages and the device's own strings. *)
FirstStringIndexTooLow == 3
FirstStringIndex == 4

Init ==
    /\ next_interface_number = 0 /\ next_string_index = FirstStringIndex
    /\ state_borrowed = FALSE /\ bus_borrowed = FALSE /\ bus_ptr = FALSE
    /\ owner = [a \in Address |-> Nobody] /\ enabled = FALSE
    /\ builder = Absent /\ device = Absent /\ at = "main"
    /\ overflow_checks \in BOOLEAN
    /\ interfaces = <<>> /\ strings = <<>> /\ used = FALSE

Panic == at' = "panic"

-----------------------------------------------------------------------------
(* The numbers: `+= 1` on a u8 panics or wraps at its end, the number itself
   is not handed out when it panics. *)
Cannot(next) == state_borrowed \/ (overflow_checks /\ next + 1 = Width)
NeverWraps(next) == next + 1
Incremented(next) == (next + 1) % Width

Interface(c) ==
    /\ at = "main" /\ Len(interfaces) < MaxInterfaces
    /\ IF Cannot(next_interface_number)
       THEN Panic /\ UNCHANGED numberVars
       ELSE /\ interfaces' = Append(interfaces, <<next_interface_number, c>>)
            /\ next_interface_number' = Incremented(next_interface_number)
            /\ UNCHANGED <<strings, next_string_index, at>>
    /\ UNCHANGED <<state_borrowed, bus_borrowed, bus_ptr, owner, enabled, builder, device,
                   overflow_checks, used>>

String(c) ==
    /\ at = "main" /\ Len(strings) < MaxStrings
    /\ IF Cannot(next_string_index)
       THEN Panic /\ UNCHANGED numberVars
       ELSE /\ strings' = Append(strings, <<next_string_index, c>>)
            /\ next_string_index' = Incremented(next_string_index)
            /\ UNCHANGED <<interfaces, next_interface_number, at>>
    /\ UNCHANGED <<state_borrowed, bus_borrowed, bus_ptr, owner, enabled, builder, device,
                   overflow_checks, used>>

-----------------------------------------------------------------------------
(* Endpoints. *)

Free(dir, n) == owner[<<dir, n>>] = Nobody
FreeNumbers(dir) == {n \in Numbers \ {0} : Free(dir, n)}
BusStays == UNCHANGED <<allocVars, enabled, builder, device, overflow_checks, interfaces,
                        strings, used>>

(* alloc at an address: when it is taken the caller gets an error. *)
AllocAt(c, dir, n) ==
    /\ at = "main"
    /\ IF bus_borrowed THEN Panic /\ UNCHANGED owner
       ELSE Free(dir, n) /\ owner' = [owner EXCEPT ![<<dir, n>>] = c] /\ UNCHANGED at
    /\ BusStays

(* control, isochronous, bulk and interrupt: the driver may give any free
   endpoint but 0, and there must be one. *)
AllocAny(c, dir) ==
    /\ at = "main"
    /\ IF bus_borrowed \/ FreeNumbers(dir) = {} THEN Panic /\ UNCHANGED owner
       ELSE /\ \E n \in FreeNumbers(dir) : owner' = [owner EXCEPT ![<<dir, n>>] = c]
            /\ UNCHANGED at
    /\ BusStays

(* read, write, stall and unstall of a handle go through bus(). *)
UseEndpoint(c) ==
    /\ at # "panic" /\ \E a \in Address : owner[a] = c
    /\ IF bus_ptr THEN used' = TRUE /\ UNCHANGED at
                  ELSE Panic /\ UNCHANGED used
    /\ UNCHANGED <<allocVars, owner, enabled, builder, device, overflow_checks, interfaces,
                   strings>>

-----------------------------------------------------------------------------
(* UsbDeviceBuilder. *)

BuilderNew(n) ==
    /\ at = "main" /\ builder = Absent
    /\ builder' = [len |-> n, mps |-> 8]
    /\ UNCHANGED <<allocVars, owner, enabled, device, at, overflow_checks, interfaces,
                   strings, used>>

(* A setter that fails returns an error, and the builder is gone. *)
MaxPacketSize0(n) ==
    /\ at = "main" /\ builder # Absent
    /\ builder' = IF n \in {8, 16, 32, 64} /\ n <= builder.len
                  THEN [builder EXCEPT !.mps = n] ELSE Absent
    /\ UNCHANGED <<allocVars, owner, enabled, device, at, overflow_checks, interfaces,
                   strings, used>>

AnyBuffer(b) == TRUE
BufferLargeEnough(b) == b.mps <= b.len

(* build, and UsbDevice::build up to freeze: endpoint 0 in both directions. *)
Build ==
    /\ at = "main" /\ builder # Absent
    /\ builder' = Absent
    /\ IF ~BufferLargeEnough(builder)
       THEN UNCHANGED <<owner, device, at, state_borrowed>>
       ELSE IF bus_borrowed \/ ~Free("Out", 0) \/ ~Free("In", 0) \/ state_borrowed
       THEN Panic /\ UNCHANGED <<owner, device, state_borrowed>>
       ELSE /\ owner' = [a \in Address |-> IF a[2] = 0 THEN Device ELSE owner[a]]
            /\ device' = builder
            /\ state_borrowed' = TRUE /\ at' = "freeze1"
    /\ UNCHANGED <<next_interface_number, next_string_index, bus_borrowed, bus_ptr, enabled,
                   overflow_checks, interfaces, strings, used>>

(* freeze: enable the driver, store the pointer, keep the bus borrowed. *)
StoreFirst == <<"store", "enable", "forget">>
FreezeSteps == <<"enable", "store", "forget">>

FreezeAt == <<"freeze1", "freeze2", "freeze3", "main">>

BorrowEnds == UNCHANGED bus_borrowed
BorrowForgotten == bus_borrowed' = TRUE

Freeze ==
    /\ \E k \in 1..3 :
         /\ at = FreezeAt[k] /\ at' = FreezeAt[k + 1]
         /\ enabled' = (enabled \/ FreezeSteps[k] = "enable")
         /\ bus_ptr' = (bus_ptr \/ FreezeSteps[k] = "store")
         /\ IF FreezeSteps[k] = "forget" THEN BorrowForgotten ELSE UNCHANGED bus_borrowed
    /\ UNCHANGED <<next_interface_number, next_string_index, state_borrowed, owner, builder,
                   device, overflow_checks, interfaces, strings, used>>

-----------------------------------------------------------------------------
Next ==
    \/ \E c \in Classes :
          \/ Interface(c) \/ String(c) \/ UseEndpoint(c)
          \/ \E dir \in {"Out", "In"} :
                AllocAny(c, dir) \/ \E n \in Numbers : AllocAt(c, dir, n)
    \/ \E n \in ControlLens : BuilderNew(n)
    \/ \E n \in PacketSizes : MaxPacketSize0(n)
    \/ Build \/ Freeze

Spec == Init /\ [][Next]_vars

-----------------------------------------------------------------------------
(* Who answers for a number in the device. *)

(* The first class of the list that knows the number. *)
FirstClass(handed, n) ==
    LET known == {c \in Classes : \E p \in 1..Len(handed) : handed[p] = <<n, c>>}
    IN IF known = {} THEN Nobody ELSE CHOOSE c \in known : \A d \in known : c <= d

(* get_descriptor for a string: the languages, the device's own, the classes'. *)
StringOwner(n) == IF n \in 0..3 THEN Device ELSE FirstClass(strings, n)
InterfaceOwner(n) == FirstClass(interfaces, n)

-----------------------------------------------------------------------------
(* Properties. *)

(* A number handed out finds its way back to the class that got it, until a
   byte has no more numbers: the host that asks for the string gets the text
   of that class, and get_alt_setting of an interface is answered by it. *)
NumbersFindTheirClass ==
    /\ Len(interfaces) <= Width =>
          \A p \in 1..Len(interfaces) : InterfaceOwner(interfaces[p][1]) = interfaces[p][2]
    /\ Len(strings) <= Width - 4 =>
          \A p \in 1..Len(strings) : StringOwner(strings[p][1]) = strings[p][2]

(* The driver is never asked for an endpoint after it was enabled, whatever the
   application constructs after build, a second device included. *)
AllocatedBeforeEnable == [][owner' # owner => ~enabled]_vars

(* A handle that an interrupt handler uses reaches the driver only when the
   driver is enabled. *)
UsedAfterEnable == used => enabled

(* The control pipe that build makes has endpoint 0 in both directions and a
   buffer that holds a packet, one of the sizes USB allows. *)
DeviceIsComplete ==
    device # Absent =>
        /\ owner[<<"Out", 0>>] = Device /\ owner[<<"In", 0>>] = Device
        /\ device.mps \in {8, 16, 32, 64} /\ device.mps <= device.len
=============================================================================
