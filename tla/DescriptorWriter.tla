-------------------------- MODULE DescriptorWriter --------------------------
(***************************************************************************)
(* DescriptorWriter and BosWriter (src/src/descriptor.rs), as              *)
(* get_descriptor uses them (src/src/device.rs:563-678): a document of     *)
(* descriptors is written to the control buffer by the device and then by  *)
(* its classes in turn, and its lengths and counters are filled in later.  *)
(*                                                                         *)
(* A byte of the buffer is a number below ByteSize.  The bytes that no     *)
(* length and no counter depends on are written as 0.                      *)
(*                                                                         *)
(* Unused operators are mistaken forms of the next one, as in ControlPipe. *)
(***************************************************************************)
EXTENDS Integers, Sequences, FiniteSets

CONSTANTS
    None,
    ByteSize,       \* number of values of a byte: 256 in the code
    Sizes,          \* lengths of the control buffer
    MaxClasses,     \* bound: number of classes of the device
    DataLens,       \* lengths of the data of class-specific descriptors
    StringLens,     \* lengths of strings in UTF-16 units, and of the list of languages
    Stale           \* what an earlier transfer left in the control buffer

ASSUME WriterAssumption ==
    /\ ByteSize \in Nat /\ ByteSize > 18  \* the length of a device descriptor
    /\ Sizes \subseteq Nat /\ MaxClasses \in Nat
    /\ DataLens \subseteq Nat /\ StringLens \subseteq Nat
    /\ Stale \in 0..ByteSize - 1 /\ None \notin Nat

DEVICE == 1
CONFIGURATION == 2
STRING_DESCRIPTOR == 3
INTERFACE == 4
ENDPOINT == 5
IAD == 11
BOS == 15
CAPABILITY == 16
SPECIFIC == 6       \* stands for the types of the classes' own descriptors

Documents == {DEVICE, CONFIGURATION, STRING_DESCRIPTOR, BOS}
Types == Documents \cup {INTERFACE, ENDPOINT, IAD, CAPABILITY, SPECIFIC}

VARIABLES
    doc,            \* the document: the type of its first descriptor
    size,           \* length of the control buffer
    buf, position,
    num_interfaces_mark, num_endpoints_mark, num_caps_mark,
    write_iads,
    cls, classes,   \* the class that writes now, and the number of them
    pc,
    parts           \* history: the descriptors written, with their author

marks == <<num_interfaces_mark, num_endpoints_mark, num_caps_mark, write_iads>>
vars == <<doc, size, buf, position, marks, cls, classes, pc, parts>>

(* A counter that is still to be incremented lies in the buffer. *)
Mark == IF pc = "failed" THEN Nat \cup {None} ELSE 0..size - 1 \cup {None}

WriterTypeOK ==
    /\ doc \in Documents /\ size \in Sizes
    /\ buf \in [0..size - 1 -> 0..ByteSize - 1]
    /\ position \in 0..size
    /\ num_interfaces_mark \in Mark /\ num_endpoints_mark \in Mark
    /\ num_caps_mark \in Mark /\ write_iads \in BOOLEAN
    /\ classes \in 0..MaxClasses /\ cls \in 1..classes + 1
    /\ pc \in {"begin", "extension", "classes", "done", "failed", "panic"}
    /\ parts \in Seq([type : Types, alt : {0, 1}, at : 0..size, cls : 1..MaxClasses + 1])

WriterInit ==
    /\ doc \in Documents /\ size \in Sizes
    /\ buf = [j \in 0..size - 1 |-> Stale] /\ position = 0
    /\ num_interfaces_mark = None /\ num_endpoints_mark = None
    /\ num_caps_mark = None /\ write_iads = FALSE
    /\ classes \in 0..MaxClasses /\ cls = 1
    /\ pc = "begin" /\ parts = <<>>

-----------------------------------------------------------------------------
(* One descriptor. *)

(* write_with: the callback gets the buffer up to the end, or up to the 256th
   byte of the descriptor, without the two bytes of the header. *)
FitsWithoutHeader(n) == position + n <= size
Fits(n) ==
    /\ position + 2 + n <= size
    /\ 2 + n <= ByteSize

DataLength(n) == n
DescriptorLength(n) == (n + 2) % ByteSize

(* A descriptor of this type with n bytes of data, at position in buffer b. *)
Appended(b, type, n) ==
    [j \in 0..size - 1 |->
        IF j = position THEN DescriptorLength(n)
        ELSE IF j = position + 1 THEN type
        ELSE IF position + 2 <= j /\ j < position + 2 + n THEN 0
        ELSE b[j]]

(* A counter among the bytes written before; it wraps in a release build. *)
NotCounted(b, mark) == b
Counted(b, mark) == [b EXCEPT ![mark] = (@ + 1) % ByteSize]

(* write, write_with: the descriptor is appended to b, or BufferOverflow. *)
Write(b, type, alt, n, next) ==
    IF Fits(n)
    THEN /\ buf' = Appended(b, type, n) /\ position' = position + n + 2
         /\ parts' = Append(parts, [type |-> type, alt |-> alt, at |-> position, cls |-> cls])
         /\ pc' = next
    ELSE buf' = b /\ pc' = "failed" /\ UNCHANGED <<position, parts>>

environment == <<doc, size, classes>>

-----------------------------------------------------------------------------
(* The device's part. *)

DeviceDescriptor ==
    /\ pc = "begin" /\ doc = DEVICE
    /\ Write(buf, DEVICE, 0, 16, "done")
    /\ UNCHANGED <<environment, marks, cls>>

(* configuration.  iads: config.composite_with_iads. *)
Configuration(iads) ==
    /\ pc = "begin" /\ doc = CONFIGURATION
    /\ num_interfaces_mark' = position + 4 /\ write_iads' = iads
    /\ Write(buf, CONFIGURATION, 0, 7, "classes")
    /\ UNCHANGED <<environment, num_endpoints_mark, num_caps_mark, cls>>

(* string: it writes the units one by one and stops with BufferOverflow when
   the buffer is full; half a unit in front of the end is a panic. *)
StringDescriptor(n) ==
    /\ pc = "begin" /\ doc = STRING_DESCRIPTOR
    /\ IF 2 + 2 * n <= size
       THEN /\ buf' = Appended(buf, STRING_DESCRIPTOR, 2 * n) /\ position' = 2 + 2 * n
            /\ parts' = <<[type |-> STRING_DESCRIPTOR, alt |-> 0, at |-> 0, cls |-> cls]>>
            /\ pc' = "done"
       ELSE /\ pc' = IF size % 2 = 0 \/ size < 2 THEN "failed" ELSE "panic"
            /\ UNCHANGED <<buf, position, parts>>
    /\ UNCHANGED <<environment, marks, cls>>

(* The languages of the strings, up to 16 of them: string 0. *)
Languages(n) ==
    /\ pc = "begin" /\ doc = STRING_DESCRIPTOR
    /\ Write(buf, STRING_DESCRIPTOR, 0, 2 * n, "done")
    /\ UNCHANGED <<environment, marks, cls>>

(* bos writes the header, and the capability that is always there. *)
Bos ==
    /\ pc = "begin" /\ doc = BOS
    /\ num_caps_mark' = position + 4
    /\ Write(buf, BOS, 0, 3, "extension")
    /\ UNCHANGED <<environment, num_interfaces_mark, num_endpoints_mark, write_iads, cls>>

(* end_configuration, end_bos: wTotalLength. *)
TotalLength(b) ==
    [b EXCEPT ![2] = position % ByteSize, ![3] = (position \div ByteSize) % ByteSize]

End ==
    /\ pc = "classes" /\ cls > classes
    /\ buf' = TotalLength(buf) /\ pc' = "done"
    /\ num_caps_mark' = IF doc = BOS THEN None ELSE num_caps_mark
    /\ UNCHANGED <<environment, position, num_interfaces_mark, num_endpoints_mark,
                   write_iads, cls, parts>>

-----------------------------------------------------------------------------
(* The classes' part: get_configuration_descriptors and get_bos_descriptors.
   A class returns with the first error it gets. *)

Writing(d) == pc = "classes" /\ doc = d /\ cls <= classes

(* Without composite_with_iads, iad does nothing. *)
Iad ==
    /\ Writing(CONFIGURATION) /\ write_iads
    /\ Write(buf, IAD, 0, 6, "classes")
    /\ UNCHANGED <<environment, marks, cls>>

(* Where the counter of the endpoints of the next interface is. *)
EndpointsMark == position + 4

(* An interface is counted with its default alternate setting only. *)
Interface(alt) ==
    /\ Writing(CONFIGURATION)
    /\ num_endpoints_mark' = EndpointsMark
    /\ Write(IF alt = 0 THEN Counted(buf, num_interfaces_mark) ELSE buf,
             INTERFACE, alt, 7, "classes")
    /\ UNCHANGED <<environment, num_interfaces_mark, num_caps_mark, write_iads, cls>>

(* Without an interface of the class before it: InvalidState. *)
EndpointEx(extra) ==
    /\ Writing(CONFIGURATION)
    /\ IF num_endpoints_mark = None
       THEN pc' = "failed" /\ UNCHANGED <<buf, position, parts>>
       ELSE Write(Counted(buf, num_endpoints_mark), ENDPOINT, 0, 5 + extra, "classes")
    /\ UNCHANGED <<environment, marks, cls>>

Specific(n) ==
    /\ Writing(CONFIGURATION)
    /\ Write(buf, SPECIFIC, 0, n, "classes")
    /\ UNCHANGED <<environment, marks, cls>>

(* A capability of n bytes has one byte more of header, and is limited to a
   length that a byte can hold. *)
Capability(n) ==
    /\ (pc = "extension" /\ n = 4) \/ Writing(BOS)
    /\ LET b == Counted(buf, num_caps_mark)
       IN IF 3 + n < ByteSize
          THEN Write(b, CAPABILITY, 0, 1 + n, "classes")
          ELSE buf' = b /\ pc' = "failed" /\ UNCHANGED <<position, parts>>
    /\ UNCHANGED <<environment, marks, cls>>

(* end_class: the endpoints of the next class need an interface of its own. *)
KeepMark == num_endpoints_mark
MarkAfterClass == None

NextClass ==
    /\ Writing(doc)
    /\ num_endpoints_mark' = MarkAfterClass /\ cls' = cls + 1
    /\ UNCHANGED <<environment, buf, position, num_interfaces_mark, num_caps_mark,
                   write_iads, pc, parts>>

-----------------------------------------------------------------------------
WriterNext ==
    \/ DeviceDescriptor \/ Bos \/ End
    \/ \E iads \in BOOLEAN : Configuration(iads)
    \/ \E n \in StringLens : StringDescriptor(n) \/ Languages(n)
    \/ Iad \/ NextClass
    \/ \E alt \in {0, 1} : Interface(alt)
    \/ \E extra \in {0, 2} : EndpointEx(extra)
    \/ \E n \in DataLens : Specific(n)
    \/ \E n \in DataLens \cup {4} : Capability(n)

WriterSpec == WriterInit /\ [][WriterNext]_vars

-----------------------------------------------------------------------------
(* Properties. *)

(* The length of the document, as the host reads it. *)
ReadLength ==
    IF doc \in {CONFIGURATION, BOS} THEN buf[2] + ByteSize * buf[3] ELSE buf[0]

(* Where the host looks for what follows part k. *)
FollowedAt(k) == parts[k].at + buf[parts[k].at]

(* A host that starts at the first byte of a finished document and goes on by
   the length of each descriptor comes to exactly the descriptors that the
   device and its classes wrote, in order, and from the last one to the total
   length: it finds nothing of an earlier transfer. *)
HostReadsWhatWasWritten ==
    pc = "done" =>
        /\ ReadLength = position
        /\ parts # <<>> /\ parts[1].at = 0
        /\ \A k \in DOMAIN parts :
              /\ buf[parts[k].at + 1] = parts[k].type
              /\ parts[k].at + 2 <= FollowedAt(k)
              /\ FollowedAt(k) = IF k = Len(parts) THEN position ELSE parts[k + 1].at

Count(type, alts) ==
    Cardinality({k \in DOMAIN parts : parts[k].type = type /\ parts[k].alt \in alts})

(* The endpoints of the interface that is part k. *)
EndpointsOf(k) ==
    {m \in k + 1..Len(parts) :
        /\ parts[m].type = ENDPOINT
        /\ \A l \in k + 1..m : parts[l].type # INTERFACE}

(* The counters in a finished document agree with what follows them. *)
CountersAgree ==
    pc = "done" =>
        /\ doc = CONFIGURATION =>
              /\ buf[4] = Count(INTERFACE, {0})
              /\ \A k \in DOMAIN parts :
                    parts[k].type = INTERFACE =>
                        buf[parts[k].at + 4] = Cardinality(EndpointsOf(k))
        /\ doc = BOS => buf[4] = Count(CAPABILITY, {0})

(* An endpoint never belongs to the interface of another class. *)
EndpointsInOwnClass ==
    \A k, m \in DOMAIN parts :
        parts[k].type = INTERFACE /\ m \in EndpointsOf(k) => parts[m].cls = parts[k].cls
=============================================================================
