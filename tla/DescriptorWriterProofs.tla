----------------------- MODULE DescriptorWriterProofs -----------------------
(***************************************************************************)
(* Theorems about DescriptorWriter, for every size of the control buffer,  *)
(* every number of classes and every length of their data.                 *)
(***************************************************************************)
EXTENDS DescriptorWriter, FiniteSetTheorems, SequenceTheorems, TLAPS

-----------------------------------------------------------------------------
(* The invariant. *)

Written == pc \in {"extension", "classes", "done"}

(* Where part k ends: where the next one begins. *)
EndAt(ps, end, k) == IF k = Len(ps) THEN end ELSE ps[k + 1].at
EndOf(k) == EndAt(parts, position, k)

(* The parts follow one another.  The first one is the document's own, with
   its counter and its total length; an interface holds its counter. *)
Layout ==
    /\ parts = <<>> => position = 0
    /\ parts # <<>> =>
          /\ parts[1].at = 0 /\ parts[1].type = doc
          /\ doc \in {CONFIGURATION, BOS} => EndOf(1) >= 5
    /\ \A k \in DOMAIN parts :
          /\ parts[k].at + 2 <= EndOf(k) /\ EndOf(k) <= position
          /\ parts[k].type = INTERFACE => parts[k].at + 9 <= EndOf(k)
          /\ \A l \in k + 1..Len(parts) : EndOf(k) <= parts[l].at

(* The header of each part: no counter and no later part was written over it. *)
HeadersIn(b) ==
    \A k \in DOMAIN parts :
        /\ b[parts[k].at] = (EndOf(k) - parts[k].at) % ByteSize
        /\ b[parts[k].at + 1] = parts[k].type

LastInterface(k) ==
    /\ parts[k].type = INTERFACE
    /\ \A l \in k + 1..Len(parts) : parts[l].type # INTERFACE

(* The marks are where the counters are.  The counter of endpoints is that of
   the last interface, which is of the class that writes. *)
Marked ==
    /\ parts # <<>>
    /\ pc # "done" => doc \in {CONFIGURATION, BOS}
    /\ pc = "extension" => doc = BOS
    /\ doc \in {DEVICE, STRING_DESCRIPTOR} => Len(parts) = 1
    /\ doc = CONFIGURATION => num_interfaces_mark = 4
    /\ doc = BOS /\ pc # "done" => num_caps_mark = 4
    /\ num_endpoints_mark # None =>
          \E k \in DOMAIN parts :
              LastInterface(k) /\ parts[k].cls = cls /\ num_endpoints_mark = parts[k].at + 4

LayoutInv ==
    /\ Layout
    /\ pc = "begin" => parts = <<>> /\ num_endpoints_mark = None
    /\ Written => HeadersIn(buf) /\ Marked

(* A descriptor that is counted has three bytes at least. *)
CountBound ==
    /\ 3 * Count(INTERFACE, {0}) <= position
    /\ 3 * Count(CAPABILITY, {0}) <= position
    /\ \A k \in DOMAIN parts :
          parts[k].type = INTERFACE => 3 * Cardinality(EndpointsOf(k)) <= position

Counters ==
    /\ doc = CONFIGURATION =>
          /\ buf[4] = Count(INTERFACE, {0})
          /\ \A k \in DOMAIN parts :
                parts[k].type = INTERFACE =>
                    buf[parts[k].at + 4] = Cardinality(EndpointsOf(k))
    /\ doc = BOS => buf[4] = Count(CAPABILITY, {0})

CounterInv == CountBound /\ (Written => Counters)

(* A byte can count what a control buffer holds. *)
BytesCount == \A s \in Sizes : s < 3 * ByteSize

(* No descriptor is as long as the number of values of a byte, which the writer
   lets pass, no string is longer than that, and two bytes can hold the length
   of the control buffer. *)
LengthsFit ==
    /\ \A n \in DataLens : n + 2 # ByteSize
    /\ \A n \in StringLens : 2 * n + 2 < ByteSize
    /\ \A s \in Sizes : s < ByteSize * ByteSize

(* The length of each part fits the byte that gives it. *)
Short == \A k \in DOMAIN parts : EndOf(k) - parts[k].at < ByteSize

LengthInv ==
    /\ Short
    /\ pc = "done" /\ doc \in {CONFIGURATION, BOS} => buf[2] + ByteSize * buf[3] = position

-----------------------------------------------------------------------------
(* Types. *)

LEMMA Constants ==
    /\ ByteSize \in Nat /\ ByteSize > 18 /\ Sizes \subseteq Nat /\ MaxClasses \in Nat
    /\ DataLens \subseteq Nat /\ StringLens \subseteq Nat
    /\ Stale \in 0..ByteSize - 1 /\ None \notin Nat
BY WriterAssumption

LEMMA TypesAreBytes == Types \subseteq 0..ByteSize - 1 /\ Documents \subseteq Types
BY Constants DEF Types, Documents, DEVICE, CONFIGURATION, STRING_DESCRIPTOR, BOS, INTERFACE,
                 ENDPOINT, IAD, CAPABILITY, SPECIFIC

(* A remainder is a byte. *)
LEMMA Remainder ==
    ASSUME NEW x \in Nat
    PROVE  x % ByteSize \in 0..ByteSize - 1 /\ (x < ByteSize => x % ByteSize = x)
BY Constants

(* Two bytes hold a length below the square of their number of values. *)
LEMMA TwoBytes ==
    ASSUME NEW x \in Nat, x < ByteSize * ByteSize
    PROVE  (x % ByteSize) + ByteSize * ((x \div ByteSize) % ByteSize) = x
BY Constants

Buffers(s) == [0..s - 1 -> 0..ByteSize - 1]
Part == [type : Types, alt : {0, 1}, at : 0..size, cls : 1..MaxClasses + 1]

(* A descriptor that fits leaves a buffer of bytes. *)
LEMMA AppendedType ==
    ASSUME WriterTypeOK, NEW b \in Buffers(size), NEW type \in Types, NEW n \in Nat
    PROVE  Appended(b, type, n) \in Buffers(size)
<1>1. (n + 2) % ByteSize \in 0..ByteSize - 1 /\ 0 \in 0..ByteSize - 1
  BY Remainder, Constants
<1>2. type \in 0..ByteSize - 1
  BY TypesAreBytes
<1> QED BY <1>1, <1>2 DEF Appended, DescriptorLength, Buffers

LEMMA CountedType ==
    ASSUME NEW s \in Nat, NEW b \in Buffers(s), NEW mark
    PROVE  Counted(b, mark) \in Buffers(s)
<1>1. ASSUME mark \in 0..s - 1 PROVE (b[mark] + 1) % ByteSize \in 0..ByteSize - 1
  <2>1. b[mark] + 1 \in Nat
    BY <1>1, Constants DEF Buffers
  <2> QED BY <2>1, Remainder
<1> QED BY <1>1 DEF Counted, Buffers

(* One more part. *)
LEMMA AppendedPart ==
    ASSUME WriterTypeOK, NEW type \in Types, NEW alt \in {0, 1}
    PROVE  LET r == [type |-> type, alt |-> alt, at |-> position, cls |-> cls]
           IN /\ r \in Part /\ Append(parts, r) \in Seq(Part)
              /\ Len(Append(parts, r)) = Len(parts) + 1 /\ Len(parts) \in Nat
              /\ DOMAIN parts = 1..Len(parts)
              /\ DOMAIN Append(parts, r) = 1..Len(parts) + 1
              /\ \A k \in DOMAIN parts : Append(parts, r)[k] = parts[k] /\ parts[k] \in Part
              /\ Append(parts, r)[Len(parts) + 1] = r
<1> DEFINE r == [type |-> type, alt |-> alt, at |-> position, cls |-> cls]
<1>1. r \in Part
  BY Constants DEF WriterTypeOK, Part
<1>2. parts \in Seq(Part)
  BY DEF WriterTypeOK, Part
<1> HIDE DEF r
<1>3. /\ Append(parts, r) \in Seq(Part) /\ Len(Append(parts, r)) = Len(parts) + 1
      /\ Append(parts, r)[Len(parts) + 1] = r /\ Len(parts) \in Nat
  BY <1>1, <1>2
<1>4. DOMAIN parts = 1..Len(parts) /\ DOMAIN Append(parts, r) = 1..Len(parts) + 1
  BY <1>2, <1>3, LenProperties
<1>5. \A k \in DOMAIN parts : Append(parts, r)[k] = parts[k] /\ parts[k] \in Part
  BY <1>1, <1>2, <1>4, ElementOfSeq
<1> QED BY <1>1, <1>3, <1>4, <1>5 DEF r

(* What write does, in both cases. *)
LEMMA WriteTypes ==
    ASSUME WriterTypeOK, NEW b \in Buffers(size), NEW type \in Types, NEW alt \in {0, 1},
           NEW n \in Nat, NEW next, Write(b, type, alt, n, next), UNCHANGED environment
    PROVE  /\ size' = size /\ doc' = doc /\ classes' = classes
           /\ buf' \in Buffers(size) /\ position' \in 0..size /\ parts' \in Seq(Part)
           /\ pc' # "failed" => pc' = next /\ position + n + 2 <= size
<1> USE DEF environment
<1>1. CASE Fits(n)
  <2>1. buf' \in Buffers(size)
    BY <1>1, AppendedType DEF Write
  <2>2. position' \in 0..size /\ position + n + 2 <= size
    BY <1>1, Constants DEF Write, Fits, WriterTypeOK
  <2>3. parts' \in Seq(Part)
    BY <1>1, AppendedPart DEF Write
  <2> QED BY <1>1, <2>1, <2>2, <2>3 DEF Write
<1>2. CASE ~Fits(n)
  BY <1>2 DEF Write, WriterTypeOK, Part
<1> QED BY <1>1, <1>2

LEMMA InitTypes == WriterInit => WriterTypeOK
<1> SUFFICES ASSUME WriterInit PROVE WriterTypeOK
  OBVIOUS
<1> USE DEF WriterInit
<1>1. size \in Nat /\ 0 \in 0..size /\ cls \in 1..classes + 1
  BY Constants
<1>2. buf \in [0..size - 1 -> 0..ByteSize - 1]
  BY Constants
<1>3. parts \in Seq([type : Types, alt : {0, 1}, at : 0..size, cls : 1..MaxClasses + 1])
  BY EmptySeq
<1> QED BY <1>1, <1>2, <1>3 DEF WriterTypeOK, Mark

(* The types of what write does not change. *)
LEMMA TypesAfterWrite ==
    ASSUME WriterTypeOK, UNCHANGED environment,
           buf' \in Buffers(size), position' \in 0..size, parts' \in Seq(Part),
           num_interfaces_mark' \in Mark', num_endpoints_mark' \in Mark', num_caps_mark' \in Mark',
           write_iads' \in BOOLEAN, cls' \in 1..classes + 1,
           pc' \in {"begin", "extension", "classes", "done", "failed", "panic"}
    PROVE  WriterTypeOK'
BY DEF WriterTypeOK, environment, Buffers, Part

(* A mark stays what it is when a document fails. *)
LEMMA MarkKept ==
    ASSUME WriterTypeOK, size' = size, NEW m \in Mark, pc # "failed"
    PROVE  m \in Mark'
BY Constants DEF Mark, WriterTypeOK

LEMMA MarkBehind ==
    ASSUME WriterTypeOK, size' = size, NEW n \in Nat,
           pc' # "failed" => position + n < size
    PROVE  position + n \in Mark'
<1>1. position \in Nat /\ size \in Nat /\ position + n \in Nat
  BY Constants DEF WriterTypeOK
<1>2. pc' # "failed" => position + n \in 0..size - 1
  BY <1>1
<1> QED BY <1>1, <1>2 DEF Mark

LEMMA TypesStep == WriterTypeOK /\ [WriterNext]_vars => WriterTypeOK'
<1> SUFFICES ASSUME WriterTypeOK, [WriterNext]_vars PROVE WriterTypeOK'
  OBVIOUS
<1>1. /\ position \in Nat /\ size \in Nat /\ buf \in Buffers(size) /\ cls \in 1..classes + 1
      /\ classes \in Nat /\ write_iads \in BOOLEAN /\ parts \in Seq(Part) /\ position \in 0..size
      /\ num_interfaces_mark \in Mark /\ num_endpoints_mark \in Mark /\ num_caps_mark \in Mark
  BY Constants DEF WriterTypeOK, Buffers, Part
<1>2. {DEVICE, CONFIGURATION, STRING_DESCRIPTOR, BOS, INTERFACE, ENDPOINT, IAD, CAPABILITY,
       SPECIFIC} \subseteq Types
  BY DEF Types, Documents
<1>3. CASE DeviceDescriptor
  <2> USE <1>3 DEF DeviceDescriptor
  <2>1. Write(buf, DEVICE, 0, 16, "done") /\ UNCHANGED environment
    OBVIOUS
  <2>2. /\ size' = size /\ buf' \in Buffers(size) /\ position' \in 0..size /\ parts' \in Seq(Part)
        /\ pc' \in {"done", "failed"}
    BY <1>1, <1>2, <2>1, WriteTypes
  <2>3. pc # "failed" /\ UNCHANGED <<marks, cls>>
    OBVIOUS
  <2> QED BY <1>1, <2>1, <2>2, <2>3, MarkKept, TypesAfterWrite DEF marks
<1>4. CASE \E iads \in BOOLEAN : Configuration(iads)
  <2> PICK iads \in BOOLEAN : Configuration(iads)
    BY <1>4
  <2>1. Write(buf, CONFIGURATION, 0, 7, "classes") /\ UNCHANGED environment /\ pc # "failed"
    BY DEF Configuration
  <2>2. /\ size' = size /\ buf' \in Buffers(size) /\ position' \in 0..size /\ parts' \in Seq(Part)
        /\ pc' \in {"classes", "failed"} /\ (pc' # "failed" => position + 7 + 2 <= size)
    BY <1>1, <1>2, <2>1, WriteTypes
  <2>3. num_interfaces_mark' = position + 4 /\ position + 4 \in Mark'
    BY <1>1, <2>2, MarkBehind DEF Configuration
  <2>4. write_iads' \in BOOLEAN /\ UNCHANGED <<num_endpoints_mark, num_caps_mark, cls>>
    BY DEF Configuration
  <2> QED BY <1>1, <2>1, <2>2, <2>3, <2>4, MarkKept, TypesAfterWrite
<1>5. CASE \E n \in StringLens : StringDescriptor(n)
  <2> PICK n \in StringLens : StringDescriptor(n)
    BY <1>5
  <2>1. n \in Nat /\ 2 * n \in Nat
    BY Constants
  <2>2. /\ pc = "begin" /\ UNCHANGED environment /\ UNCHANGED <<marks, cls>>
        /\ pc' \in {"done", "failed", "panic"} /\ size' = size
    BY DEF StringDescriptor, environment
  <2>3. buf' \in Buffers(size) /\ position' \in 0..size /\ parts' \in Seq(Part)
    <3>1. CASE 2 + 2 * n <= size
      <4> DEFINE r == [type |-> STRING_DESCRIPTOR, alt |-> 0, at |-> 0, cls |-> cls]
      <4>1. r \in Part
        BY <1>1, Constants DEF Part, WriterTypeOK, Types, Documents
      <4>2. <<r>> \in Seq(Part)
        BY <4>1
      <4>3. /\ buf' = Appended(buf, STRING_DESCRIPTOR, 2 * n) /\ position' = 2 + 2 * n
            /\ parts' = <<r>>
        BY <3>1 DEF StringDescriptor
      <4> HIDE DEF r
      <4>4. buf' \in Buffers(size)
        BY <1>1, <1>2, <2>1, <4>3, AppendedType
      <4>5. position' \in 0..size
        BY <1>1, <2>1, <3>1, <4>3
      <4> QED BY <4>2, <4>3, <4>4, <4>5
    <3>2. CASE ~(2 + 2 * n <= size)
      BY <1>1, <3>2 DEF StringDescriptor
    <3> QED BY <3>1, <3>2
  <2> QED BY <1>1, <2>2, <2>3, MarkKept, TypesAfterWrite DEF marks
<1>6. CASE \E n \in StringLens : Languages(n)
  <2> PICK n \in StringLens : Languages(n)
    BY <1>6
  <2>1. /\ Write(buf, STRING_DESCRIPTOR, 0, 2 * n, "done") /\ UNCHANGED environment
        /\ pc # "failed" /\ UNCHANGED <<marks, cls>> /\ 2 * n \in Nat
    BY Constants DEF Languages
  <2>2. /\ size' = size /\ buf' \in Buffers(size) /\ position' \in 0..size /\ parts' \in Seq(Part)
        /\ pc' \in {"done", "failed"}
    BY <1>1, <1>2, <2>1, WriteTypes
  <2> QED BY <1>1, <2>1, <2>2, MarkKept, TypesAfterWrite DEF marks
<1>7. CASE Bos
  <2>1. Write(buf, BOS, 0, 3, "extension") /\ UNCHANGED environment /\ pc # "failed"
    BY <1>7 DEF Bos
  <2>2. /\ size' = size /\ buf' \in Buffers(size) /\ position' \in 0..size /\ parts' \in Seq(Part)
        /\ pc' \in {"extension", "failed"} /\ (pc' # "failed" => position + 3 + 2 <= size)
    BY <1>1, <1>2, <2>1, WriteTypes
  <2>3. num_caps_mark' = position + 4 /\ position + 4 \in Mark'
    BY <1>1, <1>7, <2>2, MarkBehind DEF Bos
  <2>4. UNCHANGED <<num_interfaces_mark, num_endpoints_mark, write_iads, cls>>
    BY <1>7 DEF Bos
  <2> QED BY <1>1, <2>1, <2>2, <2>3, <2>4, MarkKept, TypesAfterWrite
<1>8. CASE End
  <2>1. /\ pc = "classes" /\ pc' = "done" /\ UNCHANGED environment /\ size' = size
        /\ num_caps_mark' \in {None, num_caps_mark}
        /\ UNCHANGED <<position, num_interfaces_mark, num_endpoints_mark, write_iads, cls, parts>>
    BY <1>8 DEF End, environment
  <2>2. /\ position % ByteSize \in 0..ByteSize - 1
        /\ (position \div ByteSize) % ByteSize \in 0..ByteSize - 1
    <3>1. position \div ByteSize \in Nat
      BY <1>1, Constants
    <3> QED BY <1>1, <3>1, Remainder
  <2>3. buf' \in Buffers(size)
    BY <1>1, <1>8, <2>2 DEF End, TotalLength, Buffers
  <2>4. None \in Mark'
    BY DEF Mark
  <2>5. num_interfaces_mark \in Mark' /\ num_endpoints_mark \in Mark' /\ num_caps_mark \in Mark'
    BY <1>1, <2>1, MarkKept
  <2> QED BY <1>1, <2>1, <2>3, <2>4, <2>5, TypesAfterWrite
<1>9. CASE Iad
  <2>1. /\ Write(buf, IAD, 0, 6, "classes") /\ UNCHANGED environment
        /\ pc # "failed" /\ UNCHANGED <<marks, cls>>
    BY <1>9 DEF Iad, Writing
  <2>2. /\ size' = size /\ buf' \in Buffers(size) /\ position' \in 0..size /\ parts' \in Seq(Part)
        /\ pc' \in {"classes", "failed"}
    BY <1>1, <1>2, <2>1, WriteTypes
  <2> QED BY <1>1, <2>1, <2>2, MarkKept, TypesAfterWrite DEF marks
<1>10. CASE NextClass
  <2>1. /\ pc # "failed" /\ pc' = pc /\ UNCHANGED environment /\ size' = size
        /\ num_endpoints_mark' = None /\ cls' = cls + 1 /\ cls <= classes
        /\ UNCHANGED <<buf, position, num_interfaces_mark, num_caps_mark, write_iads, parts>>
    BY <1>10 DEF NextClass, Writing, MarkAfterClass, environment
  <2>2. None \in Mark'
    BY DEF Mark
  <2>3. cls' \in 1..classes + 1
    BY <1>1, <2>1
  <2>4. pc' \in {"begin", "extension", "classes", "done", "failed", "panic"}
    BY <2>1 DEF WriterTypeOK
  <2> QED BY <1>1, <2>1, <2>2, <2>3, <2>4, MarkKept, TypesAfterWrite
<1>11. CASE \E alt \in {0, 1} : Interface(alt)
  <2> PICK alt \in {0, 1} : Interface(alt)
    BY <1>11
  <2> DEFINE b == IF alt = 0 THEN Counted(buf, num_interfaces_mark) ELSE buf
  <2>1. /\ Write(b, INTERFACE, alt, 7, "classes") /\ UNCHANGED environment
        /\ pc # "failed" /\ b \in Buffers(size)
    BY <1>1, CountedType DEF Interface, Writing
  <2> HIDE DEF b
  <2>2. /\ size' = size /\ buf' \in Buffers(size) /\ position' \in 0..size /\ parts' \in Seq(Part)
        /\ pc' \in {"classes", "failed"} /\ (pc' # "failed" => position + 7 + 2 <= size)
    BY <1>1, <1>2, <2>1, WriteTypes
  <2>3. num_endpoints_mark' = position + 4 /\ position + 4 \in Mark'
    BY <1>1, <2>2, MarkBehind DEF Interface, EndpointsMark
  <2>4. UNCHANGED <<num_interfaces_mark, num_caps_mark, write_iads, cls>>
    BY DEF Interface
  <2> QED BY <1>1, <2>1, <2>2, <2>3, <2>4, MarkKept, TypesAfterWrite
<1>12. CASE \E extra \in {0, 2} : EndpointEx(extra)
  <2> PICK extra \in {0, 2} : EndpointEx(extra)
    BY <1>12
  <2>1. UNCHANGED environment /\ pc # "failed" /\ UNCHANGED <<marks, cls>> /\ size' = size
    BY DEF EndpointEx, Writing, environment
  <2>2. /\ buf' \in Buffers(size) /\ position' \in 0..size /\ parts' \in Seq(Part)
        /\ pc' \in {"classes", "failed"}
    <3>1. CASE num_endpoints_mark = None
      BY <1>1, <3>1 DEF EndpointEx
    <3>2. CASE num_endpoints_mark # None
      <4> DEFINE b == Counted(buf, num_endpoints_mark)
      <4>1. Write(b, ENDPOINT, 0, 5 + extra, "classes") /\ b \in Buffers(size) /\ 5 + extra \in Nat
        BY <1>1, <3>2, CountedType DEF EndpointEx
      <4> HIDE DEF b
      <4> QED BY <1>1, <1>2, <2>1, <4>1, WriteTypes
    <3> QED BY <3>1, <3>2
  <2> QED BY <1>1, <2>1, <2>2, MarkKept, TypesAfterWrite DEF marks
<1>13. CASE \E n \in DataLens : Specific(n)
  <2> PICK n \in DataLens : Specific(n)
    BY <1>13
  <2>1. /\ Write(buf, SPECIFIC, 0, n, "classes") /\ UNCHANGED environment /\ n \in Nat
        /\ pc # "failed" /\ UNCHANGED <<marks, cls>>
    BY Constants DEF Specific, Writing
  <2>2. /\ size' = size /\ buf' \in Buffers(size) /\ position' \in 0..size /\ parts' \in Seq(Part)
        /\ pc' \in {"classes", "failed"}
    BY <1>1, <1>2, <2>1, WriteTypes
  <2> QED BY <1>1, <2>1, <2>2, MarkKept, TypesAfterWrite DEF marks
<1>14. CASE \E n \in DataLens \cup {4} : Capability(n)
  <2> PICK n \in DataLens \cup {4} : Capability(n)
    BY <1>14
  <2> DEFINE b == Counted(buf, num_caps_mark)
  <2>1. /\ UNCHANGED environment /\ n \in Nat /\ 1 + n \in Nat /\ b \in Buffers(size)
        /\ pc # "failed" /\ UNCHANGED <<marks, cls>> /\ size' = size
    BY <1>1, Constants, CountedType DEF Capability, Writing, environment
  <2>2. /\ buf' \in Buffers(size) /\ position' \in 0..size /\ parts' \in Seq(Part)
        /\ pc' \in {"classes", "failed"}
    <3>1. CASE 3 + n < ByteSize
      <4>1. Write(b, CAPABILITY, 0, 1 + n, "classes")
        BY <3>1 DEF Capability
      <4> HIDE DEF b
      <4> QED BY <1>1, <1>2, <2>1, <4>1, WriteTypes
    <3>2. CASE ~(3 + n < ByteSize)
      BY <1>1, <2>1, <3>2 DEF Capability
    <3> QED BY <3>1, <3>2
  <2> QED BY <1>1, <2>1, <2>2, MarkKept, TypesAfterWrite DEF marks
<1>15. CASE UNCHANGED vars
  BY <1>15 DEF vars, marks, WriterTypeOK, Mark
<1> QED BY <1>3, <1>4, <1>5, <1>6, <1>7, <1>8, <1>9, <1>10, <1>11, <1>12, <1>13, <1>14, <1>15
        DEF WriterNext

LEMMA TypeInvariant == WriterSpec => []WriterTypeOK
BY InitTypes, TypesStep, PTL DEF WriterSpec

-----------------------------------------------------------------------------
(* The layout. *)

(* Part k as the proofs use it. *)
LEMMA PartType ==
    ASSUME WriterTypeOK
    PROVE  /\ Len(parts) \in Nat /\ DOMAIN parts = 1..Len(parts)
           /\ \A k \in DOMAIN parts : parts[k].at \in Nat
           /\ position \in Nat /\ size \in Nat /\ position <= size
           /\ \A k \in DOMAIN parts : EndOf(k) \in Nat
           /\ parts # <<>> <=> Len(parts) > 0
<1>1. parts \in Seq(Part)
  BY DEF WriterTypeOK, Part
<1>2. Len(parts) \in Nat /\ DOMAIN parts = 1..Len(parts) /\ (parts # <<>> <=> Len(parts) > 0)
  BY <1>1, LenProperties, EmptySeq
<1>3. position \in Nat /\ size \in Nat /\ position <= size
  BY Constants DEF WriterTypeOK
<1>4. ASSUME NEW k \in DOMAIN parts PROVE parts[k].at \in Nat
  <2>1. parts[k] \in Part
    BY <1>1, <1>2, ElementOfSeq
  <2> QED BY <1>3, <2>1 DEF Part
<1>5. ASSUME NEW k \in DOMAIN parts PROVE EndOf(k) \in Nat
  <2>1. k # Len(parts) => k + 1 \in DOMAIN parts
    BY <1>2
  <2> QED BY <1>3, <1>4, <2>1 DEF EndOf, EndAt
<1> QED BY <1>2, <1>3, <1>4, <1>5

(* One more part of n bytes of data behind the others. *)
Grows(b, type, alt, n) ==
    /\ position + n + 2 <= size
    /\ buf' = Appended(b, type, n) /\ position' = position + n + 2
    /\ parts' = Append(parts, [type |-> type, alt |-> alt, at |-> position, cls |-> cls])
    /\ UNCHANGED environment

LEMMA LayoutGrows ==
    ASSUME WriterTypeOK, Layout, NEW b \in Buffers(size), NEW type \in Types, NEW alt \in {0, 1},
           NEW n \in Nat, Grows(b, type, alt, n), type = INTERFACE => n >= 7,
           parts = <<>> => type = doc /\ (doc \in {CONFIGURATION, BOS} => n >= 3)
    PROVE  /\ Layout'
           /\ \A k \in DOMAIN parts : EndOf(k)' = EndOf(k)
           /\ EndAt(parts', position', Len(parts) + 1) = position'
<1> DEFINE L == Len(parts)
           r == [type |-> type, alt |-> alt, at |-> position, cls |-> cls]
<1>1. /\ L \in Nat /\ DOMAIN parts = 1..L /\ DOMAIN parts' = 1..L + 1 /\ Len(parts') = L + 1
      /\ \A k \in 1..L : parts'[k] = parts[k]
      /\ parts'[L + 1] = r /\ r.at = position /\ r.type = type
      /\ parts # <<>> <=> L > 0
      /\ parts' # <<>>
  BY AppendedPart, PartType, EmptySeq DEF Grows
<1>2. /\ position \in Nat /\ position' = position + n + 2 /\ doc' = doc
      /\ \A k \in 1..L : parts[k].at \in Nat /\ EndOf(k) \in Nat
  BY <1>1, PartType DEF Grows, environment
<1> HIDE DEF L, r
<1> USE DEF EndOf
<1>3. EndAt(parts', position', L + 1) = position'
  BY <1>1 DEF EndAt
<1>4. ASSUME NEW k \in 1..L PROVE EndOf(k)' = EndOf(k)
  <2>1. k # L + 1 /\ k \in Nat
    BY <1>1
  <2>2. EndOf(k)' = parts'[k + 1].at
    BY <1>1, <2>1 DEF EndAt
  <2>3. CASE k = L
    BY <1>1, <2>2, <2>3 DEF EndAt, L
  <2>4. CASE k # L
    <3>1. k + 1 \in 1..L
      BY <1>1, <2>4
    <3> QED BY <1>1, <2>2, <2>4, <3>1 DEF EndAt, L
  <2> QED BY <2>3, <2>4
<1>5. /\ parts'[1].at = 0 /\ parts'[1].type = doc
      /\ doc \in {CONFIGURATION, BOS} => EndOf(1)' >= 5
  <2>1. CASE L = 0
    <3>1. position = 0 /\ type = doc /\ (doc \in {CONFIGURATION, BOS} => n >= 3)
      BY <1>1, <2>1 DEF Layout
    <3>2. parts'[1] = r /\ EndAt(parts', position', 1) = n + 2
      BY <1>1, <1>2, <1>3, <2>1, <3>1
    <3> QED BY <1>1, <3>1, <3>2
  <2>2. CASE L > 0
    <3>1. 1 \in 1..L
      BY <1>1, <2>2
    <3> QED BY <1>1, <1>4, <2>2, <3>1 DEF Layout
  <2> QED BY <1>1, <2>1, <2>2
<1>6. ASSUME NEW k \in 1..L + 1
      PROVE  /\ parts'[k].at + 2 <= EndOf(k)' /\ EndOf(k)' <= position'
             /\ parts'[k].type = INTERFACE => parts'[k].at + 9 <= EndOf(k)'
             /\ \A l \in k + 1..L + 1 : EndOf(k)' <= parts'[l].at
  <2>1. CASE k = L + 1
    <3>1. parts'[k].at = position /\ parts'[k].type = type /\ EndOf(k)' = position + n + 2
      BY <1>1, <1>2, <1>3, <2>1
    <3>2. ~ \E l \in k + 1..L + 1 : TRUE
      BY <1>1, <2>1
    <3>3. type = INTERFACE => position + 9 <= position + n + 2
      BY <1>2
    <3> QED BY <1>2, <3>1, <3>2, <3>3
  <2>2. CASE k \in 1..L
    <3>1. /\ parts[k].at + 2 <= EndOf(k) /\ EndOf(k) <= position
          /\ parts[k].type = INTERFACE => parts[k].at + 9 <= EndOf(k)
          /\ \A l \in k + 1..L : EndOf(k) <= parts[l].at
      BY <1>1, <2>2 DEF Layout, L
    <3>2. ASSUME NEW l \in k + 1..L + 1 PROVE EndOf(k)' <= parts'[l].at
      <4>1. CASE l = L + 1
        BY <1>1, <1>4, <2>2, <3>1, <4>1
      <4>2. CASE l # L + 1
        <5>1. l \in k + 1..L /\ l \in 1..L
          BY <1>1, <2>2, <4>2
        <5> QED BY <1>1, <1>4, <2>2, <3>1, <5>1
      <4> QED BY <4>1, <4>2
    <3> QED BY <1>1, <1>2, <1>4, <2>2, <3>1, <3>2
  <2> QED BY <1>1, <2>1, <2>2
<1>7. Layout'
  BY <1>1, <1>2, <1>5, <1>6 DEF Layout
<1> QED BY <1>1, <1>3, <1>4, <1>7 DEF L

(* What was written before stays, and the new part has its header. *)
LEMMA HeadersGrow ==
    ASSUME WriterTypeOK, Layout, NEW b \in Buffers(size), NEW type \in Types, NEW alt \in {0, 1},
           NEW n \in Nat, Grows(b, type, alt, n), type = INTERFACE => n >= 7,
           parts = <<>> => type = doc /\ (doc \in {CONFIGURATION, BOS} => n >= 3),
           HeadersIn(b)
    PROVE  /\ HeadersIn(buf)'
           /\ \A j \in 0..position - 1 : buf'[j] = b[j]
           /\ \A j \in position + 2..position + n + 1 : buf'[j] = 0
<1> DEFINE L == Len(parts)
<1>1. /\ L \in Nat /\ DOMAIN parts = 1..L /\ DOMAIN parts' = 1..L + 1
      /\ \A k \in 1..L : parts'[k] = parts[k]
      /\ parts'[L + 1].at = position /\ parts'[L + 1].type = type
  BY AppendedPart DEF Grows
<1>2. /\ position \in Nat /\ size \in Nat /\ position' = position + n + 2
      /\ position + n + 2 <= size
      /\ \A k \in 1..L : parts[k].at \in Nat /\ EndOf(k) \in Nat
  BY <1>1, PartType DEF Grows
<1>3. EndAt(parts', position', L + 1) = position' /\ \A k \in 1..L : EndOf(k)' = EndOf(k)
  BY <1>1, LayoutGrows
<1> HIDE DEF L
<1> USE DEF EndOf
<1>4. \A j \in 0..size - 1 :
          buf'[j] = IF j = position THEN (n + 2) % ByteSize
                    ELSE IF j = position + 1 THEN type
                    ELSE IF position + 2 <= j /\ j < position + 2 + n THEN 0
                    ELSE b[j]
  BY DEF Grows, Appended, DescriptorLength
<1>5. /\ \A j \in 0..position - 1 : buf'[j] = b[j]
      /\ \A j \in position + 2..position + n + 1 : buf'[j] = 0
      /\ buf'[position] = (n + 2) % ByteSize /\ buf'[position + 1] = type
  <2>1. ASSUME NEW j \in 0..position - 1 PROVE buf'[j] = b[j]
    <3>1. j \in 0..size - 1 /\ j # position /\ j # position + 1 /\ ~(position + 2 <= j)
      BY <1>2, <2>1
    <3> QED BY <1>4, <3>1
  <2>2. ASSUME NEW j \in position + 2..position + n + 1 PROVE buf'[j] = 0
    <3>1. /\ j \in 0..size - 1 /\ j # position /\ j # position + 1
          /\ position + 2 <= j /\ j < position + 2 + n
      BY <1>2, <2>2
    <3> QED BY <1>4, <3>1
  <2>3. position \in 0..size - 1 /\ position + 1 \in 0..size - 1 /\ position + 1 # position
    BY <1>2
  <2> QED BY <1>4, <2>1, <2>2, <2>3
<1>6. ASSUME NEW k \in 1..L + 1
      PROVE  /\ buf'[parts'[k].at] = (EndOf(k)' - parts'[k].at) % ByteSize
             /\ buf'[parts'[k].at + 1] = parts'[k].type
  <2>1. CASE k = L + 1
    <3>1. EndOf(k)' = position' /\ position' - position = n + 2
      BY <1>2, <1>3, <2>1
    <3>2. parts'[k].at = position /\ parts'[k].type = type
      BY <1>1, <2>1
    <3> QED BY <1>5, <3>1, <3>2
  <2>2. CASE k \in 1..L
    <3>1. parts[k].at + 2 <= EndOf(k) /\ EndOf(k) <= position
      BY <1>1, <2>2 DEF Layout
    <3>2. parts[k].at \in 0..position - 1 /\ parts[k].at + 1 \in 0..position - 1
      BY <1>2, <2>2, <3>1
    <3>3. b[parts[k].at] = (EndOf(k) - parts[k].at) % ByteSize /\ b[parts[k].at + 1] = parts[k].type
      BY <1>1, <2>2 DEF HeadersIn
    <3> QED BY <1>1, <1>3, <1>5, <2>2, <3>2, <3>3
  <2> QED BY <1>1, <2>1, <2>2
<1>7. HeadersIn(buf)'
  BY <1>1, <1>6 DEF HeadersIn
<1> QED BY <1>5, <1>7

-----------------------------------------------------------------------------
(* The steps.  All that the invariant needs to know of an action is whether it
   fails, begins the document or continues it. *)

Fails == pc' \in {"failed", "panic"} /\ UNCHANGED <<doc, size, position, parts>>

Begins(n) ==
    /\ pc = "begin" /\ Grows(buf, doc, 0, n) /\ UNCHANGED <<num_endpoints_mark, cls>>
    /\ doc = STRING_DESCRIPTOR => \E m \in StringLens : n = 2 * m
    /\ doc # STRING_DESCRIPTOR => n + 2 < ByteSize
    /\ doc \in {DEVICE, STRING_DESCRIPTOR} => pc' = "done"
    /\ doc = CONFIGURATION => n = 7 /\ pc' = "classes" /\ num_interfaces_mark' = 4
    /\ doc = BOS => n = 3 /\ pc' = "extension" /\ num_caps_mark' = 4

AddsInterface(b, alt, n) ==
    /\ doc = CONFIGURATION /\ n = 7 /\ num_endpoints_mark' = position + 4
    /\ b = IF alt = 0 THEN Counted(buf, 4) ELSE buf

AddsEndpoint(b, n) ==
    /\ doc = CONFIGURATION /\ n \in 5..7
    /\ num_endpoints_mark # None /\ b = Counted(buf, num_endpoints_mark)

AddsCapability(b, n) == doc = BOS /\ n > 0 /\ n + 2 < ByteSize /\ b = Counted(buf, 4)

AddsOther(b, type, n) ==
    /\ doc = CONFIGURATION /\ b = buf
    /\ \/ type = IAD /\ n = 6
       \/ type = SPECIFIC /\ n \in DataLens /\ n + 2 <= ByteSize

Continues(b, type, alt, n) ==
    /\ pc \in {"extension", "classes"} /\ pc' = "classes"
    /\ Grows(b, type, alt, n) /\ UNCHANGED <<num_interfaces_mark, num_caps_mark, cls>>
    /\ type # INTERFACE => UNCHANGED num_endpoints_mark
    /\ \/ type = INTERFACE /\ AddsInterface(b, alt, n)
       \/ type = ENDPOINT /\ alt = 0 /\ AddsEndpoint(b, n)
       \/ type = CAPABILITY /\ alt = 0 /\ AddsCapability(b, n)
       \/ alt = 0 /\ AddsOther(b, type, n)

LEMMA WriteCases ==
    ASSUME WriterTypeOK, NEW b, NEW type, NEW alt, NEW n \in Nat, NEW next,
           Write(b, type, alt, n, next), UNCHANGED environment
    PROVE  \/ Fails
           \/ Grows(b, type, alt, n) /\ pc' = next /\ 2 + n <= ByteSize
<1>1. position \in Nat /\ size \in Nat
  BY Constants DEF WriterTypeOK
<1>2. CASE Fits(n)
  BY <1>1, <1>2 DEF Write, Grows, Fits
<1>3. CASE ~Fits(n)
  BY <1>3 DEF Write, Fails, environment
<1> QED BY <1>2, <1>3

LEMMA BeginCases ==
    ASSUME WriterTypeOK, LayoutInv,
           \/ DeviceDescriptor \/ Bos \/ \E iads \in BOOLEAN : Configuration(iads)
           \/ \E n \in StringLens : StringDescriptor(n) \/ Languages(n)
    PROVE  Fails \/ \E n \in Nat : Begins(n)
<1>1. pc = "begin" => position = 0 /\ parts = <<>> /\ position \in Nat
  BY DEF LayoutInv, Layout
<1> USE DEF DEVICE, CONFIGURATION, STRING_DESCRIPTOR, BOS
<1>2. CASE DeviceDescriptor
  <2>1. /\ Write(buf, DEVICE, 0, 16, "done") /\ UNCHANGED environment /\ pc = "begin"
        /\ doc = DEVICE /\ UNCHANGED <<num_endpoints_mark, cls>>
    BY <1>2 DEF DeviceDescriptor, marks
  <2>2. ASSUME Grows(buf, DEVICE, 0, 16), pc' = "done" PROVE Begins(16)
    BY <2>1, <2>2, Constants DEF Begins
  <2> QED BY <2>1, <2>2, WriteCases
<1>3. CASE Bos
  <2>1. /\ Write(buf, BOS, 0, 3, "extension") /\ UNCHANGED environment /\ pc = "begin"
        /\ doc = BOS /\ num_caps_mark' = 4 /\ UNCHANGED <<num_endpoints_mark, cls>>
    BY <1>1, <1>3 DEF Bos
  <2>2. ASSUME Grows(buf, BOS, 0, 3), pc' = "extension" PROVE Begins(3)
    BY <2>1, <2>2, Constants DEF Begins
  <2> QED BY <2>1, <2>2, WriteCases
<1>4. CASE \E iads \in BOOLEAN : Configuration(iads)
  <2> PICK iads \in BOOLEAN : Configuration(iads)
    BY <1>4
  <2>1. /\ Write(buf, CONFIGURATION, 0, 7, "classes") /\ UNCHANGED environment /\ pc = "begin"
        /\ doc = CONFIGURATION /\ num_interfaces_mark' = 4 /\ UNCHANGED <<num_endpoints_mark, cls>>
    BY <1>1 DEF Configuration
  <2>2. ASSUME Grows(buf, CONFIGURATION, 0, 7), pc' = "classes" PROVE Begins(7)
    BY <2>1, <2>2, Constants DEF Begins
  <2> QED BY <2>1, <2>2, WriteCases
<1>5. CASE \E n \in StringLens : StringDescriptor(n)
  <2> PICK n \in StringLens : StringDescriptor(n)
    BY <1>5
  <2>1. n \in Nat /\ 2 * n \in Nat /\ size \in Nat
    BY Constants DEF WriterTypeOK
  <2>2. /\ pc = "begin" /\ doc = STRING_DESCRIPTOR /\ UNCHANGED environment
        /\ UNCHANGED <<num_endpoints_mark, cls>> /\ position = 0 /\ parts = <<>>
    BY <1>1 DEF StringDescriptor, marks
  <2>3. CASE 2 + 2 * n <= size
    <3>1. /\ buf' = Appended(buf, STRING_DESCRIPTOR, 2 * n) /\ position' = 2 + 2 * n
          /\ parts' = <<[type |-> STRING_DESCRIPTOR, alt |-> 0, at |-> 0, cls |-> cls]>>
          /\ pc' = "done"
      BY <2>3 DEF StringDescriptor
    <3>2. Grows(buf, STRING_DESCRIPTOR, 0, 2 * n)
      BY <2>1, <2>2, <2>3, <3>1 DEF Grows
    <3>3. Begins(2 * n)
      BY <2>2, <3>1, <3>2 DEF Begins
    <3> QED BY <2>1, <3>3
  <2>4. CASE ~(2 + 2 * n <= size)
    BY <2>4 DEF StringDescriptor, Fails, environment
  <2> QED BY <2>3, <2>4
<1>6. CASE \E n \in StringLens : Languages(n)
  <2> PICK n \in StringLens : Languages(n)
    BY <1>6
  <2>1. /\ Write(buf, STRING_DESCRIPTOR, 0, 2 * n, "done") /\ UNCHANGED environment
        /\ pc = "begin" /\ doc = STRING_DESCRIPTOR /\ UNCHANGED <<num_endpoints_mark, cls>>
        /\ 2 * n \in Nat
    BY Constants DEF Languages, marks
  <2>2. ASSUME Grows(buf, STRING_DESCRIPTOR, 0, 2 * n), pc' = "done" PROVE Begins(2 * n)
    BY <2>1, <2>2 DEF Begins
  <2> QED BY <2>1, <2>2, WriteCases
<1> QED BY <1>2, <1>3, <1>4, <1>5, <1>6

LEMMA ContinueCases ==
    ASSUME WriterTypeOK, LayoutInv,
           \/ Iad \/ \E alt \in {0, 1} : Interface(alt)
           \/ \E extra \in {0, 2} : EndpointEx(extra)
           \/ \E n \in DataLens : Specific(n)
           \/ \E n \in DataLens \cup {4} : Capability(n)
    PROVE  \/ Fails
           \/ \E b \in Buffers(size), type \in Types, alt \in {0, 1}, n \in Nat :
                  Continues(b, type, alt, n)
<1>1. /\ doc = CONFIGURATION /\ pc = "classes" => num_interfaces_mark = 4
      /\ doc = BOS /\ pc \in {"extension", "classes"} => num_caps_mark = 4
      /\ pc = "extension" => doc = BOS
  BY DEF LayoutInv, Written, Marked
<1>2. buf \in Buffers(size) /\ size \in Nat
  BY Constants DEF WriterTypeOK, Buffers
<1> USE DEF INTERFACE, ENDPOINT, IAD, CAPABILITY, SPECIFIC, CONFIGURATION, BOS
<1>3. {INTERFACE, ENDPOINT, IAD, CAPABILITY, SPECIFIC} \subseteq Types
  BY DEF Types
<1>4. CASE Iad
  <2>1. /\ Write(buf, IAD, 0, 6, "classes") /\ UNCHANGED environment /\ UNCHANGED <<marks, cls>>
        /\ pc = "classes" /\ doc = CONFIGURATION
    BY <1>4 DEF Iad, Writing
  <2>2. ASSUME Grows(buf, IAD, 0, 6), pc' = "classes" PROVE Continues(buf, IAD, 0, 6)
    BY <2>1, <2>2 DEF Continues, AddsOther, marks
  <2> QED BY <1>2, <1>3, <2>1, <2>2, WriteCases
<1>5. CASE \E alt \in {0, 1} : Interface(alt)
  <2> PICK alt \in {0, 1} : Interface(alt)
    BY <1>5
  <2> DEFINE b == IF alt = 0 THEN Counted(buf, num_interfaces_mark) ELSE buf
  <2>1. /\ Write(b, INTERFACE, alt, 7, "classes") /\ UNCHANGED environment
        /\ UNCHANGED <<num_interfaces_mark, num_caps_mark, cls>>
        /\ pc = "classes" /\ doc = CONFIGURATION /\ num_endpoints_mark' = position + 4
    BY DEF Interface, Writing, EndpointsMark
  <2>2. b \in Buffers(size) /\ b = IF alt = 0 THEN Counted(buf, 4) ELSE buf
    BY <1>1, <1>2, <2>1, CountedType
  <2> HIDE DEF b
  <2>3. ASSUME Grows(b, INTERFACE, alt, 7), pc' = "classes" PROVE Continues(b, INTERFACE, alt, 7)
    BY <2>1, <2>2, <2>3 DEF Continues, AddsInterface
  <2> QED BY <1>3, <2>1, <2>2, <2>3, WriteCases
<1>6. CASE \E extra \in {0, 2} : EndpointEx(extra)
  <2> PICK extra \in {0, 2} : EndpointEx(extra)
    BY <1>6
  <2>1. /\ UNCHANGED environment /\ UNCHANGED <<marks, cls>>
        /\ pc = "classes" /\ doc = CONFIGURATION
    BY DEF EndpointEx, Writing
  <2>2. CASE num_endpoints_mark = None
    BY <2>1, <2>2 DEF EndpointEx, Fails, environment
  <2>3. CASE num_endpoints_mark # None
    <3> DEFINE b == Counted(buf, num_endpoints_mark)
    <3>1. Write(b, ENDPOINT, 0, 5 + extra, "classes") /\ b \in Buffers(size) /\ 5 + extra \in 5..7
      BY <1>2, <2>3, CountedType DEF EndpointEx
    <3>2. AddsEndpoint(b, 5 + extra)
      BY <2>1, <2>3, <3>1 DEF AddsEndpoint
    <3> HIDE DEF b
    <3>3. ASSUME Grows(b, ENDPOINT, 0, 5 + extra), pc' = "classes"
          PROVE  Continues(b, ENDPOINT, 0, 5 + extra)
      BY <2>1, <3>2, <3>3 DEF Continues, marks
    <3>4. 5 + extra \in Nat /\ ENDPOINT \in Types /\ 0 \in {0, 1}
      BY <1>3
    <3> QED BY <2>1, <3>1, <3>3, <3>4, WriteCases
  <2> QED BY <2>2, <2>3
<1>7. CASE \E n \in DataLens : Specific(n)
  <2> PICK n \in DataLens : Specific(n)
    BY <1>7
  <2>1. /\ Write(buf, SPECIFIC, 0, n, "classes") /\ UNCHANGED environment
        /\ UNCHANGED <<marks, cls>> /\ pc = "classes" /\ doc = CONFIGURATION /\ n \in Nat
    BY Constants DEF Specific, Writing
  <2>2. ASSUME Grows(buf, SPECIFIC, 0, n), pc' = "classes", 2 + n <= ByteSize
        PROVE  Continues(buf, SPECIFIC, 0, n)
    <3>1. n + 2 <= ByteSize
      BY <2>1, <2>2, Constants
    <3> QED BY <2>1, <2>2, <3>1 DEF Continues, AddsOther, marks
  <2> QED BY <1>2, <1>3, <2>1, <2>2, WriteCases
<1>8. CASE \E n \in DataLens \cup {4} : Capability(n)
  <2> PICK n \in DataLens \cup {4} : Capability(n)
    BY <1>8
  <2> DEFINE b == Counted(buf, num_caps_mark)
  <2>1. /\ UNCHANGED environment /\ UNCHANGED <<marks, cls>>
        /\ pc \in {"extension", "classes"} /\ doc = BOS /\ n \in Nat
    BY <1>1, Constants DEF Capability, Writing
  <2>2. b = Counted(buf, 4) /\ b \in Buffers(size)
    BY <1>1, <1>2, <2>1, CountedType
  <2>3. CASE 3 + n < ByteSize
    <3>1. Write(b, CAPABILITY, 0, 1 + n, "classes")
      BY <2>3 DEF Capability
    <3>2. 1 + n \in Nat /\ 1 + n > 0 /\ (1 + n) + 2 < ByteSize
      BY <2>1, <2>3, Constants
    <3> HIDE DEF b
    <3>3. AddsCapability(b, 1 + n)
      BY <2>1, <2>2, <3>2 DEF AddsCapability
    <3>4. ASSUME Grows(b, CAPABILITY, 0, 1 + n), pc' = "classes"
          PROVE  Continues(b, CAPABILITY, 0, 1 + n)
      BY <2>1, <3>3, <3>4 DEF Continues, marks
    <3> QED BY <1>3, <2>1, <2>2, <3>1, <3>2, <3>4, WriteCases
  <2>4. CASE ~(3 + n < ByteSize)
    BY <2>1, <2>4 DEF Capability, Fails, environment
  <2> QED BY <2>3, <2>4
<1> QED BY <1>4, <1>5, <1>6, <1>7, <1>8

(* A step of the writer. *)
LEMMA StepCases ==
    ASSUME WriterTypeOK, LayoutInv, [WriterNext]_vars
    PROVE  \/ Fails \/ \E n \in Nat : Begins(n)
           \/ \E b \in Buffers(size), type \in Types, alt \in {0, 1}, n \in Nat :
                  Continues(b, type, alt, n)
           \/ End \/ NextClass \/ UNCHANGED vars
BY BeginCases, ContinueCases DEF WriterNext

-----------------------------------------------------------------------------
(* The counters. *)

(* Where a counter may be. *)
IsCounter(m) ==
    \/ doc \in {CONFIGURATION, BOS} /\ parts # <<>> /\ m = 4
    \/ \E k \in DOMAIN parts : parts[k].type = INTERFACE /\ m = parts[k].at + 4

(* A counter is no byte of a header, and every interface has its own. *)
LEMMA CountersApart ==
    ASSUME WriterTypeOK, Layout
    PROVE  /\ \A m : IsCounter(m) =>
                  /\ m \in 4..position - 1
                  /\ \A k \in DOMAIN parts : m # parts[k].at /\ m # parts[k].at + 1
           /\ \A k \in DOMAIN parts : parts[k].type = INTERFACE =>
                  /\ IsCounter(parts[k].at + 4)
                  /\ parts[k].at + 4 # 4
                  /\ \A l \in DOMAIN parts :
                        l # k => parts[l].at + 4 # parts[k].at + 4
<1>1. /\ Len(parts) \in Nat /\ DOMAIN parts = 1..Len(parts) /\ (parts # <<>> <=> Len(parts) > 0)
      /\ \A k \in DOMAIN parts : parts[k].at \in Nat /\ EndOf(k) \in Nat
      /\ position \in Nat
  BY PartType
<1>2. \A k \in DOMAIN parts :
          /\ parts[k].at + 2 <= EndOf(k) /\ EndOf(k) <= position
          /\ parts[k].type = INTERFACE => parts[k].at + 9 <= EndOf(k)
          /\ \A l \in k + 1..Len(parts) : EndOf(k) <= parts[l].at
  BY DEF Layout
<1>3. \A k, l \in DOMAIN parts : k = l \/ EndOf(k) <= parts[l].at \/ EndOf(l) <= parts[k].at
  <2> SUFFICES ASSUME NEW k \in DOMAIN parts, NEW l \in DOMAIN parts, k # l
               PROVE  EndOf(k) <= parts[l].at \/ EndOf(l) <= parts[k].at
    OBVIOUS
  <2>1. l \in k + 1..Len(parts) \/ k \in l + 1..Len(parts)
    BY <1>1
  <2> QED BY <1>2, <2>1
<1>4. parts # <<>> =>
          1 \in DOMAIN parts /\ parts[1].at = 0 /\ parts[1].type = doc
          /\ (doc \in {CONFIGURATION, BOS} => EndOf(1) >= 5)
  BY <1>1 DEF Layout
<1>5. ASSUME NEW m, doc \in {CONFIGURATION, BOS}, parts # <<>>, m = 4
      PROVE  /\ m \in 4..position - 1
             /\ \A k \in DOMAIN parts : m # parts[k].at /\ m # parts[k].at + 1
  <2>1. m \in 4..position - 1
    BY <1>1, <1>2, <1>4, <1>5
  <2>2. ASSUME NEW k \in DOMAIN parts PROVE m # parts[k].at /\ m # parts[k].at + 1
    <3>1. CASE k = 1
      BY <1>4, <1>5, <3>1
    <3>2. CASE k # 1
      <4>1. k \in 1 + 1..Len(parts)
        BY <1>1, <3>2
      <4>2. EndOf(1) <= parts[k].at
        BY <1>2, <1>4, <1>5, <4>1
      <4> QED BY <1>1, <1>4, <1>5, <4>2
    <3> QED BY <3>1, <3>2
  <2> QED BY <2>1, <2>2
<1>6. ASSUME NEW i \in DOMAIN parts, parts[i].type = INTERFACE
      PROVE  /\ parts[i].at + 4 \in 4..position - 1
             /\ \A k \in DOMAIN parts :
                    /\ parts[i].at + 4 # parts[k].at /\ parts[i].at + 4 # parts[k].at + 1
                    /\ k # i => parts[k].at + 4 # parts[i].at + 4
  <2>1. parts[i].at + 4 \in 4..position - 1
    BY <1>1, <1>2, <1>6
  <2>2. ASSUME NEW k \in DOMAIN parts
        PROVE  /\ parts[i].at + 4 # parts[k].at /\ parts[i].at + 4 # parts[k].at + 1
               /\ k # i => parts[k].at + 4 # parts[i].at + 4
    <3>1. k = i \/ EndOf(k) <= parts[i].at \/ EndOf(i) <= parts[k].at
      BY <1>3
    <3>2. /\ parts[i].at \in Nat /\ parts[k].at \in Nat /\ EndOf(i) \in Nat /\ EndOf(k) \in Nat
          /\ parts[i].at + 9 <= EndOf(i) /\ parts[k].at + 2 <= EndOf(k)
      BY <1>1, <1>2, <1>6
    <3> QED BY <3>1, <3>2
  <2> QED BY <2>1, <2>2
<1>7. ASSUME NEW k \in DOMAIN parts, parts[k].type = INTERFACE PROVE parts[k].at + 4 # 4
  <2>1. k # 1
    BY <1>4, <1>7, Constants DEF Layout, WriterTypeOK, Documents, DEVICE, CONFIGURATION,
                                 STRING_DESCRIPTOR, BOS, INTERFACE
  <2>2. k \in 1 + 1..Len(parts) /\ 1 \in DOMAIN parts
    BY <1>1, <2>1
  <2>3. EndOf(1) <= parts[k].at /\ parts[1].at + 2 <= EndOf(1)
    BY <1>2, <2>2
  <2> QED BY <1>1, <2>2, <2>3
<1> QED BY <1>5, <1>6, <1>7 DEF IsCounter

(* Counting changes the counter only. *)
LEMMA CountedKeeps ==
    ASSUME WriterTypeOK, Layout, HeadersIn(buf), NEW m, IsCounter(m)
    PROVE  /\ HeadersIn(Counted(buf, m))
           /\ Counted(buf, m)[m] = (buf[m] + 1) % ByteSize
           /\ \A j \in 0..size - 1 : j # m => Counted(buf, m)[j] = buf[j]
<1>1. m \in 4..position - 1 /\ position \in Nat /\ size \in Nat /\ position <= size
  BY CountersApart, PartType
<1>2. DOMAIN buf = 0..size - 1 /\ m \in 0..size - 1
  BY <1>1 DEF WriterTypeOK
<1>3. /\ Counted(buf, m)[m] = (buf[m] + 1) % ByteSize
      /\ \A j \in 0..size - 1 : j # m => Counted(buf, m)[j] = buf[j]
  BY <1>2 DEF Counted
<1>4. \A k \in DOMAIN parts : parts[k].at \in 0..size - 1 /\ parts[k].at + 1 \in 0..size - 1
  BY <1>1, PartType DEF Layout
<1>5. HeadersIn(Counted(buf, m))
  BY <1>3, <1>4, CountersApart DEF HeadersIn
<1> QED BY <1>3, <1>5

(* The buffer that a part is added to: at most one counter is incremented. *)
LEMMA ContinuedBuffer ==
    ASSUME WriterTypeOK, LayoutInv, NEW b, NEW type, NEW alt \in {0, 1}, NEW n \in Nat,
           Continues(b, type, alt, n)
    PROVE  /\ HeadersIn(b) /\ parts # <<>> /\ Marked /\ HeadersIn(buf) /\ Layout
           /\ type = INTERFACE => n = 7
           /\ type \notin Documents
           /\ \A m : IsCounter(m) =>
                 \/ b[m] = buf[m]
                 \/ b[m] = (buf[m] + 1) % ByteSize
<1>1. Layout /\ HeadersIn(buf) /\ Marked /\ parts # <<>> /\ doc \in {CONFIGURATION, BOS}
  BY DEF LayoutInv, Written, Continues, Marked
<1>2. type = INTERFACE => n = 7
  BY DEF Continues, AddsInterface, AddsOther, INTERFACE, ENDPOINT, CAPABILITY, IAD, SPECIFIC
<1>3. type \notin Documents
  BY DEF Continues, AddsOther, INTERFACE, ENDPOINT, CAPABILITY, IAD, SPECIFIC, Documents,
         DEVICE, CONFIGURATION, STRING_DESCRIPTOR, BOS
<1>4. \/ b = buf \/ b = Counted(buf, 4)
      \/ num_endpoints_mark # None /\ b = Counted(buf, num_endpoints_mark)
  BY DEF Continues, AddsInterface, AddsEndpoint, AddsCapability, AddsOther
<1>5. IsCounter(4) /\ (num_endpoints_mark # None => IsCounter(num_endpoints_mark))
  BY <1>1 DEF IsCounter, Marked, LastInterface
<1>6. \A m : IsCounter(m) => m \in 0..size - 1
  BY <1>1, CountersApart, PartType
<1> QED BY <1>1, <1>2, <1>3, <1>4, <1>5, <1>6, CountedKeeps

-----------------------------------------------------------------------------
(* The layout is kept. *)

LEMMA InterfacesGrow ==
    ASSUME WriterTypeOK, NEW b, NEW type \in Types, NEW alt \in {0, 1}, NEW n \in Nat,
           Grows(b, type, alt, n)
    PROVE  /\ type # INTERFACE => \A k \in DOMAIN parts : LastInterface(k) => LastInterface(k)'
           /\ type = INTERFACE => \A k \in {Len(parts) + 1} : LastInterface(k)'
           /\ DOMAIN parts' = 1..Len(parts) + 1 /\ DOMAIN parts = 1..Len(parts)
           /\ Len(parts') = Len(parts) + 1 /\ Len(parts) \in Nat
           /\ \A k \in DOMAIN parts : parts'[k] = parts[k]
           /\ parts'[Len(parts) + 1].at = position /\ parts'[Len(parts) + 1].type = type
           /\ parts'[Len(parts) + 1].cls = cls /\ parts'[Len(parts) + 1].alt = alt
<1> DEFINE L == Len(parts)
<1>1. /\ L \in Nat /\ DOMAIN parts = 1..L /\ DOMAIN parts' = 1..L + 1 /\ Len(parts') = L + 1
      /\ \A k \in 1..L : parts'[k] = parts[k]
      /\ parts'[L + 1].at = position /\ parts'[L + 1].type = type
      /\ parts'[L + 1].cls = cls /\ parts'[L + 1].alt = alt
  BY AppendedPart DEF Grows
<1>2. ASSUME type # INTERFACE, NEW k \in DOMAIN parts, LastInterface(k) PROVE LastInterface(k)'
  <2>1. ASSUME NEW l \in k + 1..L + 1 PROVE parts'[l].type # INTERFACE
    <3>1. l = L + 1 \/ (l \in k + 1..L /\ l \in 1..L)
      BY <1>1
    <3> QED BY <1>1, <1>2, <3>1 DEF LastInterface
  <2> QED BY <1>1, <1>2, <2>1 DEF LastInterface
<1>3. ASSUME NEW k \in {L + 1}, type = INTERFACE PROVE LastInterface(k)'
  <2>1. ~ \E l \in k + 1..L + 1 : TRUE
    BY <1>1
  <2> QED BY <1>1, <1>3, <2>1 DEF LastInterface
<1> QED BY <1>1, <1>2, <1>3

LEMMA BeginKeepsLayout ==
    ASSUME WriterTypeOK, LayoutInv, NEW n \in Nat, Begins(n)
    PROVE  /\ LayoutInv' /\ position = 0 /\ parts = <<>> /\ Len(parts) = 0
           /\ \A j \in 2..n + 1 : buf'[j] = 0
<1>1. /\ position = 0 /\ parts = <<>> /\ num_endpoints_mark = None /\ Layout
      /\ Grows(buf, doc, 0, n)
  BY DEF Begins, LayoutInv, Layout
<1>2. doc \in Documents /\ doc \in Types /\ doc # INTERFACE /\ buf \in Buffers(size)
  BY TypesAreBytes DEF WriterTypeOK, Buffers, Documents, DEVICE, CONFIGURATION,
                       STRING_DESCRIPTOR, BOS, INTERFACE
<1>3. doc \in {CONFIGURATION, BOS} => n >= 3
  BY DEF Begins
<1>4. Len(parts) = 0 /\ DOMAIN parts = {}
  BY <1>1, EmptySeq
<1>5. HeadersIn(buf)
  BY <1>4 DEF HeadersIn
<1>6. Layout' /\ HeadersIn(buf)' /\ \A j \in 2..n + 1 : buf'[j] = 0
  BY <1>1, <1>2, <1>3, <1>5, LayoutGrows, HeadersGrow
<1>7. DOMAIN parts' = {1} /\ Len(parts') = 1 /\ parts' # <<>> /\ doc' = doc
  <2>1. DOMAIN parts' = 1..Len(parts) + 1 /\ Len(parts') = Len(parts) + 1
    BY <1>1, <1>2, InterfacesGrow
  <2> QED BY <1>1, <1>4, <2>1, EmptySeq DEF Grows, environment
<1>8. /\ num_endpoints_mark' = None /\ pc' \in {"done", "classes", "extension"}
      /\ pc' # "done" => doc' \in {CONFIGURATION, BOS}
      /\ pc' = "extension" => doc' = BOS
      /\ doc' = CONFIGURATION => num_interfaces_mark' = 4
      /\ doc' = BOS => num_caps_mark' = 4
  BY <1>1, <1>2, <1>7 DEF Begins, Documents, DEVICE, CONFIGURATION, STRING_DESCRIPTOR, BOS
<1>9. Marked'
  BY <1>7, <1>8 DEF Marked
<1> QED BY <1>1, <1>4, <1>6, <1>8, <1>9 DEF LayoutInv

LEMMA ContinueKeepsLayout ==
    ASSUME WriterTypeOK, LayoutInv, NEW b \in Buffers(size), NEW type \in Types,
           NEW alt \in {0, 1}, NEW n \in Nat, Continues(b, type, alt, n)
    PROVE  LayoutInv'
<1>1. /\ HeadersIn(b) /\ parts # <<>> /\ Marked /\ Layout
      /\ (type = INTERFACE => n = 7)
      /\ Grows(b, type, alt, n) /\ pc' = "classes" /\ doc' = doc
  <2>1. /\ HeadersIn(b) /\ parts # <<>> /\ Marked /\ Layout
        /\ (type = INTERFACE => n = 7)
    BY ContinuedBuffer
  <2>2. Grows(b, type, alt, n) /\ pc' = "classes"
    BY DEF Continues
  <2> QED BY <2>1, <2>2 DEF Grows, environment
<1>2. Layout' /\ HeadersIn(buf)'
  BY <1>1, LayoutGrows, HeadersGrow
<1>3. /\ Len(parts) \in Nat /\ DOMAIN parts = 1..Len(parts) /\ DOMAIN parts' = 1..Len(parts) + 1
      /\ Len(parts') = Len(parts) + 1
      /\ \A k \in DOMAIN parts : parts'[k] = parts[k]
      /\ parts'[Len(parts) + 1].at = position /\ parts'[Len(parts) + 1].cls = cls
      /\ type = INTERFACE => \A k \in {Len(parts) + 1} : LastInterface(k)'
      /\ type # INTERFACE => \A k \in DOMAIN parts : LastInterface(k) => LastInterface(k)'
  BY <1>1, InterfacesGrow
<1>4. /\ doc \in {CONFIGURATION, BOS} /\ cls' = cls
      /\ doc = CONFIGURATION => num_interfaces_mark' = 4
      /\ doc = BOS => num_caps_mark' = 4
  <2>1. /\ pc # "done" /\ cls' = cls
        /\ num_interfaces_mark' = num_interfaces_mark /\ num_caps_mark' = num_caps_mark
    BY DEF Continues
  <2> QED BY <1>1, <2>1 DEF Marked
<1>5. parts' # <<>>
  BY <1>3, EmptySeq
<1>6. ASSUME num_endpoints_mark' # None
      PROVE  \E k \in DOMAIN parts' :
                 LastInterface(k)' /\ parts'[k].cls = cls' /\ num_endpoints_mark' = parts'[k].at + 4
  <2>1. CASE type = INTERFACE
    <3>1. num_endpoints_mark' = position + 4
      BY <2>1 DEF Continues, AddsInterface, AddsOther, INTERFACE, ENDPOINT, CAPABILITY, IAD,
                  SPECIFIC
    <3>2. PICK k \in {Len(parts) + 1} : TRUE
      OBVIOUS
    <3>3. k \in DOMAIN parts' /\ parts'[k].at = position /\ parts'[k].cls = cls
      BY <1>3, <3>2
    <3> QED BY <1>3, <1>4, <2>1, <3>1, <3>2, <3>3
  <2>2. CASE type # INTERFACE
    <3>1. num_endpoints_mark' = num_endpoints_mark
      BY <2>2 DEF Continues
    <3>2. PICK k \in DOMAIN parts :
              LastInterface(k) /\ parts[k].cls = cls /\ num_endpoints_mark = parts[k].at + 4
      BY <1>1, <1>6, <3>1 DEF Marked
    <3>3. k \in DOMAIN parts' /\ LastInterface(k)' /\ parts'[k] = parts[k]
      BY <1>3, <2>2, <3>2
    <3> QED BY <1>4, <3>1, <3>2, <3>3
  <2> QED BY <2>1, <2>2
<1>7. Marked'
  BY <1>1, <1>4, <1>5, <1>6, Constants
     DEF Marked, DEVICE, CONFIGURATION, STRING_DESCRIPTOR, BOS
<1> QED BY <1>1, <1>2, <1>7 DEF LayoutInv

(* wTotalLength is written over no header. *)
LEMMA EndKeepsLayout ==
    ASSUME WriterTypeOK, LayoutInv, End
    PROVE  /\ LayoutInv' /\ doc \in {CONFIGURATION, BOS} /\ parts # <<>>
           /\ position \in 5..size
           /\ buf'[2] = position % ByteSize /\ buf'[3] = (position \div ByteSize) % ByteSize
           /\ \A j \in 4..size - 1 : buf'[j] = buf[j]
<1>1. /\ Layout /\ HeadersIn(buf) /\ Marked /\ parts # <<>> /\ doc \in {CONFIGURATION, BOS}
      /\ pc = "classes"
  BY DEF LayoutInv, Written, End, Marked
<1>2. /\ Len(parts) \in Nat /\ DOMAIN parts = 1..Len(parts) /\ (parts # <<>> <=> Len(parts) > 0)
      /\ \A k \in DOMAIN parts : parts[k].at \in Nat /\ EndOf(k) \in Nat
      /\ position \in Nat /\ size \in Nat /\ position <= size
  BY PartType
<1>3. 1 \in DOMAIN parts /\ parts[1].at = 0 /\ EndOf(1) >= 5 /\ EndOf(1) <= position
  BY <1>1, <1>2 DEF Layout
<1>4. position \in 5..size
  BY <1>2, <1>3
<1>5. /\ buf'[2] = position % ByteSize /\ buf'[3] = (position \div ByteSize) % ByteSize
      /\ \A j \in 0..size - 1 : j \notin {2, 3} => buf'[j] = buf[j]
  BY <1>2, <1>4 DEF End, TotalLength, WriterTypeOK
<1>6. ASSUME NEW k \in DOMAIN parts
      PROVE  /\ parts[k].at \in 0..size - 1 /\ parts[k].at \notin {2, 3}
             /\ parts[k].at + 1 \in 0..size - 1 /\ parts[k].at + 1 \notin {2, 3}
  <2>1. parts[k].at + 2 <= EndOf(k) /\ EndOf(k) <= position
    BY <1>1 DEF Layout
  <2>2. CASE k = 1
    BY <1>2, <1>3, <1>4, <2>2
  <2>3. CASE k # 1
    <3>1. k \in 1 + 1..Len(parts)
      BY <1>2, <2>3
    <3>2. EndOf(1) <= parts[k].at
      BY <1>1, <1>3, <3>1 DEF Layout
    <3> QED BY <1>2, <1>3, <2>1, <3>2
  <2> QED BY <2>2, <2>3
<1>7. /\ UNCHANGED <<doc, parts, position, cls, num_interfaces_mark, num_endpoints_mark>>
      /\ pc' = "done"
  BY DEF End, environment
<1>8. \A k : EndOf(k)' = EndOf(k)
  BY <1>7 DEF EndOf, EndAt
<1>9. HeadersIn(buf)'
  BY <1>1, <1>5, <1>6, <1>7, <1>8 DEF HeadersIn
<1>10. Layout'
  BY <1>1, <1>7, <1>8 DEF Layout
<1>11. Marked'
  BY <1>1, <1>7 DEF Marked, LastInterface
<1> QED BY <1>1, <1>4, <1>5, <1>7, <1>9, <1>10, <1>11 DEF LayoutInv

LEMMA InitLayout == WriterInit => LayoutInv
BY EmptySeq DEF WriterInit, LayoutInv, Layout, Written

LEMMA LayoutStep == WriterTypeOK /\ LayoutInv /\ [WriterNext]_vars => LayoutInv'
<1> SUFFICES ASSUME WriterTypeOK, LayoutInv, [WriterNext]_vars PROVE LayoutInv'
  OBVIOUS
<1>1. CASE Fails
  <2>1. UNCHANGED <<doc, parts, position>> /\ pc' \notin {"begin", "extension", "classes", "done"}
    BY <1>1 DEF Fails
  <2>2. Layout'
    BY <2>1 DEF LayoutInv, Layout, EndOf, EndAt
  <2> QED BY <2>1, <2>2 DEF LayoutInv, Written
<1>2. CASE NextClass
  <2>1. /\ UNCHANGED <<doc, parts, position, buf, pc, num_interfaces_mark, num_caps_mark>>
        /\ num_endpoints_mark' = None /\ pc = "classes"
    BY <1>2 DEF NextClass, Writing, MarkAfterClass, environment
  <2>2. Layout' /\ HeadersIn(buf)' /\ Marked'
    BY <2>1 DEF LayoutInv, Layout, HeadersIn, Marked, Written, EndOf, EndAt
  <2> QED BY <2>1, <2>2 DEF LayoutInv
<1>3. CASE UNCHANGED vars
  <2>1. /\ UNCHANGED <<doc, parts, position, buf, pc, cls>>
        /\ UNCHANGED <<num_interfaces_mark, num_caps_mark, num_endpoints_mark>>
    BY <1>3 DEF vars, marks
  <2> QED BY <2>1 DEF LayoutInv, Layout, HeadersIn, Marked, Written, EndOf, EndAt, LastInterface
<1> QED BY <1>1, <1>2, <1>3, StepCases, BeginKeepsLayout, ContinueKeepsLayout, EndKeepsLayout

-----------------------------------------------------------------------------
(* Endpoints belong to an interface of their own class. *)

LEMMA EndpointsGrow ==
    ASSUME WriterTypeOK, NEW b, NEW type \in Types, NEW alt \in {0, 1}, NEW n \in Nat,
           Grows(b, type, alt, n)
    PROVE  /\ \A k \in DOMAIN parts :
                  parts[k].type = INTERFACE =>
                      EndpointsOf(k)' = IF type = ENDPOINT /\ LastInterface(k)
                                        THEN EndpointsOf(k) \cup {Len(parts) + 1}
                                        ELSE EndpointsOf(k)
           /\ \A k \in {Len(parts) + 1} : EndpointsOf(k)' = {}
           /\ \A k \in DOMAIN parts : EndpointsOf(k) \subseteq 1..Len(parts)
<1> DEFINE L == Len(parts)
<1>1. /\ L \in Nat /\ DOMAIN parts = 1..L /\ DOMAIN parts' = 1..L + 1 /\ Len(parts') = L + 1
      /\ \A k \in 1..L : parts'[k] = parts[k]
      /\ parts'[L + 1].type = type
  BY InterfacesGrow
<1> HIDE DEF L
<1>2. ASSUME NEW k \in 1..L PROVE EndpointsOf(k) \subseteq 1..L
  BY <1>1, <1>2 DEF EndpointsOf, L
<1>3. ASSUME NEW k \in {L + 1} PROVE EndpointsOf(k)' = {}
  <2>1. k + 1..L + 1 = {}
    BY <1>1, <1>3
  <2> QED BY <1>1, <2>1 DEF EndpointsOf
<1>4. ASSUME NEW k \in 1..L, parts[k].type = INTERFACE
      PROVE  EndpointsOf(k)' = IF type = ENDPOINT /\ LastInterface(k)
                               THEN EndpointsOf(k) \cup {L + 1} ELSE EndpointsOf(k)
  <2>1. ASSUME NEW m \in k + 1..L PROVE m \in EndpointsOf(k)' <=> m \in EndpointsOf(k)
    <3>1. m \in 1..L /\ m \in k + 1..L + 1 /\ \A l \in k + 1..m : l \in 1..L
      BY <1>1, <2>1
    <3> QED BY <1>1, <2>1, <3>1 DEF EndpointsOf, L
  <2>2. ASSUME NEW m \in {L + 1}
        PROVE  m \in EndpointsOf(k)' <=> type = ENDPOINT /\ LastInterface(k)
    <3>1. m = L + 1 /\ m \in k + 1..L + 1
      BY <1>1, <2>2
    <3>2. type = ENDPOINT => type # INTERFACE
      BY DEF ENDPOINT, INTERFACE
    <3>3. \A l : l \in k + 1..m <=> l \in k + 1..L \/ l = L + 1
      BY <1>1, <3>1
    <3>4. \A l \in k + 1..L : parts'[l].type = parts[l].type
      BY <1>1
    <3> QED BY <1>1, <1>4, <3>1, <3>2, <3>3, <3>4 DEF EndpointsOf, LastInterface, L
  <2>3. \A m : m \in EndpointsOf(k)' => m \in k + 1..L \/ m = L + 1
    BY <1>1 DEF EndpointsOf
  <2>4. \A m : m \in EndpointsOf(k) => m \in k + 1..L
    BY <1>1 DEF EndpointsOf, L
  <2>5. L + 1 \notin k + 1..L
    BY <1>1
  <2>6. \A m : m \in EndpointsOf(k)' <=>
                m \in EndpointsOf(k) \/ (m = L + 1 /\ type = ENDPOINT /\ LastInterface(k))
    BY <2>1, <2>2, <2>3, <2>4, <2>5
  <2>7. CASE type = ENDPOINT /\ LastInterface(k)
    BY <2>6, <2>7
  <2>8. CASE ~(type = ENDPOINT /\ LastInterface(k))
    BY <2>6, <2>8
  <2> QED BY <2>7, <2>8
<1> QED BY <1>1, <1>2, <1>3, <1>4 DEF L

LEMMA GrowKeepsOwners ==
    ASSUME WriterTypeOK, EndpointsInOwnClass, NEW b, NEW type \in Types, NEW alt \in {0, 1},
           NEW n \in Nat, Grows(b, type, alt, n),
           type = ENDPOINT =>
               \E i \in DOMAIN parts : LastInterface(i) /\ parts[i].cls = cls
    PROVE  EndpointsInOwnClass'
<1> DEFINE L == Len(parts)
<1>1. /\ L \in Nat /\ DOMAIN parts = 1..L /\ DOMAIN parts' = 1..L + 1
      /\ \A k \in 1..L : parts'[k] = parts[k]
      /\ parts'[L + 1].cls = cls
  BY InterfacesGrow
<1>2. /\ \A k \in DOMAIN parts :
            parts[k].type = INTERFACE =>
                EndpointsOf(k)' = IF type = ENDPOINT /\ LastInterface(k)
                                  THEN EndpointsOf(k) \cup {L + 1} ELSE EndpointsOf(k)
      /\ \A k \in {L + 1} : EndpointsOf(k)' = {}
      /\ \A k \in DOMAIN parts : EndpointsOf(k) \subseteq 1..L
  BY EndpointsGrow
<1> HIDE DEF L
<1>3. ASSUME NEW k \in 1..L + 1, NEW m \in 1..L + 1,
             parts'[k].type = INTERFACE, m \in EndpointsOf(k)'
      PROVE  parts'[m].cls = parts'[k].cls
  <2>1. k \in 1..L /\ parts'[k] = parts[k]
    BY <1>1, <1>2, <1>3
  <2>2. CASE m \in EndpointsOf(k)
    <3>1. m \in 1..L /\ parts[m].cls = parts[k].cls
      BY <1>1, <1>2, <1>3, <2>1, <2>2 DEF EndpointsInOwnClass
    <3> QED BY <1>1, <2>1, <3>1
  <2>3. CASE m \notin EndpointsOf(k)
    <3>1. type = ENDPOINT /\ LastInterface(k) /\ m = L + 1
      BY <1>1, <1>2, <1>3, <2>1, <2>3
    <3>2. PICK i \in 1..L : LastInterface(i) /\ parts[i].cls = cls
      BY <1>1, <3>1
    <3>3. ~(k \in i + 1..L) /\ ~(i \in k + 1..L)
      BY <3>1, <3>2 DEF LastInterface, L
    <3>4. i = k
      BY <1>1, <2>1, <3>3
    <3> QED BY <1>1, <2>1, <3>1, <3>2, <3>4
  <2> QED BY <2>2, <2>3
<1> QED BY <1>1, <1>3 DEF EndpointsInOwnClass

LEMMA OwnersStep ==
    WriterTypeOK /\ LayoutInv /\ EndpointsInOwnClass /\ [WriterNext]_vars => EndpointsInOwnClass'
<1> SUFFICES ASSUME WriterTypeOK, LayoutInv, EndpointsInOwnClass, [WriterNext]_vars
             PROVE  EndpointsInOwnClass'
  OBVIOUS
<1>1. ASSUME parts' = parts PROVE EndpointsInOwnClass'
  BY <1>1 DEF EndpointsInOwnClass, EndpointsOf
<1>2. ASSUME NEW n \in Nat, Begins(n) PROVE EndpointsInOwnClass'
  <2>1. Grows(buf, doc, 0, n)
    BY <1>2 DEF Begins
  <2>2. doc \in Types /\ doc # ENDPOINT
    BY TypesAreBytes DEF WriterTypeOK, Documents, DEVICE, CONFIGURATION, STRING_DESCRIPTOR, BOS,
                         ENDPOINT
  <2> QED BY <1>2, <2>1, <2>2, GrowKeepsOwners
<1>3. ASSUME NEW b \in Buffers(size), NEW type \in Types, NEW alt \in {0, 1}, NEW n \in Nat,
             Continues(b, type, alt, n)
      PROVE  EndpointsInOwnClass'
  <2>1. Grows(b, type, alt, n) /\ Marked
    BY <1>3, ContinuedBuffer DEF Continues
  <2>2. type = ENDPOINT => num_endpoints_mark # None
    BY <1>3 DEF Continues, AddsEndpoint, AddsOther, INTERFACE, ENDPOINT, CAPABILITY, IAD, SPECIFIC
  <2>3. type = ENDPOINT => \E i \in DOMAIN parts : LastInterface(i) /\ parts[i].cls = cls
    BY <2>1, <2>2 DEF Marked
  <2> QED BY <1>3, <2>1, <2>3, GrowKeepsOwners
<1>4. Fails \/ End \/ NextClass \/ UNCHANGED vars => parts' = parts
  BY DEF Fails, End, NextClass, vars
<1> QED BY <1>1, <1>2, <1>3, <1>4, StepCases

LEMMA WriterStructure == WriterSpec => [](WriterTypeOK /\ LayoutInv /\ EndpointsInOwnClass)
<1>1. WriterInit => EndpointsInOwnClass
  BY EmptySeq DEF WriterInit, EndpointsInOwnClass
<1> QED BY <1>1, InitTypes, TypesStep, InitLayout, LayoutStep, OwnersStep, PTL DEF WriterSpec

-----------------------------------------------------------------------------
(* The counters agree with what is counted. *)

LEMMA Counts ==
    ASSUME WriterTypeOK
    PROVE  /\ \A type, alts : Count(type, alts) \in Nat
           /\ \A k \in DOMAIN parts :
                 IsFiniteSet(EndpointsOf(k)) /\ Cardinality(EndpointsOf(k)) \in Nat
<1>1. Len(parts) \in Nat /\ DOMAIN parts = 1..Len(parts)
  BY PartType
<1>2. \A i, j \in Nat : IsFiniteSet(i..j)
  BY FS_Interval
<1>3. ASSUME NEW type, NEW alts PROVE Count(type, alts) \in Nat
  <2>1. {k \in DOMAIN parts : parts[k].type = type /\ parts[k].alt \in alts}
            \in SUBSET (1..Len(parts))
    BY <1>1
  <2>2. IsFiniteSet({k \in DOMAIN parts : parts[k].type = type /\ parts[k].alt \in alts})
    BY <1>1, <1>2, <2>1, FS_Subset
  <2> QED BY <2>2, FS_CardinalityType DEF Count
<1>4. ASSUME NEW k \in DOMAIN parts
      PROVE  IsFiniteSet(EndpointsOf(k)) /\ Cardinality(EndpointsOf(k)) \in Nat
  <2>1. k + 1 \in Nat /\ EndpointsOf(k) \in SUBSET (k + 1..Len(parts))
    BY <1>1 DEF EndpointsOf
  <2>2. IsFiniteSet(EndpointsOf(k))
    BY <1>1, <1>2, <2>1, FS_Subset
  <2> QED BY <2>2, FS_CardinalityType
<1> QED BY <1>3, <1>4

(* One more part is counted once, or not at all. *)
LEMMA CountGrows ==
    ASSUME WriterTypeOK, NEW b, NEW type \in Types, NEW alt \in {0, 1}, NEW n \in Nat,
           Grows(b, type, alt, n), NEW t, NEW alts
    PROVE  Count(t, alts)' = IF type = t /\ alt \in alts
                             THEN Count(t, alts) + 1 ELSE Count(t, alts)
<1> DEFINE L == Len(parts)
           S == {k \in DOMAIN parts : parts[k].type = t /\ parts[k].alt \in alts}
           T == {k \in DOMAIN parts' : parts'[k].type = t /\ parts'[k].alt \in alts}
<1>1. /\ L \in Nat /\ DOMAIN parts = 1..L /\ DOMAIN parts' = 1..L + 1
      /\ \A k \in 1..L : parts'[k] = parts[k]
      /\ parts'[L + 1].type = type /\ parts'[L + 1].alt = alt
  BY InterfacesGrow
<1>2. Count(t, alts) = Cardinality(S) /\ Count(t, alts)' = Cardinality(T)
  BY DEF Count
<1>3. L + 1 \notin S
  BY <1>1
<1>4. IsFiniteSet(S)
  <2>1. S \in SUBSET (1..L) /\ IsFiniteSet(1..L)
    BY <1>1, FS_Interval
  <2> QED BY <2>1, FS_Subset
<1>5. T = IF type = t /\ alt \in alts THEN S \cup {L + 1} ELSE S
  <2>1. \A k : k \in 1..L + 1 <=> k \in 1..L \/ k = L + 1
    BY <1>1
  <2> QED BY <1>1, <2>1
<1> HIDE DEF S, T
<1> QED BY <1>2, <1>3, <1>4, <1>5, FS_AddElement

(* Counted descriptors have at least three bytes, so there are few of them. *)
LEMMA GrowKeepsBound ==
    ASSUME WriterTypeOK, CountBound, NEW b, NEW type \in Types, NEW alt \in {0, 1},
           NEW n \in Nat, Grows(b, type, alt, n),
           type \in {INTERFACE, ENDPOINT, CAPABILITY} => n > 0
    PROVE  CountBound'
<1> DEFINE L == Len(parts)
<1>1. /\ L \in Nat /\ DOMAIN parts = 1..L /\ DOMAIN parts' = 1..L + 1
      /\ \A k \in 1..L : parts'[k] = parts[k]
  BY InterfacesGrow
<1>2. position \in Nat /\ position' = position + n + 2
  BY PartType DEF Grows
<1>3. ASSUME NEW t \in {INTERFACE, CAPABILITY}, 3 * Count(t, {0}) <= position
      PROVE  3 * Count(t, {0})' <= position'
  <2>1. Count(t, {0}) \in Nat
    BY Counts
  <2>2. Count(t, {0})' = IF type = t /\ alt \in {0} THEN Count(t, {0}) + 1 ELSE Count(t, {0})
    BY CountGrows
  <2>3. type = t => n > 0
    OBVIOUS
  <2> QED BY <1>2, <1>3, <2>1, <2>2, <2>3
<1>4. /\ \A k \in DOMAIN parts :
            parts[k].type = INTERFACE =>
                EndpointsOf(k)' = IF type = ENDPOINT /\ LastInterface(k)
                                  THEN EndpointsOf(k) \cup {L + 1} ELSE EndpointsOf(k)
      /\ \A k \in {L + 1} : EndpointsOf(k)' = {}
      /\ \A k \in DOMAIN parts : EndpointsOf(k) \subseteq 1..L
  BY EndpointsGrow
<1>5. ASSUME NEW k \in 1..L + 1, parts'[k].type = INTERFACE
      PROVE  3 * Cardinality(EndpointsOf(k)') <= position'
  <2>1. CASE k = L + 1
    <3>1. EndpointsOf(k)' = {}
      BY <1>4, <2>1
    <3> QED BY <1>2, <3>1, FS_EmptySet
  <2>2. CASE k \in 1..L
    <3> DEFINE E == EndpointsOf(k)
               F == EndpointsOf(k)'
    <3>1. F = (IF type = ENDPOINT /\ LastInterface(k) THEN E \cup {L + 1} ELSE E)
      BY <1>1, <1>5, <1>4, <2>2
    <3>2. 3 * Cardinality(E) <= position
      BY <1>1, <1>5, <2>2 DEF CountBound
    <3>3. IsFiniteSet(E) /\ Cardinality(E) \in Nat
      BY <1>1, <2>2, Counts
    <3> HIDE DEF E, F
    <3>4. CASE F = E
      BY <1>2, <3>2, <3>3, <3>4 DEF F
    <3>5. CASE type = ENDPOINT /\ F = E \cup {L + 1}
      <4>1. Cardinality(F) = Cardinality(E) \/ Cardinality(F) = Cardinality(E) + 1
        BY <3>3, <3>5, FS_AddElement
      <4>2. n > 0
        BY <3>5
      <4> QED BY <1>2, <3>2, <3>3, <4>1, <4>2 DEF F
    <3> QED BY <3>1, <3>4, <3>5
  <2> QED BY <1>1, <2>1, <2>2
<1> QED BY <1>1, <1>3, <1>5 DEF CountBound

LEMMA BytesCountAll ==
    ASSUME WriterTypeOK', BytesCount, NEW x \in Nat, 3 * x <= position'
    PROVE  x % ByteSize = x
<1>1. position' \in Nat /\ size' \in Nat /\ position' <= size' /\ size' < 3 * ByteSize
  BY Constants DEF WriterTypeOK, BytesCount
<1>2. x < ByteSize
  BY <1>1, Constants
<1> QED BY <1>2, Remainder

LEMMA BeginKeepsCounters ==
    ASSUME WriterTypeOK, LayoutInv, CountBound, NEW n \in Nat, Begins(n)
    PROVE  CountBound' /\ Counters'
<1>1. /\ position = 0 /\ parts = <<>> /\ Len(parts) = 0 /\ Layout
      /\ \A j \in 2..n + 1 : buf'[j] = 0
  BY BeginKeepsLayout DEF LayoutInv
<1>2. Grows(buf, doc, 0, n) /\ doc' = doc /\ doc \in Types /\ 0 \in {0, 1}
  BY TypesAreBytes DEF Begins, Grows, environment, WriterTypeOK
<1>3. doc \notin {INTERFACE, ENDPOINT, CAPABILITY}
  BY DEF WriterTypeOK, Documents, DEVICE, CONFIGURATION, STRING_DESCRIPTOR, BOS, INTERFACE,
         ENDPOINT, CAPABILITY
<1>4. CountBound'
  BY <1>2, <1>3, GrowKeepsBound
<1>5. doc \in {CONFIGURATION, BOS} => buf'[4] = 0
  <2>1. doc \in {CONFIGURATION, BOS} => n >= 3
    BY DEF Begins
  <2> QED BY <1>1, <2>1
<1>6. ASSUME NEW t \in {INTERFACE, CAPABILITY} PROVE Count(t, {0})' = 0
  <2>1. Count(t, {0})' = Count(t, {0})
    BY <1>2, <1>3, CountGrows
  <2>2. {k \in DOMAIN parts : parts[k].type = t /\ parts[k].alt \in {0}} = {}
    BY <1>1, EmptySeq
  <2> QED BY <2>1, <2>2, FS_EmptySet DEF Count
<1>7. ASSUME NEW k \in DOMAIN parts' PROVE parts'[k].type # INTERFACE
  <2>1. k = Len(parts) + 1 /\ parts'[Len(parts) + 1].type = doc
    BY <1>1, <1>2, InterfacesGrow
  <2> QED BY <1>3, <2>1
<1> QED BY <1>2, <1>4, <1>5, <1>6, <1>7 DEF Counters

LEMMA ContinueKeepsCounters ==
    ASSUME WriterTypeOK, WriterTypeOK', LayoutInv, CountBound, Counters, BytesCount,
           NEW b \in Buffers(size), NEW type \in Types, NEW alt \in {0, 1}, NEW n \in Nat,
           Continues(b, type, alt, n)
    PROVE  CountBound' /\ Counters'
<1> DEFINE L == Len(parts)
<1> USE DEF INTERFACE, ENDPOINT, CAPABILITY, IAD, SPECIFIC
<1>1. /\ HeadersIn(b) /\ parts # <<>> /\ Marked /\ HeadersIn(buf) /\ Layout
      /\ (type = INTERFACE => n = 7)
  BY ContinuedBuffer
<1>2. Grows(b, type, alt, n) /\ doc' = doc /\ doc \in {CONFIGURATION, BOS}
  <2>1. Grows(b, type, alt, n) /\ pc # "done"
    BY DEF Continues
  <2> QED BY <1>1, <2>1 DEF Grows, environment, Marked
<1>3. type \in {INTERFACE, ENDPOINT, CAPABILITY} => n > 0
  BY DEF Continues, AddsInterface, AddsEndpoint, AddsCapability, AddsOther
<1>4. CountBound'
  BY <1>2, <1>3, GrowKeepsBound
<1>5. /\ \A j \in 0..position - 1 : buf'[j] = b[j]
      /\ \A j \in position + 2..position + n + 1 : buf'[j] = 0
  BY <1>1, <1>2, HeadersGrow
<1>6. /\ \A m : IsCounter(m) => buf'[m] = b[m] /\ m \in 0..size - 1
      /\ IsCounter(4)
  <2>1. \A m : IsCounter(m) => m \in 4..position - 1
    BY <1>1, CountersApart
  <2>2. position \in Nat /\ size \in Nat /\ position <= size
    BY PartType
  <2> QED BY <1>1, <1>2, <1>5, <2>1, <2>2 DEF IsCounter
<1>7. /\ L \in Nat /\ DOMAIN parts = 1..L /\ DOMAIN parts' = 1..L + 1
      /\ \A k \in 1..L : parts'[k] = parts[k]
      /\ parts'[L + 1].at = position /\ parts'[L + 1].type = type
  BY <1>2, InterfacesGrow
<1>8. /\ \A k \in DOMAIN parts :
            parts[k].type = INTERFACE =>
                EndpointsOf(k)' = IF type = ENDPOINT /\ LastInterface(k)
                                  THEN EndpointsOf(k) \cup {L + 1} ELSE EndpointsOf(k)
      /\ \A k \in {L + 1} : EndpointsOf(k)' = {}
      /\ \A k \in DOMAIN parts : EndpointsOf(k) \subseteq 1..L
  BY <1>2, EndpointsGrow
<1> HIDE DEF L
(* The byte at 4. *)
<1>9. ASSUME NEW t \in {INTERFACE, CAPABILITY}, buf[4] = Count(t, {0}),
             3 * Count(t, {0})' <= position',
             b[4] = IF type = t /\ alt = 0 THEN (buf[4] + 1) % ByteSize ELSE buf[4]
      PROVE  buf'[4] = Count(t, {0})'
  <2>1. buf'[4] = b[4] /\ Count(t, {0}) \in Nat
    BY <1>6, Counts
  <2>2. Count(t, {0})' = IF type = t /\ alt \in {0} THEN Count(t, {0}) + 1 ELSE Count(t, {0})
    <3>1. Grows(b, type, alt, n)
      BY <1>2
    <3> QED BY <3>1, CountGrows
  <2>3. CASE type = t /\ alt = 0
    <3>1. Count(t, {0})' = Count(t, {0}) + 1 /\ Count(t, {0}) + 1 \in Nat
      BY <2>1, <2>2, <2>3
    <3>2. (Count(t, {0}) + 1) % ByteSize = Count(t, {0}) + 1
      BY <1>9, <3>1, BytesCountAll
    <3> QED BY <1>9, <2>1, <2>3, <3>1, <3>2
  <2>4. CASE ~(type = t /\ alt = 0)
    BY <1>9, <2>1, <2>2, <2>4
  <2> QED BY <2>3, <2>4
<1>10. \A m \in 0..size - 1 :
           /\ IsCounter(m) => Counted(buf, m)[m] = (buf[m] + 1) % ByteSize
           /\ \A j \in 0..size - 1 : IsCounter(m) /\ j # m => Counted(buf, m)[j] = buf[j]
  BY <1>1, CountedKeeps
<1>11. doc = BOS => buf'[4] = Count(CAPABILITY, {0})'
  <2> SUFFICES ASSUME doc = BOS PROVE buf'[4] = Count(CAPABILITY, {0})'
    OBVIOUS
  <2>1. type = CAPABILITY /\ alt = 0 /\ b = Counted(buf, 4)
    BY DEF Continues, AddsInterface, AddsEndpoint, AddsCapability, AddsOther, BOS, CONFIGURATION
  <2>2. b[4] = (buf[4] + 1) % ByteSize
    BY <1>6, <1>10, <2>1
  <2>3. buf[4] = Count(CAPABILITY, {0}) /\ 3 * Count(CAPABILITY, {0})' <= position'
    BY <1>4 DEF Counters, CountBound
  <2> QED BY <1>9, <2>1, <2>2, <2>3
<1>12. ASSUME doc = CONFIGURATION PROVE buf'[4] = Count(INTERFACE, {0})'
  <2>1. b[4] = IF type = INTERFACE /\ alt = 0 THEN (buf[4] + 1) % ByteSize ELSE buf[4]
    <3>1. CASE type = INTERFACE
      BY <1>6, <1>10, <3>1 DEF Continues, AddsInterface, AddsOther
    <3>2. CASE type = ENDPOINT
      <4>1. num_endpoints_mark # None /\ b = Counted(buf, num_endpoints_mark)
        BY <3>2 DEF Continues, AddsEndpoint, AddsOther
      <4>2. IsCounter(num_endpoints_mark) /\ num_endpoints_mark # 4
        BY <1>1, <4>1, CountersApart DEF Marked, LastInterface
      <4> QED BY <1>6, <1>10, <3>2, <4>1, <4>2
    <3>3. CASE type \notin {INTERFACE, ENDPOINT}
      BY <1>12, <3>3 DEF Continues, AddsCapability, AddsOther, BOS, CONFIGURATION
    <3> QED BY <3>1, <3>2, <3>3
  <2>2. buf[4] = Count(INTERFACE, {0}) /\ 3 * Count(INTERFACE, {0})' <= position'
    BY <1>4, <1>12 DEF Counters, CountBound
  <2> QED BY <1>9, <2>1, <2>2
(* The bytes of the interfaces. *)
<1>13. ASSUME doc = CONFIGURATION, NEW k \in 1..L + 1, parts'[k].type = INTERFACE
       PROVE  buf'[parts'[k].at + 4] = Cardinality(EndpointsOf(k)')
  <2>1. CASE k = L + 1
    <3>1. EndpointsOf(k)' = {} /\ parts'[k].at = position /\ n = 7
      BY <1>1, <1>7, <1>8, <1>13, <2>1
    <3>2. position + 4 \in position + 2..position + n + 1
      BY <3>1, PartType
    <3> QED BY <1>5, <3>1, <3>2, FS_EmptySet
  <2>2. CASE k \in 1..L
    <3> DEFINE E == EndpointsOf(k)
               F == EndpointsOf(k)'
               m == parts[k].at + 4
    <3>1. parts[k].type = INTERFACE /\ IsCounter(m) /\ m # 4 /\ parts'[k].at + 4 = m
      BY <1>1, <1>7, <1>13, <2>2, CountersApart
    <3>2. /\ F = (IF type = ENDPOINT /\ LastInterface(k) THEN E \cup {L + 1} ELSE E)
          /\ IsFiniteSet(E) /\ Cardinality(E) \in Nat /\ L + 1 \notin E
      BY <1>7, <1>8, <2>2, <3>1, Counts
    <3>3. buf[m] = Cardinality(E)
      BY <1>7, <1>13, <2>2, <3>1 DEF Counters
    <3>4. 3 * Cardinality(F) <= position'
      BY <1>4, <1>7, <1>13 DEF CountBound
    <3>5. b[m] = IF type = ENDPOINT /\ LastInterface(k)
                 THEN (buf[m] + 1) % ByteSize ELSE buf[m]
      <4>1. m \in 0..size - 1 /\ 4 \in 0..size - 1
        BY <1>6, <3>1
      <4>2. CASE type = ENDPOINT
        <5>1. num_endpoints_mark # None /\ b = Counted(buf, num_endpoints_mark)
          BY <4>2 DEF Continues, AddsEndpoint, AddsOther
        <5>2. PICK i \in DOMAIN parts : LastInterface(i) /\ num_endpoints_mark = parts[i].at + 4
          BY <1>1, <5>1 DEF Marked
        <5>3. IsCounter(parts[i].at + 4) /\ parts[i].at + 4 \in 0..size - 1
          BY <1>1, <1>6, <5>2, CountersApart DEF LastInterface
        <5>4. CASE i = k
          BY <1>10, <3>1, <4>1, <4>2, <5>1, <5>2, <5>4
        <5>5. CASE i # k
          <6>1. ~LastInterface(k)
            <7>1. ~(LastInterface(k) /\ k \in i + 1..L) /\ ~(LastInterface(k) /\ i \in k + 1..L)
              BY <3>1, <5>2 DEF LastInterface, L
            <7> QED BY <1>7, <2>2, <5>2, <5>5, <7>1
          <6>2. parts[i].at + 4 # m
            BY <1>1, <1>7, <2>2, <3>1, <5>2, <5>5, CountersApart
          <6> QED BY <1>10, <4>1, <4>2, <5>1, <5>2, <5>3, <6>1, <6>2
        <5> QED BY <5>4, <5>5
      <4>3. CASE type # ENDPOINT
        <5>1. b = buf \/ b = Counted(buf, 4)
          BY <4>3 DEF Continues, AddsInterface, AddsCapability, AddsOther
        <5> QED BY <1>6, <1>10, <3>1, <4>1, <4>3, <5>1
      <4> QED BY <4>2, <4>3
    <3>6. buf'[m] = b[m]
      BY <1>6, <3>1
    <3> HIDE DEF E, F, m
    <3>7. CASE type = ENDPOINT /\ LastInterface(k)
      <4>1. Cardinality(F) = Cardinality(E) + 1 /\ Cardinality(F) \in Nat
        BY <3>2, <3>7, FS_AddElement
      <4>2. Cardinality(F) % ByteSize = Cardinality(F)
        BY <3>4, <4>1, BytesCountAll
      <4>3. buf'[m] = Cardinality(F)
        BY <3>3, <3>5, <3>6, <3>7, <4>1, <4>2
      <4> QED BY <3>1, <4>3 DEF F
    <3>8. CASE ~(type = ENDPOINT /\ LastInterface(k))
      <4>1. buf'[m] = Cardinality(F)
        BY <3>2, <3>3, <3>5, <3>6, <3>8
      <4> QED BY <3>1, <4>1 DEF F
    <3> QED BY <3>7, <3>8
  <2> QED BY <1>7, <2>1, <2>2
<1> QED BY <1>2, <1>4, <1>7, <1>11, <1>12, <1>13 DEF Counters

LEMMA InitCounters == WriterInit => CounterInv
<1> SUFFICES ASSUME WriterInit PROVE CounterInv
  OBVIOUS
<1>1. parts = <<>> /\ position = 0 /\ ~Written /\ DOMAIN parts = {}
  BY EmptySeq DEF WriterInit, Written
<1>2. ASSUME NEW t PROVE Count(t, {0}) = 0
  <2>1. {k \in DOMAIN parts : parts[k].type = t /\ parts[k].alt \in {0}} = {}
    BY <1>1
  <2> QED BY <2>1, FS_EmptySet DEF Count
<1> QED BY <1>1, <1>2 DEF CounterInv, CountBound

LEMMA CountersStep ==
    ASSUME BytesCount, WriterTypeOK, WriterTypeOK', LayoutInv, CounterInv, [WriterNext]_vars
    PROVE  CounterInv'
<1>1. CountBound /\ (Written => Counters)
  BY DEF CounterInv
<1>2. ASSUME parts' = parts, position' = position PROVE CountBound'
  BY <1>1, <1>2 DEF CountBound, Count, EndpointsOf
<1>3. CASE Fails
  <2>1. ~Written'
    BY <1>3 DEF Fails, Written
  <2> QED BY <1>2, <1>3, <2>1 DEF Fails, CounterInv
<1>4. ASSUME NEW n \in Nat, Begins(n) PROVE CounterInv'
  BY <1>1, <1>4, BeginKeepsCounters DEF CounterInv
<1>5. ASSUME NEW b \in Buffers(size), NEW type \in Types, NEW alt \in {0, 1}, NEW n \in Nat,
             Continues(b, type, alt, n)
      PROVE  CounterInv'
  <2>1. Counters
    BY <1>1, <1>5 DEF Continues, Written
  <2> QED BY <1>1, <1>5, <2>1, ContinueKeepsCounters DEF CounterInv
<1>6. CASE End
  <2>1. /\ doc \in {CONFIGURATION, BOS} /\ parts # <<>> /\ position \in 5..size /\ Layout
        /\ \A j \in 4..size - 1 : buf'[j] = buf[j]
    BY <1>6, EndKeepsLayout DEF LayoutInv
  <2>2. UNCHANGED <<parts, position, doc>> /\ Counters
    BY <1>1, <1>6 DEF End, environment, Written
  <2>3. ASSUME NEW m, IsCounter(m) PROVE buf'[m] = buf[m]
    <3>1. m \in 4..position - 1 /\ position \in Nat /\ size \in Nat /\ position <= size
      BY <2>1, <2>3, CountersApart, PartType
    <3> QED BY <2>1, <3>1
  <2>4. IsCounter(4) /\ \A k \in DOMAIN parts :
                            parts[k].type = INTERFACE => IsCounter(parts[k].at + 4)
    BY <2>1 DEF IsCounter
  <2>5. Counters'
    BY <2>2, <2>3, <2>4 DEF Counters, Count, EndpointsOf
  <2> QED BY <1>2, <2>2, <2>5 DEF CounterInv
<1>7. CASE NextClass \/ UNCHANGED vars
  <2>1. UNCHANGED <<parts, position, doc, buf, pc>>
    BY <1>7 DEF NextClass, environment, vars
  <2>2. Written' => Counters'
    BY <1>1, <2>1 DEF Counters, Count, EndpointsOf, Written
  <2> QED BY <1>2, <2>1, <2>2 DEF CounterInv
<1> QED BY <1>3, <1>4, <1>5, <1>6, <1>7, StepCases

-----------------------------------------------------------------------------
(* The lengths are those of what was written. *)

LEMMA GrowKeepsShort ==
    ASSUME WriterTypeOK, Layout, Short, NEW b \in Buffers(size), NEW type \in Types,
           NEW alt \in {0, 1}, NEW n \in Nat, Grows(b, type, alt, n),
           type = INTERFACE => n >= 7,
           parts = <<>> => type = doc /\ (doc \in {CONFIGURATION, BOS} => n >= 3),
           n + 2 < ByteSize
    PROVE  Short'
<1> DEFINE L == Len(parts)
<1>1. /\ L \in Nat /\ DOMAIN parts = 1..L /\ DOMAIN parts' = 1..L + 1
      /\ \A k \in 1..L : parts'[k] = parts[k]
      /\ parts'[L + 1].at = position
  BY InterfacesGrow
<1>2. EndAt(parts', position', L + 1) = position' /\ \A k \in DOMAIN parts : EndOf(k)' = EndOf(k)
  BY LayoutGrows
<1>3. position \in Nat /\ position' = position + n + 2
  BY PartType DEF Grows
<1> HIDE DEF L
<1>4. ASSUME NEW k \in 1..L + 1 PROVE EndAt(parts', position', k) - parts'[k].at < ByteSize
  <2>1. CASE k = L + 1
    <3>1. EndAt(parts', position', k) = position' /\ parts'[k].at = position
      BY <1>1, <1>2, <2>1
    <3>2. position' - position = n + 2
      BY <1>3
    <3> QED BY <3>1, <3>2
  <2>2. CASE k \in 1..L
    BY <1>1, <1>2, <2>2 DEF Short, EndOf
  <2> QED BY <1>1, <2>1, <2>2
<1> QED BY <1>1, <1>4 DEF Short, EndOf

LEMMA LengthStep ==
    ASSUME LengthsFit, WriterTypeOK, LayoutInv, LengthInv, [WriterNext]_vars
    PROVE  LengthInv'
<1>1. Short /\ Layout
  BY DEF LengthInv, LayoutInv
<1>2. ASSUME parts' = parts, position' = position PROVE Short'
  BY <1>1, <1>2 DEF Short, EndOf, EndAt
<1>3. CASE Fails
  BY <1>2, <1>3 DEF Fails, LengthInv
<1>4. ASSUME NEW n \in Nat, Begins(n) PROVE LengthInv'
  <2>1. Grows(buf, doc, 0, n) /\ doc' = doc
    BY <1>4 DEF Begins, Grows, environment
  <2>2. n + 2 < ByteSize /\ (doc \in {CONFIGURATION, BOS} => n >= 3)
    BY <1>4 DEF Begins, LengthsFit
  <2>3. doc \in Types /\ doc # INTERFACE /\ buf \in Buffers(size)
    BY TypesAreBytes DEF WriterTypeOK, Buffers, Documents, DEVICE, CONFIGURATION,
                         STRING_DESCRIPTOR, BOS, INTERFACE
  <2>4. Short'
    BY <1>1, <2>1, <2>2, <2>3, GrowKeepsShort
  <2>5. pc' = "done" => doc \notin {CONFIGURATION, BOS}
    BY <1>4 DEF Begins
  <2> QED BY <2>1, <2>4, <2>5 DEF LengthInv
<1>5. ASSUME NEW b \in Buffers(size), NEW type \in Types, NEW alt \in {0, 1}, NEW n \in Nat,
             Continues(b, type, alt, n)
      PROVE  LengthInv'
  <2>1. /\ Grows(b, type, alt, n) /\ parts # <<>> /\ pc' = "classes"
        /\ (type = INTERFACE => n = 7)
    <3>1. parts # <<>> /\ (type = INTERFACE => n = 7)
      BY <1>5, ContinuedBuffer
    <3> QED BY <1>5, <3>1 DEF Continues
  <2>2. n + 2 < ByteSize
    BY <1>5, Constants DEF Continues, AddsInterface, AddsEndpoint, AddsCapability, AddsOther,
                           LengthsFit
  <2>3. Short'
    BY <1>1, <2>1, <2>2, GrowKeepsShort
  <2> QED BY <2>1, <2>3 DEF LengthInv
<1>6. CASE End
  <2>1. /\ position \in Nat /\ position < ByteSize * ByteSize
        /\ buf'[2] = position % ByteSize /\ buf'[3] = (position \div ByteSize) % ByteSize
    <3>1. position \in Nat /\ size \in Nat /\ position <= size /\ size < ByteSize * ByteSize
      BY PartType DEF LengthsFit, WriterTypeOK
    <3>2. ByteSize * ByteSize \in Nat
      BY Constants
    <3> QED BY <1>6, <3>1, <3>2, EndKeepsLayout
  <2>2. UNCHANGED <<parts, position, doc>>
    BY <1>6 DEF End, environment
  <2> QED BY <1>2, <2>1, <2>2, TwoBytes DEF LengthInv
<1>7. CASE NextClass \/ UNCHANGED vars
  <2>1. UNCHANGED <<parts, position, doc, buf, pc>>
    BY <1>7 DEF NextClass, environment, vars
  <2> QED BY <1>2, <2>1 DEF LengthInv
<1> QED BY <1>3, <1>4, <1>5, <1>6, <1>7, StepCases

(* What the host reads, from the layout and the lengths. *)
LEMMA HostReadsTheLayout ==
    WriterTypeOK /\ LayoutInv /\ LengthInv => HostReadsWhatWasWritten
<1> SUFFICES ASSUME WriterTypeOK, LayoutInv, LengthInv, pc = "done"
             PROVE  /\ ReadLength = position
                    /\ parts # <<>> /\ parts[1].at = 0
                    /\ \A k \in DOMAIN parts :
                          /\ buf[parts[k].at + 1] = parts[k].type
                          /\ parts[k].at + 2 <= FollowedAt(k)
                          /\ FollowedAt(k) = EndOf(k)
  BY DEF HostReadsWhatWasWritten, EndOf, EndAt
<1>1. Layout /\ HeadersIn(buf) /\ Marked /\ Short /\ parts # <<>> /\ parts[1].at = 0
  BY DEF LayoutInv, Written, Marked, Layout, LengthInv
<1>2. /\ Len(parts) \in Nat /\ DOMAIN parts = 1..Len(parts) /\ Len(parts) > 0
      /\ \A k \in DOMAIN parts : parts[k].at \in Nat /\ EndOf(k) \in Nat
  BY <1>1, PartType
<1>3. ASSUME NEW k \in DOMAIN parts
      PROVE  /\ buf[parts[k].at] = EndOf(k) - parts[k].at
             /\ buf[parts[k].at + 1] = parts[k].type
             /\ parts[k].at + 2 <= EndOf(k)
  <2>1. /\ parts[k].at + 2 <= EndOf(k) /\ EndOf(k) - parts[k].at < ByteSize
        /\ parts[k].at \in Nat /\ EndOf(k) \in Nat
    BY <1>1, <1>2 DEF Layout, Short
  <2>2. EndOf(k) - parts[k].at \in Nat
    BY <2>1
  <2>3. (EndOf(k) - parts[k].at) % ByteSize = EndOf(k) - parts[k].at
    BY <2>1, <2>2, Remainder
  <2> QED BY <1>1, <2>1, <2>3 DEF HeadersIn
<1>4. ASSUME NEW k \in DOMAIN parts PROVE FollowedAt(k) = EndOf(k)
  BY <1>2, <1>3 DEF FollowedAt
<1>5. ReadLength = position
  <2>1. CASE doc \in {CONFIGURATION, BOS}
    BY <2>1 DEF ReadLength, LengthInv
  <2>2. CASE doc \notin {CONFIGURATION, BOS}
    <3>1. Len(parts) = 1
      BY <1>1, <2>2 DEF Marked, WriterTypeOK, Documents
    <3>2. EndOf(1) = position /\ 1 \in DOMAIN parts
      BY <1>2, <3>1 DEF EndOf, EndAt
    <3>3. position \in Nat
      BY PartType
    <3> QED BY <1>1, <1>3, <2>2, <3>2, <3>3 DEF ReadLength
  <2> QED BY <2>1, <2>2
<1> QED BY <1>1, <1>3, <1>4, <1>5

-----------------------------------------------------------------------------
(* The theorems. *)

(* A document is never written beyond the end of the control buffer, and every
   counter that is still to be incremented lies in it, whatever the device and
   its classes write. *)
THEOREM WriterTypeCorrect == WriterSpec => []WriterTypeOK
BY TypeInvariant

(* An endpoint descriptor is refused when its class has no interface, so that it
   never becomes part of the interface of another class. *)
THEOREM EndpointsStayInClass == WriterSpec => []EndpointsInOwnClass
BY WriterStructure, PTL

(* The numbers of interfaces, endpoints and capabilities that the host reads are
   those of the descriptors that follow, as long as a byte can count what the
   control buffer holds. *)
THEOREM CountersAreRight ==
    ASSUME BytesCount
    PROVE  WriterSpec => []CountersAgree
<1>1. WriterTypeOK /\ LayoutInv /\ CounterInv /\ [WriterNext]_vars /\ WriterTypeOK' => CounterInv'
  BY CountersStep
<1>2. CounterInv => CountersAgree
  BY DEF CounterInv, CountersAgree, Counters, Written
<1> QED BY <1>1, <1>2, InitTypes, TypesStep, InitLayout, LayoutStep, InitCounters, PTL
        DEF WriterSpec

(* A host that follows the lengths in a finished document finds the descriptors
   that were written, in order, up to the total length and no further, as long
   as the lengths fit the bytes that give them. *)
THEOREM HostReadsTheDocument ==
    ASSUME LengthsFit
    PROVE  WriterSpec => []HostReadsWhatWasWritten
<1>1. WriterTypeOK /\ LayoutInv /\ LengthInv /\ [WriterNext]_vars => LengthInv'
  BY LengthStep
<1>2. WriterInit => LengthInv
  BY EmptySeq DEF WriterInit, LengthInv, Short
<1> QED BY <1>1, <1>2, InitTypes, TypesStep, InitLayout, LayoutStep, HostReadsTheLayout, PTL
        DEF WriterSpec
=============================================================================
