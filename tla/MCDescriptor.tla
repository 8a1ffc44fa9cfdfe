---------------------------- MODULE MCDescriptor ----------------------------
(* Instance of DescriptorWriter for TLC. *)
EXTENDS DescriptorWriter

(* A byte has 20 values, so descriptors reach their greatest length and the
   total length needs its second byte.  Data of 17 bytes gives the longest
   descriptor that a byte can describe, 19 bytes are refused. *)
SmallSizes == {1, 9, 17, 18, 34, 44}
SmallData == {1, 17, 19}
SmallStrings == {0, 3, 8}
=============================================================================
