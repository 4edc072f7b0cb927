------------------------------ MODULE MCFfiType ------------------------------
(* FfiType for TLC: platforms (64-bit Windows; LP64 with the types of       *)
(* another copy of ref; 32-bit Linux) and lengths of arrays.                *)
EXTENDS FfiType, TLC

LLP64    == [long |-> 4, pointer |-> 8, align |-> 8, ffi_arg |-> 8,
             copy |-> FALSE, types |-> {char, long}]
LP64Copy == [long |-> 8, pointer |-> 8, align |-> 8, ffi_arg |-> 8,
             copy |-> TRUE, types |-> {char, size_t}]
ILP32    == [long |-> 4, pointer |-> 4, align |-> 4, ffi_arg |-> 4,
             copy |-> FALSE, types |-> {char, longlong}]

LongAndCopy  == {LLP64, LP64Copy}
LongLongOn32 == {ILP32}

ArrayLengths == {<<>>, <<3>>, <<2, 3>>}
=============================================================================
