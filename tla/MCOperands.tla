------------------------------ MODULE MCOperands ------------------------------
(***************************************************************************)
(* Variables of integer, pointer, struct and slice types and of the        *)
(* pointers to them; a struct with a field of each kind.                   *)
(***************************************************************************)
EXTENDS Operands

MCLocals == {U8, I8, I32, U64, Pointer(I32), Pointer(Pointer(I32)), Struct, Pointer(Struct),
             Slice(I32), Pointer(Slice(I32))}
MCResults == {I8, Struct, Pointer(Struct), Slice(I32)}
MCFields == {I32, Pointer(I32), Pointer(Struct), Slice(I32)}
MCParams == {U8, I32, U64, Pointer(I32), Pointer(Struct)}
================================================================================
