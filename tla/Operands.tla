------------------------------- MODULE Operands -------------------------------
(***************************************************************************)
(* Expressions of a function body: the type analyze_expr gives each node   *)
(* and the LLVM value codegen_expr leaves for it.  Both walk the tree      *)
(* bottom up, so a tree is built here node by node on a stack, in          *)
(* postorder, and each node gets its type and its value at once.           *)
(*                                                                         *)
(* What codegen knows of a value is the instruction that made it: an       *)
(* "alloca" or a global, a "gep", or any "other".  Whether it stands for   *)
(* the value of the expression or for the address of the object is         *)
(* guessed from that instruction and from the form of the node.  Variables *)
(* are locals here: LLVM may fold the address of a part of a global, which *)
(* is then no instruction.                                                 *)
(***************************************************************************)
EXTENDS Integers, Sequences

CONSTANTS
    Locals,         \* the types of the variables in scope
    Results,        \* the types of the results of functions that can be called
    Fields,         \* the types of the fields of the one struct type
    Params,         \* the types of parameters, declared variables and results
    MaxNodes,       \* nodes of the largest expression
    Half            \* a byte of an index has 2 * Half patterns

U8 == <<"u8">>
I8 == <<"i8">>
I32 == <<"i32">>
U64 == <<"u64">>
Pointer(t) == <<"pointer", t>>
Slice(t) == <<"slice", t>>
Struct == <<"struct">>

ASSUME HalfAssumption == Half \in Nat \ {0}
ASSUME MaxNodesAssumption == MaxNodes \in Nat

VARIABLES
    stack,          \* the operands built and not yet used
    nodes,          \* the number of nodes built
    op,             \* the operation of the last step
    phase           \* "building"; "rejected" by the analysis, "failed" in codegen,
                    \* "invalid" for the verifier; "used"

vars == <<stack, nodes, op, phase>>

--------------------------------------------------------------------------------
(* type.c: the relations between types. *)

type_is_integer(t) == t \in {U8, I8, I32, U64}
type_is_pointer_like(t) == t[1] = "pointer"
IsSlice(t) == t[1] = "slice"
Base(t) == t[2]
Size(t) == IF t \in {U8, I8} THEN 1 ELSE IF t = I32 THEN 4
           ELSE IF t = U64 \/ type_is_pointer_like(t) THEN 8 ELSE 16
Width(t) == 8 * Size(t)
type_is_signed(t) == t \in {I8, I32}

type_equals(a, b) == a = b

\* Integers convert to integers of any size, pointers to pointers of any base.
type_can_assign_to(from, to) ==
    \/ type_equals(from, to)
    \/ type_is_integer(from) /\ type_is_integer(to)
    \/ type_is_pointer_like(from) /\ type_is_pointer_like(to)
    \/ IsSlice(from) /\ type_is_pointer_like(to) /\ type_equals(Base(from), Base(to))

--------------------------------------------------------------------------------
(* Operands. *)

\* form    the node: "ident", "lit", "call", "field", "index", "deref", "addr", ...
\* lvalue  codegen_is_lvalue, and is_lvalue_expr in the analysis
\* inst    the instruction that made the LLVM value: "alloca", "gep" or "other"
\* holds   what the LLVM value is: the "value", the "address" of the object, or "junk"
\* bits    the width of an integer value
\* pointer for a dereference, the operand it dereferences
\* plain   no step of the expression is one of the confusing forms below
\* exact   no comparison, shift or conversion without code is at its root
\* fat     a pointer for the analysis, the data and length of a slice for LLVM
Operand(form, lvalue, type, inst, holds) ==
    [form |-> form, lvalue |-> lvalue, type |-> type, inst |-> inst, holds |-> holds,
     bits |-> Width(type), pointer |-> <<>>, plain |-> TRUE, exact |-> TRUE, fat |-> FALSE]

\* A load through an LLVM value that should be the address of what is loaded.
Through(holds) == IF holds = "address" THEN "value" ELSE "junk"

\* A slip: a pointer is loaded whatever expression it comes from.
LoadsSlip(o) == o.inst \in {"alloca", "gep"}

\* codegen_load_if_needed: does it load?
Loads(o) ==
    IF type_is_pointer_like(o.type)
    THEN o.lvalue /\ o.inst \in {"alloca", "gep"}
    ELSE o.inst \in {"alloca", "gep"}

\* codegen_load_if_needed, codegen_load_rvalue: the operand as a consumer gets it.
codegen_load_if_needed(o) ==
    IF Loads(o)
    THEN [o EXCEPT !.inst = "other", !.holds = Through(@), !.bits = Width(o.type)]
    ELSE [o EXCEPT !.holds = IF @ = "address" THEN "junk" ELSE @]

Top == stack[Len(stack)]
Below == stack[Len(stack) - 1]
Replace(n, o) == stack' = Append(SubSeq(stack, 1, Len(stack) - n), o)

\* The holds of a result computed from operands: junk in, junk out.
Computed(os) == IF \A i \in DOMAIN os : os[i].holds = "value" THEN "value" ELSE "junk"
Plain(os) == \A i \in DOMAIN os : os[i].plain

\* An operation on the topmost operands: the analysis accepts it (typed), codegen
\* has code for it (coded), the instructions it emits are well typed (valid).
\* The nodes that are left suffice to join the operands.
Operate(name, n, typed, coded, valid, result) ==
    /\ phase = "building"
    /\ Len(stack) >= n
    /\ nodes + 1 + Len(stack) - n <= MaxNodes
    /\ op' = name
    /\ nodes' = nodes + 1
    /\ IF typed /\ coded /\ valid
       THEN Replace(n, result) /\ UNCHANGED phase
       ELSE /\ phase' = IF ~typed THEN "rejected" ELSE IF ~coded THEN "failed" ELSE "invalid"
            /\ UNCHANGED stack

--------------------------------------------------------------------------------
(* Leaves. *)

\* codegen_expr_ident returns the address of a variable.
codegen_expr_ident ==
    \E t \in Locals : Operate("ident", 0, TRUE, TRUE, TRUE, Operand("ident", TRUE, t, "alloca", "address"))

\* An integer literal, zero, one that fits every type or one that fits no byte:
\* i32 unless a declaration gives a hint.
Literals == {"zero", "small", "large"}
codegen_expr_lit ==
    \E n \in Literals : Operate(n, 0, TRUE, TRUE, TRUE, Operand(n, FALSE, I32, "other", "value"))

codegen_expr_call ==
    \E t \in Results : Operate("call", 0, TRUE, TRUE, TRUE, Operand("call", FALSE, t, "other", "value"))

integer_fits_in_type(n, type) == n = "large" => Size(type) > 1

analyze_lit_expr_with_hint(o, hint) ==
    IF /\ o.form \in Literals
       /\ \/ type_is_integer(hint) /\ integer_fits_in_type(o.form, hint)
          \/ type_is_pointer_like(hint) /\ o.form = "zero"
    THEN [o EXCEPT !.type = hint, !.bits = Width(hint)]
    ELSE o

--------------------------------------------------------------------------------
(* analyze_unary_expr and codegen_expr_unary. *)

Negate ==
    stack # <<>> /\
    LET v == codegen_load_if_needed(Top)
    IN Operate("-", 1, type_is_integer(Top.type), TRUE, TRUE,
               [v EXCEPT !.form = "unary", !.lvalue = FALSE, !.inst = "other", !.pointer = <<>>])

\* Unary + and ! have a type and no code; ~ has code and no type.
Uncoded ==
    \/ stack # <<>> /\ Operate("+", 1, type_is_integer(Top.type), FALSE, TRUE, Top)
    \/ Operate("!", 1, TRUE, FALSE, TRUE, Top)
    \/ Operate("~", 1, FALSE, TRUE, TRUE, Top)

\* ?e: the operand as it is, whatever it holds.
AddressOf ==
    stack # <<>> /\
    Operate("?", 1, Top.lvalue, TRUE, TRUE,
            [Operand("addr", FALSE, Pointer(Top.type), Top.inst,
                     IF Top.holds = "address" THEN "value" ELSE "junk")
               EXCEPT !.plain = Top.plain /\ Top.form # "deref"])

\* The pointer codegen_expr_unary dereferences: loaded from an alloca, never from a gep.
DerefPointer(o) == IF o.inst = "alloca" THEN Through(o.holds) ELSE o.holds

\* Forms whose value is in the LLVM value or in an alloca.
DerefPlain(o) == o.plain /\ o.form \in {"ident", "call", "deref", "binary", "cast"}

Dereference ==
    stack # <<>> /\
    LET typed == type_is_pointer_like(Top.type)
    IN Operate("@", 1, typed, TRUE, ~Top.fat,
               [Operand("deref", TRUE, IF typed THEN Base(Top.type) ELSE Top.type, "other",
                        IF DerefPointer(Top) = "value" THEN "value" ELSE "junk")
                  EXCEPT !.pointer = <<[Top EXCEPT !.pointer = <<>>]>>, !.plain = DerefPlain(Top)])

--------------------------------------------------------------------------------
(* analyze_field_expr and codegen_expr_field. *)

\* (@p).f and p->f are generated from p.
FieldBase(o) == IF o.form = "deref" THEN o.pointer[1] ELSE o
FieldThroughPointer(b) == type_is_pointer_like(b.type)
FieldObjectType(b) == IF FieldThroughPointer(b) THEN Base(b.type) ELSE b.type

\* The type the analysis looks the field up in.
AnalysedObject(o) == IF type_is_pointer_like(o.type) THEN Base(o.type) ELSE o.type

\* A pointer in memory is loaded, and every alloca or gep counts as memory.
StructAddress(b) ==
    IF FieldThroughPointer(b)
    THEN IF b.inst \in {"alloca", "gep"} THEN Through(b.holds) ELSE b.holds
    ELSE IF b.inst \in {"alloca", "gep"} THEN IF b.holds = "address" THEN "value" ELSE "junk"
    ELSE b.holds            \* spilled to a temporary

\* The fields of a slice: a pointer to it is not loaded, but a value is loaded twice.
SliceAddress(b) ==
    IF FieldThroughPointer(b)
    THEN IF b.inst \in {"alloca", "gep"} /\ b.holds = "value" THEN "value" ELSE "junk"
    ELSE StructAddress(b)

FieldPlain(o, type) ==
    LET b == FieldBase(o)
    IN /\ o.plain /\ b.plain
       /\ IF FieldThroughPointer(b) THEN b.form \notin {"addr", "binary", "assign"} ELSE TRUE
       /\ IsSlice(FieldObjectType(b)) => ~FieldThroughPointer(b)
       /\ type_is_pointer_like(type) => o.lvalue

Field ==
    stack # <<>> /\
    LET b == FieldBase(Top)
        object == AnalysedObject(Top)
        address == IF IsSlice(FieldObjectType(b)) THEN SliceAddress(b) ELSE StructAddress(b)
    IN \E type \in IF object = Struct THEN Fields
                   ELSE IF IsSlice(object) THEN {U64, Pointer(Base(object))} ELSE {I32} :
           Operate(".", 1, object = Struct \/ IsSlice(object),
                   FieldObjectType(b) = Struct \/ IsSlice(FieldObjectType(b)), ~b.fat,
                   [Operand("field", Top.lvalue, type, "gep",
                            IF address = "value" THEN "address" ELSE "junk")
                      EXCEPT !.plain = FieldPlain(Top, type)])

--------------------------------------------------------------------------------
(* analyze_index_expr and codegen_expr_index: sequence below, index on top. *)

\* A pointer to a slice is indexed by codegen as an array of slices.
Index ==
    Len(stack) >= 2 /\
    LET i == codegen_load_if_needed(Top)
        object == AnalysedObject(Below)
        typed == IsSlice(object) /\ type_is_integer(Top.type)
        direct == IsSlice(Below.type)
        s == codegen_load_if_needed(Below)
    IN Operate("[]", 2, typed, TRUE, ~s.fat,
               [Operand("index", TRUE, IF typed THEN Base(object) ELSE I32, "gep",
                        IF direct /\ Computed(<<s, i>>) = "value" THEN "address" ELSE "junk")
                  EXCEPT !.plain = Plain(<<Below, Top>>) /\ direct])

\* The bounds check and the offset behind it, for an index operand whose bits read
\* v: the check extends the index by its type, getelementptr always as signed.
Patterns(bits) ==
    LET square == (2 * Half) * (2 * Half)
    IN CASE bits = 1 -> 2
         [] bits = 8 -> 2 * Half
         [] bits = 32 -> square * square
         [] OTHER -> (square * square) * (square * square)
Signed(bits, v) == IF 2 * v >= Patterns(bits) THEN v - Patterns(bits) ELSE v
CheckedIndexSlip(i, v) == v     \* a slip: always extended as unsigned
CheckedIndex(i, v) == IF type_is_signed(i.type) THEN Signed(i.bits, v) ELSE v
PassesCheck(i, v, length) == CheckedIndex(i, v) >= 0 /\ CheckedIndex(i, v) < length
IndexOffset(i, v) == Signed(i.bits, v)

--------------------------------------------------------------------------------
(* analyze_binary_expr and codegen_expr_binary: left below, right on top. *)

\* Integers of different sizes are brought to the wider of the two types.
Narrower(v, other) ==
    type_is_integer(v.type) /\ type_is_integer(other.type) /\ Size(v.type) < Size(other.type)
Extended(v, other) == IF Narrower(v, other) THEN Width(other.type) ELSE v.bits
Extensible(v, bits) == v.bits <= bits
Extend(l, r) == /\ Narrower(l, r) => Extensible(l, Width(r.type))
                /\ Narrower(r, l) => Extensible(r, Width(l.type))

PromotedSlip(sign, l, r) == l   \* a slip: the type of the left operand
Promoted(sign, l, r) ==
    IF \/ Size(l) < Size(r)
       \/ sign # "|" /\ Size(l) = Size(r) /\ type_is_signed(l) /\ ~type_is_signed(r)
    THEN r ELSE l

Binary(form, l, r, type, bits) ==
    [Operand(form, FALSE, type, "other", Computed(<<l, r>>))
       EXCEPT !.plain = Plain(<<Below, Top>>), !.bits = bits, !.exact = l.exact /\ r.exact]

Numeric(l, r) == type_is_integer(l.type) /\ type_is_integer(r.type)
SameWidthSlip(l, r) == Extended(l, r) = r.bits     \* a slip: only the left side is extended
SameWidth(l, r) == Extend(l, r) /\ Extended(l, r) = Extended(r, l)

\* Arithmetic, and + and - with the pointer on the left, the right, or both sides.
Arithmetic ==
    Len(stack) >= 2 /\
    LET l == codegen_load_if_needed(Below)
        r == codegen_load_if_needed(Top)
        lp == type_is_pointer_like(l.type)
        rp == type_is_pointer_like(r.type)
    IN \E sign \in {"+", "-", "*", "|"} :
       LET moves == sign \in {"+", "-"}
       IN IF moves /\ lp /\ type_is_integer(r.type)
          THEN Operate(sign, 2, TRUE, TRUE, ~l.fat,
                       [Binary("binary", l, r, l.type, 64) EXCEPT !.inst = "gep", !.exact = TRUE])
          ELSE Operate(sign, 2,
                       \/ Numeric(l, r)
                       \/ moves /\ rp /\ type_is_integer(l.type)
                       \/ sign = "-" /\ lp /\ rp,
                       TRUE,
                       Numeric(l, r) /\ SameWidth(l, r),
                       Binary("binary", l, r, Promoted(sign, l.type, r.type), Extended(l, r)))

\* << and >>: the left operand is widened, its type is not.
Shift ==
    Len(stack) >= 2 /\
    LET l == codegen_load_if_needed(Below)
        r == codegen_load_if_needed(Top)
    IN Operate("<<", 2, Numeric(l, r), TRUE, Numeric(l, r) /\ SameWidth(l, r),
               [Binary("binary", l, r, l.type, Extended(l, r))
                  EXCEPT !.exact = @ /\ Size(l.type) >= Size(r.type)])

\* Comparisons: any operand types, an i1 for a u8.
Comparable(t) == type_is_integer(t) \/ type_is_pointer_like(t)
Compare ==
    Len(stack) >= 2 /\
    LET l == codegen_load_if_needed(Below)
        r == codegen_load_if_needed(Top)
        result == [Binary("compare", l, r, U8, 1) EXCEPT !.exact = FALSE]
        scalars == Comparable(l.type) /\ Comparable(r.type) /\ ~l.fat /\ ~r.fat
    IN \/ Operate("==", 2, TRUE, TRUE, scalars /\ Extend(l, r), result)
       \/ Operate("<", 2, TRUE, TRUE,
                  \/ Numeric(l, r) /\ SameWidth(l, r)
                  \/ scalars /\ type_is_pointer_like(l.type) /\ type_is_pointer_like(r.type), result)
       \/ Operate("&&", 2, TRUE, TRUE, scalars /\ Extend(l, r), result)

\* The address a store through "@p =" goes to, and that of any other store.
StoreAddress(o) ==
    IF o.form = "deref" THEN DerefPointer(o.pointer[1])
    ELSE IF o.holds = "address" THEN "value" ELSE "junk"
StorePlain(o) == IF o.form = "deref" THEN DerefPlain(o.pointer[1]) ELSE o.plain

\* What a store to an object of type t stores: the value as it is, of whatever width,
\* and the whole slice where the analysis lets it become a pointer.
IsPair(v, t) == IsSlice(v.type) /\ type_is_pointer_like(t)
Stored(v, t) ==
    [v EXCEPT !.type = t, !.fat = @ \/ IsPair(v, t),
              !.holds = IF IsPair(v, t) THEN "junk" ELSE @,
              !.plain = @ /\ ~IsPair(v, t),
              !.exact = @ /\ (type_is_integer(t) => type_equals(v.type, t))]

\* The value of an assignment is the value stored.
Assign ==
    Len(stack) >= 2 /\
    LET v == Stored(codegen_load_if_needed(Top), Below.type)
    IN Operate("=", 2, Below.lvalue /\ type_can_assign_to(Top.type, Below.type), TRUE, TRUE,
               [v EXCEPT !.form = "assign", !.lvalue = FALSE,
                         !.holds = IF StoreAddress(Below) = "value" THEN @ ELSE "junk",
                         !.plain = @ /\ StorePlain(Below),
                         !.pointer = <<>>])

--------------------------------------------------------------------------------
(* analyze_cast_expr and codegen_expr_cast. *)

CastTyped(from, to) ==
    \/ Size(from) = Size(to)
    \/ type_is_integer(from) /\ type_is_integer(to)
    \/ type_is_integer(from) /\ to[1] = "pointer"
    \/ from[1] = "pointer" /\ type_is_integer(to)

\* sext, zext and trunc are chosen by the sizes of the types: the operand of an
\* extension may not be wider than its result, that of a trunc not narrower.
Converts(v, t) ==
    type_is_integer(v.type) /\ type_is_integer(t) =>
        /\ Size(v.type) < Size(t) => v.bits <= Width(t)
        /\ Size(v.type) > Size(t) => v.bits >= Width(t)

Cast ==
    stack # <<>> /\
    LET v == codegen_load_if_needed(Top)
        pointers(t) == type_is_pointer_like(t) /\ type_is_pointer_like(Top.type)
        reread(t) == type_is_integer(t) /\ type_is_integer(Top.type) /\ Size(t) = Size(Top.type)
    IN \E t \in Params :
       Operate("::", 1, CastTyped(Top.type, t), Comparable(Top.type) /\ Comparable(t),
               Converts(v, t) /\ (v.fat => type_is_pointer_like(t)),
               [v EXCEPT !.form = IF pointers(t) /\ @ \in {"addr", "binary", "assign"} THEN @ ELSE "cast",
                         !.lvalue = FALSE, !.type = t, !.pointer = <<>>,
                         !.inst = IF pointers(t) THEN @ ELSE "other",
                         !.bits = IF reread(t) THEN @ ELSE Width(t),
                         !.exact = reread(t) => @])

--------------------------------------------------------------------------------
(* The statement or call the expression is written in.  Its operand is left on  *)
(* the stack as the store, the call or the return instruction receives it.      *)

Use(name, typed, valid, result) ==
    /\ phase = "building"
    /\ Len(stack) = 1
    /\ op' = name
    /\ stack' = IF typed /\ valid THEN <<result>> ELSE stack
    /\ phase' = IF ~typed THEN "rejected" ELSE IF ~valid THEN "invalid" ELSE "used"
    /\ UNCHANGED nodes

\* analyze_var_stmt_body, codegen_stmt_var: the hint is the declared type.
codegen_stmt_var ==
    stack # <<>> /\
    \E t \in Params :
        LET o == analyze_lit_expr_with_hint(Top, t)
        IN Use("var", type_can_assign_to(o.type, t), TRUE,
               Stored(codegen_load_if_needed(o), t))

\* An argument of codegen_expr_call: converted from the size of its type to that of
\* the parameter; of a slice for a pointer the data is extracted.
Argument ==
    stack # <<>> /\
    \E t \in Params :
        LET v == codegen_load_if_needed(Top)
            sized == type_is_integer(t) /\ Size(t) # Size(v.type)
            bits == IF sized THEN Width(t) ELSE v.bits
        IN Use("argument", type_can_assign_to(Top.type, t),
               ~v.fat /\ Converts(v, t) /\ (type_is_integer(t) => bits = Width(t)),
               [v EXCEPT !.type = t, !.bits = bits])

\* analyze_ret_stmt, codegen_stmt_ret: converted from the width it has; a slice
\* is not made a pointer.
codegen_stmt_ret ==
    stack # <<>> /\
    \E t \in Params :
        LET v == codegen_load_if_needed(Top)
        IN Use("ret", type_can_assign_to(Top.type, t), IsSlice(Top.type) = IsSlice(t) /\ ~v.fat,
               [v EXCEPT !.type = t, !.bits = IF type_is_integer(t) THEN Width(t) ELSE @])

Finished == phase # "building" /\ UNCHANGED vars

--------------------------------------------------------------------------------
Init ==
    /\ stack = <<>>
    /\ nodes = 0
    /\ op = "none"
    /\ phase = "building"

Build ==
    \/ codegen_expr_ident \/ codegen_expr_lit \/ codegen_expr_call
    \/ Negate \/ Uncoded \/ AddressOf \/ Dereference \/ Field \/ Index
    \/ Arithmetic \/ Shift \/ Compare \/ Assign \/ Cast

Next == Build \/ codegen_stmt_var \/ Argument \/ codegen_stmt_ret \/ Finished

Spec == Init /\ [][Next]_vars

--------------------------------------------------------------------------------
(* Properties. *)

Phases == {"building", "rejected", "failed", "invalid", "used"}

\* Every variable has its type.
TypeOK ==
    /\ nodes \in 0 .. MaxNodes
    /\ phase \in Phases
    /\ \A i \in DOMAIN stack :
          /\ stack[i].inst \in {"alloca", "gep", "other"}
          /\ stack[i].holds \in {"value", "address", "junk"}
          /\ {stack[i].lvalue, stack[i].plain, stack[i].exact, stack[i].fat} \subseteq BOOLEAN

\* Outside the confusing forms (of fields, indexes and dereferences, and a slice stored
\* as a pointer), the guess from the instruction is right: every consumer gets the value
\* of the expression, and every store through an lvalue goes to its object.
PlainExpressionsDenote ==
    \A i \in DOMAIN stack :
        /\ stack[i].plain => codegen_load_if_needed(stack[i]).holds = "value"
        /\ stack[i].lvalue /\ phase = "building" /\ StorePlain(stack[i])
             => StoreAddress(stack[i]) = "value"

\* An integer has the width of the type the analysis gave it, so a store writes its
\* object and nothing beside it, unless it is a comparison, a widened shift, or
\* a store or declaration between types of different widths.
WidthOfType ==
    \A i \in DOMAIN stack :
        LET v == codegen_load_if_needed(stack[i])
        IN v.exact /\ type_is_integer(v.type) => v.bits = Width(v.type)

\* Why the instructions for an operation on the operands on top can be ill typed.
Cause(name) ==
    LET inexact == ~Below.exact \/ ~Top.exact
        aggregate == ~Comparable(Below.type) \/ ~Comparable(Top.type)
        pointer(o) == type_is_pointer_like(o.type)
        fat == Below.fat \/ Top.fat
    IN CASE name \in {"+", "-"} -> inexact \/ pointer(Top) \/ Below.fat
         [] name \in {"*", "|", "<<"} -> inexact
         [] name \in {"==", "&&"} -> inexact \/ aggregate \/ fat
         [] name = "<" -> inexact \/ aggregate \/ fat \/ pointer(Below) # pointer(Top)
         [] name \in {"::", "argument"} -> ~Top.exact \/ Top.fat
         [] name = "ret" -> IsSlice(Top.type) \/ Top.fat
         [] name = "@" -> Top.fat
         [] name = "." -> FieldBase(Top).fat
         [] name = "[]" -> Below.fat
         [] OTHER -> FALSE

\* What the analysis accepts and the LLVM verifier refuses is one of a few forms:
\* an integer on the left of a pointer, a difference of pointers, a comparison of
\* aggregates, an order between a pointer and an integer, a slice returned for
\* a pointer, an assignment of a slice to a pointer used as a pointer, or an operand
\* whose width is not that of its type.
InvalidForCause == phase = "invalid" => Cause(op)

\* doc/types.md:129: arrays can assign to pointers, so what is assigned to a pointer
\* is one.
SlicesBecomePointers ==
    \A i \in DOMAIN stack : type_is_pointer_like(stack[i].type) => ~stack[i].fat

Boundaries(bits) ==
    LET p == Patterns(bits) IN {0, 1, p \div 2 - 1, p \div 2, p - 1}
Lengths == {n \in UNION {Boundaries(8 * b) : b \in {1, 4, 8}} : 2 * n < Patterns(64)}

AboutToIndex == phase = "building" /\ Len(stack) >= 2 /\ IsSlice(Below.type) /\ type_is_integer(Top.type)
IndexIsInside(i) ==
    \A v \in Boundaries(i.bits), length \in Lengths :
        PassesCheck(i, v, length) => IndexOffset(i, v) \in 0 .. length - 1

\* An index that passes the bounds check of a slice addresses an element of it, when
\* the index is signed or as wide as the length.
SignedIndexIsInside ==
    AboutToIndex /\ (type_is_signed(Top.type) \/ Top.bits = 64) => IndexIsInside(codegen_load_if_needed(Top))

\* codegen.c:3330, doc/intrinsics-and-runtime.md:97: a violation of the bounds
\* calls abort, so an index that passes the check addresses an element.
CheckedIndexIsInside == AboutToIndex => IndexIsInside(codegen_load_if_needed(Top))
================================================================================
