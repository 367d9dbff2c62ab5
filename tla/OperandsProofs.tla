----------------------------- MODULE OperandsProofs -----------------------------
(* Theorems about Operands, for any types in scope and expressions of any      *)
(* size.  The inductive invariant speaks of one operand at a time: what its    *)
(* form, its instruction and its flags tell of the LLVM value.                 *)
EXTENDS Operands, SequenceTheorems, TLAPS

Insts == {"alloca", "gep", "other"}
Holds == {"value", "address", "junk"}

\* An operand, of whatever type.
IsOperand(o) ==
    o \in [form : {o.form}, lvalue : BOOLEAN, type : {o.type}, inst : Insts, holds : Holds,
           bits : Nat, pointer : {o.pointer}, plain : BOOLEAN, exact : BOOLEAN, fat : BOOLEAN]

\* The forms of pointer that a gep or an alloca may have made.
Kept == {"addr", "binary", "assign"}

\* What the form of an operand says of its instruction.
Formed(o) ==
    /\ o.form = "ident" => o.inst = "alloca"
    /\ o.form \in Literals \cup {"deref"} => o.inst = "other"
    /\ o.form \in {"call", "binary", "cast"} => ~o.lvalue
    /\ o.form \in {"call", "binary", "cast"} /\ o.plain => o.inst # "alloca"
    /\ type_is_pointer_like(o.type) /\ o.plain /\ o.form \notin Kept
         => o.inst = "other" \/ o.lvalue

\* What an operand says of its LLVM value, the operand it dereferences aside.
Faithful(o) ==
    /\ IsOperand(o)
    /\ Formed(o)
    /\ o.plain => o.holds = IF Loads(o) THEN "address" ELSE "value"
    /\ o.plain /\ o.lvalue /\ o.form # "deref" => o.holds = "address"
    /\ Loads(o) => o.bits = Width(o.type)
    /\ o.exact /\ type_is_integer(o.type) => o.bits = Width(o.type)

Sound(o) ==
    /\ Faithful(o)
    /\ o.form = "deref" => Faithful(o.pointer[1]) /\ type_is_pointer_like(o.pointer[1].type)

\* The operand as a consumer has it.
Loaded(o, v) ==
    /\ v = codegen_load_if_needed(o)
    /\ IsOperand(v)
    /\ v.form = o.form /\ v.lvalue = o.lvalue /\ v.type = o.type
    /\ v.plain = o.plain /\ v.exact = o.exact /\ v.fat = o.fat
    /\ v.plain => v.holds = "value"
    /\ v.exact /\ type_is_integer(v.type) => v.bits = Width(v.type)
    /\ v.inst # "other" => /\ v.inst = o.inst /\ type_is_pointer_like(v.type) /\ ~v.lvalue
                           /\ v.plain => v.form \in Kept

\* A value that a statement or a call has used.
Delivered(o) ==
    /\ o.plain => codegen_load_if_needed(o).holds = "value"
    /\ codegen_load_if_needed(o).exact /\ type_is_integer(codegen_load_if_needed(o).type)
         => codegen_load_if_needed(o).bits = Width(codegen_load_if_needed(o).type)

Operands == {stack[i] : i \in 1 .. Len(stack)}

Inv ==
    /\ stack \in Seq(Operands)
    /\ nodes \in 0 .. MaxNodes
    /\ phase \in Phases
    /\ phase = "used" => Len(stack) = 1 /\ IsOperand(stack[1]) /\ Delivered(stack[1])
    /\ phase # "used" => \A i \in 1 .. Len(stack) : Sound(stack[i])
    /\ InvalidForCause
--------------------------------------------------------------------------------
(* Types. *)

LEMMA Sizes ==
    ASSUME NEW t
    PROVE  /\ Size(t) \in {1, 4, 8, 16} /\ Width(t) \in Nat
           /\ type_is_pointer_like(t) => Size(t) = 8 /\ ~type_is_integer(t) /\ ~IsSlice(t)
           /\ type_is_pointer_like(t) \in BOOLEAN /\ type_is_integer(t) \in BOOLEAN
  BY DEF Size, Width, type_is_pointer_like, type_is_integer, U8, I8, I32, U64, IsSlice

LEMMA Assignable ==
    ASSUME NEW from, NEW to, type_can_assign_to(from, to)
    PROVE  /\ type_is_pointer_like(from) => type_is_pointer_like(to)
           /\ type_is_integer(to) => type_is_integer(from)
  BY DEF type_can_assign_to, type_equals, type_is_pointer_like, type_is_integer, IsSlice, U8, I8, I32, U64

LEMMA LoadIsLoaded ==
    ASSUME NEW o, Faithful(o)
    PROVE  Loaded(o, codegen_load_if_needed(o))
<1> DEFINE v == codegen_load_if_needed(o)
<1>1. IsOperand(o) /\ Width(o.type) \in Nat
  BY Sizes DEF Faithful
<1>2. CASE Loads(o)
  <2>1. v = [o EXCEPT !.inst = "other", !.holds = Through(@), !.bits = Width(o.type)]
    BY <1>2 DEF codegen_load_if_needed
  <2>2. Through(o.holds) \in Holds
    BY DEF Through, Holds
  <2>3. /\ IsOperand(v)
        /\ v.form = o.form /\ v.lvalue = o.lvalue /\ v.type = o.type
        /\ v.plain = o.plain /\ v.exact = o.exact /\ v.fat = o.fat
        /\ v.inst = "other" /\ v.holds = Through(o.holds) /\ v.bits = Width(o.type)
    BY <1>1, <2>1, <2>2 DEF IsOperand, Insts
  <2> QED  BY <1>2, <2>3 DEF Loaded, Faithful, Through
<1>3. CASE ~Loads(o)
  <2>1. v = [o EXCEPT !.holds = IF @ = "address" THEN "junk" ELSE @]
    BY <1>3 DEF codegen_load_if_needed
  <2>2. /\ IsOperand(v)
        /\ v.form = o.form /\ v.lvalue = o.lvalue /\ v.type = o.type
        /\ v.plain = o.plain /\ v.exact = o.exact /\ v.fat = o.fat
        /\ v.inst = o.inst /\ v.bits = o.bits
        /\ v.holds = IF o.holds = "address" THEN "junk" ELSE o.holds
    BY <1>1, <2>1 DEF IsOperand, Holds
  <2>3. v.inst # "other" => /\ type_is_pointer_like(v.type) /\ ~v.lvalue
                            /\ v.plain => v.form \in Kept
    BY <1>1, <1>3, <2>2 DEF Loads, IsOperand, Insts, Faithful, Formed
  <2> QED  BY <1>3, <2>2, <2>3 DEF Loaded, Faithful
<1> QED  BY <1>2, <1>3

--------------------------------------------------------------------------------
(* What each operation makes of sound operands is sound. *)

LEMMA IdentSound ==
    ASSUME NEW t
    PROVE  Sound(Operand("ident", TRUE, t, "alloca", "address"))
<1> DEFINE o == Operand("ident", TRUE, t, "alloca", "address")
<1>1. /\ IsOperand(o) /\ o.form = "ident" /\ o.lvalue /\ o.type = t /\ o.inst = "alloca"
      /\ o.holds = "address" /\ o.bits = Width(t) /\ o.plain /\ o.exact
  BY Sizes DEF Operand, IsOperand, Insts, Holds
<1> HIDE DEF o
<1>2. Sound(o)
  BY <1>1 DEF Sound, Faithful, Formed, Loads, Literals
<1> QED  BY <1>2 DEF o

LEMMA ValueSound ==
    ASSUME NEW form \in Literals \cup {"call"}, NEW t, form # "call" => t = I32
    PROVE  Sound(Operand(form, FALSE, t, "other", "value"))
<1> DEFINE o == Operand(form, FALSE, t, "other", "value")
<1>1. /\ IsOperand(o) /\ o.form = form /\ ~o.lvalue /\ o.type = t /\ o.inst = "other"
      /\ o.holds = "value" /\ o.bits = Width(t) /\ o.plain /\ o.exact
  BY Sizes DEF Operand, IsOperand, Insts, Holds
<1> HIDE DEF o
<1>2. Sound(o)
  BY <1>1, Sizes DEF Sound, Faithful, Formed, Loads, Literals
<1> QED  BY <1>2 DEF o

\* A value no instruction of which counts as memory.
LEMMA ComputedSound ==
    ASSUME NEW o, IsOperand(o), o.form \notin {"ident", "deref"}, ~o.lvalue, o.inst = "other",
           o.plain => o.holds = "value",
           o.exact /\ type_is_integer(o.type) => o.bits = Width(o.type)
    PROVE  Sound(o)
  BY DEF Sound, Faithful, Formed, Loads

LEMMA NegateSound ==
    ASSUME NEW o, Sound(o)
    PROVE  Sound([codegen_load_if_needed(o) EXCEPT !.form = "unary", !.lvalue = FALSE,
                                                   !.inst = "other", !.pointer = <<>>])
<1> DEFINE v == codegen_load_if_needed(o)
           r == [v EXCEPT !.form = "unary", !.lvalue = FALSE, !.inst = "other", !.pointer = <<>>]
<1>1. Loaded(o, v)
  BY LoadIsLoaded DEF Sound
<1> HIDE DEF v
<1>2. IsOperand(v)
  BY <1>1 DEF Loaded
<1>3. /\ IsOperand(r) /\ r.form = "unary" /\ ~r.lvalue /\ r.inst = "other"
      /\ r.type = v.type /\ r.holds = v.holds /\ r.bits = v.bits /\ r.plain = v.plain /\ r.exact = v.exact
  BY <1>2 DEF IsOperand, Insts
<1> HIDE DEF r
<1>4. Sound(r)
  BY <1>1, <1>3, ComputedSound DEF Loaded
<1> QED  BY <1>4 DEF r, v

\* Where ?e comes from has an address.
LEMMA AddressSound ==
    ASSUME NEW o, Sound(o), o.lvalue
    PROVE  Sound([Operand("addr", FALSE, Pointer(o.type), o.inst,
                          IF o.holds = "address" THEN "value" ELSE "junk")
                    EXCEPT !.plain = o.plain /\ o.form # "deref"])
<1> DEFINE h == IF o.holds = "address" THEN "value" ELSE "junk"
           a == Operand("addr", FALSE, Pointer(o.type), o.inst, h)
           p == o.plain /\ o.form # "deref"
           r == [a EXCEPT !.plain = p]
<1>1. IsOperand(o) /\ h \in Holds /\ o.inst \in Insts /\ p \in BOOLEAN
  BY DEF Sound, Faithful, IsOperand, Holds
<1>2. /\ IsOperand(a) /\ a.form = "addr" /\ ~a.lvalue /\ a.type = Pointer(o.type) /\ a.inst = o.inst
      /\ a.holds = h /\ a.bits = Width(Pointer(o.type)) /\ a.exact
  BY <1>1, Sizes DEF Operand, IsOperand
<1>3. p => h = "value"
  BY DEF Sound, Faithful
<1> HIDE DEF a, p, h
<1>4. /\ IsOperand(r) /\ r.form = "addr" /\ ~r.lvalue /\ r.type = Pointer(o.type) /\ r.inst = a.inst
      /\ r.holds = h /\ r.bits = a.bits /\ r.exact = a.exact /\ r.plain = p
  BY <1>1, <1>2 DEF IsOperand
<1>5. type_is_pointer_like(r.type)
  BY <1>4 DEF type_is_pointer_like, Pointer
<1> HIDE DEF r
<1>6. Sound(r)
  BY <1>2, <1>3, <1>4, <1>5, Sizes DEF Sound, Faithful, Formed, Loads, Literals, Kept
<1> QED  BY <1>6 DEF r, a, h, p

\* What stands in a variable is loaded, what was computed is taken as it is.
LEMMA PointerIsValue ==
    ASSUME NEW o, Faithful(o), type_is_pointer_like(o.type), DerefPlain(o)
    PROVE  DerefPointer(o) = "value"
  BY DEF Faithful, Formed, IsOperand, Insts, DerefPlain, DerefPointer, Through, Loads, Literals, Kept

LEMMA DereferenceSound ==
    ASSUME NEW o, Sound(o), type_is_pointer_like(o.type), NEW t
    PROVE  Sound([Operand("deref", TRUE, t, "other", IF DerefPointer(o) = "value" THEN "value" ELSE "junk")
                    EXCEPT !.pointer = <<[o EXCEPT !.pointer = <<>>]>>, !.plain = DerefPlain(o)])
<1> DEFINE h == IF DerefPointer(o) = "value" THEN "value" ELSE "junk"
           a == Operand("deref", TRUE, t, "other", h)
           q == [o EXCEPT !.pointer = <<>>]
           p == DerefPlain(o)
           r == [a EXCEPT !.pointer = <<q>>, !.plain = p]
<1>1. IsOperand(o) /\ h \in Holds /\ p \in BOOLEAN
  BY DEF Sound, Faithful, IsOperand, Holds, DerefPlain
<1>2. /\ IsOperand(a) /\ a.form = "deref" /\ a.lvalue /\ a.type = t /\ a.inst = "other"
      /\ a.holds = h /\ a.bits = Width(t) /\ a.exact
  BY <1>1, Sizes DEF Operand, IsOperand, Insts
<1>3. p => h = "value"
  BY PointerIsValue DEF Sound
<1>4. /\ IsOperand(q) /\ q.form = o.form /\ q.lvalue = o.lvalue /\ q.type = o.type /\ q.inst = o.inst
      /\ q.holds = o.holds /\ q.bits = o.bits /\ q.plain = o.plain /\ q.exact = o.exact
  BY <1>1 DEF IsOperand
<1> HIDE DEF a, p, h, q
<1>5. Faithful(q)
  BY <1>4 DEF Sound, Faithful, Formed, Loads
<1>6. /\ IsOperand(r) /\ r.form = "deref" /\ r.lvalue /\ r.type = t /\ r.inst = "other"
      /\ r.holds = h /\ r.bits = a.bits /\ r.exact = a.exact /\ r.plain = p /\ r.pointer = <<q>>
  BY <1>1, <1>2 DEF IsOperand
<1> HIDE DEF r
<1>7. Sound(r)
  <2>1. r.pointer[1] = q
    BY <1>6
  <2> QED  BY <1>2, <1>3, <1>4, <1>5, <1>6, <2>1 DEF Sound, Faithful, Formed, Loads, Literals, Kept
<1> QED  BY <1>7 DEF r, a, h, p, q

\* The address of the object a field is taken of.
LEMMA BaseAddress ==
    ASSUME NEW b, Faithful(b), b.plain, FieldThroughPointer(b) => b.form \notin Kept
    PROVE  StructAddress(b) = "value"
  BY DEF Faithful, Formed, Loads, FieldThroughPointer, StructAddress, Through, IsOperand, Insts

LEMMA FieldSound ==
    ASSUME NEW o, Sound(o), NEW type
    PROVE  LET b == FieldBase(o)
               address == IF IsSlice(FieldObjectType(b)) THEN SliceAddress(b) ELSE StructAddress(b)
           IN  Sound([Operand("field", o.lvalue, type, "gep",
                              IF address = "value" THEN "address" ELSE "junk")
                        EXCEPT !.plain = FieldPlain(o, type)])
<1> DEFINE b == FieldBase(o)
           address == IF IsSlice(FieldObjectType(b)) THEN SliceAddress(b) ELSE StructAddress(b)
           h == IF address = "value" THEN "address" ELSE "junk"
           a == Operand("field", o.lvalue, type, "gep", h)
           p == FieldPlain(o, type)
           r == [a EXCEPT !.plain = p]
<1>1. IsOperand(o) /\ h \in Holds /\ o.lvalue \in BOOLEAN
  BY DEF Sound, Faithful, IsOperand, Holds
<1>2. Faithful(b)
  BY DEF Sound, FieldBase
<1>3. p \in BOOLEAN
  BY Zenon DEF FieldPlain
<1>4. ASSUME p PROVE h = "address"
  <2>1. b.plain /\ (FieldThroughPointer(b) => b.form \notin Kept)
        /\ (IsSlice(FieldObjectType(b)) => ~FieldThroughPointer(b))
    BY <1>4 DEF FieldPlain, Kept
  <2>2. StructAddress(b) = "value"
    BY <1>2, <2>1, BaseAddress
  <2>3. address = "value"
    BY <2>1, <2>2 DEF SliceAddress
  <2> QED  BY <2>3
<1>5. p /\ type_is_pointer_like(type) => o.lvalue
  BY DEF FieldPlain
<1>6. /\ IsOperand(a) /\ a.form = "field" /\ a.lvalue = o.lvalue /\ a.type = type /\ a.inst = "gep"
      /\ a.holds = h /\ a.bits = Width(type) /\ a.exact
  <2> HIDE DEF h
  <2> QED  BY <1>1, Sizes DEF Operand, IsOperand, Insts
<1> HIDE DEF a, p, h
<1>7. /\ IsOperand(r) /\ r.form = "field" /\ r.lvalue = o.lvalue /\ r.type = type /\ r.inst = "gep"
      /\ r.holds = h /\ r.bits = a.bits /\ r.exact = a.exact /\ r.plain = p
  BY <1>3, <1>6 DEF IsOperand
<1> HIDE DEF r
<1>8. Sound(r)
  BY <1>4, <1>5, <1>6, <1>7 DEF Sound, Faithful, Formed, Loads, Literals
<1> QED  BY <1>8 DEF r, a, h, p

LEMMA Pair ==
    ASSUME NEW x, NEW y
    PROVE  /\ Computed(<<x, y>>) = IF x.holds = "value" /\ y.holds = "value" THEN "value" ELSE "junk"
           /\ Plain(<<x, y>>) <=> x.plain /\ y.plain
<1>1. DOMAIN <<x, y>> = {1, 2}
  OBVIOUS
<1> QED  BY <1>1 DEF Computed, Plain

LEMMA IndexSound ==
    ASSUME NEW below, NEW top, Sound(below), Sound(top), NEW type
    PROVE  LET i == codegen_load_if_needed(top)
               s == codegen_load_if_needed(below)
               direct == IsSlice(below.type)
           IN  Sound([Operand("index", TRUE, type, "gep",
                              IF direct /\ Computed(<<s, i>>) = "value" THEN "address" ELSE "junk")
                        EXCEPT !.plain = Plain(<<below, top>>) /\ direct])
<1> DEFINE i == codegen_load_if_needed(top)
           s == codegen_load_if_needed(below)
           direct == IsSlice(below.type)
           h == IF direct /\ Computed(<<s, i>>) = "value" THEN "address" ELSE "junk"
           a == Operand("index", TRUE, type, "gep", h)
           p == Plain(<<below, top>>) /\ direct
           r == [a EXCEPT !.plain = p]
<1>1. Loaded(top, i) /\ Loaded(below, s)
  BY LoadIsLoaded DEF Sound
<1>2. h \in Holds /\ p \in BOOLEAN
  BY DEF Holds
<1>3. p => h = "address"
  <2> HIDE DEF i, s
  <2> QED  BY <1>1, Pair DEF Loaded
<1>4. /\ IsOperand(a) /\ a.form = "index" /\ a.lvalue /\ a.type = type /\ a.inst = "gep"
      /\ a.holds = h /\ a.bits = Width(type) /\ a.exact
  <2> HIDE DEF h
  <2> QED  BY <1>2, Sizes DEF Operand, IsOperand, Insts
<1> HIDE DEF a, p, h
<1>5. /\ IsOperand(r) /\ r.form = "index" /\ r.lvalue /\ r.type = type /\ r.inst = "gep"
      /\ r.holds = h /\ r.bits = a.bits /\ r.exact = a.exact /\ r.plain = p
  BY <1>2, <1>4 DEF IsOperand
<1> HIDE DEF r
<1>6. Sound(r)
  BY <1>3, <1>4, <1>5 DEF Sound, Faithful, Formed, Loads, Literals
<1> QED  BY <1>6 DEF r, a, h, p, i, s, direct

\* The result of a binary operation, from its operands as loaded.
LEMMA BinaryIs ==
    ASSUME NEW l, NEW r, Loaded(Below, l), Loaded(Top, r), NEW form, NEW type, NEW bits \in Nat
    PROVE  LET b == Binary(form, l, r, type, bits)
           IN  /\ IsOperand(b) /\ b.form = form /\ ~b.lvalue /\ b.type = type /\ b.inst = "other"
               /\ b.plain => b.holds = "value"
               /\ b.bits = bits /\ b.exact = (l.exact /\ r.exact)
<1> DEFINE h == Computed(<<l, r>>)
           p == Plain(<<Below, Top>>)
           e == l.exact /\ r.exact
           a == Operand(form, FALSE, type, "other", h)
           b == [a EXCEPT !.plain = p, !.bits = bits, !.exact = e]
<1>1. h \in Holds /\ p \in BOOLEAN /\ e \in BOOLEAN
  <2>1. h \in Holds /\ e \in BOOLEAN
    BY DEF Computed, Holds
  <2>2. p \in BOOLEAN
    BY Zenon DEF Plain
  <2> QED  BY <2>1, <2>2
<1>2. p => h = "value"
  BY Pair DEF Loaded
<1> HIDE DEF p, h, e
<1>3. IsOperand(a) /\ a.form = form /\ ~a.lvalue /\ a.type = type /\ a.inst = "other" /\ a.holds = h
  BY <1>1, Sizes DEF Operand, IsOperand, Insts
<1> HIDE DEF a
<1>4. /\ IsOperand(b) /\ b.form = form /\ ~b.lvalue /\ b.type = type /\ b.inst = "other"
      /\ b.holds = h /\ b.plain = p /\ b.bits = bits /\ b.exact = e
  BY <1>1, <1>3 DEF IsOperand
<1>5. b = Binary(form, l, r, type, bits)
  BY DEF Binary, a, p, e, h
<1> HIDE DEF b
<1>6. b.plain => b.holds = "value"
  BY <1>2, <1>4
<1>7. b.exact = (l.exact /\ r.exact)
  BY <1>4 DEF e
<1> QED  BY <1>4, <1>5, <1>6, <1>7

LEMMA MovedSound ==
    ASSUME NEW l, NEW r, Loaded(Below, l), Loaded(Top, r), NEW t, type_is_pointer_like(t)
    PROVE  Sound([Binary("binary", l, r, t, 64) EXCEPT !.inst = "gep", !.exact = TRUE])
<1> DEFINE b == Binary("binary", l, r, t, 64)
           m == [b EXCEPT !.inst = "gep", !.exact = TRUE]
<1>1. /\ IsOperand(b) /\ b.form = "binary" /\ ~b.lvalue /\ b.type = t
      /\ b.plain => b.holds = "value"
  BY BinaryIs
<1> HIDE DEF b
<1>2. /\ IsOperand(m) /\ m.form = "binary" /\ ~m.lvalue /\ m.type = t /\ m.inst = "gep"
      /\ m.plain => m.holds = "value"
  BY <1>1 DEF IsOperand, Insts
<1> HIDE DEF m
<1>3. Sound(m)
  BY <1>2, Sizes DEF Sound, Faithful, Formed, Loads, Literals, Kept
<1> QED  BY <1>3 DEF m, b

\* Integers of the width of their types have the width of the wider type in the end.
LEMMA WidthsAgree ==
    ASSUME NEW l, NEW r, Loaded(Below, l), Loaded(Top, r), Numeric(l, r)
    PROVE  /\ Extended(l, r) \in Nat
           /\ l.exact /\ r.exact =>
                /\ SameWidth(l, r)
                /\ \A sign : Extended(l, r) = Width(Promoted(sign, l.type, r.type))
           /\ l.exact /\ Size(l.type) >= Size(r.type) => Extended(l, r) = Width(l.type)
<1>1. Size(l.type) \in {1, 4, 8, 16} /\ Size(r.type) \in {1, 4, 8, 16}
  BY Sizes
<1>2. l.bits \in Nat /\ r.bits \in Nat
  BY DEF Loaded, IsOperand
<1>3. /\ l.exact => l.bits = 8 * Size(l.type)
      /\ r.exact => r.bits = 8 * Size(r.type)
  BY DEF Loaded, Numeric, Width
<1>4. type_is_integer(l.type) /\ type_is_integer(r.type)
  BY DEF Numeric
<1>5. /\ Extended(l, r) = IF Size(l.type) < Size(r.type) THEN 8 * Size(r.type) ELSE l.bits
      /\ Extended(r, l) = IF Size(r.type) < Size(l.type) THEN 8 * Size(l.type) ELSE r.bits
  BY <1>4 DEF Extended, Narrower, Width
<1>6. ASSUME l.exact, r.exact
      PROVE  SameWidth(l, r) /\ \A sign : Extended(l, r) = Width(Promoted(sign, l.type, r.type))
  <2>1. Extend(l, r)
    BY <1>1, <1>3, <1>6 DEF Extend, Narrower, Extensible, Width
  <2>2. SameWidth(l, r)
    BY <1>1, <1>3, <1>5, <1>6, <2>1 DEF SameWidth
  <2>3. ASSUME NEW sign PROVE Extended(l, r) = Width(Promoted(sign, l.type, r.type))
    BY <1>1, <1>3, <1>5, <1>6 DEF Promoted, Width
  <2> QED  BY <2>2, <2>3
<1>7. l.exact /\ Size(l.type) >= Size(r.type) => Extended(l, r) = Width(l.type)
  BY <1>1, <1>3, <1>5 DEF Width
<1>8. Extended(l, r) \in Nat
  BY <1>1, <1>2, <1>5
<1> QED  BY <1>6, <1>7, <1>8

LEMMA ArithmeticSound ==
    ASSUME NEW l, NEW r, Loaded(Below, l), Loaded(Top, r), Numeric(l, r), NEW sign
    PROVE  Sound(Binary("binary", l, r, Promoted(sign, l.type, r.type), Extended(l, r)))
<1> DEFINE b == Binary("binary", l, r, Promoted(sign, l.type, r.type), Extended(l, r))
<1>1. Extended(l, r) \in Nat
  BY WidthsAgree
<1>2. /\ IsOperand(b) /\ b.form = "binary" /\ ~b.lvalue /\ b.type = Promoted(sign, l.type, r.type)
      /\ b.inst = "other" /\ (b.plain => b.holds = "value")
      /\ b.bits = Extended(l, r) /\ b.exact = (l.exact /\ r.exact)
  BY <1>1, BinaryIs
<1> HIDE DEF b
<1>3. b.exact => b.bits = Width(b.type)
  BY <1>2, WidthsAgree
<1>4. Sound(b)
  BY <1>2, <1>3, ComputedSound
<1> QED  BY <1>4 DEF b

LEMMA ShiftSound ==
    ASSUME NEW l, NEW r, Loaded(Below, l), Loaded(Top, r), Numeric(l, r)
    PROVE  Sound([Binary("binary", l, r, l.type, Extended(l, r))
                    EXCEPT !.exact = @ /\ Size(l.type) >= Size(r.type)])
<1> DEFINE b == Binary("binary", l, r, l.type, Extended(l, r))
           s == [b EXCEPT !.exact = @ /\ Size(l.type) >= Size(r.type)]
<1>1. Extended(l, r) \in Nat
  BY WidthsAgree
<1>2. /\ IsOperand(b) /\ b.form = "binary" /\ ~b.lvalue /\ b.type = l.type
      /\ b.inst = "other" /\ (b.plain => b.holds = "value")
      /\ b.bits = Extended(l, r) /\ b.exact = (l.exact /\ r.exact)
  BY <1>1, BinaryIs
<1> HIDE DEF b
<1>3. /\ IsOperand(s) /\ s.form = "binary" /\ ~s.lvalue /\ s.type = l.type
      /\ s.inst = "other" /\ (s.plain => s.holds = "value")
      /\ s.bits = Extended(l, r) /\ (s.exact => l.exact /\ Size(l.type) >= Size(r.type))
  BY <1>2 DEF IsOperand
<1> HIDE DEF s
<1>4. s.exact => s.bits = Width(s.type)
  BY <1>3, WidthsAgree
<1>5. Sound(s)
  BY <1>3, <1>4, ComputedSound
<1> QED  BY <1>5 DEF s, b

LEMMA CompareSound ==
    ASSUME NEW l, NEW r, Loaded(Below, l), Loaded(Top, r)
    PROVE  Sound([Binary("compare", l, r, U8, 1) EXCEPT !.exact = FALSE])
<1> DEFINE b == Binary("compare", l, r, U8, 1)
           c == [b EXCEPT !.exact = FALSE]
<1>1. IsOperand(b) /\ b.form = "compare" /\ ~b.lvalue /\ b.inst = "other" /\ (b.plain => b.holds = "value")
  BY BinaryIs
<1> HIDE DEF b
<1>2. /\ IsOperand(c) /\ c.form = "compare" /\ ~c.lvalue /\ c.inst = "other" /\ ~c.exact
      /\ c.plain => c.holds = "value"
  BY <1>1 DEF IsOperand
<1> HIDE DEF c
<1>3. Sound(c)
  BY <1>2, ComputedSound
<1> QED  BY <1>3 DEF c, b

LEMMA StoredIs ==
    ASSUME NEW o, NEW v, Loaded(o, v), NEW t, type_can_assign_to(o.type, t)
    PROVE  LET r == Stored(v, t)
           IN  /\ IsOperand(r) /\ r.type = t /\ r.lvalue = v.lvalue /\ r.inst = v.inst
               /\ r.plain => v.plain /\ r.holds = "value"
               /\ r.exact /\ type_is_integer(t) => r.bits = Width(t)
               /\ r.inst # "other" => type_is_pointer_like(t)
<1> DEFINE pair == IsPair(v, t)
           h == IF pair THEN "junk" ELSE v.holds
           p == v.plain /\ ~pair
           e == v.exact /\ (type_is_integer(t) => type_equals(v.type, t))
           f == v.fat \/ pair
           r == [v EXCEPT !.type = t, !.fat = f, !.holds = h, !.plain = p, !.exact = e]
<1>1. IsOperand(v)
  BY DEF Loaded
<1>2. pair \in BOOLEAN
  BY Zenon DEF IsPair
<1>3. h \in Holds /\ p \in BOOLEAN /\ e \in BOOLEAN /\ f \in BOOLEAN
  BY <1>1, <1>2, Sizes DEF IsOperand, Holds, type_equals
<1>4. /\ p => v.plain /\ h = "value"
      /\ e /\ type_is_integer(t) => v.bits = Width(t)
      /\ v.inst # "other" => type_is_pointer_like(t)
  BY Assignable DEF Loaded, type_equals
<1>5. r = Stored(v, t)
  BY DEF Stored
<1> HIDE DEF h, p, e, f
<1>6. /\ IsOperand(r) /\ r.type = t /\ r.lvalue = v.lvalue /\ r.inst = v.inst /\ r.bits = v.bits
      /\ r.holds = h /\ r.plain = p /\ r.exact = e
  BY <1>1, <1>3 DEF IsOperand
<1> HIDE DEF r
<1> QED  BY <1>4, <1>5, <1>6

LEMMA AssignSound ==
    ASSUME NEW below, NEW top, Sound(below), Sound(top), below.lvalue,
           type_can_assign_to(top.type, below.type)
    PROVE  LET v == Stored(codegen_load_if_needed(top), below.type)
           IN  Sound([v EXCEPT !.form = "assign", !.lvalue = FALSE,
                         !.holds = IF StoreAddress(below) = "value" THEN @ ELSE "junk",
                         !.plain = @ /\ StorePlain(below),
                         !.pointer = <<>>])
<1> DEFINE v == Stored(codegen_load_if_needed(top), below.type)
           h == IF StoreAddress(below) = "value" THEN v.holds ELSE "junk"
           p == v.plain /\ StorePlain(below)
           a == [v EXCEPT !.form = "assign", !.lvalue = FALSE,
                          !.holds = h, !.plain = p, !.pointer = <<>>]
<1>1. Loaded(top, codegen_load_if_needed(top))
  BY LoadIsLoaded DEF Sound
<1>2. StorePlain(below) => StoreAddress(below) = "value"
  BY PointerIsValue DEF StorePlain, StoreAddress, Sound, Faithful
<1>3. /\ IsOperand(v) /\ v.type = below.type
      /\ v.plain => v.holds = "value"
      /\ v.exact /\ type_is_integer(v.type) => v.bits = Width(v.type)
      /\ v.inst # "other" => type_is_pointer_like(v.type)
  BY <1>1, StoredIs
<1> HIDE DEF v
<1>4. h \in Holds /\ p \in BOOLEAN
  <2>1. StorePlain(below) \in BOOLEAN
    BY DEF StorePlain, DerefPlain, Sound, Faithful, IsOperand
  <2> QED  BY <1>3, <2>1 DEF IsOperand, Holds
<1>5. p => h = "value"
  BY <1>2, <1>3
<1> HIDE DEF h, p
<1>6. /\ IsOperand(a) /\ a.form = "assign" /\ ~a.lvalue /\ a.type = v.type
      /\ a.holds = h /\ a.plain = p /\ a.exact = v.exact /\ a.inst = v.inst /\ a.bits = v.bits
  BY <1>3, <1>4 DEF IsOperand
<1> HIDE DEF a
<1>7. Sound(a)
  BY <1>3, <1>5, <1>6 DEF Sound, Faithful, Formed, Loads, Literals, Kept, IsOperand, Insts
<1> QED  BY <1>7 DEF a, h, p, v

LEMMA CastSound ==
    ASSUME NEW o, Sound(o), NEW t
    PROVE  LET v == codegen_load_if_needed(o)
               pointers == type_is_pointer_like(t) /\ type_is_pointer_like(o.type)
               reread == type_is_integer(t) /\ type_is_integer(o.type) /\ Size(t) = Size(o.type)
           IN  Sound([v EXCEPT !.form = IF pointers /\ @ \in {"addr", "binary", "assign"} THEN @ ELSE "cast",
                         !.lvalue = FALSE, !.type = t, !.pointer = <<>>,
                         !.inst = IF pointers THEN @ ELSE "other",
                         !.bits = IF reread THEN @ ELSE Width(t),
                         !.exact = reread => @])
<1> DEFINE v == codegen_load_if_needed(o)
           pointers == type_is_pointer_like(t) /\ type_is_pointer_like(o.type)
           reread == type_is_integer(t) /\ type_is_integer(o.type) /\ Size(t) = Size(o.type)
           form == IF pointers /\ v.form \in {"addr", "binary", "assign"} THEN v.form ELSE "cast"
           inst == IF pointers THEN v.inst ELSE "other"
           bits == IF reread THEN v.bits ELSE Width(t)
           exact == reread => v.exact
           c == [v EXCEPT !.form = form, !.lvalue = FALSE, !.type = t, !.pointer = <<>>,
                          !.inst = inst, !.bits = bits, !.exact = exact]
<1>1. Loaded(o, v)
  BY LoadIsLoaded DEF Sound
<1> HIDE DEF v
<1>2. IsOperand(v)
  BY <1>1 DEF Loaded
<1>3. pointers \in BOOLEAN /\ reread \in BOOLEAN
  BY Sizes
<1>4. /\ exact /\ type_is_integer(t) => bits = Width(t)
      /\ bits \in Nat /\ exact \in BOOLEAN
  BY <1>1, <1>2, <1>3, Sizes DEF Loaded, IsOperand, Width
<1>5. /\ inst \in Insts
      /\ inst # "other" => /\ pointers /\ inst = o.inst
                           /\ v.plain => form \in Kept /\ form = o.form
  BY <1>1, <1>2, <1>3 DEF Loaded, IsOperand, Insts, Kept
<1>6. form \in Kept \cup {"cast"}
  BY DEF Kept
<1>7. pointers => type_is_pointer_like(t)
  OBVIOUS
<1> HIDE DEF form, inst, bits, exact, pointers, reread
<1>8. /\ IsOperand(c) /\ c.form = form /\ ~c.lvalue /\ c.type = t /\ c.inst = inst
      /\ c.bits = bits /\ c.exact = exact /\ c.holds = v.holds /\ c.plain = v.plain
  BY <1>2, <1>4, <1>5 DEF IsOperand
<1> HIDE DEF c
<1>9. c.plain => c.holds = "value"
  BY <1>1, <1>8 DEF Loaded
<1>10. c.plain /\ c.form \in {"binary", "cast"} => c.inst # "alloca"
  BY <1>1, <1>5, <1>6, <1>8 DEF Sound, Faithful, Formed, Loaded, Kept
<1>11. Formed(c)
  BY <1>5, <1>6, <1>8, <1>10 DEF Formed, Literals, Kept
<1>12. ~Loads(c)
  BY <1>5, <1>7, <1>8, Sizes DEF Loads, Insts
<1>13. Sound(c)
  BY <1>4, <1>6, <1>8, <1>9, <1>11, <1>12 DEF Sound, Faithful, Kept
<1> QED  BY <1>13 DEF c, v, form, inst, bits, exact, pointers, reread
--------------------------------------------------------------------------------
(* The steps. *)

LEMMA SelfSeq ==
    ASSUME NEW S, NEW s \in Seq(S)
    PROVE  s \in Seq({s[i] : i \in 1 .. Len(s)})
  OBVIOUS

LEMMA TopSound ==
    ASSUME Inv, phase # "used"
    PROVE  /\ stack # <<>> => Sound(Top)
           /\ Len(stack) >= 2 => Sound(Below)
<1>1. Len(stack) \in Nat /\ (stack # <<>> => Len(stack) \in 1 .. Len(stack))
      /\ (Len(stack) >= 2 => Len(stack) - 1 \in 1 .. Len(stack))
  BY DEF Inv
<1> QED  BY <1>1 DEF Inv, Top, Below

LEMMA ReplaceKeeps ==
    ASSUME Inv, phase # "used", NEW n \in {0, 1, 2}, Len(stack) >= n, NEW o, Sound(o), Replace(n, o)
    PROVE  /\ stack' \in Seq(Operands')
           /\ \A i \in 1 .. Len(stack') : Sound(stack'[i])
<1> DEFINE kept == SubSeq(stack, 1, Len(stack) - n)
           S == Operands \cup {o}
<1>1. stack \in Seq(S) /\ o \in S /\ Len(stack) \in Nat
  BY DEF Inv
<1>2. /\ kept \in Seq(S)
      /\ Len(kept) = Len(stack) - n
      /\ \A i \in 1 .. Len(kept) : kept[i] = stack[i]
  <2>1. /\ 1 \in Int /\ Len(stack) - n \in Int
        /\ \A i \in 1 .. Len(stack) - n : stack[i] \in S
        /\ (Len(stack) - n) - 1 + 1 = Len(stack) - n /\ \A i \in Int : 1 + i - 1 = i
    BY <1>1
  <2>2. /\ kept \in Seq(S)
        /\ Len(kept) = IF 1 <= Len(stack) - n THEN (Len(stack) - n) - 1 + 1 ELSE 0
        /\ \A i \in 1 .. (Len(stack) - n) - 1 + 1 : kept[i] = stack[1 + i - 1]
    BY <1>1, <2>1, SubSeqProperties
  <2>3. Len(stack) - n \in Nat
    BY <1>1
  <2> HIDE DEF kept, S
  <2>4. CASE Len(stack) - n = 0
    BY <2>2, <2>4
  <2>5. CASE Len(stack) - n >= 1
    <3>1. Len(kept) = Len(stack) - n
      BY <2>2, <2>3, <2>5
    <3>2. ASSUME NEW i \in 1 .. Len(kept) PROVE kept[i] = stack[i]
      <4>1. i \in 1 .. (Len(stack) - n) - 1 + 1 /\ 1 + i - 1 = i
        BY <2>3, <3>1
      <4> QED  BY <2>2, <4>1
    <3> QED  BY <2>2, <3>1, <3>2
  <2> QED  BY <2>3, <2>4, <2>5
<1>3. stack' = Append(kept, o)
  BY DEF Replace
<1> HIDE DEF kept, S
<1>4. /\ stack' \in Seq(S) /\ Len(stack') = Len(kept) + 1 /\ stack'[Len(kept) + 1] = o
      /\ \A i \in 1 .. Len(kept) : stack'[i] = kept[i]
  BY <1>1, <1>2, <1>3
<1>5. \A i \in 1 .. Len(stack') : Sound(stack'[i])
  <2>1. \A i \in 1 .. Len(stack) : Sound(stack[i])
    BY DEF Inv
  <2> QED  BY <1>1, <1>2, <1>4, <2>1
<1>6. stack' \in Seq({stack'[i] : i \in 1 .. Len(stack')})
  BY <1>4, SelfSeq
<1> QED  BY <1>5, <1>6 DEF Operands

LEMMA OperateKeeps ==
    ASSUME Inv, NEW name, NEW n \in {0, 1, 2}, NEW typed \in BOOLEAN, NEW coded \in BOOLEAN,
           NEW valid \in BOOLEAN, NEW result, Operate(name, n, typed, coded, valid, result),
           typed /\ coded /\ valid => Sound(result),
           typed /\ coded /\ ~valid => Cause(name)
    PROVE  Inv'
<1>1. phase = "building" /\ Len(stack) >= n /\ op' = name
  BY DEF Operate
<1> nodes' \in 0 .. MaxNodes
  BY MaxNodesAssumption DEF Inv, Operate
<1>2. CASE typed /\ coded /\ valid
  <2>1. Replace(n, result) /\ phase' = "building"
    BY <1>1, <1>2 DEF Operate
  <2>2. stack' \in Seq(Operands') /\ \A i \in 1 .. Len(stack') : Sound(stack'[i])
    BY <1>1, <1>2, <2>1, ReplaceKeeps
  <2> QED  BY <1>1, <2>1, <2>2 DEF Inv, InvalidForCause, Phases
<1>3. CASE ~(typed /\ coded /\ valid)
  <2>1. /\ stack' = stack
        /\ phase' = IF ~typed THEN "rejected" ELSE IF ~coded THEN "failed" ELSE "invalid"
    BY <1>3 DEF Operate
  <2>2. InvalidForCause'
    <3>1. Cause(name) => Cause(op)'
      BY <1>1, <2>1 DEF Cause, Top, Below
    <3> QED  BY <1>3, <2>1, <3>1 DEF InvalidForCause
  <2> QED  BY <1>1, <2>1, <2>2 DEF Inv, Operands, Phases
<1> QED  BY <1>2, <1>3

LEMMA UseKeeps ==
    ASSUME Inv, NEW name, NEW typed \in BOOLEAN, NEW valid \in BOOLEAN, NEW result,
           Use(name, typed, valid, result),
           typed /\ valid => IsOperand(result) /\ Delivered(result),
           typed /\ ~valid => Cause(name)
    PROVE  Inv'
<1>1. phase = "building" /\ Len(stack) = 1 /\ op' = name /\ nodes' = nodes
  BY DEF Use
<1>2. CASE typed /\ valid
  <2>1. stack' = <<result>> /\ phase' = "used"
    BY <1>2 DEF Use
  <2>2. stack' \in Seq({result}) /\ Len(stack') = 1 /\ stack'[1] = result
    BY <2>1
  <2>3. stack' \in Seq(Operands')
    BY <2>2, SelfSeq DEF Operands
  <2> QED  BY <1>1, <1>2, <2>1, <2>2, <2>3 DEF Inv, InvalidForCause, Phases
<1>3. CASE ~(typed /\ valid)
  <2>1. stack' = stack /\ phase' = IF ~typed THEN "rejected" ELSE "invalid"
    BY <1>3 DEF Use
  <2>2. InvalidForCause'
    <3>1. Cause(name) => Cause(op)'
      BY <1>1, <2>1 DEF Cause, Top, Below
    <3> QED  BY <1>3, <2>1, <3>1 DEF InvalidForCause
  <2> QED  BY <1>1, <2>1, <2>2 DEF Inv, Operands, Phases
<1> QED  BY <1>2, <1>3

--------------------------------------------------------------------------------
(* One lemma per action. *)

LEMMA LeavesKeep ==
    ASSUME Inv, codegen_expr_ident \/ codegen_expr_lit \/ codegen_expr_call
    PROVE  Inv'
<1>1. ASSUME codegen_expr_ident PROVE Inv'
  <2>1. PICK t \in Locals : Operate("ident", 0, TRUE, TRUE, TRUE, Operand("ident", TRUE, t, "alloca", "address"))
    BY <1>1 DEF codegen_expr_ident
  <2> QED  BY <2>1, IdentSound, OperateKeeps
<1>2. ASSUME codegen_expr_lit PROVE Inv'
  <2>1. PICK n \in Literals : Operate(n, 0, TRUE, TRUE, TRUE, Operand(n, FALSE, I32, "other", "value"))
    BY <1>2 DEF codegen_expr_lit
  <2>2. Sound(Operand(n, FALSE, I32, "other", "value"))
    BY ValueSound
  <2> QED  BY <2>1, <2>2, OperateKeeps
<1>3. ASSUME codegen_expr_call PROVE Inv'
  <2>1. PICK t \in Results : Operate("call", 0, TRUE, TRUE, TRUE, Operand("call", FALSE, t, "other", "value"))
    BY <1>3 DEF codegen_expr_call
  <2>2. Sound(Operand("call", FALSE, t, "other", "value"))
    BY ValueSound
  <2> QED  BY <2>1, <2>2, OperateKeeps
<1> QED  BY <1>1, <1>2, <1>3

LEMMA NegateKeeps ==
    ASSUME Inv, Negate
    PROVE  Inv'
<1> DEFINE r == [codegen_load_if_needed(Top) EXCEPT !.form = "unary", !.lvalue = FALSE,
                                                    !.inst = "other", !.pointer = <<>>]
<1>1. stack # <<>> /\ Operate("-", 1, type_is_integer(Top.type), TRUE, TRUE, r)
  BY DEF Negate
<1>2. phase # "used"
  BY <1>1 DEF Operate
<1>3. Sound(r)
  BY <1>1, <1>2, TopSound, NegateSound
<1>4. type_is_integer(Top.type) \in BOOLEAN
  BY Sizes
<1> HIDE DEF r
<1> QED  BY <1>1, <1>3, <1>4, OperateKeeps

LEMMA UncodedKeeps ==
    ASSUME Inv, Uncoded
    PROVE  Inv'
<1>1. type_is_integer(Top.type) \in BOOLEAN
  BY Sizes
<1>2. CASE Operate("+", 1, type_is_integer(Top.type), FALSE, TRUE, Top)
  BY <1>1, <1>2, OperateKeeps
<1>3. CASE Operate("!", 1, TRUE, FALSE, TRUE, Top)
  BY <1>3, OperateKeeps
<1>4. CASE Operate("~", 1, FALSE, TRUE, TRUE, Top)
  BY <1>4, OperateKeeps
<1> QED  BY <1>2, <1>3, <1>4 DEF Uncoded

LEMMA AddressKeeps ==
    ASSUME Inv, AddressOf
    PROVE  Inv'
<1> DEFINE r == [Operand("addr", FALSE, Pointer(Top.type), Top.inst,
                         IF Top.holds = "address" THEN "value" ELSE "junk")
                   EXCEPT !.plain = Top.plain /\ Top.form # "deref"]
<1>1. stack # <<>> /\ Operate("?", 1, Top.lvalue, TRUE, TRUE, r)
  BY DEF AddressOf
<1>2. Sound(Top)
  BY <1>1, TopSound DEF Operate
<1>3. Top.lvalue \in BOOLEAN
  BY <1>2 DEF Sound, Faithful, IsOperand
<1>4. Top.lvalue => Sound(r)
  BY <1>2, AddressSound
<1> HIDE DEF r
<1> QED  BY <1>1, <1>3, <1>4, OperateKeeps

LEMMA DereferenceKeeps ==
    ASSUME Inv, Dereference
    PROVE  Inv'
<1> DEFINE typed == type_is_pointer_like(Top.type)
           t == IF typed THEN Base(Top.type) ELSE Top.type
           r == [Operand("deref", TRUE, t, "other", IF DerefPointer(Top) = "value" THEN "value" ELSE "junk")
                   EXCEPT !.pointer = <<[Top EXCEPT !.pointer = <<>>]>>, !.plain = DerefPlain(Top)]
<1>1. stack # <<>> /\ Operate("@", 1, typed, TRUE, ~Top.fat, r)
  BY DEF Dereference
<1>2. Sound(Top)
  BY <1>1, TopSound DEF Operate
<1>3. typed \in BOOLEAN /\ (Top.fat => Cause("@"))
  BY Sizes DEF Cause
<1> HIDE DEF t
<1>4. typed => Sound(r)
  BY <1>2, DereferenceSound
<1> HIDE DEF r, typed
<1> QED  BY <1>1, <1>3, <1>4, OperateKeeps

LEMMA FieldKeeps ==
    ASSUME Inv, Field
    PROVE  Inv'
<1> DEFINE b == FieldBase(Top)
           object == AnalysedObject(Top)
           address == IF IsSlice(FieldObjectType(b)) THEN SliceAddress(b) ELSE StructAddress(b)
           typed == object = Struct \/ IsSlice(object)
           coded == FieldObjectType(b) = Struct \/ IsSlice(FieldObjectType(b))
           r(type) == [Operand("field", Top.lvalue, type, "gep",
                               IF address = "value" THEN "address" ELSE "junk")
                         EXCEPT !.plain = FieldPlain(Top, type)]
<1>1. stack # <<>> /\ \E type : Operate(".", 1, typed, coded, ~b.fat, r(type))
  BY DEF Field
<1>2. PICK type : Operate(".", 1, typed, coded, ~b.fat, r(type))
  BY <1>1
<1>3. Sound(Top)
  BY <1>1, <1>2, TopSound DEF Operate
<1>4. Sound(r(type))
  BY <1>3, FieldSound
<1>5. typed \in BOOLEAN /\ coded \in BOOLEAN
  BY Zenon DEF IsSlice
<1>6. b.fat => Cause(".")
  BY DEF Cause
<1> HIDE DEF r, typed, coded, b
<1> QED  BY <1>2, <1>4, <1>5, <1>6, OperateKeeps

LEMMA IndexKeeps ==
    ASSUME Inv, Index
    PROVE  Inv'
<1> DEFINE i == codegen_load_if_needed(Top)
           object == AnalysedObject(Below)
           typed == IsSlice(object) /\ type_is_integer(Top.type)
           direct == IsSlice(Below.type)
           s == codegen_load_if_needed(Below)
           t == IF typed THEN Base(object) ELSE I32
           r == [Operand("index", TRUE, t, "gep",
                         IF direct /\ Computed(<<s, i>>) = "value" THEN "address" ELSE "junk")
                   EXCEPT !.plain = Plain(<<Below, Top>>) /\ direct]
<1>1. Len(stack) >= 2 /\ Operate("[]", 2, typed, TRUE, ~s.fat, r)
  BY DEF Index
<1>2. Sound(Top) /\ Sound(Below)
  <2>1. stack # <<>>
    BY <1>1
  <2> QED  BY <1>1, <2>1, TopSound DEF Operate
<1>3. typed \in BOOLEAN
  BY Zenon DEF IsSlice, type_is_integer
<1> HIDE DEF t
<1>4. Sound(r)
  BY <1>2, IndexSound
<1>5. s.fat => Cause("[]")
  <2>1. Loaded(Below, s)
    BY <1>2, LoadIsLoaded DEF Sound
  <2> HIDE DEF s
  <2> QED  BY <2>1 DEF Loaded, Cause
<1> HIDE DEF r, typed, s
<1> QED  BY <1>1, <1>3, <1>4, <1>5, OperateKeeps

LEMMA BothLoaded ==
    ASSUME Inv, phase # "used", Len(stack) >= 2
    PROVE  /\ Sound(Below) /\ Sound(Top)
           /\ Loaded(Below, codegen_load_if_needed(Below))
           /\ Loaded(Top, codegen_load_if_needed(Top))
<1>1. stack # <<>>
  OBVIOUS
<1>2. Sound(Below) /\ Sound(Top)
  BY <1>1, TopSound
<1> QED  BY <1>2, LoadIsLoaded DEF Sound

LEMMA ArithmeticKeeps ==
    ASSUME Inv, Arithmetic
    PROVE  Inv'
<1> DEFINE l == codegen_load_if_needed(Below)
           r == codegen_load_if_needed(Top)
           lp == type_is_pointer_like(l.type)
           rp == type_is_pointer_like(r.type)
           moves(sign) == sign \in {"+", "-"}
           moved == [Binary("binary", l, r, l.type, 64) EXCEPT !.inst = "gep", !.exact = TRUE]
           typed(sign) == \/ Numeric(l, r)
                          \/ moves(sign) /\ rp /\ type_is_integer(l.type)
                          \/ sign = "-" /\ lp /\ rp
           valid == Numeric(l, r) /\ SameWidth(l, r)
           result(sign) == Binary("binary", l, r, Promoted(sign, l.type, r.type), Extended(l, r))
<1>1. Len(stack) >= 2
  BY DEF Arithmetic
<1>2. PICK sign \in {"+", "-", "*", "|"} :
        IF moves(sign) /\ lp /\ type_is_integer(r.type)
        THEN Operate(sign, 2, TRUE, TRUE, ~l.fat, moved)
        ELSE Operate(sign, 2, typed(sign), TRUE, valid, result(sign))
  BY DEF Arithmetic
<1>3. phase # "used"
  BY <1>2 DEF Operate
<1>4. Loaded(Below, l) /\ Loaded(Top, r)
  BY <1>1, <1>3, BothLoaded
<1>5. CASE moves(sign) /\ lp /\ type_is_integer(r.type)
  <2>1. Operate(sign, 2, TRUE, TRUE, ~l.fat, moved)
    BY <1>2, <1>5
  <2> HIDE DEF l, r
  <2>2. Sound(moved)
    BY <1>4, <1>5, MovedSound
  <2>3. l.fat => Cause(sign)
    BY <1>4, <1>5 DEF Loaded, Cause
  <2> HIDE DEF moved
  <2> QED  BY <2>1, <2>2, <2>3, OperateKeeps
<1>6. CASE ~(moves(sign) /\ lp /\ type_is_integer(r.type))
  <2>1. Operate(sign, 2, typed(sign), TRUE, valid, result(sign))
    BY <1>2, <1>6
  <2> HIDE DEF l, r
  <2>2. Numeric(l, r) => Sound(result(sign))
    BY <1>4, ArithmeticSound
  <2>3. typed(sign) /\ ~valid => Cause(sign)
    <3> SUFFICES ASSUME typed(sign), ~valid PROVE Cause(sign)
      OBVIOUS
    <3>1. CASE Numeric(l, r)
      <4>1. ~Below.exact \/ ~Top.exact
        BY <1>4, <3>1, WidthsAgree DEF Loaded
      <4> QED  BY <4>1 DEF Cause
    <3>2. CASE ~Numeric(l, r)
      <4>1. moves(sign) /\ type_is_pointer_like(Top.type)
        BY <1>4, <3>2 DEF Loaded
      <4> QED  BY <4>1 DEF Cause
    <3> QED  BY <3>1, <3>2
  <2>4. valid \in BOOLEAN /\ typed(sign) \in BOOLEAN
    BY Zenon DEF Numeric, SameWidth, type_is_integer
  <2>5. valid => Numeric(l, r)
    OBVIOUS
  <2> HIDE DEF typed, valid, result
  <2> QED  BY <2>1, <2>2, <2>3, <2>4, <2>5, OperateKeeps
<1> QED  BY <1>5, <1>6

LEMMA ShiftKeeps ==
    ASSUME Inv, Shift
    PROVE  Inv'
<1> DEFINE l == codegen_load_if_needed(Below)
           r == codegen_load_if_needed(Top)
           valid == Numeric(l, r) /\ SameWidth(l, r)
           result == [Binary("binary", l, r, l.type, Extended(l, r))
                        EXCEPT !.exact = @ /\ Size(l.type) >= Size(r.type)]
<1>1. Len(stack) >= 2 /\ Operate("<<", 2, Numeric(l, r), TRUE, valid, result)
  BY DEF Shift
<1>2. Loaded(Below, l) /\ Loaded(Top, r)
  BY <1>1, BothLoaded DEF Operate
<1> HIDE DEF l, r
<1>3. Numeric(l, r) => Sound(result)
  BY <1>2, ShiftSound
<1>4. Numeric(l, r) /\ ~valid => Cause("<<")
  BY <1>2, WidthsAgree DEF Loaded, Cause
<1>5. valid \in BOOLEAN /\ Numeric(l, r) \in BOOLEAN
  BY Zenon DEF Numeric, SameWidth
<1>6. valid => Numeric(l, r)
  OBVIOUS
<1> HIDE DEF valid, result
<1> QED  BY <1>1, <1>3, <1>4, <1>5, <1>6, OperateKeeps

\* A comparison of numbers or sound pointers is refused for the width of an operand only.
LEMMA CompareKeeps ==
    ASSUME Inv, Compare
    PROVE  Inv'
<1> DEFINE l == codegen_load_if_needed(Below)
           r == codegen_load_if_needed(Top)
           result == [Binary("compare", l, r, U8, 1) EXCEPT !.exact = FALSE]
           scalars == Comparable(l.type) /\ Comparable(r.type) /\ ~l.fat /\ ~r.fat
           equal == scalars /\ Extend(l, r)
           ordered == \/ Numeric(l, r) /\ SameWidth(l, r)
                      \/ scalars /\ type_is_pointer_like(l.type) /\ type_is_pointer_like(r.type)
<1>1. /\ Len(stack) >= 2
      /\ \/ Operate("==", 2, TRUE, TRUE, equal, result)
         \/ Operate("<", 2, TRUE, TRUE, ordered, result)
         \/ Operate("&&", 2, TRUE, TRUE, equal, result)
  BY DEF Compare
<1>2. Loaded(Below, l) /\ Loaded(Top, r)
  BY <1>1, BothLoaded DEF Operate
<1> HIDE DEF l, r
<1>3. Sound(result)
  BY <1>2, CompareSound
<1>4. /\ l.exact = Below.exact /\ r.exact = Top.exact /\ l.type = Below.type /\ r.type = Top.type
      /\ l.fat = Below.fat /\ r.fat = Top.fat
  BY <1>2 DEF Loaded
<1>5. Below.exact /\ Top.exact /\ Numeric(l, r) => Extend(l, r) /\ SameWidth(l, r)
  BY <1>2, <1>4, WidthsAgree DEF SameWidth
<1>6. ~equal => Cause("==") /\ Cause("&&")
  <2>1. ~equal => \/ ~Comparable(Below.type) \/ ~Comparable(Top.type) \/ ~Extend(l, r)
                  \/ Below.fat \/ Top.fat
    BY <1>4
  <2>2. ~Extend(l, r) => Numeric(l, r)
    BY DEF Extend, Narrower, Numeric
  <2> QED  BY <1>5, <2>1, <2>2 DEF Cause
<1>7. ~ordered => Cause("<")
  <2>1. ASSUME ~ordered, Comparable(Below.type), Comparable(Top.type), Below.exact, Top.exact,
               ~Below.fat, ~Top.fat
        PROVE  ~(type_is_pointer_like(Below.type) <=> type_is_pointer_like(Top.type))
    BY <1>4, <1>5, <2>1 DEF Comparable, Numeric
  <2> QED  BY <2>1 DEF Cause
<1>8. equal \in BOOLEAN /\ ordered \in BOOLEAN
  BY Zenon DEF Comparable, Numeric, SameWidth
<1> HIDE DEF equal, ordered, result, scalars
<1> QED  BY <1>1, <1>3, <1>6, <1>7, <1>8, OperateKeeps

LEMMA AssignKeeps ==
    ASSUME Inv, Assign
    PROVE  Inv'
<1> DEFINE v == Stored(codegen_load_if_needed(Top), Below.type)
           typed == Below.lvalue /\ type_can_assign_to(Top.type, Below.type)
           a == [v EXCEPT !.form = "assign", !.lvalue = FALSE,
                         !.holds = IF StoreAddress(Below) = "value" THEN @ ELSE "junk",
                         !.plain = @ /\ StorePlain(Below),
                         !.pointer = <<>>]
<1>1. Len(stack) >= 2 /\ Operate("=", 2, typed, TRUE, TRUE, a)
  BY DEF Assign
<1>2. Sound(Below) /\ Sound(Top)
  BY <1>1, BothLoaded DEF Operate
<1>3. typed => Sound(a)
  BY <1>2, AssignSound
<1>4. typed \in BOOLEAN
  BY Zenon DEF type_can_assign_to
<1> HIDE DEF typed, a
<1> QED  BY <1>1, <1>3, <1>4, OperateKeeps

\* A value as wide as its type converts to any integer type.
LEMMA ConvertsExact ==
    ASSUME NEW o, NEW v, Loaded(o, v), NEW t, o.exact
    PROVE  Converts(v, t)
<1>1. type_is_integer(v.type) => v.bits = 8 * Size(v.type)
  BY DEF Loaded, Width
<1> QED  BY <1>1, Sizes DEF Converts, Width

LEMMA CastKeeps ==
    ASSUME Inv, Cast
    PROVE  Inv'
<1> DEFINE v == codegen_load_if_needed(Top)
           pointers(t) == type_is_pointer_like(t) /\ type_is_pointer_like(Top.type)
           reread(t) == type_is_integer(t) /\ type_is_integer(Top.type) /\ Size(t) = Size(Top.type)
           typed(t) == CastTyped(Top.type, t)
           coded(t) == Comparable(Top.type) /\ Comparable(t)
           valid(t) == Converts(v, t) /\ (v.fat => type_is_pointer_like(t))
           c(t) == [v EXCEPT !.form = IF pointers(t) /\ @ \in {"addr", "binary", "assign"} THEN @ ELSE "cast",
                         !.lvalue = FALSE, !.type = t, !.pointer = <<>>,
                         !.inst = IF pointers(t) THEN @ ELSE "other",
                         !.bits = IF reread(t) THEN @ ELSE Width(t),
                         !.exact = reread(t) => @]
<1>1. PICK t \in Params : Operate("::", 1, typed(t), coded(t), valid(t), c(t))
  BY DEF Cast
<1>2. stack # <<>>
  BY DEF Cast
<1>3. Sound(Top)
  BY <1>1, <1>2, TopSound DEF Operate
<1>4. Sound(c(t))
  BY <1>3, CastSound
<1>5. ~valid(t) => Cause("::")
  <2>1. Loaded(Top, v)
    BY <1>3, LoadIsLoaded DEF Sound
  <2> HIDE DEF v
  <2>2. ~Converts(v, t) => ~Top.exact
    BY <2>1, ConvertsExact
  <2> QED  BY <2>1, <2>2 DEF Loaded, Cause
<1>6. typed(t) \in BOOLEAN /\ coded(t) \in BOOLEAN /\ valid(t) \in BOOLEAN
  BY Zenon DEF CastTyped, Comparable, Converts
<1> HIDE DEF typed, coded, valid, c
<1> QED  BY <1>1, <1>4, <1>5, <1>6, OperateKeeps

\* A value that is not loaded again.
LEMMA ValueDelivered ==
    ASSUME NEW r, IsOperand(r), ~Loads(r), r.plain => r.holds = "value",
           r.exact /\ type_is_integer(r.type) => r.bits = Width(r.type)
    PROVE  Delivered(r)
<1> DEFINE w == codegen_load_if_needed(r)
<1>1. w = [r EXCEPT !.holds = IF @ = "address" THEN "junk" ELSE @]
  BY DEF codegen_load_if_needed
<1>2. /\ w.holds = IF r.holds = "address" THEN "junk" ELSE r.holds
      /\ w.type = r.type /\ w.bits = r.bits /\ w.exact = r.exact
  BY <1>1 DEF IsOperand
<1> HIDE DEF w
<1>3. /\ r.plain => w.holds = "value"
      /\ w.exact /\ type_is_integer(w.type) => w.bits = Width(w.type)
  BY <1>2
<1> QED  BY <1>3 DEF Delivered, w

\* What is used is what was loaded, under the type it is used as.
LEMMA UsedIsDelivered ==
    ASSUME NEW o, NEW v, Loaded(o, v), NEW t, type_can_assign_to(o.type, t),
           NEW bits \in Nat, type_is_integer(t) /\ v.exact => bits = Width(t)
    PROVE  LET r == [v EXCEPT !.type = t, !.bits = bits]
           IN  IsOperand(r) /\ Delivered(r)
<1> DEFINE r == [v EXCEPT !.type = t, !.bits = bits]
<1>1. IsOperand(v)
  BY DEF Loaded
<1>2. /\ IsOperand(r) /\ r.inst = v.inst /\ r.lvalue = v.lvalue /\ r.type = t /\ r.holds = v.holds
      /\ r.plain = v.plain /\ r.bits = bits /\ r.exact = v.exact
  BY <1>1 DEF IsOperand
<1> HIDE DEF r
<1>3. ~Loads(r)
  BY <1>2, Assignable DEF Loads, Loaded
<1>4. Delivered(r)
  BY <1>2, <1>3, ValueDelivered DEF Loaded
<1> QED  BY <1>2, <1>4 DEF r

LEMMA HintSound ==
    ASSUME NEW o, Sound(o), NEW t
    PROVE  Sound(analyze_lit_expr_with_hint(o, t))
<1>1. CASE analyze_lit_expr_with_hint(o, t) = o
  BY <1>1
<1>2. CASE /\ o.form \in Literals
           /\ analyze_lit_expr_with_hint(o, t) = [o EXCEPT !.type = t, !.bits = Width(t)]
  <2> DEFINE h == [o EXCEPT !.type = t, !.bits = Width(t)]
  <2>1. IsOperand(o) /\ Width(t) \in Nat
    BY Sizes DEF Sound, Faithful
  <2>2. /\ IsOperand(h) /\ h.form = o.form /\ h.lvalue = o.lvalue /\ h.type = t /\ h.inst = o.inst
        /\ h.holds = o.holds /\ h.bits = Width(t) /\ h.plain = o.plain /\ h.exact = o.exact
    BY <2>1 DEF IsOperand
  <2> HIDE DEF h
  <2>3. o.inst = "other" /\ o.form \notin {"ident", "deref", "call", "binary", "cast"}
    BY <1>2 DEF Sound, Faithful, Formed, Literals
  <2>4. Sound(h)
    BY <2>2, <2>3 DEF Sound, Faithful, Formed, Loads
  <2> QED  BY <1>2, <2>4 DEF h
<1> QED  BY <1>1, <1>2 DEF analyze_lit_expr_with_hint

LEMMA VarKeeps ==
    ASSUME Inv, codegen_stmt_var
    PROVE  Inv'
<1> DEFINE o(t) == analyze_lit_expr_with_hint(Top, t)
           v(t) == codegen_load_if_needed(o(t))
           typed(t) == type_can_assign_to(o(t).type, t)
           r(t) == Stored(v(t), t)
<1>1. stack # <<>> /\ \E t \in Params : Use("var", typed(t), TRUE, r(t))
  BY DEF codegen_stmt_var
<1>2. PICK t \in Params : Use("var", typed(t), TRUE, r(t))
  BY <1>1
<1>3. Sound(Top)
  BY <1>1, <1>2, TopSound DEF Use
<1>4. Sound(o(t))
  BY <1>3, HintSound
<1>5. Loaded(o(t), v(t))
  BY <1>4, LoadIsLoaded DEF Sound
<1>6. typed(t) => IsOperand(r(t)) /\ Delivered(r(t))
  <2> HIDE DEF v, o
  <2> SUFFICES ASSUME typed(t) PROVE IsOperand(r(t)) /\ Delivered(r(t))
    OBVIOUS
  <2>1. /\ IsOperand(r(t)) /\ r(t).type = t /\ r(t).lvalue = v(t).lvalue /\ r(t).inst = v(t).inst
        /\ r(t).plain => r(t).holds = "value"
        /\ r(t).exact /\ type_is_integer(t) => r(t).bits = Width(t)
        /\ r(t).inst # "other" => type_is_pointer_like(t)
    BY <1>5, StoredIs
  <2> HIDE DEF r
  <2>2. ~Loads(r(t))
    BY <1>5, <2>1 DEF Loads, Loaded, IsOperand, Insts
  <2> QED  BY <2>1, <2>2, ValueDelivered
<1>7. typed(t) \in BOOLEAN
  BY Zenon DEF type_can_assign_to
<1> HIDE DEF typed, r
<1> QED  BY <1>2, <1>6, <1>7, UseKeeps

LEMMA ArgumentKeeps ==
    ASSUME Inv, Argument
    PROVE  Inv'
<1> DEFINE v == codegen_load_if_needed(Top)
           sized(t) == type_is_integer(t) /\ Size(t) # Size(v.type)
           bits(t) == IF sized(t) THEN Width(t) ELSE v.bits
           typed(t) == type_can_assign_to(Top.type, t)
           valid(t) == ~v.fat /\ Converts(v, t) /\ (type_is_integer(t) => bits(t) = Width(t))
           r(t) == [v EXCEPT !.type = t, !.bits = bits(t)]
<1>1. stack # <<>> /\ \E t \in Params : Use("argument", typed(t), valid(t), r(t))
  BY DEF Argument
<1>2. PICK t \in Params : Use("argument", typed(t), valid(t), r(t))
  BY <1>1
<1>3. Sound(Top)
  BY <1>1, <1>2, TopSound DEF Use
<1>4. Loaded(Top, v)
  BY <1>3, LoadIsLoaded DEF Sound
<1> HIDE DEF v
<1>5. IsOperand(v) /\ v.bits \in Nat /\ v.exact \in BOOLEAN
  BY <1>4 DEF Loaded, IsOperand
<1>6. typed(t) /\ valid(t) => IsOperand(r(t)) /\ Delivered(r(t))
  <2> SUFFICES ASSUME typed(t), valid(t) PROVE IsOperand(r(t)) /\ Delivered(r(t))
    OBVIOUS
  <2>1. bits(t) \in Nat /\ (type_is_integer(t) => bits(t) = Width(t))
    BY <1>5, Sizes
  <2> HIDE DEF bits
  <2> QED  BY <1>4, <2>1, UsedIsDelivered
<1>7. typed(t) /\ ~valid(t) => Cause("argument")
  <2> SUFFICES ASSUME typed(t), ~valid(t), Top.exact, ~Top.fat PROVE FALSE
    BY DEF Cause
  <2>1. ~v.fat /\ Converts(v, t)
    BY <1>4, ConvertsExact DEF Loaded
  <2>2. type_is_integer(t) /\ type_is_integer(Top.type)
    BY <2>1, Assignable
  <2>3. v.type = Top.type /\ v.bits = 8 * Size(v.type)
    BY <1>4, <2>2 DEF Loaded, Width
  <2>4. bits(t) = Width(t)
    BY <2>2, <2>3 DEF Width
  <2> QED  BY <2>1, <2>4
<1>8. typed(t) \in BOOLEAN /\ valid(t) \in BOOLEAN
  BY Zenon DEF type_can_assign_to, Converts
<1> HIDE DEF typed, valid, r
<1> QED  BY <1>2, <1>6, <1>7, <1>8, UseKeeps

LEMMA ReturnKeeps ==
    ASSUME Inv, codegen_stmt_ret
    PROVE  Inv'
<1> DEFINE v == codegen_load_if_needed(Top)
           typed(t) == type_can_assign_to(Top.type, t)
           valid(t) == IsSlice(Top.type) = IsSlice(t) /\ ~v.fat
           r(t) == [v EXCEPT !.type = t, !.bits = IF type_is_integer(t) THEN Width(t) ELSE @]
<1>1. stack # <<>> /\ \E t \in Params : Use("ret", typed(t), valid(t), r(t))
  BY DEF codegen_stmt_ret
<1>2. PICK t \in Params : Use("ret", typed(t), valid(t), r(t))
  BY <1>1
<1>3. Sound(Top)
  BY <1>1, <1>2, TopSound DEF Use
<1>4. Loaded(Top, v)
  BY <1>3, LoadIsLoaded DEF Sound
<1> HIDE DEF v
<1>5. IsOperand(v) /\ v.bits \in Nat /\ v.exact \in BOOLEAN
  BY <1>4 DEF Loaded, IsOperand
<1>6. typed(t) => IsOperand(r(t)) /\ Delivered(r(t))
  <2> SUFFICES ASSUME typed(t) PROVE IsOperand(r(t)) /\ Delivered(r(t))
    OBVIOUS
  <2> DEFINE bits == IF type_is_integer(t) THEN Width(t) ELSE v.bits
             w == [v EXCEPT !.type = t, !.bits = bits]
  <2>1. bits \in Nat /\ (type_is_integer(t) => bits = Width(t))
    BY <1>5, Sizes
  <2>2. r(t) = w
    BY <1>5 DEF IsOperand
  <2> HIDE DEF bits
  <2>3. IsOperand(w) /\ Delivered(w)
    BY <1>4, <1>5, <2>1, UsedIsDelivered
  <2> QED  BY <2>2, <2>3
<1>7. typed(t) /\ ~valid(t) => Cause("ret")
  BY <1>4 DEF Loaded, Cause, type_can_assign_to, type_equals, type_is_integer, type_is_pointer_like, IsSlice,
         U8, I8, I32, U64
<1>8. typed(t) \in BOOLEAN /\ valid(t) \in BOOLEAN
  BY Zenon DEF type_can_assign_to
<1> HIDE DEF typed, valid, r
<1> QED  BY <1>2, <1>6, <1>7, <1>8, UseKeeps

LEMMA InitHolds == Init => Inv
<1> SUFFICES ASSUME Init PROVE Inv
  OBVIOUS
<1>1. stack = <<>> /\ nodes = 0 /\ phase = "building"
  BY DEF Init
<1>2. Len(stack) = 0 /\ stack \in Seq(Operands) /\ nodes \in 0 .. MaxNodes
  BY <1>1, MaxNodesAssumption
<1> QED  BY <1>1, <1>2 DEF Inv, Phases, InvalidForCause

LEMMA NextKeeps == Inv /\ [Next]_vars => Inv'
<1> SUFFICES ASSUME Inv, [Next]_vars PROVE Inv'
  OBVIOUS
<1>1. ASSUME Build PROVE Inv'
  BY <1>1, LeavesKeep, NegateKeeps, UncodedKeeps, AddressKeeps, DereferenceKeeps, FieldKeeps,
     IndexKeeps, ArithmeticKeeps, ShiftKeeps, CompareKeeps, AssignKeeps, CastKeeps DEF Build
<1>2. CASE UNCHANGED vars
  BY <1>2 DEF Inv, vars, Operands, InvalidForCause, Cause, Top, Below
<1> QED  BY <1>1, <1>2, VarKeeps, ArgumentKeeps, ReturnKeeps DEF Next, Finished

\* What Inv says of operands holds of every expression that can be built.
THEOREM Invariant == Spec => []Inv
  BY InitHolds, NextKeeps, PTL DEF Spec

--------------------------------------------------------------------------------
(* The properties. *)

LEMMA InvDenotes ==
    ASSUME Inv
    PROVE  PlainExpressionsDenote /\ WidthOfType
<1>1. DOMAIN stack = 1 .. Len(stack)
  BY DEF Inv
<1>2. CASE phase = "used"
  <2>1. \A i \in DOMAIN stack : Delivered(stack[i])
    BY <1>1, <1>2 DEF Inv
  <2> QED  BY <1>2, <2>1 DEF PlainExpressionsDenote, WidthOfType, Delivered
<1>3. CASE phase # "used"
  <2>1. ASSUME NEW i \in DOMAIN stack
        PROVE  Sound(stack[i]) /\ Loaded(stack[i], codegen_load_if_needed(stack[i]))
    BY <1>1, <1>3, LoadIsLoaded DEF Inv, Sound
  <2>2. ASSUME NEW i \in DOMAIN stack, stack[i].lvalue, StorePlain(stack[i])
        PROVE  StoreAddress(stack[i]) = "value"
    <3>1. Sound(stack[i])
      BY <2>1
    <3> QED  BY <2>2, <3>1, PointerIsValue DEF StorePlain, StoreAddress, Sound, Faithful
  <2>3. PlainExpressionsDenote
    BY <2>1, <2>2 DEF PlainExpressionsDenote, Loaded
  <2>4. WidthOfType
    BY <2>1 DEF WidthOfType, Loaded
  <2> QED  BY <2>3, <2>4
<1> QED  BY <1>2, <1>3

LEMMA InvTypes ==
    ASSUME Inv
    PROVE  TypeOK
<1>1. nodes \in 0 .. MaxNodes /\ phase \in Phases /\ DOMAIN stack = 1 .. Len(stack)
  BY DEF Inv
<1>2. ASSUME NEW i \in DOMAIN stack PROVE IsOperand(stack[i])
  BY <1>1 DEF Inv, Sound, Faithful
<1>3. ASSUME NEW i \in DOMAIN stack
      PROVE  /\ stack[i].inst \in Insts /\ stack[i].holds \in Holds
             /\ stack[i].lvalue \in BOOLEAN /\ stack[i].plain \in BOOLEAN /\ stack[i].exact \in BOOLEAN
             /\ stack[i].fat \in BOOLEAN
  BY <1>2 DEF IsOperand
<1> QED  BY <1>1, <1>3 DEF TypeOK, Insts, Holds

\* Every variable has its type.
THEOREM TypeCorrect == Spec => []TypeOK
  BY Invariant, InvTypes, PTL

\* Whatever is written without the confusing forms, codegen's guess from the
\* instruction is right: a consumer gets the value, a store the address.
THEOREM Denoting == Spec => []PlainExpressionsDenote
  BY Invariant, InvDenotes, PTL

\* A store of an exact integer writes as many bits as its type has.
THEOREM Widths == Spec => []WidthOfType
  BY Invariant, InvDenotes, PTL

\* The LLVM verifier refuses what the analysis accepted for the named causes only.
THEOREM InvalidCauses == Spec => []InvalidForCause
<1>1. Inv => InvalidForCause
  BY DEF Inv
<1> QED  BY <1>1, Invariant, PTL

LEMMA PatternsAreNat ==
    ASSUME NEW bits
    PROVE  Patterns(bits) \in Nat
<1>1. 2 * Half \in Nat
  BY HalfAssumption
<1>2. ASSUME NEW x \in Nat PROVE x * x \in Nat
  OBVIOUS
<1> DEFINE square == (2 * Half) * (2 * Half)
<1>3. square \in Nat /\ square * square \in Nat /\ (square * square) * (square * square) \in Nat
  BY <1>1, <1>2
<1> DEFINE p4 == square * square
           p8 == p4 * p4
<1>4. Patterns(bits) = IF bits = 1 THEN 2 ELSE IF bits = 8 THEN 2 * Half ELSE IF bits = 32 THEN p4 ELSE p8
  BY DEF Patterns
<1>5. p4 \in Nat /\ p8 \in Nat
  BY <1>3
<1> HIDE DEF p4, p8, square
<1> QED  BY <1>1, <1>4, <1>5

LEMMA BoundariesAreInt ==
    ASSUME NEW bits, NEW v \in Boundaries(bits)
    PROVE  v \in Int
  BY PatternsAreNat DEF Boundaries

LEMMA IndexInside ==
    ASSUME Inv, AboutToIndex, type_is_signed(Top.type) \/ Top.bits = 64
    PROVE  IndexIsInside(codegen_load_if_needed(Top))
<1> DEFINE i == codegen_load_if_needed(Top)
<1>1. Sound(Top) /\ Loaded(Top, i) /\ type_is_integer(Top.type)
  BY BothLoaded DEF AboutToIndex
<1>2. i.type = Top.type
  BY <1>1 DEF Loaded
<1>3. ~type_is_signed(i.type) => i.bits = 64
  <2>1. IsOperand(Top) /\ (Loads(Top) => Top.bits = Width(Top.type))
    BY <1>1 DEF Sound, Faithful
  <2>2. i.bits = IF Loads(Top) THEN Width(Top.type) ELSE Top.bits
    BY <2>1 DEF codegen_load_if_needed, IsOperand
  <2> QED  BY <1>2, <2>1, <2>2
<1> HIDE DEF i
<1> SUFFICES ASSUME NEW v \in Boundaries(i.bits), NEW length \in Lengths, PassesCheck(i, v, length)
             PROVE  IndexOffset(i, v) \in 0 .. length - 1
  BY DEF IndexIsInside, i
<1>4. v \in Int /\ length \in Int /\ 2 * length < Patterns(64)
  BY BoundariesAreInt DEF Lengths
<1>5. Patterns(i.bits) \in Nat /\ Patterns(64) \in Nat
  BY PatternsAreNat
<1>6. CheckedIndex(i, v) >= 0 /\ CheckedIndex(i, v) < length
  BY DEF PassesCheck
<1>7. CheckedIndex(i, v) \in Int /\ IndexOffset(i, v) = CheckedIndex(i, v)
  <2>1. CASE type_is_signed(i.type)
    BY <1>4, <1>5, <2>1 DEF CheckedIndex, IndexOffset, Signed
  <2>2. CASE ~type_is_signed(i.type)
    BY <1>3, <1>4, <1>5, <1>6, <2>2 DEF CheckedIndex, IndexOffset, Signed
  <2> QED  BY <2>1, <2>2
<1> QED  BY <1>4, <1>6, <1>7

\* An index that is signed, or as wide as the length, and passes the bounds check
\* of a slice addresses an element of it.
THEOREM SignedIndices == Spec => []SignedIndexIsInside
<1>1. Inv => SignedIndexIsInside
  BY IndexInside DEF SignedIndexIsInside
<1> QED  BY <1>1, Invariant, PTL
=================================================================================
