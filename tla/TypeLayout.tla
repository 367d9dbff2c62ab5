----------------------------- MODULE TypeLayout ------------------------------
(* The size, the alignment and the field offsets that pass B                 *)
(* (analyze_pass_b_signatures, src/src/semantic.c) gives the named types of  *)
(* a program.  The units are visited one after the other, the entry file     *)
(* first; in a unit first the aliases are resolved, then the structs and     *)
(* then the unions are laid out, each in source order, one field at a time.  *)
(*                                                                           *)
(* A field's size and alignment are read from its type at the moment the     *)
(* field is laid out.  Types that are laid out later still have the size and *)
(* alignment they were created with in pass A.                               *)
EXTENDS Naturals, Sequences
LOCAL INSTANCE SequencesExt

CONSTANTS
    Types,        \* the named types a program can declare
    Prims,        \* types with a layout of their own: builtin, pointer, slice, function
    PrimSize,     \* their sizes
    PrimAlign,    \* and alignments
    Programs      \* the inputs

Alignments == {1, 2, 4, 8}

\* A field of some type, or of a fixed-size array of count of them.
Field == [base : Types \cup Prims, count : Nat \ {0}]

\* A program: its units in the order pass B visits them, each the sequence of
\* the types it declares; what each type is and its fields.  An alias has one
\* field, its target.
Program == [units : Seq(Seq(Types)), kind : [Types -> {"alias", "struct", "union"}],
            fields : [Types -> Seq(Field)]]

ASSUME PrimsAssumption ==
    /\ Types \cap Prims = {}
    /\ PrimSize \in [Prims -> Nat \ {0}]
    /\ PrimAlign \in [Prims -> Alignments]
ASSUME ProgramsAssumption ==
    \A p \in Programs :
        /\ p \in Program
        /\ \A t \in Types : p.kind[t] = "alias" => Len(p.fields[t]) = 1

\* Pass B's loops over the statements of a unit: those about types.
UnitOrder(p, unit) ==
    LET declared(kind) == SelectSeq(unit, LAMBDA t : p.kind[t] = kind)
    IN  declared("alias") \o declared("struct") \o declared("union")

PassOrder(p) == FlattenSeq([i \in 1 .. Len(p.units) |-> UnitOrder(p, p.units[i])])

\* No type is declared twice (pass A sees to it).
ASSUME PassOrderAssumption ==
    \A p \in Programs :
        /\ PassOrder(p) \in Seq(Types)
        /\ \A i, j \in 1 .. Len(PassOrder(p)) : PassOrder(p)[i] = PassOrder(p)[j] => i = j

VARIABLES
    program,   \* the input being compiled
    order,     \* the types in the order pass B comes to them
    turn,      \* the position in order of the type it is at
    size,      \* the size field of each named type
    align,     \* the alignment field of each named type
    offsets,   \* the offsets of the fields laid out, by type
    extents,   \* the sizes of the fields laid out, by type
    end,       \* offset (max_size for a union) while a type is laid out
    maxAlign   \* max_alignment while a type is laid out

vars == <<program, order, turn, size, align, offsets, extents, end, maxAlign>>
------------------------------------------------------------------------------
TypeOK ==
    /\ program \in Program
    /\ order \in Seq(Types)
    /\ turn \in 1 .. Len(order) + 1
    /\ size \in [Types -> Nat]
    /\ align \in [Types -> Alignments \cup {0}]
    /\ offsets \in [Types -> Seq(Nat)]
    /\ extents \in [Types -> Seq(Nat)]
    /\ end \in Nat
    /\ maxAlign \in Alignments

\* Pass A created the types: a struct or union of size 0 and alignment 1, an
\* alias, which has no target yet, of size 0 and alignment 0.
Init ==
    /\ program \in Programs
    /\ order = PassOrder(program)
    /\ turn = 1
    /\ size = [t \in Types |-> 0]
    /\ align = [t \in Types |-> IF program.kind[t] = "alias" THEN 0 ELSE 1]
    /\ offsets = [t \in Types |-> << >>]
    /\ extents = [t \in Types |-> << >>]
    /\ end = 0
    /\ maxAlign = 1
------------------------------------------------------------------------------
Current == order[turn]
Kind(t) == program.kind[t]
Fields(t) == program.fields[t]
NextField == Fields(Current)[Len(offsets[Current]) + 1]

\* type_sizeof and type_alignof of a field's type.  An array's size is fixed
\* when the field's type is resolved, just before.
SizeOf(field) ==
    field.count * (IF field.base \in Prims THEN PrimSize[field.base] ELSE size[field.base])
AlignOf(field) ==
    IF field.base \in Prims THEN PrimAlign[field.base] ELSE align[field.base]

Larger(m, n) == IF m < n THEN n ELSE m

\* A slip in Padded: a whole alignment when no padding is needed.
PaddedAlways(n, a) == IF a = 0 THEN n ELSE n + (a - (n % a))

\* n rounded up to a multiple of a.
Padded(n, a) == IF a = 0 \/ n % a = 0 THEN n ELSE n + (a - (n % a))

LayingOut(kind) == turn <= Len(order) /\ Kind(Current) = kind
MoreFields == Len(offsets[Current]) < Len(Fields(Current))

Place(at) ==
    /\ offsets' = [offsets EXCEPT ![Current] = Append(@, at)]
    /\ extents' = [extents EXCEPT ![Current] = Append(@, SizeOf(NextField))]
    /\ maxAlign' = Larger(maxAlign, AlignOf(NextField))

\* The alias gets its target; its own size and alignment stay.
ResolveAlias ==
    /\ LayingOut("alias")
    /\ turn' = turn + 1
    /\ UNCHANGED <<program, order, size, align, offsets, extents, end, maxAlign>>

\* Slips in StructField: an array counts for one element; the field goes where
\* the last one ends.
StructFieldOneElement ==
    /\ LayingOut("struct") /\ MoreFields
    /\ LET at == Padded(end, AlignOf(NextField))
       IN  /\ Place(at)
           /\ end' = at + SizeOf([NextField EXCEPT !.count = 1])
    /\ UNCHANGED <<program, order, turn, size, align>>
StructFieldUnpadded ==
    /\ LayingOut("struct") /\ MoreFields
    /\ Place(end)
    /\ end' = end + SizeOf(NextField)
    /\ UNCHANGED <<program, order, turn, size, align>>

\* resolve_str_fields, one round of its loop
StructField ==
    /\ LayingOut("struct") /\ MoreFields
    /\ LET at == Padded(end, AlignOf(NextField))
       IN  /\ Place(at)
           /\ end' = at + SizeOf(NextField)
    /\ UNCHANGED <<program, order, turn, size, align>>

\* resolve_uni_fields, one round of its loop
UnionField ==
    /\ LayingOut("union") /\ MoreFields
    /\ Place(0)
    /\ end' = Larger(end, SizeOf(NextField))
    /\ UNCHANGED <<program, order, turn, size, align>>

\* After the loop: the size is rounded up, the type is complete.
EndComposite ==
    /\ LayingOut("struct") \/ LayingOut("union")
    /\ ~ MoreFields
    /\ size' = [size EXCEPT ![Current] = Padded(end, maxAlign)]
    /\ align' = [align EXCEPT ![Current] = maxAlign]
    /\ end' = 0
    /\ maxAlign' = 1
    /\ turn' = turn + 1
    /\ UNCHANGED <<program, order, offsets, extents>>

Next == ResolveAlias \/ StructField \/ UnionField \/ EndComposite

Spec == Init /\ [][Next]_vars
------------------------------------------------------------------------------
(* Properties *)

\* The types pass B has come past.
Complete == {order[i] : i \in 1 .. turn - 1}
Composite(t) == Kind(t) # "alias"

\* A field's layout is settled when it is laid out: its type is not a named
\* one, or is a struct or union that pass B had come past.
Before(s, t) == \E i, j \in 1 .. Len(order) : i < j /\ order[i] = s /\ order[j] = t
Settled(t, i) ==
    LET base == Fields(t)[i].base
    IN  base \in Prims \/ (Composite(base) /\ Before(base, t))

\* The fields of a struct do not overlap, whatever was known of their types
\* when they were laid out, and no struct or union is too small for its fields.
FieldsDisjoint ==
    \A t \in Types :
        /\ Kind(t) = "struct" =>
             \A i, j \in 1 .. Len(offsets[t]) :
                i < j => offsets[t][i] + extents[t][i] <= offsets[t][j]
        /\ t \in Complete =>
             \A i \in 1 .. Len(offsets[t]) : offsets[t][i] + extents[t][i] <= size[t]

\* What the layout leaves out of account is exactly what was not settled: a
\* settled field lies at a multiple of the alignment its type has in the end,
\* has the size its type has in the end, and makes the whole type at least as
\* aligned ("each field is aligned to its natural alignment", types.md:81).
SettledFieldsExact ==
    \A t \in Complete : \A i \in 1 .. Len(offsets[t]) :
        Settled(t, i) =>
            /\ extents[t][i] = SizeOf(Fields(t)[i])
            /\ offsets[t][i] % AlignOf(Fields(t)[i]) = 0
            /\ AlignOf(Fields(t)[i]) <= align[t]

\* Arrays of a type keep every element aligned: its size is a multiple of its
\* alignment ("rounded up to the maximum field alignment", types.md:81, :99).
SizesRounded == \A t \in Complete : Composite(t) => size[t] % align[t] = 0

\* Padding is no more than alignment asks for: it never takes a whole
\* alignment unit, between fields or at the end.
PreviousEnd(t, i) == IF i = 1 THEN 0 ELSE offsets[t][i - 1] + extents[t][i - 1]
NoWastedSpace ==
    \A t \in Types : Kind(t) = "struct" =>
        /\ \A i \in 1 .. Len(offsets[t]) :
             Settled(t, i) => offsets[t][i] - PreviousEnd(t, i) < AlignOf(Fields(t)[i])
        /\ t \in Complete => size[t] - PreviousEnd(t, Len(offsets[t]) + 1) < align[t]

\* "Imported modules are analysed before the importing file continues, ensuring
\* that dependent types and values are available for type checking."
\* (declarations-and-modules.md:140)
UnitOf(t) == CHOOSE u \in 1 .. Len(program.units) : t \in ToSet(program.units[u])
ImportedLayoutsKnown ==
    turn > Len(order) =>
        \A t \in Complete : \A i \in 1 .. Len(offsets[t]) :
            LET base == Fields(t)[i].base
            IN  base \in Types /\ Composite(base) /\ UnitOf(base) # UnitOf(t)
                    => extents[t][i] = SizeOf(Fields(t)[i])
==============================================================================
