-------------------------- MODULE TypeLayoutProofs ---------------------------
(* Theorems about TypeLayout for any types and programs: fields do not       *)
(* overlap, sizes are rounded up, and every field whose type was complete    *)
(* has the place and the size that type asks for.                            *)
EXTENDS TypeLayout, TLAPS

\* Padding rounds up, to a multiple of the alignment.
LEMMA PaddedFacts ==
    ASSUME NEW n \in Nat, NEW a \in Alignments \cup {0}
    PROVE  /\ Padded(n, a) \in Nat
           /\ n <= Padded(n, a)
           /\ a # 0 => Padded(n, a) % a = 0
  <1>1. CASE a = 0
    BY <1>1 DEF Padded
  <1>2. CASE a = 1
    BY <1>2 DEF Padded
  <1>3. CASE a = 2
    BY <1>3 DEF Padded
  <1>4. CASE a = 4
    BY <1>4 DEF Padded
  <1>5. CASE a = 8
    BY <1>5 DEF Padded
  <1> QED
    BY <1>1, <1>2, <1>3, <1>4, <1>5 DEF Alignments

LEMMA ProductFacts ==
    ASSUME NEW m \in Nat, NEW n \in Nat
    PROVE  m * n \in Nat
  OBVIOUS

LEMMA LargerFacts ==
    ASSUME NEW m \in Nat, NEW n \in Nat
    PROVE  /\ Larger(m, n) \in Nat /\ m <= Larger(m, n) /\ n <= Larger(m, n)
           /\ Larger(m, n) \in {m, n}
  BY DEF Larger

\* A field has a size and an alignment.
LEMMA FieldFacts ==
    ASSUME TypeOK, NEW field \in Field
    PROVE  SizeOf(field) \in Nat /\ AlignOf(field) \in Alignments \cup {0}
  <1>1. CASE field.base \in Prims
    <2>1. PrimSize[field.base] \in Nat /\ PrimAlign[field.base] \in Alignments /\ field.count \in Nat
      BY <1>1, PrimsAssumption DEF Field
    <2> QED
      BY <1>1, <2>1, ProductFacts DEF SizeOf, AlignOf
  <1>2. CASE field.base \notin Prims
    <2>1. field.base \in Types /\ field.count \in Nat
      BY <1>2 DEF Field
    <2>2. size[field.base] \in Nat /\ align[field.base] \in Alignments \cup {0}
      BY <2>1 DEF TypeOK
    <2> QED
      BY <1>2, <2>1, <2>2, ProductFacts DEF SizeOf, AlignOf
  <1> QED
    BY <1>1, <1>2

\* The field that is laid out next.
LEMMA CurrentFacts ==
    ASSUME TypeOK, turn <= Len(order)
    PROVE  /\ Current \in Types /\ turn \in 1 .. Len(order) /\ Len(order) \in Nat
           /\ Fields(Current) \in Seq(Field)
           /\ Len(offsets[Current]) \in Nat
           /\ MoreFields => /\ NextField \in Field
                            /\ SizeOf(NextField) \in Nat
                            /\ AlignOf(NextField) \in Alignments \cup {0}
  <1>1. turn \in 1 .. Len(order) /\ Current \in Types /\ Len(order) \in Nat
    BY DEF TypeOK, Current
  <1>2. Fields(Current) \in Seq(Field) /\ offsets[Current] \in Seq(Nat)
    BY <1>1 DEF TypeOK, Program, Fields
  <1>3. ASSUME MoreFields PROVE NextField \in Field
    BY <1>2, <1>3 DEF MoreFields, NextField
  <1> QED
    BY <1>1, <1>2, <1>3, FieldFacts
------------------------------------------------------------------------------
(* Type correctness *)

LEMMA InitTyped == Init => TypeOK
  <1> SUFFICES ASSUME Init PROVE TypeOK
    OBVIOUS
  <1>1. program \in Program /\ order \in Seq(Types)
    BY ProgramsAssumption, PassOrderAssumption DEF Init
  <1>2. turn \in 1 .. Len(order) + 1
    BY <1>1 DEF Init
  <1> QED
    BY <1>1, <1>2 DEF Init, TypeOK, Alignments

\* One field more, at any place.
LEMMA PlaceTyped ==
    ASSUME TypeOK, turn <= Len(order), MoreFields, NEW at \in Nat, Place(at)
    PROVE  /\ offsets' \in [Types -> Seq(Nat)] /\ extents' \in [Types -> Seq(Nat)]
           /\ maxAlign' \in Alignments
  <1>1. Current \in Types /\ SizeOf(NextField) \in Nat /\ AlignOf(NextField) \in Alignments \cup {0}
    BY CurrentFacts
  <1>2. Append(offsets[Current], at) \in Seq(Nat)
        /\ Append(extents[Current], SizeOf(NextField)) \in Seq(Nat)
    BY <1>1 DEF TypeOK
  <1>3. maxAlign' \in Alignments
    <2> DEFINE a == AlignOf(NextField)
    <2>1. a \in Alignments \cup {0} /\ maxAlign \in Alignments /\ maxAlign' = Larger(maxAlign, a)
      BY <1>1 DEF Place, TypeOK
    <2> HIDE DEF a
    <2>2. maxAlign \in Nat \ {0} /\ a \in Nat
      BY <2>1 DEF Alignments
    <2>3. maxAlign' \in {maxAlign, a} /\ maxAlign <= maxAlign'
      BY <2>1, <2>2, LargerFacts
    <2> QED
      BY <2>1, <2>2, <2>3
  <1> QED
    BY <1>1, <1>2, <1>3 DEF Place, TypeOK

LEMMA NextTyped == TypeOK /\ [Next]_vars => TypeOK'
  <1> SUFFICES ASSUME TypeOK, [Next]_vars PROVE TypeOK'
    OBVIOUS
  <1>1. CASE ResolveAlias
    BY <1>1, CurrentFacts DEF ResolveAlias, LayingOut, TypeOK
  <1>2. CASE StructField
    <2> DEFINE at == Padded(end, AlignOf(NextField))
    <2>1. turn <= Len(order) /\ MoreFields /\ Place(at) /\ end' = at + SizeOf(NextField)
          /\ UNCHANGED <<program, order, turn, size, align>>
      BY <1>2 DEF StructField, LayingOut
    <2>2. at \in Nat /\ SizeOf(NextField) \in Nat
      BY <2>1, CurrentFacts, PaddedFacts DEF TypeOK
    <2> HIDE DEF at
    <2>3. end' \in Nat
      BY <2>1, <2>2
    <2>4. /\ offsets' \in [Types -> Seq(Nat)] /\ extents' \in [Types -> Seq(Nat)]
          /\ maxAlign' \in Alignments
      BY <2>1, <2>2, PlaceTyped
    <2> QED
      BY <2>1, <2>3, <2>4 DEF TypeOK
  <1>3. CASE UnionField
    <2>1. turn <= Len(order) /\ MoreFields /\ Place(0) /\ end' = Larger(end, SizeOf(NextField))
          /\ UNCHANGED <<program, order, turn, size, align>>
      BY <1>3 DEF UnionField, LayingOut
    <2>2. end' \in Nat
      BY <2>1, CurrentFacts, LargerFacts DEF TypeOK
    <2> QED
      BY <2>1, <2>2, PlaceTyped DEF TypeOK
  <1>4. CASE EndComposite
    <2>1. Padded(end, maxAlign) \in Nat
      BY PaddedFacts DEF TypeOK
    <2>2. /\ turn <= Len(order) /\ turn' = turn + 1 /\ end' = 0 /\ maxAlign' = 1
          /\ size' = [size EXCEPT ![Current] = Padded(end, maxAlign)]
          /\ align' = [align EXCEPT ![Current] = maxAlign]
          /\ UNCHANGED <<program, order, offsets, extents>>
      BY <1>4 DEF EndComposite, LayingOut
    <2>3. turn' \in 1 .. Len(order') + 1
      BY <2>2, CurrentFacts DEF TypeOK
    <2>4. size' \in [Types -> Nat] /\ align' \in [Types -> Alignments \cup {0}]
      BY <2>1, <2>2 DEF TypeOK
    <2> QED
      BY <2>2, <2>3, <2>4 DEF TypeOK, Alignments
  <1>5. CASE UNCHANGED vars
    BY <1>5 DEF vars, TypeOK
  <1> QED
    BY <1>1, <1>2, <1>3, <1>4, <1>5 DEF Next

\* Pass B keeps its variables in their types.
THEOREM TypeCorrect == Spec => []TypeOK
  BY InitTyped, NextTyped, PTL DEF Spec
------------------------------------------------------------------------------
(* The layout invariant *)

\* Pass B comes to every type once; the fields laid out are those of the types
\* it has come to; while it is at no field, its two counters are reset.
Distinct == \A i, j \in 1 .. Len(order) : order[i] = order[j] => i = j
Reached(t) == \E i \in 1 .. Len(order) : i <= turn /\ order[i] = t
Recorded ==
    \A t \in Types :
        /\ Len(offsets[t]) = Len(extents[t])
        /\ Len(offsets[t]) # 0 => Reached(t) /\ Composite(t)
Idle ==
    turn > Len(order) \/ Len(offsets[Current]) = 0 => end = 0 /\ maxAlign = 1

\* Structs and unions have an alignment, and what is laid out ends where the
\* counter says, or in a complete type where its size says.
CompositeAligned == \A t \in Types : Composite(t) => align[t] \in Alignments
WithinEnd ==
    turn <= Len(order) =>
        \A i \in 1 .. Len(offsets[Current]) : offsets[Current][i] + extents[Current][i] <= end

IInv ==
    /\ TypeOK /\ Distinct /\ Recorded /\ Idle /\ CompositeAligned /\ WithinEnd
    /\ FieldsDisjoint /\ SizesRounded

\* The step of StructField and of UnionField.
FieldStep(at) ==
    /\ turn <= Len(order) /\ MoreFields /\ Composite(Current)
    /\ Place(at)
    /\ end' \in Nat /\ end <= end' /\ at + SizeOf(NextField) <= end'
    /\ Kind(Current) = "struct" =>
         end <= at /\ at = Padded(end, AlignOf(NextField)) /\ end' = at + SizeOf(NextField)
    /\ AlignOf(NextField) # 0 => at % AlignOf(NextField) = 0
    /\ UNCHANGED <<program, order, turn, size, align>>

LEMMA FieldSteps ==
    ASSUME TypeOK, StructField \/ UnionField
    PROVE  \E at \in Nat : FieldStep(at)
  <1>1. CASE StructField
    <2> DEFINE at == Padded(end, AlignOf(NextField))
    <2>1. turn <= Len(order) /\ MoreFields /\ Place(at) /\ end' = at + SizeOf(NextField)
          /\ Kind(Current) = "struct" /\ UNCHANGED <<program, order, turn, size, align>>
          /\ at = Padded(end, AlignOf(NextField))
      BY <1>1 DEF StructField, LayingOut
    <2>2. at \in Nat /\ SizeOf(NextField) \in Nat /\ end <= at /\ end \in Nat
          /\ (AlignOf(NextField) # 0 => at % AlignOf(NextField) = 0)
      BY <2>1, CurrentFacts, PaddedFacts DEF TypeOK
    <2> HIDE DEF at
    <2>3. end' \in Nat /\ end <= end' /\ at + SizeOf(NextField) <= end'
      BY <2>1, <2>2
    <2> QED
      BY <2>1, <2>2, <2>3 DEF FieldStep, Composite
  <1>2. CASE UnionField
    <2>1. turn <= Len(order) /\ MoreFields /\ Place(0) /\ end' = Larger(end, SizeOf(NextField))
          /\ Kind(Current) = "union" /\ UNCHANGED <<program, order, turn, size, align>>
      BY <1>2 DEF UnionField, LayingOut
    <2>2. SizeOf(NextField) \in Nat /\ end \in Nat /\ AlignOf(NextField) \in Alignments \cup {0}
      BY <2>1, CurrentFacts DEF TypeOK
    <2>3. end' \in Nat /\ end <= end' /\ 0 + SizeOf(NextField) <= end'
      BY <2>1, <2>2, LargerFacts
    <2>4. AlignOf(NextField) # 0 => 0 % AlignOf(NextField) = 0
      BY <2>2 DEF Alignments
    <2> QED
      BY <2>1, <2>3, <2>4 DEF FieldStep, Composite
  <1> QED
    BY <1>1, <1>2

\* What a field step does to the offsets and extents.
LEMMA FieldRecorded ==
    ASSUME TypeOK, Recorded, NEW at \in Nat, FieldStep(at)
    PROVE  /\ \A t \in Types : t # Current => offsets'[t] = offsets[t] /\ extents'[t] = extents[t]
           /\ Len(offsets'[Current]) = Len(offsets[Current]) + 1
           /\ Len(extents'[Current]) = Len(offsets[Current]) + 1
           /\ \A i \in 1 .. Len(offsets[Current]) :
                /\ offsets'[Current][i] = offsets[Current][i]
                /\ extents'[Current][i] = extents[Current][i]
           /\ offsets'[Current][Len(offsets[Current]) + 1] = at
           /\ extents'[Current][Len(offsets[Current]) + 1] = SizeOf(NextField)
  <1>1. Current \in Types /\ SizeOf(NextField) \in Nat
    BY CurrentFacts DEF FieldStep
  <1>2. /\ offsets' = [offsets EXCEPT ![Current] = Append(offsets[Current], at)]
        /\ extents' = [extents EXCEPT ![Current] = Append(extents[Current], SizeOf(NextField))]
    BY DEF FieldStep, Place
  <1>3. offsets[Current] \in Seq(Nat) /\ extents[Current] \in Seq(Nat)
        /\ Len(extents[Current]) = Len(offsets[Current])
    BY <1>1 DEF TypeOK, Recorded
  <1>4. /\ offsets'[Current] = Append(offsets[Current], at)
        /\ extents'[Current] = Append(extents[Current], SizeOf(NextField))
        /\ \A t \in Types : t # Current => offsets'[t] = offsets[t] /\ extents'[t] = extents[t]
    BY <1>1, <1>2 DEF TypeOK
  <1> QED
    BY <1>1, <1>3, <1>4

LEMMA CurrentNotComplete ==
    ASSUME TypeOK, Distinct, turn <= Len(order)
    PROVE  Current \notin Complete /\ Reached(Current)
  <1>1. turn \in 1 .. Len(order) /\ Len(order) \in Nat /\ Current = order[turn]
    BY CurrentFacts DEF Current
  <1>2. \A i \in 1 .. turn - 1 : i \in 1 .. Len(order) /\ i # turn
    BY <1>1
  <1>3. \A i \in 1 .. turn - 1 : order[i] # order[turn]
    BY <1>1, <1>2 DEF Distinct
  <1> QED
    BY <1>1, <1>3 DEF Complete, Reached

LEMMA FieldKeeps ==
    ASSUME IInv, TypeOK', NEW at \in Nat, FieldStep(at)
    PROVE  IInv'
  <1> DEFINE n == Len(offsets[Current])
             c == Current
  <1>1. /\ c \in Types /\ n \in Nat /\ SizeOf(NextField) \in Nat /\ turn <= Len(order)
        /\ turn \in 1 .. Len(order) /\ Len(order) \in Nat
    BY CurrentFacts DEF FieldStep, IInv
  <1>2. /\ UNCHANGED <<program, order, turn, size, align>> /\ Current' = Current
        /\ Complete' = Complete
    BY DEF FieldStep, Current, Complete
  <1>3. /\ \A t \in Types : t # c => offsets'[t] = offsets[t] /\ extents'[t] = extents[t]
        /\ Len(offsets'[c]) = n + 1 /\ Len(extents'[c]) = n + 1
        /\ \A i \in 1 .. n : offsets'[c][i] = offsets[c][i] /\ extents'[c][i] = extents[c][i]
        /\ offsets'[c][n + 1] = at /\ extents'[c][n + 1] = SizeOf(NextField)
    BY FieldRecorded DEF IInv
  <1>4. /\ end \in Nat /\ end' \in Nat /\ end <= end' /\ at + SizeOf(NextField) <= end'
        /\ (Kind(c) = "struct" => end <= at) /\ Composite(c)
    BY DEF FieldStep, IInv, TypeOK
  <1>5. \A t \in Types : Kind(t)' = Kind(t) /\ (Composite(t)' <=> Composite(t))
                         /\ (Reached(t)' <=> Reached(t))
    BY <1>2 DEF Kind, Composite, Reached
  <1>6. c \notin Complete /\ Reached(c)
    BY <1>1, CurrentNotComplete DEF IInv
  <1>7. \A i \in 1 .. n : /\ offsets[c][i] \in Nat /\ extents[c][i] \in Nat
                          /\ offsets[c][i] + extents[c][i] <= end
    <2>1. offsets[c] \in Seq(Nat) /\ extents[c] \in Seq(Nat) /\ Len(extents[c]) = n
      BY <1>1 DEF IInv, TypeOK, Recorded
    <2>2. \A i \in 1 .. n : offsets[c][i] + extents[c][i] <= end
      BY <1>1 DEF IInv, WithinEnd
    <2>3. \A i \in 1 .. n : offsets[c][i] \in Nat
      BY <2>1
    <2>4. \A i \in 1 .. n : extents[c][i] \in Nat
      BY <2>1
    <2> QED
      BY <2>2, <2>3, <2>4
  <1>8. 1 .. n + 1 = (1 .. n) \cup {n + 1} /\ n + 1 # 0
    BY <1>1
  <1> HIDE DEF n, c
  <1>9. Distinct' /\ CompositeAligned'
    BY <1>2, <1>5 DEF IInv, Distinct, CompositeAligned
  <1>10. Recorded'
    BY <1>3, <1>4, <1>5, <1>6 DEF IInv, Recorded
  <1>11. Idle'
    <2>1. Len(offsets'[Current']) # 0 /\ ~ (turn' > Len(order'))
      BY <1>1, <1>2, <1>3, <1>8 DEF c
    <2> QED
      BY <2>1 DEF Idle
  <1>12. WithinEnd'
    <2>1. \A i \in 1 .. n + 1 : offsets'[c][i] + extents'[c][i] <= end'
      BY <1>3, <1>4, <1>7, <1>8
    <2> QED
      BY <2>1, <1>1, <1>2, <1>3 DEF WithinEnd, c
  <1>13. FieldsDisjoint'
    <2> SUFFICES ASSUME NEW t \in Types
                 PROVE  /\ Kind(t) = "struct" =>
                             \A i, j \in 1 .. Len(offsets'[t]) :
                                i < j => offsets'[t][i] + extents'[t][i] <= offsets'[t][j]
                        /\ t \in Complete =>
                             \A i \in 1 .. Len(offsets'[t]) :
                                offsets'[t][i] + extents'[t][i] <= size[t]
      BY <1>2, <1>5 DEF FieldsDisjoint
    <2>1. CASE t # c
      BY <2>1, <1>3 DEF IInv, FieldsDisjoint
    <2>2. CASE t = c
      <3>1. t \notin Complete
        BY <2>2, <1>6
      <3>2. ASSUME Kind(c) = "struct", NEW i \in 1 .. n + 1, NEW j \in 1 .. n + 1, i < j
            PROVE  offsets'[c][i] + extents'[c][i] <= offsets'[c][j]
        <4>1. i \in 1 .. n
          BY <3>2, <1>1 DEF n
        <4>2. CASE j \in 1 .. n
          <5>1. offsets[c][i] + extents[c][i] <= offsets[c][j]
            BY <3>2, <4>1, <4>2, <1>1 DEF IInv, FieldsDisjoint, n, c
          <5> QED
            BY <5>1, <4>1, <4>2, <1>3
        <4>3. CASE j = n + 1
          BY <3>2, <4>1, <4>3, <1>3, <1>4, <1>7
        <4> QED
          BY <4>2, <4>3, <1>8
      <3> QED
        BY <2>2, <3>1, <3>2, <1>3
    <2> QED
      BY <2>1, <2>2
  <1>14. SizesRounded'
    BY <1>2, <1>5 DEF IInv, SizesRounded, Complete, TypeOK
  <1> QED
    BY <1>9, <1>10, <1>11, <1>12, <1>13, <1>14 DEF IInv

LEMMA CompleteAfter ==
    ASSUME TypeOK, turn <= Len(order), turn' = turn + 1, UNCHANGED order
    PROVE  Complete' = Complete \cup {Current}
  <1>1. turn \in 1 .. Len(order) /\ Len(order) \in Nat
    BY CurrentFacts
  <1>2. 1 .. (turn + 1) - 1 = (1 .. turn - 1) \cup {turn}
    BY <1>1
  <1> QED
    BY <1>2 DEF Complete, Current

\* No field of the next type has been laid out.
LEMMA IdleAfter ==
    ASSUME IInv, turn <= Len(order), turn' = turn + 1, UNCHANGED <<order, offsets>>,
           turn' <= Len(order)
    PROVE  Len(offsets[Current']) = 0
  <1>1. turn \in 1 .. Len(order) /\ Len(order) \in Nat /\ turn + 1 \in 1 .. Len(order)
    BY CurrentFacts DEF IInv
  <1>2. Current' = order[turn + 1] /\ Current' \in Types
    BY <1>1 DEF IInv, TypeOK, Current
  <1>3. \A i \in 1 .. Len(order) : i <= turn => order[i] # order[turn + 1]
    BY <1>1 DEF IInv, Distinct
  <1>4. ~ Reached(Current')
    BY <1>2, <1>3 DEF Reached
  <1> QED
    BY <1>2, <1>4 DEF IInv, Recorded

LEMMA EndKeeps ==
    ASSUME IInv, TypeOK', EndComposite
    PROVE  IInv'
  <1> DEFINE c == Current
             s == Padded(end, maxAlign)
  <1>1. /\ turn <= Len(order) /\ turn' = turn + 1 /\ end' = 0 /\ maxAlign' = 1
        /\ size' = [size EXCEPT ![c] = s] /\ align' = [align EXCEPT ![c] = maxAlign]
        /\ UNCHANGED <<program, order, offsets, extents>>
    BY DEF EndComposite, LayingOut
  <1>2. c \in Types /\ turn \in 1 .. Len(order) /\ Len(order) \in Nat
    BY <1>1, CurrentFacts DEF IInv
  <1>3. s \in Nat /\ end \in Nat /\ end <= s /\ maxAlign \in Alignments /\ s % maxAlign = 0
    <2>1. end \in Nat /\ maxAlign \in Alignments /\ maxAlign # 0
      BY DEF IInv, TypeOK, Alignments
    <2> QED
      BY <2>1, PaddedFacts
  <1>4. c \notin Complete
    BY <1>1, CurrentNotComplete DEF IInv
  <1>5. Complete' = Complete \cup {c}
    BY <1>1, CompleteAfter DEF IInv
  <1>6. /\ \A t \in Types : t # c => size'[t] = size[t] /\ align'[t] = align[t]
        /\ size'[c] = s /\ align'[c] = maxAlign
    BY <1>1, <1>2 DEF IInv, TypeOK
  <1>7. \A t \in Types : Kind(t)' = Kind(t) /\ (Composite(t)' <=> Composite(t))
                         /\ (Reached(t) => Reached(t)')
    BY <1>1, <1>2 DEF Kind, Composite, Reached
  <1>8. \A i \in 1 .. Len(offsets[c]) : offsets[c][i] + extents[c][i] <= s
    <2>1. Len(extents[c]) = Len(offsets[c]) /\ offsets[c] \in Seq(Nat) /\ extents[c] \in Seq(Nat)
      BY <1>2 DEF IInv, TypeOK, Recorded
    <2>2. \A i \in 1 .. Len(offsets[c]) : offsets[c][i] + extents[c][i] <= end
      BY <1>1 DEF IInv, WithinEnd
    <2> QED
      BY <2>1, <2>2, <1>3
  <1>9. Complete \subseteq Types
    BY DEF IInv, TypeOK, Complete
  <1> HIDE DEF c, s
  <1>10. Distinct' /\ Recorded' /\ CompositeAligned'
    BY <1>1, <1>3, <1>6, <1>7 DEF IInv, Distinct, Recorded, CompositeAligned
  <1>11. Idle'
    BY <1>1 DEF Idle
  <1>12. WithinEnd'
    <2> SUFFICES ASSUME turn' <= Len(order')
                 PROVE  \A i \in 1 .. Len(offsets'[Current']) :
                           offsets'[Current'][i] + extents'[Current'][i] <= end'
      BY DEF WithinEnd
    <2>1. Len(offsets'[Current']) = 0
      BY <1>1, IdleAfter
    <2> QED
      BY <2>1
  <1>13. FieldsDisjoint'
    <2> SUFFICES ASSUME NEW t \in Types
                 PROVE  /\ Kind(t) = "struct" =>
                             \A i, j \in 1 .. Len(offsets[t]) :
                                i < j => offsets[t][i] + extents[t][i] <= offsets[t][j]
                        /\ t \in Complete' =>
                             \A i \in 1 .. Len(offsets[t]) :
                                offsets[t][i] + extents[t][i] <= size'[t]
      BY <1>1, <1>7 DEF FieldsDisjoint
    <2>1. CASE t # c
      BY <2>1, <1>5, <1>6 DEF IInv, FieldsDisjoint
    <2>2. CASE t = c
      BY <2>2, <1>6, <1>8 DEF IInv, FieldsDisjoint
    <2> QED
      BY <2>1, <2>2
  <1>14. SizesRounded'
    BY <1>3, <1>5, <1>6, <1>7, <1>9 DEF IInv, SizesRounded
  <1> QED
    BY <1>10, <1>11, <1>12, <1>13, <1>14 DEF IInv

LEMMA AliasKeeps ==
    ASSUME IInv, TypeOK', ResolveAlias
    PROVE  IInv'
  <1> DEFINE c == Current
  <1>1. /\ turn <= Len(order) /\ turn' = turn + 1 /\ Kind(c) = "alias"
        /\ UNCHANGED <<program, order, size, align, offsets, extents, end, maxAlign>>
    BY DEF ResolveAlias, LayingOut
  <1>2. c \in Types /\ turn \in 1 .. Len(order) /\ Len(order) \in Nat
    BY <1>1, CurrentFacts DEF IInv
  <1>3. Len(offsets[c]) = 0 /\ end = 0 /\ maxAlign = 1
    BY <1>1, <1>2 DEF IInv, Recorded, Composite, Idle
  <1>4. Complete' = Complete \cup {c}
    BY <1>1, CompleteAfter DEF IInv
  <1>5. \A t \in Types : Kind(t)' = Kind(t) /\ (Composite(t)' <=> Composite(t))
                         /\ (Reached(t) => Reached(t)')
    BY <1>1, <1>2 DEF Kind, Composite, Reached
  <1>6. Complete \subseteq Types
    BY DEF IInv, TypeOK, Complete
  <1> HIDE DEF c
  <1>7. Distinct' /\ Recorded' /\ CompositeAligned' /\ Idle'
    BY <1>1, <1>3, <1>5 DEF IInv, Distinct, Recorded, CompositeAligned, Idle
  <1>8. WithinEnd'
    <2> SUFFICES ASSUME turn' <= Len(order')
                 PROVE  \A i \in 1 .. Len(offsets'[Current']) :
                           offsets'[Current'][i] + extents'[Current'][i] <= end'
      BY DEF WithinEnd
    <2>1. Len(offsets'[Current']) = 0
      BY <1>1, IdleAfter
    <2> QED
      BY <2>1
  <1>9. FieldsDisjoint'
    BY <1>1, <1>3, <1>4, <1>5 DEF IInv, FieldsDisjoint
  <1>10. SizesRounded'
    BY <1>1, <1>2, <1>4, <1>5, <1>6 DEF IInv, SizesRounded, Composite
  <1> QED
    BY <1>7, <1>8, <1>9, <1>10 DEF IInv

LEMMA InitLaidOut == Init => IInv
  <1> SUFFICES ASSUME Init PROVE IInv
    OBVIOUS
  <1>1. TypeOK
    BY InitTyped
  <1>2. Distinct
    BY PassOrderAssumption DEF Init, Distinct
  <1>3. \A t \in Types : Len(offsets[t]) = 0 /\ Len(extents[t]) = 0
    BY DEF Init
  <1>4. Complete = {}
    BY DEF Init, Complete
  <1>5. turn <= Len(order) => Current \in Types
    BY <1>1, CurrentFacts
  <1>6. CompositeAligned
    BY DEF Init, CompositeAligned, Composite, Kind, Alignments
  <1>7. WithinEnd /\ Recorded /\ Idle
    BY <1>3, <1>5 DEF Init, WithinEnd, Recorded, Idle
  <1>8. FieldsDisjoint /\ SizesRounded
    BY <1>3, <1>4 DEF FieldsDisjoint, SizesRounded
  <1> QED
    BY <1>1, <1>2, <1>6, <1>7, <1>8 DEF IInv

LEMMA StutterKeeps ==
    ASSUME IInv, UNCHANGED vars
    PROVE  IInv'
  <1>1. UNCHANGED <<program, order, turn, size, align, offsets, extents, end, maxAlign>>
    BY DEF vars
  <1>2. TypeOK'
    BY <1>1 DEF IInv, TypeOK
  <1>3. Current' = Current /\ Complete' = Complete
    BY <1>1 DEF Current, Complete
  <1>4. \A t \in Types : Kind(t)' = Kind(t) /\ (Composite(t)' <=> Composite(t))
                         /\ (Reached(t)' <=> Reached(t))
    BY <1>1 DEF Kind, Composite, Reached
  <1>5. Distinct' /\ Idle' /\ WithinEnd'
    BY <1>1, <1>3 DEF IInv, Distinct, Idle, WithinEnd
  <1>6. Recorded' /\ CompositeAligned'
    BY <1>1, <1>4 DEF IInv, Recorded, CompositeAligned
  <1>7. Complete \subseteq Types
    BY DEF IInv, TypeOK, Complete
  <1>8. FieldsDisjoint'
    BY <1>1, <1>3, <1>4, <1>7 DEF IInv, FieldsDisjoint
  <1>9. SizesRounded'
    BY <1>1, <1>3, <1>4, <1>7 DEF IInv, SizesRounded
  <1> QED
    BY <1>2, <1>5, <1>6, <1>8, <1>9 DEF IInv

\* The layout invariant.
THEOREM LayoutInvariant == Spec => []IInv
<1>1. IInv /\ TypeOK' /\ [Next]_vars => IInv'
  <2> SUFFICES ASSUME IInv, TypeOK', [Next]_vars PROVE IInv'
    OBVIOUS
  <2>1. CASE StructField \/ UnionField
    <3>1. PICK at \in Nat : FieldStep(at)
      BY <2>1, FieldSteps DEF IInv
    <3> QED
      BY <3>1, FieldKeeps
  <2> QED
    BY <2>1, AliasKeeps, EndKeeps, StutterKeeps DEF Next
<1> QED
  BY <1>1, InitLaidOut, TypeCorrect, PTL DEF Spec

\* The fields of a struct do not overlap, and structs and unions hold theirs.
THEOREM FieldsDisjointCorrect == Spec => []FieldsDisjoint
  BY LayoutInvariant, PTL DEF IInv

\* Sizes are multiples of alignments.
THEOREM SizesRoundedCorrect == Spec => []SizesRounded
  BY LayoutInvariant, PTL DEF IInv
------------------------------------------------------------------------------
(* Settled fields *)

\* What SettledFieldsExact says, for the type being laid out as well: its
\* alignment so far is max_alignment.
SettledSoFar ==
    \A t \in Types :
        /\ Len(offsets[t]) <= Len(Fields(t))
        /\ \A i \in 1 .. Len(offsets[t]) :
             Settled(t, i) =>
                /\ extents[t][i] = SizeOf(Fields(t)[i])
                /\ offsets[t][i] % AlignOf(Fields(t)[i]) = 0
                /\ AlignOf(Fields(t)[i]) <= IF t \in Complete THEN align[t] ELSE maxAlign

\* The type of a settled field is complete once its owner has been reached.
LEMMA SettledComplete ==
    ASSUME IInv, NEW t \in Types, Reached(t), NEW i \in 1 .. Len(Fields(t)), Settled(t, i)
    PROVE  /\ Fields(t)[i] \in Field
           /\ Fields(t)[i].base \notin Prims =>
                Fields(t)[i].base \in Complete /\ Composite(Fields(t)[i].base)
           /\ AlignOf(Fields(t)[i]) \in Alignments
  <1> DEFINE base == Fields(t)[i].base
  <1>1. Fields(t)[i] \in Field
    BY DEF IInv, TypeOK, Program, Fields
  <1>2. turn \in Nat /\ Len(order) \in Nat /\ turn <= Len(order) + 1
    BY DEF IInv, TypeOK
  <1>3. ASSUME base \notin Prims PROVE base \in Complete /\ Composite(base)
    <2>1. Composite(base) /\ Before(base, t)
      BY <1>3 DEF Settled
    <2>2. PICK h, j \in 1 .. Len(order) : h < j /\ order[h] = base /\ order[j] = t
      BY <2>1 DEF Before
    <2>3. PICK r \in 1 .. Len(order) : r <= turn /\ order[r] = t
      BY DEF Reached
    <2>4. j = r
      BY <2>2, <2>3 DEF IInv, Distinct
    <2>5. h \in 1 .. turn - 1
      BY <1>2, <2>2, <2>3, <2>4
    <2> QED
      BY <2>1, <2>2, <2>5 DEF Complete
  <1>4. AlignOf(Fields(t)[i]) \in Alignments
    <2>1. CASE base \in Prims
      BY <2>1, PrimsAssumption DEF AlignOf
    <2>2. CASE base \notin Prims
      <3>1. base \in Types /\ Composite(base)
        BY <1>1, <1>3, <2>2 DEF Field
      <3> QED
        BY <2>2, <3>1 DEF AlignOf, IInv, CompositeAligned
    <2> QED
      BY <2>1, <2>2
  <1> QED
    BY <1>1, <1>3, <1>4

LEMMA ReachedFacts ==
    ASSUME IInv, NEW t \in Types
    PROVE  /\ Reached(t) => t \in Complete \/ (turn <= Len(order) /\ t = Current)
           /\ Len(offsets[t]) # 0 => Reached(t)
  <1>1. turn \in Nat /\ Len(order) \in Nat
    BY DEF IInv, TypeOK
  <1> QED
    BY <1>1 DEF IInv, Recorded, Reached, Complete, Current

LEMMA FieldSettles ==
    ASSUME IInv, SettledSoFar, NEW at \in Nat, FieldStep(at)
    PROVE  SettledSoFar'
  <1> DEFINE n == Len(offsets[Current])
             c == Current
  <1>1. /\ c \in Types /\ n \in Nat /\ SizeOf(NextField) \in Nat /\ turn <= Len(order)
        /\ AlignOf(NextField) \in Alignments \cup {0} /\ Fields(c) \in Seq(Field)
    BY CurrentFacts DEF FieldStep, IInv
  <1>2. /\ UNCHANGED <<program, order, turn, size, align>> /\ Complete' = Complete
    BY DEF FieldStep, Complete
  <1>3. /\ \A t \in Types : t # c => offsets'[t] = offsets[t] /\ extents'[t] = extents[t]
        /\ Len(offsets'[c]) = n + 1 /\ Len(extents'[c]) = n + 1
        /\ \A i \in 1 .. n : offsets'[c][i] = offsets[c][i] /\ extents'[c][i] = extents[c][i]
        /\ offsets'[c][n + 1] = at /\ extents'[c][n + 1] = SizeOf(NextField)
    BY FieldRecorded DEF IInv
  <1>4. \A t \in Types : Fields(t)' = Fields(t) /\ \A i \in Nat : Settled(t, i)' <=> Settled(t, i)
    BY <1>2 DEF Fields, Settled, Composite, Kind, Before
  <1>5. \A field : SizeOf(field)' = SizeOf(field) /\ AlignOf(field)' = AlignOf(field)
    BY <1>2 DEF SizeOf, AlignOf
  <1>6. c \notin Complete /\ Reached(c)
    BY <1>1, CurrentNotComplete DEF IInv
  <1>7. n < Len(Fields(c)) /\ NextField = Fields(c)[n + 1] /\ n + 1 \in 1 .. Len(Fields(c))
    BY <1>1 DEF FieldStep, MoreFields, NextField
  <1>8. /\ maxAlign \in Nat /\ AlignOf(NextField) \in Nat
        /\ maxAlign <= maxAlign' /\ AlignOf(NextField) <= maxAlign' /\ maxAlign' \in Nat
    <2>1. maxAlign \in Nat
      BY DEF IInv, TypeOK, Alignments
    <2>2. AlignOf(NextField) \in Alignments \cup {0}
      BY <1>1
    <2>3. AlignOf(NextField) \in Nat
      BY <2>2 DEF Alignments
    <2> QED
      BY <2>1, <2>3, LargerFacts DEF FieldStep, Place
  <1>9. 1 .. n + 1 = (1 .. n) \cup {n + 1}
    BY <1>1
  <1>10. AlignOf(NextField) # 0 => at % AlignOf(NextField) = 0
    BY DEF FieldStep
  <1> HIDE DEF n, c
  <1> SUFFICES ASSUME NEW t \in Types
               PROVE  /\ Len(offsets'[t]) <= Len(Fields(t))
                      /\ \A i \in 1 .. Len(offsets'[t]) :
                           Settled(t, i) =>
                              /\ extents'[t][i] = SizeOf(Fields(t)[i])
                              /\ offsets'[t][i] % AlignOf(Fields(t)[i]) = 0
                              /\ AlignOf(Fields(t)[i]) <=
                                    IF t \in Complete THEN align[t] ELSE maxAlign'
    BY <1>2, <1>4, <1>5 DEF SettledSoFar
  <1>11. CASE t # c
    <2>1. t \in Complete \/ Len(offsets[t]) = 0
      BY <1>11, ReachedFacts DEF c
    <2> QED
      BY <2>1, <1>3, <1>11 DEF SettledSoFar
  <1>12. CASE t = c
    <2>1. ASSUME NEW i \in 1 .. n, Settled(c, i)
          PROVE  /\ extents'[c][i] = SizeOf(Fields(c)[i])
                 /\ offsets'[c][i] % AlignOf(Fields(c)[i]) = 0
                 /\ AlignOf(Fields(c)[i]) <= maxAlign'
      <3>1. i \in 1 .. Len(Fields(c))
        BY <2>1, <1>1, <1>7
      <3>2. AlignOf(Fields(c)[i]) \in Nat
        BY <2>1, <3>1, <1>1, <1>6, SettledComplete DEF Alignments
      <3>3. /\ extents[c][i] = SizeOf(Fields(c)[i])
            /\ offsets[c][i] % AlignOf(Fields(c)[i]) = 0
            /\ AlignOf(Fields(c)[i]) <= maxAlign
        BY <2>1, <1>1, <1>6 DEF SettledSoFar, n, c
      <3> QED
        BY <2>1, <3>2, <3>3, <1>3, <1>8
    <2>2. ASSUME Settled(c, n + 1)
          PROVE  AlignOf(NextField) # 0
      BY <2>2, <1>1, <1>6, <1>7, SettledComplete DEF Alignments
    <2> QED
      BY <2>1, <2>2, <1>1, <1>3, <1>6, <1>7, <1>8, <1>9, <1>10, <1>12
  <1> QED
    BY <1>11, <1>12

\* Completing a type changes neither the size nor the alignment of a settled
\* field's type.
LEMMA SettledKept ==
    ASSUME IInv, SettledSoFar, EndComposite,
           NEW t \in Types, NEW i \in 1 .. Len(offsets[t]), Settled(t, i)
    PROVE  /\ SizeOf(Fields(t)[i])' = SizeOf(Fields(t)[i])
           /\ AlignOf(Fields(t)[i])' = AlignOf(Fields(t)[i])
           /\ AlignOf(Fields(t)[i]) \in Alignments
           /\ t \in Complete \/ t = Current
  <1> DEFINE c == Current
  <1>1. /\ turn <= Len(order) /\ turn' = turn + 1
        /\ size' = [size EXCEPT ![c] = Padded(end, maxAlign)]
        /\ align' = [align EXCEPT ![c] = maxAlign]
        /\ UNCHANGED <<program, order, offsets, extents>>
    BY DEF EndComposite, LayingOut
  <1>2. c \in Types /\ c \notin Complete
    BY <1>1, CurrentFacts, CurrentNotComplete DEF IInv
  <1>3. \A s \in Types : s # c => size'[s] = size[s] /\ align'[s] = align[s]
    BY <1>1, <1>2 DEF IInv, TypeOK
  <1>4. Reached(t) /\ (t \in Complete \/ t = c)
    <2>1. Len(offsets[t]) # 0
      BY DEF IInv, TypeOK
    <2> QED
      BY <2>1, ReachedFacts
  <1>5. i \in 1 .. Len(Fields(t))
    BY DEF SettledSoFar, IInv, TypeOK, Program, Fields
  <1>6. Fields(t)[i].base \in Prims \/ (Fields(t)[i].base \in Types /\ Fields(t)[i].base # c)
    BY <1>2, <1>4, <1>5, SettledComplete DEF Field
  <1>7. AlignOf(Fields(t)[i]) \in Alignments
    BY <1>4, <1>5, SettledComplete
  <1>8. Fields(t)' = Fields(t)
    BY <1>1 DEF Fields
  <1> QED
    BY <1>3, <1>4, <1>6, <1>7, <1>8 DEF SizeOf, AlignOf

\* The type that is completed is the type of no settled field yet, and takes
\* over max_alignment.
LEMMA EndSettles ==
    ASSUME IInv, SettledSoFar, EndComposite
    PROVE  SettledSoFar'
  <1> DEFINE c == Current
  <1>1. /\ turn <= Len(order) /\ turn' = turn + 1
        /\ size' = [size EXCEPT ![c] = Padded(end, maxAlign)]
        /\ align' = [align EXCEPT ![c] = maxAlign]
        /\ UNCHANGED <<program, order, offsets, extents>>
    BY DEF EndComposite, LayingOut
  <1>2. c \in Types /\ c \notin Complete /\ Complete' = Complete \cup {c}
    BY <1>1, CurrentFacts, CurrentNotComplete, CompleteAfter DEF IInv
  <1>3. /\ \A t \in Types : t # c => size'[t] = size[t] /\ align'[t] = align[t]
        /\ align'[c] = maxAlign
    BY <1>1, <1>2 DEF IInv, TypeOK
  <1>4. \A t \in Types : Fields(t)' = Fields(t) /\ \A i \in Nat : Settled(t, i)' <=> Settled(t, i)
    BY <1>1 DEF Fields, Settled, Composite, Kind, Before
  <1>5. ASSUME NEW t \in Types, NEW i \in 1 .. Len(offsets[t]), Settled(t, i)
        PROVE  /\ SizeOf(Fields(t)[i])' = SizeOf(Fields(t)[i])
               /\ AlignOf(Fields(t)[i])' = AlignOf(Fields(t)[i])
               /\ t \in Complete \/ t = c
    BY <1>5, SettledKept
  <1> HIDE DEF c
  <1> SUFFICES ASSUME NEW t \in Types, NEW i \in 1 .. Len(offsets[t]), Settled(t, i)
               PROVE  /\ extents[t][i] = SizeOf(Fields(t)[i])
                      /\ offsets[t][i] % AlignOf(Fields(t)[i]) = 0
                      /\ AlignOf(Fields(t)[i]) <= align'[t]
                      /\ t \in Complete'
    <2>1. \A t_1 \in Types : \A k \in 1 .. Len(offsets[t_1]) : k \in Nat
      BY DEF IInv, TypeOK
    <2> QED
      BY <1>1, <1>4, <1>5, <2>1 DEF SettledSoFar
  <1>6. t \in Complete \/ t = c
    BY <1>5
  <1>7. CASE t = c
    BY <1>2, <1>3, <1>7 DEF SettledSoFar
  <1>8. CASE t \in Complete
    BY <1>2, <1>3, <1>8 DEF SettledSoFar
  <1> QED
    BY <1>6, <1>7, <1>8

LEMMA AliasSettles ==
    ASSUME IInv, SettledSoFar, ResolveAlias
    PROVE  SettledSoFar'
  <1>1. /\ turn <= Len(order) /\ turn' = turn + 1 /\ Kind(Current) = "alias"
        /\ UNCHANGED <<program, order, size, align, offsets, extents, maxAlign>>
    BY DEF ResolveAlias, LayingOut
  <1>2. Current \in Types /\ Complete' = Complete \cup {Current} /\ Len(offsets[Current]) = 0
    BY <1>1, CurrentFacts, CompleteAfter DEF IInv, Recorded, Composite
  <1>3. \A t \in Types : Fields(t)' = Fields(t) /\ \A i \in Nat : Settled(t, i)' <=> Settled(t, i)
    BY <1>1 DEF Fields, Settled, Composite, Kind, Before
  <1>4. \A field : SizeOf(field)' = SizeOf(field) /\ AlignOf(field)' = AlignOf(field)
    BY <1>1 DEF SizeOf, AlignOf
  <1> QED
    BY <1>1, <1>2, <1>3, <1>4 DEF SettledSoFar

\* What is laid out of the settled fields is exact at every step.
THEOREM SettledInvariant == Spec => []SettledSoFar
<1>1. Init => SettledSoFar
  <2> SUFFICES ASSUME Init PROVE SettledSoFar
    OBVIOUS
  <2>1. \A t \in Types : Len(offsets[t]) = 0 /\ Fields(t) \in Seq(Field)
    BY ProgramsAssumption DEF Init, Program, Fields
  <2> QED
    BY <2>1 DEF SettledSoFar
<1>2. IInv /\ SettledSoFar /\ [Next]_vars => SettledSoFar'
  <2> SUFFICES ASSUME IInv, SettledSoFar, [Next]_vars PROVE SettledSoFar'
    OBVIOUS
  <2>1. CASE StructField \/ UnionField
    <3>1. PICK at \in Nat : FieldStep(at)
      BY <2>1, FieldSteps DEF IInv
    <3> QED
      BY <3>1, FieldSettles
  <2>2. CASE UNCHANGED vars
    BY <2>2 DEF vars, SettledSoFar, Fields, Settled, Composite, Kind, Before, SizeOf, AlignOf,
                Complete
  <2> QED
    BY <2>1, <2>2, AliasSettles, EndSettles DEF Next
<1> QED
  BY <1>1, <1>2, LayoutInvariant, PTL DEF Spec

\* A field whose type was laid out before it has, in the end, the size its type
\* has and a place its type's alignment allows.
THEOREM SettledFieldsExactCorrect == Spec => []SettledFieldsExact
<1>1. SettledSoFar /\ IInv => SettledFieldsExact
  <2> SUFFICES ASSUME SettledSoFar, IInv PROVE SettledFieldsExact
    OBVIOUS
  <2>1. Complete \subseteq Types
    BY DEF Complete, IInv, TypeOK
  <2> QED
    BY <2>1 DEF SettledSoFar, SettledFieldsExact
<1> QED
  BY <1>1, SettledInvariant, LayoutInvariant, PTL
------------------------------------------------------------------------------
(* Padding *)

LEMMA PaddedTight ==
    ASSUME NEW n \in Nat, NEW a \in Alignments
    PROVE  Padded(n, a) - n < a
  <1>1. CASE a = 1
    BY <1>1 DEF Padded
  <1>2. CASE a = 2
    BY <1>2 DEF Padded
  <1>3. CASE a = 4
    BY <1>3 DEF Padded
  <1>4. CASE a = 8
    BY <1>4 DEF Padded
  <1> QED
    BY <1>1, <1>2, <1>3, <1>4 DEF Alignments

\* While a struct is laid out the counter is where its last field ends.
EndIsLast ==
    turn <= Len(order) /\ Kind(Current) = "struct" =>
        end = PreviousEnd(Current, Len(offsets[Current]) + 1)

LEMMA FieldTight ==
    ASSUME IInv, SettledSoFar, NoWastedSpace, EndIsLast, NEW at \in Nat, FieldStep(at)
    PROVE  NoWastedSpace' /\ EndIsLast'
  <1> SUFFICES ASSUME NEW c, c = Current, NEW n, n = Len(offsets[Current])
               PROVE  NoWastedSpace' /\ EndIsLast'
    OBVIOUS
  <1>1. /\ c \in Types /\ n \in Nat /\ turn <= Len(order)
        /\ Fields(c) \in Seq(Field) /\ SizeOf(NextField) \in Nat
    BY CurrentFacts DEF FieldStep, IInv
  <1>2. /\ UNCHANGED <<program, order, turn, size, align>> /\ Complete' = Complete /\ Current' = c
    BY DEF FieldStep, Complete, Current
  <1>3. /\ \A t \in Types : t # c => offsets'[t] = offsets[t] /\ extents'[t] = extents[t]
        /\ Len(offsets'[c]) = n + 1
        /\ \A i \in 1 .. n : offsets'[c][i] = offsets[c][i] /\ extents'[c][i] = extents[c][i]
        /\ offsets'[c][n + 1] = at /\ extents'[c][n + 1] = SizeOf(NextField)
    BY FieldRecorded DEF IInv
  <1>4. \A t \in Types : /\ Fields(t)' = Fields(t) /\ Kind(t)' = Kind(t)
                         /\ \A i : Settled(t, i)' <=> Settled(t, i)
    BY <1>2 DEF Fields, Settled, Composite, Kind, Before
  <1>5. \A field : AlignOf(field)' = AlignOf(field)
    BY <1>2 DEF AlignOf
  <1>6. c \notin Complete /\ Reached(c)
    BY <1>1, CurrentNotComplete DEF IInv
  <1>7. NextField = Fields(c)[n + 1] /\ n + 1 \in 1 .. Len(Fields(c))
    BY <1>1 DEF FieldStep, MoreFields, NextField
  <1>8. 1 .. n + 1 = (1 .. n) \cup {n + 1} /\ n + 2 # 1 /\ (n + 2) - 1 = n + 1 /\ (n + 1) + 1 = n + 2
    BY <1>1
  <1>9. Kind(c) = "struct" => /\ at = Padded(end, AlignOf(NextField))
                              /\ end' = at + SizeOf(NextField)
                              /\ end = PreviousEnd(c, n + 1)
    BY <1>1 DEF FieldStep, EndIsLast
  <1>10. end \in Nat
    BY DEF IInv, TypeOK
  <1>11. \A i \in 1 .. n + 1 : PreviousEnd(c, i)' = PreviousEnd(c, i)
    <2> SUFFICES ASSUME NEW i \in 1 .. n + 1
                 PROVE  (IF i = 1 THEN 0 ELSE offsets'[c][i - 1] + extents'[c][i - 1])
                        = IF i = 1 THEN 0 ELSE offsets[c][i - 1] + extents[c][i - 1]
      BY <1>2 DEF PreviousEnd
    <2>1. i # 1 => i - 1 \in 1 .. n
      BY <1>1
    <2> QED
      BY <2>1, <1>3
  <1>12. ASSUME NEW t \in Types, t # c, NEW i PROVE PreviousEnd(t, i)' = PreviousEnd(t, i)
    BY <1>3, <1>12 DEF PreviousEnd
  <1>13. NoWastedSpace'
    <2>1. ASSUME NEW t \in Types, Kind(t) = "struct", NEW i \in 1 .. Len(offsets'[t]), Settled(t, i)
          PROVE  offsets'[t][i] - PreviousEnd(t, i)' < AlignOf(Fields(t)[i])
      <3>1. CASE t # c
        BY <2>1, <3>1, <1>3, <1>12 DEF NoWastedSpace
      <3>2. CASE t = c /\ i \in 1 .. n
        BY <2>1, <3>2, <1>3, <1>8, <1>11 DEF NoWastedSpace
      <3>3. CASE t = c /\ i = n + 1
        <4> DEFINE a == AlignOf(NextField)
        <4>1. a \in Alignments
          BY <2>1, <3>3, <1>1, <1>6, <1>7, SettledComplete
        <4>2. at = Padded(end, a) /\ end = PreviousEnd(c, i) /\ offsets'[c][i] = at
              /\ AlignOf(Fields(t)[i]) = a /\ PreviousEnd(c, i)' = PreviousEnd(c, i)
          BY <2>1, <3>3, <1>3, <1>7, <1>8, <1>9, <1>11
        <4> HIDE DEF a
        <4>3. Padded(end, a) - end < a
          BY <4>1, <1>10, PaddedTight
        <4> QED
          BY <4>2, <4>3, <3>3
      <3> QED
        BY <2>1, <3>1, <3>2, <3>3, <1>3, <1>8
    <2>2. ASSUME NEW t \in Types, Kind(t) = "struct", t \in Complete
          PROVE  size[t] - PreviousEnd(t, Len(offsets[t]) + 1)' < align[t]
      <3>1. t # c
        BY <2>2, <1>6
      <3>2. PreviousEnd(t, Len(offsets[t]) + 1)' = PreviousEnd(t, Len(offsets[t]) + 1)
        BY <3>1, <1>3 DEF PreviousEnd
      <3> QED
        BY <2>2, <3>2 DEF NoWastedSpace
    <2> QED
      BY <2>1, <2>2, <1>2, <1>4, <1>5 DEF NoWastedSpace
  <1>14. EndIsLast'
    BY <1>2, <1>3, <1>4, <1>8, <1>9, <1>1 DEF EndIsLast, PreviousEnd
  <1> QED
    BY <1>13, <1>14

LEMMA EndTight ==
    ASSUME IInv, SettledSoFar, NoWastedSpace, EndIsLast, EndComposite
    PROVE  NoWastedSpace' /\ EndIsLast'
  <1> SUFFICES ASSUME NEW c, c = Current
               PROVE  NoWastedSpace' /\ EndIsLast'
    OBVIOUS
  <1>1. /\ turn <= Len(order) /\ turn' = turn + 1 /\ end' = 0
        /\ size' = [size EXCEPT ![c] = Padded(end, maxAlign)]
        /\ align' = [align EXCEPT ![c] = maxAlign]
        /\ UNCHANGED <<program, order, offsets, extents>>
    BY DEF EndComposite, LayingOut
  <1>2. c \in Types /\ Complete' = Complete \cup {c}
    BY <1>1, CurrentFacts, CompleteAfter DEF IInv
  <1>3. /\ \A t \in Types : t # c => size'[t] = size[t] /\ align'[t] = align[t]
        /\ size'[c] = Padded(end, maxAlign) /\ align'[c] = maxAlign
    BY <1>1, <1>2 DEF IInv, TypeOK
  <1>4. \A t \in Types : /\ Fields(t)' = Fields(t) /\ Kind(t)' = Kind(t)
                         /\ \A i : Settled(t, i)' <=> Settled(t, i)
    BY <1>1 DEF Fields, Settled, Composite, Kind, Before
  <1>5. \A t \in Types : \A i : PreviousEnd(t, i)' = PreviousEnd(t, i)
    BY <1>1 DEF PreviousEnd
  <1>6. Padded(end, maxAlign) - end < maxAlign
    BY PaddedTight DEF IInv, TypeOK
  <1>7. NoWastedSpace'
    <2>1. ASSUME NEW t \in Types, Kind(t) = "struct", NEW i \in 1 .. Len(offsets[t]), Settled(t, i)
          PROVE  offsets[t][i] - PreviousEnd(t, i) < AlignOf(Fields(t)[i])'
      <3>1. AlignOf(Fields(t)[i])' = AlignOf(Fields(t)[i])
        BY <2>1, SettledKept
      <3> QED
        BY <2>1, <3>1 DEF NoWastedSpace
    <2>2. ASSUME NEW t \in Types, Kind(t) = "struct", t \in Complete \cup {c}
          PROVE  size'[t] - PreviousEnd(t, Len(offsets[t]) + 1) < align'[t]
      <3>1. CASE t = c
        BY <2>2, <3>1, <1>1, <1>3, <1>6 DEF EndIsLast
      <3>2. CASE t # c
        BY <2>2, <3>2, <1>3 DEF NoWastedSpace
      <3> QED
        BY <3>1, <3>2
    <2>3. ASSUME NEW t \in Types
          PROVE  PreviousEnd(t, Len(offsets[t]) + 1)' = PreviousEnd(t, Len(offsets[t]) + 1)
      BY <1>1 DEF PreviousEnd
    <2> QED
      BY <2>1, <2>2, <2>3, <1>1, <1>2, <1>4, <1>5 DEF NoWastedSpace
  <1>8. EndIsLast'
    <2> SUFFICES ASSUME turn' <= Len(order') PROVE end' = PreviousEnd(Current, Len(offsets[Current]) + 1)'
      BY DEF EndIsLast
    <2>1. Len(offsets[Current']) = 0
      BY <1>1, IdleAfter
    <2> QED
      BY <2>1, <1>1 DEF PreviousEnd
  <1> QED
    BY <1>7, <1>8

LEMMA AliasTight ==
    ASSUME IInv, NoWastedSpace, ResolveAlias
    PROVE  NoWastedSpace' /\ EndIsLast'
  <1> SUFFICES ASSUME NEW c, c = Current
               PROVE  NoWastedSpace' /\ EndIsLast'
    OBVIOUS
  <1>1. /\ turn <= Len(order) /\ turn' = turn + 1 /\ Kind(c) = "alias"
        /\ UNCHANGED <<program, order, size, align, offsets, extents, end, maxAlign>>
    BY DEF ResolveAlias, LayingOut
  <1>2. c \in Types /\ Complete' = Complete \cup {c}
    BY <1>1, CurrentFacts, CompleteAfter DEF IInv
  <1>3. \A t \in Types : /\ Fields(t)' = Fields(t) /\ Kind(t)' = Kind(t)
                         /\ \A i : Settled(t, i)' <=> Settled(t, i)
    BY <1>1 DEF Fields, Settled, Composite, Kind, Before
  <1>4. /\ \A field : AlignOf(field)' = AlignOf(field)
        /\ \A t \in Types : \A i : PreviousEnd(t, i)' = PreviousEnd(t, i)
    BY <1>1 DEF AlignOf, PreviousEnd
  <1>5. ASSUME NEW t \in Types
        PROVE  PreviousEnd(t, Len(offsets[t]) + 1)' = PreviousEnd(t, Len(offsets[t]) + 1)
    BY <1>1 DEF PreviousEnd
  <1>6. NoWastedSpace'
    <2>1. ASSUME NEW t \in Types, Kind(t) = "struct", NEW i \in 1 .. Len(offsets[t]), Settled(t, i)
          PROVE  offsets[t][i] - PreviousEnd(t, i) < AlignOf(Fields(t)[i])'
      BY <2>1, <1>3, <1>4 DEF NoWastedSpace
    <2>2. ASSUME NEW t \in Types, Kind(t) = "struct", t \in Complete'
          PROVE  size[t] - PreviousEnd(t, Len(offsets[t]) + 1) < align[t]
      <3>1. t # c
        BY <2>2, <1>1
      <3> QED
        BY <2>2, <3>1, <1>2 DEF NoWastedSpace
    <2> QED
      BY <2>1, <2>2, <1>1, <1>3, <1>4, <1>5 DEF NoWastedSpace
  <1>7. EndIsLast'
    <2> SUFFICES ASSUME turn' <= Len(order') PROVE end' = PreviousEnd(Current, Len(offsets[Current]) + 1)'
      BY DEF EndIsLast
    <2>1. Len(offsets[Current']) = 0
      BY <1>1, IdleAfter
    <2>2. end = 0
      <3>1. Len(offsets[c]) = 0
        BY <1>1, <1>2 DEF IInv, Recorded, Composite
      <3> QED
        BY <3>1 DEF IInv, Idle
    <2> QED
      BY <2>1, <2>2, <1>1 DEF PreviousEnd
  <1> QED
    BY <1>6, <1>7

\* Padding is less than an alignment unit, before every settled field and at
\* the end of every struct.
THEOREM NoWastedSpaceCorrect == Spec => []NoWastedSpace
<1>1. Init => NoWastedSpace /\ EndIsLast
  <2> SUFFICES ASSUME Init PROVE NoWastedSpace /\ EndIsLast
    OBVIOUS
  <2>1. TypeOK /\ Complete = {} /\ \A t \in Types : Len(offsets[t]) = 0
    BY InitTyped DEF Init, Complete
  <2>2. turn <= Len(order) => Current \in Types
    BY <2>1, CurrentFacts
  <2> QED
    BY <2>1, <2>2 DEF Init, NoWastedSpace, EndIsLast, PreviousEnd
<1>2. IInv /\ SettledSoFar /\ NoWastedSpace /\ EndIsLast /\ [Next]_vars
        => NoWastedSpace' /\ EndIsLast'
  <2> SUFFICES ASSUME IInv, SettledSoFar, NoWastedSpace, EndIsLast, [Next]_vars
               PROVE  NoWastedSpace' /\ EndIsLast'
    OBVIOUS
  <2>1. CASE StructField \/ UnionField
    <3>1. PICK at \in Nat : FieldStep(at)
      BY <2>1, FieldSteps DEF IInv
    <3> QED
      BY <3>1, FieldTight
  <2>2. CASE UNCHANGED vars
    <3>1. NoWastedSpace'
      BY <2>2 DEF vars, NoWastedSpace, Fields, Settled, Composite, Kind, Before, AlignOf,
                  Complete, PreviousEnd
    <3>2. EndIsLast'
      BY <2>2 DEF vars, EndIsLast, Kind, PreviousEnd, Current
    <3> QED
      BY <3>1, <3>2
  <2> QED
    BY <2>1, <2>2, AliasTight, EndTight DEF Next
<1> QED
  BY <1>1, <1>2, LayoutInvariant, SettledInvariant, PTL DEF Spec
==============================================================================
