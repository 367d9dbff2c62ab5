------------------------- MODULE PreprocessorProofs --------------------------
(* Theorems about Preprocessor for every source, of any length.              *)
EXTENDS Preprocessor, TLAPS, SequenceTheorems, FiniteSetTheorems
LOCAL INSTANCE SequencesExt

\* Overwriting the last element of a sequence.
LEMMA ExceptLast ==
    ASSUME NEW S, NEW s \in Seq(S), NEW e, s # << >> => e \in S
    PROVE  /\ [s EXCEPT ![Len(s)] = e] \in Seq(S)
           /\ Len([s EXCEPT ![Len(s)] = e]) = Len(s)
  <1>1. CASE s = << >>
    <2>1. DOMAIN s = {}
      BY <1>1
    <2>2. [s EXCEPT ![Len(s)] = e] = [i \in DOMAIN s |-> s[i]]
      BY <2>1, Zenon
    <2>3. s = [i \in DOMAIN s |-> s[i]]
      BY <2>1, <1>1
    <2> QED
      BY <2>2, <2>3
  <1>2. CASE s # << >>
    BY <1>2, ExceptSeq
  <1> QED
    BY <1>1, <1>2

\* What the handlers know of a line.
LEMMA LineFacts ==
    ASSUME NEW line \in Lines
    PROVE  /\ line.kind \in {"if", "or", "end", "text", "empty"}
           /\ line.cond \in Outcome
           /\ line.newline \in BOOLEAN
  BY DEF Lines, Outcome

\* The flags the handlers compute, and the records they build of them.
LEMMA FlagsTyped ==
    ASSUME TypeOK, NEW line \in Lines
    PROVE  /\ Holds(line) \in BOOLEAN
           /\ IfActive(line) \in BOOLEAN
           /\ OrActive(line) \in BOOLEAN
           /\ OrTaken(line) \in BOOLEAN
  <1>1. Holds(line) \in BOOLEAN
    BY Zenon DEF Holds
  <1>2. IfActive(line) \in BOOLEAN
    BY Zenon DEF IfActive
  <1>3. OrActive(line) \in BOOLEAN
    BY Zenon DEF OrActive
  <1>4. OrTaken(line) \in BOOLEAN
    BY Zenon DEF OrTaken
  <1> QED
    BY <1>1, <1>2, <1>3, <1>4

LEMMA FrameOfTyped ==
    ASSUME NEW parent \in BOOLEAN, NEW taken \in BOOLEAN, NEW current \in BOOLEAN
    PROVE  FrameOf(parent, taken, current) \in Frame
  BY DEF FrameOf, Frame

LEMMA FailureTyped ==
    ASSUME TypeOK, NEW message \in Messages
    PROVE  Failure(message) \in Output
  BY DEF TypeOK, Failure, Output

\* Leaving the loop with an error keeps the types.
LEMMA ReturnTyped ==
    ASSUME TypeOK, NEW line \in Lines, NEW message \in Messages,
           Take(line), Return(message)
    PROVE  TypeOK'
  BY FailureTyped DEF TypeOK, Take, Return

\* So does handling a directive, when its frames and conditions are typed.
LEMMA DirectiveTyped ==
    ASSUME TypeOK, NEW line \in Lines, Take(line), AppendBlank(line), Advance(line),
           frames' \in Seq(Frame), global_active' \in BOOLEAN,
           conds' \in Seq(Seq(BOOLEAN))
    PROVE  TypeOK'
  <1>1. line.newline \in BOOLEAN
    BY LineFacts
  <1>2. buffer' \in Seq(Nat)
    BY <1>1 DEF TypeOK, AppendBlank, NewLine
  <1>3. read' \in Seq(Lines)
    BY DEF TypeOK, Take
  <1>4. line_no' \in Nat \ {0} /\ pc' \in {"lines", "end", "returned"} /\ output' = output
    BY <1>1 DEF TypeOK, Advance
  <1> QED
    BY <1>2, <1>3, <1>4 DEF TypeOK

\* Every variable keeps its type.
THEOREM TypeCorrect == Spec => []TypeOK
<1>1. Init => TypeOK
  BY DEF Init, TypeOK, NoOutput, Output, Messages
<1>2. TypeOK /\ [Next]_vars => TypeOK'
  <2> SUFFICES ASSUME TypeOK, [Next]_vars PROVE TypeOK'
    OBVIOUS
  <2>1. ASSUME NEW line \in Lines, HandleIf(line) PROVE TypeOK'
    <3>1. Take(line)
      BY <2>1 DEF HandleIf
    <3>2. CASE line.cond = "invalid"
      BY <2>1, <3>1, <3>2, ReturnTyped DEF HandleIf, Messages
    <3>3. CASE line.cond # "invalid"
      <4> DEFINE frame == FrameOf(global_active, IfActive(line), IfActive(line))
                 cond == <<Holds(line)>>
      <4>1. /\ frames' = Append(frames, frame)
            /\ global_active' = IfActive(line)
            /\ conds' = Append(conds, cond)
            /\ AppendBlank(line) /\ Advance(line)
        BY <2>1, <3>3 DEF HandleIf
      <4>2. frame \in Frame /\ cond \in Seq(BOOLEAN) /\ IfActive(line) \in BOOLEAN
        BY FlagsTyped, FrameOfTyped DEF TypeOK
      <4>3. frames \in Seq(Frame) /\ conds \in Seq(Seq(BOOLEAN))
        BY DEF TypeOK
      <4> HIDE DEF frame, cond
      <4>4. frames' \in Seq(Frame) /\ conds' \in Seq(Seq(BOOLEAN))
        BY <4>1, <4>2, <4>3
      <4> QED
        BY <3>1, <4>1, <4>2, <4>4, DirectiveTyped
    <3> QED
      BY <3>2, <3>3
  <2>2. ASSUME NEW line \in Lines, HandleOr(line) PROVE TypeOK'
    <3>1. Take(line)
      BY <2>2 DEF HandleOr
    <3>2. CASE frames = << >> \/ line.cond = "invalid"
      BY <2>2, <3>1, <3>2, ReturnTyped DEF HandleOr, Messages
    <3>3. CASE frames # << >> /\ line.cond # "invalid"
      <4> DEFINE frame == FrameOf(Top.parent_active, OrTaken(line), OrActive(line))
                 cond == Append(conds[Len(conds)], Holds(line))
      <4>1. /\ frames' = [frames EXCEPT ![Len(frames)] = frame]
            /\ global_active' = OrActive(line)
            /\ conds' = [conds EXCEPT ![Len(conds)] = cond]
            /\ AppendBlank(line) /\ Advance(line)
        BY <2>2, <3>3 DEF HandleOr
      <4>2. frames \in Seq(Frame) /\ conds \in Seq(Seq(BOOLEAN))
        BY DEF TypeOK
      <4>3. Top \in Frame
        BY <3>3, <4>2 DEF Top
      <4>4. frame \in Frame /\ OrActive(line) \in BOOLEAN
        BY <4>3, FlagsTyped, FrameOfTyped DEF Frame
      <4>5. conds # << >> => cond \in Seq(BOOLEAN)
        BY <4>2, FlagsTyped
      <4> HIDE DEF frame, cond
      <4>6. frames' \in Seq(Frame) /\ conds' \in Seq(Seq(BOOLEAN))
        BY <4>1, <4>2, <4>4, <4>5, ExceptLast
      <4> QED
        BY <3>1, <4>1, <4>4, <4>6, DirectiveTyped
    <3> QED
      BY <3>2, <3>3
  <2>3. ASSUME NEW line \in Lines, HandleEnd(line) PROVE TypeOK'
    <3>1. Take(line)
      BY <2>3 DEF HandleEnd
    <3>2. CASE frames = << >>
      BY <2>3, <3>1, <3>2, ReturnTyped DEF HandleEnd, Messages
    <3>3. CASE frames # << >>
      <4>1. /\ frames' = Popped
            /\ global_active' = EndActive
            /\ conds' = SubSeq(conds, 1, Len(conds) - 1)
            /\ AppendBlank(line) /\ Advance(line)
        BY <2>3, <3>3 DEF HandleEnd
      <4>2. frames \in Seq(Frame) /\ conds \in Seq(Seq(BOOLEAN))
        BY DEF TypeOK
      <4>3. Popped \in Seq(Frame) /\ conds' \in Seq(Seq(BOOLEAN))
        BY <3>3, <4>1, <4>2 DEF Popped
      <4>4. EndActive \in BOOLEAN
        <5>1. CASE Popped # << >>
          <6>1. Popped[Len(Popped)] \in Frame
            BY <4>3, <5>1
          <6> QED
            BY <5>1, <6>1 DEF EndActive, Frame
        <5> QED
          BY <5>1 DEF EndActive
      <4> QED
        BY <3>1, <4>1, <4>3, <4>4, DirectiveTyped
    <3> QED
      BY <3>2, <3>3
  <2>4. ASSUME NEW line \in Lines, TextLine(line) PROVE TypeOK'
    BY <2>4 DEF TypeOK, TextLine, Take, Advance, NewLine, Lines
  <2>5. ASSUME NEW line \in Lines, OutOfMemory(line) PROVE TypeOK'
    <3>1. Failure("out of memory") \in Output /\ NoOutput \in Output
      BY FailureTyped DEF NoOutput, Output, Messages
    <3>2. output' \in Output
      BY <2>5, <3>1 DEF OutOfMemory
    <3>3. /\ Take(line) /\ pc' = "returned"
          /\ UNCHANGED <<frames, global_active, line_no, buffer, conds>>
      BY <2>5 DEF OutOfMemory
    <3> QED
      BY <3>2, <3>3 DEF TypeOK, Take
  <2>6. CASE Finish
    <3>1. output' \in Output
      BY <2>6, FailureTyped DEF Finish, Output, Messages
    <3> QED
      BY <2>6, <3>1 DEF TypeOK, Finish
  <2>7. CASE UNCHANGED vars
    BY <2>7 DEF TypeOK, vars
  <2> QED
    BY <2>1, <2>2, <2>3, <2>4, <2>5, <2>6, <2>7 DEF Next
<1> QED
  BY <1>1, <1>2, PTL DEF Spec
------------------------------------------------------------------------------
(* The frames sum up the conditions seen                                     *)

LEMMA FirstTrueOne ==
    ASSUME NEW c \in BOOLEAN
    PROVE  Text!FirstTrue(<<c>>) <=> c
  BY DEF Text!FirstTrue

LEMMA FirstTrueAppend ==
    ASSUME NEW s \in Seq(BOOLEAN), NEW c \in BOOLEAN
    PROVE  Text!FirstTrue(Append(s, c)) <=> c /\ \A j \in 1 .. Len(s) : ~ s[j]
  BY AppendProperties DEF Text!FirstTrue

\* A frame's summary looks only at the groups up to its own.
LEMMA SummaryIsLocal ==
    ASSUME NEW open, NEW other, NEW frame, NEW i \in Nat,
           \A k \in 1 .. i : other[k] = open[k], i > 0, Summarises(frame, open, i)
    PROVE  Summarises(frame, other, i)
  <1>1. other[i] = open[i] /\ \A k \in 1 .. i - 1 : other[k] = open[k]
    OBVIOUS
  <1> QED
    BY <1>1 DEF Summarises

LEMMA IfSummarises ==
    ASSUME TypeOK, FramesSummarise, NEW line \in Lines, HandleIf(line),
           line.cond # "invalid"
    PROVE  FramesSummarise'
  <1> DEFINE b == Holds(line)
             n == Len(conds)
             frame == FrameOf(global_active, IfActive(line), IfActive(line))
  <1>1. /\ frames' = Append(frames, frame)
        /\ global_active' = IfActive(line)
        /\ conds' = Append(conds, <<b>>)
    BY DEF HandleIf
  <1>2. b \in BOOLEAN /\ frame \in Frame /\ <<b>> \in Seq(BOOLEAN)
    BY FlagsTyped, FrameOfTyped DEF TypeOK
  <1>3. frames \in Seq(Frame) /\ conds \in Seq(Seq(BOOLEAN)) /\ n \in Nat /\ Len(frames) = n
    BY DEF TypeOK, FramesSummarise
  <1>4. /\ frame.parent_active = global_active
        /\ frame.branch_taken = IfActive(line)
        /\ frame.current_active = IfActive(line)
    BY DEF FrameOf
  <1>5. (IfActive(line) <=> global_active /\ b) /\ (global_active <=> Text!Selected(conds))
    BY DEF IfActive, FramesSummarise
  <1> HIDE DEF b, frame
  <1>6. /\ Len(frames') = n + 1 /\ Len(conds') = n + 1
        /\ \A k \in 1 .. n : frames'[k] = frames[k] /\ conds'[k] = conds[k]
        /\ frames'[n + 1] = frame /\ conds'[n + 1] = <<b>>
    BY <1>1, <1>2, <1>3, AppendProperties
  <1>7. Text!FirstTrue(conds'[n + 1]) <=> b
    BY <1>2, <1>6, FirstTrueOne
  <1>8. Text!Selected(conds) <=> \A k \in 1 .. n : Text!FirstTrue(conds'[k])
    BY <1>3, <1>6 DEF Text!Selected
  <1>9. Summarises(frame, conds', n + 1)
    <2>1. conds'[n + 1] # << >> /\ Len(conds'[n + 1]) = 1 /\ conds'[n + 1][1] = b
      BY <1>2, <1>6
    <2>2. b <=> \E j \in 1 .. Len(conds'[n + 1]) : conds'[n + 1][j]
      BY <2>1
    <2>3. (n + 1) - 1 = n
      BY <1>3
    <2> QED
      BY <1>4, <1>5, <1>7, <1>8, <2>1, <2>2, <2>3 DEF Summarises
  <1>10. ASSUME NEW i \in 1 .. n + 1 PROVE Summarises(frames'[i], conds', i)
    <2>1. CASE i = n + 1
      BY <1>6, <1>9, <2>1
    <2>2. CASE i # n + 1
      <3>1. i \in 1 .. n /\ i \in Nat /\ i > 0
        BY <1>3, <2>2
      <3>2. Summarises(frames[i], conds, i)
        BY <1>3, <3>1 DEF FramesSummarise
      <3>3. \A k \in 1 .. i : conds'[k] = conds[k]
        BY <1>3, <1>6, <3>1
      <3> QED
        BY <1>6, <3>1, <3>2, <3>3, SummaryIsLocal
    <2> QED
      BY <2>1, <2>2
  <1>11. global_active' <=> Text!Selected(conds')
    <2>1. Text!Selected(conds') <=> \A k \in 1 .. n + 1 : Text!FirstTrue(conds'[k])
      BY <1>6 DEF Text!Selected
    <2>2. Text!Selected(conds') <=>
            Text!FirstTrue(conds'[n + 1]) /\ \A k \in 1 .. n : Text!FirstTrue(conds'[k])
      BY <1>3, <2>1
    <2> QED
      BY <1>1, <1>5, <1>7, <1>8, <2>2
  <1> QED
    BY <1>6, <1>10, <1>11 DEF FramesSummarise

LEMMA OrSummarises ==
    ASSUME TypeOK, FramesSummarise, NEW line \in Lines, HandleOr(line),
           frames # << >>, line.cond # "invalid"
    PROVE  FramesSummarise'
  <1> DEFINE b == Holds(line)
             n == Len(conds)
             frame == FrameOf(Top.parent_active, OrTaken(line), OrActive(line))
             group == Append(conds[n], b)
  <1>1. /\ frames' = [frames EXCEPT ![Len(frames)] = frame]
        /\ global_active' = OrActive(line)
        /\ conds' = [conds EXCEPT ![n] = group]
    BY DEF HandleOr
  <1>2. frames \in Seq(Frame) /\ conds \in Seq(Seq(BOOLEAN)) /\ Len(frames) = n /\ n \in Nat /\ n > 0
    BY DEF TypeOK, FramesSummarise
  <1>3. b \in BOOLEAN /\ conds[n] \in Seq(BOOLEAN) /\ Top \in Frame
    BY <1>2, FlagsTyped DEF Top
  <1>4. Summarises(Top, conds, n)
    BY <1>2 DEF FramesSummarise, Top
  <1>5. /\ frame.parent_active = Top.parent_active
        /\ frame.branch_taken = OrTaken(line)
        /\ frame.current_active = OrActive(line)
    BY DEF FrameOf
  <1>6. /\ OrActive(line) <=> Top.parent_active /\ ~ Top.branch_taken /\ b
        /\ OrTaken(line) <=> Top.branch_taken \/ OrActive(line)
    BY DEF OrActive, OrTaken
  <1>7. frame \in Frame
    BY <1>3, FlagsTyped, FrameOfTyped DEF Frame
  <1>8. /\ group \in Seq(BOOLEAN) /\ Len(group) = Len(conds[n]) + 1 /\ Len(conds[n]) \in Nat
        /\ \A j \in 1 .. Len(conds[n]) : group[j] = conds[n][j]
        /\ group[Len(conds[n]) + 1] = b /\ group # << >>
    BY <1>3, AppendProperties
  <1>9. Text!FirstTrue(group) <=> b /\ \A j \in 1 .. Len(conds[n]) : ~ conds[n][j]
    BY <1>3, FirstTrueAppend
  <1> HIDE DEF b, frame, group
  <1>10. /\ Len(frames') = n /\ Len(conds') = n
         /\ \A k \in 1 .. n - 1 : frames'[k] = frames[k] /\ conds'[k] = conds[k]
         /\ frames'[n] = frame /\ conds'[n] = group
    BY <1>1, <1>2, <1>7, <1>8, ExceptSeq
  <1>11. frame.parent_active <=> \A k \in 1 .. n - 1 : Text!FirstTrue(conds'[k])
    BY <1>2, <1>4, <1>5, <1>10 DEF Summarises
  <1>12. Top.branch_taken <=>
           Top.parent_active /\ \E j \in 1 .. Len(conds[n]) : conds[n][j]
    BY <1>4 DEF Summarises
  <1>13. OrActive(line) <=> Top.parent_active /\ Text!FirstTrue(group)
    BY <1>6, <1>9, <1>12
  <1>14. (\E j \in 1 .. Len(group) : group[j]) <=>
           b \/ \E j \in 1 .. Len(conds[n]) : conds[n][j]
    <2> DEFINE m == Len(conds[n])
    <2>1. 1 .. Len(group) = (1 .. m) \cup {m + 1}
      BY <1>8
    <2>2. (\E j \in 1 .. Len(group) : group[j]) <=>
            group[m + 1] \/ \E j \in 1 .. m : group[j]
      BY <2>1, Zenon
    <2>3. (\E j \in 1 .. m : group[j]) <=> \E j \in 1 .. m : conds[n][j]
      BY <1>8, Zenon
    <2> QED
      BY <1>8, <2>2, <2>3
  <1>15. Summarises(frame, conds', n)
    BY <1>5, <1>6, <1>8, <1>10, <1>11, <1>12, <1>13, <1>14 DEF Summarises
  <1>16. ASSUME NEW i \in 1 .. n PROVE Summarises(frames'[i], conds', i)
    <2>1. CASE i = n
      BY <1>10, <1>15, <2>1
    <2>2. CASE i # n
      <3>1. i \in 1 .. n - 1 /\ i \in Nat /\ i > 0
        BY <1>2, <2>2
      <3>2. Summarises(frames[i], conds, i)
        BY <1>2, <3>1 DEF FramesSummarise
      <3>3. \A k \in 1 .. i : conds'[k] = conds[k]
        BY <1>2, <1>10, <3>1
      <3> QED
        BY <1>10, <3>1, <3>2, <3>3, SummaryIsLocal
    <2> QED
      BY <2>1, <2>2
  <1>17. global_active' <=> Text!Selected(conds')
    <2>1. Text!Selected(conds') <=> \A k \in 1 .. n : Text!FirstTrue(conds'[k])
      BY <1>10 DEF Text!Selected
    <2>2. Text!Selected(conds') <=>
            Text!FirstTrue(conds'[n]) /\ \A k \in 1 .. n - 1 : Text!FirstTrue(conds'[k])
      <3>1. 1 .. n = (1 .. n - 1) \cup {n}
        BY <1>2
      <3> QED
        BY <2>1, <3>1, Zenon
    <2> QED
      BY <1>1, <1>5, <1>10, <1>11, <1>13, <2>2
  <1> QED
    BY <1>10, <1>16, <1>17 DEF FramesSummarise

LEMMA EndSummarises ==
    ASSUME TypeOK, FramesSummarise, NEW line \in Lines, HandleEnd(line), frames # << >>
    PROVE  FramesSummarise'
  <1> DEFINE n == Len(conds) - 1
  <1>1. /\ frames' = Popped
        /\ global_active' = EndActive
        /\ conds' = SubSeq(conds, 1, n)
    BY DEF HandleEnd
  <1>2. frames \in Seq(Frame) /\ conds \in Seq(Seq(BOOLEAN)) /\ Len(frames) = n + 1 /\ n \in Nat
    BY DEF TypeOK, FramesSummarise
  <1>3. /\ Popped \in Seq(Frame) /\ Len(Popped) = n /\ Len(conds') = n
        /\ \A k \in 1 .. n : Popped[k] = frames[k] /\ conds'[k] = conds[k]
    BY <1>1, <1>2 DEF Popped
  <1>4. ASSUME NEW i \in 1 .. n PROVE Summarises(Popped[i], conds', i)
    <2>1. Summarises(frames[i], conds, i)
      BY <1>2 DEF FramesSummarise
    <2>2. \A k \in 1 .. i : conds'[k] = conds[k]
      BY <1>2, <1>3
    <2> QED
      BY <1>2, <1>3, <2>1, <2>2, SummaryIsLocal
  <1>5. EndActive <=> Text!Selected(conds')
    <2>1. Text!Selected(conds') <=> \A k \in 1 .. n : Text!FirstTrue(conds'[k])
      BY <1>3 DEF Text!Selected
    <2>2. CASE n = 0
      <3>1. Popped = << >>
        BY <1>2, <1>3, <2>2, EmptySeq
      <3>2. EndActive = TRUE
        BY <3>1 DEF EndActive
      <3>3. \A k \in 1 .. 0 : FALSE
        OBVIOUS
      <3>4. \A k \in 1 .. n : Text!FirstTrue(conds'[k])
        BY <2>2, <3>3, Zenon
      <3> QED
        BY <2>1, <3>2, <3>4
    <2>3. CASE n # 0
      <3>1. Popped # << >> /\ EndActive = Popped[n].current_active
        BY <1>2, <1>3, <2>3 DEF EndActive
      <3>2. Summarises(Popped[n], conds', n)
        BY <1>2, <1>4, <2>3
      <3>3. (\A k \in 1 .. n : Text!FirstTrue(conds'[k])) <=>
              Text!FirstTrue(conds'[n]) /\ \A k \in 1 .. n - 1 : Text!FirstTrue(conds'[k])
        BY <1>2, <2>3
      <3> QED
        BY <2>1, <3>1, <3>2, <3>3 DEF Summarises
    <2> QED
      BY <2>2, <2>3
  <1> QED
    BY <1>1, <1>3, <1>4, <1>5 DEF FramesSummarise

\* The frames of preprocessor_run always sum up the conditions they have seen.
THEOREM FramesSummariseCorrect == Spec => []FramesSummarise
<1>1. Init => FramesSummarise
  <2> SUFFICES ASSUME Init PROVE FramesSummarise
    OBVIOUS
  <2>1. frames = << >> /\ conds = << >> /\ global_active = TRUE
    BY DEF Init
  <2>2. \A i \in 1 .. 0 : FALSE
    OBVIOUS
  <2>3. Len(frames) = 0 /\ Len(conds) = 0
    BY <2>1
  <2>4. Text!Selected(conds)
    BY <2>2, <2>3, Zenon DEF Text!Selected
  <2>5. \A i \in 1 .. Len(frames) : Summarises(frames[i], conds, i)
    BY <2>2, <2>3, Zenon
  <2> QED
    BY <2>1, <2>3, <2>4, <2>5 DEF FramesSummarise
<1>2. TypeOK /\ FramesSummarise /\ [Next]_vars => FramesSummarise'
  <2> SUFFICES ASSUME TypeOK, FramesSummarise, [Next]_vars PROVE FramesSummarise'
    OBVIOUS
  <2>1. ASSUME UNCHANGED <<frames, global_active, conds>> PROVE FramesSummarise'
    BY <2>1 DEF FramesSummarise
  <2>2. ASSUME NEW line \in Lines, HandleIf(line) PROVE FramesSummarise'
    BY <2>1, <2>2, IfSummarises DEF HandleIf, Return
  <2>3. ASSUME NEW line \in Lines, HandleOr(line) PROVE FramesSummarise'
    BY <2>1, <2>3, OrSummarises DEF HandleOr, Return
  <2>4. ASSUME NEW line \in Lines, HandleEnd(line) PROVE FramesSummarise'
    BY <2>1, <2>4, EndSummarises DEF HandleEnd, Return
  <2>5. ASSUME NEW line \in Lines, TextLine(line) PROVE FramesSummarise'
    BY <2>1, <2>5 DEF TextLine
  <2>6. ASSUME NEW line \in Lines, OutOfMemory(line) PROVE FramesSummarise'
    BY <2>1, <2>6 DEF OutOfMemory
  <2>7. CASE Finish
    BY <2>1, <2>7 DEF Finish
  <2>8. CASE UNCHANGED vars
    BY <2>1, <2>8 DEF vars
  <2> QED
    BY <2>2, <2>3, <2>4, <2>5, <2>6, <2>7, <2>8 DEF Next
<1> QED
  BY <1>1, <1>2, TypeCorrect, PTL DEF Spec

------------------------------------------------------------------------------
(* Line numbers and errors                                                   *)

\* The counter of preprocessor_run follows the lines read.
LineCount ==
    /\ pc = "lines" => line_no = Len(read) + 1
    /\ pc = "end" => line_no = Len(read)
    /\ pc # "returned" => output = NoOutput

\* LineCount carries ErrorLine through every step.
LEMMA LineCountInvariant == Spec => [](LineCount /\ ErrorLine)
<1>1. Init => LineCount /\ ErrorLine
  BY DEF Init, LineCount, ErrorLine
<1>2. TypeOK /\ LineCount /\ ErrorLine /\ [Next]_vars => (LineCount /\ ErrorLine)'
  <2> SUFFICES ASSUME TypeOK, LineCount, ErrorLine, [Next]_vars
               PROVE  (LineCount /\ ErrorLine)'
    OBVIOUS
  <2>1. ASSUME NEW line \in Lines, Take(line)
        PROVE  pc = "lines" /\ line_no = Len(read) + 1 /\ Len(read') = Len(read) + 1
               /\ line_no \in Nat /\ output = NoOutput
    BY <2>1, AppendProperties DEF Take, TypeOK, LineCount
  <2>2. ASSUME NEW line \in Lines, NEW message, Take(line), output' = Failure(message),
               pc' = "returned"
        PROVE  (LineCount /\ ErrorLine)'
    BY <2>1, <2>2 DEF LineCount, ErrorLine, Failure
  <2>3. ASSUME NEW line \in Lines, Take(line), Advance(line)
        PROVE  (LineCount /\ ErrorLine)'
    BY <2>1, <2>3 DEF Advance, LineCount, ErrorLine
  <2>4. ASSUME NEW line \in Lines,
               HandleIf(line) \/ HandleOr(line) \/ HandleEnd(line) \/ TextLine(line)
        PROVE  (LineCount /\ ErrorLine)'
    BY <2>2, <2>3, <2>4 DEF HandleIf, HandleOr, HandleEnd, TextLine, Return
  <2>5. ASSUME NEW line \in Lines, OutOfMemory(line) PROVE (LineCount /\ ErrorLine)'
    <3>1. CASE output' = NoOutput
      BY <2>5, <3>1 DEF OutOfMemory, LineCount, ErrorLine, NoOutput
    <3>2. CASE output' = Failure("out of memory")
      BY <2>2, <2>5, <3>2 DEF OutOfMemory
    <3> QED
      BY <2>5, <3>1, <3>2 DEF OutOfMemory
  <2>6. CASE Finish
    BY <2>6 DEF Finish, LineCount, ErrorLine, Failure
  <2>7. CASE UNCHANGED vars
    BY <2>7 DEF vars, LineCount, ErrorLine
  <2> QED
    BY <2>4, <2>5, <2>6, <2>7 DEF Next
<1> QED
  BY <1>1, <1>2, TypeCorrect, PTL DEF Spec

\* An error names the line at which the pass stopped.
THEOREM ErrorLineCorrect == Spec => []ErrorLine
  BY LineCountInvariant, PTL

------------------------------------------------------------------------------
(* Refinement                                                                *)

\* The output holds texts of lines read only.
TextsRead == ToSet(buffer) \subseteq 0 .. Len(read)

LEMMA ToSetAppend ==
    ASSUME NEW S, NEW s \in Seq(S), NEW e \in S
    PROVE  ToSet(Append(s, e)) = ToSet(s) \cup {e}
  BY AppendProperties DEF ToSet

\* Reading a line keeps nothing by itself, nor does a blank.
LEMMA KeptUnchanged ==
    ASSUME TypeOK, TextsRead, NEW line \in Lines, Take(line),
           ToSet(buffer') \subseteq ToSet(buffer) \cup {NewLine},
           ToSet(buffer) \subseteq ToSet(buffer')
    PROVE  KeptLines' = KeptLines /\ TextsRead' /\ Len(read') = Len(read) + 1
  <1>1. Len(read') = Len(read) + 1 /\ Len(read) \in Nat
    BY AppendProperties DEF TypeOK, Take
  <1> QED
    BY <1>1 DEF KeptLines, TextsRead, NewLine

\* An active text line keeps its own number and nothing else.
LEMMA KeptAdded ==
    ASSUME TypeOK, TextsRead, NEW line \in Lines, Take(line), line_no = Len(read) + 1,
           ToSet(buffer') \subseteq ToSet(buffer) \cup {line_no, NewLine},
           ToSet(buffer) \cup {line_no} \subseteq ToSet(buffer')
    PROVE  KeptLines' = KeptLines \cup {Len(read) + 1} /\ TextsRead'
           /\ Len(read') = Len(read) + 1
  <1>1. Len(read') = Len(read) + 1 /\ Len(read) \in Nat
    BY AppendProperties DEF TypeOK, Take
  <1> QED
    BY <1>1 DEF KeptLines, TextsRead, NewLine

\* What an ordinary line adds to the output.
LEMMA TextLineKeeps ==
    ASSUME TypeOK, TextsRead, LineCount, NEW line \in Lines, TextLine(line)
    PROVE  /\ KeptLines' = IF global_active /\ line.kind = "text"
                           THEN KeptLines \cup {Len(read) + 1} ELSE KeptLines
           /\ TextsRead' /\ Len(read') = Len(read) + 1
  <1> DEFINE keeps == global_active /\ line.kind = "text"
             text == IF keeps THEN Append(buffer, line_no) ELSE buffer
  <1>1. /\ Take(line) /\ line_no = Len(read) + 1
        /\ buffer \in Seq(Nat) /\ line_no \in Nat /\ NewLine \in Nat
    BY DEF TextLine, Take, LineCount, TypeOK, NewLine
  <1>2. buffer' = text \/ buffer' = Append(text, NewLine)
    BY DEF TextLine
  <1>3. text \in Seq(Nat)
    BY <1>1
  <1>4. ToSet(buffer') = ToSet(text) \/ ToSet(buffer') = ToSet(text) \cup {NewLine}
    <2> HIDE DEF text
    <2>1. ToSet(Append(text, NewLine)) = ToSet(text) \cup {NewLine}
      BY <1>1, <1>3, ToSetAppend
    <2> QED
      BY <1>2, <2>1
  <1>5. CASE keeps
    <2>1. ToSet(text) = ToSet(buffer) \cup {line_no}
      BY <1>1, <1>5, ToSetAppend
    <2> QED
      BY <1>1, <1>4, <1>5, <2>1, KeptAdded
  <1>6. CASE ~ keeps
    BY <1>1, <1>4, <1>6, KeptUnchanged
  <1> QED
    BY <1>5, <1>6

\* A directive adds no text.
LEMMA BlankKeeps ==
    ASSUME TypeOK, TextsRead, NEW line \in Lines, Take(line), AppendBlank(line)
    PROVE  KeptLines' = KeptLines /\ TextsRead' /\ Len(read') = Len(read) + 1
  <1>1. buffer \in Seq(Nat) /\ NewLine \in Nat
    BY DEF TypeOK, NewLine
  <1>2. ToSet(buffer') = ToSet(buffer) \/ ToSet(buffer') = ToSet(buffer) \cup {NewLine}
    BY <1>1, ToSetAppend DEF AppendBlank
  <1> QED
    BY <1>2, KeptUnchanged

\* Every step of the pass is a step of the abstract selection, or none.
LEMMA StepImplements ==
    ASSUME TypeOK, FramesSummarise, LineCount, TextsRead, [Next]_vars
    PROVE  [Text!Next]_(Text!vars) /\ TextsRead'
  <1>1. ASSUME NEW line \in Lines, Take(line)
        PROVE  pc = "lines" /\ Verdict = "reading"
    BY <1>1 DEF Take, Verdict
  <1>2. ASSUME NEW line \in Lines, Take(line), Advance(line) PROVE Verdict' = "reading"
    BY <1>2 DEF Advance, Verdict
  <1>3. ASSUME NEW line \in Lines, Take(line), pc' = "returned", ~ output'.success,
               UNCHANGED <<buffer, conds>>
        PROVE  Text!Reject /\ TextsRead'
    <2>1. KeptLines' = KeptLines /\ TextsRead' /\ Len(read') = Len(read) + 1
      BY <1>3, KeptUnchanged
    <2>2. Verdict' = "rejected"
      BY <1>3 DEF Verdict
    <2> QED
      BY <1>1, <1>3, <2>1, <2>2 DEF Text!Reject
  <1>4. ASSUME NEW line \in Lines, NEW message, Take(line), Return(message)
        PROVE  Text!Reject /\ TextsRead'
    BY <1>3, <1>4 DEF Return, Failure
  <1>5. ASSUME NEW line \in Lines, Take(line), AppendBlank(line), Advance(line)
        PROVE  Text!NextLine /\ KeptLines' = KeptLines /\ TextsRead'
    BY <1>1, <1>2, <1>5, BlankKeeps DEF Text!NextLine
  <1>6. ASSUME NEW line \in Lines, HandleIf(line) PROVE Text!Next /\ TextsRead'
    <2>1. CASE line.cond = "invalid"
      BY <1>4, <1>6, <2>1 DEF HandleIf, Text!Next
    <2>2. CASE line.cond # "invalid"
      <3>1. Text!NextLine /\ KeptLines' = KeptLines /\ TextsRead'
        BY <1>5, <1>6, <2>2 DEF HandleIf
      <3>2. conds' = Append(conds, <<Holds(line)>>)
        BY <1>6, <2>2 DEF HandleIf
      <3>3. Text!Open(Holds(line))
        BY <3>1, <3>2 DEF Text!Open
      <3> QED
        BY <3>1, <3>3, FlagsTyped DEF Text!Next
    <2> QED
      BY <2>1, <2>2
  <1>7. ASSUME NEW line \in Lines, HandleOr(line) PROVE Text!Next /\ TextsRead'
    <2>1. CASE frames = << >> \/ line.cond = "invalid"
      BY <1>4, <1>7, <2>1 DEF HandleOr, Text!Next
    <2>2. CASE frames # << >> /\ line.cond # "invalid"
      <3>1. Text!NextLine /\ KeptLines' = KeptLines /\ TextsRead'
        BY <1>5, <1>7, <2>2 DEF HandleOr
      <3>2. conds' = [conds EXCEPT ![Len(conds)] = Append(@, Holds(line))]
        BY <1>7, <2>2 DEF HandleOr
      <3>3. conds # << >>
        BY <2>2, EmptySeq DEF TypeOK, FramesSummarise
      <3>4. Text!Alternative(Holds(line))
        BY <3>1, <3>2, <3>3 DEF Text!Alternative
      <3> QED
        BY <3>1, <3>4, FlagsTyped DEF Text!Next
    <2> QED
      BY <2>1, <2>2
  <1>8. ASSUME NEW line \in Lines, HandleEnd(line) PROVE Text!Next /\ TextsRead'
    <2>1. CASE frames = << >>
      BY <1>4, <1>8, <2>1 DEF HandleEnd, Text!Next
    <2>2. CASE frames # << >>
      <3>1. Text!NextLine /\ KeptLines' = KeptLines /\ TextsRead'
        BY <1>5, <1>8, <2>2 DEF HandleEnd
      <3>2. conds' = SubSeq(conds, 1, Len(conds) - 1)
        BY <1>8, <2>2 DEF HandleEnd
      <3>3. conds # << >>
        BY <2>2, EmptySeq DEF TypeOK, FramesSummarise
      <3>4. Text!Close
        BY <3>1, <3>2, <3>3 DEF Text!Close
      <3> QED
        BY <3>1, <3>4 DEF Text!Next
    <2> QED
      BY <2>1, <2>2
  <1>9. ASSUME NEW line \in Lines, TextLine(line) PROVE Text!Next /\ TextsRead'
    <2>1. Take(line) /\ Advance(line) /\ conds' = conds
      BY <1>9 DEF TextLine
    <2>2. /\ KeptLines' = IF global_active /\ line.kind = "text"
                          THEN KeptLines \cup {Len(read) + 1} ELSE KeptLines
          /\ TextsRead' /\ Len(read') = Len(read) + 1
      BY <1>9, TextLineKeeps
    <2>3. Text!NextLine
      BY <1>1, <1>2, <2>1, <2>2 DEF Text!NextLine
    <2> DEFINE empty == line.kind # "text"
    <2>4. empty \in BOOLEAN /\ (line.kind = "text" <=> ~ empty)
      OBVIOUS
    <2> HIDE DEF empty
    <2>5. global_active <=> Text!Selected(conds)
      BY DEF FramesSummarise
    <2>6. KeptLines' = IF Text!Selected(conds) /\ ~ empty
                       THEN KeptLines \cup {Len(read) + 1} ELSE KeptLines
      BY <2>2, <2>4, <2>5
    <2>7. Text!Text(empty)
      BY <2>1, <2>3, <2>6 DEF Text!Text
    <2> QED
      BY <2>2, <2>4, <2>7 DEF Text!Next
  <1>10. ASSUME NEW line \in Lines, OutOfMemory(line) PROVE Text!Next /\ TextsRead'
    <2>1. output' = Failure("out of memory") \/ output' = NoOutput
      BY <1>10 DEF OutOfMemory
    <2>2. ~ output'.success
      <3>1. CASE output' = NoOutput
        BY <3>1 DEF NoOutput
      <3>2. CASE output' = Failure("out of memory")
        BY <3>2 DEF Failure
      <3> QED
        BY <2>1, <3>1, <3>2
    <2> QED
      BY <1>3, <1>10, <2>2 DEF OutOfMemory, Text!Next
  <1>11. ASSUME Finish PROVE Text!Next /\ TextsRead'
    <2>1. /\ Verdict = "reading" /\ KeptLines' = KeptLines /\ Len(read') = Len(read)
          /\ conds' = conds /\ TextsRead'
      BY <1>11 DEF Finish, Verdict, KeptLines, TextsRead
    <2>2. CASE frames = << >>
      <3>1. conds = << >>
        BY <2>2, EmptySeq DEF TypeOK, FramesSummarise
      <3>2. Verdict' = "accepted"
        BY <1>11, <2>2 DEF Finish, Verdict
      <3> QED
        BY <2>1, <3>1, <3>2 DEF Text!Accept, Text!Next
    <2>3. CASE frames # << >>
      <3>1. Verdict' = "rejected"
        BY <1>11, <2>3 DEF Finish, Verdict, Failure
      <3> QED
        BY <2>1, <3>1 DEF Text!Reject, Text!Next
    <2> QED
      BY <2>2, <2>3
  <1>12. CASE UNCHANGED vars
    BY <1>12 DEF vars, TextsRead, KeptLines, Verdict, Text!vars
  <1> QED
    BY <1>6, <1>7, <1>8, <1>9, <1>10, <1>11, <1>12 DEF Next

\* preprocessor_run implements the conditional selection of ConditionalText.
THEOREM PreprocessorImplementsConditionalText == Spec => ImplementsConditionalText
<1>1. Init => Text!Init /\ TextsRead
  <2> SUFFICES ASSUME Init PROVE Text!Init /\ TextsRead
    OBVIOUS
  <2>1. buffer = << >> /\ read = << >> /\ conds = << >> /\ pc = "lines"
    BY DEF Init
  <2>2. ToSet(buffer) = {}
    BY <2>1 DEF ToSet
  <2> QED
    BY <2>1, <2>2 DEF Text!Init, TextsRead, KeptLines, Verdict
<1>2. TypeOK /\ FramesSummarise /\ LineCount /\ TextsRead /\ [Next]_vars
        => [Text!Next]_(Text!vars) /\ TextsRead'
  BY StepImplements
<1> QED
  BY <1>1, <1>2, TypeCorrect, FramesSummariseCorrect, LineCountInvariant, PTL
     DEF Spec, ImplementsConditionalText, Text!Spec

------------------------------------------------------------------------------
(* The source text and the frames                                            *)

\* What the properties say of the lines read, for any sequence of lines: how
\* many directives of a kind lines i to n hold, whether the conditional at line
\* i is open after line n, its branches up to line n, whether line n lies in the
\* first true one, and whether the text at line n is kept.
Count(r, kind, i, n) == Cardinality({k \in i .. n : r[k].kind = kind})
DepthIn(r, i, n) == Count(r, "if", i, n) - Count(r, "end", i, n)
OpenIn(r, i, n) ==
    r[i].kind = "if" /\ \A k \in i .. n : Count(r, "if", i, k) > Count(r, "end", i, k)
BranchesIn(r, i, n) ==
    {i} \cup {k \in i .. n : r[k].kind = "or" /\ OpenIn(r, i, k) /\ DepthIn(r, i, k) = 1}
SelectedIn(r, i, n) ==
    \A k \in BranchesIn(r, i, n) :
        (r[k].cond = "true") <=> (\A j \in BranchesIn(r, i, n) : j <= k)
KeptIn(r, n) ==
    r[n].kind = "text" /\ \A i \in 1 .. n - 1 : OpenIn(r, i, n) => SelectedIn(r, i, n)

LEMMA OfTheLinesRead ==
    /\ \A i, m : OpenAt(i, m) <=> OpenIn(read, i, m)
    /\ \A m : KeptByText(m) <=> KeptIn(read, m)
  <1>1. \A kind, i, n : Directives(kind, i, n) = Count(read, kind, i, n)
    BY DEF Directives, Count
  <1>2. \A i, n : OpenAt(i, n) <=> OpenIn(read, i, n)
    BY <1>1 DEF OpenAt, OpenIn
  <1>3. \A i, n : Depth(i, n) = DepthIn(read, i, n)
    BY <1>1 DEF Depth, DepthIn
  <1>4. \A i, n : Branches(i, n) = BranchesIn(read, i, n)
    BY <1>2, <1>3 DEF Branches, BranchesIn
  <1>5. \A i, n : InSelectedBranch(i, n) <=> SelectedIn(read, i, n)
    BY <1>4 DEF InSelectedBranch, SelectedIn
  <1> QED
    BY <1>2, <1>5 DEF KeptByText, KeptIn

\* What they say of lines 1 to n does not depend on the lines after n.
LEMMA CountAgrees ==
    ASSUME NEW r, NEW q, NEW n \in Nat, \A k \in 1 .. n : q[k] = r[k],
           NEW i \in 1 .. n, NEW m \in i .. n, NEW kind
    PROVE  Count(q, kind, i, m) = Count(r, kind, i, m)
  <1>1. {k \in i .. m : q[k].kind = kind} = {k \in i .. m : r[k].kind = kind}
    OBVIOUS
  <1> QED
    BY <1>1 DEF Count

LEMMA OpenAgrees ==
    ASSUME NEW r, NEW q, NEW n \in Nat, \A k \in 1 .. n : q[k] = r[k],
           NEW i \in 1 .. n, NEW m \in i .. n
    PROVE  /\ OpenIn(q, i, m) <=> OpenIn(r, i, m)
           /\ DepthIn(q, i, m) = DepthIn(r, i, m)
  <1>1. \A k \in i .. m : k \in i .. n
    OBVIOUS
  <1>2. \A k \in i .. m : \A kind : Count(q, kind, i, k) = Count(r, kind, i, k)
    BY <1>1, CountAgrees
  <1>3. q[i] = r[i]
    OBVIOUS
  <1>4. m \in i .. m
    OBVIOUS
  <1> QED
    BY <1>2, <1>3, <1>4 DEF OpenIn, DepthIn

LEMMA BranchesAgree ==
    ASSUME NEW r, NEW q, NEW n \in Nat, \A k \in 1 .. n : q[k] = r[k],
           NEW i \in 1 .. n, NEW m \in i .. n
    PROVE  /\ BranchesIn(q, i, m) = BranchesIn(r, i, m)
           /\ BranchesIn(q, i, m) \subseteq i .. m
           /\ SelectedIn(q, i, m) <=> SelectedIn(r, i, m)
  <1>1. \A k \in i .. m : k \in i .. n /\ q[k] = r[k]
    OBVIOUS
  <1>2. \A k \in i .. m : /\ OpenIn(q, i, k) <=> OpenIn(r, i, k)
                          /\ DepthIn(q, i, k) = DepthIn(r, i, k)
    BY <1>1, OpenAgrees
  <1>3. BranchesIn(q, i, m) = BranchesIn(r, i, m)
    BY <1>1, <1>2 DEF BranchesIn
  <1>4. BranchesIn(q, i, m) \subseteq i .. m
    BY DEF BranchesIn
  <1>5. \A k \in BranchesIn(q, i, m) : q[k] = r[k]
    BY <1>1, <1>4
  <1> QED
    BY <1>3, <1>4, <1>5 DEF SelectedIn

LEMMA KeptAgrees ==
    ASSUME NEW r, NEW q, NEW n \in Nat, \A k \in 1 .. n : q[k] = r[k], NEW m \in 1 .. n
    PROVE  KeptIn(q, m) <=> KeptIn(r, m)
  <1>1. \A i \in 1 .. m - 1 : i \in 1 .. n /\ m \in i .. n
    OBVIOUS
  <1>2. \A i \in 1 .. m - 1 : /\ OpenIn(q, i, m) <=> OpenIn(r, i, m)
                              /\ SelectedIn(q, i, m) <=> SelectedIn(r, i, m)
    BY <1>1, OpenAgrees, BranchesAgree
  <1>3. q[m] = r[m]
    OBVIOUS
  <1> QED
    BY <1>2, <1>3 DEF KeptIn

\* One line more.
LEMMA CountStep ==
    ASSUME NEW r, NEW i \in Nat, NEW n \in Nat, NEW kind
    PROVE  /\ Count(r, kind, i, n) \in Nat
           /\ i <= n + 1 => Count(r, kind, i, n + 1)
                              = Count(r, kind, i, n) + IF r[n + 1].kind = kind THEN 1 ELSE 0
           /\ n < i => Count(r, kind, i, n) = 0
  <1> DEFINE S(m) == {k \in i .. m : r[k].kind = kind}
  <1>1. ASSUME NEW m \in Nat PROVE IsFiniteSet(S(m)) /\ Cardinality(S(m)) \in Nat
    <2>1. IsFiniteSet(i .. m)
      BY FS_Interval
    <2>2. S(m) \subseteq i .. m
      OBVIOUS
    <2>3. IsFiniteSet(S(m))
      BY <2>1, <2>2, FS_Subset
    <2> QED
      BY <2>3, FS_CardinalityType
  <1>2. ASSUME i <= n + 1, r[n + 1].kind = kind
        PROVE  Cardinality(S(n + 1)) = Cardinality(S(n)) + 1
    <2>1. S(n + 1) = S(n) \cup {n + 1} /\ n + 1 \notin S(n)
      BY <1>2
    <2> HIDE DEF S
    <2> QED
      BY <1>1, <2>1, FS_AddElement
  <1>3. ASSUME r[n + 1].kind # kind
        PROVE  S(n + 1) = S(n)
    BY <1>3
  <1>4. ASSUME n < i PROVE S(n) = {}
    BY <1>4
  <1>5. \A m : Count(r, kind, i, m) = Cardinality(S(m))
    BY DEF Count
  <1>6. Cardinality(S(n)) \in Nat
    BY <1>1
  <1> HIDE DEF S
  <1> QED
    BY <1>2, <1>3, <1>4, <1>5, <1>6, FS_EmptySet

LEMMA OpenStep ==
    ASSUME NEW r, NEW n \in Nat, NEW i \in 1 .. n
    PROVE  /\ DepthIn(r, i, n) \in Int
           /\ DepthIn(r, i, n + 1)
                = IF r[n + 1].kind = "if" THEN DepthIn(r, i, n) + 1
                  ELSE IF r[n + 1].kind = "end" THEN DepthIn(r, i, n) - 1
                  ELSE DepthIn(r, i, n)
           /\ OpenIn(r, i, n + 1) <=> OpenIn(r, i, n) /\ DepthIn(r, i, n + 1) > 0
           /\ OpenIn(r, i, n) => DepthIn(r, i, n) > 0
           /\ BranchesIn(r, i, n + 1) = BranchesIn(r, i, n) \cup
                IF r[n + 1].kind = "or" /\ OpenIn(r, i, n + 1) /\ DepthIn(r, i, n + 1) = 1
                THEN {n + 1} ELSE {}
           /\ BranchesIn(r, i, n) \subseteq i .. n
  <1>1. \A kind : /\ Count(r, kind, i, n) \in Nat
                  /\ Count(r, kind, i, n + 1)
                       = Count(r, kind, i, n) + IF r[n + 1].kind = kind THEN 1 ELSE 0
    BY CountStep
  <1>2. i .. n + 1 = (i .. n) \cup {n + 1} /\ n \in i .. n
    OBVIOUS
  <1>3. \A k \in i .. n : k \in Nat
    OBVIOUS
  <1>4. /\ Count(r, "if", i, n) \in Nat /\ Count(r, "end", i, n) \in Nat
        /\ Count(r, "if", i, n + 1)
             = Count(r, "if", i, n) + IF r[n + 1].kind = "if" THEN 1 ELSE 0
        /\ Count(r, "end", i, n + 1)
             = Count(r, "end", i, n) + IF r[n + 1].kind = "end" THEN 1 ELSE 0
    BY <1>1
  <1>5. /\ DepthIn(r, i, n) \in Int
        /\ DepthIn(r, i, n + 1)
             = IF r[n + 1].kind = "if" THEN DepthIn(r, i, n) + 1
               ELSE IF r[n + 1].kind = "end" THEN DepthIn(r, i, n) - 1
               ELSE DepthIn(r, i, n)
    BY <1>4 DEF DepthIn
  <1>6. Count(r, "if", i, n + 1) > Count(r, "end", i, n + 1) <=> DepthIn(r, i, n + 1) > 0
    BY <1>4 DEF DepthIn
  <1>7. OpenIn(r, i, n) => DepthIn(r, i, n) > 0
    BY <1>2, <1>4 DEF OpenIn, DepthIn
  <1>8. OpenIn(r, i, n + 1) <=> OpenIn(r, i, n) /\ DepthIn(r, i, n + 1) > 0
    BY <1>2, <1>6 DEF OpenIn
  <1>9. BranchesIn(r, i, n + 1) = BranchesIn(r, i, n) \cup
                IF r[n + 1].kind = "or" /\ OpenIn(r, i, n + 1) /\ DepthIn(r, i, n + 1) = 1
                THEN {n + 1} ELSE {}
    BY <1>2 DEF BranchesIn
  <1>10. BranchesIn(r, i, n) \subseteq i .. n
    BY DEF BranchesIn
  <1> QED
    BY <1>5, <1>7, <1>8, <1>9, <1>10

\* A conditional has just been opened.
LEMMA OpenFirst ==
    ASSUME NEW r, NEW n \in Nat, r[n + 1].kind = "if"
    PROVE  /\ OpenIn(r, n + 1, n + 1) /\ DepthIn(r, n + 1, n + 1) = 1
           /\ BranchesIn(r, n + 1, n + 1) = {n + 1}
  <1>1. /\ Count(r, "if", n + 1, n + 1) = Count(r, "if", n + 1, n) + 1
        /\ Count(r, "end", n + 1, n + 1) = Count(r, "end", n + 1, n) + 0
        /\ Count(r, "if", n + 1, n) = 0 /\ Count(r, "end", n + 1, n) = 0
    BY CountStep
  <1>2. (n + 1) .. (n + 1) = {n + 1}
    OBVIOUS
  <1>3. Count(r, "if", n + 1, n + 1) = 1 /\ Count(r, "end", n + 1, n + 1) = 0
    BY <1>1
  <1> QED
    BY <1>2, <1>3 DEF OpenIn, DepthIn, BranchesIn

\* The conditional opened at line i is one the pass has open after line n, with
\* the conditions g, and depth - 1 more within it.
Level(r, n, i, g, depth) ==
    /\ OpenIn(r, i, n)
    /\ DepthIn(r, i, n) = depth
    /\ Text!FirstTrue(g) <=> SelectedIn(r, i, n)
    /\ (\E j \in 1 .. Len(g) : g[j]) <=> \E k \in BranchesIn(r, i, n) : r[k].cond = "true"

\* The open groups are the conditionals open after line n, outermost first;
\* opener gives the line of each.
Follows(r, n, open, opener) ==
    /\ opener \in [1 .. Len(open) -> 1 .. n]
    /\ \A d \in 1 .. Len(open) : Level(r, n, opener[d], open[d], Len(open) - d + 1)
    /\ \A i \in 1 .. n : OpenIn(r, i, n) => \E d \in 1 .. Len(open) : opener[d] = i

LEMMA FollowsAgrees ==
    ASSUME NEW r, NEW q, NEW n \in Nat, \A k \in 1 .. n : q[k] = r[k],
           NEW open, NEW opener, Follows(r, n, open, opener)
    PROVE  Follows(q, n, open, opener)
  <1>1. ASSUME NEW i \in 1 .. n, NEW g, NEW depth, Level(r, n, i, g, depth)
        PROVE  Level(q, n, i, g, depth)
    <2>1. n \in i .. n
      OBVIOUS
    <2>2. /\ OpenIn(q, i, n) <=> OpenIn(r, i, n)
          /\ DepthIn(q, i, n) = DepthIn(r, i, n)
      BY <2>1, OpenAgrees
    <2>3. /\ BranchesIn(q, i, n) = BranchesIn(r, i, n)
          /\ BranchesIn(q, i, n) \subseteq i .. n
          /\ SelectedIn(q, i, n) <=> SelectedIn(r, i, n)
      BY <2>1, BranchesAgree
    <2>4. \A k \in BranchesIn(q, i, n) : q[k] = r[k]
      BY <2>3
    <2> QED
      BY <1>1, <2>2, <2>3, <2>4 DEF Level
  <1>2. ASSUME NEW i \in 1 .. n PROVE OpenIn(q, i, n) <=> OpenIn(r, i, n)
    <2>1. n \in i .. n
      OBVIOUS
    <2> QED
      BY <2>1, OpenAgrees
  <1>3. \A d \in 1 .. Len(open) : opener[d] \in 1 .. n
    BY DEF Follows
  <1> QED
    BY <1>1, <1>2, <1>3 DEF Follows

\* A line that is no branch of a conditional leaves what is known of it, as
\* long as it does not close it.
LEMMA LevelStep ==
    ASSUME NEW r, NEW n \in Nat, NEW i \in 1 .. n, NEW g, NEW depth \in Nat,
           Level(r, n, i, g, depth), r[n + 1].kind = "or" => depth # 1,
           NEW deeper, deeper > 0,
           deeper = IF r[n + 1].kind = "if" THEN depth + 1
                    ELSE IF r[n + 1].kind = "end" THEN depth - 1 ELSE depth
    PROVE  Level(r, n + 1, i, g, deeper)
  <1>1. DepthIn(r, i, n + 1) = deeper
    BY OpenStep DEF Level
  <1>2. OpenIn(r, i, n + 1)
    <2>1. OpenIn(r, i, n + 1) <=> OpenIn(r, i, n) /\ DepthIn(r, i, n + 1) > 0
      BY OpenStep
    <2>2. OpenIn(r, i, n)
      BY DEF Level
    <2> QED
      BY <1>1, <2>1, <2>2
  <1>3. ~ (r[n + 1].kind = "or" /\ OpenIn(r, i, n + 1) /\ DepthIn(r, i, n + 1) = 1)
    BY <1>1
  <1>4. BranchesIn(r, i, n + 1) = BranchesIn(r, i, n)
    <2>1. BranchesIn(r, i, n + 1) = BranchesIn(r, i, n) \cup
                IF r[n + 1].kind = "or" /\ OpenIn(r, i, n + 1) /\ DepthIn(r, i, n + 1) = 1
                THEN {n + 1} ELSE {}
      BY OpenStep
    <2> QED
      BY <1>3, <2>1
  <1>5. SelectedIn(r, i, n + 1) <=> SelectedIn(r, i, n)
    BY <1>4 DEF SelectedIn
  <1> QED
    BY <1>1, <1>2, <1>4, <1>5 DEF Level

\* An ordinary line opens and closes nothing.
LEMMA PlainFollows ==
    ASSUME NEW r, NEW n \in Nat, r[n + 1].kind \in {"text", "empty"},
           NEW open \in Seq(Seq(BOOLEAN)), NEW opener, Follows(r, n, open, opener)
    PROVE  Follows(r, n + 1, open, opener)
  <1>1. Len(open) \in Nat
    OBVIOUS
  <1>2. opener \in [1 .. Len(open) -> 1 .. n + 1]
    BY DEF Follows
  <1>3. ASSUME NEW d \in 1 .. Len(open)
        PROVE  Level(r, n + 1, opener[d], open[d], Len(open) - d + 1)
    <2>1. opener[d] \in 1 .. n /\ Level(r, n, opener[d], open[d], Len(open) - d + 1)
      BY DEF Follows
    <2>2. Len(open) - d + 1 \in Nat /\ Len(open) - d + 1 > 0
      BY <1>1
    <2> QED
      BY <2>1, <2>2, LevelStep
  <1>4. ASSUME NEW i \in 1 .. n + 1, OpenIn(r, i, n + 1)
        PROVE  \E d \in 1 .. Len(open) : opener[d] = i
    <2>1. i # n + 1
      BY <1>4 DEF OpenIn
    <2>2. i \in 1 .. n
      BY <2>1
    <2>3. OpenIn(r, i, n)
      BY <1>4, <2>2, OpenStep
    <2> QED
      BY <2>2, <2>3 DEF Follows
  <1> QED
    BY <1>2, <1>3, <1>4 DEF Follows

\* #@if opens a conditional within the others.
LEMMA IfFollows ==
    ASSUME NEW r, NEW n \in Nat, r[n + 1].kind = "if",
           NEW b \in BOOLEAN, b <=> r[n + 1].cond = "true",
           NEW open \in Seq(Seq(BOOLEAN)), NEW opener, Follows(r, n, open, opener)
    PROVE  \E next : Follows(r, n + 1, Append(open, <<b>>), next)
  <1> DEFINE D == Len(open)
             more == Append(open, <<b>>)
             next == [d \in 1 .. D + 1 |-> IF d = D + 1 THEN n + 1 ELSE opener[d]]
  <1>1. /\ D \in Nat /\ Len(more) = D + 1 /\ more[D + 1] = <<b>>
        /\ \A d \in 1 .. D : more[d] = open[d]
    BY AppendProperties
  <1>2. next \in [1 .. D + 1 -> 1 .. n + 1]
    BY <1>1 DEF Follows
  <1>3. Level(r, n + 1, n + 1, <<b>>, 1)
    <2>1. /\ OpenIn(r, n + 1, n + 1) /\ DepthIn(r, n + 1, n + 1) = 1
          /\ BranchesIn(r, n + 1, n + 1) = {n + 1}
      BY OpenFirst
    <2>2. SelectedIn(r, n + 1, n + 1) <=> b
      BY <2>1 DEF SelectedIn
    <2>3. Text!FirstTrue(<<b>>) <=> b
      BY FirstTrueOne
    <2>4. (\E j \in 1 .. Len(<<b>>) : <<b>>[j]) <=> b
      OBVIOUS
    <2>5. (\E k \in BranchesIn(r, n + 1, n + 1) : r[k].cond = "true") <=> b
      BY <2>1
    <2> QED
      BY <2>1, <2>2, <2>3, <2>4, <2>5 DEF Level
  <1> HIDE DEF more
  <1>4. ASSUME NEW d \in 1 .. D + 1
        PROVE  Level(r, n + 1, next[d], more[d], (D + 1) - d + 1)
    <2>1. CASE d = D + 1
      <3>1. next[d] = n + 1 /\ more[d] = <<b>> /\ (D + 1) - d + 1 = 1
        BY <1>1, <2>1
      <3> QED
        BY <1>3, <3>1
    <2>2. CASE d # D + 1
      <3>1. d \in 1 .. D
        BY <1>1, <2>2
      <3>2. opener[d] \in 1 .. n /\ Level(r, n, opener[d], open[d], D - d + 1)
        BY <3>1 DEF Follows
      <3>3. /\ D - d + 1 \in Nat /\ (D + 1) - d + 1 > 0 /\ (D + 1) - d + 1 = (D - d + 1) + 1
        BY <1>1, <3>1
      <3>4. Level(r, n + 1, opener[d], open[d], (D + 1) - d + 1)
        BY <3>2, <3>3, LevelStep
      <3> QED
        BY <1>1, <2>2, <3>1, <3>4
    <2> QED
      BY <2>1, <2>2
  <1>5. ASSUME NEW i \in 1 .. n + 1, OpenIn(r, i, n + 1)
        PROVE  \E d \in 1 .. D + 1 : next[d] = i
    <2>1. CASE i = n + 1
      <3>1. D + 1 \in 1 .. D + 1 /\ next[D + 1] = i
        BY <1>1, <2>1
      <3> QED
        BY <3>1
    <2>2. CASE i # n + 1
      <3>1. i \in 1 .. n
        BY <2>2
      <3>2. OpenIn(r, i, n)
        BY <1>5, <3>1, OpenStep
      <3>3. PICK d \in 1 .. D : opener[d] = i
        BY <3>1, <3>2 DEF Follows
      <3>4. d \in 1 .. D + 1 /\ next[d] = i
        BY <1>1, <3>3
      <3> QED
        BY <3>4
    <2> QED
      BY <2>1, <2>2
  <1> HIDE DEF next
  <1>6. Follows(r, n + 1, more, next)
    BY <1>1, <1>2, <1>4, <1>5 DEF Follows
  <1> QED
    BY <1>6 DEF more

\* #@or is one more branch of the innermost conditional.
LEMMA OrFollows ==
    ASSUME NEW r, NEW n \in Nat, r[n + 1].kind = "or",
           NEW b \in BOOLEAN, b <=> r[n + 1].cond = "true",
           NEW open \in Seq(Seq(BOOLEAN)), open # << >>,
           NEW opener, Follows(r, n, open, opener)
    PROVE  Follows(r, n + 1, [open EXCEPT ![Len(open)] = Append(@, b)], opener)
  <1> DEFINE D == Len(open)
             group == Append(open[D], b)
             more == [open EXCEPT ![D] = group]
  <1>1. D \in Nat /\ D > 0 /\ open[D] \in Seq(BOOLEAN) /\ D \in 1 .. D
    BY EmptySeq
  <1>2. /\ group \in Seq(BOOLEAN) /\ Len(group) = Len(open[D]) + 1 /\ Len(open[D]) \in Nat
        /\ \A j \in 1 .. Len(open[D]) : group[j] = open[D][j]
        /\ group[Len(open[D]) + 1] = b
    BY <1>1, AppendProperties
  <1>3. /\ Len(more) = D /\ more[D] = group
        /\ \A d \in 1 .. D : d # D => more[d] = open[d]
    BY <1>1, <1>2, ExceptSeq
  <1>4. opener \in [1 .. D -> 1 .. n + 1]
    BY DEF Follows
  <1>5. opener[D] \in 1 .. n /\ Level(r, n, opener[D], open[D], 1)
    <2>1. D - D + 1 = 1
      BY <1>1
    <2> QED
      BY <1>1, <2>1 DEF Follows
  <1>6. Level(r, n + 1, opener[D], group, 1)
    <2> DEFINE i == opener[D]
               B == BranchesIn(r, i, n)
    <2>1. OpenIn(r, i, n + 1) /\ DepthIn(r, i, n + 1) = 1
      BY <1>5, OpenStep DEF Level
    <2>2. BranchesIn(r, i, n + 1) = B \cup {n + 1} /\ B \subseteq i .. n
      BY <1>5, <2>1, OpenStep
    <2>3. \A k \in B : k \in Nat /\ k <= n
      BY <1>5, <2>2
    <2>4. Text!FirstTrue(group) <=> b /\ \A j \in 1 .. Len(open[D]) : ~ open[D][j]
      BY <1>1, FirstTrueAppend
    <2>5. (\E j \in 1 .. Len(open[D]) : open[D][j]) <=> \E k \in B : r[k].cond = "true"
      BY <1>5 DEF Level
    <2>6. SelectedIn(r, i, n + 1) <=> b /\ \A k \in B : r[k].cond # "true"
      <3> HIDE DEF B
      <3>1. \A k \in B : ~ (n + 1 <= k)
        BY <2>3
      <3>2. \A k \in B \cup {n + 1} : k <= n + 1
        BY <2>3
      <3> HIDE DEF i
      <3> QED
        BY <2>2, <3>1, <3>2 DEF SelectedIn
    <2>7. (\E j \in 1 .. Len(group) : group[j]) <=> b \/ \E j \in 1 .. Len(open[D]) : open[D][j]
      <3> DEFINE m == Len(open[D])
      <3>1. 1 .. Len(group) = (1 .. m) \cup {m + 1}
        BY <1>2
      <3>2. (\E j \in 1 .. Len(group) : group[j]) <=>
              group[m + 1] \/ \E j \in 1 .. m : group[j]
        BY <3>1, Zenon
      <3>3. (\E j \in 1 .. m : group[j]) <=> \E j \in 1 .. m : open[D][j]
        BY <1>2, Zenon
      <3> QED
        BY <1>2, <3>2, <3>3
    <2>8. (\E k \in BranchesIn(r, i, n + 1) : r[k].cond = "true") <=>
            b \/ \E k \in B : r[k].cond = "true"
      BY <2>2
    <2> HIDE DEF B
    <2>9. Text!FirstTrue(group) <=> SelectedIn(r, i, n + 1)
      BY <2>4, <2>5, <2>6
    <2> QED
      BY <2>1, <2>5, <2>7, <2>8, <2>9 DEF Level
  <1> HIDE DEF group, more
  <1>7. ASSUME NEW d \in 1 .. D
        PROVE  Level(r, n + 1, opener[d], more[d], D - d + 1)
    <2>1. CASE d = D
      <3>1. D - d + 1 = 1
        BY <1>1, <2>1
      <3> QED
        BY <1>3, <1>6, <2>1, <3>1
    <2>2. CASE d # D
      <3>1. opener[d] \in 1 .. n /\ Level(r, n, opener[d], open[d], D - d + 1)
        BY DEF Follows
      <3>2. D - d + 1 \in Nat /\ D - d + 1 > 0 /\ D - d + 1 # 1
        BY <1>1, <2>2
      <3>3. Level(r, n + 1, opener[d], open[d], D - d + 1)
        BY <3>1, <3>2, LevelStep
      <3> QED
        BY <1>3, <2>2, <3>3
    <2> QED
      BY <2>1, <2>2
  <1>8. ASSUME NEW i \in 1 .. n + 1, OpenIn(r, i, n + 1)
        PROVE  \E d \in 1 .. D : opener[d] = i
    <2>1. i # n + 1
      BY <1>8 DEF OpenIn
    <2>2. i \in 1 .. n
      BY <2>1
    <2>3. OpenIn(r, i, n)
      BY <1>8, <2>2, OpenStep
    <2> QED
      BY <2>2, <2>3 DEF Follows
  <1>9. Follows(r, n + 1, more, opener)
    BY <1>3, <1>4, <1>7, <1>8 DEF Follows
  <1> QED
    BY <1>9 DEF more, group

\* #@end closes the innermost conditional.
LEMMA EndFollows ==
    ASSUME NEW r, NEW n \in Nat, r[n + 1].kind = "end",
           NEW open \in Seq(Seq(BOOLEAN)), open # << >>,
           NEW opener, Follows(r, n, open, opener)
    PROVE  \E next : Follows(r, n + 1, SubSeq(open, 1, Len(open) - 1), next)
  <1> DEFINE D == Len(open)
             less == SubSeq(open, 1, D - 1)
             next == [d \in 1 .. D - 1 |-> opener[d]]
  <1>1. D \in Nat /\ D > 0 /\ D \in 1 .. D /\ D - 1 \in Nat
    BY EmptySeq
  <1>2. Len(less) = D - 1 /\ \A d \in 1 .. D - 1 : less[d] = open[d]
    <2>1. \A d \in 1 .. D - 1 : open[d] \in Seq(BOOLEAN)
      OBVIOUS
    <2>2. D - 1 \in Int /\ (D - 1) - 1 + 1 = D - 1
      BY <1>1
    <2> HIDE DEF D
    <2>3. /\ Len(SubSeq(open, 1, D - 1)) = IF 1 <= D - 1 THEN (D - 1) - 1 + 1 ELSE 0
          /\ \A d \in 1 .. (D - 1) - 1 + 1 : SubSeq(open, 1, D - 1)[d] = open[1 + d - 1]
      BY <2>1, <2>2, SubSeqProperties
    <2> QED
      BY <1>1, <2>2, <2>3
  <1>3. next \in [1 .. D - 1 -> 1 .. n + 1]
    BY <1>1 DEF Follows
  <1> HIDE DEF less
  <1>4. ASSUME NEW d \in 1 .. D - 1
        PROVE  Level(r, n + 1, next[d], less[d], (D - 1) - d + 1)
    <2>1. d \in 1 .. D
      BY <1>1
    <2>2. opener[d] \in 1 .. n /\ Level(r, n, opener[d], open[d], D - d + 1)
      BY <2>1 DEF Follows
    <2>3. D - d + 1 \in Nat /\ (D - 1) - d + 1 > 0 /\ (D - 1) - d + 1 = (D - d + 1) - 1
      BY <1>1
    <2>4. Level(r, n + 1, opener[d], open[d], (D - 1) - d + 1)
      BY <2>2, <2>3, LevelStep
    <2> QED
      BY <1>2, <2>4
  <1>5. ASSUME NEW i \in 1 .. n + 1, OpenIn(r, i, n + 1)
        PROVE  \E d \in 1 .. D - 1 : next[d] = i
    <2>1. i # n + 1
      BY <1>5 DEF OpenIn
    <2>2. i \in 1 .. n
      BY <2>1
    <2>3. OpenIn(r, i, n) /\ DepthIn(r, i, n) - 1 > 0 /\ DepthIn(r, i, n) \in Int
      <3>1. /\ OpenIn(r, i, n + 1) <=> OpenIn(r, i, n) /\ DepthIn(r, i, n + 1) > 0
            /\ DepthIn(r, i, n) \in Int
        BY <2>2, OpenStep
      <3>2. DepthIn(r, i, n + 1) = DepthIn(r, i, n) - 1
        BY <2>2, OpenStep
      <3> QED
        BY <1>5, <3>1, <3>2
    <2>4. PICK d \in 1 .. D : opener[d] = i
      BY <2>2, <2>3 DEF Follows
    <2>5. DepthIn(r, i, n) = D - d + 1
      BY <2>4 DEF Follows, Level
    <2>6. d \in 1 .. D - 1
      BY <1>1, <2>3, <2>5
    <2> QED
      BY <2>4, <2>6
  <1> HIDE DEF next
  <1>6. Follows(r, n + 1, less, next)
    BY <1>2, <1>3, <1>4, <1>5 DEF Follows
  <1> QED
    BY <1>6 DEF less

\* The sequence of lines after one more.
LEMMA Taken ==
    ASSUME TypeOK, NEW line \in Lines, Take(line)
    PROVE  /\ Len(read) \in Nat /\ Len(read') = Len(read) + 1
           /\ read'[Len(read) + 1] = line
           /\ \A k \in 1 .. Len(read) : read'[k] = read[k]
           /\ pc = "lines"
  BY AppendProperties DEF TypeOK, Take

\* The frames follow the source as long as it is read.
Following == pc # "returned" => \E opener : Follows(read, Len(read), conds, opener)

LEMMA StepFollows ==
    ASSUME TypeOK, FramesSummarise, Following, NEW line \in Lines, pc' # "returned",
           HandleIf(line) \/ HandleOr(line) \/ HandleEnd(line) \/ TextLine(line)
    PROVE  \E opener : Follows(read', Len(read) + 1, conds', opener)
  <1> SUFFICES ASSUME NEW n, n = Len(read), NEW q, q = read', NEW open, open = conds
               PROVE  \E opener : Follows(q, n + 1, conds', opener)
    OBVIOUS
  <1>1. Take(line)
    BY DEF HandleIf, HandleOr, HandleEnd, TextLine
  <1>2. /\ n \in Nat /\ q[n + 1] = line /\ \A k \in 1 .. n : q[k] = read[k]
        /\ pc # "returned" /\ open \in Seq(Seq(BOOLEAN))
    BY <1>1, Taken DEF TypeOK
  <1>3. PICK opener : Follows(q, n, open, opener)
    <2>1. PICK opener : Follows(read, n, open, opener)
      BY <1>2 DEF Following
    <2>2. Follows(q, n, open, opener)
      BY <1>2, <2>1, FollowsAgrees
    <2> QED
      BY <2>2
  <1>4. Holds(line) \in BOOLEAN /\ (Holds(line) <=> q[n + 1].cond = "true")
    BY <1>2, FlagsTyped DEF Holds
  <1>5. CASE HandleIf(line)
    <2>1. line.kind = "if" /\ conds' = Append(open, <<Holds(line)>>)
      BY <1>5 DEF HandleIf, Return
    <2>2. q[n + 1].kind = "if"
      BY <1>2, <2>1
    <2>3. \E next : Follows(q, n + 1, Append(open, <<Holds(line)>>), next)
      BY <1>2, <1>3, <1>4, <2>2, IfFollows
    <2> QED
      BY <2>1, <2>3
  <1>6. CASE HandleOr(line)
    <2>1. line.kind = "or" /\ frames # << >>
          /\ conds' = [open EXCEPT ![Len(open)] = Append(@, Holds(line))]
      BY <1>6 DEF HandleOr, Return
    <2>2. open # << >>
      BY <2>1, EmptySeq DEF TypeOK, FramesSummarise
    <2>3. q[n + 1].kind = "or"
      BY <1>2, <2>1
    <2>4. Follows(q, n + 1, [open EXCEPT ![Len(open)] = Append(@, Holds(line))], opener)
      BY <1>2, <1>3, <1>4, <2>2, <2>3, OrFollows
    <2> QED
      BY <2>1, <2>4
  <1>7. CASE HandleEnd(line)
    <2>1. line.kind = "end" /\ frames # << >> /\ conds' = SubSeq(open, 1, Len(open) - 1)
      BY <1>7 DEF HandleEnd, Return
    <2>2. open # << >>
      BY <2>1, EmptySeq DEF TypeOK, FramesSummarise
    <2>3. q[n + 1].kind = "end"
      BY <1>2, <2>1
    <2>4. \E next : Follows(q, n + 1, SubSeq(open, 1, Len(open) - 1), next)
      BY <1>2, <1>3, <2>2, <2>3, EndFollows
    <2> QED
      BY <2>1, <2>4
  <1>8. CASE TextLine(line)
    <2>1. q[n + 1].kind \in {"text", "empty"} /\ conds' = open
      BY <1>2, <1>8 DEF TextLine
    <2>2. Follows(q, n + 1, open, opener)
      BY <1>2, <1>3, <2>1, PlainFollows
    <2> QED
      BY <2>1, <2>2
  <1> QED
    BY <1>5, <1>6, <1>7, <1>8

\* The flag is the selection of the source text.
LEMMA TextSelected ==
    ASSUME NEW r, NEW n \in Nat, r[n + 1].kind = "text",
           NEW open \in Seq(Seq(BOOLEAN)), NEW opener, Follows(r, n + 1, open, opener)
    PROVE  KeptIn(r, n + 1) <=> Text!Selected(open)
  <1>1. (n + 1) - 1 = n
    OBVIOUS
  <1>2. ASSUME NEW d \in 1 .. Len(open)
        PROVE  /\ opener[d] \in 1 .. n
               /\ OpenIn(r, opener[d], n + 1)
               /\ Text!FirstTrue(open[d]) <=> SelectedIn(r, opener[d], n + 1)
    <2>1. opener[d] \in 1 .. n + 1
          /\ Level(r, n + 1, opener[d], open[d], Len(open) - d + 1)
      BY DEF Follows
    <2>2. OpenIn(r, opener[d], n + 1)
          /\ (Text!FirstTrue(open[d]) <=> SelectedIn(r, opener[d], n + 1))
      BY <2>1 DEF Level
    <2>3. opener[d] # n + 1
      BY <2>2 DEF OpenIn
    <2> QED
      BY <2>1, <2>2, <2>3
  <1>3. ASSUME NEW i \in 1 .. n, OpenIn(r, i, n + 1)
        PROVE  \E d \in 1 .. Len(open) : opener[d] = i
    BY <1>3 DEF Follows
  <1> QED
    BY <1>1, <1>2, <1>3 DEF KeptIn, Text!Selected

\* What has been handled without an error.
LEMMA HandledFacts ==
    /\ pc # "returned" => Handled = Len(read)
    /\ pc = "returned" /\ ~ output.success /\ output.message # "unterminated #@if block"
         => Handled = Len(read) - 1
    /\ pc = "returned" /\ (output.success \/ output.message = "unterminated #@if block")
         => Handled = Len(read)
  BY DEF Handled

LEMMA KeptAfter ==
    ASSUME TypeOK, Following, KeepsSelectedText, NEW line \in Lines, Take(line),
           NEW n, n = Len(read), NEW q, q = read'
    PROVE  /\ KeptLines = {m \in 1 .. n : KeptIn(q, m)} /\ n \in Nat
           /\ 1 .. n + 1 = (1 .. n) \cup {n + 1} /\ n + 1 \notin 1 .. n
           /\ Handled' = n =>
                (KeepsSelectedText' <=> KeptLines' = {m \in 1 .. n : KeptIn(q, m)})
           /\ Handled' = n + 1 =>
                (KeepsSelectedText' <=> KeptLines' = {m \in 1 .. n + 1 : KeptIn(q, m)})
  <1>1. n \in Nat /\ (\A k \in 1 .. n : q[k] = read[k]) /\ Handled = n
    BY Taken, HandledFacts
  <1>2. \A m \in 1 .. n : KeptIn(q, m) <=> KeptIn(read, m)
    BY <1>1, KeptAgrees
  <1>3. KeptLines = {m \in 1 .. n : KeptIn(read, m)}
    BY <1>1, OfTheLinesRead DEF KeepsSelectedText
  <1>4. KeptLines = {m \in 1 .. n : KeptIn(q, m)}
    BY <1>2, <1>3
  <1>5. \A m : KeptByText(m)' <=> KeptIn(q, m)
    <2>1. (/\ \A i, m : OpenAt(i, m) <=> OpenIn(read, i, m)
           /\ \A m : KeptByText(m) <=> KeptIn(read, m))'
      BY OfTheLinesRead, PTL
    <2> QED
      BY <2>1
  <1>6. 1 .. n + 1 = (1 .. n) \cup {n + 1} /\ n + 1 \notin 1 .. n
    BY <1>1
  <1>7. Handled' = n => (KeepsSelectedText' <=> KeptLines' = {m \in 1 .. n : KeptIn(q, m)})
    BY <1>5 DEF KeepsSelectedText
  <1>8. Handled' = n + 1 =>
          (KeepsSelectedText' <=> KeptLines' = {m \in 1 .. n + 1 : KeptIn(q, m)})
    BY <1>5 DEF KeepsSelectedText
  <1> QED
    BY <1>1, <1>4, <1>6, <1>7, <1>8

\* The pass gives up at a line.
Stopped(line) ==
    /\ Take(line)
    /\ pc' = "returned" /\ ~ output'.success /\ output'.message # "unterminated #@if block"
    /\ UNCHANGED <<frames, conds, buffer>>

LEMMA DirectiveSteps ==
    ASSUME NEW line \in Lines, HandleIf(line) \/ HandleOr(line) \/ HandleEnd(line)
    PROVE  \/ Stopped(line)
           \/ /\ Take(line) /\ AppendBlank(line) /\ Advance(line) /\ pc' # "returned"
              /\ line.kind # "text"
  <1>1. ASSUME NEW message \in Messages \ {"unterminated #@if block"}, Take(line), Return(message)
        PROVE  Stopped(line)
    BY <1>1 DEF Return, Failure, Stopped
  <1>2. ASSUME Advance(line) PROVE pc' # "returned"
    BY <1>2 DEF Advance
  <1>3. /\ "invalid #@if expression" \in Messages \ {"unterminated #@if block"}
        /\ "#@or without matching #@if" \in Messages \ {"unterminated #@if block"}
        /\ "invalid #@or expression" \in Messages \ {"unterminated #@if block"}
        /\ "#@end without matching #@if" \in Messages \ {"unterminated #@if block"}
    BY DEF Messages
  <1>4. CASE HandleIf(line)
    BY <1>1, <1>2, <1>3, <1>4 DEF HandleIf
  <1>5. CASE HandleOr(line)
    BY <1>1, <1>2, <1>3, <1>5 DEF HandleOr
  <1>6. CASE HandleEnd(line)
    BY <1>1, <1>2, <1>3, <1>6 DEF HandleEnd
  <1> QED
    BY <1>4, <1>5, <1>6

LEMMA OutOfMemoryStops ==
    ASSUME NEW line \in Lines, OutOfMemory(line)
    PROVE  Stopped(line) /\ output'.message \in {"out of memory", "none"}
  <1>1. output' = Failure("out of memory") \/ output' = NoOutput
    BY DEF OutOfMemory
  <1>2. ~ output'.success /\ output'.message \in {"out of memory", "none"}
    <2>1. CASE output' = NoOutput
      BY <2>1 DEF NoOutput
    <2>2. CASE output' = Failure("out of memory")
      BY <2>2 DEF Failure
    <2> QED
      BY <1>1, <2>1, <2>2
  <1> QED
    BY <1>2 DEF OutOfMemory, Stopped

LEMMA StepKeepsText ==
    ASSUME TypeOK, FramesSummarise, LineCount, TextsRead, Following, KeepsSelectedText,
           [Next]_vars
    PROVE  KeepsSelectedText'
  <1>1. ASSUME NEW line \in Lines, Stopped(line) PROVE KeepsSelectedText'
    <2> SUFFICES ASSUME NEW n, n = Len(read), NEW q, q = read' PROVE KeepsSelectedText'
      OBVIOUS
    <2>1. Take(line) /\ buffer' = buffer
      BY <1>1 DEF Stopped
    <2>2. KeptLines' = KeptLines /\ Len(read') = n + 1
      BY <2>1, KeptUnchanged
    <2>3. n \in Nat
      BY <2>1, Taken
    <2>4. Handled' = n
      <3>1. Handled' = Len(read') - 1
        BY <1>1, Zenon DEF Stopped, Handled
      <3> QED
        BY <2>2, <2>3, <3>1
    <2> QED
      BY <2>1, <2>2, <2>4, KeptAfter
  <1>2. ASSUME NEW line \in Lines, HandleIf(line) \/ HandleOr(line) \/ HandleEnd(line)
        PROVE  KeepsSelectedText'
    <2>1. CASE Stopped(line)
      BY <1>1, <2>1
    <2>2. CASE ~ Stopped(line)
      <3> SUFFICES ASSUME NEW n, n = Len(read), NEW q, q = read' PROVE KeepsSelectedText'
        OBVIOUS
      <3>1. Take(line) /\ AppendBlank(line) /\ pc' # "returned" /\ line.kind # "text"
        BY <1>2, <2>2, DirectiveSteps
      <3>2. KeptLines' = KeptLines /\ Len(read') = n + 1
        BY <3>1, BlankKeeps
      <3>3. Handled' = n + 1
        BY <3>1, <3>2 DEF Handled
      <3>4. ~ KeptIn(q, n + 1)
        BY <3>1, Taken DEF KeptIn
      <3>5. /\ KeptLines = {m \in 1 .. n : KeptIn(q, m)}
            /\ 1 .. n + 1 = (1 .. n) \cup {n + 1}
            /\ KeepsSelectedText' <=> KeptLines' = {m \in 1 .. n + 1 : KeptIn(q, m)}
        BY <3>1, <3>3, KeptAfter
      <3> QED
        BY <3>2, <3>4, <3>5
    <2> QED
      BY <2>1, <2>2
  <1>3. ASSUME NEW line \in Lines, TextLine(line) PROVE KeepsSelectedText'
    <2> SUFFICES ASSUME NEW n, n = Len(read), NEW q, q = read' PROVE KeepsSelectedText'
      OBVIOUS
    <2>1. Take(line) /\ pc' # "returned" /\ conds' = conds
      BY <1>3 DEF TextLine, Advance
    <2>2. /\ KeptLines' = IF global_active /\ line.kind = "text"
                          THEN KeptLines \cup {n + 1} ELSE KeptLines
          /\ Len(read') = n + 1
      BY <1>3, TextLineKeeps
    <2>3. Handled' = n + 1
      BY <2>1, <2>2 DEF Handled
    <2>4. q[n + 1] = line /\ n \in Nat
      BY <2>1, Taken
    <2>5. PICK opener : Follows(q, n + 1, conds, opener)
      BY <1>3, <2>1, StepFollows
    <2>6. KeptIn(q, n + 1) <=> global_active /\ line.kind = "text"
      <3>1. CASE line.kind = "text"
        <4>1. conds \in Seq(Seq(BOOLEAN)) /\ q[n + 1].kind = "text"
          BY <2>4, <3>1 DEF TypeOK
        <4>2. KeptIn(q, n + 1) <=> Text!Selected(conds)
          BY <2>4, <2>5, <4>1, TextSelected
        <4> QED
          BY <3>1, <4>2 DEF FramesSummarise
      <3>2. CASE line.kind # "text"
        BY <2>4, <3>2 DEF KeptIn
      <3> QED
        BY <3>1, <3>2
    <2>7. /\ KeptLines = {m \in 1 .. n : KeptIn(q, m)}
          /\ 1 .. n + 1 = (1 .. n) \cup {n + 1}
          /\ KeepsSelectedText' <=> KeptLines' = {m \in 1 .. n + 1 : KeptIn(q, m)}
      BY <2>1, <2>3, KeptAfter
    <2> QED
      BY <2>2, <2>6, <2>7
  <1>4. ASSUME Finish \/ UNCHANGED vars PROVE KeepsSelectedText'
    <2>1. KeptLines' = KeptLines /\ read' = read
      BY <1>4 DEF Finish, vars, KeptLines
    <2>2. Handled' = Handled
      <3>1. CASE UNCHANGED vars
        BY <3>1 DEF vars, Handled
      <3>2. CASE Finish
        <4>1. Handled = Len(read)
          BY <3>2 DEF Finish, Handled
        <4>2. output'.success \/ output'.message = "unterminated #@if block"
          BY <3>2 DEF Finish, Failure
        <4>3. Handled' = Len(read')
          BY <4>2, Zenon DEF Handled
        <4> QED
          BY <2>1, <4>1, <4>3
      <3> QED
        BY <1>4, <3>1, <3>2
    <2>3. \A m : KeptByText(m)' <=> KeptByText(m)
      <3>1. (/\ \A i, m : OpenAt(i, m) <=> OpenIn(read, i, m)
             /\ \A m : KeptByText(m) <=> KeptIn(read, m))'
        BY OfTheLinesRead, PTL
      <3> QED
        BY <2>1, <3>1, OfTheLinesRead
    <2> QED
      BY <2>1, <2>2, <2>3 DEF KeepsSelectedText
  <1> QED
    BY <1>1, <1>2, <1>3, <1>4, OutOfMemoryStops DEF Next

LEMMA StepFollowing ==
    ASSUME TypeOK, FramesSummarise, Following, [Next]_vars
    PROVE  Following'
  <1>1. ASSUME NEW line \in Lines,
               HandleIf(line) \/ HandleOr(line) \/ HandleEnd(line) \/ TextLine(line)
        PROVE  Following'
    <2>1. Take(line)
      BY <1>1 DEF HandleIf, HandleOr, HandleEnd, TextLine
    <2>2. Len(read') = Len(read) + 1
      BY <2>1, Taken
    <2> QED
      BY <1>1, <2>2, StepFollows DEF Following
  <1>2. ASSUME NEW line \in Lines, OutOfMemory(line) PROVE Following'
    BY <1>2 DEF OutOfMemory, Following
  <1>3. CASE Finish
    BY <1>3 DEF Finish, Following
  <1>4. CASE UNCHANGED vars
    BY <1>4 DEF vars, Following
  <1> QED
    BY <1>1, <1>2, <1>3, <1>4 DEF Next

LEMMA FollowingInvariant == Spec => [](Following /\ TextsRead)
<1>1. Init => Following /\ TextsRead
  <2> SUFFICES ASSUME Init PROVE Following /\ TextsRead
    OBVIOUS
  <2>1. buffer = << >> /\ read = << >> /\ conds = << >>
    BY DEF Init
  <2>2. ToSet(buffer) = {}
    BY <2>1 DEF ToSet
  <2> DEFINE none == [d \in 1 .. 0 |-> 0]
  <2>3. none \in [1 .. 0 -> 1 .. 0] /\ \A i \in 1 .. 0 : FALSE
    OBVIOUS
  <2>4. Len(conds) = 0 /\ Len(read) = 0
    BY <2>1
  <2> HIDE DEF none
  <2>5. Follows(read, Len(read), conds, none)
    BY <2>3, <2>4 DEF Follows
  <2> QED
    BY <2>2, <2>5 DEF Following, TextsRead
<1>2. TypeOK /\ FramesSummarise /\ LineCount /\ Following /\ TextsRead /\ [Next]_vars
        => (Following /\ TextsRead)'
  BY StepFollowing, StepImplements
<1> QED
  BY <1>1, <1>2, TypeCorrect, FramesSummariseCorrect, LineCountInvariant, PTL DEF Spec

\* The text in the output is that of the lines the source's own nesting selects.
THEOREM KeepsSelectedTextCorrect == Spec => []KeepsSelectedText
<1>1. Init => KeepsSelectedText
  <2> SUFFICES ASSUME Init PROVE KeepsSelectedText
    OBVIOUS
  <2>1. Len(read) = 0 /\ pc = "lines"
    BY DEF Init
  <2>2. Handled = 0 /\ 1 .. 0 = {}
    BY <2>1 DEF Handled
  <2> QED
    BY <2>1, <2>2 DEF KeepsSelectedText, KeptLines
<1>2. TypeOK /\ FramesSummarise /\ LineCount /\ Following /\ TextsRead /\ KeepsSelectedText
        /\ [Next]_vars => KeepsSelectedText'
  BY StepKeepsText
<1> QED
  BY <1>1, <1>2, TypeCorrect, FramesSummariseCorrect, LineCountInvariant, FollowingInvariant, PTL
     DEF Spec
------------------------------------------------------------------------------
(* Well-formed sources                                                       *)

\* While the source is read, its directives nest and its conditions are expressions.
NestedIn(r) ==
    \A m \in 1 .. Len(r) :
        /\ r[m].cond # "invalid"
        /\ r[m].kind \in {"or", "end"} => \E i \in 1 .. m - 1 : OpenIn(r, i, m - 1)
Nested == pc # "returned" => NestedIn(read)
WellIn(r) == NestedIn(r) /\ \A i \in 1 .. Len(r) : ~ OpenIn(r, i, Len(r))

LEMMA WellFormedIn == WellFormed <=> WellIn(read)
  BY OfTheLinesRead DEF WellFormed, WellIn, NestedIn

\* There is an open frame exactly where a conditional of the source is open.
LEMMA OpenFrames ==
    ASSUME TypeOK, FramesSummarise, Following, pc # "returned"
    PROVE  frames # << >> <=> \E i \in 1 .. Len(read) : OpenIn(read, i, Len(read))
  <1>1. PICK opener : Follows(read, Len(read), conds, opener)
    BY DEF Following
  <1>2. Len(frames) = Len(conds) /\ Len(frames) \in Nat /\ (frames # << >> <=> Len(frames) # 0)
    BY EmptySeq DEF FramesSummarise, TypeOK
  <1>3. \A d \in 1 .. Len(conds) : /\ opener[d] \in 1 .. Len(read)
                                   /\ OpenIn(read, opener[d], Len(read))
    BY <1>1 DEF Follows, Level
  <1>4. \A i \in 1 .. Len(read) :
          OpenIn(read, i, Len(read)) => \E d \in 1 .. Len(conds) : opener[d] = i
    BY <1>1 DEF Follows
  <1>5. ASSUME Len(conds) # 0 PROVE \E i \in 1 .. Len(read) : OpenIn(read, i, Len(read))
    <2>1. 1 \in 1 .. Len(conds)
      BY <1>2, <1>5
    <2> QED
      BY <1>3, <2>1
  <1>6. ASSUME Len(conds) = 0 PROVE ~ \E i \in 1 .. Len(read) : OpenIn(read, i, Len(read))
    <2>1. 1 .. Len(conds) = {}
      BY <1>6
    <2> QED
      BY <1>4, <2>1
  <1> QED
    BY <1>2, <1>5, <1>6

\* A line more keeps the nesting exactly when it is well placed itself.
LEMMA NestedStep ==
    ASSUME TypeOK, Nested, FramesSummarise, Following, NEW line \in Lines, Take(line)
    PROVE  NestedIn(read') <=> /\ line.cond # "invalid"
                               /\ line.kind \in {"or", "end"} => frames # << >>
  <1> SUFFICES ASSUME NEW n, n = Len(read), NEW q, q = read'
               PROVE  NestedIn(q) <=> /\ line.cond # "invalid"
                                      /\ line.kind \in {"or", "end"} => frames # << >>
    OBVIOUS
  <1>1. /\ n \in Nat /\ Len(q) = n + 1 /\ q[n + 1] = line /\ pc # "returned"
        /\ \A k \in 1 .. n : q[k] = read[k]
    BY Taken
  <1>2. ASSUME NEW m \in 1 .. n, NEW i \in 1 .. m
        PROVE  OpenIn(q, i, m) <=> OpenIn(read, i, m)
    <2>1. i \in 1 .. n /\ m \in i .. n
      BY <1>1
    <2> QED
      BY <1>1, <2>1, OpenAgrees
  <1>3. 1 .. n + 1 = (1 .. n) \cup {n + 1} /\ (n + 1) - 1 = n
    BY <1>1
  <1>4. (\E i \in 1 .. n : OpenIn(q, i, n)) <=> frames # << >>
    <2>1. frames # << >> <=> \E i \in 1 .. n : OpenIn(read, i, n)
      BY <1>1, OpenFrames
    <2>2. \A i \in 1 .. n : n \in 1 .. n /\ (OpenIn(q, i, n) <=> OpenIn(read, i, n))
      BY <1>1, <1>2
    <2> QED
      BY <2>1, <2>2
  <1>5. ASSUME NEW m \in 1 .. n
        PROVE  /\ q[m].cond # "invalid"
               /\ q[m].kind \in {"or", "end"} => \E i \in 1 .. m - 1 : OpenIn(q, i, m - 1)
    <2>1. /\ read[m].cond # "invalid"
          /\ read[m].kind \in {"or", "end"} => \E i \in 1 .. m - 1 : OpenIn(read, i, m - 1)
      BY <1>1 DEF Nested, NestedIn
    <2>2. \A i \in 1 .. m - 1 : m - 1 \in 1 .. n /\ i \in 1 .. m - 1
      BY <1>1
    <2>3. \A i \in 1 .. m - 1 : OpenIn(q, i, m - 1) <=> OpenIn(read, i, m - 1)
      BY <1>2, <2>2
    <2> QED
      BY <1>1, <2>1, <2>3
  <1>6. NestedIn(q) <=>
          \A m \in (1 .. n) \cup {n + 1} :
             /\ q[m].cond # "invalid"
             /\ q[m].kind \in {"or", "end"} => \E i \in 1 .. m - 1 : OpenIn(q, i, m - 1)
    BY <1>1, <1>3 DEF NestedIn
  <1>7. NestedIn(q) <=>
          /\ q[n + 1].cond # "invalid"
          /\ q[n + 1].kind \in {"or", "end"} =>
               \E i \in 1 .. (n + 1) - 1 : OpenIn(q, i, (n + 1) - 1)
    BY <1>5, <1>6
  <1> QED
    BY <1>1, <1>3, <1>4, <1>7

LEMMA StepSucceeds ==
    ASSUME TypeOK, FramesSummarise, Following, Nested, SucceedsOnWellFormed, [Next]_vars
    PROVE  Nested' /\ SucceedsOnWellFormed'
  <1>1. WellFormed' <=> WellIn(read')
    <2>1. (WellFormed <=> WellIn(read))'
      BY WellFormedIn, PTL
    <2> QED
      BY <2>1
  <1>2. ASSUME NEW line \in Lines, Take(line), Advance(line),
               /\ line.cond # "invalid"
               /\ line.kind \in {"or", "end"} => frames # << >>
        PROVE  Nested' /\ SucceedsOnWellFormed'
    <2>1. NestedIn(read')
      BY <1>2, NestedStep
    <2>2. pc' # "returned"
      BY <1>2 DEF Advance
    <2> QED
      BY <2>1, <2>2 DEF Nested, SucceedsOnWellFormed
  <1>3. ASSUME NEW line \in Lines, NEW message, Take(line), Return(message),
               ~ /\ line.cond # "invalid"
                 /\ line.kind \in {"or", "end"} => frames # << >>
        PROVE  Nested' /\ SucceedsOnWellFormed'
    <2>1. ~ WellFormed'
      BY <1>1, <1>3, NestedStep DEF WellIn
    <2>2. pc' = "returned" /\ ~ output'.success
      BY <1>3 DEF Return, Failure
    <2> QED
      BY <2>1, <2>2 DEF Nested, SucceedsOnWellFormed
  <1>4. ASSUME NEW line \in Lines, HandleIf(line) PROVE Nested' /\ SucceedsOnWellFormed'
    BY <1>2, <1>3, <1>4 DEF HandleIf
  <1>5. ASSUME NEW line \in Lines, HandleOr(line) PROVE Nested' /\ SucceedsOnWellFormed'
    BY <1>2, <1>3, <1>5 DEF HandleOr
  <1>6. ASSUME NEW line \in Lines, HandleEnd(line) PROVE Nested' /\ SucceedsOnWellFormed'
    <2>1. line.cond # "invalid"
      BY <1>6 DEF HandleEnd, Lines
    <2> QED
      BY <1>2, <1>3, <1>6, <2>1 DEF HandleEnd
  <1>7. ASSUME NEW line \in Lines, TextLine(line) PROVE Nested' /\ SucceedsOnWellFormed'
    <2>1. line.cond # "invalid" /\ line.kind \notin {"or", "end"}
      BY <1>7 DEF TextLine, Lines
    <2> QED
      BY <1>2, <1>7, <2>1 DEF TextLine
  <1>8. ASSUME NEW line \in Lines, OutOfMemory(line) PROVE Nested' /\ SucceedsOnWellFormed'
    <2>1. pc' = "returned" /\ ~ output'.success /\ output'.message \in {"out of memory", "none"}
      BY <1>8, OutOfMemoryStops DEF Stopped
    <2> QED
      BY <2>1 DEF Nested, SucceedsOnWellFormed
  <1>9. ASSUME Finish PROVE Nested' /\ SucceedsOnWellFormed'
    <2>1. pc # "returned" /\ pc' = "returned" /\ read' = read
      BY <1>9 DEF Finish
    <2>2. NestedIn(read)
      BY <2>1 DEF Nested
    <2>3. WellFormed' <=> frames = << >>
      BY <1>1, <2>1, <2>2, OpenFrames DEF WellIn
    <2>4. CASE frames = << >>
      <3>1. output'.success
        BY <1>9, <2>4 DEF Finish
      <3> QED
        BY <2>1, <2>3, <2>4, <3>1 DEF Nested, SucceedsOnWellFormed
    <2>5. CASE frames # << >>
      <3>1. ~ output'.success
        BY <1>9, <2>5 DEF Finish, Failure
      <3> QED
        BY <2>1, <2>3, <2>5, <3>1 DEF Nested, SucceedsOnWellFormed
    <2> QED
      BY <2>4, <2>5
  <1>10. ASSUME UNCHANGED vars PROVE Nested' /\ SucceedsOnWellFormed'
    <2>1. read' = read /\ pc' = pc /\ output' = output
      BY <1>10 DEF vars
    <2>2. WellFormed' <=> WellFormed
      BY <1>1, <2>1, WellFormedIn
    <2> QED
      BY <2>1, <2>2 DEF Nested, SucceedsOnWellFormed
  <1> QED
    BY <1>4, <1>5, <1>6, <1>7, <1>8, <1>9, <1>10 DEF Next

\* The pass accepts the well-formed sources and no others, unless memory runs out.
THEOREM SucceedsOnWellFormedCorrect == Spec => []SucceedsOnWellFormed
<1>1. Init => Nested /\ SucceedsOnWellFormed
  <2> SUFFICES ASSUME Init PROVE Nested /\ SucceedsOnWellFormed
    OBVIOUS
  <2>1. pc = "lines" /\ Len(read) = 0
    BY DEF Init
  <2>2. NestedIn(read)
    BY <2>1 DEF NestedIn
  <2> QED
    BY <2>1, <2>2 DEF Nested, SucceedsOnWellFormed
<1>2. TypeOK /\ FramesSummarise /\ Following /\ Nested /\ SucceedsOnWellFormed /\ [Next]_vars
        => (Nested /\ SucceedsOnWellFormed)'
  BY StepSucceeds
<1> QED
  BY <1>1, <1>2, TypeCorrect, FramesSummariseCorrect, FollowingInvariant, PTL DEF Spec
------------------------------------------------------------------------------
(* Line numbers in the output                                                *)

\* How many of the first k - 1 elements of the output are line ends, and how
\* many of the first n lines have one.
Ends(b, k) == Cardinality({j \in 1 .. k - 1 : b[j] = NewLine})
Terminated(r, n) == Cardinality({m \in 1 .. n : r[m].newline})

\* Something more is written.
LEMMA EndsAppend ==
    ASSUME NEW b \in Seq(Nat), NEW e \in Nat
    PROVE  /\ Ends(b, Len(b) + 1) \in Nat
           /\ \A k \in 1 .. Len(b) + 1 : Ends(Append(b, e), k) = Ends(b, k)
           /\ Ends(Append(b, e), Len(b) + 2)
                = Ends(b, Len(b) + 1) + IF e = NewLine THEN 1 ELSE 0
  <1> DEFINE n == Len(b)
             more == Append(b, e)
             S == {j \in 1 .. n : b[j] = NewLine}
  <1>1. n \in Nat /\ Len(more) = n + 1 /\ more[n + 1] = e /\ \A j \in 1 .. n : more[j] = b[j]
    BY AppendProperties
  <1> HIDE DEF n, more
  <1>2. IsFiniteSet(S) /\ Cardinality(S) \in Nat
    <2>1. IsFiniteSet(1 .. n)
      BY <1>1, FS_Interval
    <2>2. S \subseteq 1 .. n
      OBVIOUS
    <2>3. IsFiniteSet(S)
      BY <2>1, <2>2, FS_Subset
    <2> QED
      BY <2>3, FS_CardinalityType
  <1>3. Ends(b, n + 1) = Cardinality(S)
    <2>1. (n + 1) - 1 = n
      BY <1>1
    <2> QED
      BY <2>1 DEF Ends
  <1>4. ASSUME NEW k \in 1 .. n + 1 PROVE Ends(more, k) = Ends(b, k)
    <2>1. {j \in 1 .. k - 1 : more[j] = NewLine} = {j \in 1 .. k - 1 : b[j] = NewLine}
      BY <1>1
    <2> QED
      BY <2>1 DEF Ends
  <1>5. Ends(more, n + 2) = Cardinality({j \in 1 .. n + 1 : more[j] = NewLine})
    <2>1. (n + 2) - 1 = n + 1
      BY <1>1
    <2> QED
      BY <2>1 DEF Ends
  <1>6. ASSUME e = NewLine PROVE Ends(more, n + 2) = Ends(b, n + 1) + 1
    <2>1. {j \in 1 .. n + 1 : more[j] = NewLine} = S \cup {n + 1} /\ n + 1 \notin S
      BY <1>1, <1>6
    <2>2. Cardinality(S \cup {n + 1}) = Cardinality(S) + 1
      <3> HIDE DEF S
      <3> QED
        BY <1>2, <2>1, FS_AddElement
    <2> QED
      BY <1>3, <1>5, <2>1, <2>2
  <1>7. ASSUME e # NewLine PROVE Ends(more, n + 2) = Ends(b, n + 1)
    <2>1. {j \in 1 .. n + 1 : more[j] = NewLine} = S
      BY <1>1, <1>7
    <2> QED
      BY <1>3, <1>5, <2>1
  <1>8. Ends(more, n + 2) = Ends(b, n + 1) + IF e = NewLine THEN 1 ELSE 0
    BY <1>2, <1>3, <1>6, <1>7
  <1> QED
    BY <1>2, <1>3, <1>4, <1>8 DEF n, more

LEMMA TerminatedStep ==
    ASSUME NEW r, NEW n \in Nat
    PROVE  /\ Terminated(r, n) \in Nat
           /\ Terminated(r, n + 1) = Terminated(r, n) + IF r[n + 1].newline THEN 1 ELSE 0
           /\ (\A m \in 1 .. n : r[m].newline) => Terminated(r, n) = n
  <1> DEFINE S == {m \in 1 .. n : r[m].newline}
  <1>1. IsFiniteSet(1 .. n) /\ Cardinality(1 .. n) = n
    BY FS_Interval
  <1>2. IsFiniteSet(S) /\ Cardinality(S) \in Nat
    <2>1. S \subseteq 1 .. n
      OBVIOUS
    <2>2. IsFiniteSet(S)
      BY <1>1, <2>1, FS_Subset
    <2> QED
      BY <2>2, FS_CardinalityType
  <1>3. ASSUME r[n + 1].newline PROVE Terminated(r, n + 1) = Terminated(r, n) + 1
    <2>1. {m \in 1 .. n + 1 : r[m].newline} = S \cup {n + 1} /\ n + 1 \notin S
      BY <1>3
    <2>2. Cardinality(S \cup {n + 1}) = Cardinality(S) + 1
      <3> HIDE DEF S
      <3> QED
        BY <1>2, <2>1, FS_AddElement
    <2> QED
      BY <2>1, <2>2 DEF Terminated
  <1>4. ASSUME ~ r[n + 1].newline PROVE Terminated(r, n + 1) = Terminated(r, n)
    <2>1. {m \in 1 .. n + 1 : r[m].newline} = S
      BY <1>4
    <2> QED
      BY <2>1 DEF Terminated
  <1>5. ASSUME \A m \in 1 .. n : r[m].newline PROVE Terminated(r, n) = n
    <2>1. S = 1 .. n
      BY <1>5
    <2> QED
      BY <1>1, <2>1 DEF Terminated
  <1>6. Terminated(r, n) \in Nat
    BY <1>2 DEF Terminated
  <1> QED
    BY <1>3, <1>4, <1>5, <1>6

LEMMA TerminatedAgrees ==
    ASSUME NEW r, NEW q, NEW n \in Nat, \A k \in 1 .. n : q[k] = r[k]
    PROVE  Terminated(q, n) = Terminated(r, n)
  <1>1. {m \in 1 .. n : q[m].newline} = {m \in 1 .. n : r[m].newline}
    OBVIOUS
  <1> QED
    BY <1>1 DEF Terminated

\* Every text in the output stands on the line that is its number.
Placed(b) == \A k \in 1 .. Len(b) : b[k] # NewLine => Ends(b, k) + 1 = b[k]

LEMMA LineNumbersIn ==
    PreservesLineNumbers <=>
        Placed(buffer) /\ Ends(buffer, Len(buffer) + 1) = Terminated(read, Handled)
  <1>1. \A k : NewLinesBefore(k) = Ends(buffer, k)
    BY DEF NewLinesBefore, Ends
  <1> QED
    BY <1>1 DEF PreservesLineNumbers, Placed, Terminated

LEMMA PlacedAppend ==
    ASSUME NEW b \in Seq(Nat), NEW e \in Nat, Placed(b),
           e # NewLine => Ends(b, Len(b) + 1) + 1 = e
    PROVE  Placed(Append(b, e))
  <1> DEFINE n == Len(b)
             more == Append(b, e)
  <1>1. n \in Nat /\ Len(more) = n + 1 /\ more[n + 1] = e /\ \A j \in 1 .. n : more[j] = b[j]
    BY AppendProperties
  <1>2. \A k \in 1 .. n + 1 : Ends(more, k) = Ends(b, k)
    BY EndsAppend
  <1>3. 1 .. n + 1 = (1 .. n) \cup {n + 1}
    BY <1>1
  <1>4. \A k \in 1 .. n : b[k] # NewLine => Ends(b, k) + 1 = b[k]
    BY DEF Placed
  <1>5. e # NewLine => Ends(b, n + 1) + 1 = e
    OBVIOUS
  <1> HIDE DEF n, more
  <1>6. \A k \in 1 .. n + 1 : more[k] # NewLine => Ends(more, k) + 1 = more[k]
    BY <1>1, <1>2, <1>3, <1>4, <1>5
  <1> QED
    BY <1>1, <1>6 DEF Placed, more

\* Every line but the last ends in a newline.
AllTerminated == pc = "lines" => \A m \in 1 .. Len(read) : read[m].newline

\* A line is handled: its text, or nothing, and its newline are written.
LEMMA LineWritten ==
    ASSUME TypeOK, LineCount, AllTerminated, PreservesLineNumbers,
           NEW line \in Lines, Take(line), Advance(line),
           NEW text \in {buffer, Append(buffer, line_no)},
           buffer' = IF line.newline THEN Append(text, NewLine) ELSE text
    PROVE  AllTerminated' /\ PreservesLineNumbers'
  <1> SUFFICES ASSUME NEW n, n = Len(read), NEW q, q = read', NEW b, b = buffer,
                      NEW l, l = line_no
               PROVE  AllTerminated' /\ PreservesLineNumbers'
    OBVIOUS
  <1>1. /\ n \in Nat /\ Len(q) = n + 1 /\ q[n + 1] = line /\ pc = "lines" /\ l = n + 1
        /\ \A k \in 1 .. n : q[k] = read[k]
    BY Taken DEF LineCount
  <1>2. b \in Seq(Nat) /\ l \in Nat /\ l # NewLine /\ NewLine \in Nat
    BY <1>1 DEF TypeOK, NewLine
  <1>3. Placed(b) /\ Ends(b, Len(b) + 1) = n
    <2>1. Handled = n
      BY <1>1, HandledFacts
    <2>2. Terminated(read, n) = n
      BY <1>1, TerminatedStep DEF AllTerminated
    <2> QED
      BY <2>1, <2>2, LineNumbersIn
  <1>4. text \in Seq(Nat) /\ Placed(text) /\ Ends(text, Len(text) + 1) = n
    <2>1. CASE text = b
      BY <1>2, <1>3, <2>1
    <2>2. CASE text = Append(b, l)
      <3>1. Placed(Append(b, l))
        BY <1>1, <1>2, <1>3, PlacedAppend
      <3>2. Ends(Append(b, l), Len(b) + 2) = n
        BY <1>1, <1>2, <1>3, EndsAppend
      <3>3. Append(b, l) \in Seq(Nat) /\ Len(Append(b, l)) = Len(b) + 1 /\ Len(b) \in Nat
            /\ Len(b) + 2 = (Len(b) + 1) + 1
        BY <1>2, AppendProperties
      <3> QED
        BY <2>2, <3>1, <3>2, <3>3
    <2> QED
      BY <2>1, <2>2
  <1>5. Placed(buffer') /\ Ends(buffer', Len(buffer') + 1) = n + IF line.newline THEN 1 ELSE 0
    <2>1. CASE line.newline
      <3>1. buffer' = Append(text, NewLine)
        BY <2>1
      <3>2. Placed(Append(text, NewLine))
        BY <1>2, <1>4, PlacedAppend
      <3>3. Ends(Append(text, NewLine), Len(text) + 2) = n + 1
        BY <1>2, <1>4, EndsAppend
      <3>4. Len(Append(text, NewLine)) = Len(text) + 1 /\ Len(text) \in Nat
            /\ Len(text) + 2 = (Len(text) + 1) + 1
        BY <1>2, <1>4, AppendProperties
      <3> QED
        BY <2>1, <3>1, <3>2, <3>3, <3>4
    <2>2. CASE ~ line.newline
      BY <1>1, <1>4, <2>2
    <2> QED
      BY <2>1, <2>2
  <1>6. Terminated(q, n + 1) = n + IF line.newline THEN 1 ELSE 0
    <2>1. Terminated(q, n) = n
      BY <1>1, TerminatedStep DEF AllTerminated
    <2> QED
      BY <1>1, <2>1, TerminatedStep
  <1>7. pc' # "returned" /\ (pc' = "lines" => line.newline)
    BY LineFacts DEF Advance
  <1>8. Handled' = n + 1
    BY <1>1, <1>7 DEF Handled
  <1>9. PreservesLineNumbers'
    <2>1. (PreservesLineNumbers <=>
             Placed(buffer) /\ Ends(buffer, Len(buffer) + 1) = Terminated(read, Handled))'
      BY LineNumbersIn, PTL
    <2>2. Terminated(read', Handled') = Terminated(q, n + 1)
      BY <1>8
    <2> QED
      BY <1>5, <1>6, <2>1, <2>2
  <1>10. AllTerminated'
    <2>1. 1 .. n + 1 = (1 .. n) \cup {n + 1}
      BY <1>1
    <2> QED
      BY <1>1, <1>7, <2>1 DEF AllTerminated
  <1> QED
    BY <1>9, <1>10

LEMMA StepNumbers ==
    ASSUME TypeOK, LineCount, AllTerminated, PreservesLineNumbers, [Next]_vars
    PROVE  AllTerminated' /\ PreservesLineNumbers'
  <1>1. (PreservesLineNumbers <=>
           Placed(buffer) /\ Ends(buffer, Len(buffer) + 1) = Terminated(read, Handled))'
    BY LineNumbersIn, PTL
  <1>2. ASSUME NEW line \in Lines, Stopped(line) PROVE AllTerminated' /\ PreservesLineNumbers'
    <2> SUFFICES ASSUME NEW n, n = Len(read)
                 PROVE  AllTerminated' /\ PreservesLineNumbers'
      OBVIOUS
    <2>1. Take(line) /\ buffer' = buffer /\ pc' = "returned"
      BY <1>2 DEF Stopped
    <2>2. /\ n \in Nat /\ Len(read') = n + 1 /\ pc = "lines"
          /\ \A k \in 1 .. n : read'[k] = read[k]
      BY <2>1, Taken
    <2>3. Handled' = n
      <3>1. Handled' = Len(read') - 1
        BY <1>2, Zenon DEF Stopped, Handled
      <3> QED
        BY <2>2, <3>1
    <2>4. Handled = n
      BY <2>2, HandledFacts
    <2>5. Terminated(read', n) = Terminated(read, n)
      BY <2>2, TerminatedAgrees
    <2>6. Terminated(read', Handled') = Terminated(read, Handled)
      BY <2>3, <2>4, <2>5
    <2>7. PreservesLineNumbers'
      BY <1>1, <2>1, <2>6, LineNumbersIn
    <2> QED
      BY <2>1, <2>7 DEF AllTerminated
  <1>3. ASSUME NEW line \in Lines, Take(line), AppendBlank(line), Advance(line)
        PROVE  AllTerminated' /\ PreservesLineNumbers'
    <2>1. buffer' = IF line.newline THEN Append(buffer, NewLine) ELSE buffer
      BY <1>3 DEF AppendBlank
    <2> QED
      BY <1>3, <2>1, LineWritten
  <1>4. ASSUME NEW line \in Lines, TextLine(line)
        PROVE  AllTerminated' /\ PreservesLineNumbers'
    <2> DEFINE text == IF global_active /\ line.kind = "text"
                       THEN Append(buffer, line_no) ELSE buffer
    <2>1. /\ Take(line) /\ Advance(line)
          /\ buffer' = IF line.newline THEN Append(text, NewLine) ELSE text
      BY <1>4 DEF TextLine
    <2>2. text \in {buffer, Append(buffer, line_no)}
      OBVIOUS
    <2> HIDE DEF text
    <2> QED
      BY <2>1, <2>2, LineWritten
  <1>5. ASSUME Finish \/ UNCHANGED vars PROVE AllTerminated' /\ PreservesLineNumbers'
    <2>1. buffer' = buffer /\ read' = read /\ (pc' = "lines" => pc = "lines")
      BY <1>5 DEF Finish, vars
    <2>2. Handled' = Handled
      <3>1. CASE UNCHANGED vars
        BY <3>1 DEF vars, Handled
      <3>2. CASE Finish
        <4>1. Handled = Len(read)
          BY <3>2 DEF Finish, Handled
        <4>2. output'.success \/ output'.message = "unterminated #@if block"
          BY <3>2 DEF Finish, Failure
        <4>3. Handled' = Len(read')
          BY <4>2, Zenon DEF Handled
        <4> QED
          BY <2>1, <4>1, <4>3
      <3> QED
        BY <1>5, <3>1, <3>2
    <2>3. PreservesLineNumbers'
      BY <1>1, <2>1, <2>2, LineNumbersIn
    <2> QED
      BY <2>1, <2>3 DEF AllTerminated
  <1>6. ASSUME NEW line \in Lines, HandleIf(line) \/ HandleOr(line) \/ HandleEnd(line)
        PROVE  AllTerminated' /\ PreservesLineNumbers'
    BY <1>2, <1>3, <1>6, DirectiveSteps
  <1>7. ASSUME NEW line \in Lines, OutOfMemory(line)
        PROVE  AllTerminated' /\ PreservesLineNumbers'
    BY <1>2, <1>7, OutOfMemoryStops
  <1> QED
    BY <1>4, <1>5, <1>6, <1>7 DEF Next

\* Every text in the output stands on the line it has in the source.
THEOREM PreservesLineNumbersCorrect == Spec => []PreservesLineNumbers
<1>1. Init => AllTerminated /\ PreservesLineNumbers
  <2> SUFFICES ASSUME Init PROVE AllTerminated /\ PreservesLineNumbers
    OBVIOUS
  <2>1. Len(buffer) = 0 /\ Len(read) = 0 /\ pc = "lines"
    BY DEF Init
  <2>2. Handled = 0 /\ 1 .. 0 = {} /\ (0 + 1) - 1 = 0
    BY <2>1 DEF Handled
  <2>3. Placed(buffer) /\ Ends(buffer, Len(buffer) + 1) = 0 /\ Terminated(read, Handled) = 0
    BY <2>1, <2>2, FS_EmptySet DEF Placed, Ends, Terminated
  <2> QED
    BY <2>1, <2>2, <2>3, LineNumbersIn DEF AllTerminated
<1>2. TypeOK /\ LineCount /\ AllTerminated /\ PreservesLineNumbers /\ [Next]_vars
        => (AllTerminated /\ PreservesLineNumbers)'
  BY StepNumbers
<1> QED
  BY <1>1, <1>2, TypeCorrect, LineCountInvariant, PTL DEF Spec
==============================================================================
