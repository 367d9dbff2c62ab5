------------------------- MODULE ModuleManagerProofs -------------------------
(* Theorems about ModuleTable, for any names and hashes, and about the       *)
(* loader on the table.  The inductive invariant of the table says where     *)
(* every module is: in the chain its name hashes to, or, while the table is  *)
(* being resized, in an old chain at or after the one that is being moved.   *)
(* What joins the two is that the table stores what the loader has loaded.   *)
EXTENDS ModuleManager, SequenceTheorems, FiniteSetTheorems, TLAPS
LOCAL INSTANCE SequencesExt
------------------------------------------------------------------------------
(* The loader *)

\* What the program holds.
LEMMA ProgramFacts ==
    ASSUME TypeOK
    PROVE  /\ program.entry \in Seq(Paths)
           /\ program.uses \in [Modules -> Seq(Paths)]
           /\ program.broken \subseteq Modules
           /\ \A m \in Modules : Uses(m) \in Seq(Paths)
           /\ \A path \in Paths : Used(path) \in Modules
  BY ProgramsAssumption, ExpandAssumption DEF TypeOK, Uses, Used

\* The check for circular dependencies looks among the loaded modules for one
\* that is not loaded: the loaded modules themselves are closed in the table.
LEMMA NeverCircular ==
    ASSUME NEW m, m \notin loaded
    PROVE  ~ Circular(m)
  <1>1. ClosedInTable(loaded)
    BY DEF ClosedInTable
  <1>2. ASSUME NEW n \in loaded PROVE ~ HasCircularDependency(n, m)
    BY <1>1 DEF HasCircularDependency
  <1> QED
    BY <1>2 DEF Circular

LEMMA FailureIsUnloadable ==
    ASSUME NEW m, m \notin loaded
    PROVE  /\ Failure(m) # {} => m \in program.broken /\ Failure(m) = {<<m, "unloadable">>}
           /\ Failure(m) = {} => m \notin program.broken
  BY NeverCircular DEF Failure

\* The call on top and its next use statement.
LEMMA TopFacts ==
    ASSUME TypeOK, stack # << >>
    PROVE  /\ TopCall = stack[Len(stack)] /\ TopCall \in Call
           /\ Len(stack) \in Nat \ {0}
           /\ Uses(TopCall.module) \in Seq(Paths)
           /\ TopCall.next <= Len(Uses(TopCall.module)) =>
                Uses(TopCall.module)[TopCall.next] \in Paths
           /\ [stack EXCEPT ![Len(stack)].next = @ + 1] \in Seq(Call)
           /\ Len([stack EXCEPT ![Len(stack)].next = @ + 1]) = Len(stack)
           /\ \A i \in 1 .. Len(stack) :
                [stack EXCEPT ![Len(stack)].next = @ + 1][i] =
                    IF i = Len(stack) THEN [stack[i] EXCEPT !.next = @ + 1] ELSE stack[i]
  <1>1. stack \in Seq(Call) /\ Len(stack) \in Nat \ {0}
    BY EmptySeq DEF TypeOK
  <1>2. TopCall = stack[Len(stack)] /\ TopCall \in Call
    BY <1>1 DEF TopCall, Last
  <1>3. Uses(TopCall.module) \in Seq(Paths)
    BY <1>2, ProgramFacts DEF Call
  <1>4. TopCall.next <= Len(Uses(TopCall.module)) =>
           Uses(TopCall.module)[TopCall.next] \in Paths
    BY <1>2, <1>3, ElementOfSeq DEF Call
  <1>5. [stack[Len(stack)] EXCEPT !.next = @ + 1] \in Call
    BY <1>2 DEF Call
  <1>6. /\ [stack EXCEPT ![Len(stack)].next = @ + 1] \in Seq(Call)
        /\ Len([stack EXCEPT ![Len(stack)].next = @ + 1]) = Len(stack)
    BY <1>1, <1>5, ExceptSeq
  <1>7. ASSUME NEW i \in 1 .. Len(stack)
        PROVE  [stack EXCEPT ![Len(stack)].next = @ + 1][i] =
                  IF i = Len(stack) THEN [stack[i] EXCEPT !.next = @ + 1] ELSE stack[i]
    BY <1>1
  <1> QED
    BY <1>1, <1>2, <1>3, <1>4, <1>6, <1>7

\* The three ways out of the first part of enqueue_module.
Overflows ==
    pc' = "overflow" /\ UNCHANGED <<loaded, stack, success, errors>>

Enters(m, callers) ==
    /\ loaded' = loaded \cup {m}
    /\ m \in loaded \/ m \notin program.broken
    /\ stack' = Append(callers, [module |-> m, next |-> 1])
    /\ UNCHANGED <<success, errors, pc>>

Refuses(m) ==
    /\ m \in program.broken
    /\ errors' = errors \cup {<<m, "unloadable">>}
    /\ success' = FALSE
    /\ stack' = << >>
    /\ UNCHANGED <<loaded, pc>>

LEMMA EnqueueCases ==
    ASSUME NEW path, NEW callers, Enqueue(path, callers)
    PROVE  Overflows \/ Enters(Used(path), callers) \/ Refuses(Used(path))
  <1> DEFINE m == Used(path)
  <1>1. m \notin loaded =>
          /\ Failure(m) # {} => m \in program.broken /\ Failure(m) = {<<m, "unloadable">>}
          /\ Failure(m) = {} => m \notin program.broken
    BY FailureIsUnloadable
  <1>2. m \in loaded => loaded = loaded \cup {m}
    OBVIOUS
  <1> QED
    BY <1>1, <1>2 DEF Enqueue, AlreadyLoaded, Overflows, Enters, Refuses

\* Every variable keeps its type.
THEOREM LoaderTypeCorrect == Spec => []TypeOK
<1>1. Init => TypeOK
  BY DEF Init, TypeOK
<1>2. TypeOK /\ [Next]_vars => TypeOK'
  <2> SUFFICES ASSUME TypeOK, [Next]_vars PROVE TypeOK'
    OBVIOUS
  <2>1. ASSUME NEW m \in Modules, NEW callers \in Seq(Call), UNCHANGED program,
               index' \in Nat \ {0}, Overflows \/ Enters(m, callers) \/ Refuses(m)
        PROVE  TypeOK'
    <3>1. CASE Overflows
      BY <2>1, <3>1 DEF Overflows, TypeOK
    <3>2. CASE Enters(m, callers)
      <4>1. [module |-> m, next |-> 1] \in Call
        BY DEF Call
      <4>2. stack' \in Seq(Call)
        BY <3>2, <4>1, AppendProperties DEF Enters
      <4> QED
        BY <2>1, <3>2, <4>2 DEF Enters, TypeOK
    <3>3. CASE Refuses(m)
      <4>1. <<m, "unloadable">> \in Modules \X Reasons
        BY DEF Reasons
      <4>2. errors \subseteq Modules \X Reasons
        BY DEF TypeOK
      <4>3. errors' = errors \cup {<<m, "unloadable">>}
        BY <3>3 DEF Refuses
      <4>4. errors' \subseteq Modules \X Reasons
        BY <4>1, <4>2, <4>3
      <4>5. /\ program' \in Programs /\ loaded' \subseteq Modules /\ stack' \in Seq(Call)
            /\ index' \in Nat \ {0} /\ success' \in BOOLEAN
            /\ pc' \in {"loading", "loaded", "failed", "overflow"}
        <5>1. success' = FALSE /\ stack' = << >> /\ loaded' = loaded /\ pc' = pc
          BY <3>3 DEF Refuses
        <5>2. index' \in Nat \ {0} /\ program' = program
          BY <2>1
        <5>3. stack' \in Seq(Call) /\ success' \in BOOLEAN
          BY <5>1, EmptySeq
        <5>4. program' \in Programs /\ loaded' \subseteq Modules
              /\ pc' \in {"loading", "loaded", "failed", "overflow"}
          BY <5>1, <5>2 DEF TypeOK
        <5> QED
          BY <5>2, <5>3, <5>4
      <4> QED
        BY <4>4, <4>5 DEF TypeOK
    <3> QED
      BY <2>1, <3>1, <3>2, <3>3
  <2>2. CASE EnqueueEntryUse
    <3>1. program.entry[index] \in Paths /\ << >> \in Seq(Call)
      BY <2>2, ProgramFacts, ElementOfSeq DEF EnqueueEntryUse, TypeOK
    <3>2. index' \in Nat \ {0} /\ UNCHANGED program
      BY <2>2 DEF EnqueueEntryUse, TypeOK
    <3> QED
      BY <2>1, <2>2, <3>1, <3>2, ProgramFacts, EnqueueCases DEF EnqueueEntryUse
  <2>3. CASE EnqueueDependency
    <3> DEFINE path == Uses(TopCall.module)[TopCall.next]
               callers == [stack EXCEPT ![Len(stack)].next = @ + 1]
    <3>1. path \in Paths /\ callers \in Seq(Call)
      BY <2>3, TopFacts DEF EnqueueDependency
    <3>2. index' \in Nat \ {0} /\ UNCHANGED program /\ Enqueue(path, callers)
      BY <2>3 DEF EnqueueDependency, TypeOK
    <3> HIDE DEF path, callers
    <3> QED
      BY <2>1, <3>1, <3>2, ProgramFacts, EnqueueCases
  <2>4. CASE Return
    BY <2>4 DEF Return, TypeOK, Front
  <2>5. CASE Finish
    BY <2>5 DEF Finish, TypeOK
  <2>6. CASE UNCHANGED vars
    BY <2>6 DEF vars, TypeOK
  <2> QED
    BY <2>2, <2>3, <2>4, <2>5, <2>6 DEF Next
<1> QED
  BY <1>1, <1>2, PTL DEF Spec

------------------------------------------------------------------------------
(* What is loaded is what is needed                                          *)

\* The active calls are of loaded modules, and none of those is broken.
CallsLoaded ==
    /\ \A i \in 1 .. Len(stack) : stack[i].module \in loaded
    /\ loaded \cap program.broken = {}

\* What the recursion keeps true on the way: a use statement of a loaded
\* module leads to a loaded module, or a call still has to follow it, or a
\* failure was recorded.
FollowsUses ==
    \A m \in loaded : \A k \in 1 .. Len(Uses(m)) :
        \/ Used(Uses(m)[k]) \in loaded
        \/ \E i \in 1 .. Len(stack) : stack[i].module = m /\ stack[i].next <= k
        \/ ~ success

\* The entry file's use statements behind index have been loaded, or the
\* failure of one is on record.
EntryFollowed ==
    pc # "overflow" =>
        \A k \in 1 .. Len(program.entry) :
            k < index => Used(program.entry[k]) \in loaded \/ ~ success

VerdictFollows ==
    /\ pc = "loaded" => success /\ stack = << >> /\ index > Len(program.entry)
    /\ ~ success => errors # {}
    /\ pc = "failed" => ~ success

EveryErrorHasCause == \A e \in errors : Needed(e[1]) /\ e[1] \in program.broken /\ e[2] = "unloadable"

IInv == /\ TypeOK
        /\ LoadsOnlyNeeded
        /\ FollowsUses
        /\ CallsLoaded
        /\ EntryFollowed
        /\ VerdictFollows
        /\ EveryErrorHasCause

\* A needed module makes the modules it uses needed.
LEMMA NeededByUse ==
    ASSUME TypeOK, NEW m \in Modules, m \notin program.broken, Needed(m),
           NEW k \in 1 .. Len(Uses(m))
    PROVE  Needed(Used(Uses(m)[k]))
  BY DEF Needed, ClosedUnderUse

LEMMA NeededByEntry ==
    ASSUME NEW k \in 1 .. Len(program.entry)
    PROVE  Needed(Used(program.entry[k]))
  BY DEF Needed, ClosedUnderUse

\* The three ways out of enqueue_module keep the part of the invariant about
\* modules, when the calls it was called from are those of the stack and it
\* follows the use statement that the last of them has advanced over.
LEMMA EnqueueKeeps ==
    ASSUME IInv, NEW m \in Modules, Needed(m), UNCHANGED program,
           NEW callers \in Seq(Call), Len(callers) = Len(stack),
           \A i \in 1 .. Len(stack) :
               /\ callers[i].module = stack[i].module
               /\ \A k \in Nat : stack[i].next <= k =>
                    callers[i].next <= k \/ Used(Uses(stack[i].module)[k]) = m,
           Overflows \/ Enters(m, callers) \/ Refuses(m), pc = "loading"
    PROVE  LoadsOnlyNeeded' /\ FollowsUses' /\ CallsLoaded' /\ EveryErrorHasCause'
  <1> USE DEF IInv
  <1>1. stack \in Seq(Call) /\ Len(stack) \in Nat
    BY DEF TypeOK
  <1>2. \A n : Needed(n)' <=> Needed(n)
    BY DEF Needed, ClosedUnderUse, Uses, Used
  <1>3. \A n : Uses(n)' = Uses(n)
    BY DEF Uses
  <1>4. CASE Overflows
    BY <1>2, <1>3, <1>4 DEF Overflows, LoadsOnlyNeeded, FollowsUses, CallsLoaded,
                            EveryErrorHasCause
  <1>5. CASE Enters(m, callers)
    <2>1. loaded' = loaded \cup {m} /\ UNCHANGED <<success, errors>>
      BY <1>5 DEF Enters
    <2>2. LoadsOnlyNeeded'
      BY <1>2, <2>1 DEF LoadsOnlyNeeded
    <2>3. EveryErrorHasCause'
      BY <1>2, <2>1 DEF EveryErrorHasCause
    <2>4. [module |-> m, next |-> 1] \in Call
      BY DEF Call
    <2>5. /\ Len(stack') = Len(stack) + 1
          /\ \A i \in 1 .. Len(stack) : stack'[i] = callers[i]
          /\ stack'[Len(stack) + 1] = [module |-> m, next |-> 1]
      BY <1>5, <2>4, AppendProperties DEF Enters
    <2>6. CallsLoaded'
      BY <1>1, <1>5, <2>1, <2>5 DEF CallsLoaded, Enters
    <2>7. FollowsUses'
      <3> SUFFICES ASSUME NEW n \in loaded', NEW k \in 1 .. Len(Uses(n)),
                          Used(Uses(n)[k]) \notin loaded', success
                   PROVE  \E i \in 1 .. Len(stack') : stack'[i].module = n /\ stack'[i].next <= k
        BY <1>3, <2>1 DEF FollowsUses
      <3>1. CASE n = m
        <4>1. stack'[Len(stack) + 1].module = n /\ stack'[Len(stack) + 1].next <= k
          BY <2>5, <3>1
        <4> QED
          BY <1>1, <2>5, <4>1
      <3>2. CASE n # m
        <4>1. n \in loaded /\ Used(Uses(n)[k]) \notin loaded /\ Used(Uses(n)[k]) # m
          BY <2>1, <3>2
        <4>2. PICK i \in 1 .. Len(stack) : stack[i].module = n /\ stack[i].next <= k
          BY <4>1 DEF FollowsUses
        <4>3. callers[i].module = n /\ callers[i].next <= k
          BY <4>1, <4>2
        <4> QED
          BY <1>1, <2>5, <4>2, <4>3
      <3> QED
        BY <3>1, <3>2
    <2> QED
      BY <2>2, <2>3, <2>6, <2>7
  <1>6. CASE Refuses(m)
    <2>1. LoadsOnlyNeeded'
      BY <1>2, <1>6 DEF LoadsOnlyNeeded, Refuses
    <2>2. FollowsUses'
      BY <1>6 DEF FollowsUses, Refuses
    <2>3. Len(stack') = 0
      BY <1>6 DEF Refuses
    <2>4. CallsLoaded'
      BY <1>6, <2>3 DEF CallsLoaded, Refuses
    <2>5. EveryErrorHasCause'
      BY <1>2, <1>6 DEF EveryErrorHasCause, Refuses
    <2> QED
      BY <2>1, <2>2, <2>4, <2>5
  <1> QED
    BY <1>4, <1>5, <1>6

\* The bookkeeping part of the invariant over the same step.
LEMMA VerdictKept ==
    ASSUME IInv, NEW m, NEW callers, Overflows \/ Enters(m, callers) \/ Refuses(m),
           pc = "loading"
    PROVE  VerdictFollows'
  <1>1. CASE Overflows
    BY <1>1 DEF IInv, Overflows, VerdictFollows
  <1>2. CASE Enters(m, callers)
    BY <1>2 DEF IInv, Enters, VerdictFollows
  <1>3. CASE Refuses(m)
    BY <1>3 DEF IInv, Refuses, VerdictFollows
  <1> QED
    BY <1>1, <1>2, <1>3

LEMMA InvariantInitially == Init => IInv
  <1> SUFFICES ASSUME Init PROVE IInv
    OBVIOUS
  <1>1. TypeOK
    BY DEF Init, TypeOK
  <1>2. loaded = {} /\ errors = {} /\ Len(stack) = 0 /\ index = 1
        /\ success = TRUE /\ pc = "loading"
    BY DEF Init
  <1>3. EntryFollowed
    BY <1>2 DEF EntryFollowed
  <1> QED
    BY <1>1, <1>2, <1>3 DEF IInv, LoadsOnlyNeeded, FollowsUses, CallsLoaded,
                            VerdictFollows, EveryErrorHasCause

LEMMA EntryUseKeeps ==
    ASSUME IInv, TypeOK', EnqueueEntryUse
    PROVE  IInv'
  <1> DEFINE path == program.entry[index]
             m == Used(path)
  <1>1. /\ pc = "loading" /\ stack = << >> /\ index <= Len(program.entry)
        /\ index' = index + 1 /\ UNCHANGED program /\ Enqueue(path, << >>)
    BY DEF EnqueueEntryUse
  <1>2. TypeOK /\ index \in Nat \ {0} /\ program.entry \in Seq(Paths)
    BY ProgramFacts DEF IInv, TypeOK
  <1>3. index \in 1 .. Len(program.entry)
    BY <1>1, <1>2
  <1>4. path \in Paths /\ m \in Modules /\ Needed(m)
    BY <1>2, <1>3, ProgramFacts, ElementOfSeq, NeededByEntry
  <1>5. Overflows \/ Enters(m, << >>) \/ Refuses(m)
    BY <1>1, EnqueueCases
  <1>6. << >> \in Seq(Call) /\ Len(<< >>) = Len(stack) /\ Len(stack) = 0
    BY <1>1, EmptySeq
  <1> HIDE DEF path, m
  <1>7. LoadsOnlyNeeded' /\ FollowsUses' /\ CallsLoaded' /\ EveryErrorHasCause'
    BY <1>1, <1>4, <1>5, <1>6, EnqueueKeeps
  <1>8. VerdictFollows'
    BY <1>1, <1>5, VerdictKept
  <1>9. EntryFollowed'
    <2> SUFFICES ASSUME pc' # "overflow", NEW k \in 1 .. Len(program.entry), k < index',
                        success'
                 PROVE  Used(program.entry[k]) \in loaded'
      BY <1>1 DEF EntryFollowed, Used
    <2>1. Enters(m, << >>)
      BY <1>5 DEF Overflows, Refuses
    <2>2. CASE k = index
      BY <2>1, <2>2 DEF Enters, m, path
    <2>3. CASE k # index
      <3>1. k < index
        BY <1>1, <1>2, <2>3
      <3>2. Used(program.entry[k]) \in loaded
        BY <1>1, <2>1, <3>1 DEF IInv, EntryFollowed, Enters
      <3> QED
        BY <2>1, <3>2 DEF Enters
    <2> QED
      BY <2>2, <2>3
  <1> QED
    BY <1>7, <1>8, <1>9 DEF IInv

LEMMA DependencyKeeps ==
    ASSUME IInv, TypeOK', EnqueueDependency
    PROVE  IInv'
  <1> DEFINE path == Uses(TopCall.module)[TopCall.next]
             m == Used(path)
             callers == [stack EXCEPT ![Len(stack)].next = @ + 1]
  <1>1. /\ pc = "loading" /\ stack # << >> /\ TopCall.next <= Len(Uses(TopCall.module))
        /\ index' = index /\ UNCHANGED program /\ Enqueue(path, callers)
    BY DEF EnqueueDependency
  <1>2. TypeOK /\ stack \in Seq(Call)
    BY DEF IInv, TypeOK
  <1>3. /\ TopCall = stack[Len(stack)] /\ TopCall \in Call
        /\ Len(stack) \in Nat \ {0} /\ path \in Paths
        /\ callers \in Seq(Call) /\ Len(callers) = Len(stack)
        /\ \A i \in 1 .. Len(stack) :
             callers[i] = IF i = Len(stack) THEN [stack[i] EXCEPT !.next = @ + 1] ELSE stack[i]
    BY <1>1, <1>2, TopFacts
  <1>4. m \in Modules /\ (Overflows \/ Enters(m, callers) \/ Refuses(m))
    BY <1>1, <1>2, <1>3, ProgramFacts, EnqueueCases
  <1>5. m \in Modules
    BY <1>2, <1>3, ProgramFacts
  <1>6. Needed(m)
    <2>1. TopCall.module \in loaded
      BY <1>3 DEF IInv, CallsLoaded
    <2>2. TopCall.module \in Modules /\ TopCall.module \notin program.broken /\ Needed(TopCall.module)
      BY <1>2, <2>1 DEF IInv, CallsLoaded, LoadsOnlyNeeded, TypeOK
    <2>3. TopCall.next \in 1 .. Len(Uses(TopCall.module))
      BY <1>1, <1>2, <1>3, <2>2, ProgramFacts DEF Call
    <2> QED
      BY <1>2, <2>2, <2>3, NeededByUse
  <1>7. \A i \in 1 .. Len(stack) :
          /\ callers[i].module = stack[i].module
          /\ \A k \in Nat : stack[i].next <= k =>
               callers[i].next <= k \/ Used(Uses(stack[i].module)[k]) = m
    <2> SUFFICES ASSUME NEW i \in 1 .. Len(stack)
                 PROVE  /\ callers[i].module = stack[i].module
                        /\ \A k \in Nat : stack[i].next <= k =>
                             callers[i].next <= k \/ Used(Uses(stack[i].module)[k]) = m
      OBVIOUS
    <2>1. stack[i] \in Call
      BY <1>2, <1>3
    <2>2. CASE i = Len(stack)
      <3>1. callers[i] = [stack[i] EXCEPT !.next = @ + 1] /\ stack[i] = TopCall
        BY <1>3, <2>2
      <3>2. callers[i].module = stack[i].module /\ callers[i].next = stack[i].next + 1
        BY <2>1, <3>1 DEF Call
      <3>3. ASSUME NEW k \in Nat, stack[i].next <= k
            PROVE  callers[i].next <= k \/ k = TopCall.next
        BY <2>1, <3>1, <3>2, <3>3 DEF Call
      <3> QED
        BY <3>1, <3>2, <3>3
    <2>3. CASE i # Len(stack)
      BY <1>3, <2>3
    <2> QED
      BY <2>2, <2>3
  <1> HIDE DEF path, m, callers
  <1>8. LoadsOnlyNeeded' /\ FollowsUses' /\ CallsLoaded' /\ EveryErrorHasCause'
    BY <1>1, <1>3, <1>4, <1>5, <1>6, <1>7, EnqueueKeeps
  <1>9. VerdictFollows'
    BY <1>1, <1>4, VerdictKept
  <1>10. EntryFollowed'
    <2>1. CASE Overflows
      BY <2>1 DEF Overflows, EntryFollowed
    <2>2. CASE Enters(m, callers)
      BY <1>1, <2>2 DEF IInv, Enters, EntryFollowed, Used
    <2>3. CASE Refuses(m)
      BY <2>3 DEF Refuses, EntryFollowed
    <2> QED
      BY <1>4, <2>1, <2>2, <2>3
  <1> QED
    BY <1>8, <1>9, <1>10 DEF IInv

LEMMA FrontFacts ==
    ASSUME NEW S, NEW s \in Seq(S), Len(s) \in Nat \ {0}
    PROVE  LET t == SubSeq(s, 1, Len(s) - 1)
           IN  Len(t) = Len(s) - 1 /\ \A i \in 1 .. Len(s) - 1 : t[i] = s[i]
  <1>1. /\ 1 \in Int /\ Len(s) - 1 \in Int /\ \A i \in 1 .. Len(s) - 1 : s[i] \in S
        /\ (Len(s) - 1) - 1 + 1 = Len(s) - 1 /\ \A i \in Int : 1 + i - 1 = i
    OBVIOUS
  <1>2. /\ Len(SubSeq(s, 1, Len(s) - 1)) = IF 1 <= Len(s) - 1 THEN (Len(s) - 1) - 1 + 1 ELSE 0
        /\ \A i \in 1 .. (Len(s) - 1) - 1 + 1 : SubSeq(s, 1, Len(s) - 1)[i] = s[1 + i - 1]
    BY <1>1, SubSeqProperties
  <1> QED
    BY <1>1, <1>2

LEMMA ReturnKeeps ==
    ASSUME IInv, TypeOK', Return
    PROVE  IInv'
  <1>1. /\ stack # << >> /\ TopCall.next > Len(Uses(TopCall.module)) /\ pc = "loading"
        /\ stack' = SubSeq(stack, 1, Len(stack) - 1)
        /\ UNCHANGED <<program, loaded, index, success, errors, pc>>
    BY DEF Return, Front
  <1>2. TypeOK /\ stack \in Seq(Call) /\ Len(stack) \in Nat \ {0}
    BY <1>1, EmptySeq DEF IInv, TypeOK
  <1>3. Len(stack') = Len(stack) - 1 /\ \A i \in 1 .. Len(stack) - 1 : stack'[i] = stack[i]
    BY <1>1, <1>2, FrontFacts
  <1>4. \A n : (Needed(n)' <=> Needed(n)) /\ Uses(n)' = Uses(n)
    BY <1>1 DEF Needed, ClosedUnderUse, Uses, Used
  <1>5. LoadsOnlyNeeded' /\ EveryErrorHasCause' /\ EntryFollowed' /\ VerdictFollows'
    BY <1>1, <1>4 DEF IInv, LoadsOnlyNeeded, EveryErrorHasCause, EntryFollowed, VerdictFollows, Used
  <1>6. CallsLoaded'
    BY <1>1, <1>2, <1>3 DEF IInv, CallsLoaded
  <1>7. FollowsUses'
    <2> SUFFICES ASSUME NEW n \in loaded, NEW k \in 1 .. Len(Uses(n)),
                        Used(Uses(n)[k]) \notin loaded, success
                 PROVE  \E i \in 1 .. Len(stack') : stack'[i].module = n /\ stack'[i].next <= k
      BY <1>1, <1>4 DEF FollowsUses, Used
    <2>1. PICK i \in 1 .. Len(stack) : stack[i].module = n /\ stack[i].next <= k
      BY DEF IInv, FollowsUses
    <2>2. i # Len(stack)
      <3>1. SUFFICES ASSUME i = Len(stack) PROVE FALSE
        OBVIOUS
      <3>2. stack[i] = TopCall /\ TopCall \in Call
        BY <1>1, <1>2, <3>1, TopFacts
      <3>3. Uses(n) \in Seq(Paths)
        BY <1>2, ProgramFacts DEF TypeOK
      <3> QED
        BY <1>1, <2>1, <3>2, <3>3 DEF Call
    <2> QED
      BY <1>2, <1>3, <2>1, <2>2
  <1> QED
    BY <1>5, <1>6, <1>7 DEF IInv

LEMMA FinishKeeps ==
    ASSUME IInv, TypeOK', Finish
    PROVE  IInv'
  <1>1. /\ stack = << >> /\ index > Len(program.entry) /\ pc = "loading"
        /\ pc' = IF success THEN "loaded" ELSE "failed"
        /\ UNCHANGED <<program, loaded, stack, index, success, errors>>
    BY DEF Finish
  <1>2. LoadsOnlyNeeded' /\ FollowsUses' /\ CallsLoaded' /\ EveryErrorHasCause'
    BY <1>1 DEF IInv, LoadsOnlyNeeded, FollowsUses, CallsLoaded, EveryErrorHasCause,
                Needed, ClosedUnderUse, Uses, Used
  <1>3. EntryFollowed' /\ VerdictFollows'
    BY <1>1 DEF IInv, EntryFollowed, VerdictFollows, Used
  <1> QED
    BY <1>2, <1>3 DEF IInv

\* The invariant of the loading phase.
THEOREM LoaderInvariant == Spec => []IInv
<1>1. IInv /\ TypeOK' /\ [Next]_vars => IInv'
  <2> SUFFICES ASSUME IInv, TypeOK', [Next]_vars PROVE IInv'
    OBVIOUS
  <2>1. CASE UNCHANGED vars
    BY <2>1 DEF vars, IInv, LoadsOnlyNeeded, FollowsUses, CallsLoaded, EveryErrorHasCause,
                Needed, ClosedUnderUse, Uses, Used, EntryFollowed, VerdictFollows
  <2> QED
    BY <2>1, EntryUseKeeps, DependencyKeeps, ReturnKeeps, FinishKeeps DEF Next
<1> QED
  BY <1>1, InvariantInitially, LoaderTypeCorrect, PTL DEF Spec

\* Nothing is loaded that no chain of use statements asks for.
THEOREM LoadsOnlyNeededCorrect == Spec => []LoadsOnlyNeeded
  BY LoaderInvariant, PTL DEF IInv

\* Analysis starts only when everything that is used is in the table.
THEOREM LoadsAllNeededCorrect == Spec => []LoadsAllNeeded
<1>1. IInv => LoadsAllNeeded
  <2> SUFFICES ASSUME IInv, pc = "loaded"
               PROVE  ClosedUnderUse(loaded) /\ loaded \cap program.broken = {}
    BY DEF LoadsAllNeeded
  <2>1. success /\ stack = << >> /\ index > Len(program.entry)
    BY DEF IInv, VerdictFollows
  <2>2. Len(stack) = 0 /\ program.entry \in Seq(Paths) /\ index \in Nat
    BY <2>1, ProgramFacts DEF IInv, TypeOK
  <2>3. \A k \in 1 .. Len(program.entry) : Used(program.entry[k]) \in loaded
    BY <2>1, <2>2 DEF IInv, EntryFollowed
  <2>4. \A n \in loaded : \A k \in 1 .. Len(Uses(n)) : Used(Uses(n)[k]) \in loaded
    BY <2>1, <2>2 DEF IInv, FollowsUses
  <2> QED
    BY <2>3, <2>4 DEF IInv, CallsLoaded, ClosedUnderUse
<1> QED
  BY <1>1, LoaderInvariant, PTL

\* A program is refused only for a needed module that cannot be loaded.
THEOREM FailsForACauseCorrect == Spec => []FailsForACause
<1>1. IInv => FailsForACause
  BY DEF IInv, VerdictFollows, EveryErrorHasCause, FailsForACause
<1> QED
  BY <1>1, LoaderInvariant, PTL

\* No circular dependency is ever reported.
THEOREM CircularNeverReportedCorrect == Spec => []CircularNeverReported
<1>1. IInv => CircularNeverReported
  BY DEF IInv, EveryErrorHasCause, CircularNeverReported
<1> QED
  BY <1>1, LoaderInvariant, PTL
------------------------------------------------------------------------------
(* Import cycles are never taken for loaded                                  *)

\* Every module of S uses one of S.
Cycle(S) == \A n \in S : \E k \in 1 .. Len(Uses(n)) : Used(Uses(n)[k]) \in S

\* Once the recursion is in a cycle it does not come out of it: a module of it
\* is active, and where an active one has followed a use of the cycle, a module
\* of the cycle is active further up.
Chased(S) ==
    /\ success /\ loaded \cap S # {} => \E i \in 1 .. Len(stack) : stack[i].module \in S
    /\ \A i \in 1 .. Len(stack) :
         \A k \in 1 .. Len(Uses(stack[i].module)) :
            stack[i].module \in S /\ k < stack[i].next /\ Used(Uses(stack[i].module)[k]) \in S =>
                \E j \in i + 1 .. Len(stack) : stack[j].module \in S

CyclesChased == \A S \in SUBSET Modules : Cycle(S) => Chased(S)

LEMMA EnterChased ==
    ASSUME TypeOK, NEW S, Chased(S), NEW m \in Modules, NEW callers \in Seq(Call),
           UNCHANGED program, Enters(m, callers), Len(callers) = Len(stack),
           \A i \in 1 .. Len(stack) :
              /\ callers[i].module = stack[i].module
              /\ \A k \in Nat : k < callers[i].next =>
                   k < stack[i].next \/ Used(Uses(stack[i].module)[k]) = m
    PROVE  Chased(S)'
  <1> DEFINE call == [module |-> m, next |-> 1]
             top == Len(stack) + 1
  <1>1. /\ Len(stack) \in Nat /\ Len(stack') = top
        /\ stack'[top] = call
        /\ \A i \in 1 .. Len(stack) : stack'[i] = callers[i] /\ stack'[i].module = stack[i].module
    <2>1. call \in Call
      BY DEF Call
    <2>2. stack' = Append(callers, call) /\ Len(callers) \in Nat
      BY DEF Enters
    <2> HIDE DEF call
    <2> QED
      BY <2>1, <2>2, AppendProperties
  <1>2. ASSUME success', loaded' \cap S # {}
        PROVE  \E i \in 1 .. Len(stack') : stack'[i].module \in S
    <2>1. CASE m \in S
      BY <1>1, <2>1
    <2>2. CASE m \notin S
      <3>1. success /\ loaded \cap S # {}
        BY <1>2, <2>2 DEF Enters
      <3> QED
        BY <1>1, <3>1 DEF Chased
    <2> QED
      BY <2>1, <2>2
  <1>3. ASSUME NEW i \in 1 .. Len(stack'), NEW k \in 1 .. Len(Uses(stack'[i].module)),
               stack'[i].module \in S, k < stack'[i].next,
               Used(Uses(stack'[i].module)[k]) \in S
        PROVE  \E j \in i + 1 .. Len(stack') : stack'[j].module \in S
    <2>1. i # top
      BY <1>1, <1>3
    <2>2. i \in 1 .. Len(stack) /\ stack'[i] = callers[i] /\ stack'[i].module = stack[i].module
      BY <1>1, <2>1
    <2>3. /\ k \in 1 .. Len(Uses(stack[i].module)) /\ stack[i].module \in S
          /\ Used(Uses(stack[i].module)[k]) \in S
      BY <1>3, <2>2
    <2>4. k < stack[i].next \/ Used(Uses(stack[i].module)[k]) = m
      BY <1>3, <2>2
    <2>5. CASE Used(Uses(stack[i].module)[k]) = m
      BY <1>1, <2>2, <2>3, <2>5
    <2>6. CASE k < stack[i].next
      <3>1. PICK j \in i + 1 .. Len(stack) : stack[j].module \in S
        BY <2>2, <2>3, <2>6 DEF Chased
      <3> QED
        BY <1>1, <2>2, <3>1
    <2> QED
      BY <2>4, <2>5, <2>6
  <1> QED
    BY <1>2, <1>3 DEF Chased, Uses, Used

\* Only the last use statement that was followed is new to the stack.
LEMMA EnqueueChased ==
    ASSUME TypeOK, EnqueueEntryUse \/ EnqueueDependency, NEW S, Chased(S)
    PROVE  Chased(S)'
  <1>1. ASSUME Overflows \/ \E m \in Modules : Refuses(m), UNCHANGED program
        PROVE  Chased(S)'
    <2>1. CASE Overflows
      BY <1>1, <2>1 DEF Overflows, Chased, Uses, Used
    <2>2. CASE \E m \in Modules : Refuses(m)
      BY <2>2 DEF Refuses, Chased
    <2> QED
      BY <1>1, <2>1, <2>2
  <1>2. CASE EnqueueEntryUse
    <2> DEFINE path == program.entry[index]
    <2>1. /\ stack = << >> /\ UNCHANGED program
          /\ Enqueue(path, << >>) /\ path \in Paths
      BY <1>2, ProgramFacts, ElementOfSeq DEF EnqueueEntryUse, TypeOK
    <2>2. Used(path) \in Modules
      BY <2>1, ProgramFacts
    <2> HIDE DEF path
    <2>3. Overflows \/ Enters(Used(path), << >>) \/ Refuses(Used(path))
      BY <2>1, EnqueueCases
    <2>4. CASE Enters(Used(path), << >>)
      <3>1. Len(stack) = 0 /\ << >> \in Seq(Call)
        BY <2>1
      <3> QED
        BY <2>1, <2>2, <2>4, <3>1, EnterChased
    <2> QED
      BY <1>1, <2>1, <2>2, <2>3, <2>4
  <1>3. CASE EnqueueDependency
    <2> DEFINE path == Uses(TopCall.module)[TopCall.next]
               callers == [stack EXCEPT ![Len(stack)].next = @ + 1]
    <2>1. /\ stack # << >> /\ UNCHANGED program
          /\ TopCall.next <= Len(Uses(TopCall.module)) /\ Enqueue(path, callers)
      BY <1>3 DEF EnqueueDependency
    <2>2. /\ TopCall = stack[Len(stack)] /\ TopCall \in Call
          /\ Len(stack) \in Nat \ {0} /\ path \in Paths
          /\ callers \in Seq(Call) /\ Len(callers) = Len(stack)
          /\ \A i \in 1 .. Len(stack) :
               callers[i] = IF i = Len(stack) THEN [stack[i] EXCEPT !.next = @ + 1] ELSE stack[i]
      BY <2>1, TopFacts
    <2>3. ASSUME NEW i \in 1 .. Len(stack)
          PROVE  /\ callers[i].module = stack[i].module
                 /\ \A k \in Nat : k < callers[i].next =>
                      k < stack[i].next \/ Used(Uses(stack[i].module)[k]) = Used(path)
      <3>1. CASE i = Len(stack)
        <4>1. callers[i] = [TopCall EXCEPT !.next = @ + 1] /\ stack[i] = TopCall
          BY <2>2, <3>1
        <4>2. callers[i].module = TopCall.module /\ callers[i].next = TopCall.next + 1
          BY <2>2, <4>1 DEF Call
        <4>3. \A k \in Nat : k < TopCall.next + 1 => k < TopCall.next \/ k = TopCall.next
          BY <2>2 DEF Call
        <4> QED
          BY <4>1, <4>2, <4>3
      <3>2. CASE i # Len(stack)
        BY <2>2, <3>2
      <3> QED
        BY <3>1, <3>2
    <2>4. Used(path) \in Modules
      BY <2>2, ProgramFacts
    <2> HIDE DEF path, callers
    <2>5. Overflows \/ Enters(Used(path), callers) \/ Refuses(Used(path))
      BY <2>1, EnqueueCases
    <2>6. CASE Enters(Used(path), callers)
      BY <2>1, <2>2, <2>3, <2>4, <2>6, EnterChased
    <2> QED
      BY <1>1, <2>1, <2>4, <2>5, <2>6
  <1> QED
    BY <1>2, <1>3

\* The call that returns has followed all its uses, and nothing is active above
\* it: it is not in a cycle.
LEMMA ReturnChased ==
    ASSUME TypeOK, Return, NEW S, S \subseteq Modules, Cycle(S), Chased(S)
    PROVE  Chased(S)'
  <1>1. /\ stack # << >> /\ TopCall.next > Len(Uses(TopCall.module))
        /\ stack' = SubSeq(stack, 1, Len(stack) - 1)
        /\ UNCHANGED <<program, loaded, success>>
    BY DEF Return, Front
  <1>2. stack \in Seq(Call) /\ Len(stack) \in Nat \ {0}
    BY <1>1, EmptySeq DEF TypeOK
  <1>3. Len(stack') = Len(stack) - 1 /\ \A i \in 1 .. Len(stack) - 1 : stack'[i] = stack[i]
    BY <1>1, <1>2, FrontFacts
  <1>4. stack[Len(stack)].module \notin S
    <2> SUFFICES ASSUME stack[Len(stack)].module \in S PROVE FALSE
      OBVIOUS
    <2>1. TopCall = stack[Len(stack)] /\ TopCall \in Call /\ Uses(TopCall.module) \in Seq(Paths)
      BY <1>1, TopFacts
    <2>2. PICK k \in 1 .. Len(Uses(TopCall.module)) : Used(Uses(TopCall.module)[k]) \in S
      BY <2>1 DEF Cycle
    <2>3. k < TopCall.next
      BY <1>1, <2>1, <2>2 DEF Call
    <2>4. \E j \in Len(stack) + 1 .. Len(stack) : stack[j].module \in S
      BY <1>2, <2>1, <2>2, <2>3 DEF Chased
    <2> QED
      BY <1>2, <2>4
  <1>5. \A n : Uses(n)' = Uses(n)
    BY <1>1 DEF Uses
  <1>6. success' /\ loaded' \cap S # {} => \E i \in 1 .. Len(stack') : stack'[i].module \in S
    BY <1>1, <1>2, <1>3, <1>4 DEF Chased
  <1>7. ASSUME NEW i \in 1 .. Len(stack'), NEW k \in 1 .. Len(Uses(stack[i].module)),
               stack[i].module \in S, k < stack[i].next, Used(Uses(stack[i].module)[k]) \in S
        PROVE  \E j \in i + 1 .. Len(stack') : stack'[j].module \in S
    <2>1. i \in 1 .. Len(stack)
      BY <1>2, <1>3
    <2>2. PICK j \in i + 1 .. Len(stack) : stack[j].module \in S
      BY <1>7, <2>1 DEF Chased
    <2> QED
      BY <1>2, <1>3, <1>4, <2>1, <2>2
  <1>8. \A i \in 1 .. Len(stack') : stack'[i] = stack[i]
    BY <1>2, <1>3
  <1> QED
    BY <1>5, <1>6, <1>7, <1>8 DEF Chased, Used

\* The recursion never leaves a cycle, whatever else it loads.
THEOREM CyclesChasedCorrect == Spec => []CyclesChased
<1>1. Init => CyclesChased
  <2> SUFFICES ASSUME Init, NEW S PROVE Chased(S)
    BY DEF CyclesChased
  <2>1. loaded = {} /\ stack = << >> /\ Len(stack) = 0
    BY DEF Init
  <2> QED
    BY <2>1 DEF Chased
<1>2. TypeOK /\ CyclesChased /\ [Next]_vars => CyclesChased'
  <2> SUFFICES ASSUME TypeOK, CyclesChased, [Next]_vars, NEW S \in SUBSET Modules, Cycle(S)'
               PROVE  Chased(S)'
    BY DEF CyclesChased
  <2>1. UNCHANGED program
    BY DEF Next, vars, EnqueueEntryUse, EnqueueDependency, Return, Finish
  <2>2. Cycle(S) /\ Chased(S)
    BY <2>1 DEF Cycle, CyclesChased, Uses, Used
  <2>3. CASE Finish \/ UNCHANGED vars
    BY <2>2, <2>3 DEF Finish, vars, Chased, Uses, Used
  <2> QED
    BY <2>2, <2>3, EnqueueChased, ReturnChased DEF Next
<1> QED
  BY <1>1, <1>2, LoaderTypeCorrect, PTL DEF Spec

\* What is loaded has no import cycle, whatever the program.
THEOREM LoadedIsAcyclicCorrect == Spec => []LoadedIsAcyclic
<1>1. IInv /\ CyclesChased => LoadedIsAcyclic
  <2> SUFFICES ASSUME IInv, CyclesChased, pc = "loaded", NEW S \in (SUBSET loaded) \ {{}}, Cycle(S)
               PROVE  FALSE
    BY DEF LoadedIsAcyclic, Cycle
  <2>1. success /\ Len(stack) = 0
    BY DEF IInv, VerdictFollows
  <2>2. Chased(S) /\ loaded \cap S # {}
    BY DEF IInv, TypeOK, CyclesChased
  <2> QED
    BY <2>1, <2>2 DEF Chased
<1> QED
  BY <1>1, LoaderInvariant, CyclesChasedCorrect, PTL
------------------------------------------------------------------------------
(* The table *)

\* Every module is in the chain its name hashes to.
Placed ==
    \A i \in 0 .. capacity - 1 :
        \A n \in Elements(modules[i]) : Index(n) = i

\* The old chains before `at` have been moved.
MovedEmpty ==
    mode = "moving" => \A i \in 0 .. at - 1 : old[i] = << >>

\* While the table is resized there is room for the pending module.
Room ==
    /\ mode = "idle" => count <= (capacity * 3) \div 4
    /\ mode = "moving" => count + 1 <= (capacity * 3) \div 4

Counted == IsFiniteSet(Stored) /\ count = Cardinality(Stored)

Inv ==
    /\ TableTypeOK
    /\ Placed
    /\ OneHome
    /\ MovedEmpty
    /\ Room
    /\ Counted
------------------------------------------------------------------------------
(* The table: its chains *)

\* The elements of a chain with a module put at its front.
LEMMA ConsElements ==
    ASSUME NEW S, NEW x \in S, NEW s \in Seq(S)
    PROVE  /\ <<x>> \o s \in Seq(S)
           /\ Len(<<x>> \o s) = Len(s) + 1
           /\ (<<x>> \o s)[1] = x
           /\ \A i \in 1 .. Len(s) : (<<x>> \o s)[i + 1] = s[i]
           /\ Elements(<<x>> \o s) = {x} \cup Elements(s)
<1> DEFINE t == <<x>> \o s
<1>1. <<x>> \in Seq(S) /\ Len(<<x>>) = 1 /\ <<x>>[1] = x
  OBVIOUS
<1>2. t \in Seq(S) /\ Len(t) = Len(s) + 1 /\ t[1] = x
  BY <1>1
<1>3. \A i \in 1 .. Len(s) : t[i + 1] = s[i]
  BY <1>1
<1>4. Elements(t) = {x} \cup Elements(s)
  <2>2. ASSUME NEW y \in Elements(t) PROVE y \in {x} \cup Elements(s)
    <3>1. PICK k \in 1 .. Len(s) + 1 : y = t[k]
      BY <1>2, <2>2 DEF Elements
    <3>2. CASE k = 1 BY <3>1, <3>2, <1>2
    <3>3. CASE k # 1
      <4>1. k - 1 \in 1 .. Len(s) /\ k = (k - 1) + 1 BY <3>3
      <4>2. t[k] = s[k - 1] BY <4>1, <1>3
      <4>3. QED BY <3>1, <4>1, <4>2 DEF Elements
    <3>4. QED BY <3>2, <3>3
  <2>3. x \in Elements(t)
    BY <1>2 DEF Elements
  <2>4. ASSUME NEW y \in Elements(s) PROVE y \in Elements(t)
    <3>1. PICK k \in 1 .. Len(s) : y = s[k]
      BY <2>4 DEF Elements
    <3>2. k + 1 \in 1 .. Len(t) /\ t[k + 1] = y
      BY <3>1, <1>2, <1>3
    <3>3. QED BY <3>2 DEF Elements
  <2>5. QED BY <2>2, <2>3, <2>4
<1>5. QED BY <1>2, <1>3, <1>4

\* The head and the elements of the tail.
LEMMA TailElements ==
    ASSUME NEW S, NEW s \in Seq(S), s # << >>
    PROVE  /\ Head(s) \in S
           /\ Tail(s) \in Seq(S)
           /\ Len(Tail(s)) = Len(s) - 1
           /\ Len(s) >= 1
           /\ Head(s) = s[1]
           /\ \A i \in 1 .. Len(s) - 1 : Tail(s)[i] = s[i + 1]
           /\ Elements(s) = {Head(s)} \cup Elements(Tail(s))
<1>1. /\ Len(s) \in Nat /\ Len(s) >= 1 /\ Head(s) \in S /\ Tail(s) \in Seq(S)
      /\ Len(Tail(s)) = Len(s) - 1 /\ Head(s) = s[1]
  OBVIOUS
<1>2. \A i \in 1 .. Len(s) - 1 : Tail(s)[i] = s[i + 1]
  OBVIOUS
<1>3. ASSUME NEW y \in Elements(s) PROVE y \in {Head(s)} \cup Elements(Tail(s))
  <2>1. PICK k \in 1 .. Len(s) : y = s[k]
    BY <1>3 DEF Elements
  <2>2. CASE k = 1 BY <2>1, <2>2, <1>1
  <2>3. CASE k # 1
    <3>1. k - 1 \in 1 .. Len(s) - 1 /\ (k - 1) + 1 = k BY <2>3, <1>1
    <3>2. Tail(s)[k - 1] = s[k] BY <3>1, <1>2
    <3>3. QED BY <3>1, <3>2, <2>1, <1>1 DEF Elements
  <2>4. QED BY <2>2, <2>3
<1>4. Head(s) \in Elements(s)
  BY <1>1 DEF Elements
<1>5. ASSUME NEW y \in Elements(Tail(s)) PROVE y \in Elements(s)
  <2>1. PICK k \in 1 .. Len(s) - 1 : y = Tail(s)[k]
    BY <1>5, <1>1 DEF Elements
  <2>2. k + 1 \in 1 .. Len(s) /\ y = s[k + 1]
    BY <2>1, <1>1, <1>2
  <2>3. QED BY <2>2 DEF Elements
<1>6. QED BY <1>1, <1>2, <1>3, <1>4, <1>5

\* The members of a table of chains.
All(c, chains) == UNION {Elements(chains[i]) : i \in 0 .. c - 1}

\* Putting a module that is in no chain at the front of one adds it to the
\* table, and it is in one place only.
LEMMA AddLemma ==
    ASSUME NEW c \in Nat, NEW chains \in [0 .. c - 1 -> Chains], NEW k \in 0 .. c - 1,
           NEW n \in Names
    PROVE  LET new == [chains EXCEPT ![k] = <<n>> \o @]
           IN  /\ new \in [0 .. c - 1 -> Chains]
               /\ All(c, new) = All(c, chains) \cup {n}
               /\ Elements(new[k]) = Elements(chains[k]) \cup {n}
               /\ \A i \in 0 .. c - 1 : i # k => new[i] = chains[i]
               /\ OnePlace(chains) /\ n \notin All(c, chains) => OnePlace(new)
<1> DEFINE new == [chains EXCEPT ![k] = <<n>> \o @]
<1>1. chains[k] \in Seq(Names) BY DEF Chains
<1>2. new[k] = <<n>> \o chains[k] /\ \A i \in 0 .. c - 1 : i # k => new[i] = chains[i]
  OBVIOUS
<1>3. new[k] \in Seq(Names) /\ Elements(new[k]) = Elements(chains[k]) \cup {n}
  BY <1>1, <1>2, ConsElements
<1>4. new \in [0 .. c - 1 -> Chains]
  <2>1. new = [i \in 0 .. c - 1 |-> new[i]] OBVIOUS
  <2>2. \A i \in 0 .. c - 1 : new[i] \in Chains BY <1>2, <1>3 DEF Chains
  <2> HIDE DEF new
  <2>3. QED BY <2>1, <2>2
<1> HIDE DEF new
<1>5. All(c, new) = All(c, chains) \cup {n}
  <2>1. ASSUME NEW y \in All(c, new) PROVE y \in All(c, chains) \cup {n}
    <3>1. PICK i \in 0 .. c - 1 : y \in Elements(new[i]) BY <2>1 DEF All
    <3>2. CASE i = k BY <3>1, <3>2, <1>3 DEF All
    <3>3. CASE i # k BY <3>1, <3>3, <1>2 DEF All
    <3>4. QED BY <3>2, <3>3
  <2>2. n \in All(c, new) BY <1>3 DEF All
  <2>3. ASSUME NEW y \in All(c, chains) PROVE y \in All(c, new)
    <3>1. PICK i \in 0 .. c - 1 : y \in Elements(chains[i]) BY <2>3 DEF All
    <3>2. y \in Elements(new[i]) BY <3>1, <1>2, <1>3
    <3>3. QED BY <3>2 DEF All
  <2>4. QED BY <2>1, <2>2, <2>3
<1>6. ASSUME OnePlace(chains), n \notin All(c, chains) PROVE OnePlace(new)
  <2>1. DOMAIN new = 0 .. c - 1 /\ DOMAIN chains = 0 .. c - 1 BY <1>4
  <2>2. ASSUME NEW i \in 0 .. c - 1, NEW j \in 1 .. Len(new[i])
        PROVE  \/ i = k /\ j = 1 /\ new[i][j] = n
               \/ LET f == IF i = k THEN j - 1 ELSE j
                  IN  f \in 1 .. Len(chains[i]) /\ new[i][j] = chains[i][f]
    <3>1. CASE i # k BY <3>1, <1>2
    <3>2. CASE i = k
      <4>1. Len(new[k]) = Len(chains[k]) + 1 /\ new[k][1] = n
            /\ \A x \in 1 .. Len(chains[k]) : new[k][x + 1] = chains[k][x]
        BY <1>1, <1>2, ConsElements
      <4>2. CASE j = 1 BY <4>1, <4>2, <3>2
      <4>3. CASE j # 1
        <5>0. Len(chains[k]) \in Nat BY <1>1
        <5>1. j - 1 \in 1 .. Len(chains[k]) /\ (j - 1) + 1 = j BY <4>1, <4>3, <3>2, <5>0
        <5>2. new[k][j] = chains[k][j - 1] BY <5>1, <4>1
        <5>3. QED BY <5>1, <5>2, <3>2
      <4>4. QED BY <4>2, <4>3
    <3>3. QED BY <3>1, <3>2
  <2>3. ASSUME NEW i \in 0 .. c - 1, NEW j \in 1 .. Len(chains[i]) PROVE chains[i][j] # n
    <3>1. chains[i][j] \in Elements(chains[i]) BY DEF Elements
    <3>2. chains[i][j] \in All(c, chains) BY <3>1 DEF All
    <3>3. QED BY <3>2, <1>6
  <2>4. ASSUME NEW i \in 0 .. c - 1, NEW m \in 0 .. c - 1,
               NEW j \in 1 .. Len(new[i]), NEW l \in 1 .. Len(new[m]),
               new[i][j] = new[m][l]
        PROVE  i = m /\ j = l
    <3> DEFINE f == IF i = k THEN j - 1 ELSE j
    <3> DEFINE g == IF m = k THEN l - 1 ELSE l
    <3>1. \/ i = k /\ j = 1 /\ new[i][j] = n
          \/ f \in 1 .. Len(chains[i]) /\ new[i][j] = chains[i][f]
      BY <2>2
    <3>2. \/ m = k /\ l = 1 /\ new[m][l] = n
          \/ g \in 1 .. Len(chains[m]) /\ new[m][l] = chains[m][g]
      BY <2>2
    <3>3. CASE new[i][j] = n
      <4>1. i = k /\ j = 1 BY <3>1, <3>3, <2>3
      <4>2. m = k /\ l = 1 BY <3>2, <3>3, <2>3, <2>4
      <4>3. QED BY <4>1, <4>2
    <3>4. CASE new[i][j] # n
      <4>1. f \in 1 .. Len(chains[i]) /\ new[i][j] = chains[i][f] BY <3>1, <3>4
      <4>2. g \in 1 .. Len(chains[m]) /\ new[m][l] = chains[m][g] BY <3>2, <3>4, <2>4
      <4>3. i = m /\ f = g
        <5> HIDE DEF f, g
        <5>1. chains[i][f] = chains[m][g] BY <4>1, <4>2, <2>4
        <5>2. \A x \in 1 .. Len(chains[i]), y \in 1 .. Len(chains[m]) :
                 chains[i][x] = chains[m][y] => i = m /\ x = y
          BY <1>6, <2>1 DEF OnePlace
        <5>3. f \in 1 .. Len(chains[i]) /\ g \in 1 .. Len(chains[m]) BY <4>1, <4>2
        <5>4. QED BY <5>1, <5>2, <5>3
      <4>4. j \in Nat /\ l \in Nat
        <5>1. new[i] \in Seq(Names) /\ new[m] \in Seq(Names) BY <1>4 DEF Chains
        <5>2. Len(new[i]) \in Nat /\ Len(new[m]) \in Nat BY <5>1
        <5>3. QED BY <5>2
      <4>5. QED BY <4>3, <4>4
    <3>5. QED BY <3>3, <3>4
  <2>5. QED BY <2>1, <2>4 DEF OnePlace
<1>7. QED BY <1>2, <1>3, <1>4, <1>5, <1>6 DEF new

\* The chains without the first module of one of them, which is h.
TakesFirst(chains, k, new, h) ==
    chains[k] # << >> /\ new = [chains EXCEPT ![k] = Tail(@)] /\ h = Head(chains[k])

\* Taking the first module out of a chain.
LEMMA RemoveLemma ==
    ASSUME NEW c \in Nat, NEW chains \in [0 .. c - 1 -> Chains], NEW k \in 0 .. c - 1,
           OnePlace(chains), NEW new, NEW h, TakesFirst(chains, k, new, h)
    PROVE  /\ new \in [0 .. c - 1 -> Chains] /\ h \in Names
           /\ All(c, chains) = All(c, new) \cup {h}
           /\ \A i \in 0 .. c - 1 : i # k => new[i] = chains[i]
           /\ OnePlace(new) /\ h \notin All(c, new)
<1>1. chains[k] \in Seq(Names) BY DEF Chains
<1>2. new[k] = Tail(chains[k]) /\ \A i \in 0 .. c - 1 : i # k => new[i] = chains[i]
  BY DEF TakesFirst
<1>3. /\ h \in Names /\ new[k] \in Seq(Names)
      /\ Len(new[k]) = Len(chains[k]) - 1 /\ Len(chains[k]) >= 1 /\ h = chains[k][1]
      /\ \A i \in 1 .. Len(chains[k]) - 1 : new[k][i] = chains[k][i + 1]
      /\ Elements(chains[k]) = {h} \cup Elements(new[k])
  BY <1>1, <1>2, TailElements DEF TakesFirst
<1>4. new \in [0 .. c - 1 -> Chains]
  <2>1. new = [i \in 0 .. c - 1 |-> new[i]] BY DEF TakesFirst
  <2>2. \A i \in 0 .. c - 1 : new[i] \in Chains BY <1>2, <1>3 DEF Chains
  <2>3. QED BY <2>1, <2>2
<1>5. All(c, chains) = All(c, new) \cup {h}
  <2>1. ASSUME NEW y \in All(c, chains) PROVE y \in All(c, new) \cup {h}
    <3>1. PICK i \in 0 .. c - 1 : y \in Elements(chains[i]) BY <2>1 DEF All
    <3>2. CASE i = k BY <3>1, <3>2, <1>3 DEF All
    <3>3. CASE i # k BY <3>1, <3>3, <1>2 DEF All
    <3>4. QED BY <3>2, <3>3
  <2>2. h \in All(c, chains) BY <1>3 DEF All
  <2>3. ASSUME NEW y \in All(c, new) PROVE y \in All(c, chains)
    <3>1. PICK i \in 0 .. c - 1 : y \in Elements(new[i]) BY <2>3 DEF All
    <3>2. y \in Elements(chains[i]) BY <3>1, <1>2, <1>3
    <3>3. QED BY <3>2 DEF All
  <2>4. QED BY <2>1, <2>2, <2>3
<1>6. OnePlace(new) /\ h \notin All(c, new)
  <2>1. DOMAIN new = 0 .. c - 1 /\ DOMAIN chains = 0 .. c - 1 BY <1>4
  <2>2. \A i, m \in 0 .. c - 1 : \A x \in 1 .. Len(chains[i]), y \in 1 .. Len(chains[m]) :
           chains[i][x] = chains[m][y] => i = m /\ x = y
    BY <2>1 DEF OnePlace
  <2>3. Len(chains[k]) \in Nat BY <1>1
  <2>4. ASSUME NEW i \in 0 .. c - 1, NEW j \in 1 .. Len(new[i])
        PROVE  LET f == IF i = k THEN j + 1 ELSE j
               IN  f \in 1 .. Len(chains[i]) /\ new[i][j] = chains[i][f]
    <3>1. CASE i # k BY <3>1, <1>2
    <3>2. CASE i = k
      <4>1. j \in 1 .. Len(chains[k]) - 1 BY <3>2, <1>3
      <4>2. j + 1 \in 1 .. Len(chains[k]) BY <4>1, <2>3
      <4>3. QED BY <4>1, <4>2, <3>2, <1>3
    <3>3. QED BY <3>1, <3>2
  <2>5. ASSUME NEW i \in 0 .. c - 1, NEW m \in 0 .. c - 1,
               NEW j \in 1 .. Len(new[i]), NEW l \in 1 .. Len(new[m]),
               new[i][j] = new[m][l]
        PROVE  i = m /\ j = l
    <3> DEFINE f == IF i = k THEN j + 1 ELSE j
    <3> DEFINE g == IF m = k THEN l + 1 ELSE l
    <3>1. f \in 1 .. Len(chains[i]) /\ new[i][j] = chains[i][f] BY <2>4
    <3>2. g \in 1 .. Len(chains[m]) /\ new[m][l] = chains[m][g] BY <2>4
    <3>3. i = m /\ f = g
      <4> HIDE DEF f, g
      <4>1. chains[i][f] = chains[m][g] BY <3>1, <3>2, <2>5
      <4>2. QED BY <4>1, <3>1, <3>2, <2>2
    <3>4. j \in Nat /\ l \in Nat
      <4>1. new[i] \in Seq(Names) /\ new[m] \in Seq(Names) BY <1>4 DEF Chains
      <4>2. Len(new[i]) \in Nat /\ Len(new[m]) \in Nat BY <4>1
      <4>3. QED BY <4>2
    <3>5. QED BY <3>3, <3>4
  <2>6. OnePlace(new) BY <2>1, <2>5 DEF OnePlace
  <2>7. ASSUME h \in All(c, new) PROVE FALSE
    <3>1. PICK i \in 0 .. c - 1 : h \in Elements(new[i]) BY <2>7 DEF All
    <3>2. PICK j \in 1 .. Len(new[i]) : h = new[i][j] BY <3>1 DEF Elements
    <3> DEFINE f == IF i = k THEN j + 1 ELSE j
    <3>3. f \in 1 .. Len(chains[i]) /\ new[i][j] = chains[i][f] BY <2>4
    <3>4. 1 \in 1 .. Len(chains[k]) BY <2>3, <1>3
    <3>5. i = k /\ f = 1
      <4> HIDE DEF f
      <4>1. chains[i][f] = chains[k][1] BY <3>2, <3>3, <1>3
      <4>2. QED BY <4>1, <3>3, <3>4, <2>2
    <3>6. j + 1 = 1 /\ j \in 1 .. Len(chains[k]) - 1 BY <3>5, <1>3
    <3>7. QED BY <3>6, <2>3
  <2>8. QED BY <2>6, <2>7
<1>7. QED BY <1>2, <1>3, <1>4, <1>5, <1>6

------------------------------------------------------------------------------
(* The table: where its modules are *)

LEMMA IndexLemma ==
    ASSUME TableTypeOK, NEW n \in Names
    PROVE  Index(n) \in 0 .. capacity - 1
<1>1. Hash[n] \in Nat /\ capacity \in Nat \ {0} BY HashAssumption DEF TableTypeOK
<1>2. QED BY <1>1 DEF Index

\* What the state is made of while the table is resized.
LEMMA MovingLemma ==
    ASSUME TableTypeOK, mode = "moving"
    PROVE  /\ OldCapacity \in Nat \ {0}
           /\ capacity = 2 * OldCapacity
           /\ old \in [0 .. OldCapacity - 1 -> Chains]
           /\ at \in 0 .. OldCapacity
           /\ pending \in Names
           /\ Stored = All(capacity, modules) \cup All(OldCapacity, old)
           /\ InTable = All(capacity, modules)
           /\ InOld = All(OldCapacity, old)
<1>1. PICK c \in 1 .. capacity :
         capacity = 2 * c /\ old \in [0 .. c - 1 -> Chains] /\ at \in 0 .. c
  BY DEF TableTypeOK
<1>2. capacity \in Nat BY DEF TableTypeOK
<1>3. c \in Nat \ {0} /\ (2 * c) \div 2 = c BY <1>1, <1>2
<1>4. OldCapacity = c BY <1>1, <1>3 DEF OldCapacity
<1>5. pending \in Names BY DEF TableTypeOK
<1>6. QED BY <1>1, <1>3, <1>4, <1>5 DEF Stored, InTable, InOld, All

LEMMA IdleLemma ==
    ASSUME TableTypeOK, mode = "idle"
    PROVE  Stored = All(capacity, modules) /\ InTable = All(capacity, modules)
BY DEF Stored, InTable, InOld, All

\* A module that is not found is not in the table.
LEMMA NotFound ==
    ASSUME TableTypeOK, Placed, NEW n \in Names, ~ Find(n)
    PROVE  n \notin All(capacity, modules)
BY DEF Placed, Find, All

\* A module put into its chain leaves every module in the chain of its name.
LEMMA AddPlaced ==
    ASSUME TableTypeOK, Placed, NEW n \in Names, AddFirst(n), capacity' = capacity
    PROVE  /\ modules' \in [0 .. capacity - 1 -> Chains]
           /\ Placed'
           /\ All(capacity, modules') = All(capacity, modules) \cup {n}
           /\ OnePlace(modules) /\ n \notin All(capacity, modules) => OnePlace(modules')
<1>1. Index(n) \in 0 .. capacity - 1 BY IndexLemma
<1>2. capacity \in Nat /\ modules \in [0 .. capacity - 1 -> Chains] BY DEF TableTypeOK
<1>3. modules' = [modules EXCEPT ![Index(n)] = <<n>> \o @] BY DEF AddFirst
<1> DEFINE new == [modules EXCEPT ![Index(n)] = <<n>> \o @]
<1>4. /\ new \in [0 .. capacity - 1 -> Chains]
      /\ All(capacity, new) = All(capacity, modules) \cup {n}
      /\ Elements(new[Index(n)]) = Elements(modules[Index(n)]) \cup {n}
      /\ \A i \in 0 .. capacity - 1 : i # Index(n) => new[i] = modules[i]
      /\ OnePlace(modules) /\ n \notin All(capacity, modules) => OnePlace(new)
  BY <1>1, <1>2, AddLemma
<1>5. modules' = new BY <1>3
<1> HIDE DEF new
<1>6. \A m : Index(m)' = Index(m) BY DEF Index
<1>7. ASSUME NEW i \in 0 .. capacity - 1, NEW m \in Elements(new[i]) PROVE Index(m) = i
  <2>1. CASE i = Index(n) BY <2>1, <1>4 DEF Placed
  <2>2. CASE i # Index(n) BY <2>2, <1>4 DEF Placed
  <2>3. QED BY <2>1, <2>2
<1>8. Placed'
  <2>1. \A i \in 0 .. capacity' - 1 : \A m \in Elements(modules'[i]) : Index(m)' = i
    BY <1>5, <1>6, <1>7
  <2>2. QED BY <2>1 DEF Placed, Elements
<1>9. QED BY <1>4, <1>5, <1>8
------------------------------------------------------------------------------
(* The table: the invariant *)

LEMMA InvInit == TableInit => Inv
<1> SUFFICES ASSUME TableInit PROVE Inv OBVIOUS
<1>1. /\ capacity = InitialCapacity /\ capacity \in Nat \ {0} /\ count = 0 /\ mode = "idle"
      /\ modules = [i \in 0 .. capacity - 1 |-> << >>]
      /\ old = << >> /\ at = 0 /\ pending = None
  BY CapacityAssumption DEF TableInit
<1>2. << >> \in Chains BY DEF Chains
<1>3. TableTypeOK BY <1>1, <1>2 DEF TableTypeOK
<1>4. \A i \in 0 .. capacity - 1 : modules[i] = << >> /\ Len(modules[i]) = 0 /\ Elements(modules[i]) = {}
  BY <1>1 DEF Elements
<1>5. Placed BY <1>4 DEF Placed
<1>6. OneHome
  <2>1. OnePlace(modules) BY <1>1, <1>4 DEF OnePlace
  <2>2. QED BY <2>1, <1>1 DEF OneHome
<1>7. Stored = {}
  <2>1. All(capacity, modules) = {} BY <1>4 DEF All
  <2>2. QED BY <2>1, <1>1, <1>3, IdleLemma
<1>8. Counted BY <1>7, <1>1, FS_EmptySet DEF Counted
<1>9. Room BY <1>1 DEF Room
<1>10. MovedEmpty BY <1>1 DEF MovedEmpty
<1>11. QED BY <1>3, <1>5, <1>6, <1>8, <1>9, <1>10 DEF Inv

\* A module is put straight into the table.
LEMMA InvInsert ==
    ASSUME Inv, NEW n \in Names, Insert(n)
    PROVE  Inv' /\ n \notin Stored /\ Stored' = Stored \cup {n}
<1> USE DEF Inv
<1>1. /\ mode = "idle" /\ ~ Find(n) /\ ~ MustGrow(count) /\ AddFirst(n)
      /\ count' = count + 1 /\ capacity' = capacity /\ mode' = "idle"
      /\ old' = old /\ at' = at /\ pending' = pending
  BY DEF Insert
<1>2. n \notin All(capacity, modules) BY <1>1, NotFound
<1>3. /\ modules' \in [0 .. capacity - 1 -> Chains] /\ Placed'
      /\ All(capacity, modules') = All(capacity, modules) \cup {n}
      /\ OnePlace(modules) => OnePlace(modules')
  BY <1>1, <1>2, AddPlaced
<1>4. TableTypeOK' BY <1>1, <1>3 DEF TableTypeOK
<1>5. Stored = All(capacity, modules) BY <1>1, IdleLemma
<1>6. Stored' = All(capacity, modules') BY <1>1 DEF Stored, InTable, InOld, All, Elements
<1>7. Stored' = Stored \cup {n} /\ n \notin Stored BY <1>2, <1>3, <1>5, <1>6
<1>8. OneHome'
  <2>1. OnePlace(modules) BY DEF OneHome
  <2>2. OnePlace(modules)' BY <2>1, <1>3 DEF OnePlace
  <2>3. QED BY <2>2, <1>1 DEF OneHome
<1>9. Counted'
  <2>1. IsFiniteSet(Stored) /\ count = Cardinality(Stored) BY DEF Counted
  <2>2. IsFiniteSet(Stored \cup {n}) /\ Cardinality(Stored \cup {n}) = Cardinality(Stored) + 1
    BY <2>1, <1>7, FS_AddElement
  <2>3. QED BY <2>1, <2>2, <1>7, <1>1 DEF Counted
<1>10. Room'
  <2>1. count \in Nat /\ capacity \in Nat BY DEF TableTypeOK
  <2>2. count + 1 <= (capacity * 3) \div 4 BY <2>1, <1>1 DEF MustGrow
  <2>3. QED BY <2>2, <1>1 DEF Room
<1>11. MovedEmpty' BY <1>1 DEF MovedEmpty
<1>12. QED BY <1>3, <1>4, <1>7, <1>8, <1>9, <1>10, <1>11

\* The table is doubled and its chains are taken off.
LEMMA InvGrow ==
    ASSUME Inv, NEW n \in Names, Grow(n)
    PROVE  Inv' /\ Stored' = Stored
<1> USE DEF Inv
<1>1. /\ mode = "idle" /\ ~ Find(n) /\ capacity' = 2 * capacity
      /\ modules' = [i \in 0 .. 2 * capacity - 1 |-> << >>]
      /\ old' = modules /\ at' = 0 /\ pending' = n /\ mode' = "moving" /\ count' = count
  BY DEF Grow
<1>2. capacity \in Nat \ {0} /\ count \in Nat /\ modules \in [0 .. capacity - 1 -> Chains]
  BY DEF TableTypeOK
<1>3. TableTypeOK'
  <2>1. capacity' \in Nat \ {0} /\ capacity \in 1 .. capacity' /\ at' \in 0 .. capacity BY <1>1, <1>2
  <2>2. << >> \in Chains BY DEF Chains
  <2>3. modules' \in [0 .. capacity' - 1 -> Chains] BY <1>1, <2>2
  <2>4. \E c \in 1 .. capacity' :
           capacity' = 2 * c /\ old' \in [0 .. c - 1 -> Chains] /\ at' \in 0 .. c
    BY <2>1, <1>1, <1>2
  <2>5. QED BY <2>1, <2>3, <2>4, <1>1, <1>2 DEF TableTypeOK, Chains
<1>4. \A i \in 0 .. 2 * capacity - 1 :
         modules'[i] = << >> /\ Len(modules'[i]) = 0 /\ Elements(modules'[i]) = {}
  BY <1>1 DEF Elements
<1>5. All(2 * capacity, modules') = {} BY <1>4 DEF All
<1>6. InTable' = {} BY <1>1, <1>5 DEF InTable, All, Elements
<1>7. InOld' = All(capacity, modules)
  <2>1. OldCapacity' = capacity BY <1>1, <1>2 DEF OldCapacity
  <2>2. QED BY <2>1, <1>1 DEF InOld, All, Elements
<1>8. Stored' = Stored
  <2>1. Stored = All(capacity, modules) BY <1>1, IdleLemma
  <2>2. Stored' = InTable' \cup InOld' BY DEF Stored
  <2>3. QED BY <2>1, <2>2, <1>6, <1>7
<1>9. Placed'
  <2>1. \A i \in 0 .. capacity' - 1 : Elements(modules'[i]) = {} BY <1>1, <1>4
  <2>2. QED BY <2>1 DEF Placed, Elements
<1>10. OneHome'
  <2>1. OnePlace(modules)'
    <3>1. DOMAIN modules' = 0 .. 2 * capacity - 1 BY <1>1
    <3>2. QED BY <3>1, <1>4 DEF OnePlace
  <2>2. OnePlace(old)'
    <3>1. OnePlace(modules) BY DEF OneHome
    <3>2. QED BY <3>1, <1>1 DEF OnePlace
  <2>3. InTable' \cap InOld' = {} BY <1>6
  <2>4. n \notin Stored
    <3>1. n \notin All(capacity, modules) BY <1>1, NotFound
    <3>2. QED BY <3>1, <1>1, IdleLemma
  <2>5. pending' \notin Stored' BY <2>4, <1>1, <1>8
  <2>6. QED BY <2>1, <2>2, <2>3, <2>5 DEF OneHome
<1>11. Counted' BY <1>1, <1>8 DEF Counted
<1>12. Room'
  <2>1. count <= (capacity * 3) \div 4 BY <1>1 DEF Room
  <2>2. count + 1 <= ((2 * capacity) * 3) \div 4 BY <2>1, <1>2
  <2>3. QED BY <2>2, <1>1 DEF Room
<1>13. MovedEmpty' BY <1>1 DEF MovedEmpty
<1>14. QED BY <1>3, <1>8, <1>9, <1>10, <1>11, <1>12, <1>13

\* One module moves.
LEMMA InvMoveFirst ==
    ASSUME Inv, MoveFirst
    PROVE  Inv' /\ Stored' = Stored
<1> USE DEF Inv
<1> DEFINE h == Head(old[at])
<1>1. /\ mode = "moving" /\ at < OldCapacity /\ old[at] # << >> /\ AddFirst(h)
      /\ old' = [old EXCEPT ![at] = Tail(@)]
      /\ capacity' = capacity /\ count' = count /\ mode' = mode /\ at' = at /\ pending' = pending
  BY DEF MoveFirst, Moving
<1>2. /\ OldCapacity \in Nat \ {0} /\ capacity = 2 * OldCapacity
      /\ old \in [0 .. OldCapacity - 1 -> Chains] /\ at \in 0 .. OldCapacity - 1
      /\ Stored = All(capacity, modules) \cup All(OldCapacity, old)
      /\ InTable = All(capacity, modules) /\ InOld = All(OldCapacity, old)
      /\ pending \in Names
  BY <1>1, MovingLemma
<1> DEFINE new == [old EXCEPT ![at] = Tail(@)]
<1>3. OnePlace(modules) /\ OnePlace(old) /\ InTable \cap InOld = {} /\ pending \notin Stored
  BY <1>1 DEF OneHome
<1>4. /\ new \in [0 .. OldCapacity - 1 -> Chains] /\ h \in Names
      /\ All(OldCapacity, old) = All(OldCapacity, new) \cup {h}
      /\ \A i \in 0 .. OldCapacity - 1 : i # at => new[i] = old[i]
      /\ OnePlace(new) /\ h \notin All(OldCapacity, new)
  <2>1. OldCapacity \in Nat BY <1>2
  <2>2. old \in [0 .. OldCapacity - 1 -> Chains] /\ at \in 0 .. OldCapacity - 1 /\ old[at] # << >>
    BY <1>1, <1>2
  <2>3. OnePlace(old) BY <1>3
  <2> HIDE <1>1, <1>2, <1>3
  <2>4. PICK c, k, chains, tails, n :
           c = OldCapacity /\ k = at /\ chains = old /\ tails = new /\ n = h
    OBVIOUS
  <2>5. TakesFirst(chains, k, tails, n)
    BY <2>2, <2>4 DEF TakesFirst
  <2> HIDE DEF new, h
  <2>6. c \in Nat /\ k \in 0 .. c - 1 /\ chains \in [0 .. c - 1 -> Chains]
    BY <2>1, <2>2, <2>4
  <2>7. OnePlace(chains)
    BY <2>3, <2>4
  <2>8. /\ tails \in [0 .. c - 1 -> Chains] /\ n \in Names
        /\ All(c, chains) = All(c, tails) \cup {n}
        /\ \A i \in 0 .. c - 1 : i # k => tails[i] = chains[i]
        /\ OnePlace(tails) /\ n \notin All(c, tails)
    BY <2>5, <2>6, <2>7, RemoveLemma
  <2>9. QED BY <2>4, <2>8
<1>5. old' = new BY <1>1
<1> HIDE DEF h, new
<1>6. h \notin All(capacity, modules)
  <2>1. h \in All(OldCapacity, old) BY <1>4
  <2>2. QED BY <2>1, <1>2, <1>3
<1>7. /\ modules' \in [0 .. capacity - 1 -> Chains] /\ Placed'
      /\ All(capacity, modules') = All(capacity, modules) \cup {h}
      /\ OnePlace(modules')
  BY <1>1, <1>3, <1>4, <1>6, AddPlaced
<1>8. TableTypeOK'
  <2>1. capacity \in Nat \ {0} /\ count \in Nat BY DEF TableTypeOK
  <2>2. OldCapacity \in 1 .. capacity /\ at \in 0 .. OldCapacity BY <2>1, <1>2
  <2>3. \E c \in 1 .. capacity : capacity = 2 * c /\ old' \in [0 .. c - 1 -> Chains] /\ at \in 0 .. c
    BY <2>2, <1>2, <1>4, <1>5
  <2>4. QED BY <2>1, <2>3, <1>1, <1>2, <1>7 DEF TableTypeOK, Chains
<1>9. InTable' = All(capacity, modules') BY <1>1 DEF InTable, All, Elements
<1>10. InOld' = All(OldCapacity, new)
  <2>1. OldCapacity' = OldCapacity BY <1>1 DEF OldCapacity
  <2>2. mode' # "idle" BY <1>1
  <2>3. InOld' = UNION {Elements(old'[i]) : i \in 0 .. OldCapacity - 1}
    BY <2>1, <2>2 DEF InOld, Elements
  <2>4. QED BY <2>3, <1>5 DEF All
<1>11. Stored' = Stored
  <2>1. Stored' = InTable' \cup InOld' BY DEF Stored
  <2>2. QED BY <2>1, <1>2, <1>4, <1>7, <1>9, <1>10
<1>12. OneHome'
  <2>1. OnePlace(modules)' BY <1>7 DEF OnePlace
  <2>2. OnePlace(old)' BY <1>4, <1>5 DEF OnePlace
  <2>3. InTable' \cap InOld' = {} BY <1>2, <1>3, <1>4, <1>7, <1>9, <1>10
  <2>4. pending' \notin Stored' BY <1>1, <1>3, <1>11
  <2>5. QED BY <2>1, <2>2, <2>3, <2>4 DEF OneHome
<1>13. Counted' BY <1>1, <1>11 DEF Counted
<1>14. Room' BY <1>1 DEF Room
<1>15. MovedEmpty'
  <2>1. \A i \in 0 .. at - 1 : old[i] = << >> BY <1>1 DEF MovedEmpty
  <2>2. \A i \in 0 .. at - 1 : i \in 0 .. OldCapacity - 1 /\ i # at BY <1>2
  <2>3. \A i \in 0 .. at - 1 : new[i] = << >> BY <2>1, <2>2, <1>4
  <2>4. QED BY <2>3, <1>1, <1>5 DEF MovedEmpty
<1>16. QED BY <1>7, <1>8, <1>11, <1>12, <1>13, <1>14, <1>15

\* The next chain is taken up.
LEMMA InvNextChain ==
    ASSUME Inv, NextChain
    PROVE  Inv' /\ Stored' = Stored
<1> USE DEF Inv
<1>1. /\ mode = "moving" /\ at < OldCapacity /\ old[at] = << >> /\ at' = at + 1
      /\ capacity' = capacity /\ modules' = modules /\ count' = count /\ mode' = mode
      /\ old' = old /\ pending' = pending
  BY DEF NextChain, Moving
<1>2. /\ OldCapacity \in Nat \ {0} /\ capacity = 2 * OldCapacity
      /\ old \in [0 .. OldCapacity - 1 -> Chains] /\ at \in 0 .. OldCapacity - 1
      /\ pending \in Names
  BY <1>1, MovingLemma
<1>3. TableTypeOK'
  <2>1. capacity \in Nat \ {0} /\ count \in Nat /\ modules \in [0 .. capacity - 1 -> Chains]
    BY DEF TableTypeOK
  <2>2. OldCapacity \in 1 .. capacity /\ at' \in 0 .. OldCapacity BY <2>1, <1>1, <1>2
  <2>3. \E c \in 1 .. capacity : capacity = 2 * c /\ old \in [0 .. c - 1 -> Chains] /\ at' \in 0 .. c
    BY <2>2, <1>2
  <2>4. QED BY <2>1, <2>3, <1>1, <1>2 DEF TableTypeOK, Chains
<1>4. InTable' = InTable /\ InOld' = InOld BY <1>1 DEF InTable, InOld, OldCapacity, Elements
<1>5. Stored' = Stored BY <1>4 DEF Stored
<1>6. OneHome' BY <1>1, <1>4, <1>5 DEF OneHome, OnePlace
<1>7. Placed' BY <1>1 DEF Placed, Index, Elements
<1>8. Counted' BY <1>1, <1>5 DEF Counted
<1>9. Room' BY <1>1 DEF Room
<1>10. MovedEmpty'
  <2>1. \A i \in 0 .. at' - 1 : i = at \/ i \in 0 .. at - 1 BY <1>1, <1>2
  <2>2. QED BY <2>1, <1>1 DEF MovedEmpty
<1>11. QED BY <1>3, <1>5, <1>6, <1>7, <1>8, <1>9, <1>10

\* The new module comes on top.
LEMMA InvGrown ==
    ASSUME Inv, Grown
    PROVE  Inv' /\ pending \in Names /\ pending \notin Stored /\ Stored' = Stored \cup {pending}
<1> USE DEF Inv
<1>1. /\ mode = "moving" /\ at = OldCapacity /\ AddFirst(pending) /\ count' = count + 1
      /\ mode' = "idle" /\ old' = << >> /\ at' = 0 /\ pending' = None /\ capacity' = capacity
  BY DEF Grown
<1>2. /\ pending \in Names
      /\ Stored = All(capacity, modules) \cup All(OldCapacity, old)
      /\ InTable = All(capacity, modules)
  BY <1>1, MovingLemma
<1>3. OnePlace(modules) /\ pending \notin Stored BY <1>1 DEF OneHome
<1>4. /\ modules' \in [0 .. capacity - 1 -> Chains] /\ Placed'
      /\ All(capacity, modules') = All(capacity, modules) \cup {pending}
      /\ OnePlace(modules')
  BY <1>1, <1>2, <1>3, AddPlaced
<1>5. All(OldCapacity, old) = {}
  <2>1. \A i \in 0 .. OldCapacity - 1 : Elements(old[i]) = {}
    BY <1>1 DEF MovedEmpty, Elements
  <2>2. QED BY <2>1 DEF All
<1>6. TableTypeOK'
  <2>1. capacity \in Nat \ {0} /\ count \in Nat BY DEF TableTypeOK
  <2>2. QED BY <2>1, <1>1, <1>4 DEF TableTypeOK, Chains
<1>7. Stored' = All(capacity, modules') BY <1>1 DEF Stored, InTable, InOld, All, Elements
<1>8. Stored' = Stored \cup {pending} BY <1>2, <1>4, <1>5, <1>7
<1>9. OneHome'
  <2>1. OnePlace(modules)' BY <1>4 DEF OnePlace
  <2>2. QED BY <2>1, <1>1 DEF OneHome
<1>10. Counted'
  <2>1. IsFiniteSet(Stored) /\ count = Cardinality(Stored) BY DEF Counted
  <2>2. IsFiniteSet(Stored \cup {pending}) /\ Cardinality(Stored \cup {pending}) = Cardinality(Stored) + 1
    BY <2>1, <1>3, FS_AddElement
  <2>3. QED BY <2>1, <2>2, <1>8, <1>1 DEF Counted
<1>11. Room' BY <1>1 DEF Room
<1>12. MovedEmpty' BY <1>1 DEF MovedEmpty
<1>13. QED BY <1>2, <1>3, <1>4, <1>6, <1>8, <1>9, <1>10, <1>11, <1>12

LEMMA InvStutter == Inv /\ UNCHANGED tableVars => Inv' /\ Stored' = Stored
<1> SUFFICES ASSUME Inv, UNCHANGED tableVars PROVE Inv' /\ Stored' = Stored OBVIOUS
<1>1. /\ capacity' = capacity /\ modules' = modules /\ count' = count /\ mode' = mode
      /\ old' = old /\ at' = at /\ pending' = pending
  BY DEF tableVars
<1>2. Stored' = Stored /\ InTable' = InTable /\ InOld' = InOld
  BY <1>1 DEF Stored, InTable, InOld, OldCapacity, Elements
<1>3. TableTypeOK' BY <1>1 DEF Inv, TableTypeOK, Chains
<1>4. Placed' BY <1>1 DEF Inv, Placed, Index, Elements
<1>5. OneHome' BY <1>1, <1>2 DEF Inv, OneHome, OnePlace
<1>6. MovedEmpty' /\ Room' BY <1>1 DEF Inv, MovedEmpty, Room
<1>7. Counted' BY <1>1, <1>2 DEF Inv, Counted
<1>8. QED BY <1>2, <1>3, <1>4, <1>5, <1>6, <1>7 DEF Inv

LEMMA InvNext == Inv /\ [TableNext]_tableVars => Inv'
<1> SUFFICES ASSUME Inv, [TableNext]_tableVars PROVE Inv' OBVIOUS
<1>1. ASSUME NEW n \in Names, Insert(n) PROVE Inv' BY <1>1, InvInsert
<1>2. ASSUME NEW n \in Names, Grow(n) PROVE Inv' BY <1>2, InvGrow
<1>3. CASE MoveFirst BY <1>3, InvMoveFirst
<1>4. CASE NextChain BY <1>4, InvNextChain
<1>5. CASE Grown BY <1>5, InvGrown
<1>6. CASE UNCHANGED tableVars BY <1>6, InvStutter
<1>7. QED BY <1>1, <1>2, <1>3, <1>4, <1>5, <1>6 DEF TableNext

LEMMA InvCorrect == TableSpec => []Inv
BY InvInit, InvNext, PTL DEF TableSpec
------------------------------------------------------------------------------
(* The table: theorems *)

\* The variables of the table keep their types, however often it grows.
THEOREM TableTypeCorrect == TableSpec => []TableTypeOK
<1>1. Inv => TableTypeOK BY DEF Inv
<1>2. QED BY <1>1, InvCorrect, PTL

\* Every module of the table is found under its name, whatever the hashes.
THEOREM FindableCorrect == TableSpec => []Findable
<1>1. Inv => Findable
  <2> SUFFICES ASSUME Inv, NEW n \in InTable PROVE Find(n) BY DEF Findable
  <2>1. PICK i \in 0 .. capacity - 1 : n \in Elements(modules[i]) BY DEF InTable
  <2>2. Index(n) = i BY <2>1 DEF Inv, Placed
  <2>3. QED BY <2>1, <2>2 DEF Find
<1>2. QED BY <1>1, InvCorrect, PTL

\* No module is in the table twice, nor both in it and still to be moved.
THEOREM OneHomeCorrect == TableSpec => []OneHome
<1>1. Inv => OneHome BY DEF Inv
<1>2. QED BY <1>1, InvCorrect, PTL

\* The count is right, and one doubling always makes room enough.
THEOREM LoadFactorCorrect == TableSpec => []LoadFactor
<1>1. Inv => LoadFactor BY DEF Inv, Counted, Room, LoadFactor
<1>2. QED BY <1>1, InvCorrect, PTL

\* The table implements a set to which modules are only added, one at a time:
\* each step of it adds one, or leaves the set as it is.
THEOREM ModuleTableImplementsModuleSet == TableSpec => ImplementsModuleSet
<1>1. TableInit => Set!Init
  <2> SUFFICES ASSUME TableInit PROVE Stored = {} BY DEF Set!Init
  <2>1. TableTypeOK /\ mode = "idle" BY InvInit DEF Inv, TableInit
  <2>2. \A i \in 0 .. capacity - 1 : Elements(modules[i]) = {} BY DEF TableInit, Elements
  <2>3. All(capacity, modules) = {} BY <2>2 DEF All
  <2>4. QED BY <2>1, <2>3, IdleLemma
<1>2. Inv /\ [TableNext]_tableVars => [Set!Next]_Stored
  <2> SUFFICES ASSUME Inv, [TableNext]_tableVars PROVE [Set!Next]_Stored OBVIOUS
  <2>1. ASSUME NEW n \in Names, Insert(n) PROVE Set!Next
    <3>1. n \notin Stored /\ Stored' = Stored \cup {n} BY <2>1, InvInsert
    <3>2. QED BY <3>1 DEF Set!Next, Set!Add
  <2>2. ASSUME NEW n \in Names, Grow(n) PROVE Stored' = Stored BY <2>2, InvGrow
  <2>3. CASE MoveFirst BY <2>3, InvMoveFirst
  <2>4. CASE NextChain BY <2>4, InvNextChain
  <2>5. ASSUME Grown PROVE Set!Next
    <3>1. pending \in Names /\ pending \notin Stored /\ Stored' = Stored \cup {pending}
      BY <2>5, InvGrown
    <3>2. QED BY <3>1 DEF Set!Next, Set!Add
  <2>6. CASE UNCHANGED tableVars BY <2>6, InvStutter
  <2>7. QED BY <2>1, <2>2, <2>3, <2>4, <2>5, <2>6 DEF TableNext
<1>3. QED BY <1>1, <1>2, InvCorrect, PTL DEF TableSpec, ImplementsModuleSet, Set!Spec
------------------------------------------------------------------------------
(* The loader on the table *)

\* Whatever the manager does is a step of the loader, or none.
LEMMA ManagerSteps ==
    ASSUME [ManagerNext]_managerVars
    PROVE  [Next]_vars /\ [TableNext]_tableVars
<1>1. UNCHANGED loaderVars <=> UNCHANGED vars
  BY DEF vars, loaderVars
<1>2. UNCHANGED managerVars => UNCHANGED loaderVars /\ UNCHANGED tableVars
  BY DEF managerVars
<1>3. ASSUME NEW m \in Modules, LoadInto(m) PROVE Next /\ TableNext
  BY <1>3, NamesAssumption DEF LoadInto, TableNext
<1>4. ASSUME NEW m \in Modules, StartResize(m) PROVE UNCHANGED loaderVars /\ TableNext
  BY <1>4, NamesAssumption DEF StartResize, TableNext
<1>5. Resize => UNCHANGED loaderVars /\ TableNext
  BY DEF Resize, TableNext
<1>6. LoadResized => Next /\ TableNext
  BY DEF LoadResized, TableNext
<1>7. Proceed => Next /\ UNCHANGED tableVars
  BY DEF Proceed
<1> QED  BY <1>1, <1>2, <1>3, <1>4, <1>5, <1>6, <1>7 DEF ManagerNext

\* On the table, the loader does what ModuleLoader says ...
THEOREM ManagerImplementsLoader == ManagerSpec => Spec
  BY ManagerSteps, PTL DEF ManagerSpec, ManagerInit, Spec

\* ... and the table is used as ModuleTable says.
THEOREM ManagerImplementsTable == ManagerSpec => TableSpec
  BY ManagerSteps, PTL DEF ManagerSpec, ManagerInit, TableSpec

\* The table stores what the loader has loaded; while it is resized, the loader
\* is about to load the module that waits.
Joined ==
    /\ loaded = Stored
    /\ mode = "moving" => Parsed(pending)

\* A module that was read and parsed is what the loader's next step loads.
LEMMA ParsedIsLoaded ==
    ASSUME TypeOK, NEW m, Parsed(m), Next
    PROVE  loaded' = loaded \cup {m}
<1>1. pc = "loading" /\ m = Used(NextUse) /\ Len(stack) < StackLimit /\ ~ AlreadyLoaded(m) /\ Failure(m) = {}
  BY DEF Parsed, Following
<1>2. CASE stack = << >>
  <2>1. index <= Len(program.entry) /\ NextUse = program.entry[index]
    BY <1>2 DEF Parsed, Following, NextUse
  <2>2. index \in Int /\ Len(program.entry) \in Int
    BY ProgramFacts DEF TypeOK
  <2>3. EnqueueEntryUse
    BY <1>2, <2>1, <2>2 DEF Next, EnqueueDependency, Return, Finish
  <2>4. Enqueue(program.entry[index], << >>)
    BY <2>3 DEF EnqueueEntryUse
  <2> QED  BY <1>1, <1>2, <2>1, <2>4 DEF Enqueue
<1>3. CASE stack # << >>
  <2>1. TopCall.next <= Len(Uses(TopCall.module)) /\ NextUse = Uses(TopCall.module)[TopCall.next]
    BY <1>3 DEF Parsed, Following, NextUse
  <2>2. TopCall.next \in Int /\ Len(Uses(TopCall.module)) \in Int
    BY <1>3, TopFacts DEF Call
  <2>3. EnqueueDependency
    BY <1>3, <2>1, <2>2 DEF Next, EnqueueEntryUse, Return, Finish
  <2> DEFINE callers == [stack EXCEPT ![Len(stack)].next = @ + 1]
  <2>4. Enqueue(Uses(TopCall.module)[TopCall.next], callers) /\ Len(callers) = Len(stack)
    BY <1>3, <2>3, TopFacts DEF EnqueueDependency
  <2> HIDE DEF callers
  <2>5. Len(callers) < StackLimit /\ Len(callers) # StackLimit
    BY <1>1, <1>3, <2>4, TopFacts, StackLimitAssumption
  <2> QED  BY <1>1, <2>1, <2>4, <2>5 DEF Enqueue
<1> QED  BY <1>2, <1>3

LEMMA JoinedStep ==
    ASSUME TypeOK, Inv, Joined, [ManagerNext]_managerVars
    PROVE  Joined'
<1>1. ASSUME UNCHANGED loaderVars, NEW m, Parsed(m) PROVE Parsed(m)'
  <2>1. program' = program /\ loaded' = loaded /\ stack' = stack /\ index' = index /\ pc' = pc
    BY <1>1 DEF loaderVars
  <2> QED  BY <1>1, <2>1 DEF Parsed, Following, NextUse, TopCall, Uses, Used, AlreadyLoaded, Failure,
           Circular, HasCircularDependency, ClosedInTable
<1>2. CASE Proceed
  BY <1>2, InvStutter DEF Proceed, Joined, tableVars
<1>3. ASSUME NEW m \in Modules, LoadInto(m) PROVE Joined'
  <2>1. m \in Names /\ Insert(m) /\ loaded' = loaded \cup {m}
    BY <1>3, ParsedIsLoaded, NamesAssumption DEF LoadInto
  <2> QED  BY <2>1, InvInsert DEF Joined, Insert
<1>4. ASSUME NEW m \in Modules, StartResize(m) PROVE Joined'
  <2>1. m \in Names /\ Grow(m) /\ loaded' = loaded /\ pending' = m
    BY <1>4, NamesAssumption DEF StartResize, loaderVars, Grow
  <2>2. Parsed(m)'
    BY <1>1, <1>4 DEF StartResize
  <2>3. Stored' = Stored
    BY <2>1, InvGrow
  <2>4. Parsed(pending)'
    BY <2>1, <2>2 DEF Parsed, AlreadyLoaded, Failure, Circular
  <2> QED  BY <2>1, <2>3, <2>4 DEF Joined
<1>5. CASE Resize
  <2>1. Stored' = Stored /\ pending' = pending /\ mode' = mode /\ UNCHANGED loaderVars
    BY <1>5, InvMoveFirst, InvNextChain DEF Resize, MoveFirst, NextChain
  <2> QED  BY <1>1, <2>1 DEF Joined, loaderVars
<1>6. CASE LoadResized
  <2>1. mode = "moving" /\ mode' = "idle" /\ Stored' = Stored \cup {pending}
    BY <1>6, InvGrown DEF LoadResized, Grown
  <2>2. loaded' = loaded \cup {pending}
    BY <1>6, <2>1, ParsedIsLoaded DEF LoadResized, Joined
  <2> QED  BY <2>1, <2>2 DEF Joined
<1>7. CASE UNCHANGED managerVars
  <2>1. UNCHANGED loaderVars /\ UNCHANGED tableVars
    BY <1>7 DEF managerVars
  <2> QED  BY <1>1, <2>1, InvStutter DEF Joined, loaderVars, tableVars
<1> QED  BY <1>2, <1>3, <1>4, <1>5, <1>6, <1>7 DEF ManagerNext

\* Resized or not, the table stores the modules loaded and no other.
THEOREM TableStoresLoaded == ManagerSpec => []Joined
<1>1. ManagerInit => Joined
  <2> SUFFICES ASSUME ManagerInit PROVE Joined
    OBVIOUS
  <2>1. TableTypeOK /\ mode = "idle" /\ loaded = {}
    BY InvInit DEF ManagerInit, TableInit, Init, Inv
  <2>2. \A i \in 0 .. capacity - 1 : Elements(modules[i]) = {}
    BY DEF ManagerInit, TableInit, Elements
  <2>3. Stored = {}
    BY <2>1, <2>2, IdleLemma DEF All
  <2> QED  BY <2>1, <2>3 DEF Joined
<1> QED  BY <1>1, JoinedStep, LoaderTypeCorrect, InvCorrect, ManagerImplementsLoader, ManagerImplementsTable,
            PTL DEF ManagerSpec

\* However often the table was resized, it answers for what was loaded: no module is
\* read a second time, and none is taken for loaded that is not.
THEOREM TableAnswers == ManagerSpec => []TableAnswersLoader
<1>1. Inv /\ Joined => TableAnswersLoader
  <2> SUFFICES ASSUME Inv, Joined, mode = "idle", NEW m \in Modules
               PROVE  Find(m) <=> m \in loaded
    BY DEF TableAnswersLoader, AlreadyLoaded
  <2>1. TableTypeOK /\ Placed /\ m \in Names
    BY NamesAssumption DEF Inv
  <2>2. loaded = All(capacity, modules)
    BY <2>1, IdleLemma DEF Joined
  <2>3. Find(m) => m \in All(capacity, modules)
    BY <2>1, IndexLemma DEF Find, All
  <2> QED  BY <2>1, <2>2, <2>3, NotFound
<1> QED  BY <1>1, TableStoresLoaded, InvCorrect, ManagerImplementsTable, PTL

\* On the table, analysis starts only when all that is used is loaded, ...
THEOREM ManagerLoadsAllNeeded == ManagerSpec => []LoadsAllNeeded
  BY LoadsAllNeededCorrect, ManagerImplementsLoader, PTL

\* ... a program is refused only for a module that cannot be loaded, ...
THEOREM ManagerFailsForACause == ManagerSpec => []FailsForACause
  BY FailsForACauseCorrect, ManagerImplementsLoader, PTL

\* ... and never with a cycle of imports.
THEOREM ManagerLoadsAcyclic == ManagerSpec => []LoadedIsAcyclic
  BY LoadedIsAcyclicCorrect, ManagerImplementsLoader, PTL

\* No module is in two places of the table while the loader uses it.
THEOREM ManagerOneHome == ManagerSpec => []OneHome
  BY OneHomeCorrect, ManagerImplementsTable, PTL

\* The loader sees a set that each load adds one module to.
THEOREM ManagerImplementsModuleSet == ManagerSpec => ImplementsModuleSet
  BY ModuleTableImplementsModuleSet, ManagerImplementsTable, PTL
==============================================================================
