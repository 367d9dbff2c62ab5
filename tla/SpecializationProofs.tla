------------------------ MODULE SpecializationProofs -------------------------
(* Theorems about Specialization for any generics, types, buckets and        *)
(* programs, and any room on the stack.  The invariants say which types the  *)
(* program can name and that one without arrays is one object; what each     *)
(* instantiation under way has answered; and that an instantiation which     *)
(* asks for itself on the way never ends.                                    *)
EXTENDS Specialization, FiniteSetTheorems, WellFoundedInduction, TLAPS
\* A constructor, or a generic, applied to a type.
Apply(x, shape) == <<x>> \o shape

\* A type that the program can name: declared, of an instance in the cache, or
\* built from one of these.
Live(h, t) ==
    /\ t \in 1 .. Len(h)
    /\ h[t].base # 0 \/ t <= Len(Declared) \/ \E e \in 1 .. Len(cache) : cache[e].type = t

\* How the types are built.
IsDeclared(h, t) == t <= Len(Declared) /\ h[t].shape = <<Declared[t]>> /\ h[t].base = 0
IsInstance(h, t, g, a) ==
    /\ t \in Len(Declared) + 1 .. Len(h) /\ a \in 1 .. t - 1
    /\ h[t].base = 0 /\ h[t].shape = Apply(g, h[a].shape)
IsWrapped(h, t) ==
    /\ t > Len(Declared) /\ h[t].base \in 1 .. t - 1 /\ Live(h, h[t].base)
    /\ \E w \in Arrays \cup {Ptr} : h[t].shape = Apply(w, h[h[t].base].shape)
Built(h) ==
    /\ Len(Declared) <= Len(h)
    /\ \A t \in 1 .. Len(h) :
         \/ IsDeclared(h, t) \/ IsWrapped(h, t)
         \/ \E g \in TypeGenerics : \E a \in 1 .. t - 1 : IsInstance(h, t, g, a)

\* A type without arrays in it is one object.
Plain(shape) == \A k \in 1 .. Len(shape) : shape[k] \notin Arrays
Unique(h) ==
    \A t, u \in 1 .. Len(h) :
        Live(h, t) /\ Live(h, u) /\ h[t].shape = h[u].shape /\ Plain(h[t].shape) => t = u

\* The types that an instance, made or under way, holds on to.
Holds(h, x) ==
    /\ Live(h, x.arg)
    /\ IF x.generic \in TypeGenerics THEN IsInstance(h, x.type, x.generic, x.arg) ELSE x.type = 0
Binds(h, x) == \A n \in Names : x.bindings[n] # 0 => Live(h, x.bindings[n])
Reaches(h, f) ==
    /\ Binds(h, f)
    /\ f.last # 0 => Live(h, f.last)
    /\ f.generic # Root => Holds(h, f)
Types ==
    /\ program \in Programs
    /\ Built(heap)
    /\ \A i \in 1 .. Len(stack) : Reaches(heap, stack[i])
    /\ \A e \in 1 .. Len(cache) : Holds(heap, cache[e]) /\ Binds(heap, cache[e])

\* The instantiations under way: each is what the one below it asks for.
Pending(f) == f.next <= Len(List(f))
Stacked ==
    /\ Len(stack) > 0
    /\ \A i \in 1 .. Len(stack) : /\ stack[i].generic = Root <=> i = 1
                                  /\ stack[i].generic \in TypeGenerics => stack[i].stage = "signature"
                                  /\ stack[i].next <= Len(List(stack[i])) + 1
    /\ \A i \in 1 .. Len(stack) - 1 :
         /\ Pending(stack[i])
         /\ LET r == List(stack[i])[stack[i].next]
            IN  r.what # "name" /\ r.generic = stack[i + 1].generic
    /\ \A i, j \in 1 .. Len(stack) :
         i < j /\ stack[i].stage = "signature" => stack[j].generic \in TypeGenerics
    /\ failing => Pending(Top)

\* The instances a signature asks for were made before, as its generics tell.
Ordered ==
    /\ \A k \in 1 .. Len(cache) :
         LET list == program.signature[cache[k].generic]
         IN  \A r \in 1 .. Len(list) :
                list[r].what # "name" => \E e \in 1 .. k - 1 : cache[e].generic = list[r].generic
    /\ \A i \in 2 .. Len(stack) :
         LET list == List(stack[i])
         IN  stack[i].stage = "signature" =>
                \A r \in 1 .. stack[i].next - 1 :
                    list[r].what # "name" =>
                        \E e \in 1 .. Len(cache) : cache[e].generic = list[r].generic

SameInstance(x, y) == x.generic = y.generic /\ x.arg = y.arg
Keys ==
    /\ Unique(heap)
    /\ \A j, k \in 1 .. Len(cache) : SameInstance(cache[j], cache[k]) => j = k
    /\ \A i \in 2 .. Len(stack) : stack[i].stage = "signature" =>
         \A k \in 1 .. Len(cache) : ~ SameInstance(cache[k], stack[i])

Shape(t) == heap[t].shape
Answer(list, bindings, k) ==
    list[k].what # "name" => Cached(list[k].generic, Asked(list, Meaning(bindings))[k])
Earlier(list, k) == {j \in 1 .. k - 1 : list[j].what = "type"}
Faithful(f) ==
    LET list == List(f)
        asked == Asked(list, Meaning(f.bindings))
    IN  /\ \A k \in 1 .. f.next - 1 : Answer(list, f.bindings, k)
        /\ Earlier(list, f.next) # {} =>
             /\ f.last # 0
             /\ Mangled(Shape(f.last)) =
                  Mangled(Apply(list[LastType(list, f.next)].generic, asked[LastType(list, f.next)]))
AskedNow(f) == Asked(List(f), Meaning(f.bindings))[f.next]
Requests(f, g) == Mangled(Shape(g.arg)) = Mangled(AskedNow(f))
InBody(f) ==
    f.stage = "body" =>
        IF f.generic = Root THEN Answers(program.signature[Root], NoBindings)
        ELSE \E e \in 1 .. Len(cache) : SameInstance(cache[e], f)
Waits ==
    /\ ~ failing
    /\ \A i \in 1 .. Len(stack) : stack[i].ok /\ Faithful(stack[i]) /\ InBody(stack[i])
    /\ \A i \in 1 .. Len(stack) - 1 : Requests(stack[i], stack[i + 1])
    /\ stack[1].bindings = NoBindings

\* The body of an instance is answered, or is being analyzed.
Underway(x, f) == f.stage = "body" /\ f.generic = x.generic /\ f.bindings = x.bindings
Complete ==
    \A e \in 1 .. Len(cache) :
        /\ ~ cache[e].freed
        /\ Answers(program.signature[cache[e].generic], cache[e].bindings)
        /\ \/ Answers(program.body[cache[e].generic], cache[e].bindings)
           \/ \E i \in 2 .. Len(stack) : Underway(cache[e], stack[i])
Sound == ~ errors => Waits /\ Complete

\* Every instance the program asks for was made.
Closed ==
    /\ Answers(program.signature[Root], NoBindings) /\ Answers(program.body[Root], NoBindings)
    /\ \A k \in 1 .. Len(cache) :
         /\ Answers(program.signature[cache[k].generic], cache[k].bindings)
         /\ Answers(program.body[cache[k].generic], cache[k].bindings)

\* Code generation: each function it has come to has the one body under its name.
Bodies ==
    /\ visited \subseteq Functions /\ emitted \subseteq visited
    /\ \A i, j \in emitted : LinkName(i) = LinkName(j) => i = j
    /\ \A k \in visited : \E j \in emitted : LinkName(j) = LinkName(k)
Generated ==
    /\ pc \notin {"generating", "done"} => visited = {} /\ emitted = {}
    /\ Bodies
    /\ Accepted => ~ errors /\ Closed
    /\ pc = "done" => Functions \subseteq visited
------------------------------------------------------------------------------
(* Numbers and sequences *)

\* A set of natural numbers that has an element has a least one.
LEMMA LeastNumber ==
    ASSUME NEW T \in SUBSET Nat, T # {}
    PROVE  \E n \in T : \A m \in T : n <= m
<1> DEFINE Below(n) == 0 .. n
           B == {Below(n) : n \in T}
           R == StrictSubsetOrdering(Nat)
           F == FiniteSubsetsOf(Nat)
<1>1. ASSUME NEW n \in T PROVE Below(n) \in F
  <2>1. IsFiniteSet(0 .. n) /\ 0 .. n \in SUBSET Nat
    BY FS_Interval
  <2> QED  BY <2>1 DEF FiniteSubsetsOf
<1>2. IsWellFoundedOn(R, F)
  BY FS_StrictSubsetOrderingWellFounded
<1>3. B \subseteq F /\ B # {}
  BY <1>1
<1>4. \E x \in B : \A y \in B : ~ (<<y, x>> \in R)
  <2> HIDE DEF B, R, F
  <2> QED  BY <1>2, <1>3, WFMin
<1>5. PICK n \in T : \A m \in T : ~ (<<Below(m), Below(n)>> \in R)
  BY <1>4
<1>6. ASSUME NEW m \in T PROVE n <= m
  <2> SUFFICES ASSUME m < n PROVE FALSE
    OBVIOUS
  <2>1. Below(m) \subseteq Below(n) /\ Below(m) # Below(n) /\ Below(m) \in SUBSET Nat /\ Below(n) \in SUBSET Nat
    <3>1. n \in Below(n) /\ n \notin Below(m)
      OBVIOUS
    <3> QED  BY <3>1
  <2>2. <<Below(m), Below(n)>> \in (SUBSET Nat) \X (SUBSET Nat)
    BY <2>1
  <2>3. <<Below(m), Below(n)>> \in R
    BY <2>1, <2>2 DEF StrictSubsetOrdering
  <2> QED  BY <1>5, <2>3
<1> QED  BY <1>5, <1>6

\* A set of numbers up to n that has an element has a greatest one.
LEMMA GreatestNumber ==
    ASSUME NEW n \in Nat, NEW T \in SUBSET (1 .. n), T # {}
    PROVE  Max(T) \in T /\ \A k \in T : k <= Max(T)
<1> DEFINE U == {m \in Nat : \A k \in T : k <= m}
<1>1. U \in SUBSET Nat /\ n \in U
  OBVIOUS
<1>2. PICK m \in U : \A k \in U : m <= k
  BY <1>1, LeastNumber
<1>3. \E k \in T : k >= m
  <2> SUFFICES ASSUME \A k \in T : k < m PROVE FALSE
    BY <1>1, <1>2
  <2>1. m # 0 /\ m \in Nat
    <3>1. PICK k \in T : k < m
      OBVIOUS
    <3>2. m \in Nat /\ k \in Nat
      BY <1>1, <1>2
    <3> QED  BY <3>1, <3>2
  <2>2. m - 1 \in U
    <3>1. ASSUME NEW k \in T PROVE k <= m - 1
      <4>1. k \in Nat /\ k < m
        OBVIOUS
      <4> QED  BY <2>1, <4>1
    <3> QED  BY <2>1, <3>1
  <2> QED  BY <1>2, <2>1, <2>2
<1>4. \E k \in T : \A j \in T : k >= j
  BY <1>2, <1>3
<1> QED  BY <1>4 DEF Max

\* A constructor applied to a type.
LEMMA ApplyFacts ==
    ASSUME NEW x \in Tokens, NEW s \in Seq(Tokens)
    PROVE  /\ Apply(x, s) \in Seq(Tokens) /\ Len(s) \in Nat
           /\ Len(Apply(x, s)) = Len(s) + 1 /\ Apply(x, s)[1] = x
           /\ \A k \in 1 .. Len(s) : Apply(x, s)[k + 1] = s[k]
<1>1. <<x>> \in Seq(Tokens) /\ Len(<<x>>) = 1 /\ <<x>>[1] = x
  OBVIOUS
<1> QED  BY <1>1 DEF Apply

LEMMA ApplyInjective ==
    ASSUME NEW x \in Tokens, NEW y \in Tokens, NEW s \in Seq(Tokens), NEW t \in Seq(Tokens),
           Apply(x, s) = Apply(y, t)
    PROVE  x = y /\ s = t
<1>1. /\ Len(s) \in Nat /\ Len(Apply(x, s)) = Len(s) + 1 /\ Apply(x, s)[1] = x
      /\ \A k \in 1 .. Len(s) : Apply(x, s)[k + 1] = s[k]
  BY ApplyFacts, Zenon
<1>2. /\ Len(t) \in Nat /\ Len(Apply(y, t)) = Len(t) + 1 /\ Apply(y, t)[1] = y
      /\ \A k \in 1 .. Len(t) : Apply(y, t)[k + 1] = t[k]
  BY ApplyFacts, Zenon
<1>3. x = y /\ Len(s) = Len(t)
  BY <1>1, <1>2
<1>4. \A k \in 1 .. Len(s) : s[k] = t[k]
  BY <1>1, <1>2, <1>3
<1> QED  BY <1>1, <1>3, <1>4

\* What is built of a type without arrays by a constructor that is none has
\* none, and conversely.
LEMMA PlainApply ==
    ASSUME NEW x \in Tokens, NEW s \in Seq(Tokens)
    PROVE  Plain(Apply(x, s)) <=> x \notin Arrays /\ Plain(s)
<1>1. /\ Len(Apply(x, s)) = Len(s) + 1 /\ Len(s) \in Nat /\ Apply(x, s)[1] = x
      /\ \A k \in 1 .. Len(s) : Apply(x, s)[k + 1] = s[k]
  BY ApplyFacts
<1>2. \A k \in 1 .. Len(s) + 1 : k = 1 \/ (k - 1 \in 1 .. Len(s) /\ k = (k - 1) + 1)
  BY <1>1
<1>3. ASSUME Plain(Apply(x, s)) PROVE x \notin Arrays /\ Plain(s)
  <2>1. x \notin Arrays
    BY <1>1, <1>3 DEF Plain
  <2>2. ASSUME NEW k \in 1 .. Len(s) PROVE s[k] \notin Arrays
    <3>1. k + 1 \in 1 .. Len(s) + 1
      BY <1>1
    <3> QED  BY <1>1, <1>3, <3>1 DEF Plain
  <2> QED  BY <2>1, <2>2 DEF Plain
<1>4. ASSUME x \notin Arrays, Plain(s) PROVE Plain(Apply(x, s))
  <2> SUFFICES ASSUME NEW k \in 1 .. Len(s) + 1 PROVE Apply(x, s)[k] \notin Arrays
    BY <1>1 DEF Plain
  <2> QED  BY <1>1, <1>2, <1>4 DEF Plain
<1> QED  BY <1>3, <1>4

\* A constructor does not tell types apart that have the same mangled name.
LEMMA MangledApply ==
    ASSUME NEW x \in Tokens, NEW s \in Seq(Tokens), NEW t \in Seq(Tokens),
           Mangled(s) = Mangled(t)
    PROVE  Mangled(Apply(x, s)) = Mangled(Apply(x, t))
<1>1. Len(s) = Len(t) /\ Len(s) \in Nat
  <2>1. DOMAIN Mangled(s) = 1 .. Len(s) /\ DOMAIN Mangled(t) = 1 .. Len(t)
    BY DEF Mangled
  <2> QED  BY <2>1
<1>2. \A k \in 1 .. Len(s) : Mangled(s)[k] = Mangled(t)[k]
  OBVIOUS
<1>3. ASSUME NEW k \in 1 .. Len(s) + 1
      PROVE  (IF Apply(x, s)[k] \in Arrays THEN Slice ELSE Apply(x, s)[k])
               = (IF Apply(x, t)[k] \in Arrays THEN Slice ELSE Apply(x, t)[k])
  <2>1. CASE k = 1
    <3>1. Apply(x, s)[1] = x /\ Apply(x, t)[1] = x
      BY ApplyFacts, Zenon
    <3> QED  BY <2>1, <3>1
  <2>2. CASE k # 1
    <3>1. k - 1 \in 1 .. Len(s) /\ (k - 1) + 1 = k
      BY <1>1, <2>2
    <3>2. Apply(x, s)[k] = s[k - 1]
      <4>1. \A j \in 1 .. Len(s) : Apply(x, s)[j + 1] = s[j]
        BY ApplyFacts, Zenon
      <4> QED  BY <3>1, <4>1
    <3>4. Apply(x, t)[k] = t[k - 1]
      <4>1. \A j \in 1 .. Len(t) : Apply(x, t)[j + 1] = t[j]
        BY ApplyFacts, Zenon
      <4> QED  BY <1>1, <3>1, <4>1
    <3>3. Mangled(s)[k - 1] = Mangled(t)[k - 1]
      BY <1>2, <3>1
    <3>5. Mangled(s)[k - 1] = (IF s[k - 1] \in Arrays THEN Slice ELSE s[k - 1])
          /\ Mangled(t)[k - 1] = (IF t[k - 1] \in Arrays THEN Slice ELSE t[k - 1])
      BY <1>1, <3>1 DEF Mangled
    <3> QED  BY <3>2, <3>3, <3>4, <3>5
  <2> QED  BY <2>1, <2>2
<1>4. Len(Apply(x, s)) = Len(s) + 1 /\ Len(Apply(x, t)) = Len(s) + 1
  BY <1>1, ApplyFacts
<1> QED  BY <1>3, <1>4 DEF Mangled
------------------------------------------------------------------------------
(* Programs and frames *)

LEMMA ListFacts ==
    ASSUME TypeOK, program \in Programs, NEW f \in Frame
    PROVE  /\ List(f) \in Seq(Request) /\ Len(List(f)) \in Nat
           /\ f.generic \in Generics \cup {Root}
           /\ f.stage = "signature" => List(f) = program.signature[f.generic]
           /\ f.stage = "body" => List(f) = program.body[f.generic]
           /\ f.stage = "signature" \/ f.stage = "body"
<1>1. /\ f.generic \in Generics \cup {Root} /\ f.stage \in {"signature", "body"}
  BY DEF Frame
<1>2. /\ program.signature \in [Generics \cup {Root} -> Seq(Request)]
      /\ program.body \in [Generics \cup {Root} -> Seq(Request)]
  BY DEF TypeOK, Program
<1>3. List(f) = IF f.stage = "signature" THEN program.signature[f.generic] ELSE program.body[f.generic]
  BY <1>1 DEF List
<1>4. List(f) \in Seq(Request)
  BY <1>1, <1>2, <1>3
<1> QED  BY <1>1, <1>3, <1>4

LEMMA RequestFacts ==
    ASSUME TypeOK, program \in Programs, NEW f \in Frame, NEW k \in 1 .. Len(List(f))
    PROVE  LET r == List(f)[k]
           IN  /\ r \in Request
               /\ f.stage = "signature" => r.what # "call"
               /\ f.generic \in TypeGenerics => f.stage = "signature"
               /\ r.what = "type" => r.generic \in TypeGenerics
               /\ r.what = "call" => r.generic \in FunGenerics
               /\ r.base = Previous => \E j \in 1 .. k - 1 : List(f)[j].what = "type"
<1> DEFINE g == f.generic
           list == List(f)
<1>1. /\ list \in Seq(Request) /\ Len(list) \in Nat /\ g \in Generics \cup {Root}
      /\ list \in {program.signature[g], program.body[g]}
      /\ f.stage = "signature" => list = program.signature[g]
      /\ f.stage = "body" => list = program.body[g]
      /\ f.stage = "signature" \/ f.stage = "body"
  BY ListFacts
<1>2. list[k] \in Request
  BY <1>1
<1>3. /\ list[k].what = "type" => list[k].generic \in TypeGenerics
      /\ list[k].what = "call" => list[k].generic \in FunGenerics
      /\ list[k].base = Previous => \E j \in 1 .. k - 1 : list[j].what = "type"
  BY <1>1, ProgramsAssumption
<1>4. f.stage = "signature" => list[k].what # "call"
  BY <1>1, ProgramsAssumption
<1>5. g \in TypeGenerics => program.body[g] = << >>
  BY ProgramsAssumption
<1>6. g \in TypeGenerics => f.stage = "signature"
  <2> SUFFICES ASSUME g \in TypeGenerics, f.stage = "body" PROVE FALSE
    BY <1>1
  <2>1. list = << >>
    BY <1>1, <1>5
  <2> QED  BY <2>1
<1> QED  BY <1>2, <1>3, <1>4, <1>6
------------------------------------------------------------------------------
(* Types *)

Extends(h, k) ==
    /\ h \in Seq(TypeObject) /\ k \in Seq(TypeObject) /\ Len(h) <= Len(k)
    /\ \A t \in 1 .. Len(h) : k[t] = h[t]

LEMMA ObjectFacts ==
    ASSUME NEW h \in Seq(TypeObject), NEW t \in 1 .. Len(h)
    PROVE  /\ h[t] \in TypeObject /\ h[t].shape \in Seq(Tokens) /\ h[t].base \in Nat
           /\ Len(h) \in Nat /\ t \in Nat
<1>1. h[t] \in TypeObject
  OBVIOUS
<1> QED  BY <1>1 DEF TypeObject

LEMMA AppendExtends ==
    ASSUME NEW h \in Seq(TypeObject), NEW o \in TypeObject
    PROVE  /\ Extends(h, Append(h, o)) /\ Len(h) \in Nat
           /\ Len(Append(h, o)) = Len(h) + 1 /\ Append(h, o)[Len(h) + 1] = o
  BY DEF Extends

LEMMA ExtendsTransitive ==
    ASSUME NEW h, NEW k, NEW l, Extends(h, k), Extends(k, l)
    PROVE  Extends(h, l)
<1>1. Len(h) \in Nat /\ Len(k) \in Nat /\ Len(l) \in Nat
  BY DEF Extends
<1>2. \A t \in 1 .. Len(h) : t \in 1 .. Len(k)
  BY <1>1 DEF Extends
<1> QED  BY <1>1, <1>2 DEF Extends

\* An object is as live, and is built as, it was.
LEMMA StaysLive ==
    ASSUME NEW h, NEW k, Extends(h, k), NEW t \in 1 .. Len(h)
    PROVE  /\ Live(k, t) <=> Live(h, t)
           /\ t \in 1 .. Len(k) /\ k[t] = h[t]
<1>1. Len(h) \in Nat /\ Len(k) \in Nat /\ t \in 1 .. Len(k) /\ k[t] = h[t]
  BY DEF Extends
<1> QED  BY <1>1 DEF Live

LEMMA StaysInstance ==
    ASSUME NEW h, NEW k, Extends(h, k), NEW t, NEW g, NEW a, IsInstance(h, t, g, a)
    PROVE  IsInstance(k, t, g, a)
<1>1. Len(h) \in Nat /\ Len(k) \in Nat /\ Len(h) <= Len(k) /\ Len(Declared) \in Nat
  BY DeclaredAssumption DEF Extends
<1>2. t \in 1 .. Len(h) /\ a \in 1 .. Len(h)
  BY <1>1 DEF IsInstance
<1>3. k[t] = h[t] /\ k[a] = h[a]
  BY <1>2 DEF Extends
<1> QED  BY <1>1, <1>3 DEF IsInstance

LEMMA StaysWrapped ==
    ASSUME NEW h, NEW k, Extends(h, k), NEW t \in 1 .. Len(h), IsWrapped(h, t)
    PROVE  IsWrapped(k, t)
<1>1. Len(h) \in Nat /\ h[t].base \in 1 .. Len(h) /\ Live(h, h[t].base)
  BY DEF IsWrapped, Extends
<1>2. k[t] = h[t] /\ k[h[t].base] = h[h[t].base] /\ Live(k, h[t].base)
  BY <1>1, StaysLive
<1> QED  BY <1>2 DEF IsWrapped

LEMMA StaysBuilt ==
    ASSUME NEW h, NEW k, Extends(h, k), Built(h), NEW t \in 1 .. Len(h)
    PROVE  \/ IsDeclared(k, t) \/ IsWrapped(k, t)
           \/ \E g \in TypeGenerics : \E a \in 1 .. t - 1 : IsInstance(k, t, g, a)
<1>1. CASE IsDeclared(h, t)
  BY <1>1, StaysLive DEF IsDeclared
<1>2. CASE IsWrapped(h, t)
  BY <1>2, StaysWrapped
<1>3. CASE \E g \in TypeGenerics : \E a \in 1 .. t - 1 : IsInstance(h, t, g, a)
  BY <1>3, StaysInstance
<1> QED  BY <1>1, <1>2, <1>3 DEF Built

\* The outermost constructor tells how a type was built.
LEMMA Outermost ==
    ASSUME NEW h \in Seq(TypeObject), Built(h), NEW t \in 1 .. Len(h)
    PROVE  /\ h[t].shape[1] \in Names <=> IsDeclared(h, t)
           /\ h[t].shape[1] \in Arrays \cup {Ptr} <=> IsWrapped(h, t)
           /\ h[t].shape[1] \in TypeGenerics <=>
                \E g \in TypeGenerics : \E a \in 1 .. t - 1 : IsInstance(h, t, g, a)
<1>0. Len(h) \in Nat /\ t \in Nat /\ Len(Declared) \in Nat
  BY DeclaredAssumption
<1>1. ASSUME IsDeclared(h, t) PROVE h[t].shape[1] \in Names
  <2>1. t \in 1 .. Len(Declared)
    BY <1>0, <1>1 DEF IsDeclared
  <2>2. Declared[t] \in Names
    BY <2>1, DeclaredAssumption
  <2>3. <<Declared[t]>>[1] = Declared[t]
    OBVIOUS
  <2> QED  BY <1>1, <2>2, <2>3 DEF IsDeclared
<1>2. ASSUME IsWrapped(h, t) PROVE h[t].shape[1] \in Arrays \cup {Ptr}
  <2>1. PICK w \in Arrays \cup {Ptr} : h[t].shape = Apply(w, h[h[t].base].shape)
    BY <1>2 DEF IsWrapped
  <2>2. w \in Tokens /\ h[h[t].base].shape \in Seq(Tokens)
    <3>1. h[t].base \in 1 .. Len(h)
      BY <1>0, <1>2 DEF IsWrapped
    <3> QED  BY <3>1, ObjectFacts DEF Tokens
  <2>3. Apply(w, h[h[t].base].shape)[1] = w
    BY <2>2, ApplyFacts, Zenon
  <2> QED  BY <2>1, <2>3
<1>3. ASSUME NEW g \in TypeGenerics, NEW a \in 1 .. t - 1, IsInstance(h, t, g, a)
      PROVE  h[t].shape[1] \in TypeGenerics
  <2>1. g \in Tokens /\ h[a].shape \in Seq(Tokens)
    <3>1. a \in 1 .. Len(h)
      BY <1>0
    <3> QED  BY <3>1, ObjectFacts DEF Tokens, Generics
  <2>2. Apply(g, h[a].shape)[1] = g
    BY <2>1, ApplyFacts, Zenon
  <2> QED  BY <1>3, <2>2 DEF IsInstance
<1>4. /\ Names \cap (Arrays \cup {Ptr}) = {} /\ Names \cap TypeGenerics = {}
      /\ TypeGenerics \cap (Arrays \cup {Ptr}) = {}
  BY TokensAssumption DEF Generics
<1>5. \/ IsDeclared(h, t) \/ IsWrapped(h, t)
      \/ \E g \in TypeGenerics : \E a \in 1 .. t - 1 : IsInstance(h, t, g, a)
  BY DEF Built
<1> QED  BY <1>1, <1>2, <1>3, <1>4, <1>5

\* A new array, or the first pointer to a type.
LEMMA NewWrapper ==
    ASSUME NEW h \in Seq(TypeObject), Built(h), Unique(h), NEW t, Live(h, t),
           NEW w \in Arrays \cup {Ptr}, NEW o \in TypeObject,
           o.shape = Apply(w, h[t].shape), o.base = t, NEW k, k = Append(h, o),
           w = Ptr => \A p \in 1 .. Len(h) : h[p].base = t => h[p].shape[1] # Ptr
    PROVE  /\ Extends(h, k) /\ Built(k) /\ Unique(k) /\ Live(k, Len(k))
           /\ k[Len(k)].shape = Apply(w, h[t].shape)
<1>1. /\ Extends(h, k) /\ Len(h) \in Nat /\ Len(k) = Len(h) + 1 /\ k[Len(h) + 1] = o
      /\ k \in Seq(TypeObject)
  BY AppendExtends DEF Extends
<1>2. t \in 1 .. Len(h) /\ Len(Declared) \in Nat /\ Len(Declared) <= Len(h)
  BY DeclaredAssumption DEF Live, Built
<1>3. Live(k, t) /\ k[t] = h[t]
  BY <1>1, <1>2, StaysLive
<1>4. IsWrapped(k, Len(k))
  BY <1>1, <1>2, <1>3 DEF IsWrapped
<1>5. Live(k, Len(k))
  BY <1>1, <1>2 DEF Live
<1>6. Built(k)
  <2>1. ASSUME NEW u \in 1 .. Len(k)
        PROVE  \/ IsDeclared(k, u) \/ IsWrapped(k, u)
               \/ \E g \in TypeGenerics : \E a \in 1 .. u - 1 : IsInstance(k, u, g, a)
    <3>1. CASE u = Len(k)
      BY <1>4, <3>1
    <3>2. CASE u # Len(k)
      <4>1. u \in 1 .. Len(h)
        BY <1>1, <3>2
      <4> QED  BY <1>1, <4>1, StaysBuilt
    <3> QED  BY <3>1, <3>2
  <2> QED  BY <1>1, <1>2, <2>1 DEF Built
<1>7. ASSUME NEW u \in 1 .. Len(h), Live(k, u), k[u].shape = o.shape, Plain(o.shape)
      PROVE  FALSE
  <2>1. w \in Tokens /\ h[t].shape \in Seq(Tokens) /\ Live(h, u) /\ k[u] = h[u]
    BY <1>1, <1>2, <1>7, ObjectFacts, StaysLive DEF Tokens
  <2>2. o.shape[1] = w
    <3>1. Apply(w, h[t].shape)[1] = w
      BY <2>1, ApplyFacts, Zenon
    <3> QED  BY <3>1
  <2>3. w = Ptr /\ Plain(h[t].shape)
    BY <1>7, <2>1, PlainApply
  <2>4. IsWrapped(h, u)
    <3>1. h[u].shape[1] = Ptr
      BY <1>7, <2>1, <2>2, <2>3
    <3> QED  BY <3>1, Outermost
  <2>5. PICK v \in Arrays \cup {Ptr} : h[u].shape = Apply(v, h[h[u].base].shape)
    BY <2>4 DEF IsWrapped
  <2>6. h[u].base \in 1 .. Len(h) /\ Live(h, h[u].base)
    BY <1>1, <2>4 DEF IsWrapped
  <2>7. v \in Tokens /\ h[h[u].base].shape \in Seq(Tokens)
    BY <2>6, ObjectFacts DEF Tokens
  <2>8. Apply(v, h[h[u].base].shape) = Apply(w, h[t].shape)
    BY <1>7, <2>1, <2>5
  <2>9. h[h[u].base].shape = h[t].shape /\ v = w
    BY <2>1, <2>7, <2>8, ApplyInjective
  <2>10. h[u].base = t
    BY <1>2, <2>3, <2>6, <2>9 DEF Unique
  <2>11. h[u].shape[1] = Ptr
    BY <1>7, <2>1, <2>2, <2>3
  <2> QED  BY <2>3, <2>10, <2>11
<1>8. Unique(k)
  <2> SUFFICES ASSUME NEW u \in 1 .. Len(k), NEW v \in 1 .. Len(k), Live(k, u), Live(k, v),
                      k[u].shape = k[v].shape, Plain(k[u].shape)
               PROVE  u = v
    BY DEF Unique
  <2>1. CASE u = Len(k) /\ v = Len(k)
    BY <2>1
  <2>2. CASE u = Len(k) /\ v # Len(k)
    <3>1. v \in 1 .. Len(h) /\ k[v].shape = o.shape /\ Plain(o.shape)
      BY <1>1, <2>2
    <3> QED  BY <1>7, <3>1
  <2>3. CASE u # Len(k) /\ v = Len(k)
    <3>1. u \in 1 .. Len(h) /\ k[u].shape = o.shape /\ Plain(o.shape)
      BY <1>1, <2>3
    <3> QED  BY <1>7, <3>1
  <2>4. CASE u # Len(k) /\ v # Len(k)
    <3>1. u \in 1 .. Len(h) /\ v \in 1 .. Len(h)
      BY <1>1, <2>4
    <3>2. Live(h, u) /\ Live(h, v) /\ k[u] = h[u] /\ k[v] = h[v]
      BY <1>1, <3>1, StaysLive
    <3> QED  BY <3>1, <3>2 DEF Unique
  <2> QED  BY <2>1, <2>2, <2>3, <2>4
<1> QED  BY <1>1, <1>5, <1>6, <1>8

\* The type of an instance that is begun.
LEMMA NewRoot ==
    ASSUME NEW h \in Seq(TypeObject), Built(h), Unique(h), NEW a \in 1 .. Len(h),
           NEW g \in TypeGenerics, NEW o \in TypeObject,
           o.shape = Apply(g, h[a].shape), o.base = 0, NEW k, k = Append(h, o),
           \A e \in 1 .. Len(cache) : cache[e].type \in 0 .. Len(h)
    PROVE  /\ Extends(h, k) /\ Built(k) /\ Unique(k) /\ IsInstance(k, Len(k), g, a)
<1>1. /\ Extends(h, k) /\ Len(h) \in Nat /\ Len(k) = Len(h) + 1 /\ k[Len(h) + 1] = o
      /\ k \in Seq(TypeObject) /\ Len(Declared) \in Nat /\ Len(Declared) <= Len(h)
      /\ k[a] = h[a] /\ a \in 1 .. Len(k) - 1
  BY AppendExtends, DeclaredAssumption DEF Extends, Built
<1>2. IsInstance(k, Len(k), g, a)
  BY <1>1 DEF IsInstance
<1>3. ~ Live(k, Len(k))
  BY <1>1 DEF Live
<1>4. ASSUME NEW u \in 1 .. Len(k)
      PROVE  \/ IsDeclared(k, u) \/ IsWrapped(k, u)
             \/ \E v \in TypeGenerics : \E b \in 1 .. u - 1 : IsInstance(k, u, v, b)
  <2>1. CASE u = Len(k)
    BY <1>1, <1>2, <2>1
  <2>2. CASE u # Len(k)
    <3>1. u \in 1 .. Len(h)
      BY <1>1, <2>2
    <3> QED  BY <1>1, <3>1, StaysBuilt
  <2> QED  BY <2>1, <2>2
<1>5. Built(k)
  BY <1>1, <1>4 DEF Built
<1>6. Unique(k)
  <2> SUFFICES ASSUME NEW u \in 1 .. Len(k), NEW v \in 1 .. Len(k), Live(k, u), Live(k, v),
                      k[u].shape = k[v].shape, Plain(k[u].shape)
               PROVE  u = v
    BY DEF Unique
  <2>1. u \in 1 .. Len(h) /\ v \in 1 .. Len(h)
    BY <1>1, <1>3
  <2>2. Live(h, u) /\ Live(h, v) /\ k[u] = h[u] /\ k[v] = h[v]
    BY <1>1, <2>1, StaysLive
  <2> QED  BY <2>1, <2>2 DEF Unique
<1> QED  BY <1>1, <1>2, <1>5, <1>6

\* type_pointer_create, type_array_create and type_fixed_array_create: the type
\* they answer with, in the heap they leave.
WrappedShape(wrap, shape) == IF wrap = None THEN shape ELSE Apply(wrap, shape)
LEMMA WrappedFacts ==
    ASSUME TypeOK, Built(heap), Unique(heap), NEW t, Live(heap, t),
           NEW wrap \in Arrays \cup {Ptr, None}, NEW r \in Wrapped(wrap, t)
    PROVE  /\ Extends(heap, r[1]) /\ Built(r[1]) /\ Unique(r[1]) /\ Live(r[1], r[2])
           /\ r[2] \in 1 .. Len(r[1])
           /\ r[1][r[2]].shape = WrappedShape(wrap, heap[t].shape)
<1>1. heap \in Seq(TypeObject) /\ t \in 1 .. Len(heap) /\ Extends(heap, heap) /\ Len(heap) \in Nat
  BY DEF TypeOK, Live, Extends
<1>2. CASE wrap = None
  BY <1>1, <1>2 DEF Wrapped, WrappedShape, Live
<1>3. CASE wrap # None
  <2>0. wrap \in Arrays \cup {Ptr} /\ wrap \in Tokens /\ heap[t].shape \in Seq(Tokens)
    BY <1>1, <1>3, ObjectFacts DEF Tokens
  <2>1. CASE wrap = Ptr /\ PointersTo(t) # {}
    <3>1. PICK k \in PointersTo(t) : r = <<heap, k>>
      BY <1>3, <2>1 DEF Wrapped
    <3>2. k \in 1 .. Len(heap) /\ heap[k].base = t /\ heap[k].shape[1] = Ptr
      BY DEF PointersTo
    <3>3. IsWrapped(heap, k)
      BY <1>1, <3>2, Outermost
    <3>4. PICK v \in Arrays \cup {Ptr} : heap[k].shape = Apply(v, heap[t].shape)
      BY <3>2, <3>3 DEF IsWrapped
    <3>5. v = Ptr
      <4>1. v \in Tokens
        BY DEF Tokens
      <4>2. Apply(v, heap[t].shape)[1] = v
        BY <2>0, <4>1, ApplyFacts, Zenon
      <4> QED  BY <3>2, <3>4, <4>2
    <3>6. Live(heap, k)
      BY <1>1, <3>2 DEF Live
    <3>7. r[1] = heap /\ r[2] = k
      BY <3>1
    <3> QED  BY <1>1, <1>3, <2>1, <3>2, <3>4, <3>5, <3>6, <3>7 DEF WrappedShape
  <2>2. CASE ~ (wrap = Ptr /\ PointersTo(t) # {})
    <3>1. PICK h \in NewType(heap, <<wrap>> \o heap[t].shape, t) : r = <<h, Len(h)>>
      BY <1>3, <2>2 DEF Wrapped
    <3>2. PICK b \in Buckets :
            h = Append(heap, [shape |-> <<wrap>> \o heap[t].shape, base |-> t, bucket |-> b])
      BY DEF NewType
    <3> DEFINE o == [shape |-> <<wrap>> \o heap[t].shape, base |-> t, bucket |-> b]
    <3>3. o.shape = Apply(wrap, heap[t].shape) /\ o.base = t
      BY DEF Apply
    <3>4. o \in TypeObject
      <4>1. Apply(wrap, heap[t].shape) \in Seq(Tokens)
        BY <2>0, ApplyFacts, Zenon
      <4>2. <<wrap>> \o heap[t].shape \in Seq(Tokens) /\ t \in Nat /\ b \in Buckets \cup {0}
        BY <1>1, <4>1 DEF Apply
      <4> QED  BY <4>2 DEF TypeObject
    <3>5. wrap = Ptr => \A p \in 1 .. Len(heap) : heap[p].base = t => heap[p].shape[1] # Ptr
      BY <2>2 DEF PointersTo
    <3>6. h = Append(heap, o)
      BY <3>2
    <3> HIDE DEF o
    <3>7. /\ Extends(heap, h) /\ Built(h) /\ Unique(h) /\ Live(h, Len(h))
          /\ h[Len(h)].shape = Apply(wrap, heap[t].shape)
      <4>1. heap \in Seq(TypeObject) /\ Built(heap) /\ Unique(heap) /\ Live(heap, t)
        BY <1>1
      <4>2. wrap \in Arrays \cup {Ptr} /\ o \in TypeObject
        BY <2>0, <3>4
      <4>3. Extends(heap, h) /\ Built(h)
        BY <4>1, <4>2, <3>3, <3>5, <3>6, NewWrapper
      <4>4. Unique(h)
        BY <4>1, <4>2, <3>3, <3>5, <3>6, NewWrapper
      <4>5. Live(h, Len(h))
        BY <4>1, <4>2, <3>3, <3>5, <3>6, NewWrapper
      <4>6. h[Len(h)].shape = Apply(wrap, heap[t].shape)
        BY <4>1, <4>2, <3>3, <3>5, <3>6, NewWrapper
      <4> QED  BY <4>3, <4>4, <4>5, <4>6
    <3>8. r[1] = h /\ r[2] = Len(h) /\ Len(h) \in 1 .. Len(h)
      BY <3>1, <3>7 DEF Live
    <3> QED  BY <1>3, <3>7, <3>8 DEF WrappedShape
  <2> QED  BY <2>1, <2>2
<1> QED  BY <1>2, <1>3
------------------------------------------------------------------------------
(* Frames and the stack *)

\* Every step leaves the frames below some frame as they are.
Moved(n, f) ==
    /\ n \in Nat \ {0} /\ f \in Frame /\ stack' \in Seq(Frame) /\ Len(stack') = n
    /\ stack'[n] = f /\ n <= Len(stack) + 1
    /\ \A i \in 1 .. n - 1 : i \in 1 .. Len(stack) /\ stack'[i] = stack[i]

\* The two frames are of one instantiation.
SameFrame(f, g) ==
    f.generic = g.generic /\ f.arg = g.arg /\ f.type = g.type /\ f.bindings = g.bindings

Skipped(f, r) == [Answered(f, 0) EXCEPT !.ok = @ /\ r.void /\ r.what = "call",
                                        !.last = IF r.what = "type" THEN 0 ELSE @]

LEMMA FrameFacts ==
    ASSUME NEW f \in Frame
    PROVE  /\ f.generic \in Generics \cup {Root} /\ f.arg \in Nat /\ f.type \in Nat
           /\ f.bindings \in [Names -> Nat] /\ f.stage \in {"signature", "body"}
           /\ f.next \in Nat \ {0} /\ f.last \in Nat /\ f.ok \in BOOLEAN
  BY DEF Frame

LEMMA AnsweredIs ==
    ASSUME NEW f \in Frame, NEW t \in Nat
    PROVE  LET g == Answered(f, t)
           IN  /\ g \in Frame /\ SameFrame(g, f) /\ g.stage = f.stage /\ g.ok = f.ok
               /\ g.next = f.next + 1 /\ g.last = IF t = 0 THEN f.last ELSE t
<1> DEFINE g == Answered(f, t)
<1>1. g = [f EXCEPT !.next = f.next + 1, !.last = IF t = 0 THEN f.last ELSE t]
  BY DEF Answered
<1>2. /\ f.next \in Nat \ {0} /\ f.last \in Nat
  BY FrameFacts
<1>3. f.next + 1 \in Nat \ {0} /\ (IF t = 0 THEN f.last ELSE t) \in Nat
  BY <1>2
<1>4. g \in Frame
  BY <1>1, <1>3 DEF Frame
<1>5. /\ g.generic = f.generic /\ g.arg = f.arg /\ g.type = f.type /\ g.bindings = f.bindings
      /\ g.stage = f.stage /\ g.ok = f.ok
      /\ g.next = f.next + 1 /\ g.last = IF t = 0 THEN f.last ELSE t
  BY <1>1 DEF Frame
<1> QED  BY <1>4, <1>5 DEF SameFrame

LEMMA SkippedIs ==
    ASSUME NEW f \in Frame, NEW r \in Request
    PROVE  LET g == Skipped(f, r)
           IN  /\ g \in Frame /\ SameFrame(g, f) /\ g.stage = f.stage
               /\ g.next = f.next + 1 /\ g.last \in {0, f.last}
<1> DEFINE a == Answered(f, 0)
           g == Skipped(f, r)
           ok == a.ok /\ r.void /\ r.what = "call"
           last == IF r.what = "type" THEN 0 ELSE a.last
<1>1. /\ a \in Frame /\ SameFrame(a, f) /\ a.stage = f.stage /\ a.next = f.next + 1
      /\ a.last = f.last
  BY AnsweredIs
<1> HIDE DEF a
<1>2. g = [a EXCEPT !.ok = ok, !.last = last]
  BY DEF Skipped, a
<1>3. ok \in BOOLEAN /\ last \in Nat /\ last \in {0, f.last}
  BY <1>1, FrameFacts DEF Request
<1> HIDE DEF ok, last, g
<1>4. g \in Frame
  BY <1>1, <1>2, <1>3 DEF Frame
<1>5. /\ g.generic = a.generic /\ g.arg = a.arg /\ g.type = a.type /\ g.bindings = a.bindings
      /\ g.stage = a.stage /\ g.next = a.next /\ g.last = last
  BY <1>1, <1>2 DEF Frame
<1>6. SameFrame(g, f)
  BY <1>1, <1>5 DEF SameFrame
<1> QED  BY <1>1, <1>3, <1>4, <1>5, <1>6 DEF g

LEMMA BodyStageIs ==
    ASSUME NEW f \in Frame
    PROVE  LET g == BodyStage(f)
           IN  /\ g \in Frame /\ SameFrame(g, f) /\ g.stage = "body" /\ g.ok = f.ok
               /\ g.next = 1 /\ g.last = 0
<1> DEFINE g == BodyStage(f)
<1>1. g = [f EXCEPT !.stage = "body", !.next = 1, !.last = 0]
  BY DEF BodyStage
<1>2. /\ 1 \in Nat \ {0} /\ 0 \in Nat /\ "body" \in {"signature", "body"}
  OBVIOUS
<1>3. g \in Frame
  BY <1>1, <1>2 DEF Frame
<1>4. /\ g.generic = f.generic /\ g.arg = f.arg /\ g.type = f.type /\ g.bindings = f.bindings
      /\ g.ok = f.ok
  BY <1>1 DEF Frame
<1>5. g.stage = "body" /\ g.next = 1 /\ g.last = 0
  BY <1>1 DEF Frame
<1> QED  BY <1>3, <1>4, <1>5 DEF SameFrame

LEMMA FrameOfIs ==
    ASSUME NEW g \in Generics, NEW a \in Nat, NEW t \in Nat, NEW b \in [Names -> Nat]
    PROVE  LET f == FrameOf(g, a, t, b)
           IN  /\ f \in Frame /\ f.generic = g /\ f.arg = a /\ f.type = t /\ f.bindings = b
               /\ f.stage = "signature" /\ f.next = 1 /\ f.last = 0 /\ f.ok = TRUE
<1> DEFINE f == FrameOf(g, a, t, b)
<1>1. f \in Frame
  BY DEF FrameOf, Frame
<1> QED  BY <1>1 DEF FrameOf

LEMMA TopFacts ==
    ASSUME TypeOK, Stacked
    PROVE  /\ Len(stack) \in Nat \ {0} /\ Top \in Frame /\ Top = stack[Len(stack)]
           /\ Len(stack) \in 1 .. Len(stack)
           /\ \A i \in 1 .. Len(stack) : stack[i] \in Frame
  BY DEF TypeOK, Stacked, Top

LEMMA WithTopMoves ==
    ASSUME TypeOK, Stacked, NEW f \in Frame, stack' = WithTop(f)
    PROVE  Moved(Len(stack), f)
  BY TopFacts DEF TypeOK, WithTop, Moved

LEMMA PushMoves ==
    ASSUME TypeOK, Stacked, NEW f \in Frame, stack' = Append(stack, f)
    PROVE  Moved(Len(stack) + 1, f)
  BY TopFacts DEF TypeOK, Moved

LEMMA CallerFacts ==
    ASSUME TypeOK, Stacked, Top.generic # Root
    PROVE  /\ Len(stack) - 1 \in Nat \ {0} /\ Caller \in Frame /\ Caller = stack[Len(stack) - 1]
           /\ Len(stack) - 1 \in 1 .. Len(stack) /\ Len(stack) \in 2 .. Len(stack)
<1>1. Len(stack) # 1
  BY TopFacts DEF Stacked
<1>2. \A n \in Nat \ {0} : n # 1 => n - 1 \in 1 .. n /\ n - 1 \in Nat \ {0} /\ n \in 2 .. n
  OBVIOUS
<1> QED  BY <1>1, <1>2, TopFacts DEF Caller

LEMMA Below ==
    ASSUME NEW m \in Nat, m - 1 \in Nat \ {0}
    PROVE  /\ m - 1 \in 1 .. m - 1 /\ m - 1 <= m + 1
           /\ \A i \in 1 .. (m - 1) - 1 : i \in 1 .. m /\ i \in 1 .. m - 1 /\ i # m - 1
  OBVIOUS

LEMMA ReturnMoves ==
    ASSUME TypeOK, Stacked, Top.generic # Root, NEW t \in Nat, Return(t)
    PROVE  Moved(Len(stack) - 1, Answered(Caller, t))
<1>1. /\ Len(stack) - 1 \in Nat \ {0} /\ Caller \in Frame /\ Len(stack) \in Nat
      /\ \A i \in 1 .. Len(stack) : stack[i] \in Frame
  BY CallerFacts, TopFacts
<1> DEFINE f == Answered(Caller, t)
           n == Len(stack) - 1
<1>2. f \in Frame
  BY <1>1, AnsweredIs
<1> HIDE DEF f
<1>3. stack' = [k \in 1 .. n |-> IF k = n THEN f ELSE stack[k]]
  BY DEF Return, f
<1>4. \A k \in 1 .. n : (IF k = n THEN f ELSE stack[k]) \in Frame
  BY <1>1, <1>2
<1>5. stack' \in Seq(Frame) /\ Len(stack') = n
  BY <1>1, <1>3, <1>4
<1>6. \A i \in 1 .. n - 1 : i \in 1 .. Len(stack) /\ i \in 1 .. n /\ i # n
  BY <1>1, Below
<1>7. n \in 1 .. n /\ n <= Len(stack) + 1
  BY <1>1, Below
<1>8. stack'[n] = f /\ \A i \in 1 .. n - 1 : stack'[i] = stack[i]
  BY <1>3, <1>6, <1>7
<1> QED  BY <1>1, <1>2, <1>5, <1>6, <1>7, <1>8 DEF Moved, f

LEMMA Prefix ==
    ASSUME NEW S, NEW s \in Seq(S), NEW n \in 1 .. Len(s)
    PROVE  /\ SubSeq(s, 1, n) \in Seq(S) /\ Len(SubSeq(s, 1, n)) = n
           /\ \A i \in 1 .. n : SubSeq(s, 1, n)[i] = s[i]
<1>1. n \in Nat /\ n <= Len(s)
  OBVIOUS
<1>2. SubSeq(s, 1, n) = [i \in 1 .. n |-> s[i]]
  OBVIOUS
<1>3. \A i \in 1 .. n : s[i] \in S
  BY <1>1
<1> QED  BY <1>1, <1>2, <1>3

LEMMA FrontMoves ==
    ASSUME TypeOK, Stacked, Top.generic # Root, stack' = Front(stack)
    PROVE  Moved(Len(stack) - 1, Caller)
<1>1. /\ Len(stack) - 1 \in Nat \ {0} /\ Caller \in Frame /\ Len(stack) \in Nat
      /\ Caller = stack[Len(stack) - 1] /\ stack \in Seq(Frame)
  BY CallerFacts, TopFacts DEF TypeOK
<1> DEFINE n == Len(stack) - 1
<1>2. stack' = SubSeq(stack, 1, n)
  BY DEF Front
<1>3. stack' \in Seq(Frame) /\ Len(stack') = n /\ \A i \in 1 .. n : stack'[i] = stack[i]
  BY <1>1, <1>2, CallerFacts, Prefix
<1>4. \A i \in 1 .. n - 1 : i \in 1 .. Len(stack) /\ i \in 1 .. n
  BY <1>1, Below
<1>5. n \in 1 .. n /\ n <= Len(stack) + 1
  BY <1>1, Below
<1> QED  BY <1>1, <1>3, <1>4, <1>5 DEF Moved
------------------------------------------------------------------------------
(* What a request names *)

LEMMA NamedFacts ==
    ASSUME TypeOK, Types, Stacked, NEW n \in Names \cup {Previous}, Known(n)
    PROVE  /\ Live(heap, TypeNamed(n))
           /\ n = Previous => TypeNamed(n) = Top.last
           /\ n # Previous => heap[TypeNamed(n)].shape = Meaning(Top.bindings)[n]
<1>1. /\ Reaches(heap, Top) /\ Top \in Frame /\ Built(heap)
  BY TopFacts DEF Types
<1>2. CASE n = Previous
  BY <1>1, <1>2 DEF Known, TypeNamed, Reaches
<1>3. CASE n # Previous /\ Top.bindings[n] # 0
  BY <1>1, <1>3 DEF TypeNamed, Reaches, Binds, Bound, Meaning
<1>4. CASE n # Previous /\ Top.bindings[n] = 0
  <2>1. n \in Names /\ n \in ToSet(Declared) /\ ~ Bound(n)
    BY <1>4 DEF Known, Bound
  <2>2. PICK j \in 1 .. Len(Declared) : Declared[j] = n
    BY <2>1, DeclaredAssumption DEF ToSet
  <2> DEFINE k == TypeNamed(n)
  <2>3. k \in 1 .. Len(Declared) /\ Declared[k] = n
    BY <1>4, <2>1, <2>2 DEF TypeNamed
  <2>4. /\ k \in 1 .. Len(heap) /\ Len(heap) \in Nat /\ Len(Declared) \in Nat /\ k <= Len(Declared)
    BY <1>1, <2>3, DeclaredAssumption DEF Built, TypeOK
  <2> HIDE DEF k
  <2>5. IsDeclared(heap, k)
    <3>1. ~ IsWrapped(heap, k)
      BY <2>4 DEF IsWrapped
    <3>2. ASSUME NEW g, NEW a, IsInstance(heap, k, g, a) PROVE FALSE
      BY <2>4, <3>2 DEF IsInstance
    <3> QED  BY <1>1, <2>4, <3>1, <3>2 DEF Built
  <2>6. heap[k].shape = <<n>>
    BY <2>3, <2>5 DEF IsDeclared
  <2>7. Meaning(Top.bindings)[n] = <<n>>
    BY <1>4, <2>1 DEF Meaning
  <2>8. Live(heap, k)
    BY <2>4 DEF Live
  <2> QED  BY <1>4, <2>6, <2>7, <2>8 DEF k
<1> QED  BY <1>2, <1>3, <1>4

\* The type that the next request asks an instance for, or names.
LEMMA AskedFor ==
    ASSUME TypeOK, Types, Stacked, Keys, HasRequest, Known(NextRequest.base),
           NEW r \in Wrapped(NextRequest.wrap, TypeNamed(NextRequest.base))
    PROVE  /\ NextRequest \in Request /\ Top.next \in 1 .. Len(List(Top))
           /\ NextRequest = List(Top)[Top.next]
           /\ Extends(heap, r[1]) /\ Built(r[1]) /\ Unique(r[1]) /\ Live(r[1], r[2])
           /\ r[2] \in 1 .. Len(r[1]) /\ r[1] \in Seq(TypeObject)
           /\ r[1][r[2]].shape =
                WrappedShape(NextRequest.wrap, heap[TypeNamed(NextRequest.base)].shape)
           /\ Live(heap, TypeNamed(NextRequest.base))
<1>1. Top \in Frame /\ program \in Programs /\ Built(heap) /\ Unique(heap)
  BY TopFacts DEF Types, Keys
<1>2. Len(List(Top)) \in Nat /\ Top.next \in Nat \ {0}
  BY <1>1, ListFacts, FrameFacts
<1>3. Top.next \in 1 .. Len(List(Top)) /\ NextRequest = List(Top)[Top.next]
  BY <1>2 DEF HasRequest, NextRequest
<1>4. NextRequest \in Request
  BY <1>1, <1>3, RequestFacts
<1>5. NextRequest.base \in Names \cup {Previous} /\ NextRequest.wrap \in Arrays \cup {Ptr, None}
  BY <1>4 DEF Request
<1>6. Live(heap, TypeNamed(NextRequest.base))
  BY <1>5, NamedFacts
<1> DEFINE t == TypeNamed(NextRequest.base)
           w == NextRequest.wrap
<1> HIDE DEF t, w
<1>7. Live(heap, t) /\ w \in Arrays \cup {Ptr, None} /\ r \in Wrapped(w, t)
  BY <1>5, <1>6 DEF t, w
<1>8. Extends(heap, r[1]) /\ Built(r[1])
  BY <1>1, <1>7, WrappedFacts
<1>9. Unique(r[1]) /\ Live(r[1], r[2]) /\ r[2] \in 1 .. Len(r[1])
  BY <1>1, <1>7, WrappedFacts
<1>10. r[1][r[2]].shape = WrappedShape(w, heap[t].shape)
  BY <1>1, <1>7, WrappedFacts
<1>11. r[1] \in Seq(TypeObject)
  BY <1>8 DEF Extends
<1> QED  BY <1>3, <1>4, <1>6, <1>8, <1>9, <1>10, <1>11 DEF t, w
------------------------------------------------------------------------------
(* What every step of the analysis keeps *)

SameEntry(x, y) ==
    x.generic = y.generic /\ x.arg = y.arg /\ x.type = y.type /\ x.bindings = y.bindings
Grows ==
    /\ cache' \in Seq(Entry) /\ Len(cache) <= Len(cache')
    /\ \A e \in 1 .. Len(cache) : SameEntry(cache'[e], cache[e])
Kept == program' = program /\ Extends(heap, heap') /\ Grows

LEMMA GrowsFacts ==
    ASSUME TypeOK, Grows, NEW e \in 1 .. Len(cache)
    PROVE  /\ e \in 1 .. Len(cache') /\ cache'[e].generic = cache[e].generic
           /\ cache'[e].arg = cache[e].arg /\ cache'[e].type = cache[e].type
           /\ cache'[e].bindings = cache[e].bindings
<1>1. Len(cache) \in Nat /\ Len(cache') \in Nat
  BY DEF TypeOK, Grows
<1>2. e \in 1 .. Len(cache')
  BY <1>1 DEF Grows
<1> QED  BY <1>2 DEF Grows, SameEntry

LEMMA SameGrows == ASSUME TypeOK, cache' = cache PROVE Grows
  BY DEF TypeOK, Grows, SameEntry

LEMMA LivesOn ==
    ASSUME TypeOK, Kept, NEW t, Live(heap, t)
    PROVE  Live(heap, t)' /\ t \in 1 .. Len(heap) /\ t \in 1 .. Len(heap') /\ heap'[t] = heap[t]
<1>1. t \in 1 .. Len(heap) /\ t \in 1 .. Len(heap') /\ heap'[t] = heap[t]
  <2>1. t \in 1 .. Len(heap)
    BY DEF Live
  <2> QED  BY <2>1, StaysLive DEF Kept
<1>2. CASE \E e \in 1 .. Len(cache) : cache[e].type = t
  <2>1. PICK e \in 1 .. Len(cache) : cache[e].type = t
    BY <1>2
  <2>2. e \in 1 .. Len(cache') /\ cache'[e].type = t
    BY <2>1, GrowsFacts DEF Kept
  <2> QED  BY <1>1, <2>2 DEF Live
<1>3. CASE heap[t].base # 0 \/ t <= Len(Declared)
  BY <1>1, <1>3 DEF Live
<1> QED  BY <1>1, <1>2, <1>3 DEF Live

LEMMA InstanceLivesOn ==
    ASSUME Kept, NEW t, NEW g, NEW a, IsInstance(heap, t, g, a)
    PROVE  IsInstance(heap, t, g, a)'
<1>1. IsInstance(heap', t, g, a)
  BY StaysInstance DEF Kept
<1> QED  BY <1>1 DEF IsInstance

\* What an instance holds on to it keeps.
LEMMA HoldsOn ==
    ASSUME TypeOK, Kept, NEW x, NEW y, Holds(heap, x),
           y.generic = x.generic, y.arg = x.arg, y.type = x.type
    PROVE  Holds(heap, y)'
<1>1. Live(heap, y.arg)'
  <2>1. Live(heap, x.arg)
    BY DEF Holds
  <2> QED  BY <2>1, LivesOn
<1>2. CASE x.generic \in TypeGenerics
  <2>1. IsInstance(heap, x.type, x.generic, x.arg)
    BY <1>2 DEF Holds
  <2>2. IsInstance(heap, y.type, y.generic, y.arg)'
    BY <2>1, InstanceLivesOn
  <2> QED  BY <1>1, <1>2, <2>2 DEF Holds
<1>3. CASE x.generic \notin TypeGenerics
  BY <1>1, <1>3 DEF Holds
<1> QED  BY <1>2, <1>3

LEMMA BindsOn ==
    ASSUME TypeOK, Kept, NEW x, NEW y, Binds(heap, x), y.bindings = x.bindings
    PROVE  Binds(heap, y)'
<1>1. ASSUME NEW n \in Names, y.bindings[n] # 0 PROVE Live(heap, y.bindings[n])'
  <2>1. Live(heap, x.bindings[n])
    BY <1>1 DEF Binds
  <2> QED  BY <2>1, LivesOn
<1> QED  BY <1>1 DEF Binds

LEMMA ReachesOn ==
    ASSUME TypeOK, Kept, NEW f, NEW g, Reaches(heap, f), SameFrame(g, f),
           g.last \in {0, f.last} \/ Live(heap, g.last)'
    PROVE  Reaches(heap, g)'
<1>1. Binds(heap, g)'
  BY BindsOn DEF Reaches, SameFrame
<1>2. g.last # 0 => Live(heap, g.last)'
  <2> SUFFICES ASSUME g.last # 0, g.last = f.last PROVE Live(heap, g.last)'
    OBVIOUS
  <2>1. Live(heap, g.last)
    BY DEF Reaches
  <2> QED  BY <2>1, LivesOn
<1>3. g.generic # Root => Holds(heap, g)'
  BY HoldsOn DEF Reaches, SameFrame
<1> QED  BY <1>1, <1>2, <1>3 DEF Reaches

LEMMA BuiltOn ==
    ASSUME TypeOK, Kept, heap' = heap, Built(heap)
    PROVE  Built(heap)'
<1>1. ASSUME NEW t \in 1 .. Len(heap)
      PROVE  (\/ IsDeclared(heap, t) \/ IsWrapped(heap, t)
              \/ \E g \in TypeGenerics : \E a \in 1 .. t - 1 : IsInstance(heap, t, g, a))'
  <2>1. CASE IsDeclared(heap, t)
    BY <2>1 DEF IsDeclared
  <2>2. CASE IsWrapped(heap, t)
    <3>1. Live(heap, heap[t].base)
      BY <2>2 DEF IsWrapped
    <3>2. PICK b : b = heap[t].base
      OBVIOUS
    <3>3. Live(heap, b)'
      BY <3>1, <3>2, LivesOn
    <3>4. Live(heap, heap[t].base)'
      BY <3>2, <3>3 DEF Live
    <3> QED  BY <2>2, <3>4 DEF IsWrapped
  <2>3. CASE \E g \in TypeGenerics : \E a \in 1 .. t - 1 : IsInstance(heap, t, g, a)
    BY <2>3, InstanceLivesOn
  <2> QED  BY <1>1, <2>1, <2>2, <2>3 DEF Built
<1> QED  BY <1>1 DEF Built
\* An entry that a step adds to the cache.
New(e) == e \in Len(cache) + 1 .. Len(cache')

LEMMA MovedFacts ==
    ASSUME TypeOK, NEW n, NEW f, Moved(n, f), NEW i \in 1 .. Len(stack')
    PROVE  /\ i = n => stack'[i] = f
           /\ i # n => i \in 1 .. n - 1 /\ i \in 1 .. Len(stack) /\ stack'[i] = stack[i]
<1>1. n \in Nat \ {0} /\ Len(stack') = n /\ stack'[n] = f
  BY DEF Moved
<1>2. i # n => i \in 1 .. n - 1
  BY <1>1
<1> QED  BY <1>1, <1>2 DEF Moved

LEMMA TypeStep ==
    ASSUME TypeOK, Kept, NEW n, NEW f, Moved(n, f), UNCHANGED <<visited, emitted>>,
           failing' \in BOOLEAN, errors' \in BOOLEAN,
           pc' \in {"analyzing", "generating", "done", "rejected", "overflow"},
           hits' \subseteq Seq(Tokens) \X Seq(Tokens)
    PROVE  TypeOK'
<1>1. program' \in Program /\ heap' \in Seq(TypeObject) /\ cache' \in Seq(Entry)
  BY DEF TypeOK, Kept, Extends, Grows
<1>2. stack' \in Seq(Frame)
  BY DEF Moved
<1>3. \A e \in 1 .. Len(cache) : e \in 1 .. Len(cache')
  BY GrowsFacts DEF Kept
<1>4. visited' \subseteq 1 .. Len(cache') /\ emitted' \subseteq visited'
  BY <1>3 DEF TypeOK
<1> QED  BY <1>1, <1>2, <1>4 DEF TypeOK

LEMMA TypesStep ==
    ASSUME TypeOK, Types, Kept, Built(heap)', NEW n, NEW f, Moved(n, f), Reaches(heap, f)',
           \A e : New(e) => Holds(heap, cache[e])' /\ Binds(heap, cache[e])'
    PROVE  Types'
<1>1. program' \in Programs
  BY DEF Types, Kept
<1>2. ASSUME NEW i \in 1 .. Len(stack') PROVE Reaches(heap, stack[i])'
  <2>1. CASE i = n
    <3>1. stack'[i] = f
      BY <2>1, MovedFacts
    <3> QED  BY <3>1 DEF Reaches, Binds, Holds
  <2>2. CASE i # n
    <3>1. i \in 1 .. Len(stack) /\ stack'[i] = stack[i]
      BY <2>2, MovedFacts
    <3>2. PICK g : g = stack[i]
      OBVIOUS
    <3>3. Reaches(heap, g)
      BY <3>1, <3>2 DEF Types
    <3>4. Reaches(heap, g)'
      BY <3>3, ReachesOn DEF SameFrame
    <3> QED  BY <3>1, <3>2, <3>4 DEF Reaches, Binds, Holds
  <2> QED  BY <2>1, <2>2
<1>3. ASSUME NEW e \in 1 .. Len(cache') PROVE Holds(heap, cache[e])' /\ Binds(heap, cache[e])'
  <2>1. CASE e \in 1 .. Len(cache)
    <3>1. SameEntry(cache'[e], cache[e])
      BY <2>1 DEF Kept, Grows
    <3>2. PICK x, y : x = cache[e] /\ y = cache'[e]
      OBVIOUS
    <3>3. Holds(heap, x) /\ Binds(heap, x)
      BY <2>1, <3>2 DEF Types
    <3>4. Holds(heap, y)' /\ Binds(heap, y)'
      BY <3>1, <3>2, <3>3, HoldsOn, BindsOn DEF SameEntry
    <3> QED  BY <3>2, <3>4 DEF Binds, Holds
  <2>2. CASE e \notin 1 .. Len(cache)
    <3>1. Len(cache) \in Nat
      BY DEF TypeOK
    <3>2. New(e)
      BY <2>2, <3>1 DEF New
    <3> QED  BY <3>2
  <2> QED  BY <2>1, <2>2
<1> QED  BY <1>1, <1>2, <1>3 DEF Types

LEMMA StackedStep ==
    ASSUME TypeOK, Types, Stacked, program' = program, NEW n, NEW f, Moved(n, f),
           f.generic \in TypeGenerics => f.stage = "signature",
           f.next <= Len(List(f)) + 1, failing' => Pending(f),
           n <= Len(stack) => f.generic = stack[n].generic,
           n > Len(stack) => /\ f.generic # Root /\ f.generic = NextRequest.generic
                             /\ NextRequest.what # "name" /\ Pending(Top)
                             /\ Top.stage = "signature" => f.generic \in TypeGenerics
    PROVE  Stacked'
<1>1. /\ Len(stack) \in Nat \ {0} /\ n \in Nat \ {0} /\ Len(stack') = n /\ n <= Len(stack) + 1
      /\ stack'[n] = f
  BY TopFacts DEF Moved
<1>2. ASSUME NEW i \in 1 .. Len(stack')
      PROVE  /\ stack'[i].generic = Root <=> i = 1
             /\ stack'[i].generic \in TypeGenerics => stack'[i].stage = "signature"
             /\ stack'[i].next <= Len(List(stack[i])') + 1
  <2>1. CASE i = n
    <3>1. stack'[i] = f /\ List(stack[i])' = List(f)
      BY <1>1, <2>1 DEF List
    <3>2. n = 1 => n <= Len(stack)
      BY <1>1
    <3>3. f.generic = Root <=> n = 1
      <4>1. CASE n <= Len(stack)
        <5>1. n \in 1 .. Len(stack)
          BY <1>1, <4>1
        <5> QED  BY <4>1, <5>1 DEF Stacked
      <4>2. CASE n > Len(stack)
        <5>1. n # 1
          BY <1>1, <4>2
        <5> QED  BY <4>2, <5>1
      <4> QED  BY <1>1, <4>1, <4>2
    <3> QED  BY <2>1, <3>1, <3>3
  <2>2. CASE i # n
    <3>1. i \in 1 .. Len(stack) /\ stack'[i] = stack[i]
      BY <2>2, MovedFacts
    <3>2. List(stack[i])' = List(stack[i])
      BY <3>1 DEF List
    <3> QED  BY <3>1, <3>2 DEF Stacked
  <2> QED  BY <2>1, <2>2
<1>3. ASSUME NEW i \in 1 .. Len(stack') - 1
      PROVE  /\ stack'[i].next <= Len(List(stack[i])')
             /\ LET r == List(stack[i])'[stack'[i].next]
                IN  r.what # "name" /\ r.generic = stack'[i + 1].generic
  <2>1. i \in 1 .. Len(stack') /\ i # n /\ i + 1 \in 1 .. Len(stack')
    BY <1>1
  <2>2. i \in 1 .. Len(stack) /\ stack'[i] = stack[i]
    BY <2>1, MovedFacts
  <2>3. List(stack[i])' = List(stack[i])
    BY <2>2 DEF List
  <2>4. CASE i < Len(stack)
    <3>1. i \in 1 .. Len(stack) - 1
      BY <1>1, <2>4
    <3>2. /\ Pending(stack[i]) /\ List(stack[i])[stack[i].next].what # "name"
          /\ List(stack[i])[stack[i].next].generic = stack[i + 1].generic
      BY <3>1 DEF Stacked
    <3>3. stack'[i + 1].generic = stack[i + 1].generic
      <4>1. CASE i + 1 = n
        <5>1. n <= Len(stack)
          BY <1>1, <3>1, <4>1
        <5> QED  BY <1>1, <4>1, <5>1
      <4>2. CASE i + 1 # n
        BY <2>1, <4>2, MovedFacts
      <4> QED  BY <4>1, <4>2
    <3> QED  BY <2>2, <2>3, <3>2, <3>3 DEF Pending
  <2>5. CASE i >= Len(stack)
    <3>1. i = Len(stack) /\ n = i + 1 /\ n > Len(stack)
      BY <1>1, <2>1, <2>5
    <3>2. stack[i] = Top /\ NextRequest = List(stack[i])[stack[i].next]
      BY <3>1 DEF Top, NextRequest
    <3> QED  BY <1>1, <2>2, <2>3, <3>1, <3>2 DEF Pending
  <2> QED  BY <1>1, <2>2, <2>4, <2>5
<1>4. ASSUME NEW i \in 1 .. Len(stack'), NEW j \in 1 .. Len(stack'), i < j, stack'[i].stage = "signature"
      PROVE  stack'[j].generic \in TypeGenerics
  <2>1. i # n
    BY <1>1, <1>4
  <2>2. i \in 1 .. Len(stack) /\ stack'[i] = stack[i]
    BY <2>1, MovedFacts
  <2>3. CASE j \in 1 .. Len(stack)
    <3>1. stack'[j].generic = stack[j].generic
      <4>1. CASE j = n
        BY <1>1, <2>3, <4>1
      <4>2. CASE j # n
        BY <4>2, MovedFacts
      <4> QED  BY <4>1, <4>2
    <3> QED  BY <1>4, <2>2, <2>3, <3>1 DEF Stacked
  <2>4. CASE j \notin 1 .. Len(stack)
    <3>1. j = n /\ n > Len(stack) /\ stack'[j] = f /\ Len(stack) \in 1 .. Len(stack)
      BY <1>1, <2>4
    <3>2. Top.stage = "signature"
      <4>1. CASE i = Len(stack)
        BY <1>4, <2>2, <4>1 DEF Top
      <4>2. CASE i < Len(stack)
        <5>1. stack[Len(stack)].generic \in TypeGenerics
          BY <1>4, <2>2, <3>1, <4>2 DEF Stacked
        <5> QED  BY <3>1, <5>1 DEF Stacked, Top
      <4> QED  BY <2>2, <1>1, <4>1, <4>2
    <3> QED  BY <3>1, <3>2
  <2> QED  BY <2>3, <2>4
<1>5. failing' => stack'[Len(stack')].next <= Len(List(stack[Len(stack)])')
  <2>1. List(stack[Len(stack)])' = List(f) /\ stack'[Len(stack')] = f
    BY <1>1 DEF List
  <2> QED  BY <2>1 DEF Pending
<1>6. Len(stack') > 0
  BY <1>1
<1> QED  BY <1>2, <1>3, <1>4, <1>5, <1>6 DEF Stacked, Pending, Top

LEMMA OrderedStep ==
    ASSUME TypeOK, Ordered, Kept, NEW n, NEW f, Moved(n, f),
           \A e : New(e) =>
             LET list == program.signature[cache'[e].generic]
             IN  \A r \in 1 .. Len(list) :
                    list[r].what # "name" => \E d \in 1 .. e - 1 : cache'[d].generic = list[r].generic,
           n # 1 /\ f.stage = "signature" =>
             \A r \in 1 .. f.next - 1 :
                List(f)[r].what # "name" =>
                  \E e \in 1 .. Len(cache') : cache'[e].generic = List(f)[r].generic
    PROVE  Ordered'
<1>1. program' = program /\ Len(cache) \in Nat
  BY DEF Kept, TypeOK
<1>2. ASSUME NEW e \in 1 .. Len(cache'), NEW r \in 1 .. Len(program.signature[cache'[e].generic]),
             program.signature[cache'[e].generic][r].what # "name"
      PROVE  \E d \in 1 .. e - 1 : cache'[d].generic = program.signature[cache'[e].generic][r].generic
  <2>1. CASE e \in 1 .. Len(cache)
    <3>1. cache'[e].generic = cache[e].generic
      BY <2>1, GrowsFacts DEF Kept
    <3>2. PICK d \in 1 .. e - 1 : cache[d].generic = program.signature[cache[e].generic][r].generic
      <4>1. /\ r \in 1 .. Len(program.signature[cache[e].generic])
            /\ program.signature[cache[e].generic][r].what # "name"
        BY <1>2, <3>1
      <4>2. \A k \in 1 .. Len(cache) : \A q \in 1 .. Len(program.signature[cache[k].generic]) :
              program.signature[cache[k].generic][q].what # "name" =>
                \E d \in 1 .. k - 1 : cache[d].generic = program.signature[cache[k].generic][q].generic
        BY Zenon DEF Ordered
      <4> QED  BY <2>1, <4>1, <4>2
    <3>3. d \in 1 .. Len(cache)
      BY <1>1, <2>1
    <3>4. cache'[d].generic = cache[d].generic
      BY <3>3, GrowsFacts DEF Kept
    <3> QED  BY <3>1, <3>2, <3>4
  <2>2. CASE e \notin 1 .. Len(cache)
    <3>1. New(e)
      BY <1>1, <2>2 DEF New
    <3> QED  BY <1>2, <3>1
  <2> QED  BY <2>1, <2>2
<1>3. ASSUME NEW i \in 2 .. Len(stack'), stack'[i].stage = "signature",
             NEW r \in 1 .. stack'[i].next - 1, List(stack[i])'[r].what # "name"
      PROVE  \E e \in 1 .. Len(cache') : cache'[e].generic = List(stack[i])'[r].generic
  <2>1. i \in 1 .. Len(stack') /\ i # 1
    BY DEF Moved
  <2>2. CASE i = n
    <3>1. stack'[i] = f /\ List(stack[i])' = List(f)
      BY <1>1, <2>1, <2>2, MovedFacts DEF List
    <3> QED  BY <1>3, <2>1, <2>2, <3>1
  <2>3. CASE i # n
    <3>1. i \in 1 .. Len(stack) /\ stack'[i] = stack[i]
      BY <2>1, <2>3, MovedFacts
    <3>2. List(stack[i])' = List(stack[i]) /\ i \in 2 .. Len(stack)
      BY <1>1, <2>1, <3>1 DEF List
    <3>3. PICK e \in 1 .. Len(cache) : cache[e].generic = List(stack[i])[r].generic
      BY <1>3, <3>1, <3>2 DEF Ordered
    <3> QED  BY <3>2, <3>3, GrowsFacts DEF Kept
  <2> QED  BY <2>2, <2>3
<1> QED  BY <1>1, <1>2, <1>3 DEF Ordered
------------------------------------------------------------------------------
(* The keys of the cache *)

LEMMA KeysStep ==
    ASSUME TypeOK, Keys, Kept, NEW n, NEW f, Moved(n, f), Unique(heap)',
           \A e : New(e) => /\ e = Len(cache) + 1
                            /\ \A k \in 1 .. Len(cache) : ~ SameInstance(cache'[e], cache[k])
                            /\ \A i \in 2 .. n - 1 : stack[i].stage = "signature" =>
                                 ~ SameInstance(cache'[e], stack[i]),
           n # 1 /\ f.stage = "signature" =>
             \A e \in 1 .. Len(cache') : ~ SameInstance(cache'[e], f)
    PROVE  Keys'
<1>1. Len(cache) \in Nat /\ Len(cache') \in Nat
  BY DEF TypeOK, Kept, Grows
<1>2. ASSUME NEW j \in 1 .. Len(cache'), NEW k \in 1 .. Len(cache'), SameInstance(cache'[j], cache'[k])
      PROVE  j = k
  <2>1. \A e \in 1 .. Len(cache') : e \notin 1 .. Len(cache) => New(e)
    BY <1>1 DEF New
  <2>2. CASE j \in 1 .. Len(cache) /\ k \in 1 .. Len(cache)
    <3>1. SameInstance(cache[j], cache[k])
      BY <1>2, <2>2, GrowsFacts DEF SameInstance, Kept
    <3> QED  BY <2>2, <3>1 DEF Keys
  <2>3. CASE j \in 1 .. Len(cache) /\ k \notin 1 .. Len(cache)
    <3>1. New(k) /\ SameInstance(cache'[k], cache[j])
      BY <1>2, <2>1, <2>3, GrowsFacts DEF SameInstance, Kept
    <3> QED  BY <2>3, <3>1
  <2>4. CASE j \notin 1 .. Len(cache) /\ k \in 1 .. Len(cache)
    <3>1. New(j) /\ SameInstance(cache'[j], cache[k])
      BY <1>2, <2>1, <2>4, GrowsFacts DEF SameInstance, Kept
    <3> QED  BY <2>4, <3>1
  <2>5. CASE j \notin 1 .. Len(cache) /\ k \notin 1 .. Len(cache)
    BY <2>1, <2>5
  <2> QED  BY <2>2, <2>3, <2>4, <2>5
<1>3. ASSUME NEW i \in 2 .. Len(stack'), stack'[i].stage = "signature", NEW e \in 1 .. Len(cache')
      PROVE  ~ SameInstance(cache'[e], stack'[i])
  <2>1. i \in 1 .. Len(stack') /\ i # 1 /\ Len(stack') = n /\ n \in Nat \ {0}
    BY DEF Moved
  <2>2. CASE i = n
    <3>1. stack'[i] = f
      BY <2>1, <2>2, MovedFacts
    <3> QED  BY <1>3, <2>1, <2>2, <3>1
  <2>3. CASE i # n
    <3>1. i \in 1 .. Len(stack) /\ stack'[i] = stack[i] /\ Len(stack) \in Nat
      BY <2>1, <2>3, MovedFacts DEF TypeOK
    <3>2. i \in 2 .. Len(stack) /\ i \in 2 .. n - 1
      BY <2>1, <2>3, <3>1
    <3>3. CASE e \in 1 .. Len(cache)
      <4>1. ~ SameInstance(cache[e], stack[i])
        BY <1>3, <3>1, <3>2, <3>3 DEF Keys
      <4> QED  BY <3>1, <3>3, <4>1, GrowsFacts DEF SameInstance, Kept
    <3>4. CASE e \notin 1 .. Len(cache)
      <4>1. New(e)
        BY <1>1, <3>4 DEF New
      <4> QED  BY <1>3, <3>1, <3>2, <4>1
    <3> QED  BY <3>3, <3>4
  <2> QED  BY <2>2, <2>3
<1> QED  BY <1>2, <1>3 DEF Keys

\* The innermost instantiation's generic is not under way below it when its
\* signature is done: what would then be asked for in the cycle was made
\* before what asked for it.
LEMMA NoCycle ==
    ASSUME TypeOK, Types, Stacked, Top.stage = "signature", NEW c,
           \A k \in 1 .. Len(c) :
             LET list == program.signature[c[k].generic]
             IN  \A r \in 1 .. Len(list) :
                    list[r].what # "name" => \E e \in 1 .. k - 1 : c[e].generic = list[r].generic,
           NEW i \in 2 .. Len(stack) - 1, stack[i].stage = "signature",
           Len(c) \in Nat, NEW l \in 1 .. Len(c), c[l].generic = Top.generic
    PROVE  stack[i].generic # Top.generic
<1> DEFINE n == Len(stack)
<1>0. n \in Nat \ {0} /\ i \in Nat /\ 2 <= i /\ i <= n - 1 /\ stack[n] = Top
  BY TopFacts
<1> HIDE DEF n
<1> SUFFICES ASSUME stack[i].generic = Top.generic PROVE FALSE
  OBVIOUS
<1> DEFINE S == {k \in 1 .. Len(c) : \E m \in i .. n - 1 : c[k].generic = stack[m].generic}
<1>1. S \in SUBSET Nat /\ l \in S
  BY <1>0
<1>2. PICK k \in S : \A j \in S : k <= j
  <2> HIDE DEF S
  <2> QED  BY <1>1, LeastNumber
<1>3. PICK m \in i .. n - 1 : c[k].generic = stack[m].generic
  BY <1>2
<1>4. k \in 1 .. Len(c)
  BY <1>2
<1>5. /\ m \in 1 .. n /\ m + 1 \in 1 .. n /\ m \in 1 .. n - 1 /\ i <= m /\ i \in 1 .. n
      /\ m \in Nat /\ (m = i \/ i < m) /\ m + 1 \in i .. n
  BY <1>0, <1>3
<1>6. stack[m].stage = "signature"
  <2>1. CASE m = i
    BY <2>1
  <2>2. CASE i < m
    <3>1. stack[m].generic \in TypeGenerics
      BY <1>5, <2>2 DEF Stacked, n
    <3> QED  BY <1>5, <3>1 DEF Stacked, n
  <2> QED  BY <1>5, <2>1, <2>2
<1> DEFINE list == List(stack[m])
           r == stack[m].next
<1>7. /\ r <= Len(list) /\ list[r].what # "name" /\ list[r].generic = stack[m + 1].generic
  BY <1>5 DEF Stacked, Pending, n
<1>8. stack[m] \in Frame
  BY <1>5, TopFacts DEF n
<1>9. list = program.signature[stack[m].generic] /\ Len(list) \in Nat /\ r \in Nat \ {0}
  BY <1>6, <1>8, ListFacts, FrameFacts DEF Types
<1>10. r \in 1 .. Len(list) /\ list = program.signature[c[k].generic]
  BY <1>3, <1>7, <1>9
<1> HIDE DEF list, r
<1>11. PICK e \in 1 .. k - 1 : c[e].generic = stack[m + 1].generic
  BY <1>4, <1>7, <1>10
<1>12. e \in 1 .. Len(c) /\ e < k
  BY <1>4
<1>13. e \in S
  <2>1. CASE m + 1 = n
    <3>1. c[e].generic = stack[n].generic
      BY <1>11, <2>1
    <3>2. c[e].generic = stack[i].generic
      BY <1>0, <3>1
    <3>3. i \in i .. n - 1
      BY <1>0
    <3> QED  BY <1>12, <3>2, <3>3
  <2>2. CASE m + 1 # n
    <3>1. m + 1 \in i .. n - 1
      BY <1>0, <1>5, <2>2
    <3> QED  BY <1>11, <1>12, <3>1
  <2> QED  BY <2>1, <2>2
<1> QED  BY <1>2, <1>4, <1>12, <1>13

\* The type of an instance that goes into the cache is not there yet.
LEMMA UniqueWith ==
    ASSUME TypeOK, Types, Keys, heap' = heap, NEW x, cache' = Append(cache, x), x \in Entry,
           Holds(heap, x), \A k \in 1 .. Len(cache) : ~ SameInstance(cache[k], x)
    PROVE  Unique(heap)'
<1>1. /\ cache \in Seq(Entry) /\ heap \in Seq(TypeObject) /\ Len(cache) \in Nat /\ Built(heap)
      /\ Unique(heap) /\ Len(cache') = Len(cache) + 1 /\ cache'[Len(cache) + 1] = x
      /\ \A e \in 1 .. Len(cache) : cache'[e] = cache[e]
  BY DEF TypeOK, Types, Keys
<1>2. ASSUME NEW t, Live(heap, t)' PROVE Live(heap, t) \/ (t = x.type /\ t \in 1 .. Len(heap))
  <2>1. t \in 1 .. Len(heap)
    BY <1>2 DEF Live
  <2>2. CASE heap[t].base # 0 \/ t <= Len(Declared)
    BY <2>1, <2>2 DEF Live
  <2>3. CASE \E e \in 1 .. Len(cache') : cache'[e].type = t
    <3>1. PICK e \in 1 .. Len(cache') : cache'[e].type = t
      BY <2>3
    <3>2. e \in 1 .. Len(cache) \/ e = Len(cache) + 1
      BY <1>1
    <3> QED  BY <1>1, <2>1, <3>1, <3>2 DEF Live
  <2> QED  BY <1>2, <2>2, <2>3 DEF Live
<1>3. ASSUME NEW u, Live(heap, u), x.type \in 1 .. Len(heap), heap[u].shape = heap[x.type].shape,
             Plain(heap[u].shape)
      PROVE  u = x.type
  <2> SUFFICES ASSUME u # x.type PROVE FALSE
    OBVIOUS
  <2>1. x.generic \in TypeGenerics /\ IsInstance(heap, x.type, x.generic, x.arg) /\ Live(heap, x.arg)
    <3>1. x.generic \notin TypeGenerics => x.type = 0
      BY DEF Holds
    <3>2. x.type # 0
      BY <1>1, <1>3
    <3> QED  BY <3>1, <3>2 DEF Holds
  <2>2. u \in 1 .. Len(heap) /\ x.arg \in 1 .. Len(heap) /\ u \in Nat
    BY <1>3, <2>1 DEF Live
  <2>3. \E g \in TypeGenerics : \E a \in 1 .. u - 1 : IsInstance(heap, u, g, a)
    <3>1. \E a \in 1 .. x.type - 1 : IsInstance(heap, x.type, x.generic, a)
      BY <2>1 DEF IsInstance
    <3>2. heap[x.type].shape[1] \in TypeGenerics
      BY <1>1, <1>3, <2>1, <3>1, Outermost
    <3>3. heap[u].shape[1] \in TypeGenerics
      BY <1>3, <3>2
    <3> QED  BY <1>1, <2>2, <3>3, Outermost
  <2>4. heap[u].base = 0 /\ ~ (u <= Len(Declared))
    <3>1. Len(Declared) \in Nat
      BY DeclaredAssumption
    <3> QED  BY <2>2, <2>3, <3>1 DEF IsInstance
  <2>5. PICK e \in 1 .. Len(cache) : cache[e].type = u
    BY <1>3, <2>4 DEF Live
  <2>6. Holds(heap, cache[e])
    BY DEF Types
  <2>7. /\ IsInstance(heap, u, cache[e].generic, cache[e].arg) /\ cache[e].generic \in TypeGenerics
        /\ Live(heap, cache[e].arg) /\ cache[e].arg \in 1 .. Len(heap)
    <3>1. u # 0
      BY <2>2
    <3>2. cache[e].generic \in TypeGenerics
      BY <2>5, <2>6, <3>1 DEF Holds
    <3>3. Live(heap, cache[e].arg)
      BY <2>6 DEF Holds
    <3>4. IsInstance(heap, u, cache[e].generic, cache[e].arg)
      BY <2>5, <2>6, <3>2 DEF Holds
    <3> QED  BY <3>2, <3>3, <3>4 DEF Live
  <2>8. /\ x.generic \in Tokens /\ cache[e].generic \in Tokens
        /\ heap[x.arg].shape \in Seq(Tokens) /\ heap[cache[e].arg].shape \in Seq(Tokens)
    BY <1>1, <2>1, <2>2, <2>7, ObjectFacts DEF Tokens, Generics
  <2>9. /\ heap[u].shape = Apply(cache[e].generic, heap[cache[e].arg].shape)
        /\ heap[x.type].shape = Apply(x.generic, heap[x.arg].shape)
    BY <2>1, <2>7 DEF IsInstance
  <2>10. cache[e].generic = x.generic /\ heap[cache[e].arg].shape = heap[x.arg].shape
    <3>1. Apply(cache[e].generic, heap[cache[e].arg].shape) = Apply(x.generic, heap[x.arg].shape)
      BY <1>3, <2>9
    <3>2. cache[e].generic = x.generic
      BY <2>8, <3>1, ApplyInjective
    <3>3. heap[cache[e].arg].shape = heap[x.arg].shape
      BY <2>8, <3>1, ApplyInjective
    <3> QED  BY <3>2, <3>3
  <2>11. Plain(heap[x.arg].shape)
    BY <1>3, <2>8, <2>9, PlainApply
  <2>12. cache[e].arg = x.arg
    BY <1>1, <2>1, <2>2, <2>7, <2>10, <2>11 DEF Unique
  <2> QED  BY <2>10, <2>12 DEF SameInstance
<1>4. ASSUME NEW t \in 1 .. Len(heap), NEW u \in 1 .. Len(heap), Live(heap, t)', Live(heap, u)',
             heap[t].shape = heap[u].shape, Plain(heap[t].shape)
      PROVE  t = u
  <2>1. CASE Live(heap, t) /\ Live(heap, u)
    BY <1>1, <1>4, <2>1 DEF Unique
  <2>2. CASE Live(heap, t) /\ u = x.type
    BY <1>3, <1>4, <2>2
  <2>3. CASE t = x.type /\ Live(heap, u)
    BY <1>3, <1>4, <2>3
  <2>4. CASE t = x.type /\ u = x.type
    BY <2>4
  <2> QED  BY <1>2, <1>4, <2>1, <2>2, <2>3, <2>4
<1> QED  BY <1>1, <1>4 DEF Unique, Live
------------------------------------------------------------------------------
(* Every step keeps them *)

Core == TypeOK /\ Types /\ Stacked /\ Ordered /\ Keys

\* What is said of the rest of the state.
Typed ==
    /\ UNCHANGED <<visited, emitted>> /\ failing' \in BOOLEAN /\ errors' \in BOOLEAN
    /\ pc' \in {"analyzing", "generating", "done", "rejected", "overflow"}
    /\ hits' \subseteq Seq(Tokens) \X Seq(Tokens)

\* What is said of the frame a step leaves innermost.
Fits(n, f) ==
    /\ f.generic \in TypeGenerics => f.stage = "signature"
    /\ f.next <= Len(List(f)) + 1
    /\ failing' => Pending(f)
    /\ n <= Len(stack) => f.generic = stack[n].generic
    /\ n > Len(stack) => /\ f.generic # Root /\ f.generic = NextRequest.generic
                         /\ NextRequest.what # "name" /\ Pending(Top)
                         /\ Top.stage = "signature" => f.generic \in TypeGenerics
Asks(n, f) ==
    n # 1 /\ f.stage = "signature" =>
      /\ \A r \in 1 .. f.next - 1 :
           List(f)[r].what # "name" =>
             \E e \in 1 .. Len(cache') : cache'[e].generic = List(f)[r].generic
      /\ \A e \in 1 .. Len(cache') : ~ SameInstance(cache'[e], f)

\* The same of a step that adds nothing to the cache.
LEMMA CoreStep ==
    ASSUME Core, Kept, Typed, NEW n, NEW f, Moved(n, f), Reaches(heap, f)', Fits(n, f), Asks(n, f),
           Built(heap)', Unique(heap)', Len(cache') = Len(cache)
    PROVE  Core'
<1>1. TypeOK /\ Types /\ Stacked /\ Ordered /\ Keys /\ program' = program
  BY DEF Core, Kept
<1>2. \A e : ~ New(e)
  <2>1. Len(cache) \in Nat
    BY <1>1 DEF TypeOK
  <2> QED  BY <2>1 DEF New
<1>3. TypeOK'
  BY <1>1, TypeStep DEF Typed
<1>4. Types'
  BY <1>1, <1>2, TypesStep
<1>5. Stacked'
  BY <1>1, StackedStep DEF Fits
<1>6. Ordered'
  BY <1>1, <1>2, OrderedStep DEF Asks
<1>7. Keys'
  BY <1>1, <1>2, KeysStep DEF Asks
<1> QED  BY <1>3, <1>4, <1>5, <1>6, <1>7 DEF Core

LEMMA Still ==
    ASSUME Core, heap' = heap, cache' = cache, program' = program
    PROVE  Kept /\ Built(heap)' /\ Unique(heap)' /\ Len(cache') = Len(cache)
<1>1. Kept
  <2>1. Extends(heap, heap')
    BY DEF Core, TypeOK, Extends
  <2> QED  BY <2>1, SameGrows DEF Core, Kept
<1>2. Built(heap)'
  BY <1>1, BuiltOn DEF Core, Types
<1>3. Unique(heap)'
  BY DEF Core, Keys, Unique, Live
<1> QED  BY <1>1, <1>2, <1>3

LEMMA Requested ==
    ASSUME Core, HasRequest, Known(NextRequest.base),
           NEW r \in Wrapped(NextRequest.wrap, TypeNamed(NextRequest.base)),
           heap' = r[1], cache' = cache, program' = program
    PROVE  Kept /\ Built(heap)' /\ Unique(heap)' /\ Live(heap, r[2])' /\ Len(cache') = Len(cache)
<1>1. /\ Extends(heap, r[1]) /\ Built(r[1]) /\ Unique(r[1]) /\ Live(r[1], r[2])
  BY AskedFor DEF Core
<1>2. Kept
  BY <1>1, SameGrows DEF Core, Kept
<1>3. Built(heap)'
  BY <1>1 DEF Built, IsDeclared, IsWrapped, IsInstance, Live
<1>4. \A t : Live(r[1], t) <=> Live(heap, t)'
  BY DEF Live
<1>5. Unique(heap)'
  BY <1>1, <1>4 DEF Unique
<1>6. Live(heap, r[2])'
  BY <1>1, <1>4
<1> QED  BY <1>2, <1>3, <1>5, <1>6

LEMMA CoreFacts ==
    ASSUME Core
    PROVE  /\ Top \in Frame /\ Len(stack) \in Nat \ {0} /\ Top = stack[Len(stack)]
           /\ Len(stack) \in 1 .. Len(stack)
           /\ Top.next \in Nat \ {0} /\ Len(List(Top)) \in Nat
           /\ Top.next <= Len(List(Top)) + 1 /\ Reaches(heap, Top)
           /\ Top.generic \in TypeGenerics => Top.stage = "signature"
           /\ Top.generic = Root <=> Len(stack) = 1
           /\ Len(stack) # 1 => Len(stack) \in 2 .. Len(stack)
           /\ failing \in BOOLEAN /\ errors \in BOOLEAN
           /\ pc \in {"analyzing", "generating", "done", "rejected", "overflow"}
           /\ hits \subseteq Seq(Tokens) \X Seq(Tokens)
<1>1. TypeOK /\ Stacked /\ Types
  BY DEF Core
<1>2. /\ Top \in Frame /\ Len(stack) \in Nat \ {0} /\ Top = stack[Len(stack)]
      /\ Len(stack) \in 1 .. Len(stack)
  BY <1>1, TopFacts
<1>3. Top.next \in Nat \ {0} /\ Len(List(Top)) \in Nat
  BY <1>1, <1>2, ListFacts, FrameFacts DEF Types
<1>4. Top.next <= Len(List(Top)) + 1 /\ Reaches(heap, Top)
  BY <1>1, <1>2 DEF Stacked, Types
<1>5. /\ Top.generic \in TypeGenerics => Top.stage = "signature"
      /\ Top.generic = Root <=> Len(stack) = 1
  BY <1>1, <1>2 DEF Stacked
<1>6. Len(stack) # 1 => Len(stack) \in 2 .. Len(stack)
  <2>1. \A n \in Nat \ {0} : n # 1 => n \in 2 .. n
    OBVIOUS
  <2> QED  BY <1>2, <2>1
<1>7. /\ failing \in BOOLEAN /\ errors \in BOOLEAN
      /\ pc \in {"analyzing", "generating", "done", "rejected", "overflow"}
      /\ hits \subseteq Seq(Tokens) \X Seq(Tokens)
  BY <1>1 DEF TypeOK
<1> QED  BY <1>2, <1>3, <1>4, <1>5, <1>6, <1>7

\* The innermost frame as it stood asks for nothing that is not there.
LEMMA TopAsks ==
    ASSUME Core, cache' = cache
    PROVE  Asks(Len(stack), Top)
<1>1. CASE Len(stack) # 1 /\ Top.stage = "signature"
  <2>1. Len(stack) \in 2 .. Len(stack) /\ Top = stack[Len(stack)]
    BY <1>1, CoreFacts
  <2>2. \A r \in 1 .. Top.next - 1 :
           List(Top)[r].what # "name" =>
             \E e \in 1 .. Len(cache) : cache[e].generic = List(Top)[r].generic
    BY <1>1, <2>1 DEF Core, Ordered
  <2>3. \A e \in 1 .. Len(cache) : ~ SameInstance(cache[e], Top)
    BY <1>1, <2>1 DEF Core, Keys
  <2> QED  BY <2>2, <2>3 DEF Asks
<1>2. CASE ~ (Len(stack) # 1 /\ Top.stage = "signature")
  BY <1>2 DEF Asks
<1> QED  BY <1>1, <1>2

\* So it does when its next request is answered from the cache, or is a name.
LEMMA AnswerAsks ==
    ASSUME Core, cache' = cache, NEW f, Top.next <= Len(List(Top)), SameFrame(f, Top), f.stage = Top.stage, f.next = Top.next + 1,
           NextRequest.what # "name" =>
             \E e \in 1 .. Len(cache) : cache[e].generic = NextRequest.generic
    PROVE  Asks(Len(stack), f)
<1>1. SUFFICES ASSUME Len(stack) # 1, f.stage = "signature" PROVE
          /\ \A r \in 1 .. f.next - 1 :
               List(f)[r].what # "name" =>
                 \E e \in 1 .. Len(cache) : cache[e].generic = List(f)[r].generic
          /\ \A e \in 1 .. Len(cache) : ~ SameInstance(cache[e], f)
  BY DEF Asks
<1>2. /\ \A r \in 1 .. Top.next - 1 :
           List(Top)[r].what # "name" =>
             \E e \in 1 .. Len(cache) : cache[e].generic = List(Top)[r].generic
      /\ \A e \in 1 .. Len(cache) : ~ SameInstance(cache[e], Top)
  BY <1>1, TopAsks DEF Asks
<1>3. List(f) = List(Top)
  BY DEF List, SameFrame
<1>4. ASSUME NEW r \in 1 .. f.next - 1
      PROVE  r \in 1 .. Top.next - 1 \/ List(f)[r] = NextRequest
  <2>1. Top.next \in Nat \ {0}
    BY CoreFacts
  <2>2. r \in 1 .. Top.next - 1 \/ r = Top.next
    BY <2>1
  <2> QED  BY <1>3, <2>2 DEF NextRequest
<1>5. \A e \in 1 .. Len(cache) : ~ SameInstance(cache[e], f)
  BY <1>2 DEF SameInstance, SameFrame
<1> QED  BY <1>2, <1>3, <1>4, <1>5

LEMMA AnswerFits ==
    ASSUME Core, NEW f, Top.next <= Len(List(Top)), SameFrame(f, Top), f.stage = Top.stage,
           f.next = Top.next + 1, ~ failing'
    PROVE  Fits(Len(stack), f)
<1>1. List(f) = List(Top)
  BY DEF List, SameFrame
<1>2. /\ Top.next \in Nat \ {0} /\ Len(List(Top)) \in Nat /\ Len(stack) \in Nat
      /\ Top = stack[Len(stack)]
      /\ Top.generic \in TypeGenerics => Top.stage = "signature"
  BY CoreFacts
<1>3. f.next <= Len(List(f)) + 1
  BY <1>1, <1>2
<1>4. ~ (Len(stack) > Len(stack))
  BY <1>2
<1> QED  BY <1>2, <1>3, <1>4 DEF Fits, SameFrame

LEMMA SameMoves ==
    ASSUME Core, stack' = stack
    PROVE  Moved(Len(stack), Top)
  BY CoreFacts DEF Core, TypeOK, Moved

LEMMA RequestAt ==
    ASSUME Core, HasRequest
    PROVE  Top.next <= Len(List(Top)) /\ ~ failing /\ Pending(Top) /\ pc = "analyzing"
  BY DEF HasRequest, Analyzing, Pending

\* The innermost frame stays as it is.
LEMMA StillCore ==
    ASSUME Core, heap' = heap, cache' = cache, program' = program, stack' = stack, Typed,
           failing' => Pending(Top)
    PROVE  Core'
<1>1. Kept /\ Built(heap)' /\ Unique(heap)' /\ Len(cache') = Len(cache)
  BY Still
<1>2. PICK f, n : f = Top /\ n = Len(stack)
  OBVIOUS
<1>3. Moved(n, f) /\ Asks(n, f)
  BY <1>2, SameMoves, TopAsks
<1>4. Fits(n, f)
  BY <1>2, CoreFacts DEF Fits
<1>5. Reaches(heap, f)'
  <2>1. Reaches(heap, f)
    BY <1>2, CoreFacts
  <2> QED  BY <1>1, <2>1, ReachesOn DEF Core, SameFrame
<1> QED  BY <1>1, <1>3, <1>4, <1>5, CoreStep

LEMMA UnknownTypeCore == ASSUME Core, UnknownType PROVE Core'
<1>1. Typed
  BY CoreFacts DEF UnknownType, Typed
<1>2. Pending(Top)
  BY RequestAt DEF UnknownType
<1> QED  BY <1>1, <1>2, StillCore DEF UnknownType

\* The request is answered where the innermost frame stands.
LEMMA AnswerCore ==
    ASSUME Core, Kept, Typed, Built(heap)', Unique(heap)', Len(cache') = Len(cache), cache' = cache, HasRequest, ~ failing',
           NEW t \in Nat, stack' = WithTop(Answered(Top, t)), t # 0 => Live(heap, t)',
           NextRequest.what # "name" =>
             \E e \in 1 .. Len(cache) : cache[e].generic = NextRequest.generic
    PROVE  Core'
<1>1. PICK f, n, top : f = Answered(Top, t) /\ n = Len(stack) /\ top = Top
  OBVIOUS
<1>2. /\ f \in Frame /\ SameFrame(f, top) /\ f.stage = top.stage /\ f.next = top.next + 1
      /\ f.last = IF t = 0 THEN top.last ELSE t
  BY <1>1, CoreFacts, AnsweredIs
<1>3. Moved(n, f)
  BY <1>1, <1>2, WithTopMoves DEF Core
<1>4. Asks(n, f)
  BY <1>1, <1>2, RequestAt, AnswerAsks
<1>5. Fits(n, f)
  BY <1>1, <1>2, RequestAt, AnswerFits
<1>6. Reaches(heap, f)'
  <2>1. Reaches(heap, top)
    BY <1>1, CoreFacts
  <2>2. f.last \in {0, top.last} \/ Live(heap, f.last)'
    <3>1. CASE t = 0
      BY <1>2, <3>1
    <3>2. CASE t # 0
      <4>1. f.last = t
        BY <1>2, <3>2
      <4> QED  BY <3>2, <4>1 DEF Live
    <3> QED  BY <3>1, <3>2
  <2> QED  BY <1>2, <2>1, <2>2, ReachesOn DEF Core
<1> QED  BY <1>3, <1>4, <1>5, <1>6, CoreStep

LEMMA NameTypeCore == ASSUME Core, NameType PROVE Core'
<1>1. HasRequest /\ NextRequest.what = "name" /\ Known(NextRequest.base) /\ cache' = cache /\ program' = program
  BY DEF NameType
<1>2. PICK r \in Wrapped(NextRequest.wrap, TypeNamed(NextRequest.base)) : heap' = r[1]
  BY DEF NameType
<1>3. Kept /\ Built(heap)' /\ Unique(heap)' /\ Len(cache') = Len(cache)
  BY <1>1, <1>2, Requested
<1>4. Typed /\ ~ failing'
  BY <1>1, RequestAt, CoreFacts DEF NameType, Typed
<1>5. stack' = WithTop(Answered(Top, 0)) /\ 0 \in Nat
  BY DEF NameType
<1> QED  BY <1>1, <1>3, <1>4, <1>5, AnswerCore

\* What the cache answers with.
LEMMA HitFacts ==
    ASSUME Core, HasRequest, NextRequest.what # "name", Known(NextRequest.base),
           NEW r \in Wrapped(NextRequest.wrap, TypeNamed(NextRequest.base)),
           NEW found, found = Found(r[1], NextRequest.generic, r[2]), found # {}
    PROVE  /\ Max(found) \in 1 .. Len(cache)
           /\ cache[Max(found)].generic = NextRequest.generic
           /\ Mangled(r[1][cache[Max(found)].arg].shape) = Mangled(r[1][r[2]].shape)
           /\ Holds(heap, cache[Max(found)]) /\ cache[Max(found)] \in Entry
<1>1. Len(cache) \in Nat /\ cache \in Seq(Entry) /\ found \in SUBSET (1 .. Len(cache))
  BY DEF Core, TypeOK, Found
<1>2. Max(found) \in found
  BY <1>1, GreatestNumber
<1> DEFINE m == Max(found)
<1> HIDE DEF m
<1>3. /\ m \in 1 .. Len(cache) /\ cache[m].generic = NextRequest.generic
      /\ Mangled(r[1][cache[m].arg].shape) = Mangled(r[1][r[2]].shape)
  BY <1>2 DEF Found, SameKey, m
<1>4. Holds(heap, cache[m])
  BY <1>3 DEF Core, Types
<1> QED  BY <1>1, <1>3, <1>4 DEF m

LEMMA CacheHitCore == ASSUME Core, CacheHit PROVE Core'
<1>1. /\ HasRequest /\ NextRequest.what # "name" /\ Known(NextRequest.base) /\ cache' = cache
      /\ program' = program
  BY DEF CacheHit
<1>2. PICK r \in Wrapped(NextRequest.wrap, TypeNamed(NextRequest.base)) :
         LET found == Found(r[1], NextRequest.generic, r[2])
             entry == cache[Max(found)]
         IN  /\ found # {}
             /\ heap' = r[1]
             /\ stack' = WithTop(Answered(Top, entry.type))
             /\ hits' = hits \cup {<<r[1][r[2]].shape, r[1][entry.arg].shape>>}
  BY DEF CacheHit
<1>3. PICK found : found = Found(r[1], NextRequest.generic, r[2])
  OBVIOUS
<1>4. PICK m : m = Max(found)
  OBVIOUS
<1>5. /\ found # {} /\ heap' = r[1] /\ stack' = WithTop(Answered(Top, cache[m].type))
      /\ hits' = hits \cup {<<r[1][r[2]].shape, r[1][cache[m].arg].shape>>}
  BY <1>2, <1>3, <1>4
<1>6. /\ m \in 1 .. Len(cache) /\ cache[m].generic = NextRequest.generic
      /\ Holds(heap, cache[m]) /\ cache[m] \in Entry
  BY <1>1, <1>3, <1>4, <1>5, HitFacts
<1>7. Kept /\ Built(heap)' /\ Unique(heap)' /\ Len(cache') = Len(cache)
  BY <1>1, <1>5, Requested
<1>8. PICK t, a : t = cache[m].type /\ a = cache[m].arg
  OBVIOUS
<1>9. t \in Nat
  BY <1>6, <1>8 DEF Entry
<1>10. t # 0 => Live(heap, t)'
  <2> SUFFICES ASSUME t # 0 PROVE Live(heap, t)'
    OBVIOUS
  <2>1. IsInstance(heap, t, cache[m].generic, a)
    BY <1>6, <1>8 DEF Holds
  <2>2. Len(heap) \in Nat /\ Len(Declared) \in Nat
    BY DeclaredAssumption DEF Core, TypeOK
  <2>3. Live(heap, t)
    BY <1>6, <1>8, <2>1, <2>2 DEF Live, IsInstance
  <2> QED  BY <1>7, <2>3, LivesOn DEF Core
<1>11. hits' \subseteq Seq(Tokens) \X Seq(Tokens)
  <2>1. r[1] \in Seq(TypeObject) /\ r[2] \in 1 .. Len(r[1])
    BY <1>1, AskedFor DEF Core
  <2>2. a \in 1 .. Len(r[1])
    <3>1. Live(heap, a)
      BY <1>6, <1>8 DEF Holds
    <3>2. a \in 1 .. Len(heap')
      BY <1>7, <3>1, LivesOn DEF Core
    <3> QED  BY <1>5, <3>2
  <2>3. r[1][r[2]].shape \in Seq(Tokens) /\ r[1][a].shape \in Seq(Tokens)
    BY <2>1, <2>2, ObjectFacts
  <2> QED  BY <1>5, <1>8, <2>3, CoreFacts
<1>12. Typed /\ ~ failing'
  BY <1>1, <1>11, RequestAt, CoreFacts DEF CacheHit, Typed
<1>13. stack' = WithTop(Answered(Top, t))
  BY <1>5, <1>8
<1> QED  BY <1>1, <1>6, <1>7, <1>9, <1>10, <1>12, <1>13, AnswerCore

LEMMA BindIs ==
    ASSUME Core, NEW g \in Generics, NEW a \in Nat
    PROVE  /\ Bind(g, a) \in [Names -> Nat] /\ program.param[g] \in Names
           /\ \A n \in Names : Bind(g, a)[n] = IF n = program.param[g] THEN a ELSE Top.bindings[n]
<1>1. Top.bindings \in [Names -> Nat]
  BY CoreFacts, FrameFacts
<1>2. program.param[g] \in Names
  BY DEF Core, TypeOK, Program
<1> QED  BY <1>1, <1>2 DEF Bind

LEMMA BindAt ==
    ASSUME Core, NEW g \in Generics, NEW a \in Nat, NEW n \in Names
    PROVE  Bind(g, a)[n] = IF n = program.param[g] THEN a ELSE Top.bindings[n]
  BY BindIs

\* A frame for a new instance goes on top.
LEMMA PushCore ==
    ASSUME Core, Kept, Typed, Built(heap)', Unique(heap)', cache' = cache, HasRequest, ~ failing',
           NextRequest.what # "name", NextRequest \in Request,
           NEW a \in Nat, Live(heap, a)', NEW t \in Nat, NEW g, g = NextRequest.generic,
           \/ g \in FunGenerics /\ t = 0
           \/ g \in TypeGenerics /\ IsInstance(heap, t, g, a)',
           \A e \in 1 .. Len(cache) : ~ (cache[e].generic = g /\ cache[e].arg = a),
           stack' = Append(stack, FrameOf(g, a, t, Bind(g, a)))
    PROVE  Core'
<1>1. g \in Generics /\ g # Root
  BY TokensAssumption DEF Generics
<1>2. PICK f, n, b, top : f = FrameOf(g, a, t, Bind(g, a)) /\ n = Len(stack) + 1 /\ b = Bind(g, a) /\ top = Top
  OBVIOUS
<1>3. /\ b \in [Names -> Nat]
      /\ \A x \in Names : b[x] = IF x = program.param[g] THEN a ELSE top.bindings[x]
  <2>1. b \in [Names -> Nat]
    BY <1>1, <1>2, BindIs
  <2>2. \A x \in Names : Bind(g, a)[x] = IF x = program.param[g] THEN a ELSE Top.bindings[x]
    BY <1>1, BindAt
  <2> QED  BY <1>2, <2>1, <2>2, Zenon
<1>4. /\ f \in Frame /\ f.generic = g /\ f.arg = a /\ f.type = t /\ f.bindings = b
      /\ f.stage = "signature" /\ f.next = 1 /\ f.last = 0
  <2>1. f = FrameOf(g, a, t, b)
    BY <1>2
  <2>2. FrameOf(g, a, t, b) \in Frame
    BY <1>1, <1>3, FrameOfIs, Zenon
  <2>3. /\ f.generic = g /\ f.arg = a /\ f.type = t /\ f.bindings = b
        /\ f.stage = "signature" /\ f.next = 1 /\ f.last = 0
    BY <2>1 DEF FrameOf
  <2> QED  BY <2>1, <2>2, <2>3
<1>5. Moved(n, f)
  BY <1>2, <1>4, PushMoves DEF Core
<1>6. TypeGenerics \cap FunGenerics = {}
  BY TokensAssumption
<1>7. Len(List(f)) \in Nat
  BY <1>4, ListFacts DEF Core, Types
<1>8. Top.stage = "signature" => g \in TypeGenerics
  <2>1. Top.next \in 1 .. Len(List(Top)) /\ Top \in Frame
    BY RequestAt, CoreFacts
  <2>2. /\ Top.stage = "signature" => NextRequest.what # "call"
        /\ NextRequest.what = "type" => NextRequest.generic \in TypeGenerics
    BY <2>1, RequestFacts DEF NextRequest, Core, Types
  <2>3. NextRequest.what \in {"name", "type", "call"}
    BY DEF Request
  <2> QED  BY <2>2, <2>3
<1>9. Fits(n, f)
  <2>1. Len(stack) \in Nat /\ ~ (n <= Len(stack))
    BY <1>2, CoreFacts
  <2>2. Pending(Top)
    BY RequestAt
  <2>3. f.next <= Len(List(f)) + 1
    BY <1>4, <1>7
  <2> QED  BY <1>1, <1>4, <1>8, <2>1, <2>2, <2>3 DEF Fits
<1>10. Asks(n, f)
  <2>1. ~ \E r : r \in 1 .. f.next - 1
    BY <1>4
  <2> QED  BY <1>4, <2>1 DEF Asks, SameInstance
<1>11. Reaches(heap, f)'
  <2>1. Binds(heap, f)'
    <3> SUFFICES ASSUME NEW x \in Names, f.bindings[x] # 0 PROVE Live(heap, f.bindings[x])'
      BY DEF Binds
    <3>1. CASE x = program.param[g]
      BY <1>3, <1>4, <3>1 DEF Live
    <3>2. CASE x # program.param[g]
      <4>1. f.bindings[x] = top.bindings[x]
        BY <1>3, <1>4, <3>2
      <4>2. Live(heap, top.bindings[x])
        BY <1>2, <4>1, CoreFacts DEF Reaches, Binds
      <4>3. PICK y : y = f.bindings[x]
        OBVIOUS
      <4>4. Live(heap, y)'
        BY <4>1, <4>2, <4>3, LivesOn DEF Core
      <4> QED  BY <4>3, <4>4 DEF Live
    <3> QED  BY <3>1, <3>2
  <2>2. Holds(heap, f)'
    <3>1. Live(heap, f.arg)'
      BY <1>4 DEF Live
    <3>2. CASE g \in FunGenerics /\ t = 0
      BY <1>4, <1>6, <3>1, <3>2 DEF Holds
    <3>3. CASE g \in TypeGenerics /\ IsInstance(heap, t, g, a)'
      <4>1. IsInstance(heap, f.type, f.generic, f.arg)'
        BY <1>4, <3>3 DEF IsInstance
      <4> QED  BY <1>4, <3>1, <3>3, <4>1 DEF Holds
    <3> QED  BY <3>2, <3>3
  <2> QED  BY <1>4, <2>1, <2>2 DEF Reaches
<1> QED  BY <1>5, <1>9, <1>10, <1>11, CoreStep

\* An instance of a type begins: its type is made.
LEMMA NewInstance ==
    ASSUME Core, HasRequest, Known(NextRequest.base), cache' = cache, program' = program,
           NEW r \in Wrapped(NextRequest.wrap, TypeNamed(NextRequest.base)),
           NEW g \in TypeGenerics, heap' \in NewType(r[1], <<g>> \o r[1][r[2]].shape, 0)
    PROVE  /\ Kept /\ Built(heap)' /\ Unique(heap)' /\ Live(heap, r[2])'
           /\ IsInstance(heap, Len(heap), g, r[2])' /\ Len(heap') \in Nat
<1>1. PICK b \in Buckets :
        heap' = Append(r[1], [shape |-> <<g>> \o r[1][r[2]].shape, base |-> 0, bucket |-> b])
  BY DEF NewType
<1>2. PICK h, a, k : h = r[1] /\ a = r[2] /\ k = heap'
  OBVIOUS
<1>3. PICK o : o = [shape |-> <<g>> \o h[a].shape, base |-> 0, bucket |-> b]
  OBVIOUS
<1>4. k = Append(h, o)
  BY <1>1, <1>2, <1>3
<1>5. /\ Extends(heap, h) /\ Built(h) /\ Unique(h) /\ Live(h, a) /\ a \in 1 .. Len(h)
      /\ h \in Seq(TypeObject)
  BY <1>2, AskedFor DEF Core
<1>6. o.shape = Apply(g, h[a].shape) /\ o.base = 0
  BY <1>3 DEF Apply
<1>7. o \in TypeObject
  <2>1. g \in Tokens /\ h[a].shape \in Seq(Tokens)
    BY <1>5, ObjectFacts DEF Tokens, Generics
  <2>2. Apply(g, h[a].shape) \in Seq(Tokens)
    BY <2>1, ApplyFacts, Zenon
  <2>3. <<g>> \o h[a].shape \in Seq(Tokens) /\ 0 \in Nat /\ b \in Buckets \cup {0}
    BY <2>2 DEF Apply
  <2> QED  BY <1>3, <2>3 DEF TypeObject
<1>8. \A e \in 1 .. Len(cache) : cache[e].type \in 0 .. Len(h)
  <2> SUFFICES ASSUME NEW e \in 1 .. Len(cache) PROVE cache[e].type \in 0 .. Len(h)
    OBVIOUS
  <2>1. Holds(heap, cache[e])
    BY DEF Core, Types
  <2>2. Len(heap) \in Nat /\ Len(h) \in Nat /\ Len(heap) <= Len(h) /\ Len(Declared) \in Nat
    BY <1>5, DeclaredAssumption DEF Extends
  <2>3. CASE cache[e].generic \in TypeGenerics
    <3>1. cache[e].type \in Len(Declared) + 1 .. Len(heap)
      BY <2>1, <2>3 DEF Holds, IsInstance
    <3> QED  BY <2>2, <3>1
  <2>4. CASE cache[e].generic \notin TypeGenerics
    <3>1. cache[e].type = 0
      BY <2>1, <2>4 DEF Holds
    <3> QED  BY <2>2, <3>1
  <2> QED  BY <2>3, <2>4
<1>9. Extends(h, k) /\ Built(k)
  BY <1>4, <1>5, <1>6, <1>7, <1>8, NewRoot
<1>10. Unique(k)
  BY <1>4, <1>5, <1>6, <1>7, <1>8, NewRoot
<1>11. IsInstance(k, Len(k), g, a)
  BY <1>4, <1>5, <1>6, <1>7, <1>8, NewRoot
<1>12. Extends(heap, k)
  BY <1>5, <1>9, ExtendsTransitive
<1>13. Kept
  BY <1>2, <1>12, SameGrows DEF Core, Kept
<1>14. \A t : Live(k, t) <=> Live(heap, t)'
  BY <1>2 DEF Live
<1>15. Built(heap)'
  BY <1>2, <1>9 DEF Built, IsDeclared, IsWrapped, IsInstance, Live
<1>16. Unique(heap)'
  BY <1>2, <1>10, <1>14 DEF Unique
<1>17. Live(heap, a)'
  <2>1. Live(k, a)
    BY <1>5, <1>9, StaysLive
  <2> QED  BY <1>14, <2>1
<1>18. IsInstance(heap, Len(heap), g, a)' /\ Len(heap') \in Nat
  BY <1>2, <1>9, <1>11 DEF IsInstance, Extends
<1> QED  BY <1>2, <1>13, <1>15, <1>16, <1>17, <1>18 DEF Live, IsInstance

LEMMA InstantiateCore == ASSUME Core, Instantiate PROVE Core'
<1>1. /\ HasRequest /\ NextRequest.what # "name" /\ Known(NextRequest.base) /\ cache' = cache
      /\ program' = program /\ failing' = failing
  BY DEF Instantiate
<1>2. PICK r \in Wrapped(NextRequest.wrap, TypeNamed(NextRequest.base)) :
        LET g == NextRequest.generic
        IN  /\ Found(r[1], g, r[2]) = {}
            /\ \/ /\ pc' = "overflow" /\ heap' = r[1] /\ UNCHANGED stack
               \/ /\ g \in FunGenerics /\ heap' = r[1]
                  /\ stack' = Append(stack, FrameOf(g, r[2], 0, Bind(g, r[2]))) /\ UNCHANGED pc
               \/ /\ g \in TypeGenerics /\ heap' \in NewType(r[1], <<g>> \o r[1][r[2]].shape, 0)
                  /\ stack' = Append(stack, FrameOf(g, r[2], Len(heap'), Bind(g, r[2]))) /\ UNCHANGED pc
  BY DEF Instantiate
<1>3. Typed /\ ~ failing'
  BY <1>1, <1>2, RequestAt, CoreFacts DEF Instantiate, Typed
<1>4. PICK g, a : g = NextRequest.generic /\ a = r[2]
  OBVIOUS
<1>5. NextRequest \in Request /\ a \in Nat
  <2>1. NextRequest \in Request /\ r[2] \in 1 .. Len(r[1])
    BY <1>1, AskedFor DEF Core
  <2> QED  BY <1>4, <2>1
<1>6. \A e \in 1 .. Len(cache) : ~ (cache[e].generic = g /\ cache[e].arg = a)
  BY <1>2, <1>4 DEF Found, SameKey
<1>7. CASE pc' = "overflow" /\ heap' = r[1] /\ UNCHANGED stack
  <2>1. Kept /\ Built(heap)' /\ Unique(heap)' /\ Len(cache') = Len(cache)
    BY <1>1, <1>7, Requested
  <2>2. PICK f, n : f = Top /\ n = Len(stack)
    OBVIOUS
  <2>3. Moved(n, f) /\ Asks(n, f)
    BY <1>1, <1>7, <2>2, SameMoves, TopAsks
  <2>4. Fits(n, f)
    BY <1>3, <2>2, CoreFacts DEF Fits
  <2>5. Reaches(heap, f)'
    <3>1. Reaches(heap, f)
      BY <2>2, CoreFacts
    <3> QED  BY <2>1, <3>1, ReachesOn DEF Core, SameFrame
  <2> QED  BY <1>3, <2>1, <2>3, <2>4, <2>5, CoreStep
<1>8. CASE g \in FunGenerics /\ heap' = r[1] /\ stack' = Append(stack, FrameOf(g, r[2], 0, Bind(g, r[2])))
  <2>1. Kept /\ Built(heap)' /\ Unique(heap)' /\ Live(heap, r[2])'
    BY <1>1, <1>8, Requested
  <2>2. Live(heap, a)' /\ 0 \in Nat /\ stack' = Append(stack, FrameOf(g, a, 0, Bind(g, a)))
    BY <1>4, <1>8, <2>1 DEF Live
  <2> QED  BY <1>1, <1>3, <1>4, <1>5, <1>6, <1>8, <2>1, <2>2, PushCore
<1>9. CASE /\ g \in TypeGenerics /\ heap' \in NewType(r[1], <<g>> \o r[1][r[2]].shape, 0)
           /\ stack' = Append(stack, FrameOf(g, r[2], Len(heap'), Bind(g, r[2])))
  <2>1. /\ Kept /\ Built(heap)' /\ Unique(heap)' /\ Live(heap, r[2])'
        /\ IsInstance(heap, Len(heap), g, r[2])' /\ Len(heap') \in Nat
    BY <1>1, <1>9, NewInstance
  <2>2. PICK t : t = Len(heap')
    OBVIOUS
  <2>3. Live(heap, a)' /\ IsInstance(heap, t, g, a)'
    BY <1>4, <2>1, <2>2 DEF Live, IsInstance
  <2>4. t \in Nat /\ stack' = Append(stack, FrameOf(g, a, t, Bind(g, a)))
    BY <1>4, <1>9, <2>1, <2>2
  <2>5. (g \in FunGenerics /\ t = 0) \/ (g \in TypeGenerics /\ IsInstance(heap, t, g, a)')
    BY <1>9, <2>3
  <2>6. Kept /\ Built(heap)' /\ Unique(heap)'
    BY <2>1
  <2> QED  BY <1>1, <1>3, <1>4, <1>5, <1>6, <2>3, <2>4, <2>5, <2>6, PushCore
<1> QED  BY <1>2, <1>4, <1>7, <1>8, <1>9

\* The instantiation around the innermost one waits for it.
LEMMA CallerWaits ==
    ASSUME Core, Top.generic # Root
    PROVE  /\ Caller \in Frame /\ Caller = stack[Len(stack) - 1]
           /\ Len(stack) - 1 \in Nat \ {0} /\ Len(stack) - 1 \in 1 .. Len(stack)
           /\ Len(stack) - 1 \in 1 .. Len(stack) - 1
           /\ Len(stack) - 1 <= Len(stack) /\ Len(stack) \in 2 .. Len(stack)
           /\ Len(stack) - 1 # 1 => Len(stack) - 1 \in 2 .. Len(stack) - 1
           /\ Caller.next \in 1 .. Len(List(Caller)) /\ Pending(Caller)
           /\ Len(List(Caller)) \in Nat
           /\ List(Caller)[Caller.next] \in Request
           /\ List(Caller)[Caller.next].what # "name"
           /\ List(Caller)[Caller.next].generic = Top.generic
           /\ Reaches(heap, Caller)
           /\ Caller.generic \in TypeGenerics => Caller.stage = "signature"
           /\ Caller.stage = "signature" => Top.generic \in TypeGenerics
<1>1. TypeOK /\ Stacked /\ Types
  BY DEF Core
<1> DEFINE n == Len(stack)
<1>2. /\ Caller \in Frame /\ Caller = stack[n - 1] /\ n - 1 \in Nat \ {0} /\ n - 1 \in 1 .. n
      /\ n \in 2 .. n /\ n \in Nat
  BY <1>1, CallerFacts, TopFacts
<1> HIDE DEF n
<1>3. n - 1 \in 1 .. n - 1 /\ n - 1 <= n /\ (n - 1) + 1 = n /\ n - 1 < n /\ n \in 1 .. n
  BY <1>2
<1>4. n - 1 # 1 => n - 1 \in 2 .. n - 1
  <2>1. \A m \in Nat \ {0} : m # 1 => m \in 2 .. m
    OBVIOUS
  <2> QED  BY <1>2, <2>1
<1>5. Top = stack[n]
  BY DEF Top, n
<1>6. /\ Pending(Caller) /\ List(Caller)[Caller.next].what # "name"
      /\ List(Caller)[Caller.next].generic = Top.generic
  BY <1>1, <1>2, <1>3, <1>5 DEF Stacked, n
<1>7. Len(List(Caller)) \in Nat /\ Caller.next \in Nat \ {0}
  BY <1>1, <1>2, ListFacts, FrameFacts DEF Types
<1>8. Caller.next \in 1 .. Len(List(Caller))
  BY <1>6, <1>7 DEF Pending
<1>9. List(Caller)[Caller.next] \in Request
  BY <1>1, <1>2, <1>8, RequestFacts DEF Types
<1>10. Reaches(heap, Caller)
  BY <1>1, <1>2 DEF Types, n
<1>11. Caller.generic \in TypeGenerics => Caller.stage = "signature"
  BY <1>1, <1>2 DEF Stacked, n
<1>12. Caller.stage = "signature" => Top.generic \in TypeGenerics
  BY <1>1, <1>2, <1>3, <1>5 DEF Stacked, n
<1> QED  BY <1>2, <1>3, <1>4, <1>6, <1>7, <1>8, <1>9, <1>10, <1>11, <1>12 DEF n

LEMMA AnsweredCaller ==
    ASSUME Core, Top.generic # Root, NEW t \in Nat, Return(t), ~ failing', NEW f, NEW n, NEW caller,
           f = Answered(Caller, t), n = Len(stack) - 1, caller = Caller
    PROVE  /\ Moved(n, f) /\ f \in Frame /\ SameFrame(f, caller) /\ f.stage = caller.stage
           /\ f.next = caller.next + 1 /\ (f.last = IF t = 0 THEN caller.last ELSE t)
           /\ Fits(n, f) /\ List(f) = List(caller) /\ Reaches(heap, caller)
<1>1. caller \in Frame
  BY CallerWaits
<1>2. f \in Frame /\ SameFrame(f, caller) /\ f.stage = caller.stage
  BY <1>1, AnsweredIs
<1>3. f.next = caller.next + 1 /\ (f.last = IF t = 0 THEN caller.last ELSE t)
  BY <1>1, AnsweredIs
<1>4. Moved(n, f)
  BY ReturnMoves DEF Core
<1>5. List(f) = List(caller)
  BY <1>2 DEF List, SameFrame
<1>6. f.next <= Len(List(f)) + 1
  <2>1. caller.next \in 1 .. Len(List(caller)) /\ Len(List(caller)) \in Nat
    BY CallerWaits
  <2> QED  BY <1>3, <1>5, <2>1
<1>7. f.generic \in TypeGenerics => f.stage = "signature"
  BY <1>2, CallerWaits DEF SameFrame
<1>8. f.generic = stack[n].generic /\ n <= Len(stack)
  BY <1>2, CallerWaits DEF SameFrame
<1>9. ~ (n > Len(stack))
  <2>1. n \in Nat /\ Len(stack) \in Nat
    BY CallerWaits, CoreFacts
  <2> QED  BY <1>8, <2>1
<1>10. Fits(n, f)
  BY <1>6, <1>7, <1>8, <1>9 DEF Fits
<1> QED  BY <1>2, <1>3, <1>4, <1>5, <1>10, CallerWaits

\* The caller as it stood.
LEMMA CallerFits ==
    ASSUME Core, Top.generic # Root
    PROVE  Fits(Len(stack) - 1, Caller)
<1>1. /\ Caller = stack[Len(stack) - 1] /\ Pending(Caller) /\ Len(stack) - 1 \in Nat
      /\ Len(stack) - 1 <= Len(stack) /\ Len(stack) \in Nat
  BY CallerWaits, CoreFacts
<1>2. Caller.next <= Len(List(Caller)) + 1
  <2>1. Caller.next \in 1 .. Len(List(Caller)) /\ Len(List(Caller)) \in Nat
    BY CallerWaits
  <2> QED  BY <2>1
<1>3. ~ (Len(stack) - 1 > Len(stack))
  BY <1>1
<1>4. Caller.generic \in TypeGenerics => Caller.stage = "signature"
  BY CallerWaits
<1> QED  BY <1>1, <1>2, <1>3, <1>4 DEF Fits

\* Its signature asks for nothing that is not there but what it waits for.
LEMMA CallerAsked ==
    ASSUME Core, Top.generic # Root, Len(stack) - 1 # 1, Caller.stage = "signature"
    PROVE  /\ \A r \in 1 .. Caller.next - 1 :
                List(Caller)[r].what # "name" =>
                  \E e \in 1 .. Len(cache) : cache[e].generic = List(Caller)[r].generic
           /\ \A e \in 1 .. Len(cache) : ~ SameInstance(cache[e], Caller)
<1>1. Len(stack) - 1 \in 2 .. Len(stack) /\ Caller = stack[Len(stack) - 1]
  <2>1. \A m \in Nat : m - 1 \in Nat \ {0} /\ m - 1 # 1 => m - 1 \in 2 .. m
    OBVIOUS
  <2>2. Len(stack) \in Nat
    BY CoreFacts
  <2> QED  BY <2>1, <2>2, CallerWaits
<1>2. \A r \in 1 .. Caller.next - 1 :
        List(Caller)[r].what # "name" =>
          \E e \in 1 .. Len(cache) : cache[e].generic = List(Caller)[r].generic
  BY <1>1 DEF Core, Ordered
<1>3. \A e \in 1 .. Len(cache) : ~ SameInstance(cache[e], Caller)
  BY <1>1 DEF Core, Keys
<1> QED  BY <1>2, <1>3

\* The entry that goes into the cache with a signature.
LEMMA Entered ==
    ASSUME Core, SignatureDone, Top.generic # Root, heap' = heap, program' = program,
           NEW x, x = EntryOf(Top), cache' = Append(cache, x)
    PROVE  /\ Kept /\ Built(heap)' /\ Unique(heap)' /\ x \in Entry
           /\ x.generic = Top.generic /\ x.arg = Top.arg /\ x.type = Top.type
           /\ x.bindings = Top.bindings /\ ~ x.freed
           /\ Len(cache') = Len(cache) + 1 /\ cache'[Len(cache) + 1] = x /\ Len(cache) \in Nat
           /\ \A e \in 1 .. Len(cache) : cache'[e] = cache[e]
           /\ \A e : New(e) => e = Len(cache) + 1
           /\ Holds(heap, x)' /\ Binds(heap, x)'
           /\ \A e \in 1 .. Len(cache) : ~ SameInstance(x, cache[e])
<1>1. /\ Top \in Frame /\ Top.generic \in Generics /\ Len(stack) \in 2 .. Len(stack)
      /\ Top = stack[Len(stack)] /\ Top.stage = "signature"
  BY CoreFacts, FrameFacts DEF SignatureDone
<1>2. /\ x.generic = Top.generic /\ x.arg = Top.arg /\ x.type = Top.type
      /\ x.bindings = Top.bindings /\ x.freed = FALSE
  BY DEF EntryOf
<1>3. x \in Entry
  <2>1. Top.arg \in Nat /\ Top.type \in Nat /\ Top.bindings \in [Names -> Nat]
    BY <1>1, FrameFacts
  <2> QED  BY <1>1, <2>1 DEF EntryOf, Entry
<1>4. cache \in Seq(Entry) /\ heap \in Seq(TypeObject)
  BY DEF Core, TypeOK
<1>5. /\ Len(cache') = Len(cache) + 1 /\ cache'[Len(cache) + 1] = x /\ Len(cache) \in Nat
      /\ \A e \in 1 .. Len(cache) : cache'[e] = cache[e]
  BY <1>3, <1>4
<1>6. cache' \in Seq(Entry)
  BY <1>3, <1>4
<1>7. Kept
  <2>1. Extends(heap, heap')
    BY <1>4 DEF Extends
  <2>2. Grows
    BY <1>5, <1>6 DEF Grows, SameEntry
  <2> QED  BY <2>1, <2>2 DEF Kept
<1>8. \A e : New(e) => e = Len(cache) + 1
  BY <1>5 DEF New
<1>9. Holds(heap, x) /\ Binds(heap, x)
  <2>1. Reaches(heap, Top)
    BY CoreFacts
  <2> QED  BY <1>2, <2>1 DEF Reaches, Holds, Binds
<1>10. Holds(heap, x)' /\ Binds(heap, x)'
  BY <1>7, <1>9, HoldsOn, BindsOn DEF Core
<1>11. \A e \in 1 .. Len(cache) : ~ SameInstance(cache[e], x)
  <2>1. \A e \in 1 .. Len(cache) : ~ SameInstance(cache[e], Top)
    BY <1>1 DEF Core, Keys
  <2> QED  BY <1>2, <2>1 DEF SameInstance
<1>12. Unique(heap)'
  BY <1>3, <1>9, <1>11, UniqueWith DEF Core
<1>13. Built(heap)'
  BY <1>7, BuiltOn DEF Core, Types
<1> QED  BY <1>2, <1>3, <1>5, <1>7, <1>8, <1>10, <1>11, <1>12, <1>13 DEF SameInstance

\* What the new entry's signature asked for was made before it.
LEMMA EnteredAsked ==
    ASSUME Core, SignatureDone, Top.generic # Root, heap' = heap, program' = program,
           cache' = Append(cache, EntryOf(Top)), NEW k \in 1 .. Len(cache'),
           NEW r \in 1 .. Len(program.signature[cache'[k].generic]),
           program.signature[cache'[k].generic][r].what # "name"
    PROVE  \E d \in 1 .. k - 1 : cache'[d].generic = program.signature[cache'[k].generic][r].generic
<1>1. PICK x : x = EntryOf(Top)
  OBVIOUS
<1>2. /\ Len(cache') = Len(cache) + 1 /\ cache'[Len(cache) + 1] = x /\ Len(cache) \in Nat
      /\ x.generic = Top.generic
  BY <1>1, Entered
<1>3. \A e \in 1 .. Len(cache) : cache'[e] = cache[e]
  BY <1>1, Entered
<1>4. CASE k = Len(cache) + 1
  <2>1. /\ Top.stage = "signature" /\ Top.next > Len(List(Top)) /\ Len(stack) \in 2 .. Len(stack)
        /\ Top = stack[Len(stack)] /\ Top \in Frame
    BY CoreFacts DEF SignatureDone
  <2>2. List(Top) = program.signature[Top.generic]
    BY <2>1, ListFacts DEF Core, Types
  <2>3. r \in 1 .. Len(List(Top))
    BY <1>2, <1>4, <2>2
  <2>4. r \in 1 .. Top.next - 1
    BY <2>1, <2>3, CoreFacts
  <2>5. \E e \in 1 .. Len(cache) : cache[e].generic = List(Top)[r].generic
    <3>1. List(Top)[r].what # "name"
      BY <1>2, <1>4, <2>2
    <3> QED  BY <2>1, <2>4, <3>1 DEF Core, Ordered
  <2> QED  BY <1>2, <1>3, <1>4, <2>2, <2>5
<1>5. CASE k # Len(cache) + 1
  <2>1. k \in 1 .. Len(cache)
    BY <1>2, <1>5
  <2>2. cache'[k] = cache[k]
    BY <1>3, <2>1
  <2>3. \A j \in 1 .. Len(cache) : \A q \in 1 .. Len(program.signature[cache[j].generic]) :
          program.signature[cache[j].generic][q].what # "name" =>
            \E d \in 1 .. j - 1 : cache[d].generic = program.signature[cache[j].generic][q].generic
    BY Zenon DEF Core, Ordered
  <2>4. PICK d \in 1 .. k - 1 : cache[d].generic = program.signature[cache'[k].generic][r].generic
    BY <2>1, <2>2, <2>3
  <2>5. d \in 1 .. Len(cache)
    BY <1>2, <2>1
  <2> QED  BY <1>3, <2>4, <2>5
<1> QED  BY <1>4, <1>5

LEMMA FinishTypeCore == ASSUME Core, FinishType PROVE Core'
<1>1. /\ SignatureDone /\ Top.generic \in TypeGenerics /\ Top.generic # Root /\ heap' = heap
      /\ program' = program /\ cache' = Append(cache, EntryOf(Top)) /\ Return(Top.type)
      /\ Top.stage = "signature" /\ ~ failing'
  BY TokensAssumption DEF FinishType, SignatureDone, Analyzing, Generics
<1>2. PICK x, t, f, n, caller : /\ x = EntryOf(Top) /\ t = Top.type /\ f = Answered(Caller, Top.type)
                                /\ n = Len(stack) - 1 /\ caller = Caller
  OBVIOUS
<1>3. /\ Kept /\ Built(heap)' /\ Unique(heap)' /\ x \in Entry
      /\ x.generic = Top.generic /\ x.arg = Top.arg /\ x.type = Top.type
  BY <1>1, <1>2, Entered
<1>4. /\ Len(cache') = Len(cache) + 1 /\ cache'[Len(cache) + 1] = x /\ Len(cache) \in Nat
      /\ \A e \in 1 .. Len(cache) : cache'[e] = cache[e]
      /\ \A e : New(e) => e = Len(cache) + 1
  BY <1>1, <1>2, Entered
<1>5. Holds(heap, x)' /\ Binds(heap, x)'
  BY <1>1, <1>2, Entered
<1>6. \A e \in 1 .. Len(cache) : ~ SameInstance(x, cache[e])
  BY <1>1, <1>2, Entered
<1>7. /\ t \in Nat /\ Return(t) /\ f = Answered(Caller, t)
  BY <1>1, <1>2, CoreFacts, FrameFacts
<1>8. /\ Moved(n, f) /\ f \in Frame /\ SameFrame(f, caller) /\ f.stage = caller.stage
      /\ f.next = caller.next + 1 /\ (f.last = IF t = 0 THEN caller.last ELSE t)
  BY <1>1, <1>2, <1>7, AnsweredCaller
<1>9. Fits(n, f) /\ List(f) = List(caller) /\ Reaches(heap, caller)
  BY <1>1, <1>2, <1>7, AnsweredCaller
<1>10. t # 0 => Live(heap, t)'
  <2>1. IsInstance(heap, t, x.generic, x.arg)'
    BY <1>1, <1>2, <1>3, <1>5 DEF Holds
  <2>2. Len(heap') \in Nat /\ Len(Declared) \in Nat
    BY <1>3, DeclaredAssumption DEF Kept, Extends
  <2>3. t \in 1 .. Len(heap')
    BY <2>1, <2>2 DEF IsInstance
  <2>4. Len(cache) + 1 \in 1 .. Len(cache') /\ cache'[Len(cache) + 1].type = t
    BY <1>2, <1>3, <1>4
  <2> QED  BY <2>3, <2>4 DEF Live
<1>11. Reaches(heap, f)'
  <2>1. f.last \in {0, caller.last} \/ Live(heap, f.last)'
    <3>1. CASE t = 0
      BY <1>8, <3>1
    <3>2. CASE t # 0
      <4>1. f.last = t
        BY <1>8, <3>2
      <4> QED  BY <1>10, <3>2, <4>1 DEF Live
    <3> QED  BY <3>1, <3>2
  <2> QED  BY <1>3, <1>8, <1>9, <2>1, ReachesOn DEF Core
<1>12. \A k \in 1 .. Len(cache') :
         LET list == program.signature[cache'[k].generic]
         IN  \A r \in 1 .. Len(list) :
                list[r].what # "name" => \E e \in 1 .. k - 1 : cache'[e].generic = list[r].generic
  BY <1>1, EnteredAsked
<1>13. Typed
  BY <1>1, CoreFacts DEF FinishType, Typed
<1>14. Types'
  <2>1. \A e : New(e) => Holds(heap, cache[e])' /\ Binds(heap, cache[e])'
    BY <1>4, <1>5 DEF Holds, Binds
  <2> QED  BY <1>3, <1>8, <1>11, <2>1, TypesStep DEF Core
<1>15. Stacked'
  BY <1>1, <1>8, <1>9, StackedStep DEF Core, Fits
<1>16. Asks(n, f)
  <2>1. SUFFICES ASSUME n # 1, f.stage = "signature"
                 PROVE  /\ \A r \in 1 .. f.next - 1 :
                             List(f)[r].what # "name" =>
                               \E e \in 1 .. Len(cache') : cache'[e].generic = List(f)[r].generic
                        /\ \A e \in 1 .. Len(cache') : ~ SameInstance(cache'[e], f)
    BY DEF Asks
  <2>2. /\ \A r \in 1 .. caller.next - 1 :
             List(caller)[r].what # "name" =>
               \E e \in 1 .. Len(cache) : cache[e].generic = List(caller)[r].generic
        /\ \A e \in 1 .. Len(cache) : ~ SameInstance(cache[e], caller)
    BY <1>1, <1>2, <1>8, <2>1, CallerAsked
  <2>3. /\ caller.next \in Nat \ {0} /\ List(caller)[caller.next].generic = Top.generic
        /\ n \in 2 .. Len(stack) - 1 /\ caller = stack[n]
    BY <1>1, <1>2, <2>1, CallerWaits
  <2>4. \A e \in 1 .. Len(cache) : e \in 1 .. Len(cache')
    BY <1>4
  <2>5. ASSUME NEW r \in 1 .. f.next - 1, List(f)[r].what # "name"
        PROVE  \E e \in 1 .. Len(cache') : cache'[e].generic = List(f)[r].generic
    <3>1. r \in 1 .. caller.next - 1 \/ r = caller.next
      BY <1>8, <2>3
    <3>2. CASE r \in 1 .. caller.next - 1
      BY <1>4, <1>9, <2>2, <2>4, <2>5, <3>2
    <3>3. CASE r = caller.next
      <4>1. Len(cache) + 1 \in 1 .. Len(cache')
        BY <1>4
      <4> QED  BY <1>3, <1>4, <1>9, <2>3, <3>3, <4>1
    <3> QED  BY <3>1, <3>2, <3>3
  <2>6. ASSUME NEW e \in 1 .. Len(cache') PROVE ~ SameInstance(cache'[e], f)
    <3>1. CASE e \in 1 .. Len(cache)
      BY <1>4, <1>8, <2>2, <3>1 DEF SameInstance, SameFrame
    <3>2. CASE e \notin 1 .. Len(cache)
      <4>1. cache'[e] = x /\ cache'[e].generic = Top.generic /\ Len(cache') \in Nat
        BY <1>3, <1>4, <3>2
      <4>2. stack[n].stage = "signature"
        BY <1>8, <2>1, <2>3
      <4>3. TypeOK /\ Types /\ Stacked
        BY DEF Core
      <4>4. stack[n].generic # Top.generic
        <5>1. PICK c : c = cache'
          OBVIOUS
        <5>2. \A k \in 1 .. Len(c) :
                LET list == program.signature[c[k].generic]
                IN  \A r \in 1 .. Len(list) :
                       list[r].what # "name" => \E d \in 1 .. k - 1 : c[d].generic = list[r].generic
          BY <1>12, <5>1
        <5>3. Len(c) \in Nat /\ e \in 1 .. Len(c) /\ c[e].generic = Top.generic
          BY <4>1, <5>1
        <5> QED  BY <1>1, <2>3, <4>2, <4>3, <5>2, <5>3, NoCycle
      <4> QED  BY <1>8, <2>3, <4>1, <4>4 DEF SameInstance, SameFrame
    <3> QED  BY <3>1, <3>2
  <2> QED  BY <2>5, <2>6
<1>17. Ordered'
  <2>1. \A e : New(e) => e \in 1 .. Len(cache')
    BY <1>4
  <2>2. \A e : New(e) =>
          LET list == program.signature[cache'[e].generic]
          IN  \A r \in 1 .. Len(list) :
                 list[r].what # "name" => \E d \in 1 .. e - 1 : cache'[d].generic = list[r].generic
    BY <1>12, <2>1
  <2> QED  BY <1>3, <1>8, <1>16, <2>2, OrderedStep DEF Core, Asks
<1>18. Keys'
  <2>1. ASSUME NEW i \in 2 .. n - 1, stack[i].stage = "signature"
        PROVE  ~ SameInstance(x, stack[i])
    <3>1. i \in 2 .. Len(stack) - 1
      BY <1>2, CoreFacts
    <3>2. Len(cache) + 1 \in 1 .. Len(cache') /\ cache'[Len(cache) + 1].generic = Top.generic /\ Len(cache') \in Nat
      BY <1>3, <1>4
    <3>3. stack[i].generic # Top.generic
      BY <1>1, <1>12, <2>1, <3>1, <3>2, NoCycle DEF Core
    <3> QED  BY <1>3, <3>3 DEF SameInstance
  <2>2. \A e : New(e) => /\ e = Len(cache) + 1
                         /\ \A k \in 1 .. Len(cache) : ~ SameInstance(cache'[e], cache[k])
                         /\ \A i \in 2 .. n - 1 : stack[i].stage = "signature" =>
                              ~ SameInstance(cache'[e], stack[i])
    BY <1>4, <1>6, <2>1
  <2> QED  BY <1>3, <1>8, <1>16, <2>2, KeysStep DEF Core, Asks
<1>19. TypeOK'
  BY <1>3, <1>8, <1>13, TypeStep DEF Core, Typed
<1> QED  BY <1>14, <1>15, <1>17, <1>18, <1>19 DEF Core

\* The innermost frame goes on to its body.
LEMMA BodyMoves ==
    ASSUME Core, Top.generic \notin TypeGenerics, stack' = WithTop(BodyStage(Top)), ~ failing',
           NEW f, NEW n, NEW top, f = BodyStage(Top), n = Len(stack), top = Top
    PROVE  /\ Moved(n, f) /\ f \in Frame /\ SameFrame(f, top) /\ f.stage = "body" /\ f.next = 1
           /\ f.last = 0 /\ f.ok = top.ok /\ Fits(n, f) /\ Asks(n, f) /\ Reaches(heap, top)
<1>1. top \in Frame
  BY CoreFacts
<1>2. f \in Frame /\ SameFrame(f, top) /\ f.stage = "body"
  BY <1>1, BodyStageIs
<1>3. f.next = 1 /\ f.last = 0 /\ f.ok = top.ok
  BY <1>1, BodyStageIs
<1>4. Moved(n, f)
  BY <1>2, WithTopMoves DEF Core
<1>5. Fits(n, f)
  <2>1. Len(List(f)) \in Nat
    BY <1>2, ListFacts DEF Core, Types
  <2>2. f.next <= Len(List(f)) + 1
    BY <1>3, <2>1
  <2>3. f.generic = stack[n].generic /\ f.generic \notin TypeGenerics /\ ~ (n > Len(stack))
    BY <1>2, CoreFacts DEF SameFrame
  <2> QED  BY <2>2, <2>3 DEF Fits
<1>6. Asks(n, f)
  BY <1>2 DEF Asks
<1>7. Reaches(heap, top)
  BY CoreFacts
<1> QED  BY <1>2, <1>3, <1>4, <1>5, <1>6, <1>7

LEMMA FinishSignatureCore == ASSUME Core, FinishSignature PROVE Core'
<1>1. /\ SignatureDone /\ Top.generic \in FunGenerics /\ Top.generic # Root /\ Top.generic \notin TypeGenerics
      /\ heap' = heap /\ program' = program /\ cache' = Append(cache, EntryOf(Top))
      /\ stack' = WithTop(BodyStage(Top)) /\ Top.stage = "signature" /\ ~ failing'
  BY TokensAssumption DEF FinishSignature, SignatureDone, Analyzing, Generics
<1>2. PICK x, f, n, top : x = EntryOf(Top) /\ f = BodyStage(Top) /\ n = Len(stack) /\ top = Top
  OBVIOUS
<1>3. /\ Kept /\ Built(heap)' /\ Unique(heap)' /\ x \in Entry
      /\ x.generic = Top.generic /\ x.arg = Top.arg /\ x.type = Top.type
  BY <1>1, <1>2, Entered
<1>4. /\ Len(cache') = Len(cache) + 1 /\ cache'[Len(cache) + 1] = x /\ Len(cache) \in Nat
      /\ \A e : New(e) => e = Len(cache) + 1
  BY <1>1, <1>2, Entered
<1>5. Holds(heap, x)' /\ Binds(heap, x)'
  BY <1>1, <1>2, Entered
<1>6. \A e \in 1 .. Len(cache) : ~ SameInstance(x, cache[e])
  BY <1>1, <1>2, Entered
<1>7. /\ Moved(n, f) /\ f \in Frame /\ SameFrame(f, top) /\ f.stage = "body" /\ f.next = 1 /\ f.last = 0
  BY <1>1, <1>2, BodyMoves
<1>8. Fits(n, f) /\ Asks(n, f) /\ Reaches(heap, top)
  BY <1>1, <1>2, BodyMoves
<1>9. Reaches(heap, f)'
  BY <1>3, <1>7, <1>8, ReachesOn DEF Core
<1>10. Typed
  BY <1>1, CoreFacts DEF FinishSignature, Typed
<1>11. TypeOK'
  BY <1>3, <1>7, <1>10, TypeStep DEF Core, Typed
<1>12. Types'
  <2>1. \A e : New(e) => Holds(heap, cache[e])' /\ Binds(heap, cache[e])'
    BY <1>4, <1>5 DEF Holds, Binds
  <2> QED  BY <1>3, <1>7, <1>9, <2>1, TypesStep DEF Core
<1>13. Stacked'
  BY <1>1, <1>7, <1>8, StackedStep DEF Core, Fits
<1>14. Ordered'
  <2>1. \A k \in 1 .. Len(cache') :
          LET list == program.signature[cache'[k].generic]
          IN  \A r \in 1 .. Len(list) :
                 list[r].what # "name" => \E e \in 1 .. k - 1 : cache'[e].generic = list[r].generic
    BY <1>1, EnteredAsked
  <2>2. \A e : New(e) => e \in 1 .. Len(cache')
    BY <1>4
  <2>3. \A e : New(e) =>
          LET list == program.signature[cache'[e].generic]
          IN  \A r \in 1 .. Len(list) :
                 list[r].what # "name" => \E d \in 1 .. e - 1 : cache'[d].generic = list[r].generic
    BY <2>1, <2>2
  <2> QED  BY <1>3, <1>7, <1>8, <2>3, OrderedStep DEF Core, Asks
<1>15. Keys'
  <2>1. ASSUME NEW i \in 2 .. n - 1, stack[i].stage = "signature" PROVE FALSE
    <3>1. i \in 1 .. Len(stack) /\ Len(stack) \in 1 .. Len(stack) /\ i < Len(stack) /\ Top = stack[Len(stack)]
      BY <1>2, CoreFacts
    <3>2. Top.generic \in TypeGenerics
      BY <2>1, <3>1 DEF Core, Stacked
    <3> QED  BY <1>1, <3>2
  <2>2. \A e : New(e) => /\ e = Len(cache) + 1
                         /\ \A k \in 1 .. Len(cache) : ~ SameInstance(cache'[e], cache[k])
                         /\ \A i \in 2 .. n - 1 : stack[i].stage = "signature" =>
                              ~ SameInstance(cache'[e], stack[i])
    BY <1>4, <1>6, <2>1
  <2> QED  BY <1>3, <1>7, <1>8, <2>2, KeysStep DEF Core, Asks
<1> QED  BY <1>11, <1>12, <1>13, <1>14, <1>15 DEF Core

LEMMA EndPassBCore == ASSUME Core, EndPassB PROVE Core'
<1>1. /\ Top.generic = Root /\ Top.generic \notin TypeGenerics /\ heap' = heap /\ program' = program
      /\ cache' = cache /\ stack' = WithTop(BodyStage(Top)) /\ ~ failing'
  BY TokensAssumption DEF EndPassB, SignatureDone, Analyzing, Generics
<1>2. PICK f, n, top : f = BodyStage(Top) /\ n = Len(stack) /\ top = Top
  OBVIOUS
<1>3. Kept /\ Built(heap)' /\ Unique(heap)' /\ Len(cache') = Len(cache)
  BY <1>1, Still
<1>4. /\ Moved(n, f) /\ SameFrame(f, top) /\ f.last = 0
  BY <1>1, <1>2, BodyMoves
<1>5. Fits(n, f) /\ Asks(n, f) /\ Reaches(heap, top)
  BY <1>1, <1>2, BodyMoves
<1>6. Reaches(heap, f)'
  BY <1>3, <1>4, <1>5, ReachesOn DEF Core
<1>7. Typed
  BY <1>1, CoreFacts DEF EndPassB, Typed
<1> QED  BY <1>3, <1>4, <1>5, <1>6, <1>7, CoreStep

LEMMA FinishBodyCore == ASSUME Core, FinishBody PROVE Core'
<1>1. /\ Top.generic # Root /\ Top.stage = "body" /\ ~ failing /\ heap' = heap /\ program' = program
  BY DEF FinishBody, BodyDone, Analyzing
<1>2. PICK n, caller : n = Len(stack) - 1 /\ caller = Caller
  OBVIOUS
<1>3. caller.stage = "body"
  <2>1. Top.generic \notin TypeGenerics
    BY <1>1, CoreFacts
  <2>2. caller.stage \in {"signature", "body"}
    BY <1>1, <1>2, CallerWaits, FrameFacts
  <2> QED  BY <1>1, <1>2, <2>1, <2>2, CallerWaits
<1>4. CASE Return(0) /\ UNCHANGED <<cache, failing>>
  <2>1. PICK f : f = Answered(Caller, 0)
    OBVIOUS
  <2>2. ~ failing' /\ 0 \in Nat
    BY <1>1, <1>4
  <2>3. /\ Moved(n, f) /\ SameFrame(f, caller) /\ f.stage = caller.stage /\ f.last = caller.last
    BY <1>1, <1>2, <1>4, <2>1, <2>2, AnsweredCaller
  <2>4. Fits(n, f) /\ Reaches(heap, caller)
    BY <1>1, <1>2, <1>4, <2>1, <2>2, AnsweredCaller
  <2>5. Kept /\ Built(heap)' /\ Unique(heap)' /\ Len(cache') = Len(cache)
    BY <1>1, <1>4, Still
  <2>6. Asks(n, f)
    BY <1>3, <2>3 DEF Asks
  <2>7. Reaches(heap, f)'
    BY <2>3, <2>4, <2>5, ReachesOn DEF Core
  <2>8. Typed
    BY <2>2, CoreFacts DEF FinishBody, Typed
  <2> QED  BY <2>3, <2>4, <2>5, <2>6, <2>7, <2>8, CoreStep
<1>5. CASE /\ cache' = [k \in 1 .. Len(cache) |->
                          [cache[k] EXCEPT !.freed = @ \/ (/\ cache[k].generic = Top.generic
                                                          /\ cache[k].arg = Top.arg)]]
           /\ stack' = Front(stack) /\ failing' = TRUE
  <2>1. cache \in Seq(Entry) /\ Len(cache) \in Nat
    BY DEF Core, TypeOK
  <2>2. Len(cache') = Len(cache)
    BY <1>5, <2>1
  <2>3. ASSUME NEW k \in 1 .. Len(cache)
        PROVE  cache'[k] \in Entry /\ SameEntry(cache'[k], cache[k])
    <3>1. cache[k] \in Entry
      BY <2>1
    <3>2. PICK b : b = (cache[k].freed \/ (cache[k].generic = Top.generic /\ cache[k].arg = Top.arg))
      OBVIOUS
    <3>3. b \in BOOLEAN
      BY <3>1, <3>2 DEF Entry
    <3>4. cache'[k] = [cache[k] EXCEPT !.freed = b]
      BY <1>5, <3>2
    <3>5. cache'[k] \in Entry
      BY <3>1, <3>3, <3>4 DEF Entry
    <3>6. SameEntry(cache'[k], cache[k])
      BY <3>1, <3>4 DEF Entry, SameEntry
    <3> QED  BY <3>5, <3>6
  <2>4. cache' \in Seq(Entry)
    <3>1. cache' = [k \in 1 .. Len(cache) |-> cache'[k]]
      BY <1>5
    <3> QED  BY <2>1, <2>3, <3>1
  <2>5. Kept
    <3>1. Extends(heap, heap')
      BY <1>1 DEF Core, TypeOK, Extends
    <3>2. Grows
      BY <2>1, <2>2, <2>3, <2>4 DEF Grows
    <3> QED  BY <1>1, <3>1, <3>2 DEF Kept
  <2>6. Built(heap)'
    BY <1>1, <2>5, BuiltOn DEF Core, Types
  <2>7. \A e \in 1 .. Len(cache) : cache'[e].type = cache[e].type
    BY <2>3 DEF SameEntry
  <2>8. \A t : Live(heap, t)' => Live(heap, t)
    BY <1>1, <2>2, <2>7 DEF Live
  <2>9. Unique(heap)'
    BY <1>1, <2>8 DEF Core, Keys, Unique
  <2>10. Moved(n, caller)
    BY <1>1, <1>2, <1>5, FrontMoves DEF Core
  <2>11. Fits(n, caller) /\ Reaches(heap, caller)
    BY <1>1, <1>2, CallerFits, CallerWaits
  <2>12. Asks(n, caller)
    BY <1>3 DEF Asks
  <2>13. Reaches(heap, caller)'
    BY <2>5, <2>11, ReachesOn DEF Core, SameFrame
  <2>14. Typed
    BY <1>5, CoreFacts DEF FinishBody, Typed
  <2> QED  BY <2>2, <2>5, <2>6, <2>9, <2>10, <2>11, <2>12, <2>13, <2>14, CoreStep
<1> QED  BY <1>4, <1>5 DEF FinishBody

LEMMA PropagateCore == ASSUME Core, Propagate PROVE Core'
<1>1. heap' = heap /\ program' = program /\ cache' = cache /\ failing
  BY DEF Propagate
<1>2. Kept /\ Built(heap)' /\ Unique(heap)' /\ Len(cache') = Len(cache)
  BY <1>1, Still
<1>3. Pending(Top)
  BY <1>1 DEF Core, Stacked
<1>4. CASE Top.generic # Root /\ Top.stage = "signature" /\ stack' = Front(stack) /\ UNCHANGED failing
  <2>1. PICK n, caller : n = Len(stack) - 1 /\ caller = Caller
    OBVIOUS
  <2>2. Moved(n, caller)
    BY <1>4, <2>1, FrontMoves DEF Core
  <2>3. Fits(n, caller) /\ Reaches(heap, caller)
    BY <1>4, <2>1, CallerFits, CallerWaits
  <2>4. Asks(n, caller)
    <3>1. CASE n # 1 /\ caller.stage = "signature"
      BY <1>1, <1>4, <2>1, <3>1, CallerAsked DEF Asks
    <3>2. CASE ~ (n # 1 /\ caller.stage = "signature")
      BY <3>2 DEF Asks
    <3> QED  BY <3>1, <3>2
  <2>5. Reaches(heap, caller)'
    BY <1>2, <2>3, ReachesOn DEF Core, SameFrame
  <2>6. Typed
    BY <1>1, <1>4, CoreFacts DEF Propagate, Typed
  <2> QED  BY <1>2, <2>2, <2>3, <2>4, <2>5, <2>6, CoreStep
<1>5. CASE (Top.generic = Root \/ Top.stage = "body") /\ failing' = FALSE /\ stack' = WithTop(Skipped(Top, NextRequest))
  <2>1. PICK f, n, top : f = Skipped(Top, NextRequest) /\ n = Len(stack) /\ top = Top
    OBVIOUS
  <2>2. top \in Frame /\ NextRequest \in Request
    <3>1. Top.next \in 1 .. Len(List(Top)) /\ Top \in Frame
      BY <1>3, CoreFacts DEF Pending
    <3> QED  BY <2>1, <3>1, RequestFacts DEF NextRequest, Core, Types
  <2>3. f \in Frame /\ SameFrame(f, top) /\ f.stage = top.stage
    BY <2>1, <2>2, SkippedIs
  <2>4. f.next = top.next + 1 /\ f.last \in {0, top.last}
    BY <2>1, <2>2, SkippedIs
  <2>5. Moved(n, f)
    BY <1>5, <2>1, <2>3, WithTopMoves DEF Core
  <2>6. Fits(n, f)
    BY <1>3, <1>5, <2>1, <2>3, <2>4, AnswerFits DEF Pending
  <2>7. Asks(n, f)
    <3>1. n = 1 \/ f.stage = "body"
      BY <1>5, <2>1, <2>3, CoreFacts
    <3> QED  BY <3>1 DEF Asks
  <2>8. Reaches(heap, f)'
    <3>1. Reaches(heap, top)
      BY <2>1, CoreFacts
    <3> QED  BY <1>2, <2>3, <2>4, <3>1, ReachesOn DEF Core
  <2>9. Typed
    BY <1>5, CoreFacts DEF Propagate, Typed
  <2> QED  BY <1>2, <2>5, <2>6, <2>7, <2>8, <2>9, CoreStep
<1> QED  BY <1>4, <1>5 DEF Propagate, Skipped

LEMMA EndPassCCore == ASSUME Core, EndPassC PROVE Core'
<1>1. Typed /\ ~ failing'
  BY CoreFacts DEF EndPassC, Typed, BodyDone, Analyzing
<1> QED  BY <1>1, StillCore DEF EndPassC

\* Code generation leaves it all alone.
LEMMA GenerationCore ==
    ASSUME Core, UNCHANGED <<program, heap, cache, stack, failing>>, TypeOK'
    PROVE  Core'
<1>1. Types'
  <2>1. program' \in Programs
    BY DEF Core, Types
  <2>2. Built(heap)'
    BY DEF Core, Types, Built, IsDeclared, IsWrapped, IsInstance, Live
  <2>3. \A i \in 1 .. Len(stack) : Reaches(heap, stack[i])'
    BY DEF Core, Types, Reaches, Binds, Holds, IsInstance, Live
  <2>4. \A e \in 1 .. Len(cache) : (Holds(heap, cache[e]) /\ Binds(heap, cache[e]))'
    BY DEF Core, Types, Binds, Holds, IsInstance, Live
  <2> QED  BY <2>1, <2>2, <2>3, <2>4 DEF Types
<1>2. Stacked'
  BY DEF Core, Stacked, Pending, List, Top
<1>3. Ordered'
  BY DEF Core, Ordered, List
<1>4. Keys'
  BY DEF Core, Keys, Unique, Live
<1> QED  BY <1>1, <1>2, <1>3, <1>4 DEF Core

LEMMA GenerateFunctionCore == ASSUME Core, GenerateFunction PROVE Core'
<1>1. UNCHANGED <<program, heap, cache, stack, failing, errors, pc, hits>>
  BY DEF GenerateFunction
<1>2. PICK k \in Functions \ visited :
         /\ visited' = visited \cup {k}
         /\ emitted' = IF \E j \in emitted : LinkName(j) = LinkName(k) THEN emitted
                       ELSE emitted \cup {k}
  BY DEF GenerateFunction
<1>3. k \in 1 .. Len(cache) /\ visited \subseteq 1 .. Len(cache) /\ emitted \subseteq visited
  BY DEF Core, TypeOK, Functions
<1>4. visited' \subseteq 1 .. Len(cache) /\ emitted' \subseteq visited'
  BY <1>2, <1>3
<1>5. TypeOK'
  BY <1>1, <1>4 DEF Core, TypeOK
<1> QED  BY <1>1, <1>5, GenerationCore

LEMMA EndCodegenCore == ASSUME Core, EndCodegen PROVE Core'
<1>1. TypeOK'
  BY DEF Core, TypeOK, EndCodegen
<1> QED  BY <1>1, GenerationCore DEF EndCodegen

LEMMA StutterCore == ASSUME Core, UNCHANGED vars PROVE Core'
<1>1. TypeOK'
  BY DEF Core, TypeOK, vars
<1> QED  BY <1>1, GenerationCore DEF vars

LEMMA InitCore == ASSUME Init PROVE Core
<1> DEFINE n == Len(Declared)
           object(k) == [shape |-> <<Declared[k]>>, base |-> 0, bucket |-> 0]
           root == FrameOf(Root, 0, 0, NoBindings)
<1>1. n \in Nat /\ \A k \in 1 .. n : Declared[k] \in Names
  BY DeclaredAssumption
<1>2. program \in Programs /\ program \in Program
  BY ProgramsAssumption DEF Init
<1>3. \A k \in 1 .. n : object(k) \in TypeObject
  <2> SUFFICES ASSUME NEW k \in 1 .. n PROVE object(k) \in TypeObject
    OBVIOUS
  <2>1. Declared[k] \in Tokens
    BY <1>1 DEF Tokens
  <2>2. <<Declared[k]>> \in Seq(Tokens)
    BY <2>1
  <2> QED  BY <2>2 DEF TypeObject
<1>4. heap = [k \in 1 .. n |-> object(k)]
  BY DEF Init
<1>5. heap \in Seq(TypeObject) /\ Len(heap) = n
  <2> HIDE DEF object, n
  <2> QED  BY <1>1, <1>3, <1>4
<1>6. root \in Frame
  <2>1. NoBindings \in [Names -> Nat]
    BY DEF NoBindings
  <2> QED  BY <2>1 DEF FrameOf, Frame
<1>7. root.generic = Root /\ root.stage = "signature" /\ root.next = 1 /\ root.last = 0 /\ root.bindings = NoBindings
  BY DEF FrameOf
<1>8. stack = <<root>> /\ cache = << >> /\ failing = FALSE
  BY DEF Init
<1> HIDE DEF root, object, n
<1>9. stack \in Seq(Frame) /\ Len(stack) = 1 /\ stack[1] = root /\ Len(cache) = 0 /\ cache \in Seq(Entry)
  BY <1>6, <1>8
<1>10. TypeOK
  BY <1>2, <1>5, <1>9 DEF Init, TypeOK
<1>11. Types
  <2>1. \A t \in 1 .. Len(heap) : IsDeclared(heap, t)
    BY <1>1, <1>4, <1>5 DEF IsDeclared, object, n
  <2>2. Built(heap)
    BY <1>1, <1>5, <2>1 DEF Built, n
  <2>3. Reaches(heap, root)
    <3>1. Binds(heap, root)
      BY <1>7 DEF Binds, NoBindings
    <3> QED  BY <1>7, <3>1 DEF Reaches
  <2>4. \A i \in 1 .. Len(stack) : stack[i] = root
    BY <1>9
  <2>5. ~ \E e : e \in 1 .. Len(cache)
    BY <1>9
  <2> QED  BY <1>2, <2>2, <2>3, <2>4, <2>5 DEF Types
<1>12. Stacked
  <2>1. \A i \in 1 .. Len(stack) : i = 1 /\ stack[i] = root
    BY <1>9
  <2>2. ~ \E i : i \in 1 .. Len(stack) - 1
    BY <1>9
  <2>3. Len(List(root)) \in Nat
    BY <1>6, <1>10, <1>11, ListFacts DEF Types
  <2>4. root.next <= Len(List(root)) + 1
    BY <1>7, <2>3
  <2>5. Root \notin TypeGenerics /\ ~ failing
    BY <1>8, TokensAssumption DEF Generics
  <2>6. ASSUME NEW i \in 1 .. Len(stack), NEW j \in 1 .. Len(stack) PROVE ~ (i < j)
    BY <1>9
  <2> QED  BY <1>7, <1>9, <2>1, <2>2, <2>4, <2>5, <2>6 DEF Stacked
<1>13. Ordered
  <2>1. (~ \E i : i \in 2 .. Len(stack)) /\ ~ \E e : e \in 1 .. Len(cache)
    BY <1>9
  <2> QED  BY <2>1 DEF Ordered
<1>14. Keys
  <2>1. (~ \E i : i \in 2 .. Len(stack)) /\ ~ \E e : e \in 1 .. Len(cache)
    BY <1>9
  <2>2. Unique(heap)
    <3> SUFFICES ASSUME NEW t \in 1 .. n, NEW u \in 1 .. n, heap[t].shape = heap[u].shape PROVE t = u
      BY <1>5 DEF Unique
    <3>1. heap[t] = object(t) /\ heap[u] = object(u)
      BY <1>4
    <3>2. heap[t].shape = <<Declared[t]>> /\ heap[u].shape = <<Declared[u]>>
      BY <3>1 DEF object
    <3>3. \A a, b : <<a>> = <<b>> => a = b
      OBVIOUS
    <3>4. Declared[t] = Declared[u]
      BY <1>5, <3>2, <3>3
    <3> QED  BY <3>4, DeclaredAssumption DEF n
  <2> QED  BY <2>1, <2>2 DEF Keys
<1> QED  BY <1>10, <1>11, <1>12, <1>13, <1>14 DEF Core

\* What instances hold on to, how the instantiations under way hang together,
\* and that no two entries of the cache have one key.
THEOREM CoreCorrect == Spec => []Core
<1>1. Init => Core
  BY InitCore
<1>2. Core /\ [Next]_vars => Core'
  BY UnknownTypeCore, NameTypeCore, CacheHitCore, InstantiateCore, FinishTypeCore,
     FinishSignatureCore, EndPassBCore, FinishBodyCore, EndPassCCore, PropagateCore,
     GenerateFunctionCore, EndCodegenCore, StutterCore DEF Next
<1> QED  BY <1>1, <1>2, PTL DEF Spec

\* Every variable keeps its type.
THEOREM TypeCorrect == Spec => []TypeOK
<1>1. Core => TypeOK
  BY DEF Core
<1> QED  BY <1>1, CoreCorrect, PTL

\* Unless its argument has an array in it, an instance is made once: a type is
\* then one object, and an instantiation that comes to ask for itself never
\* gets as far as the cache (specialization_cache_find, type_pointer_create).
THEOREM SpecialisedOnceCorrect == Spec => []SpecialisedOnce
<1>1. Core => SpecialisedOnce
  <2> SUFFICES ASSUME Core, NEW j \in 1 .. Len(cache), NEW k \in 1 .. Len(cache),
                      cache[j].generic = cache[k].generic,
                      heap[cache[j].arg].shape = heap[cache[k].arg].shape,
                      ToSet(heap[cache[k].arg].shape) \cap Arrays = {}
               PROVE  j = k
    BY DEF SpecialisedOnce
  <2>1. Live(heap, cache[j].arg) /\ Live(heap, cache[k].arg)
    BY DEF Core, Types, Holds
  <2>2. Plain(heap[cache[k].arg].shape)
    BY DEF Plain, ToSet
  <2>3. cache[j].arg \in 1 .. Len(heap) /\ cache[k].arg \in 1 .. Len(heap)
    BY <2>1 DEF Live
  <2>4. cache[j].arg = cache[k].arg
    BY <2>1, <2>2, <2>3 DEF Core, Keys, Unique
  <2>5. SameInstance(cache[j], cache[k])
    BY <2>4 DEF SameInstance
  <2> QED  BY <2>5 DEF Core, Keys
<1> QED  BY <1>1, CoreCorrect, PTL
------------------------------------------------------------------------------
(* What a list of requests asks for *)

\* What ProgramsAssumption says of each list.
Wellformed(list) ==
    /\ list \in Seq(Request)
    /\ \A k \in 1 .. Len(list) :
         /\ list[k].what = "type" => list[k].generic \in TypeGenerics
         /\ list[k].what = "call" => list[k].generic \in FunGenerics
         /\ list[k].base = Previous => \E j \in 1 .. k - 1 : list[j].what = "type"

LEMMA ListsWellformed ==
    ASSUME program \in Programs, NEW g \in Generics \cup {Root}
    PROVE  Wellformed(program.signature[g]) /\ Wellformed(program.body[g])
<1>1. program.signature[g] \in Seq(Request) /\ program.body[g] \in Seq(Request)
  <2>1. program \in Program
    BY ProgramsAssumption
  <2> QED  BY <2>1 DEF Program
<1>2. Wellformed(program.signature[g])
  BY <1>1, ProgramsAssumption DEF Wellformed
<1>3. Wellformed(program.body[g])
  BY <1>1, ProgramsAssumption DEF Wellformed
<1> QED  BY <1>2, <1>3

LEMMA LastTypeFacts ==
    ASSUME NEW list, NEW k \in Nat \ {0}, Earlier(list, k) # {}
    PROVE  /\ LastType(list, k) \in 1 .. k - 1 /\ list[LastType(list, k)].what = "type"
           /\ \A j \in Earlier(list, k) : j <= LastType(list, k)
<1>1. LastType(list, k) = Max(Earlier(list, k))
  BY DEF LastType, Earlier
<1>2. Earlier(list, k) \in SUBSET (1 .. k - 1) /\ k - 1 \in Nat
  BY DEF Earlier
<1>3. Max(Earlier(list, k)) \in Earlier(list, k) /\ \A j \in Earlier(list, k) : j <= Max(Earlier(list, k))
  BY <1>2, GreatestNumber
<1> QED  BY <1>1, <1>3 DEF Earlier

AskedShape(list, meaning, shape, k) ==
    (IF list[k].wrap = None THEN << >> ELSE <<list[k].wrap>>)
        \o (IF list[k].base = Previous
            THEN <<list[LastType(list, k)].generic>> \o shape[LastType(list, k)]
            ELSE meaning[list[k].base])

\* The definition of Asked by recursion defines a function: what a request
\* asks for depends on no later one.
LEMMA AskedExists ==
    ASSUME NEW list, Wellformed(list), NEW meaning, NEW n \in Nat, n <= Len(list)
    PROVE  \E f : f = [k \in 1 .. n |-> AskedShape(list, meaning, f, k)]
<1> DEFINE Fits0(f, m) == f = [k \in 1 .. m |-> AskedShape(list, meaning, f, k)]
           T == {m \in Nat : m <= Len(list) /\ ~ \E f : Fits0(f, m)}
<1>0. Len(list) \in Nat
  BY DEF Wellformed
<1> SUFFICES ASSUME T # {} PROVE FALSE
  OBVIOUS
<1>1. T \in SUBSET Nat
  OBVIOUS
<1>2. PICK m \in T : \A l \in T : m <= l
  <2> HIDE DEF T
  <2> QED  BY <1>1, LeastNumber
<1>3. m \in Nat /\ m <= Len(list) /\ ~ \E f : Fits0(f, m)
  BY <1>2
<1>4. m # 0
  <2>1. Fits0(<< >>, 0)
    OBVIOUS
  <2> QED  BY <1>3, <2>1
<1>5. m - 1 \in Nat /\ m - 1 <= Len(list) /\ ~ (m <= m - 1)
  BY <1>0, <1>3, <1>4
<1>6. m - 1 \notin T
  BY <1>2, <1>5
<1>7. PICK f : Fits0(f, m - 1)
  BY <1>5, <1>6
<1> DEFINE g == [k \in 1 .. m |-> IF k = m THEN AskedShape(list, meaning, f, m) ELSE f[k]]
<1>8. \A k \in 1 .. m : list[k].base = Previous => LastType(list, k) \in 1 .. m - 1
  <2> SUFFICES ASSUME NEW k \in 1 .. m, list[k].base = Previous PROVE LastType(list, k) \in 1 .. m - 1
    OBVIOUS
  <2>1. k \in 1 .. Len(list) /\ k \in Nat \ {0}
    BY <1>0, <1>3
  <2>2. Earlier(list, k) # {}
    BY <2>1 DEF Wellformed, Earlier
  <2>3. LastType(list, k) \in 1 .. k - 1
    BY <2>1, <2>2, LastTypeFacts
  <2> QED  BY <1>3, <2>3
<1>9. \A j \in 1 .. m - 1 : g[j] = f[j]
  BY <1>3
<1>10. \A k \in 1 .. m : AskedShape(list, meaning, g, k) = AskedShape(list, meaning, f, k)
  <2> HIDE DEF g
  <2> QED  BY <1>8, <1>9 DEF AskedShape
<1>11. \A k \in 1 .. m - 1 : f[k] = AskedShape(list, meaning, f, k)
  BY <1>7
<1>12. \A k \in 1 .. m : k = m \/ k \in 1 .. m - 1
  BY <1>3
<1>13. \A k \in 1 .. m : g[k] = AskedShape(list, meaning, g, k)
  <2> SUFFICES ASSUME NEW k \in 1 .. m PROVE g[k] = AskedShape(list, meaning, f, k)
    BY <1>10
  <2>1. CASE k = m
    <3>1. g[k] = AskedShape(list, meaning, f, m)
      BY <2>1
    <3> QED  BY <2>1, <3>1
  <2>2. CASE k # m
    BY <1>9, <1>11, <1>12, <2>2
  <2> QED  BY <2>1, <2>2
<1>14. Fits0(g, m)
  <2>1. g = [k \in 1 .. m |-> g[k]]
    OBVIOUS
  <2> HIDE DEF g
  <2> QED  BY <1>13, <2>1
<1> QED  BY <1>3, <1>14

LEMMA AskedFacts ==
    ASSUME NEW list, Wellformed(list), NEW meaning \in [Names -> Seq(Tokens)], NEW k \in 1 .. Len(list)
    PROVE  /\ Asked(list, meaning)[k] \in Seq(Tokens)
           /\ Asked(list, meaning)[k] =
                WrappedShape(list[k].wrap,
                    IF list[k].base = Previous
                    THEN Apply(list[LastType(list, k)].generic, Asked(list, meaning)[LastType(list, k)])
                    ELSE meaning[list[k].base])
<1> DEFINE a == Asked(list, meaning)
           n == Len(list)
           inner(i) == IF list[i].base = Previous
                       THEN Apply(list[LastType(list, i)].generic, a[LastType(list, i)])
                       ELSE meaning[list[i].base]
<1>0. n \in Nat /\ list \in Seq(Request)
  BY DEF Wellformed
<1>1. a = CHOOSE f : f = [i \in 1 .. Len(list) |-> AskedShape(list, meaning, f, i)]
  BY DEF Asked, AskedShape
<1>2. \E f : f = [i \in 1 .. Len(list) |-> AskedShape(list, meaning, f, i)]
  <2>1. Len(list) <= Len(list)
    BY <1>0
  <2> QED  BY <1>0, <2>1, AskedExists, Zenon
<1>3. a = [i \in 1 .. n |-> AskedShape(list, meaning, a, i)]
  BY <1>1, <1>2
<1> HIDE DEF a
<1>4. \A i \in 1 .. n : a[i] = AskedShape(list, meaning, a, i)
  BY <1>3
<1>5. ASSUME NEW i \in 1 .. n
      PROVE  /\ list[i] \in Request /\ list[i].wrap \in Arrays \cup {Ptr, None}
             /\ list[i].base \in Names \cup {Previous} /\ i \in Nat \ {0}
             /\ list[i].base = Previous =>
                  /\ LastType(list, i) \in 1 .. i - 1 /\ LastType(list, i) \in 1 .. n
                  /\ list[LastType(list, i)].generic \in Tokens
  <2>1. list[i] \in Request /\ i \in Nat \ {0}
    BY <1>0
  <2>2. list[i].wrap \in Arrays \cup {Ptr, None} /\ list[i].base \in Names \cup {Previous}
    BY <2>1 DEF Request
  <2>3. ASSUME list[i].base = Previous
        PROVE  /\ LastType(list, i) \in 1 .. i - 1 /\ LastType(list, i) \in 1 .. n
               /\ list[LastType(list, i)].generic \in Tokens
    <3>1. Earlier(list, i) # {}
      BY <2>3 DEF Wellformed, Earlier
    <3>2. LastType(list, i) \in 1 .. i - 1
      BY <2>1, <3>1, LastTypeFacts
    <3>3. LastType(list, i) \in 1 .. n
      BY <1>0, <3>2
    <3>4. list[LastType(list, i)] \in Request
      BY <1>0, <3>3
    <3> QED  BY <3>2, <3>3, <3>4 DEF Request, Tokens
  <2> QED  BY <2>1, <2>2, <2>3
\* Each is a sequence: a first that is not would follow one that is not.
<1>6. ASSUME NEW i \in 1 .. n, inner(i) \in Seq(Tokens)
      PROVE  a[i] \in Seq(Tokens) /\ a[i] = WrappedShape(list[i].wrap, inner(i))
  <2>1. a[i] = (IF list[i].wrap = None THEN << >> ELSE <<list[i].wrap>>) \o inner(i)
    BY <1>4 DEF AskedShape, Apply
  <2> HIDE DEF inner
  <2>2. CASE list[i].wrap = None
    <3>1. a[i] = << >> \o inner(i)
      BY <2>1, <2>2
    <3>2. << >> \o inner(i) = inner(i)
      BY <1>6
    <3> QED  BY <1>6, <2>2, <3>1, <3>2 DEF WrappedShape
  <2>3. CASE list[i].wrap # None
    <3>1. a[i] = Apply(list[i].wrap, inner(i))
      BY <2>1, <2>3 DEF Apply
    <3>2. list[i].wrap \in Tokens
      BY <1>5, <2>3 DEF Tokens
    <3>3. Apply(list[i].wrap, inner(i)) \in Seq(Tokens)
      BY <1>6, <3>2, ApplyFacts, Zenon
    <3> QED  BY <2>3, <3>1, <3>3 DEF WrappedShape
  <2> QED  BY <2>2, <2>3
<1>7. \A i \in 1 .. n : a[i] \in Seq(Tokens)
  <2> DEFINE T == {i \in 1 .. n : a[i] \notin Seq(Tokens)}
  <2> SUFFICES ASSUME T # {} PROVE FALSE
    OBVIOUS
  <2>1. T \in SUBSET Nat
    BY <1>0
  <2>2. PICK i \in T : \A j \in T : i <= j
    <3> HIDE DEF T
    <3> QED  BY <2>1, LeastNumber
  <2>3. i \in 1 .. n /\ i \in Nat /\ a[i] \notin Seq(Tokens)
    BY <1>0, <2>2
  <2>4. inner(i) \in Seq(Tokens)
    <3>1. CASE list[i].base = Previous
      <4>1. /\ LastType(list, i) \in 1 .. i - 1 /\ LastType(list, i) \in 1 .. n
            /\ list[LastType(list, i)].generic \in Tokens
        BY <1>5, <2>3, <3>1
      <4>2. ~ (i <= LastType(list, i))
        BY <2>3, <4>1
      <4>3. a[LastType(list, i)] \in Seq(Tokens)
        BY <2>2, <4>1, <4>2
      <4>4. Apply(list[LastType(list, i)].generic, a[LastType(list, i)]) \in Seq(Tokens)
        BY <4>1, <4>3, ApplyFacts, Zenon
      <4> QED  BY <3>1, <4>4
    <3>2. CASE list[i].base # Previous
      <4>1. list[i].base \in Names
        BY <1>5, <2>3, <3>2
      <4> QED  BY <3>2, <4>1
    <3> QED  BY <3>1, <3>2
  <2> QED  BY <1>6, <2>3, <2>4
<1>8. inner(k) \in Seq(Tokens)
  <2>1. CASE list[k].base = Previous
    <3>1. /\ LastType(list, k) \in 1 .. n /\ list[LastType(list, k)].generic \in Tokens
      BY <1>5, <2>1
    <3>2. Apply(list[LastType(list, k)].generic, a[LastType(list, k)]) \in Seq(Tokens)
      BY <1>7, <3>1, ApplyFacts, Zenon
    <3> QED  BY <2>1, <3>2
  <2>2. CASE list[k].base # Previous
    <3>1. list[k].base \in Names
      BY <1>5, <2>2
    <3> QED  BY <2>2, <3>1
  <2> QED  BY <2>1, <2>2
<1> QED  BY <1>6, <1>8 DEF a
------------------------------------------------------------------------------
(* What has been answered stays answered *)

LEMMA MeaningFacts ==
    ASSUME TypeOK, NEW x, Binds(heap, x)
    PROVE  Meaning(x.bindings) \in [Names -> Seq(Tokens)]
<1> SUFFICES ASSUME NEW n \in Names
             PROVE  (IF x.bindings[n] # 0 THEN heap[x.bindings[n]].shape ELSE <<n>>) \in Seq(Tokens)
  BY DEF Meaning
<1>1. CASE x.bindings[n] # 0
  <2>1. x.bindings[n] \in 1 .. Len(heap) /\ heap \in Seq(TypeObject)
    BY <1>1 DEF Binds, Live, TypeOK
  <2> QED  BY <1>1, <2>1, ObjectFacts
<1>2. CASE x.bindings[n] = 0
  <2>1. n \in Tokens
    BY DEF Tokens
  <2> QED  BY <1>2, <2>1
<1> QED  BY <1>1, <1>2

LEMMA MeaningOn ==
    ASSUME TypeOK, Kept, NEW x, Binds(heap, x)
    PROVE  Meaning(x.bindings)' = Meaning(x.bindings)
<1>1. ASSUME NEW n \in Names
      PROVE  (IF x.bindings[n] # 0 THEN heap'[x.bindings[n]].shape ELSE <<n>>)
               = (IF x.bindings[n] # 0 THEN heap[x.bindings[n]].shape ELSE <<n>>)
  <2>1. CASE x.bindings[n] # 0
    <3>1. Live(heap, x.bindings[n])
      BY <2>1 DEF Binds
    <3>2. heap'[x.bindings[n]] = heap[x.bindings[n]]
      BY <3>1, LivesOn
    <3> QED  BY <3>2
  <2>2. CASE x.bindings[n] = 0
    BY <2>2
  <2> QED  BY <2>1, <2>2
<1> QED  BY <1>1 DEF Meaning

LEMMA CachedOn ==
    ASSUME TypeOK, Types, Kept, NEW g, NEW shape, Cached(g, shape)
    PROVE  Cached(g, shape)'
<1>1. PICK k \in 1 .. Len(cache) :
        cache[k].generic = g /\ Mangled(heap[cache[k].arg].shape) = Mangled(shape)
  BY DEF Cached
<1>2. k \in 1 .. Len(cache') /\ cache'[k].generic = g /\ cache'[k].arg = cache[k].arg
  BY <1>1, GrowsFacts DEF Kept
<1>3. PICK a : a = cache[k].arg
  OBVIOUS
<1>4. heap'[a] = heap[a]
  <2>1. Live(heap, a)
    BY <1>3 DEF Types, Holds
  <2> QED  BY <2>1, LivesOn
<1>5. Mangled(heap'[cache'[k].arg].shape) = Mangled(shape)
  BY <1>1, <1>2, <1>3, <1>4
<1> QED  BY <1>2, <1>5 DEF Cached

LEMMA AnswerOn ==
    ASSUME TypeOK, Types, Kept, NEW list, NEW x, Binds(heap, x), NEW k, Answer(list, x.bindings, k)
    PROVE  Answer(list, x.bindings, k)'
<1>1. PICK m : m = Meaning(x.bindings)
  OBVIOUS
<1>2. Meaning(x.bindings)' = m
  BY <1>1, MeaningOn
<1>3. list[k].what # "name" => Cached(list[k].generic, Asked(list, m)[k])
  BY <1>1 DEF Answer
<1>4. list[k].what # "name" => Cached(list[k].generic, Asked(list, m)[k])'
  BY <1>3, CachedOn
<1> QED  BY <1>2, <1>4 DEF Answer, Cached

LEMMA AnswersAre ==
    ASSUME NEW list, NEW b
    PROVE  Answers(list, b) <=> \A k \in 1 .. Len(list) : Answer(list, b, k)
  BY DEF Answers, Answer

LEMMA AnswersOn ==
    ASSUME TypeOK, Types, Kept, NEW list, NEW x, Binds(heap, x), Answers(list, x.bindings)
    PROVE  Answers(list, x.bindings)'
<1>1. \A k \in 1 .. Len(list) : Answer(list, x.bindings, k)
  BY AnswersAre
<1>2. \A k \in 1 .. Len(list) : Answer(list, x.bindings, k)'
  BY <1>1, AnswerOn
<1> QED  BY <1>2 DEF Answers, Answer

LEMMA AskedOn ==
    ASSUME TypeOK, Kept, NEW f, Binds(heap, f)
    PROVE  AskedNow(f)' = AskedNow(f)
<1>1. Meaning(f.bindings)' = Meaning(f.bindings)
  BY MeaningOn
<1>2. List(f)' = List(f)
  BY DEF List, Kept
<1> QED  BY <1>1, <1>2 DEF AskedNow

LEMMA FaithfulOn ==
    ASSUME TypeOK, Types, Kept, NEW f, Reaches(heap, f), Faithful(f)
    PROVE  Faithful(f)'
<1>1. Binds(heap, f)
  BY DEF Reaches
<1>2. PICK m, list : m = Meaning(f.bindings) /\ list = List(f)
  OBVIOUS
<1>3. Meaning(f.bindings)' = m
  BY <1>1, <1>2, MeaningOn
<1>4. List(f)' = list
  BY <1>2 DEF List, Kept
<1>5. \A k \in 1 .. f.next - 1 : Answer(list, f.bindings, k)
  BY <1>2 DEF Faithful
<1>6. \A k \in 1 .. f.next - 1 : Answer(list, f.bindings, k)'
  BY <1>1, <1>5, AnswerOn
<1>7. Earlier(list, f.next) # {} =>
        /\ f.last # 0
        /\ Mangled(heap[f.last].shape) =
             Mangled(Apply(list[LastType(list, f.next)].generic, Asked(list, m)[LastType(list, f.next)]))
  BY <1>2 DEF Faithful, Shape
<1>8. f.last # 0 => heap'[f.last] = heap[f.last]
  <2>1. f.last # 0 => Live(heap, f.last)
    BY DEF Reaches
  <2> QED  BY <2>1, LivesOn
<1>9. Earlier(list, f.next) # {} =>
        /\ f.last # 0
        /\ Mangled(heap'[f.last].shape) =
             Mangled(Apply(list[LastType(list, f.next)].generic, Asked(list, m)[LastType(list, f.next)]))
  BY <1>7, <1>8
<1> QED  BY <1>3, <1>4, <1>6, <1>9 DEF Faithful, Shape, Answer

\* A frame whose request has been answered.
LEMMA AnswerFaithful ==
    ASSUME TypeOK, Types, Kept, NEW f \in Frame, Reaches(heap, f), Faithful(f),
           f.next \in 1 .. Len(List(f)), NEW g, SameFrame(g, f), g.stage = f.stage,
           g.next = f.next + 1, NEW r, r = List(f)[f.next], NEW s, s = AskedNow(f),
           r.what # "name" => Cached(r.generic, s)',
           r.what = "type" => g.last # 0 /\ Mangled(heap'[g.last].shape) = Mangled(Apply(r.generic, s)),
           r.what # "type" => g.last = f.last
    PROVE  Faithful(g)'
<1>1. Binds(heap, f)
  BY DEF Reaches
<1>2. PICK m, list : m = Meaning(f.bindings) /\ list = List(f)
  OBVIOUS
<1>3. Meaning(f.bindings)' = m
  BY <1>1, <1>2, MeaningOn
<1>4. List(f)' = list /\ List(g)' = list /\ g.bindings = f.bindings
  BY <1>2 DEF List, Kept, SameFrame
<1>5. r = list[f.next] /\ s = Asked(list, m)[f.next] /\ f.next \in Nat \ {0}
  BY <1>2, FrameFacts DEF AskedNow
<1>6. \A k \in 1 .. f.next - 1 : Answer(list, f.bindings, k)
  BY <1>2 DEF Faithful
<1>7. \A k \in 1 .. f.next - 1 : Answer(list, f.bindings, k)'
  BY <1>1, <1>6, AnswerOn
<1>8. Answer(list, f.bindings, f.next)'
  BY <1>3, <1>5 DEF Answer, Cached
<1>9. \A k \in 1 .. g.next - 1 : Answer(list, g.bindings, k)'
  <2>1. \A k \in 1 .. g.next - 1 : k \in 1 .. f.next - 1 \/ k = f.next
    BY <1>5
  <2>2. ASSUME NEW k \in 1 .. g.next - 1 PROVE Answer(list, f.bindings, k)'
    BY <1>7, <1>8, <2>1 DEF Answer, Cached
  <2> QED  BY <1>4, <2>2 DEF Answer, Cached
<1>10. Earlier(list, g.next) # {} =>
         /\ g.last # 0
         /\ Mangled(heap'[g.last].shape) =
              Mangled(Apply(list[LastType(list, g.next)].generic, Asked(list, m)[LastType(list, g.next)]))
  <2>1. CASE r.what = "type"
    <3>1. f.next \in Earlier(list, g.next) /\ g.next \in Nat \ {0}
      BY <1>5, <2>1 DEF Earlier
    <3>2. LastType(list, g.next) \in 1 .. g.next - 1 /\ f.next <= LastType(list, g.next)
      BY <3>1, LastTypeFacts
    <3>3. LastType(list, g.next) = f.next
      BY <1>5, <3>2
    <3> QED  BY <1>5, <2>1, <3>3
  <2>2. CASE r.what # "type"
    <3>1. Earlier(list, g.next) = Earlier(list, f.next)
      <4>1. \A k \in Earlier(list, g.next) : k \in Earlier(list, f.next)
        BY <1>5, <2>2 DEF Earlier
      <4>2. \A k \in Earlier(list, f.next) : k \in Earlier(list, g.next)
        BY <1>5 DEF Earlier
      <4> QED  BY <4>1, <4>2
    <3>2. LastType(list, g.next) = LastType(list, f.next)
      BY <3>1 DEF LastType, Earlier
    <3>3. Earlier(list, f.next) # {} =>
            /\ f.last # 0
            /\ Mangled(heap[f.last].shape) =
                 Mangled(Apply(list[LastType(list, f.next)].generic, Asked(list, m)[LastType(list, f.next)]))
      BY <1>2 DEF Faithful, Shape
    <3>4. f.last # 0 => heap'[f.last] = heap[f.last]
      <4>1. f.last # 0 => Live(heap, f.last)
        BY DEF Reaches
      <4> QED  BY <4>1, LivesOn
    <3> QED  BY <2>2, <3>1, <3>2, <3>3, <3>4
  <2> QED  BY <2>1, <2>2
<1>11. Meaning(g.bindings)' = m
  BY <1>3, <1>4
<1> QED  BY <1>4, <1>9, <1>10, <1>11 DEF Faithful, Shape, Answer

\* A frame that begins a list has nothing to answer for.
LEMMA FirstFaithful ==
    ASSUME NEW g, g.next = 1
    PROVE  Faithful(g)'
<1>1. (~ \E k : k \in 1 .. g.next - 1) /\ \A list : Earlier(list, g.next) = {}
  BY DEF Earlier
<1> QED  BY <1>1 DEF Faithful

\* The type of a request is the type that the source asks for, but for the
\* lengths of its arrays.
LEMMA MeansWhatItSays ==
    ASSUME Core, HasRequest, Known(NextRequest.base), Faithful(Top),
           NEW r \in Wrapped(NextRequest.wrap, TypeNamed(NextRequest.base))
    PROVE  Mangled(r[1][r[2]].shape) = Mangled(AskedNow(Top))
<1>1. PICK list, k, m, q, t, b : /\ list = List(Top) /\ k = Top.next /\ m = Meaning(Top.bindings)
                                 /\ q = NextRequest /\ t = TypeNamed(NextRequest.base)
                                 /\ b = NextRequest.base
  OBVIOUS
<1>2. /\ q \in Request /\ k \in 1 .. Len(list) /\ q = list[k] /\ Live(heap, t)
      /\ r[1][r[2]].shape = WrappedShape(q.wrap, heap[t].shape)
  BY <1>1, AskedFor DEF Core
<1>3. Top \in Frame /\ Reaches(heap, Top) /\ k \in Nat \ {0} /\ Binds(heap, Top)
  BY <1>1, CoreFacts DEF Reaches
<1>4. Wellformed(list)
  <2>1. /\ Top.generic \in Generics \cup {Root}
        /\ list \in {program.signature[Top.generic], program.body[Top.generic]}
    BY <1>1, <1>3, ListFacts DEF Core, Types
  <2> QED  BY <2>1, ListsWellformed DEF Core, Types
<1>5. m \in [Names -> Seq(Tokens)]
  <2>1. PICK x : x = Top
    OBVIOUS
  <2>2. Meaning(x.bindings) \in [Names -> Seq(Tokens)]
    BY <1>3, <2>1, MeaningFacts DEF Core
  <2> QED  BY <1>1, <2>1, <2>2
<1> DEFINE a == Asked(list, m)
           inner == IF list[k].base = Previous
                    THEN Apply(list[LastType(list, k)].generic, a[LastType(list, k)])
                    ELSE m[list[k].base]
<1>6. a[k] = WrappedShape(q.wrap, inner) /\ a[k] = AskedNow(Top)
  <2>1. a[k] = WrappedShape(list[k].wrap, inner)
    BY <1>2, <1>4, <1>5, AskedFacts
  <2>2. a[k] = AskedNow(Top)
    BY <1>1 DEF AskedNow
  <2> QED  BY <1>2, <2>1, <2>2
<1>7. inner \in Seq(Tokens) /\ heap[t].shape \in Seq(Tokens) /\ Mangled(heap[t].shape) = Mangled(inner)
  <2>1. t \in 1 .. Len(heap) /\ heap[t].shape \in Seq(Tokens)
    <3>1. t \in 1 .. Len(heap) /\ heap \in Seq(TypeObject)
      BY <1>2 DEF Live, Core, TypeOK
    <3> QED  BY <3>1, ObjectFacts
  <2>2. b \in Names \cup {Previous} /\ q.base = b
    BY <1>1, <1>2 DEF Request
  <2>3. CASE b = Previous
    <3>1. Earlier(list, k) # {}
      BY <1>2, <1>4, <2>2, <2>3 DEF Wellformed, Earlier
    <3>2. t = Top.last
      BY <1>1, <2>2, <2>3, NamedFacts DEF Core
    <3>3. Mangled(heap[t].shape) = Mangled(Apply(list[LastType(list, k)].generic, a[LastType(list, k)]))
      BY <1>1, <3>1, <3>2 DEF Faithful, Shape
    <3>4. inner \in Seq(Tokens)
      <4>1. LastType(list, k) \in 1 .. k - 1
        BY <1>3, <3>1, LastTypeFacts
      <4>2. LastType(list, k) \in 1 .. Len(list) /\ list \in Seq(Request)
        BY <1>2, <1>4, <4>1 DEF Wellformed
      <4>3. list[LastType(list, k)].generic \in Tokens
        <5>1. list[LastType(list, k)] \in Request
          BY <4>2
        <5> QED  BY <5>1 DEF Request, Tokens
      <4>4. a[LastType(list, k)] \in Seq(Tokens)
        BY <1>4, <1>5, <4>2, AskedFacts
      <4>5. Apply(list[LastType(list, k)].generic, a[LastType(list, k)]) \in Seq(Tokens)
        BY <4>3, <4>4, ApplyFacts, Zenon
      <4> QED  BY <1>2, <2>2, <2>3, <4>5
    <3> QED  BY <1>2, <2>1, <2>2, <2>3, <3>3, <3>4
  <2>4. CASE b # Previous
    <3>1. heap[t].shape = m[b]
      BY <1>1, <2>2, <2>4, NamedFacts DEF Core
    <3>2. inner = m[b]
      BY <1>2, <2>2, <2>4
    <3> QED  BY <2>1, <3>1, <3>2
  <2> QED  BY <2>3, <2>4
<1> HIDE DEF inner, a
<1>8. Mangled(WrappedShape(q.wrap, heap[t].shape)) = Mangled(WrappedShape(q.wrap, inner))
  <2>1. CASE q.wrap = None
    BY <1>7, <2>1 DEF WrappedShape
  <2>2. CASE q.wrap # None
    <3>1. q.wrap \in Tokens
      BY <1>2, <2>2 DEF Request, Tokens
    <3>2. Mangled(Apply(q.wrap, heap[t].shape)) = Mangled(Apply(q.wrap, inner))
      BY <1>7, <3>1, MangledApply
    <3> QED  BY <2>2, <3>2 DEF WrappedShape
  <2> QED  BY <2>1, <2>2
<1> QED  BY <1>2, <1>6, <1>8
------------------------------------------------------------------------------
(* While no error was diagnosed, every request is answered *)

LEMMA RootOn ==
    ASSUME TypeOK, Types, Kept, Answers(program.signature[Root], NoBindings)
    PROVE  Answers(program.signature[Root], NoBindings)'
<1>1. PICK x, list : x = [bindings |-> NoBindings] /\ list = program.signature[Root]
  OBVIOUS
<1>2. Binds(heap, x)
  BY <1>1 DEF Binds, NoBindings
<1>3. Answers(list, x.bindings)'
  BY <1>1, <1>2, AnswersOn
<1>4. program'.signature[Root] = list /\ x.bindings = NoBindings
  BY <1>1 DEF Kept
<1> QED  BY <1>3, <1>4 DEF Answers, NoBindings

LEMMA InBodyOn ==
    ASSUME TypeOK, Types, Kept, NEW f, InBody(f)
    PROVE  InBody(f)'
<1>1. CASE f.stage = "body" /\ f.generic = Root
  <2>1. Answers(program.signature[Root], NoBindings)
    BY <1>1 DEF InBody
  <2> QED  BY <1>1, <2>1, RootOn DEF InBody
<1>2. CASE f.stage = "body" /\ f.generic # Root
  <2>1. PICK e \in 1 .. Len(cache) : SameInstance(cache[e], f)
    BY <1>2 DEF InBody
  <2>2. e \in 1 .. Len(cache') /\ SameInstance(cache'[e], f)
    BY <2>1, GrowsFacts DEF SameInstance, Kept
  <2> QED  BY <1>2, <2>2 DEF InBody
<1>3. CASE f.stage # "body"
  BY <1>3 DEF InBody
<1> QED  BY <1>1, <1>2, <1>3

LEMMA RequestsOn ==
    ASSUME TypeOK, Types, Kept, NEW f, Binds(heap, f), NEW g, Live(heap, g.arg), Requests(f, g)
    PROVE  Requests(f, g)'
<1>1. AskedNow(f)' = AskedNow(f)
  BY AskedOn
<1>2. heap'[g.arg] = heap[g.arg]
  BY LivesOn
<1>3. Mangled(heap[g.arg].shape) = Mangled(AskedNow(f))
  BY DEF Requests, Shape
<1>4. Mangled(heap'[g.arg].shape) = Mangled(AskedNow(f)')
  BY <1>1, <1>2, <1>3
<1> QED  BY <1>4 DEF Requests, Shape, AskedNow

LEMMA WaitsStep ==
    ASSUME Core, Kept, Waits, ~ failing', NEW n, NEW f, Moved(n, f), f.ok, Faithful(f)', InBody(f)',
           n = 1 => f.bindings = NoBindings,
           n <= Len(stack) => f.arg = stack[n].arg,
           n > Len(stack) => Mangled(heap'[f.arg].shape) = Mangled(AskedNow(Top))
    PROVE  Waits'
<1>1. /\ n \in Nat \ {0} /\ Len(stack') = n /\ stack'[n] = f /\ Len(stack) \in Nat \ {0}
      /\ n <= Len(stack) + 1 /\ TypeOK /\ Types /\ Stacked
  BY CoreFacts DEF Moved, Core
<1>2. ASSUME NEW i \in 1 .. Len(stack')
      PROVE  stack'[i].ok /\ Faithful(stack[i])' /\ InBody(stack[i])'
  <2>1. PICK g : g = stack'[i]
    OBVIOUS
  <2>2. g.ok /\ Faithful(g)' /\ InBody(g)'
    <3>1. CASE i = n
      <4>1. g = f
        BY <1>1, <2>1, <3>1
      <4> QED  BY <4>1 DEF Faithful, InBody
    <3>2. CASE i # n
      <4>1. i \in 1 .. Len(stack) /\ g = stack[i]
        BY <1>1, <2>1, <3>2, MovedFacts
      <4>2. g.ok /\ Faithful(g) /\ InBody(g) /\ Reaches(heap, g)
        BY <1>1, <4>1 DEF Waits, Types
      <4> QED  BY <1>1, <4>2, FaithfulOn, InBodyOn
    <3> QED  BY <3>1, <3>2
  <2> QED  BY <2>1, <2>2 DEF Faithful, InBody
<1>3. ASSUME NEW i \in 1 .. Len(stack') - 1
      PROVE  Requests(stack[i], stack[i + 1])'
  <2>1. PICK g, h : g = stack'[i] /\ h = stack'[i + 1]
    OBVIOUS
  <2>2. /\ i \in 1 .. Len(stack') /\ i + 1 \in 1 .. Len(stack') /\ i # n /\ i \in Nat /\ i >= 1
        /\ (i + 1 = n \/ i + 1 \in 1 .. n - 1)
    BY <1>1
  <2>3. i \in 1 .. Len(stack) /\ g = stack[i]
    BY <1>1, <2>1, <2>2, MovedFacts
  <2>4. Reaches(heap, g) /\ Binds(heap, g)
    BY <1>1, <2>3 DEF Types, Reaches
  <2>5. CASE i + 1 <= Len(stack)
    <3>1. i + 1 \in 1 .. Len(stack) /\ i \in 1 .. Len(stack) - 1 /\ i + 1 # 1
      BY <1>1, <2>2, <2>5
    <3>2. h.arg = stack[i + 1].arg
      <4>1. CASE i + 1 = n
        BY <1>1, <2>1, <2>5, <4>1
      <4>2. CASE i + 1 # n
        BY <1>1, <2>1, <2>2, <4>2, MovedFacts
      <4> QED  BY <4>1, <4>2
    <3>3. Requests(g, h)
      BY <2>3, <3>1, <3>2 DEF Waits, Requests
    <3>4. Live(heap, h.arg)
      <4>1. Reaches(heap, stack[i + 1]) /\ stack[i + 1].generic # Root
        BY <1>1, <3>1 DEF Types, Stacked
      <4>2. Holds(heap, stack[i + 1])
        BY <4>1 DEF Reaches
      <4> QED  BY <3>2, <4>2 DEF Holds
    <3>5. Requests(g, h)'
      BY <1>1, <2>4, <3>3, <3>4, RequestsOn
    <3> QED  BY <2>1, <3>5 DEF Requests, Shape, AskedNow, List
  <2>6. CASE ~ (i + 1 <= Len(stack))
    <3>1. i + 1 = n /\ i = Len(stack) /\ n > Len(stack)
      BY <1>1, <2>2, <2>3, <2>6
    <3>2. h = f /\ g = Top
      BY <1>1, <2>1, <2>3, <3>1 DEF Top
    <3>3. Mangled(heap'[h.arg].shape) = Mangled(AskedNow(g))
      BY <3>1, <3>2 DEF AskedNow
    <3>4. AskedNow(g)' = AskedNow(g)
      BY <1>1, <2>4, AskedOn
    <3>5. Requests(g, h)'
      BY <3>3, <3>4 DEF Requests, Shape, AskedNow
    <3> QED  BY <2>1, <3>5 DEF Requests, Shape, AskedNow, List
  <2> QED  BY <2>5, <2>6
<1>4. stack'[1].bindings = NoBindings
  <2>1. CASE n = 1
    BY <1>1, <2>1
  <2>2. CASE n # 1
    <3>1. 1 \in 1 .. Len(stack')
      BY <1>1
    <3>2. stack'[1] = stack[1]
      BY <2>2, <3>1, MovedFacts DEF Core
    <3> QED  BY <3>2 DEF Waits
  <2> QED  BY <2>1, <2>2
<1> QED  BY <1>2, <1>3, <1>4 DEF Waits, NoBindings

LEMMA CompleteStep ==
    ASSUME Core, Kept, Complete, \A e \in 1 .. Len(cache) : ~ cache'[e].freed,
           \A e : New(e) =>
             /\ ~ cache'[e].freed
             /\ Answers(program.signature[cache[e].generic], cache[e].bindings)'
             /\ \/ Answers(program.body[cache[e].generic], cache[e].bindings)'
                \/ \E i \in 2 .. Len(stack') : Underway(cache'[e], stack'[i]),
           \A e \in 1 .. Len(cache) : \A i \in 2 .. Len(stack) :
             Underway(cache[e], stack[i]) =>
                \/ Answers(program.body[cache[e].generic], cache[e].bindings)
                \/ \E j \in 2 .. Len(stack') : Underway(cache[e], stack'[j])
    PROVE  Complete'
<1> SUFFICES ASSUME NEW e \in 1 .. Len(cache')
             PROVE  /\ ~ cache'[e].freed
                    /\ Answers(program.signature[cache[e].generic], cache[e].bindings)'
                    /\ \/ Answers(program.body[cache[e].generic], cache[e].bindings)'
                       \/ \E i \in 2 .. Len(stack') : Underway(cache'[e], stack'[i])
  BY DEF Complete, Underway
<1>1. CASE e \notin 1 .. Len(cache)
  <2>1. New(e)
    BY <1>1 DEF New, Core, TypeOK, Kept, Grows
  <2> QED  BY <2>1
<1>2. CASE e \in 1 .. Len(cache)
  <2>1. PICK x, y : x = cache[e] /\ y = cache'[e]
    OBVIOUS
  <2>2. x.generic = y.generic /\ x.bindings = y.bindings
    BY <1>2, <2>1, GrowsFacts DEF Kept, Core
  <2>3. PICK sig, body : sig = program.signature[x.generic] /\ body = program.body[x.generic]
    OBVIOUS
  <2>4. program'.signature[y.generic] = sig /\ program'.body[y.generic] = body
    BY <2>2, <2>3 DEF Kept
  <2>5. Binds(heap, x)
    BY <1>2, <2>1 DEF Core, Types
  <2>6. Answers(sig, x.bindings)'
    <3>1. Answers(sig, x.bindings)
      BY <1>2, <2>1, <2>3 DEF Complete
    <3> QED  BY <2>5, <3>1, AnswersOn DEF Core
  <2>7. Answers(body, x.bindings)' \/ \E i \in 2 .. Len(stack') : Underway(y, stack'[i])
    <3>1. Answers(body, x.bindings) \/ \E j \in 2 .. Len(stack') : Underway(x, stack'[j])
      BY <1>2, <2>1, <2>3 DEF Complete
    <3>2. CASE Answers(body, x.bindings)
      BY <2>5, <3>2, AnswersOn DEF Core
    <3>3. CASE \E j \in 2 .. Len(stack') : Underway(x, stack'[j])
      BY <2>2, <3>3 DEF Underway
    <3> QED  BY <3>1, <3>2, <3>3
  <2> QED  BY <1>2, <2>1, <2>2, <2>4, <2>6, <2>7 DEF Answers
<1> QED  BY <1>1, <1>2

\* The frames below stay, and the one a step leaves innermost is of the
\* instantiation it was.
LEMMA UnderwayOn ==
    ASSUME Core, NEW n, NEW f, Moved(n, f), NEW i \in 2 .. Len(stack), i <= n,
           n <= Len(stack) => SameFrame(f, stack[n]) /\ (stack[n].stage = "body" => f.stage = "body"),
           NEW x, Underway(x, stack[i])
    PROVE  \E j \in 2 .. Len(stack') : Underway(x, stack'[j])
<1>1. i \in 2 .. Len(stack') /\ i \in 1 .. Len(stack') /\ n \in Nat /\ Len(stack) \in Nat
  BY CoreFacts DEF Moved
<1>2. CASE i = n
  <2>1. stack'[i] = f /\ n <= Len(stack)
    BY <1>1, <1>2, MovedFacts DEF Core
  <2> QED  BY <1>1, <1>2, <2>1 DEF Underway, SameFrame
<1>3. CASE i # n
  <2>1. stack'[i] = stack[i]
    BY <1>1, <1>3, MovedFacts DEF Core
  <2> QED  BY <1>1, <2>1
<1> QED  BY <1>2, <1>3

\* A step after which the frames are those that were, but the innermost, which
\* is of the instantiation it was, and the cache is as it was.
LEMMA SameComplete ==
    ASSUME Core, Kept, Complete, cache' = cache, NEW n, NEW f, Moved(n, f), n >= Len(stack),
           n <= Len(stack) => SameFrame(f, stack[n]) /\ (stack[n].stage = "body" => f.stage = "body")
    PROVE  Complete'
<1>1. \A e : ~ New(e)
  BY DEF New, Core, TypeOK
<1>2. \A i \in 2 .. Len(stack) : i <= n
  BY CoreFacts DEF Moved
<1>3. \A e \in 1 .. Len(cache) : \A i \in 2 .. Len(stack) :
        Underway(cache[e], stack[i]) => \E j \in 2 .. Len(stack') : Underway(cache[e], stack'[j])
  BY <1>2, UnderwayOn
<1>4. \A e \in 1 .. Len(cache) : ~ cache'[e].freed
  BY DEF Complete
<1> QED  BY <1>1, <1>3, <1>4, CompleteStep

LEMMA SoundFacts ==
    ASSUME Core, Waits
    PROVE  /\ Faithful(Top) /\ InBody(Top) /\ Top.ok
           /\ Top.generic = Root => Top.bindings = NoBindings
           /\ Len(stack) = 1 => Top.bindings = NoBindings
<1>1. Len(stack) \in 1 .. Len(stack) /\ Top = stack[Len(stack)] /\ (Top.generic = Root <=> Len(stack) = 1)
  BY CoreFacts
<1> QED  BY <1>1 DEF Waits

\* Nothing but the heap changes.
LEMMA StillSound ==
    ASSUME Core, Sound, Kept, cache' = cache, stack' = stack, ~ failing', errors' = errors
    PROVE  Sound'
<1>1. SUFFICES ASSUME ~ errors PROVE Waits' /\ Complete'
  BY DEF Sound
<1>2. Waits /\ Complete
  BY <1>1 DEF Sound
<1>3. PICK n, f : n = Len(stack) /\ f = Top
  OBVIOUS
<1>4. Moved(n, f) /\ Len(stack) \in Nat /\ f = stack[n]
  BY <1>3, SameMoves, CoreFacts
<1>5. Faithful(f) /\ InBody(f) /\ f.ok /\ Reaches(heap, f) /\ (n = 1 => f.bindings = NoBindings)
  BY <1>2, <1>3, SoundFacts, CoreFacts
<1>6. Faithful(f)' /\ InBody(f)'
  BY <1>5, FaithfulOn, InBodyOn DEF Core
<1>7. ~ (n > Len(stack)) /\ n >= Len(stack)
  BY <1>3, <1>4
<1>8. Waits'
  BY <1>2, <1>4, <1>5, <1>6, <1>7, WaitsStep
<1>9. Complete'
  BY <1>2, <1>4, <1>7, SameComplete DEF SameFrame
<1> QED  BY <1>8, <1>9

\* The request is answered where the innermost frame stands.
LEMMA AnswerSound ==
    ASSUME Core, Sound, Kept, cache' = cache, ~ failing', errors' = errors, HasRequest,
           NEW t \in Nat, stack' = WithTop(Answered(Top, t)),
           ~ errors => (NextRequest.what # "name" => Cached(NextRequest.generic, AskedNow(Top))),
           ~ errors => (NextRequest.what = "type" =>
             t # 0 /\ Mangled(heap'[t].shape) = Mangled(Apply(NextRequest.generic, AskedNow(Top)))),
           NextRequest.what # "type" => t = 0
    PROVE  Sound'
<1>1. SUFFICES ASSUME ~ errors PROVE Waits' /\ Complete'
  BY DEF Sound
<1>2. Waits /\ Complete
  BY <1>1 DEF Sound
<1>3. PICK n, f, top, r, s : /\ n = Len(stack) /\ f = Answered(Top, t) /\ top = Top
                             /\ r = NextRequest /\ s = AskedNow(Top)
  OBVIOUS
<1>4. f \in Frame /\ SameFrame(f, top) /\ f.stage = top.stage /\ f.ok = top.ok
  BY <1>3, CoreFacts, AnsweredIs
<1>5. f.next = top.next + 1 /\ f.last = IF t = 0 THEN top.last ELSE t
  BY <1>3, CoreFacts, AnsweredIs
<1>6. Moved(n, f)
  BY <1>3, <1>4, WithTopMoves DEF Core
<1>7. /\ top \in Frame /\ Reaches(heap, top) /\ Faithful(top) /\ InBody(top) /\ top.ok
      /\ (n = 1 => top.bindings = NoBindings) /\ top = stack[n] /\ Len(stack) \in Nat
  BY <1>2, <1>3, SoundFacts, CoreFacts
<1>8. top.next \in 1 .. Len(List(top)) /\ r = List(top)[top.next] /\ s = AskedNow(top)
  BY <1>3, RequestAt, CoreFacts DEF NextRequest, AskedNow
<1>9. r.what # "name" => Cached(r.generic, s)'
  <2>1. r.what # "name" => Cached(r.generic, s)
    BY <1>1, <1>3
  <2> QED  BY <2>1, CachedOn DEF Core
<1>10. r.what = "type" => f.last # 0 /\ Mangled(heap'[f.last].shape) = Mangled(Apply(r.generic, s))
  BY <1>1, <1>3, <1>5
<1>11. r.what # "type" => f.last = top.last
  BY <1>3, <1>5
<1>12. Faithful(f)'
  BY <1>4, <1>5, <1>7, <1>8, <1>9, <1>10, <1>11, AnswerFaithful DEF Core
<1>13. InBody(f)'
  <2>1. InBody(top)'
    BY <1>7, InBodyOn DEF Core
  <2> QED  BY <1>4, <2>1 DEF InBody, SameFrame, SameInstance
<1>14. ~ (n > Len(stack)) /\ n >= Len(stack)
  BY <1>3, <1>7
<1>15. Waits'
  BY <1>2, <1>4, <1>6, <1>7, <1>12, <1>13, <1>14, WaitsStep DEF SameFrame
<1>16. Complete'
  BY <1>2, <1>4, <1>6, <1>7, <1>14, SameComplete
<1> QED  BY <1>15, <1>16

LEMMA NameTypeSound == ASSUME Core, Sound, NameType PROVE Sound'
<1>1. /\ HasRequest /\ NextRequest.what = "name" /\ Known(NextRequest.base) /\ cache' = cache
      /\ program' = program /\ ~ failing' /\ errors' = errors /\ stack' = WithTop(Answered(Top, 0))
  BY RequestAt DEF NameType
<1>2. PICK r \in Wrapped(NextRequest.wrap, TypeNamed(NextRequest.base)) : heap' = r[1]
  BY DEF NameType
<1>3. Kept
  BY <1>1, <1>2, Requested
<1> QED  BY <1>1, <1>3, AnswerSound

LEMMA CacheHitSound == ASSUME Core, Sound, CacheHit PROVE Sound'
<1>1. /\ HasRequest /\ NextRequest.what # "name" /\ Known(NextRequest.base) /\ cache' = cache
      /\ program' = program /\ ~ failing' /\ errors' = errors
  BY RequestAt DEF CacheHit
<1>2. PICK r \in Wrapped(NextRequest.wrap, TypeNamed(NextRequest.base)) :
         LET found == Found(r[1], NextRequest.generic, r[2])
             entry == cache[Max(found)]
         IN  found # {} /\ heap' = r[1] /\ stack' = WithTop(Answered(Top, entry.type))
  BY DEF CacheHit
<1>3. PICK found : found = Found(r[1], NextRequest.generic, r[2])
  OBVIOUS
<1>4. PICK m : m = Max(found)
  OBVIOUS
<1>5. found # {} /\ heap' = r[1] /\ stack' = WithTop(Answered(Top, cache[m].type))
  BY <1>2, <1>3, <1>4
<1>6. /\ m \in 1 .. Len(cache) /\ cache[m].generic = NextRequest.generic
      /\ Mangled(r[1][cache[m].arg].shape) = Mangled(r[1][r[2]].shape)
      /\ Holds(heap, cache[m]) /\ cache[m] \in Entry
  BY <1>1, <1>3, <1>4, <1>5, HitFacts
<1>7. Kept
  BY <1>1, <1>5, Requested
<1>8. PICK g, t, a, s : /\ g = NextRequest.generic /\ t = cache[m].type /\ a = cache[m].arg
                        /\ s = AskedNow(Top)
  OBVIOUS
<1>9. t \in Nat
  BY <1>6, <1>8 DEF Entry
<1>10. ~ errors => Mangled(r[1][r[2]].shape) = Mangled(s)
  <2> SUFFICES ASSUME ~ errors PROVE Mangled(r[1][r[2]].shape) = Mangled(s)
    OBVIOUS
  <2>1. Faithful(Top)
    BY SoundFacts DEF Sound
  <2> QED  BY <1>1, <1>8, <2>1, MeansWhatItSays
<1>11. Live(heap, a) /\ heap'[a] = heap[a] /\ a \in 1 .. Len(heap)
  <2>1. Live(heap, a)
    BY <1>6, <1>8 DEF Holds
  <2> QED  BY <1>7, <2>1, LivesOn DEF Core
<1>12. ~ errors => Mangled(heap[a].shape) = Mangled(s)
  BY <1>5, <1>6, <1>8, <1>10, <1>11
<1>13. ~ errors => Cached(g, s)
  BY <1>6, <1>8, <1>12 DEF Cached
<1>14. Top.next \in 1 .. Len(List(Top)) /\ Top \in Frame /\ TypeOK /\ program \in Programs
  BY <1>1, RequestAt, CoreFacts DEF Core, Types
<1>15. /\ NextRequest.what = "type" => g \in TypeGenerics
       /\ NextRequest.what # "type" => g \notin TypeGenerics
  <2>1. /\ NextRequest \in Request
        /\ NextRequest.what = "type" => NextRequest.generic \in TypeGenerics
        /\ NextRequest.what = "call" => NextRequest.generic \in FunGenerics
    BY <1>14, RequestFacts DEF NextRequest
  <2>2. NextRequest.what \in {"name", "type", "call"}
    BY <2>1 DEF Request
  <2> QED  BY <1>1, <1>8, <2>1, <2>2, TokensAssumption
<1>16. ~ errors => (NextRequest.what = "type" =>
         t # 0 /\ Mangled(heap'[t].shape) = Mangled(Apply(g, s)))
  <2> SUFFICES ASSUME ~ errors, NextRequest.what = "type"
               PROVE  t # 0 /\ Mangled(heap'[t].shape) = Mangled(Apply(g, s))
    OBVIOUS
  <2>1. IsInstance(heap, t, g, a)
    BY <1>6, <1>8, <1>15 DEF Holds
  <2>2. t \in 1 .. Len(heap) /\ t # 0 /\ heap[t].shape = Apply(g, heap[a].shape)
    <3>1. Len(heap) \in Nat /\ Len(Declared) \in Nat
      BY DeclaredAssumption DEF Core, TypeOK
    <3> QED  BY <2>1, <3>1 DEF IsInstance
  <2>3. heap'[t] = heap[t]
    BY <1>7, <2>2 DEF Kept, Extends
  <2>4. heap[a].shape \in Seq(Tokens) /\ g \in Tokens
    BY <1>11, <1>15, ObjectFacts DEF Core, TypeOK, Tokens, Generics
  <2>5. s \in Seq(Tokens)
    <3>1. PICK top, list : top = Top /\ list = List(Top)
      OBVIOUS
    <3>2. Wellformed(list)
      <4>1. /\ Top.generic \in Generics \cup {Root}
            /\ list \in {program.signature[Top.generic], program.body[Top.generic]}
        BY <1>14, <3>1, ListFacts
      <4> QED  BY <1>14, <4>1, ListsWellformed
    <3>3. Meaning(top.bindings) \in [Names -> Seq(Tokens)]
      BY <1>14, <3>1, MeaningFacts, CoreFacts DEF Reaches
    <3>4. Asked(list, Meaning(top.bindings))[top.next] \in Seq(Tokens)
      BY <1>14, <3>1, <3>2, <3>3, AskedFacts
    <3> QED  BY <1>8, <3>1, <3>4 DEF AskedNow
  <2>6. Mangled(Apply(g, heap[a].shape)) = Mangled(Apply(g, s))
    BY <1>12, <2>4, <2>5, MangledApply
  <2> QED  BY <2>2, <2>3, <2>6
<1>17. NextRequest.what # "type" => t = 0
  BY <1>6, <1>8, <1>15 DEF Holds
<1> QED  BY <1>1, <1>5, <1>7, <1>8, <1>9, <1>13, <1>16, <1>17, AnswerSound

LEMMA InstantiateSound == ASSUME Core, Sound, Instantiate PROVE Sound'
<1>1. /\ HasRequest /\ NextRequest.what # "name" /\ Known(NextRequest.base) /\ cache' = cache
      /\ program' = program /\ ~ failing' /\ errors' = errors
  BY RequestAt DEF Instantiate
<1>2. PICK r \in Wrapped(NextRequest.wrap, TypeNamed(NextRequest.base)) :
        LET g == NextRequest.generic
        IN  \/ heap' = r[1] /\ UNCHANGED stack
            \/ /\ g \in FunGenerics /\ heap' = r[1]
               /\ stack' = Append(stack, FrameOf(g, r[2], 0, Bind(g, r[2])))
            \/ /\ g \in TypeGenerics /\ heap' \in NewType(r[1], <<g>> \o r[1][r[2]].shape, 0)
               /\ stack' = Append(stack, FrameOf(g, r[2], Len(heap'), Bind(g, r[2])))
  BY DEF Instantiate
<1>3. PICK g, a : g = NextRequest.generic /\ a = r[2]
  OBVIOUS
<1>4. CASE heap' = r[1] /\ UNCHANGED stack
  <2>1. Kept
    BY <1>1, <1>4, Requested
  <2> QED  BY <1>1, <1>4, <2>1, StillSound
<1>5. ASSUME NEW t \in Nat, Kept, heap'[a] = r[1][a], stack' = Append(stack, FrameOf(g, a, t, Bind(g, a)))
      PROVE  Sound'
  <2>1. SUFFICES ASSUME ~ errors PROVE Waits' /\ Complete'
    BY <1>1 DEF Sound
  <2>2. Waits /\ Complete
    BY <2>1 DEF Sound
  <2>3. PICK n, f, b : n = Len(stack) + 1 /\ f = FrameOf(g, a, t, b) /\ b = Bind(g, a)
    OBVIOUS
  <2>4. NextRequest \in Request /\ a \in Nat /\ g \in Generics
    <3>1. NextRequest \in Request /\ r[2] \in 1 .. Len(r[1])
      BY <1>1, AskedFor DEF Core
    <3> QED  BY <1>3, <3>1 DEF Request
  <2>5. b \in [Names -> Nat]
    BY <2>3, <2>4, BindIs
  <2>6. f \in Frame
    <3>1. FrameOf(g, a, t, b) \in Frame
      BY <2>4, <2>5, FrameOfIs, Zenon
    <3> QED  BY <2>3, <3>1
  <2>7. f.generic = g /\ f.arg = a /\ f.stage = "signature" /\ f.next = 1 /\ f.ok
    BY <2>3 DEF FrameOf
  <2>8. Moved(n, f) /\ n # 1 /\ n > Len(stack) /\ n >= Len(stack) /\ ~ (n <= Len(stack))
    <3>1. Moved(n, f)
      BY <1>5, <2>3, <2>6, PushMoves DEF Core
    <3>2. Len(stack) \in Nat \ {0}
      BY CoreFacts
    <3> QED  BY <2>3, <3>1, <3>2
  <2>9. Mangled(heap'[f.arg].shape) = Mangled(AskedNow(Top))
    <3>1. Mangled(r[1][r[2]].shape) = Mangled(AskedNow(Top))
      BY <1>1, <2>2, SoundFacts, MeansWhatItSays
    <3> QED  BY <1>3, <1>5, <2>7, <3>1
  <2>10. Faithful(f)' /\ InBody(f)'
    BY <2>7, FirstFaithful DEF InBody
  <2>11. Waits'
    BY <1>1, <1>5, <2>2, <2>7, <2>8, <2>9, <2>10, WaitsStep
  <2>12. Complete'
    BY <1>1, <1>5, <2>2, <2>8, SameComplete
  <2> QED  BY <2>11, <2>12
<1>6. CASE g \in FunGenerics /\ heap' = r[1] /\ stack' = Append(stack, FrameOf(g, r[2], 0, Bind(g, r[2])))
  <2>1. Kept
    BY <1>1, <1>6, Requested
  <2>2. heap'[a] = r[1][a] /\ stack' = Append(stack, FrameOf(g, a, 0, Bind(g, a))) /\ 0 \in Nat
    BY <1>3, <1>6
  <2> QED  BY <1>5, <2>1, <2>2
<1>7. CASE /\ g \in TypeGenerics /\ heap' \in NewType(r[1], <<g>> \o r[1][r[2]].shape, 0)
           /\ stack' = Append(stack, FrameOf(g, r[2], Len(heap'), Bind(g, r[2])))
  <2>1. Kept /\ Len(heap') \in Nat
    BY <1>1, <1>7, NewInstance
  <2>2. PICK t : t = Len(heap')
    OBVIOUS
  <2>3. heap'[a] = r[1][a]
    <3>1. PICK o : heap' = Append(r[1], o)
      BY <1>7 DEF NewType
    <3>2. a \in 1 .. Len(r[1]) /\ r[1] \in Seq(TypeObject)
      BY <1>1, <1>3, AskedFor DEF Core
    <3> QED  BY <3>1, <3>2
  <2>4. t \in Nat /\ stack' = Append(stack, FrameOf(g, a, t, Bind(g, a)))
    BY <1>3, <1>7, <2>1, <2>2
  <2> QED  BY <1>5, <2>1, <2>3, <2>4
<1> QED  BY <1>2, <1>3, <1>4, <1>6, <1>7

\* A list that is at its end is answered.
LEMMA AllAnswered ==
    ASSUME Core, Faithful(Top), Top.next > Len(List(Top))
    PROVE  Answers(List(Top), Top.bindings)
<1>1. Top.next \in Nat \ {0} /\ Len(List(Top)) \in Nat
  BY CoreFacts
<1>2. \A k \in 1 .. Len(List(Top)) : k \in 1 .. Top.next - 1
  BY <1>1
<1>3. \A k \in 1 .. Len(List(Top)) : Answer(List(Top), Top.bindings, k)
  BY <1>2 DEF Faithful
<1> QED  BY <1>3, AnswersAre

\* What the caller waits for was asked for by its request.
LEMMA CallerSound ==
    ASSUME Core, Waits, Top.generic # Root
    PROVE  /\ Faithful(Caller) /\ InBody(Caller) /\ Caller.ok
           /\ Len(stack) - 1 = 1 => Caller.bindings = NoBindings
           /\ Live(heap, Top.arg) /\ Mangled(heap[Top.arg].shape) = Mangled(AskedNow(Caller))
<1>1. /\ Len(stack) - 1 \in 1 .. Len(stack) /\ Caller = stack[Len(stack) - 1]
      /\ Len(stack) - 1 \in 1 .. Len(stack) - 1 /\ Len(stack) - 1 \in Nat
  BY CallerWaits
<1>2. Faithful(Caller) /\ InBody(Caller) /\ Caller.ok /\ (Len(stack) - 1 = 1 => Caller.bindings = NoBindings)
  BY <1>1 DEF Waits
<1>3. (Len(stack) - 1) + 1 = Len(stack) /\ Top = stack[Len(stack)]
  BY CoreFacts
<1>4. Requests(Caller, Top)
  BY <1>1, <1>3 DEF Waits
<1>5. Live(heap, Top.arg)
  BY CoreFacts DEF Reaches, Holds
<1> QED  BY <1>2, <1>4, <1>5 DEF Requests, Shape

LEMMA CallerList ==
    ASSUME Core, Top.generic # Root
    PROVE  /\ Wellformed(List(Caller)) /\ AskedNow(Caller) \in Seq(Tokens)
<1>1. PICK f, list : f = Caller /\ list = List(Caller)
  OBVIOUS
<1>2. f \in Frame /\ f.next \in 1 .. Len(list) /\ Reaches(heap, f) /\ TypeOK /\ program \in Programs
  BY <1>1, CallerWaits DEF Core, Types
<1>3. Wellformed(list)
  <2>1. f.generic \in Generics \cup {Root} /\ list \in {program.signature[f.generic], program.body[f.generic]}
    BY <1>1, <1>2, ListFacts
  <2> QED  BY <1>2, <2>1, ListsWellformed
<1>4. Meaning(f.bindings) \in [Names -> Seq(Tokens)]
  BY <1>2, MeaningFacts DEF Reaches
<1>5. Asked(list, Meaning(f.bindings))[f.next] \in Seq(Tokens)
  BY <1>2, <1>3, <1>4, AskedFacts
<1> QED  BY <1>1, <1>3, <1>5 DEF AskedNow

LEMMA FinishTypeSound == ASSUME Core, Sound, FinishType PROVE Sound'
<1>1. /\ SignatureDone /\ Top.generic \in TypeGenerics /\ Top.generic # Root /\ heap' = heap
      /\ program' = program /\ cache' = Append(cache, EntryOf(Top)) /\ Return(Top.type)
      /\ Top.stage = "signature" /\ ~ failing' /\ errors' = errors /\ Top.next > Len(List(Top))
  BY TokensAssumption DEF FinishType, SignatureDone, Analyzing, Generics
<1>2. SUFFICES ASSUME ~ errors PROVE Waits' /\ Complete'
  BY <1>1 DEF Sound
<1>3. Waits /\ Complete
  BY <1>2 DEF Sound
<1>4. PICK x, t, f, n, caller : /\ x = EntryOf(Top) /\ t = Top.type /\ f = Answered(Caller, Top.type)
                                /\ n = Len(stack) - 1 /\ caller = Caller
  OBVIOUS
<1>5. /\ Kept /\ x.generic = Top.generic /\ x.arg = Top.arg /\ x.bindings = Top.bindings /\ ~ x.freed
  BY <1>1, <1>4, Entered
<1>6. /\ Len(cache') = Len(cache) + 1 /\ cache'[Len(cache) + 1] = x /\ Len(cache) \in Nat
      /\ \A e \in 1 .. Len(cache) : cache'[e] = cache[e]
      /\ \A e : New(e) => e = Len(cache) + 1
  BY <1>1, <1>4, Entered
<1>7. t \in Nat /\ Return(t) /\ f = Answered(Caller, t)
  BY <1>1, <1>4, CoreFacts, FrameFacts
<1>8. /\ Moved(n, f) /\ f \in Frame /\ SameFrame(f, caller) /\ f.stage = caller.stage
      /\ f.next = caller.next + 1 /\ (f.last = IF t = 0 THEN caller.last ELSE t)
  BY <1>1, <1>4, <1>7, AnsweredCaller
<1>9. /\ Faithful(caller) /\ InBody(caller) /\ caller.ok /\ (n = 1 => caller.bindings = NoBindings)
      /\ Live(heap, Top.arg) /\ Mangled(heap[Top.arg].shape) = Mangled(AskedNow(caller))
  BY <1>1, <1>3, <1>4, CallerSound
<1>10. PICK r, s : r = List(caller)[caller.next] /\ s = AskedNow(caller)
  OBVIOUS
<1>11. /\ caller \in Frame /\ Reaches(heap, caller) /\ caller.next \in 1 .. Len(List(caller))
       /\ r.what # "name" /\ r.generic = Top.generic /\ r \in Request
       /\ Wellformed(List(caller)) /\ s \in Seq(Tokens)
  BY <1>1, <1>4, <1>10, CallerWaits, CallerList
<1>12. r.what = "type"
  <2>1. r.what \in {"name", "type", "call"}
    BY <1>11 DEF Request
  <2>2. r.what = "call" => r.generic \in FunGenerics
    BY <1>10, <1>11 DEF Wellformed
  <2> QED  BY <1>1, <1>11, <2>1, <2>2, TokensAssumption
<1>13. Cached(r.generic, s)'
  <2>1. Len(cache) + 1 \in 1 .. Len(cache')
    BY <1>6
  <2>2. Mangled(heap'[cache'[Len(cache) + 1].arg].shape) = Mangled(s)
    BY <1>1, <1>5, <1>6, <1>9, <1>10
  <2> QED  BY <1>5, <1>6, <1>11, <2>1, <2>2 DEF Cached
<1>14. t # 0 /\ Mangled(heap'[t].shape) = Mangled(Apply(r.generic, s))
  <2>1. PICK g, a : g = Top.generic /\ a = Top.arg
    OBVIOUS
  <2>2. IsInstance(heap, t, g, a)
    BY <1>1, <1>4, <2>1, CoreFacts DEF Reaches, Holds
  <2>3. t \in 1 .. Len(heap) /\ t # 0 /\ heap[t].shape = Apply(g, heap[a].shape)
    <3>1. Len(heap) \in Nat /\ Len(Declared) \in Nat
      BY DeclaredAssumption DEF Core, TypeOK
    <3> QED  BY <2>2, <3>1 DEF IsInstance
  <2>4. heap[a].shape \in Seq(Tokens) /\ g \in Tokens
    <3>1. a \in 1 .. Len(heap) /\ heap \in Seq(TypeObject)
      BY <1>9, <2>1 DEF Live, Core, TypeOK
    <3> QED  BY <1>1, <2>1, <3>1, ObjectFacts DEF Tokens, Generics
  <2>5. Mangled(Apply(g, heap[a].shape)) = Mangled(Apply(g, s))
    BY <1>9, <1>10, <1>11, <2>1, <2>4, MangledApply
  <2> QED  BY <1>1, <1>11, <2>1, <2>3, <2>5
<1>15. f.last # 0 /\ Mangled(heap'[f.last].shape) = Mangled(Apply(r.generic, s))
  BY <1>8, <1>14
<1>16. Faithful(f)'
  BY <1>5, <1>8, <1>9, <1>10, <1>11, <1>12, <1>13, <1>15, AnswerFaithful DEF Core
<1>17. InBody(f)'
  <2>1. InBody(caller)'
    BY <1>5, <1>9, InBodyOn DEF Core
  <2> QED  BY <1>8, <2>1 DEF InBody, SameFrame, SameInstance
<1>18. n <= Len(stack) /\ ~ (n > Len(stack)) /\ caller = stack[n] /\ n \in Nat /\ Len(stack) \in Nat /\ n + 1 = Len(stack)
  <2>1. Len(stack) \in Nat \ {0}
    BY CoreFacts
  <2> QED  BY <1>1, <1>4, <2>1, CallerWaits
<1>19. f.ok
  <2>1. caller \in Frame
    BY <1>11
  <2> QED  BY <1>4, <1>7, <1>9, <2>1, AnsweredIs
<1>20. Waits'
  BY <1>1, <1>3, <1>5, <1>8, <1>9, <1>16, <1>17, <1>18, <1>19, WaitsStep DEF SameFrame
<1>21. Faithful(Top) /\ Top \in Frame /\ Reaches(heap, Top)
  BY <1>3, SoundFacts, CoreFacts
<1>22. PICK sig, body : sig = program.signature[x.generic] /\ body = program.body[x.generic]
  OBVIOUS
<1>23. Answers(sig, x.bindings)' /\ Answers(body, x.bindings)'
  <2>1. List(Top) = sig
    BY <1>1, <1>5, <1>21, <1>22, ListFacts DEF Core, Types
  <2>2. Answers(sig, x.bindings)
    BY <1>1, <1>5, <1>21, <2>1, AllAnswered
  <2>3. Binds(heap, x)
    BY <1>5, <1>21 DEF Reaches, Binds
  <2>4. body = << >>
    BY <1>1, <1>5, <1>22, ProgramsAssumption DEF Core, Types
  <2>5. ~ \E k : k \in 1 .. Len(body)
    BY <2>4
  <2>6. Answers(sig, x.bindings)'
    BY <1>5, <2>2, <2>3, AnswersOn DEF Core
  <2> QED  BY <2>5, <2>6 DEF Answers
<1>24. \A e : New(e) =>
         /\ ~ cache'[e].freed
         /\ Answers(program.signature[cache[e].generic], cache[e].bindings)'
         /\ Answers(program.body[cache[e].generic], cache[e].bindings)'
  <2> SUFFICES ASSUME NEW e, New(e)
               PROVE  /\ ~ cache'[e].freed
                      /\ Answers(program.signature[cache[e].generic], cache[e].bindings)'
                      /\ Answers(program.body[cache[e].generic], cache[e].bindings)'
    OBVIOUS
  <2>1. cache'[e] = x
    BY <1>6
  <2> QED  BY <1>1, <1>5, <1>22, <1>23, <2>1 DEF Answers
<1>25. \A e \in 1 .. Len(cache) : \A i \in 2 .. Len(stack) :
         Underway(cache[e], stack[i]) => \E j \in 2 .. Len(stack') : Underway(cache[e], stack'[j])
  <2> SUFFICES ASSUME NEW e \in 1 .. Len(cache), NEW i \in 2 .. Len(stack), Underway(cache[e], stack[i])
               PROVE  \E j \in 2 .. Len(stack') : Underway(cache[e], stack'[j])
    OBVIOUS
  <2>1. i # Len(stack)
    BY <1>1 DEF Underway, Top
  <2>2. i <= n
    BY <1>18, <2>1
  <2> QED  BY <1>8, <1>18, <2>2, UnderwayOn
<1>26. \A e \in 1 .. Len(cache) : ~ cache'[e].freed
  BY <1>3, <1>6 DEF Complete
<1>27. Complete'
  BY <1>3, <1>5, <1>24, <1>25, <1>26, CompleteStep
<1> QED  BY <1>20, <1>27

LEMMA FinishSignatureSound == ASSUME Core, Sound, FinishSignature PROVE Sound'
<1>1. /\ SignatureDone /\ Top.generic \in FunGenerics /\ Top.generic # Root /\ Top.generic \notin TypeGenerics
      /\ heap' = heap /\ program' = program /\ cache' = Append(cache, EntryOf(Top))
      /\ stack' = WithTop(BodyStage(Top)) /\ Top.stage = "signature" /\ ~ failing'
      /\ errors' = errors /\ Top.next > Len(List(Top))
  BY TokensAssumption DEF FinishSignature, SignatureDone, Analyzing, Generics
<1>2. SUFFICES ASSUME ~ errors PROVE Waits' /\ Complete'
  BY <1>1 DEF Sound
<1>3. Waits /\ Complete
  BY <1>2 DEF Sound
<1>4. PICK x, f, n, top : x = EntryOf(Top) /\ f = BodyStage(Top) /\ n = Len(stack) /\ top = Top
  OBVIOUS
<1>5. /\ Kept /\ x.generic = Top.generic /\ x.arg = Top.arg /\ x.bindings = Top.bindings /\ ~ x.freed
  BY <1>1, <1>4, Entered
<1>6. /\ Len(cache') = Len(cache) + 1 /\ cache'[Len(cache) + 1] = x /\ Len(cache) \in Nat
      /\ \A e \in 1 .. Len(cache) : cache'[e] = cache[e]
      /\ \A e : New(e) => e = Len(cache) + 1
  BY <1>1, <1>4, Entered
<1>7. /\ Moved(n, f) /\ SameFrame(f, top) /\ f.stage = "body" /\ f.next = 1 /\ f.ok = top.ok
  BY <1>1, <1>4, BodyMoves
<1>8. /\ Faithful(Top) /\ Top.ok /\ Top \in Frame /\ Reaches(heap, Top)
      /\ Len(stack) \in 2 .. Len(stack) /\ top = stack[n] /\ Len(stack) \in Nat
  BY <1>1, <1>3, <1>4, SoundFacts, CoreFacts
<1>9. ~ (n > Len(stack)) /\ n <= Len(stack) /\ n # 1 /\ n \in 2 .. Len(stack) /\ Len(stack') = n
  BY <1>4, <1>7, <1>8 DEF Moved
<1>10. Faithful(f)'
  BY <1>7, FirstFaithful
<1>11. InBody(f)'
  <2>1. Len(cache) + 1 \in 1 .. Len(cache')
    BY <1>6
  <2>2. SameInstance(cache'[Len(cache) + 1], f)
    BY <1>4, <1>5, <1>6, <1>7 DEF SameInstance, SameFrame
  <2>3. f.generic # Root
    BY <1>1, <1>4, <1>7 DEF SameFrame
  <2> QED  BY <2>1, <2>2, <2>3 DEF InBody
<1>12. Waits'
  BY <1>1, <1>3, <1>4, <1>5, <1>7, <1>8, <1>9, <1>10, <1>11, WaitsStep DEF SameFrame
<1>13. PICK sig : sig = program.signature[x.generic]
  OBVIOUS
<1>14. Answers(sig, x.bindings)'
  <2>1. List(Top) = sig
    BY <1>1, <1>5, <1>8, <1>13, ListFacts DEF Core, Types
  <2>2. Answers(sig, x.bindings)
    BY <1>1, <1>5, <1>8, <2>1, AllAnswered
  <2>3. Binds(heap, x)
    BY <1>5, <1>8 DEF Reaches, Binds
  <2> QED  BY <1>5, <2>2, <2>3, AnswersOn DEF Core
<1>15. \E i \in 2 .. Len(stack') : Underway(x, stack'[i])
  <2>1. stack'[n] = f
    BY <1>7 DEF Moved
  <2>2. Underway(x, f)
    BY <1>4, <1>5, <1>7 DEF Underway, SameFrame
  <2> QED  BY <1>4, <1>9, <2>1, <2>2
<1>16. \A e : New(e) =>
         /\ ~ cache'[e].freed
         /\ Answers(program.signature[cache[e].generic], cache[e].bindings)'
         /\ \E i \in 2 .. Len(stack') : Underway(cache'[e], stack'[i])
  <2> SUFFICES ASSUME NEW e, New(e)
               PROVE  /\ ~ cache'[e].freed
                      /\ Answers(program.signature[cache[e].generic], cache[e].bindings)'
                      /\ \E i \in 2 .. Len(stack') : Underway(cache'[e], stack'[i])
    OBVIOUS
  <2>1. cache'[e] = x
    BY <1>6
  <2> QED  BY <1>1, <1>5, <1>13, <1>14, <1>15, <2>1 DEF Answers
<1>17. \A e \in 1 .. Len(cache) : \A i \in 2 .. Len(stack) :
         Underway(cache[e], stack[i]) => \E j \in 2 .. Len(stack') : Underway(cache[e], stack'[j])
  BY <1>4, <1>7, <1>8, UnderwayOn
<1>18. \A e \in 1 .. Len(cache) : ~ cache'[e].freed
  BY <1>3, <1>6 DEF Complete
<1>19. Complete'
  BY <1>3, <1>5, <1>16, <1>17, <1>18, CompleteStep
<1> QED  BY <1>12, <1>19

LEMMA EndPassBSound == ASSUME Core, Sound, EndPassB PROVE Sound'
<1>1. /\ Top.generic = Root /\ Top.generic \notin TypeGenerics /\ heap' = heap /\ program' = program
      /\ cache' = cache /\ stack' = WithTop(BodyStage(Top)) /\ ~ failing'
      /\ errors' = errors /\ Top.stage = "signature" /\ Top.next > Len(List(Top))
  BY TokensAssumption DEF EndPassB, SignatureDone, Analyzing, Generics
<1>2. SUFFICES ASSUME ~ errors PROVE Waits' /\ Complete'
  BY <1>1 DEF Sound
<1>3. Waits /\ Complete
  BY <1>2 DEF Sound
<1>4. PICK f, n, top : f = BodyStage(Top) /\ n = Len(stack) /\ top = Top
  OBVIOUS
<1>5. Kept
  BY <1>1, Still
<1>6. /\ Moved(n, f) /\ SameFrame(f, top) /\ f.stage = "body" /\ f.next = 1 /\ f.ok = top.ok
  BY <1>1, <1>4, BodyMoves
<1>7. /\ Faithful(Top) /\ Top.ok /\ Top \in Frame /\ Top.bindings = NoBindings
      /\ top = stack[n] /\ Len(stack) \in Nat
  BY <1>1, <1>3, <1>4, SoundFacts, CoreFacts
<1>8. ~ (n > Len(stack)) /\ n <= Len(stack) /\ n >= Len(stack)
  BY <1>4, <1>7
<1>9. InBody(f)'
  <2>1. List(Top) = program.signature[Root]
    BY <1>1, <1>7, ListFacts DEF Core, Types
  <2>2. Answers(program.signature[Root], NoBindings)
    BY <1>1, <1>7, <2>1, AllAnswered
  <2>3. Answers(program.signature[Root], NoBindings)'
    BY <1>5, <2>2, RootOn DEF Core
  <2>4. f.generic = Root
    BY <1>1, <1>4, <1>6 DEF SameFrame
  <2> QED  BY <2>3, <2>4 DEF InBody
<1>10. Faithful(f)'
  BY <1>6, FirstFaithful
<1>11. Waits'
  BY <1>1, <1>3, <1>4, <1>5, <1>6, <1>7, <1>8, <1>9, <1>10, WaitsStep DEF SameFrame
<1>12. Complete'
  BY <1>1, <1>3, <1>4, <1>5, <1>6, <1>7, <1>8, SameComplete
<1> QED  BY <1>11, <1>12

LEMMA FinishBodySound == ASSUME Core, Sound, FinishBody PROVE Sound'
<1>1. /\ Top.generic # Root /\ Top.stage = "body" /\ heap' = heap /\ program' = program
      /\ errors' = errors /\ ~ failing /\ Top.next > Len(List(Top))
  BY DEF FinishBody, BodyDone, Analyzing
<1>2. SUFFICES ASSUME ~ errors PROVE Waits' /\ Complete'
  BY <1>1 DEF Sound
<1>3. Waits /\ Complete /\ Top.ok /\ Faithful(Top) /\ InBody(Top)
  BY <1>2, SoundFacts DEF Sound
<1>4. Return(0) /\ cache' = cache /\ ~ failing'
  BY <1>1, <1>3 DEF FinishBody
<1>5. PICK f, n, caller : f = Answered(Caller, 0) /\ n = Len(stack) - 1 /\ caller = Caller
  OBVIOUS
<1>6. Kept
  BY <1>1, <1>4, Still
<1>7. /\ Moved(n, f) /\ SameFrame(f, caller) /\ f.stage = caller.stage
      /\ f.next = caller.next + 1 /\ f.last = caller.last
  <2>1. 0 \in Nat /\ 0 = 0
    OBVIOUS
  <2> QED  BY <1>1, <1>4, <1>5, <2>1, AnsweredCaller
<1>8. /\ Faithful(caller) /\ InBody(caller) /\ caller.ok /\ (n = 1 => caller.bindings = NoBindings)
      /\ Live(heap, Top.arg) /\ Mangled(heap[Top.arg].shape) = Mangled(AskedNow(caller))
  BY <1>1, <1>3, <1>5, CallerSound
<1>9. PICK r, s : r = List(caller)[caller.next] /\ s = AskedNow(caller)
  OBVIOUS
<1>10. /\ caller \in Frame /\ Reaches(heap, caller) /\ caller.next \in 1 .. Len(List(caller))
       /\ r.what # "name" /\ r.generic = Top.generic /\ Wellformed(List(caller))
  BY <1>1, <1>5, <1>9, CallerWaits, CallerList
<1>11. r.what # "type"
  <2>1. Top.generic \notin TypeGenerics
    BY <1>1, CoreFacts
  <2>2. r.what = "type" => r.generic \in TypeGenerics
    BY <1>9, <1>10 DEF Wellformed
  <2> QED  BY <1>10, <2>1, <2>2
<1>12. Cached(r.generic, s)'
  <2>1. PICK e \in 1 .. Len(cache) : SameInstance(cache[e], Top)
    BY <1>1, <1>3 DEF InBody
  <2>2. cache'[e].generic = r.generic /\ Mangled(heap'[cache'[e].arg].shape) = Mangled(s)
    BY <1>1, <1>4, <1>8, <1>9, <1>10, <2>1 DEF SameInstance
  <2> QED  BY <1>4, <2>1, <2>2 DEF Cached
<1>13. Faithful(f)'
  BY <1>6, <1>7, <1>8, <1>9, <1>10, <1>11, <1>12, AnswerFaithful DEF Core
<1>14. InBody(f)'
  <2>1. InBody(caller)'
    BY <1>6, <1>8, InBodyOn DEF Core
  <2> QED  BY <1>7, <2>1 DEF InBody, SameFrame, SameInstance
<1>15. n <= Len(stack) /\ ~ (n > Len(stack)) /\ caller = stack[n] /\ n \in Nat /\ Len(stack) \in Nat /\ n + 1 = Len(stack)
  <2>1. Len(stack) \in Nat \ {0}
    BY CoreFacts
  <2> QED  BY <1>1, <1>5, <2>1, CallerWaits
<1>16. f.ok
  <2>1. 0 \in Nat
    OBVIOUS
  <2> QED  BY <1>5, <1>8, <1>10, <2>1, AnsweredIs
<1>17. Waits'
  BY <1>3, <1>4, <1>6, <1>7, <1>8, <1>13, <1>14, <1>15, <1>16, WaitsStep DEF SameFrame
<1>18. ASSUME NEW e \in 1 .. Len(cache), NEW i \in 2 .. Len(stack), Underway(cache[e], stack[i])
       PROVE  \/ Answers(program.body[cache[e].generic], cache[e].bindings)
              \/ \E j \in 2 .. Len(stack') : Underway(cache[e], stack'[j])
  <2>1. CASE i = Len(stack)
    <3>1. Top \in Frame /\ Top.generic = cache[e].generic /\ Top.bindings = cache[e].bindings
      BY <2>1, <1>18, CoreFacts DEF Underway
    <3>2. List(Top) = program.body[Top.generic]
      BY <1>1, <3>1, ListFacts DEF Core, Types
    <3>3. Answers(List(Top), Top.bindings)
      BY <1>1, <1>3, AllAnswered
    <3>4. PICK list : list = List(Top)
      OBVIOUS
    <3> QED  BY <3>1, <3>2, <3>3
  <2>2. CASE i # Len(stack)
    <3>1. i <= n
      BY <1>15, <2>2
    <3> QED  BY <1>7, <1>15, <1>18, <3>1, UnderwayOn
  <2> QED  BY <2>1, <2>2
<1>19. \A e : ~ New(e)
  BY <1>4 DEF New, Core, TypeOK
<1>20. \A e \in 1 .. Len(cache) : ~ cache'[e].freed
  BY <1>3, <1>4 DEF Complete
<1>21. Complete'
  BY <1>3, <1>6, <1>18, <1>19, <1>20, CompleteStep
<1> QED  BY <1>17, <1>21

LEMMA EndPassCSound == ASSUME Core, Sound, EndPassC PROVE Sound'
<1>1. /\ heap' = heap /\ program' = program /\ cache' = cache /\ stack' = stack /\ ~ failing'
      /\ errors' = errors
  BY DEF EndPassC, BodyDone, Analyzing
<1>2. Kept
  BY <1>1, Still
<1> QED  BY <1>1, <1>2, StillSound

LEMMA UnknownTypeSound == ASSUME UnknownType PROVE Sound'
  BY DEF UnknownType, Sound

\* NULL comes only of an error.
LEMMA PropagateSound == ASSUME Sound, Propagate PROVE Sound'
  BY DEF Propagate, Sound, Waits

LEMMA GenerationSound ==
    ASSUME Core, Sound, UNCHANGED <<program, heap, cache, stack, failing, errors>>
    PROVE  Sound'
<1>1. CASE errors
  BY <1>1 DEF Sound
<1>2. CASE ~ errors
  <2>1. ~ failing'
    BY <1>2 DEF Sound, Waits
  <2>2. Kept
    BY Still
  <2> QED  BY <2>1, <2>2, StillSound
<1> QED  BY <1>1, <1>2

LEMMA InitSound == ASSUME Init PROVE Sound
<1>1. PICK root : root = FrameOf(Root, 0, 0, NoBindings)
  OBVIOUS
<1>2. stack = <<root>> /\ Len(stack) = 1 /\ stack[1] = root /\ cache = << >> /\ failing = FALSE
  BY <1>1 DEF Init
<1>3. root.stage = "signature" /\ root.next = 1 /\ root.ok /\ root.bindings = NoBindings
  BY <1>1 DEF FrameOf
<1>4. Faithful(root)
  <2>1. ~ \E k : k \in 1 .. root.next - 1
    BY <1>3
  <2>2. Earlier(List(root), root.next) = {}
    BY <1>3 DEF Earlier
  <2> QED  BY <2>1, <2>2 DEF Faithful
<1>5. InBody(root)
  BY <1>3 DEF InBody
<1>6. \A i \in 1 .. Len(stack) : stack[i] = root
  BY <1>2
<1>7. (~ \E i : i \in 1 .. Len(stack) - 1) /\ ~ \E e : e \in 1 .. Len(cache)
  BY <1>2
<1>8. Waits
  BY <1>2, <1>3, <1>4, <1>5, <1>6, <1>7 DEF Waits
<1>9. Complete
  BY <1>7 DEF Complete
<1> QED  BY <1>8, <1>9 DEF Sound

\* As long as no error was diagnosed, no call has returned NULL, each
\* instantiation stands where its answers leave it, and every instance in the
\* cache has what its signature and its body ask for, or is still being analyzed.
THEOREM SoundCorrect == Spec => []Sound
<1>1. Init => Sound
  BY InitSound
<1>2. Core /\ Sound /\ [Next]_vars => Sound'
  <2> SUFFICES ASSUME Core, Sound, [Next]_vars PROVE Sound'
    OBVIOUS
  <2>1. CASE GenerateFunction \/ EndCodegen \/ UNCHANGED vars
    BY <2>1, GenerationSound DEF GenerateFunction, EndCodegen, vars
  <2> QED  BY <2>1, UnknownTypeSound, NameTypeSound, CacheHitSound, InstantiateSound, FinishTypeSound,
              FinishSignatureSound, EndPassBSound, FinishBodySound, EndPassCSound, PropagateSound
           DEF Next
<1> QED  BY <1>1, <1>2, CoreCorrect, PTL DEF Spec
------------------------------------------------------------------------------
(* Code generation *)

LEMMA ClosedOn == ASSUME TypeOK, Types, Kept, cache' = cache, Closed PROVE Closed'
<1>1. Answers(program.signature[Root], NoBindings)'
  BY RootOn DEF Closed
<1>2. Answers(program.body[Root], NoBindings)'
  <2>1. PICK x, list : x = [bindings |-> NoBindings] /\ list = program.body[Root]
    OBVIOUS
  <2>2. Binds(heap, x)
    BY <2>1 DEF Binds, NoBindings
  <2>3. Answers(list, x.bindings)'
    BY <2>1, <2>2, AnswersOn DEF Closed
  <2>4. program'.body[Root] = list /\ x.bindings = NoBindings
    BY <2>1 DEF Kept
  <2> QED  BY <2>3, <2>4 DEF Answers, NoBindings
<1>3. ASSUME NEW k \in 1 .. Len(cache)
      PROVE  /\ Answers(program.signature[cache[k].generic], cache[k].bindings)'
             /\ Answers(program.body[cache[k].generic], cache[k].bindings)'
  <2>1. PICK x, sig, body : /\ x = cache[k] /\ sig = program.signature[cache[k].generic]
                            /\ body = program.body[cache[k].generic]
    OBVIOUS
  <2>2. Binds(heap, x)
    BY <2>1 DEF Types
  <2>3. Answers(sig, x.bindings) /\ Answers(body, x.bindings)
    BY <2>1 DEF Closed
  <2>4. Answers(sig, x.bindings)' /\ Answers(body, x.bindings)'
    BY <2>2, <2>3, AnswersOn
  <2>5. /\ program'.signature[cache'[k].generic] = sig /\ program'.body[cache'[k].generic] = body
        /\ cache'[k] = x
    BY <2>1 DEF Kept
  <2> QED  BY <2>4, <2>5 DEF Answers
<1> QED  BY <1>1, <1>2, <1>3 DEF Closed

\* Until then there is nothing to tell.
LEMMA AnalysisGenerated ==
    ASSUME Generated, pc = "analyzing", visited' = visited, emitted' = emitted,
           pc' \notin {"generating", "done"}
    PROVE  Generated'
<1>1. visited' = {} /\ emitted' = {}
  BY DEF Generated
<1> QED  BY <1>1 DEF Generated, Bodies, Accepted

\* The last instantiation to end is the one that is no instantiation.
LEMMA EndPassCClosed == ASSUME Core, Sound, EndPassC, pc' = "generating" PROVE ~ errors /\ Closed
<1>1. /\ Top.generic = Root /\ Top.stage = "body" /\ ~ errors /\ Top.next > Len(List(Top))
  BY DEF EndPassC, BodyDone, Analyzing
<1>2. Waits /\ Complete /\ Faithful(Top) /\ InBody(Top) /\ Top.bindings = NoBindings
  BY <1>1, SoundFacts DEF Sound
<1>3. Answers(program.signature[Root], NoBindings)
  BY <1>1, <1>2 DEF InBody
<1>4. Answers(program.body[Root], NoBindings)
  <2>1. List(Top) = program.body[Root]
    BY <1>1, CoreFacts, ListFacts DEF Core, Types
  <2> QED  BY <1>1, <1>2, <2>1, AllAnswered
<1>5. Len(stack) = 1
  BY <1>1, CoreFacts
<1>6. ~ \E i : i \in 2 .. Len(stack)
  BY <1>5
<1> QED  BY <1>1, <1>2, <1>3, <1>4, <1>6 DEF Complete, Closed

LEMMA EndPassCGenerated == ASSUME Core, Sound, Generated, EndPassC PROVE Generated'
<1>1. /\ pc = "analyzing" /\ visited' = visited /\ emitted' = emitted /\ heap' = heap
      /\ cache' = cache /\ program' = program /\ errors' = errors /\ pc' \in {"generating", "rejected"}
  BY DEF EndPassC, BodyDone, Analyzing
<1>2. CASE pc' = "rejected"
  BY <1>1, <1>2, AnalysisGenerated
<1>3. CASE pc' = "generating"
  <2>1. ~ errors' /\ Closed'
    <3>1. ~ errors /\ Closed
      BY <1>3, EndPassCClosed
    <3>2. Kept
      BY <1>1, Still
    <3> QED  BY <1>1, <3>1, <3>2, ClosedOn DEF Core
  <2>2. visited' = {} /\ emitted' = {}
    BY <1>1 DEF Generated
  <2> QED  BY <1>3, <2>1, <2>2 DEF Generated, Bodies, Accepted
<1> QED  BY <1>1, <1>2, <1>3

\* What no step of code generation changes.
LEMMA GeneratingOn ==
    ASSUME Core, UNCHANGED <<program, heap, cache, errors>>
    PROVE  /\ Functions' = Functions /\ \A k : LinkName(k)' = LinkName(k)
           /\ ~ errors /\ Closed => ~ errors' /\ Closed'
<1>1. Functions' = Functions /\ \A k : LinkName(k)' = LinkName(k)
  BY DEF Functions, LinkName
<1>2. Closed => Closed'
  BY Still, ClosedOn DEF Core
<1> QED  BY <1>1, <1>2

LEMMA GenerateFunctionGenerated == ASSUME Core, Generated, GenerateFunction PROVE Generated'
<1>1. pc = "generating" /\ UNCHANGED <<program, heap, cache, errors, pc>>
  BY DEF GenerateFunction
<1>2. PICK k \in Functions \ visited :
         /\ visited' = visited \cup {k}
         /\ emitted' = IF \E j \in emitted : LinkName(j) = LinkName(k) THEN emitted
                       ELSE emitted \cup {k}
  BY DEF GenerateFunction
<1>3. Functions' = Functions /\ \A i : LinkName(i)' = LinkName(i)
  BY <1>1, GeneratingOn
<1>4. ~ errors' /\ Closed'
  BY <1>1, GeneratingOn DEF Generated, Accepted
<1>5. Bodies'
  <2>1. visited' \subseteq Functions /\ emitted' \subseteq visited'
    BY <1>2 DEF Generated, Bodies
  <2>2. \A i, j \in emitted' : LinkName(i) = LinkName(j) => i = j
    BY <1>2 DEF Generated, Bodies
  <2>3. \A i \in visited' : \E j \in emitted' : LinkName(j) = LinkName(i)
    BY <1>2 DEF Generated, Bodies
  <2> QED  BY <1>3, <2>1, <2>2, <2>3 DEF Bodies
<1> QED  BY <1>1, <1>4, <1>5 DEF Generated

LEMMA RestGenerated ==
    ASSUME Core, Generated, UNCHANGED <<program, heap, cache, errors, visited, emitted>>,
           pc' = pc \/ (pc = "generating" /\ pc' = "done" /\ Functions \subseteq visited)
    PROVE  Generated'
<1>1. Functions' = Functions /\ \A i : LinkName(i)' = LinkName(i)
  BY GeneratingOn
<1>2. Bodies'
  BY <1>1 DEF Generated, Bodies
<1>3. Accepted' => ~ errors' /\ Closed'
  BY GeneratingOn DEF Generated, Accepted
<1>4. pc' \notin {"generating", "done"} => visited' = {} /\ emitted' = {}
  BY DEF Generated
<1>5. pc' = "done" => Functions' \subseteq visited'
  BY <1>1 DEF Generated
<1> QED  BY <1>2, <1>3, <1>4, <1>5 DEF Generated

LEMMA GeneratedStep == ASSUME Core, Sound, Generated, [Next]_vars PROVE Generated'
<1>1. CASE UnknownType \/ NameType \/ CacheHit
  BY <1>1, AnalysisGenerated DEF UnknownType, NameType, CacheHit, HasRequest, Analyzing
<1>2. CASE Instantiate
  <2>1. pc = "analyzing" /\ visited' = visited /\ emitted' = emitted
    BY <1>2 DEF Instantiate, HasRequest, Analyzing
  <2>2. pc' \in {"overflow", pc}
    BY <1>2 DEF Instantiate
  <2> QED  BY <2>1, <2>2, AnalysisGenerated
<1>3. CASE FinishType \/ FinishSignature \/ EndPassB
  BY <1>3, AnalysisGenerated DEF FinishType, FinishSignature, EndPassB, SignatureDone, Analyzing
<1>4. CASE FinishBody \/ Propagate
  BY <1>4, AnalysisGenerated DEF FinishBody, Propagate, BodyDone, Analyzing
<1>5. CASE EndPassC
  BY <1>5, EndPassCGenerated
<1>6. CASE GenerateFunction
  BY <1>6, GenerateFunctionGenerated
<1>7. CASE EndCodegen \/ UNCHANGED vars
  BY <1>7, RestGenerated DEF EndCodegen, vars
<1> QED  BY <1>1, <1>2, <1>3, <1>4, <1>5, <1>6, <1>7 DEF Next

\* Code is generated for a program in which every instance asked for was made,
\* and each name that code generation has come to has one body.
THEOREM GeneratedCorrect == Spec => []Generated
<1>1. Init => Generated
  BY DEF Init, Generated, Bodies, Accepted
<1>2. Core /\ Sound /\ Generated /\ [Next]_vars => Generated'
  BY GeneratedStep
<1> QED  BY <1>1, <1>2, CoreCorrect, SoundCorrect, PTL DEF Spec

\* When a program is accepted, every instance that its code asks for, directly
\* or from within an instance, was made: code generation never looks one up in
\* vain (semantic_driver_analyze, codegen_generate).
THEOREM CacheClosedCorrect == Spec => []CacheClosed
<1>1. Generated => CacheClosed
  BY DEF Generated, CacheClosed, Closed
<1> QED  BY <1>1, GeneratedCorrect, PTL

\* Code is never generated from a copy of the AST that was freed because its
\* body did not analyze, although the cache still has it
\* (instantiate_generic_function, semantic_driver_analyze).
THEOREM FreedNeverGeneratedCorrect == Spec => []FreedNeverGenerated
<1>1. Generated /\ Sound => FreedNeverGenerated
  BY DEF Generated, Sound, Complete, FreedNeverGenerated
<1> QED  BY <1>1, GeneratedCorrect, SoundCorrect, PTL

\* Every function in the cache ends with one body under its name in the LLVM
\* module, however often the cache has it
\* (codegen_generate_specialized_function).
THEOREM OneBodyPerNameCorrect == Spec => []OneBodyPerName
<1>1. Generated => OneBodyPerName
  <2> SUFFICES ASSUME Generated, pc = "done", NEW k \in Functions
               PROVE  \E j \in emitted : \A i \in emitted : LinkName(i) = LinkName(k) <=> i = j
    BY DEF OneBodyPerName
  <2>1. PICK j \in emitted : LinkName(j) = LinkName(k)
    BY DEF Generated, Bodies
  <2>2. \A i \in emitted : LinkName(i) = LinkName(k) <=> i = j
    BY <2>1 DEF Generated, Bodies
  <2> QED  BY <2>2
<1> QED  BY <1>1, GeneratedCorrect, PTL
=============================================================================
