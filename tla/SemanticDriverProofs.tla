------------------------ MODULE SemanticDriverProofs -------------------------
(* Theorems about SemanticDriver, for any units, programs and order of the   *)
(* modules.  The invariants say what stands in a scope: what a unit has      *)
(* declared, and what its use statements have taken from other units.        *)
EXTENDS SemanticDriver, FiniteSetTheorems, SequenceTheorems, TLAPS

------------------------------------------------------------------------------
(* Sequences and the order of the units *)

\* A sequence with an element put at its front.
LEMMA ConsFacts ==
    ASSUME NEW S, NEW x \in S, NEW s \in Seq(S)
    PROVE  /\ <<x>> \o s \in Seq(S)
           /\ Len(<<x>> \o s) = Len(s) + 1
           /\ (<<x>> \o s)[1] = x
           /\ \A i \in 1 .. Len(s) : (<<x>> \o s)[i + 1] = s[i]
           /\ \A i \in 1 .. Len(<<x>> \o s) :
                \/ i = 1
                \/ i - 1 \in 1 .. Len(s) /\ (<<x>> \o s)[i] = s[i - 1]
<1> DEFINE t == <<x>> \o s
<1>1. <<x>> \in Seq(S) /\ Len(<<x>>) = 1 /\ <<x>>[1] = x /\ Len(s) \in Nat
  OBVIOUS
<1>2. t \in Seq(S) /\ Len(t) = Len(s) + 1 /\ t[1] = x
  BY <1>1
<1>3. \A i \in 1 .. Len(s) : t[i + 1] = s[i]
  BY <1>1
<1> HIDE DEF t
<1>4. ASSUME NEW i \in 1 .. Len(t), i # 1
      PROVE  i - 1 \in 1 .. Len(s) /\ t[i] = s[i - 1]
  <2>1. i - 1 \in 1 .. Len(s) /\ (i - 1) + 1 = i
    BY <1>1, <1>2, <1>4
  <2> QED  BY <1>3, <2>1
<1> QED  BY <1>2, <1>3, <1>4 DEF t

LEMMA TailFacts ==
    ASSUME NEW S, NEW s \in Seq(S), s # << >>
    PROVE  /\ Head(s) = s[1] /\ Head(s) \in S /\ Tail(s) \in Seq(S)
           /\ Len(s) >= 1 /\ Len(Tail(s)) = Len(s) - 1
           /\ \A i \in 1 .. Len(Tail(s)) : i + 1 \in 1 .. Len(s) /\ Tail(s)[i] = s[i + 1]
  OBVIOUS

\* A set of natural numbers that has an element has a least one: the intervals
\* from 0 to its elements are finite sets, and inclusion is well-founded there.
LEMMA LeastNumber ==
    ASSUME NEW T \in SUBSET Nat, T # {}
    PROVE  \E n \in T : \A m \in T : n <= m
<1> DEFINE Below(n) == 0 .. n
           B == {Below(n) : n \in T}
           R == StrictSubsetOrdering(Nat)
           F == FiniteSubsetsOf(Nat)
<1>1. ASSUME NEW n \in T PROVE Below(n) \in F
  <2>1. IsFiniteSet(0 .. n) /\ 0 .. n \in SUBSET Nat
    BY FS_Interval
  <2> QED  BY <2>1 DEF FiniteSubsetsOf
<1>2. IsWellFoundedOn(R, F)
  BY FS_StrictSubsetOrderingWellFounded
<1>3. B \subseteq F /\ B # {}
  BY <1>1
<1>4. \E x \in B : \A y \in B : ~ (<<y, x>> \in R)
  <2> HIDE DEF B, R, F
  <2> QED  BY <1>2, <1>3, WFMin
<1>5. PICK n \in T : \A m \in T : ~ (<<Below(m), Below(n)>> \in R)
  BY <1>4
<1>6. ASSUME NEW m \in T PROVE n <= m
  <2> SUFFICES ASSUME m < n PROVE FALSE
    OBVIOUS
  <2>1. Below(m) \subseteq Below(n) /\ Below(m) # Below(n) /\ Below(m) \in SUBSET Nat /\ Below(n) \in SUBSET Nat
    <3>1. n \in Below(n) /\ n \notin Below(m)
      OBVIOUS
    <3> QED  BY <3>1
  <2>2. <<Below(m), Below(n)>> \in (SUBSET Nat) \X (SUBSET Nat)
    BY <2>1
  <2>3. <<Below(m), Below(n)>> \in R
    BY <2>1, <2>2 DEF StrictSubsetOrdering
  <2> QED  BY <1>5, <2>3
<1> QED  BY <1>6

\* The units in any order the table can have them.
LEMMA OrderFacts ==
    ASSUME NEW p \in Programs, NEW o \in Orders(p)
    PROVE  /\ o \in Seq(Units) /\ Len(o) \in Nat \ {0} /\ o[1] = Entry
           /\ ToSet(o) = {Entry} \cup Loaded(p)
           /\ \A i, j \in 1 .. Len(o) : o[i] = o[j] => i = j
<1> DEFINE L == Loaded(p)
           n == Cardinality(L)
<1>1. L \in SUBSET Modules /\ IsFiniteSet(L) /\ n \in Nat
  <2>1. L \in SUBSET Modules
    BY DEF Loaded
  <2>2. IsFiniteSet(L)
    BY <2>1, ModulesAssumption, FS_Subset
  <2> QED  BY <2>1, <2>2, FS_CardinalityType
<1>2. PICK s : s \in [1 .. n -> L] /\ (\A i, j \in 1 .. n : i # j => s[i] # s[j]) /\ o = <<Entry>> \o s
  BY DEF Orders, SetToSeqs
<1>3. \A m \in L : \E i \in 1 .. n : s[i] = m
  <2>1. s \in Injection(1 .. n, L)
    BY <1>2 DEF Injection, IsInjective
  <2>2. Cardinality(1 .. n) = n
    <3>1. Cardinality(1 .. n) = IF 1 > n THEN 0 ELSE n - 1 + 1
      BY <1>1, FS_Interval
    <3> QED  BY <1>1, <3>1
  <2>3. s \in Surjection(1 .. n, L)
    <3> DEFINE D == 1 .. n
    <3>1. s \in Injection(D, L) /\ IsFiniteSet(L) /\ Cardinality(D) = Cardinality(L)
      BY <1>1, <2>1, <2>2
    <3> HIDE DEF D, L
    <3>2. s \in Surjection(D, L)
      BY <3>1, FS_Injection
    <3> QED  BY <3>2 DEF D
  <2> QED  BY <2>3 DEF Surjection
<1> HIDE DEF L, n
<1>4. s \in Seq(L) /\ Len(s) = n
  BY <1>1, <1>2
<1>5. s \in Seq(Units) /\ Entry \in Units /\ Entry \notin L
  BY <1>1, <1>4, EntryAssumption, SeqMonotonic DEF Units
<1>6. /\ o \in Seq(Units) /\ Len(o) = n + 1 /\ o[1] = Entry
      /\ \A i \in 1 .. n : o[i + 1] = s[i]
      /\ \A i \in 1 .. Len(o) : i = 1 \/ (i - 1 \in 1 .. n /\ o[i] = s[i - 1])
  BY <1>2, <1>4, <1>5, ConsFacts
<1>7. \A i, j \in 1 .. Len(o) : o[i] = o[j] => i = j
  <2> SUFFICES ASSUME NEW i \in 1 .. Len(o), NEW j \in 1 .. Len(o), o[i] = o[j], i # j PROVE FALSE
    OBVIOUS
  <2>1. \A k \in 1 .. n : s[k] \in L
    BY <1>2
  <2>2. i # 1 /\ j # 1
    BY <1>5, <1>6, <2>1
  <2>3. i - 1 \in 1 .. n /\ j - 1 \in 1 .. n /\ s[i - 1] = s[j - 1] /\ i - 1 # j - 1
    BY <1>6, <2>2
  <2> QED  BY <1>2, <2>3
<1>8. ToSet(o) = {Entry} \cup L
  <2>1. DOMAIN o = 1 .. Len(o)
    BY <1>6
  <2>2. ASSUME NEW u \in ToSet(o) PROVE u \in {Entry} \cup L
    BY <1>2, <1>6, <2>1, <2>2 DEF ToSet
  <2>3. Entry \in ToSet(o)
    <3>1. 1 \in 1 .. Len(o)
      BY <1>1, <1>6
    <3> QED  BY <1>6, <2>1, <3>1 DEF ToSet
  <2>4. ASSUME NEW m \in L PROVE m \in ToSet(o)
    <3>1. PICK i \in 1 .. n : s[i] = m
      BY <1>3
    <3>2. i + 1 \in 1 .. Len(o) /\ o[i + 1] = m
      BY <1>1, <1>6, <3>1
    <3> QED  BY <2>1, <3>2 DEF ToSet
  <2> QED  BY <2>2, <2>3, <2>4
<1> QED  BY <1>1, <1>6, <1>7, <1>8 DEF L
------------------------------------------------------------------------------
(* Types *)

Types ==
    /\ TypeOK
    /\ program \in Programs
    /\ order \in Orders(program)

LEMMA ProgramFacts ==
    ASSUME Types
    PROVE  /\ order \in Seq(Units) /\ Len(order) \in Nat \ {0} /\ turn \in Nat \ {0}
           /\ \A u \in Units : Decls(u) \in Seq(Decl) /\ Len(Decls(u)) \in Nat
                               /\ Uses(u) \in Seq(Use) /\ Len(Uses(u)) \in Nat
           /\ turn <= Len(order) => Unit \in Units
<1>1. order \in Seq(Units) /\ Len(order) \in Nat \ {0}
  BY OrderFacts DEF Types
<1>2. turn \in Nat \ {0} /\ program \in Program
  BY <1>1 DEF Types, TypeOK
<1>3. \A u \in Units : Decls(u) \in Seq(Decl) /\ Uses(u) \in Seq(Use)
  BY <1>2 DEF Program, Decls, Uses
<1>4. turn <= Len(order) => Unit \in Units
  BY <1>1, <1>2 DEF Unit
<1> QED  BY <1>1, <1>2, <1>3, <1>4

LEMMA DeclFacts ==
    ASSUME Types, NEW u \in Units, NEW i \in 1 .. Len(Decls(u))
    PROVE  Decls(u)[i] \in Decl
  BY ProgramFacts, ElementOfSeq

LEMMA UseFacts ==
    ASSUME Types, NEW u \in Units, NEW k \in 1 .. Len(Uses(u))
    PROVE  /\ Uses(u)[k] \in Use /\ Uses(u)[k].module \in Modules
           /\ Uses(u)[k].alias \in Names \cup {None}
           /\ Uses(u)[k] = [module |-> Uses(u)[k].module, alias |-> Uses(u)[k].alias]
<1>1. Uses(u)[k] \in Use
  BY ProgramFacts, ElementOfSeq
<1> QED  BY <1>1 DEF Use

\* The symbols that the phases put into scopes.
LEMMA DeclaredFacts ==
    ASSUME NEW u \in Units, NEW d \in Decl, next \in Nat
    PROVE  /\ Declared(u, d) \in Symbol
           /\ Declared(u, d).name = d.name /\ Declared(u, d).kind = d.kind
           /\ Declared(u, d).public = d.public /\ Declared(u, d).from = None
           /\ Declared(u, d).origin = <<u, next>>
  BY DEF Declared, Symbol, Decl

LEMMA NamespaceFacts ==
    ASSUME NEW u \in Units, NEW use \in Use, use.alias \in Names, next \in Nat
    PROVE  /\ Namespace(u, use) \in Symbol
           /\ Namespace(u, use).name = use.alias /\ Namespace(u, use).kind = "namespace"
           /\ Namespace(u, use).public = FALSE /\ Namespace(u, use).from = use.module
  BY DEF Namespace, Symbol, Use

LEMMA ImportedFacts ==
    ASSUME NEW symbol \in Symbol, NEW m \in Modules
    PROVE  /\ Imported(symbol, m) \in Symbol
           /\ Imported(symbol, m).name = symbol.name /\ Imported(symbol, m).kind = symbol.kind
           /\ Imported(symbol, m).public = symbol.public /\ Imported(symbol, m).from = m
           /\ Imported(symbol, m).origin = symbol.origin
  BY DEF Imported, Symbol

\* The lookup finds a symbol of the name whenever the list has one.
LEMMA LookupFacts ==
    ASSUME NEW S \in Seq(Symbol), NEW n, InScope(S, n)
    PROVE  \E i \in 1 .. Len(S) : /\ Lookup(S, n) = S[i] /\ S[i].name = n
                                /\ \A j \in 1 .. i - 1 : S[j].name # n
<1> DEFINE T == {i \in 1 .. Len(S) : S[i].name = n}
           P(i) == S[i].name = n /\ \A j \in 1 .. i - 1 : S[j].name # n
<1>1. T # {} /\ T \in SUBSET Nat /\ Len(S) \in Nat
  BY DEF InScope
<1>2. PICK i \in T : \A m \in T : i <= m
  BY <1>1, LeastNumber
<1>3. i \in 1 .. Len(S) /\ P(i)
  <2>1. ASSUME NEW j \in 1 .. i - 1 PROVE S[j].name # n
    <3>1. j \in 1 .. Len(S) /\ ~ (i <= j)
      BY <1>1, <1>2
    <3> QED  BY <1>2, <3>1
  <2> QED  BY <1>2, <2>1
<1>4. (CHOOSE j \in 1 .. Len(S) : P(j)) \in 1 .. Len(S) /\ P(CHOOSE j \in 1 .. Len(S) : P(j))
  <2> HIDE DEF P
  <2> QED  BY <1>3
<1> QED  BY <1>4 DEF Lookup

\* A symbol is added to the scope of a unit, and to no other.
LEMMA AddFacts ==
    ASSUME Types, NEW u \in Units, NEW symbol \in Symbol, AddToScope(u, symbol)
    PROVE  /\ scope' \in [Units -> Seq(Symbol)]
           /\ scope'[u] = <<symbol>> \o scope[u]
           /\ \A v \in Units : v # u => scope'[v] = scope[v]
           /\ \A i \in 1 .. Len(scope'[u]) :
                 scope'[u][i] = symbol \/ \E j \in 1 .. Len(scope[u]) : scope'[u][i] = scope[u][j]
           /\ \A j \in 1 .. Len(scope[u]) : \E i \in 1 .. Len(scope'[u]) : scope'[u][i] = scope[u][j]
           /\ \E i \in 1 .. Len(scope'[u]) : scope'[u][i] = symbol
<1>1. scope \in [Units -> Seq(Symbol)] /\ scope[u] \in Seq(Symbol)
  BY DEF Types, TypeOK
<1>2. scope'[u] = <<symbol>> \o scope[u] /\ \A v \in Units : v # u => scope'[v] = scope[v]
  BY <1>1 DEF AddToScope
<1>3. <<symbol>> \o scope[u] \in Seq(Symbol)
  BY <1>1, ConsFacts
<1>4. scope' \in [Units -> Seq(Symbol)]
  <2>1. scope' = [scope EXCEPT ![u] = <<symbol>> \o scope[u]]
    BY DEF AddToScope
  <2> DEFINE t == <<symbol>> \o scope[u]
  <2> HIDE DEF t
  <2>2. t \in Seq(Symbol) /\ scope' = [scope EXCEPT ![u] = t]
    BY <1>3, <2>1 DEF t
  <2> QED  BY <1>1, <2>2
<1> DEFINE t == scope'[u]
<1>5. /\ Len(t) = Len(scope[u]) + 1 /\ t[1] = symbol
      /\ \A i \in 1 .. Len(scope[u]) : t[i + 1] = scope[u][i]
      /\ \A i \in 1 .. Len(t) : i = 1 \/ (i - 1 \in 1 .. Len(scope[u]) /\ t[i] = scope[u][i - 1])
  BY <1>1, <1>2, ConsFacts
<1> HIDE DEF t
<1>6. Len(scope[u]) \in Nat
  BY <1>1
<1>7. \A i \in 1 .. Len(t) : t[i] = symbol \/ \E j \in 1 .. Len(scope[u]) : t[i] = scope[u][j]
  BY <1>5
<1>8. ASSUME NEW j \in 1 .. Len(scope[u]) PROVE \E i \in 1 .. Len(t) : t[i] = scope[u][j]
  <2>1. j + 1 \in 1 .. Len(t) /\ t[j + 1] = scope[u][j]
    BY <1>5, <1>6
  <2> QED  BY <2>1
<1>9. 1 \in 1 .. Len(t)
  BY <1>5, <1>6
<1> QED  BY <1>2, <1>4, <1>5, <1>7, <1>8, <1>9 DEF t

LEMMA TypesInitially == Init => Types
<1> SUFFICES ASSUME Init PROVE Types
  OBVIOUS
<1>1. program \in Programs /\ order \in Orders(program) /\ program \in Program
  BY ProgramsAssumption DEF Init
<1>2. order \in Seq(Units) /\ Len(order) \in Nat \ {0}
  BY <1>1, OrderFacts
<1>3. /\ scope \in [Units -> Seq(Symbol)] /\ pending \in Seq(Symbol)
      /\ members \in [Units -> [Names -> Seq(Symbol)]]
  <2>1. << >> \in Seq(Symbol)
    BY EmptySeq
  <2> QED  BY <2>1 DEF Init
<1>4. turn \in 1 .. Len(order) + 1 /\ next \in Nat
  BY <1>2 DEF Init
<1>5. phase \in Phases /\ linking \subseteq Modules /\ errors \subseteq Units \X Phases \X Nat
  BY DEF Init, Phases, MarkedAtLoad, Loaded
<1> QED  BY <1>1, <1>2, <1>3, <1>4, <1>5 DEF Init, Types, TypeOK

\* A statement or a unit is left behind.
LEMMA TurnTypes ==
    ASSUME Types, turn <= Len(order), NextStatement \/ LeaveUnit
    PROVE  turn' \in 1 .. Len(order) + 1 /\ next' \in Nat
<1>1. turn \in Nat \ {0} /\ next \in Nat /\ Len(order) \in Nat
  BY ProgramFacts DEF Types, TypeOK
<1> QED  BY <1>1 DEF NextStatement, LeaveUnit

LEMMA FailTypes ==
    ASSUME Types, turn <= Len(order), NEW p \in Phases, NEW k \in Nat, Fail(p, k)
    PROVE  errors' \subseteq Units \X Phases \X Nat /\ success' \in BOOLEAN
<1>1. Unit \in Units /\ errors \subseteq Units \X Phases \X Nat
  BY ProgramFacts DEF Types, TypeOK
<1>2. <<Unit, p, k>> \in Units \X Phases \X Nat
  BY <1>1
<1> QED  BY <1>1, <1>2 DEF Fail

LEMMA DeclareTypes ==
    ASSUME Types, Declare
    PROVE  Types'
<1>1. /\ turn <= Len(order) /\ next > 0 /\ next <= Len(Decls(Unit)) /\ NextStatement
      /\ UNCHANGED <<program, order, phase, members, importing, pending, linking, verdict>>
  BY DEF Declare, Active
<1>2. Unit \in Units /\ next \in Nat /\ next \in 1 .. Len(Decls(Unit))
  BY <1>1, ProgramFacts DEF Types, TypeOK
<1> DEFINE d == Decls(Unit)[next]
<1>3. d \in Decl
  BY <1>2, DeclFacts
<1>4. \/ AddToScope(Unit, Declared(Unit, d)) /\ UNCHANGED <<success, errors>>
      \/ Fail("declarations", next) /\ UNCHANGED scope
  BY DEF Declare
<1> HIDE DEF d
<1>5. /\ scope' \in [Units -> Seq(Symbol)] /\ success' \in BOOLEAN
      /\ errors' \subseteq Units \X Phases \X Nat
  <2>1. CASE AddToScope(Unit, Declared(Unit, d)) /\ UNCHANGED <<success, errors>>
    <3>1. Declared(Unit, d) \in Symbol
      BY <1>2, <1>3, DeclaredFacts
    <3>2. scope' \in [Units -> Seq(Symbol)]
      BY <1>2, <2>1, <3>1, AddFacts
    <3> QED  BY <2>1, <3>2 DEF Types, TypeOK
  <2>2. CASE Fail("declarations", next) /\ UNCHANGED scope
    BY <1>1, <1>2, <2>2, FailTypes DEF Phases, Types, TypeOK
  <2> QED  BY <1>4, <2>1, <2>2
<1>6. turn' \in 1 .. Len(order) + 1 /\ next' \in Nat
  BY <1>1, TurnTypes
<1> QED  BY <1>1, <1>5, <1>6 DEF Types, TypeOK

LEMMA BeginUseTypes ==
    ASSUME Types, BeginUse
    PROVE  Types'
<1>1. /\ turn <= Len(order) /\ next > 0 /\ next <= Len(Uses(Unit))
      /\ UNCHANGED <<program, order, phase, linking, verdict>>
  BY DEF BeginUse, Active
<1>2. Unit \in Units /\ next \in Nat /\ next \in 1 .. Len(Uses(Unit))
  BY <1>1, ProgramFacts DEF Types, TypeOK
<1> DEFINE use == Uses(Unit)[next]
<1>3. use \in Use /\ use.module \in Modules /\ use.module \in Units
  BY <1>2, UseFacts DEF Units
<1>4. scope[use.module] \in Seq(Symbol)
  BY <1>3 DEF Types, TypeOK
<1>5. CASE /\ Fail("imports", next) /\ NextStatement
           /\ UNCHANGED <<scope, members, importing, pending>>
  <2>1. turn' \in 1 .. Len(order) + 1 /\ next' \in Nat
    BY <1>1, <1>5, TurnTypes
  <2>2. errors' \subseteq Units \X Phases \X Nat /\ success' \in BOOLEAN
    BY <1>1, <1>2, <1>5, FailTypes DEF Phases
  <2> QED  BY <1>1, <1>5, <2>1, <2>2 DEF Types, TypeOK
<1>6. CASE /\ use.alias \in Names
           /\ AddToScope(Unit, Namespace(Unit, use))
           /\ members' = [members EXCEPT ![Unit][use.alias] = << >>]
           /\ importing' = TRUE
           /\ pending' = scope[use.module]
           /\ UNCHANGED <<success, errors, turn, next>>
  <2> HIDE DEF use
  <2>1. Namespace(Unit, use) \in Symbol
    BY <1>2, <1>3, <1>6, NamespaceFacts
  <2>2. scope' \in [Units -> Seq(Symbol)]
    BY <1>2, <1>6, <2>1, AddFacts
  <2>3. members' \in [Units -> [Names -> Seq(Symbol)]]
    BY <1>2, <1>6, EmptySeq DEF Types, TypeOK
  <2> QED  BY <1>1, <1>4, <1>6, <2>2, <2>3 DEF Types, TypeOK
<1>7. CASE /\ importing' = TRUE
           /\ pending' = scope[use.module]
           /\ UNCHANGED <<success, errors, scope, members, turn, next>>
  BY <1>1, <1>4, <1>7 DEF Types, TypeOK
<1> QED  BY <1>5, <1>6, <1>7 DEF BeginUse

LEMMA ImportTypes ==
    ASSUME Types, importing => next \in 1 .. Len(Uses(Unit)), ImportSymbol
    PROVE  Types'
<1>1. /\ turn <= Len(order) /\ importing /\ pending # << >>
      /\ UNCHANGED <<program, order, phase, linking, verdict>>
  BY DEF ImportSymbol, Active
<1>2. Unit \in Units /\ next \in Nat /\ next \in 1 .. Len(Uses(Unit))
  BY <1>1, ProgramFacts DEF Types, TypeOK
<1> DEFINE use == Uses(Unit)[next]
           symbol == Head(pending)
<1>3. use.module \in Modules /\ use.alias \in Names \cup {None}
  BY <1>2, UseFacts
<1>4. symbol \in Symbol /\ Tail(pending) \in Seq(Symbol)
  BY <1>1, TailFacts DEF Types, TypeOK
<1>5. CASE /\ pending' = Tail(pending)
           /\ UNCHANGED <<scope, members, success, errors, importing, turn, next>>
  BY <1>1, <1>4, <1>5 DEF Types, TypeOK
<1>6. CASE /\ Fail("imports", next)
           /\ importing' = FALSE /\ pending' = << >>
           /\ NextStatement
           /\ UNCHANGED <<scope, members>>
  <2>1. turn' \in 1 .. Len(order) + 1 /\ next' \in Nat
    BY <1>1, <1>6, TurnTypes
  <2>2. errors' \subseteq Units \X Phases \X Nat /\ success' \in BOOLEAN
    BY <1>1, <1>2, <1>6, FailTypes DEF Phases
  <2>3. pending' \in Seq(Symbol)
    BY <1>6, EmptySeq
  <2> QED  BY <1>1, <1>6, <2>1, <2>2, <2>3 DEF Types, TypeOK
<1>7. CASE /\ AddToScope(Unit, Imported(symbol, use.module))
           /\ pending' = Tail(pending)
           /\ UNCHANGED <<members, success, errors, importing, turn, next>>
  <2> HIDE DEF use, symbol
  <2>1. Imported(symbol, use.module) \in Symbol
    BY <1>3, <1>4, ImportedFacts
  <2>2. scope' \in [Units -> Seq(Symbol)]
    BY <1>2, <1>7, <2>1, AddFacts
  <2> QED  BY <1>1, <1>4, <1>7, <2>2 DEF Types, TypeOK
<1>8. CASE /\ use.alias # None
           /\ members' = IF InScope(members[Unit][use.alias], symbol.name) THEN members
                         ELSE [members EXCEPT ![Unit][use.alias] =
                                   <<Imported(symbol, use.module)>> \o @]
           /\ pending' = Tail(pending)
           /\ UNCHANGED <<scope, success, errors, importing, turn, next>>
  <2> HIDE DEF use, symbol
  <2>1. Imported(symbol, use.module) \in Symbol /\ use.alias \in Names
    BY <1>3, <1>4, <1>8, ImportedFacts
  <2> DEFINE t == <<Imported(symbol, use.module)>> \o members[Unit][use.alias]
  <2>2. members \in [Units -> [Names -> Seq(Symbol)]] /\ members[Unit][use.alias] \in Seq(Symbol)
    BY <1>2, <2>1 DEF Types, TypeOK
  <2>3. t \in Seq(Symbol)
    BY <2>1, <2>2, ConsFacts
  <2>4. members' = members \/ members' = [members EXCEPT ![Unit][use.alias] = t]
    BY <1>8
  <2> HIDE DEF t
  <2>5. [members[Unit] EXCEPT ![use.alias] = t] \in [Names -> Seq(Symbol)]
    BY <1>2, <2>1, <2>2, <2>3
  <2>6. members' = members \/ members' = [members EXCEPT ![Unit] = [members[Unit] EXCEPT ![use.alias] = t]]
    BY <1>2, <2>2, <2>4
  <2>7. members' \in [Units -> [Names -> Seq(Symbol)]]
    BY <1>2, <2>2, <2>5, <2>6
  <2> QED  BY <1>1, <1>4, <1>8, <2>7 DEF Types, TypeOK
<1> QED  BY <1>5, <1>6, <1>7, <1>8 DEF ImportSymbol

\* The other steps leave the scopes alone.
Quiet ==
    \/ EnterUnit \/ SkipUnit
    \/ EndDeclarations \/ EndUse \/ EndImports
    \/ ResolveSignatures \/ AnalyzeBodies
    \/ NextPhase \/ GiveUp \/ MarkModules \/ ProcessQueue
    \/ UNCHANGED vars

LEMMA QuietFacts ==
    ASSUME Quiet
    PROVE  UNCHANGED <<program, order, scope, members, pending>>
  BY DEF Quiet, EnterUnit, SkipUnit, EndDeclarations, EndUse, EndImports, ResolveSignatures,
         AnalyzeBodies, NextPhase, GiveUp, MarkModules, ProcessQueue, vars

LEMMA QuietTypes ==
    ASSUME Types, Quiet
    PROVE  Types'
<1>1. UNCHANGED <<program, order, scope, members, pending>>
  BY QuietFacts
<1>2. turn \in Nat \ {0} /\ next \in Nat /\ Len(order) \in Nat \ {0} /\ turn \in 1 .. Len(order) + 1
  BY ProgramFacts DEF Types, TypeOK
<1>3. /\ phase' \in Phases /\ turn' \in 1 .. Len(order) + 1 /\ next' \in Nat
      /\ importing' \in BOOLEAN /\ verdict' \in {"none", "accepted", "rejected"}
  <2>1. CASE EnterUnit \/ SkipUnit
    BY <1>2, <2>1 DEF EnterUnit, SkipUnit, Types, TypeOK
  <2>2. CASE EndDeclarations \/ EndUse \/ EndImports
    <3>1. turn <= Len(order) /\ (NextStatement \/ LeaveUnit) /\ UNCHANGED <<phase, verdict>>
          /\ (importing' = importing \/ importing' = FALSE)
      BY <2>2 DEF EndDeclarations, EndUse, EndImports, Active
    <3> QED  BY <3>1, TurnTypes DEF Types, TypeOK
  <2>3. CASE ResolveSignatures \/ AnalyzeBodies
    BY <1>2, <2>3 DEF ResolveSignatures, AnalyzeBodies, LeaveUnit, Active, Types, TypeOK
  <2>4. CASE NextPhase
    BY <1>2, <2>4 DEF NextPhase, PhaseOver, Types, TypeOK, Phases
  <2>5. CASE GiveUp \/ MarkModules \/ ProcessQueue
    BY <1>2, <2>5 DEF GiveUp, MarkModules, ProcessQueue, Types, TypeOK, Phases
  <2>6. CASE UNCHANGED vars
    BY <2>6 DEF vars, Types, TypeOK
  <2> QED  BY <2>1, <2>2, <2>3, <2>4, <2>5, <2>6 DEF Quiet
<1>4. errors' \subseteq Units \X Phases \X Nat /\ success' \in BOOLEAN
  <2>1. CASE ResolveSignatures
    <3>1. turn <= Len(order)
      BY <2>1 DEF ResolveSignatures, Active
    <3> QED  BY <2>1, <3>1, FailTypes DEF ResolveSignatures, Types, TypeOK, Phases
  <2>2. CASE AnalyzeBodies
    <3>1. turn <= Len(order)
      BY <2>2 DEF AnalyzeBodies, Active
    <3>2. Unit \in Units
      BY <3>1, ProgramFacts
    <3>3. CASE Fail("bodies", 0)
      BY <3>1, <3>3, FailTypes DEF Phases
    <3> QED  BY <2>2, <3>2, <3>3 DEF AnalyzeBodies, Types, TypeOK, Phases
  <2>3. CASE UNCHANGED <<errors, success>>
    BY <2>3 DEF Types, TypeOK
  <2> QED  BY <2>1, <2>2, <2>3 DEF Quiet, EnterUnit, SkipUnit, EndDeclarations, EndUse, EndImports,
              NextPhase, GiveUp, MarkModules, ProcessQueue, vars
<1>5. linking' \subseteq Modules
  <2>1. CASE MarkModules
    <3>1. Compiled = {Entry} \cup Loaded(program)
      BY OrderFacts DEF Types, Compiled
    <3> QED  BY <2>1, <3>1 DEF MarkModules, Loaded, Types, TypeOK
  <2>2. CASE UNCHANGED linking
    BY <2>2 DEF Types, TypeOK
  <2> QED  BY <2>1, <2>2 DEF Quiet, EnterUnit, SkipUnit, EndDeclarations, EndUse, EndImports,
              ResolveSignatures, AnalyzeBodies, NextPhase, GiveUp, ProcessQueue, vars
<1> QED  BY <1>1, <1>3, <1>4, <1>5 DEF Types, TypeOK

LEMMA NextCases ==
    ASSUME [Next]_vars
    PROVE  Quiet \/ Declare \/ BeginUse \/ ImportSymbol
  BY DEF Next, Quiet
------------------------------------------------------------------------------
(* What the symbols in the scopes stand for *)

\* A symbol of pass A: one of the unit's own declarations.
StandsFor(u, s, i) ==
    /\ s.from = None /\ s.origin = <<u, i>>
    /\ s.name = Decls(u)[i].name /\ s.kind = Decls(u)[i].kind /\ s.public = Decls(u)[i].public
OwnSymbol(u, s) ==
    /\ s.from = None /\ s.kind # "namespace"
    /\ \E i \in 1 .. Len(Decls(u)) : StandsFor(u, s, i)

\* The namespace of a module that the unit uses with an alias.
NamespaceSymbol(u, s) ==
    /\ s.from \in Modules /\ s.kind = "namespace"
    /\ \E k \in 1 .. Len(Uses(u)) : Uses(u)[k] = [module |-> s.from, alias |-> s.name]

\* A clone of another unit's symbol.
ImportedSymbol(u, s, alias) ==
    /\ s.from \in Modules /\ s.kind # "namespace"
    /\ Legitimate(u, s, alias)

SymbolOf(u, s) == OwnSymbol(u, s) \/ NamespaceSymbol(u, s) \/ ImportedSymbol(u, s, None)

\* The symbols of the module under import that are still to come are what the
\* module's scope held when the use began.
Importing ==
    importing =>
        /\ verdict = "none" /\ phase = "imports" /\ turn <= Len(order)
        /\ next \in 1 .. Len(Uses(Unit))
        /\ \A i \in 1 .. Len(pending) : SymbolOf(Uses(Unit)[next].module, pending[i])

Symbols ==
    /\ \A u \in Units : \A i \in 1 .. Len(scope[u]) : SymbolOf(u, scope[u][i])
    /\ \A u \in Units, n \in Names : \A i \in 1 .. Len(members[u][n]) :
         ImportedSymbol(u, members[u][n][i], n)

\* What is said of a program stays so, because the program does.
LEMMA SymbolsStable ==
    ASSUME UNCHANGED program, NEW u, NEW s, NEW alias
    PROVE  /\ Decls(u)' = Decls(u) /\ Uses(u)' = Uses(u)
           /\ SymbolOf(u, s)' <=> SymbolOf(u, s)
           /\ ImportedSymbol(u, s, alias)' <=> ImportedSymbol(u, s, alias)
<1>1. \A v : Decls(v)' = Decls(v) /\ Uses(v)' = Uses(v)
  BY DEF Decls, Uses
<1>2. \A v : ExportDecls(v)' = ExportDecls(v)
  BY <1>1 DEF ExportDecls
<1>3. \A a : Legitimate(u, s, a)' <=> Legitimate(u, s, a)
  BY <1>1, <1>2 DEF Legitimate
<1> QED  BY <1>1, <1>3 DEF SymbolOf, OwnSymbol, StandsFor, NamespaceSymbol, ImportedSymbol

\* An exported symbol of a module that a unit uses becomes a legitimate import.
LEMMA ImportIsLegitimate ==
    ASSUME Types, NEW u \in Units, NEW k \in 1 .. Len(Uses(u)),
           NEW symbol \in Symbol, Exported(symbol), SymbolOf(Uses(u)[k].module, symbol)
    PROVE  /\ OwnSymbol(Uses(u)[k].module, symbol)
           /\ ImportedSymbol(u, Imported(symbol, Uses(u)[k].module), Uses(u)[k].alias)
<1> DEFINE m == Uses(u)[k].module
           t == Imported(symbol, m)
<1>1. m \in Modules /\ m # None /\ Uses(u)[k] = [module |-> m, alias |-> Uses(u)[k].alias]
  BY UseFacts, NamesAssumption DEF Units
<1>2. /\ t.name = symbol.name /\ t.kind = symbol.kind /\ t.from = m /\ t.origin = symbol.origin
  BY <1>1, ImportedFacts
<1>3. symbol.from = None /\ symbol.public /\ symbol.kind # "namespace"
  BY DEF Exported
<1>4. OwnSymbol(m, symbol)
  BY <1>1, <1>3, NamesAssumption DEF SymbolOf, NamespaceSymbol, ImportedSymbol, Units
<1> HIDE DEF m, t
<1>5. PICK i \in 1 .. Len(Decls(m)) :
         /\ symbol.origin = <<m, i>> /\ symbol.name = Decls(m)[i].name
         /\ symbol.public = Decls(m)[i].public
  BY <1>4 DEF OwnSymbol, StandsFor
<1>6. i \in ExportDecls(m) /\ Decls(m)[i].name = t.name
  BY <1>2, <1>3, <1>5 DEF ExportDecls
<1>7. t.origin[1] = t.from /\ t.origin[2] = i
  BY <1>2, <1>5
<1>8. Legitimate(u, t, Uses(u)[k].alias)
  BY <1>1, <1>2, <1>6, <1>7 DEF Legitimate
<1> QED  BY <1>1, <1>2, <1>3, <1>4, <1>8 DEF ImportedSymbol, m, t

\* A scope gets one more symbol of its unit.
LEMMA AddSymbols ==
    ASSUME Types, Symbols, UNCHANGED <<program, members>>, NEW u \in Units,
           NEW s \in Symbol, AddToScope(u, s), SymbolOf(u, s)
    PROVE  Symbols'
<1>1. ASSUME NEW v \in Units, NEW i \in 1 .. Len(scope'[v])
      PROVE  SymbolOf(v, scope'[v][i])
  <2>1. CASE v = u
    <3>0. i \in 1 .. Len(scope'[u])
      BY <2>1
    <3>1. scope'[u][i] = s \/ \E j \in 1 .. Len(scope[u]) : scope'[u][i] = scope[u][j]
      <4>1. \A k \in 1 .. Len(scope'[u]) :
                scope'[u][k] = s \/ \E j \in 1 .. Len(scope[u]) : scope'[u][k] = scope[u][j]
        BY AddFacts
      <4> QED  BY <3>0, <4>1
    <3>2. \A j \in 1 .. Len(scope[u]) : SymbolOf(u, scope[u][j])
      BY DEF Symbols
    <3> QED  BY <2>1, <3>1, <3>2
  <2>2. CASE v # u
    <3>1. scope'[v] = scope[v]
      BY <2>2, AddFacts
    <3> QED  BY <1>1, <3>1 DEF Symbols
  <2> QED  BY <2>1, <2>2
<1> QED  BY <1>1, SymbolsStable DEF Symbols

\* The steps that import, one by one.
LEMMA DeclareSymbols ==
    ASSUME Types, Symbols, Declare
    PROVE  Symbols'
<1>1. /\ turn <= Len(order) /\ next > 0 /\ next <= Len(Decls(Unit))
      /\ UNCHANGED <<program, members>>
  BY DEF Declare, Active
<1>2. Unit \in Units /\ next \in Nat /\ next \in 1 .. Len(Decls(Unit))
  BY <1>1, ProgramFacts DEF Types, TypeOK
<1> DEFINE d == Decls(Unit)[next]
<1>3. d \in Decl
  BY <1>2, DeclFacts
<1>4. AddToScope(Unit, Declared(Unit, d)) \/ UNCHANGED scope
  BY DEF Declare
<1>5. CASE AddToScope(Unit, Declared(Unit, d))
  <2>1. OwnSymbol(Unit, Declared(Unit, d))
    <3>1. d.kind # "namespace"
      BY <1>3 DEF Decl
    <3> QED  BY <1>2, <1>3, <3>1, DeclaredFacts DEF OwnSymbol, StandsFor
  <2> HIDE DEF d
  <2>2. Declared(Unit, d) \in Symbol /\ SymbolOf(Unit, Declared(Unit, d))
    BY <1>2, <1>3, <2>1, DeclaredFacts DEF SymbolOf
  <2> QED  BY <1>1, <1>2, <1>5, <2>2, AddSymbols
<1>6. CASE UNCHANGED scope
  BY <1>1, <1>6, SymbolsStable DEF Symbols
<1> QED  BY <1>4, <1>5, <1>6

LEMMA BeginUseSymbols ==
    ASSUME Types, Symbols, BeginUse
    PROVE  Symbols' /\ Importing'
<1>1. /\ verdict = "none" /\ phase = "imports"
      /\ turn <= Len(order) /\ next > 0 /\ next <= Len(Uses(Unit)) /\ ~ importing
      /\ UNCHANGED <<program, order, phase, linking, verdict>>
  BY DEF BeginUse, Active
<1>2. Unit \in Units /\ next \in Nat /\ next \in 1 .. Len(Uses(Unit))
  BY <1>1, ProgramFacts DEF Types, TypeOK
<1> DEFINE use == Uses(Unit)[next]
<1>3. use \in Use /\ use.module \in Modules /\ use.module \in Units
      /\ use = [module |-> use.module, alias |-> use.alias]
  BY <1>2, UseFacts DEF Units
<1>4. CASE UNCHANGED <<scope, members, importing, pending>>
  BY <1>1, <1>4, SymbolsStable DEF Symbols, Importing
<1>5. ASSUME importing' = TRUE, pending' = scope[use.module], UNCHANGED <<turn, next>>
      PROVE  Importing'
  <2>1. Unit' = Unit /\ Uses(Unit)' = Uses(Unit)
    BY <1>1, <1>5 DEF Unit, Uses
  <2>2. \A i \in 1 .. Len(pending') : SymbolOf(use.module, pending'[i])
    BY <1>3, <1>5 DEF Symbols
  <2>3. \A m, s : SymbolOf(m, s)' <=> SymbolOf(m, s)
    BY <1>1, SymbolsStable
  <2> QED  BY <1>1, <1>2, <1>5, <2>1, <2>2, <2>3 DEF Importing
<1>6. CASE /\ use.alias \in Names
           /\ AddToScope(Unit, Namespace(Unit, use))
           /\ members' = [members EXCEPT ![Unit][use.alias] = << >>]
           /\ importing' = TRUE /\ pending' = scope[use.module] /\ UNCHANGED <<turn, next>>
  <2>1. NamespaceSymbol(Unit, Namespace(Unit, use))
    BY <1>2, <1>3, <1>6, NamespaceFacts DEF NamespaceSymbol
  <2>2. SymbolOf(Unit, Namespace(Unit, use)) /\ Namespace(Unit, use) \in Symbol
    BY <1>2, <1>3, <1>6, <2>1, NamespaceFacts DEF SymbolOf
  <2>3. \A u \in Units : \A i \in 1 .. Len(scope'[u]) : SymbolOf(u, scope'[u][i])
    <3> HIDE DEF use
    <3>1. ASSUME NEW u \in Units, NEW i \in 1 .. Len(scope'[u]) PROVE SymbolOf(u, scope'[u][i])
      <4>1. CASE u = Unit
        <5>1. \/ scope'[u][i] = Namespace(Unit, use)
              \/ \E j \in 1 .. Len(scope[u]) : scope'[u][i] = scope[u][j]
          BY <1>2, <1>6, <2>2, <3>1, <4>1, AddFacts
        <5>2. \A j \in 1 .. Len(scope[u]) : SymbolOf(u, scope[u][j])
          BY DEF Symbols
        <5> QED  BY <2>2, <4>1, <5>1, <5>2
      <4>2. CASE u # Unit
        <5>1. scope'[u] = scope[u]
          BY <1>2, <1>6, <2>2, <4>2, AddFacts
        <5> QED  BY <3>1, <5>1 DEF Symbols
      <4> QED  BY <4>1, <4>2
    <3> QED  BY <3>1
  <2>4. \A u \in Units, n \in Names :
            members'[u][n] = members[u][n] \/ members'[u][n] = << >>
    <3> HIDE DEF use
    <3> QED  BY <1>2, <1>6 DEF Types, TypeOK
  <2>5. \A u \in Units, n \in Names : \A i \in 1 .. Len(members'[u][n]) :
            ImportedSymbol(u, members'[u][n][i], n)
    <3> SUFFICES ASSUME NEW u \in Units, NEW n \in Names, NEW i \in 1 .. Len(members'[u][n])
                 PROVE  ImportedSymbol(u, members'[u][n][i], n)
      OBVIOUS
    <3>1. members'[u][n] = members[u][n]
      BY <2>4
    <3> QED  BY <3>1 DEF Symbols
  <2> QED  BY <1>1, <1>5, <1>6, <2>3, <2>5, SymbolsStable DEF Symbols
<1>7. CASE /\ importing' = TRUE /\ pending' = scope[use.module]
           /\ UNCHANGED <<scope, members, turn, next>>
  BY <1>1, <1>5, <1>7, SymbolsStable DEF Symbols
<1> QED  BY <1>4, <1>6, <1>7 DEF BeginUse

LEMMA ImportSymbols ==
    ASSUME Types, Symbols, Importing, ImportSymbol
    PROVE  Symbols' /\ Importing'
<1>1. /\ turn <= Len(order) /\ importing /\ pending # << >>
      /\ UNCHANGED <<program, order, phase, linking, verdict>>
  BY DEF ImportSymbol, Active
<1>2. Unit \in Units /\ next \in Nat /\ next \in 1 .. Len(Uses(Unit))
  BY <1>1, ProgramFacts DEF Types, TypeOK, Importing
<1> DEFINE use == Uses(Unit)[next]
           symbol == Head(pending)
           clone == Imported(symbol, use.module)
<1>3. use.module \in Modules /\ use.alias \in Names \cup {None}
  BY <1>2, UseFacts
<1>4. /\ symbol \in Symbol /\ Tail(pending) \in Seq(Symbol)
      /\ SymbolOf(use.module, symbol)
      /\ \A i \in 1 .. Len(Tail(pending)) : SymbolOf(use.module, Tail(pending)[i])
  <2>1. pending \in Seq(Symbol) /\ \A i \in 1 .. Len(pending) : SymbolOf(use.module, pending[i])
    BY <1>1 DEF Types, TypeOK, Importing
  <2> HIDE DEF use
  <2>2. /\ symbol = pending[1] /\ symbol \in Symbol /\ Tail(pending) \in Seq(Symbol)
        /\ Len(pending) >= 1 /\ Len(pending) \in Nat
        /\ \A i \in 1 .. Len(Tail(pending)) : i + 1 \in 1 .. Len(pending) /\ Tail(pending)[i] = pending[i + 1]
    BY <1>1, <2>1, TailFacts
  <2>3. 1 \in 1 .. Len(pending)
    BY <2>2
  <2> QED  BY <2>1, <2>2, <2>3
<1>5. ASSUME pending' = Tail(pending), UNCHANGED <<importing, turn, next>>
      PROVE  Importing'
  <2>1. Unit' = Unit /\ Uses(Unit)' = Uses(Unit)
    BY <1>1, <1>5 DEF Unit, Uses
  <2>2. \A m, s : SymbolOf(m, s)' <=> SymbolOf(m, s)
    BY <1>1, SymbolsStable
  <2> QED  BY <1>1, <1>2, <1>4, <1>5, <2>1, <2>2 DEF Importing
<1>6. ASSUME Exported(symbol)
      PROVE  ImportedSymbol(Unit, clone, use.alias) /\ clone \in Symbol
  BY <1>2, <1>3, <1>4, <1>6, ImportIsLegitimate, ImportedFacts
<1>7. CASE /\ pending' = Tail(pending)
           /\ UNCHANGED <<scope, members, success, errors, importing, turn, next>>
  BY <1>1, <1>5, <1>7, SymbolsStable DEF Symbols
<1>8. CASE importing' = FALSE /\ UNCHANGED <<scope, members>>
  BY <1>1, <1>8, SymbolsStable DEF Symbols, Importing
<1>9. CASE /\ Exported(symbol) /\ use.alias = None
           /\ AddToScope(Unit, clone) /\ pending' = Tail(pending)
           /\ UNCHANGED <<members, success, errors, importing, turn, next>>
  <2>1. SymbolOf(Unit, clone) /\ clone \in Symbol
    BY <1>6, <1>9 DEF SymbolOf
  <2> HIDE DEF clone
  <2>2. Symbols'
    BY <1>1, <1>2, <1>9, <2>1, AddSymbols
  <2> QED  BY <1>5, <1>9, <2>2
<1>10. CASE /\ Exported(symbol) /\ use.alias # None
            /\ members' = IF InScope(members[Unit][use.alias], symbol.name) THEN members
                          ELSE [members EXCEPT ![Unit][use.alias] = <<clone>> \o @]
            /\ pending' = Tail(pending)
            /\ UNCHANGED <<scope, success, errors, importing, turn, next>>
  <2>1. ImportedSymbol(Unit, clone, use.alias) /\ clone \in Symbol /\ use.alias \in Names
    BY <1>3, <1>6, <1>10
  <2> DEFINE old == members[Unit][use.alias]
             new == <<clone>> \o old
  <2>2. members \in [Units -> [Names -> Seq(Symbol)]] /\ old \in Seq(Symbol)
    BY <1>2, <2>1 DEF Types, TypeOK
  <2>3. \A i \in 1 .. Len(new) : ImportedSymbol(Unit, new[i], use.alias)
    <3>1. \A i \in 1 .. Len(old) : ImportedSymbol(Unit, old[i], use.alias)
      BY <1>2, <2>1 DEF Symbols
    <3> HIDE DEF old, clone, use
    <3>2. /\ new[1] = clone
          /\ \A i \in 1 .. Len(new) : i = 1 \/ (i - 1 \in 1 .. Len(old) /\ new[i] = old[i - 1])
      BY <2>1, <2>2, ConsFacts
    <3> HIDE DEF new
    <3>3. ASSUME NEW i \in 1 .. Len(new) PROVE ImportedSymbol(Unit, new[i], use.alias)
      BY <2>1, <3>1, <3>2
    <3> QED  BY <3>3
  <2>4. members' = members \/ members' = [members EXCEPT ![Unit][use.alias] = new]
    BY <1>10
  <2> HIDE DEF new, clone, use
  <2>5. \A u \in Units, n \in Names :
            members'[u][n] = members[u][n] \/ (u = Unit /\ n = use.alias /\ members'[u][n] = new)
    BY <1>2, <2>1, <2>2, <2>4
  <2>6. ASSUME NEW u \in Units, NEW n \in Names, NEW i \in 1 .. Len(members'[u][n])
        PROVE  ImportedSymbol(u, members'[u][n][i], n)
    BY <2>3, <2>5, Zenon DEF Symbols
  <2>7. Symbols'
    BY <1>1, <1>10, <2>6, SymbolsStable DEF Symbols
  <2> QED  BY <1>5, <1>10, <2>7
<1> QED  BY <1>7, <1>8, <1>9, <1>10 DEF ImportSymbol

LEMMA QuietSymbols ==
    ASSUME Types, Symbols, Importing, Quiet
    PROVE  Symbols' /\ Importing'
<1>1. UNCHANGED <<program, order, scope, members, pending>>
  BY QuietFacts
<1>2. Symbols'
  BY <1>1, SymbolsStable DEF Symbols
<1>3. importing' => importing /\ UNCHANGED <<importing, phase, verdict, turn, next>>
  <2> SUFFICES ASSUME importing'
               PROVE  importing /\ UNCHANGED <<importing, phase, verdict, turn, next>>
    OBVIOUS
  <2> importing /\ UNCHANGED importing
    BY DEF Quiet, EnterUnit, SkipUnit, EndDeclarations, EndUse, EndImports, ResolveSignatures,
           AnalyzeBodies, NextPhase, GiveUp, MarkModules, ProcessQueue, vars
  <2>1. phase = "imports" /\ turn <= Len(order) /\ next # 0 /\ verdict = "none"
    BY DEF Importing
  <2>2. ~ (turn > Len(order))
    BY <2>1, ProgramFacts
  <2> QED  BY <2>1, <2>2 DEF Quiet, EnterUnit, SkipUnit, EndDeclarations, EndUse, EndImports,
         ResolveSignatures, AnalyzeBodies, NextPhase, GiveUp, MarkModules, ProcessQueue, vars,
         Active, PhaseOver
<1>4. Importing'
  <2>1. CASE importing'
    <3>1. Unit' = Unit /\ Uses(Unit)' = Uses(Unit)
      BY <1>1, <1>3, <2>1 DEF Unit, Uses
    <3> QED  BY <1>1, <1>3, <2>1, <3>1, SymbolsStable DEF Importing
  <2> QED  BY <2>1 DEF Importing
<1> QED  BY <1>2, <1>4

LEMMA SymbolsInitially == Init => Symbols /\ Importing
<1> SUFFICES ASSUME Init PROVE Symbols /\ Importing
  OBVIOUS
<1>1. Importing
  BY DEF Init, Importing
<1>2. \A u \in Units : scope[u] = << >> /\ \A n \in Names : members[u][n] = << >>
  BY DEF Init
<1>3. Len(<< >>) = 0
  OBVIOUS
<1>4. Symbols
  BY <1>2, <1>3 DEF Symbols
<1> QED  BY <1>1, <1>4

TypesAndSymbols == Types /\ Symbols /\ Importing

LEMMA TypesAndSymbolsStep == TypesAndSymbols /\ [Next]_vars => TypesAndSymbols'
<1> SUFFICES ASSUME TypesAndSymbols, [Next]_vars PROVE TypesAndSymbols'
  OBVIOUS
<1> USE DEF TypesAndSymbols
<1>1. CASE Quiet
  BY <1>1, QuietTypes, QuietSymbols
<1>2. CASE Declare
  <2>1. Importing'
    BY <1>2 DEF Declare, Active, Importing
  <2> QED  BY <1>2, <2>1, DeclareTypes, DeclareSymbols
<1>3. CASE BeginUse
  BY <1>3, BeginUseTypes, BeginUseSymbols
<1>4. CASE ImportSymbol
  <2>1. importing => next \in 1 .. Len(Uses(Unit))
    BY DEF Importing
  <2> QED  BY <1>4, <2>1, ImportTypes, ImportSymbols
<1> QED  BY <1>1, <1>2, <1>3, <1>4, NextCases

\* The types and the account of every symbol hold together: what a scope holds comes from a
\* declaration of its unit, from a use statement, or from a public declaration of a used module.
THEOREM SymbolsInvariant == Spec => []TypesAndSymbols
<1>1. Init => TypesAndSymbols
  BY TypesInitially, SymbolsInitially DEF TypesAndSymbols
<1> QED  BY <1>1, TypesAndSymbolsStep, PTL DEF Spec

\* The variables keep their types; in particular the use statement that is
\* under way is one of the unit's, and what it has not looked at are symbols.
THEOREM TypeCorrect == Spec => []TypeOK
<1>1. TypesAndSymbols => TypeOK
  BY DEF TypesAndSymbols, Types
<1> QED  BY <1>1, SymbolsInvariant, PTL

\* Nothing reaches another unit but public declarations of a module it uses
\* itself (import_public_symbols).
THEOREM ImportsExported == Spec => []ImportsAreExports
<1>1. TypesAndSymbols => ImportsAreExports
  <2> SUFFICES ASSUME TypesAndSymbols PROVE ImportsAreExports
    OBVIOUS
  <2>1. Compiled \subseteq Units
    BY OrderFacts DEF TypesAndSymbols, Types, Compiled, Loaded, Units
  <2>2. ASSUME NEW u \in Units, NEW i \in 1 .. Len(scope[u]),
               scope[u][i].from # None, scope[u][i].kind # "namespace"
        PROVE  Legitimate(u, scope[u][i], None)
    BY <2>2 DEF TypesAndSymbols, Symbols, SymbolOf, OwnSymbol, NamespaceSymbol, ImportedSymbol
  <2>3. ASSUME NEW u \in Units, NEW n \in Names, NEW i \in 1 .. Len(members[u][n])
        PROVE  Legitimate(u, members[u][n][i], n)
    BY <2>3 DEF TypesAndSymbols, Symbols, ImportedSymbol
  <2> QED  BY <2>1, <2>2, <2>3 DEF ImportsAreExports
<1> QED  BY <1>1, SymbolsInvariant, PTL
------------------------------------------------------------------------------
(* What the source says of a name *)

\* The compiled units are closed under use, and none uses itself.
LEMMA CompiledFacts ==
    ASSUME Types
    PROVE  /\ Compiled = {order[i] : i \in 1 .. Len(order)}
           /\ Compiled \subseteq Units
           /\ \A u \in Units : \A k \in 1 .. Len(Uses(u)) : Uses(u)[k].module # u
           /\ \A u \in Compiled : \A k \in 1 .. Len(Uses(u)) : Uses(u)[k].module \in Compiled
<1>1. Compiled = {Entry} \cup Loaded(program) /\ order \in Seq(Units)
  BY OrderFacts DEF Types, Compiled
<1>2. Compiled = {order[i] : i \in 1 .. Len(order)}
  BY <1>1 DEF Compiled, ToSet
<1>3. Compiled \subseteq Units
  BY <1>1 DEF Loaded, Units
<1>4. \A u : UsedBy(program, u) = {Uses(u)[k].module : k \in 1 .. Len(Uses(u))}
  BY DEF UsedBy, Uses
<1>5. ASSUME NEW u \in Units, NEW k \in 1 .. Len(Uses(u)), Uses(u)[k].module = u
      PROVE  FALSE
  <2>1. u \in Modules
    BY <1>5, UseFacts
  <2>2. Acyclic(program)
    BY ProgramsAssumption DEF Types
  <2>3. UsedBy(program, u) \cap {u} = {}
    <3>1. {u} \in (SUBSET Modules) \ {{}}
      BY <2>1
    <3> QED  BY <2>2, <3>1 DEF Acyclic
  <2> QED  BY <1>4, <1>5, <2>3
<1>6. ASSUME NEW u \in Compiled, NEW k \in 1 .. Len(Uses(u))
      PROVE  Uses(u)[k].module \in Compiled
  <2> DEFINE m == Uses(u)[k].module
  <2>1. m \in Modules /\ m \in UsedBy(program, u)
    <3>1. u \in Units
      BY <1>3
    <3>2. m \in Modules
      BY <3>1, UseFacts
    <3> QED  BY <1>4, <3>2
  <2> HIDE DEF m
  <2>2. ASSUME NEW R \in SUBSET Modules, UsedBy(program, Entry) \subseteq R,
               \A n \in R : UsedBy(program, n) \subseteq R
        PROVE  m \in R
    <3>1. u = Entry \/ u \in R
      BY <1>1, <2>2 DEF Loaded
    <3> QED  BY <2>1, <2>2, <3>1
  <2>3. m \in Loaded(program)
    BY <2>1, <2>2 DEF Loaded
  <2> QED  BY <1>1, <2>3 DEF m
<1> QED  BY <1>2, <1>3, <1>5, <1>6

\* The source of a name before the first use statement.
LEMMA FirstSource ==
    ASSUME NEW u, NEW n
    PROVE  Source(u, n, 1) = IF Owns(u, n) THEN {<<u, None>>} ELSE {}
<1>1. Providers(u, n, 1) = {}
  BY DEF Providers
<1> QED  BY <1>1 DEF Source

\* One more use statement: the first provider of a name stays its source.
LEMMA NextSource ==
    ASSUME NEW u, NEW n, NEW k \in Nat \ {0}
    PROVE  Source(u, n, k + 1) =
               IF Source(u, n, k) # {} THEN Source(u, n, k)
               ELSE IF Provides(Uses(u)[k], n)
               THEN {<<Uses(u)[k].module, Uses(u)[k].alias>>} ELSE {}
<1> DEFINE P(j) == Providers(u, n, j)
           L(j) == {i \in P(j) : \A h \in P(j) : i <= h}
           V(i) == <<Uses(u)[i].module, Uses(u)[i].alias>>
<1>1. CASE Owns(u, n)
  BY <1>1 DEF Source
<1>2. CASE ~ Owns(u, n)
  <2>1. \A j : Source(u, n, j) = {V(i) : i \in L(j)}
    BY <1>2 DEF Source
  <2>2. P(k + 1) = P(k) \cup (IF Provides(Uses(u)[k], n) THEN {k} ELSE {})
    <3>1. 1 .. (k + 1) - 1 = (1 .. k - 1) \cup {k}
      OBVIOUS
    <3> QED  BY <3>1 DEF Providers
  <2>3. P(k) \in SUBSET Nat /\ \A i \in P(k) : i < k
    BY DEF Providers
  <2>4. P(k) # {} => L(k) # {}
    BY <2>3, LeastNumber
  <2> HIDE DEF P, V
  <2>5. CASE P(k) # {}
    <3>1. L(k + 1) = L(k)
      <4>1. PICK l \in P(k) : \A h \in P(k) : l <= h
        BY <2>4, <2>5
      <4>2. l \in P(k + 1) /\ l < k
        BY <2>2, <2>3
      <4>3. ASSUME NEW i \in L(k) PROVE i \in L(k + 1)
        BY <2>2, <2>3
      <4>4. ASSUME NEW i \in L(k + 1) PROVE i \in L(k)
        <5>1. i \in P(k + 1) /\ i <= l
          BY <4>2
        <5>2. i # k
          BY <2>3, <4>2, <5>1
        <5> QED  BY <2>2, <5>1, <5>2
      <4> QED  BY <4>3, <4>4
    <3>2. Source(u, n, k) # {}
      <4>1. PICK l : l \in L(k)
        BY <2>4, <2>5
      <4>2. V(l) \in {V(i) : i \in L(k)}
        BY <4>1
      <4> QED  BY <2>1, <4>2
    <3> QED  BY <2>1, <3>1, <3>2
  <2>6. CASE P(k) = {}
    <3>1. Source(u, n, k) = {}
      BY <2>1, <2>6
    <3>2. L(k + 1) = IF Provides(Uses(u)[k], n) THEN {k} ELSE {}
      BY <2>2, <2>6
    <3> HIDE DEF L
    <3>3. CASE Provides(Uses(u)[k], n)
      <4>1. Source(u, n, k + 1) = {V(k)}
        BY <2>1, <3>2, <3>3
      <4> QED  BY <3>1, <3>3, <4>1 DEF V
    <3>4. CASE ~ Provides(Uses(u)[k], n)
      BY <2>1, <3>1, <3>2, <3>4
    <3> QED  BY <3>3, <3>4
  <2> QED  BY <2>5, <2>6
<1> QED  BY <1>1, <1>2

\* A unit's own declarations come first.
LEMMA OwnSource ==
    ASSUME NEW u, NEW n, NEW k, Owns(u, n)
    PROVE  Source(u, n, k) = {<<u, None>>}
  BY DEF Source
------------------------------------------------------------------------------
(* What the phases have established *)

\* The declarations and the use statements that the code accepts, by the source.
DeclAccepted(u, i) ==
    LET d == Decls(u)[i]
        earlier(n) == {j \in 1 .. i - 1 : Decls(u)[j].name = n}
    IN  IF d.kind = "method"
        THEN earlier(d.owner) # {} /\ Decls(u)[Max(earlier(d.owner))].kind = "type"
        ELSE earlier(d.name) = {}
UseAccepted(u, k) ==
    LET use == Uses(u)[k]
    IN  IF use.alias # None THEN Source(u, use.alias, k) = {}
        ELSE \A n \in Names :
                /\ \A s \in Source(u, n, k) :
                      Exporters(use.module, n) # {} => s[1] # use.module
                /\ Source(u, n, k) = {} => Cardinality(Exporters(use.module, n)) <= 1

\* How many of a unit's n statements the phase has dealt with, plus one.
Reached(i, n) == IF i < turn THEN n + 1 ELSE IF i = turn /\ next > 0 THEN next ELSE 1

\* Pass A: a unit's scope mirrors the declarations before its k-th.
Mirrors(u, k) ==
    /\ Len(scope[u]) = k - 1
    /\ \A j \in 1 .. k - 1 : StandsFor(u, scope[u][j], k - j)

Declaring ==
    phase = "declarations" /\ success =>
        \A i \in 1 .. Len(order) :
            LET u == order[i]
                k == Reached(i, Len(Decls(u)))
            IN  Mirrors(u, k) /\ \A j \in 1 .. k - 1 : DeclAccepted(u, j)

AllDeclared(u) ==
    /\ \A i \in 1 .. Len(Decls(u)) : \E j \in 1 .. Len(scope[u]) : StandsFor(u, scope[u][j], i)
    /\ \A i, j \in 1 .. Len(scope[u]) :
         scope[u][i].from = None /\ scope[u][j].from = None
         /\ scope[u][i].origin = scope[u][j].origin => i = j
    /\ \A i \in 1 .. Len(Decls(u)) : DeclAccepted(u, i)

HaveDeclared == phase # "declarations" => \A u \in Compiled : AllDeclared(u)

\* The imports: after the use statements before the k-th a name means what the
\* source says, and an imported name has one symbol.
Meaning(u, s) ==
    <<IF s.from = None THEN u ELSE s.from, IF s.kind = "namespace" THEN s.name ELSE None>>
Sound(u, k) ==
    \A j \in 1 .. Len(scope[u]) : Source(u, scope[u][j].name, k) = {Meaning(u, scope[u][j])}
Complete(u, k) == \A n \in Names : Source(u, n, k) # {} => InScope(scope[u], n)
Single(u) ==
    \A i, j \in 1 .. Len(scope[u]) :
        scope[u][i].name = scope[u][j].name /\ scope[u][i].from # None => i = j

\* In the middle of the k-th use statement of unit u, without an alias: the
\* exported symbols of module m that are pending are different ones, none of
\* them is in the scope, and the others have been taken over or left alone.
PendingDiffer ==
    \A p, q \in 1 .. Len(pending) :
        Exported(pending[p]) /\ Exported(pending[q])
        /\ pending[p].origin = pending[q].origin => p = q
PendingFresh(u, m, k) ==
    \A j \in 1 .. Len(scope[u]), p \in 1 .. Len(pending) :
        scope[u][j].from = m /\ Source(u, scope[u][j].name, k) = {} /\ Exported(pending[p])
            => scope[u][j].origin # pending[p].origin
TakenOver(u, m, n, i, k) ==
    /\ Source(u, n, k) = {}
    /\ \E j \in 1 .. Len(scope[u]) :
         scope[u][j].name = n /\ scope[u][j].origin = <<m, i>> /\ scope[u][j].from = m
LeftAlone(u, m, n, k) == Source(u, n, k) # {} /\ \A s \in Source(u, n, k) : s[1] # m
StillPending(m, i) ==
    \E p \in 1 .. Len(pending) : Exported(pending[p]) /\ StandsFor(m, pending[p], i)
NoneLost(u, m, k) ==
    \A n \in Names : \A i \in Exporters(m, n) :
        StillPending(m, i) \/ LeftAlone(u, m, n, k) \/ TakenOver(u, m, n, i, k)

Midway(u, k) ==
    IF Uses(u)[k].alias # None THEN UseAccepted(u, k) /\ Complete(u, k + 1)
    ELSE /\ Complete(u, k)
         /\ PendingDiffer
         /\ PendingFresh(u, Uses(u)[k].module, k)
         /\ NoneLost(u, Uses(u)[k].module, k)

ResolvedTo(u, k) ==
    /\ Single(u) /\ Sound(u, k) /\ Complete(u, k)
    /\ \A j \in 1 .. k - 1 : UseAccepted(u, j)
Underway(u, k) ==
    /\ Single(u) /\ Sound(u, k + 1) /\ Midway(u, k)
    /\ \A j \in 1 .. k - 1 : UseAccepted(u, j)

Resolving ==
    phase = "imports" /\ success =>
        \A i \in 1 .. Len(order) :
            LET u == order[i]
                k == Reached(i, Len(Uses(u)))
            IN  IF importing /\ i = turn THEN Underway(u, k) ELSE ResolvedTo(u, k)

Resolved(u) == ResolvedTo(u, Len(Uses(u)) + 1)

HaveResolved == phase \in {"signatures", "bodies", "queue"} => \A u \in Compiled : Resolved(u)

\* Passes B and C.
BodyPassed(u) ==
    program.bodies[u] = "ok" \/ (program.bodies[u] = "reported" /\ errors # {})
Analysing ==
    /\ phase = "signatures" /\ success =>
         \A i \in 1 .. Len(order) : i < turn => program.signatures[order[i]] = "ok"
    /\ phase \in {"bodies", "queue"} => \A u \in Compiled : program.signatures[u] = "ok"
    /\ phase = "bodies" /\ success =>
         \A i \in 1 .. Len(order) : i < turn => BodyPassed(order[i])
    /\ phase = "queue" => success /\ \A u \in Compiled : BodyPassed(u)

\* The bounds of the loops, and what a failure and an error say of the program.
Acceptable(u) ==
    /\ \A i \in 1 .. Len(Decls(u)) : DeclAccepted(u, i)
    /\ \A k \in 1 .. Len(Uses(u)) : UseAccepted(u, k)
    /\ program.signatures[u] = "ok" /\ program.bodies[u] = "ok"

Bounds ==
    /\ turn > Len(order) => next = 0
    /\ turn <= Len(order) /\ phase = "declarations" => next <= Len(Decls(Unit)) + 1
    /\ turn <= Len(order) /\ phase = "imports" => next <= Len(Uses(Unit)) + 1

Failing == ~ success => \E u \in Compiled : ~ Acceptable(u)

Reporting ==
    success => \A e \in errors : e[1] \in Compiled /\ program.bodies[e[1]] = "reported"

Linking ==
    linking = {m \in Compiled \ {Entry} :
                  \/ m = Target
                  \/ phase = "queue" /\ (Decls(m) # << >> \/ Uses(m) # << >>)}

Deciding ==
    /\ verdict = "accepted" => phase = "queue" /\ errors = {}
    /\ verdict = "rejected" => ~ success \/ errors # {}

\* What the program alone determines does not change.
LEMMA ProgramStable ==
    ASSUME UNCHANGED program, NEW u, NEW n, NEW k
    PROVE  /\ Decls(u)' = Decls(u) /\ Uses(u)' = Uses(u)
           /\ StandsFor(u, n, k)' <=> StandsFor(u, n, k)
           /\ Exporters(u, n)' = Exporters(u, n)
           /\ Source(u, n, k)' = Source(u, n, k)
           /\ DeclAccepted(u, k)' <=> DeclAccepted(u, k)
           /\ UseAccepted(u, k)' <=> UseAccepted(u, k)
           /\ Acceptable(u)' <=> Acceptable(u)
<1>1. \A v : Decls(v)' = Decls(v) /\ Uses(v)' = Uses(v)
  BY DEF Decls, Uses
<1>2. \A v : ExportDecls(v)' = ExportDecls(v) /\ \A m : Owns(v, m)' <=> Owns(v, m)
  BY <1>1 DEF ExportDecls, Owns
<1>3. \A v, m : Exporters(v, m)' = Exporters(v, m)
  BY <1>1, <1>2 DEF Exporters
<1>4. \A use, m : Provides(use, m)' <=> Provides(use, m)
  BY <1>3 DEF Provides
<1>5. \A v, m, l : Providers(v, m, l)' = Providers(v, m, l)
  BY <1>1, <1>4 DEF Providers
<1>6. \A v, m, l : Source(v, m, l)' = Source(v, m, l)
  BY <1>1, <1>2, <1>5 DEF Source
<1>7. \A v, i : DeclAccepted(v, i)' <=> DeclAccepted(v, i)
  BY <1>1 DEF DeclAccepted
<1>8. \A v, i : UseAccepted(v, i)' <=> UseAccepted(v, i)
  BY <1>1, <1>3, <1>6 DEF UseAccepted
<1>9. \A v : Acceptable(v)' <=> Acceptable(v)
  BY <1>1, <1>7, <1>8 DEF Acceptable
<1> QED  BY <1>1, <1>3, <1>6, <1>7, <1>8, <1>9 DEF StandsFor

\* What is said of a scope does not change with the program and the scope.
LEMMA ScopeStable ==
    ASSUME UNCHANGED program, NEW u, NEW k, scope'[u] = scope[u]
    PROVE  /\ Mirrors(u, k)' <=> Mirrors(u, k)
           /\ AllDeclared(u)' <=> AllDeclared(u)
           /\ Sound(u, k)' <=> Sound(u, k)
           /\ Complete(u, k)' <=> Complete(u, k)
           /\ Single(u)' <=> Single(u)
           /\ ResolvedTo(u, k)' <=> ResolvedTo(u, k)
           /\ Resolved(u)' <=> Resolved(u)
<1>1. Mirrors(u, k)' <=> Mirrors(u, k)
  BY ProgramStable DEF Mirrors
<1>2. AllDeclared(u)' <=> AllDeclared(u)
  BY ProgramStable DEF AllDeclared
<1>3. \A l : Sound(u, l)' <=> Sound(u, l)
  BY ProgramStable DEF Sound, Meaning
<1>4. \A l : Complete(u, l)' <=> Complete(u, l)
  BY ProgramStable DEF Complete
<1>5. Single(u)' <=> Single(u)
  BY DEF Single
<1>6. \A l : ResolvedTo(u, l)' <=> ResolvedTo(u, l)
  BY <1>3, <1>4, <1>5, ProgramStable DEF ResolvedTo
<1> QED  BY <1>1, <1>2, <1>3, <1>4, <1>5, <1>6, ProgramStable DEF Resolved
------------------------------------------------------------------------------
(* Pass A *)

LEMMA ReachedFacts ==
    ASSUME Types, NEW i \in 1 .. Len(order), NEW n \in Nat
    PROVE  /\ Reached(i, n) \in Nat \ {0}
           /\ i = turn /\ next > 0 => Reached(i, n) = next
           /\ i < turn => Reached(i, n) = n + 1
           /\ NextStatement /\ i # turn => Reached(i, n)' = Reached(i, n)
           /\ NextStatement /\ i = turn => Reached(i, n)' = next + 1
           /\ LeaveUnit /\ (i = turn => next = n + 1) => Reached(i, n)' = Reached(i, n)
           /\ UNCHANGED <<turn, next>> => Reached(i, n)' = Reached(i, n)
           /\ turn' = turn /\ next = 0 /\ next' = 1 => Reached(i, n)' = Reached(i, n)
           /\ turn' = 1 /\ next' = 0 => Reached(i, n)' = 1
           /\ turn > Len(order) => Reached(i, n) = n + 1
<1>1. turn \in Nat \ {0} /\ next \in Nat /\ Len(order) \in Nat
  BY ProgramFacts DEF Types, TypeOK
<1>2. /\ Reached(i, n) \in Nat \ {0}
      /\ i = turn /\ next > 0 => Reached(i, n) = next
      /\ i < turn => Reached(i, n) = n + 1
      /\ turn > Len(order) => Reached(i, n) = n + 1
  BY <1>1 DEF Reached
<1>3. NextStatement /\ i # turn => Reached(i, n)' = Reached(i, n)
  BY <1>1 DEF Reached, NextStatement
<1>4. NextStatement /\ i = turn => Reached(i, n)' = next + 1
  BY <1>1 DEF Reached, NextStatement
<1>5. LeaveUnit /\ (i = turn => next = n + 1) => Reached(i, n)' = Reached(i, n)
  BY <1>1 DEF Reached, LeaveUnit
<1>6. UNCHANGED <<turn, next>> => Reached(i, n)' = Reached(i, n)
  BY DEF Reached
<1>8. ASSUME turn' = turn, next = 0, next' = 1 PROVE Reached(i, n)' = Reached(i, n)
  <2>1. ~ (next > 0) /\ next' > 0
    BY <1>8
  <2> QED  BY <1>8, <2>1 DEF Reached
<1>7. ASSUME turn' = 1, next' = 0 PROVE Reached(i, n)' = 1
  <2>1. ~ (i < turn') /\ ~ (next' > 0)
    BY <1>1, <1>7
  <2> QED  BY <2>1 DEF Reached
<1> QED  BY <1>2, <1>3, <1>4, <1>5, <1>6, <1>7, <1>8

LEMMA UnitIsOne ==
    ASSUME Types, turn <= Len(order), NEW i \in 1 .. Len(order)
    PROVE  /\ turn \in 1 .. Len(order) /\ order[i] \in Units /\ order[i] \in Compiled
           /\ Unit \in Compiled
           /\ order[i] = Unit <=> i = turn
<1>1. turn \in 1 .. Len(order) /\ order[i] \in Units
  BY ProgramFacts, ElementOfSeq
<1> QED  BY <1>1, OrderFacts, CompiledFacts DEF Types, Unit

\* The unit a pass is in, while it is in one.
LEMMA UnitFacts ==
    ASSUME Types, turn <= Len(order)
    PROVE  /\ turn \in Nat /\ next \in Nat /\ Len(order) \in Nat /\ turn \in 1 .. Len(order)
           /\ Unit \in Units /\ Unit \in Compiled /\ Len(Uses(Unit)) \in Nat
<1>1. turn \in Nat /\ turn # 0 /\ Len(order) \in Nat /\ Unit \in Units
  BY ProgramFacts
<1>2. turn \in 1 .. Len(order)
  BY <1>1
<1>3. Len(Uses(Unit)) \in Nat
  BY <1>1, ProgramFacts
<1>4. Unit \in Compiled
  BY <1>2, UnitIsOne
<1>5. next \in Nat
  BY DEF Types, TypeOK
<1> QED  BY <1>1, <1>2, <1>3, <1>4, <1>5

\* The names of the declarations before the k-th are those in the scope, and
\* the symbol found is the last declaration's.
EarlierDecls(u, n, k) == {j \in 1 .. k - 1 : Decls(u)[j].name = n}

LEMMA MirroredNames ==
    ASSUME Types, NEW u \in Units, NEW k \in 1 .. Len(Decls(u)), Mirrors(u, k), NEW n
    PROVE  LET E == EarlierDecls(u, n, k)
           IN  /\ InScope(scope[u], n) <=> E # {}
               /\ InScope(scope[u], n) => Lookup(scope[u], n).kind = Decls(u)[Max(E)].kind
<1> USE DEF EarlierDecls
<1> DEFINE S == scope[u]
           E == EarlierDecls(u, n, k)
<1>1. S \in Seq(Symbol) /\ Len(S) = k - 1 /\ k \in Nat
  BY ProgramFacts DEF Types, TypeOK, Mirrors
<1>2. \A j \in 1 .. k - 1 : /\ k - j \in 1 .. k - 1
                            /\ S[j].name = Decls(u)[k - j].name
                            /\ S[j].kind = Decls(u)[k - j].kind
  BY <1>1 DEF Mirrors, StandsFor
<1>3. \A y \in E : k - y \in 1 .. k - 1 /\ S[k - y].name = n
  <2> TAKE y \in E
  <2>1. k - y \in 1 .. k - 1 /\ k - (k - y) = y
    BY <1>1
  <2> QED  BY <1>2, <2>1
<1> HIDE DEF S
<1>4. ASSUME InScope(S, n) PROVE E # {} /\ Lookup(S, n).kind = Decls(u)[Max(E)].kind
  <2>1. PICK i \in 1 .. Len(S) : /\ Lookup(S, n) = S[i] /\ S[i].name = n
                                 /\ \A j \in 1 .. i - 1 : S[j].name # n
    BY <1>1, <1>4, LookupFacts
  <2>2. k - i \in E
    BY <1>1, <1>2, <2>1
  <2>3. ASSUME NEW y \in E PROVE k - i >= y
    <3>1. k - y \notin 1 .. i - 1
      BY <1>3, <2>1
    <3> QED  BY <1>1, <1>3, <3>1
  <2>4. Max(E) = k - i
    <3>1. \A x \in E : (\A y \in E : x >= y) => x = k - i
      BY <1>1, <2>2, <2>3
    <3> QED  BY <2>2, <2>3, <3>1 DEF Max
  <2> QED  BY <1>1, <1>2, <2>1, <2>2, <2>4
<1>5. ASSUME NEW y \in E PROVE InScope(S, n)
  BY <1>1, <1>3 DEF InScope
<1> QED  BY <1>4, <1>5 DEF S

\* What pass A accepts is what the source says is acceptable.
LEMMA CanDeclareAccepted ==
    ASSUME Types, NEW u \in Units, NEW k \in 1 .. Len(Decls(u)), Mirrors(u, k)
    PROVE  CanDeclare(u, Decls(u)[k]) <=> DeclAccepted(u, k)
<1> DEFINE E(n) == EarlierDecls(u, n, k)
<1>1. \A n : /\ InScope(scope[u], n) <=> E(n) # {}
             /\ InScope(scope[u], n) => Lookup(scope[u], n).kind = Decls(u)[Max(E(n))].kind
  BY MirroredNames
<1>2. DeclAccepted(u, k) <=>
          IF Decls(u)[k].kind = "method"
          THEN E(Decls(u)[k].owner) # {} /\ Decls(u)[Max(E(Decls(u)[k].owner))].kind = "type"
          ELSE E(Decls(u)[k].name) = {}
  BY DEF DeclAccepted, EarlierDecls
<1> HIDE DEF E
<1> QED  BY <1>1, <1>2 DEF CanDeclare

LEMMA MirrorsNext ==
    ASSUME Types, NEW u \in Units, next \in 1 .. Len(Decls(u)), Mirrors(u, next),
           UNCHANGED program, AddToScope(u, Declared(u, Decls(u)[next]))
    PROVE  \A k : k = next + 1 => Mirrors(u, k)'
<1> DEFINE d == Decls(u)[next]
           s == Declared(u, d)
<1>1. d \in Decl /\ next \in Nat
  BY DeclFacts DEF Types, TypeOK
<1>2. /\ s \in Symbol /\ StandsFor(u, s, next)
  BY <1>1, DeclaredFacts DEF StandsFor
<1>3. scope[u] \in Seq(Symbol) /\ Len(scope[u]) = next - 1
      /\ \A j \in 1 .. next - 1 : StandsFor(u, scope[u][j], next - j)
  BY DEF Types, TypeOK, Mirrors
<1>4. scope'[u] = <<s>> \o scope[u]
  BY <1>2, AddFacts
<1> HIDE DEF s
<1>5. /\ Len(scope'[u]) = next /\ scope'[u][1] = s
      /\ \A j \in 1 .. next - 1 : scope'[u][j + 1] = scope[u][j]
  BY <1>1, <1>2, <1>3, <1>4, ConsFacts
<1>6. ASSUME NEW j \in 1 .. next PROVE StandsFor(u, scope'[u][j], (next + 1) - j)
  <2>1. CASE j = 1
    BY <1>1, <1>2, <1>5, <2>1
  <2>2. CASE j # 1
    <3>1. j - 1 \in 1 .. next - 1 /\ (j - 1) + 1 = j /\ next - (j - 1) = (next + 1) - j
      BY <1>1, <2>2
    <3>2. scope'[u][j] = scope[u][j - 1] /\ StandsFor(u, scope[u][j - 1], next - (j - 1))
      BY <1>3, <1>5, <3>1
    <3> QED  BY <3>1, <3>2
  <2> QED  BY <2>1, <2>2
<1>7. \A t, l : StandsFor(u, t, l)' <=> StandsFor(u, t, l)
  BY ProgramStable
<1>8. (next + 1) - 1 = next
  BY <1>1
<1> QED  BY <1>5, <1>6, <1>7, <1>8 DEF Mirrors

Established ==
    /\ Bounds /\ Declaring /\ HaveDeclared /\ Resolving /\ HaveResolved
    /\ Analysing /\ Failing /\ Reporting /\ Linking /\ Deciding

Analysis == TypesAndSymbols /\ Established

\* Before the last phase ends, no step changes what is to be linked.
LEMMA LinkingStable ==
    ASSUME Linking, UNCHANGED <<program, order, linking>>,
           UNCHANGED phase \/ (phase # "queue" /\ phase' # "queue")
    PROVE  Linking'
<1>1. Compiled' = Compiled /\ \A u : Decls(u)' = Decls(u) /\ Uses(u)' = Uses(u)
  BY DEF Compiled, Decls, Uses
<1>2. (phase' = "queue") <=> (phase = "queue")
  OBVIOUS
<1> QED  BY <1>1, <1>2 DEF Linking

\* After a failure only the bounds and what the failure says are left to show.
LEMMA FailStep ==
    ASSUME Analysis, phase \in {"declarations", "imports"}, verdict = "none",
           UNCHANGED <<program, order, phase, linking, verdict>>,
           success' = FALSE, success => \E u \in Compiled : ~ Acceptable(u),
           HaveDeclared'
    PROVE  /\ Declaring' /\ Resolving' /\ HaveResolved' /\ Analysing'
           /\ Failing' /\ Reporting' /\ Linking' /\ Deciding'
<1>1. Declaring' /\ Resolving' /\ HaveResolved' /\ Analysing' /\ Reporting'
  BY DEF Declaring, Resolving, HaveResolved, Analysing, Reporting
<1>2. Failing'
  <2>1. \E u \in Compiled : ~ Acceptable(u)
    BY DEF Analysis, Established, Failing
  <2>2. Compiled' = Compiled /\ \A u : Acceptable(u)' <=> Acceptable(u)
    BY ProgramStable DEF Compiled
  <2> QED  BY <2>1, <2>2 DEF Failing
<1>3. Linking'
  BY LinkingStable DEF Analysis, Established
<1>4. Deciding'
  BY DEF Deciding
<1> QED  BY <1>1, <1>2, <1>3, <1>4

LEMMA DeclareStep ==
    ASSUME Analysis, Declare
    PROVE  Established'
<1>1. /\ phase = "declarations" /\ verdict = "none"
      /\ turn <= Len(order) /\ next > 0 /\ next <= Len(Decls(Unit)) /\ NextStatement
      /\ UNCHANGED <<program, order, phase, linking, verdict>>
  BY DEF Declare, Active
<1>2. Types
  BY DEF Analysis, Established, TypesAndSymbols
<1>3. /\ Unit \in Units /\ next \in Nat /\ next \in 1 .. Len(Decls(Unit))
      /\ Len(Decls(Unit)) \in Nat /\ Len(order) \in Nat /\ turn \in Nat
  BY <1>1, <1>2, ProgramFacts DEF Types, TypeOK
<1>4. Unit' = Unit /\ Decls(Unit)' = Decls(Unit) /\ turn' = turn /\ next' = next + 1
  BY <1>1 DEF Unit, Decls, NextStatement
<1>5. Bounds'
  BY <1>1, <1>3, <1>4 DEF Bounds
<1>6. HaveDeclared'
  BY <1>1 DEF HaveDeclared
<1>7. CASE /\ CanDeclare(Unit, Decls(Unit)[next])
           /\ AddToScope(Unit, Declared(Unit, Decls(Unit)[next]))
           /\ UNCHANGED <<success, errors>>
  <2>1. Resolving' /\ HaveResolved' /\ Analysing' /\ Linking' /\ Deciding'
    BY <1>1, LinkingStable DEF Resolving, HaveResolved, Analysing, Deciding, Analysis, Established
  <2>2. Compiled' = Compiled /\ \A u : Acceptable(u)' <=> Acceptable(u)
    BY <1>1, ProgramStable DEF Compiled
  <2>3. Failing' /\ Reporting'
    BY <1>1, <1>7, <2>2 DEF Analysis, Established, Failing, Reporting
  <2>4. Declaring'
    <3> SUFFICES ASSUME success', NEW i \in 1 .. Len(order), NEW u, u = order[i],
                        NEW k, k = Reached(i, Len(Decls(u)))'
                 PROVE  Mirrors(u, k)' /\ \A j \in 1 .. k - 1 : DeclAccepted(u, j)'
      BY <1>1 DEF Declaring
    <3>1. u \in Units /\ Len(Decls(u)) \in Nat /\ (u = Unit <=> i = turn)
      BY <1>1, <1>2, UnitIsOne, ProgramFacts
    <3> DEFINE old == Reached(i, Len(Decls(u)))
    <3>2. Mirrors(u, old) /\ \A j \in 1 .. old - 1 : DeclAccepted(u, j)
      BY <1>1, <1>7 DEF Analysis, Established, Declaring
    <3>3. /\ old \in Nat /\ (i = turn => old = next /\ k = next + 1) /\ (i # turn => k = old)
      <4>1. Len(Decls(u))' = Len(Decls(u))
        BY <1>1, ProgramStable
      <4> QED  BY <1>1, <1>2, <3>1, <4>1, ReachedFacts
    <3> HIDE DEF old
    <3>4. CASE i # turn
      <4>1. scope'[u] = scope[u]
        <5>1. Declared(Unit, Decls(Unit)[next]) \in Symbol
          BY <1>2, <1>3, DeclaredFacts, DeclFacts
        <5> QED  BY <1>2, <1>3, <1>7, <3>1, <3>4, <5>1, AddFacts
      <4> QED  BY <1>1, <3>2, <3>3, <3>4, <4>1, ScopeStable, ProgramStable
    <3>5. CASE i = turn
      <4>1. u = Unit /\ k = next + 1
        BY <3>1, <3>3, <3>5
      <4>2. Mirrors(u, next) /\ \A j \in 1 .. next - 1 : DeclAccepted(u, j)
        BY <3>2, <3>3, <3>5
      <4>3. Mirrors(u, k)'
        BY <1>1, <1>2, <1>3, <1>7, <4>1, <4>2, MirrorsNext
      <4>4. DeclAccepted(u, next)
        BY <1>2, <1>3, <1>7, <4>1, <4>2, CanDeclareAccepted
      <4>5. \A j \in 1 .. k - 1 : j = next \/ j \in 1 .. next - 1
        BY <1>3, <4>1
      <4> QED  BY <1>1, <4>2, <4>3, <4>4, <4>5, ProgramStable
    <3> QED  BY <3>4, <3>5
  <2> QED  BY <1>5, <1>6, <2>1, <2>3, <2>4 DEF Established
<1>8. CASE ~ CanDeclare(Unit, Decls(Unit)[next]) /\ Fail("declarations", next)
  <2>1. ASSUME success PROVE \E u \in Compiled : ~ Acceptable(u)
    <3>1. turn \in 1 .. Len(order) /\ Unit \in Compiled
      BY <1>1, <1>2, <1>3, UnitIsOne, ProgramFacts
    <3>2. Mirrors(Unit, next)
      <4>1. Reached(turn, Len(Decls(Unit))) = next
        BY <1>1, <1>2, <1>3, <3>1, ReachedFacts
      <4> QED  BY <1>1, <2>1, <3>1, <4>1 DEF Analysis, Established, Declaring, Unit
    <3>3. ~ DeclAccepted(Unit, next)
      BY <1>2, <1>3, <1>8, <3>2, CanDeclareAccepted
    <3> QED  BY <1>3, <3>1, <3>3 DEF Acceptable
  <2> QED  BY <1>1, <1>5, <1>6, <1>8, <2>1, FailStep DEF Fail, Established
<1> QED  BY <1>7, <1>8 DEF Declare
------------------------------------------------------------------------------
(* The imports *)

\* Resolving is preserved when the unit under way keeps its part of it.
LEMMA ResolvingStep ==
    ASSUME Analysis, phase = "imports", turn <= Len(order), next > 0, success' => success,
           UNCHANGED <<program, order, phase>>,
           NEW u, u = Unit, \A v \in Units : v # u => scope'[v] = scope[v],
           UNCHANGED <<turn, next>> \/ NextStatement,
           importing' => UNCHANGED <<turn, next>>,
           NEW k, k = next',
           success' => IF importing' THEN Underway(u, k)' ELSE ResolvedTo(u, k)'
    PROVE  Resolving'
<1>1. Types
  BY DEF Analysis, Established, TypesAndSymbols
<1> SUFFICES ASSUME success', NEW i \in 1 .. Len(order), NEW v, v = order[i],
                    NEW l, l = Reached(i, Len(Uses(v)))'
             PROVE  IF importing' /\ i = turn THEN Underway(v, l)' ELSE ResolvedTo(v, l)'
  <2>1. turn' = turn
    BY DEF NextStatement
  <2> QED  BY <2>1 DEF Resolving
<1>2. v \in Units /\ Len(Uses(v)) \in Nat /\ (v = u <=> i = turn)
  BY <1>1, UnitIsOne, ProgramFacts
<1>3. Uses(v)' = Uses(v)
  BY ProgramStable
<1>4. CASE i = turn
  <2>1. l = k
    <3>1. CASE UNCHANGED <<turn, next>>
      BY <1>1, <1>2, <1>3, <1>4, <3>1, ReachedFacts
    <3>2. CASE NextStatement
      BY <1>1, <1>2, <1>3, <1>4, <3>2, ReachedFacts DEF NextStatement
    <3> QED  BY <3>1, <3>2
  <2> QED  BY <1>2, <1>4, <2>1
<1>5. CASE i # turn
  <2>1. l = Reached(i, Len(Uses(v)))
    BY <1>1, <1>2, <1>3, <1>5, ReachedFacts
  <2>2. ResolvedTo(v, l)
    BY <1>5, <2>1 DEF Analysis, Established, Resolving
  <2> QED  BY <1>2, <1>5, <2>2, ScopeStable
<1> QED  BY <1>4, <1>5

\* A name is in the scope when the source has one for it.
LEMMA ScopeHasSource ==
    ASSUME NEW u, NEW k, Sound(u, k), Complete(u, k), NEW n \in Names
    PROVE  InScope(scope[u], n) <=> Source(u, n, k) # {}
  BY DEF Sound, Complete, InScope

\* The source of a name that has one stays.
LEMMA SoundNext ==
    ASSUME NEW u, NEW k \in Nat \ {0}, Sound(u, k)
    PROVE  Sound(u, k + 1)
<1> SUFFICES ASSUME NEW j \in 1 .. Len(scope[u])
             PROVE  Source(u, scope[u][j].name, k + 1) = {Meaning(u, scope[u][j])}
  BY DEF Sound
<1>1. Source(u, scope[u][j].name, k) = {Meaning(u, scope[u][j])}
  BY DEF Sound
<1>2. Source(u, scope[u][j].name, k) # {}
  BY <1>1
<1> QED  BY <1>1, <1>2, NextSource

\* Imports and namespaces leave what pass A has put into the scopes.
LEMMA AddDeclared ==
    ASSUME Types, NEW u \in Units, NEW s \in Symbol, AddToScope(u, s), s.from # None,
           AllDeclared(u), UNCHANGED program
    PROVE  AllDeclared(u)'
<1> DEFINE S == scope[u]
           T == scope'[u]
<1>1. /\ S \in Seq(Symbol) /\ Len(S) \in Nat /\ T = <<s>> \o S
  BY AddFacts DEF Types, TypeOK
<1>2. /\ \A i \in 1 .. Len(T) : i \in Nat
      /\ T[1] = s /\ \A i \in 1 .. Len(T) : i = 1 \/ (i - 1 \in 1 .. Len(S) /\ T[i] = S[i - 1])
  BY <1>1, ConsFacts
<1>3. \A j \in 1 .. Len(S) : \E i \in 1 .. Len(T) : T[i] = S[j]
  BY AddFacts
<1>4. \A i, j \in 1 .. Len(S) :
         S[i].from = None /\ S[j].from = None /\ S[i].origin = S[j].origin => i = j
  BY DEF AllDeclared
<1>5. ASSUME NEW i \in 1 .. Len(Decls(u)) PROVE \E j \in 1 .. Len(T) : StandsFor(u, T[j], i)
  <2>1. PICK j \in 1 .. Len(S) : StandsFor(u, S[j], i)
    BY DEF AllDeclared
  <2> QED  BY <1>3, <2>1
<1> HIDE DEF S, T
<1>6. ASSUME NEW i \in 1 .. Len(T), NEW j \in 1 .. Len(T),
             T[i].from = None, T[j].from = None, T[i].origin = T[j].origin
      PROVE  i = j
  <2>1. i # 1 /\ j # 1
    BY <1>2, <1>6
  <2>2. i - 1 = j - 1
    BY <1>2, <1>4, <1>6, <2>1
  <2> QED  BY <1>2, <2>2
<1> QED  BY <1>5, <1>6, ProgramStable DEF AllDeclared, T

\* A name that is not in the scope gets a symbol from another unit.
LEMMA AddSingle ==
    ASSUME Types, NEW u \in Units, NEW s \in Symbol, AddToScope(u, s),
           ~ InScope(scope[u], s.name), Single(u)
    PROVE  Single(u)'
<1> DEFINE S == scope[u]
           T == scope'[u]
<1>1. /\ S \in Seq(Symbol) /\ Len(S) \in Nat /\ T = <<s>> \o S
  BY AddFacts DEF Types, TypeOK
<1>2. /\ \A i \in 1 .. Len(T) : i \in Nat
      /\ T[1] = s /\ \A i \in 1 .. Len(T) : i = 1 \/ (i - 1 \in 1 .. Len(S) /\ T[i] = S[i - 1])
  BY <1>1, ConsFacts
<1>3. \A i \in 1 .. Len(S) : S[i].name # s.name
  BY DEF InScope
<1>4. \A i, j \in 1 .. Len(S) : S[i].name = S[j].name /\ S[i].from # None => i = j
  BY DEF Single
<1> HIDE DEF S, T
<1>5. ASSUME NEW i \in 1 .. Len(T), NEW j \in 1 .. Len(T),
             T[i].name = T[j].name, T[i].from # None
      PROVE  i = j
  <2>1. CASE i = 1 \/ j = 1
    BY <1>2, <1>3, <1>5, <2>1
  <2>2. CASE i # 1 /\ j # 1
    <3>0. /\ i - 1 \in 1 .. Len(S) /\ T[i] = S[i - 1]
          /\ j - 1 \in 1 .. Len(S) /\ T[j] = S[j - 1]
      BY <1>2, <1>5, <2>2
    <3>1. i - 1 = j - 1
      BY <1>4, <1>5, <3>0
    <3> QED  BY <1>2, <3>1
  <2> QED  BY <2>1, <2>2
<1> QED  BY <1>5 DEF Single, T

\* The namespace of an alias takes a name that no earlier statement provides.
LEMMA NamespaceUnderway ==
    ASSUME Types, Symbols, NEW u \in Units, NEW k \in 1 .. Len(Uses(u)), ResolvedTo(u, k),
           UNCHANGED program, k = next,
           Uses(u)[k].alias \in Names, ~ InScope(scope[u], Uses(u)[k].alias),
           AddToScope(u, Namespace(u, Uses(u)[k]))
    PROVE  Underway(u, k)'
<1> DEFINE use == Uses(u)[k]
           s == Namespace(u, use)
<1>1. /\ use \in Use /\ use.module \in Modules /\ use.module # None /\ use.alias # None
      /\ k \in Nat \ {0} /\ next \in Nat
  <2>1. Len(Uses(u)) \in Nat
    BY ProgramFacts
  <2>2. k \in Nat \ {0}
    BY <2>1
  <2>3. use \in Use /\ use.module \in Modules
    BY UseFacts
  <2>4. use.module # None /\ use.alias # None
    BY <2>3, NamesAssumption DEF Units
  <2> QED  BY <2>2, <2>3, <2>4
<1>2. /\ s \in Symbol /\ s.name = use.alias /\ s.kind = "namespace" /\ s.from = use.module
  BY <1>1, NamespaceFacts
<1>3. Sound(u, k) /\ Complete(u, k) /\ Single(u) /\ \A j \in 1 .. k - 1 : UseAccepted(u, j)
  BY DEF ResolvedTo
<1>4. Source(u, use.alias, k) = {}
  BY <1>3, ScopeHasSource
<1>5. UseAccepted(u, k)
  BY <1>1, <1>4 DEF UseAccepted
<1>6. Single(u)'
  BY <1>2, <1>3, AddSingle
<1>7. Sound(u, k + 1)
  BY <1>1, <1>3, SoundNext
<1>8. Source(u, use.alias, k + 1) = {Meaning(u, s)}
  <2>1. Provides(use, use.alias)
    BY DEF Provides
  <2> QED  BY <1>1, <1>2, <1>4, <2>1, NextSource DEF Meaning
<1> HIDE DEF s
<1>9. Sound(u, k + 1)'
  <2>1. ASSUME NEW j \in 1 .. Len(scope'[u])
        PROVE  Source(u, scope'[u][j].name, k + 1) = {Meaning(u, scope'[u][j])}
    <3>1. scope'[u][j] = s \/ \E i \in 1 .. Len(scope[u]) : scope'[u][j] = scope[u][i]
      BY <1>2, AddFacts DEF s
    <3> QED  BY <1>2, <1>7, <1>8, <3>1 DEF Sound
  <2>2. \A n, t : Source(u, n, k + 1)' = Source(u, n, k + 1) /\ Meaning(u, t)' = Meaning(u, t)
    BY ProgramStable DEF Meaning
  <2> QED  BY <2>1, <2>2 DEF Sound
<1>10. Complete(u, k + 1)'
  <2>1. ASSUME NEW n \in Names, Source(u, n, k + 1) # {} PROVE InScope(scope'[u], n)
    <3>1. Source(u, n, k) # {} \/ Provides(use, n)
      BY <1>1, <2>1, NextSource
    <3>2. CASE Source(u, n, k) # {}
      <4>1. PICK i \in 1 .. Len(scope[u]) : scope[u][i].name = n
        BY <1>3, <3>2 DEF Complete, InScope
      <4>2. \E j \in 1 .. Len(scope'[u]) : scope'[u][j] = scope[u][i]
        BY <1>2, AddFacts DEF s
      <4> QED  BY <4>1, <4>2 DEF InScope
    <3>3. CASE Provides(use, n)
      <4>1. n = use.alias
        BY <1>1, <3>3 DEF Provides
      <4>2. \E j \in 1 .. Len(scope'[u]) : scope'[u][j] = s
        BY <1>2, AddFacts DEF s
      <4> QED  BY <1>2, <4>1, <4>2 DEF InScope
    <3> QED  BY <3>1, <3>2, <3>3
  <2>2. \A n : Source(u, n, k + 1)' = Source(u, n, k + 1)
    BY ProgramStable
  <2> QED  BY <2>1, <2>2 DEF Complete
<1>11. UseAccepted(u, k)' /\ Uses(u)'[k].alias # None /\ \A j \in 1 .. k - 1 : UseAccepted(u, j)'
  BY <1>1, <1>3, <1>5, ProgramStable
<1> QED  BY <1>6, <1>9, <1>10, <1>11 DEF Underway, Midway

\* A use without an alias starts from the symbols of a module whose
\* declarations are all in its scope.
LEMMA PlainUnderway ==
    ASSUME Types, NEW u \in Units, NEW k \in 1 .. Len(Uses(u)), ResolvedTo(u, k),
           UNCHANGED program, Uses(u)[k].alias = None,
           NEW m, m = Uses(u)[k].module, AllDeclared(m),
           scope'[u] = scope[u], pending' = scope[m]
    PROVE  Underway(u, k)'
<1>1. /\ m \in Modules /\ m \in Units /\ k \in Nat \ {0}
      /\ \A i \in 1 .. Len(Decls(m)) : Decls(m)[i] \in Decl
  <2>1. Len(Uses(u)) \in Nat
    BY ProgramFacts
  <2>2. m \in Modules /\ m \in Units
    BY UseFacts DEF Units
  <2>3. \A i \in 1 .. Len(Decls(m)) : Decls(m)[i] \in Decl
    BY <2>2, DeclFacts
  <2> QED  BY <2>1, <2>2, <2>3
<1>2. Sound(u, k) /\ Complete(u, k) /\ Single(u) /\ \A j \in 1 .. k - 1 : UseAccepted(u, j)
  BY DEF ResolvedTo
<1>3. Sound(u, k + 1)' /\ Complete(u, k)' /\ Single(u)'
  BY <1>1, <1>2, SoundNext, ScopeStable
<1>4. PendingDiffer'
  <2>1. \A i, j \in 1 .. Len(scope[m]) :
            scope[m][i].from = None /\ scope[m][j].from = None
            /\ scope[m][i].origin = scope[m][j].origin => i = j
    BY DEF AllDeclared
  <2> QED  BY <2>1 DEF PendingDiffer, Exported
<1>5. PendingFresh(u, m, k)'
  <2>1. \A j \in 1 .. Len(scope[u]) : Source(u, scope[u][j].name, k) # {}
    BY <1>2 DEF Sound
  <2>2. \A n : Source(u, n, k)' = Source(u, n, k)
    BY ProgramStable
  <2> QED  BY <2>1, <2>2 DEF PendingFresh
<1>6. NoneLost(u, m, k)'
  <2>1. ASSUME NEW n \in Names, NEW i \in Exporters(m, n) PROVE StillPending(m, i)'
    <3>1. i \in 1 .. Len(Decls(m)) /\ Decls(m)[i].public
      BY <2>1 DEF Exporters, ExportDecls
    <3>2. PICK p \in 1 .. Len(scope[m]) : StandsFor(m, scope[m][p], i)
      BY <3>1 DEF AllDeclared
    <3>3. Exported(scope[m][p])
      <4>1. Decls(m)[i].kind # "namespace"
        BY <1>1, <3>1 DEF Decl
      <4> QED  BY <3>1, <3>2, <4>1 DEF StandsFor, Exported
    <3>4. \A t : StandsFor(m, t, i)' <=> StandsFor(m, t, i)
      BY ProgramStable
    <3> QED  BY <3>2, <3>3, <3>4 DEF StillPending, Exported
  <2>2. \A n : Exporters(m, n)' = Exporters(m, n)
    BY ProgramStable
  <2> QED  BY <2>1, <2>2 DEF NoneLost
<1>7. Uses(u)' = Uses(u) /\ \A j \in 1 .. k - 1 : UseAccepted(u, j)'
  BY <1>2, ProgramStable
<1> QED  BY <1>3, <1>4, <1>5, <1>6, <1>7 DEF Underway, Midway

LEMMA BeginUseStep ==
    ASSUME Analysis, BeginUse
    PROVE  Established'
<1>1. /\ phase = "imports" /\ verdict = "none" /\ ~ importing
      /\ turn <= Len(order) /\ next > 0 /\ next <= Len(Uses(Unit))
      /\ UNCHANGED <<program, order, phase, linking, verdict>>
  BY DEF BeginUse, Active
<1>2. Types /\ Symbols
  BY DEF Analysis, Established, TypesAndSymbols
<1>3. /\ Unit \in Units /\ next \in Nat /\ next \in 1 .. Len(Uses(Unit))
      /\ Len(Uses(Unit)) \in Nat /\ Len(order) \in Nat /\ turn \in Nat
      /\ turn \in 1 .. Len(order) /\ Unit \in Compiled
  BY <1>1, <1>2, UnitFacts
<1> DEFINE use == Uses(Unit)[next]
<1>4. use \in Use /\ use.module \in Modules /\ use.module \in Compiled /\ use.module # None
  BY <1>2, <1>3, UseFacts, CompiledFacts, NamesAssumption DEF Units
<1>5. ASSUME success PROVE ResolvedTo(Unit, next)
  <2>1. Reached(turn, Len(Uses(Unit))) = next
    BY <1>1, <1>2, <1>3, ReachedFacts
  <2> QED  BY <1>1, <1>3, <1>5, <2>1 DEF Analysis, Established, Resolving, Unit
<1>6. Unit' = Unit /\ Uses(Unit)' = Uses(Unit)
      /\ (UNCHANGED <<turn, next>> \/ NextStatement => Bounds')
  <2>1. UNCHANGED <<turn, next>> \/ NextStatement => Unit' = Unit /\ Uses(Unit)' = Uses(Unit)
    BY <1>1 DEF Unit, Uses, NextStatement
  <2>2. UNCHANGED <<turn, next>> \/ NextStatement
    BY DEF BeginUse
  <2>3. Unit' = Unit /\ Uses(Unit)' = Uses(Unit)
    BY <2>1, <2>2
  <2> QED  BY <1>1, <1>3, <2>2, <2>3 DEF Bounds, NextStatement
<1>7. \A v \in Units : AllDeclared(v) /\ scope'[v] = scope[v] => AllDeclared(v)'
  BY <1>1, ScopeStable
<1>8. CASE /\ use.alias \in Names /\ InScope(scope[Unit], use.alias)
           /\ Fail("imports", next) /\ NextStatement /\ UNCHANGED scope
  <2>1. ASSUME success PROVE \E u \in Compiled : ~ Acceptable(u)
    <3>1. Source(Unit, use.alias, next) # {}
      BY <1>5, <1>8, <2>1, ScopeHasSource DEF ResolvedTo
    <3>2. use.alias # None
      BY <1>8, NamesAssumption
    <3>3. ~ UseAccepted(Unit, next)
      BY <3>1, <3>2 DEF UseAccepted
    <3> QED  BY <1>3, <3>3 DEF Acceptable
  <2>2. HaveDeclared'
    BY <1>1, <1>2, <1>7, <1>8, CompiledFacts DEF HaveDeclared, Analysis, Established, Compiled
  <2> QED  BY <1>1, <1>6, <1>8, <2>1, <2>2, FailStep DEF Fail, Established
<1>9. ASSUME UNCHANGED <<success, errors, turn, next>>, HaveDeclared', Resolving'
      PROVE  Established'
  <2>1. Declaring' /\ HaveResolved' /\ Analysing' /\ Linking' /\ Deciding'
    BY <1>1, <1>9, LinkingStable
       DEF Declaring, HaveResolved, Analysing, Deciding, Analysis, Established
  <2>2. Compiled' = Compiled /\ \A u : Acceptable(u)' <=> Acceptable(u)
    BY <1>1, ProgramStable DEF Compiled
  <2>3. Failing' /\ Reporting'
    BY <1>1, <1>9, <2>2 DEF Analysis, Established, Failing, Reporting
  <2> QED  BY <1>6, <1>9, <2>1, <2>3 DEF Established
<1>10. CASE /\ use.alias \in Names /\ ~ InScope(scope[Unit], use.alias)
            /\ AddToScope(Unit, Namespace(Unit, use)) /\ importing' = TRUE
            /\ UNCHANGED <<success, errors, turn, next>>
  <2>1. /\ Namespace(Unit, use) \in Symbol /\ Namespace(Unit, use).from # None
    BY <1>3, <1>4, <1>10, NamespaceFacts
  <2>2. \A v \in Units : v # Unit => scope'[v] = scope[v]
    BY <1>2, <1>3, <1>10, <2>1, AddFacts
  <2>3. HaveDeclared'
    <3>1. ASSUME NEW v \in Compiled PROVE AllDeclared(v)'
      <4>1. AllDeclared(v) /\ v \in Units
        BY <1>1, <1>2, CompiledFacts DEF Analysis, Established, HaveDeclared
      <4>2. CASE v = Unit
        BY <1>1, <1>2, <1>10, <2>1, <4>1, <4>2, AddDeclared
      <4> QED  BY <1>7, <2>2, <4>1, <4>2
    <3> QED  BY <1>1, <3>1 DEF HaveDeclared, Compiled
  <2>4. ASSUME success PROVE \A u, k : u = Unit /\ k = next => Underway(u, k)'
    BY <1>1, <1>2, <1>3, <1>5, <1>10, <2>4, NamespaceUnderway
  <2>5. Resolving'
    BY <1>1, <1>10, <2>2, <2>4, ResolvingStep
  <2> QED  BY <1>9, <1>10, <2>3, <2>5
<1>11. CASE /\ use.alias = None /\ importing' = TRUE /\ pending' = scope[use.module]
            /\ UNCHANGED <<success, errors, scope, turn, next>>
  <2>1. HaveDeclared'
    BY <1>1, <1>2, <1>7, <1>11, CompiledFacts DEF HaveDeclared, Analysis, Established, Compiled
  <2>2. AllDeclared(use.module)
    BY <1>1, <1>4 DEF HaveDeclared, Analysis, Established
  <2>3. ASSUME success PROVE \A u, k : u = Unit /\ k = next => Underway(u, k)'
    BY <1>1, <1>2, <1>3, <1>5, <1>11, <2>2, <2>3, PlainUnderway
  <2>4. Resolving'
    BY <1>1, <1>11, <2>3, ResolvingStep
  <2> QED  BY <1>9, <1>11, <2>1, <2>4
<1> QED  BY <1>8, <1>10, <1>11 DEF BeginUse

LEMMA AtMostOne ==
    ASSUME NEW E, IsFiniteSet(E)
    PROVE  Cardinality(E) <= 1 <=> \A x, y \in E : x = y
<1>1. ASSUME NEW x \in E, NEW y \in E, x # y PROVE ~ (Cardinality(E) <= 1)
  <2>1. IsFiniteSet({x}) /\ Cardinality({x}) = 1
    BY FS_Singleton
  <2>2. IsFiniteSet({x} \cup {y}) /\ Cardinality({x} \cup {y}) = 2
    <3>1. IsFiniteSet({x} \cup {y})
      BY <2>1, FS_AddElement, Zenon
    <3>2. Cardinality({x} \cup {y}) = IF y \in {x} THEN Cardinality({x}) ELSE Cardinality({x}) + 1
      BY <2>1, FS_AddElement, Zenon
    <3> QED  BY <1>1, <2>1, <3>1, <3>2
  <2>3. Cardinality({x} \cup {y}) <= Cardinality(E)
    BY <2>2, FS_Subset
  <2>4. Cardinality(E) \in Nat
    BY FS_CardinalityType
  <2> QED  BY <2>2, <2>3, <2>4
<1>2. ASSUME \A x, y \in E : x = y PROVE Cardinality(E) <= 1
  <2>1. CASE E = {}
    BY <2>1, FS_EmptySet
  <2>2. CASE E # {}
    <3>1. PICK x : x \in E
      BY <2>2
    <3>2. E = {x}
      BY <1>2, <3>1
    <3> QED  BY <3>2, FS_Singleton
  <2> QED  BY <2>1, <2>2
<1> QED  BY <1>1, <1>2

LEMMA ExportersFinite ==
    ASSUME Types, NEW m \in Units, NEW n
    PROVE  /\ IsFiniteSet(Exporters(m, n))
           /\ \A i \in Exporters(m, n) : i \in 1 .. Len(Decls(m)) /\ Decls(m)[i].public
                                         /\ Decls(m)[i].name = n
<1>1. Len(Decls(m)) \in Nat
  BY ProgramFacts
<1>2. IsFiniteSet(1 .. Len(Decls(m)))
  BY <1>1, FS_Interval
<1>3. Exporters(m, n) \in SUBSET (1 .. Len(Decls(m)))
  BY DEF Exporters, ExportDecls
<1> QED  BY <1>2, <1>3, FS_Subset DEF Exporters, ExportDecls

\* The symbol that comes next in the loop over a module's symbols.
LEMMA PendingHead ==
    ASSUME Types, pending # << >>
    PROVE  /\ Head(pending) \in Symbol /\ 1 \in 1 .. Len(pending) /\ Head(pending) = pending[1]
           /\ Len(pending) \in Nat
           /\ \A p \in 1 .. Len(Tail(pending)) :
                p + 1 \in 1 .. Len(pending) /\ p + 1 # 1 /\ Tail(pending)[p] = pending[p + 1]
           /\ \A p \in 1 .. Len(pending) :
                p = 1 \/ (p - 1 \in 1 .. Len(Tail(pending)) /\ Tail(pending)[p - 1] = pending[p])
<1>1. pending \in Seq(Symbol)
  BY DEF Types, TypeOK
<1>2. /\ Head(pending) = pending[1] /\ Head(pending) \in Symbol /\ Len(pending) >= 1
      /\ Len(pending) \in Nat /\ Len(Tail(pending)) = Len(pending) - 1
      /\ \A p \in 1 .. Len(Tail(pending)) :
            p + 1 \in 1 .. Len(pending) /\ Tail(pending)[p] = pending[p + 1]
  BY <1>1, TailFacts
<1>3. ASSUME NEW p \in 1 .. Len(pending), p # 1
      PROVE  p - 1 \in 1 .. Len(Tail(pending)) /\ Tail(pending)[p - 1] = pending[p]
  <2>1. p - 1 \in 1 .. Len(Tail(pending)) /\ (p - 1) + 1 = p
    BY <1>2, <1>3
  <2> QED  BY <1>2, <2>1
<1> QED  BY <1>2, <1>3

LEMMA PendingTail ==
    ASSUME Types, pending # << >>, pending' = Tail(pending), UNCHANGED program
    PROVE  /\ PendingDiffer => PendingDiffer'
           /\ \A m, i : StillPending(m, i) =>
                StillPending(m, i)' \/ (Exported(Head(pending)) /\ StandsFor(m, Head(pending), i))
<1>1. /\ Head(pending) = pending[1]
      /\ \A p \in 1 .. Len(Tail(pending)) :
            p + 1 \in 1 .. Len(pending) /\ p + 1 # 1 /\ Tail(pending)[p] = pending[p + 1]
      /\ \A p \in 1 .. Len(pending) :
            p = 1 \/ (p - 1 \in 1 .. Len(Tail(pending)) /\ Tail(pending)[p - 1] = pending[p])
  BY PendingHead
<1>2. ASSUME PendingDiffer PROVE PendingDiffer'
  <2> SUFFICES ASSUME NEW p \in 1 .. Len(Tail(pending)), NEW q \in 1 .. Len(Tail(pending)),
                      Exported(Tail(pending)[p]), Exported(Tail(pending)[q]),
                      Tail(pending)[p].origin = Tail(pending)[q].origin
               PROVE  p = q
    BY DEF PendingDiffer, Exported
  <2>1. p + 1 = q + 1
    BY <1>1, <1>2 DEF PendingDiffer
  <2>2. Len(Tail(pending)) \in Nat
    <3>1. Tail(pending) \in Seq(Symbol)
      BY TailFacts DEF Types, TypeOK
    <3> QED  BY <3>1
  <2> QED  BY <2>1, <2>2
<1>3. ASSUME NEW m, NEW i, StillPending(m, i),
             ~ (Exported(Head(pending)) /\ StandsFor(m, Head(pending), i))
      PROVE  StillPending(m, i)'
  <2>1. PICK p \in 1 .. Len(pending) : Exported(pending[p]) /\ StandsFor(m, pending[p], i)
    BY <1>3 DEF StillPending
  <2>2. p - 1 \in 1 .. Len(Tail(pending)) /\ Tail(pending)[p - 1] = pending[p]
    BY <1>1, <1>3, <2>1
  <2>4. \A t : StandsFor(m, t, i)' <=> StandsFor(m, t, i)
    BY ProgramStable
  <2> QED  BY <2>1, <2>2, <2>4 DEF StillPending, Exported
<1> QED  BY <1>2, <1>3

\* An exported symbol in the middle of a use without an alias: the source has
\* the module as the provider of its name, if no earlier statement is one.
LEMMA ExportedNext ==
    ASSUME Types, Symbols, NEW u \in Units, NEW k \in 1 .. Len(Uses(u)), Underway(u, k),
           Uses(u)[k].alias = None, NEW m, m = Uses(u)[k].module,
           NEW symbol \in Symbol, Exported(symbol), SymbolOf(m, symbol)
    PROVE  /\ m \in Modules /\ m # None /\ m # u /\ k \in Nat \ {0}
           /\ \E i \in Exporters(m, symbol.name) : StandsFor(m, symbol, i)
           /\ Source(u, symbol.name, k) = {} =>
                Source(u, symbol.name, k + 1) = {<<m, None>>}
           /\ Source(u, symbol.name, k) # {} =>
                Source(u, symbol.name, k + 1) = Source(u, symbol.name, k)
           /\ Imported(symbol, m) \in Symbol /\ Imported(symbol, m).name = symbol.name
           /\ Imported(symbol, m).origin = symbol.origin /\ Imported(symbol, m).from = m
           /\ Meaning(u, Imported(symbol, m)) = <<m, None>>
<1>1. m \in Modules /\ m # None /\ m # u
  <2>1. m \in Modules
    BY UseFacts
  <2> QED  BY <2>1, CompiledFacts, NamesAssumption DEF Units
<1>2. k \in Nat \ {0}
  <2>1. Len(Uses(u)) \in Nat
    BY ProgramFacts
  <2> QED  BY <2>1
<1>3. OwnSymbol(m, symbol)
  BY ImportIsLegitimate
<1>4. PICK i \in 1 .. Len(Decls(m)) : StandsFor(m, symbol, i)
  BY <1>3 DEF OwnSymbol
<1>5. i \in Exporters(m, symbol.name)
  BY <1>4 DEF Exporters, ExportDecls, StandsFor, Exported
<1>6. Provides(Uses(u)[k], symbol.name)
  BY <1>5 DEF Provides
<1>7. /\ Imported(symbol, m) \in Symbol /\ Imported(symbol, m).name = symbol.name
      /\ Imported(symbol, m).origin = symbol.origin /\ Imported(symbol, m).from = m
      /\ Imported(symbol, m).kind # "namespace"
  BY <1>1, ImportedFacts DEF Exported
<1>8. Meaning(u, Imported(symbol, m)) = <<m, None>>
  BY <1>1, <1>7 DEF Meaning
<1> QED  BY <1>1, <1>2, <1>4, <1>5, <1>6, <1>7, <1>8, NextSource

\* The name is taken by a symbol of the same module: the source has it twice.
LEMMA RepeatedImport ==
    ASSUME Types, Symbols, Importing, NEW u \in Units, u = Unit, NEW k, k = next, importing,
           Underway(u, k), pending # << >>,
           Uses(u)[k].alias = None, NEW m, m = Uses(u)[k].module,
           NEW symbol, symbol = Head(pending), Exported(symbol),
           InScope(scope[u], symbol.name), Lookup(scope[u], symbol.name).from = m
    PROVE  ~ UseAccepted(u, k)
<1>1. k \in 1 .. Len(Uses(u)) /\ \A p \in 1 .. Len(pending) : SymbolOf(m, pending[p])
  BY DEF Importing
<1>2. symbol \in Symbol /\ 1 \in 1 .. Len(pending) /\ symbol = pending[1] /\ SymbolOf(m, symbol)
  BY <1>1, PendingHead
<1> DEFINE n == symbol.name
<1>3. /\ m \in Modules /\ m # None /\ m # u /\ k \in Nat \ {0} /\ n \in Names
      /\ Source(u, n, k) = {} => Source(u, n, k + 1) = {<<m, None>>}
      /\ Source(u, n, k) # {} => Source(u, n, k + 1) = Source(u, n, k)
  <2>1. n \in Names
    BY <1>2 DEF Symbol
  <2>2. m \in Modules /\ m # None /\ m # u /\ k \in Nat \ {0}
    BY <1>1, <1>2, ExportedNext
  <2>3. Source(u, n, k) = {} => Source(u, n, k + 1) = {<<m, None>>}
    BY <1>1, <1>2, ExportedNext
  <2>4. Source(u, n, k) # {} => Source(u, n, k + 1) = Source(u, n, k)
    BY <2>2, NextSource
  <2> QED  BY <2>1, <2>2, <2>3, <2>4
<1>4. PICK i \in Exporters(m, n) : StandsFor(m, symbol, i)
  BY <1>1, <1>2, ExportedNext
<1>5. scope[u] \in Seq(Symbol)
  BY DEF Types, TypeOK
<1>6. PICK j \in 1 .. Len(scope[u]) : scope[u][j].from = m /\ scope[u][j].name = n
  BY <1>5, LookupFacts
<1> DEFINE taker == scope[u][j]
<1>7. taker \in Symbol /\ SymbolOf(u, taker) /\ taker.from = m /\ taker.name = n
  BY <1>5, <1>6, ElementOfSeq DEF Symbols
<1>8. Source(u, n, k + 1) = {Meaning(u, taker)}
  BY <1>6 DEF Underway, Sound
<1>9. Meaning(u, taker)[1] = m
  BY <1>3, <1>7 DEF Meaning
<1> HIDE DEF n
<1>10. UseAccepted(u, k) => /\ \A s \in Source(u, n, k) : s[1] # m
                            /\ Source(u, n, k) = {} => Cardinality(Exporters(m, n)) <= 1
  BY <1>3, <1>4 DEF UseAccepted
<1>11. CASE Source(u, n, k) # {}
  BY <1>3, <1>8, <1>9, <1>10, <1>11
<1>12. CASE Source(u, n, k) = {}
  <2>1. Meaning(u, taker) = <<m, None>>
    BY <1>3, <1>8, <1>12
  <2>2. taker.kind # "namespace"
    BY <1>3, <1>7, <2>1, NamesAssumption DEF Meaning
  <2>3. Legitimate(u, taker, None)
    BY <1>3, <1>7, <2>2 DEF SymbolOf, OwnSymbol, NamespaceSymbol, ImportedSymbol
  <2>4. taker.origin[1] = m /\ taker.origin[2] \in Exporters(m, n)
    BY <1>7, <2>3 DEF Legitimate, Exporters
  <2>5. taker.origin = <<m, taker.origin[2]>>
    <3>1. taker.origin \in Units \X Nat
      BY <1>7 DEF Symbol
    <3> QED  BY <2>4, <3>1
  <2>6. taker.origin # symbol.origin
    BY <1>2, <1>6, <1>7, <1>12 DEF Underway, Midway, PendingFresh
  <2>7. symbol.origin = <<m, i>>
    BY <1>4 DEF StandsFor
  <2>8. taker.origin[2] # i
    BY <2>5, <2>6, <2>7
  <2>9. IsFiniteSet(Exporters(m, n))
    BY <1>3, ExportersFinite DEF Units
  <2> QED  BY <1>4, <1>10, <1>12, <2>4, <2>8, <2>9, AtMostOne
<1> QED  BY <1>11, <1>12

\* The loop goes on without a change to the scope: past a symbol that is not
\* exported, or one whose name an earlier statement provides, or (an alias)
\* into the members.
LEMMA PassedUnderway ==
    ASSUME Types, Symbols, Importing, NEW u \in Units, u = Unit, NEW k, k = next, importing,
           Underway(u, k), pending # << >>, pending' = Tail(pending),
           UNCHANGED program, scope'[u] = scope[u], NEW m, m = Uses(u)[k].module,
           NEW symbol, symbol = Head(pending),
           \/ ~ Exported(symbol)
           \/ Uses(u)[k].alias # None
           \/ InScope(scope[u], symbol.name)
              /\ Lookup(scope[u], symbol.name).from # m
    PROVE  Underway(u, k)'
<1>1. k \in 1 .. Len(Uses(u)) /\ \A p \in 1 .. Len(pending) : SymbolOf(m, pending[p])
  BY DEF Importing
<1>2. /\ Uses(u)' = Uses(u) /\ Sound(u, k + 1)' /\ Single(u)'
      /\ \A j \in 1 .. k - 1 : UseAccepted(u, j)'
      /\ \A l : Complete(u, l)' <=> Complete(u, l)
  BY ScopeStable, ProgramStable DEF Underway
<1>3. CASE Uses(u)[k].alias # None
  BY <1>2, <1>3, ProgramStable DEF Underway, Midway
<1>4. CASE Uses(u)[k].alias = None
  <2>1. /\ Complete(u, k) /\ PendingDiffer /\ PendingFresh(u, m, k) /\ NoneLost(u, m, k)
        /\ Sound(u, k + 1)
    BY <1>4 DEF Underway, Midway
  <2>2. symbol \in Symbol /\ 1 \in 1 .. Len(pending) /\ symbol = pending[1] /\ SymbolOf(m, symbol)
    BY <1>1, PendingHead
  <2>3. PendingDiffer'
    BY <2>1, PendingTail
  <2>4. \A n : Source(u, n, k)' = Source(u, n, k)
    BY ProgramStable
  <2>5. PendingFresh(u, m, k)'
    <3>1. \A p \in 1 .. Len(Tail(pending)) :
              p + 1 \in 1 .. Len(pending) /\ Tail(pending)[p] = pending[p + 1]
      BY PendingHead
    <3>2. ASSUME NEW j \in 1 .. Len(scope[u]), NEW p \in 1 .. Len(Tail(pending)),
                 scope[u][j].from = m, Source(u, scope[u][j].name, k) = {},
                 Exported(Tail(pending)[p])
          PROVE  scope[u][j].origin # Tail(pending)[p].origin
      BY <2>1, <3>1, <3>2 DEF PendingFresh
    <3> QED  BY <2>4, <3>2, SMTT(60) DEF PendingFresh, Exported
  <2>6. ASSUME Exported(symbol), NEW n, n = symbol.name PROVE LeftAlone(u, m, n, k)
    <3>1. InScope(scope[u], n) /\ Lookup(scope[u], n).from # m
      BY <1>4, <2>6
    <3>2. scope[u] \in Seq(Symbol)
      BY DEF Types, TypeOK
    <3>3. PICK j \in 1 .. Len(scope[u]) : scope[u][j].from # m /\ scope[u][j].name = n
      BY <3>1, <3>2, LookupFacts
    <3> DEFINE t == scope[u][j]
    <3>4. SymbolOf(u, t)
      BY <3>3 DEF Symbols
    <3>5. Source(u, n, k + 1) = {Meaning(u, t)}
      BY <2>1, <3>3 DEF Sound
    <3>6. /\ m # u /\ m # None /\ k \in Nat \ {0}
          /\ Source(u, n, k) = {} => Source(u, n, k + 1) = {<<m, None>>}
      <4>1. symbol \in Symbol /\ SymbolOf(m, symbol) /\ Exported(symbol) /\ k \in 1 .. Len(Uses(u))
        BY <1>1, <2>2, <2>6
      <4>2. /\ m # u /\ m # None /\ k \in Nat \ {0}
            /\ Source(u, symbol.name, k) = {} => Source(u, symbol.name, k + 1) = {<<m, None>>}
        BY <1>4, <4>1, ExportedNext, SMTT(30)
      <4> QED  BY <2>6, <4>2
    <3>7. Meaning(u, t)[1] # m
      BY <3>3, <3>6 DEF Meaning
    <3>8. Source(u, n, k) # {}
      <4>1. SUFFICES ASSUME Source(u, n, k) = {} PROVE FALSE
        OBVIOUS
      <4>2. Source(u, n, k + 1) = {<<m, None>>}
        BY <3>6, <4>1
      <4> QED  BY <3>5, <3>7, <4>2
    <3>9. Source(u, n, k) = {Meaning(u, t)}
      BY <3>5, <3>6, <3>8, NextSource
    <3> QED  BY <3>7, <3>8, <3>9 DEF LeftAlone
  <2>7. NoneLost(u, m, k)'
    <3>1. ASSUME NEW n \in Names, NEW i \in Exporters(m, n)
          PROVE  StillPending(m, i)' \/ LeftAlone(u, m, n, k) \/ TakenOver(u, m, n, i, k)
      <4>1. CASE Exported(symbol) /\ StandsFor(m, symbol, i)
        <5>1. n = symbol.name
          BY <3>1, <4>1 DEF StandsFor, Exporters
        <5> QED  BY <2>6, <4>1, <5>1
      <4>2. CASE StillPending(m, i) /\ ~ (Exported(symbol) /\ StandsFor(m, symbol, i))
        BY <4>2, PendingTail
      <4> QED  BY <2>1, <4>1, <4>2 DEF NoneLost
    <3>2. \A n, i : /\ LeftAlone(u, m, n, k)' <=> LeftAlone(u, m, n, k)
                    /\ TakenOver(u, m, n, i, k)' <=> TakenOver(u, m, n, i, k)
      BY <2>4 DEF LeftAlone, TakenOver
    <3>3. \A n : Exporters(m, n)' = Exporters(m, n)
      BY ProgramStable
    <3> QED  BY <3>1, <3>2, <3>3 DEF NoneLost
  <2> QED  BY <1>2, <1>4, <2>1, <2>3, <2>5, <2>7 DEF Underway, Midway
<1> QED  BY <1>3, <1>4

\* The loop takes a symbol over.
LEMMA TakenUnderway ==
    ASSUME Types, Symbols, Importing, NEW u \in Units, u = Unit, NEW k, k = next, importing,
           Underway(u, k), pending # << >>, pending' = Tail(pending), UNCHANGED program,
           Uses(u)[k].alias = None, NEW m, m = Uses(u)[k].module,
           NEW symbol, symbol = Head(pending), Exported(symbol),
           ~ InScope(scope[u], symbol.name), AddToScope(u, Imported(symbol, m))
    PROVE  Underway(u, k)'
<1>1. k \in 1 .. Len(Uses(u)) /\ \A p \in 1 .. Len(pending) : SymbolOf(m, pending[p])
  BY DEF Importing
<1>2. /\ symbol \in Symbol /\ 1 \in 1 .. Len(pending) /\ symbol = pending[1] /\ SymbolOf(m, symbol)
      /\ \A p \in 1 .. Len(Tail(pending)) :
            p + 1 \in 1 .. Len(pending) /\ p + 1 # 1 /\ Tail(pending)[p] = pending[p + 1]
  BY <1>1, PendingHead
<1> DEFINE s == Imported(symbol, m)
<1>3. /\ s \in Symbol /\ s.name = symbol.name /\ s.origin = symbol.origin /\ s.from = m
      /\ m # None /\ Meaning(u, s) = <<m, None>> /\ AddToScope(u, s) /\ ~ InScope(scope[u], s.name)
  BY <1>1, <1>2, ExportedNext
<1>4. symbol.name \in Names
  BY <1>2 DEF Symbol
<1>5. /\ Sound(u, k + 1) /\ Complete(u, k) /\ Single(u) /\ \A j \in 1 .. k - 1 : UseAccepted(u, j)
      /\ PendingDiffer /\ PendingFresh(u, m, k) /\ NoneLost(u, m, k)
  BY DEF Underway, Midway
<1>6. Source(u, symbol.name, k) = {}
  BY <1>4, <1>5 DEF Complete
<1>7. Source(u, symbol.name, k + 1) = {<<m, None>>}
  BY <1>1, <1>2, <1>6, ExportedNext
<1> HIDE DEF s
<1>8. /\ \A j \in 1 .. Len(scope'[u]) :
            scope'[u][j] = s \/ \E i \in 1 .. Len(scope[u]) : scope'[u][j] = scope[u][i]
      /\ \A j \in 1 .. Len(scope[u]) : \E i \in 1 .. Len(scope'[u]) : scope'[u][i] = scope[u][j]
      /\ \E i \in 1 .. Len(scope'[u]) : scope'[u][i] = s
  <2>1. s \in Symbol /\ AddToScope(u, s)
    BY <1>3
  <2> QED  BY <2>1, AddFacts
<1>9. Single(u)'
  <2>1. s \in Symbol /\ AddToScope(u, s) /\ ~ InScope(scope[u], s.name) /\ Single(u)
    BY <1>3, <1>5
  <2> QED  BY <2>1, AddSingle
<1>10. /\ \A n, l : Source(u, n, l)' = Source(u, n, l)
       /\ \A t : Meaning(u, t)' = Meaning(u, t)
       /\ Uses(u)' = Uses(u) /\ \A j : UseAccepted(u, j)' <=> UseAccepted(u, j)
       /\ \A n : Exporters(m, n)' = Exporters(m, n)
  BY ProgramStable DEF Meaning
<1>11. Sound(u, k + 1)'
  <2>1. ASSUME NEW j \in 1 .. Len(scope'[u])
        PROVE  Source(u, scope'[u][j].name, k + 1) = {Meaning(u, scope'[u][j])}
    <3>1. CASE scope'[u][j] = s
      BY <1>3, <1>7, <3>1
    <3>2. CASE \E i \in 1 .. Len(scope[u]) : scope'[u][j] = scope[u][i]
      BY <1>5, <3>2 DEF Sound
    <3> QED  BY <1>8, <3>1, <3>2
  <2>2. \A n, t : Source(u, n, k + 1)' = Source(u, n, k + 1) /\ Meaning(u, t)' = Meaning(u, t)
    BY <1>10
  <2> QED  BY <2>1, <2>2 DEF Sound
<1>12. Complete(u, k)'
  <2>1. ASSUME NEW n \in Names, Source(u, n, k) # {} PROVE InScope(scope'[u], n)
    <3>1. PICK i \in 1 .. Len(scope[u]) : scope[u][i].name = n
      BY <1>5, <2>1 DEF Complete, InScope
    <3>2. \E j \in 1 .. Len(scope'[u]) : scope'[u][j] = scope[u][i]
      BY <1>8
    <3> QED  BY <3>1, <3>2 DEF InScope
  <2> QED  BY <1>10, <2>1 DEF Complete
<1>13. PendingDiffer'
  BY <1>5, PendingTail
<1>14. PendingFresh(u, m, k)'
  <2>1. ASSUME NEW j \in 1 .. Len(scope'[u]), NEW p \in 1 .. Len(Tail(pending)),
               scope'[u][j].from = m, Source(u, scope'[u][j].name, k) = {},
               Exported(Tail(pending)[p])
        PROVE  scope'[u][j].origin # Tail(pending)[p].origin
    <3>1. p + 1 \in 1 .. Len(pending) /\ p + 1 # 1 /\ Tail(pending)[p] = pending[p + 1]
      BY <1>2
    <3>2. CASE scope'[u][j] = s
      BY <1>2, <1>3, <1>5, <2>1, <3>1, <3>2 DEF PendingDiffer
    <3>3. CASE \E i \in 1 .. Len(scope[u]) : scope'[u][j] = scope[u][i]
      BY <1>5, <2>1, <3>1, <3>3 DEF PendingFresh
    <3> QED  BY <1>8, <3>2, <3>3
  <2> QED  BY <1>10, <2>1 DEF PendingFresh, Exported
<1>15. NoneLost(u, m, k)'
  <2>1. ASSUME NEW n \in Names, NEW i \in Exporters(m, n)
        PROVE  StillPending(m, i)' \/ LeftAlone(u, m, n, k)'  \/ TakenOver(u, m, n, i, k)'
    <3>1. CASE Exported(symbol) /\ StandsFor(m, symbol, i)
      <4>1. n = symbol.name /\ symbol.origin = <<m, i>>
        BY <2>1, <3>1 DEF StandsFor, Exporters
      <4>2. TakenOver(u, m, n, i, k)'
        <5>1. Source(u, n, k)' = {}
          BY <1>6, <1>10, <4>1
        <5>2. \E j \in 1 .. Len(scope'[u]) :
                 /\ scope'[u][j].name = n /\ scope'[u][j].origin = <<m, i>>
                 /\ scope'[u][j].from = m
          <6>1. PICK j \in 1 .. Len(scope'[u]) : scope'[u][j] = s
            BY <1>8
          <6>2. s.name = n /\ s.origin = <<m, i>> /\ s.from = m
            BY <1>3, <4>1
          <6> QED  BY <6>1, <6>2
        <5> QED  BY <5>1, <5>2 DEF TakenOver
      <4> QED  BY <4>2
    <3>2. CASE StillPending(m, i) /\ ~ (Exported(symbol) /\ StandsFor(m, symbol, i))
      BY <3>2, PendingTail
    <3>3. CASE LeftAlone(u, m, n, k)
      BY <1>10, <3>3 DEF LeftAlone
    <3>4. CASE TakenOver(u, m, n, i, k)
      <4>1. PICK j \in 1 .. Len(scope[u]) :
               scope[u][j].name = n /\ scope[u][j].origin = <<m, i>> /\ scope[u][j].from = m
        BY <3>4 DEF TakenOver
      <4>2. \E l \in 1 .. Len(scope'[u]) : scope'[u][l] = scope[u][j]
        BY <1>8
      <4> QED  BY <1>10, <3>4, <4>1, <4>2 DEF TakenOver
    <3> QED  BY <1>5, <3>1, <3>2, <3>3, <3>4 DEF NoneLost
  <2> QED  BY <1>10, <2>1 DEF NoneLost
<1> QED  BY <1>5, <1>9, <1>10, <1>11, <1>12, <1>13, <1>14, <1>15 DEF Underway, Midway

\* The loop is over: the statement is one that the source accepts.
LEMMA UseEnds ==
    ASSUME Types, Symbols, NEW u \in Units, NEW k \in 1 .. Len(Uses(u)), Underway(u, k),
           pending = << >>
    PROVE  ResolvedTo(u, k + 1)
<1> DEFINE use == Uses(u)[k]
           m == use.module
<1>1. /\ m \in Modules /\ m \in Units /\ m # u /\ m # None /\ use.alias \in Names \cup {None}
  BY UseFacts, CompiledFacts, NamesAssumption DEF Units
<1>2. k \in Nat \ {0}
  <2>1. Len(Uses(u)) \in Nat
    BY ProgramFacts
  <2> QED  BY <2>1
<1>3. Single(u) /\ Sound(u, k + 1) /\ \A j \in 1 .. k - 1 : UseAccepted(u, j)
  BY DEF Underway
<1>4. Complete(u, k + 1) /\ UseAccepted(u, k)
  <2>1. CASE use.alias # None
    BY <2>1 DEF Underway, Midway
  <2>2. CASE use.alias = None
    <3>1. Complete(u, k) /\ NoneLost(u, m, k)
      BY <2>2 DEF Underway, Midway
    <3>2. \A i : ~ StillPending(m, i)
      BY DEF StillPending
    <3> HIDE DEF m
    <3>3. ASSUME NEW n \in Names, NEW i \in Exporters(m, n)
          PROVE  LeftAlone(u, m, n, k) \/ TakenOver(u, m, n, i, k)
      BY <3>1, <3>2, <3>3 DEF NoneLost
    <3>4. Complete(u, k + 1)
      <4> SUFFICES ASSUME NEW n \in Names, Source(u, n, k + 1) # {} PROVE InScope(scope[u], n)
        BY DEF Complete
      <4>1. CASE Source(u, n, k) # {}
        BY <3>1, <4>1 DEF Complete
      <4>2. CASE Source(u, n, k) = {}
        <5>1. Provides(use, n)
          BY <1>2, <4>2, NextSource
        <5>2. PICK i : i \in Exporters(m, n)
          BY <2>2, <5>1, NamesAssumption DEF Provides, m
        <5>3. TakenOver(u, m, n, i, k)
          BY <3>3, <4>2, <5>2 DEF LeftAlone
        <5> QED  BY <5>3 DEF TakenOver, InScope
      <4> QED  BY <4>1, <4>2
    <3>5. UseAccepted(u, k)
      <4>1. ASSUME NEW n \in Names, NEW s \in Source(u, n, k), Exporters(m, n) # {}
            PROVE  s[1] # m
        BY <3>3, <4>1 DEF LeftAlone, TakenOver
      <4>2. ASSUME NEW n \in Names, Source(u, n, k) = {}
            PROVE  Cardinality(Exporters(m, n)) <= 1
        <5>1. ASSUME NEW x \in Exporters(m, n), NEW y \in Exporters(m, n) PROVE x = y
          <6>1. TakenOver(u, m, n, x, k) /\ TakenOver(u, m, n, y, k)
            BY <3>3, <4>2 DEF LeftAlone
          <6>2. PICK i \in 1 .. Len(scope[u]) :
                    scope[u][i].name = n /\ scope[u][i].origin = <<m, x>> /\ scope[u][i].from = m
            BY <6>1 DEF TakenOver
          <6>3. PICK j \in 1 .. Len(scope[u]) :
                    scope[u][j].name = n /\ scope[u][j].origin = <<m, y>> /\ scope[u][j].from = m
            BY <6>1 DEF TakenOver
          <6>4. i = j
            BY <1>1, <1>3, <6>2, <6>3 DEF Single, m
          <6> QED  BY <6>2, <6>3, <6>4
        <5>2. IsFiniteSet(Exporters(m, n))
          BY <1>1, ExportersFinite DEF m
        <5> QED  BY <5>1, <5>2, AtMostOne
      <4> QED  BY <2>2, <4>1, <4>2 DEF UseAccepted, m
    <3> QED  BY <3>4, <3>5
  <2> QED  BY <2>1, <2>2
<1>5. \A j \in 1 .. (k + 1) - 1 : UseAccepted(u, j)
  <2>1. \A j \in 1 .. (k + 1) - 1 : j = k \/ j \in 1 .. k - 1
    BY <1>2
  <2> QED  BY <1>3, <1>4, <2>1
<1> QED  BY <1>3, <1>4, <1>5 DEF ResolvedTo

\* Steps of the imports that fail nothing keep everything but the scopes.
LEMMA ImportFrame ==
    ASSUME Analysis, phase = "imports", verdict = "none", turn <= Len(order), next > 0,
           UNCHANGED <<program, order, phase, linking, verdict, success, errors>>,
           HaveDeclared', Resolving', Bounds'
    PROVE  Established'
<1>1. Declaring' /\ HaveResolved' /\ Analysing' /\ Linking' /\ Deciding'
  BY LinkingStable DEF Declaring, HaveResolved, Analysing, Deciding, Analysis, Established
<1>2. Compiled' = Compiled /\ \A u : Acceptable(u)' <=> Acceptable(u)
  BY ProgramStable DEF Compiled
<1>3. Failing' /\ Reporting'
  BY <1>2 DEF Analysis, Established, Failing, Reporting
<1> QED  BY <1>1, <1>3 DEF Established

\* The units whose scopes do not change have their declarations still.
LEMMA DeclaredFrame ==
    ASSUME Analysis, phase # "declarations", UNCHANGED <<program, order, scope>>
    PROVE  HaveDeclared'
<1>1. \A v : AllDeclared(v)' <=> AllDeclared(v)
  BY ScopeStable
<1> QED  BY <1>1 DEF HaveDeclared, Analysis, Established, Compiled

LEMMA ImportStep ==
    ASSUME Analysis, ImportSymbol
    PROVE  Established'
<1>1. /\ phase = "imports" /\ verdict = "none" /\ importing /\ pending # << >>
      /\ turn <= Len(order) /\ next > 0
      /\ UNCHANGED <<program, order, phase, linking, verdict>>
  BY DEF ImportSymbol, Active
<1>2. Types /\ Symbols /\ Importing
  BY DEF Analysis, Established, TypesAndSymbols
<1>3. /\ Unit \in Units /\ next \in Nat /\ next \in 1 .. Len(Uses(Unit))
      /\ Len(Uses(Unit)) \in Nat /\ Len(order) \in Nat /\ turn \in Nat
      /\ turn \in 1 .. Len(order) /\ Unit \in Compiled
  <2>1. Unit \in Units /\ Len(Uses(Unit)) \in Nat /\ Len(order) \in Nat /\ turn \in Nat
    BY <1>1, <1>2, ProgramFacts
  <2>2. next \in 1 .. Len(Uses(Unit)) /\ next \in Nat
    BY <1>1, <1>2, <2>1 DEF Importing
  <2>3. turn \in 1 .. Len(order) /\ Unit \in Compiled
    <3>1. 1 \in 1 .. Len(order)
      BY <1>2, ProgramFacts
    <3> QED  BY <1>1, <1>2, <3>1, UnitIsOne
  <2> QED  BY <2>1, <2>2, <2>3
<1> DEFINE use == Uses(Unit)[next]
           symbol == Head(pending)
<1>4. use \in Use /\ use.module \in Modules /\ use.module # None /\ symbol \in Symbol
  <2>1. use \in Use /\ use.module \in Modules
    BY <1>2, <1>3, UseFacts
  <2>2. symbol \in Symbol
    BY <1>1, <1>2, PendingHead
  <2> QED  BY <2>1, <2>2, NamesAssumption DEF Units
<1>5. ASSUME success PROVE Underway(Unit, next)
  <2>1. Reached(turn, Len(Uses(Unit))) = next
    BY <1>1, <1>2, <1>3, ReachedFacts
  <2> QED  BY <1>1, <1>3, <1>5, <2>1 DEF Analysis, Established, Resolving, Unit
<1>6. Bounds'
  <2>1. UNCHANGED <<turn, next>> \/ NextStatement
    BY DEF ImportSymbol
  <2>2. Unit' = Unit /\ Uses(Unit)' = Uses(Unit)
    BY <1>1, <2>1 DEF Unit, Uses, NextStatement
  <2> QED  BY <1>1, <1>3, <2>1, <2>2 DEF Bounds, NextStatement
<1>7. CASE /\ \/ ~ Exported(symbol)
              \/ use.alias # None
              \/ /\ InScope(scope[Unit], symbol.name)
                 /\ Lookup(scope[Unit], symbol.name).from # use.module
           /\ pending' = Tail(pending)
           /\ UNCHANGED <<scope, success, errors, importing, turn, next>>
  <2>1. ASSUME success PROVE \A u, k : u = Unit /\ k = next => Underway(u, k)'
    BY <1>1, <1>2, <1>3, <1>5, <1>7, <2>1, PassedUnderway
  <2>2. Resolving'
    BY <1>1, <1>7, <2>1, ResolvingStep
  <2>3. HaveDeclared'
    BY <1>1, <1>7, DeclaredFrame
  <2> QED  BY <1>1, <1>6, <1>7, <2>2, <2>3, ImportFrame
<1>8. CASE /\ Exported(symbol) /\ use.alias = None /\ InScope(scope[Unit], symbol.name)
           /\ Lookup(scope[Unit], symbol.name).from = use.module
           /\ Fail("imports", next) /\ UNCHANGED scope
  <2>1. ASSUME success PROVE \E u \in Compiled : ~ Acceptable(u)
    <3>1. ~ UseAccepted(Unit, next)
      BY <1>1, <1>2, <1>3, <1>5, <1>8, <2>1, RepeatedImport
    <3> QED  BY <1>3, <3>1 DEF Acceptable
  <2>2. HaveDeclared'
    BY <1>1, <1>8, DeclaredFrame
  <2> QED  BY <1>1, <1>6, <1>8, <2>1, <2>2, FailStep DEF Fail, Established
<1>9. CASE /\ Exported(symbol) /\ use.alias = None /\ ~ InScope(scope[Unit], symbol.name)
           /\ AddToScope(Unit, Imported(symbol, use.module))
           /\ pending' = Tail(pending)
           /\ UNCHANGED <<success, errors, importing, turn, next>>
  <2>1. ASSUME success PROVE \A u, k : u = Unit /\ k = next => Underway(u, k)'
    BY <1>1, <1>2, <1>3, <1>5, <1>9, <2>1, TakenUnderway
  <2> DEFINE s == Imported(symbol, use.module)
  <2>2. s \in Symbol /\ s.from # None
    BY <1>4, ImportedFacts
  <2> HIDE DEF s
  <2>3. \A v \in Units : v # Unit => scope'[v] = scope[v]
    BY <1>2, <1>3, <1>9, <2>2, AddFacts DEF s
  <2>4. Resolving'
    BY <1>1, <1>9, <2>1, <2>3, ResolvingStep
  <2>5. HaveDeclared'
    <3>1. ASSUME NEW v \in Compiled PROVE AllDeclared(v)'
      <4>1. AllDeclared(v) /\ v \in Units
        BY <1>1, <1>2, CompiledFacts DEF Analysis, Established, HaveDeclared
      <4>2. CASE v = Unit
        BY <1>1, <1>2, <1>9, <2>2, <4>1, <4>2, AddDeclared DEF s
      <4>3. CASE v # Unit
        BY <1>1, <2>3, <4>1, <4>3, ScopeStable
      <4> QED  BY <4>2, <4>3
    <3> QED  BY <1>1, <3>1 DEF HaveDeclared, Compiled
  <2> QED  BY <1>1, <1>6, <1>9, <2>4, <2>5, ImportFrame
<1> QED  BY <1>7, <1>8, <1>9 DEF ImportSymbol
------------------------------------------------------------------------------
(* The other steps *)

\* What quiet steps leave as it was, unit by unit.
LEMMA QuietStable ==
    ASSUME Quiet, NEW u, NEW k
    PROVE  /\ Compiled' = Compiled /\ Decls(u)' = Decls(u) /\ Uses(u)' = Uses(u)
           /\ DeclAccepted(u, k)' <=> DeclAccepted(u, k)
           /\ Acceptable(u)' <=> Acceptable(u)
           /\ Mirrors(u, k)' <=> Mirrors(u, k)
           /\ AllDeclared(u)' <=> AllDeclared(u)
           /\ ResolvedTo(u, k)' <=> ResolvedTo(u, k)
           /\ Resolved(u)' <=> Resolved(u)
<1>1. UNCHANGED <<program, order, scope>>
  BY QuietFacts
<1> QED  BY <1>1, ProgramStable, ScopeStable DEF Compiled

\* A unit is entered, left out, or left: what has been reached stays.
LEMMA DeclaringStable ==
    ASSUME Analysis, Quiet, UNCHANGED phase, phase = "declarations", success' => success,
           \A i \in 1 .. Len(order) : \A u : u = order[i] =>
               Reached(i, Len(Decls(u)))' = Reached(i, Len(Decls(u)))
    PROVE  Declaring'
<1> SUFFICES ASSUME success', NEW i \in 1 .. Len(order), NEW u, u = order[i],
                    NEW k, k = Reached(i, Len(Decls(u)))'
             PROVE  Mirrors(u, k)' /\ \A j \in 1 .. k - 1 : DeclAccepted(u, j)'
  BY QuietFacts DEF Declaring
<1>1. Mirrors(u, k) /\ \A j \in 1 .. k - 1 : DeclAccepted(u, j)
  BY DEF Analysis, Established, Declaring
<1> QED  BY <1>1, QuietStable

LEMMA ResolvingStable ==
    ASSUME Analysis, Quiet, UNCHANGED phase, phase = "imports", success' => success,
           ~ importing, ~ importing',
           \A i \in 1 .. Len(order) : \A u : u = order[i] =>
               Reached(i, Len(Uses(u)))' = Reached(i, Len(Uses(u)))
    PROVE  Resolving'
<1> SUFFICES ASSUME success', NEW i \in 1 .. Len(order), NEW u, u = order[i],
                    NEW k, k = Reached(i, Len(Uses(u)))'
             PROVE  ResolvedTo(u, k)'
  BY QuietFacts DEF Resolving
<1>1. ResolvedTo(u, k)
  BY DEF Analysis, Established, Resolving
<1> QED  BY <1>1, QuietStable

LEMMA QuietFrame ==
    ASSUME Analysis, Quiet, UNCHANGED phase
    PROVE  /\ HaveDeclared' /\ HaveResolved'
           /\ UNCHANGED linking => Linking'
           /\ UNCHANGED success => Failing'
           /\ UNCHANGED <<success, errors>> => Reporting'
           /\ phase # "declarations" => Declaring'
           /\ phase # "imports" => Resolving'
           /\ phase \in {"declarations", "imports"} => Analysing'
           /\ verdict' = "none" => Deciding'
<1>1. Compiled' = Compiled
  BY QuietStable
<1>2. HaveDeclared' /\ HaveResolved'
  BY <1>1, QuietStable DEF Analysis, Established, HaveDeclared, HaveResolved
<1>3. ASSUME UNCHANGED linking PROVE Linking'
  BY <1>1, <1>3, QuietStable DEF Analysis, Established, Linking
<1>4. ASSUME UNCHANGED success PROVE Failing'
  BY <1>1, <1>4, QuietStable DEF Analysis, Established, Failing
<1>5. ASSUME UNCHANGED <<success, errors>> PROVE Reporting'
  BY <1>1, <1>5, QuietFacts DEF Analysis, Established, Reporting
<1>6. /\ phase # "declarations" => Declaring'
      /\ phase # "imports" => Resolving'
      /\ phase \in {"declarations", "imports"} => Analysing'
      /\ verdict' = "none" => Deciding'
  BY DEF Declaring, Resolving, Analysing, Deciding
<1> QED  BY <1>2, <1>3, <1>4, <1>5, <1>6

LEMMA EnterUnitStep ==
    ASSUME Analysis, EnterUnit
    PROVE  Established'
<1>1. /\ verdict = "none" /\ turn <= Len(order) /\ next = 0 /\ next' = 1 /\ Quiet
      /\ UNCHANGED <<program, order, phase, turn, success, scope, members,
                     importing, pending, errors, linking, verdict>>
  BY DEF EnterUnit, Quiet
<1>2. Types /\ Importing
  BY DEF Analysis, TypesAndSymbols
<1>3. /\ turn \in Nat /\ Len(order) \in Nat /\ order \in Seq(Units)
      /\ \A u \in Units : Len(Decls(u)) \in Nat /\ Len(Uses(u)) \in Nat
      /\ \A i \in 1 .. Len(order) : order[i] \in Units
  BY <1>2, ProgramFacts, ElementOfSeq
<1>4. ~ importing /\ ~ importing'
  BY <1>1, <1>2, <1>3 DEF Importing
<1>5. Bounds'
  <2>1. Unit \in Units /\ Unit' = Unit /\ Decls(Unit)' = Decls(Unit) /\ Uses(Unit)' = Uses(Unit)
    BY <1>1, <1>2, ProgramFacts DEF Unit, Decls, Uses
  <2> QED  BY <1>1, <1>3, <2>1 DEF Bounds
<1>6. \A i \in 1 .. Len(order), n \in Nat : Reached(i, n)' = Reached(i, n)
  BY <1>1, <1>2, ReachedFacts
<1>7. Declaring'
  <2>1. CASE phase = "declarations"
    <3>1. \A i \in 1 .. Len(order) : \A u : u = order[i] =>
              Reached(i, Len(Decls(u)))' = Reached(i, Len(Decls(u)))
      <4>1. \A u : Len(Decls(u))' = Len(Decls(u))
        BY <1>1, QuietStable
      <4> QED  BY <1>3, <1>6, <4>1
    <3> QED  BY <1>1, <2>1, <3>1, DeclaringStable
  <2> QED  BY <1>1, <2>1, QuietFrame
<1>8. Resolving'
  <2>1. CASE phase = "imports"
    <3>1. \A i \in 1 .. Len(order) : \A u : u = order[i] =>
              Reached(i, Len(Uses(u)))' = Reached(i, Len(Uses(u)))
      <4>1. \A u : Len(Uses(u))' = Len(Uses(u))
        BY <1>1, QuietStable
      <4> QED  BY <1>3, <1>6, <4>1
    <3> QED  BY <1>1, <1>4, <2>1, <3>1, ResolvingStable
  <2> QED  BY <1>1, <2>1, QuietFrame
<1>9. Analysing'
  BY <1>1 DEF Analysis, Established, Analysing, Compiled, BodyPassed
<1> QED  BY <1>1, <1>5, <1>7, <1>8, <1>9, QuietFrame DEF Established

LEMMA SkipUnitStep ==
    ASSUME Analysis, SkipUnit
    PROVE  Established'
<1>1. /\ verdict = "none" /\ turn <= Len(order) /\ next = 0 /\ ~ success /\ Quiet
      /\ UNCHANGED <<program, order, phase, next, success, scope, members,
                     importing, pending, errors, linking, verdict>>
  BY DEF SkipUnit, Quiet
<1>2. Types
  BY DEF Analysis, TypesAndSymbols
<1>3. Bounds'
  <2>1. next' = 0 /\ \A u : u \in Units => Len(Decls(u)) \in Nat /\ Len(Uses(u)) \in Nat
    BY <1>1, <1>2, ProgramFacts
  <2>2. turn' <= Len(order') => Unit' \in Units
    <3>1. turn' = turn + 1
      BY DEF SkipUnit
    <3>2. order \in Seq(Units) /\ turn \in Nat /\ Len(order) \in Nat
      BY <1>2, ProgramFacts
    <3> QED  BY <1>1, <3>1, <3>2 DEF Unit
  <2>3. \A u : Decls(u)' = Decls(u) /\ Uses(u)' = Uses(u)
    BY <1>1, QuietStable
  <2> QED  BY <2>1, <2>2, <2>3 DEF Bounds
<1>4. Declaring' /\ Resolving'
  BY <1>1 DEF Declaring, Resolving
<1>5. Analysing'
  BY <1>1 DEF Analysis, Established, Analysing, Compiled, BodyPassed
<1> QED  BY <1>1, <1>3, <1>4, <1>5, QuietFrame DEF Established

LEMMA EndDeclarationsStep ==
    ASSUME Analysis, EndDeclarations
    PROVE  Established'
<1>1. /\ verdict = "none" /\ phase = "declarations" /\ turn <= Len(order) /\ next > 0
      /\ next > Len(Decls(Unit)) /\ Quiet /\ LeaveUnit
      /\ UNCHANGED <<program, order, phase, success, scope, members,
                     importing, pending, errors, linking, verdict>>
  BY DEF EndDeclarations, Active, Quiet
<1>2. Types
  BY DEF Analysis, TypesAndSymbols
<1>3. /\ turn \in Nat /\ next \in Nat /\ Len(order) \in Nat
      /\ \A u \in Units : Len(Decls(u)) \in Nat
      /\ \A i \in 1 .. Len(order) : order[i] \in Units
      /\ Unit \in Units
  BY <1>1, <1>2, ProgramFacts, ElementOfSeq DEF Types, TypeOK
<1>4. next = Len(Decls(Unit)) + 1
  BY <1>1, <1>3 DEF Analysis, Established, Bounds
<1>5. Bounds'
  <2>1. turn' <= Len(order') => Unit' \in Units
    <3>1. turn' = turn + 1
      BY <1>1 DEF LeaveUnit
    <3> QED  BY <1>1, <1>3, <3>1 DEF Unit
  <2>2. \A u : Decls(u)' = Decls(u)
    BY <1>1, QuietStable
  <2> QED  BY <1>1, <1>3, <2>1, <2>2 DEF Bounds, LeaveUnit
<1>6. Declaring'
  <2>1. ASSUME NEW i \in 1 .. Len(order), NEW u, u = order[i]
        PROVE  Reached(i, Len(Decls(u)))' = Reached(i, Len(Decls(u)))
    <3>1. Len(Decls(u))' = Len(Decls(u)) /\ Len(Decls(u)) \in Nat
      BY <1>1, <1>3, <2>1, QuietStable
    <3>2. i = turn => next = Len(Decls(u)) + 1
      BY <1>4, <2>1 DEF Unit
    <3> QED  BY <1>1, <1>2, <3>1, <3>2, ReachedFacts
  <2> QED  BY <1>1, <2>1, DeclaringStable
<1> QED  BY <1>1, <1>5, <1>6, QuietFrame DEF Established

LEMMA EndImportsStep ==
    ASSUME Analysis, EndImports
    PROVE  Established'
<1>1. /\ verdict = "none" /\ phase = "imports" /\ turn <= Len(order) /\ next > 0
      /\ ~ importing /\ next > Len(Uses(Unit)) /\ Quiet /\ LeaveUnit
      /\ UNCHANGED <<program, order, phase, success, scope, members,
                     importing, pending, errors, linking, verdict>>
  BY DEF EndImports, Active, Quiet
<1>2. Types
  BY DEF Analysis, TypesAndSymbols
<1>3. /\ turn \in Nat /\ next \in Nat /\ Len(order) \in Nat
      /\ \A u \in Units : Len(Uses(u)) \in Nat
      /\ \A i \in 1 .. Len(order) : order[i] \in Units
      /\ Unit \in Units
  BY <1>1, <1>2, ProgramFacts, ElementOfSeq DEF Types, TypeOK
<1>4. next = Len(Uses(Unit)) + 1
  BY <1>1, <1>3 DEF Analysis, Established, Bounds
<1>5. Bounds'
  <2>1. turn' <= Len(order') => Unit' \in Units
    <3>1. turn' = turn + 1
      BY <1>1 DEF LeaveUnit
    <3> QED  BY <1>1, <1>3, <3>1 DEF Unit
  <2>2. \A u : Uses(u)' = Uses(u)
    BY <1>1, QuietStable
  <2> QED  BY <1>1, <1>3, <2>1, <2>2 DEF Bounds, LeaveUnit
<1>6. Resolving'
  <2>1. ASSUME NEW i \in 1 .. Len(order), NEW u, u = order[i]
        PROVE  Reached(i, Len(Uses(u)))' = Reached(i, Len(Uses(u)))
    <3>1. Len(Uses(u))' = Len(Uses(u)) /\ Len(Uses(u)) \in Nat
      BY <1>1, <1>3, <2>1, QuietStable
    <3>2. i = turn => next = Len(Uses(u)) + 1
      BY <1>4, <2>1 DEF Unit
    <3> QED  BY <1>1, <1>2, <3>1, <3>2, ReachedFacts
  <2>2. ~ importing'
    BY <1>1
  <2> QED  BY <1>1, <2>1, <2>2, ResolvingStable
<1> QED  BY <1>1, <1>5, <1>6, QuietFrame DEF Established

LEMMA EndUseStep ==
    ASSUME Analysis, EndUse
    PROVE  Established'
<1>1. /\ verdict = "none" /\ phase = "imports" /\ turn <= Len(order) /\ next > 0
      /\ importing /\ pending = << >> /\ Quiet /\ NextStatement /\ importing' = FALSE
      /\ UNCHANGED <<program, order, phase, success, scope, members,
                     pending, errors, linking, verdict>>
  BY DEF EndUse, Active, Quiet
<1>2. Types /\ Symbols /\ Importing
  BY DEF Analysis, TypesAndSymbols
<1>3. /\ turn \in 1 .. Len(order) /\ next \in 1 .. Len(Uses(Unit)) /\ next \in Nat
      /\ Unit \in Units /\ Len(Uses(Unit)) \in Nat /\ Len(order) \in Nat /\ turn \in Nat
  BY <1>1, <1>2, UnitFacts DEF Importing
<1>4. ASSUME success PROVE ResolvedTo(Unit, next + 1)
  <2>1. Underway(Unit, next)
    <3>1. Reached(turn, Len(Uses(Unit))) = next
      BY <1>1, <1>2, <1>3, ReachedFacts
    <3> QED  BY <1>1, <1>3, <1>4, <3>1 DEF Analysis, Established, Resolving, Unit
  <2> QED  BY <1>1, <1>2, <1>3, <2>1, UseEnds
<1>5. ASSUME success PROVE \A u, k : u = Unit /\ k = next + 1 => ResolvedTo(u, k)'
  BY <1>1, <1>4, <1>5, QuietStable
<1>6. Resolving'
  BY <1>1, <1>5, ResolvingStep DEF NextStatement
<1>7. Bounds'
  <2>1. Unit' = Unit /\ Uses(Unit)' = Uses(Unit)
    BY <1>1 DEF Unit, Uses, NextStatement
  <2> QED  BY <1>1, <1>3, <2>1 DEF Bounds, NextStatement
<1> QED  BY <1>1, <1>6, <1>7, QuietFrame DEF Established

\* A unit is left in pass B or C.
LEMMA LeaveAnalysed ==
    ASSUME Analysis, phase \in {"signatures", "bodies"}, turn <= Len(order), LeaveUnit,
           UNCHANGED <<program, order, phase, importing, linking>>
    PROVE  /\ Bounds' /\ Declaring' /\ Resolving'
           /\ \A i \in 1 .. Len(order) : i < turn' => i < turn \/ order[i] = Unit
           /\ Unit \in Compiled /\ Compiled' = Compiled
           /\ \A i \in 1 .. Len(order) : order[i] \in Compiled
<1>1. /\ turn \in Nat /\ Len(order) \in Nat /\ turn \in 1 .. Len(order)
      /\ Unit \in Compiled /\ \A i \in 1 .. Len(order) : order[i] \in Compiled
  BY ProgramFacts, UnitIsOne DEF Analysis, TypesAndSymbols
<1>2. Bounds' /\ Declaring' /\ Resolving'
  BY <1>1 DEF Bounds, LeaveUnit, Declaring, Resolving
<1>3. \A i \in 1 .. Len(order) : i < turn' => i < turn \/ order[i] = Unit
  BY <1>1 DEF LeaveUnit, Unit
<1> QED  BY <1>1, <1>2, <1>3 DEF Compiled

\* A failure in pass B or C is the unit's.
LEMMA LaterFailure ==
    ASSUME Analysis, Quiet, phase \in {"signatures", "bodies"}, turn <= Len(order), LeaveUnit,
           UNCHANGED <<program, order, phase, importing, linking, verdict>>, verdict = "none",
           success' = FALSE, ~ Acceptable(Unit)
    PROVE  Established'
<1>1. /\ Bounds' /\ Declaring' /\ Resolving' /\ Unit \in Compiled /\ Compiled' = Compiled
  BY LeaveAnalysed
<1>2. HaveDeclared' /\ HaveResolved' /\ Linking' /\ Deciding'
  BY QuietFrame
<1>3. Failing'
  BY <1>1, QuietStable DEF Failing
<1>4. Analysing' /\ Reporting'
  BY <1>1 DEF Analysing, Reporting, Analysis, Established
<1> QED  BY <1>1, <1>2, <1>3, <1>4 DEF Established

LEMMA ResolveSignaturesStep ==
    ASSUME Analysis, ResolveSignatures
    PROVE  Established'
<1>1. /\ verdict = "none" /\ phase = "signatures" /\ turn <= Len(order) /\ Quiet /\ LeaveUnit
      /\ UNCHANGED <<program, order, phase, scope, members, importing, pending, linking, verdict>>
  BY DEF ResolveSignatures, Active, Quiet
<1>2. CASE program.signatures[Unit] = "failed" /\ Fail("signatures", 0)
  <2>1. ~ Acceptable(Unit)
    BY <1>2 DEF Acceptable
  <2> QED  BY <1>1, <1>2, <2>1, LaterFailure DEF Fail
<1>3. CASE program.signatures[Unit] # "failed" /\ UNCHANGED <<success, errors>>
  <2>1. /\ Bounds' /\ Declaring' /\ Resolving' /\ Unit \in Compiled
        /\ \A i \in 1 .. Len(order) : i < turn' => i < turn \/ order[i] = Unit
    BY <1>1, LeaveAnalysed
  <2>2. program.signatures[Unit] = "ok"
    <3>1. Unit \in Units /\ program \in Program
      BY <1>1, ProgramFacts DEF Analysis, TypesAndSymbols, Types, TypeOK
    <3> QED  BY <1>3, <3>1 DEF Program
  <2>3. Analysing'
    BY <1>1, <1>3, <2>1, <2>2 DEF Analysis, Established, Analysing
  <2> QED  BY <1>1, <1>3, <2>1, <2>3, QuietFrame DEF Established
<1> QED  BY <1>2, <1>3 DEF ResolveSignatures

LEMMA AnalyzeBodiesStep ==
    ASSUME Analysis, AnalyzeBodies
    PROVE  Established'
<1>1. /\ verdict = "none" /\ phase = "bodies" /\ turn <= Len(order) /\ Quiet /\ LeaveUnit
      /\ UNCHANGED <<program, order, phase, scope, members, importing, pending, linking, verdict>>
  BY DEF AnalyzeBodies, Active, Quiet
<1>2. /\ Bounds' /\ Declaring' /\ Resolving' /\ Unit \in Compiled /\ Compiled' = Compiled
      /\ \A i \in 1 .. Len(order) : i < turn' => i < turn \/ order[i] = Unit
      /\ \A i \in 1 .. Len(order) : order[i] \in Compiled
  BY <1>1, LeaveAnalysed
<1>3. CASE program.bodies[Unit] = "failed" /\ Fail("bodies", 0)
  <2>1. ~ Acceptable(Unit)
    BY <1>3 DEF Acceptable
  <2> QED  BY <1>1, <1>3, <2>1, LaterFailure DEF Fail
<1>4. CASE /\ success' = success
           /\ \/ program.bodies[Unit] = "ok" /\ errors' = errors
              \/ /\ program.bodies[Unit] = "reported"
                 /\ errors' = errors \cup {<<Unit, "bodies", 0>>}
  <2>1. \A u : u = Unit \/ BodyPassed(u) => BodyPassed(u)'
    <3>1. errors \subseteq errors'
      BY <1>4
    <3>2. program.bodies[Unit] = "reported" => errors' # {}
      BY <1>4
    <3> TAKE u
    <3>3. CASE u = Unit
      BY <1>1, <1>4, <3>2, <3>3 DEF BodyPassed
    <3>4. CASE BodyPassed(u)
      BY <1>1, <3>1, <3>4 DEF BodyPassed
    <3> QED  BY <3>3, <3>4
  <2>2. Analysing'
    <3>1. ASSUME success', NEW i \in 1 .. Len(order), i < turn' PROVE BodyPassed(order[i])'
      <4>1. CASE i < turn
        BY <1>1, <1>4, <2>1, <3>1, <4>1 DEF Analysis, Established, Analysing
      <4>2. CASE order[i] = Unit
        BY <1>1, <2>1, <4>2
      <4> QED  BY <1>2, <3>1, <4>1, <4>2
    <3>2. \A u \in Compiled : program.signatures[u] = "ok"
      BY <1>1 DEF Analysis, Established, Analysing
    <3> QED  BY <1>1, <1>2, <3>1, <3>2 DEF Analysing
  <2>3. Reporting'
    <3> SUFFICES ASSUME success', NEW e \in errors'
                 PROVE  e[1] \in Compiled /\ program.bodies[e[1]] = "reported"
      BY <1>1, <1>2 DEF Reporting
    <3>1. CASE e \in errors
      BY <1>4, <3>1 DEF Analysis, Established, Reporting
    <3>2. CASE e = <<Unit, "bodies", 0>> /\ program.bodies[Unit] = "reported"
      BY <1>2, <3>2
    <3> QED  BY <1>4, <3>1, <3>2
  <2> QED  BY <1>1, <1>2, <1>4, <2>2, <2>3, QuietFrame DEF Established
<1> QED  BY <1>3, <1>4 DEF AnalyzeBodies

\* Pass A is over in every unit: nothing has been imported, and the source of
\* a name is the unit's own declaration.
LEMMA ImportsBegin ==
    ASSUME Analysis, NEW u \in Units, Mirrors(u, Len(Decls(u)) + 1),
           \A j \in 1 .. Len(Decls(u)) : DeclAccepted(u, j)
    PROVE  AllDeclared(u) /\ ResolvedTo(u, 1)
<1> DEFINE n == Len(Decls(u))
           S == scope[u]
<1>1. n \in Nat /\ Types /\ Symbols
  BY ProgramFacts DEF Analysis, TypesAndSymbols
<1>2. Len(S) = n /\ \A j \in 1 .. n : StandsFor(u, S[j], (n + 1) - j)
  BY <1>1 DEF Mirrors
<1>3. \A j \in 1 .. n : (n + 1) - j \in 1 .. n /\ (n + 1) - ((n + 1) - j) = j
  BY <1>1
<1> HIDE DEF n, S
<1>4. AllDeclared(u)
  <2>1. ASSUME NEW i \in 1 .. n PROVE \E j \in 1 .. Len(S) : StandsFor(u, S[j], i)
    <3>1. StandsFor(u, S[(n + 1) - i], (n + 1) - ((n + 1) - i))
      BY <1>2, <1>3
    <3> QED  BY <1>2, <1>3, <3>1
  <2>2. ASSUME NEW i \in 1 .. Len(S), NEW j \in 1 .. Len(S), S[i].origin = S[j].origin
        PROVE  i = j
    <3>1. S[i].origin = <<u, (n + 1) - i>> /\ S[j].origin = <<u, (n + 1) - j>>
      BY <1>2 DEF StandsFor
    <3>2. (n + 1) - i = (n + 1) - j
      <4>1. <<u, (n + 1) - i>> = <<u, (n + 1) - j>>
        BY <2>2, <3>1
      <4> QED  BY <4>1
    <3> QED  BY <1>1, <1>2, <3>2
  <2> QED  BY <2>1, <2>2 DEF AllDeclared, n, S
<1>5. \A j \in 1 .. Len(S) : S[j].from = None /\ S[j].kind # "namespace" /\ Owns(u, S[j].name)
  <2> TAKE j \in 1 .. Len(S)
  <2>1. S[j].from = None /\ S[j].name = Decls(u)[(n + 1) - j].name
        /\ S[j].kind = Decls(u)[(n + 1) - j].kind
    BY <1>2 DEF StandsFor
  <2>2. (n + 1) - j \in 1 .. Len(Decls(u))
    BY <1>2, <1>3 DEF n
  <2>3. Decls(u)[(n + 1) - j].kind # "namespace"
    BY <1>1, <2>2, DeclFacts DEF Decl
  <2> QED  BY <2>1, <2>2, <2>3 DEF Owns
<1>6. Single(u)
  BY <1>5 DEF Single, S
<1>7. Sound(u, 1)
  <2>1. ASSUME NEW j \in 1 .. Len(S) PROVE Source(u, S[j].name, 1) = {Meaning(u, S[j])}
    BY <1>5, OwnSource DEF Meaning
  <2> QED  BY <2>1 DEF Sound, S
<1>8. Complete(u, 1)
  <2> SUFFICES ASSUME NEW m \in Names, Source(u, m, 1) # {} PROVE InScope(S, m)
    BY DEF Complete, S
  <2>1. Owns(u, m)
    BY FirstSource
  <2>2. PICK i \in 1 .. Len(Decls(u)) : Decls(u)[i].name = m
    BY <2>1 DEF Owns
  <2>3. PICK j \in 1 .. Len(S) : StandsFor(u, S[j], i)
    BY <1>4, <2>2 DEF AllDeclared, S
  <2> QED  BY <2>2, <2>3 DEF StandsFor, InScope
<1> QED  BY <1>4, <1>6, <1>7, <1>8 DEF ResolvedTo

LEMMA NextPhaseStep ==
    ASSUME Analysis, NextPhase
    PROVE  Established'
<1>1. /\ verdict = "none" /\ phase \in {"declarations", "imports", "signatures"}
      /\ turn > Len(order) /\ success /\ turn' = 1 /\ Quiet
      /\ phase' = CASE phase = "declarations" -> "imports"
                    [] phase = "imports" -> "signatures"
                    [] phase = "signatures" -> "bodies"
      /\ UNCHANGED <<program, order, next, success, scope, members, importing,
                     pending, errors, linking, verdict>>
  BY DEF NextPhase, PhaseOver, Quiet, Analysis, TypesAndSymbols, Types, TypeOK, Phases
<1>2. Types /\ Importing /\ next = 0 /\ turn \in Nat /\ Len(order) \in Nat /\ 1 <= Len(order)
  BY <1>1, ProgramFacts DEF Analysis, TypesAndSymbols, Established, Bounds
<1>3. ~ importing /\ ~ importing'
  BY <1>1, <1>2 DEF Importing
<1>4. \A u \in Compiled : \E i \in 1 .. Len(order) : u = order[i]
  BY <1>2, CompiledFacts
<1>5. \A i \in 1 .. Len(order), n \in Nat : Reached(i, n) = n + 1 /\ Reached(i, n)' = 1 /\ i < turn
  BY <1>1, <1>2, ReachedFacts
<1>6. \A i \in 1 .. Len(order) : order[i] \in Units /\ order[i] \in Compiled
      /\ Len(Decls(order[i])) \in Nat /\ Len(Uses(order[i])) \in Nat
  BY <1>2, ProgramFacts, ElementOfSeq, CompiledFacts
<1>7. Compiled' = Compiled /\ Bounds' /\ Declaring' /\ Linking' /\ Failing' /\ Reporting' /\ Deciding'
  <2>1. Compiled' = Compiled
    BY <1>1, QuietStable
  <2>2. Linking'
    BY <1>1, LinkingStable DEF Analysis, Established
  <2>3. Unit' \in Units
    BY <1>1, <1>2, <1>6 DEF Unit
  <2>4. Bounds'
    <3>1. \A u : Decls(u)' = Decls(u) /\ Uses(u)' = Uses(u)
      BY <1>1, QuietStable
    <3>2. \A u \in Units : Len(Decls(u)) \in Nat /\ Len(Uses(u)) \in Nat
      BY <1>2, ProgramFacts
    <3> QED  BY <1>1, <1>2, <2>3, <3>1, <3>2 DEF Bounds
  <2> QED  BY <1>1, <2>1, <2>2, <2>4 DEF Declaring, Failing, Reporting, Deciding, Analysis, Established
<1>8. CASE phase = "declarations"
  <2>1. \A u \in Compiled : AllDeclared(u) /\ ResolvedTo(u, 1)
    <3> TAKE u \in Compiled
    <3>1. PICK i \in 1 .. Len(order) : u = order[i]
      BY <1>4
    <3>2. Reached(i, Len(Decls(u))) = Len(Decls(u)) + 1 /\ u \in Units /\ Len(Decls(u)) \in Nat
      BY <1>5, <1>6, <3>1
    <3>3. Mirrors(u, Len(Decls(u)) + 1) /\ \A j \in 1 .. (Len(Decls(u)) + 1) - 1 : DeclAccepted(u, j)
      BY <1>1, <1>8, <3>1, <3>2 DEF Analysis, Established, Declaring
    <3>4. (Len(Decls(u)) + 1) - 1 = Len(Decls(u))
      BY <3>2
    <3> QED  BY <3>2, <3>3, <3>4, ImportsBegin
  <2>2. HaveDeclared'
    BY <1>1, <1>7, <2>1, QuietStable DEF HaveDeclared
  <2>3. Resolving'
    <3> SUFFICES ASSUME NEW i \in 1 .. Len(order), NEW u, u = order[i],
                        NEW k, k = Reached(i, Len(Uses(u)))'
                 PROVE  ResolvedTo(u, k)'
      BY <1>1, <1>3 DEF Resolving
    <3>1. k = 1
      <4>1. Len(Uses(u))' = Len(Uses(u)) /\ Len(Uses(u)) \in Nat
        BY <1>1, <1>6, QuietStable
      <4> QED  BY <1>5, <4>1
    <3> QED  BY <1>1, <1>6, <2>1, <3>1, QuietStable
  <2>4. HaveResolved' /\ Analysing'
    BY <1>1, <1>8 DEF HaveResolved, Analysing
  <2> QED  BY <1>7, <2>2, <2>3, <2>4 DEF Established
<1>9. CASE phase = "imports"
  <2>1. \A u \in Compiled : Resolved(u)
    <3> TAKE u \in Compiled
    <3>1. PICK i \in 1 .. Len(order) : u = order[i]
      BY <1>4
    <3>2. Reached(i, Len(Uses(u))) = Len(Uses(u)) + 1
      BY <1>5, <1>6, <3>1
    <3> QED  BY <1>1, <1>3, <1>9, <3>1, <3>2 DEF Analysis, Established, Resolving, Resolved
  <2>2. HaveResolved' /\ HaveDeclared'
    BY <1>1, <1>7, <1>9, <2>1, QuietStable DEF HaveResolved, HaveDeclared, Analysis, Established
  <2>3. Resolving' /\ Analysing'
    <3>1. \A i \in 1 .. Len(order) : ~ (i < 1)
      BY <1>2
    <3> QED  BY <1>1, <1>9, <3>1 DEF Resolving, Analysing
  <2> QED  BY <1>7, <2>2, <2>3 DEF Established
<1>10. CASE phase = "signatures"
  <2>1. HaveResolved' /\ HaveDeclared' /\ Resolving'
    BY <1>1, <1>7, <1>10, QuietStable
       DEF HaveResolved, HaveDeclared, Resolving, Analysis, Established
  <2>2. \A u \in Compiled : program.signatures[u] = "ok"
    BY <1>1, <1>4, <1>5, <1>10 DEF Analysis, Established, Analysing
  <2>3. \A i \in 1 .. Len(order) : ~ (i < 1)
    BY <1>2
  <2>4. Analysing'
    BY <1>1, <1>7, <1>10, <2>2, <2>3 DEF Analysing
  <2> QED  BY <1>7, <2>1, <2>4 DEF Established
<1> QED  BY <1>1, <1>8, <1>9, <1>10

LEMMA UnderwayStable ==
    ASSUME UNCHANGED <<program, scope, pending>>, NEW u, NEW k
    PROVE  Underway(u, k)' <=> Underway(u, k)
<1>1. \A v, n, l : Source(v, n, l)' = Source(v, n, l) /\ Exporters(v, n)' = Exporters(v, n)
  BY ProgramStable
<1>2. PendingDiffer' <=> PendingDiffer
  BY DEF PendingDiffer, Exported
<1>3. \A m, l : PendingFresh(u, m, l)' <=> PendingFresh(u, m, l)
  BY <1>1 DEF PendingFresh, Exported
<1>4. \A m, i : StillPending(m, i)' <=> StillPending(m, i)
  BY ProgramStable DEF StillPending, Exported
<1>5. \A m, n, i, l : /\ LeftAlone(u, m, n, l)' <=> LeftAlone(u, m, n, l)
                      /\ TakenOver(u, m, n, i, l)' <=> TakenOver(u, m, n, i, l)
  BY <1>1 DEF LeftAlone, TakenOver
<1>6. \A m, l : NoneLost(u, m, l)' <=> NoneLost(u, m, l)
  BY <1>1, <1>4, <1>5 DEF NoneLost
<1>7. /\ Uses(u)' = Uses(u) /\ \A j : UseAccepted(u, j)' <=> UseAccepted(u, j)
      /\ \A l : Complete(u, l)' <=> Complete(u, l)
  BY ScopeStable, ProgramStable
<1>8. Midway(u, k)' <=> Midway(u, k)
  BY <1>2, <1>3, <1>6, <1>7 DEF Midway
<1> QED  BY <1>7, <1>8, ScopeStable DEF Underway

LEMMA LastSteps ==
    ASSUME Analysis, GiveUp \/ MarkModules \/ ProcessQueue \/ UNCHANGED vars
    PROVE  Established'
<1>1. Quiet /\ UNCHANGED <<program, order, turn, next, success, scope, importing, pending, errors>>
  BY DEF Quiet, GiveUp, MarkModules, ProcessQueue, vars
<1>2. Compiled' = Compiled /\ \A u : Decls(u)' = Decls(u) /\ Uses(u)' = Uses(u)
  BY <1>1, QuietStable
<1>3. Unit' = Unit
  BY <1>1 DEF Unit
<1>4. CASE UNCHANGED phase
  <2>1. Bounds'
    BY <1>1, <1>2, <1>3, <1>4 DEF Bounds, Analysis, Established
  <2>2. \A i, n : Reached(i, n)' = Reached(i, n)
    BY <1>1 DEF Reached
  <2>3. HaveDeclared' /\ HaveResolved' /\ Failing' /\ Reporting'
    BY <1>1, <1>4, QuietFrame
  <2>4. Declaring'
    <3>1. CASE phase = "declarations"
      <4>1. \A i \in 1 .. Len(order) : \A u : u = order[i] =>
                Reached(i, Len(Decls(u)))' = Reached(i, Len(Decls(u)))
        BY <1>2, <2>2
      <4> QED  BY <1>1, <1>4, <3>1, <4>1, DeclaringStable
    <3> QED  BY <1>1, <1>4, <3>1, QuietFrame
  <2>5. Analysing'
    BY <1>1, <1>2, <1>4 DEF Analysing, BodyPassed, Analysis, Established
  <2>6. CASE UNCHANGED vars
    <3>1. Resolving'
      <4>1. UNCHANGED <<phase, success, importing, turn, order>>
        BY <2>6 DEF vars
      <4>2. CASE importing
        <5>1. UNCHANGED <<pending, scope, program>>
          BY <2>6 DEF vars
        <5>2. \A u, k : Underway(u, k)' <=> Underway(u, k)
          BY <5>1, UnderwayStable
        <5>3. \A u, k : ResolvedTo(u, k)' <=> ResolvedTo(u, k)
          BY <1>1, QuietStable
        <5> QED  BY <1>2, <2>2, <4>1, <5>2, <5>3 DEF Resolving, Analysis, Established
      <4>3. CASE ~ importing
        <5>1. CASE phase = "imports"
          <6>1. \A i \in 1 .. Len(order) : \A u : u = order[i] =>
                    Reached(i, Len(Uses(u)))' = Reached(i, Len(Uses(u)))
            BY <1>2, <2>2
          <6> QED  BY <1>1, <4>1, <4>3, <5>1, <6>1, ResolvingStable
        <5> QED  BY <1>1, <1>4, <5>1, QuietFrame
      <4> QED  BY <4>2, <4>3
    <3>2. Linking' /\ Deciding'
      <4>1. UNCHANGED <<phase, linking, verdict, success, errors>>
        BY <2>6 DEF vars
      <4> QED  BY <1>2, <4>1 DEF Linking, Deciding, Analysis, Established
    <3> QED  BY <2>1, <2>3, <2>4, <2>5, <3>1, <3>2 DEF Established
  <2>7. CASE GiveUp
    <3>1. Resolving'
      BY <2>7 DEF GiveUp, Resolving
    <3>2. Deciding' /\ Linking'
      BY <1>1, <1>4, <2>7, QuietFrame DEF GiveUp, Deciding
    <3> QED  BY <2>1, <2>3, <2>4, <2>5, <3>1, <3>2 DEF Established
  <2>8. CASE ProcessQueue
    <3>1. phase = "queue" /\ success
      BY <2>8 DEF ProcessQueue, Analysis, Established, Analysing
    <3>2. Resolving'
      BY <1>4, <3>1 DEF Resolving
    <3>3. Linking'
      BY <1>1, <1>4, <2>8, QuietFrame DEF ProcessQueue
    <3>4. Deciding'
      BY <1>1, <1>4, <2>8, <3>1 DEF ProcessQueue, Deciding
    <3> QED  BY <2>1, <2>3, <2>4, <2>5, <3>2, <3>3, <3>4 DEF Established
  <2>9. CASE MarkModules
    BY <1>4, <2>9 DEF MarkModules, PhaseOver
  <2> QED  BY <2>6, <2>7, <2>8, <2>9
<1>5. CASE MarkModules
  <2>1. /\ verdict = "none" /\ turn > Len(order) /\ success /\ phase = "bodies"
        /\ phase' = "queue" /\ verdict' = verdict
        /\ linking' = linking \cup {m \in Compiled \ {Entry} : Decls(m) # << >> \/ Uses(m) # << >>}
    BY <1>5 DEF MarkModules, PhaseOver
  <2>2. \A i \in 1 .. Len(order) : i < turn
    BY <2>1, ProgramFacts DEF Analysis, TypesAndSymbols
  <2>3. \A u \in Compiled : \E i \in 1 .. Len(order) : u = order[i]
    BY CompiledFacts DEF Analysis, TypesAndSymbols
  <2>4. Analysing'
    <3>1. \A u \in Compiled : BodyPassed(u) /\ program.signatures[u] = "ok"
      BY <2>1, <2>2, <2>3 DEF Analysing, Analysis, Established
    <3> QED  BY <1>1, <1>2, <2>1, <3>1 DEF Analysing, BodyPassed
  <2>5. Bounds'
    BY <1>1, <2>1 DEF Bounds, Analysis, Established
  <2>6. HaveDeclared' /\ HaveResolved'
    BY <1>1, <1>2, <2>1, QuietStable DEF HaveDeclared, HaveResolved, Analysis, Established
  <2>7. Declaring' /\ Resolving' /\ Deciding' /\ Failing' /\ Reporting'
    BY <1>1, <1>2, <2>1 DEF Declaring, Resolving, Deciding, Failing, Reporting, Analysis, Established
  <2>8. Linking'
    <3>1. linking = {m \in Compiled \ {Entry} : m = Target}
      BY <2>1 DEF Linking, Analysis, Established
    <3> QED  BY <1>2, <2>1, <3>1 DEF Linking
  <2> QED  BY <2>4, <2>5, <2>6, <2>7, <2>8 DEF Established
<1>6. UNCHANGED phase \/ MarkModules
  BY DEF GiveUp, ProcessQueue, vars
<1> QED  BY <1>4, <1>5, <1>6

LEMMA AnalysisStep == Analysis /\ [Next]_vars => Analysis'
<1> SUFFICES ASSUME Analysis, [Next]_vars PROVE Analysis'
  OBVIOUS
<1>1. TypesAndSymbols'
  BY TypesAndSymbolsStep DEF Analysis
<1>2. Established'
  <2>1. CASE Declare \/ BeginUse \/ ImportSymbol
    BY <2>1, DeclareStep, BeginUseStep, ImportStep
  <2>2. CASE Quiet
    BY <2>2, EnterUnitStep, SkipUnitStep, EndDeclarationsStep, EndUseStep, EndImportsStep,
       ResolveSignaturesStep, AnalyzeBodiesStep, NextPhaseStep, LastSteps DEF Quiet
  <2> QED  BY <2>1, <2>2, NextCases
<1> QED  BY <1>1, <1>2 DEF Analysis

LEMMA AnalysisInitially == Init => Analysis
<1> SUFFICES ASSUME Init PROVE Analysis
  OBVIOUS
<1>1. TypesAndSymbols /\ Types
  BY TypesInitially, SymbolsInitially DEF TypesAndSymbols
<1>2. turn = 1 /\ next = 0 /\ phase = "declarations" /\ success /\ verdict = "none"
      /\ errors = {} /\ linking = Loaded(program) \cap {Target}
  BY DEF Init, MarkedAtLoad
<1>3. /\ Len(order) \in Nat /\ \A u \in Units : Len(Decls(u)) \in Nat /\ Len(Uses(u)) \in Nat
      /\ \A i \in 1 .. Len(order) : order[i] \in Units
      /\ 1 <= Len(order) => Unit \in Units
  BY <1>1, <1>2, ProgramFacts, ElementOfSeq
<1>4. Bounds
  BY <1>2, <1>3 DEF Bounds
<1>5. Declaring
  <2> SUFFICES ASSUME NEW i \in 1 .. Len(order), NEW u, u = order[i],
                      NEW k, k = Reached(i, Len(Decls(u)))
               PROVE  Mirrors(u, k) /\ \A j \in 1 .. k - 1 : DeclAccepted(u, j)
    BY DEF Declaring
  <2>1. k = 1
    <3>1. ~ (i < 1) /\ ~ (0 > 0)
      BY <1>3
    <3> QED  BY <1>2, <3>1 DEF Reached
  <2>2. scope[u] = << >>
    BY <1>3 DEF Init
  <2> QED  BY <2>1, <2>2 DEF Mirrors
<1>6. HaveDeclared /\ Resolving /\ HaveResolved /\ Analysing /\ Failing /\ Reporting /\ Deciding
  BY <1>2 DEF HaveDeclared, Resolving, HaveResolved, Analysing, Failing, Reporting, Deciding
<1>7. Linking
  <2>1. Compiled = {Entry} \cup Loaded(program) /\ Entry \notin Loaded(program)
    BY <1>1, OrderFacts, EntryAssumption DEF Types, Compiled, Loaded
  <2> QED  BY <1>2, <2>1 DEF Linking
<1> QED  BY <1>1, <1>4, <1>5, <1>6, <1>7 DEF Analysis, Established

\* At every step of every phase, the scopes, the diagnostics and the flag are what the
\* statements dealt with so far make of them.
THEOREM AnalysisInvariant == Spec => []Analysis
<1> QED  BY AnalysisInitially, AnalysisStep, PTL DEF Spec
------------------------------------------------------------------------------
(* What the analysis promises *)

\* After the imports a name means in every unit what the source says: the
\* unit's own declaration, or the first use statement that provides it.  The
\* order of the hash table does not show (process_use_statement).
THEOREM NamesCorrect == Spec => []NamesFollowSource
<1>1. Analysis => NamesFollowSource
  <2> SUFFICES ASSUME Analysis, phase \in {"signatures", "bodies", "queue"},
                      NEW u \in Compiled, NEW n \in Names, NEW k, k = Len(Uses(u)) + 1
               PROVE  LET found == Lookup(scope[u], n)
                      IN  Source(u, n, k) =
                            IF ~ InScope(scope[u], n) THEN {}
                            ELSE {<<IF found.from = None THEN u ELSE found.from,
                                    IF found.kind = "namespace" THEN n ELSE None>>}
    BY DEF NamesFollowSource
  <2>1. Sound(u, k) /\ Complete(u, k)
    BY DEF Analysis, Established, HaveResolved, Resolved, ResolvedTo
  <2>2. CASE ~ InScope(scope[u], n)
    BY <2>1, <2>2, ScopeHasSource
  <2>3. CASE InScope(scope[u], n)
    <3>1. scope[u] \in Seq(Symbol)
      BY CompiledFacts DEF Analysis, TypesAndSymbols, Types, TypeOK
    <3>2. PICK i \in 1 .. Len(scope[u]) : Lookup(scope[u], n) = scope[u][i] /\ scope[u][i].name = n
      BY <2>3, <3>1, LookupFacts
    <3>3. Source(u, n, k) = {Meaning(u, scope[u][i])}
      BY <2>1, <3>2 DEF Sound
    <3> QED  BY <2>3, <3>2, <3>3 DEF Meaning
  <2> QED  BY <2>2, <2>3
<1> QED  BY <1>1, AnalysisInvariant, PTL

\* The verdict is a matter of the program alone: it is accepted when the code
\* accepts all the declarations, use statements, signatures and bodies of its
\* units, whatever order they come in and wherever a failure cut a phase short.
LEMMA VerdictDecided ==
    ASSUME Analysis, verdict # "none"
    PROVE  verdict = "accepted" <=> \A u \in Compiled : Acceptable(u)
<1>1. verdict \in {"accepted", "rejected"}
  BY DEF Analysis, TypesAndSymbols, Types, TypeOK
<1>2. CASE verdict = "accepted"
  <2>1. phase = "queue" /\ errors = {}
    BY <1>2 DEF Analysis, Established, Deciding
  <2>2. \A u \in Compiled : AllDeclared(u) /\ Resolved(u)
    BY <2>1 DEF Analysis, Established, HaveDeclared, HaveResolved
  <2>3. \A u \in Compiled : program.signatures[u] = "ok" /\ BodyPassed(u)
    BY <2>1 DEF Analysis, Established, Analysing
  <2>4. ASSUME NEW u \in Compiled PROVE \A k \in 1 .. Len(Uses(u)) : UseAccepted(u, k)
    <3>1. Len(Uses(u)) \in Nat
      BY CompiledFacts, ProgramFacts DEF Analysis, TypesAndSymbols
    <3>2. (Len(Uses(u)) + 1) - 1 = Len(Uses(u))
      BY <3>1
    <3> QED  BY <2>2, <3>2 DEF Resolved, ResolvedTo
  <2> QED  BY <1>2, <2>1, <2>2, <2>3, <2>4 DEF AllDeclared, BodyPassed, Acceptable
<1>3. CASE verdict = "rejected"
  <2>1. CASE ~ success
    BY <1>3, <2>1 DEF Analysis, Established, Failing
  <2>2. CASE success /\ errors # {}
    <3>1. PICK e : e \in errors
      BY <2>2
    <3>2. e[1] \in Compiled /\ program.bodies[e[1]] = "reported"
      BY <2>2, <3>1 DEF Analysis, Established, Reporting
    <3>3. ~ Acceptable(e[1])
      BY <3>2 DEF Acceptable
    <3> QED  BY <1>3, <3>2, <3>3
  <2> QED  BY <1>3, <2>1, <2>2 DEF Analysis, Established, Deciding
<1> QED  BY <1>1, <1>2, <1>3

\* What the code refuses of a unit is wrong, or documents and code differ on it.
LEMMA DeclJudged ==
    ASSUME NEW u, NEW i
    PROVE  DeclAccepted(u, i) <=> ~ DeclRefused(u, i)
  BY DEF DeclAccepted, DeclRefused, OwnerIsType, Earlier

LEMMA UseJudged ==
    ASSUME Types, NEW u \in Compiled, NEW k \in 1 .. Len(Uses(u))
    PROVE  /\ UseAccepted(u, k) => ~ UseRefused(u, k)
           /\ ~ UseAccepted(u, k) =>
                 UseRefused(u, k) \/ UsedAgain(u, k) \/ Refused(Uses(u)[k].module)
                 \/ Disputed(Uses(u)[k].module)
<1> DEFINE use == Uses(u)[k]
           m == use.module
<1>1. u \in Units /\ m \in Modules /\ m \in Units /\ m # u
  BY CompiledFacts, UseFacts DEF Units
<1>2. ASSUME UseAccepted(u, k) PROVE ~ UseRefused(u, k)
  BY <1>2 DEF UseAccepted, UseRefused
<1>3. ASSUME ~ UseAccepted(u, k), use.alias # None PROVE UseRefused(u, k)
  BY <1>3 DEF UseAccepted, UseRefused
<1>4. ASSUME use.alias = None, NEW n \in Names, NEW s \in Source(u, n, k),
             Exporters(m, n) # {}, s[1] = m
      PROVE  UseRefused(u, k) \/ UsedAgain(u, k)
  <2>1. s = <<m, n>> \/ s = <<m, None>>
    <3>1. CASE Owns(u, n)
      BY <1>1, <1>4, <3>1 DEF Source
    <3>2. CASE ~ Owns(u, n)
      <4>1. PICK j \in Providers(u, n, k) : s = <<Uses(u)[j].module, Uses(u)[j].alias>>
        BY <1>4, <3>2 DEF Source
      <4>2. Uses(u)[j].alias = n \/ Uses(u)[j].alias = None
        BY <4>1 DEF Providers, Provides
      <4> QED  BY <1>4, <4>1, <4>2
    <3> QED  BY <3>1, <3>2
  <2> QED  BY <1>4, <2>1 DEF UseRefused, UsedAgain
<1>5. ASSUME NEW n \in Names, ~ (Cardinality(Exporters(m, n)) <= 1)
      PROVE  Refused(m) \/ Disputed(m)
  <2>1. PICK x \in Exporters(m, n), y \in Exporters(m, n) : x # y
    BY <1>1, <1>5, ExportersFinite, AtMostOne
  <2>2. /\ x \in 1 .. Len(Decls(m)) /\ y \in 1 .. Len(Decls(m)) /\ Len(Decls(m)) \in Nat
        /\ Decls(m)[x].name = n /\ Decls(m)[y].name = n
    BY <1>1, <2>1, ExportersFinite, ProgramFacts
  <2>3. PICK i \in 1 .. Len(Decls(m)) : Earlier(m, i, Decls(m)[i].name) # {}
    <3>1. x < y \/ y < x
      BY <2>1, <2>2
    <3>2. x < y => x \in Earlier(m, y, Decls(m)[y].name)
      BY <2>2 DEF Earlier
    <3>3. y < x => y \in Earlier(m, x, Decls(m)[x].name)
      BY <2>2 DEF Earlier
    <3> QED  BY <2>2, <3>1, <3>2, <3>3
  <2> QED  BY <2>3 DEF Refused, Disputed, DeclRefused, RepeatedMethod
<1>6. ASSUME ~ UseAccepted(u, k), use.alias = None
      PROVE  UseRefused(u, k) \/ UsedAgain(u, k) \/ Refused(m) \/ Disputed(m)
  <2>1. PICK n \in Names :
            \/ \E s \in Source(u, n, k) : Exporters(m, n) # {} /\ s[1] = m
            \/ ~ (Cardinality(Exporters(m, n)) <= 1)
    BY <1>6 DEF UseAccepted
  <2> QED  BY <1>4, <1>5, <1>6, <2>1
<1> QED  BY <1>2, <1>3, <1>6

\* A program with something wrong in one of its units is rejected, and one
\* that is rejected has something wrong or disputed.
THEOREM VerdictCorrect == Spec => []VerdictFollowsSource
<1>1. Analysis => VerdictFollowsSource
  <2> SUFFICES ASSUME Analysis, verdict # "none" PROVE VerdictFollowsSource
    BY DEF VerdictFollowsSource
  <2>1. Types /\ \A u \in Compiled : \A k \in 1 .. Len(Uses(u)) : Uses(u)[k].module \in Compiled
    BY CompiledFacts DEF Analysis, TypesAndSymbols
  <2>2. ASSUME NEW u \in Compiled, Acceptable(u) PROVE ~ Refused(u)
    BY <2>1, <2>2, DeclJudged, UseJudged DEF Acceptable, Refused
  <2>3. ASSUME NEW u \in Compiled, ~ Acceptable(u)
        PROVE  \E v \in Compiled : Refused(v) \/ Disputed(v)
    <3>1. CASE \E i \in 1 .. Len(Decls(u)) : ~ DeclAccepted(u, i)
      BY <3>1, DeclJudged DEF Refused
    <3>2. CASE \E k \in 1 .. Len(Uses(u)) : ~ UseAccepted(u, k)
      <4>1. PICK k \in 1 .. Len(Uses(u)) : ~ UseAccepted(u, k)
        BY <3>2
      <4>2. \/ UseRefused(u, k) \/ UsedAgain(u, k)
            \/ Refused(Uses(u)[k].module) \/ Disputed(Uses(u)[k].module)
        BY <2>1, <4>1, UseJudged
      <4> QED  BY <2>1, <4>2 DEF Refused, Disputed
    <3>3. CASE program.signatures[u] # "ok" \/ program.bodies[u] # "ok"
      BY <3>3 DEF Refused
    <3> QED  BY <2>3, <3>1, <3>2, <3>3 DEF Acceptable
  <2>4. verdict = "accepted" <=> \A u \in Compiled : Acceptable(u)
    BY VerdictDecided
  <2> QED  BY <2>2, <2>3, <2>4 DEF VerdictFollowsSource
<1> QED  BY <1>1, AnalysisInvariant, PTL

\* But for the target's module, needs_linking is set only once no phase has
\* failed; an accepted program has it on that module, on every module that has a
\* statement, and on no other.
THEOREM LinkingCorrect == Spec => []LinkingFollowsPhases
<1>1. Analysis => LinkingFollowsPhases
  <2> SUFFICES ASSUME Analysis PROVE LinkingFollowsPhases
    OBVIOUS
  <2>1. ASSUME linking \ {Target} # {}
        PROVE  \A e \in errors : program.bodies[e[1]] = "reported"
    <3>1. phase = "queue"
      BY <2>1 DEF Analysis, Established, Linking
    <3>2. success
      BY <3>1 DEF Analysis, Established, Analysing
    <3> QED  BY <3>2 DEF Analysis, Established, Reporting
  <2>2. ASSUME verdict = "accepted"
        PROVE  linking = {m \in Compiled \ {Entry} :
                              m = Target \/ Decls(m) # << >> \/ Uses(m) # << >>}
    BY <2>2 DEF Analysis, Established, Deciding, Linking
  <2> QED  BY <2>1, <2>2 DEF LinkingFollowsPhases
<1> QED  BY <1>1, AnalysisInvariant, PTL
==============================================================================
