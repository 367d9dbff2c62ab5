--------------------------- MODULE SemanticDriver ----------------------------
(* The analysis phases of semantic_driver_analyze (src/src/semantic.c), from *)
(* the moment every used module is loaded (module ModuleLoader) until the    *)
(* compiler knows whether the program is accepted.                           *)
(*                                                                           *)
(* Four phases go over all the units, the entry file first and then the      *)
(* loaded modules in the order of the module manager's hash table, which no  *)
(* source file determines: declarations (pass A), imports, signatures        *)
(* (pass B) and bodies (pass C).  A phase that fails is the last.  What      *)
(* passes B and C find wrong in a unit is part of the input; the symbols     *)
(* that passes A and the imports put into the scopes are modelled in full.   *)
EXTENDS Naturals, Sequences, FiniteSets, SequencesExt, FiniteSetsExt

CONSTANTS
    Entry,        \* the file being compiled
    Modules,      \* the modules it can use
    Names,        \* names of symbols (a method's is Owner__method)
    Programs,     \* the inputs
    Target,       \* the module that describes the build target, or None
    None          \* "no alias", "no owner", "not imported"

Units == {Entry} \cup Modules

\* The parser makes no function without a body (parser.c:1655).
Decl == [name : Names, kind : {"type", "value", "method"}, public : BOOLEAN,
         owner : Names \cup {None}]
Use == [module : Modules, alias : Names \cup {None}]

\* A program: the declarations and the use statements of each unit in source
\* order and what passes B and C make of the unit.  Pass C can report an error
\* and still succeed (a parameter that conflicts with another one: "reported").
Program == [decls : [Units -> Seq(Decl)], uses : [Units -> Seq(Use)],
            signatures : [Units -> {"ok", "failed"}],
            bodies : [Units -> {"ok", "failed", "reported"}]]

ASSUME NamesAssumption == None \notin Names \cup Units
ASSUME EntryAssumption == Entry \notin Modules
\* The files there are.
ASSUME ModulesAssumption == IsFiniteSet(Modules)
ASSUME TargetAssumption == Target \in Modules \cup {None}

\* The modules the loading phase has in its table: what the entry file uses,
\* what those modules use, and so on.  It only ends when the uses go round in
\* no circle (see ModuleLoader).
UsedBy(p, u) == {p.uses[u][k].module : k \in 1 .. Len(p.uses[u])}
Loaded(p) ==
    {m \in Modules : \A R \in SUBSET Modules :
        UsedBy(p, Entry) \subseteq R /\ (\A n \in R : UsedBy(p, n) \subseteq R) => m \in R}
Acyclic(p) ==
    \A S \in (SUBSET Modules) \ {{}} : \E m \in S : UsedBy(p, m) \cap S = {}

ASSUME ProgramsAssumption == Programs \subseteq {p \in Program : Acyclic(p)}

VARIABLES
    program,     \* the input being compiled
    order,       \* the units in the order every phase visits them
    phase,       \* the phase under way
    turn,        \* the position in order of the unit it is at
    next,        \* the statement of the unit that comes next, 0 before it starts
    success,     \* the flag of semantic_driver_analyze
    scope,       \* each unit's symbols, the newest first
    members,     \* the symbols of each unit's aliased modules, the newest first
    importing,   \* import_public_symbols is under way
    pending,     \* the symbols of the module it has not looked at
    errors,      \* the statements diagnosed, as <<unit, phase, statement>>
    linking,     \* the modules with needs_linking
    verdict      \* "none" until semantic_driver_analyze returns

vars == <<program, order, phase, turn, next, success, scope, members,
          importing, pending, errors, linking, verdict>>
------------------------------------------------------------------------------
\* A symbol: from is the module it was imported from, origin the declaration
\* (or, for the namespace of an aliased module, the use) it stands for.
Symbol == [name : Names, kind : {"type", "value", "method", "namespace"},
           public : BOOLEAN, from : Modules \cup {None}, origin : Units \X Nat]

Phases == {"declarations", "imports", "signatures", "bodies", "queue"}

TypeOK ==
    /\ program \in Program
    /\ order \in Seq(Units)
    /\ phase \in Phases
    /\ turn \in 1 .. Len(order) + 1
    /\ next \in Nat
    /\ success \in BOOLEAN
    /\ scope \in [Units -> Seq(Symbol)]
    /\ members \in [Units -> [Names -> Seq(Symbol)]]
    /\ importing \in BOOLEAN
    /\ pending \in Seq(Symbol)
    /\ errors \subseteq Units \X Phases \X Nat
    /\ linking \subseteq Modules
    /\ verdict \in {"none", "accepted", "rejected"}

\* The order of the hash table is any order of the modules.
Orders(p) == {<<Entry>> \o s : s \in SetToSeqs(Loaded(p))}
Compiled == ToSet(order)

\* The module of the build target is to be linked as soon as it is loaded.
MarkedAtLoad(p) == Loaded(p) \cap {Target}

Init ==
    /\ program \in Programs
    /\ order \in Orders(program)
    /\ phase = "declarations"
    /\ turn = 1
    /\ next = 0
    /\ success = TRUE
    /\ scope = [u \in Units |-> << >>]
    /\ members = [u \in Units |-> [n \in Names |-> << >>]]
    /\ importing = FALSE
    /\ pending = << >>
    /\ errors = {}
    /\ linking = MarkedAtLoad(program)
    /\ verdict = "none"
------------------------------------------------------------------------------
Unit == order[turn]
Decls(u) == program.decls[u]
Uses(u) == program.uses[u]

\* symbol_lookup_scope: the first of the list with the name.
InScope(S, n) == \E i \in 1 .. Len(S) : S[i].name = n
Lookup(S, n) == S[CHOOSE i \in 1 .. Len(S) :
                      S[i].name = n /\ \A j \in 1 .. i - 1 : S[j].name # n]

\* symbol_add puts a symbol at the front of the scope's list.
AddToScope(u, symbol) == scope' = [scope EXCEPT ![u] = <<symbol>> \o @]

Fail(p, k) ==
    /\ errors' = errors \cup {<<Unit, p, k>>}
    /\ success' = FALSE

\* A phase comes to its next unit: the entry file, and a module as long as
\* nothing has failed.
EnterUnit ==
    /\ verdict = "none" /\ phase # "queue" /\ turn <= Len(order) /\ next = 0
    /\ turn = 1 \/ success
    /\ next' = 1
    /\ UNCHANGED <<program, order, phase, turn, success, scope, members,
                   importing, pending, errors, linking, verdict>>

SkipUnit ==
    /\ verdict = "none" /\ phase # "queue" /\ turn <= Len(order) /\ next = 0
    /\ turn > 1 /\ ~ success
    /\ turn' = turn + 1
    /\ UNCHANGED <<program, order, phase, next, success, scope, members,
                   importing, pending, errors, linking, verdict>>

Active(p) == verdict = "none" /\ phase = p /\ turn <= Len(order) /\ next > 0

\* A statement of the unit has been dealt with; all of them have.
NextStatement == next' = next + 1 /\ UNCHANGED turn
LeaveUnit == next' = 0 /\ turn' = turn + 1
------------------------------------------------------------------------------
(* Pass A *)

\* A slip in CanDeclare: no declaration is checked against the scope.
CanDeclareAnything(u, d) ==
    d.kind = "method" =>
        InScope(scope[u], d.owner) /\ Lookup(scope[u], d.owner).kind = "type"

\* A method needs its owner, declared before it, and may repeat a name.
CanDeclare(u, d) ==
    IF d.kind = "method"
    THEN InScope(scope[u], d.owner) /\ Lookup(scope[u], d.owner).kind = "type"
    ELSE ~ InScope(scope[u], d.name)

Declared(u, d) == [name |-> d.name, kind |-> d.kind, public |-> d.public,
                   from |-> None, origin |-> <<u, next>>]

\* A slip in Declare: a redefinition is diagnosed but the pass goes on.
DeclareQuietly ==
    /\ Active("declarations") /\ next <= Len(Decls(Unit))
    /\ LET d == Decls(Unit)[next]
       IN  \/ /\ CanDeclare(Unit, d)
              /\ AddToScope(Unit, Declared(Unit, d))
              /\ UNCHANGED <<success, errors>>
           \/ /\ ~ CanDeclare(Unit, d)
              /\ errors' = errors \cup {<<Unit, "declarations", next>>}
              /\ UNCHANGED <<success, scope>>
    /\ NextStatement
    /\ UNCHANGED <<program, order, phase, members, importing, pending, linking, verdict>>

Declare ==
    /\ Active("declarations") /\ next <= Len(Decls(Unit))
    /\ LET d == Decls(Unit)[next]
       IN  \/ /\ CanDeclare(Unit, d)
              /\ AddToScope(Unit, Declared(Unit, d))
              /\ UNCHANGED <<success, errors>>
           \/ /\ ~ CanDeclare(Unit, d)
              /\ Fail("declarations", next)
              /\ UNCHANGED scope
    /\ NextStatement
    /\ UNCHANGED <<program, order, phase, members, importing, pending, linking, verdict>>

EndDeclarations ==
    /\ Active("declarations") /\ next > Len(Decls(Unit))
    /\ LeaveUnit
    /\ UNCHANGED <<program, order, phase, success, scope, members,
                   importing, pending, errors, linking, verdict>>
------------------------------------------------------------------------------
(* Imports *)

\* A slip in Exported: what a module imported is exported again.
ExportedTransitively(s) == s.public /\ s.kind # "namespace"

\* What import_public_symbols does not skip.
Exported(s) == s.public /\ s.kind # "namespace" /\ s.from = None

Namespace(u, use) == [name |-> use.alias, kind |-> "namespace", public |-> FALSE,
                      from |-> use.module, origin |-> <<u, next>>]

\* process_use_statement up to the loop over the module's symbols.
BeginUse ==
    /\ Active("imports") /\ ~ importing /\ next <= Len(Uses(Unit))
    /\ LET use == Uses(Unit)[next]
       IN  \/ /\ use.alias \in Names /\ InScope(scope[Unit], use.alias)
              /\ Fail("imports", next)
              /\ NextStatement
              /\ UNCHANGED <<scope, members, importing, pending>>
           \/ /\ use.alias \in Names /\ ~ InScope(scope[Unit], use.alias)
              /\ AddToScope(Unit, Namespace(Unit, use))
              /\ members' = [members EXCEPT ![Unit][use.alias] = << >>]
              /\ importing' = TRUE
              /\ pending' = scope[use.module]
              /\ UNCHANGED <<success, errors, turn, next>>
           \/ /\ use.alias = None
              /\ importing' = TRUE
              /\ pending' = scope[use.module]
              /\ UNCHANGED <<success, errors, scope, members, turn, next>>
    /\ UNCHANGED <<program, order, phase, linking, verdict>>

\* clone_imported_symbol
Imported(symbol, m) == [symbol EXCEPT !.from = m]

\* One symbol of the loop.  In the unit's own scope a name that is taken is
\* left alone, unless it was imported from the same module: then the use fails.
ImportSymbol ==
    /\ Active("imports") /\ importing /\ pending # << >>
    /\ LET use == Uses(Unit)[next]
           symbol == Head(pending)
           taken == InScope(scope[Unit], symbol.name)
           taker == Lookup(scope[Unit], symbol.name)
       IN  \/ /\ ~ Exported(symbol)
              /\ pending' = Tail(pending)
              /\ UNCHANGED <<scope, members, success, errors, importing, turn, next>>
           \/ /\ Exported(symbol)
              /\ use.alias = None /\ taken /\ taker.from = use.module
              /\ Fail("imports", next)
              /\ importing' = FALSE
              /\ pending' = << >>
              /\ NextStatement
              /\ UNCHANGED <<scope, members>>
           \/ /\ Exported(symbol)
              /\ use.alias = None /\ taken /\ taker.from # use.module
              /\ pending' = Tail(pending)
              /\ UNCHANGED <<scope, members, success, errors, importing, turn, next>>
           \/ /\ Exported(symbol)
              /\ use.alias = None /\ ~ taken
              /\ AddToScope(Unit, Imported(symbol, use.module))
              /\ pending' = Tail(pending)
              /\ UNCHANGED <<members, success, errors, importing, turn, next>>
           \/ /\ Exported(symbol)
              /\ use.alias # None
              /\ members' = IF InScope(members[Unit][use.alias], symbol.name) THEN members
                            ELSE [members EXCEPT ![Unit][use.alias] =
                                      <<Imported(symbol, use.module)>> \o @]
              /\ pending' = Tail(pending)
              /\ UNCHANGED <<scope, success, errors, importing, turn, next>>
    /\ UNCHANGED <<program, order, phase, linking, verdict>>

\* A slip in EndUse: the loop over the statements does not advance.
EndUseAgain ==
    /\ Active("imports") /\ importing /\ pending = << >>
    /\ importing' = FALSE
    /\ next' = IF Uses(Unit)[next].alias = None /\ scope[Uses(Unit)[next].module] = << >>
               THEN next ELSE next + 1
    /\ UNCHANGED <<program, order, phase, turn, success, scope, members,
                   pending, errors, linking, verdict>>

EndUse ==
    /\ Active("imports") /\ importing /\ pending = << >>
    /\ importing' = FALSE
    /\ NextStatement
    /\ UNCHANGED <<program, order, phase, success, scope, members,
                   pending, errors, linking, verdict>>

\* A slip in EndImports: the loop can end one use statement early.
EndImportsEarly ==
    /\ Active("imports") /\ ~ importing /\ next >= Len(Uses(Unit))
    /\ LeaveUnit
    /\ UNCHANGED <<program, order, phase, success, scope, members,
                   importing, pending, errors, linking, verdict>>

EndImports ==
    /\ Active("imports") /\ ~ importing /\ next > Len(Uses(Unit))
    /\ LeaveUnit
    /\ UNCHANGED <<program, order, phase, success, scope, members,
                   importing, pending, errors, linking, verdict>>
------------------------------------------------------------------------------
(* Passes B and C, the phases, the end *)

ResolveSignatures ==
    /\ Active("signatures")
    /\ IF program.signatures[Unit] = "failed" THEN Fail("signatures", 0)
       ELSE UNCHANGED <<success, errors>>
    /\ LeaveUnit
    /\ UNCHANGED <<program, order, phase, scope, members, importing, pending,
                   linking, verdict>>

AnalyzeBodies ==
    /\ Active("bodies")
    /\ \/ /\ program.bodies[Unit] = "ok"
          /\ UNCHANGED <<success, errors>>
       \/ /\ program.bodies[Unit] = "failed"
          /\ Fail("bodies", 0)
       \/ /\ program.bodies[Unit] = "reported"
          /\ errors' = errors \cup {<<Unit, "bodies", 0>>}
          /\ UNCHANGED success
    /\ LeaveUnit
    /\ UNCHANGED <<program, order, phase, scope, members, importing, pending,
                   linking, verdict>>

PhaseOver == verdict = "none" /\ phase # "queue" /\ turn > Len(order)

\* The next phase starts only when every unit came through the last one.
NextPhase ==
    /\ PhaseOver /\ success /\ phase # "bodies"
    /\ phase' = CASE phase = "declarations" -> "imports"
                  [] phase = "imports" -> "signatures"
                  [] phase = "signatures" -> "bodies"
    /\ turn' = 1
    /\ UNCHANGED <<program, order, next, success, scope, members, importing,
                   pending, errors, linking, verdict>>

GiveUp ==
    /\ PhaseOver /\ ~ success
    /\ verdict' = "rejected"
    /\ UNCHANGED <<program, order, phase, turn, next, success, scope, members,
                   importing, pending, errors, linking>>

\* After the last phase every module with a statement is to be linked, too.
MarkModules ==
    /\ PhaseOver /\ success /\ phase = "bodies"
    /\ linking' = linking \cup {m \in Compiled \ {Entry} : Decls(m) # << >> \/ Uses(m) # << >>}
    /\ phase' = "queue"
    /\ UNCHANGED <<program, order, turn, next, success, scope, members,
                   importing, pending, errors, verdict>>

\* process_instantiation_queue finds its queue empty, since nothing calls
\* instantiation_queue_push.  An error diagnosed anywhere rejects the program.
ProcessQueue ==
    /\ verdict = "none" /\ phase = "queue"
    /\ verdict' = IF success /\ errors = {} THEN "accepted" ELSE "rejected"
    /\ UNCHANGED <<program, order, phase, turn, next, success, scope, members,
                   importing, pending, errors, linking>>

Next ==
    \/ EnterUnit \/ SkipUnit
    \/ Declare \/ EndDeclarations
    \/ BeginUse \/ ImportSymbol \/ EndUse \/ EndImports
    \/ ResolveSignatures \/ AnalyzeBodies
    \/ NextPhase \/ GiveUp \/ MarkModules \/ ProcessQueue

Spec == Init /\ [][Next]_vars

\* The compiler is one thread that runs until it stops.
FairSpec == Spec /\ WF_vars(Next)
------------------------------------------------------------------------------
(* Properties *)

ExportDecls(m) == {i \in 1 .. Len(Decls(m)) : Decls(m)[i].public}

\* Nothing reaches another unit that is not a public declaration of a module
\* it uses itself: no private name, and nothing through a module in between
\* (import_public_symbols, semantic.c:1167-1173).
Legitimate(u, s, alias) ==
    /\ s.origin[1] = s.from
    /\ s.origin[2] \in ExportDecls(s.from)
    /\ Decls(s.from)[s.origin[2]].name = s.name
    /\ \E k \in 1 .. Len(Uses(u)) : Uses(u)[k] = [module |-> s.from, alias |-> alias]
ImportsAreExports ==
    \A u \in Compiled :
        /\ \A i \in 1 .. Len(scope[u]) :
             LET s == scope[u][i]
             IN  s.from # None /\ s.kind # "namespace" => Legitimate(u, s, None)
        /\ \A n \in Names : \A i \in 1 .. Len(members[u][n]) :
             Legitimate(u, members[u][n][i], n)

\* What the source says of the use statements before the k-th of unit u: which
\* of them provide the name n, and where n then comes from.
Exporters(m, n) == {i \in ExportDecls(m) : Decls(m)[i].name = n}
Provides(use, n) == use.alias = n \/ (use.alias = None /\ Exporters(use.module, n) # {})
Owns(u, n) == \E i \in 1 .. Len(Decls(u)) : Decls(u)[i].name = n
Providers(u, n, k) == {j \in 1 .. k - 1 : Provides(Uses(u)[j], n)}
Source(u, n, k) ==
    IF Owns(u, n) THEN {<<u, None>>}
    ELSE {<<Uses(u)[j].module, Uses(u)[j].alias>> :
            j \in {i \in Providers(u, n, k) : \A h \in Providers(u, n, k) : i <= h}}

\* Once the imports are done, what a name means in a unit follows from the
\* source alone: its own declaration, or the first use statement that has the
\* name.  The hash table's order of the modules does not show.
NamesFollowSource ==
    phase \in {"signatures", "bodies", "queue"} =>
        \A u \in Compiled, n \in Names :
            LET found == Lookup(scope[u], n)
            IN  Source(u, n, Len(Uses(u)) + 1) =
                    IF ~ InScope(scope[u], n) THEN {}
                    ELSE {<<IF found.from = None THEN u ELSE found.from,
                            IF found.kind = "namespace" THEN n ELSE None>>}

\* What is wrong with a declaration: a method without an owner, a name used
\* again in its unit.
Earlier(u, i, n) == {j \in 1 .. i - 1 : Decls(u)[j].name = n}
OwnerIsType(u, i) ==
    LET earlier == Earlier(u, i, Decls(u)[i].owner)
    IN  earlier # {} /\ Decls(u)[Max(earlier)].kind = "type"
DeclRefused(u, i) ==
    IF Decls(u)[i].kind = "method" THEN ~ OwnerIsType(u, i)
    ELSE Earlier(u, i, Decls(u)[i].name) # {}

\* What is wrong with a use statement: an alias that is taken, or an alias of
\* the module itself that takes the name of something it exports.
UseRefused(u, k) ==
    LET use == Uses(u)[k]
    IN  IF use.alias # None THEN Source(u, use.alias, k) # {}
        ELSE \E n \in Names : Exporters(use.module, n) # {} /\ <<use.module, n>> \in Source(u, n, k)

\* What the documents and the code judge differently: a method that repeats a
\* name; a module used again; an exported name that means something else
\* already; an alias.
RepeatedMethod(u, i) ==
    Decls(u)[i].kind = "method" /\ Earlier(u, i, Decls(u)[i].name) # {}
UsedAgain(u, k) ==
    LET use == Uses(u)[k]
    IN  use.alias = None /\ \E n \in Names :
            Exporters(use.module, n) # {} /\ <<use.module, None>> \in Source(u, n, k)
Conflicts(u, k) ==
    LET use == Uses(u)[k]
    IN  use.alias = None /\ \E n \in Names :
            Exporters(use.module, n) # {} /\ \E s \in Source(u, n, k) : s[1] # use.module
Aliases(u, k) == Uses(u)[k].alias # None

Refused(u) ==
    \/ \E i \in 1 .. Len(Decls(u)) : DeclRefused(u, i)
    \/ \E k \in 1 .. Len(Uses(u)) : UseRefused(u, k)
    \/ program.signatures[u] # "ok" \/ program.bodies[u] # "ok"
Disputed(u) ==
    \/ \E i \in 1 .. Len(Decls(u)) : RepeatedMethod(u, i)
    \/ \E k \in 1 .. Len(Uses(u)) : UsedAgain(u, k) \/ Conflicts(u, k) \/ Aliases(u, k)

\* The verdict is a matter of the program: whatever order the modules come in,
\* and although a failure cuts a phase short, a program with something wrong in
\* any of its units is rejected, and no other one is.  What the documents and
\* the code judge differently is no reason to accept a program here, nor to
\* reject it (see the properties at the end).
VerdictFollowsSource ==
    /\ verdict = "accepted" => \A u \in Compiled : ~ Refused(u)
    /\ verdict = "rejected" => \E u \in Compiled : Refused(u) \/ Disputed(u)

\* But for the target's module, marked when it is loaded (module.c:843), no
\* module is marked needs_linking when one of the phases failed.  The accepted
\* program links it and every module that has a statement, and no other.
LinkingFollowsPhases ==
    /\ linking \ {Target} # {} => \A e \in errors : program.bodies[e[1]] = "reported"
    /\ verdict = "accepted" =>
         linking = {m \in Compiled \ {Entry} : m = Target \/ Decls(m) # << >> \/ Uses(m) # << >>}

\* Analysis ends with a verdict.
Terminates == <>(verdict # "none")

(* What the documents say and the code does not do *)

\* "Subsequent use of the same module is idempotent."
\* (declarations-and-modules.md:21; the comment at semantic.c:1180)
UseIsIdempotent ==
    \A e \in errors : e[2] = "imports" =>
        ~ \E j \in 1 .. e[3] - 1 :
            Uses(e[1])[j] = Uses(e[1])[e[3]] /\ Uses(e[1])[e[3]].alias = None

\* "Name conflicts between imported symbols and existing symbols raise errors."
\* (declarations-and-modules.md:139)
ConflictsRaiseErrors ==
    verdict = "accepted" =>
        \A u \in Compiled : \A k \in 1 .. Len(Uses(u)) : ~ Conflicts(u, k)

\* "[R]eusing the same name within a single scope is an error."
\* (declarations-and-modules.md:132)
NamesAreUsedOnce ==
    verdict = "accepted" =>
        \A u \in Compiled : \A i, j \in 1 .. Len(Decls(u)) :
            Decls(u)[i].name = Decls(u)[j].name => i = j

\* "Import aliases [...] are not yet supported; attempting to write
\* use foo:bar; emits an error."  (declarations-and-modules.md:19)
AliasesAreErrors ==
    verdict = "accepted" =>
        \A u \in Compiled : \A k \in 1 .. Len(Uses(u)) : ~ Aliases(u, k)
==============================================================================
