-------------------------- MODULE MCSemanticDriver ---------------------------
(* SemanticDriver for TLC: an entry file and up to three modules that use    *)
(* each other in a chain, in every order the table can have them, with       *)
(* shared, private and repeated names, methods and aliases.  b is the module  *)
(* of the build target.                                                      *)
EXTENDS SemanticDriver, TLC

CONSTANTS entry, a, b, c, f, g, io, none

MCModules == {a, b, c}
MCNames == {f, g, io}

Value(n, public) == [name |-> n, kind |-> "value", public |-> public, owner |-> none]
Type(n) == [name |-> n, kind |-> "type", public |-> TRUE, owner |-> none]
Method(n, owner) == [name |-> n, kind |-> "method", public |-> TRUE, owner |-> owner]
Plain(m) == [module |-> m, alias |-> none]
Aliased(m, n) == [module |-> m, alias |-> n]

EntryDecls == {<< >>, <<Value(f, FALSE)>>, <<Method(g, f), Type(f)>>}
ModuleDecls == {<< >>, <<Value(f, TRUE)>>, <<Value(f, FALSE), Value(g, TRUE)>>,
                <<Type(f), Method(g, f), Method(g, f)>>, <<Value(g, TRUE), Value(g, TRUE)>>}
EntryUses == {<< >>, <<Plain(a)>>, <<Plain(a), Plain(b)>>, <<Plain(a), Plain(a)>>,
              <<Aliased(a, io), Plain(b)>>, <<Plain(b), Aliased(a, f)>>,
              <<Aliased(a, io), Aliased(b, io)>>, <<Aliased(a, f), Plain(a)>>}
ModuleUses(m) == {<< >>, <<Plain(m)>>, <<Aliased(m, f), Plain(m)>>}

\* What passes B and C make of a program: at most one thing fails.
Outcomes ==
    {[at |-> at, what |-> what] : at \in {entry, a}, what \in {"signatures", "failed", "reported"}}
    \cup {[at |-> entry, what |-> "nothing"]}

MCProgram(decls, uses, o) ==
    [decls |-> decls, uses |-> uses,
     signatures |-> [u \in Units |->
                       IF o.what = "signatures" /\ u = o.at THEN "failed" ELSE "ok"],
     bodies |-> [u \in Units |->
                       IF o.what \in {"failed", "reported"} /\ u = o.at THEN o.what ELSE "ok"]]

ByUnit(forEntry, forA, forB, forC) ==
    entry :> forEntry @@ a :> forA @@ b :> forB @@ c :> forC

\* Names: two modules, nothing else goes wrong.  Failures: one thing does.
\* Chains: the entry file uses a, which uses b, which uses c.
NamePrograms ==
    {MCProgram(ByUnit(de, da, db, << >>), ByUnit(ue, ua, << >>, << >>),
               [at |-> entry, what |-> "nothing"]) :
        de \in EntryDecls, da \in ModuleDecls, db \in ModuleDecls,
        ue \in EntryUses, ua \in ModuleUses(b)}
FailingPrograms ==
    {MCProgram(ByUnit(<< >>, da, <<Value(g, TRUE)>>, << >>),
               ByUnit(<<Plain(a)>>, ua, << >>, << >>), o) :
        da \in ModuleDecls, ua \in ModuleUses(b), o \in Outcomes}
ChainPrograms ==
    {MCProgram(ByUnit(<< >>, da, db, <<Value(io, TRUE)>>),
               ByUnit(<<Plain(a)>>, ua, ub, << >>), [at |-> entry, what |-> "nothing"]) :
        da \in ModuleDecls, db \in ModuleDecls, ua \in ModuleUses(b), ub \in ModuleUses(c)}

MCPrograms == NamePrograms \cup FailingPrograms \cup ChainPrograms
==============================================================================
