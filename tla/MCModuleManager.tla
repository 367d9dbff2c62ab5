--------------------------- MODULE MCModuleManager ---------------------------
(* Four modules, one of them reachable under two paths, and programs with    *)
(* chains, diamonds, repeated uses and cycles; the table has one chain at    *)
(* first and may grow to eight.                                              *)
EXTENDS ModuleManager, TLC

CONSTANTS a, b, c, d, a2    \* a2 is a second path to module a

MCModules == {a, b, c, d}
MCPaths == MCModules \cup {a2}
MCExpand == [path \in MCPaths |-> IF path = a2 THEN a ELSE path]
MCHash == a :> 0 @@ b :> 4 @@ c :> 6 @@ d :> 1

EntryLists == {<< >>, <<a>>, <<b, a2>>, <<d, c, b>>, <<a, b, c>>}
UseLists == {<< >>, <<a>>, <<b>>, <<c>>, <<a2, c>>, <<b, c>>, <<c, d>>}

MCPrograms == [entry : EntryLists,
               uses : {u \in [MCModules -> UseLists] : u[d] \in {<< >>, <<a>>, <<b, c>>}},
               broken : {{}, {a}, {b, d}}]
==============================================================================
