------------------------------ MODULE ModuleSet ------------------------------
(* What the module manager's table promises: a set of modules that a load    *)
(* adds to, one module at a time.                                            *)

CONSTANT Names     \* canonical module names

VARIABLE members   \* the modules loaded so far

Init == members = {}

Add(n) ==
    /\ n \notin members
    /\ members' = members \cup {n}

Next == \E n \in Names : Add(n)

Spec == Init /\ [][Next]_members
==============================================================================
