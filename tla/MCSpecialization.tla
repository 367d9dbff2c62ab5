-------------------------- MODULE MCSpecialization --------------------------
(* Small programs over a generic struct Box[T] and generic functions f[T]    *)
(* and g[U], one module.                                                     *)
EXTENDS Specialization

MCDeclared == <<"u8">>

Ask(what, generic, base, wrap) ==
    [what |-> what, generic |-> generic, base |-> base, wrap |-> wrap, void |-> FALSE]
Statement(r) == [r EXCEPT !.void = TRUE]

\* The fields of Box, what f and g do, and what the code around them asks for:
\* one or two things, wrapped in every way, of a box or of a name that only a
\* generic may use.
BoxFields == {<< >>, <<Ask("name", "Box", "T", "ptr")>>, <<Ask("type", "Box", "T", "none")>>}
FBodies == {<< >>,
            <<Ask("call", "f", "T", "none"), Ask("call", "g", "T", "none")>>,
            <<Ask("call", "f", "T", "ptr")>>,
            <<Ask("type", "Box", "T", "none"), Ask("call", "g", "Previous", "none")>>,
            <<Statement(Ask("call", "g", "U", "none"))>>}
GBodies == {<< >>, <<Ask("call", "f", "U", "none")>>, <<Ask("name", "g", "T", "none")>>}
RootCalls == {Ask("call", g, "u8", w) : g \in {"f", "g"}, w \in {"none", "ptr", "arr2", "arr3"}}
RootBodies ==
    {<<a>> : a \in RootCalls}
    \cup {<<a, Statement(b)>> : a \in RootCalls, b \in {c \in RootCalls : c.generic = "f" /\ c.wrap # "arr3"}}
    \cup {<<Ask("type", "Box", n, w), Ask("call", "f", "Previous", "ptr")>> :
             n \in {"u8", "T"}, w \in {"none", "arr2"}}
    \cup {<<Statement(Ask("call", "g", n, "none")), Ask("call", "f", "u8", "none")>> : n \in {"u8", "T"}}

MCPrograms ==
    {[param |-> [Box |-> "T", f |-> "T", g |-> "U"],
      signature |-> [Box |-> box, f |-> << >>, g |-> << >>, Main |-> <<Ask("type", "Box", "u8", "none")>>],
      body |-> [Box |-> << >>, f |-> f, g |-> g, Main |-> main]] :
        box \in BoxFields, f \in FBodies, g \in GBodies, main \in RootBodies}
=============================================================================
