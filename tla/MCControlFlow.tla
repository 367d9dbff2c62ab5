----------------------------- MODULE MCControlFlow -----------------------------
(***************************************************************************)
(* Every body of at most four tokens; of five, those whose conditions are  *)
(* plain values; of six, of these the bodies of functions with a result    *)
(* that have no inner block, no bare ret and no statement without code.    *)
(***************************************************************************)
EXTENDS ControlFlow

Bound ==
    LET plain == \A p \in DOMAIN text : text[p].cond \in {"none", "value"}
        small == returns /\ \A p \in DOMAIN text : Kind(p) \notin {"silent", "block", "ret"}
    IN Len(text) <= 4 \/ (plain /\ (Len(text) = 5 \/ small))
================================================================================
