---------------------------- MODULE MCTypeLayout -----------------------------
(* TypeLayout for TLC: a struct or union, another one that can hold it, and  *)
(* an alias, in one or two units and in any order.                           *)
EXTENDS TypeLayout

CONSTANTS S, T, A, u8, i32, slice

MCTypes == {S, T, A}
MCPrims == {u8, i32, slice}
MCPrimSize == [p \in MCPrims |-> CASE p = u8 -> 1 [] p = i32 -> 4 [] p = slice -> 16]
MCPrimAlign == [p \in MCPrims |-> CASE p = u8 -> 1 [] p = i32 -> 4 [] p = slice -> 8]

One(b) == [base |-> b, count |-> 1]
Array(b, n) == [base |-> b, count |-> n]

UnitLists == {<<<<S, T, A>>>>, <<<<T, A, S>>>>, <<<<A, S>>, <<T>>>>, <<<<T>>, <<S, A>>>>}
Kinds == {k \in [MCTypes -> {"alias", "struct", "union"}] :
             \A t \in MCTypes : k[t] = "alias" <=> t = A}
SFields == {<< >>, <<One(u8), One(i32)>>, <<One(i32), One(u8), Array(u8, 3)>>,
            <<One(slice), One(u8)>>, <<One(u8), One(A), One(i32)>>}
TFields == {<< >>, <<One(u8), One(S), One(u8)>>, <<Array(S, 3), One(slice)>>,
            <<One(i32), Array(u8, 5), Array(S, 2), One(T)>>}
AFields == {<<One(u8)>>, <<One(S)>>, <<Array(i32, 2)>>}

MCPrograms ==
    [units : UnitLists, kind : Kinds,
     fields : {[t \in MCTypes |-> CASE t = S -> fs [] t = T -> ft [] t = A -> fa] :
                  fs \in SFields, ft \in TFields, fa \in AFields}]
==============================================================================
