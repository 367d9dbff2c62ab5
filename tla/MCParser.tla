------------------------------- MODULE MCParser --------------------------------
(* Parser for TLC: expressions over a few tokens, whole declarations with one   *)
(* token missing or wrong, and the trees that expressions have to get.          *)
EXTENDS Parser, ConditionExpr, SequencesExt

id == "identifier"

\* All short sequences over some tokens, grammatical or not, and expressions
\* with each two operators, as initial values.
Operands == {id, "="} \cup {"+", "*", "(", ")"}
BinaryOps == UNION {Levels[i] : i \in DOMAIN Levels}
Expressions ==
    (SeqOf(Operands, 4) \ {<< >>})
    \cup {<<id, o, id, p, id>> : o, p \in BinaryOps}
    \cup {<<u, id, o, id>> : u \in UnaryOps, o \in BinaryOps}
\* Conditions: all short ones, and every two operators with brackets or not.
ConditionOps == UNION {ConditionLevels[i] : i \in DOMAIN ConditionLevels}
Atoms == {id, "int"}
Conditions ==
    (SeqOf(Atoms \cup ConditionOps \cup {"!", "(", ")"}, 3) \ {<< >>})
    \cup UNION {
        {<<a, o, id, p, b>>, <<a, o, "!", id, p, b>>, <<"!", a, o, id, p, b>>,
         <<"(", a, o, id, ")", p, b>>, <<a, o, "(", id, p, b, ")">>,
         <<"!", "(", a, o, id, ")", p, b>>, <<a, o, "(", id, p, b>>, <<a, o, b, p>>}
        : a, b \in Atoms, o, p \in ConditionOps}
Before == <<"val", id, ":", id, "=">>
InitialValue(e) == Before \o e \o <<";">>

\* Declarations without a body, with one token missing or another one, and one
\* that is in order after them.
Short == {
    <<"use", id, ":", id, ".", id, ";">>,
    <<"ext", "string", id, ":", id, "<", id, ">", ";">>,
    <<"def", id, ":", "fun", "(", id, ",", "...", ")", id, ";">>,
    <<"val", id, ":", "*", id, "=", "-", id, "[", "int", "]", ";">>}
After == <<"def", id, ":", id, ";">>
Damaged(d, kinds) ==
    {RemoveAt(d, i) : i \in DOMAIN d} \cup {ReplaceAt(d, i, k) : i \in DOMAIN d, k \in kinds}
ShortDamaged == UNION {Damaged(d, {"fun", "use", "str", ";", "(", "error"}) : d \in Short}

Long == {
    <<"#@symbol", "newline", "pub", "fun", id, "(", id, ":", id, ",", "...", ")", id,
      "{", "ret", id, "::", id, ";", "}", "#@symbol">>,
    <<"fun", id, "<", id, ">", ".", id, "<", id, ">", "(", ")", "{", "#@symbol", "newline",
      "val", id, ":", id, "=", "?", id, ";", "#@other", "}", "nil">>,
    <<"pub", "str", id, "<", id, ",", id, ">", "{", id, ":", "[", "int", "]", id, ";",
      id, ":", "uni", "{", id, ":", id, "}", "}", "var", "#@symbol", id, ":", id, ";">>,
    <<"fun", id, "(", ")", "{", "if", "(", id, ")", "{", "brk", ";", "}", "or", "(", id, ")",
      "{", "}", "or", "{", "cnt", ";", "}", "for", "{", "asm", "{", "{", "}", "}", ";", "}", "}">>,
    <<"val", id, ":", "[", "_", "]", id, "=", "[", "]", id, "{", "int", ",", id, "{", id, ":",
      "nil", "}", "}", ";", "asm", "{", "}", "#@symbol", "newline", "use", id, ";">>,
    <<"val", id, ":", id, "=", id, "<", id, "<=", id, ">", ">", "(", "float", ")", ".", id, "+",
      "size_of", "(", "*", id, ")", ";">>,
    <<"var", id, ":", "fun", "(", ")", "=", "str", "{", id, ":", id, "{", "}", ",", id, ":", "uni",
      "{", "}", "}", ";", "comment", "pub", "nil", "pub", "def", id, ":", id, ";">>}
LongDamaged == UNION {Damaged(d, {"}", "val", "#@symbol", "error"}) : d \in Long}

\* A function that is declared first and defined then.
Signature == <<"fun", id, "(", id, ":", id, ")", id>>
Forward == Signature \o <<";">> \o Signature \o <<"{", "ret", id, ";", "}">>

MCTexts ==
    {InitialValue(e) : e \in Expressions \cup Conditions} \cup {d \o After : d \in ShortDamaged}
    \cup Long \cup LongDamaged \cup {Forward}
------------------------------------------------------------------------------
(* The trees of expressions (doc/expressions.md), as sequences of nodes,        *)
(* operands first: "=" associates to the right, the other operators to the left. *)

Table == << {"="}, {"||"}, {"&&"}, {"|"}, {"^"}, {"&"}, {"==", "!="},
            {"<", ">", "<=", ">="}, {"<<", ">>"}, {"+", "-"}, {"*", "/", "%"} >>

RECURSIVE Trees(_, _)

\* The trees of a sequence that is split at i in two, and of one in brackets.
Split(e, i, n) ==
    LET left == IF e[i] = "=" THEN n + 1 ELSE n
        right == IF e[i] = "=" THEN n ELSE n + 1
    IN {l \o r \o <<Build("binary", e[i])>> :
           l \in Trees(SubSeq(e, 1, i - 1), left), r \in Trees(SubSeq(e, i + 1, Len(e)), right)}
Inner(e, i) == SubSeq(e, i + 1, Len(e) - 1)
Calls(e, i) ==
    {f \o a \o <<Node("call")>> :
        f \in Trees(SubSeq(e, 1, i - 1), 13),
        a \in IF i + 1 = Len(e) THEN {<< >>} ELSE Trees(Inner(e, i), 1)}

\* At level 12 come the unary operators, and 13 is what suffixes apply to.
Trees(e, n) ==
    IF e = << >> THEN {}
    ELSE IF n <= 11 THEN
        Trees(e, n + 1) \cup UNION {Split(e, i, n) : i \in {j \in DOMAIN e : e[j] \in Table[n]}}
    ELSE (IF n = 12 /\ Head(e) \in UnaryOps
          THEN {Append(t, Build("unary", Head(e))) : t \in Trees(Tail(e), 12)} ELSE {})
         \cup (IF e = <<id>> THEN {<<Build("ident", id)>>} ELSE {})
         \cup (IF Last(e) # ")" THEN {}
               ELSE (IF Head(e) = "(" THEN Trees(Inner(e, 1), 1) ELSE {})
                    \cup UNION {Calls(e, i) : i \in {j \in 2 .. Len(e) - 1 : e[j] = "("}})

\* A text that is read to its end and declares the value of an expression.
DeclaresValue ==
    /\ phase = "done" /\ SubSeq(text, 1, 5) = Before /\ "int" \notin Range(text)
    /\ text \notin Long \cup LongDamaged \cup {d \o After : d \in ShortDamaged}
Initial == SubSeq(text, 6, Len(text) - 1)
Chained(e) == \E i, j \in DOMAIN e : i # j /\ e[i] = "=" /\ e[j] = "="
Built(tree) == stmts = <<(<<Node("type name")>> \o tree \o <<Node("val")>>)>>

\* An initial value is accepted if and only if it has a tree, and it is that tree
\* that the parser builds (parser_parse_expr_prec), of chained assignments apart.
ParsesExpressions ==
    DeclaresValue =>
        LET trees == Trees(Initial, 1)
        IN  IF trees = {} THEN errors # << >>
            ELSE /\ errors = << >>
                 /\ Cardinality(trees) = 1
                 /\ ~Chained(Initial) => \E t \in trees : Built(t)

\* doc/expressions.md:11: assignment is right-associative, so of a = b = c it is b = c
\* that is assigned to a.
AssignmentIsRightAssociative ==
    DeclaresValue /\ Chained(Initial) => \A t \in Trees(Initial, 1) : Built(t)

\* doc/declarations-and-modules.md:110: a signature without a body declares a
\* function whose body comes with a second declaration.
FunctionsCanBeForwardDeclared == phase = "done" /\ text = Forward => errors = << >>

\* The value of an expression's nodes, operands first: a stack of values.
ValueOf(values, nodes) ==
    LET Step(stack, node) ==
            LET n == Len(stack)
            IN  CASE node.node \in {"ident", "lit"} -> Append(stack, values[node.of])
                  [] node.node = "unary" -> [stack EXCEPT ![n] = Truth(@ = 0)]
                  [] node.node = "binary" ->
                       Append(SubSeq(stack, 1, n - 2), Combined(node.of, stack[n - 1], stack[n]))
    IN  FoldLeft(Step, << >>, nodes)[1]

\* What a condition means after #@if is what it means in the language: the
\* evaluator of the preprocessor takes what the parser takes, calls excepted, and
\* its outcome is the truth of the tree that the parser builds, whatever the
\* values of names and numbers (preprocessor.c:433-686, parser.c:2261-2343).
ConditionsReadAsExpressions ==
    phase = "done" /\ text \in {InitialValue(e) : e \in Conditions} =>
        LET e == SubSeq(text, 6, Len(text) - 1)
            tree == IF stmts = << >> THEN << >> ELSE SubSeq(stmts[1], 2, Len(stmts[1]) - 1)
            taken == errors = << >> /\ Node("call") \notin Range(tree)
        IN  \A values \in [Atoms -> 0 .. 2] :
                LET outcome == EvalCondition(values, e)
                IN  /\ outcome.ok <=> taken
                    /\ taken => outcome.value = Truth(ValueOf(values, tree) # 0)

\* An error in a declaration without a body never costs the declaration after
\* it, whatever token is wrong: synchronization stops in time.
RecoversAtNext ==
    phase = "done" /\ text \in {d \o After : d \in ShortDamaged} =>
        stmts # << >> /\ Last(stmts) = <<Node("type name"), Node("def")>>
==============================================================================
