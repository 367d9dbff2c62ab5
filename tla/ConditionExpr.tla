---------------------------- MODULE ConditionExpr ----------------------------
(* preprocessor_eval_condition (preprocessor.c): the recursive descent that     *)
(* computes the condition of an #@if or #@or while it reads it. A condition is  *)
(* a sequence of lexemes with a blank between any two of them. The values of a  *)
(* name, which is 0 if no constant has it, and of a number are in values.       *)
EXTENDS Integers, Sequences

\* parse_or, parse_and and parse_equality differ in their operators only.
ConditionLevels == << {"||"}, {"&&"}, {"==", "!="} >>
UnaryCondition == Len(ConditionLevels) + 1

LexemeAt(e, p) == IF p > Len(e) THEN "end" ELSE e[p]

\* What a parsing function returns: *ok, the value, and the scanner's position.
Value(n, p) == [ok |-> TRUE, value |-> n, pos |-> p]
NotOk == [ok |-> FALSE, value |-> 0, pos |-> 0]

Truth(holds) == IF holds THEN 1 ELSE 0
Combined(operator, left, right) ==
    CASE operator = "||" -> Truth(left # 0 \/ right # 0)
      [] operator = "&&" -> Truth(left # 0 /\ right # 0)
      [] operator = "==" -> Truth(left = right)
      [] operator = "!=" -> Truth(left # right)

RECURSIVE EvalLevel(_, _, _, _), EvalOperators(_, _, _, _)

\* preprocessor_expr_parse_primary
EvalPrimary(values, e, p) ==
    CASE LexemeAt(e, p) \in DOMAIN values -> Value(values[e[p]], p + 1)
      [] LexemeAt(e, p) = "(" ->
           LET inner == EvalLevel(values, e, p + 1, 1)
           IN  IF inner.ok /\ LexemeAt(e, inner.pos) = ")"
               THEN Value(inner.value, inner.pos + 1) ELSE NotOk
      [] OTHER -> NotOk

\* preprocessor_expr_parse_unary
EvalUnary(values, e, p) ==
    IF LexemeAt(e, p) # "!" THEN EvalPrimary(values, e, p)
    ELSE LET operand == EvalLevel(values, e, p + 1, UnaryCondition)
         IN  IF operand.ok THEN Value(Truth(operand.value = 0), operand.pos) ELSE NotOk

\* The loop of a level over its operators, with what was read to their left.
\* A slip before it: operators of one level associate to the right.
EvalOperatorsRight(values, e, left, level) ==
    IF ~ left.ok \/ LexemeAt(e, left.pos) \notin ConditionLevels[level] THEN left
    ELSE LET right == EvalLevel(values, e, left.pos + 1, level)
         IN  IF right.ok THEN Value(Combined(e[left.pos], left.value, right.value), right.pos)
             ELSE NotOk

EvalOperators(values, e, left, level) ==
    IF ~ left.ok \/ LexemeAt(e, left.pos) \notin ConditionLevels[level] THEN left
    ELSE LET right == EvalLevel(values, e, left.pos + 1, level + 1)
         IN  IF ~ right.ok THEN NotOk
             ELSE EvalOperators(values, e,
                      Value(Combined(e[left.pos], left.value, right.value), right.pos), level)

EvalLevel(values, e, p, level) ==
    IF level = UnaryCondition THEN EvalUnary(values, e, p)
    ELSE EvalOperators(values, e, EvalLevel(values, e, p, level + 1), level)

\* preprocessor_eval_condition: nothing may be left over. An operand is read
\* whether or not the operator needs it, so that an error in it counts.
EvalCondition(values, e) ==
    LET whole == EvalLevel(values, e, 1, 1)
    IN  IF whole.ok /\ whole.pos = Len(e) + 1 THEN Value(Truth(whole.value # 0), whole.pos)
        ELSE NotOk
==============================================================================
