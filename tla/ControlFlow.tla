------------------------------ MODULE ControlFlow ------------------------------
(***************************************************************************)
(* Statements of one function body: what the analysis accepts, the basic   *)
(* blocks codegen_stmt_fun and its helpers emit for them, the verifier     *)
(* that reads those blocks, and a run of the emitted code beside a run of  *)
(* the source.                                                             *)
(*                                                                         *)
(* A body is its statement tree written in preorder: an "if", "for" or     *)
(* "block" opens a body that a matching "end" closes, and an "or" starts   *)
(* the next branch of the chain it stands in.  A statement is identified   *)
(* by its position.  The `cond` of a token says what codegen_expr leaves   *)
(* for the condition: a "value"; the address of a "name", which is not     *)
(* loaded; a "composite", which has no truth value; or "none".             *)
(***************************************************************************)
EXTENDS Integers, Sequences, FiniteSets

CONSTANTS
    MaxTokens,      \* length of the longest body
    Conds           \* the kinds of condition a body may contain

ASSUME MaxTokensAssumption == MaxTokens \in Nat
ASSUME CondsAssumption == Conds \subseteq {"value", "name", "composite"}

VARIABLES
    text,           \* the tokens of the body
    returns,        \* the function has a return type
    phase,          \* "parse", "analyse", "generate", "run", "rejected", "done"
    pos,            \* the token codegen_stmt reads next
    frames,         \* the calls of codegen_stmt that are under way
    blocks,         \* the basic blocks of the LLVM function, as appended
    insert,         \* the block the builder stands at the end of
    breakTo,        \* ctx->break_block, 0 for NULL
    continueTo,     \* ctx->continue_block
    hasErrors,      \* ctx->has_errors
    src,            \* control of the run of the source
    pc              \* control of the run of the emitted code

code == <<frames, blocks, insert, breakTo, continueTo, hasErrors>>
control == <<src, pc>>
vars == <<text, returns, phase, pos, code, control>>

Simple == {"effect", "silent", "ret", "ret_value", "brk", "cnt", "block", "end"}
Tokens == [kind : Simple, cond : {"none"}]
            \cup [kind : {"if"}, cond : Conds]
            \cup [kind : {"or", "for"}, cond : Conds \cup {"none"}]

Openers == {"block", "if", "for"}
Kind(p) == text[p].kind
Named == \E p \in DOMAIN text : text[p].cond = "name"

--------------------------------------------------------------------------------
(* The shape of a body. *)

\* The tokens of some kinds after p, up to m.
Count(p, m, kinds) == Cardinality({k \in p + 1 .. m : Kind(k) \in kinds})

\* Every "end" between p and q matches an opener between them, and conversely.
Balanced(p, q) ==
    /\ \A m \in p + 1 .. q - 1 : Count(p, m, {"end"}) <= Count(p, m, Openers)
    /\ Count(p, q - 1, {"end"}) = Count(p, q - 1, Openers)

\* Positions after p that belong to the statement p is a part of: its "or"s, its "end".
Parts(p) == {q \in p + 1 .. Len(text) : Kind(q) \in {"or", "end"} /\ Balanced(p, q)}
NextPart(p) == CHOOSE q \in Parts(p) : \A r \in Parts(p) : q <= r
Closing(p) == CHOOSE q \in Parts(p) : Kind(q) = "end"
Opener(q) == CHOOSE p \in 1 .. q - 1 : Kind(p) \in Openers /\ Parts(p) # {} /\ Closing(p) = q

\* The loops around position p, and the innermost of them (0: none).
Loops(p) == {f \in 1 .. p - 1 : Kind(f) = "for" /\ p <= Closing(f)}
Loop(p) == IF Loops(p) = {} THEN 0 ELSE CHOOSE f \in Loops(p) : \A g \in Loops(p) : g <= f

\* Statements of `text`, and branches, that no "end" closes yet.
Open(p) == \A q \in Parts(p) : Kind(q) # "end"
Opened == {p \in DOMAIN text : Kind(p) \in Openers /\ Open(p)}
Unclosed == {p \in DOMAIN text : Kind(p) \in Openers \cup {"or"} /\ Open(p)}

--------------------------------------------------------------------------------
(* parser_parse_stmt_block and its callers: any well-nested body. *)

Write ==
    /\ phase = "parse"
    /\ \E t \in Tokens :
          /\ t.kind = "end" => Opened # {}
          /\ t.kind = "or" => /\ Opened # {}
                              /\ \A p \in Opened : (\A q \in Opened : q <= p) => Kind(p) = "if"
          /\ Len(text) + Cardinality(Opened)
               + (IF t.kind \in Openers THEN 2 ELSE IF t.kind = "end" THEN 0 ELSE 1) <= MaxTokens
          /\ text' = Append(text, t)
    /\ UNCHANGED <<returns, phase, pos, code, control>>

EndOfBody ==
    /\ phase = "parse"
    /\ Unclosed = {}
    /\ phase' = "analyse"
    /\ UNCHANGED <<text, returns, pos, code, control>>

\* analyze_ret_stmt, reached through analyze_stmt from analyze_function_body;
\* the other statements of this model are accepted as they stand.
RetMatches(p) == /\ Kind(p) = "ret" => ~returns
                 /\ Kind(p) = "ret_value" => returns

analyze_function_body ==
    /\ phase = "analyse"
    /\ phase' = IF \A p \in DOMAIN text : RetMatches(p) THEN "generate" ELSE "rejected"
    /\ UNCHANGED <<text, returns, pos, code, control>>

--------------------------------------------------------------------------------
(* Instructions and blocks. *)

Instr(op, id, then, else) == [op |-> op, id |-> id, then |-> then, else |-> else]
Br(id, target) == Instr("br", id, target, target)
Terminators == {"br", "condbr", "ret", "unreachable"}

\* LLVMGetBasicBlockTerminator(bs[b]) # NULL
Terminated(bs, b) == bs[b] # <<>> /\ bs[b][Len(bs[b])].op \in Terminators

\* LLVMBuild... at the end of block b
Emit(bs, b, instr) == [bs EXCEPT ![b] = Append(@, instr)]

\* LLVMAppendBasicBlockInContext, n times
WithNew(bs, n) == bs \o [i \in 1 .. n |-> <<>>]

\* A slip: the branch is emitted without asking for a terminator.
BranchIfOpenSlip(bs, b, target) == Emit(bs, b, Br(0, target))

\* "if no terminator yet, branch to target"
BranchIfOpen(bs, b, target) == IF Terminated(bs, b) THEN bs ELSE Emit(bs, b, Br(0, target))

CondFrame(chained, else, merge) ==
    [kind |-> "if", chained |-> chained, falls |-> FALSE, else |-> else, merge |-> merge]
ElseFrame(frame, falls) == [frame EXCEPT !.kind = "else", !.falls = falls]
ForFrame(loop, exit) ==
    [kind |-> "for", loop |-> loop, exit |-> exit, prevBreak |-> breakTo, prevContinue |-> continueTo]
BlockFrame == [kind |-> "block"]

Top == frames[Len(frames)]
Popped == SubSeq(frames, 1, Len(frames) - 1)
Within(kind) == frames # <<>> /\ Top.kind = kind

\* codegen_stmt is about to read a token: the else side of a chain is complete
\* before anything after it is read.
Reads(kinds) ==
    /\ phase = "generate"
    /\ pos <= Len(text)
    /\ Kind(pos) \in kinds
    /\ ~Within("else")

--------------------------------------------------------------------------------
(* codegen_stmt, one action for each kind of statement. *)

\* A declaration (it stores a zero first, with or without an initialiser), inline
\* assembly and most expressions emit instructions; a "silent" expression statement,
\* a bare name or a literal, emits none.
codegen_stmt_expr ==
    /\ Reads({"effect", "silent"})
    /\ blocks' = IF Kind(pos) = "effect" THEN Emit(blocks, insert, Instr("effect", pos, 0, 0)) ELSE blocks
    /\ pos' = pos + 1
    /\ UNCHANGED <<text, returns, phase, frames, insert, breakTo, continueTo, hasErrors, control>>

codegen_stmt_ret ==
    /\ Reads({"ret", "ret_value"})
    /\ blocks' = Emit(blocks, insert, Instr("ret", pos, 0, 0))
    /\ pos' = pos + 1
    /\ UNCHANGED <<text, returns, phase, frames, insert, breakTo, continueTo, hasErrors, control>>

codegen_stmt_brk ==
    /\ Reads({"brk", "cnt"})
    /\ LET target == IF Kind(pos) = "brk" THEN breakTo ELSE continueTo
       IN IF target # 0
          THEN blocks' = Emit(blocks, insert, Br(0, target)) /\ UNCHANGED hasErrors
          ELSE hasErrors' = TRUE /\ UNCHANGED blocks
    /\ pos' = pos + 1
    /\ UNCHANGED <<text, returns, phase, frames, insert, breakTo, continueTo, control>>

codegen_stmt_block ==
    /\ Reads({"block"})
    /\ frames' = Append(frames, BlockFrame)
    /\ pos' = pos + 1
    /\ UNCHANGED <<text, returns, phase, blocks, insert, breakTo, continueTo, hasErrors, control>>

\* The start of codegen_stmt_if for the token at pos, with the builder at the
\* end of block b of bs, below the frames fs.
BeginIf(bs, b, fs) ==
    IF text[pos].cond = "composite"
    THEN /\ hasErrors' = TRUE
         /\ pos' = Closing(pos) + 1
         /\ frames' = fs
         /\ blocks' = bs
         /\ insert' = b
    ELSE LET then == Len(bs) + 1
             else == Len(bs) + 2
             op == IF text[pos].cond = "none" THEN Br(0, then)
                   ELSE Instr("condbr", pos, then, else)
         IN /\ blocks' = Emit(WithNew(bs, 3), b, op)
            /\ insert' = then
            /\ frames' = Append(fs, CondFrame(Kind(pos) = "or", else, Len(bs) + 3))
            /\ pos' = pos + 1
            /\ UNCHANGED hasErrors

codegen_stmt_if ==
    /\ Reads({"if"})
    /\ BeginIf(blocks, insert, frames)
    /\ UNCHANGED <<text, returns, phase, breakTo, continueTo, control>>

\* The end of a then block: the frames with the builder moved to the else block.
ThenFalls == ~Terminated(blocks, insert)
AfterThen == Append(Popped, ElseFrame(Top, ThenFalls))

codegen_stmt_or ==
    /\ Reads({"or"})
    /\ Within("if")
    /\ BeginIf(BranchIfOpen(blocks, insert, Top.merge), Top.else, AfterThen)
    /\ UNCHANGED <<text, returns, phase, breakTo, continueTo, control>>

\* The then block of the last branch of a chain: there is no stmt_or.
EndOfThen ==
    /\ Reads({"end"})
    /\ Within("if")
    /\ blocks' = BranchIfOpen(blocks, insert, Top.merge)
    /\ insert' = Top.else
    /\ frames' = AfterThen
    /\ pos' = pos + 1
    /\ UNCHANGED <<text, returns, phase, breakTo, continueTo, hasErrors, control>>

\* A slip: whether the else block falls through is read after it was joined.
EndOfIfSlip ==
    /\ phase = "generate"
    /\ Within("else")
    /\ LET joined == BranchIfOpen(blocks, insert, Top.merge)
           elseFalls == ~Terminated(joined, insert)
       IN blocks' = IF Top.falls \/ elseFalls THEN joined
                    ELSE Emit(joined, Top.merge, Instr("unreachable", 0, 0, 0))
    /\ insert' = Top.merge
    /\ frames' = Popped
    /\ UNCHANGED <<text, returns, phase, pos, breakTo, continueTo, hasErrors, control>>

\* The end of codegen_stmt_if, once its else block is complete.
EndOfIf ==
    /\ phase = "generate"
    /\ Within("else")
    /\ LET joined == BranchIfOpen(blocks, insert, Top.merge)
           elseFalls == ~Terminated(blocks, insert)
       IN blocks' = IF Top.falls \/ elseFalls THEN joined
                    ELSE Emit(joined, Top.merge, Instr("unreachable", 0, 0, 0))
    /\ insert' = Top.merge
    /\ frames' = Popped
    /\ UNCHANGED <<text, returns, phase, pos, breakTo, continueTo, hasErrors, control>>

codegen_stmt_for ==
    /\ Reads({"for"})
    /\ LET loop == Len(blocks) + 1
           body == Len(blocks) + 2
           exit == Len(blocks) + 3
           entered == Emit(WithNew(blocks, 3), insert, Br(0, loop))
       IN /\ breakTo' = exit
          /\ continueTo' = loop
          /\ IF text[pos].cond = "composite"
             THEN /\ hasErrors' = TRUE
                  /\ blocks' = entered
                  /\ insert' = loop
                  /\ pos' = Closing(pos) + 1
                  /\ UNCHANGED frames
             ELSE /\ blocks' = Emit(entered, loop,
                                    IF text[pos].cond = "none" THEN Br(pos, body)
                                    ELSE Instr("condbr", pos, body, exit))
                  /\ insert' = body
                  /\ frames' = Append(frames, ForFrame(loop, exit))
                  /\ pos' = pos + 1
                  /\ UNCHANGED hasErrors
    /\ UNCHANGED <<text, returns, phase, control>>

\* Two slips: the context of the loop is left standing; the body falls out of it.
EndOfForSlip ==
    /\ Reads({"end"})
    /\ Within("for")
    /\ blocks' = BranchIfOpen(blocks, insert, Top.loop)
    /\ insert' = Top.exit
    /\ frames' = Popped
    /\ pos' = pos + 1
    /\ UNCHANGED <<text, returns, phase, breakTo, continueTo, hasErrors, control>>

EndOfForFallsOut ==
    /\ Reads({"end"})
    /\ Within("for")
    /\ blocks' = BranchIfOpen(blocks, insert, Top.exit)
    /\ breakTo' = Top.prevBreak
    /\ continueTo' = Top.prevContinue
    /\ insert' = Top.exit
    /\ frames' = Popped
    /\ pos' = pos + 1
    /\ UNCHANGED <<text, returns, phase, hasErrors, control>>

EndOfFor ==
    /\ Reads({"end"})
    /\ Within("for")
    /\ blocks' = BranchIfOpen(blocks, insert, Top.loop)
    /\ breakTo' = Top.prevBreak
    /\ continueTo' = Top.prevContinue
    /\ insert' = Top.exit
    /\ frames' = Popped
    /\ pos' = pos + 1
    /\ UNCHANGED <<text, returns, phase, hasErrors, control>>

EndOfBlock ==
    /\ Reads({"end"})
    /\ Within("block")
    /\ frames' = Popped
    /\ pos' = pos + 1
    /\ UNCHANGED <<text, returns, phase, blocks, insert, breakTo, continueTo, hasErrors, control>>

\* LLVMVerifyModule on the function: each block ends with its only terminator.
Valid(bs) ==
    \A b \in DOMAIN bs :
        /\ Terminated(bs, b)
        /\ \A i \in 1 .. Len(bs[b]) - 1 : bs[b][i].op \notin Terminators

\* The end of codegen_stmt_fun and of codegen_generate.
codegen_stmt_fun ==
    /\ phase = "generate"
    /\ pos > Len(text)
    /\ frames = <<>>
    /\ blocks' = IF Terminated(blocks, insert) THEN blocks
                 ELSE Emit(blocks, insert, Instr("ret", 0, 0, 0))
    /\ hasErrors' = (hasErrors \/ ~Valid(blocks'))
    /\ phase' = IF hasErrors' THEN "rejected" ELSE "run"
    /\ UNCHANGED <<text, returns, pos, frames, insert, breakTo, continueTo, control>>

--------------------------------------------------------------------------------
(* The two runs.  The source is at a token, which it executes or, when it  *)
(* arrives at an "or" after a false condition, tests.  The emitted code is *)
(* at an instruction.  Both meet at what can be observed: an effect, the   *)
(* test of a condition, an iteration of a loop, a return.                  *)

AtEnd == src.at > Len(text)
Observed ==
    IF AtEnd THEN <<"ret", 0>>
    ELSE CASE Kind(src.at) = "effect" -> <<"effect", src.at>>
           [] Kind(src.at) \in {"ret", "ret_value"} -> <<"ret", src.at>>
           [] Kind(src.at) = "for" -> <<"test", src.at>>
           [] Kind(src.at) = "if" \/ (src.tests /\ text[src.at].cond # "none") -> <<"test", src.at>>
           [] OTHER -> <<"none">>

Current == blocks[pc.block][pc.index]
Emitted ==
    CASE Current.op = "effect" -> <<"effect", Current.id>>
      [] Current.op = "ret" -> <<"ret", Current.id>>
      [] Current.op = "condbr" \/ (Current.op = "br" /\ Current.id # 0) -> <<"test", Current.id>>
      [] OTHER -> <<"none">>

At(p) == [at |-> p, tests |-> FALSE]
Tests(p) == [at |-> p, tests |-> TRUE]
Start(b) == [block |-> b, index |-> 1]

\* What the source does at a token with nothing to observe.
SourceMoves ==
    /\ phase = "run"
    /\ Observed = <<"none">>
    /\ src' = LET p == src.at
              IN CASE Kind(p) \in {"silent", "block"} -> At(p + 1)
                   [] Kind(p) = "or" -> IF src.tests THEN At(p + 1) ELSE At(Closing(p))
                   [] Kind(p) = "brk" -> At(Closing(Loop(p)) + 1)
                   [] Kind(p) = "cnt" -> At(Loop(p))
                   [] Kind(p) = "end" -> IF Kind(Opener(p)) = "for" THEN At(Opener(p)) ELSE At(p + 1)
    /\ UNCHANGED <<text, returns, phase, pos, code, pc>>

CodeMoves ==
    /\ phase = "run"
    /\ Observed # <<"none">>
    /\ Emitted = <<"none">> /\ Current.op = "br"
    /\ pc' = Start(Current.then)
    /\ UNCHANGED <<text, returns, phase, pos, code, src>>

Meet == phase = "run" /\ Observed # <<"none">> /\ Observed = Emitted
Diverged == phase = "run" /\ <<"none">> \notin {Observed, Emitted} /\ Observed # Emitted

Effect ==
    /\ Meet /\ Observed[1] = "effect"
    /\ src' = At(src.at + 1)
    /\ pc' = [pc EXCEPT !.index = @ + 1]
    /\ UNCHANGED <<text, returns, phase, pos, code>>

\* The condition has any value; the address of a name is never null.
Test ==
    /\ Meet /\ Observed[1] = "test"
    /\ \E true \in BOOLEAN :
          LET cond == text[src.at].cond
              holds == cond = "none" \/ true
              taken == cond \in {"none", "name"} \/ true
              next == NextPart(src.at)
          IN /\ src' = IF holds THEN At(src.at + 1)
                       ELSE IF Kind(src.at) = "for" \/ Kind(next) = "end" THEN At(next + 1)
                       ELSE Tests(next)
             /\ pc' = Start(IF taken THEN Current.then ELSE Current.else)
    /\ UNCHANGED <<text, returns, phase, pos, code>>

Return ==
    /\ Meet /\ Observed[1] = "ret"
    /\ phase' = "done"
    /\ UNCHANGED <<text, returns, pos, code, control>>

--------------------------------------------------------------------------------
Init ==
    /\ text = <<>>
    /\ returns \in BOOLEAN
    /\ phase = "parse"
    /\ pos = 1
    /\ frames = <<>>
    /\ blocks = << <<>> >>        \* "entry"
    /\ insert = 1
    /\ breakTo = 0
    /\ continueTo = 0
    /\ hasErrors = FALSE
    /\ src = At(1)
    /\ pc = Start(1)

Generate ==
    \/ codegen_stmt_expr \/ codegen_stmt_ret \/ codegen_stmt_brk \/ codegen_stmt_block
    \/ codegen_stmt_if \/ codegen_stmt_or \/ EndOfThen \/ EndOfIf
    \/ codegen_stmt_for \/ EndOfFor \/ EndOfBlock \/ codegen_stmt_fun

Run == SourceMoves \/ CodeMoves \/ Effect \/ Test \/ Return

Finished == (phase \in {"rejected", "done"} \/ Diverged) /\ UNCHANGED vars

Next == Write \/ EndOfBody \/ analyze_function_body \/ Generate \/ Run \/ Finished

Spec == Init /\ [][Next]_vars

--------------------------------------------------------------------------------
(* Properties. *)

Phases == {"parse", "analyse", "generate", "run", "rejected", "done"}

\* Every variable has its type; the builder and the loop context stand on blocks
\* of the function.
TypeOK ==
    /\ text \in Seq(Tokens)
    /\ returns \in BOOLEAN
    /\ phase \in Phases
    /\ pos \in 1 .. Len(text) + 1
    /\ insert \in DOMAIN blocks
    /\ {breakTo, continueTo} \subseteq DOMAIN blocks \cup {0}
    /\ hasErrors \in BOOLEAN
    /\ pc.block \in DOMAIN blocks

\* An instruction that follows a ret, brk or cnt in the same block.
EndsFlow(p) == Kind(p) \in {"ret", "ret_value", "brk", "cnt"}
Flat(p) == \/ Kind(p) \in {"silent", "block"}
           \/ Kind(p) = "end" /\ Kind(Opener(p)) = "block"
EmitsAfter(q, p) == /\ q < p
                    /\ EndsFlow(q)
                    /\ EndsFlow(p) \/ Kind(p) \in {"effect", "if", "for"}
                    /\ \A m \in q + 1 .. p - 1 : Flat(m)
DeadCode == \E q, p \in DOMAIN text : EmitsAfter(q, p)

\* Where control may go from token p of the source; an "or" is where its condition
\* is tested, and a branch that ends goes on behind the chain.
Follows(p) ==
    LET onwards(q) == IF q <= Len(text) /\ Kind(q) = "or" THEN Closing(q) ELSE q
        false == IF Kind(p) # "for" /\ Kind(NextPart(p)) = "or" THEN NextPart(p)
                 ELSE onwards(NextPart(p) + 1)
    IN CASE Kind(p) \in {"effect", "silent", "block"} -> {onwards(p + 1)}
         [] Kind(p) \in {"if", "or", "for"} ->
              {onwards(p + 1)} \cup IF text[p].cond = "none" THEN {} ELSE {false}
         [] Kind(p) = "end" -> {IF Kind(Opener(p)) = "for" THEN Opener(p) ELSE onwards(p + 1)}
         [] Kind(p) = "brk" /\ Loop(p) # 0 -> {onwards(Closing(Loop(p)) + 1)}
         [] Kind(p) = "cnt" /\ Loop(p) # 0 -> {Loop(p)}
         [] OTHER -> {}

\* A path through a function with a result reaches the end of its body.
SomePathLacksReturn ==
    /\ returns
    /\ \A S \in SUBSET (1 .. Len(text) + 1) :
          1 \in S /\ (\A p \in S \ {Len(text) + 1} : Follows(p) \subseteq S) => Len(text) + 1 \in S

\* A ret that does not match the function, a brk or cnt outside any loop, a condition
\* without truth value, or a statement right after one that ends the flow.
Wrong ==
    \/ \E p \in DOMAIN text :
          \/ ~RetMatches(p)
          \/ Kind(p) \in {"brk", "cnt"} /\ Loop(p) = 0
          \/ text[p].cond = "composite"
    \/ DeadCode

\* The verdict on a body is a matter of its source: a wrong one is rejected, and no
\* other.  Nothing is said of a body with a path that lacks its ret, which the code
\* accepts and doc/statements.md:52 and :90 reject: see EveryPathReturns.
VerdictFollowsBody ==
    phase \in {"run", "done", "rejected"} =>
        /\ Wrong => phase = "rejected"
        /\ phase = "rejected" => Wrong \/ SomePathLacksReturn

\* break_block and continue_block are those of the loop around the statement that
\* is generated, whatever loops were generated before it, unless an error was reported.
LoopContextIsInnermost ==
    phase = "generate" /\ pos <= Len(text) /\ ~hasErrors =>
        LET loops == {i \in DOMAIN frames : frames[i].kind = "for"}
        IN /\ Cardinality(loops) = Cardinality(Loops(pos))
           /\ IF loops = {} THEN breakTo = 0 /\ continueTo = 0
              ELSE \E i \in loops : /\ \A j \in loops : j <= i
                                    /\ breakTo = frames[i].exit
                                    /\ continueTo = frames[i].loop

\* Emitted code does what the source says: the two runs never meet at different
\* events, as long as no condition is a name.
FollowsSource == ~Named => ~Diverged

\* The branches of an if never all end the flow for codegen_stmt_if, since the
\* empty else block of the last branch falls through: no "unreachable" is emitted.
MergeIsReached ==
    \A b \in DOMAIN blocks : \A i \in DOMAIN blocks[b] : blocks[b][i].op # "unreachable"

\* doc/statements.md: each condition decides which way the run takes.
ConditionsDecide == ~Diverged

\* doc/statements.md:90: the analyser verifies that every code path in a non-void
\* function ends with a ret.
EveryPathReturns == phase \in {"run", "done"} => ~SomePathLacksReturn
================================================================================
