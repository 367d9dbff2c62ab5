---------------------------- MODULE Preprocessor -----------------------------
(* preprocessor_run of src/src/preprocessor.c: one pass over the lines of a  *)
(* source that keeps or blanks each of them according to the #@if, #@or and  *)
(* #@end directives, with an explicit stack of frames.                       *)
(*                                                                           *)
(* A line is a record: what the scan of its first characters makes of it     *)
(* (kind), the outcome of preprocessor_eval_condition for a directive that   *)
(* has a condition, and whether a newline ends it.  The condition language   *)
(* itself is abstracted to its outcome.                                      *)
EXTENDS Naturals, Sequences, FiniteSets
LOCAL INSTANCE SequencesExt

CONSTANT MaxLines        \* bound: the longest source that is read

ASSUME MaxLinesAssumption == MaxLines \in Nat

VARIABLES
    frames,        \* PreprocessorFrameStack: the open conditionals
    global_active, \* whether the line being read is in a selected branch
    line_no,       \* number of the line being read
    buffer,        \* the output: NewLine, or the number of the line whose text it is
    output,        \* PreprocessorOutput: success, message, line
    pc,            \* "lines", then "end" after the last line, then "returned"
    read,          \* history: the lines consumed so far
    conds          \* history: per open frame, the conditions seen in it

vars == <<frames, global_active, line_no, buffer, output, pc, read, conds>>
------------------------------------------------------------------------------
Outcome == {"true", "false", "invalid"}

\* "text" stands for every non-empty line that is no conditional directive,
\* #@ followed by another word included; "empty" is a line of no characters.
Lines ==
    [kind : {"if", "or"}, cond : Outcome, newline : BOOLEAN]
        \cup [kind : {"text", "empty", "end"}, cond : {"true"}, newline : BOOLEAN]

NewLine == 0

Frame == [parent_active : BOOLEAN, branch_taken : BOOLEAN, current_active : BOOLEAN]

Messages == {"none", "out of memory", "invalid #@if expression",
             "#@or without matching #@if", "invalid #@or expression",
             "#@end without matching #@if", "unterminated #@if block"}

Output == [success : BOOLEAN, message : Messages, line : Nat]

NoOutput == [success |-> FALSE, message |-> "none", line |-> 0]

TypeOK ==
    /\ frames \in Seq(Frame)
    /\ global_active \in BOOLEAN
    /\ line_no \in Nat \ {0}
    /\ buffer \in Seq(Nat)
    /\ output \in Output
    /\ pc \in {"lines", "end", "returned"}
    /\ read \in Seq(Lines)
    /\ conds \in Seq(Seq(BOOLEAN))

Init ==
    /\ frames = << >>
    /\ global_active = TRUE
    /\ line_no = 1
    /\ buffer = << >>
    /\ output = NoOutput
    /\ pc = "lines"
    /\ read = << >>
    /\ conds = << >>
------------------------------------------------------------------------------
FrameOf(parent, taken, current) ==
    [parent_active |-> parent, branch_taken |-> taken, current_active |-> current]

\* preprocessor_frame_stack_top and preprocessor_frame_stack_pop
Top == frames[Len(frames)]
Popped == SubSeq(frames, 1, Len(frames) - 1)

\* The loop takes the next line: a line without newline is the last one, and
\* only a newline advances line_no.
Take(line) ==
    /\ pc = "lines"
    /\ Len(read) < MaxLines
    /\ read' = Append(read, line)

Advance(line) ==
    /\ line_no' = IF line.newline THEN line_no + 1 ELSE line_no
    /\ pc' = IF line.newline THEN "lines" ELSE "end"
    /\ UNCHANGED output

\* What a directive leaves in the output: its newline, so that the lines
\* after it keep their numbers.
AppendNothing(line) == UNCHANGED buffer    \* a slip: the directive's line is dropped

AppendBlank(line) ==
    buffer' = IF line.newline THEN Append(buffer, NewLine) ELSE buffer

Failure(message) == [success |-> FALSE, message |-> message, line |-> line_no]

\* A handler that reports an error leaves the loop at once.
Return(message) ==
    /\ output' = Failure(message)
    /\ pc' = "returned"
    /\ UNCHANGED <<frames, global_active, line_no, buffer, conds>>

Holds(line) == line.cond = "true"

IfActive(line) == global_active /\ Holds(line)

HandleIf(line) ==
    /\ line.kind = "if"
    /\ Take(line)
    /\ \/ /\ line.cond = "invalid"
          /\ Return("invalid #@if expression")
       \/ /\ line.cond # "invalid"
          /\ frames' = Append(frames, FrameOf(global_active, IfActive(line), IfActive(line)))
          /\ global_active' = IfActive(line)
          /\ conds' = Append(conds, <<Holds(line)>>)
          /\ AppendBlank(line)
          /\ Advance(line)

\* A slip in OrActive: an earlier branch of the group may have been taken.
OrActiveAgain(line) == Top.parent_active /\ Holds(line)

OrActive(line) == Top.parent_active /\ ~ Top.branch_taken /\ Holds(line)
OrTakenBefore(line) == Top.branch_taken    \* a slip: this branch is not recorded

OrTaken(line) == Top.branch_taken \/ OrActive(line)

HandleOr(line) ==
    /\ line.kind = "or"
    /\ Take(line)
    /\ \/ /\ frames = << >>
          /\ Return("#@or without matching #@if")
       \/ /\ frames # << >>
          /\ line.cond = "invalid"
          /\ Return("invalid #@or expression")
       \/ /\ frames # << >>
          /\ line.cond # "invalid"
          /\ frames' = [frames EXCEPT ![Len(frames)] =
                          FrameOf(Top.parent_active, OrTaken(line), OrActive(line))]
          /\ global_active' = OrActive(line)
          /\ conds' = [conds EXCEPT ![Len(conds)] = Append(@, Holds(line))]
          /\ AppendBlank(line)
          /\ Advance(line)

EndActiveAlways == TRUE    \* a slip: the enclosing conditional is forgotten

EndActive == IF Popped = << >> THEN TRUE ELSE Popped[Len(Popped)].current_active

HandleEnd(line) ==
    /\ line.kind = "end"
    /\ Take(line)
    /\ \/ /\ frames = << >>
          /\ Return("#@end without matching #@if")
       \/ /\ frames # << >>
          /\ frames' = Popped
          /\ global_active' = EndActive
          /\ conds' = SubSeq(conds, 1, Len(conds) - 1)
          /\ AppendBlank(line)
          /\ Advance(line)

\* An ordinary line: its text when the branch is selected, its newline always.
TextLine(line) ==
    /\ line.kind \in {"text", "empty"}
    /\ Take(line)
    /\ LET kept == IF global_active /\ line.kind = "text"
                   THEN Append(buffer, line_no) ELSE buffer
       IN  buffer' = IF line.newline THEN Append(kept, NewLine) ELSE kept
    /\ UNCHANGED <<frames, global_active, conds>>
    /\ Advance(line)

\* An allocation fails while a line is handled: the copy of the line or a
\* frame ("out of memory"), or the buffer, which sets no message and no line.
OutOfMemory(line) ==
    /\ Take(line)
    /\ output' \in {Failure("out of memory"), NoOutput}
    /\ pc' = "returned"
    /\ UNCHANGED <<frames, global_active, line_no, buffer, conds>>

\* A slip in Finish: open frames are not looked at.
FinishUnchecked ==
    /\ pc = "end"
    /\ pc' = "returned"
    /\ output' = [success |-> TRUE, message |-> "none", line |-> 0]
    /\ UNCHANGED <<frames, global_active, line_no, buffer, read, conds>>

\* After the last line, an open frame is an error.
Finish ==
    /\ pc = "end"
    /\ pc' = "returned"
    /\ output' = IF frames # << >> THEN Failure("unterminated #@if block")
                 ELSE [success |-> TRUE, message |-> "none", line |-> 0]
    /\ UNCHANGED <<frames, global_active, line_no, buffer, read, conds>>

Next ==
    \/ \E line \in Lines :
         \/ HandleIf(line)
         \/ HandleOr(line)
         \/ HandleEnd(line)
         \/ TextLine(line)
         \/ OutOfMemory(line)
    \/ Finish

Spec == Init /\ [][Next]_vars
------------------------------------------------------------------------------
(* Properties *)

\* The lines whose text is in the output.
KeptLines == ToSet(buffer) \cap 1 .. Len(read)

Verdict == IF pc # "returned" THEN "reading"
           ELSE IF output.success THEN "accepted" ELSE "rejected"

\* The abstract selection this pass is held against.
Text == INSTANCE ConditionalText WITH
    groups  <- conds,
    line    <- Len(read),
    kept    <- KeptLines,
    verdict <- Verdict

Summarises(frame, open, i) ==
    /\ open[i] # << >>
    /\ frame.parent_active <=> \A k \in 1 .. i - 1 : Text!FirstTrue(open[k])
    /\ frame.branch_taken <=>
         frame.parent_active /\ \E j \in 1 .. Len(open[i]) : open[i][j]
    /\ frame.current_active <=> frame.parent_active /\ Text!FirstTrue(open[i])

\* Why the flags are enough: each frame sums up the conditions of its group
\* and of the groups around it, although #@or overwrites it in place and #@end
\* only looks at the frame below (preprocessor.c:727-729, 765-773, 787-794).
FramesSummarise ==
    /\ Len(frames) = Len(conds)
    /\ \A i \in 1 .. Len(frames) : Summarises(frames[i], conds, i)
    /\ global_active <=> Text!Selected(conds)

\* The conditional at line i is still open after line n, where the lines
\* from i to n hold at every point more #@if than #@end.
Directives(kind, i, n) == Cardinality({k \in i .. n : read[k].kind = kind})
Depth(i, n) == Directives("if", i, n) - Directives("end", i, n)
OpenAt(i, n) ==
    /\ read[i].kind = "if"
    /\ \A k \in i .. n : Directives("if", i, k) > Directives("end", i, k)

\* The branches of the conditional opened at line i, up to line n.
Branches(i, n) ==
    {i} \cup {k \in i .. n : read[k].kind = "or" /\ OpenAt(i, k) /\ Depth(i, k) = 1}

\* Of those branches the last one, in which line n lies, is the only true one.
InSelectedBranch(i, n) ==
    \A k \in Branches(i, n) :
        (read[k].cond = "true") <=> (\A j \in Branches(i, n) : j <= k)

KeptByText(n) ==
    /\ read[n].kind = "text"
    /\ \A i \in 1 .. n - 1 : OpenAt(i, n) => InSelectedBranch(i, n)

\* The lines that were handled without an error.
Handled == IF pc = "returned" /\ output.message # "unterminated #@if block"
                              /\ ~ output.success
           THEN Len(read) - 1 ELSE Len(read)

\* The text in the output is that of the lines whose every enclosing #@if
\* group is in its first true branch, as the source text nests them: the
\* frames and the flag of preprocessor_run never keep a line of another
\* branch and never lose one (preprocessor.c:716-796).
KeepsSelectedText ==
    KeptLines = {n \in 1 .. Handled : KeptByText(n)}

NewLinesBefore(k) == Cardinality({j \in 1 .. k - 1 : buffer[j] = NewLine})

\* A kept line stands in the output on the line number it has in the source,
\* and the output has as many line ends as the lines read, so that later
\* diagnostics point at the source ("preserve line number", preprocessor.c:868).
PreservesLineNumbers ==
    /\ \A k \in 1 .. Len(buffer) : buffer[k] # NewLine => NewLinesBefore(k) + 1 = buffer[k]
    /\ NewLinesBefore(Len(buffer) + 1)
         = Cardinality({n \in 1 .. Handled : read[n].newline})

WellFormed ==
    /\ \A n \in 1 .. Len(read) : read[n].cond # "invalid"
    /\ \A n \in 1 .. Len(read) : read[n].kind \in {"or", "end"} =>
           \E i \in 1 .. n - 1 : OpenAt(i, n - 1)
    /\ \A i \in 1 .. Len(read) : ~ OpenAt(i, Len(read))

\* The run succeeds only on a source whose directives nest properly and whose
\* conditions are all expressions, inactive regions included; and it refuses
\* such a source only when memory runs out (preprocessor.c:942-958).
SucceedsOnWellFormed ==
    pc = "returned" =>
        \/ output.success /\ WellFormed
        \/ ~ output.success /\ output.message \in {"out of memory", "none"}
        \/ ~ output.success /\ ~ WellFormed

\* An error is reported at the line that causes it: the line where the scan
\* stopped, and the last line of the source for a conditional left open.
ErrorLine ==
    pc = "returned" /\ output.message # "none" => output.line = Len(read)

\* The pass implements ConditionalText: frame handling, flags and early
\* returns are steps of the abstract selection (preprocessor_run).
ImplementsConditionalText == Text!Spec
==============================================================================
