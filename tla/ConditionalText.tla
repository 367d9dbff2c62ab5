--------------------------- MODULE ConditionalText ---------------------------
(* What conditional compilation promises, without frames or flags.           *)
(*                                                                           *)
(* A source is read line by line.  An open group is the sequence of the      *)
(* conditions its #@if and #@or directives have shown so far; the branch     *)
(* that is being read is selected when its condition is the first true one   *)
(* of its group, and a text line is kept when the branch being read is       *)
(* selected in every open group.                                             *)
EXTENDS Naturals, Sequences

VARIABLES
    groups,   \* the open groups, outermost first: a sequence of condition sequences
    line,     \* how many lines have been read
    kept,     \* the numbers of the text lines that were kept
    verdict   \* "reading", "accepted" or "rejected"

vars == <<groups, line, kept, verdict>>

\* The last condition of a group is its first true one.
FirstTrue(conditions) ==
    /\ conditions[Len(conditions)]
    /\ \A j \in 1 .. Len(conditions) - 1 : ~ conditions[j]

\* The branch being read is selected in every one of the groups.
Selected(open) == \A i \in 1 .. Len(open) : FirstTrue(open[i])

TypeOK ==
    /\ groups \in Seq(Seq(BOOLEAN))
    /\ line \in Nat
    /\ kept \subseteq Nat
    /\ verdict \in {"reading", "accepted", "rejected"}

Init ==
    /\ groups = << >>
    /\ line = 0
    /\ kept = {}
    /\ verdict = "reading"

NextLine == verdict = "reading" /\ line' = line + 1 /\ UNCHANGED verdict

Open(condition) ==
    /\ NextLine
    /\ groups' = Append(groups, <<condition>>)
    /\ UNCHANGED kept

Alternative(condition) ==
    /\ groups # << >>
    /\ NextLine
    /\ groups' = [groups EXCEPT ![Len(groups)] = Append(@, condition)]
    /\ UNCHANGED kept

Close ==
    /\ groups # << >>
    /\ NextLine
    /\ groups' = SubSeq(groups, 1, Len(groups) - 1)
    /\ UNCHANGED kept

\* A line that is not a directive; an empty one leaves no text to keep.
Text(empty) ==
    /\ NextLine
    /\ kept' = IF Selected(groups) /\ ~ empty THEN kept \cup {line + 1} ELSE kept
    /\ UNCHANGED groups

Accept ==
    /\ verdict = "reading"
    /\ groups = << >>
    /\ verdict' = "accepted"
    /\ UNCHANGED <<groups, line, kept>>

\* A malformed source may be refused at any line; the line counts as read.
Reject ==
    /\ verdict = "reading"
    /\ line' \in {line, line + 1}
    /\ verdict' = "rejected"
    /\ UNCHANGED <<groups, kept>>

Next ==
    \/ \E condition \in BOOLEAN : Open(condition) \/ Alternative(condition)
    \/ Close
    \/ \E empty \in BOOLEAN : Text(empty)
    \/ Accept
    \/ Reject

Spec == Init /\ [][Next]_vars
==============================================================================
