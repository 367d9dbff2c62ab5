-------------------------------- MODULE Parser --------------------------------
(* The parser of a file (parser.c): a stack machine that runs the grammar,     *)
(* with one token of lookahead, the #@symbol directive that names the next     *)
(* declaration, panic mode, and synchronization after an error. A parsing      *)
(* function that fails makes all functions that called it fail, so that the    *)
(* stack is dropped up to the statement of the top level.                      *)
EXTENDS MachGrammar

CONSTANT Texts       \* the files

ASSUME TextsAssumption == Texts \subseteq Seq(STRING)

VARIABLES
    text,            \* lexer: the lexemes of the file
    at,              \* current: the position of the current token
    pending,         \* pending_mangle: the position of the directive, or 0
    panic,           \* panic_mode
    errors,          \* the positions that errors are reported at
    phase,           \* where parser_parse_program is
    public,          \* is_public of parser_parse_stmt_top
    agenda,          \* what the active parsing functions have yet to do
    built,           \* the nodes of this statement, operands before operators
    stmts,           \* the statements of the program
    starts,          \* history: where statements started, at any level
    names            \* mangle_name: directives and the tokens after 'val', 'fun'

tokens == <<text, at, pending, panic, errors>>
vars == <<tokens, phase, public, agenda, built, stmts, starts, names>>

Phases == {"program", "top", "statement", "sync", "skip", "done"}
Declarators == {"val", "var", "fun"}
------------------------------------------------------------------------------
(* parser_advance, with the comments and error tokens it meets on the way *)

\* The last directive between two positions counts; a wrong one clears the name.
PendingAfter(p, q, old) ==
    LET directives == {r \in p + 1 .. q - 1 : text[r] \in {"#@symbol", "#@other"}}
    IN  IF directives = {} THEN old
        ELSE IF text[Max(directives)] = "#@symbol" THEN Max(directives) ELSE 0

Faults(p, q) == {r \in p + 1 .. q - 1 : text[r] \in {"error", "#@other"}}

\* Advance to the token after p, in panic mode or not.
AdvanceFrom(p, panicking) ==
    LET next == TokenAfter(text, p)
        faults == Faults(p, next)
    IN  /\ at' = next
        /\ pending' = PendingAfter(p, next, pending)
        /\ panic' = (panicking \/ faults # {})
        /\ errors' = IF panicking \/ faults = {} THEN errors ELSE Append(errors, Min(faults))
        /\ UNCHANGED text

\* parser_error at a position.
ReportAt(p) ==
    /\ panic' = TRUE
    /\ errors' = IF panic THEN errors ELSE Append(errors, p)

Init ==
    /\ text \in Texts
    /\ at = TokenAfter(text, 0)
    /\ pending = PendingAfter(0, at, 0)
    /\ panic = (Faults(0, at) # {})
    /\ errors = IF Faults(0, at) = {} THEN << >> ELSE <<Min(Faults(0, at))>>
    /\ phase = "program"
    /\ public = FALSE
    /\ agenda = << >>
    /\ built = << >>
    /\ stmts = << >>
    /\ starts = {}
    /\ names = {}
------------------------------------------------------------------------------
(* The statements of the top level *)

Here == KindAt(text, at)

\* parser_parse_program goes on to the next statement, with or without 'pub'.
StartTop ==
    /\ phase = "program"
    /\ Here # "eof"
    /\ phase' = "top"
    /\ public' = (Here = "pub")
    /\ IF Here = "pub" THEN AdvanceFrom(at, panic) ELSE UNCHANGED tokens
    /\ UNCHANGED <<agenda, built, stmts, starts, names>>

\* A slip: the error is reported, and the name still waits.
DropMangleNot ==
    IF pending # 0 /\ Here \notin Declarators
    THEN ReportAt(at) /\ UNCHANGED pending
    ELSE UNCHANGED <<pending, panic, errors>>

\* A name that waits is dropped unless what starts here can have one.
DropMangle ==
    IF pending # 0 /\ Here \notin Declarators
    THEN ReportAt(at) /\ pending' = 0
    ELSE UNCHANGED <<pending, panic, errors>>

ChooseTop ==
    /\ phase = "top"
    /\ DropMangle
    /\ starts' = starts \cup {at}
    /\ agenda' = ParseStmtTop(text, at, public)
    /\ phase' = "statement"
    /\ UNCHANGED <<text, at, public, built, stmts, names>>

\* A statement is complete. After 'nil' the parser does not synchronize.
EndTop ==
    /\ phase = "statement" /\ agenda = << >>
    /\ stmts' = Append(stmts, built)
    /\ built' = << >>
    /\ phase' = IF built = <<Build("lit", "nil")>> THEN "program" ELSE "sync"
    /\ UNCHANGED <<tokens, public, agenda, starts, names>>

FinishProgram ==
    /\ phase = "program"
    /\ Here = "eof"
    /\ phase' = "done"
    /\ UNCHANGED <<tokens, public, agenda, built, stmts, starts, names>>
------------------------------------------------------------------------------
(* Within a statement *)

Parsing(ops) == phase = "statement" /\ agenda # << >> /\ Head(agenda).op \in ops

Consume ==
    /\ Parsing({"token"})
    /\ Here = Head(agenda).kind
    /\ AdvanceFrom(at, panic)
    /\ agenda' = Tail(agenda)
    /\ UNCHANGED <<phase, public, built, stmts, starts, names>>

\* The statement is given up and its nodes are freed.
GiveUp ==
    /\ agenda' = << >>
    /\ built' = << >>
    /\ phase' = "sync"
    /\ UNCHANGED <<text, at, pending, public, stmts, starts, names>>

Mismatch ==
    /\ Parsing({"token", "fail"})
    /\ Head(agenda).op = "token" => Here # Head(agenda).kind
    /\ ReportAt(at)
    /\ GiveUp

\* A parsing function is entered. The lookahead for a method may not return.
Enter ==
    /\ Parsing({"optional", "repeat", "unless", "parameter", "expression", "operators",
                "name or literal", "part"})
    /\ Head(agenda) = Part("function name") => ~ LooksForever(text, at)
    /\ agenda' = Expansion(Head(agenda), text, at,
                           IF built = << >> THEN Node("") ELSE built[Len(built)]) \o Tail(agenda)
    /\ UNCHANGED <<tokens, phase, public, built, stmts, starts, names>>

BuildNode ==
    /\ Parsing({"build"})
    /\ built' = Append(built, Head(agenda))
    /\ agenda' = Tail(agenda)
    /\ UNCHANGED <<tokens, phase, public, stmts, starts, names>>

\* A statement of a block starts.
StartNested ==
    /\ Parsing({"check mangle"})
    /\ DropMangle
    /\ starts' = starts \cup {at}
    /\ agenda' = Tail(agenda)
    /\ UNCHANGED <<text, at, phase, public, built, stmts, names>>

\* parser_take_pending_mangle, when the keyword has been consumed.
TakePendingMangle ==
    /\ Parsing({"take mangle"})
    /\ names' = IF pending = 0 THEN names ELSE names \cup {[directive |-> pending, of |-> at]}
    /\ pending' = 0
    /\ agenda' = Tail(agenda)
    /\ UNCHANGED <<text, at, panic, errors, phase, public, built, stmts, starts>>

\* The text of an asm block is scanned for the '}' that ends it, and not lexed;
\* one ';' after it is passed over.
AsmEnd(p) ==
    LET close == Min(Ends(text, p, "{", "}"))
        next == Skipping(text, close, {Newline})
    IN  IF KindAt(text, next) = ";" THEN next ELSE close

ParseAsm ==
    /\ Parsing({"asm body"})
    /\ \/ /\ Here = "{" /\ Ends(text, at, "{", "}") # {}
          /\ AdvanceFrom(AsmEnd(at), panic)
          /\ agenda' = Tail(agenda)
          /\ built' = Append(built, Node("asm"))
          /\ UNCHANGED <<phase, public, stmts, starts, names>>
       \/ /\ Here = "{" => Ends(text, at, "{", "}") = {}
          /\ ReportAt(at)
          /\ GiveUp
------------------------------------------------------------------------------
(* Panic mode *)

\* A slip: one kind of declaration is forgotten.
RestartsButDef == {"use", "ext", "str", "uni", "val", "var", "fun", "asm"}

\* The keywords that synchronization stops at.
Restarts == {"use", "ext", "def", "str", "uni", "val", "var", "fun", "asm"}

\* A slip: the test for panic mode is the wrong way round.
SynchronizeInverted ==
    /\ phase = "sync"
    /\ phase' = IF panic THEN "program" ELSE "skip"
    /\ UNCHANGED <<tokens, public, agenda, built, stmts, starts, names>>

Synchronize ==
    /\ phase = "sync"
    /\ panic' = FALSE
    /\ phase' = IF panic THEN "skip" ELSE "program"
    /\ UNCHANGED <<text, at, pending, errors, public, agenda, built, stmts, starts, names>>

\* One turn of its loop.
Skip ==
    /\ phase = "skip"
    /\ IF Here \in Restarts \cup {"eof"} THEN UNCHANGED tokens ELSE AdvanceFrom(at, panic)
    /\ phase' = IF Here \in Restarts \cup {"eof", ";"} THEN "program" ELSE "skip"
    /\ UNCHANGED <<public, agenda, built, stmts, starts, names>>
------------------------------------------------------------------------------
Next ==
    \/ StartTop \/ ChooseTop \/ EndTop \/ FinishProgram
    \/ Consume \/ Mismatch \/ Enter \/ BuildNode
    \/ StartNested \/ TakePendingMangle \/ ParseAsm
    \/ Synchronize \/ Skip

Spec == Init /\ [][Next]_vars

\* The parser is one thread that runs until it returns.
FairSpec == Spec /\ WF_vars(Next)
------------------------------------------------------------------------------
(* Properties *)

TypeOK ==
    /\ text \in Seq(STRING)
    /\ at \in 1 .. Len(text) + 1
    /\ pending \in 0 .. Len(text)
    /\ panic \in BOOLEAN
    /\ \A i \in DOMAIN errors : errors[i] \in 1 .. Len(text) + 1
    /\ phase \in Phases
    /\ public \in BOOLEAN
    /\ agenda # << >> => phase = "statement"
    /\ \A i \in DOMAIN built : built[i].op = "build"
    /\ starts \subseteq 1 .. Len(text) + 1
    /\ names \subseteq [directive : 1 .. Len(text), of : 1 .. Len(text) + 1]

\* A directive names one declaration, the first statement that starts after the
\* directive, or the one it stands in, where it comes between the keyword and
\* the name: each statement that starts takes the name or drops it.
NamesNextStatement ==
    /\ \A n, m \in names : n.directive = m.directive => n = m
    /\ \A n \in names :
         /\ n.directive < n.of /\ text[n.directive] = "#@symbol"
         /\ \A s \in starts : n.directive < s /\ s < n.of =>
              /\ text[s] \in Declarators
              /\ \A r \in starts : n.directive < r /\ r < n.of => r = s

\* The parser comes to the end of every file in which the lookahead for a
\* method's name returns, whatever is wrong with the file.
EveryParseEnds ==
    <>(phase = "done" \/ (agenda # << >> /\ Head(agenda) = Part("function name")
                          /\ LooksForever(text, at)))
==============================================================================
