------------------------------ MODULE MachGrammar ------------------------------
(* The grammar of the parser (parser.c), one definition for each parsing      *)
(* function: what the function consumes, calls and builds, given the token    *)
(* where it starts. A text is a sequence of lexemes with a blank between any  *)
(* two of them; names, numbers and the text of comments are not told apart.   *)
EXTENDS Naturals, Sequences, FiniteSets, FiniteSetsExt

\* Lexemes that lexer_next skips, that parser_advance drops, and directives.
Newline == "newline"
Comments == {"comment", "#@symbol", "#@other"}
ErrorToken == "error"
Intrinsics == {"size_of", "align_of", "offset_of", "type_of"}

\* The token kind of a lexeme; past the end the lexer returns end-of-file.
KindAt(text, p) ==
    IF p > Len(text) THEN "eof"
    ELSE IF text[p] \in Intrinsics THEN "identifier" ELSE text[p]

\* The first position after p that is not one of a kind of lexemes.
Skipping(text, p, kinds) ==
    Min({q \in p + 1 .. Len(text) + 1 : KindAt(text, q) \notin kinds} \cup
        {q \in {p} : p > Len(text)})

\* The token the parser stands on after it advances from p, and the next one
\* the lookaheads see: these return error tokens as well.
TokenAfter(text, p) == Skipping(text, p, Comments \cup {Newline, ErrorToken})
PeekAfter(text, p) == Skipping(text, p, Comments \cup {Newline})

\* The positions of the brackets that end what is opened at p.
Ends(text, p, open, close) ==
    {q \in p + 1 .. Len(text) :
        Cardinality({r \in p .. q : text[r] = open}) =
        Cardinality({r \in p .. q : text[r] = close})}
------------------------------------------------------------------------------
(* Lookahead *)

\* The loop over type parameters does not stop at the end of the file.
Unclosed(text, p) == KindAt(text, p) = "<" /\ Ends(text, p, "<", ">") = {}

AfterParams(text, p) ==
    IF KindAt(text, p) = "<" THEN PeekAfter(text, Min(Ends(text, p, "<", ">"))) ELSE p

\* Where the '.' and the name of a method have to be, and what comes after.
Dot(text, p) == AfterParams(text, PeekAfter(text, p))
AfterName(text, name) == AfterParams(text, PeekAfter(text, name))

IsMethodDecl(text, p) ==
    /\ KindAt(text, p) = "identifier"
    /\ \E dot \in {Dot(text, p)} :
         /\ KindAt(text, dot) = "."
         /\ \E name \in {PeekAfter(text, dot)} :
              /\ KindAt(text, name) = "identifier"
              /\ KindAt(text, AfterName(text, name)) = "("

\* The lookahead of a function's name never returns.
LooksForever(text, p) ==
    /\ KindAt(text, p) = "identifier"
    /\ \/ Unclosed(text, PeekAfter(text, p))
       \/ \E dot \in {Dot(text, p)} :
            /\ KindAt(text, dot) = "."
            /\ \E name \in {PeekAfter(text, dot)} :
                 /\ KindAt(text, name) = "identifier"
                 /\ Unclosed(text, PeekAfter(text, name))

\* How many '<' are open after q when the characters from p on are counted. A
\* '>' that leaves some open makes the scan pass over the next character, which
\* is the second one of '>>' or '>=', or a blank.
OpenAngles(text, p, q) ==
    Cardinality({r \in p .. q : text[r] \in {"<", "<=", "<<"}})
    + Cardinality({r \in p .. q : text[r] = "<<"})
    - Cardinality({r \in p .. q : text[r] \in {">", ">=", ">>"}})

\* Whether '<' at p starts type arguments: on its line, before a ';', comes the
\* '>' that closes it, and a '(' after that.
ShouldParseTypeArgs(text, p) ==
    \E q \in p + 1 .. Len(text) :
        /\ text[q] = ">" /\ OpenAngles(text, p, q) = 0
        /\ \A r \in p .. q - 1 : OpenAngles(text, p, r) > 0
        /\ \A r \in p .. q : text[r] \notin Comments \cup {Newline, ";"}
        /\ \E r \in p + 1 .. q - 1 : text[r] \notin {"<", "<<", ">", ">=", ">>"}
        /\ KindAt(text, Skipping(text, q, {Newline})) = "("

\* A literal with a type in front has named fields.
HasFieldSyntax(text, p) ==
    KindAt(text, p) = "identifier" /\ KindAt(text, PeekAfter(text, p)) = ":"
------------------------------------------------------------------------------
(* The symbols of productions *)

Token(kind) == [op |-> "token", kind |-> kind]          \* parser_consume
Build(node, of) == [op |-> "build", node |-> node, of |-> of]
Node(node) == Build(node, "")
Part(name) == [op |-> "part", name |-> name]            \* a parsing function
Fail == [op |-> "fail"]                                 \* parser_error_at_current

\* If parser_match takes the first token of body; while it does; if parser_check
\* finds none of some kinds.
Optional(body) == [op |-> "optional", body |-> body]
Repeat(body) == [op |-> "repeat", body |-> body]
Unless(kinds, body) == [op |-> "unless", kinds |-> kinds, body |-> body]

\* do ... while (parser_match(parser, TOKEN_COMMA)), unless the list is empty.
Separated(element, close) == Unless({close}, element \o <<Repeat(<<Token(",")>> \o element)>>)
Parameter(element) == [op |-> "parameter", body |-> element]

Name == Token("identifier")
Type == Part("type")
Expression(min) == [op |-> "expression", min |-> min]
Operators(min) == [op |-> "operators", min |-> min]
Block == Part("block")

\* Steps that are not syntax: the name of a directive is taken, or dropped.
TakeMangle == [op |-> "take mangle"]
CheckMangle == [op |-> "check mangle"]
AsmBody == [op |-> "asm body"]
------------------------------------------------------------------------------
(* Types *)

TypeArguments == <<Token("<"), Separated(<<Type>>, ">"), Token(">")>>
GenericParams == <<Token("<"), Separated(<<Name>>, ">"), Token(">")>>

\* The fields up to '}', each but the last with a ';'.
FieldList ==
    <<Unless({"}", "eof"}, <<Name, Token(":"), Type, Optional(<<Token(";"), Part("fields")>>)>>)>>

TypeName == <<Name, Optional(TypeArguments), Node("type name")>>

\* '...' ends a list of parameters: what follows has to be ')'.
Parameters(element) == <<Token("("), Unless({")"}, <<Parameter(element)>>), Token(")")>>

TypeFun ==
    <<Token("fun")>> \o Parameters(<<Type>>) \o
    <<Unless({"eof", ";", ",", ")", "]", "}"}, <<Type>>), Node("type fun")>>

TypeArray == <<Token("["), Part("size"), Token("]"), Type, Node("type array")>>

TypeComposite(text, p) ==
    CASE KindAt(text, p) = "identifier" -> <<Name>>
      [] KindAt(text, p) = "{" -> <<Token("{")>> \o FieldList \o <<Token("}")>>
      [] OTHER -> <<Fail>>

ParseType(text, p) ==
    LET kind == KindAt(text, p)
    IN  CASE kind = "fun" -> TypeFun
          [] kind \in {"str", "uni"} -> <<Token(kind), Part("composite"), Build("type composite", kind)>>
          [] kind = "*" -> <<Token("*"), Type, Node("type ptr")>>
          [] kind = "[" -> TypeArray
          [] kind = "identifier" -> TypeName
          [] OTHER -> <<Fail>>
ArraySize(text, p) ==
    CASE KindAt(text, p) = "_" -> <<Token("_")>>
      [] KindAt(text, p) = "]" -> << >>
      [] OTHER -> <<Expression(1)>>
------------------------------------------------------------------------------
(* Expressions *)

\* The levels of binary operators from Precedence, PREC_ASSIGNMENT first.
Levels == << {"="}, {"||"}, {"&&"}, {"|"}, {"^"}, {"&"}, {"==", "!="},
             {"<", ">", "<=", ">="}, {"<<", ">>"}, {"+", "-"}, {"*", "/", "%"} >>
UnaryLevel == Len(Levels) + 1
BinaryPrecedence(kind) ==
    IF \E i \in DOMAIN Levels : kind \in Levels[i]
    THEN CHOOSE i \in DOMAIN Levels : kind \in Levels[i] ELSE 0
UnaryOps == {"!", "-", "+", "~", "?", "@", "*"}
Literals == {"int", "float", "char", "string", "nil", "..."}

Expr == Expression(1)
FieldInit == <<Name, Token(":"), Expr, Node("field")>>

\* Precedence climbing: an operand, then operators that bind tightly enough.
\* The right operand of each is of the next higher level.
ParseExprPrec(text, p, min) ==
    LET kind == KindAt(text, p)
    IN  (IF kind \in UnaryOps
         THEN <<Token(kind), Expression(UnaryLevel), Build("unary", kind)>>
         ELSE <<Part("atom"), Part("postfix")>>) \o <<Operators(min)>>

\* A slip: the right operand may be of the same level.
ParseOperatorsRight(text, p, min) ==
    LET kind == KindAt(text, p)
        prec == BinaryPrecedence(kind)
    IN  IF prec < min THEN << >>
        ELSE <<Token(kind), Expression(prec), Build("binary", kind), Operators(min)>>

ParseOperators(text, p, min) ==
    LET kind == KindAt(text, p)
        prec == BinaryPrecedence(kind)
    IN  IF prec < min THEN << >>
        ELSE <<Token(kind), Expression(prec + 1), Build("binary", kind), Operators(min)>>

ArrayLiteral ==
    <<Token("["), Part("size"), Token("]"), Type, Token("{"),
      Separated(<<Expr>>, "}"), Token("}"), Node("array")>>

AnonymousLiteral(kind) ==
    <<Token(kind), Token("{"), Separated(FieldInit, "}"), Token("}"), Build("struct", kind)>>

\* A name with '{' after it is the type of a literal.
NameOrLiteral(text, p, name) ==
    IF KindAt(text, p) = "{" THEN <<Token("{"), Part("typed literal")>>
    ELSE <<Build("ident", name)>>

TypedLiteral(text, p) ==
    IF HasFieldSyntax(text, p)
    THEN <<Separated(FieldInit, "}"), Token("}"), Build("struct", "name")>>
    ELSE <<Separated(<<Expr>>, "}"), Token("}"), Node("array")>>

ParseAtom(text, p) ==
    LET kind == KindAt(text, p)
    IN  CASE kind \in Literals -> <<Token(kind), Build("lit", kind)>>
          [] kind = "(" -> <<Token("("), Expr, Token(")")>>
          [] kind = "[" -> ArrayLiteral
          [] kind \in {"str", "uni"} -> AnonymousLiteral(kind)
          [] kind = "identifier" -> <<Name, [op |-> "name or literal", name |-> text[p]]>>
          [] OTHER -> <<Fail>>

\* The arguments of a call, which are types if the callee, which has just been
\* built, is the name of a type intrinsic.
FinishCall(callee) ==
    <<Separated(<<IF callee.node = "ident" /\ callee.of \in Intrinsics THEN Type ELSE Expr>>, ")"),
      Token(")"), Node("call")>>

\* One suffix, if there is one, and those after it.
ParsePostfix(text, p, operand) ==
    LET kind == KindAt(text, p)
        suffix ==
          CASE kind = "<" /\ ShouldParseTypeArgs(text, p) ->
                 TypeArguments \o <<Token("(")>> \o FinishCall(operand)
            [] kind = "(" -> <<Token("(")>> \o FinishCall(operand)
            [] kind = "[" -> <<Token("["), Expr, Token("]"), Node("index")>>
            [] kind = "." -> <<Token("."), Name, Node("field")>>
            [] kind = "::" -> <<Token("::"), Type, Node("cast")>>
            [] OTHER -> << >>
    IN  IF suffix = << >> THEN << >> ELSE suffix \o <<Part("postfix")>>
------------------------------------------------------------------------------
(* Statements *)

StmtUse ==
    <<Token("use"), Name, Optional(<<Token(":"), Name>>), Repeat(<<Token("."), Name>>),
      Token(";"), Node("use")>>

StmtExt ==
    <<Token("ext"), Optional(<<Token("string")>>), Name, Token(":"), Type, Token(";"), Node("ext")>>

StmtDef == <<Token("def"), Name, Token(":"), Type, Token(";"), Node("def")>>

\* A val has to have an initial value.
VarDecl(kind) ==
    <<Token(kind), TakeMangle, Name, Token(":"), Type>> \o
    (IF kind = "val" THEN <<Token("="), Expr>> ELSE <<Optional(<<Token("="), Expr>>)>>) \o
    <<Token(";"), Node(kind)>>

FunctionName(text, p) ==
    IF IsMethodDecl(text, p) THEN TypeName \o <<Token("."), Name>> ELSE <<Name>>

StmtFun ==
    <<Token("fun"), TakeMangle, Part("function name"), Optional(GenericParams)>> \o
    Parameters(<<Name, Token(":"), Type>>) \o
    <<Unless({"{"}, <<Type>>), Block, Node("fun")>>

StmtComposite(kind) ==
    <<Token(kind), Name, Optional(GenericParams), Token("{")>> \o FieldList \o
    <<Token("}"), Node(kind)>>

Condition == <<Token("("), Expr, Token(")")>>

StmtIf ==
    <<Token("if")>> \o Condition \o
    <<Block, Repeat(<<Token("or"), Optional(Condition), Block, Node("or")>>), Node("if")>>

StmtFor == <<Token("for"), Optional(Condition), Block, Node("for")>>

StmtBlock == <<Token("{"), Part("statements"), Token("}"), Node("block")>>
Statements == <<Unless({"}", "eof"}, <<CheckMangle, Part("statement"), Part("statements")>>)>>

StmtAsm == <<Token("asm"), AsmBody>>

ParseStmt(text, p) ==
    LET kind == KindAt(text, p)
    IN  CASE kind \in {"val", "var"} -> VarDecl(kind)
          [] kind = "if" -> StmtIf
          [] kind = "for" -> StmtFor
          [] kind \in {"brk", "cnt"} -> <<Token(kind), Token(";"), Node(kind)>>
          [] kind = "ret" -> <<Token("ret"), Unless({";"}, <<Expr>>), Token(";"), Node("ret")>>
          [] kind = "{" -> StmtBlock
          [] kind = "asm" -> StmtAsm
          [] OTHER -> <<Expr, Token(";"), Node("stmt expr")>>

\* A declaration of the top level; 'pub' does not go with every kind.
ParseStmtTop(text, p, public) ==
    LET kind == KindAt(text, p)
    IN  CASE kind \in {"use", "asm", "nil"} /\ public -> <<Fail>>
          [] kind = "nil" -> <<Token("nil"), Build("lit", "nil")>>
          [] kind = "use" -> StmtUse
          [] kind = "ext" -> StmtExt
          [] kind = "def" -> StmtDef
          [] kind \in {"val", "var"} -> VarDecl(kind)
          [] kind = "fun" -> StmtFun
          [] kind \in {"str", "uni"} -> StmtComposite(kind)
          [] kind = "asm" -> StmtAsm
          [] OTHER -> <<Fail>>

\* What one symbol stands for where the current token is at p and the node
\* built last is last.
Expansion(symbol, text, p, last) ==
    LET kind == KindAt(text, p)
        enters == kind = symbol.body[1].kind
    IN  CASE symbol.op = "optional" -> IF enters THEN symbol.body ELSE << >>
          [] symbol.op = "repeat" -> IF enters THEN symbol.body \o <<symbol>> ELSE << >>
          [] symbol.op = "unless" -> IF kind \in symbol.kinds THEN << >> ELSE symbol.body
          [] symbol.op = "parameter" ->
               IF kind = "..." THEN <<Token("...")>>
               ELSE symbol.body \o <<Optional(<<Token(","), symbol>>)>>
          [] symbol.op = "expression" -> ParseExprPrec(text, p, symbol.min)
          [] symbol.op = "operators" -> ParseOperators(text, p, symbol.min)
          [] symbol.op = "name or literal" -> NameOrLiteral(text, p, symbol.name)
          [] symbol.op = "part" ->
               CASE symbol.name = "type" -> ParseType(text, p)
                 [] symbol.name = "composite" -> TypeComposite(text, p)
                 [] symbol.name = "size" -> ArraySize(text, p)
                 [] symbol.name = "fields" -> FieldList
                 [] symbol.name = "atom" -> ParseAtom(text, p)
                 [] symbol.name = "postfix" -> ParsePostfix(text, p, last)
                 [] symbol.name = "typed literal" -> TypedLiteral(text, p)
                 [] symbol.name = "function name" -> FunctionName(text, p)
                 [] symbol.name = "block" -> StmtBlock
                 [] symbol.name = "statements" -> Statements
                 [] symbol.name = "statement" -> ParseStmt(text, p)
==============================================================================
