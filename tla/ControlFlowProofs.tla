--------------------------- MODULE ControlFlowProofs ---------------------------
(* Theorems about ControlFlow. The inductive invariant follows the builder:    *)
(* the blocks that the calls of codegen_stmt under way have still to fill are  *)
(* empty, apart from one another and from the block the builder stands in, and *)
(* the loop context is the one saved by those calls.  A second one says which  *)
(* statement each call is for, and a third what the blocks tell of the tokens  *)
(* read so far, from which the verdict on the body follows.                    *)
EXTENDS ControlFlow, SequenceTheorems, FiniteSetTheorems, WellFoundedInduction, TLAPS

Ops == {"effect", "br", "condbr", "ret", "unreachable"}
Instrs == [op : Ops, id : Nat, then : Nat, else : Nat]
CondFrames == [kind : {"if", "else"}, chained : BOOLEAN, falls : BOOLEAN, else : Nat, merge : Nat]
ForFrames == [kind : {"for"}, loop : Nat, exit : Nat, prevBreak : Nat, prevContinue : Nat]
Frames == CondFrames \cup ForFrames \cup {BlockFrame}

\* The blocks a call has still to move the builder to.
Awaits(f) ==
    IF f.kind = "if" THEN {f.else, f.merge}
    ELSE IF f.kind = "else" THEN {f.merge}
    ELSE IF f.kind = "for" THEN {f.exit}
    ELSE {}

\* An instruction that may stand in one of n blocks, and the blocks of a function.
Proper(instr, n) ==
    /\ instr \in Instrs
    /\ instr.op # "unreachable"
    /\ instr.op \in {"br", "condbr"} => instr.then \in 1 .. n /\ instr.else \in 1 .. n
Code(bs) ==
    /\ bs \in Seq(Seq(Instrs))
    /\ \A b \in 1 .. Len(bs) : \A i \in 1 .. Len(bs[b]) : Proper(bs[b][i], Len(bs))

\* The blocks a loop goes back to, and those of the loop around it, are among n.
Known(f, n) == f.loop \in 1 .. n /\ f.prevBreak \in 0 .. n /\ f.prevContinue \in 0 .. n

Distinct(fs) ==
    /\ \A i \in 1 .. Len(fs) : fs[i].kind = "if" => fs[i].else # fs[i].merge
    /\ \A i, j \in 1 .. Len(fs) : i # j => \A a \in Awaits(fs[i]) : a \notin Awaits(fs[j])

\* The builder stands at the end of block b of bs, under the calls fs.
Builder(bs, b, fs) ==
    /\ Code(bs)
    /\ b \in 1 .. Len(bs)
    /\ fs \in Seq(Frames)
    /\ \A i \in 1 .. Len(fs) : fs[i].kind = "for" => Known(fs[i], Len(bs))
    /\ \A i \in 1 .. Len(fs) : \A a \in Awaits(fs[i]) : a \in 1 .. Len(bs) /\ a # b /\ bs[a] = <<>>
    /\ Distinct(fs)
    /\ \A i \in 1 .. Len(fs) - 1 : fs[i].kind = "else" => fs[i + 1].kind # "block"

\* The else block of an if is complete without an instruction or a branch, or
\* with a chain whose merge block has none.
ElseEmpty(bs, b, fs) == fs # <<>> /\ fs[Len(fs)].kind = "else" => bs[b] = <<>>

\* b and c are the context that the first n calls have set.
Context(fs, n, b, c) ==
    \/ /\ \A i \in 1 .. n : fs[i].kind # "for"
       /\ b = 0 /\ c = 0
    \/ \E i \in 1 .. n : /\ fs[i].kind = "for"
                         /\ \A j \in i + 1 .. n : fs[j].kind # "for"
                         /\ b = fs[i].exit /\ c = fs[i].loop
Saved(fs) == \A i \in 1 .. Len(fs) :
                 fs[i].kind = "for" => Context(fs, i - 1, fs[i].prevBreak, fs[i].prevContinue)

\* break_block and continue_block are those of the innermost loop that is being
\* generated, and each loop has saved those of the loop around it (codegen.c:1836-1901).
LoopContext == ~hasErrors => Context(frames, Len(frames), breakTo, continueTo) /\ Saved(frames)

Parse ==
    /\ text \in Seq(Tokens)
    /\ returns \in BOOLEAN
    /\ phase \in Phases
    /\ pos \in 1 .. Len(text) + 1
    /\ hasErrors \in BOOLEAN
    /\ phase # "parse" => Unclosed = {}

Context0 == breakTo \in 0 .. Len(blocks) /\ continueTo \in 0 .. Len(blocks)

Executes ==
    /\ pc \in [block : Nat, index : Nat]
    /\ pc.block \in 1 .. Len(blocks)
    /\ phase \notin {"run", "done"} => pc.index = 1
    /\ phase \in {"run", "done"} => Valid(blocks) /\ pc.index \in 1 .. Len(blocks[pc.block])

Inv ==
    /\ Parse
    /\ Builder(blocks, insert, frames)
    /\ ElseEmpty(blocks, insert, frames)
    /\ Context0
    /\ LoopContext
    /\ Executes
--------------------------------------------------------------------------------
(* What each operation of the builder keeps. *)

LEMMA EmitIs ==
    ASSUME NEW bs \in Seq(Seq(Instrs)), NEW b \in 1 .. Len(bs), NEW instr \in Instrs
    PROVE  /\ Emit(bs, b, instr) \in Seq(Seq(Instrs))
           /\ Len(Emit(bs, b, instr)) = Len(bs)
           /\ Emit(bs, b, instr)[b] = Append(bs[b], instr)
           /\ \A c \in 1 .. Len(bs) : c # b => Emit(bs, b, instr)[c] = bs[c]
<1>1. bs[b] \in Seq(Instrs)
  OBVIOUS
<1>2. Append(bs[b], instr) \in Seq(Instrs)
  BY <1>1
<1> QED  BY <1>2 DEF Emit

LEMMA EmitKeepsCode ==
    ASSUME NEW bs, Code(bs), NEW b \in 1 .. Len(bs), NEW instr, Proper(instr, Len(bs))
    PROVE  Code(Emit(bs, b, instr))
<1> DEFINE out == Emit(bs, b, instr)
<1>1. instr \in Instrs /\ bs \in Seq(Seq(Instrs))
  BY DEF Proper, Code
<1>2. /\ out \in Seq(Seq(Instrs))
      /\ Len(out) = Len(bs)
      /\ out[b] = Append(bs[b], instr)
      /\ \A c \in 1 .. Len(bs) : c # b => out[c] = bs[c]
  BY <1>1, EmitIs
<1> HIDE DEF out
<1>3. ASSUME NEW c \in 1 .. Len(out), NEW i \in 1 .. Len(out[c])
      PROVE  Proper(out[c][i], Len(out))
  <2>1. bs[b] \in Seq(Instrs)
    BY <1>1
  <2>2. CASE c # b
    BY <1>2, <1>3, <2>2 DEF Code
  <2>3. CASE c = b /\ i = Len(bs[b]) + 1
    BY <1>2, <2>1, <2>3
  <2>4. CASE c = b /\ i # Len(bs[b]) + 1
    <3>1. out[c] = Append(bs[b], instr) /\ Len(bs[b]) \in Nat
      BY <1>2, <2>1, <2>4
    <3>2. Len(out[c]) = Len(bs[b]) + 1
      BY <2>1, <3>1
    <3>3. i \in 1 .. Len(bs[b])
      BY <1>3, <2>4, <3>1, <3>2
    <3>4. out[c][i] = bs[b][i]
      BY <2>1, <3>1, <3>3
    <3> QED  BY <1>2, <2>4, <3>3, <3>4 DEF Code
  <2> QED  BY <2>2, <2>3, <2>4
<1> QED  BY <1>2, <1>3 DEF Code, out

\* An instruction at the builder's place disturbs no block that is awaited.
LEMMA EmitKeeps ==
    ASSUME NEW bs, NEW b, NEW fs, Builder(bs, b, fs), NEW instr, Proper(instr, Len(bs))
    PROVE  /\ Builder(Emit(bs, b, instr), b, fs)
           /\ Len(Emit(bs, b, instr)) = Len(bs)
           /\ \A c \in 1 .. Len(bs) : c # b => Emit(bs, b, instr)[c] = bs[c]
<1> DEFINE out == Emit(bs, b, instr)
<1>1. Code(bs) /\ b \in 1 .. Len(bs) /\ instr \in Instrs /\ bs \in Seq(Seq(Instrs))
  BY DEF Builder, Code, Proper
<1>2. Code(out)
  BY <1>1, EmitKeepsCode
<1>3. /\ Len(out) = Len(bs)
      /\ \A c \in 1 .. Len(bs) : c # b => out[c] = bs[c]
  BY <1>1, EmitIs
<1> HIDE DEF out
<1>4. Builder(out, b, fs)
  BY <1>2, <1>3 DEF Builder
<1> QED  BY <1>3, <1>4 DEF out

LEMMA WithNewKeeps ==
    ASSUME NEW bs, NEW b, NEW fs, Builder(bs, b, fs), NEW n \in Nat
    PROVE  /\ Builder(WithNew(bs, n), b, fs)
           /\ Len(WithNew(bs, n)) = Len(bs) + n
           /\ \A c \in Len(bs) + 1 .. Len(bs) + n : WithNew(bs, n)[c] = <<>>
           /\ \A i \in 1 .. Len(fs) : \A a \in Awaits(fs[i]) : a \in 1 .. Len(bs)
<1> DEFINE out == WithNew(bs, n)
           new == [i \in 1 .. n |-> <<>>]
<1>1. bs \in Seq(Seq(Instrs)) /\ b \in 1 .. Len(bs)
  BY DEF Builder, Code
<1>2. new \in Seq(Seq(Instrs)) /\ Len(new) = n
  OBVIOUS
<1>3. /\ out \in Seq(Seq(Instrs))
      /\ Len(out) = Len(bs) + n
      /\ \A c \in 1 .. Len(bs) : out[c] = bs[c]
      /\ \A c \in Len(bs) + 1 .. Len(bs) + n : out[c] = <<>>
  BY <1>1, <1>2 DEF WithNew
<1> HIDE DEF out, new
<1>4. Code(out)
  <2>1. ASSUME NEW c \in 1 .. Len(out), NEW i \in 1 .. Len(out[c])
        PROVE  Proper(out[c][i], Len(out))
    <3>1. CASE c \in 1 .. Len(bs)
      <4>1. Proper(bs[c][i], Len(bs))
        <5>1. i \in 1 .. Len(bs[c])
          BY <1>3, <2>1, <3>1
        <5> QED  BY <3>1, <5>1 DEF Builder, Code
      <4>2. out[c][i] = bs[c][i]
        BY <1>3, <3>1
      <4>3. Len(bs) \in Nat /\ Len(out) = Len(bs) + n
        BY <1>1, <1>3
      <4>4. \A k \in 1 .. Len(bs) : k \in 1 .. Len(out)
        BY <4>3
      <4> QED  BY <4>1, <4>2, <4>4 DEF Proper
    <3>2. CASE c \notin 1 .. Len(bs)
      <4>1. out[c] = <<>>
        BY <1>1, <1>3, <2>1, <3>2
      <4> QED  BY <4>1, <2>1
    <3> QED  BY <3>1, <3>2
  <2> QED  BY <1>3, <2>1 DEF Code
<1>5. Len(bs) \in Nat /\ \A c \in 1 .. Len(bs) : c \in 1 .. Len(out)
  BY <1>1, <1>3
<1>6. /\ fs \in Seq(Frames) /\ Distinct(fs)
      /\ \A i \in 1 .. Len(fs) : fs[i].kind = "for" => Known(fs[i], Len(bs))
      /\ \A i \in 1 .. Len(fs) : \A a \in Awaits(fs[i]) : a \in 1 .. Len(bs) /\ a # b /\ bs[a] = <<>>
      /\ \A i \in 1 .. Len(fs) - 1 : fs[i].kind = "else" => fs[i + 1].kind # "block"
  BY DEF Builder
<1>7. \A i \in 1 .. Len(fs) : fs[i].kind = "for" => Known(fs[i], Len(out))
  BY <1>5, <1>6 DEF Known
<1>8. \A i \in 1 .. Len(fs) : \A a \in Awaits(fs[i]) : a \in 1 .. Len(out) /\ a # b /\ out[a] = <<>>
  BY <1>3, <1>5, <1>6
<1>9. Builder(out, b, fs)
  BY <1>1, <1>4, <1>5, <1>6, <1>7, <1>8 DEF Builder
<1> QED  BY <1>3, <1>6, <1>9 DEF out

LEMMA MoveKeeps ==
    ASSUME NEW bs, NEW b, NEW fs, Builder(bs, b, fs), NEW c \in 1 .. Len(bs),
           \A i \in 1 .. Len(fs) : c \notin Awaits(fs[i])
    PROVE  Builder(bs, c, fs)
  BY DEF Builder

LEMMA PushKeeps ==
    ASSUME NEW bs, NEW b, NEW fs, Builder(bs, b, fs), NEW f \in Frames,
           f.kind = "for" => Known(f, Len(bs)),
           \A a \in Awaits(f) : a \in 1 .. Len(bs) /\ a # b /\ bs[a] = <<>>,
           f.kind = "if" => f.else # f.merge,
           \A i \in 1 .. Len(fs) : \A a \in Awaits(fs[i]) : a \notin Awaits(f),
           f.kind = "block" => ~(fs # <<>> /\ fs[Len(fs)].kind = "else")
    PROVE  Builder(bs, b, Append(fs, f))
<1> DEFINE out == Append(fs, f)
<1>1. fs \in Seq(Frames)
  BY DEF Builder
<1>2. /\ out \in Seq(Frames)
      /\ Len(out) = Len(fs) + 1
      /\ out[Len(fs) + 1] = f
      /\ \A i \in 1 .. Len(fs) : out[i] = fs[i]
  BY <1>1
<1> HIDE DEF out
<1>3. \A i \in 1 .. Len(out) : out[i].kind = "for" => Known(out[i], Len(bs))
  BY <1>1, <1>2 DEF Builder
<1>4. \A i \in 1 .. Len(out) : \A a \in Awaits(out[i]) : a \in 1 .. Len(bs) /\ a # b /\ bs[a] = <<>>
  BY <1>1, <1>2 DEF Builder
<1>5. Distinct(out)
  <2>1. Distinct(fs)
    BY DEF Builder
  <2>2. \A i \in 1 .. Len(out) : i \in 1 .. Len(fs) \/ i = Len(fs) + 1
    BY <1>1, <1>2
  <2>3. \A i \in 1 .. Len(out) : out[i].kind = "if" => out[i].else # out[i].merge
    BY <1>2, <2>1, <2>2 DEF Distinct
  <2>4. \A i, j \in 1 .. Len(out) : i # j => \A a \in Awaits(out[i]) : a \notin Awaits(out[j])
    BY <1>2, <2>1, <2>2 DEF Distinct
  <2> QED  BY <2>3, <2>4 DEF Distinct
<1>6. \A i \in 1 .. Len(out) - 1 : out[i].kind = "else" => out[i + 1].kind # "block"
  BY <1>1, <1>2 DEF Builder
<1> QED  BY <1>2, <1>3, <1>4, <1>5, <1>6 DEF Builder, out

LEMMA FrontIs ==
    ASSUME NEW S, NEW s \in Seq(S), Len(s) > 0
    PROVE  LET t == SubSeq(s, 1, Len(s) - 1)
           IN  /\ t \in Seq(S)
               /\ Len(t) = Len(s) - 1
               /\ \A i \in 1 .. Len(t) : t[i] = s[i]
  <1>1. /\ 1 \in Int /\ Len(s) - 1 \in Int /\ \A i \in 1 .. Len(s) - 1 : s[i] \in S
        /\ (Len(s) - 1) - 1 + 1 = Len(s) - 1 /\ \A i \in Int : 1 + i - 1 = i
    OBVIOUS
  <1>2. /\ SubSeq(s, 1, Len(s) - 1) \in Seq(S)
        /\ Len(SubSeq(s, 1, Len(s) - 1)) = IF 1 <= Len(s) - 1 THEN (Len(s) - 1) - 1 + 1 ELSE 0
        /\ \A i \in 1 .. (Len(s) - 1) - 1 + 1 : SubSeq(s, 1, Len(s) - 1)[i] = s[1 + i - 1]
    BY <1>1, SubSeqProperties
  <1> QED
    BY <1>1, <1>2

\* The call on top of fs returns to rest: the blocks it awaited are nobody else's.
Returned(bs, b, fs, top, rest) ==
    /\ Builder(bs, b, rest)
    /\ top \in Frames
    /\ Len(rest) = Len(fs) - 1
    /\ \A i \in 1 .. Len(rest) : rest[i] = fs[i]
    /\ \A i \in 1 .. Len(rest) : \A a \in Awaits(rest[i]) : a \notin Awaits(top)
    /\ \A a \in Awaits(top) : a \in 1 .. Len(bs) /\ a # b /\ bs[a] = <<>>
    /\ top.kind = "for" => Known(top, Len(bs))
    /\ top.kind = "if" => top.else # top.merge
    /\ top.kind = "block" => ElseEmpty(bs, b, rest)

LEMMA PopKeeps ==
    ASSUME NEW bs, NEW b, NEW fs, Builder(bs, b, fs), fs # <<>>,
           NEW top, top = fs[Len(fs)], NEW rest, rest = SubSeq(fs, 1, Len(fs) - 1)
    PROVE  Returned(bs, b, fs, top, rest)
<1>1. fs \in Seq(Frames) /\ Len(fs) \in Nat /\ Len(fs) > 0
  BY DEF Builder
<1>2. /\ rest \in Seq(Frames)
      /\ Len(rest) = Len(fs) - 1
      /\ \A i \in 1 .. Len(rest) : rest[i] = fs[i]
  BY <1>1, FrontIs
<1>3. top \in Frames
  BY <1>1
<1>4. Len(fs) \in 1 .. Len(fs)
  BY <1>1
<1>5. Distinct(fs) /\ \A i \in 1 .. Len(rest) : i \in 1 .. Len(fs) /\ i # Len(fs)
  BY <1>1, <1>2 DEF Builder
<1>6. Distinct(rest)
  BY <1>2, <1>5 DEF Distinct
<1>9. Builder(bs, b, rest)
  <2>1. \A i \in 1 .. Len(rest) - 1 : /\ i \in 1 .. Len(rest) /\ i + 1 \in 1 .. Len(rest)
                                      /\ i \in 1 .. Len(fs) - 1
    BY <1>1, <1>2
  <2>2. \A i \in 1 .. Len(rest) - 1 : rest[i].kind = "else" => rest[i + 1].kind # "block"
    BY <1>2, <2>1 DEF Builder
  <2> QED  BY <1>2, <1>5, <1>6, <2>2 DEF Builder
<1>10. \A i \in 1 .. Len(rest) : \A a \in Awaits(rest[i]) : a \notin Awaits(top)
  BY <1>2, <1>4, <1>5 DEF Distinct
<1>7. /\ \A a \in Awaits(top) : a \in 1 .. Len(bs) /\ a # b /\ bs[a] = <<>>
      /\ top.kind = "for" => Known(top, Len(bs))
      /\ top.kind = "if" => top.else # top.merge
  BY <1>4 DEF Builder, Distinct
<1>8. top.kind = "block" => ElseEmpty(bs, b, rest)
  <2>1. SUFFICES ASSUME top.kind = "block", rest # <<>>
                 PROVE  rest[Len(rest)].kind # "else"
    BY DEF ElseEmpty
  <2>2. Len(rest) \in 1 .. Len(fs) - 1 /\ Len(rest) \in 1 .. Len(rest)
    BY <1>1, <1>2, <2>1
  <2> QED  BY <1>1, <1>2, <2>1, <2>2 DEF Builder
<1> QED  BY <1>2, <1>3, <1>7, <1>8, <1>9, <1>10 DEF Returned
--------------------------------------------------------------------------------
(* What each operation keeps of the loop context. *)

LEMMA SameContext ==
    ASSUME NEW fs, NEW gs, NEW n \in Nat, \A i \in 1 .. n : fs[i] = gs[i],
           NEW b, NEW c, Context(fs, n, b, c)
    PROVE  Context(gs, n, b, c)
<1>1. CASE (\A i \in 1 .. n : fs[i].kind # "for") /\ b = 0 /\ c = 0
  BY <1>1 DEF Context
<1>2. CASE \E i \in 1 .. n : /\ fs[i].kind = "for"
                             /\ \A j \in i + 1 .. n : fs[j].kind # "for"
                             /\ b = fs[i].exit /\ c = fs[i].loop
  <2>1. PICK i \in 1 .. n : /\ fs[i].kind = "for"
                            /\ \A j \in i + 1 .. n : fs[j].kind # "for"
                            /\ b = fs[i].exit /\ c = fs[i].loop
    BY <1>2
  <2>2. \A j \in i + 1 .. n : j \in 1 .. n
    OBVIOUS
  <2> QED  BY <2>1, <2>2 DEF Context
<1> QED  BY <1>1, <1>2 DEF Context

\* The frames of a sequence that another one extends, and what they saved.
LEMMA SameSaved ==
    ASSUME NEW fs, NEW gs, NEW n \in Nat, \A i \in 1 .. n : fs[i] = gs[i],
           NEW i \in 1 .. n, fs[i].kind = "for",
           Context(fs, i - 1, fs[i].prevBreak, fs[i].prevContinue)
    PROVE  Context(gs, i - 1, gs[i].prevBreak, gs[i].prevContinue)
<1>1. i - 1 \in Nat /\ \A j \in 1 .. i - 1 : fs[j] = gs[j]
  OBVIOUS
<1>2. Context(gs, i - 1, fs[i].prevBreak, fs[i].prevContinue)
  BY <1>1, SameContext
<1> QED  BY <1>2

LEMMA PushContext ==
    ASSUME NEW fs \in Seq(Frames), NEW f \in Frames, NEW b, NEW c,
           Context(fs, Len(fs), b, c), Saved(fs)
    PROVE  LET out == Append(fs, f)
           IN /\ f.kind # "for" => Context(out, Len(out), b, c) /\ Saved(out)
              /\ f.kind = "for" /\ f.prevBreak = b /\ f.prevContinue = c =>
                     Context(out, Len(out), f.exit, f.loop) /\ Saved(out)
<1> DEFINE out == Append(fs, f)
<1>1. /\ Len(fs) \in Nat
      /\ Len(out) = Len(fs) + 1
      /\ out[Len(fs) + 1] = f
      /\ \A i \in 1 .. Len(fs) : fs[i] = out[i]
  OBVIOUS
<1> HIDE DEF out
<1>2. Context(out, Len(fs), b, c)
  BY <1>1, SameContext
<1>3. \A i \in 1 .. Len(fs) :
          out[i].kind = "for" => Context(out, i - 1, out[i].prevBreak, out[i].prevContinue)
  <2>1. SUFFICES ASSUME NEW i \in 1 .. Len(fs), out[i].kind = "for"
                 PROVE  Context(out, i - 1, out[i].prevBreak, out[i].prevContinue)
    OBVIOUS
  <2>2. fs[i].kind = "for" /\ Context(fs, i - 1, fs[i].prevBreak, fs[i].prevContinue)
    BY <1>1, <2>1 DEF Saved
  <2> QED  BY <1>1, <2>2, SameSaved
<1>4. \A i \in 1 .. Len(out) : i \in 1 .. Len(fs) \/ i = Len(fs) + 1
  BY <1>1
<1>5. CASE f.kind # "for"
  <2>1. Saved(out)
    BY <1>1, <1>3, <1>4, <1>5 DEF Saved
  <2>2. Context(out, Len(out), b, c)
    <3>1. CASE (\A i \in 1 .. Len(fs) : out[i].kind # "for") /\ b = 0 /\ c = 0
      BY <1>1, <1>4, <1>5, <3>1 DEF Context
    <3>2. CASE \E i \in 1 .. Len(fs) : /\ out[i].kind = "for"
                                       /\ \A j \in i + 1 .. Len(fs) : out[j].kind # "for"
                                       /\ b = out[i].exit /\ c = out[i].loop
      <4>1. PICK i \in 1 .. Len(fs) : /\ out[i].kind = "for"
                                      /\ \A j \in i + 1 .. Len(fs) : out[j].kind # "for"
                                      /\ b = out[i].exit /\ c = out[i].loop
        BY <3>2
      <4>2. /\ i \in 1 .. Len(out)
            /\ \A j \in i + 1 .. Len(out) : j \in i + 1 .. Len(fs) \/ j = Len(fs) + 1
        BY <1>1
      <4>3. \A j \in i + 1 .. Len(out) : out[j].kind # "for"
        BY <1>1, <1>5, <4>1, <4>2
      <4> QED  BY <4>1, <4>2, <4>3 DEF Context
    <3> QED  BY <1>2, <3>1, <3>2 DEF Context
  <2> QED  BY <1>5, <2>1, <2>2 DEF out
<1>6. CASE f.kind = "for" /\ f.prevBreak = b /\ f.prevContinue = c
  <2>1. Len(out) \in 1 .. Len(out) /\ Len(out) - 1 = Len(fs) /\ Len(out) + 1 .. Len(out) = {}
    BY <1>1
  <2>2. Saved(out)
    BY <1>1, <1>2, <1>3, <1>4, <1>6, <2>1 DEF Saved
  <2>3. Context(out, Len(out), f.exit, f.loop)
    BY <1>1, <1>6, <2>1 DEF Context
  <2> QED  BY <1>6, <2>2, <2>3 DEF out
<1> QED  BY <1>5, <1>6 DEF out

LEMMA PopContext ==
    ASSUME NEW fs \in Seq(Frames), NEW rest, Len(fs) > 0,
           Len(rest) = Len(fs) - 1, \A i \in 1 .. Len(rest) : rest[i] = fs[i],
           NEW top, top = fs[Len(fs)],
           NEW b, NEW c, Context(fs, Len(fs), b, c), Saved(fs)
    PROVE  /\ Saved(rest)
           /\ top.kind # "for" => Context(rest, Len(rest), b, c)
           /\ top.kind = "for" => Context(rest, Len(rest), top.prevBreak, top.prevContinue)
<1> DEFINE n == Len(fs) - 1
<1>1. /\ Len(fs) \in 1 .. Len(fs)
      /\ n \in Nat /\ Len(rest) = n
      /\ \A i \in 1 .. n : fs[i] = rest[i]
      /\ \A i \in 1 .. Len(fs) : i \in 1 .. n \/ i = Len(fs)
      /\ \A i \in 1 .. n : i \in 1 .. Len(fs)
  OBVIOUS
<1> HIDE DEF n
<1>2. Saved(rest)
  <2>1. SUFFICES ASSUME NEW i \in 1 .. n, rest[i].kind = "for"
                 PROVE  Context(rest, i - 1, rest[i].prevBreak, rest[i].prevContinue)
    BY <1>1 DEF Saved
  <2>2. fs[i].kind = "for" /\ Context(fs, i - 1, fs[i].prevBreak, fs[i].prevContinue)
    BY <1>1, <2>1 DEF Saved
  <2> QED  BY <1>1, <2>2, SameSaved
<1>3. ASSUME top.kind # "for"
      PROVE  Context(rest, n, b, c)
  <2>1. Context(fs, n, b, c)
    <3>1. CASE (\A i \in 1 .. Len(fs) : fs[i].kind # "for") /\ b = 0 /\ c = 0
      BY <1>1, <3>1 DEF Context
    <3>2. CASE \E i \in 1 .. Len(fs) : /\ fs[i].kind = "for"
                                       /\ \A j \in i + 1 .. Len(fs) : fs[j].kind # "for"
                                       /\ b = fs[i].exit /\ c = fs[i].loop
      <4>1. PICK i \in 1 .. Len(fs) : /\ fs[i].kind = "for"
                                      /\ \A j \in i + 1 .. Len(fs) : fs[j].kind # "for"
                                      /\ b = fs[i].exit /\ c = fs[i].loop
        BY <3>2
      <4>2. i \in 1 .. n /\ \A j \in i + 1 .. n : j \in i + 1 .. Len(fs)
        BY <1>1, <1>3, <4>1 DEF n
      <4> QED  BY <4>1, <4>2 DEF Context
    <3> QED  BY <3>1, <3>2 DEF Context
  <2> QED  BY <1>1, <2>1, SameContext
<1>4. ASSUME top.kind = "for"
      PROVE  Context(rest, n, top.prevBreak, top.prevContinue)
  <2>1. Context(fs, n, top.prevBreak, top.prevContinue)
    BY <1>1, <1>4 DEF Saved, n
  <2> QED  BY <1>1, <2>1, SameContext
<1> QED  BY <1>1, <1>2, <1>3, <1>4
--------------------------------------------------------------------------------
(* The actions of code generation. *)

LEMMA BranchProper ==
    ASSUME NEW n, NEW id \in Nat, NEW target \in 1 .. n
    PROVE  Proper(Br(id, target), n)
  BY DEF Proper, Br, Instr, Instrs, Ops

LEMMA BranchKeeps ==
    ASSUME NEW bs, NEW b, NEW fs, Builder(bs, b, fs), NEW target \in 1 .. Len(bs)
    PROVE  /\ Builder(BranchIfOpen(bs, b, target), b, fs)
           /\ Len(BranchIfOpen(bs, b, target)) = Len(bs)
           /\ \A c \in 1 .. Len(bs) : c # b => BranchIfOpen(bs, b, target)[c] = bs[c]
<1>1. Proper(Br(0, target), Len(bs))
  BY BranchProper
<1> QED  BY <1>1, EmitKeeps DEF BranchIfOpen

\* What depends on the text alone.
LEMMA SameText ==
    ASSUME text' = text
    PROVE  Unclosed' = Unclosed
<1>1. \A p : Kind(p)' = Kind(p)
  BY DEF Kind
<1>2. ASSUME NEW p, NEW m, NEW kinds
      PROVE  Count(p, m, kinds)' = Count(p, m, kinds)
  <2>1. {k \in p + 1 .. m : Kind(k) \in kinds}' = {k \in p + 1 .. m : Kind(k) \in kinds}
    BY <1>1
  <2> QED  BY <2>1 DEF Count
<1>4. \A p, q : Balanced(p, q)' <=> Balanced(p, q)
  BY <1>2 DEF Balanced
<1>5. \A p : Open(p)' <=> Open(p)
  BY <1>1, <1>4 DEF Open, Parts
<1> QED  BY <1>1, <1>5 DEF Unclosed

\* The step leaves the parse, and the run, as they are.
LEMMA StepKeeps ==
    ASSUME Inv, phase = "generate",
           text' = text, returns' = returns, phase' = phase, pc' = pc,
           pos' \in 1 .. Len(text) + 1, hasErrors' \in BOOLEAN,
           Builder(blocks', insert', frames'), ElseEmpty(blocks', insert', frames'),
           Len(blocks) <= Len(blocks'),
           breakTo' \in 0 .. Len(blocks'), continueTo' \in 0 .. Len(blocks'),
           ~hasErrors' => Context(frames', Len(frames'), breakTo', continueTo') /\ Saved(frames')
    PROVE  Inv'
<1>1. Parse'
  BY SameText DEF Inv, Parse
<1>2. Executes'
  BY DEF Inv, Executes, Builder, Code
<1> QED  BY <1>1, <1>2 DEF Inv, Context0, LoopContext

LEMMA ExprKeeps ==
    ASSUME Inv, codegen_stmt_expr
    PROVE  Inv'
<1>1. /\ phase = "generate" /\ pos \in 1 .. Len(text) /\ ~Within("else")
      /\ text' = text /\ returns' = returns /\ phase' = phase /\ pc' = pc
      /\ frames' = frames /\ insert' = insert /\ breakTo' = breakTo /\ continueTo' = continueTo
      /\ hasErrors' = hasErrors /\ pos' = pos + 1
      /\ blocks' = Emit(blocks, insert, Instr("effect", pos, 0, 0)) \/ blocks' = blocks
  BY DEF Inv, Parse, codegen_stmt_expr, Reads, control
<1>2. Proper(Instr("effect", pos, 0, 0), Len(blocks))
  BY <1>1 DEF Proper, Instr, Instrs, Ops
<1>3. Builder(blocks', insert', frames') /\ Len(blocks') = Len(blocks)
  BY <1>1, <1>2, EmitKeeps DEF Inv
<1>4. ElseEmpty(blocks', insert', frames')
  BY <1>1 DEF ElseEmpty, Within, Top
<1> QED
  BY <1>1, <1>3, <1>4, StepKeeps DEF Inv, Parse, Context0, LoopContext, Builder, Code

LEMMA RetKeeps ==
    ASSUME Inv, codegen_stmt_ret
    PROVE  Inv'
<1>1. /\ phase = "generate" /\ pos \in 1 .. Len(text) /\ ~Within("else")
      /\ text' = text /\ returns' = returns /\ phase' = phase /\ pc' = pc
      /\ frames' = frames /\ insert' = insert /\ breakTo' = breakTo /\ continueTo' = continueTo
      /\ hasErrors' = hasErrors /\ pos' = pos + 1
      /\ blocks' = Emit(blocks, insert, Instr("ret", pos, 0, 0))
  BY DEF Inv, Parse, codegen_stmt_ret, Reads, control
<1>2. Proper(Instr("ret", pos, 0, 0), Len(blocks))
  BY <1>1 DEF Proper, Instr, Instrs, Ops
<1>3. Builder(blocks', insert', frames') /\ Len(blocks') = Len(blocks)
  BY <1>1, <1>2, EmitKeeps DEF Inv
<1>4. ElseEmpty(blocks', insert', frames')
  BY <1>1 DEF ElseEmpty, Within, Top
<1> QED
  BY <1>1, <1>3, <1>4, StepKeeps DEF Inv, Parse, Context0, LoopContext, Builder, Code

LEMMA BrkKeeps ==
    ASSUME Inv, codegen_stmt_brk
    PROVE  Inv'
<1> DEFINE target == IF Kind(pos) = "brk" THEN breakTo ELSE continueTo
<1>1. /\ phase = "generate" /\ pos \in 1 .. Len(text) /\ ~Within("else")
      /\ text' = text /\ returns' = returns /\ phase' = phase /\ pc' = pc
      /\ frames' = frames /\ insert' = insert /\ breakTo' = breakTo /\ continueTo' = continueTo
      /\ hasErrors \in BOOLEAN /\ pos' = pos + 1
      /\ \/ target # 0 /\ blocks' = Emit(blocks, insert, Br(0, target)) /\ hasErrors' = hasErrors
         \/ hasErrors' = TRUE /\ blocks' = blocks
  BY DEF Inv, Parse, codegen_stmt_brk, Reads, control
<1>2. target # 0 => target \in 1 .. Len(blocks)
  BY DEF Inv, Context0, Builder, Code
<1>3. Builder(blocks', insert', frames') /\ Len(blocks') = Len(blocks)
  BY <1>1, <1>2, BranchProper, EmitKeeps DEF Inv
<1>4. ElseEmpty(blocks', insert', frames')
  BY <1>1 DEF ElseEmpty, Within, Top
<1> HIDE DEF target
<1>5. ~hasErrors' => Context(frames', Len(frames'), breakTo', continueTo') /\ Saved(frames')
  BY <1>1 DEF Inv, LoopContext
<1>6. /\ pos' \in 1 .. Len(text) + 1 /\ Len(blocks) <= Len(blocks') /\ hasErrors' \in BOOLEAN
      /\ breakTo' \in 0 .. Len(blocks') /\ continueTo' \in 0 .. Len(blocks')
  <2>1. Len(blocks) \in Nat /\ Len(text) \in Nat
    BY DEF Inv, Parse, Builder, Code
  <2>3. hasErrors' \in BOOLEAN
    BY <1>1
  <2>2. breakTo \in 0 .. Len(blocks) /\ continueTo \in 0 .. Len(blocks)
    BY DEF Inv, Context0
  <2> QED  BY <1>1, <1>3, <2>1, <2>2, <2>3
<1> QED  BY <1>1, <1>3, <1>4, <1>5, <1>6, StepKeeps

LEMMA BlockKeeps ==
    ASSUME Inv, codegen_stmt_block
    PROVE  Inv'
<1>1. /\ phase = "generate" /\ pos \in 1 .. Len(text) /\ ~Within("else")
      /\ text' = text /\ returns' = returns /\ phase' = phase /\ pc' = pc
      /\ frames' = Append(frames, BlockFrame)
      /\ blocks' = blocks /\ insert' = insert /\ breakTo' = breakTo /\ continueTo' = continueTo
      /\ hasErrors' = hasErrors /\ pos' = pos + 1
  BY DEF Inv, Parse, codegen_stmt_block, Reads, control
<1>2. /\ BlockFrame \in Frames /\ BlockFrame.kind = "block" /\ Awaits(BlockFrame) = {}
      /\ frames \in Seq(Frames)
  BY DEF BlockFrame, Frames, Awaits, Inv, Builder
<1>3. Builder(blocks', insert', frames')
  BY <1>1, <1>2, PushKeeps DEF Inv, Within, Top
<1>4. ElseEmpty(blocks', insert', frames')
  BY <1>1, <1>2 DEF ElseEmpty
<1>5. ~hasErrors' => Context(frames', Len(frames'), breakTo', continueTo') /\ Saved(frames')
  BY <1>1, <1>2, PushContext DEF Inv, LoopContext
<1>6. /\ pos' \in 1 .. Len(text) + 1 /\ Len(blocks) <= Len(blocks') /\ hasErrors' \in BOOLEAN
      /\ breakTo' \in 0 .. Len(blocks') /\ continueTo' \in 0 .. Len(blocks')
  BY <1>1 DEF Inv, Parse, Context0, Builder, Code
<1> QED  BY <1>1, <1>3, <1>4, <1>5, <1>6, StepKeeps

LEMMA ClosingIs ==
    ASSUME Inv, phase = "generate", pos \in 1 .. Len(text), Kind(pos) \in Openers \cup {"or"}
    PROVE  Closing(pos) \in 1 .. Len(text)
<1>1. pos \notin Unclosed /\ pos \in DOMAIN text
  BY DEF Inv, Parse
<1>2. \E q \in Parts(pos) : Kind(q) = "end"
  BY <1>1 DEF Unclosed, Open
<1>3. Closing(pos) \in Parts(pos)
  BY <1>2 DEF Closing
<1> QED  BY <1>3 DEF Parts

\* codegen_stmt_if, wherever the builder stands.
LEMMA BeginKeeps ==
    ASSUME Inv, phase = "generate", pos \in 1 .. Len(text), Kind(pos) \in {"if", "or"},
           NEW bs, NEW b, NEW fs, Builder(bs, b, fs), ElseEmpty(bs, b, fs), BeginIf(bs, b, fs)
    PROVE  /\ Builder(blocks', insert', frames')
           /\ ElseEmpty(blocks', insert', frames')
           /\ Len(bs) <= Len(blocks')
           /\ pos' \in 1 .. Len(text) + 1
           /\ hasErrors' \in BOOLEAN
           /\ hasErrors => hasErrors'
           /\ \/ frames' = fs
              \/ \E f \in Frames : f.kind = "if" /\ frames' = Append(fs, f)
<1>1. CASE text[pos].cond = "composite"
  <2>1. /\ hasErrors' = TRUE /\ pos' = Closing(pos) + 1
        /\ frames' = fs /\ blocks' = bs /\ insert' = b
    BY <1>1 DEF BeginIf
  <2>2. Closing(pos) \in 1 .. Len(text)
    BY ClosingIs DEF Openers
  <2>3. Len(bs) \in Nat /\ Len(text) \in Nat /\ hasErrors \in BOOLEAN
    BY DEF Builder, Code, Inv, Parse
  <2>4. pos' \in 1 .. Len(text) + 1 /\ Len(bs) <= Len(blocks') /\ hasErrors' \in BOOLEAN
    BY <2>1, <2>2, <2>3
  <2> QED  BY <2>1, <2>4
<1>2. CASE text[pos].cond # "composite"
  <2> DEFINE n == Len(bs)
             new == WithNew(bs, 3)
             op == IF text[pos].cond = "none" THEN Br(0, n + 1) ELSE Instr("condbr", pos, n + 1, n + 2)
             f == CondFrame(Kind(pos) = "or", n + 2, n + 3)
  <2>1. /\ blocks' = Emit(new, b, op) /\ insert' = n + 1
        /\ frames' = Append(fs, f) /\ pos' = pos + 1 /\ hasErrors' = hasErrors
    BY <1>2 DEF BeginIf
  <2>2. n \in Nat /\ fs \in Seq(Frames)
    BY DEF Builder, Code
  <2>3. /\ Builder(new, b, fs) /\ Len(new) = n + 3
        /\ \A c \in n + 1 .. n + 3 : new[c] = <<>>
        /\ \A i \in 1 .. Len(fs) : \A a \in Awaits(fs[i]) : a \in 1 .. n
    BY WithNewKeeps
  <2>4. Proper(op, n + 3)
    BY <2>2 DEF Proper, Br, Instr, Instrs, Ops
  <2>5. b \in 1 .. n
    BY DEF Builder
  <2> HIDE DEF new, op
  <2>6. /\ Builder(blocks', b, fs) /\ Len(blocks') = n + 3
        /\ \A c \in n + 1 .. n + 3 : blocks'[c] = <<>>
    <3>1. /\ Builder(Emit(new, b, op), b, fs) /\ Len(Emit(new, b, op)) = Len(new)
          /\ \A c \in 1 .. Len(new) : c # b => Emit(new, b, op)[c] = new[c]
      BY <2>3, <2>4, EmitKeeps
    <3> QED  BY <2>1, <2>2, <2>3, <2>5, <3>1
  <2>7. Builder(blocks', insert', fs)
    <3>1. n + 1 \in 1 .. Len(blocks') /\ n + 1 \notin 1 .. n
      BY <2>2, <2>6
    <3>2. \A i \in 1 .. Len(fs) : n + 1 \notin Awaits(fs[i])
      BY <2>3, <3>1, Zenon
    <3> QED  BY <2>1, <2>6, <3>1, <3>2, MoveKeeps
  <2>8. /\ f \in Frames /\ f.kind = "if" /\ f.else = n + 2 /\ f.merge = n + 3
        /\ Awaits(f) = {n + 2, n + 3}
    BY <2>2 DEF CondFrame, Frames, CondFrames, Awaits
  <2> HIDE DEF f
  <2>9. Builder(blocks', insert', frames')
    <3>1. \A a \in Awaits(f) : a \in 1 .. Len(blocks') /\ a # insert' /\ blocks'[a] = <<>>
      BY <2>1, <2>2, <2>6, <2>8
    <3>2. \A i \in 1 .. Len(fs) : \A a \in Awaits(fs[i]) : a \notin Awaits(f)
      <4>1. \A a \in 1 .. n : a \notin {n + 2, n + 3}
        BY <2>2
      <4> HIDE DEF n
      <4> QED  BY <2>3, <2>8, <4>1
    <3>3. f.kind # "for" /\ f.kind # "block" /\ f.else # f.merge
      BY <2>2, <2>8
    <3>4. Builder(blocks', insert', Append(fs, f))
      BY <2>7, <2>8, <3>1, <3>2, <3>3, PushKeeps
    <3> QED  BY <2>1, <3>4
  <2>10. ElseEmpty(blocks', insert', frames')
    BY <2>1, <2>2, <2>8 DEF ElseEmpty
  <2> QED  BY <2>1, <2>2, <2>6, <2>8, <2>9, <2>10 DEF Inv, Parse
<1> QED  BY <1>1, <1>2

LEMMA IfKeeps ==
    ASSUME Inv, codegen_stmt_if
    PROVE  Inv'
<1>1. /\ phase = "generate" /\ pos \in 1 .. Len(text) /\ Kind(pos) = "if"
      /\ text' = text /\ returns' = returns /\ phase' = phase /\ pc' = pc
      /\ breakTo' = breakTo /\ continueTo' = continueTo
      /\ BeginIf(blocks, insert, frames)
  BY DEF Inv, Parse, codegen_stmt_if, Reads, control
<1>2. Builder(blocks, insert, frames) /\ ElseEmpty(blocks, insert, frames) /\ frames \in Seq(Frames)
  BY DEF Inv, Builder
<1>3. /\ Builder(blocks', insert', frames')
      /\ ElseEmpty(blocks', insert', frames')
      /\ Len(blocks) <= Len(blocks')
      /\ pos' \in 1 .. Len(text) + 1
      /\ hasErrors' \in BOOLEAN
      /\ hasErrors => hasErrors'
      /\ \/ frames' = frames
         \/ \E f \in Frames : f.kind = "if" /\ frames' = Append(frames, f)
  BY <1>1, <1>2, BeginKeeps
<1>4. ~hasErrors' => Context(frames', Len(frames'), breakTo', continueTo') /\ Saved(frames')
  BY <1>1, <1>2, <1>3, PushContext DEF Inv, LoopContext
<1>5. breakTo' \in 0 .. Len(blocks') /\ continueTo' \in 0 .. Len(blocks')
  <2>1. Len(blocks) \in Nat /\ Len(blocks') \in Nat
    <3>1. Code(blocks) /\ Code(blocks')
      BY <1>2, <1>3 DEF Builder
    <3> QED  BY <3>1 DEF Code
  <2> QED  BY <1>1, <1>3, <2>1 DEF Inv, Context0
<1> QED  BY <1>1, <1>3, <1>4, <1>5, StepKeeps

\* The end of a then block: the builder moves to the else block, which is empty.
LEMMA AfterThenKeeps ==
    ASSUME Inv, Within("if")
    PROVE  LET joined == BranchIfOpen(blocks, insert, Top.merge)
           IN /\ Builder(joined, Top.else, AfterThen)
              /\ ElseEmpty(joined, Top.else, AfterThen)
              /\ Len(joined) = Len(blocks)
              /\ AfterThen \in Seq(Frames)
              /\ ~hasErrors => Context(AfterThen, Len(AfterThen), breakTo, continueTo) /\ Saved(AfterThen)
<1> DEFINE joined == BranchIfOpen(blocks, insert, Top.merge)
           f == ElseFrame(Top, ThenFalls)
<1>1. Builder(blocks, insert, frames) /\ frames # <<>> /\ Top.kind = "if"
  BY DEF Inv, Within
<1>2. /\ Builder(blocks, insert, Popped)
      /\ Top \in Frames
      /\ Len(Popped) = Len(frames) - 1
      /\ \A i \in 1 .. Len(Popped) : Popped[i] = frames[i]
      /\ \A i \in 1 .. Len(Popped) : \A a \in Awaits(Popped[i]) : a \notin Awaits(Top)
      /\ \A a \in Awaits(Top) : a \in 1 .. Len(blocks) /\ a # insert /\ blocks[a] = <<>>
      /\ Top.else # Top.merge
  <2>1. Top = frames[Len(frames)] /\ Popped = SubSeq(frames, 1, Len(frames) - 1)
    BY DEF Top, Popped
  <2>2. Returned(blocks, insert, frames, Top, Popped)
    BY <1>1, <2>1, PopKeeps
  <2> QED  BY <1>1, <2>2 DEF Returned
<1>3. /\ Awaits(Top) = {Top.else, Top.merge} /\ Top \in CondFrames
  BY <1>1, <1>2 DEF Awaits, Frames, ForFrames, BlockFrame
<1>4. /\ f \in Frames /\ f.kind = "else" /\ f.merge = Top.merge /\ Awaits(f) = {Top.merge}
  <2>1. f \in CondFrames /\ f.kind = "else" /\ f.merge = Top.merge
    BY <1>3 DEF ElseFrame, CondFrames, ThenFalls
  <2> QED  BY <2>1 DEF Frames, Awaits
<1>5. AfterThen = Append(Popped, f)
  BY DEF AfterThen
<1> HIDE DEF f
<1>6. /\ Builder(joined, insert, Popped)
      /\ Len(joined) = Len(blocks)
      /\ \A c \in 1 .. Len(blocks) : c # insert => joined[c] = blocks[c]
  BY <1>2, <1>3, BranchKeeps
<1> HIDE DEF joined
<1>7. Builder(joined, Top.else, Popped)
  <2>1. Top.else \in 1 .. Len(joined) /\ \A i \in 1 .. Len(Popped) : Top.else \notin Awaits(Popped[i])
    BY <1>2, <1>3, <1>6
  <2> QED  BY <1>6, <2>1, MoveKeeps
<1>8. Builder(joined, Top.else, AfterThen)
  <2>1. \A a \in Awaits(f) : a \in 1 .. Len(joined) /\ a # Top.else /\ joined[a] = <<>>
    BY <1>2, <1>3, <1>4, <1>6
  <2>2. \A i \in 1 .. Len(Popped) : \A a \in Awaits(Popped[i]) : a \notin Awaits(f)
    BY <1>2, <1>3, <1>4
  <2>3. f.kind # "for" /\ f.kind # "if" /\ f.kind # "block"
    BY <1>4
  <2> QED  BY <1>4, <1>5, <1>7, <2>1, <2>2, <2>3, PushKeeps
<1>9. joined[Top.else] = <<>>
  BY <1>2, <1>3, <1>6
<1>10. frames \in Seq(Frames) /\ Len(frames) > 0 /\ Popped \in Seq(Frames) /\ AfterThen \in Seq(Frames)
  BY <1>1, <1>2, <1>8 DEF Builder
<1>11. ~hasErrors => Context(AfterThen, Len(AfterThen), breakTo, continueTo) /\ Saved(AfterThen)
  <2>1. SUFFICES ASSUME ~hasErrors
                 PROVE  Context(AfterThen, Len(AfterThen), breakTo, continueTo) /\ Saved(AfterThen)
    OBVIOUS
  <2>2. Context(Popped, Len(Popped), breakTo, continueTo) /\ Saved(Popped)
    BY <1>1, <1>2, <1>10, <2>1, PopContext DEF Inv, LoopContext, Top
  <2>3. f.kind # "for"
    BY <1>4
  <2> QED  BY <1>4, <1>5, <1>10, <2>2, <2>3, PushContext
<1> QED  BY <1>6, <1>8, <1>9, <1>10, <1>11 DEF ElseEmpty, joined

LEMMA OrKeeps ==
    ASSUME Inv, codegen_stmt_or
    PROVE  Inv'
<1> DEFINE joined == BranchIfOpen(blocks, insert, Top.merge)
<1>1. /\ phase = "generate" /\ pos \in 1 .. Len(text) /\ Kind(pos) = "or" /\ Within("if")
      /\ text' = text /\ returns' = returns /\ phase' = phase /\ pc' = pc
      /\ breakTo' = breakTo /\ continueTo' = continueTo
      /\ BeginIf(joined, Top.else, AfterThen)
  BY DEF Inv, Parse, codegen_stmt_or, Reads, control
<1>2. /\ Builder(joined, Top.else, AfterThen)
      /\ ElseEmpty(joined, Top.else, AfterThen)
      /\ Len(joined) = Len(blocks)
      /\ AfterThen \in Seq(Frames)
      /\ ~hasErrors => Context(AfterThen, Len(AfterThen), breakTo, continueTo) /\ Saved(AfterThen)
  BY <1>1, AfterThenKeeps
<1> HIDE DEF joined
<1>3. /\ Builder(blocks', insert', frames')
      /\ ElseEmpty(blocks', insert', frames')
      /\ Len(joined) <= Len(blocks')
      /\ pos' \in 1 .. Len(text) + 1
      /\ hasErrors' \in BOOLEAN
      /\ hasErrors => hasErrors'
      /\ \/ frames' = AfterThen
         \/ \E f \in Frames : f.kind = "if" /\ frames' = Append(AfterThen, f)
  BY <1>1, <1>2, BeginKeeps
<1>4. ~hasErrors' => Context(frames', Len(frames'), breakTo', continueTo') /\ Saved(frames')
  BY <1>1, <1>2, <1>3, PushContext
<1>5. /\ Len(blocks) <= Len(blocks')
      /\ breakTo' \in 0 .. Len(blocks') /\ continueTo' \in 0 .. Len(blocks')
  <2>1. Len(blocks) \in Nat /\ Len(blocks') \in Nat
    BY <1>3 DEF Inv, Builder, Code
  <2> QED  BY <1>1, <1>2, <1>3, <2>1 DEF Inv, Context0
<1> QED  BY <1>1, <1>3, <1>4, <1>5, StepKeeps

LEMMA EndOfThenKeeps ==
    ASSUME Inv, EndOfThen
    PROVE  Inv'
<1>1. /\ phase = "generate" /\ pos \in 1 .. Len(text) /\ Within("if")
      /\ text' = text /\ returns' = returns /\ phase' = phase /\ pc' = pc
      /\ breakTo' = breakTo /\ continueTo' = continueTo /\ hasErrors' = hasErrors
      /\ blocks' = BranchIfOpen(blocks, insert, Top.merge)
      /\ insert' = Top.else /\ frames' = AfterThen /\ pos' = pos + 1
  BY DEF Inv, Parse, EndOfThen, Reads, control
<1>2. /\ Builder(blocks', insert', frames')
      /\ ElseEmpty(blocks', insert', frames')
      /\ Len(blocks') = Len(blocks)
      /\ ~hasErrors => Context(frames', Len(frames'), breakTo, continueTo) /\ Saved(frames')
  BY <1>1, AfterThenKeeps
<1>3. /\ Len(blocks) <= Len(blocks') /\ pos' \in 1 .. Len(text) + 1 /\ hasErrors' \in BOOLEAN
      /\ breakTo' \in 0 .. Len(blocks') /\ continueTo' \in 0 .. Len(blocks')
  BY <1>1, <1>2 DEF Inv, Parse, Context0, Builder, Code
<1> QED  BY <1>1, <1>2, <1>3, StepKeeps

LEMMA TopReturns ==
    ASSUME Inv, frames # <<>>
    PROVE  /\ Returned(blocks, insert, frames, Top, Popped)
           /\ ~hasErrors =>
                 /\ Saved(Popped)
                 /\ Top.kind # "for" => Context(Popped, Len(Popped), breakTo, continueTo)
                 /\ Top.kind = "for" => Context(Popped, Len(Popped), Top.prevBreak, Top.prevContinue)
<1>1. /\ Builder(blocks, insert, frames) /\ frames \in Seq(Frames) /\ Len(frames) > 0
      /\ Top = frames[Len(frames)] /\ Popped = SubSeq(frames, 1, Len(frames) - 1)
  BY DEF Inv, Builder, Top, Popped
<1>2. Returned(blocks, insert, frames, Top, Popped)
  BY <1>1, PopKeeps
<1>3. Len(Popped) = Len(frames) - 1 /\ \A i \in 1 .. Len(Popped) : Popped[i] = frames[i]
  BY <1>2 DEF Returned
<1>4. ~hasErrors => Context(frames, Len(frames), breakTo, continueTo) /\ Saved(frames)
  BY DEF Inv, LoopContext
<1>5. SUFFICES ASSUME ~hasErrors
               PROVE  /\ Saved(Popped)
                      /\ Top.kind # "for" => Context(Popped, Len(Popped), breakTo, continueTo)
                      /\ Top.kind = "for" => Context(Popped, Len(Popped), Top.prevBreak, Top.prevContinue)
  BY <1>2
<1>6. Context(frames, Len(frames), breakTo, continueTo) /\ Saved(frames)
  BY <1>4, <1>5
<1>7. frames \in Seq(Frames) /\ Len(frames) > 0 /\ Top = frames[Len(frames)]
  BY <1>1
<1> QED  BY <1>3, <1>6, <1>7, PopContext

LEMMA EndOfIfKeeps ==
    ASSUME Inv, EndOfIf
    PROVE  Inv'
<1> DEFINE joined == BranchIfOpen(blocks, insert, Top.merge)
<1>1. blocks[insert] = <<>> /\ Builder(blocks, insert, frames) /\ frames # <<>> /\ Top.kind = "else"
  BY DEF EndOfIf, Within, Inv, ElseEmpty, Top
\* The else side falls through, so that the merge block is reached.
<1>2. ~Terminated(blocks, insert)
  BY <1>1 DEF Terminated
<1>3. /\ phase = "generate"
      /\ text' = text /\ returns' = returns /\ phase' = phase /\ pc' = pc
      /\ breakTo' = breakTo /\ continueTo' = continueTo /\ hasErrors' = hasErrors
      /\ blocks' = joined /\ insert' = Top.merge /\ frames' = Popped /\ pos' = pos
  BY <1>2 DEF EndOfIf, control
<1>4. /\ Returned(blocks, insert, frames, Top, Popped)
      /\ ~hasErrors => Context(Popped, Len(Popped), breakTo, continueTo) /\ Saved(Popped)
  BY <1>1, TopReturns
<1>5. Awaits(Top) = {Top.merge}
  BY <1>1 DEF Awaits
<1>6. /\ Builder(blocks, insert, Popped)
      /\ Top.merge \in 1 .. Len(blocks) /\ Top.merge # insert /\ blocks[Top.merge] = <<>>
      /\ \A i \in 1 .. Len(Popped) : Top.merge \notin Awaits(Popped[i])
  BY <1>4, <1>5 DEF Returned
<1>7. /\ Builder(joined, insert, Popped) /\ Len(joined) = Len(blocks)
      /\ joined[Top.merge] = <<>>
  BY <1>6, BranchKeeps
<1> HIDE DEF joined
<1>8. Builder(joined, Top.merge, Popped)
  BY <1>6, <1>7, MoveKeeps
<1>9. /\ pos' \in 1 .. Len(text) + 1 /\ hasErrors' \in BOOLEAN
      /\ Len(blocks) <= Len(blocks')
      /\ breakTo' \in 0 .. Len(blocks') /\ continueTo' \in 0 .. Len(blocks')
  BY <1>3, <1>7 DEF Inv, Parse, Context0, Builder, Code
<1>10. ElseEmpty(blocks', insert', frames')
  BY <1>3, <1>7 DEF ElseEmpty
<1> QED  BY <1>3, <1>4, <1>8, <1>9, <1>10, StepKeeps

LEMMA ForKeeps ==
    ASSUME Inv, codegen_stmt_for
    PROVE  Inv'
<1> DEFINE n == Len(blocks)
           new == WithNew(blocks, 3)
           entered == Emit(new, insert, Br(0, n + 1))
           op == IF text[pos].cond = "none" THEN Br(pos, n + 2) ELSE Instr("condbr", pos, n + 2, n + 3)
           f == ForFrame(n + 1, n + 3)
<1>1. /\ phase = "generate" /\ pos \in 1 .. Len(text) /\ ~Within("else") /\ Kind(pos) = "for"
      /\ text' = text /\ returns' = returns /\ phase' = phase /\ pc' = pc
      /\ breakTo' = n + 3 /\ continueTo' = n + 1
      /\ \/ /\ hasErrors' = TRUE /\ blocks' = entered /\ insert' = n + 1
            /\ pos' = Closing(pos) + 1 /\ frames' = frames
         \/ /\ blocks' = Emit(entered, n + 1, op) /\ insert' = n + 2
            /\ frames' = Append(frames, f) /\ pos' = pos + 1 /\ hasErrors' = hasErrors
  BY DEF Inv, Parse, codegen_stmt_for, Reads, control
<1>2. Builder(blocks, insert, frames) /\ n \in Nat /\ frames \in Seq(Frames) /\ insert \in 1 .. n
  <2>1. Builder(blocks, insert, frames)
    BY DEF Inv
  <2>2. blocks \in Seq(Seq(Instrs)) /\ frames \in Seq(Frames) /\ insert \in 1 .. n
    BY <2>1 DEF Builder, Code
  <2> QED  BY <2>1, <2>2
<1>3. /\ Builder(new, insert, frames) /\ Len(new) = n + 3
      /\ \A c \in n + 1 .. n + 3 : new[c] = <<>>
      /\ \A i \in 1 .. Len(frames) : \A a \in Awaits(frames[i]) : a \in 1 .. n
  BY <1>2, WithNewKeeps
<1> HIDE DEF new
<1>4. Proper(Br(0, n + 1), n + 3) /\ Proper(op, n + 3)
  BY <1>1, <1>2 DEF Proper, Br, Instr, Instrs, Ops
<1>5. /\ Builder(entered, insert, frames) /\ Len(entered) = n + 3
      /\ \A c \in n + 1 .. n + 3 : entered[c] = <<>>
  <2>1. /\ Builder(entered, insert, frames) /\ Len(entered) = Len(new)
        /\ \A c \in 1 .. Len(new) : c # insert => entered[c] = new[c]
    BY <1>3, <1>4, EmitKeeps
  <2> QED  BY <1>2, <1>3, <2>1
<1> HIDE DEF entered, op
<1>6. \A c \in n + 1 .. n + 3 : c \in 1 .. Len(entered)
                                  /\ \A i \in 1 .. Len(frames) : c \notin Awaits(frames[i])
  <2>1. \A c \in n + 1 .. n + 3 : c \in 1 .. n + 3 /\ c \notin 1 .. n
    BY <1>2
  <2> HIDE DEF n
  <2> QED  BY <1>3, <1>5, <2>1
<1>7. Builder(entered, n + 1, frames)
  BY <1>2, <1>5, <1>6, MoveKeeps
<1>8. CASE /\ hasErrors' = TRUE /\ blocks' = entered /\ insert' = n + 1
           /\ pos' = Closing(pos) + 1 /\ frames' = frames
  <2>1. Closing(pos) \in 1 .. Len(text) /\ Len(text) \in Nat
    BY <1>1, ClosingIs DEF Openers, Inv, Parse
  <2>2. /\ pos' \in 1 .. Len(text) + 1 /\ hasErrors' \in BOOLEAN
        /\ Len(blocks) <= Len(blocks')
        /\ breakTo' \in 0 .. Len(blocks') /\ continueTo' \in 0 .. Len(blocks')
    BY <1>1, <1>2, <1>5, <1>8, <2>1
  <2>3. ElseEmpty(blocks', insert', frames')
    BY <1>1, <1>8 DEF ElseEmpty, Within, Top
  <2>4. Builder(blocks', insert', frames')
    BY <1>7, <1>8
  <2> HIDE DEF n, f
  <2> QED  BY <1>1, <1>8, <2>2, <2>3, <2>4, StepKeeps
<1>9. CASE /\ blocks' = Emit(entered, n + 1, op) /\ insert' = n + 2
           /\ frames' = Append(frames, f) /\ pos' = pos + 1 /\ hasErrors' = hasErrors
  <2>1. /\ Builder(blocks', n + 1, frames) /\ Len(blocks') = n + 3
        /\ \A c \in n + 2 .. n + 3 : blocks'[c] = <<>>
    <3>1. /\ Builder(Emit(entered, n + 1, op), n + 1, frames)
          /\ Len(Emit(entered, n + 1, op)) = Len(entered)
          /\ \A c \in 1 .. Len(entered) : c # n + 1 => Emit(entered, n + 1, op)[c] = entered[c]
      BY <1>4, <1>5, <1>7, EmitKeeps
    <3> QED  BY <1>2, <1>5, <1>9, <3>1
  <2>2. Builder(blocks', n + 2, frames)
    BY <1>2, <1>5, <1>6, <2>1, MoveKeeps
  <2>3. breakTo \in 0 .. n /\ continueTo \in 0 .. n
    BY DEF Inv, Context0
  <2>4. /\ f \in Frames /\ f.kind = "for" /\ Known(f, n + 3) /\ Awaits(f) = {n + 3}
        /\ f.exit = n + 3 /\ f.loop = n + 1 /\ f.prevBreak = breakTo /\ f.prevContinue = continueTo
    BY <1>2, <2>3 DEF ForFrame, Frames, ForFrames, Known, Awaits
  <2> HIDE DEF f
  <2>5. Builder(blocks', n + 2, Append(frames, f))
    <3>1. \A a \in Awaits(f) : a \in 1 .. Len(blocks') /\ a # n + 2 /\ blocks'[a] = <<>>
      BY <1>2, <2>1, <2>4
    <3>2. \A i \in 1 .. Len(frames) : \A a \in Awaits(frames[i]) : a \notin Awaits(f)
      BY <1>2, <1>6, <2>4
    <3> QED  BY <2>1, <2>2, <2>4, <3>1, <3>2, PushKeeps
  <2>6. ElseEmpty(blocks', insert', frames')
    BY <1>2, <1>9, <2>4 DEF ElseEmpty
  <2>7. ~hasErrors' => Context(frames', Len(frames'), breakTo', continueTo') /\ Saved(frames')
    BY <1>1, <1>2, <1>9, <2>4, PushContext DEF Inv, LoopContext
  <2>8. /\ pos' \in 1 .. Len(text) + 1 /\ hasErrors' \in BOOLEAN
        /\ Len(blocks) <= Len(blocks')
        /\ breakTo' \in 0 .. Len(blocks') /\ continueTo' \in 0 .. Len(blocks')
    BY <1>1, <1>2, <1>9, <2>1 DEF Inv, Parse
  <2>9. Builder(blocks', insert', frames')
    BY <1>9, <2>5
  <2> HIDE DEF n
  <2> QED  BY <1>1, <2>6, <2>7, <2>8, <2>9, StepKeeps
<1> QED  BY <1>1, <1>8, <1>9

LEMMA EndOfForKeeps ==
    ASSUME Inv, EndOfFor
    PROVE  Inv'
<1> DEFINE joined == BranchIfOpen(blocks, insert, Top.loop)
<1>1. /\ phase = "generate" /\ pos \in 1 .. Len(text) /\ frames # <<>> /\ Top.kind = "for"
      /\ text' = text /\ returns' = returns /\ phase' = phase /\ pc' = pc
      /\ breakTo' = Top.prevBreak /\ continueTo' = Top.prevContinue /\ hasErrors' = hasErrors
      /\ blocks' = joined /\ insert' = Top.exit /\ frames' = Popped /\ pos' = pos + 1
  BY DEF Inv, Parse, EndOfFor, Reads, Within, control
<1>2. /\ Returned(blocks, insert, frames, Top, Popped)
      /\ ~hasErrors => Context(Popped, Len(Popped), Top.prevBreak, Top.prevContinue) /\ Saved(Popped)
  BY <1>1, TopReturns
<1>3. Awaits(Top) = {Top.exit}
  BY <1>1 DEF Awaits
<1>4. /\ Builder(blocks, insert, Popped)
      /\ Top.exit \in 1 .. Len(blocks) /\ Top.exit # insert /\ blocks[Top.exit] = <<>>
      /\ \A i \in 1 .. Len(Popped) : Top.exit \notin Awaits(Popped[i])
      /\ Known(Top, Len(blocks))
  BY <1>1, <1>2, <1>3 DEF Returned
<1>5. /\ Builder(joined, insert, Popped) /\ Len(joined) = Len(blocks)
      /\ joined[Top.exit] = <<>>
  BY <1>4, BranchKeeps DEF Known
<1> HIDE DEF joined
<1>6. Builder(joined, Top.exit, Popped)
  BY <1>4, <1>5, MoveKeeps
<1>7. /\ pos' \in 1 .. Len(text) + 1 /\ hasErrors' \in BOOLEAN
      /\ Len(blocks) <= Len(blocks')
      /\ breakTo' \in 0 .. Len(blocks') /\ continueTo' \in 0 .. Len(blocks')
  BY <1>1, <1>4, <1>5 DEF Inv, Parse, Known, Builder, Code
<1>8. ElseEmpty(blocks', insert', frames')
  BY <1>1, <1>5 DEF ElseEmpty
<1> QED  BY <1>1, <1>2, <1>6, <1>7, <1>8, StepKeeps

LEMMA EndOfBlockKeeps ==
    ASSUME Inv, EndOfBlock
    PROVE  Inv'
<1>1. /\ phase = "generate" /\ pos \in 1 .. Len(text) /\ frames # <<>> /\ Top.kind = "block"
      /\ text' = text /\ returns' = returns /\ phase' = phase /\ pc' = pc
      /\ breakTo' = breakTo /\ continueTo' = continueTo /\ hasErrors' = hasErrors
      /\ blocks' = blocks /\ insert' = insert /\ frames' = Popped /\ pos' = pos + 1
  BY DEF Inv, Parse, EndOfBlock, Reads, Within, control
<1>2. /\ Returned(blocks, insert, frames, Top, Popped)
      /\ ~hasErrors => Context(Popped, Len(Popped), breakTo, continueTo) /\ Saved(Popped)
  BY <1>1, TopReturns
<1>3. Builder(blocks', insert', frames') /\ ElseEmpty(blocks', insert', frames')
  BY <1>1, <1>2 DEF Returned
<1>4. /\ pos' \in 1 .. Len(text) + 1 /\ hasErrors' \in BOOLEAN
      /\ Len(blocks) <= Len(blocks')
      /\ breakTo' \in 0 .. Len(blocks') /\ continueTo' \in 0 .. Len(blocks')
  BY <1>1 DEF Inv, Parse, Context0, Builder, Code
<1> QED  BY <1>1, <1>2, <1>3, <1>4, StepKeeps
--------------------------------------------------------------------------------
(* The other actions. *)

\* The step leaves the generated code and its contexts as they are.
LEMMA CodeKeeps ==
    ASSUME Inv, code' = code, Parse', Executes'
    PROVE  Inv'
<1>1. /\ blocks' = blocks /\ insert' = insert /\ frames' = frames
      /\ breakTo' = breakTo /\ continueTo' = continueTo /\ hasErrors' = hasErrors
  BY DEF code
<1> QED  BY <1>1 DEF Inv, Context0, LoopContext

LEMMA WriteKeeps ==
    ASSUME Inv, Write
    PROVE  Inv'
<1>1. PICK t \in Tokens : text' = Append(text, t)
  BY DEF Write
<1>2. /\ phase = "parse" /\ phase' = phase /\ returns' = returns /\ pos' = pos /\ code' = code /\ pc' = pc
  BY DEF Write, control
<1>3. text \in Seq(Tokens) /\ text' \in Seq(Tokens) /\ Len(text') = Len(text) + 1
  BY <1>1 DEF Inv, Parse
<1>4. Parse'
  BY <1>2, <1>3 DEF Inv, Parse, code
<1>5. Executes'
  BY <1>2 DEF Inv, Executes, code
<1> QED  BY <1>2, <1>4, <1>5, CodeKeeps

LEMMA EndOfBodyKeeps ==
    ASSUME Inv, EndOfBody
    PROVE  Inv'
<1>1. /\ phase = "parse" /\ phase' = "analyse" /\ Unclosed = {} /\ text' = text /\ returns' = returns /\ pos' = pos
      /\ code' = code /\ pc' = pc
  BY DEF EndOfBody, control
<1>2. Parse'
  BY <1>1, SameText DEF Inv, Parse, code, Phases
<1>3. Executes'
  BY <1>1 DEF Inv, Executes, code
<1> QED  BY <1>1, <1>2, <1>3, CodeKeeps

LEMMA AnalyzeKeeps ==
    ASSUME Inv, analyze_function_body
    PROVE  Inv'
<1>1. /\ phase = "analyse" /\ phase' \in {"generate", "rejected"}
      /\ text' = text /\ returns' = returns /\ pos' = pos /\ code' = code /\ pc' = pc
  BY DEF analyze_function_body, control
<1>2. Parse'
  BY <1>1, SameText DEF Inv, Parse, code, Phases
<1>3. Executes'
  BY <1>1 DEF Inv, Executes, code
<1> QED  BY <1>1, <1>2, <1>3, CodeKeeps

\* In verified code every block ends with a terminator, and has no other.
LEMMA ValidBlock ==
    ASSUME NEW bs \in Seq(Seq(Instrs)), Valid(bs), NEW b \in 1 .. Len(bs)
    PROVE  /\ 1 \in 1 .. Len(bs[b])
           /\ \A i \in 1 .. Len(bs[b]) : bs[b][i].op \notin Terminators => i + 1 \in 1 .. Len(bs[b])
<1>1. bs[b] \in Seq(Instrs) /\ b \in DOMAIN bs
  OBVIOUS
<1>2. bs[b] # <<>> /\ bs[b][Len(bs[b])].op \in Terminators
  BY <1>1 DEF Valid, Terminated
<1> QED  BY <1>1, <1>2

LEMMA FunKeeps ==
    ASSUME Inv, codegen_stmt_fun
    PROVE  Inv'
<1> DEFINE op == Instr("ret", 0, 0, 0)
<1>1. /\ phase = "generate" /\ frames = <<>> /\ phase' \in {"rejected", "run"}
      /\ text' = text /\ returns' = returns /\ pos' = pos /\ pc' = pc
      /\ frames' = frames /\ insert' = insert /\ breakTo' = breakTo /\ continueTo' = continueTo
      /\ blocks' = blocks \/ blocks' = Emit(blocks, insert, op)
      /\ phase' = "run" => hasErrors' = FALSE
      /\ hasErrors' = (hasErrors \/ ~Valid(blocks'))
  BY DEF codegen_stmt_fun, control
<1>2. hasErrors' \in BOOLEAN /\ (hasErrors => hasErrors') /\ (phase' = "run" => Valid(blocks'))
  BY <1>1 DEF Inv, Parse
<1>3. Proper(op, Len(blocks))
  BY DEF Proper, Instr, Instrs, Ops
<1>4. Builder(blocks, insert, frames)
  BY DEF Inv
<1> HIDE DEF op
<1>5. Builder(blocks', insert', frames') /\ Len(blocks') = Len(blocks)
  BY <1>1, <1>3, <1>4, EmitKeeps
<1>6. ElseEmpty(blocks', insert', frames')
  BY <1>1 DEF ElseEmpty
<1>7. Parse'
  BY <1>1, <1>2, SameText DEF Inv, Parse, Phases
<1>8. Executes'
  <2>1. blocks' \in Seq(Seq(Instrs)) /\ Len(blocks') \in Nat
    BY <1>5 DEF Builder, Code
  <2>2. pc.block \in 1 .. Len(blocks') /\ pc \in [block : Nat, index : Nat] /\ pc.index = 1
    BY <1>1, <1>5 DEF Inv, Executes
  <2>3. phase' = "run" => pc.index \in 1 .. Len(blocks'[pc.block])
    BY <1>2, <2>1, <2>2, ValidBlock
  <2> QED  BY <1>1, <1>2, <2>2, <2>3 DEF Executes
<1>9. Context0' /\ LoopContext'
  BY <1>1, <1>2, <1>5 DEF Inv, Context0, LoopContext
<1> QED  BY <1>5, <1>6, <1>7, <1>8, <1>9 DEF Inv

\* The emitted code moves on to the next instruction or to the start of a block.
LEMMA ProgramCounterKeeps ==
    ASSUME Inv, phase = "run", code' = code, text' = text, returns' = returns, pos' = pos, phase' = phase,
           \/ pc' = pc
           \/ Current.op = "effect" /\ pc' = [pc EXCEPT !.index = @ + 1]
           \/ Current.op \in {"br", "condbr"} /\ pc' \in {Start(Current.then), Start(Current.else)}
    PROVE  Inv'
<1>1. Parse'
  BY SameText DEF Inv, Parse, code
<1>2. /\ blocks \in Seq(Seq(Instrs)) /\ Valid(blocks) /\ blocks' = blocks
      /\ pc \in [block : Nat, index : Nat] /\ pc.block \in 1 .. Len(blocks)
      /\ pc.index \in 1 .. Len(blocks[pc.block])
      /\ Proper(Current, Len(blocks))
  BY DEF Inv, Executes, Builder, Code, Current, code
<1>3. Executes'
  <2>1. CASE pc' = pc
    BY <1>2, <2>1 DEF Inv, Executes
  <2>2. CASE Current.op = "effect" /\ pc' = [pc EXCEPT !.index = @ + 1]
    <3>1. pc.index + 1 \in 1 .. Len(blocks[pc.block])
      BY <1>2, <2>2, ValidBlock DEF Current, Terminators
    <3>2. pc.block \in Nat /\ pc.index \in Nat /\ pc = [block |-> pc.block, index |-> pc.index]
      BY <1>2
    <3>4. pc' = [block |-> pc.block, index |-> pc.index + 1]
      BY <2>2, <3>2
    <3>5. /\ pc' \in [block : Nat, index : Nat]
          /\ pc'.block = pc.block /\ pc'.index = pc.index + 1
      BY <3>2, <3>4
    <3> QED  BY <1>2, <3>1, <3>5 DEF Executes
  <2>3. CASE Current.op \in {"br", "condbr"} /\ pc' \in {Start(Current.then), Start(Current.else)}
    <3>1. PICK b \in 1 .. Len(blocks) : pc' = Start(b)
      BY <1>2, <2>3 DEF Proper
    <3>2. /\ pc' \in [block : Nat, index : Nat]
          /\ pc'.block = b /\ pc'.index = 1
      BY <3>1 DEF Start
    <3>3. 1 \in 1 .. Len(blocks[b])
      BY <1>2, ValidBlock
    <3> QED  BY <1>2, <3>2, <3>3 DEF Executes
  <2> QED  BY <2>1, <2>2, <2>3
<1> QED  BY <1>1, <1>3, CodeKeeps

LEMMA RunKeeps ==
    ASSUME Inv, Run
    PROVE  Inv'
<1>1. CASE SourceMoves
  BY <1>1, ProgramCounterKeeps DEF SourceMoves
<1>2. CASE CodeMoves
  <2>1. /\ phase = "run" /\ code' = code /\ text' = text /\ returns' = returns /\ pos' = pos /\ phase' = phase
        /\ Current.op = "br" /\ pc' = Start(Current.then)
    BY <1>2 DEF CodeMoves
  <2> QED  BY <2>1, ProgramCounterKeeps
<1>3. CASE Effect
  <2>1. /\ phase = "run" /\ code' = code /\ text' = text /\ returns' = returns /\ pos' = pos /\ phase' = phase
        /\ Emitted[1] = "effect" /\ pc' = [pc EXCEPT !.index = @ + 1]
    BY <1>3 DEF Effect, Meet
  <2>2. Current.op = "effect"
    BY <2>1 DEF Emitted
  <2> QED  BY <2>1, <2>2, ProgramCounterKeeps
<1>4. CASE Test
  <2>1. /\ phase = "run" /\ code' = code /\ text' = text /\ returns' = returns /\ pos' = pos /\ phase' = phase
        /\ Emitted[1] = "test" /\ pc' \in {Start(Current.then), Start(Current.else)}
    BY <1>4 DEF Test, Meet
  <2>2. Current.op \in {"br", "condbr"}
    BY <2>1 DEF Emitted
  <2> QED  BY <2>1, <2>2, ProgramCounterKeeps
<1>5. CASE Return
  <2>1. /\ phase = "run" /\ phase' = "done" /\ code' = code /\ pc' = pc
        /\ text' = text /\ returns' = returns /\ pos' = pos
    BY <1>5 DEF Return, Meet, control
  <2>2. Parse'
    BY <2>1, SameText DEF Inv, Parse, code, Phases
  <2>3. Executes'
    BY <2>1 DEF Inv, Executes, code
  <2> QED  BY <2>1, <2>2, <2>3, CodeKeeps
<1> QED  BY <1>1, <1>2, <1>3, <1>4, <1>5 DEF Run

LEMMA StutterKeeps ==
    ASSUME Inv, vars' = vars
    PROVE  Inv'
<1>1. /\ code' = code /\ pc' = pc
      /\ text' = text /\ returns' = returns /\ pos' = pos /\ phase' = phase
  BY DEF vars, control
<1>2. Parse'
  BY <1>1, SameText DEF Inv, Parse, code
<1>3. Executes'
  BY <1>1 DEF Inv, Executes, code
<1> QED  BY <1>1, <1>2, <1>3, CodeKeeps

LEMMA InitHolds == Init => Inv
<1>1. SUFFICES ASSUME Init
               PROVE  Inv
  OBVIOUS
<1>2. Parse
  <2>1. text = <<>> /\ returns \in BOOLEAN /\ phase = "parse" /\ pos = 1
    BY <1>1 DEF Init
  <2>2. text \in Seq(Tokens) /\ Len(text) = 0
    BY <2>1
  <2>3. pos \in 1 .. Len(text) + 1 /\ phase \in Phases
    BY <2>1, <2>2 DEF Phases
  <2>4. hasErrors \in BOOLEAN
    BY <1>1 DEF Init
  <2> QED  BY <2>1, <2>2, <2>3, <2>4 DEF Parse
<1>3. /\ blocks = << <<>> >> /\ insert = 1 /\ frames = <<>> /\ Len(blocks) = 1 /\ blocks[1] = <<>>
      /\ breakTo = 0 /\ continueTo = 0
  BY <1>1 DEF Init
<1>4. blocks \in Seq(Seq(Instrs)) /\ frames \in Seq(Frames) /\ Len(frames) = 0
  BY <1>3
<1>5. Code(blocks)
  BY <1>3, <1>4 DEF Code
<1>6. Builder(blocks, insert, frames)
  BY <1>3, <1>4, <1>5 DEF Builder, Distinct
<1>7. ElseEmpty(blocks, insert, frames) /\ Context0 /\ LoopContext
  BY <1>3, <1>4 DEF ElseEmpty, Context0, LoopContext, Context, Saved
<1>8. Executes
  BY <1>1, <1>3 DEF Init, Executes, Start
<1> QED  BY <1>2, <1>6, <1>7, <1>8 DEF Inv

LEMMA NextKeeps == Inv /\ [Next]_vars => Inv'
<1>1. SUFFICES ASSUME Inv, [Next]_vars
               PROVE  Inv'
  OBVIOUS
<1>2. CASE Generate
  BY <1>1, <1>2, ExprKeeps, RetKeeps, BrkKeeps, BlockKeeps, IfKeeps, OrKeeps, EndOfThenKeeps,
     EndOfIfKeeps, ForKeeps, EndOfForKeeps, EndOfBlockKeeps, FunKeeps DEF Generate
<1> QED
  BY <1>1, <1>2, WriteKeeps, EndOfBodyKeeps, AnalyzeKeeps, RunKeeps, StutterKeeps DEF Next, Finished

LEMMA InvHolds == Spec => []Inv
  BY InitHolds, NextKeeps, PTL DEF Spec
--------------------------------------------------------------------------------
(* What follows for every body, however long and deeply nested. *)

\* Every variable keeps its type: the builder, the loop context and the emitted
\* code that runs stand on blocks of the function.
THEOREM TypeCorrect == Spec => []TypeOK
<1>1. ASSUME Inv PROVE TypeOK
  <2>1. Parse /\ Builder(blocks, insert, frames) /\ Context0 /\ Executes
    BY <1>1 DEF Inv
  <2>2. DOMAIN blocks = 1 .. Len(blocks) /\ Len(blocks) \in Nat /\ insert \in DOMAIN blocks
    BY <2>1 DEF Builder, Code
  <2>3. {breakTo, continueTo} \subseteq DOMAIN blocks \cup {0} /\ pc.block \in DOMAIN blocks
    BY <2>1, <2>2 DEF Context0, Executes
  <2> QED  BY <2>1, <2>2, <2>3 DEF Parse, TypeOK
<1> QED  BY <1>1, InvHolds, PTL

\* codegen_stmt_if never finds that both branches end the flow, so that what
\* follows an if is always taken to be reached (codegen.c:1821-1834).
THEOREM MergeIsReachedCorrect == Spec => []MergeIsReached
<1>1. Inv => MergeIsReached
  <2>1. SUFFICES ASSUME Inv, NEW b \in DOMAIN blocks, NEW i \in DOMAIN blocks[b]
                 PROVE  blocks[b][i].op # "unreachable"
    BY DEF MergeIsReached
  <2>2. b \in 1 .. Len(blocks) /\ i \in 1 .. Len(blocks[b])
    BY <2>1 DEF Inv, Builder, Code
  <2> QED  BY <2>1, <2>2 DEF Inv, Builder, Code, Proper
<1> QED  BY <1>1, InvHolds, PTL

\* As long as no error was reported, a brk or cnt finds the blocks of the innermost
\* loop that codegen_stmt_for is at, and each loop those to restore.
THEOREM LoopContextCorrect == Spec => []LoopContext
<1>1. Inv => LoopContext
  BY DEF Inv
<1> QED  BY <1>1, InvHolds, PTL

\* A function that LLVMVerifyModule accepts runs from instruction to instruction:
\* it never leaves its blocks and never runs off the end of one.
THEOREM ExecutesCorrect == Spec => []Executes
<1>1. Inv => Executes
  BY DEF Inv
<1> QED  BY <1>1, InvHolds, PTL
--------------------------------------------------------------------------------
(* The loops that the frames stand for. A frame is open for a statement of the   *)
(* text; `open` names it. The frames of an if and of the chain of its "or"s all  *)
(* have the same one, and only the first of them starts it.                      *)

\* The tokens that open a body after p and are not closed before q, less those
\* closed that were opened before p.
Depth(p, q) == Count(p, q - 1, Openers) - Count(p, q - 1, {"end"})

\* Nothing between p and q closes p.
Around(p, q) == \A m \in p + 1 .. q - 1 : Count(p, m, {"end"}) <= Count(p, m, Openers)

Starts(f) == ~(f.kind \in {"if", "else"} /\ f.chained)
Statement(f) == IF f.kind = "else" THEN "if" ELSE f.kind

\* The first L frames are generating what is open; the others are the else sides
\* of an if that is at its end.
Grouped(fs, open, L) ==
    /\ \A i \in 1 .. L : \E j \in 1 .. i : /\ Starts(fs[j]) /\ open[j] = open[i]
                                           /\ \A k \in j .. i - 1 : fs[k].kind = "else"
    /\ \A i \in 1 .. Len(fs) - 1 : fs[i].kind = "else" => ~Starts(fs[i + 1])
    /\ \A i \in L + 1 .. Len(fs) : fs[i].kind = "else"
    /\ L > 0 => fs[L].kind # "else"

\* Each of them stands for a statement around q, one body further out than the
\* next, and no loop around q is missing.
Placed(fs, q, open, L) ==
    /\ L > 0 => Depth(open[L], q) = 0
    /\ \A i \in 1 .. L : /\ open[i] \in 1 .. q - 1
                         /\ Kind(open[i]) = Statement(fs[i])
                         /\ Around(open[i], q)
    /\ \A i, j \in 1 .. L : i < j => open[i] = open[j] \/ Depth(open[i], q) > Depth(open[j], q)
    /\ \A i \in 1 .. L - 1 : Starts(fs[i + 1]) => Depth(open[i], q) = Depth(open[i + 1], q) + 1
    /\ \A i, j \in 1 .. L : i # j /\ fs[i].kind = "for" => open[i] # open[j]
    /\ \A f \in Loops(q) : \E i \in 1 .. L : fs[i].kind = "for" /\ open[i] = f

\* The first n frames, and what they are open for, are the same.
Same(fs, open, gs, also, n) == \A i \in 1 .. n : gs[i] = fs[i] /\ also[i] = open[i]

\* They are open for the same statements, be it in another branch.
Alike(fs, open, gs, also, n) ==
    \A i \in 1 .. n : /\ also[i] = open[i]
                      /\ Statement(gs[i]) = Statement(fs[i])
                      /\ Starts(gs[i]) <=> Starts(fs[i])
                      /\ gs[i].kind = "for" <=> fs[i].kind = "for"

Nested(fs, q) ==
    \E L \in 0 .. Len(fs) : \E open \in [1 .. L -> 1 .. q - 1] :
        Grouped(fs, open, L) /\ Placed(fs, q, open, L)

\* The frames follow the text, until an error makes codegen_stmt leave out a body.
Follow ==
    /\ phase = "generate" /\ ~hasErrors => Nested(frames, pos)
    /\ phase \in {"parse", "analyse"} => frames = <<>> /\ pos = 1

\* One more token to count.
LEMMA CountStep ==
    ASSUME NEW p \in Nat, NEW m \in Nat, p <= m, NEW kinds
    PROVE  /\ Count(p, m, kinds) \in Nat
           /\ Count(p, m + 1, kinds) = Count(p, m, kinds) + IF Kind(m + 1) \in kinds THEN 1 ELSE 0
           /\ Count(p, p, kinds) = 0
<1> DEFINE In(n) == {k \in p + 1 .. n : Kind(k) \in kinds}
<1>1. IsFiniteSet(In(m))
  <2>1. p + 1 \in Int /\ m \in Int
    OBVIOUS
  <2>2. IsFiniteSet(p + 1 .. m)
    BY <2>1, FS_Interval
  <2> QED  BY <2>2, FS_Subset
<1>2. Cardinality(In(m)) \in Nat
  BY <1>1, FS_CardinalityType
<1>3. CASE Kind(m + 1) \in kinds
  <2>1. In(m + 1) = In(m) \cup {m + 1} /\ m + 1 \notin In(m)
    BY <1>3
  <2>2. Cardinality(In(m + 1)) = Cardinality(In(m)) + 1
    BY <1>1, <2>1, FS_AddElement
  <2>3. In(p) = {}
    OBVIOUS
  <2> HIDE DEF In
  <2>4. Cardinality(In(p)) = 0
    BY <2>3, FS_EmptySet
  <2> QED  BY <1>2, <1>3, <2>2, <2>4 DEF Count, In
<1>4. CASE Kind(m + 1) \notin kinds
  <2>1. In(m + 1) = In(m)
    BY <1>4
  <2>3. In(p) = {}
    OBVIOUS
  <2> HIDE DEF In
  <2>4. Cardinality(In(p)) = 0
    BY <2>3, FS_EmptySet
  <2> QED  BY <1>2, <1>4, <2>1, <2>4 DEF Count, In
<1> QED  BY <1>3, <1>4

LEMMA DepthStep ==
    ASSUME NEW p \in Nat, NEW q \in Nat, p < q
    PROVE  /\ Depth(p, q) \in Int
           /\ Depth(p, q + 1) = Depth(p, q) + IF Kind(q) \in Openers THEN 1
                                              ELSE IF Kind(q) = "end" THEN -1 ELSE 0
           /\ Depth(p, p + 1) = 0
           /\ Around(p, q) => Depth(p, q) >= 0
           /\ Around(p, q) /\ Depth(p, q + 1) >= 0 => Around(p, q + 1)
           /\ Around(p, p + 1)
<1>1. q - 1 \in Nat /\ p <= q - 1 /\ (q - 1) + 1 = q /\ (q + 1) - 1 = q /\ (p + 1) - 1 = p
  OBVIOUS
<1>2. /\ Count(p, q - 1, Openers) \in Nat
      /\ Count(p, (q - 1) + 1, Openers) = Count(p, q - 1, Openers) + IF Kind((q - 1) + 1) \in Openers THEN 1 ELSE 0
      /\ Count(p, p, Openers) = 0
  BY <1>1, CountStep
<1>3. /\ Count(p, q - 1, {"end"}) \in Nat
      /\ Count(p, (q - 1) + 1, {"end"}) = Count(p, q - 1, {"end"}) + IF Kind((q - 1) + 1) \in {"end"} THEN 1 ELSE 0
      /\ Count(p, p, {"end"}) = 0
  BY <1>1, CountStep
<1>4. "end" \notin Openers
  BY DEF Openers
<1>5. Depth(p, q) = Count(p, q - 1, Openers) - Count(p, q - 1, {"end"})
  BY DEF Depth
<1>6. Depth(p, q + 1) = Count(p, q, Openers) - Count(p, q, {"end"})
  BY <1>1 DEF Depth
<1>7. Depth(p, p + 1) = Count(p, p, Openers) - Count(p, p, {"end"})
  BY <1>1 DEF Depth
<1>8. /\ Count(p, q, Openers) = Count(p, q - 1, Openers) + IF Kind(q) \in Openers THEN 1 ELSE 0
      /\ Count(p, q, {"end"}) = Count(p, q - 1, {"end"}) + IF Kind(q) = "end" THEN 1 ELSE 0
  BY <1>1, <1>2, <1>3
<1>9. Depth(p, q + 1) = Depth(p, q) + IF Kind(q) \in Openers THEN 1 ELSE IF Kind(q) = "end" THEN -1 ELSE 0
  BY <1>2, <1>3, <1>4, <1>5, <1>6, <1>8
<1>10. Depth(p, q) \in Int /\ Depth(p, p + 1) = 0
  BY <1>2, <1>3, <1>5, <1>7
<1>11. ASSUME Around(p, q) PROVE Depth(p, q) >= 0
  <2>1. CASE q = p + 1
    BY <1>10, <2>1
  <2>2. CASE q # p + 1
    <3>1. q - 1 \in p + 1 .. q - 1
      BY <2>2
    <3>2. Count(p, q - 1, {"end"}) <= Count(p, q - 1, Openers)
      BY <1>11, <3>1 DEF Around
    <3> QED  BY <1>2, <1>3, <1>5, <3>2
  <2> QED  BY <2>1, <2>2
<1>12. ASSUME Around(p, q), Depth(p, q + 1) >= 0 PROVE Around(p, q + 1)
  <2>1. Count(p, q, {"end"}) <= Count(p, q, Openers)
    BY <1>2, <1>3, <1>6, <1>8, <1>12
  <2>2. \A m \in p + 1 .. (q + 1) - 1 : m \in p + 1 .. q - 1 \/ m = q
    OBVIOUS
  <2> QED  BY <1>12, <2>1, <2>2 DEF Around
<1>13. Around(p, p + 1)
  <2>1. (p + 1) .. (p + 1) - 1 = {}
    OBVIOUS
  <2> QED  BY <2>1 DEF Around
<1> QED  BY <1>9, <1>10, <1>11, <1>12, <1>13

\* The "end" that closes p.
LEMMA ClosesOnce ==
    ASSUME text \in Seq(Tokens), NEW p \in 1 .. Len(text), NEW q \in Parts(p), Kind(q) = "end"
    PROVE  /\ q \in p + 1 .. Len(text) /\ Depth(p, q) = 0 /\ Around(p, q)
           /\ \A r \in Nat : q < r => ~Around(p, r)
<1>1. q \in p + 1 .. Len(text) /\ Balanced(p, q) /\ p \in Nat /\ Len(text) \in Nat
  BY DEF Parts
<1>2. p \in Nat /\ q \in Nat /\ p < q /\ q - 1 \in Nat /\ p <= q - 1 /\ (q - 1) + 1 = q
  BY <1>1
<1>3. /\ Count(p, q - 1, Openers) \in Nat
      /\ Count(p, (q - 1) + 1, Openers) = Count(p, q - 1, Openers) + IF Kind((q - 1) + 1) \in Openers THEN 1 ELSE 0
  BY <1>2, CountStep, SMTT(30)
<1>4. /\ Count(p, q - 1, {"end"}) \in Nat
      /\ Count(p, (q - 1) + 1, {"end"}) = Count(p, q - 1, {"end"}) + IF Kind((q - 1) + 1) \in {"end"} THEN 1 ELSE 0
  BY <1>2, CountStep
<1>5. Count(p, q - 1, {"end"}) = Count(p, q - 1, Openers) /\ Around(p, q)
  BY <1>1 DEF Balanced, Around
<1>6. ~(Count(p, q, {"end"}) <= Count(p, q, Openers))
  BY <1>2, <1>3, <1>4, <1>5 DEF Openers
<1>7. ASSUME NEW r \in Nat, q < r PROVE ~Around(p, r)
  <2>1. q \in p + 1 .. r - 1
    BY <1>2, <1>7
  <2> QED  BY <1>6, <2>1 DEF Around
<1>8. Depth(p, q) = 0
  BY <1>3, <1>5 DEF Depth
<1> QED  BY <1>1, <1>5, <1>7, <1>8

\* Every statement that opens a body is closed by one "end", and not before what it is around.
LEMMA ClosingFacts ==
    ASSUME text \in Seq(Tokens), Unclosed = {}, NEW p \in 1 .. Len(text), Kind(p) \in Openers
    PROVE  /\ Closing(p) \in p + 1 .. Len(text)
           /\ \A q \in Nat : p < q /\ Around(p, q) => q <= Closing(p)
           /\ \A q \in 1 .. Len(text) :
                 p < q /\ Around(p, q) /\ Depth(p, q) = 0 /\ Kind(q) = "end" => Closing(p) = q
<1>1. \E q \in Parts(p) : Kind(q) = "end"
  BY DEF Unclosed, Open
<1>2. Closing(p) \in Parts(p) /\ Kind(Closing(p)) = "end"
  BY <1>1 DEF Closing
<1> DEFINE c == Closing(p)
<1>3. c \in Parts(p) /\ Kind(c) = "end"
  BY <1>2
<1> HIDE DEF c
<1>4. /\ c \in p + 1 .. Len(text)
      /\ \A r \in Nat : c < r => ~Around(p, r)
      /\ Around(p, c)
  BY <1>3, ClosesOnce
<1>5. \A q \in Nat : p < q /\ Around(p, q) => q <= c
  BY <1>4
<1>6. ASSUME NEW q \in 1 .. Len(text), p < q, Around(p, q), Depth(p, q) = 0, Kind(q) = "end"
      PROVE  c = q
  <2>1. /\ p \in Nat /\ q \in Nat /\ q - 1 \in Nat /\ p <= q - 1
    BY <1>6
  <2>2. Count(p, q - 1, Openers) \in Nat /\ Count(p, q - 1, {"end"}) \in Nat
    BY <2>1, CountStep
  <2>3. Count(p, q - 1, {"end"}) = Count(p, q - 1, Openers)
    BY <1>6, <2>2 DEF Depth
  <2>4. q \in Parts(p)
    BY <1>6, <2>1, <2>3 DEF Parts, Balanced, Around
  <2>5. \A r \in Nat : q < r => ~Around(p, r)
    BY <1>6, <2>4, ClosesOnce
  <2> QED  BY <1>4, <1>6, <2>1, <2>5
<1> QED  BY <1>4, <1>5, <1>6 DEF c

\* The text of a whole body.
Whole == text \in Seq(Tokens) /\ Unclosed = {}

\* From token to token the only loop that is entered is the token's, and an
\* "end" leaves the statement it is the end of.
LEMMA LoopsStep ==
    ASSUME Whole, NEW q \in 1 .. Len(text)
    PROVE  /\ \A f \in Loops(q + 1) : f \in Loops(q) \/ (f = q /\ Kind(q) = "for")
           /\ \A p \in 1 .. q - 1 :
                 Kind(p) \in Openers /\ Around(p, q) /\ Depth(p, q) = 0 /\ Kind(q) = "end"
                     => p \notin Loops(q + 1)
<1>1. q \in Nat /\ Len(text) \in Nat /\ text \in Seq(Tokens) /\ Unclosed = {}
  BY DEF Whole
<1>2. ASSUME NEW f \in Loops(q + 1) PROVE f \in Loops(q) \/ (f = q /\ Kind(q) = "for")
  <2>1. f \in 1 .. q /\ Kind(f) = "for" /\ q + 1 <= Closing(f)
    BY <1>1, <1>2 DEF Loops
  <2>2. Closing(f) \in f + 1 .. Len(text)
    BY <1>1, <2>1, ClosingFacts DEF Openers
  <2>3. q <= Closing(f)
    BY <1>1, <2>1, <2>2
  <2> QED  BY <1>1, <2>1, <2>3 DEF Loops
<1>3. ASSUME NEW p \in 1 .. q - 1, Kind(p) \in Openers, Around(p, q), Depth(p, q) = 0, Kind(q) = "end"
      PROVE  p \notin Loops(q + 1)
  <2>1. p \in 1 .. Len(text) /\ p < q
    BY <1>1
  <2>2. Closing(p) = q
    BY <1>1, <1>3, <2>1, ClosingFacts
  <2> QED  BY <1>1, <2>2 DEF Loops
<1> QED  BY <1>2, <1>3

\* A token that opens and closes no body.
LEMMA PassPlaced ==
    ASSUME Whole, NEW q \in 1 .. Len(text), NEW fs, NEW open, NEW L \in Nat,
           Placed(fs, q, open, L), Kind(q) \notin Openers, Kind(q) # "end"
    PROVE  Placed(fs, q + 1, open, L)
<1>1. \A i \in 1 .. L : /\ open[i] \in 1 .. q - 1 /\ Kind(open[i]) = Statement(fs[i])
                        /\ Around(open[i], q)
  BY DEF Placed
<1>2. q \in Nat
  OBVIOUS
<1>3. ASSUME NEW i \in 1 .. L
      PROVE  /\ Depth(open[i], q) \in Int /\ Depth(open[i], q + 1) = Depth(open[i], q)
             /\ Around(open[i], q + 1)
  <2>1. open[i] \in Nat /\ open[i] < q /\ Around(open[i], q)
    BY <1>1, <1>2
  <2>2. /\ Depth(open[i], q) \in Int /\ Depth(open[i], q) >= 0
        /\ Depth(open[i], q + 1) = Depth(open[i], q) + IF Kind(q) \in Openers THEN 1
                                                      ELSE IF Kind(q) = "end" THEN -1 ELSE 0
        /\ Depth(open[i], q + 1) >= 0 => Around(open[i], q + 1)
    BY <1>2, <2>1, DepthStep
  <2> QED  BY <2>2
<1>4. \A f \in Loops(q + 1) : \E i \in 1 .. L : fs[i].kind = "for" /\ open[i] = f
  BY LoopsStep DEF Placed, Openers
<1>5. \A i \in 1 .. L : open[i] \in 1 .. (q + 1) - 1
  BY <1>1, <1>2
<1>6. \A i \in 1 .. L - 1 : i \in 1 .. L /\ i + 1 \in 1 .. L
  OBVIOUS
<1>7. L > 0 => L \in 1 .. L
  OBVIOUS
<1> QED  BY <1>1, <1>3, <1>4, <1>5, <1>6, <1>7 DEF Placed

\* A token that opens a body, and its frame.
LEMMA PushPlaced ==
    ASSUME Whole, NEW q \in 1 .. Len(text), NEW fs, NEW open, NEW L \in Nat,
           Placed(fs, q, open, L), Kind(q) \in Openers,
           NEW gs, NEW also, Same(fs, open, gs, also, L),
           also[L + 1] = q, Statement(gs[L + 1]) = Kind(q), Starts(gs[L + 1])
    PROVE  Placed(gs, q + 1, also, L + 1)
<1>0. \A i \in 1 .. L : gs[i] = fs[i] /\ also[i] = open[i]
  BY DEF Same
<1> USE <1>0
<1>1. \A i \in 1 .. L : /\ open[i] \in 1 .. q - 1 /\ Kind(open[i]) = Statement(fs[i])
                        /\ Around(open[i], q)
  BY DEF Placed
<1>2. q \in Nat
  OBVIOUS
<1>3. ASSUME NEW i \in 1 .. L
      PROVE  /\ Depth(also[i], q) \in Int /\ Depth(also[i], q) >= 0
             /\ Depth(also[i], q + 1) = Depth(also[i], q) + 1
             /\ Around(also[i], q + 1)
  <2>1. open[i] \in Nat /\ open[i] < q /\ Around(open[i], q) /\ also[i] = open[i]
    BY <1>1, <1>2
  <2>2. /\ Depth(open[i], q) \in Int /\ Depth(open[i], q) >= 0
        /\ Depth(open[i], q + 1) = Depth(open[i], q) + 1
        /\ Around(open[i], q) /\ Depth(open[i], q + 1) >= 0 => Around(open[i], q + 1)
    BY <1>2, <2>1, DepthStep
  <2> QED  BY <2>1, <2>2
<1>4. Depth(q, q + 1) = 0 /\ Around(q, q + 1)
  <2>1. q < q + 1 /\ q + 1 \in Nat
    BY <1>2
  <2>2. /\ Depth(q, q + 1) = 0 /\ Around(q, q + 1)
    BY <1>2, <2>1, DepthStep, SMTT(30)
  <2> QED  BY <2>2
<1>5. \A i \in 1 .. L + 1 : i \in 1 .. L \/ i = L + 1
  OBVIOUS
<1>6. ASSUME NEW f \in Loops(q + 1) PROVE \E i \in 1 .. L + 1 : gs[i].kind = "for" /\ also[i] = f
  <2>1. CASE f \in Loops(q)
    <3>1. PICK i \in 1 .. L : fs[i].kind = "for" /\ open[i] = f
      BY <2>1 DEF Placed
    <3> QED  BY <3>1
  <2>2. CASE f = q /\ Kind(q) = "for"
    <3>1. gs[L + 1].kind = "for"
      BY <2>2 DEF Statement
    <3> QED  BY <2>2, <3>1
  <2> QED  BY <2>1, <2>2, LoopsStep
<1>7. \A i \in 1 .. L + 1 : /\ also[i] \in 1 .. (q + 1) - 1
                            /\ Kind(also[i]) = Statement(gs[i])
                            /\ Around(also[i], q + 1)
  <2>1. \A i \in 1 .. L : /\ also[i] \in 1 .. (q + 1) - 1
                          /\ Kind(also[i]) = Statement(gs[i])
                          /\ Around(also[i], q + 1)
    <3>1. SUFFICES ASSUME NEW i \in 1 .. L
                   PROVE  /\ also[i] \in 1 .. (q + 1) - 1
                          /\ Kind(also[i]) = Statement(gs[i])
                          /\ Around(also[i], q + 1)
      OBVIOUS
    <3>2. also[i] = open[i] /\ gs[i] = fs[i]
      OBVIOUS
    <3> QED  BY <1>1, <1>2, <1>3, <3>2
  <2>2. q \in 1 .. (q + 1) - 1
    BY <1>2
  <2> QED  BY <1>4, <1>5, <2>1, <2>2
<1>8. ASSUME NEW i \in 1 .. L + 1, NEW j \in 1 .. L + 1, i < j
      PROVE  also[i] = also[j] \/ Depth(also[i], q + 1) > Depth(also[j], q + 1)
  <2>1. i \in 1 .. L
    BY <1>8
  <2>2. CASE j = L + 1
    BY <1>3, <1>4, <2>1, <2>2
  <2>3. CASE j \in 1 .. L
    <3>1. open[i] = open[j] \/ Depth(open[i], q) > Depth(open[j], q)
      BY <1>8, <2>1, <2>3 DEF Placed
    <3> QED  BY <1>3, <2>1, <2>3, <3>1
  <2> QED  BY <1>5, <2>2, <2>3
<1>9. ASSUME NEW i \in 1 .. (L + 1) - 1, Starts(gs[i + 1])
      PROVE  Depth(also[i], q + 1) = Depth(also[i + 1], q + 1) + 1
  <2>1. i \in 1 .. L
    OBVIOUS
  <2>2. CASE i = L
    <3>1. Depth(open[L], q) = 0 /\ also[L] = open[L]
      BY <2>1, <2>2 DEF Placed
    <3> QED  BY <1>3, <1>4, <2>1, <2>2, <3>1
  <2>3. CASE i # L
    <3>1. i \in 1 .. L - 1 /\ i + 1 \in 1 .. L
      BY <2>1, <2>3
    <3>2. Depth(open[i], q) = Depth(open[i + 1], q) + 1
      BY <1>9, <3>1 DEF Placed
    <3> QED  BY <1>3, <2>1, <3>1, <3>2
  <2> QED  BY <2>2, <2>3
<1>10. ASSUME NEW i \in 1 .. L + 1, NEW j \in 1 .. L + 1, i # j, gs[i].kind = "for"
       PROVE  also[i] # also[j]
  <2>1. CASE i = L + 1 \/ j = L + 1
    BY <1>1, <1>2, <1>5, <1>10, <2>1
  <2>2. CASE i \in 1 .. L /\ j \in 1 .. L
    <3>1. fs[i].kind = "for" /\ also[i] = open[i] /\ also[j] = open[j]
      BY <1>10, <2>2
    <3>2. \A k, m \in 1 .. L : k # m /\ fs[k].kind = "for" => open[k] # open[m]
      BY DEF Placed
    <3> QED  BY <1>10, <2>2, <3>1, <3>2
  <2> QED  BY <1>5, <2>1, <2>2
<1>11. L + 1 > 0 => Depth(also[L + 1], q + 1) = 0
  BY <1>4
<1> QED  BY <1>6, <1>7, <1>8, <1>9, <1>10, <1>11 DEF Placed

\* An "or": the frame of the if waits in its else side, and the next branch is on top of it.
LEMMA OrPlaced ==
    ASSUME Whole, NEW q \in 1 .. Len(text), NEW fs, NEW open, NEW L \in Nat \ {0},
           Placed(fs, q, open, L), Kind(q) = "or", fs[L].kind = "if",
           NEW gs, NEW also, Alike(fs, open, gs, also, L), also[L + 1] = open[L], gs[L + 1].kind = "if", ~Starts(gs[L + 1])
    PROVE  Placed(gs, q + 1, also, L + 1)
<1>0. \A i \in 1 .. L : /\ also[i] = open[i]
                        /\ Statement(gs[i]) = Statement(fs[i])
                        /\ Starts(gs[i]) <=> Starts(fs[i])
                        /\ gs[i].kind = "for" <=> fs[i].kind = "for"
  BY DEF Alike
<1> USE <1>0
<1>1. Placed(fs, q + 1, open, L)
  BY PassPlaced DEF Openers
<1>2. L \in Nat /\ L \in 1 .. L /\ \A i \in 1 .. L + 1 : i \in 1 .. L \/ i = L + 1
  OBVIOUS
<1>3. Statement(fs[L]) = "if" /\ Statement(gs[L + 1]) = "if"
  BY DEF Statement
<1>4. \A i \in 1 .. L + 1 : /\ also[i] \in 1 .. (q + 1) - 1
                            /\ Kind(also[i]) = Statement(gs[i])
                            /\ Around(also[i], q + 1)
  <2>1. \A i \in 1 .. L : /\ open[i] \in 1 .. (q + 1) - 1
                          /\ Kind(open[i]) = Statement(fs[i])
                          /\ Around(open[i], q + 1)
    BY <1>1 DEF Placed
  <2> QED  BY <1>2, <1>3, <2>1
<1>5. ASSUME NEW i \in 1 .. L + 1, NEW j \in 1 .. L + 1, i < j
      PROVE  also[i] = also[j] \/ Depth(also[i], q + 1) > Depth(also[j], q + 1)
  <2>1. i \in 1 .. L /\ also[i] = open[i]
    BY <1>5
  <2>2. CASE j = L + 1 /\ i = L
    BY <2>2
  <2>3. CASE j = L + 1 /\ i # L
    <3>1. i < L
      BY <2>1, <2>3
    <3>2. open[i] = open[L] \/ Depth(open[i], q + 1) > Depth(open[L], q + 1)
      BY <1>1, <1>2, <2>1, <3>1 DEF Placed
    <3> QED  BY <2>1, <2>3, <3>2
  <2>4. CASE j \in 1 .. L
    BY <1>1, <1>5, <2>1, <2>4 DEF Placed
  <2> QED  BY <1>2, <2>2, <2>3, <2>4
<1>6. ASSUME NEW i \in 1 .. (L + 1) - 1, Starts(gs[i + 1])
      PROVE  Depth(also[i], q + 1) = Depth(also[i + 1], q + 1) + 1
  <2>1. i \in 1 .. L - 1 /\ i \in 1 .. L /\ i + 1 \in 1 .. L
    BY <1>6
  <2> QED  BY <1>1, <1>6, <2>1 DEF Placed
<1>7. ASSUME NEW i \in 1 .. L + 1, NEW j \in 1 .. L + 1, i # j, gs[i].kind = "for"
      PROVE  also[i] # also[j]
  <2>1. i \in 1 .. L /\ fs[i].kind = "for" /\ i # L /\ also[i] = open[i]
    BY <1>2, <1>7
  <2>2. also[j] = open[L] \/ (j \in 1 .. L /\ also[j] = open[j])
    BY <1>2
  <2>3. \A k \in 1 .. L : i # k => open[i] # open[k]
    BY <1>1, <2>1 DEF Placed
  <2> QED  BY <1>2, <1>7, <2>1, <2>2, <2>3
<1>8. \A f \in Loops(q + 1) : \E i \in 1 .. L + 1 : gs[i].kind = "for" /\ also[i] = f
  <2>1. \A f \in Loops(q + 1) : \E i \in 1 .. L : fs[i].kind = "for" /\ open[i] = f
    BY <1>1 DEF Placed
  <2> QED  BY <2>1
<1>9. L + 1 > 0 => Depth(also[L + 1], q + 1) = 0
  BY <1>1 DEF Placed
<1> QED  BY <1>4, <1>5, <1>6, <1>7, <1>8, <1>9 DEF Placed

\* An "end": the frames from K + 1 on were open for the statement it closes.
LEMMA EndPlaced ==
    ASSUME Whole, NEW q \in 1 .. Len(text), NEW fs, NEW open, NEW L \in Nat \ {0},
           Placed(fs, q, open, L), Kind(q) = "end", Statement(fs[L]) \in Openers,
           NEW K \in 0 .. L - 1, Starts(fs[K + 1]), open[K + 1] = open[L],
           \A i \in K + 1 .. L - 1 : fs[i].kind # "for",
           NEW gs, NEW fewer, Same(fs, open, gs, fewer, K)
    PROVE  Placed(gs, q + 1, fewer, K)
<1>0. \A i \in 1 .. K : gs[i] = fs[i] /\ fewer[i] = open[i]
  BY DEF Same
<1> USE <1>0
<1>1. \A i \in 1 .. L : /\ open[i] \in 1 .. q - 1 /\ Kind(open[i]) = Statement(fs[i])
                        /\ Around(open[i], q)
  BY DEF Placed
<1>2. q \in Nat /\ "end" \notin Openers /\ L \in 1 .. L /\ \A i \in 1 .. K : i \in 1 .. L - 1 /\ i \in 1 .. L
  BY DEF Openers
<1>3. ASSUME NEW i \in 1 .. L
      PROVE  /\ Depth(open[i], q) \in Int
             /\ Depth(open[i], q + 1) = Depth(open[i], q) - 1
             /\ Depth(open[i], q + 1) >= 0 => Around(open[i], q + 1)
  <2>1. open[i] \in Nat /\ open[i] < q /\ Around(open[i], q)
    BY <1>1, <1>2
  <2> QED  BY <1>2, <2>1, DepthStep
<1>4. Depth(open[L], q) = 0
  BY DEF Placed
<1>5. K > 0 => Depth(open[K], q) = 1
  BY <1>2, <1>4 DEF Placed
<1>6. ASSUME NEW i \in 1 .. K PROVE Depth(open[i], q) >= 1
  <2>1. i = K \/ (i < K /\ K \in 1 .. K)
    OBVIOUS
  <2>2. i < K => open[i] = open[K] \/ Depth(open[i], q) > Depth(open[K], q)
    BY <1>2, <2>1 DEF Placed
  <2>3. Depth(open[K], q) = 1 /\ Depth(open[i], q) \in Int
    BY <1>2, <1>3, <1>5
  <2> HIDE DEF Depth
  <2> QED  BY <2>1, <2>2, <2>3
<1>7. \A i \in 1 .. K : /\ Depth(fewer[i], q + 1) = Depth(open[i], q) - 1
                        /\ Depth(open[i], q) \in Int
                        /\ Around(fewer[i], q + 1)
  BY <1>2, <1>3, <1>6
<1>8. \A i \in 1 .. K : fewer[i] \in 1 .. (q + 1) - 1 /\ Kind(fewer[i]) = Statement(gs[i])
  BY <1>1, <1>2
<1>9. ASSUME NEW i \in 1 .. K, NEW j \in 1 .. K, i < j
      PROVE  fewer[i] = fewer[j] \/ Depth(fewer[i], q + 1) > Depth(fewer[j], q + 1)
  <2>1. open[i] = open[j] \/ Depth(open[i], q) > Depth(open[j], q)
    BY <1>2, <1>9 DEF Placed
  <2>2. /\ Depth(fewer[i], q + 1) = Depth(open[i], q) - 1 /\ Depth(open[i], q) \in Int
        /\ Depth(fewer[j], q + 1) = Depth(open[j], q) - 1 /\ Depth(open[j], q) \in Int
        /\ fewer[i] = open[i] /\ fewer[j] = open[j]
    BY <1>7
  <2> QED  BY <2>1, <2>2
<1>10. ASSUME NEW i \in 1 .. K - 1, Starts(gs[i + 1])
       PROVE  Depth(fewer[i], q + 1) = Depth(fewer[i + 1], q + 1) + 1
  <2>1. i \in 1 .. K /\ i + 1 \in 1 .. K /\ i \in 1 .. L - 1
    OBVIOUS
  <2>2. Depth(open[i], q) = Depth(open[i + 1], q) + 1
    BY <1>10, <2>1 DEF Placed
  <2> QED  BY <1>7, <2>1, <2>2
<1>11. ASSUME NEW i \in 1 .. K, NEW j \in 1 .. K, i # j, gs[i].kind = "for"
       PROVE  fewer[i] # fewer[j]
  <2>1. i \in 1 .. L /\ j \in 1 .. L /\ fs[i].kind = "for" /\ fewer[i] = open[i] /\ fewer[j] = open[j]
    BY <1>2, <1>11
  <2> QED  BY <1>11, <2>1 DEF Placed
<1>12. ASSUME NEW f \in Loops(q + 1) PROVE \E i \in 1 .. K : gs[i].kind = "for" /\ fewer[i] = f
  <2>1. f \in Loops(q)
    BY <1>12, LoopsStep
  <2>2. PICK i \in 1 .. L : fs[i].kind = "for" /\ open[i] = f
    BY <2>1 DEF Placed
  <2>3. open[L] \notin Loops(q + 1)
    BY <1>1, <1>2, <1>4, LoopsStep
  <2>4. i # L /\ i \notin K + 1 .. L - 1
    BY <1>12, <2>2, <2>3
  <2>5. i \in 1 .. K
    BY <2>4
  <2> QED  BY <2>2, <2>5
<1>13. K > 0 => Depth(fewer[K], q + 1) = 0
  BY <1>5, <1>7
<1>14. \A i \in 1 .. K : /\ fewer[i] \in 1 .. (q + 1) - 1
                         /\ Kind(fewer[i]) = Statement(gs[i])
                         /\ Around(fewer[i], q + 1)
  BY <1>7, <1>8
<1>15. \A f \in Loops(q + 1) : \E i \in 1 .. K : gs[i].kind = "for" /\ fewer[i] = f
  BY <1>12
<1> QED  BY <1>9, <1>10, <1>11, <1>13, <1>14, <1>15 DEF Placed

\* The call on top is not generating an else side: all frames are generating.
LEMMA AllGenerate ==
    ASSUME NEW fs \in Seq(Frames), NEW open, NEW L \in 0 .. Len(fs), Grouped(fs, open, L),
           fs = <<>> \/ fs[Len(fs)].kind # "else"
    PROVE  L = Len(fs)
<1>1. CASE fs = <<>>
  BY <1>1
<1>2. CASE fs # <<>> /\ L # Len(fs)
  <2>1. Len(fs) \in L + 1 .. Len(fs)
    BY <1>2
  <2> QED  BY <1>2, <2>1 DEF Grouped
<1> QED  BY <1>1, <1>2

LEMMA PushGrouped ==
    ASSUME NEW fs \in Seq(Frames), NEW open, NEW L, L = Len(fs), Grouped(fs, open, L),
           NEW f \in Frames, f.kind # "else", Starts(f),
           NEW also, \A i \in 1 .. L : also[i] = open[i]
    PROVE  Grouped(Append(fs, f), also, L + 1)
<1> DEFINE gs == Append(fs, f)
<1>1. /\ Len(gs) = L + 1 /\ gs[L + 1] = f /\ L \in Nat
      /\ \A i \in 1 .. L : gs[i] = fs[i]
  OBVIOUS
<1> HIDE DEF gs
<1>2. ASSUME NEW i \in 1 .. L + 1
      PROVE  \E j \in 1 .. i : /\ Starts(gs[j]) /\ also[j] = also[i]
                               /\ \A k \in j .. i - 1 : gs[k].kind = "else"
  <2>1. CASE i = L + 1
    <3>1. i \in 1 .. i /\ i .. i - 1 = {}
      BY <1>1, <2>1
    <3> QED  BY <1>1, <2>1, <3>1
  <2>2. CASE i \in 1 .. L
    <3>1. PICK j \in 1 .. i : /\ Starts(fs[j]) /\ open[j] = open[i]
                              /\ \A k \in j .. i - 1 : fs[k].kind = "else"
      BY <2>2 DEF Grouped
    <3>2. j \in 1 .. L /\ \A k \in j .. i - 1 : k \in 1 .. L
      BY <1>1, <2>2
    <3> QED  BY <1>1, <2>2, <3>1, <3>2
  <2> QED  BY <1>1, <2>1, <2>2
<1>3. ASSUME NEW i \in 1 .. Len(gs) - 1, gs[i].kind = "else" PROVE ~Starts(gs[i + 1])
  <2>1. i \in 1 .. L /\ fs[i].kind = "else"
    BY <1>1, <1>3
  <2>2. i # L
    BY <2>1 DEF Grouped
  <2>3. i \in 1 .. Len(fs) - 1 /\ i + 1 \in 1 .. L
    BY <1>1, <2>1, <2>2
  <2> QED  BY <1>1, <2>1, <2>3 DEF Grouped
<1>4. \A i \in (L + 1) + 1 .. Len(gs) : gs[i].kind = "else"
  BY <1>1
<1> QED  BY <1>1, <1>2, <1>3, <1>4 DEF Grouped, gs

\* The top of fs goes on to its else side, below the frames that are pushed on it.
LEMMA ElseFollows ==
    ASSUME NEW fs \in Seq(Frames), NEW open, NEW L, L = Len(fs), L > 0, Grouped(fs, open, L),
           NEW gs, Len(gs) >= L, \A i \in 1 .. L - 1 : gs[i] = fs[i],
           gs[L].kind = "else", Starts(gs[L]) <=> Starts(fs[L]),
           NEW i \in 1 .. L - 1, gs[i].kind = "else"
    PROVE  ~Starts(gs[i + 1])
<1>1. L \in Nat /\ i \in 1 .. Len(fs) - 1 /\ fs[i].kind = "else" /\ (i + 1 = L \/ i + 1 \in 1 .. L - 1)
  OBVIOUS
<1>2. ~Starts(fs[i + 1])
  BY <1>1 DEF Grouped
<1> QED  BY <1>1, <1>2

LEMMA OrGrouped ==
    ASSUME NEW fs \in Seq(Frames), NEW open, NEW L, L = Len(fs), L > 0, Grouped(fs, open, L),
           NEW gs \in Seq(Frames), Len(gs) = L + 1, \A i \in 1 .. L - 1 : gs[i] = fs[i],
           gs[L].kind = "else", Starts(gs[L]) <=> Starts(fs[L]),
           gs[L + 1].kind = "if", ~Starts(gs[L + 1]),
           NEW also, \A i \in 1 .. L : also[i] = open[i], also[L + 1] = open[L]
    PROVE  Grouped(gs, also, L + 1)
<1>1. L \in Nat /\ L \in 1 .. L
  OBVIOUS
<1>2. \A i \in 1 .. L : Starts(gs[i]) <=> Starts(fs[i])
  <2>1. \A i \in 1 .. L : i = L \/ i \in 1 .. L - 1
    BY <1>1
  <2> QED  BY <2>1
<1>3. ASSUME NEW i \in 1 .. L
      PROVE  \E j \in 1 .. i : /\ Starts(gs[j]) /\ also[j] = also[i]
                               /\ \A k \in j .. i - 1 : gs[k].kind = "else"
  <2>1. PICK j \in 1 .. i : /\ Starts(fs[j]) /\ open[j] = open[i]
                            /\ \A k \in j .. i - 1 : fs[k].kind = "else"
    BY DEF Grouped
  <2>2. j \in 1 .. L /\ \A k \in j .. i - 1 : k \in 1 .. L - 1
    BY <1>1
  <2> QED  BY <1>2, <2>1, <2>2
<1>4. \E j \in 1 .. L + 1 : /\ Starts(gs[j]) /\ also[j] = also[L + 1]
                            /\ \A k \in j .. (L + 1) - 1 : gs[k].kind = "else"
  <2>1. PICK j \in 1 .. L : /\ Starts(gs[j]) /\ also[j] = also[L]
                            /\ \A k \in j .. L - 1 : gs[k].kind = "else"
    BY <1>1, <1>3
  <2>2. j \in 1 .. L + 1 /\ \A k \in j .. (L + 1) - 1 : k = L \/ k \in j .. L - 1
    BY <1>1
  <2> QED  BY <1>1, <2>1, <2>2
<1>5. \A i \in 1 .. L + 1 : \E j \in 1 .. i : /\ Starts(gs[j]) /\ also[j] = also[i]
                                               /\ \A k \in j .. i - 1 : gs[k].kind = "else"
  <2>1. \A i \in 1 .. L + 1 : i = L + 1 \/ i \in 1 .. L
    BY <1>1
  <2> QED  BY <1>3, <1>4, <2>1
<1>6. ASSUME NEW i \in 1 .. Len(gs) - 1, gs[i].kind = "else" PROVE ~Starts(gs[i + 1])
  <2>1. i = L \/ i \in 1 .. L - 1
    BY <1>1
  <2>2. Len(gs) >= L
    BY <1>1
  <2>3. i \in 1 .. L - 1 => ~Starts(gs[i + 1])
    BY <1>6, <2>2, ElseFollows, Zenon
  <2> QED  BY <2>1, <2>3
<1>7. \A i \in (L + 1) + 1 .. Len(gs) : gs[i].kind = "else"
  BY <1>1
<1> QED  BY <1>5, <1>6, <1>7 DEF Grouped

\* The end of the last branch of the if that the frames from K + 1 on are open for.
LEMMA ThenGrouped ==
    ASSUME NEW fs \in Seq(Frames), NEW open, NEW L, L = Len(fs), L > 0, Grouped(fs, open, L),
           NEW gs \in Seq(Frames), Len(gs) = L, \A i \in 1 .. L - 1 : gs[i] = fs[i],
           gs[L].kind = "else", Starts(gs[L]) <=> Starts(fs[L]),
           NEW K \in 0 .. L - 1, Starts(fs[K + 1]), \A k \in K + 1 .. L - 1 : fs[k].kind = "else",
           NEW fewer, \A i \in 1 .. K : fewer[i] = open[i]
    PROVE  Grouped(gs, fewer, K)
<1>1. L \in Nat /\ L \in 1 .. L /\ \A i \in 1 .. K : i \in 1 .. L - 1 /\ i \in 1 .. L
  OBVIOUS
<1>2. ASSUME NEW i \in 1 .. K
      PROVE  \E j \in 1 .. i : /\ Starts(gs[j]) /\ fewer[j] = fewer[i]
                               /\ \A k \in j .. i - 1 : gs[k].kind = "else"
  <2>1. PICK j \in 1 .. i : /\ Starts(fs[j]) /\ open[j] = open[i]
                            /\ \A k \in j .. i - 1 : fs[k].kind = "else"
    BY <1>1 DEF Grouped
  <2>2. j \in 1 .. K /\ \A k \in j .. i - 1 : k \in 1 .. K
    OBVIOUS
  <2> QED  BY <1>1, <2>1, <2>2
<1>3. ASSUME NEW i \in 1 .. Len(gs) - 1, gs[i].kind = "else" PROVE ~Starts(gs[i + 1])
  <2>1. i \in 1 .. L - 1
    BY <1>1
  <2>2. Len(gs) >= L
    BY <1>1
  <2> QED  BY <1>3, <2>1, <2>2, ElseFollows, Zenon
<1>4. ASSUME NEW i \in K + 1 .. Len(gs) PROVE gs[i].kind = "else"
  <2>1. i = L \/ (i \in K + 1 .. L - 1 /\ i \in 1 .. L - 1)
    BY <1>1
  <2> QED  BY <2>1
<1>5. K > 0 => gs[K].kind # "else"
  <2>1. SUFFICES ASSUME K > 0 PROVE fs[K].kind # "else"
    BY <1>1
  <2>2. K \in 1 .. Len(fs) - 1
    BY <1>1, <2>1
  <2> QED  BY <2>2 DEF Grouped
<1> QED  BY <1>2, <1>3, <1>4, <1>5 DEF Grouped

\* The top returns, having been an else side or a statement of its own.
LEMMA PopGrouped ==
    ASSUME NEW fs \in Seq(Frames), NEW open, NEW L \in 0 .. Len(fs), Len(fs) > 0, Grouped(fs, open, L),
           NEW gs \in Seq(Frames), Len(gs) = Len(fs) - 1, \A i \in 1 .. Len(gs) : gs[i] = fs[i],
           NEW K \in 0 .. Len(gs), K <= L,
           \/ fs[Len(fs)].kind = "else" /\ K = L
           \/ Starts(fs[Len(fs)]) /\ L = Len(fs) /\ K = L - 1,
           NEW fewer, \A i \in 1 .. K : fewer[i] = open[i]
    PROVE  Grouped(gs, fewer, K)
<1>1. /\ Len(fs) \in Nat /\ L \in Nat /\ K \in Nat
      /\ \A i \in 1 .. K : i \in 1 .. Len(gs) /\ i \in 1 .. L
  OBVIOUS
<1>2. ASSUME NEW i \in 1 .. K
      PROVE  \E j \in 1 .. i : /\ Starts(gs[j]) /\ fewer[j] = fewer[i]
                               /\ \A k \in j .. i - 1 : gs[k].kind = "else"
  <2>1. PICK j \in 1 .. i : /\ Starts(fs[j]) /\ open[j] = open[i]
                            /\ \A k \in j .. i - 1 : fs[k].kind = "else"
    BY <1>1 DEF Grouped
  <2>2. j \in 1 .. K /\ \A k \in j .. i - 1 : k \in 1 .. K
    OBVIOUS
  <2> QED  BY <1>1, <2>1, <2>2
<1>3. ASSUME NEW i \in 1 .. Len(gs) - 1, gs[i].kind = "else" PROVE ~Starts(gs[i + 1])
  <2>1. i \in 1 .. Len(fs) - 1 /\ i \in 1 .. Len(gs) /\ i + 1 \in 1 .. Len(gs)
    BY <1>1
  <2> QED  BY <1>3, <2>1 DEF Grouped
<1>4. ASSUME NEW i \in K + 1 .. Len(gs) PROVE gs[i].kind = "else"
  <2>1. i \in 1 .. Len(gs) /\ i \in L + 1 .. Len(fs)
    BY <1>1
  <2> QED  BY <2>1 DEF Grouped
<1>5. ASSUME K > 0 PROVE gs[K].kind # "else"
  <2>1. gs[K] = fs[K] /\ (K = L \/ (K \in 1 .. Len(fs) - 1 /\ K + 1 = Len(fs)))
    BY <1>1, <1>5
  <2> QED  BY <1>5, <2>1 DEF Grouped
<1> QED  BY <1>2, <1>3, <1>4, <1>5 DEF Grouped

\* What the frames stand for is a matter of the text.
LEMMA PlacedText ==
    ASSUME text' = text, NEW fs, NEW q, NEW open, NEW L, Placed(fs, q, open, L)
    PROVE  Placed(fs, q, open, L)'
<1>1. \A p : Kind(p)' = Kind(p)
  BY DEF Kind
<1>2. ASSUME NEW p, NEW m, NEW kinds
      PROVE  Count(p, m, kinds)' = Count(p, m, kinds)
  <2>1. {k \in p + 1 .. m : Kind(k) \in kinds}' = {k \in p + 1 .. m : Kind(k) \in kinds}
    BY <1>1
  <2> QED  BY <2>1 DEF Count
<1>3. \A p, m : Depth(p, m)' = Depth(p, m)
  BY <1>2 DEF Depth
<1>4. \A p, m : Around(p, m)' <=> Around(p, m)
  BY <1>2 DEF Around
<1>5. \A p, m : Balanced(p, m)' <=> Balanced(p, m)
  BY <1>2 DEF Balanced
<1>6. \A p : Parts(p)' = Parts(p)
  BY <1>1, <1>5 DEF Parts
<1>7. \A p : Closing(p)' = Closing(p)
  BY <1>1, <1>6 DEF Closing
<1>8. Loops(q)' = Loops(q)
  BY <1>1, <1>7 DEF Loops
<1> QED  BY <1>1, <1>3, <1>4, <1>8 DEF Placed

LEMMA NestedBy ==
    ASSUME NEW fs, NEW q, NEW L \in 0 .. Len(fs), NEW open \in [1 .. L -> 1 .. q - 1],
           Grouped(fs, open, L), Placed(fs, q, open, L)
    PROVE  Nested(fs, q)
BY Zenon DEF Nested

\* How each kind of token, and the return of a call, changes what is nested.
LEMMA PassNested ==
    ASSUME Whole, NEW q \in 1 .. Len(text), NEW fs \in Seq(Frames), Nested(fs, q),
           Kind(q) \notin Openers, Kind(q) # "end"
    PROVE  Nested(fs, q + 1)
<1>0. PICK L \in 0 .. Len(fs) : \E open \in [1 .. L -> 1 .. q - 1] :
         Grouped(fs, open, L) /\ Placed(fs, q, open, L)
  BY DEF Nested
<1>1. PICK open \in [1 .. L -> 1 .. q - 1] : Grouped(fs, open, L) /\ Placed(fs, q, open, L)
  BY <1>0
<1>2. L \in Nat /\ q \in Nat
  OBVIOUS
<1>3. Placed(fs, q + 1, open, L)
  BY <1>1, <1>2, PassPlaced
<1>4. open \in [1 .. L -> 1 .. (q + 1) - 1]
  BY <1>2
<1> QED  BY <1>1, <1>3, <1>4 DEF Nested

LEMMA PushNested ==
    ASSUME Whole, NEW q \in 1 .. Len(text), NEW fs \in Seq(Frames), Nested(fs, q),
           Kind(q) \in Openers, fs = <<>> \/ fs[Len(fs)].kind # "else",
           NEW f \in Frames, f.kind = Kind(q), Starts(f)
    PROVE  Nested(Append(fs, f), q + 1)
<1>0. PICK L \in 0 .. Len(fs) : \E open \in [1 .. L -> 1 .. q - 1] :
         Grouped(fs, open, L) /\ Placed(fs, q, open, L)
  BY DEF Nested
<1>1. PICK open \in [1 .. L -> 1 .. q - 1] : Grouped(fs, open, L) /\ Placed(fs, q, open, L)
  BY <1>0
<1>2. L = Len(fs) /\ L \in Nat /\ q \in Nat
  BY <1>1, AllGenerate
<1> DEFINE also == [i \in 1 .. L + 1 |-> IF i = L + 1 THEN q ELSE open[i]]
           gs == Append(fs, f)
<1>3. /\ also \in [1 .. L + 1 -> 1 .. (q + 1) - 1]
      /\ \A i \in 1 .. L : also[i] = open[i]
      /\ also[L + 1] = q
  BY <1>2
<1>4. /\ Len(gs) = L + 1 /\ gs[L + 1] = f
      /\ \A i \in 1 .. L : gs[i] = fs[i]
  BY <1>2
<1>5. f.kind # "else" /\ Statement(f) = Kind(q)
  BY DEF Openers, Statement
<1> HIDE DEF also
<1>6. Grouped(gs, also, L + 1)
  BY <1>1, <1>2, <1>3, <1>5, PushGrouped
<1> HIDE DEF gs
<1>7. Placed(gs, q + 1, also, L + 1)
  <2>1. Same(fs, open, gs, also, L)
    BY <1>3, <1>4 DEF Same
  <2>2. Statement(gs[L + 1]) = Kind(q) /\ Starts(gs[L + 1])
    BY <1>4, <1>5
  <2>3. L \in Nat /\ Placed(fs, q, open, L) /\ also[L + 1] = q
    BY <1>1, <1>2, <1>3
  <2> QED  BY <2>1, <2>2, <2>3, PushPlaced, Zenon
<1>8. L + 1 \in 0 .. Len(gs)
  BY <1>2, <1>4
<1>9. also \in [1 .. L + 1 -> 1 .. (q + 1) - 1]
  BY <1>3
<1>10. Nested(gs, q + 1)
  BY <1>6, <1>7, <1>8, <1>9, NestedBy, Zenon
<1> QED  BY <1>10 DEF gs

LEMMA OrNested ==
    ASSUME Whole, NEW q \in 1 .. Len(text), NEW fs \in Seq(Frames), Nested(fs, q),
           Kind(q) = "or", Len(fs) > 0, fs[Len(fs)].kind = "if",
           NEW gs \in Seq(Frames), Len(gs) = Len(fs) + 1,
           \A i \in 1 .. Len(fs) - 1 : gs[i] = fs[i],
           gs[Len(fs)].kind = "else", Starts(gs[Len(fs)]) <=> Starts(fs[Len(fs)]),
           gs[Len(fs) + 1].kind = "if", ~Starts(gs[Len(fs) + 1])
    PROVE  Nested(gs, q + 1)
<1>0. PICK L \in 0 .. Len(fs) : \E open \in [1 .. L -> 1 .. q - 1] :
         Grouped(fs, open, L) /\ Placed(fs, q, open, L)
  BY DEF Nested
<1>1. PICK open \in [1 .. L -> 1 .. q - 1] : Grouped(fs, open, L) /\ Placed(fs, q, open, L)
  BY <1>0
<1>2. L = Len(fs) /\ L \in Nat \ {0} /\ L \in 1 .. L /\ q \in Nat
  BY <1>1, AllGenerate
<1> DEFINE also == [i \in 1 .. L + 1 |-> IF i = L + 1 THEN open[L] ELSE open[i]]
<1>3. /\ also \in [1 .. L + 1 -> 1 .. (q + 1) - 1]
      /\ \A i \in 1 .. L : also[i] = open[i]
      /\ also[L + 1] = open[L]
  BY <1>2
<1> HIDE DEF also
<1>4. Grouped(gs, also, L + 1)
  BY <1>1, <1>2, <1>3, OrGrouped
<1>5. Alike(fs, open, gs, also, L)
  <2>1. \A i \in 1 .. L : i = L \/ i \in 1 .. L - 1
    BY <1>2
  <2>2. Statement(gs[L]) = Statement(fs[L])
    BY <1>2 DEF Statement
  <2> QED  BY <1>2, <1>3, <2>1, <2>2 DEF Alike
<1>6. Placed(gs, q + 1, also, L + 1)
  <2>1. /\ L \in Nat \ {0} /\ Placed(fs, q, open, L) /\ fs[L].kind = "if"
        /\ also[L + 1] = open[L] /\ gs[L + 1].kind = "if" /\ ~Starts(gs[L + 1])
    BY <1>1, <1>2, <1>3
  <2> QED  BY <1>5, <2>1, OrPlaced, Zenon
<1>7. L + 1 \in 0 .. Len(gs) /\ also \in [1 .. L + 1 -> 1 .. (q + 1) - 1]
  <2>1. L + 1 \in 0 .. Len(gs)
    BY <1>2
  <2> QED  BY <1>3, <2>1
<1> QED  BY <1>4, <1>6, <1>7, NestedBy, Zenon

LEMMA ThenNested ==
    ASSUME Whole, NEW q \in 1 .. Len(text), NEW fs \in Seq(Frames), Nested(fs, q),
           Kind(q) = "end", Len(fs) > 0, fs[Len(fs)].kind = "if",
           NEW gs \in Seq(Frames), Len(gs) = Len(fs),
           \A i \in 1 .. Len(fs) - 1 : gs[i] = fs[i],
           gs[Len(fs)].kind = "else", Starts(gs[Len(fs)]) <=> Starts(fs[Len(fs)])
    PROVE  Nested(gs, q + 1)
<1>0. PICK L \in 0 .. Len(fs) : \E open \in [1 .. L -> 1 .. q - 1] :
         Grouped(fs, open, L) /\ Placed(fs, q, open, L)
  BY DEF Nested
<1>1. PICK open \in [1 .. L -> 1 .. q - 1] : Grouped(fs, open, L) /\ Placed(fs, q, open, L)
  BY <1>0
<1>2. L = Len(fs) /\ L \in Nat \ {0} /\ L \in 1 .. L /\ q \in Nat
  BY <1>1, AllGenerate
<1>3. PICK j \in 1 .. L : /\ Starts(fs[j]) /\ open[j] = open[L]
                          /\ \A k \in j .. L - 1 : fs[k].kind = "else"
  BY <1>1, <1>2 DEF Grouped
<1> DEFINE K == j - 1
           fewer == [i \in 1 .. K |-> open[i]]
<1>4. /\ K \in 0 .. L - 1 /\ K + 1 = j
      /\ fewer \in [1 .. K -> 1 .. (q + 1) - 1]
      /\ \A i \in 1 .. K : fewer[i] = open[i]
  BY <1>2
<1> HIDE DEF K, fewer
<1>5. Starts(fs[K + 1]) /\ open[K + 1] = open[L] /\ \A k \in K + 1 .. L - 1 : fs[k].kind = "else"
  BY <1>3, <1>4
<1>6. Grouped(gs, fewer, K)
  BY <1>1, <1>2, <1>4, <1>5, ThenGrouped
<1>7. /\ \A i \in K + 1 .. L - 1 : fs[i].kind # "for"
      /\ Statement(fs[L]) \in Openers
      /\ Same(fs, open, gs, fewer, K)
  <2>1. \A i \in 1 .. K : i \in 1 .. Len(fs) - 1
    BY <1>2, <1>4
  <2> QED  BY <1>2, <1>4, <1>5, <2>1 DEF Statement, Openers, Same
<1>8. Placed(gs, q + 1, fewer, K)
  <2>1. L \in Nat \ {0} /\ Placed(fs, q, open, L) /\ K \in 0 .. L - 1
    BY <1>1, <1>2, <1>4
  <2> QED  BY <1>5, <1>7, <2>1, EndPlaced, Zenon
<1>9. K \in 0 .. Len(gs) /\ fewer \in [1 .. K -> 1 .. (q + 1) - 1]
  BY <1>2, <1>4
<1> QED  BY <1>6, <1>8, <1>9, NestedBy, Zenon

LEMMA ElseNested ==
    ASSUME NEW q, NEW fs \in Seq(Frames), Nested(fs, q), Len(fs) > 0, fs[Len(fs)].kind = "else",
           NEW gs \in Seq(Frames), Len(gs) = Len(fs) - 1, \A i \in 1 .. Len(gs) : gs[i] = fs[i]
    PROVE  Nested(gs, q)
<1>0. PICK L \in 0 .. Len(fs) : \E open \in [1 .. L -> 1 .. q - 1] :
         Grouped(fs, open, L) /\ Placed(fs, q, open, L)
  BY DEF Nested
<1>1. PICK open \in [1 .. L -> 1 .. q - 1] : Grouped(fs, open, L) /\ Placed(fs, q, open, L)
  BY <1>0
<1>2. L # Len(fs)
  BY <1>1 DEF Grouped
<1>3. L \in 0 .. Len(gs) /\ L <= L /\ \A i \in 1 .. L : gs[i] = fs[i]
  <2>1. L \in 0 .. Len(gs)
    BY <1>2
  <2>2. \A i \in 1 .. L : i \in 1 .. Len(gs)
    BY <2>1
  <2> QED  BY <2>1, <2>2
<1>4. Grouped(gs, open, L)
  BY <1>1, <1>3, PopGrouped
<1>5. Placed(gs, q, open, L)
  <2>1. \A i \in 1 .. L - 1 : i + 1 \in 1 .. L
    OBVIOUS
  <2>2. L > 0 => Depth(open[L], q) = 0
    BY <1>1 DEF Placed
  <2>3. \A i \in 1 .. L : /\ open[i] \in 1 .. q - 1
                          /\ Kind(open[i]) = Statement(gs[i])
                          /\ Around(open[i], q)
    BY <1>1, <1>3, Zenon DEF Placed
  <2>4. \A i, j \in 1 .. L : i < j => open[i] = open[j] \/ Depth(open[i], q) > Depth(open[j], q)
    BY <1>1, Zenon DEF Placed
  <2>5. \A i \in 1 .. L - 1 : Starts(gs[i + 1]) => Depth(open[i], q) = Depth(open[i + 1], q) + 1
    BY <1>1, <1>3, <2>1, Zenon DEF Placed
  <2>6. \A i, j \in 1 .. L : i # j /\ gs[i].kind = "for" => open[i] # open[j]
    BY <1>1, <1>3 DEF Placed
  <2>7. \A f \in Loops(q) : \E i \in 1 .. L : gs[i].kind = "for" /\ open[i] = f
    BY <1>1, <1>3, Zenon DEF Placed
  <2> QED  BY <2>2, <2>3, <2>4, <2>5, <2>6, <2>7, Zenon DEF Placed
<1> QED  BY <1>3, <1>4, <1>5, NestedBy, Zenon

LEMMA EndNested ==
    ASSUME Whole, NEW q \in 1 .. Len(text), NEW fs \in Seq(Frames), Nested(fs, q),
           Kind(q) = "end", Len(fs) > 0, fs[Len(fs)].kind \in {"for", "block"},
           NEW gs \in Seq(Frames), Len(gs) = Len(fs) - 1, \A i \in 1 .. Len(gs) : gs[i] = fs[i]
    PROVE  Nested(gs, q + 1)
<1>0. PICK L \in 0 .. Len(fs) : \E open \in [1 .. L -> 1 .. q - 1] :
         Grouped(fs, open, L) /\ Placed(fs, q, open, L)
  BY DEF Nested
<1>1. PICK open \in [1 .. L -> 1 .. q - 1] : Grouped(fs, open, L) /\ Placed(fs, q, open, L)
  BY <1>0
<1>2. L = Len(fs) /\ L \in Nat \ {0} /\ L \in 1 .. L /\ q \in Nat
  BY <1>1, AllGenerate
<1> DEFINE K == L - 1
           fewer == [i \in 1 .. K |-> open[i]]
<1>3. /\ K \in 0 .. L - 1 /\ K + 1 = L /\ K \in 0 .. Len(gs) /\ K <= L /\ K = L - 1
      /\ fewer \in [1 .. K -> 1 .. (q + 1) - 1]
      /\ \A i \in 1 .. K : fewer[i] = open[i]
      /\ K + 1 .. L - 1 = {} /\ Same(fs, open, gs, fewer, K)
  BY <1>2 DEF Same
<1>4. Starts(fs[L]) /\ Statement(fs[L]) \in Openers
  BY <1>2 DEF Starts, Statement, Openers
<1> HIDE DEF K, fewer
<1>5. Grouped(gs, fewer, K)
  BY <1>1, <1>2, <1>3, <1>4, PopGrouped
<1>6. Placed(gs, q + 1, fewer, K)
  <2>1. L \in Nat \ {0} /\ Placed(fs, q, open, L) /\ K \in 0 .. L - 1
    BY <1>1, <1>2, <1>3
  <2>2. Starts(fs[K + 1]) /\ open[K + 1] = open[L] /\ \A i \in K + 1 .. L - 1 : fs[i].kind # "for"
    BY <1>3, <1>4
  <2> QED  BY <1>3, <1>4, <2>1, <2>2, EndPlaced, Zenon
<1> QED  BY <1>3, <1>5, <1>6, NestedBy, Zenon

\* A step of codegen_stmt: what is nested after it.
LEMMA FollowsNested ==
    ASSUME text' = text, NEW fs, fs = frames', NEW q, q = pos', phase' = "generate", Nested(fs, q)
    PROVE  Follow'
<1>1. PICK L \in 0 .. Len(fs) : \E open \in [1 .. L -> 1 .. q - 1] :
         Grouped(fs, open, L) /\ Placed(fs, q, open, L)
  BY DEF Nested
<1>2. PICK open \in [1 .. L -> 1 .. q - 1] : Grouped(fs, open, L) /\ Placed(fs, q, open, L)
  BY <1>1
<1>3. Placed(fs, q, open, L)'
  BY <1>2, PlacedText
<1>4. Placed(frames, pos, open, L)'
  BY <1>3, Zenon DEF Placed
<1>5. Nested(frames, pos)'
  BY <1>2, <1>4, Zenon DEF Nested
<1> QED  BY <1>5 DEF Follow

\* An error was reported, or generation is over.
LEMMA OtherFollows ==
    ASSUME hasErrors' = TRUE \/ phase' # "generate", phase' \notin {"parse", "analyse"}
    PROVE  Follow'
BY DEF Follow

\* What every action of codegen_stmt starts from.
LEMMA Generating ==
    ASSUME Inv, Follow, phase = "generate", ~hasErrors
    PROVE  /\ Whole /\ frames \in Seq(Frames) /\ Nested(frames, pos)
           /\ text \in Seq(Tokens) /\ Len(text) \in Nat
BY DEF Inv, Parse, Builder, Follow, Whole

LEMMA TokenFollows ==
    ASSUME Inv, Follow, codegen_stmt_expr \/ codegen_stmt_ret \/ codegen_stmt_brk
    PROVE  Follow'
<1>1. /\ phase = "generate" /\ phase' = phase /\ text' = text /\ frames' = frames /\ pos' = pos + 1
      /\ pos \in 1 .. Len(text) /\ (hasErrors => hasErrors' = TRUE)
      /\ Kind(pos) \in {"effect", "silent", "ret", "ret_value", "brk", "cnt"}
  BY DEF Inv, Parse, codegen_stmt_expr, codegen_stmt_ret, codegen_stmt_brk, Reads
<1>2. CASE hasErrors
  <2>1. hasErrors' = TRUE /\ phase' = "generate"
    BY <1>1, <1>2, Zenon
  <2> QED  BY <2>1, OtherFollows
<1>3. CASE ~hasErrors
  <2>1. Whole /\ frames \in Seq(Frames) /\ Nested(frames, pos)
    BY <1>1, <1>3, Generating
  <2>2. Kind(pos) \notin Openers /\ Kind(pos) # "end"
    BY <1>1 DEF Openers
  <2>3. pos \in 1 .. Len(text)
    BY <1>1, Zenon
  <2>4. Nested(frames, pos + 1)
    BY <2>1, <2>2, <2>3, PassNested, Zenon
  <2> QED  BY <1>1, <2>4, FollowsNested
<1> QED  BY <1>2, <1>3

\* A statement that opens a body pushes its frame.
LEMMA PushFollows ==
    ASSUME Inv, Follow, phase = "generate", phase' = phase, text' = text, pos \in 1 .. Len(text),
           Kind(pos) \in Openers, ~Within("else"),
           NEW f \in Frames, f.kind = Kind(pos), Starts(f),
           hasErrors' = TRUE \/ (hasErrors' = hasErrors /\ frames' = Append(frames, f) /\ pos' = pos + 1)
    PROVE  Follow'
<1>1. CASE hasErrors'
  <2>1. hasErrors' = TRUE
    BY <1>1 DEF Inv, Parse
  <2> QED  BY <2>1, OtherFollows
<1>2. CASE ~hasErrors'
  <2>1. ~hasErrors /\ frames' = Append(frames, f) /\ pos' = pos + 1
    BY <1>2
  <2>2. Whole /\ frames \in Seq(Frames) /\ Nested(frames, pos)
    BY <2>1, Generating
  <2>3. frames = <<>> \/ frames[Len(frames)].kind # "else"
    BY DEF Within, Top
  <2>4. Nested(Append(frames, f), pos + 1)
    BY <2>2, <2>3, PushNested
  <2> QED  BY <2>1, <2>4, FollowsNested
<1> QED  BY <1>1, <1>2

LEMMA BlockFollows ==
    ASSUME Inv, Follow, codegen_stmt_block
    PROVE  Follow'
<1>1. /\ phase = "generate" /\ phase' = phase /\ text' = text /\ pos \in 1 .. Len(text)
      /\ Kind(pos) = "block" /\ ~Within("else")
      /\ hasErrors' = hasErrors /\ frames' = Append(frames, BlockFrame) /\ pos' = pos + 1
  BY DEF Inv, Parse, codegen_stmt_block, Reads
<1>2. BlockFrame \in Frames /\ BlockFrame.kind = Kind(pos) /\ Starts(BlockFrame) /\ Kind(pos) \in Openers
  BY <1>1 DEF BlockFrame, Frames, Starts, Openers
<1> QED  BY <1>1, <1>2, PushFollows

\* The frame that BeginIf pushes, unless the condition is an error.
LEMMA BeginIs ==
    ASSUME NEW bs, Len(bs) \in Nat, NEW b, NEW fs, BeginIf(bs, b, fs)
    PROVE  \E f \in Frames :
             /\ f.kind = "if" /\ (Starts(f) <=> Kind(pos) # "or")
             /\ hasErrors' = TRUE \/ (hasErrors' = hasErrors /\ frames' = Append(fs, f) /\ pos' = pos + 1)
<1> DEFINE f == CondFrame(Kind(pos) = "or", Len(bs) + 2, Len(bs) + 3)
<1>1. f \in CondFrames /\ f.kind = "if" /\ f.chained = (Kind(pos) = "or")
  BY DEF CondFrame, CondFrames
<1> HIDE DEF f
<1>3. f \in Frames /\ f.kind = "if" /\ (Starts(f) <=> Kind(pos) # "or")
  BY <1>1, Zenon DEF Frames, Starts
<1>2. hasErrors' = TRUE \/ (hasErrors' = hasErrors /\ frames' = Append(fs, f) /\ pos' = pos + 1)
  BY DEF BeginIf, f
<1> QED  BY <1>2, <1>3

LEMMA IfFollows ==
    ASSUME Inv, Follow, codegen_stmt_if
    PROVE  Follow'
<1>1. /\ phase = "generate" /\ phase' = phase /\ text' = text /\ pos \in 1 .. Len(text)
      /\ Kind(pos) = "if" /\ ~Within("else") /\ BeginIf(blocks, insert, frames)
      /\ Len(blocks) \in Nat
  BY DEF Inv, Parse, Builder, Code, codegen_stmt_if, Reads
<1>2. PICK f \in Frames :
             /\ f.kind = "if" /\ (Starts(f) <=> Kind(pos) # "or")
             /\ hasErrors' = TRUE \/ (hasErrors' = hasErrors /\ frames' = Append(frames, f) /\ pos' = pos + 1)
  BY <1>1, BeginIs, Zenon
<1>3. Kind(pos) \in Openers /\ f.kind = Kind(pos) /\ Starts(f)
  BY <1>1, <1>2 DEF Openers
<1> QED  BY <1>1, <1>2, <1>3, PushFollows

LEMMA ForFollows ==
    ASSUME Inv, Follow, codegen_stmt_for
    PROVE  Follow'
<1> DEFINE f == ForFrame(Len(blocks) + 1, Len(blocks) + 3)
<1>1. /\ phase = "generate" /\ phase' = phase /\ text' = text /\ pos \in 1 .. Len(text)
      /\ Kind(pos) = "for" /\ ~Within("else")
      /\ hasErrors' = TRUE \/ (hasErrors' = hasErrors /\ frames' = Append(frames, f) /\ pos' = pos + 1)
  BY DEF Inv, Parse, codegen_stmt_for, Reads
<1>2. Len(blocks) \in Nat /\ breakTo \in Nat /\ continueTo \in Nat
  BY DEF Inv, Builder, Code, Context0
<1>3. f \in Frames /\ f.kind = Kind(pos) /\ Starts(f) /\ Kind(pos) \in Openers
  BY <1>1, <1>2 DEF ForFrame, Frames, ForFrames, Starts, Openers
<1> HIDE DEF f
<1> QED  BY <1>1, <1>3, PushFollows

\* The frames after a then block.
LEMMA AfterThenIs ==
    ASSUME Inv, Within("if")
    PROVE  /\ frames \in Seq(Frames) /\ AfterThen \in Seq(Frames)
           /\ Len(frames) > 0 /\ Len(AfterThen) = Len(frames)
           /\ \A i \in 1 .. Len(frames) - 1 : AfterThen[i] = frames[i]
           /\ frames[Len(frames)].kind = "if" /\ AfterThen[Len(frames)].kind = "else"
           /\ Starts(AfterThen[Len(frames)]) <=> Starts(frames[Len(frames)])
<1>1. frames \in Seq(Frames) /\ Len(frames) > 0 /\ Top = frames[Len(frames)] /\ Top.kind = "if"
  BY DEF Inv, Builder, Within, Top
<1>2. /\ Popped \in Seq(Frames) /\ Len(Popped) = Len(frames) - 1
      /\ \A i \in 1 .. Len(Popped) : Popped[i] = frames[i]
  BY <1>1, FrontIs DEF Popped
<1>3. Top \in CondFrames
  <2>1. Top \in Frames
    BY <1>1
  <2> QED  BY <1>1, <2>1 DEF Frames, ForFrames, BlockFrame
<1> DEFINE f == ElseFrame(Top, ThenFalls)
<1>4. f \in Frames /\ f.kind = "else" /\ f.chained = Top.chained
  BY <1>3 DEF ElseFrame, CondFrames, ThenFalls, Frames
<1>5. Starts(f) <=> Starts(Top)
  BY <1>1, <1>4 DEF Starts
<1> HIDE DEF f
<1>6. /\ Append(Popped, f) \in Seq(Frames) /\ Len(Append(Popped, f)) = Len(frames)
      /\ Append(Popped, f)[Len(frames)] = f
      /\ \A i \in 1 .. Len(frames) - 1 : Append(Popped, f)[i] = Popped[i]
  BY <1>1, <1>2, <1>4
<1>7. AfterThen = Append(Popped, f)
  BY DEF AfterThen, f
<1> QED  BY <1>1, <1>2, <1>4, <1>5, <1>6, <1>7

LEMMA OrFollows ==
    ASSUME Inv, Follow, codegen_stmt_or
    PROVE  Follow'
<1> DEFINE joined == BranchIfOpen(blocks, insert, Top.merge)
<1>1. /\ phase = "generate" /\ phase' = phase /\ text' = text /\ pos \in 1 .. Len(text)
      /\ Kind(pos) = "or" /\ Within("if") /\ BeginIf(joined, Top.else, AfterThen)
  BY DEF Inv, Parse, codegen_stmt_or, Reads
<1>2. Len(joined) \in Nat
  <2>1. Len(joined) = Len(blocks)
    BY <1>1, AfterThenKeeps
  <2> QED  BY <2>1 DEF Inv, Builder, Code
<1> HIDE DEF joined
<1>3. PICK f \in Frames :
             /\ f.kind = "if" /\ (Starts(f) <=> Kind(pos) # "or")
             /\ hasErrors' = TRUE \/ (hasErrors' = hasErrors /\ frames' = Append(AfterThen, f) /\ pos' = pos + 1)
  BY <1>1, <1>2, BeginIs, Zenon
<1>4. CASE hasErrors'
  <2>1. hasErrors' = TRUE
    BY <1>3, <1>4 DEF Inv, Parse
  <2> QED  BY <1>1, <2>1, OtherFollows
<1>5. CASE ~hasErrors'
  <2>1. ~hasErrors /\ frames' = Append(AfterThen, f) /\ pos' = pos + 1
    BY <1>3, <1>5
  <2>2. Whole /\ frames \in Seq(Frames) /\ Nested(frames, pos)
    BY <1>1, <2>1, Generating
  <2>3. /\ AfterThen \in Seq(Frames)
        /\ Len(frames) > 0 /\ Len(AfterThen) = Len(frames)
        /\ \A i \in 1 .. Len(frames) - 1 : AfterThen[i] = frames[i]
        /\ frames[Len(frames)].kind = "if" /\ AfterThen[Len(frames)].kind = "else"
        /\ Starts(AfterThen[Len(frames)]) <=> Starts(frames[Len(frames)])
    BY <1>1, AfterThenIs
  <2> DEFINE gs == Append(AfterThen, f)
  <2>4. /\ gs \in Seq(Frames) /\ Len(gs) = Len(frames) + 1 /\ gs[Len(frames) + 1] = f
        /\ \A i \in 1 .. Len(frames) : gs[i] = AfterThen[i]
    BY <2>2, <2>3
  <2> HIDE DEF gs
  <2>5. \A i \in 1 .. Len(frames) - 1 : gs[i] = frames[i]
    BY <2>2, <2>3, <2>4
  <2>6. gs[Len(frames)] = AfterThen[Len(frames)]
    BY <2>2, <2>3, <2>4
  <2>7. /\ Kind(pos) = "or" /\ gs[Len(frames)].kind = "else"
        /\ Starts(gs[Len(frames)]) <=> Starts(frames[Len(frames)])
        /\ gs[Len(frames) + 1].kind = "if" /\ ~Starts(gs[Len(frames) + 1])
    BY <1>1, <1>3, <2>3, <2>4, <2>6
  <2>8. Nested(gs, pos + 1)
    BY <1>1, <2>2, <2>3, <2>4, <2>5, <2>7, OrNested, Zenon
  <2> QED  BY <1>1, <2>1, <2>8, FollowsNested DEF gs
<1> QED  BY <1>4, <1>5

LEMMA EndOfThenFollows ==
    ASSUME Inv, Follow, EndOfThen
    PROVE  Follow'
<1>1. /\ phase = "generate" /\ phase' = phase /\ text' = text /\ pos \in 1 .. Len(text)
      /\ Kind(pos) = "end" /\ Within("if") /\ hasErrors' = hasErrors
      /\ frames' = AfterThen /\ pos' = pos + 1
  BY DEF Inv, Parse, EndOfThen, Reads
<1>2. CASE hasErrors
  BY <1>1, <1>2, OtherFollows DEF Inv, Parse
<1>3. CASE ~hasErrors
  <2>1. Whole /\ frames \in Seq(Frames) /\ Nested(frames, pos)
    BY <1>1, <1>3, Generating
  <2>2. /\ AfterThen \in Seq(Frames)
        /\ Len(frames) > 0 /\ Len(AfterThen) = Len(frames)
        /\ \A i \in 1 .. Len(frames) - 1 : AfterThen[i] = frames[i]
        /\ frames[Len(frames)].kind = "if" /\ AfterThen[Len(frames)].kind = "else"
        /\ Starts(AfterThen[Len(frames)]) <=> Starts(frames[Len(frames)])
    BY <1>1, AfterThenIs
  <2>3. Nested(AfterThen, pos + 1)
    BY <1>1, <2>1, <2>2, ThenNested, Zenon
  <2> QED  BY <1>1, <2>3, FollowsNested
<1> QED  BY <1>2, <1>3

\* The frames after a call returns.
LEMMA PoppedIs ==
    ASSUME Inv, frames # <<>>
    PROVE  /\ frames \in Seq(Frames) /\ Len(frames) > 0 /\ Top = frames[Len(frames)]
           /\ Popped \in Seq(Frames) /\ Len(Popped) = Len(frames) - 1
           /\ \A i \in 1 .. Len(Popped) : Popped[i] = frames[i]
<1>1. frames \in Seq(Frames) /\ Len(frames) > 0 /\ Top = frames[Len(frames)]
  BY DEF Inv, Builder, Top
<1> QED  BY <1>1, FrontIs DEF Popped

LEMMA EndOfIfFollows ==
    ASSUME Inv, Follow, EndOfIf
    PROVE  Follow'
<1>1. /\ phase = "generate" /\ phase' = phase /\ text' = text /\ hasErrors' = hasErrors
      /\ frames # <<>> /\ Top.kind = "else" /\ frames' = Popped /\ pos' = pos
  BY DEF EndOfIf, Within
<1>2. CASE hasErrors
  BY <1>1, <1>2, OtherFollows DEF Inv, Parse
<1>3. CASE ~hasErrors
  <2>1. Nested(frames, pos)
    BY <1>1, <1>3, Generating
  <2>2. /\ frames \in Seq(Frames) /\ Len(frames) > 0 /\ frames[Len(frames)].kind = "else"
        /\ Popped \in Seq(Frames) /\ Len(Popped) = Len(frames) - 1
        /\ \A i \in 1 .. Len(Popped) : Popped[i] = frames[i]
    BY <1>1, PoppedIs
  <2>3. Nested(Popped, pos)
    BY <2>1, <2>2, ElseNested, Zenon
  <2> QED  BY <1>1, <2>3, FollowsNested
<1> QED  BY <1>2, <1>3

LEMMA EndOfBodyFollows ==
    ASSUME Inv, Follow, EndOfFor \/ EndOfBlock
    PROVE  Follow'
<1>1. /\ phase = "generate" /\ phase' = phase /\ text' = text /\ pos \in 1 .. Len(text)
      /\ Kind(pos) = "end" /\ hasErrors' = hasErrors
      /\ frames # <<>> /\ Top.kind \in {"for", "block"} /\ frames' = Popped /\ pos' = pos + 1
  BY DEF Inv, Parse, EndOfFor, EndOfBlock, Reads, Within
<1>2. CASE hasErrors
  BY <1>1, <1>2, OtherFollows DEF Inv, Parse
<1>3. CASE ~hasErrors
  <2>1. Whole /\ Nested(frames, pos)
    BY <1>1, <1>3, Generating
  <2>2. /\ frames \in Seq(Frames) /\ Len(frames) > 0 /\ frames[Len(frames)].kind \in {"for", "block"}
        /\ Popped \in Seq(Frames) /\ Len(Popped) = Len(frames) - 1
        /\ \A i \in 1 .. Len(Popped) : Popped[i] = frames[i]
    BY <1>1, PoppedIs
  <2>3. Nested(Popped, pos + 1)
    BY <1>1, <2>1, <2>2, EndNested, Zenon
  <2> QED  BY <1>1, <2>3, FollowsNested
<1> QED  BY <1>2, <1>3

\* The text is whole, and no call is under way.
LEMMA StartFollows ==
    ASSUME Inv, Follow, Write \/ EndOfBody \/ analyze_function_body
    PROVE  Follow'
<1>1. phase \in {"parse", "analyse"} /\ frames' = <<>> /\ pos' = 1
  BY DEF Follow, Write, EndOfBody, analyze_function_body, code
<1>2. CASE phase' # "generate"
  BY <1>1, <1>2 DEF Follow
<1>3. CASE phase' = "generate"
  <2>1. text' = text
    BY <1>1, <1>3 DEF Write, EndOfBody, analyze_function_body
  <2> DEFINE open == [i \in 1 .. 0 |-> 1]
  <2>2. Grouped(<<>>, open, 0)
    BY DEF Grouped
  <2>3. Placed(<<>>, 1, open, 0)
    <3>1. Loops(1) = {}
      BY DEF Loops
    <3> QED  BY <3>1 DEF Placed
  <2>4. 0 \in 0 .. Len(<<>>) /\ open \in [1 .. 0 -> 1 .. 1 - 1]
    OBVIOUS
  <2> HIDE DEF open
  <2>5. Nested(<<>>, 1)
    BY <2>2, <2>3, <2>4, NestedBy, Zenon
  <2> QED  BY <1>1, <1>3, <2>1, <2>5, FollowsNested
<1> QED  BY <1>2, <1>3

LEMMA StepFollows == Inv /\ Follow /\ [Next]_vars => Follow'
<1>1. SUFFICES ASSUME Inv, Follow, [Next]_vars
               PROVE  Follow'
  OBVIOUS
<1>2. CASE UNCHANGED vars
  <2>1. frames' = frames /\ pos' = pos /\ phase' = phase /\ hasErrors' = hasErrors /\ text' = text
    BY <1>2 DEF vars, code
  <2>2. CASE phase = "generate" /\ ~hasErrors
    BY <1>1, <2>1, <2>2, FollowsNested DEF Follow
  <2>3. CASE ~(phase = "generate" /\ ~hasErrors)
    BY <1>1, <2>1, <2>3 DEF Follow
  <2> QED  BY <2>2, <2>3
<1>3. CASE codegen_stmt_fun
  <2>1. phase' \in {"rejected", "run"}
    BY <1>3 DEF codegen_stmt_fun
  <2> QED  BY <2>1, OtherFollows
<1>4. CASE Run
  <2>1. phase' \in {"run", "done"}
    BY <1>4 DEF Run, SourceMoves, CodeMoves, Effect, Test, Return, Meet
  <2> QED  BY <2>1, OtherFollows
<1> QED
  BY <1>1, <1>2, <1>3, <1>4, StartFollows, TokenFollows, BlockFollows, IfFollows, OrFollows,
     EndOfThenFollows, EndOfIfFollows, ForFollows, EndOfBodyFollows DEF Next, Generate, Finished

\* The frames of loops and the loops around a statement are in bijection.
LEMMA SameLoops ==
    ASSUME Whole, NEW q \in 1 .. Len(text), NEW fs \in Seq(Frames), Nested(fs, q)
    PROVE  Cardinality({i \in DOMAIN fs : fs[i].kind = "for"}) = Cardinality(Loops(q))
<1>0. PICK L \in 0 .. Len(fs) : \E open \in [1 .. L -> 1 .. q - 1] :
         Grouped(fs, open, L) /\ Placed(fs, q, open, L)
  BY DEF Nested
<1>1. PICK open \in [1 .. L -> 1 .. q - 1] : Grouped(fs, open, L) /\ Placed(fs, q, open, L)
  BY <1>0
<1> DEFINE fors == {i \in DOMAIN fs : fs[i].kind = "for"}
           loopOf == [i \in fors |-> open[i]]
<1>2. Len(fs) \in Nat /\ DOMAIN fs = 1 .. Len(fs) /\ q \in Nat /\ Len(text) \in Nat
  BY DEF Whole
<1>3. \A i \in fors : i \in 1 .. L
  <2>1. SUFFICES ASSUME NEW i \in fors, i \notin 1 .. L PROVE FALSE
    OBVIOUS
  <2>2. i \in L + 1 .. Len(fs) /\ fs[i].kind = "for"
    BY <1>2, <2>1
  <2> QED  BY <1>1, <2>2 DEF Grouped
<1>4. IsFiniteSet(fors)
  <2>1. IsFiniteSet(1 .. Len(fs))
    BY <1>2, FS_Interval
  <2> QED  BY <1>2, <2>1, FS_Subset
<1>5. ASSUME NEW i \in fors PROVE open[i] \in Loops(q)
  <2>1. i \in 1 .. L /\ fs[i].kind = "for"
    BY <1>3
  <2>2. open[i] \in 1 .. q - 1 /\ Kind(open[i]) = "for" /\ Around(open[i], q)
    BY <1>1, <2>1 DEF Placed, Statement
  <2>3. open[i] \in 1 .. Len(text) /\ open[i] < q
    BY <1>2, <2>2
  <2>4. q <= Closing(open[i])
    BY <1>2, <2>2, <2>3, ClosingFacts DEF Whole, Openers
  <2> QED  BY <2>2, <2>4 DEF Loops
<1>6. \A i, j \in fors : open[i] = open[j] => i = j
  <2>1. SUFFICES ASSUME NEW i \in fors, NEW j \in fors, i # j PROVE open[i] # open[j]
    OBVIOUS
  <2>2. i \in 1 .. L /\ j \in 1 .. L /\ fs[i].kind = "for"
    BY <1>3
  <2> QED  BY <1>1, <2>1, <2>2 DEF Placed
<1>7. \A f \in Loops(q) : \E i \in fors : open[i] = f
  <2>1. SUFFICES ASSUME NEW f \in Loops(q) PROVE \E i \in fors : open[i] = f
    OBVIOUS
  <2>2. PICK i \in 1 .. L : fs[i].kind = "for" /\ open[i] = f
    BY <1>1 DEF Placed
  <2>3. i \in fors
    BY <1>2, <2>2
  <2> QED  BY <2>2, <2>3
<1> HIDE DEF fors
<1>8. loopOf \in [fors -> Loops(q)] /\ \A i \in fors : loopOf[i] = open[i]
  BY <1>5
<1> HIDE DEF loopOf
<1>9. loopOf \in Injection(fors, Loops(q))
  BY <1>6, <1>8 DEF Injection, IsInjective
<1>10. loopOf \in Surjection(fors, Loops(q))
  BY <1>7, <1>8 DEF Surjection
<1>11. Cardinality(Loops(q)) = Cardinality(fors)
  BY <1>4, <1>9, <1>10, FS_Surjection
<1> QED  BY <1>11 DEF fors

\* While no error was reported, the context is that of the innermost loop around
\* the statement that is generated, and there is a frame for each of those loops.
THEOREM LoopContextIsInnermostCorrect == Spec => []LoopContextIsInnermost
<1>1. Init => Follow
  BY DEF Init, Follow
<1>2. Inv /\ Follow => LoopContextIsInnermost
  <2>1. SUFFICES ASSUME Inv, Follow, phase = "generate", pos <= Len(text), ~hasErrors
                 PROVE  LET loops == {i \in DOMAIN frames : frames[i].kind = "for"}
                        IN /\ Cardinality(loops) = Cardinality(Loops(pos))
                           /\ IF loops = {} THEN breakTo = 0 /\ continueTo = 0
                              ELSE \E i \in loops : /\ \A j \in loops : j <= i
                                                    /\ breakTo = frames[i].exit
                                                    /\ continueTo = frames[i].loop
    BY DEF LoopContextIsInnermost
  <2>2. Whole /\ frames \in Seq(Frames) /\ Nested(frames, pos)
    BY <2>1, Generating
  <2>3. pos \in 1 .. Len(text)
    BY <2>1 DEF Inv, Parse
  <2> DEFINE loops == {i \in DOMAIN frames : frames[i].kind = "for"}
  <2>4. Cardinality(loops) = Cardinality(Loops(pos))
    BY <2>2, <2>3, SameLoops
  <2>5. Len(frames) \in Nat /\ DOMAIN frames = 1 .. Len(frames)
    BY <2>2
  <2>6. Context(frames, Len(frames), breakTo, continueTo)
    BY <2>1 DEF Inv, LoopContext
  <2>7. CASE (\A i \in 1 .. Len(frames) : frames[i].kind # "for") /\ breakTo = 0 /\ continueTo = 0
    <3>1. loops = {}
      BY <2>5, <2>7
    <3> QED  BY <2>4, <2>7, <3>1
  <2>8. CASE \E i \in 1 .. Len(frames) : /\ frames[i].kind = "for"
                                         /\ \A j \in i + 1 .. Len(frames) : frames[j].kind # "for"
                                         /\ breakTo = frames[i].exit /\ continueTo = frames[i].loop
    <3>1. PICK i \in 1 .. Len(frames) : /\ frames[i].kind = "for"
                                        /\ \A j \in i + 1 .. Len(frames) : frames[j].kind # "for"
                                        /\ breakTo = frames[i].exit /\ continueTo = frames[i].loop
      BY <2>8
    <3>2. i \in loops /\ \A j \in loops : j <= i
      BY <2>5, <3>1
    <3> QED  BY <2>4, <3>1, <3>2
  <2> QED  BY <2>6, <2>7, <2>8 DEF Context
<1> QED  BY <1>1, <1>2, InvHolds, StepFollows, PTL DEF Spec
--------------------------------------------------------------------------------
(* The verdict. A terminator stands anywhere but at the end of a block exactly   *)
(* when a statement follows one that ends the flow; the blocks that are left are *)
(* each terminated, and a report names a token that has no translation.          *)

\* An error that codegen_stmt reports when it reads p.
Bad(p) == \/ Kind(p) \in {"brk", "cnt"} /\ Loop(p) = 0
          \/ text[p].cond = "composite"

\* What comes before q ends the flow, as far as the block the builder is in tells.
Ended(q) == \E p \in 1 .. q - 1 : EndsFlow(p) /\ \A m \in p + 1 .. q - 1 : Flat(m)

\* A statement before q follows one that ends the flow.
Emits(p) == EndsFlow(p) \/ Kind(p) \in {"effect", "if", "for"}
Dead(q) == \E p \in 1 .. q - 1 : Ended(p) /\ Emits(p)

\* A terminator that is not the last instruction of its block.
Ends(bs, b, i) == bs[b][i].op \in Terminators
Spoiled(bs) == \E b \in 1 .. Len(bs) : \E i \in 1 .. Len(bs[b]) - 1 : Ends(bs, b, i)

\* The builder has left no block without a terminator, but those it comes back to.
Awaited(fs, c) == \E i \in 1 .. Len(fs) : c \in Awaits(fs[i])
Sealed(bs, b, fs) == \A c \in 1 .. Len(bs) : c = b \/ Terminated(bs, c) \/ Awaited(fs, c)

\* The blocks say of the tokens before q what the source says of them.
Told(bs, b, q) ==
    /\ Terminated(bs, b) <=> Ended(q)
    /\ Spoiled(bs) <=> Dead(q)
    /\ \A p \in 1 .. q - 1 : ~Bad(p)

\* What the code decides: it rejects a wrong body, and no other.
Verdict == phase \in {"run", "done", "rejected"} => (phase = "rejected" <=> Wrong)

Judged ==
    /\ phase \in {"generate", "run", "done"} => \A p \in 1 .. Len(text) : RetMatches(p)
    /\ phase = "generate" /\ hasErrors => \E p \in 1 .. Len(text) : Bad(p)
    /\ phase = "generate" /\ ~hasErrors => Sealed(blocks, insert, frames) /\ Told(blocks, insert, pos)
    /\ phase \in {"parse", "analyse"} => blocks = << <<>> >> /\ insert = 1 /\ ~hasErrors
    /\ Verdict

\* What an instruction at the end of a block changes.
LEMMA EmitEnds ==
    ASSUME NEW bs \in Seq(Seq(Instrs)), NEW b \in 1 .. Len(bs), NEW instr \in Instrs
    PROVE  /\ Terminated(Emit(bs, b, instr), b) <=> instr.op \in Terminators
           /\ \A c \in 1 .. Len(bs) : c # b => (Terminated(Emit(bs, b, instr), c) <=> Terminated(bs, c))
           /\ Spoiled(Emit(bs, b, instr)) <=> Spoiled(bs) \/ Terminated(bs, b)
<1> DEFINE out == Emit(bs, b, instr)
<1>1. /\ Len(out) = Len(bs)
      /\ out[b] = Append(bs[b], instr)
      /\ \A c \in 1 .. Len(bs) : c # b => out[c] = bs[c]
  BY EmitIs
<1>2. bs[b] \in Seq(Instrs) /\ Len(bs) \in Nat
  OBVIOUS
<1> HIDE DEF out
<1> DEFINE n == Len(bs[b])
<1>3. /\ n \in Nat /\ out[b] # <<>> /\ Len(out[b]) = n + 1 /\ out[b][n + 1] = instr
      /\ \A i \in 1 .. n : out[b][i] = bs[b][i]
  <2>1. PICK s : s = bs[b]
    OBVIOUS
  <2>2. s \in Seq(Instrs) /\ out[b] = Append(s, instr)
    BY <1>1, <1>2, <2>1
  <2> HIDE DEF n
  <2>3. n = Len(s)
    BY <2>1 DEF n
  <2>4. /\ Len(s) \in Nat /\ Len(Append(s, instr)) = Len(s) + 1 /\ Append(s, instr)[Len(s) + 1] = instr
        /\ \A i \in 1 .. Len(s) : Append(s, instr)[i] = s[i]
    BY <2>2
  <2>5. out[b] # <<>>
    <3>1. Len(out[b]) # 0
      BY <2>2, <2>4
    <3> QED  BY <3>1
  <2> QED  BY <2>1, <2>2, <2>3, <2>4, <2>5
<1>4. Terminated(out, b) <=> instr.op \in Terminators
  BY <1>3 DEF Terminated
<1>5. \A c \in 1 .. Len(bs) : c # b => (Terminated(out, c) <=> Terminated(bs, c))
  BY <1>1 DEF Terminated
<1>6. Terminated(bs, b) <=> n # 0 /\ Ends(bs, b, n)
  BY <1>2 DEF Terminated, Ends
<1>7. \A i \in 1 .. n : Ends(out, b, i) <=> Ends(bs, b, i)
  BY <1>3 DEF Ends
<1>8. \A c \in 1 .. Len(bs) : c # b => \A i : Ends(out, c, i) <=> Ends(bs, c, i)
  BY <1>1 DEF Ends
<1> HIDE DEF n
<1>9. ASSUME Spoiled(out) PROVE Spoiled(bs) \/ Terminated(bs, b)
  <2>1. PICK c \in 1 .. Len(bs) : \E i \in 1 .. Len(out[c]) - 1 : Ends(out, c, i)
    BY <1>1, <1>9 DEF Spoiled
  <2>2. PICK i \in 1 .. Len(out[c]) - 1 : Ends(out, c, i)
    BY <2>1
  <2>3. CASE c # b
    <3>1. Ends(bs, c, i) /\ i \in 1 .. Len(bs[c]) - 1
      BY <1>1, <1>8, <2>2, <2>3
    <3> QED  BY <3>1 DEF Spoiled
  <2>4. CASE c = b
    <3>1. i \in 1 .. n /\ Ends(bs, b, i)
      BY <1>3, <1>7, <2>2, <2>4
    <3>2. CASE i = n
      BY <1>3, <1>6, <3>1, <3>2
    <3>3. CASE i # n
      <4>1. i \in 1 .. Len(bs[b]) - 1
        BY <1>3, <3>1, <3>3 DEF n
      <4> QED  BY <3>1, <4>1 DEF Spoiled
    <3> QED  BY <3>2, <3>3
  <2> QED  BY <2>3, <2>4
<1>10. ASSUME Spoiled(bs) PROVE Spoiled(out)
  <2>1. PICK c \in 1 .. Len(bs) : \E i \in 1 .. Len(bs[c]) - 1 : Ends(bs, c, i)
    BY <1>10 DEF Spoiled
  <2>2. PICK i \in 1 .. Len(bs[c]) - 1 : Ends(bs, c, i)
    BY <2>1
  <2>3. CASE c # b
    <3>1. Ends(out, c, i) /\ i \in 1 .. Len(out[c]) - 1
      BY <1>1, <1>8, <2>2, <2>3
    <3> QED  BY <1>1, <3>1 DEF Spoiled
  <2>4. CASE c = b
    <3>1. i \in 1 .. n /\ Ends(out, b, i) /\ i \in 1 .. Len(out[b]) - 1
      BY <1>3, <1>7, <2>2, <2>4 DEF n
    <3> QED  BY <1>1, <3>1 DEF Spoiled
  <2> QED  BY <2>3, <2>4
<1>11. ASSUME Terminated(bs, b) PROVE Spoiled(out)
  <2>1. n \in 1 .. n /\ n \in 1 .. Len(out[b]) - 1 /\ Ends(bs, b, n)
    BY <1>3, <1>6, <1>11
  <2>2. Ends(out, b, n)
    BY <1>7, <2>1
  <2> QED  BY <1>1, <2>1, <2>2 DEF Spoiled
<1> QED  BY <1>4, <1>5, <1>9, <1>10, <1>11 DEF out

\* Blocks that are appended hold nothing.
LEMMA NewEnds ==
    ASSUME NEW bs \in Seq(Seq(Instrs)), NEW n \in Nat
    PROVE  /\ WithNew(bs, n) \in Seq(Seq(Instrs)) /\ Len(WithNew(bs, n)) = Len(bs) + n
           /\ \A c \in 1 .. Len(bs) : Terminated(WithNew(bs, n), c) <=> Terminated(bs, c)
           /\ \A c \in Len(bs) + 1 .. Len(bs) + n : ~Terminated(WithNew(bs, n), c)
           /\ Spoiled(WithNew(bs, n)) <=> Spoiled(bs)
<1> DEFINE out == WithNew(bs, n)
           new == [i \in 1 .. n |-> <<>>]
<1>1. new \in Seq(Seq(Instrs)) /\ Len(new) = n /\ Len(bs) \in Nat
  OBVIOUS
<1>2. /\ out \in Seq(Seq(Instrs)) /\ Len(out) = Len(bs) + n
      /\ \A c \in 1 .. Len(bs) : out[c] = bs[c]
      /\ \A c \in Len(bs) + 1 .. Len(bs) + n : out[c] = <<>>
  BY <1>1 DEF WithNew
<1> HIDE DEF out, new
<1>3. \A c \in 1 .. Len(bs) : Terminated(out, c) <=> Terminated(bs, c)
  BY <1>2 DEF Terminated
<1>4. \A c \in Len(bs) + 1 .. Len(bs) + n : ~Terminated(out, c)
  BY <1>2 DEF Terminated
<1>5. \A c \in 1 .. Len(bs) : \A i : Ends(out, c, i) <=> Ends(bs, c, i)
  BY <1>2 DEF Ends
<1>6. ASSUME Spoiled(out) PROVE Spoiled(bs)
  <2>1. PICK c \in 1 .. Len(out) : \E i \in 1 .. Len(out[c]) - 1 : Ends(out, c, i)
    BY <1>6 DEF Spoiled
  <2>2. PICK i \in 1 .. Len(out[c]) - 1 : Ends(out, c, i)
    BY <2>1
  <2>3. c \in 1 .. Len(bs)
    <3>1. SUFFICES ASSUME c \notin 1 .. Len(bs) PROVE FALSE
      OBVIOUS
    <3>2. out[c] = <<>>
      BY <1>1, <1>2, <3>1
    <3>3. Len(out[c]) = 0
      BY <3>2
    <3> QED  BY <2>2, <3>3
  <2>4. Ends(bs, c, i) /\ i \in 1 .. Len(bs[c]) - 1
    BY <1>2, <1>5, <2>2, <2>3
  <2> QED  BY <2>3, <2>4 DEF Spoiled
<1>7. ASSUME Spoiled(bs) PROVE Spoiled(out)
  <2>1. PICK c \in 1 .. Len(bs) : \E i \in 1 .. Len(bs[c]) - 1 : Ends(bs, c, i)
    BY <1>7 DEF Spoiled
  <2>2. PICK i \in 1 .. Len(bs[c]) - 1 : Ends(bs, c, i)
    BY <2>1
  <2>3. Ends(out, c, i) /\ i \in 1 .. Len(out[c]) - 1 /\ c \in 1 .. Len(out)
    BY <1>1, <1>2, <1>5, <2>2
  <2> QED  BY <2>3 DEF Spoiled
<1> QED  BY <1>2, <1>3, <1>4, <1>6, <1>7 DEF out

\* A branch that asks for a terminator first seals the block and spoils none.
LEMMA BranchEnds ==
    ASSUME NEW bs \in Seq(Seq(Instrs)), NEW b \in 1 .. Len(bs), NEW target \in Nat
    PROVE  /\ BranchIfOpen(bs, b, target) \in Seq(Seq(Instrs))
           /\ Len(BranchIfOpen(bs, b, target)) = Len(bs)
           /\ Terminated(BranchIfOpen(bs, b, target), b)
           /\ \A c \in 1 .. Len(bs) :
                 c # b => (Terminated(BranchIfOpen(bs, b, target), c) <=> Terminated(bs, c))
           /\ Spoiled(BranchIfOpen(bs, b, target)) <=> Spoiled(bs)
<1>1. Br(0, target) \in Instrs /\ Br(0, target).op \in Terminators
  BY DEF Br, Instr, Instrs, Ops, Terminators
<1>2. CASE Terminated(bs, b)
  BY <1>2 DEF BranchIfOpen
<1>3. CASE ~Terminated(bs, b)
  <2>1. BranchIfOpen(bs, b, target) = Emit(bs, b, Br(0, target))
    BY <1>3 DEF BranchIfOpen
  <2>2. /\ Emit(bs, b, Br(0, target)) \in Seq(Seq(Instrs))
        /\ Len(Emit(bs, b, Br(0, target))) = Len(bs)
    BY <1>1, EmitIs
  <2>3. /\ Terminated(Emit(bs, b, Br(0, target)), b)
        /\ \A c \in 1 .. Len(bs) :
              c # b => (Terminated(Emit(bs, b, Br(0, target)), c) <=> Terminated(bs, c))
        /\ Spoiled(Emit(bs, b, Br(0, target))) <=> Spoiled(bs)
    BY <1>1, <1>3, EmitEnds
  <2> QED  BY <2>1, <2>2, <2>3, Zenon
<1> QED  BY <1>2, <1>3

\* One more token before q.
LEMMA EndedStep ==
    ASSUME NEW q \in Nat \ {0}
    PROVE  /\ Ended(q + 1) <=> EndsFlow(q) \/ (Flat(q) /\ Ended(q))
           /\ Dead(q + 1) <=> Dead(q) \/ (Ended(q) /\ Emits(q))
<1>1. \A p : p \in 1 .. (q + 1) - 1 <=> p \in 1 .. q - 1 \/ p = q
  OBVIOUS
<1>2. \A p \in 1 .. q - 1 : \A m : m \in p + 1 .. (q + 1) - 1 <=> m \in p + 1 .. q - 1 \/ m = q
  OBVIOUS
<1>3. q + 1 .. (q + 1) - 1 = {}
  OBVIOUS
<1>4. ASSUME Ended(q + 1) PROVE EndsFlow(q) \/ (Flat(q) /\ Ended(q))
  <2>1. PICK p \in 1 .. (q + 1) - 1 : EndsFlow(p) /\ \A m \in p + 1 .. (q + 1) - 1 : Flat(m)
    BY <1>4, Zenon DEF Ended
  <2>2. CASE p = q
    BY <2>1, <2>2, Zenon
  <2>3. CASE p \in 1 .. q - 1
    <3>1. Flat(q) /\ \A m \in p + 1 .. q - 1 : Flat(m)
      BY <1>2, <2>1, <2>3, Zenon
    <3> QED  BY <2>1, <2>3, <3>1, Zenon DEF Ended
  <2> QED  BY <1>1, <2>1, <2>2, <2>3, Zenon
<1>5. ASSUME EndsFlow(q) PROVE Ended(q + 1)
  BY <1>1, <1>3, <1>5, Zenon DEF Ended
<1>6. ASSUME Flat(q), Ended(q) PROVE Ended(q + 1)
  <2>1. PICK p \in 1 .. q - 1 : EndsFlow(p) /\ \A m \in p + 1 .. q - 1 : Flat(m)
    BY <1>6, Zenon DEF Ended
  <2>2. \A m \in p + 1 .. (q + 1) - 1 : Flat(m)
    BY <1>2, <1>6, <2>1, Zenon
  <2> QED  BY <1>1, <2>1, <2>2, Zenon DEF Ended
<1>7. Dead(q + 1) <=> Dead(q) \/ (Ended(q) /\ Emits(q))
  BY <1>1, Zenon DEF Dead
<1> QED  BY <1>4, <1>5, <1>6, <1>7, Zenon

\* Dead is DeadCode for the whole text.
LEMMA DeadIs ==
    ASSUME text \in Seq(Tokens), NEW n, n = Len(text)
    PROVE  Dead(n + 1) <=> DeadCode
<1>1. n \in Nat /\ DOMAIN text = 1 .. n /\ (n + 1) - 1 = n
  OBVIOUS
<1>2. ASSUME Dead(n + 1) PROVE DeadCode
  <2>1. PICK p \in 1 .. n : Ended(p) /\ Emits(p)
    BY <1>1, <1>2, Zenon DEF Dead
  <2>2. PICK r \in 1 .. p - 1 : EndsFlow(r) /\ \A m \in r + 1 .. p - 1 : Flat(m)
    BY <2>1, Zenon DEF Ended
  <2>3. r \in 1 .. n /\ r < p
    BY <1>1, <2>1, <2>2
  <2>4. EmitsAfter(r, p)
    BY <2>1, <2>2, <2>3, Zenon DEF EmitsAfter, Emits
  <2> QED  BY <1>1, <2>1, <2>3, <2>4, Zenon DEF DeadCode
<1>3. ASSUME DeadCode PROVE Dead(n + 1)
  <2>1. PICK r, p \in 1 .. n : EmitsAfter(r, p)
    BY <1>1, <1>3, Zenon DEF DeadCode
  <2>2. r < p /\ EndsFlow(r) /\ Emits(p) /\ \A m \in r + 1 .. p - 1 : Flat(m)
    BY <2>1, Zenon DEF EmitsAfter, Emits
  <2>3. r \in 1 .. p - 1
    BY <1>1, <2>1, <2>2
  <2>4. Ended(p)
    BY <2>2, <2>3, Zenon DEF Ended
  <2> QED  BY <1>1, <2>1, <2>2, <2>4, Zenon DEF Dead
<1> QED  BY <1>2, <1>3, Zenon

\* The tokens between p and m that are before k, and the others.
LEMMA CountSplit ==
    ASSUME NEW p \in Nat, NEW k \in Nat, NEW m \in Nat, p <= k, k <= m, NEW kinds
    PROVE  Count(p, m, kinds) = Count(p, k, kinds) + Count(k, m, kinds)
<1> DEFINE In(a, b) == {j \in a + 1 .. b : Kind(j) \in kinds}
<1>1. ASSUME NEW a \in Nat, NEW b \in Nat PROVE IsFiniteSet(In(a, b))
  <2>1. a + 1 \in Int /\ b \in Int
    OBVIOUS
  <2>2. IsFiniteSet(a + 1 .. b)
    BY <2>1, FS_Interval
  <2> QED  BY <2>2, FS_Subset
<1>2. In(p, m) = In(p, k) \cup In(k, m) /\ In(p, k) \cap In(k, m) = {}
  OBVIOUS
<1>3. IsFiniteSet(In(p, k)) /\ IsFiniteSet(In(k, m))
  BY <1>1
<1> HIDE DEF In
<1>4. /\ Cardinality(In(p, k)) \in Nat /\ Cardinality(In(k, m)) \in Nat
      /\ Cardinality(In(p, m)) = Cardinality(In(p, k)) + Cardinality(In(k, m)) - Cardinality({})
  <2>1. /\ Cardinality(In(p, k)) \in Nat /\ Cardinality(In(k, m)) \in Nat
    BY <1>3, FS_CardinalityType
  <2>2. Cardinality(In(p, k) \cup In(k, m))
          = Cardinality(In(p, k)) + Cardinality(In(k, m)) - Cardinality(In(p, k) \cap In(k, m))
    BY <1>3, FS_Union, Zenon
  <2> QED  BY <1>2, <2>1, <2>2, Zenon
<1>5. Cardinality({}) = 0
  BY FS_EmptySet
<1> QED  BY <1>4, <1>5 DEF Count, In

\* A statement that an "end" closes has no statement around it with the same "end".
LEMMA Alone ==
    ASSUME NEW p \in Nat, NEW r \in Nat, NEW q \in Nat, p < r, r < q, Kind(r) \in Openers,
           Around(p, q), Depth(p, q) = 0, Depth(r, q) = 0
    PROVE  FALSE
<1>1. /\ r - 1 \in Nat /\ q - 1 \in Nat /\ p <= r - 1 /\ r - 1 <= r /\ r <= q - 1 /\ r - 1 <= q - 1
      /\ (r - 1) + 1 = r
  OBVIOUS
<1>2. /\ Count(r - 1, (r - 1) + 1, Openers) = 1
      /\ Count(r - 1, (r - 1) + 1, {"end"}) = 0
  <2>1. "end" \notin Openers
    BY DEF Openers
  <2>2. /\ Count(r - 1, (r - 1) + 1, Openers)
             = Count(r - 1, r - 1, Openers) + IF Kind((r - 1) + 1) \in Openers THEN 1 ELSE 0
        /\ Count(r - 1, r - 1, Openers) = 0
    BY <1>1, CountStep
  <2>3. /\ Count(r - 1, (r - 1) + 1, {"end"})
             = Count(r - 1, r - 1, {"end"}) + IF Kind((r - 1) + 1) \in {"end"} THEN 1 ELSE 0
        /\ Count(r - 1, r - 1, {"end"}) = 0
    BY <1>1, CountStep
  <2> QED  BY <1>1, <2>1, <2>2, <2>3
<1>3. /\ Count(p, q - 1, Openers) = Count(p, r - 1, Openers) + Count(r - 1, q - 1, Openers)
      /\ Count(r - 1, q - 1, Openers) = Count(r - 1, r, Openers) + Count(r, q - 1, Openers)
  BY <1>1, CountSplit
<1>4. /\ Count(p, q - 1, {"end"}) = Count(p, r - 1, {"end"}) + Count(r - 1, q - 1, {"end"})
      /\ Count(r - 1, q - 1, {"end"}) = Count(r - 1, r, {"end"}) + Count(r, q - 1, {"end"})
  BY <1>1, CountSplit
<1>5. /\ Count(p, r - 1, Openers) \in Nat /\ Count(r, q - 1, Openers) \in Nat
      /\ Count(p, r - 1, {"end"}) \in Nat /\ Count(r, q - 1, {"end"}) \in Nat
  BY <1>1, CountStep
<1>6. Depth(p, r) >= 0
  <2>1. \A m \in p + 1 .. r - 1 : m \in p + 1 .. q - 1
    BY <1>1
  <2>2. Around(p, r)
    BY <2>1 DEF Around
  <2> QED  BY <2>2, DepthStep
<1>7. /\ Depth(p, r) = Count(p, r - 1, Openers) - Count(p, r - 1, {"end"})
      /\ Depth(r, q) = Count(r, q - 1, Openers) - Count(r, q - 1, {"end"})
      /\ Depth(p, q) = Count(p, q - 1, Openers) - Count(p, q - 1, {"end"})
  BY DEF Depth
<1> QED  BY <1>1, <1>2, <1>3, <1>4, <1>5, <1>6, <1>7

\* The "end" that codegen_stmt reads closes what the innermost frame is open for.
LEMMA OpenerIs ==
    ASSUME Whole, NEW q \in 1 .. Len(text), Kind(q) = "end",
           NEW p \in 1 .. q - 1, Kind(p) \in Openers, Around(p, q), Depth(p, q) = 0
    PROVE  Opener(q) = p
<1>1. text \in Seq(Tokens) /\ Unclosed = {} /\ Len(text) \in Nat /\ q \in Nat
  BY DEF Whole
<1>2. p \in 1 .. Len(text) /\ p \in Nat /\ p < q
  BY <1>1
<1>3. Closing(p) = q
  BY <1>1, <1>2, ClosingFacts
<1>4. ASSUME NEW r \in 1 .. q - 1, Kind(r) \in Openers
      PROVE  Closing(r) \in Parts(r) /\ Kind(Closing(r)) = "end"
  <2>1. r \in DOMAIN text
    BY <1>1
  <2>2. \E c \in Parts(r) : Kind(c) = "end"
    BY <1>1, <1>4, <2>1 DEF Unclosed, Open
  <2> QED  BY <2>2, Zenon DEF Closing
<1>5. Parts(p) # {}
  BY <1>4
<1>6. ASSUME NEW r \in 1 .. q - 1, Kind(r) \in Openers, Closing(r) = q
      PROVE  r = p
  <2>1. r \in 1 .. Len(text) /\ r \in Nat /\ r < q
    BY <1>1
  <2>2. q \in Parts(r)
    BY <1>4, <1>6
  <2>3. Depth(r, q) = 0 /\ Around(r, q)
    BY <1>1, <2>1, <2>2, ClosesOnce
  <2>4. CASE p < r
    BY <1>1, <1>2, <1>6, <2>1, <2>3, <2>4, Alone
  <2>5. CASE r < p
    BY <1>1, <1>2, <1>6, <2>1, <2>3, <2>5, Alone
  <2> QED  BY <1>2, <2>1, <2>4, <2>5
<1>7. Kind(p) \in Openers /\ Parts(p) # {} /\ Closing(p) = q
  BY <1>3, <1>5
<1> QED  BY <1>6, <1>7, Zenon DEF Opener

LEMMA TopOpener ==
    ASSUME Whole, NEW q \in 1 .. Len(text), NEW fs \in Seq(Frames), Nested(fs, q), Kind(q) = "end",
           fs # <<>>, fs[Len(fs)].kind \in Openers
    PROVE  Kind(Opener(q)) = fs[Len(fs)].kind
<1>0. PICK L \in 0 .. Len(fs) : \E open \in [1 .. L -> 1 .. q - 1] :
         Grouped(fs, open, L) /\ Placed(fs, q, open, L)
  BY DEF Nested
<1>1. PICK open \in [1 .. L -> 1 .. q - 1] : Grouped(fs, open, L) /\ Placed(fs, q, open, L)
  BY <1>0
<1>2. Len(fs) \in Nat /\ Len(fs) > 0
  OBVIOUS
<1>3. L = Len(fs)
  <2>1. SUFFICES ASSUME L # Len(fs) PROVE FALSE
    OBVIOUS
  <2>2. Len(fs) \in L + 1 .. Len(fs)
    BY <1>2, <2>1
  <2>3. fs[Len(fs)].kind = "else"
    BY <1>1, <2>2 DEF Grouped
  <2> QED  BY <2>3 DEF Openers
<1>4. L > 0 /\ L \in 1 .. L
  BY <1>2, <1>3
<1>5. /\ Depth(open[L], q) = 0 /\ open[L] \in 1 .. q - 1
      /\ Kind(open[L]) = Statement(fs[L]) /\ Around(open[L], q)
  BY <1>1, <1>4 DEF Placed
<1>6. Statement(fs[L]) = fs[L].kind
  BY <1>3 DEF Statement, Openers
<1>7. Opener(q) = open[L]
  BY <1>3, <1>5, <1>6, OpenerIs
<1> QED  BY <1>3, <1>5, <1>6, <1>7

\* A loop around a statement is the innermost unless there is another inside it.
LEMMA InnermostLoop ==
    ASSUME NEW q \in Nat, NEW T \in SUBSET (1 .. q), T # {}
    PROVE  \E n \in T : \A m \in T : m <= n
<1> DEFINE From(n) == n .. q
           B == {From(n) : n \in T}
           R == StrictSubsetOrdering(Nat)
           F == FiniteSubsetsOf(Nat)
<1>1. ASSUME NEW n \in T PROVE From(n) \in F
  <2>1. IsFiniteSet(n .. q) /\ n .. q \in SUBSET Nat
    BY FS_Interval
  <2> QED  BY <2>1 DEF FiniteSubsetsOf
<1>2. IsWellFoundedOn(R, F)
  BY FS_StrictSubsetOrderingWellFounded
<1>3. B \subseteq F /\ B # {}
  BY <1>1
<1>4. \E x \in B : \A y \in B : ~ (<<y, x>> \in R)
  <2> HIDE DEF B, R, F
  <2> QED  BY <1>2, <1>3, WFMin
<1>5. PICK n \in T : \A m \in T : ~ (<<From(m), From(n)>> \in R)
  BY <1>4
<1>6. ASSUME NEW m \in T PROVE m <= n
  <2> SUFFICES ASSUME n < m PROVE FALSE
    OBVIOUS
  <2>1. From(m) \in SUBSET Nat /\ From(n) \in SUBSET Nat
    OBVIOUS
  <2>2. From(m) \subseteq From(n) /\ n \in From(n) /\ n \notin From(m)
    OBVIOUS
  <2>3. <<From(m), From(n)>> \in R
    BY <2>1, <2>2 DEF StrictSubsetOrdering
  <2> QED  BY <1>5, <2>3
<1> QED  BY <1>6

LEMMA LoopIs ==
    ASSUME NEW p \in Nat
    PROVE  Loop(p) = 0 <=> Loops(p) = {}
<1>1. Loops(p) \in SUBSET (1 .. p)
  BY DEF Loops
<1>2. CASE Loops(p) = {}
  BY <1>2 DEF Loop
<1>3. CASE Loops(p) # {}
  <2>1. \E f \in Loops(p) : \A g \in Loops(p) : g <= f
    BY <1>1, <1>3, InnermostLoop
  <2>2. (CHOOSE f \in Loops(p) : \A g \in Loops(p) : g <= f) \in Loops(p)
    BY <2>1, Zenon
  <2>3. Loop(p) \in Loops(p)
    BY <1>3, <2>2, Zenon DEF Loop
  <2> QED  BY <1>1, <1>3, <2>3
<1> QED  BY <1>2, <1>3

\* The context is empty outside any loop, and there only.
LEMMA NoContext ==
    ASSUME Inv, Follow, phase = "generate", pos \in 1 .. Len(text), ~hasErrors
    PROVE  /\ breakTo = 0 <=> Loop(pos) = 0
           /\ continueTo = 0 <=> Loop(pos) = 0
<1> DEFINE fors == {i \in DOMAIN frames : frames[i].kind = "for"}
<1>1. Whole /\ frames \in Seq(Frames) /\ Nested(frames, pos)
  BY Generating
<1>2. Cardinality(fors) = Cardinality(Loops(pos))
  BY <1>1, SameLoops
<1>3. IsFiniteSet(fors) /\ IsFiniteSet(Loops(pos))
  <2>1. /\ IsFiniteSet(1 .. Len(frames)) /\ DOMAIN frames = 1 .. Len(frames)
        /\ IsFiniteSet(1 .. pos - 1)
    BY <1>1, FS_Interval
  <2>2. Loops(pos) \subseteq 1 .. pos - 1
    BY DEF Loops
  <2> QED  BY <2>1, <2>2, FS_Subset
<1>4. fors = {} <=> Loops(pos) = {}
  <2> HIDE DEF fors
  <2> QED  BY <1>2, <1>3, FS_EmptySet
<1>5. fors = {} <=> Loop(pos) = 0
  BY <1>4, LoopIs
<1>6. Context(frames, Len(frames), breakTo, continueTo)
  BY DEF Inv, LoopContext
<1>7. CASE (\A i \in 1 .. Len(frames) : frames[i].kind # "for") /\ breakTo = 0 /\ continueTo = 0
  BY <1>1, <1>5, <1>7
<1>8. CASE \E i \in 1 .. Len(frames) : /\ frames[i].kind = "for"
                                       /\ \A j \in i + 1 .. Len(frames) : frames[j].kind # "for"
                                       /\ breakTo = frames[i].exit /\ continueTo = frames[i].loop
  <2>1. PICK i \in 1 .. Len(frames) : /\ frames[i].kind = "for"
                                      /\ breakTo = frames[i].exit /\ continueTo = frames[i].loop
    BY <1>8
  <2>2. frames[i].exit \in Awaits(frames[i])
    BY <2>1 DEF Awaits
  <2>3. frames[i].exit \in 1 .. Len(blocks) /\ frames[i].loop \in 1 .. Len(blocks)
    BY <2>1, <2>2 DEF Inv, Builder, Known
  <2>4. fors # {}
    BY <1>1, <2>1
  <2> QED  BY <1>5, <2>1, <2>3, <2>4
<1> QED  BY <1>6, <1>7, <1>8 DEF Context

\* What is said of the tokens is a matter of the text.
LEMMA SameVerdict ==
    ASSUME text' = text
    PROVE  /\ \A q : (Ended(q)' <=> Ended(q)) /\ (Dead(q)' <=> Dead(q))
           /\ \A p : Bad(p)' <=> Bad(p)
           /\ DeadCode' <=> DeadCode
<1>1. \A p : Kind(p)' = Kind(p)
  BY DEF Kind
<1>2. ASSUME NEW p, NEW m, NEW kinds
      PROVE  Count(p, m, kinds)' = Count(p, m, kinds)
  <2>1. {k \in p + 1 .. m : Kind(k) \in kinds}' = {k \in p + 1 .. m : Kind(k) \in kinds}
    BY <1>1
  <2> QED  BY <2>1 DEF Count
<1>3. \A p, m : Balanced(p, m)' <=> Balanced(p, m)
  BY <1>2 DEF Balanced
<1>4. \A p : Parts(p)' = Parts(p)
  BY <1>1, <1>3 DEF Parts
<1>5. \A p : Closing(p)' = Closing(p)
  BY <1>1, <1>4 DEF Closing
<1>6. \A p : Loops(p)' = Loops(p)
  BY <1>1, <1>5 DEF Loops
<1>7. ASSUME NEW p PROVE Loop(p)' = Loop(p)
  <2>1. Loops(p)' = Loops(p)
    BY <1>6
  <2>2. Loop(p)' = IF Loops(p)' = {} THEN 0
                   ELSE CHOOSE f \in Loops(p)' : \A g \in Loops(p)' : g <= f
    BY DEF Loop
  <2>3. Loop(p) = IF Loops(p) = {} THEN 0
                  ELSE CHOOSE f \in Loops(p) : \A g \in Loops(p) : g <= f
    BY DEF Loop
  <2> HIDE DEF Loops
  <2> QED  BY <2>1, <2>2, <2>3, Zenon
<1>8. \A q : Opener(q)' = Opener(q)
  BY <1>1, <1>4, <1>5 DEF Opener
<1>9. \A p : (Flat(p)' <=> Flat(p)) /\ (EndsFlow(p)' <=> EndsFlow(p)) /\ (Emits(p)' <=> Emits(p))
  BY <1>1, <1>8 DEF Flat, EndsFlow, Emits
<1>10. \A q : Ended(q)' <=> Ended(q)
  BY <1>9 DEF Ended
<1>11. \A q : Dead(q)' <=> Dead(q)
  BY <1>9, <1>10 DEF Dead
<1>12. \A p : Bad(p)' <=> Bad(p)
  BY <1>1, <1>7 DEF Bad
<1>13. \A q, p : EmitsAfter(q, p)' <=> EmitsAfter(q, p)
  BY <1>1, <1>9 DEF EmitsAfter
<1>14. DeadCode' <=> DeadCode
  BY <1>13 DEF DeadCode
<1> QED  BY <1>10, <1>11, <1>12, <1>14

\* A token, by what it does to the block the builder is in: it adds to it, leaves
\* it alone, or moves the builder to a block that has nothing.
LEMMA TellsEmits ==
    ASSUME NEW bs, NEW b, NEW q \in Nat \ {0}, Told(bs, b, q), NEW cs, NEW c,
           ~Bad(q), Emits(q), ~Flat(q),
           Terminated(cs, c) <=> EndsFlow(q), Spoiled(cs) <=> Spoiled(bs) \/ Terminated(bs, b)
    PROVE  Told(cs, c, q + 1)
<1>1. \A p : p \in 1 .. (q + 1) - 1 <=> p \in 1 .. q - 1 \/ p = q
  OBVIOUS
<1>2. /\ Ended(q + 1) <=> EndsFlow(q) \/ (Flat(q) /\ Ended(q))
      /\ Dead(q + 1) <=> Dead(q) \/ (Ended(q) /\ Emits(q))
  BY EndedStep
<1> QED  BY <1>1, <1>2, Zenon DEF Told

LEMMA TellsFlat ==
    ASSUME NEW bs, NEW b, NEW q \in Nat \ {0}, Told(bs, b, q), NEW cs, NEW c,
           ~Bad(q), ~Emits(q), Flat(q),
           Terminated(cs, c) <=> Terminated(bs, b), Spoiled(cs) <=> Spoiled(bs)
    PROVE  Told(cs, c, q + 1)
<1>1. \A p : p \in 1 .. (q + 1) - 1 <=> p \in 1 .. q - 1 \/ p = q
  OBVIOUS
<1>2. /\ Ended(q + 1) <=> EndsFlow(q) \/ (Flat(q) /\ Ended(q))
      /\ Dead(q + 1) <=> Dead(q) \/ (Ended(q) /\ Emits(q))
  BY EndedStep
<1>3. ~EndsFlow(q)
  BY DEF Emits
<1> QED  BY <1>1, <1>2, <1>3, Zenon DEF Told

LEMMA TellsMoves ==
    ASSUME NEW bs, NEW b, NEW q \in Nat \ {0}, Told(bs, b, q), NEW cs, NEW c,
           ~Bad(q), ~Emits(q), ~Flat(q),
           ~Terminated(cs, c), Spoiled(cs) <=> Spoiled(bs)
    PROVE  Told(cs, c, q + 1)
<1>1. \A p : p \in 1 .. (q + 1) - 1 <=> p \in 1 .. q - 1 \/ p = q
  OBVIOUS
<1>2. /\ Ended(q + 1) <=> EndsFlow(q) \/ (Flat(q) /\ Ended(q))
      /\ Dead(q + 1) <=> Dead(q) \/ (Ended(q) /\ Emits(q))
  BY EndedStep
<1>3. ~EndsFlow(q)
  BY DEF Emits
<1> QED  BY <1>1, <1>2, <1>3, Zenon DEF Told

\* A call that begins awaits what it awaits as well.
LEMMA AwaitedPush ==
    ASSUME NEW fs \in Seq(Frames), NEW f \in Frames, NEW c
    PROVE  Awaited(Append(fs, f), c) <=> Awaited(fs, c) \/ c \in Awaits(f)
<1> DEFINE out == Append(fs, f)
<1>1. /\ Len(out) = Len(fs) + 1 /\ out[Len(fs) + 1] = f /\ Len(fs) \in Nat
      /\ \A i \in 1 .. Len(fs) : out[i] = fs[i]
  OBVIOUS
<1> HIDE DEF out
<1>2. \A i : i \in 1 .. Len(out) <=> i \in 1 .. Len(fs) \/ i = Len(fs) + 1
  BY <1>1
<1>3. Awaited(out, c) <=> Awaited(fs, c) \/ c \in Awaits(f)
  BY <1>1, <1>2, Zenon DEF Awaited
<1> QED  BY <1>3 DEF out

\* The blocks that codegen_stmt_if and codegen_stmt_for append.
LEMMA OneOfThree ==
    ASSUME NEW n \in Nat, NEW c \in 1 .. n + 3, c \notin 1 .. n
    PROVE  c \in {n + 1, n + 2, n + 3}
OBVIOUS

\* The places of three new blocks, and of one that was there before.
LEMMA PlacesOfThree ==
    ASSUME NEW n \in Nat, NEW b \in 1 .. n, NEW m, m = n + 3
    PROVE  /\ b \in 1 .. m /\ b # n + 1 /\ b # n + 2
           /\ n + 1 \in 1 .. m /\ n + 2 \in 1 .. m /\ n + 2 # n + 1
           /\ n + 1 \in n + 1 .. n + 3 /\ n + 2 \in n + 1 .. n + 3
OBVIOUS

\* The blocks after the start of an if: the builder is in the then block.
LEMMA OpensIf ==
    ASSUME NEW bs \in Seq(Seq(Instrs)), NEW b \in 1 .. Len(bs), NEW fs, Sealed(bs, b, fs),
           NEW op \in Instrs, op.op \in Terminators,
           NEW gs, \A c : Awaited(fs, c) => Awaited(gs, c), Awaited(gs, Len(bs) + 2), Awaited(gs, Len(bs) + 3),
           NEW out, out = Emit(WithNew(bs, 3), b, op)
    PROVE  /\ Sealed(out, Len(bs) + 1, gs)
           /\ ~Terminated(out, Len(bs) + 1)
           /\ Spoiled(out) <=> Spoiled(bs) \/ Terminated(bs, b)
<1>0. PICK n : n = Len(bs)
  OBVIOUS
<1>15. n = Len(bs) /\ b \in 1 .. n /\ Awaited(gs, n + 3) /\ Awaited(gs, n + 2)
  BY <1>0
<1>1. PICK new : new = WithNew(bs, 3)
  OBVIOUS
<1>2. /\ new \in Seq(Seq(Instrs)) /\ Len(new) = n + 3 /\ n \in Nat
      /\ \A c \in 1 .. n : Terminated(new, c) <=> Terminated(bs, c)
      /\ \A c \in n + 1 .. n + 3 : ~Terminated(new, c)
      /\ Spoiled(new) <=> Spoiled(bs)
  <2>1. /\ WithNew(bs, 3) \in Seq(Seq(Instrs)) /\ Len(WithNew(bs, 3)) = Len(bs) + 3
        /\ \A c \in 1 .. Len(bs) : Terminated(WithNew(bs, 3), c) <=> Terminated(bs, c)
        /\ \A c \in Len(bs) + 1 .. Len(bs) + 3 : ~Terminated(WithNew(bs, 3), c)
        /\ Spoiled(WithNew(bs, 3)) <=> Spoiled(bs)
    <3>1. 3 \in Nat
      OBVIOUS
    <3> QED  BY <3>1, NewEnds, Zenon
  <2>2. Len(bs) \in Nat
    OBVIOUS
  <2> QED  BY <1>1, <1>15, <2>1, <2>2, Zenon
<1>14. new \in Seq(Seq(Instrs)) /\ Len(new) = n + 3 /\ n \in Nat
  BY <1>2
<1>3. /\ b \in 1 .. Len(new) /\ b # n + 1 /\ n + 1 \in 1 .. Len(new)
      /\ n + 1 \in n + 1 .. n + 3
  BY <1>14, <1>15, PlacesOfThree, Zenon
<1>4. Len(out) = Len(new)
  BY <1>1, <1>14, <1>3, EmitIs
<1>5. /\ Terminated(out, b)
      /\ \A c \in 1 .. Len(new) : c # b => (Terminated(out, c) <=> Terminated(new, c))
      /\ Spoiled(out) <=> Spoiled(new) \/ Terminated(new, b)
  BY <1>1, <1>14, <1>3, EmitEnds
<1>6. ASSUME NEW c \in 1 .. Len(out), c # n + 1, ~Terminated(out, c)
      PROVE  Awaited(gs, c)
  <2>1. c # b
    BY <1>5, <1>6
  <2>2. CASE c \in 1 .. n
    <3>1. ~Terminated(bs, c)
      BY <1>2, <1>4, <1>5, <1>6, <2>1, <2>2
    <3>2. Awaited(fs, c)
      BY <1>15, <2>1, <2>2, <3>1, Zenon DEF Sealed
    <3> QED  BY <3>2, Zenon
  <2>3. CASE c \notin 1 .. n
    <3>1. c \in {n + 2, n + 3}
      <4>1. Len(out) = n + 3
        BY <1>14, <1>4, Zenon
      <4>2. c \in 1 .. n + 3
        BY <4>1, Zenon
      <4>3. c \in {n + 1, n + 2, n + 3}
        BY <1>14, <2>3, <4>2, OneOfThree, Zenon
      <4> QED  BY <1>6, <4>3, Zenon
    <3> QED  BY <1>15, <3>1, Zenon
  <2> QED  BY <2>2, <2>3
<1>7. Sealed(out, n + 1, gs)
  BY <1>6 DEF Sealed
<1>8. ~Terminated(out, n + 1)
  BY <1>2, <1>3, <1>5
<1> QED  BY <1>15, <1>2, <1>5, <1>7, <1>8, Zenon

\* The blocks after the start of a for: the builder is in the body.
LEMMA OpensFor ==
    ASSUME NEW bs \in Seq(Seq(Instrs)), NEW b \in 1 .. Len(bs), NEW fs, Sealed(bs, b, fs),
           NEW op \in Instrs, op.op \in Terminators,
           NEW gs, \A c : Awaited(fs, c) => Awaited(gs, c), Awaited(gs, Len(bs) + 3),
           NEW out, out = Emit(Emit(WithNew(bs, 3), b, Br(0, Len(bs) + 1)), Len(bs) + 1, op)
    PROVE  /\ Sealed(out, Len(bs) + 2, gs)
           /\ ~Terminated(out, Len(bs) + 2)
           /\ Spoiled(out) <=> Spoiled(bs) \/ Terminated(bs, b)
<1>0. PICK n : n = Len(bs)
  OBVIOUS
<1>15. n = Len(bs) /\ b \in 1 .. n /\ Awaited(gs, n + 3)
  BY <1>0
<1>16. out = Emit(Emit(WithNew(bs, 3), b, Br(0, n + 1)), n + 1, op)
  BY <1>0
<1>1. PICK new, br, entered : /\ new = WithNew(bs, 3) /\ br = Br(0, n + 1)
                              /\ entered = Emit(new, b, br)
  OBVIOUS
<1>2. /\ new \in Seq(Seq(Instrs)) /\ Len(new) = n + 3 /\ n \in Nat
      /\ \A c \in 1 .. n : Terminated(new, c) <=> Terminated(bs, c)
      /\ \A c \in n + 1 .. n + 3 : ~Terminated(new, c)
      /\ Spoiled(new) <=> Spoiled(bs)
  <2>1. /\ WithNew(bs, 3) \in Seq(Seq(Instrs)) /\ Len(WithNew(bs, 3)) = Len(bs) + 3
        /\ \A c \in 1 .. Len(bs) : Terminated(WithNew(bs, 3), c) <=> Terminated(bs, c)
        /\ \A c \in Len(bs) + 1 .. Len(bs) + 3 : ~Terminated(WithNew(bs, 3), c)
        /\ Spoiled(WithNew(bs, 3)) <=> Spoiled(bs)
    <3>1. 3 \in Nat
      OBVIOUS
    <3> QED  BY <3>1, NewEnds, Zenon
  <2>2. Len(bs) \in Nat
    OBVIOUS
  <2> QED  BY <1>1, <1>15, <2>1, <2>2, Zenon
<1>14. new \in Seq(Seq(Instrs)) /\ Len(new) = n + 3 /\ n \in Nat
  BY <1>2
<1>3. /\ b \in 1 .. Len(new) /\ b # n + 1 /\ b # n + 2
      /\ n + 1 \in 1 .. Len(new) /\ n + 2 \in 1 .. Len(new) /\ n + 2 # n + 1
      /\ n + 1 \in n + 1 .. n + 3 /\ n + 2 \in n + 1 .. n + 3
  BY <1>14, <1>15, PlacesOfThree, Zenon
<1>4. br \in Instrs /\ br.op \in Terminators
  BY <1>1, <1>14 DEF Br, Instr, Instrs, Ops, Terminators
<1>5. entered \in Seq(Seq(Instrs)) /\ Len(entered) = Len(new)
  BY <1>1, <1>14, <1>3, <1>4, EmitIs
<1>6. /\ Terminated(entered, b)
      /\ \A c \in 1 .. Len(new) : c # b => (Terminated(entered, c) <=> Terminated(new, c))
      /\ Spoiled(entered) <=> Spoiled(new) \/ Terminated(new, b)
  <2>1. /\ Terminated(Emit(new, b, br), b) <=> br.op \in Terminators
        /\ \A c \in 1 .. Len(new) :
              c # b => (Terminated(Emit(new, b, br), c) <=> Terminated(new, c))
        /\ Spoiled(Emit(new, b, br)) <=> Spoiled(new) \/ Terminated(new, b)
    BY <1>14, <1>3, <1>4, EmitEnds, Zenon
  <2> QED  BY <1>1, <1>4, <2>1, Zenon
<1>7. n + 1 \in 1 .. Len(entered) /\ out = Emit(entered, n + 1, op)
  BY <1>1, <1>3, <1>5, <1>16, Zenon
<1>8. Len(out) = Len(new)
  BY <1>5, <1>7, EmitIs
<1>9. /\ Terminated(out, n + 1)
      /\ \A c \in 1 .. Len(entered) : c # n + 1 => (Terminated(out, c) <=> Terminated(entered, c))
      /\ Spoiled(out) <=> Spoiled(entered) \/ Terminated(entered, n + 1)
  <2>1. PICK k : k = n + 1
    OBVIOUS
  <2>2. /\ Terminated(Emit(entered, k, op), k) <=> op.op \in Terminators
        /\ \A c \in 1 .. Len(entered) :
              c # k => (Terminated(Emit(entered, k, op), c) <=> Terminated(entered, c))
        /\ Spoiled(Emit(entered, k, op)) <=> Spoiled(entered) \/ Terminated(entered, k)
    BY <1>5, <1>7, <2>1, EmitEnds, Zenon
  <2> QED  BY <1>7, <2>1, <2>2, Zenon
<1>10. ~Terminated(entered, n + 1) /\ ~Terminated(entered, n + 2)
  BY <1>2, <1>3, <1>6
<1>11. ASSUME NEW c \in 1 .. Len(out), c # n + 2, ~Terminated(out, c)
       PROVE  Awaited(gs, c)
  <2>1. c # b /\ c # n + 1
    BY <1>3, <1>5, <1>6, <1>9, <1>11
  <2>2. CASE c \in 1 .. n
    <3>1. ~Terminated(bs, c)
      BY <1>2, <1>5, <1>6, <1>8, <1>9, <1>11, <2>1, <2>2
    <3>2. Awaited(fs, c)
      BY <1>15, <2>1, <2>2, <3>1, Zenon DEF Sealed
    <3> QED  BY <3>2, Zenon
  <2>3. CASE c \notin 1 .. n
    <3>1. c = n + 3
      <4>1. Len(out) = n + 3
        BY <1>14, <1>8, Zenon
      <4>2. c \in 1 .. n + 3
        BY <4>1, Zenon
      <4>3. c \in {n + 1, n + 2, n + 3}
        BY <1>14, <2>3, <4>2, OneOfThree, Zenon
      <4> QED  BY <1>11, <2>1, <4>3, Zenon
    <3> QED  BY <1>15, <3>1, Zenon
  <2> QED  BY <2>2, <2>3
<1>12. Sealed(out, n + 2, gs)
  BY <1>11 DEF Sealed
<1>13. ~Terminated(out, n + 2)
  BY <1>3, <1>5, <1>9, <1>10
<1> QED  BY <1>15, <1>2, <1>6, <1>9, <1>10, <1>12, <1>13, Zenon

\* The builder leaves block b by a branch, for a block that was awaited.
LEMMA Leaves ==
    ASSUME NEW bs \in Seq(Seq(Instrs)), NEW b \in 1 .. Len(bs), NEW fs, Sealed(bs, b, fs),
           NEW target \in Nat, NEW d \in 1 .. Len(bs), d # b, bs[d] = <<>>, NEW gs,
           \A c \in 1 .. Len(bs) : Awaited(fs, c) => c = d \/ Awaited(gs, c)
    PROVE  /\ Sealed(BranchIfOpen(bs, b, target), d, gs)
           /\ ~Terminated(BranchIfOpen(bs, b, target), d)
           /\ Spoiled(BranchIfOpen(bs, b, target)) <=> Spoiled(bs)
<1>0. PICK out : out = BranchIfOpen(bs, b, target)
  OBVIOUS
<1>1. /\ Len(out) = Len(bs) /\ Terminated(out, b)
      /\ \A c \in 1 .. Len(bs) : c # b => (Terminated(out, c) <=> Terminated(bs, c))
      /\ Spoiled(out) <=> Spoiled(bs)
  BY <1>0, BranchEnds
<1>2. ~Terminated(bs, d)
  BY DEF Terminated
<1>3. Sealed(out, d, gs)
  BY <1>1, Zenon DEF Sealed
<1>4. ~Terminated(out, d)
  BY <1>1, <1>2
<1> QED  BY <1>0, <1>1, <1>3, <1>4

\* What kind of token is in error, and what its kind says of the flow.
LEMMA KindFacts ==
    ASSUME text \in Seq(Tokens), NEW p \in 1 .. Len(text)
    PROVE  /\ Kind(p) \in {"effect", "silent", "ret", "ret_value", "block", "end"} => ~Bad(p)
           /\ Kind(p) \in {"brk", "cnt"} => (Bad(p) <=> Loop(p) = 0)
           /\ Kind(p) \in {"if", "or", "for"} => (Bad(p) <=> text[p].cond = "composite")
<1>1. text[p] \in Tokens
  OBVIOUS
<1>2. Kind(p) \in Simple => text[p].cond # "composite"
  BY <1>1 DEF Tokens, Kind, Simple
<1> QED  BY <1>2 DEF Bad, Simple

LEMMA FlowFacts ==
    ASSUME NEW p
    PROVE  /\ Kind(p) \in {"ret", "ret_value", "brk", "cnt"} => EndsFlow(p) /\ Emits(p) /\ ~Flat(p)
           /\ Kind(p) \in {"effect", "if", "for"} => ~EndsFlow(p) /\ Emits(p) /\ ~Flat(p)
           /\ Kind(p) \in {"silent", "block"} => ~Emits(p) /\ Flat(p)
           /\ Kind(p) = "or" => ~Emits(p) /\ ~Flat(p)
           /\ Kind(p) = "end" => ~Emits(p) /\ (Flat(p) <=> Kind(Opener(p)) = "block")
BY DEF EndsFlow, Emits, Flat

\* A step of codegen_stmt: what is told after it.
LEMMA JudgedStep ==
    ASSUME Judged, phase = "generate", phase' = phase, text' = text, returns' = returns,
           NEW bs, bs = blocks', NEW b, b = insert', NEW fs, fs = frames', NEW q, q = pos',
           hasErrors' => \E p \in 1 .. Len(text) : Bad(p),
           ~hasErrors' => Sealed(bs, b, fs) /\ Told(bs, b, q)
    PROVE  Judged'
<1>1. phase' = "generate"
  OBVIOUS
<1>2. (\A p \in 1 .. Len(text) : RetMatches(p))'
  BY <1>1 DEF Judged, RetMatches, Kind
<1>3. hasErrors' => (\E p \in 1 .. Len(text) : Bad(p))'
  <2>1. \A p : Bad(p)' <=> Bad(p)
    BY SameVerdict
  <2>2. Len(text)' = Len(text)
    OBVIOUS
  <2> QED  BY <2>1, <2>2
<1>4. ASSUME ~hasErrors' PROVE Told(blocks, insert, pos)'
  <2>1. Told(bs, b, q)
    BY <1>4
  <2>2. /\ Ended(q)' <=> Ended(q)
        /\ Dead(q)' <=> Dead(q)
        /\ \A p : Bad(p)' <=> Bad(p)
    BY SameVerdict, Zenon
  <2>3. Told(bs, b, q)'
    BY <2>1, <2>2, Zenon DEF Told
  <2> QED  BY <2>3, Zenon DEF Told
<1>5. ~hasErrors' => Sealed(blocks, insert, frames)'
  OBVIOUS
<1> QED  BY <1>1, <1>2, <1>3, <1>4, <1>5 DEF Judged, Verdict

\* An error once reported stays.
LEMMA StillJudged ==
    ASSUME Judged, phase = "generate", phase' = phase, text' = text, returns' = returns,
           hasErrors, hasErrors' = hasErrors \/ hasErrors' = TRUE
    PROVE  Judged'
<1>1. \E p \in 1 .. Len(text) : Bad(p)
  BY DEF Judged
<1>2. hasErrors'
  OBVIOUS
<1> QED  BY <1>1, <1>2, JudgedStep

LEMMA Reported ==
    ASSUME Judged, phase = "generate", phase' = phase, text' = text, returns' = returns,
           NEW p \in 1 .. Len(text), Bad(p), hasErrors' = TRUE
    PROVE  Judged'
BY JudgedStep

\* What a token is read in.
LEMMA Reading ==
    ASSUME Inv, Follow, Judged, phase = "generate", ~hasErrors
    PROVE  /\ blocks \in Seq(Seq(Instrs)) /\ insert \in 1 .. Len(blocks) /\ frames \in Seq(Frames)
           /\ Sealed(blocks, insert, frames) /\ Told(blocks, insert, pos)
           /\ text \in Seq(Tokens) /\ pos \in Nat \ {0} /\ Whole /\ Nested(frames, pos)
BY DEF Inv, Parse, Builder, Code, Follow, Whole, Judged

\* An instruction at the builder's place leaves the other blocks as sealed as they were.
LEMMA EmitSealed ==
    ASSUME NEW bs \in Seq(Seq(Instrs)), NEW b \in 1 .. Len(bs), NEW fs, Sealed(bs, b, fs),
           NEW instr \in Instrs
    PROVE  Sealed(Emit(bs, b, instr), b, fs)
<1>1. PICK out : out = Emit(bs, b, instr)
  OBVIOUS
<1>2. /\ Len(out) = Len(bs)
      /\ \A c \in 1 .. Len(bs) : c # b => (Terminated(out, c) <=> Terminated(bs, c))
  BY <1>1, EmitIs, EmitEnds
<1>3. Sealed(out, b, fs)
  BY <1>2, Zenon DEF Sealed
<1> QED  BY <1>1, <1>3

LEMMA EmitJudged ==
    ASSUME Inv, Follow, Judged, phase = "generate", phase' = phase, text' = text, returns' = returns,
           ~hasErrors, ~hasErrors', pos \in 1 .. Len(text), ~Bad(pos), Emits(pos), ~Flat(pos),
           insert' = insert, frames' = frames, pos' = pos + 1,
           NEW instr \in Instrs, blocks' = Emit(blocks, insert, instr),
           instr.op \in Terminators <=> EndsFlow(pos)
    PROVE  Judged'
<1>1. PICK bs, b, fs, q, out : /\ bs = blocks /\ b = insert /\ fs = frames /\ q = pos
                               /\ out = Emit(bs, b, instr)
  OBVIOUS
<1>2. /\ bs \in Seq(Seq(Instrs)) /\ b \in 1 .. Len(bs) /\ Sealed(bs, b, fs) /\ Told(bs, b, q)
      /\ q \in Nat \ {0} /\ ~Bad(q) /\ Emits(q) /\ ~Flat(q) /\ (instr.op \in Terminators <=> EndsFlow(q))
  BY <1>1, Reading
<1>3. Sealed(out, b, fs)
  BY <1>1, <1>2, EmitSealed
<1>4. /\ Terminated(out, b) <=> EndsFlow(q)
      /\ Spoiled(out) <=> Spoiled(bs) \/ Terminated(bs, b)
  BY <1>1, <1>2, EmitEnds
<1>5. Told(out, b, q + 1)
  BY <1>2, <1>4, TellsEmits
<1>6. out = blocks' /\ b = insert' /\ fs = frames' /\ q + 1 = pos'
  BY <1>1
<1> QED  BY <1>3, <1>5, <1>6, JudgedStep

\* A token that leaves the blocks alone.
LEMMA FlatJudged ==
    ASSUME Inv, Follow, Judged, phase = "generate", phase' = phase, text' = text, returns' = returns,
           ~hasErrors, ~hasErrors', pos \in 1 .. Len(text), ~Bad(pos), ~Emits(pos), Flat(pos),
           blocks' = blocks, insert' = insert, pos' = pos + 1,
           NEW fs, fs = frames', \A c : Awaited(frames, c) => Awaited(fs, c)
    PROVE  Judged'
<1>1. PICK bs, b, gs, q : bs = blocks /\ b = insert /\ gs = frames /\ q = pos
  OBVIOUS
<1>2. /\ Sealed(bs, b, gs) /\ Told(bs, b, q)
      /\ q \in Nat \ {0} /\ ~Bad(q) /\ ~Emits(q) /\ Flat(q)
      /\ \A c : Awaited(gs, c) => Awaited(fs, c)
  BY <1>1, Reading
<1>3. Sealed(bs, b, fs)
  BY <1>2, Zenon DEF Sealed
<1>4. Told(bs, b, q + 1)
  BY <1>2, TellsFlat
<1>5. bs = blocks' /\ b = insert' /\ q + 1 = pos'
  BY <1>1
<1> QED  BY <1>3, <1>4, <1>5, JudgedStep

LEMMA ExprJudged ==
    ASSUME Inv, Follow, Judged, codegen_stmt_expr
    PROVE  Judged'
<1>1. /\ phase = "generate" /\ phase' = phase /\ text' = text /\ returns' = returns
      /\ pos \in 1 .. Len(text) /\ Kind(pos) \in {"effect", "silent"} /\ text \in Seq(Tokens)
      /\ insert' = insert /\ frames' = frames /\ hasErrors' = hasErrors /\ pos' = pos + 1
      /\ Kind(pos) = "effect" => blocks' = Emit(blocks, insert, Instr("effect", pos, 0, 0))
      /\ Kind(pos) = "silent" => blocks' = blocks
  BY DEF Inv, Parse, codegen_stmt_expr, Reads
<1>2. CASE hasErrors
  BY <1>1, <1>2, StillJudged
<1>3. CASE ~hasErrors /\ Kind(pos) = "effect"
  <2>1. ~Bad(pos) /\ ~EndsFlow(pos) /\ Emits(pos) /\ ~Flat(pos)
    BY <1>1, <1>3, KindFacts, FlowFacts
  <2> DEFINE instr == Instr("effect", pos, 0, 0)
  <2>2. instr \in Instrs /\ instr.op \notin Terminators
    BY <1>1 DEF Instr, Instrs, Ops, Terminators
  <2> HIDE DEF instr
  <2>3. blocks' = Emit(blocks, insert, instr)
    BY <1>1, <1>3 DEF instr
  <2> QED  BY <1>1, <1>3, <2>1, <2>2, <2>3, EmitJudged
<1>4. CASE ~hasErrors /\ Kind(pos) = "silent"
  <2>1. ~Bad(pos) /\ ~Emits(pos) /\ Flat(pos)
    BY <1>1, <1>4, KindFacts, FlowFacts
  <2> QED  BY <1>1, <1>4, <2>1, FlatJudged
<1> QED  BY <1>1, <1>2, <1>3, <1>4

LEMMA RetJudged ==
    ASSUME Inv, Follow, Judged, codegen_stmt_ret
    PROVE  Judged'
<1> DEFINE instr == Instr("ret", pos, 0, 0)
<1>1. /\ phase = "generate" /\ phase' = phase /\ text' = text /\ returns' = returns
      /\ pos \in 1 .. Len(text) /\ Kind(pos) \in {"ret", "ret_value"} /\ text \in Seq(Tokens)
      /\ insert' = insert /\ frames' = frames /\ hasErrors' = hasErrors /\ pos' = pos + 1
      /\ blocks' = Emit(blocks, insert, instr)
  BY DEF Inv, Parse, codegen_stmt_ret, Reads
<1>2. instr \in Instrs /\ instr.op \in Terminators
  BY <1>1 DEF Instr, Instrs, Ops, Terminators
<1> HIDE DEF instr
<1>3. CASE hasErrors
  BY <1>1, <1>3, StillJudged
<1>4. CASE ~hasErrors
  <2>1. ~Bad(pos) /\ EndsFlow(pos) /\ Emits(pos) /\ ~Flat(pos)
    BY <1>1, KindFacts, FlowFacts
  <2> QED  BY <1>1, <1>2, <1>4, <2>1, EmitJudged
<1> QED  BY <1>3, <1>4

\* A brk or cnt is reported exactly outside any loop.
LEMMA BrkJudged ==
    ASSUME Inv, Follow, Judged, codegen_stmt_brk
    PROVE  Judged'
<1> DEFINE target == IF Kind(pos) = "brk" THEN breakTo ELSE continueTo
           instr == Br(0, target)
<1>1. /\ phase = "generate" /\ phase' = phase /\ text' = text /\ returns' = returns
      /\ pos \in 1 .. Len(text) /\ Kind(pos) \in {"brk", "cnt"} /\ text \in Seq(Tokens)
      /\ insert' = insert /\ frames' = frames /\ pos' = pos + 1
      /\ target # 0 => blocks' = Emit(blocks, insert, instr) /\ hasErrors' = hasErrors
      /\ target = 0 => hasErrors' = TRUE
  BY DEF Inv, Parse, codegen_stmt_brk, Reads
<1>2. breakTo \in Nat /\ continueTo \in Nat
  BY DEF Inv, Context0, Builder, Code
<1>3. instr \in Instrs /\ instr.op \in Terminators
  BY <1>2 DEF Br, Instr, Instrs, Ops, Terminators
<1>4. CASE hasErrors
  <2>1. hasErrors' = hasErrors \/ hasErrors' = TRUE
    BY <1>1
  <2> QED  BY <1>1, <1>4, <2>1, StillJudged
<1>5. CASE ~hasErrors
  <2>1. target = 0 <=> Loop(pos) = 0
    BY <1>1, <1>5, NoContext
  <2>2. Bad(pos) <=> Loop(pos) = 0
    BY <1>1, KindFacts
  <2> HIDE DEF target, instr
  <2>3. CASE target = 0
    BY <1>1, <2>1, <2>2, <2>3, Reported
  <2>4. CASE target # 0
    <3>1. EndsFlow(pos) /\ Emits(pos) /\ ~Flat(pos) /\ ~Bad(pos)
      BY <1>1, <2>1, <2>2, <2>4, FlowFacts
    <3> QED  BY <1>1, <1>3, <1>5, <2>4, <3>1, EmitJudged
  <2> QED  BY <2>3, <2>4
<1> QED  BY <1>4, <1>5

LEMMA BlockJudged ==
    ASSUME Inv, Follow, Judged, codegen_stmt_block
    PROVE  Judged'
<1>1. /\ phase = "generate" /\ phase' = phase /\ text' = text /\ returns' = returns
      /\ pos \in 1 .. Len(text) /\ Kind(pos) = "block" /\ text \in Seq(Tokens)
      /\ blocks' = blocks /\ insert' = insert /\ hasErrors' = hasErrors /\ pos' = pos + 1
      /\ frames' = Append(frames, BlockFrame) /\ frames \in Seq(Frames)
  BY DEF Inv, Parse, Builder, codegen_stmt_block, Reads
<1>2. BlockFrame \in Frames
  BY DEF Frames
<1>3. CASE hasErrors
  BY <1>1, <1>3, StillJudged
<1>4. CASE ~hasErrors
  <2>1. ~Bad(pos) /\ ~Emits(pos) /\ Flat(pos)
    BY <1>1, KindFacts, FlowFacts
  <2>2. PICK fs : fs = Append(frames, BlockFrame)
    OBVIOUS
  <2>3. \A c : Awaited(frames, c) => Awaited(fs, c)
    BY <1>1, <1>2, <2>2, AwaitedPush
  <2> QED  BY <1>1, <1>4, <2>1, <2>2, <2>3, FlatJudged
<1> QED  BY <1>3, <1>4

\* The start of an if, wherever the builder stands.
LEMMA BeginJudged ==
    ASSUME NEW bs \in Seq(Seq(Instrs)), NEW b \in 1 .. Len(bs), NEW fs \in Seq(Frames),
           Sealed(bs, b, fs), BeginIf(bs, b, fs), text[pos].cond # "composite", pos \in Nat
    PROVE  /\ Sealed(blocks', insert', frames') /\ ~Terminated(blocks', insert')
           /\ Spoiled(blocks') <=> Spoiled(bs) \/ Terminated(bs, b)
           /\ pos' = pos + 1 /\ hasErrors' = hasErrors
<1> DEFINE n == Len(bs)
           op == IF text[pos].cond = "none" THEN Br(0, n + 1) ELSE Instr("condbr", pos, n + 1, n + 2)
           f == CondFrame(Kind(pos) = "or", n + 2, n + 3)
<1>1. /\ blocks' = Emit(WithNew(bs, 3), b, op) /\ insert' = n + 1
      /\ frames' = Append(fs, f) /\ pos' = pos + 1 /\ hasErrors' = hasErrors
  BY DEF BeginIf
<1>2. n \in Nat
  OBVIOUS
<1>3. op \in Instrs /\ op.op \in Terminators
  BY <1>2 DEF Br, Instr, Instrs, Ops, Terminators
<1>4. f \in Frames /\ Awaits(f) = {n + 2, n + 3}
  BY <1>2 DEF CondFrame, Frames, CondFrames, Awaits
<1> HIDE DEF op, f, n
<1>5. PICK gs, out : gs = Append(fs, f) /\ out = Emit(WithNew(bs, 3), b, op)
  OBVIOUS
<1>6. /\ \A c : Awaited(fs, c) => Awaited(gs, c)
      /\ Awaited(gs, n + 2) /\ Awaited(gs, n + 3)
  BY <1>4, <1>5, AwaitedPush
<1>8. n = Len(bs) /\ b \in 1 .. n
  BY DEF n
<1>7. /\ Sealed(out, n + 1, gs)
      /\ ~Terminated(out, n + 1)
      /\ Spoiled(out) <=> Spoiled(bs) \/ Terminated(bs, b)
  <2>1. Awaited(gs, Len(bs) + 2) /\ Awaited(gs, Len(bs) + 3)
    BY <1>6, <1>8
  <2>2. /\ Sealed(out, Len(bs) + 1, gs)
        /\ ~Terminated(out, Len(bs) + 1)
        /\ Spoiled(out) <=> Spoiled(bs) \/ Terminated(bs, b)
    BY <1>3, <1>5, <1>6, <2>1, OpensIf
  <2> QED  BY <1>8, <2>2
<1> QED  BY <1>1, <1>5, <1>7

LEMMA IfJudged ==
    ASSUME Inv, Follow, Judged, codegen_stmt_if
    PROVE  Judged'
<1>1. /\ phase = "generate" /\ phase' = phase /\ text' = text /\ returns' = returns
      /\ pos \in 1 .. Len(text) /\ Kind(pos) = "if" /\ text \in Seq(Tokens) /\ hasErrors \in BOOLEAN
      /\ BeginIf(blocks, insert, frames)
  BY DEF Inv, Parse, codegen_stmt_if, Reads
<1>2. hasErrors' = hasErrors \/ hasErrors' = TRUE
  BY <1>1 DEF BeginIf
<1>3. CASE hasErrors
  BY <1>1, <1>2, <1>3, StillJudged
<1>4. CASE ~hasErrors /\ text[pos].cond = "composite"
  <2>1. Bad(pos) /\ hasErrors' = TRUE
    BY <1>1, <1>4, KindFacts DEF BeginIf
  <2> QED  BY <1>1, <2>1, Reported
<1>5. CASE ~hasErrors /\ text[pos].cond # "composite"
  <2>1. /\ blocks \in Seq(Seq(Instrs)) /\ insert \in 1 .. Len(blocks) /\ frames \in Seq(Frames)
        /\ Sealed(blocks, insert, frames) /\ Told(blocks, insert, pos) /\ pos \in Nat \ {0}
    BY <1>1, <1>5, Reading
  <2>2. /\ Sealed(blocks', insert', frames') /\ ~Terminated(blocks', insert')
        /\ Spoiled(blocks') <=> Spoiled(blocks) \/ Terminated(blocks, insert)
        /\ pos' = pos + 1 /\ hasErrors' = hasErrors
    BY <1>1, <1>5, <2>1, BeginJudged
  <2>3. ~Bad(pos) /\ Emits(pos) /\ ~EndsFlow(pos) /\ ~Flat(pos)
    BY <1>1, <1>5, KindFacts, FlowFacts
  <2>4. PICK bs, b, fs, q, cs, c : /\ bs = blocks /\ b = insert /\ q = pos
                                   /\ cs = blocks' /\ c = insert' /\ fs = frames'
    OBVIOUS
  <2>5. Told(cs, c, q + 1)
    BY <2>1, <2>2, <2>3, <2>4, TellsEmits
  <2>6. Sealed(cs, c, fs) /\ q + 1 = pos'
    BY <2>2, <2>4
  <2> QED  BY <1>1, <1>5, <2>2, <2>4, <2>5, <2>6, JudgedStep
<1> QED  BY <1>3, <1>4, <1>5

\* The call on top, and what is awaited without it.
LEMMA TopAwaits ==
    ASSUME Inv, frames # <<>>
    PROVE  /\ Top \in Frames /\ Popped \in Seq(Frames)
           /\ \A a \in Awaits(Top) : a \in 1 .. Len(blocks) /\ a # insert /\ blocks[a] = <<>>
           /\ \A c : Awaited(frames, c) => Awaited(Popped, c) \/ c \in Awaits(Top)
           /\ Top.kind = "for" => Top.loop \in Nat
<1>1. /\ frames \in Seq(Frames) /\ Len(frames) > 0 /\ Top = frames[Len(frames)]
      /\ Popped \in Seq(Frames) /\ Len(Popped) = Len(frames) - 1
      /\ \A i \in 1 .. Len(Popped) : Popped[i] = frames[i]
  BY PoppedIs
<1>2. Len(frames) \in 1 .. Len(frames) /\ Top \in Frames
  BY <1>1
<1>3. \A a \in Awaits(Top) : a \in 1 .. Len(blocks) /\ a # insert /\ blocks[a] = <<>>
  BY <1>1, <1>2, Zenon DEF Inv, Builder
<1>4. \A i \in 1 .. Len(frames) : i \in 1 .. Len(Popped) \/ i = Len(frames)
  BY <1>1
<1>5. \A c : Awaited(frames, c) => Awaited(Popped, c) \/ c \in Awaits(Top)
  BY <1>1, <1>4, Zenon DEF Awaited
<1>6. Top.kind = "for" => Top.loop \in Nat
  BY <1>2 DEF Frames, CondFrames, ForFrames, BlockFrame
<1> QED  BY <1>1, <1>2, <1>3, <1>5, <1>6

\* The end of a then block: the else block is the builder's, the merge block is awaited.
LEMMA ThenAwaits ==
    ASSUME Inv, Within("if")
    PROVE  /\ Top.else \in 1 .. Len(blocks) /\ Top.else # insert /\ blocks[Top.else] = <<>>
           /\ Top.merge \in Nat /\ Top.else \in Nat
           /\ \A c : Awaited(frames, c) => c = Top.else \/ Awaited(AfterThen, c)
<1>1. frames # <<>> /\ Top.kind = "if"
  BY DEF Within
<1>2. /\ Top \in Frames /\ Popped \in Seq(Frames)
      /\ \A a \in Awaits(Top) : a \in 1 .. Len(blocks) /\ a # insert /\ blocks[a] = <<>>
      /\ \A c : Awaited(frames, c) => Awaited(Popped, c) \/ c \in Awaits(Top)
  BY <1>1, TopAwaits
<1>3. Awaits(Top) = {Top.else, Top.merge} /\ Top \in CondFrames
  BY <1>1, <1>2 DEF Awaits, Frames, ForFrames, BlockFrame
<1> DEFINE f == ElseFrame(Top, ThenFalls)
<1>4. /\ f \in Frames /\ Awaits(f) = {Top.merge}
  <2>1. f \in CondFrames /\ f.kind = "else" /\ f.merge = Top.merge
    BY <1>3 DEF ElseFrame, CondFrames, ThenFalls
  <2> QED  BY <2>1 DEF Frames, Awaits
<1> HIDE DEF f
<1>5. AfterThen = Append(Popped, f)
  BY DEF AfterThen, f
<1>6. \A c : Awaited(AfterThen, c) <=> Awaited(Popped, c) \/ c \in Awaits(f)
  BY <1>2, <1>4, <1>5, AwaitedPush
<1>7. \A c : Awaited(frames, c) => c = Top.else \/ Awaited(AfterThen, c)
  BY <1>2, <1>3, <1>4, <1>6, Zenon
<1>8. Top.merge \in Nat /\ Top.else \in Nat
  BY <1>3 DEF CondFrames
<1> QED  BY <1>2, <1>3, <1>7, <1>8

\* An "end" after which the builder is in a block that was awaited.
LEMMA LeaveJudged ==
    ASSUME Inv, Follow, Judged, phase = "generate", phase' = phase, text' = text, returns' = returns,
           ~hasErrors, ~hasErrors', pos \in 1 .. Len(text), ~Bad(pos), ~Emits(pos), ~Flat(pos),
           pos' = pos + 1, NEW target \in Nat, blocks' = BranchIfOpen(blocks, insert, target),
           insert' \in 1 .. Len(blocks), insert' # insert, blocks[insert'] = <<>>,
           \A c : Awaited(frames, c) => c = insert' \/ Awaited(frames', c)
    PROVE  Judged'
<1>1. PICK bs, b, fs, q, out, d, gs :
         /\ bs = blocks /\ b = insert /\ fs = frames /\ q = pos
         /\ out = BranchIfOpen(bs, b, target) /\ d = insert' /\ gs = frames'
  OBVIOUS
<1>2. /\ bs \in Seq(Seq(Instrs)) /\ b \in 1 .. Len(bs) /\ Sealed(bs, b, fs) /\ Told(bs, b, q)
      /\ q \in Nat \ {0} /\ ~Bad(q) /\ ~Emits(q) /\ ~Flat(q)
      /\ d \in 1 .. Len(bs) /\ d # b /\ bs[d] = <<>>
      /\ \A c \in 1 .. Len(bs) : Awaited(fs, c) => c = d \/ Awaited(gs, c)
  BY <1>1, Reading
<1>3. /\ Sealed(out, d, gs) /\ ~Terminated(out, d)
      /\ Spoiled(out) <=> Spoiled(bs)
  <2>1. /\ Sealed(BranchIfOpen(bs, b, target), d, gs)
        /\ ~Terminated(BranchIfOpen(bs, b, target), d)
        /\ Spoiled(BranchIfOpen(bs, b, target)) <=> Spoiled(bs)
    BY <1>2, Leaves, Zenon
  <2> QED  BY <1>1, <2>1, Zenon
<1>4. Told(out, d, q + 1)
  BY <1>2, <1>3, TellsMoves
<1>5. out = blocks' /\ q + 1 = pos'
  BY <1>1
<1> QED  BY <1>1, <1>3, <1>4, <1>5, JudgedStep

\* The frame on top tells which statement an "end" closes.
LEMMA EndIs ==
    ASSUME Inv, Follow, phase = "generate", ~hasErrors, pos \in 1 .. Len(text), Kind(pos) = "end",
           frames # <<>>, Top.kind \in Openers
    PROVE  Flat(pos) <=> Top.kind = "block"
<1>1. Whole /\ frames \in Seq(Frames) /\ Nested(frames, pos)
  BY Generating
<1>2. Kind(Opener(pos)) = Top.kind
  BY <1>1, TopOpener DEF Top
<1> QED  BY <1>2, FlowFacts

LEMMA EndOfThenJudged ==
    ASSUME Inv, Follow, Judged, EndOfThen
    PROVE  Judged'
<1>1. /\ phase = "generate" /\ phase' = phase /\ text' = text /\ returns' = returns
      /\ pos \in 1 .. Len(text) /\ Kind(pos) = "end" /\ text \in Seq(Tokens) /\ Within("if")
      /\ blocks' = BranchIfOpen(blocks, insert, Top.merge)
      /\ insert' = Top.else /\ frames' = AfterThen /\ hasErrors' = hasErrors /\ pos' = pos + 1
  BY DEF Inv, Parse, EndOfThen, Reads
<1>2. CASE hasErrors
  BY <1>1, <1>2, StillJudged
<1>3. CASE ~hasErrors
  <2>1. /\ Top.else \in 1 .. Len(blocks) /\ Top.else # insert /\ blocks[Top.else] = <<>>
        /\ Top.merge \in Nat
        /\ \A c : Awaited(frames, c) => c = Top.else \/ Awaited(AfterThen, c)
    BY <1>1, ThenAwaits
  <2>2. frames # <<>> /\ Top.kind \in Openers /\ Top.kind # "block"
    BY <1>1 DEF Within, Openers
  <2>3. ~Bad(pos) /\ ~Emits(pos) /\ ~Flat(pos)
    BY <1>1, <1>3, <2>2, KindFacts, FlowFacts, EndIs
  <2> QED  BY <1>1, <1>3, <2>1, <2>3, LeaveJudged
<1> QED  BY <1>2, <1>3

LEMMA EndOfForJudged ==
    ASSUME Inv, Follow, Judged, EndOfFor
    PROVE  Judged'
<1>1. /\ phase = "generate" /\ phase' = phase /\ text' = text /\ returns' = returns
      /\ pos \in 1 .. Len(text) /\ Kind(pos) = "end" /\ text \in Seq(Tokens)
      /\ frames # <<>> /\ Top.kind = "for"
      /\ blocks' = BranchIfOpen(blocks, insert, Top.loop)
      /\ insert' = Top.exit /\ frames' = Popped /\ hasErrors' = hasErrors /\ pos' = pos + 1
  BY DEF Inv, Parse, EndOfFor, Reads, Within
<1>2. CASE hasErrors
  BY <1>1, <1>2, StillJudged
<1>3. CASE ~hasErrors
  <2>1. /\ \A a \in Awaits(Top) : a \in 1 .. Len(blocks) /\ a # insert /\ blocks[a] = <<>>
        /\ \A c : Awaited(frames, c) => Awaited(Popped, c) \/ c \in Awaits(Top)
        /\ Top.loop \in Nat
    BY <1>1, TopAwaits
  <2>2. Awaits(Top) = {Top.exit}
    BY <1>1 DEF Awaits
  <2>3. /\ Top.exit \in 1 .. Len(blocks) /\ Top.exit # insert /\ blocks[Top.exit] = <<>>
        /\ \A c : Awaited(frames, c) => c = Top.exit \/ Awaited(Popped, c)
    BY <2>1, <2>2, Zenon
  <2>4. Top.kind \in Openers /\ Top.kind # "block"
    BY <1>1 DEF Openers
  <2>5. ~Bad(pos) /\ ~Emits(pos) /\ ~Flat(pos)
    BY <1>1, <1>3, <2>4, KindFacts, FlowFacts, EndIs
  <2> QED  BY <1>1, <1>3, <2>1, <2>3, <2>5, LeaveJudged
<1> QED  BY <1>2, <1>3

LEMMA EndOfBlockJudged ==
    ASSUME Inv, Follow, Judged, EndOfBlock
    PROVE  Judged'
<1>1. /\ phase = "generate" /\ phase' = phase /\ text' = text /\ returns' = returns
      /\ pos \in 1 .. Len(text) /\ Kind(pos) = "end" /\ text \in Seq(Tokens)
      /\ frames # <<>> /\ Top.kind = "block"
      /\ blocks' = blocks /\ insert' = insert /\ frames' = Popped
      /\ hasErrors' = hasErrors /\ pos' = pos + 1
  BY DEF Inv, Parse, EndOfBlock, Reads, Within
<1>2. CASE hasErrors
  BY <1>1, <1>2, StillJudged
<1>3. CASE ~hasErrors
  <2>1. \A c : Awaited(frames, c) => Awaited(Popped, c) \/ c \in Awaits(Top)
    BY <1>1, TopAwaits
  <2>2. Awaits(Top) = {} /\ Top.kind \in Openers
    BY <1>1 DEF Awaits, Openers
  <2>3. ~Bad(pos) /\ ~Emits(pos) /\ Flat(pos)
    BY <1>1, <1>3, <2>2, KindFacts, FlowFacts, EndIs
  <2>4. PICK fs : fs = Popped
    OBVIOUS
  <2>5. \A c : Awaited(frames, c) => Awaited(fs, c)
    BY <2>1, <2>2, <2>4, Zenon
  <2> QED  BY <1>1, <1>3, <2>3, <2>4, <2>5, FlatJudged
<1> QED  BY <1>2, <1>3

\* The next branch of a chain: its condition is tested in the else block.
LEMMA OrJudged ==
    ASSUME Inv, Follow, Judged, codegen_stmt_or
    PROVE  Judged'
<1> DEFINE joined == BranchIfOpen(blocks, insert, Top.merge)
<1>1. /\ phase = "generate" /\ phase' = phase /\ text' = text /\ returns' = returns
      /\ pos \in 1 .. Len(text) /\ Kind(pos) = "or" /\ text \in Seq(Tokens) /\ hasErrors \in BOOLEAN
      /\ Within("if") /\ BeginIf(joined, Top.else, AfterThen)
  BY DEF Inv, Parse, codegen_stmt_or, Reads
<1>2. hasErrors' = hasErrors \/ hasErrors' = TRUE
  BY <1>1 DEF BeginIf
<1>3. CASE hasErrors
  BY <1>1, <1>2, <1>3, StillJudged
<1>4. CASE ~hasErrors /\ text[pos].cond = "composite"
  <2>1. Bad(pos) /\ hasErrors' = TRUE
    BY <1>1, <1>4, KindFacts DEF BeginIf
  <2> QED  BY <1>1, <2>1, Reported
<1>5. CASE ~hasErrors /\ text[pos].cond # "composite"
  <2>1. /\ blocks \in Seq(Seq(Instrs)) /\ insert \in 1 .. Len(blocks)
        /\ Sealed(blocks, insert, frames) /\ Told(blocks, insert, pos) /\ pos \in Nat \ {0}
    BY <1>1, <1>5, Reading
  <2>2. /\ Top.else \in 1 .. Len(blocks) /\ Top.else # insert /\ blocks[Top.else] = <<>>
        /\ Top.merge \in Nat
        /\ \A c : Awaited(frames, c) => c = Top.else \/ Awaited(AfterThen, c)
    BY <1>1, ThenAwaits
  <2>3. AfterThen \in Seq(Frames)
    BY <1>1, AfterThenIs
  <2>4. PICK bs, b, fs, q, d, gs, out :
           /\ bs = blocks /\ b = insert /\ fs = frames /\ q = pos
           /\ d = Top.else /\ gs = AfterThen /\ out = joined
    OBVIOUS
  <2>14. PICK target \in Nat : target = Top.merge
    BY <2>2
  <2>5. /\ bs \in Seq(Seq(Instrs)) /\ b \in 1 .. Len(bs) /\ Sealed(bs, b, fs)
        /\ d \in 1 .. Len(bs) /\ d # b /\ bs[d] = <<>>
        /\ \A c \in 1 .. Len(bs) : Awaited(fs, c) => c = d \/ Awaited(gs, c)
        /\ out = BranchIfOpen(bs, b, target)
    BY <2>1, <2>2, <2>4, <2>14
  <2>6. /\ Sealed(out, d, gs) /\ ~Terminated(out, d)
        /\ Spoiled(out) <=> Spoiled(bs)
    <3>1. /\ Sealed(BranchIfOpen(bs, b, target), d, gs)
          /\ ~Terminated(BranchIfOpen(bs, b, target), d)
          /\ Spoiled(BranchIfOpen(bs, b, target)) <=> Spoiled(bs)
      BY <2>5, Leaves, Zenon
    <3> QED  BY <2>5, <3>1, Zenon
  <2>7. out \in Seq(Seq(Instrs)) /\ d \in 1 .. Len(out) /\ gs \in Seq(Frames)
    BY <2>3, <2>4, <2>5, BranchEnds
  <2>8. BeginIf(out, d, gs)
    BY <1>1, <2>4
  <2>9. /\ Sealed(blocks', insert', frames') /\ ~Terminated(blocks', insert')
        /\ Spoiled(blocks') <=> Spoiled(out) \/ Terminated(out, d)
        /\ pos' = pos + 1 /\ hasErrors' = hasErrors
    <3>1. text[pos].cond # "composite" /\ pos \in Nat
      BY <1>5, <2>1
    <3> QED  BY <2>6, <2>7, <2>8, <3>1, BeginJudged, Zenon
  <2>10. ~Bad(pos) /\ ~Emits(pos) /\ ~Flat(pos)
    BY <1>1, <1>5, KindFacts, FlowFacts
  <2>11. PICK es, e, hs : es = blocks' /\ e = insert' /\ hs = frames'
    OBVIOUS
  <2>12. Told(es, e, q + 1)
    <3>1. /\ q \in Nat \ {0} /\ Told(bs, b, q) /\ ~Bad(q) /\ ~Emits(q) /\ ~Flat(q)
      BY <2>1, <2>4, <2>10
    <3>2. ~Terminated(es, e) /\ (Spoiled(es) <=> Spoiled(bs))
      BY <2>6, <2>9, <2>11
    <3> QED  BY <3>1, <3>2, TellsMoves, Zenon
  <2>13. Sealed(es, e, hs) /\ q + 1 = pos'
    BY <2>4, <2>9, <2>11
  <2> QED  BY <1>1, <1>5, <2>9, <2>11, <2>12, <2>13, JudgedStep
<1> QED  BY <1>3, <1>4, <1>5

\* The end of an if: no token is read, and the merge block holds nothing yet.
LEMMA EndOfIfJudged ==
    ASSUME Inv, Follow, Judged, EndOfIf
    PROVE  Judged'
<1>1. /\ phase = "generate" /\ frames # <<>> /\ Top.kind = "else"
      /\ ~Terminated(blocks, insert) /\ Top \in Frames
  <2>1. frames # <<>> /\ Top.kind = "else" /\ phase = "generate"
    BY DEF EndOfIf, Within
  <2>2. blocks[insert] = <<>>
    BY <2>1 DEF Inv, ElseEmpty, Top
  <2>3. ~Terminated(blocks, insert)
    BY <2>2, Zenon DEF Terminated
  <2> QED  BY <2>1, <2>3, TopAwaits
<1>2. /\ phase' = phase /\ text' = text /\ returns' = returns
      /\ blocks' = BranchIfOpen(blocks, insert, Top.merge)
      /\ insert' = Top.merge /\ frames' = Popped /\ hasErrors' = hasErrors /\ pos' = pos
  BY <1>1 DEF EndOfIf
<1>3. CASE hasErrors
  BY <1>1, <1>2, <1>3, StillJudged
<1>4. CASE ~hasErrors
  <2>1. /\ blocks \in Seq(Seq(Instrs)) /\ insert \in 1 .. Len(blocks)
        /\ Sealed(blocks, insert, frames) /\ Told(blocks, insert, pos)
    BY <1>1, <1>4, Reading
  <2>2. /\ \A a \in Awaits(Top) : a \in 1 .. Len(blocks) /\ a # insert /\ blocks[a] = <<>>
        /\ \A c : Awaited(frames, c) => Awaited(Popped, c) \/ c \in Awaits(Top)
    BY <1>1, TopAwaits
  <2>3. Awaits(Top) = {Top.merge}
    BY <1>1 DEF Awaits
  <2>4. /\ Top.merge \in 1 .. Len(blocks) /\ Top.merge # insert /\ blocks[Top.merge] = <<>>
        /\ \A c : Awaited(frames, c) => c = Top.merge \/ Awaited(Popped, c)
    BY <2>2, <2>3, Zenon
  <2>5. PICK bs, b, fs, q, d, gs, out :
           /\ bs = blocks /\ b = insert /\ fs = frames /\ q = pos
           /\ d = Top.merge /\ gs = Popped /\ out = BranchIfOpen(bs, b, d)
    OBVIOUS
  <2>6. /\ bs \in Seq(Seq(Instrs)) /\ b \in 1 .. Len(bs) /\ Sealed(bs, b, fs)
        /\ d \in 1 .. Len(bs) /\ d # b /\ bs[d] = <<>> /\ d \in Nat
        /\ \A c \in 1 .. Len(bs) : Awaited(fs, c) => c = d \/ Awaited(gs, c)
        /\ Told(bs, b, q) /\ ~Terminated(bs, b)
    BY <1>1, <2>1, <2>4, <2>5
  <2>7. /\ Sealed(out, d, gs) /\ ~Terminated(out, d)
        /\ Spoiled(out) <=> Spoiled(bs)
    <3>1. /\ Sealed(BranchIfOpen(bs, b, d), d, gs)
          /\ ~Terminated(BranchIfOpen(bs, b, d), d)
          /\ Spoiled(BranchIfOpen(bs, b, d)) <=> Spoiled(bs)
      BY <2>6, Leaves, Zenon
    <3> QED  BY <2>5, <3>1, Zenon
  <2>8. Told(out, d, q)
    BY <2>6, <2>7, Zenon DEF Told
  <2>9. out = blocks' /\ d = insert' /\ gs = frames' /\ q = pos'
    BY <1>2, <2>5
  <2> QED  BY <1>1, <1>2, <1>4, <2>7, <2>8, <2>9, JudgedStep
<1> QED  BY <1>3, <1>4

LEMMA ForJudged ==
    ASSUME Inv, Follow, Judged, codegen_stmt_for
    PROVE  Judged'
<1> DEFINE n == Len(blocks)
           new == WithNew(blocks, 3)
           entered == Emit(new, insert, Br(0, n + 1))
           op == IF text[pos].cond = "none" THEN Br(pos, n + 2) ELSE Instr("condbr", pos, n + 2, n + 3)
           f == ForFrame(n + 1, n + 3)
<1>1. /\ phase = "generate" /\ phase' = phase /\ text' = text /\ returns' = returns
      /\ pos \in 1 .. Len(text) /\ Kind(pos) = "for" /\ text \in Seq(Tokens) /\ hasErrors \in BOOLEAN
      /\ text[pos].cond = "composite" => hasErrors' = TRUE
      /\ text[pos].cond # "composite" =>
            /\ blocks' = Emit(entered, n + 1, op) /\ insert' = n + 2
            /\ frames' = Append(frames, f) /\ pos' = pos + 1 /\ hasErrors' = hasErrors
  BY DEF Inv, Parse, codegen_stmt_for, Reads
<1>2. /\ n \in Nat /\ breakTo \in Nat /\ continueTo \in Nat /\ frames \in Seq(Frames)
  BY DEF Inv, Context0, Builder, Code
<1>3. op \in Instrs /\ op.op \in Terminators
  BY <1>1, <1>2 DEF Br, Instr, Instrs, Ops, Terminators
<1>4. f \in Frames /\ Awaits(f) = {n + 3}
  BY <1>2 DEF ForFrame, Frames, ForFrames, Awaits
<1> HIDE DEF op, f
<1>5. hasErrors' = hasErrors \/ hasErrors' = TRUE
  BY <1>1
<1>6. CASE hasErrors
  BY <1>1, <1>5, <1>6, StillJudged
<1>7. CASE ~hasErrors /\ text[pos].cond = "composite"
  <2>1. Bad(pos) /\ hasErrors' = TRUE
    BY <1>1, <1>7, KindFacts
  <2> QED  BY <1>1, <2>1, Reported
<1>8. CASE ~hasErrors /\ text[pos].cond # "composite"
  <2>1. /\ blocks \in Seq(Seq(Instrs)) /\ insert \in 1 .. Len(blocks)
        /\ Sealed(blocks, insert, frames) /\ Told(blocks, insert, pos) /\ pos \in Nat \ {0}
    BY <1>1, <1>8, Reading
  <2>2. PICK bs, b, fs, q, gs, out, i :
           /\ bs = blocks /\ b = insert /\ fs = frames /\ q = pos
           /\ gs = Append(fs, f) /\ i = op
           /\ out = Emit(Emit(WithNew(bs, 3), b, Br(0, Len(bs) + 1)), Len(bs) + 1, i)
    OBVIOUS
  <2>3. /\ \A c : Awaited(fs, c) => Awaited(gs, c)
        /\ Awaited(gs, Len(bs) + 3)
    BY <1>2, <1>4, <2>2, AwaitedPush
  <2>4. /\ bs \in Seq(Seq(Instrs)) /\ b \in 1 .. Len(bs) /\ Sealed(bs, b, fs)
        /\ i \in Instrs /\ i.op \in Terminators
        /\ q \in Nat \ {0} /\ Told(bs, b, q)
    BY <1>3, <2>1, <2>2
  <2>5. /\ Sealed(out, Len(bs) + 2, gs)
        /\ ~Terminated(out, Len(bs) + 2)
        /\ Spoiled(out) <=> Spoiled(bs) \/ Terminated(bs, b)
    BY <2>2, <2>3, <2>4, OpensFor
  <2>6. ~Bad(q) /\ Emits(q) /\ ~EndsFlow(q) /\ ~Flat(q)
    BY <1>1, <1>8, <2>2, KindFacts, FlowFacts
  <2>7. PICK e : e = Len(bs) + 2
    OBVIOUS
  <2>8. Told(out, e, q + 1)
    BY <2>4, <2>5, <2>6, <2>7, TellsEmits
  <2>9. out = blocks' /\ e = insert' /\ gs = frames' /\ q + 1 = pos'
    BY <1>1, <1>8, <2>2, <2>7
  <2>10. Sealed(out, e, gs) /\ ~hasErrors'
    BY <1>1, <1>8, <2>5, <2>7
  <2> QED  BY <1>1, <2>8, <2>9, <2>10, JudgedStep
<1> QED  BY <1>6, <1>7, <1>8

LEMMA WrongIs ==
    ASSUME text \in Seq(Tokens)
    PROVE  Wrong <=> (\E p \in 1 .. Len(text) : ~RetMatches(p) \/ Bad(p)) \/ DeadCode
<1>1. DOMAIN text = 1 .. Len(text)
  OBVIOUS
<1>2. (\E p \in DOMAIN text : \/ ~RetMatches(p)
                              \/ Kind(p) \in {"brk", "cnt"} /\ Loop(p) = 0
                              \/ text[p].cond = "composite")
        <=> \E p \in 1 .. Len(text) : ~RetMatches(p) \/ Bad(p)
  BY <1>1, Zenon DEF Bad
<1> QED  BY <1>2, Zenon DEF Wrong

LEMMA VerdictStep ==
    ASSUME text \in Seq(Tokens), text' = text, returns' = returns,
           phase' \in {"run", "done", "rejected"} => (phase' = "rejected" <=> Wrong)
    PROVE  Verdict'
<1>1. Wrong' <=> Wrong
  <2>1. /\ \A p : Bad(p)' <=> Bad(p)
        /\ DeadCode' <=> DeadCode
    BY SameVerdict
  <2>2. \A p : RetMatches(p)' <=> RetMatches(p)
    BY DEF RetMatches, Kind
  <2>3. (\E p \in 1 .. Len(text) : ~RetMatches(p) \/ Bad(p))'
          <=> \E p \in 1 .. Len(text) : ~RetMatches(p) \/ Bad(p)
    BY <2>1, <2>2
  <2>4. (text \in Seq(Tokens) =>
           (Wrong <=> (\E p \in 1 .. Len(text) : ~RetMatches(p) \/ Bad(p)) \/ DeadCode))'
    BY WrongIs, PTL
  <2>5. text' \in Seq(Tokens)
    OBVIOUS
  <2> QED  BY <2>1, <2>3, <2>4, <2>5, WrongIs
<1> QED  BY <1>1 DEF Verdict

\* The verdict of LLVMVerifyModule on a function whose every block is terminated.
LEMMA FunJudged ==
    ASSUME Inv, Follow, Judged, codegen_stmt_fun
    PROVE  Judged'
<1> DEFINE op == Instr("ret", 0, 0, 0)
<1>1. /\ phase = "generate" /\ frames = <<>> /\ pos = Len(text) + 1 /\ text \in Seq(Tokens)
      /\ text' = text /\ returns' = returns /\ hasErrors \in BOOLEAN
      /\ blocks' = IF Terminated(blocks, insert) THEN blocks ELSE Emit(blocks, insert, op)
      /\ hasErrors' = (hasErrors \/ ~Valid(blocks'))
      /\ phase' = IF hasErrors' THEN "rejected" ELSE "run"
  BY DEF Inv, Parse, codegen_stmt_fun
<1>2. op \in Instrs /\ op.op \in Terminators
  BY DEF Instr, Instrs, Ops, Terminators
<1> HIDE DEF op
<1>3. \A p \in 1 .. Len(text) : RetMatches(p)
  BY <1>1 DEF Judged
<1>4. phase' = "rejected" <=> Wrong
  <2>1. CASE hasErrors
    <3>1. \E p \in 1 .. Len(text) : Bad(p)
      BY <1>1, <2>1 DEF Judged
    <3> QED  BY <1>1, <2>1, <3>1, WrongIs
  <2>2. CASE ~hasErrors
    <3>1. /\ blocks \in Seq(Seq(Instrs)) /\ insert \in 1 .. Len(blocks)
          /\ Sealed(blocks, insert, frames) /\ Told(blocks, insert, pos)
      BY <1>1, <2>2, Reading
    <3>2. PICK bs, b, out : bs = blocks /\ b = insert /\ out = blocks'
      OBVIOUS
    <3>3. /\ bs \in Seq(Seq(Instrs)) /\ b \in 1 .. Len(bs)
          /\ \A c \in 1 .. Len(bs) : c = b \/ Terminated(bs, c)
          /\ out = IF Terminated(bs, b) THEN bs ELSE Emit(bs, b, op)
      <4>1. \A c : ~Awaited(frames, c)
        BY <1>1 DEF Awaited
      <4> QED  BY <1>1, <3>1, <3>2, <4>1 DEF Sealed
    <3>4. /\ out \in Seq(Seq(Instrs)) /\ \A c \in 1 .. Len(out) : Terminated(out, c)
          /\ Spoiled(out) <=> Spoiled(bs)
      <4>1. CASE Terminated(bs, b)
        BY <3>3, <4>1
      <4>2. CASE ~Terminated(bs, b)
        <5>1. out = Emit(bs, b, op)
          BY <3>3, <4>2
        <5>2. out \in Seq(Seq(Instrs)) /\ Len(out) = Len(bs)
          BY <1>2, <3>3, <5>1, EmitIs
        <5>3. /\ Terminated(out, b)
              /\ \A c \in 1 .. Len(bs) : c # b => (Terminated(out, c) <=> Terminated(bs, c))
              /\ Spoiled(out) <=> Spoiled(bs)
          BY <1>2, <3>3, <4>2, <5>1, EmitEnds
        <5> QED  BY <3>3, <5>2, <5>3
      <4> QED  BY <4>1, <4>2
    <3>5. Valid(out) <=> ~Spoiled(out)
      BY <3>4 DEF Valid, Spoiled, Ends
    <3>6. /\ Spoiled(bs) <=> Dead(Len(text) + 1)
          /\ \A p \in 1 .. Len(text) : ~Bad(p)
      <4>1. Told(bs, b, Len(text) + 1)
        BY <1>1, <3>1, <3>2
      <4>2. (Len(text) + 1) - 1 = Len(text)
        BY <1>1
      <4> QED  BY <4>1, <4>2 DEF Told
    <3>7. Spoiled(bs) <=> DeadCode
      BY <1>1, <3>6, DeadIs
    <3>8. Wrong <=> DeadCode
      BY <1>1, <1>3, <3>6, WrongIs
    <3> QED  BY <1>1, <2>2, <3>2, <3>4, <3>5, <3>7, <3>8
  <2> QED  BY <2>1, <2>2
<1>5. phase' \in {"rejected", "run"}
  BY <1>1
<1>6. Verdict'
  BY <1>1, <1>4, VerdictStep
<1>7. (\A p \in 1 .. Len(text) : RetMatches(p))'
  BY <1>1, <1>3 DEF RetMatches, Kind
<1> QED  BY <1>5, <1>6, <1>7 DEF Judged

\* Before generation, and when it starts.
LEMMA StartJudged ==
    ASSUME Inv, Follow, Judged, Write \/ EndOfBody \/ analyze_function_body
    PROVE  Judged'
<1>1. /\ phase \in {"parse", "analyse"} /\ phase' \in {"parse", "analyse", "generate", "rejected"}
      /\ blocks' = << <<>> >> /\ insert' = 1 /\ hasErrors' = FALSE /\ pos' = 1
      /\ text \in Seq(Tokens)
  <2>1. /\ phase \in {"parse", "analyse"} /\ phase' \in {"parse", "analyse", "generate", "rejected"}
        /\ blocks' = blocks /\ insert' = insert /\ hasErrors' = hasErrors /\ pos' = pos
    BY DEF Write, EndOfBody, analyze_function_body, code
  <2> QED  BY <2>1 DEF Judged, Follow, Inv, Parse
<1>2. CASE phase' \in {"parse", "analyse"}
  BY <1>1, <1>2 DEF Judged, Verdict
<1>3. CASE phase' = "generate"
  <2>1. /\ text' = text /\ returns' = returns
        /\ \A p \in DOMAIN text : RetMatches(p)
    BY <1>3 DEF Write, EndOfBody, analyze_function_body
  <2>2. (\A p \in 1 .. Len(text) : RetMatches(p))'
    BY <1>1, <2>1 DEF RetMatches, Kind
  <2>3. PICK bs : bs = << <<>> >>
    OBVIOUS
  <2>4. /\ Len(bs) = 1 /\ bs[1] = <<>> /\ Len(bs[1]) = 0
    BY <2>3
  <2>5. ~Terminated(bs, 1) /\ ~Spoiled(bs)
    BY <2>4 DEF Terminated, Spoiled
  <2>6. 1 .. 1 - 1 = {}
    OBVIOUS
  <2>7. ~Ended(1)' /\ ~Dead(1)'
    BY <2>6 DEF Ended, Dead
  <2>8. Told(bs, 1, 1)'
    BY <2>5, <2>6, <2>7 DEF Told
  <2>9. Told(blocks, insert, pos)'
    BY <1>1, <2>3, <2>8, Zenon DEF Told
  <2>10. Sealed(blocks', insert', frames')
    BY <1>1, <2>3, <2>4 DEF Sealed
  <2> QED  BY <1>1, <1>3, <2>2, <2>9, <2>10 DEF Judged, Verdict
<1>4. CASE phase' = "rejected"
  <2>1. /\ text' = text /\ returns' = returns
        /\ \E p \in DOMAIN text : ~RetMatches(p)
    BY <1>4 DEF Write, EndOfBody, analyze_function_body
  <2>2. Wrong
    BY <1>1, <2>1, WrongIs
  <2>3. Verdict'
    BY <1>1, <1>4, <2>1, <2>2, VerdictStep
  <2> QED  BY <1>4, <2>3 DEF Judged
<1> QED  BY <1>1, <1>2, <1>3, <1>4

\* The run changes nothing that the verdict is about.
LEMMA RunJudged ==
    ASSUME Inv, Judged, Run
    PROVE  Judged'
<1>1. /\ phase = "run" /\ phase' \in {"run", "done"} /\ text' = text /\ returns' = returns
  BY DEF Run, SourceMoves, CodeMoves, Effect, Test, Return, Meet
<1>2. text \in Seq(Tokens)
  BY DEF Inv, Parse
<1>3. ~Wrong
  BY <1>1 DEF Judged, Verdict
<1>4. Verdict'
  BY <1>1, <1>2, <1>3, VerdictStep
<1>5. (\A p \in 1 .. Len(text) : RetMatches(p))'
  BY <1>1 DEF Judged, RetMatches, Kind
<1> QED  BY <1>1, <1>4, <1>5 DEF Judged

LEMMA StutterJudged ==
    ASSUME Inv, Judged, vars' = vars
    PROVE  Judged'
<1>1. /\ text' = text /\ returns' = returns /\ phase' = phase /\ blocks' = blocks /\ insert' = insert
      /\ frames' = frames /\ pos' = pos /\ hasErrors' = hasErrors /\ text \in Seq(Tokens)
  BY DEF vars, code, Inv, Parse
<1>2. CASE phase = "generate"
  <2>1. hasErrors' => \E p \in 1 .. Len(text) : Bad(p)
    BY <1>1, <1>2 DEF Judged
  <2>2. PICK bs, b, fs, q : bs = blocks /\ b = insert /\ fs = frames /\ q = pos
    OBVIOUS
  <2>3. ~hasErrors' => Sealed(bs, b, fs) /\ Told(bs, b, q)
    BY <1>1, <1>2, <2>2 DEF Judged
  <2>4. bs = blocks' /\ b = insert' /\ fs = frames' /\ q = pos'
    BY <1>1, <2>2
  <2> QED  BY <1>1, <1>2, <2>1, <2>3, <2>4, JudgedStep
<1>3. CASE phase # "generate"
  <2>1. phase' \in {"run", "done", "rejected"} => (phase' = "rejected" <=> Wrong)
    BY <1>1 DEF Judged, Verdict
  <2>2. Verdict'
    BY <1>1, <2>1, VerdictStep
  <2>3. phase' \in {"run", "done"} => (\A p \in 1 .. Len(text) : RetMatches(p))'
    BY <1>1 DEF Judged, RetMatches, Kind
  <2>4. phase' \in {"parse", "analyse"} => blocks' = << <<>> >> /\ insert' = 1 /\ ~hasErrors'
    BY <1>1 DEF Judged
  <2> QED  BY <1>1, <1>3, <2>2, <2>3, <2>4 DEF Judged
<1> QED  BY <1>2, <1>3

LEMMA StepJudged == Inv /\ Follow /\ Judged /\ [Next]_vars => Judged'
<1>1. SUFFICES ASSUME Inv, Follow, Judged, [Next]_vars
               PROVE  Judged'
  OBVIOUS
<1>2. CASE Generate
  BY <1>1, <1>2, ExprJudged, RetJudged, BrkJudged, BlockJudged, IfJudged, OrJudged, EndOfThenJudged,
     EndOfIfJudged, ForJudged, EndOfForJudged, EndOfBlockJudged, FunJudged DEF Generate
<1> QED
  BY <1>1, <1>2, StartJudged, RunJudged, StutterJudged DEF Next, Finished

\* A wrong body is rejected, whatever its length and nesting, and a body whose paths
\* all return is rejected for nothing else: codegen.c reports each brk or cnt outside a
\* loop and each condition without a truth value, and LLVMVerifyModule turns down what
\* is emitted for dead code, and no other.
THEOREM VerdictFollowsBodyCorrect == Spec => []VerdictFollowsBody
<1>1. Init => Follow
  BY DEF Init, Follow
<1>2. Init => Judged
  BY DEF Init, Judged, Verdict
<1>3. Judged => VerdictFollowsBody
  BY DEF Judged, Verdict, VerdictFollowsBody
<1> QED  BY <1>1, <1>2, <1>3, InvHolds, StepFollows, StepJudged, PTL DEF Spec
================================================================================
