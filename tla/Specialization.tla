--------------------------- MODULE Specialization ----------------------------
(* How the compiler specializes generics (src/src/semantic.c): a use of a    *)
(* generic type or a call of a generic function makes an instance at once,   *)
(* recursively, unless the specialization cache has it; in the end code is   *)
(* generated for the instances in the cache.                                 *)
(*                                                                           *)
(* The recursion is explicit: stack holds the instantiations under way, the  *)
(* non-generic code at the bottom, and StackLimit is the room the C stack    *)
(* has for them.  A generic has one type parameter.  A Type is known by its  *)
(* address, here its position in heap; the cache's hash sees addresses, its  *)
(* comparison sees what type_equals_strict sees.                             *)
EXTENDS Integers, SequencesExt, FiniteSetsExt

CONSTANTS
    TypeGenerics,  \* the generic structs and unions
    FunGenerics,   \* the generic functions and methods
    Root,          \* the code that is not generic
    Names,         \* type names in the source, those of type parameters included
    Declared,      \* the sequence of the names that are declared types
    Ptr,           \* the type constructor *T
    Slice,         \* []T
    FixedArrays,   \* [N]T, one for each N
    None,          \* no type constructor
    Previous,      \* the instance that the previous request gave
    Buckets,       \* buckets of the cache that addresses are hashed to
    StackLimit,    \* bound: how many instantiations fit the C stack
    Programs       \* the inputs

Generics == TypeGenerics \cup FunGenerics
Arrays == {Slice} \cup FixedArrays
Tokens == Names \cup Generics \cup Arrays \cup {Ptr}

\* What a place in the source asks for: to name a type ("name"), to use an
\* instance of a generic type ("type"), to call one of a generic function
\* ("call"), for the type base, wrapped or not.  A void call is a statement
\* whose failure analyze_expr_stmt lets pass.
Request == [what : {"name", "type", "call"}, generic : Generics,
            base : Names \cup {Previous}, wrap : Arrays \cup {Ptr, None}, void : BOOLEAN]

\* A program: the type parameter of each generic, what its fields or its
\* signature ask for, and what its body asks for, in source order.
Program == [param : [Generics -> Names],
            signature : [Generics \cup {Root} -> Seq(Request)],
            body : [Generics \cup {Root} -> Seq(Request)]]

ASSUME StackLimitAssumption == StackLimit \in Nat \ {0}
ASSUME DeclaredAssumption ==
    /\ Declared \in Seq(Names)
    /\ \A j, k \in 1 .. Len(Declared) : Declared[j] = Declared[k] => j = k
\* Types, generics and constructors are told apart.
ASSUME TokensAssumption ==
    /\ TypeGenerics \cap FunGenerics = {} /\ Names \cap Generics = {} /\ Root \notin Generics
    /\ (Arrays \cup {Ptr}) \cap (Names \cup Generics) = {}
    /\ Ptr \notin Arrays /\ None \notin Arrays \cup {Ptr} /\ Previous \notin Names
ASSUME ProgramsAssumption ==
    \A p \in Programs :
        /\ p \in Program
        /\ \A g \in TypeGenerics : p.body[g] = << >>
        /\ \A g \in Generics \cup {Root} : \A k \in 1 .. Len(p.signature[g]) :
             p.signature[g][k].what # "call"
        /\ \A g \in Generics \cup {Root} : \A list \in {p.signature[g], p.body[g]} :
             \A k \in 1 .. Len(list) :
                /\ list[k].what = "type" => list[k].generic \in TypeGenerics
                /\ list[k].what = "call" => list[k].generic \in FunGenerics
                /\ list[k].base = Previous => \E j \in 1 .. k - 1 : list[j].what = "type"

VARIABLES
    program,   \* the input being compiled
    heap,      \* the Type objects, by address
    cache,     \* the specialization cache: its entries, the newest last
    stack,     \* the instantiations under way, the innermost last
    failing,   \* the innermost call has returned NULL
    errors,    \* whether an error was diagnosed
    pc,        \* "analyzing"; "generating", "done"; "rejected"; "overflow"
    visited,   \* the entries code generation has come to
    emitted,   \* those whose function has its body in the LLVM module
    hits       \* history: the type asked for and the one given, for each hit

vars == <<program, heap, cache, stack, failing, errors, pc, visited, emitted, hits>>
------------------------------------------------------------------------------
\* A type: how it is built, outermost constructor first, the type it points
\* to, and the bucket its address is hashed to.
TypeObject == [shape : Seq(Tokens), base : Nat, bucket : Buckets \cup {0}]

Frame == [generic : Generics \cup {Root}, arg : Nat, type : Nat,
          bindings : [Names -> Nat],
          stage : {"signature", "body"}, next : Nat \ {0}, last : Nat, ok : BOOLEAN]

Entry == [generic : Generics, arg : Nat, type : Nat,
          bindings : [Names -> Nat], freed : BOOLEAN]

TypeOK ==
    /\ program \in Program
    /\ heap \in Seq(TypeObject)
    /\ cache \in Seq(Entry)
    /\ stack \in Seq(Frame)
    /\ failing \in BOOLEAN
    /\ errors \in BOOLEAN
    /\ pc \in {"analyzing", "generating", "done", "rejected", "overflow"}
    /\ visited \subseteq 1 .. Len(cache)
    /\ emitted \subseteq visited
    /\ hits \subseteq Seq(Tokens) \X Seq(Tokens)

\* Names to the types bound to them, 0 for none.
NoBindings == [n \in Names |-> 0]

FrameOf(g, arg, type, bindings) ==
    [generic |-> g, arg |-> arg, type |-> type, bindings |-> bindings,
     stage |-> "signature", next |-> 1, last |-> 0, ok |-> TRUE]

Init ==
    /\ program \in Programs
    /\ heap = [k \in 1 .. Len(Declared) |-> [shape |-> <<Declared[k]>>, base |-> 0, bucket |-> 0]]
    /\ cache = << >>
    /\ stack = <<FrameOf(Root, 0, 0, NoBindings)>>
    /\ failing = FALSE
    /\ errors = FALSE
    /\ pc = "analyzing"
    /\ visited = {}
    /\ emitted = {}
    /\ hits = {}
------------------------------------------------------------------------------
(* Types and the cache *)

Top == stack[Len(stack)]
List(frame) == program[frame.stage][frame.generic]
NextRequest == List(Top)[Top.next]

\* resolve_type_in_context looks a name up among the type parameters bound in
\* the context, those of the instantiations around it included, and then
\* among the declared types.
Bound(n) == n \in Names /\ Top.bindings[n] # 0
Known(n) == IF n = Previous THEN Top.last # 0 ELSE Bound(n) \/ n \in ToSet(Declared)
TypeNamed(n) ==
    IF n = Previous THEN Top.last
    ELSE IF Bound(n) THEN Top.bindings[n]
    ELSE CHOOSE k \in 1 .. Len(Declared) : Declared[k] = n

NewType(h, shape, base) ==
    {Append(h, [shape |-> shape, base |-> base, bucket |-> b]) : b \in Buckets}

\* A slip in PointersTo: the pointers made before are not remembered.
PointersToForgotten(t) == {k \in 1 .. Len(heap) : heap[k].base = t /\ k = t}

\* type_pointer_create finds the pointer to a type it has made before;
\* type_array_create and type_fixed_array_create always make a new type.
PointersTo(t) == {k \in 1 .. Len(heap) : heap[k].base = t /\ heap[k].shape[1] = Ptr}
Wrapped(wrap, t) ==
    IF wrap = None THEN {<<heap, t>>}
    ELSE IF wrap = Ptr /\ PointersTo(t) # {} THEN {<<heap, k>> : k \in PointersTo(t)}
    ELSE {<<h, Len(h)>> : h \in NewType(heap, <<wrap>> \o heap[t].shape, t)}

\* type_to_mangled_string, and what type_equals_strict compares: the kind of
\* an array and not its length.
Mangled(shape) == [k \in 1 .. Len(shape) |-> IF shape[k] \in Arrays THEN Slice ELSE shape[k]]

\* A slip in SameKey: any two types with the hash are taken for one.
SameKeyByHash(h, t, u) == h[t].bucket = h[u].bucket

SameKey(h, t, u) ==
    h[t].bucket = h[u].bucket /\ Mangled(h[t].shape) = Mangled(h[u].shape)

\* specialization_cache_find: the newest entry of the bucket with an equal key.
Found(h, g, t) == {k \in 1 .. Len(cache) : cache[k].generic = g /\ SameKey(h, cache[k].arg, t)}

Answered(frame, type) == [frame EXCEPT !.next = @ + 1, !.last = IF type = 0 THEN @ ELSE type]
WithTop(frame) == [stack EXCEPT ![Len(stack)] = frame]
------------------------------------------------------------------------------
(* Analysis *)

Analyzing == pc = "analyzing" /\ ~ failing
HasRequest == Analyzing /\ Top.next <= Len(List(Top))

\* A name that means no type: an error, and NULL for the place that uses it,
\* as for the place that uses an instance that could not be made.
UnknownType ==
    /\ HasRequest
    /\ ~ Known(NextRequest.base)
    /\ errors' = TRUE
    /\ failing' = TRUE
    /\ UNCHANGED <<program, heap, cache, stack, pc, visited, emitted, hits>>

\* A type is resolved and nothing else.
NameType ==
    /\ HasRequest
    /\ NextRequest.what = "name" /\ Known(NextRequest.base)
    /\ \E r \in Wrapped(NextRequest.wrap, TypeNamed(NextRequest.base)) : heap' = r[1]
    /\ stack' = WithTop(Answered(Top, 0))
    /\ UNCHANGED <<program, cache, failing, errors, pc, visited, emitted, hits>>

\* The cache has the instance.
CacheHit ==
    /\ HasRequest
    /\ NextRequest.what # "name" /\ Known(NextRequest.base)
    /\ \E r \in Wrapped(NextRequest.wrap, TypeNamed(NextRequest.base)) :
         LET found == Found(r[1], NextRequest.generic, r[2])
             entry == cache[Max(found)]
         IN  /\ found # {}
             /\ heap' = r[1]
             /\ stack' = WithTop(Answered(Top, entry.type))
             /\ hits' = hits \cup {<<r[1][r[2]].shape, r[1][entry.arg].shape>>}
    /\ UNCHANGED <<program, cache, failing, errors, pc, visited, emitted>>

\* The type parameter of the generic is bound on top of what is bound already.
Bind(g, t) == [Top.bindings EXCEPT ![program.param[g]] = t]

\* It has not: instantiate_generic_struct, _union and _function begin.  The
\* type of a struct or union instance is made before its fields are resolved.
Instantiate ==
    /\ HasRequest
    /\ NextRequest.what # "name" /\ Known(NextRequest.base)
    /\ \E r \in Wrapped(NextRequest.wrap, TypeNamed(NextRequest.base)) :
         LET g == NextRequest.generic
         IN  /\ Found(r[1], g, r[2]) = {}
             /\ \/ /\ Len(stack) = StackLimit
                   /\ pc' = "overflow"
                   /\ heap' = r[1]
                   /\ UNCHANGED stack
                \/ /\ Len(stack) < StackLimit
                   /\ g \in FunGenerics
                   /\ heap' = r[1]
                   /\ stack' = Append(stack, FrameOf(g, r[2], 0, Bind(g, r[2])))
                   /\ UNCHANGED pc
                \/ /\ Len(stack) < StackLimit
                   /\ g \in TypeGenerics
                   /\ heap' \in NewType(r[1], <<g>> \o r[1][r[2]].shape, 0)
                   /\ stack' = Append(stack, FrameOf(g, r[2], Len(heap'), Bind(g, r[2])))
                   /\ UNCHANGED pc
    /\ UNCHANGED <<program, cache, failing, errors, visited, emitted, hits>>

EntryOf(frame) == [generic |-> frame.generic, arg |-> frame.arg, type |-> frame.type,
                   bindings |-> frame.bindings, freed |-> FALSE]

SignatureDone == Analyzing /\ Top.stage = "signature" /\ Top.next > Len(List(Top))
BodyStage(frame) == [frame EXCEPT !.stage = "body", !.next = 1, !.last = 0]

\* The innermost instantiation is over; the one around it goes on.
Caller == stack[Len(stack) - 1]
Return(type) ==
    stack' = [k \in 1 .. Len(stack) - 1 |->
                 IF k = Len(stack) - 1 THEN Answered(Caller, type) ELSE stack[k]]

\* The fields are resolved: the type goes into the cache.
FinishType ==
    /\ SignatureDone /\ Top.generic \in TypeGenerics
    /\ cache' = Append(cache, EntryOf(Top))
    /\ Return(Top.type)
    /\ UNCHANGED <<program, heap, failing, errors, pc, visited, emitted, hits>>

\* A slip in FinishSignature: the cache learns of a function too late.
FinishSignatureUncached ==
    /\ SignatureDone /\ Top.generic \in FunGenerics
    /\ stack' = WithTop(BodyStage(Top))
    /\ UNCHANGED <<program, heap, cache, failing, errors, pc, visited, emitted, hits>>

\* The parameters are resolved: the function goes into the cache before its
\* body is analyzed.
FinishSignature ==
    /\ SignatureDone /\ Top.generic \in FunGenerics
    /\ cache' = Append(cache, EntryOf(Top))
    /\ stack' = WithTop(BodyStage(Top))
    /\ UNCHANGED <<program, heap, failing, errors, pc, visited, emitted, hits>>

\* Pass B is over; pass C follows only when it succeeded.
EndPassB ==
    /\ SignatureDone /\ Top.generic = Root
    /\ stack' = WithTop(BodyStage(Top))
    /\ pc' = IF Top.ok THEN pc ELSE "rejected"
    /\ UNCHANGED <<program, heap, cache, failing, errors, visited, emitted, hits>>

BodyDone == Analyzing /\ Top.stage = "body" /\ Top.next > Len(List(Top))

\* A function's body is analyzed.  When that failed, the copy of the AST is
\* freed, and the cache still has the instance that points to it.
FinishBody ==
    /\ BodyDone /\ Top.generic # Root
    /\ \/ /\ Top.ok
          /\ Return(0)
          /\ UNCHANGED <<cache, failing>>
       \/ /\ ~ Top.ok
          /\ cache' = [k \in 1 .. Len(cache) |->
                         [cache[k] EXCEPT !.freed = @ \/ (/\ cache[k].generic = Top.generic
                                                         /\ cache[k].arg = Top.arg)]]
          /\ stack' = Front(stack)
          /\ failing' = TRUE
    /\ UNCHANGED <<program, heap, errors, pc, visited, emitted, hits>>

\* A slip in EndPassC: only the value the pass returns is looked at.
EndPassCIgnoringErrors ==
    /\ BodyDone /\ Top.generic = Root
    /\ pc' = IF Top.ok THEN "generating" ELSE "rejected"
    /\ UNCHANGED <<program, heap, cache, stack, failing, errors, visited, emitted, hits>>

\* Pass C is over: an error diagnosed on the way rejects the program.
EndPassC ==
    /\ BodyDone /\ Top.generic = Root
    /\ pc' = IF Top.ok /\ ~ errors THEN "generating" ELSE "rejected"
    /\ UNCHANGED <<program, heap, cache, stack, failing, errors, visited, emitted, hits>>

\* NULL in the fields or the signature of an instance gives up the instance;
\* the loops over statements go on, and so does a failed void call.
Propagate ==
    /\ pc = "analyzing" /\ failing
    /\ \/ /\ Top.generic # Root /\ Top.stage = "signature"
          /\ stack' = Front(stack)
          /\ UNCHANGED failing
       \/ /\ Top.generic = Root \/ Top.stage = "body"
          /\ failing' = FALSE
          /\ stack' = WithTop([Answered(Top, 0) EXCEPT
                                  !.ok = @ /\ NextRequest.void /\ NextRequest.what = "call",
                                  !.last = IF NextRequest.what = "type" THEN 0 ELSE @])
    /\ UNCHANGED <<program, heap, cache, errors, pc, visited, emitted, hits>>
------------------------------------------------------------------------------
(* Code generation *)

Functions == {k \in 1 .. Len(cache) : cache[k].generic \in FunGenerics}
LinkName(k) == <<cache[k].generic>> \o Mangled(heap[cache[k].arg].shape)

\* A slip in GenerateFunction: a body for each entry.
GenerateFunctionAgain ==
    /\ pc = "generating"
    /\ \E k \in Functions \ visited : visited' = visited \cup {k} /\ emitted' = emitted \cup {k}
    /\ UNCHANGED <<program, heap, cache, stack, failing, errors, pc, hits>>

\* codegen_generate_specialized_function for one more entry, in no order the
\* source tells: a name that has its body already is left alone.
GenerateFunction ==
    /\ pc = "generating"
    /\ \E k \in Functions \ visited :
         /\ visited' = visited \cup {k}
         /\ emitted' = IF \E j \in emitted : LinkName(j) = LinkName(k) THEN emitted
                       ELSE emitted \cup {k}
    /\ UNCHANGED <<program, heap, cache, stack, failing, errors, pc, hits>>

EndCodegen ==
    /\ pc = "generating" /\ Functions \subseteq visited
    /\ pc' = "done"
    /\ UNCHANGED <<program, heap, cache, stack, failing, errors, visited, emitted, hits>>

Next ==
    \/ UnknownType \/ NameType \/ CacheHit \/ Instantiate
    \/ FinishType \/ FinishSignature \/ EndPassB \/ FinishBody \/ EndPassC \/ Propagate
    \/ GenerateFunction \/ EndCodegen

Spec == Init /\ [][Next]_vars

\* The compiler is one thread that runs until it stops.
FairSpec == Spec /\ WF_vars(Next)
------------------------------------------------------------------------------
(* Properties *)

Accepted == pc \in {"generating", "done"}

\* What the names in the source mean where bindings are in force.
Meaning(bindings) ==
    [n \in Names |-> IF bindings[n] # 0 THEN heap[bindings[n]].shape ELSE <<n>>]

\* The type each request of a list asks an instance for.
LastType(list, k) == Max({j \in 1 .. k - 1 : list[j].what = "type"})
Asked(list, meaning) ==
    LET shape[k \in 1 .. Len(list)] ==
            (IF list[k].wrap = None THEN << >> ELSE <<list[k].wrap>>)
                \o (IF list[k].base = Previous
                    THEN <<list[LastType(list, k)].generic>> \o shape[LastType(list, k)]
                    ELSE meaning[list[k].base])
    IN  shape

Cached(g, shape) ==
    \E k \in 1 .. Len(cache) : cache[k].generic = g /\ Mangled(heap[cache[k].arg].shape) = Mangled(shape)

Answers(list, bindings) ==
    \A k \in 1 .. Len(list) :
        list[k].what = "name" \/ Cached(list[k].generic, Asked(list, Meaning(bindings))[k])

\* When a program is accepted, every instance that its code asks for, directly
\* or from within an instance, was made: code generation never looks one up in
\* vain (semantic_driver_analyze, codegen_generate).
CacheClosed ==
    Accepted =>
        /\ Answers(program.signature[Root], NoBindings) /\ Answers(program.body[Root], NoBindings)
        /\ \A k \in 1 .. Len(cache) :
             /\ Answers(program.signature[cache[k].generic], cache[k].bindings)
             /\ Answers(program.body[cache[k].generic], cache[k].bindings)

\* Unless its argument has an array in it, an instance is made once: the types
\* it is known by are the same objects wherever they are written
\* (specialization_cache_find, type_pointer_create).
SpecialisedOnce ==
    \A j, k \in 1 .. Len(cache) :
        /\ cache[j].generic = cache[k].generic
        /\ heap[cache[j].arg].shape = heap[cache[k].arg].shape
        /\ ToSet(heap[cache[k].arg].shape) \cap Arrays = {}
        => j = k

\* Code is never generated from a copy of the AST that was freed because its
\* body did not analyze, although the cache still has it
\* (instantiate_generic_function, semantic_driver_analyze).
FreedNeverGenerated == Accepted => \A k \in 1 .. Len(cache) : ~ cache[k].freed

\* Every function in the cache ends with one body under its name in the LLVM
\* module, however often the cache has it
\* (codegen_generate_specialized_function).
OneBodyPerName ==
    pc = "done" =>
        \A k \in Functions : \E j \in emitted :
            \A i \in emitted : LinkName(i) = LinkName(k) <=> i = j

\* A program is regular when no generic asks for anything but its own
\* parameter as it is, and no generic type asks for another.
Regular ==
    \A g \in Generics :
        /\ \A list \in {program.signature[g], program.body[g]} : \A k \in 1 .. Len(list) :
             list[k].what # "name" => list[k].wrap = None /\ list[k].base = program.param[g]
        /\ \A k \in 1 .. Len(program.signature[g]) :
             program.signature[g][k].what = "name" \/ g \in FunGenerics

\* Recursive as its functions may be, a regular program is specialized with
\* the stack the code has, to the end: a call of an instance under way finds
\* it in the cache (instantiate_generic_function).
RegularEnds == Regular ~> pc \in {"done", "rejected"}

\* semantic.h:86 has the key identify the tuple of type arguments: an answer
\* from the cache is an instance for the type asked for.
KeyIdentifiesArguments == \A h \in hits : h[1] = h[2]
==============================================================================
