-------------------------------- MODULE Builds --------------------------------
(* What a build promises about the executable: it is replaced as a whole, by *)
(* code of this build only, and only when the build succeeds.                *)
EXTENDS Naturals

CONSTANTS
    Modules,       \* modules a program can use
    Entry,         \* the entry file
    ObjectPath     \* the object file of each module

VARIABLES
    program,       \* the modules whose code belongs to the program being built
    linking,       \* whether an executable is wanted
    number,        \* the builds so far
    exe,           \* the executable: the build it is of, and its code
    running,       \* whether a build is under way
    verdict        \* whether the last build was a success

Nothing == [build |-> 0, code |-> {}]

Stamp(m) == [module |-> m, build |-> number]

\* All the code of a program: the entry file and, for each object file, one of
\* the modules that are written to it.
Whole ==
    {{Stamp(m) : m \in {Entry} \cup chosen} : chosen \in
        {c \in SUBSET program :
            /\ \A m \in program : \E n \in c : ObjectPath[n] = ObjectPath[m]
            /\ \A m, n \in c : ObjectPath[n] = ObjectPath[m] => n = m}}

Init ==
    /\ program = {}
    /\ linking = FALSE
    /\ number = 0
    /\ exe = Nothing
    /\ running = FALSE
    /\ verdict = FALSE

Start ==
    /\ ~ running
    /\ running' = TRUE
    /\ number' = number + 1
    /\ program' \in SUBSET Modules
    /\ linking' \in BOOLEAN
    /\ verdict' = FALSE
    /\ UNCHANGED exe

Succeed ==
    /\ running
    /\ running' = FALSE
    /\ verdict' = TRUE
    /\ IF linking
       THEN \E whole \in Whole : exe' = [build |-> number, code |-> whole]
       ELSE UNCHANGED exe
    /\ UNCHANGED <<program, linking, number>>

\* A linker that fails may remove the executable it was to replace.
Fail ==
    /\ running
    /\ running' = FALSE
    /\ verdict' = FALSE
    /\ exe' \in {exe, Nothing}
    /\ UNCHANGED <<program, linking, number>>

Next == Start \/ Succeed \/ Fail

Spec == Init /\ [][Next]_<<program, linking, number, exe, running, verdict>>
===============================================================================
