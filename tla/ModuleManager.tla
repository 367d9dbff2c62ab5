---------------------------- MODULE ModuleManager ----------------------------
(* The loading phase on the table of modules: the loader (ModuleLoader) asks *)
(* the table (ModuleTable) whether a module is loaded, follows a module the  *)
(* table has, and puts one it has read and parsed into it, after the table   *)
(* was resized when that is due.  `loaded` is what the loader has loaded.    *)
EXTENDS ModuleLoader, ModuleTable

ASSUME NamesAssumption == Names = Modules

loaderVars == <<program, loaded, stack, index, success, errors, pc>>
managerVars == <<loaderVars, tableVars>>

ManagerInit == Init /\ TableInit
------------------------------------------------------------------------------
\* The use statement that is followed next: one of the entry file, or of the
\* module on top of the stack.
Following ==
    /\ pc = "loading"
    /\ IF stack = << >> THEN index <= Len(program.entry)
       ELSE TopCall.next <= Len(Uses(TopCall.module))
NextUse == IF stack = << >> THEN program.entry[index] ELSE Uses(TopCall.module)[TopCall.next]

\* module_manager_load_module_internal has made a module of the file of m.
Parsed(m) ==
    /\ Following
    /\ m = Used(NextUse)
    /\ Len(stack) < StackLimit
    /\ ~ AlreadyLoaded(m)
    /\ Failure(m) = {}

\* enqueue_module meets a module of the table, fails, or returns.
Proceed ==
    /\ mode = "idle"
    /\ Next
    /\ loaded' = loaded
    /\ UNCHANGED tableVars

\* Loading m adds it to the table at once,
LoadInto(m) ==
    /\ Parsed(m)
    /\ Insert(m)
    /\ Next

\* or starts the resize, and adds it when that is complete.
StartResize(m) ==
    /\ Parsed(m)
    /\ Grow(m)
    /\ UNCHANGED loaderVars

Resize ==
    /\ MoveFirst \/ NextChain
    /\ UNCHANGED loaderVars

LoadResized ==
    /\ Grown
    /\ Next

ManagerNext ==
    \/ Proceed
    \/ \E m \in Modules : LoadInto(m) \/ StartResize(m)
    \/ Resize
    \/ LoadResized

\* One thread, which runs until it stops.
ManagerSpec == ManagerInit /\ [][ManagerNext]_managerVars /\ WF_managerVars(ManagerNext)
------------------------------------------------------------------------------
(* Properties *)

\* The table answers for what was loaded, however often it was resized in
\* between: no module is read a second time, and none is taken for loaded that
\* is not (module_manager_find_canonical after module_manager_resize).
TableAnswersLoader ==
    mode = "idle" => \A m \in Modules : Find(m) <=> AlreadyLoaded(m)
==============================================================================
