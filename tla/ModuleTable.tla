----------------------------- MODULE ModuleTable -----------------------------
(* The table of loaded modules (src/src/module.c): a hash table with chains. *)
(* module_manager_load_module_internal adds a module at the front of its     *)
(* chain, after it has doubled the table when that is three quarters full;   *)
(* module_manager_resize moves one module after the other to its new chain.  *)
(* Nothing looks into the table while it is resized.                         *)
EXTENDS Naturals, Sequences, FiniteSets

CONSTANTS
    Names,            \* canonical module names
    Hash,             \* what hash_module_name makes of a name, before % capacity
    InitialCapacity,  \* 32 in module_manager_init
    None              \* no module

ASSUME HashAssumption == Hash \in [Names -> Nat]
ASSUME CapacityAssumption == InitialCapacity \in Nat \ {0}

ASSUME NoneAssumption == None \notin Names

VARIABLES
    capacity,   \* the number of chains
    modules,    \* the chains
    count,      \* the number of modules the manager thinks it has
    mode,       \* "idle", or "moving" during module_manager_resize
    old,        \* old_modules: the chains that are still to be moved
    at,         \* the one of them that comes next
    pending     \* the module whose load resizes the table

tableVars == <<capacity, modules, count, mode, old, at, pending>>
------------------------------------------------------------------------------
Chains == Seq(Names)

TableTypeOK ==
    /\ capacity \in Nat \ {0}
    /\ modules \in [0 .. capacity - 1 -> Chains]
    /\ count \in Nat
    /\ mode \in {"idle", "moving"}
    /\ mode = "idle" => old = << >> /\ at = 0 /\ pending = None
    /\ mode = "moving" =>
         /\ \E c \in 1 .. capacity : capacity = 2 * c /\ old \in [0 .. c - 1 -> Chains] /\ at \in 0 .. c
         /\ pending \in Names

TableInit ==
    /\ capacity = InitialCapacity
    /\ modules = [i \in 0 .. InitialCapacity - 1 |-> << >>]
    /\ count = 0
    /\ mode = "idle"
    /\ old = << >>
    /\ at = 0
    /\ pending = None
------------------------------------------------------------------------------
Elements(chain) == {chain[i] : i \in 1 .. Len(chain)}

\* hash_module_name, module_manager_find_canonical
Index(n) == Hash[n] % capacity
Find(n) == n \in Elements(modules[Index(n)])

\* module->next = modules[index]; modules[index] = module
AddFirst(n) == modules' = [modules EXCEPT ![Index(n)] = <<n>> \o @]

MustGrow(c) == c + 1 > (capacity * 3) \div 4

\* A module that is not in the table is loaded: into the table as it is,
Insert(n) ==
    /\ mode = "idle"
    /\ ~ Find(n)
    /\ ~ MustGrow(count)
    /\ AddFirst(n)
    /\ count' = count + 1
    /\ UNCHANGED <<capacity, mode, old, at, pending>>

\* or the table is resized first.
Grow(n) ==
    /\ mode = "idle"
    /\ ~ Find(n)
    /\ MustGrow(count)
    /\ capacity' = 2 * capacity
    /\ modules' = [i \in 0 .. 2 * capacity - 1 |-> << >>]
    /\ old' = modules
    /\ at' = 0
    /\ pending' = n
    /\ mode' = "moving"
    /\ UNCHANGED count

OldCapacity == capacity \div 2
Moving == mode = "moving" /\ at < OldCapacity

\* Slips in MoveFirst: the index is that of the old table; the module stays
\* where it was, too.
MoveFirstOldIndex ==
    /\ Moving /\ old[at] # << >>
    /\ modules' = [modules EXCEPT ![Hash[Head(old[at])] % OldCapacity] = <<Head(old[at])>> \o @]
    /\ old' = [old EXCEPT ![at] = Tail(@)]
    /\ UNCHANGED <<capacity, count, mode, at, pending>>
MoveFirstKept ==
    /\ Moving /\ old[at] # << >>
    /\ AddFirst(Head(old[at]))
    /\ UNCHANGED <<capacity, count, mode, old, at, pending>>

\* The first module of the chain goes to the front of its new one.
MoveFirst ==
    /\ Moving /\ old[at] # << >>
    /\ AddFirst(Head(old[at]))
    /\ old' = [old EXCEPT ![at] = Tail(@)]
    /\ UNCHANGED <<capacity, count, mode, at, pending>>

NextChain ==
    /\ Moving /\ old[at] = << >>
    /\ at' = at + 1
    /\ UNCHANGED <<capacity, modules, count, mode, old, pending>>

\* A slip in Grown: the last chain is not moved.
GrownEarly ==
    /\ mode = "moving" /\ at + 1 = OldCapacity
    /\ AddFirst(pending)
    /\ count' = count + 1
    /\ mode' = "idle" /\ old' = << >> /\ at' = 0 /\ pending' = None
    /\ UNCHANGED capacity

\* All are moved; the new module comes on top.
Grown ==
    /\ mode = "moving" /\ at = OldCapacity
    /\ AddFirst(pending)
    /\ count' = count + 1
    /\ mode' = "idle"
    /\ old' = << >>
    /\ at' = 0
    /\ pending' = None
    /\ UNCHANGED capacity

TableNext ==
    \/ \E n \in Names : Insert(n) \/ Grow(n)
    \/ MoveFirst \/ NextChain \/ Grown

TableSpec == TableInit /\ [][TableNext]_tableVars

------------------------------------------------------------------------------
(* Properties *)

InTable == UNION {Elements(modules[i]) : i \in 0 .. capacity - 1}
InOld == IF mode = "idle" THEN {} ELSE UNION {Elements(old[i]) : i \in 0 .. OldCapacity - 1}
Stored == InTable \cup InOld

\* The table is the set of the modules loaded: resizing, which takes the
\* chains apart, loses no module and adds none (module_manager_resize).
Set == INSTANCE ModuleSet WITH members <- Stored
ImplementsModuleSet == Set!Spec

\* Every module of the table is found where its name is looked for, with the
\* capacity of the moment, so that it is not loaded a second time.
Findable == \A n \in InTable : Find(n)

\* A module is in one place only, while the table is taken apart too: loops
\* over all modules meet it once (FOR_EACH_MODULE), and destroying the table
\* frees it once (module_manager_dnit).
OnePlace(chains) ==
    \A i, k \in DOMAIN chains :
        \A j \in 1 .. Len(chains[i]), l \in 1 .. Len(chains[k]) :
            chains[i][j] = chains[k][l] => i = k /\ j = l
OneHome ==
    /\ OnePlace(modules)
    /\ mode = "moving" =>
         /\ OnePlace(old)
         /\ InTable \cap InOld = {}
         /\ pending \notin Stored

\* The table has room: one doubling is enough, and the count is right.
LoadFactor ==
    /\ count = Cardinality(Stored)
    /\ mode = "idle" => count <= (capacity * 3) \div 4

==============================================================================
