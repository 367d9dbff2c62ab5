---------------------------- MODULE MCCompilation ----------------------------
(* Two builds with three modules, two of which have one object file: dep.x   *)
(* and x, since module_make_object_path drops the "dep.".                    *)
EXTENDS Compilation, TLC

CONSTANTS main, x, depX, y

MCModules == {x, depX, y}
MCObjectPath == x :> "x.o" @@ depX :> "x.o" @@ y :> "y.o"
MCPaths == {"main.o", "x.o", "y.o"}
==============================================================================
