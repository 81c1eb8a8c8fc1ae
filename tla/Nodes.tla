-------------------------------- MODULE Nodes --------------------------------
(***************************************************************************)
(* The virtual functions of the nodes of a description                     *)
(* (dfsm/dfsm-ast-node.h, dfsm/dfsm-ast-expression.h), through which       *)
(* objects, transitions and statements call the expressions they are made  *)
(* of, and expressions the ones inside them.  Here they are parameters;    *)
(* Expressions has the implementations, each of which calls the parameters *)
(* for the parts of an expression, and a configuration gives one the other *)
(* as its value, which makes them recursive.                               *)
(*                                                                         *)
(* What checks have in common is here too: the names that are valid, and   *)
(* verdicts, which are "ok", "refused" or, if an assertion fails,          *)
(* "aborted".                                                              *)
(***************************************************************************)
EXTENDS Naturals, Sequences, FiniteSetsExt

CONSTANTS
    ValidNames,       \* dfsm_is_variable_name () and its likes
    ObjectPaths       \* g_variant_is_object_path ()

CONSTANTS
    PreCheck(_),             \* pre_check_and_register ()
    Check(_, _),             \* check (), given the types of variables
    CalculateType(_, _),     \* calculate_type ()
    Evaluate(_, _),          \* evaluate (): the set of its outcomes
    ToVariant(_, _),         \* to_variant () of a data structure: Null is one of them
    IsVariable(_),           \* dfsm_ast_data_structure_is_variable ()
    SetFromVariant(_, _, _)  \* set_from_variant (): the outcomes of an assignment

\* The verdict on things checked one after the other.
FirstFault(verdicts) ==
    LET faults == {k \in DOMAIN verdicts : verdicts[k] # "ok"}
    IN  IF faults = {} THEN "ok" ELSE verdicts[Min(faults)]

Holds(condition) == IF condition THEN "ok" ELSE "refused"
=============================================================================
