------------------------------ MODULE Builtins ------------------------------
(***************************************************************************)
(* The functions of the simulation language (dfsm/dfsm-environment.c): for *)
(* each of the twelve, the type of its result for parameters of type t,    *)
(* and a call of it.  A function is handed its parameters unevaluated;     *)
(* here ps is the set of outcomes of evaluating them, from which each      *)
(* evaluation takes one.                                                   *)
(***************************************************************************)
EXTENDS Subtypes, Containers

FunctionNames ==
    {"keys", "pairKeys", "inArray", "arrayGet", "arrayInsert", "arrayRemove",
     "dictSet", "dictUnset", "dictGet", "dictToTupleArray", "structHead",
     "stringJoin"}

AnyDict == Dict(AnyBasic, AnyType)

\* What the parameters have to be: a tuple, except for keys.
ParametersSupertype ==
    [keys             |-> AnyDict,
     pairKeys         |-> Tuple(<<Array(AnyBasic), AnyType>>),
     inArray          |-> Tuple(<<AnyType, Array(AnyType)>>),
     arrayGet         |-> Tuple(<<Array(AnyType), <<"u">>, AnyType>>),
     arrayInsert      |-> Tuple(<<Array(AnyType), <<"u">>, AnyType>>),
     arrayRemove      |-> Tuple(<<Array(AnyType), <<"u">>>>),
     dictSet          |-> Tuple(<<AnyDict, AnyBasic, AnyType>>),
     dictUnset        |-> Tuple(<<AnyDict, AnyBasic>>),
     dictGet          |-> Tuple(<<AnyDict, AnyBasic, AnyType>>),
     dictToTupleArray |-> Tuple(<<AnyDict>>),
     structHead       |-> Tuple(<<AnyTuple>>),
     stringJoin       |-> Tuple(<<<<"s">>, Array(<<"s">>)>>)]

-----------------------------------------------------------------------------
(* Types of results: NoType if the parameters do not fit.                  *)

If(fits, t) == IF fits THEN t ELSE NoType

_keys_calculate_type(t) == Array(t[2][2])

_pair_keys_calculate_type(t) == Dict(t[2][1][2], t[2][2])

_in_array_calculate_type(t) == If(IsSubtype(t[2][1], t[2][2][2]), <<"b">>)

\* Mutant: the default may be of any type.
ArrayGetUnchecked(t) == t[2][3]

_array_get_calculate_type(t) == If(IsSubtype(t[2][3], t[2][1][2]), t[2][3])

_array_insert_calculate_type(t) == If(IsSubtype(t[2][3], t[2][1][2]), t[2][1])

_array_remove_calculate_type(t) == t[2][1]

\* The key, and the value if there is one, have to be the dictionary's.
FitsDict(t) ==
    LET entry == t[2][1][2]
    IN  \A k \in 2..Len(t[2]) : IsSubtype(t[2][k], entry[k])

_dict_set_calculate_type(t)   == If(FitsDict(t), t[2][1])
_dict_unset_calculate_type(t) == If(FitsDict(t), t[2][1])
_dict_get_calculate_type(t)   == If(FitsDict(t), t[2][3])

_dict_to_tuple_array_calculate_type(t) ==
    LET entry == t[2][1][2] IN Array(Tuple(<<entry[2], entry[3]>>))

\* The unit tuple has no head: neither a type nor an error is returned, on
\* which the caller asserts.
_struct_head_calculate_type(t) ==
    IF t[2][1] = Unit THEN Broken ELSE t[2][1][2][1]

_string_join_calculate_type(t) == <<"s">>

function_calculate_type(f, t) ==
    IF ~IsSubtype(t, ParametersSupertype[f]) THEN NoType
    ELSE CASE f = "keys"             -> _keys_calculate_type(t)
           [] f = "pairKeys"         -> _pair_keys_calculate_type(t)
           [] f = "inArray"          -> _in_array_calculate_type(t)
           [] f = "arrayGet"         -> _array_get_calculate_type(t)
           [] f = "arrayInsert"      -> _array_insert_calculate_type(t)
           [] f = "arrayRemove"      -> _array_remove_calculate_type(t)
           [] f = "dictSet"          -> _dict_set_calculate_type(t)
           [] f = "dictUnset"        -> _dict_unset_calculate_type(t)
           [] f = "dictGet"          -> _dict_get_calculate_type(t)
           [] f = "dictToTupleArray" -> _dict_to_tuple_array_calculate_type(t)
           [] f = "structHead"       -> _struct_head_calculate_type(t)
           [] f = "stringJoin"       -> _string_join_calculate_type(t)
-----------------------------------------------------------------------------
\* What a call returns for the parameters p, which were evaluated to one of ps.
Returned(f, p, type, ps, held) ==
    CASE f = "keys"        -> _keys_evaluate(p, type, held)
      [] f = "pairKeys"    -> _pair_keys_evaluate(p, type, ps)
      [] f = "inArray"     -> _in_array_evaluate(Child(p, 1), Child(p, 2))
      [] f = "arrayGet"    -> _array_get_evaluate(Child(p, 1), Child(p, 2), Child(p, 3))
      [] f = "arrayInsert" -> {_array_insert_evaluate(Child(p, 1), Child(p, 2), Child(p, 3))}
      [] f = "arrayRemove" -> {_array_remove_evaluate(Child(p, 1), Child(p, 2))}
      [] f = "dictSet"     -> {_dict_set_evaluate(Child(p, 1), Child(p, 2), Child(p, 3))}
      [] f = "dictUnset"   -> {_dict_unset_evaluate(Child(p, 1), Child(p, 2))}
      [] f = "dictGet"     -> {_dict_get_evaluate(Child(p, 1), Child(p, 2), Child(p, 3))}
      [] f = "dictToTupleArray" -> {_dict_to_tuple_array_evaluate(Child(p, 1), type)}
      [] f = "structHead"  -> {Child(Child(p, 1), 1)}
      [] f = "stringJoin"  -> {_string_join_evaluate(Child(p, 1), Child(p, 2))}

\* A call with parameters whose outcomes are ps and whose type is t.
function_evaluate(f, t, ps, held) ==
    LET type == function_calculate_type(f, t)
    IN  Then(ps, LAMBDA p : Returned(f, p, type, ps, held))
=============================================================================
