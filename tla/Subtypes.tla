------------------------------ MODULE Subtypes ------------------------------
(***************************************************************************)
(* Subtypes of GVariant's types, from how the program uses them.  As the   *)
(* functions in Nodes, those on types inside a type are parameters, which  *)
(* a configuration gives the definitions below.                            *)
(***************************************************************************)
EXTENDS Variants

CONSTANTS
    IsSubtype(_, _),         \* g_variant_type_is_subtype_of ()
    IsDefinite(_),           \* g_variant_type_is_definite ()
    IsType(_)                \* a type that values can have

\* The types a container type is made of.
Components(t) ==
    CASE t[1] = "a" -> <<t[2]>>
      [] t[1] = "e" -> <<t[2], t[3]>>
      [] t[1] = "r" /\ t # AnyTuple -> t[2]
      [] OTHER -> <<>>

is_definite(t) ==
    /\ t \notin {AnyType, AnyBasic, AnyTuple}
    /\ \A k \in DOMAIN Components(t) : IsDefinite(Components(t)[k])

\* Two types are compared character by character, and where the supertype has a
\* wildcard it is compared with a whole type: without one, only equal types match.
is_subtype_of(t, super) ==
    \/ t = super
    \/ super = AnyType
    \/ super = AnyBasic /\ t[1] \in BasicTypes
    \/ super = AnyTuple /\ IsTuple(t)
    \/ /\ ~IsDefinite(super)
       /\ super[1] \in {"a", "e", "r"} /\ t[1] = super[1]
       /\ t # AnyTuple /\ super # AnyTuple
       /\ Len(Components(t)) = Len(Components(super))
       /\ \A k \in DOMAIN Components(t) : IsSubtype(Components(t)[k], Components(super)[k])

\* The least supertype the program takes for the elements of an array or of
\* a dictionary: the first type, or a wildcard when another does not fit it.
Supertype(ts, wildcard) ==
    IF \A k \in DOMAIN ts : IsSubtype(ts[k], ts[1]) THEN ts[1] ELSE wildcard

is_type(t) ==
    /\ IsDefinite(t)
    /\ \/ \E c \in BasicTypes \cup {"v"} : t = <<c>>
       \/ /\ DOMAIN t = 1..2 /\ t[1] \in {"a", "r"}
          /\ t \in {Array(t[2]), Tuple(t[2])}
          /\ IsTuple(t) => t[2] \in Seq(ToSet(t[2]))
          /\ \A k \in DOMAIN Components(t) : IsType(Components(t)[k])
       \/ /\ DOMAIN t = 1..3 /\ t = Entry(t[2], t[3])
          /\ IsType(t[2]) /\ IsType(t[3])
=============================================================================
