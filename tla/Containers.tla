----------------------------- MODULE Containers -----------------------------
(***************************************************************************)
(* What the functions of the simulation language do to arrays and          *)
(* dictionaries (dfsm/dfsm-environment.c).  Both are sequences of          *)
(* children, and keys of a dictionary are not necessarily unique.          *)
(***************************************************************************)
EXTENDS Variants, FiniteSets

Smaller(m, n) == IF m < n THEN m ELSE n
Key(entry)   == Child(entry, 1)
KeysOf(dict) == [k \in DOMAIN Payload(dict) |-> Key(Child(dict, k))]
Places(dict, key) == {k \in DOMAIN Payload(dict) : KeysOf(dict)[k] = key}

\* The iterator over the dictionary outlives the reference to it, so that
\* its entries are read after they are freed unless a variable holds them.
_keys_evaluate(p, type, held) ==
    {Variant(type, KeysOf(p))}
      \cup (IF held \/ Payload(p) = <<>> THEN {} ELSE {Aborts("dictionary freed")})

\* The parameters are evaluated again for each key.
_pair_keys_evaluate(p, type, ps) ==
    LET Pair(key) == Then(ps, LAMBDA again :
                            {EntryOf(type[2], key, Child(again, 2))})
        keys == Payload(Child(p, 1))
    IN  Then(InTurn([k \in DOMAIN keys |-> Pair(keys[k])]),
             LAMBDA entries : {Variant(type, Payload(entries))})

_in_array_evaluate(needle, haystack) ==
    {Boolean(\E k \in DOMAIN Payload(haystack) : Child(haystack, k) = needle)}

_array_get_evaluate(array, index, default) ==
    {IF Payload(index) >= Len(Payload(array)) THEN default
     ELSE Child(array, Payload(index) + 1)}

\* Mutant: one place too far.
InsertAfter(array, index, v) ==
    Variant(TypeOfValue(array),
            InsertAt(Payload(array),
                     Smaller(Payload(index) + 1, Len(Payload(array))) + 1, v))

_array_insert_evaluate(array, index, v) ==
    Variant(TypeOfValue(array),
            InsertAt(Payload(array),
                     Smaller(Payload(index), Len(Payload(array))) + 1, v))

\* An index past the end removes the last element.
_array_remove_evaluate(array, index) ==
    LET n == Len(Payload(array))
    IN  IF n = 0 THEN array
        ELSE Variant(TypeOfValue(array),
                     RemoveAt(Payload(array), Smaller(Payload(index), n - 1) + 1))

_dict_set_evaluate(dict, key, v) ==
    LET t      == TypeOfValue(dict)
        new    == EntryOf(t[2], key, v)
        places == Places(dict, key)
    IN  IF Cardinality(places) > 1 THEN Aborts("key found twice")
        ELSE Variant(t, IF places = {} THEN Append(Payload(dict), new)
                        ELSE ReplaceAt(Payload(dict), CHOOSE k \in places : TRUE, new))

\* The entries of all other keys, one after the other.
Without(entries, key) ==
    LET kept[k \in 0..Len(entries)] ==
          IF k = 0 THEN <<>>
          ELSE IF Key(entries[k]) = key THEN kept[k - 1] ELSE Append(kept[k - 1], entries[k])
    IN  kept[Len(entries)]

_dict_unset_evaluate(dict, key) == Variant(TypeOfValue(dict), Without(Payload(dict), key))

\* The first entry of the key counts.
_dict_get_evaluate(dict, key, default) ==
    LET places == Places(dict, key)
    IN  IF places = {} THEN default
        ELSE Child(Child(dict, CHOOSE k \in places : \A j \in places : k <= j), 2)

_dict_to_tuple_array_evaluate(dict, type) ==
    Variant(type, [k \in DOMAIN Payload(dict) |->
                     Variant(type[2], Payload(Child(dict, k)))])

_string_join_evaluate(separator, strings) ==
    LET n == Len(Payload(strings))
    IN  Variant(<<"s">>,
                FlattenSeq([k \in 1..(IF n = 0 THEN 0 ELSE 2 * n - 1) |->
                              IF k % 2 = 0 THEN Payload(separator)
                              ELSE Payload(Child(strings, (k + 1) \div 2))]))
-----------------------------------------------------------------------------
(* How these functions undo and find one another's changes, at the first   *)
(* place, at the last and past the end.                                    *)

\* An element inserted at index n is found there, and removing it gives back
\* the array; there is only the default past the end.
InsertionLaws(a, n, x, default) ==
    LET index  == Variant(<<"u">>, n)
        place  == Variant(<<"u">>, Smaller(n, Len(Payload(a))))
        longer == _array_insert_evaluate(a, index, x)
    IN  /\ _array_get_evaluate(longer, place, default) = {x}
        /\ _array_remove_evaluate(longer, place) = a
        /\ n >= Len(Payload(a)) => _array_get_evaluate(a, index, default) = {default}
        /\ _in_array_evaluate(x, longer) = {Boolean(TRUE)}

\* Inserting the element that was removed gives back the array: the element at
\* index n, or the last one if n is past the end.
RemovalLaw(a, n) ==
    LET place   == Smaller(n, Len(Payload(a)) - 1)
        shorter == _array_remove_evaluate(a, Variant(<<"u">>, n))
    IN  IF Payload(a) = <<>> THEN shorter = a
        ELSE /\ Len(Payload(shorter)) = Len(Payload(a)) - 1
             /\ _array_insert_evaluate(shorter, Variant(<<"u">>, place), Child(a, place + 1)) = a

ArrayLaws(a, n, x, default) == InsertionLaws(a, n, x, default) /\ RemovalLaw(a, n)

\* What is set is found, what is unset is not, and other keys keep their values.
DictLaws(d, key, other, x, default) ==
    LET set   == _dict_set_evaluate(d, key, x)
        unset == _dict_unset_evaluate(d, key)
    IN  /\ ~IsAbort(set) =>
             /\ _dict_get_evaluate(set, key, default) = x
             /\ other # key =>
                  _dict_get_evaluate(set, other, default) = _dict_get_evaluate(d, other, default)
             /\ _dict_unset_evaluate(set, key) = unset
        /\ _dict_get_evaluate(unset, key, default) = default
        /\ other # key =>
             _dict_get_evaluate(unset, other, default) = _dict_get_evaluate(d, other, default)
=============================================================================
