----------------------------- MODULE MCAstObject -----------------------------
(***************************************************************************)
(* Descriptions to load and to run: an object with properties, signals and *)
(* methods; objects for arrays, dictionaries, values of odd types and      *)
(* fuzzing; and objects with one fault each, for every check that refuses  *)
(* one and for those that should but fail an assertion.                    *)
(***************************************************************************)
EXTENDS Language

(***************************************************************************)
(* The virtual functions are their implementations, which makes them       *)
(* recursive.  TLC's statistics follow a definition given to a parameter   *)
(* into whatever it calls, for ever, unless a LET comes in between.        *)
(***************************************************************************)
PreCheckOf(e)               == LET sane == pre_check(e) IN sane
CheckOf(e, all)             == LET verdict == check(e, all) IN verdict
CalculateTypeOf(e, all)     == LET type == calculate_type(e, all) IN type
EvaluateOf(e, env)          == LET outcomes == evaluate(e, env) IN outcomes
ToVariantOf(d, env)         == LET outcomes == class_evaluate(<<"data", d>>, env) IN outcomes
IsVariableOf(e)             == LET may == is_variable(e) IN may
SetFromVariantOf(d, env, v) == LET outcomes == set_from_variant(d, env, v) IN outcomes
IsSubtypeOf(t, super)       == LET is == is_subtype_of(t, super) IN is
IsDefiniteOf(t)             == LET is == is_definite(t) IN is
IsTypeOf(t)                 == LET is == is_type(t) IN is
IsParsedOf(n, e)            == LET is == is_parsed(n, e) IN is
LeavesIn(e)                 == LET names == leaves(e) IN names
IsValueOf(v)                == LET is == is_value(v) IN is
IsBuiltOf(d)                == LET is == is_built(d) IN is
PlacesFitIn(e, all)         == LET fit == places_fit(e, all) IN fit

\* Integers of 4 bits or fewer.
MCGreatestValue ==
    [y |-> 7, q |-> 7, u |-> 7, t |-> 15, n |-> 3, i |-> 3, x |-> 7]

MCFuzzedValues ==
    [y |-> {7}, q |-> {0}, u |-> {0, 7}, t |-> {15}, n |-> {-4}, i |-> {3}, x |-> {7},
     b |-> BOOLEAN, d |-> {<<"0.25">>}, s |-> {<<"z">>}, o |-> {<<"/">>}, g |-> {<<"u">>}]

MCValidNames ==
    {"n", "m", "p", "x", "y", "value", "list", "more", "dict", "key", "text", "any", "Level", "Tag", "Main", "Idle",
     "Echo", "Sum", "Find", "Lost", "Changed", "Failed", "org.A", "org.B", "org.Unknown", "com.Bus"}

MCObjectPaths == {<<"/">>, <<"/", "obj">>}
MCTypeStrings == {<<"u">>, <<"i">>, <<"*">>}
MCSignatures  == {<<"u">>, <<"i">>, <<>>, <<"u", "i">>}

Int32 == <<"i">>
Str == <<"s">>
Ints == Array(Int32)
Counts == Dict(Str, Int32)

MCIntrospection ==
    [i \in {"org.A", "org.B"} |->
       IF i = "org.A"
       THEN [methods |-> "Echo" :> [in |-> <<<<"x", Int32>>>>, out |-> Tuple(<<Int32>>)]
                         @@ "Sum" :> [in |-> <<>>, out |-> Tuple(<<Ints, Int32>>)]
                         @@ "Find" :> [in |-> <<<<"key", Str>>>>, out |-> Tuple(<<Int32>>)],
             signals |-> "Changed" :> Tuple(<<Int32>>),
             properties |-> Empty]
       ELSE [methods |-> Empty, signals |-> "Changed" :> Tuple(<<Str>>),
             properties |-> "Level" :> <<"u">>]]

MCArguments ==
    Int32 :> {Variant(Int32, -4), Variant(Int32, 2)} @@ Str :> {Variant(Str, <<"a">>), Variant(Str, <<"b">>)}
      @@ <<"u">> :> {Variant(<<"u">>, 7)}
-----------------------------------------------------------------------------
(* Shorthands.                                                             *)

D(kind, val) == [kind |-> kind, val |-> val, annotation |-> NoAnnotation, weighted |-> FALSE]
E(kind, val) == <<"data", D(kind, val)>>
I(n)         == E("i", n)
S(s)         == E("s", s)
U(n)         == <<"data", [D("i", n) EXCEPT !.annotation = <<"u">>]>>
Obj(name)    == E("variable", <<"object", name>>)
Arg(name)    == E("variable", <<"local", name>>)
T(es)        == E("r", es)
Fuzzy(e)     == <<"data", [e[2] EXCEPT !.weighted = TRUE]>>
As(t, e)     == <<"data", [e[2] EXCEPT !.annotation = t]>>
Op(op, l, r) == <<"binary", op, l, r>>
Call(f, e)   == <<"call", f, e>>
Let(l, e)    == <<"assign", l[2], e>>

Unless(e, error) == [condition |-> e, error |-> error]
On(trigger, preconditions, statements) ==
    [trigger |-> trigger, preconditions |-> preconditions, statements |-> statements,
     pairs |-> <<<<"Main", "Idle">>, <<"Idle", "Idle">>>>]

Random(statements) == On(<<"random">>, <<>>, statements)

Declare(name, e) == <<name, e[2]>>

Object(data, transitions) ==
    [path |-> <<"/", "obj">>, busNames |-> <<"com.Bus">>, interfaces |-> <<"org.A">>,
     data |-> data, states |-> <<<<"Main", "Idle">>>>, transitions |-> transitions]
-----------------------------------------------------------------------------
Echo == <<"method", "Echo">>

\* Arithmetic, a swap, a property, a precondition that throws.
Counter ==
    [Object(<<<<Declare("n", I(1)), Declare("m", Fuzzy(I(2))), Declare("m", I(0))>>,
              <<Declare("Level", U(1))>>>>,
            <<On(Echo, <<Unless(Op("<", Arg("x"), Obj("m")), "Failed")>>,
                 <<Let(T(<<Obj("n"), Obj("m")>>), T(<<Obj("m"), Op("+", Obj("n"), Arg("x"))>>)),
                   <<"emit", "Changed", T(<<Obj("n")>>)>>,
                   <<"reply", T(<<Op("/", Obj("m"), Arg("x"))>>)>>>>),
              On(Echo, <<Unless(<<"not", Op("==", Obj("n"), Fuzzy(I(1)))>>, NoError)>>,
                 <<<<"throw", "Failed">>>>),
              On(<<"property", "Level">>, <<>>,
                 <<Let(Obj("Level"), Op("%", Arg("value"), U(2)))>>),
              Random(<<Let(Obj("n"), Op("*", Obj("n"), Fuzzy(I(-2))))>>)>>)
       EXCEPT !.interfaces = <<"org.A", "org.B">>,
              !.states = <<<<"Main", "Idle">>, <<"Lost">>>>]

\* Arrays: fuzzed, annotated, assigned to, and edited.
Lists ==
    Object(<<<<Declare("list", E("a", <<I(1), Fuzzy(I(2))>>)), Declare("n", I(0)),
              Declare("m", I(0)), Declare("more", As(Ints, E("a", <<I(3), S(<<"a">>)>>)))>>>>,
           <<On(<<"method", "Sum">>, <<>>,
                <<Let(E("a", <<Obj("n"), Obj("m")>>), Obj("list")),
                  <<"reply", T(<<Call("arrayInsert", T(<<Obj("list"), U(1), I(-1)>>)),
                                 Call("arrayGet", T(<<Obj("more"), U(1), I(0)>>))>>)>>>>),
             Random(<<Let(Obj("more"), Fuzzy(E("a", <<Fuzzy(Obj("n")), Op("-", Obj("m"), I(1))>>)))>>),
             Random(<<Let(Obj("list"), Call("arrayRemove", T(<<Obj("list"), U(0)>>)))>>),
             On(Echo, <<Unless(Call("inArray", T(<<Arg("x"), Obj("list")>>)), "Failed")>>,
                <<<<"reply", Call("structHead", T(<<T(<<T(<<Arg("x")>>), I(0)>>)>>))>>>>)>>)

Entry2(k1, v1, k2, v2) == E("e", <<<<k1, v1>>, <<k2, v2>>>>)

\* Dictionaries: with a key twice, fuzzed, assigned to, and edited.
Dicts ==
    Object(<<<<Declare("dict", Fuzzy(Entry2(Fuzzy(S(<<"a">>)), I(1), S(<<"b">>), I(2)))),
              Declare("n", I(0))>>>>,
           <<On(<<"method", "Find">>, <<>>,
                <<Let(Obj("dict"), Call("dictSet", T(<<Obj("dict"), Arg("key"), I(3)>>))),
                  <<"reply", T(<<Call("dictGet", T(<<Obj("dict"), Arg("key"), I(-1)>>))>>)>>>>),
             Random(<<Let(E("e", <<<<S(<<"b">>), Obj("n")>>>>), Obj("dict"))>>),
             Random(<<Let(Obj("dict"), Call("dictUnset", T(<<Obj("dict"), S(<<"a">>)>>)))>>),
             Random(<<Let(Obj("dict"),
                          Call("pairKeys", T(<<Call("keys", Obj("dict")), Fuzzy(I(1))>>)))>>)>>)

\* Variants, paths, signatures, doubles, descriptors and unsigned literals.
Oddities ==
    Object(<<<<Declare("any", Fuzzy(E("v", U(1)))), Declare("p", As(<<"o">>, S(<<"/", "obj">>))),
              Declare("text", S(<<"a">>)),
              Declare("list", As(Array(<<"s">>), E("a", <<>>))),
              Declare("m", As(<<"t">>, I(-1))), Declare("key", Fuzzy(E("b", TRUE)))>>>>,
           <<Random(<<Let(Obj("text"), Call("stringJoin", T(<<S(<<",">>), Obj("list")>>))),
                      Let(Obj("list"), E("a", <<Fuzzy(S(<<"a">>)), Obj("text")>>))>>),
             Random(<<Let(Obj("any"), E("v", Fuzzy(As(<<"g">>, S(<<"u">>)))))>>),
             Random(<<Let(Obj("any"), E("v", T(<<Op("*", E("d", <<"0.5">>), Fuzzy(E("d", <<"1.5">>))),
                                                E("h", 3), Fuzzy(E("o", <<"/", "obj">>))>>)))>>),
             Random(<<Let(Obj("key"), Op("&&", Op(">=", Obj("key"), E("b", FALSE)), Obj("key"))),
                      Let(Obj("m"), Op("-", Obj("m"), As(<<"t">>, I(1))))>>)>>)

\* A dictionary that is empty at first, assigned to one without entries.
Emptied ==
    Object(<<<<Declare("dict", As(Counts, E("e", <<>>)))>>>>,
           <<Random(<<Let(As(Counts, E("e", <<>>)), Obj("dict"))>>),
             Random(<<Let(Obj("dict"),
                          Call("dictSet", T(<<Obj("dict"), S(<<"a">>), I(1)>>)))>>)>>)

\* Accepted, but with operands that are not numbers; keys of a literal.
Strange ==
    Object(<<<<Declare("text", S(<<"a">>)), Declare("any", E("v", I(0))),
              Declare("dict", Entry2(S(<<"a">>), I(1), S(<<"a">>), I(2)))>>>>,
           <<Random(<<Let(Obj("text"), Op("+", Obj("text"), Obj("text")))>>),
             On(<<"random">>,
                <<Unless(Op("==", Op("-", Obj("any"), Obj("any")), E("v", I(0))), NoError)>>, <<>>),
             Random(<<Let(Obj("any"),
                          E("v", Call("keys", Entry2(S(<<"a">>), I(1), S(<<"b">>), I(2)))))>>),
             Random(<<Let(Obj("any"),
                          E("v", Call("dictToTupleArray", T(<<Obj("dict")>>)))),
                      Let(Obj("dict"), Call("dictSet", T(<<Obj("dict"), S(<<"a">>), I(3)>>)))>>)>>)

\* An annotation hides that an integer is stored in a string, an array or a
\* dictionary, and that a dictionary is made of integers and strings.
Mixed ==
    Object(<<<<Declare("n", I(1)), Declare("text", S(<<"a">>)),
               Declare("list", E("a", <<I(1), I(2)>>)),
               Declare("dict", As(Counts, E("a", <<I(1), S(<<"a">>)>>)))>>>>,
           <<Random(<<Let(As(Ints, E("a", <<Obj("n"), Obj("text")>>)), Obj("list"))>>),
             Random(<<Let(As(Ints, E("a", <<Obj("n"), E("a", <<Obj("n")>>)>>)), Obj("list"))>>),
             Random(<<Let(As(Ints, E("a", <<E("e", <<<<S(<<"a">>), Obj("n")>>>>), Obj("n")>>)),
                          Obj("list"))>>)>>)

\* A variable without a value, which is read and assigned to.
Unbuilt ==
    Object(<<<<Declare("key", E("g", <<"*">>)), Declare("n", I(1))>>>>,
           <<Random(<<Let(Obj("key"), As(<<"g">>, S(<<"u">>)))>>),
             On(<<"random">>, <<Unless(Op("==", Obj("key"), E("g", <<"i">>)), NoError)>>,
                <<Let(Obj("n"), I(0))>>),
             Random(<<Let(Obj("n"), I(2)), Let(T(<<Obj("key"), Obj("n")>>), T(<<Obj("key"), I(3)>>))>>)>>)
-----------------------------------------------------------------------------
(* Faults.                                                                 *)

One == <<<<Declare("n", I(1))>>>>
With(e)         == Object(<<<<Declare("n", e)>>>>, <<>>)
Does(statement) == Object(One, <<Random(<<statement>>)>>)
Only(t)         == Object(One, <<t>>)
Plain           == Object(One, <<>>)
Moves(pair)     == Object(One, <<[Random(<<>>) EXCEPT !.pairs = <<pair>>]>>)

FaultyHeads ==
    {[Plain EXCEPT !.path = <<"obj">>], [Plain EXCEPT !.busNames = <<":1.1">>],
     [Plain EXCEPT !.interfaces = <<>>], [Plain EXCEPT !.interfaces = <<"?">>],
     [Plain EXCEPT !.interfaces = <<"org.A", "org.A">>],
     [Plain EXCEPT !.interfaces = <<"org.Unknown">>],
     [Plain EXCEPT !.interfaces = <<"org.B">>], [Plain EXCEPT !.states = <<>>],
     [Plain EXCEPT !.states = <<<<>>>>], [Plain EXCEPT !.states = <<<<"Main", "?">>>>],
     [Plain EXCEPT !.states = <<<<"Main", "Idle">>, <<"Main">>>>],
     Moves(<<"Main", "Lost">>), Moves(<<"?", "Main">>)}

FaultyData ==
    {[Object(<<<<Declare("Level", I(1))>>>>, <<>>) EXCEPT !.interfaces = <<"org.B">>],
     Object(<<<<Declare("?", I(1))>>>>, <<>>), With(I(4)), With(U(-1)), With(E("d", TooWide)),
     With(S(<<InvalidToken>>)), With(E("o", <<"obj">>)), With(E("g", <<>>)),
     With(E("g", <<"*">>)), With(Fuzzy(E("g", <<"*">>))), With(E("v", E("g", <<"*">>))),
     With(As(InvalidType, I(1))), With(As(Str, I(1))),
     With(E("a", <<>>)), With(E("a", <<I(1), S(<<"a">>)>>)), With(E("e", <<>>)),
     With(E("variable", <<"object", "?">>)), With(Obj("m")), With(E("v", Obj("m"))),
     With(T(<<Call("none", T(<<>>))>>)), With(T(<<Call("structHead", T(<<T(<<>>)>>))>>)),
     With(T(<<Call("arrayGet", T(<<E("a", <<I(1)>>), I(0), I(0)>>))>>)),
     With(T(<<Call("arrayGet", T(<<E("a", <<I(1)>>), U(0), S(<<"a">>)>>))>>)),
     With(T(<<<<"not", I(1)>>>>)), With(T(<<Op("+", I(1), U(1))>>)),
     With(T(<<Op("&&", I(1), I(1))>>)),
     Object(<<<<Declare("n", I(1))>>, <<Declare("n", I(2))>>>>, <<>>),
     Object(<<<<Declare("n", I(1)), Declare("m", T(<<Obj("n")>>))>>>>, <<>>),
     Object(<<<<Declare("n", E("g", <<"*">>))>>, <<Declare("m", Obj("n"))>>>>, <<>>)}

FaultyTransitions ==
    {Does(Let(I(1), I(1))), Does(Let(E("v", Obj("n")), I(1))),
     Does(Let(Obj("n"), S(<<"a">>))), Does(Let(Obj("m"), I(1))),
     Does(<<"emit", "?", T(<<>>)>>), Does(<<"emit", "Lost", T(<<>>)>>),
     Does(<<"emit", "Changed", T(<<S(<<"a">>)>>)>>), Does(<<"throw", "?">>),
     Does(<<"throw", "Failed">>),
     Only(On(Echo, <<>>, <<>>)), Only(On(<<"method", "?">>, <<>>, <<<<"throw", "Failed">>>>)),
     Only(On(<<"method", "Lost">>, <<>>, <<<<"throw", "Failed">>>>)),
     Only(On(<<"property", "Lost">>, <<>>, <<>>)),
     Only(On(Echo, <<>>, <<<<"reply", T(<<I(1)>>)>>, <<"throw", "Failed">>>>)),
     Only(On(Echo, <<>>, <<<<"reply", T(<<>>)>>>>)),
     Only(On(Echo, <<>>, <<<<"reply", T(<<Arg("y")>>)>>>>)),
     Only(On(Echo, <<Unless(I(1), NoError)>>, <<<<"throw", "Failed">>>>)),
     Only(On(Echo, <<Unless(E("b", TRUE), "?")>>, <<<<"throw", "Failed">>>>)),
     Only(On(<<"random">>, <<Unless(E("b", TRUE), "Failed")>>, <<>>))}

MCDescriptions ==
    {Counter, Lists, Dicts, Oddities, Emptied, Strange, Mixed, Unbuilt}
      \cup FaultyHeads \cup FaultyData \cup FaultyTransitions
=============================================================================
