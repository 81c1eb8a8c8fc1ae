----------------------------- MODULE MCFuzzing -----------------------------
(***************************************************************************)
(* An instance of Fuzzing: words up to 43 where the code has 32 bits, each *)
(* type of integer at a bound or in the middle of its range, and strings   *)
(* that have each separator, none, or several, a separator at either end,  *)
(* letters of both cases and characters of two bytes.                      *)
(***************************************************************************)
EXTENDS Fuzzing

MCSeparators == {"/", "."}

MCStrings ==
    {<<>>, <<"A">>, <<"lead", "cont">>, <<"a", "A", "a">>, <<"/">>,
     <<"A", "/", "lead", "cont">>, <<"lead", "cont", "A", "lead", "cont">>,
     <<"/", "A", "/", "a">>, <<"A", ".", "lead", "cont", "/">>}

MCIntegers ==
    {<<"byte", 0>>, <<"byte", MaxByte>>, <<"int16", -MaxInt16 - 1>>,
     <<"uint16", 7>>, <<"int32", MaxInt32>>, <<"uint32", MaxUInt32>>,
     <<"int64", -MaxInt64 - 1>>, <<"uint64", MaxUInt64>>}

MCLiterals ==
    {[type |-> "string", value |-> s, weighted |-> TRUE] : s \in MCStrings}
        \union {[type |-> t[1], value |-> t[2], weighted |-> w] :
                    t \in MCIntegers, w \in BOOLEAN}
        \union {[type |-> "path", value |-> s, weighted |-> TRUE] :
                    s \in {<<"/">>, <<"/", "A">>}}
        \union {[type |-> "boolean", value |-> TRUE, weighted |-> TRUE]}
============================================================================
