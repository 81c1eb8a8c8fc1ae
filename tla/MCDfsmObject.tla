---------------------------- MODULE MCDfsmObject ----------------------------
(***************************************************************************)
(* Instances of DfsmObject for TLC: an object with two well-known names    *)
(* and one without any.                                                    *)
(***************************************************************************)
EXTENDS DfsmObject

MCObjects == {"named", "anonymous"}
MCBusNames == [o \in MCObjects |-> IF o = "named" THEN {"n1", "n2"} ELSE {}]
MCExports == [o \in MCObjects |-> {<<o, "I">>, <<o, "J">>}]
MCMethodOutputs == {<<"reply">>, <<"emit", "throw">>, <<"reply", "emit">>}
MCOtherOutputs == {<<>>, <<"emit">>}
=============================================================================
