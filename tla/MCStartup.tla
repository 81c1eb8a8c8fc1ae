------------------------------ MODULE MCStartup ------------------------------
(***************************************************************************)
(* Descriptions of up to two objects with every pair of verdicts, and      *)
(* addresses that take up part of a piece, whole pieces, or more.          *)
(***************************************************************************)
EXTENDS Startup

MCAddresses == {<<"u">>, <<"u", "n">>, <<"u", "n", "i">>, <<"u", "n", "i", "x">>}

MCSources == [1..1 -> Objects] \cup [1..2 -> Objects]
=============================================================================
