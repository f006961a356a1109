----------------------------- MODULE MCExchange -----------------------------
(***************************************************************************)
(* Instances of Exchange for TLC.                                          *)
(***************************************************************************)
EXTENDS Exchange, TLC

CONSTANTS o1, o2

\* protocol.h: version 1.3, which demands 1.3.
OurVersion == <<1, 3>>
OurMinimum == <<1, 3>>

\* Older, equal and newer ones, where the two numbers disagree too.
ServerVersions == {<<0, 4>>, <<1, 3>>, <<2, 0>>}
=============================================================================
