----------------------------- MODULE MCFrontEnds -----------------------------
(***************************************************************************)
(* A small instance of FrontEnds for TLC: two files beside a directory.     *)
(***************************************************************************)
EXTENDS FrontEnds

CONSTANTS a, b, d

TwoFiles == {<<a>>, <<b>>}
OneDir == {<<d>>}
InOrder == <<<<a>>, <<b>>, <<d>>>>
AtFirst == {<<a>>, <<d>>}
=============================================================================
