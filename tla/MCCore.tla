------------------------------- MODULE MCCore -------------------------------
(***************************************************************************)
(* Values for the constants of Core that a configuration cannot write.     *)
(***************************************************************************)
EXTENDS Core

OneContent == {{"c"}}
TwoContents == {{"c"}, {"c", "d"}}
=============================================================================
