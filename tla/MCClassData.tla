----------------------------- MODULE MCClassData -----------------------------
(***************************************************************************)
(* ClassData with one or two versions of a class and a file that does not  *)
(* parse.                                                                  *)
(***************************************************************************)
EXTENDS ClassData, TLC

CONSTANTS v1, v2, junk

OneVersion == {v1, junk}
OneParsable == {v1}
TwoVersions == {v1, v2, junk}
TwoParsable == {v1, v2}
=============================================================================
