------------------------------ MODULE MCWorkbench ------------------------------
(***************************************************************************)
(* Workbench where a user enters a tag and a pattern with a slash of its   *)
(* own, beside the rating that a first run filters by; or tags that do not *)
(* lex.                                                                    *)
(***************************************************************************)
EXTENDS Workbench

UsualTerms == {[atom |-> TagAtom(<<"a">>), negative |-> FALSE],
               [atom |-> PatternAtom(<<"a", "/">>), negative |-> TRUE]}
OddTerms == {[atom |-> TagAtom(<<"b", ")">>), negative |-> FALSE]}
================================================================================
