------------------------------ MODULE MCReadCaches ------------------------------
(***************************************************************************)
(* Instances of ReadCaches: three posts made on three days, the first two  *)
(* of one family, and what their searches ask.                             *)
(***************************************************************************)
EXTENDS ReadCaches

ThreeDays == (1 :> 1) @@ (2 :> 2) @@ (3 :> 3)
TwoFamilies == (1 :> 1) @@ (2 :> 1) @@ (3 :> 3)
SomeFavorites == {{}, {2}, {1, 3}}

Dates(first, last) == [first |-> first, last |-> last]
AnyAsk == [query : {"all", "tag", "nottag", "favorites"}, sort : {"newest", "score"},
           dates : {NoDates, Dates(2, None), Dates(2, 1)}, grouped : BOOLEAN, limit : 1 .. 3]
TagByScore == {ask \in AnyAsk : /\ ask.query = "tag" /\ ask.sort = "score"
                                /\ ask.dates = NoDates /\ ask.limit = 2}
================================================================================
