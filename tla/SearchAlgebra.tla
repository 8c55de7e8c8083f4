----------------------------- MODULE SearchAlgebra -----------------------------
(***************************************************************************)
(* How a query becomes a candidate set of posts (index.rs): the postings   *)
(* of its atoms, combined group by group.  A post is told by the tags and  *)
(* rating it has; the posting lanes are exact (IndexStore), and a pattern  *)
(* is the union of the postings of the tags it matches.                    *)
(***************************************************************************)
EXTENDS QueryTree, Candidate

\* The universe is every post the records hold: all_post_ids.  Post ids are the
\* posts themselves here.
Posting(atom, universe) == {post \in universe : atom \in post}

RECURSIVE Eval(_, _)
Eval(expr, universe) ==
    IF expr.kind = "atom" THEN Finite(Posting(expr.atom, universe))
    ELSE IF expr.kind = "not" THEN Complement(Eval(expr.child, universe))
    ELSE LET children == [i \in DOMAIN expr.children |-> Eval(expr.children[i], universe)] IN
         CASE expr.op = "and" -> Conjunction(children)
           [] expr.op = "or" -> Disjunction(children)
           [] expr.op = "xor" -> ExactlyOne(children, universe)
================================================================================
