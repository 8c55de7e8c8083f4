------------------------------- MODULE Candidate -------------------------------
(***************************************************************************)
(* Sets of posts as searches hold them (index.rs): finite, or every post   *)
(* but some.  Only the second can stand for what a Not leaves without      *)
(* listing every post there is.                                            *)
(***************************************************************************)
EXTENDS Naturals, FiniteSets, Sequences, SequencesExt

Finite(ids) == [form |-> "finite", ids |-> ids]
Cofinite(ids) == [form |-> "cofinite", ids |-> ids]

\* Candidate::contains and materialize
Admits(candidate, id) == (id \in candidate.ids) <=> candidate.form = "finite"
Materialize(candidate, universe) ==
    IF candidate.form = "finite" THEN candidate.ids ELSE universe \ candidate.ids

Complement(candidate) ==
    IF candidate.form = "finite" THEN Cofinite(candidate.ids) ELSE Finite(candidate.ids)

Of(form, children) == {i \in DOMAIN children : children[i].form = form}
Union(form, children) == UNION {children[i].ids : i \in Of(form, children)}
Intersection(form, children) ==
    {id \in Union(form, children) : \A i \in Of(form, children) : id \in children[i].ids}

\* conjunction: the finite children meet, less what the others exclude.
Conjunction(children) ==
    IF Of("finite", children) = {} THEN Cofinite(Union("cofinite", children))
    ELSE Finite(Intersection("finite", children) \ Union("cofinite", children))

DisjunctionOfExcluded(children) ==
    IF Of("cofinite", children) = {} THEN Finite(Union("finite", children))
    ELSE Cofinite(Union("cofinite", children) \ Union("finite", children))

\* disjunction: what every cofinite child excludes, unless a finite one has it.
Disjunction(children) ==
    IF Of("cofinite", children) = {} THEN Finite(Union("finite", children))
    ELSE Cofinite(Intersection("cofinite", children) \ Union("finite", children))

\* exactly_one: one pass that keeps what came once and what came again.
SymmetricDifference(s, t) == (s \ t) \cup (t \ s)
ParityOf(sets) == FoldLeft(SymmetricDifference, {}, sets)

ExactlyOneOf(sets) ==
    FoldLeft(LAMBDA seen, set :
               LET repeated == seen.repeated \cup (seen.exactly \cap set) IN
               [repeated |-> repeated,
                exactly |-> SymmetricDifference(seen.exactly, set) \ repeated],
             [exactly |-> {}, repeated |-> {}], sets).exactly

\* exactly_one of BitmapEval: over the universe as soon as one child is cofinite.
ExactlyOne(children, universe) ==
    Finite(ExactlyOneOf([i \in DOMAIN children |-> Materialize(children[i], universe)]))
================================================================================
