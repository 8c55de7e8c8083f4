------------------------------- MODULE QueryTree -------------------------------
(***************************************************************************)
(* The Boolean query a wall of posts is filtered by (model.rs): a tree of  *)
(* And, Or and Xor groups over atoms, any node of it under any number of   *)
(* Nots, and the edits the editor makes to it.  A path is the sequence of  *)
(* child slots from the root, from 1; groups are seen through their Nots.  *)
(*                                                                         *)
(* A text is a sequence of symbols, so that what the filter language does  *)
(* to an atom's own characters shows; a keyword is one symbol.             *)
(***************************************************************************)
EXTENDS Integers, Sequences, FiniteSets, SequencesExt

\* The symbols atoms and filter texts are written with, in the order of their codes.
Charset == <<" ", "(", ")", "/", "AND", "OR", "XOR", "\\", "a", "b", "g", "rating:", "~">>

CodeOf == [symbol \in ToSet(Charset) |-> CHOOSE i \in DOMAIN Charset : Charset[i] = symbol]

RECURSIVE TextLess(_, _)
TextLess(s, t) ==
    /\ t # <<>>
    /\ \/ s = <<>>
       \/ CodeOf[Head(s)] < CodeOf[Head(t)]
       \/ Head(s) = Head(t) /\ TextLess(Tail(s), Tail(t))

-----------------------------------------------------------------------------
(* Atoms and expressions                                                   *)

TagAtom(text) == [lane |-> "tag", text |-> text]
RatingAtom(key) == [lane |-> "rating", text |-> key]
PatternAtom(source) == [lane |-> "pattern", text |-> source]

\* QueryAtom::term
TermText(atom) ==
    CASE atom.lane = "tag" -> atom.text
      [] atom.lane = "rating" -> <<"rating:">> \o atom.text
      [] atom.lane = "pattern" -> <<"/">> \o atom.text

Leaf(atom) == [kind |-> "atom", atom |-> atom]
Neg(expr) == [kind |-> "not", child |-> expr]
Group(op, children) == [kind |-> "group", op |-> op, children |-> children]

\* Query::default, and what is_empty asks of the root.
EmptyQuery == Group("and", <<>>)

\* denote: what stands under the Nots, and whether they negate it.
RECURSIVE Core(_), Negated(_)
Core(expr) == IF expr.kind = "not" THEN Core(expr.child) ELSE expr
Negated(expr) == expr.kind = "not" /\ ~Negated(expr.child)

IsGroup(expr) == Core(expr).kind = "group"
IsTerm(expr) == Core(expr).kind = "atom"

\* denote_mut: a new core under the same Nots.
RECURSIVE Recored(_, _)
Recored(expr, core) == IF expr.kind = "not" THEN Neg(Recored(expr.child, core)) ELSE core

\* QueryExpr::term and QueryTerm::into_expr: an atom keeps at most one Not.
TermOf(expr) == [atom |-> Core(expr).atom, negative |-> Negated(expr)]
ExprOfTerm(term) == IF term.negative THEN Neg(Leaf(term.atom)) ELSE Leaf(term.atom)

\* What the bounds count: an atom for one, a group for two.
RECURSIVE Weight(_)
Weight(expr) ==
    IF expr.kind = "not" THEN Weight(expr.child)
    ELSE IF expr.kind = "atom" THEN 1
    ELSE FoldLeft(LAMBDA n, child : n + Weight(child), 2, expr.children)

-----------------------------------------------------------------------------
(* What a query means                                                      *)

\* The reference the evaluator and the filter language are held to: "exactly one"
\* for Xor (op_blurb), of a post told by the atoms that are true of it.
RECURSIVE Holds(_, _)
Holds(expr, post) ==
    IF expr.kind = "atom" THEN expr.atom \in post
    ELSE IF expr.kind = "not" THEN ~Holds(expr.child, post)
    ELSE LET true == {i \in DOMAIN expr.children : Holds(expr.children[i], post)} IN
         CASE expr.op = "and" -> true = DOMAIN expr.children
           [] expr.op = "or" -> true # {}
           [] expr.op = "xor" -> Cardinality(true) = 1

Means(p, q, posts) == \A post \in posts : Holds(p, post) <=> Holds(q, post)

-----------------------------------------------------------------------------
(* Paths                                                                   *)

\* QueryExpr::expr and expr_mut
RECURSIVE HasExpr(_, _), ExprAt(_, _), ReplacedAt(_, _, _)
HasExpr(expr, path) ==
    IF path = <<>> THEN TRUE
    ELSE /\ IsGroup(expr)
         /\ Head(path) \in DOMAIN Core(expr).children
         /\ HasExpr(Core(expr).children[Head(path)], Tail(path))
ExprAt(expr, path) ==
    IF path = <<>> THEN expr ELSE ExprAt(Core(expr).children[Head(path)], Tail(path))
ReplacedAt(expr, path, new) ==
    IF path = <<>> THEN new
    ELSE Recored(expr, [Core(expr) EXCEPT
                          !.children[Head(path)] = ReplacedAt(@, Tail(path), new)])

\* Query::group
HasGroup(query, path) == HasExpr(query, path) /\ IsGroup(ExprAt(query, path))
GroupAt(query, path) == Core(ExprAt(query, path))
Regrouped(query, path, group) == ReplacedAt(query, path, Recored(ExprAt(query, path), group))

\* One that trusts the path; and clamp_group_path.
ClampNever(query, path) == path
ClampGroupPath(query, path) == IF HasGroup(query, path) THEN path ELSE <<>>

\* group_paths: a group before its children
RECURSIVE GroupPaths(_)
GroupPaths(expr) ==
    IF ~IsGroup(expr) THEN <<>>
    ELSE <<<<>>>> \o FlattenSeq(
             [i \in DOMAIN Core(expr).children |->
                LET below == GroupPaths(Core(expr).children[i]) IN
                [j \in DOMAIN below |-> <<i>> \o below[j]]])

CycleGroupPath(query, active, step) ==
    LET paths == GroupPaths(query)
        here == SelectInSeq(paths, LAMBDA p : p = ClampGroupPath(query, active))
    IN  IF here = 0 THEN <<>> ELSE paths[((here - 1 + step) % Len(paths)) + 1]

-----------------------------------------------------------------------------
(* Edits                                                                   *)

TermBefore(s, t) ==
    \/ TextLess(TermText(s.atom), TermText(t.atom))
    \/ TermText(s.atom) = TermText(t.atom) /\ ~s.negative /\ t.negative

\* BoolGroup::sort_atoms: terms in order across the slots that hold terms; groups do
\* not move.
TermsSorted(children) ==
    LET held == SelectSeq(children, IsTerm)
        terms == SortSeq([k \in DOMAIN held |-> TermOf(held[k])], TermBefore)
        rank(i) == Cardinality({j \in 1..i : IsTerm(children[j])})
    IN  [i \in DOMAIN children |->
            IF IsTerm(children[i]) THEN ExprOfTerm(terms[rank(i)]) ELSE children[i]]

RECURSIVE SortedAtoms(_)
SortedAtoms(expr) ==
    IF expr.kind = "atom" THEN expr
    ELSE IF expr.kind = "not" THEN Neg(SortedAtoms(expr.child))
    ELSE Group(expr.op, TermsSorted([i \in DOMAIN expr.children |-> SortedAtoms(expr.children[i])]))

SetGroupOp(query, path, op) ==
    SortedAtoms(Regrouped(query, path, [GroupAt(query, path) EXCEPT !.op = op]))

PushGroup(query, path, op) ==
    Regrouped(query, path, [GroupAt(query, path) EXCEPT !.children = Append(@, Group(op, <<>>))])

WithoutAtom(children, atom) ==
    SelectSeq(children, LAMBDA c : ~(IsTerm(c) /\ Core(c).atom = atom))

\* push_atom: an atom stands once in a group, with the polarity it was last given.
PushAtom(query, path, term) ==
    SortedAtoms(Regrouped(query, path,
        [GroupAt(query, path) EXCEPT
           !.children = Append(WithoutAtom(@, term.atom), ExprOfTerm(term))]))

RemoveChild(query, parent, child) ==
    SortedAtoms(Regrouped(query, parent, [GroupAt(query, parent) EXCEPT !.children = RemoveAt(@, child)]))

TargetAsBefore(parent, child, target) == target

\* target_after_child_removal, where the target is not under the removed child.
TargetAfterRemoval(parent, child, target) ==
    IF IsStrictPrefix(parent, target) /\ target[Len(parent) + 1] > child
    THEN [target EXCEPT ![Len(parent) + 1] = @ - 1]
    ELSE target

\* move_atom's refusals
CanMove(query, parent, child, target) ==
    /\ parent # target
    /\ HasGroup(query, parent) /\ HasGroup(query, target)
    /\ child \in DOMAIN GroupAt(query, parent).children
    /\ IsTerm(GroupAt(query, parent).children[child])
    /\ ~IsPrefix(Append(parent, child), target)
    /\ HasGroup(RemoveChild(query, parent, child), TargetAfterRemoval(parent, child, target))

MoveAtom(query, parent, child, target) ==
    PushAtom(RemoveChild(query, parent, child), TargetAfterRemoval(parent, child, target),
             TermOf(GroupAt(query, parent).children[child]))

\* remove_atom: from every group; a root that is the atom stays.
RECURSIVE Stripped(_, _)
Stripped(expr, atom) ==
    IF expr.kind = "atom" THEN expr
    ELSE IF expr.kind = "not" THEN Neg(Stripped(expr.child, atom))
    ELSE LET kept == WithoutAtom(expr.children, atom) IN
         Group(expr.op, [i \in DOMAIN kept |-> Stripped(kept[i], atom)])
RemoveAtom(query, atom) == SortedAtoms(Stripped(query, atom))

Toggled(expr) == IF expr.kind = "not" THEN expr.child ELSE Neg(expr)
ToggleNot(query, path) == SortedAtoms(ReplacedAt(query, path, Toggled(ExprAt(query, path))))

-----------------------------------------------------------------------------
(* The part of a query the remote is asked for                             *)

\* A seed that takes a negated group for the group.
RECURSIVE RequiredUnnegated(_, _)
RequiredUnnegated(expr, negated) ==
    IF expr.kind = "atom" THEN IF negated THEN {} ELSE {expr.atom}
    ELSE IF expr.kind = "not" THEN RequiredUnnegated(expr.child, ~negated)
    ELSE IF expr.children = <<>> THEN {}
    ELSE LET each == {RequiredUnnegated(c, negated) : c \in ToSet(expr.children)} IN
         IF expr.op = "and" THEN UNION each
         ELSE {atom \in UNION each : \A s \in each : atom \in s}

\* required_positive_atoms: atoms every match of the expression has.
RECURSIVE RequiredPositive(_, _)
RequiredPositive(expr, negated) ==
    IF expr.kind = "atom" THEN IF negated THEN {} ELSE {expr.atom}
    ELSE IF expr.kind = "not" THEN RequiredPositive(expr.child, ~negated)
    ELSE IF negated \/ expr.children = <<>> THEN {}
    ELSE LET each == {RequiredPositive(c, FALSE) : c \in ToSet(expr.children)} IN
         IF expr.op = "and" THEN UNION each
         ELSE {atom \in UNION each : \A s \in each : atom \in s}

\* remote_seed: at most two terms, a rating before tags in their order; no pattern.
RemoteSeed(query) ==
    LET atoms == RequiredPositive(query, FALSE)
        ratings == {a \in atoms : a.lane = "rating"}
        tags == SetToSortSeq({a \in atoms : a.lane = "tag"},
                             LAMBDA s, t : TextLess(s.text, t.text))
        room == IF ratings = {} THEN 2 ELSE 1
    IN  (IF ratings = {} THEN {} ELSE {CHOOSE r \in ratings :
             \A other \in ratings : other = r \/ TextLess(r.text, other.text)})
        \cup ToSet(SubSeq(tags, 1, IF Len(tags) < room THEN Len(tags) ELSE room))
================================================================================
