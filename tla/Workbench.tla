------------------------------- MODULE Workbench -------------------------------
(***************************************************************************)
(* The query editor and the saved filters (app.rs, app/panels.rs): the     *)
(* query on the bench, the group new tags go to, which filter is being     *)
(* edited, and the library, whose selected filter follows every edit.      *)
(* Reopen closes and starts the program: the library passes through its    *)
(* text, the unsaved query and the active group through the session.       *)
(***************************************************************************)
EXTENDS FilterText, SearchAlgebra

CONSTANTS
    Terms,          \* the terms a user enters
    Name,           \* filter names
    Scratch, LocalFavorites,
    MaxWeight,       \* bound: weight of a query while nothing is saved
    MaxKept,        \* bound: weight of the query and of the filters not selected, otherwise
    MaxGroupDepth   \* MAX_GROUP_DEPTH

ASSUME WorkbenchAssumption ==
    /\ {Scratch, LocalFavorites} \cap Name = {} /\ Scratch # LocalFavorites
    /\ MaxKept \in Nat \ {0} /\ MaxWeight \in Nat \ {0} /\ MaxGroupDepth \in Nat

VARIABLES
    query,      \* the tree on the bench
    active,     \* active_group
    selection,  \* filter_selection
    filters     \* the library: a query for every filter's name

vars == <<query, active, selection, filters>>

Atoms == {t.atom : t \in Terms} \cup {RatingAtom(<<"g">>)}
Posts == SUBSET Atoms
Paths(q) == ToSet(GroupPaths(q))
Saved == DOMAIN filters

\* safe_default_filter, which a first run puts in the library and selects.
DefaultQuery == Group("and", <<Leaf(RatingAtom(<<"g">>))>>)

Init ==
    \/ /\ query = EmptyQuery /\ active = <<>> /\ selection = Scratch
       /\ filters = [n \in {} |-> EmptyQuery]
    \/ \E n \in Name :
         /\ query = DefaultQuery /\ active = <<>> /\ selection = n
         /\ filters = [m \in {n} |-> DefaultQuery]

-----------------------------------------------------------------------------
(* install_query_at                                                        *)

\* Setting one filter of the library.
Upserted(library, name, q) == [n \in DOMAIN library \cup {name} |-> IF n = name THEN q ELSE library[n]]

\* sync_active_filter: the selected filter is what is on the bench.
Synced(library, chosen, q) == IF chosen \in Name THEN Upserted(library, chosen, q) ELSE library

ReselectedNever(chosen, q) == chosen

\* A predicate on the favourites makes an unsaved query of them.
Reselected(chosen, q) == IF chosen = LocalFavorites /\ q # EmptyQuery THEN Scratch ELSE chosen

InBounds(library, chosen, q) ==
    FoldSet(LAMBDA n, sum : sum + Weight(library[n]), Weight(q), DOMAIN library \ {chosen})
      <= IF DOMAIN library \cup ({chosen} \cap Name) = {} THEN MaxWeight ELSE MaxKept

\* An install that writes the library for the selection that was.
InstallSyncedEarly(library, chosen, q, path) ==
    LET sorted == SortedAtoms(q)
        now == Reselected(chosen, sorted)
    IN  /\ InBounds(library, now, sorted)
        /\ query' = sorted
        /\ active' = ClampGroupPath(sorted, path)
        /\ selection' = now
        /\ filters' = Synced(library, selection, sorted)

\* The selection the user chose, the query to install and the group to make active.
Install(library, chosen, q, path) ==
    LET sorted == SortedAtoms(q)
        now == Reselected(chosen, sorted)
    IN  /\ InBounds(library, now, sorted)
        /\ query' = sorted
        /\ active' = ClampGroupPath(sorted, path)
        /\ selection' = now
        /\ filters' = Synced(library, now, sorted)

Edit(q, path) == Install(filters, selection, q, path)

-----------------------------------------------------------------------------
(* Edits of the tree                                                       *)

\* add_atom, from a tile's menu or the palette; nothing when no group is active.
AddAtom(term) ==
    /\ HasGroup(query, active)
    /\ Edit(PushAtom(query, active, term), active)

\* commit_tag_entry: the terms of the entry, then one install whatever they did.
CommitEntry(terms) ==
    Edit(FoldLeft(LAMBDA q, t : IF HasGroup(q, active) THEN PushAtom(q, active, t) ELSE q,
                  query, terms), active)

\* remove_atom, from a tile's menu
DropAtom(atom) == Edit(RemoveAtom(query, atom), active)

\* apply_query_action
Select(path) ==
    /\ path # active
    /\ active' = ClampGroupPath(query, path)
    /\ filters' = Synced(filters, selection, query)
    /\ UNCHANGED <<query, selection>>
SetOp(path, op) == Edit(SetGroupOp(query, path, op), active)
Toggle(path) == Edit(ToggleNot(query, path), active)
DropChild(parent, child) == Edit(RemoveChild(query, parent, child), parent)
Move(parent, child, target) ==
    /\ CanMove(query, parent, child, target)
    /\ Edit(MoveAtom(query, parent, child, target), TargetAfterRemoval(parent, child, target))
AddGroup ==
    /\ Len(active) < MaxGroupDepth
    /\ HasGroup(query, active)
    /\ Edit(PushGroup(query, active, "and"), Append(active, Len(GroupAt(query, active).children) + 1))

\* cycle_query_group
Cycle(step) ==
    LET next == CycleGroupPath(query, active, step) IN
    /\ next # active
    /\ active' = next
    /\ filters' = Synced(filters, selection, query)
    /\ UNCHANGED <<query, selection>>

-----------------------------------------------------------------------------
(* The library                                                             *)

NewFilter == Install(filters, Scratch, EmptyQuery, <<>>)
LoadFilter(name) == Install(filters, name, filters[name], <<>>)
LoadLocalFavorites == Install(filters, LocalFavorites, EmptyQuery, <<>>)

\* save_current_filter, under the name typed, the selected one or a spare one
SaveFilter(name) ==
    /\ selection # LocalFavorites
    /\ InBounds(filters, name, query)
    /\ filters' = Upserted(filters, name, query)
    /\ selection' = name
    /\ UNCHANGED <<query, active>>

\* rename_filter_to; the selected filter takes the bench with it.
RenameFilter(old, new) ==
    /\ new \notin Saved
    /\ LET moved == [n \in (Saved \ {old}) \cup {new} |-> IF n = new THEN filters[old] ELSE filters[n]]
           now == IF selection = old THEN new ELSE selection
       IN  /\ selection' = now
           /\ filters' = Synced(moved, now, query)
    /\ UNCHANGED <<query, active>>

CloneFilter(name, spare) ==
    /\ spare \notin Saved
    /\ Install(Upserted(filters, spare, filters[name]), spare, filters[name], <<>>)

DeleteFilter(name) ==
    /\ selection' = IF selection = name THEN Scratch ELSE selection
    /\ filters' = [n \in Saved \ {name} |-> filters[n]]
    /\ UNCHANGED <<query, active>>

-----------------------------------------------------------------------------
(* Closing and opening again                                               *)

\* Whether a filter has a text and the text can be read.
ReadsBack(q) == LET r == Render(q) IN ~Faulty(r) /\ ~Faulty(Parse(r.text))
ReadAgain(q) == Parse(Render(q).text).expr

\* retire_persistence, then FilterLibrary::load and the choices of Bayonet::open.
\* When a filter has no text the library is not written, and when its text is not
\* read the program does not start: neither is Reopen.
Reopen ==
    /\ \A n \in Saved : ReadsBack(filters[n])
    /\ LET library == [n \in Saved |-> ReadAgain(filters[n])]
           now == IF selection = Scratch THEN query
                  ELSE IF selection = LocalFavorites THEN EmptyQuery
                  ELSE library[selection]
       IN  /\ filters' = library
           /\ query' = SortedAtoms(now)
           /\ active' = IF selection = LocalFavorites THEN <<>>
                        ELSE ClampGroupPath(SortedAtoms(now), active)
    /\ UNCHANGED selection

Next ==
    \/ \E t \in Terms :
         AddAtom(t) \/ CommitEntry(<<t>>) \/ \E u \in Terms \ {t} : CommitEntry(<<t, u>>)
    \/ \E atom \in Atoms : DropAtom(atom)
    \/ \E path \in Paths(query) :
         \/ Select(path) \/ Toggle(path)
         \/ \E op \in {"and", "or", "xor"} : SetOp(path, op)
         \/ \E child \in DOMAIN GroupAt(query, path).children :
              DropChild(path, child) \/ \E target \in Paths(query) : Move(path, child, target)
    \/ AddGroup
    \/ \E step \in {-1, 1} : Cycle(step)
    \/ NewFilter \/ LoadLocalFavorites
    \/ \E n \in Name : SaveFilter(n)
    \/ \E n \in Saved :
         LoadFilter(n) \/ DeleteFilter(n) \/ \E m \in Name : RenameFilter(n, m) \/ CloneFilter(n, m)
    \/ Reopen

Spec == Init /\ [][Next]_vars

-----------------------------------------------------------------------------
(* What the editor and the library promise                                 *)

RECURSIVE WellFormed(_), AtomsOf(_), HasEmptyGroup(_)
WellFormed(expr) ==
    CASE expr.kind = "atom" -> expr.atom \in Atoms
      [] expr.kind = "not" -> WellFormed(expr.child)
      [] expr.kind = "group" -> /\ expr.op \in {"and", "or", "xor"}
                                /\ \A i \in DOMAIN expr.children : WellFormed(expr.children[i])
AtomsOf(expr) ==
    CASE expr.kind = "atom" -> {expr.atom}
      [] expr.kind = "not" -> AtomsOf(expr.child)
      [] expr.kind = "group" -> UNION {AtomsOf(expr.children[i]) : i \in DOMAIN expr.children}
HasEmptyGroup(expr) ==
    CASE expr.kind = "atom" -> FALSE
      [] expr.kind = "not" -> HasEmptyGroup(expr.child)
      [] expr.kind = "group" -> \/ expr.children = <<>>
                                \/ \E i \in DOMAIN expr.children : HasEmptyGroup(expr.children[i])

\* Every variable holds a value of its type, and the active path is a group's or the root's.
TypeOK ==
    /\ WellFormed(query)
    /\ active \in Paths(query) \cup {<<>>}
    /\ selection \in Name \cup {Scratch, LocalFavorites}
    /\ Saved \subseteq Name
    /\ \A n \in Saved : WellFormed(filters[n])

\* While a saved filter is selected, what is on the bench is that filter, so that
\* the wall shows what the library will keep; and the favourites, which a search
\* refuses together with a predicate (candidate_set), are shown with none.
BenchIsSelection ==
    /\ selection \in Name => selection \in Saved /\ SortedAtoms(filters[selection]) = query
    /\ selection = LocalFavorites => query = EmptyQuery

\* A query has a text unless one of its groups is empty, and when its atoms are
\* words the lexer takes for what they are, the text is read back and matches the
\* same posts (filter_expression.rs); its shape need not be the same.
TextKeepsMeaning ==
    LET r == Render(query) IN
    /\ Faulty(r) <=> query # EmptyQuery /\ HasEmptyGroup(query)
    /\ ~Faulty(r) /\ (\A atom \in AtomsOf(query) : Lexes(atom)) =>
         LET p == Parse(r.text) IN
         /\ ~Faulty(p)
         /\ Means(p.expr, query, Posts)

\* What the bitmaps give for a query is what the query means, whatever mixture of
\* finite and cofinite sets it went through (BitmapEval).
CandidatesExact ==
    LET candidate == Eval(query, Posts) IN
    \A post \in Posts : Admits(candidate, post) <=> Holds(query, post)

\* The remote is only ever asked for a superset of the matches: every post the query
\* holds of has every term of its seed (remote_seed), at most two of them.
SeedIsImplied ==
    /\ Cardinality(RemoteSeed(query)) <= 2
    /\ \A post \in Posts : Holds(query, post) => RemoteSeed(query) \subseteq post

\* No step writes a saved filter other than the one that is then selected, and that
\* one becomes what is then on the bench; reading the library again aside.
OnlySelectedChanges ==
    [][\/ \A n \in Saved \cap DOMAIN filters' :
            filters'[n] # filters[n] => selection' = n /\ filters'[n] = query'
       \/ Reopen]_vars

TermsIn(group) == {TermOf(c) : c \in {d \in ToSet(group.children) : IsTerm(d)}}

\* An atom dragged onto a group is put into that group, which is then active,
\* whatever the removal did to its path (move_atom).
MovesLand ==
    \A parent, target \in Paths(query) : \A child \in DOMAIN GroupAt(query, parent).children :
      CanMove(query, parent, child, target) =>
        LET term == TermOf(GroupAt(query, parent).children[child])
            before == GroupAt(query, target)
            after == MoveAtom(query, parent, child, target)
            landed == GroupAt(after, ClampGroupPath(after, TargetAfterRemoval(parent, child, target)))
        IN  /\ landed.op = before.op
            /\ TermsIn(landed) = {t \in TermsIn(before) : t.atom # term.atom} \cup {term}

\* "Saved filters cross the Filter Library boundary as canonical Boolean expressions"
\* (docs/design.md): the text the library writes for a filter is read back, and
\* matches what the filter matched.
FiltersComeBack ==
    \A n \in Saved : LET r == Render(filters[n]) IN
      ~Faulty(r) => LET p == Parse(r.text) IN ~Faulty(p) /\ Means(p.expr, filters[n], Posts)

================================================================================
