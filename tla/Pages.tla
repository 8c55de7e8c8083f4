--------------------------------- MODULE Pages ---------------------------------
(***************************************************************************)
(* How a search chooses and orders its page (index.rs): a candidate of the *)
(* query, an id window of the dates, favourites before the rest, newest or *)
(* strongest first, and one post per family when grouped.  Pure operators  *)
(* over one snapshot db of the records and over the two caches of a ranked *)
(* lane: its head, and the keys of every post.                             *)
(*                                                                         *)
(* A record is a score and whether it carries the tag asked for; the other *)
(* ranked sort, by favourite count, is the same code over another lane.    *)
(***************************************************************************)
EXTENDS Integers, Candidate

CONSTANTS
    Post,       \* post ids, numbers from 1
    None,       \* no record, no key, no bound, nothing cached
    DayOf,      \* the day each post was made: it never falls as ids climb
    RootOf,     \* the root of each post's family (KinAtlas)
    SmallSort,  \* SMALL_SORT: finite candidates up to this size sort by keys
    HeadCap     \* SORT_HEAD_CAP

ASSUME PagesAssumption ==
    /\ Post \subseteq Nat \ {0} /\ IsFiniteSet(Post) /\ None \notin Int
    /\ DayOf \in [Post -> Nat] /\ \A p, q \in Post : p < q => DayOf[p] <= DayOf[q]
    /\ RootOf \in [Post -> Post] /\ \A p \in Post : RootOf[RootOf[p]] = RootOf[p]
    /\ SmallSort \in Nat /\ HeadCap \in Nat

LastDay == Max({DayOf[p] : p \in Post})
NoDates == [first |-> None, last |-> None]

Smaller(a, b) == IF a < b THEN a ELSE b
Take(seq, n) == SubSeq(seq, 1, Smaller(n, Len(seq)))
Among(seq, ids) ==
    FoldLeft(LAMBDA kept, p : IF p \in ids THEN Append(kept, p) ELSE kept, <<>>, seq)

\* ids in order: the i-th is the one with i - 1 before it.
Ordered(ids, Before(_, _)) ==
    [i \in 1 .. Cardinality(ids) |->
        CHOOSE p \in ids : Cardinality({q \in ids : Before(q, p)}) = i - 1]

\* POSTS, SCORE_POSTS and the lane orders: both are read backwards.
Live(db) == {p \in DOMAIN db : db[p] # None}
Newest(ids) == Ordered(ids, >)
Strongest(key, ids) ==
    Ordered(ids, LAMBDA p, q : key[p] > key[q] \/ (key[p] = key[q] /\ p > q))

\* lane_sort_keys: zero, here None, for a post the lane does not hold.
SortKeys(db) == [p \in DOMAIN db |-> IF db[p] = None THEN None ELSE db[p].score]
Lane(db) == Strongest(SortKeys(db), Live(db))
LaneHead(db) == Take(Lane(db), HeadCap)

\* sort_head and sort_keys: what is cached, else what the snapshot has.
SortHead(db, cached) == IF cached = None THEN LaneHead(db) ELSE cached
DenseKeys(db, cached) == IF cached = None THEN SortKeys(db) ELSE cached

\* set_sort_key of a post absorbed: none for one retracted.
SetSortKey(keys, p, record) == [keys EXCEPT ![p] = IF record = None THEN None ELSE record.score]

-----------------------------------------------------------------------------
(* Dates                                                                   *)

Normalized(dates) ==
    IF None \notin {dates.first, dates.last} /\ dates.first > dates.last
    THEN [first |-> dates.last, last |-> dates.first] ELSE dates

\* day_bound: the probe is the live post at or beyond the midpoint, the bounds
\* close on the post probed, and an empty side collapses toward the midpoint.
DayBound(db, edge, target) ==
    LET top == Max(Live(db))
        bisect[at \in (0 .. top + 1) \X (-1 .. top) \X (Post \cup {None})] ==
            LET lo == at[1]
                hi == at[2]
                mid == lo + ((hi - lo) \div 2)
                probes == {p \in Live(db) : IF edge = "lower" THEN mid <= p /\ p <= hi
                                                            ELSE lo <= p /\ p <= mid}
                pid == IF edge = "lower" THEN Min(probes) ELSE Max(probes)
                hit == IF edge = "lower" THEN DayOf[pid] >= target ELSE DayOf[pid] <= target
                found == IF hit THEN pid ELSE at[3]
            IN  IF lo > hi THEN at[3]
                ELSE IF probes = {} /\ edge = "lower" THEN bisect[<<lo, mid - 1, at[3]>>]
                ELSE IF probes = {} THEN bisect[<<mid + 1, hi, at[3]>>]
                ELSE IF hit <=> edge = "lower" THEN bisect[<<lo, pid - 1, found>>]
                ELSE bisect[<<pid + 1, hi, found>>]
    IN  bisect[<<0, top, None>>]

\* date_window: the ids from the first to the last post of the days, or none.
DateWindow(db, dates) ==
    IF dates = NoDates THEN [open |-> TRUE, ids |-> Post]
    ELSE IF Live(db) = {} THEN [open |-> FALSE, ids |-> {}]
    ELSE LET lo == DayBound(db, "lower", IF dates.first = None THEN 0 ELSE dates.first)
             hi == DayBound(db, "upper", IF dates.last = None THEN LastDay ELSE dates.last)
         IN  [open |-> FALSE,
              ids |-> IF None \in {lo, hi} THEN {} ELSE lo .. hi]

-----------------------------------------------------------------------------
(* Pages of posts                                                          *)

\* What a filter over the window and the candidate lets through.
Accepted(candidate, window) == {p \in Post : p \in window.ids /\ Admits(candidate, p)}

\* candidate_set for one of the queries modelled; no query admits every post.
Everything == Cofinite({})
CandidateSet(db, query, available) ==
    CASE query = "all" -> Everything
      [] query = "tag" -> Finite({p \in Live(db) : db[p].tagged})
      [] query = "nottag" -> Cofinite({p \in Live(db) : db[p].tagged})
      [] query = "favorites" -> Finite(available)

\* The candidates search_corpus reports.  With a window and no finite candidate it
\* counts the ids of the window, whether or not a post is there.
CandidateCount(db, candidate, window) ==
    IF candidate.form = "finite" THEN Cardinality(candidate.ids \cap window.ids)
    ELSE Cardinality(IF window.open THEN Live(db) ELSE window.ids)
         - Cardinality(candidate.ids \cap window.ids)

BySort(sort, key, ids) == IF sort = "newest" THEN Newest(ids) ELSE Strongest(key, ids)

\* favorite_ranks: which favourites have a record, each read by its id, and their
\* order by rank.
FavoriteRanks(db, source) ==
    LET held == [p \in source.ids |-> db[p]] IN
    [source |-> source, available |-> Live(held), score |-> Strongest(SortKeys(held), Live(held))]

\* favorite_ids, and the order of the favourites a family page is offered.
FavoriteOrder(ranks, sort) == IF sort = "newest" THEN Newest(ranks.available) ELSE ranks.score

\* head_ids and lane_ids: what the head, or the whole lane, has of a page.
HeadIds(head, candidate, window, limit) == Take(Among(head, Accepted(candidate, window)), limit)
LaneIds(db, candidate, window, limit) == Take(Among(Lane(db), Accepted(candidate, window)), limit)

\* Mutant: the lane continues the head instead of starting over.
RankedIdsContinuing(db, head, candidate, window, limit) ==
    LET ids == HeadIds(head, candidate, window, limit) IN
    IF Len(ids) = limit THEN ids
    ELSE ids \o LaneIds(db, candidate, window, limit - Len(ids))

\* ranked_ids: the head when it fills the page, else the lane from its start.
RankedIds(db, head, candidate, window, limit) ==
    LET ids == HeadIds(head, candidate, window, limit) IN
    IF Len(ids) = limit THEN ids ELSE LaneIds(db, candidate, window, limit)

\* local_sorted_ids: the strongest of a small candidate, by the cached keys.
LocalSortedIds(keys, candidate, window, limit) ==
    LET known == {p \in Accepted(candidate, window) : keys[p] # None} IN
    Take(Strongest(keys, known), limit)

UsesKeys(candidate, sort) ==
    sort # "newest" /\ candidate.form = "finite" /\ Cardinality(candidate.ids) <= SmallSort
UsesHead(candidate, sort) == sort # "newest" /\ ~UsesKeys(candidate, sort)

\* newest_ids and its kin: a finite candidate is walked as it is, any other over POSTS.
NewestIds(db, candidate, window) ==
    Newest(IF candidate.form = "finite" THEN Accepted(candidate, window)
           ELSE Accepted(candidate, window) \cap Live(db))

\* post_ids
PostIds(db, head, keys, candidate, sort, window, limit) ==
    CASE UsesKeys(candidate, sort) -> LocalSortedIds(keys, candidate, window, limit)
      [] UsesHead(candidate, sort) -> RankedIds(db, head, candidate, window, limit)
      [] sort = "newest" -> Take(NewestIds(db, candidate, window), limit)

\* favorite_partition: the candidate among the favourites, and outside of them.
Favored(candidate, ranks) == Conjunction(<<candidate, Finite(ranks.available)>>)
Ordinary(candidate, ranks) == Conjunction(<<candidate, Cofinite(ranks.available)>>)

\* favorite_ordered_ids
FavoriteOrderedIds(db, head, keys, candidate, ranks, sort, window, limit) ==
    IF ranks = None THEN PostIds(db, head, keys, candidate, sort, window, limit)
    ELSE LET first == Take(Among(FavoriteOrder(ranks, sort),
                                 Accepted(Favored(candidate, ranks), window)), limit)
         IN  IF Len(first) = limit THEN first
             ELSE first \o PostIds(db, head, keys, Ordinary(candidate, ranks), sort, window,
                                   limit - Len(first))

-----------------------------------------------------------------------------
(* Pages of families                                                       *)

Roots(ids) == {RootOf[p] : p \in ToSet(ids)}

\* FamilyPage::offer of a stream, until the page is full.
Offered(page, ids, limit) ==
    FoldLeft(LAMBDA sofar, p : IF Len(sofar) < limit /\ RootOf[p] \notin Roots(sofar)
                               THEN Append(sofar, p) ELSE sofar,
             page, ids)

\* local_sorted_family_ids: the strongest post of each family, the strongest first.
LocalSortedFamilyIds(keys, candidate, window, limit) ==
    LET known == {p \in Accepted(candidate, window) : keys[p] # None} IN
    Take(Offered(<<>>, Strongest(keys, known), Cardinality(Post)), limit)

\* extend_ranked_family_page: the head is offered, then the lane from its start.
ExtendRankedFamilyPage(page, db, head, candidate, window, limit) ==
    Offered(Offered(page, Among(head, Accepted(candidate, window)), limit),
            Among(Lane(db), Accepted(candidate, window)), limit)

\* newest_family_ids and newest_bitmap_family_ids
ExtendNewestFamilyPage(page, db, candidate, window, limit) ==
    Offered(page, NewestIds(db, candidate, window), limit)

\* extend_family_page
ExtendFamilyPage(page, db, head, keys, candidate, sort, window, limit) ==
    CASE UsesKeys(candidate, sort) ->
            Offered(page, LocalSortedFamilyIds(keys, candidate, window, limit - Len(page)), limit)
      [] UsesHead(candidate, sort) ->
            ExtendRankedFamilyPage(page, db, head, candidate, window, limit)
      [] sort = "newest" -> ExtendNewestFamilyPage(page, db, candidate, window, limit)

\* favorite_ordered_family_ids
FamilyIds(db, head, keys, candidate, ranks, sort, window, limit) ==
    IF ranks = None THEN ExtendFamilyPage(<<>>, db, head, keys, candidate, sort, window, limit)
    ELSE LET first == Offered(<<>>, Among(FavoriteOrder(ranks, sort),
                                          Accepted(Favored(candidate, ranks), window)), limit)
         IN  IF Len(first) = limit THEN first
             ELSE ExtendFamilyPage(first, db, head, keys, Ordinary(candidate, ranks), sort,
                                   window, limit)

PageIds(db, head, keys, ranks, ask, candidate, window) ==
    IF ask.grouped
    THEN FamilyIds(db, head, keys, candidate, ranks, ask.sort, window, ask.limit)
    ELSE FavoriteOrderedIds(db, head, keys, candidate, ranks, ask.sort, window, ask.limit)

-----------------------------------------------------------------------------
(* What a page promises, said without windows, heads, keys or ranks        *)

InDays(p, dates) ==
    /\ dates.first = None \/ dates.first <= DayOf[p]
    /\ dates.last = None \/ DayOf[p] <= dates.last

Matching(db, favorites, ask) ==
    {p \in Live(db) : /\ InDays(p, Normalized(ask.dates))
                      /\ CASE ask.query = "all" -> TRUE
                           [] ask.query = "tag" -> db[p].tagged
                           [] ask.query = "nottag" -> ~db[p].tagged
                           [] ask.query = "favorites" -> p \in favorites}

\* Every post that matches, favourites first, each half in the order of the sort; and
\* of those, when grouped, the first of each family.
Ordering(db, favorites, ask) ==
    LET matching == Matching(db, favorites, ask)
        half(ids) == BySort(ask.sort, SortKeys(db), ids)
        all == half(matching \cap favorites) \o half(matching \ favorites)
        leads == {i \in DOMAIN all : \A j \in 1 .. i - 1 : RootOf[all[j]] # RootOf[all[i]]}
    IN  IF ask.grouped THEN Among(all, {all[i] : i \in leads}) ELSE all
================================================================================
