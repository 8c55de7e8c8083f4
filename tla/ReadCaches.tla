------------------------------- MODULE ReadCaches -------------------------------
(***************************************************************************)
(* Searches beside absorbs, over the caches the index keeps of its lanes   *)
(* (index.rs): the records vault, the head of a ranked lane, the sort keys *)
(* of every post, and the favourites in rank order.  A search reads one    *)
(* snapshot but fills and reads caches that belong to no snapshot; an      *)
(* absorb mends them one after another once its commit is visible.         *)
(*                                                                         *)
(* One search runs at a time, on the refresh thread (Retrieval); absorbs   *)
(* take turns at the write lock of the kin atlas.  As searches alone fill, *)
(* looking a cache up and putting what was missing are one step.  The      *)
(* window fills too, but once: Index::post reads one record at its launch, *)
(* when a viewer is restored, and may be overtaken as a search is; that    *)
(* fill is left out.                                                       *)
(***************************************************************************)
EXTENDS Pages

CONSTANTS
    Score,      \* scores of posts
    Favorites,  \* bound: the favourites a search may be given
    Ask,        \* what a lone search, over caches not yet filled, may ask
    Again,      \* bound: what the searches of a longer run may ask
    Absorbed,   \* bound: the posts absorbs bring
    MayFail,    \* whether the atlas may fail to take a committed change
    MaxAbsorbs, \* bound: absorbs
    MaxToggles  \* bound: searches before which favourites were toggled

ASSUME ReadCachesAssumption ==
    /\ Score \subseteq Int /\ Favorites \subseteq SUBSET Post
    /\ Ask \subseteq [query : {"all", "tag", "nottag", "favorites"}, sort : {"newest", "score"},
                     dates : [first : Nat \cup {None}, last : Nat \cup {None}],
                     grouped : BOOLEAN, limit : Nat]
    /\ None \notin [source : [ids : SUBSET Post, arc : Nat], available : SUBSET Post, score : Seq(Post)]
    /\ Again \subseteq Ask /\ Absorbed \subseteq Post
    /\ MayFail \in BOOLEAN
    /\ MaxAbsorbs \in Nat /\ MaxToggles \in Nat

VARIABLES
    db,         \* the records of the last commit
    source,     \* the favourites the last search was given, and which Arc they are
    records,    \* RecordVault
    head,       \* SortHeadVault, of the one ranked sort
    keys,       \* SortKeyVault, of the one ranked sort
    ranks,      \* FavoriteRankVault
    writer,     \* the absorb under way, from its commit to its last eviction
    reader,     \* the search under way, or the last one answered
    stale,      \* history: what an overtaken fill or a torn absorb left wrong
    absorbs

vars == <<db, source, records, head, keys, ranks, writer, reader, stale, absorbs>>

Record == [score : Score, tagged : BOOLEAN]
Idle == [pc |-> "idle"]
NothingStale == [records |-> {}, head |-> FALSE, keys |-> {}, ranks |-> FALSE]

Init ==
    /\ db \in [Post -> Record \cup {None}]
    /\ source = [ids |-> {}, arc |-> 0]
    /\ records = [p \in Post |-> None]
    /\ head = None /\ keys = None /\ ranks = None
    /\ writer = Idle /\ reader = Idle
    /\ stale = NothingStale
    /\ absorbs = 0

-----------------------------------------------------------------------------
(* The search                                                              *)

Candidate(r) == CandidateSet(r.db, r.ask.query, IF r.ranks = None THEN {} ELSE r.ranks.available)

\* A page of ids, still to be hydrated unless it is empty.
Answer(r, ids, count) ==
    [r EXCEPT !.pc = IF ids = <<>> THEN "answered" ELSE "hydrate", !.ids = ids, !.count = count,
              !.tail = IF r.ask.limit > 0 /\ Len(ids) = r.ask.limit THEN "open" ELSE "exhausted"]

\* What toggles since the last search make of the favourites: a new Arc, unless none fell.
Toggled(ids) == IF ids = source.ids THEN source ELSE [ids |-> ids, arc |-> source.arc + 1]

\* search_corpus up to its window: an empty one is answered at once.
Begin(ask, given) ==
    /\ given.arc <= MaxToggles
    /\ source' = given
    /\ reader.pc \in {"idle", "answered"}
    /\ LET window == DateWindow(db, Normalized(ask.dates))
           begun == [pc |-> IF given.ids = {} THEN "page" ELSE "rank", ask |-> ask, db |-> db,
                     source |-> given, window |-> window, ranks |-> None,
                     ids |-> <<>>, shown |-> <<>>, tail |-> "exhausted", count |-> 0,
                     missed |-> {},
                     alone |-> writer = Idle,
                     sound |-> writer = Idle /\ stale = NothingStale]
       IN  reader' = IF window.ids = {} THEN Answer(begun, <<>>, 0) ELSE begun
    /\ UNCHANGED <<db, records, head, keys, ranks, writer, stale, absorbs>>

\* Mutant: ranks serve whatever favourites a search is given.
RankOfAnyArc ==
    /\ reader.pc = "rank"
    /\ ranks' = IF ranks # None THEN ranks ELSE FavoriteRanks(reader.db, reader.source)
    /\ reader' = [reader EXCEPT !.pc = "page", !.ranks = ranks']
    /\ UNCHANGED <<db, source, records, head, keys, writer, stale, absorbs>>

\* favorite_ranks: cached ranks serve the Arc they were made of, and no other.
Rank ==
    /\ reader.pc = "rank"
    /\ IF ranks # None /\ ranks.source = reader.source
       THEN reader' = [reader EXCEPT !.pc = "page", !.ranks = ranks] /\ UNCHANGED <<ranks, stale>>
       ELSE /\ ranks' = FavoriteRanks(reader.db, reader.source)
            /\ reader' = [reader EXCEPT !.pc = "page", !.ranks = ranks']
            /\ stale' = [stale EXCEPT !.ranks = reader.missed \cap reader.source.ids # {}]
    /\ UNCHANGED <<db, source, records, head, keys, writer, absorbs>>

\* The candidate whose order needs a cache: the ordinary part, once favourites have not
\* filled the page.
Rest(r) == IF r.ranks = None THEN Candidate(r) ELSE Ordinary(Candidate(r), r.ranks)
FilledByFavorites(r) ==
    /\ r.ranks # None
    /\ LET favored == Among(FavoriteOrder(r.ranks, r.ask.sort),
                            Accepted(Favored(Candidate(r), r.ranks), r.window))
       IN  Len(IF r.ask.grouped THEN Offered(<<>>, favored, r.ask.limit) ELSE favored) >= r.ask.limit

\* The page itself: sort_head or sort_keys, looked up or filled from the snapshot.  A
\* grouped page reads the atlas, which an absorb under way holds.
Page ==
    /\ reader.pc = "page"
    /\ reader.ask.grouped => writer = Idle
    /\ LET r == reader
           readsHead == ~FilledByFavorites(r) /\ UsesHead(Rest(r), r.ask.sort)
           readsKeys == ~FilledByFavorites(r) /\ UsesKeys(Rest(r), r.ask.sort)
       IN  /\ head' = IF readsHead THEN SortHead(r.db, head) ELSE head
           /\ keys' = IF readsKeys THEN DenseKeys(r.db, keys) ELSE keys
           /\ stale' = [stale EXCEPT !.head = IF head' = head THEN @ ELSE r.missed # {},
                                     !.keys = IF keys' = keys THEN @ ELSE r.missed]
           /\ reader' = Answer(r, PageIds(r.db, head', keys', r.ranks, r.ask, Candidate(r), r.window),
                               CandidateCount(r.db, Candidate(r), r.window))
    /\ UNCHANGED <<db, source, records, ranks, writer, absorbs>>

\* One id of the page: its cached record, else the snapshot's, which is then cached.
Hydrate ==
    /\ reader.pc = "hydrate"
    /\ LET p == reader.ids[Len(reader.shown) + 1] IN
       /\ reader' = [reader EXCEPT
              !.shown = Append(@, IF records[p] # None THEN records[p] ELSE reader.db[p]),
              !.pc = IF Len(reader.shown) + 1 = Len(reader.ids) THEN "answered" ELSE "hydrate"]
       /\ records' = [records EXCEPT ![p] = IF @ # None THEN @ ELSE reader.db[p]]
       /\ stale' = IF records[p] = None /\ reader.db[p] # None /\ p \in reader.missed
                   THEN [stale EXCEPT !.records = @ \cup {p}] ELSE stale
    /\ UNCHANGED <<db, source, head, keys, ranks, writer, absorbs>>

-----------------------------------------------------------------------------
(* The absorb                                                              *)

\* The snapshot of a search under way no longer is the last commit.  An answer has been
\* sent by now: it is forgotten.
Overtake(p) ==
    reader' = IF reader.pc \in {"idle", "answered"} THEN Idle
              ELSE [reader EXCEPT !.missed = @ \cup {p}, !.alone = FALSE, !.sound = FALSE]

\* absorb_harvest_with: the commit of a record, or of its retraction.
Absorb(p, record) ==
    /\ writer = Idle
    /\ absorbs < MaxAbsorbs
    /\ record # db[p]
    /\ reader.pc # "idle" => reader.ask \in Again
    /\ db' = [db EXCEPT ![p] = record]
    /\ absorbs' = absorbs + 1
    /\ Overtake(p)
    /\ \/ writer' = [pc |-> "records", post |-> p, record |-> record] /\ UNCHANGED stale
       \/ /\ MayFail        \* atlas.apply: the error returns before the first eviction
          /\ stale' = [records |-> stale.records \cup {q \in {p} : records[q] # None},
                       head |-> stale.head \/ head # None,
                       keys |-> stale.keys \cup {q \in {p} : keys # None},
                       ranks |-> stale.ranks \/ (ranks # None /\ p \in ranks.source.ids)]
          /\ UNCHANGED writer
    /\ UNCHANGED <<source, records, head, keys, ranks>>

EvictRecords ==
    /\ writer.pc = "records"
    /\ records' = [records EXCEPT ![writer.post] = None]
    /\ stale' = [stale EXCEPT !.records = @ \ {writer.post}]
    /\ writer' = [writer EXCEPT !.pc = "heads"]
    /\ UNCHANGED <<db, source, head, keys, ranks, reader, absorbs>>

ClearSortHeads ==
    /\ writer.pc = "heads"
    /\ head' = None
    /\ stale' = [stale EXCEPT !.head = FALSE]
    /\ writer' = [writer EXCEPT !.pc = "keys"]
    /\ UNCHANGED <<db, source, records, keys, ranks, reader, absorbs>>

\* Mutant: a retracted post keeps its key.
RefreshSortKeysOfLive ==
    /\ writer.pc = "keys"
    /\ keys' = IF keys = None \/ writer.record = None THEN keys
               ELSE [keys EXCEPT ![writer.post] = writer.record.score]
    /\ stale' = [stale EXCEPT !.keys = @ \ {writer.post}]
    /\ writer' = [writer EXCEPT !.pc = "ranks"]
    /\ UNCHANGED <<db, source, records, head, ranks, reader, absorbs>>

\* refresh patches the keys of the posts absorbed, and only theirs.
RefreshSortKeys ==
    /\ writer.pc = "keys"
    /\ keys' = IF keys = None THEN None ELSE SetSortKey(keys, writer.post, writer.record)
    /\ stale' = [stale EXCEPT !.keys = @ \ {writer.post}]
    /\ writer' = [writer EXCEPT !.pc = "ranks"]
    /\ UNCHANGED <<db, source, records, head, ranks, reader, absorbs>>

InvalidateFavoriteRanks ==
    /\ writer.pc = "ranks"
    /\ LET drops == ranks # None /\ writer.post \in ranks.source.ids IN
       /\ ranks' = IF drops THEN None ELSE ranks
       /\ stale' = [stale EXCEPT !.ranks = @ /\ ~drops]
    /\ writer' = Idle
    /\ UNCHANGED <<db, source, records, head, keys, reader, absorbs>>

-----------------------------------------------------------------------------
\* Bound: a lone search asks anything, the searches of a longer run what is in Again.
Askable ==
    IF reader.pc = "idle" /\ absorbs = 0 THEN Ask
    ELSE IF reader.pc = "answered" /\ reader.ask \notin Again THEN {} ELSE Again

Next ==
    \/ \E ask \in Askable, ids \in Favorites : Begin(ask, Toggled(ids))
    \/ Rank \/ Page \/ Hydrate
    \/ \E p \in Absorbed, record \in Record \cup {None} : Absorb(p, record)
    \/ EvictRecords \/ ClearSortHeads \/ RefreshSortKeys \/ InvalidateFavoriteRanks

Spec == Init /\ [][Next]_vars

-----------------------------------------------------------------------------
(* Properties                                                              *)

Answered == reader.pc = "answered"
Limit(r) == r.ask.limit
Promised(r) == Ordering(r.db, r.source.ids, r.ask)

\* A grouped, ranked page that asked the strongest `remaining` families of a small
\* candidate, among them families its favourites already show, may stop short.
MayStopShort(r) == r.ranks # None /\ r.ask.grouped /\ UsesKeys(Rest(r), r.ask.sort)

\* Once no absorb is at work, a cache disagrees with the records only where a search
\* that an absorb overtook filled it, or where an absorb failed before its evictions;
\* and no later absorb has repaired it.
CachesFreshUnlessOvertaken ==
    writer = Idle =>
        /\ \A p \in Post \ stale.records : records[p] \in {None, db[p]}
        /\ stale.head \/ head \in {None, LaneHead(db)}
        /\ \A p \in Post \ stale.keys : keys # None => keys[p] = SortKeys(db)[p]
        /\ stale.ranks \/ ranks = None \/ ranks = FavoriteRanks(db, ranks.source)

\* A search that no absorb disturbed, over caches nothing left stale, shows the first
\* posts of its days and query in the promised order, each with its record, and counts
\* them; where its page may stop short it shows fewer of them, but those in order.
PagesExact ==
    Answered /\ reader.sound =>
        LET r == reader IN
        /\ IsPrefix(r.ids, Promised(r))
        /\ MayStopShort(r) \/ r.ids = Take(Promised(r), Limit(r))
        /\ r.shown = [i \in DOMAIN r.ids |-> r.db[r.ids[i]]]
        /\ r.count >= Cardinality(Matching(r.db, r.source.ids, r.ask))
        /\ r.ask.dates = NoDates => r.count = Cardinality(Matching(r.db, r.source.ids, r.ask))

\* Even a search that absorbs overtook shows no post twice, no family twice when it
\* groups, no more than asked for, and none outside its query as its snapshot has it.
NothingTwice ==
    Answered =>
        LET r == reader
            shown == IF r.ask.grouped THEN [i \in DOMAIN r.ids |-> RootOf[r.ids[i]]] ELSE r.ids
        IN  /\ Len(r.ids) <= Limit(r)
            /\ IsInjective(shown)
            /\ \A p \in ToSet(r.ids) : p \in r.window.ids /\ Admits(Candidate(r), p)

\* What tests.rs says of absorbs, "absorption is query visible": a search that begins
\* after every absorb has ended shows what the records hold.
AbsorptionIsQueryVisible ==
    Answered /\ reader.alone /\ ~MayStopShort(reader) => reader.ids = Take(Promised(reader), Limit(reader))

\* What model.rs says of SearchTail: Exhausted is proof that the selector ran dry, so
\* the page then shows everything there is to show.
ExhaustedIsProof ==
    Answered /\ reader.sound /\ reader.tail = "exhausted" => reader.ids = Promised(reader)
================================================================================
