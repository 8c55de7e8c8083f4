----------------------------- MODULE IndexStore -----------------------------
(***************************************************************************)
(* The durable index of the viewer (src/.../index.rs over redb): one write *)
(* transaction at a time turns records into the posts table, the ranked    *)
(* lanes and a queue of posting facts; the merge loop folds the oldest     *)
(* facts into the posting bitmaps; most commits are not fsynced, and a     *)
(* crash falls back to the last one that was.                              *)
(*                                                                         *)
(* One redb state is a record Db.  A row of POSTING_FACTS is the set of    *)
(* its facts [seq, key, post, add]; a posting bitmap is a set of posts.    *)
(***************************************************************************)
EXTENDS Naturals, FiniteSets

CONSTANTS
    Post,           \* post ids, numbers: the crawl walks them downwards
    Key,            \* posting::Key: tags of the tag lane, classes of the rating lane
    Sort,           \* the ranked sorts: score and favourite count
    Rank,           \* their values
    None,           \* no record, no cursor
    MergeBatches,   \* FactMergeBudget::batches
    AnchorGap,      \* ANCHOR_GAP, in ticks
    MaxSeq,         \* bound: fact rows appended before the writers stop
    MaxSessions,    \* bound: crashes in one run
    MayFail         \* whether a write transaction may fail half way

ASSUME PostAssumption == Post \subseteq Nat
ASSUME NoneAssumption == None \notin Nat /\ None \notin [keys : SUBSET Key, rank : [Sort -> Rank]]
ASSUME BoundAssumption ==
    /\ MergeBatches \in Nat \ {0}
    /\ AnchorGap \in Nat \ {0}
    /\ MaxSeq \in Nat
    /\ MaxSessions \in Nat
    /\ MayFail \in BOOLEAN

VARIABLES
    disk,       \* the state of the last durable commit
    live,       \* the state of the last commit, which readers see
    work,       \* the state the open write transaction is building
    batch,      \* the FactBatch of the open absorb, before append_facts
    tx,         \* the open write transaction
    anchor,     \* ticks since Scribe::anchor was set
    exposed,    \* history: ticks that the oldest commit not yet fsynced has waited
    session     \* crashes so far

vars == <<disk, live, work, batch, tx, anchor, exposed, session>>

-----------------------------------------------------------------------------
(* Types                                                                   *)

Record == [keys : SUBSET Key, rank : [Sort -> Rank]]
Maybe(S) == S \cup {None}

\* One posting change of one post: Delta::add and Delta::del of one key.
Touch == [key : Key, post : Post, add : BOOLEAN]
Fact == [seq : Nat, key : Key, post : Post, add : BOOLEAN]

Db == [ posts  : [Post -> Maybe(Record)],           \* POSTS
        lane   : [Sort -> SUBSET (Rank \X Post)],   \* SCORE_POSTS, FAV_POSTS
        merged : [Key -> SUBSET Post],              \* TAG_CHUNKS, RATING_CHUNKS
        facts  : SUBSET Fact,                       \* POSTING_FACTS
        next   : Nat,                               \* META posting fact sequence
        before : Maybe(Post),                       \* META crawl cursor
        seen   : SUBSET Post ]                      \* history: posts the crawl absorbed

Phase == {"none", "absorb", "crawl", "merge", "merged", "kin"}
Tx == [phase : Phase, page : SUBSET Post, cursor : Maybe(Post), durable : BOOLEAN]

\* Of each post each key says one thing, added or removed.
OneWord(T) == \A t, u \in T : t.key = u.key /\ t.post = u.post => t.add = u.add

\* Each row was numbered from the sequence, and is a Batch.
Numbered(db) == \A f \in db.facts :
    f.seq < db.next /\ OneWord({g \in db.facts : g.seq = f.seq})

\* The types, and what two of them promise beyond their shape: no Delta, staged or
\* stored, holds a post as added and as removed (a merge would let the addition
\* win, even over a later removal), and no row has a number that append_facts
\* has yet to give (it would overwrite the row).
TypeOK ==
    /\ disk \in Db /\ Numbered(disk)
    /\ live \in Db /\ Numbered(live)
    /\ work \in Db /\ Numbered(work)
    /\ batch \subseteq Touch /\ OneWord(batch)
    /\ tx \in Tx
    /\ anchor \in 0..AnchorGap
    /\ exposed \in 0..AnchorGap
    /\ session \in 0..MaxSessions

-----------------------------------------------------------------------------
(* Reading one state                                                       *)

Keys(r) == IF r = None THEN {} ELSE r.keys

\* The row of post p with record r in the lane of sort s.
LaneRow(s, p, r) == IF r = None THEN {} ELSE {<<r.rank[s], p>>}

\* Fact f is the last word of the facts F on its key and post.
LastWord(F, f) ==
    \A g \in F : g.key = f.key /\ g.post = f.post => g.seq <= f.seq

\* pending_facts assimilates every row in order and read_posting_bitmap lays
\* the result over the merged bitmap: on each post the last row that mentions
\* it decides, and the bitmap decides for the posts no row mentions.
Selects(db, k, p) ==
    \/ \E f \in db.facts : f.key = k /\ f.post = p /\ f.add /\ LastWord(db.facts, f)
    \/ /\ p \in db.merged[k]
       /\ \A f \in db.facts : ~(f.key = k /\ f.post = p)

Posting(db, k) == {p \in Post : Selects(db, k, p)}

-----------------------------------------------------------------------------
(* Write transactions: begin_quick_write, commit, and the two ways out     *)

NoTx == [phase |-> "none", page |-> {}, cursor |-> None, durable |-> FALSE]

EmptyDb ==
    [ posts  |-> [p \in Post |-> None],
      lane   |-> [s \in Sort |-> {}],
      merged |-> [k \in Key |-> {}],
      facts  |-> {},
      next   |-> 1,
      before |-> None,
      seen   |-> {} ]

Init ==
    /\ disk = EmptyDb
    /\ live = EmptyDb
    /\ work = EmptyDb
    /\ batch = {}
    /\ tx = NoTx
    /\ anchor = 0
    /\ exposed = 0
    /\ session = 0

\* redb admits one writer; the transaction starts from the last commit.  The
\* first one to find ANCHOR_GAP elapsed resets the anchor, there and then, and
\* is the one that will be durable.
Begin(phase, page, cursor) ==
    /\ tx = NoTx
    /\ tx' = [phase |-> phase, page |-> page, cursor |-> cursor,
              durable |-> anchor = AnchorGap]
    /\ anchor' = IF anchor = AnchorGap THEN 0 ELSE anchor
    /\ UNCHANGED <<disk, live, work, batch, exposed, session>>

\* Scribe::absorb and absorb_harvest, on the harvest of a warm page, of a family,
\* of an account edit or of a refetch, which absorbs an empty answer too.
BeginAbsorb ==
    /\ work.next <= MaxSeq
    /\ \E page \in SUBSET Post : Begin("absorb", page, None)

\* crawl_once: a page of the newest posts below the cursor; its least id is
\* the cursor the same transaction will write.  An empty page absorbs nothing.
BeginCrawl ==
    /\ work.next <= MaxSeq
    /\ \E page \in SUBSET Post \ {{}}, least \in Post :
        /\ least \in page
        /\ page = {p \in Post : least <= p /\ (live.before # None => p < live.before)}
        /\ Begin("crawl", page, least)

BeginMerge == Begin("merge", {}, None)

\* absorb_kin_crawl and absorb_family write family tables only, none of Db, but
\* take the same lock and the same anchor; what they commit is Commit's.
BeginKin == Begin("kin", {}, None)

\* merge_pending_facts with nothing pending returns and drops its transaction.
MergeNothing ==
    /\ tx.phase = "merge"
    /\ work.facts = {}
    /\ tx' = NoTx
    /\ UNCHANGED <<disk, live, work, batch, anchor, exposed, session>>

-----------------------------------------------------------------------------
(* absorb_into, one record at a time                                       *)

\* Delta::add and Delta::del that leave the post in the other set.
StagedInBoth(b, ks, p, add) == b \cup {[key |-> k, post |-> p, add |-> add] : k \in ks}

\* Batch::add and Batch::del of post p under the keys ks.
Staged(b, ks, p, add) ==
    {t \in b : ~(t.post = p /\ t.key \in ks)}
        \cup {[key |-> k, post |-> p, add |-> add] : k \in ks}

\* stage_record_delta: only the keys that changed are touched.
StageDelta(b, p, old, new) ==
    Staged(Staged(b, Keys(old) \ Keys(new), p, FALSE), Keys(new) \ Keys(old), p, TRUE)

\* An upsert without remove_record_core.
RelanedKeepingOld(db, p, new) == [s \in Sort |-> db.lane[s] \cup LaneRow(s, p, new)]

\* remove_record_core takes the old row out of every lane; the upsert adds the new.
Relaned(db, p, new) ==
    [s \in Sort |-> (db.lane[s] \ LaneRow(s, p, db.posts[p])) \cup LaneRow(s, p, new)]

\* One turn of the loop.  "new" is None for a record that is not indexable: its
\* predecessor is retracted and nothing takes its place.  A page may list the
\* same post again.
StageRecord(p, new) ==
    /\ tx.phase \in {"absorb", "crawl"}
    /\ p \in tx.page
    /\ batch' = StageDelta(batch, p, work.posts[p], new)
    /\ work' = [work EXCEPT
         !.posts = [@ EXCEPT ![p] = new],
         !.lane = Relaned(work, p, new),
         !.seen = @ \cup (IF tx.phase = "crawl" THEN {p} ELSE {})]
    /\ \E again \in {{}, {p}} : tx' = [tx EXCEPT !.page = (@ \ {p}) \cup again]
    /\ UNCHANGED <<disk, live, anchor, exposed, session>>

-----------------------------------------------------------------------------
(* merge_pending_facts                                                     *)

Rows(db) == {f.seq : f \in db.facts}

\* The fold without its subtraction.
FoldedAdditions(db, F) ==
    [k \in Key |-> db.merged[k] \cup
        {p \in Post : \E f \in F : f.key = k /\ f.post = p /\ f.add /\ LastWord(F, f)}]

\* apply_delta_chunks on every key: the assimilated deltas of the rows in F are
\* subtracted and added.
Folded(db, F) ==
    [k \in Key |->
        {p \in Post :
            \/ \E f \in F : f.key = k /\ f.post = p /\ f.add /\ LastWord(F, f)
            \/ p \in db.merged[k] /\ \A f \in F : ~(f.key = k /\ f.post = p)}]

\* Rows taken by a merge whose budget ends at row cut.
Taken(db, cut) == {f \in db.facts : f.seq <= cut}

\* Two wrong merges: one drops rows beyond its budget, one leaves its own behind.
MergeRowsRemovingAll ==
    \E cut \in Rows(work) :
        /\ tx.phase = "merge"
        /\ Cardinality({n \in Rows(work) : n <= cut}) <= MergeBatches
        /\ work' = [work EXCEPT !.merged = Folded(work, Taken(work, cut)), !.facts = {}]
        /\ tx' = [tx EXCEPT !.phase = "merged"]
        /\ UNCHANGED <<disk, live, batch, anchor, exposed, session>>

MergeRowsRemovingNone ==
    \E cut \in Rows(work) :
        /\ tx.phase = "merge"
        /\ Cardinality({n \in Rows(work) : n <= cut}) <= MergeBatches
        /\ work' = [work EXCEPT !.merged = Folded(work, Taken(work, cut))]
        /\ tx' = [tx EXCEPT !.phase = "merged"]
        /\ UNCHANGED <<disk, live, batch, anchor, exposed, session>>

\* collect_pending_fact_rows stops at the budget, in batches or in bytes, and
\* always takes the oldest row; the rows taken are removed.
MergeUpTo(cut) ==
    /\ tx.phase = "merge"
    /\ Cardinality({n \in Rows(work) : n <= cut}) <= MergeBatches
    /\ work' = [work EXCEPT !.merged = Folded(work, Taken(work, cut)),
                            !.facts = @ \ Taken(work, cut)]
    /\ tx' = [tx EXCEPT !.phase = "merged"]
    /\ UNCHANGED <<disk, live, batch, anchor, exposed, session>>

MergeRows == \E cut \in Rows(work) : MergeUpTo(cut)

-----------------------------------------------------------------------------
(* Commit, failure, crash, time                                            *)

\* append_facts: one row for the whole batch, none for an empty one.
Appended(db, b) ==
    IF b = {} THEN db
    ELSE [db EXCEPT
            !.facts = @ \cup {[seq |-> db.next, key |-> t.key, post |-> t.post, add |-> t.add] :
                              t \in b},
            !.next = @ + 1]

\* The crawl cursor is written in the transaction of its page.
Advanced(db) == IF tx.phase = "crawl" THEN [db EXCEPT !.before = tx.cursor] ELSE db

Commit ==
    /\ \/ tx.phase \in {"absorb", "crawl"} /\ tx.page = {}
       \/ tx.phase \in {"merged", "kin"}
    /\ live' = Advanced(Appended(work, batch))
    /\ disk' = IF tx.durable THEN live' ELSE disk
    /\ work' = live'
    /\ batch' = {}
    /\ tx' = NoTx
    /\ exposed' = IF tx.durable THEN 0 ELSE exposed
    /\ UNCHANGED <<anchor, session>>

\* A cursor that outlives the transaction of its page.
AbortKeepingCursor ==
    /\ MayFail
    /\ tx # NoTx
    /\ live' = Advanced(live)
    /\ work' = live'
    /\ batch' = {}
    /\ tx' = NoTx
    /\ UNCHANGED <<disk, anchor, exposed, session>>

\* An error before the commit, or of the commit itself, drops the transaction.
Abort ==
    /\ MayFail
    /\ tx # NoTx
    /\ work' = live
    /\ batch' = {}
    /\ tx' = NoTx
    /\ UNCHANGED <<disk, live, anchor, exposed, session>>

\* The process dies; the next Index::forge reopens what was durable and starts
\* its anchor anew.
Crash ==
    /\ session < MaxSessions
    /\ session' = session + 1
    /\ live' = disk
    /\ work' = disk
    /\ batch' = {}
    /\ tx' = NoTx
    /\ anchor' = 0
    /\ exposed' = 0
    /\ UNCHANGED disk

\* Time passes between transactions, which are short next to ANCHOR_GAP.
Tick ==
    /\ tx = NoTx
    /\ anchor < AnchorGap
    /\ anchor' = anchor + 1
    /\ exposed' = IF live = disk \/ exposed = AnchorGap THEN exposed ELSE exposed + 1
    /\ UNCHANGED <<disk, live, work, batch, tx, session>>

Next ==
    \/ BeginAbsorb
    \/ BeginCrawl
    \/ BeginMerge
    \/ BeginKin
    \/ MergeNothing
    \/ \E p \in Post, new \in Maybe(Record) : StageRecord(p, new)
    \/ MergeRows
    \/ Commit
    \/ Abort
    \/ Crash
    \/ Tick

Spec == Init /\ [][Next]_vars
-----------------------------------------------------------------------------
(* Properties                                                              *)

\* The records that postings and lanes are read from must be the ones stored:
\* at every commit, durable or not, each posting read through the pending facts
\* selects exactly the posts whose record carries the key, however absorbs,
\* partial merges, failures and crashes were interleaved (read_posting_bitmap).
PostingsExact ==
    \A db \in {disk, live}, k \in Key :
        Posting(db, k) = {p \in Post : k \in Keys(db.posts[p])}

\* Each ranked lane holds one row for each stored post, under the rank its
\* record has now (remove_record_core, absorb_into).
LanesExact ==
    \A db \in {disk, live}, s \in Sort, r \in Rank, p \in Post :
        <<r, p>> \in db.lane[s] <=> <<r, p>> \in LaneRow(s, p, db.posts[p])

\* The crawl only moves its cursor together with the page it stands for: no
\* post at or above the cursor was skipped, in memory or after a crash
\* (absorb_crawl_harvest).
CrawlLeavesNoGap ==
    \A db \in {disk, live} :
        db.before # None => \A p \in Post : p >= db.before => p \in db.seen

\* To whoever queries it the index is a set of records and the answers they
\* imply: absorbing is one atomic step and merging is none at all.
CatalogueOf == INSTANCE Catalogue WITH
    records <- live.posts,
    answers <- [k \in Key |-> Posting(live, k)],
    saved <- disk.posts

ImplementsCatalogue == CatalogueOf!Spec

\* "An anchor commit goes durable every ANCHOR_GAP to bound replay": a write
\* that begins when some commit has waited ANCHOR_GAP for its fsync is durable
\* (index.rs:1521-1523).
AnchorBoundsReplay ==
    tx.phase \in {"absorb", "crawl"} /\ exposed = AnchorGap => tx.durable

\* The merge loop runs for ever, redb's write lock does not pass it over for ever,
\* and the disk does not refuse its merges for ever (a failed merge is retried).
Fairness ==
    /\ SF_vars(BeginMerge)
    /\ WF_vars(MergeNothing)
    /\ SF_vars(MergeRows)
    /\ SF_vars(tx.phase = "merged" /\ Commit)
    /\ WF_vars(Commit)
    /\ WF_vars(\E p \in Post, new \in Maybe(Record) : StageRecord(p, new) /\ p \notin tx'.page)

FairSpec == Spec /\ Fairness

\* A fact row that was committed does not stay pending for ever: the queue every
\* read has to replay is always drained (merge_loop).
PendingDrains ==
    \A n \in 1..MaxSeq : n \in Rows(live) ~> n \notin Rows(live)
=============================================================================
