------------------------------ MODULE Index_proof ------------------------------
(***************************************************************************)
(* Proofs about the durable index, IndexStore, and about the posting vault *)
(* before it, PostingVault, for every value of their constants.  The       *)
(* vault's rest on the inductive invariant of the store below it.          *)
(***************************************************************************)
EXTENDS PostingVault, TLAPS, FiniteSetTheorems

-----------------------------------------------------------------------------
(* The inductive invariant                                                 *)

\* What every committed state satisfies.
RowsBelowNext(db) == \A f \in db.facts : f.seq < db.next

Exact(db) == \A k \in Key, p \in Post : Selects(db, k, p) <=> k \in Keys(db.posts[p])

Ranked(db) ==
    \A s \in Sort, r \in Rank, p \in Post :
        <<r, p>> \in db.lane[s] <=> <<r, p>> \in LaneRow(s, p, db.posts[p])

Crawled(db) == db.before # None => \A p \in Post : p >= db.before => p \in db.seen

DbInv(db) == RowsBelowNext(db) /\ Exact(db) /\ Ranked(db) /\ Crawled(db)

\* An open absorb has changed records and lanes only; its batch tells, for each
\* post and key it mentions, whether the record it leaves carries the key, and
\* the postings of the rest are still those of the last commit.
Staging ==
    tx.phase \in {"absorb", "crawl"} =>
        /\ work.facts = live.facts
        /\ work.merged = live.merged
        /\ work.next = live.next
        /\ work.before = live.before
        /\ live.seen \subseteq work.seen
        /\ Ranked(work)
        /\ \A t \in batch : t.add <=> t.key \in Keys(work.posts[t.post])
        /\ \A k \in Key, p \in Post :
              (\A t \in batch : ~(t.key = k /\ t.post = p)) =>
                  (k \in Keys(work.posts[p]) <=> k \in Keys(live.posts[p]))

\* A crawl page covers what lies between the cursor it found and its own.
Paging ==
    tx.phase = "crawl" =>
        /\ tx.cursor # None
        /\ \A p \in Post :
              p >= tx.cursor /\ (live.before # None => p < live.before)
                  => p \in work.seen \/ p \in tx.page

Idle == tx.phase \in {"none", "merge"} => work = live

Merging == tx.phase \in {"merged", "kin"} => DbInv(work)

Unbatched == tx.phase \notin {"absorb", "crawl"} => batch = {}

Quiet == tx.phase = "none" <=> tx = NoTx

IInv ==
    /\ TypeOK
    /\ DbInv(disk)
    /\ DbInv(live)
    /\ Staging
    /\ Paging
    /\ Idle
    /\ Merging
    /\ Unbatched
    /\ Quiet

-----------------------------------------------------------------------------
(* Type correctness                                                        *)

\* Init gives every variable a value of its type.
LEMMA InitType == Init => TypeOK
<1> SUFFICES ASSUME Init PROVE TypeOK
  OBVIOUS
<1>1. EmptyDb \in Db
  BY DEF EmptyDb, Db, Maybe
<1>2. NoTx \in Tx
  BY DEF NoTx, Tx, Phase, Maybe
<1>3. Numbered(EmptyDb) /\ OneWord({})
  BY DEF EmptyDb, Numbered, OneWord
<1> QED
  BY <1>1, <1>2, <1>3, BoundAssumption DEF Init, TypeOK

\* Appending a batch of touches to a state gives a state.
LEMMA AppendedType ==
  ASSUME NEW db \in Db, NEW b \in SUBSET Touch
  PROVE  Appended(db, b) \in Db
<1> DEFINE new == {[seq |-> db.next, key |-> t.key, post |-> t.post, add |-> t.add] : t \in b}
<1>1. new \subseteq Fact
  BY DEF Touch, Fact, Db
<1>2. CASE b = {}
  BY <1>2 DEF Appended
<1>3. CASE b # {}
  <2>1. Appended(db, b) = [db EXCEPT !.facts = @ \cup new, !.next = @ + 1]
    BY <1>3 DEF Appended
  <2>2. db.facts \cup new \subseteq Fact /\ db.next + 1 \in Nat
    BY <1>1 DEF Db
  <2> HIDE DEF new
  <2> QED
    BY <2>1, <2>2 DEF Db
<1> QED
  BY <1>2, <1>3

\* The new row gets the next number, which no row has; a batch that says one thing
\* of each post makes a row that does.
LEMMA AppendedNumbered ==
  ASSUME NEW db \in Db, NEW b \in SUBSET Touch, Numbered(db), OneWord(b)
  PROVE  Numbered(Appended(db, b))
<1> DEFINE row(t) == [seq |-> db.next, key |-> t.key, post |-> t.post, add |-> t.add]
           new == {row(t) : t \in b}
           F == db.facts \cup new
<1>1. CASE b = {}
  BY <1>1 DEF Appended
<1>2. CASE b # {}
  <2>1. Appended(db, b).facts = F /\ Appended(db, b).next = db.next + 1
    BY <1>2 DEF Appended, Db
  <2>2. \A f \in db.facts : f.seq \in Nat /\ f.seq < db.next
    BY DEF Db, Fact, Numbered
  <2>3. db.next \in Nat
    BY DEF Db
  <2>4. \A f \in new : f.seq = db.next
    OBVIOUS
  <2>5. OneWord(new)
    <3>1. \A f \in new : \E t \in b : f.key = t.key /\ f.post = t.post /\ f.add = t.add
      OBVIOUS
    <3> HIDE DEF new
    <3> QED
      BY <3>1 DEF OneWord
  <2>6. \A f \in F : f \in db.facts \/ f \in new
    OBVIOUS
  <2> HIDE DEF new
  <2>7. ASSUME NEW f \in F
        PROVE  f.seq < db.next + 1 /\ OneWord({g \in F : g.seq = f.seq})
    <3>1. CASE f \in db.facts
      <4>1. {g \in F : g.seq = f.seq} = {g \in db.facts : g.seq = f.seq}
        BY <2>2, <2>3, <2>4, <3>1
      <4>2. OneWord({g \in db.facts : g.seq = f.seq})
        BY <3>1 DEF Numbered
      <4>3. f.seq < db.next + 1
        BY <2>2, <2>3, <3>1
      <4> QED
        BY <4>1, <4>2, <4>3
    <3>2. CASE f \in new
      <4>1. {g \in F : g.seq = f.seq} = new
        BY <2>2, <2>3, <2>4, <3>2
      <4>2. f.seq < db.next + 1
        BY <2>3, <2>4, <3>2
      <4> QED
        BY <2>5, <4>1, <4>2
    <3> QED
      BY <2>6, <3>1, <3>2
  <2> QED
    BY <2>1, <2>7 DEF Numbered
<1> QED
  BY <1>1, <1>2

\* Rows that stay say what they said.
LEMMA FewerNumbered ==
  ASSUME NEW db, NEW after, Numbered(db), after.facts \subseteq db.facts, after.next = db.next
  PROVE  Numbered(after)
<1> SUFFICES ASSUME NEW f \in after.facts
             PROVE  f.seq < after.next /\ OneWord({g \in after.facts : g.seq = f.seq})
  BY DEF Numbered
<1>1. f.seq < db.next /\ OneWord({g \in db.facts : g.seq = f.seq})
  BY DEF Numbered
<1> QED
  BY <1>1 DEF OneWord

\* Batch::add and Batch::del keep a batch a set of touches.
LEMMA StagedType ==
  ASSUME NEW b \in SUBSET Touch, NEW ks \in SUBSET Key, NEW p \in Post, NEW add \in BOOLEAN
  PROVE  Staged(b, ks, p, add) \in SUBSET Touch
<1>1. \A k \in ks : [key |-> k, post |-> p, add |-> add] \in Touch
  BY DEF Touch
<1> QED
  BY <1>1 DEF Staged

\* Delta::add and Delta::del take the post out of the other set.
LEMMA StagedOneWord ==
  ASSUME NEW b, NEW ks, NEW p, NEW add, OneWord(b)
  PROVE  OneWord(Staged(b, ks, p, add))
<1> DEFINE old == {t \in b : ~(t.post = p /\ t.key \in ks)}
           new == {[key |-> k, post |-> p, add |-> add] : k \in ks}
<1>1. Staged(b, ks, p, add) = old \cup new
  BY DEF Staged
<1>2. \A t \in new : t.key \in ks /\ t.post = p /\ t.add = add
  OBVIOUS
<1>3. \A t \in old : t \in b /\ ~(t.post = p /\ t.key \in ks)
  OBVIOUS
<1> HIDE DEF old, new
<1> QED
  BY <1>1, <1>2, <1>3 DEF OneWord

\* One turn of absorb_into keeps the types.
LEMMA StageType ==
  ASSUME TypeOK, NEW p \in Post, NEW new \in Maybe(Record), StageRecord(p, new)
  PROVE  TypeOK'
<1>1. StageDelta(batch, p, work.posts[p], new) \subseteq Touch
  <2>1. Keys(work.posts[p]) \subseteq Key /\ Keys(new) \subseteq Key
    BY DEF TypeOK, Db, Keys, Maybe, Record
  <2> QED
    BY <2>1, StagedType DEF StageDelta, TypeOK
<1>2. work' \in Db
  <2>1. [work.posts EXCEPT ![p] = new] \in [Post -> Maybe(Record)]
    BY DEF TypeOK, Db
  <2>2. [s \in Sort |-> (work.lane[s] \ LaneRow(s, p, work.posts[p])) \cup LaneRow(s, p, new)]
           \in [Sort -> SUBSET (Rank \X Post)]
    <3>1. \A s \in Sort : LaneRow(s, p, new) \subseteq Rank \X Post
      BY DEF LaneRow, Maybe, Record
    <3> QED
      BY <3>1 DEF TypeOK, Db
  <2>3. work.seen \cup (IF tx.phase = "crawl" THEN {p} ELSE {}) \subseteq Post
    BY DEF TypeOK, Db
  <2> QED
    BY <2>1, <2>2, <2>3 DEF TypeOK, Db, StageRecord, Relaned
<1>3. tx' \in Tx
  BY DEF TypeOK, Tx, StageRecord
<1>4. OneWord(batch')
  BY StagedOneWord DEF StageRecord, StageDelta, TypeOK
<1>5. Numbered(work')
  <2>1. work'.facts = work.facts /\ work'.next = work.next
    BY DEF StageRecord, TypeOK, Db
  <2> QED
    BY <2>1, FewerNumbered DEF TypeOK
<1> QED
  BY <1>1, <1>2, <1>3, <1>4, <1>5 DEF TypeOK, StageRecord

\* Every step keeps the types.
LEMMA NextType == TypeOK /\ [Next]_vars => TypeOK'
<1> SUFFICES ASSUME TypeOK, [Next]_vars PROVE TypeOK'
  OBVIOUS
<1> USE BoundAssumption
<1>0. OneWord({})
  BY DEF OneWord
<1>1. ASSUME NEW phase \in Phase, NEW page \in SUBSET Post, NEW cursor \in Maybe(Post),
             Begin(phase, page, cursor)
      PROVE  TypeOK'
  BY <1>1 DEF Begin, TypeOK, Tx
<1>2. CASE BeginAbsorb
  BY <1>1, <1>2 DEF BeginAbsorb, Phase, Maybe
<1>3. CASE BeginCrawl
  BY <1>1, <1>3 DEF BeginCrawl, Phase, Maybe
<1>4. CASE BeginMerge \/ BeginKin
  BY <1>1, <1>4 DEF BeginMerge, BeginKin, Phase, Maybe
<1>5. CASE MergeNothing
  BY <1>5 DEF MergeNothing, TypeOK, NoTx, Tx, Phase, Maybe
<1>6. ASSUME NEW p \in Post, NEW new \in Maybe(Record), StageRecord(p, new)
      PROVE  TypeOK'
  BY <1>6, StageType
<1>7. CASE MergeRows
  <2>1. PICK cut \in Rows(work) : MergeUpTo(cut)
    BY <1>7 DEF MergeRows
  <2>2. Folded(work, Taken(work, cut)) \in [Key -> SUBSET Post]
    BY DEF Folded
  <2>3. work' \in Db
    BY <2>1, <2>2 DEF TypeOK, Db, MergeUpTo
  <2>4. Numbered(work')
    <3>1. work'.facts \subseteq work.facts /\ work'.next = work.next
      BY <2>1 DEF MergeUpTo, TypeOK, Db
    <3> QED
      BY <3>1, FewerNumbered DEF TypeOK
  <2> QED
    BY <2>1, <2>3, <2>4 DEF MergeUpTo, TypeOK, Tx, Phase
<1>8. CASE Commit
  <2>1. Appended(work, batch) \in Db
    BY AppendedType DEF TypeOK
  <2>2. live' \in Db
    BY <1>8, <2>1 DEF Commit, Advanced, TypeOK, Db, Tx
  <2>3. Numbered(live')
    <3>1. Numbered(Appended(work, batch))
      BY AppendedNumbered DEF TypeOK
    <3>2. /\ live'.facts = Appended(work, batch).facts
          /\ live'.next = Appended(work, batch).next
      BY <1>8, <2>1 DEF Commit, Advanced, Db
    <3> QED
      BY <3>1, <3>2, FewerNumbered
  <2> QED
    BY <1>0, <1>8, <2>2, <2>3 DEF Commit, TypeOK, NoTx, Tx, Phase, Maybe
<1>9. CASE Abort
  BY <1>0, <1>9 DEF Abort, TypeOK, NoTx, Tx, Phase, Maybe
<1>10. CASE Crash
  BY <1>0, <1>10 DEF Crash, TypeOK, NoTx, Tx, Phase, Maybe
<1>11. CASE Tick
  BY <1>11 DEF Tick, TypeOK
<1>12. CASE UNCHANGED vars
  BY <1>12 DEF vars, TypeOK
<1> QED
  BY <1>2, <1>3, <1>4, <1>5, <1>6, <1>7, <1>8, <1>9, <1>10, <1>11, <1>12 DEF Next

\* Type correctness: no operation leaves a table, the open transaction or the
\* anchor outside its type, a Delta that both adds and removes a post, or a row
\* that append_facts would overwrite.
THEOREM TypeCorrect == Spec => []TypeOK
<1> QED
  BY InitType, NextType, PTL DEF Spec

-----------------------------------------------------------------------------
(* What the operations do to one state                                     *)

\* Folding the oldest rows into the bitmaps and removing them changes no answer:
\* the rows that stay are newer, so the same row has the last word on a post.
LEMMA FoldKeepsAnswers ==
  ASSUME NEW db \in Db, NEW cut \in Nat, NEW k \in Key, NEW p \in Post,
         NEW after, after.merged = Folded(db, Taken(db, cut)),
         after.facts = db.facts \ Taken(db, cut)
  PROVE  Selects(after, k, p) <=> Selects(db, k, p)
<1> DEFINE taken == Taken(db, cut)
           rest == db.facts \ taken
           On(f) == f.key = k /\ f.post = p
<1> USE DEF Taken
<1>1. \A f \in db.facts : f.seq \in Nat
  BY DEF Db, Fact
<1>2. after.facts = rest /\ after.merged = Folded(db, taken)
  OBVIOUS
<1>3. Selects(after, k, p) <=>
        \/ \E f \in rest : On(f) /\ f.add /\ LastWord(rest, f)
        \/ p \in Folded(db, taken)[k] /\ \A f \in rest : ~On(f)
  BY <1>2 DEF Selects
<1>4. p \in Folded(db, taken)[k] <=>
        \/ \E f \in taken : On(f) /\ f.add /\ LastWord(taken, f)
        \/ p \in db.merged[k] /\ \A f \in taken : ~On(f)
  BY DEF Folded
<1>5. \A f \in rest : On(f) => (LastWord(rest, f) <=> LastWord(db.facts, f))
  BY <1>1 DEF LastWord
<1>6. \A f \in taken : (\A g \in rest : ~On(g)) /\ On(f) =>
        (LastWord(taken, f) <=> LastWord(db.facts, f))
  BY <1>1 DEF LastWord
<1>7. \A f \in taken, g \in rest : On(f) /\ On(g) => ~LastWord(db.facts, f)
  BY <1>1 DEF LastWord
<1>8. Selects(db, k, p) <=>
        \/ \E f \in rest : On(f) /\ f.add /\ LastWord(db.facts, f)
        \/ \E f \in taken : On(f) /\ f.add /\ LastWord(db.facts, f)
        \/ p \in db.merged[k] /\ (\A f \in rest : ~On(f)) /\ (\A f \in taken : ~On(f))
  BY DEF Selects
<1> HIDE DEF taken, rest, On
<1> QED
  BY <1>3, <1>4, <1>5, <1>6, <1>7, <1>8

\* Appending a batch as the newest row: the batch decides for what it touches,
\* the old answer stands for the rest.
LEMMA AppendAnswers ==
  ASSUME NEW db \in Db, NEW b \in SUBSET Touch, RowsBelowNext(db),
         NEW k \in Key, NEW p \in Post
  PROVE  Selects(Appended(db, b), k, p) <=>
            \/ \E t \in b : t.key = k /\ t.post = p /\ t.add
            \/ Selects(db, k, p) /\ \A t \in b : ~(t.key = k /\ t.post = p)
<1> DEFINE row(t) == [seq |-> db.next, key |-> t.key, post |-> t.post, add |-> t.add]
           new == {row(t) : t \in b}
           F == db.facts \cup new
           On(f) == f.key = k /\ f.post = p
<1>1. CASE b = {}
  BY <1>1 DEF Appended
<1>2. CASE b # {}
  <2>1. Appended(db, b).facts = F /\ Appended(db, b).merged = db.merged
    BY <1>2 DEF Appended, Db
  <2>2. \A f \in db.facts : f.seq \in Nat /\ f.seq < db.next
    BY DEF Db, Fact, RowsBelowNext
  <2>3. db.next \in Nat
    BY DEF Db
  <2>4. \A f \in new : f.seq = db.next
    OBVIOUS
  <2>5. \A f \in new : LastWord(F, f)
    BY <2>2, <2>3, <2>4 DEF LastWord
  <2>a. \A t \in b : row(t).key = t.key /\ row(t).post = t.post /\ row(t).add = t.add
    OBVIOUS
  <2>b. /\ \A t \in b : row(t) \in new
        /\ \A f \in new : \E t \in b : f = row(t)
    OBVIOUS
  <2>6. (\E f \in new : On(f) /\ f.add) <=> (\E t \in b : On(t) /\ t.add)
    <3> HIDE DEF row, new
    <3> QED
      BY <2>a, <2>b
  <2>7. (\A f \in new : ~On(f)) <=> (\A t \in b : ~On(t))
    <3> HIDE DEF row, new
    <3> QED
      BY <2>a, <2>b
  <2>8. \A f \in db.facts, g \in new : On(f) /\ On(g) => ~LastWord(F, f)
    BY <2>2, <2>3, <2>4 DEF LastWord
  <2>9. \A f \in db.facts : On(f) /\ (\A g \in new : ~On(g)) =>
          (LastWord(F, f) <=> LastWord(db.facts, f))
    BY DEF LastWord
  <2>10. Selects(Appended(db, b), k, p) <=>
          \/ \E f \in F : On(f) /\ f.add /\ LastWord(F, f)
          \/ p \in db.merged[k] /\ \A f \in F : ~On(f)
    BY <2>1 DEF Selects
  <2>11. Selects(db, k, p) <=>
          \/ \E f \in db.facts : On(f) /\ f.add /\ LastWord(db.facts, f)
          \/ p \in db.merged[k] /\ \A f \in db.facts : ~On(f)
    BY DEF Selects
  <2>12. \A f : f \in F <=> f \in db.facts \/ f \in new
    OBVIOUS
  <2> HIDE DEF new, F, On
  <2>13. Selects(Appended(db, b), k, p) <=>
            \/ \E t \in b : On(t) /\ t.add
            \/ Selects(db, k, p) /\ \A t \in b : ~On(t)
    BY <2>5, <2>6, <2>7, <2>8, <2>9, <2>10, <2>11, <2>12
  <2> QED
    BY <2>13 DEF On
<1> QED
  BY <1>1, <1>2

\* Appending leaves the other tables alone and keeps every row below the next.
LEMMA AppendFrame ==
  ASSUME NEW db \in Db, NEW b \in SUBSET Touch, RowsBelowNext(db)
  PROVE  LET after == Appended(db, b)
         IN  /\ RowsBelowNext(after)
             /\ after.posts = db.posts
             /\ after.lane = db.lane
             /\ after.before = db.before
             /\ after.seen = db.seen
<1>1. CASE b = {}
  BY <1>1 DEF Appended
<1>2. CASE b # {}
  <2> DEFINE new == {[seq |-> db.next, key |-> t.key, post |-> t.post, add |-> t.add] : t \in b}
  <2>1. Appended(db, b) = [db EXCEPT !.facts = @ \cup new, !.next = @ + 1]
    BY <1>2 DEF Appended
  <2>2. \A f \in new : f.seq = db.next
    OBVIOUS
  <2>3. \A f \in db.facts : f.seq \in Nat
    BY DEF Db, Fact
  <2>4. db.next \in Nat
    BY DEF Db
  <2> HIDE DEF new
  <2> QED
    BY <2>1, <2>2, <2>3, <2>4 DEF RowsBelowNext, Db
<1> QED
  BY <1>1, <1>2

-----------------------------------------------------------------------------
(* The invariant is inductive                                              *)

\* A fresh index holds nothing, and answers nothing.
LEMMA EmptyDbInv == DbInv(EmptyDb)
<1>1. EmptyDb.facts = {} /\ EmptyDb.before = None
  BY DEF EmptyDb
<1>2. \A k \in Key : EmptyDb.merged[k] = {}
  BY DEF EmptyDb
<1>3. \A s \in Sort : EmptyDb.lane[s] = {}
  BY DEF EmptyDb
<1>4. \A p \in Post : EmptyDb.posts[p] = None
  BY DEF EmptyDb
<1> QED
  BY <1>1, <1>2, <1>3, <1>4 DEF DbInv, RowsBelowNext, Exact, Ranked, Crawled, Selects, Keys, LaneRow

\* An empty index satisfies the invariant.
LEMMA InitInv == Init => IInv
<1> SUFFICES ASSUME Init PROVE IInv
  OBVIOUS
<1>1. TypeOK
  BY InitType
<1>2. DbInv(disk) /\ DbInv(live)
  BY EmptyDbInv DEF Init
<1>3. tx.phase = "none"
  BY DEF Init, NoTx
<1> QED
  BY <1>1, <1>2, <1>3 DEF Init, IInv, Staging, Paging, Idle, Merging, Unbatched, Quiet

\* A transaction begins on the last commit with nothing staged.
LEMMA BeginInv ==
  ASSUME IInv, TypeOK', NEW phase \in {"absorb", "crawl", "merge", "kin"},
         NEW page \in SUBSET Post, NEW cursor \in Maybe(Post), Begin(phase, page, cursor),
         phase = "crawl" =>
            /\ cursor # None
            /\ \A p \in Post : p >= cursor /\ (live.before # None => p < live.before) => p \in page
  PROVE  IInv'
<1>1. tx.phase = "none" /\ batch = {} /\ work = live
  BY DEF Begin, IInv, NoTx, Idle, Unbatched
<1>2. UNCHANGED <<disk, live, work, batch>> /\ tx'.phase = phase /\ tx'.page = page
        /\ tx'.cursor = cursor
  BY DEF Begin
<1>3. DbInv(disk)' /\ DbInv(live)'
  BY <1>2 DEF IInv
<1>4. Staging'
  BY <1>1, <1>2 DEF Staging, IInv, DbInv
<1>5. Paging'
  BY <1>2 DEF Paging
<1>6. Idle' /\ Merging' /\ Unbatched' /\ Quiet'
  BY <1>1, <1>2 DEF Idle, Merging, Unbatched, Quiet, NoTx, IInv
<1> QED
  BY <1>3, <1>4, <1>5, <1>6 DEF IInv

\* Dropping the transaction leaves the committed states as they were.
LEMMA DropInv ==
  ASSUME IInv, TypeOK', live' \in {live, disk}, UNCHANGED disk,
         work' = live', batch' = {}, tx' = NoTx
  PROVE  IInv'
<1>1. DbInv(disk)' /\ DbInv(live)'
  BY DEF IInv
<1>2. tx'.phase = "none"
  BY DEF NoTx
<1> QED
  BY <1>1, <1>2 DEF IInv, Staging, Paging, Idle, Merging, Unbatched, Quiet

\* What is staged for a post: what was staged before on keys that did not change,
\* and one touch for each key that did.
LEMMA StagedRows ==
  ASSUME NEW b, NEW p, NEW old, NEW new, NEW t
  PROVE  t \in StageDelta(b, p, old, new) <=>
            \/ /\ t \in b
               /\ ~(t.post = p /\ t.key \in Keys(old) \ Keys(new))
               /\ ~(t.post = p /\ t.key \in Keys(new) \ Keys(old))
            \/ \E k \in Keys(old) \ Keys(new) : t = [key |-> k, post |-> p, add |-> FALSE]
            \/ \E k \in Keys(new) \ Keys(old) : t = [key |-> k, post |-> p, add |-> TRUE]
<1> DEFINE gone == Keys(old) \ Keys(new)
           come == Keys(new) \ Keys(old)
           b1 == Staged(b, gone, p, FALSE)
<1>1. t \in b1 <=>
        \/ t \in b /\ ~(t.post = p /\ t.key \in gone)
        \/ \E k \in gone : t = [key |-> k, post |-> p, add |-> FALSE]
  BY DEF Staged
<1>2. t \in StageDelta(b, p, old, new) <=>
        \/ t \in b1 /\ ~(t.post = p /\ t.key \in come)
        \/ \E k \in come : t = [key |-> k, post |-> p, add |-> TRUE]
  BY DEF StageDelta, Staged
<1>3. \A k \in gone : ~([key |-> k, post |-> p, add |-> FALSE].key \in come)
  OBVIOUS
<1> HIDE DEF b1
<1> QED
  BY <1>1, <1>2, <1>3

\* A staged touch says whether the record it leaves behind carries the key.
LEMMA StagedTouches ==
  ASSUME NEW b, NEW p, NEW old, NEW new, NEW t \in StageDelta(b, p, old, new)
  PROVE  \/ t \in b /\ t.post # p
         \/ t \in b /\ t.post = p /\ (t.key \in Keys(old) <=> t.key \in Keys(new))
         \/ t.post = p /\ (t.add <=> t.key \in Keys(new))
<1>1. CASE \E k \in Keys(new) \ Keys(old) : t = [key |-> k, post |-> p, add |-> TRUE]
  BY <1>1
<1>2. CASE \E k \in Keys(old) \ Keys(new) : t = [key |-> k, post |-> p, add |-> FALSE]
  BY <1>2
<1> QED
  BY <1>1, <1>2, StagedRows

\* Nothing staged is forgotten: a later touch takes the place of an earlier one.
LEMMA StagedCovers ==
  ASSUME NEW b, NEW p, NEW old, NEW new, NEW t \in b
  PROVE  \E u \in StageDelta(b, p, old, new) : u.post = t.post /\ u.key = t.key
<1> DEFINE del == [key |-> t.key, post |-> p, add |-> FALSE]
           add == [key |-> t.key, post |-> p, add |-> TRUE]
<1>1. CASE t.post = p /\ t.key \in Keys(old) \ Keys(new)
  <2>1. del \in StageDelta(b, p, old, new)
    BY <1>1, StagedRows
  <2> QED
    BY <1>1, <2>1
<1>2. CASE t.post = p /\ t.key \in Keys(new) \ Keys(old)
  <2>1. add \in StageDelta(b, p, old, new)
    BY <1>2, StagedRows
  <2> QED
    BY <1>2, <2>1
<1>3. CASE ~(t.post = p /\ t.key \in Keys(old) \ Keys(new)) /\ ~(t.post = p /\ t.key \in Keys(new) \ Keys(old))
  BY <1>3, StagedRows
<1> QED
  BY <1>1, <1>2, <1>3

\* A key on which the two records differ is touched.
LEMMA StagedChanges ==
  ASSUME NEW b, NEW p, NEW old, NEW new, NEW k, k \in Keys(old) <=> k \notin Keys(new)
  PROVE  \E u \in StageDelta(b, p, old, new) : u.post = p /\ u.key = k
<1> DEFINE del == [key |-> k, post |-> p, add |-> FALSE]
           add == [key |-> k, post |-> p, add |-> TRUE]
<1>1. CASE k \in Keys(old)
  <2>1. del \in StageDelta(b, p, old, new)
    BY <1>1, StagedRows
  <2> QED
    BY <2>1
<1>2. CASE k \in Keys(new)
  <2>1. add \in StageDelta(b, p, old, new)
    BY <1>2, StagedRows
  <2> QED
    BY <2>1
<1> QED
  BY <1>1, <1>2

\* One turn of absorb_into keeps the batch and the records in step.
LEMMA StageInv ==
  ASSUME IInv, TypeOK', NEW p \in Post, NEW new \in Maybe(Record), StageRecord(p, new)
  PROVE  IInv'
<1> DEFINE old == work.posts[p]
           b == StageDelta(batch, p, old, new)
<1>1. /\ tx.phase \in {"absorb", "crawl"} /\ p \in tx.page
      /\ tx'.phase = tx.phase /\ tx'.cursor = tx.cursor
      /\ tx.page \ {p} \subseteq tx'.page
      /\ UNCHANGED <<disk, live>>
      /\ batch' = b
  BY DEF StageRecord, IInv, TypeOK, Tx
<1>2. /\ work'.posts = [work.posts EXCEPT ![p] = new]
      /\ work'.lane = [s \in Sort |-> (work.lane[s] \ LaneRow(s, p, old)) \cup LaneRow(s, p, new)]
      /\ work'.seen = work.seen \cup (IF tx.phase = "crawl" THEN {p} ELSE {})
      /\ work'.facts = work.facts /\ work'.merged = work.merged
      /\ work'.next = work.next /\ work'.before = work.before
  BY DEF StageRecord, Relaned, IInv, TypeOK, Db
<1>3. old \in Maybe(Record) /\ work.posts \in [Post -> Maybe(Record)] /\ work.lane \in [Sort -> SUBSET (Rank \X Post)]
  BY DEF IInv, TypeOK, Db
<1>4. work'.posts[p] = new /\ \A q \in Post \ {p} : work'.posts[q] = work.posts[q]
  BY <1>2, <1>3
<1>5. batch \in SUBSET Touch
  BY DEF IInv, TypeOK
<1>6. \A t \in Touch : t.post \in Post /\ t.key \in Key
  BY DEF Touch
<1>7. Staging
  BY DEF IInv
<1>8. DbInv(disk)' /\ DbInv(live)'
  BY <1>1 DEF IInv
<1>9. Ranked(work)'
  <2> SUFFICES ASSUME NEW s \in Sort, NEW r \in Rank, NEW q \in Post
               PROVE  <<r, q>> \in work'.lane[s] <=> <<r, q>> \in LaneRow(s, q, work'.posts[q])
    BY DEF Ranked
  <2>1. <<r, q>> \in work.lane[s] <=> <<r, q>> \in LaneRow(s, q, work.posts[q])
    BY <1>1, <1>7 DEF Staging, Ranked
  <2>2. <<r, q>> \in work'.lane[s] <=>
          (<<r, q>> \in work.lane[s] /\ <<r, q>> \notin LaneRow(s, p, old))
            \/ <<r, q>> \in LaneRow(s, p, new)
    BY <1>2
  <2>3. CASE q = p
    BY <2>1, <2>2, <2>3, <1>4
  <2>4. CASE q # p
    <3>1. <<r, q>> \notin LaneRow(s, p, old) /\ <<r, q>> \notin LaneRow(s, p, new)
      BY <2>4 DEF LaneRow
    <3> QED
      BY <3>1, <2>1, <2>2, <2>4, <1>4
  <2> QED
    BY <2>3, <2>4
<1>10. \A t \in b : t.add <=> t.key \in Keys(work'.posts[t.post])
  <2> SUFFICES ASSUME NEW t \in b PROVE t.add <=> t.key \in Keys(work'.posts[t.post])
    OBVIOUS
  <2>1. \/ t \in batch /\ t.post # p
        \/ t \in batch /\ t.post = p /\ (t.key \in Keys(old) <=> t.key \in Keys(new))
        \/ t.post = p /\ (t.add <=> t.key \in Keys(new))
    BY StagedTouches
  <2>2. t \in batch => (t.add <=> t.key \in Keys(work.posts[t.post])) /\ t.post \in Post
    BY <1>1, <1>5, <1>6, <1>7 DEF Staging
  <2> HIDE DEF b
  <2> QED
    BY <2>1, <2>2, <1>4
<1>11. \A k \in Key, q \in Post :
         (\A t \in b : ~(t.key = k /\ t.post = q)) =>
             (k \in Keys(work'.posts[q]) <=> k \in Keys(live.posts[q]))
  <2> SUFFICES ASSUME NEW k \in Key, NEW q \in Post, \A t \in b : ~(t.key = k /\ t.post = q)
               PROVE  k \in Keys(work'.posts[q]) <=> k \in Keys(live.posts[q])
    OBVIOUS
  <2>1. \A t \in batch : ~(t.key = k /\ t.post = q)
    <3>1. \A t \in batch : \E u \in b : u.post = t.post /\ u.key = t.key
      BY StagedCovers
    <3> HIDE DEF b
    <3> QED
      BY <3>1
  <2>2. k \in Keys(work.posts[q]) <=> k \in Keys(live.posts[q])
    BY <2>1, <1>1, <1>7 DEF Staging
  <2>3. q = p => (k \in Keys(old) <=> k \in Keys(new))
    BY StagedChanges
  <2> QED
    BY <2>2, <2>3, <1>4
<1>12. Staging'
  <2> HIDE DEF b
  <2> QED
    BY <1>1, <1>2, <1>7, <1>9, <1>10, <1>11 DEF Staging
<1>13. Paging'
  BY <1>1, <1>2 DEF Paging, IInv
<1>14. Idle' /\ Merging' /\ Unbatched' /\ Quiet'
  BY <1>1 DEF Idle, Merging, Unbatched, Quiet, NoTx
<1> QED
  BY <1>8, <1>12, <1>13, <1>14 DEF IInv

\* Merging changes bitmaps and the queue, and no answer.
LEMMA MergeInv ==
  ASSUME IInv, TypeOK', MergeRows
  PROVE  IInv'
<1>1. PICK cut \in Rows(work) : MergeUpTo(cut)
  BY DEF MergeRows
<1>2. tx.phase = "merge" /\ tx'.phase = "merged" /\ UNCHANGED <<disk, live, batch>>
  BY <1>1 DEF MergeUpTo, IInv, TypeOK, Tx
<1>3. work = live /\ work \in Db /\ cut \in Nat
  <2>1. work = live /\ work \in Db
    BY <1>2 DEF IInv, Idle, TypeOK
  <2>2. \A f \in work.facts : f.seq \in Nat
    BY <2>1 DEF Db, Fact
  <2> QED
    BY <2>1, <2>2 DEF Rows
<1>4. DbInv(work)
  BY <1>3 DEF IInv
<1>5. /\ work'.posts = work.posts /\ work'.lane = work.lane /\ work'.next = work.next
      /\ work'.before = work.before /\ work'.seen = work.seen
      /\ work'.facts \subseteq work.facts
  BY <1>1, <1>3 DEF Db, MergeUpTo
<1>6. \A k \in Key, p \in Post : Selects(work', k, p) <=> Selects(work, k, p)
  <2> SUFFICES ASSUME NEW k \in Key, NEW p \in Post
               PROVE  Selects(work', k, p) <=> Selects(work, k, p)
    OBVIOUS
  <2>1. /\ work'.merged = Folded(work, Taken(work, cut))
        /\ work'.facts = work.facts \ Taken(work, cut)
    BY <1>1, <1>3 DEF Db, MergeUpTo
  <2> QED
    BY <1>3, <2>1, FoldKeepsAnswers
<1>7. DbInv(work')
  BY <1>4, <1>5, <1>6 DEF DbInv, RowsBelowNext, Exact, Ranked, Crawled
<1>8. DbInv(disk)' /\ DbInv(live)'
  BY <1>2 DEF IInv
<1> QED
  BY <1>2, <1>7, <1>8 DEF IInv, Staging, Paging, Idle, Merging, Unbatched, Quiet, NoTx

\* What is committed satisfies the invariant of a committed state.
LEMMA CommitInv ==
  ASSUME IInv, TypeOK', Commit
  PROVE  IInv'
<1> DEFINE db == Appended(work, batch)
<1>1. live' = Advanced(db) /\ disk' \in {disk, live'} /\ work' = live' /\ batch' = {} /\ tx' = NoTx
  BY DEF Commit
<1>2. work \in Db /\ batch \in SUBSET Touch /\ tx \in Tx /\ db \in Db
  BY AppendedType DEF IInv, TypeOK
<1>3. RowsBelowNext(work)
  <2>1. CASE tx.phase \in {"absorb", "crawl"}
    BY <2>1 DEF IInv, Staging, DbInv, RowsBelowNext
  <2>2. CASE tx.phase \in {"merged", "kin"}
    BY <2>2 DEF IInv, Merging, DbInv
  <2> QED
    BY <2>1, <2>2 DEF Commit
<1>4. /\ RowsBelowNext(db) /\ db.posts = work.posts /\ db.lane = work.lane
      /\ db.before = work.before /\ db.seen = work.seen
  BY <1>2, <1>3, AppendFrame
<1>5. Ranked(db)
  BY <1>4 DEF Commit, IInv, Staging, Merging, DbInv, Ranked
<1>6. Exact(db)
  <2> SUFFICES ASSUME NEW k \in Key, NEW p \in Post
               PROVE  Selects(db, k, p) <=> k \in Keys(work.posts[p])
    BY <1>4 DEF Exact
  <2>1. Selects(db, k, p) <=>
            \/ \E t \in batch : t.key = k /\ t.post = p /\ t.add
            \/ Selects(work, k, p) /\ \A t \in batch : ~(t.key = k /\ t.post = p)
    BY <1>2, <1>3, AppendAnswers
  <2>2. CASE tx.phase \in {"merged", "kin"}
    BY <2>1, <2>2 DEF IInv, Merging, Unbatched, DbInv, Exact
  <2>3. CASE tx.phase \in {"absorb", "crawl"}
    <3>1. Selects(work, k, p) <=> Selects(live, k, p)
      BY <2>3 DEF IInv, Staging, Selects, LastWord
    <3>2. Selects(live, k, p) <=> k \in Keys(live.posts[p])
      BY DEF IInv, DbInv, Exact
    <3>3. \A t \in batch : t.add <=> t.key \in Keys(work.posts[t.post])
      BY <2>3 DEF IInv, Staging
    <3>4. (\A t \in batch : ~(t.key = k /\ t.post = p)) =>
             (k \in Keys(work.posts[p]) <=> k \in Keys(live.posts[p]))
      BY <2>3 DEF IInv, Staging
    <3> HIDE DEF db
    <3> QED
      BY <2>1, <3>1, <3>2, <3>3, <3>4
  <2> QED
    BY <2>2, <2>3 DEF Commit
<1>7. /\ live'.facts = db.facts /\ live'.merged = db.merged /\ live'.next = db.next
      /\ live'.posts = db.posts /\ live'.lane = db.lane /\ live'.seen = db.seen
      /\ live'.before = IF tx.phase = "crawl" THEN tx.cursor ELSE db.before
  BY <1>1, <1>2 DEF Advanced, Db
<1>8. Crawled(live')
  <2>1. CASE tx.phase = "crawl"
    <3>1. /\ tx.page = {} /\ live.seen \subseteq work.seen
          /\ Crawled(live)
          /\ \A p \in Post : p >= tx.cursor /\ (live.before # None => p < live.before)
               => p \in work.seen
      BY <2>1 DEF Commit, IInv, Staging, Paging, DbInv
    <3>2. live'.before = tx.cursor /\ live'.seen = work.seen
      BY <2>1, <1>4, <1>7
    <3>3. live \in Db
      BY DEF IInv, TypeOK
    <3>4. \A p \in Post : live.before # None => p < live.before \/ p >= live.before
      <4>1. live.before # None => live.before \in Nat
        BY <3>3, PostAssumption DEF Db, Maybe
      <4>2. \A p \in Post : p \in Nat
        BY PostAssumption
      <4> QED
        BY <4>1, <4>2
    <3> QED
      BY <3>1, <3>2, <3>4 DEF Crawled
  <2>2. CASE tx.phase = "absorb"
    BY <2>2, <1>4, <1>7 DEF IInv, Staging, DbInv, Crawled
  <2>3. CASE tx.phase \in {"merged", "kin"}
    BY <2>3, <1>4, <1>7 DEF IInv, Merging, DbInv, Crawled
  <2> QED
    BY <2>1, <2>2, <2>3 DEF Commit
<1> HIDE DEF db
<1>9. DbInv(live')
  <2>1. RowsBelowNext(live') /\ Ranked(live')
    BY <1>4, <1>5, <1>7 DEF RowsBelowNext, Ranked
  <2>2. Exact(live')
    BY <1>6, <1>7 DEF Exact, Selects, LastWord
  <2> QED
    BY <2>1, <2>2, <1>8 DEF DbInv
<1>10. DbInv(disk')
  BY <1>1, <1>9 DEF IInv
<1>11. tx'.phase = "none"
  BY <1>1 DEF NoTx
<1> QED
  BY <1>1, <1>9, <1>10, <1>11 DEF IInv, Staging, Paging, Idle, Merging, Unbatched, Quiet

\* Every step keeps the invariant.
LEMMA NextInv == IInv /\ [Next]_vars => IInv'
<1> SUFFICES ASSUME IInv, [Next]_vars PROVE IInv'
  OBVIOUS
<1>1. TypeOK'
  BY NextType DEF IInv
<1>2. CASE BeginAbsorb
  <2>1. PICK page \in SUBSET Post : Begin("absorb", page, None)
    BY <1>2 DEF BeginAbsorb
  <2> QED
    BY <1>1, <2>1, BeginInv DEF Maybe
<1>3. CASE BeginCrawl
  <2>1. PICK page \in SUBSET Post, least \in Post :
          /\ page = {p \in Post : least <= p /\ (live.before # None => p < live.before)}
          /\ Begin("crawl", page, least)
    BY <1>3 DEF BeginCrawl
  <2>2. least # None /\ \A p \in Post : p >= least => least <= p
    BY PostAssumption, NoneAssumption
  <2> QED
    BY <1>1, <2>1, <2>2, BeginInv DEF Maybe
<1>4. CASE BeginMerge \/ BeginKin
  BY <1>1, <1>4, BeginInv DEF BeginMerge, BeginKin, Maybe
<1>5. CASE MergeNothing
  <2>1. work = live /\ batch = {}
    BY <1>5 DEF MergeNothing, IInv, Idle, Unbatched
  <2> QED
    BY <1>1, <1>5, <2>1, DropInv DEF MergeNothing
<1>6. ASSUME NEW p \in Post, NEW new \in Maybe(Record), StageRecord(p, new)
      PROVE  IInv'
  BY <1>1, <1>6, StageInv
<1>7. CASE MergeRows
  BY <1>1, <1>7, MergeInv
<1>8. CASE Commit
  BY <1>1, <1>8, CommitInv
<1>9. CASE Abort
  BY <1>1, <1>9, DropInv DEF Abort
<1>10. CASE Crash
  BY <1>1, <1>10, DropInv DEF Crash
<1>11. CASE Tick
  <2>1. UNCHANGED <<disk, live, work, batch, tx>>
    BY <1>11 DEF Tick
  <2> QED
    BY <1>1, <2>1 DEF IInv, DbInv, RowsBelowNext, Exact, Ranked, Crawled, Staging, Paging,
       Idle, Merging, Unbatched, Quiet
<1>12. CASE UNCHANGED vars
  <2>1. UNCHANGED <<disk, live, work, batch, tx>>
    BY <1>12 DEF vars
  <2> QED
    BY <1>1, <2>1 DEF IInv, DbInv, RowsBelowNext, Exact, Ranked, Crawled, Staging, Paging,
       Idle, Merging, Unbatched, Quiet
<1> QED
  BY <1>2, <1>3, <1>4, <1>5, <1>6, <1>7, <1>8, <1>9, <1>10, <1>11, <1>12 DEF Next

\* The strengthened invariant holds in every reachable state.
THEOREM Invariance == Spec => []IInv
<1> QED
  BY InitInv, NextInv, PTL DEF Spec

\* PostingsExact, for any number of posts, keys and pending rows: whatever was
\* absorbed, merged, aborted or lost in a crash, postings and records agree.
THEOREM PostingsAreExact == Spec => []PostingsExact
<1>1. IInv => PostingsExact
  <2> SUFFICES ASSUME IInv, NEW db \in {disk, live}, NEW k \in Key
               PROVE  Posting(db, k) = {p \in Post : k \in Keys(db.posts[p])}
    BY DEF PostingsExact
  <2>1. Exact(db)
    BY DEF IInv, DbInv
  <2> QED
    BY <2>1 DEF Posting, Exact
<1> QED
  BY <1>1, Invariance, PTL

\* LanesExact: score and favourite lanes hold exactly the stored records' rows.
THEOREM LanesAreExact == Spec => []LanesExact
<1>1. IInv => LanesExact
  BY DEF IInv, DbInv, Ranked, LanesExact
<1> QED
  BY <1>1, Invariance, PTL

\* CrawlLeavesNoGap: the cursor never passes a post that was not absorbed.
THEOREM CrawlIsGapless == Spec => []CrawlLeavesNoGap
<1>1. IInv => CrawlLeavesNoGap
  BY DEF IInv, DbInv, Crawled, CrawlLeavesNoGap
<1> QED
  BY <1>1, Invariance, PTL

-----------------------------------------------------------------------------
(* IndexStore implements Catalogue                                         *)

\* Exact postings are the answers the records imply.
LEMMA AnswersOfRecords ==
  ASSUME NEW db, Exact(db)
  PROVE  [k \in Key |-> Posting(db, k)] = CatalogueOf!Answers(db.posts)
<1>1. \A k \in Key : Posting(db, k) = CatalogueOf!Carriers(db.posts, k)
  BY DEF Exact, Posting, Keys, CatalogueOf!Carriers
<1> QED
  BY <1>1 DEF CatalogueOf!Answers

\* A step commits, crashes, or is invisible from outside.
LEMMA StepKinds ==
  ASSUME IInv, [Next]_vars
  PROVE  Commit \/ Crash \/ UNCHANGED <<disk, live, session>>
BY DEF Next, vars, BeginAbsorb, BeginCrawl, BeginMerge, BeginKin, Begin, MergeNothing, StageRecord,
       MergeRows, MergeUpTo, Abort, Tick

\* Every step of the store is a step of the catalogue, or none.
LEMMA StepRefines ==
  ASSUME IInv, IInv', [Next]_vars
  PROVE  [CatalogueOf!Next]_(CatalogueOf!vars)
<1>1. Exact(live') /\ Exact(disk) /\ Exact(live)
  BY DEF IInv, DbInv
<1>2. CASE Commit
  <2>1. live' \in Db
    BY DEF IInv, TypeOK
  <2>2. live'.posts \in [Post -> Record \cup {None}]
    BY <2>1 DEF Db, Maybe
  <2>3. disk'.posts \in {disk.posts, live'.posts} /\ session' = session
    BY <1>2 DEF Commit
  <2>4. [k \in Key |-> Posting(live', k)] = CatalogueOf!Answers(live'.posts)
    BY <1>1, AnswersOfRecords
  <2> QED
    BY <2>2, <2>3, <2>4 DEF CatalogueOf!Next, CatalogueOf!Land
<1>3. CASE Crash
  <2>1. live' = disk /\ disk' = disk /\ session' = session + 1
    BY <1>3 DEF Crash
  <2>2. [k \in Key |-> Posting(live', k)] = CatalogueOf!Answers(disk.posts)
    BY <1>1, <2>1, AnswersOfRecords
  <2> QED
    BY <2>1, <2>2 DEF CatalogueOf!Next, CatalogueOf!Crash
<1>4. CASE UNCHANGED <<disk, live, session>>
  BY <1>4 DEF CatalogueOf!vars
<1> QED
  BY <1>2, <1>3, <1>4, StepKinds

\* ImplementsCatalogue: to a reader of committed states, absorbing is one atomic
\* step, merging is none, and a crash is a return to the durable records.
THEOREM StoreImplementsCatalogue == Spec => ImplementsCatalogue
<1>1. Init => CatalogueOf!Init
  <2> SUFFICES ASSUME Init PROVE CatalogueOf!Init
    OBVIOUS
  <2>1. IInv
    BY InitInv
  <2>2. [k \in Key |-> Posting(live, k)] = CatalogueOf!Answers(live.posts)
    BY <2>1, AnswersOfRecords DEF IInv, DbInv
  <2>3. live.posts = [p \in Post |-> None] /\ disk.posts = live.posts /\ session = 0
    BY DEF Init, EmptyDb
  <2> QED
    BY <2>2, <2>3 DEF CatalogueOf!Init
<1>2. IInv /\ IInv' /\ [Next]_vars => [CatalogueOf!Next]_(CatalogueOf!vars)
  BY StepRefines
<1> QED
  BY <1>1, <1>2, Invariance, PTL DEF Spec, ImplementsCatalogue, CatalogueOf!Spec

-----------------------------------------------------------------------------
(* The posting vault                                                       *)

\* An open merge differs from the last commit only in the keys it rewrites.
Rewritten == \A k \in Key \ Rewriting : work.merged[k] = live.merged[k]

\* A search reads one exact state, and knows every key rewritten since.
Snapshot ==
    /\ Exact(snap)
    /\ filling # None => searching /\ filling \in Key
    /\ searching =>
        /\ Rewriting \subseteq overtaken
        /\ \A k \in Key \ overtaken : snap.merged[k] = live.merged[k]

\* A slot that is not suspect is that of the last commit, and of the open
\* search's snapshot; the open merge has evicted the slots it rewrites.
Slots ==
    \A k \in Key \ suspect : vault[k] # None =>
        /\ vault[k] = live.merged[k]
        /\ searching => vault[k] = snap.merged[k]
        /\ k \notin Rewriting

VInv ==
    /\ IInv
    /\ VaultTypeOK
    /\ Rewritten
    /\ Snapshot
    /\ Slots

-----------------------------------------------------------------------------

\* Outside a merge the open transaction has the pending facts of the last commit.
LEMMA NothingRewritten ==
  ASSUME IInv, tx.phase \notin {"merged", "kin"}
  PROVE  Rewriting = {} /\ work.merged = live.merged
<1>1. tx.phase \in Phase
  BY DEF IInv, TypeOK, Tx
<1>2. work.facts = live.facts /\ work.merged = live.merged
  BY <1>1 DEF IInv, Idle, Staging, Phase
<1> QED
  BY <1>2 DEF Rewriting

\* Every step of the composition is a step of the store, or none.
LEMMA VaultStepOfStore ==
  ASSUME [VaultNext]_allVars
  PROVE  [Next]_vars
<1>1. CASE MergeEvicting
  BY <1>1 DEF MergeEvicting, Next, MergeRows
<1>2. CASE Restart
  BY <1>2 DEF Restart, Next
<1>3. CASE Write
  BY <1>3 DEF Write, Next
<1>4. CASE OpenSearch \/ (\E k \in Key : Miss(k)) \/ Fill \/ CloseSearch
  BY <1>4 DEF OpenSearch, Miss, Fill, CloseSearch
<1>5. CASE UNCHANGED allVars
  BY <1>5 DEF allVars
<1> QED
  BY <1>1, <1>2, <1>3, <1>4, <1>5 DEF VaultNext

\* The invariant holds of an empty index and an empty vault.
LEMMA VaultInitInv == VaultInit => VInv
<1> SUFFICES ASSUME VaultInit PROVE VInv
  OBVIOUS
<1>1. IInv
  BY InitInv DEF VaultInit
<1>2. Exact(snap) /\ snap \in Db
  BY <1>1 DEF VaultInit, Init, IInv, TypeOK, DbInv
<1>3. Rewriting = {} /\ work.merged = live.merged
  BY DEF VaultInit, Init, Rewriting
<1> QED
  BY <1>1, <1>2, <1>3 DEF VInv, VaultInit, VaultTypeOK, Maybe, Rewritten, Snapshot, Slots

\* Taking rows rewrites the keys those rows name and no other.
LEMMA MergeRewrites ==
  ASSUME IInv, NEW cut \in Rows(work), MergeUpTo(cut)
  PROVE  /\ Rewriting = {}
         /\ Rewriting' = {f.key : f \in Taken(work, cut)}
         /\ Rewritten'
<1>1. tx.phase = "merge" /\ work \in Db /\ live' = live
  BY DEF MergeUpTo, IInv, TypeOK
<1>2. work.facts = live.facts /\ work.merged = live.merged /\ Rewriting = {}
  BY <1>1 DEF IInv, Idle, Rewriting
<1>3. work'.facts = work.facts \ Taken(work, cut) /\ work'.merged = Folded(work, Taken(work, cut))
  BY <1>1 DEF MergeUpTo, Db
<1>4. Rewriting' = {f.key : f \in Taken(work, cut)}
  BY <1>1, <1>2, <1>3 DEF Rewriting, Taken
<1>5. ASSUME NEW k \in Key, k \notin {f.key : f \in Taken(work, cut)}
      PROVE  work'.merged[k] = live'.merged[k]
  <2>1. \A f \in Taken(work, cut) : f.key # k
    BY <1>5
  <2>2. work.merged[k] \subseteq Post
    BY <1>1 DEF Db
  <2>3. Folded(work, Taken(work, cut))[k] = {p \in Post : p \in work.merged[k]}
    BY <2>1 DEF Folded
  <2> QED
    BY <1>1, <1>2, <1>3, <2>2, <2>3
<1> QED
  BY <1>2, <1>4, <1>5 DEF Rewritten

\* What a commit makes of each posting bitmap is what its transaction had.
LEMMA CommitMerges ==
  ASSUME IInv, Commit
  PROVE  live'.merged = work.merged /\ Rewriting' = {} /\ work'.merged = live'.merged
<1>1. live' = Advanced(Appended(work, batch)) /\ work' = live'
  BY DEF Commit
<1>2. work \in Db /\ batch \in SUBSET Touch /\ Appended(work, batch) \in Db
  BY AppendedType DEF IInv, TypeOK
<1>3. Appended(work, batch).merged = work.merged
  BY <1>2 DEF Appended, Db
<1>4. live'.merged = Appended(work, batch).merged
  BY <1>1, <1>2 DEF Advanced, Db
<1> QED
  BY <1>1, <1>3, <1>4 DEF Rewriting

\* A write that is no merge keeps what the vault relies on.
LEMMA WriteInv ==
  ASSUME VInv, IInv', Write, UNCHANGED vaultVars
  PROVE  Rewritten' /\ Snapshot' /\ Slots'
<1>1. UNCHANGED <<vault, searching, snap, filling, overtaken, suspect>>
  BY DEF vaultVars
<1>2. CASE Commit
  <2>1. live'.merged = work.merged /\ Rewriting' = {} /\ work'.merged = live'.merged
    BY <1>2, CommitMerges DEF VInv
  <2>2. Rewritten'
    BY <2>1 DEF Rewritten
  <2>3. \A k \in Key \ Rewriting : live'.merged[k] = live.merged[k]
    BY <2>1 DEF VInv, Rewritten
  <2>4. Snapshot'
    BY <1>1, <2>1, <2>3 DEF VInv, Snapshot
  <2>5. Slots'
    BY <1>1, <2>1, <2>3 DEF VInv, Slots
  <2> QED
    BY <2>2, <2>4, <2>5
<1>3. CASE Abort \/ MergeNothing
  <2>1. live' = live /\ tx' = NoTx
    BY <1>3 DEF Abort, MergeNothing
  <2>2. tx'.phase = "none"
    BY <2>1 DEF NoTx
  <2>3. work' = live'
    BY <2>2 DEF IInv, Idle
  <2>4. Rewriting' = {} /\ work'.merged = live'.merged
    BY <2>3 DEF Rewriting
  <2> QED
    BY <1>1, <2>1, <2>4 DEF VInv, Rewritten, Snapshot, Slots
<1>4. CASE BeginAbsorb \/ BeginCrawl \/ BeginMerge \/ BeginKin \/ Tick
  <2>1. UNCHANGED <<live, work>>
    BY <1>4 DEF BeginAbsorb, BeginCrawl, BeginMerge, BeginKin, Begin, Tick
  <2>2. Rewriting' = Rewriting
    BY <2>1 DEF Rewriting
  <2> QED
    BY <1>1, <2>1, <2>2 DEF VInv, Rewritten, Snapshot, Slots
<1>5. ASSUME NEW p \in Post, NEW new \in Maybe(Record), StageRecord(p, new)
      PROVE  Rewritten' /\ Snapshot' /\ Slots'
  <2>1. live' = live /\ work'.facts = work.facts /\ work'.merged = work.merged
    BY <1>5 DEF StageRecord, VInv, IInv, TypeOK, Db
  <2>2. Rewriting' = Rewriting
    BY <2>1 DEF Rewriting
  <2> QED
    BY <1>1, <2>1, <2>2 DEF VInv, Rewritten, Snapshot, Slots
<1> QED
  BY <1>2, <1>3, <1>4, <1>5 DEF Write

\* A search opens on the last commit; whatever an open merge rewrites counts as
\* overtaking it.
LEMMA OpenInv ==
  ASSUME VInv, IInv', OpenSearch
  PROVE  VInv'
<1>1. UNCHANGED <<live, work, vault, filling, suspect>> /\ snap' = live
        /\ searching' = TRUE /\ overtaken' = Rewriting
  BY DEF OpenSearch, vars
<1>2. Rewriting' = Rewriting
  BY <1>1 DEF Rewriting
<1>3. live \in Db /\ Exact(live)
  BY DEF VInv, IInv, TypeOK, DbInv
<1>4. Rewriting \subseteq Key
  BY <1>3 DEF Rewriting, Db, Fact
<1>5. VaultTypeOK'
  BY <1>1, <1>3, <1>4 DEF VInv, VaultTypeOK
<1>6. Rewritten' /\ Snapshot' /\ Slots'
  BY <1>1, <1>2, <1>3 DEF VInv, Rewritten, Snapshot, Slots
<1> QED
  BY <1>5, <1>6 DEF VInv

\* A slot filled from the snapshot is suspect exactly when the search had been
\* overtaken there; a full vault only loses slots.
LEMMA FillInv ==
  ASSUME VInv, IInv', Fill
  PROVE  VInv'
<1>1. /\ UNCHANGED <<live, work, searching, snap, overtaken>> /\ filling' = None
      /\ filling # None /\ filling \in Key /\ searching
      /\ suspect' = IF filling \in overtaken THEN suspect \cup {filling} ELSE suspect \ {filling}
  BY DEF Fill, vars, VInv, Snapshot
<1>2. PICK coldest \in SUBSET Held :
        vault' = [j \in Key |-> IF j = filling THEN snap.merged[filling]
                                ELSE IF j \in coldest THEN None ELSE vault[j]]
  BY DEF Fill, Put
<1>3. Rewriting' = Rewriting
  BY <1>1 DEF Rewriting
<1>4. VaultTypeOK'
  <2>1. snap.merged[filling] \in SUBSET Post
    BY <1>1 DEF VInv, VaultTypeOK, Db
  <2>2. vault' \in [Key -> Maybe(SUBSET Post)]
    BY <1>2, <2>1 DEF VInv, VaultTypeOK, Maybe
  <2> QED
    BY <1>1, <2>2 DEF VInv, VaultTypeOK, Maybe
<1>5. Rewritten' /\ Snapshot'
  BY <1>1, <1>3 DEF VInv, Rewritten, Snapshot
<1>6. Slots'
  <2> SUFFICES ASSUME NEW k \in Key \ suspect', vault'[k] # None
               PROVE  /\ vault'[k] = live.merged[k]
                      /\ vault'[k] = snap.merged[k]
                      /\ k \notin Rewriting
    BY <1>1, <1>3 DEF Slots
  <2>1. CASE k = filling
    <3>1. k \notin overtaken
      BY <1>1, <2>1
    <3>2. vault'[k] = snap.merged[k]
      BY <1>2, <2>1
    <3> QED
      BY <1>1, <3>1, <3>2 DEF VInv, Snapshot
  <2>2. CASE k # filling
    <3>1. vault'[k] = vault[k] /\ k \notin suspect
      BY <1>1, <1>2, <2>2
    <3> QED
      BY <1>1, <3>1 DEF VInv, Slots
  <2> QED
    BY <2>1, <2>2
<1> QED
  BY <1>4, <1>5, <1>6 DEF VInv

\* A merge evicts what it rewrites before anyone can see the rewriting.
LEMMA MergeEvictingInv ==
  ASSUME VInv, IInv', MergeEvicting
  PROVE  VInv'
<1>1. PICK cut \in Rows(work) :
        /\ MergeUpTo(cut)
        /\ vault' = [k \in Key |-> IF k \in {f.key : f \in Taken(work, cut)} THEN None ELSE vault[k]]
        /\ suspect' = suspect \ {f.key : f \in Taken(work, cut)}
        /\ overtaken' = IF searching THEN overtaken \cup {f.key : f \in Taken(work, cut)}
                        ELSE overtaken
        /\ UNCHANGED <<searching, snap, filling>>
  BY DEF MergeEvicting
<1> DEFINE rewritten == {f.key : f \in Taken(work, cut)}
<1>2. Rewriting = {} /\ Rewriting' = rewritten /\ Rewritten' /\ live' = live
  BY <1>1, MergeRewrites DEF VInv, MergeUpTo
<1>3. rewritten \subseteq Key
  BY DEF Taken, VInv, IInv, TypeOK, Db, Fact
<1> HIDE DEF rewritten
<1>4. VaultTypeOK'
  BY <1>1, <1>3 DEF VInv, VaultTypeOK, Maybe, rewritten
<1>5. Snapshot'
  BY <1>1, <1>2 DEF VInv, Snapshot, rewritten
<1>6. Slots'
  BY <1>1, <1>2 DEF VInv, Slots, rewritten
<1> QED
  BY <1>2, <1>4, <1>5, <1>6 DEF VInv

\* Every step keeps the invariant.
LEMMA VaultNextInv == VInv /\ [VaultNext]_allVars => VInv'
<1> SUFFICES ASSUME VInv, [VaultNext]_allVars PROVE VInv'
  OBVIOUS
<1>1. IInv'
  BY VaultStepOfStore, NextInv DEF VInv
<1>2. CASE OpenSearch
  BY <1>1, <1>2, OpenInv
<1>3. ASSUME NEW k \in Key, Miss(k) PROVE VInv'
  <2>1. UNCHANGED <<live, work, vault, searching, snap, overtaken, suspect>>
          /\ searching /\ filling' = k
    BY <1>3 DEF Miss, vars
  <2>2. Rewriting' = Rewriting
    BY <2>1 DEF Rewriting
  <2> QED
    BY <1>1, <2>1, <2>2 DEF VInv, VaultTypeOK, Maybe, Rewritten, Snapshot, Slots
<1>4. CASE Fill
  BY <1>1, <1>4, FillInv
<1>5. CASE CloseSearch
  <2>1. UNCHANGED <<live, work, vault, suspect>> /\ searching' = FALSE /\ snap' = EmptyDb
          /\ filling' = None /\ overtaken' = {}
    BY <1>5 DEF CloseSearch, vars
  <2>2. Rewriting' = Rewriting
    BY <2>1 DEF Rewriting
  <2>3. EmptyDb \in Db
    BY DEF EmptyDb, Db, Maybe
  <2> QED
    BY <1>1, <2>1, <2>2, <2>3, EmptyDbInv
       DEF VInv, VaultTypeOK, Maybe, Rewritten, Snapshot, Slots, DbInv
<1>6. CASE MergeEvicting
  BY <1>1, <1>6, MergeEvictingInv
<1>7. CASE Restart
  <2>1. live' = disk /\ work' = disk /\ vault' = [k \in Key |-> None] /\ searching' = FALSE
          /\ snap' = EmptyDb /\ filling' = None /\ overtaken' = {} /\ suspect' = {}
    BY <1>7 DEF Restart, Crash
  <2>2. Rewriting' = {}
    BY <2>1 DEF Rewriting
  <2>3. EmptyDb \in Db
    BY DEF EmptyDb, Db, Maybe
  <2> QED
    BY <1>1, <2>1, <2>2, <2>3, EmptyDbInv
       DEF VInv, VaultTypeOK, Maybe, Rewritten, Snapshot, Slots, DbInv
<1>8. CASE Write /\ UNCHANGED vaultVars
  <2>1. VaultTypeOK'
    BY <1>8 DEF VInv, VaultTypeOK, vaultVars
  <2> QED
    BY <1>1, <1>8, <2>1, WriteInv DEF VInv
<1>9. CASE UNCHANGED allVars
  BY <1>1, <1>9 DEF allVars, vars, vaultVars, VInv, VaultTypeOK, Rewritten, Snapshot, Slots, Rewriting
<1> QED
  BY <1>2, <1>3, <1>4, <1>5, <1>6, <1>7, <1>8, <1>9 DEF VaultNext

\* The invariant of the store and its vault.
THEOREM VaultInvariance == VaultSpec => []VInv
<1> QED
  BY VaultInitInv, VaultNextInv, PTL DEF VaultSpec

\* SlotsFreshUnlessOvertaken: for any number of keys and any vault size, a slot
\* goes stale in one way only, a search overtaken by a merge of its key.
THEOREM SlotsAreFresh == VaultSpec => []SlotsFreshUnlessOvertaken
<1>1. VInv => SlotsFreshUnlessOvertaken
  BY DEF VInv, Slots, SlotsFreshUnlessOvertaken, Held
<1> QED
  BY <1>1, VaultInvariance, PTL

\* SearchesExactUnlessOvertaken: every other posting a search reads is that of
\* the records in its snapshot.
THEOREM SearchesAreExact == VaultSpec => []SearchesExactUnlessOvertaken
<1>1. VInv => SearchesExactUnlessOvertaken
  <2> SUFFICES ASSUME VInv, searching, NEW k \in Key \ suspect
               PROVE  Read(k) = {p \in Post : k \in Keys(snap.posts[p])}
    BY DEF SearchesExactUnlessOvertaken
  <2>1. Exact(snap) /\ snap \in Db
    BY DEF VInv, Snapshot, VaultTypeOK
  <2>2. Posting(snap, k) = {p \in Post : k \in Keys(snap.posts[p])}
    BY <2>1 DEF Posting, Exact
  <2>3. CASE vault[k] = None
    BY <2>2, <2>3 DEF Read
  <2>4. CASE vault[k] # None
    <3>1. vault[k] = snap.merged[k]
      BY <2>4 DEF VInv, Slots
    <3>2. [snap EXCEPT !.merged = [@ EXCEPT ![k] = vault[k]]] = snap
      BY <2>1, <3>1 DEF Db
    <3> QED
      BY <2>2, <2>4, <3>2 DEF Read
  <2> QED
    BY <2>3, <2>4
<1> QED
  BY <1>1, VaultInvariance, PTL

-----------------------------------------------------------------------------
(* The capacity                                                            *)

Within == IsFiniteSet(Held) /\ Cardinality(Held) <= VaultCap

\* A set that loses x elements when it is full, before it gains one, stays within
\* its capacity.
LEMMA PutWithin ==
  ASSUME NEW S, IsFiniteSet(S), Cardinality(S) <= VaultCap, NEW cold \in SUBSET S,
         Cardinality(cold) = IF Cardinality(S) >= VaultCap THEN 1 ELSE 0,
         NEW k, NEW T, T \subseteq (S \ cold) \cup {k}
  PROVE  IsFiniteSet(T) /\ Cardinality(T) <= VaultCap
<1>1. /\ Cardinality(S) \in Nat /\ VaultCap \in Nat /\ VaultCap # 0
      /\ IsFiniteSet(cold) /\ Cardinality(cold) \in Nat
  BY FS_CardinalityType, FS_Subset, VaultAssumption
<1>2. S \cap cold = cold
  OBVIOUS
<1>3. IsFiniteSet(S \ cold) /\ Cardinality(S \ cold) = Cardinality(S) - Cardinality(cold)
  <2>1. /\ IsFiniteSet(S \ cold)
        /\ Cardinality(S \ cold) = Cardinality(S) - Cardinality(S \cap cold)
    BY FS_Difference, ZenonT(30)
  <2> QED
    BY <1>2, <2>1
<1>4. Cardinality(S \ cold) + 1 <= VaultCap /\ Cardinality(S \ cold) \in Nat
  <2>1. Cardinality(S \ cold) \in Nat
    BY <1>3, FS_CardinalityType
  <2>2. Cardinality(S) - Cardinality(cold) + 1 <= VaultCap
    BY <1>1
  <2> QED
    BY <1>3, <2>1, <2>2
<1>5. /\ IsFiniteSet((S \ cold) \cup {k})
      /\ Cardinality((S \ cold) \cup {k}) <= Cardinality(S \ cold) + 1
  BY <1>3, <1>4, FS_AddElement
<1>6. /\ Cardinality((S \ cold) \cup {k}) \in Nat /\ Cardinality(T) \in Nat /\ IsFiniteSet(T)
      /\ Cardinality(T) <= Cardinality((S \ cold) \cup {k})
  BY <1>5, FS_Subset, FS_CardinalityType
<1> QED
  BY <1>1, <1>4, <1>5, <1>6

\* VaultWithinCap: Vault::put never lets the decoded bitmaps exceed VAULT_CAP,
\* however many keys there are (index.rs).
THEOREM VaultIsBounded == VaultSpec => []VaultWithinCap
<1>1. VaultInit => Within
  <2> SUFFICES ASSUME VaultInit PROVE Within
    OBVIOUS
  <2>1. Held = {}
    BY DEF VaultInit, Held
  <2>2. VaultCap \in Nat
    BY VaultAssumption
  <2> QED
    BY <2>1, <2>2, FS_EmptySet DEF Within
<1>2. Within /\ [VaultNext]_allVars => Within'
  <2> SUFFICES ASSUME Within, [VaultNext]_allVars PROVE Within'
    OBVIOUS
  <2>1. ASSUME vault' = vault
        PROVE  Within'
    BY <2>1 DEF Within, Held
  <2>2. ASSUME Held' \subseteq Held
        PROVE  Within'
    <3>1. Cardinality(Held) \in Nat /\ VaultCap \in Nat
      BY FS_CardinalityType, VaultAssumption DEF Within
    <3>2. IsFiniteSet(Held') /\ Cardinality(Held') <= Cardinality(Held) /\ Cardinality(Held') \in Nat
      BY <2>2, FS_Subset, FS_CardinalityType DEF Within
    <3>3. Cardinality(Held') <= VaultCap
      BY <3>1, <3>2 DEF Within
    <3> QED
      BY <3>2, <3>3 DEF Within
  <2>3. CASE Fill
    <3>1. PICK cold \in SUBSET Held :
            /\ Cardinality(cold) = IF Cardinality(Held) >= VaultCap THEN 1 ELSE 0
            /\ vault' = [j \in Key |-> IF j = filling THEN snap.merged[filling]
                                       ELSE IF j \in cold THEN None ELSE vault[j]]
      BY <2>3 DEF Fill, Put
    <3>2. Held' \subseteq (Held \ cold) \cup {filling}
      BY <3>1 DEF Held
    <3>3. IsFiniteSet(Held') /\ Cardinality(Held') <= VaultCap
      BY <3>1, <3>2, PutWithin DEF Within
    <3> QED
      BY <3>3 DEF Within
  <2>4. CASE MergeEvicting
    <3>1. Held' \subseteq Held
      BY <2>4 DEF MergeEvicting, Held
    <3> QED
      BY <2>2, <3>1
  <2>5. CASE Restart
    <3>1. Held' \subseteq Held
      BY <2>5 DEF Restart, Held
    <3> QED
      BY <2>2, <3>1
  <2>6. CASE OpenSearch \/ (\E k \in Key : Miss(k)) \/ CloseSearch
    BY <2>1, <2>6 DEF OpenSearch, Miss, CloseSearch
  <2>7. CASE UNCHANGED vaultVars
    BY <2>1, <2>7 DEF vaultVars
  <2>8. CASE UNCHANGED allVars
    BY <2>1, <2>8 DEF allVars, vaultVars
  <2> QED
    BY <2>3, <2>4, <2>5, <2>6, <2>7, <2>8 DEF VaultNext
<1>3. Within => VaultWithinCap
  BY DEF Within, VaultWithinCap
<1> QED
  BY <1>1, <1>2, <1>3, PTL DEF VaultSpec
=============================================================================
