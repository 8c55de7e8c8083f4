--------------------------- MODULE KinAtlas_proof ---------------------------
(***************************************************************************)
(* Proofs about KinAtlas, for every set of posts and all bounds.  First    *)
(* the family tables: parents and children are inverse to each other, a    *)
(* generation names one state of the edges, the kin crawl skips nothing.   *)
(* Then the atlas file: which header may stand before which edges, so that *)
(* its slots are the parents of the tables but for the tears it names.     *)
(***************************************************************************)
EXTENDS KinAtlas, TLAPS

BothWays(t) == \A p, q \in Post : t.parent[p] = q <=> p \in t.children[q]

Gapless(t) ==
    /\ t.before # None => \A p \in Post : p >= t.before => p \in t.known
    /\ t.done => t.known = Post

TablesOK ==
    /\ disk \in Tables /\ live \in Tables /\ work \in Tables
    /\ tx \in Tx
    /\ pc \in Pc

\* What an open transaction keeps.
Working ==
    /\ work.gen = live.gen /\ work.before = live.before /\ work.done = live.done
    /\ live.known \subseteq work.known
    /\ ~tx.changed => work.parent = live.parent
    /\ tx.kind \in {"facts", "crawl"}
    /\ tx.kind = "crawl" =>
        IF tx.cursor = None
        THEN Post \subseteq live.known
        ELSE \A p \in Post : p >= tx.cursor => p \in work.known \cup tx.page

IInv ==
    /\ TablesOK
    /\ BothWays(disk) /\ BothWays(live) /\ BothWays(work)
    /\ Gapless(disk) /\ Gapless(live)
    /\ disk.gen <= live.gen
    /\ disk.gen = live.gen => disk.parent = live.parent
    /\ IF pc = "tx" THEN Working ELSE work = live

-----------------------------------------------------------------------------

\* The largest of two or three naturals is one of them.
LEMMA MaxIsNat ==
    ASSUME NEW a \in Nat, NEW b \in Nat, NEW S, S \subseteq Nat, \A x, y \in S : x = y
    PROVE  /\ Max({a, b} \cup S) \in Nat
           /\ Max({a, b} \cup S) >= a /\ Max({a, b} \cup S) >= b
<1>1. \E x \in {a, b} \cup S : \A y \in {a, b} \cup S : x >= y
  <2>1. CASE S = {}
    BY <2>1
  <2>2. CASE S # {}
    <3>1. PICK c \in S : TRUE
      BY <2>2
    <3>2. S = {c}
      BY <3>1
    <3> QED BY <3>1, <3>2
  <2> QED BY <2>1, <2>2
<1> QED BY <1>1 DEF Max

-----------------------------------------------------------------------------

\* Empty tables satisfy the invariant of the tables (kin.rs before the first relation).
THEOREM InitHolds == Init => IInv
BY KinAssumption DEF Init, IInv, TablesOK, BothWays, Gapless, Tables, Tx, Pc, NoTables, NoTx, Parent

\* A step that leaves the tables and the transaction alone, and does not enter or
\* leave one.
LEMMA Aside ==
    ASSUME IInv, pc # "tx", pc' # "tx", pc' \in Pc, tx' \in Tx,
           UNCHANGED <<disk, live, work>>
    PROVE  IInv'
BY DEF IInv, TablesOK, BothWays, Gapless, Working

\* Opening a transaction for facts.
LEMMA BeginFactsKeeps == ASSUME IInv, BeginFacts PROVE IInv'
<1>1. PICK page \in SUBSET Post : Begin("facts", page, None)
  BY DEF BeginFacts
<1>2. work = live /\ pc = "idle" /\ pc' = "tx"
  BY <1>1 DEF Begin, IInv
<1>3. tx' \in Tx /\ tx'.kind = "facts"
  BY <1>1 DEF Begin, NoTx, Tx, Parent
<1>4. Working'
  BY <1>1, <1>2, <1>3 DEF Working, Begin
<1> QED BY <1>1, <1>2, <1>3, <1>4 DEF IInv, TablesOK, Begin, Pc, BothWays, Gapless

\* A crawl takes every post between its new cursor and the old one.
LEMMA BeginCrawlKeeps == ASSUME IInv, BeginCrawl PROVE IInv'
<1> DEFINE below == {p \in Post : live.before # None => p < live.before}
<1>1. work = live /\ pc = "idle"
  BY DEF BeginCrawl, Begin, IInv
<1>2. \A p \in Post \ below : p \in live.known
  <2>1. Gapless(live) /\ live.before \in Post \cup {None}
    BY DEF IInv, TablesOK, Tables
  <2>2. ASSUME NEW p \in Post, p \notin below PROVE p \in live.known
    <3>1. live.before # None /\ ~(p < live.before)
      BY <2>2
    <3>2. p >= live.before
      <4>1. p \in Nat /\ live.before \in Nat
        BY <2>1, <3>1, KinAssumption
      <4> QED BY <3>1, <4>1
    <3> QED BY <2>1, <3>1, <3>2 DEF Gapless
  <2> QED BY <2>2
<1>3. CASE \E least \in below : Begin("crawl", {p \in below : p >= least}, least)
  <2>1. PICK least \in below : Begin("crawl", {p \in below : p >= least}, least)
    BY <1>3
  <2>2. least # None /\ least \in Post
    BY KinAssumption
  <2>3. tx' = [NoTx EXCEPT !.kind = "crawl", !.page = {p \in below : p >= least}, !.cursor = least]
    BY <2>1 DEF Begin
  <2>4. tx' \in Tx /\ tx'.cursor = least /\ tx'.page = {p \in below : p >= least}
        /\ tx'.kind = "crawl" /\ tx'.changed = FALSE
    BY <2>2, <2>3 DEF NoTx, Tx, Parent
  <2>5. Working'
    BY <1>1, <1>2, <2>1, <2>2, <2>4 DEF Working, Begin
  <2> QED BY <2>1, <2>4, <2>5 DEF IInv, TablesOK, Begin, Pc, BothWays, Gapless
<1>4. CASE below = {} /\ Begin("crawl", {}, None)
  <2>1. tx' \in Tx /\ tx'.cursor = None /\ tx'.page = {} /\ tx'.kind = "crawl" /\ tx'.changed = FALSE
    BY <1>4 DEF NoTx, Tx, Parent, Begin
  <2>2. Working'
    BY <1>1, <1>2, <1>4, <2>1 DEF Working, Begin
  <2> QED BY <1>4, <2>1, <2>2 DEF IInv, TablesOK, Begin, Pc, BothWays, Gapless
<1> QED BY <1>3, <1>4 DEF BeginCrawl

-----------------------------------------------------------------------------

\* Moving a post between the children of its two parents keeps the relation and its
\* inverse together.
LEMMA AmendedBothWays ==
    ASSUME NEW t \in Tables, BothWays(t), NEW p \in Post, NEW q \in Parent
    PROVE  /\ Amended(t, p, q) \in [Post -> SUBSET Post]
           /\ \A m, n \in Post :
                [t.parent EXCEPT ![p] = q][m] = n <=> m \in Amended(t, p, q)[n]
BY KinAssumption DEF Amended, Tables, BothWays, Parent

\* Absorbing one parent relation.
LEMMA AbsorbFactKeeps ==
    ASSUME IInv, NEW p \in Post, NEW q \in Parent, AbsorbFact(p, q)
    PROVE  IInv'
<1>1. PICK hinted \in BOOLEAN :
        tx' = [tx EXCEPT
            !.page = @ \ {p},
            !.changed = @ \/ hinted \/ Changed(p, q),
            !.patched = IF work.parent[p] # q THEN @ \cup {p} ELSE @,
            !.need = IF work.parent[p] # q
                     THEN Max({@, p + 1} \cup {m + 1 : m \in {q} \ {None}}) ELSE @]
  BY DEF AbsorbFact
<1>2. work' = [work EXCEPT
         !.parent = [@ EXCEPT ![p] = q],
         !.children = IF work.parent[p] # q THEN Amended(work, p, q) ELSE @,
         !.known = IF tx.kind = "crawl" THEN @ \cup {p} ELSE @]
  BY DEF AbsorbFact
<1>3. pc = "tx" /\ pc' = "tx" /\ UNCHANGED <<disk, live>> /\ p \in tx.page
  BY DEF AbsorbFact
<1>4. work \in Tables /\ tx \in Tx /\ BothWays(work) /\ Working
  BY <1>3 DEF IInv, TablesOK
<1>5. Max({tx.need, p + 1} \cup {m + 1 : m \in {q} \ {None}}) \in Nat
  <2> DEFINE S == {m + 1 : m \in {q} \ {None}}
  <2>1. S \subseteq Nat /\ \A x, y \in S : x = y
    BY KinAssumption DEF Parent
  <2>2. tx.need \in Nat /\ p + 1 \in Nat
    BY <1>4, KinAssumption DEF Tx
  <2> HIDE DEF S
  <2>3. Max({tx.need, p + 1} \cup S) \in Nat
    BY <2>1, <2>2, MaxIsNat
  <2> QED BY <2>3 DEF S
<1>6. /\ tx' \in Tx
      /\ tx'.page = tx.page \ {p} /\ tx'.kind = tx.kind /\ tx'.cursor = tx.cursor
      /\ tx'.changed = (tx.changed \/ hinted \/ Changed(p, q))
  BY <1>1, <1>4, <1>5 DEF Tx, Changed
<1>7. /\ work'.parent = [work.parent EXCEPT ![p] = q]
      /\ work'.children = IF work.parent[p] # q THEN Amended(work, p, q) ELSE work.children
      /\ work'.known = IF tx.kind = "crawl" THEN work.known \cup {p} ELSE work.known
      /\ work'.gen = work.gen /\ work'.before = work.before /\ work'.done = work.done
      /\ work' \in Tables
  <2>1. [work.parent EXCEPT ![p] = q] \in [Post -> Parent]
    BY <1>4 DEF Tables
  <2>2. Amended(work, p, q) \in [Post -> SUBSET Post] /\ work.children \in [Post -> SUBSET Post]
    BY <1>4, AmendedBothWays DEF Tables
  <2>3. work.known \cup {p} \in SUBSET Post /\ work.known \in SUBSET Post
    BY <1>4 DEF Tables
  <2>4. work' = [parent |-> [work.parent EXCEPT ![p] = q],
                 children |-> IF work.parent[p] # q THEN Amended(work, p, q) ELSE work.children,
                 gen |-> work.gen, before |-> work.before, done |-> work.done,
                 known |-> IF tx.kind = "crawl" THEN work.known \cup {p} ELSE work.known]
    BY <1>2, <1>4 DEF Tables
  <2>5. work.gen \in Nat /\ work.before \in Post \cup {None} /\ work.done \in BOOLEAN
    BY <1>4 DEF Tables
  <2>6. work' \in Tables
    BY <2>1, <2>2, <2>3, <2>4, <2>5 DEF Tables
  <2> QED BY <2>4, <2>6
<1>8. BothWays(work')
  <2>1. CASE work.parent[p] = q
    BY <1>4, <1>7, <2>1 DEF BothWays, Tables
  <2>2. CASE work.parent[p] # q
    BY <1>4, <1>7, <2>2, AmendedBothWays DEF BothWays
  <2> QED BY <2>1, <2>2
<1>9. Working'
  <2>1. ASSUME ~tx'.changed PROVE work'.parent = live'.parent
    <3>1. ~tx.changed /\ work.parent[p] = q
      BY <1>6, <2>1 DEF Changed
    <3>2. [work.parent EXCEPT ![p] = q] = work.parent
      BY <1>4, <3>1 DEF Tables
    <3> QED BY <1>3, <1>4, <1>7, <3>1, <3>2 DEF Working
  <2> QED BY <1>3, <1>4, <1>6, <1>7, <2>1 DEF Working
<1> QED BY <1>3, <1>6, <1>7, <1>8, <1>9 DEF IInv, TablesOK, BothWays, Gapless

-----------------------------------------------------------------------------

\* A commit moves the cursor with what was absorbed, and the generation with the edges.
LEMMA CommitKeeps == ASSUME IInv, Commit PROVE IInv'
<1>1. /\ work \in Tables /\ live \in Tables /\ disk \in Tables /\ tx \in Tx
      /\ Working /\ BothWays(work) /\ Gapless(live) /\ tx.page = {}
  BY DEF IInv, TablesOK, Commit
<1>2. /\ Advanced(work) \in Tables
      /\ Advanced(work).parent = work.parent /\ Advanced(work).children = work.children
      /\ Advanced(work).gen = work.gen /\ Advanced(work).known = work.known
  <2>1. CASE tx.kind # "crawl"
    BY <1>1, <2>1 DEF Advanced
  <2>2. CASE tx.kind = "crawl"
    <3>1. Advanced(work) = [parent |-> work.parent, children |-> work.children, gen |-> work.gen,
                            before |-> IF tx.cursor = None THEN work.before ELSE tx.cursor,
                            done |-> work.done \/ tx.cursor = None, known |-> work.known]
      BY <1>1, <2>2 DEF Advanced, Tables
    <3>2. (IF tx.cursor = None THEN work.before ELSE tx.cursor) \in Post \cup {None}
      BY <1>1 DEF Tables, Tx, Parent
    <3>3. /\ work.parent \in [Post -> Parent] /\ work.children \in [Post -> SUBSET Post]
          /\ work.gen \in Nat /\ work.known \in SUBSET Post
          /\ (work.done \/ tx.cursor = None) \in BOOLEAN
      BY <1>1 DEF Tables
    <3> QED BY <3>1, <3>2, <3>3 DEF Tables
  <2> QED BY <2>1, <2>2
<1>3. /\ live' \in Tables
      /\ live'.parent = work.parent /\ live'.children = work.children
      /\ live'.gen = IF tx.changed THEN live.gen + 1 ELSE live.gen
      /\ live'.known = work.known
      /\ live'.before = Advanced(work).before /\ live'.done = Advanced(work).done
  BY <1>1, <1>2, SMTT(30) DEF Commit, Tables, Working
<1>4. BothWays(live')
  BY <1>1, <1>3 DEF BothWays
<1>5. Gapless(live')
  <2>1. CASE tx.kind # "crawl"
    BY <1>1, <1>3, <2>1 DEF Gapless, Working, Advanced, Tables
  <2>2. CASE tx.kind = "crawl" /\ tx.cursor = None
    <3>1. live'.before = live.before /\ live'.known = Post
      BY <1>1, <1>3, <2>2 DEF Working, Advanced, Tables
    <3> QED BY <3>1 DEF Gapless
  <2>3. CASE tx.kind = "crawl" /\ tx.cursor # None
    <3>1. live'.before = tx.cursor /\ live'.done = live.done
      BY <1>1, <1>3, <2>3 DEF Working, Advanced, Tables
    <3>2. \A p \in Post : p >= tx.cursor => p \in live'.known
      BY <1>1, <1>3, <2>3 DEF Working
    <3>3. live.done => live'.known = Post
      BY <1>1, <1>3 DEF Working, Gapless, Tables
    <3> QED BY <3>1, <3>2, <3>3 DEF Gapless
  <2> QED BY <2>1, <2>2, <2>3
<1>6. disk.gen <= live'.gen /\ (disk.gen = live'.gen => disk.parent = live'.parent)
  BY <1>1, <1>3 DEF IInv, Working, Tables
<1>7. disk' \in {disk, live'} /\ work' = live'
  BY DEF Commit
<1>8. tx' \in Tx /\ pc' \in Pc /\ pc' # "tx"
  BY <1>1 DEF Commit, Tx, NoTx, Parent, Pc
<1>9. CASE disk' = disk
  BY <1>3, <1>4, <1>5, <1>6, <1>7, <1>8, <1>9 DEF IInv, TablesOK, BothWays, Gapless
<1>10. CASE disk' = live'
  BY <1>3, <1>4, <1>5, <1>7, <1>8, <1>10 DEF IInv, TablesOK, BothWays, Gapless, Tables
<1> QED BY <1>7, <1>9, <1>10

\* The tables fall back to the last durable commit.
LEMMA DieKeeps == ASSUME IInv, Die PROVE IInv'
<1>1. /\ disk' = disk /\ live' = disk /\ work' = disk
      /\ tx' \in Tx /\ pc' = "closed"
  BY DEF Die, NoTx, Tx, Parent
<1>2. disk.gen <= disk.gen
  BY DEF IInv, TablesOK, Tables
<1> QED BY <1>1, <1>2 DEF IInv, TablesOK, BothWays, Gapless, Pc

\* Every step keeps the invariant of the tables.
LEMMA NextKeeps == ASSUME IInv, [Next]_vars PROVE IInv'
<1>0. NoTx \in Tx
  BY DEF NoTx, Tx, Parent
<1>1. CASE Forge
  <2>1. \A n \in NewestSlots : n \in Nat
    BY KinAssumption DEF NewestSlots
  <2>2. PICK n \in Nat :
          \/ pc' \in {"grow", "idle"} /\ tx' \in {[NoTx EXCEPT !.kind = "open", !.need = n], NoTx}
          \/ pc' = "inscribe" /\ tx' = tx
    BY <1>1, <2>1 DEF Forge
  <2>3. [NoTx EXCEPT !.kind = "open", !.need = n] \in Tx
    BY <1>0 DEF Tx
  <2>4. tx \in Tx /\ pc = "closed"
    BY <1>1 DEF Forge, IInv, TablesOK
  <2>5. tx' \in Tx
    BY <1>0, <2>2, <2>3, <2>4
  <2>6. pc' \in Pc /\ pc' # "tx" /\ pc # "tx"
    BY <2>2, <2>4 DEF Pc
  <2> QED BY <1>1, <2>5, <2>6, Aside DEF Forge
<1>2. CASE InscribeHeader \/ InscribeRow \/ Synchronize
  BY <1>2, Aside DEF InscribeHeader, InscribeRow, Synchronize, IInv, TablesOK, Pc
<1>3. CASE Grow \/ Remap \/ Regrown
  BY <1>0, <1>3, Aside DEF Grow, Remap, Regrown, IInv, TablesOK, Pc
<1>4. CASE StoreSlot \/ FlushPages \/ Stamp \/ FlushHeader
  BY <1>0, <1>4, Aside DEF StoreSlot, FlushPages, Stamp, FlushHeader, IInv, TablesOK, Pc
<1>5. CASE StampSpare \/ StorePanics \/ ApplyFails \/ GrowFails \/ OpenFails
  <2>1. /\ tx' = NoTx /\ pc' \in {"idle", "closed"} /\ UNCHANGED <<disk, live, work>>
        /\ pc \in {"store", "grow", "remap", "regrown", "flush", "stamped"}
    BY <1>5 DEF StampSpare, StorePanics, ApplyFails, GrowFails, OpenFails, Forsake
  <2> QED BY <1>0, <2>1, Aside DEF Pc
<1>6. CASE BeginFacts \/ BeginCrawl
  BY <1>6, BeginFactsKeeps, BeginCrawlKeeps
<1>7. CASE \E p \in Post : \E q \in Parent \ {p} : AbsorbFact(p, q)
  BY <1>7, AbsorbFactKeeps
<1>8. CASE Commit
  BY <1>8, CommitKeeps
<1>9. CASE Abort
  BY <1>0, <1>9 DEF Abort, IInv, TablesOK, Pc, BothWays, Gapless
<1>10. CASE Kill \/ LosePower
  BY <1>10, DieKeeps DEF Kill, LosePower
<1>11. CASE UNCHANGED vars
  BY <1>11 DEF vars, IInv, TablesOK, BothWays, Gapless, Working
<1> QED BY <1>1, <1>2, <1>3, <1>4, <1>5, <1>6, <1>7, <1>8, <1>9, <1>10, <1>11 DEF Next

\* IInv is inductive.
THEOREM Invariance == Spec => []IInv
<1>1. IInv /\ [Next]_vars => IInv'
  BY NextKeeps
<1> QED BY <1>1, InitHolds, PTL DEF Spec

\* Parents and children, committed or durable, are inverse to each other: what
\* family_tree climbs and what it walks down are one relation.
THEOREM FamiliesAreInverse == Spec => []EdgesBothWays
<1>1. IInv => EdgesBothWays
  BY DEF IInv, BothWays, EdgesBothWays
<1> QED BY <1>1, Invariance, PTL

\* Tables of one generation have the same edges, whatever was rolled back: the stamp
\* of the atlas is enough to tell a stale file.
THEOREM GenerationsNameEdges == Spec => []GenerationNamesEdges
<1>1. IInv => GenerationNamesEdges
  BY DEF IInv, GenerationNamesEdges
<1> QED BY <1>1, Invariance, PTL

\* advance_backfill moves with the page it closes, across failures and crashes.
THEOREM KinCrawlIsGapless == Spec => []KinCrawlLeavesNoGap
<1>1. IInv => KinCrawlLeavesNoGap
  BY DEF IInv, Gapless, KinCrawlLeavesNoGap
<1> QED BY <1>1, Invariance, PTL

-----------------------------------------------------------------------------
(* The atlas                                                               *)

\* What every file of the process or of the device is.
Shaped(f) == f \in File /\ f.slots % Quantum = 0

FileTypes ==
    /\ Shaped(file) /\ Shaped(synced)
    /\ spare \in Nat \cup {None}
    /\ pc = "remap" => spare \in Nat
    /\ pc \in {"inscribe", "remap"} => file.len % Quantum = 0
    /\ todo \subseteq Post /\ torn \in BOOLEAN /\ session \in 0..MaxSessions

Headers == {file, synced}
Covers(slots, t) == \A p \in Post : p >= slots => t.parent[p] = None

\* A header that a crash may leave and that bears the generation of t names t's edges.
Match(t) == \A h \in Headers : h.gen = t.gen => file.edge = t.parent /\ Covers(h.slots, t)

\* A file that may be reopened: whatever of it a crash keeps.
Ready ==
    /\ synced.edge = file.edge
    /\ synced.gen <= file.gen /\ file.gen <= live.gen
    /\ Match(disk)

\* The patches hold what the commit changed, and their slots are asked for.
Patched ==
    /\ \A p \in Post \ tx.patched :
         file.edge[p] = live.parent[p] /\ (p >= file.slots => live.parent[p] = None)
    /\ \A p \in tx.patched : p < tx.need
    /\ todo = tx.patched

Opening == tx.kind = "open" /\ file.gen = live.gen /\ Match(live)

\* What an open transaction may change, it patches.
Patching ==
    /\ \A p \in Post \ tx.patched : work.parent[p] = live.parent[p]
    /\ \A p \in tx.patched : p < tx.need
    /\ ~tx.changed => tx.patched = {} /\ tx.need = 0

\* A file made anew is not valid until its header is written, and its rows are
\* those of the tables.
Inscribing ==
    /\ pc = "inscribe" => /\ ~file.magic /\ ~synced.magic
                          /\ \A p \in Post : file.edge[p] = None
    /\ pc \in {"rows", "sync"} =>
        /\ file.gen = live.gen
        /\ todo \subseteq {p \in Post : p < file.slots}
        /\ \A p \in Post \ todo :
             file.edge[p] = IF p < file.slots THEN live.parent[p] ELSE None
    /\ pc = "sync" => todo = {}

\* The file while no fault fell between it and the tables.
Whole ==
    /\ pc = "closed" /\ Valid(file, live.gen) => Ready /\ Match(live)
    /\ pc \in {"idle", "tx"} => Ready /\ file.gen = live.gen /\ Match(live)
    /\ pc \in {"grow", "remap", "regrown"} =>
        Ready /\ (Opening \/ (tx.kind = "patches" /\ file.gen < live.gen /\ Patched))
    /\ pc = "grow" => Rounded(tx.need) > file.slots
    /\ pc = "remap" => file.len > file.slots /\ file.len = Rounded(tx.need)
    /\ pc = "regrown" => file.slots = Rounded(tx.need)
    /\ pc \in {"store", "flush", "stamp", "stamped"} =>
        /\ synced.gen <= file.gen /\ file.gen <= live.gen
        /\ Covers(file.slots, live)
        /\ \A p \in Post \ todo : file.edge[p] = live.parent[p]
        /\ \A p \in Post \ tx.patched : synced.edge[p] = file.edge[p]
    /\ pc \in {"store", "flush"} =>
        /\ todo \subseteq tx.patched
        /\ file.gen = live.gen => tx.patched = {} /\ Match(live)
    /\ pc \in {"flush", "stamp", "stamped"} => todo = {}
    /\ pc \in {"stamp", "stamped"} =>
        /\ synced.edge = file.edge
        /\ synced.gen = live.gen => Covers(synced.slots, live)
    /\ pc = "stamped" => file.gen = live.gen

AtlasInv ==
    /\ pc = "tx" => Patching
    /\ pc \in {"grow", "remap", "regrown"} => tx.kind \in {"open", "patches"}
    /\ pc \in {"store", "flush", "stamp", "stamped"} => tx.kind = "patches"
    /\ Inscribing
    /\ ~torn => Whole

\* While no fault fell between the file and the tables the map is the file, but for the
\* moment of growing, and then the sentinel keeps the generation of the file.
Spared ==
    /\ pc \in {"closed", "inscribe", "rows", "sync"} => spare = None
    /\ ~torn => spare = IF pc = "remap" THEN file.gen ELSE None

\* Division with remainder, which rounded_slots rests on.
LEMMA DivMod ==
    ASSUME NEW a \in Nat, NEW q \in Nat \ {0}
    PROVE  /\ a \div q \in Nat /\ a % q \in 0 .. (q - 1)
           /\ a = q * (a \div q) + (a % q)
OBVIOUS

\* Multiples of q that differ do so by q at least.
LEMMA Multiples ==
    ASSUME NEW q \in Nat \ {0}, NEW x \in Nat, NEW y \in Nat, x < y
    PROVE  q * x + q <= q * y
<1>1. PICK d \in Nat : y = x + 1 + d
  <2>1. y - (x + 1) \in Nat /\ y = x + 1 + (y - (x + 1))
    OBVIOUS
  <2> QED BY <2>1
<1>2. q * y = q * x + q + q * d
  BY <1>1
<1>3. q * d \in Nat /\ q * x \in Nat
  OBVIOUS
<1> QED BY <1>2, <1>3

\* Dividing a multiple of q by q leaves no remainder.
LEMMA MultipleDivides ==
    ASSUME NEW q \in Nat \ {0}, NEW x \in Nat, NEW r \in 0 .. (q - 1), NEW d \in Nat,
           q * x = q * d + r
    PROVE  d = x
<1>1. q * x \in Nat /\ q * d \in Nat
  OBVIOUS
<1>2. ~(d < x)
  <2> SUFFICES ASSUME d < x PROVE FALSE
    OBVIOUS
  <2>1. q * d + q <= q * x
    BY Multiples
  <2>2. \A m, n \in Nat : m + q <= n /\ n = m + r => FALSE
    OBVIOUS
  <2> QED BY <1>1, <2>1, <2>2
<1>3. ~(x < d)
  <2> SUFFICES ASSUME x < d PROVE FALSE
    OBVIOUS
  <2>1. q * x + q <= q * d
    BY Multiples
  <2>2. \A m, n \in Nat : n + q <= m /\ n = m + r => FALSE
    OBVIOUS
  <2> QED BY <1>1, <2>1, <2>2
<1> QED BY <1>2, <1>3

\* rounded_slots: a whole number of quanta, and room for n slots.
LEMMA RoundedFacts ==
    ASSUME NEW n \in Nat
    PROVE  /\ Rounded(n) \in Nat /\ n <= Rounded(n)
           /\ Rounded(n) % Quantum = 0
           /\ n = 0 => Rounded(n) = 0
<1> DEFINE a == n + Quantum - 1
           d == a \div Quantum
           r == a % Quantum
<1>1. Quantum \in Nat \ {0} /\ a \in Nat
  BY KinAssumption
<1>2. d \in Nat /\ r \in 0 .. (Quantum - 1) /\ a = Quantum * d + r
  BY <1>1, DivMod
<1>3. Rounded(n) = Quantum * d
  BY DEF Rounded
<1>4. Quantum * d \in Nat
  BY <1>1, <1>2
<1>5. n <= Quantum * d
  <2> HIDE DEF d, r
  <2>1. \A m \in Nat : n + Quantum - 1 = m + r => n <= m
    BY <1>1, <1>2
  <2> QED BY <1>2, <1>4, <2>1
<1>6. (Quantum * d) % Quantum = 0
  <2> DEFINE e == (Quantum * d) \div Quantum
             s == (Quantum * d) % Quantum
  <2>1. e \in Nat /\ s \in 0 .. (Quantum - 1) /\ Quantum * d = Quantum * e + s
    BY <1>1, <1>4, DivMod
  <2> HIDE DEF d, e, s
  <2>2. e = d
    BY <1>1, <1>2, <2>1, MultipleDivides
  <2>3. \A m \in Nat : m = m + s => s = 0
    BY <1>1, <2>1
  <2>4. s = 0
    BY <1>4, <2>1, <2>2, <2>3
  <2> QED BY <2>4 DEF s
<1>7. n = 0 => Quantum * d = 0
  <2> SUFFICES ASSUME n = 0 PROVE Quantum * d = 0
    OBVIOUS
  <2>1. a = Quantum - 1
    BY <1>1
  <2>2. ~(0 < d)
    <3> SUFFICES ASSUME 0 < d PROVE FALSE
      OBVIOUS
    <3> HIDE DEF d, r
    <3>1. Quantum * 0 + Quantum <= Quantum * d
      BY <1>1, <1>2, Multiples
    <3>2. \A m \in Nat : Quantum - 1 = m + r /\ Quantum * 0 + Quantum <= m => FALSE
      BY <1>1, <1>2
    <3> QED BY <1>2, <1>4, <2>1, <3>1, <3>2
  <2>3. d = 0
    BY <1>2, <2>2
  <2> QED BY <1>1, <2>3
<1> QED BY <1>3, <1>4, <1>5, <1>6, <1>7

\* The newest slots are numbers.
LEMMA NewestIsNat == NewestSlots \subseteq Nat
BY KinAssumption DEF NewestSlots

\* The fields of a file.
LEMMA TypesOfFile ==
    ASSUME NEW f \in File
    PROVE  /\ f.magic \in BOOLEAN /\ f.gen \in Nat /\ f.slots \in Nat
           /\ f.edge \in [Post -> Parent] /\ f.len \in Nat
BY DEF File

\* No file, and an empty one of any length, have a whole number of quanta of slots.
LEMMA FreshFile ==
    /\ Shaped(NoFile)
    /\ \A n \in Nat : Shaped([NoFile EXCEPT !.len = n])
<1>1. 0 \in Nat /\ 0 % Quantum = 0 /\ Quantum \in Nat \ {0}
  BY KinAssumption, RoundedFacts
<1>2. [p \in Post |-> None] \in [Post -> Parent]
  BY DEF Parent
<1> QED BY <1>1, <1>2 DEF Shaped, NoFile, File

\* No step gives the file a length that is not a whole number of quanta.
LEMMA FileTypesKeep ==
    ASSUME IInv, FileTypes, [Next]_vars
    PROVE  FileTypes'
<1>1. /\ live \in Tables /\ disk \in Tables /\ tx \in Tx /\ pc \in Pc /\ tx.need \in Nat
      /\ live.parent \in [Post -> Parent] /\ live.gen \in Nat /\ tx.patched \subseteq Post
  BY DEF IInv, TablesOK, Tables, Tx
<1>2. /\ Shaped(file) /\ Shaped(synced) /\ file \in File /\ synced \in File
      /\ todo \subseteq Post /\ torn \in BOOLEAN /\ session \in 0..MaxSessions
      /\ spare \in Nat \cup {None} /\ None \in Nat \cup {None}
  BY DEF FileTypes, Shaped
<1>3. Rounded(tx.need) \in Nat /\ Rounded(tx.need) % Quantum = 0
  BY <1>1, RoundedFacts
<1>4. \A p \in Post : [file EXCEPT !.edge = [@ EXCEPT ![p] = live.parent[p]]] \in File
  <2> SUFFICES ASSUME NEW p \in Post
               PROVE  [file EXCEPT !.edge = [@ EXCEPT ![p] = live.parent[p]]] \in File
    OBVIOUS
  <2>1. [file.edge EXCEPT ![p] = live.parent[p]] \in [Post -> Parent]
    BY <1>1, <1>2, TypesOfFile
  <2> QED BY <1>2, <2>1 DEF File
<1>5. CASE Forge
  <2>1. PICK minimum \in NewestSlots :
          IF Valid(file, live.gen)
          THEN /\ pc' = IF file.slots < Rounded(minimum) THEN "grow" ELSE "idle"
               /\ UNCHANGED <<file, synced>>
          ELSE /\ pc' = "inscribe"
               /\ file' = [NoFile EXCEPT !.len = Rounded(minimum)]
               /\ synced' = file'
    BY <1>5 DEF Forge
  <2>2. Rounded(minimum) \in Nat /\ Rounded(minimum) % Quantum = 0
    BY NewestIsNat, RoundedFacts
  <2>3. UNCHANGED <<todo, torn, session, spare>>
    BY <1>5 DEF Forge
  <2>4. CASE Valid(file, live.gen)
    BY <1>2, <2>1, <2>3, <2>4 DEF FileTypes
  <2>5. CASE ~Valid(file, live.gen)
    <3>1. file'.len = Rounded(minimum) /\ Shaped(file') /\ synced' = file' /\ pc' = "inscribe"
      BY <2>1, <2>2, <2>5, FreshFile DEF NoFile
    <3> QED BY <1>2, <2>2, <2>3, <3>1 DEF FileTypes
  <2> QED BY <2>4, <2>5
<1>6. CASE InscribeHeader
  <2>1. file.len % Quantum = 0 /\ file.len \in Nat
    BY <1>2, <1>6, TypesOfFile DEF InscribeHeader, FileTypes
  <2>2. Shaped(file')
    BY <1>1, <1>2, <1>6, <2>1 DEF InscribeHeader, Shaped, File
  <2> QED BY <1>2, <1>6, <2>2 DEF InscribeHeader, FileTypes
<1>7. CASE InscribeRow
  BY <1>2, <1>4, <1>7 DEF InscribeRow, FileTypes, Shaped, File
<1>8. CASE Synchronize
  BY <1>2, <1>8 DEF Synchronize, FileTypes
<1>9. CASE BeginFacts \/ BeginCrawl
  BY <1>2, <1>9 DEF BeginFacts, BeginCrawl, Begin, FileTypes
<1>10. CASE \E p \in Post : \E q \in Parent \ {p} : AbsorbFact(p, q)
  BY <1>2, <1>10 DEF AbsorbFact, FileTypes
<1>11. CASE Commit \/ Abort
  BY <1>1, <1>2, <1>11 DEF Commit, Abort, FileTypes
<1>12. CASE Grow
  <2>1. file' \in File /\ file'.slots = file.slots /\ file'.len = Rounded(tx.need)
    BY <1>2, <1>3, <1>12 DEF Grow, File
  <2>2. spare' \in Nat /\ Shaped(synced')
    <3>1. file.gen \in Nat
      BY <1>2, TypesOfFile
    <3> QED BY <1>2, <1>12, <3>1 DEF Grow, Unmap
  <2> QED BY <1>2, <1>3, <1>12, <2>1, <2>2 DEF Grow, FileTypes, Shaped
<1>13. CASE Remap
  <2>1. file.len % Quantum = 0 /\ file.len \in Nat
    BY <1>2, <1>13, TypesOfFile DEF Remap, FileTypes
  <2>2. file' \in File /\ file'.slots = file.len
    <3>1. spare \in Nat
      BY <1>13 DEF Remap, FileTypes
    <3> QED BY <1>2, <1>13, <2>1, <3>1 DEF Remap, File
  <2> QED BY <1>2, <1>13, <2>1, <2>2 DEF Remap, FileTypes, Shaped
<1>14. CASE Regrown
  BY <1>2, <1>14 DEF Regrown, FileTypes
<1>15. CASE StoreSlot
  BY <1>2, <1>4, <1>15 DEF StoreSlot, FileTypes, Shaped, File
<1>16. CASE FlushPages
  <2> DEFINE edge == [p \in Post |-> IF p \in tx.patched THEN file.edge[p] ELSE synced.edge[p]]
  <2>1. edge \in [Post -> Parent] /\ file.len \in Nat
    BY <1>2, TypesOfFile
  <2>2. synced' = [synced EXCEPT !.len = file.len, !.edge = edge]
    BY <1>16 DEF FlushPages
  <2> HIDE DEF edge
  <2>3. synced' \in File /\ synced'.slots = synced.slots
    BY <1>2, <2>1, <2>2 DEF File
  <2> QED BY <1>2, <1>16, <2>3 DEF FlushPages, FileTypes, Shaped
<1>17. CASE Stamp
  <2>1. file' \in File /\ file'.slots = file.slots
    BY <1>1, <1>2, <1>17 DEF Stamp, File
  <2> QED BY <1>2, <1>17, <2>1 DEF Stamp, FileTypes, Shaped
<1>18. CASE FlushHeader
  <2>1. synced' \in File /\ synced'.slots = file.slots
    BY <1>2, <1>18 DEF FlushHeader, File
  <2> QED BY <1>2, <1>18, <2>1 DEF FlushHeader, FileTypes, Shaped
<1>19. CASE ApplyFails \/ GrowFails \/ OpenFails
  <2>1. /\ pc' \in {"idle", "closed"} /\ file' = file /\ synced' \in {file, synced}
        /\ todo' \in {todo, {}} /\ torn' \in {torn, TRUE} /\ session' = session
        /\ spare' \in {spare, None, file.gen}
    BY <1>19 DEF ApplyFails, GrowFails, OpenFails, Forsake, Unmap
  <2>2. file.gen \in Nat
    BY <1>2, TypesOfFile
  <2> QED BY <1>2, <2>1, <2>2 DEF FileTypes
<1>20. ASSUME Die PROVE todo' \subseteq Post /\ torn' \in BOOLEAN /\ session' \in 0..MaxSessions
                        /\ pc' = "closed" /\ spare' = None
  <2>1. spare' = None /\ todo' = {} /\ session' = session + 1 /\ session < MaxSessions /\ pc' = "closed"
    BY <1>20 DEF Die
  <2>2. torn' \in BOOLEAN
    BY <1>20 DEF Die
  <2>3. session' \in 0..MaxSessions
    BY <1>2, <2>1, KinAssumption
  <2> QED BY <2>1, <2>2, <2>3
<1>21. CASE Kill
  BY <1>2, <1>20, <1>21 DEF Kill, FileTypes
<1>22. CASE LosePower
  <2>1. PICK header \in {file, synced}, length \in {file.len, synced.len},
             kept \in SUBSET {p \in Post : file.edge[p] # synced.edge[p]} :
          file' = [header EXCEPT
            !.len = length,
            !.edge = [p \in Post |-> IF p \in kept THEN file.edge[p] ELSE synced.edge[p]]]
    BY <1>22 DEF LosePower
  <2> DEFINE edge == [p \in Post |-> IF p \in kept THEN file.edge[p] ELSE synced.edge[p]]
  <2>2. edge \in [Post -> Parent] /\ length \in Nat
    BY <1>2, TypesOfFile
  <2> HIDE DEF edge
  <2>3. header \in File /\ header.slots % Quantum = 0
    BY <1>2 DEF Shaped
  <2>4. file' = [header EXCEPT !.len = length, !.edge = edge]
    BY <2>1 DEF edge
  <2>5. file' \in File /\ file'.slots = header.slots
    BY <2>2, <2>3, <2>4 DEF File
  <2>6. synced' = file' /\ Die
    BY <1>22 DEF LosePower
  <2> QED BY <1>20, <2>3, <2>5, <2>6 DEF FileTypes, Shaped
<1>23. CASE UNCHANGED vars
  BY <1>23 DEF vars, FileTypes
<1>24. CASE StampSpare \/ StorePanics
  BY <1>1, <1>2, <1>24 DEF StampSpare, StorePanics, FileTypes
<1> QED
  BY <1>5, <1>6, <1>7, <1>8, <1>9, <1>10, <1>11, <1>12, <1>13, <1>14, <1>15, <1>16, <1>17,
     <1>18, <1>19, <1>21, <1>22, <1>23, <1>24 DEF Next

-----------------------------------------------------------------------------
(* The steps of the atlas                                                  *)

\* The types the steps of the atlas need, and that what is durable is no newer than live.
LEMMA Typed ==
    ASSUME IInv, FileTypes
    PROVE  /\ live \in Tables /\ disk \in Tables /\ work \in Tables /\ tx \in Tx
           /\ live.parent \in [Post -> Parent] /\ disk.parent \in [Post -> Parent]
           /\ live.gen \in Nat /\ disk.gen \in Nat /\ disk.gen <= live.gen
           /\ disk.gen = live.gen => disk.parent = live.parent
           /\ file \in File /\ synced \in File
           /\ file.gen \in Nat /\ synced.gen \in Nat /\ file.slots \in Nat /\ synced.slots \in Nat
           /\ file.edge \in [Post -> Parent] /\ synced.edge \in [Post -> Parent]
           /\ file.len \in Nat /\ tx.need \in Nat /\ Rounded(tx.need) \in Nat
           /\ tx.need <= Rounded(tx.need) /\ tx.patched \subseteq Post
           /\ \A p \in Post : p \in Nat
<1>1. live \in Tables /\ disk \in Tables /\ work \in Tables /\ tx \in Tx
      /\ disk.gen <= live.gen /\ (disk.gen = live.gen => disk.parent = live.parent)
  BY DEF IInv, TablesOK
<1>2. file \in File /\ synced \in File
  BY DEF FileTypes, Shaped
<1>3. tx.need \in Nat /\ tx.patched \subseteq Post
  BY <1>1 DEF Tx
<1> QED BY <1>1, <1>2, <1>3, RoundedFacts, TypesOfFile, KinAssumption DEF Tables

\* Headers keep their tables when they only gain slots.
LEMMA MatchKeeps ==
    ASSUME UNCHANGED <<disk, live>>, file'.edge = file.edge,
           \A h \in {file', synced'} : \E g \in Headers :
               h.gen = g.gen /\ h.slots \in Nat /\ g.slots \in Nat /\ g.slots <= h.slots
    PROVE  (Match(disk) => Match(disk)') /\ (Match(live) => Match(live)')
<1>1. \A t, m, n : m \in Nat /\ n \in Nat /\ m <= n /\ Covers(m, t) => Covers(n, t)
  BY KinAssumption DEF Covers
<1>2. /\ Match(disk)' <=> \A h \in {file', synced'} : h.gen = disk.gen =>
                             file.edge = disk.parent /\ Covers(h.slots, disk)
      /\ Match(live)' <=> \A h \in {file', synced'} : h.gen = live.gen =>
                             file.edge = live.parent /\ Covers(h.slots, live)
  BY DEF Match, Headers, Covers
<1> QED BY <1>1, <1>2 DEF Match

\* An opening maps a current file, or truncates one that is not.
LEMMA ForgeKeeps ==
    ASSUME IInv, FileTypes, AtlasInv, Forge
    PROVE  AtlasInv'
<1>1. PICK minimum \in NewestSlots :
        IF Valid(file, live.gen)
        THEN /\ pc' = IF file.slots < Rounded(minimum) THEN "grow" ELSE "idle"
             /\ tx' = IF pc' = "grow" THEN [NoTx EXCEPT !.kind = "open", !.need = minimum] ELSE NoTx
             /\ UNCHANGED <<file, synced>>
        ELSE /\ pc' = "inscribe"
             /\ file' = [NoFile EXCEPT !.len = Rounded(minimum)]
             /\ synced' = file'
  BY DEF Forge
<1>2. pc = "closed" /\ UNCHANGED <<disk, live, torn>>
  BY DEF Forge
<1>3. CASE Valid(file, live.gen)
  <2>1. UNCHANGED <<file, synced>> /\ file.gen = live.gen
    BY <1>1, <1>3 DEF Valid
  <2>2. ~torn => Ready /\ Match(live)
    BY <1>2, <1>3 DEF AtlasInv, Whole
  <2>3. (Ready => Ready') /\ (Match(live) => Match(live)')
    BY <1>2, <2>1 DEF Ready, Match, Headers, Covers
  <2>4. CASE file.slots < Rounded(minimum)
    <3>1. pc' = "grow" /\ tx'.kind = "open" /\ tx'.need = minimum
      BY <1>1, <1>3, <2>4 DEF NoTx
    <3>2. Rounded(minimum) \in Nat /\ file.slots \in Nat
      BY Typed, NewestIsNat, RoundedFacts
    <3>3. Rounded(tx'.need) > file'.slots
      BY <2>1, <2>4, <3>1, <3>2
    <3> QED
      BY <1>2, <2>1, <2>2, <2>3, <3>1, <3>3 DEF AtlasInv, Inscribing, Whole, Opening, Rounded
  <2>5. CASE ~(file.slots < Rounded(minimum))
    <3>1. pc' = "idle"
      BY <1>1, <1>3, <2>5
    <3> QED BY <1>2, <2>1, <2>2, <2>3, <3>1 DEF AtlasInv, Inscribing, Whole
  <2> QED BY <2>4, <2>5
<1>4. CASE ~Valid(file, live.gen)
  <2>1. /\ pc' = "inscribe" /\ ~file'.magic /\ ~synced'.magic
        /\ \A p \in Post : file'.edge[p] = None
    BY <1>1, <1>4 DEF NoFile
  <2> QED BY <2>1 DEF AtlasInv, Inscribing, Whole
<1> QED BY <1>3, <1>4

\* Storing the header or a row of a file being forged.
LEMMA InscribeKeeps ==
    ASSUME IInv, FileTypes, AtlasInv, InscribeHeader \/ InscribeRow
    PROVE  AtlasInv'
<1>1. CASE InscribeHeader
  <2>1. /\ pc = "inscribe" /\ pc' = "rows" /\ UNCHANGED <<live, torn>>
        /\ file' = [file EXCEPT !.magic = TRUE, !.gen = live.gen, !.slots = file.len]
        /\ todo' = {p \in Post : live.parent[p] # None /\ p < file.len}
    BY <1>1 DEF InscribeHeader
  <2>2. file'.gen = live.gen /\ file'.slots = file.len /\ file'.edge = file.edge
    BY <2>1, Typed DEF File
  <2>3. \A p \in Post : file.edge[p] = None
    BY <2>1 DEF AtlasInv, Inscribing
  <2> QED BY <2>1, <2>2, <2>3 DEF AtlasInv, Inscribing, Whole
<1>2. CASE InscribeRow
  <2>1. pc = "rows" /\ UNCHANGED <<live, torn>> /\ Inscribing
    BY <1>2 DEF InscribeRow, AtlasInv
  <2>2. CASE todo = {}
    <3>1. pc' = "sync" /\ UNCHANGED <<file, todo>>
      BY <1>2, <2>2 DEF InscribeRow
    <3> QED BY <2>1, <2>2, <3>1 DEF AtlasInv, Inscribing, Whole
  <2>3. CASE todo # {}
    <3>1. PICK p \in todo :
            /\ file' = [file EXCEPT !.edge = [@ EXCEPT ![p] = live.parent[p]]]
            /\ todo' = todo \ {p} /\ pc' = pc
      BY <1>2, <2>3 DEF InscribeRow
    <3>2. p \in Post /\ p < file.slots
      BY <2>1, <3>1 DEF Inscribing
    <3>3. /\ file'.edge = [file.edge EXCEPT ![p] = live.parent[p]]
          /\ file'.slots = file.slots /\ file'.gen = file.gen
      BY <3>1, Typed DEF File
    <3>4. \A q \in Post : file'.edge[q] = IF q = p THEN live.parent[p] ELSE file.edge[q]
      BY <3>2, <3>3, Typed
    <3> QED BY <2>1, <3>1, <3>2, <3>3, <3>4 DEF AtlasInv, Inscribing, Whole
  <2> QED BY <2>2, <2>3
<1> QED BY <1>1, <1>2

\* The file and the device hold one file, with the edges of the tables.
LEMMA SettledReady ==
    ASSUME IInv, FileTypes, UNCHANGED <<disk, live>>,
           file'.gen = live.gen, synced'.gen = live.gen, file'.slots = synced'.slots,
           synced'.edge = file'.edge, file'.edge = live.parent, Covers(file'.slots, live)
    PROVE  Ready' /\ Match(live)'
<1>1. Match(live)'
  BY DEF Match, Headers, Covers
<1>2. Match(disk)'
  <2>1. disk.gen = live.gen => disk.parent = live.parent
    BY Typed
  <2> QED BY <2>1 DEF Match, Headers, Covers
<1>3. live.gen <= live.gen
  BY Typed
<1> QED BY <1>1, <1>2, <1>3 DEF Ready

\* Flushing the file that was forged.
LEMMA SynchronizeKeeps ==
    ASSUME IInv, FileTypes, AtlasInv, Synchronize
    PROVE  AtlasInv'
<1>1. /\ pc = "sync" /\ pc' = "idle" /\ synced' = file /\ file' = file
      /\ torn' = (\E p \in Post : live.parent[p] # None /\ p >= file.slots)
      /\ UNCHANGED <<disk, live>>
  BY DEF Synchronize
<1>2. /\ file.gen = live.gen
      /\ \A p \in Post : file.edge[p] = IF p < file.slots THEN live.parent[p] ELSE None
  BY <1>1 DEF AtlasInv, Inscribing
<1>3. ASSUME ~torn'
      PROVE  Ready' /\ Match(live)'
  <2>1. Covers(file.slots, live)
    BY <1>1, <1>3 DEF Covers
  <2>2. \A p \in Post : file.edge[p] = live.parent[p]
    <3>1. \A p \in Post : p < file.slots \/ p >= file.slots
      BY Typed
    <3> QED BY <1>2, <2>1, <3>1 DEF Covers
  <2>3. file.edge = live.parent
    BY <2>2, Typed
  <2> QED BY <1>1, <1>2, <2>1, <2>3, SettledReady
<1> QED BY <1>1, <1>2, <1>3 DEF AtlasInv, Inscribing, Whole

-----------------------------------------------------------------------------
(* The transactions over the atlas                                         *)

\* A transaction begins with nothing patched.
LEMMA BeginPatches ==
    ASSUME IInv, FileTypes, AtlasInv, BeginFacts \/ BeginCrawl
    PROVE  AtlasInv'
<1>1. /\ pc = "idle" /\ pc' = "tx" /\ tx'.patched = {} /\ tx'.need = 0
      /\ UNCHANGED <<disk, live, work, file, synced, torn>>
  BY DEF BeginFacts, BeginCrawl, Begin, NoTx
<1>2. work.parent = live.parent
  BY <1>1 DEF IInv
<1>3. Patching'
  BY <1>1, <1>2 DEF Patching
<1>4. (Ready => Ready') /\ (Match(live) => Match(live)')
  BY <1>1 DEF Ready, Match, Headers, Covers
<1> QED BY <1>1, <1>3, <1>4 DEF AtlasInv, Inscribing, Whole

\* A relation that changes an edge is one to patch.
LEMMA AbsorbFactPatches ==
    ASSUME IInv, FileTypes, AtlasInv, NEW p \in Post, NEW q \in Parent, AbsorbFact(p, q)
    PROVE  AtlasInv'
<1>1. PICK hinted \in BOOLEAN :
        tx' = [tx EXCEPT
            !.page = @ \ {p},
            !.changed = @ \/ hinted \/ Changed(p, q),
            !.patched = IF work.parent[p] # q THEN @ \cup {p} ELSE @,
            !.need = IF work.parent[p] # q
                     THEN Max({@, p + 1} \cup {m + 1 : m \in {q} \ {None}}) ELSE @]
  BY DEF AbsorbFact
<1>2. /\ pc = "tx" /\ pc' = "tx" /\ UNCHANGED <<disk, live, file, synced, torn>>
      /\ work'.parent = [work.parent EXCEPT ![p] = q]
  <2>1. work' = [work EXCEPT
         !.parent = [@ EXCEPT ![p] = q],
         !.children = IF work.parent[p] # q THEN Amended(work, p, q) ELSE @,
         !.known = IF tx.kind = "crawl" THEN @ \cup {p} ELSE @]
    BY DEF AbsorbFact
  <2>2. work'.parent = [work.parent EXCEPT ![p] = q]
    BY <2>1, Typed DEF Tables
  <2> QED BY <2>2 DEF AbsorbFact
<1> DEFINE most == Max({tx.need, p + 1} \cup {m + 1 : m \in {q} \ {None}})
<1>3. most \in Nat /\ most >= tx.need /\ most >= p + 1
  <2> DEFINE S == {m + 1 : m \in {q} \ {None}}
  <2>1. S \subseteq Nat /\ \A x, y \in S : x = y
    BY KinAssumption DEF Parent
  <2>2. tx.need \in Nat /\ p + 1 \in Nat
    BY Typed, KinAssumption
  <2> HIDE DEF S
  <2>3. Max({tx.need, p + 1} \cup S) \in Nat /\ Max({tx.need, p + 1} \cup S) >= tx.need
        /\ Max({tx.need, p + 1} \cup S) >= p + 1
    BY <2>1, <2>2, MaxIsNat
  <2> QED BY <2>3 DEF S
<1>4. /\ tx'.changed = (tx.changed \/ hinted \/ Changed(p, q))
      /\ tx'.patched = IF work.parent[p] # q THEN tx.patched \cup {p} ELSE tx.patched
      /\ tx'.need = IF work.parent[p] # q THEN most ELSE tx.need
  BY <1>1, Typed DEF Tx
<1> HIDE DEF most
<1>5. Patching /\ work.parent \in [Post -> Parent] /\ tx.need \in Nat
      /\ \A r \in Post : r \in Nat
  BY <1>2, Typed DEF AtlasInv, Tables
<1>6. Patching'
  <2>1. CASE work.parent[p] = q
    <3>1. work'.parent = work.parent /\ tx'.patched = tx.patched /\ tx'.need = tx.need
          /\ (~tx'.changed => ~tx.changed)
      BY <1>2, <1>4, <1>5, <2>1
    <3> QED BY <1>2, <1>5, <3>1 DEF Patching
  <2>2. CASE work.parent[p] # q
    <3>1. tx'.changed /\ tx'.patched = tx.patched \cup {p} /\ tx'.need = most
      BY <1>4, <2>2 DEF Changed
    <3>2. \A r \in Post \ {p} : work'.parent[r] = work.parent[r]
      BY <1>2, <1>5
    <3>3. \A r \in tx.patched \cup {p} : r < most
      <4>1. \A r \in tx.patched : r < tx.need /\ r \in Nat
        BY <1>5, Typed DEF Patching
      <4> QED BY <1>3, <1>5, <4>1
    <3> QED BY <1>2, <1>5, <3>1, <3>2, <3>3 DEF Patching
  <2> QED BY <2>1, <2>2
<1>7. (Ready => Ready') /\ (Match(live) => Match(live)')
  BY <1>2 DEF Ready, Match, Headers, Covers
<1> QED BY <1>2, <1>6, <1>7 DEF AtlasInv, Inscribing, Whole

\* An abort drops the transaction and leaves the file as it is.
LEMMA AbortLeaves ==
    ASSUME IInv, FileTypes, AtlasInv, Abort
    PROVE  AtlasInv'
<1>1. pc = "tx" /\ pc' = "idle" /\ UNCHANGED <<disk, live, file, synced, torn>>
  BY DEF Abort
<1>2. (Ready => Ready') /\ (Match(live) => Match(live)')
  BY <1>1 DEF Ready, Match, Headers, Covers
<1> QED BY <1>1, <1>2 DEF AtlasInv, Inscribing, Whole

\* A commit that changed anything leaves the old stamp; one that did not, no patch.
LEMMA CommitPatches ==
    ASSUME IInv, FileTypes, AtlasInv, Commit
    PROVE  AtlasInv'
<1>1. /\ pc = "tx" /\ live' = [Advanced(work) EXCEPT !.gen = IF tx.changed THEN @ + 1 ELSE @]
      /\ disk' \in {disk, live'}
      /\ tx' = [NoTx EXCEPT !.kind = "patches", !.patched = tx.patched, !.need = tx.need]
      /\ todo' = tx.patched
      /\ pc' = IF Rounded(tx.need) > file.slots THEN "grow" ELSE "store"
      /\ UNCHANGED <<file, synced, torn>>
  BY DEF Commit
<1>2. Patching /\ Working
  BY <1>1 DEF AtlasInv, IInv
<1>3. /\ live'.parent = work.parent
      /\ live'.gen = IF tx.changed THEN live.gen + 1 ELSE live.gen
  <2>1. Advanced(work) \in [parent : {work.parent}, children : {work.children}, gen : {work.gen},
                            before : {work.before, tx.cursor},
                            done : {work.done, work.done \/ tx.cursor = None},
                            known : {work.known}]
    BY Typed DEF Advanced, Tables
  <2> QED BY <1>1, <1>2, <2>1 DEF Working
<1>4. /\ tx'.kind = "patches" /\ tx'.patched = tx.patched /\ tx'.need = tx.need
  BY <1>1 DEF NoTx
<1>5. \A p \in Post \ tx.patched : live'.parent[p] = live.parent[p]
  BY <1>2, <1>3 DEF Patching
<1>6. \A p \in tx.patched : p < tx.need
  BY <1>2 DEF Patching
<1>7. ~tx.changed => tx.patched = {} /\ tx.need = 0 /\ live'.parent = live.parent
  BY <1>2, <1>3 DEF Patching, Working
<1>8. ASSUME ~torn
      PROVE  Ready /\ file.gen = live.gen /\ Match(live)
  BY <1>1, <1>8 DEF AtlasInv, Whole
<1>9. CASE Rounded(tx.need) > file.slots
  <2>1. tx.changed
    <3>1. ~tx.changed => Rounded(tx.need) = 0
      BY <1>7, RoundedFacts
    <3>2. file.slots \in Nat
      BY Typed
    <3> QED BY <1>9, <3>1, <3>2
  <2>2. pc' = "grow" /\ live'.gen = live.gen + 1
    BY <1>1, <1>3, <1>9, <2>1
  <2>3. ASSUME ~torn
        PROVE  Ready' /\ file'.gen < live'.gen /\ Patched'
    <3>1. synced.gen \in Nat /\ file.gen = live.gen /\ live.gen \in Nat
          /\ synced.gen <= live.gen
      BY <1>8, <2>3, Typed DEF Ready
    <3>2. file'.gen < live'.gen /\ file'.gen <= live'.gen /\ \A h \in {file', synced'} : h.gen # live'.gen
      BY <1>1, <2>2, <3>1
    <3>3. Match(disk)'
      <4>1. CASE disk' = disk
        BY <1>1, <1>8, <2>3, <4>1 DEF Ready, Match, Headers, Covers
      <4>2. CASE disk' = live'
        BY <3>2, <4>2 DEF Match, Headers
      <4> QED BY <1>1, <4>1, <4>2
    <3>4. Ready'
      BY <1>1, <1>8, <2>3, <3>2, <3>3 DEF Ready
    <3>5. file.edge = live.parent /\ Covers(file.slots, live)
      BY <1>8, <2>3 DEF Match, Headers
    <3>6. Patched'
      BY <1>1, <1>4, <1>5, <1>6, <3>5 DEF Patched, Covers
    <3> QED BY <3>2, <3>4, <3>6
  <2>4. Rounded(tx'.need) > file'.slots
    BY <1>1, <1>4, <1>9
  <2>5. Rounded(tx.need)' = Rounded(tx'.need)
    BY DEF Rounded
  <2> QED BY <1>1, <1>4, <2>2, <2>3, <2>4, <2>5 DEF AtlasInv, Inscribing, Whole
<1>10. CASE ~(Rounded(tx.need) > file.slots)
  <2>1. pc' = "store"
    BY <1>1, <1>10
  <2>2. ASSUME ~torn
        PROVE  /\ synced'.gen <= file'.gen /\ file'.gen <= live'.gen
               /\ Covers(file.slots, live)'
               /\ \A p \in Post \ tx.patched : /\ file'.edge[p] = live'.parent[p]
                                               /\ synced'.edge[p] = file'.edge[p]
               /\ file'.gen = live'.gen => tx.patched = {} /\ Match(live)'
    <3>1. synced.gen <= file.gen /\ synced.edge = file.edge /\ file.gen = live.gen
          /\ file.edge = live.parent /\ Covers(file.slots, live) /\ live.gen \in Nat
      BY <1>8, <2>2, Typed DEF Ready, Match, Headers
    <3>2. file.gen <= live'.gen
      BY <1>3, <3>1
    <3>3. Covers(file.slots, live)'
      <4>1. \A p \in tx.patched : ~(p >= file.slots)
        BY <1>6, <1>10, Typed
      <4>2. \A p \in Post : p >= file.slots => live'.parent[p] = None
        BY <1>5, <3>1, <4>1 DEF Covers
      <4> QED BY <1>1, <4>2 DEF Covers
    <3>4. ASSUME file'.gen = live'.gen
          PROVE  tx.patched = {} /\ Match(live)'
      <4>1. ~tx.changed
        BY <1>1, <1>3, <3>1, <3>4
      <4>2. live'.parent = live.parent /\ live'.gen = live.gen
        BY <1>3, <1>7, <4>1
      <4> QED BY <1>1, <1>7, <1>8, <2>2, <4>1, <4>2 DEF Match, Headers, Covers
    <3> QED BY <1>1, <1>5, <3>1, <3>2, <3>3, <3>4
  <2> QED BY <1>1, <1>4, <2>1, <2>2 DEF AtlasInv, Inscribing, Whole
<1> QED BY <1>9, <1>10
-----------------------------------------------------------------------------
(* Growing                                                                 *)

\* Growing the file.
LEMMA GrowKeeps ==
    ASSUME IInv, FileTypes, Spared, AtlasInv, Grow
    PROVE  AtlasInv'
<1>1. /\ pc = "grow" /\ pc' = "remap"
      /\ ~torn => synced' = file
      /\ file' = [file EXCEPT !.len = Rounded(tx.need)]
      /\ UNCHANGED <<disk, live, work, tx, todo, torn>>
  BY DEF Grow, Unmap, Spared
<1>2. /\ file'.len = Rounded(tx.need) /\ file'.slots = file.slots
      /\ file'.gen = file.gen /\ file'.edge = file.edge
  BY <1>1, Typed DEF File
<1>3. Rounded(tx.need)' = Rounded(tx.need)
  BY <1>1 DEF Rounded
<1>4. ASSUME ~torn
      PROVE  /\ Ready' /\ file'.len > file'.slots
             /\ Opening' \/ (tx'.kind = "patches" /\ file'.gen < live'.gen /\ Patched')
  <2>1. /\ Ready /\ Rounded(tx.need) > file.slots
        /\ Opening \/ (tx.kind = "patches" /\ file.gen < live.gen /\ Patched)
    BY <1>1, <1>4 DEF AtlasInv, Whole
  <2>2. (Match(disk) => Match(disk)') /\ (Match(live) => Match(live)')
    <3>1. \A h \in {file', synced'} : h.gen = file.gen /\ h.slots = file.slots
      BY <1>1, <1>2, <1>4
    <3>2. file \in Headers /\ file.slots \in Nat /\ file.slots <= file.slots
      BY Typed DEF Headers
    <3>3. \A h \in {file', synced'} : \E g \in Headers :
             h.gen = g.gen /\ h.slots \in Nat /\ g.slots \in Nat /\ g.slots <= h.slots
      BY <3>1, <3>2
    <3> QED BY <1>1, <1>2, <3>3, MatchKeeps
  <2>3. Ready'
    <3>1. file.gen <= file.gen
      BY Typed
    <3> QED BY <1>1, <1>2, <1>4, <2>1, <2>2, <3>1 DEF Ready
  <2>4. Patched => Patched'
    BY <1>1, <1>2 DEF Patched
  <2>5. Opening => Opening'
    BY <1>1, <1>2, <2>2 DEF Opening
  <2> QED BY <1>1, <1>2, <2>1, <2>3, <2>4, <2>5
<1> QED BY <1>1, <1>2, <1>3, <1>4 DEF AtlasInv, Inscribing, Whole

\* The grown file is mapped and its header written, under the old generation.
LEMMA RemapKeeps ==
    ASSUME IInv, FileTypes, Spared, AtlasInv, Remap
    PROVE  AtlasInv'
<1>1. /\ pc = "remap" /\ pc' = "regrown"
      /\ file' = [file EXCEPT !.slots = file.len, !.gen = spare]
      /\ UNCHANGED <<disk, live, work, tx, synced, todo, torn>>
  BY DEF Remap
<1>2. /\ file'.slots = file.len /\ file'.edge = file.edge
      /\ ~torn => file'.gen = file.gen
  BY <1>1, Typed DEF File, Spared
<1>3. Rounded(tx.need)' = Rounded(tx.need)
  BY <1>1 DEF Rounded
<1>4. ASSUME ~torn
      PROVE  /\ Ready' /\ file'.slots = Rounded(tx.need)
             /\ Opening' \/ (tx'.kind = "patches" /\ file'.gen < live'.gen /\ Patched')
  <2>1. /\ Ready /\ file.len > file.slots /\ file.len = Rounded(tx.need)
        /\ Opening \/ (tx.kind = "patches" /\ file.gen < live.gen /\ Patched)
    BY <1>1, <1>4 DEF AtlasInv, Whole
  <2>2. (Match(disk) => Match(disk)') /\ (Match(live) => Match(live)')
    <3>1. file \in Headers /\ file.slots <= file'.slots /\ file'.slots \in Nat
          /\ synced \in Headers /\ synced.slots <= synced.slots
          /\ file.slots \in Nat /\ synced.slots \in Nat
      BY <1>2, <2>1, Typed DEF Headers
    <3>2. \A h \in {file', synced'} : \E g \in Headers :
             h.gen = g.gen /\ h.slots \in Nat /\ g.slots \in Nat /\ g.slots <= h.slots
      BY <1>1, <1>2, <1>4, <3>1
    <3> QED BY <1>1, <1>2, <3>2, MatchKeeps
  <2>3. Ready'
    BY <1>1, <1>2, <1>4, <2>1, <2>2 DEF Ready
  <2>4. Patched => Patched'
    <3> SUFFICES ASSUME Patched PROVE Patched'
      OBVIOUS
    <3>1. \A p \in Post : p >= file'.slots => p >= file.slots
      BY <1>2, <2>1, Typed
    <3> QED BY <1>1, <1>2, <1>4, <3>1 DEF Patched
  <2>5. Opening => Opening'
    BY <1>1, <1>2, <1>4, <2>2 DEF Opening
  <2> QED BY <1>1, <1>2, <1>4, <2>1, <2>3, <2>4, <2>5
<1> QED BY <1>1, <1>2, <1>3, <1>4 DEF AtlasInv, Inscribing, Whole

\* A file grown has room for every patch.
LEMMA RegrownKeeps ==
    ASSUME IInv, FileTypes, AtlasInv, Regrown
    PROVE  AtlasInv'
<1>1. /\ pc = "regrown" /\ synced' = file
      /\ pc' = IF tx.kind = "open" THEN "idle" ELSE "store"
      /\ tx' = IF tx.kind = "open" THEN NoTx ELSE tx
      /\ UNCHANGED <<disk, live, work, file, todo, torn>>
  BY DEF Regrown
<1>2. tx.kind # "open" => tx.kind = "patches"
  BY <1>1 DEF AtlasInv
<1>3. ASSUME ~torn
      PROVE  Ready' /\ (Match(live) => Match(live)')
  <2>1. Ready
    BY <1>1, <1>3 DEF AtlasInv, Whole
  <2>2. (Match(disk) => Match(disk)') /\ (Match(live) => Match(live)')
    BY <1>1 DEF Match, Headers, Covers
  <2>3. file.gen <= file.gen
    BY Typed
  <2> QED BY <1>1, <2>1, <2>2, <2>3 DEF Ready
<1>4. CASE tx.kind = "open"
  <2>1. ASSUME ~torn
        PROVE  file.gen = live.gen /\ Match(live)
    BY <1>1, <1>4, <2>1 DEF AtlasInv, Whole, Opening
  <2>2. pc' = "idle"
    BY <1>1, <1>4
  <2> QED BY <1>1, <1>3, <2>1, <2>2 DEF AtlasInv, Inscribing, Whole
<1>5. CASE tx.kind # "open"
  <2>1. pc' = "store" /\ tx' = tx /\ tx.kind = "patches"
    BY <1>1, <1>2, <1>5
  <2>2. ASSUME ~torn
        PROVE  /\ synced'.gen <= file'.gen /\ file'.gen <= live'.gen /\ file'.gen # live'.gen
               /\ Covers(file.slots, live)'
               /\ \A p \in Post \ todo : file'.edge[p] = live'.parent[p]
               /\ todo = tx.patched
    <3>1. file.gen < live.gen /\ Patched /\ file.slots = Rounded(tx.need)
      BY <1>1, <1>5, <2>2 DEF AtlasInv, Whole, Opening
    <3>2. \A p \in tx.patched : ~(p >= file.slots)
      <4>1. \A p \in tx.patched : p < tx.need /\ p \in Nat
        BY <3>1, Typed DEF Patched
      <4> QED BY <3>1, <4>1, Typed
    <3>3. \A p \in Post : p >= file.slots => live.parent[p] = None
      BY <3>1, <3>2 DEF Patched
    <3>4. Covers(file.slots, live)'
      BY <1>1, <3>3 DEF Covers
    <3>5. file.gen <= file.gen /\ file.gen <= live.gen /\ file.gen # live.gen
      BY <3>1, Typed
    <3> QED BY <1>1, <3>1, <3>4, <3>5 DEF Patched
  <2> QED BY <1>1, <2>1, <2>2 DEF AtlasInv, Inscribing, Whole
<1> QED BY <1>4, <1>5
-----------------------------------------------------------------------------
(* Atlas::apply                                                            *)

\* A patched slot is written only under the old stamp.
LEMMA StoreSlotKeeps ==
    ASSUME IInv, FileTypes, AtlasInv, StoreSlot
    PROVE  AtlasInv'
<1>1. pc = "store" /\ tx.kind = "patches"
      /\ UNCHANGED <<disk, live, work, tx, synced, torn>>
  BY DEF StoreSlot, AtlasInv
<1>2. CASE todo = {}
  <2>1. pc' = "flush" /\ UNCHANGED <<file, todo>>
    BY <1>2 DEF StoreSlot
  <2>2. (Match(live) => Match(live)') /\ (Covers(file.slots, live) => Covers(file.slots, live)')
    BY <1>1, <2>1 DEF Match, Headers, Covers
  <2> QED BY <1>1, <1>2, <2>1, <2>2 DEF AtlasInv, Inscribing, Whole
<1>3. CASE todo # {}
  <2>1. PICK q \in todo :
          /\ file' = [file EXCEPT !.edge = [@ EXCEPT ![q] = live.parent[q]]]
          /\ todo' = todo \ {q} /\ pc' = pc
    BY <1>3 DEF StoreSlot
  <2>2. /\ file'.edge = [file.edge EXCEPT ![q] = live.parent[q]]
        /\ file'.slots = file.slots /\ file'.gen = file.gen
    BY <2>1, Typed DEF File
  <2>3. q \in Post
    BY <2>1 DEF FileTypes
  <2>4. \A p \in Post : file'.edge[p] = IF p = q THEN live.parent[q] ELSE file.edge[p]
    BY <2>2, <2>3, Typed
  <2>5. ASSUME ~torn
        PROVE  /\ synced'.gen <= file'.gen /\ file'.gen <= live'.gen /\ file'.gen # live'.gen
               /\ Covers(file.slots, live)'
               /\ todo' \subseteq tx.patched
               /\ \A p \in Post \ todo' : file'.edge[p] = live'.parent[p]
               /\ \A p \in Post \ tx.patched : synced'.edge[p] = file'.edge[p]
    <3>1. /\ synced.gen <= file.gen /\ file.gen <= live.gen /\ Covers(file.slots, live)
          /\ todo \subseteq tx.patched
          /\ file.gen = live.gen => tx.patched = {}
          /\ \A p \in Post \ todo : file.edge[p] = live.parent[p]
          /\ \A p \in Post \ tx.patched : synced.edge[p] = file.edge[p]
      BY <1>1, <2>5 DEF AtlasInv, Whole
    <3>2. file.gen # live.gen /\ q \in tx.patched
      BY <2>1, <3>1
    <3>3. Covers(file.slots, live)'
      BY <1>1, <2>2, <3>1 DEF Covers
    <3> QED BY <1>1, <2>1, <2>2, <2>4, <3>1, <3>2, <3>3
  <2> QED BY <1>1, <2>1, <2>5 DEF AtlasInv, Inscribing, Whole
<1> QED BY <1>2, <1>3

\* The flushed pages are all in which the device differed.
LEMMA FlushPagesKeeps ==
    ASSUME IInv, FileTypes, AtlasInv, FlushPages
    PROVE  AtlasInv'
<1> DEFINE edge == [p \in Post |-> IF p \in tx.patched THEN file.edge[p] ELSE synced.edge[p]]
<1>1. /\ pc = "flush" /\ pc' = "stamp" /\ tx.kind = "patches"
      /\ synced' = [synced EXCEPT !.len = file.len, !.edge = edge]
      /\ UNCHANGED <<disk, live, work, tx, file, todo, torn>>
  BY DEF FlushPages, AtlasInv
<1>2. edge \in [Post -> Parent]
  BY Typed
<1>3. \A p \in Post : edge[p] = IF p \in tx.patched THEN file.edge[p] ELSE synced.edge[p]
  OBVIOUS
<1> HIDE DEF edge
<1>4. synced'.edge = edge /\ synced'.gen = synced.gen /\ synced'.slots = synced.slots
  BY <1>1, Typed DEF File
<1>5. ASSUME ~torn
      PROVE  /\ synced'.gen <= file'.gen /\ file'.gen <= live'.gen
             /\ Covers(file.slots, live)' /\ todo' = {}
             /\ \A p \in Post : file'.edge[p] = live'.parent[p]
             /\ synced'.edge = file'.edge
             /\ (synced.gen = live.gen => Covers(synced.slots, live))'
  <2>1. /\ synced.gen <= file.gen /\ file.gen <= live.gen /\ Covers(file.slots, live)
        /\ todo = {} /\ (file.gen = live.gen => Match(live))
        /\ \A p \in Post \ todo : file.edge[p] = live.parent[p]
        /\ \A p \in Post \ tx.patched : synced.edge[p] = file.edge[p]
    BY <1>1, <1>5 DEF AtlasInv, Whole
  <2>2. synced'.edge = file'.edge
    <3>1. \A p \in Post : edge[p] = file.edge[p]
      BY <1>3, <2>1
    <3> QED BY <1>1, <1>2, <1>4, <3>1, Typed
  <2>3. ASSUME synced.gen = live.gen
        PROVE  Covers(synced.slots, live)
    <3>1. file.gen = live.gen
      BY <2>1, <2>3, Typed
    <3> QED BY <2>1, <2>3, <3>1 DEF Match, Headers
  <2>4. (synced.gen = live.gen => Covers(synced.slots, live))'
    BY <1>1, <1>4, <2>3 DEF Covers
  <2>5. Covers(file.slots, live)'
    BY <1>1, <2>1 DEF Covers
  <2> QED BY <1>1, <1>4, <2>1, <2>2, <2>4, <2>5
<1> QED BY <1>1, <1>5 DEF AtlasInv, Inscribing, Whole

\* Stamping the generation, after the edges of it.
LEMMA StampKeeps ==
    ASSUME IInv, FileTypes, AtlasInv, Stamp
    PROVE  AtlasInv'
<1>1. /\ pc = "stamp" /\ pc' = "stamped" /\ tx.kind = "patches"
      /\ file' = [file EXCEPT !.gen = live.gen]
      /\ UNCHANGED <<disk, live, work, tx, synced, todo, torn>>
  BY DEF Stamp, AtlasInv
<1>2. file'.gen = live.gen /\ file'.slots = file.slots /\ file'.edge = file.edge
  BY <1>1, Typed DEF File
<1>3. ASSUME ~torn
      PROVE  /\ synced'.gen <= file'.gen /\ file'.gen <= live'.gen
             /\ Covers(file.slots, live)' /\ todo' = {}
             /\ \A p \in Post : file'.edge[p] = live'.parent[p]
             /\ synced'.edge = file'.edge
             /\ (synced.gen = live.gen => Covers(synced.slots, live))'
  <2>1. /\ synced.gen <= file.gen /\ file.gen <= live.gen /\ Covers(file.slots, live)
        /\ todo = {}
        /\ \A p \in Post \ todo : file.edge[p] = live.parent[p]
        /\ synced.edge = file.edge
        /\ synced.gen = live.gen => Covers(synced.slots, live)
    BY <1>1, <1>3 DEF AtlasInv, Whole
  <2>2. synced.gen <= live.gen /\ live.gen <= live.gen
    BY <2>1, Typed
  <2>3. Covers(file.slots, live)' /\ (synced.gen = live.gen => Covers(synced.slots, live))'
    BY <1>1, <1>2, <2>1 DEF Covers
  <2> QED BY <1>1, <1>2, <2>1, <2>2, <2>3
<1> QED BY <1>1, <1>2, <1>3 DEF AtlasInv, Inscribing, Whole

\* Flushing the header.
LEMMA FlushHeaderKeeps ==
    ASSUME IInv, FileTypes, AtlasInv, FlushHeader
    PROVE  AtlasInv'
<1>1. /\ pc = "stamped" /\ pc' = "idle"
      /\ synced' = [file EXCEPT !.edge = synced.edge]
      /\ UNCHANGED <<disk, live, work, file, todo, torn>>
  BY DEF FlushHeader
<1>2. synced'.gen = file.gen /\ synced'.slots = file.slots /\ synced'.edge = synced.edge
  BY <1>1, Typed DEF File
<1>3. ASSUME ~torn
      PROVE  Ready' /\ Match(live)' /\ file'.gen = live'.gen
  <2>1. /\ file.gen = live.gen /\ Covers(file.slots, live) /\ todo = {}
        /\ \A p \in Post \ todo : file.edge[p] = live.parent[p]
        /\ synced.edge = file.edge
    BY <1>1, <1>3 DEF AtlasInv, Whole
  <2>2. file.edge = live.parent
    BY <2>1, Typed
  <2> QED BY <1>1, <1>2, <2>1, <2>2, SettledReady
<1> QED BY <1>1, <1>3 DEF AtlasInv, Inscribing, Whole

\* What a failed apply leaves is torn; a failed opening leaves the file as the next one
\* may find it.
LEMMA FailureKeeps ==
    ASSUME IInv, FileTypes, AtlasInv, ApplyFails \/ GrowFails \/ OpenFails
    PROVE  AtlasInv'
<1>1. CASE ApplyFails \/ GrowFails
  BY <1>1 DEF ApplyFails, GrowFails, Forsake, AtlasInv, Inscribing
<1>2. CASE OpenFails
  <2>1. /\ pc \in {"grow", "remap", "regrown"} /\ pc' = "closed" /\ tx.kind = "open"
        /\ synced' \in {file, synced}
        /\ UNCHANGED <<disk, live, work, file, torn>>
    BY <1>2 DEF OpenFails
  <2>2. ASSUME ~torn
        PROVE  Ready' /\ Match(live)'
    <3>1. Ready /\ Match(live)
      BY <2>1, <2>2 DEF AtlasInv, Whole, Opening
    <3>2. file.gen <= file.gen
      BY Typed
    <3> QED BY <2>1, <3>1, <3>2 DEF Ready, Match, Headers, Covers
  <2> QED BY <2>1, <2>2 DEF AtlasInv, Inscribing, Whole
<1> QED BY <1>1, <1>2

\* On its sentinel the atlas is torn already.
LEMMA SentinelKeeps ==
    ASSUME Spared, AtlasInv, StampSpare \/ StorePanics
    PROVE  AtlasInv'
<1>1. pc = "store" /\ pc' = "idle" /\ torn' = torn /\ spare # None
  BY DEF StampSpare, StorePanics
<1>2. torn
  BY <1>1 DEF Spared
<1> QED BY <1>1, <1>2 DEF AtlasInv, Inscribing

\* A stutter.
LEMMA StutterKeeps ==
    ASSUME AtlasInv, UNCHANGED vars
    PROVE  AtlasInv'
<1>1. UNCHANGED <<disk, live, work, tx, file, synced, pc, todo, torn>>
  BY DEF vars
<1>2. /\ Inscribing => Inscribing'
      /\ Patching => Patching'
      /\ (Ready => Ready') /\ (Match(live) => Match(live)')
      /\ Opening => Opening'
      /\ Patched => Patched'
      /\ Covers(file.slots, live) => Covers(file.slots, live)'
      /\ Covers(synced.slots, live) => Covers(synced.slots, live)'
      /\ Rounded(tx.need)' = Rounded(tx.need)
      /\ Valid(file, live.gen)' = Valid(file, live.gen)
  BY <1>1 DEF Inscribing, Patching, Ready, Match, Headers, Opening, Patched, Covers, Rounded, Valid
<1>3. Whole => Whole'
  BY <1>1, <1>2 DEF Whole
<1> QED BY <1>1, <1>2, <1>3 DEF AtlasInv
-----------------------------------------------------------------------------
(* Crashes                                                                 *)

\* A header that bears the generation the database falls back to stands before the
\* edges of those tables, both in the mapping and on the device.
LEMMA Survives ==
    ASSUME IInv, FileTypes, AtlasInv, Die, ~torn', pc # "inscribe",
           NEW h \in Headers, h.gen = disk.gen
    PROVE  /\ synced.edge = file.edge /\ file.edge = disk.parent
           /\ Covers(h.slots, disk) /\ synced.gen <= file.gen
<1>1. /\ ~torn /\ pc \notin {"closed", "rows", "sync"}
      /\ pc \in {"store", "flush", "stamp", "stamped"} => disk.gen = live.gen
  BY DEF Die
<1>2. Whole /\ pc \in Pc
  BY <1>1 DEF AtlasInv, IInv, TablesOK
<1>3. CASE pc \in {"idle", "tx", "grow", "remap", "regrown"}
  <2>1. Ready
    BY <1>2, <1>3 DEF Whole
  <2> QED BY <2>1 DEF Ready, Match
<1>4. CASE pc \in {"store", "flush"}
  <2>1. /\ synced.gen <= file.gen /\ file.gen <= live.gen
        /\ todo \subseteq tx.patched
        /\ \A p \in Post \ tx.patched : synced.edge[p] = file.edge[p]
        /\ file.gen = live.gen => tx.patched = {} /\ Match(live)
    BY <1>2, <1>4 DEF Whole
  <2>2. disk.gen = live.gen /\ disk.parent = live.parent
    BY <1>1, <1>4, Typed
  <2>3. file.gen = live.gen
    BY <2>1, <2>2, Typed DEF Headers
  <2>4. synced.edge = file.edge
    BY <2>1, <2>3, Typed
  <2>5. file.edge = live.parent /\ Covers(h.slots, live)
    BY <2>1, <2>2, <2>3 DEF Match
  <2> QED BY <2>1, <2>2, <2>4, <2>5 DEF Covers
<1>5. CASE pc \in {"stamp", "stamped"}
  <2>1. /\ synced.gen <= file.gen /\ todo = {} /\ synced.edge = file.edge
        /\ Covers(file.slots, live)
        /\ synced.gen = live.gen => Covers(synced.slots, live)
        /\ \A p \in Post \ todo : file.edge[p] = live.parent[p]
    BY <1>2, <1>5 DEF Whole
  <2>2. disk.gen = live.gen /\ disk.parent = live.parent
    BY <1>1, <1>5, Typed
  <2>3. file.edge = live.parent
    BY <2>1, Typed
  <2>4. Covers(h.slots, live)
    BY <2>1, <2>2 DEF Headers
  <2> QED BY <2>1, <2>2, <2>3, <2>4 DEF Covers
<1> QED BY <1>1, <1>2, <1>3, <1>4, <1>5 DEF Pc

\* The process dies; what it stored in its mapping stays.
LEMMA KillKeeps ==
    ASSUME IInv, FileTypes, AtlasInv, Kill
    PROVE  AtlasInv'
<1>1. /\ Die /\ pc' = "closed" /\ live' = disk /\ disk' = disk
      /\ UNCHANGED <<file, synced>>
  BY DEF Kill, Die
<1>2. ASSUME ~torn', Valid(file, live.gen)'
      PROVE  Ready' /\ Match(live)'
  <2>1. file.magic /\ file.gen = disk.gen
    BY <1>1, <1>2 DEF Valid
  <2>2. pc # "inscribe"
    BY <2>1 DEF AtlasInv, Inscribing
  <2>3. /\ synced.edge = file.edge /\ file.edge = disk.parent
        /\ Covers(file.slots, disk) /\ synced.gen <= file.gen
    BY <1>1, <1>2, <2>1, <2>2, Survives DEF Headers
  <2>4. synced.gen = disk.gen => Covers(synced.slots, disk)
    BY <1>1, <1>2, <2>2, Survives DEF Headers
  <2>5. file.gen <= file.gen
    BY Typed
  <2> QED BY <1>1, <2>1, <2>3, <2>4, <2>5 DEF Ready, Match, Headers, Covers
<1> QED BY <1>1, <1>2 DEF AtlasInv, Inscribing, Whole

\* Whatever pages a power loss keeps, a file accepted afterwards is current.
LEMMA LosePowerKeeps ==
    ASSUME IInv, FileTypes, AtlasInv, LosePower
    PROVE  AtlasInv'
<1>1. PICK header \in Headers, length \in {file.len, synced.len},
           kept \in SUBSET {p \in Post : file.edge[p] # synced.edge[p]} :
        file' = [header EXCEPT
          !.len = length,
          !.edge = [p \in Post |-> IF p \in kept THEN file.edge[p] ELSE synced.edge[p]]]
  BY DEF LosePower, Headers
<1> DEFINE edge == [p \in Post |-> IF p \in kept THEN file.edge[p] ELSE synced.edge[p]]
<1>2. edge \in [Post -> Parent] /\ \A p \in Post : edge[p] \in {file.edge[p], synced.edge[p]}
  BY Typed
<1>3. file' = [header EXCEPT !.len = length, !.edge = edge]
  BY <1>1
<1> HIDE DEF edge
<1>4. header \in File
  BY Typed DEF Headers
<1>5. /\ file'.edge = edge /\ file'.gen = header.gen /\ file'.slots = header.slots
      /\ file'.magic = header.magic
  BY <1>3, <1>4 DEF File
<1>6. /\ Die /\ pc' = "closed" /\ live' = disk /\ disk' = disk /\ synced' = file'
  BY DEF LosePower, Die
<1>7. ASSUME ~torn', Valid(file, live.gen)'
      PROVE  Ready' /\ Match(live)'
  <2>1. header.magic /\ header.gen = disk.gen
    BY <1>5, <1>6, <1>7 DEF Valid
  <2>2. pc # "inscribe"
    BY <2>1 DEF AtlasInv, Inscribing, Headers
  <2>3. /\ synced.edge = file.edge /\ file.edge = disk.parent /\ Covers(header.slots, disk)
    BY <1>6, <1>7, <2>1, <2>2, Survives
  <2>4. edge = disk.parent
    BY <1>2, <2>3, Typed
  <2>5. disk.gen <= disk.gen
    BY Typed
  <2> QED BY <1>5, <1>6, <2>1, <2>3, <2>4, <2>5 DEF Ready, Match, Headers, Covers
<1> QED BY <1>6, <1>7 DEF AtlasInv, Inscribing, Whole

-----------------------------------------------------------------------------

\* No file yet.
LEMMA InitAtlas == Init => FileTypes /\ Spared /\ AtlasInv
<1> SUFFICES ASSUME Init PROVE FileTypes /\ Spared /\ AtlasInv
  OBVIOUS
<1>1. /\ spare = None /\ file = NoFile /\ synced = NoFile /\ pc = "closed" /\ todo = {} /\ torn = FALSE
      /\ session = 0
  BY DEF Init
<1>2. FileTypes
  <2>1. Shaped(file) /\ Shaped(synced)
    BY <1>1, FreshFile
  <2>2. 0 \in 0..MaxSessions
    BY KinAssumption
  <2> QED BY <1>1, <2>1, <2>2 DEF FileTypes
<1>3. ~Valid(file, live.gen)
  BY <1>1 DEF Valid, NoFile
<1> QED BY <1>1, <1>2, <1>3 DEF Spared, AtlasInv, Inscribing, Whole

\* The sentinel outlives a growth only when that growth failed after its commit.
LEMMA SparedKeeps ==
    ASSUME IInv, FileTypes, Spared, [Next]_vars
    PROVE  Spared'
<1>1. CASE Forge \/ InscribeHeader \/ InscribeRow \/ Synchronize
  BY <1>1 DEF Forge, InscribeHeader, InscribeRow, Synchronize, Spared
<1>2. CASE BeginFacts \/ BeginCrawl \/ Commit \/ Abort
  BY <1>2 DEF BeginFacts, BeginCrawl, Begin, Commit, Abort, Spared
<1>3. CASE \E p \in Post : \E q \in Parent \ {p} : AbsorbFact(p, q)
  BY <1>3 DEF AbsorbFact, Spared
<1>4. CASE Grow
  <2>1. file'.gen = file.gen
    BY <1>4, Typed DEF Grow, File
  <2> QED BY <1>4, <2>1 DEF Grow, Unmap, Spared
<1>5. CASE Remap \/ Regrown
  BY <1>5 DEF Remap, Regrown, Spared
<1>6. CASE StoreSlot \/ FlushPages \/ Stamp \/ FlushHeader
  BY <1>6 DEF StoreSlot, FlushPages, Stamp, FlushHeader, Spared
<1>7. CASE StampSpare \/ StorePanics
  BY <1>7 DEF StampSpare, StorePanics, Spared
<1>8. CASE ApplyFails \/ GrowFails \/ OpenFails
  BY <1>8 DEF ApplyFails, GrowFails, OpenFails, Forsake, Spared
<1>9. CASE Kill \/ LosePower
  BY <1>9 DEF Kill, LosePower, Die, Spared
<1>10. CASE UNCHANGED vars
  BY <1>10 DEF vars, Spared
<1> QED
  BY <1>1, <1>2, <1>3, <1>4, <1>5, <1>6, <1>7, <1>8, <1>9, <1>10 DEF Next

\* Every step keeps the invariant of the atlas.
LEMMA AtlasKeeps ==
    ASSUME IInv, FileTypes, Spared, AtlasInv, [Next]_vars
    PROVE  AtlasInv'
<1>1. CASE Forge
  BY <1>1, ForgeKeeps
<1>2. CASE InscribeHeader \/ InscribeRow
  BY <1>2, InscribeKeeps
<1>3. CASE Synchronize
  BY <1>3, SynchronizeKeeps
<1>4. CASE BeginFacts \/ BeginCrawl
  BY <1>4, BeginPatches
<1>5. CASE \E p \in Post : \E q \in Parent \ {p} : AbsorbFact(p, q)
  BY <1>5, AbsorbFactPatches
<1>6. CASE Commit
  BY <1>6, CommitPatches
<1>7. CASE Abort
  BY <1>7, AbortLeaves
<1>8. CASE Grow \/ Remap \/ Regrown
  BY <1>8, GrowKeeps, RemapKeeps, RegrownKeeps
<1>9. CASE StoreSlot \/ FlushPages \/ Stamp \/ FlushHeader
  BY <1>9, StoreSlotKeeps, FlushPagesKeeps, StampKeeps, FlushHeaderKeeps
<1>10. CASE ApplyFails \/ GrowFails \/ OpenFails
  BY <1>10, FailureKeeps
<1>11. CASE StampSpare \/ StorePanics
  BY <1>11, SentinelKeeps
<1>12. CASE Kill \/ LosePower
  BY <1>12, KillKeeps, LosePowerKeeps
<1>13. CASE UNCHANGED vars
  BY <1>13, StutterKeeps
<1> QED
  BY <1>1, <1>2, <1>3, <1>4, <1>5, <1>6, <1>7, <1>8, <1>9, <1>10, <1>11, <1>12, <1>13 DEF Next

\* The inductive invariant of the tables, the files and the lock's holder: which
\* header, in the mapping or on the device, stands before which edges at each step.
THEOREM AtlasInvariance == Spec => [](IInv /\ FileTypes /\ Spared /\ AtlasInv)
<1>1. Init => IInv /\ FileTypes /\ Spared /\ AtlasInv
  BY InitHolds, InitAtlas
<1>2. IInv /\ FileTypes /\ Spared /\ AtlasInv /\ [Next]_vars => (IInv /\ FileTypes /\ Spared /\ AtlasInv)'
  BY NextKeeps, FileTypesKeep, SparedKeeps, AtlasKeeps
<1> QED BY <1>1, <1>2, PTL DEF Spec

\* Every table, header and slot keeps its type, and the file a whole number of quanta.
THEOREM TypesAreKept == Spec => []TypeOK
<1>1. IInv /\ FileTypes => TypeOK
  BY DEF IInv, TablesOK, FileTypes, Shaped, TypeOK
<1> QED BY <1>1, AtlasInvariance, PTL

\* Whenever a reader may look, and no fault fell between the file and the tables, every
\* post has in the atlas the parent the tables give it: after any commit, growth,
\* failure, crash or loss of power, and for any pages that a power loss keeps.
THEOREM AtlasIsExact == Spec => []ProjectionUnlessTorn
<1>1. IInv /\ FileTypes /\ Spared /\ AtlasInv => ProjectionUnlessTorn
  <2> SUFFICES ASSUME IInv, FileTypes, Spared, AtlasInv, pc = "idle", ~torn, NEW p \in Post
               PROVE  AtlasParent(p) = live.parent[p]
    BY DEF ProjectionUnlessTorn, Exact
  <2>1. file.edge = live.parent /\ Covers(file.slots, live)
    BY DEF AtlasInv, Whole, Match, Headers
  <2>2. spare = None
    BY DEF Spared
  <2> QED BY <2>1, <2>2 DEF AtlasParent, Covers
<1> QED BY <1>1, AtlasInvariance, PTL
=============================================================================
