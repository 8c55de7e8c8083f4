------------------------------ MODULE KinAtlas ------------------------------
(***************************************************************************)
(* The family tables of the index and their accelerator (src/.../kin.rs    *)
(* with its writers in index.rs): redb holds each post's parent, each      *)
(* parent's children and a generation that every change of them advances;  *)
(* a memory-mapped file, the atlas, repeats the parents in an array        *)
(* stamped with the generation.  A writer holds the atlas's write lock     *)
(* from before its transaction until the atlas has its patches too, so     *)
(* readers see it only between writes (pc = "idle").  A reopened file is   *)
(* taken as it is if its stamp is the tables' generation, and rebuilt      *)
(* otherwise.                                                              *)
(***************************************************************************)
EXTENDS Naturals, FiniteSetsExt

CONSTANTS
    Post,           \* post ids, all that the booru has: positive numbers
    None,           \* no parent, no cursor
    Quantum,        \* SLOT_QUANTUM
    MaxGen,         \* bound: generations before the writers stop
    MaxSessions,    \* bound: crashes in one run
    MayLosePower,   \* whether a crash may take the machine down
    MayFail         \* whether a transaction or a write to the file may fail

ASSUME KinAssumption ==
    /\ Post \subseteq Nat \ {0}
    /\ None \notin Nat
    /\ Quantum \in Nat \ {0} /\ MaxGen \in Nat /\ MaxSessions \in Nat
    /\ MayLosePower \in BOOLEAN /\ MayFail \in BOOLEAN

VARIABLES
    disk,       \* the tables of the last durable commit
    live,       \* the tables of the last commit
    work,       \* the tables the open transaction is building
    tx,         \* the open transaction, until its patches are applied
    file,       \* the atlas file as the process has it mapped, and Atlas::slots
    spare,      \* Atlas::generation while the map is grow's sentinel, None while it is the file
    synced,     \* the atlas file as the device has it
    pc,         \* where the thread that holds the write lock stands
    todo,       \* the posts whose slots are still to be stored
    torn,       \* history: a fault fell between the tables and the atlas
    session     \* crashes so far

vars == <<disk, live, work, tx, file, spare, synced, pc, todo, torn, session>>

-----------------------------------------------------------------------------
(* Types                                                                   *)

Parent == Post \cup {None}

Tables == [ parent   : [Post -> Parent],        \* PARENTS
            children : [Post -> SUBSET Post],   \* CHILDREN
            gen      : Nat,                     \* META generation
            before   : Post \cup {None},        \* META backfill cursor
            done     : BOOLEAN,                 \* META backfill done
            known    : SUBSET Post ]            \* history: posts the kin crawl absorbed

Tx == [ kind : {"none", "open", "facts", "crawl", "patches"}, page : SUBSET Post, cursor : Parent,
        changed : BOOLEAN, patched : SUBSET Post, need : Nat ]

\* The header's page, the slots and the length of the file, counted in slots.
File == [magic : BOOLEAN, gen : Nat, slots : Nat, edge : [Post -> Parent], len : Nat]

Pc == {"closed", "inscribe", "rows", "sync", "idle", "tx",
       "grow", "remap", "regrown", "store", "flush", "stamp", "stamped"}

TypeOK ==
    /\ disk \in Tables /\ live \in Tables /\ work \in Tables
    /\ tx \in Tx
    /\ file \in File /\ synced \in File
    /\ spare \in Nat \cup {None}
    /\ file.slots % Quantum = 0
    /\ pc \in Pc
    /\ todo \subseteq Post
    /\ torn \in BOOLEAN
    /\ session \in 0..MaxSessions

NoTx == [kind |-> "none", page |-> {}, cursor |-> None,
         changed |-> FALSE, patched |-> {}, need |-> 0]

NoFile == [magic |-> FALSE, gen |-> 0, slots |-> 0, edge |-> [p \in Post |-> None], len |-> 0]

NoTables == [parent |-> [p \in Post |-> None], children |-> [p \in Post |-> {}], gen |-> 0,
             before |-> None, done |-> FALSE, known |-> {}]

Init ==
    /\ disk = NoTables /\ live = NoTables /\ work = NoTables
    /\ tx = NoTx
    /\ file = NoFile /\ synced = NoFile /\ spare = None
    /\ pc = "closed"
    /\ todo = {}
    /\ torn = FALSE
    /\ session = 0

-----------------------------------------------------------------------------
(* The file                                                                *)

\* No rounding at all.
RoundedNot(n) == n

\* rounded_slots.
Rounded(n) == Quantum * ((n + Quantum - 1) \div Quantum)

\* No post, and not the lack of one: the slice is too short and the thread panics.
Panics == 0

\* Atlas::parent: posts beyond the slots have none, and the sentinel holds no slot.
AtlasParent(p) ==
    IF p >= file.slots THEN None ELSE IF spare # None THEN Panics ELSE file.edge[p]

\* A file taken for current by its shape alone.
ValidUnstamped(f, gen) == f.magic /\ f.len = f.slots

\* valid_slots.
Valid(f, gen) == f.magic /\ f.gen = gen /\ f.len = f.slots

\* What newest_slot may return.  The records are not modelled: harvests that change
\* no edge can make any of them the newest, or none.
NewestSlots == {0} \cup {p + 1 : p \in Post}

-----------------------------------------------------------------------------
(* Atlas::forge, open_valid, rebuild, inscribe                             *)

\* A current file is mapped, and grown if the newest post has no slot; any other
\* is truncated and sized anew.  (The device may keep the old contents instead, but
\* they are stale either way.)
Forge ==
    /\ pc = "closed"
    /\ \E minimum \in NewestSlots :
        IF Valid(file, live.gen)
        THEN /\ pc' = IF file.slots < Rounded(minimum) THEN "grow" ELSE "idle"
             /\ tx' = IF pc' = "grow" THEN [NoTx EXCEPT !.kind = "open", !.need = minimum] ELSE NoTx
             /\ UNCHANGED <<file, synced>>
        ELSE /\ pc' = "inscribe"
             /\ file' = [NoFile EXCEPT !.len = Rounded(minimum)]
             /\ synced' = file'
             /\ UNCHANGED tx
    /\ UNCHANGED <<disk, live, work, spare, todo, torn, session>>

\* inscribe writes the header first...
InscribeHeader ==
    /\ pc = "inscribe"
    /\ file' = [file EXCEPT !.magic = TRUE, !.gen = live.gen, !.slots = file.len]
    /\ todo' = {p \in Post : live.parent[p] # None /\ p < file.len}
    /\ pc' = "rows"
    /\ UNCHANGED <<disk, live, work, tx, spare, synced, torn, session>>

\* ... then the edges, one row of PARENTS at a time...
InscribeRow ==
    /\ pc = "rows"
    /\ IF todo = {} THEN pc' = "sync" /\ UNCHANGED <<file, todo>>
       ELSE \E p \in todo :
            /\ file' = [file EXCEPT !.edge = [@ EXCEPT ![p] = live.parent[p]]]
            /\ todo' = todo \ {p}
            /\ UNCHANGED pc
    /\ UNCHANGED <<disk, live, work, tx, spare, synced, torn, session>>

\* ... and flushes all.  A child beyond the newest post got no slot.
Synchronize ==
    /\ pc = "sync"
    /\ synced' = file
    /\ pc' = "idle"
    /\ torn' = (\E p \in Post : live.parent[p] # None /\ p >= file.slots)
    /\ UNCHANGED <<disk, live, work, tx, file, spare, todo, session>>

-----------------------------------------------------------------------------
(* The writers: absorb_harvest_with, absorb_kin_crawl, absorb_family       *)

Begin(kind, page, cursor) ==
    /\ pc = "idle"
    /\ live.gen < MaxGen
    /\ pc' = "tx"
    /\ tx' = [NoTx EXCEPT !.kind = kind, !.page = page, !.cursor = cursor]
    /\ UNCHANGED <<disk, live, work, file, spare, synced, todo, torn, session>>

\* absorb_harvest_with; or absorb_family, which leaves the records as they are and
\* brands its root, only to spare a later hydration.
BeginFacts == \E page \in SUBSET Post : Begin("facts", page, None)

\* kin_once: the newest posts below the cursor; an empty page completes the crawl.
BeginCrawl ==
    /\ ~live.done
    /\ LET below == {p \in Post : live.before # None => p < live.before} IN
        \/ \E least \in below : Begin("crawl", {p \in below : p >= least}, least)
        \/ below = {} /\ Begin("crawl", {}, None)

\* The child left in its old parent's list.
AmendedKeepingOld(t, p, q) ==
    [m \in Post |-> IF m = q THEN t.children[m] \cup {p} ELSE t.children[m]]

\* amend_children twice: out of the old parent's list and into the new one's.
Amended(t, p, q) ==
    [m \in Post |-> IF m = q THEN t.children[m] \cup {p} ELSE t.children[m] \ {p}]

\* A lost parent is no news.
ChangedByGain(p, q) == q # None /\ work.parent[p] # q

\* Whether it is news that p has parent q.
Changed(p, q) == work.parent[p] # q

\* One turn of kin::absorb's loop: the fact that p has parent q, and a hint
\* of children that changed or not.
AbsorbFact(p, q) ==
    /\ pc = "tx"
    /\ p \in tx.page
    /\ \E hinted \in BOOLEAN :
        tx' = [tx EXCEPT
            !.page = @ \ {p},
            !.changed = @ \/ hinted \/ Changed(p, q),
            !.patched = IF work.parent[p] # q THEN @ \cup {p} ELSE @,
            !.need = IF work.parent[p] # q
                     THEN Max({@, p + 1} \cup {m + 1 : m \in {q} \ {None}}) ELSE @]
    /\ work' = [work EXCEPT
         !.parent = [@ EXCEPT ![p] = q],
         !.children = IF work.parent[p] # q THEN Amended(work, p, q) ELSE @,
         !.known = IF tx.kind = "crawl" THEN @ \cup {p} ELSE @]
    /\ UNCHANGED <<disk, live, file, spare, synced, pc, todo, torn, session>>

\* advance_backfill.
Advanced(t) ==
    IF tx.kind # "crawl" THEN t
    ELSE [t EXCEPT !.before = IF tx.cursor = None THEN @ ELSE tx.cursor,
                   !.done = @ \/ tx.cursor = None]

\* The generation advances once if anything changed.  Now and then the
\* commit is due an fsync (begin_quick_write).
Commit ==
    /\ pc = "tx"
    /\ tx.page = {}
    /\ live' = [Advanced(work) EXCEPT !.gen = IF tx.changed THEN @ + 1 ELSE @]
    /\ work' = live'
    /\ disk' \in {disk, live'}
    /\ tx' = [NoTx EXCEPT !.kind = "patches", !.patched = tx.patched, !.need = tx.need]
    /\ todo' = tx.patched
    /\ pc' = IF Rounded(tx.need) > file.slots THEN "grow" ELSE "store"
    /\ UNCHANGED <<file, spare, synced, torn, session>>

\* The cursor moved in a transaction of its own.
AbortAdvancing ==
    /\ MayFail
    /\ pc = "tx"
    /\ live' = Advanced(live)
    /\ work' = live'
    /\ tx' = NoTx
    /\ pc' = "idle"
    /\ UNCHANGED <<disk, file, spare, synced, todo, torn, session>>

\* Any step of the transaction fails, and all of it is dropped.
Abort ==
    /\ MayFail
    /\ pc = "tx"
    /\ work' = live
    /\ tx' = NoTx
    /\ pc' = "idle"
    /\ UNCHANGED <<disk, live, file, spare, synced, todo, torn, session>>

-----------------------------------------------------------------------------
(* Atlas::apply and Atlas::grow                                            *)

\* grow flushes the map and puts a sentinel, no longer than the header, in its place.
Unmap ==
    /\ synced' = IF spare = None THEN file ELSE synced
    /\ spare' = IF spare = None THEN file.gen ELSE spare

\* It sets the length...
Grow ==
    /\ pc = "grow"
    /\ Unmap
    /\ file' = [file EXCEPT !.len = Rounded(tx.need)]
    /\ pc' = "remap"
    /\ UNCHANGED <<disk, live, work, tx, todo, torn, session>>

\* ... maps the file again and writes the header, under the generation it had...
Remap ==
    /\ pc = "remap"
    /\ file' = [file EXCEPT !.slots = file.len, !.gen = spare]
    /\ spare' = None
    /\ pc' = "regrown"
    /\ UNCHANGED <<disk, live, work, tx, synced, todo, torn, session>>

\* ... and flushes it.
Regrown ==
    /\ pc = "regrown"
    /\ synced' = file
    /\ pc' = IF tx.kind = "open" THEN "idle" ELSE "store"
    /\ tx' = IF tx.kind = "open" THEN NoTx ELSE tx
    /\ UNCHANGED <<disk, live, work, file, spare, todo, torn, session>>

\* apply: the patched slots, the last patch of a post being its new parent...
StoreSlot ==
    /\ pc = "store" /\ spare = None
    /\ IF todo = {} THEN pc' = "flush" /\ UNCHANGED <<file, todo>>
       ELSE \E p \in todo :
            /\ file' = [file EXCEPT !.edge = [@ EXCEPT ![p] = live.parent[p]]]
            /\ todo' = todo \ {p}
            /\ UNCHANGED pc
    /\ UNCHANGED <<disk, live, work, tx, spare, synced, torn, session>>

\* ... their pages flushed, with the length of the file...
FlushPages ==
    /\ pc = "flush"
    /\ synced' = [synced EXCEPT
         !.len = file.len,
         !.edge = [p \in Post |-> IF p \in tx.patched THEN file.edge[p] ELSE synced.edge[p]]]
    /\ pc' = "stamp"
    /\ UNCHANGED <<disk, live, work, tx, file, spare, todo, torn, session>>

\* ... the generation written...
Stamp ==
    /\ pc = "stamp"
    /\ file' = [file EXCEPT !.gen = live.gen]
    /\ pc' = "stamped"
    /\ UNCHANGED <<disk, live, work, tx, spare, synced, todo, torn, session>>

\* ... and the page of the header flushed.
FlushHeader ==
    /\ pc = "stamped"
    /\ synced' = [file EXCEPT !.edge = synced.edge]
    /\ tx' = NoTx
    /\ pc' = "idle"
    /\ UNCHANGED <<disk, live, work, file, spare, todo, torn, session>>

\* On the sentinel, a commit without patches finds only the header to write...
StampSpare ==
    /\ pc = "store" /\ spare # None /\ todo = {}
    /\ spare' = live.gen
    /\ tx' = NoTx
    /\ pc' = "idle"
    /\ UNCHANGED <<disk, live, work, file, synced, todo, torn, session>>

\* ... and one with patches that asks for no growth panics at the first slot.  The
\* lock's other holders ignore its poison.
StorePanics ==
    /\ pc = "store" /\ spare # None /\ todo # {}
    /\ tx' = NoTx
    /\ todo' = {}
    /\ pc' = "idle"
    /\ UNCHANGED <<disk, live, work, file, spare, synced, torn, session>>

\* apply returns its error, and the commit stands without its patches.
Forsake ==
    /\ MayFail
    /\ tx.kind = "patches"
    /\ tx' = NoTx
    /\ todo' = {}
    /\ torn' = TRUE
    /\ pc' = "idle"
    /\ UNCHANGED <<disk, live, work, file, session>>

\* A flush fails, or before a growth the sentinel cannot be allocated.
ApplyFails ==
    /\ Forsake
    /\ pc \in {"grow", "regrown", "flush", "stamped"}
    /\ synced' \in IF pc = "grow" /\ spare = None THEN {synced, file} ELSE {synced}
    /\ UNCHANGED spare

\* The length cannot be set, or the file not be mapped: the atlas stays on its sentinel
\* with the slots it had, and whatever commit needs more tries to grow again.
GrowFails ==
    /\ Forsake
    /\ \/ pc = "grow" /\ Unmap
       \/ pc = "remap" /\ UNCHANGED <<synced, spare>>

\* At an opening any of these ends the program, with the file as it is.
OpenFails ==
    /\ MayFail
    /\ tx.kind = "open"
    /\ pc \in {"grow", "remap", "regrown"}
    /\ synced' \in IF pc = "grow" THEN {synced, file} ELSE {synced}
    /\ spare' = None
    /\ tx' = NoTx
    /\ pc' = "closed"
    /\ UNCHANGED <<disk, live, work, file, todo, torn, session>>

-----------------------------------------------------------------------------
(* Crashes                                                                 *)

\* The database falls back to its last durable commit.  The history remembers a
\* rebuild cut short, and an apply cut short whose commit is rolled back.
Die ==
    /\ session < MaxSessions
    /\ session' = session + 1
    /\ pc # "closed"
    /\ pc' = "closed"
    /\ spare' = None
    /\ live' = disk
    /\ work' = disk
    /\ tx' = NoTx
    /\ todo' = {}
    /\ torn' = (\/ torn
                \/ pc \in {"rows", "sync"}
                \/ pc \in {"store", "flush", "stamp", "stamped"} /\ disk.gen # live.gen)
    /\ UNCHANGED disk

\* The process dies; what it stored in its mapping stays.
Kill == Die /\ UNCHANGED <<file, synced>>

\* The machine dies: of what was not flushed, any page and the length may stay.
LosePower ==
    /\ MayLosePower
    /\ Die
    /\ \E header \in {file, synced}, length \in {file.len, synced.len},
          kept \in SUBSET {p \in Post : file.edge[p] # synced.edge[p]} :
        file' = [header EXCEPT
            !.len = length,
            !.edge = [p \in Post |-> IF p \in kept THEN file.edge[p] ELSE synced.edge[p]]]
    /\ synced' = file'

Next ==
    \/ Forge \/ InscribeHeader \/ InscribeRow \/ Synchronize
    \/ BeginFacts \/ BeginCrawl
    \/ \E p \in Post : \E q \in Parent \ {p} : AbsorbFact(p, q)
    \/ Commit \/ Abort
    \/ Grow \/ Remap \/ Regrown
    \/ StoreSlot \/ FlushPages \/ Stamp \/ FlushHeader
    \/ StampSpare \/ StorePanics
    \/ ApplyFails \/ GrowFails \/ OpenFails
    \/ Kill \/ LosePower

Spec == Init /\ [][Next]_vars

-----------------------------------------------------------------------------
(* Properties                                                              *)

Exact == \A p \in Post : AtlasParent(p) = live.parent[p]

\* "The redb edge tables are authoritative; this file is a generation-stamped
\* projection" (kin.rs:55-56): whenever a reader may look, every slot of the atlas
\* holds the parent the tables give its post.
AtlasIsProjection ==
    pc = "idle" => \A p \in Post : p < file.slots => file.edge[p] = live.parent[p]

\* There are five ways to an atlas that readers see and that is wrong: a rebuild cut
\* short after its header, an apply cut short whose commit is rolled back, an apply
\* whose flush failed, a growth that failed after its commit (a later one that
\* succeeds is stamped as if the edges were there), and children beyond the newest
\* post at a rebuild.
ProjectionUnlessTorn == pc = "idle" /\ ~torn => Exact

\* The two directions of the relation never disagree, in what is committed or
\* durable: family_tree climbs by the one and walks down by the other.
EdgesBothWays ==
    \A t \in {disk, live}, p, q \in Post : t.parent[p] = q <=> p \in t.children[q]

\* A generation names one state of the edges, or a stale file could pass for
\* current: what is durable and what is live differ in it if they differ.
GenerationNamesEdges == disk.gen = live.gen => disk.parent = live.parent

\* The backfill skips no post, and is only complete when all were absorbed.
KinCrawlLeavesNoGap ==
    \A t \in {disk, live} :
        /\ t.before # None => \A p \in Post : p >= t.before => p \in t.known
        /\ t.done => t.known = Post
=============================================================================
