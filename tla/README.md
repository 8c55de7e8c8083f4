# A verification project for the adequate booru viewer

This directory holds TLA+ models of the parts of `crates/adequate_booru_viewer`
whose correctness depends on the order in which things happen, the TLC runs that
check them on small instances, and proofs, checked by TLAPS, of what matters
most for every instance. Paths below are relative to
`crates/adequate_booru_viewer/src/`.

## The system

A desktop program mirrors post metadata of a booru into a local index, and
searches that index. It is one process of some ten threads:

| part | state it keeps | operations | talks to |
|---|---|---|---|
| durable index (`index.rs`, `posting.rs`) | redb tables: records, score and favourite lanes, posting chunks, a queue of posting facts, crawl cursor | absorb a harvest, merge pending facts, search, stats | every thread; redb admits one writer and many snapshot readers |
| read caches (`index.rs`) | decoded postings (the vault), records, sort heads, sort keys, favourite ranks, tag bank | fill on a miss, evict after a write | filled by searches, evicted by writers, each under its own mutex |
| kin (`kin.rs`) | parent, child and hint tables; an mmapped parent array stamped with a generation | absorb, apply, grow, rebuild, root, tree | in the transactions of the index; its own file |
| worker lanes (`worker.rs`) | bounded command channels, one bounded event channel, rate gates | refresh, family, definition, account, warm, media, crawl, kin crawl, merge loops | the window, the index, the network |
| query and filters (`model.rs`, `query_ui.rs`, `filter_expression.rs`, `filter_bank.rs`, `app.rs`) | the query tree, the active group, the selected filter, the library | edit the tree, save, load, rename, clone and delete filters, render and parse | retrieval, durable files |
| retrieval in the window (`app.rs`, `app/refresh.rs`) | refresh pulse and serial, gate, horizon, shown hit, parked hit, hit cache | change of view, favourite, deepening, opening and closing, draining events | refresh lane, event channel |
| media (`media.rs`, `worker.rs`) | files by URL, pending queue, cull epoch, in-flight and fault sets | fetch, decode, cull, save | network, disk, the window |
| durable files (`configuration.rs`, `favorites.rs`, `application_paths/adoption.rs`) | configuration, filter library, session, favourites, adopted directories | load, save by rename, migrate, adopt | disk |
| sealed index (`index/sealed.rs`) | a copy-on-write overlay over a shared-locked file | read | disk |
| completion, painting, Danbooru client | | | sequential or pure I/O |

What is hard: one writer at a time but readers on older snapshots that share
mutable caches with it; commits that are mostly not fsynced, so a crash rolls
many of them back together; a queue of facts merged in parts while it grows;
requests, answers and background news that cross in two channels; results that
arrive while they must not be shown; caches that belong to no snapshot; several
files that must change together while only a single rename is atomic.
`PROJECT.json` lists each hazard at its
line, with the property that would catch it or the reason none does yet.

What makes each part correct: the index answers every query as if it were
computed from the records it stores, at every commit and after every crash, its
crawl skips nothing, and its pending facts drain; a cache returns what the
reader's snapshot holds; the wall, or what is parked for it, answers the
question as it stands, and a quiet window is up to date; a page shows the first
posts of the promised order; a saved filter means tomorrow what it meant today;
whatever the window waits for is really under way; files are never lost by a
crash half way.

## Modules

**`Catalogue`**: what the index promises: a set of records, the answer of each
posting key computed from them, the records a crash falls back to. Two actions,
`Land` and `Crash`.

**`IndexStore`**: the durable index. A redb state is the record `Db`
(`posts`, `lane`, `merged`, `facts`, `next`, `before`, and the history `seen` of
posts the crawl absorbed). `disk` is the last durable commit, `live` the last
commit, `work` what the open write transaction builds.

| action | code |
|---|---|
| `BeginAbsorb`, `BeginCrawl`, `BeginMerge`, `BeginKin` | `begin_quick_write` from `absorb(_harvest)`, `crawl_once`, `merge_loop`, `absorb_kin_crawl`/`absorb_family`: each resets the anchor when `ANCHOR_GAP` has elapsed and is then durable |
| `StageRecord` | one turn of `absorb_into`: the posting delta, both lanes, the record |
| `MergeRows` / `MergeNothing` | `merge_pending_facts` with and without pending rows |
| `Commit`, `Abort` | `tx.commit()` after `append_facts` and the cursor; a transaction dropped on an error |
| `Crash`, `Tick` | a reopening on `disk`; time towards `ANCHOR_GAP` |

Facts carry the sequence of their row. Where the code assimilates rows in order,
the model says that on each key and post the last row decides (`LastWord`). The
byte budget of a merge can end it anywhere, and always takes the oldest row, so
`cut` is any pending row within the batch budget. Post ids, tags, ranks and the
16-bit chunking of bitmaps are abstracted: nothing depends on the chunk
boundaries but encoding. A page may list one post twice and may hold records
that are not indexable (`new = None`). `TypeOK` also says that no Delta, staged or stored,
both adds and removes a post, and that no row has a number still to be given: without
that a row would be overwritten, or an addition win over a later removal.

**`PostingVault`** (extends `IndexStore`): the cache of decoded postings. Only
the refresh thread searches (`worker.rs` spawns one), so there is one search:
`OpenSearch` takes the snapshot, `Miss` and `Fill` are the two critical sections
of `read_posting_bitmap`, `CloseSearch` ends it, and `MergeEvicting` evicts
inside the merge's transaction. Every other action of the store is `Write`. The
coldest slot is any slot (stamps are abstracted). `overtaken` and `suspect` are
history: which keys a merge rewrote during the search, and which slots were
filled after that. `MCPostingVault` adds the symmetry of keys and leaves out time.

**`Retrieval`**: the window's side of searching with the refresh thread. A hit
is told by what was searched (view, depth, favourites, and how much the index
held). `ui` holds the fields of `Bayonet` that retrieval touches; `Request`,
`Dispatch`, `Finish`, `Installed`, `Restored`, `Remembered`, `Put` are
`request_refresh`, `dispatch_refresh`, `finish_refresh`, `install_refresh` with
`install_hit`, `restore_hit`, `remember_hit`, `HitCache::put`. The user's actions are `ChangeView`,
`ToggleFavorite`, `Deepen`, `Open` and `Close`; the refresh thread's `Collect`,
`Search` (its read transaction begins) and `Answer`; `Absorb` and `Tell` stand
for every lane that writes to the index and then sends its event; `Drain` and
`Tick` are `drain` and `flush_pulse_gates`. A start may restore a viewer that
was open, with its depth. A view is a whole `HitKey`; the favourites filter is a
view of its own, because loading it thins the wall in place. The field `whole`
says whether a hit still has all the posts it was found with.

**`KinAtlas`**: the family tables and the atlas, the mapped file that repeats the
parents. `disk`, `live` and `work` are the tables as above; `file` is the atlas
as the process sees it (header, slots, length), `synced` as the device has it.
`spare` is `None` while the map is the file; while it is the sentinel that `grow` puts in
its place, `spare` is the generation the atlas still keeps. `pc` follows the one thread
that holds the atlas's write lock: readers see the atlas only at `"idle"`.

| action | code |
|---|---|
| `Forge`, `InscribeHeader`, `InscribeRow`, `Synchronize` | `Atlas::forge` with `open_valid` and `valid_slots`, or `rebuild` with `inscribe`: header first, then the edges, then a flush of all |
| `BeginFacts`, `BeginCrawl` | the write lock and transaction of `absorb_harvest_with` and `absorb_family`, or of `absorb_kin_crawl` with the page that `kin_once` fetched |
| `AbsorbFact` | one turn of the loop of `kin::absorb`, with both calls of `amend_children` |
| `Commit`, `Abort` | the generation and `advance_backfill` with the commit; a transaction dropped |
| `Grow` (with `Unmap`), `Remap`, `Regrown` | `Atlas::grow`, at an opening or for the patches of a commit |
| `StoreSlot`, `FlushPages`, `Stamp`, `FlushHeader` | `Atlas::apply` |
| `ApplyFails` | a flush of `apply` or `grow` fails, or the sentinel cannot be had: the commit stands without its patches |
| `GrowFails` | the file can be neither sized nor mapped again: the commit stands likewise, and the atlas stays on its sentinel with the slots it had, from which `Grow` starts again |
| `StampSpare`, `StorePanics` | `apply` on such a sentinel when no growth is needed: without patches it only takes the new generation, with patches it panics at the first slot |
| `OpenFails` | the same faults at an opening, which end the program |
| `Kill`, `LosePower` | the process dies and its mapping stays; the machine dies and any unflushed page, the header and the length may or may not stay |

A page of the file is one slot. The records appear only in `newest_slot`: harvests
that change no edge can make any post the newest, so its result is a free choice.
Child hints only decide whether the generation advances. A page lists a post once
here (`IndexStore` lets it list a post twice).

On a sentinel `Atlas::parent` answers `None` beyond its slots and panics within them
(`AtlasParent`). A later growth that succeeds maps the file again, and `Stamp` then
makes it current, without the edges whose growth had failed.

**`QueryTree`**, **`FilterText`**, **`Candidate`**, **`SearchAlgebra`** are pure operators.
`QueryTree` is the tree of a query with every edit the editor makes to it (paths,
additions, moves, removal of emptied groups, negation, the tags an upstream search
asks for). `FilterText` is the filter language: `Render`, and `Parse` as the
recursive descent of the code. `Candidate` holds the finite and cofinite sets of
posts with their four combinations; `SearchAlgebra` evaluates a tree to one. A text
is a sequence of symbols of `Charset`: keywords are one symbol, and an atom's own
characters are kept apart from them, as far as the language treats them
differently.

**`Workbench`** (extends them) is the editor with the library of filters: `query`,
`active` (the group new terms go to), `selection`, `filters`. Each action is one
handler of `app.rs` or `panels.rs`, down to the sync of the selected filter that
ends most of them (`Install`, `Edit`). `Reopen` is a restart: filters pass through
their text, the unsaved query and the active path through the session.
`MCWorkbench` says which terms a user enters.

**`Adoption`** is one launch up to the point where its directories are known:
`Claim` surveys both places, `Move` and `Revert` rename one root, `Prepare` makes
what is missing, `Intrude` is another process that writes a file meanwhile.
**`DurableFiles`** extends it with what the program does to its files, over many
launches:

| action | code |
|---|---|
| `SplitLibrary`, `RewriteConfiguration` | the two writes of `migrate_legacy_configuration` |
| `Open` | `Bayonet::open`: the first-run marker, `FilterLibrary::load`, the configuration, the favourites |
| `SaveFilter`, `DeleteFilter`, `ChoosePolicy`, `ToggleFavorite` | the user's acts; a favourite is written and synced at once |
| `TendLibrary`, `TendConfiguration`, `Close` | the scribes' settled writes, and what retiring flushes |
| `EditByHand` | a configuration changed on the disk: `adopt_configuration` |
| `Stop`, `Settle`, `LosePower` | a crash of the program at any point; a rename reaching the disk; a machine that falls back to what was synced |

`disk` is what processes see, `synced` what a loss of power leaves, `kept` the history
of filters the disk was entrusted with.

**`MediaLane`**: the window (`ui`: wall, epoch, armed thumbnails, viewer, full images
with their waits and faults), the command channel, the dispatcher's `pending` queue
with its cull epoch, the command it `offer`s, the pool, the event channel.
`NextCommand`, `OfferTimesOut`, `TakeOffer` are the dispatcher, `Fetch` a fetcher,
`Drain` with `ThumbLanded` and `FullLanded` the window's side. `FullFrame` is the whole
frame of an open viewer: it touches the recent images, evicts the unprotected, and
asks for what it shows and predicts. As a bound it is taken once after each move of the
viewer and again when the shown image is wanted again; the frames between, which predict
again and ask again for a prediction that was refused, are left out.

**`WarmLane`**: the ledger of cursors, the warm thread, the crawl and kin crawl with
the valve, and refetches. `DispatchWarm` is applied by every act and every event that
ends in `dispatch_warm`; `Receive`, `AbsorbPage`, `EmptyPage`, `PageFault`, `FetchPost`,
`PostFault`, `Tell` are the thread. `Drain` handles one event with all it calls.

**`Pages`** holds how a search chooses its page: the candidate of the query, the id
window of the dates found by bisection, favourites first, newest or strongest first
over the head of a lane, over its keys or over the lane itself, and one post per
family. **`ReadCaches`** runs such searches beside absorbs. `Begin`, `Rank`, `Page`,
`Hydrate` are the stages of `search_corpus`: the snapshot; the ranks of the favourites;
the page with the caches it fills; the records it shows. `Absorb` is the commit, and
`EvictRecords`, `ClearSortHeads`, `RefreshSortKeys`, `InvalidateFavoriteRanks` the four
calls after it; when the atlas fails to take the change (`MayFail`) none of them
happens. One thread searches, so a lookup and the put that follows a miss are one
step; the window's one `Index::post`, at the launch of a restored viewer, is left out
(it fills as a search does, and may be overtaken as one is). A grouped page takes the
atlas's lock, which an absorb holds to its end. The
favourites a search is given are an `Arc`; a toggle between two searches shows in
`Begin` as another one. One ranked sort stands for two that share their code.
`stale`, and `missed`, `alone`, `sound` of a search, are history. The records vault's
own eviction is left out: a record that was lost is read again.

## Runs

| run | bounds | shows |
|---|---|---|
| `store` | 1 post, 1 key, 2 ranks, 2 fact rows, merges of up to 2, 1 crash, failures, fair | the invariants of `IndexStore`, refinement `ImplementsCatalogue`, `PendingDrains` |
| `vault_slots` | 2 keys, 1 slot, 2 rows, 1 crash, failures | `SlotsFreshUnlessOvertaken`, `SearchesExactUnlessOvertaken`, `VaultWithinCap` |
| `vault_reads` | 1 key | **violated**: `ReadsStayExact` |
| `retrieval` | 3 views, cache of 2, event channel of 2, 3 requests by the user, 1 favourite, 1 absorb, 2 depths, sends and searches may fail, fair | the invariants of `Retrieval` and `Settles` |
| `kin_atlas` | 2 posts, slots in pairs, 2 generations, 2 crashes of process or machine, failed transactions, flushes and growths | the invariants of `KinAtlas` |
| `query` | a tag, a negated pattern with a slash of its own and the rating; 2 names, queries of up to 7 nodes, nesting of 2 | the tree, its text, its bitmaps and its upstream search agree; moves land; only the selected filter follows |
| `query_text` | a tag with an unmatched parenthesis | **violated**: `FiltersComeBack` |
| `files` | 3 launches from 7 disks, 1 intruder, 2 acts, a crash or loss of power at any step | roots are adopted whole; filters, favourites and policy survive |
| `media` | 2 posts, 2 sizes, a pool of 1, queue of 2, event channel of 1, 1 recent image, 3 acts, fair | no wait outlives its command, no image its protection; every image arrives or faults |
| `warm` | 2 queries, 2 sorts, batches of 2 pages, channels of 1, 1 fault, 3 acts, fair | no page is skipped, one command per cursor, warming ends |
| `pages` | 3 posts on 3 days in 2 families, 3 sets of favourites, 144 questions over cold caches; then searches by score beside 1 absorb, 2 toggles | caches are fresh unless a search was overtaken; pages are exact; nothing twice |
| `pages_tail` | the same posts, no absorb | **violated**: `ExhaustedIsProof` |

Why the bounds are enough to be interesting.

* `store`: two fact rows with merges of two give a merge that ends before, at and after
  the row that decides a post, and one more row appended meanwhile; a crash between
  any two steps shows a rollback over several commits. What takes two posts (a page, a
  gap and an interleaved absorb) and more rows is proved, not run: see Proofs.
* `vault_slots`: one slot for two keys evicts on every fill. The constraint `Untimed`
  keeps the clock at zero: no commit is durable and a crash empties the index, which
  the in-memory cache cannot tell.
* `retrieval`: three requests are one in flight, one that turns it dirty, and one after
  it; three views overflow a cache of two.
* `kin_atlas`: two posts and slots in pairs make the file grow from nothing, by the
  child's id and by the parent's; two generations are one that is rolled back and one
  that is not; the second crash can interrupt what the first made necessary. A growth that
  fails in the first generation leaves the second to grow, or to panic, on the sentinel.
* `query`: seven nodes are a group in a group with an operator of each precedence on
  either side, under a Not. Two names make one selected filter and one that must not
  change, and a name that is taken. The larger weight is for queries while nothing is
  saved, the smaller (5) for those beside a saved filter.
* `files`: three launches are one that is cut short, one that repairs it and one that
  must find nothing to repair. The seven disks are an empty one, one whose library is in
  the old schema, one whose configuration still holds filters beside a library, one
  damaged in either file (two), and an installation under the old name with nothing, or
  with hollow directories, under the new.
* `media`: with a pool of one and a queue of two everything is contended; two posts are
  the one shown and the one predicted; three acts are a zoom or a new wall, a view,
  and a return to what was culled.
* `warm`: batches of two pages fault before, between and after them (`AutoWarmPages` is
  2 here and 1 in the code, so that a batch has a middle); upstream ends after one page
  for a query and the page cap is three, so both ends are reached.
* `pages`: `SmallSort = 2` and `HeadCap = 2` put three posts on either side of each
  threshold. The lone searches ask everything at once of every index; once an absorb
  runs, questions are narrowed to the tag by score, the only ones that read every
  cache, and absorbs bring the first post.

Every property of a passing run has a mutant in `PROJECT.json`: a variant of one
operator, as a plausible mistake would write it, under which TLC finds that
property violated. The variants stand in the modules beside the operator they
vary, and nothing else uses them.

`CHECK_DEADLOCK FALSE` stands where the bounds of the writers or of the user let the
system come to rest.

### What the violations show

* `ReadsStayExact`: a search that opened its snapshot before a merge commits
  fills the slot, after the merge evicted it, with the bitmap from before the
  merge. The next search has a snapshot in which the merged facts are no longer
  pending, and reads the stale slot without them, until the key is merged again
  or grows cold. `SlotsFreshUnlessOvertaken` and `SearchesExactUnlessOvertaken`
  say, and the proofs confirm, that this is the only way.
* `FiltersComeBack`: the renderer writes a tag as it is; the parser ends a word at the
  first `)` that closes nothing and takes a leading `(` for a group. The text of a
  filter on `b)` does not parse, and one filter that does not parse fails the load of
  the whole library at the next start. `TextKeepsMeaning` says that everything else
  comes back with its meaning: groups, negations, precedences, patterns with slashes.
* `ExhaustedIsProof`: after the favourites have opened a grouped page by score, a small
  candidate is asked for its strongest families, as many as there is room for; those
  the favourites already show are dropped from them only afterwards. The page is short,
  and a short page says that it is exhausted. `PagesExact` says that every other
  page of an undisturbed search is complete, and that such a page is at least in order.

Four more promises do not hold. Each is a definition beside the others; put it in the
place of the properties of the configuration named and TLC shows how it fails.

* `AnchorBoundsReplay` (`Store.cfg`): the anchor is reset when a transaction *begins*.
  The idle merge loop begins one every two seconds and drops it when nothing is
  pending, and with it the fsync that was due; the commits made so far wait for
  another gap, and possibly another. The comment over `begin_quick_write`
  promises a durable commit every `ANCHOR_GAP`.
* `AtlasIsProjection` (`Kin_atlas.cfg`): `apply` stores and flushes the new parents while
  the header still carries the old generation, and stamps last. The commit is mostly
  not durable, so a process that dies in between comes back with the old generation
  in redb, and the file passes for current with parents the tables do not have.
  `ProjectionUnlessTorn` says that there are four other ways, and no more: a
  rebuild cut short (it writes the generation before the edges), an `apply` whose
  flush failed (the next one stamps over it), a growth that failed after its commit
  (the next one that succeeds stamps a file without that commit's edges), and a child
  beyond the newest record at a rebuild (its edge is dropped, and growth does not
  restore it).
* `AbsorptionIsQueryVisible` (`Pages.cfg`): a search that began before an absorb fills a
  cache after that absorb has mended it. Heads, ranks and records are dropped or
  overwritten by the next absorb that touches them; the sort keys never are, they are only
  patched for the posts of later absorbs. A post absorbed while the keys were filled
  for the first time stays out of the small pages by score, or out of its place in
  them, for the session. `CachesFreshUnlessOvertaken` says that this and an atlas that
  failed after the commit are the only ways. The test
  `absorption_is_query_visible_across_merge_replacement_and_retraction` has no search
  beside its absorbs.
* `GateHoldsNudges` (`Retrieval.cfg` with `View = {a, f}`, `CacheCap = 1`, `Depth = 0`,
  `MaxLevel = 0`, `MaxSerial = 1`, `MaxFavs = 0`, `MaxStock = 2`, both failures `FALSE`):
  the deadline of a `PulseGate` is known only while the gate is stale, and only a
  nudge refused for its deadline makes it stale. So none is refused. The field is
  modelled as it is; `Tick` keeps the trailing edge that the code would fire.

### Seen while modelling

What no property states, for whoever works on the code:

* `adopt_configuration` adopts every field but the account (`app.rs` 2288-2294): the next
  write puts the old account over the hand edit.
* A launch that finds strands `Busy` is told to quit and relaunch (`adoption.rs` 64-68),
  but it goes on and fills the successor roots itself, so the relaunch finds them
  occupied and adopts nothing. A first launch with `--sealed-index` does the same.
* The first-run marker asks that configuration *and* library be missing (`app.rs` 485): a
  crash between the first write of one and of the other loses the seed filter.
* Configuration and library are renamed without syncing their directory; favourites sync it.
* A group without children has no text, and one such filter stops the whole library
  from being saved until it is filled or removed.
* `remove_atom` leaves the active path alone when the atom's group goes with it
  (`app.rs` 1177-1181; dragging corrects it, `model.rs` 794-796), and the active path of a
  session may denote another group once the query went through its text.
* A refused or faulted warm command is tried again only by the next crawled page, so never
  while the mirror is paused; `Exhausted` is never taken back.
* A refetch that faults or finds nothing stays marked as under way, and is refused
  from then on. A full media channel marks a tile as faulted until it leaves the wall.
* `index.rs` 1656-1662 says that candidates still filter what the window of dates lets
  through. No candidate filters by day, so posts whose day does not follow their id
  are shown or missed; undated posts can mislead the bisection. `Pages` assumes that days
  climb with ids, which is where the window is meant to be exact.
* A deepening whose search fails leaves `horizon_pending` set (`app.rs` 1154): the wall
  asks no deeper until another search answers. `load_local_favorites` thins a
  hit that is still filed under the old view (`app.rs` 1243). A grouped search
  reads the families after its snapshot, and again for its badges (`index.rs` 765).

### Fairness

`IndexStore`: the merge loop never ends (`WF` of its steps), a transaction that
began commits, and redb's writer lock, contended by the other lanes, is granted
to the merge infinitely often if it is free infinitely often (`SF`). Nothing is
assumed of absorbs beginning. `Retrieval`: the refresh thread, the thread that
owes an event, the window's drain and time go on; the user is under no
obligation, and is bounded. `MediaLane`: threads that are not blocked run on, a
request for bytes has a time limit, and the window paints frames while its viewer is
open. `WarmLane`: threads run on and the window drains; a thread blocked on a full
channel is woken as slots come free, so `Tell` and `Crawl` get theirs (`SF`) however
the others compete. `PageFault` and `LaneFault` carry no fairness and are bounded. The
crawl is assumed to go on only while the mirror flows.

## Proofs

Seven modules prove every safety property of every passing run but those of
`Workbench`, and the refinement, for all values of the constants: `Index_proof` (`IndexStore` and `PostingVault`), `KinAtlas_proof`,
`Retrieval_proof`, `ReadCaches_proof`, `WarmLane_proof`, `MediaLane_proof` and
`DurableFiles_proof` (with `Adoption`). An eighth, `Queue_proof`, holds lemmas.

The assumptions are those of the modules, named there and evaluated by every run:
post ids are naturals, in `Pages` finitely many, made on days that never fall as ids climb;
scores are integers; `None` is none of the values it stands beside; bounds are naturals, and those of which the code says so positive (`MergeBatches`, `AnchorGap`,
`VaultCap`, the capacities of channels and queues, a quantum of the atlas file, the
pages of a warm batch); the searches of a run ask for posts there are. The bounds that only
cap a run (crashes, acts, faults, absorbs) may be any natural.

In each module `Invariance` says that an invariant is inductive, the other theorems
follow from it, and there is one lemma per action. What follows is why the properties are
not inductive as they stand, and what is added.

**The store** (`IInv`). `PostingsExact` speaks of committed states, and a commit makes one
of `work` and `batch`. `IInv` says what an open transaction has to keep: `work` is
right up to the touches in `batch` (each key and post is touched at most once, and the
touch agrees with the record staged last; without a touch the answer from `work`
agrees), fact rows lie below `next`, and the crawl's page and what it has `seen` cover
everything above the cursor it will write. The steps rest on three lemmas about
folding: a merge of the oldest rows does not change what any key selects
(`FoldKeepsAnswers`), a row appended last decides what it touches (`AppendAnswers`) and
nothing else (`AppendFrame`). That a batch and its row say one thing of each post
(`StagedOneWord`, `AppendedNumbered`) is part of `TypeOK`. `TypeCorrect`, `PostingsAreExact`, `LanesAreExact` and
`CrawlIsGapless` follow, and `StoreImplementsCatalogue`, `Spec => ImplementsCatalogue`:
commits of absorbs land, merges, kin commits and aborts stutter, crashes crash.

**The vault** (`VInv`). While a search is open every slot it may rely on agrees with its
snapshot unless its key was overtaken: `SlotsAreFresh`, `SearchesAreExact`. The store's
own invariant is reused by showing every vault step to be a step of the store.
`VaultIsBounded` counts: a put keeps the slots within `VaultCap` because it drops one of
a full vault first, and every other step only empties slots.

**The other caches** (`CacheInv`, `PageInv`). `CachesFreshUnlessOvertaken` speaks of moments
between absorbs. The invariant says of every moment which post or cache the absorb at work
has still to evict, by how far it is (`RecordsKept`, `HeadKept`, `KeysKept`,
`RanksKept`); that a search's snapshot differs from the last commit only in posts it
`missed`; and that a sound search is alone over caches nothing left stale. `CachesAreFresh`
follows, and `PagesComeFromOneState`: whatever searches and absorbs filled, patched or
cleared before, an undisturbed search gets its window, its favourites' ranks, and each head
and key it reads from one state of the records, and so the page that state alone gives.
That page is the right one by what follows.

**Pages** (`ShapeInv`, `ShownInv`). Everything rests on lists of a set in a strict order
(`Lists`, in `Queue_proof`): a finite set has one, by rank (`RankedLists`), and what comes
first of the set (`DownIn`) begins every list of it (`ListsFirst`), so there is only
one. A page `Shows` a set when it lists, in order, its first `n` or all of it. The lane, its
head, a bitmap read downwards, keys sorted: whichever way `post_ids` takes shows the posts its
candidate accepts (`PostIdsShows`), the half after the favourites' goes on where theirs ends
(`ShowsJoin`), and a page of families shows those posts that no other of their family comes
before (`Leads`, `OfferedCovers`, `FamilyPageShows`). On the other side the reference
`Ordering`, which sorts all that match and cuts, lists the same set in the same order
(`OrderingLists`). In between stand what the query and the days select: `CandidatesCombine`
says that the algebra over finite and cofinite candidates admits exactly the posts its children
call for, `HalvesPartition` that the favoured and the ordinary half share no post and miss
none, `DayBoundIsEdge` and `DateWindowExact` that the bisections, which probe few posts, end at
the outermost ones of the days, and `MatchingExact` that the filter lets through exactly what
matches. `PageIdsExact` puts them together for one snapshot, `PagesAreExact` for every
undisturbed search. `ShownInv` adds that hydration, record by record, shows what the snapshot
has.

`NothingTwice` is also about searches that absorbs overtook, whose caches may be of several
states. It needs much less of them, but of every moment: `ShapeInv` says that a head and the ranks
repeat no post, and that keys are numbers, however old. From that alone a page lists posts
without repeats, and families without repeats (`PostIdsApart`, `FamilyIdsApart`), and only posts
its own snapshot's candidate admits. Neither invariant is inductive without `CacheInv`, which
says what a search reads and which snapshot is whose.

Induction over data is out of the provers' reach, and so are `SelectSeq` and `SortSeq`, which
the library defines by it. `Pages` says the same otherwise: a filter is a fold (`Among`), which
`FoldExists` unfolds one entry at a time, from a least counterexample among the lengths
(`NatMin`); a sort is the list by rank (`Ordered`); and a bisection is a function of one tuple.

**Kin** (`IInv`, `FileTypes`, `Spared`, `AtlasInv`). Of the tables: the durable generation never
exceeds the live one, an open transaction without a change has the edges it began with,
the posts of the page of a crawl are absorbed or still listed. `FamiliesAreInverse`,
`GenerationsNameEdges`, `KinCrawlIsGapless` follow. Of the atlas, unless history has seen
a tear: the mapping, or what of it is on the device, may carry the header of a generation
only before edges of that generation, at each step of forging, growing, storing, flushing
and stamping; a header that does not match is never trusted by an opening; and the map is
the file but for the moment of a growth, whose sentinel keeps the file's generation
(`Spared`).
`AtlasIsExact` is `ProjectionUnlessTorn`: the tears it names are the only ones. `TypesAreKept`
includes that the file is always a whole number of quanta with room for its slots.

**Retrieval** (`RInv`). `SearchIsSingle` needs that at most one entry in both channels and
the thread belongs to the pulse, whatever its state and serial (`OneInv`); `QuietShowsTheAnswer`
that the search of a pulse not turned dirty asks what is asked now (`CarryInv`), and that
an answer is behind the news only while the gate still owes a nudge. `ParkedAnswersNow` needs
that nothing is parked unless a menu or viewer is open (`Current`). `HitsAreFiled` is proved for
a cache as a sequence that is cut, moved to the front and thinned. `TypeCorrect` bounds the
serial by what may still ask: user acts, deepenings, and the news not yet
told, in the channel or owed by the gate (`BudgetInv`, which counts news in the channel).

**Warming** (`WInv`). `CursorsAreGapless`: the pages below a cursor are absorbed, and so are
those below the start of a command under way, below what a batch has done, and below
what an answer tells (`GapInv`); then a fault in the middle of a batch moves no cursor beyond it.
`FlightsAreCarried`: at most one command, fetch or answer belongs to a key, and there is one
exactly when its cursor is in flight (`CarryInv`).

**Media** (`MInv`). `AwaitedIsCarried` needs that neither queue nor dispatcher is ahead of the
window's epoch, or a cull would drop what was just asked for (`EpochInv`), and that the queue
keeps room for the command a saturated pool sends back, or returning it would drop another
(`RoomInv`). `HeldIsProtected` is about answers that land after the viewer moved on.

**Files** (`DInv`). `FiltersAreKept` needs that the disk, and what a loss of power would leave of
it, hold exactly what was entrusted to them, with both copies while a migration is half done
(`StoreInv`); `AdoptionIsWhole` which moves are still free to go and which were taken back
(`AdoptInv`); `PolicyStaysUsers` that the configuration in memory has the user's policy unless
its file is at fault, and then is not written (`PolicyInv`). `LaunchLoadsKept` is an action
property: in every opening, what is loaded is `kept`, or the seed on a first run.

**Queues** (`Queue_proof`). What `Append`, `Tail`, `\o` and removal do to the entries of a
watched set in a sequence: whether there is one (`Has`), at most one (`Sole`), how many
(`Tally`). The lanes' proofs cite them. Then the lists of a set in a strict order: what it is to
be one, cut one, join two and append to one. The proofs about pages cite those.

Only model-checked, and why:

* Liveness (`PendingDrains`, `Settles`, `EveryImageArrives`, `WarmReachesTheEnd`): out of the
  prover's reach.
* `Workbench`'s properties: trees are walked by recursive operators (`QueryTree`, `FilterText`,
  `SearchAlgebra`), which the prover's main backend does not take, and what they
  compute needs induction over trees.

## Not modelled, and the plan

Next, in this order:

1. Proofs: the edits of `QueryTree` that move one path, once they are written without
   recursive operators.
2. The rest of kin: roots and family trees over the parents, the hydration
   marks, and the grouped search that reads atlas and snapshot at different
   moments.
3. The account, family and definition lanes; so far they are in the models only by what
   they do to the index (`IndexStore`) and by the events they send (`Retrieval`).

Left out, and why:

* The sealed index: an overlay over a file that nothing writes; its correctness is that of
  the pages it copies.
* The tag bank: its lock is held through its whole fill, so nothing interleaves.
* Child hints beyond their effect on the generation, and badges: display.
* Decoding, scaling and the file cache of images: one fetch that works or fails.
* Window placement and the other fields of the session: only what decides a
  start is modelled.
* The Danbooru client, completion, painting and the acceptance and packaging crates
  are sequential or pure I/O: the models take any page the network could
  return and any view the user could ask for.
