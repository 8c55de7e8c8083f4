------------------------------ MODULE Retrieval ------------------------------
(***************************************************************************)
(* How the window keeps its result wall current (src/.../app/refresh.rs    *)
(* and app.rs over the refresh lane of worker.rs): every change of what is *)
(* asked, and every background event, requests a search; at most one is in *)
(* flight and the others coalesce into one more; its hit goes on the wall, *)
(* or is parked while a menu or the viewer is open.                        *)
(*                                                                         *)
(* A hit is told by what it was searched for: the view asked (query,       *)
(* corpus, sort, dates and gallery: HitKey), the depth, the generation of  *)
(* local favourites, and how much the index held.  Views match something,  *)
(* so no hit is empty.                                                     *)
(***************************************************************************)
EXTENDS Naturals, Sequences, FiniteSets, SequencesExt

CONSTANTS
    View,           \* the values of HitKey
    Favorites,      \* the view of the built-in favourites filter
    None,
    CacheCap,       \* HIT_CACHE_LIMIT
    EventCap,       \* EVENT_CAPACITY
    Gap,            \* REFRESH_GAP, in ticks
    Depth,          \* growths of the horizon after which a search runs dry
    MaxLevel,       \* bound: growths of the horizon (saturating_mul)
    MaxSerial,      \* bound: requests after which the user stops
    MaxFavs,        \* bound: favourites toggled
    MaxStock,       \* bound: absorbs
    LaneMayFill,    \* whether a send to the refresh lane may find it full
    SearchMayFail   \* whether search_corpus may fail

ASSUME RetrievalAssumption ==
    /\ Favorites \in View
    /\ CacheCap \in Nat \ {0} /\ EventCap \in Nat \ {0} /\ Gap \in Nat \ {0}
    /\ Depth \in Nat /\ MaxLevel \in Nat /\ MaxSerial \in Nat \ {0}
    /\ MaxFavs \in Nat /\ MaxStock \in Nat
    /\ LaneMayFill \in BOOLEAN /\ SearchMayFail \in BOOLEAN

VARIABLES
    ui,         \* the Bayonet's fields that retrieval reads and writes
    gate,       \* refresh_gate: ticks since it last fired, and its stale mark
    commands,   \* the refresh lane: searches sent and not collected
    job,        \* the search the refresh thread works on
    events,     \* the event channel
    stock,      \* what the index holds, counted in absorbs
    owed,       \* an absorb whose event is not sent yet
    heard       \* history: of the index, what drained news was about

vars == <<ui, gate, commands, job, events, stock, owed, heard>>

Hit == [view : View, level : 0..MaxLevel, favs : 0..MaxFavs, stock : 0..MaxStock, whole : BOOLEAN]
Posted == [key : View, hit : Hit]
Pulse == [state : {"idle", "inflight", "dirty"}, serial : Nat]
Command == [serial : Nat, view : View, favs : 0..MaxFavs, level : 0..MaxLevel]
Job == [cmd : Command, stage : {"sent", "read"}, stock : 0..MaxStock]
Event == [kind : {"answer"}, serial : Nat, hit : Hit \cup {None}]
           \cup [kind : {"news", "mute"}, stock : 0..MaxStock]

ASSUME NoneAssumption == None \notin View \cup Hit \cup Posted \cup Job

TypeOK ==
    /\ ui.view \in View
    /\ ui.favs \in 0..MaxFavs
    /\ ui.horizon \in 0..MaxLevel
    /\ ui.pending \in BOOLEAN
    /\ ui.pulse \in Pulse
    /\ ui.serial \in 0..(MaxSerial + MaxLevel + MaxStock)
    /\ ui.shown \in [key : View, hit : Hit \cup {None}]
    /\ ui.parked \in Posted \cup {None}
    /\ ui.cache \in Seq(Posted) /\ Len(ui.cache) <= CacheCap
    /\ ui.open \subseteq {"menu", "viewer"}
    /\ ui.dropped \in BOOLEAN
    /\ gate \in [since : 0..Gap, stale : BOOLEAN]
    /\ commands \in Seq(Command) /\ Len(commands) <= 1
    /\ job \in Job \cup {None}
    /\ events \in Seq(Event) /\ Len(events) <= EventCap
    /\ stock \in 0..MaxStock
    /\ owed \in BOOLEAN
    /\ heard \in 0..stock

Larger(a, b) == IF a > b THEN a ELSE b

-----------------------------------------------------------------------------
(* HitCache: most recently used first                                      *)

Caches(cache, key) == \E i \in DOMAIN cache : cache[i].key = key
Slot(cache, key) == CHOOSE i \in DOMAIN cache : cache[i].key = key
Without(cache, key) == IF Caches(cache, key) THEN RemoveAt(cache, Slot(cache, key)) ELSE cache

\* Mutant: HitCache::put without its truncate.
PutUncapped(cache, key, hit) ==
    IF hit = None THEN cache ELSE <<[key |-> key, hit |-> hit]>> \o Without(cache, key)

\* HitCache::put: a deeper hit of the same key is kept in place of a shallower.
Put(cache, key, hit) ==
    IF hit = None THEN cache
    ELSE LET old == cache[Slot(cache, key)]
             kept == IF Caches(cache, key) /\ old.hit.level > hit.level THEN old.hit ELSE hit
             all == <<[key |-> key, hit |-> kept]>> \o Without(cache, key)
         IN  SubSeq(all, 1, IF Len(all) > CacheCap THEN CacheCap ELSE Len(all))

Remembered(u) == [u EXCEPT !.cache = Put(@, u.shown.key, u.shown.hit)]

\* restore_hit: the deferred hit was for another key; a cached one goes up.  (The
\* mutant forgets to drop what was deferred.)
RestoredKeepingParked(u) ==
    LET found == u.cache[Slot(u.cache, u.view)] IN
    IF ~Caches(u.cache, u.view) THEN u
    ELSE [u EXCEPT !.horizon = Larger(@, found.hit.level),
                   !.cache = <<found>> \o Without(@, u.view),
                   !.shown = found]
Restored(u) == [RestoredKeepingParked(u) EXCEPT !.parked = None]

-----------------------------------------------------------------------------
(* request_refresh and dispatch_refresh                                    *)

Idle == [state |-> "idle", serial |-> 0]

\* try_send fails when the lane is full: the request is gone.
Dispatch(u) ==
    \/ /\ ui' = [u EXCEPT !.pulse = [state |-> "inflight", serial |-> u.serial],
                          !.dropped = FALSE]
       /\ commands' = Append(commands, [serial |-> u.serial, view |-> u.view,
                                        favs |-> u.favs, level |-> u.horizon])
    \/ /\ LaneMayFill
       /\ ui' = [u EXCEPT !.pulse = Idle, !.dropped = TRUE]
       /\ UNCHANGED commands

\* A request that does not look whether a search is in flight.
RequestUncoalesced(u) == Dispatch([u EXCEPT !.serial = @ + 1])

\* The next serial; a search in flight only turns dirty.
Request(u) ==
    LET v == [u EXCEPT !.serial = @ + 1] IN
    IF u.pulse.state = "idle" THEN Dispatch(v)
    ELSE /\ ui' = [v EXCEPT !.pulse.state = "dirty"]
         /\ UNCHANGED commands

Init ==
    /\ \E view \in View, horizon \in 0..MaxLevel, open \in SUBSET {"viewer"} :
         /\ open = {} => horizon = 0
         /\ ui = [view |-> view, favs |-> 0, horizon |-> horizon, pending |-> FALSE,
                  pulse |-> [state |-> "inflight", serial |-> 1], serial |-> 1,
                  shown |-> [key |-> view, hit |-> None], parked |-> None,
                  cache |-> <<>>, open |-> open, dropped |-> FALSE]
         /\ commands = <<[serial |-> 1, view |-> view, favs |-> 0, level |-> horizon]>>
    /\ gate = [since |-> Gap, stale |-> FALSE]
    /\ job = None
    /\ events = <<>>
    /\ stock = 0
    /\ owed = FALSE
    /\ heard = 0

outside == <<gate, job, events, stock, owed, heard>>

-----------------------------------------------------------------------------
(* The user                                                                *)

\* install_query_at, install_dates and the sort and gallery plates; the
\* favourites filter (load_local_favorites) also thins the wall in place.
ChangeView(view) ==
    /\ ui.serial < MaxSerial
    /\ LET asked == [Remembered(ui) EXCEPT !.view = view, !.horizon = 0, !.pending = FALSE]
           u == Restored(asked)
           thinned == [u EXCEPT !.shown.hit.whole = FALSE]
       IN  Request(IF view = Favorites /\ u.shown.key # Favorites /\ u.shown.hit # None
                   THEN thinned ELSE u)
    /\ UNCHANGED outside

\* A toggle that keeps the hits remembered from before it.
ToggleKeepingCache ==
    /\ ui.serial < MaxSerial
    /\ ui.favs < MaxFavs
    /\ LET u == [ui EXCEPT !.favs = @ + 1, !.parked = None] IN
       Request(IF u.shown.hit = None THEN u ELSE [u EXCEPT !.shown.hit.favs = u.favs])
    /\ UNCHANGED outside

\* toggle_local_favorite: the wall is parted anew where it stands, and loses an
\* unfavourited post of the favourites filter; nothing kept survives.
ToggleFavorite ==
    /\ ui.serial < MaxSerial
    /\ ui.favs < MaxFavs
    /\ \E removed \in {FALSE, ui.view = Favorites} :
        LET u == [ui EXCEPT !.favs = @ + 1, !.cache = <<>>, !.parked = None] IN
        Request(IF u.shown.hit = None THEN u
                ELSE [u EXCEPT !.shown.hit.favs = u.favs,
                               !.shown.hit.whole = @ /\ ~(removed /\ u.shown.key # Favorites)])
    /\ UNCHANGED outside

\* deepen_results, on the frame that paints the tail of the wall.
Deepen ==
    /\ ~ui.pending
    /\ "menu" \notin ui.open
    /\ ui.shown.key = ui.view
    /\ ui.shown.hit # None
    /\ ui.shown.hit.level < Depth
    /\ LET base == Larger(ui.horizon, ui.shown.hit.level) IN
        /\ base < MaxLevel
        /\ Request([ui EXCEPT !.horizon = base + 1, !.pending = TRUE])
    /\ UNCHANGED outside

Open(what) ==
    /\ what \notin ui.open
    /\ ui' = [ui EXCEPT !.open = @ \cup {what}]
    /\ UNCHANGED <<commands, outside>>

\* close_tag_menu and closing the viewer: release_parked_hit once both are shut.
Close(what) ==
    /\ what \in ui.open
    /\ LET u == [ui EXCEPT !.open = @ \ {what}] IN
        ui' = IF u.open = {} /\ u.parked # None
              THEN [u EXCEPT !.shown = u.parked, !.parked = None] ELSE u
    /\ UNCHANGED <<commands, outside>>

-----------------------------------------------------------------------------
(* The refresh thread and the absorbing ones                               *)

\* refresh_loop takes all that was sent; of the searches, the last.
Collect ==
    /\ job = None
    /\ commands # <<>>
    /\ job' = [cmd |-> commands[Len(commands)], stage |-> "sent", stock |-> 0]
    /\ commands' = <<>>
    /\ UNCHANGED <<ui, gate, events, stock, owed, heard>>

\* search_corpus begins its read transaction.
Search ==
    /\ job # None
    /\ job.stage = "sent"
    /\ job' = [job EXCEPT !.stage = "read", !.stock = stock]
    /\ UNCHANGED <<ui, gate, commands, events, stock, owed, heard>>

\* Refreshed, or RefreshFault; a full event channel blocks the thread.
Answer ==
    /\ job # None
    /\ job.stage = "read"
    /\ Len(events) < EventCap
    /\ \E hit \in {[view |-> job.cmd.view, level |-> job.cmd.level, favs |-> job.cmd.favs,
                    stock |-> job.stock, whole |-> TRUE]}
                  \cup (IF SearchMayFail THEN {None} ELSE {}) :
        events' = Append(events, [kind |-> "answer", serial |-> job.cmd.serial, hit |-> hit])
    /\ job' = None
    /\ UNCHANGED <<ui, gate, commands, stock, owed, heard>>

\* Pages of the crawl, of the warmer, of an account edit or of a family reach the
\* index...
Absorb ==
    /\ stock < MaxStock
    /\ stock' = stock + 1
    /\ owed' = TRUE
    /\ UNCHANGED <<ui, gate, commands, job, events, heard>>

\* ... and then their event the channel: Crawled, Warmed and the others that
\* nudge, or one that does not (Family; a fault after some pages).
Tell ==
    /\ owed
    /\ Len(events) < EventCap
    /\ \E kind \in {"news", "mute"} : events' = Append(events, [kind |-> kind, stock |-> stock])
    /\ owed' = FALSE
    /\ UNCHANGED <<ui, gate, commands, job, stock, heard>>

-----------------------------------------------------------------------------
(* drain                                                                   *)

\* PulseGate: its deadline is only known while it is stale.
Ready == gate.stale => gate.since = Gap
Fired == [since |-> 0, stale |-> FALSE]

\* nudge_refresh.
Nudge ==
    IF Ready THEN gate' = Fired /\ Request(ui)
    ELSE gate' = [gate EXCEPT !.stale = TRUE] /\ UNCHANGED <<ui, commands>>

\* install_refresh and install_hit.
Installed(u, hit) ==
    LET v == [u EXCEPT !.pending = hit.level < u.horizon,
                       !.cache = Put(@, u.view, hit)]
        posted == [key |-> u.view, hit |-> hit]
    IN  IF u.open = {} THEN [v EXCEPT !.shown = posted] ELSE [v EXCEPT !.parked = posted]

\* A search that turned dirty forgotten, its hit shown all the same.
FinishTakingAll(e) ==
    LET u == [ui EXCEPT !.pulse = Idle] IN
    IF ui.pulse.state = "idle" \/ ui.pulse.serial # e.serial THEN UNCHANGED <<ui, commands>>
    ELSE /\ ui' = IF e.hit # None THEN Installed(u, e.hit) ELSE [u EXCEPT !.dropped = TRUE]
         /\ UNCHANGED commands

\* A fault that leaves the pulse in flight.
FinishIgnoringFaults(e) ==
    IF e.hit = None \/ ui.pulse.serial # e.serial THEN UNCHANGED <<ui, commands>>
    ELSE IF ui.pulse.state = "dirty" THEN Dispatch([ui EXCEPT !.pulse = Idle])
    ELSE ui' = Installed([ui EXCEPT !.pulse = Idle], e.hit) /\ UNCHANGED commands

\* finish_refresh: the hit of a search that turned dirty is thrown away and the
\* latest request sent in its place.
Finish(e) ==
    LET u == [ui EXCEPT !.pulse = Idle] IN
    IF ui.pulse.state = "idle" \/ ui.pulse.serial # e.serial THEN UNCHANGED <<ui, commands>>
    ELSE IF ui.pulse.state = "dirty" THEN Dispatch(u)
    ELSE /\ ui' = IF e.serial = ui.serial /\ e.hit # None THEN Installed(u, e.hit)
                  ELSE [u EXCEPT !.dropped = TRUE]
         /\ UNCHANGED commands

Drain ==
    /\ events # <<>>
    /\ events' = Tail(events)
    /\ \/ Head(events).kind = "answer" /\ Finish(Head(events)) /\ UNCHANGED <<gate, heard>>
       \/ Head(events).kind = "news" /\ Nudge /\ heard' = Larger(heard, Head(events).stock)
       \/ Head(events).kind = "mute" /\ UNCHANGED <<ui, gate, commands, heard>>
    /\ UNCHANGED <<job, stock, owed>>

\* Time passes, and flush_pulse_gates fires a trailing edge that has come due.
Tick ==
    /\ gate.since < Gap
    /\ LET late == [gate EXCEPT !.since = @ + 1] IN
        IF late.stale /\ late.since = Gap
        THEN gate' = Fired /\ Request(ui)
        ELSE gate' = late /\ UNCHANGED <<ui, commands>>
    /\ UNCHANGED <<job, events, stock, owed, heard>>

Next ==
    \/ \E view \in View : ChangeView(view)
    \/ ToggleFavorite
    \/ Deepen
    \/ \E what \in {"menu", "viewer"} : Open(what) \/ Close(what)
    \/ Collect
    \/ Search
    \/ Answer
    \/ Absorb
    \/ Tell
    \/ Drain
    \/ Tick

Spec == Init /\ [][Next]_vars

\* Each thread runs, and the window drains its events while it is painted.
Fairness ==
    /\ WF_vars(Collect)
    /\ WF_vars(Search)
    /\ WF_vars(Answer)
    /\ WF_vars(Tell)
    /\ WF_vars(Drain)
    /\ WF_vars(Tick)

FairSpec == Spec /\ Fairness

-----------------------------------------------------------------------------
(* Properties                                                              *)

\* A parked hit is never of an old question: it is what the wall would show now,
\* under today's favourites, whatever changed while the menu was open
\* ("drop it lest it commit stale when the menu closes", app.rs:1047-1048).
ParkedIsCurrent ==
    ui.parked # None =>
        /\ ui.parked.key = ui.view
        /\ ui.parked.hit.view = ui.view
        /\ ui.parked.hit.favs = ui.favs

\* Every hit on the wall or remembered was searched for the key it is filed
\* under, and is parted by today's favourites.
FiledUnderItsKey ==
    \A e \in {ui.shown} \cup {ui.cache[i] : i \in DOMAIN ui.cache} :
        e.hit # None => e.hit.view = e.key /\ e.hit.favs = ui.favs

\* Exactly one search is under way while the pulse is not idle, and it carries
\* the serial the pulse waits for: none is lost, none runs beside it.
Answers == {i \in DOMAIN events : events[i].kind = "answer"}
Underway == Len(commands) + (IF job = None THEN 0 ELSE 1) + Cardinality(Answers)
OneSearchUnderway ==
    /\ Underway = IF ui.pulse.state = "idle" THEN 0 ELSE 1
    /\ \A i \in DOMAIN commands : commands[i].serial = ui.pulse.serial
    /\ job # None => job.cmd.serial = ui.pulse.serial
    /\ \A i \in Answers : events[i].serial = ui.pulse.serial

\* When nothing is in flight and the last request was not lost, the wall (or what
\* is parked for it) answers the question as it stands: this view, this depth,
\* these favourites, whole, and over all that the window heard was absorbed.
QuietIsSettled ==
    ui.pulse.state = "idle" /\ ~ui.dropped =>
        LET wall == IF ui.parked = None THEN ui.shown ELSE ui.parked IN
        /\ wall.key = ui.view
        /\ wall.hit # None
        /\ wall.hit.whole
        /\ wall.hit.level >= ui.horizon
        /\ ~ui.pending
        /\ ~gate.stale => wall.hit.stock >= heard

\* A user who stops asking sees the answer, to all news, unless the request was
\* lost: no search starts another for ever, and none is waited for in vain.
Settles == <>[](ui.dropped \/ (ui.pulse.state = "idle" /\ events = <<>>))

\* "Rate gate with a trailing edge: suppressed nudges fire once the gap elapses",
\* "Gate both to a human cadence" (refresh.rs:3-5, 195): news that arrives within
\* the gap requests no search by itself.
GateHoldsNudges ==
    [][ /\ events # <<>>
        /\ Head(events).kind = "news"
        /\ events' = Tail(events)
        /\ gate.since < Gap
        => ui'.serial = ui.serial ]_vars
=============================================================================
