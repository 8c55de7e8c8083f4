----------------------------- MODULE WarmLane -----------------------------
(***************************************************************************)
(* Warming a view from upstream: the window keeps a ledger of cursors, one *)
(* per query and order, and sends the active cursor's next pages to one    *)
(* thread, which fetches and absorbs them page by page (app.rs, worker.rs).*)
(* The mirror lanes run beside it behind a valve; a page they land is also *)
(* the only thing that retries a warm command that faulted or was refused. *)
(*                                                                         *)
(* What a page holds is left out: absorbed records which pages of a key    *)
(* reached the index.                                                      *)
(***************************************************************************)
EXTENDS Naturals, Sequences, FiniteSets, FiniteSetsExt

CONSTANTS
    Query,            \* query texts, Empty among them
    Empty,            \* Query::default
    Sort,
    Newest,           \* the order of a first session
    Post,             \* posts whose tags a menu asks about
    AutoWarmPages,    \* AUTO_WARM_PAGES
    PageLimit,        \* DANBOORU_SEARCH_PAGE_LIMIT
    CommandCapacity,  \* WARM_COMMAND_CAPACITY
    EventCapacity,    \* EVENT_CAPACITY
    LastPage,         \* upstream's last page with posts, for a query that is not empty
    MaxFaults,        \* bound: fetches that fail
    MaxActs           \* bound: acts of the user

ASSUME WarmAssumption ==
    /\ Empty \in Query
    /\ Newest \in Sort
    /\ {AutoWarmPages, PageLimit} \subseteq Nat \ {0}
    /\ {LastPage, CommandCapacity, EventCapacity, MaxFaults, MaxActs} \subseteq Nat

VARIABLES
    view,      \* what the window shows: query, sort, dates, favorites, mirror
    ledger,    \* WarmLedger: the active key and the cursors
    refetching,\* refetch_inflight
    channel,   \* warm_tx to warm_loop
    desk,      \* what warm_loop works on, or the event it is sending
    lane,      \* crawl_loop and kin_loop
    events,    \* the event channel
    absorbed,  \* ghost: the pages of each key that reached the index
    faults, acts

vars == <<view, ledger, refetching, channel, desk, lane, events, absorbed, faults, acts>>

Key == Query \X Sort
Lane == {"crawl", "kin"}

KeyOf(v) == <<v.query, v.sort>>

\* The empty query fills every page up to the cap.
Upstream(k) == IF k[1] = Empty THEN PageLimit ELSE LastPage

WarmCommand(k, first, pages) == [kind |-> "warm", key |-> k, first |-> first, pages |-> pages]
Refetch(p) == [kind |-> "refetch", id |-> p]

Idle == [kind |-> "idle"]
Telling(e) == [kind |-> "telling", event |-> e]

\* warm, one page at a time, with the pages it has absorbed.
Warming(c, done) ==
    [kind |-> "warming", key |-> c.key, first |-> c.first, pages |-> c.pages, done |-> done]

-----------------------------------------------------------------------------
(* The window's ledger                                                     *)

\* Only a search of the whole index, with no date range, is warmed.
Suspended(v) == v.favorites \/ v.dates

Activate(led, k) == [led EXCEPT !.active = k]

\* try_send: refused when the channel is full.
HasRoom == Len(channel) < CommandCapacity

\* The pages a cursor asks for next.
Batch(c) == Min({c.stride, PageLimit - c.next + 1})

Ready(c) == c.state = "idle" /\ c.next <= PageLimit

\* Mutant: a refused command leaves its cursor in flight.
ArmedUnchecked(c) ==
    [c EXCEPT !.state = CASE Ready(c) -> "inflight"
                          [] c.state = "idle" /\ c.next > PageLimit -> "exhausted"
                          [] OTHER -> c.state]

Armed(c) ==
    [c EXCEPT !.state = CASE Ready(c) /\ HasRoom -> "inflight"
                          [] c.state = "idle" /\ c.next > PageLimit -> "exhausted"
                          [] OTHER -> c.state]

\* dispatch_warm on a ledger: align it with the view, widen the stride, and
\* send the next pages of an idle cursor.
DispatchWarm(led, v, pages) ==
    IF Suspended(v) THEN ledger' = led /\ UNCHANGED channel
    ELSE LET k == KeyOf(v)
             c == [led.cursor[k] EXCEPT !.stride = Max({@, pages})]
         IN  /\ ledger' = [Activate(led, k) EXCEPT !.cursor[k] = Armed(c)]
             /\ channel' = IF Ready(c) /\ HasRoom
                           THEN Append(channel, WarmCommand(k, c.next, Batch(c)))
                           ELSE channel

\* The launch takes its view from the session and ends with a strike.
Init ==
    /\ view \in [ query : {Empty}, sort : {Newest}, dates : BOOLEAN, favorites : BOOLEAN,
                  mirror : {TRUE} ]
    /\ LET k == KeyOf(view)
           c == [next |-> 1, stride |-> AutoWarmPages, state |-> "idle"]
           fresh == [active |-> k, cursor |-> [j \in Key |-> c]]
       IN  IF Suspended(view)
           THEN ledger = fresh /\ channel = <<>>
           ELSE /\ ledger = [fresh EXCEPT !.cursor[k].state = "inflight"]
                /\ channel = <<WarmCommand(k, 1, Batch(c))>>
    /\ refetching = {}
    /\ desk = Idle
    /\ lane = [l \in Lane |-> "gate"]
    /\ events = <<>>
    /\ absorbed = [k \in Key |-> {}]
    /\ faults = 0
    /\ acts = 0

Act == acts < MaxActs /\ acts' = acts + 1

\* install_query_at, from an edit of the query, a saved filter or the built-in
\* favorites: a query that is not empty leaves the favorites.
InstallQuery(q, favorites) ==
    /\ Act
    /\ favorites => q = Empty
    /\ view' = [view EXCEPT !.query = q, !.favorites = favorites]
    /\ DispatchWarm(Activate(ledger, KeyOf(view')), view', AutoWarmPages)
    /\ UNCHANGED <<refetching, desk, lane, events, absorbed, faults>>

\* install_dates: opening or closing the date range.
InstallDates ==
    /\ Act
    /\ view' = [view EXCEPT !.dates = ~@]
    /\ IF view'.dates
       THEN UNCHANGED <<ledger, channel>>
       ELSE DispatchWarm(ledger, view', AutoWarmPages)
    /\ UNCHANGED <<refetching, desk, lane, events, absorbed, faults>>

InstallSort(s) ==
    /\ Act
    /\ s # view.sort
    /\ view' = [view EXCEPT !.sort = s]
    /\ DispatchWarm(ledger, view', AutoWarmPages)
    /\ UNCHANGED <<refetching, desk, lane, events, absorbed, faults>>

\* command_mirror_policy, install_mirror_policy.
TurnValve ==
    /\ Act
    /\ view' = [view EXCEPT !.mirror = ~@]
    /\ UNCHANGED <<ledger, refetching, channel, desk, lane, events, absorbed, faults>>

\* learn_tag_groups of a record without tag hints.
LearnTagGroups(p) ==
    /\ Act
    /\ p \notin refetching
    /\ IF HasRoom
       THEN refetching' = refetching \cup {p} /\ channel' = Append(channel, Refetch(p))
       ELSE UNCHANGED <<refetching, channel>>
    /\ UNCHANGED <<view, ledger, desk, lane, events, absorbed, faults>>

-----------------------------------------------------------------------------
(* warm_loop                                                               *)

Receive ==
    /\ desk = Idle
    /\ channel # <<>>
    /\ LET c == Head(channel)
       IN  desk' = IF c.kind = "warm" THEN Warming(c, 0) ELSE c
    /\ channel' = Tail(channel)
    /\ UNCHANGED <<view, ledger, refetching, lane, events, absorbed, faults, acts>>

Warmed(c, fetched, exhausted) ==
    Telling([kind |-> "warmed", key |-> c.key, first |-> c.first, pages |-> fetched,
             exhausted |-> exhausted])

Faulting == faults < MaxFaults /\ faults' = faults + 1

PageFault ==
    /\ desk.kind = "warming"
    /\ Faulting
    /\ desk' = Telling([kind |-> "warmfault", key |-> desk.key, first |-> desk.first,
                        pages |-> desk.pages])
    /\ UNCHANGED <<view, ledger, refetching, channel, lane, events, absorbed, acts>>

EmptyPage ==
    /\ desk.kind = "warming"
    /\ desk.first + desk.done > Upstream(desk.key)
    /\ desk' = Warmed(desk, desk.done + 1, TRUE)
    /\ UNCHANGED <<view, ledger, refetching, channel, lane, events, absorbed, faults, acts>>

AbsorbPage ==
    /\ desk.kind = "warming"
    /\ LET page == desk.first + desk.done
           done == desk.done + 1
       IN  /\ page <= Upstream(desk.key)
           /\ absorbed' = [absorbed EXCEPT ![desk.key] = @ \cup {page}]
           /\ desk' = IF done = desk.pages THEN Warmed(desk, done, FALSE)
                      ELSE Warming(desk, done)
    /\ UNCHANGED <<view, ledger, refetching, channel, lane, events, faults, acts>>

\* refetch: upstream still has the post, or it does not.
FetchPost ==
    /\ desk.kind = "refetch"
    /\ \E e \in {[kind |-> "refetched", id |-> desk.id], [kind |-> "news"]} : desk' = Telling(e)
    /\ UNCHANGED <<view, ledger, refetching, channel, lane, events, absorbed, faults, acts>>

PostFault ==
    /\ desk.kind = "refetch"
    /\ Faulting
    /\ desk' = Telling([kind |-> "news"])
    /\ UNCHANGED <<view, ledger, refetching, channel, lane, events, absorbed, acts>>

\* Klaxon::send blocks while the event channel is full.
Tell ==
    /\ desk.kind = "telling"
    /\ Len(events) < EventCapacity
    /\ events' = Append(events, desk.event)
    /\ desk' = Idle
    /\ UNCHANGED <<view, ledger, refetching, channel, lane, absorbed, faults, acts>>

-----------------------------------------------------------------------------
(* crawl_loop and kin_loop                                                 *)

\* MirrorValve::await_flow.
AwaitFlow(l) ==
    /\ lane[l] = "gate"
    /\ view.mirror
    /\ lane' = [lane EXCEPT ![l] = "page"]
    /\ UNCHANGED <<view, ledger, refetching, channel, desk, events, absorbed, faults, acts>>

LanePage(l, e, after) ==
    /\ lane[l] = "page"
    /\ Len(events) < EventCapacity
    /\ events' = Append(events, [kind |-> e])
    /\ lane' = [lane EXCEPT ![l] = after]
    /\ UNCHANGED <<view, ledger, refetching, channel, desk, absorbed, acts>>

\* crawl_once: a page, empty or not; kin_once: a page, or the table is complete
\* and the lane ends.  A fault only tells the status line.
Crawl     == LanePage("crawl", "crawled", "gate") /\ UNCHANGED faults
KinCrawl  == \E after \in {"gate", "done"} : LanePage("kin", "news", after) /\ UNCHANGED faults
LaneFault == \E l \in Lane : LanePage(l, "news", "gate") /\ Faulting

-----------------------------------------------------------------------------
(* drain: one event                                                        *)

Landed(c, e) ==
    [c EXCEPT !.state = IF e.exhausted THEN "exhausted" ELSE "idle",
              !.next = Max({@, e.first + e.pages})]

\* Mutant: the cursor steps over the pages that failed.
FaultedPast(c, e) == [c EXCEPT !.state = "idle", !.next = Max({@, e.first + e.pages})]

Faulted(c, e) == [c EXCEPT !.state = "idle"]

DrainWarmed(e) ==
    LET led == [ledger EXCEPT !.cursor[e.key] = Landed(@, e)]
        c   == led.cursor[e.key]
    IN  IF e.key = ledger.active /\ ~view.dates /\ c.state # "exhausted"
        THEN DispatchWarm(led, view, c.stride)
        ELSE ledger' = led /\ UNCHANGED channel

DrainWarmFault(e) ==
    ledger' = [ledger EXCEPT !.cursor[e.key] = Faulted(@, e)] /\ UNCHANGED channel

\* Mutant: a crawled page no longer retries the active cursor.
DrainCrawledQuietly == UNCHANGED <<ledger, channel>>

DrainCrawled ==
    LET c == ledger.cursor[ledger.active]
    IN  IF c.state = "idle" THEN DispatchWarm(ledger, view, c.stride)
        ELSE UNCHANGED <<ledger, channel>>

\* Only an answer that still has the post ends the wait for it.
DrainRefetched(e) ==
    refetching' = IF e.kind = "refetched" THEN refetching \ {e.id} ELSE refetching

Drain ==
    /\ events # <<>>
    /\ LET e == Head(events)
       IN  /\ events' = Tail(events)
           /\ \/ e.kind = "warmed" /\ DrainWarmed(e)
              \/ e.kind = "warmfault" /\ DrainWarmFault(e)
              \/ e.kind = "crawled" /\ DrainCrawled
              \/ e.kind \in {"refetched", "news"} /\ UNCHANGED <<ledger, channel>>
           /\ DrainRefetched(e)
    /\ UNCHANGED <<view, desk, lane, absorbed, faults, acts>>

-----------------------------------------------------------------------------
UserActs ==
    \/ \E q \in Query, favorites \in BOOLEAN : InstallQuery(q, favorites)
    \/ InstallDates
    \/ \E s \in Sort : InstallSort(s)
    \/ TurnValve
    \/ \E p \in Post : LearnTagGroups(p)

WarmStep == Receive \/ EmptyPage \/ AbsorbPage \/ FetchPost \/ Tell

Next ==
    \/ UserActs
    \/ WarmStep
    \/ PageFault
    \/ PostFault
    \/ \E l \in Lane : AwaitFlow(l)
    \/ Crawl
    \/ KinCrawl
    \/ LaneFault
    \/ Drain

(***************************************************************************)
(* The threads run and the window keeps drawing frames; a crawl whose      *)
(* fetches fail for ever is excluded by MaxFaults.                         *)
(***************************************************************************)
Spec ==
    /\ Init
    /\ [][Next]_vars
    /\ WF_vars(WarmStep)
    /\ SF_vars(Tell)
    /\ WF_vars(AwaitFlow("crawl"))
    /\ SF_vars(Crawl)
    /\ WF_vars(Drain)

-----------------------------------------------------------------------------
(* Properties                                                              *)

\* A cursor never steps over a page: every page before its next one that
\* upstream has was fetched and absorbed, whatever faulted in between.
WarmLeavesNoGap ==
    \A k \in Key : \A page \in 1..(ledger.cursor[k].next - 1) :
        page <= Upstream(k) => page \in absorbed[k]

Asks(c, k) == c.kind = "warm" /\ c.key = k
Answers(e, k) == e.kind \in {"warmed", "warmfault"} /\ e.key = k
Works(d, k) ==
    \/ d.kind = "warming" /\ d.key = k
    \/ d.kind = "telling" /\ Answers(d.event, k)

\* The commands for k on their way, at work, and answered.
Carried(k) ==
    Cardinality({i \in DOMAIN channel : Asks(channel[i], k)})
    + (IF Works(desk, k) THEN 1 ELSE 0)
    + Cardinality({i \in DOMAIN events : Answers(events[i], k)})

\* A cursor in flight has exactly one command, fetch or answer on its way and
\* any other has none: no key is fetched twice at once, and none waits for an
\* answer that nobody will give (the channel refused it, or the user went away
\* to another query and came back).
WarmIsCarried ==
    \A k \in Key : Carried(k) = IF ledger.cursor[k].state = "inflight" THEN 1 ELSE 0

\* While a view stays open to warming and the mirror flows, its cursor comes to
\* upstream's end or to the page cap, however many fetches failed on the way.
WarmReachesTheEnd ==
    \A k \in Key :
        <>[](KeyOf(view) = k /\ ~Suspended(view) /\ view.mirror)
            => <>[](ledger.cursor[k].state = "exhausted")
=============================================================================
