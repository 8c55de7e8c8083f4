----------------------------- MODULE MediaLane -----------------------------
(***************************************************************************)
(* Images on their way to the window: the wall arms a thumbnail per post,  *)
(* the viewer asks for the full image it shows and for those it predicts   *)
(* (app.rs, app/viewer.rs); one dispatcher orders and culls the commands   *)
(* and a pool of fetchers answers them (worker.rs, media.rs).              *)
(*                                                                         *)
(* A texture is the membership of its key in a set: a post and a size for  *)
(* a thumbnail, a post for a full image.  The predicted successor is any   *)
(* other post of the wall.                                                 *)
(***************************************************************************)
EXTENDS Naturals, Sequences, FiniteSets, SequencesExt

CONSTANTS
    Post,
    None,
    Fetcher,          \* MEDIA_FETCHERS
    CommandCapacity,  \* MEDIA_COMMAND_CAPACITY
    PendingCapacity,  \* MEDIA_PENDING_CAPACITY
    EventCapacity,    \* EVENT_CAPACITY
    RecentCapacity,   \* FULL_RECENT_CAPACITY
    MaxActs           \* bound: walls, zooms, views and saves

ASSUME CapacityAssumption == {CommandCapacity, PendingCapacity} \subseteq Nat \ {0}

VARIABLES
    ui,       \* the window: see Window
    channel,  \* media_tx to media_dispatch
    pending,  \* the dispatcher's queue
    seen,     \* the latest epoch the dispatcher saw
    offer,    \* the command it offers to the pool
    work,     \* what each fetcher works on
    events,   \* the event channel
    acts

vars == <<ui, channel, pending, seen, offer, work, events, acts>>

-----------------------------------------------------------------------------
(* Commands                                                                *)

Bucket == {0, 1}
Key == Post \X Bucket

Blade(key, e) == [kind |-> "blade", id |-> key, epoch |-> e]
Full(p)       == [kind |-> "full", id |-> p, epoch |-> 0]
Save(p)       == [kind |-> "save", id |-> p, epoch |-> 0]
Prefetch(p)   == [kind |-> "prefetch", id |-> p, epoch |-> 0]
Cull(e)       == [kind |-> "cull", id |-> None, epoch |-> e]

\* Mutant: a blade of the current epoch is culled with the older ones.
IsLiveStrictly(c, e) == IF c.kind = "blade" THEN c.epoch > e ELSE c.kind # "cull"

IsLive(c, e) == IF c.kind = "blade" THEN c.epoch >= e ELSE c.kind # "cull"

Command == [kind : {"blade"}, id : Key, epoch : Nat]
             \cup [kind : {"full", "save", "prefetch"}, id : Post, epoch : {0}]
             \cup [kind : {"cull"}, id : {None}, epoch : Nat]

ASSUME MediaAssumption == None \notin Command \cup Post

EpochsOf(s) == {s[i].epoch : i \in {j \in DOMAIN s : s[j].kind \in {"blade", "cull"}}}

\* try_send: refused when the channel is full.
HasRoom == Len(channel) < CommandCapacity

-----------------------------------------------------------------------------
(* The window                                                              *)

Window == [ wall : SUBSET Post, bucket : Bucket, epoch : Nat,
            thumbs : SUBSET Key, inflight : SUBSET Key, faults : SUBSET Key,
            prefetched : SUBSET Post,
            viewer : Post \cup {None}, framed : BOOLEAN,
            full : SUBSET Post, fullInflight : SUBSET Post, fullFaults : SUBSET Post,
            residency : SUBSET Post, recent : Seq(Post) ]

Init ==
    /\ ui = [ wall |-> {}, bucket |-> 0, epoch |-> 0, thumbs |-> {}, inflight |-> {},
              faults |-> {}, prefetched |-> {}, viewer |-> None, framed |-> FALSE, full |-> {},
              fullInflight |-> {}, fullFaults |-> {}, residency |-> {}, recent |-> <<>> ]
    /\ channel = <<>> /\ pending = <<>> /\ seen = 0 /\ offer = None
    /\ work = [f \in Fetcher |-> None]
    /\ events = <<>>
    /\ acts = 0

Act == acts < MaxActs /\ acts' = acts + 1
KeepLane == UNCHANGED <<pending, seen, offer, work, events>>

\* advance_thumb_epoch: the cull is only sent if there is room.
Advanced(w) == [w EXCEPT !.epoch = @ + 1, !.inflight = {}]
SendCull == channel' = IF HasRoom THEN Append(channel, Cull(ui.epoch + 1)) ELSE channel

\* commit_hit with other posts.
ChangeWall(wall) ==
    /\ Act /\ wall # ui.wall
    /\ ui' = [Advanced(ui) EXCEPT !.wall = wall, !.prefetched = @ \cap wall,
                                  !.thumbs = @ \cap (wall \X Bucket),
                                  !.faults = @ \cap (wall \X Bucket)]
    /\ SendCull /\ KeepLane

\* zoom_tiles: another size of tile, not always another size of thumbnail.
Zoom ==
    /\ Act
    /\ \E bucket \in Bucket : ui' = [Advanced(ui) EXCEPT !.bucket = bucket]
    /\ SendCull /\ KeepLane

\* arm_thumb, for a tile in sight or soon to be.
ArmThumb(p) ==
    /\ p \in ui.wall
    /\ LET key == <<p, ui.bucket>> IN
       /\ key \notin ui.thumbs \cup ui.faults \cup ui.inflight
       /\ IF HasRoom
          THEN /\ channel' = Append(channel, Blade(key, ui.epoch))
               /\ ui' = [ui EXCEPT !.inflight = @ \cup {key}]
          ELSE /\ ui' = [ui EXCEPT !.faults = @ \cup {key}]
               /\ UNCHANGED channel
    /\ UNCHANGED acts /\ KeepLane

\* prefetch_post, after the pointer rested on a tile.
PrefetchPost(p) ==
    /\ Act
    /\ p \in ui.wall /\ p \notin ui.prefetched \cup ui.fullInflight
    /\ HasRoom
    /\ channel' = Append(channel, Prefetch(p))
    /\ ui' = [ui EXCEPT !.prefetched = @ \cup {p}]
    /\ KeepLane

\* save_full.
SaveFull ==
    /\ Act /\ ui.viewer # None /\ HasRoom
    /\ channel' = Append(channel, Save(ui.viewer))
    /\ UNCHANGED ui /\ KeepLane

\* open_full: a click on the wall or a step of the open viewer.
OpenFull(p) ==
    /\ Act
    /\ p \in ui.wall /\ p # ui.viewer
    /\ ui' = [ui EXCEPT !.viewer = p, !.framed = FALSE, !.fullFaults = @ \ {p}]
    /\ UNCHANGED channel /\ KeepLane

CloseViewer ==
    /\ Act /\ ui.viewer # None
    /\ ui' = [ui EXCEPT !.viewer = None, !.framed = FALSE, !.full = {}, !.fullFaults = {},
                        !.residency = {}, !.recent = <<>>]
    /\ UNCHANGED channel /\ KeepLane

-----------------------------------------------------------------------------
(* full_frame of an open viewer: request_full and prepare_viewer_wake       *)

\* touch_full_recent.
Touched(recent, p) ==
    LET slot == CHOOSE i \in DOMAIN recent : recent[i] = p
        s == Append(IF p \in ToSet(recent) THEN RemoveAt(recent, slot) ELSE recent, p)
    IN IF Len(s) > RecentCapacity THEN Tail(s) ELSE s

Wanted(w, p) == p \notin w.full \cup w.fullInflight \cup w.fullFaults

\* request_full: a refusal is a fault, until the post is opened again.
Requested(w, p) ==
    IF ~Wanted(w, p) THEN w
    ELSE IF HasRoom THEN [w EXCEPT !.fullInflight = @ \cup {p}]
    ELSE [w EXCEPT !.fullFaults = @ \cup {p}]

\* The residency of this frame, and what it evicts.
Reconciled(w, targets) ==
    LET recent == Touched(w.recent, w.viewer)
        kept == {w.viewer} \cup targets \cup ToSet(recent)
    IN [w EXCEPT !.recent = recent, !.residency = {w.viewer} \cup targets,
                 !.full = @ \cap kept, !.fullFaults = @ \cap kept, !.framed = TRUE]

\* prepare_full: a prediction that is refused leaves no trace.
Prepared(w, q) == [w EXCEPT !.prefetched = @ \cup {q}, !.fullInflight = @ \cup {q}]

\* The first frame after a move of the viewer, and any that finds its image wanted
\* again.  Bound: the frames between only predict again, on the wall as it is then, and
\* ask again for a prediction that was refused; they are left out.
FullFrame ==
    /\ ui.viewer # None
    /\ \E targets \in {{}} \cup {{q} : q \in ui.wall \ {ui.viewer}} :
         LET asks == Wanted(ui, ui.viewer) /\ HasRoom
             sent == IF asks THEN Append(channel, Full(ui.viewer)) ELSE channel
             w == Reconciled(Requested(ui, ui.viewer), targets)
             q == CHOOSE t \in targets : TRUE
             prepares == targets # {} /\ Wanted(w, q) /\ Len(sent) < CommandCapacity
         IN /\ ~ui.framed \/ Wanted(ui, ui.viewer)
            /\ ui' = IF prepares THEN Prepared(w, q) ELSE w
            /\ channel' = IF prepares THEN Append(sent, Full(q)) ELSE sent
    /\ UNCHANGED acts /\ KeepLane

-----------------------------------------------------------------------------
(* The dispatcher: next_media_command and the offer                        *)

Intake == IF Len(channel) <= PendingCapacity - Len(pending) THEN Len(channel)
          ELSE PendingCapacity - Len(pending)
Heard == pending \o SubSeq(channel, 1, Intake)

\* The indices of a set, in their order.
Indexings(I) == { at \in [1 .. Cardinality(I) -> I] :
                    \A m, n \in 1 .. Cardinality(I) : m < n => at[m] < at[n] }

\* A full image first, then a save, then the oldest.
Chosen(s, i) ==
    LET Some(kind) == \E j \in DOMAIN s : s[j].kind = kind
        First(kind) == s[i].kind = kind /\ \A j \in 1 .. i - 1 : s[j].kind # kind
    IN \/ First("full")
       \/ ~Some("full") /\ First("save")
       \/ ~Some("full") /\ ~Some("save") /\ i = 1

NextCommand ==
    /\ offer = None
    /\ pending # <<>> \/ channel # <<>>
    /\ LET heard == Heard
           epochs == {seen} \cup EpochsOf(heard)
       IN \E epoch \in epochs :
            LET live == {i \in DOMAIN heard : IsLive(heard[i], epoch)} IN
            /\ \A e \in epochs : e <= epoch
            /\ channel' = SubSeq(channel, Intake + 1, Len(channel))
            /\ seen' = epoch
            /\ IF live = {} THEN pending' = <<>> /\ UNCHANGED offer
               ELSE \E at \in Indexings(live), i \in 1 .. Cardinality(live) :
                      LET retained == [n \in 1 .. Cardinality(live) |-> heard[at[n]]] IN
                      /\ Chosen(retained, i)
                      /\ offer' = retained[i]
                      /\ pending' = RemoveAt(retained, i)
    /\ UNCHANGED <<ui, work, events, acts>>

\* A saturated pool: the command returns to the front of the queue.
OfferTimesOut ==
    /\ offer # None /\ \A f \in Fetcher : work[f] # None
    /\ pending' = <<offer>> \o pending
    /\ offer' = None
    /\ UNCHANGED <<ui, channel, seen, work, events, acts>>

TakeOffer(f) ==
    /\ offer # None /\ work[f] = None
    /\ work' = [work EXCEPT ![f] = offer]
    /\ offer' = None
    /\ UNCHANGED <<ui, channel, pending, seen, events, acts>>

\* media_fetch_loop: the bytes come from the cache or the network, or not at all;
\* the event waits for room in its channel.  A prefetch tells nothing.
Fetch(f) ==
    /\ work[f] # None
    /\ IF work[f].kind = "prefetch" THEN UNCHANGED events
       ELSE /\ Len(events) < EventCapacity
            /\ \E ok \in BOOLEAN :
                 events' = Append(events, [kind |-> work[f].kind, id |-> work[f].id, ok |-> ok])
    /\ work' = [work EXCEPT ![f] = None]
    /\ UNCHANGED <<ui, channel, pending, seen, offer, acts>>

-----------------------------------------------------------------------------
(* drain                                                                   *)

\* install_blade and BladeFault.
ThumbLanded(w, key, ok) ==
    [w EXCEPT !.inflight = @ \ {key},
              !.thumbs = IF ok THEN @ \cup {key} ELSE @,
              !.faults = IF ok THEN @ \ {key} ELSE @ \cup {key}]

\* Mutant: an image nothing protects any more is kept.
FullLandedUnasked(w, p, ok) ==
    [w EXCEPT !.fullInflight = @ \ {p},
              !.full = IF ok THEN @ \cup {p} ELSE @,
              !.fullFaults = IF ok THEN @ \ {p} ELSE @ \cup {p}]

\* Mutant: a fault of a full image is not remembered.
FullLandedForgetful(w, p, ok) ==
    [w EXCEPT !.fullInflight = @ \ {p},
              !.full = IF ok /\ p \in w.residency \cup ToSet(w.recent) THEN @ \cup {p} ELSE @]

\* A superseded prediction is only admitted if something still protects it.
FullLanded(w, p, ok) ==
    [w EXCEPT !.fullInflight = @ \ {p},
              !.full = IF ok /\ p \in w.residency \cup ToSet(w.recent) THEN @ \cup {p} ELSE @,
              !.fullFaults = IF ok THEN @ \ {p} ELSE @ \cup {p}]

Drain ==
    /\ events # <<>>
    /\ events' = Tail(events)
    /\ LET e == Head(events) IN
       ui' = CASE e.kind = "blade" -> ThumbLanded(ui, e.id, e.ok)
               [] e.kind = "full"  -> FullLanded(ui, e.id, e.ok)
               [] OTHER -> ui
    /\ UNCHANGED <<channel, pending, seen, offer, work, acts>>

Next ==
    \/ \E wall \in SUBSET Post : ChangeWall(wall)
    \/ Zoom \/ SaveFull \/ CloseViewer \/ FullFrame
    \/ \E p \in Post : ArmThumb(p) \/ PrefetchPost(p) \/ OpenFull(p)
    \/ NextCommand \/ OfferTimesOut
    \/ \E f \in Fetcher : TakeOffer(f) \/ Fetch(f)
    \/ Drain

\* Threads that are not blocked run on, a request for bytes has a time limit, and
\* the window paints frames while its viewer is open.
Fairness ==
    /\ WF_vars(NextCommand) /\ WF_vars(Drain) /\ WF_vars(FullFrame)
    /\ WF_vars(OfferTimesOut)
    /\ \A f \in Fetcher : WF_vars(Fetch(f))
    /\ WF_vars(\E f \in Fetcher : TakeOffer(f))

Spec == Init /\ [][Next]_vars /\ Fairness

-----------------------------------------------------------------------------
(* Properties                                                              *)

Commands == ToSet(channel) \cup ToSet(pending) \cup {offer} \cup {work[f] : f \in Fetcher}

Told(kind, p) == \E e \in ToSet(events) : e.kind = kind /\ e.id = p

\* A thumbnail or full image the window waits for is really under way: no cull,
\* full queue, saturated pool or overtaking answer drops the command whose answer
\* would end the wait.
InflightIsCarried ==
    /\ \A key \in ui.inflight : Blade(key, ui.epoch) \in Commands \/ Told("blade", key)
    /\ \A p \in ui.fullInflight : Full(p) \in Commands \/ Told("full", p)

\* A decoded full image is only held while the viewer shows it, predicts it or
\* showed it lately: answers that land late do not fill the memory.
FullIsProtected == ui.full \subseteq ui.residency \cup ToSet(ui.recent)

\* Once the user rests, every tile has loaded or says that it cannot, and so has
\* the image the viewer shows: nothing loads for ever.
EveryImageArrives ==
    []<>(ui.inflight = {} /\ ui.viewer \in ui.full \cup ui.fullFaults \cup {None})

=============================================================================
