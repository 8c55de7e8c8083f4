-------------------------- MODULE MediaLane_proof --------------------------
(***************************************************************************)
(* Proofs about MediaLane, for every number of posts and fetchers and      *)
(* every capacity: no command whose answer the window waits for is lost.   *)
(***************************************************************************)
EXTENDS MediaLane, Queue_proof

Event == [kind : {"blade"}, id : Key, ok : BOOLEAN]
           \cup [kind : {"full", "save"}, id : Post, ok : BOOLEAN]
           \cup [kind : {"cull"}, id : {None}, ok : BOOLEAN]

TypeInv ==
    /\ ui \in Window
    /\ channel \in Seq(Command) /\ pending \in Seq(Command)
    /\ seen \in Nat
    /\ offer \in Command \cup {None}
    /\ work \in [Fetcher -> Command \cup {None}]
    /\ events \in Seq(Event)

\* The commands of a later epoch than e.
Later(e) == {c \in Command : c.epoch > e}

\* Neither the dispatcher nor a command is ahead of the window.
EpochInv ==
    /\ seen <= ui.epoch
    /\ ~Has(channel, Later(ui.epoch)) /\ ~Has(pending, Later(ui.epoch))
    /\ offer \notin Later(ui.epoch)

\* The queue never exceeds its capacity, and there is room in it for the command
\* that a saturated pool sends back.
RoomInv == Len(pending) + (IF offer = None THEN 0 ELSE 1) <= PendingCapacity

MInv ==
    /\ TypeInv
    /\ EpochInv
    /\ RoomInv
    /\ InflightIsCarried
    /\ FullIsProtected

-----------------------------------------------------------------------------
(* Where a command is                                                      *)

Carries(c) ==
    \/ Has(channel, {c})
    \/ Has(pending, {c})
    \/ offer = c
    \/ \E f \in Fetcher : work[f] = c

Telling(kind, p) == {e \in Event : e.kind = kind /\ e.id = p}

\* A command is under way when a queue, the offer or a fetcher carries it.
LEMMA CommandsAreCarried ==
  \A c : (c \in Commands <=> Carries(c)) /\ ((c \in Commands)' <=> Carries(c)')
<1>1. \A s, c : c \in ToSet(s) <=> Has(s, {c})
  BY DEF ToSet, Has
<1>2. ASSUME NEW c
      PROVE  c \in Commands <=> Carries(c)
  BY <1>1 DEF Commands, Carries
<1>3. ASSUME NEW c
      PROVE  (c \in Commands)' <=> Carries(c)'
  BY <1>1 DEF Commands, Carries
<1> QED
  BY <1>2, <1>3

\* An answer has been told when the channel holds it.
LEMMA ToldIsQueued ==
  ASSUME events \in Seq(Event), events' \in Seq(Event)
  PROVE  \A kind, p : /\ Told(kind, p) <=> Has(events, Telling(kind, p))
                      /\ Told(kind, p)' <=> Has(events', Telling(kind, p))
<1> SUFFICES ASSUME NEW kind, NEW p
             PROVE  /\ Told(kind, p) <=> Has(events, Telling(kind, p))
                    /\ Told(kind, p)' <=> Has(events', Telling(kind, p))
  OBVIOUS
<1>1. /\ \A i \in DOMAIN events : events[i] \in Event
      /\ \A i \in DOMAIN events' : events'[i] \in Event
  OBVIOUS
<1> QED
  BY <1>1 DEF Told, Has, Telling, ToSet

\* The commands of the window.
LEMMA CommandTypes ==
  ASSUME NEW e \in Nat
  PROVE  /\ \A key \in Key : Blade(key, e) \in Command
         /\ \A p \in Post : Full(p) \in Command /\ Save(p) \in Command /\ Prefetch(p) \in Command
         /\ Cull(e) \in Command
BY DEF Blade, Full, Save, Prefetch, Cull, Command

-----------------------------------------------------------------------------
(* The window acts, the lane stands still                                  *)

\* Nothing the window waits for leaves the channel when it appends, and what it
\* comes to wait for is what it appends.
LEMMA WindowInv ==
  ASSUME MInv, KeepLane, ui' \in Window, ui.epoch <= ui'.epoch,
         channel' \in Seq(Command), ~Has(channel', Later(ui'.epoch)),
         \A x : Has(channel, {x}) => Has(channel', {x}),
         \A key \in ui'.inflight : \/ key \in ui.inflight /\ ui'.epoch = ui.epoch
                                  \/ Has(channel', {Blade(key, ui'.epoch)}),
         \A p \in ui'.fullInflight : p \in ui.fullInflight \/ Has(channel', {Full(p)}),
         FullIsProtected'
  PROVE  MInv'
<1>1. TypeInv'
  BY DEF MInv, TypeInv, KeepLane
<1>2. ui.epoch \in Nat /\ ui'.epoch \in Nat /\ seen \in Nat /\ TypeInv
  BY DEF MInv, TypeInv, Window
<1>3. Later(ui'.epoch) \subseteq Later(ui.epoch)
  BY <1>2 DEF Later, Command
<1>4. EpochInv' /\ RoomInv'
  BY <1>2, <1>3 DEF MInv, EpochInv, RoomInv, KeepLane, Has
<1>5. \A x : Carries(x) => Carries(x)'
  BY DEF Carries, KeepLane
<1>6. /\ \A x : (x \in Commands <=> Carries(x)) /\ ((x \in Commands)' <=> Carries(x)')
      /\ \A kind, p : Told(kind, p)' <=> Told(kind, p)
  BY CommandsAreCarried DEF Told, KeepLane
<1>7. InflightIsCarried'
  <2>1. ASSUME NEW key \in ui'.inflight
        PROVE  (Blade(key, ui.epoch) \in Commands)' \/ Told("blade", key)'
    <3>1. CASE key \in ui.inflight /\ ui'.epoch = ui.epoch
      BY <1>5, <1>6, <3>1 DEF MInv, InflightIsCarried
    <3>2. CASE Has(channel', {Blade(key, ui'.epoch)})
      BY <1>6, <3>2 DEF Carries
    <3> QED
      BY <2>1, <3>1, <3>2
  <2>2. ASSUME NEW p \in ui'.fullInflight
        PROVE  (Full(p) \in Commands)' \/ Told("full", p)'
    BY <1>5, <1>6, <2>2 DEF MInv, InflightIsCarried, Carries
  <2> QED
    BY <2>1, <2>2 DEF InflightIsCarried
<1> QED
  BY <1>1, <1>4, <1>7 DEF MInv

\* What a send does to the channel.
LEMMA SendHas ==
  ASSUME NEW s \in Seq(Command), NEW c \in Command, NEW e, ~Has(s, Later(e)), ~(c.epoch > e)
  PROVE  /\ Append(s, c) \in Seq(Command)
         /\ \A x : Has(s, {x}) => Has(Append(s, c), {x})
         /\ Has(Append(s, c), {c})
         /\ ~Has(Append(s, c), Later(e))
<1>1. \A W : Has(Append(s, c), W) <=> Has(s, W) \/ c \in W
  BY AppendHas
<1>2. c \notin Later(e)
  BY DEF Later
<1> QED
  BY <1>1, <1>2

\* What the window's invariant says, for the actions that change its records.
LEMMA WindowTypes ==
  ASSUME MInv
  PROVE  /\ ui \in Window /\ ui.epoch \in Nat /\ channel \in Seq(Command)
         /\ ~Has(channel, Later(ui.epoch)) /\ ~Has(channel, Later(ui.epoch + 1))
         /\ ui.wall \in SUBSET Post /\ ui.full \subseteq ui.residency \cup ToSet(ui.recent)
<1>1. ui \in Window /\ channel \in Seq(Command) /\ ~Has(channel, Later(ui.epoch))
  BY DEF MInv, TypeInv, EpochInv
<1>2. ui.epoch \in Nat /\ ui.wall \in SUBSET Post
  BY <1>1 DEF Window
<1>3. Later(ui.epoch + 1) \subseteq Later(ui.epoch)
  BY <1>2 DEF Later, Command
<1> QED
  BY <1>1, <1>2, <1>3 DEF Has, MInv, FullIsProtected

\* ChangeWall and Zoom begin an epoch: the window waits for no thumbnail of it yet.
LEMMA AdvanceInv ==
  ASSUME MInv, KeepLane, SendCull, ui' \in Window,
         ui'.epoch = ui.epoch + 1, ui'.inflight = {}, ui'.fullInflight = ui.fullInflight,
         ui'.full = ui.full, ui'.residency = ui.residency, ui'.recent = ui.recent
  PROVE  MInv'
<1>1. ui.epoch \in Nat /\ channel \in Seq(Command) /\ ~Has(channel, Later(ui'.epoch))
  BY WindowTypes
<1> PICK c : c = Cull(ui.epoch + 1)
  OBVIOUS
<1>2. c \in Command /\ ~(c.epoch > ui'.epoch)
  BY <1>1 DEF Cull, Command
<1>3. channel' = channel \/ channel' = Append(channel, c)
  BY DEF SendCull
<1>4. /\ channel' \in Seq(Command) /\ ~Has(channel', Later(ui'.epoch))
      /\ \A x : Has(channel, {x}) => Has(channel', {x})
  <2>1. CASE channel' = channel
    BY <1>1, <2>1
  <2>2. CASE channel' = Append(channel, c)
    BY <1>1, <1>2, <2>2, SendHas
  <2> QED
    BY <1>3, <2>1, <2>2
<1>5. FullIsProtected'
  BY DEF MInv, FullIsProtected
<1>6. ui.epoch <= ui'.epoch
  BY <1>1
<1> QED
  BY <1>4, <1>5, <1>6, WindowInv

\* A new wall culls what it no longer shows.
LEMMA ChangeWallInv == ASSUME MInv, NEW wall \in SUBSET Post, ChangeWall(wall) PROVE MInv'
<1>1. KeepLane /\ SendCull /\ ui \in Window /\ ui.epoch + 1 \in Nat
  BY WindowTypes DEF ChangeWall
<1>2. ui' = [ui EXCEPT !.epoch = ui.epoch + 1, !.inflight = {}, !.wall = wall,
                       !.prefetched = ui.prefetched \cap wall,
                       !.thumbs = ui.thumbs \cap (wall \X Bucket),
                       !.faults = ui.faults \cap (wall \X Bucket)]
  BY <1>1 DEF ChangeWall, Advanced, Window
<1>3. /\ ui' \in Window
      /\ ui'.epoch = ui.epoch + 1 /\ ui'.inflight = {} /\ ui'.fullInflight = ui.fullInflight
      /\ ui'.full = ui.full /\ ui'.residency = ui.residency /\ ui'.recent = ui.recent
  BY <1>1, <1>2 DEF Window
<1> QED
  BY <1>1, <1>3, AdvanceInv

\* A zoom begins a new epoch.
LEMMA ZoomInv == ASSUME MInv, Zoom PROVE MInv'
<1>1. KeepLane /\ SendCull /\ ui \in Window /\ ui.epoch + 1 \in Nat
  BY WindowTypes DEF Zoom
<1>2. PICK bucket \in Bucket :
        ui' = [ui EXCEPT !.epoch = ui.epoch + 1, !.inflight = {}, !.bucket = bucket]
  BY <1>1 DEF Zoom, Advanced, Window
<1>3. /\ ui' \in Window
      /\ ui'.epoch = ui.epoch + 1 /\ ui'.inflight = {} /\ ui'.fullInflight = ui.fullInflight
      /\ ui'.full = ui.full /\ ui'.residency = ui.residency /\ ui'.recent = ui.recent
  BY <1>1, <1>2 DEF Window
<1> QED
  BY <1>1, <1>3, AdvanceInv

\* Asking for a thumbnail.
LEMMA ArmInv == ASSUME MInv, NEW p \in Post, ArmThumb(p) PROVE MInv'
<1> PICK key : key = <<p, ui.bucket>>
  OBVIOUS
<1>1. /\ KeepLane /\ ui \in Window /\ ui.epoch \in Nat /\ channel \in Seq(Command)
      /\ ~Has(channel, Later(ui.epoch)) /\ key \in Key
  BY WindowTypes DEF ArmThumb, Window, Key
<1> PICK c : c = Blade(key, ui.epoch)
  OBVIOUS
<1>2. c \in Command /\ ~(c.epoch > ui.epoch)
  <2>1. c \in Command
    BY <1>1, CommandTypes
  <2>2. c.epoch = ui.epoch
    BY DEF Blade
  <2> QED
    BY <1>1, <2>1, <2>2
<1>3. \/ channel' = Append(channel, c) /\ ui' = [ui EXCEPT !.inflight = ui.inflight \cup {key}]
      \/ channel' = channel /\ ui' = [ui EXCEPT !.faults = ui.faults \cup {key}]
  BY DEF ArmThumb
<1>4. /\ ui' \in Window /\ ui'.epoch = ui.epoch /\ ui'.fullInflight = ui.fullInflight
      /\ ui'.full = ui.full /\ ui'.residency = ui.residency /\ ui'.recent = ui.recent
      /\ \/ channel' = Append(channel, c) /\ ui'.inflight = ui.inflight \cup {key}
         \/ channel' = channel /\ ui'.inflight = ui.inflight
  <2>1. CASE channel' = Append(channel, c) /\ ui' = [ui EXCEPT !.inflight = ui.inflight \cup {key}]
    BY <1>1, <2>1 DEF Window
  <2>2. CASE channel' = channel /\ ui' = [ui EXCEPT !.faults = ui.faults \cup {key}]
    BY <1>1, <2>2 DEF Window
  <2> QED
    BY <1>3, <2>1, <2>2
<1>5. /\ channel' \in Seq(Command) /\ ~Has(channel', Later(ui'.epoch))
      /\ \A x : Has(channel, {x}) => Has(channel', {x})
      /\ channel' = Append(channel, c) => Has(channel', {c})
  <2>1. /\ Append(channel, c) \in Seq(Command) /\ ~Has(Append(channel, c), Later(ui.epoch))
        /\ \A x : Has(channel, {x}) => Has(Append(channel, c), {x})
        /\ Has(Append(channel, c), {c})
    BY <1>1, <1>2, SendHas
  <2>2. Append(channel, c) # channel
    BY <1>1, <1>2
  <2>3. CASE channel' = Append(channel, c)
    BY <1>4, <2>1, <2>3
  <2>4. CASE channel' = channel
    BY <1>1, <1>4, <2>2, <2>4
  <2> QED
    BY <1>4, <2>3, <2>4
<1>6. FullIsProtected'
  BY <1>4 DEF MInv, FullIsProtected
<1>7. \A k \in ui'.inflight : \/ k \in ui.inflight /\ ui'.epoch = ui.epoch
                             \/ Has(channel', {Blade(k, ui'.epoch)})
  BY <1>4, <1>5
<1>8. ui.epoch <= ui'.epoch
  BY <1>1, <1>4
<1> QED
  BY <1>1, <1>4, <1>5, <1>6, <1>7, <1>8, WindowInv

\* PrefetchPost and SaveFull: a command no one waits for.
LEMMA AsideInv ==
  ASSUME MInv, KeepLane, NEW c \in Command, c.epoch = 0, channel' = Append(channel, c),
         ui' \in Window, ui'.epoch = ui.epoch, ui'.inflight = ui.inflight,
         ui'.fullInflight = ui.fullInflight, ui'.full = ui.full,
         ui'.residency = ui.residency, ui'.recent = ui.recent
  PROVE  MInv'
<1>1. ui.epoch \in Nat /\ channel \in Seq(Command) /\ ~Has(channel, Later(ui.epoch))
  BY WindowTypes
<1>2. ~(c.epoch > ui'.epoch) /\ ui.epoch <= ui'.epoch
  BY <1>1
<1>3. /\ channel' \in Seq(Command) /\ ~Has(channel', Later(ui'.epoch))
      /\ \A x : Has(channel, {x}) => Has(channel', {x})
  BY <1>1, <1>2, SendHas
<1>4. FullIsProtected'
  BY DEF MInv, FullIsProtected
<1> QED
  BY <1>2, <1>3, <1>4, WindowInv

\* Asking for an image ahead.
LEMMA PrefetchInv == ASSUME MInv, NEW p \in Post, PrefetchPost(p) PROVE MInv'
<1>1. KeepLane /\ ui \in Window /\ channel' = Append(channel, Prefetch(p))
  BY WindowTypes DEF PrefetchPost
<1>2. /\ ui' \in Window /\ ui'.epoch = ui.epoch /\ ui'.inflight = ui.inflight
      /\ ui'.fullInflight = ui.fullInflight /\ ui'.full = ui.full
      /\ ui'.residency = ui.residency /\ ui'.recent = ui.recent
  BY <1>1 DEF PrefetchPost, Window
<1>3. Prefetch(p) \in Command /\ Prefetch(p).epoch = 0
  BY CommandTypes DEF Prefetch
<1> QED
  BY <1>1, <1>2, <1>3, AsideInv

\* Saving the image that is shown.
LEMMA SaveInv == ASSUME MInv, SaveFull PROVE MInv'
<1>1. KeepLane /\ ui \in Window /\ channel' = Append(channel, Save(ui.viewer)) /\ ui' = ui
      /\ ui.viewer \in Post
  BY WindowTypes DEF SaveFull, Window
<1>2. Save(ui.viewer) \in Command /\ Save(ui.viewer).epoch = 0
  BY <1>1, CommandTypes DEF Save
<1> QED
  BY <1>1, <1>2, AsideInv

\* Opening and closing the viewer.
LEMMA ViewerInv == ASSUME MInv, (\E p \in Post : OpenFull(p)) \/ CloseViewer PROVE MInv'
<1>1. KeepLane /\ ui \in Window /\ channel' = channel /\ ui.epoch \in Nat
  BY WindowTypes DEF OpenFull, CloseViewer
<1>2. /\ ui' \in Window /\ ui'.epoch = ui.epoch /\ ui'.inflight = ui.inflight
      /\ ui'.fullInflight = ui.fullInflight
      /\ \/ ui'.full = {}
         \/ ui'.full = ui.full /\ ui'.residency = ui.residency /\ ui'.recent = ui.recent
  <2>1. CASE CloseViewer
    <3>1. <<>> \in Seq(Post)
      OBVIOUS
    <3> QED
      BY <1>1, <2>1, <3>1 DEF CloseViewer, Window
  <2>2. CASE \E p \in Post : OpenFull(p)
    <3>1. PICK p \in Post : ui' = [ui EXCEPT !.viewer = p, !.framed = FALSE,
                                             !.fullFaults = ui.fullFaults \ {p}]
      BY <2>2 DEF OpenFull
    <3>2. ui' \in Window
      BY <1>1, <3>1 DEF Window
    <3>3. /\ ui'.epoch = ui.epoch /\ ui'.inflight = ui.inflight
          /\ ui'.fullInflight = ui.fullInflight /\ ui'.full = ui.full
          /\ ui'.residency = ui.residency /\ ui'.recent = ui.recent
      BY <1>1, <3>1 DEF Window
    <3> QED
      BY <3>2, <3>3
  <2> QED
    BY <2>1, <2>2
<1>3. FullIsProtected'
  BY <1>2 DEF MInv, FullIsProtected
<1> QED
  BY <1>1, <1>2, <1>3, WindowInv, WindowTypes

-----------------------------------------------------------------------------
(* A frame of the open viewer                                              *)

\* The recent images are posts.
LEMMA TouchedType ==
  ASSUME NEW recent \in Seq(Post), NEW p \in Post
  PROVE  Touched(recent, p) \in Seq(Post)
<1> DEFINE slot == CHOOSE i \in DOMAIN recent : recent[i] = p
           rest == IF p \in ToSet(recent) THEN RemoveAt(recent, slot) ELSE recent
           s == Append(rest, p)
<1>1. rest \in Seq(Post)
  <2>1. ASSUME p \in ToSet(recent)
        PROVE  RemoveAt(recent, slot) \in Seq(Post)
    <3>1. \E i \in DOMAIN recent : recent[i] = p
      BY <2>1 DEF ToSet
    <3>2. slot \in 1 .. Len(recent)
      BY <3>1
    <3> HIDE DEF slot
    <3> QED
      BY <3>2, WithoutHas DEF RemoveAt
  <2> QED
    BY <2>1
<1> HIDE DEF rest
<1>2. s \in Seq(Post) /\ s # <<>>
  BY <1>1
<1>3. Touched(recent, p) = IF Len(s) > RecentCapacity THEN Tail(s) ELSE s
  BY DEF Touched, rest
<1> HIDE DEF s
<1>4. Tail(s) \in Seq(Post)
  BY <1>2
<1> QED
  BY <1>2, <1>3, <1>4

\* The residency of a frame protects every image that stays.
LEMMA ReconciledDoes ==
  ASSUME NEW w \in Window, w.viewer \in Post, NEW targets \in SUBSET Post
  PROVE  /\ Reconciled(w, targets) \in Window
         /\ Reconciled(w, targets).epoch = w.epoch
         /\ Reconciled(w, targets).inflight = w.inflight
         /\ Reconciled(w, targets).fullInflight = w.fullInflight
         /\ Reconciled(w, targets).full
              \subseteq Reconciled(w, targets).residency \cup ToSet(Reconciled(w, targets).recent)
<1> DEFINE recent == Touched(w.recent, w.viewer)
           kept == {w.viewer} \cup targets \cup ToSet(recent)
           r == Reconciled(w, targets)
<1>1. w.recent \in Seq(Post)
  BY DEF Window
<1>2. recent \in Seq(Post)
  BY <1>1, TouchedType
<1>3. r = [w EXCEPT !.recent = recent, !.residency = {w.viewer} \cup targets,
                    !.full = w.full \cap kept, !.fullFaults = w.fullFaults \cap kept,
                    !.framed = TRUE]
  BY DEF Reconciled
<1> HIDE DEF recent, r
<1>4. /\ r.epoch = w.epoch /\ r.inflight = w.inflight /\ r.fullInflight = w.fullInflight
      /\ r.recent = recent /\ r.residency = {w.viewer} \cup targets
      /\ r.full = w.full \cap kept
  BY <1>3 DEF Window
<1> HIDE DEF kept
<1>5. r \in Window
  BY <1>2, <1>3 DEF Window
<1> QED
  BY <1>4, <1>5 DEF kept, r

\* A frame of the viewer touches what it shows and asks for what it lacks.
LEMMA FrameInv == ASSUME MInv, FullFrame PROVE MInv'
<1>1. /\ KeepLane /\ ui \in Window /\ ui.viewer \in Post /\ ui.epoch \in Nat
      /\ channel \in Seq(Command) /\ ~Has(channel, Later(ui.epoch)) /\ ui.wall \in SUBSET Post
  BY WindowTypes DEF FullFrame, Window
<1>2. PICK targets \in {{}} \cup {{q} : q \in ui.wall \ {ui.viewer}} :
         LET asks == Wanted(ui, ui.viewer) /\ HasRoom
             sent == IF asks THEN Append(channel, Full(ui.viewer)) ELSE channel
             w == Reconciled(Requested(ui, ui.viewer), targets)
             q == CHOOSE t \in targets : TRUE
             prepares == targets # {} /\ Wanted(w, q) /\ Len(sent) < CommandCapacity
         IN /\ ui' = IF prepares THEN Prepared(w, q) ELSE w
            /\ channel' = IF prepares THEN Append(sent, Full(q)) ELSE sent
  BY DEF FullFrame
<1> DEFINE asks == Wanted(ui, ui.viewer) /\ HasRoom
           sent == IF asks THEN Append(channel, Full(ui.viewer)) ELSE channel
           v == Requested(ui, ui.viewer)
           w == Reconciled(v, targets)
           q == CHOOSE t \in targets : TRUE
           prepares == targets # {} /\ Wanted(w, q) /\ Len(sent) < CommandCapacity
<1>3. targets \in SUBSET Post
  BY <1>1, <1>2
<1>4. targets # {} => q \in Post
  BY <1>3
<1>5. \A p \in Post : Full(p) \in Command /\ ~(Full(p).epoch > ui.epoch)
  <2>1. \A p \in Post : Full(p) \in Command /\ Full(p).epoch = 0
    BY <1>1, CommandTypes DEF Full
  <2> QED
    BY <1>1, <2>1
<1>6. /\ v \in Window /\ v.viewer = ui.viewer /\ v.epoch = ui.epoch
      /\ v.inflight = ui.inflight
      /\ v.fullInflight = IF asks THEN ui.fullInflight \cup {ui.viewer} ELSE ui.fullInflight
  <2>1. CASE ~Wanted(ui, ui.viewer)
    BY <1>1, <2>1 DEF Requested
  <2>2. CASE Wanted(ui, ui.viewer) /\ HasRoom
    BY <1>1, <2>2 DEF Requested, Window
  <2>3. CASE Wanted(ui, ui.viewer) /\ ~HasRoom
    BY <1>1, <2>3 DEF Requested, Window
  <2> QED
    BY <2>1, <2>2, <2>3
<1>7. /\ sent \in Seq(Command) /\ ~Has(sent, Later(ui.epoch))
      /\ \A x : Has(channel, {x}) => Has(sent, {x})
      /\ asks => Has(sent, {Full(ui.viewer)})
  <2>1. CASE asks
    BY <1>1, <1>5, <2>1, SendHas
  <2>2. CASE ~asks
    BY <1>1, <2>2
  <2> QED
    BY <2>1, <2>2
<1>8. ui' = (IF prepares THEN Prepared(w, q) ELSE w)
      /\ channel' = (IF prepares THEN Append(sent, Full(q)) ELSE sent)
  BY <1>2
<1> HIDE DEF v, sent, asks
<1>9. /\ w \in Window /\ w.epoch = ui.epoch /\ w.inflight = ui.inflight
      /\ w.fullInflight = v.fullInflight
      /\ w.full \subseteq w.residency \cup ToSet(w.recent)
  BY <1>1, <1>3, <1>6, ReconciledDoes
<1> HIDE DEF w, q
<1>10. \A p \in w.fullInflight : p \in ui.fullInflight \/ Has(sent, {Full(p)})
  BY <1>6, <1>7, <1>9
<1>11. CASE ~prepares
  <2>1. ui' = w /\ channel' = sent
    BY <1>8, <1>11
  <2>2. FullIsProtected' /\ ui.epoch <= ui'.epoch
    BY <1>1, <1>9, <2>1 DEF FullIsProtected
  <2> QED
    BY <1>1, <1>7, <1>9, <1>10, <2>1, <2>2, WindowInv
<1>12. CASE prepares
  <2>1. /\ ui' = [w EXCEPT !.prefetched = w.prefetched \cup {q},
                          !.fullInflight = w.fullInflight \cup {q}]
        /\ channel' = Append(sent, Full(q)) /\ q \in Post
    BY <1>4, <1>8, <1>12 DEF Prepared, q
  <2>2. /\ ui' \in Window /\ ui'.epoch = ui.epoch /\ ui'.inflight = ui.inflight
        /\ ui'.fullInflight = w.fullInflight \cup {q} /\ ui'.full = w.full
        /\ ui'.residency = w.residency /\ ui'.recent = w.recent
    BY <1>9, <2>1 DEF Window
  <2>3. /\ channel' \in Seq(Command) /\ ~Has(channel', Later(ui.epoch))
        /\ \A x : Has(sent, {x}) => Has(channel', {x})
        /\ Has(channel', {Full(q)})
    BY <1>5, <1>7, <2>1, SendHas
  <2>4. FullIsProtected' /\ ui.epoch <= ui'.epoch
    BY <1>1, <1>9, <2>2 DEF FullIsProtected
  <2>5. \A p \in ui'.fullInflight : p \in ui.fullInflight \/ Has(channel', {Full(p)})
    BY <1>10, <2>2, <2>3
  <2> QED
    BY <1>1, <1>7, <2>2, <2>3, <2>4, <2>5, WindowInv
<1> QED
  BY <1>11, <1>12

-----------------------------------------------------------------------------
(* The dispatcher and its pool                                             *)

\* An order-preserving numbering of a set of indices reaches each of them.
LEMMA IndexingsReach ==
  ASSUME NEW n \in Nat, NEW I \in SUBSET (1 .. n), NEW at \in Indexings(I)
  PROVE  /\ Cardinality(I) \in 0 .. n
         /\ \A m \in 1 .. Cardinality(I) : at[m] \in I
         /\ \A i \in I : \E m \in 1 .. Cardinality(I) : at[m] = i
<1> DEFINE k == Cardinality(I)
<1>1. IsFiniteSet(I) /\ k \in Nat /\ k <= n
  <2>1. IsFiniteSet(1 .. n) /\ Cardinality(1 .. n) = n
    BY FS_Interval
  <2>2. IsFiniteSet(I) /\ k <= n
    BY <2>1, FS_Subset
  <2> QED
    BY <2>2, FS_CardinalityType
<1>2. /\ at \in [1 .. k -> I]
      /\ \A i, j \in 1 .. k : i < j => at[i] < at[j]
  BY DEF Indexings
<1>3. at \in Injection(1 .. k, I)
  <2>1. ASSUME NEW i \in 1 .. k, NEW j \in 1 .. k, at[i] = at[j]
        PROVE  i = j
    <3>1. at[i] \in Int /\ at[j] \in Int
      <4>1. at[i] \in I /\ at[j] \in I
        BY <1>2
      <4>2. \A x \in I : x \in Int
        OBVIOUS
      <4> QED
        BY <4>1, <4>2
    <3>2. i < j \/ j < i \/ i = j
      BY <1>1
    <3> QED
      BY <1>2, <2>1, <3>1, <3>2
  <2> QED
    BY <1>2, <2>1 DEF Injection, IsInjective
<1>4. Cardinality(1 .. k) = Cardinality(I)
  BY <1>1, FS_Interval
<1>5. at \in Surjection(1 .. k, I)
  BY <1>1, <1>3, <1>4, FS_Injection
<1> QED
  BY <1>1, <1>2, <1>5 DEF Surjection

\* Nothing the window can wait for is lost while it stands still.
LEMMA LaneInv ==
  ASSUME MInv, ui' = ui, events' = events, TypeInv', EpochInv', RoomInv',
         \A c \in Command : IsLive(c, ui.epoch) /\ Carries(c) => Carries(c)'
  PROVE  MInv'
<1>1. ui \in Window /\ ui.epoch \in Nat /\ ui.inflight \subseteq Key /\ ui.fullInflight \subseteq Post
  BY DEF MInv, TypeInv, Window
<1>2. \A key \in ui.inflight : /\ Blade(key, ui.epoch) \in Command
                               /\ IsLive(Blade(key, ui.epoch), ui.epoch)
  BY <1>1, CommandTypes DEF Blade, IsLive
<1>3. \A p \in ui.fullInflight : Full(p) \in Command /\ IsLive(Full(p), ui.epoch)
  BY <1>1, CommandTypes DEF Full, IsLive
<1>4. \A kind, p : Told(kind, p)' <=> Told(kind, p)
  BY DEF Told
<1>5. InflightIsCarried'
  <2>1. ASSUME NEW key \in ui.inflight
        PROVE  (Blade(key, ui.epoch) \in Commands)' \/ Told("blade", key)'
    BY <1>2, <1>4, CommandsAreCarried DEF MInv, InflightIsCarried
  <2>2. ASSUME NEW p \in ui.fullInflight
        PROVE  (Full(p) \in Commands)' \/ Told("full", p)'
    BY <1>3, <1>4, CommandsAreCarried DEF MInv, InflightIsCarried
  <2> QED
    BY <2>1, <2>2 DEF InflightIsCarried
<1>6. FullIsProtected'
  BY DEF MInv, FullIsProtected
<1> QED
  BY <1>5, <1>6 DEF MInv

\* The dispatcher takes the next command.
LEMMA NextCommandInv == ASSUME MInv, NextCommand PROVE MInv'
<1>1. /\ offer = None /\ UNCHANGED <<ui, work, events>>
      /\ channel \in Seq(Command) /\ pending \in Seq(Command) /\ seen \in Nat /\ ui.epoch \in Nat
      /\ seen <= ui.epoch
      /\ ~Has(channel, Later(ui.epoch)) /\ ~Has(pending, Later(ui.epoch))
      /\ Len(pending) <= PendingCapacity /\ PendingCapacity \in Nat \ {0}
      /\ work \in [Fetcher -> Command \cup {None}] /\ ui \in Window /\ events \in Seq(Event)
  BY CapacityAssumption DEF NextCommand, MInv, TypeInv, EpochInv, RoomInv, Window
<1>2. Intake \in 0 .. Len(channel) /\ Len(pending) + Intake <= PendingCapacity
  <2>1. Len(channel) \in Nat /\ Len(pending) \in Nat
    BY <1>1
  <2> QED
    BY <1>1, <2>1 DEF Intake
<1> DEFINE taken == SubSeq(channel, 1, Intake)
           rest == SubSeq(channel, Intake + 1, Len(channel))
<1>3. /\ taken \in Seq(Command) /\ rest \in Seq(Command) /\ Len(taken) = Intake
      /\ \A W : Has(channel, W) <=> Has(taken, W) \/ Has(rest, W)
  BY <1>1, <1>2, CutHas
<1> HIDE DEF taken, rest
<1>4. /\ Heard \in Seq(Command) /\ Len(Heard) \in Nat /\ Len(Heard) <= PendingCapacity
      /\ DOMAIN Heard = 1 .. Len(Heard)
      /\ \A W : Has(Heard, W) <=> Has(pending, W) \/ Has(taken, W)
  <2>1. Heard = pending \o taken
    BY DEF Heard, taken
  <2>2. Heard \in Seq(Command) /\ Len(Heard) = Len(pending) + Len(taken)
    BY <1>1, <1>3, <2>1, ConcatType
  <2>3. \A W : Has(Heard, W) <=> Has(pending, W) \/ Has(taken, W)
    BY <1>1, <1>3, <2>1, ConcatHas
  <2> QED
    BY <1>2, <1>3, <2>2, <2>3
<1>5. \A i \in DOMAIN Heard : Heard[i] \in Command /\ Heard[i].epoch \in Nat
                              /\ Heard[i].epoch <= ui.epoch
  <2> SUFFICES ASSUME NEW i \in DOMAIN Heard
               PROVE  Heard[i] \in Command /\ Heard[i].epoch \in Nat /\ Heard[i].epoch <= ui.epoch
    OBVIOUS
  <2>1. Heard[i] \in Command /\ Heard[i].epoch \in Nat
    <3>1. Heard[i] \in Command
      BY <1>4
    <3> QED
      BY <3>1 DEF Command
  <2>2. Heard[i] \notin Later(ui.epoch)
    BY <1>1, <1>3, <1>4 DEF Has
  <2> QED
    BY <1>1, <2>1, <2>2 DEF Later
<1>6. PICK epoch \in {seen} \cup EpochsOf(Heard) :
         LET live == {i \in DOMAIN Heard : IsLive(Heard[i], epoch)} IN
         /\ \A e \in {seen} \cup EpochsOf(Heard) : e <= epoch
         /\ channel' = rest
         /\ seen' = epoch
         /\ IF live = {} THEN pending' = <<>> /\ UNCHANGED offer
            ELSE \E at \in Indexings(live), i \in 1 .. Cardinality(live) :
                   LET retained == [n \in 1 .. Cardinality(live) |-> Heard[at[n]]] IN
                   /\ Chosen(retained, i)
                   /\ offer' = retained[i]
                   /\ pending' = RemoveAt(retained, i)
  BY DEF NextCommand, rest
<1> DEFINE live == {i \in DOMAIN Heard : IsLive(Heard[i], epoch)}
<1>7. epoch \in Nat /\ epoch <= ui.epoch
  BY <1>1, <1>5 DEF EpochsOf
<1>8. \A c \in Command : IsLive(c, ui.epoch) => IsLive(c, epoch)
  BY <1>1, <1>7 DEF IsLive, Command
\* What is heard and live is retained or offered.
<1>9. /\ pending' \in Seq(Command) /\ offer' \in Command \cup {None}
      /\ RoomInv'
      /\ \A W : Has(pending', W) \/ (offer' # None /\ offer' \in W) => Has(Heard, W)
      /\ \A c \in Command : IsLive(c, epoch) /\ Has(Heard, {c}) => Has(pending', {c}) \/ offer' = c
  <2>1. CASE live = {}
    <3>1. pending' = <<>> /\ offer' = None /\ <<>> \in Seq(Command) /\ Len(<<>>) = 0
      BY <1>1, <1>6, <2>1
    <3>2. \A W : ~Has(pending', W)
      BY <3>1, EmptyHasNone
    <3>3. \A c \in Command : IsLive(c, epoch) => ~Has(Heard, {c})
      BY <2>1 DEF Has
    <3> QED
      BY <1>1, <3>1, <3>2, <3>3 DEF RoomInv
  <2>2. CASE live # {}
    <3>1. PICK at \in Indexings(live), i \in 1 .. Cardinality(live) :
             LET retained == [n \in 1 .. Cardinality(live) |-> Heard[at[n]]] IN
             offer' = retained[i] /\ pending' = RemoveAt(retained, i)
      BY <1>6, <2>2
    <3> DEFINE k == Cardinality(live)
               retained == [n \in 1 .. k |-> Heard[at[n]]]
    <3>2. /\ k \in 0 .. Len(Heard)
          /\ \A m \in 1 .. k : at[m] \in live
          /\ \A j \in live : \E m \in 1 .. k : at[m] = j
      <4>1. live \in SUBSET (1 .. Len(Heard))
        BY <1>4
      <4> QED
        BY <1>4, <4>1, IndexingsReach
    <3> HIDE DEF k
    <3>3. /\ retained \in Seq(Command) /\ Len(retained) = k
          /\ \A m \in 1 .. k : retained[m] = Heard[at[m]] /\ Heard[at[m]] \in Command
      <4>1. \A m \in 1 .. k : Heard[at[m]] \in Command
        BY <1>5, <3>2
      <4> QED
        BY <1>4, <3>2, <4>1
    <3>4. i \in 1 .. Len(retained) /\ offer' = retained[i]
          /\ pending' = SubSeq(retained, 1, i - 1) \o SubSeq(retained, i + 1, Len(retained))
      BY <3>1, <3>3 DEF RemoveAt, k
    <3>5. /\ \A W : Has(retained, W) => Has(Heard, W)
          /\ \A c : IsLive(c, epoch) /\ Has(Heard, {c}) => Has(retained, {c})
      <4>1. DOMAIN retained = 1 .. k
        OBVIOUS
      <4>2. ASSUME NEW c, IsLive(c, epoch), Has(Heard, {c})
            PROVE  Has(retained, {c})
        <5>1. PICK j \in DOMAIN Heard : Heard[j] = c
          BY <4>2 DEF Has
        <5>2. j \in live
          BY <4>2, <5>1
        <5> QED
          BY <3>2, <3>3, <4>1, <5>1, <5>2 DEF Has
      <4>3. ASSUME NEW W, Has(retained, W)
            PROVE  Has(Heard, W)
        BY <3>2, <3>3, <4>1, <4>3 DEF Has
      <4> QED
        BY <4>2, <4>3
    <3> HIDE DEF retained
    <3>6. /\ pending' \in Seq(Command) /\ Len(pending') = k - 1 /\ offer' \in Command
          /\ \A W : Has(retained, W) <=> offer' \in W \/ Has(pending', W)
      <4>1. /\ pending' \in Seq(Command) /\ Len(pending') = Len(retained) - 1
            /\ \A W : Has(retained, W) <=> retained[i] \in W \/ Has(pending', W)
        BY <3>3, <3>4, WithoutHas
      <4>2. retained[i] \in Command
        BY <3>3, <3>4
      <4> QED
        BY <3>3, <3>4, <4>1, <4>2
    <3>7. RoomInv'
      BY <1>1, <1>4, <3>2, <3>6 DEF RoomInv
    <3> QED
      BY <3>5, <3>6, <3>7
  <2> QED
    BY <2>1, <2>2
<1>10. TypeInv'
  BY <1>1, <1>3, <1>6, <1>7, <1>9 DEF TypeInv
<1>11. EpochInv'
  <2>1. ~Has(Heard, Later(ui.epoch)) /\ ~Has(rest, Later(ui.epoch))
    BY <1>1, <1>3, <1>4
  <2>2. None \notin Later(ui.epoch)
    BY MediaAssumption DEF Later
  <2> QED
    BY <1>1, <1>6, <1>7, <1>9, <2>1, <2>2 DEF EpochInv
<1>12. \A c \in Command : IsLive(c, ui.epoch) /\ Carries(c) => Carries(c)'
  BY <1>1, <1>3, <1>4, <1>6, <1>8, <1>9, MediaAssumption DEF Carries
<1> QED
  BY <1>1, <1>9, <1>10, <1>11, <1>12, LaneInv

\* A saturated pool sends its command back to the queue.
LEMMA TimesOutInv == ASSUME MInv, OfferTimesOut PROVE MInv'
<1>1. /\ offer \in Command /\ offer' = None /\ pending' = <<offer>> \o pending
      /\ UNCHANGED <<ui, channel, seen, work, events>>
      /\ pending \in Seq(Command) /\ Len(pending) + 1 <= PendingCapacity
      /\ ~Has(pending, Later(ui.epoch)) /\ offer \notin Later(ui.epoch)
  BY DEF OfferTimesOut, MInv, TypeInv, EpochInv, RoomInv
<1>2. <<offer>> \in Seq(Command) /\ Len(<<offer>>) = 1
  BY <1>1
<1>3. pending' \in Seq(Command) /\ Len(pending') = 1 + Len(pending)
  BY <1>1, <1>2, ConcatType
<1>4. \A W : Has(pending', W) <=> offer \in W \/ Has(pending, W)
  <2>1. \A W : Has(<<offer>>, W) <=> offer \in W
    BY SingleHas
  <2> QED
    BY <1>1, <1>2, <2>1, ConcatHas
<1>5. TypeInv'
  BY <1>1, <1>3 DEF MInv, TypeInv
<1>6. EpochInv'
  <2>1. None \notin Later(ui.epoch)
    BY MediaAssumption DEF Later
  <2> QED
    BY <1>1, <1>4, <2>1 DEF MInv, EpochInv
<1>7. RoomInv'
  <2>1. Len(pending) \in Nat
    BY <1>1
  <2> QED
    BY <1>1, <1>3, <2>1 DEF RoomInv
<1>8. \A c \in Command : Carries(c) => Carries(c)'
  BY <1>1, <1>4 DEF Carries
<1> QED
  BY <1>1, <1>5, <1>6, <1>7, <1>8, LaneInv

\* A fetcher takes the offer.
LEMMA TakeInv == ASSUME MInv, NEW f \in Fetcher, TakeOffer(f) PROVE MInv'
<1>1. /\ offer \in Command /\ offer' = None /\ work[f] = None
      /\ work' = [work EXCEPT ![f] = offer] /\ work \in [Fetcher -> Command \cup {None}]
      /\ UNCHANGED <<ui, channel, pending, seen, events>>
      /\ pending \in Seq(Command) /\ Len(pending) + 1 <= PendingCapacity
      /\ PendingCapacity \in Nat
  BY CapacityAssumption DEF TakeOffer, MInv, TypeInv, RoomInv
<1>2. TypeInv'
  BY <1>1 DEF MInv, TypeInv
<1>3. EpochInv'
  <2>1. None \notin Later(ui.epoch)
    BY MediaAssumption DEF Later
  <2> QED
    BY <1>1, <2>1 DEF MInv, EpochInv
<1>4. RoomInv'
  <2>1. Len(pending) \in Nat
    BY <1>1
  <2> QED
    BY <1>1, <2>1 DEF RoomInv
<1>5. \A c \in Command : Carries(c) => Carries(c)'
  <2>1. \A g \in Fetcher : work'[g] = IF g = f THEN offer ELSE work[g]
    BY <1>1
  <2> QED
    BY <1>1, <2>1, MediaAssumption DEF Carries
<1> QED
  BY <1>1, <1>2, <1>3, <1>4, <1>5, LaneInv

\* What a fetcher worked on is told, unless it is a prefetch, which nobody awaits.
LEMMA FetchInv == ASSUME MInv, NEW f \in Fetcher, Fetch(f) PROVE MInv'
<1> PICK c : c = work[f]
  OBVIOUS
<1>1. /\ c \in Command /\ work' = [work EXCEPT ![f] = None]
      /\ work \in [Fetcher -> Command \cup {None}]
      /\ UNCHANGED <<ui, channel, pending, seen, offer>> /\ events \in Seq(Event)
      /\ ui \in Window
  BY DEF Fetch, MInv, TypeInv
<1>2. /\ events' \in Seq(Event)
      /\ \A W : Has(events, W) => Has(events', W)
      /\ c.kind # "prefetch" => Has(events', Telling(c.kind, c.id))
  <2>1. CASE c.kind = "prefetch"
    BY <1>1, <2>1 DEF Fetch
  <2>2. CASE c.kind # "prefetch"
    <3>1. PICK ok \in BOOLEAN : events' = Append(events, [kind |-> c.kind, id |-> c.id, ok |-> ok])
      BY <2>2 DEF Fetch
    <3>2. [kind |-> c.kind, id |-> c.id, ok |-> ok] \in Event
      BY <1>1, <2>2 DEF Command, Event
    <3>3. [kind |-> c.kind, id |-> c.id, ok |-> ok] \in Telling(c.kind, c.id)
      BY <3>2 DEF Telling
    <3>4. /\ events' \in Seq(Event)
          /\ \A W : Has(events', W) <=> Has(events, W)
                                       \/ [kind |-> c.kind, id |-> c.id, ok |-> ok] \in W
      BY <1>1, <3>1, <3>2, AppendHas
    <3> QED
      BY <3>3, <3>4
  <2> QED
    BY <2>1, <2>2
<1>3. TypeInv'
  BY <1>1, <1>2 DEF MInv, TypeInv
<1>4. EpochInv' /\ RoomInv'
  BY <1>1 DEF MInv, EpochInv, RoomInv
<1>5. \A x : Carries(x) => Carries(x)' \/ x = c
  <2>1. \A g \in Fetcher \ {f} : work'[g] = work[g]
    BY <1>1
  <2> QED
    BY <1>1, <2>1 DEF Carries
<1>6. \A kind, p : /\ Told(kind, p) => Told(kind, p)'
                   /\ Has(events', Telling(kind, p)) => Told(kind, p)'
  BY <1>1, <1>2, ToldIsQueued
<1>7. InflightIsCarried'
  <2>1. ASSUME NEW key \in ui.inflight
        PROVE  (Blade(key, ui.epoch) \in Commands)' \/ Told("blade", key)'
    <3>1. c = Blade(key, ui.epoch) => c.kind = "blade" /\ c.id = key
      BY DEF Blade
    <3> QED
      BY <1>1, <1>2, <1>5, <1>6, <3>1, CommandsAreCarried DEF MInv, InflightIsCarried
  <2>2. ASSUME NEW p \in ui.fullInflight
        PROVE  (Full(p) \in Commands)' \/ Told("full", p)'
    <3>1. c = Full(p) => c.kind = "full" /\ c.id = p
      BY DEF Full
    <3> QED
      BY <1>1, <1>2, <1>5, <1>6, <3>1, CommandsAreCarried DEF MInv, InflightIsCarried
  <2> QED
    BY <1>1, <2>1, <2>2 DEF InflightIsCarried
<1>8. FullIsProtected'
  BY <1>1 DEF MInv, FullIsProtected
<1> QED
  BY <1>3, <1>4, <1>7, <1>8 DEF MInv

\* The window stops waiting for what it is told, and for nothing else.
LEMMA DrainInv == ASSUME MInv, Drain PROVE MInv'
<1> PICK e : e = Head(events)
  OBVIOUS
<1>1. /\ events # <<>> /\ events \in Seq(Event) /\ events' = Tail(events)
      /\ UNCHANGED <<channel, pending, seen, offer, work>> /\ ui \in Window
      /\ ui' = CASE e.kind = "blade" -> ThumbLanded(ui, e.id, e.ok)
                 [] e.kind = "full"  -> FullLanded(ui, e.id, e.ok)
                 [] OTHER -> ui
  BY DEF Drain, MInv, TypeInv
<1>2. e \in Event /\ events' \in Seq(Event)
      /\ \A W : Has(events, W) <=> e \in W \/ Has(events', W)
  BY <1>1, TailHas
<1>3. \A kind, p : Told(kind, p) => Told(kind, p)' \/ (e.kind = kind /\ e.id = p)
  BY <1>1, <1>2, ToldIsQueued DEF Telling
<1>4. /\ ui' \in Window /\ ui'.epoch = ui.epoch
      /\ ui'.inflight = IF e.kind = "blade" THEN ui.inflight \ {e.id} ELSE ui.inflight
      /\ ui'.fullInflight = IF e.kind = "full" THEN ui.fullInflight \ {e.id} ELSE ui.fullInflight
      /\ ui'.residency = ui.residency /\ ui'.recent = ui.recent
      /\ ui'.full \subseteq ui.full \cup (ui.residency \cup ToSet(ui.recent))
  <2>1. CASE e.kind = "blade"
    <3>1. e.id \in Key
      BY <1>2, <2>1 DEF Event
    <3> DEFINE thumbs == IF e.ok THEN ui.thumbs \cup {e.id} ELSE ui.thumbs
               faults == IF e.ok THEN ui.faults \ {e.id} ELSE ui.faults \cup {e.id}
               inflight == ui.inflight \ {e.id}
    <3>2. ui' = [ui EXCEPT !.inflight = inflight, !.thumbs = thumbs, !.faults = faults]
      BY <1>1, <2>1 DEF ThumbLanded
    <3>3. thumbs \in SUBSET Key /\ faults \in SUBSET Key /\ inflight \in SUBSET Key
      BY <1>1, <3>1 DEF Window
    <3> HIDE DEF thumbs, faults, inflight
    <3>4. ui' \in Window
      BY <1>1, <3>2, <3>3 DEF Window
    <3>5. /\ ui'.epoch = ui.epoch /\ ui'.inflight = inflight
          /\ ui'.fullInflight = ui.fullInflight /\ ui'.full = ui.full
          /\ ui'.residency = ui.residency /\ ui'.recent = ui.recent
      BY <1>1, <3>2 DEF Window
    <3> QED
      BY <2>1, <3>4, <3>5 DEF inflight
  <2>2. CASE e.kind = "full"
    <3>1. e.id \in Post
      BY <1>2, <2>2 DEF Event
    <3> DEFINE full == IF e.ok /\ e.id \in ui.residency \cup ToSet(ui.recent)
                       THEN ui.full \cup {e.id} ELSE ui.full
               faults == IF e.ok THEN ui.fullFaults \ {e.id} ELSE ui.fullFaults \cup {e.id}
               inflight == ui.fullInflight \ {e.id}
    <3>2. ui' = [ui EXCEPT !.fullInflight = inflight, !.full = full, !.fullFaults = faults]
      BY <1>1, <2>2 DEF FullLanded
    <3>3. /\ full \in SUBSET Post /\ faults \in SUBSET Post /\ inflight \in SUBSET Post
          /\ full \subseteq ui.full \cup (ui.residency \cup ToSet(ui.recent))
      BY <1>1, <3>1 DEF Window
    <3> HIDE DEF full, faults, inflight
    <3>4. ui' \in Window
      BY <1>1, <3>2, <3>3 DEF Window
    <3>5. /\ ui'.epoch = ui.epoch /\ ui'.inflight = ui.inflight
          /\ ui'.fullInflight = inflight /\ ui'.full = full
          /\ ui'.residency = ui.residency /\ ui'.recent = ui.recent
      BY <1>1, <3>2 DEF Window
    <3> QED
      BY <2>2, <3>3, <3>4, <3>5 DEF inflight
  <2>3. CASE e.kind \notin {"blade", "full"}
    BY <1>1, <2>3
  <2> QED
    BY <2>1, <2>2, <2>3
<1>5. TypeInv' /\ EpochInv' /\ RoomInv'
  BY <1>1, <1>2, <1>4 DEF MInv, TypeInv, EpochInv, RoomInv
<1>6. \A x : Carries(x) => Carries(x)'
  BY <1>1 DEF Carries
<1>7. InflightIsCarried'
  <2>1. ASSUME NEW key \in ui'.inflight
        PROVE  (Blade(key, ui.epoch) \in Commands)' \/ Told("blade", key)'
    <3>1. key \in ui.inflight /\ ~(e.kind = "blade" /\ e.id = key)
      BY <1>4, <2>1
    <3> QED
      BY <1>3, <1>4, <1>6, <3>1, CommandsAreCarried DEF MInv, InflightIsCarried
  <2>2. ASSUME NEW p \in ui'.fullInflight
        PROVE  (Full(p) \in Commands)' \/ Told("full", p)'
    <3>1. p \in ui.fullInflight /\ ~(e.kind = "full" /\ e.id = p)
      BY <1>4, <2>2
    <3> QED
      BY <1>3, <1>6, <3>1, CommandsAreCarried DEF MInv, InflightIsCarried
  <2> QED
    BY <2>1, <2>2 DEF InflightIsCarried
<1>8. FullIsProtected'
  BY <1>4 DEF MInv, FullIsProtected
<1> QED
  BY <1>5, <1>7, <1>8 DEF MInv

-----------------------------------------------------------------------------
(* The theorems                                                            *)

\* Nothing asked, nothing told.
LEMMA InitInv == ASSUME Init PROVE MInv
<1>1. /\ channel = <<>> /\ pending = <<>> /\ seen = 0 /\ offer = None /\ events = <<>>
      /\ work = [f \in Fetcher |-> None]
      /\ ui.epoch = 0 /\ ui.inflight = {} /\ ui.fullInflight = {} /\ ui.full = {}
  BY DEF Init
<1>2. ui \in Window
  <2>1. <<>> \in Seq(Post)
    OBVIOUS
  <2> QED
    BY <2>1 DEF Init, Window, Bucket
<1>3. \A S : <<>> \in Seq(S)
  OBVIOUS
<1>4. TypeInv
  BY <1>1, <1>2, <1>3 DEF TypeInv
<1>5. EpochInv /\ RoomInv
  <2>1. None \notin Later(0) /\ \A W : ~Has(<<>>, W)
    BY MediaAssumption, EmptyHasNone DEF Later
  <2> QED
    BY <1>1, <2>1, CapacityAssumption DEF EpochInv, RoomInv
<1>6. InflightIsCarried /\ FullIsProtected
  BY <1>1 DEF InflightIsCarried, FullIsProtected
<1> QED
  BY <1>4, <1>5, <1>6 DEF MInv

\* Every step keeps the invariant.
LEMMA StepInv == ASSUME MInv, [Next]_vars PROVE MInv'
<1>1. CASE \E wall \in SUBSET Post : ChangeWall(wall)
  BY <1>1, ChangeWallInv
<1>2. CASE Zoom \/ SaveFull \/ CloseViewer \/ FullFrame
  BY <1>2, ZoomInv, SaveInv, ViewerInv, FrameInv
<1>3. CASE \E p \in Post : ArmThumb(p) \/ PrefetchPost(p) \/ OpenFull(p)
  BY <1>3, ArmInv, PrefetchInv, ViewerInv
<1>4. CASE NextCommand \/ OfferTimesOut
  BY <1>4, NextCommandInv, TimesOutInv
<1>5. CASE \E f \in Fetcher : TakeOffer(f) \/ Fetch(f)
  BY <1>5, TakeInv, FetchInv
<1>6. CASE Drain
  BY <1>6, DrainInv
<1>7. CASE UNCHANGED vars
  <2>1. UNCHANGED <<ui, channel, pending, seen, offer, work, events>>
    BY <1>7 DEF vars
  <2>2. TypeInv' /\ EpochInv' /\ RoomInv'
    BY <2>1 DEF MInv, TypeInv, EpochInv, RoomInv
  <2>3. \A c \in Command : Carries(c) => Carries(c)'
    BY <2>1 DEF Carries
  <2> QED
    BY <2>1, <2>2, <2>3, LaneInv
<1> QED
  BY <1>1, <1>2, <1>3, <1>4, <1>5, <1>6, <1>7 DEF Next

\* The inductive invariant: no command is ahead of the window's epoch, the
\* dispatcher's queue keeps room for the command a saturated pool sends back, what
\* the window waits for is under way, and what it holds is protected.
THEOREM Invariance == Spec => []MInv
<1>1. Init => MInv
  BY InitInv
<1>2. MInv /\ [Next]_vars => MInv'
  BY StepInv
<1> QED
  BY <1>1, <1>2, PTL DEF Spec

\* A thumbnail or full image the window waits for is under way, whatever is
\* culled, refused, sent back or overtaken meanwhile.
THEOREM AwaitedIsCarried == Spec => []InflightIsCarried
<1>1. MInv => InflightIsCarried
  BY DEF MInv
<1> QED
  BY <1>1, Invariance, PTL

\* Answers that land late never fill the memory with images nothing protects.
THEOREM HeldIsProtected == Spec => []FullIsProtected
<1>1. MInv => FullIsProtected
  BY DEF MInv
<1> QED
  BY <1>1, Invariance, PTL
=============================================================================
