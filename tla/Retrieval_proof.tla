-------------------------- MODULE Retrieval_proof --------------------------
(***************************************************************************)
(* Proofs about Retrieval, for every set of views, every capacity and      *)
(* every bound: the wall shows what is asked for, and one search runs.     *)
(***************************************************************************)
EXTENDS Retrieval, Queue_proof

Window ==
    [view : View, favs : 0..MaxFavs, horizon : 0..MaxLevel, pending : BOOLEAN,
     pulse : Pulse, serial : Nat, shown : [key : View, hit : Hit \cup {None}],
     parked : Posted \cup {None}, cache : Seq(Posted),
     open : SUBSET {"menu", "viewer"}, dropped : BOOLEAN]

TypeInv ==
    /\ ui \in Window /\ Len(ui.cache) <= CacheCap
    /\ gate \in [since : 0..Gap, stale : BOOLEAN]
    /\ commands \in Seq(Command) /\ Len(commands) <= 1
    /\ job \in Job \cup {None}
    /\ events \in Seq(Event) /\ Len(events) <= EventCap
    /\ stock \in 0..MaxStock /\ owed \in BOOLEAN /\ heard \in 0..stock

Answered == {e \in Event : e.kind = "answer"}
News == {e \in Event : e.kind = "news"}

\* The requests that news may still make: its events, the one it is owed, and the
\* trailing edge of the gate.  Each takes an absorb of its own.
Nudges == Tally(events, News) + (IF owed THEN 1 ELSE 0) + (IF gate.stale THEN 1 ELSE 0)

BudgetInv ==
    /\ Nudges <= stock
    /\ ui.serial + Nudges <= MaxSerial + ui.horizon + stock

\* No news is ahead of the index.
Ahead(n) == {e \in Event : e.kind = "news" /\ e.stock > n}
NewsInv == ~Has(events, Ahead(stock))

\* Where the one search of a pulse is: in the lane, with the thread, in the channel.
Stray(n) == {e \in Event : e.kind = "answer" /\ e.serial # n}
OneInv ==
    /\ Sole(events, Answered)
    /\ ui.pulse.state = "idle" <=> commands = <<>> /\ job = None /\ ~Has(events, Answered)
    /\ commands # <<>> => job = None /\ ~Has(events, Answered)
    /\ job # None => ~Has(events, Answered)
    /\ \A i \in DOMAIN commands : commands[i].serial = ui.pulse.serial
    /\ job # None => job.cmd.serial = ui.pulse.serial
    /\ ~Has(events, Stray(ui.pulse.serial))

\* What the search of a pulse that did not turn dirty asks is what is asked now.
Question(u) == [serial |-> u.serial, view |-> u.view, favs |-> u.favs, level |-> u.horizon]
Apt(u, e) ==
    /\ e.serial = u.serial
    /\ e.hit # None => /\ e.hit.view = u.view /\ e.hit.favs = u.favs
                       /\ e.hit.level = u.horizon /\ e.hit.whole
Inapt(u) == {e \in Event : e.kind = "answer" /\ ~Apt(u, e)}
\* An answer older than the news that was heard, and searched before it.
Behind(n) == {e \in Event : e.kind = "answer" /\ e.hit # None /\ e.hit.stock < n}

CarryInv ==
    ui.pulse.state = "inflight" =>
        /\ \A i \in DOMAIN commands : commands[i] = Question(ui)
        /\ job # None => job.cmd = Question(ui)
        /\ ~Has(events, Inapt(ui))
        /\ ~gate.stale => /\ job # None /\ job.stage = "read" => job.stock >= heard
                          /\ ~Has(events, Behind(heard))

\* The wall, the hits remembered and the hit parked.
Misfiled(favs) == {e \in Posted : e.hit.view # e.key \/ e.hit.favs # favs}
Filed(u) ==
    /\ u.shown.hit # None => u.shown.hit.view = u.shown.key /\ u.shown.hit.favs = u.favs
    /\ ~Has(u.cache, Misfiled(u.favs))
Current(u) ==
    u.parked # None => /\ u.open # {}
                       /\ u.parked.key = u.view
                       /\ u.parked.hit.view = u.view
                       /\ u.parked.hit.favs = u.favs

RInv ==
    /\ TypeInv
    /\ BudgetInv
    /\ NewsInv
    /\ OneInv
    /\ CarryInv
    /\ Filed(ui)
    /\ Current(ui)
    /\ QuietIsSettled

-----------------------------------------------------------------------------
(* The hit cache                                                           *)

\* The slot of a key the cache has is that of its entry.
LEMMA SlotFacts ==
  ASSUME NEW cache \in Seq(Posted), NEW key, Caches(cache, key)
  PROVE  /\ Slot(cache, key) \in 1 .. Len(cache)
         /\ cache[Slot(cache, key)] \in Posted
         /\ cache[Slot(cache, key)].key = key
<1>1. PICK i \in DOMAIN cache : cache[i].key = key
  BY DEF Caches
<1>2. Slot(cache, key) \in DOMAIN cache /\ cache[Slot(cache, key)].key = key
  BY <1>1 DEF Slot
<1> QED
  BY <1>2

\* A cache without a key has one entry fewer, and none that it had not.
LEMMA WithoutFacts ==
  ASSUME NEW cache \in Seq(Posted), NEW key
  PROVE  /\ Without(cache, key) \in Seq(Posted)
         /\ Len(Without(cache, key)) <= Len(cache)
         /\ Caches(cache, key) => Len(Without(cache, key)) = Len(cache) - 1
         /\ \A W : Has(Without(cache, key), W) => Has(cache, W)
<1>1. CASE ~Caches(cache, key)
  BY <1>1 DEF Without
<1>2. CASE Caches(cache, key)
  <2>1. Slot(cache, key) \in 1 .. Len(cache)
    BY <1>2, SlotFacts
  <2>2. Without(cache, key) = SubSeq(cache, 1, Slot(cache, key) - 1)
                                \o SubSeq(cache, Slot(cache, key) + 1, Len(cache))
    BY <1>2 DEF Without, RemoveAt
  <2>3. /\ Without(cache, key) \in Seq(Posted)
        /\ Len(Without(cache, key)) = Len(cache) - 1
        /\ \A W : Has(Without(cache, key), W) => Has(cache, W)
    <3> DEFINE k == Slot(cache, key)
    <3>1. k \in 1 .. Len(cache)
      BY <2>1
    <3> HIDE DEF k
    <3>2. /\ SubSeq(cache, 1, k - 1) \o SubSeq(cache, k + 1, Len(cache)) \in Seq(Posted)
          /\ Len(SubSeq(cache, 1, k - 1) \o SubSeq(cache, k + 1, Len(cache))) = Len(cache) - 1
          /\ \A W : Has(SubSeq(cache, 1, k - 1) \o SubSeq(cache, k + 1, Len(cache)), W)
                      => Has(cache, W)
      BY <3>1, WithoutHas
    <3> QED
      BY <2>2, <3>2 DEF k
  <2>4. Len(cache) - 1 <= Len(cache)
    OBVIOUS
  <2> QED
    BY <1>2, <2>3, <2>4
<1> QED
  BY <1>1, <1>2

\* An entry put before a queue.
LEMMA ConsFacts ==
  ASSUME NEW x \in Posted, NEW s \in Seq(Posted)
  PROVE  /\ <<x>> \o s \in Seq(Posted) /\ Len(<<x>> \o s) = Len(s) + 1
         /\ \A W : Has(<<x>> \o s, W) <=> x \in W \/ Has(s, W)
<1>1. <<x>> \in Seq(Posted) /\ Len(<<x>>) = 1 /\ Len(s) \in Nat
  OBVIOUS
<1>2. \A W : Has(<<x>>, W) <=> x \in W
  BY SingleHas
<1> HIDE DEF Posted
<1>3. <<x>> \o s \in Seq(Posted) /\ Len(<<x>> \o s) = Len(<<x>>) + Len(s)
  BY <1>1, ConcatType
<1>4. \A W : Has(<<x>> \o s, W) <=> Has(<<x>>, W) \/ Has(s, W)
  BY <1>1, ConcatHas
<1> QED
  BY <1>1, <1>2, <1>3, <1>4

\* HitCache::put keeps its limit, and only what was there or is put.
LEMMA PutFacts ==
  ASSUME NEW cache \in Seq(Posted), Len(cache) <= CacheCap,
         NEW key \in View, NEW hit \in Hit \cup {None}
  PROVE  /\ Put(cache, key, hit) \in Seq(Posted)
         /\ Len(Put(cache, key, hit)) <= CacheCap
         /\ \A W : Has(Put(cache, key, hit), W)
                     => Has(cache, W) \/ (hit # None /\ [key |-> key, hit |-> hit] \in W)
<1>1. CASE hit = None
  BY <1>1 DEF Put
<1>2. CASE hit # None
  <2> DEFINE old == cache[Slot(cache, key)]
             kept == IF Caches(cache, key) /\ old.hit.level > hit.level THEN old.hit ELSE hit
             top == [key |-> key, hit |-> kept]
             all == <<top>> \o Without(cache, key)
             n == IF Len(all) > CacheCap THEN CacheCap ELSE Len(all)
  <2>1. Put(cache, key, hit) = SubSeq(all, 1, n)
    BY <1>2 DEF Put
  <2>2. top \in Posted /\ \A W : top \in W => Has(cache, W) \/ [key |-> key, hit |-> hit] \in W
    <3>1. CASE Caches(cache, key) /\ old.hit.level > hit.level
      <4>1. Slot(cache, key) \in DOMAIN cache /\ old \in Posted /\ old.key = key
        BY <3>1, SlotFacts
      <4>2. top = old
        <5>1. top = [key |-> key, hit |-> old.hit]
          BY <3>1
        <5>2. old = [key |-> old.key, hit |-> old.hit]
          BY <4>1 DEF Posted
        <5> QED
          BY <4>1, <5>1, <5>2
      <4> QED
        BY <4>1, <4>2 DEF Has
    <3>2. CASE ~(Caches(cache, key) /\ old.hit.level > hit.level)
      <4>1. top = [key |-> key, hit |-> hit] /\ hit \in Hit
        BY <1>2, <3>2
      <4> QED
        BY <4>1 DEF Posted
    <3> QED
      BY <3>1, <3>2
  <2>3. Without(cache, key) \in Seq(Posted) /\ \A W : Has(Without(cache, key), W) => Has(cache, W)
    BY WithoutFacts
  <2> HIDE DEF top
  <2>4. all \in Seq(Posted) /\ \A W : Has(all, W) => top \in W \/ Has(cache, W)
    BY <2>2, <2>3, ConsFacts
  <2> HIDE DEF all
  <2>5. n \in 0 .. Len(all) /\ n <= CacheCap
    BY <2>4, RetrievalAssumption
  <2> HIDE DEF n
  <2>6. /\ SubSeq(all, 1, n) \in Seq(Posted) /\ Len(SubSeq(all, 1, n)) = n
        /\ \A W : Has(SubSeq(all, 1, n), W) => Has(all, W)
    BY <2>4, <2>5, CutHas
  <2> QED
    BY <1>2, <2>1, <2>2, <2>4, <2>5, <2>6
<1> QED
  BY <1>1, <1>2

-----------------------------------------------------------------------------
(* Requests                                                                *)

\* An entry of a smaller set is one of the larger.
LEMMA HasSubset ==
  ASSUME NEW s, NEW V, NEW W, V \subseteq W, Has(s, V)
  PROVE  Has(s, W)
BY DEF Has

\* Stray, late and inapt answers are answers.
LEMMA AnswerKinds ==
  /\ \A n : Stray(n) \subseteq Answered /\ Behind(n) \subseteq Answered
  /\ \A u : Inapt(u) \subseteq Answered
BY DEF Stray, Behind, Inapt, Answered

\* What is neither the window's nor the search's.
Outside ==
    /\ gate \in [since : 0..Gap, stale : BOOLEAN]
    /\ events \in Seq(Event) /\ Len(events) <= EventCap
    /\ stock \in 0..MaxStock /\ owed \in BOOLEAN /\ heard \in 0..stock
    /\ Nudges <= stock
    /\ NewsInv

\* The invariant says of what is outside the window all that its steps need.
LEMMA OutsideHolds ==
  RInv => Outside
BY DEF RInv, TypeInv, BudgetInv, Outside

\* What a window asks is a command.
LEMMA QuestionType ==
  ASSUME NEW u \in Window
  PROVE  Question(u) \in Command
BY DEF Question, Window, Command

\* A send when nothing is under way.
LEMMA DispatchInv ==
  ASSUME NEW v \in Window, Len(v.cache) <= CacheCap, Filed(v), Current(v), Dispatch(v),
         commands = <<>>, job' = None, ~Has(events', Answered), Outside',
         v.serial + Nudges' <= MaxSerial + v.horizon + stock'
  PROVE  RInv'
<1>1. ~Has(events', Answered) /\ Sole(events', Answered)
  BY DEF Sole, Has
<1>2. /\ \A n : ~Has(events', Stray(n)) /\ ~Has(events', Behind(n))
      /\ \A u : ~Has(events', Inapt(u))
  BY AnswerKinds, HasSubset
<1>3. job' \in Job \cup {None}
  OBVIOUS
<1>4. CASE /\ ui' = [v EXCEPT !.pulse = [state |-> "inflight", serial |-> v.serial],
                              !.dropped = FALSE]
           /\ commands' = Append(commands, Question(v))
  <2> DEFINE pulse == [state |-> "inflight", serial |-> v.serial]
  <2>1. pulse \in Pulse /\ pulse.state = "inflight" /\ pulse.serial = v.serial
    BY DEF Pulse, Window
  <2> HIDE DEF pulse
  <2>2. /\ ui' \in Window /\ ui'.pulse = pulse /\ ui'.serial = v.serial
        /\ ui'.view = v.view /\ ui'.favs = v.favs /\ ui'.horizon = v.horizon
        /\ ui'.cache = v.cache /\ ui'.shown = v.shown /\ ui'.parked = v.parked
        /\ ui'.open = v.open
    BY <1>4, <2>1 DEF Window, pulse
  <2>3. /\ commands' \in Seq(Command) /\ Len(commands') = 1 /\ commands' # <<>>
        /\ \A i \in DOMAIN commands' : commands'[i] = Question(v)
    <3> DEFINE q == Question(v)
    <3>1. q \in Command
      BY QuestionType
    <3> HIDE DEF q
    <3>2. commands' = <<q>>
      BY <1>4 DEF q
    <3> QED
      BY <3>1, <3>2 DEF q
  <2>4. Question(v).serial = v.serial /\ Question(ui') = Question(v)
    BY <2>2 DEF Question
  <2>5. TypeInv'
    BY <1>3, <2>2, <2>3 DEF TypeInv, Outside
  <2>6. BudgetInv' /\ NewsInv'
    BY <2>2 DEF BudgetInv, Outside
  <2>7. OneInv'
    BY <1>1, <1>2, <2>1, <2>2, <2>3, <2>4 DEF OneInv
  <2>8. CarryInv'
    BY <1>2, <2>3, <2>4 DEF CarryInv
  <2>9. Filed(ui)' /\ Current(ui)' /\ QuietIsSettled'
    BY <2>1, <2>2 DEF Filed, Current, QuietIsSettled
  <2> QED
    BY <2>5, <2>6, <2>7, <2>8, <2>9 DEF RInv
<1>5. CASE ui' = [v EXCEPT !.pulse = Idle, !.dropped = TRUE] /\ UNCHANGED commands
  <2> DEFINE pulse == Idle
  <2>1. pulse \in Pulse /\ pulse.state = "idle"
    BY DEF Pulse, Idle
  <2> HIDE DEF pulse
  <2>2. /\ ui' \in Window /\ ui'.pulse = pulse /\ ui'.serial = v.serial
        /\ ui'.view = v.view /\ ui'.favs = v.favs /\ ui'.horizon = v.horizon
        /\ ui'.cache = v.cache /\ ui'.shown = v.shown /\ ui'.parked = v.parked
        /\ ui'.open = v.open /\ ui'.dropped
    BY <1>5, <2>1 DEF Window, pulse
  <2>3. commands' = <<>> /\ commands' \in Seq(Command) /\ Len(commands') <= 1
    BY <1>5
  <2>4. TypeInv'
    BY <1>3, <2>2, <2>3 DEF TypeInv, Outside
  <2>5. BudgetInv' /\ NewsInv'
    BY <2>2 DEF BudgetInv, Outside
  <2>6. OneInv' /\ CarryInv'
    BY <1>1, <1>2, <2>1, <2>2, <2>3 DEF OneInv, CarryInv
  <2>7. Filed(ui)' /\ Current(ui)' /\ QuietIsSettled'
    BY <2>1, <2>2 DEF Filed, Current, QuietIsSettled
  <2> QED
    BY <2>4, <2>5, <2>6, <2>7 DEF RInv
<1> QED
  BY <1>4, <1>5 DEF Dispatch, Question

\* A request: sent when the pulse is idle, coalesced into a dirty one when not.
LEMMA RequestInv ==
  ASSUME RInv, NEW v \in Window, Len(v.cache) <= CacheCap, Filed(v), Current(v),
         v.pulse = ui.pulse, Request(v), job' = job, Outside',
         Sole(events', Answered), Has(events', Answered) <=> Has(events, Answered),
         \A n : Has(events', Stray(n)) => Has(events, Stray(n)),
         v.serial + 1 + Nudges' <= MaxSerial + v.horizon + stock'
  PROVE  RInv'
<1> DEFINE next == v.serial + 1
           w == [v EXCEPT !.serial = next]
<1>1. next \in Nat
  BY DEF Window
<1>2. next + Nudges' <= MaxSerial + v.horizon + stock'
  OBVIOUS
<1>3. [v EXCEPT !.serial = @ + 1] = w
  BY DEF Window
<1> HIDE DEF next
<1>4. /\ w \in Window /\ w.pulse = ui.pulse /\ w.serial = next
      /\ w.view = v.view /\ w.favs = v.favs /\ w.horizon = v.horizon
      /\ w.cache = v.cache /\ w.shown = v.shown /\ w.parked = v.parked
      /\ w.open = v.open
  BY <1>1 DEF Window
<1>5. Filed(w) /\ Current(w) /\ Len(w.cache) <= CacheCap
  BY <1>4 DEF Filed, Current
<1>6. CASE v.pulse.state = "idle"
  <2>1. commands = <<>> /\ job' = None /\ ~Has(events', Answered)
    BY <1>6 DEF RInv, OneInv
  <2>2. Dispatch(w)
    BY <1>3, <1>6 DEF Request
  <2>3. w.serial + Nudges' <= MaxSerial + w.horizon + stock'
    BY <1>2, <1>4
  <2> HIDE DEF w
  <2> QED
    BY <1>4, <1>5, <2>1, <2>2, <2>3, DispatchInv
<1>7. CASE v.pulse.state # "idle"
  <2>1. ui' = [w EXCEPT !.pulse.state = "dirty"] /\ commands' = commands
    BY <1>3, <1>7 DEF Request
  <2> HIDE DEF w
  <2> DEFINE pulse == [w.pulse EXCEPT !.state = "dirty"]
  <2>2. pulse \in Pulse /\ pulse.state = "dirty" /\ pulse.serial = ui.pulse.serial
    BY <1>4 DEF Pulse, Window
  <2> HIDE DEF pulse
  <2>3. /\ ui' \in Window /\ ui'.pulse = pulse /\ ui'.serial = w.serial
        /\ ui'.view = w.view /\ ui'.favs = w.favs /\ ui'.horizon = w.horizon
        /\ ui'.cache = w.cache /\ ui'.shown = w.shown /\ ui'.parked = w.parked
        /\ ui'.open = w.open
    BY <1>4, <2>1, <2>2 DEF Window, pulse
  <2>4. ui.pulse.state # "idle"
    BY <1>7
  <2>5. TypeInv'
    BY <1>5, <2>1, <2>3 DEF TypeInv, Outside, RInv
  <2>6. BudgetInv' /\ NewsInv'
    BY <1>2, <1>4, <2>3 DEF BudgetInv, Outside
  <2>7. OneInv'
    BY <2>1, <2>2, <2>3, <2>4 DEF OneInv, RInv
  <2>8. CarryInv' /\ QuietIsSettled'
    BY <2>2, <2>3 DEF CarryInv, QuietIsSettled
  <2>9. Filed(ui)' /\ Current(ui)'
    BY <1>5, <2>3 DEF Filed, Current
  <2> QED
    BY <2>5, <2>6, <2>7, <2>8, <2>9 DEF RInv
<1> QED
  BY <1>6, <1>7

-----------------------------------------------------------------------------
(* The user                                                                *)

\* The fields of a hit.
LEMMA HitFields ==
  ASSUME NEW h \in Hit
  PROVE  /\ h.view \in View /\ h.level \in 0..MaxLevel /\ h.favs \in 0..MaxFavs
         /\ h.stock \in 0..MaxStock /\ h.whole \in BOOLEAN /\ h # None
BY NoneAssumption DEF Hit

\* The user's steps leave the channel and the index alone.
LEMMA UserRequest ==
  ASSUME RInv, NEW v \in Window, Len(v.cache) <= CacheCap, Filed(v), Current(v),
         v.pulse = ui.pulse, v.serial = ui.serial, Request(v), UNCHANGED outside,
         \/ ui.serial < MaxSerial
         \/ ui.horizon + 1 <= v.horizon
  PROVE  RInv'
<1>1. Outside /\ Outside'
  BY OutsideHolds DEF outside, Outside, Nudges, NewsInv
<1>2. /\ Nudges' = Nudges /\ stock' = stock /\ Nudges \in Nat /\ stock \in Nat
      /\ ui.serial \in Nat /\ ui.horizon \in Nat /\ v.horizon \in Nat /\ MaxSerial \in Nat
  <2>1. Tally(events, News) \in Nat
    BY <1>1, TallyType DEF Outside
  <2>2. ui \in Window
    BY DEF RInv, TypeInv
  <2>3. MaxSerial \in Nat /\ MaxLevel \in Nat /\ MaxStock \in Nat
    BY RetrievalAssumption
  <2> QED
    BY <1>1, <2>1, <2>2, <2>3 DEF outside, Nudges, Outside, Window
<1>3. Nudges <= stock /\ ui.serial + Nudges <= MaxSerial + ui.horizon + stock
  BY DEF RInv, BudgetInv
<1>4. v.serial + 1 + Nudges' <= MaxSerial + v.horizon + stock'
  <2>1. \A serial, horizon, deeper, n, k, max \in Nat :
          /\ n <= k /\ serial + n <= max + horizon + k
          /\ serial < max \/ horizon + 1 <= deeper
          => serial + 1 + n <= max + deeper + k
    OBVIOUS
  <2>2. ui.serial + 1 + Nudges <= MaxSerial + v.horizon + stock
    BY <1>2, <1>3, <2>1
  <2> QED
    BY <1>2, <2>2
<1>5. Sole(events', Answered) /\ events' = events /\ job' = job
  BY DEF RInv, OneInv, outside
<1> QED
  BY <1>1, <1>4, <1>5, RequestInv

\* Filing the shown hit keeps the cache within its capacity, and each hit under its key.
LEMMA RememberedFacts ==
  ASSUME NEW u \in Window, Len(u.cache) <= CacheCap, Filed(u)
  PROVE  /\ Remembered(u) \in Window /\ Len(Remembered(u).cache) <= CacheCap
         /\ Filed(Remembered(u))
         /\ Remembered(u).pulse = u.pulse /\ Remembered(u).serial = u.serial
<1> DEFINE cache == Put(u.cache, u.shown.key, u.shown.hit)
<1>1. u.cache \in Seq(Posted) /\ u.shown.key \in View /\ u.shown.hit \in Hit \cup {None}
  BY DEF Window
<1>2. /\ cache \in Seq(Posted) /\ Len(cache) <= CacheCap
      /\ Has(cache, Misfiled(u.favs))
           => \/ Has(u.cache, Misfiled(u.favs))
              \/ /\ u.shown.hit # None
                 /\ [key |-> u.shown.key, hit |-> u.shown.hit] \in Misfiled(u.favs)
  BY <1>1, PutFacts
<1>3. ~Has(cache, Misfiled(u.favs))
  BY <1>2 DEF Filed, Misfiled
<1>4. Remembered(u) = [u EXCEPT !.cache = cache]
  BY DEF Remembered, Window
<1> HIDE DEF cache
<1>5. /\ Remembered(u) \in Window /\ Remembered(u).cache = cache /\ Remembered(u).pulse = u.pulse
      /\ Remembered(u).serial = u.serial /\ Remembered(u).favs = u.favs
      /\ Remembered(u).shown = u.shown
  BY <1>2, <1>4 DEF Window
<1> QED
  BY <1>2, <1>3, <1>5 DEF Filed

\* restore_hit leaves nothing parked, and only shows what was filed.
LEMMA RestoredFacts ==
  ASSUME NEW u \in Window, Len(u.cache) <= CacheCap, Filed(u)
  PROVE  /\ Restored(u) \in Window /\ Len(Restored(u).cache) <= CacheCap
         /\ Filed(Restored(u)) /\ Restored(u).parked = None
         /\ Restored(u).pulse = u.pulse /\ Restored(u).serial = u.serial
<1> DEFINE w == RestoredKeepingParked(u)
<1>1. /\ w \in Window /\ Len(w.cache) <= CacheCap /\ Filed(w)
      /\ w.pulse = u.pulse /\ w.serial = u.serial
  <2>1. CASE ~Caches(u.cache, u.view)
    BY <2>1 DEF RestoredKeepingParked
  <2>2. CASE Caches(u.cache, u.view)
    <3> DEFINE found == u.cache[Slot(u.cache, u.view)]
               cache == <<found>> \o Without(u.cache, u.view)
               horizon == Larger(u.horizon, found.hit.level)
    <3>1. u.cache \in Seq(Posted) /\ u.horizon \in 0..MaxLevel
      BY DEF Window
    <3>2. found \in Posted /\ found.key = u.view /\ Slot(u.cache, u.view) \in DOMAIN u.cache
      BY <2>2, <3>1, SlotFacts
    <3>3. found \notin Misfiled(u.favs)
      BY <3>2 DEF Filed, Has
    <3>4. /\ found.hit \in Hit /\ found.hit.view = found.key /\ found.hit.favs = u.favs
          /\ found \in [key : View, hit : Hit \cup {None}]
      BY <3>2, <3>3 DEF Misfiled, Posted
    <3>5. /\ Without(u.cache, u.view) \in Seq(Posted)
          /\ Len(Without(u.cache, u.view)) = Len(u.cache) - 1
          /\ \A W : Has(Without(u.cache, u.view), W) => Has(u.cache, W)
      BY <2>2, <3>1, WithoutFacts
    <3>6. horizon \in 0..MaxLevel
      BY <3>1, <3>4, HitFields DEF Larger
    <3> DEFINE seen == found
    <3>7. w = [u EXCEPT !.horizon = horizon, !.cache = cache, !.shown = seen]
      BY <2>2, <3>1 DEF RestoredKeepingParked, Window
    <3> HIDE DEF seen, horizon
    <3>8. cache \in Seq(Posted) /\ Len(cache) = (Len(u.cache) - 1) + 1
          /\ (Has(cache, Misfiled(u.favs)) => \/ found \in Misfiled(u.favs)
                                              \/ Has(u.cache, Misfiled(u.favs)))
      BY <3>2, <3>5, ConsFacts
    <3>9. Len(cache) <= CacheCap /\ ~Has(cache, Misfiled(u.favs))
      <4>1. Len(u.cache) \in Nat /\ (Len(u.cache) - 1) + 1 = Len(u.cache)
        BY <3>1
      <4> QED
        BY <3>3, <3>8, <4>1 DEF Filed
    <3> HIDE DEF cache, w
    <3>10. /\ w \in Window /\ w.cache = cache /\ w.shown = seen /\ w.favs = u.favs
           /\ w.pulse = u.pulse /\ w.serial = u.serial
      BY <3>4, <3>6, <3>7, <3>8 DEF Window, seen
    <3> QED
      BY <3>4, <3>9, <3>10 DEF Filed, seen
  <2> QED
    BY <2>1, <2>2
<1>2. Restored(u) = [w EXCEPT !.parked = None]
  BY DEF Restored
<1> HIDE DEF w
<1>3. /\ Restored(u) \in Window /\ Restored(u).cache = w.cache /\ Restored(u).shown = w.shown
      /\ Restored(u).favs = w.favs /\ Restored(u).parked = None
      /\ Restored(u).pulse = w.pulse /\ Restored(u).serial = w.serial
  BY <1>1, <1>2 DEF Window
<1> QED
  BY <1>1, <1>3 DEF Filed

\* A change of view shows what is cached and asks anew.
LEMMA ChangeViewInv ==
  ASSUME RInv, NEW view \in View, ChangeView(view)
  PROVE  RInv'
<1> DEFINE r == Remembered(ui)
           asked == [r EXCEPT !.view = view, !.horizon = 0, !.pending = FALSE]
           u == Restored(asked)
           thinned == [u EXCEPT !.shown.hit.whole = FALSE]
           thins == view = Favorites /\ u.shown.key # Favorites /\ u.shown.hit # None
<1>1. /\ ui.serial < MaxSerial
      /\ Request(IF thins THEN thinned ELSE u)
      /\ UNCHANGED outside
  BY DEF ChangeView
<1>2. ui \in Window /\ Len(ui.cache) <= CacheCap /\ Filed(ui)
  BY DEF RInv, TypeInv
<1>3. /\ r \in Window /\ Len(r.cache) <= CacheCap /\ Filed(r)
      /\ r.pulse = ui.pulse /\ r.serial = ui.serial
  BY <1>2, RememberedFacts
<1> HIDE DEF r
<1>4. /\ asked \in Window /\ asked.cache = r.cache /\ asked.shown = r.shown
      /\ asked.favs = r.favs /\ asked.pulse = ui.pulse /\ asked.serial = ui.serial
  <2>1. 0 \in 0..MaxLevel
    BY RetrievalAssumption
  <2> QED
    BY <1>3, <2>1 DEF Window
<1> HIDE DEF asked
<1>5. Filed(asked) /\ Len(asked.cache) <= CacheCap
  BY <1>3, <1>4 DEF Filed
<1>6. /\ u \in Window /\ Len(u.cache) <= CacheCap /\ Filed(u) /\ u.parked = None
      /\ u.pulse = ui.pulse /\ u.serial = ui.serial
  BY <1>4, <1>5, RestoredFacts
<1> HIDE DEF u
<1>7. CASE thins
  <2> DEFINE hit == [u.shown.hit EXCEPT !.whole = FALSE]
             shown == [u.shown EXCEPT !.hit = hit]
  <2>1. u.shown \in [key : View, hit : Hit \cup {None}] /\ u.shown.hit \in Hit
    BY <1>6, <1>7 DEF Window
  <2>2. hit \in Hit /\ hit.view = u.shown.hit.view /\ hit.favs = u.shown.hit.favs
    BY <2>1 DEF Hit
  <2>3. thinned = [u EXCEPT !.shown = shown]
    BY <1>6, <2>1 DEF Window
  <2> HIDE DEF hit
  <2>4. /\ shown \in [key : View, hit : Hit \cup {None}]
        /\ shown.key = u.shown.key /\ shown.hit = hit
    BY <2>1, <2>2
  <2> HIDE DEF shown, thinned
  <2>5. /\ thinned \in Window /\ thinned.cache = u.cache /\ thinned.shown = shown
        /\ thinned.favs = u.favs /\ thinned.parked = None
        /\ thinned.pulse = ui.pulse /\ thinned.serial = ui.serial
    BY <1>6, <2>3, <2>4 DEF Window
  <2>6. Filed(thinned) /\ Current(thinned) /\ Len(thinned.cache) <= CacheCap
    <3>1. u.shown.hit # None
      BY <1>7
    <3> QED
      BY <1>6, <2>2, <2>4, <2>5, <3>1 DEF Filed, Current
  <2>7. Request(thinned)
    BY <1>1, <1>7
  <2> QED
    BY <1>1, <2>5, <2>6, <2>7, UserRequest
<1>8. CASE ~thins
  <2>1. Request(u) /\ Current(u)
    BY <1>1, <1>6, <1>8 DEF Current
  <2> QED
    BY <1>1, <1>6, <2>1, UserRequest
<1> QED
  BY <1>7, <1>8

\* A favourite toggled makes the hits of before it stale.
LEMMA ToggleFavoriteInv ==
  ASSUME RInv, ToggleFavorite
  PROVE  RInv'
<1> DEFINE next == ui.favs + 1
           empty == <<>>
           u == [ui EXCEPT !.favs = next, !.cache = empty, !.parked = None]
<1>1. /\ ui \in Window /\ ui.serial < MaxSerial /\ ui.favs < MaxFavs /\ UNCHANGED outside
  BY DEF RInv, TypeInv, ToggleFavorite
<1>2. PICK removed \in BOOLEAN :
        Request(IF u.shown.hit = None THEN u
                ELSE [u EXCEPT !.shown.hit.favs = u.favs,
                               !.shown.hit.whole = @ /\ ~(removed /\ u.shown.key # Favorites)])
  <2>1. [ui EXCEPT !.favs = @ + 1, !.cache = <<>>, !.parked = None] = u
    BY <1>1 DEF Window
  <2>2. (ui.view = Favorites) \in BOOLEAN
    OBVIOUS
  <2> QED
    BY <2>1, <2>2 DEF ToggleFavorite
<1>3. next \in 0..MaxFavs /\ empty \in Seq(Posted) /\ Len(empty) <= CacheCap
  BY <1>1, RetrievalAssumption DEF Window
<1>4. \A W : ~Has(empty, W)
  BY EmptyHasNone
<1> HIDE DEF next, empty
<1>5. /\ u \in Window /\ u.favs = next /\ u.cache = empty /\ u.parked = None
      /\ u.shown = ui.shown /\ u.pulse = ui.pulse /\ u.serial = ui.serial
  BY <1>1, <1>3 DEF Window
<1> HIDE DEF u
<1>6. CASE u.shown.hit = None
  <2>1. Request(u) /\ Filed(u) /\ Current(u) /\ Len(u.cache) <= CacheCap
    BY <1>2, <1>3, <1>4, <1>5, <1>6 DEF Filed, Current
  <2> QED
    BY <1>1, <1>5, <2>1, UserRequest
<1>7. CASE u.shown.hit # None
  <2> DEFINE whole == u.shown.hit.whole /\ ~(removed /\ u.shown.key # Favorites)
             hit == [u.shown.hit EXCEPT !.favs = next, !.whole = whole]
             shown == [u.shown EXCEPT !.hit = hit]
             v == [u EXCEPT !.shown = shown]
  <2>1. u.shown \in [key : View, hit : Hit \cup {None}] /\ u.shown.hit \in Hit
    BY <1>5, <1>7 DEF Window
  <2>2. [u EXCEPT !.shown.hit.favs = u.favs,
                  !.shown.hit.whole = @ /\ ~(removed /\ u.shown.key # Favorites)] = v
    BY <1>5, <2>1 DEF Window, Hit
  <2>3. Request(v)
    BY <1>2, <1>7, <2>2
  <2>4. whole \in BOOLEAN
    OBVIOUS
  <2> HIDE DEF whole
  <2>5. hit \in Hit /\ hit.view = u.shown.hit.view /\ hit.favs = next
    BY <1>3, <2>1, <2>4 DEF Hit
  <2> HIDE DEF hit
  <2>6. /\ shown \in [key : View, hit : Hit \cup {None}]
        /\ shown.key = u.shown.key /\ shown.hit = hit
    BY <2>1, <2>5
  <2> HIDE DEF shown
  <2>7. /\ v \in Window /\ v.cache = empty /\ v.shown = shown /\ v.favs = next
        /\ v.parked = None /\ v.pulse = ui.pulse /\ v.serial = ui.serial
    BY <1>5, <2>6 DEF Window
  <2> HIDE DEF v
  <2>8. ui.shown.hit.view = ui.shown.key
    BY <1>5, <1>7 DEF RInv, Filed
  <2>9. Filed(v) /\ Current(v) /\ Len(v.cache) <= CacheCap
    BY <1>3, <1>4, <1>5, <2>5, <2>6, <2>7, <2>8 DEF Filed, Current
  <2> QED
    BY <1>1, <2>3, <2>7, <2>9, UserRequest
<1> QED
  BY <1>6, <1>7

\* Deepening asks for a longer wall.
LEMMA DeepenInv ==
  ASSUME RInv, Deepen
  PROVE  RInv'
<1> DEFINE base == Larger(ui.horizon, ui.shown.hit.level)
           horizon == base + 1
           v == [ui EXCEPT !.horizon = horizon, !.pending = TRUE]
<1>1. ui \in Window /\ Len(ui.cache) <= CacheCap /\ Filed(ui) /\ Current(ui)
  BY DEF RInv, TypeInv
<1>2. /\ Request(v) /\ UNCHANGED outside /\ ui.shown.hit # None
      /\ base < MaxLevel
  BY DEF Deepen
<1>3. horizon \in 0..MaxLevel /\ ui.horizon + 1 <= horizon
  <2>1. ui.horizon \in 0..MaxLevel /\ ui.shown.hit \in Hit
    BY <1>1, <1>2 DEF Window
  <2>2. ui.shown.hit.level \in Nat /\ MaxLevel \in Nat
    BY <2>1, HitFields, RetrievalAssumption
  <2> QED
    BY <1>2, <2>1, <2>2 DEF Larger
<1> HIDE DEF horizon
<1>4. /\ v \in Window /\ v.horizon = horizon /\ v.cache = ui.cache /\ v.shown = ui.shown
      /\ v.favs = ui.favs /\ v.view = ui.view /\ v.parked = ui.parked /\ v.open = ui.open
      /\ v.pulse = ui.pulse /\ v.serial = ui.serial
  BY <1>1, <1>3 DEF Window
<1> HIDE DEF v
<1>5. Filed(v) /\ Current(v)
  BY <1>1, <1>4 DEF Filed, Current
<1> QED
  BY <1>1, <1>2, <1>3, <1>4, <1>5, UserRequest

\* Steps that leave the search, the channel and the index alone, and of the window
\* the fields that say what is asked.
LEMMA WallInv ==
  ASSUME RInv, UNCHANGED <<commands, outside>>, ui' \in Window,
         ui'.view = ui.view, ui'.favs = ui.favs, ui'.horizon = ui.horizon,
         ui'.pending = ui.pending, ui'.pulse = ui.pulse, ui'.serial = ui.serial,
         ui'.cache = ui.cache, ui'.dropped = ui.dropped,
         ui'.parked # None => ui'.open # {},
         \/ ui'.shown = ui.shown /\ ui'.parked = ui.parked
         \/ ui.parked # None /\ ui'.shown = ui.parked /\ ui'.parked = None
  PROVE  RInv'
<1>1. TypeInv' /\ BudgetInv' /\ NewsInv'
  BY DEF RInv, TypeInv, BudgetInv, NewsInv, Nudges, outside
<1>2. OneInv'
  BY DEF RInv, OneInv, outside
<1>3. Question(ui)' = Question(ui) /\ Inapt(ui)' = Inapt(ui)
  BY DEF Question, Inapt, Apt
<1>4. CarryInv'
  BY <1>3 DEF RInv, CarryInv, outside
<1>5. Filed(ui)' /\ Current(ui)'
  BY DEF RInv, Filed, Current
<1>6. QuietIsSettled'
  <2> DEFINE wall == IF ui.parked = None THEN ui.shown ELSE ui.parked
  <2>1. (IF ui.parked = None THEN ui.shown ELSE ui.parked)' = wall
    OBVIOUS
  <2> HIDE DEF wall
  <2>2. QuietIsSettled <=> (ui.pulse.state = "idle" /\ ~ui.dropped =>
          /\ wall.key = ui.view /\ wall.hit # None /\ wall.hit.whole
          /\ wall.hit.level >= ui.horizon /\ ~ui.pending
          /\ ~gate.stale => wall.hit.stock >= heard)
    BY DEF QuietIsSettled, wall
  <2>3. QuietIsSettled' <=> (ui'.pulse.state = "idle" /\ ~ui'.dropped =>
          /\ wall.key = ui'.view /\ wall.hit # None /\ wall.hit.whole
          /\ wall.hit.level >= ui'.horizon /\ ~ui'.pending
          /\ ~gate'.stale => wall.hit.stock >= heard')
    BY <2>1 DEF QuietIsSettled
  <2> QED
    BY <2>2, <2>3 DEF RInv, outside
<1> QED
  BY <1>1, <1>2, <1>4, <1>5, <1>6 DEF RInv

\* Opening a menu or the viewer parks what comes.
LEMMA OpenInv ==
  ASSUME RInv, NEW what \in {"menu", "viewer"}, Open(what)
  PROVE  RInv'
<1> DEFINE open == ui.open \cup {what}
<1>1. ui \in Window /\ open \in SUBSET {"menu", "viewer"}
  BY DEF RInv, TypeInv, Window
<1>2. ui' = [ui EXCEPT !.open = open] /\ UNCHANGED <<commands, outside>>
  BY <1>1 DEF Open, Window
<1>4. open # {}
  OBVIOUS
<1> HIDE DEF open
<1>3. /\ ui' \in Window /\ ui'.view = ui.view /\ ui'.favs = ui.favs
      /\ ui'.horizon = ui.horizon /\ ui'.pending = ui.pending /\ ui'.pulse = ui.pulse
      /\ ui'.serial = ui.serial /\ ui'.cache = ui.cache /\ ui'.dropped = ui.dropped
      /\ ui'.shown = ui.shown /\ ui'.parked = ui.parked /\ ui'.open # {}
  BY <1>1, <1>2, <1>4 DEF Window
<1> QED
  BY <1>2, <1>3, WallInv

\* Closing them shows what was parked, if it is still asked for.
LEMMA CloseInv ==
  ASSUME RInv, NEW what \in {"menu", "viewer"}, Close(what)
  PROVE  RInv'
<1> DEFINE open == ui.open \ {what}
           u == [ui EXCEPT !.open = open]
<1>1. ui \in Window /\ open \in SUBSET {"menu", "viewer"}
  BY DEF RInv, TypeInv, Window
<1>2. /\ ui' = IF u.open = {} /\ u.parked # None
               THEN [u EXCEPT !.shown = u.parked, !.parked = None] ELSE u
      /\ UNCHANGED <<commands, outside>>
  BY <1>1 DEF Close, Window
<1> HIDE DEF open
<1>3. /\ u \in Window /\ u.view = ui.view /\ u.favs = ui.favs
      /\ u.horizon = ui.horizon /\ u.pending = ui.pending /\ u.pulse = ui.pulse
      /\ u.serial = ui.serial /\ u.cache = ui.cache /\ u.dropped = ui.dropped
      /\ u.shown = ui.shown /\ u.parked = ui.parked
  BY <1>1 DEF Window
<1> HIDE DEF u
<1>4. CASE u.open = {} /\ u.parked # None
  <2> DEFINE shown == u.parked
  <2>1. shown \in [key : View, hit : Hit \cup {None}]
    BY <1>3, <1>4 DEF Window, Posted
  <2>2. ui' = [u EXCEPT !.shown = shown, !.parked = None]
    BY <1>2, <1>4
  <2>3. shown = ui.parked /\ ui.parked # None
    BY <1>3, <1>4
  <2> HIDE DEF shown
  <2>4. /\ ui' \in Window /\ ui'.view = u.view /\ ui'.favs = u.favs
        /\ ui'.horizon = u.horizon /\ ui'.pending = u.pending /\ ui'.pulse = u.pulse
        /\ ui'.serial = u.serial /\ ui'.cache = u.cache /\ ui'.dropped = u.dropped
        /\ ui'.shown = shown /\ ui'.parked = None
    BY <1>3, <2>1, <2>2 DEF Window
  <2> QED
    BY <1>2, <1>3, <2>3, <2>4, WallInv
<1>5. CASE ~(u.open = {} /\ u.parked # None)
  <2>1. ui' = u /\ (u.parked # None => u.open # {})
    BY <1>2, <1>5
  <2> QED
    BY <1>2, <1>3, <2>1, WallInv
<1> QED
  BY <1>4, <1>5

-----------------------------------------------------------------------------
(* The refresh thread and the absorbing ones                               *)

\* Steps of the search alone keep what is the window's and the index's.
LEMMA SearchInv ==
  ASSUME RInv, UNCHANGED <<ui, gate, stock, owed, heard>>, Outside', Nudges' = Nudges,
         commands' \in Seq(Command), Len(commands') <= 1, job' \in Job \cup {None},
         OneInv', CarryInv'
  PROVE  RInv'
<1>1. TypeInv'
  BY DEF RInv, TypeInv, Outside
<1>2. BudgetInv' /\ NewsInv'
  BY DEF RInv, BudgetInv, Outside
<1>3. Filed(ui)' /\ Current(ui)' /\ QuietIsSettled'
  BY DEF RInv, Filed, Current, QuietIsSettled
<1> QED
  BY <1>1, <1>2, <1>3 DEF RInv

\* The thread collects the newest command.
LEMMA CollectInv ==
  ASSUME RInv, Collect
  PROVE  RInv'
<1>1. /\ job = None /\ commands # <<>> /\ commands' = <<>>
      /\ job' = [cmd |-> commands[Len(commands)], stage |-> "sent", stock |-> 0]
      /\ UNCHANGED <<ui, gate, events, stock, owed, heard>>
  BY DEF Collect
<1>2. Outside /\ Outside' /\ Nudges' = Nudges
  BY <1>1, OutsideHolds DEF Outside, Nudges, NewsInv
<1>3. Len(commands) \in DOMAIN commands /\ commands[Len(commands)] \in Command
  BY <1>1 DEF RInv, TypeInv
<1>4. job' \in Job /\ job'.cmd = commands[Len(commands)] /\ job'.stage = "sent"
  <2>1. 0 \in 0..MaxStock
    BY RetrievalAssumption
  <2> QED
    BY <1>1, <1>3, <2>1 DEF Job
<1>5. job' # None
  BY <1>4, NoneAssumption
<1>6. commands' \in Seq(Command) /\ Len(commands') <= 1 /\ DOMAIN commands' = {}
  BY <1>1
<1>7. OneInv'
  BY <1>1, <1>3, <1>4, <1>5, <1>6 DEF RInv, OneInv
<1>8. CarryInv'
  BY <1>1, <1>3, <1>4, <1>5, <1>6 DEF RInv, CarryInv, Question, Inapt, Apt
<1> QED
  BY <1>1, <1>2, <1>4, <1>6, <1>7, <1>8, SearchInv

\* The thread searches, or fails to.
LEMMA SearchStepInv ==
  ASSUME RInv, Search
  PROVE  RInv'
<1>1. /\ job # None /\ job' = [job EXCEPT !.stage = "read", !.stock = stock]
      /\ UNCHANGED <<ui, gate, commands, events, stock, owed, heard>>
  BY DEF Search
<1>2. Outside /\ Outside' /\ Nudges' = Nudges
  BY <1>1, OutsideHolds DEF Outside, Nudges, NewsInv
<1>3. job \in Job /\ stock \in 0..MaxStock /\ heard \in 0..stock
  BY <1>1 DEF RInv, TypeInv
<1>4. job' \in Job /\ job'.cmd = job.cmd /\ job'.stock = stock
  BY <1>1, <1>3 DEF Job
<1>5. job' # None
  BY <1>4, NoneAssumption
<1>6. commands' \in Seq(Command) /\ Len(commands') <= 1
  BY <1>1 DEF RInv, TypeInv
<1>7. OneInv'
  BY <1>1, <1>4, <1>5 DEF RInv, OneInv
<1>8. job'.stock >= heard'
  BY <1>1, <1>3, <1>4
<1>9. CarryInv'
  BY <1>1, <1>4, <1>8 DEF RInv, CarryInv, Question, Inapt, Apt
<1> QED
  BY <1>1, <1>2, <1>4, <1>6, <1>7, <1>9, SearchInv

\* The thread sends its answer.
LEMMA AnswerInv ==
  ASSUME RInv, Answer
  PROVE  RInv'
<1>1. /\ job # None /\ job.stage = "read" /\ Len(events) < EventCap /\ job' = None
      /\ UNCHANGED <<ui, gate, commands, stock, owed, heard>>
  BY DEF Answer
<1> DEFINE full == [view |-> job.cmd.view, level |-> job.cmd.level, favs |-> job.cmd.favs,
                    stock |-> job.stock, whole |-> TRUE]
<1>2. PICK hit \in {full, None} :
        events' = Append(events, [kind |-> "answer", serial |-> job.cmd.serial, hit |-> hit])
  BY DEF Answer
<1>3. job \in Job /\ job.cmd \in Command /\ job.stock \in 0..MaxStock
  BY <1>1 DEF RInv, TypeInv, Job
<1>4. full \in Hit
  BY <1>3 DEF Hit, Command
<1>5. /\ full.view = job.cmd.view /\ full.favs = job.cmd.favs /\ full.level = job.cmd.level
      /\ full.whole = TRUE /\ full.stock = job.stock
  OBVIOUS
<1>6. hit \in Hit \cup {None} /\ (hit # None => hit = full)
  BY <1>4
<1> HIDE DEF full
<1> DEFINE e == [kind |-> "answer", serial |-> job.cmd.serial, hit |-> hit]
<1>7. e \in Event /\ e.kind = "answer" /\ e.serial = job.cmd.serial /\ e.hit = hit
  BY <1>3, <1>6 DEF Event, Command
<1>8. events' = Append(events, e)
  BY <1>2
<1> HIDE DEF e
<1>9. events \in Seq(Event) /\ Len(events) \in Nat /\ EventCap \in Nat
  BY RetrievalAssumption DEF RInv, TypeInv
<1>10. /\ events' \in Seq(Event) /\ Len(events') <= EventCap
  BY <1>1, <1>7, <1>8, <1>9
<1>11. \A W : Has(events', W) <=> Has(events, W) \/ e \in W
  BY <1>7, <1>8, <1>9, AppendHas
<1>12. ~Has(events, Answered) /\ e \in Answered
  BY <1>1, <1>7 DEF RInv, OneInv, Answered
<1>13. Sole(events', Answered)
  BY <1>7, <1>8, <1>9, <1>12, AppendSole DEF RInv, OneInv
<1>14. Nudges' = Nudges
  <2>1. e \notin News
    BY <1>7 DEF News
  <2>2. Tally(events', News) = Tally(events, News)
    BY <1>7, <1>8, <1>9, <2>1, AppendTally
  <2> QED
    BY <1>1, <2>2 DEF Nudges
<1>15. Outside'
  <2>1. e \notin Ahead(stock)
    BY <1>7 DEF Ahead
  <2> QED
    BY <1>1, <1>10, <1>11, <1>14, <2>1, OutsideHolds DEF Outside, NewsInv
<1>16. OneInv'
  <2>1. ui.pulse.state # "idle" /\ commands = <<>>
    BY <1>1 DEF RInv, OneInv
  <2>2. job.cmd.serial = ui.pulse.serial
    BY <1>1 DEF RInv, OneInv
  <2>3. e \notin Stray(ui.pulse.serial)
    BY <1>7, <2>2 DEF Stray
  <2>4. ~Has(events', Stray(ui.pulse.serial))
    BY <1>11, <2>3 DEF RInv, OneInv
  <2>5. Has(events', Answered)
    BY <1>11, <1>12
  <2> QED
    BY <1>1, <1>13, <2>1, <2>4, <2>5 DEF OneInv
<1>17. CarryInv'
  <2> SUFFICES ASSUME ui.pulse.state = "inflight"
               PROVE  CarryInv'
    BY <1>1 DEF CarryInv
  <2>1. job.cmd = Question(ui)
    BY <1>1 DEF RInv, CarryInv
  <2>2. /\ job.cmd.serial = ui.serial /\ job.cmd.view = ui.view /\ job.cmd.favs = ui.favs
        /\ job.cmd.level = ui.horizon
    BY <2>1 DEF Question
  <2>3. Apt(ui, e)
    BY <1>5, <1>6, <1>7, <2>2 DEF Apt
  <2>4. e \notin Inapt(ui) /\ ~Has(events, Inapt(ui))
    BY <2>3 DEF RInv, CarryInv, Inapt
  <2>5. ~Has(events', Inapt(ui))
    BY <1>11, <2>4
  <2>6. ASSUME ~gate.stale
        PROVE  ~Has(events', Behind(heard))
    <3>1. job.stock >= heard /\ ~Has(events, Behind(heard))
      BY <1>1, <2>6 DEF RInv, CarryInv
    <3>2. job.stock \in Nat /\ heard \in Nat /\ stock \in Nat
      BY <1>3, RetrievalAssumption DEF RInv, TypeInv
    <3>3. e \notin Behind(heard)
      BY <1>5, <1>6, <1>7, <3>1, <3>2 DEF Behind
    <3> QED
      BY <1>11, <3>1, <3>3
  <2>7. Inapt(ui)' = Inapt(ui)
    BY <1>1 DEF Inapt, Apt
  <2>8. commands' = <<>> /\ DOMAIN commands' = {}
    BY <1>1 DEF RInv, OneInv
  <2> QED
    BY <1>1, <2>5, <2>6, <2>7, <2>8 DEF CarryInv
<1>18. commands' \in Seq(Command) /\ Len(commands') <= 1 /\ job' \in Job \cup {None}
  BY <1>1 DEF RInv, TypeInv
<1> QED
  BY <1>1, <1>14, <1>15, <1>16, <1>17, <1>18, SearchInv

\* Steps of the absorbing threads keep the window, the search and its answers.
LEMMA IndexInv ==
  ASSUME RInv, UNCHANGED <<ui, gate, commands, job, heard>>, Outside',
         ui.serial + Nudges' <= MaxSerial + ui.horizon + stock',
         Sole(events', Answered),
         \A W : W \subseteq Answered => (Has(events', W) <=> Has(events, W))
  PROVE  RInv'
<1>1. TypeInv'
  BY DEF RInv, TypeInv, Outside
<1>2. BudgetInv' /\ NewsInv'
  BY DEF BudgetInv, Outside
<1>3. /\ Has(events', Answered) <=> Has(events, Answered)
      /\ \A n : /\ Has(events', Stray(n)) <=> Has(events, Stray(n))
                /\ Has(events', Behind(n)) <=> Has(events, Behind(n))
      /\ \A u : Has(events', Inapt(u)) <=> Has(events, Inapt(u))
  BY AnswerKinds
<1>4. OneInv'
  BY <1>3 DEF RInv, OneInv
<1>5. CarryInv'
  <2>1. Inapt(ui)' = Inapt(ui) /\ Question(ui)' = Question(ui)
    BY DEF Inapt, Apt, Question
  <2> QED
    BY <1>3, <2>1 DEF RInv, CarryInv
<1>6. Filed(ui)' /\ Current(ui)' /\ QuietIsSettled'
  BY DEF RInv, Filed, Current, QuietIsSettled
<1> QED
  BY <1>1, <1>2, <1>4, <1>5, <1>6 DEF RInv

\* The counts of news are naturals.
LEMMA NudgesType ==
  ASSUME RInv
  PROVE  /\ Tally(events, News) \in Nat /\ Nudges \in Nat
         /\ ui.serial \in Nat /\ ui.horizon \in Nat /\ stock \in Nat /\ heard \in Nat
         /\ MaxSerial \in Nat /\ MaxStock \in Nat /\ EventCap \in Nat
         /\ events \in Seq(Event) /\ Len(events) \in Nat
<1>1. /\ events \in Seq(Event) /\ ui \in Window /\ stock \in 0..MaxStock /\ heard \in 0..stock
      /\ MaxSerial \in Nat /\ MaxStock \in Nat /\ MaxLevel \in Nat /\ EventCap \in Nat
  BY RetrievalAssumption DEF RInv, TypeInv
<1>2. Tally(events, News) \in Nat
  BY <1>1, TallyType
<1> QED
  BY <1>1, <1>2 DEF Nudges, Window

\* An absorb adds to the stock.
LEMMA AbsorbInv ==
  ASSUME RInv, Absorb
  PROVE  RInv'
<1>1. /\ stock < MaxStock /\ stock' = stock + 1 /\ owed' = TRUE
      /\ UNCHANGED <<ui, gate, commands, job, events, heard>>
  BY DEF Absorb
<1>2. Nudges' \in Nat /\ Nudges' <= Nudges + 1
  BY <1>1, NudgesType DEF Nudges
<1>3. Nudges <= stock /\ ui.serial + Nudges <= MaxSerial + ui.horizon + stock
  BY DEF RInv, BudgetInv
<1>4. Nudges' <= stock' /\ ui.serial + Nudges' <= MaxSerial + ui.horizon + stock'
  <2>1. \A n, m, k, serial, horizon, max \in Nat :
          m <= n + 1 /\ n <= k /\ serial + n <= max + horizon + k
          => m <= k + 1 /\ serial + m <= max + horizon + (k + 1)
    OBVIOUS
  <2>2. Nudges' <= stock + 1 /\ ui.serial + Nudges' <= MaxSerial + ui.horizon + (stock + 1)
    BY <1>2, <1>3, <2>1, NudgesType
  <2> QED
    BY <1>1, <2>2
<1>5. Outside'
  <2>1. stock' \in 0..MaxStock /\ heard' \in 0..stock'
    BY <1>1, NudgesType DEF RInv, TypeInv
  <2>2. Ahead(stock') \subseteq Ahead(stock)
    <3>1. \A k : k \in 0..MaxStock /\ k > stock + 1 => k > stock
      BY NudgesType
    <3>2. \A x \in Event : x.kind = "news" => x.stock \in 0..MaxStock
      BY DEF Event
    <3> QED
      BY <1>1, <3>1, <3>2 DEF Ahead
  <2>3. NewsInv'
    BY <1>1, <2>2, HasSubset DEF RInv, NewsInv
  <2> QED
    BY <1>1, <1>4, <2>1, <2>3 DEF RInv, TypeInv, Outside
<1>6. Sole(events', Answered)
  BY <1>1 DEF RInv, OneInv
<1> QED
  BY <1>1, <1>4, <1>5, <1>6, IndexInv

\* A lane tells of the stock it absorbed.
LEMMA TellInv ==
  ASSUME RInv, Tell
  PROVE  RInv'
<1>1. /\ owed /\ owed' = FALSE /\ Len(events) < EventCap
      /\ UNCHANGED <<ui, gate, commands, job, stock, heard>>
  BY DEF Tell
<1>2. PICK kind \in {"news", "mute"} : events' = Append(events, [kind |-> kind, stock |-> stock])
  BY DEF Tell
<1> DEFINE e == [kind |-> kind, stock |-> stock]
<1>3. e \in Event /\ e.kind # "answer" /\ e.stock = stock
  BY DEF RInv, TypeInv, Event
<1>4. events' = Append(events, e)
  BY <1>2
<1> HIDE DEF e
<1>5. events' \in Seq(Event) /\ Len(events') <= EventCap
  BY <1>1, <1>3, <1>4, NudgesType
<1>6. \A W : Has(events', W) <=> Has(events, W) \/ e \in W
  BY <1>3, <1>4, NudgesType, AppendHas
<1>7. e \notin Answered /\ Sole(events', Answered)
  <2>1. e \notin Answered
    BY <1>3 DEF Answered
  <2> QED
    BY <1>3, <1>4, <2>1, NudgesType, AppendSole DEF RInv, OneInv
<1>8. \A W : W \subseteq Answered => (Has(events', W) <=> Has(events, W))
  BY <1>6, <1>7
<1>9. Nudges' \in Nat /\ Nudges' <= Nudges
  <2>1. Tally(events', News) = IF e \in News THEN Tally(events, News) + 1 ELSE Tally(events, News)
    BY <1>3, <1>4, NudgesType, AppendTally
  <2> QED
    BY <1>1, <2>1, NudgesType DEF Nudges
<1>10. Nudges' <= stock' /\ ui.serial + Nudges' <= MaxSerial + ui.horizon + stock'
  <2>1. \A n, m, k, serial, horizon, max \in Nat :
          m <= n /\ n <= k /\ serial + n <= max + horizon + k
          => m <= k /\ serial + m <= max + horizon + k
    OBVIOUS
  <2>2. Nudges <= stock /\ ui.serial + Nudges <= MaxSerial + ui.horizon + stock
    BY DEF RInv, BudgetInv
  <2>3. Nudges' <= stock /\ ui.serial + Nudges' <= MaxSerial + ui.horizon + stock
    BY <1>9, <2>1, <2>2, NudgesType
  <2> QED
    BY <1>1, <2>3
<1>11. Outside'
  <2>1. e \notin Ahead(stock)
    BY <1>3, NudgesType DEF Ahead
  <2>2. NewsInv'
    BY <1>1, <1>6, <2>1 DEF RInv, NewsInv
  <2> QED
    BY <1>1, <1>5, <1>10, <2>2 DEF RInv, TypeInv, Outside
<1> QED
  BY <1>1, <1>7, <1>8, <1>10, <1>11, IndexInv

-----------------------------------------------------------------------------
(* The window drains its events, and time passes                           *)

\* Draining one event takes it from the channel and leaves the others.
LEMMA TailFacts ==
  ASSUME RInv, events # <<>>, events' = Tail(events)
  PROVE  /\ Head(events) \in Event
         /\ events' \in Seq(Event) /\ Len(events') <= EventCap
         /\ \A W : Has(events, W) <=> Head(events) \in W \/ Has(events', W)
         /\ Sole(events', Answered)
         /\ Head(events) \in Answered => ~Has(events', Answered)
         /\ Tally(events', News) \in Nat
         /\ Tally(events', News) + (IF Head(events) \in News THEN 1 ELSE 0) <= Tally(events, News)
<1>1. events \in Seq(Event) /\ Sole(events, Answered) /\ Len(events) <= EventCap
  BY DEF RInv, TypeInv, OneInv
<1>2. /\ Head(events) \in Event /\ events' \in Seq(Event)
      /\ Len(events') = Len(events) - 1 /\ Len(events) \in Nat
  BY <1>1
<1>3. Len(events') <= EventCap
  BY <1>1, <1>2, RetrievalAssumption
<1>4. \A W : Has(events, W) <=> Head(events) \in W \/ Has(events', W)
  BY <1>1, TailHas
<1>5. Sole(events', Answered) /\ (Head(events) \in Answered => ~Has(events', Answered))
  BY <1>1, TailSole
<1>6. Tally(events', News) \in Nat
  BY <1>2, TallyType
<1>7. Tally(events', News) + (IF Head(events) \in News THEN 1 ELSE 0) <= Tally(events, News)
  BY <1>1, TailTally
<1> QED
  BY <1>2, <1>3, <1>4, <1>5, <1>6, <1>7

\* A nudge spends an event of news, or the trailing edge of the gate.
LEMMA NudgedInv ==
  ASSUME RInv, Request(ui), gate' = Fired, UNCHANGED <<job, stock, owed>>,
         heard' \in 0..stock, events' \in Seq(Event), Len(events') <= EventCap,
         Sole(events', Answered),
         \A W : W \subseteq Answered => (Has(events', W) <=> Has(events, W)),
         \A W : Has(events', W) => Has(events, W),
         Tally(events', News) \in Nat,
         Tally(events', News) + 1 <= Tally(events, News) + (IF gate.stale THEN 1 ELSE 0)
  PROVE  RInv'
<1>1. gate' \in [since : 0..Gap, stale : BOOLEAN] /\ gate'.stale = FALSE
  BY RetrievalAssumption DEF Fired
<1>2. Nudges' \in Nat /\ Nudges' + 1 <= Nudges
  <2>1. \A a, b \in Nat : \A x \in {0, 1} : \A o \in {0, 1} :
          a + 1 <= b + x => a + o + 0 + 1 <= b + o + x
    OBVIOUS
  <2>2. owed' = owed /\ (IF owed THEN 1 ELSE 0) \in {0, 1} /\ (IF gate.stale THEN 1 ELSE 0) \in {0, 1}
    OBVIOUS
  <2>3. Nudges' = Tally(events', News) + (IF owed THEN 1 ELSE 0) + 0
    BY <1>1, <2>2 DEF Nudges
  <2>4. Nudges' \in Nat
    BY <2>2, <2>3
  <2> QED
    BY <2>1, <2>2, <2>3, <2>4, NudgesType DEF Nudges
<1>3. Nudges' <= stock' /\ ui.serial + 1 + Nudges' <= MaxSerial + ui.horizon + stock'
  <2>1. \A n, m, k, serial, horizon, max \in Nat :
          m + 1 <= n /\ n <= k /\ serial + n <= max + horizon + k
          => m <= k /\ serial + 1 + m <= max + horizon + k
    OBVIOUS
  <2>2. Nudges <= stock /\ ui.serial + Nudges <= MaxSerial + ui.horizon + stock
    BY DEF RInv, BudgetInv
  <2>3. Nudges' <= stock /\ ui.serial + 1 + Nudges' <= MaxSerial + ui.horizon + stock
    BY <1>2, <2>1, <2>2, NudgesType
  <2> QED
    BY <2>3
<1>4. Outside'
  BY <1>1, <1>3 DEF RInv, TypeInv, Outside, NewsInv
<1>5. /\ Has(events', Answered) <=> Has(events, Answered)
      /\ \A n : Has(events', Stray(n)) => Has(events, Stray(n))
  BY AnswerKinds
<1>6. ui \in Window /\ Len(ui.cache) <= CacheCap /\ Filed(ui) /\ Current(ui)
  BY DEF RInv, TypeInv
<1> QED
  BY <1>3, <1>4, <1>5, <1>6, RequestInv

\* The gate lets a nudge through that it owed.
LEMMA TickInv ==
  ASSUME RInv, Tick
  PROVE  RInv'
<1> DEFINE since == gate.since + 1
           late == [gate EXCEPT !.since = since]
<1>1. /\ gate.since < Gap /\ UNCHANGED <<job, events, stock, owed, heard>>
      /\ IF late.stale /\ late.since = Gap
         THEN gate' = Fired /\ Request(ui)
         ELSE gate' = late /\ UNCHANGED <<ui, commands>>
  BY DEF Tick
<1>2. gate \in [since : 0..Gap, stale : BOOLEAN] /\ Gap \in Nat
  BY RetrievalAssumption DEF RInv, TypeInv
<1>3. since \in 0..Gap
  BY <1>1, <1>2
<1> HIDE DEF since
<1>4. late \in [since : 0..Gap, stale : BOOLEAN] /\ late.stale = gate.stale
  BY <1>2, <1>3
<1> HIDE DEF late
<1>5. Sole(events', Answered) /\ events' = events
  BY <1>1 DEF RInv, OneInv
<1>6. CASE late.stale /\ late.since = Gap
  <2>1. gate' = Fired /\ Request(ui) /\ gate.stale
    BY <1>1, <1>4, <1>6
  <2>2. heard' \in 0..stock /\ events' \in Seq(Event) /\ Len(events') <= EventCap
    BY <1>1 DEF RInv, TypeInv
  <2>3. Tally(events', News) \in Nat
        /\ Tally(events', News) + 1 <= Tally(events, News) + (IF gate.stale THEN 1 ELSE 0)
    BY <1>5, <2>1, NudgesType
  <2>4. \A W : Has(events', W) <=> Has(events, W)
    BY <1>5
  <2> QED
    BY <1>1, <1>5, <2>1, <2>2, <2>3, <2>4, NudgedInv
<1>7. CASE ~(late.stale /\ late.since = Gap)
  <2>1. gate' \in [since : 0..Gap, stale : BOOLEAN] /\ gate'.stale = gate.stale
        /\ UNCHANGED <<ui, commands>>
    BY <1>1, <1>4, <1>7
  <2>2. TypeInv' /\ BudgetInv' /\ NewsInv'
    BY <1>1, <2>1 DEF RInv, TypeInv, BudgetInv, NewsInv, Nudges
  <2>3. OneInv'
    BY <1>1, <2>1 DEF RInv, OneInv
  <2>4. Inapt(ui)' = Inapt(ui) /\ Question(ui)' = Question(ui)
    BY <2>1 DEF Inapt, Apt, Question
  <2>5. CarryInv'
    BY <1>1, <2>1, <2>4 DEF RInv, CarryInv
  <2>6. Filed(ui)' /\ Current(ui)' /\ QuietIsSettled'
    BY <1>1, <2>1 DEF RInv, Filed, Current, QuietIsSettled
  <2> QED
    BY <2>2, <2>3, <2>5, <2>6 DEF RInv
<1> QED
  BY <1>6, <1>7

\* An event of another lane.
LEMMA DrainMuteInv ==
  ASSUME RInv, Drain, Head(events).kind = "mute", UNCHANGED <<ui, gate, commands, heard>>
  PROVE  RInv'
<1>1. events # <<>> /\ events' = Tail(events) /\ UNCHANGED <<job, stock, owed>>
  BY DEF Drain
<1>2. Head(events) \notin Answered
  BY DEF Answered
<1>3. /\ Sole(events', Answered)
      /\ \A W : W \subseteq Answered => (Has(events', W) <=> Has(events, W))
  BY <1>1, <1>2, TailFacts
<1>4. Nudges' \in Nat /\ Nudges' <= Nudges
  <2>1. Tally(events', News) \in Nat /\ Tally(events', News) <= Tally(events, News)
    BY <1>1, TailFacts, NudgesType
  <2> QED
    BY <1>1, <2>1, NudgesType, SMTT(30) DEF Nudges
<1>5. Nudges' <= stock' /\ ui.serial + Nudges' <= MaxSerial + ui.horizon + stock'
  <2>1. \A n, m, k, serial, horizon, max \in Nat :
          m <= n /\ n <= k /\ serial + n <= max + horizon + k
          => m <= k /\ serial + m <= max + horizon + k
    OBVIOUS
  <2>2. Nudges <= stock /\ ui.serial + Nudges <= MaxSerial + ui.horizon + stock
    BY DEF RInv, BudgetInv
  <2>3. Nudges' <= stock /\ ui.serial + Nudges' <= MaxSerial + ui.horizon + stock
    BY <1>4, <2>1, <2>2, NudgesType
  <2> QED
    BY <1>1, <2>3
<1>6. Outside'
  BY <1>1, <1>5, TailFacts DEF RInv, TypeInv, Outside, NewsInv
<1> QED
  BY <1>1, <1>3, <1>5, <1>6, IndexInv

\* News of absorbs nudges the search.
LEMMA DrainNewsInv ==
  ASSUME RInv, Drain, Head(events).kind = "news", Nudge,
         heard' = Larger(heard, Head(events).stock)
  PROVE  RInv'
<1> DEFINE e == Head(events)
<1>1. events # <<>> /\ events' = Tail(events) /\ UNCHANGED <<job, stock, owed>>
  BY DEF Drain
<1>2. e \in Event /\ e \in News /\ e \notin Answered /\ ~Has(events', Ahead(stock))
      /\ e \notin Ahead(stock)
  BY <1>1, TailFacts DEF RInv, NewsInv, News, Answered
<1>3. /\ Sole(events', Answered) /\ events' \in Seq(Event) /\ Len(events') <= EventCap
      /\ \A W : W \subseteq Answered => (Has(events', W) <=> Has(events, W))
      /\ \A W : Has(events', W) => Has(events, W)
  BY <1>1, <1>2, TailFacts
<1>4. Tally(events', News) \in Nat /\ Tally(events', News) + 1 <= Tally(events, News)
  BY <1>1, <1>2, TailFacts
<1>5. heard' \in 0..stock
  <2>1. e.stock \in 0..MaxStock /\ ~(e.stock > stock)
    BY <1>2 DEF Event, News, Ahead
  <2>2. e.stock \in 0..stock /\ heard \in 0..stock
    BY <2>1, NudgesType DEF RInv, TypeInv
  <2> QED
    BY <2>2 DEF Larger
<1>6. CASE Ready
  <2>1. gate' = Fired /\ Request(ui)
    BY <1>6 DEF Nudge
  <2>2. \A a, b \in Nat : \A x \in {0, 1} : a + 1 <= b => a + 1 <= b + x
    OBVIOUS
  <2>3. Tally(events', News) + 1 <= Tally(events, News) + (IF gate.stale THEN 1 ELSE 0)
    BY <1>4, <2>2, NudgesType
  <2> HIDE DEF e
  <2> QED
    BY <1>1, <1>3, <1>4, <1>5, <2>1, <2>3, NudgedInv
<1>7. CASE ~Ready
  <2>1. gate' = [gate EXCEPT !.stale = TRUE] /\ UNCHANGED <<ui, commands>>
    BY <1>7 DEF Nudge
  <2>2. gate' \in [since : 0..Gap, stale : BOOLEAN] /\ gate'.stale /\ gate.stale
    BY <1>7, <2>1 DEF RInv, TypeInv, Ready
  <2>3. Nudges' \in Nat /\ Nudges' <= Nudges
    <3>1. \A a, b \in Nat : \A o \in {0, 1} : a + 1 <= b => a + o + 1 <= b + o + 1
      OBVIOUS
    <3>2. (IF owed THEN 1 ELSE 0) \in {0, 1}
      OBVIOUS
    <3>3. /\ Nudges' = Tally(events', News) + (IF owed THEN 1 ELSE 0) + 1
          /\ Nudges = Tally(events, News) + (IF owed THEN 1 ELSE 0) + 1
      BY <1>1, <2>2 DEF Nudges
    <3>4. Tally(events', News) + (IF owed THEN 1 ELSE 0) + 1
            <= Tally(events, News) + (IF owed THEN 1 ELSE 0) + 1
      BY <1>4, <3>1, <3>2, NudgesType
    <3>5. Tally(events', News) + (IF owed THEN 1 ELSE 0) + 1 \in Nat
      BY <1>4, <3>2
    <3> QED
      BY <3>3, <3>4, <3>5
  <2>4. Nudges' <= stock' /\ ui'.serial + Nudges' <= MaxSerial + ui'.horizon + stock'
    <3>1. \A n, m, k, serial, horizon, max \in Nat :
            m <= n /\ n <= k /\ serial + n <= max + horizon + k
            => m <= k /\ serial + m <= max + horizon + k
      OBVIOUS
    <3>2. Nudges <= stock /\ ui.serial + Nudges <= MaxSerial + ui.horizon + stock
      BY DEF RInv, BudgetInv
    <3>3. Nudges' <= stock /\ ui.serial + Nudges' <= MaxSerial + ui.horizon + stock
      BY <2>3, <3>1, <3>2, NudgesType
    <3> QED
      BY <1>1, <2>1, <3>3
  <2>5. TypeInv' /\ BudgetInv' /\ NewsInv'
    BY <1>1, <1>2, <1>3, <1>5, <2>1, <2>2, <2>4 DEF RInv, TypeInv, BudgetInv, NewsInv
  <2>6. /\ Has(events', Answered) <=> Has(events, Answered)
        /\ \A n : Has(events', Stray(n)) <=> Has(events, Stray(n))
        /\ \A u : Has(events', Inapt(u)) <=> Has(events, Inapt(u))
    BY <1>3, AnswerKinds
  <2>7. OneInv'
    BY <1>1, <1>3, <2>1, <2>6 DEF RInv, OneInv
  <2>8. Inapt(ui)' = Inapt(ui) /\ Question(ui)' = Question(ui)
    BY <2>1 DEF Inapt, Apt, Question
  <2>9. CarryInv'
    BY <1>1, <2>1, <2>2, <2>6, <2>8 DEF RInv, CarryInv
  <2>10. Filed(ui)' /\ Current(ui)' /\ QuietIsSettled'
    BY <1>1, <2>1, <2>2 DEF RInv, Filed, Current, QuietIsSettled
  <2> QED
    BY <2>5, <2>7, <2>9, <2>10 DEF RInv
<1> QED
  BY <1>6, <1>7

\* install_hit: a hit that answers the question goes up, or is parked.
LEMMA InstalledFacts ==
  ASSUME NEW u \in Window, Len(u.cache) <= CacheCap, Filed(u), Current(u),
         NEW hit \in Hit, hit.view = u.view, hit.favs = u.favs, hit.level = u.horizon,
         NEW w, w = Installed(u, hit)
  PROVE  /\ w \in Window /\ Len(w.cache) <= CacheCap /\ Filed(w) /\ Current(w)
         /\ w.view = u.view /\ w.favs = u.favs /\ w.horizon = u.horizon
         /\ w.serial = u.serial /\ w.pulse = u.pulse /\ ~w.pending
         /\ (IF w.parked = None THEN w.shown ELSE w.parked) = [key |-> u.view, hit |-> hit]
<1> DEFINE posted == [key |-> u.view, hit |-> hit]
           cache == Put(u.cache, u.view, hit)
           pending == hit.level < u.horizon
           v == [u EXCEPT !.pending = pending, !.cache = cache]
<1>1. /\ u.view \in View /\ u.cache \in Seq(Posted) /\ hit # None /\ u.horizon \in Nat
      /\ hit \in Hit \cup {None}
  BY HitFields, RetrievalAssumption DEF Window
<1>2. /\ posted \in Posted /\ posted \in [key : View, hit : Hit \cup {None}] /\ posted # None
      /\ posted.key = u.view /\ posted.hit = hit
  <2>1. posted \in Posted
    BY <1>1 DEF Posted
  <2> QED
    BY <1>1, <2>1, NoneAssumption
<1>3. posted \notin Misfiled(u.favs)
  BY <1>2 DEF Misfiled
<1>4. cache \in Seq(Posted) /\ Len(cache) <= CacheCap /\ ~Has(cache, Misfiled(u.favs))
  <2>1. Has(cache, Misfiled(u.favs)) => Has(u.cache, Misfiled(u.favs)) \/ posted \in Misfiled(u.favs)
    BY <1>1, PutFacts
  <2>2. cache \in Seq(Posted) /\ Len(cache) <= CacheCap
    BY <1>1, PutFacts
  <2> QED
    BY <1>3, <2>1, <2>2 DEF Filed
<1>5. pending \in BOOLEAN /\ ~pending
  BY <1>1
<1>6. w = IF u.open = {} THEN [v EXCEPT !.shown = posted] ELSE [v EXCEPT !.parked = posted]
  BY DEF Installed, Window
<1> HIDE DEF posted, cache, pending
<1>7. /\ v \in Window /\ v.cache = cache /\ ~v.pending /\ v.view = u.view /\ v.favs = u.favs
      /\ v.horizon = u.horizon /\ v.serial = u.serial /\ v.pulse = u.pulse
      /\ v.shown = u.shown /\ v.parked = u.parked /\ v.open = u.open
  BY <1>4, <1>5 DEF Window
<1> HIDE DEF v
<1>8. CASE u.open = {}
  <2>1. /\ w \in Window /\ w.cache = v.cache /\ w.pending = v.pending /\ w.view = v.view
        /\ w.favs = v.favs /\ w.horizon = v.horizon /\ w.serial = v.serial
        /\ w.pulse = v.pulse /\ w.shown = posted /\ w.parked = v.parked
    <3>1. w = [v EXCEPT !.shown = posted]
      BY <1>6, <1>8
    <3>2. posted \in [key : View, hit : Hit \cup {None}] /\ v \in Window
      BY <1>2, <1>7
    <3>3. w \in Window
      BY <3>1, <3>2 DEF Window
    <3> QED
      BY <3>1, <3>2, <3>3 DEF Window
  <2>2. w.parked = None
    BY <1>7, <1>8, <2>1 DEF Current
  <2>3. Filed(w) /\ Current(w)
    BY <1>2, <1>4, <1>7, <2>1, <2>2 DEF Filed, Current
  <2> QED
    BY <1>4, <1>7, <2>1, <2>2, <2>3 DEF posted
<1>9. CASE u.open # {}
  <2>1. /\ w \in Window /\ w.cache = v.cache /\ w.pending = v.pending /\ w.view = v.view
        /\ w.favs = v.favs /\ w.horizon = v.horizon /\ w.serial = v.serial
        /\ w.pulse = v.pulse /\ w.shown = v.shown /\ w.parked = posted /\ w.open = v.open
    <3>1. w = [v EXCEPT !.parked = posted]
      BY <1>6, <1>9
    <3>2. posted \in Posted \cup {None} /\ v \in Window
      BY <1>2, <1>7
    <3>3. w \in Window
      BY <3>1, <3>2 DEF Window
    <3> QED
      BY <3>1, <3>2, <3>3 DEF Window
  <2>2. Filed(w) /\ Current(w)
    BY <1>2, <1>4, <1>7, <1>9, <2>1 DEF Filed, Current
  <2> QED
    BY <1>2, <1>4, <1>7, <2>1, <2>2 DEF posted
<1> QED
  BY <1>8, <1>9

\* An answer ends the pulse it belongs to.
LEMMA DrainAnswerInv ==
  ASSUME RInv, Drain, Head(events).kind = "answer", Finish(Head(events)),
         UNCHANGED <<gate, heard>>
  PROVE  RInv'
<1>1. events # <<>> /\ events' = Tail(events) /\ UNCHANGED <<job, stock, owed, gate, heard>>
  BY DEF Drain
<1>2. PICK e : e = Head(events)
  OBVIOUS
<1>3. e \in Event /\ e.kind = "answer" /\ e \in Answered
  BY <1>1, <1>2, TailFacts DEF Answered
<1>4. Has(events, Answered) /\ ~Has(events', Answered)
  BY <1>1, <1>2, <1>3, TailFacts
<1>5. ui.pulse.state # "idle" /\ commands = <<>> /\ job = None
  BY <1>4 DEF RInv, OneInv
<1>6. ui.pulse.serial = e.serial
  <2>1. e \notin Stray(ui.pulse.serial)
    BY <1>1, <1>2, TailFacts DEF RInv, OneInv
  <2> QED
    BY <1>3, <2>1 DEF Stray
<1>7. Nudges' \in Nat /\ Nudges' <= Nudges
  <2>1. e \notin News
    BY <1>3 DEF News
  <2>2. Tally(events', News) \in Nat /\ Tally(events', News) <= Tally(events, News)
    BY <1>1, <1>2, <2>1, TailFacts, NudgesType
  <2> QED
    BY <1>1, <2>2, NudgesType, SMTT(30) DEF Nudges
<1>8. Nudges' <= stock' /\ ui.serial + Nudges' <= MaxSerial + ui.horizon + stock'
  <2>1. \A n, m, k, serial, horizon, max \in Nat :
          m <= n /\ n <= k /\ serial + n <= max + horizon + k
          => m <= k /\ serial + m <= max + horizon + k
    OBVIOUS
  <2>2. Nudges <= stock /\ ui.serial + Nudges <= MaxSerial + ui.horizon + stock
    BY DEF RInv, BudgetInv
  <2>3. Nudges' <= stock /\ ui.serial + Nudges' <= MaxSerial + ui.horizon + stock
    BY <1>7, <2>1, <2>2, NudgesType
  <2> QED
    BY <1>1, <2>3
<1>9. Outside'
  BY <1>1, <1>8, TailFacts DEF RInv, TypeInv, Outside, NewsInv
<1> DEFINE pulse == Idle
           u == [ui EXCEPT !.pulse = pulse]
<1>10. pulse \in Pulse /\ pulse.state = "idle"
  BY DEF Pulse, Idle
<1>11. IF ui.pulse.state = "dirty" THEN Dispatch(u)
       ELSE /\ ui' = IF e.serial = ui.serial /\ e.hit # None THEN Installed(u, e.hit)
                     ELSE [u EXCEPT !.dropped = TRUE]
            /\ UNCHANGED commands
  BY <1>2, <1>5, <1>6 DEF Finish
<1>12. ui \in Window /\ Len(ui.cache) <= CacheCap /\ Filed(ui) /\ Current(ui)
  BY DEF RInv, TypeInv
<1> HIDE DEF pulse
<1>13. /\ u \in Window /\ u.pulse = pulse /\ u.view = ui.view /\ u.favs = ui.favs
       /\ u.horizon = ui.horizon /\ u.serial = ui.serial /\ u.cache = ui.cache
       /\ u.shown = ui.shown /\ u.parked = ui.parked /\ u.open = ui.open
  BY <1>10, <1>12 DEF Window
<1> HIDE DEF u
<1>14. Filed(u) /\ Current(u) /\ Len(u.cache) <= CacheCap
  BY <1>12, <1>13 DEF Filed, Current
<1>15. CASE ui.pulse.state = "dirty"
  <2>1. Dispatch(u) /\ u.serial + Nudges' <= MaxSerial + u.horizon + stock'
    BY <1>8, <1>11, <1>13, <1>15
  <2>2. job' = None
    BY <1>1, <1>5
  <2> QED
    BY <1>4, <1>5, <1>9, <1>13, <1>14, <2>1, <2>2, DispatchInv
<1>16. CASE ui.pulse.state # "dirty"
  <2>1. ui.pulse.state = "inflight"
    BY <1>5, <1>12, <1>16 DEF Window, Pulse
  <2>2. e \notin Inapt(ui)
    BY <1>1, <1>2, <2>1, TailFacts DEF RInv, CarryInv
  <2>3. Apt(ui, e)
    BY <1>3, <2>2 DEF Inapt
  <2>4. ~gate.stale => e \notin Behind(heard)
    BY <1>1, <1>2, <2>1, TailFacts DEF RInv, CarryInv
  <2>5. /\ commands' = <<>> /\ commands' \in Seq(Command) /\ Len(commands') <= 1
        /\ DOMAIN commands' = {} /\ job' = None
    BY <1>1, <1>5, <1>11, <1>16
  <2>6. Sole(events', Answered) /\ \A n : ~Has(events', Stray(n))
    BY <1>4, AnswerKinds, HasSubset DEF Sole, Has
  <2>7. ASSUME ui' \in Window, Len(ui'.cache) <= CacheCap, ui'.pulse = pulse,
               ui'.serial = ui.serial, ui'.horizon = ui.horizon,
               Filed(ui'), Current(ui'), QuietIsSettled'
        PROVE  RInv'
    <3>1. TypeInv' /\ BudgetInv' /\ NewsInv'
      BY <1>8, <1>9, <2>5, <2>7 DEF Outside, TypeInv, BudgetInv
    <3>2. OneInv' /\ CarryInv'
      BY <1>4, <1>10, <2>5, <2>6, <2>7 DEF OneInv, CarryInv
    <3>3. Filed(ui)' /\ Current(ui)'
      BY <2>7 DEF Filed, Current
    <3> QED
      BY <2>7, <3>1, <3>2, <3>3 DEF RInv
  <2>8. CASE e.hit # None
    <3>1. ui' = Installed(u, e.hit)
      BY <1>11, <1>16, <2>3, <2>8 DEF Apt
    <3>2. /\ e.hit \in Hit /\ e.hit.view = u.view /\ e.hit.favs = u.favs
          /\ e.hit.level = u.horizon /\ e.hit.whole
      BY <1>3, <1>13, <2>3, <2>8 DEF Apt, Event
    <3> DEFINE posted == [key |-> u.view, hit |-> e.hit]
    <3>3. /\ ui' \in Window /\ Len(ui'.cache) <= CacheCap /\ Filed(ui') /\ Current(ui')
          /\ ui'.view = u.view /\ ui'.favs = u.favs /\ ui'.horizon = u.horizon
          /\ ui'.serial = u.serial /\ ui'.pulse = u.pulse /\ ~ui'.pending
          /\ (IF ui'.parked = None THEN ui'.shown ELSE ui'.parked) = posted
      BY <1>13, <1>14, <3>1, <3>2, InstalledFacts
    <3>4. posted.key = u.view /\ posted.hit = e.hit
      OBVIOUS
    <3>5. e.hit.level >= ui'.horizon
      BY <3>2, <3>3, HitFields, RetrievalAssumption
    <3>6. ~gate'.stale => e.hit.stock >= heard'
      <4>1. e.hit.stock \in Nat /\ heard \in Nat
        BY <3>2, HitFields, NudgesType, RetrievalAssumption
      <4> QED
        BY <1>1, <1>3, <2>4, <2>8, <4>1 DEF Behind
    <3> HIDE DEF posted
    <3>7. QuietIsSettled'
      <4> DEFINE wall == IF ui'.parked = None THEN ui'.shown ELSE ui'.parked
      <4>1. wall = posted
        BY <3>3
      <4>2. /\ wall.key = ui'.view /\ wall.hit # None /\ wall.hit.whole
            /\ wall.hit.level >= ui'.horizon /\ ~ui'.pending
            /\ ~gate'.stale => wall.hit.stock >= heard'
        BY <2>8, <3>2, <3>3, <3>4, <3>5, <3>6, <4>1
      <4> QED
        BY <4>2 DEF QuietIsSettled
    <3> QED
      BY <1>13, <2>7, <3>3, <3>7
  <2>9. CASE e.hit = None
    <3>1. ui' = [u EXCEPT !.dropped = TRUE]
      BY <1>11, <1>16, <2>9
    <3>2. /\ ui' \in Window /\ ui'.pulse = pulse /\ ui'.view = u.view /\ ui'.favs = u.favs
          /\ ui'.horizon = u.horizon /\ ui'.serial = u.serial /\ ui'.cache = u.cache
          /\ ui'.shown = u.shown /\ ui'.parked = u.parked /\ ui'.open = u.open /\ ui'.dropped
      BY <1>13, <3>1 DEF Window
    <3>3. Filed(ui') /\ Current(ui') /\ QuietIsSettled'
      BY <1>14, <3>2 DEF Filed, Current, QuietIsSettled
    <3> QED
      BY <1>13, <1>14, <2>7, <3>2, <3>3
  <2> QED
    BY <2>8, <2>9
<1> QED
  BY <1>15, <1>16

-----------------------------------------------------------------------------
(* The theorems                                                            *)

\* The first window satisfies the invariant.
LEMMA InitInv ==
  Init => RInv
<1> SUFFICES ASSUME Init
             PROVE  RInv
  OBVIOUS
<1>1. PICK view \in View, horizon \in 0..MaxLevel, open \in SUBSET {"viewer"} :
        /\ ui = [view |-> view, favs |-> 0, horizon |-> horizon, pending |-> FALSE,
                 pulse |-> [state |-> "inflight", serial |-> 1], serial |-> 1,
                 shown |-> [key |-> view, hit |-> None], parked |-> None,
                 cache |-> <<>>, open |-> open, dropped |-> FALSE]
        /\ commands = <<[serial |-> 1, view |-> view, favs |-> 0, level |-> horizon]>>
  BY DEF Init
<1>2. /\ gate = [since |-> Gap, stale |-> FALSE] /\ job = None /\ events = <<>>
      /\ stock = 0 /\ owed = FALSE /\ heard = 0
  BY DEF Init
<1>3. /\ MaxLevel \in Nat /\ MaxFavs \in Nat /\ MaxStock \in Nat /\ MaxSerial \in Nat \ {0}
      /\ Gap \in Nat /\ CacheCap \in Nat /\ EventCap \in Nat /\ horizon \in Nat
  BY RetrievalAssumption
<1>4. ui \in Window /\ Len(ui.cache) <= CacheCap
  <2> DEFINE pulse == [state |-> "inflight", serial |-> 1]
             shown == [key |-> view, hit |-> None]
             cache == <<>>
  <2>1. /\ pulse \in Pulse /\ shown \in [key : View, hit : Hit \cup {None}]
        /\ cache \in Seq(Posted) /\ Len(cache) = 0
    BY DEF Pulse
  <2>2. open \in SUBSET {"menu", "viewer"} /\ 0 \in 0..MaxFavs
    BY <1>3
  <2> HIDE DEF pulse, shown, cache
  <2>3. ui = [view |-> view, favs |-> 0, horizon |-> horizon, pending |-> FALSE,
              pulse |-> pulse, serial |-> 1, shown |-> shown, parked |-> None,
              cache |-> cache, open |-> open, dropped |-> FALSE]
    BY <1>1 DEF pulse, shown, cache
  <2> QED
    BY <1>3, <2>1, <2>2, <2>3 DEF Window
<1>5. /\ ui.pulse.state = "inflight" /\ ui.pulse.serial = 1 /\ ui.serial = 1
      /\ ui.view = view /\ ui.favs = 0 /\ ui.horizon = horizon
      /\ ui.shown.hit = None /\ ui.parked = None /\ ui.cache = <<>>
  BY <1>1
<1> DEFINE q == Question(ui)
<1>6. q \in Command /\ q.serial = 1
  BY <1>4, <1>5, QuestionType DEF Question
<1>7. commands = <<q>>
  BY <1>1, <1>5 DEF Question
<1> HIDE DEF q
<1>8. /\ commands \in Seq(Command) /\ Len(commands) = 1 /\ commands # <<>>
      /\ \A i \in DOMAIN commands : commands[i] = q
  BY <1>6, <1>7
<1>9. events \in Seq(Event) /\ Len(events) = 0 /\ \A W : ~Has(events, W) /\ Sole(events, W)
  BY <1>2, EmptyHasNone
<1>10. TypeInv
  <2>1. gate \in [since : 0..Gap, stale : BOOLEAN] /\ job \in Job \cup {None}
    BY <1>2, <1>3
  <2>2. Len(commands) <= 1 /\ Len(events) <= EventCap
    BY <1>3, <1>8, <1>9
  <2>3. stock \in 0..MaxStock /\ owed \in BOOLEAN /\ heard \in 0..stock
    <3>1. 0 \in 0..MaxStock /\ 0 \in 0..0 /\ FALSE \in BOOLEAN
      BY <1>3
    <3>2. stock = 0 /\ heard = 0 /\ owed = FALSE
      BY <1>2
    <3> QED
      BY <3>1, <3>2
  <2> QED
    BY <1>4, <1>8, <1>9, <2>1, <2>2, <2>3 DEF TypeInv
<1>11. Nudges = 0
  BY <1>2, EmptyTally DEF Nudges
<1>12. BudgetInv /\ NewsInv
  BY <1>2, <1>3, <1>5, <1>9, <1>11 DEF BudgetInv, NewsInv
<1>13. OneInv
  BY <1>2, <1>5, <1>6, <1>8, <1>9 DEF OneInv
<1>14. CarryInv
  BY <1>2, <1>8, <1>9 DEF CarryInv, q
<1>15. Filed(ui) /\ Current(ui) /\ QuietIsSettled
  BY <1>5, EmptyHasNone DEF Filed, Current, QuietIsSettled
<1> QED
  BY <1>10, <1>12, <1>13, <1>14, <1>15 DEF RInv

\* A stutter.
LEMMA StutterInv ==
  ASSUME RInv, UNCHANGED vars
  PROVE  RInv'
<1>1. TypeInv' /\ BudgetInv' /\ NewsInv'
  BY DEF vars, RInv, TypeInv, BudgetInv, NewsInv, Nudges
<1>2. OneInv'
  BY DEF vars, RInv, OneInv
<1>3. Inapt(ui)' = Inapt(ui) /\ Question(ui)' = Question(ui)
  BY DEF vars, Inapt, Apt, Question
<1>4. CarryInv'
  BY <1>3 DEF vars, RInv, CarryInv
<1>5. Filed(ui)' /\ Current(ui)' /\ QuietIsSettled'
  BY DEF vars, RInv, Filed, Current, QuietIsSettled
<1> QED
  BY <1>1, <1>2, <1>4, <1>5 DEF RInv

\* Draining an event of any kind.
LEMMA DrainInv ==
  ASSUME RInv, Drain
  PROVE  RInv'
<1>1. \/ Head(events).kind = "answer" /\ Finish(Head(events)) /\ UNCHANGED <<gate, heard>>
      \/ /\ Head(events).kind = "news" /\ Nudge
         /\ heard' = Larger(heard, Head(events).stock)
      \/ Head(events).kind = "mute" /\ UNCHANGED <<ui, gate, commands, heard>>
  BY DEF Drain
<1> QED
  BY <1>1, DrainAnswerInv, DrainNewsInv, DrainMuteInv

\* The inductive invariant behind the theorems below: one search is under way, it
\* asks today's question unless the pulse is dirty, and what it will answer is as
\* fresh as the news that was heard (request_refresh, dispatch_refresh,
\* finish_refresh and nudge_refresh of refresh.rs; HitCache of app.rs).
THEOREM Invariance ==
  Spec => []RInv
<1>1. Init => RInv
  BY InitInv
<1>2. RInv /\ [Next]_vars => RInv'
  <2> SUFFICES ASSUME RInv, [Next]_vars
               PROVE  RInv'
    OBVIOUS
  <2>1. ASSUME NEW view \in View, ChangeView(view)
        PROVE  RInv'
    BY <2>1, ChangeViewInv
  <2>2. CASE ToggleFavorite
    BY <2>2, ToggleFavoriteInv
  <2>3. CASE Deepen
    BY <2>3, DeepenInv
  <2>4. ASSUME NEW what \in {"menu", "viewer"}, Open(what)
        PROVE  RInv'
    BY <2>4, OpenInv
  <2>5. ASSUME NEW what \in {"menu", "viewer"}, Close(what)
        PROVE  RInv'
    BY <2>5, CloseInv
  <2>6. CASE Collect
    BY <2>6, CollectInv
  <2>7. CASE Search
    BY <2>7, SearchStepInv
  <2>8. CASE Answer
    BY <2>8, AnswerInv
  <2>9. CASE Absorb
    BY <2>9, AbsorbInv
  <2>10. CASE Tell
    BY <2>10, TellInv
  <2>11. CASE Drain
    BY <2>11, DrainInv
  <2>12. CASE Tick
    BY <2>12, TickInv
  <2>13. CASE UNCHANGED vars
    BY <2>13, StutterInv
  <2> QED
    BY <2>1, <2>2, <2>3, <2>4, <2>5, <2>6, <2>7, <2>8, <2>9, <2>10, <2>11, <2>12, <2>13
    DEF Next
<1> QED
  BY <1>1, <1>2, PTL DEF Spec

\* Every queue, cache and counter of the window and its lane keeps its bound: the
\* hit cache its limit, the lane one search, the serial the requests that a user,
\* a deepening wall and the news can make (HitCache::put, app.rs; request_refresh).
THEOREM TypeCorrect ==
  Spec => []TypeOK
<1>1. ASSUME RInv
      PROVE  TypeOK
  <2>1. /\ ui \in Window /\ gate \in [since : 0..Gap, stale : BOOLEAN]
        /\ commands \in Seq(Command) /\ Len(commands) <= 1 /\ job \in Job \cup {None}
        /\ events \in Seq(Event) /\ Len(events) <= EventCap /\ Len(ui.cache) <= CacheCap
        /\ stock \in 0..MaxStock /\ owed \in BOOLEAN /\ heard \in 0..stock
    BY <1>1 DEF RInv, TypeInv
  <2>2. ui.serial \in 0..(MaxSerial + MaxLevel + MaxStock)
    <3>1. \A serial, n, horizon, k, a, b, c \in Nat :
            serial + n <= a + horizon + k /\ horizon <= b /\ k <= c => serial \in 0..(a + b + c)
      OBVIOUS
    <3>2. /\ MaxLevel \in Nat /\ ui.horizon <= MaxLevel /\ stock <= MaxStock
          /\ ui.serial + Nudges <= MaxSerial + ui.horizon + stock
      BY <1>1, <2>1, RetrievalAssumption DEF Window, RInv, BudgetInv
    <3> QED
      BY <1>1, <3>1, <3>2, NudgesType
  <2> QED
    BY <2>1, <2>2 DEF TypeOK, Window
<1> QED
  BY <1>1, Invariance, PTL

\* What is parked while a menu or the viewer is open answers what is asked when it
\* closes (release_parked_hit).
THEOREM ParkedAnswersNow ==
  Spec => []ParkedIsCurrent
<1>1. RInv => ParkedIsCurrent
  BY DEF RInv, Current, ParkedIsCurrent
<1> QED
  BY <1>1, Invariance, PTL

\* No hit is shown or remembered under another key than it was searched for, or
\* parted by favourites of before a toggle (install_hit, remember_hit, restore_hit).
THEOREM HitsAreFiled ==
  Spec => []FiledUnderItsKey
<1>1. ASSUME RInv
      PROVE  FiledUnderItsKey
  <2>1. ui.cache \in Seq(Posted) /\ ~Has(ui.cache, Misfiled(ui.favs))
    BY <1>1 DEF RInv, TypeInv, Window, Filed
  <2>2. \A i \in DOMAIN ui.cache : ui.cache[i] \in Posted \ Misfiled(ui.favs)
    BY <2>1 DEF Has
  <2> QED
    BY <1>1, <2>2 DEF FiledUnderItsKey, RInv, Filed, Misfiled
<1> QED
  BY <1>1, Invariance, PTL

\* The pulse and the lane agree: a pulse that is not idle has exactly one search
\* under way, the one it waits for (AsyncPulse, refresh_loop).
THEOREM SearchIsSingle ==
  Spec => []OneSearchUnderway
<1>1. ASSUME RInv
      PROVE  OneSearchUnderway
  <2>1. /\ events \in Seq(Event) /\ commands \in Seq(Command) /\ Len(commands) <= 1 /\ OneInv
    BY <1>1 DEF RInv, TypeInv
  <2>2. Answers = {i \in DOMAIN events : events[i] \in Answered}
    <3>1. \A i \in DOMAIN events : events[i] \in Event
      BY <2>1
    <3> QED
      BY <3>1 DEF Answers, Answered
  <2>3. Cardinality(Answers) = IF Has(events, Answered) THEN 1 ELSE 0
    BY <2>1, <2>2, SoleCount DEF OneInv
  <2>4. Len(commands) = IF commands = <<>> THEN 0 ELSE 1
    <3>1. CASE commands = <<>>
      BY <3>1
    <3>2. CASE commands # <<>>
      <4>1. Len(commands) \in Nat /\ Len(commands) # 0 /\ Len(commands) <= 1
        BY <2>1, <3>2
      <4> QED
        BY <3>2, <4>1, SMTT(30)
    <3> QED
      BY <3>1, <3>2
  <2>5. Underway = IF ui.pulse.state = "idle" THEN 0 ELSE 1
    BY <2>1, <2>3, <2>4 DEF Underway, OneInv
  <2>6. \A i \in Answers : events[i].serial = ui.pulse.serial
    BY <2>1, <2>2 DEF OneInv, Has, Stray, Answered
  <2> QED
    BY <2>1, <2>5, <2>6 DEF OneInv, OneSearchUnderway
<1> QED
  BY <1>1, Invariance, PTL

\* A window that waits for nothing and lost no request shows, or holds parked, the
\* answer to what is asked now, over all the news it heard (finish_refresh,
\* install_refresh, nudge_refresh).
THEOREM QuietShowsTheAnswer ==
  Spec => []QuietIsSettled
<1>1. RInv => QuietIsSettled
  BY DEF RInv
<1> QED
  BY <1>1, Invariance, PTL
=============================================================================
