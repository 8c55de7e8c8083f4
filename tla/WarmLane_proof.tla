--------------------------- MODULE WarmLane_proof ---------------------------
(***************************************************************************)
(* Proofs about WarmLane, for every value of its constants: the cursors    *)
(* step over no page, and each one in flight is carried exactly once.      *)
(***************************************************************************)
EXTENDS WarmLane, Queue_proof

Pages == Nat \ {0}

Command ==
    [kind : {"warm"}, key : Key, first : Pages, pages : Pages]
    \cup [kind : {"refetch"}, id : Post]

WarmAnswer ==
    [kind : {"warmed"}, key : Key, first : Pages, pages : Nat, exhausted : BOOLEAN]
    \cup [kind : {"warmfault"}, key : Key, first : Pages, pages : Pages]

Event ==
    WarmAnswer \cup [kind : {"refetched"}, id : Post] \cup [kind : {"news", "crawled"}]

Desk ==
    [kind : {"idle"}]
    \cup [kind : {"warming"}, key : Key, first : Pages, pages : Pages, done : Nat]
    \cup [kind : {"refetch"}, id : Post]
    \cup [kind : {"telling"}, event : Event]

Cursor == [next : Pages, stride : Pages, state : {"idle", "inflight", "exhausted"}]
Ledger == [active : Key, cursor : [Key -> Cursor]]
View ==
    [query : Query, sort : Sort, dates : BOOLEAN, favorites : BOOLEAN, mirror : BOOLEAN]

TypeInv ==
    /\ view \in View
    /\ ledger \in Ledger
    /\ channel \in Seq(Command)
    /\ desk \in Desk
    /\ events \in Seq(Event)
    /\ absorbed \in [Key -> SUBSET Nat]

\* Every page of k below n that upstream has is in the index.
Filled(k, n) == \A page \in 1..(n - 1) : page <= Upstream(k) => page \in absorbed[k]

\* A command starts where its key is filled, and what an answer tells of is.
FilledCommand == {c \in Command : c.kind = "warm" => Filled(c.key, c.first)}
FilledEvent == {e \in Event : e.kind = "warmed" => Filled(e.key, e.first + e.pages)}

GapInv ==
    /\ \A k \in Key : Filled(k, ledger.cursor[k].next)
    /\ channel \in Seq(FilledCommand)
    /\ desk.kind = "warming" => Filled(desk.key, desk.first + desk.done)
    /\ desk.kind = "telling" => desk.event \in FilledEvent
    /\ events \in Seq(FilledEvent)

Asking(k) == {c \in Command : Asks(c, k)}
Answering(k) == {e \in Event : Answers(e, k)}

\* One command, fetch or answer for k when its cursor is in flight, else none.
Carriage(k, led, ch, d, ev) ==
    /\ Sole(ch, Asking(k))
    /\ Sole(ev, Answering(k))
    /\ ~(Has(ch, Asking(k)) /\ Works(d, k))
    /\ ~(Has(ch, Asking(k)) /\ Has(ev, Answering(k)))
    /\ ~(Works(d, k) /\ Has(ev, Answering(k)))
    /\ led.cursor[k].state = "inflight"
           <=> Has(ch, Asking(k)) \/ Works(d, k) \/ Has(ev, Answering(k))

CarryInv == \A k \in Key : Carriage(k, ledger, channel, desk, events)

WInv == TypeInv /\ GapInv /\ CarryInv

-----------------------------------------------------------------------------
(* What every later proof needs of the operators.                          *)

\* The lesser and the larger of two numbers are among them.
LEMMA LesserIsOne ==
  ASSUME NEW a \in Nat, NEW b \in Nat
  PROVE  Min({a, b}) \in {a, b} /\ Max({a, b}) \in {a, b}
<1>1. \E x \in {a, b} : \A y \in {a, b} : x <= y
  OBVIOUS
<1>2. \E x \in {a, b} : \A y \in {a, b} : x >= y
  OBVIOUS
<1> QED
  BY <1>1, <1>2 DEF Min, Max

\* Every view has a key.
LEMMA KeysOfViews ==
  ASSUME NEW v \in View
  PROVE  KeyOf(v) \in Key
BY DEF View, KeyOf, Key

\* Arming moves no cursor, and puts in flight only one that can be sent.
LEMMA ArmedDoes ==
  ASSUME NEW c \in Cursor
  PROVE  /\ Armed(c) \in Cursor
         /\ Armed(c).next = c.next
         /\ (Armed(c).state = "inflight") <=> (Ready(c) /\ HasRoom) \/ c.state = "inflight"
<1> DEFINE s == CASE Ready(c) /\ HasRoom -> "inflight"
                  [] c.state = "idle" /\ c.next > PageLimit -> "exhausted"
                  [] OTHER -> c.state
<1>1. c.state \in {"idle", "inflight", "exhausted"} /\ c.next \in Nat /\ PageLimit \in Nat
  BY WarmAssumption DEF Cursor, Pages
<1>2. CASE Ready(c) /\ HasRoom
  <2>1. s = "inflight"
    BY <1>1, <1>2 DEF Ready
  <2> QED
    BY <1>2, <2>1 DEF Armed, Cursor
<1>3. CASE c.state = "idle" /\ c.next > PageLimit
  <2>1. s = "exhausted"
    BY <1>1, <1>3 DEF Ready
  <2> QED
    BY <1>1, <1>3, <2>1 DEF Armed, Cursor, Ready
<1>4. CASE ~(Ready(c) /\ HasRoom) /\ ~(c.state = "idle" /\ c.next > PageLimit)
  <2>1. s = c.state
    BY <1>4
  <2> QED
    BY <1>1, <1>4, <2>1 DEF Armed, Cursor
<1> QED
  BY <1>2, <1>3, <1>4

\* What a dispatch does to a ledger and to the channel: it sends the next pages
\* of an idle cursor and marks it, or it puts no cursor in flight; either way
\* no cursor moves.
LEMMA DispatchDoes ==
  ASSUME NEW led \in Ledger, NEW v \in View, NEW pages \in Pages,
         channel \in Seq(Command), DispatchWarm(led, v, pages)
  PROVE  /\ ledger' \in Ledger
         /\ channel' \in Seq(Command)
         /\ \A j \in Key : ledger'.cursor[j].next = led.cursor[j].next
         /\ \/ /\ channel' = channel
               /\ \A j \in Key : ledger'.cursor[j].state = "inflight"
                                     <=> led.cursor[j].state = "inflight"
            \/ \E k \in Key, n \in Pages :
                 /\ led.cursor[k].state = "idle"
                 /\ channel' = Append(channel, WarmCommand(k, led.cursor[k].next, n))
                 /\ \A j \in Key : ledger'.cursor[j].state = "inflight"
                                     <=> j = k \/ led.cursor[j].state = "inflight"
<1>1. CASE Suspended(v)
  BY <1>1 DEF DispatchWarm
<1>2. CASE ~Suspended(v)
  <2> DEFINE k == KeyOf(v)
             c == [led.cursor[k] EXCEPT !.stride = Max({@, pages})]
  <2>1. k \in Key
    BY KeysOfViews
  <2>2. c \in Cursor /\ c.next = led.cursor[k].next /\ c.state = led.cursor[k].state
    <3>1. led.cursor[k] \in Cursor
      BY <2>1 DEF Ledger
    <3>2. Max({led.cursor[k].stride, pages}) \in Pages
      BY <3>1, LesserIsOne DEF Cursor, Pages
    <3> QED
      BY <3>1, <3>2 DEF Cursor
  <2>3. /\ ledger' = [Activate(led, k) EXCEPT !.cursor[k] = Armed(c)]
        /\ channel' = IF Ready(c) /\ HasRoom
                      THEN Append(channel, WarmCommand(k, c.next, Batch(c)))
                      ELSE channel
    BY <1>2 DEF DispatchWarm
  <2>4. /\ Armed(c) \in Cursor /\ Armed(c).next = c.next
        /\ Armed(c).state = "inflight" <=> (Ready(c) /\ HasRoom) \/ c.state = "inflight"
    BY <2>2, ArmedDoes
  <2>5. ledger' = [led EXCEPT !.active = k, !.cursor = [led.cursor EXCEPT ![k] = Armed(c)]]
    BY <2>3 DEF Activate, Ledger
  <2>6. ledger' \in Ledger /\ ledger'.cursor = [led.cursor EXCEPT ![k] = Armed(c)]
    BY <2>1, <2>4, <2>5 DEF Ledger
  <2>7. /\ \A j \in Key : ledger'.cursor[j].next = led.cursor[j].next
        /\ \A j \in Key \ {k} : ledger'.cursor[j].state = led.cursor[j].state
        /\ ledger'.cursor[k].state = Armed(c).state
    BY <2>1, <2>2, <2>4, <2>6 DEF Ledger
  <2>8. CASE Ready(c) /\ HasRoom
    <3>1. Batch(c) \in Pages
      <4>1. PageLimit - c.next + 1 \in Pages
        BY <2>2, <2>8, WarmAssumption, SMTT(30) DEF Ready, Cursor, Pages
      <4> QED
        BY <2>2, <4>1, LesserIsOne DEF Batch, Cursor, Pages
    <3>2. WarmCommand(k, c.next, Batch(c)) \in Command
      BY <2>1, <2>2, <3>1 DEF WarmCommand, Command, Cursor
    <3>3. led.cursor[k].state = "idle"
      BY <2>2, <2>8 DEF Ready
    <3> HIDE DEF c, k
    <3>4. channel' = Append(channel, WarmCommand(k, led.cursor[k].next, Batch(c)))
      BY <2>2, <2>3, <2>8
    <3>5. channel' \in Seq(Command)
      BY <2>2, <3>2, <3>4
    <3>6. \A j \in Key : ledger'.cursor[j].state = "inflight"
                            <=> j = k \/ led.cursor[j].state = "inflight"
      BY <2>1, <2>4, <2>7, <2>8
    <3> QED
      BY <2>1, <2>6, <2>7, <3>1, <3>3, <3>4, <3>5, <3>6
  <2>9. CASE ~(Ready(c) /\ HasRoom)
    <3> HIDE DEF c, k
    <3> QED
      BY <2>1, <2>2, <2>3, <2>4, <2>6, <2>7, <2>9
  <2> QED
    BY <2>8, <2>9
<1> QED
  BY <1>1, <1>2

\* A dispatch sends from where its cursor stands, so the command starts filled.
LEMMA DispatchFills ==
  ASSUME NEW led \in Ledger, NEW v \in View, NEW pages \in Pages,
         channel \in Seq(Command), DispatchWarm(led, v, pages), UNCHANGED absorbed,
         channel \in Seq(FilledCommand), \A k \in Key : Filled(k, led.cursor[k].next)
  PROVE  /\ channel' \in Seq(FilledCommand')
         /\ \A k \in Key : Filled(k, ledger.cursor[k].next)'
<1>1. \A k \in Key : ledger'.cursor[k].next = led.cursor[k].next
  BY DispatchDoes
<1>2. FilledCommand' = FilledCommand /\ \A k, n : Filled(k, n)' <=> Filled(k, n)
  BY DEF FilledCommand, Filled
<1>3. \A k \in Key, n \in Pages : WarmCommand(k, led.cursor[k].next, n) \in FilledCommand
  BY DEF FilledCommand, Command, WarmCommand, Ledger, Cursor
<1>4. channel' \in Seq(FilledCommand)
  BY <1>3, DispatchDoes
<1> QED
  BY <1>1, <1>2, <1>4 DEF Filled

\* A dispatch puts a cursor in flight together with its command.
LEMMA DispatchCarries ==
  ASSUME NEW led \in Ledger, NEW v \in View, NEW pages \in Pages,
         channel \in Seq(Command), DispatchWarm(led, v, pages),
         NEW d, NEW ev, \A k \in Key : Carriage(k, led, channel, d, ev)
  PROVE  \A k \in Key : Carriage(k, ledger', channel', d, ev)
<1>1. CASE /\ channel' = channel
           /\ \A j \in Key : ledger'.cursor[j].state = "inflight"
                                 <=> led.cursor[j].state = "inflight"
  BY <1>1 DEF Carriage
<1>2. ASSUME NEW k \in Key, NEW n \in Pages,
             led.cursor[k].state = "idle",
             channel' = Append(channel, WarmCommand(k, led.cursor[k].next, n)),
             \A j \in Key : ledger'.cursor[j].state = "inflight"
                               <=> j = k \/ led.cursor[j].state = "inflight"
      PROVE  \A j \in Key : Carriage(j, ledger', channel', d, ev)
  <2> DEFINE c == WarmCommand(k, led.cursor[k].next, n)
  <2>1. c \in Command
    BY DEF Command, WarmCommand, Ledger, Cursor
  <2>2. \A j \in Key : c \in Asking(j) <=> j = k
    BY <2>1 DEF Asking, Asks, WarmCommand
  <2> HIDE DEF c
  <2>3. /\ \A j \in Key : Has(channel', Asking(j)) <=> Has(channel, Asking(j)) \/ j = k
        /\ \A j \in Key : j # k /\ Sole(channel, Asking(j)) => Sole(channel', Asking(j))
    BY <1>2, <2>1, <2>2, AppendHas, AppendSole DEF c
  <2>4. ~Has(channel, Asking(k)) /\ ~Works(d, k) /\ ~Has(ev, Answering(k))
    BY <1>2 DEF Carriage
  <2>5. Sole(channel', Asking(k))
    BY <1>2, <2>1, <2>4, AppendSole DEF Carriage, c
  <2> QED
    BY <1>2, <2>3, <2>4, <2>5 DEF Carriage
<1> QED
  BY <1>1, <1>2, DispatchDoes

-----------------------------------------------------------------------------
(* The actions                                                             *)

\* No cursor yet.
LEMMA InitInv == Init => WInv
<1> SUFFICES ASSUME Init PROVE WInv
  OBVIOUS
<1> DEFINE k0 == KeyOf(view)
           c0 == [next |-> 1, stride |-> AutoWarmPages, state |-> "idle"]
           fresh == [active |-> k0, cursor |-> [j \in Key |-> c0]]
<1>1. view \in View /\ k0 \in Key
  BY WarmAssumption, KeysOfViews DEF Init, View
<1>2. c0 \in Cursor /\ fresh \in Ledger
  BY <1>1, WarmAssumption DEF Cursor, Ledger, Pages
<1>3. Batch(c0) \in Pages
  <2>1. PageLimit - 1 + 1 \in Pages
    BY WarmAssumption DEF Pages
  <2> QED
    BY <2>1, LesserIsOne, WarmAssumption DEF Batch, Pages
<1>4. /\ desk = Idle /\ events = <<>> /\ absorbed = [k \in Key |-> {}]
      /\ \A k \in Key : Filled(k, 1)
  BY DEF Init, Filled
<1>5. desk \in Desk /\ events \in Seq(Event) /\ events \in Seq(FilledEvent)
      /\ absorbed \in [Key -> SUBSET Nat]
  BY <1>4 DEF Desk, Idle
<1>6. \A k \in Key : ~Works(desk, k) /\ ~Has(events, Answering(k)) /\ Sole(events, Answering(k))
  BY <1>4, EmptyHasNone DEF Works, Idle
<1>7. CASE Suspended(view)
  <2>1. ledger = fresh /\ channel = <<>>
    BY <1>7 DEF Init
  <2>2. \A k \in Key : ledger.cursor[k] = c0
    BY <2>1
  <2>3. TypeInv
    BY <1>1, <1>2, <1>5, <2>1 DEF TypeInv
  <2>4. GapInv
    BY <1>4, <1>5, <2>1, <2>2 DEF GapInv, Idle
  <2>5. CarryInv
    BY <1>6, <2>1, <2>2, EmptyHasNone DEF CarryInv, Carriage
  <2> QED
    BY <2>3, <2>4, <2>5 DEF WInv
<1>8. CASE ~Suspended(view)
  <2> DEFINE w == WarmCommand(k0, 1, Batch(c0))
  <2>1. ledger = [fresh EXCEPT !.cursor[k0].state = "inflight"] /\ channel = <<w>>
    BY <1>8 DEF Init
  <2>2. /\ ledger \in Ledger
        /\ \A k \in Key : ledger.cursor[k].next = 1
        /\ \A k \in Key : ledger.cursor[k].state = "inflight" <=> k = k0
    BY <1>1, <1>2, <2>1 DEF Ledger, Cursor
  <2>3. w \in Command /\ w \in FilledCommand
    BY <1>1, <1>3, <1>4 DEF WarmCommand, Command, FilledCommand, Pages
  <2>4. \A k \in Key : w \in Asking(k) <=> k = k0
    BY <2>3 DEF Asking, Asks, WarmCommand
  <2> HIDE DEF w
  <2>5. channel \in Seq(Command) /\ channel \in Seq(FilledCommand) /\ channel = Append(<<>>, w)
    BY <2>1, <2>3
  <2>6. \A k \in Key : Sole(channel, Asking(k)) /\ (Has(channel, Asking(k)) <=> k = k0)
    <3> SUFFICES ASSUME NEW k \in Key
                 PROVE  Sole(channel, Asking(k)) /\ (Has(channel, Asking(k)) <=> k = k0)
      OBVIOUS
    <3>1. <<>> \in Seq(Command) /\ Sole(<<>>, Asking(k)) /\ ~Has(<<>>, Asking(k))
      BY EmptyHasNone
    <3>2. Sole(Append(<<>>, w), Asking(k))
      BY <2>3, <3>1, AppendSole
    <3>3. Has(Append(<<>>, w), Asking(k)) <=> w \in Asking(k)
      BY <2>3, <3>1, AppendHas
    <3> QED
      BY <2>4, <2>5, <3>2, <3>3
  <2>7. TypeInv
    BY <1>1, <1>5, <2>2, <2>5 DEF TypeInv
  <2>8. GapInv
    <3>1. \A k \in Key : Filled(k, ledger.cursor[k].next)
      BY <1>4, <2>2
    <3>2. desk.kind = "idle"
      BY <1>4 DEF Idle
    <3> QED
      BY <1>5, <2>5, <3>1, <3>2 DEF GapInv
  <2>9. CarryInv
    <3> SUFFICES ASSUME NEW k \in Key PROVE Carriage(k, ledger, channel, desk, events)
      BY DEF CarryInv
    <3>1. ledger.cursor[k].state = "inflight" <=> k = k0
      BY <2>2
    <3> QED
      BY <1>6, <2>6, <3>1 DEF Carriage
  <2> QED
    BY <2>7, <2>8, <2>9 DEF WInv
<1> QED
  BY <1>7, <1>8

\* A step that leaves the ledger and its commands alone.
LEMMA AsideInv ==
  ASSUME WInv, view' \in View, UNCHANGED <<ledger, channel, desk, events, absorbed>>
  PROVE  WInv'
<1>1. TypeInv'
  BY DEF WInv, TypeInv
<1>2. GapInv'
  BY DEF WInv, GapInv, FilledCommand, FilledEvent, Filled
<1>3. CarryInv'
  BY DEF WInv, CarryInv, Carriage
<1> QED
  BY <1>1, <1>2, <1>3 DEF WInv

\* The window dispatches from a ledger whose cursors it has not touched.
LEMMA DispatchInv ==
  ASSUME WInv, view' \in View, UNCHANGED <<desk, events, absorbed>>,
         NEW led \in Ledger, led.cursor = ledger.cursor, NEW v \in View,
         NEW pages \in Pages, DispatchWarm(led, v, pages)
  PROVE  WInv'
<1>1. TypeInv'
  BY DispatchDoes DEF WInv, TypeInv
<1>2. GapInv'
  <2>1. \A k \in Key : Filled(k, led.cursor[k].next)
    BY DEF WInv, GapInv
  <2>2. /\ channel' \in Seq(FilledCommand')
        /\ \A k \in Key : Filled(k, ledger.cursor[k].next)'
    BY <2>1, DispatchFills DEF WInv, TypeInv, GapInv
  <2>3. FilledEvent' = FilledEvent /\ \A k, n : Filled(k, n)' <=> Filled(k, n)
    BY DEF FilledEvent, Filled
  <2> QED
    BY <2>2, <2>3 DEF WInv, GapInv
<1>3. CarryInv'
  <2>1. \A k \in Key : Carriage(k, led, channel, desk, events)
    BY DEF WInv, CarryInv, Carriage
  <2>2. \A k \in Key : Carriage(k, ledger', channel', desk, events)
    BY <2>1, DispatchCarries DEF WInv, TypeInv
  <2> QED
    BY <2>2 DEF CarryInv
<1> QED
  BY <1>1, <1>2, <1>3 DEF WInv

\* Learning the groups of tags from a post.
LEMMA LearnTagGroupsInv == ASSUME WInv, NEW p \in Post, LearnTagGroups(p) PROVE WInv'
<1>1. CASE ~HasRoom
  BY <1>1, AsideInv DEF LearnTagGroups, WInv, TypeInv
<1>2. CASE HasRoom
  <2> DEFINE r == Refetch(p)
  <2>1. channel' = Append(channel, r) /\ UNCHANGED <<view, ledger, desk, events, absorbed>>
    BY <1>2 DEF LearnTagGroups
  <2>2. r \in Command /\ r \in FilledCommand /\ \A k \in Key : r \notin Asking(k)
    BY DEF Refetch, Command, FilledCommand, Asking, Asks
  <2> HIDE DEF r
  <2>3. TypeInv'
    BY <2>1, <2>2 DEF WInv, TypeInv
  <2>4. GapInv'
    BY <2>1, <2>2 DEF WInv, GapInv, FilledCommand, FilledEvent, Filled
  <2>5. CarryInv'
    <3> SUFFICES ASSUME NEW k \in Key
                 PROVE  Carriage(k, ledger, Append(channel, r), desk, events)
      BY <2>1 DEF CarryInv
    <3>1. channel \in Seq(Command) /\ Carriage(k, ledger, channel, desk, events)
      BY DEF WInv, TypeInv, CarryInv
    <3>2. Has(Append(channel, r), Asking(k)) <=> Has(channel, Asking(k))
      BY <2>2, <3>1, AppendHas
    <3>3. Sole(Append(channel, r), Asking(k))
      BY <2>2, <3>1, AppendSole DEF Carriage
    <3> QED
      BY <3>1, <3>2, <3>3 DEF Carriage
  <2> QED
    BY <2>3, <2>4, <2>5 DEF WInv
<1> QED
  BY <1>1, <1>2

\* The acts of the user.
LEMMA UserActsInv == ASSUME WInv, UserActs PROVE WInv'
<1>0. view \in View /\ ledger \in Ledger /\ AutoWarmPages \in Pages
  BY WarmAssumption DEF WInv, TypeInv, Pages
<1>1. ASSUME NEW q \in Query, NEW favorites \in BOOLEAN, InstallQuery(q, favorites)
      PROVE  WInv'
  <2> DEFINE led == Activate(ledger, KeyOf(view'))
  <2>1. view' \in View
    BY <1>0, <1>1 DEF InstallQuery, View
  <2>2. led \in Ledger /\ led.cursor = ledger.cursor
    BY <1>0, <2>1, KeysOfViews DEF Activate, Ledger
  <2>3. DispatchWarm(led, view', AutoWarmPages) /\ UNCHANGED <<desk, events, absorbed>>
    BY <1>1 DEF InstallQuery
  <2> HIDE DEF led
  <2> QED
    BY <1>0, <2>1, <2>2, <2>3, DispatchInv
<1>2. CASE InstallDates
  <2>1. view' \in View
    BY <1>0, <1>2 DEF InstallDates, View
  <2> QED
    BY <1>0, <1>2, <2>1, AsideInv, DispatchInv DEF InstallDates
<1>3. ASSUME NEW s \in Sort, InstallSort(s)
      PROVE  WInv'
  <2>1. view' \in View
    BY <1>0, <1>3 DEF InstallSort, View
  <2> QED
    BY <1>0, <1>3, <2>1, DispatchInv DEF InstallSort
<1>4. CASE TurnValve
  <2>1. view' \in View
    BY <1>0, <1>4 DEF TurnValve, View
  <2> QED
    BY <1>4, <2>1, AsideInv DEF TurnValve
<1>5. ASSUME NEW p \in Post, LearnTagGroups(p)
      PROVE  WInv'
  BY <1>5, LearnTagGroupsInv
<1> QED
  BY <1>1, <1>2, <1>3, <1>4, <1>5 DEF UserActs

\* The thread takes a command: what was on its way is now at work.
LEMMA ReceiveInv == ASSUME WInv, Receive PROVE WInv'
<1> DEFINE c == Head(channel)
<1>1. /\ desk = Idle /\ channel # <<>> /\ channel' = Tail(channel)
      /\ desk' = IF c.kind = "warm" THEN Warming(c, 0) ELSE c
      /\ UNCHANGED <<view, ledger, events, absorbed>>
  BY DEF Receive
<1>2. c \in Command /\ c \in FilledCommand /\ channel \in Seq(Command)
  BY <1>1 DEF WInv, TypeInv, GapInv
<1> HIDE DEF c
<1>3. /\ desk' \in Desk
      /\ desk'.kind = "warming" => Filled(desk'.key, desk'.first + desk'.done)
      /\ desk'.kind # "telling"
  BY <1>1, <1>2 DEF Command, FilledCommand, Desk, Warming, Pages
<1>4. \A k \in Key : Works(desk', k) <=> c \in Asking(k)
  BY <1>1, <1>2, <1>3 DEF Works, Asking, Asks, Warming, Command
<1>5. TypeInv'
  BY <1>1, <1>3 DEF WInv, TypeInv
<1>6. GapInv'
  <2>1. channel' \in Seq(FilledCommand)
    BY <1>1 DEF WInv, GapInv
  <2> QED
    BY <1>1, <1>3, <2>1 DEF WInv, GapInv, FilledCommand, FilledEvent, Filled
<1>7. CarryInv'
  <2> SUFFICES ASSUME NEW k \in Key
               PROVE  Carriage(k, ledger, Tail(channel), desk', events)
    BY <1>1 DEF CarryInv
  <2>1. Carriage(k, ledger, channel, desk, events) /\ ~Works(desk, k)
    BY <1>1 DEF WInv, CarryInv, Works, Idle
  <2>2. Has(channel, Asking(k)) <=> c \in Asking(k) \/ Has(Tail(channel), Asking(k))
    BY <1>1, <1>2, TailHas DEF c
  <2>3. /\ Sole(Tail(channel), Asking(k))
        /\ c \in Asking(k) => ~Has(Tail(channel), Asking(k))
    BY <1>1, <1>2, <2>1, TailSole DEF c, Carriage
  <2> QED
    BY <1>4, <2>1, <2>2, <2>3 DEF Carriage
<1> QED
  BY <1>5, <1>6, <1>7 DEF WInv

\* The thread goes on with what it holds, and the index may gain pages.
LEMMA DeskInv ==
  ASSUME WInv, UNCHANGED <<view, ledger, channel, events>>, desk' \in Desk,
         absorbed' \in [Key -> SUBSET Nat],
         \A k \in Key : absorbed[k] \subseteq absorbed'[k],
         \A k \in Key : Works(desk', k) <=> Works(desk, k),
         desk'.kind = "warming" => Filled(desk.key, desk.first + desk.done)',
         desk'.kind = "telling" => desk'.event \in FilledEvent'
  PROVE  WInv'
<1>1. TypeInv'
  BY DEF WInv, TypeInv
<1>2. \A k \in Key : \A n : Filled(k, n) => Filled(k, n)'
  BY DEF Filled
<1>3. GapInv'
  <2>1. FilledCommand \subseteq FilledCommand' /\ FilledEvent \subseteq FilledEvent'
    BY <1>2 DEF FilledCommand, FilledEvent, Command, Event, WarmAnswer
  <2>2. channel' \in Seq(FilledCommand') /\ events' \in Seq(FilledEvent')
    BY <2>1, SeqWiden DEF WInv, GapInv
  <2>3. \A k \in Key : Filled(k, ledger.cursor[k].next)'
    BY <1>2 DEF WInv, GapInv
  <2> QED
    BY <2>2, <2>3 DEF GapInv
<1>4. CarryInv'
  BY DEF WInv, CarryInv, Carriage
<1> QED
  BY <1>1, <1>3, <1>4 DEF WInv

\* A page that upstream lacks, or that reached the index, fills one page more.
LEMMA FillsOneMore ==
  ASSUME NEW k \in Key, NEW n \in Pages, Filled(k, n), absorbed[k] \subseteq absorbed'[k],
         n <= Upstream(k) => n \in absorbed'[k]
  PROVE  Filled(k, n + 1)'
<1>1. \A p \in 1..(n + 1 - 1) : p \in 1..(n - 1) \/ p = n
  BY DEF Pages
<1>2. ASSUME NEW p \in 1..(n + 1 - 1), p <= Upstream(k)
      PROVE  p \in absorbed'[k]
  <2>1. CASE p = n
    BY <1>2, <2>1
  <2>2. CASE p \in 1..(n - 1)
    BY <1>2, <2>2 DEF Filled
  <2> QED
    BY <1>1, <2>1, <2>2
<1>3. \A p \in 1..(n + 1 - 1) : p <= Upstream(k) => p \in absorbed'[k]
  BY <1>2
<1>4. Upstream(k)' = Upstream(k) /\ Upstream(k) \in Nat
  BY WarmAssumption DEF Upstream
<1>5. n \in Nat
  BY DEF Pages
<1> QED
  BY <1>3, <1>4, <1>5 DEF Filled

\* What the thread tells of its fetch is an answer for its key, and filled.
LEMMA TellingInv ==
  ASSUME WInv, UNCHANGED <<view, ledger, channel, events>>,
         absorbed' \in [Key -> SUBSET Nat], \A j \in Key : absorbed[j] \subseteq absorbed'[j],
         NEW k \in Key, desk.kind = "warming", desk.key = k,
         NEW e \in WarmAnswer, e.key = k, desk' = Telling(e),
         e.kind = "warmed" => Filled(k, e.first + e.pages)'
  PROVE  WInv'
<1>1. e \in Event /\ e \in FilledEvent' /\ \A j \in Key : Answers(e, j) <=> j = k
  BY DEF Event, WarmAnswer, FilledEvent, Answers
<1>2. /\ desk' \in Desk /\ desk'.kind = "telling" /\ desk'.event = e
      /\ \A j \in Key : Works(desk', j) <=> j = k
  BY <1>1 DEF Desk, Telling, Works
<1>3. \A j \in Key : Works(desk, j) <=> j = k
  BY DEF Works
<1> QED
  BY <1>1, <1>2, <1>3, DeskInv

\* A page fetched, empty or failed: the desk goes on or answers for its key.
LEMMA WarmingInv == ASSUME WInv, PageFault \/ EmptyPage \/ AbsorbPage PROVE WInv'
<1>1. PICK k \in Key, f \in Pages, m \in Pages, d \in Nat :
        desk = [kind |-> "warming", key |-> k, first |-> f, pages |-> m, done |-> d]
  BY DEF PageFault, EmptyPage, AbsorbPage, WInv, TypeInv, Desk
<1>2. desk.kind = "warming" /\ desk.key = k /\ desk.first = f /\ desk.pages = m /\ desk.done = d
  BY <1>1
<1>3. f + d \in Pages /\ Filled(k, f + d) /\ f + (d + 1) = f + d + 1
  BY <1>2 DEF WInv, GapInv, Pages
<1>4. absorbed \in [Key -> SUBSET Nat] /\ Upstream(k) \in Nat
  BY WarmAssumption DEF WInv, TypeInv, Upstream
<1>5. CASE PageFault
  <2> DEFINE e == [kind |-> "warmfault", key |-> k, first |-> f, pages |-> m]
  <2>1. desk' = Telling(e) /\ UNCHANGED <<view, ledger, channel, events, absorbed>>
    BY <1>2, <1>5 DEF PageFault
  <2>2. e \in WarmAnswer /\ e.key = k /\ e.kind # "warmed"
    BY DEF WarmAnswer
  <2> HIDE DEF e
  <2> QED
    BY <1>2, <1>4, <2>1, <2>2, TellingInv
<1>6. CASE EmptyPage
  <2> DEFINE e == [kind |-> "warmed", key |-> k, first |-> f, pages |-> d + 1, exhausted |-> TRUE]
  <2>1. /\ desk' = Telling(e) /\ f + d > Upstream(k)
        /\ UNCHANGED <<view, ledger, channel, events, absorbed>>
    BY <1>2, <1>6 DEF EmptyPage, Warmed
  <2>2. Filled(k, f + d + 1)'
    <3>1. ~(f + d <= Upstream(k))
      BY <1>4, <2>1 DEF Pages
    <3> QED
      BY <1>3, <2>1, <3>1, FillsOneMore
  <2>3. e \in WarmAnswer /\ e.key = k /\ e.first + e.pages = f + d + 1
    BY <1>3 DEF WarmAnswer
  <2> HIDE DEF e
  <2> QED
    BY <1>2, <1>4, <2>1, <2>2, <2>3, TellingInv
<1>7. CASE AbsorbPage
  <2> DEFINE e == [kind |-> "warmed", key |-> k, first |-> f, pages |-> d + 1, exhausted |-> FALSE]
  <2>1. /\ absorbed' = [absorbed EXCEPT ![k] = @ \cup {f + d}]
        /\ desk' = IF d + 1 = m THEN Telling(e) ELSE Warming(desk, d + 1)
        /\ UNCHANGED <<view, ledger, channel, events>>
    BY <1>2, <1>7 DEF AbsorbPage, Warmed
  <2>2. /\ absorbed' \in [Key -> SUBSET Nat]
        /\ \A j \in Key : absorbed[j] \subseteq absorbed'[j]
        /\ f + d \in absorbed'[k]
    BY <1>3, <1>4, <2>1 DEF Pages
  <2>3. Filled(k, f + d + 1)'
    BY <1>3, <2>2, FillsOneMore
  <2>4. CASE d + 1 = m
    <3>1. e \in WarmAnswer /\ e.key = k /\ e.first + e.pages = f + d + 1
      BY <1>3 DEF WarmAnswer
    <3>2. desk' = Telling(e)
      BY <2>1, <2>4
    <3> HIDE DEF e
    <3> QED
      BY <1>2, <2>1, <2>2, <2>3, <3>1, <3>2, TellingInv
  <2>5. CASE d + 1 # m
    <3>1. desk' = Warming(desk, d + 1)
      BY <2>1, <2>5
    <3>2. /\ desk' \in Desk /\ desk'.kind = "warming" /\ desk'.key = k
          /\ desk'.first = f /\ desk'.done = d + 1
      BY <1>2, <3>1 DEF Desk, Warming
    <3>3. \A j \in Key : Works(desk', j) <=> Works(desk, j)
      BY <1>2, <3>2 DEF Works
    <3>4. Filled(desk.key, desk.first + desk.done)'
      BY <1>3, <2>3, <3>2
    <3> QED
      BY <2>1, <2>2, <3>2, <3>3, <3>4, DeskInv
  <2> QED
    BY <2>4, <2>5
<1> QED
  BY <1>5, <1>6, <1>7

\* A refetch is answered, or not, and is no business of the cursors.
LEMMA RefetchInv == ASSUME WInv, FetchPost \/ PostFault PROVE WInv'
<1>1. /\ desk.kind = "refetch" /\ desk.id \in Post
      /\ UNCHANGED <<view, ledger, channel, events, absorbed>>
  BY DEF FetchPost, PostFault, WInv, TypeInv, Desk
<1>2. PICK e \in {[kind |-> "refetched", id |-> desk.id], [kind |-> "news"]} : desk' = Telling(e)
  BY DEF FetchPost, PostFault
<1>3. e \in Event /\ e \in FilledEvent' /\ \A k \in Key : ~Answers(e, k)
  BY <1>1, <1>2 DEF Event, FilledEvent, Answers
<1>4. /\ desk' \in Desk /\ desk'.kind = "telling" /\ desk'.event = e
      /\ \A k \in Key : ~Works(desk, k) /\ ~Works(desk', k)
  BY <1>1, <1>2, <1>3 DEF Desk, Telling, Works
<1> QED
  BY <1>1, <1>3, <1>4, DeskInv DEF WInv, TypeInv

\* An event that tells of no cursor, or what the thread tells, is queued.
LEMMA EventInv ==
  ASSUME WInv, UNCHANGED <<view, ledger, channel, absorbed>>,
         NEW e \in FilledEvent, events' = Append(events, e), desk' \in Desk,
         desk' = desk \/ (desk' = Idle /\ desk.kind = "telling"),
         \A k \in Key : Works(desk, k) <=> Works(desk', k) \/ e \in Answering(k),
         \A k \in Key : ~(Works(desk', k) /\ e \in Answering(k)),
         \A k \in Key : e \in Answering(k) => Works(desk, k)
  PROVE  WInv'
<1>1. e \in Event
  BY DEF FilledEvent
<1>2. TypeInv'
  BY <1>1 DEF WInv, TypeInv
<1>3. GapInv'
  <2>1. events' \in Seq(FilledEvent)
    BY DEF WInv, GapInv
  <2>2. /\ FilledCommand' = FilledCommand /\ FilledEvent' = FilledEvent
        /\ \A k : \A n : Filled(k, n)' <=> Filled(k, n)
    BY DEF FilledCommand, FilledEvent, Filled
  <2>3. desk' = desk \/ desk'.kind = "idle"
    BY DEF Idle
  <2> QED
    BY <2>1, <2>2, <2>3 DEF WInv, GapInv
<1>4. CarryInv'
  <2> SUFFICES ASSUME NEW k \in Key
               PROVE  Carriage(k, ledger, channel, desk', Append(events, e))
    BY DEF CarryInv
  <2>1. Carriage(k, ledger, channel, desk, events) /\ events \in Seq(Event)
    BY DEF WInv, TypeInv, CarryInv
  <2>2. Has(Append(events, e), Answering(k)) <=> Has(events, Answering(k)) \/ e \in Answering(k)
    BY <1>1, <2>1, AppendHas
  <2>3. Sole(Append(events, e), Answering(k))
    BY <1>1, <2>1, AppendSole DEF Carriage
  <2> QED
    BY <2>1, <2>2, <2>3 DEF Carriage
<1> QED
  BY <1>2, <1>3, <1>4 DEF WInv

\* The lane tells of a page.
LEMMA TellInv == ASSUME WInv, Tell PROVE WInv'
<1> DEFINE e == desk.event
<1>1. /\ desk.kind = "telling" /\ desk' = Idle /\ events' = Append(events, e)
      /\ UNCHANGED <<view, ledger, channel, absorbed>>
  BY DEF Tell
<1>2. e \in FilledEvent /\ e \in Event
  BY <1>1 DEF WInv, GapInv, FilledEvent
<1>3. desk' \in Desk /\ \A k \in Key : ~Works(desk', k)
  BY <1>1 DEF Desk, Idle, Works
<1>4. \A k \in Key : Works(desk, k) <=> e \in Answering(k)
  BY <1>1, <1>2 DEF Works, Answering
<1> HIDE DEF e
<1> QED
  BY <1>1, <1>2, <1>3, <1>4, EventInv

\* The crawl or the kin crawl tells of a page.
LEMMA LanePageInv ==
  ASSUME WInv, NEW l \in Lane, NEW e \in {"crawled", "news"}, NEW after, LanePage(l, e, after)
  PROVE  WInv'
<1> DEFINE news == [kind |-> e]
<1>1. events' = Append(events, news) /\ UNCHANGED <<view, ledger, channel, desk, absorbed>>
  BY DEF LanePage
<1>2. news \in FilledEvent /\ \A k \in Key : news \notin Answering(k)
  BY DEF FilledEvent, Event, Answering, Answers
<1> HIDE DEF news
<1> QED
  BY <1>1, <1>2, EventInv DEF WInv, TypeInv

\* An answer lands: its cursor is in flight no more, and nothing else of its
\* key is on its way.
LEMMA LandingInv ==
  ASSUME WInv, events # <<>>, NEW led \in Ledger, NEW e \in WarmAnswer, e = Head(events),
         led.cursor[e.key].state # "inflight",
         \A k \in Key \ {e.key} : led.cursor[k] = ledger.cursor[k]
  PROVE  \A k \in Key : Carriage(k, led, channel, desk, Tail(events))
<1> SUFFICES ASSUME NEW k \in Key
             PROVE  Carriage(k, led, channel, desk, Tail(events))
  OBVIOUS
<1>1. events \in Seq(Event) /\ Carriage(k, ledger, channel, desk, events)
  BY DEF WInv, TypeInv, CarryInv
<1>2. e \in Answering(k) <=> k = e.key
  BY DEF Answering, Answers, Event, WarmAnswer
<1>3. /\ Has(events, Answering(k)) <=> e \in Answering(k) \/ Has(Tail(events), Answering(k))
      /\ Sole(Tail(events), Answering(k))
      /\ e \in Answering(k) => ~Has(Tail(events), Answering(k))
  BY <1>1, TailHas, TailSole DEF Carriage
<1>4. CASE k = e.key
  BY <1>1, <1>2, <1>3, <1>4 DEF Carriage
<1>5. CASE k # e.key
  BY <1>1, <1>2, <1>3, <1>5 DEF Carriage
<1> QED
  BY <1>4, <1>5

\* An event that is no answer leaves the queue.
LEMMA PassingInv ==
  ASSUME WInv, events # <<>>, \A k \in Key : Head(events) \notin Answering(k)
  PROVE  \A k \in Key : Carriage(k, ledger, channel, desk, Tail(events))
<1> SUFFICES ASSUME NEW k \in Key
             PROVE  Carriage(k, ledger, channel, desk, Tail(events))
  OBVIOUS
<1>1. events \in Seq(Event) /\ Carriage(k, ledger, channel, desk, events)
  BY DEF WInv, TypeInv, CarryInv
<1>2. /\ Has(events, Answering(k)) <=> Has(Tail(events), Answering(k))
      /\ Sole(Tail(events), Answering(k))
  BY <1>1, TailHas, TailSole DEF Carriage
<1> QED
  BY <1>1, <1>2 DEF Carriage

\* From a ledger that fits the queue without its first event, the window goes
\* on, with a dispatch or without.
LEMMA DrainedInv ==
  ASSUME WInv, events # <<>>, events' = Tail(events), UNCHANGED <<view, desk, absorbed>>,
         NEW led \in Ledger, \A k \in Key : Filled(k, led.cursor[k].next),
         \A k \in Key : Carriage(k, led, channel, desk, Tail(events)),
         \/ ledger' = led /\ UNCHANGED channel
         \/ \E pages \in Pages : DispatchWarm(led, view, pages)
  PROVE  WInv'
<1>1. /\ view \in View /\ channel \in Seq(Command) /\ channel \in Seq(FilledCommand)
      /\ events' \in Seq(Event) /\ events' \in Seq(FilledEvent)
  BY DEF WInv, TypeInv, GapInv
<1>2. /\ FilledEvent' = FilledEvent /\ FilledCommand' = FilledCommand
      /\ \A k, n : Filled(k, n)' <=> Filled(k, n)
  BY DEF FilledEvent, FilledCommand, Filled
<1>3. CASE ledger' = led /\ UNCHANGED channel
  <2>1. TypeInv'
    BY <1>1, <1>3 DEF WInv, TypeInv
  <2>2. GapInv'
    BY <1>1, <1>2, <1>3 DEF WInv, GapInv
  <2>3. CarryInv'
    BY <1>3 DEF CarryInv
  <2> QED
    BY <2>1, <2>2, <2>3 DEF WInv
<1>4. ASSUME NEW pages \in Pages, DispatchWarm(led, view, pages)
      PROVE  WInv'
  <2>1. ledger' \in Ledger /\ channel' \in Seq(Command)
    BY <1>1, <1>4, DispatchDoes
  <2>2. TypeInv'
    BY <1>1, <2>1 DEF WInv, TypeInv
  <2>3. GapInv'
    <3>1. /\ channel' \in Seq(FilledCommand')
          /\ \A k \in Key : Filled(k, ledger.cursor[k].next)'
      BY <1>1, <1>4, DispatchFills
    <3> QED
      BY <1>1, <1>2, <3>1 DEF WInv, GapInv
  <2>4. CarryInv'
    <3>1. \A k \in Key : Carriage(k, ledger', channel', desk, Tail(events))
      BY <1>1, <1>4, DispatchCarries
    <3> QED
      BY <3>1 DEF CarryInv
  <2> QED
    BY <2>2, <2>3, <2>4 DEF WInv
<1> QED
  BY <1>3, <1>4

\* The window drains an event.
LEMMA DrainInv == ASSUME WInv, Drain PROVE WInv'
<1> DEFINE e == Head(events)
<1>1. events # <<>> /\ events' = Tail(events) /\ UNCHANGED <<view, desk, absorbed>>
  BY DEF Drain
<1>2. e \in FilledEvent /\ e \in Event /\ ledger \in Ledger
  BY <1>1 DEF WInv, TypeInv, GapInv, FilledEvent
<1>3. \A k \in Key : /\ ledger.cursor[k] \in Cursor
                     /\ Filled(k, ledger.cursor[k].next)
  BY <1>2 DEF WInv, GapInv, Ledger
<1> HIDE DEF e
<1>4. CASE e.kind = "warmed" /\ DrainWarmed(e)
  <2> DEFINE c == Landed(ledger.cursor[e.key], e)
             led == [ledger EXCEPT !.cursor[e.key] = c]
  <2>1. e \in WarmAnswer /\ e.key \in Key /\ Filled(e.key, e.first + e.pages)
    BY <1>2, <1>4 DEF Event, WarmAnswer, FilledEvent
  <2>2. /\ c \in Cursor /\ c.state # "inflight"
        /\ c.next \in {ledger.cursor[e.key].next, e.first + e.pages}
    <3>1. /\ ledger.cursor[e.key].next \in Pages /\ e.first + e.pages \in Pages
      BY <1>3, <1>4, <2>1 DEF Cursor, WarmAnswer, Pages
    <3> QED
      BY <1>3, <2>1, <3>1, LesserIsOne DEF Landed, Cursor, Pages
  <2> HIDE DEF c
  <2>3. /\ led \in Ledger /\ led.cursor[e.key] = c
        /\ \A k \in Key \ {e.key} : led.cursor[k] = ledger.cursor[k]
    BY <1>2, <2>1, <2>2 DEF Ledger
  <2>4. \/ ledger' = led /\ UNCHANGED channel
        \/ DispatchWarm(led, view, led.cursor[e.key].stride)
    BY <1>4 DEF DrainWarmed, c
  <2>5. led.cursor[e.key].stride \in Pages
    BY <2>2, <2>3 DEF Cursor
  <2> HIDE DEF led
  <2>6. \A k \in Key : Filled(k, led.cursor[k].next)
    BY <1>3, <2>1, <2>2, <2>3
  <2>7. \A k \in Key : Carriage(k, led, channel, desk, Tail(events))
    BY <1>1, <2>1, <2>2, <2>3, LandingInv DEF e
  <2> QED
    BY <1>1, <2>3, <2>4, <2>5, <2>6, <2>7, DrainedInv
<1>5. CASE e.kind = "warmfault" /\ DrainWarmFault(e)
  <2> DEFINE c == Faulted(ledger.cursor[e.key], e)
             led == [ledger EXCEPT !.cursor[e.key] = c]
  <2>1. e \in WarmAnswer /\ e.key \in Key
    BY <1>2, <1>5 DEF Event, WarmAnswer
  <2>2. c \in Cursor /\ c.state # "inflight" /\ c.next = ledger.cursor[e.key].next
    BY <1>3, <2>1 DEF Faulted, Cursor
  <2> HIDE DEF c
  <2>3. /\ led \in Ledger /\ led.cursor[e.key] = c
        /\ \A k \in Key \ {e.key} : led.cursor[k] = ledger.cursor[k]
    BY <1>2, <2>1, <2>2 DEF Ledger
  <2>4. ledger' = led /\ UNCHANGED channel
    BY <1>5 DEF DrainWarmFault, c
  <2> HIDE DEF led
  <2>5. \A k \in Key : Filled(k, led.cursor[k].next)
    BY <1>3, <2>1, <2>2, <2>3
  <2>6. \A k \in Key : Carriage(k, led, channel, desk, Tail(events))
    BY <1>1, <2>1, <2>2, <2>3, LandingInv DEF e
  <2> QED
    BY <1>1, <2>3, <2>4, <2>5, <2>6, DrainedInv
<1>6. CASE \/ e.kind = "crawled" /\ DrainCrawled
           \/ e.kind \in {"refetched", "news"} /\ UNCHANGED <<ledger, channel>>
  <2>1. \A k \in Key : e \notin Answering(k)
    BY <1>6 DEF Answering, Answers
  <2>2. \A k \in Key : Carriage(k, ledger, channel, desk, Tail(events))
    BY <1>1, <2>1, PassingInv DEF e
  <2>3. \/ UNCHANGED <<ledger, channel>>
        \/ DispatchWarm(ledger, view, ledger.cursor[ledger.active].stride)
    BY <1>6 DEF DrainCrawled
  <2>4. ledger.cursor[ledger.active].stride \in Pages
    BY <1>2, <1>3 DEF Ledger, Cursor
  <2> QED
    BY <1>1, <1>2, <1>3, <2>2, <2>3, <2>4, DrainedInv
<1> QED
  BY <1>4, <1>5, <1>6 DEF Drain, e

\* Every step keeps the invariant.
LEMMA StepInv == WInv /\ [Next]_vars => WInv'
<1> SUFFICES ASSUME WInv, [Next]_vars PROVE WInv'
  OBVIOUS
<1>1. CASE UNCHANGED vars
  BY <1>1, AsideInv DEF vars, WInv, TypeInv
<1>2. ASSUME NEW l \in Lane, AwaitFlow(l)
      PROVE  WInv'
  BY <1>2, AsideInv DEF AwaitFlow, WInv, TypeInv
<1>3. CASE Crawl \/ KinCrawl \/ LaneFault
  BY <1>3, LanePageInv DEF Crawl, KinCrawl, LaneFault, Lane
<1>4. CASE WarmStep \/ PageFault \/ PostFault
  BY <1>4, ReceiveInv, WarmingInv, RefetchInv, TellInv DEF WarmStep
<1> QED
  BY <1>1, <1>2, <1>3, <1>4, UserActsInv, DrainInv DEF Next

-----------------------------------------------------------------------------
(* The theorems                                                            *)

\* The inductive invariant holds in every reachable state.
THEOREM Invariance == Spec => []WInv
BY InitInv, StepInv, PTL DEF Spec

\* Whatever faulted, was refused or came late, and whichever view the user went
\* to in between, no page that upstream has is missing below a cursor.
THEOREM CursorsAreGapless == Spec => []WarmLeavesNoGap
<1>1. WInv => WarmLeavesNoGap
  BY DEF WInv, GapInv, Filled, WarmLeavesNoGap
<1> QED
  BY <1>1, Invariance, PTL

\* A key in flight has exactly one command, fetch or answer on its way, and any
\* other key none.
THEOREM FlightsAreCarried == Spec => []WarmIsCarried
<1>1. WInv => WarmIsCarried
  <2> SUFFICES ASSUME WInv, NEW k \in Key
               PROVE  Carried(k) = IF ledger.cursor[k].state = "inflight" THEN 1 ELSE 0
    BY DEF WarmIsCarried
  <2>1. Carriage(k, ledger, channel, desk, events)
    BY DEF WInv, CarryInv
  <2>2. {i \in DOMAIN channel : Asks(channel[i], k)}
          = {i \in DOMAIN channel : channel[i] \in Asking(k)}
    BY DEF WInv, TypeInv, Asking
  <2>3. {i \in DOMAIN events : Answers(events[i], k)}
          = {i \in DOMAIN events : events[i] \in Answering(k)}
    BY DEF WInv, TypeInv, Answering
  <2>4. Cardinality({i \in DOMAIN channel : Asks(channel[i], k)})
          = IF Has(channel, Asking(k)) THEN 1 ELSE 0
    BY <2>1, <2>2, SoleCount DEF Carriage
  <2>5. Cardinality({i \in DOMAIN events : Answers(events[i], k)})
          = IF Has(events, Answering(k)) THEN 1 ELSE 0
    BY <2>1, <2>3, SoleCount DEF Carriage
  <2> QED
    BY <2>1, <2>4, <2>5 DEF Carried, Carriage
<1> QED
  BY <1>1, Invariance, PTL
=============================================================================
