------------------------- MODULE DurableFiles_proof -------------------------
(***************************************************************************)
(* Proofs about DurableFiles, for every value of its constants: adoption   *)
(* is whole, and no launch, crash or loss of power loses what is saved.    *)
(***************************************************************************)
EXTENDS DurableFiles, Queue_proof

Phase == {"off", "moving", "reverting", "prepared", "split", "opening", "running"}

App == [ first : BOOLEAN, hold : BOOLEAN, bank : SUBSET Filter, favorites : SUBSET Post,
         policy : Policy, wish : Policy, account : BOOLEAN, live : Configuration,
         fault : BOOLEAN, configurationDue : BOOLEAN, libraryDue : BOOLEAN, certain : BOOLEAN ]

TypeInv ==
    /\ disk \in Disk
    /\ pc \in Phase
    /\ todo \in Seq(Root) /\ settled \in Seq(Root)
    /\ app \in App
    /\ kept \in SUBSET Filter
    /\ synced \in [disk : Disk, kept : SUBSET Filter]

-----------------------------------------------------------------------------
(* The disk                                                                *)

\* The files there are, and the root each is adopted with.
LEMMA FileNames ==
  /\ File = {"configuration", "library", "favorites", "index", "slate"}
  /\ FilesOf("config") = {"configuration"}
  /\ FilesOf("data") = {"library", "favorites", "index"}
  /\ FilesOf("state") = {"slate"}
  /\ RootOf \in [File -> Root]
BY DEF File, FilesOf, RootOf, Root

\* What Written does: one file of the successor changes.
LEMMA WrittenDoes ==
  ASSUME disk \in Disk, NEW f \in File, NEW v,
         [disk["successor"].file EXCEPT ![f] = v] \in Files
  PROVE  /\ Written(f, v) \in Disk
         /\ Written(f, v)["legacy"] = disk["legacy"]
         /\ Written(f, v)["successor"].file[f] = v
         /\ \A g \in File \ {f} : Written(f, v)["successor"].file[g] = Held(g)
<1> DEFINE files == [disk["successor"].file EXCEPT ![f] = v]
           new == [disk EXCEPT !["successor"].file = files]
<1>1. Written(f, v) = new
  BY DEF Written
<1>2. DOMAIN disk["successor"].file = File
  BY FileNames DEF Disk, Files, Place
<1>3. files[f] = v /\ \A g \in File \ {f} : files[g] = Held(g)
  BY <1>2 DEF Held
<1>4. files \in Files
  OBVIOUS
<1> HIDE DEF files
<1>5. /\ new \in Disk
      /\ new["legacy"] = disk["legacy"]
      /\ new["successor"].file = files
  BY <1>4 DEF Disk, Place
<1> HIDE DEF new
<1> QED
  BY <1>1, <1>3, <1>5

\* Writing the configuration changes that file of the successor alone.
LEMMA WrittenConfiguration ==
  ASSUME disk \in Disk, NEW c \in Configuration
  PROVE  /\ Written("configuration", c) \in Disk
         /\ Written("configuration", c)["legacy"] = disk["legacy"]
         /\ Written("configuration", c)["successor"].file["configuration"] = c
         /\ \A g \in File \ {"configuration"} :
              Written("configuration", c)["successor"].file[g] = Held(g)
<1>1. [disk["successor"].file EXCEPT !["configuration"] = c] \in Files
  BY DEF Disk, Files, Place
<1> QED
  BY <1>1, WrittenDoes, FileNames

\* Writing the library changes that file of the successor alone.
LEMMA WrittenLibrary ==
  ASSUME disk \in Disk, NEW F \in SUBSET Filter
  PROVE  /\ Written("library", LibraryOf(F)) \in Disk
         /\ Written("library", LibraryOf(F))["legacy"] = disk["legacy"]
         /\ Written("library", LibraryOf(F))["successor"].file["library"] = LibraryOf(F)
         /\ \A g \in File \ {"library"} :
              Written("library", LibraryOf(F))["successor"].file[g] = Held(g)
<1>1. LibraryOf(F) \in Library
  BY DEF LibraryOf, Library
<1>2. [disk["successor"].file EXCEPT !["library"] = LibraryOf(F)] \in Files
  BY <1>1 DEF Disk, Files, Place
<1> QED
  BY <1>2, WrittenDoes, FileNames

\* Writing the favourites changes that file of the successor alone.
LEMMA WrittenFavorites ==
  ASSUME disk \in Disk, NEW F \in SUBSET Post
  PROVE  /\ Written("favorites", F) \in Disk
         /\ Written("favorites", F)["legacy"] = disk["legacy"]
         /\ Written("favorites", F)["successor"].file["favorites"] = F
         /\ \A g \in File \ {"favorites"} : Written("favorites", F)["successor"].file[g] = Held(g)
<1>1. [disk["successor"].file EXCEPT !["favorites"] = F] \in Files
  BY DEF Disk, Files, Place
<1> QED
  BY <1>1, WrittenDoes, FileNames

\* What a rename of a root does: its files are those of the other place, and the
\* place it left has none of them.
LEMMA DisplacedDoes ==
  ASSUME disk \in Disk, NEW r \in Root, NEW from \in Place, NEW to \in Place, from # to
  PROVE  /\ Displaced(r, from, to) \in Disk
         /\ Displaced(r, from, to)[from].dirs = disk[from].dirs \ {r}
         /\ Displaced(r, from, to)[to].dirs = disk[to].dirs \cup {r}
         /\ \A f \in FilesOf(r) : /\ Displaced(r, from, to)[from].file[f] = None
                                  /\ Displaced(r, from, to)[to].file[f] = disk[from].file[f]
         /\ \A f \in File \ FilesOf(r), p \in Place :
              Displaced(r, from, to)[p].file[f] = disk[p].file[f]
<1> DEFINE left == [f \in File |-> IF f \in FilesOf(r) THEN None ELSE disk[from].file[f]]
           came == [f \in File |-> IF f \in FilesOf(r) THEN disk[from].file[f]
                                   ELSE disk[to].file[f]]
           new == Displaced(r, from, to)
<1>1. left \in Files /\ came \in Files
  BY FileNames DEF Disk, Files
<1>2. /\ new = [p \in Place |->
                 IF p = from THEN [dirs |-> disk[from].dirs \ {r}, file |-> left]
                 ELSE [dirs |-> disk[to].dirs \cup {r}, file |-> came]]
  <2>1. disk = [p \in Place |-> disk[p]] /\ Place = {from, to}
    BY DEF Disk, Place
  <2>2. new = [ disk EXCEPT ![from] = [dirs |-> disk[from].dirs \ {r}, file |-> left],
                            ![to] = [dirs |-> disk[to].dirs \cup {r}, file |-> came] ]
    BY <2>1 DEF Displaced
  <2> HIDE DEF left, came, new
  <2> QED
    BY <2>1, <2>2, SMTT(30)
<1> HIDE DEF left, came, new
<1>3. /\ new \in Disk
      /\ new[from].dirs = disk[from].dirs \ {r} /\ new[from].file = left
      /\ new[to].dirs = disk[to].dirs \cup {r} /\ new[to].file = came
  BY <1>1, <1>2 DEF Disk
<1>4. Place = {from, to}
  BY DEF Place
<1> QED
  BY <1>3, <1>4, FileNames DEF left, came, new, FilesOf

\* Intrude, Prepare and a refused Move change what no filter is kept in.
LEMMA DirsChanged ==
  ASSUME disk \in Disk, NEW dirs \in SUBSET Root
  PROVE  /\ [disk EXCEPT !["successor"].dirs = dirs] \in Disk
         /\ [disk EXCEPT !["successor"].dirs = dirs]["legacy"] = disk["legacy"]
         /\ [disk EXCEPT !["successor"].dirs = dirs]["successor"].file = disk["successor"].file
BY DEF Disk, Place

\* The filters a disk stores depend on its configurations and libraries alone.
LEMMA StoredSame ==
  ASSUME NEW d, NEW e,
         \A p \in Place, f \in {"configuration", "library"} : d[p].file[f] = e[p].file[f]
  PROVE  Stored(d) = Stored(e) /\ \A p \in Place : StoredAt(d, p) = StoredAt(e, p)
BY DEF Stored, StoredAt, Place

\* The disk holds readable contents, or none.
LEMMA Contents ==
  ASSUME NEW d \in Disk, NEW p \in Place
  PROVE  /\ d[p].dirs \in SUBSET Root
         /\ d[p].file["configuration"] \in Configuration \cup {None}
         /\ d[p].file["library"] \in Library \cup {None}
         /\ d[p].file["favorites"] \in (SUBSET Post) \cup {None}
         /\ StoredAt(d, p) \in SUBSET Filter
BY DEF Disk, Files, StoredAt, Configuration, Library

\* What inscribe_durable_state makes of a changed program.
LEMMA InscribedDoes ==
  ASSUME NEW a \in App, app \in App
  PROVE  /\ Inscribed(a) \in App
         /\ Inscribed(a).live = IF a.fault THEN a.live ELSE Projection(a)
         /\ Inscribed(a).configurationDue
              = (~a.fault /\ (a.configurationDue \/ Projection(a) # a.live))
         /\ \A x \in {"policy", "wish", "fault", "certain", "favorites", "first"} :
              Inscribed(a)[x] = a[x]
         /\ Projection(a) \in Configuration /\ Projection(a).good
         /\ Projection(a).policy = a.policy /\ Projection(a).embedded = None
<1>1. /\ Projection(a) \in Configuration /\ Projection(a).good
      /\ Projection(a).policy = a.policy /\ Projection(a).embedded = None
  BY DEF Projection, Configuration, App
<1> DEFINE p == Projection(a)
<1> HIDE DEF p
<1>2. Inscribed(a) = [ a EXCEPT !.live = IF a.fault THEN a.live ELSE p,
                                !.configurationDue = (~a.fault /\ (a.configurationDue \/ p # a.live)),
                                !.libraryDue = (a.libraryDue \/ a.bank # app.bank) ]
  BY DEF Inscribed, p
<1>3. PICK live, due, shelved :
        /\ live = (IF a.fault THEN a.live ELSE p)
        /\ due = (~a.fault /\ (a.configurationDue \/ p # a.live))
        /\ shelved = (a.libraryDue \/ a.bank # app.bank)
  OBVIOUS
<1>4. live \in Configuration /\ due \in BOOLEAN /\ shelved \in BOOLEAN
  BY <1>1, <1>3 DEF App, p
<1>5. Inscribed(a) = [ a EXCEPT !.live = live, !.configurationDue = due, !.libraryDue = shelved ]
  BY <1>2, <1>3
<1>6. /\ Inscribed(a) \in App
      /\ Inscribed(a).live = live /\ Inscribed(a).configurationDue = due
      /\ \A x \in {"policy", "wish", "fault", "certain", "favorites", "first"} :
           Inscribed(a)[x] = a[x]
  BY <1>4, <1>5 DEF App
<1> QED
  BY <1>1, <1>3, <1>6 DEF p

-----------------------------------------------------------------------------
(* The adoption                                                            *)

Among(s, r) == Has(s, {r})
Distinct(s) == \A r \in Root : Sole(s, {r})

\* Every root found is either still in the legacy place or was moved, and the
\* lists of moves say which.
AdoptInv ==
    /\ found \subseteq Root
    /\ pc = "moving" =>
        /\ Distinct(todo) /\ Distinct(settled)
        /\ \A r \in Root : Among(todo, r) => r \in found /\ Occupied("legacy", r)
        /\ \A r \in Root : Among(settled, r) => r \in found /\ Occupied("successor", r)
        /\ told = {} => \A r \in found : Occupied("legacy", r) <=> Among(todo, r)
        /\ told = {} => \A r \in found : Among(todo, r) \/ Among(settled, r)
        /\ told # {} => todo = <<>> /\ settled = <<>> /\ \A r \in found : Occupied("legacy", r)
    /\ pc = "reverting" =>
        /\ Distinct(settled)
        /\ told # {}
        /\ \A r \in Root : Among(settled, r) => Occupied("successor", r)
        /\ "unreverted" \notin told =>
             \A r \in found : Among(settled, r) \/ Occupied("legacy", r)
    /\ AdoptionWhole

\* The moves of a survey are the legacy roots that hold files, once each.
LEMMA MovesDo ==
  /\ Moves \in Seq(Root)
  /\ Distinct(Moves)
  /\ \A r \in Root : Among(Moves, r) <=> Occupied("legacy", r)
<1> SUFFICES ASSUME NEW r \in Root
             PROVE  Moves \in Seq(Root) /\ Sole(Moves, {r}) /\ (Has(Moves, {r}) <=> Occupied("legacy", r))
  BY DEF Distinct, Among, Root
<1>1. ASSUME NEW q \in Root
      PROVE  /\ MovesOf(q) \in Seq(Root)
             /\ Sole(MovesOf(q), {r})
             /\ Has(MovesOf(q), {r}) <=> q = r /\ Occupied("legacy", r)
  BY EmptyHasNone, SingleHas DEF MovesOf
<1> DEFINE c == MovesOf("config")
           d == MovesOf("data")
           s == MovesOf("state")
<1>2. c \in Seq(Root) /\ d \in Seq(Root) /\ s \in Seq(Root)
  BY <1>1 DEF Root
<1>3. /\ Sole(c, {r}) /\ Sole(d, {r}) /\ Sole(s, {r})
      /\ Has(c, {r}) <=> "config" = r /\ Occupied("legacy", r)
      /\ Has(d, {r}) <=> "data" = r /\ Occupied("legacy", r)
      /\ Has(s, {r}) <=> "state" = r /\ Occupied("legacy", r)
  BY <1>1 DEF Root
<1>4. Moves = c \o d \o s
  BY DEF Moves
<1> HIDE DEF c, d, s
<1> DEFINE cd == c \o d
<1>5. /\ cd \in Seq(Root) /\ Sole(cd, {r})
      /\ Has(cd, {r}) <=> Has(c, {r}) \/ Has(d, {r})
  BY <1>2, <1>3, ConcatHas, ConcatSole
<1> HIDE DEF cd
<1>6. ~(Has(cd, {r}) /\ Has(s, {r}))
  BY <1>3, <1>5
<1>7. /\ cd \o s \in Seq(Root) /\ Sole(cd \o s, {r})
      /\ Has(cd \o s, {r}) <=> Has(cd, {r}) \/ Has(s, {r})
  BY <1>2, <1>3, <1>5, <1>6, ConcatHas, ConcatSole
<1> QED
  BY <1>3, <1>4, <1>5, <1>7 DEF Root, cd

\* A root moved to where it had no files: they are there now, no other root is
\* touched, and every filter some file holds is still held.
LEMMA DisplacedKeeps ==
  ASSUME disk \in Disk, NEW r \in Root, NEW from \in Place, NEW to \in Place, from # to,
         ~Occupied(to, r), disk' = Displaced(r, from, to)
  PROVE  /\ disk' \in Disk
         /\ Stored(disk') = Stored(disk)
         /\ ~Occupied(from, r)'
         /\ Occupied(to, r)' <=> Occupied(from, r)
         /\ \A q \in Root \ {r}, p \in Place : Occupied(p, q)' <=> Occupied(p, q)
         /\ Sheltered(disk) => Sheltered(disk')
<1> DEFINE new == Displaced(r, from, to)
<1>1. disk' = new
  OBVIOUS
<1>2. /\ new \in Disk
      /\ new[from].dirs = disk[from].dirs \ {r}
      /\ new[to].dirs = disk[to].dirs \cup {r}
      /\ \A f \in FilesOf(r) : /\ new[from].file[f] = None
                               /\ new[to].file[f] = disk[from].file[f]
      /\ \A f \in File \ FilesOf(r), p \in Place : new[p].file[f] = disk[p].file[f]
  BY DisplacedDoes
<1> HIDE DEF new
<1>3. \A f \in FilesOf(r) : disk[to].file[f] = None
  BY DEF Occupied
<1>4. Place = {from, to} /\ {from, to} = {"legacy", "successor"}
  BY DEF Place
<1>5. \A q \in Root \ {r} : \A f \in FilesOf(q) : f \in File \ FilesOf(r)
  BY DEF FilesOf
<1>6. \A f \in FilesOf(r) : f \in File /\ RootOf[f] = r
  BY DEF FilesOf
<1>7. \A f \in File \ FilesOf(r) : RootOf[f] # r
  BY DEF FilesOf
<1>8. /\ ~Occupied(from, r)'
      /\ Occupied(to, r)' <=> Occupied(from, r)
      /\ \A q \in Root \ {r}, p \in Place : Occupied(p, q)' <=> Occupied(p, q)
  BY <1>1, <1>2, <1>5 DEF Occupied, FilesOf
<1>9. Sheltered(disk) => Sheltered(disk')
  BY <1>1, <1>2, <1>3, <1>4, <1>6, <1>7 DEF Sheltered
<1>10. \A f \in {"configuration", "library"} :
         \/ \A p \in Place : new[p].file[f] = disk[p].file[f]
         \/ new[from].file[f] = None /\ new[to].file[f] = disk[from].file[f]
            /\ disk[to].file[f] = None
  <2>1. {"configuration", "library"} \subseteq File
    BY FileNames
  <2> QED
    BY <1>2, <1>3, <2>1
<1>11. \A d : Stored(d) = StoredAt(d, from) \cup StoredAt(d, to)
  BY <1>4 DEF Stored
<1>12. Stored(new) = Stored(disk)
  <2> DEFINE C(d, p) == d[p].file["configuration"]
             L(d, p) == d[p].file["library"]
             CS(c) == IF c # None /\ c.good /\ c.embedded # None THEN c.embedded ELSE {}
             LS(l) == IF l # None /\ l.good THEN l.filters ELSE {}
  <2>1. \A d, p : StoredAt(d, p) = CS(C(d, p)) \cup LS(L(d, p))
    BY DEF StoredAt
  <2>2. CS(None) = {} /\ LS(None) = {}
    OBVIOUS
  <2>3. /\ \/ C(new, from) = C(disk, from) /\ C(new, to) = C(disk, to)
           \/ C(new, from) = None /\ C(new, to) = C(disk, from) /\ C(disk, to) = None
        /\ \/ L(new, from) = L(disk, from) /\ L(new, to) = L(disk, to)
           \/ L(new, from) = None /\ L(new, to) = L(disk, from) /\ L(disk, to) = None
    BY <1>10, <1>4
  <2> HIDE DEF C, L, CS, LS
  <2> QED
    BY <1>11, <2>1, <2>2, <2>3
<1> QED
  BY <1>1, <1>2, <1>8, <1>9, <1>12

-----------------------------------------------------------------------------
(* The invariant                                                           *)

Shelter == Sheltered(disk) /\ Sheltered(synced.disk)

\* No readable configuration of the successor still has filters inside.
Divided ==
    LET c == Held("configuration") IN c = None \/ ~c.good \/ c.embedded = None

\* The disk holds exactly the filters it was entrusted with; a migration that is
\* half done has both copies, one that is done has only the library.
StoreInv ==
    /\ kept = Stored(disk) /\ synced.kept = Stored(synced.disk)
    /\ pc = "split" =>
        /\ Held("configuration") \in Configuration /\ Held("configuration").good
        /\ Held("configuration").embedded # None
        /\ Held("library") \in Library /\ Held("library").good
        /\ Held("configuration").embedded \subseteq Held("library").filters
    /\ pc \in {"opening", "running"} => Divided
    /\ pc = "running" => app.live.embedded = None

CertainInv ==
    /\ pc # "running" => ~app.certain
    /\ FavoritesDurable

\* Unless its file is at fault, the ledger has the user's policy, and the disk has
\* what the ledger has, or the write is due.
PolicyInv ==
    /\ pc = "split" => ~app.first
    /\ pc = "opening" /\ app.first => Held("configuration") = None
    /\ pc = "running" =>
        /\ app.policy = app.wish
        /\ app.fault => /\ ~app.configurationDue
                        /\ Held("configuration") # None => ~Held("configuration").good
        /\ ~app.fault => /\ app.live.good /\ app.live.policy = app.policy
                         /\ \/ app.configurationDue
                            \/ Held("configuration") \in {None, app.live}

DInv ==
    /\ TypeInv
    /\ Shelter
    /\ AdoptInv
    /\ StoreInv
    /\ CertainInv
    /\ PolicyInv

\* The launch is not beyond its adoption: only the adoption's invariant says more
\* than that the disk holds what it should.
Early == {"off", "moving", "reverting", "prepared"}

\* A step before the files are opened keeps the invariant when it keeps what is stored.
LEMMA EarlyInv ==
  ASSUME DInv, pc' \in Early, disk' \in Disk, Sheltered(disk'), Stored(disk') = kept',
         kept' \in SUBSET Filter, UNCHANGED synced, app' \in App, ~app'.certain,
         todo' \in Seq(Root), settled' \in Seq(Root), AdoptInv'
  PROVE  DInv'
<1>1. TypeInv'
  BY DEF DInv, TypeInv, Early, Phase
<1>2. Shelter' /\ StoreInv'
  BY DEF DInv, Shelter, StoreInv, Early
<1>3. CertainInv' /\ PolicyInv'
  BY DEF CertainInv, PolicyInv, FavoritesDurable, Running, Early
<1> QED
  BY <1>1, <1>2, <1>3 DEF DInv

-----------------------------------------------------------------------------
(* Adoption's actions                                                      *)

\* A launch claims the roots and surveys what is there.
LEMMA ClaimInv == ASSUME DInv, Claim, UNCHANGED <<app, synced, kept, acts>> PROVE DInv'
<1>1. /\ pc = "off" /\ pc' = "moving" /\ settled' = <<>> /\ disk' = disk
      /\ app' = app /\ synced' = synced /\ kept' = kept
  BY DEF Claim
<1>2. /\ todo' \in Seq(Root)
      /\ found' \subseteq Root
      /\ \A r \in found' : Occupied("legacy", r)
      /\ \/ told' = {} /\ found' = {} /\ todo' = <<>>
         \/ told' # {} /\ todo' = <<>>
         \/ told' = {} /\ todo' = Moves /\ found' = {r \in Root : Occupied("legacy", r)}
  <2>1. CASE sealed' = TRUE /\ found' = {} /\ told' = {} /\ todo' = <<>>
    BY <2>1
  <2>2. ASSUME NEW hindrance \in {None, "busy", "unreadable"}, Survey(hindrance)
        PROVE  /\ found' = {r \in Root : Occupied("legacy", r)}
               /\ \/ told' # {} /\ todo' = <<>>
                  \/ told' = {} /\ todo' = Moves
    <3> DEFINE strands == IF found' = {} THEN {}
                          ELSE IF hindrance # None THEN {hindrance}
                          ELSE IF Conflicts # {} THEN {"occupied"}
                          ELSE {}
    <3>1. /\ found' = {r \in Root : Occupied("legacy", r)}
          /\ told' = strands
          /\ todo' = IF strands = {} THEN Moves ELSE <<>>
      BY <2>2 DEF Survey
    <3> HIDE DEF strands
    <3> QED
      BY <3>1
  <2>3. CASE \E hindrance \in {None, "busy", "unreadable"} : Survey(hindrance)
    <3>1. /\ found' = {r \in Root : Occupied("legacy", r)}
          /\ \/ told' # {} /\ todo' = <<>>
             \/ told' = {} /\ todo' = Moves
      BY <2>2, <2>3
    <3>2. Moves \in Seq(Root) /\ <<>> \in Seq(Root)
      BY MovesDo
    <3>3. found' \subseteq Root /\ \A r \in found' : Occupied("legacy", r)
      BY <3>1
    <3> QED
      BY <3>1, <3>2, <3>3
  <2> QED
    BY <2>1, <2>3 DEF Claim
<1>3. \A r : Occupied("legacy", r)' <=> Occupied("legacy", r)
  BY <1>1 DEF Occupied
<1>4. AdoptInv'
  <2>1. \A r \in Root : ~Among(<<>>, r)
    BY EmptyHasNone DEF Among
  <2>2. Distinct(<<>>)
    BY EmptyHasNone DEF Distinct
  <2>3. pc' = "moving" /\ AdoptionWhole'
    BY <1>1 DEF AdoptionWhole, Unready
  <2>4. CASE todo' = <<>> /\ (told' # {} \/ found' = {})
    BY <1>1, <1>2, <1>3, <2>1, <2>2, <2>3, <2>4 DEF AdoptInv
  <2>5. CASE told' = {} /\ todo' = Moves /\ found' = {r \in Root : Occupied("legacy", r)}
    BY <1>1, <1>2, <1>3, <2>1, <2>2, <2>3, <2>5, MovesDo DEF AdoptInv
  <2> QED
    BY <1>2, <2>4, <2>5
<1> QED
  BY <1>1, <1>2, <1>4, EarlyInv DEF DInv, TypeInv, Early, Shelter, StoreInv, CertainInv

\* One root is moved to its new place, or the move fails.
LEMMA MoveInv == ASSUME DInv, Move, UNCHANGED <<app, synced, kept, acts>> PROVE DInv'
<1> PICK r : r = Head(todo)
  OBVIOUS
<1>1. /\ pc = "moving" /\ todo # <<>> /\ found' = found
      /\ app' = app /\ synced' = synced /\ kept' = kept
  BY DEF Move
<1>2. /\ todo \in Seq(Root) /\ settled \in Seq(Root) /\ r \in Root /\ disk \in Disk
      /\ Tail(todo) \in Seq(Root)
  BY <1>1 DEF DInv, TypeInv
<1>3. /\ told = {} /\ found \subseteq Root /\ Distinct(todo) /\ Distinct(settled)
      /\ \A q \in Root : Among(todo, q) => q \in found /\ Occupied("legacy", q)
      /\ \A q \in Root : Among(settled, q) => q \in found /\ Occupied("successor", q)
      /\ \A q \in found : Occupied("legacy", q) <=> Among(todo, q)
      /\ \A q \in found : Among(todo, q) \/ Among(settled, q)
  BY <1>1 DEF DInv, AdoptInv
<1>4. /\ \A q \in Root : Among(todo, q) <=> q = r \/ Among(Tail(todo), q)
      /\ Distinct(Tail(todo)) /\ ~Among(Tail(todo), r)
  BY <1>1, <1>2, <1>3, TailHas, TailSole DEF Among, Distinct
<1>5. CASE /\ ~Occupied("successor", r)
           /\ disk' = Displaced(r, "legacy", "successor")
           /\ settled' = Append(settled, r)
           /\ todo' = Tail(todo)
           /\ UNCHANGED <<pc, told>>
  <2>1. /\ disk' \in Disk /\ Stored(disk') = Stored(disk)
        /\ ~Occupied("legacy", r)' /\ Occupied("successor", r)'
        /\ \A q \in Root \ {r} : /\ Occupied("legacy", q)' <=> Occupied("legacy", q)
                                 /\ Occupied("successor", q)' <=> Occupied("successor", q)
        /\ Sheltered(disk')
    <3>1. Occupied("legacy", r)
      BY <1>2, <1>3, <1>4
    <3> QED
      BY <1>2, <1>5, <3>1, DisplacedKeeps DEF DInv, Shelter, Place
  <2>2. ~Among(settled, r)
    BY <1>2, <1>3, <1>5
  <2>3. /\ \A q \in Root : Among(settled', q) <=> q = r \/ Among(settled, q)
        /\ Distinct(settled') /\ settled' \in Seq(Root)
    <3>0. settled' = Append(settled, r) /\ settled' \in Seq(Root)
      BY <1>2, <1>5
    <3> SUFFICES ASSUME NEW q \in Root
                 PROVE  /\ Has(settled', {q}) <=> q = r \/ Has(settled, {q})
                        /\ Sole(settled', {q})
      BY <3>0 DEF Among, Distinct
    <3>1. Sole(settled, {q}) /\ (r \in {q} => ~Has(settled, {q}))
      BY <1>3, <2>2 DEF Distinct, Among
    <3>2. Sole(Append(settled, r), {q})
      BY <1>2, <3>1, AppendSole
    <3>3. Has(Append(settled, r), {q}) <=> Has(settled, {q}) \/ r \in {q}
      BY <1>2, AppendHas
    <3> QED
      BY <3>0, <3>2, <3>3
  <2>4. AdoptInv'
    BY <1>1, <1>3, <1>4, <1>5, <2>1, <2>3 DEF AdoptInv, AdoptionWhole, Unready
  <2> QED
    BY <1>1, <1>2, <1>5, <2>1, <2>3, <2>4, EarlyInv
       DEF DInv, TypeInv, Early, Shelter, StoreInv, CertainInv
<1>6. CASE /\ disk' \in { disk, IF Occupied("successor", r) THEN disk
                                ELSE [disk EXCEPT !["successor"].dirs = @ \ {r}] }
           /\ told' = {"refused"}
           /\ pc' = "reverting"
           /\ todo' = <<>>
           /\ UNCHANGED settled
  <2>1. /\ disk' \in Disk /\ disk'["legacy"] = disk["legacy"]
        /\ disk'["successor"].file = disk["successor"].file
    <3>1. disk["successor"].dirs \ {r} \in SUBSET Root
      BY <1>2, Contents DEF Place
    <3>2. \/ disk' = disk
          \/ disk' = [disk EXCEPT !["successor"].dirs = disk["successor"].dirs \ {r}]
      BY <1>6
    <3> QED
      BY <1>2, <3>1, <3>2, DirsChanged
  <2>2. Stored(disk') = Stored(disk) /\ Sheltered(disk')
    BY <2>1, StoredSame DEF Place, Sheltered, DInv, Shelter
  <2>3. \A q \in Root, p \in Place : Occupied(p, q)' <=> Occupied(p, q)
    BY <2>1 DEF Occupied, Place
  <2>4. AdoptInv'
    BY <1>1, <1>3, <1>6, <2>3 DEF AdoptInv, AdoptionWhole, Unready, Place
  <2> QED
    BY <1>1, <1>2, <1>6, <2>1, <2>2, <2>4, EarlyInv
       DEF DInv, TypeInv, Early, Shelter, StoreInv, CertainInv
<1> QED
  BY <1>5, <1>6 DEF Move

\* A move made before a refusal is taken back, or cannot be.
LEMMA RevertInv == ASSUME DInv, Revert, UNCHANGED <<app, synced, kept, acts>> PROVE DInv'
<1> PICK r : r = settled[Len(settled)]
  OBVIOUS
<1> DEFINE rest == SubSeq(settled, 1, Len(settled) - 1)
<1>1. /\ pc = "reverting" /\ pc' = pc /\ settled # <<>> /\ settled' = rest /\ todo' = todo
      /\ found' = found /\ app' = app /\ synced' = synced /\ kept' = kept
  BY DEF Revert
<1>2. /\ settled \in Seq(Root) /\ r \in Root /\ disk \in Disk
  BY <1>1 DEF DInv, TypeInv
<1>3. /\ found \subseteq Root /\ Distinct(settled) /\ told # {}
      /\ \A q \in Root : Among(settled, q) => Occupied("successor", q)
      /\ "unreverted" \notin told =>
           \A q \in found : Among(settled, q) \/ Occupied("legacy", q)
  BY <1>1 DEF DInv, AdoptInv
<1>4. /\ \A q \in Root : Among(settled, q) <=> q = r \/ Among(rest, q)
      /\ Distinct(rest) /\ ~Among(rest, r) /\ rest \in Seq(Root)
  BY <1>1, <1>2, <1>3, FrontHas DEF Among, Distinct
<1>5. \/ r \notin disk["legacy"].dirs /\ disk' = Displaced(r, "successor", "legacy") /\ told' = told
      \/ told' = told \cup {"unreverted"} /\ disk' = disk
  BY DEF Revert
<1> HIDE DEF rest
<1>6. CASE /\ r \notin disk["legacy"].dirs
           /\ disk' = Displaced(r, "successor", "legacy")
           /\ told' = told
  <2>1. ~Occupied("legacy", r)
    BY <1>6 DEF DInv, Shelter, Sheltered, Occupied, FilesOf
  <2>2. /\ disk' \in Disk /\ Stored(disk') = Stored(disk)
        /\ Occupied("legacy", r)'
        /\ \A q \in Root \ {r} : /\ Occupied("legacy", q)' <=> Occupied("legacy", q)
                                 /\ Occupied("successor", q)' <=> Occupied("successor", q)
        /\ Sheltered(disk')
    BY <1>2, <1>3, <1>4, <1>6, <2>1, DisplacedKeeps DEF DInv, Shelter, Place
  <2>3. AdoptInv'
    BY <1>1, <1>3, <1>4, <1>6, <2>2 DEF AdoptInv, AdoptionWhole, Unready
  <2> QED
    BY <1>1, <1>4, <2>2, <2>3, EarlyInv DEF DInv, TypeInv, Early, Shelter, StoreInv, CertainInv
<1>7. CASE told' = told \cup {"unreverted"} /\ disk' = disk
  <2>1. \A q \in Root, p \in Place : Occupied(p, q)' <=> Occupied(p, q)
    BY <1>7 DEF Occupied
  <2>2. AdoptInv'
    BY <1>1, <1>3, <1>4, <1>7, <2>1 DEF AdoptInv, AdoptionWhole, Unready, Place
  <2> QED
    BY <1>1, <1>4, <1>7, <2>2, EarlyInv DEF DInv, TypeInv, Early, Shelter, StoreInv, CertainInv
<1> QED
  BY <1>5, <1>6, <1>7

\* Every root the program writes is made.
LEMMA PrepareInv == ASSUME DInv, Prepare, UNCHANGED <<app, synced, kept, acts>> PROVE DInv'
<1>1. /\ pc' = "prepared" /\ settled' = <<>>
      /\ disk' = [disk EXCEPT !["successor"].dirs = Root]
      /\ UNCHANGED <<todo, told, found, app, synced, kept>>
  BY DEF Prepare
<1>2. /\ disk' \in Disk /\ disk'["legacy"] = disk["legacy"]
      /\ disk'["successor"].file = disk["successor"].file
  BY <1>1, DirsChanged DEF DInv, TypeInv
<1>3. Stored(disk') = Stored(disk) /\ Sheltered(disk')
  BY <1>2, StoredSame DEF Place, Sheltered, DInv, Shelter
<1>4. \A q : Occupied("legacy", q)' <=> Occupied("legacy", q)
  BY <1>2 DEF Occupied
<1>5. AdoptInv'
  <2>1. \A q \in Root : ~Among(<<>>, q)
    BY EmptyHasNone DEF Among
  <2>2. \/ LeftBehind = {}
        \/ told # {} /\ LeftBehind = found
        \/ told # {} /\ "unreverted" \in told
    BY <2>1 DEF Prepare, DInv, AdoptInv, LeftBehind
  <2>3. LeftBehind' = LeftBehind
    BY <1>1, <1>4 DEF LeftBehind
  <2> QED
    BY <1>1, <2>2, <2>3 DEF DInv, AdoptInv, AdoptionWhole
<1> QED
  BY <1>1, <1>2, <1>3, <1>5, EarlyInv DEF DInv, TypeInv, Early, StoreInv, CertainInv, Prepare

\* Another process fills a new root during the adoption.
LEMMA IntrudeInv == ASSUME DInv, Intrude, UNCHANGED <<app, synced, kept, acts>> PROVE DInv'
<1>1. /\ pc \in {"moving", "reverting"}
      /\ UNCHANGED <<pc, todo, settled, told, found, app, synced, kept>>
  BY DEF Intrude
<1>2. PICK f \in {"index", "slate"} :
        /\ Held(f) = None
        /\ disk' = [disk EXCEPT !["successor"] =
                      [ dirs |-> disk["successor"].dirs \cup {RootOf[f]},
                        file |-> [disk["successor"].file EXCEPT ![f] = "written"] ]]
  BY DEF Intrude, Held
<1> DEFINE new == [ dirs |-> disk["successor"].dirs \cup {RootOf[f]},
                    file |-> [disk["successor"].file EXCEPT ![f] = "written"] ]
<1>3. disk \in Disk /\ f \in File
  BY FileNames DEF DInv, TypeInv
<1>4. new \in [dirs : SUBSET Root, file : Files]
  BY <1>3, FileNames DEF Disk, Place, Files
<1>5. disk' = [disk EXCEPT !["successor"] = new]
  BY <1>2
<1>6. /\ new.file["configuration"] = Held("configuration")
      /\ new.file["library"] = Held("library")
      /\ \A g \in File : Held(g) # None => new.file[g] # None
  BY <1>2, <1>3, FileNames DEF Held, Disk, Place, Files
<1> HIDE DEF new
<1>7. disk' \in Disk /\ disk'["legacy"] = disk["legacy"] /\ disk'["successor"] = new
  BY <1>3, <1>4, <1>5 DEF Disk, Place
<1>8. Stored(disk') = Stored(disk) /\ Sheltered(disk')
  BY <1>6, <1>7, StoredSame DEF Place, Sheltered, DInv, Shelter, Held
<1>9. /\ \A q : Occupied("legacy", q)' <=> Occupied("legacy", q)
      /\ \A q : Occupied("successor", q) => Occupied("successor", q)'
  BY <1>6, <1>7 DEF Occupied, Held, FilesOf
<1>10. AdoptInv'
  BY <1>1, <1>9 DEF DInv, AdoptInv, AdoptionWhole, Unready
<1> QED
  BY <1>1, <1>7, <1>8, <1>10, EarlyInv DEF DInv, TypeInv, Early, StoreInv, CertainInv

-----------------------------------------------------------------------------
(* The rest of a launch, and the running program                           *)

Late == {"prepared", "split", "opening", "running"}

\* Nothing after the adoption touches the legacy place.
LEMMA LateAdoptInv ==
  ASSUME DInv, pc \in Late, pc' \in Late \cup {"off"}, UNCHANGED <<told, found>>,
         disk'["legacy"] = disk["legacy"]
  PROVE  AdoptInv' /\ Sheltered(disk')
<1>1. LeftBehind' = LeftBehind
  BY DEF LeftBehind, Occupied
<1>2. AdoptInv'
  BY <1>1 DEF DInv, AdoptInv, AdoptionWhole, Late, Unready
<1> QED
  BY <1>2 DEF DInv, Shelter, Sheltered

\* A launch that ends, however it ends, is another one's beginning.
LEMMA OffInv ==
  ASSUME DInv, pc' = "off", app' = Off, UNCHANGED <<found, synced>>,
         todo' \in Seq(Root), settled' \in Seq(Root),
         disk' \in Disk, Sheltered(disk'), kept' = Stored(disk'), kept' \in SUBSET Filter
  PROVE  DInv'
<1>1. Off \in App /\ ~Off.certain
  BY DEF Off, App, Policy, DefaultConfiguration, Configuration
<1>2. AdoptInv'
  BY DEF DInv, AdoptInv, AdoptionWhole, Unready
<1> HIDE DEF Off
<1> QED
  BY <1>1, <1>2, EarlyInv DEF Early

\* A crash keeps the disk; a loss of power leaves what was synced.
LEMMA StopInv == ASSUME DInv, Stop \/ LosePower PROVE DInv'
<1>1. <<>> \in Seq(Root)
  OBVIOUS
<1>2. CASE Stop
  BY <1>1, <1>2, OffInv DEF Stop, DInv, TypeInv, Shelter, StoreInv
<1>3. CASE LosePower
  BY <1>1, <1>3, OffInv DEF LosePower, DInv, TypeInv, Shelter, StoreInv
<1> QED
  BY <1>2, <1>3

\* The journal is the disk.
LEMMA SettleInv == ASSUME DInv, Settle PROVE DInv'
<1>1. /\ synced' = [disk |-> disk, kept |-> kept]
      /\ UNCHANGED <<disk, pc, todo, settled, told, found, app, kept>>
  BY DEF Settle, adoptionVars
<1>2. TypeInv' /\ Shelter' /\ StoreInv'
  BY <1>1 DEF DInv, TypeInv, Shelter, StoreInv, Held, Divided
<1>3. AdoptInv'
  BY <1>1 DEF DInv, AdoptInv, AdoptionWhole, LeftBehind, Occupied
<1>4. CertainInv' /\ PolicyInv'
  BY <1>1 DEF DInv, CertainInv, FavoritesDurable, Running, PolicyInv, Held
<1> QED
  BY <1>2, <1>3, <1>4 DEF DInv

\* A step after the adoption that keeps the directories apart from the disk's
\* contents, told part by part.
LEMMA LateInv ==
  ASSUME DInv, pc \in Late, pc' \in Late, UNCHANGED <<todo, settled, told, found, synced>>,
         disk' \in Disk, disk'["legacy"] = disk["legacy"], app' \in App,
         kept' \in SUBSET Filter, StoreInv', CertainInv', PolicyInv'
  PROVE  DInv'
<1>1. AdoptInv' /\ Shelter'
  BY LateAdoptInv DEF Shelter, DInv
<1>2. TypeInv'
  BY DEF DInv, TypeInv, Late, Phase
<1> QED
  BY <1>1, <1>2 DEF DInv

\* First half of a migration: the library the configuration holds is written to its own file.
LEMMA SplitInv == ASSUME DInv, SplitLibrary PROVE DInv'
<1> DEFINE c == Held("configuration")
           l == Held("library")
<1>1. /\ pc = "prepared" /\ app' = [Off EXCEPT !.first = FirstRun]
      /\ UNCHANGED <<todo, settled, told, found, synced, kept>>
      /\ disk \in Disk /\ kept \in SUBSET Filter /\ kept = Stored(disk)
  BY DEF SplitLibrary, DInv, TypeInv, StoreInv
<1>2. app' \in App /\ ~app'.certain /\ app'.first = FirstRun
  <2>1. Off \in App /\ ~Off.certain
    BY DEF Off, App, Policy, DefaultConfiguration, Configuration
  <2>2. FirstRun \in BOOLEAN
    BY DEF FirstRun
  <2> HIDE DEF Off
  <2> QED
    BY <1>1, <2>1, <2>2 DEF App
<1>3. c \in Configuration \cup {None} /\ l \in Library \cup {None}
  BY <1>1, Contents DEF Held, Place
<1>4. CertainInv' \/ pc' = "running"
  BY <1>2 DEF CertainInv, FavoritesDurable, Running
<1>5. CASE (c = None \/ ~c.good \/ c.embedded = None) /\ pc' = "opening" /\ disk' = disk
  <2>1. StoreInv'
    BY <1>1, <1>5 DEF StoreInv, Divided, DInv, Held
  <2>2. PolicyInv'
    BY <1>2, <1>5 DEF PolicyInv, FirstRun, Held
  <2> QED
    BY <1>1, <1>2, <1>4, <1>5, <2>1, <2>2, LateInv DEF Late
<1>6. CASE pc' = "off" /\ disk' = disk
  <2>1. TypeInv' /\ Shelter' /\ StoreInv'
    BY <1>1, <1>2, <1>6 DEF DInv, TypeInv, Shelter, StoreInv, Phase
  <2>2. AdoptInv'
    BY <1>1, <1>6 DEF DInv, AdoptInv, AdoptionWhole, Unready
  <2>3. CertainInv' /\ PolicyInv'
    BY <1>2, <1>6 DEF CertainInv, FavoritesDurable, Running, PolicyInv
  <2> QED
    BY <2>1, <2>2, <2>3 DEF DInv
<1>7. ASSUME c # None, c.good, c.embedded # None, l # None => l.good, pc' = "split",
             NEW F \in SUBSET Filter,
             F = c.embedded \cup (IF l = None THEN {} ELSE l.filters),
             disk' = Written("library", LibraryOf(F))
      PROVE  DInv'
  <2>1. /\ disk' \in Disk /\ disk'["legacy"] = disk["legacy"]
        /\ disk'["successor"].file["library"] = LibraryOf(F)
        /\ disk'["successor"].file["configuration"] = c
    BY <1>1, <1>7, WrittenLibrary, FileNames
  <2>2. LibraryOf(F) \in Library /\ LibraryOf(F).good /\ LibraryOf(F).filters = F
    BY DEF LibraryOf, Library
  <2>3. LibraryOf(F) # None
    BY <2>2, DurableAssumption
  <2>4. c.embedded \in SUBSET Filter /\ c \in Configuration
    BY <1>3, <1>7 DEF Configuration
  <2>5. Stored(disk') = Stored(disk)
    <3>1. StoredAt(disk', "legacy") = StoredAt(disk, "legacy")
      BY <2>1 DEF StoredAt
    <3>2. StoredAt(disk', "successor") = F
      BY <2>1, <2>2, <2>3, <1>7 DEF StoredAt
    <3>3. StoredAt(disk, "successor") = F
      BY <1>7 DEF StoredAt, Held
    <3> QED
      BY <3>1, <3>2, <3>3 DEF Stored
  <2>6. StoreInv'
    BY <1>1, <1>7, <2>1, <2>2, <2>4, <2>5 DEF DInv, StoreInv, Held
  <2>7. PolicyInv'
    BY <1>2, <1>7 DEF PolicyInv, FirstRun
  <2> QED
    BY <1>1, <1>2, <1>4, <1>7, <2>1, <2>6, <2>7, LateInv DEF Late
<1>8. CASE c # None /\ c.good /\ c.embedded # None /\ l = None /\ pc' = "split"
           /\ disk' = Written("library", LibraryOf(c.embedded))
  <2>1. c.embedded \in SUBSET Filter
    BY <1>3, <1>8 DEF Configuration
  <2> QED
    BY <1>7, <1>8, <2>1
<1>9. CASE c # None /\ c.good /\ c.embedded # None /\ l # None /\ l.good /\ pc' = "split"
           /\ disk' = Written("library", LibraryOf(c.embedded \cup l.filters))
  <2>1. c.embedded \cup l.filters \in SUBSET Filter
    BY <1>3, <1>9 DEF Configuration, Library
  <2> QED
    BY <1>7, <1>9, <2>1
<1>10. \/ (c = None \/ ~c.good \/ c.embedded = None) /\ pc' = "opening" /\ disk' = disk
       \/ pc' = "off" /\ disk' = disk
       \/ c # None /\ c.good /\ c.embedded # None /\ l = None /\ pc' = "split"
            /\ disk' = Written("library", LibraryOf(c.embedded))
       \/ c # None /\ c.good /\ c.embedded # None /\ l # None /\ l.good /\ pc' = "split"
            /\ disk' = Written("library", LibraryOf(c.embedded \cup l.filters))
  BY DEF SplitLibrary
<1> QED
  BY <1>5, <1>6, <1>8, <1>9, <1>10

\* Second half: the configuration is rewritten without it.
LEMMA RewriteInv == ASSUME DInv, RewriteConfiguration PROVE DInv'
<1> DEFINE c == Held("configuration")
           d == [Held("configuration") EXCEPT !.embedded = None]
           l == Held("library")
<1>1. /\ pc = "split" /\ pc' = "opening" /\ disk' = Written("configuration", d)
      /\ UNCHANGED <<todo, settled, told, found, app, synced, kept>>
      /\ disk \in Disk /\ kept \in SUBSET Filter /\ kept = Stored(disk) /\ app \in App
      /\ ~app.first /\ ~app.certain
  BY DEF RewriteConfiguration, DInv, TypeInv, StoreInv, PolicyInv, CertainInv
<1>2. /\ c \in Configuration /\ c.good /\ c.embedded # None
      /\ l \in Library /\ l.good /\ c.embedded \subseteq l.filters
  BY <1>1 DEF DInv, StoreInv
<1>3. d \in Configuration /\ d.embedded = None /\ d.good
  BY <1>2 DEF Configuration
<1> HIDE DEF d
<1>4. /\ disk' \in Disk /\ disk'["legacy"] = disk["legacy"]
      /\ disk'["successor"].file["configuration"] = d
      /\ disk'["successor"].file["library"] = l
  BY <1>1, <1>3, WrittenConfiguration, FileNames
<1>5. Stored(disk') = Stored(disk)
  <2>1. StoredAt(disk', "legacy") = StoredAt(disk, "legacy")
    BY <1>4 DEF StoredAt
  <2>2. l # None /\ c # None
    BY <1>2, DurableAssumption
  <2>3. StoredAt(disk', "successor") = l.filters
    BY <1>2, <1>3, <1>4, <2>2 DEF StoredAt
  <2>4. StoredAt(disk, "successor") = l.filters
    BY <1>2, <2>2 DEF StoredAt, Held
  <2> QED
    BY <2>1, <2>3, <2>4 DEF Stored
<1>6. StoreInv'
  BY <1>1, <1>3, <1>4, <1>5 DEF DInv, StoreInv, Held, Divided
<1>7. CertainInv' /\ PolicyInv'
  BY <1>1 DEF CertainInv, FavoritesDurable, Running, PolicyInv
<1> QED
  BY <1>1, <1>4, <1>6, <1>7, LateInv DEF Late

\* A launch that has settled its files is in a state of the program.
LEMMA AppSettled ==
  ASSUME NEW a \in App, NEW account \in BOOLEAN, NEW live \in Configuration,
         NEW fault \in BOOLEAN, NEW due \in BOOLEAN, NEW shelved \in BOOLEAN
  PROVE  [ a EXCEPT !.account = account, !.live = live, !.fault = fault,
                    !.configurationDue = due, !.libraryDue = shelved ] \in App
<1>1. PICK b : b = [a EXCEPT !.account = account, !.live = live, !.fault = fault]
  OBVIOUS
<1>2. b \in App
  BY <1>1 DEF App
<1>3. [ a EXCEPT !.account = account, !.live = live, !.fault = fault,
                 !.configurationDue = due, !.libraryDue = shelved ]
        = [ b EXCEPT !.configurationDue = due, !.libraryDue = shelved ]
  BY <1>1
<1> QED
  BY <1>2, <1>3 DEF App

\* Opening loads what is kept, or the seed, or ends at a library it cannot read.
LEMMA OpenInv == ASSUME DInv, Open PROVE DInv'
<1> DEFINE c == Held("configuration")
           l == Held("library")
           live == IF c # None /\ c.good THEN c ELSE DefaultConfiguration
           favorites == IF Held("favorites") = None THEN {} ELSE Held("favorites")
           shelf == IF l = None THEN None ELSE LibraryOf(l.filters)
           index == IF sealed THEN Held("index") ELSE "written"
           fault == c # None /\ ~c.good
           due == l = None
           files == [disk["successor"].file EXCEPT !["library"] = shelf, !["index"] = index]
<1>1. /\ pc = "opening" /\ UNCHANGED <<todo, settled, told, found, synced, kept>>
      /\ disk \in Disk /\ kept \in SUBSET Filter /\ kept = Stored(disk) /\ app \in App
      /\ app.first => c = None
      /\ ~app.certain /\ (c = None \/ ~c.good \/ c.embedded = None)
  BY DEF Open, DInv, TypeInv, StoreInv, PolicyInv, CertainInv, Divided
<1>2. c \in Configuration \cup {None} /\ l \in Library \cup {None}
  BY <1>1, Contents DEF Held, Place
<1>3. live \in Configuration /\ live.good /\ live.embedded = None
  BY <1>1, <1>2 DEF DefaultConfiguration, Configuration, Policy
<1>4. favorites \in SUBSET Post
  BY <1>1, Contents DEF Held, Place
<1>5. Loaded \in SUBSET Filter
  BY <1>2, DurableAssumption DEF Loaded, Library
<1> HIDE DEF favorites, live
<1>6. CASE pc' = "off" /\ app' = Off /\ disk' = disk
  BY <1>1, <1>6, OffInv DEF DInv, TypeInv, Shelter
<1>7. ASSUME l = None \/ l.good, pc' = "running", NEW hold \in BOOLEAN,
             app' = [ app EXCEPT !.hold = hold, !.bank = Loaded, !.favorites = favorites,
                                 !.policy = live.policy, !.wish = live.policy,
                                 !.account = live.account, !.live = live,
                                 !.fault = fault,
                                 !.configurationDue = app.first,
                                 !.libraryDue = due ],
             disk' = [disk EXCEPT !["successor"].file = files]
      PROVE  DInv'
  <2>1. /\ files \in Files
        /\ files["library"] = shelf
        /\ files["configuration"] = c
    <3>1. disk["successor"].file \in Files
      BY <1>1 DEF Disk, Place
    <3>2. shelf \in Library \cup {None} /\ index \in {"written", None}
      <4>1. Held("index") \in {"written", None}
        BY <3>1 DEF Held, Files
      <4> QED
        BY <1>2, <4>1 DEF LibraryOf, Library
    <3> HIDE DEF shelf, index
    <3> QED
      BY <3>1, <3>2 DEF Files, Held
  <2> HIDE DEF files
  <2>2. /\ disk' \in Disk /\ disk'["legacy"] = disk["legacy"]
        /\ disk'["successor"].file = files
    BY <1>1, <1>7, <2>1 DEF Disk, Place
  <2>3. Stored(disk') = Stored(disk)
    <3>1. StoredAt(disk', "legacy") = StoredAt(disk, "legacy")
      BY <2>2 DEF StoredAt
    <3>2. l # None => /\ shelf # None /\ shelf.good /\ shelf.filters = l.filters
      <4> SUFFICES ASSUME l # None
                   PROVE  LibraryOf(l.filters) # None /\ LibraryOf(l.filters).good
                          /\ LibraryOf(l.filters).filters = l.filters
        OBVIOUS
      <4>1. LibraryOf(l.filters) \in Library
        BY <1>2 DEF LibraryOf, Library
      <4> QED
        BY <4>1, DurableAssumption DEF LibraryOf
    <3>3. l = None => shelf = None
      OBVIOUS
    <3> HIDE DEF shelf
    <3>4. StoredAt(disk', "successor") = StoredAt(disk, "successor")
      BY <1>7, <2>1, <2>2, <3>2, <3>3 DEF StoredAt, Held
    <3> QED
      BY <3>1, <3>4 DEF Stored
  <2>4. /\ app' \in App /\ ~app'.certain /\ app'.live = live /\ app'.policy = live.policy
        /\ app'.wish = live.policy /\ (app'.fault <=> c # None /\ ~c.good)
        /\ app'.configurationDue = app.first
    <3>1. due \in BOOLEAN /\ fault \in BOOLEAN /\ (fault <=> c # None /\ ~c.good)
      OBVIOUS
    <3>2. live.policy \in Policy /\ live.account \in BOOLEAN
      BY <1>3 DEF Configuration
    <3>3. app' = [ app EXCEPT !.hold = hold, !.bank = Loaded, !.favorites = favorites,
                              !.policy = live.policy, !.wish = live.policy,
                              !.account = live.account, !.live = live, !.fault = fault,
                              !.configurationDue = app.first, !.libraryDue = due ]
      BY <1>7
    <3> HIDE DEF due, fault
    <3>4. PICK bank, policy, account : /\ bank = Loaded
                                       /\ policy = live.policy /\ account = live.account
      OBVIOUS
    <3>5. app' = [ app EXCEPT !.hold = hold, !.bank = bank, !.favorites = favorites,
                              !.policy = policy, !.wish = policy,
                              !.account = account, !.live = live, !.fault = fault,
                              !.configurationDue = app.first, !.libraryDue = due ]
      BY <3>3, <3>4
    <3>6. /\ bank \in SUBSET Filter /\ policy \in Policy /\ account \in BOOLEAN
          /\ app \in App /\ app.first \in BOOLEAN
      BY <1>1, <1>5, <3>2, <3>4 DEF App
    <3>7. app' \in App
      <4>1. PICK first :
              first = [ app EXCEPT !.hold = hold, !.bank = bank, !.favorites = favorites,
                                   !.policy = policy, !.wish = policy ]
        OBVIOUS
      <4>2. first \in App
        BY <1>4, <3>6, <4>1 DEF App
      <4>3. app' = [ first EXCEPT !.account = account, !.live = live, !.fault = fault,
                                  !.configurationDue = app.first, !.libraryDue = due ]
        BY <3>5, <3>6, <4>1 DEF App
      <4>4. /\ account \in BOOLEAN /\ live \in Configuration /\ fault \in BOOLEAN
            /\ app.first \in BOOLEAN /\ due \in BOOLEAN
        BY <1>3, <3>1, <3>6
      <4> QED
        BY <4>2, <4>3, <4>4, AppSettled
    <3>8. /\ app'.certain = app.certain /\ app'.live = live
          /\ app'.policy = policy /\ app'.wish = policy /\ app'.fault = fault
          /\ app'.configurationDue = app.first
      BY <3>5, <3>6 DEF App
    <3> QED
      BY <1>1, <3>1, <3>4, <3>7, <3>8
  <2>5. StoreInv'
    BY <1>1, <1>3, <1>7, <2>1, <2>2, <2>3, <2>4 DEF DInv, StoreInv, Held, Divided
  <2>6. CertainInv'
    BY <1>7, <2>4 DEF CertainInv, FavoritesDurable
  <2>7. PolicyInv'
    BY <1>1, <1>3, <1>7, <2>1, <2>2, <2>4 DEF PolicyInv, Held, live
  <2> QED
    BY <1>1, <1>7, <2>2, <2>4, <2>5, <2>6, <2>7, LateInv DEF Late
<1>8. CASE l # None /\ ~l.good
  BY <1>6, <1>8 DEF Open
<1>9. CASE l = None \/ l.good
  <2>1. pc' = "running"
    BY <1>9 DEF Open
  <2>2. PICK hold \in BOOLEAN :
          app' = [ app EXCEPT !.hold = hold, !.bank = Loaded, !.favorites = favorites,
                              !.policy = live.policy, !.wish = live.policy,
                              !.account = live.account, !.live = live, !.fault = fault,
                              !.configurationDue = app.first, !.libraryDue = due ]
    BY <1>9 DEF Open, live, favorites
  <2>3. disk' = [disk EXCEPT !["successor"].file = files]
    <3>1. disk' = [ disk EXCEPT !["successor"].file =
                      [@ EXCEPT !["library"] = shelf, !["index"] = index] ]
      BY <1>9 DEF Open
    <3> HIDE DEF shelf, index
    <3> QED
      BY <3>1
  <2> QED
    BY <1>7, <1>9, <2>1, <2>2, <2>3
<1> QED
  BY <1>8, <1>9

-----------------------------------------------------------------------------
(* What the user does                                                      *)

\* An act of the user changes filters or policy in memory, and inscribes them.
LEMMA ActInv ==
  ASSUME DInv, pc = "running", KeepDisk, NEW a \in App, app' = Inscribed(a),
         a.certain = app.certain, a.favorites = app.favorites, a.live = app.live,
         a.fault = app.fault, a.configurationDue = app.configurationDue, a.policy = a.wish
  PROVE  DInv'
<1>1. /\ UNCHANGED <<disk, pc, todo, settled, told, found, synced, kept>> /\ pc' = "running"
      /\ app \in App /\ disk \in Disk /\ kept \in SUBSET Filter
  BY DEF KeepDisk, adoptionVars, DInv, TypeInv
<1>2. /\ app' \in App
      /\ app'.live = IF a.fault THEN a.live ELSE Projection(a)
      /\ app'.configurationDue
           = (~a.fault /\ (a.configurationDue \/ Projection(a) # a.live))
      /\ app'.policy = a.policy /\ app'.wish = a.wish /\ app'.fault = a.fault
      /\ app'.certain = a.certain /\ app'.favorites = a.favorites
  BY <1>1, InscribedDoes
<1>3. Projection(a).good /\ Projection(a).policy = a.policy /\ Projection(a).embedded = None
  BY DEF Projection
<1>4. StoreInv'
  BY <1>1, <1>2, <1>3 DEF DInv, StoreInv, Held, Divided
<1>5. CertainInv'
  BY <1>1, <1>2 DEF DInv, CertainInv, FavoritesDurable, Running, Held
<1>6. PolicyInv'
  BY <1>1, <1>2, <1>3 DEF DInv, PolicyInv, Held
<1> QED
  BY <1>1, <1>2, <1>4, <1>5, <1>6, LateInv DEF Late

\* Saving or deleting a filter.
LEMMA SaveDeleteInv ==
  ASSUME DInv, NEW f \in Filter, SaveFilter(f) \/ DeleteFilter(f)  PROVE DInv'
<1> PICK bank \in SUBSET Filter : app' = Inscribed([app EXCEPT !.bank = bank])
  <2>1. app.bank \cup {f} \in SUBSET Filter /\ app.bank \ {f} \in SUBSET Filter
    BY DEF DInv, TypeInv, App
  <2> QED
    BY <2>1 DEF SaveFilter, DeleteFilter
<1>1. pc = "running" /\ KeepDisk /\ app.policy = app.wish /\ app \in App
  BY DEF SaveFilter, DeleteFilter, Act, Running, DInv, PolicyInv, TypeInv
<1> DEFINE a == [app EXCEPT !.bank = bank]
<1>2. /\ a \in App /\ a.certain = app.certain /\ a.favorites = app.favorites
      /\ a.live = app.live /\ a.fault = app.fault /\ a.configurationDue = app.configurationDue
      /\ a.policy = app.policy /\ a.wish = app.wish /\ app' = Inscribed(a)
  BY <1>1 DEF App
<1> HIDE DEF a
<1> QED
  BY <1>1, <1>2, ActInv

\* Choosing a policy.
LEMMA ChooseInv == ASSUME DInv, NEW p \in Policy, ChoosePolicy(p) PROVE DInv'
<1>1. pc = "running" /\ KeepDisk /\ app \in App
  BY DEF ChoosePolicy, Act, Running, DInv, TypeInv
<1> DEFINE a == [app EXCEPT !.hold = FALSE, !.policy = p, !.wish = p]
<1>2. /\ a \in App /\ a.certain = app.certain /\ a.favorites = app.favorites
      /\ a.live = app.live /\ a.fault = app.fault /\ a.configurationDue = app.configurationDue
      /\ a.policy = a.wish /\ app' = Inscribed(a)
  BY <1>1 DEF App, ChoosePolicy
<1> HIDE DEF a
<1> QED
  BY <1>1, <1>2, ActInv

\* Toggling a favourite writes the favourites and syncs them, or fails before or after.
LEMMA ToggleInv == ASSUME DInv, NEW p \in Post, ToggleFavorite(p) PROVE DInv'
<1> DEFINE next == IF p \in app.favorites THEN app.favorites \ {p} ELSE app.favorites \cup {p}
           new == Written("favorites", next)
<1>1. /\ pc = "running" /\ pc' = pc /\ UNCHANGED <<todo, settled, told, found, kept>>
      /\ disk \in Disk /\ kept \in SUBSET Filter /\ kept = Stored(disk) /\ app \in App
      /\ synced \in [disk : Disk, kept : SUBSET Filter]
  BY DEF ToggleFavorite, Act, Running, DInv, TypeInv, StoreInv
<1>2. next \in SUBSET Post
  BY <1>1 DEF App
<1>3. \/ /\ disk' = new
         /\ synced' = [disk |-> disk', kept |-> kept]
         /\ app' = [app EXCEPT !.favorites = next, !.certain = TRUE]
      \/ /\ disk' \in {disk, new}
         /\ app' = [app EXCEPT !.certain = FALSE]
         /\ synced' = synced
  BY DEF ToggleFavorite
<1> HIDE DEF next
<1>4. /\ new \in Disk /\ new["legacy"] = disk["legacy"]
      /\ new["successor"].file["favorites"] = next
      /\ new["successor"].file["configuration"] = Held("configuration")
      /\ new["successor"].file["library"] = Held("library")
  BY <1>1, <1>2, WrittenFavorites, FileNames
<1> HIDE DEF new
<1>5. /\ disk' \in Disk /\ disk'["legacy"] = disk["legacy"]
      /\ disk'["successor"].file["configuration"] = Held("configuration")
      /\ disk'["successor"].file["library"] = Held("library")
  BY <1>1, <1>3, <1>4 DEF Held
<1>6. Stored(disk') = Stored(disk)
  BY <1>5, StoredSame DEF Place, Held
<1>7. AdoptInv' /\ Sheltered(disk')
  BY <1>1, <1>5, LateAdoptInv DEF Late
<1>8. /\ app' \in App /\ app'.live = app.live /\ app'.fault = app.fault
      /\ app'.policy = app.policy /\ app'.wish = app.wish
      /\ app'.configurationDue = app.configurationDue
      /\ \/ app'.favorites = next /\ disk' = new /\ synced' = [disk |-> disk', kept |-> kept]
         \/ ~app'.certain
  <2>1. CASE /\ disk' = new /\ synced' = [disk |-> disk', kept |-> kept]
             /\ app' = [app EXCEPT !.favorites = next, !.certain = TRUE]
    <3>1. app' \in App /\ app'.favorites = next
      BY <1>1, <1>2, <2>1 DEF App
    <3>2. /\ app'.live = app.live /\ app'.fault = app.fault
          /\ app'.policy = app.policy /\ app'.wish = app.wish
          /\ app'.configurationDue = app.configurationDue
      BY <1>1, <2>1 DEF App
    <3> QED
      BY <2>1, <3>1, <3>2
  <2>2. CASE app' = [app EXCEPT !.certain = FALSE]
    <3>1. app' \in App /\ ~app'.certain
      BY <1>1, <2>2 DEF App
    <3>2. /\ app'.live = app.live /\ app'.fault = app.fault
          /\ app'.policy = app.policy /\ app'.wish = app.wish
          /\ app'.configurationDue = app.configurationDue
      BY <1>1, <2>2 DEF App
    <3> QED
      BY <3>1, <3>2
  <2> QED
    BY <1>3, <2>1, <2>2
<1>9. /\ synced' \in [disk : Disk, kept : SUBSET Filter] /\ Sheltered(synced'.disk)
      /\ synced'.kept = Stored(synced'.disk)
  <2>1. CASE synced' = synced
    BY <1>1, <2>1 DEF DInv, Shelter, StoreInv
  <2>2. CASE synced' = [disk |-> disk', kept |-> kept]
    BY <1>1, <1>5, <1>6, <1>7, <2>2
  <2> QED
    BY <1>3, <2>1, <2>2
<1>10. TypeInv' /\ Shelter'
  BY <1>1, <1>5, <1>7, <1>8, <1>9 DEF DInv, TypeInv, Shelter
<1>11. StoreInv'
  BY <1>1, <1>5, <1>6, <1>8, <1>9 DEF DInv, StoreInv, Divided, Held
<1>12. CertainInv'
  BY <1>1, <1>4, <1>8 DEF CertainInv, FavoritesDurable, Running, Held
<1>13. PolicyInv'
  BY <1>1, <1>5, <1>8 DEF DInv, PolicyInv, Held
<1> QED
  BY <1>7, <1>10, <1>11, <1>12, <1>13 DEF DInv

-----------------------------------------------------------------------------
(* What the program writes                                                 *)

\* Once the migration is over, the library alone says what the disk holds.
LEMMA LibraryStores ==
  ASSUME disk \in Disk, Divided, NEW F \in SUBSET Filter, NEW d,
         d["legacy"] = disk["legacy"],
         d["successor"].file["configuration"] = Held("configuration"),
         d["successor"].file["library"] = LibraryOf(F)
  PROVE  Stored(d) = F \cup StoredAt(disk, "legacy")
<1>1. LibraryOf(F) \in Library /\ LibraryOf(F).good /\ LibraryOf(F).filters = F
  BY DEF LibraryOf, Library
<1>2. LibraryOf(F) # None
  BY <1>1, DurableAssumption
<1> DEFINE c == Held("configuration")
<1>3. c = None \/ ~c.good \/ c.embedded = None
  BY DEF Divided
<1>4. StoredAt(d, "successor") = F
  BY <1>1, <1>2, <1>3 DEF StoredAt
<1>5. StoredAt(d, "legacy") = StoredAt(disk, "legacy")
  BY DEF StoredAt
<1> QED
  BY <1>4, <1>5 DEF Stored

\* Tending a library that is due writes it.
LEMMA TendLibraryInv == ASSUME DInv, TendLibrary PROVE DInv'
<1>1. /\ pc = "running" /\ pc' = pc /\ UNCHANGED <<todo, settled, told, found, synced>>
      /\ disk \in Disk /\ app \in App /\ Divided /\ app.bank \in SUBSET Filter
      /\ disk' = Written("library", LibraryOf(app.bank))
      /\ kept' = app.bank \cup StoredAt(disk, "legacy")
      /\ app' = [app EXCEPT !.libraryDue = FALSE]
  BY DEF TendLibrary, InscribeLibrary, Running, DInv, TypeInv, StoreInv, App
<1>2. /\ disk' \in Disk /\ disk'["legacy"] = disk["legacy"]
      /\ disk'["successor"].file["library"] = LibraryOf(app.bank)
      /\ disk'["successor"].file["configuration"] = Held("configuration")
      /\ disk'["successor"].file["favorites"] = Held("favorites")
  BY <1>1, WrittenLibrary, FileNames
<1>3. /\ app' \in App /\ app'.live = app.live /\ app'.fault = app.fault
      /\ app'.policy = app.policy /\ app'.wish = app.wish
      /\ app'.configurationDue = app.configurationDue
      /\ app'.certain = app.certain /\ app'.favorites = app.favorites
  BY <1>1 DEF App
<1>4. kept' = Stored(disk') /\ kept' \in SUBSET Filter
  BY <1>1, <1>2, LibraryStores, Contents DEF Place
<1>5. StoreInv'
  BY <1>1, <1>2, <1>3, <1>4 DEF DInv, StoreInv, Divided, Held
<1>6. CertainInv'
  BY <1>1, <1>2, <1>3 DEF DInv, CertainInv, FavoritesDurable, Running, Held
<1>7. PolicyInv'
  BY <1>1, <1>2, <1>3 DEF DInv, PolicyInv, Held
<1> QED
  BY <1>1, <1>2, <1>3, <1>4, <1>5, <1>6, <1>7, LateInv DEF Late

\* The configuration written, by the ledger or by its user, is what the ledger has.
LEMMA ConfigurationInv ==
  ASSUME DInv, pc = "running", pc' = pc,
         UNCHANGED <<todo, settled, told, found, synced, kept>>,
         NEW c \in Configuration, c.good, c.embedded = None,
         disk' = Written("configuration", c),
         app' \in App, app'.live = c, ~app'.fault, app'.policy = c.policy, app'.wish = c.policy,
         app'.certain = app.certain, app'.favorites = app.favorites
  PROVE  DInv'
<1>1. disk \in Disk /\ kept \in SUBSET Filter /\ kept = Stored(disk) /\ Divided
  BY DEF DInv, TypeInv, StoreInv
<1>2. /\ disk' \in Disk /\ disk'["legacy"] = disk["legacy"]
      /\ disk'["successor"].file["configuration"] = c
      /\ disk'["successor"].file["library"] = Held("library")
      /\ disk'["successor"].file["favorites"] = Held("favorites")
  BY <1>1, WrittenConfiguration, FileNames
<1>3. Stored(disk') = Stored(disk)
  <2>1. StoredAt(disk', "legacy") = StoredAt(disk, "legacy")
    BY <1>2 DEF StoredAt
  <2>2. StoredAt(disk', "successor") = StoredAt(disk, "successor")
    BY <1>1, <1>2 DEF StoredAt, Held, Divided
  <2> QED
    BY <2>1, <2>2 DEF Stored
<1>4. StoreInv'
  BY <1>1, <1>2, <1>3 DEF DInv, StoreInv, Divided, Held
<1>5. CertainInv'
  BY <1>2 DEF DInv, CertainInv, FavoritesDurable, Running, Held
<1>6. PolicyInv'
  BY <1>2 DEF PolicyInv, Held
<1> QED
  BY <1>1, <1>2, <1>4, <1>5, <1>6, LateInv DEF Late

\* Tending a configuration that is due writes it.
LEMMA TendConfigurationInv == ASSUME DInv, TendConfiguration PROVE DInv'
<1>1. /\ pc = "running" /\ pc' = pc /\ UNCHANGED <<todo, settled, told, found, synced, kept>>
      /\ app \in App /\ app.live \in Configuration /\ app.live.embedded = None
      /\ app.configurationDue /\ disk' = Written("configuration", app.live)
      /\ app' = [app EXCEPT !.configurationDue = FALSE]
  BY DEF TendConfiguration, Running, DInv, TypeInv, StoreInv, App
<1>2. /\ ~app.fault /\ app.live.good /\ app.live.policy = app.policy
      /\ app.policy = app.wish
  BY <1>1 DEF DInv, PolicyInv
<1>3. /\ app' \in App /\ app'.live = app.live /\ app'.fault = app.fault
      /\ app'.policy = app.policy /\ app'.wish = app.wish
      /\ app'.certain = app.certain /\ app'.favorites = app.favorites
  BY <1>1 DEF App
<1> QED
  BY <1>1, <1>2, <1>3, ConfigurationInv

\* The user edits the configuration by hand.
LEMMA EditInv ==
  ASSUME DInv, NEW p \in Policy, NEW account \in BOOLEAN, EditByHand(p, account)
  PROVE  DInv'
<1> DEFINE c == [good |-> TRUE, policy |-> p, account |-> account, embedded |-> None]
<1>1. /\ pc = "running" /\ pc' = pc /\ UNCHANGED <<todo, settled, told, found, synced, kept>>
      /\ app \in App /\ disk' = Written("configuration", c)
      /\ app' = [app EXCEPT !.live = c, !.fault = FALSE, !.policy = p, !.wish = p]
  BY DEF EditByHand, Act, Running, DInv, TypeInv
<1>2. c \in Configuration /\ c.good /\ c.embedded = None /\ c.policy = p
  BY DEF Configuration
<1> HIDE DEF c
<1>3. /\ app' \in App /\ app'.live = c /\ ~app'.fault /\ app'.policy = p /\ app'.wish = p
      /\ app'.certain = app.certain /\ app'.favorites = app.favorites
  BY <1>1, <1>2 DEF App
<1> QED
  BY <1>1, <1>2, <1>3, ConfigurationInv

\* Closing writes the library and the session.
LEMMA CloseInv == ASSUME DInv, Close PROVE DInv'
<1> DEFINE mid == Written("library", LibraryOf(app.bank))
           files == [mid["successor"].file EXCEPT !["slate"] = "written"]
<1>1. /\ pc = "running" /\ pc' = "off" /\ app' = Off
      /\ UNCHANGED <<todo, settled, told, found, synced>>
      /\ disk \in Disk /\ Divided /\ app.bank \in SUBSET Filter
      /\ todo \in Seq(Root) /\ settled \in Seq(Root)
      /\ disk' = [mid EXCEPT !["successor"].file["slate"] = "written"]
      /\ kept' = app.bank \cup StoredAt(disk, "legacy")
  BY DEF Close, Running, DInv, TypeInv, StoreInv, App
<1>2. /\ mid \in Disk /\ mid["legacy"] = disk["legacy"]
      /\ mid["successor"].file["library"] = LibraryOf(app.bank)
      /\ mid["successor"].file["configuration"] = Held("configuration")
  BY <1>1, WrittenLibrary, FileNames
<1> HIDE DEF mid
<1>3. /\ files \in Files
      /\ files["library"] = LibraryOf(app.bank)
      /\ files["configuration"] = Held("configuration")
  BY <1>2 DEF Disk, Place, Files
<1>4. disk' = [mid EXCEPT !["successor"].file = files]
  BY <1>1
<1> HIDE DEF files
<1>5. /\ disk' \in Disk /\ disk'["legacy"] = disk["legacy"]
      /\ disk'["successor"].file = files
  BY <1>2, <1>3, <1>4 DEF Disk, Place
<1>6. kept' = Stored(disk') /\ kept' \in SUBSET Filter
  BY <1>1, <1>3, <1>5, LibraryStores, Contents DEF Place
<1>7. Sheltered(disk')
  BY <1>1, <1>5, LateAdoptInv DEF Late
<1> QED
  BY <1>1, <1>5, <1>6, <1>7, OffInv

-----------------------------------------------------------------------------
(* The theorems                                                            *)

\* Every disk a first launch may find satisfies the invariant.
LEMMA InitInv == ASSUME Init PROVE DInv
<1>1. /\ disk \in Disk /\ Sheltered(disk) /\ pc = "off" /\ todo = <<>> /\ settled = <<>>
      /\ found = {} /\ app = Off /\ kept = Stored(disk)
      /\ synced = [disk |-> disk, kept |-> kept]
  BY DurableAssumption DEF Init
<1>2. kept \in SUBSET Filter
  BY <1>1, Contents DEF Stored, Place
<1>3. Off \in App /\ ~Off.certain
  BY DEF Off, App, Policy, DefaultConfiguration, Configuration
<1>4. TypeInv /\ Shelter /\ StoreInv
  <2>1. <<>> \in Seq(Root)
    OBVIOUS
  <2> HIDE DEF Off
  <2> QED
    BY <1>1, <1>2, <1>3, <2>1 DEF TypeInv, Phase, Shelter, StoreInv
<1>5. AdoptInv
  BY <1>1 DEF AdoptInv, AdoptionWhole, Unready
<1>6. CertainInv /\ PolicyInv
  BY <1>1, <1>3 DEF CertainInv, FavoritesDurable, Running, PolicyInv
<1> QED
  BY <1>4, <1>5, <1>6 DEF DInv

\* Every step keeps the invariant.
LEMMA StepInv == ASSUME DInv, [Next]_vars PROVE DInv'
<1>1. CASE Adopt
  BY <1>1, ClaimInv, MoveInv, RevertInv, PrepareInv, IntrudeInv DEF Adopt, AdoptionNext
<1>2. CASE SplitLibrary \/ RewriteConfiguration \/ Open
  BY <1>2, SplitInv, RewriteInv, OpenInv
<1>3. CASE \E f \in Filter : SaveFilter(f) \/ DeleteFilter(f)
  BY <1>3, SaveDeleteInv
<1>4. CASE \E p \in Policy : ChoosePolicy(p) \/ \E account \in BOOLEAN : EditByHand(p, account)
  BY <1>4, ChooseInv, EditInv
<1>5. CASE \E p \in Post : ToggleFavorite(p)
  BY <1>5, ToggleInv
<1>6. CASE TendLibrary \/ TendConfiguration \/ Close
  BY <1>6, TendLibraryInv, TendConfigurationInv, CloseInv
<1>7. CASE Stop \/ Settle \/ LosePower
  BY <1>7, StopInv, SettleInv
<1>8. CASE UNCHANGED vars
  <2>1. UNCHANGED <<disk, pc, todo, settled, told, found, app, synced, kept>>
    BY <1>8 DEF vars, adoptionVars
  <2>2. TypeInv' /\ Shelter' /\ StoreInv'
    BY <2>1 DEF DInv, TypeInv, Shelter, StoreInv, Held, Divided
  <2>3. AdoptInv'
    BY <2>1 DEF DInv, AdoptInv, AdoptionWhole, LeftBehind, Occupied
  <2>4. CertainInv' /\ PolicyInv'
    BY <2>1 DEF DInv, CertainInv, FavoritesDurable, Running, PolicyInv, Held
  <2> QED
    BY <2>2, <2>3, <2>4 DEF DInv
<1> QED
  BY <1>1, <1>2, <1>3, <1>4, <1>5, <1>6, <1>7, <1>8 DEF Next

\* The inductive invariant over launches, crashes and losses of power: the files
\* of both places are well formed, the adoption knows what it moved, the disk
\* holds exactly the filters it was entrusted with, and the ledger of a running
\* program has the policy of its user.
THEOREM Invariance == Spec => []DInv
<1>1. Init => DInv
  BY InitInv
<1>2. DInv /\ [Next]_vars => DInv'
  BY StepInv
<1> QED
  BY <1>1, <1>2, PTL DEF Spec

\* Whatever stands in the way, whatever another process writes meanwhile, and
\* wherever a launch is cut off: the program never runs beside half an adopted
\* installation without having said so.
THEOREM AdoptionIsWhole == Spec => []AdoptionWhole
<1>1. DInv => AdoptionWhole
  BY DEF DInv, AdoptInv
<1> QED
  BY <1>1, Invariance, PTL

\* No launch, adoption, migration, crash or loss of power loses a saved filter.
THEOREM FiltersAreKept == Spec => []FiltersSurvive
<1>1. DInv => FiltersSurvive
  BY DEF DInv, StoreInv, FiltersSurvive
<1> QED
  BY <1>1, Invariance, PTL

\* A favorite the program reports is on the disk for good.
THEOREM FavoritesAreDurable == Spec => []FavoritesDurable
<1>1. DInv => FavoritesDurable
  BY DEF DInv, CertainInv
<1> QED
  BY <1>1, Invariance, PTL

\* The configuration file has the policy its user last chose, once it is written.
THEOREM PolicyStaysUsers == Spec => []PolicyIsUsers
<1>1. DInv => PolicyIsUsers
  <2> SUFFICES ASSUME DInv, pc = "running", ~app.configurationDue,
                      Held("configuration") # None, Held("configuration").good
               PROVE  Held("configuration").policy = app.wish
    BY DEF PolicyIsUsers, Running
  <2> QED
    BY DEF DInv, PolicyInv
<1> QED
  BY <1>1, Invariance, PTL

\* A launch loads what the last one wrote, and the seed only on a first run.
THEOREM LaunchLoadsKept == Spec => LoadsWhatWasKept
<1>1. DInv /\ [Next]_vars
        => [ pc = "opening" /\ pc' = "running" /\ StoredAt(disk, "legacy") = {}
               => app'.bank = kept \/ (app.first /\ app'.bank = {Seed}) ]_vars
  <2> SUFFICES ASSUME DInv, Next, pc = "opening", pc' = "running",
                      StoredAt(disk, "legacy") = {}
               PROVE  app'.bank = kept \/ (app.first /\ app'.bank = {Seed})
    OBVIOUS
  <2> DEFINE c == Held("configuration")
             l == Held("library")
  <2>1. Open
    BY DEF Next, Adopt, AdoptionNext, Claim, Move, Revert, Prepare, Intrude, SplitLibrary,
           RewriteConfiguration, SaveFilter, DeleteFilter, ChoosePolicy, EditByHand,
           ToggleFavorite, Act, Running, TendLibrary, TendConfiguration, Close, Stop,
           Settle, LosePower, adoptionVars
  <2>2. app \in App /\ app'.bank = Loaded /\ (l # None => l.good)
    BY <2>1 DEF Open, DInv, TypeInv, App
  <2>3. kept = StoredAt(disk, "successor")
    BY DEF DInv, StoreInv, Stored
  <2>4. kept = IF l # None THEN l.filters ELSE {}
    BY <2>2, <2>3 DEF DInv, StoreInv, Divided, StoredAt, Held
  <2> QED
    BY <2>2, <2>4 DEF Loaded
<1> QED
  BY <1>1, Invariance, PTL DEF Spec, LoadsWhatWasKept
=============================================================================
