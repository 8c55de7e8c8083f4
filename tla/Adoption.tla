------------------------------ MODULE Adoption ------------------------------
(***************************************************************************)
(* One launch claims its directories (application_paths.rs) and moves the  *)
(* installation that releases up to 1.3.16 left under another name         *)
(* (application_paths/adoption.rs): configuration, data and state, in this *)
(* order, all or none, one rename at a time, never over anything.          *)
(*                                                                         *)
(* A place is one naming of the three directories.  Lot::Absent is a root  *)
(* outside dirs, Lot::Vacant one inside it without a file.  The cache      *)
(* directory, which follows alone and is disposable, is left out.          *)
(***************************************************************************)
EXTENDS Naturals, Sequences, FiniteSets

CONSTANTS
    None,            \* no file
    MaxLaunches,     \* bound: launches
    MaxIntrusions    \* bound: files other processes write during an adoption

VARIABLES
    disk,     \* what both places hold
    pc,       \* where the launch is: off, moving, reverting, prepared, ...
    todo,     \* adopt_installation: moves still to make
    settled,  \* moves made, which a refusal takes back
    told,     \* Claim::strands: what the user is told
    found,    \* history: legacy roots that held files when this launch began
    sealed,   \* the launch is --sealed-index
    launches, intrusions

adoptionVars == <<disk, pc, todo, settled, told, found, sealed, launches, intrusions>>

-----------------------------------------------------------------------------

Place == {"legacy", "successor"}

\* The roots of the installation, which adopt_legacy_roots lists in this order.
Root == {"config", "data", "state"}

\* The files the program keeps, and the root each is in (ViewerPaths).
RootOf == [ configuration |-> "config", library |-> "data", favorites |-> "data",
            index |-> "data", slate |-> "state" ]
File == DOMAIN RootOf

FilesOf(r) == {f \in File : RootOf[f] = r}

\* survey(path) = Lot::Occupied.
Occupied(p, r) == \E f \in FilesOf(r) : disk[p].file[f] # None

\* displace: rename of a whole root from one place to the other.
Displaced(r, from, to) ==
    [ disk EXCEPT
        ![from] = [ dirs |-> @.dirs \ {r},
                    file |-> [f \in File |-> IF f \in FilesOf(r) THEN None ELSE @.file[f]] ],
        ![to]   = [ dirs |-> @.dirs \cup {r},
                    file |-> [f \in File |-> IF f \in FilesOf(r) THEN disk[from].file[f]
                                             ELSE @.file[f]] ] ]

\* The moves of a survey: the legacy roots that hold files, if every successor of
\* theirs holds none; the strand otherwise.
Conflicts == {r \in Root : Occupied("legacy", r) /\ Occupied("successor", r)}
MovesOf(r) == IF Occupied("legacy", r) THEN <<r>> ELSE <<>>
Moves == MovesOf("config") \o MovesOf("data") \o MovesOf("state")

\* For the mutant: the roots whose own successor holds files are left out.
FreeMovesOf(r) == IF Occupied("successor", r) THEN <<>> ELSE MovesOf(r)
MovesUnlessOccupied == FreeMovesOf("config") \o FreeMovesOf("data") \o FreeMovesOf("state")

Unready == {"off", "moving", "reverting"}

-----------------------------------------------------------------------------
(* The launch                                                              *)

\* Mutant: an occupied successor keeps only its own root back.
SurveyRootByRoot(hindrance) ==
    /\ sealed' = FALSE
    /\ found' = {r \in Root : Occupied("legacy", r)}
    /\ hindrance = "busy" => \E p \in Place : disk[p].file["index"] # None
    /\ told' = IF hindrance # None THEN {hindrance} ELSE IF Conflicts # {} THEN {"occupied"} ELSE {}
    /\ todo' = IF hindrance # None THEN <<>> ELSE MovesUnlessOccupied

\* adopt: nothing is locked or reported unless a legacy root holds files; then
\* an index open elsewhere, a path that cannot be read or an occupied successor
\* moves nothing.
Survey(hindrance) ==
    /\ sealed' = FALSE
    /\ found' = {r \in Root : Occupied("legacy", r)}
    /\ hindrance = "busy" => \E p \in Place : disk[p].file["index"] # None
    /\ LET strands == IF found' = {} THEN {}
                      ELSE IF hindrance # None THEN {hindrance}
                      ELSE IF Conflicts # {} THEN {"occupied"}
                      ELSE {}
       IN /\ told' = strands
          /\ todo' = IF strands = {} THEN Moves ELSE <<>>

\* Claim::adopting, and Claim::sparing for a sealed launch.
Claim ==
    /\ pc = "off"
    /\ launches < MaxLaunches
    /\ launches' = launches + 1
    /\ pc' = "moving"
    /\ settled' = <<>>
    /\ \/ \E hindrance \in {None, "busy", "unreadable"} : Survey(hindrance)
       \/ sealed' = TRUE /\ found' = {} /\ told' = {} /\ todo' = <<>>
    /\ UNCHANGED <<disk, intrusions>>

\* settle: a vacant successor is removed and the root renamed onto it; the rename
\* refuses to replace anything, and may fail by itself.
Move ==
    /\ pc = "moving"
    /\ todo # <<>>
    /\ LET r == Head(todo) IN
       \/ /\ ~Occupied("successor", r)
          /\ disk' = Displaced(r, "legacy", "successor")
          /\ settled' = Append(settled, r)
          /\ todo' = Tail(todo)
          /\ UNCHANGED <<pc, told>>
       \/ /\ disk' \in { disk, IF Occupied("successor", r) THEN disk
                               ELSE [disk EXCEPT !["successor"].dirs = @ \ {r}] }
          /\ told' = {"refused"}
          /\ pc' = "reverting"
          /\ todo' = <<>>
          /\ UNCHANGED settled
    /\ UNCHANGED <<found, sealed, launches, intrusions>>

\* The moves made before a refusal are taken back, last first; one that cannot be
\* is told and the rest still tried.
Revert ==
    /\ pc = "reverting"
    /\ settled # <<>>
    /\ LET r == settled[Len(settled)] IN
       \/ /\ r \notin disk["legacy"].dirs
          /\ disk' = Displaced(r, "successor", "legacy")
          /\ UNCHANGED told
       \/ told' = told \cup {"unreverted"} /\ UNCHANGED disk
    /\ settled' = SubSeq(settled, 1, Len(settled) - 1)
    /\ UNCHANGED <<pc, todo, found, sealed, launches, intrusions>>

\* prepare: every root the program writes exists.
Prepare ==
    /\ \/ pc = "moving" /\ todo = <<>>
       \/ pc = "reverting" /\ settled = <<>>
    /\ disk' = [disk EXCEPT !["successor"].dirs = Root]
    /\ pc' = "prepared"
    /\ settled' = <<>>
    /\ UNCHANGED <<todo, told, found, sealed, launches, intrusions>>

\* Another process of the program fills a successor root during the adoption.
Intrude ==
    /\ pc \in {"moving", "reverting"}
    /\ intrusions < MaxIntrusions
    /\ \E f \in {"index", "slate"} :
         /\ disk["successor"].file[f] = None
         /\ disk' = [disk EXCEPT !["successor"] = [ dirs |-> @.dirs \cup {RootOf[f]},
                                                    file |-> [@.file EXCEPT ![f] = "written"] ]]
    /\ intrusions' = intrusions + 1
    /\ UNCHANGED <<pc, todo, settled, told, found, sealed, launches>>

AdoptionNext == Claim \/ Move \/ Revert \/ Prepare \/ Intrude

-----------------------------------------------------------------------------
(* Properties                                                              *)

LeftBehind == {r \in found : Occupied("legacy", r)}

\* Once the program runs, the old configuration, data and state either all moved
\* or all stayed, unless a move could not be taken back, and whatever stayed is
\* told to the user.
AdoptionWhole ==
    pc \notin Unready =>
        /\ LeftBehind # {} => told # {}
        /\ LeftBehind \notin {{}, found} => "unreverted" \in told

=============================================================================
