---------------------------- MODULE DurableFiles ----------------------------
(***************************************************************************)
(* The user's own files over launches, crashes and losses of power: the    *)
(* configuration (configuration.rs), the Filter Library that used to be    *)
(* part of it, the local favorites (favorites.rs), and how Bayonet opens,  *)
(* changes and retires them (app.rs), after Adoption found their places.   *)
(*                                                                         *)
(* A file is replaced by a synced temporary and a rename.  A rename is     *)
(* journaled: it survives a crash of the program, and a loss of power once *)
(* the journal reached the disk, which syncing the directory forces.  The  *)
(* ledger and the scribes of eternalist_apps are external: a settled write *)
(* of what the program last had, refused while the file is at fault.       *)
(***************************************************************************)
EXTENDS Adoption

CONSTANTS
    Filter,          \* saved filters
    Seed,            \* SAFE_DEFAULT_FILTER
    Post,            \* posts a user may favor
    Installations,   \* what the disk may hold before the first launch
    MaxActs          \* bound: what the user does, over all launches

VARIABLES
    app,      \* the running program
    synced,   \* what a loss of power leaves
    kept,     \* history: the filters the disk was last entrusted with
    acts

vars == <<adoptionVars, app, synced, kept, acts>>

-----------------------------------------------------------------------------
(* Files                                                                   *)

Policy == {"active", "paused"}

\* config.toml; embedded is the Filter Library of the former combined formats.
Configuration == [ good : BOOLEAN, policy : Policy, account : BOOLEAN,
                   embedded : (SUBSET Filter) \cup {None} ]
DefaultConfiguration == [good |-> TRUE, policy |-> "active", account |-> FALSE, embedded |-> None]

\* filters.toml; old is the serialized-tree schema.
Library == [good : BOOLEAN, old : BOOLEAN, filters : SUBSET Filter]
LibraryOf(F) == [good |-> TRUE, old |-> FALSE, filters |-> F]

\* What a place may hold; a file of the legacy place lies in its root.
Files == [ configuration : Configuration \cup {None}, library : Library \cup {None},
           favorites : (SUBSET Post) \cup {None}, index : {"written", None},
           slate : {"written", None} ]
Disk == [Place -> [dirs : SUBSET Root, file : Files]]
Sheltered(d) == \A f \in File : d["legacy"].file[f] # None => RootOf[f] \in d["legacy"].dirs

ASSUME DurableAssumption ==
    /\ Seed \in Filter
    /\ None \notin Configuration \cup Library
    /\ \A d \in Installations : d \in Disk /\ Sheltered(d)

Held(f) == disk["successor"].file[f]
Written(f, value) == [disk EXCEPT !["successor"].file[f] = value]

\* Every filter some file of a place still has.
StoredAt(d, p) ==
    LET c == d[p].file["configuration"]
        l == d[p].file["library"]
    IN (IF c # None /\ c.good /\ c.embedded # None THEN c.embedded ELSE {})
          \cup (IF l # None /\ l.good THEN l.filters ELSE {})
Stored(d) == StoredAt(d, "legacy") \cup StoredAt(d, "successor")

Off == [ first |-> FALSE, hold |-> FALSE, bank |-> {}, favorites |-> {}, policy |-> "active",
         wish |-> "active", account |-> FALSE, live |-> DefaultConfiguration, fault |-> FALSE,
         configurationDue |-> FALSE, libraryDue |-> FALSE, certain |-> FALSE ]

Running == pc = "running"

Init ==
    /\ disk \in Installations
    /\ pc = "off" /\ todo = <<>> /\ settled = <<>> /\ told = {} /\ found = {}
    /\ sealed = FALSE /\ launches = 0 /\ intrusions = 0
    /\ app = Off
    /\ kept = Stored(disk)
    /\ synced = [disk |-> disk, kept |-> kept]
    /\ acts = 0

Adopt == AdoptionNext /\ UNCHANGED <<app, synced, kept, acts>>

-----------------------------------------------------------------------------
(* Bayonet::open.  A write or a check that fails ends the launch: Stop.    *)

FirstRun == Held("configuration") = None /\ Held("library") = None

\* Mutant: a resident library is no reason to refuse.
SplitOverResident ==
    /\ pc = "prepared"
    /\ app' = [Off EXCEPT !.first = FirstRun]
    /\ LET c == Held("configuration")
       IN IF c = None \/ ~c.good \/ c.embedded = None
          THEN pc' = "opening" /\ UNCHANGED disk
          ELSE pc' = "split" /\ disk' = Written("library", LibraryOf(c.embedded))
    /\ UNCHANGED <<todo, settled, told, found, sealed, launches, intrusions, synced, kept, acts>>

\* migrate_legacy_configuration, first half: a filter library inside the
\* configuration is written to its own file, unless the resident one is another.
SplitLibrary ==
    /\ pc = "prepared"
    /\ app' = [Off EXCEPT !.first = FirstRun]
    /\ LET c == Held("configuration")
           l == Held("library")
       IN IF c = None \/ ~c.good \/ c.embedded = None
          THEN pc' = "opening" /\ UNCHANGED disk
          ELSE IF l = None
          THEN pc' = "split" /\ disk' = Written("library", LibraryOf(c.embedded))
          ELSE IF ~l.good \/ (c.embedded # l.filters /\ c.embedded # {} /\ l.filters # {})
          THEN pc' = "off" /\ UNCHANGED disk
          ELSE pc' = "split" /\ disk' = Written("library", LibraryOf(c.embedded \cup l.filters))
    /\ UNCHANGED <<todo, settled, told, found, sealed, launches, intrusions, synced, kept, acts>>

\* Second half: the configuration is rewritten without it.
RewriteConfiguration ==
    /\ pc = "split"
    /\ pc' = "opening"
    /\ disk' = Written("configuration", [Held("configuration") EXCEPT !.embedded = None])
    /\ UNCHANGED <<todo, settled, told, found, sealed, launches, intrusions, app, synced, kept, acts>>

\* Mutant: a library that is missing or empty is seeded.
LoadedSeedingEmpty == IF Held("library") # None /\ Held("library").filters # {}
                      THEN Held("library").filters ELSE {Seed}

\* FilterLibrary::load: the seed is only for a first run; the old schema is
\* written again at once.
Loaded == IF Held("library") # None THEN Held("library").filters
          ELSE IF app.first THEN {Seed} ELSE {}

Open ==
    /\ pc = "opening"
    /\ LET c == Held("configuration")
           l == Held("library")
           live == IF c # None /\ c.good THEN c ELSE DefaultConfiguration
       IN IF l # None /\ ~l.good
          THEN pc' = "off" /\ app' = Off /\ UNCHANGED disk
          ELSE /\ pc' = "running"
               /\ \E hold \in BOOLEAN : app' =
                    [ app EXCEPT
                        !.hold = hold,
                        !.bank = Loaded,
                        !.favorites = IF Held("favorites") = None THEN {} ELSE Held("favorites"),
                        !.policy = live.policy,
                        !.wish = live.policy,
                        !.account = live.account,
                        !.live = live,
                        !.fault = c # None /\ ~c.good,
                        !.configurationDue = app.first,
                        !.libraryDue = (l = None) ]
               /\ disk' = [ disk EXCEPT !["successor"].file =
                    [@ EXCEPT !["library"] = IF l = None THEN None ELSE LibraryOf(l.filters),
                              !["index"] = IF sealed THEN Held("index") ELSE "written"] ]
    /\ UNCHANGED <<todo, settled, told, found, sealed, launches, intrusions, synced, kept, acts>>

-----------------------------------------------------------------------------
(* The running program                                                     *)

\* valve: what the mirror does.
Valve(a) == IF sealed \/ a.hold THEN "paused" ELSE a.policy

\* Mutant: what the mirror does instead of what the user set.
ProjectionOfValve(a) == [good |-> TRUE, policy |-> Valve(a), account |-> a.account, embedded |-> None]

\* configuration_projection.
Projection(a) == [good |-> TRUE, policy |-> a.policy, account |-> a.account, embedded |-> None]

\* inscribe_durable_state: the ledger takes the projection unless its file is at
\* fault, and the library is due if the bank changed.
Inscribed(a) ==
    [ a EXCEPT !.live = IF a.fault THEN @ ELSE Projection(a),
               !.configurationDue = ~a.fault /\ (@ \/ Projection(a) # a.live),
               !.libraryDue = @ \/ a.bank # app.bank ]

Act == Running /\ acts < MaxActs /\ acts' = acts + 1

KeepDisk == UNCHANGED <<adoptionVars, synced, kept>>

SaveFilter(f) == Act /\ app' = Inscribed([app EXCEPT !.bank = @ \cup {f}]) /\ KeepDisk

DeleteFilter(f) == Act /\ app' = Inscribed([app EXCEPT !.bank = @ \ {f}]) /\ KeepDisk

\* command_mirror_policy, then inscribe: a choice lifts the hold of --pause-mirror.
ChoosePolicy(p) ==
    /\ Act
    /\ app' = Inscribed([app EXCEPT !.hold = FALSE, !.policy = p, !.wish = p])
    /\ KeepDisk

\* Mutant: the directory is not synced.
ToggleUnsynced(p) ==
    /\ Act
    /\ LET next == IF p \in app.favorites THEN app.favorites \ {p} ELSE app.favorites \cup {p}
       IN /\ disk' = Written("favorites", next)
          /\ app' = [app EXCEPT !.favorites = next, !.certain = TRUE]
    /\ UNCHANGED <<pc, todo, settled, told, found, sealed, launches, intrusions, synced, kept>>

\* LocalFavorites::toggle: the new set is written, renamed into place and its
\* directory synced before the program shows it.  A failure before the rename
\* leaves the file; one after it leaves the file changed.
ToggleFavorite(p) ==
    /\ Act
    /\ LET next == IF p \in app.favorites THEN app.favorites \ {p} ELSE app.favorites \cup {p}
       IN \/ /\ disk' = Written("favorites", next)
             /\ synced' = [disk |-> disk', kept |-> kept]
             /\ app' = [app EXCEPT !.favorites = next, !.certain = TRUE]
          \/ /\ disk' \in {disk, Written("favorites", next)}
             /\ app' = [app EXCEPT !.certain = FALSE]
             /\ UNCHANGED synced
    /\ UNCHANGED <<pc, todo, settled, told, found, sealed, launches, intrusions, kept>>

\* The scribe of the Filter Library settles, or retire_persistence flushes it.
InscribeLibrary ==
    /\ disk' = Written("library", LibraryOf(app.bank))
    /\ kept' = app.bank \cup StoredAt(disk, "legacy")

TendLibrary ==
    /\ Running /\ app.libraryDue
    /\ InscribeLibrary
    /\ app' = [app EXCEPT !.libraryDue = FALSE]
    /\ UNCHANGED <<pc, todo, settled, told, found, sealed, launches, intrusions, synced, acts>>

TendConfiguration ==
    /\ Running /\ app.configurationDue
    /\ disk' = Written("configuration", app.live)
    /\ app' = [app EXCEPT !.configurationDue = FALSE]
    /\ UNCHANGED <<pc, todo, settled, told, found, sealed, launches, intrusions, synced, kept, acts>>

\* The user edits config.toml and asks for it again: adopt_configuration takes the
\* policy, but not the account, which the next projection takes from the launch.
EditByHand(p, account) ==
    /\ Act
    /\ ~app.configurationDue
    /\ LET c == [good |-> TRUE, policy |-> p, account |-> account, embedded |-> None]
       IN /\ disk' = Written("configuration", c)
          /\ app' = [app EXCEPT !.live = c, !.fault = FALSE, !.policy = p, !.wish = p]
    /\ UNCHANGED <<pc, todo, settled, told, found, sealed, launches, intrusions, synced, kept>>

\* retire_persistence: the library, then the Session State.
Close ==
    /\ Running
    /\ disk' = [Written("library", LibraryOf(app.bank))
                  EXCEPT !["successor"].file["slate"] = "written"]
    /\ kept' = app.bank \cup StoredAt(disk, "legacy")
    /\ pc' = "off" /\ app' = Off
    /\ UNCHANGED <<todo, settled, told, found, sealed, launches, intrusions, synced, acts>>

-----------------------------------------------------------------------------
(* Faults                                                                  *)

\* The process ends at any point, or a start fails.
Stop ==
    /\ pc # "off"
    /\ pc' = "off" /\ app' = Off /\ todo' = <<>> /\ settled' = <<>>
    /\ UNCHANGED <<disk, told, found, sealed, launches, intrusions, synced, kept, acts>>

\* The journal reaches the disk.
Settle ==
    /\ synced # [disk |-> disk, kept |-> kept]
    /\ synced' = [disk |-> disk, kept |-> kept]
    /\ UNCHANGED <<adoptionVars, app, kept, acts>>

LosePower ==
    /\ synced # [disk |-> disk, kept |-> kept]
    /\ disk' = synced.disk /\ kept' = synced.kept
    /\ pc' = "off" /\ app' = Off /\ todo' = <<>> /\ settled' = <<>>
    /\ UNCHANGED <<told, found, sealed, launches, intrusions, synced, acts>>

Next ==
    \/ Adopt
    \/ SplitLibrary \/ RewriteConfiguration \/ Open
    \/ \E f \in Filter : SaveFilter(f) \/ DeleteFilter(f)
    \/ \E p \in Policy : ChoosePolicy(p) \/ \E account \in BOOLEAN : EditByHand(p, account)
    \/ \E p \in Post : ToggleFavorite(p)
    \/ TendLibrary \/ TendConfiguration \/ Close
    \/ Stop \/ Settle \/ LosePower

Spec == Init /\ [][Next]_vars

-----------------------------------------------------------------------------
(* Properties                                                              *)

\* No launch, adoption, migration, crash or loss of power loses a saved filter:
\* some readable file of one of the two places always holds every filter that
\* the disk was entrusted with.
FiltersSurvive == kept \subseteq Stored(disk)

\* What a launch loads is what the last one wrote: nothing is missing and nothing
\* deleted comes back, and the shipped seed only appears on a first run.
LoadsWhatWasKept ==
    [][ pc = "opening" /\ pc' = "running" /\ StoredAt(disk, "legacy") = {}
          => app'.bank = kept \/ (app.first /\ app'.bank = {Seed}) ]_vars

\* A favorite set that a toggle reported is on the disk, and stays there when the
\* power goes.
FavoritesDurable ==
    Running /\ app.certain =>
        /\ Held("favorites") = app.favorites
        /\ synced.disk["successor"].file["favorites"] = app.favorites

\* The configuration on the disk holds the policy its user last set: neither a
\* held launch nor a sealed one writes its own shut valve into it.
PolicyIsUsers ==
    Running /\ ~app.configurationDue /\ Held("configuration") # None /\ Held("configuration").good
        => Held("configuration").policy = app.wish

=============================================================================
