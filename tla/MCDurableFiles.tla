--------------------------- MODULE MCDurableFiles ---------------------------
(***************************************************************************)
(* DurableFiles from seven disks: nothing yet; an installation with a       *)
(* filter of its own, in the old schema; one whose configuration and       *)
(* library disagree; one whose configuration, one whose library cannot be  *)
(* parsed; one of release 1.3.16, its filters still inside the             *)
(* configuration; and the same beside successors that hold no files.       *)
(***************************************************************************)
EXTENDS DurableFiles

Nothing == [dirs |-> {}, file |-> [f \in File |-> None]]
Hollow == [Nothing EXCEPT !.dirs = Root]

Paused(embedded) == [good |-> TRUE, policy |-> "paused", account |-> TRUE, embedded |-> embedded]

Broken == [DefaultConfiguration EXCEPT !.good = FALSE]
Damaged == [LibraryOf({}) EXCEPT !.good = FALSE]

Kept(configuration, library) ==
    [ dirs |-> Root,
      file |-> [ configuration |-> configuration, library |-> library, favorites |-> Post,
                 index |-> "written", slate |-> "written" ] ]

Combined == Kept(Paused(Filter \ {Seed}), None)
Split(old) == Kept(Paused(None), [good |-> TRUE, old |-> old, filters |-> Filter \ {Seed}])

ShippedInstallations ==
    { [legacy |-> Nothing, successor |-> Nothing],
      [legacy |-> Nothing, successor |-> Split(TRUE)],
      [legacy |-> Nothing, successor |-> Kept(Paused(Filter \ {Seed}), LibraryOf({Seed}))],
      [legacy |-> Nothing, successor |-> Kept(Broken, LibraryOf(Filter))],
      [legacy |-> Nothing, successor |-> Kept(Paused(None), Damaged)],
      [legacy |-> Combined, successor |-> Nothing],
      [legacy |-> Combined, successor |-> Hollow] }
=============================================================================
