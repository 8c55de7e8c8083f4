------------------------------ MODULE Catalogue ------------------------------
(***************************************************************************)
(* What the local index promises whoever queries it, with nothing of how   *)
(* it keeps the promise: a set of records, the answer of every posting key *)
(* computed from exactly those records, and the records a crash falls back *)
(* to.  There is no queue of pending facts, no merge and no transaction    *)
(* here; IndexStore has them and implements this module.                   *)
(***************************************************************************)
EXTENDS Naturals

CONSTANTS
    Post,       \* post ids
    Key,        \* posting keys: tags and rating classes
    Record,     \* the records a post may have
    None        \* "no record"

VARIABLES
    records,    \* the record of each post, None when the index has none
    answers,    \* the posts each posting key selects
    saved,      \* the records that survive a crash
    session     \* how many times the index was reopened

vars == <<records, answers, saved, session>>

\* The posts of R that carry key k.
Carriers(R, k) == {p \in Post : R[p] # None /\ k \in R[p].keys}

Answers(R) == [k \in Key |-> Carriers(R, k)]

Init ==
    /\ records = [p \in Post |-> None]
    /\ answers = Answers(records)
    /\ saved = records
    /\ session = 0

\* A batch of records lands, all of it at once, and may be made durable.
Land ==
    /\ records' \in [Post -> Record \cup {None}]
    /\ answers' = Answers(records')
    /\ saved' \in {saved, records'}
    /\ UNCHANGED session

\* The process dies and reopens on what was durable.
Crash ==
    /\ session' = session + 1
    /\ records' = saved
    /\ answers' = Answers(saved)
    /\ UNCHANGED saved

Next == Land \/ Crash

Spec == Init /\ [][Next]_vars
=============================================================================
