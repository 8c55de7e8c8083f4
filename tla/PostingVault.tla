---------------------------- MODULE PostingVault ----------------------------
(***************************************************************************)
(* The cache of decoded posting bitmaps (Vault in src/.../index.rs) over   *)
(* IndexStore.  Only the refresh thread searches: it opens a read          *)
(* transaction, takes the pending facts of its snapshot, and reads the     *)
(* postings of its query one by one, each from the vault or else from its  *)
(* snapshot into the vault.  The merge thread evicts the keys it rewrites, *)
(* while its write transaction is still open.                              *)
(***************************************************************************)
EXTENDS IndexStore

CONSTANT VaultCap      \* VAULT_CAP

ASSUME VaultAssumption == VaultCap \in Nat \ {0}

VARIABLES
    vault,      \* Vault::slots: the bitmap kept for each key, None without one
    searching,  \* a search has its read transaction open
    snap,       \* the state that transaction reads
    filling,    \* the key it missed and is decoding, outside the lock
    overtaken,  \* history: keys that a merge rewrote, or was rewriting, during this search
    suspect     \* history: keys whose slot a search filled after it was overtaken there

vaultVars == <<vault, searching, snap, filling, overtaken, suspect>>
allVars == <<vars, vaultVars>>

VaultTypeOK ==
    /\ vault \in [Key -> Maybe(SUBSET Post)]
    /\ searching \in BOOLEAN
    /\ snap \in Db
    /\ filling \in Maybe(Key)
    /\ overtaken \subseteq Key
    /\ suspect \subseteq Key

Held == {k \in Key : vault[k] # None}

\* The keys of the rows that the open merge has taken and not yet committed.
Rewriting == {f.key : f \in live.facts \ work.facts}

VaultInit ==
    /\ Init
    /\ vault = [k \in Key |-> None]
    /\ searching = FALSE
    /\ snap = EmptyDb
    /\ filling = None
    /\ overtaken = {}
    /\ suspect = {}

-----------------------------------------------------------------------------
(* search_corpus, candidate_set, read_posting_bitmap                       *)

OpenSearch ==
    /\ ~searching
    /\ searching' = TRUE
    /\ snap' = live
    /\ overtaken' = Rewriting
    /\ UNCHANGED <<vars, vault, filling, suspect>>

\* Vault::get finds nothing; the lock is released and the chunks are decoded.
\* (A hit changes nothing but the slot's stamp.)
Miss(k) ==
    /\ searching
    /\ filling = None
    /\ vault[k] = None
    /\ filling' = k
    /\ UNCHANGED <<vars, vault, searching, snap, overtaken, suspect>>

\* Vault::put: a full vault loses its coldest slot, whichever that is.
PutUncapped(k, bitmap) == vault' = [vault EXCEPT ![k] = bitmap]
Put(k, bitmap) ==
    \E coldest \in SUBSET Held :
        /\ Cardinality(coldest) = IF Cardinality(Held) >= VaultCap THEN 1 ELSE 0
        /\ vault' = [j \in Key |-> IF j = k THEN bitmap
                                   ELSE IF j \in coldest THEN None ELSE vault[j]]

Fill ==
    /\ filling # None
    /\ Put(filling, snap.merged[filling])
    /\ suspect' = IF filling \in overtaken THEN suspect \cup {filling} ELSE suspect \ {filling}
    /\ filling' = None
    /\ UNCHANGED <<vars, searching, snap, overtaken>>

\* The search returns, with its hit or with an error.
CloseSearch ==
    /\ searching
    /\ searching' = FALSE
    /\ snap' = EmptyDb
    /\ filling' = None
    /\ overtaken' = {}
    /\ UNCHANGED <<vars, vault, suspect>>

\* What the search takes for the posting of k when it next reads it: the slot or
\* the snapshot's own bitmap, under the pending facts of the snapshot.
Read(k) ==
    Posting(IF vault[k] = None THEN snap ELSE [snap EXCEPT !.merged = [@ EXCEPT ![k] = vault[k]]], k)

-----------------------------------------------------------------------------
(* The writers, with what they do to the vault                             *)

MergeKeepingSlots ==
    /\ MergeRows
    /\ overtaken' = IF searching THEN overtaken \cup {f.key : f \in work.facts \ work'.facts} ELSE {}
    /\ UNCHANGED <<vault, searching, snap, filling, suspect>>

\* merge_pending_facts evicts each key right after it rewrote its chunks, which
\* no reader sees before the commit.
MergeEvicting ==
    \E cut \in Rows(work) :
        LET rewritten == {f.key : f \in Taken(work, cut)} IN
        /\ MergeUpTo(cut)
        /\ vault' = [k \in Key |-> IF k \in rewritten THEN None ELSE vault[k]]
        /\ suspect' = suspect \ rewritten
        /\ overtaken' = IF searching THEN overtaken \cup rewritten ELSE overtaken
        /\ UNCHANGED <<searching, snap, filling>>

\* The vault dies with the process.
Restart ==
    /\ Crash
    /\ vault' = [k \in Key |-> None]
    /\ searching' = FALSE
    /\ snap' = EmptyDb
    /\ filling' = None
    /\ overtaken' = {}
    /\ suspect' = {}

\* Every other write leaves the vault alone.
Write ==
    \/ BeginAbsorb
    \/ BeginCrawl
    \/ BeginMerge
    \/ BeginKin
    \/ MergeNothing
    \/ \E p \in Post, new \in Maybe(Record) : StageRecord(p, new)
    \/ Commit
    \/ Abort
    \/ Tick

VaultNext ==
    \/ OpenSearch
    \/ \E k \in Key : Miss(k)
    \/ Fill
    \/ CloseSearch
    \/ MergeEvicting
    \/ Restart
    \/ Write /\ UNCHANGED vaultVars

VaultSpec == VaultInit /\ [][VaultNext]_allVars

-----------------------------------------------------------------------------
(* Properties                                                              *)

\* "The merge loop evicts exactly the keys it rewrites.  Pending (unmerged)
\* deltas are applied on top after the cache, so reads stay exact"
\* (index.rs:100-103): every posting a search reads is its snapshot's.
ReadsStayExact ==
    searching => \A k \in Key : Read(k) = Posting(snap, k)

\* The only way to a wrong slot: unless the search that filled it was overtaken
\* by a merge of that very key, a slot holds what the last commit holds.
SlotsFreshUnlessOvertaken ==
    \A k \in Held \ suspect : vault[k] = live.merged[k]

\* And the only way to a wrong answer: a posting whose slot is not suspect is
\* read exactly as the records of the search's snapshot have it.
SearchesExactUnlessOvertaken ==
    searching =>
        \A k \in Key \ suspect : Read(k) = {p \in Post : k \in Keys(snap.posts[p])}

\* VAULT_CAP bounds the decoded bitmaps kept, however many keys are searched.
VaultWithinCap == Cardinality(Held) <= VaultCap
=============================================================================
