--------------------------- MODULE MCPostingVault ---------------------------
(* PostingVault for TLC.                                                   *)
EXTENDS PostingVault, TLC

\* Nothing tells one posting key from another.
KeySymmetry == Permutations(Key)

\* Durability plays no part in what a running process caches: no clock, so every
\* commit is a quick one and a crash falls back to the empty index.
Untimed == anchor = 0
=============================================================================
