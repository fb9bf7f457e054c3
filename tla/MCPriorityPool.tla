--------------------------- MODULE MCPriorityPool ---------------------------
(* Instances of PriorityPool for TLC. *)
EXTENDS PriorityPool, TLC

CONSTANTS w1, w2, t1, t2, t3, t4, s1, s2, d1, alice, bob

TwoWorkers == {w1, w2}
Nothing == <<>>
TwoSys == {s1, s2}

\* t1 and t2 compete for the same sender and nonce
PairTx == {t1, t2}
PairSenderOf == t1 :> alice @@ t2 :> alice
PairNonceOf == t1 :> 1 @@ t2 :> 1

\* four transactions, two for each sender
FourTx == {t1, t2, t3, t4}
FourSenderOf == PairSenderOf @@ t3 :> bob @@ t4 :> bob
FourNonceOf == PairNonceOf @@ t3 :> 1 @@ t4 :> 1

\* two system script transactions with the same payload
SysDataOf == s1 :> d1 @@ s2 :> d1
SysRank == s1 :> 1 @@ s2 :> 2

Symmetry == Permutations(Worker) \cup Permutations(Copy)
=============================================================================
