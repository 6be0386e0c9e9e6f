----------------------------- MODULE MCZkQuorum -----------------------------
(* Instances of ZkQuorum for TLC. *)
EXTENDS ZkQuorumRefinesBallotBox

CONSTANTS alice, bob, s1, s2, k1, k2, g1, g2, e1, e2

MC_ScopeOf1 == [e \in {e1} |-> s1]
MC_ScopeOf2 == [e \in {e1, e2} |-> IF e = e1 THEN s1 ELSE s2]

\* alice is in both groups, bob only under the first root.
MC_StateTree == [r \in Roots |-> IF r = g1 THEN Credentials ELSE {alice}]
MC_AssociationTree == [r \in Roots |-> Credentials]

\* Two buckets; a credential's bucket depends on the scope it votes in.
MC_BucketOf == [n \in Nullifiers |-> IF (n[1] = alice) = (n[2] = s1) THEN 0 ELSE 1]
MC_BucketOfSame == [n \in Nullifiers |-> 0]
=============================================================================
