------------------------- MODULE MCAuditedElection --------------------------
(* Instances of AuditedElection for TLC. *)
EXTENDS AuditedElection

CONSTANTS alice, bob, s1, k1, k2, g1, e1

MC_ScopeOf == [e \in Elections |-> s1]
MC_Trees == [r \in Roots |-> Credentials]

\* Two buckets, one of each voter.
MC_BucketOf == [n \in Nullifiers |-> IF n[1] = alice THEN 0 ELSE 1]
=============================================================================
