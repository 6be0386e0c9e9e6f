----------------------------- MODULE MCRelayer ------------------------------
(* Instances of Relayer for TLC. *)
EXTENDS Relayer, TLC

CONSTANTS r1, r2, r3, r4, kA, kB, kC, kD, a1, a2, b1, b2

\* r1, r2 and r3 are one call and its retries, which are alike, and r4 is the same ballot
\* under a new key.
MC_OneOtherKey == [r \in Requests |-> IF r = r4 THEN kB ELSE kA]
MC_Alike == Permutations({r1, r2, r3})
MC_SameBallot == [r \in Requests |-> b1]
MC_Casts == [r \in Requests |-> "cast"]

\* Four calls, the first two with one key; all from one address.
MC_KeyOf == [r \in Requests |-> IF r \in {r1, r2} THEN kA ELSE kB]
MC_TwoBallots == [r \in Requests |-> IF r \in {r1, r2} THEN b1 ELSE b2]
MC_SomeReveals == [r \in Requests |-> IF r \in {r1, r2} THEN "cast" ELSE "reveal"]

\* Four calls, each with a key of its own.
MC_OwnKey == [r \in Requests |-> CASE r = r1 -> kA [] r = r2 -> kB [] r = r3 -> kC [] OTHER -> kD]
MC_RetryElsewhere == [r \in Requests |-> IF r = r1 THEN a1 ELSE a2]
MC_OneAddress == [r \in Requests |-> a1]
=============================================================================
