----------------------------- MODULE BallotBox ------------------------------
(***************************************************************************)
(* What the contract promises, without proofs, hashes, time or counters:   *)
(* every election is a ballot box.  A voter puts in at most one ballot     *)
(* while voting lasts; the choice on it never changes; a ballot is counted *)
(* at most once, at once in a public election and only after voting has    *)
(* ended in a sealed one; and nothing moves once counting has ended.       *)
(***************************************************************************)
EXTENDS Naturals

CONSTANTS Elections, Voters, Candidates

Stages == {"unopened", "waiting", "voting", "counting", "ended"}
Rank == [s \in Stages |->
           CASE s = "unopened" -> 0 [] s = "waiting" -> 1 [] s = "voting" -> 2
             [] s = "counting" -> 3 [] s = "ended" -> 4]
Kinds == {"public", "sealed"}

VARIABLES
    stage,      \* the stage of each election
    kind,       \* public or sealed; meaningless while unopened
    cast,       \* the ballots in the box: at most one choice of each voter
    counted     \* the voters whose ballot has been counted

vars == <<stage, kind, cast, counted>>

Ballots == [voter : Voters, choice : Candidates]

Init ==
    /\ stage = [e \in Elections |-> "unopened"]
    /\ kind = [e \in Elections |-> "public"]
    /\ cast = [e \in Elections |-> {}]
    /\ counted = [e \in Elections |-> {}]

OpenBox(e) ==
    /\ stage[e] = "unopened"
    /\ \E s \in {"waiting", "voting"}, k \in Kinds :
         /\ stage' = [stage EXCEPT ![e] = s]
         /\ kind' = [kind EXCEPT ![e] = k]
    /\ UNCHANGED <<cast, counted>>

\* Time moves any number of open elections forward, never back.
Advance ==
    /\ stage' \in [Elections -> Stages]
    /\ \A e \in Elections :
         /\ (stage[e] = "unopened") <=> (stage'[e] = "unopened")
         /\ Rank[stage'[e]] >= Rank[stage[e]]
    /\ UNCHANGED <<kind, cast, counted>>

PutBallot(e, voter, choice) ==
    /\ stage[e] = "voting"
    /\ \A b \in cast[e] : b.voter # voter
    /\ cast' = [cast EXCEPT ![e] = @ \cup {[voter |-> voter, choice |-> choice]}]
    /\ counted' = IF kind[e] = "public"
                  THEN [counted EXCEPT ![e] = @ \cup {voter}]
                  ELSE counted
    /\ UNCHANGED <<stage, kind>>

CountBallot(e, voter) ==
    /\ stage[e] = "counting"
    /\ kind[e] = "sealed"
    /\ \E b \in cast[e] : b.voter = voter
    /\ voter \notin counted[e]
    /\ counted' = [counted EXCEPT ![e] = @ \cup {voter}]
    /\ UNCHANGED <<stage, kind, cast>>

Next ==
    \/ Advance
    \/ \E e \in Elections : OpenBox(e)
    \/ \E e \in Elections, voter \in Voters, choice \in Candidates : PutBallot(e, voter, choice)
    \/ \E e \in Elections, voter \in Voters : CountBallot(e, voter)

Spec == Init /\ [][Next]_vars

=============================================================================
