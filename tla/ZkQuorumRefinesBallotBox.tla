--------------------- MODULE ZkQuorumRefinesBallotBox -----------------------
(* The contract implements BallotBox: the refinement mapping and the sums that *)
(* result() and audit_summary() return.                                        *)
EXTENDS ZkQuorum, FiniteSetsExt

\* Mutant: the bucket loop starts at 1.
SumTally_SkipsFirstBucket(e) ==
    [option \in 0 .. elections[e].optionCount - 1 |->
        MapThenSumSet(LAMBDA b : tally[e][option][b], Buckets \ {0})]

\* sum_tally, and the counters of ElectionSummary and AuditSummary.
SumTally(e) ==
    [option \in 0 .. elections[e].optionCount - 1 |->
        MapThenSumSet(LAMBDA b : tally[e][option][b], Buckets)]

Result(e) ==
    [commitCount |-> commitCount[e], revealCount |-> revealCount[e],
     nonRevealCount |-> commitCount[e] - revealCount[e], tally |-> SumTally(e)]

EventsOf(e, type) == {log[e][i] : i \in {j \in DOMAIN log[e] : log[e][j].type = type}}

StageOf(e) ==
    IF ~ Exists(e) THEN "unopened"
    ELSE CASE Status(e) = "Pending" -> "waiting"
           [] Status(e) = "Open" -> "voting"
           [] Status(e) = "RevealOpen" -> "counting"
           [] OTHER -> "ended"

KindOf(e) == IF Exists(e) /\ elections[e].mode = "R1" THEN "sealed" ELSE "public"

\* The ballots of an election: public votes, and the choices inside commitments.
CastBallots(e) ==
    {[voter |-> ev.nullifier[1], choice |-> ev.vote] : ev \in EventsOf(e, "VoteCast")}
      \cup {[voter |-> ev.nullifier[1], choice |-> ev.commitment[1]] :
              ev \in EventsOf(e, "VoteCommitted")}

CountedVoters(e) ==
    {ev.nullifier[1] : ev \in EventsOf(e, "VoteCast")}
      \cup {ev.nullifier[1] : ev \in {x \in EventsOf(e, "VoteCommitted") :
              pending[e][x.commitment].revealed}}

Box == INSTANCE BallotBox WITH
    Voters <- Credentials,
    Candidates <- Options,
    stage <- [e \in Elections |-> StageOf(e)],
    kind <- [e \in Elections |-> KindOf(e)],
    cast <- [e \in Elections |-> CastBallots(e)],
    counted <- [e \in Elections |-> CountedVoters(e)]

\* Every behaviour of the contract is one of the ballot box.
ImplementsBallotBox == Box!Spec

\* The published result is the count of the counted ballots, choice by choice;
\* result() cannot overflow; and the ballots it reports as never revealed are
\* those in the box that are not counted.
ResultIsTheCount ==
    \A e \in Elections : Exists(e) =>
        LET result == Result(e)
        IN  /\ \A option \in DOMAIN result.tally :
                 /\ result.tally[option] =
                      Cardinality({b \in CastBallots(e) :
                          b.choice = option /\ b.voter \in CountedVoters(e)})
            /\ elections[e].mode = "R1" =>
                 /\ \A option \in DOMAIN result.tally : result.tally[option] <= TallyMax
                 /\ result.nonRevealCount =
                      Cardinality({b \in CastBallots(e) : b.voter \notin CountedVoters(e)})

=============================================================================
