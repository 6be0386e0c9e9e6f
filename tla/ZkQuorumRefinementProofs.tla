---------------------- MODULE ZkQuorumRefinementProofs ----------------------
(* The contract implements the ballot box, for every value of its constants:    *)
(* the mapping takes its initial states to initial states of the box and each   *)
(* of its steps to a step of the box or to none.                                *)
EXTENDS ZkQuorumRefinesBallotBox, ZkQuorumProofs

-----------------------------------------------------------------------------
(* The refinement mapping *)

boxStage == [e \in Elections |-> StageOf(e)]
boxKind == [e \in Elections |-> KindOf(e)]
boxCast == [e \in Elections |-> CastBallots(e)]
boxCounted == [e \in Elections |-> CountedVoters(e)]
boxVars == <<boxStage, boxKind, boxCast, boxCounted>>

\* The ballot that event i of an election puts in, and whether it is counted.
Voter(e, i) == log[e][i].nullifier[1]
Choice(e, i) == IF log[e][i].type = "VoteCast" THEN log[e][i].vote ELSE log[e][i].commitment[1]
IsCounted(e, i) ==
    log[e][i].type = "VoteCommitted" => pending[e][log[e][i].commitment].revealed

\* The ballots in the box and those counted, event by event.
LEMMA BallotsByEvent ==
    ASSUME NEW e \in Elections
    PROVE  /\ CastBallots(e) = {[voter |-> Voter(e, i), choice |-> Choice(e, i)] : i \in CastEvents(e)}
           /\ CountedVoters(e) = {Voter(e, i) : i \in {j \in CastEvents(e) : IsCounted(e, j)}}
<1>1. ASSUME NEW b
      PROVE  b \in CastBallots(e) <=>
                \E i \in CastEvents(e) : b = [voter |-> Voter(e, i), choice |-> Choice(e, i)]
  BY DEF CastBallots, EventsOf, CastEvents, Voter, Choice
<1>2. ASSUME NEW v
      PROVE  v \in CountedVoters(e) <=> \E i \in CastEvents(e) : IsCounted(e, i) /\ v = Voter(e, i)
  BY DEF CountedVoters, EventsOf, CastEvents, Voter, IsCounted
<1>3. QED
  BY <1>1, <1>2

\* The same of the next state.
LEMMA BallotsByEventNext ==
    ASSUME NEW e \in Elections
    PROVE  /\ CastBallots(e)' = {[voter |-> Voter(e, i)', choice |-> Choice(e, i)'] : i \in CastEvents(e)'}
           /\ CountedVoters(e)' = {Voter(e, i)' : i \in {j \in CastEvents(e)' : IsCounted(e, j)'}}
<1>1. ASSUME NEW b
      PROVE  b \in CastBallots(e)' <=>
                \E i \in CastEvents(e)' : b = [voter |-> Voter(e, i)', choice |-> Choice(e, i)']
  BY DEF CastBallots, EventsOf, CastEvents, Voter, Choice
<1>2. ASSUME NEW v
      PROVE  v \in CountedVoters(e)' <=> \E i \in CastEvents(e)' : IsCounted(e, i)' /\ v = Voter(e, i)'
  BY DEF CountedVoters, EventsOf, CastEvents, Voter, IsCounted
<1>3. QED
  BY <1>1, <1>2

\* The stage of an election, from its configuration and the clock alone.
StageAt(cfg, time) ==
    IF cfg = None THEN "unopened"
    ELSE IF time < cfg.opensAt THEN "waiting"
    ELSE IF time < cfg.closesAt THEN "voting"
    ELSE IF cfg.mode = "R0" THEN "ended"
    ELSE IF time < cfg.revealClosesAt THEN "counting"
    ELSE "ended"

\* The stage of an election is a function of its configuration and the time.
LEMMA StageFromConfig ==
    ASSUME NEW e \in Elections
    PROVE  /\ StageOf(e) = StageAt(elections[e], now)
           /\ StageOf(e)' = StageAt(elections'[e], now')
  BY DEF StageOf, Status, Exists, StageAt

\* Each stage is one of the box's, and time moves it forward.
LEMMA StagesMoveOn ==
    ASSUME NEW cfg \in ElectionConfig \cup {None}, NEW time \in Times,
           NEW later \in Times, time <= later
    PROVE  /\ StageAt(cfg, time) \in Box!Stages
           /\ StageAt(cfg, time) = "unopened" <=> cfg = None
           /\ Box!Rank[StageAt(cfg, time)] <= Box!Rank[StageAt(cfg, later)]
<1>1. /\ Box!Rank["unopened"] = 0 /\ Box!Rank["waiting"] = 1 /\ Box!Rank["voting"] = 2
      /\ Box!Rank["counting"] = 3 /\ Box!Rank["ended"] = 4
  BY DEF Box!Rank, Box!Stages
<1>2. CASE cfg = None
  BY <1>1, <1>2 DEF StageAt, Box!Stages
<1>3. CASE cfg \in ElectionConfig /\ cfg # None
  <2>1. /\ time \in Nat /\ later \in Nat
        /\ cfg.opensAt \in Nat /\ cfg.closesAt \in Nat /\ cfg.revealClosesAt \in Nat
    BY <1>3, ContractAssumption DEF ElectionConfig, Times
  <2>2. QED
    BY <1>1, <1>3, <2>1 DEF StageAt, Box!Stages
<1>4. QED
  BY <1>2, <1>3

-----------------------------------------------------------------------------
(* Initial states *)

\* The contract starts as boxes that are not opened.
LEMMA InitMaps == Init => Box!Init
<1> SUFFICES ASSUME Init PROVE Box!Init
  OBVIOUS
<1>1. \A e \in Elections : ~ Exists(e)
  BY DEF Init, Exists
<1>2. \A e \in Elections : StageOf(e) = "unopened" /\ KindOf(e) = "public"
  BY <1>1 DEF StageOf, KindOf
<1>3. \A e \in Elections : CastEvents(e) = {}
  BY DEF Init, CastEvents
<1>4. \A e \in Elections : CastBallots(e) = {} /\ CountedVoters(e) = {}
  BY <1>3, BallotsByEvent
<1>5. QED
  BY <1>2, <1>4 DEF Box!Init

-----------------------------------------------------------------------------
(* Steps *)

\* A step that leaves the clock and the configurations alone moves no stage.
LEMMA SameStages ==
    ASSUME UNCHANGED <<now, elections>>
    PROVE  UNCHANGED <<boxStage, boxKind>>
  BY DEF boxStage, boxKind, StageOf, KindOf, Status, Exists

\* A step that leaves the log and the commitments alone moves no ballot.
LEMMA SameBallots ==
    ASSUME UNCHANGED <<log, pending>>
    PROVE  UNCHANGED <<boxCast, boxCounted>>
<1>1. ASSUME NEW e \in Elections
      PROVE  CastBallots(e)' = CastBallots(e) /\ CountedVoters(e)' = CountedVoters(e)
  BY DEF CastBallots, CountedVoters, EventsOf
<1>2. QED
  BY <1>1 DEF boxCast, boxCounted

\* The event of a ballot gets a place of its own in the log.
LEMMA BallotAppended ==
    ASSUME TypeOK, NEW f \in Elections, NEW event \in Event, LogEvent(f, event),
           event.type \in {"VoteCast", "VoteCommitted"}
    PROVE  \E last :
              /\ log'[f][last] = event
              /\ \A e \in Elections :
                   /\ \A i \in CastEvents(e) : log'[e][i] = log[e][i]
                   /\ CastEvents(e)' = IF e = f THEN CastEvents(e) \cup {last} ELSE CastEvents(e)
<1>1. log'[f][Len(log[f]) + 1] = event
  BY LogOfOneMore
<1>2. ASSUME NEW e \in Elections
      PROVE  /\ \A i \in CastEvents(e) : log'[e][i] = log[e][i]
             /\ CastEvents(e)' = IF e = f THEN CastEvents(e) \cup {Len(log[f]) + 1}
                                 ELSE CastEvents(e)
  <2>1. /\ \A i \in DOMAIN log[e] : log'[e][i] = log[e][i]
        /\ CastEvents(e)' = IF e = f /\ event.type \in {"VoteCast", "VoteCommitted"}
                            THEN CastEvents(e) \cup {Len(log[f]) + 1} ELSE CastEvents(e)
    BY LogOfOneMore
  <2>2. \A i \in CastEvents(e) : i \in DOMAIN log[e]
    BY DEF CastEvents
  <2>3. QED
    BY <2>1, <2>2
<1>3. QED
  BY <1>1, <1>2

\* The ballot of a new event, and whether it is counted at once.
BallotOf(event) ==
    [voter |-> event.nullifier[1],
     choice |-> IF event.type = "VoteCast" THEN event.vote ELSE event.commitment[1]]
CountedAtOnce(f, event) ==
    event.type = "VoteCommitted" => pending'[f][event.commitment].revealed

\* No ballot that was put in before is revealed by the step, or hidden again.
RevealsNothing ==
    \A e \in Elections : \A c \in Committed(e) :
        pending'[e][c].revealed <=> pending[e][c].revealed

\* One more event of a ballot is one more ballot in the box, counted when it is public.
LEMMA BoxOfOneMore ==
    ASSUME BallotInv, NEW f \in Elections, NEW event \in Event, LogEvent(f, event),
           event.type \in {"VoteCast", "VoteCommitted"}, RevealsNothing,
           NEW e \in Elections
    PROVE  /\ CastBallots(e)' = IF e = f THEN CastBallots(e) \cup {BallotOf(event)}
                                ELSE CastBallots(e)
           /\ CountedVoters(e)' = IF e = f /\ CountedAtOnce(f, event)
                                  THEN CountedVoters(e) \cup {event.nullifier[1]}
                                  ELSE CountedVoters(e)
<1>0. TypeOK
  BY DEF BallotInv, IndInv
<1>1. PICK last :
        /\ log'[f][last] = event
        /\ \A g \in Elections :
             /\ \A i \in CastEvents(g) : log'[g][i] = log[g][i]
             /\ CastEvents(g)' = IF g = f THEN CastEvents(g) \cup {last} ELSE CastEvents(g)
  BY <1>0, BallotAppended
<1>2. /\ \A i \in CastEvents(e) : log'[e][i] = log[e][i]
      /\ CastEvents(e)' = IF e = f THEN CastEvents(e) \cup {last} ELSE CastEvents(e)
  BY <1>1
<1>3. ASSUME NEW i \in CastEvents(e)
      PROVE  /\ Voter(e, i)' = Voter(e, i)
             /\ Choice(e, i)' = Choice(e, i)
             /\ IsCounted(e, i)' <=> IsCounted(e, i)
  <2>1. log'[e][i] = log[e][i]
    BY <1>2
  <2>2. log[e][i].type = "VoteCommitted" => log[e][i].commitment \in Committed(e)
    BY DEF BallotInv, LogMatchesCommitments, CommitEvents, CastEvents
  <2>3. QED
    BY <2>1, <2>2 DEF Voter, Choice, IsCounted, RevealsNothing
<1>4. /\ BallotOf(event) = [voter |-> Voter(f, last)', choice |-> Choice(f, last)']
      /\ Voter(f, last)' = event.nullifier[1]
      /\ IsCounted(f, last)' <=> CountedAtOnce(f, event)
  BY <1>1 DEF Voter, Choice, IsCounted, BallotOf, CountedAtOnce
<1>5. /\ CastBallots(e)' = {[voter |-> Voter(e, i)', choice |-> Choice(e, i)'] : i \in CastEvents(e)'}
      /\ CountedVoters(e)' = {Voter(e, i)' : i \in {j \in CastEvents(e)' : IsCounted(e, j)'}}
  BY BallotsByEventNext
<1>6. /\ CastBallots(e) = {[voter |-> Voter(e, i), choice |-> Choice(e, i)] : i \in CastEvents(e)}
      /\ CountedVoters(e) = {Voter(e, i) : i \in {j \in CastEvents(e) : IsCounted(e, j)}}
  BY BallotsByEvent
<1>7. CASE e # f
  <2>1. CastEvents(e)' = CastEvents(e)
    BY <1>2, <1>7
  <2>2. QED
    BY <1>3, <1>5, <1>6, <1>7, <2>1
<1>8. CASE e = f
  <2>1. CastEvents(e)' = CastEvents(e) \cup {last}
    BY <1>2, <1>8
  <2>2. CastBallots(e)' = CastBallots(e) \cup {BallotOf(event)}
    BY <1>3, <1>4, <1>5, <1>6, <1>8, <2>1
  <2>3. CountedVoters(e)' = IF CountedAtOnce(f, event) THEN CountedVoters(e) \cup {event.nullifier[1]}
                             ELSE CountedVoters(e)
    BY <1>3, <1>4, <1>5, <1>6, <1>8, <2>1
  <2>4. QED
    BY <1>8, <2>2, <2>3
<1>9. QED
  BY <1>7, <1>8

-----------------------------------------------------------------------------
(* The steps of the contract are steps of the box *)

\* A tick moves every open election on, or leaves it where it is.
LEMMA TickMaps ==
    ASSUME TypeOK, TypeOK', Tick
    PROVE  Box!Advance
<1>1. /\ UNCHANGED <<elections, log, pending>>
      /\ now \in Times /\ now' \in Times /\ now <= now'
  BY ContractAssumption DEF Tick, TypeOK, Times
<1>2. ASSUME NEW e \in Elections
      PROVE  /\ StageOf(e)' \in Box!Stages
             /\ StageOf(e) = "unopened" <=> StageOf(e)' = "unopened"
             /\ Box!Rank[StageOf(e)'] >= Box!Rank[StageOf(e)]
  <2>1. elections[e] \in ElectionConfig \cup {None}
    BY DEF TypeOK
  <2>2. StageOf(e) = StageAt(elections[e], now) /\ StageOf(e)' = StageAt(elections[e], now')
    BY <1>1, StageFromConfig
  <2>3. /\ StageAt(elections[e], now') \in Box!Stages
        /\ StageAt(elections[e], now) = "unopened" <=> elections[e] = None
        /\ StageAt(elections[e], now') = "unopened" <=> elections[e] = None
        /\ Box!Rank[StageAt(elections[e], now)] <= Box!Rank[StageAt(elections[e], now')]
    BY <1>1, <2>1, StagesMoveOn DEF Times
  <2>4. Box!Rank[StageAt(elections[e], now)] \in Nat /\ Box!Rank[StageAt(elections[e], now')] \in Nat
    BY DEF StageAt, Box!Rank, Box!Stages
  <2>5. QED
    BY <2>2, <2>3, <2>4
<1>3. UNCHANGED <<boxKind, boxCast, boxCounted>>
  <2>1. UNCHANGED <<boxCast, boxCounted>>
    BY <1>1, SameBallots
  <2>2. UNCHANGED boxKind
    BY <1>1 DEF boxKind, KindOf, Exists
  <2>3. QED
    BY <2>1, <2>2
<1>4. QED
  BY <1>2, <1>3 DEF Box!Advance, boxKind, boxCast, boxCounted

\* An election is opened before its voting ends, and nobody has voted in it.
LEMMA OpenMaps ==
    ASSUME TypeOK, NEW caller \in Callers, NEW f \in Elections, OpenElection(caller, f)
    PROVE  Box!OpenBox(f)
<1>1. /\ ~ Exists(f)
      /\ elections'[f] \in ElectionConfig
      /\ now < elections'[f].closesAt
      /\ \A e \in Elections : e # f => elections'[e] = elections[e]
      /\ UNCHANGED <<now, pending, log>>
  BY OpenedConfig
<1>2. elections'[f] # None
  BY <1>1, ContractAssumption
<1>3. StageOf(f) = "unopened"
  BY <1>1 DEF StageOf
<1>4. StageOf(f)' \in {"waiting", "voting"}
  BY <1>1, <1>2, StageFromConfig DEF StageAt
<1>5. KindOf(f)' \in Box!Kinds
  BY DEF KindOf, Box!Kinds
<1>6. \A e \in Elections : e # f => StageOf(e)' = StageOf(e) /\ KindOf(e)' = KindOf(e)
  BY <1>1 DEF StageOf, KindOf, Status, Exists
<1>7. UNCHANGED <<boxCast, boxCounted>>
  BY <1>1, SameBallots
<1>8. QED
  BY <1>3, <1>4, <1>5, <1>6, <1>7 DEF Box!OpenBox, boxCast, boxCounted


\* A voter whose nullifier is unused has no ballot in the box.
LEMMA NotYetInBox ==
    ASSUME BallotInv, NEW f \in Elections, Exists(f), NEW voter \in Credentials,
           NullifierHash(voter, elections[f].scope) \notin nullifiers[f]
    PROVE  \A b \in CastBallots(f) : b.voter # voter
<1>1. elections[f].scope = ScopeOf[f]
  BY DEF BallotInv, ScopeIsDerived
<1>2. ASSUME NEW i \in CastEvents(f)
      PROVE  Voter(f, i) # voter
  BY <1>1, NullifierOfVoter DEF NullifierHash, Voter
<1>3. QED
  BY <1>2, BallotsByEvent

\* A new ballot is put in as the box does, whether its choice is public or sealed.
LEMMA BallotMaps ==
    ASSUME BallotInv, UNCHANGED <<now, elections>>,
           NEW f \in Elections, Exists(f), Status(f) = "Open",
           NEW event \in Event, LogEvent(f, event),
           event.type \in {"VoteCast", "VoteCommitted"}, RevealsNothing,
           CountedAtOnce(f, event) <=> KindOf(f) = "public",
           NEW voter \in Credentials, NEW choice,
           BallotOf(event) = [voter |-> voter, choice |-> choice],
           NullifierHash(voter, elections[f].scope) \notin nullifiers[f]
    PROVE  Box!PutBallot(f, voter, choice)
<1>0. event.nullifier[1] = voter
  BY DEF BallotOf
<1>1. UNCHANGED <<boxStage, boxKind>>
  BY SameStages
<1>2. ASSUME NEW e \in Elections
      PROVE  /\ CastBallots(e)' = IF e = f
                                  THEN CastBallots(e) \cup {[voter |-> voter, choice |-> choice]}
                                  ELSE CastBallots(e)
             /\ CountedVoters(e)' = IF e = f /\ KindOf(f) = "public"
                                    THEN CountedVoters(e) \cup {voter} ELSE CountedVoters(e)
  <2>1. /\ CastBallots(e)' = IF e = f THEN CastBallots(e) \cup {BallotOf(event)}
                             ELSE CastBallots(e)
        /\ CountedVoters(e)' = IF e = f /\ CountedAtOnce(f, event)
                               THEN CountedVoters(e) \cup {event.nullifier[1]}
                               ELSE CountedVoters(e)
    BY BoxOfOneMore
  <2>2. QED
    BY <1>0, <2>1
<1>3. boxCast' = [boxCast EXCEPT ![f] = @ \cup {[voter |-> voter, choice |-> choice]}]
  BY <1>2 DEF boxCast
<1>4. boxCounted' = IF KindOf(f) = "public"
                    THEN [boxCounted EXCEPT ![f] = @ \cup {voter}]
                    ELSE boxCounted
  BY <1>2 DEF boxCounted
<1>5. /\ boxStage[f] = "voting" /\ boxKind[f] = KindOf(f)
      /\ \A b \in boxCast[f] : b.voter # voter
  BY NotYetInBox DEF boxStage, boxKind, boxCast, StageOf
<1>6. QED
  BY <1>1, <1>3, <1>4, <1>5 DEF Box!PutBallot, boxStage, boxKind, boxCast, boxCounted

\* An accepted public vote is a ballot that is counted at once.
LEMMA CastR0Maps ==
    ASSUME BallotInv, NEW f \in Elections, NEW credential \in Credentials, NEW vote \in Votes,
           NEW scope \in Scopes, NEW optionCount \in OptionCounts,
           NEW stateRoot \in Roots, NEW associationRoot \in Roots,
           CastR0(f, credential, vote, scope, optionCount, stateRoot, associationRoot)
    PROVE  vote \in Options /\ Box!PutBallot(f, credential, vote)
<1> DEFINE nullifier == NullifierHash(credential, scope)
<1>1. TypeOK
  BY DEF BallotInv, IndInv
<1>2. /\ Exists(f) /\ Status(f) = "Open" /\ elections[f].mode = "R0"
      /\ scope = elections[f].scope
      /\ nullifier \notin nullifiers[f]
      /\ UNCHANGED <<now, elections, pending>>
  BY DEF CastR0, CastR0Accepted, CastAccepted
<1>3. PICK event \in Event :
        /\ event = [type |-> "VoteCast", nullifier |-> nullifier,
                    vote |-> vote, bucket |-> BucketOf[nullifier]]
        /\ LogEvent(f, event)
  BY <1>1, CastR0Logs
<1>4. /\ event \in Event /\ LogEvent(f, event)
      /\ event.type \in {"VoteCast", "VoteCommitted"}
      /\ BallotOf(event) = [voter |-> credential, choice |-> vote]
      /\ CountedAtOnce(f, event)
  BY <1>3 DEF NullifierHash, BallotOf, CountedAtOnce
<1>5. KindOf(f) = "public" /\ RevealsNothing
  BY <1>2 DEF KindOf, RevealsNothing
<1>6. Box!PutBallot(f, credential, vote)
  BY <1>2, <1>4, <1>5, BallotMaps
<1>7. QED
  BY <1>1, <1>6, CastR0Typing DEF CastR0


\* An accepted commitment is a ballot whose choice is sealed.
LEMMA CastR1Maps ==
    ASSUME BallotInv, NEW f \in Elections, NEW credential \in Credentials, NEW vote \in Votes,
           NEW salt \in Salts \cup {BadFr}, NEW scope \in Scopes,
           NEW optionCount \in OptionCounts,
           NEW stateRoot \in Roots, NEW associationRoot \in Roots,
           CastR1(f, credential, vote, salt, scope, optionCount, stateRoot, associationRoot)
    PROVE  vote \in Options /\ Box!PutBallot(f, credential, vote)
<1> DEFINE nullifier == NullifierHash(credential, scope)
           commitment == BallotCommitment(vote, salt, scope)
           entry == [bucket |-> BucketOf[nullifier], revealed |-> FALSE]
<1>1. TypeOK
  BY DEF BallotInv, IndInv
<1>2. /\ Exists(f) /\ Status(f) = "Open" /\ elections[f].mode = "R1"
      /\ scope = elections[f].scope
      /\ nullifier \notin nullifiers[f]
      /\ pending' = [pending EXCEPT ![f][commitment] = entry]
      /\ pending[f][commitment] = None
      /\ UNCHANGED <<now, elections>>
      /\ VoteRangeCheck(vote, optionCount)
  BY DEF CastR1, CastR1Accepted, CastAccepted, CommitVoteR1
<1>3. PICK event \in Event :
        /\ event = [type |-> "VoteCommitted", nullifier |-> nullifier,
                    commitment |-> commitment, bucket |-> BucketOf[nullifier]]
        /\ LogEvent(f, event)
  BY <1>1, CastR1Logs
<1>4. /\ event \in Event /\ LogEvent(f, event)
      /\ event.type = "VoteCommitted"
      /\ event.type \in {"VoteCast", "VoteCommitted"}
      /\ event.commitment = commitment
      /\ BallotOf(event) = [voter |-> credential, choice |-> vote]
  BY <1>3 DEF NullifierHash, BallotCommitment, BallotOf
<1>5. commitment \in Commitments
  BY <1>1, CastR1Typing DEF CastR1
<1> HIDE DEF commitment
<1>6. \A e \in Elections, c \in Commitments :
         pending'[e][c] = IF e = f /\ c = commitment THEN entry ELSE pending[e][c]
  BY <1>1, <1>2, <1>5 DEF TypeOK
<1>7. RevealsNothing
  BY <1>2, <1>6 DEF RevealsNothing, Committed
<1>8. CountedAtOnce(f, event) <=> KindOf(f) = "public"
  <2>1. ~ CountedAtOnce(f, event)
    BY <1>4, <1>5, <1>6 DEF CountedAtOnce
  <2>2. KindOf(f) = "sealed"
    BY <1>2 DEF KindOf
  <2>3. QED
    BY <2>1, <2>2
<1>9. Box!PutBallot(f, credential, vote)
  BY <1>2, <1>4, <1>7, <1>8, BallotMaps
<1>10. QED
  BY <1>2, <1>9 DEF VoteRangeCheck

\* An accepted reveal counts the ballot that the commitment was made for, and no other.
LEMMA RevealMaps ==
    ASSUME BallotInv, NEW f \in Elections, NEW vote \in Votes, NEW salt \in Salts \cup {BadFr},
           NEW commitment \in Commitments, Reveal(f, vote, salt, commitment)
    PROVE  \E voter \in Credentials : Box!CountBallot(f, voter)
<1> DEFINE opened == [pending[f][commitment] EXCEPT !.revealed = TRUE]
<1>1. TypeOK
  BY DEF BallotInv, IndInv
<1>2. /\ Exists(f) /\ Status(f) = "RevealOpen" /\ elections[f].mode = "R1"
      /\ pending[f][commitment] # None
      /\ ~ pending[f][commitment].revealed
      /\ pending' = [pending EXCEPT ![f][commitment] = opened]
      /\ UNCHANGED <<now, elections, nullifiers>>
  BY DEF Reveal, RevealAccepted
<1>3. opened.revealed = TRUE
  <2>1. pending[f][commitment] \in PendingCommitment
    BY <1>1, RevealTyping DEF Reveal
  <2>2. QED
    BY <2>1 DEF PendingCommitment
<1> HIDE DEF opened
<1>4. PICK ballot \in CommitEvents(f) : log[f][ballot].commitment = commitment
  BY <1>2 DEF BallotInv, LogMatchesCommitments, Committed
<1>5. /\ ballot \in CastEvents(f)
      /\ Voter(f, ballot) \in Credentials
      /\ ~ IsCounted(f, ballot)
  <2>1. ballot \in CastEvents(f) /\ log[f][ballot].type = "VoteCommitted"
    BY <1>4 DEF CommitEvents, CastEvents
  <2>2. QED
    BY <1>2, <1>4, <2>1, NullifierOfVoter DEF Voter, IsCounted
<1>6. Voter(f, ballot) \notin CountedVoters(f)
  <2>1. ASSUME NEW j \in CastEvents(f), Voter(f, j) = Voter(f, ballot)
        PROVE  j = ballot
    BY <1>5, <2>1, OneVoterOneBallot DEF Voter
  <2>2. QED
    BY <1>5, <2>1, BallotsByEvent
<1>7. \E b \in CastBallots(f) : b.voter = Voter(f, ballot)
  <2>1. [voter |-> Voter(f, ballot), choice |-> Choice(f, ballot)] \in CastBallots(f)
    BY <1>5, BallotsByEvent
  <2>2. QED
    BY <2>1
<1>8. StageOf(f) = "counting" /\ KindOf(f) = "sealed"
  BY <1>2 DEF StageOf, KindOf
<1>9. ASSUME NEW e \in Elections
      PROVE  /\ CastEvents(e)' = CastEvents(e)
             /\ \A i \in CastEvents(e) : log'[e][i] = log[e][i]
  <2>1. PICK event \in Event :
          /\ event = [type |-> "VoteRevealed", commitment |-> commitment, vote |-> vote]
          /\ LogEvent(f, event)
    BY <1>1, RevealLogs
  <2>2. /\ event \in Event /\ LogEvent(f, event)
        /\ event.type \notin {"VoteCast", "VoteCommitted"}
    BY <2>1
  <2>3. /\ \A i \in DOMAIN log[e] : log'[e][i] = log[e][i]
        /\ CastEvents(e)' = IF e = f /\ event.type \in {"VoteCast", "VoteCommitted"}
                            THEN CastEvents(e) \cup {Len(log[f]) + 1} ELSE CastEvents(e)
    BY <1>1, <2>2, LogOfOneMore
  <2>4. \A i \in CastEvents(e) : i \in DOMAIN log[e]
    BY DEF CastEvents
  <2>5. QED
    BY <2>2, <2>3, <2>4
<1>10. \A e \in Elections, c \in Commitments :
          pending'[e][c] = IF e = f /\ c = commitment THEN opened ELSE pending[e][c]
  BY <1>1, <1>2 DEF TypeOK
<1>11. ASSUME NEW e \in Elections, NEW i \in CastEvents(e)
       PROVE  /\ Voter(e, i)' = Voter(e, i)
              /\ Choice(e, i)' = Choice(e, i)
              /\ IsCounted(e, i)' <=> IsCounted(e, i) \/ (e = f /\ i = ballot)
  <2>1. log'[e][i] = log[e][i]
    BY <1>9
  <2>2. Voter(e, i)' = Voter(e, i) /\ Choice(e, i)' = Choice(e, i)
    BY <2>1 DEF Voter, Choice
  <2>3. CASE log[e][i].type # "VoteCommitted"
    <3>1. IsCounted(e, i)' /\ IsCounted(e, i)
      BY <2>1, <2>3 DEF IsCounted
    <3>2. QED
      BY <2>2, <3>1
  <2>4. CASE log[e][i].type = "VoteCommitted"
    <3>1. i \in CommitEvents(e)
      BY <2>4 DEF CommitEvents, CastEvents
    <3>2. log[e][i].commitment \in Commitments
      BY <3>1 DEF BallotInv, LogMatchesCommitments, Committed
    <3>3. e = f => (log[e][i].commitment = commitment <=> i = ballot)
      BY <1>4, <3>1 DEF BallotInv, LogMatchesCommitments
    <3>4. /\ IsCounted(e, i)' <=> pending'[e][log[e][i].commitment].revealed
          /\ IsCounted(e, i) <=> pending[e][log[e][i].commitment].revealed
      BY <2>1, <2>4 DEF IsCounted
    <3>5. CASE e = f /\ i = ballot
      BY <1>3, <1>10, <2>2, <3>2, <3>3, <3>4, <3>5
    <3>6. CASE ~ (e = f /\ i = ballot)
      BY <1>10, <2>2, <3>2, <3>3, <3>4, <3>6
    <3>7. QED
      BY <3>5, <3>6
  <2>5. QED
    BY <2>3, <2>4
<1>12. ASSUME NEW e \in Elections
       PROVE  /\ CastBallots(e)' = CastBallots(e)
              /\ CountedVoters(e)' = IF e = f THEN CountedVoters(e) \cup {Voter(f, ballot)}
                                     ELSE CountedVoters(e)
  <2>1. /\ CastBallots(e)' = {[voter |-> Voter(e, i)', choice |-> Choice(e, i)'] : i \in CastEvents(e)'}
        /\ CountedVoters(e)' = {Voter(e, i)' : i \in {j \in CastEvents(e)' : IsCounted(e, j)'}}
    BY BallotsByEventNext
  <2>2. /\ CastBallots(e) = {[voter |-> Voter(e, i), choice |-> Choice(e, i)] : i \in CastEvents(e)}
        /\ CountedVoters(e) = {Voter(e, i) : i \in {j \in CastEvents(e) : IsCounted(e, j)}}
    BY BallotsByEvent
  <2>3. CastEvents(e)' = CastEvents(e)
    BY <1>9
  <2>4. CastBallots(e)' = CastBallots(e)
    BY <1>11, <2>1, <2>2, <2>3
  <2>5. CountedVoters(e)' = IF e = f THEN CountedVoters(e) \cup {Voter(f, ballot)}
                            ELSE CountedVoters(e)
    BY <1>5, <1>11, <2>1, <2>2, <2>3
  <2>6. QED
    BY <2>4, <2>5
<1>13. /\ boxCast' = boxCast
       /\ boxCounted' = [boxCounted EXCEPT ![f] = @ \cup {Voter(f, ballot)}]
       /\ UNCHANGED <<boxStage, boxKind>>
  <2>1. UNCHANGED <<boxStage, boxKind>>
    BY <1>2, SameStages
  <2>2. QED
    BY <1>12, <2>1 DEF boxCast, boxCounted
<1>14. Box!CountBallot(f, Voter(f, ballot))
  BY <1>6, <1>7, <1>8, <1>13 DEF Box!CountBallot, boxStage, boxKind, boxCast, boxCounted
<1>15. QED
  BY <1>5, <1>14

-----------------------------------------------------------------------------
(* The refinement *)

\* The contract implements the ballot box: whatever is called and in whatever order,
\* an election goes through the stages of a box, a voter puts in one ballot
\* while voting lasts, and a ballot is counted once and at its time.
THEOREM ContractIsABallotBox == Spec => ImplementsBallotBox
<1>1. BallotInv /\ TypeOK /\ TypeOK' /\ [Next]_vars => [Box!Next]_boxVars
  <2> SUFFICES ASSUME BallotInv, TypeOK, TypeOK', [Next]_vars
               PROVE  Box!Next \/ UNCHANGED boxVars
    OBVIOUS
  <2>1. CASE UNCHANGED vars
    BY <2>1, SameStages, SameBallots DEF vars, boxVars
  <2>2. CASE Tick
    BY <2>2, TickMaps DEF Box!Next
  <2>3. ASSUME NEW caller \in Callers, NEW f \in Elections, OpenElection(caller, f)
        PROVE  Box!Next
    BY <2>3, OpenMaps DEF Box!Next
  <2>4. ASSUME NEW f \in Elections, NEW credential \in Credentials, NEW vote \in Votes,
               NEW scope \in Scopes, NEW optionCount \in OptionCounts,
               NEW stateRoot \in Roots, NEW associationRoot \in Roots,
               CastR0(f, credential, vote, scope, optionCount, stateRoot, associationRoot)
        PROVE  Box!Next
    <3>1. vote \in Options /\ Box!PutBallot(f, credential, vote)
      BY <2>4, CastR0Maps
    <3>2. QED
      BY <3>1 DEF Box!Next
  <2>5. ASSUME NEW f \in Elections, NEW credential \in Credentials, NEW vote \in Votes,
               NEW salt \in Salts \cup {BadFr}, NEW scope \in Scopes,
               NEW optionCount \in OptionCounts,
               NEW stateRoot \in Roots, NEW associationRoot \in Roots,
               CastR1(f, credential, vote, salt, scope, optionCount, stateRoot, associationRoot)
        PROVE  Box!Next
    <3>1. vote \in Options /\ Box!PutBallot(f, credential, vote)
      BY <2>5, CastR1Maps
    <3>2. QED
      BY <3>1 DEF Box!Next
  <2>6. ASSUME NEW f \in Elections, NEW vote \in Votes, NEW salt \in Salts \cup {BadFr},
               NEW commitment \in Commitments, Reveal(f, vote, salt, commitment)
        PROVE  Box!Next
    <3>1. PICK voter \in Credentials : Box!CountBallot(f, voter)
      BY <2>6, RevealMaps
    <3>2. QED
      BY <3>1 DEF Box!Next
  <2>7. QED
    BY <2>1, <2>2, <2>3, <2>4, <2>5, <2>6 DEF Next
<1>2. BallotInv /\ TypeOK /\ TypeOK' /\ [Next]_vars => [Box!Next]_(Box!vars)
  BY <1>1 DEF boxVars, Box!vars, boxStage, boxKind, boxCast, boxCounted
<1>3. QED
  BY <1>2, InitMaps, BallotInvHolds, TypeCorrect, PTL DEF Spec, Box!Spec, ImplementsBallotBox

-----------------------------------------------------------------------------
(* Sums over finite sets.  The sums of FiniteSetsExt are recursive functions; that they *)
(* are what they should be follows from the order of the finite sets by inclusion.      *)

\* Induction over a finite set: G has a subset of it whenever it has all that lack one element.
LEMMA GrowingSets ==
    ASSUME NEW S, IsFiniteSet(S), NEW G,
           \A T \in SUBSET S : (\A x \in T : T \ {x} \in G) => T \in G
    PROVE  S \in G
<1> SUFFICES ASSUME S \notin G PROVE FALSE
  OBVIOUS
<1> DEFINE Bad == {T \in SUBSET S : T \notin G}
<1>1. Bad \subseteq FiniteSubsetsOf(S) /\ Bad # {}
  BY FS_Subset DEF FiniteSubsetsOf
<1>2. PICK T \in Bad : \A U \in Bad : ~ (<<U, T>> \in StrictSubsetOrdering(S))
  <2> HIDE DEF Bad
  <2>1. IsWellFoundedOn(StrictSubsetOrdering(S), FiniteSubsetsOf(S))
    BY FS_StrictSubsetOrderingWellFounded
  <2>2. QED
    BY <1>1, <2>1, WFMin
<1>4. PICK x \in T : T \ {x} \notin G
  OBVIOUS
<1>5. T \ {x} \in Bad
  BY <1>4
<1>6. <<T \ {x}, T>> \in StrictSubsetOrdering(S)
  BY <1>4 DEF StrictSubsetOrdering
<1>7. QED
  BY <1>2, <1>5, <1>6

\* The sum of the values of a function over a finite set.
Total(f, S) == MapThenSumSet(LAMBDA x : f[x], S)

\* A function of the subsets that grows by f[x] with each element x is the sum of f.
LEMMA TotalByParts ==
    ASSUME NEW S, IsFiniteSet(S), NEW f, NEW g, g[{}] = 0,
           \A T \in SUBSET S : \A x \in T : g[T] = f[x] + g[T \ {x}]
    PROVE  Total(f, S) = g[S]
<1> DEFINE pick(s) == CHOOSE x \in s : TRUE
           step(h) == [s \in SUBSET S |-> IF s = {} THEN 0 ELSE f[pick(s)] + h[s \ {pick(s)}]]
           iter == CHOOSE h : h = step(h)
           whole == [s \in SUBSET S |-> g[s]]
<1>1. Total(f, S) = iter[S]
  BY DEF Total, MapThenSumSet, MapThenFoldSet
<1>2. whole = step(whole)
  OBVIOUS
<1> HIDE DEF step
<1>3. iter = step(iter)
  BY <1>2
<1> HIDE DEF iter
<1> DEFINE G == {T \in SUBSET S : iter[T] = g[T]}
<1>4. ASSUME NEW T \in SUBSET S, \A x \in T : T \ {x} \in G
      PROVE  T \in G
  <2>1. iter[T] = IF T = {} THEN 0 ELSE f[pick(T)] + iter[T \ {pick(T)}]
    BY <1>3 DEF step
  <2>2. CASE T = {}
    BY <2>1, <2>2
  <2>3. CASE T # {}
    <3>1. pick(T) \in T
      BY <2>3
    <3> HIDE DEF pick
    <3>2. g[T] = f[pick(T)] + g[T \ {pick(T)}]
      BY <3>1
    <3>3. iter[T \ {pick(T)}] = g[T \ {pick(T)}]
      BY <1>4, <3>1
    <3>4. QED
      BY <2>1, <2>3, <3>2, <3>3
  <2>4. QED
    BY <2>2, <2>3
<1>5. S \in G
  <2> HIDE DEF G
  <2>1. QED
   BY <1>4, GrowingSets
<1>6. QED
  BY <1>1, <1>5

\* Numbers that count the elements of a set tag by tag add up to the size of the set.
LEMMA TotalOfCounts ==
    ASSUME NEW S, IsFiniteSet(S), NEW E, IsFiniteSet(E), NEW tag \in [E -> S], NEW f,
           \A x \in S : f[x] = Cardinality({i \in E : tag[i] = x})
    PROVE  Total(f, S) = Cardinality(E)
<1> DEFINE In(T) == {i \in E : tag[i] \in T}
           g == [T \in SUBSET S |-> Cardinality(In(T))]
<1>1. \A T \in SUBSET S : IsFiniteSet(In(T)) /\ Cardinality(In(T)) \in Nat
  BY FS_Subset, FS_CardinalityType
<1>2. g[{}] = 0
  <2>1. In({}) = {}
    OBVIOUS
  <2>2. QED
    BY <2>1, FS_EmptySet
<1>3. ASSUME NEW T \in SUBSET S, NEW x \in T
      PROVE  g[T] = f[x] + g[T \ {x}]
  <2> DEFINE A == {i \in E : tag[i] = x}
             B == In(T \ {x})
  <2>1. In(T) = A \cup B /\ A \cap B = {} /\ A \in SUBSET E /\ B \in SUBSET E
    OBVIOUS
  <2>2. IsFiniteSet(A) /\ Cardinality(A) \in Nat /\ IsFiniteSet(B) /\ Cardinality(B) \in Nat
    BY <2>1, FS_Subset, FS_CardinalityType
  <2>3. f[x] = Cardinality(A)
    OBVIOUS
  <2> HIDE DEF A, B
  <2>4. Cardinality(A \cup B) = Cardinality(A) + Cardinality(B)
    <3>1. Cardinality(A \cap B) = 0
      BY <2>1, FS_EmptySet
    <3>2. Cardinality(A \cup B) = Cardinality(A) + Cardinality(B) - Cardinality(A \cap B)
      BY <2>2, FS_Union
    <3>3. QED
      BY <2>2, <3>1, <3>2
  <2>5. g[T] = Cardinality(A \cup B)
    BY <2>1
  <2>6. g[T \ {x}] = Cardinality(B)
    BY DEF B
  <2>7. QED
    BY <2>3, <2>4, <2>5, <2>6
<1>4. g[S] = Cardinality(E)
  <2>1. In(S) = E
    OBVIOUS
  <2>2. QED
    BY <2>1
<1>5. \A T \in SUBSET S : \A x \in T : g[T] = f[x] + g[T \ {x}]
  BY <1>3
<1> HIDE DEF g
<1>6. \E h : h[{}] = 0 /\ (\A T \in SUBSET S : \A x \in T : h[T] = f[x] + h[T \ {x}])
                     /\ h[S] = Cardinality(E)
  BY <1>2, <1>4, <1>5
<1>7. PICK h : h[{}] = 0 /\ (\A T \in SUBSET S : \A x \in T : h[T] = f[x] + h[T \ {x}])
                     /\ h[S] = Cardinality(E)
  BY <1>6
<1>8. Total(f, S) = h[S]
  BY <1>7, TotalByParts
<1>9. QED
  BY <1>7, <1>8

-----------------------------------------------------------------------------
(* The published result *)

\* Public votes are in the log of public elections only, and are for one of their options.
VotesMatchMode ==
    \A e \in Elections : \A i \in DOMAIN log[e] :
        log[e][i].type = "VoteCast" =>
            Exists(e) /\ elections[e].mode = "R0" /\ log[e][i].vote < elections[e].optionCount

\* A new event is a public vote only in a public election.
LEMMA LoggedInMode ==
    ASSUME TypeOK, VotesMatchMode, [Next]_vars,
           NEW f \in Elections, NEW event \in Event, LogEvent(f, event),
           event.type = "VoteCast" =>
              Exists(f) /\ elections[f].mode = "R0" /\ event.vote < elections[f].optionCount
    PROVE  VotesMatchMode'
<1> SUFFICES ASSUME NEW e \in Elections, NEW i \in DOMAIN log'[e],
                    log'[e][i].type = "VoteCast"
             PROVE  /\ Exists(e)' /\ elections'[e].mode = "R0"
                    /\ log'[e][i].vote < elections'[e].optionCount
  BY DEF VotesMatchMode
<1>1. Exists(e) => elections'[e] = elections[e] /\ Exists(e)'
  BY FrozenConfig DEF Exists
<1>2. Exists(e) /\ elections[e].mode = "R0" /\ log'[e][i].vote < elections[e].optionCount
  <2>1. CASE e # f
    <3>1. log'[e] = log[e]
      BY <2>1 DEF LogEvent, TypeOK
    <3>2. QED
      BY <3>1 DEF VotesMatchMode
  <2>2. CASE e = f
    <3>1. log[f] \in Seq(Event) /\ log'[f] = Append(log[f], event)
      BY DEF LogEvent, TypeOK
    <3>2. /\ DOMAIN log'[f] = DOMAIN log[f] \cup {Len(log[f]) + 1}
          /\ \A j \in DOMAIN log[f] : log'[f][j] = log[f][j]
          /\ log'[f][Len(log[f]) + 1] = event
      BY <3>1, Appended
    <3>3. QED
      BY <2>2, <3>2 DEF VotesMatchMode
  <2>3. QED
    BY <2>1, <2>2
<1>3. QED
  BY <1>1, <1>2

\* Every step keeps public votes to public elections.
LEMMA VotesMatchModeStep ==
    ASSUME TypeOK, VotesMatchMode, [Next]_vars
    PROVE  VotesMatchMode'
<1>1. CASE UNCHANGED log
  <2>1. \A e \in Elections : Exists(e) => Exists(e)' /\ elections'[e] = elections[e]
    BY FrozenConfig DEF Exists
  <2>2. QED
    BY <1>1, <2>1 DEF VotesMatchMode
<1>2. ASSUME NEW f \in Elections, NEW credential \in Credentials, NEW vote \in Votes,
             NEW scope \in Scopes, NEW optionCount \in OptionCounts,
             NEW stateRoot \in Roots, NEW associationRoot \in Roots,
             CastR0(f, credential, vote, scope, optionCount, stateRoot, associationRoot)
      PROVE  VotesMatchMode'
  <2>1. Exists(f) /\ elections[f].mode = "R0" /\ vote < elections[f].optionCount
    BY <1>2 DEF CastR0, CastR0Accepted, CastAccepted
  <2>2. \E event \in Event : event.vote = vote /\ LogEvent(f, event)
    BY <1>2, CastR0Logs
  <2>3. QED
    BY <2>1, <2>2, LoggedInMode
<1>3. ASSUME NEW f \in Elections, NEW credential \in Credentials, NEW vote \in Votes,
             NEW salt \in Salts \cup {BadFr}, NEW scope \in Scopes,
             NEW optionCount \in OptionCounts,
             NEW stateRoot \in Roots, NEW associationRoot \in Roots,
             CastR1(f, credential, vote, salt, scope, optionCount, stateRoot, associationRoot)
      PROVE  VotesMatchMode'
  <2>1. \E event \in Event : event.type = "VoteCommitted" /\ LogEvent(f, event)
    BY <1>3, CastR1Logs
  <2>2. QED
    BY <2>1, LoggedInMode
<1>4. ASSUME NEW f \in Elections, NEW vote \in Votes, NEW salt \in Salts \cup {BadFr},
             NEW commitment \in Commitments, Reveal(f, vote, salt, commitment)
      PROVE  VotesMatchMode'
  <2>1. \E event \in Event : event.type = "VoteRevealed" /\ LogEvent(f, event)
    BY <1>4, RevealLogs
  <2>2. QED
    BY <2>1, LoggedInMode
<1>5. QED
  BY <1>1, <1>2, <1>3, <1>4, Frames DEF Next


\* The ballot that an event puts in.
Ballot(e, i) == [voter |-> Voter(e, i), choice |-> Choice(e, i)]

\* The events of ballots for an option that are counted.
CountedFor(e, option) == {i \in CastEvents(e) : IsCounted(e, i) /\ Choice(e, i) = option}

\* There are as many ballots as events that put them in.
LEMMA BallotsOfEvents ==
    ASSUME BallotInv, NEW e \in Elections, NEW E \in SUBSET CastEvents(e)
    PROVE  /\ IsFiniteSet(E)
           /\ Cardinality({Ballot(e, i) : i \in E}) = Cardinality(E)
<1> DEFINE B == {Ballot(e, i) : i \in E}
           ballot == [i \in E |-> Ballot(e, i)]
<1>1. IsFiniteSet(E)
  <2>1. DOMAIN log[e] = 1 .. Len(log[e]) /\ Len(log[e]) \in Nat
    BY DEF BallotInv, IndInv, TypeOK
  <2>2. IsFiniteSet(DOMAIN log[e])
    BY <2>1, FS_Interval
  <2>3. E \in SUBSET DOMAIN log[e]
    BY DEF CastEvents
  <2>4. QED
    BY <2>2, <2>3, FS_Subset
<1>2. ASSUME NEW i \in E, NEW j \in E, ballot[i] = ballot[j]
      PROVE  i = j
  <2>1. log[e][i].nullifier[1] = log[e][j].nullifier[1]
    BY <1>2 DEF Ballot, Voter
  <2>2. QED
    BY <2>1, OneVoterOneBallot
<1>3. ballot \in Bijection(E, B)
  BY <1>2 DEF Bijection, Injection, Surjection, IsInjective
<1> HIDE DEF B, ballot
<1>4. ExistsBijection(E, B)
  BY <1>3 DEF ExistsBijection
<1>5. Cardinality(B) = Cardinality(E)
  BY <1>1, <1>4, FS_Bijection
<1>6. QED
  BY <1>1, <1>5 DEF B

\* And as many commitments as events that committed to them.
LEMMA CommitmentsOfEvents ==
    ASSUME BallotInv, NEW e \in Elections, NEW E \in SUBSET CommitEvents(e)
    PROVE  Cardinality({log[e][i].commitment : i \in E}) = Cardinality(E)
<1> DEFINE C == {log[e][i].commitment : i \in E}
           commitment == [i \in E |-> log[e][i].commitment]
<1>1. IsFiniteSet(E)
  BY BallotsOfEvents DEF CommitEvents, CastEvents
<1>2. ASSUME NEW i \in E, NEW j \in E, commitment[i] = commitment[j]
      PROVE  i = j
  BY <1>2 DEF BallotInv, LogMatchesCommitments
<1>3. commitment \in Bijection(E, C)
  BY <1>2 DEF Bijection, Injection, Surjection, IsInjective
<1> HIDE DEF C, commitment
<1>4. ExistsBijection(E, C)
  BY <1>3 DEF ExistsBijection
<1>5. Cardinality(C) = Cardinality(E)
  BY <1>1, <1>4, FS_Bijection
<1>6. QED
  BY <1>5 DEF C

\* A public election has no sealed ballots, and a sealed one no public ballots.
LEMMA OneKindOfBallot ==
    ASSUME BallotInv, VotesMatchMode, NEW e \in Elections, Exists(e)
    PROVE  /\ elections[e].mode \in {"R0", "R1"}
           /\ elections[e].mode = "R0" => CommitEvents(e) = {} /\ Committed(e) = {}
           /\ elections[e].mode = "R1" => CastEvents(e) = CommitEvents(e)
<1>1. elections[e].mode \in {"R0", "R1"}
  BY DEF BallotInv, IndInv, TypeOK, Exists, ElectionConfig, Modes
<1>2. elections[e].mode = "R0" => Committed(e) = {}
  BY DEF BallotInv, IndInv, SealedBallotsSound
<1>3. elections[e].mode = "R0" => CommitEvents(e) = {}
  BY <1>2 DEF BallotInv, LogMatchesCommitments
<1>4. elections[e].mode = "R1" => CastEvents(e) = CommitEvents(e)
  BY DEF VotesMatchMode, CastEvents, CommitEvents
<1>5. QED
  BY <1>1, <1>2, <1>3, <1>4

\* A tally bucket is the number of ballots for the option that are counted and in it.
LEMMA TallyByBallots ==
    ASSUME BallotInv, TallyMatchesEvents, VotesMatchMode,
           NEW e \in Elections, Exists(e), NEW option \in Options, NEW bucket \in Buckets
    PROVE  tally[e][option][bucket] =
              Cardinality({i \in CountedFor(e, option) : log[e][i].bucket = bucket})
<1> DEFINE E == {i \in CountedFor(e, option) : log[e][i].bucket = bucket}
<1>1. CASE elections[e].mode = "R0"
  <2>1. CommitEvents(e) = {}
    BY <1>1, OneKindOfBallot
  <2>2. \A i \in DOMAIN log[e] : log[e][i].type # "VoteCommitted"
    BY <2>1 DEF CommitEvents
  <2>3. DOMAIN log[e] = 1 .. Len(log[e])
    BY DEF BallotInv, IndInv, TypeOK
  <2>4. ASSUME NEW i \in DOMAIN log[e]
        PROVE  CountsFor(e, i, option, bucket) <=> i \in E
    <3>1. i \in Int
      BY <2>3
    <3>2. \A j \in 1 .. i - 1 : j \in DOMAIN log[e]
      <4>1. Len(log[e]) \in Int /\ i <= Len(log[e])
        BY <2>3 DEF BallotInv, IndInv, TypeOK
      <4>2. \A j \in 1 .. i - 1 : j \in 1 .. Len(log[e])
        BY <3>1, <4>1
      <4>3. QED
        BY <2>3, <4>2
    <3>3. \A j \in 1 .. i - 1 : log[e][j].type # "VoteCommitted"
      BY <2>2, <3>2
    <3>4. QED
      BY <2>2, <3>3 DEF CountsFor, CountedFor, CastEvents, IsCounted, Choice
  <2>5. E \subseteq DOMAIN log[e]
    BY DEF CountedFor, CastEvents
  <2>6. Counting(e, option, bucket) = E
    BY <2>4, <2>5 DEF Counting
  <2>7. QED
    BY <2>6 DEF TallyMatchesEvents, Counting
<1>2. CASE elections[e].mode = "R1"
  <2>1. CastEvents(e) = CommitEvents(e)
    BY <1>2, OneKindOfBallot
  <2>2. E \in SUBSET CommitEvents(e)
    BY <2>1 DEF CountedFor
  <2>3. ASSUME NEW i \in CommitEvents(e)
        PROVE  /\ i \in E <=> log[e][i].commitment \in RevealedFor(e, option, bucket)
               /\ log[e][i].commitment \in Committed(e)
    <3>1. /\ log[e][i].type = "VoteCommitted"
          /\ log[e][i].commitment \in Committed(e)
          /\ log[e][i].bucket = pending[e][log[e][i].commitment].bucket
      BY DEF BallotInv, LogMatchesCommitments, CommitEvents
    <3>2. QED
      BY <2>1, <3>1 DEF CountedFor, IsCounted, Choice, RevealedFor, Revealed
  <2>4. \A c \in RevealedFor(e, option, bucket) : \E i \in CommitEvents(e) : log[e][i].commitment = c
    BY DEF BallotInv, LogMatchesCommitments, RevealedFor, Revealed
  <2>5. RevealedFor(e, option, bucket) = {log[e][i].commitment : i \in E}
    BY <2>2, <2>3, <2>4
  <2>6. tally[e][option][bucket] = Cardinality(RevealedFor(e, option, bucket))
    BY <1>2 DEF BallotInv, IndInv, SealedTallyExact
  <2> HIDE DEF E
  <2>7. tally[e][option][bucket] = Cardinality(E)
    BY <2>2, <2>5, <2>6, CommitmentsOfEvents
  <2>8. QED
    BY <2>7 DEF E
<1>3. QED
  BY <1>1, <1>2, OneKindOfBallot


\* A voter is counted when the event of its ballot is.
LEMMA CountedByEvent ==
    ASSUME BallotInv, NEW e \in Elections, NEW i \in CastEvents(e)
    PROVE  Voter(e, i) \in CountedVoters(e) <=> IsCounted(e, i)
<1>1. CountedVoters(e) = {Voter(e, j) : j \in {k \in CastEvents(e) : IsCounted(e, k)}}
  BY BallotsByEvent
<1>2. ASSUME NEW j \in CastEvents(e), Voter(e, i) = Voter(e, j)
      PROVE  i = j
  BY <1>2, OneVoterOneBallot DEF Voter
<1>3. QED
  BY <1>1, <1>2

\* The counted ballots for an option are as many as the events of them.
LEMMA CountedBallots ==
    ASSUME BallotInv, NEW e \in Elections, NEW option
    PROVE  Cardinality({b \in CastBallots(e) :
                          b.choice = option /\ b.voter \in CountedVoters(e)})
             = Cardinality(CountedFor(e, option))
<1>1. CastBallots(e) = {Ballot(e, i) : i \in CastEvents(e)}
  BY BallotsByEvent DEF Ballot
<1>2. ASSUME NEW i \in CastEvents(e)
      PROVE  Ballot(e, i).choice = option /\ Ballot(e, i).voter \in CountedVoters(e)
               <=> i \in CountedFor(e, option)
  BY CountedByEvent DEF Ballot, CountedFor
<1>3. CountedFor(e, option) \in SUBSET CastEvents(e)
  BY DEF CountedFor
<1>4. {b \in CastBallots(e) : b.choice = option /\ b.voter \in CountedVoters(e)}
        = {Ballot(e, i) : i \in CountedFor(e, option)}
  BY <1>1, <1>2, <1>3
<1>5. QED
  BY <1>3, <1>4, BallotsOfEvents

\* The ballots that are not counted are as many as the events of them.
LEMMA UncountedBallots ==
    ASSUME BallotInv, NEW e \in Elections
    PROVE  Cardinality({b \in CastBallots(e) : b.voter \notin CountedVoters(e)})
             = Cardinality({i \in CastEvents(e) : ~ IsCounted(e, i)})
<1> DEFINE E == {i \in CastEvents(e) : ~ IsCounted(e, i)}
<1>1. CastBallots(e) = {Ballot(e, i) : i \in CastEvents(e)}
  BY BallotsByEvent DEF Ballot
<1>2. ASSUME NEW i \in CastEvents(e)
      PROVE  Ballot(e, i).voter \notin CountedVoters(e) <=> i \in E
  BY CountedByEvent DEF Ballot
<1>3. E \in SUBSET CastEvents(e)
  OBVIOUS
<1> HIDE DEF E
<1>4. {b \in CastBallots(e) : b.voter \notin CountedVoters(e)} = {Ballot(e, i) : i \in E}
  BY <1>1, <1>2, <1>3
<1>5. Cardinality({b \in CastBallots(e) : b.voter \notin CountedVoters(e)}) = Cardinality(E)
  BY <1>3, <1>4, BallotsOfEvents
<1>6. QED
  BY <1>5 DEF E

\* The sum of the buckets of an option is the number of its counted ballots.
LEMMA SumOfBuckets ==
    ASSUME BallotInv, TallyMatchesEvents, VotesMatchMode,
           NEW e \in Elections, Exists(e), NEW option \in 0 .. elections[e].optionCount - 1
    PROVE  /\ SumTally(e)[option] = Cardinality(CountedFor(e, option))
           /\ IsFiniteSet(CountedFor(e, option))
<1> DEFINE E == CountedFor(e, option)
           tag == [i \in E |-> log[e][i].bucket]
           f == tally[e][option]
<1>1. option \in Options
  BY CircuitAssumption DEF BallotInv, IndInv, TypeOK, Exists, ElectionConfig, Options
<1>2. SumTally(e)[option] = Total(f, Buckets)
  BY DEF SumTally, Total, MapThenSumSet, MapThenFoldSet
<1>3. E \in SUBSET CastEvents(e)
  BY DEF CountedFor
<1>4. IsFiniteSet(E)
  BY <1>3, BallotsOfEvents
<1>5. tag \in [E -> Buckets]
  <2>1. ASSUME NEW i \in E PROVE log[e][i].bucket \in Buckets
    <3>1. i \in DOMAIN log[e] /\ log[e][i].type \in {"VoteCast", "VoteCommitted"}
      BY <1>3 DEF CastEvents
    <3>2. log[e] \in Seq(Event)
      BY DEF BallotInv, IndInv, TypeOK
    <3>3. log[e][i] \in Event
      BY <3>1, <3>2
    <3>4. QED
      BY <3>1, <3>3 DEF Event
  <2>2. QED
    BY <2>1
<1>6. \A b \in Buckets : f[b] = Cardinality({i \in E : tag[i] = b})
  <2>1. ASSUME NEW b \in Buckets
        PROVE  f[b] = Cardinality({i \in E : tag[i] = b})
    <3>1. {i \in E : tag[i] = b} = {i \in CountedFor(e, option) : log[e][i].bucket = b}
      OBVIOUS
    <3>2. tally[e][option][b] = Cardinality({i \in CountedFor(e, option) : log[e][i].bucket = b})
      BY <1>1, TallyByBallots
    <3>3. QED
      BY <3>1, <3>2
  <2>2. QED
    BY <2>1
<1>7. PICK h \in [E -> Buckets] : \A b \in Buckets : f[b] = Cardinality({i \in E : h[i] = b})
  <2> HIDE DEF E, f, tag
  <2>1. QED
    BY <1>5, <1>6
<1> HIDE DEF E, f, tag
<1>8. Total(f, Buckets) = Cardinality(E)
  BY <1>4, <1>7, TotalOfCounts, ContractAssumption
<1>9. QED
  BY <1>2, <1>4, <1>8 DEF E, f

\* In a sealed election the sum fits a tally bucket, and what the counters leave
\* over is the number of ballots not counted.
LEMMA SealedResult ==
    ASSUME BallotInv, VotesMatchMode, NEW e \in Elections, Exists(e), elections[e].mode = "R1",
           NEW option
    PROVE  /\ Cardinality(CountedFor(e, option)) <= TallyMax
           /\ commitCount[e] - revealCount[e]
                = Cardinality({i \in CastEvents(e) : ~ IsCounted(e, i)})
<1> DEFINE All == CastEvents(e)
           Open == {i \in CastEvents(e) : IsCounted(e, i)}
           Sealed == {i \in CastEvents(e) : ~ IsCounted(e, i)}
<1>1. CastEvents(e) = CommitEvents(e)
  BY OneKindOfBallot
<1>2. /\ commitCount[e] = Cardinality(Committed(e)) /\ commitCount[e] \in 0 .. CountMax
      /\ revealCount[e] = Cardinality(Revealed(e))
  BY DEF BallotInv, IndInv, TypeOK, CountersMatchCommitments
<1>3. Committed(e) = {log[e][i].commitment : i \in All}
  BY <1>1 DEF BallotInv, LogMatchesCommitments
<1>4. Revealed(e) = {log[e][i].commitment : i \in Open}
  <2>1. \A i \in CommitEvents(e) : /\ IsCounted(e, i) <=> log[e][i].commitment \in Revealed(e)
                                   /\ log[e][i].commitment \in Committed(e)
    BY DEF IsCounted, CommitEvents, Revealed, BallotInv, LogMatchesCommitments
  <2>2. \A c \in Revealed(e) : \E i \in CommitEvents(e) : log[e][i].commitment = c
    BY DEF BallotInv, LogMatchesCommitments, Revealed
  <2>3. QED
    BY <1>1, <2>1, <2>2
<1>5. /\ All \in SUBSET CommitEvents(e) /\ Open \in SUBSET CommitEvents(e)
      /\ Open \in SUBSET All /\ Sealed = All \ Open
      /\ CountedFor(e, option) \in SUBSET All
  BY <1>1 DEF CountedFor
<1> HIDE DEF All, Open, Sealed
<1>6. commitCount[e] = Cardinality(All) /\ revealCount[e] = Cardinality(Open)
  BY <1>2, <1>3, <1>4, <1>5, CommitmentsOfEvents
<1>7. IsFiniteSet(All)
  BY <1>1, <1>5, BallotsOfEvents
<1>8. /\ Cardinality(All) \in Nat /\ Cardinality(Open) \in Nat
      /\ IsFiniteSet(CountedFor(e, option))
      /\ Cardinality(CountedFor(e, option)) \in Nat
      /\ Cardinality(CountedFor(e, option)) <= Cardinality(All)
  BY <1>5, <1>7, FS_Subset, FS_CardinalityType
<1>9. Cardinality(Sealed) = Cardinality(All) - Cardinality(Open)
  <2>1. Cardinality(All \ Open) = Cardinality(All) - Cardinality(All \cap Open)
    BY <1>7, <1>5, FS_Subset, FS_Difference
  <2>2. All \cap Open = Open
    BY <1>5
  <2>3. QED
    BY <1>5, <2>1, <2>2
<1>10. QED
  BY <1>2, <1>6, <1>8, <1>9, ContractAssumption DEF Sealed

\* What result() and audit_summary() answer is the count of the box, in every election
\* and at every moment, and the checked additions behind it never overflow.
THEOREM ResultIsRight == Spec => []ResultIsTheCount
<1>1. BallotInv /\ TallyMatchesEvents /\ VotesMatchMode => ResultIsTheCount
  <2> SUFFICES ASSUME BallotInv, TallyMatchesEvents, VotesMatchMode,
                      NEW e \in Elections, Exists(e)
               PROVE  LET result == Result(e)
                      IN  /\ \A option \in DOMAIN result.tally :
                               /\ result.tally[option] =
                                    Cardinality({b \in CastBallots(e) :
                                        b.choice = option /\ b.voter \in CountedVoters(e)})
                          /\ elections[e].mode = "R1" =>
                               /\ \A option \in DOMAIN result.tally :
                                     result.tally[option] <= TallyMax
                               /\ result.nonRevealCount =
                                    Cardinality({b \in CastBallots(e) :
                                        b.voter \notin CountedVoters(e)})
    BY DEF ResultIsTheCount
  <2>1. /\ Result(e).tally = SumTally(e)
        /\ Result(e).nonRevealCount = commitCount[e] - revealCount[e]
        /\ DOMAIN SumTally(e) = 0 .. elections[e].optionCount - 1
    BY DEF Result, SumTally
  <2>2. ASSUME NEW option \in 0 .. elections[e].optionCount - 1
        PROVE  /\ SumTally(e)[option] =
                    Cardinality({b \in CastBallots(e) :
                        b.choice = option /\ b.voter \in CountedVoters(e)})
               /\ elections[e].mode = "R1" => SumTally(e)[option] <= TallyMax
    <3>1. SumTally(e)[option] = Cardinality(CountedFor(e, option))
      BY SumOfBuckets
    <3>2. QED
      BY <3>1, CountedBallots, SealedResult
  <2>3. elections[e].mode = "R1" =>
          commitCount[e] - revealCount[e] =
             Cardinality({b \in CastBallots(e) : b.voter \notin CountedVoters(e)})
    BY SealedResult, UncountedBallots
  <2>4. QED
    BY <2>1, <2>2, <2>3
<1>2. Init => VotesMatchMode
  BY DEF Init, VotesMatchMode
<1>3. TypeOK /\ VotesMatchMode /\ [Next]_vars => VotesMatchMode'
  BY VotesMatchModeStep
<1>4. Spec => []VotesMatchMode
  BY <1>2, <1>3, TypeCorrect, PTL DEF Spec
<1>5. QED
  BY <1>1, <1>4, BallotInvHolds, EventsTellTheTally, PTL

=============================================================================
