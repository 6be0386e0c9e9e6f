----------------------- MODULE AuditedElectionProofs ------------------------
(* What the auditor makes of the events of the contract, for every value of the *)
(* constants and any number of events.                                          *)
EXTENDS AuditedElection, ZkQuorumRefinementProofs

-----------------------------------------------------------------------------
(* The events of reveals *)

RevealEvents(e) == {i \in DOMAIN log[e] : log[e][i].type = "VoteRevealed"}

\* The reveals in the log are the revealed commitments, one for one, each after its
\* commit and for the vote inside; and the bucket of a ballot is that of its nullifier.
RevealsInLog ==
    \A e \in Elections :
        /\ \A i \in CastEvents(e) : log[e][i].bucket = BucketOf[log[e][i].nullifier]
        /\ \A i \in RevealEvents(e) :
              /\ log[e][i].commitment \in Revealed(e)
              /\ log[e][i].vote = log[e][i].commitment[1]
              /\ \E j \in CommitEvents(e) : j < i /\ log[e][j].commitment = log[e][i].commitment
        /\ \A i, j \in RevealEvents(e) : log[e][i].commitment = log[e][j].commitment => i = j
        /\ \A c \in Revealed(e) : \E i \in RevealEvents(e) : log[e][i].commitment = c

\* The reveals of a log with one more event.
LEMMA RevealsOfOneMore ==
    ASSUME TypeOK, NEW f \in Elections, NEW event \in Event, LogEvent(f, event),
           NEW e \in Elections
    PROVE  /\ \A i \in RevealEvents(e) : log'[e][i] = log[e][i]
           /\ \A i \in CastEvents(e) : log'[e][i] = log[e][i]
           /\ \A i \in CommitEvents(e) : log'[e][i] = log[e][i]
           /\ \A i \in DOMAIN log[f] : i \in Nat /\ i < Len(log[f]) + 1
           /\ RevealEvents(e)' = IF e = f /\ event.type = "VoteRevealed"
                                 THEN RevealEvents(e) \cup {Len(log[f]) + 1} ELSE RevealEvents(e)
<1>1. /\ log'[f][Len(log[f]) + 1] = event
      /\ \A i \in DOMAIN log[e] : log'[e][i] = log[e][i]
      /\ DOMAIN log'[e] = IF e = f THEN DOMAIN log[e] \cup {Len(log[f]) + 1} ELSE DOMAIN log[e]
      /\ Len(log[f]) + 1 \notin DOMAIN log[f]
  BY LogOfOneMore
<1>2. log[f] \in Seq(Event)
  BY DEF TypeOK
<1>3. \A i \in DOMAIN log[f] : i \in Nat /\ i < Len(log[f]) + 1
  BY <1>2
<1>4. /\ \A i \in RevealEvents(e) : i \in DOMAIN log[e]
      /\ \A i \in CastEvents(e) : i \in DOMAIN log[e]
      /\ \A i \in CommitEvents(e) : i \in DOMAIN log[e]
  BY DEF RevealEvents, CastEvents, CommitEvents
<1>5. RevealEvents(e)' = IF e = f /\ event.type = "VoteRevealed"
                         THEN RevealEvents(e) \cup {Len(log[f]) + 1} ELSE RevealEvents(e)
  BY <1>1 DEF RevealEvents
<1>6. QED
  BY <1>1, <1>3, <1>4, <1>5

\* A ballot that is put in moves no reveal.
LEMMA BallotKeepsReveals ==
    ASSUME TypeOK, RevealsInLog, NEW f \in Elections, NEW event \in Event, LogEvent(f, event),
           event.type \in {"VoteCast", "VoteCommitted"},
           event.bucket = BucketOf[event.nullifier],
           \A e \in Elections : Revealed(e)' = Revealed(e)
    PROVE  RevealsInLog'
<1> DEFINE last == Len(log[f]) + 1
<1> SUFFICES ASSUME NEW e \in Elections
             PROVE
        /\ \A i \in CastEvents(e)' : log'[e][i].bucket = BucketOf[log'[e][i].nullifier]
        /\ \A i \in RevealEvents(e)' :
              /\ log'[e][i].commitment \in Revealed(e)'
              /\ log'[e][i].vote = log'[e][i].commitment[1]
              /\ \E j \in CommitEvents(e)' : j < i /\ log'[e][j].commitment = log'[e][i].commitment
        /\ \A i, j \in RevealEvents(e)' : log'[e][i].commitment = log'[e][j].commitment => i = j
        /\ \A c \in Revealed(e)' : \E i \in RevealEvents(e)' : log'[e][i].commitment = c
  BY DEF RevealsInLog
<1>1. /\ \A i \in RevealEvents(e) : log'[e][i] = log[e][i]
      /\ \A i \in CastEvents(e) : log'[e][i] = log[e][i]
      /\ \A i \in CommitEvents(e) : log'[e][i] = log[e][i]
      /\ RevealEvents(e)' = RevealEvents(e)
  BY RevealsOfOneMore
<1>2. /\ CastEvents(e)' = IF e = f THEN CastEvents(e) \cup {last} ELSE CastEvents(e)
      /\ CommitEvents(e) \subseteq CommitEvents(e)'
      /\ log'[f][last] = event
  BY LogOfOneMore
<1>3. /\ \A i \in CastEvents(e) : log[e][i].bucket = BucketOf[log[e][i].nullifier]
      /\ \A i \in RevealEvents(e) :
            /\ log[e][i].commitment \in Revealed(e)
            /\ log[e][i].vote = log[e][i].commitment[1]
            /\ \E j \in CommitEvents(e) : j < i /\ log[e][j].commitment = log[e][i].commitment
      /\ \A i, j \in RevealEvents(e) : log[e][i].commitment = log[e][j].commitment => i = j
      /\ \A c \in Revealed(e) : \E i \in RevealEvents(e) : log[e][i].commitment = c
  BY DEF RevealsInLog
<1> HIDE DEF last
<1>4. \A i \in CastEvents(e)' : log'[e][i].bucket = BucketOf[log'[e][i].nullifier]
  BY <1>1, <1>2, <1>3
<1>5. ASSUME NEW i \in RevealEvents(e)'
      PROVE  /\ log'[e][i].commitment \in Revealed(e)'
             /\ log'[e][i].vote = log'[e][i].commitment[1]
             /\ \E j \in CommitEvents(e)' : j < i /\ log'[e][j].commitment = log'[e][i].commitment
  BY <1>1, <1>2, <1>3
<1>6. QED
  BY <1>1, <1>3, <1>4, <1>5

\* A reveal adds one event, for a commitment that had none.
LEMMA RevealKeepsReveals ==
    ASSUME BallotInv, RevealsInLog,
           NEW f \in Elections, NEW vote \in Votes, NEW salt \in Salts \cup {BadFr},
           NEW commitment \in Commitments,
           Reveal(f, vote, salt, commitment)
    PROVE  RevealsInLog'
<1> DEFINE last == Len(log[f]) + 1
           opened == [pending[f][commitment] EXCEPT !.revealed = TRUE]
<1>1. TypeOK
  BY DEF BallotInv, IndInv
<1>2. /\ pending[f][commitment] # None
      /\ ~ pending[f][commitment].revealed
      /\ commitment[1] = vote
      /\ pending' = [pending EXCEPT ![f][commitment] = opened]
  BY DEF Reveal, RevealAccepted, BallotCommitment
<1>3. PICK event \in Event :
        /\ event = [type |-> "VoteRevealed", commitment |-> commitment, vote |-> vote]
        /\ LogEvent(f, event)
  BY <1>1, RevealLogs
<1>4. /\ event.type = "VoteRevealed" /\ event.commitment = commitment /\ event.vote = vote
  BY <1>3
<1>5. opened # None /\ opened.revealed
  <2>1. pending[f][commitment] \in PendingCommitment
    BY <1>1, <1>2 DEF TypeOK
  <2>2. opened \in PendingCommitment /\ opened.revealed
    BY <2>1 DEF PendingCommitment
  <2>3. QED
    BY <2>2, ContractAssumption
<1>6. ASSUME NEW e \in Elections
      PROVE  Revealed(e)' = IF e = f THEN Revealed(e) \cup {commitment} ELSE Revealed(e)
  <2>1. \A c \in Commitments :
          pending'[e][c] = IF e = f /\ c = commitment THEN opened ELSE pending[e][c]
    BY <1>1, <1>2 DEF TypeOK
  <2> HIDE DEF opened
  <2>2. QED
    BY <1>2, <1>5, <2>1 DEF Revealed, Committed
<1>7. commitment \notin Revealed(f) /\ commitment \in Committed(f)
  BY <1>2 DEF Revealed, Committed
<1>8. PICK k \in CommitEvents(f) : log[f][k].commitment = commitment
  BY <1>7 DEF BallotInv, LogMatchesCommitments
<1> SUFFICES ASSUME NEW e \in Elections
             PROVE
        /\ \A i \in CastEvents(e)' : log'[e][i].bucket = BucketOf[log'[e][i].nullifier]
        /\ \A i \in RevealEvents(e)' :
              /\ log'[e][i].commitment \in Revealed(e)'
              /\ log'[e][i].vote = log'[e][i].commitment[1]
              /\ \E j \in CommitEvents(e)' : j < i /\ log'[e][j].commitment = log'[e][i].commitment
        /\ \A i, j \in RevealEvents(e)' : log'[e][i].commitment = log'[e][j].commitment => i = j
        /\ \A c \in Revealed(e)' : \E i \in RevealEvents(e)' : log'[e][i].commitment = c
  BY DEF RevealsInLog
<1>9. /\ \A i \in RevealEvents(e) : log'[e][i] = log[e][i]
      /\ \A i \in CastEvents(e) : log'[e][i] = log[e][i]
      /\ \A i \in CommitEvents(e) : log'[e][i] = log[e][i]
      /\ \A i \in DOMAIN log[f] : i < last
      /\ RevealEvents(e)' = IF e = f THEN RevealEvents(e) \cup {last} ELSE RevealEvents(e)
  BY <1>1, <1>3, <1>4, RevealsOfOneMore
<1>10. /\ CastEvents(e)' = CastEvents(e)
       /\ CommitEvents(e)' = CommitEvents(e)
       /\ log'[f][last] = event
  BY <1>1, <1>3, <1>4, LogOfOneMore
<1>11. /\ \A i \in CastEvents(e) : log[e][i].bucket = BucketOf[log[e][i].nullifier]
       /\ \A i \in RevealEvents(e) :
             /\ log[e][i].commitment \in Revealed(e)
             /\ log[e][i].vote = log[e][i].commitment[1]
             /\ \E j \in CommitEvents(e) : j < i /\ log[e][j].commitment = log[e][i].commitment
       /\ \A i, j \in RevealEvents(e) : log[e][i].commitment = log[e][j].commitment => i = j
       /\ \A c \in Revealed(e) : \E i \in RevealEvents(e) : log[e][i].commitment = c
  BY DEF RevealsInLog
<1>12. k \in DOMAIN log[f]
  BY DEF CommitEvents
<1> HIDE DEF last, opened
<1>13. CASE e # f
  BY <1>6, <1>9, <1>10, <1>11, <1>13
<1>14. CASE e = f
  <2>1. Revealed(e)' = Revealed(e) \cup {commitment} /\ RevealEvents(e)' = RevealEvents(e) \cup {last}
    BY <1>6, <1>9, <1>14
  <2>2. \A i \in CastEvents(e)' : log'[e][i].bucket = BucketOf[log'[e][i].nullifier]
    BY <1>9, <1>10, <1>11
  <2>3. ASSUME NEW i \in RevealEvents(e)'
        PROVE  /\ log'[e][i].commitment \in Revealed(e)'
               /\ log'[e][i].vote = log'[e][i].commitment[1]
               /\ \E j \in CommitEvents(e)' :
                     j < i /\ log'[e][j].commitment = log'[e][i].commitment
    <3>1. CASE i \in RevealEvents(e)
      BY <1>9, <1>10, <1>11, <2>1, <3>1
    <3>2. CASE i = last
      BY <1>2, <1>4, <1>8, <1>9, <1>10, <1>12, <1>14, <2>1, <3>2
    <3>3. QED
      BY <2>1, <3>1, <3>2
  <2>4. ASSUME NEW i \in RevealEvents(e)', NEW j \in RevealEvents(e)',
               log'[e][i].commitment = log'[e][j].commitment
        PROVE  i = j
    <3>1. \A m \in RevealEvents(e) : log'[e][m].commitment # commitment
      BY <1>7, <1>9, <1>11, <1>14
    <3>2. QED
      BY <1>4, <1>9, <1>10, <1>11, <1>14, <2>1, <2>4, <3>1
  <2>5. ASSUME NEW c \in Revealed(e)'
        PROVE  \E i \in RevealEvents(e)' : log'[e][i].commitment = c
    BY <1>4, <1>9, <1>10, <1>11, <1>14, <2>1
  <2>6. QED
    BY <2>2, <2>3, <2>4, <2>5
<1>15. QED
  BY <1>13, <1>14

\* The events of reveals match what is stored, in every reachable state.
THEOREM RevealsInLogHolds == Spec => []RevealsInLog
<1>1. Init => RevealsInLog
  BY DEF Init, RevealsInLog, CastEvents, CommitEvents, RevealEvents, Revealed, Committed
<1>2. BallotInv /\ RevealsInLog /\ [Next]_vars => RevealsInLog'
  <2> SUFFICES ASSUME BallotInv, RevealsInLog, [Next]_vars PROVE RevealsInLog'
    OBVIOUS
  <2>0. TypeOK
    BY DEF BallotInv, IndInv
  <2>1. CASE UNCHANGED <<log, pending>>
    BY <2>1 DEF RevealsInLog, CastEvents, CommitEvents, RevealEvents, Revealed, Committed
  <2>2. ASSUME NEW f \in Elections, NEW credential \in Credentials, NEW vote \in Votes,
               NEW scope \in Scopes, NEW optionCount \in OptionCounts,
               NEW stateRoot \in Roots, NEW associationRoot \in Roots,
               CastR0(f, credential, vote, scope, optionCount, stateRoot, associationRoot)
        PROVE  RevealsInLog'
    <3>1. \A e \in Elections : Revealed(e)' = Revealed(e)
      BY <2>2 DEF CastR0, Revealed, Committed
    <3>2. \E event \in Event : /\ event.type = "VoteCast"
                               /\ event.bucket = BucketOf[event.nullifier]
                               /\ LogEvent(f, event)
      BY <2>0, <2>2, CastR0Logs
    <3>3. QED
      BY <2>0, <3>1, <3>2, BallotKeepsReveals
  <2>3. ASSUME NEW f \in Elections, NEW credential \in Credentials, NEW vote \in Votes,
               NEW salt \in Salts \cup {BadFr}, NEW scope \in Scopes,
               NEW optionCount \in OptionCounts,
               NEW stateRoot \in Roots, NEW associationRoot \in Roots,
               CastR1(f, credential, vote, salt, scope, optionCount, stateRoot, associationRoot)
        PROVE  RevealsInLog'
    <3>1. ASSUME NEW e \in Elections PROVE Revealed(e)' = Revealed(e)
      <4> DEFINE commitment == BallotCommitment(vote, salt, scope)
                 entry == [bucket |-> BucketOf[NullifierHash(credential, scope)],
                           revealed |-> FALSE]
      <4>1. /\ pending[f][commitment] = None
            /\ pending' = [pending EXCEPT ![f][commitment] = entry]
        BY <2>3 DEF CastR1, CastR1Accepted
      <4>2. \A c \in Commitments :
              pending'[e][c] = IF e = f /\ c = commitment THEN entry ELSE pending[e][c]
        BY <2>0, <4>1 DEF TypeOK
      <4>3. ~ entry.revealed
        OBVIOUS
      <4> HIDE DEF commitment, entry
      <4>4. QED
        BY <4>1, <4>2, <4>3 DEF Revealed, Committed
    <3>2. \E event \in Event : /\ event.type = "VoteCommitted"
                               /\ event.bucket = BucketOf[event.nullifier]
                               /\ LogEvent(f, event)
      BY <2>0, <2>3, CastR1Logs
    <3>3. QED
      BY <2>0, <3>1, <3>2, BallotKeepsReveals
  <2>4. ASSUME NEW f \in Elections, NEW vote \in Votes, NEW salt \in Salts \cup {BadFr},
               NEW commitment \in Commitments, Reveal(f, vote, salt, commitment)
        PROVE  RevealsInLog'
    BY <2>4, RevealKeepsReveals
  <2>5. QED
    BY <2>1, <2>2, <2>3, <2>4, Frames DEF Next
<1>3. QED
  BY <1>1, <1>2, BallotInvHolds, PTL DEF Spec


-----------------------------------------------------------------------------
(* The contract's result, from its events *)

\* The type of the events that count votes.
CountType(e) == IF elections[e].mode = "R0" THEN "VoteCast" ELSE "VoteRevealed"

\* The events that count a vote for an option.
VotesFor(e, option) ==
    {i \in DOMAIN log[e] : log[e][i].type = CountType(e) /\ log[e][i].vote = option}

\* The positions of a log are the numbers up to its length.
LEMMA LogPositions ==
    ASSUME BallotInv, NEW e \in Elections
    PROVE  /\ log[e] \in Seq(Event)
           /\ DOMAIN log[e] = 1 .. Len(log[e])
           /\ Len(log[e]) \in Nat
           /\ IsFiniteSet(DOMAIN log[e])
           /\ Cardinality(DOMAIN log[e]) = Len(log[e])
<1>1. log[e] \in Seq(Event)
  BY DEF BallotInv, IndInv, TypeOK
<1>2. DOMAIN log[e] = 1 .. Len(log[e]) /\ Len(log[e]) \in Nat
  BY <1>1
<1>3. QED
  BY <1>1, <1>2, FS_Interval

\* There are as many reveals as commitments that they open.
LEMMA CommitmentsOfReveals ==
    ASSUME BallotInv, RevealsInLog, NEW e \in Elections, NEW E \in SUBSET RevealEvents(e)
    PROVE  Cardinality({log[e][i].commitment : i \in E}) = Cardinality(E)
<1> DEFINE C == {log[e][i].commitment : i \in E}
           commitment == [i \in E |-> log[e][i].commitment]
<1>1. IsFiniteSet(E)
  <2>1. E \in SUBSET DOMAIN log[e]
    BY DEF RevealEvents
  <2>2. QED
    BY <2>1, LogPositions, FS_Subset
<1>2. ASSUME NEW i \in E, NEW j \in E, commitment[i] = commitment[j]
      PROVE  i = j
  BY <1>2 DEF RevealsInLog
<1>3. commitment \in Bijection(E, C)
  BY <1>2 DEF Bijection, Injection, Surjection, IsInjective
<1> HIDE DEF C, commitment
<1>4. ExistsBijection(E, C)
  BY <1>3 DEF ExistsBijection
<1>5. Cardinality(C) = Cardinality(E)
  BY <1>1, <1>4, FS_Bijection
<1>6. QED
  BY <1>5 DEF C

\* The result of an option is the number of events that count a vote for it.
LEMMA SumOfEvents ==
    ASSUME BallotInv, TallyMatchesEvents, VotesMatchMode, RevealsInLog,
           NEW e \in Elections, Exists(e), NEW option \in 0 .. elections[e].optionCount - 1
    PROVE  /\ SumTally(e)[option] = Cardinality(VotesFor(e, option))
           /\ IsFiniteSet(VotesFor(e, option))
<1>1. SumTally(e)[option] = Cardinality(CountedFor(e, option))
  BY SumOfBuckets
<1>2. IsFiniteSet(VotesFor(e, option))
  <2>1. VotesFor(e, option) \in SUBSET DOMAIN log[e]
    BY DEF VotesFor
  <2>2. QED
    BY <2>1, LogPositions, FS_Subset
<1>3. Cardinality(VotesFor(e, option)) = Cardinality(CountedFor(e, option))
  <2>1. CASE elections[e].mode = "R0"
    <3>1. CommitEvents(e) = {}
      BY <2>1, OneKindOfBallot
    <3>2. CountedFor(e, option) = VotesFor(e, option)
      BY <2>1, <3>1 DEF CountedFor, VotesFor, CastEvents, CommitEvents, IsCounted, Choice, CountType
    <3>3. QED
      BY <3>2
  <2>2. CASE elections[e].mode = "R1"
    <3> DEFINE C == {c \in Revealed(e) : c[1] = option}
    <3>1. CountedFor(e, option) \in SUBSET CommitEvents(e)
      BY <2>2, OneKindOfBallot DEF CountedFor
    <3>2. VotesFor(e, option) \in SUBSET RevealEvents(e)
      BY <2>2 DEF VotesFor, RevealEvents, CountType
    <3>3. {log[e][i].commitment : i \in CountedFor(e, option)} = C
      <4>1. ASSUME NEW i \in CommitEvents(e)
            PROVE  i \in CountedFor(e, option) <=> log[e][i].commitment \in C
        <5>1. log[e][i].commitment \in Committed(e) /\ log[e][i].type = "VoteCommitted"
          BY DEF BallotInv, LogMatchesCommitments, CommitEvents
        <5>2. i \in CastEvents(e)
          BY DEF CastEvents, CommitEvents
        <5>3. QED
          BY <5>1, <5>2 DEF CountedFor, IsCounted, Choice, Revealed
      <4>2. \A c \in C : \E i \in CommitEvents(e) : log[e][i].commitment = c
        BY DEF BallotInv, LogMatchesCommitments, Revealed
      <4>3. QED
        BY <3>1, <4>1, <4>2
    <3>4. {log[e][i].commitment : i \in VotesFor(e, option)} = C
      <4>1. ASSUME NEW i \in RevealEvents(e)
            PROVE  i \in VotesFor(e, option) <=> log[e][i].commitment \in C
        <5>1. /\ log[e][i].commitment \in Revealed(e)
              /\ log[e][i].vote = log[e][i].commitment[1]
          BY DEF RevealsInLog
        <5>2. i \in VotesFor(e, option) <=> log[e][i].vote = option
          BY <2>2 DEF VotesFor, RevealEvents, CountType
        <5>3. QED
          BY <5>1, <5>2
      <4>2. \A c \in C : \E i \in RevealEvents(e) : log[e][i].commitment = c
        BY DEF RevealsInLog
      <4>3. QED
        BY <3>2, <4>1, <4>2
    <3> HIDE DEF C
    <3>5. Cardinality({log[e][i].commitment : i \in CountedFor(e, option)})
            = Cardinality(CountedFor(e, option))
      BY <3>1, CommitmentsOfEvents
    <3>6. Cardinality({log[e][i].commitment : i \in VotesFor(e, option)})
            = Cardinality(VotesFor(e, option))
      BY <3>2, CommitmentsOfReveals
    <3>7. QED
      BY <3>3, <3>4, <3>5, <3>6
  <2>3. QED
    BY <2>1, <2>2, OneKindOfBallot
<1>4. QED
  BY <1>1, <1>2, <1>3


-----------------------------------------------------------------------------
(* The auditor's counts of a collection *)

\* What a collection says of the event at each position.
LEMMA CollectedEvents ==
    ASSUME BallotInv, NEW e \in Elections, NEW n \in Nat, NEW order \in [1 .. n -> DOMAIN log[e]],
           NEW withTx, NEW events, events = BundleOf(e, order, withTx)
    PROVE  /\ DOMAIN events = 1 .. n
           /\ \A k \in 1 .. n :
                LET ev == log[e][order[k]]
                IN  /\ events[k].type = ev.type
                    /\ events[k].election = e
                    /\ events[k].tx = IF withTx THEN order[k] ELSE None
                    /\ ev.type \in {"VoteCast", "VoteCommitted"} =>
                          events[k].nullifier = ev.nullifier /\ events[k].bucket = ev.bucket
                    /\ ev.type \in {"VoteCast", "VoteRevealed"} => events[k].vote = ev.vote
                    /\ ev.type \in {"VoteCommitted", "VoteRevealed"} =>
                          events[k].commitment = ev.commitment
                    /\ ev.type \in {"VoteCast", "VoteCommitted", "VoteRevealed"}
                    /\ ev.type \in {"VoteCast", "VoteCommitted"} =>
                          ev.nullifier \in Nullifiers /\ ev.bucket \in Buckets
<1>1. DOMAIN events = 1 .. n /\ \A k \in 1 .. n : events[k] = Collected(e, order[k], withTx)
  BY DEF BundleOf
<1>2. ASSUME NEW k \in 1 .. n
      PROVE  LET ev == log[e][order[k]]
             IN  /\ events[k].type = ev.type
                 /\ events[k].election = e
                 /\ events[k].tx = IF withTx THEN order[k] ELSE None
                 /\ ev.type \in {"VoteCast", "VoteCommitted"} =>
                       events[k].nullifier = ev.nullifier /\ events[k].bucket = ev.bucket
                 /\ ev.type \in {"VoteCast", "VoteRevealed"} => events[k].vote = ev.vote
                 /\ ev.type \in {"VoteCommitted", "VoteRevealed"} =>
                       events[k].commitment = ev.commitment
                 /\ ev.type \in {"VoteCast", "VoteCommitted", "VoteRevealed"}
                 /\ ev.type \in {"VoteCast", "VoteCommitted"} =>
                       ev.nullifier \in Nullifiers /\ ev.bucket \in Buckets
  <2> DEFINE ev == log[e][order[k]]
  <2>1. ev \in Event
    <3>1. order[k] \in DOMAIN log[e]
      OBVIOUS
    <3>2. QED
      BY <3>1, LogPositions
  <2>2. /\ ev.type \in {"VoteCast", "VoteCommitted", "VoteRevealed"}
        /\ ev.type \in {"VoteCast", "VoteCommitted"} =>
              ev.nullifier \in Nullifiers /\ ev.bucket \in Buckets
    BY <2>1 DEF Event
  <2>3. events[k] = Collected(e, order[k], withTx)
    BY <1>1
  <2>4. CASE ev.type = "VoteCast"
    BY <2>2, <2>3, <2>4 DEF Collected
  <2>5. CASE ev.type = "VoteCommitted"
    BY <2>2, <2>3, <2>5 DEF Collected
  <2>6. CASE ev.type = "VoteRevealed"
    BY <2>2, <2>3, <2>6 DEF Collected
  <2>7. QED
    BY <2>2, <2>4, <2>5, <2>6
<1>3. QED
  BY <1>1, <1>2

\* The commit of the event at a position was collected.
CommitCollected(e, order, k) ==
    \E j \in DOMAIN order : /\ log[e][order[j]].type = "VoteCommitted"
                           /\ log[e][order[j]].commitment = log[e][order[k]].commitment

\* The positions of a collection that count a vote for an option: of a reveal the
\* commit must have been collected too.
Taken(e, order, option) ==
    {k \in DOMAIN order :
        /\ order[k] \in VotesFor(e, option)
        /\ elections[e].mode = "R1" => CommitCollected(e, order, k)}

\* The auditor's sums are sums of functions.
LEMMA CountsAreTotals ==
    ASSUME NEW events, NEW options, NEW option \in 0 .. options - 1
    PROVE  /\ Audit!R0Counts(events, options)[option] = Total(Audit!R0Cells(events, option), Buckets)
           /\ Audit!R1Counts(events, options)[option] = Total(Audit!R1Cells(events, option), Buckets)
  BY DEF Audit!R0Counts, Audit!R1Counts, Total, MapThenSumSet, MapThenFoldSet,
         Audit!MapThenSumSet, Audit!MapThenFoldSet

\* The auditor's modules mean the same by the size of a set.
LEMMA AuditSizes == \A S : Audit!Cardinality(S) = Cardinality(S)
  BY DEF Audit!Cardinality, Cardinality

\* In a public election the auditor counts every vote that was collected.
LEMMA PublicCounts ==
    ASSUME BallotInv, RevealsInLog, NEW e \in Elections, elections[e].mode = "R0",
           NEW n \in Nat, NEW order \in [1 .. n -> DOMAIN log[e]], NEW withTx,
           NEW options, NEW option \in 0 .. options - 1
    PROVE  Counts(e, BundleOf(e, order, withTx), options)[option]
             = Cardinality(Taken(e, order, option))
<1>1. PICK events : events = BundleOf(e, order, withTx)
  OBVIOUS
<1> DEFINE E == Taken(e, order, option)
           tag == [k \in E |-> BucketOf[events[k].nullifier]]
           cells == Audit!R0Cells(events, option)
<1>2. DOMAIN events = 1 .. n
  BY <1>1, CollectedEvents
<1>3. ASSUME NEW k \in 1 .. n
      PROVE  /\ k \in E <=> events[k].type = "VoteCast" /\ events[k].vote = option
             /\ events[k].type = "VoteCast" => events[k].nullifier \in Nullifiers
  <2>1. LET ev == log[e][order[k]]
        IN  /\ events[k].type = ev.type
            /\ ev.type = "VoteCast" => events[k].vote = ev.vote
            /\ ev.type = "VoteCast" => events[k].nullifier \in Nullifiers
    BY <1>1, CollectedEvents
  <2>2. order[k] \in DOMAIN log[e] /\ k \in DOMAIN order
    OBVIOUS
  <2>3. QED
    BY <2>1, <2>2 DEF Taken, VotesFor, CountType
<1>4. E \in SUBSET (1 .. n)
  BY DEF Taken
<1>5. tag \in [E -> Buckets]
  <2>1. ASSUME NEW k \in E PROVE BucketOf[events[k].nullifier] \in Buckets
    BY <1>3, <1>4, ContractAssumption
  <2>2. QED
    BY <2>1
<1>6. IsFiniteSet(E)
  BY <1>4, FS_Interval, FS_Subset
<1>7. ASSUME NEW b \in Buckets
      PROVE  cells[b] = Cardinality({k \in E : tag[k] = b})
  <2>1. cells[b] = Cardinality({i \in Audit!Positions(events, "VoteCast") :
                                  BucketOf[events[i].nullifier] = b /\ events[i].vote = option})
    BY AuditSizes DEF Audit!R0Cells
  <2>2. {i \in Audit!Positions(events, "VoteCast") :
            BucketOf[events[i].nullifier] = b /\ events[i].vote = option}
          = {k \in E : tag[k] = b}
    BY <1>2, <1>3, <1>4 DEF Audit!Positions
  <2>3. QED
    BY <2>1, <2>2
<1> HIDE DEF tag
<1>8. PICK h \in [E -> Buckets] : \A b \in Buckets : cells[b] = Cardinality({k \in E : h[k] = b})
  <2> HIDE DEF E, cells
  <2>1. QED
    BY <1>5, <1>7
<1>9. Counts(e, events, options)[option] = Total(cells, Buckets)
  BY CountsAreTotals DEF Counts
<1> HIDE DEF E, cells
<1>10. Total(cells, Buckets) = Cardinality(E)
  BY <1>6, <1>8, TotalOfCounts, ContractAssumption
<1>11. QED
  BY <1>1, <1>9, <1>10 DEF E

\* The commit of a reveal has one position in a collection that has no event twice, so
\* that the auditor takes its bucket.
LEMMA CommitFound ==
    ASSUME BallotInv, NEW e \in Elections,
           NEW n \in Nat, NEW order \in [1 .. n -> DOMAIN log[e]], IsInjective(order),
           NEW withTx, NEW events, events = BundleOf(e, order, withTx),
           NEW k \in 1 .. n, events[k].type = "VoteRevealed"
    PROVE  /\ Audit!CommitsOf(events, k) # {} <=> CommitCollected(e, order, k)
           /\ Audit!CommitsOf(events, k) # {} => Audit!R1Bucket(events, k) \in Buckets
<1> DEFINE commits == Audit!CommitsOf(events, k)
<1>1. ASSUME NEW j \in 1 .. n
      PROVE  /\ events[j].type = log[e][order[j]].type
             /\ events[j].type = "VoteCommitted" =>
                   /\ events[j].commitment = log[e][order[j]].commitment
                   /\ events[j].bucket \in Buckets
             /\ events[j].type = "VoteRevealed" =>
                   events[j].commitment = log[e][order[j]].commitment
  BY CollectedEvents
<1>2. DOMAIN events = 1 .. n
  BY CollectedEvents
<1>3. commits = {j \in 1 .. n : /\ log[e][order[j]].type = "VoteCommitted"
                                /\ log[e][order[j]].commitment = log[e][order[k]].commitment}
  BY <1>1, <1>2 DEF Audit!CommitsOf, Audit!Positions
<1>4. ASSUME NEW i \in commits, NEW j \in commits
      PROVE  i = j
  <2>1. order[i] \in CommitEvents(e) /\ order[j] \in CommitEvents(e)
    BY <1>3 DEF CommitEvents
  <2>2. order[i] = order[j]
    BY <1>3, <2>1 DEF BallotInv, LogMatchesCommitments
  <2>3. QED
    BY <1>3, <2>2 DEF IsInjective
<1>5. ASSUME NEW j \in commits
      PROVE  Audit!R1Bucket(events, k) \in Buckets
  <2>1. commits = {j} /\ j \in Nat /\ j \in 1 .. n
    BY <1>3, <1>4
  <2>2. Audit!Max(commits) = j
    BY <2>1 DEF Audit!Max
  <2>3. QED
    BY <1>1, <1>3, <2>1, <2>2 DEF Audit!R1Bucket
<1> HIDE DEF commits
<1>6. QED
  BY <1>3, <1>5 DEF commits, CommitCollected


\* In a sealed one it counts every reveal whose commit was collected too.
LEMMA SealedCounts ==
    ASSUME BallotInv, RevealsInLog, NEW e \in Elections, elections[e].mode = "R1",
           NEW n \in Nat, NEW order \in [1 .. n -> DOMAIN log[e]], IsInjective(order), NEW withTx,
           NEW options, NEW option \in 0 .. options - 1
    PROVE  Counts(e, BundleOf(e, order, withTx), options)[option]
             = Cardinality(Taken(e, order, option))
<1>1. PICK events : events = BundleOf(e, order, withTx)
  OBVIOUS
<1> DEFINE E == Taken(e, order, option)
           tag == [k \in E |-> Audit!R1Bucket(events, k)]
           cells == Audit!R1Cells(events, option)
           reveals == Audit!Positions(events, "VoteRevealed") \ Audit!RevealsMissingBucket(events)
<1>2. DOMAIN events = 1 .. n
  BY <1>1, CollectedEvents
<1>3. ASSUME NEW k \in 1 .. n
      PROVE  /\ k \in E <=> /\ events[k].type = "VoteRevealed" /\ events[k].vote = option
                            /\ Audit!CommitsOf(events, k) # {}
             /\ k \in E => Audit!R1Bucket(events, k) \in Buckets
  <2>1. /\ events[k].type = log[e][order[k]].type
        /\ log[e][order[k]].type = "VoteRevealed" => events[k].vote = log[e][order[k]].vote
    BY <1>1, CollectedEvents
  <2>2. order[k] \in DOMAIN log[e] /\ k \in DOMAIN order /\ DOMAIN order = 1 .. n
    OBVIOUS
  <2>3. k \in E <=> /\ events[k].type = "VoteRevealed" /\ events[k].vote = option
                    /\ CommitCollected(e, order, k)
    BY <2>1, <2>2 DEF Taken, VotesFor, CountType
  <2>4. ASSUME events[k].type = "VoteRevealed"
        PROVE  /\ Audit!CommitsOf(events, k) # {} <=> CommitCollected(e, order, k)
               /\ Audit!CommitsOf(events, k) # {} => Audit!R1Bucket(events, k) \in Buckets
    <3> HIDE DEF E, tag, cells, reveals
    <3>1. QED
      BY <1>1, <2>4, CommitFound
  <2> HIDE DEF E
  <2>5. QED
    BY <2>3, <2>4
<1>4. E \in SUBSET (1 .. n)
  BY DEF Taken
<1>5. tag \in [E -> Buckets]
  <2>1. ASSUME NEW k \in E PROVE Audit!R1Bucket(events, k) \in Buckets
    BY <1>3, <1>4
  <2>2. QED
    BY <2>1
<1>6. IsFiniteSet(E)
  BY <1>4, FS_Interval, FS_Subset
<1>7. ASSUME NEW b \in Buckets
      PROVE  cells[b] = Cardinality({k \in E : tag[k] = b})
  <2>1. cells[b] = Cardinality({i \in reveals :
                                  Audit!R1Bucket(events, i) = b /\ events[i].vote = option})
    BY AuditSizes DEF Audit!R1Cells
  <2>2. {i \in reveals : Audit!R1Bucket(events, i) = b /\ events[i].vote = option}
          = {k \in E : tag[k] = b}
    <3>1. \A k \in 1 .. n :
            k \in reveals <=> /\ events[k].type = "VoteRevealed"
                              /\ Audit!CommitsOf(events, k) # {}
      BY <1>2 DEF Audit!Positions, Audit!RevealsMissingBucket
    <3>2. reveals \in SUBSET (1 .. n)
      BY <1>2 DEF Audit!Positions
    <3> HIDE DEF reveals
    <3>3. \A k \in E : tag[k] = Audit!R1Bucket(events, k)
      OBVIOUS
    <3> HIDE DEF tag, E
    <3>4. QED
      BY <1>3, <1>4, <3>1, <3>2, <3>3
  <2>3. QED
    BY <2>1, <2>2
<1> HIDE DEF tag, reveals
<1>8. PICK h \in [E -> Buckets] : \A b \in Buckets : cells[b] = Cardinality({k \in E : h[k] = b})
  <2> HIDE DEF E, cells
  <2>1. QED
    BY <1>5, <1>7
<1>9. Counts(e, events, options)[option] = Total(cells, Buckets)
  BY CountsAreTotals DEF Counts
<1> HIDE DEF E, cells
<1>10. Total(cells, Buckets) = Cardinality(E)
  BY <1>6, <1>8, TotalOfCounts, ContractAssumption
<1>11. QED
  BY <1>1, <1>9, <1>10 DEF E

\* A collection with no event twice counts at most the votes there are; with as many as
\* there are it has them all; and with every event, in any order, it counts just those.
LEMMA TakenOfVotes ==
    ASSUME BallotInv, RevealsInLog, NEW e \in Elections, Exists(e), NEW option,
           NEW n \in Nat, NEW order \in [1 .. n -> DOMAIN log[e]], IsInjective(order)
    PROVE  /\ Cardinality(Taken(e, order, option)) \in Nat
           /\ Cardinality(VotesFor(e, option)) \in Nat
           /\ Cardinality(Taken(e, order, option)) <= Cardinality(VotesFor(e, option))
           /\ Cardinality(Taken(e, order, option)) = Cardinality(VotesFor(e, option)) =>
                 \A i \in VotesFor(e, option) : \E k \in 1 .. n : order[k] = i
           /\ n = Len(log[e]) => /\ Cardinality(Taken(e, order, option))
                                       = Cardinality(VotesFor(e, option))
                                 /\ order \in Surjection(1 .. n, DOMAIN log[e])
<1> DEFINE T == Taken(e, order, option)
           V == VotesFor(e, option)
           place == [k \in T |-> order[k]]
<1>1. T \in SUBSET (1 .. n) /\ V \in SUBSET DOMAIN log[e]
  BY DEF Taken, VotesFor
<1>2. /\ IsFiniteSet(T) /\ IsFiniteSet(V) /\ Cardinality(T) \in Nat /\ Cardinality(V) \in Nat
  <2> HIDE DEF T, V
  <2>1. IsFiniteSet(1 .. n) /\ IsFiniteSet(DOMAIN log[e])
    BY LogPositions, FS_Interval
  <2>2. QED
    BY <1>1, <2>1, FS_Subset, FS_CardinalityType
<1>3. place \in Injection(T, V)
  <2>1. \A k \in T : order[k] \in V
    BY DEF Taken
  <2> HIDE DEF T, V
  <2>2. \A i, j \in T : order[i] = order[j] => i = j
    BY <1>1 DEF IsInjective
  <2>3. QED
    BY <2>1, <2>2 DEF Injection, IsInjective
<1>4. /\ Cardinality(T) <= Cardinality(V)
      /\ Cardinality(T) = Cardinality(V) => \A i \in V : \E k \in 1 .. n : order[k] = i
  <2>1. \A k \in T : place[k] = order[k]
    OBVIOUS
  <2> HIDE DEF T, V, place
  <2>2. /\ Cardinality(T) <= Cardinality(V)
        /\ Cardinality(T) = Cardinality(V) => place \in Surjection(T, V)
    BY <1>2, <1>3, FS_Injection
  <2>3. place \in Surjection(T, V) => \A i \in V : \E k \in T : place[k] = i
    BY DEF Surjection
  <2>4. QED
    BY <1>1, <2>1, <2>2, <2>3
<1>5. ASSUME n = Len(log[e])
      PROVE  order \in Surjection(1 .. n, DOMAIN log[e])
  <2>1. Cardinality(1 .. n) = n
    BY FS_Interval
  <2>2. IsFiniteSet(DOMAIN log[e]) /\ Cardinality(DOMAIN log[e]) = n
    BY <1>5, LogPositions
  <2>3. order \in Injection(1 .. n, DOMAIN log[e])
    BY DEF Injection
  <2>4. QED
    BY <2>1, <2>2, <2>3, FS_Injection
<1>6. ASSUME n = Len(log[e])
      PROVE  Cardinality(T) = Cardinality(V)
  <2>1. \A i \in DOMAIN log[e] : \E k \in 1 .. n : order[k] = i
    BY <1>5, <1>6 DEF Surjection
  <2>2. ASSUME NEW i \in V
        PROVE  \E k \in T : order[k] = i
    <3>1. PICK k \in 1 .. n : order[k] = i
      BY <1>1, <2>1
    <3>2. ASSUME elections[e].mode = "R1"
          PROVE  CommitCollected(e, order, k)
      <4>1. i \in RevealEvents(e)
        BY <3>2 DEF VotesFor, RevealEvents, CountType
      <4>2. PICK c \in CommitEvents(e) : log[e][c].commitment = log[e][i].commitment
        BY <4>1 DEF RevealsInLog
      <4>3. c \in DOMAIN log[e] /\ log[e][c].type = "VoteCommitted"
        BY DEF CommitEvents
      <4>4. PICK j \in 1 .. n : order[j] = c
        BY <2>1, <4>3
      <4>5. QED
        BY <3>1, <4>2, <4>3, <4>4 DEF CommitCollected
    <3>3. QED
      BY <3>1, <3>2 DEF Taken
  <2>3. place \in Surjection(T, V)
    <3>1. place \in [T -> V]
      BY <1>3 DEF Injection
    <3> HIDE DEF T, V
    <3>2. QED
      BY <2>2, <3>1 DEF Surjection
  <2> HIDE DEF T, V, place
  <2>4. QED
    BY <1>2, <1>3, <2>3, FS_Injection
<1>7. QED
  BY <1>2, <1>4, <1>5, <1>6


\* What the auditor counts of a collection with no event twice.
LEMMA CountsOfCollection ==
    ASSUME BallotInv, RevealsInLog, NEW e \in Elections, Exists(e),
           NEW n \in Nat, NEW order \in [1 .. n -> DOMAIN log[e]], IsInjective(order), NEW withTx,
           NEW options
    PROVE  /\ DOMAIN Counts(e, BundleOf(e, order, withTx), options) = 0 .. options - 1
           /\ \A option \in 0 .. options - 1 :
                Counts(e, BundleOf(e, order, withTx), options)[option]
                  = Cardinality(Taken(e, order, option))
<1>1. elections[e].mode \in {"R0", "R1"}
  BY DEF BallotInv, IndInv, TypeOK, Exists, ElectionConfig, Modes
<1>2. DOMAIN Counts(e, BundleOf(e, order, withTx), options) = 0 .. options - 1
  BY DEF Counts, Audit!R0Counts, Audit!R1Counts
<1>3. ASSUME NEW option \in 0 .. options - 1
      PROVE  Counts(e, BundleOf(e, order, withTx), options)[option]
               = Cardinality(Taken(e, order, option))
  BY <1>1, PublicCounts, SealedCounts
<1>4. QED
  BY <1>2, <1>3

\* What holds of every reachable state and the properties of the audit follow from.
AuditInv == BallotInv /\ TallyMatchesEvents /\ VotesMatchMode /\ RevealsInLog

\* The audit's invariant holds of every reachable state.
LEMMA AuditInvHolds == Spec => []AuditInv
<1>1. Init => VotesMatchMode
  BY DEF Init, VotesMatchMode
<1>2. TypeOK /\ VotesMatchMode /\ [Next]_vars => VotesMatchMode'
  BY VotesMatchModeStep
<1>3. Spec => []VotesMatchMode
  BY <1>1, <1>2, TypeCorrect, PTL DEF Spec
<1>4. QED
  BY <1>3, BallotInvHolds, EventsTellTheTally, RevealsInLogHolds, PTL DEF AuditInv

\* All events in any order give the result.
LEMMA AllEventsGiveResult ==
    ASSUME AuditInv, NEW e \in Elections, Exists(e),
           NEW order \in [DOMAIN log[e] -> DOMAIN log[e]], IsInjective(order), NEW withTx
    PROVE  Counts(e, BundleOf(e, order, withTx), elections[e].optionCount) = SumTally(e)
<1> DEFINE n == Len(log[e])
           counts == Counts(e, BundleOf(e, order, withTx), elections[e].optionCount)
<1>1. n \in Nat /\ order \in [1 .. n -> DOMAIN log[e]]
  BY LogPositions DEF AuditInv
<1>2. /\ DOMAIN counts = 0 .. elections[e].optionCount - 1
      /\ \A option \in 0 .. elections[e].optionCount - 1 :
            counts[option] = Cardinality(Taken(e, order, option))
  <2> HIDE DEF n
  <2>1. QED
    BY <1>1, CountsOfCollection DEF AuditInv
<1>3. ASSUME NEW option \in 0 .. elections[e].optionCount - 1
      PROVE  counts[option] = SumTally(e)[option]
  <2>1. Cardinality(Taken(e, order, option)) = Cardinality(VotesFor(e, option))
    BY <1>1, TakenOfVotes DEF AuditInv
  <2>2. SumTally(e)[option] = Cardinality(VotesFor(e, option))
    BY SumOfEvents DEF AuditInv
  <2>3. QED
    BY <1>2, <2>1, <2>2
<1>4. /\ counts = [option \in 0 .. elections[e].optionCount - 1 |-> counts[option]]
      /\ SumTally(e) = [option \in 0 .. elections[e].optionCount - 1 |-> SumTally(e)[option]]
  <2>1. counts = [option \in DOMAIN counts |-> counts[option]]
    BY DEF Counts, Audit!R0Counts, Audit!R1Counts
  <2>2. QED
    BY <1>2, <2>1 DEF SumTally
<1> HIDE DEF counts
<1>5. counts = SumTally(e)
  BY <1>3, <1>4
<1>6. QED
  BY <1>5 DEF counts

\* The order in which the events were collected changes none of the auditor's counts.
THEOREM OrderIsIrrelevant == Spec => []CollectionOrderIrrelevant
<1>1. AuditInv => CollectionOrderIrrelevant
  BY AllEventsGiveResult DEF CollectionOrderIrrelevant, Shuffled
<1>2. QED
  BY <1>1, AuditInvHolds, PTL


-----------------------------------------------------------------------------
(* What an accepted collection says *)

\* An audit that finds nothing wrong has no event twice: a ballot would repeat its
\* nullifier and a reveal its commitment.
LEMMA AcceptedOnceEach ==
    ASSUME BallotInv, NEW e \in Elections, NEW n \in Nat,
           NEW order \in [1 .. n -> DOMAIN log[e]], NEW withTx, NEW archive, NEW configured,
           Audit!VerifyOk(BundleOf(e, order, withTx), archive, configured)
    PROVE  IsInjective(order)
<1>1. PICK events : events = BundleOf(e, order, withTx)
  OBVIOUS
<1>2. DOMAIN events = 1 .. n
  BY <1>1, CollectedEvents
<1>3. /\ Audit!DuplicateNullifiers(events) = {}
      /\ Audit!DuplicateTxs(events) = {}
      /\ Audit!DoubleReveals(events) = {}
  BY <1>1 DEF Audit!VerifyOk
<1>4. Audit!FreshTx(events) = 1 .. n
  BY <1>2, <1>3 DEF Audit!DuplicateTxs, Audit!FreshTx
<1>5. ASSUME NEW i \in 1 .. n, NEW j \in 1 .. n, i < j, order[i] = order[j]
      PROVE  FALSE
  <2> DEFINE ev == log[e][order[i]]
  <2>1. /\ events[i].type = ev.type /\ events[j].type = ev.type
        /\ ev.type \in {"VoteCast", "VoteCommitted", "VoteRevealed"}
        /\ ev.type \in {"VoteCast", "VoteCommitted"} => events[i].nullifier = events[j].nullifier
        /\ ev.type = "VoteRevealed" => events[i].commitment = events[j].commitment
    <3>1. LET at == log[e][order[i]]
          IN  /\ events[i].type = at.type
              /\ at.type \in {"VoteCast", "VoteCommitted", "VoteRevealed"}
              /\ at.type \in {"VoteCast", "VoteCommitted"} => events[i].nullifier = at.nullifier
              /\ at.type = "VoteRevealed" => events[i].commitment = at.commitment
      BY <1>1, CollectedEvents
    <3>2. LET at == log[e][order[j]]
          IN  /\ events[j].type = at.type
              /\ at.type \in {"VoteCast", "VoteCommitted"} => events[j].nullifier = at.nullifier
              /\ at.type = "VoteRevealed" => events[j].commitment = at.commitment
      BY <1>1, CollectedEvents
    <3>3. QED
      BY <1>5, <3>1, <3>2
  <2> HIDE DEF ev
  <2>2. CASE ev.type \in {"VoteCast", "VoteCommitted"}
    <3>1. j \in Audit!DuplicateNullifiers(events)
      BY <1>4, <1>5, <2>1, <2>2 DEF Audit!DuplicateNullifiers, Audit!IsBallot
    <3>2. QED
      BY <1>3, <3>1
  <2>3. CASE ev.type = "VoteRevealed"
    <3>1. i \in 1 .. j - 1 /\ j \in DOMAIN events
      BY <1>2, <1>5
    <3>2. j \in Audit!DoubleReveals(events)
      BY <2>1, <2>3, <3>1 DEF Audit!DoubleReveals, Audit!Positions
    <3>3. QED
      BY <1>3, <3>2
  <2>4. QED
    BY <2>1, <2>2, <2>3
<1>6. ASSUME NEW i \in 1 .. n, NEW j \in 1 .. n, order[i] = order[j]
      PROVE  i = j
  <2>1. i \in Nat /\ j \in Nat
    OBVIOUS
  <2>2. ~ (i < j) /\ ~ (j < i)
    BY <1>5, <1>6
  <2>3. QED
    BY <2>1, <2>2
<1>7. DOMAIN order = 1 .. n
  OBVIOUS
<1>8. QED
  BY <1>6, <1>7 DEF IsInjective

\* The loader refuses a bundle with a ballot from elsewhere.
LEMMA ForeignRefused ==
    ASSUME BallotInv, NEW e \in Elections, NEW withTx, NEW nullifier
    PROVE  ~ Audit!Loads(e, Append(Complete(e, withTx), Foreign(nullifier)))
<1> DEFINE events == Append(Complete(e, withTx), Foreign(nullifier))
           last == Len(log[e]) + 1
<1>1. /\ Len(log[e]) \in Nat
      /\ Complete(e, withTx) = [k \in 1 .. Len(log[e]) |-> Collected(e, k, withTx)]
  <2>1. DOMAIN log[e] = 1 .. Len(log[e]) /\ Len(log[e]) \in Nat
    BY LogPositions
  <2>2. QED
    BY <2>1 DEF Complete, BundleOf
<1>2. Len(Complete(e, withTx)) = Len(log[e])
  BY <1>1
<1>3. last \in DOMAIN events /\ events[last] = Foreign(nullifier)
  <2>1. events = [k \in 1 .. last |->
                    IF k = last THEN Foreign(nullifier) ELSE Complete(e, withTx)[k]]
    BY <1>1, <1>2
  <2>2. QED
    BY <1>1, <2>1
<1>4. events[last].election = None
  BY <1>3 DEF Foreign
<1> HIDE DEF events
<1>5. ~ Audit!Loads(e, events)
  BY <1>3, <1>4, CollectorAssumption DEF Audit!Loads
<1>6. QED
  BY <1>5 DEF events

\* So a collection that is loaded and accepted is some of the events, each once.
LEMMA AcceptedCollection ==
    ASSUME BallotInv, NEW e \in Elections, NEW withTx, NEW events \in Collections(e, withTx),
           Audit!Loads(e, events), Audit!VerifyOk(events, {}, TRUE)
    PROVE  \E n \in Nat : \E order \in [1 .. n -> DOMAIN log[e]] :
              events = BundleOf(e, order, withTx) /\ IsInjective(order)
<1>1. ASSUME NEW order \in UNION {[1 .. n -> DOMAIN log[e]] : n \in 0 .. Len(log[e]) + 1},
             events = BundleOf(e, order, withTx)
      PROVE  \E n \in Nat : \E s \in [1 .. n -> DOMAIN log[e]] :
                events = BundleOf(e, s, withTx) /\ IsInjective(s)
  <2>1. PICK n \in 0 .. Len(log[e]) + 1 : order \in [1 .. n -> DOMAIN log[e]]
    OBVIOUS
  <2>2. n \in Nat
    BY <2>1
  <2>3. IsInjective(order)
    BY <1>1, <2>1, <2>2, AcceptedOnceEach
  <2>4. QED
    BY <1>1, <2>1, <2>2, <2>3
<1>2. ASSUME NEW nullifier \in Nullifiers,
             events = Append(Complete(e, withTx), Foreign(nullifier))
      PROVE  FALSE
  BY <1>2, ForeignRefused
<1>3. QED
  BY <1>1, <1>2 DEF Collections

\* An accepted audit never reports more votes than the contract counted.
THEOREM NeverOvercounts == Spec => []AcceptedNeverOvercounts
<1>1. AuditInv => AcceptedNeverOvercounts
  <2> SUFFICES ASSUME AuditInv, NEW e \in Elections, NEW withTx \in BOOLEAN, Exists(e),
                      NEW events \in Collections(e, withTx),
                      Audit!Loads(e, events), Audit!VerifyOk(events, {}, TRUE),
                      NEW option \in DOMAIN Counts(e, events, elections[e].optionCount)
               PROVE  Counts(e, events, elections[e].optionCount)[option] <= SumTally(e)[option]
    BY DEF AcceptedNeverOvercounts
  <2>1. /\ BallotInv /\ RevealsInLog /\ TallyMatchesEvents /\ VotesMatchMode
    BY DEF AuditInv
  <2>2. PICK n \in Nat : \E order \in [1 .. n -> DOMAIN log[e]] :
            events = BundleOf(e, order, withTx) /\ IsInjective(order)
    BY <2>1, AcceptedCollection
  <2>3. PICK order \in [1 .. n -> DOMAIN log[e]] :
            events = BundleOf(e, order, withTx) /\ IsInjective(order)
    BY <2>2
  <2>4. /\ option \in 0 .. elections[e].optionCount - 1
        /\ Counts(e, events, elections[e].optionCount)[option]
             = Cardinality(Taken(e, order, option))
    <3> DEFINE bundle == BundleOf(e, order, withTx)
               options == elections[e].optionCount
    <3>1. /\ DOMAIN Counts(e, bundle, options) = 0 .. options - 1
          /\ \A o \in 0 .. options - 1 :
                Counts(e, bundle, options)[o] = Cardinality(Taken(e, order, o))
      <4>1. IsInjective(order)
        BY <2>3
      <4> HIDE DEF options
      <4>2. QED
        BY <2>1, <4>1, CountsOfCollection
    <3>2. events = bundle
      BY <2>3
    <3> HIDE DEF bundle
    <3>3. QED
      BY <3>1, <3>2
  <2>5. /\ Cardinality(Taken(e, order, option)) <= Cardinality(VotesFor(e, option))
    BY <2>1, <2>3, TakenOfVotes
  <2>6. SumTally(e)[option] = Cardinality(VotesFor(e, option))
    BY <2>1, <2>4, SumOfEvents
  <2>7. QED
    BY <2>4, <2>5, <2>6
<1>2. QED
  BY <1>1, AuditInvHolds, PTL


\* Every event of a public election is a vote for one of its options, which the
\* result counts.
LEMMA PublicEvents ==
    ASSUME AuditInv, NEW e \in Elections, Exists(e), elections[e].mode = "R0",
           NEW i \in DOMAIN log[e]
    PROVE  /\ log[e][i].vote \in 0 .. elections[e].optionCount - 1
           /\ i \in VotesFor(e, log[e][i].vote)
           /\ SumTally(e)[log[e][i].vote] # 0
<1> DEFINE vote == log[e][i].vote
<1>1. /\ BallotInv /\ TallyMatchesEvents /\ VotesMatchMode /\ RevealsInLog
  BY DEF AuditInv
<1>2. log[e][i] \in Event /\ log[e][i].type \in {"VoteCast", "VoteCommitted", "VoteRevealed"}
  <2>1. log[e][i] \in Event
    BY <1>1, LogPositions
  <2>2. QED
    BY <2>1 DEF Event
<1>3. CommitEvents(e) = {}
  BY <1>1, OneKindOfBallot
<1>4. log[e][i].type = "VoteCast"
  <2>1. i \notin CommitEvents(e) /\ i \notin RevealEvents(e)
    BY <1>1, <1>3 DEF RevealsInLog
  <2>2. QED
    BY <1>2, <2>1 DEF CommitEvents, RevealEvents
<1>5. vote \in Nat /\ vote < elections[e].optionCount
  <2>1. vote \in Votes
    BY <1>2, <1>4 DEF Event
  <2>2. vote \in Nat
    BY <2>1 DEF Votes
  <2>3. QED
    BY <1>1, <1>4, <2>2 DEF VotesMatchMode
<1>6. vote \in 0 .. elections[e].optionCount - 1
  <2>1. elections[e].optionCount \in Nat
    BY <1>1 DEF BallotInv, IndInv, TypeOK, Exists, ElectionConfig
  <2> HIDE DEF vote
  <2>2. QED
    BY <1>5, <2>1
<1>7. i \in VotesFor(e, vote)
  BY <1>4 DEF VotesFor, CountType
<1> HIDE DEF vote
<1>8. SumTally(e)[vote] = Cardinality(VotesFor(e, vote)) /\ IsFiniteSet(VotesFor(e, vote))
  BY <1>1, <1>6, SumOfEvents
<1>9. SumTally(e)[vote] # 0
  BY <1>7, <1>8, FS_EmptySet
<1>10. QED
  BY <1>6, <1>7, <1>9 DEF vote

\* A replay that is accepted counted every vote for an option that got one.
LEMMA ReplayedCounts ==
    ASSUME NEW e \in Elections, elections[e].mode = "R0", NEW events, NEW r0Options \in Nat,
           Audit!ReplayOk(events, {}, TRUE, r0Options, SumTally(e)),
           NEW option \in DOMAIN SumTally(e), SumTally(e)[option] # 0, option \in Nat
    PROVE  /\ option \in 0 .. r0Options - 1
           /\ Counts(e, events, r0Options)[option] = SumTally(e)[option]
<1>1. option \notin Audit!TallyMismatches(events, r0Options, SumTally(e))
  BY DEF Audit!ReplayOk
<1>2. SumTally(e)[option]
        = IF option < r0Options THEN Audit!R0Counts(events, r0Options)[option] ELSE 0
  BY <1>1 DEF Audit!TallyMismatches
<1>3. option < r0Options
  BY <1>2
<1>4. QED
  BY <1>2, <1>3 DEF Counts

\* A public tally that a replay reproduces leaves no event out.
THEOREM AcceptedReplayIsComplete == Spec => []ReplayProvesComplete
<1>1. AuditInv => ReplayProvesComplete
  <2> SUFFICES ASSUME AuditInv, NEW e \in Elections, NEW withTx \in BOOLEAN,
                      NEW r0Options \in 1 .. MaxOptions, Exists(e), elections[e].mode = "R0",
                      NEW events \in Collections(e, withTx),
                      Audit!ExitCode(e, events, {}, TRUE, r0Options, SumTally(e)) = 0
               PROVE  EventsIn(events) = EventsIn(Complete(e, withTx))
    BY DEF ReplayProvesComplete
  <2>1. BallotInv /\ RevealsInLog
    BY DEF AuditInv
  <2>2. r0Options \in Nat
    OBVIOUS
  <2>3. /\ Audit!Loads(e, events)
        /\ Audit!ReplayOk(events, {}, TRUE, r0Options, SumTally(e))
        /\ Audit!VerifyOk(events, {}, TRUE)
    <3>1. /\ Audit!Loads(e, events)
          /\ Audit!ReplayOk(events, {}, TRUE, r0Options, SumTally(e))
      <4>1. ASSUME NEW loads \in BOOLEAN, NEW ok \in BOOLEAN,
                   (IF ~ loads THEN 2 ELSE IF ok THEN 0 ELSE 1) = 0
            PROVE  loads /\ ok
        BY <4>1
      <4>2. /\ Audit!Loads(e, events) \in BOOLEAN
            /\ Audit!ReplayOk(events, {}, TRUE, r0Options, SumTally(e)) \in BOOLEAN
        BY Zenon DEF Audit!Loads, Audit!ReplayOk
      <4>3. (IF ~ Audit!Loads(e, events) THEN 2
             ELSE IF Audit!ReplayOk(events, {}, TRUE, r0Options, SumTally(e)) THEN 0 ELSE 1) = 0
        BY Zenon DEF Audit!ExitCode
      <4>4. QED
        BY <4>1, <4>2, <4>3
    <3>2. Audit!VerifyOk(events, {}, TRUE)
      BY <3>1 DEF Audit!ReplayOk
    <3>3. QED
      BY <3>1, <3>2
  <2>4. PICK n \in Nat : \E order \in [1 .. n -> DOMAIN log[e]] :
            events = BundleOf(e, order, withTx) /\ IsInjective(order)
    BY <2>1, <2>3, AcceptedCollection
  <2>5. PICK order \in [1 .. n -> DOMAIN log[e]] :
            events = BundleOf(e, order, withTx) /\ IsInjective(order)
    BY <2>4
  <2>6. ASSUME NEW i \in DOMAIN log[e]
        PROVE  \E k \in 1 .. n : order[k] = i
    <3> DEFINE vote == log[e][i].vote
    <3>1. /\ vote \in 0 .. elections[e].optionCount - 1
          /\ i \in VotesFor(e, vote)
          /\ SumTally(e)[vote] # 0
      BY PublicEvents
    <3>2. vote \in DOMAIN SumTally(e) /\ vote \in Nat
      BY <3>1 DEF SumTally
    <3> HIDE DEF vote
    <3>3. /\ vote \in 0 .. r0Options - 1
          /\ Counts(e, events, r0Options)[vote] = SumTally(e)[vote]
      BY <2>2, <2>3, <3>1, <3>2, ReplayedCounts
    <3>4. Counts(e, events, r0Options)[vote] = Cardinality(Taken(e, order, vote))
      <4> DEFINE bundle == BundleOf(e, order, withTx)
      <4>1. \A option \in 0 .. r0Options - 1 :
              Counts(e, bundle, r0Options)[option] = Cardinality(Taken(e, order, option))
        <5>1. IsInjective(order)
          BY <2>5
        <5>2. QED
          BY <2>1, <5>1, CountsOfCollection
      <4>2. events = bundle
        BY <2>5
      <4> HIDE DEF bundle
      <4>3. QED
        BY <3>3, <4>1, <4>2
    <3>5. SumTally(e)[vote] = Cardinality(VotesFor(e, vote))
      BY <3>1, SumOfEvents DEF AuditInv
    <3>6. Cardinality(Taken(e, order, vote)) = Cardinality(VotesFor(e, vote))
      BY <3>3, <3>4, <3>5
    <3>7. IsInjective(order)
      BY <2>5
    <3>8. \A j \in VotesFor(e, vote) : \E k \in 1 .. n : order[k] = j
      BY <2>1, <3>6, <3>7, TakenOfVotes
    <3>9. QED
      BY <3>1, <3>8
  <2>7. EventsIn(events) = {Collected(e, i, withTx) : i \in DOMAIN log[e]}
    <3>1. EventsIn(events) = {Collected(e, order[k], withTx) : k \in 1 .. n}
      BY <2>5 DEF EventsIn, BundleOf
    <3>2. \A k \in 1 .. n : order[k] \in DOMAIN log[e]
      BY <2>5
    <3>3. QED
      BY <2>6, <3>1, <3>2
  <2>8. EventsIn(Complete(e, withTx)) = {Collected(e, i, withTx) : i \in DOMAIN log[e]}
    BY DEF EventsIn, Complete, BundleOf
  <2>9. QED
    BY <2>7, <2>8
<1>2. QED
  BY <1>1, AuditInvHolds, PTL


-----------------------------------------------------------------------------
(* The audit of everything *)

\* Every event of an election is a ballot, of a member, or the reveal of a commitment:
\* there are at most twice as many as members.
LEMMA LogIsShort ==
    ASSUME AuditInv, NEW e \in Elections, Exists(e)
    PROVE  Len(log[e]) <= 2 * Cardinality(Members(e)) /\ Cardinality(Members(e)) \in Nat
<1>1. BallotInv /\ RevealsInLog
  BY DEF AuditInv
<1>2. /\ IsFiniteSet(DOMAIN log[e]) /\ Cardinality(DOMAIN log[e]) = Len(log[e])
      /\ log[e] \in Seq(Event)
  BY <1>1, LogPositions
<1>3. IsFiniteSet(Members(e)) /\ Cardinality(Members(e)) \in Nat
  <2>1. elections[e].stateRoot \in Roots
    BY <1>1 DEF BallotInv, IndInv, TypeOK, Exists, ElectionConfig
  <2>2. Members(e) \in SUBSET Credentials
    BY <2>1, CircuitAssumption DEF Members
  <2>3. QED
    BY <2>2, CircuitAssumption, FS_Subset, FS_CardinalityType
<1>4. Cardinality(CastEvents(e)) <= Cardinality(Members(e))
  <2> DEFINE voter == [i \in CastEvents(e) |-> log[e][i].nullifier[1]]
  <2>1. ASSUME NEW i \in CastEvents(e)
        PROVE  log[e][i].nullifier[1] \in Members(e)
    BY <1>1 DEF BallotInv, LogMatchesNullifiers, NullifiersEligible, Members
  <2>2. ASSUME NEW i \in CastEvents(e), NEW j \in CastEvents(e), voter[i] = voter[j]
        PROVE  i = j
    BY <1>1, <2>2, OneVoterOneBallot
  <2>3. voter \in Injection(CastEvents(e), Members(e))
    BY <2>1, <2>2 DEF Injection, IsInjective
  <2> HIDE DEF voter
  <2>4. QED
    BY <1>3, <2>3, FS_Injection
<1>5. /\ CastEvents(e) \in SUBSET DOMAIN log[e] /\ RevealEvents(e) \in SUBSET DOMAIN log[e]
      /\ CommitEvents(e) \in SUBSET CastEvents(e)
      /\ DOMAIN log[e] = CastEvents(e) \cup RevealEvents(e)
  <2>1. \A i \in DOMAIN log[e] : log[e][i].type \in {"VoteCast", "VoteCommitted", "VoteRevealed"}
    <3>1. \A i \in DOMAIN log[e] : log[e][i] \in Event
      BY <1>2
    <3>2. QED
      BY <3>1 DEF Event
  <2>2. QED
    BY <2>1 DEF CastEvents, CommitEvents, RevealEvents
<1>6. /\ IsFiniteSet(CastEvents(e)) /\ Cardinality(CastEvents(e)) \in Nat
      /\ IsFiniteSet(RevealEvents(e)) /\ Cardinality(RevealEvents(e)) \in Nat
      /\ IsFiniteSet(CommitEvents(e)) /\ Cardinality(CommitEvents(e)) \in Nat
      /\ Cardinality(CommitEvents(e)) <= Cardinality(CastEvents(e))
  BY <1>2, <1>5, FS_Subset, FS_CardinalityType
<1>7. Cardinality(RevealEvents(e)) <= Cardinality(CommitEvents(e))
  <2> DEFINE opened == {log[e][i].commitment : i \in RevealEvents(e)}
             sealed == {log[e][i].commitment : i \in CommitEvents(e)}
  <2>1. opened \in SUBSET sealed
    BY <1>1 DEF RevealsInLog
  <2>2. Cardinality(opened) = Cardinality(RevealEvents(e))
    BY <1>1, CommitmentsOfReveals
  <2>3. Cardinality(sealed) = Cardinality(CommitEvents(e))
    BY <1>1, CommitmentsOfEvents
  <2>4. IsFiniteSet(sealed)
    <3>1. sealed \in SUBSET Committed(e)
      BY <1>1 DEF BallotInv, LogMatchesCommitments
    <3> HIDE DEF sealed
    <3>2. QED
      BY <3>1, CommitmentsFinite, FS_Subset DEF Committed
  <2> HIDE DEF opened, sealed
  <2>5. Cardinality(opened) <= Cardinality(sealed)
    BY <2>1, <2>4, FS_Subset
  <2>6. QED
    BY <2>2, <2>3, <2>5
<1>8. Cardinality(DOMAIN log[e]) <= Cardinality(CastEvents(e)) + Cardinality(RevealEvents(e))
  <2>1. Cardinality(CastEvents(e) \cup RevealEvents(e))
          = Cardinality(CastEvents(e)) + Cardinality(RevealEvents(e))
              - Cardinality(CastEvents(e) \cap RevealEvents(e))
    BY <1>6, FS_Union
  <2>2. CastEvents(e) \cap RevealEvents(e) = {}
    BY DEF CastEvents, RevealEvents
  <2>3. Cardinality(CastEvents(e) \cap RevealEvents(e)) = 0
    BY <2>2, FS_EmptySet
  <2>4. QED
    BY <1>5, <1>6, <2>1, <2>3
<1>9. QED
  BY <1>2, <1>3, <1>4, <1>6, <1>7, <1>8

\* In ledger order each event stands at its own position.
LEMMA InLedgerOrder ==
    ASSUME BallotInv, NEW e \in Elections, NEW withTx, NEW events, events = Complete(e, withTx)
    PROVE  /\ DOMAIN events = DOMAIN log[e]
           /\ \A k \in DOMAIN log[e] :
                LET ev == log[e][k]
                IN  /\ events[k].type = ev.type
                    /\ events[k].election = e
                    /\ events[k].tx = IF withTx THEN k ELSE None
                    /\ ev.type \in {"VoteCast", "VoteCommitted"} =>
                          events[k].nullifier = ev.nullifier
                    /\ ev.type \in {"VoteCommitted", "VoteRevealed"} =>
                          events[k].commitment = ev.commitment
                    /\ ev.type \in {"VoteCast", "VoteRevealed"} => events[k].vote = ev.vote
<1>1. DOMAIN events = DOMAIN log[e] /\ \A k \in DOMAIN log[e] : events[k] = Collected(e, k, withTx)
  BY DEF Complete, BundleOf
<1>2. ASSUME NEW k \in DOMAIN log[e]
      PROVE  LET ev == log[e][k]
             IN  /\ events[k].type = ev.type
                 /\ events[k].election = e
                 /\ events[k].tx = IF withTx THEN k ELSE None
                 /\ ev.type \in {"VoteCast", "VoteCommitted"} =>
                       events[k].nullifier = ev.nullifier
                 /\ ev.type \in {"VoteCommitted", "VoteRevealed"} =>
                       events[k].commitment = ev.commitment
                 /\ ev.type \in {"VoteCast", "VoteRevealed"} => events[k].vote = ev.vote
  <2> DEFINE ev == log[e][k]
  <2>1. ev.type \in {"VoteCast", "VoteCommitted", "VoteRevealed"}
    <3>1. ev \in Event
      BY LogPositions
    <3>2. QED
      BY <3>1 DEF Event
  <2>2. events[k] = Collected(e, k, withTx)
    BY <1>1
  <2>3. CASE ev.type = "VoteCast"
    BY <2>2, <2>3 DEF Collected
  <2>4. CASE ev.type = "VoteCommitted"
    BY <2>2, <2>4 DEF Collected
  <2>5. CASE ev.type = "VoteRevealed"
    BY <2>2, <2>5 DEF Collected
  <2>6. QED
    BY <2>1, <2>3, <2>4, <2>5
<1>3. QED
  BY <1>1, <1>2


\* The auditor finds nothing wrong with the contract's own log: no transaction, no
\* nullifier and no reveal in it is there twice, and every reveal follows its commit.
LEMMA NothingFound ==
    ASSUME BallotInv, RevealsInLog, NEW e \in Elections, NEW withTx
    PROVE  Audit!VerifyOk(Complete(e, withTx), {}, TRUE)
<1>1. PICK events : events = Complete(e, withTx)
  OBVIOUS
<1>2. /\ DOMAIN events = DOMAIN log[e]
      /\ \A k \in DOMAIN log[e] :
            /\ events[k].type = log[e][k].type
            /\ events[k].tx = IF withTx THEN k ELSE None
            /\ log[e][k].type \in {"VoteCast", "VoteCommitted"} =>
                  events[k].nullifier = log[e][k].nullifier
            /\ log[e][k].type \in {"VoteCommitted", "VoteRevealed"} =>
                  events[k].commitment = log[e][k].commitment
  BY <1>1, InLedgerOrder
<1>3. \A i \in DOMAIN log[e] : i \in Nat /\ i \in 1 .. Len(log[e]) /\ Len(log[e]) \in Nat
  BY LogPositions
<1>4. Audit!DuplicateTxs(events) = {}
  BY <1>2, <1>3 DEF Audit!DuplicateTxs, Audit!FreshTx
<1>5. Audit!DuplicateNullifiers(events) = {}
  <2> SUFFICES ASSUME NEW i \in DOMAIN events, NEW j \in DOMAIN events, j < i,
                      Audit!IsBallot(events[i]), Audit!IsBallot(events[j]),
                      events[j].nullifier = events[i].nullifier
               PROVE  FALSE
    BY DEF Audit!DuplicateNullifiers, Audit!FreshTx
  <2>1. i \in CastEvents(e) /\ j \in CastEvents(e)
    BY <1>2 DEF Audit!IsBallot, CastEvents
  <2>2. log[e][j].nullifier = log[e][i].nullifier
    BY <1>2 DEF Audit!IsBallot
  <2>3. i = j
    BY <2>1, <2>2 DEF BallotInv, LogMatchesNullifiers
  <2>4. QED
    BY <1>2, <1>3, <2>3
<1>6. ASSUME NEW i \in Audit!Positions(events, "VoteRevealed")
      PROVE  /\ i \in RevealEvents(e) /\ events[i].commitment = log[e][i].commitment
             /\ \E j \in CommitEvents(e) : j \in 1 .. i - 1 /\ j \in DOMAIN events
                   /\ events[j].type = "VoteCommitted"
                   /\ events[j].commitment = events[i].commitment
  <2>1. i \in RevealEvents(e) /\ events[i].commitment = log[e][i].commitment
    BY <1>2 DEF RevealEvents, Audit!Positions
  <2>2. PICK j \in CommitEvents(e) : j < i /\ log[e][j].commitment = log[e][i].commitment
    BY <2>1 DEF RevealsInLog
  <2>3. /\ j \in DOMAIN log[e] /\ log[e][j].type = "VoteCommitted"
        /\ i \in DOMAIN log[e]
    BY <2>1 DEF CommitEvents, RevealEvents
  <2>4. j \in 1 .. i - 1
    BY <1>3, <2>2, <2>3
  <2>5. QED
    BY <1>2, <2>1, <2>2, <2>3, <2>4
<1>7. Audit!DoubleReveals(events) = {}
  <2> SUFFICES ASSUME NEW i \in Audit!Positions(events, "VoteRevealed"), NEW j \in 1 .. i - 1,
                      events[j].type = "VoteRevealed",
                      events[j].commitment = events[i].commitment
               PROVE  FALSE
    BY DEF Audit!DoubleReveals
  <2>1. i \in DOMAIN log[e] /\ i \in 1 .. Len(log[e])
    BY <1>3, <1>6 DEF RevealEvents
  <2>2. j \in DOMAIN log[e] /\ j # i
    BY <2>1, LogPositions
  <2>3. j \in Audit!Positions(events, "VoteRevealed")
    BY <1>2, <2>2 DEF Audit!Positions
  <2>4. i \in RevealEvents(e) /\ j \in RevealEvents(e)
        /\ log[e][i].commitment = log[e][j].commitment
    BY <1>6, <2>3
  <2>5. i = j
    BY <2>4 DEF RevealsInLog
  <2>6. QED
    BY <2>2, <2>5
<1>8. Audit!RevealsWithoutCommit(events) = {}
  BY <1>6 DEF Audit!RevealsWithoutCommit
<1>9. Audit!RevealsMissingBucket(events) = {}
  <2>1. \A i \in Audit!Positions(events, "VoteRevealed") : Audit!CommitsOf(events, i) # {}
    BY <1>6 DEF Audit!CommitsOf, Audit!Positions
  <2>2. QED
    BY <2>1 DEF Audit!RevealsMissingBucket
<1>10. Audit!ArchiveVerified({})
  BY DEF Audit!ArchiveVerified
<1>11. Audit!VerifyOk(events, {}, TRUE)
  BY <1>4, <1>5, <1>7, <1>8, <1>9, <1>10 DEF Audit!VerifyOk
<1>12. QED
  BY <1>1, <1>11

\* The auditor's three totals of a sealed election are the counters of the contract.
LEMMA SealedTotals ==
    ASSUME BallotInv, RevealsInLog, NEW e \in Elections, NEW withTx
    PROVE  Audit!R1Totals(Complete(e, withTx)) =
             [commitCount |-> Result(e).commitCount, revealCount |-> Result(e).revealCount,
              nonRevealCount |-> Result(e).nonRevealCount]
<1>1. PICK events : events = Complete(e, withTx)
  OBVIOUS
<1>2. /\ DOMAIN events = DOMAIN log[e]
      /\ \A k \in DOMAIN log[e] :
            /\ events[k].type = log[e][k].type
            /\ log[e][k].type \in {"VoteCommitted", "VoteRevealed"} =>
                  events[k].commitment = log[e][k].commitment
  BY <1>1, InLedgerOrder
<1>3. Audit!CommitmentsIn(events, "VoteCommitted") = Committed(e)
  <2>1. /\ \A i \in CommitEvents(e) : log[e][i].commitment \in Committed(e)
        /\ \A c \in Committed(e) : \E i \in CommitEvents(e) : log[e][i].commitment = c
    BY DEF BallotInv, LogMatchesCommitments
  <2>2. /\ Audit!Positions(events, "VoteCommitted") = CommitEvents(e)
        /\ \A i \in CommitEvents(e) : events[i].commitment = log[e][i].commitment
    BY <1>2 DEF Audit!Positions, CommitEvents
  <2>3. QED
    BY <2>1, <2>2 DEF Audit!CommitmentsIn
<1>4. Audit!CommitmentsIn(events, "VoteRevealed") = Revealed(e)
  <2>1. /\ \A i \in RevealEvents(e) : log[e][i].commitment \in Revealed(e)
        /\ \A c \in Revealed(e) : \E i \in RevealEvents(e) : log[e][i].commitment = c
    BY DEF RevealsInLog
  <2>2. /\ Audit!Positions(events, "VoteRevealed") = RevealEvents(e)
        /\ \A i \in RevealEvents(e) : events[i].commitment = log[e][i].commitment
    BY <1>2 DEF Audit!Positions, RevealEvents
  <2>3. QED
    BY <2>1, <2>2 DEF Audit!CommitmentsIn
<1>5. /\ commitCount[e] = Cardinality(Committed(e))
      /\ revealCount[e] = Cardinality(Revealed(e))
  BY DEF BallotInv, IndInv, CountersMatchCommitments
<1>6. Cardinality(Committed(e) \ Revealed(e)) = commitCount[e] - revealCount[e]
  <2>1. IsFiniteSet(Committed(e))
    <3>1. Committed(e) \in SUBSET Commitments
      BY DEF Committed
    <3>2. QED
      BY <3>1, CommitmentsFinite, FS_Subset
  <2>2. Committed(e) \cap Revealed(e) = Revealed(e)
    BY DEF Revealed
  <2>3. Cardinality(Committed(e) \ Revealed(e))
          = Cardinality(Committed(e)) - Cardinality(Committed(e) \cap Revealed(e))
    BY <2>1, FS_Difference
  <2>4. QED
    BY <1>5, <2>2, <2>3
<1>7. Audit!R1Totals(events) =
        [commitCount |-> Cardinality(Committed(e)), revealCount |-> Cardinality(Revealed(e)),
         nonRevealCount |-> Cardinality(Committed(e) \ Revealed(e))]
  BY <1>3, <1>4, AuditSizes DEF Audit!R1Totals
<1>8. QED
  BY <1>1, <1>5, <1>6, <1>7 DEF Result

\* Of an election whose group leaves the log within the auditor's limit (a group has at
\* most 1024 leaves, the limit is 50000 events), the auditor accepts the log and reports
\* the contract's result and its counters.
THEOREM AuditAgrees ==
    ASSUME \A root \in Roots : 2 * Cardinality(StateTree[root]) <= Audit!MaxAuditEvents
    PROVE  Spec => []AuditConfirmsResult
<1>1. AuditInv => AuditConfirmsResult
  <2> SUFFICES ASSUME AuditInv, NEW e \in Elections, NEW withTx \in BOOLEAN, Exists(e)
               PROVE  LET events == Complete(e, withTx)
                      IN  /\ Audit!Loads(e, events) /\ Audit!VerifyOk(events, {}, TRUE)
                          /\ Counts(e, events, elections[e].optionCount) = SumTally(e)
                          /\ elections[e].mode = "R1" =>
                               /\ Audit!R1Totals(events) = [commitCount |-> Result(e).commitCount,
                                    revealCount |-> Result(e).revealCount,
                                    nonRevealCount |-> Result(e).nonRevealCount]
    BY DEF AuditConfirmsResult
  <2>1. BallotInv /\ RevealsInLog
    BY DEF AuditInv
  <2>2. Audit!Loads(e, Complete(e, withTx))
    <3>1. PICK events : events = Complete(e, withTx)
      OBVIOUS
    <3>2. /\ DOMAIN events = DOMAIN log[e]
          /\ \A i \in DOMAIN log[e] : events[i].election = e
      BY <2>1, <3>1, InLedgerOrder
    <3>3. Len(events) = Len(log[e]) /\ Len(log[e]) \in Nat
      BY <2>1, <3>2, LogPositions
    <3>4. elections[e].stateRoot \in Roots
      BY <2>1 DEF BallotInv, IndInv, TypeOK, Exists, ElectionConfig
    <3>5. Len(log[e]) <= Audit!MaxAuditEvents
      BY <3>3, <3>4, LogIsShort DEF Members, Audit!MaxAuditEvents
    <3>6. QED
      BY <3>1, <3>2, <3>3, <3>5 DEF Audit!Loads
  <2>3. Audit!VerifyOk(Complete(e, withTx), {}, TRUE)
    BY <2>1, NothingFound
  <2>4. Counts(e, Complete(e, withTx), elections[e].optionCount) = SumTally(e)
    <3> DEFINE order == [k \in DOMAIN log[e] |-> k]
    <3>1. order \in [DOMAIN log[e] -> DOMAIN log[e]] /\ IsInjective(order)
      BY DEF IsInjective
    <3>2. Complete(e, withTx) = BundleOf(e, order, withTx)
      BY DEF Complete
    <3> HIDE DEF order
    <3>3. QED
      BY <3>1, <3>2, AllEventsGiveResult
  <2>5. Audit!R1Totals(Complete(e, withTx)) =
          [commitCount |-> Result(e).commitCount, revealCount |-> Result(e).revealCount,
           nonRevealCount |-> Result(e).nonRevealCount]
    BY <2>1, SealedTotals
  <2>6. QED
    BY <2>2, <2>3, <2>4, <2>5
<1>2. QED
  BY <1>1, AuditInvHolds, PTL


-----------------------------------------------------------------------------
(* The evidence of one vote *)

\* The only event of such an election is a vote, of a nullifier it has used, and the
\* result is one for that option and nothing else.
LEMMA TheOnlyVote ==
    ASSUME AuditInv, NEW e \in Elections, OneVote(e)
    PROVE  /\ log[e][1].type = "VoteCast"
           /\ log[e][1].nullifier \in nullifiers[e]
           /\ log[e][1].vote \in 0 .. elections[e].optionCount - 1
           /\ DOMAIN SumTally(e) = 0 .. elections[e].optionCount - 1
           /\ SumTally(e) = [option \in 0 .. elections[e].optionCount - 1 |->
                                IF option = log[e][1].vote THEN 1 ELSE 0]
<1>1. /\ Exists(e) /\ elections[e].mode = "R0" /\ Len(log[e]) = 1
      /\ BallotInv /\ TallyMatchesEvents /\ VotesMatchMode /\ RevealsInLog
  BY DEF OneVote, AuditInv
<1>2. DOMAIN log[e] = {1}
  BY <1>1, LogPositions
<1>3. /\ log[e][1].vote \in 0 .. elections[e].optionCount - 1
      /\ 1 \in VotesFor(e, log[e][1].vote)
  BY <1>1, <1>2, PublicEvents
<1>4. log[e][1].type = "VoteCast"
  BY <1>1, <1>3 DEF VotesFor, CountType
<1>5. log[e][1].nullifier \in nullifiers[e]
  <2>1. 1 \in CastEvents(e)
    BY <1>2, <1>4 DEF CastEvents
  <2>2. QED
    BY <1>1, <2>1 DEF BallotInv, LogMatchesNullifiers
<1>6. ASSUME NEW option \in 0 .. elections[e].optionCount - 1
      PROVE  SumTally(e)[option] = IF option = log[e][1].vote THEN 1 ELSE 0
  <2>1. SumTally(e)[option] = Cardinality(VotesFor(e, option))
    BY <1>1, SumOfEvents
  <2>2. VotesFor(e, option) = IF option = log[e][1].vote THEN {1} ELSE {}
    BY <1>1, <1>2, <1>4 DEF VotesFor, CountType
  <2>3. Cardinality({1}) = 1
    BY FS_Singleton
  <2>4. Cardinality({}) = 0
    BY FS_EmptySet
  <2>5. QED
    BY <2>1, <2>2, <2>3, <2>4
<1>7. /\ DOMAIN SumTally(e) = 0 .. elections[e].optionCount - 1
      /\ SumTally(e) = [option \in 0 .. elections[e].optionCount - 1 |-> SumTally(e)[option]]
  BY DEF SumTally
<1>8. SumTally(e) = [option \in 0 .. elections[e].optionCount - 1 |->
                        IF option = log[e][1].vote THEN 1 ELSE 0]
  BY <1>6, <1>7
<1>9. QED
  BY <1>3, <1>4, <1>5, <1>7, <1>8

\* A replay that passes has found the observed signals to be those that the proof
\* verifies with, and one vote, the observed one, in the observed tally.
LEMMA ReplayedObservation ==
    ASSUME NEW evidence, E0!ReplayPasses(evidence)
    PROVE  /\ evidence.publicJson = evidence.observation.signals
           /\ DOMAIN evidence.observation.tally
                = 0 .. evidence.observation.signals.optionCount - 1
           /\ \A o \in DOMAIN evidence.observation.tally :
                 evidence.observation.tally[o]
                   = IF o = evidence.observation.signals.vote THEN 1 ELSE 0
<1>1. E0!SignalsMatch(evidence) /\ E0!TallyIsOneVote(evidence.observation)
  BY DEF E0!ReplayPasses
<1>2. evidence.publicJson = evidence.observation.signals
  BY <1>1 DEF E0!SignalsMatch
<1>3. QED
  BY <1>1, <1>2 DEF E0!TallyIsOneVote

\* The evidence of a vote after five entries of its observation were written anew.
Forgery(signals, reported, nullifier, vote, options, votes, counts) ==
    [E0!Evidence(signals, reported) EXCEPT
        !.observation.signals.nullifier = nullifier,
        !.observation.signals.vote = vote,
        !.observation.signals.optionCount = options,
        !.observation.votes = votes,
        !.observation.tally = counts]

\* What it says then.
LEMMA ForgedObservation ==
    ASSUME NEW signals, NEW reported, NEW nullifier, NEW vote, NEW options, NEW votes, NEW counts,
           DOMAIN signals = {"nullifier", "vote", "optionCount", "stateRoot", "associationRoot",
                             "scope"}
    PROVE  LET forged == Forgery(signals, reported, nullifier, vote, options, votes, counts)
           IN  /\ forged.publicJson = signals
               /\ forged.observation.signals.nullifier = nullifier
               /\ forged.observation.signals.vote = vote
               /\ forged.observation.signals.optionCount = options
               /\ forged.observation.tally = counts
<1> DEFINE forged == Forgery(signals, reported, nullifier, vote, options, votes, counts)
<1>1. PICK g : g = E0!Evidence(signals, reported)
  OBVIOUS
<1>2. DOMAIN g = {"files", "proofJson", "publicJson", "manifest", "observation"}
      /\ g.publicJson = signals /\ g.observation.signals = signals
      /\ {"signals", "tally", "votes"} \subseteq DOMAIN g.observation
      /\ g = [x \in DOMAIN g |-> g[x]]
  BY <1>1 DEF E0!Evidence
<1> DEFINE g1 == [g EXCEPT !.observation.signals.nullifier = nullifier]
           g2 == [g1 EXCEPT !.observation.signals.vote = vote]
           g3 == [g2 EXCEPT !.observation.signals.optionCount = options]
           g4 == [g3 EXCEPT !.observation.votes = votes]
           g5 == [g4 EXCEPT !.observation.tally = counts]
<1>3. forged = g5
  BY <1>1 DEF Forgery
<1> HIDE DEF g1, forged
<1>4. /\ DOMAIN g1 = DOMAIN g /\ DOMAIN g1.observation = DOMAIN g.observation
      /\ DOMAIN g1.observation.signals = DOMAIN signals
      /\ g1.publicJson = signals
      /\ g1.observation.signals.nullifier = nullifier
  BY <1>2 DEF g1
<1> HIDE DEF g2
<1>5. /\ DOMAIN g2 = DOMAIN g /\ DOMAIN g2.observation = DOMAIN g.observation
      /\ DOMAIN g2.observation.signals = DOMAIN signals
      /\ g2.publicJson = signals
      /\ g2.observation.signals.nullifier = nullifier
      /\ g2.observation.signals.vote = vote
  BY <1>2, <1>4 DEF g2
<1> HIDE DEF g3
<1>6. /\ DOMAIN g3 = DOMAIN g /\ DOMAIN g3.observation = DOMAIN g.observation
      /\ DOMAIN g3.observation.signals = DOMAIN signals
      /\ g3.publicJson = signals
      /\ g3.observation.signals.nullifier = nullifier
      /\ g3.observation.signals.vote = vote
      /\ g3.observation.signals.optionCount = options
  BY <1>2, <1>5 DEF g3
<1> HIDE DEF g4
<1>7. /\ DOMAIN g4 = DOMAIN g /\ DOMAIN g4.observation = DOMAIN g.observation
      /\ g4.publicJson = signals
      /\ g4.observation.signals = g3.observation.signals
  BY <1>2, <1>6 DEF g4
<1>8. /\ g5.publicJson = signals
      /\ g5.observation.signals = g4.observation.signals
      /\ g5.observation.tally = counts
  BY <1>2, <1>7
<1> HIDE DEF g5
<1>9. QED
  BY <1>3, <1>6, <1>7, <1>8 DEF forged

\* What a replay accepts is what the contract says, whatever the observation claims.
THEOREM ReplayedObservationIsTrue == Spec => []ReplayedObservationTrue
<1>1. AuditInv => ReplayedObservationTrue
  <2>1. SUFFICES ASSUME AuditInv, NEW e \in Elections, OneVote(e),
                        NEW nullifier \in Nullifiers, NEW vote \in Votes,
                        NEW options \in 1 .. MaxOptions + 1,
                        NEW counts \in [0 .. options - 1 -> 0 .. 2],
                        E0!ReplayPasses(Forgery(SignalsOf(e, log[e][1]), SumTally(e), nullifier,
                                                vote, options, [o \in {vote} |-> 1], counts))
                 PROVE  nullifier \in nullifiers[e] /\ counts = SumTally(e)
    BY DEF ReplayedObservationTrue, Forgery, EvidenceOf
  <2> DEFINE signals == SignalsOf(e, log[e][1])
             evidence == Forgery(signals, SumTally(e), nullifier, vote, options,
                                 [o \in {vote} |-> 1], counts)
  <2>2. /\ evidence.publicJson = signals
        /\ evidence.observation.signals.nullifier = nullifier
        /\ evidence.observation.signals.vote = vote
        /\ evidence.observation.signals.optionCount = options
        /\ evidence.observation.tally = counts
    <3>1. DOMAIN signals = {"nullifier", "vote", "optionCount", "stateRoot", "associationRoot",
                            "scope"}
      BY DEF SignalsOf
    <3> HIDE DEF signals
    <3>2. QED
      BY <3>1, ForgedObservation
  <2>3. /\ signals.nullifier = log[e][1].nullifier /\ signals.vote = log[e][1].vote
        /\ signals.optionCount = elections[e].optionCount
    BY DEF SignalsOf
  <2>4. E0!ReplayPasses(evidence)
    BY <2>1
  <2> HIDE DEF evidence, signals
  <2>5. /\ evidence.publicJson = evidence.observation.signals
        /\ DOMAIN counts = 0 .. options - 1
        /\ \A o \in DOMAIN counts : counts[o] = IF o = vote THEN 1 ELSE 0
    BY <2>2, <2>4, ReplayedObservation
  <2>6. /\ nullifier = log[e][1].nullifier /\ vote = log[e][1].vote
        /\ options = elections[e].optionCount
    BY <2>2, <2>3, <2>5
  <2>7. /\ log[e][1].nullifier \in nullifiers[e]
        /\ SumTally(e) = [option \in 0 .. elections[e].optionCount - 1 |->
                            IF option = log[e][1].vote THEN 1 ELSE 0]
    BY <2>1, TheOnlyVote
  <2>8. counts = [option \in 0 .. options - 1 |-> IF option = vote THEN 1 ELSE 0]
    BY <2>5
  <2>9. QED
    BY <2>6, <2>7, <2>8
<1>2. QED
  BY <1>1, AuditInvHolds, PTL


\* The signals of a ballot.
VoteSignals ==
    [nullifier : Nullifiers, vote : Votes, optionCount : OptionCounts,
     stateRoot : Roots, associationRoot : Roots, scope : Scopes]

\* The evidence of a vote, part by part.
HasParts(g, signals, reported) ==
    /\ DOMAIN g = {"files", "proofJson", "publicJson", "manifest", "observation"}
    /\ g.files.vk = "vk" /\ g.files.proof = signals /\ g.files.public = signals
    /\ g.proofJson = [key |-> "vk", of |-> signals]
    /\ g.publicJson = signals
    /\ DOMAIN g.manifest = {"shape", "signals", "vk", "proof", "public"}
    /\ g.manifest.shape = TRUE /\ g.manifest.signals = signals /\ g.manifest.vk = "vk"
    /\ g.manifest.proof = signals /\ g.manifest.public = signals
    /\ DOMAIN g.observation = {"shape", "signals", "tally", "votes", "vk", "proof",
                               "public", "flags", "duplicate", "mutated"}
    /\ g.observation.shape = TRUE /\ g.observation.signals = signals
    /\ g.observation.tally = reported
    /\ g.observation.votes = [o \in {signals.vote} |-> 1]
    /\ g.observation.vk = "vk" /\ g.observation.proof = signals
    /\ g.observation.public = signals /\ g.observation.flags = E0!Flags
    /\ g.observation.duplicate = "NullifierAlreadyUsed"
    /\ g.observation.mutated = "ProofVerificationFailed"

\* What a forged observation is made of.
LEMMA EvidenceParts ==
    ASSUME NEW signals, NEW reported
    PROVE  HasParts(E0!Evidence(signals, reported), signals, reported)
  BY DEF E0!Evidence, HasParts

\* What a replay that passes has found.
LEMMA ReplayFound ==
    ASSUME NEW evidence, E0!ReplayPasses(evidence)
    PROVE  /\ evidence.manifest.shape /\ evidence.observation.shape
           /\ evidence.observation.votes = [o \in {evidence.observation.signals.vote} |-> 1]
           /\ evidence.files.vk = evidence.manifest.vk
           /\ evidence.files.vk = evidence.observation.vk
           /\ evidence.files.proof = evidence.observation.proof
           /\ evidence.files.public = evidence.observation.public
           /\ evidence.publicJson = evidence.manifest.signals
           /\ evidence.publicJson = evidence.observation.signals
           /\ evidence.publicJson.vote # BadFr
           /\ DOMAIN evidence.observation.tally
                = 0 .. evidence.observation.signals.optionCount - 1
           /\ \A o \in DOMAIN evidence.observation.tally :
                 evidence.observation.tally[o]
                   = IF o = evidence.observation.signals.vote THEN 1 ELSE 0
           /\ evidence.observation.flags = E0!Flags
<1>1. /\ E0!ManifestValid(evidence.manifest) /\ E0!ObservationValid(evidence.observation)
      /\ E0!HashesMatch(evidence) /\ E0!SignalsMatch(evidence)
      /\ E0!TallyIsOneVote(evidence.observation) /\ E0!OutcomesRight(evidence.observation)
  BY DEF E0!ReplayPasses
<1>2. evidence.manifest.shape /\ evidence.observation.shape
  BY <1>1 DEF E0!ManifestValid, E0!ObservationValid
<1>3. evidence.observation.votes = [o \in {evidence.observation.signals.vote} |-> 1]
  BY <1>1 DEF E0!ObservationValid
<1>4. /\ evidence.files.vk = evidence.manifest.vk
      /\ evidence.files.vk = evidence.observation.vk
      /\ evidence.files.proof = evidence.observation.proof
      /\ evidence.files.public = evidence.observation.public
  BY <1>1 DEF E0!HashesMatch
<1>5. /\ evidence.publicJson = evidence.manifest.signals
      /\ evidence.publicJson = evidence.observation.signals
      /\ evidence.publicJson.vote # BadFr
  BY <1>1 DEF E0!SignalsMatch, E0!Signals
<1>6. /\ DOMAIN evidence.observation.tally = 0 .. evidence.observation.signals.optionCount - 1
      /\ \A o \in DOMAIN evidence.observation.tally :
            evidence.observation.tally[o]
              = IF o = evidence.observation.signals.vote THEN 1 ELSE 0
  BY <1>1 DEF E0!TallyIsOneVote
<1>7. evidence.observation.flags = E0!Flags
  BY <1>1 DEF E0!OutcomesRight
<1>8. QED
  BY <1>2, <1>3, <1>4, <1>5, <1>6, <1>7

\* The evidence of a vote for one of at most sixteen options passes.
LEMMA GenuinePasses ==
    ASSUME NEW signals \in VoteSignals, signals.vote < signals.optionCount,
           signals.optionCount \in 1 .. 16,
           NEW reported,
           reported = [option \in 0 .. signals.optionCount - 1 |->
                          IF option = signals.vote THEN 1 ELSE 0]
    PROVE  E0!ReplayPasses(E0!Evidence(signals, reported))
<1>1. PICK g : g = E0!Evidence(signals, reported)
  OBVIOUS
<1> HasParts(g, signals, reported)
  BY <1>1, EvidenceParts
<1>2. \A s \in E0!Signals : signals[s] # BadFr
  <2>1. /\ signals.nullifier \in Nullifiers /\ signals.vote \in Votes
        /\ signals.optionCount \in OptionCounts /\ signals.stateRoot \in Roots
        /\ signals.associationRoot \in Roots /\ signals.scope \in Scopes
    BY DEF VoteSignals
  <2>2. signals.vote \in OptionCounts
    BY <2>1, CircuitAssumption DEF Votes, OptionCounts
  <2>3. QED
    BY <2>1, <2>2, CircuitAssumption, EvidenceAssumption DEF E0!Signals
<1>3. E0!ManifestValid(g.manifest) /\ E0!ObservationValid(g.observation)
  BY <1>2 DEF HasParts, E0!ManifestValid, E0!ObservationValid
<1>4. E0!HashesMatch(g)
  BY DEF HasParts, E0!HashesMatch
<1>5. E0!SignalsMatch(g)
  <2>1. g.publicJson = signals /\ g.manifest.signals = signals /\ g.observation.signals = signals
    BY DEF HasParts
  <2>2. QED
    BY <1>2, <2>1 DEF E0!SignalsMatch
<1>6. E0!TallyIsOneVote(g.observation)
  <2>1. g.observation.signals = signals /\ g.observation.tally = reported
    BY DEF HasParts
  <2>2. QED
    BY <2>1 DEF E0!TallyIsOneVote
<1>7. E0!OutcomesRight(g.observation)
  BY DEF HasParts, E0!OutcomesRight
<1>8. E0!SnarkjsVerifies(g)
  <2>1. g.proofJson = [key |-> "vk", of |-> signals] /\ g.publicJson = signals
    BY DEF HasParts
  <2>2. QED
    BY <2>1 DEF E0!SnarkjsVerifies
<1>9. E0!ReplayPasses(g)
  BY <1>3, <1>4, <1>5, <1>6, <1>7, <1>8 DEF E0!ReplayPasses
<1>10. QED
  BY <1>1, <1>9


\* Evidence with one part corrupted is refused, the tally of one vote for the first of
\* two options included when it is not the election's own.
LEMMA CorruptedRefused ==
    ASSUME NEW signals \in VoteSignals, signals.optionCount \in 1 .. 16, NEW reported,
           reported = [option \in 0 .. signals.optionCount - 1 |->
                          IF option = signals.vote THEN 1 ELSE 0],
           reported # E0!ShortTally,
           NEW bad \in E0!SelfTestCases(E0!Evidence(signals, reported))
    PROVE  ~ E0!ReplayPasses(bad)
<1>1. PICK g : g = E0!Evidence(signals, reported)
  OBVIOUS
<1> HasParts(g, signals, reported)
  BY <1>1, EvidenceParts
<1>2. /\ signals.nullifier # None /\ signals.stateRoot # None /\ "vk" # None /\ signals # None
  <2>1. signals.nullifier \in Nullifiers /\ signals.stateRoot \in Roots
    BY DEF VoteSignals
  <2>2. signals # None
    BY EvidenceAssumption DEF VoteSignals
  <2>3. QED
    BY <2>1, <2>2, EvidenceAssumption
<1>3. DOMAIN signals = {"nullifier", "vote", "optionCount", "stateRoot", "associationRoot", "scope"}
  BY DEF VoteSignals
<1> SUFFICES ASSUME E0!ReplayPasses(bad) PROVE FALSE
  OBVIOUS
<1>4. /\ bad.manifest.shape /\ bad.observation.shape
      /\ bad.observation.votes = [o \in {bad.observation.signals.vote} |-> 1]
      /\ bad.files.vk = bad.manifest.vk
      /\ bad.files.vk = bad.observation.vk
      /\ bad.files.proof = bad.observation.proof
      /\ bad.files.public = bad.observation.public
      /\ bad.publicJson = bad.manifest.signals
      /\ bad.publicJson = bad.observation.signals
      /\ bad.publicJson.vote # BadFr
      /\ DOMAIN bad.observation.tally = 0 .. bad.observation.signals.optionCount - 1
      /\ \A o \in DOMAIN bad.observation.tally :
            bad.observation.tally[o] = IF o = bad.observation.signals.vote THEN 1 ELSE 0
      /\ bad.observation.flags = E0!Flags
  BY ReplayFound
<1>5. CASE bad = [g EXCEPT !.manifest.shape = FALSE]
  <2>1. bad.manifest.shape = FALSE
    BY <1>5 DEF HasParts
  <2>2. QED
    BY <1>4, <2>1
<1>6. CASE bad = [g EXCEPT !.observation.shape = FALSE]
  <2>1. bad.observation.shape = FALSE
    BY <1>6 DEF HasParts
  <2>2. QED
    BY <1>4, <2>1
<1>7. CASE bad = [g EXCEPT !.manifest.signals.nullifier = None]
  <2>1. bad.manifest.signals.nullifier = None /\ bad.publicJson = signals
    BY <1>3, <1>7 DEF HasParts
  <2>2. QED
    BY <1>2, <1>4, <2>1
<1>8. CASE bad = [g EXCEPT !.manifest.vk = None]
  <2>1. bad.manifest.vk = None /\ bad.files.vk = "vk"
    BY <1>8 DEF HasParts
  <2>2. QED
    BY <1>2, <1>4, <2>1
<1>9. CASE bad = [g EXCEPT !.observation.proof = None]
  <2>1. bad.observation.proof = None /\ bad.files.proof = signals
    BY <1>9 DEF HasParts
  <2>2. QED
    BY <1>2, <1>4, <2>1
<1>10. CASE bad = [g EXCEPT !.observation.vk = None]
  <2>1. bad.observation.vk = None /\ bad.files.vk = "vk"
    BY <1>10 DEF HasParts
  <2>2. QED
    BY <1>2, <1>4, <2>1
<1>11. CASE bad = [g EXCEPT !.observation.flags = @ \ {"event_matches_expected"}]
  <2>1. bad.observation.flags = E0!Flags \ {"event_matches_expected"}
    BY <1>11 DEF HasParts
  <2>2. "event_matches_expected" \in E0!Flags
    BY DEF E0!Flags
  <2>3. QED
    BY <1>4, <2>1, <2>2
<1>12. CASE bad = [g EXCEPT !.observation.signals.stateRoot = None]
  <2>1. bad.observation.signals.stateRoot = None /\ bad.publicJson = signals
    BY <1>3, <1>12 DEF HasParts
  <2>2. QED
    BY <1>2, <1>4, <2>1
<1>13. CASE bad = [g EXCEPT !.observation.public = None]
  <2>1. bad.observation.public = None /\ bad.files.public = signals
    BY <1>13 DEF HasParts
  <2>2. QED
    BY <1>2, <1>4, <2>1
<1>14. CASE bad = [g EXCEPT !.observation.tally = E0!ShortTally]
  <2>1. bad.observation.tally = E0!ShortTally /\ bad.observation.signals = signals
    BY <1>14 DEF HasParts
  <2>2. /\ DOMAIN E0!ShortTally = 0 .. signals.optionCount - 1
        /\ \A o \in 0 .. signals.optionCount - 1 :
              E0!ShortTally[o] = IF o = signals.vote THEN 1 ELSE 0
    BY <1>4, <2>1
  <2>3. E0!ShortTally = [o \in DOMAIN E0!ShortTally |-> E0!ShortTally[o]]
    BY DEF E0!ShortTally
  <2>4. E0!ShortTally = reported
    BY <2>2, <2>3
  <2>5. QED
    BY <2>4
<1>15. CASE bad = [g EXCEPT !.observation.signals.nullifier = None]
  <2>1. bad.observation.signals.nullifier = None /\ bad.publicJson = signals
    BY <1>3, <1>15 DEF HasParts
  <2>2. QED
    BY <1>2, <1>4, <2>1
<1>16. CASE bad = [g EXCEPT !.observation.votes = [o \in {} |-> 0]]
  <2>1. DOMAIN bad.observation.votes = {}
    BY <1>16 DEF HasParts
  <2>2. DOMAIN bad.observation.votes = {bad.observation.signals.vote}
    BY <1>4
  <2>3. QED
    BY <2>1, <2>2
<1>17. CASE bad = [g EXCEPT !.publicJson.vote = BadFr, !.manifest.signals.vote = BadFr]
  <2> DEFINE first == [g EXCEPT !.publicJson.vote = BadFr]
  <2>1. first.publicJson.vote = BadFr /\ "publicJson" \in DOMAIN first
    BY <1>3 DEF HasParts
  <2>2. bad = [first EXCEPT !.manifest.signals.vote = BadFr]
    BY <1>17
  <2> HIDE DEF first
  <2>3. bad.publicJson = first.publicJson
    BY <2>1, <2>2
  <2>4. QED
    BY <1>4, <2>1, <2>3
<1>18. bad \in E0!SelfTestCases(g)
  BY <1>1
<1>19. QED
  BY <1>5, <1>6, <1>7, <1>8, <1>9, <1>10, <1>11, <1>12, <1>13, <1>14, <1>15, <1>16, <1>17,
     <1>18 DEF E0!SelfTestCases

\* One of the cases writes what is there when the tally is that of one vote for the first of
\* two options.
LEMMA NotCorrupted ==
    ASSUME NEW signals
    PROVE  E0!Evidence(signals, E0!ShortTally)
             \in E0!SelfTestCases(E0!Evidence(signals, E0!ShortTally))
<1> DEFINE g == E0!Evidence(signals, E0!ShortTally)
<1>1. HasParts(g, signals, E0!ShortTally)
  BY EvidenceParts
<1>2. [g EXCEPT !.observation.tally = E0!ShortTally] = g
  <2>1. /\ g = [f \in DOMAIN g |-> g[f]]
        /\ g.observation = [f \in DOMAIN g.observation |-> g.observation[f]]
    BY DEF E0!Evidence
  <2> HIDE DEF g
  <2>2. g.observation.tally = E0!ShortTally
    BY <1>1 DEF HasParts
  <2>3. [g.observation EXCEPT !.tally = E0!ShortTally] = g.observation
    BY <2>1, <2>2
  <2>4. QED
    BY <2>1, <2>3
<1> HIDE DEF g
<1>3. QED
  BY <1>2 DEF E0!SelfTestCases, g

\* With at most sixteen options (MAX_OPTIONS is 16) the evidence of the only vote passes the
\* replay; and the self-test passes, no corruption being taken for evidence, except when that
\* vote is for the first of two options: then it fails.
THEOREM SelfTestIsHonest ==
    ASSUME MaxOptions <= 16
    PROVE  Spec => []SelfTestHonest
<1>1. AuditInv => SelfTestHonest
  <2> SUFFICES ASSUME AuditInv, NEW e \in Elections, OneVote(e)
               PROVE  /\ E0!ReplayPasses(EvidenceOf(e))
                      /\ E0!SelfTestPasses(EvidenceOf(e)) <=> SumTally(e) # E0!ShortTally
    BY DEF SelfTestHonest
  <2> DEFINE signals == SignalsOf(e, log[e][1])
  <2>1. elections[e] \in ElectionConfig /\ elections[e].optionCount \in 1 .. 16
    <3>1. elections[e] \in ElectionConfig
      BY DEF AuditInv, BallotInv, IndInv, TypeOK, OneVote, Exists
    <3>2. elections[e].optionCount \in 1 .. MaxOptions /\ MaxOptions \in Nat
      BY <3>1, CircuitAssumption DEF ElectionConfig
    <3>3. QED
      BY <3>1, <3>2
  <2>2. /\ log[e][1].type = "VoteCast"
        /\ log[e][1].vote \in 0 .. elections[e].optionCount - 1
        /\ SumTally(e) = [option \in 0 .. elections[e].optionCount - 1 |->
                             IF option = log[e][1].vote THEN 1 ELSE 0]
    BY TheOnlyVote
  <2>3. log[e][1].nullifier \in Nullifiers /\ log[e][1].vote \in Votes
    <3>1. 1 \in DOMAIN log[e] /\ log[e] \in Seq(Event)
      BY LogPositions DEF AuditInv, OneVote
    <3>2. log[e][1] \in Event
      BY <3>1
    <3>3. QED
      BY <2>2, <3>2 DEF Event
  <2>4. elections[e].optionCount \in OptionCounts
    BY <2>1, CircuitAssumption DEF ElectionConfig, OptionCounts
  <2>5. signals \in VoteSignals
    BY <2>1, <2>3, <2>4 DEF SignalsOf, VoteSignals, ElectionConfig
  <2>6. /\ signals.vote = log[e][1].vote /\ signals.optionCount = elections[e].optionCount
    BY DEF SignalsOf
  <2>7. /\ signals.vote < signals.optionCount /\ signals.optionCount \in 1 .. 16
        /\ SumTally(e) = [option \in 0 .. signals.optionCount - 1 |->
                             IF option = signals.vote THEN 1 ELSE 0]
    <3> HIDE DEF signals
    <3>1. QED
      BY <2>1, <2>2, <2>6
  <2> HIDE DEF signals
  <2>8. E0!ReplayPasses(E0!Evidence(signals, SumTally(e)))
    BY <2>5, <2>7, GenuinePasses
  <2>9. CASE SumTally(e) # E0!ShortTally
    <3>1. E0!SelfTestPasses(E0!Evidence(signals, SumTally(e)))
      BY <2>5, <2>7, <2>9, CorruptedRefused DEF E0!SelfTestPasses
    <3>2. QED
      BY <2>8, <2>9, <3>1 DEF EvidenceOf, signals
  <2>10. CASE SumTally(e) = E0!ShortTally
    <3>1. E0!Evidence(signals, SumTally(e)) \in E0!SelfTestCases(E0!Evidence(signals, SumTally(e)))
      BY <2>10, NotCorrupted
    <3>2. ~ E0!SelfTestPasses(E0!Evidence(signals, SumTally(e)))
      BY <2>8, <3>1 DEF E0!SelfTestPasses
    <3>3. QED
      BY <2>8, <2>10, <3>2 DEF EvidenceOf, signals
  <2>11. QED
    BY <2>9, <2>10
<1>2. QED
  BY <1>1, AuditInvHolds, PTL

=============================================================================
