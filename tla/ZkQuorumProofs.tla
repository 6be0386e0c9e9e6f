--------------------------- MODULE ZkQuorumProofs ---------------------------
(* Theorems about the contract, for every value of its constants: types, counters and *)
(* commitments; the voting and reveal windows; and its ballots, that what is recorded *)
(* stays, who has cast it, that it is cast once and that the events tell of it.       *)
EXTENDS ZkQuorum, FiniteSetTheorems, TLAPS

-----------------------------------------------------------------------------
(* Lemmas about the actions, stated once: what a call that is accepted knows. *)

\* An accepted public vote is for an option that has a tally counter.
LEMMA CastR0Typing ==
    ASSUME TypeOK,
           NEW e \in Elections, NEW credential \in Credentials, NEW vote \in Votes,
           NEW scope \in Scopes, NEW optionCount \in OptionCounts,
           NEW stateRoot \in Roots, NEW associationRoot \in Roots,
           CastR0Accepted(e, credential, vote, scope, optionCount, stateRoot, associationRoot)
    PROVE  /\ vote \in Options
           /\ NullifierHash(credential, scope) \in Nullifiers
           /\ BucketOf[NullifierHash(credential, scope)] \in Buckets
           /\ tally[e][vote][BucketOf[NullifierHash(credential, scope)]] \in 0 .. TallyMax - 1
<1> DEFINE nullifier == NullifierHash(credential, scope)
<1>1. vote \in Options
  BY DEF CastR0Accepted, PublicVoteR0, VoteRangeCheck
<1>2. nullifier \in Nullifiers
  BY DEF NullifierHash, Nullifiers
<1>3. BucketOf[nullifier] \in Buckets
  BY <1>2, ContractAssumption
<1>4. tally[e][vote][BucketOf[nullifier]] \in 0 .. TallyMax
  BY <1>1, <1>3 DEF TypeOK
<1>5. tally[e][vote][BucketOf[nullifier]] < TallyMax
  BY DEF CastR0Accepted, CanIncrementTally
<1>6. QED
  BY <1>1, <1>2, <1>3, <1>4, <1>5, ContractAssumption

\* An accepted commitment is well formed and its counter is not at its limit.
LEMMA CastR1Typing ==
    ASSUME TypeOK,
           NEW e \in Elections, NEW credential \in Credentials, NEW vote \in Votes,
           NEW salt \in Salts \cup {BadFr}, NEW scope \in Scopes,
           NEW optionCount \in OptionCounts,
           NEW stateRoot \in Roots, NEW associationRoot \in Roots,
           CastR1Accepted(e, credential, vote, salt, scope, optionCount, stateRoot, associationRoot)
    PROVE  /\ NullifierHash(credential, scope) \in Nullifiers
           /\ BucketOf[NullifierHash(credential, scope)] \in Buckets
           /\ BallotCommitment(vote, salt, scope) \in Commitments
           /\ pending[e][BallotCommitment(vote, salt, scope)] = None
           /\ commitCount[e] \in 0 .. CountMax - 1
<1>1. NullifierHash(credential, scope) \in Nullifiers
  BY DEF NullifierHash, Nullifiers
<1>2. BucketOf[NullifierHash(credential, scope)] \in Buckets
  BY <1>1, ContractAssumption
<1>3. salt \in Salts
  BY DEF CastR1Accepted, CommitVoteR1
<1>4. BallotCommitment(vote, salt, scope) \in Commitments
  BY <1>3 DEF BallotCommitment, Commitments
<1>5. commitCount[e] \in 0 .. CountMax - 1
  BY ContractAssumption DEF CastR1Accepted, TypeOK
<1>6. QED
  BY <1>1, <1>2, <1>4, <1>5 DEF CastR1Accepted

\* An accepted reveal opens a stored, unrevealed commitment to an option that has
\* a tally counter, and neither counter is at its limit.
LEMMA RevealTyping ==
    ASSUME TypeOK,
           NEW e \in Elections, NEW vote \in Votes, NEW salt \in Salts \cup {BadFr},
           NEW commitment \in Commitments,
           RevealAccepted(e, vote, salt, commitment)
    PROVE  /\ vote \in Options
           /\ commitment[1] = vote
           /\ pending[e][commitment] \in PendingCommitment
           /\ pending[e][commitment].bucket \in Buckets
           /\ pending[e][commitment].revealed = FALSE
           /\ tally[e][vote][pending[e][commitment].bucket] \in 0 .. TallyMax - 1
           /\ revealCount[e] \in 0 .. CountMax - 1
<1>1. elections[e] \in ElectionConfig
  BY DEF TypeOK, RevealAccepted, Exists
<1>2. elections[e].optionCount \in 1 .. MaxOptions
  BY <1>1 DEF ElectionConfig
<1>3. vote \in Options
  BY <1>2, CircuitAssumption DEF RevealAccepted, Votes, Options
<1>4. commitment[1] = vote
  BY DEF RevealAccepted, BallotCommitment
<1>5. pending[e][commitment] \in PendingCommitment
  BY DEF TypeOK, RevealAccepted
<1>6. /\ pending[e][commitment].bucket \in Buckets
      /\ pending[e][commitment].revealed = FALSE
  BY <1>5 DEF PendingCommitment, RevealAccepted
<1>7. tally[e][vote][pending[e][commitment].bucket] \in 0 .. TallyMax - 1
  BY <1>3, <1>6, ContractAssumption DEF TypeOK, RevealAccepted, CanIncrementTally
<1>8. revealCount[e] \in 0 .. CountMax - 1
  BY ContractAssumption DEF TypeOK, RevealAccepted
<1>9. QED
  BY <1>3, <1>4, <1>5, <1>6, <1>7, <1>8

-----------------------------------------------------------------------------
(* Type correctness. *)

\* The constructor leaves a well-typed contract.
LEMMA InitTyping == Init => TypeOK
<1> SUFFICES ASSUME Init PROVE TypeOK
  OBVIOUS
<1>1. now \in Times
  BY ContractAssumption DEF Init, Times
<1>2. tally \in [Elections -> [Options -> [Buckets -> 0 .. TallyMax]]]
  BY ContractAssumption DEF Init
<1>3. /\ commitCount \in [Elections -> 0 .. CountMax]
      /\ revealCount \in [Elections -> 0 .. CountMax]
  BY ContractAssumption DEF Init
<1>4. log \in [Elections -> Seq(Event)]
  <2>1. << >> \in Seq(Event)
    OBVIOUS
  <2>2. QED
    BY <2>1 DEF Init
<1>5. QED
  BY <1>1, <1>2, <1>3, <1>4 DEF Init, TypeOK

\* Every call and every ledger close keeps the contract well typed.
LEMMA NextTyping == TypeOK /\ [Next]_vars => TypeOK'
<1> SUFFICES ASSUME TypeOK, [Next]_vars PROVE TypeOK'
  OBVIOUS
<1>1. CASE Tick
  BY <1>1, ContractAssumption DEF Tick, TypeOK, Times
<1>2. ASSUME NEW caller \in Callers, NEW e \in Elections, OpenElection(caller, e)
      PROVE  TypeOK'
  <2>1. elections'[e] \in ElectionConfig /\ elections' = [elections EXCEPT ![e] = elections'[e]]
    <3>1. PICK scope \in {ScopeOf[e], BadFr}, mode \in Modes,
               stateRoot, associationRoot \in Roots \cup {BadFr},
               optionCount \in OptionCounts,
               opensAt, closesAt, revealClosesAt \in Times :
            /\ ValidOptionCount(optionCount)
            /\ opensAt < closesAt
            /\ mode = "R1" => closesAt < revealClosesAt
            /\ now < closesAt
            /\ BadFr \notin {scope, stateRoot, associationRoot}
            /\ elections' = [elections EXCEPT ![e] =
                  [scope |-> scope, mode |-> mode, stateRoot |-> stateRoot,
                   associationRoot |-> associationRoot, optionCount |-> optionCount,
                   opensAt |-> opensAt, closesAt |-> closesAt,
                   revealClosesAt |-> revealClosesAt]]
      BY <1>2, Zenon DEF OpenElection
    <3>2. scope \in Scopes /\ stateRoot \in Roots /\ associationRoot \in Roots
      BY <3>1, ContractAssumption
    <3>3. QED
      BY <3>1, <3>2 DEF ElectionConfig, TypeOK, ValidOptionCount
  <2>2. elections' \in [Elections -> ElectionConfig \cup {None}]
    BY <2>1 DEF TypeOK
  <2>3. QED
    BY <2>2, <1>2 DEF OpenElection, TypeOK
<1>3. ASSUME NEW e \in Elections, NEW credential \in Credentials, NEW vote \in Votes,
             NEW scope \in Scopes, NEW optionCount \in OptionCounts,
             NEW stateRoot \in Roots, NEW associationRoot \in Roots,
             CastR0(e, credential, vote, scope, optionCount, stateRoot, associationRoot)
      PROVE  TypeOK'
  <2> DEFINE nullifier == NullifierHash(credential, scope)
             bucket == BucketOf[nullifier]
             event == [type |-> "VoteCast", nullifier |-> nullifier,
                       vote |-> vote, bucket |-> bucket]
  <2>1. /\ vote \in Options
        /\ nullifier \in Nullifiers
        /\ bucket \in Buckets
        /\ tally[e][vote][bucket] \in 0 .. TallyMax - 1
    BY <1>3, CastR0Typing DEF CastR0
  <2>2. nullifiers' \in [Elections -> SUBSET Nullifiers]
    BY <1>3, <2>1 DEF CastR0, TypeOK
  <2>3. tally' \in [Elections -> [Options -> [Buckets -> 0 .. TallyMax]]]
    BY <1>3, <2>1, ContractAssumption DEF CastR0, IncrementTally, TypeOK
  <2>4. event \in Event
    BY <2>1 DEF Event
  <2>5. log' \in [Elections -> Seq(Event)]
    BY <1>3, <2>4 DEF CastR0, TypeOK
  <2>6. QED
    BY <1>3, <2>2, <2>3, <2>5 DEF CastR0, TypeOK
<1>4. ASSUME NEW e \in Elections, NEW credential \in Credentials, NEW vote \in Votes,
             NEW salt \in Salts \cup {BadFr}, NEW scope \in Scopes,
             NEW optionCount \in OptionCounts,
             NEW stateRoot \in Roots, NEW associationRoot \in Roots,
             CastR1(e, credential, vote, salt, scope, optionCount, stateRoot, associationRoot)
      PROVE  TypeOK'
  <2> DEFINE nullifier == NullifierHash(credential, scope)
             commitment == BallotCommitment(vote, salt, scope)
             bucket == BucketOf[nullifier]
             event == [type |-> "VoteCommitted", nullifier |-> nullifier,
                       commitment |-> commitment, bucket |-> bucket]
  <2>1. /\ nullifier \in Nullifiers
        /\ bucket \in Buckets
        /\ commitment \in Commitments
        /\ commitCount[e] \in 0 .. CountMax - 1
    BY <1>4, CastR1Typing DEF CastR1
  <2>2. nullifiers' \in [Elections -> SUBSET Nullifiers]
    BY <1>4, <2>1 DEF CastR1, TypeOK
  <2>3. pending' \in [Elections -> [Commitments -> PendingCommitment \cup {None}]]
    BY <1>4, <2>1 DEF CastR1, TypeOK, PendingCommitment
  <2>4. commitCount' \in [Elections -> 0 .. CountMax]
    BY <1>4, <2>1, ContractAssumption DEF CastR1, TypeOK
  <2>5. event \in Event
    BY <2>1 DEF Event
  <2>6. log' \in [Elections -> Seq(Event)]
    BY <1>4, <2>5 DEF CastR1, TypeOK
  <2>7. QED
    BY <1>4, <2>2, <2>3, <2>4, <2>6 DEF CastR1, TypeOK
<1>5. ASSUME NEW e \in Elections, NEW vote \in Votes, NEW salt \in Salts \cup {BadFr},
             NEW commitment \in Commitments,
             Reveal(e, vote, salt, commitment)
      PROVE  TypeOK'
  <2> DEFINE bucket == pending[e][commitment].bucket
             event == [type |-> "VoteRevealed", commitment |-> commitment, vote |-> vote]
  <2>1. /\ vote \in Options
        /\ pending[e][commitment] \in PendingCommitment
        /\ bucket \in Buckets
        /\ tally[e][vote][bucket] \in 0 .. TallyMax - 1
        /\ revealCount[e] \in 0 .. CountMax - 1
    BY <1>5, RevealTyping DEF Reveal
  <2>2. pending' \in [Elections -> [Commitments -> PendingCommitment \cup {None}]]
    <3>1. [pending[e][commitment] EXCEPT !.revealed = TRUE] \in PendingCommitment
      BY <2>1 DEF PendingCommitment
    <3>2. QED
      BY <1>5, <3>1 DEF Reveal, TypeOK
  <2>3. tally' \in [Elections -> [Options -> [Buckets -> 0 .. TallyMax]]]
    BY <1>5, <2>1, ContractAssumption DEF Reveal, IncrementTally, TypeOK
  <2>4. revealCount' \in [Elections -> 0 .. CountMax]
    BY <1>5, <2>1, ContractAssumption DEF Reveal, TypeOK
  <2>5. event \in Event
    BY <2>1 DEF Event
  <2>6. log' \in [Elections -> Seq(Event)]
    BY <1>5, <2>5 DEF Reveal, TypeOK
  <2>7. QED
    BY <1>5, <2>2, <2>3, <2>4, <2>6 DEF Reveal, TypeOK
<1>6. CASE UNCHANGED vars
  BY <1>6 DEF vars, TypeOK
<1>7. QED
  BY <1>1, <1>2, <1>3, <1>4, <1>5, <1>6 DEF Next

\* Every reachable state of the contract is well typed: in particular no counter
\* and no tally bucket ever exceeds its width, and every event is well formed.
THEOREM TypeCorrect == Spec => []TypeOK
BY InitTyping, NextTyping, PTL DEF Spec

-----------------------------------------------------------------------------
(* Commitments, counters and tally. *)

\* There are finitely many commitments.
LEMMA CommitmentsFinite == IsFiniteSet(Commitments)
<1> DEFINE Pairs == (Votes \X Salts) \X Scopes
           split == [c \in Commitments |-> <<<<c[1], c[2]>>, c[3]>>]
<1>1. IsFiniteSet(Votes)
  BY FS_Interval, CircuitAssumption DEF Votes
<1>2. IsFiniteSet(Pairs)
  BY <1>1, FS_Product, CircuitAssumption
<1>3. split \in Injection(Commitments, Pairs)
  <2>1. split \in [Commitments -> Pairs]
    BY DEF Commitments
  <2>2. \A c, d \in Commitments : split[c] = split[d] => c = d
    BY DEF Commitments
  <2>3. QED
    BY <2>1, <2>2 DEF Injection, IsInjective
<1>4. QED
  BY <1>2, <1>3, FS_Injection

\* The sets that are counted are finite, so their cardinalities are numbers and
\* a proper subset is strictly smaller.
LEMMA CountedSetsFinite ==
    ASSUME NEW e \in Elections
    PROVE  /\ IsFiniteSet(Committed(e))
           /\ IsFiniteSet(Revealed(e))
           /\ Revealed(e) \subseteq Committed(e)
           /\ \A option, bucket : /\ IsFiniteSet(RevealedFor(e, option, bucket))
                                 /\ RevealedFor(e, option, bucket) \subseteq Revealed(e)
<1>1. Committed(e) \subseteq Commitments /\ Revealed(e) \subseteq Committed(e)
  BY DEF Committed, Revealed
<1>2. \A option, bucket : RevealedFor(e, option, bucket) \subseteq Revealed(e)
  BY DEF RevealedFor
<1>3. IsFiniteSet(Committed(e))
  BY <1>1, CommitmentsFinite, FS_Subset
<1>4. IsFiniteSet(Revealed(e))
  BY <1>1, <1>3, FS_Subset
<1>5. \A option, bucket : IsFiniteSet(RevealedFor(e, option, bucket))
  BY <1>2, <1>4, FS_Subset
<1>6. QED
  BY <1>1, <1>2, <1>3, <1>4, <1>5

-----------------------------------------------------------------------------
(* The steps of IndInv, one lemma for each action that adds a ballot. *)

\* A committed ballot adds one commitment, unrevealed, and one to the counter.
LEMMA CastR1Step ==
    ASSUME IndInv, TypeOK',
           NEW e \in Elections, NEW credential \in Credentials, NEW vote \in Votes,
           NEW salt \in Salts \cup {BadFr}, NEW scope \in Scopes,
           NEW optionCount \in OptionCounts,
           NEW stateRoot \in Roots, NEW associationRoot \in Roots,
           CastR1(e, credential, vote, salt, scope, optionCount, stateRoot, associationRoot)
    PROVE  IndInv'
<1> DEFINE nullifier == NullifierHash(credential, scope)
           commitment == BallotCommitment(vote, salt, scope)
           entry == [bucket |-> BucketOf[nullifier], revealed |-> FALSE]
<1>1. /\ commitment \in Commitments
      /\ pending[e][commitment] = None
      /\ commitCount[e] \in 0 .. CountMax - 1
  BY CastR1Typing DEF CastR1, IndInv
<1>2. entry # None
  <2>1. BucketOf[nullifier] \in Buckets
    BY CastR1Typing DEF CastR1, IndInv
  <2>2. entry \in PendingCommitment
    BY <2>1 DEF PendingCommitment
  <2>3. QED
    BY <2>2, ContractAssumption
<1>3. /\ pending' = [pending EXCEPT ![e][commitment] = entry]
      /\ commitCount' = [commitCount EXCEPT ![e] = @ + 1]
      /\ UNCHANGED <<now, elections, tally, revealCount>>
  BY DEF CastR1
<1>4. ASSUME NEW f \in Elections
      PROVE  /\ pending'[f] = IF f = e THEN [pending[e] EXCEPT ![commitment] = entry]
                              ELSE pending[f]
             /\ \A c \in Commitments : pending'[f][c] =
                    IF f = e /\ c = commitment THEN entry ELSE pending[f][c]
  BY <1>1, <1>3 DEF IndInv, TypeOK
<1>5. ASSUME NEW f \in Elections
      PROVE  /\ Committed(f)' = IF f = e THEN Committed(e) \cup {commitment} ELSE Committed(f)
             /\ Revealed(f)' = Revealed(f)
             /\ \A option, bucket : RevealedFor(f, option, bucket)' = RevealedFor(f, option, bucket)
  <2>1. Committed(f)' = IF f = e THEN Committed(e) \cup {commitment} ELSE Committed(f)
    BY <1>1, <1>2, <1>4 DEF Committed
  <2>2. entry.revealed = FALSE
    OBVIOUS
  <2>3. commitment \notin Committed(e)
    BY <1>1 DEF Committed
  <2>4. Revealed(f) \subseteq Commitments /\ Committed(f) \subseteq Commitments
    BY DEF Committed, Revealed
  <2>5. Revealed(f)' = Revealed(f)
    BY <1>1, <1>4, <2>1, <2>2, <2>3, <2>4 DEF Revealed
  <2>6. ASSUME NEW option, NEW bucket
        PROVE  RevealedFor(f, option, bucket)' = RevealedFor(f, option, bucket)
    <3>1. \A c \in Revealed(f) : pending'[f][c] = pending[f][c]
      BY <1>4, <2>3, <2>4 DEF Revealed
    <3>2. QED
      BY <2>5, <3>1 DEF RevealedFor
  <2>7. QED
    BY <2>1, <2>5, <2>6
<1>6. CountersMatchCommitments'
  <2> SUFFICES ASSUME NEW f \in Elections
               PROVE  /\ commitCount'[f] = Cardinality(Committed(f)')
                      /\ revealCount'[f] = Cardinality(Revealed(f)')
    BY DEF CountersMatchCommitments
  <2>1. commitment \notin Committed(e)
    BY <1>1 DEF Committed
  <2>2. Cardinality(Committed(e) \cup {commitment}) = Cardinality(Committed(e)) + 1
    BY <2>1, CountedSetsFinite, FS_AddElement
  <2>3. commitCount'[f] = IF f = e THEN commitCount[e] + 1 ELSE commitCount[f]
    BY <1>3 DEF IndInv, TypeOK
  <2>4. QED
    BY <1>3, <1>5, <2>2, <2>3 DEF IndInv, CountersMatchCommitments
<1>7. SealedBallotsSound'
  <2> SUFFICES ASSUME NEW f \in Elections, NEW c \in Committed(f)'
               PROVE  /\ Exists(f)'
                      /\ elections'[f].mode = "R1"
                      /\ c[1] < elections'[f].optionCount
                      /\ c[3] = elections'[f].scope
    BY DEF SealedBallotsSound
  <2>1. CASE c \in Committed(f)
    BY <2>1, <1>3 DEF IndInv, SealedBallotsSound, Exists
  <2>2. CASE c \notin Committed(f)
    <3>1. f = e /\ c = commitment
      BY <2>2, <1>5
    <3>2. /\ Exists(e)
          /\ elections[e].mode = "R1"
          /\ optionCount = elections[e].optionCount
          /\ scope = elections[e].scope
      BY DEF CastR1, CastR1Accepted, CastAccepted
    <3>3. vote < optionCount
      BY CircuitAssumption
         DEF CastR1, CastR1Accepted, CommitVoteR1, VoteRangeCheck, Options, OptionCounts
    <3>4. commitment[1] = vote /\ commitment[3] = scope
      BY DEF BallotCommitment
    <3>5. QED
      BY <3>1, <3>2, <3>3, <3>4, <1>3 DEF Exists
  <2>3. QED
    BY <2>1, <2>2
<1>8. SealedTallyExact'
  BY <1>3, <1>5 DEF IndInv, SealedTallyExact, Exists
<1>9. QED
  BY <1>6, <1>7, <1>8 DEF IndInv

\* A revealed ballot moves one commitment to the revealed ones, and adds one to
\* the counter and to the bucket stored with it.
LEMMA RevealStep ==
    ASSUME IndInv, TypeOK',
           NEW e \in Elections, NEW vote \in Votes, NEW salt \in Salts \cup {BadFr},
           NEW commitment \in Commitments,
           Reveal(e, vote, salt, commitment)
    PROVE  IndInv'
<1> DEFINE entry == pending[e][commitment]
           opened == [entry EXCEPT !.revealed = TRUE]
<1>1. /\ vote \in Options
      /\ commitment[1] = vote
      /\ entry \in PendingCommitment
      /\ entry.bucket \in Buckets
      /\ entry.revealed = FALSE
      /\ tally[e][vote][entry.bucket] \in 0 .. TallyMax - 1
      /\ revealCount[e] \in 0 .. CountMax - 1
  BY RevealTyping DEF Reveal, IndInv
<1>2. /\ entry # None /\ opened # None
      /\ opened.bucket = entry.bucket
      /\ opened.revealed = TRUE
  <2>1. opened \in PendingCommitment /\ opened.bucket = entry.bucket /\ opened.revealed = TRUE
    BY <1>1 DEF PendingCommitment
  <2>2. QED
    BY <1>1, <2>1, ContractAssumption
<1>3. /\ pending' = [pending EXCEPT ![e][commitment] = opened]
      /\ tally' = [tally EXCEPT ![e][vote][entry.bucket] = @ + 1]
      /\ revealCount' = [revealCount EXCEPT ![e] = @ + 1]
      /\ UNCHANGED <<now, elections, nullifiers, commitCount>>
  BY DEF Reveal, IncrementTally
<1>4. ASSUME NEW f \in Elections, NEW c \in Commitments
      PROVE  pending'[f][c] = IF f = e /\ c = commitment THEN opened ELSE pending[f][c]
  BY <1>3 DEF IndInv, TypeOK
<1>5. commitment \in Committed(e) /\ commitment \notin Revealed(e)
  BY <1>1, <1>2 DEF Committed, Revealed
<1>6. ASSUME NEW f \in Elections
      PROVE  /\ Committed(f)' = Committed(f)
             /\ Revealed(f)' = IF f = e THEN Revealed(e) \cup {commitment} ELSE Revealed(f)
  <2>1. Committed(f)' = Committed(f)
    BY <1>2, <1>4, <1>5 DEF Committed
  <2>2. Committed(f) \subseteq Commitments
    BY DEF Committed
  <2>3. Revealed(f)' = IF f = e THEN Revealed(e) \cup {commitment} ELSE Revealed(f)
    <3> HIDE DEF opened
    <3>1. Revealed(f)' = {c \in Committed(f) : pending'[f][c].revealed}
      BY <2>1 DEF Revealed
    <3>2. \A c \in Committed(f) :
            pending'[f][c].revealed <=> (f = e /\ c = commitment) \/ pending[f][c].revealed
      BY <1>2, <1>4, <2>2
    <3>3. f = e => commitment \in Committed(f)
      BY <1>5
    <3>4. QED
      BY <3>1, <3>2, <3>3 DEF Revealed
  <2>4. QED
    BY <2>1, <2>3
<1>7. ASSUME NEW f \in Elections, NEW option, NEW bucket
      PROVE  RevealedFor(f, option, bucket)' =
                IF f = e /\ option = vote /\ bucket = entry.bucket
                THEN RevealedFor(e, vote, entry.bucket) \cup {commitment}
                ELSE RevealedFor(f, option, bucket)
  <2>1. Revealed(f) \subseteq Commitments
    BY DEF Revealed, Committed
  <2>2. \A c \in Revealed(f) : pending'[f][c] = pending[f][c]
    BY <1>4, <1>5, <2>1
  <2>3. f = e => pending'[f][commitment].bucket = entry.bucket
    BY <1>2, <1>4
  <2>4. CASE f # e
    BY <2>2, <2>4, <1>6 DEF RevealedFor
  <2>5. CASE f = e /\ option = vote /\ bucket = entry.bucket
    BY <2>2, <2>3, <2>5, <1>1, <1>6 DEF RevealedFor
  <2>6. CASE f = e /\ ~ (option = vote /\ bucket = entry.bucket)
    <3>1. ~ (commitment[1] = option /\ pending'[f][commitment].bucket = bucket)
      BY <2>3, <2>6, <1>1
    <3>2. Revealed(f)' = Revealed(f) \cup {commitment}
      BY <2>6, <1>6
    <3>3. RevealedFor(f, option, bucket)' =
            {c \in Revealed(f)' : c[1] = option /\ pending'[f][c].bucket = bucket}
      BY DEF RevealedFor
    <3>4. RevealedFor(f, option, bucket)' =
            {c \in Revealed(f) : c[1] = option /\ pending'[f][c].bucket = bucket}
      BY <3>1, <3>2, <3>3
    <3>5. QED
      BY <2>2, <2>6, <3>4 DEF RevealedFor
  <2>7. QED
    BY <2>4, <2>5, <2>6
<1>8. CountersMatchCommitments'
  <2> SUFFICES ASSUME NEW f \in Elections
               PROVE  /\ commitCount'[f] = Cardinality(Committed(f)')
                      /\ revealCount'[f] = Cardinality(Revealed(f)')
    BY DEF CountersMatchCommitments
  <2>1. Cardinality(Revealed(e) \cup {commitment}) = Cardinality(Revealed(e)) + 1
    BY <1>5, CountedSetsFinite, FS_AddElement
  <2>2. revealCount'[f] = IF f = e THEN revealCount[e] + 1 ELSE revealCount[f]
    BY <1>3 DEF IndInv, TypeOK
  <2>3. QED
    BY <1>3, <1>6, <2>1, <2>2 DEF IndInv, CountersMatchCommitments
<1>9. SealedBallotsSound'
  BY <1>3, <1>6 DEF IndInv, SealedBallotsSound, Exists
<1>10. SealedTallyExact'
  <2> SUFFICES ASSUME NEW f \in Elections, NEW option \in Options, NEW bucket \in Buckets,
                      Exists(f)' => elections'[f].mode = "R1"
               PROVE  tally'[f][option][bucket] = Cardinality(RevealedFor(f, option, bucket)')
    BY DEF SealedTallyExact
  <2>1. tally[f][option][bucket] = Cardinality(RevealedFor(f, option, bucket))
    BY <1>3 DEF IndInv, SealedTallyExact, Exists
  <2>2. tally'[f][option][bucket] =
            IF f = e /\ option = vote /\ bucket = entry.bucket
            THEN tally[f][option][bucket] + 1 ELSE tally[f][option][bucket]
    <3>1. tally \in [Elections -> [Options -> [Buckets -> 0 .. TallyMax]]]
      BY DEF IndInv, TypeOK
    <3>2. CASE f = e
      <4>1. tally'[e] = [tally[e] EXCEPT ![vote][entry.bucket] = @ + 1]
        BY <1>3, <3>1
      <4>2. tally'[e][option] = IF option = vote
                                THEN [tally[e][vote] EXCEPT ![entry.bucket] = @ + 1]
                                ELSE tally[e][option]
        BY <1>1, <3>1, <4>1
      <4>3. QED
        BY <1>1, <3>1, <3>2, <4>2
    <3>3. CASE f # e
      BY <1>3, <3>1, <3>3
    <3>4. QED
      BY <3>2, <3>3
  <2>3. commitment \notin RevealedFor(e, vote, entry.bucket)
    BY <1>5 DEF RevealedFor
  <2>4. Cardinality(RevealedFor(e, vote, entry.bucket) \cup {commitment}) =
            Cardinality(RevealedFor(e, vote, entry.bucket)) + 1
    BY <2>3, CountedSetsFinite, FS_AddElement
  <2>5. QED
    BY <1>7, <2>1, <2>2, <2>4
<1>11. QED
  BY <1>8, <1>9, <1>10 DEF IndInv

\* A step that leaves the commitments, their counters and the configurations alone
\* and touches no tally of a commit-reveal or unopened election preserves IndInv.
LEMMA UnrelatedStep ==
    ASSUME IndInv, TypeOK',
           UNCHANGED <<elections, pending, commitCount, revealCount>>,
           \A f \in Elections : (Exists(f) => elections[f].mode = "R1") => tally'[f] = tally[f]
    PROVE  IndInv'
<1>1. ASSUME NEW f \in Elections
      PROVE  /\ Committed(f)' = Committed(f)
             /\ Revealed(f)' = Revealed(f)
             /\ \A option, bucket : RevealedFor(f, option, bucket)' = RevealedFor(f, option, bucket)
  BY DEF Committed, Revealed, RevealedFor
<1>2. CountersMatchCommitments'
  BY <1>1 DEF IndInv, CountersMatchCommitments
<1>3. SealedBallotsSound'
  BY <1>1 DEF IndInv, SealedBallotsSound, Exists
<1>4. SealedTallyExact'
  BY <1>1 DEF IndInv, SealedTallyExact, Exists
<1>5. QED
  BY <1>2, <1>3, <1>4 DEF IndInv

\* Opening an election changes only its configuration; before it there was no
\* commitment for it, so none can be out of its range.
LEMMA OpenElectionStep ==
    ASSUME IndInv, TypeOK', NEW caller \in Callers, NEW e \in Elections,
           OpenElection(caller, e)
    PROVE  IndInv'
<1>1. /\ ~ Exists(e)
      /\ UNCHANGED <<now, vkBound, nullifiers, tally, pending, commitCount, revealCount, log>>
  BY DEF OpenElection
<1>2. \A f \in Elections : f # e => elections'[f] = elections[f]
  BY DEF OpenElection, IndInv, TypeOK
<1>3. Committed(e) = {}
  BY <1>1 DEF IndInv, SealedBallotsSound
<1>4. ASSUME NEW f \in Elections
      PROVE  /\ Committed(f)' = Committed(f)
             /\ Revealed(f)' = Revealed(f)
             /\ \A option, bucket : RevealedFor(f, option, bucket)' = RevealedFor(f, option, bucket)
  BY <1>1 DEF Committed, Revealed, RevealedFor
<1>5. CountersMatchCommitments'
  BY <1>1, <1>4 DEF IndInv, CountersMatchCommitments
<1>6. SealedBallotsSound'
  BY <1>2, <1>3, <1>4 DEF IndInv, SealedBallotsSound, Exists
<1>7. SealedTallyExact'
  <2> SUFFICES ASSUME NEW f \in Elections, NEW option \in Options, NEW bucket \in Buckets,
                      Exists(f)' => elections'[f].mode = "R1"
               PROVE  tally'[f][option][bucket] = Cardinality(RevealedFor(f, option, bucket)')
    BY DEF SealedTallyExact
  <2>1. Exists(f) => elections[f].mode = "R1"
    BY <1>1, <1>2 DEF Exists
  <2>2. QED
    BY <2>1, <1>1, <1>4 DEF IndInv, SealedTallyExact
<1>8. QED
  BY <1>5, <1>6, <1>7 DEF IndInv

\* The constructor leaves no ballot to count.
LEMMA InitIndInv == Init => IndInv
<1> SUFFICES ASSUME Init PROVE IndInv
  OBVIOUS
<1>1. TypeOK
  BY InitTyping
<1>2. \A e \in Elections : Committed(e) = {} /\ Revealed(e) = {}
  BY DEF Init, Committed, Revealed
<1>3. \A e \in Elections : \A option, bucket : RevealedFor(e, option, bucket) = {}
  BY <1>2 DEF RevealedFor
<1>4. CountersMatchCommitments
  BY <1>2, FS_EmptySet DEF Init, CountersMatchCommitments
<1>5. SealedBallotsSound
  BY <1>2 DEF SealedBallotsSound
<1>6. SealedTallyExact
  BY <1>3, FS_EmptySet DEF Init, SealedTallyExact
<1>7. QED
  BY <1>1, <1>4, <1>5, <1>6 DEF IndInv

\* The counters, the sealed ballots and their tally stay exact in every reachable state.
THEOREM IndInvHolds == Spec => []IndInv
<1>1. Init => IndInv
  BY InitIndInv
<1>2. IndInv /\ [Next]_vars => IndInv'
  <2> SUFFICES ASSUME IndInv, [Next]_vars PROVE IndInv'
    OBVIOUS
  <2>1. TypeOK'
    BY NextTyping DEF IndInv
  <2>2. CASE Tick
    BY <2>1, <2>2, UnrelatedStep DEF Tick
  <2>3. ASSUME NEW caller \in Callers, NEW e \in Elections, OpenElection(caller, e)
        PROVE  IndInv'
    BY <2>1, <2>3, OpenElectionStep
  <2>4. ASSUME NEW e \in Elections, NEW credential \in Credentials, NEW vote \in Votes,
               NEW scope \in Scopes, NEW optionCount \in OptionCounts,
               NEW stateRoot \in Roots, NEW associationRoot \in Roots,
               CastR0(e, credential, vote, scope, optionCount, stateRoot, associationRoot)
        PROVE  IndInv'
    <3>1. Exists(e) /\ elections[e].mode = "R0"
      BY <2>4 DEF CastR0, CastR0Accepted, CastAccepted
    <3>2. \A f \in Elections : (Exists(f) => elections[f].mode = "R1") => tally'[f] = tally[f]
      BY <2>4, <3>1 DEF CastR0, IncrementTally, IndInv, TypeOK
    <3>3. UNCHANGED <<elections, pending, commitCount, revealCount>>
      BY <2>4 DEF CastR0
    <3>4. QED
      BY <2>1, <3>2, <3>3, UnrelatedStep
  <2>5. ASSUME NEW e \in Elections, NEW credential \in Credentials, NEW vote \in Votes,
               NEW salt \in Salts \cup {BadFr}, NEW scope \in Scopes,
               NEW optionCount \in OptionCounts,
               NEW stateRoot \in Roots, NEW associationRoot \in Roots,
               CastR1(e, credential, vote, salt, scope, optionCount, stateRoot, associationRoot)
        PROVE  IndInv'
    BY <2>1, <2>5, CastR1Step
  <2>6. ASSUME NEW e \in Elections, NEW vote \in Votes, NEW salt \in Salts \cup {BadFr},
               NEW commitment \in Commitments,
               Reveal(e, vote, salt, commitment)
        PROVE  IndInv'
    BY <2>1, <2>6, RevealStep
  <2>7. CASE UNCHANGED vars
    BY <2>1, <2>7, UnrelatedStep DEF vars
  <2>8. QED
    BY <2>2, <2>3, <2>4, <2>5, <2>6, <2>7 DEF Next
<1>3. QED
  BY <1>1, <1>2, PTL DEF Spec

\* result() and audit_summary() never return CounterInvariant: their counters are
\* the commitments stored and the commitments revealed, for any number of
\* voters, elections and calls in any order.
THEOREM CountersExact == Spec => []CountersMatchCommitments
<1>1. IndInv => CountersMatchCommitments
  BY DEF IndInv
<1>2. QED
  BY <1>1, IndInvHolds, PTL

\* Whatever happens after a ballot is committed, reveal() accepts its opening during
\* the whole reveal window: neither counter can be full, because the ballot
\* itself is counted as committed and not yet as revealed.
THEOREM CommittedBallotsRevealable == Spec => []CommittedCanBeRevealed
<1>1. IndInv => CommittedCanBeRevealed
  <2> SUFFICES ASSUME IndInv, NEW e \in Elections, Exists(e), elections[e].mode = "R1",
                      Status(e) = "RevealOpen", NEW c \in Committed(e) \ Revealed(e)
               PROVE  RevealAccepted(e, c[1], c[2], c)
    BY DEF CommittedCanBeRevealed
  <2> DEFINE bucket == pending[e][c].bucket
  <2>1. c \in Commitments /\ pending[e][c] # None /\ ~ pending[e][c].revealed
    BY DEF Committed, Revealed
  <2>2. pending[e][c] \in PendingCommitment
    BY <2>1 DEF IndInv, TypeOK
  <2>3. bucket \in Buckets
    BY <2>2 DEF PendingCommitment
  <2>4. c[1] < elections[e].optionCount /\ c[3] = elections[e].scope
    BY DEF IndInv, SealedBallotsSound
  <2>5. c[1] \in Options
    <3>1. elections[e].optionCount \in 1 .. MaxOptions
      BY DEF IndInv, TypeOK, Exists, ElectionConfig
    <3>2. c[1] \in Votes
      BY <2>1 DEF Commitments
    <3>3. QED
      BY <2>4, <3>1, <3>2, CircuitAssumption DEF Votes, Options
  <2>6. c[2] # BadFr /\ BallotCommitment(c[1], c[2], elections[e].scope) = c
    <3>1. c[2] \in Salts /\ c = <<c[1], c[2], c[3]>>
      BY <2>1 DEF Commitments
    <3>2. QED
      BY <2>4, <3>1, CircuitAssumption DEF BallotCommitment
  <2>7. /\ revealCount[e] < commitCount[e]
        /\ tally[e][c[1]][bucket] <= revealCount[e]
    <3>1. /\ commitCount[e] = Cardinality(Committed(e))
          /\ revealCount[e] = Cardinality(Revealed(e))
      BY DEF IndInv, CountersMatchCommitments
    <3>2. tally[e][c[1]][bucket] = Cardinality(RevealedFor(e, c[1], bucket))
      BY <2>3, <2>5 DEF IndInv, SealedTallyExact
    <3>3. /\ Cardinality(Revealed(e)) <= Cardinality(Committed(e))
          /\ Cardinality(Revealed(e)) # Cardinality(Committed(e))
      BY CountedSetsFinite, FS_Subset
    <3>4. Cardinality(RevealedFor(e, c[1], bucket)) <= Cardinality(Revealed(e))
      BY CountedSetsFinite, FS_Subset
    <3>5. Cardinality(Committed(e)) \in Nat /\ Cardinality(Revealed(e)) \in Nat
      BY CountedSetsFinite, FS_CardinalityType
    <3>6. QED
      BY <3>1, <3>2, <3>3, <3>4, <3>5
  <2>8. /\ commitCount[e] \in 0 .. CountMax
        /\ revealCount[e] \in 0 .. CountMax
        /\ tally[e][c[1]][bucket] \in 0 .. TallyMax
    BY <2>3, <2>5 DEF IndInv, TypeOK
  <2>9. revealCount[e] < CountMax /\ tally[e][c[1]][bucket] < TallyMax
    BY <2>7, <2>8, ContractAssumption
  <2>10. QED
    BY <2>1, <2>4, <2>6, <2>9 DEF RevealAccepted, CanIncrementTally
<1>2. QED
  BY <1>1, IndInvHolds, PTL

-----------------------------------------------------------------------------
(* The voting and reveal windows: what may not happen before, between and after them. *)
(* First what the steps do to an election that is open and to the clock.               *)

\* What no call of a kind touches.
LEMMA Frames ==
    /\ Tick => now' = now + 1 /\ UNCHANGED <<vkBound, elections, nullifiers, tally, pending,
                                             commitCount, revealCount, log>>
    /\ UNCHANGED vars => UNCHANGED <<now, vkBound, elections, nullifiers, tally, pending,
                                    commitCount, revealCount, log>>
    /\ \A caller, f : OpenElection(caller, f) =>
            UNCHANGED <<now, nullifiers, tally, pending, commitCount, revealCount, log>>
    /\ \A f, credential, vote, scope, optionCount, stateRoot, associationRoot :
            CastR0(f, credential, vote, scope, optionCount, stateRoot, associationRoot) =>
                UNCHANGED <<now, elections, pending, commitCount, revealCount>>
    /\ \A f, credential, vote, salt, scope, optionCount, stateRoot, associationRoot :
            CastR1(f, credential, vote, salt, scope, optionCount, stateRoot, associationRoot) =>
                UNCHANGED <<now, elections, tally, revealCount>>
    /\ \A f, vote, salt, commitment :
            Reveal(f, vote, salt, commitment) =>
                UNCHANGED <<now, elections, nullifiers, commitCount>>
<1>1. Tick => now' = now + 1 /\ UNCHANGED <<vkBound, elections, nullifiers, tally, pending,
                                           commitCount, revealCount, log>>
  BY DEF Tick
<1>2. UNCHANGED vars => UNCHANGED <<now, vkBound, elections, nullifiers, tally, pending,
                                  commitCount, revealCount, log>>
  BY DEF vars
<1>3. ASSUME NEW caller, NEW f, OpenElection(caller, f)
      PROVE  UNCHANGED <<now, nullifiers, tally, pending, commitCount, revealCount, log>>
  BY <1>3 DEF OpenElection
<1>4. ASSUME NEW f, NEW credential, NEW vote, NEW scope, NEW optionCount,
             NEW stateRoot, NEW associationRoot,
             CastR0(f, credential, vote, scope, optionCount, stateRoot, associationRoot)
      PROVE  UNCHANGED <<now, elections, pending, commitCount, revealCount>>
  BY <1>4 DEF CastR0
<1>5. ASSUME NEW f, NEW credential, NEW vote, NEW salt, NEW scope, NEW optionCount,
             NEW stateRoot, NEW associationRoot,
             CastR1(f, credential, vote, salt, scope, optionCount, stateRoot, associationRoot)
      PROVE  UNCHANGED <<now, elections, tally, revealCount>>
  BY <1>5 DEF CastR1
<1>6. ASSUME NEW f, NEW vote, NEW salt, NEW commitment, Reveal(f, vote, salt, commitment)
      PROVE  UNCHANGED <<now, elections, nullifiers, commitCount>>
  BY <1>6 DEF Reveal
<1>7. QED
  BY <1>1, <1>2, <1>3, <1>4, <1>5, <1>6

\* A deadline of an open election is a number that does not change, so is the status
\* at each time.
LEMMA FrozenConfig ==
    ASSUME TypeOK, [Next]_vars, NEW e \in Elections, Exists(e)
    PROVE  elections'[e] = elections[e]
<1>1. CASE UNCHANGED elections
  BY <1>1
<1>2. ASSUME NEW caller \in Callers, NEW f \in Elections, OpenElection(caller, f)
      PROVE  elections'[e] = elections[e]
  <2>1. e # f
    BY <1>2 DEF OpenElection
  <2>2. QED
    BY <1>2, <2>1 DEF OpenElection, TypeOK
<1>3. QED
  BY <1>1, <1>2, Frames DEF Next

\* The clock never goes back.
LEMMA ClockMonotonic ==
    ASSUME TypeOK, [Next]_vars
    PROVE  now' >= now
<1>1. now \in Nat
  BY ContractAssumption DEF TypeOK, Times
<1>2. QED
  BY <1>1, Frames DEF Next

\* The deadlines of an election and the clock are numbers.
LEMMA Deadlines ==
    ASSUME TypeOK, NEW e \in Elections, Exists(e)
    PROVE  /\ elections[e].opensAt \in Nat
           /\ elections[e].closesAt \in Nat
           /\ elections[e].revealClosesAt \in Nat
           /\ elections[e].mode \in Modes
           /\ now \in Nat
  BY ContractAssumption DEF TypeOK, Exists, ElectionConfig, Times

\* A commit is accepted before closesAt only, a reveal from then on only.
LEMMA CommitsBeforeReveals ==
    ASSUME TypeOK, NEW e \in Elections, Exists(e)
    PROVE  /\ Status(e) = "Open" => now < elections[e].closesAt
           /\ Status(e) = "RevealOpen" => now >= elections[e].closesAt
  BY Deadlines DEF Status

-----------------------------------------------------------------------------
(* No early result *)

\* What an election has counted when it is opened: nothing.
LEMMA NothingCountedYet ==
    ASSUME IndInv, NEW e \in Elections, ~ Exists(e)
    PROVE  /\ revealCount[e] = 0
           /\ \A option \in Options, bucket \in Buckets : tally[e][option][bucket] = 0
<1>1. Committed(e) = {}
  BY DEF IndInv, SealedBallotsSound
<1>2. Revealed(e) = {}
  BY <1>1 DEF Revealed
<1>3. \A option, bucket : RevealedFor(e, option, bucket) = {}
  BY <1>2 DEF RevealedFor
<1>4. revealCount[e] = 0
  BY <1>2, FS_EmptySet DEF IndInv, CountersMatchCommitments
<1>5. \A option \in Options, bucket \in Buckets : tally[e][option][bucket] = 0
  BY <1>3, FS_EmptySet DEF IndInv, SealedTallyExact
<1>6. QED
  BY <1>4, <1>5

\* A step that counts a ballot of a commit-reveal election is a reveal of it.
LEMMA OnlyRevealsCount ==
    ASSUME TypeOK, [Next]_vars, NEW e \in Elections, Exists(e), elections[e].mode = "R1",
           Status(e) # "RevealOpen"
    PROVE  revealCount'[e] = revealCount[e] /\ tally'[e] = tally[e]
<1>1. CASE UNCHANGED <<tally, revealCount>>
  BY <1>1
<1>2. ASSUME NEW f \in Elections, NEW credential \in Credentials, NEW vote \in Votes,
             NEW scope \in Scopes, NEW optionCount \in OptionCounts,
             NEW stateRoot \in Roots, NEW associationRoot \in Roots,
             CastR0(f, credential, vote, scope, optionCount, stateRoot, associationRoot)
      PROVE  revealCount'[e] = revealCount[e] /\ tally'[e] = tally[e]
  <2>1. e # f
    BY <1>2 DEF CastR0, CastR0Accepted, CastAccepted
  <2>2. QED
    BY <1>2, <2>1 DEF CastR0, IncrementTally, TypeOK
<1>3. ASSUME NEW f \in Elections, NEW vote \in Votes, NEW salt \in Salts \cup {BadFr},
             NEW commitment \in Commitments, Reveal(f, vote, salt, commitment)
      PROVE  revealCount'[e] = revealCount[e] /\ tally'[e] = tally[e]
  <2>1. e # f
    BY <1>3 DEF Reveal, RevealAccepted
  <2>2. QED
    BY <1>3, <2>1 DEF Reveal, IncrementTally, TypeOK
<1>4. QED
  BY <1>1, <1>2, <1>3, Frames DEF Next

\* As long as a commit-reveal election can be voted in, nothing of its result is
\* known: for any voters and any order of calls no ballot of it is counted.
THEOREM NothingKnownEarly == Spec => []NoEarlyResult
<1>1. Init => NoEarlyResult
  BY DEF Init, NoEarlyResult, Exists
<1>2. IndInv /\ NoEarlyResult /\ [Next]_vars => NoEarlyResult'
  <2> SUFFICES ASSUME IndInv, NoEarlyResult, [Next]_vars, NEW e \in Elections,
                      Exists(e)', elections'[e].mode = "R1", now' < elections'[e].closesAt
               PROVE  /\ revealCount'[e] = 0
                      /\ \A option \in Options, bucket \in Buckets : tally'[e][option][bucket] = 0
    BY DEF NoEarlyResult
  <2> USE DEF IndInv
  <2>1. CASE Exists(e)
    <3>1. elections'[e] = elections[e]
      BY <2>1, FrozenConfig
    <3>2. now < elections[e].closesAt
      <4>1. now' \in Nat
        BY NextTyping, ContractAssumption DEF TypeOK, Times
      <4>2. QED
        BY <2>1, <3>1, <4>1, ClockMonotonic, Deadlines
    <3>3. Status(e) # "RevealOpen"
      BY <2>1, <3>2, CommitsBeforeReveals, Deadlines
    <3>4. revealCount'[e] = revealCount[e] /\ tally'[e] = tally[e]
      BY <2>1, <3>1, <3>3, OnlyRevealsCount
    <3>5. QED
      BY <2>1, <3>1, <3>2, <3>4 DEF NoEarlyResult
  <2>2. CASE ~ Exists(e)
    <3>1. UNCHANGED elections => FALSE
      BY <2>2 DEF Exists
    <3>2. UNCHANGED <<tally, revealCount>>
      BY <3>1, Frames DEF Next
    <3>3. QED
      BY <2>2, <3>2, NothingCountedYet
  <2>3. QED
    BY <2>1, <2>2
<1>3. QED
  BY <1>1, <1>2, IndInvHolds, PTL DEF Spec

-----------------------------------------------------------------------------
(* No commitment after a reveal *)

\* A step that changes the number of commitments is a commit to an open election.
LEMMA OnlyOpenCommits ==
    ASSUME TypeOK, [Next]_vars, NEW e \in Elections, commitCount'[e] # commitCount[e]
    PROVE  Exists(e) /\ elections[e].mode = "R1" /\ Status(e) = "Open"
<1>1. CASE UNCHANGED commitCount
  BY <1>1
<1>2. ASSUME NEW f \in Elections, NEW credential \in Credentials, NEW vote \in Votes,
             NEW salt \in Salts \cup {BadFr}, NEW scope \in Scopes,
             NEW optionCount \in OptionCounts,
             NEW stateRoot \in Roots, NEW associationRoot \in Roots,
             CastR1(f, credential, vote, salt, scope, optionCount, stateRoot, associationRoot)
      PROVE  Exists(e) /\ elections[e].mode = "R1" /\ Status(e) = "Open"
  <2>1. e = f
    BY <1>2 DEF CastR1, TypeOK
  <2>2. QED
    BY <1>2, <2>1 DEF CastR1, CastR1Accepted, CastAccepted
<1>3. QED
  BY <1>1, <1>2, Frames DEF Next

\* No ballot of an election is ever committed with knowledge of a revealed one.
THEOREM NoBallotAfterReveal == Spec => NoCommitAfterReveal
<1>1. IndInv /\ NoEarlyResult /\ [Next]_vars =>
        [\A e \in Elections : revealCount[e] > 0 => commitCount'[e] = commitCount[e]]_vars
  <2> SUFFICES ASSUME IndInv, NoEarlyResult, [Next]_vars, NEW e \in Elections,
                      revealCount[e] > 0, commitCount'[e] # commitCount[e]
               PROVE  FALSE
    OBVIOUS
  <2>1. Exists(e) /\ elections[e].mode = "R1" /\ Status(e) = "Open"
    BY OnlyOpenCommits DEF IndInv
  <2>2. now < elections[e].closesAt
    BY <2>1, CommitsBeforeReveals DEF IndInv
  <2>3. revealCount[e] = 0
    BY <2>1, <2>2 DEF NoEarlyResult
  <2>4. QED
    BY <2>3
<1>2. QED
  BY <1>1, IndInvHolds, NothingKnownEarly, PTL DEF Spec, NoCommitAfterReveal

-----------------------------------------------------------------------------
(* The end of an election *)

\* Calls that are accepted for an election find it open, or open for reveals.
LEMMA EndedAcceptsNothing ==
    ASSUME TypeOK, [Next]_vars, NEW e \in Elections, Exists(e),
           Status(e) \in {"Closed", "RevealClosed"}
    PROVE  UNCHANGED <<nullifiers[e], tally[e], pending[e],
                       commitCount[e], revealCount[e], log[e]>>
<1> DEFINE Same == UNCHANGED <<nullifiers[e], tally[e], pending[e],
                               commitCount[e], revealCount[e], log[e]>>
<1>1. CASE UNCHANGED <<nullifiers, tally, pending, commitCount, revealCount, log>>
  BY <1>1
<1>2. ASSUME NEW f \in Elections, NEW credential \in Credentials, NEW vote \in Votes,
             NEW scope \in Scopes, NEW optionCount \in OptionCounts,
             NEW stateRoot \in Roots, NEW associationRoot \in Roots,
             CastR0(f, credential, vote, scope, optionCount, stateRoot, associationRoot)
      PROVE  Same
  <2>1. e # f
    BY <1>2 DEF CastR0, CastR0Accepted, CastAccepted
  <2>2. QED
    BY <1>2, <2>1 DEF CastR0, IncrementTally, TypeOK
<1>3. ASSUME NEW f \in Elections, NEW credential \in Credentials, NEW vote \in Votes,
             NEW salt \in Salts \cup {BadFr}, NEW scope \in Scopes,
             NEW optionCount \in OptionCounts,
             NEW stateRoot \in Roots, NEW associationRoot \in Roots,
             CastR1(f, credential, vote, salt, scope, optionCount, stateRoot, associationRoot)
      PROVE  Same
  <2>1. e # f
    BY <1>3 DEF CastR1, CastR1Accepted, CastAccepted
  <2>2. QED
    BY <1>3, <2>1 DEF CastR1, TypeOK
<1>4. ASSUME NEW f \in Elections, NEW vote \in Votes, NEW salt \in Salts \cup {BadFr},
             NEW commitment \in Commitments, Reveal(f, vote, salt, commitment)
      PROVE  Same
  <2>1. e # f
    BY <1>4 DEF Reveal, RevealAccepted
  <2>2. QED
    BY <1>4, <2>1 DEF Reveal, IncrementTally, TypeOK
<1>5. QED
  BY <1>1, <1>2, <1>3, <1>4, Frames DEF Next

\* Once its last window has closed, an election stays closed and its result stands.
THEOREM EndIsFinal == Spec => EndedIsFinal
<1>1. TypeOK /\ [Next]_vars =>
        [\A e \in Elections :
            Exists(e) /\ Status(e) \in {"Closed", "RevealClosed"} =>
                /\ Status(e)' = Status(e)
                /\ UNCHANGED <<nullifiers[e], tally[e], pending[e],
                               commitCount[e], revealCount[e], log[e]>>]_vars
  <2> SUFFICES ASSUME TypeOK, [Next]_vars, NEW e \in Elections, Exists(e),
                      Status(e) \in {"Closed", "RevealClosed"}
               PROVE  /\ Status(e)' = Status(e)
                      /\ UNCHANGED <<nullifiers[e], tally[e], pending[e],
                                     commitCount[e], revealCount[e], log[e]>>
    OBVIOUS
  <2>1. Status(e)' = Status(e)
    <3>1. elections'[e] = elections[e]
      BY FrozenConfig
    <3>2. now' \in Nat /\ now' >= now
      BY NextTyping, ClockMonotonic, ContractAssumption DEF TypeOK, Times
    <3>3. QED
      BY <3>1, <3>2, Deadlines DEF Status
  <2>2. QED
    BY <2>1, EndedAcceptsNothing
<1>2. QED
  BY <1>1, TypeCorrect, PTL DEF Spec, EndedIsFinal

-----------------------------------------------------------------------------
(* Nothing is taken back *)

\* A sequence with one more element.
LEMMA Appended ==
    ASSUME NEW s \in Seq(Event), NEW event \in Event
    PROVE  /\ Len(s) \in Nat
           /\ DOMAIN s = 1 .. Len(s)
           /\ Len(s) + 1 \notin DOMAIN s
           /\ Len(Append(s, event)) = Len(s) + 1
           /\ DOMAIN Append(s, event) = DOMAIN s \cup {Len(s) + 1}
           /\ \A i \in DOMAIN s : Append(s, event)[i] = s[i]
           /\ Append(s, event)[Len(s) + 1] = event
           /\ SubSeq(Append(s, event), 1, Len(s)) = s
  OBVIOUS

\* One event is appended to the log of an election.
LogEvent(e, event) == log' = [log EXCEPT ![e] = Append(@, event)]

\* An accepted public vote leaves one well-formed event.
LEMMA CastR0Logs ==
    ASSUME TypeOK,
           NEW e \in Elections, NEW credential \in Credentials, NEW vote \in Votes,
           NEW scope \in Scopes, NEW optionCount \in OptionCounts,
           NEW stateRoot \in Roots, NEW associationRoot \in Roots,
           CastR0(e, credential, vote, scope, optionCount, stateRoot, associationRoot)
    PROVE  \E event \in Event :
              /\ event = [type |-> "VoteCast", nullifier |-> NullifierHash(credential, scope),
                             vote |-> vote, bucket |-> BucketOf[NullifierHash(credential, scope)]]
              /\ LogEvent(e, event)
<1> DEFINE event == [type |-> "VoteCast", nullifier |-> NullifierHash(credential, scope),
           vote |-> vote, bucket |-> BucketOf[NullifierHash(credential, scope)]]
<1>1. event \in Event
  BY CastR0Typing DEF CastR0, Event
<1>2. QED
  BY <1>1 DEF CastR0, LogEvent

\* So does an accepted commitment.
LEMMA CastR1Logs ==
    ASSUME TypeOK,
           NEW e \in Elections, NEW credential \in Credentials, NEW vote \in Votes,
           NEW salt \in Salts \cup {BadFr}, NEW scope \in Scopes,
           NEW optionCount \in OptionCounts,
           NEW stateRoot \in Roots, NEW associationRoot \in Roots,
           CastR1(e, credential, vote, salt, scope, optionCount, stateRoot, associationRoot)
    PROVE  \E event \in Event :
              /\ event = [type |-> "VoteCommitted", nullifier |-> NullifierHash(credential, scope),
                             commitment |-> BallotCommitment(vote, salt, scope),
                             bucket |-> BucketOf[NullifierHash(credential, scope)]]
              /\ LogEvent(e, event)
<1> DEFINE event == [type |-> "VoteCommitted", nullifier |-> NullifierHash(credential, scope),
           commitment |-> BallotCommitment(vote, salt, scope),
           bucket |-> BucketOf[NullifierHash(credential, scope)]]
<1>1. event \in Event
  BY CastR1Typing DEF CastR1, Event
<1>2. QED
  BY <1>1 DEF CastR1, LogEvent

\* And an accepted reveal.
LEMMA RevealLogs ==
    ASSUME TypeOK,
           NEW e \in Elections, NEW vote \in Votes, NEW salt \in Salts \cup {BadFr},
           NEW commitment \in Commitments,
           Reveal(e, vote, salt, commitment)
    PROVE  \E event \in Event :
              /\ event = [type |-> "VoteRevealed", commitment |-> commitment, vote |-> vote]
              /\ LogEvent(e, event)
<1> DEFINE event == [type |-> "VoteRevealed", commitment |-> commitment, vote |-> vote]
<1>1. event \in Event
  BY RevealTyping DEF Reveal, Event
<1>2. QED
  BY <1>1 DEF Reveal, LogEvent

\* A step adds at most one event to an election, at its end.
LEMMA LogGrows ==
    ASSUME TypeOK, [Next]_vars, NEW e \in Elections
    PROVE  \/ log'[e] = log[e]
           \/ \E event \in Event : log'[e] = Append(log[e], event)
<1> DEFINE Goal == \/ log'[e] = log[e]
                   \/ \E event \in Event : log'[e] = Append(log[e], event)
<1>1. CASE UNCHANGED log
  BY <1>1
<1>2. ASSUME NEW f \in Elections, NEW event \in Event,
             LogEvent(f, event)
      PROVE  Goal
  BY <1>2 DEF LogEvent, TypeOK
<1>3. ASSUME NEW f \in Elections, NEW credential \in Credentials, NEW vote \in Votes,
             NEW scope \in Scopes, NEW optionCount \in OptionCounts,
             NEW stateRoot \in Roots, NEW associationRoot \in Roots,
             CastR0(f, credential, vote, scope, optionCount, stateRoot, associationRoot)
      PROVE  Goal
  BY <1>2, <1>3, CastR0Logs
<1>4. ASSUME NEW f \in Elections, NEW credential \in Credentials, NEW vote \in Votes,
             NEW salt \in Salts \cup {BadFr}, NEW scope \in Scopes,
             NEW optionCount \in OptionCounts,
             NEW stateRoot \in Roots, NEW associationRoot \in Roots,
             CastR1(f, credential, vote, salt, scope, optionCount, stateRoot, associationRoot)
      PROVE  Goal
  BY <1>2, <1>4, CastR1Logs
<1>5. ASSUME NEW f \in Elections, NEW vote \in Votes, NEW salt \in Salts \cup {BadFr},
             NEW commitment \in Commitments, Reveal(f, vote, salt, commitment)
      PROVE  Goal
  BY <1>2, <1>5, RevealLogs
<1>6. QED
  BY <1>1, <1>3, <1>4, <1>5, Frames DEF Next

\* A nullifier that was used stays used.
LEMMA NullifiersGrow ==
    ASSUME TypeOK, [Next]_vars, NEW e \in Elections
    PROVE  nullifiers[e] \subseteq nullifiers'[e]
<1>1. CASE UNCHANGED nullifiers
  BY <1>1
<1>2. ASSUME NEW f \in Elections, NEW credential \in Credentials, NEW vote \in Votes,
             NEW scope \in Scopes, NEW optionCount \in OptionCounts,
             NEW stateRoot \in Roots, NEW associationRoot \in Roots,
             CastR0(f, credential, vote, scope, optionCount, stateRoot, associationRoot)
      PROVE  nullifiers[e] \subseteq nullifiers'[e]
  BY <1>2 DEF CastR0, TypeOK
<1>3. ASSUME NEW f \in Elections, NEW credential \in Credentials, NEW vote \in Votes,
             NEW salt \in Salts \cup {BadFr}, NEW scope \in Scopes,
             NEW optionCount \in OptionCounts,
             NEW stateRoot \in Roots, NEW associationRoot \in Roots,
             CastR1(f, credential, vote, salt, scope, optionCount, stateRoot, associationRoot)
      PROVE  nullifiers[e] \subseteq nullifiers'[e]
  BY <1>3 DEF CastR1, TypeOK
<1>4. QED
  BY <1>1, <1>2, <1>3, Frames DEF Next

\* A stored commitment stays stored, with its bucket, and revealed if it is.
LEMMA CommitmentsKept ==
    ASSUME TypeOK, [Next]_vars, NEW e \in Elections, NEW c \in Committed(e)
    PROVE  /\ pending'[e][c] # None
           /\ pending'[e][c].bucket = pending[e][c].bucket
           /\ pending[e][c].revealed => pending'[e][c].revealed
<1> DEFINE Kept == /\ pending'[e][c] # None
                   /\ pending'[e][c].bucket = pending[e][c].bucket
                   /\ pending[e][c].revealed => pending'[e][c].revealed
<1>1. c \in Commitments /\ pending[e][c] # None
  BY DEF Committed
<1>2. CASE pending'[e][c] = pending[e][c]
  BY <1>1, <1>2
<1>3. ASSUME NEW f \in Elections, NEW credential \in Credentials, NEW vote \in Votes,
             NEW salt \in Salts \cup {BadFr}, NEW scope \in Scopes,
             NEW optionCount \in OptionCounts,
             NEW stateRoot \in Roots, NEW associationRoot \in Roots,
             CastR1(f, credential, vote, salt, scope, optionCount, stateRoot, associationRoot)
      PROVE  Kept
  <2> DEFINE commitment == BallotCommitment(vote, salt, scope)
  <2>1. /\ commitment \in Commitments /\ pending[f][commitment] = None
        /\ pending' = [pending EXCEPT ![f][commitment] =
                [bucket |-> BucketOf[NullifierHash(credential, scope)], revealed |-> FALSE]]
    BY <1>3, CastR1Typing DEF CastR1
  <2>2. ~ (e = f /\ c = commitment)
    BY <1>1, <2>1
  <2>3. pending'[e][c] = pending[e][c]
    BY <1>1, <2>1, <2>2 DEF TypeOK
  <2>4. QED
    BY <1>2, <2>3
<1>4. ASSUME NEW f \in Elections, NEW vote \in Votes, NEW salt \in Salts \cup {BadFr},
             NEW commitment \in Commitments, Reveal(f, vote, salt, commitment)
      PROVE  Kept
  <2> DEFINE opened == [pending[f][commitment] EXCEPT !.revealed = TRUE]
  <2>1. pending' = [pending EXCEPT ![f][commitment] = opened]
    BY <1>4 DEF Reveal
  <2>2. pending[f][commitment] \in PendingCommitment
    BY <1>4, RevealTyping DEF Reveal
  <2>3. /\ opened \in PendingCommitment
        /\ opened.bucket = pending[f][commitment].bucket
        /\ opened.revealed = TRUE
    BY <2>2 DEF PendingCommitment
  <2>4. CASE e = f /\ c = commitment
    <3>1. pending'[e][c] = opened
      BY <1>1, <2>1, <2>4 DEF TypeOK
    <3>2. QED
      BY <2>3, <2>4, <3>1, ContractAssumption
  <2>5. CASE ~ (e = f /\ c = commitment)
    BY <1>1, <1>2, <2>1, <2>5 DEF TypeOK
  <2>6. QED
    BY <2>4, <2>5
<1>5. CASE UNCHANGED pending
  BY <1>2, <1>5
<1>6. QED
  BY <1>3, <1>4, <1>5, Frames DEF Next

\* A tally bucket with one more ballot; every other bucket is what it was.
LEMMA TallyOfOneMore ==
    ASSUME TypeOK, NEW f \in Elections, NEW vote \in Options, NEW kept \in Buckets,
           IncrementTally(f, vote, kept),
           NEW e \in Elections, NEW option \in Options, NEW bucket \in Buckets
    PROVE  /\ tally[e][option][bucket] \in Nat
           /\ tally'[e][option][bucket] =
                IF e = f /\ option = vote /\ bucket = kept
                THEN tally[e][option][bucket] + 1 ELSE tally[e][option][bucket]
<1>1. /\ tally \in [Elections -> [Options -> [Buckets -> 0 .. TallyMax]]]
      /\ tally' = [tally EXCEPT ![f][vote][kept] = @ + 1]
  BY DEF TypeOK, IncrementTally
<1>2. tally[e][option][bucket] \in Nat
  BY <1>1, ContractAssumption
<1>3. CASE e = f
  <2>1. tally'[e][option] = IF option = vote
                            THEN [tally[f][vote] EXCEPT ![kept] = @ + 1]
                            ELSE tally[e][option]
    BY <1>1, <1>3
  <2>2. QED
    BY <1>1, <1>2, <1>3, <2>1
<1>4. CASE e # f
  BY <1>1, <1>2, <1>4
<1>5. QED
  BY <1>3, <1>4

\* No tally bucket ever decreases.
LEMMA TallyGrows ==
    ASSUME TypeOK, [Next]_vars, NEW e \in Elections,
           NEW option \in Options, NEW bucket \in Buckets
    PROVE  tally'[e][option][bucket] >= tally[e][option][bucket]
<1> DEFINE Grows == tally'[e][option][bucket] >= tally[e][option][bucket]
<1>1. CASE UNCHANGED tally
  BY <1>1, ContractAssumption DEF TypeOK
<1>2. ASSUME NEW f \in Elections, NEW vote \in Options, NEW kept \in Buckets,
             IncrementTally(f, vote, kept)
      PROVE  Grows
  BY <1>2, TallyOfOneMore
<1>3. ASSUME NEW f \in Elections, NEW credential \in Credentials, NEW vote \in Votes,
             NEW scope \in Scopes, NEW optionCount \in OptionCounts,
             NEW stateRoot \in Roots, NEW associationRoot \in Roots,
             CastR0(f, credential, vote, scope, optionCount, stateRoot, associationRoot)
      PROVE  Grows
  BY <1>2, <1>3, CastR0Typing DEF CastR0
<1>4. ASSUME NEW f \in Elections, NEW vote \in Votes, NEW salt \in Salts \cup {BadFr},
             NEW commitment \in Commitments, Reveal(f, vote, salt, commitment)
      PROVE  Grows
  BY <1>2, <1>4, RevealTyping DEF Reveal
<1>5. QED
  BY <1>1, <1>3, <1>4, Frames DEF Next

\* Whatever is called, nothing that was recorded is taken back, for any number of
\* elections and voters: not by a later call and not by a call that fails.
THEOREM NothingTakenBack == Spec => Irrevocable
<1> DEFINE Kept(e) ==
        /\ Exists(e) => elections'[e] = elections[e]
        /\ nullifiers[e] \subseteq nullifiers'[e]
        /\ \A c \in Committed(e) :
              /\ pending'[e][c] # None
              /\ pending'[e][c].bucket = pending[e][c].bucket
              /\ pending[e][c].revealed => pending'[e][c].revealed
        /\ \A option \in Options, bucket \in Buckets :
              tally'[e][option][bucket] >= tally[e][option][bucket]
        /\ Len(log'[e]) >= Len(log[e]) /\ SubSeq(log'[e], 1, Len(log[e])) = log[e]
<1>1. TypeOK /\ [Next]_vars => [\A e \in Elections : Kept(e)]_vars
  <2> SUFFICES ASSUME TypeOK, [Next]_vars, NEW e \in Elections
               PROVE  Kept(e)
    OBVIOUS
  <2>1. Exists(e) => elections'[e] = elections[e]
    BY FrozenConfig
  <2>2. Len(log'[e]) >= Len(log[e]) /\ SubSeq(log'[e], 1, Len(log[e])) = log[e]
    <3>1. log[e] \in Seq(Event)
      BY DEF TypeOK
    <3>2. CASE log'[e] = log[e]
      BY <3>1, <3>2
    <3>3. ASSUME NEW event \in Event, log'[e] = Append(log[e], event)
          PROVE  Len(log'[e]) >= Len(log[e]) /\ SubSeq(log'[e], 1, Len(log[e])) = log[e]
      BY <3>1, <3>3, Appended
    <3>4. QED
      BY <3>2, <3>3, LogGrows
  <2>3. QED
    BY <2>1, <2>2, NullifiersGrow, CommitmentsKept, TallyGrows
<1>2. QED
  BY <1>1, TypeCorrect, PTL DEF Spec, Irrevocable

-----------------------------------------------------------------------------
(* The inductive invariant about ballots *)

\* The events of ballots put in, and of sealed ballots among them.
CastEvents(e) == {i \in DOMAIN log[e] : log[e][i].type \in {"VoteCast", "VoteCommitted"}}
CommitEvents(e) == {i \in DOMAIN log[e] : log[e][i].type = "VoteCommitted"}

\* An election has the scope derived for it, and nobody votes before it is opened.
ScopeIsDerived ==
    \A e \in Elections :
        IF Exists(e) THEN elections[e].scope = ScopeOf[e] ELSE nullifiers[e] = {}

\* A used nullifier is that of a member of both groups, for the election's own scope.
NullifiersEligible ==
    \A e \in Elections : \A n \in nullifiers[e] :
        /\ n[1] \in StateTree[elections[e].stateRoot] \cap AssociationTree[elections[e].associationRoot]
        /\ n[2] = ScopeOf[e]

\* Only options of the election have votes.
TallyInRange ==
    \A e \in Elections, option \in Options, bucket \in Buckets :
        tally[e][option][bucket] > 0 => Exists(e) /\ option < elections[e].optionCount

\* Every ballot in the log has used a nullifier, and no two the same.
LogMatchesNullifiers ==
    \A e \in Elections :
        /\ \A i \in CastEvents(e) : log[e][i].nullifier \in nullifiers[e]
        /\ \A i, j \in CastEvents(e) : log[e][i].nullifier = log[e][j].nullifier => i = j

\* The sealed ballots in the log are the stored commitments, one for one, with
\* the bucket that is stored.
LogMatchesCommitments ==
    \A e \in Elections :
        /\ \A i \in CommitEvents(e) :
              /\ log[e][i].commitment \in Committed(e)
              /\ log[e][i].bucket = pending[e][log[e][i].commitment].bucket
        /\ \A i, j \in CommitEvents(e) : log[e][i].commitment = log[e][j].commitment => i = j
        /\ \A c \in Committed(e) : \E i \in CommitEvents(e) : log[e][i].commitment = c

\* The inductive invariant behind the theorems about ballots.
BallotInv ==
    /\ IndInv
    /\ ScopeIsDerived
    /\ NullifiersEligible
    /\ TallyInRange
    /\ LogMatchesNullifiers
    /\ LogMatchesCommitments

\* The log of an election after one more event, and the ballots in it.
LEMMA LogOfOneMore ==
    ASSUME TypeOK, NEW f \in Elections, NEW event \in Event,
           LogEvent(f, event),
           NEW e \in Elections
    PROVE  /\ Len(log[f]) + 1 \notin DOMAIN log[f]
           /\ log'[f][Len(log[f]) + 1] = event
           /\ \A i \in DOMAIN log[e] : log'[e][i] = log[e][i]
           /\ DOMAIN log'[e] = IF e = f THEN DOMAIN log[e] \cup {Len(log[f]) + 1} ELSE DOMAIN log[e]
           /\ CastEvents(e)' = IF e = f /\ event.type \in {"VoteCast", "VoteCommitted"}
                               THEN CastEvents(e) \cup {Len(log[f]) + 1} ELSE CastEvents(e)
           /\ CommitEvents(e)' = IF e = f /\ event.type = "VoteCommitted"
                                 THEN CommitEvents(e) \cup {Len(log[f]) + 1} ELSE CommitEvents(e)
<1>1. log[e] \in Seq(Event) /\ log[f] \in Seq(Event)
  BY DEF TypeOK
<1>2. log'[e] = IF e = f THEN Append(log[f], event) ELSE log[e]
  BY DEF LogEvent, TypeOK
<1>3. /\ Len(log[f]) + 1 \notin DOMAIN log[f]
      /\ log'[f][Len(log[f]) + 1] = event
  BY <1>1, Appended DEF LogEvent, TypeOK
<1>4. /\ \A i \in DOMAIN log[e] : log'[e][i] = log[e][i]
      /\ DOMAIN log'[e] = IF e = f THEN DOMAIN log[e] \cup {Len(log[f]) + 1} ELSE DOMAIN log[e]
  <2>1. CASE e = f
    <3>1. log'[e] = Append(log[e], event)
      BY <1>2, <2>1
    <3>2. /\ DOMAIN Append(log[e], event) = DOMAIN log[e] \cup {Len(log[e]) + 1}
          /\ \A i \in DOMAIN log[e] : Append(log[e], event)[i] = log[e][i]
      BY <1>1, Appended
    <3>3. QED
      BY <2>1, <3>1, <3>2
  <2>2. CASE e # f
    BY <1>2, <2>2
  <2>3. QED
    BY <2>1, <2>2
<1>5. CastEvents(e)' = IF e = f /\ event.type \in {"VoteCast", "VoteCommitted"}
                       THEN CastEvents(e) \cup {Len(log[f]) + 1} ELSE CastEvents(e)
  BY <1>3, <1>4 DEF CastEvents
<1>6. CommitEvents(e)' = IF e = f /\ event.type = "VoteCommitted"
                         THEN CommitEvents(e) \cup {Len(log[f]) + 1} ELSE CommitEvents(e)
  BY <1>3, <1>4 DEF CommitEvents
<1>7. QED
  BY <1>3, <1>4, <1>5, <1>6

\* A ballot put in by an eligible credential whose nullifier is new.
LEMMA OneMoreNullifier ==
    ASSUME BallotInv, NEW f \in Elections, Exists(f), UNCHANGED elections,
           NEW nullifier, nullifier \notin nullifiers[f],
           nullifier[1] \in StateTree[elections[f].stateRoot]
                              \cap AssociationTree[elections[f].associationRoot],
           nullifier[2] = elections[f].scope,
           nullifiers' = [nullifiers EXCEPT ![f] = @ \cup {nullifier}],
           NEW event \in Event, event.type \in {"VoteCast", "VoteCommitted"},
           event.nullifier = nullifier,
           LogEvent(f, event)
    PROVE  ScopeIsDerived' /\ NullifiersEligible' /\ LogMatchesNullifiers'
<1> USE DEF BallotInv, IndInv
<1>1. \A e \in Elections :
        nullifiers'[e] = IF e = f THEN nullifiers[f] \cup {nullifier} ELSE nullifiers[e]
  BY DEF TypeOK
<1>2. ScopeIsDerived'
  BY <1>1 DEF ScopeIsDerived, Exists
<1>3. NullifiersEligible'
  BY <1>1 DEF NullifiersEligible, ScopeIsDerived
<1>4. LogMatchesNullifiers'
  <2> SUFFICES ASSUME NEW e \in Elections
               PROVE  /\ \A i \in CastEvents(e)' : log'[e][i].nullifier \in nullifiers'[e]
                      /\ \A i, j \in CastEvents(e)' :
                            log'[e][i].nullifier = log'[e][j].nullifier => i = j
    BY DEF LogMatchesNullifiers
  <2>1. /\ \A i \in CastEvents(e) : log[e][i].nullifier \in nullifiers[e]
        /\ \A i, j \in CastEvents(e) : log[e][i].nullifier = log[e][j].nullifier => i = j
    BY DEF LogMatchesNullifiers
  <2>2. /\ \A i \in CastEvents(e) : log'[e][i] = log[e][i]
        /\ CastEvents(e)' = IF e = f THEN CastEvents(e) \cup {Len(log[f]) + 1}
                            ELSE CastEvents(e)
        /\ log'[f][Len(log[f]) + 1] = event
    <3>1. /\ \A i \in DOMAIN log[e] : log'[e][i] = log[e][i]
          /\ CastEvents(e)' = IF e = f /\ event.type \in {"VoteCast", "VoteCommitted"}
                              THEN CastEvents(e) \cup {Len(log[f]) + 1} ELSE CastEvents(e)
          /\ log'[f][Len(log[f]) + 1] = event
      BY LogOfOneMore
    <3>2. \A i \in CastEvents(e) : i \in DOMAIN log[e]
      BY DEF CastEvents
    <3>3. QED
      BY <3>1, <3>2
  <2>3. CASE e = f
    <3>1. /\ CastEvents(e)' = CastEvents(e) \cup {Len(log[f]) + 1}
          /\ log'[e][Len(log[f]) + 1].nullifier = nullifier
      BY <2>2, <2>3
    <3>2. \A i \in CastEvents(e) : log'[e][i].nullifier # nullifier
      BY <2>1, <2>2, <2>3
    <3>3. ASSUME NEW i \in CastEvents(e)'
          PROVE  log'[e][i].nullifier \in nullifiers'[e]
      <4>1. nullifiers'[e] = nullifiers[e] \cup {nullifier}
        BY <1>1, <2>3
      <4>2. i \in CastEvents(e) \/ i = Len(log[f]) + 1
        BY <3>1
      <4>3. CASE i \in CastEvents(e)
        BY <2>1, <2>2, <4>1, <4>3
      <4>4. CASE i = Len(log[f]) + 1
        BY <3>1, <4>1, <4>4
      <4>5. QED
        BY <4>2, <4>3, <4>4
    <3>4. ASSUME NEW i \in CastEvents(e)', NEW j \in CastEvents(e)',
                 log'[e][i].nullifier = log'[e][j].nullifier
          PROVE  i = j
      <4>1. /\ i \in CastEvents(e) \/ i = Len(log[f]) + 1
            /\ j \in CastEvents(e) \/ j = Len(log[f]) + 1
        BY <3>1
      <4>2. CASE i \in CastEvents(e) /\ j \in CastEvents(e)
        BY <2>1, <2>2, <3>4, <4>2
      <4>3. CASE i \in CastEvents(e) /\ j = Len(log[f]) + 1
        BY <3>1, <3>2, <3>4, <4>3
      <4>4. CASE i = Len(log[f]) + 1 /\ j \in CastEvents(e)
        BY <3>1, <3>2, <3>4, <4>4
      <4>5. QED
        BY <4>1, <4>2, <4>3, <4>4
    <3>5. QED
      BY <3>3, <3>4
  <2>4. CASE e # f
    <3>1. CastEvents(e)' = CastEvents(e)
      BY <2>2, <2>4
    <3>2. QED
      BY <1>1, <2>1, <2>2, <2>4, <3>1
  <2>5. QED
    BY <2>3, <2>4
<1>5. QED
  BY <1>2, <1>3, <1>4

\* A step that neither uses a nullifier nor puts a ballot into a log.
LEMMA SameNullifiers ==
    ASSUME BallotInv, UNCHANGED <<elections, nullifiers>>,
           \A e \in Elections : /\ CastEvents(e)' = CastEvents(e)
                                /\ \A i \in DOMAIN log[e] : log'[e][i] = log[e][i]
    PROVE  ScopeIsDerived' /\ NullifiersEligible' /\ LogMatchesNullifiers'
<1> USE DEF BallotInv, IndInv
<1>1. ScopeIsDerived' /\ NullifiersEligible'
  BY DEF ScopeIsDerived, Exists, NullifiersEligible
<1>2. LogMatchesNullifiers'
  <2>1. \A e \in Elections : \A i \in CastEvents(e) : log'[e][i] = log[e][i]
    BY DEF CastEvents
  <2>2. QED
    BY <2>1 DEF LogMatchesNullifiers
<1>3. QED
  BY <1>1, <1>2

\* A step that puts no sealed ballot in and keeps the buckets of those that are.
LEMMA SameCommitments ==
    ASSUME BallotInv,
           \A e \in Elections :
              /\ Committed(e)' = Committed(e)
              /\ \A c \in Committed(e) : pending'[e][c].bucket = pending[e][c].bucket
              /\ CommitEvents(e)' = CommitEvents(e)
              /\ \A i \in DOMAIN log[e] : log'[e][i] = log[e][i]
    PROVE  LogMatchesCommitments'
<1>1. \A e \in Elections : \A i \in CommitEvents(e) : log'[e][i] = log[e][i]
  BY DEF CommitEvents
<1>2. QED
  BY <1>1 DEF BallotInv, LogMatchesCommitments

-----------------------------------------------------------------------------
(* The steps of BallotInv, one lemma for each action *)

\* A public vote uses one nullifier of a member and one option of the election.
LEMMA CastR0KeepsBallotInv ==
    ASSUME BallotInv, IndInv',
           NEW f \in Elections, NEW credential \in Credentials, NEW vote \in Votes,
           NEW scope \in Scopes, NEW optionCount \in OptionCounts,
           NEW stateRoot \in Roots, NEW associationRoot \in Roots,
           CastR0(f, credential, vote, scope, optionCount, stateRoot, associationRoot)
    PROVE  BallotInv'
<1> DEFINE nullifier == NullifierHash(credential, scope)
<1>1. TypeOK
  BY DEF BallotInv, IndInv
<1>2. /\ Exists(f)
      /\ vote < elections[f].optionCount
      /\ nullifier \notin nullifiers[f]
      /\ scope = elections[f].scope
      /\ credential \in StateTree[elections[f].stateRoot]
                          \cap AssociationTree[elections[f].associationRoot]
      /\ nullifiers' = [nullifiers EXCEPT ![f] = @ \cup {nullifier}]
      /\ UNCHANGED <<elections, pending>>
  BY DEF CastR0, CastR0Accepted, CastAccepted, PublicVoteR0, MembershipProof
<1>3. PICK event \in Event :
        /\ event = [type |-> "VoteCast", nullifier |-> nullifier,
                    vote |-> vote, bucket |-> BucketOf[nullifier]]
        /\ LogEvent(f, event)
  BY <1>1, CastR0Logs
<1>4. nullifier[1] = credential /\ nullifier[2] = scope
  BY DEF NullifierHash
<1>5. ScopeIsDerived' /\ NullifiersEligible' /\ LogMatchesNullifiers'
  <2>1. event.type \in {"VoteCast", "VoteCommitted"} /\ event.nullifier = nullifier
    BY <1>3
  <2> HIDE DEF nullifier
  <2>2. QED
    BY <1>2, <1>3, <1>4, <2>1, OneMoreNullifier
<1>6. TallyInRange'
  <2> SUFFICES ASSUME NEW e \in Elections, NEW option \in Options, NEW bucket \in Buckets,
                      tally'[e][option][bucket] > 0
               PROVE  Exists(e)' /\ option < elections'[e].optionCount
    BY DEF TallyInRange
  <2>1. /\ vote \in Options /\ BucketOf[nullifier] \in Buckets
        /\ IncrementTally(f, vote, BucketOf[nullifier])
    BY <1>1, CastR0Typing DEF CastR0
  <2>2. (e = f /\ option = vote) \/ tally[e][option][bucket] > 0
    BY <1>1, <2>1, TallyOfOneMore
  <2>3. QED
    BY <1>2, <2>2 DEF BallotInv, TallyInRange, Exists
<1>7. LogMatchesCommitments'
  <2>1. /\ event \in Event /\ event.type # "VoteCommitted"
        /\ LogEvent(f, event)
    BY <1>3
  <2>2. ASSUME NEW e \in Elections
        PROVE  /\ CommitEvents(e)' = CommitEvents(e)
               /\ \A i \in DOMAIN log[e] : log'[e][i] = log[e][i]
    <3>1. /\ CommitEvents(e)' = IF e = f /\ event.type = "VoteCommitted"
                                THEN CommitEvents(e) \cup {Len(log[f]) + 1} ELSE CommitEvents(e)
          /\ \A i \in DOMAIN log[e] : log'[e][i] = log[e][i]
      BY <1>1, <2>1, LogOfOneMore
    <3>2. QED
      BY <2>1, <3>1
  <2>3. \A e \in Elections :
           /\ Committed(e)' = Committed(e)
           /\ \A c \in Committed(e) : pending'[e][c].bucket = pending[e][c].bucket
    BY <1>2 DEF Committed
  <2>4. QED
    BY <2>2, <2>3, SameCommitments
<1>8. QED
  BY <1>5, <1>6, <1>7 DEF BallotInv

\* A sealed ballot uses one nullifier of a member and stores one commitment.
LEMMA CastR1KeepsBallotInv ==
    ASSUME BallotInv, IndInv',
           NEW f \in Elections, NEW credential \in Credentials, NEW vote \in Votes,
           NEW salt \in Salts \cup {BadFr}, NEW scope \in Scopes,
           NEW optionCount \in OptionCounts,
           NEW stateRoot \in Roots, NEW associationRoot \in Roots,
           CastR1(f, credential, vote, salt, scope, optionCount, stateRoot, associationRoot)
    PROVE  BallotInv'
<1> DEFINE nullifier == NullifierHash(credential, scope)
           commitment == BallotCommitment(vote, salt, scope)
           entry == [bucket |-> BucketOf[nullifier], revealed |-> FALSE]
           last == Len(log[f]) + 1
<1>1. TypeOK
  BY DEF BallotInv, IndInv
<1>2. /\ Exists(f)
      /\ nullifier \notin nullifiers[f]
      /\ scope = elections[f].scope
      /\ credential \in StateTree[elections[f].stateRoot]
                          \cap AssociationTree[elections[f].associationRoot]
      /\ nullifiers' = [nullifiers EXCEPT ![f] = @ \cup {nullifier}]
      /\ pending' = [pending EXCEPT ![f][commitment] = entry]
      /\ UNCHANGED <<elections, tally>>
  BY DEF CastR1, CastR1Accepted, CastAccepted, CommitVoteR1, MembershipProof
<1>3. PICK event \in Event :
        /\ event = [type |-> "VoteCommitted", nullifier |-> nullifier,
                    commitment |-> commitment, bucket |-> BucketOf[nullifier]]
        /\ LogEvent(f, event)
  BY <1>1, CastR1Logs
<1>4. nullifier[1] = credential /\ nullifier[2] = scope
  BY DEF NullifierHash
<1>5. /\ event.type = "VoteCommitted"
      /\ event.nullifier = nullifier
      /\ event.commitment = commitment
      /\ event.bucket = entry.bucket
      /\ event \in Event
      /\ LogEvent(f, event)
  BY <1>3
<1>6. commitment \in Commitments /\ pending[f][commitment] = None /\ entry # None
  <2>1. commitment \in Commitments /\ pending[f][commitment] = None /\ BucketOf[nullifier] \in Buckets
    BY <1>1, CastR1Typing DEF CastR1
  <2>2. entry \in PendingCommitment
    BY <2>1 DEF PendingCommitment
  <2>3. QED
    BY <2>1, <2>2, ContractAssumption
<1> HIDE DEF nullifier, commitment, entry
<1>7. ScopeIsDerived' /\ NullifiersEligible' /\ LogMatchesNullifiers'
  BY <1>2, <1>4, <1>5, OneMoreNullifier
<1>8. TallyInRange'
  BY <1>2 DEF BallotInv, TallyInRange, Exists
<1>9. LogMatchesCommitments'
  <2> SUFFICES ASSUME NEW e \in Elections
               PROVE  /\ \A i \in CommitEvents(e)' :
                            /\ log'[e][i].commitment \in Committed(e)'
                            /\ log'[e][i].bucket = pending'[e][log'[e][i].commitment].bucket
                      /\ \A i, j \in CommitEvents(e)' :
                            log'[e][i].commitment = log'[e][j].commitment => i = j
                      /\ \A c \in Committed(e)' :
                            \E i \in CommitEvents(e)' : log'[e][i].commitment = c
    BY DEF LogMatchesCommitments
  <2>1. /\ \A i \in CommitEvents(e) :
              /\ log[e][i].commitment \in Committed(e)
              /\ log[e][i].bucket = pending[e][log[e][i].commitment].bucket
        /\ \A i, j \in CommitEvents(e) : log[e][i].commitment = log[e][j].commitment => i = j
        /\ \A c \in Committed(e) : \E i \in CommitEvents(e) : log[e][i].commitment = c
    BY DEF BallotInv, LogMatchesCommitments
  <2>2. /\ CommitEvents(e)' = IF e = f THEN CommitEvents(e) \cup {last} ELSE CommitEvents(e)
        /\ \A i \in CommitEvents(e) : log'[e][i] = log[e][i]
        /\ log'[f][last] = event
    <3>1. /\ CommitEvents(e)' = IF e = f /\ event.type = "VoteCommitted"
                                THEN CommitEvents(e) \cup {last} ELSE CommitEvents(e)
          /\ \A i \in DOMAIN log[e] : log'[e][i] = log[e][i]
          /\ log'[f][last] = event
      BY <1>1, <1>5, LogOfOneMore
    <3>2. \A i \in CommitEvents(e) : i \in DOMAIN log[e]
      BY DEF CommitEvents
    <3>3. QED
      BY <1>5, <3>1, <3>2
  <2> HIDE DEF last
  <2>3. CASE e # f
    <3>1. pending'[e] = pending[e]
      BY <1>1, <1>2, <2>3 DEF TypeOK
    <3>2. Committed(e)' = Committed(e)
      BY <3>1 DEF Committed
    <3>3. CommitEvents(e)' = CommitEvents(e)
      BY <2>2, <2>3
    <3>4. QED
      BY <2>1, <2>2, <3>1, <3>2, <3>3
  <2>4. CASE e = f
    <3>1. \A c \in Commitments : pending'[e][c] = IF c = commitment THEN entry ELSE pending[e][c]
      BY <1>1, <1>2, <1>6, <2>4 DEF TypeOK
    <3>2. Committed(e)' = Committed(e) \cup {commitment} /\ commitment \notin Committed(e)
      BY <1>6, <2>4, <3>1 DEF Committed
    <3>3. \A c \in Committed(e) : c # commitment /\ pending'[e][c] = pending[e][c]
      BY <3>1, <3>2 DEF Committed
    <3>4. CommitEvents(e)' = CommitEvents(e) \cup {last} /\ log'[e][last] = event
      BY <2>2, <2>4
    <3>5. ASSUME NEW i \in CommitEvents(e)'
          PROVE  /\ log'[e][i].commitment \in Committed(e)'
                 /\ log'[e][i].bucket = pending'[e][log'[e][i].commitment].bucket
      <4>1. CASE i \in CommitEvents(e)
        BY <2>1, <2>2, <3>2, <3>3, <4>1
      <4>2. CASE i = last
        BY <1>5, <1>6, <3>1, <3>2, <3>4, <4>2
      <4>3. QED
        BY <3>4, <4>1, <4>2
    <3>6. ASSUME NEW i \in CommitEvents(e)', NEW j \in CommitEvents(e)',
                 log'[e][i].commitment = log'[e][j].commitment
          PROVE  i = j
      <4>1. \A k \in CommitEvents(e) : log'[e][k].commitment # commitment
        BY <2>1, <2>2, <3>3
      <4>2. CASE i \in CommitEvents(e) /\ j \in CommitEvents(e)
        BY <2>1, <2>2, <3>6, <4>2
      <4>3. CASE i = last \/ j = last
        BY <1>5, <3>4, <3>6, <4>1, <4>3
      <4>4. QED
        BY <3>4, <4>2, <4>3
    <3>7. ASSUME NEW c \in Committed(e)'
          PROVE  \E i \in CommitEvents(e)' : log'[e][i].commitment = c
      <4>1. CASE c \in Committed(e)
        BY <2>1, <2>2, <3>4, <4>1
      <4>2. CASE c = commitment
        BY <1>5, <3>4, <4>2
      <4>3. QED
        BY <3>2, <4>1, <4>2
    <3>8. QED
      BY <3>5, <3>6, <3>7
  <2>5. QED
    BY <2>3, <2>4
<1>10. QED
  BY <1>7, <1>8, <1>9 DEF BallotInv

\* A reveal uses no nullifier, keeps every bucket and counts one option of the election.
LEMMA RevealKeepsBallotInv ==
    ASSUME BallotInv, IndInv',
           NEW f \in Elections, NEW vote \in Votes, NEW salt \in Salts \cup {BadFr},
           NEW commitment \in Commitments,
           Reveal(f, vote, salt, commitment)
    PROVE  BallotInv'
<1> DEFINE entry == pending[f][commitment]
           opened == [entry EXCEPT !.revealed = TRUE]
<1>1. TypeOK
  BY DEF BallotInv, IndInv
<1>2. /\ Exists(f)
      /\ vote < elections[f].optionCount
      /\ entry # None
      /\ pending' = [pending EXCEPT ![f][commitment] = opened]
      /\ IncrementTally(f, vote, entry.bucket)
      /\ UNCHANGED <<elections, nullifiers>>
  BY DEF Reveal, RevealAccepted
<1>3. PICK event \in Event :
        /\ event = [type |-> "VoteRevealed", commitment |-> commitment, vote |-> vote]
        /\ LogEvent(f, event)
  BY <1>1, RevealLogs
<1>4. /\ event \in Event
      /\ event.type \notin {"VoteCast", "VoteCommitted"}
      /\ LogEvent(f, event)
  BY <1>3
<1>5. vote \in Options /\ entry \in PendingCommitment
  BY <1>1, RevealTyping DEF Reveal
<1>6. opened # None /\ opened.bucket = entry.bucket /\ entry.bucket \in Buckets
  <2>1. opened \in PendingCommitment /\ opened.bucket = entry.bucket /\ entry.bucket \in Buckets
    BY <1>5 DEF PendingCommitment
  <2>2. QED
    BY <2>1, ContractAssumption
<1> HIDE DEF entry, opened
<1>7. ASSUME NEW e \in Elections
      PROVE  /\ CastEvents(e)' = CastEvents(e)
             /\ CommitEvents(e)' = CommitEvents(e)
             /\ \A i \in DOMAIN log[e] : log'[e][i] = log[e][i]
  <2>1. /\ CastEvents(e)' = IF e = f /\ event.type \in {"VoteCast", "VoteCommitted"}
                            THEN CastEvents(e) \cup {Len(log[f]) + 1} ELSE CastEvents(e)
        /\ CommitEvents(e)' = IF e = f /\ event.type = "VoteCommitted"
                              THEN CommitEvents(e) \cup {Len(log[f]) + 1} ELSE CommitEvents(e)
        /\ \A i \in DOMAIN log[e] : log'[e][i] = log[e][i]
    BY <1>1, <1>4, LogOfOneMore
  <2>2. QED
    BY <1>4, <2>1
<1>8. ScopeIsDerived' /\ NullifiersEligible' /\ LogMatchesNullifiers'
  BY <1>2, <1>7, SameNullifiers
<1>9. TallyInRange'
  <2> SUFFICES ASSUME NEW e \in Elections, NEW option \in Options, NEW bucket \in Buckets,
                      tally'[e][option][bucket] > 0
               PROVE  Exists(e)' /\ option < elections'[e].optionCount
    BY DEF TallyInRange
  <2>1. (e = f /\ option = vote) \/ tally[e][option][bucket] > 0
    BY <1>1, <1>2, <1>5, <1>6, TallyOfOneMore
  <2>2. QED
    BY <1>2, <2>1 DEF BallotInv, TallyInRange, Exists
<1>10. LogMatchesCommitments'
  <2>1. ASSUME NEW e \in Elections
        PROVE  /\ Committed(e)' = Committed(e)
               /\ \A c \in Committed(e) : pending'[e][c].bucket = pending[e][c].bucket
    <3>1. \A c \in Commitments :
            pending'[e][c] = IF e = f /\ c = commitment THEN opened ELSE pending[e][c]
      BY <1>1, <1>2 DEF TypeOK
    <3>2. e = f => pending[e][commitment] = entry
      BY DEF entry
    <3>3. Committed(e)' = Committed(e)
      BY <1>2, <1>6, <3>1, <3>2 DEF Committed
    <3>4. \A c \in Committed(e) : pending'[e][c].bucket = pending[e][c].bucket
      BY <1>6, <3>1, <3>2 DEF Committed
    <3>5. QED
      BY <3>3, <3>4
  <2>2. QED
    BY <1>7, <2>1, SameCommitments
<1>11. QED
  BY <1>8, <1>9, <1>10 DEF BallotInv

\* What open_election stores: a configuration with the scope of the election, and
\* no other.
LEMMA OpenedConfig ==
    ASSUME TypeOK, NEW caller \in Callers, NEW f \in Elections, OpenElection(caller, f)
    PROVE  /\ ~ Exists(f)
           /\ elections'[f] \in ElectionConfig
           /\ elections'[f].scope = ScopeOf[f]
           /\ now < elections'[f].closesAt
           /\ \A e \in Elections : e # f => elections'[e] = elections[e]
           /\ UNCHANGED <<now, nullifiers, tally, pending, commitCount, revealCount, log>>
<1>1. PICK scope \in {ScopeOf[f], BadFr}, mode \in Modes,
           stateRoot, associationRoot \in Roots \cup {BadFr}, optionCount \in OptionCounts,
           opensAt, closesAt, revealClosesAt \in Times :
        /\ ValidOptionCount(optionCount)
        /\ opensAt < closesAt
        /\ mode = "R1" => closesAt < revealClosesAt
        /\ now < closesAt
        /\ BadFr \notin {scope, stateRoot, associationRoot}
        /\ elections' = [elections EXCEPT ![f] =
              [scope |-> scope, mode |-> mode, stateRoot |-> stateRoot,
               associationRoot |-> associationRoot, optionCount |-> optionCount,
               opensAt |-> opensAt, closesAt |-> closesAt,
               revealClosesAt |-> revealClosesAt]]
  BY Zenon DEF OpenElection
<1>2. elections'[f] = [scope |-> scope, mode |-> mode, stateRoot |-> stateRoot,
                       associationRoot |-> associationRoot, optionCount |-> optionCount,
                       opensAt |-> opensAt, closesAt |-> closesAt,
                       revealClosesAt |-> revealClosesAt]
  BY <1>1 DEF TypeOK
<1>3. scope = ScopeOf[f] /\ scope \in Scopes /\ stateRoot \in Roots /\ associationRoot \in Roots
  BY <1>1, ContractAssumption
<1>4. elections'[f] \in ElectionConfig
  BY <1>1, <1>2, <1>3 DEF ElectionConfig, ValidOptionCount
<1>5. \A e \in Elections : e # f => elections'[e] = elections[e]
  BY <1>1 DEF TypeOK
<1>6. QED
  BY <1>1, <1>2, <1>3, <1>4, <1>5 DEF OpenElection

\* Opening an election gives it its scope before anybody has voted in it.
LEMMA OpenElectionKeepsBallotInv ==
    ASSUME BallotInv, IndInv', NEW caller \in Callers, NEW f \in Elections,
           OpenElection(caller, f)
    PROVE  BallotInv'
<1>1. TypeOK
  BY DEF BallotInv, IndInv
<1>2. /\ ~ Exists(f)
      /\ elections'[f] \in ElectionConfig
      /\ elections'[f].scope = ScopeOf[f]
      /\ \A e \in Elections : e # f => elections'[e] = elections[e]
      /\ UNCHANGED <<nullifiers, tally, pending, log>>
  BY <1>1, OpenedConfig
<1>3. nullifiers[f] = {}
  BY <1>2 DEF BallotInv, ScopeIsDerived
<1>4. elections'[f] # None
  BY <1>2, ContractAssumption
<1>5. ScopeIsDerived'
  BY <1>2, <1>4 DEF BallotInv, ScopeIsDerived, Exists
<1>6. NullifiersEligible'
  BY <1>2, <1>3 DEF BallotInv, NullifiersEligible
<1>7. TallyInRange'
  <2> SUFFICES ASSUME NEW e \in Elections, NEW option \in Options, NEW bucket \in Buckets,
                      tally'[e][option][bucket] > 0
               PROVE  Exists(e)' /\ option < elections'[e].optionCount
    BY DEF TallyInRange
  <2>1. Exists(e) /\ option < elections[e].optionCount
    BY <1>2 DEF BallotInv, TallyInRange
  <2>2. QED
    BY <1>2, <2>1 DEF Exists
<1>8. LogMatchesNullifiers'
  BY <1>2 DEF BallotInv, LogMatchesNullifiers, CastEvents
<1>9. LogMatchesCommitments'
  BY <1>2 DEF BallotInv, LogMatchesCommitments, CommitEvents, Committed
<1>10. QED
  BY <1>5, <1>6, <1>7, <1>8, <1>9 DEF BallotInv

\* The ballots of every reachable state are eligible, logged and stored alike.
THEOREM BallotInvHolds == Spec => []BallotInv
<1>1. Init => BallotInv
  <2> SUFFICES ASSUME Init PROVE BallotInv
    OBVIOUS
  <2>1. IndInv
    BY InitIndInv
  <2>2. ASSUME NEW e \in Elections
        PROVE  ~ Exists(e) /\ nullifiers[e] = {} /\ log[e] = <<>>
    BY DEF Init, Exists
  <2>3. \A e \in Elections, option \in Options, bucket \in Buckets : tally[e][option][bucket] = 0
    BY DEF Init
  <2>4. \A e \in Elections : CastEvents(e) = {} /\ CommitEvents(e) = {} /\ Committed(e) = {}
    BY <2>2 DEF Init, CastEvents, CommitEvents, Committed
  <2>5. ScopeIsDerived /\ NullifiersEligible /\ TallyInRange
    BY <2>2, <2>3 DEF ScopeIsDerived, NullifiersEligible, TallyInRange
  <2>6. LogMatchesNullifiers /\ LogMatchesCommitments
    BY <2>4 DEF LogMatchesNullifiers, LogMatchesCommitments
  <2>7. QED
    BY <2>1, <2>5, <2>6 DEF BallotInv
<1>2. BallotInv /\ IndInv' /\ [Next]_vars => BallotInv'
  <2> SUFFICES ASSUME BallotInv, IndInv', [Next]_vars PROVE BallotInv'
    OBVIOUS
  <2>1. CASE UNCHANGED <<elections, nullifiers, tally, pending, log>>
    <3>1. ScopeIsDerived' /\ NullifiersEligible' /\ TallyInRange'
      BY <2>1 DEF BallotInv, ScopeIsDerived, NullifiersEligible, TallyInRange, Exists
    <3>2. LogMatchesNullifiers' /\ LogMatchesCommitments'
      BY <2>1 DEF BallotInv, LogMatchesNullifiers, LogMatchesCommitments,
                  CastEvents, CommitEvents, Committed
    <3>3. QED
      BY <3>1, <3>2 DEF BallotInv
  <2>2. QED
    BY <2>1, Frames, OpenElectionKeepsBallotInv, CastR0KeepsBallotInv, CastR1KeepsBallotInv,
       RevealKeepsBallotInv DEF Next
<1>3. QED
  BY <1>1, <1>2, IndInvHolds, PTL DEF Spec

-----------------------------------------------------------------------------
(* Who votes, and how often *)

\* Nobody outside the two groups of an election has a ballot in it and no vote is for
\* an option it does not have, whatever groups, scope and option count a proof
\* was made for.
THEOREM OnlyMembersVote == Spec => []EligibleBallotsOnly
<1>1. BallotInv => EligibleBallotsOnly
  BY DEF BallotInv, IndInv, NullifiersEligible, SealedBallotsSound, TallyInRange,
         EligibleBallotsOnly
<1>2. QED
  BY <1>1, BallotInvHolds, PTL

\* A ballot in the log of an election is known by its voter: the rest of its nullifier
\* is the scope of the election.
LEMMA NullifierOfVoter ==
    ASSUME BallotInv, NEW e \in Elections, NEW i \in CastEvents(e)
    PROVE  /\ log[e][i].nullifier \in nullifiers[e]
           /\ log[e][i].nullifier = <<log[e][i].nullifier[1], ScopeOf[e]>>
           /\ log[e][i].nullifier[1] \in Credentials
<1>1. log[e][i].nullifier \in nullifiers[e]
  BY DEF BallotInv, LogMatchesNullifiers
<1>2. log[e][i].nullifier \in Nullifiers
  BY <1>1 DEF BallotInv, IndInv, TypeOK
<1>3. log[e][i].nullifier[2] = ScopeOf[e]
  BY <1>1 DEF BallotInv, NullifiersEligible
<1>4. QED
  BY <1>1, <1>2, <1>3 DEF Nullifiers

\* Two ballots of one voter in the log of an election are the same ballot.
LEMMA OneVoterOneBallot ==
    ASSUME BallotInv, NEW e \in Elections, NEW i \in CastEvents(e), NEW j \in CastEvents(e),
           log[e][i].nullifier[1] = log[e][j].nullifier[1]
    PROVE  i = j
<1>1. log[e][i].nullifier = log[e][j].nullifier
  BY NullifierOfVoter
<1>2. QED
  BY <1>1 DEF BallotInv, LogMatchesNullifiers

\* For any voters, groups, proofs and order of calls: one ballot for each voter of an
\* election, and no nullifier that two elections have in common.
THEOREM OneBallotEach == Spec => []OneBallotPerCredential
<1>1. BallotInv => OneBallotPerCredential
  <2> SUFFICES ASSUME BallotInv PROVE OneBallotPerCredential
    OBVIOUS
  <2>1. ASSUME NEW e \in Elections, NEW i \in DOMAIN log[e], NEW j \in DOMAIN log[e],
               log[e][i].type \in {"VoteCast", "VoteCommitted"},
               log[e][j].type \in {"VoteCast", "VoteCommitted"},
               log[e][i].nullifier[1] = log[e][j].nullifier[1]
        PROVE  i = j
    <3>1. i \in CastEvents(e) /\ j \in CastEvents(e)
      BY <2>1 DEF CastEvents
    <3>2. QED
      BY <2>1, <3>1, OneVoterOneBallot
  <2>2. ASSUME NEW e \in Elections, NEW f \in Elections, e # f,
               NEW n \in nullifiers[e] \cap nullifiers[f]
        PROVE  FALSE
    <3>1. n[2] = ScopeOf[e] /\ n[2] = ScopeOf[f]
      BY DEF BallotInv, NullifiersEligible
    <3>2. QED
      BY <2>2, <3>1, ContractAssumption
  <2>3. QED
    BY <2>1, <2>2 DEF OneBallotPerCredential
<1>2. QED
  BY <1>1, BallotInvHolds, PTL

-----------------------------------------------------------------------------
(* The events and the tally *)

\* The events that are a vote for an option in a bucket.
Counting(e, option, bucket) == {i \in DOMAIN log[e] : CountsFor(e, i, option, bucket)}

\* The events that count for a bucket are finitely many.
LEMMA CountingFinite ==
    ASSUME TypeOK, NEW e \in Elections, NEW option, NEW bucket
    PROVE  IsFiniteSet(Counting(e, option, bucket)) /\ Cardinality(Counting(e, option, bucket)) \in Nat
<1>1. DOMAIN log[e] = 1 .. Len(log[e]) /\ Len(log[e]) \in Nat
  BY DEF TypeOK
<1>2. IsFiniteSet(DOMAIN log[e])
  BY <1>1, FS_Interval
<1>3. Counting(e, option, bucket) \in SUBSET DOMAIN log[e]
  BY DEF Counting
<1>4. QED
  BY <1>2, <1>3, FS_Subset, FS_CardinalityType

\* A new event is a vote for the option and the bucket it says, or, when it is a
\* reveal, the bucket of the event that committed to it; the events before it
\* are what they were.
LEMMA CountingOfOneMore ==
    ASSUME TypeOK, NEW f \in Elections, NEW event \in Event, LogEvent(f, event),
           NEW e \in Elections, NEW option, NEW bucket,
           NEW counts \in BOOLEAN,
           counts <=> \/ /\ event.type = "VoteCast"
                         /\ event.vote = option
                         /\ event.bucket = bucket
                      \/ /\ event.type = "VoteRevealed"
                         /\ event.vote = option
                         /\ \E j \in CommitEvents(f) : /\ log[f][j].commitment = event.commitment
                                                       /\ log[f][j].bucket = bucket
    PROVE  Cardinality(Counting(e, option, bucket)') =
              IF e = f /\ counts THEN Cardinality(Counting(e, option, bucket)) + 1
              ELSE Cardinality(Counting(e, option, bucket))
<1>0. PICK last \in Nat : last = Len(log[f]) + 1
  BY DEF TypeOK
<1>1. /\ last \notin DOMAIN log[f]
      /\ log'[f][last] = event
      /\ \A i \in DOMAIN log[e] : log'[e][i] = log[e][i]
      /\ \A i \in DOMAIN log[f] : log'[f][i] = log[f][i]
      /\ DOMAIN log'[e] = IF e = f THEN DOMAIN log[e] \cup {last} ELSE DOMAIN log[e]
  BY <1>0, LogOfOneMore
<1>2. /\ DOMAIN log[e] = 1 .. Len(log[e]) /\ Len(log[e]) \in Nat
      /\ DOMAIN log[f] = 1 .. last - 1 /\ last \in Nat
  BY <1>0 DEF TypeOK
<1>3. ASSUME NEW i \in DOMAIN log[e]
      PROVE  CountsFor(e, i, option, bucket)' <=> CountsFor(e, i, option, bucket)
  <2>1. log'[e][i] = log[e][i] /\ \A j \in 1 .. i - 1 : log'[e][j] = log[e][j]
    BY <1>1, <1>2
  <2>2. QED
    BY <2>1 DEF CountsFor
<1>4. CountsFor(f, last, option, bucket)' <=> counts
  <2>1. \A j \in 1 .. last - 1 : log'[f][j] = log[f][j]
    BY <1>1, <1>2
  <2>2. (\E j \in 1 .. last - 1 : /\ log'[f][j].type = "VoteCommitted"
                                  /\ log'[f][j].commitment = event.commitment
                                  /\ log'[f][j].bucket = bucket)
        <=> (\E j \in CommitEvents(f) : /\ log[f][j].commitment = event.commitment
                                       /\ log[f][j].bucket = bucket)
    BY <1>2, <2>1 DEF CommitEvents
  <2>3. CountsFor(f, last, option, bucket)' <=>
            \/ /\ log'[f][last].type = "VoteCast"
               /\ log'[f][last].vote = option
               /\ log'[f][last].bucket = bucket
            \/ /\ log'[f][last].type = "VoteRevealed"
               /\ log'[f][last].vote = option
               /\ \E j \in 1 .. last - 1 : /\ log'[f][j].type = "VoteCommitted"
                                           /\ log'[f][j].commitment = log'[f][last].commitment
                                           /\ log'[f][j].bucket = bucket
    BY Zenon DEF CountsFor
  <2>4. log'[f][last] = event
    BY <1>1
  <2>5. QED
    BY <2>2, <2>3, <2>4
<1>5. Counting(e, option, bucket)' = IF e = f /\ counts THEN Counting(e, option, bucket) \cup {last}
                                     ELSE Counting(e, option, bucket)
  <2>1. CASE e # f
    BY <1>1, <1>3, <2>1 DEF Counting
  <2>2. CASE e = f
    <3>1. Counting(e, option, bucket)' =
            {i \in DOMAIN log[e] \cup {last} : CountsFor(e, i, option, bucket)'}
      BY <1>1, <2>2 DEF Counting
    <3>2. QED
      BY <1>3, <1>4, <2>2, <3>1 DEF Counting
  <2>3. QED
    BY <2>1, <2>2
<1>6. e = f => last \notin Counting(e, option, bucket)
  BY <1>1 DEF Counting
<1>7. QED
  BY <1>5, <1>6, CountingFinite, FS_AddElement

\* A step that counts a vote for an option in a bucket logs it so, and no other does.
LEMMA TallyStep ==
    ASSUME BallotInv, TallyMatchesEvents,
           NEW f \in Elections, NEW event \in Event, LogEvent(f, event),
           NEW vote \in Options, NEW kept \in Buckets, IncrementTally(f, vote, kept),
           event.vote = vote,
           \/ event.type = "VoteCast" /\ event.bucket = kept
           \/ /\ event.type = "VoteRevealed"
              /\ event.commitment \in Committed(f)
              /\ pending[f][event.commitment].bucket = kept
    PROVE  TallyMatchesEvents'
<1> SUFFICES ASSUME NEW e \in Elections, NEW option \in Options, NEW bucket \in Buckets
             PROVE  tally'[e][option][bucket] = Cardinality(Counting(e, option, bucket)')
  BY DEF TallyMatchesEvents, Counting
<1> DEFINE counts == option = vote /\ bucket = kept
<1>1. TypeOK
  BY DEF BallotInv, IndInv
<1>2. counts <=> \/ /\ event.type = "VoteCast"
                    /\ event.vote = option
                    /\ event.bucket = bucket
                 \/ /\ event.type = "VoteRevealed"
                    /\ event.vote = option
                    /\ \E j \in CommitEvents(f) : /\ log[f][j].commitment = event.commitment
                                                  /\ log[f][j].bucket = bucket
  <2>1. CASE event.type = "VoteCast" /\ event.bucket = kept
    BY <2>1
  <2>2. CASE /\ event.type = "VoteRevealed"
             /\ event.commitment \in Committed(f)
             /\ pending[f][event.commitment].bucket = kept
    <3>1. \E j \in CommitEvents(f) : log[f][j].commitment = event.commitment
      BY <2>2 DEF BallotInv, LogMatchesCommitments
    <3>2. \A j \in CommitEvents(f) : log[f][j].commitment = event.commitment =>
                                     log[f][j].bucket = kept
      BY <2>2 DEF BallotInv, LogMatchesCommitments
    <3>3. QED
      BY <2>2, <3>1, <3>2
  <2>3. QED
    BY <2>1, <2>2
<1>3. Cardinality(Counting(e, option, bucket)') =
         IF e = f /\ counts THEN Cardinality(Counting(e, option, bucket)) + 1
         ELSE Cardinality(Counting(e, option, bucket))
  <2> HIDE DEF counts
  <2>1. counts \in BOOLEAN
    BY DEF counts
  <2>2. QED
    BY <1>1, <1>2, <2>1, CountingOfOneMore
<1>4. tally[e][option][bucket] = Cardinality(Counting(e, option, bucket))
  BY DEF TallyMatchesEvents, Counting
<1>5. QED
  BY <1>1, <1>3, <1>4, TallyOfOneMore

\* What an auditor recomputes from the events is what the contract stores, bucket by
\* bucket, for any number of elections, voters and events.
THEOREM EventsTellTheTally == Spec => []TallyMatchesEvents
<1>1. Init => TallyMatchesEvents
  <2> SUFFICES ASSUME Init, NEW e \in Elections, NEW option \in Options, NEW bucket \in Buckets
               PROVE  tally[e][option][bucket] = Cardinality(Counting(e, option, bucket))
    BY DEF TallyMatchesEvents, Counting
  <2>1. log[e] = <<>> /\ tally[e][option][bucket] = 0
    BY DEF Init
  <2>2. Counting(e, option, bucket) = {}
    BY <2>1 DEF Counting
  <2>3. QED
    BY <2>1, <2>2, FS_EmptySet
<1>2. BallotInv /\ TallyMatchesEvents /\ [Next]_vars => TallyMatchesEvents'
  <2> SUFFICES ASSUME BallotInv, TallyMatchesEvents, [Next]_vars PROVE TallyMatchesEvents'
    OBVIOUS
  <2>1. TypeOK
    BY DEF BallotInv, IndInv
  <2>2. CASE UNCHANGED <<tally, log>>
    BY <2>2 DEF TallyMatchesEvents, CountsFor
  <2>3. ASSUME NEW f \in Elections, NEW credential \in Credentials, NEW vote \in Votes,
               NEW scope \in Scopes, NEW optionCount \in OptionCounts,
               NEW stateRoot \in Roots, NEW associationRoot \in Roots,
               CastR0(f, credential, vote, scope, optionCount, stateRoot, associationRoot)
        PROVE  TallyMatchesEvents'
    <3> DEFINE nullifier == NullifierHash(credential, scope)
    <3>1. PICK event \in Event :
            /\ event = [type |-> "VoteCast", nullifier |-> nullifier,
                        vote |-> vote, bucket |-> BucketOf[nullifier]]
            /\ LogEvent(f, event)
      BY <2>1, <2>3, CastR0Logs
    <3>2. /\ event \in Event /\ LogEvent(f, event)
          /\ event.type = "VoteCast" /\ event.vote = vote /\ event.bucket = BucketOf[nullifier]
      BY <3>1
    <3>3. /\ vote \in Options /\ BucketOf[nullifier] \in Buckets
          /\ IncrementTally(f, vote, BucketOf[nullifier])
      BY <2>1, <2>3, CastR0Typing DEF CastR0
    <3> HIDE DEF nullifier
    <3>4. QED
      BY <3>2, <3>3, TallyStep
  <2>4. ASSUME NEW f \in Elections, NEW credential \in Credentials, NEW vote \in Votes,
               NEW salt \in Salts \cup {BadFr}, NEW scope \in Scopes,
               NEW optionCount \in OptionCounts,
               NEW stateRoot \in Roots, NEW associationRoot \in Roots,
               CastR1(f, credential, vote, salt, scope, optionCount, stateRoot, associationRoot)
        PROVE  TallyMatchesEvents'
    <3>1. \E event \in Event : event.type = "VoteCommitted" /\ LogEvent(f, event)
      BY <2>1, <2>4, CastR1Logs
    <3>2. PICK event \in Event : event.type = "VoteCommitted" /\ LogEvent(f, event)
      BY <3>1
    <3>3. UNCHANGED tally
      BY <2>4 DEF CastR1
    <3>4. ASSUME NEW e \in Elections, NEW option \in Options, NEW bucket \in Buckets
          PROVE  tally'[e][option][bucket] = Cardinality(Counting(e, option, bucket)')
      <4>1. Cardinality(Counting(e, option, bucket)') = Cardinality(Counting(e, option, bucket))
        <5> DEFINE counts == FALSE
        <5>1. counts <=> \/ /\ event.type = "VoteCast"
                            /\ event.vote = option
                            /\ event.bucket = bucket
                         \/ /\ event.type = "VoteRevealed"
                            /\ event.vote = option
                            /\ \E j \in CommitEvents(f) :
                                  /\ log[f][j].commitment = event.commitment
                                  /\ log[f][j].bucket = bucket
          BY <3>2
        <5>2. counts \in BOOLEAN /\ ~ counts
          OBVIOUS
        <5> HIDE DEF counts
        <5>3. QED
          BY <2>1, <3>2, <5>1, <5>2, CountingOfOneMore
      <4>2. QED
        BY <3>3, <4>1 DEF TallyMatchesEvents, Counting
    <3>5. QED
      BY <3>4 DEF TallyMatchesEvents, Counting
  <2>5. ASSUME NEW f \in Elections, NEW vote \in Votes, NEW salt \in Salts \cup {BadFr},
               NEW commitment \in Commitments, Reveal(f, vote, salt, commitment)
        PROVE  TallyMatchesEvents'
    <3>1. PICK event \in Event :
            /\ event = [type |-> "VoteRevealed", commitment |-> commitment, vote |-> vote]
            /\ LogEvent(f, event)
      BY <2>1, <2>5, RevealLogs
    <3>2. /\ event \in Event /\ LogEvent(f, event) /\ event.type = "VoteRevealed"
          /\ event.vote = vote /\ event.commitment = commitment
      BY <3>1
    <3>3. /\ vote \in Options /\ pending[f][commitment].bucket \in Buckets
          /\ commitment \in Committed(f)
          /\ IncrementTally(f, vote, pending[f][commitment].bucket)
      BY <2>1, <2>5, RevealTyping DEF Reveal, RevealAccepted, Committed
    <3>4. PICK kept \in Buckets : kept = pending[f][commitment].bucket
      BY <3>3
    <3>5. QED
      BY <3>2, <3>3, <3>4, TallyStep
  <2>6. QED
    BY <2>2, <2>3, <2>4, <2>5, Frames DEF Next
<1>3. QED
  BY <1>1, <1>2, BallotInvHolds, PTL DEF Spec

-----------------------------------------------------------------------------
(* No voter is locked out *)

\* The members of the state tree of an election.
Members(e) == StateTree[elections[e].stateRoot]

\* As long as one member has not voted, the ballots of an election are fewer than
\* its members.
LEMMA FewerBallotsThanVoters ==
    ASSUME BallotInv, NEW e \in Elections, Exists(e), NEW credential \in Members(e),
           NullifierHash(credential, ScopeOf[e]) \notin nullifiers[e]
    PROVE  /\ IsFiniteSet(CastEvents(e))
           /\ Cardinality(CastEvents(e)) \in Nat
           /\ Cardinality(Members(e)) \in Nat
           /\ Cardinality(CastEvents(e)) < Cardinality(Members(e))
<1> DEFINE Others == Members(e) \ {credential}
           voter == [i \in CastEvents(e) |-> log[e][i].nullifier[1]]
<1>1. ASSUME NEW i \in CastEvents(e)
      PROVE  log[e][i].nullifier[1] \in Others
  <2>1. /\ log[e][i].nullifier \in nullifiers[e]
        /\ log[e][i].nullifier = <<log[e][i].nullifier[1], ScopeOf[e]>>
        /\ log[e][i].nullifier[1] \in Members(e)
    BY NullifierOfVoter DEF BallotInv, NullifiersEligible, Members
  <2>2. log[e][i].nullifier[1] # credential
    BY <2>1 DEF NullifierHash
  <2>3. QED
    BY <2>1, <2>2
<1>2. voter \in Injection(CastEvents(e), Others)
  <2>1. voter \in [CastEvents(e) -> Others]
    BY <1>1
  <2>2. ASSUME NEW i \in CastEvents(e), NEW j \in CastEvents(e), voter[i] = voter[j]
        PROVE  i = j
    BY <2>2, OneVoterOneBallot
  <2>3. QED
    BY <2>1, <2>2 DEF Injection, IsInjective
<1>3. /\ IsFiniteSet(Others)
      /\ Cardinality(Others) = Cardinality(Members(e)) - 1
      /\ Cardinality(Members(e)) \in Nat
  <2>1. elections[e].stateRoot \in Roots
    BY DEF BallotInv, IndInv, TypeOK, Exists, ElectionConfig
  <2>2. Members(e) \in SUBSET Credentials
    BY <2>1, CircuitAssumption DEF Members
  <2>3. IsFiniteSet(Members(e))
    BY <2>2, CircuitAssumption, FS_Subset
  <2>4. QED
    BY <2>3, FS_RemoveElement, FS_CardinalityType
<1> HIDE DEF Others, voter
<1>4. /\ IsFiniteSet(CastEvents(e))
      /\ Cardinality(CastEvents(e)) <= Cardinality(Others)
  BY <1>2, <1>3, FS_Injection
<1>5. Cardinality(CastEvents(e)) \in Nat
  BY <1>4, FS_CardinalityType
<1>6. QED
  BY <1>3, <1>4, <1>5

\* So neither a tally bucket of a public election nor the commit counter of a sealed
\* one is full, and one salt at least gives a new commitment.
LEMMA RoomForOneMore ==
    ASSUME BallotInv, TallyMatchesEvents, NEW e \in Elections, Exists(e),
           NEW credential \in Members(e),
           NullifierHash(credential, ScopeOf[e]) \notin nullifiers[e],
           Cardinality(Members(e)) <= CountMax,
           Cardinality(Members(e)) <= Cardinality(Salts)
    PROVE  /\ elections[e].mode = "R0" =>
                \A option \in Options, bucket \in Buckets : tally[e][option][bucket] < TallyMax
           /\ commitCount[e] < CountMax
           /\ \A vote : \E salt \in Salts : <<vote, salt, elections[e].scope>> \notin Committed(e)
<1>1. /\ IsFiniteSet(CastEvents(e))
      /\ Cardinality(CastEvents(e)) \in Nat
      /\ Cardinality(Members(e)) \in Nat
      /\ Cardinality(CastEvents(e)) < Cardinality(Members(e))
  BY FewerBallotsThanVoters
<1>2. ASSUME elections[e].mode = "R0", NEW option \in Options, NEW bucket \in Buckets
      PROVE  tally[e][option][bucket] < TallyMax
  <2>1. CommitEvents(e) = {}
    BY <1>2 DEF BallotInv, IndInv, SealedBallotsSound, LogMatchesCommitments
  <2>2. Counting(e, option, bucket) \subseteq CastEvents(e)
    <3>1. DOMAIN log[e] = 1 .. Len(log[e]) /\ Len(log[e]) \in Nat
      BY DEF BallotInv, IndInv, TypeOK
    <3>2. ASSUME NEW i \in DOMAIN log[e], CountsFor(e, i, option, bucket)
          PROVE  log[e][i].type = "VoteCast"
      <4>1. \A j \in 1 .. i - 1 : j \in DOMAIN log[e]
        BY <3>1
      <4>2. \A j \in 1 .. i - 1 : log[e][j].type # "VoteCommitted"
        BY <2>1, <4>1 DEF CommitEvents
      <4>3. QED
        BY <3>2, <4>2 DEF CountsFor
    <3>3. QED
      BY <3>2 DEF Counting, CastEvents
  <2>3. Cardinality(Counting(e, option, bucket)) <= Cardinality(CastEvents(e))
    BY <1>1, <2>2, FS_Subset
  <2>4. /\ tally[e][option][bucket] = Cardinality(Counting(e, option, bucket))
        /\ Cardinality(Counting(e, option, bucket)) \in Nat
    BY CountingFinite DEF TallyMatchesEvents, Counting, BallotInv, IndInv
  <2>5. QED
    BY <1>1, <2>3, <2>4, ContractAssumption
<1>3. Cardinality(Committed(e)) <= Cardinality(CastEvents(e)) /\ Cardinality(Committed(e)) \in Nat
  <2> DEFINE opening == [i \in CommitEvents(e) |-> log[e][i].commitment]
  <2>1. opening \in Surjection(CommitEvents(e), Committed(e))
    <3>1. opening \in [CommitEvents(e) -> Committed(e)]
      BY DEF BallotInv, LogMatchesCommitments
    <3>2. \A c \in Committed(e) : \E i \in CommitEvents(e) : opening[i] = c
      BY DEF BallotInv, LogMatchesCommitments
    <3>3. QED
      BY <3>1, <3>2 DEF Surjection
  <2>2. CommitEvents(e) \subseteq CastEvents(e)
    BY DEF CommitEvents, CastEvents
  <2>3. /\ IsFiniteSet(CommitEvents(e))
        /\ Cardinality(CommitEvents(e)) <= Cardinality(CastEvents(e))
    BY <1>1, <2>2, FS_Subset
  <2> HIDE DEF opening
  <2>4. IsFiniteSet(Committed(e)) /\ Cardinality(Committed(e)) <= Cardinality(CommitEvents(e))
    BY <2>1, <2>3, FS_Surjection
  <2>5. QED
    BY <1>1, <2>3, <2>4, FS_CardinalityType
<1>4. commitCount[e] < CountMax
  <2>1. commitCount[e] = Cardinality(Committed(e))
    BY DEF BallotInv, IndInv, CountersMatchCommitments
  <2>2. QED
    BY <1>1, <1>3, <2>1, ContractAssumption
<1>5. ASSUME NEW vote, \A salt \in Salts : <<vote, salt, elections[e].scope>> \in Committed(e)
      PROVE  FALSE
  <2> DEFINE sealed == [salt \in Salts |-> <<vote, salt, elections[e].scope>>]
  <2>1. sealed \in Injection(Salts, Committed(e))
    BY <1>5 DEF Injection, IsInjective
  <2> HIDE DEF sealed
  <2>2. Cardinality(Salts) <= Cardinality(Committed(e))
    BY <2>1, CountedSetsFinite, FS_Injection
  <2>3. Cardinality(Salts) \in Nat
    BY CircuitAssumption, FS_CardinalityType
  <2>4. QED
    BY <1>1, <1>3, <2>2, <2>3
<1>6. QED
  BY <1>2, <1>4, <1>5

\* While an election is open every member can vote for every option, whatever the others
\* do, when no counter is smaller than a group and no group larger than the set
\* of salts.  In the code a tree of depth 10 has at most 2^10 leaves, a counter
\* goes to 2^32 - 1, and a salt is any non-zero field element.
THEOREM NobodyLockedOut ==
    ASSUME \A root \in Roots : /\ Cardinality(StateTree[root]) <= CountMax
                               /\ Cardinality(StateTree[root]) <= Cardinality(Salts)
    PROVE  Spec => []EligibleCanVote
<1>1. BallotInv /\ TallyMatchesEvents => EligibleCanVote
  <2> SUFFICES ASSUME BallotInv, TallyMatchesEvents, NEW e \in Elections, Exists(e),
                      Status(e) = "Open", vkBound[elections[e].mode],
                      NEW credential \in StateTree[elections[e].stateRoot]
                                           \cap AssociationTree[elections[e].associationRoot],
                      NEW vote \in 0 .. elections[e].optionCount - 1,
                      NullifierHash(credential, elections[e].scope) \notin nullifiers[e]
               PROVE  \/ CastR0Accepted(e, credential, vote, elections[e].scope,
                                        elections[e].optionCount, elections[e].stateRoot,
                                        elections[e].associationRoot)
                      \/ \E salt \in Salts :
                            CastR1Accepted(e, credential, vote, salt, elections[e].scope,
                                           elections[e].optionCount, elections[e].stateRoot,
                                           elections[e].associationRoot)
    BY DEF EligibleCanVote
  <2> DEFINE cfg == elections[e]
             nullifier == NullifierHash(credential, cfg.scope)
  <2>1. /\ cfg.stateRoot \in Roots
        /\ cfg.optionCount \in 1 .. MaxOptions
        /\ cfg.mode \in Modes
        /\ cfg.scope = ScopeOf[e]
        /\ cfg.scope \in Scopes
    BY DEF BallotInv, IndInv, TypeOK, Exists, ElectionConfig, ScopeIsDerived
  <2>2. credential \in Members(e) /\ credential \in Credentials
    BY <2>1, CircuitAssumption DEF Members
  <2>3. /\ cfg.mode = "R0" =>
                \A option \in Options, bucket \in Buckets : tally[e][option][bucket] < TallyMax
        /\ commitCount[e] < CountMax
        /\ \A v : \E salt \in Salts : <<v, salt, cfg.scope>> \notin Committed(e)
    BY <2>1, <2>2, RoomForOneMore DEF Members
  <2>4. /\ MembershipProof(credential, cfg.stateRoot, cfg.associationRoot)
        /\ VoteRangeCheck(vote, cfg.optionCount)
        /\ vote \in Options /\ vote \in Votes /\ vote < cfg.optionCount
    BY <2>1, CircuitAssumption DEF MembershipProof, VoteRangeCheck, Options, Votes
  <2>5. CASE cfg.mode = "R0"
    <3>1. BucketOf[nullifier] \in Buckets
      BY <2>1, <2>2, ContractAssumption DEF NullifierHash, Nullifiers
    <3>2. QED
      BY <2>3, <2>4, <2>5, <3>1
         DEF CastR0Accepted, CastAccepted, PublicVoteR0, CanIncrementTally
  <2>6. CASE cfg.mode = "R1"
    <3>1. PICK salt \in Salts : <<vote, salt, cfg.scope>> \notin Committed(e)
      BY <2>3
    <3>2. BallotCommitment(vote, salt, cfg.scope) \in Commitments
      BY <2>1, <2>4, <3>1 DEF BallotCommitment, Commitments
    <3>3. pending[e][BallotCommitment(vote, salt, cfg.scope)] = None
      BY <3>1, <3>2 DEF BallotCommitment, Committed
    <3>4. CastR1Accepted(e, credential, vote, salt, cfg.scope, cfg.optionCount,
                         cfg.stateRoot, cfg.associationRoot)
      BY <2>3, <2>4, <2>6, <3>1, <3>3 DEF CastR1Accepted, CastAccepted, CommitVoteR1
    <3>5. QED
      BY <3>1, <3>4
  <2>7. QED
    BY <2>1, <2>5, <2>6 DEF Modes
<1>2. QED
  BY <1>1, BallotInvHolds, EventsTellTheTally, PTL

=============================================================================
