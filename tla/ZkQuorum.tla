------------------------------ MODULE ZkQuorum ------------------------------
(***************************************************************************)
(* The zk-quorum Soroban contract: contracts/zk-quorum/src/lib.rs with the *)
(* storage layer of storage.rs and the election life cycle of types.rs.    *)
(*                                                                         *)
(* A call is one ledger transaction, so it is one atomic action.  A call   *)
(* that returns Err is rolled back by the host: it changes nothing, and is *)
(* here a step that is not enabled.  The constructor is Init.              *)
(*                                                                         *)
(* A proof verifies exactly when its public signals have a witness that    *)
(* satisfies the circuit (soundness and completeness of Groth16), so a     *)
(* cast is described by the witness its proof was made of; a call whose    *)
(* signals are not those of its proof never verifies and changes nothing.  *)
(***************************************************************************)
EXTENDS Circuits, Sequences

CONSTANTS
    Elections,          \* election ids
    Callers,            \* addresses that call open_election
    Admin,              \* the address the constructor stored
    ScopeOf,            \* the scope the host tools derive for each election
    Buckets,            \* tally buckets, 0..15 in the code
    BucketOf,           \* last nibble of each nullifier hash
    CountMax,           \* largest value of a u32 counter
    TallyMax,           \* largest value of a u64 tally bucket
    MaxTime,            \* bound on the ledger timestamp
    None                \* an absent storage entry

Modes == {"R0", "R1"}
Times == 0 .. MaxTime

ElectionConfig ==
    [scope : Scopes, mode : Modes, stateRoot : Roots, associationRoot : Roots,
     optionCount : 1 .. MaxOptions,
     opensAt : Times, closesAt : Times, revealClosesAt : Times]

PendingCommitment == [bucket : Buckets, revealed : BOOLEAN]

\* The three contract events, without the schema version and the two digests.
Event ==
    [type : {"VoteCast"}, nullifier : Nullifiers, vote : Votes, bucket : Buckets]
      \cup [type : {"VoteCommitted"}, nullifier : Nullifiers,
            commitment : Commitments, bucket : Buckets]
      \cup [type : {"VoteRevealed"}, commitment : Commitments, vote : Votes]

\* Scope derivation hashes the election id with SHA-256, so distinct elections
\* get distinct scopes.  u32 counters fit in the u64 tally buckets.
ASSUME ContractAssumption ==
    /\ IsFiniteSet(Buckets)
    /\ BucketOf \in [Nullifiers -> Buckets]
    /\ ScopeOf \in [Elections -> Scopes]
    /\ \A e, f \in Elections : ScopeOf[e] = ScopeOf[f] => e = f
    /\ MaxTime \in Nat
    /\ CountMax \in Nat
    /\ TallyMax \in Nat
    /\ CountMax <= TallyMax
    /\ None \notin ElectionConfig
    /\ None \notin PendingCommitment

VARIABLES
    now,            \* ledger timestamp
    vkBound,        \* does the stored VK of a mode hash to its stored hash
    elections,      \* Election(id): the frozen configuration, or None
    nullifiers,     \* Nullifier(id, hash): the hashes marked as used
    tally,          \* TallyBucket(id, option, bucket)
    pending,        \* PendingCommitment(id, commitment), or None
    commitCount,    \* CommitCount(id)
    revealCount,    \* RevealCount(id)
    log             \* the contract events of each election, in ledger order

vars == <<now, vkBound, elections, nullifiers, tally, pending,
          commitCount, revealCount, log>>

-----------------------------------------------------------------------------
(* The election life cycle: ElectionConfig::compute_status. *)

Exists(e) == elections[e] # None

Status(e) ==
    LET cfg == elections[e]
    IN  IF now < cfg.opensAt THEN "Pending"
        ELSE IF now < cfg.closesAt THEN "Open"
        ELSE IF cfg.mode = "R0" THEN "Closed"
        ELSE IF now < cfg.revealClosesAt THEN "RevealOpen"
        ELSE "RevealClosed"

-----------------------------------------------------------------------------
(* __constructor: it stores the verification keys and their hashes without *)
(* comparing them, so the pair of a mode may not match.                    *)

Init ==
    /\ now = 0
    /\ vkBound \in [Modes -> BOOLEAN]
    /\ elections = [e \in Elections |-> None]
    /\ nullifiers = [e \in Elections |-> {}]
    /\ tally = [e \in Elections |-> [o \in Options |-> [b \in Buckets |-> 0]]]
    /\ pending = [e \in Elections |-> [c \in Commitments |-> None]]
    /\ commitCount = [e \in Elections |-> 0]
    /\ revealCount = [e \in Elections |-> 0]
    /\ log = [e \in Elections |-> <<>>]

\* Ledgers close with a timestamp that never decreases.
Tick ==
    /\ now < MaxTime
    /\ now' = now + 1
    /\ UNCHANGED <<vkBound, elections, nullifiers, tally, pending,
                   commitCount, revealCount, log>>

\* Mutant: an election may be opened again under the same id.
OpenElection_Overwrites(caller, e) ==
    /\ caller = Admin
    /\ \E mode \in Modes, stateRoot, associationRoot \in Roots, optionCount \in 1 .. MaxOptions,
          opensAt, closesAt, revealClosesAt \in Times :
        /\ now < closesAt /\ opensAt < closesAt /\ closesAt < revealClosesAt
        /\ elections' = [elections EXCEPT ![e] =
                [scope |-> ScopeOf[e], mode |-> mode, stateRoot |-> stateRoot,
                 associationRoot |-> associationRoot, optionCount |-> optionCount,
                 opensAt |-> opensAt, closesAt |-> closesAt,
                 revealClosesAt |-> revealClosesAt]]
    /\ UNCHANGED <<now, vkBound, nullifiers, tally, pending, commitCount, revealCount, log>>

\* Mutant: the option count is not bounded by MAX_OPTIONS.
ValidOptionCount_Unbounded(optionCount) == optionCount >= 1

ValidOptionCount(optionCount) == optionCount \in 1 .. MaxOptions

OpenElection(caller, e) ==
    /\ caller = Admin
    /\ ~ Exists(e)
    /\ \E scope \in {ScopeOf[e], BadFr}, mode \in Modes,
          stateRoot, associationRoot \in Roots \cup {BadFr}, optionCount \in OptionCounts,
          opensAt, closesAt, revealClosesAt \in Times :
        /\ ValidOptionCount(optionCount)
        /\ opensAt < closesAt
        /\ mode = "R1" => closesAt < revealClosesAt
        /\ now < closesAt
        /\ BadFr \notin {scope, stateRoot, associationRoot}
        /\ elections' = [elections EXCEPT ![e] =
                [scope |-> scope, mode |-> mode, stateRoot |-> stateRoot,
                 associationRoot |-> associationRoot, optionCount |-> optionCount,
                 opensAt |-> opensAt, closesAt |-> closesAt,
                 revealClosesAt |-> revealClosesAt]]
    /\ UNCHANGED <<now, vkBound, nullifiers, tally, pending,
                   commitCount, revealCount, log>>

-----------------------------------------------------------------------------
(* cast *)

\* Mutants: one check of the cast is missing, or it is accepted too late.
CastAccepted_NoScopeCheck(e, mode, nullifier, scope, optionCount, stateRoot, associationRoot) ==
    /\ Exists(e) /\ Status(e) = "Open" /\ elections[e].mode = mode
    /\ optionCount = elections[e].optionCount
    /\ stateRoot = elections[e].stateRoot /\ associationRoot = elections[e].associationRoot
    /\ nullifier \notin nullifiers[e] /\ vkBound[mode]
CastAccepted_NoOptionCountCheck(e, mode, nullifier, scope, optionCount, stateRoot, associationRoot) ==
    /\ Exists(e) /\ Status(e) = "Open" /\ elections[e].mode = mode
    /\ stateRoot = elections[e].stateRoot /\ associationRoot = elections[e].associationRoot
    /\ scope = elections[e].scope /\ nullifier \notin nullifiers[e] /\ vkBound[mode]
CastAccepted_NoStateRootCheck(e, mode, nullifier, scope, optionCount, stateRoot, associationRoot) ==
    /\ Exists(e) /\ Status(e) = "Open" /\ elections[e].mode = mode
    /\ optionCount = elections[e].optionCount
    /\ associationRoot = elections[e].associationRoot
    /\ scope = elections[e].scope /\ nullifier \notin nullifiers[e] /\ vkBound[mode]
CastAccepted_NoNullifierCheck(e, mode, nullifier, scope, optionCount, stateRoot, associationRoot) ==
    /\ Exists(e) /\ Status(e) = "Open" /\ elections[e].mode = mode
    /\ optionCount = elections[e].optionCount
    /\ stateRoot = elections[e].stateRoot /\ associationRoot = elections[e].associationRoot
    /\ scope = elections[e].scope /\ vkBound[mode]
CastAccepted_UntilRevealCloses(e, mode, nullifier, scope, optionCount, stateRoot, associationRoot) ==
    /\ Exists(e) /\ Status(e) \in {"Open", "RevealOpen"} /\ elections[e].mode = mode
    /\ optionCount = elections[e].optionCount
    /\ stateRoot = elections[e].stateRoot /\ associationRoot = elections[e].associationRoot
    /\ scope = elections[e].scope /\ nullifier \notin nullifiers[e] /\ vkBound[mode]

\* The checks that cast_r0 and cast_r1 share: status, mode, the signals that must
\* repeat the configuration, the nullifier and the verification key.
CastAccepted(e, mode, nullifier, scope, optionCount, stateRoot, associationRoot) ==
    /\ Exists(e)
    /\ Status(e) = "Open"
    /\ elections[e].mode = mode
    /\ optionCount = elections[e].optionCount
    /\ stateRoot = elections[e].stateRoot
    /\ associationRoot = elections[e].associationRoot
    /\ scope = elections[e].scope
    /\ nullifier \notin nullifiers[e]
    /\ vkBound[mode]

CanIncrementTally(e, option, bucket) == tally[e][option][bucket] < TallyMax

IncrementTally(e, option, bucket) ==
    tally' = [tally EXCEPT ![e][option][bucket] = @ + 1]

CastR0Accepted(e, credential, vote, scope, optionCount, stateRoot, associationRoot) ==
    LET nullifier == NullifierHash(credential, scope)
    IN  /\ CastAccepted(e, "R0", nullifier, scope, optionCount, stateRoot, associationRoot)
        /\ vote < elections[e].optionCount
        /\ PublicVoteR0(credential, vote, optionCount, stateRoot, associationRoot)
        /\ CanIncrementTally(e, vote, BucketOf[nullifier])

CastR0(e, credential, vote, scope, optionCount, stateRoot, associationRoot) ==
    LET nullifier == NullifierHash(credential, scope)
        bucket == BucketOf[nullifier]
    IN  /\ CastR0Accepted(e, credential, vote, scope, optionCount, stateRoot, associationRoot)
        /\ nullifiers' = [nullifiers EXCEPT ![e] = @ \cup {nullifier}]
        /\ IncrementTally(e, vote, bucket)
        /\ log' = [log EXCEPT ![e] = Append(@,
                [type |-> "VoteCast", nullifier |-> nullifier,
                 vote |-> vote, bucket |-> bucket])]
        /\ UNCHANGED <<now, vkBound, elections, pending, commitCount, revealCount>>

CastR1Accepted(e, credential, vote, salt, scope, optionCount, stateRoot, associationRoot) ==
    /\ CastAccepted(e, "R1", NullifierHash(credential, scope), scope,
                    optionCount, stateRoot, associationRoot)
    /\ CommitVoteR1(credential, vote, salt, optionCount, stateRoot, associationRoot)
    /\ pending[e][BallotCommitment(vote, salt, scope)] = None
    /\ commitCount[e] < CountMax

\* Mutant: a full counter fails the call without undoing the commitment it stored.
CastR1_NoRollback(e, credential, vote, salt, scope, optionCount, stateRoot, associationRoot) ==
    LET nullifier == NullifierHash(credential, scope)
        commitment == BallotCommitment(vote, salt, scope)
    IN  /\ CastAccepted(e, "R1", nullifier, scope, optionCount, stateRoot, associationRoot)
        /\ CommitVoteR1(credential, vote, salt, optionCount, stateRoot, associationRoot)
        /\ pending[e][commitment] = None
        /\ nullifiers' = [nullifiers EXCEPT ![e] = @ \cup {nullifier}]
        /\ pending' = [pending EXCEPT ![e][commitment] =
                [bucket |-> BucketOf[nullifier], revealed |-> FALSE]]
        /\ commitCount' = [commitCount EXCEPT ![e] = IF @ < CountMax THEN @ + 1 ELSE @]
        /\ UNCHANGED <<now, vkBound, elections, tally, revealCount, log>>

CastR1(e, credential, vote, salt, scope, optionCount, stateRoot, associationRoot) ==
    LET nullifier == NullifierHash(credential, scope)
        commitment == BallotCommitment(vote, salt, scope)
        bucket == BucketOf[nullifier]
    IN  /\ CastR1Accepted(e, credential, vote, salt, scope, optionCount, stateRoot, associationRoot)
        /\ nullifiers' = [nullifiers EXCEPT ![e] = @ \cup {nullifier}]
        /\ pending' = [pending EXCEPT ![e][commitment] =
                [bucket |-> bucket, revealed |-> FALSE]]
        /\ commitCount' = [commitCount EXCEPT ![e] = @ + 1]
        /\ log' = [log EXCEPT ![e] = Append(@,
                [type |-> "VoteCommitted", nullifier |-> nullifier,
                 commitment |-> commitment, bucket |-> bucket])]
        /\ UNCHANGED <<now, vkBound, elections, tally, revealCount>>

-----------------------------------------------------------------------------
(* reveal: anyone who knows the opening of a commitment may call it. *)

\* Mutants: reveal() accepts at any time, after the deadline, or a second time.
RevealAccepted_AnyTime(e, vote, salt, commitment) ==
    /\ Exists(e) /\ elections[e].mode = "R1"
    /\ pending[e][commitment] # None /\ ~ pending[e][commitment].revealed
    /\ vote < elections[e].optionCount /\ salt # BadFr
    /\ BallotCommitment(vote, salt, elections[e].scope) = commitment
    /\ CanIncrementTally(e, vote, pending[e][commitment].bucket) /\ revealCount[e] < CountMax
RevealAccepted_NoDeadline(e, vote, salt, commitment) ==
    RevealAccepted_AnyTime(e, vote, salt, commitment) /\ now >= elections[e].closesAt
RevealAccepted_Again(e, vote, salt, commitment) ==
    /\ Exists(e) /\ elections[e].mode = "R1" /\ Status(e) = "RevealOpen"
    /\ pending[e][commitment] # None /\ vote < elections[e].optionCount /\ salt # BadFr
    /\ BallotCommitment(vote, salt, elections[e].scope) = commitment
    /\ CanIncrementTally(e, vote, pending[e][commitment].bucket) /\ revealCount[e] < CountMax

RevealAccepted(e, vote, salt, commitment) ==
    /\ Exists(e)
    /\ elections[e].mode = "R1"
    /\ Status(e) = "RevealOpen"
    /\ pending[e][commitment] # None
    /\ ~ pending[e][commitment].revealed
    /\ vote < elections[e].optionCount
    /\ salt # BadFr
    /\ BallotCommitment(vote, salt, elections[e].scope) = commitment
    /\ CanIncrementTally(e, vote, pending[e][commitment].bucket)
    /\ revealCount[e] < CountMax

\* Mutant: a reveal counts into a fixed bucket instead of the one stored at commit.
Reveal_FixedBucket(e, vote, salt, commitment) ==
    /\ RevealAccepted(e, vote, salt, commitment)
    /\ pending' = [pending EXCEPT ![e][commitment].revealed = TRUE]
    /\ IncrementTally(e, vote, CHOOSE b \in Buckets : TRUE)
    /\ revealCount' = [revealCount EXCEPT ![e] = @ + 1]
    /\ log' = [log EXCEPT ![e] = Append(@,
            [type |-> "VoteRevealed", commitment |-> commitment, vote |-> vote])]
    /\ UNCHANGED <<now, vkBound, elections, nullifiers, commitCount>>

Reveal(e, vote, salt, commitment) ==
    /\ RevealAccepted(e, vote, salt, commitment)
    /\ pending' = [pending EXCEPT ![e][commitment].revealed = TRUE]
    /\ IncrementTally(e, vote, pending[e][commitment].bucket)
    /\ revealCount' = [revealCount EXCEPT ![e] = @ + 1]
    /\ log' = [log EXCEPT ![e] = Append(@,
            [type |-> "VoteRevealed", commitment |-> commitment, vote |-> vote])]
    /\ UNCHANGED <<now, vkBound, elections, nullifiers, commitCount>>

-----------------------------------------------------------------------------
Next ==
    \/ Tick
    \/ \E caller \in Callers, e \in Elections : OpenElection(caller, e)
    \/ \E e \in Elections, credential \in Credentials, vote \in Votes, scope \in Scopes,
          optionCount \in OptionCounts, stateRoot, associationRoot \in Roots :
          CastR0(e, credential, vote, scope, optionCount, stateRoot, associationRoot)
    \/ \E e \in Elections, credential \in Credentials, vote \in Votes,
          salt \in Salts \cup {BadFr}, scope \in Scopes,
          optionCount \in OptionCounts, stateRoot, associationRoot \in Roots :
          CastR1(e, credential, vote, salt, scope, optionCount, stateRoot, associationRoot)
    \/ \E e \in Elections, vote \in Votes, salt \in Salts \cup {BadFr},
          commitment \in Commitments :
          Reveal(e, vote, salt, commitment)

Spec == Init /\ [][Next]_vars

-----------------------------------------------------------------------------
(* Invariants *)

TypeOK ==
    /\ now \in Times
    /\ vkBound \in [Modes -> BOOLEAN]
    /\ elections \in [Elections -> ElectionConfig \cup {None}]
    /\ nullifiers \in [Elections -> SUBSET Nullifiers]
    /\ tally \in [Elections -> [Options -> [Buckets -> 0 .. TallyMax]]]
    /\ pending \in [Elections -> [Commitments -> PendingCommitment \cup {None}]]
    /\ commitCount \in [Elections -> 0 .. CountMax]
    /\ revealCount \in [Elections -> 0 .. CountMax]
    /\ log \in [Elections -> Seq(Event)]

Committed(e) == {c \in Commitments : pending[e][c] # None}
Revealed(e) == {c \in Committed(e) : pending[e][c].revealed}

\* The two u32 counters of an election, from which result() computes the
\* number of ballots never revealed, are exactly the commitments stored and
\* the commitments revealed: result() and audit_summary() never return
\* CounterInvariant, and no commitment was lost, overwritten or revealed twice.
CountersMatchCommitments ==
    \A e \in Elections :
        /\ commitCount[e] = Cardinality(Committed(e))
        /\ revealCount[e] = Cardinality(Revealed(e))

\* A stored commitment was made for this election: its vote is one of the options
\* and its scope is the election's, so the opening that made it passes reveal().
SealedBallotsSound ==
    \A e \in Elections : \A c \in Committed(e) :
        /\ Exists(e)
        /\ elections[e].mode = "R1"
        /\ c[1] < elections[e].optionCount
        /\ c[3] = elections[e].scope

RevealedFor(e, option, bucket) ==
    {c \in Revealed(e) : c[1] = option /\ pending[e][c].bucket = bucket}

\* Each tally bucket of a commit-reveal election is the number of revealed
\* commitments to its option whose stored bucket it is.
SealedTallyExact ==
    \A e \in Elections, option \in Options, bucket \in Buckets :
        (Exists(e) => elections[e].mode = "R1") =>
            tally[e][option][bucket] = Cardinality(RevealedFor(e, option, bucket))

\* The inductive invariant behind CommittedCanBeRevealed.
IndInv ==
    /\ TypeOK
    /\ CountersMatchCommitments
    /\ SealedBallotsSound
    /\ SealedTallyExact

\* Event i of election e is a vote for option in bucket.  A reveal event has no
\* bucket: it is the one of the earlier commit event with the same commitment.
CountsFor(e, i, option, bucket) ==
    \/ /\ log[e][i].type = "VoteCast"
       /\ log[e][i].vote = option
       /\ log[e][i].bucket = bucket
    \/ /\ log[e][i].type = "VoteRevealed"
       /\ log[e][i].vote = option
       /\ \E j \in 1 .. i - 1 :
             /\ log[e][j].type = "VoteCommitted"
             /\ log[e][j].commitment = log[e][i].commitment
             /\ log[e][j].bucket = bucket

\* The tally kept in storage can be rebuilt from the events alone, bucket by
\* bucket: what an auditor who only sees the events recomputes is what the
\* contract answers.
TallyMatchesEvents ==
    \A e \in Elections, option \in Options, bucket \in Buckets :
        tally[e][option][bucket] =
            Cardinality({i \in DOMAIN log[e] : CountsFor(e, i, option, bucket)})

\* In the events of one election no credential has two ballots, and no nullifier
\* is used in two elections: a proof made for one election is of no use in
\* another, and a voter who votes in both cannot be linked.
OneBallotPerCredential ==
    /\ \A e \in Elections : \A i, j \in DOMAIN log[e] :
            /\ log[e][i].type \in {"VoteCast", "VoteCommitted"}
            /\ log[e][j].type \in {"VoteCast", "VoteCommitted"}
            /\ log[e][i].nullifier[1] = log[e][j].nullifier[1]
            => i = j
    /\ \A e, f \in Elections : e # f => nullifiers[e] \cap nullifiers[f] = {}

\* Whoever has a ballot in an election is a member of both of its groups, and
\* what was voted is one of its options, whatever group, scope and option
\* count the proof was made for.
EligibleBallotsOnly ==
    \A e \in Elections : Exists(e) =>
        LET cfg == elections[e]
        IN  /\ \A n \in nullifiers[e] :
                  n[1] \in StateTree[cfg.stateRoot] \cap AssociationTree[cfg.associationRoot]
            /\ \A c \in Committed(e) : c[1] < cfg.optionCount
            /\ \A option \in Options, bucket \in Buckets :
                  tally[e][option][bucket] > 0 => option < cfg.optionCount

\* A ballot committed in time can be revealed: throughout the reveal window every
\* unrevealed commitment has an opening that reveal() accepts.  No later call
\* can spoil it, and neither counter nor tally bucket can overflow under it.
CommittedCanBeRevealed ==
    \A e \in Elections : Exists(e) =>
        (elections[e].mode = "R1" /\ Status(e) = "RevealOpen" =>
            \A c \in Committed(e) \ Revealed(e) : RevealAccepted(e, c[1], c[2], c))

\* While an election is open, every member of its groups that has not voted can
\* vote for each of its options: nothing that open_election accepts, and
\* nothing other voters do, locks a voter out.
EligibleCanVote ==
    \A e \in Elections : Exists(e) =>
        LET cfg == elections[e]
        IN  Status(e) = "Open" /\ vkBound[cfg.mode] =>
              \A credential \in StateTree[cfg.stateRoot] \cap AssociationTree[cfg.associationRoot],
                 vote \in 0 .. cfg.optionCount - 1 :
                \/ NullifierHash(credential, cfg.scope) \in nullifiers[e]
                \/ CastR0Accepted(e, credential, vote, cfg.scope, cfg.optionCount,
                                  cfg.stateRoot, cfg.associationRoot)
                \/ \E salt \in Salts :
                      CastR1Accepted(e, credential, vote, salt, cfg.scope, cfg.optionCount,
                                     cfg.stateRoot, cfg.associationRoot)

\* No partial result of a commit-reveal election exists before its voting period
\* has ended.
NoEarlyResult ==
    \A e \in Elections : Exists(e) =>
        (elections[e].mode = "R1" /\ now < elections[e].closesAt =>
            /\ revealCount[e] = 0
            /\ \A option \in Options, bucket \in Buckets : tally[e][option][bucket] = 0)

-----------------------------------------------------------------------------
(* Action properties *)

\* Nothing recorded is ever taken back: an election keeps its configuration, a
\* nullifier stays used, a commitment keeps its bucket and stays revealed, no
\* tally bucket decreases, and the events are only appended to.
Irrevocable ==
    [][\A e \in Elections :
        /\ Exists(e) => elections'[e] = elections[e]
        /\ nullifiers[e] \subseteq nullifiers'[e]
        /\ \A c \in Committed(e) :
              /\ pending'[e][c] # None
              /\ pending'[e][c].bucket = pending[e][c].bucket
              /\ pending[e][c].revealed => pending'[e][c].revealed
        /\ \A option \in Options, bucket \in Buckets :
              tally'[e][option][bucket] >= tally[e][option][bucket]
        /\ Len(log'[e]) >= Len(log[e]) /\ SubSeq(log'[e], 1, Len(log[e])) = log[e]]_vars

\* Once one ballot of an election is revealed, nobody can commit one any more:
\* no ballot is ever chosen with knowledge of another.
NoCommitAfterReveal ==
    [][\A e \in Elections : revealCount[e] > 0 => commitCount'[e] = commitCount[e]]_vars

\* The result of an election that has ended never changes again.
EndedIsFinal ==
    [][\A e \in Elections :
        Exists(e) /\ Status(e) \in {"Closed", "RevealClosed"} =>
            /\ Status(e)' = Status(e)
            /\ UNCHANGED <<nullifiers[e], tally[e], pending[e],
                           commitCount[e], revealCount[e], log[e]>>]_vars

=============================================================================
