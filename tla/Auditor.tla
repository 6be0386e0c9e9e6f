------------------------------ MODULE Auditor -------------------------------
(***************************************************************************)
(* The audit of a local bundle: tools/auditor/src/domain/audit.ts and      *)
(* commands/verifyBundle.ts, over the tally of packages/protocol/src/      *)
(* tally.ts.  A bundle holds the events of one election (the loader        *)
(* rejects any other), in the order in which they were collected, each     *)
(* with the hash of its transaction or without one, and an archive of      *)
(* proofs.  The code loops over the events and fills maps; what the maps   *)
(* hold at the end is written here as sets of positions in the bundle.     *)
(***************************************************************************)
EXTENDS Naturals, Sequences, FiniteSets, FiniteSetsExt

CONSTANTS
    Buckets,            \* tally buckets, 0..15 in the code
    BucketOf,           \* bucketForNullifier: last nibble of a nullifier hash
    None                \* an absent transaction hash

IsBallot(ev) == ev.type \in {"VoteCast", "VoteCommitted"}
Positions(events, type) == {i \in DOMAIN events : events[i].type = type}

-----------------------------------------------------------------------------
(* validateBundle: the loader refuses a bundle with an event of another election. *)

MaxAuditEvents == 50000

\* Mutant: the election of an event is not compared with that of the bundle.
Loads_AnyElection(election, events) == Len(events) <= MaxAuditEvents

Loads(election, events) ==
    /\ Len(events) <= MaxAuditEvents
    /\ \A i \in DOMAIN events : events[i].election = election

-----------------------------------------------------------------------------
(* deduplicateEvents *)

\* Positions of events whose transaction hash is not that of an earlier event.
FreshTx(events) ==
    {i \in DOMAIN events : \A j \in 1 .. i - 1 :
        events[i].tx = None \/ events[j].tx # events[i].tx}

DuplicateTxs(events) == DOMAIN events \ FreshTx(events)

DuplicateNullifiers(events) ==
    {i \in FreshTx(events) :
        /\ IsBallot(events[i])
        /\ \E j \in FreshTx(events) : j < i /\ IsBallot(events[j])
                                        /\ events[j].nullifier = events[i].nullifier}

-----------------------------------------------------------------------------
(* reconstructTallies: every event counts, also one that is a duplicate.  The *)
(* commit events are all read before the first reveal event.                  *)

\* Mutant: commit and reveal events are handled in one pass.
CommitsOf_OnePass(events, i) ==
    {j \in 1 .. i - 1 : events[j].type = "VoteCommitted"
                            /\ events[j].commitment = events[i].commitment}

\* The commit events of the commitment that event i reveals.
CommitsOf(events, i) ==
    {j \in Positions(events, "VoteCommitted") : events[j].commitment = events[i].commitment}

\* r1BucketsByCommitment: a later commit event replaces an earlier one.
R1Bucket(events, i) == events[Max(CommitsOf(events, i))].bucket

RevealsMissingBucket(events) ==
    {i \in Positions(events, "VoteRevealed") : CommitsOf(events, i) = {}}

\* The buckets of an option: cast events by their nullifier, reveals by their commit.
R0Cells(events, option) ==
    [bucket \in Buckets |-> Cardinality({i \in Positions(events, "VoteCast") :
        BucketOf[events[i].nullifier] = bucket /\ events[i].vote = option})]

R1Cells(events, option) ==
    [bucket \in Buckets |->
        Cardinality({i \in Positions(events, "VoteRevealed") \ RevealsMissingBucket(events) :
            R1Bucket(events, i) = bucket /\ events[i].vote = option})]

\* Mutant: the last option is taken to be out of range.
R0Counts_DropsLastOption(events, options) ==
    [option \in 0 .. options - 1 |-> IF option = options - 1 THEN 0
        ELSE MapThenSumSet(LAMBDA bucket : R0Cells(events, option)[bucket], Buckets)]

\* tallyAll: a vote that is not below options was refused by incrementTally; it is
\* dropped, and its error goes into a list that no caller reads.
R0Counts(events, options) ==
    [option \in 0 .. options - 1 |->
        MapThenSumSet(LAMBDA bucket : R0Cells(events, option)[bucket], Buckets)]

R1Counts(events, options) ==
    [option \in 0 .. options - 1 |->
        MapThenSumSet(LAMBDA bucket : R1Cells(events, option)[bucket], Buckets)]

-----------------------------------------------------------------------------
(* auditR1: one pass, so a reveal must come after its commit. *)

CommitmentsIn(events, type) == {events[i].commitment : i \in Positions(events, type)}

\* Mutant: a second reveal of a commitment is not noticed.
DoubleReveals_None(events) == {}

DoubleReveals(events) ==
    {i \in Positions(events, "VoteRevealed") : \E j \in 1 .. i - 1 :
        events[j].type = "VoteRevealed" /\ events[j].commitment = events[i].commitment}

RevealsWithoutCommit(events) ==
    {i \in Positions(events, "VoteRevealed") : \A j \in 1 .. i - 1 :
        events[j].type = "VoteCommitted" => events[j].commitment # events[i].commitment}

R1Totals(events) ==
    LET commits == CommitmentsIn(events, "VoteCommitted")
        reveals == CommitmentsIn(events, "VoteRevealed")
    IN  [commitCount |-> Cardinality(commits), revealCount |-> Cardinality(reveals),
         nonRevealCount |-> Cardinality(commits \ reveals)]

-----------------------------------------------------------------------------
(* verifyBundle and replayBundle *)

\* An archive entry, by what the verifier makes of it: "verified", or a payload it
\* cannot parse, rejects or finds other hashes for.  NoopVerifierAdapter, the only
\* verifier of the command line, is verifierConfigured = FALSE.
ArchiveVerified(archive) == \A entry \in archive : entry.verdict = "verified"

\* verifyBundle's ok
VerifyOk(events, archive, verifierConfigured) ==
    /\ verifierConfigured
    /\ DuplicateNullifiers(events) = {}
    /\ DuplicateTxs(events) = {}
    /\ DoubleReveals(events) = {}
    /\ RevealsWithoutCommit(events) = {}
    /\ RevealsMissingBucket(events) = {}
    /\ ArchiveVerified(archive)

\* Mutant: the comparison stops before the last expected count.
TallyMismatches_StopsEarly(events, r0Options, expectedTally) ==
    LET counts == R0Counts(events, r0Options)
    IN  {i \in DOMAIN expectedTally \ {Cardinality(DOMAIN expectedTally) - 1} :
            expectedTally[i] # IF i < r0Options THEN counts[i] ELSE 0}

\* The options at which the reconstructed R0 tally is not the expected one.
TallyMismatches(events, r0Options, expectedTally) ==
    LET counts == R0Counts(events, r0Options)
    IN  {i \in DOMAIN expectedTally :
            expectedTally[i] # IF i < r0Options THEN counts[i] ELSE 0}

\* replayBundle's ok
ReplayOk(events, archive, verifierConfigured, r0Options, expectedTally) ==
    /\ VerifyOk(events, archive, verifierConfigured)
    /\ TallyMismatches(events, r0Options, expectedTally) = {}

\* main of the command line, which runs the replay whatever its command; it passes
\* NoopVerifierAdapter, so verifierConfigured is FALSE there.
ExitCode(election, events, archive, verifierConfigured, r0Options, expectedTally) ==
    IF ~ Loads(election, events) THEN 2
    ELSE IF ReplayOk(events, archive, verifierConfigured, r0Options, expectedTally)
    THEN 0 ELSE 1

=============================================================================
