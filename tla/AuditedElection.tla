-------------------------- MODULE AuditedElection ---------------------------
(***************************************************************************)
(* The contract and the auditor together.  Somebody collects the events of *)
(* an election (a sidecar that is not in the repository) and may have      *)
(* missed some, repeated some and put them in another order; the auditor   *)
(* reads what was collected and is compared with what the contract says.   *)
(***************************************************************************)
EXTENDS ZkQuorumRefinesBallotBox, SequencesExt

Audit == INSTANCE Auditor
E0 == INSTANCE EvidenceReplay WITH Wrong <- None, NonCanonical <- BadFr

\* An absent value is no election, so that an event from elsewhere is known.
ASSUME CollectorAssumption == None \notin Elections

\* What the self-test writes into evidence is not what was there: the wrong value is no
\* nullifier, root, key or file, and the value that is not canonical is none of a vote.
ASSUME EvidenceAssumption ==
    /\ None \notin Nullifiers \cup Roots \cup {"vk"}
    /\ None \notin [nullifier : Nullifiers, vote : Votes, optionCount : OptionCounts,
                    stateRoot : Roots, associationRoot : Roots, scope : Scopes]
    /\ BadFr \notin Nullifiers \cup OptionCounts

\* Event i of the election as it stands in a bundle: each event of the contract has
\* a transaction of its own, whose hash the collector may leave out.
Collected(e, i, withTx) ==
    LET ev == log[e][i]
        tx == IF withTx THEN i ELSE None
    IN  CASE ev.type = "VoteCast" ->
               [type |-> ev.type, election |-> e, tx |-> tx, nullifier |-> ev.nullifier,
                vote |-> ev.vote, bucket |-> ev.bucket]
          [] ev.type = "VoteCommitted" ->
               [type |-> ev.type, election |-> e, tx |-> tx, nullifier |-> ev.nullifier,
                commitment |-> ev.commitment, bucket |-> ev.bucket]
          [] ev.type = "VoteRevealed" ->
               [type |-> ev.type, election |-> e, tx |-> tx,
                commitment |-> ev.commitment, vote |-> ev.vote]

\* A ballot that another election of the same contract has emitted.
Foreign(nullifier) ==
    [type |-> "VoteCast", election |-> None, tx |-> None,
     nullifier |-> nullifier, vote |-> 0, bucket |-> BucketOf[nullifier]]

BundleOf(e, order, withTx) == [k \in DOMAIN order |-> Collected(e, order[k], withTx)]

\* Everything once and in ledger order; everything once in any order; any collection of
\* at most one event more than there are; and everything with a ballot from elsewhere.
Complete(e, withTx) == BundleOf(e, [k \in DOMAIN log[e] |-> k], withTx)
Shuffled(e, withTx) ==
    {BundleOf(e, order, withTx) : order \in
        {s \in [DOMAIN log[e] -> DOMAIN log[e]] : IsInjective(s)}}
Collections(e, withTx) ==
    {BundleOf(e, order, withTx) :
        order \in UNION {[1 .. n -> DOMAIN log[e]] : n \in 0 .. Len(log[e]) + 1}}
      \cup {Append(Complete(e, withTx), Foreign(n)) : n \in Nullifiers}

EventsIn(events) == {events[i] : i \in DOMAIN events}

Counts(e, events, options) ==
    IF elections[e].mode = "R0" THEN Audit!R0Counts(events, options)
                                ELSE Audit!R1Counts(events, options)

\* Given all events and the right number of options, the auditor accepts the
\* election and reports the result that the contract itself returns, with the
\* same ballots committed, revealed and never revealed.
AuditConfirmsResult ==
    \A e \in Elections, withTx \in BOOLEAN : Exists(e) =>
        LET events == Complete(e, withTx)
        IN  /\ Audit!Loads(e, events) /\ Audit!VerifyOk(events, {}, TRUE)
            /\ Counts(e, events, elections[e].optionCount) = SumTally(e)
            /\ elections[e].mode = "R1" =>
                 /\ Audit!R1Totals(events) = [commitCount |-> Result(e).commitCount,
                      revealCount |-> Result(e).revealCount,
                      nonRevealCount |-> Result(e).nonRevealCount]

\* The reconstructed counts do not depend on the order in which events were
\* collected: a reveal that is listed before its commit is counted all the same.
CollectionOrderIrrelevant ==
    \A e \in Elections, withTx \in BOOLEAN : Exists(e) =>
        \A events \in Shuffled(e, withTx) :
            Counts(e, events, elections[e].optionCount) = SumTally(e)

\* Whatever was missed, repeated, reordered or mixed in from another election in
\* collecting: an audit that finds nothing wrong never reports more votes for an option
\* than the contract counted.
AcceptedNeverOvercounts ==
    \A e \in Elections, withTx \in BOOLEAN : Exists(e) =>
        \A events \in Collections(e, withTx) :
            Audit!Loads(e, events) /\ Audit!VerifyOk(events, {}, TRUE) =>
                LET counts == Counts(e, events, elections[e].optionCount)
                IN  \A option \in DOMAIN counts : counts[option] <= SumTally(e)[option]

\* A replay of a public election that is accepted against the contract's tally had
\* every ballot in its bundle: the counts leave no room for one that was missed,
\* also when the auditor was told the wrong number of options and dropped votes.
ReplayProvesComplete ==
    \A e \in Elections, withTx \in BOOLEAN, r0Options \in 1 .. MaxOptions :
        Exists(e) /\ elections[e].mode = "R0" =>
            \A events \in Collections(e, withTx) :
                Audit!ExitCode(e, events, {}, TRUE, r0Options, SumTally(e)) = 0 =>
                    EventsIn(events) = EventsIn(Complete(e, withTx))

\* The signals of a ballot of a public election, as its proof was made of them.
SignalsOf(e, ev) ==
    LET cfg == elections[e]
    IN  [nullifier |-> ev.nullifier, vote |-> ev.vote, optionCount |-> cfg.optionCount,
         stateRoot |-> cfg.stateRoot, associationRoot |-> cfg.associationRoot,
         scope |-> cfg.scope]

OneVote(e) == Exists(e) /\ elections[e].mode = "R0" /\ Len(log[e]) = 1

EvidenceOf(e) == E0!Evidence(SignalsOf(e, log[e][1]), SumTally(e))

\* The replay takes the evidence of the only vote of an election, and of the corruptions
\* that the self-test makes of it (replay-e0.js:174-318) it lets none pass, with one
\* exception that the property names: where the literal [1, 0] that the case for a tally of
\* "wrong length" writes (258) is the election's own tally, nothing is corrupted, and the
\* self-test fails over good evidence.
SelfTestHonest ==
    \A e \in Elections : OneVote(e) =>
        /\ E0!ReplayPasses(EvidenceOf(e))
        /\ E0!SelfTestPasses(EvidenceOf(e)) <=> SumTally(e) # E0!ShortTally

\* Evidence with the proof of that vote that passes the replay reports what the contract
\* itself reports, whatever was written into the observation: who voted, for what, with
\* how many options, and the tally (replay-e0.js:386-483).
ReplayedObservationTrue ==
    \A e \in Elections : OneVote(e) =>
        LET genuine == EvidenceOf(e)
        IN  \A nullifier \in Nullifiers, vote \in Votes, options \in 1 .. MaxOptions + 1 :
            \A counts \in [0 .. options - 1 -> 0 .. 2] :
                LET forged == [genuine EXCEPT
                        !.observation.signals.nullifier = nullifier,
                        !.observation.signals.vote = vote,
                        !.observation.signals.optionCount = options,
                        !.observation.votes = [o \in {vote} |-> 1],
                        !.observation.tally = counts]
                IN  E0!ReplayPasses(forged) =>
                        /\ nullifier \in nullifiers[e]
                        /\ counts = SumTally(e)

\* verifyBundle.ts: "Never silently skip proofs and claim ok."  Once a verifier is
\* configured, an accepted bundle has a verified proof of every ballot in it.  The test
\* bundle.test.ts:132-147 expects the opposite.
NoProofSkipped ==
    \A e \in Elections : Exists(e) =>
        \A archive \in SUBSET [tx : DOMAIN log[e], verdict : {"verified", "rejected"}] :
            LET events == Complete(e, TRUE)
            IN  Audit!VerifyOk(events, archive, TRUE) =>
                    \A i \in DOMAIN events : Audit!IsBallot(events[i]) =>
                        [tx |-> events[i].tx, verdict |-> "verified"] \in archive

=============================================================================
