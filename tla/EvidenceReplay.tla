--------------------------- MODULE EvidenceReplay ---------------------------
(***************************************************************************)
(* The replay of the evidence of one end-to-end R0 vote:                   *)
(* scripts/replay-e0.js.  The evidence is a directory with a manifest, the *)
(* proof and its signals (as JSON and as the bytes the contract was given) *)
(* and what was observed of the contract.  The content of a file stands    *)
(* for its hash.  `shape' says that a JSON file has exactly the keys, the  *)
(* types and the constants the script asks for.                            *)
(***************************************************************************)
EXTENDS Naturals, FiniteSets, FiniteSetsExt

CONSTANTS Wrong,         \* a value of the right type that is not the one there was
          NonCanonical   \* a decimal that is not the canonical form of a field element

Signals == {"nullifier", "vote", "optionCount", "stateRoot", "associationRoot", "scope"}
Flags == {"event_matches_expected", "duplicate_no_state_mutation", "duplicate_no_new_events",
          "mutated_no_state_mutation", "mutated_no_new_events"}

\* The evidence of a vote: its signals and the tally the contract reported after it.
Evidence(signals, tally) ==
    [files |-> [vk |-> "vk", proof |-> signals, public |-> signals],
     proofJson |-> [key |-> "vk", of |-> signals],
     publicJson |-> signals,
     manifest |-> [shape |-> TRUE, signals |-> signals,
                   vk |-> "vk", proof |-> signals, public |-> signals],
     observation |-> [shape |-> TRUE, signals |-> signals, tally |-> tally,
                      votes |-> [o \in {signals.vote} |-> 1],
                      vk |-> "vk", proof |-> signals, public |-> signals,
                      flags |-> Flags,
                      duplicate |-> "NullifierAlreadyUsed",
                      mutated |-> "ProofVerificationFailed"]]

-----------------------------------------------------------------------------
(* The checks, in the order of the script *)

ManifestValid(m) == m.shape /\ \A s \in Signals : m.signals[s] # NonCanonical

\* validateObservation: the map of votes has one entry, 1 for the observed vote.
ObservationValid(obs) == obs.shape /\ obs.votes = [o \in {obs.signals.vote} |-> 1]

HashesMatch(ev) ==
    \A f \in {"vk", "proof", "public"} :
        ev.files[f] = ev.manifest[f] /\ ev.files[f] = ev.observation[f]

\* Mutant: the nullifier of the observation is not compared.
SignalsMatch_NotNullifier(ev) ==
    /\ ev.publicJson = ev.manifest.signals
    /\ \A s \in Signals : ev.publicJson[s] # NonCanonical
    /\ \A s \in Signals \ {"nullifier"} : ev.publicJson[s] = ev.observation.signals[s]
    /\ ev.publicJson.vote < ev.publicJson.optionCount
    /\ ev.publicJson.optionCount \in 1 .. 16

SignalsMatch(ev) ==
    /\ ev.publicJson = ev.manifest.signals
    /\ \A s \in Signals : ev.publicJson[s] # NonCanonical
    /\ ev.publicJson = ev.observation.signals
    /\ ev.publicJson.vote < ev.publicJson.optionCount
    /\ ev.publicJson.optionCount \in 1 .. 16

\* Mutant: the entries are not checked, only that they add up to one vote.
TallyIsOneVote_SumOnly(obs) ==
    /\ DOMAIN obs.tally = 0 .. obs.signals.optionCount - 1
    /\ MapThenSumSet(LAMBDA o : obs.tally[o], DOMAIN obs.tally) = 1

TallyIsOneVote(obs) ==
    /\ DOMAIN obs.tally = 0 .. obs.signals.optionCount - 1
    /\ \A o \in DOMAIN obs.tally : obs.tally[o] = IF o = obs.signals.vote THEN 1 ELSE 0

OutcomesRight(obs) ==
    /\ obs.flags = Flags
    /\ obs.duplicate = "NullifierAlreadyUsed"
    /\ obs.mutated = "ProofVerificationFailed"

\* snarkjs groth16 verify, with the committed VK rather than with vk.bin.
SnarkjsVerifies(ev) == ev.proofJson = [key |-> "vk", of |-> ev.publicJson]

\* A manifest or an observation that is not valid ends the replay before the rest.
ReplayPasses(ev) ==
    /\ ManifestValid(ev.manifest) /\ ObservationValid(ev.observation)
    /\ HashesMatch(ev)
    /\ SignalsMatch(ev)
    /\ TallyIsOneVote(ev.observation)
    /\ OutcomesRight(ev.observation)
    /\ SnarkjsVerifies(ev)

-----------------------------------------------------------------------------
(* selfTest: what must be refused.  Five of its cases (unknown, missing and wrong keys, *)
(* results of another type) are the two shapes.                                          *)

\* The literal [1, 0] of the case tally-wrong-length.
ShortTally == [o \in 0 .. 1 |-> IF o = 0 THEN 1 ELSE 0]

SelfTestCases(ev) ==
    {[ev EXCEPT !.manifest.shape = FALSE],
     [ev EXCEPT !.observation.shape = FALSE],
     [ev EXCEPT !.manifest.signals.nullifier = Wrong],
     [ev EXCEPT !.manifest.vk = Wrong],
     [ev EXCEPT !.observation.proof = Wrong],
     [ev EXCEPT !.observation.vk = Wrong],
     [ev EXCEPT !.observation.flags = @ \ {"event_matches_expected"}],
     [ev EXCEPT !.observation.signals.stateRoot = Wrong],
     [ev EXCEPT !.observation.public = Wrong],
     [ev EXCEPT !.observation.tally = ShortTally],
     [ev EXCEPT !.observation.signals.nullifier = Wrong],
     [ev EXCEPT !.observation.votes = [o \in {} |-> 0]],
     [ev EXCEPT !.publicJson.vote = NonCanonical, !.manifest.signals.vote = NonCanonical]}

SelfTestPasses(ev) == \A bad \in SelfTestCases(ev) : ~ ReplayPasses(bad)

=============================================================================
