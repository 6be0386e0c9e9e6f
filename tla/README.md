# A formal model of zk-quorum

zk-quorum runs anonymous elections on Stellar. A voter proves in the browser,
with a Groth16 proof, that they belong to two groups and have not voted; a relay
server submits the proof; a Soroban contract checks it and counts; an auditor
recomputes the count from the contract's events. An election is public (mode R0:
the vote is a public signal) or commit-reveal (mode R1: the proof commits to a
vote that is opened after voting has ended).

This directory holds TLA+ modules of the parts that keep state or decide
something, TLC configurations that check them, and TLAPS proofs. Every definition
is translated from the source; `PROJECT.json` maps each one to its lines.

## 1. Inventory

**Contract** (`contracts/zk-quorum`). State: the two verification keys and their
hashes; per election the frozen configuration, the used nullifiers, a tally of
option x bucket, the pending commitments and two counters. Operations: the
constructor, `open_election`, `cast` (R0 or R1), `reveal`, and the read-only
`result`, `audit_summary` and views. It calls the verifier contract and emits
events. Hard: windows that meet at one timestamp, proofs made for another
election, a commitment that must stay revealable, counters that overflow after
earlier writes, storage that expires. Correct means: one ballot for each eligible
credential, only eligible ballots, no influence of revealed ballots on later
ones, and a result that is the count of what the events show.

**Circuits and verifier** (`circuits`, `contracts/groth16-verifier`,
`crates/credential`, `crates/zk`). No state. A circuit is a relation between
public signals and a witness; the verifier is a pairing check over a key.

**Relayer** (`services/relayer`). State, all in memory: the salt of the ephemeral
client keys, the rate limiter's buckets, the idempotency entries, a queue with
a lane and a number of running tasks. Operations: `/submit` for a cast or a
reveal, and its continuation each time an adapter (verifier, simulator,
submitter) answers. Hard: retries that race the first call, expiry while a call
is in flight, adapters that throw, restarts, ledger effects that come late.
Correct means: what a client is told of its ballot is true, a retry does not run
the call again, the queue never stalls, and the limiter limits.

**Prover client and worker** (`apps/web/src/worker`). State: the job counter, the
job in flight with its promise, the worker. Operations: `prove`, `cancel`,
`terminate`, and the handlers of the worker's message and error events. Hard:
messages and errors of workers that are gone. Correct means: each promise is
settled once, with the answer to its own job.

**Auditor** (`tools/auditor`, with the tally of `packages/protocol`). No state:
a bundle of collected events and archived proofs goes in, a verdict and counts
come out. Hard: events missed, repeated, reordered. Correct means: it confirms an
honest election, and what it accepts agrees with the contract.

**Voter page and relay adapter** (`apps/web/src/app`, `adapters/relayAdapter.ts`).
State: the page's status and what its handler waits for. A click proves, posts to the
relayer and shows the answer. Hard: connections that break before or after the request
got through, promises that reject, fields on which page and relayer must agree. Correct
means: what the voter is told is true, and a refused request can be sent again.

**Proving harness** (`apps/web/src/harness`, `adapters/realProvingAdapter.ts`,
`worker/proverWorker.ts`). State: the test that runs, the assets its session has
fetched. Hard: each asset is fetched and hashed, two of them are fetched again, while
the directory they come from may be staged anew. Correct means: a proof that is answered
was made with the assets of the session's manifest, and every test ends. The admin and
audit pages are forms and read-only views.

**Setup, gate and staging scripts** (`scripts`). State: files. The compiled circuits, the
zkeys and the Powers of Tau in `tmp/setup`, the committed manifests and verification
keys, and the directory the browser is served from. Scripts compile, test, run a
ceremony, fetch a published one, compare all of it and stage it. Hard: a script that is
killed, a ceremony that has replaced half of what is committed, tests that refuse a
witness for the wrong reason. Correct means: an exit status of 0 tells the truth.

**Evidence and tools** (`scripts/replay-e0.js`, `scripts/evidence`,
`tools/circom2soroban`, `spike`). Replay of the evidence of a run, bundles, conversions,
drivers of testnet runs.

The components meet in these places: the page calls the prover client and posts
to the relayer; the scripts stage the assets that the browser proves with; the relayer's
submitter calls the contract; the contract emits events, which somebody collects (a sidecar that is not in the repository) for the
auditor. `PROJECT.json` lists, under "hazards", where this code can go wrong in
ways a test would hardly reach, and which property watches each place.

## 2. The modules

| module | models | lines of code it stands for |
|---|---|---|
| `Circuits` | the relations R0 and R1, nullifiers and commitments | `circuits/*/main.circom`, `circuits/common` |
| `ZkQuorum` | the contract | `lib.rs`, `storage.rs`, `types.rs`, `events.rs` |
| `BallotBox` | what an election promises, with no nullifiers, proofs or buckets | (abstract) |
| `ZkQuorumRefinesBallotBox` | the refinement mapping, and `result()` | `sum_tally`, `result`, `audit_summary` |
| `Relayer` | the submit route, its services and pipelines, restarts | `services/relayer/src` |
| `ProverClient` | the page's end of the proving worker, and the worker | `workerBoundary.ts`, `proverWorker.ts` |
| `Auditor` | the audit as operators over a bundle | `audit.ts`, `verifyBundle.ts`, `tally.ts`, `loadBundle.ts`, `cli.ts` |
| `EvidenceReplay` | the replay of one vote's evidence, and its self-test | `replay-e0.js` |
| `AuditedElection` | contract, auditor and replay together | the above |
| `FieldFormats` | the readers and writers of field elements, and the derivation of scopes | `publicSignals.ts`, `sorobanEncoding.ts`, `t0.ts`, `scope.ts`, the credential crate and two scripts |
| `VoterPath` | page, relay adapter, connection and request validation in front of `Relayer` | `voterApp.ts`, `relayAdapter.ts`, `requestValidation.ts`, `http.ts` |
| `WitnessSuite` | witness fixtures and what the tests expect of them | `build-test-fixtures.js`, `build-scope-fixtures.js`, `test-witness.js` |
| `SetupPipeline` | the scripts and the files they share | `setup-groth16.sh`, `fetch-setup-assets.js`, `gate-c0.js`, `stage-assets-to-public.js` and others |
| `BrowserProving` | the harness and its worker over the staged directory | `harness/main.ts`, `realProvingAdapter.ts`, `proverWorker.ts` |
| `MC...` | the instances that TLC checks | |
| `ZkQuorumProofs`, `ZkQuorumRefinementProofs`, `AuditedElectionProofs`, `RelayerProofs`, `FieldFormatsProofs`, `VoterPathProofs`, `ProverClientProofs`, `BrowserProvingProofs` | theorems and proofs | |

An operator named `X_Something` that stands before `X` is a variant of `X` with a
plausible bug; each checked property finds one of them.

### Contract

A call is a transaction, so it is one action: `OpenElection`, `CastR0`, `CastR1`,
`Reveal`, and `Tick` for the ledger's time. `Init` is the constructor. A call that
returns an error is rolled back by the host and is a step that is not enabled;
the guards are the code's early returns. The order of guards is not visible, as
nothing is written before all of them have passed except in `cast_r1`, where the
counter overflows after two writes and the rollback undoes them (the variant
`CastR1_NoRollback` shows what would happen without it). A status is computed from
the clock, as in `compute_status`, and never stored. The events are kept in `log`
in ledger order, without digests and schema version.

What the model takes as given:

- *Symbolic Poseidon.* Hashes are tuples, so they are collision free. A
  credential is its nullifier secret, and a Merkle root the set of its members.
- *Groth16 is sound and complete.* A cast is described by the witness of its
  proof; a call whose signals are not its proof's never verifies.
- *Distinct elections have distinct scopes* (`ScopeOf` is injective). The host
  tools derive a scope from the election id with SHA-256; the contract does not
  check it. A scope that is zero or not canonical is offered too (`BadFr`).
- A key and its stored hash may or may not match (`vkBound`): the constructor
  does not compare them, `cast` does.

### Relayer

JavaScript runs to the next await, so an action is the code between two awaits.
`SubmitRateLimited`, `SubmitInFlight`, `SubmitReplay` and `SubmitFresh` are the
four ways through the route up to its first await; the rate limiter's check,
the salt's rotation and the eviction of entries are part of each. `Verified` and
`Simulated` are the adapters' answers, and `Finish` is the end of a pipeline: the
entry is completed or removed and the response written before the queue's
`finally` frees the slot and pumps again, in one turn of microtasks, so no other
handler runs in between. The ledger applies a sent transaction at any later time
or never (`LedgerApplies`). `Crash` loses everything in memory. `overstayed` is a history
variable: the requests of this process that were still in service when the time of their
entry was up, with `Tick` as the only action that adds to it. The adapters
answer whatever their types allow and may throw; an answer of success from the
submitter means that the transaction landed, and a duplicate that it bounced.

A client reuses an idempotency key only for the same call (`RelayerAssumption`):
the store compares keys and nothing else.

### Prover client

The page and the worker are two event loops. Messages arrive in order and are
dropped when the worker is terminated; an error event is a task of its own and
may come before earlier messages or after the end of its worker. `Break` is an
uncaught error, after which the worker goes on or is dead; the client keeps it in
both cases, as the code does. Inputs can be cloned, so `postMessage` does not
throw.

### Auditor

The code loops over the events and fills maps; the module writes what the maps
hold as sets of positions. `AuditedElection` takes the events of a reachable
state of `ZkQuorum`, lets a collector drop, repeat and reorder them and leave out
transaction hashes, and compares the auditor's answers with `SumTally` and
`Result`. The collector may also mix in an event of another election, which the loader
(`Loads`) refuses. A verifier is assumed to be configured; the command line has none
(`NoopVerifierAdapter`) and so reports every bundle as not ok.

`EvidenceReplay` is the other way to check a vote: the files of one run, with the
observation of the contract that the run wrote. The content of a file stands for its
hash. `AuditedElection` takes the only vote of an election, lets anything be written
into the observation, and compares what passes the replay with the contract.

### Wire format and scope

`FieldFormats` has one operator for each implementation of one conversion, over strings
that are sequences of characters and a field small enough to enumerate what lies around
its modulus. A digest is any sequence of bytes: SHA-256 is not modelled, so the
three derivations are compared for every sequence of digests. The message that is hashed
is built in the same way by all three and is modelled once (`ScopeMessage`), so what the
properties compare is the search for a scope, and that no two elections share a message.

### Voter path

`VoterPath` extends `Relayer`: `Post` and `ProverSettles` make a request, `Refuse` is the
route when the body or its shape is refused, `Serve` the relayer's own actions for
the ones that are valid, and `AnswerArrives`, `ConnectionBreaks` and `Reload` are what the
caller gets of it. `Body` keeps of a request its action, one signal (the others are
canonical) and whether all else is well formed. The page runs over the mock adapter, its
default, or over HTTP. The prover may fulfil, refuse or reject: the page does not catch
a rejection and then stays busy until it is loaded again.

### Setup and browser

A circuit is named by the constraint it lacks (`None` for the full one), a key by its
ceremony and circuit; equal hashes are equal contents. `WitnessSuite` writes the two
circuits as sets of constraints, the fixtures as witnesses, and evaluates the tests over
any circuit with one constraint left out. In `SetupPipeline` one script runs at a time,
as a developer or the build service runs them, and each step that changes a shared file
is an action. `Kill` ends a script between two steps, which includes a setup or public file
that is partly written. Not modelled is a kill inside the write of a build or of a committed
file, or between the R1CS and the wasm of a circuit: a build is one value for each rung, and
a ceremony compiles both rungs in one step. What the release
server answers is arbitrary. In `BrowserProving` the harness runs at the same time: it
fetches file by file from the directory that staging empties and fills. A proof with a
zkey that was made for another circuit than the wasm may or may not come out (`luck`).

## 3. The runs

TLC checks each in about two minutes or less. Deadlock is not checked: the clocks and the numbers of
requests and jobs are bounded, ended elections accept nothing, finished requests
and a terminated client have no further step.

| run | checks | bounds |
|---|---|---|
| `one_election` | types; counters = commitments; tally = events; eligibility of ballots and voters; no early result; result = count; no commit after a reveal; an ended election is final | 1 election, 2 voters, 2 state roots (one without bob), 2 scopes, 2 salts, 2 buckets, 2 options (with the option counts and votes just out of range), time 0..3, an administrator and another caller |
| `two_elections` | one ballot for each credential and no nullifier in two elections; nothing is taken back; `BallotBox` is implemented | 2 elections over one group, 1 voter, time 0..2 |
| `full_counters` | the inductive invariant; a committed ballot can be revealed | counters and tally buckets of at most 1, 2 voters in one bucket |
| `relayer_retries` | types; entries in flight have a request; one execution for each key, but for calls that outlive their entry; answers are true; accepted once; replays repeat an answer | 4 requests, three of them with one key, one ballot, 1 slot, one restart, replay window 1, calls that take up to 2, time 0..2 |
| `relayer_rates` | how often one address is admitted in any window | 4 requests, limit 1, window 2, rotation 3, time 0..4 |
| `relayer_queue` | slots and wake-ups; every request is answered | 4 requests with keys of their own, 2 slots |
| `audit_of_collected_events` | an honest election is confirmed; order is irrelevant; acceptance never overcounts; a public replay proves completeness; the self-test of the evidence replay refuses its corruptions, with one exception (see below); evidence that passes reports what the contract does | 1 election, 2 voters, all collections of at most one event more than there are, or with one of another election; any nullifier, vote, option count and tally in the observation |
| `voter_path` | what the page and the adapter's callers are told is true and a refused request leaves no trace; the formats agree | 3 requests (a cast of the page, one of the same ballot by another client, a reveal), 1 slot, limit 2, one restart, time 0..1; strings of at most 2 characters, modulus 11 in 2 bytes of base 4, 3 counters |
| `setup_and_browser` | an exit status of 0 of fetch, gate and witness tests is true; the public manifest describes the files there; a proof that is answered verifies; every test ends | 3 scripts, 1 kill, 1 edit that drops a constraint the fixtures pin (the label's) or one they do not (the vote's bits), 2 ceremonies |
| `prover_client` | no promise forgotten; own answers; every job settles | 3 jobs, 2 errors |
| `relayer_per_key` | *violated*: keys are rate-limited | 2 requests with one key from two addresses |
| `audit_skips_proofs` | *violated*: no ballot without a verified proof is accepted | as `audit_of_collected_events`, any archive |

Why the bounds are enough. The contract compares elections, credentials, scopes,
roots and commitments only for equality, and its calls touch one election; two of
each show every confusion of one with another. Time 0..3 has every order of the
three deadlines and now, including the ones that coincide. The counters are
compared with their limit only, and `full_counters` reaches it. Two slots and
four requests fill the relayer's lane behind busy slots; of the four of
`relayer_retries`, three are a call that takes too long, the retry that finds its entry
expired, and the one that comes when the late call has removed the retry's entry; the
fourth is the same ballot under another key. The three are alike in all but their names,
so the run permutes them (`SYMMETRY`), which is sound for invariants that name none.
Three jobs are one in flight, the one before it and the one after. One restart is enough
because it leaves empty maps and sent transactions, and a second one would find nothing
else. Three scripts are one that goes wrong, one that is misled by it and one that reports; a second ceremony
is what the first can be confused with. The modulus is not a power of the base, so that
there are bytes of each kind: below, equal and above those of the modulus.

Some things a reader should know of what the properties say:

- `OneExecutionPerKey` does not say that a key is executed once. The store evicts an
  entry in flight when its time is up, and nothing limits how long an adapter takes, so
  a slow call can be run again by its retry, and when it ends at last it completes or removes
  the entry of the retry. What holds is that this is the only way: the executions of a
  key at one time are at most one more than the calls that outlived their entry. Calls
  that stay within the window are executed once. `AnswersAreTrue`, `AcceptedOnce` and
  `InFlightKeyHasRequest` hold for slow calls too.
- `EligibleBallotsOnly` is about both groups of an election; in `one_election` every
  association root holds all credentials, so what TLC could find broken there is the
  state root's half. `OnlyMembersVote` is for any groups.
- `AddressRateBounded` has 3 * limit - 1 where one may expect the limit: a window
  may end, another follow, and the salt rotate, all within one window's length. It needs
  a salt that lasts as long as a window.

### Fairness

`relayer_queue` assumes that each call of an adapter settles (weak fairness of
`Verified`, `Simulated` and `Finish` of each request): the code awaits them without
a timeout of its own, so this is what its interfaces must provide. Nothing is
assumed of clients or the ledger. `prover_client` assumes that a running worker
finishes its jobs and that the event loop delivers what has arrived. A dead worker
answers nothing, and `EveryJobSettles` excepts it: then only `cancel()` or
`terminate()` ends the wait. `setup_and_browser` assumes that the page's server answers
each fetch and the browser runs the worker (weak fairness of `WorkerNext`); nothing is
assumed of who clicks or runs scripts.

### Findings

- `services/relayer/README.md:27-28` says that each idempotency key is
  rate-limited. `routes/submit.ts:125` limits the ephemeral key of the client's
  address, and says so; run `relayer_per_key`.
- `verifyBundle.ts:82-83` says "Never silently skip proofs and claim ok." The loop
  at line 60 verifies the archive's entries and does not ask for the ones that
  are missing; run `audit_skips_proofs`. The comment is written about the Noop verifier,
  and `tests/bundle.test.ts:132-147` expects what the code does ("still ok=true (no proofs
  to verify)"): the comment and the test cannot both be what is meant.

### Observed while modelling

These were met in the code and have no run of their own.

- `HttpRelayAdapter.submitCast` (`relayAdapter.ts:24`) sends no `action`, and the route
  answers 400 without one (`submit.ts:115-117`), although the relayer's README (line 25)
  calls `cast` the default: over HTTP no cast of the page can be accepted. In
  `VoterPath`, `Body("none", ...)` is never `Valid`.
- The page's default adapter is the mock, which answers accepted with nothing on the
  ledger; `ToldTruth` excepts it. The page's own signals are hexadecimal, which neither
  the mock nor the real prover takes, and the rejected promise leaves the button
  disabled. A retry has a new idempotency key, and a duplicate is shown as a rejection:
  `ToldTruth` is about what is told as done and does not exclude that a ballot that
  counts is called rejected.
- The staging script compares the R1CS with the committed manifest but neither the zkey
  nor the verification key, and `setup-groth16.sh:208` replaces the key before the
  manifests are written: after an interrupted ceremony it stages, and reports as
  verified, a key that the committed manifests do not know.
- The witness fixtures of each circuit pin five of its nine constraints, six between the
  two. A missing range check on the vote or on the option count alone is not noticed (the
  difference of the two is refused first), nor a missing check that the association root
  is not zero; and no fixture of R1 has a wrong state root.
- Nothing compares the rotation of the client keys' salt with the rate window, both of
  which are configured (`config.ts`): a salt that lasts less than a window resets the
  limit within it, and `AddressRateBounded` fails.
- `gate-c0.js` takes a setup file that is absent for a verified one;
  `verify-manifests.js:2-5` promises fixture hashes but checks existence;
  `test-witness.js` removes all of `tmp`, the zkeys with it.
- `replay-e0.js:255-258` calls its ninth corruption a tally of "wrong length", "too short":
  the literal `[1, 0]`. For an election of two options whose only vote is option 0 that is
  the genuine tally, the replay exits 0 and the self-test fails over good evidence.
  `SelfTestHonest` names this case, and shows that it is the only one. The evidence that
  the pipeline makes today has five options and does not meet it.
- `replay-e0.js` never compares `proof.bin` and `public.bin` with their JSON forms.
- `loadBundle.ts:17` matches contract ids against the alphabet of base58 where they are
  base32; `collectBundle.ts:45` calls `require` in an ES module.

## 4. The proofs

The theorems hold for all values of the constants that satisfy the named assumptions, and
TLC evaluates each assumption in a run:

| assumption | says |
|---|---|
| `CircuitAssumption` | credentials, scopes and salts are finite, groups are sets of credentials, `BadFr` is none of them |
| `ContractAssumption` | elections have different scopes, nullifiers fall into finitely many buckets, the counters' bound is at most that of a tally bucket (u32 and u64) |
| `CollectorAssumption`, `EvidenceAssumption`, `NoneAssumption` | a missing value, and what the self-test writes in its place, is not what may be there |
| `RelayerAssumption` | finitely many requests, positive limits; a client reuses a key only for the same call |
| `VoterPathAssumption` | the page casts and the adapter's other caller reveals; what is written into a signal is a string |
| `FormatsAssumption` | the base is at least 2, the modulus is above 1 and fits the width; a refusal is neither a number nor bytes |
| `SourcesAssumption` | what an edit leaves out of a circuit is a constraint |
| `ProverClientAssumption` | jobs are numbers |

Every invariant and every action property of the passing runs is the subject of a theorem.
Some theorems have a hypothesis of their own, without which they are false; each is given
below with the value in the code.

**Types and counters** (`ZkQuorumProofs`). `IndInv` is `TypeOK`,
`CountersMatchCommitments`, `SealedBallotsSound` and `SealedTallyExact`: the counters and
tally buckets are cardinalities of sets of commitments; a commit adds one element to one
set, a reveal moves one, and the library's facts about finite sets do the counting.
`CommittedBallotsRevealable` is what it is for. In the reveal window an unrevealed
commitment must have an opening that passes every check. That the opening is valid is
`SealedBallotsSound`. That neither the reveal counter nor the tally bucket is full follows
by counting: the revealed commitments, and those of one bucket, are a proper subset of all
commitments, whose number is `commitCount`, at most `CountMax`, at most `TallyMax`.

**Windows** (same module). `NothingKnownEarly` is inductive relative to `IndInv`, which
says that an election that is being opened has counted nothing yet. `NoBallotAfterReveal`:
a commit finds the election open, hence `closesAt` in the future, hence no ballot
revealed. `EndIsFinal`: every accepted call finds its election open or open for reveals,
the configuration is frozen and the clock does not go back.

**Ballots** (same module). `BallotInv` adds to `IndInv` that the scope of an
election is the derived one, that every stored nullifier is of a member of both groups
under it, that counted options are in range, and that the log has one event for each
nullifier and one for each commitment. Each call keeps these because it checks the
witness, whose nullifier is a pair of a credential and the election's own scope. From it:
`OnlyMembersVote`, `OneBallotEach` (a nullifier names its scope, a scope its election) and,
by one case for each event, `EventsTellTheTally`. `NothingTakenBack` is an action property
that needs types only. `NobodyLockedOut` is the completeness of all guards together: a
member that has not voted has a witness whose call no check and no counter refuses. Its
hypothesis is that no group has more members than `CountMax` or than there are salts
(2^10 leaves; 2^32 - 1, and a field). Without the first a full counter locks voters out,
without the second two may have to commit alike: both are real, and far.

**Refinement** (`ZkQuorumRefinementProofs`). `ContractIsABallotBox` is the step simulation
behind `ImplementsBallotBox`. An abstract ballot is the event that put it in. Opening and the
clock map to a stutter or to the abstract step of the same name, a cast adds the one ballot
that its nullifier's freshness shows to be new, and a reveal counts the ballot whose
commitment it opens. `ResultIsRight` relates the numbers: a tally bucket is the number of
counted ballots in it (`TallyByBallots`), a sum over buckets is the number over all of them
as the buckets part the ballots, and the sum of a sealed election is at most
`revealCount`, so `sum_tally` does not overflow there. The library's sums are recursive
functions under a CHOOSE; `TotalByParts` shows that a function with the same recursion is
their value, by induction over finite sets (`GrowingSets`), done without an operator as a
parameter: a least counterexample exists as strict inclusion is well founded.

**Audit** (`AuditedElectionProofs`). `AuditInv` is `BallotInv`, `TallyMatchesEvents`, that
a ballot has the kind its election's mode asks for, and `RevealsInLog`: a revealed
commitment has one reveal event, after its commit and for the vote that is inside.
`OrderIsIrrelevant` then is counting over a permutation. `NeverOvercounts` is about any
collection: one that the auditor accepts has no event twice and none from elsewhere, so
it maps one to one into the log, and what it counts for an option is at most what the log
has for it, which is what the contract has counted. `AcceptedReplayIsComplete` is the
converse for public elections: equal totals of subsets are equal subsets. `AuditAgrees`
supposes that the log is within the auditor's limit of 50000 events; two for each member
are at most 2048. `ReplayedObservationIsTrue` and `SelfTestIsHonest` evaluate the checks
of the evidence replay on the only vote of an election with anything in the observation,
the latter for at most 16 options (`MAX_OPTIONS`), the number of entries that it compares:
`CorruptedRefused` takes the thirteen corruptions one by one, the tally under the hypothesis
that `[1, 0]` is not the election's own, and `NotCorrupted` shows that where it is the
replay passes, so the exception in `SelfTestHonest` is exact.

**Relayer** (`RelayerProofs`). `IndInv` has a part for each service, and each is
preserved by itself or with few of the others: `QueueOK` (the lane holds the queued
requests once each, `active` is the number at work, and none waits while a slot is free;
`pump` is why), `EntriesOK` (a finished entry has the status a request with its key was
answered), `AnswersOK` and `LedgerOK` (what an answer says of the ledger is so, and a
ballot has one transaction that landed), `LimiterOK`. `ServiceInv` gives
`ExecutesOncePerKey`, with no hypothesis on how long a call takes. Its `KeyOK` says that a live
entry outlives the time of everything executed under its key and makes room for one
execution; without a live entry all executions are made up for by calls that overstayed. A tick
that ends a live entry therefore has put each execution of its key among them, and
a slow call that removes or replaces an entry takes itself out of the executions. `RateInv`
says, for every window of time that an address may be looked at in
and every state of its bucket, how many of its admissions fall into it; each new
process adds to `PastProcesses`, a new salt begins with empty buckets. `AddressesAreLimited` supposes
`RateWindow <= RotationPeriod` (60 s and 5 min by default; see above).

**Voter path** (`VoterPathProofs`). A step of the path is a step of `Relayer`, a refusal,
or leaves the relayer alone, so its `IndInv` carries over. `CallersAreToldTheTruth` then
follows from what the relayer answers. `AdmittedCastsAreReadable` says what gets through:
what the validation has let pass is not posted again, so it stays what it was.
`FormatsHoldTogether`, which states `FormatsAgree`, is this and the two theorems of the next
paragraph.

**Field formats** (`FieldFormatsProofs`). The instance that TLC checks has a field of eleven
elements in two bytes of base 4 and strings of two characters; the theorems are for every
modulus, base and width that fit together, the code's (a prime of 255 bits in 32 bytes of
base 256) among them, and for strings of any length. The definitions compute step by step,
along `Power` and Horner's rule, and the library's induction theorems are of no use here: they
take an operator as a parameter. So the module begins with induction stated of a set
(`Counting`, from the library's well-foundedness of `<`) and from it shows that a function
given by its first value and its step exists (`StepByStep`), which is what a recursive
definition needs to mean what its equation says (`Powers`, `HornerSteps`). Then:

- the value of the first `k` bytes of a number is its quotient by the power of the rest
  (`BytesOfNumber`), so writing a number below `Power[Width]` and reading it gives it back,
  and reading bytes and writing them too (`NumberOfBytes`);
- digit by digit, the first difference of two byte strings decides which number is smaller
  (`NumbersCompare`): the credential crate's comparison of slices is the protocol package's
  comparison of numbers;
- the digits that `toString(16)` needs, after the zeros that `padStart` adds, are the ones
  that the shifting loops write (`PaddingFills`);
- two decimals without leading zeros that have one value agree digit by digit from the
  last one, and neither has digits left, since a value that begins with a digit other
  than zero is positive (`OneDecimal`);
- the patterns and guards of the readers take the same strings (`ReadersTake`).

`ReadersOfAFieldAgree` and `DerivationsOfTheScopeAgree` follow. For the messages a scope is
derived from, `ScopeMessagesDiffer`: a message of framed parts is cut into them in one way,
for parts of any lengths that a length's four bytes can say.

**Prover client** (`ProverClientProofs`): `PromisesKept` and `AnswersAreOwn`, from an
`IndInv` that adds to them that a job not yet started has no promise and that only a started
one is in flight.

**Setup and browser** (`BrowserProvingProofs`). `PipelineInv` lists, for each step of each
script, which files agree with which: what a fetch has passed (`FetchedSoFar`), what a
ceremony has made of what (`CeremonySoFar`), the committed manifests (`ManifestsOK`) and
what staging has copied (`StagedSoFar`). A report of success is then true when it is written,
and it stays so as no script writes before its launch has cleared the report, and an edit
changes sources only.
`AnswersVerify` adds `TestOK`: a session's verification key is that of its manifest by the
time it proves, and it goes on only when that manifest is of the full circuit. `SuiteIsTrue`
is for any constraint that an edit may leave out, where TLC's instance has two; it is
`Pinned` that says, circuit by circuit, which ones the fixtures notice.

Only model-checked:

- The liveness properties `EveryRequestAnswered`, `EveryJobSettles` and `TestsEnd`:
  fairness and ENABLED are out of this prover's reach.
- The two violations, which are for TLC to find.

## 5. What is not modelled, and the plan

Not modelled:

- field arithmetic, Poseidon and the byte layouts of proofs and keys (`crates/zk`,
  `circom2soroban`, most of `sorobanEncoding.ts`): functions without state, on data far
  beyond what TLC can enumerate;
- the expiry of storage entries and `extend_election_ttl`: the host restores an archived
  entry before a call reads it, so no call sees one as absent;
- configuration, health and redaction of the relayer; ids, manifests and canonical JSON
  of the protocol package; the mock prover and the credential adapter; the admin and
  audit pages: validators, constants, forms and views;
- evidence bundles, the local and testnet runs, bootstraps and the build service: one-shot
  drivers of external tools.

What is left is the hazards that `PROJECT.json` lists without a property, each with the
reason, and the liveness properties, which stay with TLC.
