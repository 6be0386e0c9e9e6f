------------------------------ MODULE Relayer -------------------------------
(***************************************************************************)
(* The relay server, services/relayer/src: the /submit route with the      *)
(* services it calls (ephemeral client key, rate limiter, idempotency      *)
(* store, relay queue) and the cast and reveal pipelines.                  *)
(*                                                                         *)
(* JavaScript runs each handler to its next await, so an action is the     *)
(* code between two awaits.  The verifier, the simulator, the submitter    *)
(* and the ledger behind it are interfaces the relayer is given: they      *)
(* answer anything their types allow, and throw.  All of the server's      *)
(* state is in memory; a crash loses it, but not what was sent.            *)
(***************************************************************************)
EXTENDS Naturals, Sequences, FiniteSets

CONSTANTS
    Requests,           \* HTTP requests whose body passes the shape validation
    Keys,               \* idempotency keys
    Addresses,          \* client network addresses
    Ballots,            \* contract calls: a nullifier to cast or a commitment to reveal
    KeyOf, AddressOf, BallotOf,
    KindOf,             \* "cast" or "reveal"
    Concurrency,        \* queueConcurrency
    RateLimit,          \* ratePerMinute
    RateWindow,         \* rateWindowMs
    RotationPeriod,     \* clientKeyRotationMs
    IdempotencyTtl,     \* idempotencyTtlMs
    MaxService,         \* bound on the time from admission to answer
    MaxTime,            \* bound on the clock
    MaxCrashes,         \* bound on restarts
    None

\* A client reuses an idempotency key only to repeat the same call.
ASSUME RelayerAssumption ==
    /\ IsFiniteSet(Requests)
    /\ KeyOf \in [Requests -> Keys]
    /\ AddressOf \in [Requests -> Addresses]
    /\ BallotOf \in [Requests -> Ballots]
    /\ KindOf \in [Requests -> {"cast", "reveal"}]
    /\ \A q, r \in Requests : KeyOf[q] = KeyOf[r] =>
            BallotOf[q] = BallotOf[r] /\ KindOf[q] = KindOf[r]
    /\ {Concurrency, RateLimit, RateWindow, RotationPeriod, IdempotencyTtl, MaxService}
            \subseteq Nat \ {0}
    /\ MaxTime \in Nat
    /\ MaxCrashes \in Nat

Times == 0 .. MaxTime
Statuses == {"accepted", "duplicate", "rejected"}
Salts == 0 .. MaxTime + MaxCrashes
ClientKeys == Salts \X Addresses
Working == {"verifying", "simulating", "submitting"}
Phases == {"new", "queued", "answered", "dropped"} \cup Working

Entry == [inFlight : BOOLEAN, result : Statuses \cup {None},
          expiresAt : 0 .. MaxTime + IdempotencyTtl]
Bucket == [count : 0 .. RateLimit, resetAt : 0 .. MaxTime + RateWindow]
Answer == [status : Statuses, replay : BOOLEAN]
            \cup [status : {"error", "inFlight", "rateLimited"}, replay : {FALSE}]

\* What is absent is none of the things that can be there.
ASSUME NoneAssumption == None \notin Entry \cup Bucket \cup Answer \cup Times \cup Statuses

VARIABLES
    clock,
    crashes,        \* restarts so far
    salt,           \* which random salt is the current one
    saltExpiresAt,
    buckets,        \* the rate limiter's map
    entries,        \* the idempotency store's map
    lane,           \* requests waiting for the submitter account
    active,         \* running.get(account)
    phase,          \* where each request is
    tx,             \* the transaction of each request: none, sent, landed, bounced
    landed,         \* contract calls that have taken effect on the ledger
    answer,         \* the response written to each request
    admittedAt,     \* when each request passed the rate limiter
    overstayed      \* history: requests of this process that outlived their entry's time

vars == <<clock, crashes, salt, saltExpiresAt, buckets, entries, lane, active,
          phase, tx, landed, answer, admittedAt, overstayed>>

limiterVars == <<salt, saltExpiresAt, buckets>>
ledgerVars == <<tx, landed>>

InService(r) == phase[r] \in {"queued"} \cup Working

Init ==
    /\ clock = 0
    /\ crashes = 0
    /\ salt = 0
    /\ saltExpiresAt = RotationPeriod
    /\ buckets = [k \in ClientKeys |-> None]
    /\ entries = [k \in Keys |-> None]
    /\ lane = <<>>
    /\ active = 0
    /\ phase = [r \in Requests |-> "new"]
    /\ tx = [r \in Requests |-> "none"]
    /\ landed = {}
    /\ answer = [r \in Requests |-> None]
    /\ admittedAt = [r \in Requests |-> None]
    /\ overstayed = {}

\* Time passes; no request stays in service longer than MaxService.  One that is in service
\* when the entry made for it is up has overstayed.
Tick ==
    /\ clock < MaxTime
    /\ \A r \in Requests : InService(r) => clock < admittedAt[r] + MaxService
    /\ clock' = clock + 1
    /\ overstayed' = overstayed \cup
            {r \in Requests : InService(r) /\ admittedAt[r] + IdempotencyTtl <= clock + 1}
    /\ UNCHANGED <<crashes, limiterVars, entries, lane, active, phase, ledgerVars,
                   answer, admittedAt>>

-----------------------------------------------------------------------------
(* Ephemeral client key and rate limiter *)

\* keyFor: a salt that has expired is replaced before it is used.
KeyFor(address) ==
    <<IF clock >= saltExpiresAt THEN salt + 1 ELSE salt, address>>

RotateSalt ==
    IF clock >= saltExpiresAt
    THEN salt' = salt + 1 /\ saltExpiresAt' = clock + RotationPeriod
    ELSE UNCHANGED <<salt, saltExpiresAt>>

CurrentBucket(key) ==
    IF buckets[key] = None \/ (buckets[key] # None /\ clock >= buckets[key].resetAt)
    THEN [count |-> 0, resetAt |-> clock + RateWindow]
    ELSE buckets[key]

\* Mutant: an admitted request is not counted.
CheckRate_NeverCounts(r, allowed) ==
    LET key == KeyFor(AddressOf[r]) bucket == CurrentBucket(key)
    IN  /\ RotateSalt
        /\ allowed = (bucket.count < RateLimit)
        /\ buckets' = [buckets EXCEPT ![key] = bucket]

CheckRate(r, allowed) ==
    LET key == KeyFor(AddressOf[r])
        bucket == CurrentBucket(key)
    IN  /\ RotateSalt
        /\ allowed = (bucket.count < RateLimit)
        /\ buckets' = [buckets EXCEPT ![key] =
                IF allowed THEN [bucket EXCEPT !.count = @ + 1] ELSE bucket]

-----------------------------------------------------------------------------
(* Idempotency store *)

\* evict: expired entries are deleted, those in flight too.
Live(key) ==
    IF entries[key] = None THEN None
    ELSE IF entries[key].expiresAt <= clock THEN None
    ELSE entries[key]

LiveEntries == [k \in Keys |-> Live(k)]

InFlightEntry == [inFlight |-> TRUE, result |-> None, expiresAt |-> clock + IdempotencyTtl]
DoneEntry(status) ==
    [inFlight |-> FALSE, result |-> status, expiresAt |-> clock + IdempotencyTtl]

\* Mutant: a failed request leaves its entry behind.
Settled_KeepsFailed(key, status) ==
    IF status = "error" THEN entries
    ELSE [entries EXCEPT ![key] = DoneEntry(status)]

\* complete() and fail(), whatever the entry of the key is by then.
Settled(key, status) ==
    IF status = "error"
    THEN [entries EXCEPT ![key] = None]
    ELSE [entries EXCEPT ![key] = DoneEntry(status)]

-----------------------------------------------------------------------------
(* Relay queue *)

FirstPhase(r) == IF KindOf[r] = "cast" THEN "verifying" ELSE "simulating"

\* Mutant: the concurrency limit is not looked at.
Pump_Unlimited(waiting, running, phases) ==
    IF waiting # <<>>
    THEN /\ lane' = Tail(waiting)
         /\ active' = running + 1
         /\ phase' = [phases EXCEPT ![Head(waiting)] = FirstPhase(Head(waiting))]
    ELSE /\ lane' = waiting
         /\ active' = running
         /\ phase' = phases

\* pump: start the first waiting request if the account has a free slot.
Pump(waiting, running, phases) ==
    IF running < Concurrency /\ waiting # <<>>
    THEN /\ lane' = Tail(waiting)
         /\ active' = running + 1
         /\ phase' = [phases EXCEPT ![Head(waiting)] = FirstPhase(Head(waiting))]
    ELSE /\ lane' = waiting
         /\ active' = running
         /\ phase' = phases

-----------------------------------------------------------------------------
(* The /submit route, from the end of the body to its first await *)

Reply(r, status, replay) ==
    answer' = [answer EXCEPT ![r] = [status |-> status, replay |-> replay]]

SubmitRateLimited(r) ==
    /\ phase[r] = "new"
    /\ CheckRate(r, FALSE)
    /\ Reply(r, "rateLimited", FALSE)
    /\ phase' = [phase EXCEPT ![r] = "answered"]
    /\ UNCHANGED <<clock, overstayed, crashes, entries, lane, active, ledgerVars, admittedAt>>

\* The request passed the limiter, and its key is in the store.
Admit(r) ==
    /\ phase[r] = "new"
    /\ CheckRate(r, TRUE)
    /\ admittedAt' = [admittedAt EXCEPT ![r] = clock]
    /\ UNCHANGED <<clock, overstayed, crashes, ledgerVars>>

SubmitInFlight(r) ==
    /\ Admit(r)
    /\ Live(KeyOf[r]) # None
    /\ Live(KeyOf[r]).inFlight
    /\ entries' = LiveEntries
    /\ Reply(r, "inFlight", FALSE)
    /\ phase' = [phase EXCEPT ![r] = "answered"]
    /\ UNCHANGED <<lane, active>>

\* Mutant: replays without asking whether the first request has finished.
SubmitReplay_Unfinished(r) ==
    /\ Admit(r)
    /\ Live(KeyOf[r]) # None
    /\ entries' = LiveEntries
    /\ Reply(r, Live(KeyOf[r]).result, TRUE)
    /\ phase' = [phase EXCEPT ![r] = "answered"]
    /\ UNCHANGED <<lane, active>>

SubmitReplay(r) ==
    /\ Admit(r)
    /\ Live(KeyOf[r]) # None
    /\ ~ Live(KeyOf[r]).inFlight
    /\ entries' = LiveEntries
    /\ Reply(r, Live(KeyOf[r]).result, TRUE)
    /\ phase' = [phase EXCEPT ![r] = "answered"]
    /\ UNCHANGED <<lane, active>>

\* Mutant: the key is only recorded when the request completes.
SubmitFresh_NotRecorded(r) ==
    /\ Admit(r)
    /\ Live(KeyOf[r]) = None
    /\ entries' = LiveEntries
    /\ Pump(Append(lane, r), active, [phase EXCEPT ![r] = "queued"])
    /\ UNCHANGED answer

SubmitFresh(r) ==
    /\ Admit(r)
    /\ Live(KeyOf[r]) = None
    /\ entries' = [LiveEntries EXCEPT ![KeyOf[r]] = InFlightEntry]
    /\ Pump(Append(lane, r), active, [phase EXCEPT ![r] = "queued"])
    /\ UNCHANGED answer

-----------------------------------------------------------------------------
(* executeCast and executeReveal *)

Verified(r) ==
    /\ phase[r] = "verifying"
    /\ phase' = [phase EXCEPT ![r] = "simulating"]
    /\ UNCHANGED <<clock, overstayed, crashes, limiterVars, entries, lane, active, ledgerVars,
                   answer, admittedAt>>

\* The simulation succeeded: the submitter sends the transaction.
Simulated(r) ==
    /\ phase[r] = "simulating"
    /\ phase' = [phase EXCEPT ![r] = "submitting"]
    /\ tx' = [tx EXCEPT ![r] = "sent"]
    /\ UNCHANGED <<clock, overstayed, crashes, limiterVars, entries, lane, active, landed,
                   answer, admittedAt>>

\* The ledger applies a transaction, at any time after it was sent or never; the
\* contract refuses a nullifier, or a commitment, that was already used.
LedgerApplies(r) ==
    /\ tx[r] = "sent"
    /\ tx' = [tx EXCEPT ![r] = IF BallotOf[r] \in landed THEN "bounced" ELSE "landed"]
    /\ landed' = landed \cup {BallotOf[r]}
    /\ UNCHANGED <<clock, overstayed, crashes, limiterVars, entries, lane, active, phase,
                   answer, admittedAt>>

\* Mutants: a duplicate is reported as accepted; any submitted cast is accepted.
Outcomes_DuplicateAccepted(r) ==
    {"rejected", "error"} \cup (IF tx[r] \in {"landed", "bounced"} THEN {"accepted"} ELSE {})
Outcomes_SentIsAccepted(r) ==
    {"rejected", "error"} \cup (IF phase[r] = "submitting" THEN {"accepted"} ELSE {})

\* How a pipeline can end.  A failed verification, simulation or submission, and
\* a submission whose hash is not canonical, are "rejected"; an adapter that
\* throws is an "error".  Only a cast can be "duplicate".
Outcomes(r) ==
    {"rejected", "error"}
      \cup (IF phase[r] = "submitting" /\ tx[r] = "landed" THEN {"accepted"} ELSE {})
      \cup (IF phase[r] = "submitting" /\ tx[r] = "bounced" /\ KindOf[r] = "cast"
            THEN {"duplicate"} ELSE {})

\* Mutants: the slot of a failed task is not given back; the next task of the lane
\* is not started.
Finish_LeaksSlot(r) ==
    /\ phase[r] \in Working
    /\ \E status \in Outcomes(r) :
         /\ entries' = Settled(KeyOf[r], status)
         /\ Reply(r, status, FALSE)
         /\ Pump(lane, IF status = "error" THEN active ELSE active - 1,
                 [phase EXCEPT ![r] = "answered"])
    /\ UNCHANGED <<clock, overstayed, crashes, limiterVars, ledgerVars, admittedAt>>
Finish_NoPump(r) ==
    /\ phase[r] \in Working
    /\ \E status \in Outcomes(r) :
         /\ entries' = Settled(KeyOf[r], status)
         /\ Reply(r, status, FALSE)
         /\ phase' = [phase EXCEPT ![r] = "answered"]
    /\ active' = active - 1
    /\ UNCHANGED <<clock, overstayed, crashes, limiterVars, ledgerVars, admittedAt, lane>>

\* The task settles.  The route records the outcome and responds, and then, in
\* the same turn of the event loop, the queue frees the slot and pumps again.
Finish(r) ==
    /\ phase[r] \in Working
    /\ \E status \in Outcomes(r) :
         /\ entries' = Settled(KeyOf[r], status)
         /\ Reply(r, status, FALSE)
    /\ Pump(lane, active - 1, [phase EXCEPT ![r] = "answered"])
    /\ UNCHANGED <<clock, overstayed, crashes, limiterVars, ledgerVars, admittedAt>>

-----------------------------------------------------------------------------
\* The process dies and is started again with empty maps and a new salt; requests
\* in service lose their connection.  What was sent stays sent.
Crash ==
    /\ crashes < MaxCrashes
    /\ crashes' = crashes + 1
    /\ salt' = salt + 1
    /\ saltExpiresAt' = clock + RotationPeriod
    /\ buckets' = [k \in ClientKeys |-> None]
    /\ entries' = [k \in Keys |-> None]
    /\ lane' = <<>>
    /\ active' = 0
    /\ phase' = [r \in Requests |-> IF InService(r) THEN "dropped" ELSE phase[r]]
    /\ overstayed' = {}
    /\ UNCHANGED <<clock, ledgerVars, answer, admittedAt>>

Next ==
    \/ Tick
    \/ Crash
    \/ \E r \in Requests :
        \/ SubmitRateLimited(r)
        \/ SubmitInFlight(r)
        \/ SubmitReplay(r)
        \/ SubmitFresh(r)
        \/ Verified(r)
        \/ Simulated(r)
        \/ LedgerApplies(r)
        \/ Finish(r)

Spec == Init /\ [][Next]_vars

\* Each call of an adapter settles, so a request at work makes progress.  Nothing
\* is assumed of the clients, of the ledger or of the order of the answers.
Progress(r) == Verified(r) \/ Simulated(r) \/ Finish(r)

FairSpec == Spec /\ \A r \in Requests : WF_vars(Progress(r))

-----------------------------------------------------------------------------
(* Properties *)

TypeOK ==
    /\ clock \in Times
    /\ crashes \in 0 .. MaxCrashes
    /\ salt \in Salts
    /\ saltExpiresAt \in 0 .. MaxTime + RotationPeriod
    /\ buckets \in [ClientKeys -> Bucket \cup {None}]
    /\ entries \in [Keys -> Entry \cup {None}]
    /\ lane \in Seq(Requests)
    /\ active \in 0 .. Concurrency
    /\ phase \in [Requests -> Phases]
    /\ tx \in [Requests -> {"none", "sent", "landed", "bounced"}]
    /\ landed \in SUBSET Ballots
    /\ answer \in [Requests -> Answer \cup {None}]
    /\ admittedAt \in [Requests -> Times \cup {None}]
    /\ overstayed \in SUBSET Requests

AtWork == {r \in Requests : phase[r] \in Working}
Queued == {r \in Requests : phase[r] = "queued"}

\* The queue never runs more than Concurrency tasks, its slot count is the
\* number of tasks at work, a request waits in the lane exactly once, and none
\* waits while a slot is free: no path through the pipeline, thrown errors
\* included, loses a slot or a wake-up.
QueueKeepsWorking ==
    /\ active = Cardinality(AtWork)
    /\ active <= Concurrency
    /\ {lane[i] : i \in DOMAIN lane} = Queued
    /\ Len(lane) = Cardinality(Queued)
    /\ Queued # {} => active = Concurrency

\* A key marked in flight has a request in service: a failed request leaves no
\* entry that would answer 409 to its own retry.
InFlightKeyHasRequest ==
    \A k \in Keys :
        entries[k] # None /\ entries[k].inFlight =>
            \E r \in Requests : InService(r) /\ KeyOf[r] = k

Executing(k) == {r \in Requests : InService(r) /\ KeyOf[r] = k}
Overstayed(k) == {r \in overstayed : KeyOf[r] = k}

\* Requests with one idempotency key are executed one at a time, except for what slow
\* ones cause: the store evicts entries in flight too, and a late failure deletes whatever
\* entry its key has by then.  Each execution more than one, which may pay for a transaction
\* more than one, is made up for by a request that was in service for the whole replay window.
OneExecutionPerKey ==
    \A k \in Keys : Cardinality(Executing(k)) <= 1 + Cardinality(Overstayed(k))

\* What the client is told of a ballot is so: accepted and duplicate mean that the
\* ballot is on the ledger, also when the answer is a replay and whatever crashed
\* or expired in between.
AnswersAreTrue ==
    \A r \in Requests :
        answer[r] # None /\ answer[r].status \in {"accepted", "duplicate"} =>
            BallotOf[r] \in landed

\* One ballot is accepted once: any other request for it, under any key, is a replay
\* of that answer or is not accepted.
AcceptedOnce ==
    \A q, r \in Requests :
        /\ answer[q] = [status |-> "accepted", replay |-> FALSE]
        /\ answer[r] = [status |-> "accepted", replay |-> FALSE]
        /\ BallotOf[q] = BallotOf[r]
        => q = r

\* A replayed answer was first given to a request with the same key.
ReplayHasOriginal ==
    \A r \in Requests :
        answer[r] # None /\ answer[r].replay =>
            \E q \in Requests :
                /\ KeyOf[q] = KeyOf[r]
                /\ answer[q] = [status |-> answer[r].status, replay |-> FALSE]

Admitted(S, t) == {r \in S : admittedAt[r] # None /\ admittedAt[r] \in t .. t + RateWindow - 1}

\* Windows restart and salts rotate at their own times, so an address can be admitted
\* more often than RateLimit in a time as long as a window, but never more than
\* this for each process: the end of one window, the next one, and one
\* under the next salt.  It needs a salt that lasts as long as a window, as by default;
\* the configuration takes any two periods.
AddressRateBounded ==
    \A address \in Addresses, t \in Times :
        Cardinality(Admitted({r \in Requests : AddressOf[r] = address}, t))
            <= (3 * RateLimit - 1) * (1 + crashes)

\* The relayer's README: "each idempotencyKey is rate-limited per minute".
KeyRateLimited ==
    \A key \in Keys, t \in Times :
        Cardinality(Admitted({r \in Requests : KeyOf[r] = key}, t)) <= RateLimit

\* Every request in service is answered, or loses its connection in a crash: no
\* task waits for ever behind another.
EveryRequestAnswered ==
    \A r \in Requests : phase[r] = "queued" ~> phase[r] \in {"answered", "dropped"}

=============================================================================
