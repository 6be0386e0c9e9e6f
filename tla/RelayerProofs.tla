--------------------------- MODULE RelayerProofs ----------------------------
(* Theorems about the relay server, for any requests, keys, limits and periods: *)
(* its types, its queue, what it answers and how often it executes a request.   *)
EXTENDS Relayer, FiniteSetTheorems, TLAPS

-----------------------------------------------------------------------------
(* The inductive invariants, part by part *)

ClockOK == clock \in Times /\ crashes \in 0 .. MaxCrashes

\* A salt lasts RotationPeriod, so there are no more of them than ticks and restarts.
LimiterOK ==
    /\ salt \in Nat /\ saltExpiresAt \in Nat
    /\ salt <= clock + crashes
    /\ salt + RotationPeriod <= saltExpiresAt + crashes
    /\ saltExpiresAt <= clock + RotationPeriod
    /\ buckets \in [ClientKeys -> Bucket \cup {None}]

WaitingIn(phases) == {r \in Requests : phases[r] = "queued"}
WorkingIn(phases) == {r \in Requests : phases[r] \in Working}

\* A lane, a slot count and phases that agree: each waiting request has one place in
\* the lane and each slot in use has a request at work.
QueueMatches(waiting, running, phases) ==
    /\ waiting \in Seq(Requests)
    /\ phases \in [Requests -> Phases]
    /\ running \in 0 .. Concurrency
    /\ \A i, j \in DOMAIN waiting : waiting[i] = waiting[j] => i = j
    /\ {waiting[i] : i \in DOMAIN waiting} = WaitingIn(phases)
    /\ Len(waiting) = Cardinality(WaitingIn(phases))
    /\ running = Cardinality(WorkingIn(phases))

\* Nothing waits while a slot is free.
QueueOK ==
    /\ QueueMatches(lane, active, phase)
    /\ lane # <<>> => active = Concurrency

\* A finished entry has the status that a request with its key was first answered.
EntriesOK ==
    /\ entries \in [Keys -> Entry \cup {None}]
    /\ \A k \in Keys :
          entries[k] # None /\ ~ entries[k].inFlight =>
              /\ entries[k].result \in Statuses
              /\ \E q \in Requests :
                    /\ KeyOf[q] = k
                    /\ answer[q] = [status |-> entries[k].result, replay |-> FALSE]

\* A request is answered once, and only what its transaction did.
AnswersOK ==
    /\ answer \in [Requests -> Answer \cup {None}]
    /\ \A r \in Requests : answer[r] # None <=> phase[r] = "answered"
    /\ \A r \in Requests :
          /\ answer[r] = [status |-> "accepted", replay |-> FALSE] => tx[r] = "landed"
          /\ answer[r] = [status |-> "duplicate", replay |-> FALSE] => tx[r] = "bounced"

\* A request sends one transaction, and a ballot has one transaction that landed.
LedgerOK ==
    /\ tx \in [Requests -> {"none", "sent", "landed", "bounced"}]
    /\ landed \in SUBSET Ballots
    /\ \A r \in Requests :
          /\ phase[r] \in {"new", "queued", "verifying", "simulating"} => tx[r] = "none"
          /\ tx[r] \in {"landed", "bounced"} => BallotOf[r] \in landed
    /\ \A q, r \in Requests :
          tx[q] = "landed" /\ tx[r] = "landed" /\ BallotOf[q] = BallotOf[r] => q = r

\* The inductive invariant behind the theorems about the relayer.
IndInv ==
    /\ ClockOK
    /\ LimiterOK
    /\ QueueOK
    /\ EntriesOK
    /\ AnswersOK
    /\ LedgerOK
    /\ ReplayHasOriginal
    /\ admittedAt \in [Requests -> Times \cup {None}]
    /\ overstayed \in SUBSET Requests

\* A live entry allows for one execution of its key, and outlives the time of everything
\* that is executed under it; the other executions are made up for by requests that overstayed.
KeyOK(k) ==
    /\ Live(k) = None => Cardinality(Executing(k)) <= Cardinality(Overstayed(k))
    /\ Live(k) # None =>
          /\ Cardinality(Executing(k)) <= 1 + Cardinality(Overstayed(k))
          /\ \A r \in Executing(k) : admittedAt[r] + IdempotencyTtl <= entries[k].expiresAt

ServiceInv ==
    /\ \A r \in Requests : InService(r) => admittedAt[r] \in Times /\ admittedAt[r] <= clock
    /\ \A k \in Keys : KeyOK(k)

-----------------------------------------------------------------------------
(* What the actions leave alone *)

\* The limits, periods and bounds are numbers.
LEMMA Limits ==
    /\ Concurrency \in Nat /\ Concurrency > 0
    /\ RateLimit \in Nat /\ RateLimit > 0
    /\ RateWindow \in Nat /\ RotationPeriod \in Nat /\ RotationPeriod > 0
    /\ IdempotencyTtl \in Nat /\ MaxService \in Nat
    /\ MaxTime \in Nat /\ MaxCrashes \in Nat
<1>1. /\ Concurrency \in Nat \ {0} /\ RateLimit \in Nat \ {0} /\ RateWindow \in Nat \ {0}
      /\ RotationPeriod \in Nat \ {0} /\ IdempotencyTtl \in Nat \ {0}
      /\ MaxService \in Nat \ {0}
  BY RelayerAssumption
<1>2. MaxTime \in Nat /\ MaxCrashes \in Nat
  BY RelayerAssumption
<1>3. QED
  BY <1>1, <1>2

\* The four ways in which the submit route deals with a new request.
Submit(r) == SubmitRateLimited(r) \/ SubmitInFlight(r) \/ SubmitReplay(r) \/ SubmitFresh(r)

\* The variables that each action leaves alone.
LEMMA Frames ==
    /\ Tick => /\ clock' = clock + 1
               /\ UNCHANGED <<crashes, salt, saltExpiresAt, buckets, entries, lane, active, phase,
                              tx, landed, answer, admittedAt>>
    /\ Crash => UNCHANGED <<clock, tx, landed, answer, admittedAt>>
    /\ UNCHANGED vars => UNCHANGED <<clock, overstayed, crashes, salt, saltExpiresAt, buckets, entries, lane,
                                     active, phase, tx, landed, answer, admittedAt>>
    /\ \A r : Submit(r) => UNCHANGED <<clock, overstayed, crashes, tx, landed>>
    /\ \A r : Verified(r) => UNCHANGED <<clock, overstayed, crashes, salt, saltExpiresAt, buckets, entries, lane,
                                         active, tx, landed, answer, admittedAt>>
    /\ \A r : Simulated(r) => UNCHANGED <<clock, overstayed, crashes, salt, saltExpiresAt, buckets, entries, lane,
                                          active, landed, answer, admittedAt>>
    /\ \A r : LedgerApplies(r) => UNCHANGED <<clock, overstayed, crashes, salt, saltExpiresAt, buckets, entries,
                                              lane, active, phase, answer, admittedAt>>
    /\ \A r : Finish(r) => UNCHANGED <<clock, overstayed, crashes, salt, saltExpiresAt, buckets, tx, landed,
                                       admittedAt>>
<1>1. Tick => /\ clock' = clock + 1
              /\ UNCHANGED <<crashes, salt, saltExpiresAt, buckets, entries, lane, active, phase,
                             tx, landed, answer, admittedAt>>
  BY DEF Tick, limiterVars, ledgerVars
<1>2. Crash => UNCHANGED <<clock, tx, landed, answer, admittedAt>>
  BY DEF Crash, ledgerVars
<1>3. UNCHANGED vars => UNCHANGED <<clock, overstayed, crashes, salt, saltExpiresAt, buckets, entries, lane,
                                    active, phase, tx, landed, answer, admittedAt>>
  BY DEF vars
<1>4. ASSUME NEW r, Submit(r)
      PROVE  UNCHANGED <<clock, overstayed, crashes, tx, landed>>
  BY <1>4 DEF Submit, SubmitRateLimited, SubmitInFlight, SubmitReplay, SubmitFresh, Admit, ledgerVars
<1>5. ASSUME NEW r, Verified(r)
      PROVE  UNCHANGED <<clock, overstayed, crashes, salt, saltExpiresAt, buckets, entries, lane,
                         active, tx, landed, answer, admittedAt>>
  BY <1>5 DEF Verified, limiterVars, ledgerVars
<1>6. ASSUME NEW r, Simulated(r)
      PROVE  UNCHANGED <<clock, overstayed, crashes, salt, saltExpiresAt, buckets, entries, lane,
                         active, landed, answer, admittedAt>>
  BY <1>6 DEF Simulated, limiterVars
<1>7. ASSUME NEW r, LedgerApplies(r)
      PROVE  UNCHANGED <<clock, overstayed, crashes, salt, saltExpiresAt, buckets, entries,
                         lane, active, phase, answer, admittedAt>>
  BY <1>7 DEF LedgerApplies, limiterVars
<1>8. ASSUME NEW r, Finish(r)
      PROVE  UNCHANGED <<clock, overstayed, crashes, salt, saltExpiresAt, buckets, tx, landed, admittedAt>>
  BY <1>8 DEF Finish, limiterVars, ledgerVars
<1>9. QED
  BY <1>1, <1>2, <1>3, <1>4, <1>5, <1>6, <1>7, <1>8

\* What a next step is, the four submits as one.
LEMMA Steps ==
    ASSUME [Next]_vars
    PROVE  \/ Tick
           \/ Crash
           \/ UNCHANGED vars
           \/ \E r \in Requests : Submit(r)
           \/ \E r \in Requests : Verified(r)
           \/ \E r \in Requests : Simulated(r)
           \/ \E r \in Requests : LedgerApplies(r)
           \/ \E r \in Requests : Finish(r)
  BY DEF Next, Submit

-----------------------------------------------------------------------------
(* Clock, salts and rate windows *)

\* Time and restarts stay within their bounds.
LEMMA ClockStep ==
    ASSUME ClockOK, [Next]_vars
    PROVE  ClockOK'
<1>1. CASE UNCHANGED <<clock, crashes>>
  BY <1>1 DEF ClockOK
<1>2. CASE Tick
  BY <1>2, Frames, Limits DEF Tick, ClockOK, Times
<1>3. CASE Crash
  BY <1>3, Frames, Limits DEF Crash, ClockOK
<1>4. QED
  BY <1>1, <1>2, <1>3, Steps, Frames

\* A check of the rate keeps the salts and windows in range, and the salt it uses is
\* one that the bounds have room for.
LEMMA CheckRateTyping ==
    ASSUME ClockOK, LimiterOK, UNCHANGED <<clock, crashes>>,
           NEW r \in Requests, NEW allowed \in BOOLEAN, CheckRate(r, allowed)
    PROVE  LimiterOK'
<1> DEFINE key == KeyFor(AddressOf[r])
           bucket == CurrentBucket(key)
           counted == IF allowed THEN [bucket EXCEPT !.count = @ + 1] ELSE bucket
<1>1. /\ RotateSalt
      /\ allowed = (bucket.count < RateLimit)
      /\ buckets' = [buckets EXCEPT ![key] = counted]
  BY DEF CheckRate
<1>2. /\ clock \in Nat /\ crashes \in Nat /\ clock <= MaxTime /\ crashes <= MaxCrashes
      /\ salt \in Nat /\ saltExpiresAt \in Nat
      /\ salt <= clock + crashes
      /\ salt + RotationPeriod <= saltExpiresAt + crashes
      /\ saltExpiresAt <= clock + RotationPeriod
  BY Limits DEF ClockOK, LimiterOK, Times
<1>3. /\ salt' \in Nat /\ saltExpiresAt' \in Nat
      /\ salt' <= clock + crashes
      /\ salt' + RotationPeriod <= saltExpiresAt' + crashes
      /\ saltExpiresAt' <= clock + RotationPeriod
  BY <1>1, <1>2, Limits DEF RotateSalt
<1>4. key \in ClientKeys
  <2>1. key[1] = salt'
    BY <1>1 DEF RotateSalt, KeyFor
  <2>2. salt' \in Salts
    BY <1>2, <1>3, Limits DEF Salts
  <2>3. AddressOf[r] \in Addresses
    BY RelayerAssumption
  <2>4. QED
    BY <2>1, <2>2, <2>3 DEF ClientKeys, KeyFor
<1>5. bucket \in Bucket
  <2>1. buckets[key] \in Bucket \cup {None}
    BY <1>4 DEF LimiterOK
  <2>2. [count |-> 0, resetAt |-> clock + RateWindow] \in Bucket
    BY <1>2, Limits DEF Bucket
  <2>3. QED
    BY <2>1, <2>2 DEF CurrentBucket
<1>6. counted \in Bucket
  <2>1. bucket.count \in 0 .. RateLimit /\ bucket.resetAt \in 0 .. MaxTime + RateWindow
    BY <1>5 DEF Bucket
  <2> HIDE DEF bucket
  <2>2. allowed => bucket.count < RateLimit
    BY <1>1, Zenon
  <2>3. allowed => bucket.count + 1 \in 0 .. RateLimit
    BY <2>1, <2>2, Limits
  <2>4. QED
    BY <1>5, <2>3 DEF Bucket
<1>7. buckets' \in [ClientKeys -> Bucket \cup {None}]
  BY <1>1, <1>4, <1>6 DEF LimiterOK
<1>8. QED
  BY <1>3, <1>7 DEF LimiterOK

\* The limiter's types and the bound on the salts are kept.
LEMMA LimiterStep ==
    ASSUME ClockOK, LimiterOK, [Next]_vars
    PROVE  LimiterOK'
<1>1. CASE UNCHANGED <<clock, crashes, salt, saltExpiresAt, buckets>>
  BY <1>1 DEF LimiterOK
<1>2. CASE Tick
  BY <1>2, Frames, Limits DEF LimiterOK, ClockOK, Times
<1>3. CASE Crash
  <2>1. [k \in ClientKeys |-> None] \in [ClientKeys -> Bucket \cup {None}]
    OBVIOUS
  <2>2. QED
    BY <1>3, <2>1, Limits DEF Crash, LimiterOK, ClockOK, Times
<1>4. ASSUME NEW r \in Requests, Submit(r)
      PROVE  LimiterOK'
  <2>1. CheckRate(r, TRUE) \/ CheckRate(r, FALSE)
    BY <1>4 DEF Submit, SubmitRateLimited, SubmitInFlight, SubmitReplay, SubmitFresh, Admit
  <2>2. UNCHANGED <<clock, crashes>>
    BY <1>4, Frames
  <2>3. QED
    BY <2>1, <2>2, CheckRateTyping
<1>5. QED
  BY <1>1, <1>2, <1>3, <1>4, Steps, Frames


-----------------------------------------------------------------------------
(* The queue *)

\* A sequence without its first element.
LEMMA HeadAndTail ==
    ASSUME NEW S, NEW s \in Seq(S), s # <<>>
    PROVE  /\ Len(s) \in Nat /\ Len(s) > 0 /\ DOMAIN s = 1 .. Len(s)
           /\ Head(s) = s[1] /\ Head(s) \in S
           /\ Tail(s) \in Seq(S) /\ Len(Tail(s)) = Len(s) - 1
           /\ DOMAIN Tail(s) = 1 .. Len(s) - 1
           /\ \A i \in 1 .. Len(s) - 1 : Tail(s)[i] = s[i + 1]
  OBVIOUS

\* A sequence with one more element.
LEMMA OneMoreLast ==
    ASSUME NEW S, NEW s \in Seq(S), NEW x \in S
    PROVE  /\ Len(s) \in Nat /\ DOMAIN s = 1 .. Len(s)
           /\ Append(s, x) \in Seq(S) /\ Len(Append(s, x)) = Len(s) + 1
           /\ DOMAIN Append(s, x) = 1 .. Len(s) + 1
           /\ \A i \in 1 .. Len(s) : Append(s, x)[i] = s[i]
           /\ Append(s, x)[Len(s) + 1] = x
  OBVIOUS

\* The sets of requests are finite.
LEMMA RequestsFinite ==
    ASSUME NEW S \in SUBSET Requests
    PROVE  IsFiniteSet(S) /\ Cardinality(S) \in Nat
  BY RelayerAssumption, FS_Subset, FS_CardinalityType

\* A pump starts the first request of the lane or finds every slot taken.
LEMMA PumpKeepsQueue ==
    ASSUME NEW waiting, NEW running, NEW phases,
           QueueMatches(waiting, running, phases),
           Len(waiting) > 1 => running + 1 >= Concurrency,
           Pump(waiting, running, phases)
    PROVE  QueueOK'
<1>0. /\ waiting \in Seq(Requests) /\ phases \in [Requests -> Phases]
      /\ running \in Nat /\ running <= Concurrency
      /\ \A i, j \in DOMAIN waiting : waiting[i] = waiting[j] => i = j
      /\ {waiting[i] : i \in DOMAIN waiting} = WaitingIn(phases)
      /\ Len(waiting) = Cardinality(WaitingIn(phases))
      /\ running = Cardinality(WorkingIn(phases))
  BY Limits DEF QueueMatches
<1>1. CASE ~ (running < Concurrency /\ waiting # <<>>)
  <2>1. lane' = waiting /\ active' = running /\ phase' = phases
    BY <1>1 DEF Pump
  <2>2. QED
    BY <1>0, <1>1, <2>1, Limits DEF QueueOK, QueueMatches
<1>2. CASE running < Concurrency /\ waiting # <<>>
  <2> DEFINE first == Head(waiting)
  <2>1. /\ lane' = Tail(waiting) /\ active' = running + 1
        /\ phase' = [phases EXCEPT ![first] = FirstPhase(first)]
    BY <1>2 DEF Pump
  <2>2. /\ Len(waiting) \in Nat /\ Len(waiting) > 0 /\ DOMAIN waiting = 1 .. Len(waiting)
        /\ first = waiting[1] /\ first \in Requests
        /\ lane' \in Seq(Requests) /\ Len(lane') = Len(waiting) - 1
        /\ DOMAIN lane' = 1 .. Len(waiting) - 1
        /\ \A i \in 1 .. Len(waiting) - 1 : lane'[i] = waiting[i + 1]
    BY <1>0, <1>2, <2>1, HeadAndTail
  <2>3. first \in WaitingIn(phases)
    <3>1. 1 \in DOMAIN waiting
      BY <2>2
    <3>2. QED
      BY <1>0, <2>2, <3>1
  <2>4. FirstPhase(first) \in Working
    BY DEF FirstPhase, Working
  <2> HIDE DEF first
  <2>5. phase' \in [Requests -> Phases]
    BY <1>0, <2>1, <2>4 DEF Phases
  <2>6. WaitingIn(phase') = WaitingIn(phases) \ {first}
    BY <1>0, <2>1, <2>4 DEF WaitingIn, Working
  <2>7. WorkingIn(phase') = WorkingIn(phases) \cup {first} /\ first \notin WorkingIn(phases)
    BY <1>0, <2>1, <2>2, <2>3, <2>4 DEF WaitingIn, WorkingIn, Working
  <2>8. Cardinality(WaitingIn(phase')) = Cardinality(WaitingIn(phases)) - 1
    <3>1. IsFiniteSet(WaitingIn(phases))
      BY RequestsFinite DEF WaitingIn
    <3>2. QED
      BY <2>3, <2>6, <3>1, FS_RemoveElement
  <2>9. Cardinality(WorkingIn(phase')) = Cardinality(WorkingIn(phases)) + 1
    <3>1. IsFiniteSet(WorkingIn(phases))
      BY RequestsFinite DEF WorkingIn
    <3>2. QED
      BY <2>7, <3>1, FS_AddElement
  <2>10. \A i, j \in DOMAIN lane' : lane'[i] = lane'[j] => i = j
    <3> SUFFICES ASSUME NEW i \in DOMAIN lane', NEW j \in DOMAIN lane', lane'[i] = lane'[j]
                 PROVE  i = j
      OBVIOUS
    <3>1. /\ i \in Nat /\ j \in Nat /\ i + 1 \in DOMAIN waiting /\ j + 1 \in DOMAIN waiting
          /\ lane'[i] = waiting[i + 1] /\ lane'[j] = waiting[j + 1]
      BY <2>2
    <3>2. i + 1 = j + 1
      BY <1>0, <3>1
    <3>3. QED
      BY <3>1, <3>2
  <2>11. {lane'[i] : i \in DOMAIN lane'} = WaitingIn(phases) \ {first}
    <3>1. ASSUME NEW i \in DOMAIN lane'
          PROVE  lane'[i] \in WaitingIn(phases) /\ lane'[i] # first
      <4>1. /\ i \in Nat /\ i + 1 \in DOMAIN waiting /\ 1 \in DOMAIN waiting /\ i + 1 # 1
            /\ lane'[i] = waiting[i + 1]
        BY <2>2
      <4>2. QED
        BY <1>0, <2>2, <4>1
    <3>2. ASSUME NEW r \in WaitingIn(phases), r # first
          PROVE  \E i \in DOMAIN lane' : lane'[i] = r
      <4>1. PICK k \in DOMAIN waiting : waiting[k] = r
        BY <1>0
      <4>2. k \in 1 .. Len(waiting) /\ k # 1
        BY <2>2, <3>2, <4>1
      <4>3. k - 1 \in 1 .. Len(waiting) - 1 /\ (k - 1) + 1 = k
        BY <2>2, <4>2
      <4>4. k - 1 \in DOMAIN lane' /\ lane'[k - 1] = r
        BY <2>2, <4>1, <4>3
      <4>5. QED
        BY <4>4
    <3>3. QED
      BY <3>1, <3>2
  <2>12. QueueMatches(lane', active', phase')
    <3>1. active' \in 0 .. Concurrency
      BY <1>0, <1>2, <2>1, Limits
    <3>2. Len(lane') = Cardinality(WaitingIn(phase'))
      BY <1>0, <2>2, <2>8
    <3>3. active' = Cardinality(WorkingIn(phase'))
      BY <1>0, <2>1, <2>9
    <3>4. {lane'[i] : i \in DOMAIN lane'} = WaitingIn(phase')
      BY <2>6, <2>11
    <3>5. QED
      BY <2>2, <2>5, <2>10, <3>1, <3>2, <3>3, <3>4 DEF QueueMatches
  <2>13. lane' # <<>> => active' = Concurrency
    BY <1>0, <1>2, <2>1, <2>2, Limits
  <2>14. QED
    BY <2>12, <2>13 DEF QueueOK
<1>3. QED
  BY <1>1, <1>2

\* A request that moves outside the lane, at work before and after or neither.
LEMMA MovesOutsideLane ==
    ASSUME QueueOK, UNCHANGED <<lane, active>>,
           NEW r \in Requests, NEW to \in Phases, phase' = [phase EXCEPT ![r] = to],
           phase[r] # "queued", to # "queued", phase[r] \in Working <=> to \in Working
    PROVE  QueueOK'
<1>1. phase \in [Requests -> Phases] /\ phase' \in [Requests -> Phases]
  BY DEF QueueOK, QueueMatches
<1>2. WaitingIn(phase') = WaitingIn(phase) /\ WorkingIn(phase') = WorkingIn(phase)
  BY <1>1 DEF WaitingIn, WorkingIn
<1>3. QED
  BY <1>1, <1>2 DEF QueueOK, QueueMatches


\* A fresh request goes to the end of the lane.
LEMMA FreshKeepsQueue ==
    ASSUME QueueOK, NEW r \in Requests, SubmitFresh(r)
    PROVE  QueueOK'
<1> DEFINE waiting == Append(lane, r)
           phases == [phase EXCEPT ![r] = "queued"]
<1>1. /\ phase[r] = "new"
      /\ Pump(waiting, active, phases)
  BY DEF SubmitFresh, Admit
<1>2. /\ lane \in Seq(Requests) /\ phase \in [Requests -> Phases]
      /\ active \in 0 .. Concurrency
      /\ \A i, j \in DOMAIN lane : lane[i] = lane[j] => i = j
      /\ {lane[i] : i \in DOMAIN lane} = WaitingIn(phase)
      /\ Len(lane) = Cardinality(WaitingIn(phase))
      /\ active = Cardinality(WorkingIn(phase))
      /\ lane # <<>> => active = Concurrency
  BY DEF QueueOK, QueueMatches
<1>3. /\ Len(lane) \in Nat /\ DOMAIN lane = 1 .. Len(lane)
      /\ waiting \in Seq(Requests) /\ Len(waiting) = Len(lane) + 1
      /\ DOMAIN waiting = 1 .. Len(lane) + 1
      /\ \A i \in 1 .. Len(lane) : waiting[i] = lane[i]
      /\ waiting[Len(lane) + 1] = r
  BY <1>2, OneMoreLast
<1>4. /\ WaitingIn(phases) = WaitingIn(phase) \cup {r} /\ r \notin WaitingIn(phase)
      /\ WorkingIn(phases) = WorkingIn(phase)
      /\ phases \in [Requests -> Phases]
  BY <1>1, <1>2 DEF WaitingIn, WorkingIn, Working, Phases
<1> HIDE DEF waiting, phases
<1>5. \A i \in DOMAIN lane : lane[i] # r
  BY <1>2, <1>4
<1>6. \A i, j \in DOMAIN waiting : waiting[i] = waiting[j] => i = j
  BY <1>2, <1>3, <1>5
<1>7. {waiting[i] : i \in DOMAIN waiting} = WaitingIn(phases)
  <2>1. ASSUME NEW i \in DOMAIN waiting
        PROVE  waiting[i] \in WaitingIn(phases)
    <3>1. CASE i = Len(lane) + 1
      BY <1>3, <1>4, <3>1
    <3>2. CASE i # Len(lane) + 1
      <4>1. i \in DOMAIN lane
        BY <1>3, <3>2
      <4>2. QED
        BY <1>2, <1>3, <1>4, <4>1
    <3>3. QED
      BY <3>1, <3>2
  <2>2. ASSUME NEW q \in WaitingIn(phases)
        PROVE  \E i \in DOMAIN waiting : waiting[i] = q
    <3>1. CASE q = r
      <4>1. Len(lane) + 1 \in DOMAIN waiting
        BY <1>3
      <4>2. QED
        BY <1>3, <3>1, <4>1
    <3>2. CASE q # r
      <4>1. PICK i \in DOMAIN lane : lane[i] = q
        BY <1>2, <1>4, <3>2
      <4>2. i \in DOMAIN waiting /\ waiting[i] = q
        BY <1>3, <4>1
      <4>3. QED
        BY <4>2
    <3>3. QED
      BY <3>1, <3>2
  <2>3. QED
    BY <2>1, <2>2
<1>8. Len(waiting) = Cardinality(WaitingIn(phases))
  <2>1. IsFiniteSet(WaitingIn(phase))
    BY RequestsFinite DEF WaitingIn
  <2>2. Cardinality(WaitingIn(phases)) = Cardinality(WaitingIn(phase)) + 1
    BY <1>4, <2>1, FS_AddElement
  <2>3. QED
    BY <1>2, <1>3, <2>2
<1>9. QueueMatches(waiting, active, phases)
  BY <1>2, <1>3, <1>4, <1>6, <1>7, <1>8 DEF QueueMatches
<1>10. Len(waiting) > 1 => active + 1 >= Concurrency
  BY <1>2, <1>3, Limits
<1>11. QED
  BY <1>1, <1>9, <1>10, PumpKeepsQueue

\* A finished request gives its slot back.
LEMMA FinishKeepsQueue ==
    ASSUME QueueOK, NEW r \in Requests, Finish(r)
    PROVE  QueueOK'
<1> DEFINE phases == [phase EXCEPT ![r] = "answered"]
<1>1. /\ phase[r] \in Working
      /\ Pump(lane, active - 1, phases)
  BY DEF Finish
<1>2. /\ lane \in Seq(Requests) /\ phase \in [Requests -> Phases]
      /\ active \in 0 .. Concurrency
      /\ \A i, j \in DOMAIN lane : lane[i] = lane[j] => i = j
      /\ {lane[i] : i \in DOMAIN lane} = WaitingIn(phase)
      /\ Len(lane) = Cardinality(WaitingIn(phase))
      /\ active = Cardinality(WorkingIn(phase))
      /\ lane # <<>> => active = Concurrency
  BY DEF QueueOK, QueueMatches
<1>3. /\ WaitingIn(phases) = WaitingIn(phase)
      /\ WorkingIn(phases) = WorkingIn(phase) \ {r} /\ r \in WorkingIn(phase)
      /\ phases \in [Requests -> Phases]
  BY <1>1, <1>2 DEF WaitingIn, WorkingIn, Working, Phases
<1> HIDE DEF phases
<1>4. /\ IsFiniteSet(WorkingIn(phase))
      /\ Cardinality(WorkingIn(phase)) \in Nat /\ Cardinality(WorkingIn(phases)) \in Nat
  BY RequestsFinite DEF WorkingIn
<1>5. Cardinality(WorkingIn(phases)) = Cardinality(WorkingIn(phase)) - 1
  BY <1>3, <1>4, FS_RemoveElement
<1>6. active - 1 \in 0 .. Concurrency /\ active - 1 = Cardinality(WorkingIn(phases))
  BY <1>2, <1>4, <1>5, Limits
<1>7. QueueMatches(lane, active - 1, phases)
  BY <1>2, <1>3, <1>6 DEF QueueMatches
<1>8. Len(lane) > 1 => (active - 1) + 1 >= Concurrency
  BY <1>2, Limits
<1>9. QED
  BY <1>1, <1>7, <1>8, PumpKeepsQueue

\* A restart leaves nothing waiting and nothing at work.
LEMMA CrashKeepsQueue ==
    ASSUME QueueOK, Crash
    PROVE  QueueOK'
<1>1. /\ lane' = <<>> /\ active' = 0
      /\ phase' = [r \in Requests |-> IF InService(r) THEN "dropped" ELSE phase[r]]
      /\ phase \in [Requests -> Phases]
  BY DEF Crash, QueueOK, QueueMatches
<1>2. phase' \in [Requests -> Phases]
  BY <1>1 DEF Phases
<1>3. WaitingIn(phase') = {} /\ WorkingIn(phase') = {}
  BY <1>1 DEF InService, WaitingIn, WorkingIn, Working
<1>4. Cardinality({}) = 0
  BY FS_EmptySet
<1>5. QueueMatches(<<>>, 0, phase')
  <2>1. <<>> \in Seq(Requests) /\ DOMAIN <<>> = {} /\ Len(<<>>) = 0
    OBVIOUS
  <2>2. {<<>>[i] : i \in DOMAIN <<>>} = {}
    BY <2>1
  <2>3. 0 \in 0 .. Concurrency
    BY Limits
  <2>4. QED
    BY <1>2, <1>3, <1>4, <2>1, <2>2, <2>3 DEF QueueMatches
<1>6. QED
  BY <1>1, <1>5 DEF QueueOK

\* Every step leaves a queue that agrees with the phases and has no idle slot.
LEMMA QueueStep ==
    ASSUME QueueOK, [Next]_vars
    PROVE  QueueOK'
<1>0. phase \in [Requests -> Phases]
  BY DEF QueueOK, QueueMatches
<1>1. CASE UNCHANGED <<lane, active, phase>>
  BY <1>1 DEF QueueOK
<1>2. ASSUME NEW r \in Requests, Submit(r)
      PROVE  QueueOK'
  <2>1. CASE SubmitFresh(r)
    BY <2>1, FreshKeepsQueue
  <2>2. CASE ~ SubmitFresh(r)
    <3>1. /\ phase[r] = "new" /\ phase' = [phase EXCEPT ![r] = "answered"]
          /\ UNCHANGED <<lane, active>>
      BY <1>2, <2>2 DEF Submit, SubmitRateLimited, SubmitInFlight, SubmitReplay, Admit
    <3>2. QED
      BY <3>1, MovesOutsideLane DEF Phases, Working
  <2>3. QED
    BY <2>1, <2>2
<1>3. ASSUME NEW r \in Requests, Verified(r)
      PROVE  QueueOK'
  <2>1. /\ phase[r] = "verifying" /\ phase' = [phase EXCEPT ![r] = "simulating"]
        /\ UNCHANGED <<lane, active>>
    BY <1>3 DEF Verified
  <2>2. QED
    BY <2>1, MovesOutsideLane DEF Phases, Working
<1>4. ASSUME NEW r \in Requests, Simulated(r)
      PROVE  QueueOK'
  <2>1. /\ phase[r] = "simulating" /\ phase' = [phase EXCEPT ![r] = "submitting"]
        /\ UNCHANGED <<lane, active>>
    BY <1>4 DEF Simulated
  <2>2. QED
    BY <2>1, MovesOutsideLane DEF Phases, Working
<1>5. QED
  BY <1>1, <1>2, <1>3, <1>4, Steps, Frames, FinishKeepsQueue, CrashKeepsQueue


\* The queue starts empty.
LEMMA InitQueueOK == Init => QueueOK
<1> SUFFICES ASSUME Init PROVE QueueOK
  OBVIOUS
<1>1. <<>> \in Seq(Requests) /\ DOMAIN <<>> = {} /\ Len(<<>>) = 0
  OBVIOUS
<1>2. {<<>>[i] : i \in DOMAIN <<>>} = {}
  BY <1>1
<1>3. phase \in [Requests -> Phases] /\ WaitingIn(phase) = {} /\ WorkingIn(phase) = {}
  BY DEF Init, Phases, WaitingIn, WorkingIn, Working
<1>4. Cardinality({}) = 0 /\ 0 \in 0 .. Concurrency
  BY FS_EmptySet, Limits
<1>5. lane = <<>> /\ active = 0
  BY DEF Init
<1>6. QED
  BY <1>1, <1>2, <1>3, <1>4, <1>5 DEF QueueOK, QueueMatches

\* The queue never loses a slot or a wake-up.
THEOREM QueueWorks == Spec => []QueueKeepsWorking
<1>1. Init => QueueOK
  BY InitQueueOK
<1>2. QueueOK /\ [Next]_vars => QueueOK'
  BY QueueStep
<1>3. QueueOK => QueueKeepsWorking
  <2> SUFFICES ASSUME QueueOK PROVE QueueKeepsWorking
    OBVIOUS
  <2>1. AtWork = WorkingIn(phase) /\ Queued = WaitingIn(phase)
    BY DEF AtWork, Queued, WorkingIn, WaitingIn
  <2>2. Queued # {} => lane # <<>>
    BY <2>1 DEF QueueOK, QueueMatches
  <2>3. QED
    BY <2>1, <2>2, Limits DEF QueueOK, QueueMatches, QueueKeepsWorking
<1>4. QED
  BY <1>1, <1>2, <1>3, PTL DEF Spec

-----------------------------------------------------------------------------
(* What a step does to the phase of each request *)

Early == {"new", "queued", "verifying", "simulating"}

\* A pump moves a waiting request only, to its first phase.
LEMMA PumpPhases ==
    ASSUME NEW waiting, NEW running, NEW phases,
           waiting \in Seq(Requests), phases \in [Requests -> Phases],
           Pump(waiting, running, phases),
           {waiting[i] : i \in DOMAIN waiting} = WaitingIn(phases),
           NEW q \in Requests
    PROVE  \/ phase'[q] = phases[q]
           \/ phases[q] = "queued" /\ phase'[q] \in {"verifying", "simulating"}
<1>1. CASE phase' = phases
  BY <1>1
<1>2. CASE waiting # <<>> /\ phase' = [phases EXCEPT ![Head(waiting)] = FirstPhase(Head(waiting))]
  <2>1. Head(waiting) \in WaitingIn(phases)
    <3>1. Head(waiting) = waiting[1] /\ 1 \in DOMAIN waiting
      BY <1>2, HeadAndTail
    <3>2. QED
      BY <3>1
  <2>2. FirstPhase(Head(waiting)) \in {"verifying", "simulating"}
    BY DEF FirstPhase
  <2>3. QED
    BY <1>2, <2>1, <2>2 DEF WaitingIn
<1>3. QED
  BY <1>1, <1>2 DEF Pump

\* A fresh request waits or is at work at once; other requests wait or start.
LEMMA FreshPhases ==
    ASSUME QueueOK, NEW r \in Requests, SubmitFresh(r), NEW q \in Requests
    PROVE  /\ phase[r] = "new"
           /\ phase'[r] \in {"queued", "verifying", "simulating"}
           /\ q # r => \/ phase'[q] = phase[q]
                       \/ phase[q] = "queued" /\ phase'[q] \in {"verifying", "simulating"}
<1> DEFINE waiting == Append(lane, r)
           phases == [phase EXCEPT ![r] = "queued"]
<1>1. /\ phase[r] = "new"
      /\ Pump(waiting, active, phases)
  BY DEF SubmitFresh, Admit
<1>2. /\ lane \in Seq(Requests) /\ phase \in [Requests -> Phases]
      /\ {lane[i] : i \in DOMAIN lane} = WaitingIn(phase)
  BY DEF QueueOK, QueueMatches
<1>3. phases \in [Requests -> Phases] /\ phases[r] = "queued" /\ (q # r => phases[q] = phase[q])
  BY <1>2 DEF Phases
<1>4. waiting \in Seq(Requests)
  BY <1>2
<1>5. CASE phase' = phases
  BY <1>1, <1>3, <1>5
<1>6. CASE /\ waiting # <<>>
           /\ phase' = [phases EXCEPT ![Head(waiting)] = FirstPhase(Head(waiting))]
  <2>1. Head(waiting) \in Requests /\ phases[Head(waiting)] = "queued"
    <3>1. CASE lane = <<>>
      <4>1. Head(waiting) = r
        BY <1>2, <3>1
      <4>2. QED
        BY <1>3, <4>1
    <3>2. CASE lane # <<>>
      <4>1. Head(waiting) = lane[1] /\ 1 \in DOMAIN lane /\ lane[1] \in Requests
        BY <1>2, <3>2
      <4>2. phase[lane[1]] = "queued"
        BY <1>2, <4>1 DEF WaitingIn
      <4>3. QED
        BY <1>2, <1>3, <4>1, <4>2
    <3>3. QED
      BY <3>1, <3>2
  <2>2. FirstPhase(Head(waiting)) \in {"verifying", "simulating"}
    BY DEF FirstPhase
  <2> HIDE DEF waiting, phases
  <2>3. QED
    BY <1>1, <1>3, <1>6, <2>1, <2>2
<1>7. QED
  BY <1>1, <1>5, <1>6 DEF Pump

\* A finished request is answered; other requests wait or start.
LEMMA FinishPhases ==
    ASSUME QueueOK, NEW r \in Requests, Finish(r), NEW q \in Requests
    PROVE  /\ phase[r] \in Working
           /\ phase'[r] = "answered"
           /\ q # r => \/ phase'[q] = phase[q]
                       \/ phase[q] = "queued" /\ phase'[q] \in {"verifying", "simulating"}
<1> DEFINE phases == [phase EXCEPT ![r] = "answered"]
<1>1. /\ phase[r] \in Working
      /\ Pump(lane, active - 1, phases)
  BY DEF Finish
<1>2. /\ lane \in Seq(Requests) /\ phase \in [Requests -> Phases]
      /\ {lane[i] : i \in DOMAIN lane} = WaitingIn(phase)
  BY DEF QueueOK, QueueMatches
<1>3. /\ phases \in [Requests -> Phases] /\ phases[r] = "answered"
      /\ q # r => phases[q] = phase[q]
      /\ WaitingIn(phases) = WaitingIn(phase)
  BY <1>1, <1>2 DEF Phases, WaitingIn, Working
<1> HIDE DEF phases
<1>4. \A p \in Requests : \/ phase'[p] = phases[p]
                          \/ phases[p] = "queued" /\ phase'[p] \in {"verifying", "simulating"}
  BY <1>1, <1>2, <1>3, PumpPhases
<1>5. QED
  BY <1>1, <1>3, <1>4

\* The phase of a request only moves on, and each way of moving has its step.
LEMMA PhaseMoves ==
    ASSUME QueueOK, [Next]_vars, NEW q \in Requests
    PROVE  /\ phase'[q] \in Early => phase[q] \in Early
           /\ phase[q] = "answered" => phase'[q] = "answered"
           /\ phase'[q] = "answered" => \/ phase[q] = "answered"
                                        \/ Finish(q)
                                        \/ Submit(q) /\ ~ SubmitFresh(q)
           /\ Finish(q) \/ (Submit(q) /\ ~ SubmitFresh(q)) => phase'[q] = "answered"
           /\ InService(q)' => InService(q) \/ SubmitFresh(q)
           /\ InService(q) => InService(q)' \/ Finish(q) \/ Crash
<1> DEFINE Goal == /\ phase'[q] \in Early => phase[q] \in Early
                   /\ phase[q] = "answered" => phase'[q] = "answered"
                   /\ phase'[q] = "answered" => \/ phase[q] = "answered"
                                                \/ Finish(q)
                                                \/ Submit(q) /\ ~ SubmitFresh(q)
                   /\ InService(q)' => InService(q) \/ SubmitFresh(q)
                   /\ InService(q) => InService(q)' \/ Finish(q) \/ Crash
<1>0. phase \in [Requests -> Phases]
  BY DEF QueueOK, QueueMatches
<1>1. ASSUME NEW r \in Requests, Submit(r), ~ SubmitFresh(r)
      PROVE  phase[r] = "new" /\ phase' = [phase EXCEPT ![r] = "answered"]
  BY <1>1 DEF Submit, SubmitRateLimited, SubmitInFlight, SubmitReplay, Admit
<1>2. ASSUME \/ phase'[q] = phase[q]
             \/ phase[q] = "queued" /\ phase'[q] \in {"verifying", "simulating"}
      PROVE  Goal
  BY <1>2 DEF Early, InService, Working
<1>3. ASSUME NEW r \in Requests, Submit(r)
      PROVE  Goal
  <2>1. CASE SubmitFresh(r) /\ q = r
    BY <2>1, FreshPhases DEF Early, InService, Working
  <2>2. CASE SubmitFresh(r) /\ q # r
    BY <1>2, <2>2, FreshPhases
  <2>3. CASE ~ SubmitFresh(r) /\ q = r
    <3>1. phase[q] = "new" /\ phase'[q] = "answered" /\ Submit(q) /\ ~ SubmitFresh(q)
      BY <1>0, <1>1, <1>3, <2>3
    <3>2. QED
      BY <3>1 DEF Early, InService, Working
  <2>4. CASE ~ SubmitFresh(r) /\ q # r
    <3>1. phase'[q] = phase[q]
      BY <1>0, <1>1, <1>3, <2>4
    <3>2. QED
      BY <1>2, <3>1
  <2>5. QED
    BY <2>1, <2>2, <2>3, <2>4
<1>4. ASSUME NEW r \in Requests, Finish(r)
      PROVE  Goal
  <2>1. CASE q = r
    <3>1. phase[q] \in Working /\ phase'[q] = "answered" /\ Finish(q)
      BY <1>4, <2>1, FinishPhases
    <3>2. QED
      BY <3>1 DEF Early, InService, Working
  <2>2. CASE q # r
    BY <1>2, <1>4, <2>2, FinishPhases
  <2>3. QED
    BY <2>1, <2>2
<1>5. ASSUME NEW r \in Requests, Verified(r)
      PROVE  Goal
  <2>1. phase[r] = "verifying" /\ phase' = [phase EXCEPT ![r] = "simulating"]
    BY <1>5 DEF Verified
  <2>2. QED
    BY <1>0, <2>1 DEF Early, InService, Working
<1>6. ASSUME NEW r \in Requests, Simulated(r)
      PROVE  Goal
  <2>1. phase[r] = "simulating" /\ phase' = [phase EXCEPT ![r] = "submitting"]
    BY <1>6 DEF Simulated
  <2>2. QED
    BY <1>0, <2>1 DEF Early, InService, Working
<1>7. ASSUME Crash PROVE Goal
  <2>1. phase'[q] = IF InService(q) THEN "dropped" ELSE phase[q]
    BY <1>7 DEF Crash
  <2>2. CASE InService(q)
    <3>1. phase'[q] = "dropped" /\ phase[q] # "answered"
      BY <2>1, <2>2 DEF InService, Working
    <3>2. QED
      BY <1>7, <3>1 DEF Early, InService, Working
  <2>3. CASE ~ InService(q)
    <3>1. phase'[q] = phase[q]
      BY <2>1, <2>3
    <3>2. QED
      BY <1>2, <3>1
  <2>4. QED
    BY <2>2, <2>3
<1>8. ASSUME UNCHANGED phase PROVE Goal
  <2>1. phase'[q] = phase[q]
    BY <1>8
  <2>2. QED
    BY <1>2, <2>1
<1> HIDE DEF Goal
<1>9. Goal
  BY <1>3, <1>4, <1>5, <1>6, <1>7, <1>8, Steps, Frames
<1>10. Finish(q) => phase'[q] = "answered"
  BY FinishPhases
<1>11. Submit(q) /\ ~ SubmitFresh(q) => phase'[q] = "answered"
  BY <1>0, <1>1
<1>12. QED
  BY <1>9, <1>10, <1>11 DEF Goal


-----------------------------------------------------------------------------
(* The ledger *)

\* What a step does to the transaction of a request: it is sent by a request that was
\* simulated, it lands on a ballot that nothing landed on, or it bounces.
LEMMA TransactionMoves ==
    ASSUME QueueOK, LedgerOK, [Next]_vars, NEW q \in Requests
    PROVE  /\ landed \subseteq landed'
           /\ \/ tx'[q] = tx[q]
              \/ phase[q] = "simulating" /\ phase'[q] = "submitting" /\ tx'[q] = "sent"
              \/ /\ tx[q] = "sent" /\ BallotOf[q] \in landed'
                 /\ \/ tx'[q] = "bounced"
                    \/ tx'[q] = "landed" /\ BallotOf[q] \notin landed
                       /\ \A r \in Requests : r # q => tx'[r] = tx[r]
<1> DEFINE Goal == \/ tx'[q] = tx[q]
                   \/ phase[q] = "simulating" /\ phase'[q] = "submitting" /\ tx'[q] = "sent"
                   \/ /\ tx[q] = "sent" /\ BallotOf[q] \in landed'
                      /\ \/ tx'[q] = "bounced"
                         \/ tx'[q] = "landed" /\ BallotOf[q] \notin landed
                            /\ \A r \in Requests : r # q => tx'[r] = tx[r]
<1>0. /\ phase \in [Requests -> Phases]
      /\ tx \in [Requests -> {"none", "sent", "landed", "bounced"}]
  BY DEF QueueOK, QueueMatches, LedgerOK
<1>1. ASSUME UNCHANGED <<tx, landed>>
      PROVE  landed \subseteq landed' /\ Goal
  BY <1>1
<1>2. ASSUME NEW r \in Requests, Simulated(r)
      PROVE  landed \subseteq landed' /\ Goal
  <2>1. /\ phase[r] = "simulating" /\ phase' = [phase EXCEPT ![r] = "submitting"]
        /\ tx' = [tx EXCEPT ![r] = "sent"] /\ landed' = landed
    BY <1>2 DEF Simulated
  <2>2. QED
    BY <1>0, <2>1
<1>3. ASSUME NEW r \in Requests, LedgerApplies(r)
      PROVE  landed \subseteq landed' /\ Goal
  <2>1. /\ tx[r] = "sent"
        /\ tx' = [tx EXCEPT ![r] = IF BallotOf[r] \in landed THEN "bounced" ELSE "landed"]
        /\ landed' = landed \cup {BallotOf[r]}
    BY <1>3 DEF LedgerApplies
  <2>2. CASE q = r
    BY <1>0, <2>1, <2>2
  <2>3. CASE q # r
    BY <1>0, <2>1, <2>3
  <2>4. QED
    BY <2>2, <2>3
<1> HIDE DEF Goal
<1>4. landed \subseteq landed' /\ Goal
  BY <1>1, <1>2, <1>3, Steps, Frames
<1>5. QED
  BY <1>4 DEF Goal

\* Transactions and the ledger keep agreeing.
LEMMA LedgerStep ==
    ASSUME QueueOK, LedgerOK, [Next]_vars
    PROVE  LedgerOK'
<1>1. tx' \in [Requests -> {"none", "sent", "landed", "bounced"}] /\ landed' \in SUBSET Ballots
  <2>1. CASE UNCHANGED <<tx, landed>>
    BY <2>1 DEF LedgerOK
  <2>2. ASSUME NEW r \in Requests, Simulated(r)
        PROVE  tx' \in [Requests -> {"none", "sent", "landed", "bounced"}] /\ landed' \in SUBSET Ballots
    BY <2>2 DEF Simulated, LedgerOK
  <2>3. ASSUME NEW r \in Requests, LedgerApplies(r)
        PROVE  tx' \in [Requests -> {"none", "sent", "landed", "bounced"}] /\ landed' \in SUBSET Ballots
    <3>1. BallotOf[r] \in Ballots
      BY RelayerAssumption
    <3>2. /\ tx' = [tx EXCEPT ![r] = IF BallotOf[r] \in landed THEN "bounced" ELSE "landed"]
          /\ landed' = landed \cup {BallotOf[r]}
      BY <2>3 DEF LedgerApplies
    <3>3. QED
      BY <3>1, <3>2 DEF LedgerOK
  <2>4. QED
    BY <2>1, <2>2, <2>3, Steps, Frames
<1>2. ASSUME NEW r \in Requests
      PROVE  /\ phase'[r] \in Early => tx'[r] = "none"
             /\ tx'[r] \in {"landed", "bounced"} => BallotOf[r] \in landed'
  <2>1. /\ phase[r] \in Early => tx[r] = "none"
        /\ tx[r] \in {"landed", "bounced"} => BallotOf[r] \in landed
    BY DEF LedgerOK, Early
  <2>2. phase'[r] \in Early => phase[r] \in Early
    BY PhaseMoves
  <2>3. /\ landed \subseteq landed'
        /\ \/ tx'[r] = tx[r]
           \/ phase'[r] = "submitting" /\ tx'[r] = "sent"
           \/ tx[r] = "sent" /\ BallotOf[r] \in landed'
    BY TransactionMoves
  <2>4. QED
    BY <2>1, <2>2, <2>3 DEF Early
<1>3. ASSUME NEW q \in Requests, NEW r \in Requests,
             tx'[q] = "landed", tx'[r] = "landed", BallotOf[q] = BallotOf[r]
      PROVE  q = r
  <2>1. CASE tx[q] = "landed" /\ tx[r] = "landed"
    BY <1>3, <2>1 DEF LedgerOK
  <2>2. ASSUME NEW p \in Requests, NEW s \in Requests, tx[p] # "landed",
               tx'[p] = "landed", tx'[s] = "landed", BallotOf[p] = BallotOf[s], p # s
        PROVE  FALSE
    <3>1. BallotOf[p] \notin landed /\ \A x \in Requests : x # p => tx'[x] = tx[x]
      BY <2>2, TransactionMoves
    <3>2. tx[s] = "landed"
      BY <2>2, <3>1
    <3>3. BallotOf[s] \in landed
      BY <3>2 DEF LedgerOK
    <3>4. QED
      BY <2>2, <3>1, <3>3
  <2>3. QED
    BY <1>3, <2>1, <2>2
<1>4. QED
  BY <1>1, <1>2, <1>3 DEF LedgerOK, Early

-----------------------------------------------------------------------------
(* The answers *)

\* A request that is not answered yet gets its answer.
Replied(r, reply) == answer' = [answer EXCEPT ![r] = reply]

\* An answer that can be given: a replay of the answer to a request with the same
\* key, and otherwise what the request's own transaction did.
Founded(r, reply) ==
    /\ reply.replay =>
          \E q \in Requests :
              KeyOf[q] = KeyOf[r] /\ answer[q] = [status |-> reply.status, replay |-> FALSE]
    /\ reply = [status |-> "accepted", replay |-> FALSE] => tx[r] = "landed"
    /\ reply = [status |-> "duplicate", replay |-> FALSE] => tx[r] = "bounced"

\* The submit route answers a request it does not take on, and a settled task is answered.
LEMMA SubmitReplies ==
    ASSUME ClockOK, EntriesOK, NEW r \in Requests, Submit(r), ~ SubmitFresh(r)
    PROVE  \E reply \in Answer : Replied(r, reply) /\ Founded(r, reply)
<1>1. CASE SubmitRateLimited(r) \/ SubmitInFlight(r)
  <2>1. PICK status \in {"rateLimited", "inFlight"} :
          answer' = [answer EXCEPT ![r] = [status |-> status, replay |-> FALSE]]
    BY <1>1 DEF SubmitRateLimited, SubmitInFlight, Reply
  <2> DEFINE reply == [status |-> status, replay |-> FALSE]
  <2>2. reply \in Answer
    BY DEF Answer
  <2>3. Replied(r, reply)
    BY <2>1 DEF Replied
  <2>4. Founded(r, reply)
    BY DEF Founded
  <2>5. QED
    BY <2>2, <2>3, <2>4
<1>2. CASE SubmitReplay(r)
  <2> DEFINE entry == entries[KeyOf[r]]
             reply == [status |-> entry.result, replay |-> TRUE]
  <2>1. KeyOf[r] \in Keys
    BY RelayerAssumption
  <2>2. Live(KeyOf[r]) = entry /\ entry # None /\ ~ entry.inFlight
    BY <1>2 DEF SubmitReplay, Live
  <2>3. /\ entry.result \in Statuses
        /\ \E q \in Requests : /\ KeyOf[q] = KeyOf[r]
                               /\ answer[q] = [status |-> entry.result, replay |-> FALSE]
    BY <2>1, <2>2 DEF EntriesOK
  <2>4. Replied(r, reply)
    BY <1>2, <2>2 DEF SubmitReplay, Reply, Replied
  <2> HIDE DEF entry
  <2>5. reply \in Answer
    BY <2>3 DEF Answer
  <2>6. Founded(r, reply)
    BY <2>3 DEF Founded
  <2>7. QED
    BY <2>4, <2>5, <2>6
<1>3. QED
  BY <1>1, <1>2 DEF Submit

\* A settled task is answered with what its own transaction did.
LEMMA FinishReplies ==
    ASSUME NEW r \in Requests, Finish(r)
    PROVE  \E status \in Statuses \cup {"error"} :
              /\ entries' = Settled(KeyOf[r], status)
              /\ [status |-> status, replay |-> FALSE] \in Answer
              /\ Replied(r, [status |-> status, replay |-> FALSE])
              /\ Founded(r, [status |-> status, replay |-> FALSE])
<1>1. PICK status \in Outcomes(r) : /\ entries' = Settled(KeyOf[r], status)
                                    /\ Reply(r, status, FALSE)
  BY DEF Finish
<1>2. /\ status \in Statuses \cup {"error"}
      /\ status = "accepted" => tx[r] = "landed"
      /\ status = "duplicate" => tx[r] = "bounced"
  BY <1>1 DEF Outcomes, Statuses
<1>3. [status |-> status, replay |-> FALSE] \in Answer
  BY <1>2 DEF Answer
<1>4. Founded(r, [status |-> status, replay |-> FALSE])
  BY <1>2 DEF Founded
<1>5. QED
  BY <1>1, <1>2, <1>3, <1>4 DEF Reply, Replied

\* At most one request is answered by a step, and with a founded answer.
LEMMA Answering ==
    ASSUME ClockOK, EntriesOK, QueueOK, [Next]_vars
    PROVE  \/ /\ UNCHANGED answer
              /\ \A q \in Requests : phase'[q] = "answered" <=> phase[q] = "answered"
           \/ \E r \in Requests, reply \in Answer :
                 /\ phase[r] # "answered" /\ phase'[r] = "answered"
                 /\ \A q \in Requests : q # r => (phase'[q] = "answered" <=> phase[q] = "answered")
                 /\ Replied(r, reply)
                 /\ Founded(r, reply)
                 /\ UNCHANGED <<tx, landed>>
<1> DEFINE Quiet == /\ UNCHANGED answer
                    /\ \A q \in Requests : phase'[q] = "answered" <=> phase[q] = "answered"
           Loud(r, reply) ==
                 /\ phase[r] # "answered" /\ phase'[r] = "answered"
                 /\ \A q \in Requests : q # r => (phase'[q] = "answered" <=> phase[q] = "answered")
                 /\ Replied(r, reply)
                 /\ Founded(r, reply)
                 /\ UNCHANGED <<tx, landed>>
           Goal == Quiet \/ \E r \in Requests, reply \in Answer : Loud(r, reply)
<1>0. phase \in [Requests -> Phases]
  BY DEF QueueOK, QueueMatches
<1>1. ASSUME UNCHANGED <<answer, phase>> PROVE Goal
  BY <1>1
<1>2. ASSUME NEW r \in Requests, Submit(r) PROVE Goal
  <2>1. CASE SubmitFresh(r)
    <3>1. UNCHANGED answer
      BY <2>1 DEF SubmitFresh
    <3>2. \A q \in Requests : phase'[q] = "answered" <=> phase[q] = "answered"
      BY <2>1, FreshPhases
    <3>3. QED
      BY <3>1, <3>2
  <2>2. CASE ~ SubmitFresh(r)
    <3>1. PICK reply \in Answer : Replied(r, reply) /\ Founded(r, reply)
      BY <1>2, <2>2, SubmitReplies
    <3>2. phase[r] = "new" /\ phase' = [phase EXCEPT ![r] = "answered"]
      BY <1>2, <2>2 DEF Submit, SubmitRateLimited, SubmitInFlight, SubmitReplay, Admit
    <3>3. UNCHANGED <<tx, landed>>
      BY <1>2, Frames
    <3>4. Loud(r, reply)
      BY <1>0, <3>1, <3>2, <3>3
    <3>5. QED
      BY <3>4
  <2>3. QED
    BY <2>1, <2>2
<1>3. ASSUME NEW r \in Requests, Finish(r) PROVE Goal
  <2>1. PICK reply \in Answer : Replied(r, reply) /\ Founded(r, reply)
    BY <1>3, FinishReplies
  <2>2. /\ phase[r] # "answered" /\ phase'[r] = "answered"
        /\ \A q \in Requests : q # r => (phase'[q] = "answered" <=> phase[q] = "answered")
    BY <1>3, FinishPhases DEF Working
  <2>3. UNCHANGED <<tx, landed>>
    BY <1>3, Frames
  <2>4. Loud(r, reply)
    BY <2>1, <2>2, <2>3
  <2>5. QED
    BY <2>4
<1>4. ASSUME NEW r \in Requests, Verified(r) \/ Simulated(r) PROVE Goal
  <2>1. UNCHANGED answer
    BY <1>4, Frames
  <2>2. \A q \in Requests : phase'[q] = "answered" <=> phase[q] = "answered"
    BY <1>0, <1>4 DEF Verified, Simulated
  <2>3. QED
    BY <2>1, <2>2
<1>5. ASSUME Crash PROVE Goal
  <2>1. UNCHANGED answer
    BY <1>5, Frames
  <2>2. \A q \in Requests : phase'[q] = "answered" <=> phase[q] = "answered"
    BY <1>5 DEF Crash, InService, Working
  <2>3. QED
    BY <2>1, <2>2
<1> HIDE DEF Goal
<1>6. Goal
  BY <1>1, <1>2, <1>3, <1>4, <1>5, Steps, Frames
<1>7. QED
  BY <1>6 DEF Goal


\* An answer that was given stays.
LEMMA AnswersStay ==
    ASSUME ClockOK, EntriesOK, QueueOK, AnswersOK, [Next]_vars,
           NEW q \in Requests, answer[q] # None
    PROVE  answer'[q] = answer[q]
<1>1. phase[q] = "answered"
  BY DEF AnswersOK
<1>2. CASE UNCHANGED answer
  BY <1>2
<1>3. ASSUME NEW r \in Requests, NEW reply \in Answer, phase[r] # "answered", Replied(r, reply)
      PROVE  answer'[q] = answer[q]
  BY <1>1, <1>3 DEF Replied, AnswersOK
<1>4. QED
  BY <1>2, <1>3, Answering

\* The answer a step gives is the new one of its request, and no other changes.
LEMMA RepliedOnly ==
    ASSUME AnswersOK, NEW r \in Requests, NEW reply \in Answer, Replied(r, reply)
    PROVE  /\ answer' \in [Requests -> Answer \cup {None}]
           /\ answer'[r] = reply
           /\ \A q \in Requests : q # r => answer'[q] = answer[q]
  BY DEF Replied, AnswersOK

\* What is answered of a transaction stays true of it.
LEMMA SettledStays ==
    ASSUME QueueOK, LedgerOK, [Next]_vars, NEW q \in Requests, tx[q] \in {"landed", "bounced"}
    PROVE  tx'[q] = tx[q]
<1>1. phase[q] # "simulating"
  BY DEF LedgerOK
<1>2. QED
  BY <1>1, TransactionMoves

\* Of all requests, r is answered now.
BecomesAnswered(r) ==
    /\ phase[r] # "answered" /\ phase'[r] = "answered"
    /\ \A q \in Requests : q # r => (phase'[q] = "answered" <=> phase[q] = "answered")

\* A founded answer keeps the answers true.
LEMMA ReplyKeepsAnswers ==
    ASSUME AnswersOK, ReplayHasOriginal, NEW r \in Requests, NEW reply \in Answer,
           BecomesAnswered(r), Replied(r, reply), Founded(r, reply), UNCHANGED tx
    PROVE  AnswersOK' /\ ReplayHasOriginal'
<1> DEFINE Accepted == [status |-> "accepted", replay |-> FALSE]
           Duplicate == [status |-> "duplicate", replay |-> FALSE]
<1>1. /\ answer' \in [Requests -> Answer \cup {None}]
      /\ answer'[r] = reply
      /\ \A q \in Requests : q # r => answer'[q] = answer[q]
  BY RepliedOnly
<1>2. reply # None /\ answer[r] = None
  BY NoneAssumption DEF AnswersOK, BecomesAnswered
<1>3. \A q \in Requests : answer'[q] # None <=> phase'[q] = "answered"
  BY <1>1, <1>2 DEF AnswersOK, BecomesAnswered
<1>4. ASSUME NEW q \in Requests
      PROVE  /\ answer'[q] = Accepted => tx'[q] = "landed"
             /\ answer'[q] = Duplicate => tx'[q] = "bounced"
  <2>1. CASE q = r
    BY <1>1, <2>1 DEF Founded
  <2>2. CASE q # r
    BY <1>1, <2>2 DEF AnswersOK
  <2>3. QED
    BY <2>1, <2>2
<1>5. AnswersOK'
  BY <1>1, <1>3, <1>4 DEF AnswersOK
<1>6. ASSUME NEW q \in Requests, answer'[q] # None, answer'[q].replay
      PROVE  \E p \in Requests : /\ KeyOf[p] = KeyOf[q]
                                 /\ answer'[p] = [status |-> answer'[q].status, replay |-> FALSE]
  <2>1. \E p \in Requests : /\ KeyOf[p] = KeyOf[q]
                            /\ answer[p] = [status |-> answer'[q].status, replay |-> FALSE]
    <3>1. CASE q = r
      BY <1>1, <1>6, <3>1 DEF Founded
    <3>2. CASE q # r
      BY <1>1, <1>6, <3>2 DEF ReplayHasOriginal
    <3>3. QED
      BY <3>1, <3>2
  <2>2. PICK p \in Requests : /\ KeyOf[p] = KeyOf[q]
                              /\ answer[p] = [status |-> answer'[q].status, replay |-> FALSE]
    BY <2>1
  <2>3. p # r
    <3>1. answer[p] # None
      <4>1. answer'[q] \in Answer
        BY <1>1, <1>6
      <4>2. answer'[q].status \in Statuses \cup {"error", "inFlight", "rateLimited"}
        BY <4>1 DEF Answer, Statuses
      <4>3. [status |-> answer'[q].status, replay |-> FALSE] \in Answer
        BY <4>2 DEF Answer
      <4>4. QED
        BY <2>2, <4>3, NoneAssumption
    <3>2. QED
      BY <1>2, <3>1
  <2>4. answer'[p] = answer[p]
    BY <1>1, <2>3
  <2>5. QED
    BY <2>2, <2>4
<1>7. ReplayHasOriginal'
  BY <1>6 DEF ReplayHasOriginal
<1>8. QED
  BY <1>5, <1>7

\* An answer is written once and stays true.
LEMMA AnswersStep ==
    ASSUME ClockOK, EntriesOK, QueueOK, LedgerOK, AnswersOK, ReplayHasOriginal, [Next]_vars
    PROVE  AnswersOK' /\ ReplayHasOriginal'
<1> DEFINE Accepted == [status |-> "accepted", replay |-> FALSE]
           Duplicate == [status |-> "duplicate", replay |-> FALSE]
<1>1. CASE /\ UNCHANGED answer
           /\ \A q \in Requests : phase'[q] = "answered" <=> phase[q] = "answered"
  <2>1. \A q \in Requests : /\ answer'[q] = Accepted => tx'[q] = "landed"
                            /\ answer'[q] = Duplicate => tx'[q] = "bounced"
    BY <1>1, SettledStays DEF AnswersOK
  <2>2. AnswersOK'
    BY <1>1, <2>1 DEF AnswersOK
  <2>3. ReplayHasOriginal'
    BY <1>1 DEF ReplayHasOriginal
  <2>4. QED
    BY <2>2, <2>3
<1>2. ASSUME NEW r \in Requests, NEW reply \in Answer, BecomesAnswered(r),
             Replied(r, reply), Founded(r, reply), UNCHANGED <<tx, landed>>
      PROVE  AnswersOK' /\ ReplayHasOriginal'
  BY <1>2, ReplyKeepsAnswers
<1>3. QED
  BY <1>1, <1>2, Answering DEF BecomesAnswered


-----------------------------------------------------------------------------
(* The idempotency store *)

\* The entries the store makes are entries.
LEMMA NewEntries ==
    ASSUME ClockOK
    PROVE  /\ InFlightEntry \in Entry /\ InFlightEntry.inFlight = TRUE
           /\ \A status \in Statuses :
                 /\ DoneEntry(status) \in Entry
                 /\ DoneEntry(status).inFlight = FALSE
                 /\ DoneEntry(status).result = status
<1>1. clock + IdempotencyTtl \in 0 .. MaxTime + IdempotencyTtl
  BY Limits DEF ClockOK, Times
<1>2. QED
  BY <1>1 DEF InFlightEntry, DoneEntry, Entry

\* What a step does to the entry of a key.
LEMMA EntryMoves ==
    ASSUME ClockOK, entries \in [Keys -> Entry \cup {None}], [Next]_vars, NEW k \in Keys
    PROVE  \/ entries'[k] = entries[k]
           \/ /\ entries'[k] = None
              /\ Live(k) = None \/ Crash \/ \E r \in Requests : Finish(r) /\ KeyOf[r] = k
           \/ \E r \in Requests : /\ SubmitFresh(r) /\ KeyOf[r] = k /\ Live(k) = None
                                  /\ entries'[k] = InFlightEntry
           \/ \E r \in Requests, status \in Statuses :
                 /\ Finish(r) /\ KeyOf[r] = k
                 /\ entries'[k] = DoneEntry(status)
                 /\ Replied(r, [status |-> status, replay |-> FALSE])
<1> DEFINE Gone == /\ entries'[k] = None
                   /\ Live(k) = None \/ Crash \/ \E r \in Requests : Finish(r) /\ KeyOf[r] = k
           Begun == \E r \in Requests : /\ SubmitFresh(r) /\ KeyOf[r] = k /\ Live(k) = None
                                        /\ entries'[k] = InFlightEntry
           Ended == \E r \in Requests, status \in Statuses :
                       /\ Finish(r) /\ KeyOf[r] = k
                       /\ entries'[k] = DoneEntry(status)
                       /\ Replied(r, [status |-> status, replay |-> FALSE])
           Goal == entries'[k] = entries[k] \/ Gone \/ Begun \/ Ended
<1>1. ASSUME entries'[k] = Live(k) PROVE Goal
  BY <1>1 DEF Live
<1>2. ASSUME UNCHANGED entries PROVE Goal
  BY <1>2
<1>3. ASSUME NEW r \in Requests, Submit(r) PROVE Goal
  <2>1. CASE SubmitRateLimited(r)
    BY <1>2, <2>1 DEF SubmitRateLimited
  <2>2. CASE SubmitInFlight(r) \/ SubmitReplay(r)
    <3>1. entries' = LiveEntries
      BY <2>2 DEF SubmitInFlight, SubmitReplay
    <3>2. QED
      BY <1>1, <3>1 DEF LiveEntries
  <2>3. CASE SubmitFresh(r)
    <3>1. /\ Live(KeyOf[r]) = None
          /\ entries' = [LiveEntries EXCEPT ![KeyOf[r]] = InFlightEntry]
      BY <2>3 DEF SubmitFresh
    <3>2. CASE KeyOf[r] = k
      <4>1. entries'[k] = InFlightEntry
        BY <3>1, <3>2 DEF LiveEntries
      <4>2. Begun
        BY <2>3, <3>1, <3>2, <4>1
      <4>3. QED
        BY <4>2
    <3>3. CASE KeyOf[r] # k
      <4>1. entries'[k] = Live(k)
        BY <3>1, <3>3 DEF LiveEntries
      <4>2. QED
        BY <1>1, <4>1
    <3>4. QED
      BY <3>2, <3>3
  <2>4. QED
    BY <1>3, <2>1, <2>2, <2>3 DEF Submit
<1>4. ASSUME NEW r \in Requests, Finish(r) PROVE Goal
  <2>1. PICK status \in Statuses \cup {"error"} :
           /\ entries' = Settled(KeyOf[r], status)
           /\ Replied(r, [status |-> status, replay |-> FALSE])
    BY <1>4, FinishReplies
  <2>2. CASE KeyOf[r] # k
    <3>1. entries'[k] = entries[k]
      BY <2>1, <2>2 DEF Settled
    <3>2. QED
      BY <3>1
  <2>3. CASE KeyOf[r] = k /\ status = "error"
    <3>1. entries'[k] = None
      BY <2>1, <2>3 DEF Settled
    <3>2. Gone
      BY <1>4, <2>3, <3>1
    <3>3. QED
      BY <3>2
  <2>4. CASE KeyOf[r] = k /\ status # "error"
    <3>1. status \in Statuses /\ entries'[k] = DoneEntry(status)
      BY <2>1, <2>4 DEF Settled
    <3>2. Ended
      BY <1>4, <2>1, <2>4, <3>1
    <3>3. QED
      BY <3>2
  <2>5. QED
    BY <2>2, <2>3, <2>4
<1>5. ASSUME Crash PROVE Goal
  <2>1. entries'[k] = None
    BY <1>5 DEF Crash
  <2>2. QED
    BY <1>5, <2>1
<1> HIDE DEF Goal
<1>6. Goal
  BY <1>2, <1>3, <1>4, <1>5, Steps, Frames
<1>7. QED
  BY <1>6 DEF Goal

\* What the store holds stays what was answered.
LEMMA EntriesStep ==
    ASSUME ClockOK, QueueOK, AnswersOK, EntriesOK, AnswersOK', [Next]_vars
    PROVE  EntriesOK'
<1>0. entries \in [Keys -> Entry \cup {None}]
  BY DEF EntriesOK
<1>1. entries' \in [Keys -> Entry \cup {None}]
  <2>1. CASE UNCHANGED entries
    BY <1>0, <2>1
  <2>2. LiveEntries \in [Keys -> Entry \cup {None}]
    BY <1>0 DEF LiveEntries, Live
  <2>3. ASSUME NEW r \in Requests, Submit(r)
        PROVE  entries' \in [Keys -> Entry \cup {None}]
    <3>1. \/ UNCHANGED entries
          \/ entries' = LiveEntries
          \/ entries' = [LiveEntries EXCEPT ![KeyOf[r]] = InFlightEntry]
      BY <2>3 DEF Submit, SubmitRateLimited, SubmitInFlight, SubmitReplay, SubmitFresh
    <3>2. InFlightEntry \in Entry
      BY NewEntries
    <3>3. QED
      BY <1>0, <2>2, <3>1, <3>2
  <2>4. ASSUME NEW r \in Requests, Finish(r)
        PROVE  entries' \in [Keys -> Entry \cup {None}]
    <3>1. PICK status \in Statuses \cup {"error"} : entries' = Settled(KeyOf[r], status)
      BY <2>4, FinishReplies
    <3>2. status # "error" => DoneEntry(status) \in Entry
      BY NewEntries
    <3>3. QED
      BY <1>0, <3>1, <3>2 DEF Settled
  <2>5. CASE Crash
    BY <2>5 DEF Crash
  <2>6. QED
    BY <2>1, <2>3, <2>4, <2>5, Steps, Frames
<1>2. ASSUME NEW k \in Keys, entries'[k] # None, ~ entries'[k].inFlight
      PROVE  /\ entries'[k].result \in Statuses
             /\ \E q \in Requests :
                   /\ KeyOf[q] = k
                   /\ answer'[q] = [status |-> entries'[k].result, replay |-> FALSE]
  <2>1. CASE entries'[k] = entries[k]
    <3>1. /\ entries[k].result \in Statuses
          /\ \E q \in Requests :
                /\ KeyOf[q] = k
                /\ answer[q] = [status |-> entries[k].result, replay |-> FALSE]
      BY <1>2, <2>1 DEF EntriesOK
    <3>2. PICK q \in Requests :
             /\ KeyOf[q] = k
             /\ answer[q] = [status |-> entries[k].result, replay |-> FALSE]
      BY <3>1
    <3>3. [status |-> entries[k].result, replay |-> FALSE] \in Answer
      BY <3>1 DEF Answer
    <3>4. answer[q] # None
      BY <3>2, <3>3, NoneAssumption
    <3>5. answer'[q] = answer[q]
      BY <3>4, AnswersStay
    <3>6. QED
      BY <2>1, <3>1, <3>2, <3>5
  <2>2. CASE entries'[k] = InFlightEntry
    BY <1>2, <2>2, NewEntries
  <2>3. ASSUME NEW r \in Requests, NEW status \in Statuses, KeyOf[r] = k,
               entries'[k] = DoneEntry(status),
               Replied(r, [status |-> status, replay |-> FALSE])
        PROVE  /\ entries'[k].result \in Statuses
               /\ \E q \in Requests :
                     /\ KeyOf[q] = k
                     /\ answer'[q] = [status |-> entries'[k].result, replay |-> FALSE]
    <3>1. entries'[k].result = status
      BY <2>3, NewEntries
    <3>2. answer'[r] = [status |-> status, replay |-> FALSE]
      BY <2>3 DEF Replied, AnswersOK
    <3>3. QED
      BY <2>3, <3>1, <3>2
  <2>4. QED
    BY <1>0, <1>2, <2>1, <2>2, <2>3, EntryMoves
<1>3. QED
  BY <1>1, <1>2 DEF EntriesOK


-----------------------------------------------------------------------------
(* The inductive invariant and what it says *)

\* A relayer that starts has nothing in it.
LEMMA InitIndInv == Init => IndInv
<1> SUFFICES ASSUME Init PROVE IndInv
  OBVIOUS
<1>1. ClockOK
  BY Limits DEF Init, ClockOK, Times
<1>2. LimiterOK
  <2>1. [k \in ClientKeys |-> None] \in [ClientKeys -> Bucket \cup {None}]
    OBVIOUS
  <2>2. QED
    BY <2>1, Limits DEF Init, LimiterOK
<1>3. QueueOK
  BY InitQueueOK
<1>4. EntriesOK
  BY DEF Init, EntriesOK
<1>5. /\ AnswersOK /\ ReplayHasOriginal
      /\ admittedAt \in [Requests -> Times \cup {None}]
  <2>1. \A r \in Requests : answer[r] = None /\ phase[r] = "new" /\ tx[r] = "none"
    BY DEF Init
  <2>2. /\ answer \in [Requests -> Answer \cup {None}]
        /\ admittedAt \in [Requests -> Times \cup {None}]
    BY DEF Init
  <2>3. [status |-> "accepted", replay |-> FALSE] # None /\ [status |-> "duplicate", replay |-> FALSE] # None
    <3>1. [status |-> "accepted", replay |-> FALSE] \in Answer /\ [status |-> "duplicate", replay |-> FALSE] \in Answer
      BY DEF Answer, Statuses
    <3>2. QED
      BY <3>1, NoneAssumption
  <2>4. AnswersOK
    BY <2>1, <2>2, <2>3 DEF AnswersOK
  <2>5. ReplayHasOriginal
    BY <2>1 DEF ReplayHasOriginal
  <2>6. QED
    BY <2>2, <2>4, <2>5
<1>6. LedgerOK
  BY DEF Init, LedgerOK
<1>7. overstayed \in SUBSET Requests
  BY DEF Init
<1>8. QED
  BY <1>1, <1>2, <1>3, <1>4, <1>5, <1>6, <1>7 DEF IndInv

\* Every step keeps every part of the invariant.
LEMMA IndInvStep ==
    ASSUME IndInv, [Next]_vars
    PROVE  IndInv'
<1> USE DEF IndInv
<1>1. ClockOK' /\ LimiterOK'
  BY ClockStep, LimiterStep
<1>2. QueueOK' /\ LedgerOK'
  BY QueueStep, LedgerStep
<1>3. AnswersOK' /\ ReplayHasOriginal'
  BY AnswersStep
<1>4. EntriesOK'
  BY <1>3, EntriesStep
<1>5. admittedAt' \in [Requests -> Times \cup {None}]
  <2>1. ASSUME NEW r \in Requests, Submit(r)
        PROVE  UNCHANGED admittedAt \/ admittedAt' = [admittedAt EXCEPT ![r] = clock]
    BY <2>1 DEF Submit, SubmitRateLimited, SubmitInFlight, SubmitReplay, SubmitFresh, Admit
  <2>2. ASSUME NEW r \in Requests, Submit(r)
        PROVE  admittedAt' \in [Requests -> Times \cup {None}]
    BY <2>1, <2>2 DEF ClockOK
  <2>3. UNCHANGED admittedAt => admittedAt' \in [Requests -> Times \cup {None}]
    OBVIOUS
  <2>4. QED
    BY <2>2, <2>3, Steps, Frames
<1>6. overstayed' \in SUBSET Requests
  <2>1. \/ UNCHANGED overstayed
        \/ overstayed' = {}
        \/ overstayed' = overstayed \cup {r \in Requests :
                InService(r) /\ admittedAt[r] + IdempotencyTtl <= clock + 1}
    BY Steps, Frames DEF Tick, Crash
  <2>2. QED
    BY <2>1
<1>7. QED
  BY <1>1, <1>2, <1>3, <1>4, <1>5, <1>6

\* The parts of the invariant hold in every reachable state of the relayer.
THEOREM IndInvHolds == Spec => []IndInv
<1>1. IndInv /\ [Next]_vars => IndInv'
  BY IndInvStep
<1>2. QED
  BY <1>1, InitIndInv, PTL DEF Spec

\* Every variable of the relayer keeps its type; the salts are no more than the ticks
\* and restarts and the slots in use no more than Concurrency.
THEOREM TypeCorrect == Spec => []TypeOK
<1>1. IndInv => TypeOK
  <2> SUFFICES ASSUME IndInv PROVE TypeOK
    OBVIOUS
  <2>1. clock \in Times /\ crashes \in 0 .. MaxCrashes
    BY DEF IndInv, ClockOK
  <2>2. /\ salt \in Salts /\ saltExpiresAt \in 0 .. MaxTime + RotationPeriod
        /\ buckets \in [ClientKeys -> Bucket \cup {None}]
    BY <2>1, Limits DEF IndInv, LimiterOK, Times, Salts
  <2>3. lane \in Seq(Requests) /\ active \in 0 .. Concurrency /\ phase \in [Requests -> Phases]
    BY DEF IndInv, QueueOK, QueueMatches
  <2>4. QED
    BY <2>1, <2>2, <2>3 DEF IndInv, EntriesOK, AnswersOK, LedgerOK, TypeOK
<1>2. QED
  BY <1>1, IndInvHolds, PTL

\* A founded answer tells what happened on the ledger.
LEMMA TruthOfAnswers == IndInv => AnswersAreTrue
<1> SUFFICES ASSUME IndInv, NEW r \in Requests, answer[r] # None,
                    answer[r].status \in {"accepted", "duplicate"}
             PROVE  BallotOf[r] \in landed
  BY DEF AnswersAreTrue
<1>1. ASSUME NEW q \in Requests,
             answer[q] = [status |-> answer[r].status, replay |-> FALSE]
      PROVE  BallotOf[q] \in landed
  <2>1. tx[q] \in {"landed", "bounced"}
    <3>1. CASE answer[r].status = "accepted"
      BY <1>1, <3>1 DEF IndInv, AnswersOK
    <3>2. CASE answer[r].status = "duplicate"
      BY <1>1, <3>2 DEF IndInv, AnswersOK
    <3>3. QED
      BY <3>1, <3>2
  <2>2. QED
    BY <2>1 DEF IndInv, LedgerOK
<1>2. CASE answer[r].replay
  <2>1. PICK q \in Requests : /\ KeyOf[q] = KeyOf[r]
                              /\ answer[q] = [status |-> answer[r].status, replay |-> FALSE]
    BY <1>2 DEF IndInv, ReplayHasOriginal
  <2>2. BallotOf[q] = BallotOf[r]
    BY <2>1, RelayerAssumption
  <2>3. QED
    BY <1>1, <2>1, <2>2
<1>3. CASE ~ answer[r].replay
  <2>1. answer[r] \in Answer
    BY DEF IndInv, AnswersOK
  <2>2. answer[r] = [status |-> answer[r].status, replay |-> FALSE]
    BY <1>3, <2>1 DEF Answer
  <2>3. QED
    BY <1>1, <2>2
<1>4. QED
  BY <1>2, <1>3

\* A client is told that a ballot was accepted, or that it is a duplicate, only when the
\* ballot is on the ledger: by what its own transaction did or, in a replay, by what
\* that of the request did that was answered first under the key.
THEOREM AnswersTrue == Spec => []AnswersAreTrue
<1>1. IndInv => AnswersAreTrue
  BY TruthOfAnswers
<1>2. QED
  BY <1>1, IndInvHolds, PTL

\* Whatever crashes, expires and is sent again, one request for a ballot is accepted.
THEOREM AcceptsOnce == Spec => []AcceptedOnce
<1>1. IndInv => AcceptedOnce
  BY DEF IndInv, AnswersOK, LedgerOK, AcceptedOnce
<1>2. QED
  BY <1>1, IndInvHolds, PTL

\* A replay repeats the answer that a request with the same key was given.
THEOREM ReplaysHaveOriginals == Spec => []ReplayHasOriginal
<1>1. IndInv => ReplayHasOriginal
  BY DEF IndInv
<1>2. QED
  BY <1>1, IndInvHolds, PTL

-----------------------------------------------------------------------------
(* Entries in flight *)

\* A key that a step marks, or leaves, in flight has a request in service.
LEMMA InFlightStep ==
    ASSUME IndInv, InFlightKeyHasRequest, [Next]_vars
    PROVE  InFlightKeyHasRequest'
<1> SUFFICES ASSUME NEW k \in Keys, entries'[k] # None, entries'[k].inFlight
             PROVE  \E r \in Requests : InService(r)' /\ KeyOf[r] = k
  BY DEF InFlightKeyHasRequest, InService
<1>0. ClockOK /\ QueueOK /\ entries \in [Keys -> Entry \cup {None}]
  BY DEF IndInv, EntriesOK
<1>1. CASE entries'[k] = entries[k]
  <2>1. PICK r \in Requests : InService(r) /\ KeyOf[r] = k
    BY <1>1 DEF InFlightKeyHasRequest
  <2>2. ~ Crash
    BY DEF Crash
  <2>3. ~ Finish(r)
    <3> SUFFICES ASSUME Finish(r) PROVE FALSE
      OBVIOUS
    <3>1. PICK status \in Statuses \cup {"error"} : entries' = Settled(k, status)
      BY <2>1, FinishReplies
    <3>2. entries'[k] = None \/ (status \in Statuses /\ entries'[k] = DoneEntry(status))
      BY <1>0, <3>1 DEF Settled
    <3>3. QED
      BY <1>0, <3>2, NewEntries
  <2>4. QED
    BY <1>0, <2>1, <2>2, <2>3, PhaseMoves
<1>2. ASSUME NEW r \in Requests, SubmitFresh(r), KeyOf[r] = k
      PROVE  InService(r)'
  BY <1>0, <1>2, FreshPhases DEF InService, Working
<1>3. ASSUME NEW status \in Statuses
      PROVE  entries'[k] # DoneEntry(status)
  BY <1>0, NewEntries
<1>4. QED
  BY <1>0, <1>1, <1>2, <1>3, EntryMoves

\* No request that failed or was lost leaves its key marked in flight.
THEOREM NoStaleInFlight == Spec => []InFlightKeyHasRequest
<1>1. Init => InFlightKeyHasRequest
  BY DEF Init, InFlightKeyHasRequest
<1>2. QED
  BY <1>1, InFlightStep, IndInvHolds, PTL DEF Spec


-----------------------------------------------------------------------------
(* One execution for each key *)

\* An entry is alive until its time is up.
LEMMA LiveOrExpired ==
    ASSUME IndInv, NEW k \in Keys
    PROVE  /\ Live(k) = None <=> entries[k] = None \/ entries[k].expiresAt <= clock
           /\ Live(k) # None => entries[k] \in Entry /\ entries[k].expiresAt \in Nat
<1>1. entries[k] \in Entry \cup {None}
  BY DEF IndInv, EntriesOK
<1>2. entries[k] \in Entry => entries[k].expiresAt \in Nat
  BY Limits DEF Entry
<1>3. QED
  BY <1>1, <1>2 DEF Live

\* A request in service keeps the time at which it was admitted.
LEMMA AdmittedOnce ==
    ASSUME IndInv, [Next]_vars, NEW r \in Requests, InService(r)
    PROVE  admittedAt'[r] = admittedAt[r]
<1>1. ASSUME NEW q \in Requests, Submit(q)
      PROVE  admittedAt'[r] = admittedAt[r]
  <2>1. phase[q] = "new"
    BY <1>1 DEF Submit, SubmitRateLimited, SubmitInFlight, SubmitReplay, SubmitFresh, Admit
  <2>2. q # r
    BY <2>1 DEF InService, Working
  <2>3. UNCHANGED admittedAt \/ admittedAt' = [admittedAt EXCEPT ![q] = clock]
    BY <1>1 DEF Submit, SubmitRateLimited, SubmitInFlight, SubmitReplay, SubmitFresh, Admit
  <2>4. QED
    BY <2>2, <2>3 DEF IndInv
<1>2. QED
  BY <1>1, Steps, Frames

\* Requests are finitely many, and so are those of a key.
LEMMA KeySetsFinite ==
    ASSUME IndInv, NEW k
    PROVE  /\ IsFiniteSet(Executing(k)) /\ Cardinality(Executing(k)) \in Nat
           /\ IsFiniteSet(Overstayed(k)) /\ Cardinality(Overstayed(k)) \in Nat
<1>1. Executing(k) \subseteq Requests /\ Overstayed(k) \subseteq Requests
  BY DEF Executing, Overstayed, IndInv
<1>2. IsFiniteSet(Executing(k)) /\ IsFiniteSet(Overstayed(k))
  BY <1>1, RelayerAssumption, FS_Subset
<1>3. QED
  BY <1>2, FS_CardinalityType

\* Time can only turn executions into overstayed ones.
LEMMA TickKeepsKey ==
    ASSUME IndInv, IndInv', ServiceInv, Tick, NEW k \in Keys
    PROVE  KeyOK(k)'
<1>1. /\ clock' = clock + 1 /\ clock \in Nat
      /\ UNCHANGED <<entries, phase, admittedAt>>
  BY Frames, Limits DEF IndInv, ClockOK, Times
<1>2. Executing(k)' = Executing(k)
  BY <1>1 DEF Executing, InService
<1>3. Overstayed(k) \subseteq Overstayed(k)'
  BY DEF Tick, Overstayed
<1>4. /\ Cardinality(Overstayed(k)) <= Cardinality(Overstayed(k)')
      /\ Cardinality(Overstayed(k)) \in Nat /\ Cardinality(Overstayed(k)') \in Nat
      /\ Cardinality(Executing(k)) \in Nat
  <2>1. IsFiniteSet(Overstayed(k)')
    <3>1. Overstayed(k)' \subseteq Requests
      BY DEF Overstayed, IndInv
    <3>2. QED
      BY <3>1, RelayerAssumption, FS_Subset
  <2>2. QED
    BY <1>3, <2>1, KeySetsFinite, FS_Subset, FS_CardinalityType
<1>5. KeyOK(k)
  BY DEF ServiceInv
<1>6. CASE Live(k) = None
  <2>1. Live(k)' = None
    <3>1. entries[k] \in Entry \cup {None}
      BY DEF IndInv, EntriesOK
    <3>2. entries[k] \in Entry => entries[k].expiresAt \in Nat
      BY Limits DEF Entry
    <3>3. entries[k] = None \/ entries[k].expiresAt <= clock
      BY <1>6, LiveOrExpired
    <3>4. entries'[k] = None \/ entries'[k].expiresAt <= clock'
      BY <1>1, <3>1, <3>2, <3>3
    <3>5. QED
      BY <3>4 DEF Live
  <2>2. QED
    BY <1>2, <1>4, <1>5, <1>6, <2>1 DEF KeyOK
<1>7. CASE Live(k) # None
  <2>1. /\ Cardinality(Executing(k)) <= 1 + Cardinality(Overstayed(k))
        /\ \A r \in Executing(k) : admittedAt[r] + IdempotencyTtl <= entries[k].expiresAt
    BY <1>5, <1>7 DEF KeyOK
  <2>2. CASE Live(k)' # None
    BY <1>1, <1>2, <1>4, <2>1, <2>2 DEF KeyOK
  <2>3. CASE Live(k)' = None
    <3>1. entries[k].expiresAt <= clock + 1 /\ entries[k].expiresAt \in Nat
      BY <1>1, <1>7, <2>3, LiveOrExpired DEF Live
    <3>2. ASSUME NEW r \in Executing(k) PROVE r \in Overstayed(k)'
      <4>1. /\ r \in Requests /\ InService(r) /\ KeyOf[r] = k
            /\ admittedAt[r] \in Nat /\ admittedAt[r] + IdempotencyTtl <= entries[k].expiresAt
        BY <2>1, Limits DEF Executing, ServiceInv, Times
      <4>2. admittedAt[r] + IdempotencyTtl <= clock + 1
        BY <1>1, <3>1, <4>1, Limits
      <4>3. QED
        BY <4>1, <4>2 DEF Tick, Overstayed
    <3>3. Cardinality(Executing(k)) <= Cardinality(Overstayed(k)')
      <4>1. Executing(k) \subseteq Overstayed(k)' /\ IsFiniteSet(Overstayed(k)')
        <5>1. Overstayed(k)' \subseteq Requests
          BY DEF Overstayed, IndInv
        <5>2. QED
          BY <3>2, <5>1, RelayerAssumption, FS_Subset
      <4>2. QED
        BY <4>1, FS_Subset
    <3>4. QED
      BY <1>2, <2>3, <3>3 DEF KeyOK
  <2>4. QED
    BY <2>2, <2>3
<1>8. QED
  BY <1>6, <1>7

\* A request is admitted now, or was before.
LEMMA AdmittedByNow ==
    ASSUME IndInv, ServiceInv, [Next]_vars, NEW r \in Requests, InService(r)'
    PROVE  admittedAt'[r] \in Times /\ admittedAt'[r] <= clock' /\ clock' \in Nat
<1>1. clock \in Times /\ clock \in Nat /\ clock' \in Nat /\ clock <= clock'
  <2>1. clock \in Nat
    BY Limits DEF IndInv, ClockOK, Times
  <2>2. clock' = clock \/ clock' = clock + 1
    BY Steps, Frames
  <2>3. QED
    BY <2>1, <2>2 DEF IndInv, ClockOK
<1>2. CASE InService(r)
  <2>1. admittedAt'[r] = admittedAt[r]
    BY <1>2, AdmittedOnce
  <2>2. admittedAt[r] \in Times /\ admittedAt[r] <= clock
    BY <1>2 DEF ServiceInv
  <2>3. QED
    BY <1>1, <2>1, <2>2, Limits DEF Times
<1>3. CASE ~ InService(r)
  <2>1. SubmitFresh(r)
    BY <1>3, PhaseMoves DEF IndInv
  <2>2. admittedAt'[r] = clock /\ clock' = clock
    BY <2>1 DEF SubmitFresh, Admit, IndInv
  <2>3. QED
    BY <1>1, <2>2
<1>4. QED
  BY <1>2, <1>3

\* When a request is done with, the room for it is free again, whatever became of the entry.
LEMMA FinishKeepsKey ==
    ASSUME IndInv, IndInv', ServiceInv, [Next]_vars,
           NEW r \in Requests, Finish(r), NEW k \in Keys, KeyOf[r] = k
    PROVE  KeyOK(k)'
<1>1. UNCHANGED <<clock, overstayed>> /\ clock \in Nat
  BY Frames, Limits DEF IndInv, ClockOK, Times
<1>2. Executing(k)' = Executing(k) \ {r} /\ r \in Executing(k)
  <2>1. InService(r) /\ ~ InService(r)'
    BY FinishPhases DEF InService, Working, IndInv
  <2>2. ASSUME NEW q \in Requests, q # r PROVE InService(q)' <=> InService(q)
    BY <2>2, FinishPhases DEF InService, Working, IndInv
  <2>3. QED
    BY <2>1, <2>2 DEF Executing
<1>3. Overstayed(k)' = Overstayed(k)
  BY <1>1 DEF Overstayed
<1>4. Cardinality(Executing(k)') <= Cardinality(Overstayed(k)')
  <2>1. Cardinality(Executing(k)) <= 1 + Cardinality(Overstayed(k))
    <3>1. KeyOK(k)
      BY DEF ServiceInv
    <3>2. QED
      BY <3>1, KeySetsFinite DEF KeyOK
  <2>2. Cardinality(Executing(k) \ {r}) = Cardinality(Executing(k)) - 1
    BY <1>2, KeySetsFinite, FS_RemoveElement
  <2>3. QED
    BY <1>2, <1>3, <2>1, <2>2, KeySetsFinite
<1>5. CASE Live(k)' = None
  BY <1>4, <1>5 DEF KeyOK
<1>6. CASE Live(k)' # None
  <2>1. PICK status \in Statuses \cup {"error"} : entries' = Settled(k, status)
    BY FinishReplies
  <2>2. entries'[k] = None \/ entries'[k] = DoneEntry(status)
    BY <2>1 DEF Settled, IndInv, EntriesOK
  <2>3. entries'[k].expiresAt = clock + IdempotencyTtl
    BY <1>6, <2>2 DEF Live, DoneEntry
  <2>4. ASSUME NEW q \in Executing(k)'
        PROVE  admittedAt'[q] + IdempotencyTtl <= entries'[k].expiresAt
    <3>1. q \in Requests /\ InService(q)'
      BY DEF Executing
    <3>2. admittedAt'[q] \in Nat /\ admittedAt'[q] <= clock
      BY <1>1, <3>1, AdmittedByNow, Limits DEF Times
    <3>3. QED
      BY <1>1, <2>3, <3>2, Limits
  <2>5. Cardinality(Executing(k)') <= 1 + Cardinality(Overstayed(k)')
    <3>1. Cardinality(Executing(k) \ {r}) \in Nat
      BY KeySetsFinite, FS_RemoveElement, FS_CardinalityType
    <3>2. QED
      BY <1>2, <1>3, <1>4, <3>1, KeySetsFinite
  <2>6. QED
    BY <1>6, <2>4, <2>5 DEF KeyOK
<1>7. QED
  BY <1>5, <1>6

\* A fresh request finds no live entry and leaves one, which makes room for it.
LEMMA FreshKeepsKey ==
    ASSUME IndInv, IndInv', ServiceInv, [Next]_vars,
           NEW r \in Requests, SubmitFresh(r), NEW k \in Keys, KeyOf[r] = k
    PROVE  KeyOK(k)'
<1>1. /\ UNCHANGED <<clock, overstayed>> /\ clock \in Nat
      /\ Live(k) = None
      /\ entries'[k] = InFlightEntry
  BY Limits DEF SubmitFresh, Admit, LiveEntries, IndInv, ClockOK, Times
<1>2. Executing(k)' = Executing(k) \cup {r} /\ r \notin Executing(k)
  <2>1. InService(r)' /\ ~ InService(r)
    BY FreshPhases DEF InService, Working, IndInv
  <2>2. ASSUME NEW q \in Requests, q # r PROVE InService(q)' <=> InService(q)
    BY <2>2, FreshPhases DEF InService, Working, IndInv
  <2>3. QED
    BY <2>1, <2>2 DEF Executing
<1>3. Overstayed(k)' = Overstayed(k)
  BY <1>1 DEF Overstayed
<1>4. Cardinality(Executing(k)') <= 1 + Cardinality(Overstayed(k)')
  <2>1. Cardinality(Executing(k)) <= Cardinality(Overstayed(k))
    BY <1>1 DEF ServiceInv, KeyOK
  <2>2. Cardinality(Executing(k) \cup {r}) = Cardinality(Executing(k)) + 1
    BY <1>2, KeySetsFinite, FS_AddElement
  <2>3. QED
    BY <1>2, <1>3, <2>1, <2>2, KeySetsFinite
<1>5. entries'[k].expiresAt = clock + IdempotencyTtl
  BY <1>1 DEF InFlightEntry
<1>6. Live(k)' # None
  <2>1. entries'[k] # None
    BY <1>1, NewEntries, NoneAssumption DEF IndInv
  <2>2. ~ (entries'[k].expiresAt <= clock')
    <3>1. IdempotencyTtl \in Nat \ {0}
      BY RelayerAssumption
    <3>2. QED
      BY <1>1, <1>5, <3>1
  <2>3. QED
    BY <2>1, <2>2 DEF Live
<1>7. ASSUME NEW q \in Executing(k)'
      PROVE  admittedAt'[q] + IdempotencyTtl <= entries'[k].expiresAt
  <2>1. q \in Requests /\ InService(q)'
    BY DEF Executing
  <2>2. admittedAt'[q] \in Nat /\ admittedAt'[q] <= clock
    BY <1>1, <2>1, AdmittedByNow, Limits DEF Times
  <2>3. QED
    BY <1>1, <1>5, <2>2, Limits
<1>8. QED
  BY <1>4, <1>6, <1>7 DEF KeyOK

\* Any other step of the running process leaves the executions of a key and its entry alone,
\* and evicts the entry at most when its time is up.
LEMMA OtherStepsKeepKey ==
    ASSUME IndInv, IndInv', ServiceInv, [Next]_vars, ~ Tick, ~ Crash, NEW k \in Keys,
           \A r \in Requests : KeyOf[r] = k => ~ Finish(r) /\ ~ SubmitFresh(r)
    PROVE  KeyOK(k)'
<1>1. UNCHANGED <<clock, overstayed>>
  BY Steps, Frames
<1>2. Executing(k)' = Executing(k)
  <2>1. ASSUME NEW q \in Requests, KeyOf[q] = k PROVE InService(q)' <=> InService(q)
    BY <2>1, PhaseMoves DEF IndInv
  <2>2. QED
    BY <2>1 DEF Executing
<1>3. Overstayed(k)' = Overstayed(k)
  BY <1>1 DEF Overstayed
<1>4. entries'[k] = entries[k] \/ (entries'[k] = None /\ Live(k) = None)
  BY EntryMoves DEF IndInv, EntriesOK
<1>5. Live(k)' = Live(k)
  BY <1>1, <1>4 DEF Live
<1>6. \A r \in Executing(k) : admittedAt'[r] = admittedAt[r]
  BY AdmittedOnce DEF Executing
<1>7. KeyOK(k)
  BY DEF ServiceInv
<1>8. CASE Live(k) = None
  BY <1>2, <1>3, <1>5, <1>7, <1>8 DEF KeyOK
<1>9. CASE Live(k) # None
  <2>1. entries'[k] = entries[k]
    BY <1>4, <1>9
  <2>2. QED
    BY <1>2, <1>3, <1>5, <1>6, <1>7, <1>9, <2>1 DEF KeyOK
<1>10. QED
  BY <1>8, <1>9

\* However requests with one key come, finish, fail and are sent again, and however slow the
\* calls behind them are: for each execution of a key more than one at a time there is a request
\* that was in service for all the time its entry was kept.
THEOREM ExecutesOncePerKey == Spec => []OneExecutionPerKey
<1>1. IndInv /\ Init => ServiceInv
  <2> SUFFICES ASSUME IndInv, Init PROVE ServiceInv
    OBVIOUS
  <2>1. \A r \in Requests : ~ InService(r)
    BY DEF Init, InService, Working
  <2>2. ASSUME NEW k \in Keys PROVE KeyOK(k)
    <3>1. Executing(k) = {} /\ Live(k) = None
      BY <2>1 DEF Executing, Live, Init
    <3>2. QED
      BY <3>1, KeySetsFinite, FS_EmptySet DEF KeyOK
  <2>3. QED
    BY <2>1, <2>2 DEF ServiceInv
<1>2. IndInv /\ IndInv' /\ ServiceInv /\ [Next]_vars => ServiceInv'
  <2> SUFFICES ASSUME IndInv, IndInv', ServiceInv, [Next]_vars PROVE ServiceInv'
    OBVIOUS
  <2>1. ASSUME NEW r \in Requests, InService(r)'
        PROVE  admittedAt'[r] \in Times /\ admittedAt'[r] <= clock'
    BY <2>1, AdmittedByNow
  <2>2. ASSUME NEW k \in Keys PROVE KeyOK(k)'
    <3>1. CASE Tick
      BY <3>1, TickKeepsKey
    <3>2. CASE Crash
      <4>1. Executing(k)' = {} /\ Live(k)' = None
        BY <3>2 DEF Crash, Executing, InService, Working, Live
      <4>2. Overstayed(k)' = {}
        BY <3>2 DEF Crash, Overstayed
      <4>3. QED
        BY <4>1, <4>2, FS_EmptySet DEF KeyOK
    <3>3. CASE \E r \in Requests : KeyOf[r] = k /\ Finish(r)
      BY <3>3, FinishKeepsKey
    <3>4. CASE \E r \in Requests : KeyOf[r] = k /\ SubmitFresh(r)
      BY <3>4, FreshKeepsKey
    <3>5. QED
      BY <3>1, <3>2, <3>3, <3>4, OtherStepsKeepKey
  <2>3. QED
    BY <2>1, <2>2 DEF ServiceInv, InService
<1>3. IndInv /\ ServiceInv => OneExecutionPerKey
  <2> SUFFICES ASSUME IndInv, ServiceInv, NEW k \in Keys
               PROVE  Cardinality(Executing(k)) <= 1 + Cardinality(Overstayed(k))
    BY DEF OneExecutionPerKey
  <2>1. KeyOK(k)
    BY DEF ServiceInv
  <2>2. QED
    BY <2>1, KeySetsFinite DEF KeyOK
<1>4. QED
  BY <1>1, <1>2, <1>3, IndInvHolds, PTL DEF Spec

-----------------------------------------------------------------------------
(* How often an address is admitted *)

\* The requests of an address that were admitted in the window that begins at t.
Served(address, t) ==
    Cardinality(Admitted({r \in Requests : AddressOf[r] = address}, t))

\* What the processes that are gone may have admitted within one window.
PastProcesses == (3 * RateLimit - 1) * crashes

\* What is admitted in the window that begins at t, given the bucket of the current salt.
\* A window that begins under this salt holds the bucket and the end of the one before; a
\* window that began earlier also holds what the salt before admitted.
WindowBound(served, past, bucket, t, expires) ==
    /\ served <= past + 3 * RateLimit - 1
    /\ bucket = None =>
          /\ expires < t + RateWindow + RotationPeriod => served <= past + 2 * RateLimit - 1
          /\ expires < t + RotationPeriod => served = 0
    /\ bucket # None =>
          /\ bucket.resetAt < t + RateWindow => served + 1 <= bucket.count
          /\ t + RateWindow <= bucket.resetAt /\ bucket.resetAt < t + 2 * RateWindow =>
                /\ served <= past + 2 * RateLimit - 1 + bucket.count
                /\ expires < t + RotationPeriod =>
                      served <= past + RateLimit - 1 + bucket.count

\* The inductive invariant behind the bound on each address.
RateInv ==
    /\ \A r \in Requests : admittedAt[r] # None => admittedAt[r] <= clock
    /\ \A s \in Salts, address \in Addresses : salt < s => buckets[<<s, address>>] = None
    /\ \A key \in ClientKeys :
          buckets[key] # None => buckets[key].resetAt <= clock + RateWindow
    /\ \A address \in Addresses, t \in Times :
          WindowBound(Served(address, t), PastProcesses, buckets[<<salt, address>>], t,
                      saltExpiresAt)

\* What the arithmetic of a window works with.
WindowTypes(served, past, bucket, t, expires) ==
    /\ served \in Nat /\ past \in Nat /\ t \in Nat /\ expires \in Nat
    /\ clock \in Nat
    /\ bucket \in Bucket \cup {None}
    /\ bucket # None => bucket.count \in Nat /\ bucket.resetAt \in Nat
                        /\ bucket.count <= RateLimit /\ bucket.resetAt <= clock + RateWindow
    /\ clock < t => served = 0
    /\ expires <= clock + RotationPeriod

\* One more request of the window, if now is in it.
OneMore(served, after, t) ==
    /\ after \in Nat
    /\ after <= served + 1
    /\ ~ (t <= clock /\ clock < t + RateWindow) => after <= served

\* A request is counted in a bucket that has room.
LEMMA CountedInBucket ==
    ASSUME NEW served, NEW after, NEW past, NEW bucket \in Bucket, NEW t, NEW expires,
           WindowTypes(served, past, bucket, t, expires),
           WindowBound(served, past, bucket, t, expires),
           OneMore(served, after, t),
           bucket.count < RateLimit, clock < bucket.resetAt
    PROVE  WindowBound(after, past, [bucket EXCEPT !.count = @ + 1], t, expires)
<1> DEFINE more == [bucket EXCEPT !.count = @ + 1]
<1>1. more.count = bucket.count + 1 /\ more.resetAt = bucket.resetAt /\ more # None
      /\ bucket # None
  <2>1. bucket.count \in 0 .. RateLimit /\ bucket.count + 1 \in 0 .. RateLimit
    BY Limits DEF Bucket
  <2>2. more \in Bucket
    BY <2>1 DEF Bucket
  <2>3. QED
    BY <2>2, NoneAssumption DEF Bucket
<1> HIDE DEF more
<1>2. WindowBound(after, past, more, t, expires)
  BY <1>1, Limits DEF WindowTypes, WindowBound, OneMore
<1>3. QED
  BY <1>2 DEF more

\* A request opens the first bucket of a salt, or the bucket after one that has ended.
LEMMA CountedInNewBucket ==
    ASSUME NEW served, NEW after, NEW past, NEW bucket \in Bucket \cup {None}, NEW t, NEW expires,
           WindowTypes(served, past, bucket, t, expires),
           WindowBound(served, past, bucket, t, expires),
           OneMore(served, after, t),
           bucket # None => bucket.resetAt <= clock,
           clock <= MaxTime
    PROVE  WindowBound(after, past, [count |-> 1, resetAt |-> clock + RateWindow], t, expires)
<1> DEFINE new == [count |-> 1, resetAt |-> clock + RateWindow]
<1>1. new.count = 1 /\ new.resetAt = clock + RateWindow /\ new # None
  <2>1. new \in Bucket
    BY Limits DEF Bucket, WindowTypes
  <2>2. QED
    BY <2>1, NoneAssumption
<1> HIDE DEF new
<1>2. ASSUME bucket = None
      PROVE  WindowBound(after, past, new, t, expires)
  BY <1>1, <1>2, Limits DEF WindowTypes, WindowBound, OneMore
<1>3. ASSUME bucket # None
      PROVE  WindowBound(after, past, new, t, expires)
  BY <1>1, <1>3, Limits DEF WindowTypes, WindowBound, OneMore
<1>4. WindowBound(after, past, new, t, expires)
  BY <1>2, <1>3
<1>5. QED
  BY <1>4 DEF new

\* A salt that has expired is replaced: its successor has no buckets yet.
LEMMA SaltReplaced ==
    ASSUME NEW served, NEW past, NEW bucket \in Bucket \cup {None}, NEW t, NEW expires,
           WindowTypes(served, past, bucket, t, expires),
           WindowBound(served, past, bucket, t, expires),
           expires <= clock, RateWindow <= RotationPeriod
    PROVE  WindowBound(served, past, None, t, clock + RotationPeriod)
<1>1. RateWindow <= RotationPeriod
  OBVIOUS
<1>2. CASE bucket = None
  BY <1>1, <1>2, Limits DEF WindowTypes, WindowBound
<1>3. CASE bucket # None
  BY <1>1, <1>3, Limits DEF WindowTypes, WindowBound
<1>4. QED
  BY <1>2, <1>3

-----------------------------------------------------------------------------
(* The steps of the rate limiter *)

\* The requests that are counted are finitely many, and none was admitted after now.
LEMMA ServedTypes ==
    ASSUME RateInv, ClockOK, admittedAt \in [Requests -> Times \cup {None}],
           NEW address \in Addresses, NEW t \in Times
    PROVE  /\ IsFiniteSet(Admitted({r \in Requests : AddressOf[r] = address}, t))
           /\ Served(address, t) \in Nat
           /\ clock < t => Served(address, t) = 0
<1> DEFINE S == Admitted({r \in Requests : AddressOf[r] = address}, t)
<1>1. S \in SUBSET Requests
  BY DEF Admitted
<1>2. IsFiniteSet(S) /\ Cardinality(S) \in Nat
  BY <1>1, RequestsFinite
<1>3. ASSUME clock < t
      PROVE  S = {}
  <2>1. \A r \in Requests : admittedAt[r] # None => admittedAt[r] \in Times /\ admittedAt[r] <= clock
    BY DEF RateInv
  <2>2. \A r \in Requests : admittedAt[r] # None => admittedAt[r] \notin t .. t + RateWindow - 1
    BY <1>3, <2>1, Limits DEF ClockOK, Times
  <2>3. QED
    BY <2>2 DEF Admitted
<1>4. QED
  BY <1>2, <1>3, FS_EmptySet DEF Served

\* An admission adds one request, of one address, to the windows that now is in.
LEMMA ServedMoves ==
    ASSUME RateInv, ClockOK, admittedAt \in [Requests -> Times \cup {None}],
           NEW r \in Requests, admittedAt' = [admittedAt EXCEPT ![r] = clock],
           NEW address \in Addresses, NEW t \in Times
    PROVE  /\ AddressOf[r] # address => Served(address, t)' = Served(address, t)
           /\ OneMore(Served(address, t), Served(address, t)', t)
<1> DEFINE Q == {q \in Requests : AddressOf[q] = address}
           S == Admitted(Q, t)
           now == clock \in t .. t + RateWindow - 1
<1>1. \A q \in Requests : admittedAt'[q] = IF q = r THEN clock ELSE admittedAt[q]
  OBVIOUS
<1>2. /\ S = {q \in Q : admittedAt[q] # None /\ admittedAt[q] \in t .. t + RateWindow - 1}
      /\ S' = {q \in Q : admittedAt'[q] # None /\ admittedAt'[q] \in t .. t + RateWindow - 1}
  BY DEF Admitted
<1>3. AddressOf[r] # address => S' = S
  <2> SUFFICES ASSUME AddressOf[r] # address PROVE S' = S
    OBVIOUS
  <2>1. \A q \in Q : admittedAt'[q] = admittedAt[q]
    BY <1>1
  <2>2. QED
    BY <1>2, <2>1
<1>4. S' \subseteq S \cup {r} /\ (~ now => S' \subseteq S)
  BY <1>1, <1>2
<1>5. IsFiniteSet(S) /\ Cardinality(S) \in Nat /\ Served(address, t) = Cardinality(S)
      /\ Served(address, t)' = Cardinality(S')
  BY ServedTypes DEF Served
<1> HIDE DEF S
<1>6. IsFiniteSet(S \cup {r}) /\ Cardinality(S \cup {r}) \in Nat
      /\ Cardinality(S \cup {r}) <= Cardinality(S) + 1
  <2>1. IsFiniteSet(S) /\ Cardinality(S) \in Nat
    BY <1>5
  <2>2. /\ IsFiniteSet(S \cup {r})
        /\ Cardinality(S \cup {r}) = IF r \in S THEN Cardinality(S) ELSE Cardinality(S) + 1
    BY <2>1, FS_AddElement
  <2>3. QED
    BY <2>1, <2>2
<1>7. Cardinality(S') \in Nat /\ Cardinality(S') <= Cardinality(S \cup {r})
  BY <1>4, <1>6, FS_Subset, FS_CardinalityType
<1>8. ~ now => Cardinality(S') <= Cardinality(S)
  BY <1>4, <1>5, FS_Subset
<1>9. now <=> t <= clock /\ clock < t + RateWindow
  BY Limits DEF ClockOK, Times
<1>10. OneMore(Cardinality(S), Cardinality(S'), t)
  BY <1>5, <1>6, <1>7, <1>8, <1>9 DEF OneMore
<1>11. QED
  BY <1>3, <1>5, <1>10

\* What the windows' arithmetic needs to know of a state of the relayer.
LEMMA WindowsTyped ==
    ASSUME IndInv, RateInv, NEW address \in Addresses, NEW t \in Times
    PROVE  /\ <<salt, address>> \in ClientKeys
           /\ salt \in Salts
           /\ WindowTypes(Served(address, t), PastProcesses, buckets[<<salt, address>>], t,
                          saltExpiresAt)
           /\ WindowBound(Served(address, t), PastProcesses, buckets[<<salt, address>>], t,
                          saltExpiresAt)
<1> DEFINE bucket == buckets[<<salt, address>>]
<1>1. /\ clock \in Nat /\ crashes \in Nat /\ clock <= MaxTime /\ crashes <= MaxCrashes
      /\ salt \in Nat /\ saltExpiresAt \in Nat
      /\ salt <= clock + crashes
      /\ saltExpiresAt <= clock + RotationPeriod
      /\ t \in Nat
  BY Limits DEF IndInv, ClockOK, LimiterOK, Times
<1>2. salt \in Salts /\ <<salt, address>> \in ClientKeys
  <2>1. salt \in Salts
    BY <1>1, Limits DEF Salts
  <2>2. QED
    BY <2>1 DEF ClientKeys
<1>3. bucket \in Bucket \cup {None}
  BY <1>2 DEF IndInv, LimiterOK
<1>4. bucket # None => /\ bucket.count \in Nat /\ bucket.resetAt \in Nat
                       /\ bucket.count <= RateLimit
                       /\ bucket.resetAt <= clock + RateWindow
  <2>1. bucket # None => bucket.count \in 0 .. RateLimit /\ bucket.resetAt \in 0 .. MaxTime + RateWindow
    BY <1>3 DEF Bucket
  <2>2. bucket # None => bucket.resetAt <= clock + RateWindow
    BY <1>2 DEF RateInv
  <2>3. QED
    BY <2>1, <2>2, Limits
<1>5. Served(address, t) \in Nat /\ (clock < t => Served(address, t) = 0)
  BY ServedTypes DEF IndInv
<1>6. PastProcesses \in Nat
  <2>1. 3 * RateLimit - 1 \in Nat
    BY Limits
  <2> DEFINE most == 3 * RateLimit - 1
  <2> HIDE DEF most
  <2>2. most * crashes \in Nat
    BY <1>1, <2>1 DEF most
  <2>3. QED
    BY <2>2 DEF most, PastProcesses
<1>7. WindowTypes(Served(address, t), PastProcesses, bucket, t, saltExpiresAt)
  BY <1>1, <1>3, <1>4, <1>5, <1>6 DEF WindowTypes
<1>8. QED
  BY <1>2, <1>7 DEF RateInv

\* A request that is refused finds the bucket of the current salt full.
LEMMA RefusedLeavesLimiter ==
    ASSUME IndInv, RateInv, NEW r \in Requests, CheckRate(r, FALSE)
    PROVE  UNCHANGED <<salt, saltExpiresAt, buckets>>
<1> DEFINE key == KeyFor(AddressOf[r])
           bucket == CurrentBucket(key)
<1>1. /\ RotateSalt
      /\ ~ (bucket.count < RateLimit)
      /\ buckets' = [buckets EXCEPT ![key] = bucket]
  <2>1. /\ RotateSalt
        /\ FALSE = (bucket.count < RateLimit)
        /\ buckets' = [buckets EXCEPT ![key] = IF FALSE THEN [bucket EXCEPT !.count = @ + 1] ELSE bucket]
    BY DEF CheckRate
  <2> HIDE DEF bucket, key
  <2>2. QED
    BY <2>1, Zenon
<1>2. bucket.count # 0
  BY <1>1, Limits
<1>3. bucket # [count |-> 0, resetAt |-> clock + RateWindow]
  BY <1>2
<1>4. bucket = buckets[key] /\ buckets[key] # None
  BY <1>3 DEF CurrentBucket
<1>5. AddressOf[r] \in Addresses /\ 0 \in Times
  BY RelayerAssumption, Limits DEF Times
<1>6. ~ (clock >= saltExpiresAt)
  <2> SUFFICES ASSUME clock >= saltExpiresAt PROVE FALSE
    OBVIOUS
  <2>1. key = <<salt + 1, AddressOf[r]>> /\ salt' = salt + 1
    BY <1>1 DEF KeyFor, RotateSalt
  <2>2. salt + 1 \in Salts /\ salt < salt + 1
    BY Limits DEF IndInv, ClockOK, LimiterOK, Times, Salts
  <2>3. buckets[key] = None
    BY <1>5, <2>1, <2>2 DEF RateInv
  <2>4. QED
    BY <1>4, <2>3
<1>7. UNCHANGED <<salt, saltExpiresAt>> /\ key = <<salt, AddressOf[r]>>
  BY <1>1, <1>6 DEF RotateSalt, KeyFor
<1>8. buckets \in [ClientKeys -> Bucket \cup {None}]
  BY DEF IndInv, LimiterOK
<1>9. key \in ClientKeys
  BY <1>5, <1>7, WindowsTyped
<1>10. QED
  BY <1>1, <1>4, <1>7, <1>8, <1>9

\* What an admitted request does to the bucket that it is counted in.
LEMMA AdmittedIsCounted ==
    ASSUME IndInv, RateInv, NEW r \in Requests, CheckRate(r, TRUE)
    PROVE  LET key == <<salt', AddressOf[r]>>
           IN  /\ RotateSalt
               /\ AddressOf[r] \in Addresses
               /\ key \in ClientKeys
               /\ \/ /\ buckets[key] \in Bucket
                     /\ buckets[key].count < RateLimit
                     /\ clock < buckets[key].resetAt
                     /\ buckets' = [buckets EXCEPT ![key] = [buckets[key] EXCEPT !.count = @ + 1]]
                  \/ /\ buckets[key] # None => buckets[key].resetAt <= clock
                     /\ buckets' = [buckets EXCEPT ![key] =
                                       [count |-> 1, resetAt |-> clock + RateWindow]]
<1> DEFINE key == KeyFor(AddressOf[r])
           bucket == CurrentBucket(key)
           first == [count |-> 0, resetAt |-> clock + RateWindow]
<1>1. /\ RotateSalt
      /\ bucket.count < RateLimit
      /\ buckets' = [buckets EXCEPT ![key] = [bucket EXCEPT !.count = @ + 1]]
  <2>1. /\ RotateSalt
        /\ TRUE = (bucket.count < RateLimit)
        /\ buckets' = [buckets EXCEPT ![key] = IF TRUE THEN [bucket EXCEPT !.count = @ + 1] ELSE bucket]
    BY DEF CheckRate
  <2> HIDE DEF bucket, key
  <2>2. QED
    BY <2>1, Zenon
<1>2. key = <<salt', AddressOf[r]>>
  BY <1>1 DEF RotateSalt, KeyFor
<1>3. AddressOf[r] \in Addresses
  BY RelayerAssumption
<1>4. key \in ClientKeys
  <2>1. salt' \in Salts
    BY <1>1, Limits DEF IndInv, ClockOK, LimiterOK, Times, Salts, RotateSalt
  <2>2. QED
    BY <1>2, <1>3, <2>1 DEF ClientKeys
<1>5. buckets \in [ClientKeys -> Bucket \cup {None}] /\ clock \in Nat
  BY Limits DEF IndInv, LimiterOK, ClockOK, Times
<1>6. CASE buckets[key] = None \/ (buckets[key] # None /\ clock >= buckets[key].resetAt)
  <2>1. bucket = first
    BY <1>6 DEF CurrentBucket
  <2>2. [first EXCEPT !.count = @ + 1] = [count |-> 1, resetAt |-> clock + RateWindow]
    OBVIOUS
  <2>3. buckets[key] # None => buckets[key].resetAt <= clock
    BY <1>4, <1>5, <1>6, Limits DEF Bucket
  <2>4. QED
    BY <1>1, <1>2, <1>3, <1>4, <2>1, <2>2, <2>3
<1>7. CASE ~ (buckets[key] = None \/ (buckets[key] # None /\ clock >= buckets[key].resetAt))
  <2>1. bucket = buckets[key] /\ buckets[key] # None /\ ~ (clock >= buckets[key].resetAt)
    BY <1>7 DEF CurrentBucket
  <2>2. buckets[key] \in Bucket
    BY <1>4, <1>5, <2>1
  <2>3. clock < buckets[key].resetAt
    <3>1. buckets[key].resetAt \in 0 .. MaxTime + RateWindow
      BY <2>2 DEF Bucket
    <3>2. QED
      BY <1>5, <2>1, <3>1, Limits
  <2>4. QED
    BY <1>1, <1>2, <1>3, <1>4, <2>1, <2>2, <2>3
<1>8. QED
  BY <1>6, <1>7

\* The bounds survive the rotation of the salt that an admission may begin with.
LEMMA RotationKeepsBounds ==
    ASSUME RateWindow <= RotationPeriod, IndInv, RateInv, RotateSalt, NEW address \in Addresses, NEW t \in Times
    PROVE  LET bucket == buckets[<<salt', address>>]
           IN  /\ WindowTypes(Served(address, t), PastProcesses, bucket, t, saltExpiresAt')
               /\ WindowBound(Served(address, t), PastProcesses, bucket, t, saltExpiresAt')
<1> DEFINE n == Served(address, t)
           old == buckets[<<salt, address>>]
<1>1. /\ WindowTypes(n, PastProcesses, old, t, saltExpiresAt)
      /\ WindowBound(n, PastProcesses, old, t, saltExpiresAt)
  BY WindowsTyped
<1>2. CASE ~ (clock >= saltExpiresAt)
  BY <1>1, <1>2 DEF RotateSalt
<1>3. CASE clock >= saltExpiresAt
  <2>1. salt' = salt + 1 /\ saltExpiresAt' = clock + RotationPeriod
    BY <1>3 DEF RotateSalt
  <2>2. salt + 1 \in Salts /\ salt < salt + 1
    BY <1>3, Limits DEF IndInv, ClockOK, LimiterOK, Times, Salts
  <2>3. buckets[<<salt', address>>] = None
    BY <2>1, <2>2 DEF RateInv
  <2>4. WindowTypes(n, PastProcesses, None, t, clock + RotationPeriod)
    BY <1>1, Limits DEF WindowTypes
  <2>5. saltExpiresAt <= clock
    BY <1>1, <1>3 DEF WindowTypes
  <2>6. old \in Bucket \cup {None}
    BY <1>1 DEF WindowTypes
  <2> HIDE DEF n, old
  <2>7. WindowBound(n, PastProcesses, None, t, clock + RotationPeriod)
    BY <1>1, <2>5, <2>6, SaltReplaced
  <2>8. QED
    BY <2>1, <2>3, <2>4, <2>7 DEF n
<1>4. QED
  BY <1>2, <1>3

\* An admission, with the rotation it may begin with, keeps the bounds of every address.
LEMMA AdmissionKeepsRate ==
    ASSUME RateWindow <= RotationPeriod, IndInv, RateInv, NEW r \in Requests, CheckRate(r, TRUE),
           admittedAt' = [admittedAt EXCEPT ![r] = clock], UNCHANGED <<clock, crashes>>
    PROVE  RateInv'
<1> DEFINE key == <<salt', AddressOf[r]>>
           more == [buckets[key] EXCEPT !.count = @ + 1]
           new == [count |-> 1, resetAt |-> clock + RateWindow]
           roomLeft == /\ buckets[key] \in Bucket
                       /\ buckets[key].count < RateLimit
                       /\ clock < buckets[key].resetAt
                       /\ buckets' = [buckets EXCEPT ![key] = more]
           opened == /\ buckets[key] # None => buckets[key].resetAt <= clock
                     /\ buckets' = [buckets EXCEPT ![key] = new]
<1>1. /\ RotateSalt
      /\ AddressOf[r] \in Addresses
      /\ key \in ClientKeys
      /\ roomLeft \/ opened
  BY AdmittedIsCounted
<1>2. /\ clock \in Nat /\ clock <= MaxTime /\ salt \in Nat /\ salt' \in Nat /\ salt <= salt'
      /\ buckets \in [ClientKeys -> Bucket \cup {None}]
      /\ admittedAt \in [Requests -> Times \cup {None}]
  BY <1>1, Limits DEF IndInv, ClockOK, LimiterOK, Times, RotateSalt
<1>3. \A k \in ClientKeys : k # key => buckets'[k] = buckets[k]
  <2> HIDE DEF key, more, new
  <2>1. roomLeft => \A k \in ClientKeys : k # key => buckets'[k] = buckets[k]
    BY <1>2
  <2>2. opened => \A k \in ClientKeys : k # key => buckets'[k] = buckets[k]
    BY <1>2
  <2>3. QED
    BY <1>1, <2>1, <2>2
<1>4. /\ roomLeft => buckets'[key] = more /\ more.resetAt = buckets[key].resetAt
      /\ opened => buckets'[key] = new
  <2>1. buckets[key] \in Bucket => more.resetAt = buckets[key].resetAt
    BY DEF Bucket
  <2>2. QED
    BY <1>1, <1>2, <2>1
<1> HIDE DEF key, more
<1>5. \A q \in Requests : admittedAt'[q] # None => admittedAt'[q] <= clock'
  BY <1>2 DEF RateInv
<1>6. \A s \in Salts, address \in Addresses : salt' < s => buckets'[<<s, address>>] = None
  <2> SUFFICES ASSUME NEW s \in Salts, NEW address \in Addresses, salt' < s
               PROVE  buckets'[<<s, address>>] = None
    OBVIOUS
  <2>1. <<s, address>> \in ClientKeys /\ <<s, address>> # key /\ s \in Nat
    BY <1>2 DEF ClientKeys, key, Salts
  <2>2. salt < s
    BY <1>2, <2>1
  <2>3. QED
    BY <1>3, <2>1, <2>2 DEF RateInv
<1>7. \A k \in ClientKeys : buckets'[k] # None => buckets'[k].resetAt <= clock' + RateWindow
  <2> SUFFICES ASSUME NEW k \in ClientKeys, buckets'[k] # None
               PROVE  buckets'[k].resetAt <= clock + RateWindow
    OBVIOUS
  <2>1. CASE k # key
    BY <1>3, <2>1 DEF RateInv
  <2>2. CASE k = key /\ roomLeft
    <3>1. buckets[key] # None
      BY <2>2, NoneAssumption
    <3>2. QED
      BY <1>1, <1>4, <2>2, <3>1 DEF RateInv
  <2>3. CASE k = key /\ opened
    BY <1>2, <1>4, <2>3, Limits
  <2>4. QED
    BY <1>1, <2>1, <2>2, <2>3
<1>8. ASSUME NEW address \in Addresses, NEW t \in Times
      PROVE  WindowBound(Served(address, t)', PastProcesses', buckets'[<<salt', address>>], t,
                         saltExpiresAt')
  <2> DEFINE n == Served(address, t)
             m == Served(address, t)'
             bucket == buckets[<<salt', address>>]
  <2>1. /\ WindowTypes(n, PastProcesses, bucket, t, saltExpiresAt')
        /\ WindowBound(n, PastProcesses, bucket, t, saltExpiresAt')
    BY <1>1, RotationKeepsBounds
  <2>2. /\ AddressOf[r] # address => m = n
        /\ OneMore(n, m, t)
    BY ServedMoves DEF IndInv
  <2>3. PastProcesses' = PastProcesses
    BY DEF PastProcesses
  <2>4. CASE AddressOf[r] # address
    <3>1. <<salt', address>> \in ClientKeys /\ <<salt', address>> # key
      BY <1>1, <2>4 DEF key, ClientKeys
    <3>2. QED
      BY <1>3, <2>1, <2>2, <2>3, <2>4, <3>1
  <2>5. CASE AddressOf[r] = address
    <3>1. bucket = buckets[key] /\ buckets'[<<salt', address>>] = buckets'[key]
      BY <2>5 DEF key
    <3> HIDE DEF n, m, bucket, new
    <3>2. ASSUME roomLeft
          PROVE  WindowBound(m, PastProcesses, buckets'[key], t, saltExpiresAt')
      <4>1. /\ bucket \in Bucket /\ bucket.count < RateLimit /\ clock < bucket.resetAt
            /\ buckets'[key] = [bucket EXCEPT !.count = @ + 1]
        BY <1>4, <3>1, <3>2 DEF more
      <4>2. WindowBound(m, PastProcesses, [bucket EXCEPT !.count = @ + 1], t, saltExpiresAt')
        BY <2>1, <2>2, <4>1, CountedInBucket
      <4>3. QED
        BY <4>1, <4>2
    <3>3. ASSUME opened
          PROVE  WindowBound(m, PastProcesses, buckets'[key], t, saltExpiresAt')
      <4>1. /\ bucket # None => bucket.resetAt <= clock
            /\ buckets'[key] = new
        BY <1>4, <3>1, <3>3
      <4>2. bucket \in Bucket \cup {None}
        BY <2>1 DEF WindowTypes
      <4>3. WindowBound(m, PastProcesses, [count |-> 1, resetAt |-> clock + RateWindow], t,
                        saltExpiresAt')
        BY <1>2, <2>1, <2>2, <4>1, <4>2, CountedInNewBucket
      <4>4. QED
        BY <4>1, <4>3 DEF new
    <3>4. WindowBound(m, PastProcesses, buckets'[key], t, saltExpiresAt')
      BY <1>1, <3>2, <3>3
    <3>5. QED
      BY <2>3, <3>1, <3>4 DEF m
  <2>6. QED
    BY <2>4, <2>5
<1>9. QED
  BY <1>5, <1>6, <1>7, <1>8 DEF RateInv

\* A step of the relayer keeps the bounds: what it admits is counted, and what a process
\* that ends admitted becomes past.
LEMMA RateInvStep ==
    ASSUME RateWindow <= RotationPeriod, IndInv, RateInv, [Next]_vars
    PROVE  RateInv'
<1>0. /\ clock \in Nat /\ crashes \in Nat /\ salt \in Nat
      /\ admittedAt \in [Requests -> Times \cup {None}]
      /\ buckets \in [ClientKeys -> Bucket \cup {None}]
  BY Limits DEF IndInv, ClockOK, LimiterOK, Times
<1>1. CASE UNCHANGED <<clock, crashes, salt, saltExpiresAt, buckets, admittedAt>>
  BY <1>1 DEF RateInv, Served, Admitted, PastProcesses
<1>2. CASE Tick
  <2>1. clock' = clock + 1 /\ UNCHANGED <<crashes, salt, saltExpiresAt, buckets, admittedAt>>
    BY <1>2, Frames
  <2>2. \A r \in Requests : admittedAt'[r] # None => admittedAt'[r] <= clock'
    BY <1>0, <2>1 DEF RateInv, Times
  <2>3. \A key \in ClientKeys : buckets'[key] # None => buckets'[key].resetAt <= clock' + RateWindow
    <3> SUFFICES ASSUME NEW key \in ClientKeys, buckets[key] # None
                 PROVE  buckets[key].resetAt <= clock + 1 + RateWindow
      BY <2>1
    <3>1. buckets[key].resetAt \in 0 .. MaxTime + RateWindow
      BY <1>0 DEF Bucket
    <3>2. buckets[key].resetAt <= clock + RateWindow
      BY DEF RateInv
    <3>3. QED
      BY <1>0, <3>1, <3>2, Limits
  <2>4. \A address \in Addresses, t \in Times :
           /\ Served(address, t)' = Served(address, t)
           /\ PastProcesses' = PastProcesses
    BY <2>1 DEF Served, Admitted, PastProcesses
  <2>5. QED
    BY <2>1, <2>2, <2>3, <2>4 DEF RateInv
<1>3. CASE Crash
  <2>1. /\ crashes' = crashes + 1 /\ salt' = salt + 1
        /\ saltExpiresAt' = clock + RotationPeriod
        /\ buckets' = [k \in ClientKeys |-> None]
        /\ UNCHANGED <<clock, admittedAt>>
    BY <1>3, Frames DEF Crash
  <2>2. PastProcesses' = PastProcesses + (3 * RateLimit - 1)
    <3> DEFINE most == 3 * RateLimit - 1
    <3>1. most \in Nat
      BY Limits
    <3> HIDE DEF most
    <3>2. most * (crashes + 1) = most * crashes + most
      BY <1>0, <3>1
    <3>3. QED
      BY <2>1, <3>2 DEF most, PastProcesses
  <2>3. \A address \in Addresses, s \in Salts : buckets'[<<s, address>>] = None
    BY <2>1 DEF ClientKeys
  <2>4. salt + 1 \in Salts
    BY <1>3, Limits DEF Crash, IndInv, ClockOK, LimiterOK, Times, Salts
  <2>5. ASSUME NEW address \in Addresses, NEW t \in Times
        PROVE  WindowBound(Served(address, t)', PastProcesses', buckets'[<<salt', address>>], t,
                           saltExpiresAt')
    <3>1. /\ WindowTypes(Served(address, t), PastProcesses, buckets[<<salt, address>>], t,
                         saltExpiresAt)
          /\ WindowBound(Served(address, t), PastProcesses, buckets[<<salt, address>>], t,
                         saltExpiresAt)
      BY WindowsTyped
    <3>2. Served(address, t)' = Served(address, t)
      BY <2>1 DEF Served, Admitted
    <3>3. buckets'[<<salt', address>>] = None
      BY <2>1, <2>3, <2>4
    <3> DEFINE n == Served(address, t)
    <3> HIDE DEF n
    <3>4. /\ n \in Nat /\ PastProcesses \in Nat /\ t \in Nat
          /\ (clock < t => n = 0)
          /\ n <= PastProcesses + 3 * RateLimit - 1
      BY <3>1 DEF WindowTypes, WindowBound, n
    <3>5. WindowBound(n, PastProcesses + (3 * RateLimit - 1), None, t, clock + RotationPeriod)
      BY <1>0, <3>4, Limits DEF WindowBound
    <3>6. QED
      BY <2>1, <2>2, <3>2, <3>3, <3>5 DEF n
  <2>6. QED
    BY <2>1, <2>3, <2>5 DEF RateInv
<1>4. ASSUME NEW r \in Requests, Submit(r)
      PROVE  RateInv'
  <2>1. UNCHANGED <<clock, crashes>>
    BY <1>4, Frames
  <2>2. CASE SubmitRateLimited(r)
    <3>1. CheckRate(r, FALSE) /\ UNCHANGED admittedAt
      BY <2>2 DEF SubmitRateLimited
    <3>2. QED
      BY <1>1, <2>1, <3>1, RefusedLeavesLimiter
  <2>3. CASE Admit(r)
    BY <2>1, <2>3, AdmissionKeepsRate DEF Admit
  <2>4. QED
    BY <1>4, <2>2, <2>3 DEF Submit, SubmitInFlight, SubmitReplay, SubmitFresh
<1>5. QED
  BY <1>1, <1>2, <1>3, <1>4, Steps, Frames

\* Nobody has been admitted at the start.
LEMMA InitRateInv == Init => RateInv
<1> SUFFICES ASSUME Init PROVE RateInv
  OBVIOUS
<1>1. ClockOK /\ clock \in Nat /\ PastProcesses = 0
  BY Limits DEF Init, ClockOK, Times, PastProcesses
<1>2. admittedAt = [r \in Requests |-> None] /\ buckets = [k \in ClientKeys |-> None]
      /\ salt = 0 /\ saltExpiresAt = RotationPeriod /\ clock = 0
  BY DEF Init
<1>3. \A s \in Salts, address \in Addresses : buckets[<<s, address>>] = None
  BY <1>2 DEF ClientKeys
<1>4. ASSUME NEW address \in Addresses, NEW t \in Times
      PROVE  WindowBound(Served(address, t), PastProcesses, buckets[<<salt, address>>], t,
                         saltExpiresAt)
  <2>1. Admitted({r \in Requests : AddressOf[r] = address}, t) = {}
    BY <1>2 DEF Admitted
  <2>2. Served(address, t) = 0
    BY <2>1, FS_EmptySet DEF Served
  <2>3. buckets[<<salt, address>>] = None
    BY <1>2, <1>3, Limits DEF Salts
  <2>4. WindowBound(0, 0, None, t, saltExpiresAt)
    BY <1>2, Limits DEF WindowBound, Times
  <2>5. QED
    BY <1>1, <2>2, <2>3, <2>4
<1>5. QED
  BY <1>2, <1>3, <1>4 DEF RateInv

\* However the windows of an address end and begin, its salts rotate and processes restart,
\* it is admitted no more than three limits less one within one window's length, for each
\* process, if a salt lasts as long as a window does (rateLimit.ts, ephemeralClientKey.ts).
\* Under salts that are shorter the property is false.
THEOREM AddressesAreLimited ==
    ASSUME RateWindow <= RotationPeriod
    PROVE  Spec => []AddressRateBounded
<1>1. IndInv /\ RateInv => AddressRateBounded
  <2> SUFFICES ASSUME IndInv, RateInv, NEW address \in Addresses, NEW t \in Times
               PROVE  Served(address, t) <= (3 * RateLimit - 1) * (1 + crashes)
    BY DEF AddressRateBounded, Served
  <2>1. /\ Served(address, t) \in Nat /\ PastProcesses \in Nat
        /\ Served(address, t) <= PastProcesses + 3 * RateLimit - 1
    BY WindowsTyped DEF WindowTypes, WindowBound
  <2> DEFINE most == 3 * RateLimit - 1
  <2>2. most \in Nat /\ crashes \in Nat
    BY Limits DEF IndInv, ClockOK
  <2>3. Served(address, t) <= most * crashes + most
    BY <2>1, Limits DEF PastProcesses
  <2> HIDE DEF most
  <2>4. most * (1 + crashes) = most * crashes + most
    BY <2>2
  <2>5. QED
    BY <2>3, <2>4 DEF most
<1>2. IndInv /\ RateInv /\ [Next]_vars => RateInv'
  BY RateInvStep
<1>3. QED
  BY <1>1, <1>2, InitRateInv, IndInvHolds, PTL DEF Spec

=============================================================================
