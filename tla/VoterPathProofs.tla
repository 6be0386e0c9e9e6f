-------------------------- MODULE VoterPathProofs --------------------------
(* Theorems about a ballot's way to the relayer, for any requests, page and *)
(* adapter: what callers of the adapter are told is so, a request that the  *)
(* validation refuses takes no idempotency key, and what it lets pass can   *)
(* be encoded and replayed.                                                 *)
EXTENDS VoterPath, RelayerProofs, FieldFormatsProofs

-----------------------------------------------------------------------------
(* The inductive invariant *)

\* Only admitted requests are in service.
ServedWereAdmitted == \A r \in Requests : InService(r) => admittedAt[r] # None

\* What a caller was told of its ballot is so, unless the mock adapter told the page.
ToldOK ==
    /\ told \in [Requests -> Statuses \cup {"threw", None}]
    /\ \A r \in Requests :
        told[r] \in {"accepted", "duplicate"} /\ ~ (SourceOf[r] = "page" /\ relay = "mock") =>
            BallotOf[r] \in landed

\* The inductive invariant behind the theorems: the relayer's own one, which a refusal in
\* front of the route keeps as well, and what ties the callers and the store to it.
PathInv ==
    /\ IndInv
    /\ ServedWereAdmitted
    /\ RefusedLeavesNoTrace
    /\ ToldOK

-----------------------------------------------------------------------------
(* The relayer behind the validation *)

\* A step is one of the relayer's, a refusal, or one of the callers'.
LEMMA PathSteps ==
    ASSUME [PathNext]_allVars
    PROVE  \/ [Next]_vars /\ UNCHANGED pathVars
           \/ \E r \in Requests : Refuse(r)
           \/ UNCHANGED vars /\ (Click \/ Reload)
           \/ \E r \in Requests, signal \in Wire : UNCHANGED vars /\ ProverSettles(r, signal)
           \/ \E r \in Requests : UNCHANGED vars /\ MockAnswers(r)
           \/ \E r \in Requests : UNCHANGED vars /\ AnswerArrives(r)
           \/ \E r \in Requests : UNCHANGED vars /\ ConnectionBreaks(r)
           \/ \E r \in Requests, signal \in Wire, complete \in BOOLEAN :
                  UNCHANGED vars /\ Post(r, signal, complete)
<1>1. (Tick \/ Crash) /\ UNCHANGED pathVars => [Next]_vars /\ UNCHANGED pathVars
  BY DEF Next
<1>2. ASSUME NEW r \in Requests, Serve(r) PROVE [Next]_vars /\ UNCHANGED pathVars
  BY <1>2 DEF Serve, Next
<1>3. Click \/ Reload => UNCHANGED vars
  BY DEF Click, Reload
<1>4. ASSUME NEW r \in Requests, NEW signal \in Wire, ProverSettles(r, signal) PROVE UNCHANGED vars
  BY <1>4 DEF ProverSettles
<1>5. ASSUME NEW r \in Requests, MockAnswers(r) \/ AnswerArrives(r) \/ ConnectionBreaks(r)
      PROVE  UNCHANGED vars
  BY <1>5 DEF MockAnswers, AnswerArrives, ConnectionBreaks, Tell
<1>6. ASSUME NEW r \in Requests, NEW signal \in Wire, NEW complete \in BOOLEAN,
             Post(r, signal, complete)
      PROVE  UNCHANGED vars
  BY <1>6 DEF Post
<1>7. UNCHANGED allVars => [Next]_vars /\ UNCHANGED pathVars
  BY DEF allVars
<1>8. QED
  BY <1>1, <1>2, <1>3, <1>4, <1>5, <1>6, <1>7 DEF PathNext

\* A refusal answers the request and touches nothing else.
LEMMA RefuseFrame ==
    ASSUME NEW r \in Requests, Refuse(r)
    PROVE  /\ phase[r] = "new" /\ phase' = [phase EXCEPT ![r] = "answered"]
           /\ answer' = [answer EXCEPT ![r] = [status |-> "error", replay |-> FALSE]]
           /\ UNCHANGED <<clock, crashes, salt, saltExpiresAt, buckets, entries, lane, active,
                          tx, landed, admittedAt, overstayed, relay, told>>
  BY DEF Refuse, Reply, limiterVars, ledgerVars, pathVars

\* An error in front of the route is an answer like the route's own errors.
LEMMA RefuseKeepsIndInv ==
    ASSUME IndInv, NEW r \in Requests, Refuse(r)
    PROVE  IndInv'
<1> DEFINE reply == [status |-> "error", replay |-> FALSE]
<1>1. /\ phase[r] = "new" /\ phase' = [phase EXCEPT ![r] = "answered"]
      /\ Replied(r, reply) /\ reply \in Answer
      /\ UNCHANGED <<clock, crashes, salt, saltExpiresAt, buckets, entries, lane, active,
                     tx, landed, admittedAt, overstayed>>
  BY RefuseFrame DEF Replied, Answer
<1>2. phase \in [Requests -> Phases]
  BY DEF IndInv, QueueOK, QueueMatches
<1>3. ClockOK' /\ LimiterOK'
  BY <1>1 DEF IndInv, ClockOK, LimiterOK
<1>4. QueueOK'
  BY <1>1, MovesOutsideLane DEF IndInv, Phases, Working
<1>5. BecomesAnswered(r) /\ Founded(r, reply)
  BY <1>1, <1>2 DEF BecomesAnswered, Founded
<1>6. AnswersOK' /\ ReplayHasOriginal'
  BY <1>1, <1>5, ReplyKeepsAnswers DEF IndInv
<1>7. EntriesOK'
  <2>1. /\ entries' = entries
        /\ \A q \in Requests : q # r => answer'[q] = answer[q]
    BY <1>1, RepliedOnly DEF IndInv
  <2>2. answer[r] = None
    BY <1>1 DEF IndInv, AnswersOK
  <2>3. ASSUME NEW status \in Statuses, NEW q \in Requests,
               answer[q] = [status |-> status, replay |-> FALSE]
        PROVE  answer'[q] = answer[q]
    <3>1. [status |-> status, replay |-> FALSE] \in Answer
      BY DEF Answer
    <3>2. QED
      BY <2>1, <2>2, <2>3, <3>1, NoneAssumption
  <2>4. QED
    BY <2>1, <2>3 DEF IndInv, EntriesOK
<1>8. LedgerOK'
  <2>1. \A q \in Requests : phase'[q] \in Early => phase[q] \in Early
    BY <1>1, <1>2 DEF Early
  <2>2. QED
    BY <1>1, <2>1 DEF IndInv, LedgerOK, Early
<1>9. /\ admittedAt' \in [Requests -> Times \cup {None}]
      /\ overstayed' \in SUBSET Requests
  BY <1>1 DEF IndInv
<1>10. QED
  BY <1>3, <1>4, <1>6, <1>7, <1>8, <1>9 DEF IndInv

\* Every step of the path keeps the relayer's invariant.
LEMMA IndInvKept ==
    ASSUME IndInv, [PathNext]_allVars
    PROVE  IndInv'
<1>1. UNCHANGED vars => [Next]_vars
  OBVIOUS
<1>2. [Next]_vars \/ \E r \in Requests : Refuse(r)
  BY <1>1, PathSteps
<1>3. QED
  BY <1>2, IndInvStep, RefuseKeepsIndInv

-----------------------------------------------------------------------------
(* Admissions and the store *)

\* An admission is not forgotten, and a fresh request is admitted.
LEMMA Admissions ==
    ASSUME IndInv, [Next]_vars, NEW q \in Requests
    PROVE  /\ admittedAt[q] # None => admittedAt'[q] # None
           /\ SubmitFresh(q) => admittedAt'[q] # None
<1>1. clock # None /\ admittedAt \in [Requests -> Times \cup {None}]
  BY NoneAssumption DEF IndInv, ClockOK
<1>2. ASSUME NEW r \in Requests, Submit(r)
      PROVE  UNCHANGED admittedAt \/ admittedAt' = [admittedAt EXCEPT ![r] = clock]
  BY <1>2 DEF Submit, SubmitRateLimited, SubmitInFlight, SubmitReplay, SubmitFresh, Admit
<1>3. UNCHANGED admittedAt \/ \E r \in Requests : admittedAt' = [admittedAt EXCEPT ![r] = clock]
  BY <1>2, Steps, Frames
<1>4. SubmitFresh(q) => admittedAt' = [admittedAt EXCEPT ![q] = clock]
  BY DEF SubmitFresh, Admit
<1>5. QED
  BY <1>1, <1>3, <1>4

\* A request that enters service has passed the limiter.
LEMMA ServedStep ==
    ASSUME IndInv, ServedWereAdmitted, [PathNext]_allVars
    PROVE  ServedWereAdmitted'
<1> SUFFICES ASSUME NEW q \in Requests, InService(q)'
             PROVE  admittedAt'[q] # None
  BY DEF ServedWereAdmitted
<1>1. ASSUME [Next]_vars PROVE admittedAt'[q] # None
  <2>1. InService(q) \/ SubmitFresh(q)
    BY <1>1, PhaseMoves DEF IndInv
  <2>2. QED
    BY <1>1, <2>1, Admissions DEF ServedWereAdmitted
<1>2. ASSUME NEW r \in Requests, Refuse(r) PROVE admittedAt'[q] # None
  <2>1. phase' = [phase EXCEPT ![r] = "answered"] /\ admittedAt' = admittedAt
    BY <1>2, RefuseFrame
  <2>2. phase \in [Requests -> Phases]
    BY DEF IndInv, QueueOK, QueueMatches
  <2>3. InService(q)
    BY <2>1, <2>2 DEF InService, Working
  <2>4. QED
    BY <2>1, <2>3 DEF ServedWereAdmitted
<1>3. UNCHANGED vars => [Next]_vars
  OBVIOUS
<1>4. QED
  BY <1>1, <1>2, <1>3, PathSteps

\* An entry appears in the store only for a request that was admitted.
LEMMA TraceStep ==
    ASSUME IndInv, ServedWereAdmitted, RefusedLeavesNoTrace, [PathNext]_allVars
    PROVE  RefusedLeavesNoTrace'
<1> SUFFICES ASSUME NEW k \in Keys, entries'[k] # None
             PROVE  \E r \in Requests : KeyOf[r] = k /\ admittedAt'[r] # None
  BY DEF RefusedLeavesNoTrace
<1>1. ASSUME [Next]_vars
      PROVE  \E r \in Requests : KeyOf[r] = k /\ admittedAt'[r] # None
  <2>1. CASE entries'[k] = entries[k]
    <3>1. PICK r \in Requests : KeyOf[r] = k /\ admittedAt[r] # None
      BY <2>1 DEF RefusedLeavesNoTrace
    <3>2. QED
      BY <1>1, <3>1, Admissions
  <2>2. ASSUME NEW r \in Requests, KeyOf[r] = k, SubmitFresh(r)
        PROVE  \E p \in Requests : KeyOf[p] = k /\ admittedAt'[p] # None
    BY <1>1, <2>2, Admissions
  <2>3. ASSUME NEW r \in Requests, KeyOf[r] = k, Finish(r)
        PROVE  \E p \in Requests : KeyOf[p] = k /\ admittedAt'[p] # None
    <3>1. InService(r)
      BY <2>3 DEF Finish, InService
    <3>2. QED
      BY <1>1, <2>3, <3>1, Admissions DEF ServedWereAdmitted
  <2>4. ClockOK /\ entries \in [Keys -> Entry \cup {None}]
    BY DEF IndInv, EntriesOK
  <2>5. QED
    BY <1>1, <2>1, <2>2, <2>3, <2>4, EntryMoves
<1>2. ASSUME NEW r \in Requests, Refuse(r)
      PROVE  \E p \in Requests : KeyOf[p] = k /\ admittedAt'[p] # None
  BY <1>2, RefuseFrame DEF RefusedLeavesNoTrace
<1>3. UNCHANGED vars => [Next]_vars
  OBVIOUS
<1>4. QED
  BY <1>1, <1>2, <1>3, PathSteps

-----------------------------------------------------------------------------
(* What the callers are told *)

\* What is told of one request now is so, and of the others as before.
LEMMA Telling ==
    ASSUME IndInv, ToldOK, UNCHANGED <<vars, relay>>,
           NEW r \in Requests, NEW outcome \in Statuses \cup {"threw", None},
           told' = [told EXCEPT ![r] = outcome],
           outcome \in {"accepted", "duplicate"} /\ ~ (SourceOf[r] = "page" /\ relay = "mock") =>
               BallotOf[r] \in landed
    PROVE  ToldOK'
<1>1. landed' = landed /\ relay' = relay
  BY DEF vars
<1>2. QED
  BY <1>1 DEF ToldOK

\* What a caller is told of its ballot stays true, and is true when it is told.
LEMMA ToldStep ==
    ASSUME IndInv, ToldOK, [PathNext]_allVars
    PROVE  ToldOK'
<1>1. ASSUME [Next]_vars, UNCHANGED pathVars PROVE ToldOK'
  <2>1. \A r \in Requests : landed \subseteq landed'
    BY <1>1, TransactionMoves DEF IndInv
  <2>2. UNCHANGED <<told, relay>>
    BY <1>1 DEF pathVars
  <2>3. QED
    BY <2>1, <2>2 DEF ToldOK
<1>2. ASSUME UNCHANGED <<vars, relay, told>> PROVE ToldOK'
  BY <1>2 DEF vars, ToldOK
<1>3. ASSUME NEW r \in Requests, Refuse(r) PROVE ToldOK'
  BY <1>3, RefuseFrame DEF ToldOK
<1>4. ASSUME Reload PROVE ToldOK'
  <2>1. UNCHANGED <<vars, relay>>
    BY <1>4 DEF Reload
  <2>2. CASE told' = told
    BY <1>2, <2>1, <2>2
  <2>3. CASE told' = [told EXCEPT ![page.request] = "threw"]
    <3>1. CASE page.request \in Requests
      BY <2>1, <2>3, <3>1, Telling
    <3>2. CASE page.request \notin Requests
      <4>1. told' = told
        BY <2>3, <3>2 DEF ToldOK
      <4>2. QED
        BY <1>2, <2>1, <4>1
    <3>3. QED
      BY <3>1, <3>2
  <2>4. QED
    BY <1>4, <2>2, <2>3 DEF Reload
<1>5. ASSUME NEW r \in Requests, MockAnswers(r) PROVE ToldOK'
  <2>1. /\ UNCHANGED <<vars, relay>>
        /\ SourceOf[r] = "page" /\ relay = "mock"
        /\ \E outcome \in {"threw", "accepted"} : told' = [told EXCEPT ![r] = outcome]
    BY <1>5 DEF MockAnswers, Tell
  <2>2. QED
    BY <2>1, Telling DEF Statuses
<1>6. ASSUME NEW r \in Requests, AnswerArrives(r) PROVE ToldOK'
  <2>1. /\ UNCHANGED <<vars, relay>> /\ answer[r] # None
        /\ told' = [told EXCEPT ![r] = AdapterReads(answer[r].status)]
    BY <1>6 DEF AnswerArrives, Tell
  <2>2. AdapterReads(answer[r].status) \in Statuses
    BY DEF AdapterReads, Statuses
  <2>3. AdapterReads(answer[r].status) \in {"accepted", "duplicate"} =>
            answer[r].status \in {"accepted", "duplicate"}
    BY DEF AdapterReads
  <2>4. AnswersAreTrue
    BY TruthOfAnswers
  <2>5. QED
    BY <2>1, <2>2, <2>3, <2>4, Telling DEF AnswersAreTrue
<1>7. ASSUME NEW r \in Requests, ConnectionBreaks(r) PROVE ToldOK'
  <2>1. UNCHANGED <<vars, relay>> /\ told' = [told EXCEPT ![r] = "threw"]
    BY <1>7 DEF ConnectionBreaks, Tell
  <2>2. QED
    BY <2>1, Telling
<1>8. QED
  BY <1>1, <1>2, <1>3, <1>4, <1>5, <1>6, <1>7, PathSteps DEF Click, ProverSettles, Post

-----------------------------------------------------------------------------
(* The theorems *)

\* The parts of the invariant hold in every reachable state of the path.
THEOREM PathInvHolds == PathSpec => []PathInv
<1>1. PathInit => PathInv
  <2> SUFFICES ASSUME PathInit PROVE PathInv
    OBVIOUS
  <2>1. Init
    BY DEF PathInit
  <2>2. IndInv
    BY <2>1, InitIndInv
  <2>3. ServedWereAdmitted /\ RefusedLeavesNoTrace
    BY <2>1 DEF Init, ServedWereAdmitted, RefusedLeavesNoTrace, InService, Working
  <2>4. ToldOK
    <3>1. \A r \in Requests : told[r] = None
      BY DEF PathInit
    <3>2. None \notin {"accepted", "duplicate"}
      BY NoneAssumption DEF Statuses
    <3>3. QED
      BY <3>1, <3>2 DEF PathInit, ToldOK
  <2>5. QED
    BY <2>2, <2>3, <2>4 DEF PathInv
<1>2. PathInv /\ [PathNext]_allVars => PathInv'
  BY IndInvKept, ServedStep, TraceStep, ToldStep DEF PathInv
<1>3. QED
  BY <1>1, <1>2, PTL DEF PathSpec

\* Over a connection that breaks and a server that restarts, a caller of the adapter is told
\* accepted or duplicate only of a ballot that is on the ledger, and no entry of the store
\* is of a request that the validation refused (relayAdapter.ts, requestValidation.ts).
THEOREM CallersAreToldTheTruth == PathSpec => []ToldTruth
<1>1. PathInv => ToldTruth
  BY DEF PathInv, ToldOK, ToldTruth
<1>2. QED
  BY <1>1, PathInvHolds, PTL

-----------------------------------------------------------------------------
(* What an admitted cast's signals are *)

\* What was posted for a cast is not taken for a reveal, and what was admitted is valid.
BodyInv ==
    /\ admittedAt \in [Requests -> Times \cup {None}]
    /\ body \in [Requests -> [action : {"cast", "reveal", "none"}, signal : Wire,
                              complete : BOOLEAN] \cup {None}]
    /\ \A r \in Requests :
        /\ KindOf[r] = "cast" /\ body[r] # None => body[r].action # "reveal"
        /\ admittedAt[r] # None => body[r] # None /\ Valid(body[r])

\* Nothing is posted twice for one request, and only what is valid is served.
LEMMA BodyStep ==
    ASSUME IndInv, BodyInv, [PathNext]_allVars
    PROVE  BodyInv'
<1>1. ASSUME body' = body, admittedAt' = admittedAt PROVE BodyInv'
  BY <1>1 DEF BodyInv
<1>2. ASSUME NEW r \in Requests, Serve(r) PROVE BodyInv'
  <2>1. body' = body /\ body[r] # None /\ Valid(body[r])
    BY <1>2 DEF Serve, Posted, pathVars
  <2>2. \/ admittedAt' = admittedAt
        \/ admittedAt' = [admittedAt EXCEPT ![r] = clock]
    BY <1>2 DEF Serve, SubmitRateLimited, SubmitInFlight, SubmitReplay, SubmitFresh, Admit,
                Verified, Simulated, LedgerApplies, Finish
  <2>3. clock \in Times
    BY DEF IndInv, ClockOK
  <2>4. QED
    BY <2>1, <2>2, <2>3 DEF BodyInv
<1>3. ASSUME NEW r \in Requests, NEW b, body[r] = None, body' = [body EXCEPT ![r] = b],
             b \in [action : {"cast", "reveal", "none"}, signal : Wire, complete : BOOLEAN],
             KindOf[r] = "cast" => b.action # "reveal", admittedAt' = admittedAt
      PROVE  BodyInv'
  BY <1>3 DEF BodyInv
<1>4. ASSUME NEW r \in Requests, NEW signal \in Wire, ProverSettles(r, signal) PROVE BodyInv'
  <2>1. admittedAt' = admittedAt
    BY <1>4 DEF ProverSettles, vars
  <2>2. CASE body' = body
    BY <1>1, <2>1, <2>2
  <2>3. CASE body[r] = None /\ body' = [body EXCEPT ![r] = Body("none", signal, TRUE)]
    BY <1>3, <2>1, <2>3 DEF Body
  <2>4. QED
    BY <1>4, <2>2, <2>3 DEF ProverSettles
<1>5. ASSUME NEW r \in Requests, NEW signal \in Wire, NEW complete \in BOOLEAN,
             Post(r, signal, complete)
      PROVE  BodyInv'
  <2>1. admittedAt' = admittedAt /\ body[r] = None
    BY <1>5 DEF Post, vars
  <2>2. KindOf[r] \in {"cast", "reveal"}
    BY RelayerAssumption
  <2>3. PICK action \in {"cast", "reveal", "none"} :
            /\ KindOf[r] = "cast" => action # "reveal"
            /\ body' = [body EXCEPT ![r] = Body(action, signal, complete)]
    BY <1>5, <2>2, VoterPathAssumption DEF Post
  <2>4. QED
    BY <1>3, <2>1, <2>3 DEF Body
<1>6. (Tick \/ Crash) => admittedAt' = admittedAt
  BY DEF Tick, Crash
<1>7. ASSUME UNCHANGED vars, Click \/ Reload \/ \E r \in Requests :
                 MockAnswers(r) \/ AnswerArrives(r) \/ ConnectionBreaks(r)
      PROVE  BodyInv'
  BY <1>1, <1>7 DEF Click, Reload, MockAnswers, AnswerArrives, ConnectionBreaks, Tell, vars
<1>8. ASSUME NEW r \in Requests, Refuse(r) PROVE BodyInv'
  BY <1>1, <1>8 DEF Refuse, pathVars
<1>9. (Tick \/ Crash) /\ UNCHANGED pathVars => BodyInv'
  BY <1>1, <1>6 DEF pathVars
<1>10. UNCHANGED allVars => BodyInv'
  BY <1>1 DEF allVars, vars, pathVars
<1>11. Click \/ Reload => UNCHANGED vars
  BY DEF Click, Reload
<1>12. \A r \in Requests : MockAnswers(r) \/ AnswerArrives(r) \/ ConnectionBreaks(r) => UNCHANGED vars
  BY DEF MockAnswers, AnswerArrives, ConnectionBreaks, Tell
<1>13. QED
  BY <1>2, <1>4, <1>5, <1>7, <1>8, <1>9, <1>10, <1>11, <1>12 DEF PathNext

\* So it is in every reachable state.
LEMMA BodyInvHolds == PathSpec => []BodyInv
<1>1. PathInit => BodyInv
  <2>1. PathInit => IndInv
    BY InitIndInv DEF PathInit
  <2>2. QED
    BY <2>1 DEF PathInit, Init, BodyInv
<1>2. IndInv /\ BodyInv /\ [PathNext]_allVars => BodyInv'
  BY BodyStep
<1>3. PathInv => IndInv
  BY DEF PathInv
<1>4. QED
  BY <1>1, <1>2, <1>3, PathInvHolds, PTL DEF PathSpec

\* A cast that passed the relayer's validation, whoever wrote its signals, has signals that
\* the encoder of the contract call and the evidence replay take, for the number that the
\* relayer has read (requestValidation.ts, sorobanEncoding.ts, replay-e0.js): in any field,
\* for strings of any length.
THEOREM AdmittedCastsAreReadable ==
    PathSpec => [](\A r \in Requests :
        KindOf[r] = "cast" /\ admittedAt[r] # None => ReadByAll(body[r].signal))
<1>1. BodyInv => \A r \in Requests :
        KindOf[r] = "cast" /\ admittedAt[r] # None => ReadByAll(body[r].signal)
  <2> SUFFICES ASSUME BodyInv, NEW r \in Requests, KindOf[r] = "cast", admittedAt[r] # None
               PROVE  ReadByAll(body[r].signal)
    OBVIOUS
  <2>1. body[r].signal \in Strings
    BY VoterPathAssumption DEF BodyInv
  <2>2. ParseCanonicalFrElement(body[r].signal) # Refused
    BY DEF BodyInv, Valid
  <2>3. QED
    BY <2>1, <2>2, AllRead
<1>2. QED
  BY <1>1, BodyInvHolds, PTL

\* The browser, the relayer, the protocol package, the evidence replay and the credential
\* crate agree about the formats that pass between them, and whatever a cast that the relayer
\* has admitted carries as its signals can be encoded and replayed, whoever wrote it.
THEOREM FormatsHoldTogether == PathSpec => []FormatsAgree
<1> DEFINE AdmittedRead == \A r \in Requests :
        KindOf[r] = "cast" /\ admittedAt[r] # None => ReadByAll(body[r].signal)
<1>1. BodyInv => \A r \in Requests : admittedAt[r] # None => body[r].signal \in Strings
  BY VoterPathAssumption DEF BodyInv
<1>2. BodyInv /\ AdmittedRead => FormatsAgree
  <2> SUFFICES ASSUME BodyInv, AdmittedRead PROVE FormatsAgree
    OBVIOUS
  <2>1. ASSUME NEW r \in Requests, KindOf[r] = "cast", admittedAt[r] # None
        PROVE  /\ EncodePublicSignal(body[r].signal) # Refused
               /\ FrDecimalToHex32(body[r].signal) # Refused
    <3> DEFINE s == body[r].signal
    <3>1. s \in Strings /\ ReadByAll(s)
      BY <1>1, <2>1
    <3> HIDE DEF s
    <3>2. Readable(s)
      BY <3>1, ReadersTake DEF ReadByAll
    <3>3. EncodePublicSignal(s) # Refused /\ FrDecimalToHex32(s) # Refused
      BY <3>1, <3>2, Encodings
    <3>4. QED
      BY <3>3 DEF s
  <2>2. QED
    BY <2>1, ReadersOfAFieldAgree, DerivationsOfTheScopeAgree DEF FormatsAgree
<1>3. PathSpec => []BodyInv
  BY BodyInvHolds
<1>4. PathSpec => []AdmittedRead
  BY AdmittedCastsAreReadable
<1>5. QED
  BY <1>2, <1>3, <1>4, PTL

=============================================================================
