----------------------------- MODULE VoterPath ------------------------------
(***************************************************************************)
(* A ballot's way to the relayer: the voter page (voterApp.ts) with its    *)
(* prover and its relay adapter (relayAdapter.ts), other callers of the    *)
(* adapter and of the relayer, the connection between them, and the shape  *)
(* validation in front of the route (requestValidation.ts).  From there on *)
(* a request is one of Relayer's.                                          *)
(***************************************************************************)
EXTENDS Relayer, FieldFormats

CONSTANTS SourceOf,     \* who makes a request: "page" and "reveal" through the adapter, "http"
          Wire          \* the strings that callers put into a signal

ASSUME VoterPathAssumption ==
    /\ SourceOf \in [Requests -> {"page", "reveal", "http"}]
    /\ Wire \subseteq Strings
    /\ \A r \in Requests : /\ SourceOf[r] = "page" => KindOf[r] = "cast"
                           /\ SourceOf[r] = "reveal" => KindOf[r] = "reveal"

VARIABLES
    relay,      \* the relay adapter the page was given: "mock" or "http"
    page,       \* the page's status, what its handler waits for, and its last request
    body,       \* what was posted for each request
    told        \* what the adapter answered its caller

pathVars == <<relay, page, body, told>>
allVars == <<vars, pathVars>>

Busy == page.status \in {"proving", "submitting"}
NoPage == [status |-> "idle", waits |-> "none", request |-> None]

PathInit ==
    /\ Init
    /\ relay \in {"mock", "http"}
    /\ page = NoPage
    /\ body = [r \in Requests |-> None]
    /\ told = [r \in Requests |-> None]

-----------------------------------------------------------------------------
(* Request validation *)

\* Six signals, all but one of which are canonical; `complete' says that nothing is wrong
\* with the other fields and that the body could be read and parsed.
Body(action, signal, complete) == [action |-> action, signal |-> signal, complete |-> complete]

\* validateCastRequestShape and parsePublicSignals; validateRevealRequestShape.
Valid(b) ==
    \/ b.action = "cast" /\ b.complete /\ ParseCanonicalFrElement(b.signal) # Refused
    \/ b.action = "reveal" /\ b.complete

Posted(r) == body[r] # None /\ (SourceOf[r] = "page" => relay = "http")

\* Mutant: the idempotency key is recorded before the body is validated.
Refuse_AfterBegin(r) ==
    /\ phase[r] = "new" /\ Posted(r) /\ ~ Valid(body[r])
    /\ entries' = [LiveEntries EXCEPT ![KeyOf[r]] = InFlightEntry]
    /\ Reply(r, "error", FALSE)
    /\ phase' = [phase EXCEPT ![r] = "answered"]
    /\ UNCHANGED <<clock, overstayed, crashes, limiterVars, lane, active, ledgerVars, admittedAt,
                   pathVars>>

\* An HTTP error before the limiter and the store are asked.
Refuse(r) ==
    /\ phase[r] = "new" /\ Posted(r) /\ ~ Valid(body[r])
    /\ Reply(r, "error", FALSE)
    /\ phase' = [phase EXCEPT ![r] = "answered"]
    /\ UNCHANGED <<clock, overstayed, crashes, limiterVars, entries, lane, active, ledgerVars,
                   admittedAt, pathVars>>

Serve(r) ==
    /\ Posted(r) /\ Valid(body[r])
    /\ \/ SubmitRateLimited(r) \/ SubmitInFlight(r) \/ SubmitReplay(r) \/ SubmitFresh(r)
       \/ Verified(r) \/ Simulated(r) \/ LedgerApplies(r) \/ Finish(r)
    /\ UNCHANGED pathVars

-----------------------------------------------------------------------------
(* The voter page *)

\* The button is disabled while the page is busy; each click is a request of its own,
\* with an idempotency key of its own.
Click ==
    /\ ~ Busy
    /\ page' = [status |-> "proving", waits |-> "prover", request |-> None]
    /\ UNCHANGED <<vars, relay, body, told>>

\* The prover answers with a proof, with ok = false, or rejects its promise, which
\* nothing catches.
ProverSettles(r, signal) ==
    /\ page.waits = "prover"
    /\ \/ /\ SourceOf[r] = "page" /\ body[r] = None
          /\ body' = [body EXCEPT ![r] = Body("none", signal, TRUE)]
          /\ page' = [status |-> "submitting", waits |-> "relay", request |-> r]
       \/ page' = [page EXCEPT !.status = "error", !.waits = "none"] /\ UNCHANGED body
       \/ page' = [page EXCEPT !.waits = "nothing"] /\ UNCHANGED body
    /\ UNCHANGED <<vars, relay, told>>

\* How the page goes on when the adapter tells it of request r.
Show(r, outcome) ==
    page' = IF page.request # r \/ page.waits # "relay" THEN page
            ELSE CASE outcome = "accepted" -> [page EXCEPT !.status = "accepted", !.waits = "none"]
                   [] outcome = "threw" -> [page EXCEPT !.waits = "nothing"]
                   [] OTHER -> [page EXCEPT !.status = "rejected", !.waits = "none"]

Tell(r, outcome) ==
    /\ told[r] = None
    /\ told' = [told EXCEPT ![r] = outcome]
    /\ Show(r, outcome)
    /\ UNCHANGED <<vars, relay, body>>

\* The voter loads the page again; the answer to its last request has nowhere to go.
Reload ==
    /\ page # NoPage
    /\ page' = NoPage
    /\ told' = IF page.waits = "relay" THEN [told EXCEPT ![page.request] = "threw"] ELSE told
    /\ UNCHANGED <<vars, relay, body>>

-----------------------------------------------------------------------------
(* The adapters, and callers other than the page *)

\* MockRelayAdapter: accepted, unless the nullifier is not a canonical decimal.
MockAnswers(r) ==
    /\ relay = "mock" /\ SourceOf[r] = "page" /\ body[r] # None
    /\ Tell(r, IF DecimalFrToHex32(body[r].signal) = Refused THEN "threw" ELSE "accepted")

\* submitReveal adds the action; another client may leave it out.
Post(r, signal, complete) ==
    /\ SourceOf[r] # "page" /\ body[r] = None
    /\ KindOf[r] = "reveal" => signal = <<"1">>        \* it has no signals
    /\ \E action \in IF SourceOf[r] = "reveal" THEN {"reveal"} ELSE {KindOf[r], "none"} :
            body' = [body EXCEPT ![r] = Body(action, signal, complete)]
    /\ UNCHANGED <<vars, relay, page, told>>

\* HttpRelayAdapter: any status but 2xx is a rejection.
AdapterReads(status) == IF status \in Statuses THEN status ELSE "rejected"

UsesAdapter(r) == SourceOf[r] # "http"

AnswerArrives(r) ==
    UsesAdapter(r) /\ answer[r] # None /\ Tell(r, AdapterReads(answer[r].status))

\* The connection breaks, before or after the request got through: fetch rejects.
ConnectionBreaks(r) == UsesAdapter(r) /\ Posted(r) /\ Tell(r, "threw")

PathNext ==
    \/ (Tick \/ Crash) /\ UNCHANGED pathVars
    \/ Click \/ Reload
    \/ \E r \in Requests :
        \/ Refuse(r)
        \/ Serve(r)
        \/ MockAnswers(r)
        \/ AnswerArrives(r)
        \/ ConnectionBreaks(r)
        \/ \E signal \in Wire :
            \/ ProverSettles(r, signal)
            \/ \E complete \in BOOLEAN : Post(r, signal, complete)

PathSpec == PathInit /\ [][PathNext]_allVars

-----------------------------------------------------------------------------

\* A refused request has not taken its idempotency key: an entry of the store is that of
\* a request that passed the validation, so the corrected request can be sent again under
\* the same key and is not answered with a conflict or with a replay.
RefusedLeavesNoTrace ==
    \A k \in Keys : entries[k] # None =>
        \E r \in Requests : KeyOf[r] = k /\ admittedAt[r] # None

\* What callers of the adapter are told is so, over a connection that breaks and a server
\* that restarts: accepted and duplicate mean that the ballot is on the ledger.  The
\* exception is the page over the mock adapter, which is its default.
ToldTruth ==
    /\ \A r \in Requests :
        told[r] \in {"accepted", "duplicate"} /\ ~ (SourceOf[r] = "page" /\ relay = "mock") =>
            BallotOf[r] \in landed
    /\ RefusedLeavesNoTrace

\* The implementations of one format agree: what the browser encodes is what the relayer
\* and the evidence replay read (publicSignals.ts:19-22), and the scope that the protocol
\* package and the fixtures derive is the one the credential crate derives.  So a cast that
\* the relayer has admitted, whoever wrote its signals, can be encoded and replayed.
FormatsAgree ==
    /\ FieldReadersAgree
    /\ ScopeDerivationsAgree
    /\ \A r \in Requests : KindOf[r] = "cast" /\ admittedAt[r] # None =>
            /\ EncodePublicSignal(body[r].signal) # Refused
            /\ FrDecimalToHex32(body[r].signal) # Refused

=============================================================================
