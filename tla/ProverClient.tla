---------------------------- MODULE ProverClient ----------------------------
(***************************************************************************)
(* The page's side of the proving worker, createWorkerProverClient in      *)
(* apps/web/src/worker/workerBoundary.ts, with the worker behind it,       *)
(* proverWorker.ts.                                                        *)
(*                                                                         *)
(* The page and the worker are two event loops.  Messages of a worker      *)
(* arrive in the order they were posted; terminating it stops its code and *)
(* drops the messages that have not arrived.  An error event is a task of  *)
(* its own: it can arrive before messages posted earlier, and after the    *)
(* worker was terminated.  A worker that reports an error may go on with   *)
(* its jobs; one whose script could not be loaded never answers.           *)
(***************************************************************************)
EXTENDS Naturals, Sequences

CONSTANTS
    MaxJobs,            \* bound on the calls of prove()
    MaxBreaks,          \* bound on the errors of workers
    None

Jobs == 1 .. MaxJobs
Outcomes == [kind : {"result"}, job : Jobs] \cup [kind : {"cancelled", "terminated", "error"}]

ASSUME ProverClientAssumption ==
    /\ MaxJobs \in Nat \ {0}
    /\ MaxBreaks \in Nat
    /\ None \notin Nat
    /\ None \notin Outcomes

VARIABLES
    jobIdCounter,
    inflight,       \* currentJobId, the job whose promise the client can settle
    terminated,
    worker,         \* is there a worker: "none", "running", or "dead"
    atWork,         \* jobs posted to this worker that it has not answered
    messages,       \* messages of this worker that have not arrived
    errorEvents,    \* error events that have not arrived, of any worker
    breaks,         \* errors of workers so far
    settled,        \* how the promise of each job was settled
    heard           \* the jobs whose progress each job's onProgress was called with

vars == <<jobIdCounter, inflight, terminated, worker, atWork, messages,
          errorEvents, breaks, settled, heard>>

clientVars == <<jobIdCounter, terminated>>
workerVars == <<worker, atWork, messages>>

Init ==
    /\ jobIdCounter = 0
    /\ inflight = None
    /\ terminated = FALSE
    /\ worker = "none"
    /\ atWork = {}
    /\ messages = <<>>
    /\ errorEvents = 0
    /\ breaks = 0
    /\ settled = [j \in Jobs |-> None]
    /\ heard = [j \in Jobs |-> {}]

\* inflight.resolve or inflight.reject, and then inflight = currentJobId = null.
Settle(outcome) ==
    /\ settled' = [settled EXCEPT ![inflight] = outcome]
    /\ inflight' = None

-----------------------------------------------------------------------------
(* Calls of the page.  prove() of a terminated or busy client only rejects. *)

\* Mutant: prove() does not check that the client is busy.
Prove_WhileBusy ==
    /\ jobIdCounter < MaxJobs
    /\ ~ terminated
    /\ jobIdCounter' = jobIdCounter + 1
    /\ inflight' = jobIdCounter + 1
    /\ worker' = IF worker = "none" THEN "running" ELSE worker
    /\ atWork' = atWork \cup {jobIdCounter + 1}
    /\ UNCHANGED <<terminated, messages, errorEvents, breaks, settled, heard>>

Prove ==
    /\ jobIdCounter < MaxJobs
    /\ ~ terminated
    /\ inflight = None
    /\ jobIdCounter' = jobIdCounter + 1
    /\ inflight' = jobIdCounter + 1
    /\ worker' = IF worker = "none" THEN "running" ELSE worker
    /\ atWork' = atWork \cup {jobIdCounter + 1}
    /\ UNCHANGED <<terminated, messages, errorEvents, breaks, settled, heard>>

StopWorker ==
    /\ worker' = "none"
    /\ atWork' = {}
    /\ messages' = <<>>

\* Mutant: cancel() stops the worker and leaves the promise pending.
Cancel_KeepsInflight ==
    /\ worker # "none"
    /\ StopWorker
    /\ UNCHANGED <<clientVars, inflight, settled, errorEvents, breaks, heard>>

Cancel ==
    /\ worker # "none"
    /\ StopWorker
    /\ IF inflight = None THEN UNCHANGED <<inflight, settled>>
                          ELSE Settle([kind |-> "cancelled"])
    /\ UNCHANGED <<clientVars, errorEvents, breaks, heard>>

Terminate ==
    /\ ~ terminated
    /\ terminated' = TRUE
    /\ StopWorker
    /\ IF inflight = None THEN UNCHANGED <<inflight, settled>>
                          ELSE Settle([kind |-> "terminated"])
    /\ UNCHANGED <<jobIdCounter, errorEvents, breaks, heard>>

-----------------------------------------------------------------------------
(* The worker: a message handler per job, which may run side by side *)

\* Each job reports progress, here one message at a time, and then posts one
\* result, a proof or a reason why there is none.
PostProgress(j) ==
    /\ worker = "running"
    /\ j \in atWork
    /\ \A i \in DOMAIN messages : messages[i].job # j
    /\ messages' = Append(messages, [type |-> "progress", job |-> j])
    /\ UNCHANGED <<clientVars, inflight, worker, atWork, errorEvents, breaks, settled, heard>>

PostResult(j) ==
    /\ worker = "running"
    /\ j \in atWork
    /\ messages' = Append(messages, [type |-> "result", job |-> j])
    /\ atWork' = atWork \ {j}
    /\ UNCHANGED <<clientVars, inflight, worker, errorEvents, breaks, settled, heard>>

\* An uncaught error: the worker goes on, or is of no use any more.  The client
\* keeps it and posts the next job to it in both cases.
Break ==
    /\ worker = "running"
    /\ breaks < MaxBreaks
    /\ breaks' = breaks + 1
    /\ errorEvents' = errorEvents + 1
    /\ worker' \in {"running", "dead"}
    /\ UNCHANGED <<clientVars, inflight, atWork, messages, settled, heard>>

-----------------------------------------------------------------------------
(* The two event handlers of the page *)

\* Mutant: messages are taken to be of the current job.
DeliverMessage_AnyJob ==
    /\ messages # <<>>
    /\ messages' = Tail(messages)
    /\ LET msg == Head(messages)
       IN  IF inflight = None THEN UNCHANGED <<inflight, settled, heard>>
           ELSE IF msg.type = "progress"
           THEN /\ heard' = [heard EXCEPT ![inflight] = @ \cup {msg.job}]
                /\ UNCHANGED <<inflight, settled>>
           ELSE Settle([kind |-> "result", job |-> msg.job]) /\ UNCHANGED heard
    /\ UNCHANGED <<clientVars, worker, atWork, errorEvents, breaks>>

DeliverMessage ==
    /\ messages # <<>>
    /\ messages' = Tail(messages)
    /\ LET msg == Head(messages)
       IN  IF inflight = None \/ msg.job # inflight
           THEN UNCHANGED <<inflight, settled, heard>>
           ELSE IF msg.type = "progress"
           THEN /\ heard' = [heard EXCEPT ![inflight] = @ \cup {msg.job}]
                /\ UNCHANGED <<inflight, settled>>
           ELSE Settle([kind |-> "result", job |-> msg.job]) /\ UNCHANGED heard
    /\ UNCHANGED <<clientVars, worker, atWork, errorEvents, breaks>>

\* The error handler does not look at the worker or the job: it rejects whatever
\* is in flight.
DeliverError ==
    /\ errorEvents > 0
    /\ errorEvents' = errorEvents - 1
    /\ IF inflight = None THEN UNCHANGED <<inflight, settled>>
                          ELSE Settle([kind |-> "error"])
    /\ UNCHANGED <<clientVars, workerVars, breaks, heard>>

Next ==
    \/ Prove
    \/ Cancel
    \/ Terminate
    \/ \E j \in Jobs : PostProgress(j) \/ PostResult(j)
    \/ Break
    \/ DeliverMessage
    \/ DeliverError

Spec == Init /\ [][Next]_vars

\* A worker that runs finishes each of its jobs, and the page's event loop
\* delivers what arrives.  Nothing is assumed of the page's calls.
FairSpec ==
    /\ Spec
    /\ \A j \in Jobs : WF_vars(PostResult(j))
    /\ WF_vars(DeliverMessage)
    /\ WF_vars(DeliverError)

-----------------------------------------------------------------------------
(* Properties *)

TypeOK ==
    /\ jobIdCounter \in 0 .. MaxJobs
    /\ inflight \in Jobs \cup {None}
    /\ terminated \in BOOLEAN
    /\ worker \in {"none", "running", "dead"}
    /\ atWork \in SUBSET Jobs
    /\ messages \in Seq([type : {"progress", "result"}, job : Jobs])
    /\ errorEvents \in 0 .. MaxBreaks
    /\ breaks \in 0 .. MaxBreaks
    /\ settled \in [Jobs -> Outcomes \cup {None}]
    /\ heard \in [Jobs -> SUBSET Jobs]

\* Every promise that prove() returned is settled or is the one in flight, whatever
\* the page called and the workers did in between: none is forgotten when a
\* worker is stopped, breaks or is replaced, and none is settled twice.
NoPromiseForgotten ==
    \A j \in 1 .. jobIdCounter : (settled[j] = None) <=> (inflight = j)

\* A promise is fulfilled with the proof of its own job, and its progress is its own,
\* also while the worker is still busy with a job that an error event ended.
OwnAnswers ==
    \A j \in Jobs :
        /\ heard[j] \subseteq {j}
        /\ settled[j] # None /\ settled[j].kind = "result" => settled[j].job = j

\* The inductive invariant behind the two: a job that has not been started has no
\* promise yet, and only a started one is in flight.
IndInv ==
    /\ TypeOK
    /\ errorEvents <= breaks
    /\ inflight # None => inflight <= jobIdCounter
    /\ \A j \in Jobs : j > jobIdCounter => settled[j] = None
    /\ NoPromiseForgotten
    /\ OwnAnswers

\* Every promise is settled, unless the worker can no longer answer: then only
\* cancel() or terminate() ends the wait.
EveryJobSettles ==
    \A j \in Jobs : inflight = j ~> settled[j] # None \/ worker = "dead"

=============================================================================
