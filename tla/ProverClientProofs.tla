------------------------- MODULE ProverClientProofs -------------------------
(***************************************************************************)
(* No promise of the prover client is forgotten and none is settled with   *)
(* the work of another job, for any number of jobs and of errors.          *)
(***************************************************************************)
EXTENDS ProverClient, TLAPS, SequenceTheorems

USE ProverClientAssumption DEF ProverClientAssumption

\* A new client has started no job.
LEMMA InitInductive == Init => IndInv
  <1> SUFFICES ASSUME Init PROVE IndInv
    OBVIOUS
  <1>1. TypeOK
    <2>1. messages \in Seq([type : {"progress", "result"}, job : Jobs])
      BY DEF Init
    <2>2. /\ settled \in [Jobs -> Outcomes \cup {None}]
          /\ heard \in [Jobs -> SUBSET Jobs]
      BY DEF Init
    <2>3. /\ 0 \in 0 .. MaxJobs /\ 0 \in 0 .. MaxBreaks
      OBVIOUS
    <2> QED
      BY <2>1, <2>2, <2>3 DEF Init, TypeOK
  <1>2. \A j \in Jobs : settled[j] = None /\ heard[j] = {}
    BY DEF Init
  <1> QED
    BY <1>1, <1>2 DEF Init, IndInv, NoPromiseForgotten, OwnAnswers

\* prove() takes a fresh job number, and only when no promise is pending.
LEMMA ProveStep == IndInv /\ Prove => IndInv'
  <1> SUFFICES ASSUME IndInv, Prove PROVE IndInv'
    OBVIOUS
  <1>1. TypeOK'
    BY DEF IndInv, TypeOK, Prove, Jobs
  <1>2. inflight' = jobIdCounter + 1 /\ jobIdCounter' = jobIdCounter + 1
    BY DEF Prove
  <1>3. settled[jobIdCounter + 1] = None
    BY DEF IndInv, TypeOK, Prove, Jobs
  <1>4. NoPromiseForgotten'
    BY <1>2, <1>3 DEF IndInv, TypeOK, NoPromiseForgotten, Prove, Jobs
  <1>5. OwnAnswers'
    BY DEF IndInv, OwnAnswers, Prove
  <1> QED
    BY <1>1, <1>2, <1>4, <1>5 DEF IndInv, TypeOK, Prove, Jobs

\* Settling the promise in flight, with an outcome that is its own.
LEMMA SettleStep ==
  ASSUME IndInv, inflight # None, NEW outcome \in Outcomes,
         outcome.kind = "result" => outcome.job = inflight,
         Settle(outcome), UNCHANGED <<jobIdCounter, heard>>
  PROVE  /\ inflight' \in Jobs \cup {None}
         /\ settled' \in [Jobs -> Outcomes \cup {None}]
         /\ inflight' # None => inflight' <= jobIdCounter'
         /\ \A j \in Jobs : j > jobIdCounter' => settled'[j] = None
         /\ NoPromiseForgotten'
         /\ OwnAnswers'
  <1>1. inflight \in Jobs /\ inflight <= jobIdCounter /\ jobIdCounter \in 0 .. MaxJobs
    BY DEF IndInv, TypeOK
  <1>2. inflight' = None /\ jobIdCounter' = jobIdCounter /\ heard' = heard
    BY DEF Settle
  <1>3. settled \in [Jobs -> Outcomes \cup {None}]
    BY DEF IndInv, TypeOK
  <1>4. settled' = [settled EXCEPT ![inflight] = outcome]
    BY DEF Settle
  <1>5. settled' \in [Jobs -> Outcomes \cup {None}]
    BY <1>3, <1>4
  <1>6. \A j \in Jobs : settled'[j] = IF j = inflight THEN outcome ELSE settled[j]
    BY <1>3, <1>4
  <1>7. \A j \in Jobs : j > jobIdCounter' => settled'[j] = None
    BY <1>1, <1>2, <1>6 DEF IndInv, Jobs
  <1>8. NoPromiseForgotten'
    BY <1>1, <1>2, <1>6 DEF IndInv, NoPromiseForgotten, Jobs
  <1>9. OwnAnswers'
    BY <1>2, <1>6 DEF IndInv, OwnAnswers
  <1> QED
    BY <1>2, <1>5, <1>7, <1>8, <1>9

\* cancel(), terminate() and an error event settle the promise in flight, if there
\* is one, with an outcome that carries no proof.
LEMMA NoProofStep ==
  ASSUME IndInv, NEW kind \in {"cancelled", "terminated", "error"},
         IF inflight = None THEN UNCHANGED <<inflight, settled>>
                            ELSE Settle([kind |-> kind]),
         UNCHANGED <<jobIdCounter, heard>>
  PROVE  /\ inflight' \in Jobs \cup {None}
         /\ settled' \in [Jobs -> Outcomes \cup {None}]
         /\ inflight' # None => inflight' <= jobIdCounter'
         /\ \A j \in Jobs : j > jobIdCounter' => settled'[j] = None
         /\ NoPromiseForgotten'
         /\ OwnAnswers'
  <1>1. CASE inflight = None
    BY <1>1 DEF IndInv, TypeOK, NoPromiseForgotten, OwnAnswers
  <1>2. CASE inflight # None
    <2>1. [kind |-> kind] \in Outcomes
      BY DEF Outcomes
    <2>2. [kind |-> kind].kind # "result"
      OBVIOUS
    <2> QED
      BY <1>2, <2>1, <2>2, SettleStep
  <1> QED
    BY <1>1, <1>2

\* A message that has arrived settles the promise of its own job or none.
LEMMA DeliverMessageStep == IndInv /\ DeliverMessage => IndInv'
  <1> SUFFICES ASSUME IndInv, DeliverMessage PROVE IndInv'
    OBVIOUS
  <1> DEFINE msg == Head(messages)
  <1>1. msg \in [type : {"progress", "result"}, job : Jobs]
        /\ messages' \in Seq([type : {"progress", "result"}, job : Jobs])
    BY HeadTailProperties DEF IndInv, TypeOK, DeliverMessage
  <1>2. CASE inflight = None \/ msg.job # inflight
    <2>1. UNCHANGED <<inflight, settled, heard, jobIdCounter, terminated,
                      worker, atWork, errorEvents, breaks>>
      BY <1>2 DEF DeliverMessage, clientVars
    <2> QED
      BY <1>1, <2>1 DEF IndInv, TypeOK, NoPromiseForgotten, OwnAnswers
  <1>3. CASE ~ (inflight = None \/ msg.job # inflight) /\ msg.type = "progress"
    <2>1. heard' = [heard EXCEPT ![inflight] = @ \cup {msg.job}]
          /\ UNCHANGED <<inflight, settled>>
      BY <1>3 DEF DeliverMessage
    <2>2. heard' \in [Jobs -> SUBSET Jobs] /\ OwnAnswers'
      BY <1>1, <1>3, <2>1 DEF IndInv, TypeOK, OwnAnswers
    <2> QED
      BY <1>1, <2>1, <2>2 DEF IndInv, TypeOK, NoPromiseForgotten, DeliverMessage, clientVars
  <1>4. CASE ~ (inflight = None \/ msg.job # inflight) /\ msg.type # "progress"
    <2>1. Settle([kind |-> "result", job |-> msg.job]) /\ UNCHANGED heard
      BY <1>4 DEF DeliverMessage
    <2>2. [kind |-> "result", job |-> msg.job] \in Outcomes
      BY <1>1 DEF Outcomes
    <2>3. UNCHANGED <<jobIdCounter, heard>>
      BY <2>1 DEF DeliverMessage, clientVars
    <2>4. [kind |-> "result", job |-> msg.job].job = inflight
      BY <1>4
    <2>5. /\ inflight' \in Jobs \cup {None}
          /\ settled' \in [Jobs -> Outcomes \cup {None}]
          /\ inflight' # None => inflight' <= jobIdCounter'
          /\ \A j \in Jobs : j > jobIdCounter' => settled'[j] = None
          /\ NoPromiseForgotten'
          /\ OwnAnswers'
      BY <1>4, <2>1, <2>2, <2>3, <2>4, SettleStep
    <2> QED
      BY <1>1, <2>3, <2>5 DEF IndInv, TypeOK, DeliverMessage, clientVars
  <1> QED
    BY <1>2, <1>3, <1>4

\* The worker's own steps change neither promises nor callbacks.
LEMMA WorkerStep ==
  IndInv /\ ((\E j \in Jobs : PostProgress(j) \/ PostResult(j)) \/ Break \/ UNCHANGED vars)
    => IndInv'
  <1> SUFFICES ASSUME IndInv,
                      (\E j \in Jobs : PostProgress(j) \/ PostResult(j)) \/ Break \/ UNCHANGED vars
               PROVE IndInv'
    OBVIOUS
  <1>1. ASSUME NEW j \in Jobs, PostProgress(j) PROVE IndInv'
    BY <1>1 DEF IndInv, TypeOK, NoPromiseForgotten, OwnAnswers, PostProgress, clientVars
  <1>2. ASSUME NEW j \in Jobs, PostResult(j) PROVE IndInv'
    BY <1>2 DEF IndInv, TypeOK, NoPromiseForgotten, OwnAnswers, PostResult, clientVars
  <1>3. CASE Break
    BY <1>3 DEF IndInv, TypeOK, NoPromiseForgotten, OwnAnswers, Break, clientVars
  <1>4. CASE UNCHANGED vars
    BY <1>4 DEF IndInv, TypeOK, NoPromiseForgotten, OwnAnswers, vars
  <1> QED
    BY <1>1, <1>2, <1>3, <1>4

\* Every step of the client or a worker preserves the inductive invariant.
LEMMA NextInductive == IndInv /\ [Next]_vars => IndInv'
  <1> SUFFICES ASSUME IndInv, [Next]_vars PROVE IndInv'
    OBVIOUS
  <1>1. CASE Prove
    BY <1>1, ProveStep
  <1>2. CASE Cancel
    <2>1. UNCHANGED <<jobIdCounter, heard>>
          /\ (IF inflight = None THEN UNCHANGED <<inflight, settled>>
                                 ELSE Settle([kind |-> "cancelled"]))
      BY <1>2 DEF Cancel, clientVars
    <2>2. /\ inflight' \in Jobs \cup {None}
          /\ settled' \in [Jobs -> Outcomes \cup {None}]
          /\ inflight' # None => inflight' <= jobIdCounter'
          /\ \A j \in Jobs : j > jobIdCounter' => settled'[j] = None
          /\ NoPromiseForgotten'
          /\ OwnAnswers'
      BY <2>1, NoProofStep
    <2> QED
      BY <1>2, <2>2 DEF IndInv, TypeOK, Cancel, StopWorker, clientVars
  <1>3. CASE Terminate
    <2>1. UNCHANGED <<jobIdCounter, heard>>
          /\ (IF inflight = None THEN UNCHANGED <<inflight, settled>>
                                 ELSE Settle([kind |-> "terminated"]))
      BY <1>3 DEF Terminate
    <2>2. /\ inflight' \in Jobs \cup {None}
          /\ settled' \in [Jobs -> Outcomes \cup {None}]
          /\ inflight' # None => inflight' <= jobIdCounter'
          /\ \A j \in Jobs : j > jobIdCounter' => settled'[j] = None
          /\ NoPromiseForgotten'
          /\ OwnAnswers'
      BY <2>1, NoProofStep
    <2> QED
      BY <1>3, <2>2 DEF IndInv, TypeOK, Terminate, StopWorker
  <1>4. CASE (\E j \in Jobs : PostProgress(j) \/ PostResult(j)) \/ Break \/ UNCHANGED vars
    BY <1>4, WorkerStep
  <1>5. CASE DeliverMessage
    BY <1>5, DeliverMessageStep
  <1>6. CASE DeliverError
    <2>1. UNCHANGED <<jobIdCounter, heard>>
          /\ (IF inflight = None THEN UNCHANGED <<inflight, settled>>
                                 ELSE Settle([kind |-> "error"]))
      BY <1>6 DEF DeliverError, clientVars
    <2>2. /\ inflight' \in Jobs \cup {None}
          /\ settled' \in [Jobs -> Outcomes \cup {None}]
          /\ inflight' # None => inflight' <= jobIdCounter'
          /\ \A j \in Jobs : j > jobIdCounter' => settled'[j] = None
          /\ NoPromiseForgotten'
          /\ OwnAnswers'
      BY <2>1, NoProofStep
    <2> QED
      BY <1>6, <2>2 DEF IndInv, TypeOK, DeliverError, clientVars, workerVars
  <1> QED
    BY <1>1, <1>2, <1>3, <1>4, <1>5, <1>6 DEF Next

\* The client never forgets a promise of prove() and settles each at most once.
THEOREM PromisesKept == Spec => []NoPromiseForgotten
  <1>1. IndInv => NoPromiseForgotten
    BY DEF IndInv
  <1> QED
    BY <1>1, InitInductive, NextInductive, PTL DEF Spec

\* Each promise is fulfilled, and each progress callback called, for its own job only.
THEOREM AnswersAreOwn == Spec => []OwnAnswers
  <1>1. IndInv => OwnAnswers
    BY DEF IndInv
  <1> QED
    BY <1>1, InitInductive, NextInductive, PTL DEF Spec

=============================================================================
