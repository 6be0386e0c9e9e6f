--------------------------- MODULE BrowserProving --------------------------
(***************************************************************************)
(* The proving harness of the web app over the public directory: a page    *)
(* (harness/main.ts) that runs one test at a time, each in a fresh worker  *)
(* (proverWorker.ts) whose adapter (realProvingAdapter.ts) fetches the     *)
(* manifest and the assets one by one, and the two that prove once more.   *)
(* The scripts of SetupPipeline, staging among them, run at any moment.    *)
(***************************************************************************)
EXTENDS SetupPipeline

VARIABLES
    test,       \* the test that runs: its name, the adapter's step, and what it has fetched
    result      \* what the page recorded of the last test, until the next one starts

browserVars == <<test, result>>
vars == <<pipelineVars, browserVars>>

\* recovery-r0 is valid-r0 under the name it gets after a cancel.
TestNames == {"valid-r0", "invalid-witness"}
NoTest == [name |-> "none", step |-> "none", manifest |-> Absent, wasm |-> Absent,
           zkey |-> Absent, vk |-> Absent]
NoResult == [name |-> "none", pass |-> FALSE, proof |-> Absent, manifest |-> Absent]

Init ==
    /\ PipelineInit
    /\ test = NoTest
    /\ result = NoResult

\* pushResult and finish.
Record(name, pass, proof) ==
    /\ result' = [name |-> name, pass |-> pass, proof |-> proof, manifest |-> test.manifest]
    /\ test' = NoTest

\* runTest's .then: whatever the failure was, it passes the invalid test.
Fail == Record(test.name, test.name = "invalid-witness", Absent)

Step(step) == test.step = step /\ UNCHANGED pipelineVars
Fetched(step, field, content) ==
    test' = [test EXCEPT !.step = step, ![field] = content] /\ UNCHANGED result

-----------------------------------------------------------------------------
(* The page *)

\* The buttons are enabled when no test runs.
Click(name) ==
    /\ test = NoTest
    /\ test' = [NoTest EXCEPT !.name = name, !.step = "manifest"]
    /\ result' = NoResult
    /\ UNCHANGED pipelineVars

\* cancel terminates the worker and answers "cancelled", which is recorded as a pass
\* whatever test was running.
Cancel ==
    /\ test # NoTest
    /\ Record("cancel-r0", TRUE, Absent)
    /\ UNCHANGED pipelineVars

-----------------------------------------------------------------------------
(* The worker and its adapter *)

\* validateManifest: the pinned R1CS hash is that of the published circuit.
ManifestValid(m) == m \notin {Absent, Corrupt} /\ m.r1cs = None /\ DOMAIN m.assets = PublicAssets

\* Mutant: the failure is not remembered, and the job waits for an adapter for ever.
InitAdapter_Silent ==
    /\ Step("manifest")
    /\ ManifestValid(public["manifest"])
    /\ Fetched("wasm", "manifest", public["manifest"])

\* initAdapter, and the answer to the job that waits for it.
InitAdapter ==
    /\ Step("manifest")
    /\ IF ManifestValid(public["manifest"])
       THEN Fetched("wasm", "manifest", public["manifest"])
       ELSE Fail

AdapterNext == [wasm |-> "zkey", zkey |-> "vk", vk |-> "proveWasm"]

\* verifyAssetHash twice, then fetchAndVerifyVk, which keeps the key it verified.
VerifyAsset ==
    /\ test.step \in PublicAssets /\ Step(test.step)
    /\ IF public[test.step] = test.manifest.assets[test.step]
       THEN Fetched(AdapterNext[test.step], test.step, public[test.step])
       ELSE Fail

\* fullProve fetches the wasm and the zkey again.
FetchAgain ==
    \/ /\ Step("proveWasm")
       /\ IF public["wasm"] = Absent THEN Fail ELSE Fetched("proveZkey", "wasm", public["wasm"])
    \/ /\ Step("proveZkey")
       /\ IF public["zkey"] = Absent THEN Fail ELSE Fetched("prove", "zkey", public["zkey"])

\* The circuit takes the inputs of the valid test; those of the invalid one have another
\* state root, in the inputs but not in the signals the page expects.
ProofOver(w, luck) ==
    /\ test.wasm # Corrupt /\ test.zkey # Corrupt
    /\ test.name = "invalid-witness" => test.wasm = "stateRoot"
    /\ test.zkey.circuit # test.wasm => luck

\* Mutant: the proof is not verified before it is answered.
Prove_Unverified(luck) ==
    /\ Step("prove")
    /\ IF ProofOver(test.wasm, luck) /\ test.name # "invalid-witness"
       THEN Record(test.name, TRUE, test.zkey)
       ELSE Fail

\* The proof is made, verified under the VK of the session, and its signals are compared
\* with the request's.
Prove(luck) ==
    /\ Step("prove")
    /\ IF /\ ProofOver(test.wasm, luck)
          /\ test.zkey = test.vk
          /\ test.name # "invalid-witness"
       THEN Record(test.name, TRUE, test.zkey)
       ELSE Fail

WorkerNext ==
    \/ InitAdapter
    \/ VerifyAsset
    \/ FetchAgain
    \/ \E luck \in BOOLEAN : Prove(luck)

-----------------------------------------------------------------------------

Next ==
    \/ PipelineNext /\ UNCHANGED browserVars
    \/ \E name \in TestNames : Click(name)
    \/ Cancel
    \/ WorkerNext

Spec == Init /\ [][Next]_vars

\* The server of the page answers every fetch and the browser runs the worker.
FairSpec == Spec /\ WF_vars(WorkerNext)

-----------------------------------------------------------------------------

\* However staging interleaves with a session, a proof that is answered was made with the
\* zkey, and so verifies under the VK, that the manifest the session began with lists,
\* although fullProve fetches the zkey again after its hash was checked
\* (realProvingAdapter.ts:132-166).
AnswerVerifies ==
    result.proof # Absent => /\ result.proof = result.manifest.assets["vk"]
                             /\ result.manifest.r1cs = None

\* Every test ends, with a result or because it is cancelled, so the buttons come back
\* (harness/main.ts, and proverWorker.ts:79-90 when the adapter cannot be made).
TestsEnd == test # NoTest ~> test = NoTest

=============================================================================
