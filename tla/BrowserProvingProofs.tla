------------------------ MODULE BrowserProvingProofs ------------------------
(* Theorems about the scripts that make and stage the proving assets and about *)
(* the harness that proves with them, for any edits of the circuits, any number *)
(* of ceremonies, launches and kills, and any answers of the release server.    *)
EXTENDS BrowserProving, TLAPS

-----------------------------------------------------------------------------
(* The inductive invariant, part by part *)

Compiled == Sources \cup {None, Absent}
KeyFiles == [ceremony : Nat, circuit : Compiled] \cup {Absent, Corrupt}
PtauFiles == Nat \cup {Absent, Corrupt}
Assets == Compiled \cup KeyFiles \cup {Corrupt}
Listing == [r1cs : Compiled, assets : [PublicAssets -> Assets]]
ScriptNames == DOMAIN FirstStep \cup {"none"}
ScriptSteps == {"none", "clean", "build", "test", "ptau", "zkey", "ptv", "check", "run",
                "compile", "vk", "manifest", "r1cs", "wipe", "wasm"}

\* What each file can hold, and where a script can be.
FilesOK ==
    /\ source \in Compiled
    /\ build \in [Rungs -> Compiled]
    /\ setup \in [ptau : PtauFiles, zkey : [Rungs -> KeyFiles]]
    /\ committed \in [Rungs -> [manifest : [r1cs : Compiled, ptau : PtauFiles,
                                            zkey : KeyFiles, vk : KeyFiles],
                                vk : KeyFiles]]
    /\ public \in [PublicFiles -> Assets \cup Listing]
    /\ \A a \in PublicAssets : public[a] \in Assets
ScriptOK ==
    /\ script \in [name : ScriptNames, step : ScriptSteps, rung : Rungs, failed : BOOLEAN]
    /\ spent \in [edits : Nat, ceremonies : Nat, launches : Nat, kills : Nat]
    /\ report.name # "none" => script = Idle

\* A fetch that nothing has failed in has the files it has passed.
FetchedSoFar ==
    script.name = "fetch" =>
        /\ script.step \in {"ptau", "zkey", "ptv"}
        /\ script.step = "ptau" => script.rung = 0
        /\ ~ script.failed =>
            /\ script.step \in {"zkey", "ptv"} => setup.ptau = committed[0].manifest.ptau
            /\ (script.step = "zkey" /\ script.rung = 1) \/ script.step = "ptv" =>
                    setup.zkey[0] = committed[0].manifest.zkey
            /\ script.step = "ptv" => setup.zkey[1] = committed[1].manifest.zkey

\* The keys that a ceremony has made are for the builds it made them of, and a committed
\* manifest names a key of its own circuit.
KeyOfBuild(r) == setup.zkey[r].circuit = build[r]
CeremonySoFar ==
    script.name = "ceremony" =>
        /\ script.step = "vk" => KeyOfBuild(script.rung)
        /\ script.step \in {"zkey", "vk"} /\ script.rung = 1 => KeyOfBuild(0)
        /\ script.step = "manifest" => KeyOfBuild(0) /\ KeyOfBuild(1)
ManifestsOK ==
    \A r \in Rungs : committed[r].manifest.zkey.circuit = committed[r].manifest.r1cs

\* While the staging script copies, the directory has no manifest.
StagedSoFar ==
    script.name = "stage" /\ script.step \in PublicFiles => public["manifest"] = Absent

\* What a running test has fetched: the key it verified is the one its manifest lists.
TestOK ==
    /\ test \in [name : TestNames \cup {"none"},
                 step : {"none", "proveWasm", "proveZkey", "prove"} \cup PublicFiles,
                 manifest : Assets \cup Listing, wasm : Assets \cup Listing,
                 zkey : Assets \cup Listing, vk : Assets \cup Listing]
    /\ test.step \in PublicAssets \cup {"proveWasm", "proveZkey", "prove"} =>
            test.manifest.r1cs = None
    /\ test.step \in {"proveWasm", "proveZkey", "prove"} =>
            test.vk = test.manifest.assets["vk"]

\* The inductive invariants behind the theorems about the scripts and about the harness.
PipelineInv ==
    /\ FilesOK
    /\ ScriptOK
    /\ FetchedSoFar
    /\ CeremonySoFar
    /\ ManifestsOK
    /\ StagedSoFar
    /\ FetchReportTrue
    /\ GateReportTrue
    /\ SuiteReportTrue
    /\ PublicManifestTrue
IndInv == PipelineInv /\ TestOK /\ AnswerVerifies

-----------------------------------------------------------------------------
(* The scripts and where they are *)

FetchScript ==
    (\E answer \in Answers(script.step, script.rung) : FetchAsset(answer)) \/ FetchVerifyPtau
CheckScripts ==
    TestWitness \/ (\E luck \in BOOLEAN : GateC0(luck)) \/ VerifyManifests
      \/ (\E same \in BOOLEAN : CheckReproducibility(same))
CeremonyScript == CeremonyPtau \/ CeremonyCompile \/ CeremonyZkey \/ CeremonyVk \/ WriteManifest
StageScript ==
    (\E wrongTools \in BOOLEAN : StageCompile(wrongTools)) \/ StageR1cs
      \/ (\E f \in PublicFiles : StageWipe(f)) \/ StageCopy \/ StageManifest

\* A pipeline step launches, edits, kills, or is one of a script.
LEMMA Kinds ==
    PipelineNext =>
        \/ \E name \in DOMAIN FirstStep : Launch(name)
        \/ \E c \in Sources \cup {None} : Edit(c)
        \/ Kill
        \/ Clean \/ Compile
        \/ FetchScript \/ CheckScripts \/ CeremonyScript \/ StageScript
  BY DEF PipelineNext, FetchScript, CheckScripts, CeremonyScript, StageScript

\* Which script a step is of.
LEMMA Owners ==
    /\ \A name : Launch(name) => script = Idle
    /\ \A c : Edit(c) => script = Idle
    /\ Clean \/ Compile => script.name = "compile"
    /\ FetchScript => script.name = "fetch"
    /\ CheckScripts => script.name \in {"witness", "gate", "manifests", "repro"}
    /\ CeremonyScript => script.name = "ceremony"
    /\ StageScript => script.name = "stage"
  BY DEF Launch, Edit, Clean, Compile, FetchScript, FetchAsset, FetchVerifyPtau, CheckScripts,
         TestWitness, GateC0, VerifyManifests, CheckReproducibility, CeremonyScript,
         CeremonyPtau, CeremonyCompile, CeremonyZkey, CeremonyVk, WriteManifest, StageScript,
         StageCompile, StageR1cs, StageWipe, StageCopy, StageManifest, At

\* What the steps of a script do to its own state.
LEMMA Moves ==
    ASSUME ScriptOK
    PROVE  /\ \A step \in ScriptSteps, rung \in Rungs : Goto(step, rung) =>
                /\ script' \in [name : ScriptNames, step : ScriptSteps, rung : Rungs,
                                failed : BOOLEAN]
                /\ script'.name = script.name /\ script'.step = step /\ script'.rung = rung
                /\ script'.failed = script.failed
                /\ report' = report
           /\ \A step \in ScriptSteps, failed \in BOOLEAN : GotoFailing(step, failed) =>
                /\ script' \in [name : ScriptNames, step : ScriptSteps, rung : Rungs,
                                failed : BOOLEAN]
                /\ script'.name = script.name /\ script'.step = step
                /\ script'.rung = script.rung
                /\ script'.failed = (script.failed \/ failed)
                /\ report' = report
           /\ \A ok : Exit(ok) => /\ script' = Idle
                                  /\ report'.name = script.name /\ report'.ok = ok
<1>1. ASSUME NEW step \in ScriptSteps, NEW rung \in Rungs, Goto(step, rung)
      PROVE  /\ script' \in [name : ScriptNames, step : ScriptSteps, rung : Rungs,
                             failed : BOOLEAN]
             /\ script'.name = script.name /\ script'.step = step /\ script'.rung = rung
             /\ script'.failed = script.failed
             /\ report' = report
  BY <1>1 DEF Goto, ScriptOK
<1>2. ASSUME NEW step \in ScriptSteps, NEW failed \in BOOLEAN, GotoFailing(step, failed)
      PROVE  /\ script' \in [name : ScriptNames, step : ScriptSteps, rung : Rungs,
                             failed : BOOLEAN]
             /\ script'.name = script.name /\ script'.step = step
             /\ script'.rung = script.rung
             /\ script'.failed = (script.failed \/ failed)
             /\ report' = report
  BY <1>2 DEF GotoFailing, ScriptOK
<1>3. ASSUME NEW ok, Exit(ok)
      PROVE  script' = Idle /\ report'.name = script.name /\ report'.ok = ok
  BY <1>3 DEF Exit
<1>4. QED
  BY <1>1, <1>2, <1>3


\* A step of a script goes on to another of its steps, or is its last.
Continues ==
    /\ script' \in [name : ScriptNames, step : ScriptSteps, rung : Rungs, failed : BOOLEAN]
    /\ script'.name = script.name
    /\ report' = report
    /\ spent' = spent
Ends(ok) == script' = Idle /\ report'.name = script.name /\ report'.ok = ok /\ spent' = spent

\* A step of the compiling script goes on or ends the script; so for each script below.
LEMMA CompileEnds ==
    ASSUME ScriptOK, Clean \/ Compile
    PROVE  Continues \/ \E ok : Ends(ok)
<1>1. ASSUME Clean PROVE Continues
  BY <1>1, Moves DEF Clean, At, Continues, ScriptSteps, Rungs
<1>2. ASSUME Compile PROVE Continues \/ Ends(TRUE)
  BY <1>2, Moves DEF Compile, At, Continues, Ends, ScriptSteps, Rungs
<1>3. QED
  BY <1>1, <1>2

\* Only the last step of a fetch ends it, with what the downloads and the ptau check found.
LEMMA FetchEnds ==
    ASSUME ScriptOK, FetchScript
    PROVE  \/ Continues /\ \E answer : FetchAsset(answer)
           \/ FetchVerifyPtau /\ Ends(~ script.failed /\ setup.ptau # Corrupt)
<1>1. ASSUME NEW answer, FetchAsset(answer) PROVE Continues
  <2> DEFINE bad == ~ Installed(script.step, script.rung) = Expected(script.step, script.rung)
                      /\ ~ answer = Expected(script.step, script.rung)
  <2>1. AfterAsset(bad) /\ script.step \in {"ptau", "zkey"} /\ spent' = spent /\ bad \in BOOLEAN
    BY <1>1 DEF FetchAsset, At
  <2>2. CASE script.step = "zkey" /\ script.rung = 0
    BY <2>1, <2>2 DEF AfterAsset, Continues, ScriptOK, Rungs
  <2>3. CASE ~ (script.step = "zkey" /\ script.rung = 0)
    <3>1. FetchStep[script.step] \in ScriptSteps
      BY <2>1 DEF FetchStep, ScriptSteps
    <3>2. GotoFailing(FetchStep[script.step], bad)
      BY <2>1, <2>3 DEF AfterAsset
    <3> HIDE DEF bad
    <3>3. QED
      BY <2>1, <3>1, <3>2, Moves DEF Continues
  <2>4. QED
    BY <2>2, <2>3
<1>2. ASSUME FetchVerifyPtau PROVE Ends(~ script.failed /\ setup.ptau # Corrupt)
  BY <1>2, Moves DEF FetchVerifyPtau, At, Ends
<1>3. QED
  BY <1>1, <1>2 DEF FetchScript

\* Each checking script is one step.
LEMMA CheckEnds ==
    ASSUME ScriptOK, CheckScripts
    PROVE  \/ TestWitness /\ \E ok : Ends(ok)
           \/ (\E luck \in BOOLEAN : GateC0(luck)) /\ \E ok : Ends(ok)
           \/ script.name \in {"manifests", "repro"} /\ \E ok : Ends(ok)
<1>1. ASSUME TestWitness PROVE \E ok : Ends(ok)
  BY <1>1, Moves DEF TestWitness, At, Ends
<1>2. ASSUME NEW luck \in BOOLEAN, GateC0(luck) PROVE \E ok : Ends(ok)
  BY <1>2, Moves DEF GateC0, At, Ends
<1>3. ASSUME VerifyManifests PROVE script.name = "manifests" /\ \E ok : Ends(ok)
  BY <1>3, Moves DEF VerifyManifests, At, Ends
<1>4. ASSUME NEW same \in BOOLEAN, CheckReproducibility(same)
      PROVE  script.name = "repro" /\ \E ok : Ends(ok)
  BY <1>4, Moves DEF CheckReproducibility, At, Ends
<1>5. QED
  BY <1>1, <1>2, <1>3, <1>4 DEF CheckScripts

\* A ceremony goes on or ends, early when its ptau is missing.
LEMMA CeremonyEnds ==
    ASSUME ScriptOK, CeremonyScript
    PROVE  Continues \/ \E ok : Ends(ok)
<1>1. ASSUME CeremonyPtau PROVE Continues \/ Ends(FALSE)
  BY <1>1, Moves DEF CeremonyPtau, At, Continues, Ends, ScriptSteps, Rungs
<1>2. ASSUME CeremonyCompile PROVE Continues
  BY <1>2, Moves DEF CeremonyCompile, At, Continues, ScriptSteps, Rungs
<1>3. ASSUME CeremonyZkey PROVE Continues
  BY <1>3, Moves DEF CeremonyZkey, At, Continues, ScriptSteps, ScriptOK
<1>4. ASSUME CeremonyVk PROVE Continues
  BY <1>4, Moves DEF CeremonyVk, At, Continues, ScriptSteps, Rungs
<1>5. ASSUME WriteManifest PROVE Continues \/ Ends(TRUE)
  BY <1>5, Moves DEF WriteManifest, At, Continues, Ends, ScriptSteps, Rungs
<1>6. QED
  BY <1>1, <1>2, <1>3, <1>4, <1>5 DEF CeremonyScript

\* Staging goes on or ends, early when its tools, builds or hashes are wrong.
LEMMA StageEnds ==
    ASSUME ScriptOK, StageScript
    PROVE  Continues \/ \E ok : Ends(ok)
<1>1. ASSUME NEW wrongTools \in BOOLEAN, StageCompile(wrongTools) PROVE Continues \/ Ends(FALSE)
  BY <1>1, Moves DEF StageCompile, At, Continues, Ends, ScriptSteps
<1>2. ASSUME StageR1cs PROVE Continues \/ Ends(FALSE)
  BY <1>2, Moves DEF StageR1cs, At, Continues, Ends, ScriptSteps
<1>3. ASSUME NEW f \in PublicFiles, StageWipe(f) PROVE Continues
  <2>1. CASE GotoFailing("wasm", FALSE)
    BY <1>3, <2>1, Moves DEF StageWipe, At, Continues, ScriptSteps
  <2>2. CASE UNCHANGED <<script, report>>
    BY <1>3, <2>2 DEF StageWipe, At, Continues, ScriptOK
  <2>3. QED
    BY <1>3, <2>1, <2>2 DEF StageWipe
<1>4. ASSUME StageCopy PROVE Continues
  <2>1. StageNext[script.step] \in ScriptSteps
    BY <1>4 DEF StageCopy, StageNext, PublicAssets, ScriptSteps
  <2>2. QED
    BY <1>4, <2>1, Moves DEF StageCopy, At, Continues
<1>5. ASSUME StageManifest PROVE Ends(~ script.failed)
  BY <1>5, Moves DEF StageManifest, At, Ends
<1>6. QED
  BY <1>1, <1>2, <1>3, <1>4, <1>5 DEF StageScript

\* A script starts when none runs, a report is that of the script that ran last, and it
\* is dropped when another one starts.
LEMMA ScriptStep ==
    ASSUME ScriptOK, [PipelineNext]_pipelineVars
    PROVE  ScriptOK'
<1>1. ASSUME NEW name \in DOMAIN FirstStep, Launch(name) PROVE ScriptOK'
  <2>1. FirstStep[name] \in ScriptSteps /\ name \in ScriptNames
    BY DEF FirstStep, ScriptSteps, ScriptNames
  <2>2. script' \in [name : ScriptNames, step : ScriptSteps, rung : Rungs, failed : BOOLEAN]
    BY <1>1, <2>1 DEF Launch, Idle, Rungs
  <2>3. spent' \in [edits : Nat, ceremonies : Nat, launches : Nat, kills : Nat]
    <3>1. spent \in [edits : Nat, ceremonies : Nat, launches : Nat, kills : Nat]
      BY DEF ScriptOK
    <3>2. CASE name = "ceremony"
      <4>1. spent' = [spent EXCEPT !.launches = @ + 1, !.ceremonies = @ + 1]
        BY <1>1, <3>2, Zenon DEF Launch
      <4>2. spent.launches + 1 \in Nat /\ spent.ceremonies + 1 \in Nat
        BY <3>1
      <4>3. spent' = [edits |-> spent.edits, ceremonies |-> spent.ceremonies + 1,
                      launches |-> spent.launches + 1, kills |-> spent.kills]
        BY <3>1, <4>1
      <4>4. QED
        BY <3>1, <4>2, <4>3
    <3>3. CASE name # "ceremony"
      <4>1. spent' = [spent EXCEPT !.launches = @ + 1, !.ceremonies = @]
        BY <1>1, <3>3, Zenon DEF Launch
      <4>2. spent.launches + 1 \in Nat /\ spent.ceremonies + 1 \in Nat
        BY <3>1
      <4>3. spent' = [edits |-> spent.edits, ceremonies |-> spent.ceremonies,
                      launches |-> spent.launches + 1, kills |-> spent.kills]
        BY <3>1, <4>1
      <4>4. QED
        BY <3>1, <4>2, <4>3
    <3>4. QED
      BY <3>2, <3>3
  <2>4. report'.name = "none"
    BY <1>1 DEF Launch, NoReport
  <2>5. QED
    BY <2>2, <2>3, <2>4 DEF ScriptOK
<1>2. ASSUME NEW c \in Sources \cup {None}, Edit(c) PROVE ScriptOK'
  BY <1>2 DEF Edit, ScriptOK
<1>3. ASSUME Kill PROVE ScriptOK'
  BY <1>3 DEF Kill, ScriptOK, Idle, NoReport, ScriptNames, ScriptSteps, Rungs
<1>4. ASSUME Continues, script.name # "none" PROVE ScriptOK'
  BY <1>4 DEF Continues, ScriptOK, Idle
<1>5. ASSUME NEW ok, Ends(ok) PROVE ScriptOK'
  BY <1>5 DEF Ends, ScriptOK, Idle, ScriptNames, ScriptSteps, Rungs
<1>6. ASSUME Clean \/ Compile \/ FetchScript \/ CheckScripts \/ CeremonyScript \/ StageScript
      PROVE  ScriptOK'
  <2>1. script.name # "none"
    BY <1>6, Owners
  <2>2. Continues \/ \E ok : Ends(ok)
    BY <1>6, CompileEnds, FetchEnds, CheckEnds, CeremonyEnds, StageEnds
  <2>3. QED
    BY <1>4, <1>5, <2>1, <2>2
<1>7. CASE UNCHANGED pipelineVars
  BY <1>7 DEF pipelineVars, ScriptOK
<1>8. QED
  BY <1>1, <1>2, <1>3, <1>6, <1>7, Kinds


-----------------------------------------------------------------------------
(* What the files can hold *)

\* No step writes anything but whole files, absent ones and corrupt ones.
LEMMA FilesStep ==
    ASSUME FilesOK, ScriptOK, [PipelineNext]_pipelineVars
    PROVE  FilesOK'
<1> USE DEF FilesOK
<1>1. ASSUME UNCHANGED files PROVE FilesOK'
  BY <1>1 DEF files
<1>2. ASSUME NEW c \in Sources \cup {None}, Edit(c) PROVE FilesOK'
  BY <1>2 DEF Edit, Compiled
<1>3. ASSUME Kill PROVE FilesOK'
  <2>1. script.rung \in Rungs
    BY DEF ScriptOK
  <2>2. setup' \in [ptau : PtauFiles, zkey : [Rungs -> KeyFiles]]
    BY <1>3, <2>1 DEF Kill, PtauFiles, KeyFiles
  <2>3. /\ public' \in [PublicFiles -> Assets \cup Listing]
        /\ \A a \in PublicAssets : public'[a] \in Assets
    BY <1>3 DEF Kill, Assets, PublicFiles
  <2>4. QED
    BY <1>3, <2>2, <2>3 DEF Kill
<1>4. ASSUME Clean \/ Compile \/ TestWitness PROVE FilesOK'
  <2>1. NoSetup \in [ptau : PtauFiles, zkey : [Rungs -> KeyFiles]]
    BY DEF NoSetup, PtauFiles, KeyFiles
  <2>2. script.rung \in Rungs
    BY DEF ScriptOK
  <2>3. QED
    BY <1>4, <2>1, <2>2 DEF Clean, Compile, TestWitness, Compiled
<1>5. ASSUME NEW answer, FetchAsset(answer) PROVE FilesOK'
  <2>1. /\ script.rung \in Rungs
        /\ committed[0].manifest.ptau \in PtauFiles
        /\ committed[script.rung].manifest.zkey \in KeyFiles
    BY DEF ScriptOK, Rungs
  <2>2. \/ setup' = setup
        \/ setup' = [setup EXCEPT !.ptau = committed[0].manifest.ptau]
        \/ setup' = [setup EXCEPT !.zkey[script.rung] = committed[script.rung].manifest.zkey]
    BY <1>5 DEF FetchAsset, Expected
  <2>3. UNCHANGED <<source, build, committed, public>>
    BY <1>5 DEF FetchAsset
  <2>4. setup' \in [ptau : PtauFiles, zkey : [Rungs -> KeyFiles]]
    BY <2>1, <2>2
  <2>5. QED
    BY <2>3, <2>4
<1>6. ASSUME CheckScripts PROVE FilesOK'
  <2>1. ASSUME NEW same \in BOOLEAN, CheckReproducibility(same) PROVE FilesOK'
    BY <2>1 DEF CheckReproducibility, Compiled
  <2>2. (\E luck \in BOOLEAN : GateC0(luck)) \/ VerifyManifests => UNCHANGED files
    BY DEF GateC0, VerifyManifests
  <2>3. QED
    BY <1>1, <1>4, <1>6, <2>1, <2>2 DEF CheckScripts
<1>7. ASSUME CeremonyScript PROVE FilesOK'
  <2>1. script.rung \in Rungs /\ spent.ceremonies \in Nat
    BY DEF ScriptOK
  <2>2. ASSUME CeremonyPtau PROVE FilesOK'
    BY <2>1, <2>2 DEF CeremonyPtau, PtauFiles
  <2>3. ASSUME CeremonyCompile PROVE FilesOK'
    BY <2>3 DEF CeremonyCompile
  <2>4. ASSUME CeremonyZkey PROVE FilesOK'
    BY <2>1, <2>4 DEF CeremonyZkey, Key, KeyFiles
  <2>5. ASSUME CeremonyVk PROVE FilesOK'
    BY <2>1, <2>5 DEF CeremonyVk
  <2>6. ASSUME WriteManifest PROVE FilesOK'
    BY <2>1, <2>6 DEF WriteManifest, Manifest
  <2>7. QED
    BY <1>7, <2>2, <2>3, <2>4, <2>5, <2>6 DEF CeremonyScript
<1>8. ASSUME StageScript PROVE FilesOK'
  <2>1. ASSUME NEW wrongTools \in BOOLEAN, StageCompile(wrongTools) PROVE FilesOK'
    BY <2>1 DEF StageCompile, Rungs
  <2>2. ASSUME NEW f \in PublicFiles, StageWipe(f) PROVE FilesOK'
    BY <2>2 DEF StageWipe, Assets, Compiled, PublicFiles
  <2>3. ASSUME StageCopy PROVE FilesOK'
    <3>1. \A a \in PublicAssets : StageSource[a] \in Assets
      BY DEF StageSource, PublicAssets, Assets, Rungs
    <3>2. QED
      BY <2>3, <3>1 DEF StageCopy, PublicFiles
  <2>4. ASSUME StageManifest PROVE FilesOK'
    <3>1. [r1cs |-> build[0], assets |-> [a \in PublicAssets |-> public[a]]] \in Listing
      BY DEF Listing, Rungs
    <3>2. "manifest" \in PublicFiles /\ "manifest" \notin PublicAssets
            /\ PublicAssets \subseteq PublicFiles
      BY DEF PublicFiles, PublicAssets
    <3>3. QED
      BY <2>4, <3>1, <3>2 DEF StageManifest
  <2>5. QED
    BY <1>1, <1>8, <2>1, <2>2, <2>3, <2>4 DEF StageScript, StageR1cs
<1>9. ASSUME NEW name \in DOMAIN FirstStep, Launch(name) PROVE FilesOK'
  BY <1>1, <1>9 DEF Launch
<1>10. ASSUME FetchScript PROVE FilesOK'
  BY <1>1, <1>5, <1>10 DEF FetchScript, FetchVerifyPtau
<1>11. CASE UNCHANGED pipelineVars
  BY <1>1, <1>11 DEF pipelineVars
<1>12. QED
  BY <1>2, <1>3, <1>4, <1>6, <1>7, <1>8, <1>9, <1>10, <1>11, Kinds

-----------------------------------------------------------------------------
(* What the running script has done so far *)

\* A script that was running goes on, or one starts.
LEMMA Running ==
    ASSUME ScriptOK, [PipelineNext]_pipelineVars, script'.name # "none"
    PROVE  \/ Launch(script'.name) /\ script'.step = FirstStep[script'.name] /\ script'.rung = 0
           \/ /\ script'.name = script.name
              /\ \/ UNCHANGED pipelineVars
                 \/ Clean \/ Compile \/ FetchScript \/ CheckScripts \/ CeremonyScript
                 \/ StageScript
<1>1. ASSUME NEW name \in DOMAIN FirstStep, Launch(name)
      PROVE  Launch(script'.name) /\ script'.step = FirstStep[script'.name] /\ script'.rung = 0
  <2>1. script'.name = name /\ script'.step = FirstStep[name] /\ script'.rung = 0
    BY <1>1 DEF Launch, Idle
  <2>2. QED
    BY <1>1, <2>1
<1>2. ASSUME NEW c \in Sources \cup {None}, Edit(c) PROVE FALSE
  BY <1>2 DEF Edit, Idle
<1>3. ASSUME Kill PROVE FALSE
  BY <1>3 DEF Kill, Idle
<1>4. ASSUME Clean \/ Compile \/ FetchScript \/ CheckScripts \/ CeremonyScript \/ StageScript
      PROVE  script'.name = script.name
  <2>1. Continues \/ \E ok : Ends(ok)
    BY <1>4, CompileEnds, FetchEnds, CheckEnds, CeremonyEnds, StageEnds
  <2>2. QED
    BY <2>1 DEF Continues, Ends, Idle
<1>5. CASE UNCHANGED pipelineVars
  BY <1>5 DEF pipelineVars
<1>6. QED
  BY <1>1, <1>2, <1>3, <1>4, <1>5, Kinds


\* A step of a script, or none of its own, with its name known.
LEMMA OwnStep ==
    ASSUME ScriptOK, [PipelineNext]_pipelineVars, script'.name # "none",
           ~ Launch(script'.name)
    PROVE  /\ script'.name = script.name
           /\ \/ UNCHANGED pipelineVars
              \/ script.name = "compile" /\ (Clean \/ Compile)
              \/ script.name = "fetch" /\ FetchScript
              \/ script.name \notin {"fetch", "ceremony", "stage"} /\ CheckScripts
              \/ script.name = "ceremony" /\ CeremonyScript
              \/ script.name = "stage" /\ StageScript
<1>1. script.name \in {"witness", "gate", "manifests", "repro"} =>
            script.name \notin {"fetch", "ceremony", "stage"}
  OBVIOUS
<1>2. QED
  BY <1>1, Running, Owners

\* What a fetch has verified so far stays so: no other script runs in between.
LEMMA FetchStepKept ==
    ASSUME FilesOK, ScriptOK, FetchedSoFar, [PipelineNext]_pipelineVars
    PROVE  FetchedSoFar'
<1> SUFFICES ASSUME script'.name = "fetch"
             PROVE  FetchedSoFar'
  BY DEF FetchedSoFar
<1>1. CASE Launch("fetch")
  BY <1>1 DEF Launch, FetchedSoFar, Idle, FirstStep
<1>2. CASE UNCHANGED pipelineVars
  BY <1>2 DEF pipelineVars, files, FetchedSoFar
<1>3. CASE script.name = "fetch" /\ FetchScript
  <2>1. PICK answer : FetchAsset(answer)
    BY <1>3, FetchEnds DEF Ends, Idle
  <2>2. script.step \in {"ptau", "zkey"} /\ script.rung \in Rungs /\ UNCHANGED committed
    BY <2>1 DEF FetchAsset, At, ScriptOK
  <2>3. CASE script.step = "ptau"
    <3> DEFINE expected == committed[0].manifest.ptau
               bad == setup.ptau # expected /\ answer # expected
    <3>1. script.rung = 0
      BY <1>3, <2>3 DEF FetchedSoFar
    <3>2. GotoFailing("zkey", bad)
      BY <2>1, <2>3 DEF FetchAsset, AfterAsset, FetchStep, Installed, Expected
    <3>3. bad \/ setup'.ptau = expected
      BY <2>1, <2>3 DEF FetchAsset, Installed, Expected, FilesOK
    <3>4. bad \in BOOLEAN
      OBVIOUS
    <3> HIDE DEF bad
    <3>5. script'.step = "zkey" /\ script'.rung = 0 /\ script'.failed = (script.failed \/ bad)
      BY <3>1, <3>2, <3>4, Moves DEF ScriptSteps
    <3>6. script'.failed \/ setup'.ptau = committed'[0].manifest.ptau
      BY <2>2, <3>3, <3>5
    <3>7. QED
      BY <3>5, <3>6 DEF FetchedSoFar
  <2>4. CASE script.step = "zkey"
    <3> DEFINE expected == committed[script.rung].manifest.zkey
               bad == setup.zkey[script.rung] # expected /\ answer # expected
    <3>1. AfterAsset(bad)
      BY <2>1, <2>4 DEF FetchAsset, Installed, Expected
    <3>2. /\ bad \/ setup'.zkey[script.rung] = expected
          /\ \A r \in Rungs \ {script.rung} : setup'.zkey[r] = setup.zkey[r]
          /\ setup'.ptau = setup.ptau
      BY <2>1, <2>2, <2>4 DEF FetchAsset, Installed, Expected, FilesOK
    <3>3. bad \in BOOLEAN
      OBVIOUS
    <3> HIDE DEF bad
    <3>4. CASE script.rung = 0
      <4>1. script'.step = "zkey" /\ script'.rung = 1 /\ script'.failed = (script.failed \/ bad)
        BY <2>4, <3>1, <3>3, <3>4 DEF AfterAsset, ScriptOK
      <4>2. QED
        BY <1>3, <2>2, <2>4, <3>2, <3>4, <4>1 DEF FetchedSoFar
    <3>5. CASE script.rung = 1
      <4>1. GotoFailing("ptv", bad)
        BY <2>4, <3>1, <3>5 DEF AfterAsset, FetchStep
      <4>2. script'.step = "ptv" /\ script'.failed = (script.failed \/ bad)
        BY <3>3, <4>1, Moves DEF ScriptSteps
      <4>3. QED
        BY <1>3, <2>2, <2>4, <3>2, <3>5, <4>2 DEF FetchedSoFar, Rungs
    <3>6. QED
      BY <2>2, <3>4, <3>5 DEF Rungs
  <2>5. QED
    BY <2>2, <2>3, <2>4
<1>4. QED
  BY <1>1, <1>2, <1>3, OwnStep

\* What a ceremony has made so far stays so.
LEMMA CeremonyStepKept ==
    ASSUME FilesOK, ScriptOK, CeremonySoFar, [PipelineNext]_pipelineVars
    PROVE  CeremonySoFar'
<1> SUFFICES ASSUME script'.name = "ceremony"
             PROVE  CeremonySoFar'
  BY DEF CeremonySoFar
<1> USE DEF KeyOfBuild
<1>1. CASE Launch("ceremony")
  BY <1>1 DEF Launch, CeremonySoFar, Idle, FirstStep
<1>2. CASE UNCHANGED pipelineVars
  BY <1>2 DEF pipelineVars, files, CeremonySoFar
<1>3. CASE script.name = "ceremony" /\ CeremonyScript
  <2>1. script.rung \in Rungs /\ script.name = "ceremony"
    BY <1>3 DEF ScriptOK
  <2>2. ASSUME CeremonyPtau PROVE CeremonySoFar'
    <3>1. Goto("compile", 0)
      BY <2>2 DEF CeremonyPtau, Exit, Idle
    <3>2. script'.step = "compile"
      BY <3>1, Moves DEF ScriptSteps, Rungs
    <3>3. QED
      BY <3>2 DEF CeremonySoFar
  <2>3. ASSUME CeremonyCompile PROVE CeremonySoFar'
    <3>1. script'.step = "zkey" /\ script'.rung = 0
      BY <2>3, Moves DEF CeremonyCompile, ScriptSteps, Rungs
    <3>2. QED
      BY <3>1 DEF CeremonySoFar
  <2>4. ASSUME CeremonyZkey PROVE CeremonySoFar'
    <3>1. script'.step = "vk" /\ script'.rung = script.rung /\ script.step = "zkey"
      BY <2>1, <2>4, Moves DEF CeremonyZkey, At, ScriptSteps
    <3>2. /\ build' = build
          /\ setup'.zkey[script.rung].circuit = build[script.rung]
          /\ script.rung = 1 => setup'.zkey[0] = setup.zkey[0]
      BY <2>1, <2>4 DEF CeremonyZkey, Key, FilesOK, Rungs
    <3>3. QED
      BY <2>1, <3>1, <3>2 DEF CeremonySoFar
  <2>5. ASSUME CeremonyVk PROVE CeremonySoFar'
    <3>1. UNCHANGED <<build, setup>> /\ script.step = "vk"
      BY <2>5 DEF CeremonyVk, At
    <3>2. \/ script.rung = 0 /\ script'.step = "zkey" /\ script'.rung = 1
          \/ script.rung = 1 /\ script'.step = "manifest"
      BY <2>1, <2>5, Moves DEF CeremonyVk, ScriptSteps, Rungs
    <3>3. QED
      BY <2>1, <3>1, <3>2 DEF CeremonySoFar
  <2>6. ASSUME WriteManifest PROVE CeremonySoFar'
    <3>1. UNCHANGED <<build, setup>> /\ script.step = "manifest"
      BY <2>6 DEF WriteManifest, At
    <3>2. Goto("manifest", 1)
      BY <2>1, <2>6 DEF WriteManifest, Exit, Idle
    <3>3. script'.step = "manifest"
      BY <3>2, Moves DEF ScriptSteps, Rungs
    <3>4. QED
      BY <2>1, <3>1, <3>3 DEF CeremonySoFar
  <2>7. QED
    BY <1>3, <2>2, <2>3, <2>4, <2>5, <2>6 DEF CeremonyScript
<1>4. QED
  BY <1>1, <1>2, <1>3, OwnStep

\* While assets are put in place there is no public manifest.
LEMMA StagedStepKept ==
    ASSUME FilesOK, ScriptOK, StagedSoFar, [PipelineNext]_pipelineVars
    PROVE  StagedSoFar'
<1> SUFFICES ASSUME script'.name = "stage", script'.step \in PublicFiles
             PROVE  public'["manifest"] = Absent
  BY DEF StagedSoFar
<1>1. CASE Launch("stage")
  <2>1. script'.step = "compile"
    BY <1>1 DEF Launch, Idle, FirstStep
  <2>2. QED
    BY <2>1 DEF PublicFiles, PublicAssets
<1>2. CASE UNCHANGED pipelineVars
  BY <1>2 DEF pipelineVars, files, StagedSoFar
<1>3. CASE script.name = "stage" /\ StageScript
  <2>1. ASSUME NEW wrongTools \in BOOLEAN, StageCompile(wrongTools) PROVE FALSE
    <3>1. CASE Exit(FALSE)
      BY <3>1 DEF Exit, Idle
    <3>2. CASE GotoFailing("r1cs", wrongTools)
      <4>1. script'.step = "r1cs"
        BY <3>2, Moves DEF ScriptSteps
      <4>2. QED
        BY <4>1 DEF PublicFiles, PublicAssets
    <3>3. QED
      BY <2>1, <3>1, <3>2 DEF StageCompile
  <2>2. ASSUME StageR1cs PROVE FALSE
    <3>1. CASE Exit(FALSE)
      BY <3>1 DEF Exit, Idle
    <3>2. CASE GotoFailing("wipe", FALSE)
      <4>1. script'.step = "wipe"
        BY <3>2, Moves DEF ScriptSteps
      <4>2. QED
        BY <4>1 DEF PublicFiles, PublicAssets
    <3>3. QED
      BY <2>2, <3>1, <3>2 DEF StageR1cs
  <2>3. ASSUME NEW f \in PublicFiles, StageWipe(f) PROVE public'["manifest"] = Absent
    <3>1. script.step = "wipe"
      BY <2>3 DEF StageWipe, At
    <3>2. ~ UNCHANGED <<script, report>>
      BY <3>1 DEF PublicFiles, PublicAssets
    <3>3. QED
      BY <2>3, <3>2 DEF StageWipe, PublicFiles
  <2>4. ASSUME StageCopy PROVE public'["manifest"] = Absent
    <3>1. script.step \in PublicFiles /\ script.step # "manifest"
      BY <2>4 DEF StageCopy, PublicFiles, PublicAssets
    <3>2. public["manifest"] = Absent
      BY <1>3, <3>1 DEF StagedSoFar
    <3>3. QED
      BY <2>4, <3>1, <3>2 DEF StageCopy, FilesOK, PublicFiles
  <2>5. ASSUME StageManifest PROVE FALSE
    BY <2>5 DEF StageManifest, Exit, Idle
  <2>6. QED
    BY <1>3, <2>1, <2>2, <2>3, <2>4, <2>5 DEF StageScript
<1>4. QED
  BY <1>1, <1>2, <1>3, OwnStep

\* A committed manifest lists a zkey that was made for the circuit it lists.
LEMMA ManifestsStep ==
    ASSUME FilesOK, ScriptOK, CeremonySoFar, ManifestsOK, [PipelineNext]_pipelineVars
    PROVE  ManifestsOK'
<1>1. ASSUME UNCHANGED committed PROVE ManifestsOK'
  BY <1>1 DEF ManifestsOK
<1>2. ASSUME CeremonyVk PROVE ManifestsOK'
  <2>1. \A r \in Rungs : committed'[r].manifest = committed[r].manifest
    BY <1>2 DEF CeremonyVk, FilesOK
  <2>2. QED
    BY <2>1 DEF ManifestsOK
<1>3. ASSUME WriteManifest PROVE ManifestsOK'
  <2>1. script.rung \in Rungs /\ KeyOfBuild(script.rung)
    BY <1>3 DEF WriteManifest, At, CeremonySoFar, ScriptOK, Rungs
  <2>2. committed'[script.rung].manifest = Manifest(build[script.rung], setup.ptau, setup.zkey[script.rung])
    BY <1>3, <2>1 DEF WriteManifest, FilesOK
  <2>3. \A r \in Rungs \ {script.rung} : committed'[r] = committed[r]
    BY <1>3, <2>1 DEF WriteManifest, FilesOK
  <2>4. QED
    BY <2>1, <2>2, <2>3 DEF ManifestsOK, KeyOfBuild, Manifest
<1>4. CeremonyPtau \/ CeremonyCompile \/ CeremonyZkey => UNCHANGED committed
  BY DEF CeremonyPtau, CeremonyCompile, CeremonyZkey
<1>5. ASSUME StageScript PROVE UNCHANGED committed
  BY <1>5 DEF StageScript, StageCompile, StageR1cs, StageWipe, StageCopy, StageManifest, files
<1>6. ASSUME FetchScript \/ CheckScripts \/ Clean \/ Compile \/ Kill PROVE UNCHANGED committed
  BY <1>6 DEF FetchScript, FetchAsset, FetchVerifyPtau, CheckScripts, TestWitness, GateC0,
              VerifyManifests, CheckReproducibility, Clean, Compile, Kill, files
<1>7. ASSUME \/ \E name \in DOMAIN FirstStep : Launch(name)
             \/ \E c \in Sources \cup {None} : Edit(c)
             \/ UNCHANGED pipelineVars
      PROVE  UNCHANGED committed
  BY <1>7 DEF Launch, Edit, pipelineVars, files
<1>8. QED
  BY <1>1, <1>2, <1>3, <1>4, <1>5, <1>6, <1>7, Kinds DEF CeremonyScript


-----------------------------------------------------------------------------
(* What the reports say *)

\* A report that a script passed is the one there was, of files that have not changed, or
\* the script has just ended.
LEMMA Reports ==
    ASSUME ScriptOK, [PipelineNext]_pipelineVars, NEW name \in {"fetch", "gate", "witness"},
           Passed(name)'
    PROVE  \/ Passed(name) /\ UNCHANGED <<build, setup, committed>>
           \/ name = "fetch" /\ FetchVerifyPtau
           \/ name = "gate" /\ \E luck \in BOOLEAN : GateC0(luck)
           \/ name = "witness" /\ TestWitness
<1>1. report'.name = name /\ name # "none"
  BY DEF Passed
<1>2. ASSUME NEW other \in DOMAIN FirstStep, Launch(other) PROVE FALSE
  BY <1>1, <1>2 DEF Launch, NoReport
<1>3. ASSUME NEW c \in Sources \cup {None}, Edit(c)
      PROVE  Passed(name) /\ UNCHANGED <<build, setup, committed>>
  BY <1>3 DEF Edit, Passed
<1>4. ASSUME Kill PROVE FALSE
  BY <1>1, <1>4 DEF Kill, NoReport
<1>5. ASSUME Continues, script.name # "none" PROVE FALSE
  BY <1>1, <1>5 DEF Continues, ScriptOK, Idle
<1>6. ASSUME NEW ok, Ends(ok) PROVE script.name = name
  BY <1>1, <1>6 DEF Ends
<1>7. CASE Clean \/ Compile
  BY <1>5, <1>6, <1>7, CompileEnds, Owners
<1>8. CASE FetchScript
  BY <1>5, <1>6, <1>8, FetchEnds, Owners
<1>9. CASE CheckScripts
  <2>1. \E ok : Ends(ok)
    BY <1>9, CheckEnds
  <2>2. script.name = name
    BY <1>6, <2>1
  <2>3. TestWitness => script.name = "witness"
    BY DEF TestWitness, At
  <2>4. \A luck : GateC0(luck) => script.name = "gate"
    BY DEF GateC0, At
  <2>5. QED
    BY <1>9, <2>2, <2>3, <2>4, CheckEnds
<1>10. CASE CeremonyScript
  BY <1>5, <1>6, <1>10, CeremonyEnds, Owners
<1>11. CASE StageScript
  BY <1>5, <1>6, <1>11, StageEnds, Owners
<1>12. CASE UNCHANGED pipelineVars
  BY <1>12 DEF pipelineVars, files, Passed
<1>13. QED
  BY <1>2, <1>3, <1>4, <1>7, <1>8, <1>9, <1>10, <1>11, <1>12, Kinds

\* A fetch has passed every asset when it ends.
LEMMA FetchReportStep ==
    ASSUME ScriptOK, FetchedSoFar, FetchReportTrue, [PipelineNext]_pipelineVars
    PROVE  FetchReportTrue'
<1> SUFFICES ASSUME Passed("fetch")'
             PROVE  /\ setup'.ptau = committed'[0].manifest.ptau
                    /\ \A r \in Rungs : setup'.zkey[r] = committed'[r].manifest.zkey
  BY DEF FetchReportTrue
<1>1. CASE Passed("fetch") /\ UNCHANGED <<build, setup, committed>>
  BY <1>1 DEF FetchReportTrue
<1>2. CASE FetchVerifyPtau
  <2>1. script.name = "fetch" /\ script.step = "ptv" /\ ~ script.failed
    BY <1>2 DEF FetchVerifyPtau, At, Exit, Passed
  <2>2. UNCHANGED <<setup, committed>>
    BY <1>2 DEF FetchVerifyPtau, files
  <2>3. QED
    BY <2>1, <2>2 DEF FetchedSoFar, Rungs
<1>3. QED
  BY <1>1, <1>2, Reports

\* A key that the committed manifest names is of the manifest's circuit, and the build is.
LEMMA GateReportStep ==
    ASSUME ScriptOK, ManifestsOK, GateReportTrue, [PipelineNext]_pipelineVars
    PROVE  GateReportTrue'
<1> SUFFICES ASSUME Passed("gate")', NEW r \in Rungs
             PROVE  /\ setup'.zkey[r] = committed'[r].vk
                    /\ setup'.zkey[r] = committed'[r].manifest.zkey
                    /\ setup'.zkey[r].circuit = build'[r]
                    /\ committed'[r].manifest.r1cs = build'[r]
  BY DEF GateReportTrue
<1>1. CASE Passed("gate") /\ UNCHANGED <<build, setup, committed>>
  BY <1>1 DEF GateReportTrue
<1>2. ASSUME NEW luck \in BOOLEAN, GateC0(luck)
      PROVE  /\ setup'.zkey[r] = committed'[r].vk
             /\ setup'.zkey[r] = committed'[r].manifest.zkey
             /\ setup'.zkey[r].circuit = build'[r]
             /\ committed'[r].manifest.r1cs = build'[r]
  <2>1. R1csMatches(r) /\ Proves(r, luck) /\ SetupMatchesIfPresent
    BY <1>2 DEF GateC0, Exit, Passed
  <2>2. UNCHANGED <<build, setup, committed>>
    BY <1>2 DEF GateC0, files
  <2>3. setup.zkey[r] = committed[r].manifest.zkey
    BY <2>1 DEF Proves, SetupMatchesIfPresent
  <2>4. QED
    BY <2>1, <2>2, <2>3 DEF R1csMatches, Proves, ManifestsOK
<1>3. QED
  BY <1>1, <1>2, Reports

\* Whatever staging does to the directory, it does before it writes the manifest.
LEMMA PublicManifestStep ==
    ASSUME FilesOK, ScriptOK, StagedSoFar, PublicManifestTrue, [PipelineNext]_pipelineVars
    PROVE  PublicManifestTrue'
<1>1. ASSUME UNCHANGED public PROVE PublicManifestTrue'
  BY <1>1 DEF PublicManifestTrue
<1>2. "manifest" \in PublicFiles /\ "manifest" \notin PublicAssets /\ PublicAssets \subseteq PublicFiles
  BY DEF PublicFiles, PublicAssets
<1>3. ASSUME Kill PROVE PublicManifestTrue'
  <2>1. CASE /\ script.name = "stage" /\ script.step \in PublicFiles
             /\ public' = [public EXCEPT ![script.step] = Corrupt]
    <3>1. public["manifest"] = Absent
      BY <2>1 DEF StagedSoFar
    <3>2. public'["manifest"] \in {Absent, Corrupt}
      BY <1>2, <2>1, <3>1 DEF FilesOK
    <3>3. QED
      BY <3>2 DEF PublicManifestTrue
  <2>2. QED
    BY <1>1, <1>3, <2>1 DEF Kill
<1>4. ASSUME NEW f \in PublicFiles, StageWipe(f) PROVE PublicManifestTrue'
  <2>1. CASE public' = [public EXCEPT ![f] = Absent]
    <3>1. \A g \in PublicFiles : public'[g] \in {Absent, public[g]}
      BY <2>1 DEF FilesOK
    <3>2. QED
      BY <1>2, <3>1 DEF PublicManifestTrue
  <2>2. QED
    BY <1>1, <1>4, <2>1 DEF StageWipe
<1>5. ASSUME StageCopy PROVE PublicManifestTrue'
  <2>1. script.name = "stage" /\ script.step \in PublicAssets
    BY <1>5 DEF StageCopy, At
  <2>2. public["manifest"] = Absent
    BY <1>2, <2>1 DEF StagedSoFar
  <2>3. public'["manifest"] = Absent
    BY <1>2, <1>5, <2>1, <2>2 DEF StageCopy, FilesOK
  <2>4. QED
    BY <2>3 DEF PublicManifestTrue
<1>6. ASSUME StageManifest PROVE PublicManifestTrue'
  <2>1. /\ public'["manifest"].assets = [a \in PublicAssets |-> public[a]]
        /\ \A a \in PublicAssets : public'[a] = public[a]
    BY <1>2, <1>6 DEF StageManifest, FilesOK
  <2>2. QED
    BY <2>1 DEF PublicManifestTrue
<1>7. ASSUME NEW wrongTools \in BOOLEAN, StageCompile(wrongTools) PROVE UNCHANGED public
  BY <1>7 DEF StageCompile
<1>8. ASSUME StageR1cs \/ CeremonyScript PROVE UNCHANGED public
  BY <1>8 DEF StageR1cs, CeremonyScript, CeremonyPtau, CeremonyCompile, CeremonyZkey, CeremonyVk,
              WriteManifest, files
<1>9. ASSUME FetchScript \/ CheckScripts \/ Clean \/ Compile PROVE UNCHANGED public
  BY <1>9 DEF FetchScript, FetchAsset, FetchVerifyPtau, CheckScripts, TestWitness, GateC0,
              VerifyManifests, CheckReproducibility, Clean, Compile, files
<1>10. ASSUME \/ \E name \in DOMAIN FirstStep : Launch(name)
              \/ \E c \in Sources \cup {None} : Edit(c)
              \/ UNCHANGED pipelineVars
       PROVE  UNCHANGED public
  BY <1>10 DEF Launch, Edit, pipelineVars, files
<1>11. QED
  BY <1>1, <1>3, <1>4, <1>5, <1>6, <1>7, <1>8, <1>9, <1>10, Kinds DEF StageScript


-----------------------------------------------------------------------------
(* What the witness fixtures pin *)

\* The constraints one by one.
LEMMA MetCases ==
    \A w :
        /\ Met("stateRoot", w) <=>
              w.stateRoot = w.stateTree /\ StateLeaf[w.stateTree] = <<w.label, w.secret>>
        /\ Met("associationRoot", w) <=>
              /\ w.associationRoot = "eligible" /\ w.index = w.path
              /\ w.label = AssociationLeaf(w.path)
        /\ Met("label", w) <=> w.label # 0
        /\ Met("associationRootNonZero", w) <=> w.associationRoot # "zero"
        /\ Met("secret", w) <=> w.secret # 0
        /\ Met("voteBits", w) <=> w.vote \in FourBits
        /\ Met("optionBits", w) <=> w.options - 1 \in FourBits
        /\ Met("deltaBits", w) <=> w.options - 1 - w.vote \in FourBits
        /\ Met("salt", w) <=> (w.rung = 1 => w.salt # 0)
  BY DEF Met

\* Each of these refused fixtures is a witness that breaks one constraint of R0 only.
LEMMA R0Breaks ==
    /\ Satisfies(R0Fixtures["wrong_asp_path"], "associationRoot")
    /\ Satisfies(R0Fixtures["label_zero"], "label")
    /\ Satisfies(R0Fixtures["nullifier_zero"], "secret")
    /\ Satisfies(R0Fixtures["wrong_root"], "stateRoot")
    /\ Satisfies(R0Fixtures["vote_out_of_range"], "deltaBits")
<1>1. R0 = [rung |-> 0, vote |-> 0, options |-> 5, salt |-> 42, label |-> 111, secret |-> 222,
            stateTree |-> "registered", stateRoot |-> "registered", associationRoot |-> "eligible", path |-> 0, index |-> 0]
  BY DEF R0, Positive
<1>2. Satisfies(R0Fixtures["wrong_asp_path"], "associationRoot")
  <2> DEFINE w == R0Fixtures["wrong_asp_path"]
  <2>1. w = [R0 EXCEPT !.index = 1]
    BY DEF R0Fixtures
  <2> HIDE DEF w
  <2>2. /\ w.rung = 0 /\ w.vote = 0 /\ w.options = 5 /\ w.salt = 42 /\ w.label = 111 /\ w.secret = 222
        /\ w.stateTree = "registered" /\ w.stateRoot = "registered"
        /\ w.associationRoot = "eligible" /\ w.path = 0 /\ w.index = 1
    BY <1>1, <2>1
  <2>3. \A d \in Constraints \ {"associationRoot"} : Met(d, w)
    BY <2>2, MetCases DEF Constraints, FourBits, AssociationLeaf, StateLeaf
  <2>4. QED
    BY <2>3 DEF Satisfies, w
<1>3. Satisfies(R0Fixtures["label_zero"], "label")
  <2> DEFINE w == R0Fixtures["label_zero"]
  <2>1. w = WithLabelZero(R0)
    BY DEF R0Fixtures
  <2> HIDE DEF w
  <2>2. /\ w.rung = 0 /\ w.vote = 0 /\ w.options = 5 /\ w.salt = 42 /\ w.label = 0 /\ w.secret = 222
        /\ w.stateTree = "zeroLabel" /\ w.stateRoot = "zeroLabel"
        /\ w.associationRoot = "eligible" /\ w.path = 1 /\ w.index = 1
    BY <1>1, <2>1 DEF WithLabelZero
  <2>3. \A d \in Constraints \ {"label"} : Met(d, w)
    BY <2>2, MetCases DEF Constraints, FourBits, AssociationLeaf, StateLeaf
  <2>4. QED
    BY <2>3 DEF Satisfies, w
<1>4. Satisfies(R0Fixtures["nullifier_zero"], "secret")
  <2> DEFINE w == R0Fixtures["nullifier_zero"]
  <2>1. w = WithSecretZero(R0)
    BY DEF R0Fixtures
  <2> HIDE DEF w
  <2>2. /\ w.rung = 0 /\ w.vote = 0 /\ w.options = 5 /\ w.salt = 42 /\ w.label = 111 /\ w.secret = 0
        /\ w.stateTree = "zeroSecret" /\ w.stateRoot = "zeroSecret"
        /\ w.associationRoot = "eligible" /\ w.path = 0 /\ w.index = 0
    BY <1>1, <2>1 DEF WithSecretZero
  <2>3. \A d \in Constraints \ {"secret"} : Met(d, w)
    BY <2>2, MetCases DEF Constraints, FourBits, AssociationLeaf, StateLeaf
  <2>4. QED
    BY <2>3 DEF Satisfies, w
<1>5. Satisfies(R0Fixtures["wrong_root"], "stateRoot")
  <2> DEFINE w == R0Fixtures["wrong_root"]
  <2>1. w = [R0 EXCEPT !.stateRoot = "other"]
    BY DEF R0Fixtures
  <2> HIDE DEF w
  <2>2. /\ w.rung = 0 /\ w.vote = 0 /\ w.options = 5 /\ w.salt = 42 /\ w.label = 111 /\ w.secret = 222
        /\ w.stateTree = "registered" /\ w.stateRoot = "other"
        /\ w.associationRoot = "eligible" /\ w.path = 0 /\ w.index = 0
    BY <1>1, <2>1
  <2>3. \A d \in Constraints \ {"stateRoot"} : Met(d, w)
    BY <2>2, MetCases DEF Constraints, FourBits, AssociationLeaf, StateLeaf
  <2>4. QED
    BY <2>3 DEF Satisfies, w
<1>6. Satisfies(R0Fixtures["vote_out_of_range"], "deltaBits")
  <2> DEFINE w == R0Fixtures["vote_out_of_range"]
  <2>1. w = [R0 EXCEPT !.vote = 5]
    BY DEF R0Fixtures
  <2> HIDE DEF w
  <2>2. /\ w.rung = 0 /\ w.vote = 5 /\ w.options = 5 /\ w.salt = 42 /\ w.label = 111 /\ w.secret = 222
        /\ w.stateTree = "registered" /\ w.stateRoot = "registered"
        /\ w.associationRoot = "eligible" /\ w.path = 0 /\ w.index = 0
    BY <1>1, <2>1
  <2>3. \A d \in Constraints \ {"deltaBits"} : Met(d, w)
    BY <2>2, MetCases DEF Constraints, FourBits, AssociationLeaf, StateLeaf
  <2>4. QED
    BY <2>3 DEF Satisfies, w
<1>7. QED
  BY <1>2, <1>3, <1>4, <1>5, <1>6

\* Each of these refused fixtures is a witness that breaks one constraint of R1 only.
LEMMA R1Breaks ==
    /\ Satisfies(R1Fixtures["wrong_asp_path"], "associationRoot")
    /\ Satisfies(R1Fixtures["label_zero"], "label")
    /\ Satisfies(R1Fixtures["nullifier_zero"], "secret")
    /\ Satisfies(R1Fixtures["zero_salt"], "salt")
    /\ Satisfies(R1Fixtures["vote_out_of_range"], "deltaBits")
<1>1. R1 = [rung |-> 1, vote |-> 3, options |-> 5, salt |-> 42, label |-> 111, secret |-> 222,
            stateTree |-> "registered", stateRoot |-> "registered", associationRoot |-> "eligible", path |-> 0, index |-> 0]
  BY DEF R1, Positive
<1>2. Satisfies(R1Fixtures["wrong_asp_path"], "associationRoot")
  <2> DEFINE w == R1Fixtures["wrong_asp_path"]
  <2>1. w = [R1 EXCEPT !.index = 1]
    BY DEF R1Fixtures
  <2> HIDE DEF w
  <2>2. /\ w.rung = 1 /\ w.vote = 3 /\ w.options = 5 /\ w.salt = 42 /\ w.label = 111 /\ w.secret = 222
        /\ w.stateTree = "registered" /\ w.stateRoot = "registered"
        /\ w.associationRoot = "eligible" /\ w.path = 0 /\ w.index = 1
    BY <1>1, <2>1
  <2>3. \A d \in Constraints \ {"associationRoot"} : Met(d, w)
    BY <2>2, MetCases DEF Constraints, FourBits, AssociationLeaf, StateLeaf
  <2>4. QED
    BY <2>3 DEF Satisfies, w
<1>3. Satisfies(R1Fixtures["label_zero"], "label")
  <2> DEFINE w == R1Fixtures["label_zero"]
  <2>1. w = WithLabelZero(R1)
    BY DEF R1Fixtures
  <2> HIDE DEF w
  <2>2. /\ w.rung = 1 /\ w.vote = 3 /\ w.options = 5 /\ w.salt = 42 /\ w.label = 0 /\ w.secret = 222
        /\ w.stateTree = "zeroLabel" /\ w.stateRoot = "zeroLabel"
        /\ w.associationRoot = "eligible" /\ w.path = 1 /\ w.index = 1
    BY <1>1, <2>1 DEF WithLabelZero
  <2>3. \A d \in Constraints \ {"label"} : Met(d, w)
    BY <2>2, MetCases DEF Constraints, FourBits, AssociationLeaf, StateLeaf
  <2>4. QED
    BY <2>3 DEF Satisfies, w
<1>4. Satisfies(R1Fixtures["nullifier_zero"], "secret")
  <2> DEFINE w == R1Fixtures["nullifier_zero"]
  <2>1. w = WithSecretZero(R1)
    BY DEF R1Fixtures
  <2> HIDE DEF w
  <2>2. /\ w.rung = 1 /\ w.vote = 3 /\ w.options = 5 /\ w.salt = 42 /\ w.label = 111 /\ w.secret = 0
        /\ w.stateTree = "zeroSecret" /\ w.stateRoot = "zeroSecret"
        /\ w.associationRoot = "eligible" /\ w.path = 0 /\ w.index = 0
    BY <1>1, <2>1 DEF WithSecretZero
  <2>3. \A d \in Constraints \ {"secret"} : Met(d, w)
    BY <2>2, MetCases DEF Constraints, FourBits, AssociationLeaf, StateLeaf
  <2>4. QED
    BY <2>3 DEF Satisfies, w
<1>5. Satisfies(R1Fixtures["zero_salt"], "salt")
  <2> DEFINE w == R1Fixtures["zero_salt"]
  <2>1. w = [R1 EXCEPT !.salt = 0]
    BY DEF R1Fixtures
  <2> HIDE DEF w
  <2>2. /\ w.rung = 1 /\ w.vote = 3 /\ w.options = 5 /\ w.salt = 0 /\ w.label = 111 /\ w.secret = 222
        /\ w.stateTree = "registered" /\ w.stateRoot = "registered"
        /\ w.associationRoot = "eligible" /\ w.path = 0 /\ w.index = 0
    BY <1>1, <2>1
  <2>3. \A d \in Constraints \ {"salt"} : Met(d, w)
    BY <2>2, MetCases DEF Constraints, FourBits, AssociationLeaf, StateLeaf
  <2>4. QED
    BY <2>3 DEF Satisfies, w
<1>6. Satisfies(R1Fixtures["vote_out_of_range"], "deltaBits")
  <2> DEFINE w == R1Fixtures["vote_out_of_range"]
  <2>1. w = [R1 EXCEPT !.vote = 7]
    BY DEF R1Fixtures
  <2> HIDE DEF w
  <2>2. /\ w.rung = 1 /\ w.vote = 7 /\ w.options = 5 /\ w.salt = 42 /\ w.label = 111 /\ w.secret = 222
        /\ w.stateTree = "registered" /\ w.stateRoot = "registered"
        /\ w.associationRoot = "eligible" /\ w.path = 0 /\ w.index = 0
    BY <1>1, <2>1
  <2>3. \A d \in Constraints \ {"deltaBits"} : Met(d, w)
    BY <2>2, MetCases DEF Constraints, FourBits, AssociationLeaf, StateLeaf
  <2>4. QED
    BY <2>3 DEF Satisfies, w
<1>7. QED
  BY <1>2, <1>3, <1>4, <1>5, <1>6


\* Circuits that lack a constraint their rung's fixtures pin do not pass the witness tests.
LEMMA SuitePins ==
    ASSUME NEW built, WitnessTestsPass(built), NEW r \in Rungs
    PROVE  built[r] \notin Pinned(r)
<1>1. \A f \in R0Refused : ~ Satisfies(R0Fixtures[f], built[0])
  <2>1. R0Refused \subseteq DOMAIN R0Fixtures
    BY DEF R0Refused, R0Fixtures
  <2>2. QED
    BY <2>1 DEF WitnessTestsPass
<1>2. \A f \in R1Refused : ~ Satisfies(R1Fixtures[f], built[1])
  <2>1. R1Refused \subseteq DOMAIN R1Fixtures
    BY DEF R1Refused, R1Fixtures
  <2>2. QED
    BY <2>1 DEF WitnessTestsPass
<1>3. CASE r = 0
  <2>1. Pinned(r) = {"stateRoot", "associationRoot", "label", "secret", "deltaBits"}
    BY <1>3 DEF Pinned, Constraints
  <2>2. built[0] \notin {"stateRoot", "associationRoot", "label", "secret", "deltaBits"}
    BY <1>1, R0Breaks DEF R0Refused
  <2>3. QED
    BY <1>3, <2>1, <2>2
<1>4. CASE r = 1
  <2>1. Pinned(r) = {"salt", "associationRoot", "label", "secret", "deltaBits"}
    BY <1>4 DEF Pinned, Constraints
  <2>2. built[1] \notin {"salt", "associationRoot", "label", "secret", "deltaBits"}
    BY <1>2, R1Breaks DEF R1Refused
  <2>3. QED
    BY <1>4, <2>1, <2>2
<1>5. QED
  BY <1>3, <1>4 DEF Rungs

\* A suite that exits 0 reports on the builds that are there, for as long as they are.
LEMMA SuiteReportStep ==
    ASSUME ScriptOK, SuiteReportTrue, [PipelineNext]_pipelineVars
    PROVE  SuiteReportTrue'
<1> SUFFICES ASSUME Passed("witness")', NEW r \in Rungs
             PROVE  build'[r] \notin Pinned(r)
  BY DEF SuiteReportTrue
<1>1. CASE Passed("witness") /\ UNCHANGED <<build, setup, committed>>
  BY <1>1 DEF SuiteReportTrue
<1>2. CASE TestWitness
  <2>1. WitnessTestsPass(build) /\ build' = build
    BY <1>2 DEF TestWitness, Exit, Passed
  <2>2. QED
    BY <2>1, SuitePins
<1>3. QED
  BY <1>1, <1>2, Reports

-----------------------------------------------------------------------------
(* The scripts' invariant *)

\* A checkout, or one that has staged the published assets, satisfies the invariant.
LEMMA InitPipelineInv == PipelineInit => PipelineInv
<1> SUFFICES ASSUME PipelineInit
             PROVE  PipelineInv
  OBVIOUS
<1>1. /\ None \in Compiled /\ Absent \in Compiled /\ Absent \in KeyFiles /\ Key(1, None) \in KeyFiles
      /\ Absent \in PtauFiles /\ 1 \in PtauFiles
  BY DEF Compiled, KeyFiles, PtauFiles, Key
<1>2. /\ "manifest" \in PublicFiles /\ "manifest" \notin PublicAssets
      /\ PublicFiles = PublicAssets \cup {"manifest"}
  BY DEF PublicFiles, PublicAssets
<1>3. committed \in [Rungs -> [manifest : [r1cs : Compiled, ptau : PtauFiles,
                                           zkey : KeyFiles, vk : KeyFiles],
                               vk : KeyFiles]]
  BY <1>1 DEF PipelineInit, Published, Manifest
<1>4. public \in [PublicFiles -> Assets \cup Listing] /\ (\A a \in PublicAssets : public[a] \in Assets)
        /\ PublicManifestTrue
  <2>1. CASE public = [f \in PublicFiles |-> Absent]
    BY <1>1, <1>2, <2>1 DEF Assets, PublicManifestTrue
  <2>2. CASE public = Staged
    <3> DEFINE assets == [wasm |-> None, zkey |-> Key(1, None), vk |-> Key(1, None)]
    <3>1. assets \in [PublicAssets -> Assets]
      BY <1>1 DEF PublicAssets, Assets
    <3>2. public = [f \in PublicFiles |-> IF f = "manifest" THEN [r1cs |-> None, assets |-> assets]
                                                           ELSE assets[f]]
      BY <2>2 DEF Staged
    <3> HIDE DEF assets
    <3>3. [r1cs |-> None, assets |-> assets] \in Listing
      BY <1>1, <3>1 DEF Listing
    <3>4. QED
      BY <1>2, <3>1, <3>2, <3>3 DEF PublicManifestTrue
  <2>3. QED
    BY <2>1, <2>2 DEF PipelineInit
<1>5. FilesOK
  BY <1>1, <1>3, <1>4 DEF PipelineInit, FilesOK, NoSetup
<1>6. ScriptOK
  BY DEF PipelineInit, ScriptOK, Idle, NoReport, ScriptNames, ScriptSteps, Rungs
<1>7. FetchedSoFar /\ CeremonySoFar /\ StagedSoFar
  BY DEF PipelineInit, FetchedSoFar, CeremonySoFar, StagedSoFar, Idle
<1>8. ManifestsOK
  BY DEF PipelineInit, ManifestsOK, Published, Manifest, Key
<1>9. FetchReportTrue /\ GateReportTrue /\ SuiteReportTrue
  BY DEF PipelineInit, FetchReportTrue, GateReportTrue, SuiteReportTrue, Passed, NoReport
<1>10. QED
  BY <1>4, <1>5, <1>6, <1>7, <1>8, <1>9 DEF PipelineInv

\* A step of the scripts keeps every part of their invariant.
LEMMA PipelineStep ==
    ASSUME PipelineInv, [PipelineNext]_pipelineVars
    PROVE  PipelineInv'
  BY FilesStep, ScriptStep, FetchStepKept, CeremonyStepKept, ManifestsStep, StagedStepKept,
     FetchReportStep, GateReportStep, SuiteReportStep, PublicManifestStep
     DEF PipelineInv

-----------------------------------------------------------------------------
(* The harness over the files *)

\* A step of the harness, or of the scripts under it, keeps what its session has fetched.
LEMMA TestStep ==
    ASSUME FilesOK, TestOK, AnswerVerifies, [Next]_vars
    PROVE  TestOK' /\ AnswerVerifies'
<1> DEFINE TestType == [name : TestNames \cup {"none"},
                        step : {"none", "proveWasm", "proveZkey", "prove"} \cup PublicFiles,
                        manifest : Assets \cup Listing, wasm : Assets \cup Listing,
                        zkey : Assets \cup Listing, vk : Assets \cup Listing]
           Kept == TestOK' /\ AnswerVerifies'
<1>1. NoTest \in TestType /\ NoTest.step = "none"
  BY DEF NoTest, Assets, Compiled, PublicFiles, PublicAssets
<1>2. test \in TestType
  BY DEF TestOK
<1>3. \A f \in PublicFiles : public[f] \in Assets \cup Listing
  BY DEF FilesOK
<1>4. "none" \notin PublicAssets \cup {"proveWasm", "proveZkey", "prove"}
  BY DEF PublicAssets
<1> HIDE DEF TestType
<1>5. ASSUME NEW name, NEW pass, NEW proof, Record(name, pass, proof),
             proof # Absent => proof = test.manifest.assets["vk"] /\ test.manifest.r1cs = None
      PROVE  Kept
  BY <1>1, <1>4, <1>5 DEF Record, TestOK, TestType, AnswerVerifies
<1>6. ASSUME Fail PROVE Kept
  BY <1>5, <1>6 DEF Fail
<1>7. ASSUME UNCHANGED browserVars PROVE Kept
  BY <1>7 DEF browserVars, TestOK, AnswerVerifies
<1>8. ASSUME NEW name \in TestNames, Click(name) PROVE Kept
  <2>1. test' \in TestType /\ test'.step = "manifest"
    BY <1>1, <1>8 DEF Click, TestType, PublicFiles, NoTest
  <2>2. result'.proof = Absent
    BY <1>8 DEF Click, NoResult
  <2>3. QED
    BY <2>1, <2>2 DEF TestOK, TestType, AnswerVerifies, PublicAssets
<1>9. ASSUME Cancel PROVE Kept
  BY <1>5, <1>9 DEF Cancel
<1>10. ASSUME InitAdapter PROVE Kept
  <2>1. CASE ManifestValid(public["manifest"]) /\ Fetched("wasm", "manifest", public["manifest"])
    <3>1. /\ test'.step = "wasm" /\ test'.manifest.r1cs = None
          /\ test' = [test EXCEPT !.step = "wasm", !.manifest = public["manifest"]]
          /\ public["manifest"] \in Assets \cup Listing
      BY <1>2, <1>3, <2>1 DEF Fetched, ManifestValid, TestType, PublicFiles
    <3>2. test' \in TestType
      BY <1>2, <3>1 DEF TestType, PublicFiles, PublicAssets
    <3>3. result' = result
      BY <2>1 DEF Fetched
    <3>4. QED
      BY <3>1, <3>2, <3>3 DEF TestOK, TestType, AnswerVerifies
  <2>2. QED
    BY <1>6, <1>10, <2>1 DEF InitAdapter

<1>11. ASSUME NEW step \in {"proveWasm", "proveZkey", "prove"} \cup PublicFiles,
              NEW field \in PublicAssets, NEW content \in Assets \cup Listing,
              Fetched(step, field, content)
       PROVE  /\ test' \in TestType /\ test'.step = step /\ test'.manifest = test.manifest
              /\ test'.vk = IF field = "vk" THEN content ELSE test.vk
              /\ result' = result
  <2>1. CASE field = "wasm"
    <3>1. test' = [test EXCEPT !.step = step, !.wasm = content] /\ result' = result
      BY <1>11, <2>1 DEF Fetched
    <3>2. QED
      BY <1>2, <2>1, <3>1 DEF TestType
  <2>2. CASE field = "zkey"
    <3>1. test' = [test EXCEPT !.step = step, !.zkey = content] /\ result' = result
      BY <1>11, <2>2 DEF Fetched
    <3>2. QED
      BY <1>2, <2>2, <3>1 DEF TestType
  <2>3. CASE field = "vk"
    <3>1. test' = [test EXCEPT !.step = step, !.vk = content] /\ result' = result
      BY <1>11, <2>3 DEF Fetched
    <3>2. QED
      BY <1>2, <2>3, <3>1 DEF TestType
  <2>4. QED
    BY <2>1, <2>2, <2>3 DEF PublicAssets
<1>12. ASSUME VerifyAsset PROVE Kept
  <2> DEFINE f == test.step
  <2>1. f \in PublicAssets /\ test.manifest.r1cs = None
    BY <1>12 DEF VerifyAsset, TestOK
  <2>2. CASE public[f] = test.manifest.assets[f] /\ Fetched(AdapterNext[f], f, public[f])
    <3>1. public[f] \in Assets \cup Listing
      BY <1>3, <2>1 DEF PublicFiles
    <3>2. /\ f = "wasm" => AdapterNext[f] = "zkey"
          /\ f = "zkey" => AdapterNext[f] = "vk"
          /\ f = "vk" => AdapterNext[f] = "proveWasm"
      BY DEF AdapterNext
    <3>3. AdapterNext[f] \in {"proveWasm", "proveZkey", "prove"} \cup PublicFiles
      BY <2>1, <3>2 DEF PublicAssets, PublicFiles
    <3>4. /\ test' \in TestType /\ test'.step = AdapterNext[f] /\ test'.manifest = test.manifest
          /\ f = "vk" => test'.vk = public[f]
          /\ result' = result
      BY <1>11, <2>1, <2>2, <3>1, <3>3
    <3>5. test'.step \in {"proveWasm", "proveZkey", "prove"} => f = "vk"
      BY <2>1, <3>2, <3>4 DEF PublicAssets
    <3>6. QED
      BY <2>1, <2>2, <3>4, <3>5 DEF TestOK, TestType, AnswerVerifies
  <2>3. QED
    BY <1>6, <1>12, <2>1, <2>2 DEF VerifyAsset
<1>13. ASSUME FetchAgain PROVE Kept
  <2>1. ASSUME NEW step \in {"proveZkey", "prove"}, NEW field \in {"wasm", "zkey"},
               Fetched(step, field, public[field]), test.step \in {"proveWasm", "proveZkey"}
        PROVE  Kept
    <3>1. public[field] \in Assets \cup Listing /\ field \in PublicAssets /\ field # "vk"
      BY <1>3 DEF PublicFiles, PublicAssets
    <3>2. /\ test' \in TestType /\ test'.step = step /\ test'.manifest = test.manifest
          /\ test'.vk = test.vk /\ result' = result
      BY <1>11, <2>1, <3>1
    <3>3. test.manifest.r1cs = None /\ test.vk = test.manifest.assets["vk"]
      BY <2>1 DEF TestOK
    <3>4. QED
      BY <3>2, <3>3 DEF TestOK, TestType, AnswerVerifies
  <2>2. QED
    BY <1>6, <1>13, <2>1 DEF FetchAgain, Step
<1>14. ASSUME NEW luck \in BOOLEAN, Prove(luck) PROVE Kept
  <2>1. CASE test.zkey = test.vk /\ Record(test.name, TRUE, test.zkey)
    <3>1. test.manifest.r1cs = None /\ test.vk = test.manifest.assets["vk"]
      BY <1>14 DEF Prove, Step, TestOK
    <3>2. QED
      BY <1>5, <2>1, <3>1
  <2>2. QED
    BY <1>6, <1>14, <2>1 DEF Prove
<1>15. CASE UNCHANGED vars
  BY <1>7, <1>15 DEF vars
<1>16. QED
  BY <1>7, <1>8, <1>9, <1>10, <1>12, <1>13, <1>14, <1>15 DEF Next, WorkerNext

-----------------------------------------------------------------------------
(* The theorems *)

\* The harness does not touch the files.
LEMMA HarnessLeavesFiles == [Next]_vars => [PipelineNext]_pipelineVars
<1>1. (\E name \in TestNames : Click(name)) \/ Cancel \/ WorkerNext => UNCHANGED pipelineVars
  BY DEF Click, Cancel, WorkerNext, InitAdapter, VerifyAsset, FetchAgain, Prove, Step
<1>2. QED
  BY <1>1 DEF Next, vars

\* The inductive invariant of the scripts and the harness.
THEOREM IndInvHolds == Spec => []IndInv
<1>1. Init => IndInv
  <2> SUFFICES ASSUME Init
               PROVE  IndInv
    OBVIOUS
  <2>1. PipelineInv
    BY InitPipelineInv DEF Init
  <2>2. TestOK /\ AnswerVerifies
    BY DEF Init, TestOK, AnswerVerifies, NoTest, NoResult, Assets, Compiled, PublicFiles, PublicAssets
  <2>3. QED
    BY <2>1, <2>2 DEF IndInv
<1>2. IndInv /\ [Next]_vars => IndInv'
  BY PipelineStep, TestStep, HarnessLeavesFiles DEF IndInv, PipelineInv
<1>3. QED
  BY <1>1, <1>2, PTL DEF Spec

\* Whatever an interrupted ceremony left and the server answered, a fetch that exits 0 leaves
\* the files that the committed manifests know (fetch-setup-assets.js).
THEOREM FetchIsTrue == Spec => []FetchReportTrue
<1>1. IndInv => FetchReportTrue
  BY DEF IndInv, PipelineInv
<1>2. QED
  BY <1>1, IndInvHolds, PTL

\* A gate that exits 0 has builds, keys and manifests of one circuit and one ceremony, after
\* any edits, ceremonies and kills (gate-c0.js).
THEOREM GateIsTrue == Spec => []GateReportTrue
<1>1. IndInv => GateReportTrue
  BY DEF IndInv, PipelineInv
<1>2. QED
  BY <1>1, IndInvHolds, PTL

\* Circuits that lack any constraint their fixtures pin do not pass the witness tests, whichever
\* constraints edits leave out and whenever they are built (test-witness.js).
THEOREM SuiteIsTrue == Spec => []SuiteReportTrue
<1>1. IndInv => SuiteReportTrue
  BY DEF IndInv, PipelineInv
<1>2. QED
  BY <1>1, IndInvHolds, PTL

\* A manifest in the public directory describes the files that are there, wherever staging was
\* killed (stage-assets-to-public.js).
THEOREM PublicManifestIsTrue == Spec => []PublicManifestTrue
<1>1. IndInv => PublicManifestTrue
  BY DEF IndInv, PipelineInv
<1>2. QED
  BY <1>1, IndInvHolds, PTL

\* A proof that the harness is answered verifies under the key that its session's manifest
\* lists, however staging interleaves with it (realProvingAdapter.ts).
THEOREM AnswersVerify == Spec => []AnswerVerifies
<1>1. IndInv => AnswerVerifies
  BY DEF IndInv
<1>2. QED
  BY <1>1, IndInvHolds, PTL


=============================================================================
