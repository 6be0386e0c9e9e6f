--------------------------- MODULE SetupPipeline ---------------------------
(***************************************************************************)
(* The scripts that make, fetch, check and stage the proving assets, over  *)
(* the files they share.  A file's content stands for its hash and size:   *)
(* a compiled circuit is named by the constraint its source leaves out, a  *)
(* key by the ceremony and the circuit it was made for.  One script runs   *)
(* at a time and may be killed between two steps or inside a write.  The   *)
(* release server answers what it likes.                                   *)
(***************************************************************************)
EXTENDS WitnessSuite

CONSTANTS Sources,        \* constraints an edit of the circuits may leave out
          MaxEdits, MaxCeremonies, MaxLaunches, MaxKills, \* bounds of the instance
          None, Absent, Corrupt

ASSUME SourcesAssumption == Sources \subseteq Constraints

VARIABLES
    source,     \* circuits/**: the constraint left out, or None
    build,      \* circuits/build, per rung
    setup,      \* tmp/setup: ptau and the final zkeys
    committed,  \* circuits/artifacts/manifests: per rung the manifest and the VK
    public,     \* apps/web/public/upre-assets
    script,     \* the script that runs: its name, step and rung, and whether a check failed
    report,     \* the last script and whether it exited 0, until another one starts
    spent       \* how much of each bound is used

files == <<source, build, setup, committed, public>>
pipelineVars == <<files, script, report, spent>>

Key(n, c) == [ceremony |-> n, circuit |-> c]
Manifest(c, n, key) == [r1cs |-> c, ptau |-> n, zkey |-> key, vk |-> key]
PublicAssets == {"wasm", "zkey", "vk"}
PublicFiles == PublicAssets \cup {"manifest"}

\* The repository as published: one ceremony over the full circuits.
Published == [manifest |-> Manifest(None, 1, Key(1, None)), vk |-> Key(1, None)]

NoSetup == [ptau |-> Absent, zkey |-> [r \in Rungs |-> Absent]]
Staged ==
    LET assets == [wasm |-> None, zkey |-> Key(1, None), vk |-> Key(1, None)]
    IN  [f \in PublicFiles |-> IF f = "manifest" THEN [r1cs |-> None, assets |-> assets]
                                                ELSE assets[f]]

Idle == [name |-> "none", step |-> "none", rung |-> 0, failed |-> FALSE]
NoReport == [name |-> "none", ok |-> FALSE]

\* A fresh clone, or a tree in which the assets have been fetched and staged.
PipelineInit ==
    /\ source = None
    /\ committed = [r \in Rungs |-> Published]
    /\ \/ /\ build = [r \in Rungs |-> Absent]
          /\ setup = NoSetup
          /\ public = [f \in PublicFiles |-> Absent]
       \/ /\ build = [r \in Rungs |-> IF r = 0 THEN None ELSE Absent]
          /\ setup = [ptau |-> 1, zkey |-> [r \in Rungs |-> Key(1, None)]]
          /\ public = Staged
    /\ script = Idle
    /\ report = NoReport
    /\ spent = [edits |-> 0, ceremonies |-> 1, launches |-> 0, kills |-> 0]

-----------------------------------------------------------------------------
(* A script and its steps *)

FirstStep == [compile |-> "clean", witness |-> "test", fetch |-> "ptau", gate |-> "check",
              manifests |-> "check", repro |-> "run", ceremony |-> "ptau", stage |-> "compile"]

Launch(name) ==
    /\ script = Idle /\ spent.launches < MaxLaunches
    /\ name = "ceremony" => spent.ceremonies < MaxCeremonies
    /\ script' = [Idle EXCEPT !.name = name, !.step = FirstStep[name]]
    /\ report' = NoReport
    /\ spent' = [spent EXCEPT !.launches = @ + 1,
                              !.ceremonies = IF name = "ceremony" THEN @ + 1 ELSE @]
    /\ UNCHANGED files

At(name, step) == script.name = name /\ script.step = step /\ UNCHANGED spent
Goto(step, rung) == script' = [script EXCEPT !.step = step, !.rung = rung] /\ UNCHANGED report
GotoFailing(step, failed) ==
    script' = [script EXCEPT !.step = step, !.failed = @ \/ failed] /\ UNCHANGED report
Exit(ok) == script' = Idle /\ report' = [name |-> script.name, ok |-> ok]

Edit(c) ==
    /\ script = Idle /\ spent.edits < MaxEdits /\ c # source
    /\ source' = c
    /\ spent' = [spent EXCEPT !.edits = @ + 1]
    /\ UNCHANGED <<build, setup, committed, public, script, report>>

\* A kill may leave the file being written torn.  tmp/setup/*.part, which a killed fetch
\* leaves behind, is never read.
Kill ==
    /\ script # Idle /\ spent.kills < MaxKills
    /\ spent' = [spent EXCEPT !.kills = @ + 1]
    /\ script' = Idle /\ report' = NoReport
    /\ UNCHANGED <<source, build, committed>>
    /\ \/ UNCHANGED <<setup, public>>
       \/ /\ script.name = "ceremony" /\ UNCHANGED public
          /\ \/ script.step = "ptau" /\ setup' = [setup EXCEPT !.ptau = Corrupt]
             \/ script.step = "zkey" /\ setup' = [setup EXCEPT !.zkey[script.rung] = Corrupt]
       \/ /\ script.name = "stage" /\ script.step \in PublicFiles /\ UNCHANGED setup
          /\ public' = [public EXCEPT ![script.step] = Corrupt]

-----------------------------------------------------------------------------
(* run-all-tests.sh: rm -rf circuits/build tmp, then compile both circuits *)

Clean ==
    /\ At("compile", "clean") /\ Goto("build", 0)
    /\ build' = [r \in Rungs |-> Absent]
    /\ setup' = NoSetup
    /\ UNCHANGED <<source, committed, public>>

Compile ==
    /\ At("compile", "build")
    /\ build' = [build EXCEPT ![script.rung] = source]
    /\ IF script.rung = 0 THEN Goto("build", 1) ELSE Exit(TRUE)
    /\ UNCHANGED <<source, setup, committed, public>>

\* test-witness.js: cached builds only (a missing one throws); it removes all of tmp at the end.
TestWitness ==
    /\ At("witness", "test")
    /\ IF \E r \in Rungs : build[r] = Absent
       THEN UNCHANGED setup /\ Exit(FALSE)
       ELSE /\ setup' = NoSetup
            /\ Exit(WitnessTestsPass(build))
    /\ UNCHANGED <<source, build, committed, public>>

-----------------------------------------------------------------------------
(* fetch-setup-assets.js *)

FetchStep == [ptau |-> "zkey", zkey |-> "ptv"]
Expected(step, r) == IF step = "ptau" THEN committed[0].manifest.ptau
                                      ELSE committed[r].manifest.zkey
Installed(step, r) == IF step = "ptau" THEN setup.ptau ELSE setup.zkey[r]
Answers(step, r) == {Absent, Corrupt, Expected(step, r),
                     IF step = "ptau" THEN 1 ELSE Key(1, None)}

AfterAsset(failed) ==
    IF script.step = "zkey" /\ script.rung = 0
    THEN script' = [script EXCEPT !.rung = 1, !.failed = @ \/ failed] /\ UNCHANGED report
    ELSE GotoFailing(FetchStep[script.step], failed)

\* Mutant: a file that is there is taken to be the right one.
FetchAsset_TrustPresent(answer) ==
    LET step == script.step
        r == script.rung
        present == Installed(step, r) # Absent
        good == answer = Expected(step, r)
    IN  /\ step \in {"ptau", "zkey"} /\ At("fetch", step)
        /\ setup' = IF present \/ ~ good THEN setup
                    ELSE IF step = "ptau" THEN [setup EXCEPT !.ptau = answer]
                    ELSE [setup EXCEPT !.zkey[r] = answer]
        /\ AfterAsset(~ present /\ ~ good)
        /\ UNCHANGED <<source, build, committed, public>>

\* verifyAndInstall: kept when it has the manifest's hash; otherwise what the server
\* answers replaces it, by a rename, only when that has the hash.
FetchAsset(answer) ==
    LET step == script.step
        r == script.rung
        present == Installed(step, r) = Expected(step, r)
        good == answer = Expected(step, r)
    IN  /\ step \in {"ptau", "zkey"} /\ At("fetch", step)
        /\ setup' = IF present \/ ~ good THEN setup
                    ELSE IF step = "ptau" THEN [setup EXCEPT !.ptau = answer]
                    ELSE [setup EXCEPT !.zkey[r] = answer]
        /\ AfterAsset(~ present /\ ~ good)
        /\ UNCHANGED <<source, build, committed, public>>

FetchVerifyPtau ==
    /\ At("fetch", "ptv")
    /\ Exit(~ script.failed /\ setup.ptau # Corrupt)
    /\ UNCHANGED files

-----------------------------------------------------------------------------
(* gate-c0.js, verify-manifests.js, check-setup-reproducibility.js *)

R1csMatches(r) == build[r] = committed[r].manifest.r1cs
VkMatches(r) == committed[r].vk = committed[r].manifest.vk

\* What is not in tmp/setup is not checked.
SetupMatchesIfPresent ==
    /\ setup.ptau \in {Absent, committed[0].manifest.ptau}
    /\ \A r \in Rungs : setup.zkey[r] \in {Absent, committed[r].manifest.zkey}

\* proveAndVerify: a witness of a build the zkey was not made for may or may not prove
\* (the prover reads the constraints of the zkey); luck says which.
Proves(r, luck) ==
    /\ build[r] # Absent /\ setup.zkey[r] \notin {Absent, Corrupt}
    /\ setup.zkey[r].circuit # build[r] => luck
    /\ setup.zkey[r] = committed[r].vk

\* Mutant: the R1CS checksums are not compared.
GateC0_NoR1cs(luck) ==
    /\ At("gate", "check") /\ UNCHANGED files
    /\ Exit(/\ \A r \in Rungs : VkMatches(r) /\ Proves(r, luck)
            /\ SetupMatchesIfPresent
            /\ GateWitnessesPass(build))

\* Mutated proofs and signals never verify, so these parts follow the positive proofs.
GateC0(luck) ==
    /\ At("gate", "check") /\ UNCHANGED files
    /\ Exit(/\ \A r \in Rungs : R1csMatches(r) /\ VkMatches(r) /\ Proves(r, luck)
            /\ SetupMatchesIfPresent
            /\ GateWitnessesPass(build))

VerifyManifests ==
    /\ At("manifests", "check") /\ UNCHANGED files
    /\ Exit(\A r \in Rungs : R1csMatches(r) /\ VkMatches(r))

\* Two ceremonies in a directory of their own, over the builds there are.
CheckReproducibility(same) ==
    /\ At("repro", "run") /\ Exit(same)
    /\ build' = IF \E r \in Rungs : build[r] = Absent THEN [r \in Rungs |-> source] ELSE build
    /\ UNCHANGED <<source, setup, committed, public>>

-----------------------------------------------------------------------------
(* setup-groth16.sh and write-setup-manifests.js *)

CeremonyPtau ==
    /\ At("ceremony", "ptau")
    /\ UNCHANGED <<source, build, committed, public>>
    /\ IF setup.ptau = Corrupt
       THEN UNCHANGED setup /\ Exit(FALSE)
       ELSE /\ setup' = IF setup.ptau = Absent
                        THEN [setup EXCEPT !.ptau = spent.ceremonies] ELSE setup
            /\ Goto("compile", 0)

CeremonyCompile ==
    /\ At("ceremony", "compile") /\ Goto("zkey", 0)
    /\ build' = [r \in Rungs |-> source]
    /\ UNCHANGED <<source, setup, committed, public>>

CeremonyZkey ==
    /\ At("ceremony", "zkey") /\ Goto("vk", script.rung)
    /\ setup' = [setup EXCEPT !.zkey[script.rung] = Key(spent.ceremonies, build[script.rung])]
    /\ UNCHANGED <<source, build, committed, public>>

\* The VK replaces the committed one long before the manifests are written.
CeremonyVk ==
    /\ At("ceremony", "vk")
    /\ committed' = [committed EXCEPT ![script.rung].vk = setup.zkey[script.rung]]
    /\ IF script.rung = 0 THEN Goto("zkey", 1) ELSE Goto("manifest", 0)
    /\ UNCHANGED <<source, build, setup, public>>

WriteManifest ==
    LET r == script.rung
    IN  /\ At("ceremony", "manifest")
        /\ committed' = [committed EXCEPT ![r].manifest =
                            Manifest(build[r], setup.ptau, setup.zkey[r])]
        /\ IF r = 0 THEN Goto("manifest", 1) ELSE Exit(TRUE)
        /\ UNCHANGED <<source, build, setup, public>>

-----------------------------------------------------------------------------
(* stage-assets-to-public.js *)

\* Wrong tool versions fail the script but not its steps; a missing zkey ends it.
StageCompile(wrongTools) ==
    /\ At("stage", "compile")
    /\ UNCHANGED <<source, setup, committed, public>>
    /\ IF setup.zkey[0] = Absent
       THEN UNCHANGED build /\ Exit(FALSE)
       ELSE build' = [build EXCEPT ![0] = source] /\ GotoFailing("r1cs", wrongTools)

StageR1cs ==
    /\ At("stage", "r1cs") /\ UNCHANGED files
    /\ IF R1csMatches(0) THEN GotoFailing("wipe", FALSE) ELSE Exit(FALSE)

\* Mutant: the directory is not emptied first.
StageWipe_Keep(f) ==
    At("stage", "wipe") /\ GotoFailing("wasm", FALSE) /\ UNCHANGED files

\* rmSync takes the files one by one, in whatever order the directory has them.
StageWipe(f) ==
    /\ At("stage", "wipe")
    /\ \/ /\ public[f] # Absent /\ public' = [public EXCEPT ![f] = Absent]
          /\ UNCHANGED <<script, report>>
       \/ /\ \A g \in PublicFiles : public[g] = Absent
          /\ GotoFailing("wasm", FALSE) /\ UNCHANGED public
    /\ UNCHANGED <<source, build, setup, committed>>

StageSource == [wasm |-> build[0], zkey |-> setup.zkey[0], vk |-> committed[0].vk]
StageNext == [wasm |-> "zkey", zkey |-> "vk", vk |-> "manifest"]

StageCopy ==
    /\ script.step \in PublicAssets /\ At("stage", script.step)
    /\ public' = [public EXCEPT ![script.step] = StageSource[script.step]]
    /\ GotoFailing(StageNext[script.step], FALSE)
    /\ UNCHANGED <<source, build, setup, committed>>

\* The manifest lists what was copied, whatever it was, under the R1CS hash that was checked.
StageManifest ==
    /\ At("stage", "manifest")
    /\ public' = [public EXCEPT !["manifest"] =
                    [r1cs |-> build[0], assets |-> [a \in PublicAssets |-> public[a]]]]
    /\ Exit(~ script.failed)
    /\ UNCHANGED <<source, build, setup, committed>>

-----------------------------------------------------------------------------

PipelineNext ==
    \/ \E name \in DOMAIN FirstStep : Launch(name)
    \/ \E c \in Sources \cup {None} : Edit(c)
    \/ Kill
    \/ Clean \/ Compile \/ TestWitness
    \/ script.name = "fetch" /\ script.step # "ptv"
         /\ \E answer \in Answers(script.step, script.rung) : FetchAsset(answer)
    \/ FetchVerifyPtau
    \/ \E luck \in BOOLEAN : GateC0(luck)
    \/ VerifyManifests
    \/ \E same \in BOOLEAN : CheckReproducibility(same)
    \/ CeremonyPtau \/ CeremonyCompile \/ CeremonyZkey \/ CeremonyVk \/ WriteManifest
    \/ \E wrongTools \in BOOLEAN : StageCompile(wrongTools)
    \/ StageR1cs
    \/ \E f \in PublicFiles : StageWipe(f)
    \/ StageCopy \/ StageManifest

-----------------------------------------------------------------------------
(* What an exit status of 0 means *)

Passed(name) == report.name = name /\ report.ok

\* A fetch that exits 0 leaves, for both rungs, a zkey the committed manifests know, and a
\* Powers of Tau file they know, whatever an interrupted ceremony had left behind
\* (fetch-setup-assets.js).
FetchReportTrue ==
    Passed("fetch") => /\ setup.ptau = committed[0].manifest.ptau
                       /\ \A r \in Rungs : setup.zkey[r] = committed[r].manifest.zkey

\* A gate that exits 0 has, for each rung, a build, a zkey, a VK and a manifest of one
\* circuit and one ceremony (gate-c0.js).
GateReportTrue ==
    Passed("gate") =>
        \A r \in Rungs : /\ setup.zkey[r] = committed[r].vk
                         /\ setup.zkey[r] = committed[r].manifest.zkey
                         /\ setup.zkey[r].circuit = build[r]
                         /\ committed[r].manifest.r1cs = build[r]

\* The constraints that the witness fixtures of a rung pin.  They do not pin the range of
\* the vote or of the option count on its own (voteBits, optionBits: the difference fails
\* first), nor the association root being zero (the path fails first).  Only R0 has a
\* witness with a wrong state root, and only R1 has a salt.
Pinned(r) ==
    Constraints \ {"voteBits", "optionBits", "associationRootNonZero",
                   IF r = 0 THEN "salt" ELSE "stateRoot"}

\* A witness suite that exits 0 ran over circuits that have every constraint the fixtures
\* are there to pin (test-witness.js and the two fixture scripts).
SuiteReportTrue ==
    Passed("witness") => \A r \in Rungs : build[r] \notin Pinned(r)

\* Whatever run of the staging script was killed where, the manifest in the public
\* directory never describes an asset other than the one that is there
\* (stage-assets-to-public.js).
PublicManifestTrue ==
    public["manifest"] \notin {Absent, Corrupt} =>
        \A a \in PublicAssets : public[a] \in {Absent, public["manifest"].assets[a]}

=============================================================================
