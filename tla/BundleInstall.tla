---------------------------- MODULE BundleInstall ----------------------------
(***************************************************************************)
(* Installation of the generated directory (.floceed): WriteAtomicGuarded  *)
(* in internal/bundle/bundle.go, run by concurrent processes on one target *)
(* by its three callers: floceed pull (internal/app/bundle.go), floceed    *)
(* render and fixture unpack.  The file system is the shared state: the    *)
(* target directory, <target>.backup and the O_EXCL file <target>.lock.    *)
(* Every system call the processes can race on is a step of its own; a     *)
(* process may crash between any two of them.                              *)
(*                                                                         *)
(* A bundle is named by its manifest.  LoadGenerated accepts a directory   *)
(* only when every file matches its checksums, so a complete directory is  *)
(* a member of Manifests; Torn is a directory whose removal was cut short. *)
(***************************************************************************)
CONSTANTS
  Pulls, Renders, Unpacks,  \* the writing processes, by command
  Manifests,
  Artifacts,
  ArtifactsOf,              \* the captured artifacts each manifest refers to
  NoBundle,                 \* "no such directory"
  Torn

Writers == Pulls \cup Renders \cup Unpacks
Bundles == Manifests \cup {NoBundle}

ASSUME KindsDisjoint ==
  /\ Pulls \cap Renders = {}
  /\ Pulls \cap Unpacks = {}
  /\ Renders \cap Unpacks = {}

ASSUME ManifestsAssumption ==
  /\ NoBundle \notin Manifests
  /\ Torn \notin Bundles
  /\ ArtifactsOf \in [Manifests -> SUBSET Artifacts]

VARIABLES
  target,    \* the output directory
  backup,    \* <target>.backup
  lock,      \* whether the file <target>.lock exists
  pc,        \* where each writer is
  manifest,  \* the bundle a writer is going to install (its stage directory)
  baseline,  \* baselineState and baselineProjection of a pull
  outcome,   \* what a writer is going to return
  receipt,   \* the baseline a pull reports, as it stood when its stage was installed
  found      \* history: the bundle in force when a writer created the lock

files  == <<target, backup, lock>>
locals == <<pc, manifest, baseline, outcome, receipt, found>>
vars   == <<files, locals>>

PCs == {"idle", "statted", "ready", "locked", "staged", "guarded",
        "backedUp", "missing", "swapped", "restore", "unlock"}

(* Between the O_EXCL creation of the lock file and its deferred removal. *)
Inside == {"locked", "staged", "guarded", "backedUp", "missing", "swapped",
           "restore", "unlock"}

Holds(w) == pc[w] \in Inside

Artifact(b) == IF b \in Manifests THEN ArtifactsOf[b] ELSE {}

(* The bundle the project has: while it is being replaced, the backup. *)
InForce == IF target = NoBundle THEN backup ELSE target

Goto(w, label) == pc' = [pc EXCEPT ![w] = label]

(* A return inside the locked section still runs the deferred calls. *)
Return(w, result) == /\ Goto(w, "unlock")
                     /\ outcome' = [outcome EXCEPT ![w] = result]

(* The process ends, and its variables with it. *)
Exit(w) == /\ Goto(w, "idle")
           /\ manifest' = [manifest EXCEPT ![w] = NoBundle]
           /\ baseline' = [baseline EXCEPT ![w] = NoBundle]
           /\ outcome' = [outcome EXCEPT ![w] = "none"]
           /\ found' = [found EXCEPT ![w] = NoBundle]

Init ==
  /\ target \in Bundles
  /\ backup = NoBundle
  /\ lock = FALSE
  /\ pc = [w \in Writers |-> "idle"]
  /\ manifest = [w \in Writers |-> NoBundle]
  /\ baseline = [w \in Writers |-> NoBundle]
  /\ outcome = [w \in Writers |-> "none"]
  /\ receipt = [w \in Pulls |-> NoBundle]
  /\ found = [w \in Writers |-> NoBundle]

-----------------------------------------------------------------------------
(* Before the lock: what each caller reads of the installed directory.     *)

(* loadPullBaseline: os.Stat of the target ... *)
StatBaseline(p) ==
  /\ pc[p] = "idle"
  /\ baseline' = [baseline EXCEPT ![p] = target]
  /\ IF target = NoBundle
       THEN \E m \in Manifests : /\ manifest' = [manifest EXCEPT ![p] = m]
                                 /\ Goto(p, "ready")
       ELSE Goto(p, "statted") /\ UNCHANGED manifest
  /\ UNCHANGED <<files, outcome, receipt, found>>

(* ... then LoadGenerated, which fails when another process moves or       *)
(* replaces the directory meanwhile; otherwise the capture runs and yields *)
(* some manifest.                                                          *)
LoadBaseline(p) ==
  /\ pc[p] = "statted"
  /\ \/ /\ target # NoBundle
        /\ baseline' = [baseline EXCEPT ![p] = target]
        /\ \E m \in Manifests : manifest' = [manifest EXCEPT ![p] = m]
        /\ Goto(p, "ready")
        /\ UNCHANGED <<outcome, found>>
     \/ Exit(p)
  /\ UNCHANGED <<files, receipt>>

(* Application.Render takes the manifest it will install from the target,  *)
(* without the lock; without one it fails before changing anything.        *)
ReadManifest(r) ==
  /\ pc[r] = "idle"
  /\ target # NoBundle
  /\ manifest' = [manifest EXCEPT ![r] = target]
  /\ Goto(r, "ready")
  /\ UNCHANGED <<files, baseline, outcome, receipt, found>>

(* UnpackFixture is about to extract the archive of some bundle. *)
OpenArchive(u) ==
  /\ pc[u] = "idle"
  /\ \E m \in Manifests : manifest' = [manifest EXCEPT ![u] = m]
  /\ Goto(u, "ready")
  /\ UNCHANGED <<files, baseline, outcome, receipt, found>>

-----------------------------------------------------------------------------
(* WriteAtomicGuarded                                                      *)

(* Mutant: wait for the lock file to disappear. *)
AcquireLockWaits(w) ==
  /\ pc[w] = "ready"
  /\ ~lock
  /\ lock' = TRUE
  /\ found' = [found EXCEPT ![w] = InForce]
  /\ Goto(w, "locked")
  /\ UNCHANGED <<target, backup, receipt, manifest, baseline, outcome>>

(* os.OpenFile(lock, O_CREATE|O_EXCL). *)
AcquireLock(w) ==
  /\ pc[w] = "ready"
  /\ IF lock
       THEN Exit(w) /\ UNCHANGED lock
       ELSE /\ lock' = TRUE
            /\ found' = [found EXCEPT ![w] = InForce]
            /\ Goto(w, "locked")
            /\ UNCHANGED <<manifest, baseline, outcome>>
  /\ UNCHANGED <<target, backup, receipt>>

(* A pull stages the artifacts of its own work directory and an unpack     *)
(* those of its archive; a render links them out of the target, and each   *)
(* must have the checksum the manifest names.                              *)
CanStage(w) == w \in Renders => ArtifactsOf[manifest[w]] \subseteq Artifact(target)

Build(w) ==
  /\ pc[w] = "locked"
  /\ CanStage(w)
  /\ Goto(w, "staged")
  /\ UNCHANGED <<files, manifest, baseline, outcome, receipt, found>>

(* Mutant: keep the baseline read before the capture. *)
BeforeInstallTrusts(w) ==
  /\ pc[w] = "staged"
  /\ Goto(w, "guarded")
  /\ UNCHANGED <<files, manifest, baseline, outcome, receipt, found>>

(* beforeInstall: a pull loads the baseline again, under the lock. *)
BeforeInstall(w) ==
  /\ pc[w] = "staged"
  /\ IF w \in Pulls
       THEN baseline' = [baseline EXCEPT ![w] = target]
       ELSE UNCHANGED baseline
  /\ Goto(w, "guarded")
  /\ UNCHANGED <<files, manifest, outcome, receipt, found>>

(* build or beforeInstall returned an error (cancelled, disk full,         *)
(* checksum mismatch, invalid baseline).                                   *)
Abandon(w) ==
  /\ pc[w] \in {"locked", "staged"}
  /\ Return(w, "failed")
  /\ UNCHANGED <<files, manifest, baseline, receipt, found>>

(* The three checks that lead to the first rename: a leftover backup is an *)
(* error, an absent target has nothing to back up.                         *)
RefuseBackup(w) ==
  /\ pc[w] = "guarded"
  /\ backup # NoBundle
  /\ Return(w, "failed")
  /\ UNCHANGED <<files, manifest, baseline, receipt, found>>

NothingToBackUp(w) ==
  /\ pc[w] = "guarded"
  /\ backup = NoBundle
  /\ target = NoBundle
  /\ Goto(w, "missing")
  /\ UNCHANGED <<files, manifest, baseline, outcome, receipt, found>>

BackUp(w) ==
  /\ pc[w] = "guarded"
  /\ backup = NoBundle
  /\ target # NoBundle
  /\ \/ /\ backup' = target
        /\ target' = NoBundle
        /\ Goto(w, "backedUp")
        /\ UNCHANGED outcome
     \/ /\ Return(w, "failed")     \* the rename fails
        /\ UNCHANGED <<target, backup>>
  /\ UNCHANGED <<lock, manifest, baseline, receipt, found>>

(* os.Rename(stage, target); hadTarget is what "backedUp" remembers. *)
Install(w) ==
  /\ pc[w] \in {"backedUp", "missing"}
  /\ target' = manifest[w]
  /\ IF w \in Pulls
       THEN receipt' = [receipt EXCEPT ![w] = baseline[w]]
       ELSE UNCHANGED receipt
  /\ IF pc[w] = "backedUp"
       THEN Goto(w, "swapped") /\ UNCHANGED outcome
       ELSE Return(w, "ok")
  /\ UNCHANGED <<backup, lock, manifest, baseline, found>>

InstallFails(w) ==
  /\ \/ pc[w] = "backedUp" /\ Goto(w, "restore") /\ UNCHANGED outcome
     \/ pc[w] = "missing" /\ Return(w, "failed")
  /\ UNCHANGED <<files, manifest, baseline, receipt, found>>

(* _ = os.Rename(backup, target): its own failure is ignored. *)
Restore(w) ==
  /\ pc[w] = "restore"
  /\ \/ target' = backup /\ backup' = NoBundle
     \/ UNCHANGED <<target, backup>>
  /\ Return(w, "failed")
  /\ UNCHANGED <<lock, manifest, baseline, receipt, found>>

(* Mutant: a failed removal is undone by restoring what is left.           *)
RemoveBackupRollsBack(w) ==
  /\ pc[w] = "swapped"
  /\ target' = Torn
  /\ backup' = NoBundle
  /\ Return(w, "failed")
  /\ UNCHANGED <<lock, manifest, baseline, receipt, found>>

(* Mutant: a failed removal is ignored.                                    *)
RemoveBackupIgnores(w) ==
  /\ pc[w] = "swapped"
  /\ backup' \in {NoBundle, backup, Torn}
  /\ Return(w, "ok")
  /\ UNCHANGED <<target, lock, manifest, baseline, receipt, found>>

(* os.RemoveAll(backup): a failure is returned although the new bundle is  *)
(* in place, and may leave part of the backup behind.                      *)
RemoveBackup(w) ==
  /\ pc[w] = "swapped"
  /\ \/ backup' = NoBundle /\ Return(w, "ok")
     \/ backup' \in {backup, Torn} /\ Return(w, "failed")
  /\ UNCHANGED <<target, lock, manifest, baseline, receipt, found>>

(* The deferred os.RemoveAll(stage) and os.Remove(lock). *)
Unlock(w) ==
  /\ pc[w] = "unlock"
  /\ lock' = FALSE
  /\ Exit(w)
  /\ UNCHANGED <<target, backup, receipt>>

(* The process dies: no deferred call runs.  Death inside RemoveAll leaves *)
(* part of the backup.                                                     *)
Crash(w) ==
  /\ pc[w] # "idle"
  /\ Exit(w)
  /\ \/ UNCHANGED backup
     \/ pc[w] = "swapped" /\ backup' = Torn
  /\ UNCHANGED <<target, lock, receipt>>

-----------------------------------------------------------------------------
(* The operator, following the error messages: nothing in the code undoes  *)
(* a crash.                                                                *)

RemoveStaleLock ==
  /\ lock
  /\ \A w \in Writers : ~Holds(w)
  /\ lock' = FALSE
  /\ UNCHANGED <<target, backup, locals>>

RecoverBackup ==
  /\ backup # NoBundle
  /\ \A w \in Writers : ~Holds(w)
  /\ target' = IF target = NoBundle THEN backup ELSE target
  /\ backup' = NoBundle
  /\ UNCHANGED <<lock, locals>>

-----------------------------------------------------------------------------
Prepare(w) == \/ w \in Pulls /\ (StatBaseline(w) \/ LoadBaseline(w))
              \/ w \in Renders /\ ReadManifest(w)
              \/ w \in Unpacks /\ OpenArchive(w)

Write(w) == \/ AcquireLock(w) \/ Build(w) \/ BeforeInstall(w) \/ Abandon(w)
            \/ RefuseBackup(w) \/ NothingToBackUp(w) \/ BackUp(w)
            \/ Install(w) \/ InstallFails(w) \/ Restore(w)
            \/ RemoveBackup(w) \/ Unlock(w)

Operator == RemoveStaleLock \/ RecoverBackup

Next == \/ \E w \in Writers : Prepare(w) \/ Write(w) \/ Crash(w)
        \/ Operator

Spec == Init /\ [][Next]_vars

(* A running process keeps running; nothing obliges it to start a command. *)
FairSpec == Spec /\ \A w \in Writers : WF_vars(Write(w))

-----------------------------------------------------------------------------
(* Types of the variables. *)
TypeOK ==
  /\ target \in Bundles
  /\ backup \in Bundles \cup {Torn}
  /\ lock \in BOOLEAN
  /\ pc \in [Writers -> PCs]
  /\ manifest \in [Writers -> Bundles]
  /\ baseline \in [Writers -> Bundles]
  /\ outcome \in [Writers -> {"none", "ok", "failed"}]
  /\ receipt \in [Pulls -> Bundles]
  /\ found \in [Writers -> Bundles \cup {Torn}]

(* The O_EXCL lock file keeps two processes, of whatever command, from     *)
(* staging and renaming at once, and exists as long as one does, also      *)
(* across crashes and an operator's removal of a stale file.               *)
OneInstaller ==
  /\ \A w, v \in Writers : Holds(w) /\ Holds(v) => w = v
  /\ \A w \in Writers : Holds(w) => lock

(* Whatever fails or crashes between the two renames and the removal of    *)
(* the backup, and whatever the next process then does, a project that     *)
(* ever had a bundle keeps a complete one in the target or in the backup.  *)
BundleNeverLost ==
  [][(InForce \in Manifests) => (InForce' \in Manifests)]_vars

(* When a writer has returned, under its lock, the bundle in force is the  *)
(* one it found or the one it staged; success means the latter, with no    *)
(* backup left to block the next installation.                             *)
AllOrNothing ==
  \A w \in Writers : pc[w] = "unlock" =>
    /\ outcome[w] = "ok" => target = manifest[w] /\ backup = NoBundle
    /\ outcome[w] = "failed" => InForce \in {found[w], manifest[w]}

(* Installation implements an atomic register: receipts of pulls compare   *)
(* with the bundle that the same rename put out of force, in every         *)
(* interleaving with renders, unpacks, other pulls, crashes and repairs.   *)
Register == INSTANCE BundleRegister WITH current <- InForce, replaced <- receipt

InstallsAtomically == Register!Spec

(* The render lock never blocks: a command that wants to install returns,  *)
(* also when a crashed process left the lock file behind.                  *)
InstallerReturns == \A w \in Writers : pc[w] = "ready" ~> pc[w] = "idle"
=============================================================================
