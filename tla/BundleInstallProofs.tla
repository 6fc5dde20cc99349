------------------------- MODULE BundleInstallProofs -------------------------
(***************************************************************************)
(* Proofs about BundleInstall, for any sets of pulls, renders, unpacks and *)
(* manifests.  OneInstaller is inductive given the types; everything else  *)
(* follows from what the one process inside the locked section knows about *)
(* the two directories at each of its steps (Progress), together with the  *)
(* fact that a torn backup always has a complete target beside it.         *)
(***************************************************************************)
EXTENDS BundleInstall, TLAPS

USE DEF Writers, Bundles

(* What the process holding the lock has established. *)
Known(w) ==
  /\ pc[w] \notin {"idle", "statted"} => manifest[w] \in Manifests
  /\ Holds(w) /\ pc[w] \notin {"swapped", "unlock"} => found[w] = InForce
  /\ pc[w] = "guarded" /\ w \in Pulls => baseline[w] = target
  /\ pc[w] = "backedUp" =>
       /\ target = NoBundle
       /\ backup \in Manifests
       /\ w \in Pulls => baseline[w] = backup
  /\ pc[w] = "missing" =>
       /\ target = NoBundle
       /\ backup = NoBundle
       /\ w \in Pulls => baseline[w] = NoBundle
  /\ pc[w] = "restore" => target = NoBundle /\ backup \in Manifests
  /\ pc[w] = "swapped" => target = manifest[w]
  /\ pc[w] = "unlock" =>
       /\ outcome[w] = "ok" => target = manifest[w] /\ backup = NoBundle
       /\ outcome[w] = "failed" => InForce \in {found[w], manifest[w]}

Progress == \A w \in Writers : Known(w)

TornHasTarget == backup = Torn => target # NoBundle

IInv == TypeOK /\ OneInstaller /\ Progress /\ TornHasTarget

-----------------------------------------------------------------------------
(* The initial state satisfies the invariant. *)
LEMMA InitInv == Init => IInv
<1> SUFFICES ASSUME Init PROVE IInv
  OBVIOUS
<1> USE ManifestsAssumption DEF Init
<1>1. TypeOK
  BY DEF TypeOK, PCs
<1>2. OneInstaller
  BY DEF OneInstaller, Holds, Inside
<1>3. Progress
  BY DEF Progress, Known, Holds, Inside
<1>4. TornHasTarget
  BY DEF TornHasTarget
<1> QED
  BY <1>1, <1>2, <1>3, <1>4 DEF IInv

(* What a process outside the locked section knows is only its manifest,   *)
(* so a step that leaves its own variables alone cannot disturb it.        *)
LEMMA OutsiderKeeps ==
  ASSUME NEW v \in Writers, Known(v), ~Holds(v),
         pc'[v] = pc[v], manifest'[v] = manifest[v]
  PROVE  Known(v)'
BY DEF Known, Holds, Inside

(* Every step of a process, whole, preserves the invariant: the frame of   *)
(* the other processes' knowledge is OutsiderKeeps, since at most one of   *)
(* them is inside.                                                         *)
LEMMA PrepareInv == \A w \in Writers : IInv /\ Prepare(w) => IInv'
<1> SUFFICES ASSUME NEW w \in Writers, IInv, Prepare(w) PROVE IInv'
  OBVIOUS
<1> USE ManifestsAssumption
    DEF TypeOK, PCs, Goto, Return, Exit, files, InForce, Holds, Inside
<1> USE DEF IInv
<1>a. \A v \in Writers : Known(v)
  BY DEF Progress
<1>1. CASE StatBaseline(w)
  <2>1. TypeOK'
    BY <1>1, <1>a DEF StatBaseline, Known
  <2>2. OneInstaller'
    BY <1>1 DEF StatBaseline, OneInstaller
  <2>3. Known(w)'
    BY <1>1, <1>a DEF StatBaseline, Known, TornHasTarget
  <2>4. ASSUME NEW v \in Writers, v # w PROVE Known(v)'
    BY <1>1, <1>a, <2>4, OutsiderKeeps DEF StatBaseline, OneInstaller, Known
  <2>5. TornHasTarget'
    BY <1>1, <1>a DEF StatBaseline, Known, TornHasTarget
  <2> QED
    BY <2>1, <2>2, <2>3, <2>4, <2>5 DEF Progress
<1>2. CASE LoadBaseline(w)
  <2>1. TypeOK'
    BY <1>2, <1>a DEF LoadBaseline, Known
  <2>2. OneInstaller'
    BY <1>2 DEF LoadBaseline, OneInstaller
  <2>3. Known(w)'
    BY <1>2, <1>a DEF LoadBaseline, Known, TornHasTarget
  <2>4. ASSUME NEW v \in Writers, v # w PROVE Known(v)'
    BY <1>2, <1>a, <2>4, OutsiderKeeps DEF LoadBaseline, OneInstaller, Known
  <2>5. TornHasTarget'
    BY <1>2, <1>a DEF LoadBaseline, Known, TornHasTarget
  <2> QED
    BY <2>1, <2>2, <2>3, <2>4, <2>5 DEF Progress
<1>3. CASE ReadManifest(w)
  <2>1. TypeOK'
    BY <1>3, <1>a DEF ReadManifest, Known
  <2>2. OneInstaller'
    BY <1>3 DEF ReadManifest, OneInstaller
  <2>3. Known(w)'
    BY <1>3, <1>a DEF ReadManifest, Known, TornHasTarget
  <2>4. ASSUME NEW v \in Writers, v # w PROVE Known(v)'
    BY <1>3, <1>a, <2>4, OutsiderKeeps DEF ReadManifest, OneInstaller, Known
  <2>5. TornHasTarget'
    BY <1>3, <1>a DEF ReadManifest, Known, TornHasTarget
  <2> QED
    BY <2>1, <2>2, <2>3, <2>4, <2>5 DEF Progress
<1>4. CASE OpenArchive(w)
  <2>1. TypeOK'
    BY <1>4, <1>a DEF OpenArchive, Known
  <2>2. OneInstaller'
    BY <1>4 DEF OpenArchive, OneInstaller
  <2>3. Known(w)'
    BY <1>4, <1>a DEF OpenArchive, Known, TornHasTarget
  <2>4. ASSUME NEW v \in Writers, v # w PROVE Known(v)'
    BY <1>4, <1>a, <2>4, OutsiderKeeps DEF OpenArchive, OneInstaller, Known
  <2>5. TornHasTarget'
    BY <1>4, <1>a DEF OpenArchive, Known, TornHasTarget
  <2> QED
    BY <2>1, <2>2, <2>3, <2>4, <2>5 DEF Progress
<1> QED
  BY <1>1, <1>2, <1>3, <1>4 DEF Prepare

LEMMA WriteInv == \A w \in Writers : IInv /\ Write(w) => IInv'
<1> SUFFICES ASSUME NEW w \in Writers, IInv, Write(w) PROVE IInv'
  OBVIOUS
<1> USE ManifestsAssumption
    DEF TypeOK, PCs, Goto, Return, Exit, files, InForce, Holds, Inside
<1> USE DEF IInv
<1>a. \A v \in Writers : Known(v)
  BY DEF Progress
<1>1. CASE AcquireLock(w)
  <2>1. TypeOK'
    <3> DEFINE b == InForce
    <3>1. b \in Bundles \cup {Torn}
      OBVIOUS
    <3> HIDE DEF b
    <3>2. /\ lock' \in BOOLEAN
          /\ pc' \in [Writers -> PCs]
          /\ \/ found' = [found EXCEPT ![w] = b]
             \/ found' = [found EXCEPT ![w] = NoBundle]
      BY <1>1 DEF AcquireLock, b
    <3> QED
      BY <1>1, <3>1, <3>2 DEF AcquireLock
  <2>2. OneInstaller'
    BY <1>1 DEF AcquireLock, OneInstaller
  <2>3. Known(w)'
    BY <1>1, <1>a DEF AcquireLock, Known, TornHasTarget
  <2>4. ASSUME NEW v \in Writers, v # w PROVE Known(v)'
    BY <1>1, <1>a, <2>4, OutsiderKeeps DEF AcquireLock, OneInstaller, Known
  <2>5. TornHasTarget'
    BY <1>1, <1>a DEF AcquireLock, Known, TornHasTarget
  <2> QED
    BY <2>1, <2>2, <2>3, <2>4, <2>5 DEF Progress
<1>2. CASE Build(w)
  <2>1. TypeOK'
    BY <1>2, <1>a DEF Build, Known
  <2>2. OneInstaller'
    BY <1>2 DEF Build, OneInstaller
  <2>3. Known(w)'
    BY <1>2, <1>a DEF Build, Known, TornHasTarget
  <2>4. ASSUME NEW v \in Writers, v # w PROVE Known(v)'
    BY <1>2, <1>a, <2>4, OutsiderKeeps DEF Build, OneInstaller, Known
  <2>5. TornHasTarget'
    BY <1>2, <1>a DEF Build, Known, TornHasTarget
  <2> QED
    BY <2>1, <2>2, <2>3, <2>4, <2>5 DEF Progress
<1>3. CASE BeforeInstall(w)
  <2>1. TypeOK'
    BY <1>3, <1>a DEF BeforeInstall, Known
  <2>2. OneInstaller'
    BY <1>3 DEF BeforeInstall, OneInstaller
  <2>3. Known(w)'
    BY <1>3, <1>a DEF BeforeInstall, Known, TornHasTarget
  <2>4. ASSUME NEW v \in Writers, v # w PROVE Known(v)'
    BY <1>3, <1>a, <2>4, OutsiderKeeps DEF BeforeInstall, OneInstaller, Known
  <2>5. TornHasTarget'
    BY <1>3, <1>a DEF BeforeInstall, Known, TornHasTarget
  <2> QED
    BY <2>1, <2>2, <2>3, <2>4, <2>5 DEF Progress
<1>4. CASE Abandon(w)
  <2>1. TypeOK'
    BY <1>4, <1>a DEF Abandon, Known
  <2>2. OneInstaller'
    BY <1>4 DEF Abandon, OneInstaller
  <2>3. Known(w)'
    BY <1>4, <1>a DEF Abandon, Known, TornHasTarget
  <2>4. ASSUME NEW v \in Writers, v # w PROVE Known(v)'
    BY <1>4, <1>a, <2>4, OutsiderKeeps DEF Abandon, OneInstaller, Known
  <2>5. TornHasTarget'
    BY <1>4, <1>a DEF Abandon, Known, TornHasTarget
  <2> QED
    BY <2>1, <2>2, <2>3, <2>4, <2>5 DEF Progress
<1>5. CASE RefuseBackup(w)
  <2>1. TypeOK'
    BY <1>5, <1>a DEF RefuseBackup, Known
  <2>2. OneInstaller'
    BY <1>5 DEF RefuseBackup, OneInstaller
  <2>3. Known(w)'
    BY <1>5, <1>a DEF RefuseBackup, Known, TornHasTarget
  <2>4. ASSUME NEW v \in Writers, v # w PROVE Known(v)'
    BY <1>5, <1>a, <2>4, OutsiderKeeps DEF RefuseBackup, OneInstaller, Known
  <2>5. TornHasTarget'
    BY <1>5, <1>a DEF RefuseBackup, Known, TornHasTarget
  <2> QED
    BY <2>1, <2>2, <2>3, <2>4, <2>5 DEF Progress
<1>6. CASE NothingToBackUp(w)
  <2>1. TypeOK'
    BY <1>6, <1>a DEF NothingToBackUp, Known
  <2>2. OneInstaller'
    BY <1>6 DEF NothingToBackUp, OneInstaller
  <2>3. Known(w)'
    BY <1>6, <1>a DEF NothingToBackUp, Known, TornHasTarget
  <2>4. ASSUME NEW v \in Writers, v # w PROVE Known(v)'
    BY <1>6, <1>a, <2>4, OutsiderKeeps DEF NothingToBackUp, OneInstaller, Known
  <2>5. TornHasTarget'
    BY <1>6, <1>a DEF NothingToBackUp, Known, TornHasTarget
  <2> QED
    BY <2>1, <2>2, <2>3, <2>4, <2>5 DEF Progress
<1>7. CASE BackUp(w)
  <2>1. TypeOK'
    BY <1>7, <1>a DEF BackUp, Known
  <2>2. OneInstaller'
    BY <1>7 DEF BackUp, OneInstaller
  <2>3. Known(w)'
    BY <1>7, <1>a DEF BackUp, Known, TornHasTarget
  <2>4. ASSUME NEW v \in Writers, v # w PROVE Known(v)'
    BY <1>7, <1>a, <2>4, OutsiderKeeps DEF BackUp, OneInstaller, Known
  <2>5. TornHasTarget'
    BY <1>7, <1>a DEF BackUp, Known, TornHasTarget
  <2> QED
    BY <2>1, <2>2, <2>3, <2>4, <2>5 DEF Progress
<1>8. CASE Install(w)
  <2>1. TypeOK'
    BY <1>8, <1>a DEF Install, Known
  <2>2. OneInstaller'
    BY <1>8 DEF Install, OneInstaller
  <2>3. Known(w)'
    BY <1>8, <1>a DEF Install, Known, TornHasTarget
  <2>4. ASSUME NEW v \in Writers, v # w PROVE Known(v)'
    BY <1>8, <1>a, <2>4, OutsiderKeeps DEF Install, OneInstaller, Known
  <2>5. TornHasTarget'
    BY <1>8, <1>a DEF Install, Known, TornHasTarget
  <2> QED
    BY <2>1, <2>2, <2>3, <2>4, <2>5 DEF Progress
<1>9. CASE InstallFails(w)
  <2>1. TypeOK'
    BY <1>9, <1>a DEF InstallFails, Known
  <2>2. OneInstaller'
    BY <1>9 DEF InstallFails, OneInstaller
  <2>3. Known(w)'
    BY <1>9, <1>a DEF InstallFails, Known, TornHasTarget
  <2>4. ASSUME NEW v \in Writers, v # w PROVE Known(v)'
    BY <1>9, <1>a, <2>4, OutsiderKeeps DEF InstallFails, OneInstaller, Known
  <2>5. TornHasTarget'
    BY <1>9, <1>a DEF InstallFails, Known, TornHasTarget
  <2> QED
    BY <2>1, <2>2, <2>3, <2>4, <2>5 DEF Progress
<1>10. CASE Restore(w)
  <2>1. TypeOK'
    BY <1>10, <1>a DEF Restore, Known
  <2>2. OneInstaller'
    BY <1>10 DEF Restore, OneInstaller
  <2>3. Known(w)'
    BY <1>10, <1>a DEF Restore, Known, TornHasTarget
  <2>4. ASSUME NEW v \in Writers, v # w PROVE Known(v)'
    BY <1>10, <1>a, <2>4, OutsiderKeeps DEF Restore, OneInstaller, Known
  <2>5. TornHasTarget'
    BY <1>10, <1>a DEF Restore, Known, TornHasTarget
  <2> QED
    BY <2>1, <2>2, <2>3, <2>4, <2>5 DEF Progress
<1>11. CASE RemoveBackup(w)
  <2>1. TypeOK'
    BY <1>11, <1>a DEF RemoveBackup, Known
  <2>2. OneInstaller'
    BY <1>11 DEF RemoveBackup, OneInstaller
  <2>3. Known(w)'
    BY <1>11, <1>a DEF RemoveBackup, Known, TornHasTarget
  <2>4. ASSUME NEW v \in Writers, v # w PROVE Known(v)'
    BY <1>11, <1>a, <2>4, OutsiderKeeps DEF RemoveBackup, OneInstaller, Known
  <2>5. TornHasTarget'
    BY <1>11, <1>a DEF RemoveBackup, Known, TornHasTarget
  <2> QED
    BY <2>1, <2>2, <2>3, <2>4, <2>5 DEF Progress
<1>12. CASE Unlock(w)
  <2>1. TypeOK'
    BY <1>12, <1>a DEF Unlock, Known
  <2>2. OneInstaller'
    BY <1>12 DEF Unlock, OneInstaller
  <2>3. Known(w)'
    BY <1>12, <1>a DEF Unlock, Known, TornHasTarget
  <2>4. ASSUME NEW v \in Writers, v # w PROVE Known(v)'
    BY <1>12, <1>a, <2>4, OutsiderKeeps DEF Unlock, OneInstaller, Known
  <2>5. TornHasTarget'
    BY <1>12, <1>a DEF Unlock, Known, TornHasTarget
  <2> QED
    BY <2>1, <2>2, <2>3, <2>4, <2>5 DEF Progress
<1> QED
  BY <1>1, <1>2, <1>3, <1>4, <1>5, <1>6, <1>7, <1>8, <1>9, <1>10, <1>11, <1>12 DEF Write

(* A crash leaves the files as they are, so the invariant must already     *)
(* hold of them without the process that knew more.                        *)
LEMMA CrashInv == \A w \in Writers : IInv /\ Crash(w) => IInv'
<1> SUFFICES ASSUME NEW w \in Writers, IInv, Crash(w) PROVE IInv'
  OBVIOUS
<1> USE ManifestsAssumption
    DEF TypeOK, PCs, Goto, Exit, InForce, Holds, Inside, IInv
<1>a. \A v \in Writers : Known(v)
  BY DEF Progress
<1>1. TypeOK'
  BY DEF Crash
<1>2. OneInstaller'
  BY DEF Crash, OneInstaller
<1>3. Known(w)'
  BY <1>a DEF Crash, Known
<1>4. ASSUME NEW v \in Writers, v # w PROVE Known(v)'
  <2>1. pc[w] = "swapped" => ~Holds(v)
    BY <1>4 DEF OneInstaller
  <2>2. UNCHANGED <<target, lock>> /\ (pc[w] # "swapped" => UNCHANGED backup)
    BY DEF Crash
  <2> QED
    BY <1>a, <1>4, <2>1, <2>2 DEF Crash, Known
<1>5. TornHasTarget'
  BY <1>a DEF Crash, Known, TornHasTarget
<1> QED
  BY <1>1, <1>2, <1>3, <1>4, <1>5 DEF Progress

(* Repairs happen only while nobody is inside.                             *)
LEMMA OperatorInv == IInv /\ Operator => IInv'
<1> SUFFICES ASSUME IInv, Operator PROVE IInv'
  OBVIOUS
<1> USE ManifestsAssumption
    DEF TypeOK, InForce, Holds, Inside, IInv, Operator, RemoveStaleLock,
        RecoverBackup, locals
<1>1. TypeOK'
  BY DEF TornHasTarget
<1>2. OneInstaller'
  BY DEF OneInstaller
<1>3. Progress'
  BY DEF Progress, Known
<1>4. TornHasTarget'
  BY DEF TornHasTarget
<1> QED
  BY <1>1, <1>2, <1>3, <1>4

LEMMA StepInv == IInv /\ [Next]_vars => IInv'
<1>1. IInv /\ UNCHANGED vars => IInv'
  BY DEF IInv, TypeOK, OneInstaller, Progress, Known, TornHasTarget, Holds,
         InForce, vars, files, locals
<1> QED
  BY <1>1, PrepareInv, WriteInv, CrashInv, OperatorInv DEF Next

(* IInv holds in every reachable state: what the theorems below rest on.   *)
THEOREM Invariance == Spec => []IInv
BY InitInv, StepInv, PTL DEF Spec

(* The variables of WriteAtomicGuarded and its callers keep their types.   *)
THEOREM TypeCorrect == Spec => []TypeOK
<1>1. IInv => TypeOK
  BY DEF IInv
<1> QED
  BY <1>1, Invariance, PTL

(* The lock file excludes every second installer, also across crashes and  *)
(* the removal of stale lock files.                                        *)
THEOREM MutualExclusion == Spec => []OneInstaller
<1>1. IInv => OneInstaller
  BY DEF IInv
<1> QED
  BY <1>1, Invariance, PTL

(* A writer that returns leaves in force the bundle it found or its own.   *)
THEOREM ReturnsAllOrNothing == Spec => []AllOrNothing
<1>1. IInv => AllOrNothing
  BY DEF IInv, Progress, Known, AllOrNothing
<1> QED
  BY <1>1, Invariance, PTL

-----------------------------------------------------------------------------
(* How each step looks through the refinement mapping: only the rename     *)
(* that installs a stage changes the bundle in force.                      *)
LEMMA StepSwaps ==
  IInv /\ [Next]_vars =>
    \/ UNCHANGED <<InForce, receipt>>
    \/ \E w \in Writers :
         /\ manifest[w] \in Manifests
         /\ InForce' = manifest[w]
         /\ receipt' = IF w \in Pulls THEN [receipt EXCEPT ![w] = InForce]
                                      ELSE receipt
<1> SUFFICES ASSUME IInv, [Next]_vars
             PROVE  \/ UNCHANGED <<InForce, receipt>>
                    \/ \E w \in Writers :
                         /\ manifest[w] \in Manifests
                         /\ InForce' = manifest[w]
                         /\ receipt' = IF w \in Pulls
                                         THEN [receipt EXCEPT ![w] = InForce]
                                         ELSE receipt
  OBVIOUS
<1> USE ManifestsAssumption DEF IInv, TypeOK, InForce
<1>a. \A w \in Writers : Known(w)
  BY DEF Progress
<1>1. ASSUME NEW w \in Writers, Prepare(w) PROVE UNCHANGED <<InForce, receipt>>
  BY <1>1 DEF Prepare, StatBaseline, LoadBaseline, ReadManifest, OpenArchive, files
<1>2. ASSUME NEW w \in Writers, Install(w)
      PROVE  /\ manifest[w] \in Manifests
             /\ InForce' = manifest[w]
             /\ receipt' = IF w \in Pulls THEN [receipt EXCEPT ![w] = InForce]
                                          ELSE receipt
  BY <1>2, <1>a DEF Install, Known
<1>3. ASSUME NEW w \in Writers, Write(w), ~Install(w)
      PROVE  UNCHANGED <<InForce, receipt>>
  <2>1. CASE AcquireLock(w) \/ Build(w) \/ BeforeInstall(w) \/ Abandon(w)
             \/ RefuseBackup(w) \/ NothingToBackUp(w) \/ InstallFails(w)
             \/ Unlock(w)
    BY <2>1 DEF AcquireLock, Build, BeforeInstall, Abandon, RefuseBackup,
                NothingToBackUp, InstallFails, Unlock, files
  <2>2. CASE BackUp(w)
    BY <2>2 DEF BackUp
  <2>3. CASE Restore(w)
    BY <2>3, <1>a DEF Restore, Known
  <2>4. CASE RemoveBackup(w)
    BY <2>4, <1>a DEF RemoveBackup, Known
  <2> QED
    BY <1>3, <2>1, <2>2, <2>3, <2>4 DEF Write
<1>4. ASSUME NEW w \in Writers, Crash(w) PROVE UNCHANGED <<InForce, receipt>>
  BY <1>4, <1>a DEF Crash, Known
<1>5. ASSUME Operator PROVE UNCHANGED <<InForce, receipt>>
  BY <1>5 DEF Operator, RemoveStaleLock, RecoverBackup, locals, TornHasTarget
<1>6. CASE UNCHANGED vars
  BY <1>6 DEF vars, files, locals
<1> QED
  BY <1>1, <1>2, <1>3, <1>4, <1>5, <1>6 DEF Next

(* Under any interleaving, failure, crash and repair the target and its    *)
(* backup implement an atomic register, and a pull's receipt compares      *)
(* against exactly the bundle its installation replaced.                   *)
THEOREM Refinement == Spec => InstallsAtomically
<1>1. Init => Register!Init
  BY ManifestsAssumption DEF Init, Register!Init, InForce
<1>2. IInv /\ [Next]_vars => [Register!Next]_(Register!vars)
  BY StepSwaps, Zenon DEF Register!Next, Register!PullSwap, Register!PlainSwap, Register!vars
<1> QED
  BY <1>1, <1>2, Invariance, PTL DEF Spec, InstallsAtomically, Register!Spec

(* No step, crash included, leaves a project without a complete bundle     *)
(* once it had one.                                                        *)
THEOREM NeverLost == Spec => BundleNeverLost
<1>1. IInv /\ [Next]_vars
        => [(InForce \in Manifests) => (InForce' \in Manifests)]_vars
  BY StepSwaps
<1> QED
  BY <1>1, Invariance, PTL DEF Spec, BundleNeverLost
=============================================================================
