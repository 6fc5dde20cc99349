-------------------------------- MODULE Pull --------------------------------
(***************************************************************************)
(* PullWithOptions in internal/app/bundle.go around the capture pool: a    *)
(* pull that resumes from a work directory, which a second floceed process *)
(* may want too.  Its flock, its checkpoints, the installation of what was *)
(* captured, the publication in the ledger and the removal of the work     *)
(* directory are here; how a bundle replaces another (BundleInstall), how  *)
(* the ledger stores (CaptureLedger) and what an adapter's checkpoint      *)
(* holds (DynamoCapture, S3Capture) are modules of their own.              *)
(***************************************************************************)
EXTENDS CapturePool

CONSTANTS
  Requests,  \* what is asked: [project, options, policy], the project file, what it
             \* says of how resources are captured, and the effective policy
  None,      \* nothing there
  MaxPulls   \* bound: the pulls the two processes start in all

Pullers == {"pull", "rival"}  \* the rival runs the same code, in coarser steps

Fields(r) == DOMAIN r = {"project", "options", "policy"}

ASSUME RequestsAssumption ==
  /\ \A r \in Requests : Fields(r)
  /\ None \notin Requests
  /\ None \notin Pullers
  /\ None \notin [request : Requests, by : Pullers]
  /\ MaxPulls \in Nat

(* Mutant: an edited project file finds the checkpoints of the old one. *)
PolicyFingerprint(r) == [project |-> "any", options |-> "any", policy |-> r.policy]

(* captureFingerprint, which names the work directory; a hash is taken as  *)
(* what it is a hash of.                                                   *)
Fingerprint(r) == r

Directories == {Fingerprint(r) : r \in Requests}

(* The data of one resource: the request it was captured for, and by whom. *)
Data == [request : Requests, by : Pullers]

VARIABLES
  phase,      \* where each process is in PullWithOptions
  request,    \* what it pulls
  lock,       \* the holder of the flock beside each work directory
  work,       \* checkpoints and artifacts in each work directory, by job
  snapshots,  \* captured.Snapshots of each process, in memory
  target,     \* the installed bundle: [request, data]
  ledger,     \* the data that LoadCandidates finds, by job
  installed,  \* history: the data of every bundle that was installed
  pulls       \* pulls that were started

pool     == <<state, outcome, slots, ctx, caller, examined, captureErr>>
pullVars == <<phase, request, lock, work, snapshots, target, ledger, installed, pulls>>
pullAll  == <<pool, pullVars>>

Phases  == {"idle", "capturing", "captured", "installed", "published"}
Nothing == [j \in Jobs |-> None]
Dir(w)  == Fingerprint(request[w])

(* No goroutine is there; the pool is as a capture leaves it.              *)
PullInit ==
  /\ state = [j \in Jobs |-> "done"]
  /\ outcome = [j \in Jobs |-> "captured"]
  /\ slots = 0 /\ ctx = "live" /\ caller = "none" /\ examined = N /\ captureErr = 0
  /\ phase = [w \in Pullers |-> "idle"]
  /\ request = [w \in Pullers |-> None]
  /\ lock = [f \in Directories |-> None]
  /\ work = [f \in Directories |-> Nothing]
  /\ snapshots = [w \in Pullers |-> Nothing]
  /\ target = None
  /\ ledger = Nothing
  /\ installed = {}
  /\ pulls = 0

Pool(s, o, e) ==
  /\ state' = [j \in Jobs |-> s]
  /\ outcome' = [j \in Jobs |-> o]
  /\ slots' = 0 /\ ctx' = "live" /\ caller' = "none" /\ examined' = e /\ captureErr' = 0

(* capture starts a goroutine per job, in a context of its own; the end of *)
(* the process ends them all.                                              *)
Launch == Pool("waiting", "none", -1)
Kill   == Pool("done", "captured", N)

Enter(w, p) == phase' = [phase EXCEPT ![w] = p]

(* PullWithOptions returns: its variables are gone, the deferred release   *)
(* gives the lock back, and the work directory stays.                      *)
Leave(w) ==
  /\ Enter(w, "idle")
  /\ request' = [request EXCEPT ![w] = None]
  /\ snapshots' = [snapshots EXCEPT ![w] = Nothing]
  /\ lock' = [lock EXCEPT ![Dir(w)] = None]

(* Mutant: a failure cleans up behind itself. *)
FailCleans(w) == Leave(w) /\ work' = [work EXCEPT ![Dir(w)] = Nothing]

Fail(w) == Leave(w) /\ UNCHANGED work

-----------------------------------------------------------------------------
(* What precedes the lock changes nothing and may refuse: the project and  *)
(* the policy are validated, the installed bundle is checked, the source   *)
(* is opened and its permissions are probed.  The flock is not waited for: *)
(* while another process holds it, the pull ends (CAPTURE_IN_PROGRESS).    *)
(* --restart then empties the directory.                                   *)
Begin(w) ==
  /\ phase[w] = "idle"
  /\ pulls < MaxPulls
  /\ pulls' = pulls + 1
  /\ \E r \in Requests, restart \in BOOLEAN :
       LET f == Fingerprint(r) IN
       IF lock[f] = None
         THEN /\ lock' = [lock EXCEPT ![f] = w]
              /\ request' = [request EXCEPT ![w] = r]
              /\ work' = IF restart THEN [work EXCEPT ![f] = Nothing] ELSE work
              /\ Enter(w, "capturing")
              /\ IF w = "pull" THEN Launch ELSE UNCHANGED pool
         ELSE UNCHANGED <<phase, request, lock, work, pool>>
  /\ UNCHANGED <<snapshots, target, ledger, installed>>

(* What an adapter's checkpoint is compared with before it is resumed.  It *)
(* names most of the options, but not gzip, say: requests that differ in   *)
(* their options differ in such a one.                                     *)
CaptureIdentity(r) == r.policy

(* The digest by which the ledger's data of a resource is looked up: of    *)
(* all that shapes a capture, but of nothing else in the project file.     *)
CaptureDefinition(r) == [options |-> r.options, policy |-> r.policy]

(* What an adapter may return: the completed capture in its checkpoint; or *)
(* else a new one, or, if it proves fresh, the ledger's data of the same   *)
(* capture definition, whichever project it was captured for.              *)
Obtainable(w, j) ==
  LET kept  == work[Dir(w)][j]
      fresh == [request |-> request[w], by |-> w]
  IN  IF kept # None
        THEN {d \in {kept} : CaptureIdentity(d.request) = CaptureIdentity(request[w])}
        ELSE {fresh} \cup {d \in {ledger[j]} \ {None} :
                             CaptureDefinition(d.request) = CaptureDefinition(request[w])}

Adapter(w, j) ==
  \E d \in Obtainable(w, j) :
    /\ snapshots' = [snapshots EXCEPT ![w][j] = d]
    /\ work' = [work EXCEPT ![Dir(w)][j] = d]

(* The pool's adapters write into the work directory while they run; one   *)
(* that fails leaves the resources that are complete.                      *)
Goroutine(j) ==
  \/ /\ TakeSlot(j) \/ GiveUp(j) \/ CancelCaptures(j) \/ Release(j)
     /\ UNCHANGED pullVars
  \/ /\ Return(j)
     /\ IF outcome'[j] = "captured" THEN Adapter("pull", j) ELSE UNCHANGED <<snapshots, work>>
     /\ UNCHANGED <<phase, request, lock, target, ledger, installed, pulls>>

AwaitCapture ==
  /\ phase["pull"] = "capturing"
  /\ Wait \/ Examine
  /\ UNCHANGED pullVars

(* The user interrupts, or a deadline passes, while resources are captured. *)
Interrupt ==
  /\ phase["pull"] = "capturing"
  /\ CallerEnds
  /\ UNCHANGED pullVars

(* The rival's adapters, one after the other. *)
RivalAdapter(j) ==
  /\ phase["rival"] = "capturing"
  /\ snapshots["rival"][j] = None
  /\ Adapter("rival", j)
  /\ UNCHANGED <<pool, phase, request, lock, target, ledger, installed, pulls>>

(* Every resource has a snapshot: firstCaptureError found nothing.         *)
CaptureSucceeded(w) ==
  IF w = "pull" THEN Finished /\ captureErr = 0 ELSE \A j \in Jobs : snapshots[w][j] # None

(* It did; of the rival it may be so at any time.                          *)
CaptureFailed(w) == w = "pull" => Finished /\ captureErr # 0

(* capture returns; the manifest and the ledger's generation are built.    *)
FinishCapture(w) ==
  /\ phase[w] = "capturing"
  /\ CaptureSucceeded(w)
  /\ Enter(w, "captured")
  /\ UNCHANGED <<pool, request, lock, work, snapshots, target, ledger, installed, pulls>>

(* The capture fails; or what follows it does, up to the installation: a   *)
(* dependency cycle, an invalid manifest, an error of Render.              *)
Abandon(w) ==
  /\ \/ phase[w] = "capturing" /\ CaptureFailed(w)
     \/ phase[w] = "captured"
  /\ Fail(w)
  /\ UNCHANGED <<pool, target, ledger, installed, pulls>>

(* Render copies the artifacts the manifest refers to, each of which must  *)
(* have the digest that was captured, and installs the bundle.             *)
Install(w) ==
  /\ phase[w] = "captured"
  /\ work[Dir(w)] = snapshots[w]
  /\ target' = [request |-> request[w], data |-> snapshots[w]]
  /\ installed' = installed \cup {snapshots[w]}
  /\ Enter(w, "installed")
  /\ UNCHANGED <<pool, request, lock, work, snapshots, ledger, pulls>>

(* Mutant: the ledger is updated before the bundle is installed. *)
PublishEarly(w) ==
  /\ phase[w] \in {"captured", "installed"}
  /\ ledger' \in {snapshots[w], ledger}
  /\ Enter(w, IF phase[w] = "captured" THEN "captured" ELSE "published")
  /\ UNCHANGED <<pool, request, lock, work, snapshots, target, installed, pulls>>

(* publishLedger: that it fails is reported, no more. *)
Publish(w) ==
  /\ phase[w] = "installed"
  /\ ledger' \in {snapshots[w], ledger}
  /\ Enter(w, "published")
  /\ UNCHANGED <<pool, request, lock, work, snapshots, target, installed, pulls>>

(* The work directory is removed; an error, or the end of the process half *)
(* way through, leaves some of it.                                         *)
Clean(w) ==
  /\ phase[w] = "published"
  /\ \E left \in SUBSET Jobs :
       work' = [work EXCEPT ![Dir(w)] = [j \in Jobs |-> IF j \in left THEN @[j] ELSE None]]
  /\ Leave(w)
  /\ UNCHANGED <<pool, target, ledger, installed, pulls>>

(* The process is killed: the kernel drops its flock, its goroutines end.  *)
Crash(w) ==
  /\ phase[w] # "idle"
  /\ Leave(w)
  /\ IF w = "pull" THEN Kill ELSE UNCHANGED pool
  /\ UNCHANGED <<work, target, ledger, installed, pulls>>

-----------------------------------------------------------------------------
Step(w) == FinishCapture(w) \/ Abandon(w) \/ Install(w) \/ Publish(w) \/ Clean(w)

PullStep == (\E j \in Jobs : Goroutine(j)) \/ AwaitCapture \/ Step("pull")

RivalStep == (\E j \in Jobs : RivalAdapter(j)) \/ Step("rival")

PullNext ==
  \/ PullStep
  \/ RivalStep
  \/ Interrupt
  \/ \E w \in Pullers : Begin(w) \/ Crash(w)

PullSpec == PullInit /\ [][PullNext]_pullAll

(* The pull's goroutines run and its adapters return; of the rival, which  *)
(* may hold a lock for as long as it likes, nothing is assumed.            *)
PullFairSpec == PullSpec /\ WF_pullAll(PullStep)

-----------------------------------------------------------------------------
(* Types of the variables. *)
PullTypeOK ==
  /\ phase \in [Pullers -> Phases]
  /\ request \in [Pullers -> Requests \cup {None}]
  /\ lock \in [Directories -> Pullers \cup {None}]
  /\ work \in [Directories -> [Jobs -> Data \cup {None}]]
  /\ snapshots \in [Pullers -> [Jobs -> Data \cup {None}]]
  /\ target \in [request : Requests, data : [Jobs -> Data]] \cup {None}
  /\ ledger \in [Jobs -> Data \cup {None}]
  /\ installed \subseteq [Jobs -> Data]
  /\ pulls \in 0..MaxPulls

(* No adapter outlives the capture that started it: one that is at work in *)
(* a directory works for a pull that is still capturing, and holds its     *)
(* lock, so that the next process never shares the directory with it.      *)
NoStrayWriter ==
  Holding # {} => phase["pull"] = "capturing" /\ lock[Dir("pull")] = "pull"

(* What a pull has captured is in its work directory, as it was captured,  *)
(* until the pull itself removes it: neither a restart nor a capture by    *)
(* another process gets in between.                                        *)
OwnWork ==
  \A w \in Pullers : \A j \in Jobs :
    snapshots[w][j] # None => work[Dir(w)][j] = snapshots[w][j]

(* All of the installed data was captured by the definition, policy        *)
(* included, of the pull that installed it, though checkpoints outlive     *)
(* pulls and the ledger is shared by all projects.  (Not by that pull, nor *)
(* for its project file: the ledger's data may be another project's, and   *)
(* what a clean-up has left is installed again.)                           *)
AsRequested ==
  target # None =>
    \A j \in Jobs : CaptureDefinition(target.data[j].request) = CaptureDefinition(target.request)

(* The ledger offers what was installed, never the capture of a pull that  *)
(* failed.                                                                 *)
LedgerInstalled == ledger # Nothing => ledger \in installed

(* A capture that is complete is lost only to --restart, at the start of   *)
(* a pull, or after it was installed: an interrupted pull resumes.         *)
CheckpointsKept ==
  [][\A f \in Directories, j \in Jobs : work[f][j] # None /\ work'[f][j] = None =>
       \/ lock[f] = None
       \/ \E w \in Pullers : lock[f] = w /\ snapshots[w] \in installed]_pullAll

(* A pull ends, whatever the adapters, its caller and the rival do; a held *)
(* lock does not make it wait.                                             *)
PullReturns == phase["pull"] # "idle" ~> phase["pull"] = "idle"
=============================================================================
