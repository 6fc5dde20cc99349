----------------------------- MODULE PullProofs -----------------------------
(***************************************************************************)
(* Proofs about Pull, for any number of resources, workers, pulls and      *)
(* requests.  Of the pool alone (CapturePool): the workers are bounded, no *)
(* job is skipped without an error, and the error reported is the first in *)
(* selection order that is no induced cancellation.  Of the pulls around   *)
(* it, of whose invariant the pool's is a part: no adapter writes for a    *)
(* pull that is over, what was captured stays, the bundle holds what was   *)
(* asked for, and the ledger what was installed.                           *)
(***************************************************************************)
EXTENDS Pull, FiniteSetTheorems, TLAPS

(* The slots taken are those of the jobs between select and Done. *)
SlotsInv == slots = Cardinality(Holding)

(* What a job's goroutine has left so far. *)
OutcomeInv ==
  \A j \in Jobs :
    /\ state[j] \in {"waiting", "running"} => outcome[j] = "none"
    /\ state[j] = "returned" => outcome[j] \in Errors
    /\ state[j] \in {"releasing", "done"} => outcome[j] # "none"

(* Every cancellation has its cause, in the caller or in a failed job.     *)
CauseInv ==
  /\ ctx = "canceled" => caller = "canceled" \/ \E j \in Jobs : outcome[j] = "failed"
  /\ \A j \in Jobs : outcome[j] \in Endings => ctx = outcome[j]

(* What firstCaptureError knows of the outcomes it has seen. *)
ExamineInv ==
  /\ examined # -1 => \A j \in Jobs : state[j] = "done"
  /\ captureErr # 0 => captureErr <= examined /\ outcome[captureErr] \in Errors
  /\ \A i \in 1..examined :
       /\ outcome[i] \in Errors => captureErr # 0
       /\ outcome[i] \in Errors \ {"canceled"} =>
            captureErr \in 1..i /\ outcome[captureErr] # "canceled"

IInv == TypeOK /\ SlotsInv /\ OutcomeInv /\ CauseInv /\ ExamineInv

-----------------------------------------------------------------------------
LEMMA HoldingFinite == IsFiniteSet(Holding) /\ Cardinality(Holding) \in Nat
<1>1. IsFiniteSet(Jobs)
  BY ParametersAssumption, FS_Interval DEF Jobs
<1> QED
  BY <1>1, FS_Subset, FS_CardinalityType DEF Holding

LEMMA InitIInv == Init => IInv
<1> SUFFICES ASSUME Init PROVE IInv
  OBVIOUS
<1>1. Holding = {}
  BY DEF Init, Holding
<1>2. Cardinality(Holding) = 0
  BY <1>1, FS_EmptySet
<1>3. TypeOK
  BY ParametersAssumption DEF Init, TypeOK, States
<1>4. OutcomeInv /\ CauseInv /\ ExamineInv
  BY DEF Init, OutcomeInv, CauseInv, ExamineInv, Endings, Errors
<1> QED
  BY <1>2, <1>3, <1>4 DEF IInv, SlotsInv, Init

(* A job that takes a slot, and one that gives it back. *)
LEMMA Taken ==
  ASSUME TypeOK, SlotsInv, NEW j \in Jobs, state[j] = "waiting",
         state' = [state EXCEPT ![j] = "running"], slots' = slots + 1
  PROVE  SlotsInv'
<1>1. Holding' = Holding \cup {j} /\ j \notin Holding
  BY DEF TypeOK, Holding
<1> QED
  BY <1>1, HoldingFinite, FS_AddElement DEF SlotsInv

LEMMA GivenBack ==
  ASSUME TypeOK, SlotsInv, NEW j \in Jobs, state[j] = "releasing",
         state' = [state EXCEPT ![j] = "done"], slots' = slots - 1
  PROVE  SlotsInv' /\ slots' \in Nat
<1>1. Holding' = Holding \ {j} /\ j \in Holding
  BY DEF TypeOK, Holding
<1>2. Cardinality(Holding') = Cardinality(Holding) - 1
  BY <1>1, HoldingFinite, FS_RemoveElement
<1>3. IsFiniteSet(Holding') /\ Cardinality(Holding') \in Nat
  BY <1>1, HoldingFinite, FS_RemoveElement, FS_CardinalityType
<1> QED
  BY <1>2, <1>3, HoldingFinite DEF SlotsInv

(* Any other step of a job. *)
LEMMA KeptSlot ==
  ASSUME SlotsInv, UNCHANGED slots, Holding' = Holding
  PROVE  SlotsInv'
BY DEF SlotsInv

-----------------------------------------------------------------------------
LEMMA NextIInv == IInv /\ [Next]_vars => IInv'
<1> SUFFICES ASSUME IInv, [Next]_vars PROVE IInv'
  OBVIOUS
<1> USE DEF IInv
<1>1. ASSUME NEW j \in Jobs, TakeSlot(j) PROVE IInv'
  <2> USE <1>1 DEF TakeSlot, Goto
  <2>1. SlotsInv'
    BY Taken
  <2>2. TypeOK'
    BY ParametersAssumption DEF TypeOK, States
  <2>3. OutcomeInv' /\ CauseInv'
    BY DEF TypeOK, OutcomeInv, CauseInv
  <2>4. ExamineInv'
    BY DEF TypeOK, ExamineInv
  <2> QED
    BY <2>1, <2>2, <2>3, <2>4
<1>2. ASSUME NEW j \in Jobs, GiveUp(j) PROVE IInv'
  <2> USE <1>2 DEF GiveUp, Goto, Record
  <2>1. Holding' = Holding
    BY DEF TypeOK, Holding
  <2>2. SlotsInv'
    BY <2>1, KeptSlot
  <2>3. TypeOK' /\ outcome'[j] \in Endings
    BY DEF TypeOK, States, Errors, Endings
  <2>4. OutcomeInv'
    BY <2>3 DEF TypeOK, OutcomeInv, Endings
  <2>5. CauseInv'
    <3>1. \A i \in Jobs : outcome[i] = "failed" => outcome'[i] = "failed"
      BY DEF TypeOK, OutcomeInv
    <3> QED
      BY <3>1, <2>3 DEF TypeOK, CauseInv
  <2>6. ExamineInv'
    <3>1. examined = -1 /\ captureErr = 0
      BY DEF TypeOK, ExamineInv
    <3> QED
      BY <3>1 DEF ExamineInv
  <2> QED
    BY <2>2, <2>3, <2>4, <2>5, <2>6
<1>3. ASSUME NEW j \in Jobs, Return(j) PROVE IInv'
  <2>1. PICK o \in {"captured", "failed"} \cup ({ctx} \ {"live"}) :
          Record(j, o) /\ Goto(j, IF o = "captured" THEN "releasing" ELSE "returned")
    BY <1>3 DEF Return
  <2>2. o \in {"captured"} \cup Errors /\ (o \in Endings => ctx = o)
    BY DEF TypeOK, Errors, Endings
  <2> USE <1>3, <2>1, <2>2 DEF Return, Goto, Record
  <2>3. Holding' = Holding
    BY DEF TypeOK, Holding
  <2>4. SlotsInv'
    BY <2>3, KeptSlot
  <2>5. TypeOK'
    BY DEF TypeOK, States
  <2>6. OutcomeInv'
    BY DEF TypeOK, OutcomeInv, Errors, Endings
  <2>7. CauseInv'
    <3>1. \A i \in Jobs : outcome[i] = "failed" => outcome'[i] = "failed"
      BY DEF TypeOK, OutcomeInv
    <3> QED
      BY <3>1 DEF TypeOK, CauseInv
  <2>8. ExamineInv'
    <3>1. examined = -1 /\ captureErr = 0
      BY DEF TypeOK, ExamineInv
    <3> QED
      BY <3>1 DEF ExamineInv
  <2> QED
    BY <2>4, <2>5, <2>6, <2>7, <2>8
<1>4. ASSUME NEW j \in Jobs, CancelCaptures(j) PROVE IInv'
  <2> USE <1>4 DEF CancelCaptures, Goto, EndContext
  <2>1. Holding' = Holding
    BY DEF TypeOK, Holding
  <2>2. SlotsInv'
    BY <2>1, KeptSlot
  <2>3. TypeOK'
    BY DEF TypeOK, States, Endings
  <2>4. OutcomeInv'
    BY DEF TypeOK, OutcomeInv, Errors, Endings
  <2>5. CauseInv'
    <3>1. CASE ctx = "live"
      <4>1. outcome[j] = "failed"
        BY <3>1 DEF OutcomeInv, CauseInv, TypeOK, Errors, Endings
      <4>2. \A i \in Jobs : outcome[i] \notin Endings
        BY <3>1 DEF CauseInv, Endings
      <4> QED
        BY <4>1, <4>2 DEF CauseInv
    <3>2. CASE ctx # "live"
      BY <3>2 DEF CauseInv
    <3> QED
      BY <3>1, <3>2
  <2>6. ExamineInv'
    BY DEF TypeOK, ExamineInv
  <2> QED
    BY <2>2, <2>3, <2>4, <2>5, <2>6
<1>5. ASSUME NEW j \in Jobs, Release(j) PROVE IInv'
  <2> USE <1>5 DEF Release, Goto
  <2>1. SlotsInv' /\ slots' \in Nat
    BY GivenBack
  <2>2. TypeOK'
    BY <2>1, ParametersAssumption DEF TypeOK, States
  <2>3. OutcomeInv' /\ CauseInv'
    BY DEF TypeOK, OutcomeInv, CauseInv
  <2>4. ExamineInv'
    BY DEF TypeOK, ExamineInv
  <2> QED
    BY <2>1, <2>2, <2>3, <2>4
<1>6. CASE Wait
  <2>1. Holding' = Holding
    BY <1>6 DEF Wait, Holding
  <2>2. SlotsInv' /\ OutcomeInv' /\ CauseInv'
    BY <1>6, <2>1, KeptSlot DEF Wait, OutcomeInv, CauseInv
  <2>3. TypeOK' /\ ExamineInv'
    BY <1>6, ParametersAssumption DEF Wait, TypeOK, ExamineInv
  <2> QED
    BY <2>2, <2>3
<1>7. CASE Examine
  <2> USE <1>7 DEF Examine
  <2>1. Holding' = Holding
    BY DEF Holding
  <2>2. SlotsInv' /\ OutcomeInv' /\ CauseInv'
    BY <2>1, KeptSlot DEF OutcomeInv, CauseInv
  <2>3. TypeOK'
    BY ParametersAssumption DEF TypeOK
  <2>4. ExamineInv'
    <3> DEFINE next == examined + 1
    <3>1. next \in Jobs /\ 1..next = 1..examined \cup {next} /\ examined \in Nat
      BY ParametersAssumption DEF Jobs
    <3>2. CASE Preferred(next)
      BY <3>1, <3>2 DEF Preferred, ExamineInv, TypeOK, Jobs
    <3>3. CASE ~Preferred(next)
      BY <3>1, <3>3 DEF Preferred, ExamineInv, TypeOK, Jobs
    <3> QED
      BY <3>2, <3>3
  <2> QED
    BY <2>2, <2>3, <2>4
<1>8. CASE CallerEnds
  <2>1. PICK e \in Endings : caller' = e /\ EndContext(e)
    BY <1>8 DEF CallerEnds
  <2> USE <1>8, <2>1 DEF CallerEnds, EndContext
  <2>2. Holding' = Holding
    BY DEF Holding
  <2>3. SlotsInv' /\ OutcomeInv'
    BY <2>2, KeptSlot DEF OutcomeInv
  <2>4. TypeOK'
    BY DEF TypeOK
  <2>5. CauseInv'
    BY DEF CauseInv, Endings
  <2>6. ExamineInv'
    BY DEF ExamineInv
  <2> QED
    BY <2>3, <2>4, <2>5, <2>6
<1>9. CASE UNCHANGED vars
  <2>1. Holding' = Holding
    BY <1>9 DEF vars, Holding
  <2> QED
    BY <1>9, <2>1 DEF vars, TypeOK, SlotsInv, OutcomeInv, CauseInv, ExamineInv
<1> QED
  BY <1>1, <1>2, <1>3, <1>4, <1>5, <1>6, <1>7, <1>8, <1>9 DEF Next, Run

LEMMA Invariance == Spec => []IInv
BY InitIInv, NextIInv, PTL DEF Spec

-----------------------------------------------------------------------------
(* What the invariant says of a pool that has come to its end. *)
LEMMA IInvReports == IInv => LowestFailureReported /\ InducedCancellationHidden /\ NothingSkipped
<1>1. IInv => LowestFailureReported
  BY DEF IInv, ExamineInv, LowestFailureReported, Finished, Jobs
<1>2. ASSUME IInv, Finished, captureErr # 0, outcome[captureErr] = "canceled"
      PROVE  caller = "canceled"
  <2>1. captureErr \in Jobs
    BY <1>2 DEF IInv, TypeOK, Jobs
  <2>2. ctx = "canceled"
    BY <1>2, <2>1 DEF IInv, CauseInv, Endings
  <2>3. \A j \in Jobs : outcome[j] # "failed"
    BY <1>2 DEF IInv, ExamineInv, Finished, Jobs, Errors
  <2> QED
    BY <1>2, <2>2, <2>3 DEF IInv, CauseInv
<1>3. ASSUME IInv, Finished, captureErr = 0, NEW j \in Jobs
      PROVE  outcome[j] = "captured"
  <2>1. outcome[j] \notin Errors
    BY <1>3 DEF IInv, ExamineInv, Finished, Jobs
  <2>2. state[j] = "done"
    BY <1>3, ParametersAssumption DEF IInv, ExamineInv, Finished
  <2>3. outcome[j] # "none"
    BY <1>3, <2>2 DEF IInv, OutcomeInv
  <2> QED
    BY <1>3, <2>1, <2>3 DEF IInv, TypeOK
<1> QED
  BY <1>1, <1>2, <1>3 DEF InducedCancellationHidden, NothingSkipped

LEMMA IInvBounds == IInv => TypeOK /\ WorkersBounded
  BY DEF IInv, TypeOK, SlotsInv, WorkersBounded

(* Every variable keeps its type. *)
THEOREM PoolTypeCorrect == Spec => []TypeOK
BY IInvBounds, Invariance, PTL

(* runCaptureJobs never has more than Concurrency adapters running.        *)
THEOREM WorkersAreBounded == Spec => []WorkersBounded
BY IInvBounds, Invariance, PTL

(* What capture goes by is what the jobs came to: firstCaptureError reports *)
(* the first error in selection order that is no cancellation, never one    *)
(* that a failing capture induced, and without an error nothing was skipped.*)
THEOREM OutcomeIsFaithful == Spec => []OutcomeFaithful
BY IInvReports, Invariance, PTL DEF OutcomeFaithful

-----------------------------------------------------------------------------
(* A pull that is under way has the lock of its directory; one that is not *)
(* remembers nothing.                                                      *)
LockInv ==
  \A w \in Pullers :
    /\ phase[w] = "idle" => request[w] = None /\ snapshots[w] = Nothing
    /\ phase[w] # "idle" => request[w] \in Requests /\ lock[Dir(w)] = w

(* Goroutines are there during a capture only. *)
QuietInv == phase["pull"] # "capturing" => \A j \in Jobs : state[j] = "done"

(* A directory holds captures by its own definition. *)
WorkInv ==
  \A f \in Directories, j \in Jobs :
    work[f][j] # None => CaptureDefinition(work[f][j].request) = CaptureDefinition(f)

(* What a pull has got so far. *)
CapturedInv ==
  /\ phase["pull"] = "capturing" =>
       \A j \in Jobs : outcome[j] = "captured" => snapshots["pull"][j] # None
  /\ \A w \in Pullers :
       phase[w] \in {"captured", "installed", "published"} =>
         \A j \in Jobs : snapshots[w][j] # None
  /\ \A w \in Pullers :
       phase[w] \in {"installed", "published"} => snapshots[w] \in installed

PInv ==
  /\ IInv /\ PullTypeOK
  /\ LockInv /\ QuietInv /\ WorkInv /\ CapturedInv
  /\ OwnWork /\ AsRequested /\ LedgerInstalled

-----------------------------------------------------------------------------
(* The pool while no capture runs. *)
Rest ==
  /\ state = [j \in Jobs |-> "done"]
  /\ outcome = [j \in Jobs |-> "captured"]
  /\ slots = 0 /\ ctx = "live" /\ caller = "none" /\ examined = N /\ captureErr = 0

LEMMA RestIInv == Rest => IInv
<1> SUFFICES ASSUME Rest PROVE IInv
  OBVIOUS
<1>1. Holding = {}
  BY DEF Rest, Holding
<1>2. Cardinality(Holding) = 0
  BY <1>1, FS_EmptySet
<1>3. TypeOK
  BY ParametersAssumption DEF Rest, TypeOK, States
<1>4. OutcomeInv /\ CauseInv
  BY DEF Rest, OutcomeInv, CauseInv, Endings, Errors
<1>5. ExamineInv
  BY ParametersAssumption DEF Rest, ExamineInv, Jobs, Errors, Endings
<1> QED
  BY <1>2, <1>3, <1>4, <1>5 DEF IInv, SlotsInv, Rest

LEMMA LaunchIInv == Launch => IInv'
<1>1. Init' => IInv'
  BY InitIInv, PTL
<1> QED
  BY <1>1 DEF Launch, Pool, Init

LEMMA KillIInv == Kill => IInv'
<1>1. Rest' => IInv'
  BY RestIInv, PTL
<1> QED
  BY <1>1 DEF Kill, Pool, Rest

LEMMA PoolUnchanged == UNCHANGED pool /\ IInv => IInv'
<1>1. UNCHANGED pool => UNCHANGED vars
  BY DEF pool, vars
<1> QED
  BY <1>1, NextIInv

LEMMA DirectoriesAreRequests == Directories = Requests
BY DEF Directories, Fingerprint

LEMMA InitPInv == PullInit => PInv
<1> SUFFICES ASSUME PullInit PROVE PInv
  OBVIOUS
<1> USE DEF PullInit
<1>1. IInv
  BY RestIInv DEF Rest
<1>2. PullTypeOK
  BY RequestsAssumption DEF PullTypeOK, Phases, Nothing
<1>3. LockInv /\ QuietInv
  BY DEF LockInv, QuietInv
<1>4. WorkInv
  BY DEF WorkInv, Nothing
<1>5. CapturedInv
  BY DEF CapturedInv, Pullers
<1>6. OwnWork /\ AsRequested /\ LedgerInstalled
  BY DEF OwnWork, AsRequested, LedgerInstalled, Nothing
<1> QED
  BY <1>1, <1>2, <1>3, <1>4, <1>5, <1>6 DEF PInv

-----------------------------------------------------------------------------
(* Two pulls that are under way have directories of their own. *)
LEMMA OwnDirectories ==
  ASSUME PInv, NEW v \in Pullers, NEW w \in Pullers, v # w,
         phase[v] # "idle", phase[w] # "idle"
  PROVE  Dir(v) # Dir(w)
BY DEF PInv, LockInv

(* An adapter that returns a capture, be it kept, new or the ledger's. *)
LEMMA AdapterStep ==
  ASSUME PInv, NEW w \in Pullers, NEW j \in Jobs, phase[w] = "capturing",
         Adapter(w, j), UNCHANGED <<phase, request, lock>>
  PROVE  /\ snapshots' \in [Pullers -> [Jobs -> Data \cup {None}]]
         /\ work' \in [Directories -> [Jobs -> Data \cup {None}]]
         /\ OwnWork' /\ WorkInv'
         /\ snapshots'[w][j] # None
         /\ \A v \in Pullers, k \in Jobs :
              snapshots[v][k] # None => snapshots'[v][k] # None
         /\ \A v \in Pullers \ {w} : snapshots'[v] = snapshots[v]
         /\ \A g \in Directories, k \in Jobs : work[g][k] # None => work'[g][k] # None
<1> DEFINE f == Dir(w)
<1>1. request[w] \in Requests /\ f \in Directories /\ f = request[w]
  BY DEF PInv, LockInv, Dir, Fingerprint, Directories
<1>2. None \notin Data
  BY RequestsAssumption DEF Data
<1>3. PICK d \in Obtainable(w, j) :
        /\ snapshots' = [snapshots EXCEPT ![w][j] = d]
        /\ work' = [work EXCEPT ![f][j] = d]
  BY DEF Adapter
<1>4. d \in Data /\ CaptureDefinition(d.request) = CaptureDefinition(f)
  <2>1. CASE work[f][j] # None
    <3>1. d = work[f][j]
      BY <1>3, <2>1 DEF Obtainable
    <3>2. work[f][j] \in Data
      BY <1>1, <2>1 DEF PInv, PullTypeOK
    <3> QED
      BY <1>1, <2>1, <3>1, <3>2 DEF PInv, WorkInv
  <2>2. CASE work[f][j] = None
    <3>1. \/ d = [request |-> request[w], by |-> w]
          \/ /\ d \in {ledger[j]} \ {None}
             /\ CaptureDefinition(d.request) = CaptureDefinition(request[w])
      BY <1>3, <2>2 DEF Obtainable
    <3>2. ledger[j] \in Data \cup {None}
      BY DEF PInv, PullTypeOK
    <3> QED
      BY <1>1, <3>1, <3>2 DEF Data
  <2> QED
    BY <2>1, <2>2
<1>5. /\ snapshots' \in [Pullers -> [Jobs -> Data \cup {None}]]
      /\ work' \in [Directories -> [Jobs -> Data \cup {None}]]
  BY <1>1, <1>3, <1>4 DEF PInv, PullTypeOK
<1>6. /\ snapshots'[w][j] = d /\ work'[f][j] = d
      /\ \A v \in Pullers, k \in Jobs :
           v # w \/ k # j => snapshots'[v][k] = snapshots[v][k]
      /\ \A g \in Directories, k \in Jobs : g # f \/ k # j => work'[g][k] = work[g][k]
      /\ \A v \in Pullers \ {w} : snapshots'[v] = snapshots[v]
  BY <1>1, <1>3 DEF PInv, PullTypeOK
<1>7. OwnWork'
  <2> SUFFICES ASSUME NEW v \in Pullers, NEW k \in Jobs, snapshots'[v][k] # None
               PROVE  work'[Dir(v)][k] = snapshots'[v][k]
    BY DEF OwnWork, Dir
  <2>1. CASE v = w
    BY <1>1, <1>6, <2>1 DEF PInv, OwnWork
  <2>2. CASE v # w
    <3>1. snapshots[v][k] # None
      BY <1>6, <2>2
    <3>2. phase[v] # "idle"
      BY <3>1 DEF PInv, LockInv, Nothing
    <3>3. Dir(v) # f /\ Dir(v) \in Directories
      BY <2>2, <3>2, OwnDirectories DEF PInv, LockInv, Directories, Dir
    <3> QED
      BY <1>6, <2>2, <3>1, <3>3 DEF PInv, OwnWork
  <2> QED
    BY <2>1, <2>2
<1>8. WorkInv'
  BY <1>4, <1>6 DEF PInv, WorkInv
<1> QED
  BY <1>2, <1>4, <1>5, <1>6, <1>7, <1>8

(* A pull returns, and leaves of its directory what it likes. *)
LEMMA LeaveStep ==
  ASSUME PInv, NEW w \in Pullers, phase[w] # "idle", Leave(w),
         \A g \in Directories : g # Dir(w) => work'[g] = work[g],
         \A k \in Jobs : work'[Dir(w)][k] \in {work[Dir(w)][k], None},
         work' \in [Directories -> [Jobs -> Data \cup {None}]],
         UNCHANGED <<target, ledger, installed, pulls>>
  PROVE  /\ PullTypeOK' /\ LockInv' /\ WorkInv'
         /\ OwnWork' /\ AsRequested' /\ LedgerInstalled'
         /\ \A v \in Pullers \ {w} : phase'[v] = phase[v] /\ snapshots'[v] = snapshots[v]
         /\ phase'[w] = "idle"
<1> DEFINE f == Dir(w)
<1>1. request[w] \in Requests /\ f \in Directories
  BY DEF PInv, LockInv, Dir, Directories
<1>2. /\ \A v \in Pullers \ {w} : /\ phase'[v] = phase[v]
                                  /\ snapshots'[v] = snapshots[v]
                                  /\ request'[v] = request[v]
      /\ phase'[w] = "idle" /\ snapshots'[w] = Nothing /\ request'[w] = None
      /\ lock'[f] = None
      /\ \A g \in Directories : g # f => lock'[g] = lock[g]
  BY <1>1 DEF Leave, Enter, PInv, PullTypeOK
<1>3. PullTypeOK'
  BY DEF PInv, PullTypeOK, Leave, Enter, Phases, Nothing
<1>4. \A v \in Pullers \ {w} :
        phase[v] # "idle" => Dir(v)' = Dir(v) /\ Dir(v) # f /\ Dir(v) \in Directories
  BY <1>2, OwnDirectories DEF PInv, LockInv, Dir, Directories
<1>5. LockInv'
  BY <1>2, <1>4 DEF PInv, LockInv, Nothing
<1>6. WorkInv'
  BY <1>1 DEF PInv, WorkInv
<1>7. OwnWork'
  <2> SUFFICES ASSUME NEW v \in Pullers, NEW k \in Jobs, snapshots'[v][k] # None
               PROVE  work'[Dir(v)'][k] = snapshots'[v][k]
    BY DEF OwnWork
  <2>1. v # w /\ snapshots'[v] = snapshots[v]
    BY <1>2 DEF Nothing
  <2>2. phase[v] # "idle"
    BY <2>1 DEF PInv, LockInv, Nothing
  <2> QED
    BY <1>4, <2>1, <2>2 DEF PInv, OwnWork
<1>8. AsRequested' /\ LedgerInstalled'
  BY DEF PInv, AsRequested, LedgerInstalled, Nothing
<1> QED
  BY <1>2, <1>3, <1>5, <1>6, <1>7, <1>8

LEMMA NextPInv == PInv /\ [PullNext]_pullAll => PInv'
<1> SUFFICES ASSUME PInv, [PullNext]_pullAll PROVE PInv'
  OBVIOUS
<1>0. "pull" \in Pullers /\ "rival" \in Pullers /\ None \notin Pullers /\ None \notin Data
  BY RequestsAssumption DEF Pullers, Data
<1>1. ASSUME NEW j \in Jobs, Goroutine(j) PROVE PInv'
  <2>1. CASE (TakeSlot(j) \/ GiveUp(j) \/ CancelCaptures(j) \/ Release(j)) /\ UNCHANGED pullVars
    <3>1. IInv'
      BY <2>1, NextIInv DEF PInv, Next, Run
    <3>2. phase["pull"] = "capturing"
      BY <2>1 DEF PInv, QuietInv, TakeSlot, GiveUp, CancelCaptures, Release
    <3>3. \A k \in Jobs : outcome'[k] = "captured" => outcome[k] = "captured"
      <4>1. CASE GiveUp(j)
        BY <4>1 DEF GiveUp, Record, PInv, IInv, TypeOK, Endings
      <4> QED
        BY <2>1, <4>1 DEF TakeSlot, CancelCaptures, Release
    <3>4. CapturedInv'
      BY <2>1, <3>2, <3>3 DEF pullVars, PInv, CapturedInv
    <3>5. QuietInv'
      BY <2>1, <3>2 DEF pullVars, QuietInv
    <3>6. (PullTypeOK /\ LockInv /\ WorkInv /\ OwnWork /\ AsRequested /\ LedgerInstalled)'
      BY <2>1 DEF pullVars, PInv, PullTypeOK, LockInv, WorkInv, OwnWork, AsRequested,
                  LedgerInstalled, Dir
    <3> QED
      BY <3>1, <3>4, <3>5, <3>6 DEF PInv
  <2>2. CASE /\ Return(j)
             /\ IF outcome'[j] = "captured" THEN Adapter("pull", j) ELSE UNCHANGED <<snapshots, work>>
             /\ UNCHANGED <<phase, request, lock, target, ledger, installed, pulls>>
    <3>1. IInv'
      BY <2>2, NextIInv DEF PInv, Next, Run
    <3>2. phase["pull"] = "capturing"
      BY <2>2 DEF PInv, QuietInv, Return
    <3>3. \A k \in Jobs \ {j} : outcome'[k] = outcome[k]
      BY <2>2 DEF Return, Record, PInv, IInv, TypeOK
    <3>4. QuietInv'
      BY <2>2, <3>2 DEF QuietInv
    <3>5. CASE outcome'[j] = "captured"
      <4>1. Adapter("pull", j)
        BY <2>2, <3>5
      <4>2. PullTypeOK'
        BY <1>0, <2>2, <3>2, <4>1, AdapterStep DEF PInv, PullTypeOK
      <4>3. OwnWork' /\ WorkInv'
        BY <1>0, <2>2, <3>2, <4>1, AdapterStep
      <4>4. LockInv'
        BY <1>0, <2>2, <3>2, <4>1, AdapterStep DEF PInv, LockInv, Dir
      <4>5. CapturedInv'
        BY <1>0, <2>2, <3>2, <3>3, <4>1, AdapterStep DEF PInv, CapturedInv
      <4>6. AsRequested' /\ LedgerInstalled'
        BY <2>2 DEF PInv, AsRequested, LedgerInstalled
      <4> QED
        BY <3>1, <3>4, <4>2, <4>3, <4>4, <4>5, <4>6 DEF PInv
    <3>6. CASE outcome'[j] # "captured"
      <4>1. UNCHANGED pullVars
        BY <2>2, <3>6 DEF pullVars
      <4>2. CapturedInv'
        BY <3>2, <3>3, <3>6, <4>1 DEF pullVars, PInv, CapturedInv
      <4>3. (PullTypeOK /\ LockInv /\ WorkInv /\ OwnWork /\ AsRequested /\ LedgerInstalled)'
        BY <4>1 DEF pullVars, PInv, PullTypeOK, LockInv, WorkInv, OwnWork, AsRequested,
                    LedgerInstalled, Dir
      <4> QED
        BY <3>1, <3>4, <4>2, <4>3 DEF PInv
    <3> QED
      BY <3>5, <3>6
  <2> QED
    BY <1>1, <2>1, <2>2 DEF Goroutine
<1>2. ASSUME AwaitCapture \/ Interrupt PROVE PInv'
  <2>1. IInv'
    BY <1>2, NextIInv DEF PInv, Next, AwaitCapture, Interrupt
  <2>2. UNCHANGED pullVars /\ UNCHANGED <<state, outcome>>
    BY <1>2 DEF AwaitCapture, Interrupt, Wait, Examine, CallerEnds
  <2>3. (QuietInv /\ CapturedInv)'
    BY <2>2 DEF pullVars, PInv, QuietInv, CapturedInv
  <2>4. (PullTypeOK /\ LockInv /\ WorkInv /\ OwnWork /\ AsRequested /\ LedgerInstalled)'
    BY <2>2 DEF pullVars, PInv, PullTypeOK, LockInv, WorkInv, OwnWork, AsRequested,
                LedgerInstalled, Dir
  <2> QED
    BY <2>1, <2>3, <2>4 DEF PInv
<1>3. ASSUME NEW j \in Jobs, RivalAdapter(j) PROVE PInv'
  <2>1. IInv'
    BY <1>3, PoolUnchanged DEF RivalAdapter, PInv
  <2>2. /\ phase["rival"] = "capturing" /\ Adapter("rival", j)
        /\ UNCHANGED <<pool, phase, request, lock, target, ledger, installed, pulls>>
    BY <1>3 DEF RivalAdapter
  <2>3. (OwnWork /\ WorkInv)' /\ snapshots'["pull"] = snapshots["pull"]
    BY <1>0, <2>2, AdapterStep
  <2>4. PullTypeOK'
    BY <1>0, <2>2, AdapterStep DEF PInv, PullTypeOK
  <2>5. LockInv'
    BY <1>0, <2>2, AdapterStep DEF PInv, LockInv, Dir
  <2>6. QuietInv' /\ AsRequested' /\ LedgerInstalled'
    BY <2>2 DEF pool, PInv, QuietInv, AsRequested, LedgerInstalled
  <2>7. CapturedInv'
    BY <1>0, <2>2, <2>3, AdapterStep DEF pool, PInv, CapturedInv, Pullers
  <2> QED
    BY <2>1, <2>3, <2>4, <2>5, <2>6, <2>7 DEF PInv
<1>4. ASSUME NEW w \in Pullers, FinishCapture(w) PROVE PInv'
  <2> USE <1>4 DEF FinishCapture, Enter
  <2>1. IInv'
    BY PoolUnchanged DEF PInv
  <2>2. w = "pull" => \A j \in Jobs : state[j] = "done" /\ outcome[j] = "captured"
    <3>1. IInv => NothingSkipped
      BY IInvReports
    <3> QED
      BY <3>1, ParametersAssumption DEF PInv, IInv, ExamineInv, CaptureSucceeded, Finished, NothingSkipped
  <2>3. \A j \in Jobs : snapshots[w][j] # None
    BY <2>2 DEF PInv, CapturedInv, CaptureSucceeded
  <2>4. PullTypeOK' /\ LockInv'
    BY DEF PInv, PullTypeOK, LockInv, Phases, Dir
  <2>5. QuietInv'
    BY <1>0, <2>2 DEF PInv, PullTypeOK, QuietInv, pool
  <2>6. CapturedInv'
    BY <1>0, <2>3 DEF PInv, PullTypeOK, CapturedInv, pool
  <2>7. (WorkInv /\ OwnWork /\ AsRequested /\ LedgerInstalled)'
    BY DEF PInv, WorkInv, OwnWork, AsRequested, LedgerInstalled, Dir
  <2> QED
    BY <2>1, <2>4, <2>5, <2>6, <2>7 DEF PInv
<1>5. ASSUME NEW w \in Pullers, Abandon(w) PROVE PInv'
  <2>1. /\ phase[w] # "idle" /\ Leave(w)
        /\ UNCHANGED <<work, pool, target, ledger, installed, pulls>>
    BY <1>5 DEF Abandon, Fail
  <2>2. w = "pull" => \A j \in Jobs : state[j] = "done"
    BY <1>5, ParametersAssumption DEF Abandon, CaptureFailed, PInv, QuietInv, IInv, ExamineInv, Finished
  <2>3. /\ PullTypeOK' /\ LockInv' /\ WorkInv'
        /\ OwnWork' /\ AsRequested' /\ LedgerInstalled'
        /\ \A v \in Pullers \ {w} : phase'[v] = phase[v] /\ snapshots'[v] = snapshots[v]
        /\ phase'[w] = "idle"
    BY <2>1, LeaveStep DEF PInv, PullTypeOK, LockInv, Directories, Dir
  <2>4. IInv'
    BY <2>1, PoolUnchanged DEF PInv
  <2>5. QuietInv'
    BY <1>0, <2>1, <2>2, <2>3 DEF PInv, QuietInv, pool
  <2>6. CapturedInv'
    BY <1>0, <2>1, <2>3 DEF PInv, CapturedInv, pool
  <2> QED
    BY <2>3, <2>4, <2>5, <2>6 DEF PInv
<1>6. ASSUME NEW w \in Pullers, Install(w) PROVE PInv'
  <2> USE <1>6 DEF Install, Enter
  <2>1. IInv'
    BY PoolUnchanged DEF PInv
  <2>2. request[w] \in Requests /\ \A j \in Jobs : snapshots[w][j] # None
    BY DEF PInv, LockInv, CapturedInv
  <2>3. snapshots[w] \in [Jobs -> Data]
    <3>1. snapshots[w] \in [Jobs -> Data \cup {None}]
      BY DEF PInv, PullTypeOK
    <3> QED
      BY <2>2, <3>1
  <2>4. PullTypeOK'
    BY <2>2, <2>3 DEF PInv, PullTypeOK, Phases
  <2>5. LockInv' /\ QuietInv'
    BY DEF PInv, PullTypeOK, LockInv, QuietInv, Dir, pool
  <2>6. CapturedInv'
    BY DEF PInv, PullTypeOK, CapturedInv, pool
  <2>7. \A j \in Jobs :
          CaptureDefinition(snapshots[w][j].request) = CaptureDefinition(request[w])
    <3> SUFFICES ASSUME NEW j \in Jobs
                 PROVE  CaptureDefinition(snapshots[w][j].request) = CaptureDefinition(request[w])
      OBVIOUS
    <3>1. work[Dir(w)][j] = snapshots[w][j] /\ Dir(w) \in Directories
      BY <2>2 DEF PInv, OwnWork, Dir, Directories
    <3> QED
      BY <2>2, <3>1 DEF PInv, WorkInv, Dir, Fingerprint
  <2>8. AsRequested' /\ LedgerInstalled'
    BY <2>7 DEF PInv, AsRequested, LedgerInstalled
  <2>9. WorkInv' /\ OwnWork'
    BY DEF PInv, WorkInv, OwnWork, Dir
  <2> QED
    BY <2>1, <2>4, <2>5, <2>6, <2>8, <2>9 DEF PInv
<1>7. ASSUME NEW w \in Pullers, Publish(w) PROVE PInv'
  <2> USE <1>7 DEF Publish, Enter
  <2>1. IInv'
    BY PoolUnchanged DEF PInv
  <2>2. snapshots[w] \in installed /\ ledger' \in {snapshots[w], ledger}
    BY DEF PInv, CapturedInv
  <2>3. PullTypeOK'
    BY <2>2 DEF PInv, PullTypeOK, Phases
  <2>4. LockInv' /\ QuietInv'
    BY DEF PInv, PullTypeOK, LockInv, QuietInv, Dir, pool
  <2>5. CapturedInv'
    BY DEF PInv, PullTypeOK, CapturedInv, pool
  <2>6. WorkInv' /\ OwnWork' /\ AsRequested' /\ LedgerInstalled'
    BY <2>2 DEF PInv, WorkInv, OwnWork, AsRequested, LedgerInstalled, Dir
  <2> QED
    BY <2>1, <2>3, <2>4, <2>5, <2>6 DEF PInv
<1>8. ASSUME NEW w \in Pullers, Clean(w) PROVE PInv'
  <2>1. /\ phase[w] = "published" /\ Leave(w)
        /\ UNCHANGED <<pool, target, ledger, installed, pulls>>
    BY <1>8 DEF Clean
  <2>2. Dir(w) \in Directories
    BY <2>1 DEF PInv, LockInv, Dir, Directories
  <2>3. PICK left \in SUBSET Jobs :
          work' = [work EXCEPT ![Dir(w)] =
                     [j \in Jobs |-> IF j \in left THEN work[Dir(w)][j] ELSE None]]
    BY <1>8, <2>2 DEF Clean, PInv, PullTypeOK
  <2>4. /\ \A g \in Directories : g # Dir(w) => work'[g] = work[g]
        /\ \A k \in Jobs : work'[Dir(w)][k] \in {work[Dir(w)][k], None}
        /\ work' \in [Directories -> [Jobs -> Data \cup {None}]]
    BY <2>2, <2>3 DEF PInv, PullTypeOK
  <2>5. /\ PullTypeOK' /\ LockInv' /\ WorkInv'
        /\ OwnWork' /\ AsRequested' /\ LedgerInstalled'
        /\ \A v \in Pullers \ {w} : phase'[v] = phase[v] /\ snapshots'[v] = snapshots[v]
        /\ phase'[w] = "idle"
    BY <2>1, <2>4, LeaveStep
  <2>6. IInv'
    BY <2>1, PoolUnchanged DEF PInv
  <2>7. QuietInv'
    BY <1>0, <2>1, <2>5 DEF PInv, QuietInv, pool
  <2>8. CapturedInv'
    BY <1>0, <2>1, <2>5 DEF PInv, CapturedInv, pool
  <2> QED
    BY <2>5, <2>6, <2>7, <2>8 DEF PInv
<1>9. ASSUME NEW w \in Pullers, Crash(w) PROVE PInv'
  <2>1. /\ phase[w] # "idle" /\ Leave(w)
        /\ IF w = "pull" THEN Kill ELSE UNCHANGED pool
        /\ UNCHANGED <<work, target, ledger, installed, pulls>>
    BY <1>9 DEF Crash
  <2>2. /\ PullTypeOK' /\ LockInv' /\ WorkInv'
        /\ OwnWork' /\ AsRequested' /\ LedgerInstalled'
        /\ \A v \in Pullers \ {w} : phase'[v] = phase[v] /\ snapshots'[v] = snapshots[v]
        /\ phase'[w] = "idle"
    BY <2>1, LeaveStep DEF PInv, PullTypeOK, LockInv, Directories, Dir
  <2>3. IInv'
    BY <2>1, PoolUnchanged, KillIInv DEF PInv
  <2>4. QuietInv'
    BY <1>0, <2>1, <2>2 DEF PInv, QuietInv, pool, Kill, Pool
  <2>5. CapturedInv'
    BY <1>0, <2>1, <2>2 DEF PInv, CapturedInv, pool
  <2> QED
    BY <2>2, <2>3, <2>4, <2>5 DEF PInv
<1>10. ASSUME NEW w \in Pullers, Begin(w) PROVE PInv'
  <2>1. PICK r \in Requests, restart \in BOOLEAN :
          IF lock[r] = None
            THEN /\ lock' = [lock EXCEPT ![r] = w]
                 /\ request' = [request EXCEPT ![w] = r]
                 /\ work' = IF restart THEN [work EXCEPT ![r] = Nothing] ELSE work
                 /\ phase' = [phase EXCEPT ![w] = "capturing"]
                 /\ IF w = "pull" THEN Launch ELSE UNCHANGED pool
            ELSE UNCHANGED <<phase, request, lock, work, pool>>
    BY <1>10 DEF Begin, Enter, Fingerprint
  <2>2. /\ phase[w] = "idle" /\ pulls' \in 0..MaxPulls
        /\ UNCHANGED <<snapshots, target, ledger, installed>>
    BY <1>10, RequestsAssumption DEF Begin, PInv, PullTypeOK
  <2>3. CASE lock[r] # None
    <3>1. UNCHANGED <<phase, request, lock, work, pool>>
      BY <2>1, <2>3
    <3>2. IInv'
      BY <3>1, PoolUnchanged DEF PInv
    <3>3. QuietInv' /\ CapturedInv'
      BY <2>2, <3>1 DEF PInv, QuietInv, CapturedInv, pool
    <3>4. (PullTypeOK /\ LockInv /\ WorkInv /\ OwnWork /\ AsRequested /\ LedgerInstalled)'
      BY <2>2, <3>1 DEF PInv, PullTypeOK, LockInv, WorkInv, OwnWork, AsRequested,
                        LedgerInstalled, Dir
    <3> QED
      BY <3>2, <3>3, <3>4 DEF PInv
  <2>4. CASE lock[r] = None
    <3>1. /\ lock' = [lock EXCEPT ![r] = w]
          /\ request' = [request EXCEPT ![w] = r]
          /\ work' = IF restart THEN [work EXCEPT ![r] = Nothing] ELSE work
          /\ phase' = [phase EXCEPT ![w] = "capturing"]
          /\ IF w = "pull" THEN Launch ELSE UNCHANGED pool
      BY <2>1, <2>4
    <3>2. r \in Directories
      BY DirectoriesAreRequests
    <3>3. PullTypeOK'
      BY <2>2, <3>1, <3>2 DEF PInv, PullTypeOK, Phases, Nothing
    <3>4. /\ phase'[w] = "capturing" /\ request'[w] = r /\ lock'[r] = w
          /\ \A v \in Pullers \ {w} : phase'[v] = phase[v] /\ request'[v] = request[v]
          /\ \A g \in Directories \ {r} : lock'[g] = lock[g] /\ work'[g] = work[g]
          /\ work'[r] \in {work[r], Nothing}
      BY <3>1, <3>2 DEF PInv, PullTypeOK
    <3>5. \A v \in Pullers : phase[v] # "idle" =>
            v # w /\ Dir(v)' = Dir(v) /\ Dir(v) # r /\ Dir(v) \in Directories
      BY <1>0, <2>2, <2>4, <3>4 DEF PInv, LockInv, Dir, Directories
    <3>6. IInv'
      BY <3>1, PoolUnchanged, LaunchIInv DEF PInv
    <3>7. LockInv'
      BY <2>2, <3>4, <3>5 DEF PInv, LockInv, Dir, Fingerprint
    <3>8. QuietInv'
      BY <1>0, <3>1, <3>4 DEF PInv, QuietInv, pool
    <3>9. CapturedInv'
      <4>1. phase'["pull"] = "capturing" =>
              \A j \in Jobs : outcome'[j] = "captured" => snapshots'["pull"][j] # None
        <5>1. CASE w = "pull"
          BY <3>1, <5>1 DEF Launch, Pool
        <5>2. CASE w # "pull"
          BY <1>0, <2>2, <3>1, <3>4, <5>2 DEF PInv, CapturedInv, pool
        <5> QED
          BY <5>1, <5>2
      <4> QED
        BY <2>2, <3>4, <4>1 DEF PInv, CapturedInv
    <3>10. WorkInv'
      BY <3>2, <3>4 DEF PInv, WorkInv, Nothing
    <3>11. OwnWork'
      <4> SUFFICES ASSUME NEW v \in Pullers, NEW k \in Jobs, snapshots'[v][k] # None
                   PROVE  work'[Dir(v)'][k] = snapshots'[v][k]
        BY DEF OwnWork
      <4>1. snapshots[v][k] # None
        BY <2>2
      <4>2. phase[v] # "idle"
        BY <4>1 DEF PInv, LockInv, Nothing
      <4> QED
        BY <2>2, <3>4, <3>5, <4>1, <4>2 DEF PInv, OwnWork
    <3>12. AsRequested' /\ LedgerInstalled'
      BY <2>2 DEF PInv, AsRequested, LedgerInstalled
    <3> QED
      BY <3>3, <3>6, <3>7, <3>8, <3>9, <3>10, <3>11, <3>12 DEF PInv
  <2> QED
    BY <2>3, <2>4
<1>11. CASE UNCHANGED pullAll
  <2>1. UNCHANGED pool /\ UNCHANGED pullVars
    BY <1>11 DEF pullAll
  <2>2. IInv'
    BY <2>1, PoolUnchanged DEF PInv
  <2> QED
    BY <2>1, <2>2 DEF pool, pullVars, PInv, PullTypeOK, LockInv, QuietInv, WorkInv,
                      CapturedInv, OwnWork, AsRequested, LedgerInstalled, Dir
<1> QED
  BY <1>0, <1>1, <1>2, <1>3, <1>4, <1>5, <1>6, <1>7, <1>8, <1>9, <1>10, <1>11
  DEF PullNext, PullStep, RivalStep, Step

LEMMA PullInvariance == PullSpec => []PInv
BY InitPInv, NextPInv, PTL DEF PullSpec

-----------------------------------------------------------------------------
(* What holds of a capture's pool holds in the pulls that start it, one    *)
(* after the other, and that may end with it (runCaptureJobs in capture).  *)
THEOREM PoolInPull ==
  PullSpec => [](TypeOK /\ WorkersBounded /\ OutcomeFaithful)
<1>1. PInv => TypeOK /\ WorkersBounded /\ OutcomeFaithful
  BY IInvBounds, IInvReports DEF PInv, OutcomeFaithful
<1> QED
  BY <1>1, PullInvariance, PTL

(* Every variable of a pull keeps its type. *)
THEOREM PullTypeCorrect == PullSpec => []PullTypeOK
<1>1. PInv => PullTypeOK
  BY DEF PInv
<1> QED
  BY <1>1, PullInvariance, PTL

(* An adapter at work in a directory works for a pull that is capturing    *)
(* and has the directory's lock.                                           *)
THEOREM NoWriterStrays == PullSpec => []NoStrayWriter
<1>1. PInv => NoStrayWriter
  BY DEF PInv, QuietInv, LockInv, NoStrayWriter, Holding, Pullers
<1> QED
  BY <1>1, PullInvariance, PTL

(* What a pull has captured stays in its directory until it removes it.    *)
THEOREM WorkIsOwn == PullSpec => []OwnWork
<1>1. PInv => OwnWork
  BY DEF PInv
<1> QED
  BY <1>1, PullInvariance, PTL

(* The installed bundle has only data that was captured by the capture     *)
(* definition, policy included, of the pull that installed it.             *)
THEOREM InstalledAsRequested == PullSpec => []AsRequested
<1>1. PInv => AsRequested
  BY DEF PInv
<1> QED
  BY <1>1, PullInvariance, PTL

(* The ledger offers only what was installed. *)
THEOREM LedgerOfInstalled == PullSpec => []LedgerInstalled
<1>1. PInv => LedgerInstalled
  BY DEF PInv
<1> QED
  BY <1>1, PullInvariance, PTL

(* A completed capture is lost only to --restart or after its bundle was   *)
(* installed.                                                              *)
THEOREM CapturesAreKept == PullSpec => CheckpointsKept
<1>1. PInv /\ [PullNext]_pullAll =>
        [\A f \in Directories, j \in Jobs : work[f][j] # None /\ work'[f][j] = None =>
             \/ lock[f] = None
             \/ \E w \in Pullers : lock[f] = w /\ snapshots[w] \in installed]_pullAll
  <2> SUFFICES ASSUME PInv, [PullNext]_pullAll, NEW f \in Directories, NEW j \in Jobs,
                      work[f][j] # None, work'[f][j] = None
               PROVE  \/ lock[f] = None
                      \/ \E w \in Pullers : lock[f] = w /\ snapshots[w] \in installed
    OBVIOUS
  <2>1. "pull" \in Pullers /\ "rival" \in Pullers /\ None \notin Data
    BY RequestsAssumption DEF Pullers, Data
  <2>2. work'[f] # work[f] /\ work' # work
    OBVIOUS
  <2>3. ASSUME NEW w \in Pullers, NEW k \in Jobs, phase[w] = "capturing",
               Adapter(w, k), UNCHANGED <<phase, request, lock>>
        PROVE  FALSE
    BY <2>3, AdapterStep
  <2>4. ASSUME NEW k \in Jobs, Goroutine(k) PROVE FALSE
    <3>1. Return(k) /\ UNCHANGED <<phase, request, lock>> /\ Adapter("pull", k)
      BY <2>2, <2>4 DEF Goroutine, pullVars
    <3>2. phase["pull"] = "capturing"
      BY <3>1 DEF PInv, QuietInv, Return
    <3> QED
      BY <2>1, <2>3, <3>1, <3>2
  <2>5. ASSUME NEW k \in Jobs, RivalAdapter(k) PROVE FALSE
    BY <2>1, <2>3, <2>5 DEF RivalAdapter
  <2>6. ASSUME NEW w \in Pullers, Clean(w)
        PROVE  lock[f] = w /\ snapshots[w] \in installed
    <3>1. f = Dir(w)
      BY <2>2, <2>6 DEF Clean, PInv, PullTypeOK
    <3> QED
      BY <2>6, <3>1 DEF Clean, PInv, LockInv, CapturedInv
  <2>7. ASSUME NEW w \in Pullers, Begin(w) PROVE lock[f] = None
    <3>1. PICK r \in Requests, restart \in BOOLEAN :
            IF lock[r] = None
              THEN work' = IF restart THEN [work EXCEPT ![r] = Nothing] ELSE work
              ELSE UNCHANGED work
      BY <2>7 DEF Begin, Fingerprint
    <3>2. lock[r] = None
      BY <2>2, <3>1
    <3>3. f = r
      BY <2>2, <3>1, <3>2 DEF PInv, PullTypeOK
    <3> QED
      BY <3>2, <3>3
  <2>8. ASSUME NEW w \in Pullers,
               FinishCapture(w) \/ Abandon(w) \/ Install(w) \/ Publish(w) \/ Crash(w)
        PROVE  FALSE
    BY <2>2, <2>8 DEF FinishCapture, Abandon, Fail, Install, Publish, Crash
  <2>9. ~ (AwaitCapture \/ Interrupt \/ UNCHANGED pullAll)
    BY <2>2 DEF AwaitCapture, Interrupt, pullVars, pullAll
  <2> QED
    BY <2>1, <2>4, <2>5, <2>6, <2>7, <2>8, <2>9 DEF PullNext, PullStep, RivalStep, Step
<1> QED
  BY <1>1, PullInvariance, PTL DEF PullSpec, CheckpointsKept
=============================================================================
