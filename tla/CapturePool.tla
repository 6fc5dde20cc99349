---------------------------- MODULE CapturePool ----------------------------
(***************************************************************************)
(* The capture of all selected resources by internal/app/plan.go:          *)
(* runCaptureJobs starts a goroutine per job, which waits for one of       *)
(* Concurrency slots or for the end of the shared context; the first       *)
(* failure cancels the context, and firstCaptureError then looks for the   *)
(* error to report.  Jobs are numbered in selection order.                 *)
(***************************************************************************)
EXTENDS Integers, FiniteSets

CONSTANTS
  N,           \* number of jobs
  Concurrency  \* capture.resource_workers, or its default

ASSUME ParametersAssumption == N \in Nat /\ Concurrency \in Nat \ {0}

Jobs == 1..N

VARIABLES
  state,       \* where each job's goroutine is
  outcome,     \* outcomes[i]: "none", "captured", or the kind of its error
  slots,       \* len(limit)
  ctx,         \* captureCtx: "live", or captureCtx.Err()
  caller,      \* how the caller ended the parent context, if it did
  examined,    \* outcomes that firstCaptureError has seen; -1 before Wait returns
  captureErr   \* the job whose error it holds, or 0

vars == <<state, outcome, slots, ctx, caller, examined, captureErr>>

States  == {"waiting", "running", "returned", "releasing", "done"}
Endings == {"canceled", "deadline"}
Errors  == {"failed"} \cup Endings

Init ==
  /\ state = [j \in Jobs |-> "waiting"]
  /\ outcome = [j \in Jobs |-> "none"]
  /\ slots = 0
  /\ ctx = "live"
  /\ caller = "none"
  /\ examined = -1
  /\ captureErr = 0

Goto(j, s)    == state' = [state EXCEPT ![j] = s]
Record(j, o)  == outcome' = [outcome EXCEPT ![j] = o]
EndContext(e) == ctx' = IF ctx = "live" THEN e ELSE ctx

-----------------------------------------------------------------------------
(* The select of a goroutine may take a slot although the context is over, *)
(* since it chooses among what is ready, ...                               *)
TakeSlot(j) ==
  /\ state[j] = "waiting"
  /\ slots < Concurrency
  /\ slots' = slots + 1
  /\ Goto(j, "running")
  /\ UNCHANGED <<outcome, ctx, caller, examined, captureErr>>

(* ... or gives up with the context's error. *)
GiveUp(j) ==
  /\ state[j] = "waiting"
  /\ ctx # "live"
  /\ Record(j, ctx)
  /\ Goto(j, "done")
  /\ UNCHANGED <<slots, ctx, caller, examined, captureErr>>

(* The adapter returns a snapshot, an error of its own, or, once its       *)
(* context is over, perhaps the context's error, which it never invents.   *)
Return(j) ==
  /\ state[j] = "running"
  /\ \E o \in {"captured", "failed"} \cup ({ctx} \ {"live"}) :
       /\ Record(j, o)
       /\ Goto(j, IF o = "captured" THEN "releasing" ELSE "returned")
  /\ UNCHANGED <<slots, ctx, caller, examined, captureErr>>

(* A failed job calls cancelCaptures. *)
CancelCaptures(j) ==
  /\ state[j] = "returned"
  /\ EndContext("canceled")
  /\ Goto(j, "releasing")
  /\ UNCHANGED <<outcome, slots, caller, examined, captureErr>>

(* Mutant: only a failed job gives its slot back. *)
ReleaseFailed(j) ==
  /\ state[j] = "releasing"
  /\ slots' = IF outcome[j] = "captured" THEN slots ELSE slots - 1
  /\ Goto(j, "done")
  /\ UNCHANGED <<outcome, ctx, caller, examined, captureErr>>

(* The deferred functions: the slot, then captures.Done. *)
Release(j) ==
  /\ state[j] = "releasing"
  /\ slots' = slots - 1
  /\ Goto(j, "done")
  /\ UNCHANGED <<outcome, ctx, caller, examined, captureErr>>

(* Mutant: the first failure is not waited out. *)
WaitFirst ==
  /\ examined = -1
  /\ \A j \in Jobs : state[j] = "done" \/ \E k \in Jobs : outcome[k] = "failed"
  /\ examined' = 0
  /\ UNCHANGED <<state, outcome, slots, ctx, caller, captureErr>>

(* captures.Wait. *)
Wait ==
  /\ examined = -1
  /\ \A j \in Jobs : state[j] = "done"
  /\ examined' = 0
  /\ UNCHANGED <<state, outcome, slots, ctx, caller, captureErr>>

-----------------------------------------------------------------------------
(* Mutant: the first error, of whatever kind, is kept. *)
FirstKept(j) == outcome[j] \in Errors /\ captureErr = 0

(* firstCaptureError: the condition on which it takes an outcome's error.  *)
Preferred(j) ==
  /\ outcome[j] \in Errors
  /\ captureErr = 0 \/ (outcome[captureErr] = "canceled" /\ outcome[j] # "canceled")

(* One round of its loop. *)
Examine ==
  /\ examined \in 0..(N - 1)
  /\ examined' = examined + 1
  /\ captureErr' = IF Preferred(examined + 1) THEN examined + 1 ELSE captureErr
  /\ UNCHANGED <<state, outcome, slots, ctx, caller>>

(* The caller cancels its context, or its deadline passes. *)
CallerEnds ==
  /\ caller = "none"
  /\ \E e \in Endings : caller' = e /\ EndContext(e)
  /\ UNCHANGED <<state, outcome, slots, examined, captureErr>>

-----------------------------------------------------------------------------
Run(j) == TakeSlot(j) \/ GiveUp(j) \/ Return(j) \/ CancelCaptures(j) \/ Release(j)

Next == (\E j \in Jobs : Run(j)) \/ Wait \/ Examine \/ CallerEnds

Spec == Init /\ [][Next]_vars

-----------------------------------------------------------------------------
(* Types of the variables. *)
TypeOK ==
  /\ state \in [Jobs -> States]
  /\ outcome \in [Jobs -> {"none", "captured"} \cup Errors]
  /\ slots \in 0..Concurrency
  /\ ctx \in {"live"} \cup Endings
  /\ caller \in {"none"} \cup Endings
  /\ examined \in -1..N
  /\ captureErr \in 0..N

Finished == examined = N

(* At most Concurrency adapters run at once, whichever way jobs end.       *)
Holding == {j \in Jobs : state[j] \in {"running", "returned", "releasing"}}
WorkersBounded == Cardinality(Holding) <= Concurrency

(* firstCaptureError's comment: the cancellation that one capture's        *)
(* failure induced in the others is never what is reported; a cancellation *)
(* that is reported is the caller's.                                       *)
InducedCancellationHidden ==
  Finished /\ captureErr # 0 /\ outcome[captureErr] = "canceled" => caller = "canceled"

(* The rest of that comment, and TestCaptureReturnsLowestSelectionFailure: *)
(* of the errors that are no cancellation, the first in selection order is *)
(* reported, in whatever order they occurred.                              *)
LowestFailureReported ==
  Finished =>
    \A j \in Jobs : outcome[j] \in Errors \ {"canceled"} =>
      captureErr \in 1..j /\ outcome[captureErr] # "canceled"

(* capture uses every outcome's snapshot if there is no error: no job may  *)
(* then have gone without running.                                         *)
NothingSkipped ==
  Finished /\ captureErr = 0 => \A j \in Jobs : outcome[j] = "captured"

(* firstCaptureError and capture together: what capture goes by, an error  *)
(* or all the snapshots, is what the jobs came to.                         *)
OutcomeFaithful == InducedCancellationHidden /\ LowestFailureReported /\ NothingSkipped
=============================================================================
