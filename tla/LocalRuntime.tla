----------------------------- MODULE LocalRuntime -----------------------------
(***************************************************************************)
(* floceed up, down and reset (internal/app/local.go) around a container   *)
(* of Floci, whose ready hook is the replay program.  Every `up` is a      *)
(* process of its own with a deadline; they and `down` share the container *)
(* and, through its storage, what earlier containers left.                 *)
(***************************************************************************)
EXTENDS Replay

CONSTANT Ups  \* the invocations of `floceed up`

VARIABLES
  entry,      \* the generated Compose file: "regular", "missing" or "special"
  storage,    \* Floci's state: "memory", or persistent on a "volume" or "path"
  honest,     \* whether Floci does not report ready when a ready hook has failed
  container,  \* "down", "booting", "hook": the replay runs, "ready", "failed"
  up          \* for each `up` where it is, whether its caller has canceled it
              \* or its deadline has passed, what it has heard, and when

local == <<entry, storage, honest>>
vars  == <<rvars, local, container, up>>

NoCall == [pc |-> "idle", canceled |-> FALSE, expired |-> FALSE, result |-> "none", start |-> 0]

Init ==
  /\ ReplayInit
  /\ entry \in {"regular", "missing", "special"}
  /\ storage \in {"memory", "volume", "path"}
  /\ honest \in BOOLEAN
  /\ container = "down"
  /\ up = [u \in Ups |-> NoCall]

-----------------------------------------------------------------------------
Say(u, pc, result) == up' = [up EXCEPT ![u].pc = pc, ![u].result = result]
Return(u, result)  ==
  up' = [up EXCEPT ![u] = [NoCall EXCEPT !.pc = "returned", !.result = result,
                                         !.start = up[u].start]]
Active(u) == up[u].pc \notin {"idle", "returned"}

(* UpWithOptions, once more: composeEntry is looked at before Docker is called. *)
UpBegin(u) ==
  /\ ~Active(u) /\ starts < MaxStarts
  /\ CASE entry = "missing" -> Return(u, "BUNDLE_MISSING")
       [] entry = "special" -> Return(u, "BUNDLE_INVALID")
       [] OTHER             -> up' = [up EXCEPT ![u] = [NoCall EXCEPT !.pc = "starting"]]
  /\ UNCHANGED <<rvars, local, container>>

Started == IF container = "down" THEN "booting" ELSE container

(* The context's end takes precedence over the error it caused. *)
Outcome(u, other) ==
  CASE up[u].canceled -> "canceled"
    [] up[u].expired  -> "FLOCI_READY_TIMEOUT"
    [] OTHER          -> other

(* docker compose up -d; a container that runs is left alone. *)
ComposeUp(u) ==
  /\ up[u].pc = "starting" /\ ~up[u].canceled
  /\ container' = Started
  /\ IF up[u].expired THEN Return(u, "FLOCI_READY_TIMEOUT") ELSE Say(u, "waiting", "none")
  /\ UNCHANGED <<rvars, local>>

(* It fails, or is killed with the context, perhaps after the start. *)
ComposeUpFails(u) ==
  /\ up[u].pc = "starting"
  /\ container' \in {container, Started}
  /\ Return(u, Outcome(u, "COMPOSE_UP_FAILED"))
  /\ UNCHANGED <<rvars, local>>

(* What Floci's status tells: the code reads it in this order. *)
CompletedReady == container = "ready" \/ (container = "failed" /\ ~honest)
ScriptFailed   == container = "failed"

Decisive == CompletedReady \/ ScriptFailed

(* InspectStatus: a failed script outweighs the ready flag. *)
InspectState ==
  CASE container \in {"down", "booting"}    -> "unavailable"
    [] CompletedReady /\ ~ScriptFailed     -> "ready"
    [] OTHER                               -> "not_ready"

(* Mutant: a script that has ended is a script that has succeeded. *)
HeardEnd == "ready"

Heard == IF CompletedReady THEN "ready" ELSE "FLOCI_INIT_FAILED"

(* WaitReady: a tick whose answer settles the matter ... *)
Poll(u) ==
  /\ up[u].pc = "waiting"
  /\ Decisive
  /\ up' = [up EXCEPT ![u].pc = "heard", ![u].result = Heard, ![u].start = starts]
  /\ UNCHANGED <<rvars, local, container>>

(* ... or the context or the timer, whichever the select takes. *)
GiveUp(u) ==
  /\ up[u].pc = "waiting" /\ (up[u].canceled \/ up[u].expired)
  /\ Say(u, "heard", "FLOCI_READY_TIMEOUT")
  /\ UNCHANGED <<rvars, local, container>>

Conclude(u) ==
  /\ up[u].pc = "heard"
  /\ Return(u, Outcome(u, up[u].result))
  /\ UNCHANGED <<rvars, local, container>>

Expire(u) ==
  /\ Active(u) /\ ~up[u].expired /\ ~up[u].canceled
  /\ up' = [up EXCEPT ![u].expired = TRUE]
  /\ UNCHANGED <<rvars, local, container>>

Cancel(u) ==
  /\ Active(u) /\ ~up[u].canceled
  /\ up' = [up EXCEPT ![u].canceled = TRUE]
  /\ UNCHANGED <<rvars, local, container>>

-----------------------------------------------------------------------------
(* Floci runs its ready hook once per start of the container, ... *)
HookStarts ==
  /\ container = "booting"
  /\ \/ Start /\ container' = "hook"
     \/ Reject /\ container' = "failed"
  /\ UNCHANGED <<local, up>>

HookSteps == Step /\ UNCHANGED <<local, container, up>>

(* ... and kills it after FLOCI_INIT_HOOKS_TIMEOUT_SECONDS. *)
HookTimesOut == container = "hook" /\ Kill /\ UNCHANGED <<local, container, up>>

HookEnds ==
  /\ container = "hook" /\ ~running
  /\ container' = IF exit = "ok" THEN "ready" ELSE "failed"
  /\ UNCHANGED <<rvars, local, up>>

(* docker compose down, with --volumes for reset: what is not persistent   *)
(* goes with the container, a path outside Docker stays in any case.       *)
Stop(volumes) ==
  /\ entry = "regular" /\ container # "down"
  /\ container' = "down"
  /\ Vanish /\ exit' = "none"
  /\ IF storage = "path" \/ (storage = "volume" /\ ~volumes)
     THEN UNCHANGED floci
     ELSE /\ shape' = [r \in Resources |-> "absent"]
          /\ applied' = {} /\ linked' = {} /\ edited' = {}
          /\ value' = [k \in Stored |-> "none"]
          /\ writes' = [k \in DOMAIN writes |-> 0]
  /\ UNCHANGED <<starts, local, up>>

Down  == Stop(FALSE)
Reset == Stop(TRUE)

UserWrites ==
  /\ container \in {"ready", "failed"} /\ starts < MaxStarts
  /\ \E k \in Stored : LocalWrite(k)
  /\ UNCHANGED <<local, container, up>>

UpSteps(u) ==
  UpBegin(u) \/ ComposeUp(u) \/ ComposeUpFails(u) \/ Poll(u) \/ GiveUp(u) \/ Conclude(u)

Next ==
  \/ \E u \in Ups : UpSteps(u) \/ Expire(u) \/ Cancel(u)
  \/ HookStarts \/ HookSteps \/ HookTimesOut \/ HookEnds
  \/ Down \/ Reset \/ UserWrites

Spec == Init /\ [][Next]_vars

(* A started `up` runs on and its timer fires; the replay program runs on. *)
Fairness ==
  /\ \A u \in Ups : WF_vars(Active(u) /\ UpSteps(u)) /\ WF_vars(Expire(u))
                    /\ WF_vars(ComposeUpFails(u) /\ up[u].expired) /\ WF_vars(GiveUp(u))
  /\ WF_vars(HookSteps) /\ WF_vars(HookEnds)

-----------------------------------------------------------------------------
(* WaitReady and Conclude together: an `up` that reports ready, with the   *)
(* container it asked still there, agrees with what `status` finds, unless *)
(* Floci calls itself ready although the replay of this start has failed:  *)
(* WaitReady believes the flag, InspectStatus the failed script.           *)
UpTruthful ==
  \A u \in Ups :
    up[u].pc = "returned" /\ up[u].result = "ready" /\ up[u].start = starts
      /\ container \notin {"down", "booting"}
      => InspectState = "ready" \/ (CompletedReady /\ ScriptFailed)

(* Every `up` returns, by its deadline if by nothing else. *)
UpReturns == \A u \in Ups : Active(u) ~> up[u].pc = "returned"

(* Eight attempts per batch, and no other waiting: a run of the replay ends. *)
ReplayEnds == running ~> ~running

(* Neither command nor container waits for ever. *)
EverythingEnds == UpReturns /\ ReplayEnds
=============================================================================
