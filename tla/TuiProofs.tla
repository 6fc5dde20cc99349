------------------------------ MODULE TuiProofs ------------------------------
(***************************************************************************)
(* Proofs about Tui, for any profiles, accounts, resources and numbers of  *)
(* commands and events: what is selected is visible, a project is written  *)
(* for the account of its profile only, a pull was reviewed and permitted, *)
(* and what comes too late changes nothing.                                *)
(***************************************************************************)
EXTENDS Tui, TLAPS

(* What is chosen is chosen of the resources that are known. *)
ChoiceInv ==
  /\ dataChoice \in [Resources -> {None, "bounded", "full"}]
  /\ resources \subseteq Resources
  /\ SelectionVisible

LEMMA InitChoice == Init => ChoiceInv
  BY DEF Init, ChoiceInv, SelectionVisible, DataModes, None

LEMMA ModesDomain ==
  ASSUME NEW s PROVE DOMAIN DataModes(s) = 1..Len(DataModes(s))
<1>1. CASE s \in {"s3", "dynamodb"}
  <2>1. DataModes(s) = <<None, "bounded", "full">>
    BY <1>1 DEF DataModes
  <2> QED
    BY <2>1
<1>2. CASE s = "sqs"
  <2>1. DataModes(s) = <<None, "bounded">>
    BY <1>2 DEF DataModes
  <2> QED
    BY <2>1
<1>3. CASE s \notin {"s3", "dynamodb", "sqs"}
  <2>1. DataModes(s) = <<None>>
    BY <1>3 DEF DataModes
  <2> QED
    BY <2>1
<1> QED
  BY <1>1, <1>2, <1>3

(* The choice that follows another is one of the service's data modes. *)
LEMMA NextMode ==
  ASSUME NEW s, NEW i \in 1..Len(DataModes(s))
  PROVE  /\ (i % Len(DataModes(s))) + 1 \in 1..Len(DataModes(s))
         /\ DataModes(s)[i] \in {None, "bounded", "full"}
<1>1. CASE s \in {"s3", "dynamodb"}
  BY <1>1 DEF DataModes
<1>2. CASE s = "sqs"
  BY <1>2 DEF DataModes
<1>3. CASE s \notin {"s3", "dynamodb", "sqs"}
  BY <1>3 DEF DataModes
<1> QED
  BY <1>1, <1>2, <1>3

LEMMA ToggleDataChoice == ChoiceInv /\ ToggleData => ChoiceInv'
<1> SUFFICES ASSUME ChoiceInv, ToggleData PROVE ChoiceInv'
  OBVIOUS
<1>1. PICK r \in selected :
        LET modes == DataModes(Catalog[r].service)
            i     == CHOOSE j \in DOMAIN modes : modes[j] = dataChoice[r]
        IN  dataChoice' = [dataChoice EXCEPT ![r] = modes[(i % Len(modes)) + 1]]
  BY DEF ToggleData
<1> DEFINE modes == DataModes(Catalog[r].service)
           i     == CHOOSE j \in DOMAIN modes : modes[j] = dataChoice[r]
           k     == (i % Len(modes)) + 1
<1>2. r \in Resources
  BY DEF ChoiceInv, SelectionVisible
<1>3. DOMAIN modes = 1..Len(modes)
  BY ModesDomain
<1>4. \E j \in DOMAIN modes : modes[j] = dataChoice[r]
  BY <1>2, <1>3 DEF ChoiceInv, SelectionVisible
<1>5. i \in 1..Len(modes)
  <2> HIDE DEF modes
  <2>1. i \in DOMAIN modes
    BY <1>4, Zenon
  <2> QED
    BY <2>1, <1>3
<1>6. k \in 1..Len(modes)
  BY <1>5, NextMode
<1>7. modes[k] \in {None, "bounded", "full"}
  BY <1>6, NextMode
<1>8. dataChoice' = [dataChoice EXCEPT ![r] = modes[k]]
  BY <1>1
<1> HIDE DEF modes, i, k
<1>9. dataChoice' \in [Resources -> {None, "bounded", "full"}]
  BY <1>2, <1>7, <1>8 DEF ChoiceInv
<1>10. UNCHANGED <<resources, selected>>
  BY DEF ToggleData
<1>11. ASSUME NEW q \in Resources
       PROVE  /\ dataChoice'[q] # None => q \in selected
              /\ \E n \in 1..Len(DataModes(Catalog[q].service)) :
                   dataChoice'[q] = DataModes(Catalog[q].service)[n]
  <2>1. CASE q = r
    <3>1. dataChoice'[q] = modes[k]
      BY <2>1, <1>2, <1>8 DEF ChoiceInv
    <3> QED
      BY <2>1, <3>1, <1>6 DEF modes
  <2>2. CASE q # r
    <3>1. dataChoice'[q] = dataChoice[q]
      BY <2>2, <1>8 DEF ChoiceInv
    <3> QED
      BY <3>1 DEF ChoiceInv, SelectionVisible
  <2> QED
    BY <2>1, <2>2
<1> QED
  BY <1>9, <1>10, <1>11 DEF ChoiceInv, SelectionVisible

(* None is a data mode of every service. *)
LEMMA NoneFirst ==
  ASSUME NEW s PROVE \E n \in 1..Len(DataModes(s)) : None = DataModes(s)[n]
<1>1. 1 \in 1..Len(DataModes(s)) /\ DataModes(s)[1] = None
  BY DEF DataModes
<1> QED
  BY <1>1

LEMMA MergeChoice ==
  ASSUME ChoiceInv, NEW found \in SUBSET Resources, Merge(found)
  PROVE  ChoiceInv'
<1>1. dataChoice' \in [Resources -> {None, "bounded", "full"}]
  BY DEF ChoiceInv, Merge
<1>2. resources' \subseteq Resources /\ selected' \subseteq resources'
  BY DEF ChoiceInv, SelectionVisible, Merge
<1>3. ASSUME NEW q \in Resources
      PROVE  /\ dataChoice'[q] # None => q \in selected'
             /\ \E n \in 1..Len(DataModes(Catalog[q].service)) :
                  dataChoice'[q] = DataModes(Catalog[q].service)[n]
  <2>1. CASE Catalog[q].service \in wanted
    BY <2>1 DEF ChoiceInv, SelectionVisible, Merge
  <2>2. CASE Catalog[q].service \notin wanted
    <3>1. dataChoice'[q] = None
      BY <2>2 DEF Merge
    <3> QED
      BY <3>1, NoneFirst
  <2> QED
    BY <2>1, <2>2
<1> QED
  BY <1>1, <1>2, <1>3 DEF ChoiceInv, SelectionVisible

LEMMA ToggleResourceChoice == ChoiceInv /\ ToggleResource => ChoiceInv'
<1> SUFFICES ASSUME ChoiceInv, ToggleResource PROVE ChoiceInv'
  OBVIOUS
<1>1. PICK r \in resources :
        IF r \in selected
        THEN selected' = selected \ {r} /\ dataChoice' = [dataChoice EXCEPT ![r] = None]
        ELSE selected' = selected \cup {r} /\ UNCHANGED dataChoice
  BY DEF ToggleResource
<1>2. r \in Resources /\ resources' = resources
  BY DEF ChoiceInv, ToggleResource
<1>3. dataChoice' \in [Resources -> {None, "bounded", "full"}]
  BY <1>1, <1>2 DEF ChoiceInv
<1>4. selected' \subseteq resources'
  BY <1>1, <1>2 DEF ChoiceInv, SelectionVisible
<1>5. ASSUME NEW q \in Resources
      PROVE  /\ dataChoice'[q] # None => q \in selected'
             /\ \E n \in 1..Len(DataModes(Catalog[q].service)) :
                  dataChoice'[q] = DataModes(Catalog[q].service)[n]
  <2>1. CASE q = r /\ r \in selected
    <3>1. dataChoice'[q] = None
      BY <2>1, <1>1, <1>2 DEF ChoiceInv
    <3> QED
      BY <3>1, NoneFirst
  <2>2. CASE ~(q = r /\ r \in selected)
    <3>1. dataChoice'[q] = dataChoice[q] /\ (q \in selected => q \in selected')
      BY <2>2, <1>1, <1>2 DEF ChoiceInv
    <3> QED
      BY <3>1 DEF ChoiceInv, SelectionVisible
  <2> QED
    BY <2>1, <2>2
<1> QED
  BY <1>2, <1>3, <1>4, <1>5 DEF ChoiceInv, SelectionVisible

LEMMA ChoiceKept == ChoiceInv /\ UNCHANGED choices => ChoiceInv'
  BY DEF ChoiceInv, SelectionVisible, choices

LEMMA NextChoice == ChoiceInv /\ [Next]_vars => ChoiceInv'
<1> SUFFICES ASSUME ChoiceInv, [Next]_vars PROVE ChoiceInv'
  OBVIOUS
<1>1. CASE ToggleResource
  BY <1>1, ToggleResourceChoice
<1>2. CASE ToggleData
  BY <1>2, ToggleDataChoice
<1>3. CASE ScanFinished
  <2>1. CASE UNCHANGED choices
    BY <2>1, ChoiceKept
  <2>2. CASE \E found \in SUBSET Resources : Merge(found)
    BY <2>2, MergeChoice
  <2> QED
    BY <1>3, <2>1, <2>2 DEF ScanFinished, choices
<1>4. CASE ToggleService
  BY <1>4 DEF ToggleService, ChoiceInv, SelectionVisible
<1>5. CASE Quit
  <2>1. \A r \in Resources : dataChoice'[r] = None
    BY <1>5 DEF Quit
  <2>2. dataChoice' \in [Resources -> {None, "bounded", "full"}]
    BY <1>5 DEF Quit
  <2>3. resources' = {} /\ selected' = {}
    BY <1>5 DEF Quit
  <2> QED
    BY <2>1, <2>2, <2>3, NoneFirst DEF ChoiceInv, SelectionVisible
<1>6. CASE Save \/ IdentityLoaded \/ PlanFinished \/ PullUpdate
  BY <1>6, ChoiceKept DEF Save, IdentityLoaded, PlanFinished, PullUpdate
<1>7. CASE ProfilesLoaded \/ EnterRegion \/ \E p \in Profiles : Choose(p)
  BY <1>7, ChoiceKept DEF ProfilesLoaded, EnterRegion, Choose, LoadIdentity
<1>8. CASE AcceptIdentity \/ Scan \/ ToOptions \/ Plan \/ Proceed \/ Confirm \/ Back
  BY <1>8, ChoiceKept DEF AcceptIdentity, Scan, ToOptions, Plan, Proceed, Confirm, Back
<1>9. CASE UNCHANGED vars
  BY <1>9, ChoiceKept DEF vars
<1> QED
  BY <1>1, <1>2, <1>3, <1>4, <1>5, <1>6, <1>7, <1>8, <1>9 DEF Next, Handle

(* SelectionVisible: what is selected, and has a data mode, is a resource  *)
(* on the screen, whatever was scanned, deselected or left (mergeResources *)
(* and toggle).                                                            *)
THEOREM SelectionIsVisible == Spec => []SelectionVisible
<1>1. ChoiceInv => SelectionVisible
  BY DEF ChoiceInv
<1> QED
  BY InitChoice, NextChoice, <1>1, PTL DEF Spec

-----------------------------------------------------------------------------
(* A project is written after its account has been checked. *)
AccountInv ==
  /\ pull = "writing" => AccountMatches(request)
  /\ AccountChecked

LEMMA NextAccount == AccountInv /\ [Next]_vars => AccountInv'
<1> SUFFICES ASSUME AccountInv, [Next]_vars PROVE AccountInv'
  OBVIOUS
<1> USE DEF AccountInv, AccountChecked, AccountMatches
<1>1. CASE Save
  <2>1. CASE Recheck
    BY <1>1, <2>1 DEF Save, Recheck, Finish
  <2>2. CASE WriteProject
    BY <1>1, <2>2 DEF Save, WriteProject, Finish
  <2>3. CASE Emit \/ PullEnds \/ Report
    BY <1>1, <2>3 DEF Save, Emit, PullEnds, Report, Finish
  <2> QED
    BY <1>1, <2>1, <2>2, <2>3 DEF Save
<1>2. CASE Confirm
  BY <1>2 DEF Confirm
<1>3. CASE Quit
  BY <1>3 DEF Quit
<1>4. CASE IdentityLoaded \/ ScanFinished \/ PlanFinished \/ PullUpdate
  BY <1>4 DEF IdentityLoaded, ScanFinished, PlanFinished, PullUpdate, pulling
<1>5. CASE ProfilesLoaded \/ EnterRegion \/ \E p \in Profiles : Choose(p)
  BY <1>5 DEF ProfilesLoaded, EnterRegion, Choose, LoadIdentity, pulling
<1>6. CASE \/ AcceptIdentity \/ ToggleService \/ Scan \/ ToggleResource
           \/ ToOptions \/ ToggleData \/ Plan \/ Proceed \/ Back
  BY <1>6 DEF AcceptIdentity, ToggleService, Scan, ToggleResource, ToOptions,
              ToggleData, Plan, Proceed, Back, pulling
<1>7. CASE UNCHANGED vars
  BY <1>7 DEF vars, pulling
<1> QED
  BY <1>1, <1>2, <1>3, <1>4, <1>5, <1>6, <1>7 DEF Next, Handle

(* AccountChecked: the project that is written, and read with, names the   *)
(* account of its profile or none (ExpectedAccountID in SaveAndPull).      *)
THEOREM AccountIsChecked == Spec => []AccountChecked
<1>1. Init => AccountInv
  BY DEF Init, AccountInv, AccountChecked
<1>2. AccountInv => AccountChecked
  BY DEF AccountInv
<1> QED
  BY <1>1, <1>2, NextAccount, PTL DEF Spec

-----------------------------------------------------------------------------
(* The fields of a command; what they hold matters where it is compared.   *)
Command(c) ==
  [kind : {"identity", "scan", "plan"}, n : {c.n}, profile : {c.profile},
   wanted : {c.wanted}, request : {c.request}, fresh : BOOLEAN, current : BOOLEAN]

CommandInv == \A c \in commands : c \in Command(c)

Awaited(kind) == {c \in commands : c.kind = kind /\ c.current}

(* Where the user is while the completion of a scan or a plan is awaited.  *)
PlaceInv ==
  /\ pending \in {None, "services", "options"}
  /\ Awaited("scan") # {} => screen \in {"profiles", "region", "identity", "services"}
  /\ Awaited("plan") # {} => screen = "options"
  /\ \A kind \in {"scan", "plan"} : \A c, d \in Awaited(kind) : c = d

(* A scan that was left finds no screen that waits for it, and a plan that *)
(* was left has lost its token.                                            *)
StaleInv ==
  /\ \A c \in Awaited("scan") : ~c.fresh => pending = None
  /\ \A c \in Awaited("plan") : c.fresh

(* One identity is loaded at a time, for the chosen profile, and the user  *)
(* waits for it.                                                           *)
LoadingInv ==
  ~raced =>
    /\ Running("identity") # {} => screen = "identity" /\ busy
    /\ screen = "identity" /\ busy => Running("identity") # {}
    /\ \A c, d \in Running("identity") : c = d
    /\ \A c \in Running("identity") : c.profile = profile
    /\ screen = "identity" /\ ~busy => identity \in {None, Account[profile]}

(* The options stay as they are while a plan is made of them; the profile  *)
(* and the selection do so whatever reports.                               *)
FrozenInv ==
  \A c \in Awaited("plan") :
    /\ c.request.profile = profile /\ DOMAIN c.request.data = selected
    /\ ~raced => busy /\ c.request.data = Request.data

(* The checks stand between a plan and its pull. *)
CheckedInv ==
  /\ screen = "review" => checks # None
  /\ checks \in {None, "passed", "failed"}
  /\ screen \in {"summary", "confirm", "progress", "result"} => checks = "passed"
  /\ pull # "idle" \/ armed => screen \in {"progress", "result"} /\ pull # "idle"
  /\ screen \in {"progress", "result"} =>
       Covers(request) /\ AccountMatches(plan) /\ (~raced => Planned(request))

IInv ==
  /\ CommandInv /\ PlaceInv /\ StaleInv /\ LoadingInv /\ FrozenInv /\ CheckedInv
  /\ PlanCurrent /\ IdentityCurrent

LEMMA InitIInv == Init => IInv
  BY DEF Init, IInv, CommandInv, PlaceInv, StaleInv, LoadingInv, FrozenInv, CheckedInv,
         PlanCurrent, IdentityCurrent, Awaited, Running, Reviewing, Beyond, None

-----------------------------------------------------------------------------
(* What becomes of a command that is left, or outdated. *)
LEMMA LeftFields ==
  ASSUME NEW c, c \in Command(c)
  PROVE  LET d == [c EXCEPT !.fresh = FALSE]
         IN  /\ d \in Command(d) /\ d.kind = c.kind /\ d.profile = c.profile
             /\ d.request = c.request /\ d.current = c.current /\ d.fresh = FALSE
             /\ ~c.fresh => d = c
  BY DEF Command

LEMMA OutdatedFields ==
  ASSUME NEW c, c \in Command(c)
  PROVE  LET d == [c EXCEPT !.current = FALSE]
         IN  /\ d \in Command(d) /\ d.kind = c.kind /\ d.profile = c.profile
             /\ d.request = c.request /\ d.fresh = c.fresh /\ d.current = FALSE
             /\ ~c.current => d = c
  BY DEF Command

-----------------------------------------------------------------------------
(* Steps that start, end or leave no command. *)
LEMMA QuietSteps ==
  ASSUME IInv,
         \/ ProfilesLoaded \/ AcceptIdentity \/ ToggleService \/ ToggleResource
         \/ ToOptions \/ ToggleData \/ Proceed \/ Confirm \/ Save \/ PullUpdate
         \/ UNCHANGED vars
         \/ \E p \in Profiles : Choose(p) /\ ~region
  PROVE  IInv'
<1> USE DEF IInv, CommandInv, PlaceInv, StaleInv, LoadingInv, FrozenInv, CheckedInv,
         PlanCurrent, IdentityCurrent, Awaited, Running, Reviewing, Beyond, Planned, Covers, AccountMatches, Request, None,
         vars, view, source, choices, reviewed, pulling
<1>1. CASE ProfilesLoaded
  BY <1>1 DEF ProfilesLoaded
<1>2. CASE AcceptIdentity
  BY <1>2 DEF AcceptIdentity
<1>3. CASE ToggleService
  BY <1>3 DEF ToggleService
<1>4. CASE ToggleResource
  BY <1>4 DEF ToggleResource
<1>5. CASE ToOptions
  BY <1>5 DEF ToOptions
<1>6. CASE ToggleData
  <2>1. /\ screen = "options" /\ ~busy
        /\ UNCHANGED <<view, source, wanted, resources, selected, reviewed, commands, raced, pulling>>
    BY <1>6 DEF ToggleData
  <2>2. CommandInv' /\ PlaceInv' /\ StaleInv'
    BY <2>1
  <2>3. LoadingInv' /\ IdentityCurrent'
    BY <2>1
  <2>4. FrozenInv'
    BY <2>1
  <2>5. CheckedInv' /\ PlanCurrent'
    BY <2>1
  <2> QED
    BY <2>2, <2>3, <2>4, <2>5
<1>7. CASE Proceed
  BY <1>7 DEF Proceed, Blocked
<1>8. CASE Confirm
  BY <1>8 DEF Confirm
<1>9. CASE Save
  BY <1>9 DEF Save, Recheck, WriteProject, Emit, PullEnds, Report, Finish
<1>10. CASE PullUpdate
  BY <1>10 DEF PullUpdate, Rearm
<1>11. CASE UNCHANGED vars
  BY <1>11
<1>12. CASE \E p \in Profiles : Choose(p) /\ ~region
  BY <1>12 DEF Choose
<1> QED
  BY <1>1, <1>2, <1>3, <1>4, <1>5, <1>6, <1>7, <1>8, <1>9, <1>10, <1>11, <1>12

(* What is awaited after a command has started. *)
LEMMA Started ==
  ASSUME CommandInv, NEW kind \in {"identity", "scan", "plan"}, NEW p, NEW w, NEW req,
         commands' = Outdated(kind) \cup {Cmd(kind, p, w, req)}
  PROVE  /\ CommandInv'
         /\ Awaited(kind)' = {Cmd(kind, p, w, req)}
         /\ \A other \in {"identity", "scan", "plan"} \ {kind} :
              Running(other)' = Running(other) /\ Awaited(other)' = Awaited(other)
<1> DEFINE new == Cmd(kind, p, w, req)
<1>1. /\ new \in Command(new) /\ new.kind = kind /\ new.current = TRUE
  BY DEF Cmd, Command
<1> HIDE DEF new
<1>2. \A c \in commands : c \in Command(c)
  BY DEF CommandInv
<1>3. \A c \in commands :
        LET d == [c EXCEPT !.current = FALSE]
        IN  d \in Command(d) /\ d.kind = c.kind /\ d.current = FALSE
  BY <1>2, OutdatedFields
<1>4. \A d \in Outdated(kind) :
        /\ d \in Command(d)
        /\ d.kind = kind => d.current = FALSE
        /\ d.kind # kind => d \in commands
  BY <1>2, <1>3 DEF Outdated
<1>5. \A d \in commands : d.kind # kind => d \in Outdated(kind)
  BY DEF Outdated
<1>6. commands' = Outdated(kind) \cup {new}
  BY DEF new
<1>7. CommandInv'
  BY <1>1, <1>4, <1>6 DEF CommandInv
<1>8. Awaited(kind)' = {new}
  BY <1>1, <1>4, <1>6 DEF Awaited
<1>9. ASSUME NEW other \in {"identity", "scan", "plan"} \ {kind}
      PROVE  Running(other)' = Running(other) /\ Awaited(other)' = Awaited(other)
  BY <1>1, <1>4, <1>5, <1>6 DEF Awaited, Running
<1> QED
  BY <1>7, <1>8, <1>9 DEF new

LEMMA LoadIdentityStep ==
  ASSUME IInv, NEW p, LoadIdentity(p), profile' = p, Running("identity") = {} \/ raced,
         screen \in {"profiles", "region"}
  PROVE  IInv'
<1> DEFINE new == Cmd("identity", p, {}, NoRequest)
<1>1. /\ new \in Command(new) /\ new.kind = "identity" /\ new.profile = p
  BY DEF Cmd, Command
<1>2. /\ commands' = commands \cup {new} /\ screen' = "identity" /\ busy' = TRUE
      /\ UNCHANGED <<pending, err, identity, choices, reviewed, raced, pulling>>
  BY DEF LoadIdentity
<1> HIDE DEF new
<1>3. CommandInv'
  BY <1>1, <1>2 DEF IInv, CommandInv
<1>4. Awaited("scan")' = Awaited("scan") /\ Awaited("plan")' = Awaited("plan")
  BY <1>1, <1>2 DEF Awaited
<1>5. Running("identity")' = Running("identity") \cup {new}
  BY <1>1, <1>2 DEF Running
<1>6. PlaceInv' /\ StaleInv'
  BY <1>2, <1>4 DEF IInv, PlaceInv, StaleInv
<1>7. LoadingInv'
  BY <1>1, <1>2, <1>5 DEF IInv, LoadingInv
<1>8. FrozenInv'
  BY <1>2, <1>4 DEF IInv, PlaceInv, FrozenInv
<1>9. CheckedInv' /\ PlanCurrent' /\ IdentityCurrent'
  BY <1>2 DEF IInv, CheckedInv, PlanCurrent, IdentityCurrent, Reviewing, Beyond,
              choices, reviewed, pulling
<1> QED
  BY <1>3, <1>6, <1>7, <1>8, <1>9 DEF IInv

LEMMA ScanStep == ASSUME IInv, Scan PROVE IInv'
<1> DEFINE new == Cmd("scan", profile, wanted, NoRequest)
<1>1. /\ commands' = Outdated("scan") \cup {new} /\ screen = "services" /\ ~busy
      /\ busy' = TRUE /\ pending' = "services"
      /\ UNCHANGED <<screen, err, source, choices, reviewed, raced, pulling>>
  BY DEF Scan
<1>2. /\ CommandInv' /\ Awaited("scan")' = {new}
      /\ Running("identity")' = Running("identity") /\ Awaited("plan")' = Awaited("plan")
  BY <1>1, Started DEF IInv
<1>3. new.fresh = TRUE
  BY DEF Cmd, Command
<1> HIDE DEF new
<1>4. PlaceInv' /\ StaleInv'
  BY <1>1, <1>2, <1>3 DEF IInv, PlaceInv, StaleInv
<1>5. LoadingInv'
  BY <1>1, <1>2 DEF IInv, LoadingInv, source
<1>6. FrozenInv'
  BY <1>1, <1>2 DEF IInv, PlaceInv, FrozenInv
<1>7. CheckedInv' /\ PlanCurrent' /\ IdentityCurrent'
  BY <1>1 DEF IInv, CheckedInv, PlanCurrent, IdentityCurrent, Reviewing, Beyond,
              source, choices, reviewed, pulling, Planned, Covers, AccountMatches
<1> QED
  BY <1>2, <1>4, <1>5, <1>6, <1>7 DEF IInv

LEMMA PlanStep == ASSUME IInv, Plan PROVE IInv'
<1> DEFINE new == Cmd("plan", profile, wanted, Request)
<1>1. /\ commands' = Outdated("plan") \cup {new} /\ screen = "options" /\ ~busy
      /\ busy' = TRUE /\ pending' = "options"
      /\ UNCHANGED <<screen, err, source, choices, reviewed, raced, pulling>>
  BY DEF Plan
<1>2. /\ CommandInv' /\ Awaited("plan")' = {new}
      /\ Running("identity")' = Running("identity") /\ Awaited("scan")' = Awaited("scan")
  BY <1>1, Started DEF IInv
<1>3. new.fresh = TRUE /\ new.request = Request
  BY DEF Cmd, Command
<1> HIDE DEF new
<1>4. PlaceInv' /\ StaleInv'
  BY <1>1, <1>2, <1>3 DEF IInv, PlaceInv, StaleInv
<1>5. LoadingInv'
  BY <1>1, <1>2 DEF IInv, LoadingInv, source
<1>6. FrozenInv'
  BY <1>1, <1>2, <1>3 DEF FrozenInv, Request, source, choices
<1>7. CheckedInv' /\ PlanCurrent' /\ IdentityCurrent'
  BY <1>1 DEF IInv, CheckedInv, PlanCurrent, IdentityCurrent, Reviewing, Beyond,
              source, choices, reviewed, pulling, Planned, Covers, AccountMatches
<1> QED
  BY <1>2, <1>4, <1>5, <1>6, <1>7 DEF IInv

(* What is awaited after a command has ended. *)
LEMMA Ended ==
  ASSUME CommandInv, NEW c \in commands, commands' = commands \ {c}
  PROVE  /\ CommandInv'
         /\ \A kind : Awaited(kind)' = Awaited(kind) \ {c}
         /\ \A kind : Running(kind)' = Running(kind) \ {c}
  BY DEF CommandInv, Awaited, Running

LEMMA IdentityLoadedStep == ASSUME IInv, IdentityLoaded PROVE IInv'
<1>1. PICK c \in Running("identity") :
        /\ commands' = commands \ {c} /\ busy' = FALSE
        /\ identity' = Account[c.profile] \/ identity' = None
  BY DEF IdentityLoaded
<1>2. UNCHANGED <<screen, pending, profile, region, choices, reviewed, raced, pulling>>
  BY DEF IdentityLoaded
<1>3. c \in commands /\ c.kind = "identity"
  BY DEF Running
<1>4. /\ CommandInv' /\ Running("identity")' = Running("identity") \ {c}
      /\ Awaited("scan")' = Awaited("scan") \ {c} /\ Awaited("plan")' = Awaited("plan") \ {c}
  BY <1>1, <1>3, Ended DEF IInv
<1>5. Awaited("scan")' = Awaited("scan") /\ Awaited("plan")' = Awaited("plan")
  BY <1>3, <1>4 DEF Awaited
<1>6. PlaceInv' /\ StaleInv'
  BY <1>2, <1>5 DEF IInv, PlaceInv, StaleInv
<1>7. LoadingInv'
  BY <1>1, <1>2, <1>4 DEF IInv, LoadingInv
<1>8. FrozenInv'
  BY <1>2, <1>5 DEF IInv, LoadingInv, PlaceInv, FrozenInv, Request, choices
<1>9. CheckedInv' /\ PlanCurrent'
  BY <1>2 DEF IInv, CheckedInv, PlanCurrent, Reviewing, choices, reviewed, pulling, Planned, Covers, AccountMatches, Request
<1>10. IdentityCurrent'
  BY <1>2 DEF IInv, LoadingInv, IdentityCurrent, Reviewing, Beyond
<1> QED
  BY <1>4, <1>6, <1>7, <1>8, <1>9, <1>10 DEF IInv

LEMMA ScanFinishedStep == ASSUME IInv, ScanFinished PROVE IInv'
<1>1. PICK c \in Running("scan") :
        /\ commands' = commands \ {c}
        /\ \/ ~c.current /\ UNCHANGED <<view, choices, raced>>
           \/ /\ c.current /\ busy' = FALSE /\ pending' = None
              /\ raced' = (raced \/ Running("identity") # {})
              /\ \/ screen' = screen /\ UNCHANGED choices
                 \/ screen = pending /\ screen' = "resources"
  BY DEF ScanFinished, Honored
<1>2. UNCHANGED <<source, reviewed, pulling>>
  BY DEF ScanFinished
<1>3. c \in commands /\ c.kind = "scan"
  BY DEF Running
<1>4. /\ CommandInv' /\ Awaited("scan")' = Awaited("scan") \ {c}
      /\ Awaited("plan")' = Awaited("plan") \ {c}
      /\ Running("identity")' = Running("identity") \ {c}
  BY <1>1, <1>3, Ended DEF IInv
<1>5. Awaited("plan")' = Awaited("plan") /\ Running("identity")' = Running("identity")
  BY <1>3, <1>4 DEF Awaited, Running
<1>6. CASE ~c.current
  <2>1. UNCHANGED <<screen, pending, busy, err, choices, raced>>
    BY <1>1, <1>6 DEF view
  <2>2. Awaited("scan")' = Awaited("scan")
    BY <1>4, <1>6 DEF Awaited
  <2> QED
    BY <1>2, <1>4, <1>5, <2>1, <2>2
    DEF IInv, PlaceInv, StaleInv, LoadingInv, FrozenInv, CheckedInv, PlanCurrent,
        IdentityCurrent, Reviewing, Beyond, Planned, Covers, AccountMatches, Request, source, choices, reviewed, pulling
<1>7. CASE c.current
  <2>1. c \in Awaited("scan")
    BY <1>3, <1>7 DEF Awaited
  <2>2. Awaited("scan")' = {}
    BY <1>4, <2>1 DEF IInv, PlaceInv
  <2>3. screen \in {"profiles", "region", "identity", "services"}
    BY <2>1 DEF IInv, PlaceInv
  <2>4. Awaited("plan")' = {}
    BY <1>5, <2>3 DEF IInv, PlaceInv
  <2>5. busy' = FALSE /\ pending' = None /\ raced' = (raced \/ Running("identity") # {})
    BY <1>1, <1>7
  <2>6. screen' = screen \/ (screen = "services" /\ screen' = "resources")
    <3>1. screen' = screen \/ (screen = pending /\ screen' = "resources")
      BY <1>1, <1>7
    <3>2. pending \in {None, "services", "options"}
      BY DEF IInv, PlaceInv
    <3> QED
      BY <2>3, <3>1, <3>2 DEF None
  <2>7. PlaceInv' /\ StaleInv' /\ FrozenInv'
    BY <2>2, <2>4, <2>5 DEF PlaceInv, StaleInv, FrozenInv
  <2>8. LoadingInv'
    BY <1>2, <1>5, <2>5, <2>6 DEF IInv, LoadingInv, source
  <2>9. CheckedInv' /\ PlanCurrent'
    BY <1>2, <2>3, <2>6 DEF IInv, CheckedInv, PlanCurrent, Reviewing, reviewed, pulling
  <2>10. IdentityCurrent'
    <3>1. CASE screen' = screen
      BY <1>2, <2>5, <3>1 DEF IInv, IdentityCurrent, Reviewing, Beyond, source
    <3>2. CASE screen = "services"
      BY <1>2, <2>5, <3>2 DEF IInv, IdentityCurrent, Reviewing, Beyond, source
    <3> QED
      BY <2>6, <3>1, <3>2
  <2> QED
    BY <1>4, <2>7, <2>8, <2>9, <2>10 DEF IInv
<1> QED
  BY <1>3, <1>4, <1>6, <1>7 DEF IInv, CommandInv, Command

LEMMA PlanFinishedStep == ASSUME IInv, PlanFinished PROVE IInv'
<1>1. PICK c \in Running("plan") :
        /\ commands' = commands \ {c}
        /\ \/ ~c.current /\ UNCHANGED <<view, reviewed>>
           \/ /\ c.current /\ busy' = FALSE /\ pending' = None
              /\ \/ UNCHANGED <<screen, reviewed>>
                 \/ UNCHANGED screen /\ checks' = None
                 \/ /\ plan' = c.request /\ screen' = "review" /\ AccountMatches(c.request)
                    /\ checks' \in {"passed", "failed"}
  BY DEF PlanFinished, CurrentPlan
<1>2. UNCHANGED <<source, choices, raced, pulling>>
  BY DEF PlanFinished
<1>3. c \in commands /\ c.kind = "plan"
  BY DEF Running
<1>4. /\ CommandInv' /\ Awaited("plan")' = Awaited("plan") \ {c}
      /\ Awaited("scan")' = Awaited("scan") \ {c}
      /\ Running("identity")' = Running("identity") \ {c}
  BY <1>1, <1>3, Ended DEF IInv
<1>5. Awaited("scan")' = Awaited("scan") /\ Running("identity")' = Running("identity")
  BY <1>3, <1>4 DEF Awaited, Running
<1>6. CASE ~c.current
  <2>1. UNCHANGED <<screen, pending, busy, plan, checks>>
    BY <1>1, <1>6 DEF view, reviewed
  <2>2. Awaited("plan")' = Awaited("plan")
    BY <1>4, <1>6 DEF Awaited
  <2> QED
    BY <1>2, <1>4, <1>5, <2>1, <2>2
    DEF IInv, PlaceInv, StaleInv, LoadingInv, FrozenInv, CheckedInv, PlanCurrent,
        IdentityCurrent, Reviewing, Beyond, Planned, Covers, AccountMatches, Request, source, choices, pulling
<1>7. CASE c.current
  <2>1. c \in Awaited("plan")
    BY <1>3, <1>7 DEF Awaited
  <2>2. screen = "options" /\ Awaited("scan")' = {} /\ Awaited("plan")' = {}
    BY <1>4, <1>5, <2>1 DEF IInv, PlaceInv
  <2>3. /\ busy' = FALSE /\ pending' = None
        /\ \/ UNCHANGED <<screen, reviewed>>
           \/ UNCHANGED screen /\ checks' = None
           \/ /\ plan' = c.request /\ screen' = "review" /\ AccountMatches(c.request)
              /\ checks' \in {"passed", "failed"}
    BY <1>1, <1>7
  <2>4. PlaceInv' /\ StaleInv' /\ FrozenInv'
    BY <2>2, <2>3 DEF PlaceInv, StaleInv, FrozenInv
  <2>5. LoadingInv' /\ IdentityCurrent'
    BY <1>2, <1>5, <2>2, <2>3 DEF IInv, LoadingInv, IdentityCurrent, Reviewing, Beyond, source
  <2>6. CheckedInv'
    BY <1>2, <2>2, <2>3 DEF IInv, CheckedInv, reviewed, pulling, None
  <2>7. /\ c.request.profile = profile /\ DOMAIN c.request.data = selected
        /\ ~raced => c.request.data = Request.data
    BY <2>1 DEF IInv, FrozenInv
  <2>8. PlanCurrent'
    BY <1>1, <1>2, <1>7, <2>2, <2>3, <2>7 DEF IInv, PlanCurrent, Reviewing, Planned, Covers, AccountMatches,
        Request, source, choices, reviewed
  <2> QED
    BY <1>4, <2>4, <2>5, <2>6, <2>8 DEF IInv
<1> QED
  BY <1>3, <1>6, <1>7 DEF IInv, CommandInv, Command

(* What is awaited after the user has left a screen. *)
LEMMA LeftBehind ==
  ASSUME CommandInv, commands' = Left(commands)
  PROVE  /\ CommandInv'
         /\ \A kind : \A d \in Awaited(kind)' : \E c \in Awaited(kind) : d = [c EXCEPT !.fresh = FALSE]
         /\ \A kind : \A d \in Running(kind)' :
              \E c \in Running(kind) : d = [c EXCEPT !.fresh = FALSE] /\ d.profile = c.profile
         /\ \A kind : Running(kind) # {} => Running(kind)' # {}
<1>1. ASSUME NEW c \in commands
      PROVE  LET d == [c EXCEPT !.fresh = FALSE]
             IN  /\ d \in Command(d) /\ d.kind = c.kind /\ d.profile = c.profile
                 /\ d.current = c.current
  BY DEF CommandInv, Command
<1>2. \A d \in commands' : \E c \in commands : d = [c EXCEPT !.fresh = FALSE]
  BY DEF Left
<1>3. \A c \in commands : [c EXCEPT !.fresh = FALSE] \in commands'
  BY DEF Left
<1>4. CommandInv'
  BY <1>1, <1>2 DEF CommandInv
<1>5. ASSUME NEW kind, NEW d \in Awaited(kind)'
      PROVE  \E c \in Awaited(kind) : d = [c EXCEPT !.fresh = FALSE]
  BY <1>1, <1>2 DEF Awaited
<1>6. ASSUME NEW kind, NEW d \in Running(kind)'
      PROVE  \E c \in Running(kind) : d = [c EXCEPT !.fresh = FALSE] /\ d.profile = c.profile
  <2>1. d \in commands' /\ d.kind = kind
    BY DEF Running
  <2>2. PICK c \in commands : d = [c EXCEPT !.fresh = FALSE]
    BY <1>2, <2>1
  <2>3. d.kind = c.kind /\ d.profile = c.profile
    BY <1>1, <2>2
  <2> QED
    BY <2>1, <2>2, <2>3 DEF Running
<1>7. ASSUME NEW kind, Running(kind) # {} PROVE Running(kind)' # {}
  BY <1>1, <1>3, <1>7 DEF Running
<1> QED
  BY <1>4, <1>5, <1>6, <1>7

LEMMA LeftPlan ==
  ASSUME IInv, commands' = Left(Outdated("plan"))
  PROVE  CommandInv' /\ Awaited("plan")' = {}
<1>1. \A c \in Outdated("plan") : c \in Command(c) /\ (c.kind = "plan" => c.current = FALSE)
  <2>1. \A c \in commands :
          LET d == [c EXCEPT !.current = FALSE]
          IN  c \in Command(c) /\ d \in Command(d) /\ d.kind = c.kind /\ d.current = FALSE
    BY DEF IInv, CommandInv, Command
  <2> QED
    BY <2>1 DEF Outdated
<1>2. \A c \in Outdated("plan") :
        LET d == [c EXCEPT !.fresh = FALSE]
        IN  /\ d \in Command(d) /\ d.kind = c.kind /\ d.current = c.current
  BY <1>1 DEF Command
<1> QED
  BY <1>1, <1>2 DEF CommandInv, Left, Awaited

(* esc on a screen where no plan is made. *)
LEMMA LeaveStep ==
  ASSUME IInv, Back, screen \notin {"options", "review"}
  PROVE  IInv'
<1>1. /\ pending' = None /\ commands' = Left(commands)
      /\ UNCHANGED <<err, source, choices, reviewed, raced, pulling>>
  BY DEF Back, Cleared, Leave, CancelScan
<1>2. CommandInv' /\ (Running("identity") # {} => Running("identity")' # {})
  BY <1>1, LeftBehind DEF IInv
<1>3. \A kind : \A d \in Awaited(kind)' : \E c \in Awaited(kind) : d = [c EXCEPT !.fresh = FALSE]
  BY <1>1, LeftBehind DEF IInv
<1>4. \A d \in Running("identity")' :
        \E c \in Running("identity") : d = [c EXCEPT !.fresh = FALSE] /\ d.profile = c.profile
  BY <1>1, LeftBehind DEF IInv
<1>5. /\ Awaited("plan")' = {}
      /\ Awaited("scan") = {} => Awaited("scan")' = {}
      /\ \A c, d \in Awaited("scan")' : c = d
  <2>1. Awaited("plan") = {} /\ \A c, d \in Awaited("scan") : c = d
    BY DEF IInv, PlaceInv
  <2>2. ASSUME NEW c \in Awaited("scan")', NEW d \in Awaited("scan")' PROVE c = d
    <3>1. PICK c0 \in Awaited("scan") : c = [c0 EXCEPT !.fresh = FALSE]
      BY <1>3
    <3>2. PICK d0 \in Awaited("scan") : d = [d0 EXCEPT !.fresh = FALSE]
      BY <1>3
    <3>3. c0 = d0
      BY <2>1, <3>1, <3>2
    <3> QED
      BY <3>1, <3>2, <3>3
  <2>3. ASSUME Awaited("scan") = {} PROVE Awaited("scan")' = {}
    BY <1>3, <2>3
  <2>4. Awaited("plan")' = {}
    BY <1>3, <2>1
  <2> QED
    BY <2>2, <2>3, <2>4
<1>6. CASE screen = "identity" /\ busy
  <2>1. UNCHANGED <<screen, busy>>
    BY <1>6 DEF Back, Leave
  <2>2. PlaceInv' /\ StaleInv' /\ FrozenInv'
    BY <1>1, <1>5, <1>6, <2>1 DEF IInv, PlaceInv, StaleInv, FrozenInv
  <2>3. LoadingInv'
    BY <1>1, <1>2, <1>4, <1>6, <2>1 DEF IInv, LoadingInv, source
  <2>4. CheckedInv' /\ PlanCurrent' /\ IdentityCurrent'
    BY <1>1, <1>6, <2>1 DEF IInv, CheckedInv, PlanCurrent, IdentityCurrent, Reviewing, Beyond,
                        source, choices, reviewed, pulling, Planned, Covers, AccountMatches
  <2> QED
    BY <1>2, <2>2, <2>3, <2>4 DEF IInv
<1>7. CASE ~(screen = "identity" /\ busy)
  <2>1. Awaited("scan") # {} =>
          screen \in {"profiles", "region", "identity", "services"}
    BY DEF IInv, PlaceInv
  <2>2. /\ screen = "region" => screen' = "profiles" /\ UNCHANGED busy
        /\ screen = "identity" => screen' = "profiles" /\ UNCHANGED busy
        /\ screen = "services" => screen' = "identity" /\ busy' = FALSE
        /\ screen = "resources" => screen' = "services" /\ UNCHANGED busy
        /\ screen = "summary" => screen' = "review" /\ UNCHANGED busy
        /\ screen = "confirm" => screen' = "summary" /\ UNCHANGED busy
        /\ screen \notin {"region", "identity", "services", "resources", "summary", "confirm"} =>
             UNCHANGED <<screen, busy>>
    BY <1>7 DEF Back, Leave, CancelScan
  <2>3. PlaceInv' /\ StaleInv' /\ FrozenInv'
    BY <1>1, <1>5, <2>1, <2>2 DEF IInv, PlaceInv, StaleInv, FrozenInv, None
  <2>4. ~raced => Running("identity") = {} /\ Running("identity")' = {}
    BY <1>4, <1>7 DEF IInv, LoadingInv
  <2>5. LoadingInv'
    BY <1>1, <1>7, <2>2, <2>4 DEF IInv, LoadingInv, IdentityCurrent, Beyond, source
  <2>6. CheckedInv'
    BY <1>1, <2>2 DEF IInv, CheckedInv, reviewed, pulling, Planned, Covers, AccountMatches, None
  <2>7. PlanCurrent'
    BY <1>1, <2>2 DEF IInv, PlanCurrent, Reviewing, reviewed, source, choices, Planned, Covers, AccountMatches, Request
  <2>8. IdentityCurrent'
    BY <1>1, <1>7, <2>2 DEF IInv, IdentityCurrent, Reviewing, Beyond, source
  <2> QED
    BY <1>2, <2>3, <2>5, <2>6, <2>7, <2>8 DEF IInv
<1> QED
  BY <1>6, <1>7

(* esc where a plan is made, or reviewed. *)
LEMMA LeavePlanStep ==
  ASSUME IInv, Back, screen \in {"options", "review"}
  PROVE  IInv'
<1>1. /\ pending' = None /\ commands' = Left(Outdated("plan")) /\ UNCHANGED busy
      /\ screen' = IF screen = "options" THEN "resources" ELSE "options"
      /\ checks' \in {None, checks}
      /\ UNCHANGED <<err, source, choices, raced, pulling>>
  BY DEF Back, Cleared, LeavePlan, reviewed
<1>2. CommandInv' /\ Awaited("plan")' = {}
  BY <1>1, LeftPlan DEF IInv
<1>3. Awaited("scan")' = {} /\ (~raced => Running("identity")' = {})
  <2>1. Awaited("scan") = {} /\ (~raced => Running("identity") = {})
    BY DEF IInv, PlaceInv, LoadingInv
  <2>2. \A c \in Outdated("plan") : \E d \in commands : c.kind = d.kind /\ (c.current => d.current)
    <3>1. ASSUME NEW c \in commands
          PROVE  LET d == [c EXCEPT !.current = FALSE] IN d.kind = c.kind /\ d.current = FALSE
      BY DEF IInv, CommandInv, Command
    <3> QED
      BY <3>1 DEF Outdated
  <2>3. \A c \in Outdated("plan") : c \in Command(c)
    <3>1. ASSUME NEW c \in commands
          PROVE  LET d == [c EXCEPT !.current = FALSE] IN d \in Command(d) /\ c \in Command(c)
      BY DEF IInv, CommandInv, Command
    <3> QED
      BY <3>1 DEF Outdated
  <2>4. ASSUME NEW c \in Outdated("plan")
        PROVE  LET d == [c EXCEPT !.fresh = FALSE] IN d.kind = c.kind /\ d.current = c.current
    BY <2>3 DEF Command
  <2>5. \A d \in commands' : \E c \in Outdated("plan") : d.kind = c.kind /\ (d.current => c.current)
    BY <1>1, <2>4 DEF Left
  <2>6. \A d \in commands' : \E c \in commands : d.kind = c.kind /\ (d.current => c.current)
    BY <2>2, <2>5
  <2> QED
    BY <2>1, <2>6 DEF Awaited, Running
<1>4. PlaceInv' /\ StaleInv' /\ FrozenInv'
  BY <1>1, <1>2, <1>3 DEF PlaceInv, StaleInv, FrozenInv
<1>5. LoadingInv'
  BY <1>1, <1>3 DEF LoadingInv
<1>6. CheckedInv' /\ PlanCurrent'
  BY <1>1 DEF IInv, CheckedInv, PlanCurrent, Reviewing, pulling, None
<1>7. IdentityCurrent'
  BY <1>1 DEF IInv, IdentityCurrent, Reviewing, Beyond, source
<1> QED
  BY <1>2, <1>4, <1>5, <1>6, <1>7 DEF IInv

LEMMA QuitStep == ASSUME Quit PROVE IInv'
  BY DEF Quit, IInv, CommandInv, PlaceInv, StaleInv, LoadingInv, FrozenInv, CheckedInv,
         PlanCurrent, IdentityCurrent, Awaited, Running, Reviewing, Beyond

LEMMA NextIInv == IInv /\ [Next]_vars => IInv'
<1> SUFFICES ASSUME IInv, [Next]_vars PROVE IInv'
  OBVIOUS
<1>1. CASE \E p \in Profiles : Choose(p) /\ region
  <2>1. PICK p \in Profiles : Choose(p) /\ region
    BY <1>1
  <2>2. LoadIdentity(p) /\ profile' = p /\ screen = "profiles"
    BY <2>1 DEF Choose
  <2>3. Running("identity") = {} \/ raced
    BY <2>2 DEF IInv, LoadingInv
  <2> QED
    BY <2>2, <2>3, LoadIdentityStep
<1>2. CASE EnterRegion
  <2>1. LoadIdentity(profile) /\ profile' = profile /\ screen = "region"
    BY <1>2 DEF EnterRegion
  <2>2. Running("identity") = {} \/ raced
    BY <2>1 DEF IInv, LoadingInv
  <2> QED
    BY <2>1, <2>2, LoadIdentityStep
<1>3. CASE Back
  BY <1>3, LeaveStep, LeavePlanStep
<1> QED
  BY <1>1, <1>2, <1>3, QuietSteps, ScanStep, PlanStep, IdentityLoadedStep,
     ScanFinishedStep, PlanFinishedStep, QuitStep DEF Next, Handle

LEMMA IInvHolds == Spec => []IInv
  BY InitIInv, NextIInv, PTL DEF Spec

(* PlanCurrent: a plan under review was made for the profile and the       *)
(* resources that are selected now, with an account of that profile,       *)
(* whatever reports; and for the present data modes, unless a canceled     *)
(* scan has reported while an identity was loaded (planFinishedMsg and its *)
(* token).                                                                 *)
THEOREM PlanIsCurrent == Spec => []PlanCurrent
<1>1. IInv => PlanCurrent
  BY DEF IInv
<1> QED
  BY <1>1, IInvHolds, PTL

(* IdentityCurrent: unless a canceled scan has reported while an identity  *)
(* was loaded, the account shown past the identity screen is that of the   *)
(* chosen profile (identityLoadedMsg, which carries no token).             *)
LEMMA IdentityIsCurrent == Spec => []IdentityCurrent
<1>1. IInv => IdentityCurrent
  BY DEF IInv
<1> QED
  BY <1>1, IInvHolds, PTL

(* PullPermitted: a pull is started with all permissions found, for the    *)
(* profile and the resources that were reviewed, whatever reports; with    *)
(* the exception of PlanCurrent, in the data modes that were reviewed      *)
(* (hasFailedPermissions and the confirmation).                            *)
THEOREM PullIsPermitted == Spec => []PullPermitted
<1>1. IInv => PullPermitted
  BY DEF IInv, CheckedInv, PullPermitted
<1> QED
  BY <1>1, IInvHolds, PTL

(* AsReviewed: all of these together.  What is pulled has the profile and  *)
(* the resources that were chosen, planned and permitted, and, but for the *)
(* exception that PlanCurrent names, their data modes (Model.Project to    *)
(* Confirm).                                                               *)
THEOREM ReviewHolds == Spec => []AsReviewed
  BY SelectionIsVisible, PlanIsCurrent, IdentityIsCurrent, PullIsPermitted, PTL DEF AsReviewed

-----------------------------------------------------------------------------
(* A step that ends one command, and no other, ends that one. *)
LEMMA Removed ==
  ASSUME NEW c \in commands, NEW d \in commands,
         commands' = commands \ {c}, commands' = commands \ {d}
  PROVE  c = d
  OBVIOUS

LEMMA StaleStep ==
  ASSUME IInv, [Next]_vars,
         NEW c \in Running("scan") \cup Running("plan"),
         ~c.fresh, Open', commands' = commands \ {c}
  PROVE  Undisturbed
<1>1. c \in commands /\ c.kind \in {"scan", "plan"} /\ commands' # commands
  BY DEF Running
<1>2. CASE ScanFinished
  <2>1. PICK d \in Running("scan") :
          /\ commands' = commands \ {d}
          /\ IF ~d.current THEN UNCHANGED <<view, choices, raced>>
             ELSE \/ UNCHANGED <<screen, err, choices>>
                  \/ Honored(d)
    BY <1>2 DEF ScanFinished
  <2>2. d = c
    BY <1>1, <2>1, Removed DEF Running
  <2>3. UNCHANGED reviewed
    BY <1>2 DEF ScanFinished
  <2>4. CASE ~d.current
    BY <2>1, <2>3, <2>4 DEF Undisturbed, view
  <2>5. CASE d.current
    <3>1. d \in Awaited("scan")
      BY <2>5 DEF Awaited, Running
    <3>2. pending = None
      BY <2>2, <3>1 DEF IInv, StaleInv
    <3>3. ~Honored(d)
      BY <3>1, <3>2 DEF IInv, PlaceInv, Honored, None
    <3> QED
      BY <2>1, <2>3, <2>5, <3>3 DEF Undisturbed
  <2>6. d.current \in BOOLEAN
    BY <1>1, <2>2 DEF IInv, CommandInv, Command
  <2> QED
    BY <2>4, <2>5, <2>6
<1>3. CASE PlanFinished
  <2>1. PICK d \in Running("plan") :
          commands' = commands \ {d} /\ (~d.current => UNCHANGED <<view, reviewed>>)
    BY <1>3 DEF PlanFinished, CurrentPlan
  <2>2. d = c
    BY <1>1, <2>1, Removed DEF Running
  <2>3. ~d.current
    BY <2>2 DEF IInv, StaleInv, Awaited, Running
  <2> QED
    BY <1>3, <2>1, <2>3 DEF PlanFinished, Undisturbed, view
<1>4. CASE IdentityLoaded
  <2>1. PICK d \in Running("identity") : commands' = commands \ {d}
    BY <1>4 DEF IdentityLoaded
  <2>2. d = c
    BY <1>1, <2>1, Removed DEF Running
  <2> QED
    BY <1>1, <2>2 DEF Running
<1>5. CASE Back
  <2>1. c \in Outdated("plan") /\ c.fresh \in BOOLEAN
    <3>1. c \in Command(c)
      BY <1>1 DEF IInv, CommandInv
    <3>2. c.kind # "plan" \/ ~c.current
      BY <1>1 DEF IInv, StaleInv, Awaited
    <3>3. c.kind = "plan" => [c EXCEPT !.current = FALSE] = c
      BY <3>1, <3>2, OutdatedFields
    <3>4. c.kind = "plan" => c \in Outdated("plan")
      BY <1>1, <3>3 DEF Outdated
    <3>5. c.kind # "plan" => c \in Outdated("plan")
      BY <1>1 DEF Outdated
    <3> QED
      BY <3>1, <3>4, <3>5 DEF Command
  <2>2. [c EXCEPT !.fresh = FALSE] = c
    BY <1>1, LeftFields DEF IInv, CommandInv
  <2>3. c \in Left(commands) /\ c \in Left(Outdated("plan"))
    BY <1>1, <2>1, <2>2 DEF Left
  <2>4. commands' = Left(commands) \/ commands' = Left(Outdated("plan"))
    BY <1>5 DEF Back, Leave, LeavePlan, CancelScan
  <2> QED
    BY <2>3, <2>4
<1>6. CASE EnterRegion \/ \E p \in Profiles : Choose(p)
  BY <1>1, <1>6 DEF EnterRegion, Choose, LoadIdentity
<1>7. CASE Scan \/ Plan
  BY <1>7 DEF Scan, Plan, Undisturbed
<1>8. CASE Quit
  BY <1>8 DEF Quit, Open
<1>9. CASE \/ ProfilesLoaded \/ AcceptIdentity \/ ToggleService \/ ToggleResource
           \/ ToOptions \/ ToggleData \/ Proceed \/ Confirm \/ Save \/ PullUpdate
           \/ UNCHANGED vars
  BY <1>1, <1>9 DEF ProfilesLoaded, AcceptIdentity, ToggleService, ToggleResource, ToOptions,
       ToggleData, Proceed, Confirm, Save, PullUpdate, vars
<1> QED
  BY <1>2, <1>3, <1>4, <1>5, <1>6, <1>7, <1>8, <1>9 DEF Next, Handle

(* StaleIgnored: the report of a scan or a plan whose screen was left      *)
(* changes neither screen, selection nor review (pending and the tokens).  *)
THEOREM StaleIsIgnored == Spec => StaleIgnored
<1>1. IInv /\ [Next]_vars =>
        [\A c \in Running("scan") \cup Running("plan") :
           ~c.fresh /\ Open' /\ commands' = commands \ {c} => Undisturbed]_vars
  BY StaleStep
<1> QED
  BY <1>1, IInvHolds, PTL DEF Spec, StaleIgnored

-----------------------------------------------------------------------------
(* What the channel of a pull holds: events, and the result behind them.   *)
ChannelInv ==
  /\ updates \in Seq({"event", "ok", "failed"}) /\ shown \in Nat /\ emitted \in Nat
  /\ \A i \in 1..Len(updates) : i # Len(updates) \/ pull # "reported" => updates[i] = "event"
  /\ pull # "reported" => shown + Len(updates) = emitted /\ screen # "result"
  /\ pull = "reported" /\ screen # "result" =>
       /\ updates # <<>> /\ updates[Len(updates)] # "event"
       /\ shown + Len(updates) = emitted + 1
  /\ ResultLast

(* Steps that leave the channel alone. *)
LEMMA ChannelKept ==
  ASSUME ChannelInv, UNCHANGED <<pull, updates, emitted, shown>>,
         (screen = "result") <=> (screen' = "result")
  PROVE  ChannelInv'
  BY DEF ChannelInv, ResultLast

LEMMA SaveChannel == ASSUME ChannelInv, Save PROVE ChannelInv'
<1> USE DEF ChannelInv, ResultLast
<1>1. CASE Recheck \/ WriteProject \/ PullEnds
  BY <1>1 DEF Save, Recheck, WriteProject, PullEnds, Finish, view
<1>2. CASE Emit
  BY <1>2 DEF Save, Emit, view
<1>3. CASE Report
  BY <1>3 DEF Save, Report, Deliver, view
<1> QED
  BY <1>1, <1>2, <1>3 DEF Save

LEMMA UpdateChannel == ASSUME ChannelInv, IInv, PullUpdate PROVE ChannelInv'
<1>1. /\ updates # <<>> /\ updates' = Tail(updates) /\ UNCHANGED <<pull, emitted>>
      /\ updates \in Seq({"event", "ok", "failed"})
  BY DEF PullUpdate, ChannelInv
<1>2. /\ Len(updates) \in Nat \ {0} /\ Len(updates') = Len(updates) - 1
      /\ updates' \in Seq({"event", "ok", "failed"})
      /\ \A i \in 1..Len(updates') : updates'[i] = updates[i + 1]
      /\ Head(updates) = updates[1]
  BY <1>1
<1>3. CASE Head(updates) = "event"
  <2>1. shown' = shown + 1 /\ UNCHANGED screen
    BY <1>3 DEF PullUpdate, view
  <2>2. screen # "result"
    BY <1>1 DEF ChannelInv, ResultLast
  <2>3. shown' \in Nat /\ emitted' \in Nat /\ shown' + Len(updates') = shown + Len(updates)
    <3>1. shown \in Nat /\ emitted \in Nat
      BY DEF ChannelInv
    <3>2. Len(updates) \in Nat /\ Len(updates') = Len(updates) - 1 /\ emitted' = emitted
      BY <1>1, <1>2
    <3> QED
      BY <2>1, <3>1, <3>2
  <2>4. \A i \in 1..Len(updates') : i # Len(updates') \/ pull # "reported" => updates'[i] = "event"
    <3>1. \A i \in 1..Len(updates') : i + 1 \in 1..Len(updates) /\ (i # Len(updates') => i + 1 # Len(updates))
      BY <1>2
    <3> QED
      BY <1>2, <3>1 DEF ChannelInv
  <2>5. pull = "reported" => updates' # <<>> /\ updates'[Len(updates')] # "event"
    <3> SUFFICES ASSUME pull = "reported" PROVE updates' # <<>> /\ updates'[Len(updates')] # "event"
      OBVIOUS
    <3>1. updates[Len(updates)] # "event"
      BY <2>2 DEF ChannelInv
    <3>2. Len(updates) # 1
      BY <1>2, <1>3, <3>1
    <3>3. Len(updates') \in 1..Len(updates') /\ Len(updates') + 1 = Len(updates)
      BY <1>2, <3>2
    <3>4. updates'[Len(updates')] = updates[Len(updates)]
      BY <1>2, <3>3
    <3> QED
      BY <3>1, <3>3, <3>4
  <2> QED
    BY <1>1, <1>2, <2>1, <2>2, <2>3, <2>4, <2>5 DEF ChannelInv, ResultLast
<1>4. CASE Head(updates) # "event"
  <2>1. UNCHANGED shown /\ screen' = "result"
    BY <1>4 DEF PullUpdate
  <2>2. pull = "reported" /\ Len(updates) = 1
    BY <1>2, <1>4 DEF ChannelInv
  <2>3. updates' = <<>>
    BY <1>1, <1>2, <2>2
  <2>4. shown = emitted
    BY <1>1, <2>2 DEF ChannelInv, ResultLast
  <2> QED
    BY <1>1, <1>2, <2>1, <2>2, <2>3, <2>4 DEF ChannelInv, ResultLast
<1> QED
  BY <1>3, <1>4

LEMMA NextChannel == ASSUME ChannelInv, IInv, [Next]_vars PROVE ChannelInv'
<1>1. CASE Save
  BY <1>1, SaveChannel
<1>2. CASE PullUpdate
  BY <1>2, UpdateChannel
<1>3. CASE Confirm
  <2>1. pull = "idle" /\ pull' = "checking" /\ screen' = "progress" /\ UNCHANGED <<updates, emitted, shown>>
    BY <1>3 DEF Confirm, IInv, CheckedInv
  <2> QED
    BY <2>1 DEF ChannelInv, ResultLast
<1>4. CASE Quit
  BY <1>4 DEF Quit, ChannelInv, ResultLast
<1>5. CASE ScanFinished
  <2>1. PICK c \in Running("scan") :
          \/ screen' = screen
          \/ c.current /\ screen' = "resources"
    BY <1>5 DEF ScanFinished, view
  <2>2. CASE c.current
    <3>1. screen # "result"
      BY <2>2 DEF IInv, PlaceInv, Awaited, Running
    <3> QED
      BY <1>5, <2>1, <3>1, ChannelKept DEF ScanFinished, pulling
  <2> QED
    BY <1>5, <2>1, <2>2, ChannelKept DEF ScanFinished, pulling
<1>6. CASE PlanFinished
  <2>1. PICK c \in Running("plan") :
          \/ screen' = screen
          \/ c.current /\ screen' = "review"
    BY <1>6 DEF PlanFinished, CurrentPlan, view
  <2>2. CASE c.current
    <3>1. screen # "result"
      BY <2>2 DEF IInv, PlaceInv, Awaited, Running
    <3> QED
      BY <1>6, <2>1, <3>1, ChannelKept DEF PlanFinished, pulling
  <2> QED
    BY <1>6, <2>1, <2>2, ChannelKept DEF PlanFinished, pulling
<1>7. CASE IdentityLoaded \/ ProfilesLoaded \/ EnterRegion \/ \E p \in Profiles : Choose(p)
  BY <1>7, ChannelKept DEF IdentityLoaded, ProfilesLoaded, EnterRegion, Choose, LoadIdentity, pulling
<1>8. CASE AcceptIdentity \/ ToggleService \/ Scan \/ ToggleResource \/ ToOptions \/ ToggleData \/ Plan
  BY <1>8, ChannelKept DEF AcceptIdentity, ToggleService, Scan, ToggleResource, ToOptions,
       ToggleData, Plan, view, pulling
<1>9. CASE Proceed \/ Back
  BY <1>9, ChannelKept DEF Proceed, Back, Leave, LeavePlan, CancelScan, pulling
<1>10. CASE UNCHANGED vars
  BY <1>10, ChannelKept DEF vars, view, pulling
<1> QED
  BY <1>1, <1>2, <1>3, <1>4, <1>5, <1>6, <1>7, <1>8, <1>9, <1>10 DEF Next, Handle

LEMMA ChannelHolds == Spec => []ChannelInv
<1>1. Init => ChannelInv
  BY DEF Init, ChannelInv, ResultLast
<1> QED
  BY <1>1, NextChannel, IInvHolds, PTL DEF Spec

(* ResultLast: the result of a pull appears after all of its progress      *)
(* (pullUpdates, from which one command at a time receives).               *)
THEOREM ResultIsLast == Spec => []ResultLast
<1>1. ChannelInv => ResultLast
  BY DEF ChannelInv
<1> QED
  BY <1>1, ChannelHolds, PTL

-----------------------------------------------------------------------------
(* What a busy interface waits for. *)
BusyInv ==
  busy /\ Open =>
    \/ Running("identity") # {} \/ Awaited("scan") # {} \/ Awaited("plan") # {}
    \/ screen \in {"progress", "resources", "services"}

(* A command waits for each update of the pull that is watched. *)
ArmedInv ==
  /\ screen = "progress" => armed /\ pull # "idle"
  /\ pull \in {"idle", "checking", "writing", "reading", "ok", "failed", "reported"}

UnderWay ==
  /\ BusyInv
  /\ screen = "progress" =>
       /\ armed
       /\ updates # <<>> \/ pull \in {"checking", "writing", "reading", "ok", "failed"}

LEMMA NextArmed == ASSUME ArmedInv, IInv, [Next]_vars PROVE ArmedInv'
<1> USE DEF ArmedInv
<1>1. CASE Save
  BY <1>1 DEF Save, Recheck, WriteProject, Emit, PullEnds, Report, Finish, view
<1>2. CASE PullUpdate
  BY <1>2 DEF PullUpdate, Rearm, view
<1>3. CASE Confirm \/ Quit
  BY <1>3 DEF Confirm, Quit
<1>4. CASE ScanFinished \/ PlanFinished \/ IdentityLoaded
  BY <1>4 DEF ScanFinished, PlanFinished, IdentityLoaded, view, pulling
<1>5. CASE ProfilesLoaded \/ EnterRegion \/ \E p \in Profiles : Choose(p)
  BY <1>5 DEF ProfilesLoaded, EnterRegion, Choose, LoadIdentity, pulling
<1>6. CASE \/ AcceptIdentity \/ ToggleService \/ Scan \/ ToggleResource
           \/ ToOptions \/ ToggleData \/ Plan \/ Proceed
  BY <1>6 DEF AcceptIdentity, ToggleService, Scan, ToggleResource, ToOptions,
              ToggleData, Plan, Proceed, view, pulling
<1>7. CASE Back
  BY <1>7 DEF Back, Leave, LeavePlan, CancelScan, pulling
<1>8. CASE UNCHANGED vars
  BY <1>8 DEF vars, view, pulling
<1> QED
  BY <1>1, <1>2, <1>3, <1>4, <1>5, <1>6, <1>7, <1>8 DEF Next, Handle

(* A command that is left is still running, and still awaited. *)
LEMMA LeftRunning ==
  ASSUME CommandInv, NEW cs, cs \in {commands, Outdated("plan")}, commands' = Left(cs)
  PROVE  /\ Running("identity") # {} => Running("identity")' # {}
         /\ Awaited("scan") # {} => Awaited("scan")' # {}
         /\ cs = commands /\ Awaited("plan") # {} => Awaited("plan")' # {}
<1>1. ASSUME NEW c \in commands, c.kind # "plan" \/ cs = commands
      PROVE  \E d \in commands' : d.kind = c.kind /\ d.current = c.current
  <2>1. c \in cs
    BY <1>1 DEF Outdated
  <2>2. [c EXCEPT !.fresh = FALSE] \in commands'
    BY <2>1 DEF Left
  <2> QED
    BY <2>2, LeftFields DEF CommandInv
<1> QED
  BY <1>1 DEF Running, Awaited

LEMMA BackBusy == ASSUME BusyInv, IInv, Back PROVE BusyInv'
<1> SUFFICES ASSUME busy', Open' PROVE BusyInv'
  BY DEF BusyInv
<1> USE DEF BusyInv, Open
<1>1. screen # "services" /\ busy
  BY DEF Back, CancelScan, Leave, LeavePlan
<1>2. CASE screen \in {"options", "resources"}
  BY <1>2 DEF Back, Leave, LeavePlan
<1>3. CASE screen = "progress"
  BY <1>3 DEF Back, Leave
<1>4. CASE screen = "review"
  <2>1. commands' = Left(Outdated("plan"))
    BY <1>4 DEF Back, LeavePlan
  <2>2. Awaited("plan") = {}
    BY <1>4 DEF IInv, PlaceInv
  <2> QED
    BY <1>1, <1>4, <2>1, <2>2, LeftRunning DEF Back, IInv
<1>5. CASE screen \notin {"options", "resources", "progress", "review"}
  <2>1. commands' = Left(commands)
    BY <1>1, <1>5 DEF Back, Leave
  <2> QED
    BY <1>1, <1>5, <2>1, LeftRunning DEF Back, IInv
<1> QED
  BY <1>2, <1>3, <1>4, <1>5

LEMMA StartBusy ==
  ASSUME NEW p, LoadIdentity(p) \/ Scan \/ Plan
  PROVE  BusyInv'
<1>1. CASE LoadIdentity(p)
  <2>1. Cmd("identity", p, {}, NoRequest) \in Running("identity")'
    BY <1>1 DEF LoadIdentity, Running, Cmd
  <2> QED
    BY <2>1 DEF BusyInv
<1>2. CASE Scan
  BY <1>2 DEF Scan, BusyInv
<1>3. CASE Plan
  <2>1. Cmd("plan", profile, wanted, Request) \in Awaited("plan")'
    BY <1>3 DEF Plan, Awaited, Cmd
  <2> QED
    BY <2>1 DEF BusyInv
<1> QED
  BY <1>1, <1>2, <1>3

LEMMA NextBusy == ASSUME BusyInv, IInv, [Next]_vars PROVE BusyInv'
<1>1. CASE Scan \/ Plan \/ EnterRegion \/ \E p \in Profiles : Choose(p) /\ region
  BY <1>1, StartBusy DEF EnterRegion, Choose
<1>2. CASE Back
  BY <1>2, BackBusy
<1>3. CASE IdentityLoaded \/ Quit \/ AcceptIdentity \/ ToOptions \/ Proceed
  BY <1>3 DEF IdentityLoaded, Quit, AcceptIdentity, ToOptions, Proceed, BusyInv
<1>4. CASE Confirm
  BY <1>4 DEF Confirm, BusyInv
<1>5. CASE ScanFinished
  <2>1. PICK c \in Running("scan") :
          /\ commands' = commands \ {c}
          /\ c.current => busy' = FALSE
          /\ ~c.current => UNCHANGED view
    BY <1>5 DEF ScanFinished
  <2>2. CASE ~c.current
    BY <2>1, <2>2 DEF BusyInv, Running, Awaited, Open, view
  <2> QED
    BY <2>1, <2>2 DEF BusyInv
<1>6. CASE PlanFinished
  <2>1. PICK c \in Running("plan") :
          /\ commands' = commands \ {c}
          /\ c.current => busy' = FALSE
          /\ ~c.current => UNCHANGED view
    BY <1>6 DEF PlanFinished, CurrentPlan
  <2>2. CASE ~c.current
    BY <2>1, <2>2 DEF BusyInv, Running, Awaited, Open, view
  <2> QED
    BY <2>1, <2>2 DEF BusyInv
<1>7. CASE \/ ToggleService \/ ToggleResource \/ ToggleData \/ Save \/ PullUpdate
           \/ UNCHANGED vars
  BY <1>7 DEF ToggleService, ToggleResource, ToggleData, Save, PullUpdate, vars, view,
              BusyInv, Running, Awaited, Open
<1>8. CASE ProfilesLoaded \/ \E p \in Profiles : Choose(p) /\ ~region
  BY <1>8 DEF ProfilesLoaded, Choose, BusyInv, Running, Awaited, Open
<1> QED
  BY <1>1, <1>2, <1>3, <1>4, <1>5, <1>6, <1>7, <1>8 DEF Next, Handle

(* NotStuck and PullConcludes, as far as one state can tell: while the     *)
(* interface is busy, a message that frees it is on its way, or esc, from  *)
(* the screens that a left plan leads to, is; while a pull is watched, a   *)
(* command receives from its channel, and the pull has sent or will send.  *)
THEOREM SomethingIsUnderWay == Spec => []UnderWay
<1>1. Init => BusyInv /\ ArmedInv
  BY DEF Init, BusyInv, ArmedInv
<1>2. BusyInv /\ ArmedInv /\ IInv /\ [Next]_vars => (BusyInv /\ ArmedInv)'
  BY NextBusy, NextArmed
<1>3. BusyInv /\ ArmedInv /\ ChannelInv => UnderWay
  BY DEF ArmedInv, ChannelInv, UnderWay
<1> QED
  BY <1>1, <1>2, <1>3, ChannelHolds, IInvHolds, PTL DEF Spec

-----------------------------------------------------------------------------
(* The user is somewhere, and has chosen a profile once he has left the    *)
(* list of them, for which the commands run.                               *)
PlaceTyped ==
  /\ screen \in {"loading", "profiles", "region", "identity", "services", "resources", "options",
                 "review", "summary", "confirm", "progress", "result", "quit"}
  /\ busy \in BOOLEAN /\ err \in BOOLEAN /\ region \in BOOLEAN
  /\ raced \in BOOLEAN /\ armed \in BOOLEAN
  /\ profile \in Profiles \cup {None} /\ identity \in {Account[p] : p \in Profiles} \cup {None}
  /\ screen \notin {"loading", "profiles", "quit"} => profile \in Profiles
  /\ \A c \in commands : c.profile \in Profiles

RequestsTyped ==
  /\ plan \in Requests \cup {NoRequest}
  /\ request \in Requests \cup {NoRequest} /\ file \in Requests \cup {NoRequest}
  /\ \A c \in Running("plan") : c.request \in Requests

ChannelTyped == Len(updates) <= Buffer /\ emitted <= Events

LEMMA RequestIsTyped ==
  ASSUME PlaceTyped, ChoiceInv, profile \in Profiles
  PROVE  Request \in Requests
<1>1. selected \in SUBSET Resources
  BY DEF ChoiceInv, SelectionVisible
<1>2. [r \in selected |-> dataChoice[r]] \in [selected -> {None, "bounded", "full"}]
  BY <1>1 DEF ChoiceInv
<1>3. [r \in selected |-> dataChoice[r]] \in
        UNION {[S -> {None, "bounded", "full"}] : S \in SUBSET Resources}
  BY <1>1, <1>2
<1> QED
  BY <1>3 DEF Request, Requests, PlaceTyped

LEMMA OutdatedTyped ==
  ASSUME CommandInv, NEW kind, NEW e \in Outdated(kind)
  PROVE  /\ e \in Command(e)
         /\ \E c \in commands :
              e.kind = c.kind /\ e.profile = c.profile /\ e.request = c.request
<1>1. PICK c \in commands : e = IF c.kind = kind THEN [c EXCEPT !.current = FALSE] ELSE c
  BY DEF Outdated
<1>2. c \in Command(c)
  BY DEF CommandInv
<1> QED
  BY <1>1, <1>2, OutdatedFields

LEMMA LeftTyped ==
  ASSUME CommandInv, NEW cs, cs \in {commands, Outdated("scan"), Outdated("plan")},
         commands' \in {cs, Left(cs)}
  PROVE  \A d \in commands' : \E c \in commands :
           d.kind = c.kind /\ d.profile = c.profile /\ d.request = c.request
<1>1. \A e \in cs : \E c \in commands :
        /\ e.kind = c.kind /\ e.profile = c.profile /\ e.request = c.request
        /\ e \in Command(e)
  BY OutdatedTyped DEF CommandInv
<1>2. ASSUME NEW d \in Left(cs)
      PROVE  \E e \in cs : d.kind = e.kind /\ d.profile = e.profile /\ d.request = e.request
  <2>1. PICK e \in cs : d = [e EXCEPT !.fresh = FALSE]
    BY DEF Left
  <2> QED
    BY <1>1, <2>1, LeftFields
<1> QED
  BY <1>1, <1>2

(* What a new command runs for. *)
LEMMA NewTyped ==
  ASSUME CommandInv, NEW kind, NEW p, NEW w, NEW req,
         commands' \in {cs \cup {Cmd(kind, p, w, req)} :
                          cs \in {commands, Outdated("scan"), Outdated("plan")}}
  PROVE  \A d \in commands' :
           \/ d.kind = kind /\ d.profile = p /\ d.request = req
           \/ \E c \in commands :
                d.kind = c.kind /\ d.profile = c.profile /\ d.request = c.request
<1>1. PICK cs \in {commands, Outdated("scan"), Outdated("plan")} :
        commands' = cs \cup {Cmd(kind, p, w, req)}
  OBVIOUS
<1>2. \A e \in cs : \E c \in commands :
        e.kind = c.kind /\ e.profile = c.profile /\ e.request = c.request
  BY <1>1, OutdatedTyped
<1> QED
  BY <1>1, <1>2 DEF Cmd

(* Where a completion leads to. *)
LEMMA ScanMoves ==
  ASSUME ScanFinished
  PROVE  \E c \in Running("scan") :
           commands' = commands \ {c} /\ (screen' = screen \/ (c.current /\ screen' = "resources"))
<1>1. PICK c \in Running("scan") :
        /\ commands' = commands \ {c}
        /\ ~c.current => UNCHANGED view
        /\ c.current => UNCHANGED screen \/ screen' = "resources"
  BY DEF ScanFinished
<1> QED
  BY <1>1 DEF view

LEMMA PlanMoves ==
  ASSUME PlanFinished
  PROVE  \E c \in Running("plan") :
           commands' = commands \ {c} /\ (screen' = screen \/ (c.current /\ screen' = "review"))
<1>1. PICK c \in Running("plan") :
        /\ commands' = commands \ {c}
        /\ ~c.current => UNCHANGED view
        /\ c.current => UNCHANGED screen \/ screen' = "review"
  BY DEF PlanFinished, CurrentPlan
<1> QED
  BY <1>1 DEF view

LEMMA NextPlaceTyped == ASSUME PlaceTyped, IInv, [Next]_vars PROVE PlaceTyped'
<1> USE DEF PlaceTyped
<1> CommandInv
  BY DEF IInv
<1>1. ASSUME NEW p \in Profiles, LoadIdentity(p), profile' = p, region' \in BOOLEAN
      PROVE  PlaceTyped'
  <2>1. \A d \in commands' : d.profile \in Profiles
    BY <1>1, NewTyped DEF LoadIdentity
  <2> QED
    BY <1>1, <2>1 DEF LoadIdentity, pulling
<1>2. CASE EnterRegion \/ \E p \in Profiles : Choose(p) /\ region
  BY <1>1, <1>2 DEF EnterRegion, Choose
<1>3. CASE ProfilesLoaded \/ \E p \in Profiles : Choose(p) /\ ~region
  BY <1>3 DEF ProfilesLoaded, Choose, source, pulling
<1>4. CASE Scan \/ Plan
  <2>1. \A d \in commands' : d.profile \in Profiles
    BY <1>4, NewTyped DEF Scan, Plan
  <2> QED
    BY <1>4, <2>1 DEF Scan, Plan, source, pulling
<1>5. CASE Back
  <2>1. \A d \in commands' : d.profile \in Profiles
    BY <1>5, LeftTyped DEF Back, Leave, LeavePlan, CancelScan
  <2> QED
    BY <1>5, <2>1 DEF Back, Leave, LeavePlan, CancelScan, source, pulling
<1>6. CASE IdentityLoaded
  BY <1>6 DEF IdentityLoaded, Running, pulling
<1>7. CASE ScanFinished
  <2>1. PICK c \in Running("scan") :
          commands' = commands \ {c} /\ (screen' = screen \/ (c.current /\ screen' = "resources"))
    BY <1>7, ScanMoves
  <2>4. busy' \in BOOLEAN /\ err' \in BOOLEAN
    BY <1>7 DEF ScanFinished, view
  <2>5. raced' \in {raced, raced \/ Running("identity") # {}}
    BY <1>7, Zenon DEF ScanFinished
  <2>2. c.current => screen \in {"profiles", "region", "identity", "services"}
    BY <2>1 DEF IInv, PlaceInv, Awaited, Running
  <2>3. screen' = "resources" => screen = "services" \/ screen = "resources"
    BY <1>7, <2>1, <2>2 DEF ScanFinished, Honored, IInv, PlaceInv, view, None
  <2> QED
    BY <1>7, <2>1, <2>3, <2>4, <2>5 DEF ScanFinished, source, pulling
<1>8. CASE PlanFinished
  <2>1. PICK c \in Running("plan") :
          commands' = commands \ {c} /\ (screen' = screen \/ (c.current /\ screen' = "review"))
    BY <1>8, PlanMoves
  <2>3. busy' \in BOOLEAN /\ err' \in BOOLEAN
    BY <1>8 DEF PlanFinished, view
  <2>2. c.current => screen = "options"
    BY <2>1 DEF IInv, PlaceInv, Awaited, Running
  <2> QED
    BY <1>8, <2>1, <2>2, <2>3 DEF PlanFinished, source, pulling
<1>9. CASE Save \/ PullUpdate
  <2>1. CASE Save
    BY <2>1 DEF Save, view, source
  <2>2. CASE PullUpdate
    <3>1. screen = "progress" \/ screen = "result"
      BY <2>2 DEF PullUpdate, IInv, CheckedInv
    <3> QED
      BY <2>2, <3>1 DEF PullUpdate, Rearm, view, source
  <2> QED
    BY <1>9, <2>1, <2>2
<1>10. CASE Confirm \/ Quit
  BY <1>10 DEF Confirm, Quit, source
<1>11. CASE \/ AcceptIdentity \/ ToggleService \/ ToggleResource \/ ToOptions \/ ToggleData
            \/ Proceed \/ UNCHANGED vars
  BY <1>11 DEF AcceptIdentity, ToggleService, ToggleResource, ToOptions, ToggleData,
               Proceed, vars, view, source, pulling
<1> QED
  BY <1>2, <1>3, <1>4, <1>5, <1>6, <1>7, <1>8, <1>9, <1>10, <1>11 DEF Next, Handle

LEMMA NextRequestsTyped ==
  ASSUME RequestsTyped, PlaceTyped, ChoiceInv, IInv, [Next]_vars
  PROVE  RequestsTyped'
<1> USE DEF RequestsTyped
<1> CommandInv
  BY DEF IInv
<1>1. ASSUME NEW p, LoadIdentity(p), UNCHANGED <<plan, request, file>>
      PROVE  RequestsTyped'
  BY <1>1, NewTyped DEF LoadIdentity, Running
<1>2. CASE EnterRegion \/ \E p \in Profiles : Choose(p) /\ region
  BY <1>1, <1>2 DEF EnterRegion, Choose, LoadIdentity, reviewed, pulling
<1>3. CASE ProfilesLoaded \/ \E p \in Profiles : Choose(p) /\ ~region
  BY <1>3 DEF ProfilesLoaded, Choose, Running, reviewed, pulling
<1>4. CASE Scan
  <2>1. \A d \in Running("plan")' : d.request \in Requests
    BY <1>4, NewTyped DEF Scan, Running
  <2> QED
    BY <1>4, <2>1 DEF Scan, reviewed, pulling
<1>5. CASE Plan
  <2>1. Request \in Requests
    BY <1>5, RequestIsTyped DEF Plan, PlaceTyped
  <2>2. \A d \in Running("plan")' : d.request \in Requests
    BY <1>5, <2>1, NewTyped DEF Plan, Running
  <2> QED
    BY <1>5, <2>2 DEF Plan, reviewed, pulling
<1>6. CASE Back
  <2>1. \A d \in Running("plan")' : d.request \in Requests
    BY <1>6, LeftTyped DEF Back, Leave, LeavePlan, CancelScan, Running
  <2> QED
    BY <1>6, <2>1 DEF Back, reviewed, pulling
<1>7. CASE IdentityLoaded \/ ScanFinished
  BY <1>7 DEF IdentityLoaded, ScanFinished, Running, reviewed, pulling
<1>8. CASE PlanFinished
  BY <1>8 DEF PlanFinished, Running, reviewed, pulling
<1>9. CASE Save
  BY <1>9 DEF Save, Recheck, WriteProject, Emit, PullEnds, Report, Running, reviewed
<1>10. CASE Confirm
  <2>1. Request \in Requests
    BY <1>10, RequestIsTyped DEF Confirm, PlaceTyped
  <2> QED
    BY <1>10, <2>1 DEF Confirm, Running, reviewed
<1>11. CASE PullUpdate \/ Quit
  BY <1>11 DEF PullUpdate, Quit, Running, reviewed
<1>12. CASE \/ AcceptIdentity \/ ToggleService \/ ToggleResource \/ ToOptions \/ ToggleData
            \/ Proceed \/ UNCHANGED vars
  BY <1>12 DEF AcceptIdentity, ToggleService, ToggleResource, ToOptions, ToggleData,
               Proceed, Running, vars, reviewed, pulling
<1> QED
  BY <1>2, <1>3, <1>4, <1>5, <1>6, <1>7, <1>8, <1>9, <1>10, <1>11, <1>12 DEF Next, Handle

LEMMA NextChannelTyped ==
  ASSUME ChannelTyped, ChannelInv, [Next]_vars
  PROVE  ChannelTyped'
<1> USE DEF ChannelTyped
<1>1. CASE Emit \/ Report
  BY <1>1, BoundsAssumption DEF Emit, Report, Deliver, HasRoom, ChannelInv
<1>2. CASE PullUpdate
  BY <1>2, BoundsAssumption DEF PullUpdate, ChannelInv
<1>3. CASE Quit
  BY <1>3, BoundsAssumption DEF Quit
<1>4. CASE UNCHANGED <<updates, emitted>>
  BY <1>4
<1>5. CASE \/ ProfilesLoaded \/ EnterRegion \/ \E p \in Profiles : Choose(p)
  BY <1>4, <1>5 DEF ProfilesLoaded, EnterRegion, Choose, LoadIdentity, pulling
<1>6. CASE Save /\ ~Emit /\ ~Report
  BY <1>4, <1>6 DEF Save, Recheck, WriteProject, PullEnds
<1>7. CASE \/ IdentityLoaded \/ ScanFinished \/ PlanFinished \/ AcceptIdentity \/ ToggleService
           \/ Scan \/ ToggleResource \/ ToOptions \/ ToggleData \/ Plan \/ Proceed
           \/ Confirm \/ Back \/ UNCHANGED vars
  BY <1>4, <1>7 DEF IdentityLoaded, ScanFinished, PlanFinished, AcceptIdentity, ToggleService,
                    Scan, ToggleResource, ToOptions, ToggleData, Plan, Proceed, Confirm, Back,
                    vars, pulling
<1> QED
  BY <1>1, <1>2, <1>3, <1>5, <1>6, <1>7 DEF Next, Handle

(* Every variable keeps its type: a project that is written is a request   *)
(* of the interface, for a profile that was chosen, and the channel of a   *)
(* pull never holds more than its capacity.                                *)
THEOREM TypesAreCorrect == Spec => []TypeOK
<1> DEFINE Typed == PlaceTyped /\ RequestsTyped /\ ChannelTyped
<1>1. Init => Typed
  <2>1. Init => PlaceTyped
    BY DEF Init, PlaceTyped
  <2>2. Init => RequestsTyped
    BY DEF Init, RequestsTyped, Running
  <2>3. Init => ChannelTyped
    BY BoundsAssumption DEF Init, ChannelTyped
  <2> QED
    BY <2>1, <2>2, <2>3
<1>2. Typed /\ ChoiceInv /\ IInv /\ ChannelInv /\ [Next]_vars => Typed'
  BY NextPlaceTyped, NextRequestsTyped, NextChannelTyped
<1>3. ChannelInv /\ ChannelTyped => shown \in 0..Events
  BY BoundsAssumption DEF ChannelInv, ChannelTyped, ResultLast
<1>4. Typed /\ IInv /\ ArmedInv /\ ChannelInv => TypeOK
  BY <1>3 DEF TypeOK, PlaceTyped, RequestsTyped, ChannelTyped, IInv, PlaceInv, CheckedInv, ArmedInv
<1>5. Spec => [](IInv /\ ChannelInv /\ ChoiceInv /\ ArmedInv)
  <2>1. Init => ArmedInv
    BY DEF Init, ArmedInv
  <2>2. ArmedInv /\ IInv /\ [Next]_vars => ArmedInv'
    BY NextArmed
  <2> QED
    BY <2>1, <2>2, InitChoice, NextChoice, IInvHolds, ChannelHolds, PTL DEF Spec
<1> QED
  BY <1>1, <1>2, <1>4, <1>5, PTL DEF Spec
=============================================================================
