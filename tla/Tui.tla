---------------------------------- MODULE Tui ----------------------------------
(***************************************************************************)
(* The terminal user interface (internal/tui): one goroutine handles keys  *)
(* and the messages with which commands, each a goroutine, report that a   *)
(* profile's identity is known, a scan or a plan has finished, or a pull   *)
(* has progressed or ended.  A command is never awaited: the user may have *)
(* moved on, and messages arrive in any order.  AWS decides what a command *)
(* finds when its message is handled.                                      *)
(***************************************************************************)
EXTENDS Naturals, FiniteSets, Sequences

CONSTANTS
  Account,     \* the account of each AWS profile
  Catalog,     \* the resources that can be found: [service, account] by name
  MaxCommands, \* bound: commands in flight at a time
  Events,      \* progress events of a pull
  Buffer       \* 16, the capacity of the pull's channel

ASSUME BoundsAssumption == Events \in Nat /\ Buffer \in Nat

Profiles  == DOMAIN Account
Resources == DOMAIN Catalog
Services  == {Catalog[r].service : r \in Resources}
None      == "none"
NoRequest == [profile |-> None, account |-> None, data |-> [r \in {} |-> None]]

VARIABLES
  screen, pending, busy,
  err,         \* whether an error is shown
  profile, region, identity,
  wanted,      \* the services selected: serviceSelected
  resources, selected,
  dataChoice,  \* the data mode chosen for each resource
  plan,        \* the request of the plan under review, or NoRequest
  checks,      \* its permission checks: None, "passed" or "failed"
  commands,    \* those in flight, numbered; fresh until the user leaves their
               \* screen, current while their token is the model's
  raced,       \* a canceled scan has reported while an identity was loaded
  pull,        \* how far SaveAndPull is, ...
  request,     \* ... its project, ...
  updates,     \* ... its channel, and whether a command is receiving from it
  armed,
  emitted, shown, \* the progress events the pull has reported and the screen has shown
  file         \* the request in the project file: NoRequest before the pull

view     == <<screen, pending, busy, err>>
source   == <<profile, region, identity>>
choices  == <<wanted, resources, selected, dataChoice>>
reviewed == <<plan, checks>>
pulling  == <<pull, request, updates, armed, emitted, shown, file>>
vars     == <<view, source, choices, reviewed, commands, raced, pulling>>

Default == Services \cap {"s3", "dynamodb"}

Init ==
  /\ screen = "loading" /\ pending = None /\ busy = FALSE /\ err = FALSE
  /\ profile = None /\ region \in BOOLEAN /\ identity = None
  /\ wanted = Default /\ resources = {} /\ selected = {}
  /\ dataChoice = [r \in Resources |-> None]
  /\ plan = NoRequest /\ checks = None
  /\ commands = {} /\ raced = FALSE
  /\ pull = "idle" /\ request = NoRequest /\ updates = <<>> /\ armed = FALSE
  /\ emitted = 0 /\ shown = 0 /\ file = NoRequest

Running(kind) == {c \in commands : c.kind = kind}

(* The n-th command in flight; the model's token becomes its own. *)
Free == CHOOSE n \in 1..MaxCommands : \A c \in commands : c.n # n
Room == Cardinality(commands) < MaxCommands

Cmd(kind, p, w, req) ==
  [kind |-> kind, n |-> Free, profile |-> p, wanted |-> w, request |-> req,
   fresh |-> TRUE, current |-> TRUE]

Outdated(kind) ==
  {IF c.kind = kind THEN [c EXCEPT !.current = FALSE] ELSE c : c \in commands}

Open          == screen # "quit"

-----------------------------------------------------------------------------
(* profilesLoadedMsg.  Without profiles there is nothing to do but leave.  *)
ProfilesLoaded ==
  /\ screen = "loading" /\ ~err
  /\ \/ screen' = "profiles" /\ err' = FALSE
     \/ err' = TRUE /\ UNCHANGED screen
  /\ UNCHANGED <<pending, busy, source, choices, reviewed, commands, raced, pulling>>

(* loadIdentity: the command keeps the profile of its time. *)
LoadIdentity(p) ==
  /\ Room /\ screen' = "identity" /\ busy' = TRUE
  /\ commands' = commands \cup {Cmd("identity", p, {}, NoRequest)}
  /\ UNCHANGED <<pending, err, identity, choices, reviewed, raced, pulling>>

Choose(p) ==
  /\ screen = "profiles" /\ ~busy
  /\ profile' = p
  /\ IF region
     THEN LoadIdentity(p) /\ UNCHANGED region
     ELSE /\ screen' = "region"
          /\ UNCHANGED <<pending, busy, err, region, identity, choices, reviewed,
                         commands, raced, pulling>>

EnterRegion ==
  /\ screen = "region"
  /\ region' = TRUE
  /\ LoadIdentity(profile) /\ UNCHANGED profile

(* identityLoadedMsg carries no token: whatever arrives is taken. *)
IdentityLoaded ==
  /\ Open
  /\ \E c \in Running("identity") :
       /\ commands' = commands \ {c}
       /\ busy' = FALSE
       /\ \/ identity' = Account[c.profile] /\ err' = FALSE
          \/ identity' = None /\ err' = TRUE
  /\ UNCHANGED <<screen, pending, profile, region, choices, reviewed, raced, pulling>>

AcceptIdentity ==
  /\ screen = "identity" /\ ~busy
  /\ ~err /\ identity # None
  /\ screen' = "services"
  /\ UNCHANGED <<pending, busy, err, source, choices, reviewed, commands, raced, pulling>>

-----------------------------------------------------------------------------
ToggleService ==
  /\ screen = "services" /\ ~busy
  /\ \E s \in Services : wanted' = (wanted \ {s}) \cup ({s} \ wanted)
  /\ UNCHANGED <<view, source, resources, selected, dataChoice, reviewed,
                 commands, raced, pulling>>

Scan ==
  /\ screen = "services" /\ ~busy /\ Room
  /\ busy' = TRUE /\ pending' = screen
  /\ commands' = Outdated("scan") \cup {Cmd("scan", profile, wanted, NoRequest)}
  /\ UNCHANGED <<screen, err, source, choices, reviewed, raced, pulling>>

(* mergeResources: what is known of a service that is still wanted stays. *)
Merge(found) ==
  LET known == {r \in resources \cup found : Catalog[r].service \in wanted}
  IN  /\ resources' = known
      /\ selected' = {r \in selected : Catalog[r].service \in wanted}
      /\ dataChoice' = [r \in Resources |->
                          IF Catalog[r].service \in wanted THEN dataChoice[r] ELSE None]
      /\ UNCHANGED wanted

(* The completion of a command is acted on if the user has stayed. *)
Honored(c) == screen = pending

(* scanFinishedMsg.  A service that cannot be listed is a finding, no error. *)
ScanFinished ==
  /\ Open
  /\ \E c \in Running("scan") :
       /\ commands' = commands \ {c}
       /\ IF ~c.current THEN UNCHANGED <<view, choices, raced>>
          ELSE /\ busy' = FALSE /\ pending' = None
               /\ raced' = (raced \/ Running("identity") # {})
               /\ \/ ~Honored(c) /\ UNCHANGED <<screen, err, choices>>
                  \/ Honored(c) /\ err' = TRUE /\ UNCHANGED <<screen, choices>>
                  \/ /\ Honored(c)
                     /\ err' = FALSE /\ screen' = "resources"
                     /\ \E found \in SUBSET {r \in Resources :
                                               /\ Catalog[r].service \in c.wanted
                                               /\ Catalog[r].account = Account[c.profile]} :
                          Merge(found)
  /\ UNCHANGED <<source, reviewed, pulling>>

(* toggle on the resources screen ... *)
ToggleResource ==
  /\ screen = "resources" /\ ~busy
  /\ \E r \in resources :
       IF r \in selected
       THEN selected' = selected \ {r} /\ dataChoice' = [dataChoice EXCEPT ![r] = None]
       ELSE selected' = selected \cup {r} /\ UNCHANGED dataChoice
  /\ UNCHANGED <<view, source, wanted, resources, reviewed, commands, raced, pulling>>

DataModes(service) ==
  CASE service \in {"s3", "dynamodb"} -> <<None, "bounded", "full">>
    [] service = "sqs"                -> <<None, "bounded">>
    [] OTHER                          -> <<None>>

(* ... and on the options screen, where it goes around the data modes. *)
ToggleData ==
  /\ screen = "options" /\ ~busy
  /\ \E r \in selected :
       LET modes == DataModes(Catalog[r].service)
           i     == CHOOSE j \in DOMAIN modes : modes[j] = dataChoice[r]
       IN  dataChoice' = [dataChoice EXCEPT ![r] = modes[(i % Len(modes)) + 1]]
  /\ UNCHANGED <<view, source, wanted, resources, selected, reviewed,
                 commands, raced, pulling>>

ToOptions ==
  /\ screen = "resources" /\ ~busy /\ selected # {}
  /\ screen' = "options"
  /\ UNCHANGED <<pending, busy, err, source, choices, reviewed, commands, raced, pulling>>

-----------------------------------------------------------------------------
(* Project, as far as it depends on the user. *)
Request == [profile |-> profile, account |-> identity,
            data |-> [r \in selected |-> dataChoice[r]]]

(* Mutant: the account is for display only. *)
AnyAccount(req) == TRUE

(* The check of ExpectedAccountID, which capture and preflight make. *)
AccountMatches(req) == req.account \in {None, Account[req.profile]}

Plan ==
  /\ screen = "options" /\ ~busy /\ Room
  /\ busy' = TRUE /\ pending' = screen
  /\ commands' = Outdated("plan") \cup {Cmd("plan", profile, wanted, Request)}
  /\ UNCHANGED <<screen, err, source, choices, reviewed, raced, pulling>>

(* Mutant: any plan is the one that is awaited. *)
AnyPlan(c) == TRUE

CurrentPlan(c) == c.current

(* planFinishedMsg: Plan, then Preflight.  Failed permissions are reviewed, *)
(* any other failure leaves the user on the options screen.                *)
PlanFinished ==
  /\ Open
  /\ \E c \in Running("plan") :
       /\ commands' = commands \ {c}
       /\ IF ~CurrentPlan(c) THEN UNCHANGED <<view, reviewed>>
          ELSE /\ busy' = FALSE /\ pending' = None
               /\ \/ ~Honored(c) /\ UNCHANGED <<screen, err, reviewed>>
                  \/ /\ Honored(c)
                     /\ err' = TRUE /\ plan' = NoRequest /\ checks' = None
                     /\ UNCHANGED screen
                  \/ /\ Honored(c) /\ AccountMatches(c.request)
                     /\ plan' = c.request /\ screen' = "review"
                     /\ \/ err' = FALSE /\ checks' = "passed"
                        \/ err' = TRUE /\ checks' = "failed"
  /\ UNCHANGED <<source, choices, raced, pulling>>

Blocked == checks = "failed"

Proceed ==
  /\ ~busy
  /\ \/ screen = "review" /\ ~Blocked /\ screen' = "summary"
     \/ screen = "summary" /\ screen' = "confirm"
  /\ UNCHANGED <<pending, busy, err, source, choices, reviewed, commands, raced, pulling>>

-----------------------------------------------------------------------------
(* back, for the esc key, which a busy interface takes too: every command  *)
(* that was awaited on the screen is awaited no longer.  The plan and its  *)
(* checks stay in memory, but no screen before the next plan reads them:   *)
(* they are forgotten here.                                                *)
Left(cs) == {[c EXCEPT !.fresh = FALSE] : c \in cs}

(* Mutant: a command that is left still expects its screen. *)
NotCleared == pending

Cleared == None

Leave(to) == screen' = to /\ commands' = Left(commands) /\ UNCHANGED busy

(* Mutant: as for a plan, the report of a scan that was left is ignored. *)
CancelScanAsPlan == screen' = "identity" /\ commands' = Left(Outdated("scan")) /\ UNCHANGED busy

(* A scan is canceled, and the interface is free. *)
CancelScan == screen' = "identity" /\ busy' = FALSE /\ commands' = Left(commands)

(* A plan is not; its token is given up. *)
LeavePlan(to) == screen' = to /\ commands' = Left(Outdated("plan")) /\ UNCHANGED busy

Back ==
  /\ Open
  /\ pending' = Cleared
  /\ CASE screen = "region" -> Leave("profiles")
       [] screen = "identity" -> Leave(IF busy THEN screen ELSE "profiles")
       [] screen = "services" -> CancelScan
       [] screen = "resources" -> Leave("services")
       [] screen = "options" -> LeavePlan("resources")
       [] screen = "review" -> LeavePlan("options")
       [] screen = "summary" -> Leave("review")
       [] screen = "confirm" -> Leave("summary")
       [] OTHER -> Leave(screen)
  /\ IF screen = "review" THEN plan' = NoRequest /\ checks' = None ELSE UNCHANGED reviewed
  /\ UNCHANGED <<err, source, choices, raced, pulling>>

(* ctrl+c, on any screen, and enter on the last one: the process ends, and *)
(* with it all but the project file.                                       *)
Quit ==
  /\ Open
  /\ screen' = "quit" /\ pending' = None /\ busy' = FALSE /\ err' = FALSE
  /\ profile' = None /\ region' = FALSE /\ identity' = None
  /\ wanted' = Default /\ resources' = {} /\ selected' = {}
  /\ dataChoice' = [r \in Resources |-> None]
  /\ plan' = NoRequest /\ checks' = None
  /\ commands' = {} /\ raced' = FALSE
  /\ pull' = "idle" /\ request' = NoRequest /\ updates' = <<>> /\ armed' = FALSE
  /\ emitted' = 0 /\ shown' = 0
  /\ UNCHANGED file

-----------------------------------------------------------------------------
(* y on the confirmation: pull starts SaveAndPull in a goroutine. *)
Confirm ==
  /\ screen = "confirm" /\ ~busy
  /\ screen' = "progress" /\ busy' = TRUE
  /\ pull' = "checking" /\ request' = Request /\ armed' = TRUE
  /\ UNCHANGED <<pending, err, source, choices, reviewed, commands, raced,
                 updates, emitted, shown, file>>

Finish(result) == pull' = result

(* SaveAndPull: the permissions are checked once more, ... *)
Recheck ==
  /\ Open /\ pull = "checking"
  /\ \/ AccountMatches(request) /\ pull' = "writing"
     \/ Finish("failed")
  /\ UNCHANGED <<file, updates, emitted>>

(* ... the project file is replaced, whole, ... *)
WriteProject ==
  /\ Open /\ pull = "writing"
  /\ \/ file' = request /\ pull' = "reading"
     \/ Finish("failed") /\ UNCHANGED file
  /\ UNCHANGED <<updates, emitted>>

HasRoom == Len(updates) < Buffer

(* ... and the pull reports what it does; a full channel holds it up. *)
Emit ==
  /\ Open /\ pull = "reading" /\ HasRoom /\ emitted < Events
  /\ updates' = Append(updates, "event") /\ emitted' = emitted + 1
  /\ UNCHANGED <<pull, file>>

PullEnds ==
  /\ Open /\ pull = "reading"
  /\ Finish("ok") \/ Finish("failed")
  /\ UNCHANGED <<file, updates, emitted>>

(* Mutant: the result does not wait for the progress before it. *)
DeliverFirst(result) == updates' = <<result>> \o updates

Deliver(result) == updates' = Append(updates, result)

(* Its result is the last that is sent. *)
Report ==
  /\ Open /\ pull \in {"ok", "failed"} /\ HasRoom
  /\ Deliver(pull) /\ pull' = "reported"
  /\ UNCHANGED <<file, emitted>>

Save ==
  /\ Recheck \/ WriteProject \/ Emit \/ PullEnds \/ Report
  /\ UNCHANGED <<view, source, choices, reviewed, commands, raced, request, armed, shown>>

(* Mutant: the command that waits for the next message is not started again. *)
NoRearm == FALSE

Rearm == TRUE

(* pullProgressMsg and pullFinishedMsg, taken from the channel by waitPullUpdate. *)
PullUpdate ==
  /\ Open /\ armed /\ updates # <<>>
  /\ updates' = Tail(updates)
  /\ IF Head(updates) = "event"
     THEN shown' = shown + 1 /\ armed' = Rearm /\ UNCHANGED view
     ELSE /\ armed' = FALSE /\ screen' = "result" /\ busy' = FALSE
          /\ err' = (Head(updates) = "failed")
          /\ UNCHANGED <<shown, pending>>
  /\ UNCHANGED <<source, choices, reviewed, commands, raced, pull, request, emitted, file>>

Handle == IdentityLoaded \/ ScanFinished \/ PlanFinished \/ PullUpdate

Next ==
  \/ ProfilesLoaded \/ Handle \/ Save
  \/ \E p \in Profiles : Choose(p)
  \/ EnterRegion \/ AcceptIdentity \/ ToggleService \/ Scan
  \/ ToggleResource \/ ToOptions \/ ToggleData \/ Plan
  \/ Proceed \/ Confirm \/ Back \/ Quit

(* Commands end and their messages are handled; the user owes nothing.  A  *)
(* pull ends however often it reports.                                     *)
Fairness ==
  /\ WF_vars(IdentityLoaded) /\ WF_vars(ScanFinished) /\ WF_vars(PlanFinished)
  /\ WF_vars(PullUpdate) /\ WF_vars(Save)

Spec == Init /\ [][Next]_vars

-----------------------------------------------------------------------------
Requests == [profile : Profiles, account : {Account[p] : p \in Profiles} \cup {None},
             data : UNION {[S -> {None, "bounded", "full"}] : S \in SUBSET Resources}]

(* The shapes of the model's state. *)
TypeOK ==
  /\ screen \in {"loading", "profiles", "region", "identity", "services", "resources", "options",
                 "review", "summary", "confirm", "progress", "result", "quit"}
  /\ pending \in {None, "services", "options"} /\ busy \in BOOLEAN /\ err \in BOOLEAN
  /\ profile \in Profiles \cup {None} /\ identity \in {Account[p] : p \in Profiles} \cup {None}
  /\ region \in BOOLEAN /\ raced \in BOOLEAN /\ armed \in BOOLEAN
  /\ plan \in Requests \cup {NoRequest} /\ checks \in {None, "passed", "failed"}
  /\ request \in Requests \cup {NoRequest} /\ file \in Requests \cup {NoRequest}
  /\ pull \in {"idle", "checking", "writing", "reading", "ok", "failed", "reported"}
  /\ Len(updates) <= Buffer /\ shown \in 0..Events

(* mergeResources, toggle and back: whatever is rescanned, deselected or   *)
(* left behind, what is selected is a resource the user can still see, of  *)
(* a service that supports the data mode chosen for it, and no choice      *)
(* outlives its selection.                                                 *)
SelectionVisible ==
  /\ selected \subseteq resources
  /\ \A r \in Resources :
       /\ dataChoice[r] # None => r \in selected
       /\ \E i \in 1..Len(DataModes(Catalog[r].service)) :
            dataChoice[r] = DataModes(Catalog[r].service)[i]

Reviewing == screen \in {"review", "summary", "confirm"}

(* The plan is for the profile and the resources of a request, ...         *)
Covers(req) == plan.profile = req.profile /\ DOMAIN plan.data = DOMAIN req.data

(* ... and for its data modes too.                                         *)
Planned(req) == Covers(req) /\ plan.data = req.data

(* planFinishedMsg: a plan under review was made for the profile and the   *)
(* resources that are selected now, with an account of that profile,       *)
(* whatever reports came in between.  Its data modes are the present ones  *)
(* too, unless a canceled scan has reported while an identity was loaded   *)
(* (update.go:24-33): the interface is then free too early, twice, and the *)
(* user may change the data modes while their plan is made.                *)
PlanCurrent ==
  Reviewing => Covers(Request) /\ AccountMatches(plan) /\ (~raced => Planned(Request))

(* hasFailedPermissions and Confirm: a pull is started only with all       *)
(* permissions found, for the profile and the resources that were planned  *)
(* with an account of that profile, and, with the same exception, for the  *)
(* data modes that were.                                                   *)
PullPermitted ==
  pull # "idle" =>
    checks = "passed" /\ Covers(request) /\ AccountMatches(plan) /\ (~raced => Planned(request))

(* ExpectedAccountID: no interleaving of identities, scans and pulls makes *)
(* floceed write a project, and read, with an account that is not the      *)
(* chosen profile's.                                                       *)
AccountChecked == file # NoRequest => file.account \in {None, Account[file.profile]}

Beyond == screen \in {"services", "resources", "options"} \/ Reviewing

(* AcceptIdentity: past the identity screen the account shown is that of   *)
(* the chosen profile, but for the early freedom that PlanCurrent names:   *)
(* after it, the account of an earlier profile may be shown, with which no *)
(* plan is reviewed (PlanCurrent) and no project written (AccountChecked). *)
IdentityCurrent == Beyond /\ ~raced => identity = Account[profile]

(* Model.Project and Confirm: between the first selection and the pull the *)
(* selection, the identity, the plan and the permissions shown are those   *)
(* of each other, and of what is pulled, each as far as it says above.     *)
AsReviewed == SelectionVisible /\ PlanCurrent /\ IdentityCurrent /\ PullPermitted

(* pullUpdates: events are shown in order, none is lost, and the result    *)
(* only after all of them.                                                 *)
ResultLast ==
  screen = "result" => updates = <<>> /\ shown = emitted /\ pull = "reported"

Undisturbed == UNCHANGED <<screen, err, choices, reviewed>>

(* The comment on pending: a scan or plan whose screen the user has left   *)
(* meanwhile changes neither screen, selection nor review, even if the     *)
(* user is back on that screen.                                            *)
StaleIgnored ==
  [][\A c \in Running("scan") \cup Running("plan") :
       ~c.fresh /\ Open' /\ commands' = commands \ {c} => Undisturbed]_vars

(* CancelScan, LeavePlan: the interface does not stay busy; the exception  *)
(* is a plan that was left with esc, whose report is ignored: only esc,    *)
(* back through the services screen, frees it.                             *)
NotStuck == busy ~> (~busy \/ ~Open \/ screen \in {"resources", "services"})

(* A confirmed pull ends on the result screen, if the user does not quit.  *)
PullConcludes == screen = "progress" ~> (screen = "result" \/ ~Open)
=============================================================================
