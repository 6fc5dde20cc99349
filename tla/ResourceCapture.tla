-------------------------- MODULE ResourceCapture --------------------------
(***************************************************************************)
(* One resource from the project file to the local Floci.  The user edits   *)
(* floceed.yaml, plans with it and grants what the plan asks for; a pull    *)
(* decodes it, probes its permissions, captures the resource, writes the    *)
(* manifest and installs the bundle; the replay program validates it.  The  *)
(* records of a stream and the messages of a queue, which live producers    *)
(* keep adding to, are captured call by call and record by record into an   *)
(* NDJSON artifact (internal/services/kinesis, sqs, ndjson); the metadata   *)
(* of the structure-only services call by call; of a bucket or a table only *)
(* the form of its dataset is taken here, its capture is S3Capture and      *)
(* DynamoCapture.                                                           *)
(***************************************************************************)
EXTENDS Manifest

CONSTANTS
  Shards,      \* the shards of the stream, 1 .. n in the order of their names
  PageLimit,   \* records a GetRecords asks for at most
  ReceiveMax,  \* messages a ReceiveMessage asks for at most
  MaxWritten,  \* bound: records written to a shard, messages sent to the queue
  Selections,  \* what may be selected in the user interface
  Files,       \* the project files the user may have
  Items        \* the items a captured table may hold

ASSUME ResourceCaptureAssumption ==
  /\ IsFiniteSet(Shards) /\ Shards = 1 .. Cardinality(Shards) /\ Shards # {}
  /\ PageLimit \in Nat \ {0} /\ ReceiveMax \in Nat \ {0}
  /\ MaxWritten \in Nat

(* Resources come from a listing, which gives each service's names once, of *)
(* any form, with an ARN or without.                                        *)
ASSUME SelectionsAssumption ==
  \A selected \in Selections :
    /\ IsFiniteSet(selected) /\ selected # {}
    /\ \A r \in selected :
         /\ r.service \in Services /\ r.name \in STRING \ {""} /\ r.choice \in {"", "bounded", "full"}
         /\ IF r.service \in DOMAIN ArnForm
            THEN r.arn \in Arns
            ELSE r.arn = NoArn
    /\ \A r, q \in selected : r.service = q.service /\ r.name = q.name => r = q

(* The project files the user interface writes.                             *)
Written == {WizardProject(selected) : selected \in Selections}

ASSUME FilesAssumption ==
  /\ \A f \in Files : WellTyped(f)
  /\ Written \subseteq Files

(* An item is as the source has it.                                         *)
ASSUME ItemsAssumption ==
  \A item \in Items : item \in [DOMAIN item -> [type : STRING, by : {Source}]]

VARIABLES
  file,      \* floceed.yaml
  granted,   \* the actions the user's credentials allow
  phase,     \* how far the pull is
  project,   \* the decoded project
  todo,      \* the calls the pull has still to make before it captures records
  written,   \* records in each shard; messages in the queue
  closed,    \* the shards that take no more records
  shard,     \* the shard being read
  taken,     \* the records of each shard in the artifact under construction
  size,      \* its bytes
  full,      \* whether a record did not fit
  manifest,  \* the manifest of the captured bundle
  gaps,      \* history: shards left at an empty page though records remained
  left,      \* history: the records each shard held when the capture left it
  denied     \* history: an action was not allowed

world  == <<written, closed>>
writer == <<shard, taken, size, full, gaps, left>>
vars   == <<file, granted, phase, project, todo, written, closed, shard, taken, size, full,
            gaps, left, manifest, denied>>

NoProject  == Rejected
NoManifest == [schema |-> 0]
Nothing    == [s \in Shards |-> 0]
Messages   == 1  \* the queue stands where the first shard does

(* Records differ in size.                                                  *)
RecordSize(n) == 1 + (n % 2)

Service(p) == CHOOSE s \in Services : p.resources[s] # << >>
Only(p)    == p.resources[Service(p)][1]
Data(p)    == Only(p).data
Recorded(p) == Service(p) \in {"kinesis", "sqs"} /\ Data(p).enabled
MaxRecords == Data(project).limits[1]
MaxBytes   == Data(project).limits[2]

-----------------------------------------------------------------------------
(* Mutant: a plan lists the calls that find shards, not those that read.    *)
KinesisListing(data) ==
  {"kinesis:ListStreams", "kinesis:DescribeStreamSummary"} \cup
  (IF data.enabled THEN {"kinesis:ListShards"} ELSE {})

(* The actions each plan lists, and the calls each capture makes.           *)
KinesisActions(data) ==
  {"kinesis:ListStreams", "kinesis:DescribeStreamSummary"} \cup
  (IF data.enabled THEN {"kinesis:ListShards", "kinesis:GetShardIterator", "kinesis:GetRecords"}
   ELSE {})

SQSActions(data) == IF data.enabled THEN {"sqs:GetQueueUrl", "sqs:ReceiveMessage"} ELSE {}

StructureActions ==
  [sns            |-> {"sns:ListSubscriptionsByTopic"},
   events         |-> {"events:ListRules", "events:ListTargetsByRule"},
   lambda         |-> {"lambda:GetFunctionConfiguration", "lambda:ListAliases",
                       "lambda:ListEventSourceMappings"},
   secretsmanager |-> {"secretsmanager:DescribeSecret"},
   ssm            |-> {"ssm:DescribeParameters"},
   apigateway     |-> {"apigateway:GET"},
   stepfunctions  |-> {"states:DescribeStateMachine", "states:ListTagsForResource"},
   logs           |-> {"logs:DescribeLogGroups", "logs:ListTagsForResource"}]

Planned(p) ==
  CASE Service(p) = "kinesis" -> KinesisActions(Data(p))
    [] Service(p) = "sqs"     -> SQSActions(Data(p))
    [] Service(p) \in DOMAIN StructureActions -> StructureActions[Service(p)]
    [] OTHER -> {}

TopicCalls        == <<"sns:ListSubscriptionsByTopic">>
EventBusCalls     == <<"events:ListRules", "events:ListTargetsByRule">>
FunctionCalls     == <<"lambda:GetFunctionConfiguration", "lambda:ListAliases",
                       "lambda:ListEventSourceMappings">>
SecretCalls       == <<"secretsmanager:DescribeSecret">>
ParameterCalls    == <<"ssm:DescribeParameters">>
ApiCalls          == <<"apigateway:GET", "apigateway:GET", "apigateway:GET">>
StateMachineCalls == <<"states:DescribeStateMachine", "states:ListTagsForResource">>
LogGroupCalls     == <<"logs:DescribeLogGroups", "logs:ListTagsForResource">>

StreamProbes(data) ==
  <<"kinesis:DescribeStreamSummary">> \o
  (IF data.enabled THEN <<"kinesis:ListShards", "kinesis:GetShardIterator", "kinesis:GetRecords">>
   ELSE << >>)

QueueProbes(data) ==
  IF data.enabled THEN <<"sqs:GetQueueUrl", "sqs:ReceiveMessage">> ELSE << >>

ShardCalls(data)   == IF data.enabled THEN <<"kinesis:ListShards">> ELSE << >>
AddressCalls(data) == IF data.enabled THEN <<"sqs:GetQueueUrl">> ELSE << >>

(* What a pull calls before it reads records: the probes of a stream or of  *)
(* a queue and the call that finds its shards or its address, or the calls  *)
(* that describe a resource.                                                *)
Calls(p) ==
  CASE Service(p) = "kinesis"        -> StreamProbes(Data(p)) \o ShardCalls(Data(p))
    [] Service(p) = "sqs"            -> QueueProbes(Data(p)) \o AddressCalls(Data(p))
    [] Service(p) = "sns"            -> TopicCalls
    [] Service(p) = "events"         -> EventBusCalls
    [] Service(p) = "lambda"         -> FunctionCalls
    [] Service(p) = "secretsmanager" -> SecretCalls
    [] Service(p) = "ssm"            -> ParameterCalls
    [] Service(p) = "apigateway"     -> ApiCalls
    [] Service(p) = "stepfunctions"  -> StateMachineCalls
    [] Service(p) = "logs"           -> LogGroupCalls
    [] OTHER                         -> << >>

-----------------------------------------------------------------------------
Init ==
  /\ file \in Files
  /\ granted = {} /\ phase = "idle" /\ project = NoProject /\ todo = << >>
  /\ written = Nothing
  /\ closed \in IF Recorded(file) THEN SUBSET Shards ELSE {{}}
  /\ shard = 1 /\ taken = Nothing /\ size = 0 /\ full = FALSE
  /\ gaps = {} /\ left = Nothing
  /\ manifest = NoManifest /\ denied = FALSE

(* A plan, which somebody with wider credentials makes of the same file,    *)
(* lists the actions that the user is then granted.                         *)
Grant ==
  /\ phase = "idle" /\ granted = {} /\ Decode(file) # Rejected
  /\ granted' = Planned(Decode(file))
  /\ granted' # {}
  /\ UNCHANGED <<file, phase, project, todo, world, writer, manifest, denied>>

Load ==
  /\ phase = "idle"
  /\ project' = Decode(file)
  /\ phase' = IF project' = Rejected THEN "failed" ELSE "calling"
  /\ todo' = IF project' = Rejected THEN << >> ELSE Calls(project')
  /\ shard' = 1 /\ taken' = Nothing /\ size' = 0 /\ full' = FALSE
  /\ gaps' = {} /\ left' = Nothing
  /\ UNCHANGED <<file, granted, world, manifest, denied>>

(* An error aborts the artifact under construction and the pull.            *)
Fail ==
  /\ phase' = "failed"
  /\ UNCHANGED <<file, granted, project, todo, world, writer, manifest>>

Refused(action) == action \notin granted /\ denied' = TRUE /\ Fail

Call ==
  /\ phase = "calling" /\ todo # << >>
  /\ IF Head(todo) \in granted
     THEN /\ todo' = Tail(todo)
          /\ UNCHANGED <<file, granted, phase, project, world, writer, manifest, denied>>
     ELSE Refused(Head(todo))

(* Any call may fail, a parameter or a log group may be gone, and the user  *)
(* may interrupt the pull.                                                  *)
CallFails ==
  /\ phase \in {"calling", "reading"}
  /\ Fail /\ UNCHANGED denied

-----------------------------------------------------------------------------
(* The manifest of a capture whose snapshot has this structure and dataset. *)
ManifestOf(structure, dataset, governance) ==
  [schema |-> 3, account |-> "digits",
   snapshots |-> <<[service   |-> Service(project),
                    resource  |-> [name |-> Only(project).name, arn |-> Only(project).arn],
                    structure |-> structure, dataset |-> dataset]>>,
   governance |-> governance]

Structure(arn) ==
  [version |-> 1, name |-> Only(project).name, arn |-> arn, region |-> TRUE, keys |-> TRUE]

Captured(m) ==
  /\ manifest' = m
  /\ phase' = "captured"

(* AWS names a log group itself, with or without the star.                  *)
ListedArns ==
  IF Service(project) = "logs"
  THEN {[Only(project).arn EXCEPT !.region = TRUE, !.suffix = x] : x \in {"", "star"}}
  ELSE {Only(project).arn}

CaptureStructure ==
  /\ phase = "calling" /\ todo = << >>
  /\ Service(project) \notin {"s3", "dynamodb"} /\ ~Data(project).enabled
  /\ \E arn \in ListedArns : Captured(ManifestOf(Structure(arn), NoDataset, Ungoverned))
  /\ UNCHANGED <<file, granted, project, todo, world, writer, denied>>

(* A bucket or a table yields no dataset, one without chunks (null in JSON) *)
(* or one with a chunk; the profile that was asked for governs the item.    *)
ObjectDataset(chunks) ==
  [format |-> IF Service(project) = "s3" THEN "s3-tar-gzip-v1" ELSE "dynamodb-ndjson-v1",
   records |-> Totals(chunks).records, bytes |-> Totals(chunks).bytes,
   listed |-> chunks # << >>, chunks |-> chunks]

Governed(item, policy) ==
  IF Service(project) = "dynamodb"
  THEN {GovernItem(item, order) : order \in Orders(TableRules(policy, Only(project).name))}
  ELSE {Raw(item)}

Chunks(governed) == <<[records |-> 1, bytes |-> 1, index |-> TRUE, item |-> governed.item]>>

CaptureGoverned(name, policy, governed) ==
  /\ ~governed.failed
  /\ \E chunks \in {<< >>, Chunks(governed)} :
        Captured(ManifestOf(Structure(Only(project).arn),
                   IF Data(project).enabled THEN ObjectDataset(chunks) ELSE NoDataset,
                   IF name = "" THEN Ungoverned
                   ELSE GovernanceAudit(name, policy, governed.applied)))
  /\ UNCHANGED <<file, granted, project, todo, world, writer>>

CaptureObjects(name, secret, item) ==
  LET policy == ResolveFixtureProfile(project, name, secret)
  IN  /\ phase = "calling" /\ Service(project) \in {"s3", "dynamodb"}
      /\ \/ policy = Rejected /\ Fail
         \/ /\ policy # Rejected
            /\ \E governed \in Governed(item, policy) :
                 CaptureGoverned(name, policy, governed) \/ (governed.failed /\ Fail)
      /\ UNCHANGED denied

-----------------------------------------------------------------------------
(* Live producers of a stream or of a queue whose records are asked for.    *)
Produce(s) ==
  /\ Recorded(file) /\ s \notin closed /\ written[s] < MaxWritten
  /\ written' = [written EXCEPT ![s] = @ + 1]
  /\ UNCHANGED <<file, granted, phase, project, todo, closed, writer, manifest, denied>>

Taken   == UNION {{s} \X (1 .. taken[s]) : s \in Shards}
Records == Cardinality(Taken)
Reached == MaxRecords > 0 /\ Records >= MaxRecords

(* Mutant: the newline is not counted.                                      *)
FitsWithoutNewline(bytes, n) == MaxBytes <= 0 \/ bytes + RecordSize(n) <= MaxBytes

(* Writer.Write: a record goes in whole, with its newline, or not at all.   *)
Fits(bytes, n) == MaxBytes <= 0 \/ bytes + RecordSize(n) + 1 <= MaxBytes

BytesIn(s, k) == UNION {{i} \X (0 .. RecordSize(taken[s] + i)) : i \in 1 .. k}
BytesOf(s, k) == Cardinality(BytesIn(s, k))
FitsAll(s, k) == \A i \in 1 .. k : Fits(size + BytesOf(s, i - 1), taken[s] + i)

(* Of a page of so many records of a shard, those that fit are written; the *)
(* first that does not ends the capture of records.                         *)
WritePage(s, page) ==
  LET k == CHOOSE i \in 0 .. page : /\ FitsAll(s, i)
                                    /\ i = page \/ ~FitsAll(s, i + 1)
  IN  /\ taken' = [taken EXCEPT ![s] = @ + k]
      /\ size' = size + BytesOf(s, k)
      /\ full' = (k < page)

BeginRecords ==
  /\ phase = "calling" /\ todo = << >>
  /\ Recorded(project)
  /\ phase' = "reading"
  /\ UNCHANGED <<file, granted, project, todo, world, writer, manifest, denied>>

Reading(service) == phase = "reading" /\ Service(project) = service

(* GetRecords asks for a page, of no more records than the limit leaves,    *)
(* and may get any number of those the shard holds.  An empty page, or the  *)
(* end of a closed shard, takes the capture to the next shard.              *)
Limit == IF MaxRecords > 0 THEN Min({MaxRecords - Records, PageLimit}) ELSE PageLimit

Remaining(s) == written[s] - taken[s]

(* Mutant: a page shorter than asked for is taken for the last.             *)
LeavesShort(s, page) == page < Limit

(* When a page leaves the shard: it is empty, or the end of a closed shard. *)
Leaves(s, page) == page = 0 \/ (s \in closed /\ taken'[s] = written[s])

GetRecords ==
  /\ Reading("kinesis") /\ shard \in Shards /\ ~full /\ ~Reached
  /\ {"kinesis:GetShardIterator", "kinesis:GetRecords"} \subseteq granted
  /\ \E page \in 0 .. Min({Limit, Remaining(shard)}) :
       /\ WritePage(shard, page)
       /\ shard' = IF Leaves(shard, page) THEN shard + 1 ELSE shard
       /\ gaps' = IF page = 0 /\ Remaining(shard) > 0 THEN gaps \cup {shard} ELSE gaps
       /\ left' = IF shard' # shard THEN [left EXCEPT ![shard] = written[shard]] ELSE left
  /\ UNCHANGED <<file, granted, phase, project, todo, world, manifest, denied>>

(* ReceiveMessage asks once, for at most ten messages.                      *)
Wanted == IF MaxRecords <= 0 \/ MaxRecords > ReceiveMax THEN ReceiveMax ELSE MaxRecords

ReceiveMessage ==
  /\ Reading("sqs") /\ shard = Messages
  /\ "sqs:ReceiveMessage" \in granted
  /\ \E page \in 0 .. Min({Wanted, written[Messages]}) : WritePage(Messages, page)
  /\ shard' = shard + 1
  /\ UNCHANGED <<file, granted, phase, project, todo, world, gaps, left, manifest, denied>>

Drained ==
  \/ Reading("kinesis") /\ (shard \notin Shards \/ full \/ Reached)
  \/ Reading("sqs") /\ shard # Messages

(* Commit renames the synced artifact into place; the dataset is its only   *)
(* chunk.                                                                   *)
Chunk   == [records |-> Records, bytes |-> size, index |-> FALSE]
Dataset ==
  [format |-> IF Service(project) = "sqs" THEN "sqs-messages-ndjson-v1"
              ELSE "kinesis-records-ndjson-v1",
   records |-> Records, bytes |-> size, listed |-> TRUE, chunks |-> <<Chunk>>]

Commit ==
  /\ Drained
  /\ Captured(ManifestOf(Structure(Only(project).arn), Dataset, Ungoverned))
  /\ UNCHANGED <<file, granted, project, todo, world, writer, denied>>

-----------------------------------------------------------------------------
(* The manifest is projected, and thereby validated, before it is installed.*)
Install ==
  /\ phase = "captured"
  /\ phase' = IF ManifestValid(manifest) THEN "installed" ELSE "invalid"
  /\ UNCHANGED <<file, granted, project, todo, world, writer, manifest, denied>>

Replay ==
  /\ phase = "installed"
  /\ phase' = IF ValidateBundle(manifest) THEN "accepted" ELSE "refused"
  /\ UNCHANGED <<file, granted, project, todo, world, writer, manifest, denied>>

Done == phase \in {"failed", "invalid", "accepted", "refused"} /\ UNCHANGED vars

Pull ==
  \/ Load \/ Call \/ CaptureStructure \/ BeginRecords \/ GetRecords \/ ReceiveMessage
  \/ Commit \/ Install \/ Replay
  \/ \E name \in {"", "profile"}, secret \in BOOLEAN, item \in Items :
       CaptureObjects(name, secret, item)

Next ==
  \/ Grant \/ Pull \/ CallFails \/ Done
  \/ \E s \in Shards : Produce(s)

Spec == Init /\ [][Next]_vars
-----------------------------------------------------------------------------
TypeOK ==
  /\ granted # {} => granted = Planned(Decode(file))
  /\ phase \in {"idle", "calling", "reading", "captured", "installed", "failed", "invalid",
                "accepted", "refused"}
  /\ shard \in 1 .. Cardinality(Shards) + 1
  /\ written \in [Shards -> 0 .. MaxWritten] /\ closed \subseteq Shards
  /\ taken \in [Shards -> 0 .. MaxWritten] /\ \A s \in Shards : taken[s] <= written[s]
  /\ size \in Nat /\ full \in BOOLEAN
  /\ gaps \subseteq Shards /\ left \in [Shards -> 0 .. MaxWritten] /\ denied \in BOOLEAN

(* A bounded capture of records always has limits, also where the file has  *)
(* none, and however calls and producers interleave no artifact, bounded or *)
(* full, holds more records or bytes than the limits of its project, where  *)
(* those are positive (kinesis.go, sqs.go, ndjson.go, config.go             *)
(* applyDefaults).  Whether a full capture may have limits is left open.    *)
LimitsHeld ==
  phase # "idle" /\ project # Rejected /\ Recorded(project) =>
    /\ Data(project).mode = "bounded" => MaxRecords > 0 /\ MaxBytes > 0
    /\ MaxRecords > 0 => Records <= MaxRecords
    /\ MaxBytes > 0 => size <= MaxBytes

(* A stream captured below its limits holds all that every shard held when  *)
(* the capture went on to the next one; only a shard that answered with an  *)
(* empty page before its end may lack records (kinesis.go captureRecords).  *)
CompleteStream ==
  /\ phase \in {"captured", "installed", "accepted"}
  /\ Service(project) = "kinesis" /\ Recorded(project) /\ ~full /\ ~Reached

NothingMissed == CompleteStream => \A s \in Shards \ gaps : taken[s] = left[s]

(* Who is granted what the plan of a project asks for is refused no call by *)
(* the pull of that project: Plan and Capture of the adapters of streams,   *)
(* queues and the structure-only services agree.  (Those of buckets and     *)
(* tables have no calls here.)                                              *)
PlanSuffices == denied => granted # Planned(Decode(file))

(* Every fixture profile of a project that decodes compiles to a policy,    *)
(* given the secret: what config.go checks of a profile and what            *)
(* governance/policy.go asks of it agree, whatever the spelling.            *)
ProfileCompiles ==
  Decode(file) # Rejected =>
    \A name \in DOMAIN file.profiles : ResolveFixtureProfile(Decode(file), name, TRUE) # Rejected

(* No capture passes by the profiles of its project: no captured item of a  *)
(* table holds, as the source had it, a value that a rule of the chosen     *)
(* profile names, with or without spaces around its path.                   *)
RulesOf(name) == {rule \in Range(file.profiles[name].rules) :
                    /\ rule.service = "dynamodb" /\ rule.resource = Only(project).name
                    /\ rule.path.spelled # "upper"}

NoRawValue ==
  phase \in {"captured", "installed", "accepted"} /\ Service(project) = "dynamodb" =>
    IF file.profiles = << >> THEN manifest.governance = Ungoverned
    ELSE /\ manifest.governance.profile \in DOMAIN file.profiles
         /\ \A snapshot \in Range(manifest.snapshots) : snapshot.dataset # NoDataset =>
              \A chunk \in Range(snapshot.dataset.chunks),
                 rule \in RulesOf(manifest.governance.profile) :
                rule.path.parts \in DOMAIN chunk.item =>
                  chunk.item[rule.path.parts].by # Source

(* The manifest of a completed capture is valid, whatever valid project it  *)
(* was captured for, but for a state machine or a log group whose ARN lacks *)
(* the region: config.go lets it through and model.go does not.             *)
ManifestAccepted ==
  phase = "invalid" =>
    Service(project) \in {"stepfunctions", "logs"}
      /\ ~(Only(project).arn.region /\ Only(project).arn.account)

(* The replay program, which splits a whole ARN at its colons and wants an  *)
(* array of chunks, refuses of the bundles that a pull installs those of a  *)
(* secret, those of a parameter or state machine with a colon in its name   *)
(* and those of a dataset without chunks, and no other.                     *)
SplitApart ==
  \/ Service(project) = "secretsmanager"
  \/ Service(project) \in {"ssm", "stepfunctions"} /\ Colons(Only(project).name) > 0

Unlisted ==
  \E snapshot \in Range(manifest.snapshots) :
    snapshot.dataset # NoDataset /\ ~snapshot.dataset.listed

ReplayAgrees ==
  /\ phase = "refused" => SplitApart \/ Unlisted
  /\ phase = "accepted" => ~SplitApart /\ ~Unlisted

(* Three validators of one capture, in config.go, model.go and replay.py:   *)
(* what one lets through the next accepts, with the exceptions above.       *)
ValidatorsAgree == ManifestAccepted /\ ReplayAgrees

(* Each installed bundle replays: validate_bundle of runtime/replay.py      *)
(* accepts every manifest that Validate of internal/model/model.go accepts  *)
(* (runtime/test_replay.py and docs/configuration.md list Secrets Manager   *)
(* among what is replayed).                                                 *)
ReplayAccepts == phase # "refused"

(* The project file the user interface writes decodes to the project it was *)
(* made from, whichever resources and data were selected: no default changes*)
(* it, and one check alone rejects it, that of a selected resource's own    *)
(* name and ARN (tui/resources.go Project, config.go Decode).  Discovery    *)
(* lists streams whose names config.go refuses.                             *)
Listable(r) ==
  r.service \in DOMAIN ArnForm => NameValid(r.service, r.name) /\ ArnValid(r.service, r)

WrittenLoads ==
  \A selected \in Selections :
    file = WizardProject(selected) =>
      Decode(file) = IF \A r \in selected : Listable(r) THEN file ELSE Rejected

(* What writes a project file, what loads it and what compiles its profiles *)
(* agree on it.                                                             *)
FilesLoad == WrittenLoads /\ ProfileCompiles
=============================================================================
