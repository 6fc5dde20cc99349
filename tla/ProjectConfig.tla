---------------------------- MODULE ProjectConfig ----------------------------
(***************************************************************************)
(* The project file (internal/config/config.go): the defaults it is given,  *)
(* what makes it valid, and how one of its fixture profiles becomes the     *)
(* policy of a capture.  A project is a record of the scalars of the file,  *)
(* the resources of each service in order, and the fixture profiles.        *)
(*                                                                          *)
(* The data policy of a resource is none or a record whose limits are in    *)
(* the order of the service's fields: objects, object bytes and total bytes *)
(* of a bucket, items and pages of a table, records and bytes of a stream,  *)
(* messages and bytes of a queue.  An ARN is a record of its parts, its     *)
(* resource split into the form before the name, the name, and a suffix.    *)
(***************************************************************************)
EXTENDS Policy

CONSTANTS
  KinesisLimits,  \* the limits a stream's data policy gets where it has none
  SQSLimits,      \* the same of a queue
  S3Limits,       \* NewS3DataPolicy
  DynamoLimits    \* NewDynamoDBDataPolicy

ASSUME LimitsAssumption ==
  /\ KinesisLimits \in (Nat \ {0}) \X (Nat \ {0})
  /\ SQSLimits \in (Nat \ {0}) \X (Nat \ {0})
  /\ S3Limits \in (Nat \ {0}) \X (Nat \ {0}) \X (Nat \ {0})
  /\ DynamoLimits \in (Nat \ {0}) \X (Nat \ {0})

DefaultTimeout == 300

(* What stands before the name in the resource part of a service's ARN.     *)
ArnForm ==
  [sqs |-> "", sns |-> "", kinesis |-> "stream/", events |-> "event-bus/",
   lambda |-> "function:", secretsmanager |-> "secret:", ssm |-> "parameter",
   apigateway |-> "/apis/", stepfunctions |-> "stateMachine:", logs |-> "log-group:"]

Services == DOMAIN ArnForm \cup {"s3", "dynamodb"}

NoData == [enabled |-> FALSE]
NoArn  == [service |-> ""]
Empty  == [s \in Services |-> << >>]

NewProject ==
  [schema |-> 1, region |-> FALSE, account |-> "", version |-> "supported", port |-> 4566,
   timeout |-> DefaultTimeout, replayWorkers |-> 4, resourceWorkers |-> 2,
   directory |-> ".floceed", resources |-> Empty, profiles |-> << >>]

NewData(service) ==
  CASE service = "s3"       -> [enabled |-> TRUE, mode |-> "bounded", limits |-> S3Limits,
                                overwrite |-> "if-different"]
    [] service = "dynamodb" -> [enabled |-> TRUE, mode |-> "bounded", limits |-> DynamoLimits]
    [] service = "kinesis"  -> [enabled |-> TRUE, mode |-> "bounded", limits |-> KinesisLimits]
    [] service = "sqs"      -> [enabled |-> TRUE, mode |-> "bounded", limits |-> SQSLimits]
    [] OTHER                -> NoData

(* The project the user interface makes of the resources that are selected, *)
(* each with the data that is asked of it: "", "bounded" or "full".         *)
FullDataTimeout == 3600

WizardData(service, choice) ==
  LET data == NewData(service)
  IN  IF choice = "" \/ service \notin {"s3", "dynamodb", "sqs"} THEN NoData
      ELSE IF choice = "full" /\ service # "sqs"
      THEN [data EXCEPT !.mode = "full", !.limits = [i \in DOMAIN @ |-> 0]]
      ELSE data

WizardProject(selected) ==
  [NewProject EXCEPT
     !.region = TRUE, !.account = "digits",
     !.timeout = IF \E r \in selected : r.service \in {"s3", "dynamodb"} /\ r.choice = "full"
                 THEN FullDataTimeout ELSE @,
     !.resources = [s \in Services |-> SetToSeq(
        {[name |-> r.name, arn |-> r.arn, data |-> WizardData(s, r.choice)]
         : r \in {x \in selected : x.service = s}})]]

(* The types of the file's fields; a project has a resource at least.       *)
Arns == [service : STRING, form : STRING, name : STRING, suffix : STRING,
         region : BOOLEAN, account : BOOLEAN, partition : BOOLEAN]

DataPolicies(service) ==
  {NoData} \cup
  (CASE service = "s3" -> [enabled : BOOLEAN, mode : STRING, limits : Int \X Int \X Int,
                           overwrite : STRING]
     [] service \in {"dynamodb", "kinesis", "sqs"} ->
          [enabled : BOOLEAN, mode : STRING, limits : Int \X Int]
     [] OTHER -> {})

Resources(service) ==
  [name : STRING, arn : IF service \in DOMAIN ArnForm THEN Arns ELSE {NoArn},
   data : DataPolicies(service)]

GovernanceRules ==
  [id : Nat, service : STRING, resource : STRING, kind : STRING,
   path : [parts : Seq(STRING), spelled : {"plain", "padded", "upper"}],
   action : STRING, operand : BOOLEAN, algorithm : STRING]

GovernanceCohorts ==
  [resource : STRING, keyed : BOOLEAN, limit : Int, retained : Int, algorithm : STRING]

FixtureProfiles == [rules : Seq(GovernanceRules), cohorts : Seq(GovernanceCohorts)]

WellTyped(p) ==
  /\ DOMAIN p = DOMAIN NewProject
  /\ p.timeout \in Int
  /\ DOMAIN p.resources = Services
  /\ \A s \in Services : p.resources[s] \in Seq(Resources(s))
  /\ \E s \in Services : p.resources[s] # << >>
  /\ p.profiles \in [DOMAIN p.profiles -> FixtureProfiles]

Or(value, zero, default) == IF value = zero THEN default ELSE value

(* Limits are filled in for streams and queues only, whatever the mode.     *)
DataDefaults(service, data) ==
  IF data = NoData THEN data
  ELSE LET moded == [data EXCEPT !.mode = Or(@, "", "bounded")]
           fill(defaults) == [i \in DOMAIN defaults |-> Or(data.limits[i], 0, defaults[i])]
       IN  CASE service = "s3"      -> [moded EXCEPT !.overwrite = Or(@, "", "if-different")]
             [] service = "kinesis" -> [moded EXCEPT !.limits = fill(KinesisLimits)]
             [] service = "sqs"     -> [moded EXCEPT !.limits = fill(SQSLimits)]
             [] OTHER               -> moded

Completed(service, r) == [r EXCEPT !.data = DataDefaults(service, @)]

ResourceDefaults(resources) ==
  [s \in Services |-> [i \in DOMAIN resources[s] |-> Completed(s, resources[s][i])]]

CohortDefaults(cohorts) ==
  [i \in DOMAIN cohorts |-> [cohorts[i] EXCEPT !.retained = Or(@, 0, DefaultRetained)]]

ProfileDefaults(profiles) ==
  [n \in DOMAIN profiles |-> [profiles[n] EXCEPT !.cohorts = CohortDefaults(@)]]

ApplyDefaults(p) ==
  [p EXCEPT !.version = Or(@, "", NewProject.version),
            !.port = Or(@, 0, NewProject.port),
            !.timeout = Or(@, 0, NewProject.timeout),
            !.replayWorkers = Or(@, 0, NewProject.replayWorkers),
            !.resourceWorkers = Or(@, 0, NewProject.resourceWorkers),
            !.directory = Or(@, "", NewProject.directory),
            !.resources = ResourceDefaults(@),
            !.profiles = ProfileDefaults(@)]

-----------------------------------------------------------------------------
ScalarsValid(p) ==
  /\ p.schema = 1
  /\ p.region
  /\ p.account \in {"", "digits"}
  /\ p.version \in {"", "supported"}
  /\ p.port \in 0 .. 65535
  /\ p.replayWorkers \in 0 .. 32
  /\ p.resourceWorkers \in 0 .. 8
  /\ p.directory \in {"", ".floceed"}

UniqueNames(resources) ==
  /\ \A i \in DOMAIN resources : resources[i].name # ""
  /\ \A i, j \in DOMAIN resources : resources[i].name = resources[j].name => i = j

Limited(limits)   == \A i \in DOMAIN limits : limits[i] > 0
Unlimited(limits) == \A i \in DOMAIN limits : limits[i] = 0

(* The data of a bucket or of a table: bounded by every limit or by none.   *)
ObjectDataValid(data) ==
  data.enabled =>
    \/ data.mode \in {"", "bounded"} /\ Limited(data.limits)
    \/ data.mode = "full" /\ Unlimited(data.limits)

S3Valid(data) ==
  /\ ObjectDataValid(data)
  /\ data.enabled => data.overwrite \in {"", "if-different", "always", "never"}

(* Disabled data of a stream or of a queue is checked all the same.         *)
StreamDataValid(service, data) ==
  data # NoData =>
    /\ data.mode \in (IF service = "sqs" THEN {"bounded"} ELSE {"bounded", "full"})
    /\ \A i \in DOMAIN data.limits : data.limits[i] >= 0

(* A name stands for those of its kind: plain, a queue's, with a colon, a   *)
(* slash or a dot; a dot is valid in no name but that of a FIFO queue.      *)
DependencyName(name) == name \in {"res", "other", "default", "res.fifo"}

NameValid(service, name) ==
  CASE service \in {"sqs", "sns", "lambda"} -> DependencyName(name)
    [] service = "kinesis" -> DependencyName(name) /\ name # "res.fifo"
    [] service = "events"  -> DependencyName(name) /\ name # "default"
    [] service = "ssm"     -> name \in {"/res", "/a:b"}
    [] OTHER               -> name # ""

SuffixValid(service, suffix) ==
  suffix \in (CASE service = "secretsmanager" -> {"", "random"}
                [] service = "logs"           -> {"", "star"}
                [] OTHER                      -> {""})

NoRegionNeeded  == {"apigateway", "stepfunctions", "logs"}
NoAccountNeeded == {"apigateway"}
AnyPartition    == {"ssm", "apigateway", "stepfunctions", "logs"}

ArnValid(service, r) ==
  /\ r.arn.service = service
  /\ r.arn.form = ArnForm[service]
  /\ r.arn.name = r.name
  /\ SuffixValid(service, r.arn.suffix)
  /\ r.arn.region \/ service \in NoRegionNeeded
  /\ r.arn.account \/ service \in NoAccountNeeded
  /\ r.arn.partition \/ service \in AnyPartition

ResourcesValid(p) ==
  \A s \in Services :
    /\ UniqueNames(p.resources[s])
    /\ \A i \in DOMAIN p.resources[s] :
         LET r == p.resources[s][i]
         IN  CASE s = "s3"       -> S3Valid(r.data)
               [] s = "dynamodb" -> ObjectDataValid(r.data)
               [] OTHER          -> /\ NameValid(s, r.name)
                                    /\ ArnValid(s, r)
                                    /\ s \in {"kinesis", "sqs"} => StreamDataValid(s, r.data)

EnabledFull(data) == data.enabled /\ data.mode = "full"

HasFullData(p) ==
  \E s \in {"s3", "dynamodb", "kinesis"} : \E i \in DOMAIN p.resources[s] :
    EnabledFull(p.resources[s][i].data)

Configured(p, service) == {p.resources[service][i].name : i \in DOMAIN p.resources[service]}

RuleValid(p, rule) ==
  /\ rule.id > 0
  /\ rule.resource \in Configured(p, rule.service)
  /\ rule.action \in Actions
  /\ \/ rule.service = "dynamodb" /\ rule.kind = "dynamodb_attribute" /\ rule.path.parts # << >>
     \/ rule.service = "s3" /\ rule.kind = "s3_metadata" /\ rule.path.parts # << >>
     \/ rule.service = "s3" /\ rule.kind = "s3_text_body" /\ rule.path.parts = << >>
  /\ rule.action \in {"replace", "pseudonymize"} => rule.operand
  /\ TrimAlgorithm(rule.algorithm) \in {"", Algorithm[rule.action]}

Overlap(r, s) ==
  /\ r.service = s.service /\ r.resource = s.resource /\ r.kind = s.kind
  /\ NormalPath(r) = NormalPath(s)

CohortValid(p, cohort) ==
  /\ \E i \in DOMAIN p.resources.dynamodb :
       /\ p.resources.dynamodb[i].name = cohort.resource
       /\ EnabledFull(p.resources.dynamodb[i].data)
  /\ cohort.keyed /\ cohort.limit > 0 /\ cohort.retained >= 0
  /\ TrimAlgorithm(cohort.algorithm) \in {"", "cohort-rank/v1"}

ProfilesValid(p) ==
  \A n \in DOMAIN p.profiles :
    LET rules == p.profiles[n].rules  cohorts == p.profiles[n].cohorts
    IN  /\ n # ""
        /\ \A i \in DOMAIN rules : RuleValid(p, rules[i])
        /\ \A i, j \in DOMAIN rules :
             i # j => rules[i].id # rules[j].id /\ ~Overlap(rules[i], rules[j])
        /\ \A i \in DOMAIN cohorts : CohortValid(p, cohorts[i])
        /\ \A i, j \in DOMAIN cohorts : cohorts[i].resource = cohorts[j].resource => i = j

Validate(p) ==
  /\ ScalarsValid(p)
  /\ ResourcesValid(p)
  /\ HasFullData(p) => p.timeout > DefaultTimeout
  /\ ProfilesValid(p)

Checked(p) == IF Validate(p) THEN p ELSE Rejected

Decode(file) == Checked(ApplyDefaults(file))

(* A profile that needs a key needs the secret in the environment, too.     *)
ResolveFixtureProfile(p, name, secret) ==
  IF name = "" THEN IF p.profiles = << >> THEN [rules |-> {}, cohorts |-> {}] ELSE Rejected
  ELSE IF name \notin DOMAIN p.profiles THEN Rejected
  ELSE LET profile == p.profiles[name]
           keyed   == \/ profile.cohorts # << >>
                      \/ \E i \in DOMAIN profile.rules : profile.rules[i].action = "pseudonymize"
       IN  IF keyed /\ ~secret THEN Rejected ELSE NewEffectivePolicy(profile)
=============================================================================
