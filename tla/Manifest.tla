------------------------------ MODULE Manifest ------------------------------
(***************************************************************************)
(* The manifest of a bundle and its two readers: Validate of                *)
(* internal/model/model.go, which every command that writes or reads a      *)
(* bundle asks, and validate_bundle of runtime/replay.py, which stands      *)
(* between the bundle and the local Floci.  A snapshot says which resource  *)
(* it is of and how its structure names it; its dataset is none, or a       *)
(* record of its totals and its chunks, "listed" when the JSON has an array *)
(* of them and not null.                                                    *)
(***************************************************************************)
EXTENDS ProjectConfig

NoDataset == [format |-> ""]

Formats ==
  [s3 |-> {"s3-tar-gzip-v1"}, dynamodb |-> {"dynamodb-ndjson-v1", "dynamodb-ndjson-gzip-v1"},
   kinesis |-> {"kinesis-records-ndjson-v1"}, sqs |-> {"sqs-messages-ndjson-v1"}]

(* What the chunks hold together.                                           *)
Totals(chunks) ==
  LET sum[n \in 0 .. Len(chunks)] ==
        IF n = 0 THEN [records |-> 0, bytes |-> 0]
        ELSE [records |-> sum[n - 1].records + chunks[n].records,
              bytes   |-> sum[n - 1].bytes + chunks[n].bytes]
  IN  sum[Len(chunks)]

SameTotals(dataset) ==
  Totals(dataset.chunks) = [records |-> dataset.records, bytes |-> dataset.bytes]

(* The ARN of a structure against the resource it belongs to.               *)
StructureArnValid(s) ==
  LET arn == s.structure.arn
  IN  /\ arn.service = s.service
      /\ arn.form = ArnForm[s.service] /\ arn.name = s.resource.name
      /\ SuffixValid(s.service, arn.suffix)
      /\ s.service # "apigateway" => arn.region /\ arn.account
      /\ IF s.service = "logs"
         THEN [s.resource.arn EXCEPT !.suffix = ""] = [arn EXCEPT !.suffix = ""]
         ELSE s.resource.arn = arn

ValidateSnapshot(s) ==
  /\ s.structure.version = 1
  /\ s.structure.name # "" /\ s.structure.name = s.resource.name
  /\ CASE s.service = "s3"       -> s.structure.region
       [] s.service = "dynamodb" -> s.structure.keys
       [] OTHER                  -> StructureArnValid(s)

DatasetValid(s) ==
  s.dataset # NoDataset =>
    /\ s.service \in DOMAIN Formats /\ s.dataset.format \in Formats[s.service]
    /\ \A i \in DOMAIN s.dataset.chunks : s.service = "s3" => s.dataset.chunks[i].index
    /\ SameTotals(s.dataset)

Ungoverned == [profile |-> "", rules |-> << >>, cohorts |-> << >>]  \* no audit

AuditValid(governance) ==
  LET rules == governance.rules  cohorts == governance.cohorts
  IN  /\ governance.profile # ""
      /\ \A i \in DOMAIN rules :
           rules[i].id > 0 /\ rules[i].action \in Actions /\ rules[i].count \in Buckets
      /\ \A i, j \in DOMAIN rules : rules[i].id = rules[j].id => i = j
      /\ \A i \in DOMAIN cohorts :
           cohorts[i].eligible \in Buckets /\ cohorts[i].retained \in Buckets
      /\ \A i, j \in DOMAIN cohorts : cohorts[i].resource = cohorts[j].resource => i = j

(* Manifest.Validate.                                                       *)
ManifestValid(m) ==
  /\ m.schema \in 1 .. 3
  /\ m.account \in {"", "digits"}
  /\ \A i, j \in DOMAIN m.snapshots :
       m.snapshots[i].resource = m.snapshots[j].resource => i = j
  /\ \A i \in DOMAIN m.snapshots :
       ValidateSnapshot(m.snapshots[i]) /\ DatasetValid(m.snapshots[i])
  /\ m.governance # Ungoverned => AuditValid(m.governance)

-----------------------------------------------------------------------------
(* The colons in a name.                                                    *)
Colons(name) == IF name \in {"a:b", "/a:b"} THEN 1 ELSE 0

(* Mutant: the form before a name never splits.                             *)
PartsUnsplit(arn) == 6 + Colons(arn.name) + (IF arn.suffix = "star" THEN 1 ELSE 0)

(* How many parts an ARN has between its colons.                            *)
Parts(arn) ==
  6 + (IF arn.form \in {"function:", "secret:", "stateMachine:", "log-group:"} THEN 1 ELSE 0)
    + Colons(arn.name) + (IF arn.suffix = "star" THEN 1 ELSE 0)

(* The program asks for the parts it knows: six, or seven with a form that  *)
(* ends in a colon, but six of a secret, whose last begins with its name.   *)
ReplayArnValid(s) ==
  LET arn == s.structure.arn
      own == arn.form = ArnForm[s.service] /\ arn.name = s.resource.name
  IN  CASE s.service \in {"sqs", "sns", "kinesis", "events", "ssm"} ->
             Parts(arn) = 6 /\ arn.service = s.service /\ own
        [] s.service \in {"lambda", "stepfunctions"} ->
             Parts(arn) = 7 /\ arn.service = s.service /\ own
        [] s.service = "secretsmanager" ->
             Parts(arn) = 6 /\ arn.service = s.service /\ arn.form = "" /\ arn.name = s.resource.name
        [] s.service = "apigateway" -> arn.service = s.service /\ arn.name = s.resource.name
        [] s.service = "logs" -> Parts(arn) >= 7 /\ arn.service = s.service /\ own

ReplaySnapshotValid(s) ==
  /\ s.structure.version = 1
  /\ s.structure.name # "" /\ s.structure.name = s.resource.name
  /\ CASE s.service = "s3"       -> s.structure.region
       [] s.service = "dynamodb" -> s.structure.keys
       [] OTHER                  -> ReplayArnValid(s)

ReplayDatasetValid(s) ==
  s.dataset # NoDataset =>
    /\ s.dataset.format \in Formats[s.service] /\ s.dataset.listed
    /\ \A i \in DOMAIN s.dataset.chunks : s.service = "s3" => s.dataset.chunks[i].index
    /\ SameTotals(s.dataset)

ReplayAuditValid(governance) ==
  LET rules == governance.rules  cohorts == governance.cohorts
  IN  /\ governance.profile # ""
      /\ \A i \in DOMAIN rules :
           rules[i].id > 0 /\ rules[i].action \in Actions /\ rules[i].count \in Buckets
      /\ \A i \in DOMAIN rules : rules[i].id \notin {rules[j].id : j \in 1 .. i - 1}
      /\ \A i \in DOMAIN cohorts :
           cohorts[i].eligible \in Buckets /\ cohorts[i].retained \in Buckets
      /\ \A i \in DOMAIN cohorts : cohorts[i].resource \notin {cohorts[j].resource : j \in 1 .. i - 1}

(* validate_bundle.                                                         *)
ValidateBundle(m) ==
  /\ m.schema \in 1 .. 3
  /\ m.account = "digits"
  /\ \A i \in DOMAIN m.snapshots :
       ReplaySnapshotValid(m.snapshots[i]) /\ ReplayDatasetValid(m.snapshots[i])
  /\ m.governance # Ungoverned => ReplayAuditValid(m.governance)
=============================================================================
