------------------------ MODULE ResourceCaptureProofs ------------------------
(***************************************************************************)
(* Proofs about ResourceCapture, for any project files, items, shards,     *)
(* limits and producers: what a plan asks for is what the pull calls, a    *)
(* capture of records keeps its limits and misses nothing that a shard     *)
(* held, no raw value gets past the rules of its profile, and what writes, *)
(* loads, captures and replays a project agree on it.                      *)
(***************************************************************************)
EXTENDS ResourceCapture, FiniteSetTheorems, TLAPS

(* A pull works on the project that its file decodes to. *)
ProjectInv ==
  /\ file \in Files
  /\ phase # "idle" => project = Decode(file)
  /\ phase \notin {"idle", "failed"} => project # Rejected

LEMMA ProjectStep == ProjectInv /\ [Next]_vars => ProjectInv'
<1> SUFFICES ASSUME ProjectInv, [Next]_vars PROVE ProjectInv'
  OBVIOUS
<1>1. CASE Load
  BY <1>1 DEF Load, ProjectInv
<1>2. ASSUME UNCHANGED <<file, project>>, phase # "idle", phase # "failed"
      PROVE  ProjectInv'
  BY <1>2 DEF ProjectInv
<1>3. ASSUME UNCHANGED <<file, project, phase>>
      PROVE  ProjectInv'
  BY <1>3 DEF ProjectInv
<1>4. CASE Grant
  BY <1>3, <1>4 DEF Grant
<1>5. CASE Call
  BY <1>2, <1>3, <1>5 DEF Call, Refused, Fail
<1>6. CASE CaptureStructure
  BY <1>2, <1>6 DEF CaptureStructure
<1>7. CASE BeginRecords
  BY <1>2, <1>7 DEF BeginRecords
<1>8. CASE GetRecords
  BY <1>3, <1>8 DEF GetRecords
<1>9. CASE ReceiveMessage
  BY <1>3, <1>9 DEF ReceiveMessage
<1>10. CASE Commit
  BY <1>2, <1>10 DEF Commit, Drained, Reading
<1>11. CASE Install
  BY <1>2, <1>11 DEF Install
<1>12. CASE Replay
  BY <1>2, <1>12 DEF Replay
<1>13. ASSUME NEW name \in {"", "profile"}, NEW secret \in BOOLEAN, NEW item \in Items,
              CaptureObjects(name, secret, item)
       PROVE  ProjectInv'
  BY <1>2, <1>13 DEF CaptureObjects, CaptureGoverned, Fail
<1>14. CASE CallFails
  BY <1>2, <1>14 DEF CallFails, Fail
<1>15. CASE Done
  BY <1>3, <1>15 DEF Done, vars
<1>16. ASSUME NEW s \in Shards, Produce(s) PROVE ProjectInv'
  BY <1>3, <1>16 DEF Produce
<1>17. CASE UNCHANGED vars
  BY <1>3, <1>17 DEF vars
<1> QED
  BY <1>1, <1>4, <1>5, <1>6, <1>7, <1>8, <1>9, <1>10, <1>11, <1>12, <1>13, <1>14, <1>15,
     <1>16, <1>17 DEF Next, Pull

LEMMA ProjectInvariance == Spec => []ProjectInv
<1>1. Init => ProjectInv
  BY DEF Init, ProjectInv
<1> QED
  BY <1>1, ProjectStep, PTL DEF Spec

-----------------------------------------------------------------------------
(* The plan.  A pull calls what its plan asks for. *)
LEMMA TupleIsSequence ==
  /\ \A S : << >> \in Seq(S)
  /\ \A S : \A a \in S : <<a>> \in Seq(S)
  /\ \A S : \A a, b \in S : <<a, b>> \in Seq(S)
  /\ \A S : \A a, b, c \in S : <<a, b, c>> \in Seq(S)
  /\ \A S : \A a, b, c, d, e \in S : <<a, b, c, d, e>> \in Seq(S)
<1>1. \A S : << >> \in Seq(S)
  OBVIOUS
<1>2. ASSUME NEW S, NEW a \in S PROVE <<a>> \in Seq(S)
  OBVIOUS
<1>3. ASSUME NEW S, NEW a \in S, NEW b \in S PROVE <<a, b>> \in Seq(S)
  OBVIOUS
<1>4. ASSUME NEW S, NEW a \in S, NEW b \in S, NEW c \in S PROVE <<a, b, c>> \in Seq(S)
  OBVIOUS
<1>5. ASSUME NEW S, NEW a \in S, NEW b \in S, NEW c \in S, NEW d \in S, NEW e \in S
      PROVE  <<a, b, c, d, e>> \in Seq(S)
  OBVIOUS
<1> QED
  BY <1>1, <1>2, <1>3, <1>4, <1>5, Zenon

LEMMA CallsArePlanned == ASSUME NEW p PROVE Calls(p) \in Seq(Planned(p))
<1>0. ASSUME NEW S, NEW x \in Seq(S), NEW y \in Seq(S) PROVE x \o y \in Seq(S)
  OBVIOUS
<1>1. CASE Service(p) = "kinesis"
  <2> DEFINE data == Data(p)
             read == IF data.enabled
                     THEN <<"kinesis:ListShards", "kinesis:GetShardIterator", "kinesis:GetRecords">>
                     ELSE << >>
  <2>1. /\ Calls(p) = StreamProbes(data) \o ShardCalls(data)
        /\ Planned(p) = KinesisActions(data)
    BY <1>1 DEF Calls, Planned, StructureActions
  <2>2. StreamProbes(data) = <<"kinesis:DescribeStreamSummary">> \o read
    BY Zenon DEF StreamProbes
  <2>3. <<"kinesis:DescribeStreamSummary">> \in Seq(Planned(p))
    <3>1. "kinesis:DescribeStreamSummary" \in Planned(p)
      BY <2>1 DEF KinesisActions
    <3> QED
      BY <3>1, TupleIsSequence, Zenon
  <2>4. ShardCalls(data) \in Seq(Planned(p)) /\ read \in Seq(Planned(p))
    <3>1. CASE data.enabled
      <4>1. /\ "kinesis:ListShards" \in Planned(p)
            /\ "kinesis:GetShardIterator" \in Planned(p)
            /\ "kinesis:GetRecords" \in Planned(p)
        BY <2>1, <3>1 DEF KinesisActions
      <4> QED
        BY <3>1, <4>1, TupleIsSequence, Zenon DEF ShardCalls
    <3>2. CASE ~data.enabled
      BY <3>2, TupleIsSequence, Zenon DEF ShardCalls
    <3> QED
      BY <3>1, <3>2
  <2> HIDE DEF read, data
  <2> QED
    BY <1>0, <2>1, <2>2, <2>3, <2>4, Zenon
<1>2. CASE Service(p) = "sqs"
  <2> DEFINE data == Data(p)
  <2>1. /\ Calls(p) = QueueProbes(data) \o AddressCalls(data)
        /\ Planned(p) = SQSActions(data)
    BY <1>2 DEF Calls, Planned, StructureActions
  <2>2. QueueProbes(data) \in Seq(Planned(p)) /\ AddressCalls(data) \in Seq(Planned(p))
    <3>1. CASE data.enabled
      <4>1. "sqs:GetQueueUrl" \in Planned(p) /\ "sqs:ReceiveMessage" \in Planned(p)
        BY <2>1, <3>1 DEF SQSActions
      <4> QED
        BY <3>1, <4>1, TupleIsSequence, Zenon DEF QueueProbes, AddressCalls
    <3>2. CASE ~data.enabled
      BY <3>2, TupleIsSequence, Zenon DEF QueueProbes, AddressCalls
    <3> QED
      BY <3>1, <3>2
  <2> HIDE DEF data
  <2> QED
    BY <1>0, <2>1, <2>2, Zenon
<1>3. CASE Service(p) = "sns"
  <2>1. Calls(p) = TopicCalls /\ Planned(p) = StructureActions["sns"]
    BY <1>3 DEF Calls, Planned, StructureActions
  <2>2. "sns:ListSubscriptionsByTopic" \in Planned(p)
    BY <2>1 DEF StructureActions
  <2> QED
    BY <2>1, <2>2, TupleIsSequence, Zenon DEF TopicCalls
<1>4. CASE Service(p) = "events"
  <2>1. Calls(p) = EventBusCalls /\ Planned(p) = StructureActions["events"]
    BY <1>4 DEF Calls, Planned, StructureActions
  <2>2. /\ "events:ListRules" \in Planned(p)
        /\ "events:ListTargetsByRule" \in Planned(p)
    BY <2>1 DEF StructureActions
  <2> QED
    BY <2>1, <2>2, TupleIsSequence, Zenon DEF EventBusCalls
<1>5. CASE Service(p) = "lambda"
  <2>1. Calls(p) = FunctionCalls /\ Planned(p) = StructureActions["lambda"]
    BY <1>5 DEF Calls, Planned, StructureActions
  <2>2. /\ "lambda:GetFunctionConfiguration" \in Planned(p)
        /\ "lambda:ListAliases" \in Planned(p)
        /\ "lambda:ListEventSourceMappings" \in Planned(p)
    BY <2>1 DEF StructureActions
  <2> QED
    BY <2>1, <2>2, TupleIsSequence, Zenon DEF FunctionCalls
<1>6. CASE Service(p) = "secretsmanager"
  <2>1. Calls(p) = SecretCalls /\ Planned(p) = StructureActions["secretsmanager"]
    BY <1>6 DEF Calls, Planned, StructureActions
  <2>2. "secretsmanager:DescribeSecret" \in Planned(p)
    BY <2>1 DEF StructureActions
  <2> QED
    BY <2>1, <2>2, TupleIsSequence, Zenon DEF SecretCalls
<1>7. CASE Service(p) = "ssm"
  <2>1. Calls(p) = ParameterCalls /\ Planned(p) = StructureActions["ssm"]
    BY <1>7 DEF Calls, Planned, StructureActions
  <2>2. "ssm:DescribeParameters" \in Planned(p)
    BY <2>1 DEF StructureActions
  <2> QED
    BY <2>1, <2>2, TupleIsSequence, Zenon DEF ParameterCalls
<1>8. CASE Service(p) = "apigateway"
  <2>1. Calls(p) = ApiCalls /\ Planned(p) = StructureActions["apigateway"]
    BY <1>8 DEF Calls, Planned, StructureActions
  <2>2. "apigateway:GET" \in Planned(p)
    BY <2>1 DEF StructureActions
  <2> QED
    BY <2>1, <2>2, TupleIsSequence, Zenon DEF ApiCalls
<1>9. CASE Service(p) = "stepfunctions"
  <2>1. Calls(p) = StateMachineCalls /\ Planned(p) = StructureActions["stepfunctions"]
    BY <1>9 DEF Calls, Planned, StructureActions
  <2>2. /\ "states:DescribeStateMachine" \in Planned(p)
        /\ "states:ListTagsForResource" \in Planned(p)
    BY <2>1 DEF StructureActions
  <2> QED
    BY <2>1, <2>2, TupleIsSequence, Zenon DEF StateMachineCalls
<1>10. CASE Service(p) = "logs"
  <2>1. Calls(p) = LogGroupCalls /\ Planned(p) = StructureActions["logs"]
    BY <1>10 DEF Calls, Planned, StructureActions
  <2>2. /\ "logs:DescribeLogGroups" \in Planned(p)
        /\ "logs:ListTagsForResource" \in Planned(p)
    BY <2>1 DEF StructureActions
  <2> QED
    BY <2>1, <2>2, TupleIsSequence, Zenon DEF LogGroupCalls
<1>11. CASE Service(p) \notin {"kinesis", "sqs", "sns", "events", "lambda", "secretsmanager", "ssm",
                              "apigateway", "stepfunctions", "logs"}
  <2>1. Calls(p) = << >>
    BY <1>11 DEF Calls
  <2> QED
    BY <2>1, TupleIsSequence, Zenon
<1> QED
  BY <1>1, <1>2, <1>3, <1>4, <1>5, <1>6, <1>7, <1>8, <1>9, <1>10, <1>11

(* What is granted is what the plan of the file asks for, if anything, and  *)
(* what is still to be called is in the plan of the project.                *)
PlanInv ==
  /\ granted = {} \/ granted = Planned(Decode(file))
  /\ phase = "calling" => todo \in Seq(Planned(project))
  /\ denied => phase = "failed" /\ granted # Planned(Decode(file))

LEMMA PlanStep == ProjectInv /\ PlanInv /\ [Next]_vars => PlanInv'
<1> SUFFICES ASSUME ProjectInv, PlanInv, [Next]_vars PROVE PlanInv'
  OBVIOUS
<1>1. CASE Grant
  BY <1>1 DEF Grant, PlanInv
<1>2. CASE Load
  BY <1>2, CallsArePlanned DEF Load, PlanInv
<1>3. CASE Call
  <2>1. CASE Head(todo) \in granted
    <3>1. phase = "calling" /\ todo # << >> /\ todo \in Seq(Planned(project))
      BY <1>3 DEF Call, PlanInv
    <3>2. Tail(todo) \in Seq(Planned(project))
      BY <3>1
    <3> QED
      BY <1>3, <2>1, <3>1, <3>2 DEF Call, PlanInv
  <2>2. CASE Head(todo) \notin granted
    <3>1. phase = "calling" /\ todo # << >> /\ todo \in Seq(Planned(project))
      BY <1>3 DEF Call, PlanInv
    <3>2. Head(todo) \in Planned(project) /\ project = Decode(file)
      BY <3>1 DEF ProjectInv
    <3>3. granted # Planned(Decode(file))
      BY <2>2, <3>2
    <3> QED
      BY <1>3, <2>2, <3>3 DEF Call, Refused, Fail, PlanInv
  <2> QED
    BY <2>1, <2>2
<1>4. ASSUME UNCHANGED <<file, granted, denied>>, phase # "failed", phase' # "calling"
      PROVE  PlanInv'
  BY <1>4 DEF PlanInv
<1>5. ASSUME UNCHANGED <<file, granted, denied, phase, todo, project>>
      PROVE  PlanInv'
  BY <1>5 DEF PlanInv
<1>6. CASE CaptureStructure
  BY <1>4, <1>6 DEF CaptureStructure, Captured
<1>7. CASE BeginRecords
  BY <1>4, <1>7 DEF BeginRecords
<1>8. CASE GetRecords
  BY <1>5, <1>8 DEF GetRecords
<1>9. CASE ReceiveMessage
  BY <1>5, <1>9 DEF ReceiveMessage
<1>10. CASE Commit
  BY <1>4, <1>10 DEF Commit, Drained, Reading, Captured
<1>11. CASE Install
  BY <1>4, <1>11 DEF Install
<1>12. CASE Replay
  BY <1>4, <1>12 DEF Replay
<1>13. ASSUME NEW name \in {"", "profile"}, NEW secret \in BOOLEAN, NEW item \in Items,
              CaptureObjects(name, secret, item)
       PROVE  PlanInv'
  BY <1>4, <1>13 DEF CaptureObjects, CaptureGoverned, Captured, Fail
<1>14. CASE CallFails
  BY <1>4, <1>14 DEF CallFails, Fail
<1>15. CASE Done
  BY <1>5, <1>15 DEF Done, vars
<1>16. ASSUME NEW s \in Shards, Produce(s) PROVE PlanInv'
  BY <1>5, <1>16 DEF Produce
<1>17. CASE UNCHANGED vars
  BY <1>5, <1>17 DEF vars
<1> QED
  BY <1>1, <1>2, <1>3, <1>6, <1>7, <1>8, <1>9, <1>10, <1>11, <1>12, <1>13, <1>14, <1>15,
     <1>16, <1>17 DEF Next, Pull

(* Whoever is granted what the plan of a project asks for is refused no     *)
(* call by the pull of that project: Plan and Capture of the adapters of    *)
(* streams, queues and the structure-only services agree (kinesis.go,       *)
(* sqs.go and the others).  Buckets and tables have no calls here.          *)
THEOREM PlanIsEnough == Spec => []PlanSuffices
<1>1. Init => PlanInv
  BY DEF Init, PlanInv
<1>2. PlanInv => PlanSuffices
  BY DEF PlanInv, PlanSuffices
<1> QED
  BY <1>1, <1>2, PlanStep, ProjectInvariance, PTL DEF Spec

-----------------------------------------------------------------------------
(* What a project file decodes to. *)
LEMMA Fields ==
  ASSUME NEW f, DOMAIN f = DOMAIN NewProject
  PROVE  /\ ApplyDefaults(f).resources = ResourceDefaults(f.resources)
         /\ ApplyDefaults(f).profiles = ProfileDefaults(f.profiles)
<1>1. "resources" \in DOMAIN f /\ "profiles" \in DOMAIN f
  BY DEF NewProject
<1>2. ApplyDefaults(f).resources = ResourceDefaults(f.resources)
  BY <1>1 DEF ApplyDefaults
<1>3. ApplyDefaults(f).profiles = ProfileDefaults(f.profiles)
  BY <1>1 DEF ApplyDefaults
<1> QED
  BY <1>2, <1>3

LEMMA Defaulted ==
  ASSUME NEW f, WellTyped(f), NEW s \in Services
  PROVE  /\ DOMAIN ApplyDefaults(f).resources[s] = DOMAIN f.resources[s]
         /\ \A i \in DOMAIN f.resources[s] :
              ApplyDefaults(f).resources[s][i] = Completed(s, f.resources[s][i])
         /\ f.resources[s] = << >> => ApplyDefaults(f).resources[s] = << >>
<1>1. ApplyDefaults(f).resources = ResourceDefaults(f.resources)
  BY Fields DEF WellTyped
<1>2. ApplyDefaults(f).resources[s] = [i \in DOMAIN f.resources[s] |-> ResourceDefaults(f.resources)[s][i]]
  BY <1>1 DEF ResourceDefaults
<1>3. f.resources[s] = << >> => ApplyDefaults(f).resources[s] = << >>
  BY <1>2
<1> QED
  BY <1>1, <1>3 DEF ResourceDefaults

LEMMA Passed == ASSUME NEW f, Decode(f) # Rejected
                PROVE  Decode(f) = ApplyDefaults(f) /\ Validate(ApplyDefaults(f))
BY DEF Decode, Checked

LEMMA SomeService ==
  ASSUME NEW f, WellTyped(f)
  PROVE  /\ Service(ApplyDefaults(f)) \in Services
         /\ ApplyDefaults(f).resources[Service(ApplyDefaults(f))] # << >>
<1>1. PICK s \in Services : f.resources[s] # << >>
  BY Zenon DEF WellTyped
<1>2. f.resources[s] \in Seq(Resources(s))
  BY <1>1 DEF WellTyped
<1>3. 1 \in DOMAIN f.resources[s]
  BY <1>1, <1>2
<1>4. 1 \in DOMAIN ApplyDefaults(f).resources[s]
  BY <1>1, <1>3, Defaulted, Zenon
<1>5. ApplyDefaults(f).resources[s] # << >>
  BY <1>4
<1> QED
  BY <1>1, <1>5, Zenon DEF Service

LEMMA TheResource ==
  ASSUME NEW f, WellTyped(f), NEW s, s = Service(ApplyDefaults(f))
  PROVE  /\ f.resources[s][1] \in Resources(s)
         /\ 1 \in DOMAIN ApplyDefaults(f).resources[s]
         /\ Only(ApplyDefaults(f)) = Completed(s, f.resources[s][1])
<1>1. s \in Services /\ ApplyDefaults(f).resources[s] # << >>
  BY SomeService
<1>2. f.resources[s] \in Seq(Resources(s))
  BY <1>1 DEF WellTyped
<1>3. CASE Len(f.resources[s]) = 0
  <2>1. f.resources[s] = << >>
    BY <1>2, <1>3
  <2>2. ApplyDefaults(f).resources[s] = << >>
    BY <1>1, <2>1, Defaulted, Zenon
  <2> QED
    BY <1>1, <2>2
<1>4. CASE Len(f.resources[s]) # 0
  <2>1. 1 \in DOMAIN f.resources[s] /\ f.resources[s][1] \in Resources(s)
    BY <1>2, <1>4
  <2>2. /\ ApplyDefaults(f).resources[s][1] = Completed(s, f.resources[s][1])
        /\ 1 \in DOMAIN ApplyDefaults(f).resources[s]
    BY <1>1, <2>1, Defaulted, Zenon
  <2> QED
    BY <2>1, <2>2 DEF Only
<1> QED
  BY <1>3, <1>4

(* Recorded data has positive limits: a default replaces a zero, and a      *)
(* negative one is refused, whatever the mode.                              *)
LEMMA LimitsPositive ==
  ASSUME NEW f, WellTyped(f), Decode(f) # Rejected, Recorded(Decode(f))
  PROVE  /\ Data(Decode(f)).limits[1] \in Nat \ {0}
         /\ Data(Decode(f)).limits[2] \in Nat \ {0}
<1> DEFINE p == Decode(f)
           s == Service(p)
           data == f.resources[s][1].data
           defaults == IF s = "kinesis" THEN KinesisLimits ELSE SQSLimits
<1>1. p = ApplyDefaults(f) /\ Validate(p)
  BY Passed
<1>2. s \in {"kinesis", "sqs"} /\ Data(p).enabled
  BY DEF Recorded
<1>3. /\ f.resources[s][1] \in Resources(s)
      /\ Only(p) = Completed(s, f.resources[s][1])
  BY <1>1, TheResource
<1>4. data \in DataPolicies(s) /\ Data(p) = DataDefaults(s, data)
  BY <1>3 DEF Resources, Completed, Data
<1>5. data \in {NoData} \cup [enabled : BOOLEAN, mode : STRING, limits : Int \X Int]
  BY <1>2, <1>4 DEF DataPolicies
<1>6. data # NoData
  <2>1. NoData.enabled = FALSE
    BY DEF NoData
  <2>2. data = NoData => Data(p) = NoData
    BY <1>4 DEF DataDefaults
  <2> QED
    BY <1>2, <2>1, <2>2, Zenon
<1>7. Data(p).limits = [i \in DOMAIN defaults |-> Or(data.limits[i], 0, defaults[i])]
  BY <1>2, <1>4, <1>5, <1>6 DEF DataDefaults
<1>8. StreamDataValid(s, Data(p))
  <2>1. s \in Services /\ p.resources[s] # << >>
    BY <1>1, SomeService
  <2>2. p.resources[s][1] = Only(p) /\ 1 \in DOMAIN p.resources[s]
    BY <1>1, TheResource DEF Only
  <2> QED
    BY <1>1, <1>2, <2>1, <2>2 DEF Validate, ResourcesValid, Data
<1>9. Data(p) # NoData
  BY <1>2 DEF NoData
<1>10. defaults \in (Nat \ {0}) \X (Nat \ {0})
  BY LimitsAssumption
<1>11. \A i \in 1 .. 2 : Data(p).limits[i] >= 0
  BY <1>7, <1>8, <1>9, <1>10 DEF StreamDataValid
<1>12. \A i \in 1 .. 2 : Data(p).limits[i] \in Int /\ Data(p).limits[i] # 0
  <2>1. data.limits \in Int \X Int
    BY <1>5, <1>6
  <2> HIDE DEF defaults, data
  <2>2. \A i \in 1 .. 2 : Data(p).limits[i] = Or(data.limits[i], 0, defaults[i])
    BY <1>7, <1>10
  <2>3. \A i \in 1 .. 2 : data.limits[i] \in Int /\ defaults[i] \in Nat \ {0}
    BY <1>10, <2>1
  <2> QED
    BY <2>2, <2>3 DEF Or
<1> QED
  BY <1>11, <1>12

-----------------------------------------------------------------------------
(* What the artifact holds. *)
LEMMA RecordSizes == \A n \in Nat : RecordSize(n) \in 1 .. 2
BY DEF RecordSize

LEMMA Rows ==
  ASSUME NEW x, NEW a \in Int, NEW b \in Int, a <= b + 1
  PROVE  IsFiniteSet({x} \X (a .. b)) /\ Cardinality({x} \X (a .. b)) = b - a + 1
<1> DEFINE T == a .. b
           n == b - a + 1
<1>1. IsFiniteSet({x}) /\ Cardinality({x}) = 1
  BY FS_Singleton
<1>2. IsFiniteSet(T) /\ Cardinality(T) = n
  <2>1. (IF a > b THEN 0 ELSE b - a + 1) = b - a + 1
    OBVIOUS
  <2> QED
    BY <2>1, FS_Interval, Zenon
<1>3. n \in Int /\ 1 * n = n
  OBVIOUS
<1> HIDE DEF T, n
<1>4. IsFiniteSet({x} \X T) /\ Cardinality({x} \X T) = 1 * n
  BY <1>1, <1>2, FS_Product
<1> QED
  BY <1>3, <1>4 DEF T, n

LEMMA PageFinite ==
  ASSUME NEW s, taken[s] \in Nat, NEW k \in Nat
  PROVE  IsFiniteSet(BytesIn(s, k)) /\ BytesOf(s, k) \in Nat
<1>1. \A i \in 1 .. k : RecordSize(taken[s] + i) \in 1 .. 2
  BY RecordSizes
<1>2. \A i \in 1 .. k : {i} \X (0 .. RecordSize(taken[s] + i)) \subseteq (1 .. k) \X (0 .. 2)
  BY <1>1
<1>0. BytesIn(s, k) \subseteq (1 .. k) \X (0 .. 2)
  BY <1>2 DEF BytesIn
<1>3. IsFiniteSet(1 .. k) /\ IsFiniteSet(0 .. 2)
  <2>1. k \in Int /\ 1 \in Int /\ 0 \in Int /\ 2 \in Int
    OBVIOUS
  <2> QED
    BY <2>1, FS_Interval, Zenon
<1>4. IsFiniteSet((1 .. k) \X (0 .. 2))
  BY <1>3, FS_Product
<1>5. IsFiniteSet(BytesIn(s, k))
  BY <1>0, <1>4, FS_Subset
<1> QED
  BY <1>5, FS_CardinalityType DEF BytesOf

LEMMA PageBytes ==
  ASSUME NEW s, taken[s] \in Nat, NEW k \in Nat
  PROVE  /\ BytesOf(s, 0) = 0
         /\ BytesOf(s, k + 1) = BytesOf(s, k) + RecordSize(taken[s] + (k + 1)) + 1
<1>1. BytesIn(s, 0) = {}
  BY DEF BytesIn
<1> DEFINE L(i) == {i} \X (0 .. RecordSize(taken[s] + i))
           A == BytesIn(s, k)
           B == L(k + 1)
           width == RecordSize(taken[s] + (k + 1))
<1>2. \A i : \A x \in L(i) : x[1] = i
  OBVIOUS
<1>3. \A i : i \in 1 .. (k + 1) <=> i \in 1 .. k \/ i = k + 1
  OBVIOUS
<1>4. BytesIn(s, k + 1) = UNION {L(i) : i \in 1 .. (k + 1)} /\ A = UNION {L(i) : i \in 1 .. k}
  BY DEF BytesIn
<1>5. BytesIn(s, k + 1) = A \cup B /\ A \cap B = {}
  <2> HIDE DEF L, A
  <2>1. BytesIn(s, k + 1) = A \cup L(k + 1)
    BY <1>3, <1>4
  <2>2. A \cap L(k + 1) = {}
    BY <1>2, <1>4
  <2> QED
    BY <2>1, <2>2
<1>6. width \in Nat
  BY RecordSizes
<1>7. IsFiniteSet(B) /\ Cardinality(B) = width + 1
  <2> HIDE DEF width
  <2>1. IsFiniteSet({k + 1} \X (0 .. width)) /\ Cardinality({k + 1} \X (0 .. width)) = width - 0 + 1
    <3>1. 0 \in Int /\ width \in Int /\ 0 <= width + 1
      BY <1>6
    <3> QED
      BY <3>1, Rows, Zenon
  <2>2. width - 0 + 1 = width + 1
    BY <1>6
  <2> QED
    BY <2>1, <2>2, Zenon DEF width
<1>8. IsFiniteSet(A) /\ Cardinality(A) \in Nat
  BY PageFinite DEF BytesOf
<1> HIDE DEF width, A, B
<1>9. Cardinality(A \cup B) = Cardinality(A) + Cardinality(B) - Cardinality({}) /\ Cardinality({}) = 0
  BY <1>5, <1>7, <1>8, FS_Union, FS_EmptySet
<1> QED
  BY <1>1, <1>5, <1>6, <1>7, <1>8, <1>9 DEF BytesOf, A, width

(* What the records of each shard are together. *)
TakenOf(t) == UNION {{s} \X (1 .. t[s]) : s \in Shards}

LEMMA TakenFinite ==
  ASSUME NEW t \in [Shards -> 0 .. MaxWritten]
  PROVE  IsFiniteSet(TakenOf(t)) /\ Cardinality(TakenOf(t)) \in Nat
<1>1. TakenOf(t) \subseteq Shards \X (1 .. MaxWritten)
  BY ResourceCaptureAssumption DEF TakenOf
<1>2. IsFiniteSet(1 .. MaxWritten) /\ IsFiniteSet(Shards)
  BY ResourceCaptureAssumption, FS_Interval
<1>3. IsFiniteSet(Shards \X (1 .. MaxWritten))
  BY <1>2, FS_Product
<1>4. IsFiniteSet(TakenOf(t))
  BY <1>1, <1>3, FS_Subset
<1> QED
  BY <1>4, FS_CardinalityType

LEMMA TakenMore ==
  ASSUME NEW t \in [Shards -> 0 .. MaxWritten], NEW s \in Shards, NEW k \in Nat,
         t[s] + k <= MaxWritten
  PROVE  Cardinality(TakenOf([t EXCEPT ![s] = @ + k])) = Cardinality(TakenOf(t)) + k
<1> DEFINE u == [t EXCEPT ![s] = @ + k]
           A == TakenOf(t)
           B == {s} \X ((t[s] + 1) .. (t[s] + k))
<1>1. t[s] \in Nat /\ MaxWritten \in Nat
  BY ResourceCaptureAssumption
<1>2. TakenOf(u) = A \cup B
  <2>1. \A x : x \in TakenOf(u) <=> \E r \in Shards : x \in {r} \X (1 .. u[r])
    BY DEF TakenOf
  <2>2. \A x : x \in A <=> \E r \in Shards : x \in {r} \X (1 .. t[r])
    BY DEF TakenOf
  <2>3. \A r \in Shards : r # s => u[r] = t[r]
    OBVIOUS
  <2>4. {s} \X (1 .. u[s]) = ({s} \X (1 .. t[s])) \cup B
    BY <1>1
  <2> HIDE DEF A, B, u
  <2> QED
    BY <2>1, <2>2, <2>3, <2>4
<1>3. A \cap B = {}
  BY <1>1 DEF TakenOf
<1>4. IsFiniteSet(A) /\ Cardinality(A) \in Nat
  BY TakenFinite
<1>5. IsFiniteSet(B) /\ Cardinality(B) = k
  <2>1. t[s] + 1 \in Int /\ t[s] + k \in Int /\ t[s] + 1 <= t[s] + k + 1
        /\ (t[s] + k) - (t[s] + 1) + 1 = k
    BY <1>1
  <2> QED
    BY <2>1, Rows
<1> HIDE DEF A, B, u
<1>6. Cardinality(A \cup B) = Cardinality(A) + Cardinality(B) - Cardinality({}) /\ Cardinality({}) = 0
  BY <1>3, <1>4, <1>5, FS_Union, FS_EmptySet
<1>7. Cardinality(A \cup B) = Cardinality(A) + k
  BY <1>4, <1>5, <1>6
<1> QED
  BY <1>2, <1>7, Zenon DEF A, u

LEMMA TakenNothing == Cardinality(TakenOf(Nothing)) = 0
<1>1. TakenOf(Nothing) = {}
  BY DEF TakenOf, Nothing
<1> QED
  BY <1>1, FS_EmptySet

(* The least element of a set of numbers. *)
LEMMA LeastNumber ==
  ASSUME NEW S, S \subseteq Nat, S # {}
  PROVE  \E n \in S : \A m \in S : n <= m
<1>1. \E n \in S : \A m \in S : <<m, n>> \notin OpToRel(<, Nat)
  BY NatLessThanWellFounded, WFMin
<1>2. PICK n \in S : \A m \in S : <<m, n>> \notin {ss \in Nat \X Nat : ss[1] < ss[2]}
  BY <1>1 DEF OpToRel
<1>3. \A m \in S : ~(m < n)
  BY <1>2
<1> QED
  BY <1>3

LEMMA SomeFit ==
  ASSUME NEW s, NEW page \in Nat
  PROVE  \E i \in 0 .. page : FitsAll(s, i) /\ (i = page \/ ~FitsAll(s, i + 1))
<1>1. CASE FitsAll(s, page)
  BY <1>1
<1>2. CASE ~FitsAll(s, page)
  <2> DEFINE Bad == {i \in Nat : i <= page /\ ~FitsAll(s, i)}
  <2>1. PICK n \in Bad : \A i \in Bad : n <= i
    <3>1. Bad \subseteq Nat /\ Bad # {}
      BY <1>2
    <3> HIDE DEF Bad
    <3> QED
      BY <3>1, LeastNumber
  <2>2. n \in Nat /\ n <= page /\ ~FitsAll(s, n)
    BY <2>1
  <2>3. n # 0
    BY <2>2 DEF FitsAll
  <2>4. n - 1 \in 0 .. page /\ n - 1 \notin Bad /\ (n - 1) + 1 = n
    BY <2>1, <2>2, <2>3
  <2>5. FitsAll(s, n - 1)
    BY <2>4
  <2> QED
    BY <2>2, <2>4, <2>5, Zenon
<1> QED
  BY <1>1, <1>2

LEMMA PageWritten ==
  ASSUME NEW s, NEW page \in Nat, WritePage(s, page)
  PROVE  \E k \in 0 .. page : /\ FitsAll(s, k)
                              /\ taken' = [taken EXCEPT ![s] = @ + k]
                              /\ size' = size + BytesOf(s, k)
                              /\ full' = (k < page)
<1> DEFINE Chosen(i) == FitsAll(s, i) /\ (i = page \/ ~FitsAll(s, i + 1))
           k == CHOOSE i \in 0 .. page : Chosen(i)
<1>1. k \in 0 .. page /\ Chosen(k)
  BY SomeFit, Zenon
<1>2. /\ taken' = [taken EXCEPT ![s] = @ + k]
      /\ size' = size + BytesOf(s, k)
      /\ full' = (k < page)
  BY DEF WritePage
<1> HIDE DEF k
<1> QED
  BY <1>1, <1>2

LEMMA FitKept ==
  ASSUME NEW s, taken[s] \in Nat, NEW k \in Nat, FitsAll(s, k), size \in Nat,
         MaxBytes \in Nat \ {0}, size <= MaxBytes
  PROVE  size + BytesOf(s, k) <= MaxBytes
<1>1. CASE k = 0
  BY <1>1, PageBytes
<1>2. CASE k # 0
  <2>1. k - 1 \in Nat /\ (k - 1) + 1 = k /\ k \in 1 .. k
    BY <1>2
  <2>2. Fits(size + BytesOf(s, k - 1), taken[s] + k)
    BY <2>1 DEF FitsAll
  <2>3. BytesOf(s, k) = BytesOf(s, k - 1) + RecordSize(taken[s] + k) + 1
    BY <2>1, PageBytes
  <2>4. BytesOf(s, k - 1) \in Nat /\ RecordSize(taken[s] + k) \in Nat
    BY <2>1, PageFinite, RecordSizes
  <2> QED
    BY <2>2, <2>3, <2>4 DEF Fits
<1> QED
  BY <1>1, <1>2

-----------------------------------------------------------------------------
(* What is counted keeps its type, nothing is read before the pull begins,  *)
(* the artifact stays within the limits, and each shard that was left is as *)
(* it was left.                                                             *)
Counts ==
  /\ shard \in 1 .. Cardinality(Shards) + 1
  /\ written \in [Shards -> 0 .. MaxWritten] /\ closed \subseteq Shards
  /\ taken \in [Shards -> 0 .. MaxWritten] /\ \A s \in Shards : taken[s] <= written[s]
  /\ size \in Nat /\ full \in BOOLEAN
  /\ gaps \subseteq Shards /\ left \in [Shards -> 0 .. MaxWritten]

Started ==
  /\ phase \in {"idle", "calling"} =>
       shard = 1 /\ taken = Nothing /\ size = 0 /\ full = FALSE
  /\ Reading("sqs") /\ shard = Messages => taken = Nothing /\ size = 0
  /\ phase = "reading" => Recorded(project)

WithinLimits ==
  phase # "idle" /\ project # Rejected /\ Recorded(project) =>
    Records <= MaxRecords /\ size <= MaxBytes

Complete ==
  /\ Service(project) = "kinesis" =>
       \A s \in Shards \ gaps : s < shard => taken[s] = left[s]
  /\ CompleteStream => shard \notin Shards

RecordsInv == Counts /\ Started /\ WithinLimits /\ Complete

LEMMA RecordsInit == Init => RecordsInv
<1> SUFFICES ASSUME Init PROVE RecordsInv
  OBVIOUS
<1>0. Cardinality(Shards) \in Nat /\ MaxWritten \in Nat
  BY ResourceCaptureAssumption, FS_CardinalityType
<1>1. Nothing \in [Shards -> 0 .. MaxWritten]
  BY <1>0 DEF Nothing
<1>2. Counts
  <2>1. 1 \in 1 .. Cardinality(Shards) + 1 /\ 0 \in Nat
    BY <1>0
  <2>2. closed \subseteq Shards
    BY DEF Init
  <2>3. written = Nothing /\ taken = Nothing /\ left = Nothing /\ shard = 1 /\ size = 0
        /\ full = FALSE /\ gaps = {}
    BY DEF Init
  <2>4. \A s \in Shards : Nothing[s] <= Nothing[s]
    BY DEF Nothing
  <2> QED
    BY <1>1, <2>1, <2>2, <2>3, <2>4 DEF Counts
<1>3. Started
  BY DEF Init, Started, Reading
<1>4. WithinLimits
  BY DEF Init, WithinLimits
<1>5. Complete
  BY ResourceCaptureAssumption DEF Init, Complete, CompleteStream
<1> QED
  BY <1>2, <1>3, <1>4, <1>5 DEF RecordsInv

(* Nothing changes but how far the pull is. *)
LEMMA RecordsFrame ==
  ASSUME RecordsInv, UNCHANGED <<project, world, writer>>,
         phase' = phase \/ (phase # "idle" /\ phase' \notin {"idle", "calling", "reading"}),
         CompleteStream' => CompleteStream \/ shard \notin Shards
  PROVE  RecordsInv'
<1>0. UNCHANGED <<written, closed, shard, taken, size, full, gaps, left>>
  BY DEF world, writer
<1>1. Counts'
  BY <1>0 DEF RecordsInv, Counts
<1>2. Started'
  BY <1>0 DEF RecordsInv, Started, Reading
<1>3. WithinLimits'
  <2>1. Records' = Records /\ MaxRecords' = MaxRecords /\ MaxBytes' = MaxBytes
    BY <1>0 DEF Records, Taken, MaxRecords, MaxBytes
  <2> QED
    BY <1>0, <2>1 DEF RecordsInv, WithinLimits
<1>4. Complete'
  BY <1>0 DEF RecordsInv, Complete
<1> QED
  BY <1>1, <1>2, <1>3, <1>4 DEF RecordsInv

LEMMA RecordsLoad == ASSUME RecordsInv, ProjectInv, Load PROVE RecordsInv'
<1>0. shard' = 1 /\ taken' = Nothing /\ size' = 0 /\ full' = FALSE /\ gaps' = {} /\ left' = Nothing
      /\ written' = written /\ closed' = closed /\ project' = Decode(file)
      /\ phase' \in {"failed", "calling"} /\ file \in Files
  BY DEF Load, world, ProjectInv
<1>01. Cardinality(Shards) \in Nat /\ MaxWritten \in Nat
  BY ResourceCaptureAssumption, FS_CardinalityType
<1>1. Counts'
  <2>1. Nothing \in [Shards -> 0 .. MaxWritten]
    BY <1>01 DEF Nothing
  <2>2. \A s \in Shards : 0 <= written[s]
    BY <1>01 DEF RecordsInv, Counts
  <2>3. \A s \in Shards : Nothing[s] <= written[s]
    BY <2>2 DEF Nothing
  <2>4. 1 \in 1 .. Cardinality(Shards) + 1
    BY <1>01
  <2>5. Counts
    BY DEF RecordsInv
  <2> QED
    BY <1>0, <2>1, <2>3, <2>4, <2>5 DEF Counts
<1>2. Started'
  BY <1>0 DEF Started, Reading
<1>3. WithinLimits'
  <2> SUFFICES ASSUME project' # Rejected, Recorded(project')
               PROVE  Records' <= MaxRecords' /\ size' <= MaxBytes'
    BY DEF WithinLimits
  <2>1. MaxRecords' \in Nat /\ MaxBytes' \in Nat
    BY <1>0, FilesAssumption, LimitsPositive DEF MaxRecords, MaxBytes
  <2>2. Records' = 0
    BY <1>0, TakenNothing DEF Records, Taken, TakenOf
  <2> QED
    BY <1>0, <2>1, <2>2
<1>4. Complete'
  <2>1. ~CompleteStream'
    BY <1>0 DEF CompleteStream
  <2>2. \A s \in Shards : ~(s < 1)
    BY ResourceCaptureAssumption, <1>01
  <2> QED
    BY <1>0, <2>1, <2>2 DEF Complete
<1> QED
  BY <1>1, <1>2, <1>3, <1>4 DEF RecordsInv

LEMMA RecordsBegin == ASSUME RecordsInv, BeginRecords PROVE RecordsInv'
<1>0. UNCHANGED <<project, written, closed, shard, taken, size, full, gaps, left>>
      /\ phase = "calling" /\ phase' = "reading" /\ Recorded(project)
  BY DEF BeginRecords, world, writer
<1>1. Counts'
  BY <1>0 DEF RecordsInv, Counts
<1>2. Started'
  BY <1>0 DEF RecordsInv, Started, Reading
<1>3. WithinLimits'
  <2>1. Records' = Records /\ MaxRecords' = MaxRecords /\ MaxBytes' = MaxBytes
    BY <1>0 DEF Records, Taken, MaxRecords, MaxBytes
  <2> QED
    BY <1>0, <2>1 DEF RecordsInv, WithinLimits
<1>4. Complete'
  BY <1>0 DEF RecordsInv, Complete, CompleteStream
<1> QED
  BY <1>1, <1>2, <1>3, <1>4 DEF RecordsInv

LEMMA RecordsProduce ==
  ASSUME RecordsInv, NEW s \in Shards, Produce(s) PROVE RecordsInv'
<1>0. UNCHANGED <<phase, project, closed, shard, taken, size, full, gaps, left>>
      /\ written[s] < MaxWritten /\ written' = [written EXCEPT ![s] = @ + 1]
  BY DEF Produce, writer
<1>1. Counts'
  <2>1. written \in [Shards -> 0 .. MaxWritten] /\ taken \in [Shards -> 0 .. MaxWritten]
        /\ \A r \in Shards : taken[r] <= written[r]
    BY DEF RecordsInv, Counts
  <2>2. written' \in [Shards -> 0 .. MaxWritten] /\ \A r \in Shards : taken[r] <= written'[r]
    BY <1>0, <2>1, ResourceCaptureAssumption
  <2> QED
    BY <1>0, <2>2 DEF RecordsInv, Counts
<1>2. Started'
  BY <1>0 DEF RecordsInv, Started, Reading
<1>3. WithinLimits'
  <2>1. Records' = Records /\ MaxRecords' = MaxRecords /\ MaxBytes' = MaxBytes
    BY <1>0 DEF Records, Taken, MaxRecords, MaxBytes
  <2> QED
    BY <1>0, <2>1 DEF RecordsInv, WithinLimits
<1>4. Complete'
  <2>1. CompleteStream' = CompleteStream
    BY <1>0 DEF CompleteStream, Reached, Records, Taken, MaxRecords
  <2> QED
    BY <1>0, <2>1 DEF RecordsInv, Complete
<1> QED
  BY <1>1, <1>2, <1>3, <1>4 DEF RecordsInv

LEMMA LeastOfTwo ==
  ASSUME NEW a \in Int, NEW b \in Int
  PROVE  Min({a, b}) \in Int /\ Min({a, b}) <= a /\ Min({a, b}) <= b
<1>1. \E x \in {a, b} : \A y \in {a, b} : x <= y
  OBVIOUS
<1>2. Min({a, b}) \in {a, b} /\ \A y \in {a, b} : Min({a, b}) <= y
  BY <1>1, Zenon DEF Min
<1> QED
  BY <1>2

(* A page of a shard is written as far as it fits. *)
LEMMA RecordsWritten ==
  ASSUME RecordsInv, ProjectInv, NEW s \in Shards, NEW page \in Nat, WritePage(s, page),
         phase = "reading", UNCHANGED <<project, written, phase>>,
         page <= MaxRecords - Records, taken[s] + page <= written[s]
  PROVE  /\ taken' \in [Shards -> 0 .. MaxWritten] /\ \A r \in Shards : taken'[r] <= written[r]
         /\ size' \in Nat /\ full' \in BOOLEAN
         /\ \A r \in Shards : r # s => taken'[r] = taken[r]
         /\ page = 0 => taken' = taken
         /\ WithinLimits'
<1>1. taken \in [Shards -> 0 .. MaxWritten] /\ written \in [Shards -> 0 .. MaxWritten]
      /\ size \in Nat /\ MaxWritten \in Nat /\ \A r \in Shards : taken[r] <= written[r]
  BY ResourceCaptureAssumption DEF RecordsInv, Counts
<1>2. PICK k \in 0 .. page : /\ FitsAll(s, k)
                             /\ taken' = [taken EXCEPT ![s] = @ + k]
                             /\ size' = size + BytesOf(s, k)
                             /\ full' = (k < page)
  BY PageWritten
<1>3. k \in Nat /\ k <= page /\ taken[s] \in Nat /\ taken[s] + k <= written[s]
      /\ written[s] <= MaxWritten
  BY <1>1, <1>2
<1>4. taken' \in [Shards -> 0 .. MaxWritten] /\ \A r \in Shards : taken'[r] <= written[r]
  BY <1>1, <1>2, <1>3
<1>5. size' \in Nat /\ full' \in BOOLEAN
  BY <1>1, <1>2, <1>3, PageFinite
<1>6. /\ \A r \in Shards : r # s => taken'[r] = taken[r]
      /\ page = 0 => taken' = taken
  BY <1>1, <1>2, <1>3
<1>7. WithinLimits'
  <2>1. project # Rejected /\ Recorded(project) /\ project = Decode(file) /\ file \in Files
    BY DEF RecordsInv, Started, ProjectInv
  <2>2. Records <= MaxRecords /\ size <= MaxBytes
    BY <2>1 DEF RecordsInv, WithinLimits
  <2>3. MaxRecords \in Nat \ {0} /\ MaxBytes \in Nat \ {0}
    BY <2>1, FilesAssumption, LimitsPositive DEF MaxRecords, MaxBytes
  <2>4. Records' = Records + k /\ Records \in Nat
    <3>1. Cardinality(TakenOf([taken EXCEPT ![s] = @ + k])) = Cardinality(TakenOf(taken)) + k
      <4>1. k \in Nat /\ taken[s] + k <= MaxWritten
        BY <1>1, <1>3
      <4> QED
        BY <1>1, <4>1, TakenMore
    <3>2. Cardinality(TakenOf(taken)) \in Nat
      BY <1>1, TakenFinite
    <3>3. Records' = Cardinality(TakenOf(taken')) /\ Records = Cardinality(TakenOf(taken))
      BY DEF Records, Taken, TakenOf
    <3> QED
      BY <1>2, <3>1, <3>2, <3>3, Zenon
  <2>5. size' <= MaxBytes
    BY <1>1, <1>2, <1>3, <2>2, <2>3, FitKept
  <2>6. Records' <= MaxRecords
    BY <1>3, <2>3, <2>4
  <2>7. MaxRecords' = MaxRecords /\ MaxBytes' = MaxBytes
    BY DEF MaxRecords, MaxBytes
  <2> QED
    BY <2>5, <2>6, <2>7 DEF WithinLimits
<1> QED
  BY <1>4, <1>5, <1>6, <1>7

LEMMA RecordsRead == ASSUME RecordsInv, ProjectInv, GetRecords PROVE RecordsInv'
<1>0. /\ UNCHANGED <<project, written, closed, phase>>
      /\ phase = "reading" /\ Service(project) = "kinesis" /\ shard \in Shards /\ ~Reached
  BY DEF GetRecords, Reading, world
<1>1. PICK page \in 0 .. Min({Limit, Remaining(shard)}) :
        /\ WritePage(shard, page)
        /\ shard' = IF Leaves(shard, page) THEN shard + 1 ELSE shard
        /\ gaps' = IF page = 0 /\ Remaining(shard) > 0 THEN gaps \cup {shard} ELSE gaps
        /\ left' = IF shard' # shard THEN [left EXCEPT ![shard] = written[shard]] ELSE left
  BY Zenon DEF GetRecords
<1>2. /\ taken \in [Shards -> 0 .. MaxWritten] /\ written \in [Shards -> 0 .. MaxWritten]
      /\ \A r \in Shards : taken[r] <= written[r] /\ MaxWritten \in Nat
      /\ left \in [Shards -> 0 .. MaxWritten] /\ closed \subseteq Shards /\ gaps \subseteq Shards
      /\ Cardinality(Shards) \in Nat /\ Shards = 1 .. Cardinality(Shards)
  BY ResourceCaptureAssumption, FS_CardinalityType DEF RecordsInv, Counts
<1>3. page \in Nat /\ page <= MaxRecords - Records /\ taken[shard] + page <= written[shard]
  <2>1. project # Rejected /\ Recorded(project) /\ project = Decode(file) /\ file \in Files
    BY <1>0 DEF RecordsInv, Started, ProjectInv
  <2>2. MaxRecords \in Nat \ {0}
    BY <2>1, FilesAssumption, LimitsPositive DEF MaxRecords
  <2>3. Records \in Nat
    BY <1>2, TakenFinite DEF Records, Taken, TakenOf
  <2>4. Limit \in Int /\ Limit <= MaxRecords - Records
    <3>1. MaxRecords - Records \in Int /\ PageLimit \in Int /\ MaxRecords > 0
      BY <2>2, <2>3, ResourceCaptureAssumption
    <3>2. Limit = Min({MaxRecords - Records, PageLimit})
      BY <3>1 DEF Limit
    <3> HIDE DEF Limit
    <3> QED
      BY <3>1, <3>2, LeastOfTwo
  <2>5. Remaining(shard) \in Int /\ Remaining(shard) = written[shard] - taken[shard]
    BY <1>0, <1>2 DEF Remaining
  <2>6. /\ Min({Limit, Remaining(shard)}) \in Int /\ Min({Limit, Remaining(shard)}) <= Limit
        /\ Min({Limit, Remaining(shard)}) <= Remaining(shard)
    BY <2>4, <2>5, LeastOfTwo
  <2> QED
    BY <1>0, <1>1, <1>2, <2>2, <2>3, <2>4, <2>5, <2>6
<1>4. /\ taken' \in [Shards -> 0 .. MaxWritten] /\ \A r \in Shards : taken'[r] <= written[r]
      /\ size' \in Nat /\ full' \in BOOLEAN
      /\ \A r \in Shards : r # shard => taken'[r] = taken[r]
      /\ page = 0 => taken' = taken
      /\ WithinLimits'
  BY <1>0, <1>1, <1>3, RecordsWritten
<1>5. Counts'
  BY <1>0, <1>1, <1>2, <1>4 DEF Counts
<1>6. Started'
  BY <1>0 DEF RecordsInv, Started, Reading
<1>7. Complete'
  <2>1. ~CompleteStream'
    BY <1>0 DEF CompleteStream
  <2>2. \A s \in Shards \ gaps : s < shard => taken[s] = left[s]
    BY <1>0 DEF RecordsInv, Complete
  <2>3. CASE Leaves(shard, page)
    <3>1. shard' = shard + 1 /\ left' = [left EXCEPT ![shard] = written[shard]]
      BY <1>0, <1>1, <1>2, <2>3
    <3>2. shard \notin gaps' => taken'[shard] = written[shard]
      <4>1. CASE page = 0
        BY <1>0, <1>1, <1>2, <1>4, <4>1 DEF Remaining
      <4>2. CASE page # 0
        BY <2>3, <4>2 DEF Leaves
      <4> QED
        BY <4>1, <4>2
    <3>3. \A s \in Shards \ gaps' : s < shard' => taken'[s] = left'[s]
      BY <1>0, <1>1, <1>2, <1>4, <2>2, <3>1, <3>2
    <3> QED
      BY <2>1, <3>3 DEF Complete
  <2>4. CASE ~Leaves(shard, page)
    <3>1. shard' = shard /\ left' = left /\ gaps \subseteq gaps'
      BY <1>1, <2>4
    <3>2. \A s \in Shards \ gaps' : s < shard' => taken'[s] = left'[s]
      BY <1>0, <1>2, <1>4, <2>2, <3>1
    <3> QED
      BY <2>1, <3>2 DEF Complete
  <2> QED
    BY <2>3, <2>4
<1> QED
  BY <1>4, <1>5, <1>6, <1>7 DEF RecordsInv

LEMMA RecordsReceive == ASSUME RecordsInv, ProjectInv, ReceiveMessage PROVE RecordsInv'
<1>0. /\ UNCHANGED <<project, written, closed, phase, gaps, left>> /\ shard' = shard + 1
      /\ phase = "reading" /\ Service(project) = "sqs" /\ shard = Messages
  BY DEF ReceiveMessage, Reading, world
<1>1. PICK page \in 0 .. Min({Wanted, written[Messages]}) : WritePage(Messages, page)
  BY Zenon DEF ReceiveMessage
<1>2. /\ taken \in [Shards -> 0 .. MaxWritten] /\ written \in [Shards -> 0 .. MaxWritten]
      /\ MaxWritten \in Nat /\ left \in [Shards -> 0 .. MaxWritten] /\ closed \subseteq Shards
      /\ gaps \subseteq Shards /\ Cardinality(Shards) \in Nat /\ 1 \in Shards
      /\ shard + 1 \in 1 .. Cardinality(Shards) + 1
  <2>1. Cardinality(Shards) \in Nat /\ Shards = 1 .. Cardinality(Shards) /\ Shards # {}
    BY ResourceCaptureAssumption, FS_CardinalityType
  <2>2. Cardinality(Shards) # 0 /\ 1 \in Shards
    BY <2>1
  <2>3. shard + 1 \in 1 .. Cardinality(Shards) + 1
    BY <1>0, <2>1, <2>2 DEF Messages
  <2> QED
    BY <2>1, <2>2, <2>3, ResourceCaptureAssumption DEF RecordsInv, Counts
<1>3. taken = Nothing /\ taken[Messages] = 0 /\ Records = 0
  <2>1. taken = Nothing
    BY <1>0 DEF RecordsInv, Started, Reading
  <2> QED
    BY <1>2, <2>1, TakenNothing DEF Nothing, Messages, Records, Taken, TakenOf
<1>4. page \in Nat /\ page <= MaxRecords - Records /\ taken[Messages] + page <= written[Messages]
  <2>1. project # Rejected /\ Recorded(project) /\ project = Decode(file) /\ file \in Files
    BY <1>0 DEF RecordsInv, Started, ProjectInv
  <2>2. MaxRecords \in Nat \ {0}
    BY <2>1, FilesAssumption, LimitsPositive DEF MaxRecords
  <2>3. Wanted \in Int /\ Wanted <= MaxRecords
    BY <2>2, ResourceCaptureAssumption DEF Wanted
  <2>4. written[Messages] \in Int
    BY <1>2 DEF Messages
  <2>5. /\ Min({Wanted, written[Messages]}) \in Int /\ Min({Wanted, written[Messages]}) <= Wanted
        /\ Min({Wanted, written[Messages]}) <= written[Messages]
    BY <2>3, <2>4, LeastOfTwo
  <2> QED
    BY <1>1, <1>3, <2>2, <2>3, <2>4, <2>5
<1>5. /\ taken' \in [Shards -> 0 .. MaxWritten] /\ \A r \in Shards : taken'[r] <= written[r]
      /\ size' \in Nat /\ full' \in BOOLEAN /\ WithinLimits'
  BY <1>0, <1>1, <1>2, <1>4, RecordsWritten DEF Messages
<1>6. Counts'
  BY <1>0, <1>2, <1>5 DEF Counts
<1>7. Started'
  BY <1>0 DEF RecordsInv, Started, Reading, Messages
<1>8. Complete'
  BY <1>0 DEF Complete, CompleteStream
<1> QED
  BY <1>5, <1>6, <1>7, <1>8 DEF RecordsInv

LEMMA RecordsCommit == ASSUME RecordsInv, Commit PROVE RecordsInv'
<1>1. /\ UNCHANGED <<project, world, writer>> /\ phase' = "captured" /\ phase = "reading"
      /\ Drained
  BY DEF Commit, Captured, Drained, Reading
<1>2. CompleteStream' => shard \notin Shards
  BY <1>1 DEF CompleteStream, Drained, Reading, Reached, Records, Taken, MaxRecords, writer
<1> QED
  BY <1>1, <1>2, RecordsFrame

LEMMA RecordsStep == ASSUME ProjectInv, RecordsInv, [Next]_vars PROVE RecordsInv'
<1>1. ASSUME UNCHANGED <<project, world, writer, phase>> PROVE RecordsInv'
  <2>1. UNCHANGED <<taken, size, full>>
    BY <1>1 DEF writer
  <2>2. CompleteStream' = CompleteStream
    BY <1>1, <2>1 DEF CompleteStream, Reached, Records, Taken, MaxRecords
  <2> QED
    BY <1>1, <2>2, RecordsFrame
<1>2. ASSUME UNCHANGED <<project, world, writer>>, phase # "idle",
             phase' \notin {"idle", "calling", "reading", "captured", "installed", "accepted"}
      PROVE  RecordsInv'
  <2>1. ~CompleteStream'
    BY <1>2 DEF CompleteStream
  <2> QED
    BY <1>2, <2>1, RecordsFrame
<1>3. ASSUME UNCHANGED <<project, world, writer>>, phase \in {"captured", "installed"},
             phase' \in {"installed", "accepted"}
      PROVE  RecordsInv'
  <2>1. CompleteStream' => CompleteStream
    BY <1>3 DEF CompleteStream, Reached, Records, Taken, MaxRecords, writer
  <2> QED
    BY <1>3, <2>1, RecordsFrame
<1>4. CASE Grant
  BY <1>1, <1>4 DEF Grant
<1>5. CASE Load
  BY <1>5, RecordsLoad
<1>6. CASE Call
  BY <1>1, <1>2, <1>6 DEF Call, Refused, Fail
<1>7. CASE CaptureStructure
  <2>1. /\ UNCHANGED <<project, world, writer>> /\ phase # "idle" /\ phase' = "captured"
        /\ ~Data(project).enabled
    BY <1>7 DEF CaptureStructure, Captured
  <2>2. ~CompleteStream'
    BY <2>1 DEF CompleteStream, Recorded
  <2> QED
    BY <2>1, <2>2, RecordsFrame
<1>8. CASE BeginRecords
  BY <1>8, RecordsBegin
<1>9. CASE GetRecords
  BY <1>9, RecordsRead
<1>10. CASE ReceiveMessage
  BY <1>10, RecordsReceive
<1>11. CASE Commit
  BY <1>11, RecordsCommit
<1>12. CASE Install
  BY <1>2, <1>3, <1>12 DEF Install
<1>13. CASE Replay
  BY <1>2, <1>3, <1>13 DEF Replay
<1>14. ASSUME NEW name \in {"", "profile"}, NEW secret \in BOOLEAN, NEW item \in Items,
              CaptureObjects(name, secret, item)
       PROVE  RecordsInv'
  <2>1. /\ UNCHANGED <<project, world, writer>> /\ phase = "calling"
        /\ phase' \in {"captured", "failed"} /\ Service(project) \in {"s3", "dynamodb"}
    BY <1>14 DEF CaptureObjects, CaptureGoverned, Captured, Fail
  <2>2. ~CompleteStream'
    BY <2>1 DEF CompleteStream
  <2> QED
    BY <2>1, <2>2, RecordsFrame
<1>15. CASE CallFails
  BY <1>2, <1>15 DEF CallFails, Fail
<1>16. CASE Done
  BY <1>1, <1>16 DEF Done, vars, world, writer
<1>17. ASSUME NEW s \in Shards, Produce(s) PROVE RecordsInv'
  BY <1>17, RecordsProduce
<1>18. CASE UNCHANGED vars
  BY <1>1, <1>18 DEF vars, world, writer
<1> QED
  BY <1>4, <1>5, <1>6, <1>7, <1>8, <1>9, <1>10, <1>11, <1>12, <1>13, <1>14, <1>15, <1>16, <1>17,
     <1>18 DEF Next, Pull

LEMMA RecordsInvariance == Spec => []RecordsInv
BY RecordsInit, RecordsStep, ProjectInvariance, PTL DEF Spec

(* A bounded capture of records always has limits, also where the file has *)
(* none, and however calls and producers interleave no artifact, bounded   *)
(* or full, holds more records or bytes than the limits of its project     *)
(* (kinesis.go, sqs.go, ndjson.go, config.go applyDefaults).               *)
THEOREM LimitsAreHeld == Spec => []LimitsHeld
<1>1. ProjectInv /\ RecordsInv => LimitsHeld
  <2> SUFFICES ASSUME ProjectInv, RecordsInv, phase # "idle", project # Rejected, Recorded(project)
               PROVE  /\ MaxRecords > 0 /\ MaxBytes > 0
                      /\ Records <= MaxRecords /\ size <= MaxBytes
    BY DEF LimitsHeld
  <2>1. project = Decode(file) /\ file \in Files
    BY DEF ProjectInv
  <2>2. MaxRecords \in Nat \ {0} /\ MaxBytes \in Nat \ {0}
    BY <2>1, FilesAssumption, LimitsPositive DEF MaxRecords, MaxBytes
  <2> QED
    BY <2>2 DEF RecordsInv, WithinLimits
<1> QED
  BY <1>1, ProjectInvariance, RecordsInvariance, PTL

(* A stream captured below its limits holds all that every shard held when *)
(* the capture went on to the next one; only a shard that answered with an *)
(* empty page before its end may lack records (kinesis.go captureRecords). *)
THEOREM NoRecordIsMissed == Spec => []NothingMissed
<1>1. RecordsInv => NothingMissed
  <2> SUFFICES ASSUME RecordsInv, CompleteStream, NEW s \in Shards \ gaps PROVE taken[s] = left[s]
    BY DEF NothingMissed
  <2>1. shard \notin Shards /\ Service(project) = "kinesis"
    BY DEF RecordsInv, Complete, CompleteStream
  <2>2. Shards = 1 .. Cardinality(Shards) /\ Cardinality(Shards) \in Nat
    BY ResourceCaptureAssumption, FS_CardinalityType
  <2>3. s < shard
    BY <2>1, <2>2 DEF RecordsInv, Counts
  <2> QED
    BY <2>1, <2>3 DEF RecordsInv, Complete
<1> QED
  BY <1>1, RecordsInvariance, PTL

Phases ==
  /\ phase \in {"idle", "calling", "reading", "captured", "installed", "failed", "invalid",
                "accepted", "refused"}
  /\ denied \in BOOLEAN

LEMMA PhasesStep == Phases /\ [Next]_vars => Phases'
<1> SUFFICES ASSUME Phases, [Next]_vars PROVE Phases'
  OBVIOUS
<1> USE DEF Phases
<1>1. ASSUME UNCHANGED <<phase, denied>> PROVE Phases'
  BY <1>1
<1>2. ASSUME phase' \in {"calling", "reading", "captured", "installed", "failed", "invalid",
                         "accepted", "refused"},
             denied' = denied \/ denied' = TRUE
      PROVE  Phases'
  BY <1>2
<1>3. CASE Load \/ Call \/ CaptureStructure \/ BeginRecords
  BY <1>1, <1>2, <1>3 DEF Load, Call, Refused, Fail, CaptureStructure, Captured, BeginRecords
<1>4. CASE GetRecords \/ ReceiveMessage
  BY <1>1, <1>4 DEF GetRecords, ReceiveMessage
<1>5. CASE Commit \/ Install \/ Replay
  BY <1>1, <1>2, <1>5 DEF Commit, Captured, Install, Replay
<1>6. ASSUME NEW name \in {"", "profile"}, NEW secret \in BOOLEAN, NEW item \in Items,
             CaptureObjects(name, secret, item)
      PROVE  Phases'
  BY <1>2, <1>6 DEF CaptureObjects, CaptureGoverned, Captured, Fail
<1>7. CASE Grant \/ CallFails \/ Done \/ UNCHANGED vars
  BY <1>1, <1>2, <1>7 DEF Grant, CallFails, Fail, Done, vars
<1>8. ASSUME NEW s \in Shards, Produce(s) PROVE Phases'
  BY <1>1, <1>8 DEF Produce
<1> QED
  BY <1>3, <1>4, <1>5, <1>6, <1>7, <1>8 DEF Next, Pull

(* Each variable keeps its type, no shard gives more records than it holds, *)
(* and nothing is granted but what the plan of the file asks for.           *)
THEOREM TypesAreCorrect == Spec => []TypeOK
<1>1. Init => Phases /\ PlanInv
  BY DEF Init, Phases, PlanInv
<1>2. Phases /\ PlanInv /\ RecordsInv => TypeOK
  BY DEF Phases, PlanInv, RecordsInv, Counts, TypeOK
<1> QED
  BY <1>1, <1>2, PhasesStep, PlanStep, ProjectInvariance, RecordsInvariance, PTL DEF Spec

-----------------------------------------------------------------------------
(* The fixture profiles: defaults change no rule, and normalising a rule or *)
(* a cohort changes nothing but its path and its algorithm.                 *)
LEMMA ProfileFields ==
  ASSUME NEW f, WellTyped(f), NEW n \in DOMAIN f.profiles
  PROVE  /\ DOMAIN ApplyDefaults(f).profiles = DOMAIN f.profiles
         /\ f.profiles[n] \in FixtureProfiles
         /\ ApplyDefaults(f).profiles[n].rules = f.profiles[n].rules
         /\ ApplyDefaults(f).profiles[n].cohorts = CohortDefaults(f.profiles[n].cohorts)
<1>1. ApplyDefaults(f).profiles = ProfileDefaults(f.profiles)
  BY Fields DEF WellTyped
<1>2. f.profiles[n] \in FixtureProfiles
  BY DEF WellTyped
<1> DEFINE c == CohortDefaults(f.profiles[n].cohorts)
<1>3. ApplyDefaults(f).profiles[n] = [f.profiles[n] EXCEPT !.cohorts = c]
  BY <1>1 DEF ProfileDefaults
<1>4. DOMAIN ApplyDefaults(f).profiles = DOMAIN f.profiles
  BY <1>1 DEF ProfileDefaults
<1> HIDE DEF c
<1>5. ApplyDefaults(f).profiles[n].rules = f.profiles[n].rules /\ ApplyDefaults(f).profiles[n].cohorts = c
  BY <1>2, <1>3 DEF FixtureProfiles
<1> QED
  BY <1>2, <1>4, <1>5, Zenon DEF c

LEMMA RuleNormal ==
  ASSUME NEW rule \in GovernanceRules
  PROVE  /\ NormalRule(rule).action = rule.action
         /\ NormalRule(rule).id = rule.id
         /\ NormalRule(rule).service = rule.service
         /\ NormalRule(rule).resource = rule.resource
         /\ NormalRule(rule).path = NormalPath(rule)
         /\ NormalRule(rule).algorithm =
              IF TrimAlgorithm(rule.algorithm) = "" /\ rule.action \in Actions
              THEN Algorithm[rule.action] ELSE TrimAlgorithm(rule.algorithm)
BY DEF NormalRule, GovernanceRules

LEMMA CohortNormal ==
  ASSUME NEW cohort \in GovernanceCohorts
  PROVE  LET given == [cohort EXCEPT !.retained = Or(@, 0, DefaultRetained)]
         IN  /\ given.algorithm = cohort.algorithm
             /\ NormalCohort(given).resource = cohort.resource
             /\ NormalCohort(given).algorithm =
                  IF TrimAlgorithm(cohort.algorithm) = "" THEN "cohort-rank/v1" ELSE cohort.algorithm
<1> DEFINE given == [cohort EXCEPT !.retained = Or(@, 0, DefaultRetained)]
<1>1. given.algorithm = cohort.algorithm /\ given.resource = cohort.resource
      /\ DOMAIN given = {"resource", "keyed", "limit", "retained", "algorithm"}
  BY DEF GovernanceCohorts
<1> HIDE DEF given
<1>2. /\ NormalCohort(given).resource = cohort.resource
      /\ NormalCohort(given).algorithm =
           IF TrimAlgorithm(cohort.algorithm) = "" THEN "cohort-rank/v1" ELSE cohort.algorithm
  BY <1>1 DEF NormalCohort
<1> QED
  BY <1>1, <1>2 DEF given

(* What config.go lets through compiles to a policy.                        *)
LEMMA ProfilesCompile ==
  ASSUME NEW f, WellTyped(f), Decode(f) # Rejected, NEW n \in DOMAIN f.profiles
  PROVE  ResolveFixtureProfile(Decode(f), n, TRUE) # Rejected
<1> DEFINE p == ApplyDefaults(f)
           rules == f.profiles[n].rules
           cohorts == f.profiles[n].cohorts
           governing == [i \in DOMAIN p.profiles[n].rules |-> NormalRule(p.profiles[n].rules[i])]
           keeping == [i \in DOMAIN p.profiles[n].cohorts |-> NormalCohort(p.profiles[n].cohorts[i])]
<1>1. Decode(f) = p /\ ProfilesValid(p)
  BY Passed DEF Validate
<1>2. /\ DOMAIN p.profiles = DOMAIN f.profiles
      /\ p.profiles[n].rules = rules
      /\ p.profiles[n].cohorts = CohortDefaults(cohorts)
      /\ rules \in Seq(GovernanceRules) /\ cohorts \in Seq(GovernanceCohorts)
  BY ProfileFields DEF FixtureProfiles
<1>3. n # "" /\ n \in DOMAIN p.profiles
  BY <1>1, <1>2 DEF ProfilesValid
<1>4. ASSUME NEW i \in DOMAIN governing
      PROVE  governing[i].action \in Actions /\ governing[i].algorithm = Algorithm[governing[i].action]
  <2>1. i \in DOMAIN rules /\ rules[i] \in GovernanceRules /\ governing[i] = NormalRule(rules[i])
    BY <1>2
  <2>2. RuleValid(p, rules[i])
    BY <1>1, <1>2, <1>3, <2>1 DEF ProfilesValid
  <2> HIDE DEF p, rules, governing
  <2>3. /\ governing[i].action = rules[i].action
        /\ governing[i].algorithm =
             IF TrimAlgorithm(rules[i].algorithm) = "" /\ rules[i].action \in Actions
             THEN Algorithm[rules[i].action] ELSE TrimAlgorithm(rules[i].algorithm)
    BY <2>1, RuleNormal
  <2> QED
    BY <2>2, <2>3 DEF RuleValid
<1>5. ASSUME NEW i \in DOMAIN keeping
      PROVE  keeping[i].algorithm = "cohort-rank/v1"
  <2>1. /\ i \in DOMAIN cohorts /\ cohorts[i] \in GovernanceCohorts
        /\ p.profiles[n].cohorts[i] = [cohorts[i] EXCEPT !.retained = Or(@, 0, DefaultRetained)]
        /\ keeping[i] = NormalCohort(p.profiles[n].cohorts[i]) /\ i \in DOMAIN p.profiles[n].cohorts
    BY <1>2 DEF CohortDefaults
  <2>2. CohortValid(p, p.profiles[n].cohorts[i])
    BY <1>1, <1>3, <2>1 DEF ProfilesValid
  <2> HIDE DEF p, cohorts, keeping
  <2>3. /\ p.profiles[n].cohorts[i].algorithm = cohorts[i].algorithm
        /\ keeping[i].algorithm =
           IF TrimAlgorithm(cohorts[i].algorithm) = "" THEN "cohort-rank/v1" ELSE cohorts[i].algorithm
    BY <2>1, CohortNormal
  <2> QED
    BY <2>2, <2>3 DEF CohortValid, TrimAlgorithm
<1>6. NewEffectivePolicy(p.profiles[n]) = [rules |-> Range(governing), cohorts |-> Range(keeping)]
  <2> HIDE DEF p
  <2> QED
    BY <1>4, <1>5 DEF NewEffectivePolicy
<1>7. NewEffectivePolicy(p.profiles[n]) # Rejected
  BY <1>6 DEF Rejected
<1>8. ResolveFixtureProfile(p, n, TRUE) = NewEffectivePolicy(p.profiles[n])
  <2> HIDE DEF p
  <2> QED
    BY <1>3 DEF ResolveFixtureProfile
<1> QED
  BY <1>1, <1>7, <1>8

-----------------------------------------------------------------------------
(***************************************************************************)
(* The rules of a profile and the items they govern.  How an item is       *)
(* governed is a recursive function over the order of the rules; what it   *)
(* computes is shown by a least counterexample.                            *)
(***************************************************************************)
(* Governing an item rule by rule.                                          *)
Governing(item, order, g) ==
  g = [n \in 0 .. Len(order) |-> IF n = 0 THEN Raw(item) ELSE Apply(g[n - 1], order[n])]

LEMMA GoverningExists ==
  ASSUME NEW item, NEW order, Len(order) \in Nat
  PROVE  \E g : Governing(item, order, g)
<1> DEFINE Serves(g, m) == /\ g = [n \in 0 .. m |-> g[n]]
                           /\ g[0] = Raw(item)
                           /\ \A n \in 1 .. m : g[n] = Apply(g[n - 1], order[n])
           Bad == {m \in Nat : ~\E g : Serves(g, m)}
<1>1. Bad = {}
  <2> SUFFICES ASSUME Bad # {} PROVE FALSE
    OBVIOUS
  <2>1. PICK m \in Bad : \A k \in Bad : m <= k
    <3>1. Bad \subseteq Nat
      OBVIOUS
    <3> HIDE DEF Bad
    <3> QED
      BY <3>1, LeastNumber
  <2>2. m \in Nat /\ ~\E g : Serves(g, m)
    BY <2>1
  <2>3. CASE m = 0
    <3> DEFINE g == [n \in 0 .. 0 |-> Raw(item)]
    <3>1. Serves(g, 0)
      OBVIOUS
    <3> HIDE DEF g, Serves
    <3> QED
      BY <2>2, <2>3, <3>1
  <2>4. CASE m # 0
    <3>1. m - 1 \in Nat /\ ~(m <= m - 1)
      BY <2>2, <2>4
    <3>2. PICK h : Serves(h, m - 1)
      BY <2>1, <3>1
    <3> DEFINE g == [n \in 0 .. m |-> IF n = m THEN Apply(h[m - 1], order[m]) ELSE h[n]]
    <3>3. \A n \in 0 .. m : g[n] = IF n = m THEN Apply(h[m - 1], order[m]) ELSE h[n]
      OBVIOUS
    <3>4. g = [n \in 0 .. m |-> g[n]]
      OBVIOUS
    <3> HIDE DEF g
    <3>5. g[0] = Raw(item)
      <4>1. 0 \in 0 .. m /\ 0 # m
        BY <2>2, <2>4
      <4>2. h[0] = Raw(item)
        BY <3>2
      <4> QED
        BY <3>3, <4>1, <4>2, Zenon
    <3>6. ASSUME NEW n \in 1 .. m PROVE g[n] = Apply(g[n - 1], order[n])
      <4>1. n \in 0 .. m /\ n - 1 \in 0 .. m /\ n - 1 # m
        BY <2>2, <3>6
      <4>2. CASE n = m
        BY <3>3, <4>1, <4>2
      <4>3. CASE n # m
        <5>1. n \in 1 .. (m - 1)
          BY <2>2, <3>6, <4>3
        <5> QED
          BY <3>2, <3>3, <4>1, <4>3, <5>1
      <4> QED
        BY <4>2, <4>3
    <3>7. Serves(g, m)
      BY <3>4, <3>5, <3>6
    <3> HIDE DEF Serves
    <3> QED
      BY <2>2, <3>7
  <2> QED
    BY <2>3, <2>4
<1>2. PICK g : Serves(g, Len(order))
  BY <1>1
<1>3. g = [n \in 0 .. Len(order) |-> IF n = 0 THEN Raw(item) ELSE Apply(g[n - 1], order[n])]
  <2>1. \A n \in 0 .. Len(order) : n # 0 => n \in 1 .. Len(order)
    OBVIOUS
  <2>2. \A n \in 0 .. Len(order) : g[n] = IF n = 0 THEN Raw(item) ELSE Apply(g[n - 1], order[n])
    BY <1>2, <2>1
  <2> QED
    BY <1>2, <2>2
<1> QED
  BY <1>3 DEF Governing

LEMMA GovernedByOrder ==
  ASSUME NEW item, NEW order, Len(order) \in Nat
  PROVE  \E g : Governing(item, order, g) /\ GovernItem(item, order) = g[Len(order)]
<1> DEFINE g == CHOOSE g : Governing(item, order, g)
<1>1. Governing(item, order, g)
  BY GoverningExists, Zenon
<1>2. GovernItem(item, order) = g[Len(order)]
  BY Zenon DEF GovernItem, Governing
<1> QED
  BY <1>1, <1>2, Zenon

ScalarLeaves == [type : STRING, by : Nat]

WellGoverned(g) ==
  /\ DOMAIN g = {"item", "applied", "failed"}
  /\ g.item \in [DOMAIN g.item -> ScalarLeaves]
  /\ g.failed \in BOOLEAN

(* A rule that applies leaves its mark or nothing where its path leads, and *)
(* touches nothing else.                                                    *)
LEMMA RuleApplied ==
  ASSUME NEW g, WellGoverned(g), NEW rule, rule.id \in Nat, ~Apply(g, rule).failed
  PROVE  /\ ~g.failed
         /\ WellGoverned(Apply(g, rule))
         /\ DOMAIN Apply(g, rule).item \subseteq DOMAIN g.item
         /\ \A leaf \in DOMAIN Apply(g, rule).item :
              \/ leaf = rule.path.parts /\ Apply(g, rule).item[leaf].by = rule.id
              \/ /\ Apply(g, rule).item[leaf] = g.item[leaf]
                 /\ rule.path.spelled = "plain" => leaf # rule.path.parts
<1> DEFINE path == rule.path.parts
           item == g.item
<1>1. ~g.failed
  BY DEF Apply
<1>2. CASE rule.path.spelled # "plain"
  BY <1>1, <1>2 DEF Apply
<1>3. CASE rule.path.spelled = "plain" /\ path \notin DOMAIN item
  <2>1. Apply(g, rule) = g
    <3>1. CASE \E leaf \in DOMAIN item : IsStrictPrefix(path, leaf)
      <4>1. Apply(g, rule) = [g EXCEPT !.failed = TRUE]
        BY <1>1, <1>3, <3>1 DEF Apply
      <4> QED
        BY <4>1 DEF WellGoverned
    <3>2. CASE ~\E leaf \in DOMAIN item : IsStrictPrefix(path, leaf)
      BY <1>1, <1>3, <3>2 DEF Apply
    <3> QED
      BY <3>1, <3>2
  <2> QED
    BY <1>1, <1>3, <2>1
<1>4. CASE rule.path.spelled = "plain" /\ path \in DOMAIN item
  <2>1. ~\E leaf \in DOMAIN item : IsStrictPrefix(path, leaf)
    <3> SUFFICES ASSUME \E leaf \in DOMAIN item : IsStrictPrefix(path, leaf) PROVE FALSE
      OBVIOUS
    <3>1. Apply(g, rule) = [g EXCEPT !.failed = TRUE]
      BY <1>1, <1>4 DEF Apply
    <3> QED
      BY <3>1 DEF WellGoverned
  <2>2. CASE rule.action = "omit"
    <3> DEFINE rest == Restrict(item, DOMAIN item \ {path})
    <3>1. Apply(g, rule) = [g EXCEPT !.item = rest, !.applied = @ \cup {rule.id}]
      BY <1>1, <1>4, <2>1, <2>2 DEF Apply
    <3>2. /\ DOMAIN rest = DOMAIN item \ {path}
          /\ \A leaf \in DOMAIN rest : rest[leaf] = item[leaf]
          /\ rest \in [DOMAIN rest -> ScalarLeaves]
      BY DEF Restrict, WellGoverned
    <3> HIDE DEF rest
    <3>3. Apply(g, rule).item = rest /\ DOMAIN Apply(g, rule) = DOMAIN g /\ Apply(g, rule).failed = g.failed
      BY <3>1 DEF WellGoverned
    <3> QED
      BY <1>1, <3>2, <3>3 DEF WellGoverned
  <2>3. CASE rule.action # "omit" /\ item[path].type # "S"
    <3>1. Apply(g, rule) = [g EXCEPT !.failed = TRUE]
      BY <1>1, <1>4, <2>1, <2>3 DEF Apply
    <3> QED
      BY <3>1 DEF WellGoverned
  <2>4. CASE rule.action # "omit" /\ item[path].type = "S"
    <3> DEFINE marked == [item EXCEPT ![path].by = rule.id]
    <3>1. Apply(g, rule) = [g EXCEPT !.item = marked, !.applied = @ \cup {rule.id}]
      BY <1>1, <1>4, <2>1, <2>4 DEF Apply
    <3>2. /\ DOMAIN marked = DOMAIN item
          /\ \A leaf \in DOMAIN marked : leaf # path => marked[leaf] = item[leaf]
          /\ marked[path].by = rule.id
          /\ marked \in [DOMAIN marked -> ScalarLeaves]
      BY <1>4 DEF WellGoverned, ScalarLeaves
    <3> HIDE DEF marked
    <3>3. Apply(g, rule).item = marked /\ DOMAIN Apply(g, rule) = DOMAIN g /\ Apply(g, rule).failed = g.failed
      BY <3>1 DEF WellGoverned
    <3> QED
      BY <1>1, <1>4, <3>2, <3>3 DEF WellGoverned
  <2> QED
    BY <2>2, <2>3, <2>4
<1> QED
  BY <1>2, <1>3, <1>4

Marked(g, order, m) ==
  \A j \in 1 .. m :
    order[j].path.spelled = "plain" /\ order[j].path.parts \in DOMAIN g.item =>
      g.item[order[j].path.parts].by # Source

LEMMA GovernedMarked ==
  ASSUME NEW item, item \in [DOMAIN item -> ScalarLeaves], NEW order, Len(order) \in Nat,
         \A j \in 1 .. Len(order) : order[j].id \in Nat \ {0},
         ~GovernItem(item, order).failed
  PROVE  Marked(GovernItem(item, order), order, Len(order))
<1> DEFINE n == Len(order)
<1>1. PICK g : Governing(item, order, g) /\ GovernItem(item, order) = g[n]
  BY GovernedByOrder
<1>2. /\ g[0] = Raw(item)
      /\ \A m \in 1 .. n : g[m] = Apply(g[m - 1], order[m])
  <2>1. g = [m \in 0 .. n |-> IF m = 0 THEN Raw(item) ELSE Apply(g[m - 1], order[m])]
    BY <1>1 DEF Governing
  <2>2. 0 \in 0 .. n /\ \A m \in 1 .. n : m \in 0 .. n /\ m # 0
    OBVIOUS
  <2>3. \A m \in 0 .. n : g[m] = IF m = 0 THEN Raw(item) ELSE Apply(g[m - 1], order[m])
    BY <2>1
  <2> HIDE DEF n
  <2> QED
    BY <2>2, <2>3
<1> DEFINE Good(m) == ~g[m].failed => WellGoverned(g[m]) /\ Marked(g[m], order, m)
           Bad == {m \in 0 .. n : ~Good(m)}
<1>3. Good(0)
  <2>1. WellGoverned(Raw(item))
    BY DEF WellGoverned, Raw
  <2> QED
    BY <1>2, <2>1 DEF Marked
<1>4. ASSUME NEW m \in 1 .. n, Good(m - 1) PROVE Good(m)
  <2> SUFFICES ASSUME ~g[m].failed PROVE WellGoverned(g[m]) /\ Marked(g[m], order, m)
    OBVIOUS
  <2> DEFINE h == g[m - 1]
             rule == order[m]
  <2>1. g[m] = Apply(h, rule)
    BY <1>2
  <2>2. rule.id \in Nat /\ rule.id # 0
    OBVIOUS
  <2>3. ~h.failed
    <3> SUFFICES ASSUME h.failed PROVE FALSE
      OBVIOUS
    <3>1. Apply(h, rule) = h
      BY DEF Apply
    <3> QED
      BY <2>1, <3>1
  <2>4. WellGoverned(h) /\ Marked(h, order, m - 1)
    BY <1>4, <2>3
  <2> HIDE DEF h, rule
  <2>5. /\ WellGoverned(g[m])
        /\ DOMAIN g[m].item \subseteq DOMAIN h.item
        /\ \A leaf \in DOMAIN g[m].item :
             \/ leaf = rule.path.parts /\ g[m].item[leaf].by = rule.id
             \/ /\ g[m].item[leaf] = h.item[leaf]
                /\ rule.path.spelled = "plain" => leaf # rule.path.parts
    BY <2>1, <2>2, <2>4, RuleApplied
  <2>6. ASSUME NEW j \in 1 .. m, order[j].path.spelled = "plain",
               order[j].path.parts \in DOMAIN g[m].item
        PROVE  g[m].item[order[j].path.parts].by # Source
    <3> DEFINE leaf == order[j].path.parts
    <3>1. CASE leaf = rule.path.parts /\ g[m].item[leaf].by = rule.id
      BY <2>2, <3>1 DEF Source
    <3>2. CASE g[m].item[leaf] = h.item[leaf] /\ (rule.path.spelled = "plain" => leaf # rule.path.parts)
      <4>1. j # m
        BY <2>6, <3>2 DEF rule
      <4>2. j \in 1 .. (m - 1)
        BY <4>1
      <4>3. leaf \in DOMAIN h.item
        BY <2>5, <2>6
      <4>4. h.item[leaf].by # Source
        BY <2>4, <2>6, <4>2, <4>3 DEF Marked
      <4> QED
        BY <3>2, <4>4
    <3> QED
      BY <2>5, <2>6, <3>1, <3>2
  <2> QED
    BY <2>5, <2>6 DEF Marked
<1>5. Bad = {}
  <2> SUFFICES ASSUME Bad # {} PROVE FALSE
    OBVIOUS
  <2>1. PICK m \in Bad : \A k \in Bad : m <= k
    <3>1. Bad \subseteq Nat
      OBVIOUS
    <3> HIDE DEF Bad
    <3> QED
      BY <3>1, LeastNumber
  <2>2. m \in 0 .. n /\ ~Good(m)
    BY <2>1
  <2> HIDE DEF Good
  <2>3. m # 0
    BY <1>3, <2>2
  <2>4. m \in 1 .. n /\ m - 1 \in 0 .. n /\ ~(m <= m - 1)
    BY <2>2, <2>3
  <2>5. Good(m - 1)
    BY <2>1, <2>4
  <2> QED
    BY <1>4, <2>2, <2>4, <2>5
<1>6. n \in 0 .. n
  OBVIOUS
<1>7. Good(n)
  <2> HIDE DEF Good, n
  <2> QED
    BY <1>5, <1>6
<1> QED
  BY <1>1, <1>7

(* The policy of a profile that was asked for has its rules, normalised.    *)
LEMMA PolicyRules ==
  ASSUME NEW f, WellTyped(f), Decode(f) # Rejected, NEW n \in DOMAIN f.profiles,
         NEW secret, ResolveFixtureProfile(Decode(f), n, secret) # Rejected
  PROVE  LET policy == ResolveFixtureProfile(Decode(f), n, secret)
             rules  == f.profiles[n].rules
         IN  /\ rules \in Seq(GovernanceRules)
             /\ policy = NewEffectivePolicy(ApplyDefaults(f).profiles[n])
             /\ policy.rules = {NormalRule(rules[i]) : i \in DOMAIN rules}
             /\ \A i \in DOMAIN rules : RuleValid(ApplyDefaults(f), rules[i])
             /\ \A i, j \in DOMAIN rules : rules[i].id = rules[j].id => i = j
<1> DEFINE p == ApplyDefaults(f)
           policy == ResolveFixtureProfile(Decode(f), n, secret)
           rules == f.profiles[n].rules
           governing == [i \in DOMAIN p.profiles[n].rules |-> NormalRule(p.profiles[n].rules[i])]
<1>1. Decode(f) = p /\ ProfilesValid(p)
  BY Passed DEF Validate
<1>2. /\ DOMAIN p.profiles = DOMAIN f.profiles /\ p.profiles[n].rules = rules
      /\ rules \in Seq(GovernanceRules)
  BY ProfileFields DEF FixtureProfiles
<1>3. n # "" /\ n \in DOMAIN p.profiles
  BY <1>1, <1>2 DEF ProfilesValid
<1>4. policy = NewEffectivePolicy(p.profiles[n])
  <2> HIDE DEF p
  <2> QED
    BY <1>1, <1>3 DEF ResolveFixtureProfile
<1>5. NewEffectivePolicy(p.profiles[n]).rules = Range(governing)
  <2>1. NewEffectivePolicy(p.profiles[n]) # Rejected
    BY <1>4
  <2> HIDE DEF p
  <2> QED
    BY <2>1 DEF NewEffectivePolicy
<1>6. Range(governing) = {NormalRule(rules[i]) : i \in DOMAIN rules}
  BY <1>2 DEF Range
<1>7. /\ \A i \in DOMAIN rules : RuleValid(p, rules[i])
      /\ \A i, j \in DOMAIN rules : rules[i].id = rules[j].id => i = j
  <2> HIDE DEF p, rules
  <2>1. \A i \in DOMAIN rules : RuleValid(p, rules[i])
    BY <1>1, <1>2, <1>3, Zenon DEF ProfilesValid
  <2>2. ASSUME NEW i \in DOMAIN rules, NEW j \in DOMAIN rules, i # j
        PROVE  rules[i].id # rules[j].id
    <3>1. \A k, m \in DOMAIN p.profiles[n].rules :
             k # m => p.profiles[n].rules[k].id # p.profiles[n].rules[m].id
      BY <1>1, <1>3 DEF ProfilesValid
    <3> QED
      BY <1>2, <2>2, <3>1
  <2> QED
    BY <2>1, <2>2
<1> QED
  BY <1>2, <1>4, <1>5, <1>6, <1>7

LEMMA ItemGoverned ==
  ASSUME NEW f, WellTyped(f), Decode(f) # Rejected, NEW n \in DOMAIN f.profiles,
         NEW secret, NEW policy, policy = ResolveFixtureProfile(Decode(f), n, secret),
         policy # Rejected, NEW item \in Items, NEW table,
         NEW order \in Orders(TableRules(policy, table)), ~GovernItem(item, order).failed,
         NEW rule \in Range(f.profiles[n].rules), rule.service = "dynamodb",
         rule.resource = table, rule.path.spelled # "upper",
         rule.path.parts \in DOMAIN GovernItem(item, order).item
  PROVE  GovernItem(item, order).item[rule.path.parts].by # Source
<1> DEFINE rules == f.profiles[n].rules
           own == TableRules(policy, table)
<1>1. /\ rules \in Seq(GovernanceRules)
      /\ policy.rules = {NormalRule(rules[i]) : i \in DOMAIN rules}
      /\ \A i \in DOMAIN rules : RuleValid(ApplyDefaults(f), rules[i])
  BY PolicyRules
<1>2. IsFiniteSet(own)
  <2>1. IsFiniteSet(DOMAIN rules)
    <3>1. Len(rules) \in Int /\ 1 \in Int /\ DOMAIN rules = 1 .. Len(rules)
      BY <1>1
    <3> QED
      BY <3>1, FS_Interval, Zenon
  <2>2. IsFiniteSet(policy.rules)
    <3> DEFINE normal == [i \in DOMAIN rules |-> NormalRule(rules[i])]
    <3>1. normal \in Surjection(DOMAIN rules, policy.rules)
      BY <1>1 DEF Surjection
    <3> QED
      BY <2>1, <3>1, FS_Surjection
  <2>3. own \subseteq policy.rules
    BY DEF TableRules
  <2> QED
    BY <2>2, <2>3, FS_Subset
<1>3. Cardinality(own) \in Nat
  BY <1>2, FS_CardinalityType
<1>4. /\ order \in [1 .. Cardinality(own) -> own] /\ own \subseteq Range(order)
  BY DEF Orders
<1>5. Len(order) = Cardinality(own) /\ DOMAIN order = 1 .. Len(order)
  BY <1>3, <1>4
<1>6. PICK i \in DOMAIN rules : rule = rules[i]
  BY DEF Range
<1>7. rule \in GovernanceRules /\ RuleValid(ApplyDefaults(f), rule)
  BY <1>1, <1>6
<1>8. rule.kind = "dynamodb_attribute"
  BY <1>7 DEF RuleValid
<1>9. NormalRule(rule).path.spelled = "plain" /\ NormalRule(rule).path.parts = rule.path.parts
  <2>1. NormalRule(rule).path = Trim(rule.path)
    BY <1>7, <1>8, RuleNormal DEF NormalPath
  <2>2. rule.path \in [parts : Seq(STRING), spelled : {"plain", "padded", "upper"}]
    BY <1>7 DEF GovernanceRules
  <2> QED
    BY <2>1, <2>2 DEF Trim
<1>10. NormalRule(rule) \in own
  BY <1>1, <1>6, <1>7, RuleNormal DEF TableRules
<1>11. PICK j \in 1 .. Len(order) : order[j] = NormalRule(rule)
  BY <1>4, <1>5, <1>10 DEF Range
<1>12. \A k \in 1 .. Len(order) : order[k].id \in Nat \ {0}
  <2> TAKE k \in 1 .. Len(order)
  <2>1. order[k] \in policy.rules
    BY <1>4, <1>5 DEF TableRules
  <2>2. PICK m \in DOMAIN rules : order[k] = NormalRule(rules[m])
    BY <1>1, <2>1
  <2>3. rules[m] \in GovernanceRules /\ RuleValid(ApplyDefaults(f), rules[m])
    BY <1>1, <2>2
  <2>4. order[k].id = rules[m].id
    BY <2>2, <2>3, RuleNormal
  <2>5. rules[m].id \in Nat
    BY <2>3 DEF GovernanceRules
  <2>6. rules[m].id > 0
    BY <2>3, Zenon DEF RuleValid
  <2> QED
    BY <2>4, <2>5, <2>6
<1>13. item \in [DOMAIN item -> ScalarLeaves]
  BY ItemsAssumption DEF ScalarLeaves, Source
<1>14. Marked(GovernItem(item, order), order, Len(order))
  BY <1>3, <1>5, <1>12, <1>13, GovernedMarked
<1> QED
  BY <1>9, <1>11, <1>14 DEF Marked

(* What stands in a tuple of one.                                          *)
LEMMA RangeOfTuple ==
  /\ \A x : x \notin DOMAIN << >>
  /\ \A x : x \notin Range(<< >>)
  /\ \A x, y : y \in Range(<<x>>) <=> y = x
<1>1. \A x : x \notin DOMAIN << >>
  OBVIOUS
<1>2. \A x : DOMAIN <<x>> = {1} /\ <<x>>[1] = x
  OBVIOUS
<1> QED
  BY <1>1, <1>2, Zenon DEF Range

LEMMA NoProfiles ==
  ASSUME NEW f, WellTyped(f) PROVE ApplyDefaults(f).profiles = << >> <=> f.profiles = << >>
<1>1. ApplyDefaults(f).profiles = ProfileDefaults(f.profiles)
  BY Fields DEF WellTyped
<1>2. f.profiles = [n \in DOMAIN f.profiles |-> f.profiles[n]]
  BY DEF WellTyped
<1>3. DOMAIN ProfileDefaults(f.profiles) = DOMAIN f.profiles
  BY DEF ProfileDefaults
<1>4. ProfileDefaults(f.profiles) = [n \in DOMAIN f.profiles |-> ProfileDefaults(f.profiles)[n]]
  BY DEF ProfileDefaults
<1>5. ASSUME f.profiles = << >> PROVE ProfileDefaults(f.profiles) = << >>
  <2>1. DOMAIN f.profiles = {}
    BY <1>5
  <2> QED
    BY <1>4, <2>1
<1>6. ASSUME ProfileDefaults(f.profiles) = << >> PROVE f.profiles = << >>
  <2>1. DOMAIN f.profiles = {}
    BY <1>3, <1>6
  <2> QED
    BY <1>2, <2>1
<1> QED
  BY <1>1, <1>5, <1>6

(* Which of the datasets of a bucket or of a table is in the manifest.      *)
LEMMA CapturedObjects ==
  ASSUME NEW name, NEW secret, NEW item, CaptureObjects(name, secret, item), phase' = "captured"
  PROVE  \E governed \in Governed(item, ResolveFixtureProfile(project, name, secret)) :
         \E chunks \in {<< >>, Chunks(governed)} :
           /\ ~governed.failed
           /\ manifest' = ManifestOf(Structure(Only(project).arn),
                            IF Data(project).enabled THEN ObjectDataset(chunks) ELSE NoDataset,
                            IF name = "" THEN Ungoverned
                            ELSE GovernanceAudit(name, ResolveFixtureProfile(project, name, secret),
                                                 governed.applied))
<1> DEFINE policy == ResolveFixtureProfile(project, name, secret)
<1>1. ~Fail
  BY DEF Fail
<1>2. PICK governed \in Governed(item, policy) : CaptureGoverned(name, policy, governed)
  <2> HIDE DEF Fail
  <2> QED
    BY <1>1 DEF CaptureObjects
<1> HIDE DEF policy
<1> QED
  BY <1>2 DEF CaptureGoverned, Captured, policy

LEMMA DatasetChunks == \A chunks : ObjectDataset(chunks).chunks = chunks
<1>1. \A a, b, c, d, e :
        [format |-> a, records |-> b, bytes |-> c, listed |-> d, chunks |-> e].chunks = e
  OBVIOUS
<1> QED
  BY <1>1, Zenon DEF ObjectDataset

LEMMA RawCaptured ==
  ASSUME ProjectInv, NEW name \in {"", "profile"}, NEW secret \in BOOLEAN, NEW item \in Items,
         CaptureObjects(name, secret, item), phase' = "captured", Service(project) = "dynamodb"
  PROVE  NoRawValue'
<1> DEFINE policy == ResolveFixtureProfile(project, name, secret)
<1>1. /\ project' = project /\ file' = file /\ policy # Rejected
      /\ phase = "calling" /\ phase # "idle" /\ phase # "failed"
  BY DEF CaptureObjects, CaptureGoverned, Fail
<1>2. /\ project = Decode(file) /\ Decode(file) # Rejected /\ WellTyped(file)
      /\ project = ApplyDefaults(file)
  BY <1>1, FilesAssumption, Passed DEF ProjectInv
<1>3. PICK governed \in Governed(item, policy) : \E chunks \in {<< >>, Chunks(governed)} :
           /\ ~governed.failed
           /\ manifest' = ManifestOf(Structure(Only(project).arn),
                            IF Data(project).enabled THEN ObjectDataset(chunks) ELSE NoDataset,
                            IF name = "" THEN Ungoverned
                            ELSE GovernanceAudit(name, policy, governed.applied))
  BY CapturedObjects
<1>4. PICK chunks \in {<< >>, Chunks(governed)} :
           /\ ~governed.failed
           /\ manifest' = ManifestOf(Structure(Only(project).arn),
                            IF Data(project).enabled THEN ObjectDataset(chunks) ELSE NoDataset,
                            IF name = "" THEN Ungoverned
                            ELSE GovernanceAudit(name, policy, governed.applied))
  BY <1>3
<1>5. PICK order \in Orders(TableRules(policy, Only(project).name)) : governed = GovernItem(item, order)
  BY DEF Governed
<1>6. CASE name = ""
  <2>1. file.profiles = << >>
    BY <1>1, <1>2, <1>6, NoProfiles DEF ResolveFixtureProfile
  <2>2. manifest'.governance = Ungoverned
    BY <1>4, <1>6 DEF ManifestOf
  <2> QED
    BY <1>1, <2>1, <2>2 DEF NoRawValue
<1>7. CASE name # ""
  <2>1. name \in DOMAIN project.profiles
    BY <1>1, <1>7 DEF ResolveFixtureProfile
  <2>2. name \in DOMAIN file.profiles
    <3>1. DOMAIN project.profiles = DOMAIN file.profiles
      BY <1>2, Fields DEF WellTyped, ProfileDefaults
    <3> QED
      BY <2>1, <3>1
  <2>3. file.profiles # << >>
    BY <2>2, RangeOfTuple, Zenon
  <2>4. manifest'.governance.profile = name
    BY <1>4, <1>7 DEF ManifestOf, GovernanceAudit
  <2>5. ASSUME NEW snapshot \in Range(manifest'.snapshots), snapshot.dataset # NoDataset,
               NEW chunk \in Range(snapshot.dataset.chunks)
        PROVE  chunk.item = governed.item
    <3> DEFINE dataset == IF Data(project).enabled THEN ObjectDataset(chunks) ELSE NoDataset
    <3>1. manifest'.snapshots =
            <<[service   |-> Service(project),
               resource  |-> [name |-> Only(project).name, arn |-> Only(project).arn],
               structure |-> Structure(Only(project).arn), dataset |-> dataset]>>
      BY <1>4 DEF ManifestOf
    <3> HIDE DEF dataset
    <3>2. snapshot.dataset = dataset
      <4>1. snapshot = [service   |-> Service(project),
               resource  |-> [name |-> Only(project).name, arn |-> Only(project).arn],
               structure |-> Structure(Only(project).arn), dataset |-> dataset]
        BY <2>5, <3>1, RangeOfTuple, Zenon
      <4> QED
        BY <4>1
    <3>3. snapshot.dataset.chunks = chunks
      <4>1. dataset = ObjectDataset(chunks)
        <5>1. dataset # NoDataset
          BY <2>5, <3>2
        <5> QED
          BY <5>1 DEF dataset
      <4> QED
        BY <3>2, <4>1, DatasetChunks, Zenon
    <3>4. chunks = Chunks(governed)
      BY <2>5, <3>3, RangeOfTuple, Zenon
    <3>5. chunk = [records |-> 1, bytes |-> 1, index |-> TRUE, item |-> governed.item]
      BY <2>5, <3>3, <3>4, RangeOfTuple, Zenon DEF Chunks
    <3> QED
      BY <3>5
  <2>6. ASSUME NEW rule \in Range(file.profiles[name].rules), rule.service = "dynamodb",
               rule.resource = Only(project).name, rule.path.spelled # "upper",
               rule.path.parts \in DOMAIN governed.item
        PROVE  governed.item[rule.path.parts].by # Source
    BY <1>1, <1>2, <1>4, <1>5, <2>2, <2>6, ItemGoverned
  <2> QED
    BY <1>1, <2>2, <2>3, <2>4, <2>5, <2>6 DEF NoRawValue, RulesOf
<1> QED
  BY <1>6, <1>7

LEMMA RawStep == ASSUME ProjectInv, NoRawValue, [Next]_vars PROVE NoRawValue'
<1>1. ASSUME phase' \notin {"captured", "installed", "accepted"} PROVE NoRawValue'
  BY <1>1 DEF NoRawValue
<1>2. ASSUME UNCHANGED <<file, project, manifest>>,
             phase' \in {"captured", "installed", "accepted"} => phase \in {"captured", "installed", "accepted"}
      PROVE  NoRawValue'
  BY <1>2 DEF NoRawValue, RulesOf
<1>3. CASE Grant
  BY <1>2, <1>3 DEF Grant
<1>4. CASE Load
  BY <1>1, <1>4 DEF Load
<1>5. CASE Call
  BY <1>1, <1>2, <1>5 DEF Call, Refused, Fail
<1>6. CASE CaptureStructure
  BY <1>6 DEF CaptureStructure, NoRawValue
<1>7. CASE BeginRecords
  BY <1>1, <1>7 DEF BeginRecords
<1>8. CASE GetRecords
  BY <1>2, <1>8 DEF GetRecords
<1>9. CASE ReceiveMessage
  BY <1>2, <1>9 DEF ReceiveMessage
<1>10. CASE Commit
  <2>1. project' = project /\ Service(project) \in {"kinesis", "sqs"}
    BY <1>10 DEF Commit, Drained, Reading
  <2> QED
    BY <2>1 DEF NoRawValue
<1>11. CASE Install
  BY <1>2, <1>11 DEF Install
<1>12. CASE Replay
  BY <1>2, <1>12 DEF Replay
<1>13. ASSUME NEW name \in {"", "profile"}, NEW secret \in BOOLEAN, NEW item \in Items,
              CaptureObjects(name, secret, item)
       PROVE  NoRawValue'
  <2>1. phase' \in {"captured", "failed"} /\ project' = project
    BY <1>13 DEF CaptureObjects, CaptureGoverned, Captured, Fail
  <2>2. CASE phase' = "captured" /\ Service(project) = "dynamodb"
    BY <1>13, <2>2, RawCaptured
  <2>3. CASE ~(phase' = "captured" /\ Service(project) = "dynamodb")
    BY <2>1, <2>3 DEF NoRawValue
  <2> QED
    BY <2>2, <2>3
<1>14. CASE CallFails
  BY <1>1, <1>14 DEF CallFails, Fail
<1>15. CASE Done
  BY <1>2, <1>15 DEF Done, vars
<1>16. ASSUME NEW s \in Shards, Produce(s) PROVE NoRawValue'
  BY <1>2, <1>16 DEF Produce
<1>17. CASE UNCHANGED vars
  BY <1>2, <1>17 DEF vars
<1> QED
  BY <1>3, <1>4, <1>5, <1>6, <1>7, <1>8, <1>9, <1>10, <1>11, <1>12, <1>13, <1>14, <1>15, <1>16,
     <1>17 DEF Next, Pull

(* No capture passes by the profiles of its project: no captured item of a *)
(* table holds, as the source had it, a value that a rule of the chosen    *)
(* profile names (config.go, governance/policy.go, dynamodb/item.go).      *)
THEOREM NoRawValueIsCaptured == Spec => []NoRawValue
<1>1. Init => NoRawValue
  BY DEF Init, NoRawValue
<1> QED
  BY <1>1, RawStep, ProjectInvariance, PTL DEF Spec

LEMMA Listing ==
  ASSUME NEW S, IsFiniteSet(S)
  PROVE  /\ SetToSeq(S) \in [1 .. Cardinality(S) -> S]
         /\ \A i, j \in DOMAIN SetToSeq(S) : SetToSeq(S)[i] = SetToSeq(S)[j] => i = j
         /\ \A x \in S : \E i \in DOMAIN SetToSeq(S) : SetToSeq(S)[i] = x
<1>1. ExistsBijection(1 .. Cardinality(S), S)
  BY FS_CardinalityType
<1>2. PICK f \in [1 .. Cardinality(S) -> S] : \A a, b \in 1 .. Cardinality(S) : f[a] = f[b] => a = b
  BY <1>1 DEF ExistsBijection, Bijection, Injection, IsInjective
<1>3. IsInjective(f)
  BY <1>2 DEF IsInjective
<1>4. SetToSeq(S) \in [1 .. Cardinality(S) -> S] /\ IsInjective(SetToSeq(S))
  BY <1>3, Zenon DEF SetToSeq
<1> DEFINE listed == SetToSeq(S)
<1> HIDE DEF listed
<1>5. listed \in Injection(1 .. Cardinality(S), S)
  BY <1>4, Zenon DEF Injection, listed
<1>6. Cardinality(S) \in Nat
  BY FS_CardinalityType
<1>7. Cardinality(1 .. Cardinality(S)) = Cardinality(S)
  <2>1. Cardinality(1 .. Cardinality(S)) = IF 1 > Cardinality(S) THEN 0 ELSE Cardinality(S) - 1 + 1
    BY <1>6, FS_Interval
  <2> QED
    BY <1>6, <2>1
<1>8. listed \in Surjection(1 .. Cardinality(S), S)
  BY <1>5, <1>7, FS_Injection
<1>9. \A x \in S : \E i \in DOMAIN listed : listed[i] = x
  BY <1>8 DEF Surjection
<1> QED
  BY <1>4, <1>9, Zenon DEF IsInjective, listed

LEMMA PairOfLimits ==
  ASSUME NEW pair, pair \in (Nat \ {0}) \X (Nat \ {0})
  PROVE  [i \in DOMAIN pair |-> Or(pair[i], 0, pair[i])] = pair
<1>1. DOMAIN pair = 1 .. 2 /\ pair = [i \in 1 .. 2 |-> pair[i]]
  OBVIOUS
<1>2. \A i \in DOMAIN pair : Or(pair[i], 0, pair[i]) = pair[i]
  BY DEF Or
<1> DEFINE filled == [i \in DOMAIN pair |-> Or(pair[i], 0, pair[i])]
<1>3. filled = [i \in DOMAIN pair |-> pair[i]]
  BY <1>2
<1> QED
  BY <1>1, <1>3, Zenon

LEMMA WizardDefaults ==
  ASSUME NEW s \in Services, NEW choice \in {"", "bounded", "full"}
  PROVE  DataDefaults(s, WizardData(s, choice)) = WizardData(s, choice)
<1>1. CASE choice = "" \/ s \notin {"s3", "dynamodb", "sqs"}
  BY <1>1 DEF WizardData, DataDefaults
<1>2. CASE choice # "" /\ s = "s3"
  <2>1. CASE choice = "full"
    BY <1>2, <2>1 DEF WizardData, DataDefaults, NewData, Or
  <2>2. CASE choice # "full"
    BY <1>2, <2>2 DEF WizardData, DataDefaults, NewData, Or
  <2> QED
    BY <2>1, <2>2
<1>3. CASE choice # "" /\ s = "dynamodb"
  <2>1. CASE choice = "full"
    BY <1>3, <2>1 DEF WizardData, DataDefaults, NewData, Or
  <2>2. CASE choice # "full"
    BY <1>3, <2>2 DEF WizardData, DataDefaults, NewData, Or
  <2> QED
    BY <2>1, <2>2
<1>4. CASE choice # "" /\ s = "sqs"
  <2> DEFINE data == [enabled |-> TRUE, mode |-> "bounded", limits |-> SQSLimits]
             filled == [i \in DOMAIN SQSLimits |-> Or(SQSLimits[i], 0, SQSLimits[i])]
  <2>1. WizardData(s, choice) = data
    BY <1>4 DEF WizardData, NewData
  <2>2. filled = SQSLimits
    BY LimitsAssumption, PairOfLimits, Zenon
  <2>3. data # NoData
    BY DEF NoData
  <2>4. DataDefaults(s, data) = [[data EXCEPT !.mode = Or("bounded", "", "bounded")] EXCEPT !.limits = filled]
    BY <1>4, <2>3 DEF DataDefaults
  <2> HIDE DEF filled
  <2>5. DataDefaults(s, data) = data
    BY <2>2, <2>4 DEF Or
  <2> QED
    BY <2>1, <2>5
<1> QED
  BY <1>1, <1>2, <1>3, <1>4

WizardResource(s, r) == [name |-> r.name, arn |-> r.arn, data |-> WizardData(s, r.choice)]
OfService(s, selected) == {x \in selected : x.service = s}
WizardResources(s, selected) == {WizardResource(s, r) : r \in OfService(s, selected)}

LEMMA SelectedAreListed ==
  ASSUME NEW selected \in Selections, NEW s \in Services
  PROVE  LET seq == SetToSeq(WizardResources(s, selected))
         IN  /\ seq \in Seq(WizardResources(s, selected))
             /\ \A i \in DOMAIN seq : \E r \in selected : r.service = s /\ seq[i] = WizardResource(s, r)
             /\ \A r \in selected : r.service = s => \E i \in DOMAIN seq : seq[i] = WizardResource(s, r)
             /\ \A i, j \in DOMAIN seq : seq[i].name = seq[j].name => i = j
<1> DEFINE set == WizardResources(s, selected)
           seq == SetToSeq(set)
<1>1. IsFiniteSet(OfService(s, selected))
  BY SelectionsAssumption, FS_Subset DEF OfService
<1>2. IsFiniteSet(set)
  <2> DEFINE f == [r \in OfService(s, selected) |-> WizardResource(s, r)]
  <2>1. f \in Surjection(OfService(s, selected), set)
    BY Zenon DEF Surjection, WizardResources
  <2> QED
    BY <1>1, <2>1, FS_Surjection, Zenon
<1>3. /\ seq \in [1 .. Cardinality(set) -> set]
      /\ \A i, j \in DOMAIN seq : seq[i] = seq[j] => i = j
      /\ \A x \in set : \E i \in DOMAIN seq : seq[i] = x
  BY <1>2, Listing
<1>4. seq \in Seq(set) /\ DOMAIN seq = 1 .. Cardinality(set)
  BY <1>2, <1>3, FS_CardinalityType
<1>5. \A x \in set : \E r \in selected : r.service = s /\ x = WizardResource(s, r)
  BY DEF WizardResources, OfService
<1>6. \A i \in DOMAIN seq : seq[i] \in set
  BY <1>3
<1>7. \A x, y \in set : x.name = y.name => x = y
  <2> SUFFICES ASSUME NEW x \in set, NEW y \in set, x.name = y.name
               PROVE  x = y
    OBVIOUS
  <2>1. PICK r \in selected : r.service = s /\ x = WizardResource(s, r)
    BY <1>5
  <2>2. PICK q \in selected : q.service = s /\ y = WizardResource(s, q)
    BY <1>5
  <2>3. r.name = q.name
    BY <2>1, <2>2 DEF WizardResource
  <2>4. \A a, b \in selected : a.service = b.service /\ a.name = b.name => a = b
    BY SelectionsAssumption, Zenon
  <2>5. r = q
    BY <2>1, <2>2, <2>3, <2>4
  <2> QED
    BY <2>1, <2>2, <2>5
<1>10. \A r \in selected : r.service = s => WizardResource(s, r) \in set
  BY DEF WizardResources, OfService
<1> HIDE DEF set, seq
<1>8. \A i, j \in DOMAIN seq : seq[i].name = seq[j].name => i = j
  BY <1>3, <1>6, <1>7
<1>9. \A i \in DOMAIN seq : \E r \in selected : r.service = s /\ seq[i] = WizardResource(s, r)
  BY <1>5, <1>6
<1>11. \A r \in selected : r.service = s => \E i \in DOMAIN seq : seq[i] = WizardResource(s, r)
  BY <1>3, <1>10
<1> QED
  BY <1>4, <1>8, <1>9, <1>11 DEF set, seq

WizardLists(selected) == [s \in Services |-> SetToSeq(WizardResources(s, selected))]
WizardTimeout(selected) ==
  IF \E r \in selected : r.service \in {"s3", "dynamodb"} /\ r.choice = "full"
  THEN FullDataTimeout ELSE DefaultTimeout

(* A project with these fields, and no profiles.                            *)
Plain(region, account, timeout, resources) ==
  [schema |-> 1, region |-> region, account |-> account, version |-> "supported", port |-> 4566,
   timeout |-> timeout, replayWorkers |-> 4, resourceWorkers |-> 2, directory |-> ".floceed",
   resources |-> resources, profiles |-> << >>]

SetRegion(p, v)    == [p EXCEPT !.region = v]
SetAccount(p, v)   == [p EXCEPT !.account = v]
SetTimeout(p, v)   == [p EXCEPT !.timeout = v]
SetResources(p, v) == [p EXCEPT !.resources = v]

LEMMA RegionSet == \A b, a, v : SetRegion(Plain(b, a, DefaultTimeout, Empty), v)
                                = Plain(v, a, DefaultTimeout, Empty)
BY DEF Plain, SetRegion

LEMMA AccountSet == \A b, a, v : SetAccount(Plain(b, a, DefaultTimeout, Empty), v)
                                 = Plain(b, v, DefaultTimeout, Empty)
BY DEF Plain, SetAccount

LEMMA TimeoutSet == \A b, t, v : SetTimeout(Plain(b, "digits", t, Empty), v) = Plain(b, "digits", v, Empty)
BY DEF Plain, SetTimeout

LEMMA ResourcesSet == \A b, t, r, v : SetResources(Plain(b, "digits", t, r), v) = Plain(b, "digits", t, v)
BY DEF Plain, SetResources

LEMMA WizardProjectIs ==
  ASSUME NEW selected
  PROVE  WizardProject(selected)
           = Plain(TRUE, "digits", WizardTimeout(selected), WizardLists(selected))
<1>1. NewProject = Plain(FALSE, "", DefaultTimeout, Empty)
  BY Zenon DEF NewProject, Plain
<1> DEFINE A == SetRegion(NewProject, TRUE)
           B == SetAccount(A, "digits")
           C == SetTimeout(B, WizardTimeout(selected))
<1>2. A = Plain(TRUE, "", DefaultTimeout, Empty)
  BY <1>1, RegionSet, Zenon
<1>3. B = Plain(TRUE, "digits", DefaultTimeout, Empty)
  BY <1>2, AccountSet, Zenon
<1>4. B.timeout = DefaultTimeout
  <2>1. Plain(TRUE, "digits", DefaultTimeout, Empty).timeout = DefaultTimeout
    BY Zenon DEF Plain
  <2> QED
    BY <1>3, <2>1, Zenon
<1>5. WizardProject(selected)
        = SetResources(SetTimeout(B, IF \E r \in selected : r.service \in {"s3", "dynamodb"}
                                                           /\ r.choice = "full"
                                     THEN FullDataTimeout ELSE B.timeout),
                       WizardLists(selected))
  BY Zenon DEF WizardProject, WizardLists, WizardResources, WizardResource, OfService,
               SetRegion, SetAccount, SetTimeout, SetResources
<1>6. WizardProject(selected) = SetResources(C, WizardLists(selected))
  BY <1>4, <1>5, Zenon DEF WizardTimeout
<1>7. C = Plain(TRUE, "digits", WizardTimeout(selected), Empty)
  BY <1>3, TimeoutSet, Zenon
<1> HIDE DEF A, B, C
<1> QED
  BY <1>6, <1>7, ResourcesSet, Zenon
LEMMA ProfilesKept == ProfileDefaults(<< >>) = << >>
BY DEF ProfileDefaults

LEMMA PlainDefaults ==
  ASSUME NEW time, time # 0, NEW res, ResourceDefaults(res) = res
  PROVE  ApplyDefaults(Plain(TRUE, "digits", time, res)) = Plain(TRUE, "digits", time, res)
<1> DEFINE p == Plain(TRUE, "digits", time, res)
<1>1. p = [x \in DOMAIN p |-> p[x]]
  <2>1. \A b, t, r : LET q == Plain(b, "digits", t, r) IN q = [x \in DOMAIN q |-> q[x]]
    BY DEF Plain
  <2> QED
    BY <2>1, Zenon
<1>2. /\ p.version = "supported" /\ p.port = 4566 /\ p.timeout = time
      /\ p.replayWorkers = 4 /\ p.resourceWorkers = 2 /\ p.directory = ".floceed"
      /\ p.resources = res /\ p.profiles = << >>
  BY Zenon DEF Plain
<1>3. /\ NewProject.version = "supported" /\ NewProject.port = 4566
      /\ NewProject.replayWorkers = 4 /\ NewProject.resourceWorkers = 2
      /\ NewProject.directory = ".floceed"
  BY Zenon DEF NewProject
<1> HIDE DEF p
<1>4. /\ Or(p.version, "", NewProject.version) = p.version
      /\ Or(p.port, 0, NewProject.port) = p.port
      /\ Or(p.timeout, 0, NewProject.timeout) = p.timeout
      /\ Or(p.replayWorkers, 0, NewProject.replayWorkers) = p.replayWorkers
      /\ Or(p.resourceWorkers, 0, NewProject.resourceWorkers) = p.resourceWorkers
      /\ Or(p.directory, "", NewProject.directory) = p.directory
  BY <1>2, <1>3 DEF Or
<1>5. ResourceDefaults(p.resources) = p.resources /\ ProfileDefaults(p.profiles) = p.profiles
  BY <1>2, ProfilesKept
<1>6. ApplyDefaults(p)
        = [p EXCEPT !.version = p.version, !.port = p.port, !.timeout = p.timeout,
             !.replayWorkers = p.replayWorkers, !.resourceWorkers = p.resourceWorkers,
             !.directory = p.directory, !.resources = p.resources, !.profiles = p.profiles]
  BY <1>4, <1>5, Zenon DEF ApplyDefaults
<1>7. ApplyDefaults(p) = p
  <2>1. \A x : [p EXCEPT ![x] = p[x]] = p
    BY <1>1
  <2>2. /\ [p EXCEPT !.version = p.version] = p /\ [p EXCEPT !.port = p.port] = p
        /\ [p EXCEPT !.timeout = p.timeout] = p
        /\ [p EXCEPT !.replayWorkers = p.replayWorkers] = p
        /\ [p EXCEPT !.resourceWorkers = p.resourceWorkers] = p
        /\ [p EXCEPT !.directory = p.directory] = p
        /\ [p EXCEPT !.resources = p.resources] = p /\ [p EXCEPT !.profiles = p.profiles] = p
    BY <2>1
  <2> QED
    BY <1>6, <2>2, Zenon
<1> QED
  BY <1>7 DEF p


LEMMA WizardResourceDefaults ==
  ASSUME NEW selected \in Selections
  PROVE  ResourceDefaults(WizardLists(selected)) = WizardLists(selected)
<1> DEFINE res == WizardLists(selected)
           list(s) == SetToSeq(WizardResources(s, selected))
           filled(s) == [i \in DOMAIN list(s) |-> Completed(s, list(s)[i])]
<1>1. res = [s \in Services |-> list(s)]
  BY DEF WizardLists
<1>2. \A s \in Services : filled(s) = list(s)
  <2> SUFFICES ASSUME NEW s \in Services PROVE filled(s) = list(s)
    OBVIOUS
  <2>1. /\ list(s) \in Seq(WizardResources(s, selected))
        /\ \A i \in DOMAIN list(s) :
             \E r \in selected : r.service = s /\ list(s)[i] = WizardResource(s, r)
    BY SelectedAreListed
  <2>2. \A r \in selected : Completed(s, WizardResource(s, r)) = WizardResource(s, r)
    <3> SUFFICES ASSUME NEW r \in selected
                 PROVE  Completed(s, WizardResource(s, r)) = WizardResource(s, r)
      OBVIOUS
    <3>1. r.choice \in {"", "bounded", "full"}
      BY SelectionsAssumption, Zenon
    <3>2. DataDefaults(s, WizardData(s, r.choice)) = WizardData(s, r.choice)
      BY <3>1, WizardDefaults
    <3> QED
      BY <3>2 DEF Completed, WizardResource
  <2> HIDE DEF list
  <2>3. \A i \in DOMAIN list(s) : Completed(s, list(s)[i]) = list(s)[i]
    BY <2>1, <2>2
  <2>4. filled(s) = [i \in DOMAIN list(s) |-> list(s)[i]]
    BY <2>3, Zenon
  <2>5. list(s) = [i \in DOMAIN list(s) |-> list(s)[i]]
    BY <2>1
  <2> QED
    BY <2>4, <2>5, Zenon
<1>3. ResourceDefaults(res) = [s \in Services |-> filled(s)]
  BY <1>1, Zenon DEF ResourceDefaults
<1> HIDE DEF list, filled, res
<1>4. ResourceDefaults(res) = res
  BY <1>1, <1>2, <1>3, Zenon
<1> QED
  BY <1>4 DEF res

LEMMA DefaultLimits ==
  /\ Limited(S3Limits) /\ Limited(DynamoLimits)
  /\ \A i \in DOMAIN SQSLimits : SQSLimits[i] >= 0
<1>1. \A pair \in (Nat \ {0}) \X (Nat \ {0}) : \A i \in DOMAIN pair : pair[i] > 0
  OBVIOUS
<1>2. \A triple \in (Nat \ {0}) \X (Nat \ {0}) \X (Nat \ {0}) : \A i \in DOMAIN triple : triple[i] > 0
  OBVIOUS
<1>3. \A pair \in (Nat \ {0}) \X (Nat \ {0}) : \A i \in DOMAIN pair : pair[i] \in Nat
  OBVIOUS
<1>4. \A n \in Nat : n >= 0
  OBVIOUS
<1> QED
  BY <1>1, <1>2, <1>3, <1>4, LimitsAssumption, Zenon DEF Limited

LEMMA ObjectDataKept ==
  ASSUME NEW s \in {"s3", "dynamodb"}, NEW choice \in {"", "bounded", "full"}
  PROVE  /\ ObjectDataValid(WizardData(s, choice))
         /\ s = "s3" => S3Valid(WizardData(s, choice))
         /\ EnabledFull(WizardData(s, choice)) => choice = "full"
<1> DEFINE limits == IF s = "s3" THEN S3Limits ELSE DynamoLimits
<1>1. CASE choice = ""
  BY <1>1 DEF WizardData, NoData, ObjectDataValid, S3Valid, EnabledFull
<1>2. Limited(limits) /\ Unlimited([i \in DOMAIN limits |-> 0])
  BY DefaultLimits DEF Unlimited
<1>3. CASE choice = "bounded"
  <2>1. WizardData(s, choice) = NewData(s)
    BY <1>3 DEF WizardData
  <2>2. /\ NewData(s).mode = "bounded" /\ NewData(s).limits = limits
        /\ s = "s3" => NewData(s).overwrite = "if-different"
    BY DEF NewData
  <2> HIDE DEF limits
  <2> QED
    BY <1>2, <2>1, <2>2 DEF ObjectDataValid, S3Valid, EnabledFull
<1>4. CASE choice = "full"
  <2> DEFINE data == WizardData(s, choice)
  <2>1. data = [NewData(s) EXCEPT !.mode = "full", !.limits = [i \in DOMAIN @ |-> 0]]
    BY <1>4 DEF WizardData
  <2>2. CASE s = "s3"
    <3>1. /\ data.mode = "full" /\ data.limits = [i \in DOMAIN S3Limits |-> 0]
          /\ data.overwrite = "if-different"
      BY <2>1, <2>2 DEF NewData
    <3> HIDE DEF data
    <3> QED
      BY <1>2, <1>4, <2>2, <3>1 DEF ObjectDataValid, S3Valid, data
  <2>3. CASE s = "dynamodb"
    <3>1. data.mode = "full" /\ data.limits = [i \in DOMAIN DynamoLimits |-> 0]
      BY <2>1, <2>3 DEF NewData
    <3> HIDE DEF data
    <3> QED
      BY <1>2, <1>4, <2>3, <3>1 DEF ObjectDataValid, data
  <2> QED
    BY <2>2, <2>3
<1> QED
  BY <1>1, <1>3, <1>4

LEMMA StreamDataKept ==
  ASSUME NEW s \in {"kinesis", "sqs"}, NEW choice \in {"", "bounded", "full"}
  PROVE  StreamDataValid(s, WizardData(s, choice)) /\ (s = "kinesis" => WizardData(s, choice) = NoData)
<1>1. CASE choice = "" \/ s = "kinesis"
  BY <1>1 DEF WizardData, StreamDataValid
<1>2. CASE choice # "" /\ s = "sqs"
  <2>1. WizardData(s, choice) = NewData(s)
    BY <1>2 DEF WizardData
  <2>2. NewData(s).mode = "bounded" /\ NewData(s).limits = SQSLimits
    BY <1>2 DEF NewData
  <2> QED
    BY <1>2, <2>1, <2>2, DefaultLimits DEF StreamDataValid
<1> QED
  BY <1>1, <1>2

LEMMA SelectedAreValid ==
  ASSUME NEW selected \in Selections, NEW r \in selected
  PROVE  LET s == r.service  w == WizardResource(s, r)
         IN  /\ s \in Services /\ w.name \in STRING \ {""} /\ r.choice \in {"", "bounded", "full"}
             /\ Listable(r) <=> (s \in DOMAIN ArnForm => NameValid(s, w.name) /\ ArnValid(s, w))
             /\ s = "s3" => S3Valid(w.data)
             /\ s = "dynamodb" => ObjectDataValid(w.data)
             /\ s \in {"kinesis", "sqs"} => StreamDataValid(s, w.data)
<1> DEFINE s == r.service
           w == WizardResource(s, r)
<1>1. s \in Services /\ r.name \in STRING \ {""} /\ r.choice \in {"", "bounded", "full"}
  BY SelectionsAssumption, Zenon
<1>3. w.name = r.name /\ w.arn = r.arn /\ w.data = WizardData(s, r.choice)
  BY DEF WizardResource
<1> HIDE DEF w
<1>4. Listable(r) <=> (s \in DOMAIN ArnForm => NameValid(s, w.name) /\ ArnValid(s, w))
  BY <1>3, Zenon DEF ArnValid, Listable
<1>5. /\ s = "s3" => S3Valid(w.data)
      /\ s = "dynamodb" => ObjectDataValid(w.data)
      /\ s \in {"kinesis", "sqs"} => StreamDataValid(s, w.data)
  BY <1>1, <1>3, ObjectDataKept, StreamDataKept
<1> HIDE DEF s
<1> QED
  BY <1>1, <1>3, <1>4, <1>5 DEF w, s

LEMMA WizardScalarsValid ==
  ASSUME NEW time, NEW res PROVE ScalarsValid(Plain(TRUE, "digits", time, res))
<1> DEFINE p == Plain(TRUE, "digits", time, res)
<1>1. /\ p.schema = 1 /\ p.region /\ p.account = "digits" /\ p.version = "supported"
      /\ p.port = 4566 /\ p.replayWorkers = 4 /\ p.resourceWorkers = 2 /\ p.directory = ".floceed"
  BY Zenon DEF Plain
<1> HIDE DEF p
<1>2. ScalarsValid(p)
  BY <1>1 DEF ScalarsValid
<1> QED
  BY <1>2 DEF p

LEMMA WizardListsValid ==
  ASSUME NEW selected \in Selections, NEW s \in Services
  PROVE  /\ UniqueNames(WizardLists(selected)[s])
         /\ \A i \in DOMAIN WizardLists(selected)[s] :
              \E r \in selected :
                r.service = s /\ WizardLists(selected)[s][i] = WizardResource(s, r)
         /\ \A r \in selected : r.service = s =>
              \E i \in DOMAIN WizardLists(selected)[s] :
                WizardLists(selected)[s][i] = WizardResource(s, r)
<1> DEFINE list == WizardLists(selected)[s]
<1>1. list = SetToSeq(WizardResources(s, selected))
  BY DEF WizardLists
<1> HIDE DEF list
<1>2. /\ \A i \in DOMAIN list : \E r \in selected : r.service = s /\ list[i] = WizardResource(s, r)
      /\ \A r \in selected : r.service = s => \E i \in DOMAIN list : list[i] = WizardResource(s, r)
      /\ \A i, j \in DOMAIN list : list[i].name = list[j].name => i = j
  BY <1>1, SelectedAreListed
<1>3. \A r \in selected : r.service = s => WizardResource(s, r).name # ""
  BY SelectedAreValid
<1> QED
  BY <1>2, <1>3 DEF UniqueNames, list

LEMMA ListableResourcesValid ==
  ASSUME NEW selected \in Selections, NEW p, p.resources = WizardLists(selected),
         \A q \in selected : Listable(q)
  PROVE  ResourcesValid(p)
<1> SUFFICES ASSUME NEW s \in Services
             PROVE  /\ UniqueNames(p.resources[s])
                    /\ \A i \in DOMAIN p.resources[s] :
                         LET r == p.resources[s][i]
                         IN  CASE s = "s3"       -> S3Valid(r.data)
                               [] s = "dynamodb" -> ObjectDataValid(r.data)
                               [] OTHER          -> /\ NameValid(s, r.name)
                                                    /\ ArnValid(s, r)
                                                    /\ s \in {"kinesis", "sqs"} => StreamDataValid(s, r.data)
  BY Zenon DEF ResourcesValid
<1>1. UniqueNames(p.resources[s])
  BY WizardListsValid, Zenon
<1> SUFFICES ASSUME NEW i \in DOMAIN p.resources[s], NEW r, r = p.resources[s][i]
             PROVE  CASE s = "s3"       -> S3Valid(r.data)
                      [] s = "dynamodb" -> ObjectDataValid(r.data)
                      [] OTHER          -> /\ NameValid(s, r.name)
                                           /\ ArnValid(s, r)
                                           /\ s \in {"kinesis", "sqs"} => StreamDataValid(s, r.data)
  BY <1>1, Zenon
<1>2. PICK q \in selected : q.service = s /\ r = WizardResource(s, q)
  BY WizardListsValid
<1>3. /\ s \in DOMAIN ArnForm => NameValid(s, r.name) /\ ArnValid(s, r)
      /\ s = "s3" => S3Valid(r.data)
      /\ s = "dynamodb" => ObjectDataValid(r.data)
      /\ s \in {"kinesis", "sqs"} => StreamDataValid(s, r.data)
  BY <1>2, SelectedAreValid, Zenon
<1>4. s = "s3" \/ s = "dynamodb" \/ s \in DOMAIN ArnForm
  BY DEF Services
<1>5. "s3" \notin DOMAIN ArnForm /\ "dynamodb" \notin DOMAIN ArnForm
  BY DEF ArnForm
<1> HIDE DEF ArnForm
<1> QED
  BY <1>3, <1>4, <1>5

LEMMA ValidResourcesListable ==
  ASSUME NEW selected \in Selections, NEW p, p.resources = WizardLists(selected),
         ResourcesValid(p), NEW q \in selected
  PROVE  Listable(q)
<1>1. q.service \in Services
  BY SelectedAreValid, Zenon
<1>2. PICK s \in Services : s = q.service
  BY <1>1
<1>3. PICK i \in DOMAIN p.resources[s] : p.resources[s][i] = WizardResource(s, q)
  <2>1. \A r \in selected : r.service = s =>
          \E i \in DOMAIN WizardLists(selected)[s] :
            WizardLists(selected)[s][i] = WizardResource(s, r)
    BY WizardListsValid, Zenon
  <2> QED
    BY <1>2, <2>1
<1>4. PICK r : r = p.resources[s][i]
  OBVIOUS
<1>5. "s3" \notin DOMAIN ArnForm /\ "dynamodb" \notin DOMAIN ArnForm
  BY DEF ArnForm
<1>6. ASSUME s \in DOMAIN ArnForm PROVE NameValid(s, r.name) /\ ArnValid(s, r)
  <2>1. (CASE s = "s3"       -> S3Valid(r.data)
           [] s = "dynamodb" -> ObjectDataValid(r.data)
           [] OTHER          -> /\ NameValid(s, r.name)
                                /\ ArnValid(s, r)
                                /\ s \in {"kinesis", "sqs"} => StreamDataValid(s, r.data))
    BY <1>4, Zenon DEF ResourcesValid
  <2>2. s # "s3" /\ s # "dynamodb"
    BY <1>5, <1>6
  <2> QED
    BY <2>1, <2>2
<1> QED
  BY <1>2, <1>3, <1>4, <1>6, SelectedAreValid, Zenon

(* The checks pass exactly the resources that can be listed in a file.      *)
LEMMA WizardResourcesValid ==
  ASSUME NEW selected \in Selections, NEW p, p.resources = WizardLists(selected)
  PROVE  ResourcesValid(p) <=> \A q \in selected : Listable(q)
BY ListableResourcesValid, ValidResourcesListable, Zenon

LEMMA WizardTimeoutSuffices ==
  ASSUME NEW selected \in Selections, NEW p, p.resources = WizardLists(selected),
         p.timeout = WizardTimeout(selected), HasFullData(p)
  PROVE  p.timeout > DefaultTimeout
<1>1. PICK s \in {"s3", "dynamodb", "kinesis"} :
        \E i \in DOMAIN p.resources[s] : EnabledFull(p.resources[s][i].data)
  BY Zenon DEF HasFullData
<1>2. PICK i \in DOMAIN p.resources[s] : EnabledFull(p.resources[s][i].data)
  BY <1>1
<1>3. s \in Services
  BY DEF Services, ArnForm
<1>4. PICK r \in selected : r.service = s /\ p.resources[s][i] = WizardResource(s, r)
  BY <1>3, WizardListsValid
<1>5. EnabledFull(WizardData(s, r.choice)) /\ r.choice \in {"", "bounded", "full"}
  <2>1. p.resources[s][i].data = WizardData(s, r.choice)
    BY <1>4 DEF WizardResource
  <2>2. r.choice \in {"", "bounded", "full"}
    BY SelectedAreValid, Zenon
  <2> QED
    BY <1>2, <2>1, <2>2, Zenon
<1>6. s # "kinesis"
  <2>1. s = "kinesis" => WizardData(s, r.choice) = NoData
    BY <1>5, StreamDataKept, Zenon
  <2>2. ~EnabledFull(NoData)
    BY DEF EnabledFull, NoData
  <2> QED
    BY <1>5, <2>1, <2>2, Zenon
<1>7. r.choice = "full"
  BY <1>5, <1>6, ObjectDataKept
<1>8. p.timeout = FullDataTimeout
  BY <1>4, <1>6, <1>7 DEF WizardTimeout
<1> QED
  BY <1>8 DEF FullDataTimeout, DefaultTimeout

(* The project file the user interface writes gets no defaults and passes   *)
(* every check but those of a selected resource's own name and ARN.         *)
LEMMA WrittenIsDecoded ==
  ASSUME NEW selected \in Selections
  PROVE  Decode(WizardProject(selected))
           = IF \A r \in selected : Listable(r) THEN WizardProject(selected) ELSE Rejected
<1> DEFINE p == Plain(TRUE, "digits", WizardTimeout(selected), WizardLists(selected))
<1>1. WizardProject(selected) = p
  BY WizardProjectIs
<1>2. /\ p.resources = WizardLists(selected) /\ p.timeout = WizardTimeout(selected)
      /\ p.profiles = << >>
  BY Zenon DEF Plain
<1>3. WizardTimeout(selected) # 0
  BY DEF WizardTimeout, FullDataTimeout, DefaultTimeout
<1>4. ApplyDefaults(p) = p
  BY <1>3, WizardResourceDefaults, PlainDefaults, Zenon
<1>5. ScalarsValid(p)
  BY WizardScalarsValid, Zenon
<1> HIDE DEF p
<1>6. ResourcesValid(p) <=> \A r \in selected : Listable(r)
  BY <1>2, WizardResourcesValid
<1>7. HasFullData(p) => p.timeout > DefaultTimeout
  BY <1>2, WizardTimeoutSuffices, Zenon
<1>8. ProfilesValid(p)
  <2>1. DOMAIN << >> = {}
    OBVIOUS
  <2> QED
    BY <1>2, <2>1, Zenon DEF ProfilesValid
<1>9. Validate(p) <=> \A r \in selected : Listable(r)
  BY <1>5, <1>6, <1>7, <1>8, Zenon DEF Validate
<1> QED
  BY <1>1, <1>4, <1>9, Zenon DEF Decode, Checked

(* What writes a project file, what loads it and what compiles its profiles *)
(* agree: a file of the user interface decodes to itself unless a selected  *)
(* resource's own name or ARN is refused, and every profile of a file that  *)
(* decodes compiles, whatever the files and the selections.                 *)
THEOREM FilesDoLoad == Spec => []FilesLoad
<1>1. ProjectInv => FilesLoad
  <2> SUFFICES ASSUME ProjectInv PROVE FilesLoad
    OBVIOUS
  <2>1. file \in Files /\ WellTyped(file)
    BY FilesAssumption, Zenon DEF ProjectInv
  <2>2. WrittenLoads
    BY WrittenIsDecoded, Zenon DEF WrittenLoads
  <2>3. ProfileCompiles
    BY <2>1, ProfilesCompile, Zenon DEF ProfileCompiles
  <2> QED
    BY <2>2, <2>3 DEF FilesLoad
<1> QED
  BY <1>1, ProjectInvariance, PTL

-----------------------------------------------------------------------------
(* The validators.  What the chunks of a dataset hold together.             *)
Summing(chunks, g) ==
  g = [n \in 0 .. Len(chunks) |->
         IF n = 0 THEN [records |-> 0, bytes |-> 0]
         ELSE [records |-> g[n - 1].records + chunks[n].records,
               bytes   |-> g[n - 1].bytes + chunks[n].bytes]]

LEMMA TotalsSum ==
  ASSUME NEW chunks, \E g : Summing(chunks, g)
  PROVE  \E g : Summing(chunks, g) /\ Totals(chunks) = g[Len(chunks)]
<1> DEFINE g == CHOOSE g : Summing(chunks, g)
<1>1. Summing(chunks, g)
  BY Zenon
<1>2. Totals(chunks) = g[Len(chunks)]
  BY Zenon DEF Totals, Summing
<1> QED
  BY <1>1, <1>2, Zenon

LEMMA TotalsOfNone == Totals(<< >>) = [records |-> 0, bytes |-> 0]
<1> DEFINE f == [n \in 0 .. 0 |-> [records |-> 0, bytes |-> 0]]
<1>1. Len(<< >>) = 0
  OBVIOUS
<1>2. Summing(<< >>, f)
  <2>1. f = [n \in 0 .. 0 |->
               IF n = 0 THEN [records |-> 0, bytes |-> 0]
               ELSE [records |-> f[n - 1].records + << >>[n].records,
                     bytes   |-> f[n - 1].bytes + << >>[n].bytes]]
    OBVIOUS
  <2> HIDE DEF f
  <2> QED
    BY <1>1, <2>1, Zenon DEF Summing
<1>3. PICK g : Summing(<< >>, g) /\ Totals(<< >>) = g[Len(<< >>)]
  BY <1>2, TotalsSum
<1>4. g[0] = [records |-> 0, bytes |-> 0]
  BY <1>1, <1>3 DEF Summing
<1> QED
  BY <1>1, <1>3, <1>4, Zenon

LEMMA TotalsOfOne ==
  ASSUME NEW chunk, chunk.records \in Nat, chunk.bytes \in Nat
  PROVE  Totals(<<chunk>>) = [records |-> chunk.records, bytes |-> chunk.bytes]
<1> DEFINE zero == [records |-> 0, bytes |-> 0]
           one == [records |-> 0 + chunk.records, bytes |-> 0 + chunk.bytes]
           f == [n \in 0 .. 1 |-> IF n = 0 THEN zero ELSE one]
<1>1. Len(<<chunk>>) = 1 /\ <<chunk>>[1] = chunk
  OBVIOUS
<1>2. Summing(<<chunk>>, f)
  <2>1. /\ f[0] = zero /\ zero.records = 0 /\ zero.bytes = 0
    OBVIOUS
  <2> DEFINE F(n) == IF n = 0 THEN [records |-> 0, bytes |-> 0]
                     ELSE [records |-> f[n - 1].records + <<chunk>>[n].records,
                           bytes   |-> f[n - 1].bytes + <<chunk>>[n].bytes]
  <2>2. \A n \in 0 .. 1 : (IF n = 0 THEN zero ELSE one) = F(n)
    <3>1. F(0) = zero
      OBVIOUS
    <3>2. F(1) = one
      <4>1. 1 # 0 /\ 1 - 1 = 0
        OBVIOUS
      <4> HIDE DEF f
      <4> QED
        BY <1>1, <2>1, <4>1, Zenon
    <3>3. \A n \in 0 .. 1 : n = 0 \/ n = 1
      OBVIOUS
    <3>4. 1 # 0
      OBVIOUS
    <3> HIDE DEF F, zero, one
    <3> QED
      BY <3>1, <3>2, <3>3, <3>4, Zenon
  <2>3. f = [n \in 0 .. 1 |-> F(n)]
    <3> HIDE DEF F, zero, one
    <3> QED
      BY <2>2, Zenon
  <2> HIDE DEF f
  <2> QED
    BY <1>1, <2>3, Zenon DEF Summing
<1>3. PICK g : Summing(<<chunk>>, g) /\ Totals(<<chunk>>) = g[Len(<<chunk>>)]
  BY <1>2, TotalsSum
<1>4. g = [n \in 0 .. 1 |->
             IF n = 0 THEN [records |-> 0, bytes |-> 0]
             ELSE [records |-> g[n - 1].records + <<chunk>>[n].records,
                   bytes   |-> g[n - 1].bytes + <<chunk>>[n].bytes]]
  BY <1>1, <1>3, Zenon DEF Summing
<1>5. g[0] = [records |-> 0, bytes |-> 0]
  BY <1>4
<1>6. g[1] = [records |-> g[0].records + chunk.records, bytes |-> g[0].bytes + chunk.bytes]
  BY <1>1, <1>4
<1>7. g[1] = [records |-> chunk.records, bytes |-> chunk.bytes]
  BY <1>5, <1>6
<1> QED
  BY <1>1, <1>3, <1>7, Zenon

(* A snapshot of a capture, and what its dataset may be.                    *)
SnapshotOf(structure, dataset) ==
  [service   |-> Service(project),
   resource  |-> [name |-> Only(project).name, arn |-> Only(project).arn],
   structure |-> structure, dataset |-> dataset]

DatasetAgreed(s) ==
  /\ DatasetValid(s)
  /\ ReplayDatasetValid(s) <=> ~(s.dataset # NoDataset /\ ~s.dataset.listed)

LEMMA NoDatasetAgreed == ASSUME NEW s, s.dataset = NoDataset PROVE DatasetAgreed(s)
BY DEF DatasetAgreed, DatasetValid, ReplayDatasetValid

LEMMA DatasetsAgreed ==
  ASSUME NEW s, s.service \in DOMAIN Formats, s.dataset.format \in Formats[s.service],
         \A i \in DOMAIN s.dataset.chunks : s.service = "s3" => s.dataset.chunks[i].index,
         SameTotals(s.dataset), s.dataset.listed \in BOOLEAN, s.dataset # NoDataset
  PROVE  DatasetAgreed(s)
BY Zenon DEF DatasetAgreed, DatasetValid, ReplayDatasetValid

LEMMA ObjectDatasetAgreed ==
  ASSUME Service(project) \in {"s3", "dynamodb"}, NEW governed,
         NEW chunks \in {<< >>, Chunks(governed)}, NEW structure
  PROVE  DatasetAgreed(SnapshotOf(structure, ObjectDataset(chunks)))
<1> DEFINE s == SnapshotOf(structure, ObjectDataset(chunks))
           dataset == ObjectDataset(chunks)
           totals == Totals(chunks)
           chunk == [records |-> 1, bytes |-> 1, index |-> TRUE, item |-> governed.item]
<1>1. s.service = Service(project) /\ s.dataset = dataset
  BY Zenon DEF SnapshotOf
<1>2. /\ dataset.format = IF Service(project) = "s3" THEN "s3-tar-gzip-v1" ELSE "dynamodb-ndjson-v1"
      /\ dataset.records = totals.records /\ dataset.bytes = totals.bytes
      /\ dataset.chunks = chunks /\ dataset.listed \in BOOLEAN
  <2>1. \A a, b, c, e :
          LET d == [format |-> a, records |-> b, bytes |-> c, listed |-> chunks # << >>, chunks |-> e]
          IN  /\ d.format = a /\ d.records = b /\ d.bytes = c /\ d.chunks = e /\ d.listed \in BOOLEAN
    OBVIOUS
  <2> QED
    BY <2>1, Zenon DEF ObjectDataset
<1>3. totals = [records |-> totals.records, bytes |-> totals.bytes]
  <2>1. CASE chunks = << >>
    BY <2>1, TotalsOfNone
  <2>2. CASE chunks = Chunks(governed)
    <3>1. chunks = <<chunk>>
      BY <2>2, Zenon DEF Chunks
    <3>2. chunk.records = 1 /\ chunk.bytes = 1
      BY Zenon
    <3>3. chunk.records \in Nat /\ chunk.bytes \in Nat
      BY <3>2
    <3> HIDE DEF chunk
    <3>4. Totals(<<chunk>>) = [records |-> chunk.records, bytes |-> chunk.bytes]
      BY <3>3, TotalsOfOne, Zenon
    <3> QED
      BY <3>1, <3>4
  <2> QED
    BY <2>1, <2>2
<1>4. \A i \in DOMAIN chunks : chunks[i].index
  <2>1. CASE chunks = << >>
    <3>1. DOMAIN << >> = {}
      OBVIOUS
    <3> QED
      BY <2>1, <3>1, Zenon
  <2>2. CASE chunks = Chunks(governed)
    <3>1. chunk.index
      BY Zenon
    <3>2. \A c : c.index => \A i \in DOMAIN <<c>> : <<c>>[i].index
      OBVIOUS
    <3> HIDE DEF chunk
    <3>3. \A i \in DOMAIN <<chunk>> : <<chunk>>[i].index
      BY <3>1, <3>2, Zenon
    <3>4. chunks = <<chunk>>
      BY <2>2, Zenon DEF Chunks, chunk
    <3> QED
      BY <3>3, <3>4, Zenon
  <2> QED
    BY <2>1, <2>2
<1> HIDE DEF s, dataset, totals, chunk
<1>5. SameTotals(dataset)
  BY <1>2, <1>3, Zenon DEF SameTotals, totals
<1>6. dataset.format \in Formats[Service(project)] /\ Service(project) \in DOMAIN Formats
  BY <1>2 DEF Formats
<1>7. dataset # NoDataset
  <2>1. dataset.format # ""
    BY <1>2
  <2>2. NoDataset.format = ""
    BY Zenon DEF NoDataset
  <2> QED
    BY <2>1, <2>2, Zenon
<1>8. DatasetAgreed(s)
  BY <1>1, <1>2, <1>4, <1>5, <1>6, <1>7, DatasetsAgreed, Zenon
<1> QED
  BY <1>8 DEF s

LEMMA RecordDatasetAgreed ==
  ASSUME Service(project) \in {"kinesis", "sqs"}, Records \in Nat, size \in Nat, NEW structure
  PROVE  DatasetAgreed(SnapshotOf(structure, Dataset))
<1> DEFINE s == SnapshotOf(structure, Dataset)
<1>1. s.service = Service(project) /\ s.dataset = Dataset
  BY Zenon DEF SnapshotOf
<1>2. /\ Dataset.format = IF Service(project) = "sqs" THEN "sqs-messages-ndjson-v1"
                          ELSE "kinesis-records-ndjson-v1"
      /\ Dataset.records = Records /\ Dataset.bytes = size
      /\ Dataset.chunks = <<Chunk>> /\ Dataset.listed
  <2>1. \A a, b, c, e :
          LET d == [format |-> a, records |-> b, bytes |-> c, listed |-> TRUE, chunks |-> e]
          IN  /\ d.format = a /\ d.records = b /\ d.bytes = c /\ d.chunks = e /\ d.listed
    OBVIOUS
  <2> QED
    BY <2>1, Zenon DEF Dataset
<1>3. Chunk.records = Records /\ Chunk.bytes = size
  BY Zenon DEF Chunk
<1>4. Totals(<<Chunk>>) = [records |-> Records, bytes |-> size]
  BY <1>3, TotalsOfOne, Zenon
<1> HIDE DEF s
<1>5. SameTotals(Dataset)
  BY <1>2, <1>4, Zenon DEF SameTotals
<1>6. Dataset.format \in Formats[Service(project)] /\ Service(project) \in DOMAIN Formats
  BY <1>2 DEF Formats
<1>7. Dataset # NoDataset
  <2>1. Dataset.format # ""
    BY <1>2
  <2>2. NoDataset.format = ""
    BY Zenon DEF NoDataset
  <2> QED
    BY <2>1, <2>2, Zenon
<1>8. Service(project) # "s3" /\ Dataset.listed \in BOOLEAN
  BY <1>2
<1>9. DatasetAgreed(s)
  BY <1>1, <1>5, <1>6, <1>7, <1>8, DatasetsAgreed, Zenon
<1> QED
  BY <1>9 DEF s

(* The ARN a structure shows, against the one its resource was found by.    *)
ShownArns(s, arn) ==
  IF s = "logs" THEN {[arn EXCEPT !.region = TRUE, !.suffix = x] : x \in {"", "star"}} ELSE {arn}

Suffixless(arn) == [arn EXCEPT !.suffix = ""]

LEMMA SuffixIgnored ==
  ASSUME NEW a \in Arns, NEW y, a.region
  PROVE  Suffixless([a EXCEPT !.region = TRUE, !.suffix = y]) = Suffixless(a)
<1> DEFINE b == [a EXCEPT !.region = TRUE, !.suffix = y]
<1>1. DOMAIN b = DOMAIN a /\ \A z \in DOMAIN a \ {"suffix"} : b[z] = a[z]
  BY DEF Arns
<1>2. \A f : Suffixless(f) = [z \in DOMAIN f |-> IF z = "suffix" THEN "" ELSE f[z]]
  BY Zenon DEF Suffixless
<1> HIDE DEF b
<1>3. [z \in DOMAIN b |-> IF z = "suffix" THEN "" ELSE b[z]]
        = [z \in DOMAIN a |-> IF z = "suffix" THEN "" ELSE a[z]]
  BY <1>1
<1>4. Suffixless(b) = Suffixless(a)
  BY <1>2, <1>3, Zenon
<1> QED
  BY <1>4 DEF b

LEMMA ShownArn ==
  ASSUME NEW s, NEW arn \in Arns, NEW shown \in ShownArns(s, arn)
  PROVE  /\ shown.service = arn.service /\ shown.form = arn.form /\ shown.name = arn.name
         /\ shown.account = arn.account
<1>1. CASE s # "logs"
  BY <1>1 DEF ShownArns
<1>2. CASE s = "logs"
  <2>1. PICK x \in {"", "star"} : shown = [arn EXCEPT !.region = TRUE, !.suffix = x]
    BY <1>2 DEF ShownArns
  <2> QED
    BY <2>1 DEF Arns
<1> QED
  BY <1>1, <1>2

LEMMA ShownLogGroup ==
  ASSUME NEW arn \in Arns, NEW shown \in ShownArns("logs", arn)
  PROVE  /\ shown.region /\ shown.suffix \in {"", "star"}
         /\ arn.region => Suffixless(arn) = Suffixless(shown)
<1>1. PICK x \in {"", "star"} : shown = [arn EXCEPT !.region = TRUE, !.suffix = x]
  BY DEF ShownArns
<1>2. \A a \in Arns : \A y :
        LET b == [a EXCEPT !.region = TRUE, !.suffix = y]
        IN  b.region = TRUE /\ b.suffix = y
  BY DEF Arns
<1>3. shown.region /\ shown.suffix = x
  BY <1>1, <1>2, Zenon
<1>4. arn.region => Suffixless(arn) = Suffixless(shown)
  BY <1>1, SuffixIgnored, Zenon
<1> QED
  BY <1>1, <1>3, <1>4, Zenon

SplitForms == {"function:", "secret:", "stateMachine:", "log-group:"}

LEMMA FormOf ==
  /\ ArnForm["sqs"] = "" /\ ArnForm["sns"] = "" /\ ArnForm["kinesis"] = "stream/"
  /\ ArnForm["events"] = "event-bus/" /\ ArnForm["ssm"] = "parameter"
  /\ ArnForm["lambda"] = "function:" /\ ArnForm["stepfunctions"] = "stateMachine:"
  /\ ArnForm["logs"] = "log-group:"
BY Zenon DEF ArnForm

LEMMA WholeForms ==
  ASSUME NEW s \in {"sqs", "sns", "kinesis", "events", "ssm"} PROVE ArnForm[s] \notin SplitForms
BY FormOf DEF SplitForms

LEMMA CutForms ==
  ASSUME NEW s \in {"lambda", "stepfunctions", "logs"} PROVE ArnForm[s] \in SplitForms
BY FormOf DEF SplitForms

LEMMA FormParts ==
  ASSUME NEW arn
  PROVE  /\ arn.form \notin SplitForms /\ arn.suffix # "star" => Parts(arn) = 6 + Colons(arn.name)
         /\ arn.form \in SplitForms /\ arn.suffix # "star" => Parts(arn) = 7 + Colons(arn.name)
         /\ arn.form \in SplitForms => Parts(arn) >= 7
         /\ Colons(arn.name) \in {0, 1}
<1>0. \A name : Colons(name) \in {0, 1}
  BY DEF Colons
<1>1. \A a : a.form \notin SplitForms /\ a.suffix # "star" => Parts(a) = 6 + Colons(a.name)
  BY <1>0 DEF Parts, SplitForms
<1>2. \A a : a.form \in SplitForms /\ a.suffix # "star" => Parts(a) = 7 + Colons(a.name)
  BY <1>0 DEF Parts, SplitForms
<1>3. \A a : a.form \in SplitForms => Parts(a) >= 7
  BY <1>0 DEF Parts, SplitForms
<1> QED
  BY <1>0, <1>1, <1>2, <1>3, Zenon

LEMMA ArnParts ==
  ASSUME NEW s, NEW arn, arn.form = ArnForm[s], SuffixValid(s, arn.suffix)
  PROVE  /\ s \in {"sqs", "sns", "kinesis", "events", "ssm"} => Parts(arn) = 6 + Colons(arn.name)
         /\ s \in {"lambda", "stepfunctions"} => Parts(arn) = 7 + Colons(arn.name)
         /\ s = "logs" => Parts(arn) >= 7
         /\ Colons(arn.name) \in {0, 1}
<1>1. s \in {"sqs", "sns", "kinesis", "events", "ssm", "lambda", "stepfunctions"} => arn.suffix # "star"
  BY DEF SuffixValid
<1>2. s \in {"sqs", "sns", "kinesis", "events", "ssm"} => Parts(arn) = 6 + Colons(arn.name)
  <2> SUFFICES ASSUME s \in {"sqs", "sns", "kinesis", "events", "ssm"}
               PROVE  Parts(arn) = 6 + Colons(arn.name)
    OBVIOUS
  <2>1. arn.form \notin SplitForms
    BY WholeForms, Zenon
  <2>2. arn.suffix # "star"
    BY <1>1
  <2> QED
    BY <2>1, <2>2, FormParts, Zenon
<1>3. s \in {"lambda", "stepfunctions"} => Parts(arn) = 7 + Colons(arn.name)
  <2> SUFFICES ASSUME s \in {"lambda", "stepfunctions"} PROVE Parts(arn) = 7 + Colons(arn.name)
    OBVIOUS
  <2>1. s \in {"lambda", "stepfunctions", "logs"}
    OBVIOUS
  <2>2. arn.form \in SplitForms
    BY <2>1, CutForms, Zenon
  <2>3. arn.suffix # "star"
    BY <1>1
  <2> QED
    BY <2>2, <2>3, FormParts, Zenon
<1>4. s = "logs" => Parts(arn) >= 7
  <2> SUFFICES ASSUME s = "logs" PROVE Parts(arn) >= 7
    OBVIOUS
  <2>1. s \in {"lambda", "stepfunctions", "logs"}
    OBVIOUS
  <2>2. arn.form \in SplitForms
    BY <2>1, CutForms, Zenon
  <2> QED
    BY <2>2, FormParts, Zenon
<1>5. Colons(arn.name) \in {0, 1}
  BY FormParts, Zenon
<1> QED
  BY <1>2, <1>3, <1>4, <1>5, Zenon

(* The names that config.go lets by have a colon where it allows any name.  *)
LEMMA ColonNames ==
  ASSUME NEW s \in {"sqs", "sns", "kinesis", "events", "lambda"}, NEW name, NameValid(s, name)
  PROVE  Colons(name) = 0
BY DEF NameValid, DependencyName, Colons

(* The exception: no region or no account in an ARN that config.go lets by. *)
Bare(s, arn) == s \in {"stepfunctions", "logs"} /\ ~(arn.region /\ arn.account)

(* A snapshot of a resource whose ARN config.go has checked.                *)
ShowsResource(snap, s, r, shown) ==
  /\ snap.service = s /\ snap.structure.arn = shown
  /\ snap.resource.name = r.name /\ snap.resource.arn = r.arn

LEMMA ShownIsValid ==
  ASSUME NEW s, NEW r, r.arn \in Arns, ArnValid(s, r), NEW shown \in ShownArns(s, r.arn)
  PROVE  /\ shown.service = s /\ shown.form = ArnForm[s] /\ shown.name = r.name
         /\ SuffixValid(s, shown.suffix)
         /\ s # "apigateway" => shown.account
         /\ s \notin NoRegionNeeded => shown.region
         /\ r.arn.region => shown.region
<1>1. /\ shown.service = r.arn.service /\ shown.form = r.arn.form /\ shown.name = r.arn.name
      /\ shown.account = r.arn.account
  BY ShownArn
<1>2. s # "logs" => shown = r.arn
  BY DEF ShownArns
<1>3. s = "logs" => shown.region /\ shown.suffix \in {"", "star"}
  BY ShownLogGroup
<1>4. r.arn.service = s /\ r.arn.form = ArnForm[s] /\ r.arn.name = r.name
  BY Zenon DEF ArnValid
<1>5. SuffixValid(s, r.arn.suffix)
  BY Zenon DEF ArnValid
<1>6. (r.arn.region \/ s \in NoRegionNeeded) /\ (r.arn.account \/ s \in NoAccountNeeded)
  BY Zenon DEF ArnValid
<1>7. SuffixValid(s, shown.suffix)
  <2>1. s = "logs" => SuffixValid(s, shown.suffix)
    BY <1>3 DEF SuffixValid
  <2> QED
    BY <1>2, <1>5, <2>1, Zenon
<1>8. s # "apigateway" => shown.account
  BY <1>1, <1>6, Zenon DEF NoAccountNeeded
<1>9. (s \notin NoRegionNeeded => shown.region) /\ (r.arn.region => shown.region)
  BY <1>2, <1>3, <1>6, Zenon
<1> QED
  BY <1>1, <1>4, <1>7, <1>8, <1>9, Zenon

LEMMA ModelAcceptsArn ==
  ASSUME NEW s \in DOMAIN ArnForm, NEW r, r.arn \in Arns, ArnValid(s, r),
         NEW shown \in ShownArns(s, r.arn), NEW snap, ShowsResource(snap, s, r, shown),
         ~Bare(s, r.arn)
  PROVE  StructureArnValid(snap)
<1>1. /\ shown.service = s /\ shown.form = ArnForm[s] /\ shown.name = r.name
      /\ SuffixValid(s, shown.suffix)
  BY ShownIsValid
<1>2. s # "apigateway" => shown.region /\ shown.account
  <2>1. s # "apigateway" => shown.account
    BY ShownIsValid, Zenon
  <2>2. s \notin NoRegionNeeded => shown.region
    BY ShownIsValid, Zenon
  <2>3. r.arn.region => shown.region
    BY ShownIsValid, Zenon
  <2>4. s \in NoRegionNeeded /\ s # "apigateway" => r.arn.region
    BY DEF Bare, NoRegionNeeded
  <2> QED
    BY <2>1, <2>2, <2>3, <2>4
<1>3. s # "logs" => snap.resource.arn = shown
  BY DEF ShownArns, ShowsResource
<1>4. s = "logs" => [snap.resource.arn EXCEPT !.suffix = ""] = [shown EXCEPT !.suffix = ""]
  <2>1. s = "logs" => r.arn.region
    BY DEF Bare
  <2>2. s = "logs" /\ r.arn.region => Suffixless(r.arn) = Suffixless(shown)
    BY ShownLogGroup
  <2> QED
    BY <2>1, <2>2, Zenon DEF ShowsResource, Suffixless
<1> QED
  BY <1>1, <1>2, <1>3, <1>4, Zenon DEF StructureArnValid, ShowsResource

(* The exceptions of replay.py: a secret, and a colon in a name.            *)
Apart(s, name) == s = "secretsmanager" \/ (s \in {"ssm", "stepfunctions"} /\ Colons(name) > 0)

LEMMA ReplayAcceptsArn ==
  ASSUME NEW s \in DOMAIN ArnForm, NEW r, r.arn \in Arns, ArnValid(s, r), NameValid(s, r.name),
         NEW shown \in ShownArns(s, r.arn), NEW snap, ShowsResource(snap, s, r, shown)
  PROVE  ReplayArnValid(snap) <=> ~Apart(s, r.name)
<1>1. /\ shown.service = s /\ shown.form = ArnForm[s] /\ shown.name = r.name
      /\ SuffixValid(s, shown.suffix)
  BY ShownIsValid
<1>2. s \in {"sqs", "sns", "kinesis", "events", "ssm"} => Parts(shown) = 6 + Colons(r.name)
  BY <1>1, ArnParts, Zenon
<1>3. s \in {"lambda", "stepfunctions"} => Parts(shown) = 7 + Colons(r.name)
  BY <1>1, ArnParts, Zenon
<1>4. s = "logs" => Parts(shown) >= 7
  BY <1>1, ArnParts, Zenon
<1>5. s \in {"sqs", "sns", "kinesis", "events", "ssm", "lambda", "stepfunctions", "apigateway",
            "logs", "secretsmanager"}
  BY DEF ArnForm
<1>6. snap.service = s /\ snap.structure.arn = shown /\ snap.resource.name = shown.name
  BY <1>1, Zenon DEF ShowsResource
<1>7. Colons(r.name) \in {0, 1}
  BY <1>1, ArnParts, Zenon
<1>8. s \in {"sqs", "sns", "kinesis", "events", "lambda"} => Colons(r.name) = 0
  BY ColonNames
<1>9. s = "secretsmanager" => shown.form # ""
  BY <1>1 DEF ArnForm
<1>10. CASE s = "secretsmanager"
  BY <1>1, <1>6, <1>9, <1>10 DEF ReplayArnValid, Apart
<1> DEFINE count == Parts(shown)
           colons == Colons(r.name)
<1>12. /\ s \in {"sqs", "sns", "kinesis", "events", "ssm"} => (ReplayArnValid(snap) <=> count = 6)
       /\ s \in {"lambda", "stepfunctions"} => (ReplayArnValid(snap) <=> count = 7)
       /\ s = "apigateway" => ReplayArnValid(snap)
       /\ s = "logs" => (ReplayArnValid(snap) <=> count >= 7)
  BY <1>1, <1>6 DEF ReplayArnValid
<1>13. Apart(s, r.name) <=> s = "secretsmanager" \/ (s \in {"ssm", "stepfunctions"} /\ colons > 0)
  BY Zenon DEF Apart
<1> HIDE DEF count, colons
<1>14. /\ s \in {"sqs", "sns", "kinesis", "events", "ssm"} => count = 6 + colons
       /\ s \in {"lambda", "stepfunctions"} => count = 7 + colons
       /\ s = "logs" => count >= 7
       /\ colons \in {0, 1}
       /\ s \in {"sqs", "sns", "kinesis", "events", "lambda"} => colons = 0
  BY <1>2, <1>3, <1>4, <1>7, <1>8, Zenon DEF count, colons
<1>11. CASE s # "secretsmanager"
  BY <1>5, <1>11, <1>12, <1>13, <1>14
<1> QED
  BY <1>10, <1>11

LEMMA StructuresAgreed ==
  ASSUME NEW s \in Services, s = Service(project), Only(project).name # "",
         s \in DOMAIN ArnForm => /\ Only(project).arn \in Arns /\ ArnValid(s, Only(project))
                                /\ NameValid(s, Only(project).name),
         NEW arn, s \in DOMAIN ArnForm => arn \in ShownArns(s, Only(project).arn), NEW dataset
  PROVE  /\ Bare(s, Only(project).arn) \/ ValidateSnapshot(SnapshotOf(Structure(arn), dataset))
         /\ ReplaySnapshotValid(SnapshotOf(Structure(arn), dataset))
              <=> ~Apart(s, Only(project).name)
<1> DEFINE snap == SnapshotOf(Structure(arn), dataset)
           r == Only(project)
<1>1. /\ snap.structure.version = 1
      /\ snap.structure.name = r.name /\ snap.structure.region /\ snap.structure.keys
      /\ ShowsResource(snap, s, r, arn)
  BY Zenon DEF SnapshotOf, Structure, ShowsResource
<1> HIDE DEF snap, r
<1>2. s \in DOMAIN ArnForm => Bare(s, r.arn) \/ StructureArnValid(snap)
  BY <1>1, ModelAcceptsArn, Zenon DEF r
<1>3. s \in DOMAIN ArnForm => (ReplayArnValid(snap) <=> ~Apart(s, r.name))
  BY <1>1, ReplayAcceptsArn, Zenon DEF r
<1>4. s = "s3" \/ s = "dynamodb" \/ s \in DOMAIN ArnForm
  BY DEF Services
<1>5. "s3" \notin DOMAIN ArnForm /\ "dynamodb" \notin DOMAIN ArnForm
  BY DEF ArnForm
<1>6. snap.service = s /\ snap.structure.name = snap.resource.name /\ snap.structure.name # ""
  BY <1>1, Zenon DEF ShowsResource, r
<1>7. Bare(s, r.arn) \/ ValidateSnapshot(snap)
  BY <1>1, <1>2, <1>4, <1>5, <1>6 DEF ValidateSnapshot
<1>8. ReplaySnapshotValid(snap) <=> ~Apart(s, r.name)
  <2>1. CASE s = "s3" \/ s = "dynamodb"
    BY <1>1, <1>6, <2>1 DEF ReplaySnapshotValid, Apart
  <2>2. CASE s # "s3" /\ s # "dynamodb"
    <3>1. ReplaySnapshotValid(snap) <=> ReplayArnValid(snap)
      BY <1>1, <1>6, <2>2 DEF ReplaySnapshotValid
    <3> QED
      BY <1>3, <1>4, <2>2, <3>1, Zenon
  <2> QED
    BY <2>1, <2>2
<1> QED
  BY <1>7, <1>8, Zenon DEF snap, r

(* What is known of the resource that is captured.                          *)
LEMMA ResourceKnown ==
  ASSUME NEW f, WellTyped(f), Decode(f) # Rejected, NEW s, s = Service(Decode(f))
  PROVE  /\ s \in Services /\ Only(Decode(f)).name # ""
         /\ s \in DOMAIN ArnForm => /\ Only(Decode(f)).arn \in Arns /\ ArnValid(s, Only(Decode(f)))
                                   /\ NameValid(s, Only(Decode(f)).name)
<1> DEFINE p == ApplyDefaults(f)
<1>1. Decode(f) = p /\ Validate(p)
  BY Passed
<1>2. /\ f.resources[s][1] \in Resources(s) /\ 1 \in DOMAIN p.resources[s]
      /\ Only(p) = Completed(s, f.resources[s][1]) /\ s \in Services
  BY <1>1, TheResource, SomeService, Zenon
<1>3. Only(p) = p.resources[s][1]
  BY <1>1, Zenon DEF Only
<1>4. ResourcesValid(p)
  BY <1>1, Zenon DEF Validate
<1> HIDE DEF p
<1>5. UniqueNames(p.resources[s])
  BY <1>2, <1>4, Zenon DEF ResourcesValid
<1>6. Only(p).name # ""
  BY <1>2, <1>3, <1>5, Zenon DEF UniqueNames
<1>7. s \in DOMAIN ArnForm => ArnValid(s, Only(p)) /\ NameValid(s, Only(p).name)
  <2>1. CASE s = "s3" \/ s = "dynamodb"
    BY <2>1 DEF ArnForm
  <2>2. CASE s # "s3" /\ s # "dynamodb"
    <3>1. LET r == p.resources[s][1]
          IN  CASE s = "s3"       -> S3Valid(r.data)
                [] s = "dynamodb" -> ObjectDataValid(r.data)
                [] OTHER          -> /\ NameValid(s, r.name)
                                     /\ ArnValid(s, r)
                                     /\ s \in {"kinesis", "sqs"} => StreamDataValid(s, r.data)
      BY <1>2, <1>4, Zenon DEF ResourcesValid
    <3> QED
      BY <1>3, <2>2, <3>1
  <2> QED
    BY <2>1, <2>2
<1>8. s \in DOMAIN ArnForm => Only(p).arn \in Arns
  <2>1. \A r \in Resources(s) : Completed(s, r).arn = r.arn
    BY DEF Resources, Completed
  <2>2. \A r \in Resources(s) : s \in DOMAIN ArnForm => r.arn \in Arns
    BY DEF Resources
  <2> QED
    BY <1>2, <2>1, <2>2
<1> QED
  BY <1>1, <1>2, <1>6, <1>7, <1>8, Zenon

LEMMA OnesBefore == ASSUME NEW n \in Nat, NEW i \in 1 .. n, NEW j \in 1 .. i - 1
                    PROVE  j \in 1 .. n /\ j # i
OBVIOUS

LEMMA CountsInBuckets == \A n \in {0, 1} : BucketCount(n) \in Buckets
<1>1. BucketCount(0) = "0"
  BY DEF BucketCount
<1>2. BucketCount(1) = "1-9"
  BY DEF BucketCount
<1> QED
  BY <1>1, <1>2 DEF Buckets

(* An audit lists every rule and every cohort of the policy once.           *)
LEMMA AuditsAgreed ==
  ASSUME NEW name, name # "", NEW policy, NEW applied,
         IsFiniteSet(policy.rules), IsFiniteSet(policy.cohorts),
         \A r \in policy.rules : r.id > 0 /\ r.action \in Actions,
         \A r, q \in policy.rules : r.id = q.id => r = q
  PROVE  AuditValid(GovernanceAudit(name, policy, applied))
           /\ ReplayAuditValid(GovernanceAudit(name, policy, applied))
<1> DEFINE line(r) == [id |-> r.id, action |-> r.action,
                       count |-> BucketCount(IF r.id \in applied THEN 1 ELSE 0)]
           row(c) == [resource |-> c.resource, eligible |-> BucketCount(1),
                      retained |-> BucketCount(1)]
           lines == {line(r) : r \in policy.rules}
           rows == {row(c) : c \in policy.cohorts}
           audit == GovernanceAudit(name, policy, applied)
           rules == SetToSeq(lines)
           cohorts == SetToSeq(rows)
<1>1. audit.profile = name /\ audit.rules = rules /\ audit.cohorts = cohorts
  BY Zenon DEF GovernanceAudit
<1>2. IsFiniteSet(lines)
  <2> DEFINE f == [r \in policy.rules |-> line(r)]
  <2>1. f \in Surjection(policy.rules, lines)
    <3> HIDE DEF line
    <3> QED
      BY Zenon DEF Surjection
  <2> QED
    BY <2>1, FS_Surjection, Zenon
<1>3. IsFiniteSet(rows)
  <2> DEFINE f == [c \in policy.cohorts |-> row(c)]
  <2>1. f \in Surjection(policy.cohorts, rows)
    <3> HIDE DEF row
    <3> QED
      BY Zenon DEF Surjection
  <2> QED
    BY <2>1, FS_Surjection, Zenon
<1>4. \A x \in lines : x.id > 0 /\ x.action \in Actions /\ x.count \in Buckets
  <2> SUFFICES ASSUME NEW r \in policy.rules
               PROVE  line(r).id > 0 /\ line(r).action \in Actions /\ line(r).count \in Buckets
    BY Zenon
  <2>1. line(r).id = r.id /\ line(r).action = r.action
          /\ line(r).count = BucketCount(IF r.id \in applied THEN 1 ELSE 0)
    BY Zenon
  <2>2. (IF r.id \in applied THEN 1 ELSE 0) \in {0, 1}
    OBVIOUS
  <2> HIDE DEF line
  <2> QED
    BY <2>1, <2>2, CountsInBuckets, Zenon
<1>5. \A x, y \in lines : x.id = y.id => x = y
  <2> SUFFICES ASSUME NEW x \in lines, NEW y \in lines, x.id = y.id PROVE x = y
    BY Zenon
  <2>1. PICK r \in policy.rules : x = line(r)
    BY Zenon
  <2>2. PICK q \in policy.rules : y = line(q)
    BY Zenon
  <2>3. x.id = r.id /\ y.id = q.id
    BY <2>1, <2>2, Zenon
  <2>4. r = q
    BY <2>3, Zenon
  <2> HIDE DEF line
  <2> QED
    BY <2>1, <2>2, <2>4, Zenon
<1>6. \A x \in rows : x.eligible \in Buckets /\ x.retained \in Buckets
  <2> SUFFICES ASSUME NEW c \in policy.cohorts
               PROVE  row(c).eligible \in Buckets /\ row(c).retained \in Buckets
    BY Zenon
  <2>1. row(c).eligible = BucketCount(1) /\ row(c).retained = BucketCount(1)
    BY Zenon
  <2> HIDE DEF row
  <2> QED
    BY <2>1, CountsInBuckets
<1>7. \A x, y \in rows : x.resource = y.resource => x = y
  <2> SUFFICES ASSUME NEW x \in rows, NEW y \in rows, x.resource = y.resource PROVE x = y
    BY Zenon
  <2>1. PICK c \in policy.cohorts : x = row(c)
    BY Zenon
  <2>2. PICK d \in policy.cohorts : y = row(d)
    BY Zenon
  <2>3. c.resource = d.resource
    BY <2>1, <2>2, Zenon
  <2> QED
    BY <2>1, <2>2, <2>3, Zenon
<1> HIDE DEF audit, lines, rows
<1>8. /\ DOMAIN rules = 1 .. Cardinality(lines) /\ Cardinality(lines) \in Nat
      /\ \A i \in DOMAIN rules : rules[i] \in lines
      /\ \A i, j \in DOMAIN rules : rules[i] = rules[j] => i = j
  BY <1>2, Listing, FS_CardinalityType
<1>9. /\ DOMAIN cohorts = 1 .. Cardinality(rows) /\ Cardinality(rows) \in Nat
      /\ \A i \in DOMAIN cohorts : cohorts[i] \in rows
      /\ \A i, j \in DOMAIN cohorts : cohorts[i] = cohorts[j] => i = j
  BY <1>3, Listing, FS_CardinalityType
<1> HIDE DEF rules, cohorts
<1>10. /\ \A i \in DOMAIN rules :
            rules[i].id > 0 /\ rules[i].action \in Actions /\ rules[i].count \in Buckets
       /\ \A i, j \in DOMAIN rules : rules[i].id = rules[j].id => i = j
  BY <1>4, <1>5, <1>8, Zenon
<1>11. /\ \A i \in DOMAIN cohorts :
            cohorts[i].eligible \in Buckets /\ cohorts[i].retained \in Buckets
       /\ \A i, j \in DOMAIN cohorts : cohorts[i].resource = cohorts[j].resource => i = j
  BY <1>6, <1>7, <1>9, Zenon
<1>12. AuditValid(audit)
  BY <1>1, <1>10, <1>11, Zenon DEF AuditValid
<1>13. \A i \in DOMAIN rules : rules[i].id \notin {rules[j].id : j \in 1 .. i - 1}
  <2>2. \A i \in DOMAIN rules : \A j \in 1 .. i - 1 : j \in DOMAIN rules /\ j # i
    BY <1>8, OnesBefore, Zenon
  <2> QED
    BY <1>10, <2>2, Zenon
<1>14. \A i \in DOMAIN cohorts : cohorts[i].resource \notin {cohorts[j].resource : j \in 1 .. i - 1}
  <2>2. \A i \in DOMAIN cohorts : \A j \in 1 .. i - 1 : j \in DOMAIN cohorts /\ j # i
    BY <1>9, OnesBefore, Zenon
  <2> QED
    BY <1>11, <2>2, Zenon
<1>15. ReplayAuditValid(audit)
  <2>1. audit.profile # ""
    BY <1>1, Zenon
  <2>2. /\ \A i \in DOMAIN audit.rules : audit.rules[i].id > 0 /\ audit.rules[i].action \in Actions
                                         /\ audit.rules[i].count \in Buckets
        /\ \A i \in DOMAIN audit.cohorts : audit.cohorts[i].eligible \in Buckets
                                           /\ audit.cohorts[i].retained \in Buckets
    BY <1>1, <1>10, <1>11, Zenon
  <2>3. \A i \in DOMAIN audit.rules :
          audit.rules[i].id \notin {audit.rules[j].id : j \in 1 .. i - 1}
    BY <1>1, <1>13
  <2>4. \A i \in DOMAIN audit.cohorts :
          audit.cohorts[i].resource \notin {audit.cohorts[j].resource : j \in 1 .. i - 1}
    BY <1>1, <1>14
  <2> QED
    BY <2>1, <2>2, <2>3, <2>4 DEF ReplayAuditValid
<1> QED
  BY <1>12, <1>15, Zenon DEF audit

(* What a policy has to audit: rules with an identity each, finitely many.  *)
LEMMA PolicyAudited ==
  ASSUME NEW f, WellTyped(f), Decode(f) # Rejected, NEW n \in DOMAIN f.profiles,
         NEW secret, NEW policy, policy = ResolveFixtureProfile(Decode(f), n, secret),
         policy # Rejected
  PROVE  /\ IsFiniteSet(policy.rules) /\ IsFiniteSet(policy.cohorts)
         /\ \A r \in policy.rules : r.id > 0 /\ r.action \in Actions
         /\ \A r, q \in policy.rules : r.id = q.id => r = q
<1> DEFINE p == ApplyDefaults(f)
           rules == f.profiles[n].rules
           cohorts == p.profiles[n].cohorts
<1>1. /\ rules \in Seq(GovernanceRules)
      /\ policy = NewEffectivePolicy(p.profiles[n])
      /\ policy.rules = {NormalRule(rules[i]) : i \in DOMAIN rules}
      /\ \A i \in DOMAIN rules : RuleValid(p, rules[i])
      /\ \A i, j \in DOMAIN rules : rules[i].id = rules[j].id => i = j
  BY PolicyRules
<1>2. /\ cohorts = CohortDefaults(f.profiles[n].cohorts)
      /\ f.profiles[n].cohorts \in Seq(GovernanceCohorts)
  BY ProfileFields DEF FixtureProfiles
<1>3. IsFiniteSet(policy.rules)
  <2> DEFINE g == [i \in DOMAIN rules |-> NormalRule(rules[i])]
  <2>1. IsFiniteSet(DOMAIN rules)
    BY <1>1, FS_Interval
  <2>2. g \in Surjection(DOMAIN rules, policy.rules)
    BY <1>1, Zenon DEF Surjection
  <2> QED
    BY <2>1, <2>2, FS_Surjection, Zenon
<1>4. IsFiniteSet(policy.cohorts)
  <2> DEFINE g == [i \in DOMAIN cohorts |-> NormalCohort(cohorts[i])]
  <2>1. IsFiniteSet(DOMAIN cohorts)
    <3>1. DOMAIN cohorts = DOMAIN f.profiles[n].cohorts
      BY <1>2, Zenon DEF CohortDefaults
    <3>2. DOMAIN f.profiles[n].cohorts = 1 .. Len(f.profiles[n].cohorts)
          /\ Len(f.profiles[n].cohorts) \in Nat
      <4>1. \A S : \A q \in Seq(S) : DOMAIN q = 1 .. Len(q) /\ Len(q) \in Nat
        OBVIOUS
      <4> QED
        BY <1>2, <4>1, Zenon
    <3>3. IsFiniteSet(1 .. Len(f.profiles[n].cohorts))
      BY <3>2, FS_Interval
    <3> QED
      BY <3>1, <3>2, <3>3, Zenon
  <2>2. policy.cohorts = Range(g)
    <3>1. NewEffectivePolicy(p.profiles[n]) # Rejected
      BY <1>1
    <3> HIDE DEF p
    <3>2. NewEffectivePolicy(p.profiles[n]).cohorts = Range(g)
      BY <3>1 DEF NewEffectivePolicy
    <3> QED
      BY <1>1, <3>2, Zenon
  <2>3. Range(g) = {NormalCohort(cohorts[i]) : i \in DOMAIN cohorts}
    BY DEF Range
  <2>4. g \in Surjection(DOMAIN cohorts, policy.cohorts)
    BY <2>2, <2>3, Zenon DEF Surjection
  <2> QED
    BY <2>1, <2>4, FS_Surjection, Zenon
<1>5. \A i \in DOMAIN rules : rules[i].id > 0 /\ rules[i].action \in Actions
  BY <1>1, Zenon DEF RuleValid
<1>6. \A i \in DOMAIN rules :
        NormalRule(rules[i]).id = rules[i].id /\ NormalRule(rules[i]).action = rules[i].action
  <2>1. \A i \in DOMAIN rules : rules[i] \in GovernanceRules
    BY <1>1
  <2> QED
    BY <2>1, RuleNormal, Zenon
<1> HIDE DEF rules
<1>7. \A r \in policy.rules : r.id > 0 /\ r.action \in Actions
  BY <1>1, <1>5, <1>6
<1>8. \A r, q \in policy.rules : r.id = q.id => r = q
  BY <1>1, <1>6
<1> QED
  BY <1>3, <1>4, <1>7, <1>8

(* What the validators say of the manifest of a capture, in the words of    *)
(* ManifestAccepted and ReplayAgrees.                                       *)
Agreed(m) ==
  /\ ManifestValid(m) \/ Bare(Service(project), Only(project).arn)
  /\ ValidateBundle(m) <=>
       /\ ~Apart(Service(project), Only(project).name)
       /\ ~\E snapshot \in Range(m.snapshots) :
             snapshot.dataset # NoDataset /\ ~snapshot.dataset.listed

AuditAgreed(governance) ==
  governance # Ungoverned => AuditValid(governance) /\ ReplayAuditValid(governance)

LEMMA OneSnapshot ==
  ASSUME NEW m, NEW snap, m.snapshots = <<snap>>
  PROVE  /\ DOMAIN m.snapshots = {1} /\ m.snapshots[1] = snap
         /\ Range(m.snapshots) = {snap}
<1>1. DOMAIN <<snap>> = {1} /\ <<snap>>[1] = snap
  OBVIOUS
<1>2. Range(<<snap>>) = {snap}
  BY <1>1, RangeOfTuple, Zenon
<1> QED
  BY <1>1, <1>2, Zenon

LEMMA ManifestAgreed ==
  ASSUME ProjectInv, project = Decode(file), project # Rejected,
         NEW arn, Service(project) \in DOMAIN ArnForm => arn \in ShownArns(Service(project), Only(project).arn),
         NEW dataset, DatasetAgreed(SnapshotOf(Structure(arn), dataset)),
         NEW governance, AuditAgreed(governance)
  PROVE  Agreed(ManifestOf(Structure(arn), dataset, governance))
<1> DEFINE m == ManifestOf(Structure(arn), dataset, governance)
           snap == SnapshotOf(Structure(arn), dataset)
           s == Service(project)
           bare == Bare(s, Only(project).arn)
<1>1. m.schema = 3 /\ m.account = "digits" /\ m.snapshots = <<snap>> /\ m.governance = governance
  BY Zenon DEF ManifestOf, SnapshotOf
<1>2. /\ s \in Services /\ Only(project).name # ""
      /\ s \in DOMAIN ArnForm => /\ Only(project).arn \in Arns /\ ArnValid(s, Only(project))
                                /\ NameValid(s, Only(project).name)
  <2>1. WellTyped(file)
    BY FilesAssumption, Zenon DEF ProjectInv
  <2> QED
    BY <2>1, ResourceKnown, Zenon
<1>3. bare \/ ValidateSnapshot(snap)
  BY <1>2, StructuresAgreed, Zenon
<1>4. ReplaySnapshotValid(snap) <=> ~Apart(s, Only(project).name)
  BY <1>2, StructuresAgreed, Zenon
<1>5. /\ DatasetValid(snap)
      /\ ReplayDatasetValid(snap) <=> ~(snap.dataset # NoDataset /\ ~snap.dataset.listed)
  BY Zenon DEF DatasetAgreed
<1> HIDE DEF m, snap, s, bare
<1>6. DOMAIN m.snapshots = {1} /\ m.snapshots[1] = snap /\ Range(m.snapshots) = {snap}
  BY <1>1, OneSnapshot, Zenon
<1>7. m.schema \in 1 .. 3
  BY <1>1
<1>8. ManifestValid(m) \/ bare
  <2>1. m.governance # Ungoverned => AuditValid(m.governance)
    BY <1>1, Zenon DEF AuditAgreed
  <2>2. m.account \in {"", "digits"}
    BY <1>1, Zenon
  <2>3. \A i, j \in DOMAIN m.snapshots : i = j
    BY <1>6, Zenon
  <2>4. ASSUME ~bare PROVE \A i \in DOMAIN m.snapshots :
          ValidateSnapshot(m.snapshots[i]) /\ DatasetValid(m.snapshots[i])
    BY <1>3, <1>5, <1>6, <2>4, Zenon
  <2> QED
    BY <1>7, <2>1, <2>2, <2>3, <2>4, Zenon DEF ManifestValid
<1>9. ValidateBundle(m) <=> ReplaySnapshotValid(snap) /\ ReplayDatasetValid(snap)
  <2>1. m.governance # Ungoverned => ReplayAuditValid(m.governance)
    BY <1>1, Zenon DEF AuditAgreed
  <2>2. (\A i \in DOMAIN m.snapshots :
           ReplaySnapshotValid(m.snapshots[i]) /\ ReplayDatasetValid(m.snapshots[i]))
          <=> ReplaySnapshotValid(snap) /\ ReplayDatasetValid(snap)
    BY <1>6, Zenon
  <2> QED
    BY <1>1, <1>7, <2>1, <2>2, Zenon DEF ValidateBundle
<1>10. (\E snapshot \in Range(m.snapshots) : snapshot.dataset # NoDataset /\ ~snapshot.dataset.listed)
         <=> (snap.dataset # NoDataset /\ ~snap.dataset.listed)
  BY <1>6, Zenon
<1>11. Agreed(m)
  BY <1>4, <1>5, <1>8, <1>9, <1>10, Zenon DEF Agreed, s, bare
<1> QED
  BY <1>11 DEF m

(* Every manifest that was captured is agreed on, and a pull is turned away *)
(* only by the validator it has reached.                                    *)
ManifestInv ==
  /\ phase \in {"captured", "installed", "invalid", "accepted", "refused"} => Agreed(manifest)
  /\ phase = "invalid" => ~ManifestValid(manifest)
  /\ phase = "refused" => ~ValidateBundle(manifest)
  /\ phase = "accepted" => ValidateBundle(manifest)

LEMMA AgreedKept ==
  ASSUME NEW m, project' = project, manifest' = m, Agreed(m), phase' = "captured"
  PROVE  ManifestInv'
BY DEF ManifestInv, Agreed

LEMMA StructureCaptured ==
  ASSUME ProjectInv, CaptureStructure PROVE ManifestInv'
<1>1. /\ phase = "calling" /\ project' = project /\ phase' = "captured"
      /\ Service(project) \notin {"s3", "dynamodb"}
  BY DEF CaptureStructure, Captured
<1>2. project = Decode(file) /\ project # Rejected
  BY <1>1 DEF ProjectInv
<1>3. PICK arn \in ListedArns : manifest' = ManifestOf(Structure(arn), NoDataset, Ungoverned)
  BY DEF CaptureStructure, Captured
<1>4. arn \in ShownArns(Service(project), Only(project).arn)
  BY <1>3, Zenon DEF ListedArns, ShownArns
<1>5. DatasetAgreed(SnapshotOf(Structure(arn), NoDataset))
  <2>1. SnapshotOf(Structure(arn), NoDataset).dataset = NoDataset
    BY Zenon DEF SnapshotOf
  <2> QED
    BY <2>1, NoDatasetAgreed, Zenon
<1>6. AuditAgreed(Ungoverned)
  BY Zenon DEF AuditAgreed
<1>7. Agreed(ManifestOf(Structure(arn), NoDataset, Ungoverned))
  BY <1>2, <1>4, <1>5, <1>6, ManifestAgreed, Zenon
<1> QED
  BY <1>1, <1>3, <1>7, AgreedKept, Zenon

LEMMA RecordsCaptured ==
  ASSUME ProjectInv, RecordsInv, Commit PROVE ManifestInv'
<1>1. /\ phase = "reading" /\ project' = project /\ phase' = "captured"
      /\ Service(project) \in {"kinesis", "sqs"}
      /\ manifest' = ManifestOf(Structure(Only(project).arn), Dataset, Ungoverned)
  BY DEF Commit, Captured, Drained, Reading
<1>2. project = Decode(file) /\ project # Rejected
  BY <1>1 DEF ProjectInv
<1>3. Only(project).arn \in ShownArns(Service(project), Only(project).arn)
  BY <1>1 DEF ShownArns
<1>4. Records \in Nat /\ size \in Nat
  <2>1. taken \in [Shards -> 0 .. MaxWritten] /\ size \in Nat
    BY DEF RecordsInv, Counts
  <2>2. Cardinality(TakenOf(taken)) \in Nat
    BY <2>1, TakenFinite
  <2> QED
    BY <2>1, <2>2, Zenon DEF Records, Taken, TakenOf
<1>5. DatasetAgreed(SnapshotOf(Structure(Only(project).arn), Dataset))
  BY <1>1, <1>4, RecordDatasetAgreed, Zenon
<1>6. AuditAgreed(Ungoverned)
  BY Zenon DEF AuditAgreed
<1>7. Agreed(ManifestOf(Structure(Only(project).arn), Dataset, Ungoverned))
  BY <1>2, <1>3, <1>5, <1>6, ManifestAgreed, Zenon
<1> QED
  BY <1>1, <1>7, AgreedKept, Zenon

LEMMA ObjectsCaptured ==
  ASSUME ProjectInv, NEW name \in {"", "profile"}, NEW secret \in BOOLEAN, NEW item \in Items,
         CaptureObjects(name, secret, item), phase' = "captured"
  PROVE  ManifestInv'
<1> DEFINE policy == ResolveFixtureProfile(project, name, secret)
           arn == Only(project).arn
<1>1. /\ project' = project /\ policy # Rejected /\ phase = "calling"
      /\ Service(project) \in {"s3", "dynamodb"}
  BY DEF CaptureObjects, CaptureGoverned, Fail
<1>2. project = Decode(file) /\ project # Rejected /\ WellTyped(file)
  BY <1>1, FilesAssumption DEF ProjectInv
<1>3. PICK governed \in Governed(item, policy) : \E chunks \in {<< >>, Chunks(governed)} :
           /\ ~governed.failed
           /\ manifest' = ManifestOf(Structure(arn),
                            IF Data(project).enabled THEN ObjectDataset(chunks) ELSE NoDataset,
                            IF name = "" THEN Ungoverned
                            ELSE GovernanceAudit(name, policy, governed.applied))
  BY CapturedObjects
<1>4. PICK chunks \in {<< >>, Chunks(governed)} :
        manifest' = ManifestOf(Structure(arn),
                      IF Data(project).enabled THEN ObjectDataset(chunks) ELSE NoDataset,
                      IF name = "" THEN Ungoverned
                      ELSE GovernanceAudit(name, policy, governed.applied))
  BY <1>3
<1> DEFINE dataset == IF Data(project).enabled THEN ObjectDataset(chunks) ELSE NoDataset
           governance == IF name = "" THEN Ungoverned
                         ELSE GovernanceAudit(name, policy, governed.applied)
<1>5. Service(project) \notin DOMAIN ArnForm
  BY <1>1 DEF ArnForm
<1>6. DatasetAgreed(SnapshotOf(Structure(arn), dataset))
  <2>1. DatasetAgreed(SnapshotOf(Structure(arn), ObjectDataset(chunks)))
    BY <1>1, ObjectDatasetAgreed, Zenon
  <2>2. SnapshotOf(Structure(arn), NoDataset).dataset = NoDataset
    BY Zenon DEF SnapshotOf
  <2>3. DatasetAgreed(SnapshotOf(Structure(arn), NoDataset))
    BY <2>2, NoDatasetAgreed, Zenon
  <2> QED
    BY <2>1, <2>3, Zenon
<1>7. AuditAgreed(governance)
  <2>1. CASE name = ""
    BY <2>1, Zenon DEF AuditAgreed
  <2>2. CASE name # ""
    <3>1. name \in DOMAIN project.profiles
      BY <1>1, <2>2 DEF ResolveFixtureProfile
    <3>2. name \in DOMAIN file.profiles
      <4>1. DOMAIN project.profiles = DOMAIN file.profiles
        <5>1. project = ApplyDefaults(file)
          BY <1>2, Passed
        <5> QED
          BY <1>2, <5>1, Fields DEF WellTyped, ProfileDefaults
      <4> QED
        BY <3>1, <4>1
    <3>3. /\ IsFiniteSet(policy.rules) /\ IsFiniteSet(policy.cohorts)
          /\ \A r \in policy.rules : r.id > 0 /\ r.action \in Actions
          /\ \A r, q \in policy.rules : r.id = q.id => r = q
      <4>1. policy = ResolveFixtureProfile(Decode(file), name, secret) /\ Decode(file) # Rejected
        BY <1>2
      <4> HIDE DEF policy
      <4>2. WellTyped(file) /\ Decode(file) # Rejected /\ policy # Rejected
        BY <1>1, <1>2, <4>1, Zenon
      <4>3. IsFiniteSet(policy.rules)
        BY <3>2, <4>1, <4>2, PolicyAudited, Zenon
      <4>4. IsFiniteSet(policy.cohorts)
        BY <3>2, <4>1, <4>2, PolicyAudited, Zenon
      <4>5. \A r \in policy.rules : r.id > 0 /\ r.action \in Actions
        BY <3>2, <4>1, <4>2, PolicyAudited, Zenon
      <4>6. \A r, q \in policy.rules : r.id = q.id => r = q
        <5> SUFFICES ASSUME NEW r \in policy.rules, NEW q \in policy.rules, r.id = q.id PROVE r = q
          OBVIOUS
        <5> QED
          BY <3>2, <4>1, <4>2, PolicyAudited
      <4> QED
        BY <4>3, <4>4, <4>5, <4>6
    <3> HIDE DEF policy
    <3>4. AuditValid(GovernanceAudit(name, policy, governed.applied))
            /\ ReplayAuditValid(GovernanceAudit(name, policy, governed.applied))
      BY <2>2, <3>3, AuditsAgreed, Zenon
    <3> QED
      BY <2>2, <3>4, Zenon DEF AuditAgreed
  <2> QED
    BY <2>1, <2>2
<1>8. manifest' = ManifestOf(Structure(arn), dataset, governance)
  BY <1>4
<1> HIDE DEF dataset, governance, policy
<1>9. Agreed(ManifestOf(Structure(arn), dataset, governance))
  BY <1>2, <1>5, <1>6, <1>7, ManifestAgreed, Zenon
<1> QED
  BY <1>1, <1>8, <1>9, AgreedKept, Zenon

LEMMA ManifestStep == ASSUME ProjectInv, RecordsInv, ManifestInv, [Next]_vars PROVE ManifestInv'
<1>1. ASSUME phase' \notin {"captured", "installed", "invalid", "accepted", "refused"}
      PROVE  ManifestInv'
  BY <1>1 DEF ManifestInv
<1>2. ASSUME UNCHANGED <<project, manifest, phase>> PROVE ManifestInv'
  BY <1>2 DEF ManifestInv, Agreed
<1>3. CASE Grant
  BY <1>2, <1>3 DEF Grant
<1>4. CASE Load
  BY <1>1, <1>4 DEF Load
<1>5. CASE Call
  BY <1>1, <1>2, <1>5 DEF Call, Refused, Fail
<1>6. CASE CaptureStructure
  BY <1>6, StructureCaptured
<1>7. CASE BeginRecords
  BY <1>1, <1>7 DEF BeginRecords
<1>8. CASE GetRecords
  BY <1>2, <1>8 DEF GetRecords
<1>9. CASE ReceiveMessage
  BY <1>2, <1>9 DEF ReceiveMessage
<1>10. CASE Commit
  BY <1>10, RecordsCaptured
<1>11. CASE Install
  <2>1. /\ UNCHANGED <<project, manifest>> /\ phase = "captured"
        /\ phase' = IF ManifestValid(manifest) THEN "installed" ELSE "invalid"
    BY <1>11 DEF Install
  <2> QED
    BY <2>1 DEF ManifestInv, Agreed
<1>12. CASE Replay
  <2>1. /\ UNCHANGED <<project, manifest>> /\ phase = "installed"
        /\ phase' = IF ValidateBundle(manifest) THEN "accepted" ELSE "refused"
    BY <1>12 DEF Replay
  <2> QED
    BY <2>1 DEF ManifestInv, Agreed
<1>13. ASSUME NEW name \in {"", "profile"}, NEW secret \in BOOLEAN, NEW item \in Items,
              CaptureObjects(name, secret, item)
       PROVE  ManifestInv'
  <2>1. phase' \in {"captured", "failed"}
    BY <1>13 DEF CaptureObjects, CaptureGoverned, Captured, Fail
  <2>2. CASE phase' = "captured"
    BY <1>13, <2>2, ObjectsCaptured
  <2>3. CASE phase' = "failed"
    BY <1>1, <2>3
  <2> QED
    BY <2>1, <2>2, <2>3
<1>14. CASE CallFails
  BY <1>1, <1>14 DEF CallFails, Fail
<1>15. CASE Done
  BY <1>2, <1>15 DEF Done, vars
<1>16. ASSUME NEW s \in Shards, Produce(s) PROVE ManifestInv'
  BY <1>2, <1>16 DEF Produce
<1>17. CASE UNCHANGED vars
  BY <1>2, <1>17 DEF vars
<1> QED
  BY <1>3, <1>4, <1>5, <1>6, <1>7, <1>8, <1>9, <1>10, <1>11, <1>12, <1>13, <1>14, <1>15, <1>16,
     <1>17 DEF Next, Pull

(* The three validators of a capture, of the project file, of the manifest  *)
(* and of the bundle that is replayed, agree but for the exceptions named:  *)
(* an ARN without region or account of a state machine or a log group, and, *)
(* which replay.py always refuses, a secret, a parameter or state machine   *)
(* with a colon in its name, and a dataset without chunks (config.go,       *)
(* model.go, replay.py).                                                    *)
THEOREM ValidatorsDoAgree == Spec => []ValidatorsAgree
<1>1. Init => ManifestInv
  BY DEF Init, ManifestInv
<1>2. ManifestInv => ValidatorsAgree
  <2> SUFFICES ASSUME ManifestInv PROVE ManifestAccepted /\ ReplayAgrees
    BY DEF ValidatorsAgree
  <2>1. ManifestAccepted
    BY DEF ManifestInv, Agreed, Bare, ManifestAccepted
  <2>2. ReplayAgrees
    BY Zenon DEF ManifestInv, Agreed, Apart, ReplayAgrees, SplitApart, Unlisted
  <2> QED
    BY <2>1, <2>2
<1> QED
  BY <1>1, <1>2, ManifestStep, ProjectInvariance, RecordsInvariance, PTL DEF Spec

=============================================================================
