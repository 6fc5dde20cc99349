------------------------- MODULE MCResourceCapture -------------------------
EXTENDS ResourceCapture

MCShards    == 1 .. 2
MCKinesis   == <<3, 7>>
MCSQS       == <<2, 5>>
MCS3        == <<2, 2, 2>>
MCDynamo    == <<2, 2>>
Dependencies == DOMAIN ArnForm
NameOf(s)   == IF s = "ssm" THEN "/res" ELSE "res"

ArnOf(s, name) ==
  IF s \notin Dependencies THEN NoArn
  ELSE [service |-> s, form |-> ArnForm[s], name |-> name, suffix |-> "",
        region |-> TRUE, account |-> TRUE, partition |-> TRUE]

Entry(s, data) == [name |-> NameOf(s), arn |-> ArnOf(s, NameOf(s)), data |-> data]

With(s, entries) ==
  [NewProject EXCEPT !.region = TRUE, !.account = "digits", !.resources[s] = entries]

Listed(s, name, choice) ==
  [service |-> s, name |-> name, arn |-> ArnOf(s, name), choice |-> choice]

(* Every service; a stream with a dot in its name, or without an ARN, alone *)
(* and beside a bucket.                                                     *)
MCSelections ==
  LET bucket == Listed("s3", "res", "full")
      odd    == {Listed("kinesis", "res.x", ""),
                 [Listed("kinesis", "res", "") EXCEPT !.arn.service = ""]}
  IN  {{Listed(s, NameOf(s), c)} : s \in Services, c \in {"", "bounded", "full"}}
      \cup {{r} : r \in odd} \cup {{bucket, r} : r \in odd}

(* One resource of each kind without data, one scalar changed.              *)
Topic == With("sns", <<Entry("sns", NoData)>>)

ScalarFiles ==
  {Topic, [Topic EXCEPT !.schema = 2], [Topic EXCEPT !.region = FALSE],
   [Topic EXCEPT !.account = ""], [Topic EXCEPT !.account = "letters"],
   [Topic EXCEPT !.version = ""], [Topic EXCEPT !.version = "old"],
   [Topic EXCEPT !.directory = ""], [Topic EXCEPT !.directory = "elsewhere"]}
  \cup {[Topic EXCEPT !.port = n] : n \in {-1, 0, 65535, 65536}}
  \cup {[Topic EXCEPT !.replayWorkers = n] : n \in {-1, 0, 32, 33}}
  \cup {[Topic EXCEPT !.resourceWorkers = n] : n \in {-1, 0, 8, 9}}

NameFiles ==
  {With(s, <<[name |-> n, arn |-> ArnOf(s, n), data |-> NoData]>>)
   : s \in Dependencies, n \in {"", "res", "/res", "default", "res.fifo", "a:b", "/a:b", "res.x"}}
  \cup {With(s, <<Entry(s, NoData), Entry(s, NoData)>>) : s \in Services}

ArnEdits(arn) ==
  {[arn EXCEPT !.service = "other"], [arn EXCEPT !.form = "other"], [arn EXCEPT !.name = "other"],
   [arn EXCEPT !.suffix = "star"], [arn EXCEPT !.suffix = "random"],
   [arn EXCEPT !.region = FALSE], [arn EXCEPT !.account = FALSE],
   [arn EXCEPT !.partition = FALSE], [arn EXCEPT !.region = FALSE, !.account = FALSE]}

ArnFiles ==
  UNION {{With(s, <<[Entry(s, NoData) EXCEPT !.arn = a]>>) : a \in ArnEdits(ArnOf(s, NameOf(s)))}
         : s \in Dependencies}

DataEdits(s) ==
  LET data == NewData(s)
  IN  {[data EXCEPT !.enabled = e, !.mode = m, !.limits = l]
       : e \in BOOLEAN, m \in {"", "bounded", "full", "odd"},
         l \in {data.limits, [i \in DOMAIN data.limits |-> 0], [data.limits EXCEPT ![1] = 0],
                [data.limits EXCEPT ![2] = 0], [data.limits EXCEPT ![1] = -1],
                [data.limits EXCEPT ![1] = 1]}}
      \cup (IF s = "s3" THEN {[data EXCEPT !.overwrite = ""], [data EXCEPT !.overwrite = "odd"]}
            ELSE {})

DataFiles ==
  UNION {{[With(s, <<Entry(s, d)>>) EXCEPT !.timeout = t]
          : d \in DataEdits(s), t \in {0, DefaultTimeout, DefaultTimeout + 1}}
         : s \in {"s3", "dynamodb", "kinesis", "sqs"}}

(* A table captured in full under a profile.                                *)
Path(parts, spelled) == [parts |-> parts, spelled |-> spelled]

Rule(id, path, action, algorithm) ==
  [id |-> id, service |-> "dynamodb", resource |-> "res", kind |-> "dynamodb_attribute",
   path |-> path, action |-> action, operand |-> TRUE, algorithm |-> algorithm]

Omit == Rule(1, Path(<<"a">>, "plain"), "omit", "")

Rules ==
  {<<Rule(1, Path(<<"a">>, x), a, g)>> : x \in {"plain", "padded", "upper"},
     a \in {"omit", "replace", "hash", "pseudonymize", "redact"},
     g \in {"", " ", "hash/v1", " hash/v1 ", "pseudonym/v1"}}
  \cup {<<[Omit EXCEPT !.id = 0]>>, <<[Omit EXCEPT !.resource = "other"]>>,
        <<[Omit EXCEPT !.service = "s3"]>>, <<[Omit EXCEPT !.kind = "s3_text_body"]>>,
        <<[Omit EXCEPT !.path.parts = << >>]>>,
        <<[Omit EXCEPT !.action = "replace", !.operand = FALSE]>>}
  \cup {<<Rule(i, Path(<<"a">>, "plain"), "hash", ""), Rule(2, Path(p, x), a, "")>> :
          i \in {1, 2}, p \in {<<"a">>, <<"c">>, <<"a", "b">>}, x \in {"plain", "padded"},
          a \in {"omit", "replace"}}

Cohort == [resource |-> "res", keyed |-> TRUE, limit |-> 1, retained |-> 0, algorithm |-> ""]

Cohorts ==
  {<<Cohort>>, <<Cohort, Cohort>>, <<[Cohort EXCEPT !.resource = "other"]>>,
   <<[Cohort EXCEPT !.keyed = FALSE]>>, <<[Cohort EXCEPT !.limit = 0]>>,
   <<[Cohort EXCEPT !.retained = -1]>>, <<[Cohort EXCEPT !.algorithm = "other"]>>}

Profiles == {[rules |-> r, cohorts |-> << >>] : r \in Rules}
            \cup {[rules |-> << >>, cohorts |-> c] : c \in Cohorts}

Full == [NewData("dynamodb") EXCEPT !.mode = "full", !.limits = <<0, 0>>]

ProfileFiles ==
  {[With("dynamodb", <<Entry("dynamodb", Full)>>)
      EXCEPT !.timeout = 301, !.profiles = [profile |-> p]] : p \in Profiles}
  \cup {[With("dynamodb", <<Entry("dynamodb", NewData("dynamodb"))>>)
           EXCEPT !.profiles = [profile |-> [rules |-> << >>, cohorts |-> <<Cohort>>]]]}

MCFiles == Written \cup ScalarFiles \cup NameFiles \cup ArnFiles \cup DataFiles \cup ProfileFiles

Leaf(type) == [type |-> type, by |-> Source]
MCItems ==
  {<<"a">> :> Leaf("S") @@ <<"c">> :> Leaf("N"),
   <<"a", "b">> :> Leaf("S") @@ <<"c">> :> Leaf("S")}
=============================================================================
