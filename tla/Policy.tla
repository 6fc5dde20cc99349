------------------------------- MODULE Policy -------------------------------
(***************************************************************************)
(* The governance of captured values (internal/governance/policy.go,        *)
(* internal/services/dynamodb/item.go): a fixture profile of the project    *)
(* compiles to an effective policy, whose rules transform the attributes of *)
(* every captured item before it is stored.                                 *)
(*                                                                          *)
(* A path is the sequence of its dotted parts together with how it is       *)
(* spelled: trimming turns "padded" into "plain", lowering "upper" into     *)
(* "plain".  An item is a function from the paths of its scalar leaves to   *)
(* what stands there: the type of the scalar and what wrote it, the source  *)
(* or a rule.  Rules are numbered in the order of their identities.         *)
(***************************************************************************)
EXTENDS Integers, Sequences, SequencesExt, FiniteSets

CONSTANT DefaultRetained  \* governance.DefaultCohortMaxRetainedBytes

ASSUME DefaultRetainedAssumption == DefaultRetained \in Nat \ {0}

Rejected == [rejected |-> TRUE]
Source   == 0  \* what wrote the values of the source; rules count from one

Algorithm ==
  [omit |-> "", replace |-> "", hash |-> "hash/v1", pseudonymize |-> "pseudonym/v1"]

Actions == DOMAIN Algorithm

Trim(path)  == IF path.spelled = "padded" THEN [path EXCEPT !.spelled = "plain"] ELSE path
Lower(path) == IF path.spelled = "upper" THEN [path EXCEPT !.spelled = "plain"] ELSE path

TrimAlgorithm(a) == IF a = " hash/v1 " THEN "hash/v1" ELSE IF a = " " THEN "" ELSE a

(* Mutant: a path is looked up as it is spelled.                            *)
PathAsSpelled(rule) ==
  IF rule.kind = "s3_metadata" THEN Lower(rule.path) ELSE rule.path

(* Only the keys of metadata are compared without case.                     *)
NormalPath(rule) ==
  IF rule.kind = "s3_metadata" THEN Lower(Trim(rule.path)) ELSE Trim(rule.path)

(* Mutant: only the path is trimmed.                                        *)
NormalPathOnly(rule) ==
  [rule EXCEPT !.path = NormalPath(rule),
               !.algorithm = IF @ = "" /\ rule.action \in Actions THEN Algorithm[rule.action] ELSE @]

NormalRule(rule) ==
  [rule EXCEPT !.path = NormalPath(rule),
               !.algorithm = IF TrimAlgorithm(@) = "" /\ rule.action \in Actions
                             THEN Algorithm[rule.action] ELSE TrimAlgorithm(@)]

NormalCohort(cohort) ==
  [cohort EXCEPT !.algorithm = IF TrimAlgorithm(@) = "" THEN "cohort-rank/v1" ELSE @,
                 !.retained  = IF @ = 0 THEN DefaultRetained ELSE @]

(* The policy of a profile: its normalised rules and cohorts, or none.      *)
NewEffectivePolicy(profile) ==
  LET rules   == [i \in DOMAIN profile.rules |-> NormalRule(profile.rules[i])]
      cohorts == [i \in DOMAIN profile.cohorts |-> NormalCohort(profile.cohorts[i])]
  IN  IF /\ \A i \in DOMAIN rules : /\ rules[i].action \in Actions
                                    /\ rules[i].algorithm = Algorithm[rules[i].action]
         /\ \A i \in DOMAIN cohorts : cohorts[i].algorithm = "cohort-rank/v1"
      THEN [rules |-> Range(rules), cohorts |-> Range(cohorts)]
      ELSE Rejected

(* Rules are applied in the order of their paths, a parent before its       *)
(* children, and of their identities; of the order of the names we say      *)
(* nothing.                                                                 *)
Before(r, s) ==
  \/ IsStrictPrefix(r.path.parts, s.path.parts)
  \/ r.path.parts = s.path.parts /\ r.id < s.id

Orders(rules) ==
  {order \in [1 .. Cardinality(rules) -> rules] :
     /\ rules \subseteq Range(order)
     /\ \A i, j \in DOMAIN order : i < j => ~Before(order[j], order[i])}

TableRules(policy, table) == {r \in policy.rules : r.service = "dynamodb" /\ r.resource = table}

(* A rule leaves an item without its attribute alone, refuses one where it  *)
(* names a map or a scalar whose type the result would change, and else     *)
(* transforms or removes the value and counts.  What governing yields is    *)
(* the item, the rules that applied, and whether one failed.                *)
Apply(governed, rule) ==
  LET item == governed.item
      path == rule.path.parts
  IN  IF governed.failed \/ rule.path.spelled # "plain" THEN governed
      ELSE IF \E leaf \in DOMAIN item : IsStrictPrefix(path, leaf)
      THEN [governed EXCEPT !.failed = TRUE]
      ELSE IF path \notin DOMAIN item THEN governed
      ELSE IF rule.action = "omit"
      THEN [governed EXCEPT !.item = Restrict(item, DOMAIN item \ {path}),
                            !.applied = @ \cup {rule.id}]
      ELSE IF item[path].type # "S" THEN [governed EXCEPT !.failed = TRUE]
      ELSE [governed EXCEPT !.item[path].by = rule.id, !.applied = @ \cup {rule.id}]

Raw(item) == [item |-> item, applied |-> {}, failed |-> FALSE]

GovernItem(item, order) ==
  LET governed[n \in 0 .. Len(order)] ==
        IF n = 0 THEN Raw(item) ELSE Apply(governed[n - 1], order[n])
  IN  governed[Len(order)]

(* The audit shows counts in buckets, never the counts.                     *)
BucketCount(n) ==
  CASE n <= 0          -> "0"
    [] n \in 1 .. 9     -> "1-9"
    [] n \in 10 .. 99   -> "10-99"
    [] n \in 100 .. 999 -> "100-999"
    [] OTHER           -> "1000+"

Buckets == {"0", "1-9", "10-99", "100-999", "1000+"}

(* The audit of a capture: every rule of the policy, with its count.        *)
GovernanceAudit(name, policy, applied) ==
  [profile |-> name,
   rules |-> SetToSeq({[id |-> r.id, action |-> r.action,
                        count |-> BucketCount(IF r.id \in applied THEN 1 ELSE 0)]
                       : r \in policy.rules}),
   cohorts |-> SetToSeq({[resource |-> c.resource, eligible |-> BucketCount(1),
                          retained |-> BucketCount(1)] : c \in policy.cohorts})]
=============================================================================
