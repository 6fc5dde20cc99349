---------------------------- MODULE MCLocalRuntime ----------------------------
(* Instances of LocalRuntime and Replay for TLC. *)
EXTENDS LocalRuntime

Snapshot(kind, chunks) == [kind |-> kind, chunks |-> chunks]

(* A resource of each kind: the chunks of the bucket fill the pool, the *)
(* chunk of the table is a batch of two rows.                            *)
MCBundle ==
  << Snapshot("bucket", <<<<"o1">>, <<"o2">>>>),
     Snapshot("table", <<<<"r1", "r2">>>>),
     Snapshot("queue", <<<<"m1", "m2">>>>),
     Snapshot("stream", <<<<"s1">>>>),
     Snapshot("topic", <<>>) >>

MCPolicy == [o1 |-> "if-different", o2 |-> "never"]
MCBatch  == [table |-> 2, stream |-> 2, queue |-> 1, bucket |-> 1]

(* Storage and Floci's behaviour are chosen once.  A path is as a volume  *)
(* that no reset clears.                                                  *)
MCInit ==
  /\ Init
  /\ honest = (storage # "memory")
  /\ entry # "regular" => storage = "memory" /\ \A r \in Resources : shape[r] = "absent"
  /\ storage # "path"
  /\ storage = "memory" => \A r \in Resources : shape[r] = "absent"

FairSpec == MCInit /\ [][Next]_vars /\ Fairness
=============================================================================
