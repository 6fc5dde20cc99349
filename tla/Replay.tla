-------------------------------- MODULE Replay --------------------------------
(***************************************************************************)
(* The program runtime/replay.py, which a container of Floci runs each     *)
(* time it starts: main goes through the bundle's resources in a fixed     *)
(* order, creates what is missing, links it, and seeds the captured data   *)
(* chunk by chunk, those of a table or bucket in a pool of threads.  What  *)
(* an earlier run or the user left in Floci is still there.  A run may be  *)
(* killed between any two calls.                                           *)
(***************************************************************************)
EXTENDS Integers, FiniteSets, Sequences

CONSTANTS
  Bundle,    \* the snapshots: a sequence of [kind, chunks], a chunk being the
             \* sequence of its records, each named by its key
  Policy,    \* the overwrite policy of each object
  Workers,   \* REPLAY_WORKERS
  Attempts,  \* 8, the attempts of batch_write
  Batch,     \* records per BatchWriteItem or PutRecords call, by kind
  MaxStarts, \* bound: starts of the program
  MaxEdits   \* bound: rows and objects that the user changes

Resources  == DOMAIN Bundle
Kind(r)    == Bundle[r].kind
Chunks     == UNION {{r} \X DOMAIN Bundle[r].chunks : r \in Resources}
Of(r)      == {c \in Chunks : c[1] = r}
Records(c) == Bundle[c[1]].chunks[c[2]]
Keys(c)    == {Records(c)[i] : i \in DOMAIN Records(c)}
KeysOf(K)  == UNION {Keys(c) : c \in {d \in Chunks : Kind(d[1]) \in K}}
Stored     == KeysOf({"table", "bucket"})
Sent       == KeysOf({"queue", "stream"})

Kinds == {"queue", "topic", "table", "bucket", "stream", "bus"}

(* The keys of rows, objects and messages are told apart; objects have a policy. *)
ASSUME BundleAssumption ==
  /\ Bundle \in Seq([kind : Kinds, chunks : Seq(Seq(STRING))])
  /\ Policy \in [KeysOf({"bucket"}) -> {"always", "if-different", "never"}]
  /\ KeysOf({"bucket"}) \cap KeysOf({"table"}) = {} /\ Stored \cap Sent = {}

ASSUME ParametersAssumption ==
  /\ Workers \in Nat \ {0} /\ Attempts \in Nat \ {0}
  /\ Batch \in [{"table", "bucket", "stream", "queue"} -> Nat \ {0}]
  /\ MaxStarts \in Nat /\ MaxEdits \in Nat

VARIABLES
  shape,     \* Floci: each resource is "absent", "captured", or "other": it
             \* exists with an immutable setting that differs
  applied,   \* the resources whose mutable settings are applied, ...
  linked,    \* ... and whose links are
  value,     \* each row or object: "none", "captured", "local": the user's, or
             \* "altered": the user's, with the body of the captured one
  writes,    \* how often the replay has written each object or message
  edited,    \* the rows and objects the user has written
  rejected,  \* stream records that Floci has refused in an answer to this run
  running,   \* whether a run is underway
  todo,      \* the steps of main that it has before it, the current one included
  chunk,     \* the state of each chunk's seeding
  raising,   \* whether main is leaving a pool because of a failed chunk
  exit,      \* how the last run ended: "none" if it has not, or the user has
             \* changed things since
  starts

floci   == <<shape, applied, linked, value, writes, edited>>
program == <<rejected, running, todo, chunk, raising, exit, starts>>
rvars   == <<floci, program>>

Queued == [st |-> "queued", next |-> 1, pending |-> {}, tries |-> 0]

(* Nothing has been replayed; a table or bucket of the user's may be in the way. *)
ReplayInit ==
  /\ shape \in [Resources -> {"absent", "other"}]
  /\ \A r \in Resources : shape[r] = "other" => Kind(r) \in {"table", "bucket"}
  /\ applied = {} /\ linked = {} /\ edited = {} /\ rejected = {}
  /\ value = [k \in Stored |-> "none"]
  /\ writes = [k \in DOMAIN Policy \cup Sent |-> 0]
  /\ running = FALSE /\ todo = {} /\ starts = 0 /\ raising = FALSE /\ exit = "none"
  /\ chunk = [c \in Chunks |-> Queued]

-----------------------------------------------------------------------------
(* main with the argument "all", the one the generated hook gives it, is a *)
(* sequence of loops over the resources of some kinds.                     *)
Loops ==
  << [op |-> "base", kinds |-> {"queue", "topic"}], [op |-> "links", kinds |-> {"topic"}],
     [op |-> "base", kinds |-> {"table"}], [op |-> "base", kinds |-> {"bucket"}],
     [op |-> "base", kinds |-> {"stream"}], [op |-> "base", kinds |-> {"bus"}],
     [op |-> "links", kinds |-> {"bucket"}],
     [op |-> "data", kinds |-> {"table"}], [op |-> "data", kinds |-> {"bucket"}],
     [op |-> "data", kinds |-> {"stream"}], [op |-> "data", kinds |-> {"queue"}] >>

(* A step is a round of a loop: the loop and the resource. *)
Steps == {s \in (1..Len(Loops)) \X Resources : Kind(s[2]) \in Loops[s[1]].kinds}

Before(s, t) == s[1] < t[1] \/ (s[1] = t[1] /\ s[2] <= t[2])
First(s)     == s \in todo /\ \A t \in todo : Before(s, t)
Current      == CHOOSE s \in todo : First(s)
Resource     == Current[2]
On(op)       == running /\ \E s \in todo : Loops[s[1]].op = op /\ First(s)

(* Tables and buckets are seeded by a ThreadPoolExecutor, the others by a loop. *)
Pooled(r) == Kind(r) \in {"table", "bucket"}
Limit(r)  == IF Pooled(r) THEN Workers ELSE 1

Seeding(st) == {c \in Chunks : chunk[c].st = st}

(* The container's hook starts the program; validate_bundle accepts the     *)
(* bundle, ...                                                             *)
Start ==
  /\ ~running /\ starts < MaxStarts
  /\ running' = TRUE /\ todo' = Steps
  /\ starts' = starts + 1
  /\ exit' = "none" /\ raising' = FALSE /\ rejected' = {}
  /\ chunk' = [c \in Chunks |-> Queued]
  /\ UNCHANGED floci

(* ... or finds it changed or of another version. *)
Reject ==
  /\ ~running /\ starts < MaxStarts
  /\ starts' = starts + 1
  /\ exit' = "failed"
  /\ UNCHANGED <<rejected, running, todo, chunk, raising, floci>>

Exit(result) == exit' = result /\ running' = FALSE /\ todo' = {}

Advance ==
  /\ todo' = todo \ {Current}
  /\ UNCHANGED <<rejected, running, chunk, raising, exit, starts>>

(* fail, or an error of a call that is not handled, outside a pool. *)
Fail ==
  /\ Exit("failed")
  /\ UNCHANGED <<rejected, chunk, raising, starts>>

-----------------------------------------------------------------------------
(* ensure_*: what does not exist is created, ... *)
Ensure ==
  /\ On("base")
  /\ shape[Resource] = "absent"
  /\ shape' = [shape EXCEPT ![Resource] = "captured"]
  /\ UNCHANGED <<applied, linked, value, writes, edited, program>>

(* Mutant: a table of another shape is taken as it is. *)
IncompatibleBucket(r) == shape[r] = "other" /\ Kind(r) = "bucket"

(* ... what exists with another schema or object lock is refused, ... *)
Incompatible(r) == shape[r] = "other"

(* ... and the mutable settings are applied to the rest. *)
Apply ==
  /\ On("base")
  /\ shape[Resource] # "absent" /\ ~Incompatible(Resource)
  /\ applied' = applied \cup {Resource}
  /\ Advance
  /\ UNCHANGED <<shape, linked, value, writes, edited>>

Refuse ==
  /\ On("base")
  /\ Incompatible(Resource)
  /\ Fail
  /\ UNCHANGED floci

(* apply_topic_links and apply_bucket_links. *)
Link ==
  /\ On("links")
  /\ linked' = linked \cup {Resource}
  /\ Advance
  /\ UNCHANGED <<shape, applied, value, writes, edited>>

CallFails ==
  /\ On("base") \/ On("links")
  /\ Fail
  /\ UNCHANGED floci

-----------------------------------------------------------------------------
(* The batch of a chunk that begins at its n-th record. *)
BatchAt(c, n) ==
  {Records(c)[i] : i \in (n..(n + Batch[Kind(c[1])] - 1)) \cap DOMAIN Records(c)}

InSeed(c, st) == chunk[c].st = st /\ On("data") /\ c[1] = Resource

(* Mutant: a pool does not start what is queued when something has failed. *)
MayStartUnlessFailed(c) ==
  /\ Cardinality(Seeding("running")) < Limit(Resource)
  /\ Seeding("failed") = {}

(* A pool starts what is queued whatever has failed; a loop stops. *)
MayStart(c) ==
  /\ Cardinality(Seeding("running")) < Limit(Resource)
  /\ Pooled(Resource) \/ Seeding("failed") = {}

(* Chunks are started in the order of their submission. *)
StartChunk(c) ==
  /\ InSeed(c, "queued") /\ MayStart(c)
  /\ \A d \in Of(Resource) : chunk[d].st = "queued" => c[2] <= d[2]
  /\ chunk' = [chunk EXCEPT ![c].st = "running", ![c].pending = BatchAt(c, 1)]
  /\ UNCHANGED <<rejected, running, todo, raising, exit, starts, floci>>

(* The current batch is done with: the next one, or the end of the chunk. *)
NextBatch(c) ==
  LET n == chunk[c].next + Batch[Kind(c[1])] IN
  [st |-> IF n \in DOMAIN Records(c) THEN "running" ELSE "finished",
   next |-> n, pending |-> BatchAt(c, n), tries |-> 0]

(* Mutant: what the last attempt left is forgotten. *)
AfterForgets(c, rest) ==
  LET tries == chunk[c].tries + 1 IN
  IF rest = {} \/ tries = Attempts THEN NextBatch(c)
  ELSE [chunk[c] EXCEPT !.pending = rest, !.tries = tries]

(* batch_write after an attempt that has left rest unprocessed. *)
After(c, rest) ==
  LET tries == chunk[c].tries + 1 IN
  IF rest = {} THEN NextBatch(c)
  ELSE [chunk[c] EXCEPT !.pending = rest, !.tries = tries,
                        !.st = IF tries = Attempts THEN "failed" ELSE "running"]

Seed(c, s) ==
  /\ chunk' = [chunk EXCEPT ![c] = s]
  /\ UNCHANGED <<running, todo, raising, exit, starts, shape, applied, linked, edited>>

(* Floci takes the records K; nothing counts how often it takes a row. *)
Write(K) ==
  /\ value' = [k \in Stored |-> IF k \in K THEN "captured" ELSE value[k]]
  /\ writes' = [k \in DOMAIN writes |-> IF k \in K THEN writes[k] + 1 ELSE writes[k]]

(* One BatchWriteItem: Floci may leave a part unprocessed. *)
BatchWrite(c) ==
  /\ InSeed(c, "running") /\ Kind(c[1]) = "table"
  /\ \E K \in SUBSET chunk[c].pending :
       Write(K) /\ Seed(c, After(c, chunk[c].pending \ K))
  /\ UNCHANGED rejected

(* put_object: when the object that is there stays.  object_matches compares *)
(* the bodies alone, not the content type, the metadata or the tags.         *)
Keeps(k) ==
  CASE Policy[k] = "never"        -> value[k] # "none"
    [] Policy[k] = "if-different" -> value[k] \in {"captured", "altered"}
    [] OTHER                      -> FALSE

PutObject(c) ==
  /\ InSeed(c, "running") /\ Kind(c[1]) = "bucket"
  /\ Write({k \in chunk[c].pending : ~Keeps(k)})
  /\ Seed(c, After(c, {}))
  /\ UNCHANGED rejected

(* One PutRecords, whose answer may name refused records and is not looked at. *)
PutRecords(c) ==
  /\ InSeed(c, "running") /\ Kind(c[1]) = "stream"
  /\ \E K \in SUBSET chunk[c].pending :
       Write(K) /\ rejected' = rejected \cup (chunk[c].pending \ K)
  /\ Seed(c, After(c, {}))

SendMessage(c) ==
  /\ InSeed(c, "running") /\ Kind(c[1]) = "queue"
  /\ Write(chunk[c].pending)
  /\ Seed(c, After(c, {}))
  /\ UNCHANGED rejected

(* A call fails for good, with or without effect, or the chunk's file cannot be read. *)
ChunkFails(c) ==
  /\ InSeed(c, "running")
  /\ \E K \in SUBSET chunk[c].pending :
       Write(IF Kind(c[1]) = "bucket" THEN {k \in K : ~Keeps(k)} ELSE K)
  /\ Seed(c, [chunk[c] EXCEPT !.st = "failed"])
  /\ UNCHANGED rejected

(* as_completed: main takes the results of finished chunks in any order, ... *)
Collect(c) ==
  /\ InSeed(c, "finished") /\ ~raising
  /\ Seed(c, [chunk[c] EXCEPT !.st = "collected"])
  /\ UNCHANGED <<value, writes, rejected>>

(* ... and the first failed one raises, ... *)
Raise(c) ==
  /\ InSeed(c, "failed") /\ ~raising
  /\ raising' = TRUE
  /\ UNCHANGED <<rejected, running, todo, chunk, exit, starts, floci>>

(* Mutant: the program ends without waiting for its threads. *)
PoolEmptyAtOnce == TRUE

(* ... but the pool is left when all its chunks have been worked on. *)
PoolEmpty ==
  Pooled(Resource) => \A c \in Of(Resource) : chunk[c].st \notin {"queued", "running"}

Leave ==
  /\ On("data") /\ raising
  /\ PoolEmpty
  /\ Fail
  /\ UNCHANGED floci

Seeded == \A c \in Of(Resource) : chunk[c].st = "collected"

EndSeed ==
  /\ On("data") /\ ~raising /\ Seeded
  /\ Advance
  /\ UNCHANGED floci

Finish ==
  /\ running /\ todo = {}
  /\ Exit("ok")
  /\ UNCHANGED <<rejected, chunk, raising, starts, floci>>

(* The program's memory goes with it. *)
Vanish ==
  /\ running' = FALSE /\ todo' = {} /\ raising' = FALSE /\ rejected' = {}
  /\ chunk' = [c \in Chunks |-> Queued]

(* The hook's time is over. *)
Kill ==
  /\ running
  /\ Vanish
  /\ exit' = "killed"
  /\ UNCHANGED <<starts, floci>>

(* The user, between runs, writes a row or an object that exists or not, an *)
(* object perhaps with the captured body and other metadata or tags.        *)
LocalWrite(k) ==
  /\ ~running /\ k \notin edited /\ Cardinality(edited) < MaxEdits
  /\ \E r \in Resources : shape[r] # "absent" /\ \E c \in Of(r) : k \in Keys(c)
  /\ \E v \in IF k \in DOMAIN Policy THEN {"local", "altered"} ELSE {"local"} :
       value' = [value EXCEPT ![k] = v]
  /\ edited' = edited \cup {k}
  /\ exit' = "none"
  /\ UNCHANGED <<shape, applied, linked, writes, rejected, running, todo, chunk, raising, starts>>

Call(c) == BatchWrite(c) \/ PutObject(c) \/ PutRecords(c) \/ SendMessage(c) \/ ChunkFails(c)

Step ==
  \/ Ensure \/ Apply \/ Refuse \/ Link \/ CallFails \/ Leave \/ EndSeed \/ Finish
  \/ \E c \in Chunks : StartChunk(c) \/ Call(c) \/ Collect(c) \/ Raise(c)

-----------------------------------------------------------------------------
Seedings ==
  [st : {"queued", "running", "finished", "collected", "failed"}, next : Nat,
   pending : SUBSET (Stored \cup Sent), tries : 0..Attempts]

(* Types of the variables. *)
TypeOK ==
  /\ shape \in [Resources -> {"absent", "captured", "other"}]
  /\ applied \subseteq Resources /\ linked \subseteq Resources
  /\ value \in [Stored -> {"none", "captured", "local", "altered"}]
  /\ writes \in [DOMAIN Policy \cup Sent -> Nat]
  /\ edited \subseteq Stored /\ rejected \subseteq Sent
  /\ running \in BOOLEAN /\ todo \subseteq Steps
  /\ chunk \in [Chunks -> Seedings]
  /\ \A c \in Chunks : chunk[c].pending \subseteq Keys(c)
  /\ raising \in BOOLEAN
  /\ exit \in {"none", "ok", "failed", "killed"}
  /\ starts \in 0..MaxStarts

(* A user's object that a run leaves as it is. *)
Protected(k) ==
  /\ k \in DOMAIN Policy /\ k \in edited
  /\ Policy[k] = "never" \/ (Policy[k] = "if-different" /\ value[k] = "altered")

(* A run that exits without an error has done all of it: every resource is *)
(* there with its settings and links, every row is the captured one, every *)
(* object too but the user's that its policy protects: any under "never",  *)
(* one with the captured body under "if-different"; and every message and  *)
(* record was delivered, save what Floci refused in an answer; whatever    *)
(* earlier runs were killed at, and whichever parts of batches were left   *)
(* unprocessed on the way.                                                 *)
ReplayComplete ==
  exit = "ok" =>
    /\ \A r \in Resources : shape[r] = "captured" /\ r \in applied
    /\ \A r \in Resources : Kind(r) \in {"topic", "bucket"} => r \in linked
    /\ \A k \in Stored : value[k] = "captured" \/ Protected(k)
    /\ \A k \in Sent : writes[k] >= 1 \/ k \in rejected

(* The threads of a pool never outlive it: when main is past a pool, has   *)
(* left it by an exception or has ended, no chunk is still being written,  *)
(* and no more than Workers ever are.                                      *)
PoolsContained ==
  /\ Cardinality(Seeding("running")) <= Workers
  /\ exit \in {"ok", "failed"} => Seeding("running") = {}
  /\ running => \A c \in Seeding("running") : On("data") /\ c[1] = Resource

(* An object with the policy if-different gets a new version only when it  *)
(* is missing or the user has changed its body, however often the replay runs or *)
(* is killed (the integration test compares the versions of two runs).     *)
NoNeedlessVersion ==
  \A k \in DOMAIN Policy :
    Policy[k] = "if-different" => writes[k] <= 1 + Cardinality({k} \cap edited)

(* replay.py:2, idempotent: any number of runs, killed or not, ends in the *)
(* captured state, and does to objects no more than that takes.            *)
ReplayFaithful == ReplayComplete /\ NoNeedlessVersion

(* An incompatible table or bucket is a hard failure: while there is one,  *)
(* no run writes a row, an object or a message.                            *)
IncompatibleStops ==
  [][(\E r \in Resources : shape[r] = "other") /\ running /\ running' =>
     UNCHANGED <<value, writes>>]_rvars
=============================================================================
