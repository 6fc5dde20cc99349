-------------------------- MODULE LocalRuntimeProofs --------------------------
(***************************************************************************)
(* Proofs about Replay in the containers that LocalRuntime starts, for any *)
(* bundle, number of workers, attempts and starts: threads stay in their   *)
(* pool, an incompatible resource stops a run before any data, a run that  *)
(* exits well is complete, and `up` reports what `status` would.           *)
(***************************************************************************)
EXTENDS LocalRuntime, FiniteSetTheorems, TLAPS

-----------------------------------------------------------------------------
(* Bundles, chunks and loops. *)
LEMMA BundleFacts ==
  /\ Len(Bundle) \in Nat /\ Resources = 1..Len(Bundle)
  /\ \A r \in Resources : Kind(r) \in Kinds /\ Bundle[r].chunks \in Seq(Seq(STRING))
<1> DEFINE Snapshots == [kind : Kinds, chunks : Seq(Seq(STRING))]
<1>1. Bundle \in Seq(Snapshots)
  BY BundleAssumption
<1>2. Len(Bundle) \in Nat /\ Resources = 1..Len(Bundle) /\ \A r \in Resources : Bundle[r] \in Snapshots
  <2> HIDE DEF Snapshots
  <2> QED
    BY <1>1 DEF Resources
<1> QED
  BY <1>2 DEF Kind

LEMMA ChunkFacts ==
  ASSUME NEW c \in Chunks
  PROVE  /\ c[1] \in Resources /\ c[2] \in DOMAIN Bundle[c[1]].chunks /\ c = <<c[1], c[2]>>
         /\ Len(Records(c)) \in Nat /\ DOMAIN Records(c) = 1..Len(Records(c))
<1>1. PICK r \in Resources : c \in {r} \X DOMAIN Bundle[r].chunks
  BY DEF Chunks
<1>2. c[1] = r /\ c[2] \in DOMAIN Bundle[r].chunks /\ c = <<c[1], c[2]>>
  BY <1>1
<1>3. Bundle[r].chunks \in Seq(Seq(STRING))
  BY BundleFacts
<1>4. Records(c) \in Seq(STRING)
  BY <1>2, <1>3 DEF Records
<1> QED
  BY <1>2, <1>4

LEMMA ChunksFinite == IsFiniteSet(Chunks)
<1> DEFINE f == [r \in Resources |-> {r} \X DOMAIN Bundle[r].chunks]
<1>1. IsFiniteSet(Resources)
  BY BundleFacts, FS_Interval
<1>2. IsFiniteSet({f[r] : r \in Resources})
  <2>1. f \in Surjection(Resources, {f[r] : r \in Resources})
    BY DEF Surjection
  <2> HIDE DEF f
  <2> QED
    BY <1>1, <2>1, FS_Surjection
<1>3. ASSUME NEW r \in Resources PROVE IsFiniteSet(f[r])
  <2>1. Bundle[r].chunks \in Seq(Seq(STRING))
    BY BundleFacts
  <2>2. DOMAIN Bundle[r].chunks = 1..Len(Bundle[r].chunks) /\ Len(Bundle[r].chunks) \in Nat
    BY <2>1
  <2>3. IsFiniteSet(DOMAIN Bundle[r].chunks)
    <3>1. IsFiniteSet(1..Len(Bundle[r].chunks))
      BY <2>2, FS_Interval
    <3> QED
      BY <2>2, <3>1
  <2>4. IsFiniteSet({r})
    BY FS_Singleton
  <2>5. IsFiniteSet({r} \X DOMAIN Bundle[r].chunks)
    BY <2>3, <2>4, FS_Product, Zenon
  <2> QED
    BY <2>5
<1>4. Chunks = UNION {f[r] : r \in Resources}
  BY DEF Chunks
<1> HIDE DEF f
<1> QED
  BY <1>2, <1>3, <1>4, FS_UNION

LEMMA KeysKinds ==
  ASSUME NEW c \in Chunks, NEW k \in Keys(c)
  PROVE  /\ Kind(c[1]) \in {"table", "bucket"} => k \in Stored
         /\ Kind(c[1]) \in {"stream", "queue"} => k \in Sent
         /\ Kind(c[1]) = "bucket" => k \in DOMAIN Policy
         /\ Kind(c[1]) \in {"table", "stream", "queue"} => k \notin DOMAIN Policy
  BY BundleAssumption DEF KeysOf, Stored, Sent

LEMMA LoopFacts ==
  /\ Len(Loops) = 11
  /\ \A i, j \in 1..11 :
       Loops[i].op \in {"base", "links"} /\ Loops[j].op = "data" => i < j
  /\ \A kind \in Kinds : \E i \in 1..11 : Loops[i].op = "base" /\ kind \in Loops[i].kinds
  /\ \A kind \in {"topic", "bucket"} :
       \E i \in 1..11 : Loops[i].op = "links" /\ kind \in Loops[i].kinds
  /\ \A kind \in {"table", "bucket", "stream", "queue"} :
       \E i \in 1..11 : Loops[i].op = "data" /\ kind \in Loops[i].kinds
  /\ \A i \in 1..11 : Loops[i].op = "data" => Loops[i].kinds \subseteq {"table", "bucket", "stream", "queue"}
<1>1. Len(Loops) = 11
  BY DEF Loops
<1>2. \A i \in 1..11 : Loops[i].op = "data" <=> i >= 8
  BY DEF Loops
<1>3. /\ Loops[1].op = "base" /\ Loops[3].op = "base" /\ Loops[4].op = "base"
      /\ Loops[5].op = "base" /\ Loops[6].op = "base"
      /\ Loops[2].op = "links" /\ Loops[7].op = "links"
  BY DEF Loops
<1>4. /\ Loops[1].kinds = {"queue", "topic"} /\ Loops[2].kinds = {"topic"}
      /\ Loops[3].kinds = {"table"} /\ Loops[4].kinds = {"bucket"}
      /\ Loops[5].kinds = {"stream"} /\ Loops[6].kinds = {"bus"} /\ Loops[7].kinds = {"bucket"}
  BY DEF Loops
<1>5. /\ Loops[8].kinds = {"table"} /\ Loops[9].kinds = {"bucket"}
      /\ Loops[10].kinds = {"stream"} /\ Loops[11].kinds = {"queue"}
  BY DEF Loops
<1>6. \A kind \in Kinds : \E i \in 1..11 : Loops[i].op = "base" /\ kind \in Loops[i].kinds
  BY <1>3, <1>4 DEF Kinds
<1>7. \A kind \in {"topic", "bucket"} :
       \E i \in 1..11 : Loops[i].op = "links" /\ kind \in Loops[i].kinds
  BY <1>3, <1>4
<1>8. \A kind \in {"table", "bucket", "stream", "queue"} :
       \E i \in 1..11 : Loops[i].op = "data" /\ kind \in Loops[i].kinds
  BY <1>2, <1>5
<1>9. \A i \in 1..11 : Loops[i].op = "data" => Loops[i].kinds \subseteq {"table", "bucket", "stream", "queue"}
  BY <1>2, <1>5
<1> QED
  BY <1>1, <1>2, <1>6, <1>7, <1>8, <1>9

LEMMA StepFacts ==
  ASSUME NEW s \in Steps
  PROVE  s[1] \in 1..11 /\ s[2] \in Resources /\ s = <<s[1], s[2]>> /\ Kind(s[2]) \in Loops[s[1]].kinds
  BY LoopFacts DEF Steps

(* The current step is well-defined: steps are totally ordered. *)
LEMMA CurrentFirst ==
  ASSUME todo \subseteq Steps, NEW op, On(op)
  PROVE  /\ Current \in todo /\ First(Current) /\ Loops[Current[1]].op = op
         /\ Current \in Steps /\ Resource \in Resources
<1>1. PICK s \in todo : First(s) /\ Loops[s[1]].op = op
  BY DEF On
<1>2. Current \in todo /\ First(Current)
  BY <1>1 DEF Current
<1>3. s = Current
  <2>1. /\ s[1] \in Nat /\ s[2] \in Nat /\ s = <<s[1], s[2]>>
        /\ Current[1] \in Nat /\ Current[2] \in Nat /\ Current = <<Current[1], Current[2]>>
    <3>1. s \in Steps /\ Current \in Steps
      BY <1>2
    <3> HIDE DEF Current
    <3> QED
      BY <3>1, StepFacts, BundleFacts
  <2>2. Before(s, Current) /\ Before(Current, s)
    BY <1>1, <1>2 DEF First
  <2>3. s[1] = Current[1] /\ s[2] = Current[2]
    BY <2>1, <2>2 DEF Before
  <2> QED
    BY <2>1, <2>3
<1> QED
  BY <1>1, <1>2, <1>3, StepFacts DEF Resource

-----------------------------------------------------------------------------
(* Types. *)
LEMMA QueuedType ==
  /\ Queued \in Seedings
  /\ Queued.st = "queued" /\ Queued.next = 1 /\ Queued.pending = {} /\ Queued.tries < Attempts
  BY ParametersAssumption DEF Queued, Seedings

(* TypeOK, and what of a chunk's state keeps it inductive. *)
Typed ==
  /\ TypeOK
  /\ \A c \in Chunks : /\ chunk[c].next >= 1
                       /\ chunk[c].st = "queued" => chunk[c].next = 1
                       /\ chunk[c].st \in {"queued", "running"} => chunk[c].tries < Attempts

LEMMA InitType == ReplayInit => Typed
<1> SUFFICES ASSUME ReplayInit PROVE Typed
  OBVIOUS
<1>1. chunk \in [Chunks -> Seedings]
  BY QueuedType DEF ReplayInit
<1>2. \A c \in Chunks : chunk[c] = Queued
  BY DEF ReplayInit
<1>3. 0 \in 0..MaxStarts /\ 0 < Attempts
  BY ParametersAssumption
<1>4. TypeOK
  BY <1>1, <1>2, <1>3 DEF ReplayInit, TypeOK, Queued
<1> QED
  BY <1>2, <1>3, <1>4 DEF Typed, Queued

LEMMA BatchFacts ==
  ASSUME NEW c \in Chunks, NEW n
  PROVE  BatchAt(c, n) \subseteq Keys(c)
  BY DEF BatchAt, Keys

LEMMA KeysType ==
  ASSUME NEW c \in Chunks, Kind(c[1]) \in {"table", "bucket", "stream", "queue"}
  PROVE  Keys(c) \subseteq Stored \cup Sent
  BY KeysKinds

(* The chunk being seeded, and its resource. *)
LEMMA InSeedFacts ==
  ASSUME TypeOK, NEW c \in Chunks, NEW st, InSeed(c, st)
  PROVE  /\ c[1] = Resource /\ chunk[c].st = st /\ On("data") /\ running
         /\ Kind(c[1]) \in {"table", "bucket", "stream", "queue"}
         /\ Batch[Kind(c[1])] \in Nat \ {0}
         /\ chunk[c] \in Seedings
<1>1. /\ Current \in Steps /\ Loops[Current[1]].op = "data"
  BY CurrentFirst DEF InSeed, TypeOK
<1>2. Kind(Resource) \in Loops[Current[1]].kinds /\ Current[1] \in 1..11
  BY <1>1, StepFacts DEF Resource
<1>3. Kind(Resource) \in {"table", "bucket", "stream", "queue"}
  BY <1>1, <1>2, LoopFacts
<1> QED
  BY <1>3, ParametersAssumption DEF InSeed, On, TypeOK

LEMMA AfterType ==
  ASSUME Typed, NEW c \in Chunks, InSeed(c, "running"), NEW rest \in SUBSET chunk[c].pending
  PROVE  /\ After(c, rest) \in Seedings
         /\ After(c, rest).st \in {"running", "finished", "failed"}
         /\ After(c, rest).pending \subseteq Keys(c)
         /\ After(c, rest).next >= 1
         /\ After(c, rest).st = "running" => After(c, rest).tries < Attempts
<1>1. chunk[c] \in Seedings /\ chunk[c].st = "running" /\ Batch[Kind(c[1])] \in Nat
  BY InSeedFacts DEF Typed
<1>2. chunk[c].pending \subseteq Keys(c) /\ Keys(c) \subseteq Stored \cup Sent
  BY InSeedFacts, KeysType DEF Typed, TypeOK
<1>3. CASE rest = {}
  <2> DEFINE n == chunk[c].next + Batch[Kind(c[1])]
  <2>1. n \in Nat /\ n >= 1
    BY <1>1 DEF Seedings, Typed
  <2>2. BatchAt(c, n) \subseteq Keys(c)
    BY BatchFacts
  <2>3. After(c, rest) = [st |-> IF n \in DOMAIN Records(c) THEN "running" ELSE "finished",
                          next |-> n, pending |-> BatchAt(c, n), tries |-> 0]
    BY <1>3 DEF After, NextBatch
  <2> HIDE DEF n
  <2> QED
    BY <1>2, <2>1, <2>2, <2>3, ParametersAssumption DEF Seedings
<1>4. CASE rest # {}
  <2> DEFINE x == chunk[c]
             tries == x.tries + 1
             st == IF tries = Attempts THEN "failed" ELSE "running"
  <2>1. After(c, rest) = [x EXCEPT !.pending = rest, !.tries = tries, !.st = st]
    BY <1>4 DEF After
  <2>2. x = [st |-> x.st, next |-> x.next, pending |-> x.pending, tries |-> x.tries]
    BY <1>1 DEF Seedings
  <2>3. x.next \in Nat /\ x.next >= 1 /\ tries \in 0..Attempts /\ (tries # Attempts => tries < Attempts)
    BY <1>1, ParametersAssumption DEF Seedings, Typed
  <2>4. rest \in SUBSET (Stored \cup Sent) /\ rest \subseteq Keys(c)
    BY <1>2
  <2>5. After(c, rest) = [st |-> st, next |-> x.next, pending |-> rest, tries |-> tries]
    BY <2>1, <2>2
  <2> HIDE DEF x, tries
  <2> QED
    BY <2>3, <2>4, <2>5 DEF Seedings
<1> QED
  BY <1>3, <1>4

(* What any call of a chunk's seeding does. *)
LEMMA CallFacts ==
  ASSUME Typed, NEW c \in Chunks, Call(c)
  PROVE  /\ InSeed(c, "running")
         /\ UNCHANGED <<running, todo, raising, exit, starts, shape, applied, linked, edited>>
         /\ rejected \subseteq rejected' /\ rejected' \subseteq Sent
         /\ \E W \in SUBSET chunk[c].pending :
              /\ Write(W)
              /\ Kind(c[1]) = "bucket" => \A k \in W : ~Keeps(k)
         /\ \E rest \in SUBSET chunk[c].pending :
              \/ /\ chunk' = [chunk EXCEPT ![c] = After(c, rest)]
                 /\ Kind(c[1]) = "table" => Write(chunk[c].pending \ rest)
                 /\ Kind(c[1]) = "bucket" => Write({k \in chunk[c].pending : ~Keeps(k)})
                 /\ Kind(c[1]) = "stream" =>
                      \E W \in SUBSET chunk[c].pending :
                        Write(W) /\ rejected' = rejected \cup (chunk[c].pending \ W)
                 /\ Kind(c[1]) = "queue" => Write(chunk[c].pending)
              \/ chunk' = [chunk EXCEPT ![c] = [chunk[c] EXCEPT !.st = "failed"]]
<1> DEFINE P == chunk[c].pending
<1>1. CASE BatchWrite(c)
  <2>1. PICK K \in SUBSET P : Write(K) /\ Seed(c, After(c, P \ K))
    BY <1>1 DEF BatchWrite
  <2>2. Kind(c[1]) = "table" /\ InSeed(c, "running") /\ UNCHANGED rejected
    BY <1>1 DEF BatchWrite
  <2>3. P \ (P \ K) = K
    OBVIOUS
  <2> QED
    BY <2>1, <2>2, <2>3 DEF Seed, Typed, TypeOK
<1>2. CASE PutObject(c)
  <2> DEFINE W == {k \in P : ~Keeps(k)}
  <2>1. W \in SUBSET P /\ {} \in SUBSET P /\ \A k \in W : ~Keeps(k)
    OBVIOUS
  <2>2. /\ Kind(c[1]) = "bucket" /\ InSeed(c, "running") /\ UNCHANGED rejected
        /\ Write(W) /\ Seed(c, After(c, {}))
    BY <1>2 DEF PutObject
  <2> HIDE DEF W
  <2>3. rejected \subseteq Sent
    BY DEF Typed, TypeOK
  <2>4. \E V \in SUBSET P : Write(V) /\ (Kind(c[1]) = "bucket" => \A k \in V : ~Keeps(k))
    BY <2>1, <2>2
  <2> QED
    BY <2>1, <2>2, <2>3, <2>4 DEF Seed, W
<1>3. CASE PutRecords(c)
  <2>1. PICK K \in SUBSET P : Write(K) /\ rejected' = rejected \cup (P \ K)
    BY <1>3 DEF PutRecords
  <2>2. Kind(c[1]) = "stream" /\ InSeed(c, "running") /\ Seed(c, After(c, {}))
    BY <1>3 DEF PutRecords
  <2>3. P \subseteq Sent
    BY <2>2, KeysKinds DEF Typed, TypeOK
  <2> QED
    BY <2>1, <2>2, <2>3 DEF Seed, Typed, TypeOK
<1>4. CASE SendMessage(c)
  BY <1>4 DEF SendMessage, Seed, Typed, TypeOK
<1>5. CASE ChunkFails(c)
  <2>1. PICK K \in SUBSET P :
          Write(IF Kind(c[1]) = "bucket" THEN {k \in K : ~Keeps(k)} ELSE K)
    BY <1>5 DEF ChunkFails
  <2>2. \E V \in SUBSET P : Write(V) /\ (Kind(c[1]) = "bucket" => \A k \in V : ~Keeps(k))
    <3>1. CASE Kind(c[1]) = "bucket"
      <4>1. {k \in K : ~Keeps(k)} \in SUBSET P /\ Write({k \in K : ~Keeps(k)})
        BY <2>1, <3>1
      <4> QED
        BY <4>1
    <3> QED
      BY <2>1, <3>1
  <2>3. /\ InSeed(c, "running") /\ UNCHANGED rejected
        /\ Seed(c, [chunk[c] EXCEPT !.st = "failed"])
    BY <1>5 DEF ChunkFails
  <2> QED
    BY <2>2, <2>3 DEF Seed, Typed, TypeOK
<1> QED
  BY <1>1, <1>2, <1>3, <1>4, <1>5 DEF Call

-----------------------------------------------------------------------------
(* The steps as the replay sees them. *)
Wiped ==
  /\ shape' = [r \in Resources |-> "absent"]
  /\ applied' = {} /\ linked' = {} /\ edited' = {}
  /\ value' = [k \in Stored |-> "none"]
  /\ writes' = [k \in DOMAIN writes |-> 0]

Gone == Vanish /\ exit' = "none" /\ UNCHANGED starts /\ (UNCHANGED floci \/ Wiped)

MainStep ==
  Start \/ Reject \/ Ensure \/ Apply \/ Refuse \/ Link \/ CallFails \/ Leave \/ EndSeed \/ Finish

ChunkStep == \E c \in Chunks : StartChunk(c) \/ Call(c) \/ Collect(c) \/ Raise(c)

Outside == Kill \/ Gone \/ \E k \in Stored : LocalWrite(k)

LEMMA NextCases == [Next]_vars => MainStep \/ ChunkStep \/ Outside \/ UNCHANGED rvars
<1> SUFFICES ASSUME [Next]_vars PROVE MainStep \/ ChunkStep \/ Outside \/ UNCHANGED rvars
  OBVIOUS
<1>1. CASE \E u \in Ups : UpSteps(u) \/ Expire(u) \/ Cancel(u)
  BY <1>1 DEF UpSteps, UpBegin, ComposeUp, ComposeUpFails, Poll, GiveUp, Conclude, Expire, Cancel
<1>2. CASE HookStarts \/ HookSteps
  BY <1>2 DEF HookStarts, HookSteps, Step, MainStep, ChunkStep
<1>3. CASE HookTimesOut \/ HookEnds
  BY <1>3 DEF HookTimesOut, HookEnds, Outside
<1>4. CASE Down \/ Reset
  BY <1>4 DEF Down, Reset, Stop, Outside, Gone, Wiped
<1>5. CASE UserWrites
  BY <1>5 DEF UserWrites, Outside
<1>6. CASE UNCHANGED vars
  BY <1>6 DEF vars
<1> QED
  BY <1>1, <1>2, <1>3, <1>4, <1>5, <1>6 DEF Next

LEMMA WriteType ==
  ASSUME TypeOK, NEW W, Write(W)
  PROVE  /\ value' \in [Stored -> {"none", "captured", "local", "altered"}]
         /\ writes' \in [DOMAIN Policy \cup Sent -> Nat]
  BY DEF TypeOK, Write

LEMMA VanishType ==
  ASSUME Typed, Vanish
  PROVE  /\ running' \in BOOLEAN /\ todo' \subseteq Steps /\ raising' \in BOOLEAN /\ rejected' \subseteq Sent
         /\ chunk' \in [Chunks -> Seedings]
         /\ \A c \in Chunks : /\ chunk'[c].pending \subseteq Keys(c) /\ chunk'[c].next = 1
                              /\ chunk'[c].tries < Attempts
<1>1. chunk' \in [Chunks -> Seedings] /\ \A c \in Chunks : chunk'[c] = Queued
  BY QueuedType DEF Vanish
<1> QED
  BY <1>1, QueuedType DEF Vanish

LEMMA MainType == ASSUME Typed, MainStep PROVE Typed'
<1>1. CASE Start
  <2>1. chunk' \in [Chunks -> Seedings] /\ \A c \in Chunks : chunk'[c] = Queued
    BY <1>1, QueuedType DEF Start
  <2>2. starts' \in 0..MaxStarts
    BY <1>1, ParametersAssumption DEF Start, Typed, TypeOK
  <2>3. \A c \in Chunks : /\ chunk'[c].st = "queued" /\ chunk'[c].next = 1
                          /\ chunk'[c].pending = {} /\ chunk'[c].tries < Attempts
    BY <2>1, QueuedType
  <2>4. /\ exit' = "none" /\ raising' = FALSE /\ rejected' = {} /\ running' = TRUE /\ todo' = Steps
        /\ UNCHANGED floci
    BY <1>1 DEF Start
  <2>5. TypeOK'
    BY <2>1, <2>2, <2>3, <2>4 DEF floci, Typed, TypeOK
  <2> QED
    BY <2>3, <2>5 DEF Typed
<1>2. CASE Reject
  <2>1. starts' \in 0..MaxStarts
    BY <1>2, ParametersAssumption DEF Reject, Typed, TypeOK
  <2> QED
    BY <1>2, <2>1 DEF Reject, floci, Typed, TypeOK
<1>3. CASE Ensure \/ Apply \/ Link
  <2>1. Resource \in Resources
    BY <1>3, CurrentFirst DEF Ensure, Apply, Link, Typed, TypeOK
  <2> QED
    BY <1>3, <2>1 DEF Ensure, Apply, Link, Advance, program, Typed, TypeOK
<1>4. CASE Refuse \/ CallFails \/ Leave \/ Finish
  <2>1. /\ exit' \in {"ok", "failed"} /\ running' = FALSE /\ todo' = {}
        /\ UNCHANGED <<rejected, chunk, raising, starts, floci>>
    BY <1>4 DEF Refuse, CallFails, Leave, Finish, Fail, Exit
  <2> QED
    BY <2>1 DEF floci, Typed, TypeOK
<1>5. CASE EndSeed
  BY <1>5 DEF EndSeed, Advance, floci, Typed, TypeOK
<1> QED
  BY <1>1, <1>2, <1>3, <1>4, <1>5 DEF MainStep

LEMMA ChunkType == ASSUME Typed, ChunkStep PROVE Typed'
<1>1. ASSUME NEW c \in Chunks, StartChunk(c) PROVE Typed'
  <2>1. /\ chunk' = [chunk EXCEPT ![c].st = "running", ![c].pending = BatchAt(c, 1)]
        /\ UNCHANGED <<rejected, running, todo, raising, exit, starts, floci>>
        /\ InSeed(c, "queued")
    BY <1>1 DEF StartChunk
  <2>2. BatchAt(c, 1) \subseteq Keys(c) /\ BatchAt(c, 1) \in SUBSET (Stored \cup Sent)
    BY <2>1, BatchFacts, InSeedFacts, KeysType DEF Typed
  <2>3. chunk[c].st = "queued"
    BY <2>1 DEF InSeed
  <2> QED
    BY <2>1, <2>2, <2>3 DEF floci, Typed, TypeOK, Seedings
<1>2. ASSUME NEW c \in Chunks, Call(c) PROVE Typed'
  <2>1. PICK W \in SUBSET chunk[c].pending : Write(W)
    BY <1>2, CallFacts
  <2>2. /\ UNCHANGED <<running, todo, raising, exit, starts, shape, applied, linked, edited>>
        /\ rejected' \subseteq Sent /\ InSeed(c, "running")
    BY <1>2, CallFacts
  <2>3. /\ chunk' \in [Chunks -> Seedings]
        /\ \A d \in Chunks : /\ chunk'[d].pending \subseteq Keys(d)
                             /\ chunk'[d].next >= 1
                             /\ chunk'[d].st = "queued" => chunk'[d].next = 1
                             /\ chunk'[d].st \in {"queued", "running"} => chunk'[d].tries < Attempts
    <3>1. CASE \E rest \in SUBSET chunk[c].pending : chunk' = [chunk EXCEPT ![c] = After(c, rest)]
      <4>1. PICK rest \in SUBSET chunk[c].pending : chunk' = [chunk EXCEPT ![c] = After(c, rest)]
        BY <3>1
      <4> QED
        BY <4>1, <2>2, AfterType DEF Typed, TypeOK
    <3>2. CASE chunk' = [chunk EXCEPT ![c] = [chunk[c] EXCEPT !.st = "failed"]]
      BY <3>2 DEF Typed, TypeOK, Seedings
    <3> QED
      BY <1>2, <3>1, <3>2, CallFacts
  <2> QED
    BY <2>1, <2>2, <2>3, WriteType DEF Typed, TypeOK
<1>3. ASSUME NEW c \in Chunks, Collect(c) PROVE Typed'
  <2>1. /\ chunk' = [chunk EXCEPT ![c] = [chunk[c] EXCEPT !.st = "collected"]]
        /\ UNCHANGED <<rejected, running, todo, raising, exit, starts, floci>>
    BY <1>3 DEF Collect, Seed, floci
  <2> QED
    BY <2>1 DEF floci, Typed, TypeOK, Seedings
<1>4. ASSUME NEW c \in Chunks, Raise(c) PROVE Typed'
  BY <1>4 DEF Raise, floci, Typed, TypeOK
<1> QED
  BY <1>1, <1>2, <1>3, <1>4 DEF ChunkStep

LEMMA OutsideType == ASSUME Typed, Outside PROVE Typed'
<1>1. CASE Kill
  BY <1>1, VanishType DEF Kill, floci, Typed, TypeOK
<1>2. CASE Gone
  <2>1. /\ shape' \in [Resources -> {"absent", "captured", "other"}]
        /\ applied' \subseteq Resources /\ linked' \subseteq Resources
        /\ value' \in [Stored -> {"none", "captured", "local", "altered"}]
        /\ writes' \in [DOMAIN Policy \cup Sent -> Nat]
        /\ edited' \subseteq Stored
    BY <1>2 DEF Gone, Wiped, floci, Typed, TypeOK
  <2> QED
    BY <1>2, <2>1, VanishType DEF Gone, Typed, TypeOK
<1>3. CASE \E k \in Stored : LocalWrite(k)
  BY <1>3 DEF LocalWrite, Typed, TypeOK
<1> QED
  BY <1>1, <1>2, <1>3 DEF Outside

LEMMA NextType == ASSUME Typed, [Next]_vars PROVE Typed'
<1>1. CASE UNCHANGED rvars
  BY <1>1 DEF rvars, floci, program, Typed, TypeOK
<1> QED
  BY <1>1, NextCases, MainType, ChunkType, OutsideType

-----------------------------------------------------------------------------
(* Threads: those at work are of the current resource, and a loop has one. *)
Threads == Seeding("running")

PoolInv ==
  /\ running => exit = "none"
  /\ raising => Seeding("failed") # {}
  /\ \A c \in Threads : On("data") /\ c[1] = Resource
  /\ Cardinality(Threads) <= Workers
  /\ ~Pooled(Resource) => \A c, d \in Threads : c = d
  /\ ~Pooled(Resource) /\ Seeding("failed") # {} => Threads = {}

LEMMA ThreadsFinite ==
  IsFiniteSet(Threads) /\ Cardinality(Threads) \in Nat
<1>1. Threads \subseteq Chunks
  BY DEF Threads, Seeding
<1> QED
  BY <1>1, ChunksFinite, FS_Subset, FS_CardinalityType

LEMMA OneOperation ==
  ASSUME Typed, On("data") PROVE ~On("base") /\ ~On("links")
<1>1. todo \subseteq Steps
  BY DEF Typed, TypeOK
<1>2. Loops[Current[1]].op = "data"
  BY <1>1, CurrentFirst
<1>3. ASSUME On("base") PROVE FALSE
  <2>1. Loops[Current[1]].op = "base"
    BY <1>1, <1>3, CurrentFirst
  <2> QED
    BY <1>2, <2>1
<1>4. ASSUME On("links") PROVE FALSE
  <2>1. Loops[Current[1]].op = "links"
    BY <1>1, <1>4, CurrentFirst
  <2> QED
    BY <1>2, <2>1
<1> QED
  BY <1>3, <1>4

LEMMA MainLeaves == ASSUME Typed, PoolInv, MainStep PROVE Threads' = {}
<1>1. CASE Start
  <2>1. \A c \in Chunks : chunk'[c].st = "queued"
    BY <1>1, QueuedType DEF Start
  <2> QED
    BY <2>1 DEF Threads, Seeding
<1>2. CASE Reject \/ Finish
  <2>1. ~On("data") /\ UNCHANGED chunk
    BY <1>2 DEF Reject, Finish, On
  <2> QED
    BY <2>1 DEF PoolInv, Threads, Seeding
<1>3. CASE Ensure \/ Apply \/ Refuse \/ Link \/ CallFails
  <2>1. (On("base") \/ On("links")) /\ UNCHANGED chunk
    BY <1>3 DEF Ensure, Apply, Refuse, Link, CallFails, Advance, Fail, program
  <2>2. ~On("data")
    BY <2>1, OneOperation
  <2> QED
    BY <2>1, <2>2 DEF PoolInv, Threads, Seeding
<1>4. CASE Leave
  <2>1. raising /\ PoolEmpty /\ UNCHANGED chunk
    BY <1>4 DEF Leave, Fail
  <2>2. CASE Pooled(Resource)
    BY <2>1, <2>2 DEF PoolEmpty, PoolInv, Threads, Seeding, Of
  <2>3. CASE ~Pooled(Resource)
    BY <2>1, <2>3 DEF PoolInv, Threads, Seeding
  <2> QED
    BY <2>2, <2>3
<1>5. CASE EndSeed
  <2>1. Seeded /\ UNCHANGED chunk
    BY <1>5 DEF EndSeed, Advance
  <2> QED
    BY <2>1 DEF Seeded, PoolInv, Threads, Seeding, Of
<1> QED
  BY <1>1, <1>2, <1>3, <1>4, <1>5 DEF MainStep

LEMMA MainPool == ASSUME Typed, PoolInv, MainStep PROVE PoolInv'
<1>1. Threads' = {}
  BY MainLeaves
<1>2. running' => exit' = "none"
  BY DEF PoolInv, MainStep, Start, Reject, Ensure, Apply, Refuse, Link, CallFails, Leave, EndSeed,
         Finish, Fail, Exit, Advance, program
<1>3. raising' => Seeding("failed")' # {}
  <2>1. raising' = FALSE \/ UNCHANGED <<raising, chunk>>
    BY DEF MainStep, Start, Reject, Ensure, Apply, Refuse, Link, CallFails, Leave, EndSeed,
           Finish, Fail, Exit, Advance, program
  <2> QED
    BY <2>1 DEF PoolInv, Seeding
<1>4. Cardinality(Threads') = 0 /\ 0 <= Workers
  BY <1>1, FS_EmptySet, ParametersAssumption
<1> QED
  BY <1>1, <1>2, <1>3, <1>4 DEF PoolInv

LEMMA ChunkPool == ASSUME Typed, PoolInv, ChunkStep PROVE PoolInv'
<1>0. IsFiniteSet(Threads) /\ Cardinality(Threads) \in Nat
  BY ThreadsFinite
<1>1. ASSUME NEW c \in Chunks, StartChunk(c) PROVE PoolInv'
  <2>1. /\ chunk' = [chunk EXCEPT ![c].st = "running", ![c].pending = BatchAt(c, 1)]
        /\ UNCHANGED <<running, todo, raising, exit>>
        /\ InSeed(c, "queued") /\ MayStart(c)
    BY <1>1 DEF StartChunk
  <2>2. c[1] = Resource /\ chunk[c].st = "queued" /\ On("data")
    BY <2>1, InSeedFacts DEF Typed
  <2>3. \A d \in Chunks : chunk'[d].st = IF d = c THEN "running" ELSE chunk[d].st
    BY <2>1 DEF Typed, TypeOK, Seedings
  <2>4. Threads' = Threads \cup {c} /\ Seeding("failed")' = Seeding("failed") /\ c \notin Threads
    BY <2>2, <2>3 DEF Threads, Seeding
  <2>5. Cardinality(Threads') = Cardinality(Threads) + 1
    BY <1>0, <2>4, FS_AddElement
  <2>6. On("data")' /\ Resource' = Resource
    BY <2>1, <2>2 DEF On, First, Resource, Current
  <2>7. Cardinality(Threads) < Limit(Resource) /\ Limit(Resource) <= Workers
    BY <2>1, ParametersAssumption DEF MayStart, Limit, Threads
  <2>8. Cardinality(Threads') <= Workers
    BY <1>0, <2>5, <2>7, ParametersAssumption DEF Limit
  <2>9. ASSUME ~Pooled(Resource) PROVE Threads = {} /\ Seeding("failed") = {}
    <3>1. Cardinality(Threads) = 0
      BY <1>0, <2>7, <2>9 DEF Limit
    <3> QED
      BY <1>0, <2>1, <2>9, <3>1, FS_EmptySet DEF MayStart
  <2>10. \A d \in Threads' : On("data")' /\ d[1] = Resource'
    BY <2>2, <2>4, <2>6 DEF PoolInv
  <2>11. ~Pooled(Resource)' => ~Pooled(Resource)
    BY <2>6 DEF Pooled
  <2> QED
    BY <2>1, <2>4, <2>8, <2>9, <2>10, <2>11 DEF PoolInv
<1>2. ASSUME NEW c \in Chunks, Call(c) PROVE PoolInv'
  <2>1. InSeed(c, "running") /\ UNCHANGED <<running, todo, raising, exit>>
    BY <1>2, CallFacts
  <2>2. c[1] = Resource /\ chunk[c].st = "running" /\ On("data")
    BY <2>1, InSeedFacts DEF Typed
  <2>3. /\ \A d \in Chunks : d # c => chunk'[d].st = chunk[d].st
        /\ chunk'[c].st \in {"running", "finished", "failed"}
    <3>1. CASE \E rest \in SUBSET chunk[c].pending : chunk' = [chunk EXCEPT ![c] = After(c, rest)]
      BY <2>1, <3>1, AfterType DEF Typed, TypeOK
    <3>2. CASE chunk' = [chunk EXCEPT ![c] = [chunk[c] EXCEPT !.st = "failed"]]
      BY <3>2 DEF Typed, TypeOK, Seedings
    <3> QED
      BY <1>2, <3>1, <3>2, CallFacts
  <2>4. Threads' \in SUBSET Threads /\ c \in Threads
    BY <2>2, <2>3 DEF Threads, Seeding
  <2>5. Seeding("failed") \subseteq Seeding("failed")'
    BY <2>2, <2>3 DEF Seeding
  <2>6. On("data")' /\ Resource' = Resource /\ (Pooled(Resource)' <=> Pooled(Resource))
    BY <2>1, <2>2 DEF On, First, Resource, Current, Pooled
  <2>7. Cardinality(Threads') <= Cardinality(Threads) /\ Cardinality(Threads') \in Nat
    BY <1>0, <2>4, FS_Subset, FS_CardinalityType
  <2>8. Cardinality(Threads') <= Workers
    BY <1>0, <2>7, ParametersAssumption DEF PoolInv
  <2>9. ASSUME ~Pooled(Resource), Seeding("failed")' # {} PROVE Threads' = {}
    <3>1. Seeding("failed") = {} /\ Threads = {c}
      BY <2>4, <2>9 DEF PoolInv
    <3>2. chunk'[c].st = "failed"
      BY <2>3, <2>9, <3>1 DEF Seeding
    <3>3. c \notin Threads'
      BY <3>2 DEF Threads, Seeding
    <3> QED
      BY <2>4, <3>1, <3>3
  <2> QED
    BY <2>1, <2>2, <2>4, <2>5, <2>6, <2>8, <2>9 DEF PoolInv
<1>3. ASSUME NEW c \in Chunks, Collect(c) PROVE PoolInv'
  <2>1. /\ chunk' = [chunk EXCEPT ![c] = [chunk[c] EXCEPT !.st = "collected"]]
        /\ UNCHANGED <<running, todo, raising, exit>> /\ chunk[c].st = "finished"
    BY <1>3 DEF Collect, Seed, InSeed
  <2>2. Threads' = Threads /\ Seeding("failed")' = Seeding("failed")
    BY <2>1 DEF Threads, Seeding, Typed, TypeOK, Seedings
  <2> QED
    BY <2>1, <2>2 DEF PoolInv, On, First, Resource, Current, Pooled
<1>4. ASSUME NEW c \in Chunks, Raise(c) PROVE PoolInv'
  <2>1. /\ UNCHANGED <<running, todo, exit, chunk>> /\ chunk[c].st = "failed"
    BY <1>4 DEF Raise, InSeed
  <2>2. Threads' = Threads /\ Seeding("failed")' = Seeding("failed") /\ Seeding("failed") # {}
    BY <2>1 DEF Threads, Seeding
  <2> QED
    BY <2>1, <2>2 DEF PoolInv, On, First, Resource, Current, Pooled
<1> QED
  BY <1>1, <1>2, <1>3, <1>4 DEF ChunkStep

LEMMA OutsidePool == ASSUME Typed, PoolInv, Outside PROVE PoolInv'
<1>1. CASE Kill \/ Gone
  <2>1. Vanish
    BY <1>1 DEF Kill, Gone
  <2>2. \A c \in Chunks : chunk'[c].st = "queued"
    BY <2>1, QueuedType DEF Vanish
  <2>3. Threads' = {}
    BY <2>2 DEF Threads, Seeding
  <2>4. Cardinality(Threads') = 0 /\ 0 <= Workers
    BY <2>3, FS_EmptySet, ParametersAssumption
  <2> QED
    BY <2>1, <2>3, <2>4 DEF PoolInv, Vanish
<1>2. CASE \E k \in Stored : LocalWrite(k)
  <2>1. UNCHANGED <<running, todo, chunk, raising>> /\ ~running
    BY <1>2 DEF LocalWrite
  <2>2. Threads' = Threads /\ Seeding("failed")' = Seeding("failed")
    BY <2>1 DEF Threads, Seeding
  <2> QED
    BY <2>1, <2>2 DEF PoolInv, On, First, Resource, Current, Pooled
<1> QED
  BY <1>1, <1>2 DEF Outside

LEMMA NextPool == ASSUME Typed, PoolInv, [Next]_vars PROVE PoolInv'
<1>1. CASE UNCHANGED rvars
  <2>1. UNCHANGED <<running, todo, chunk, raising, exit>>
    BY <1>1 DEF rvars, program
  <2>2. Threads' = Threads /\ Seeding("failed")' = Seeding("failed")
    BY <2>1 DEF Threads, Seeding
  <2> QED
    BY <2>1, <2>2 DEF PoolInv, On, First, Resource, Current, Pooled
<1> QED
  BY <1>1, NextCases, MainPool, ChunkPool, OutsidePool

-----------------------------------------------------------------------------
(* What a run has done is done: of the steps behind it, of finished chunks *)
(* and of the batches behind a chunk nothing is undone.                    *)
Replayed(k) ==
  /\ k \in Stored => value[k] = "captured" \/ Protected(k)
  /\ k \in Sent => writes[k] >= 1 \/ k \in rejected

StepsDone ==
  \A s \in Steps \ todo :
    /\ Loops[s[1]].op = "base" => shape[s[2]] = "captured" /\ s[2] \in applied
    /\ Loops[s[1]].op = "links" => s[2] \in linked
    /\ Loops[s[1]].op = "data" => \A c \in Of(s[2]) : \A k \in Keys(c) : Replayed(k)

ChunkDone(c) ==
  /\ chunk[c].st \in {"finished", "collected"} => \A k \in Keys(c) : Replayed(k)
  /\ chunk[c].st = "running" =>
       \A i \in DOMAIN Records(c) :
         i < chunk[c].next + Batch[Kind(c[1])] =>
           Records(c)[i] \in chunk[c].pending \/ Replayed(Records(c)[i])

DoneInv ==
  /\ \A k \in Stored : value[k] \in {"local", "altered"} => k \in edited
  /\ running => StepsDone /\ \A c \in Chunks : ChunkDone(c)

LEMMA WriteKeeps ==
  ASSUME Typed, NEW W, Write(W), UNCHANGED edited, rejected \subseteq rejected',
         NEW k, Replayed(k)
  PROVE  Replayed(k)'
<1>1. k \in Stored => value'[k] = "captured" \/ value'[k] = value[k]
  BY DEF Write
<1>2. k \in Sent => writes[k] \in Nat /\ writes'[k] \in {writes[k], writes[k] + 1}
  BY DEF Write, Typed, TypeOK
<1> QED
  BY <1>1, <1>2 DEF Replayed, Protected

LEMMA WriteReplays ==
  ASSUME Typed, NEW W, Write(W), NEW k \in W
  PROVE  Replayed(k)'
<1>1. k \in Stored => value'[k] = "captured"
  BY DEF Write
<1>2. k \in Sent => writes[k] \in Nat /\ writes'[k] = writes[k] + 1
  BY DEF Write, Typed, TypeOK
<1> QED
  BY <1>1, <1>2 DEF Replayed

(* An object that put_object leaves alone is as it should be. *)
LEMMA KeptReplayed ==
  ASSUME Typed, DoneInv, NEW c \in Chunks, Kind(c[1]) = "bucket", NEW k \in Keys(c), Keeps(k)
  PROVE  Replayed(k)
<1>1. k \in Stored /\ k \in DOMAIN Policy /\ k \notin Sent
  BY KeysKinds, BundleAssumption
<1>2. Policy[k] \in {"always", "if-different", "never"}
  BY <1>1, BundleAssumption
<1>3. value[k] \in {"none", "captured", "local", "altered"}
  BY <1>1 DEF Typed, TypeOK
<1> QED
  BY <1>1, <1>2, <1>3 DEF Keeps, DoneInv, Replayed, Protected

(* What a call does not leave for a retry is replayed. *)
LEMMA CallReplays ==
  ASSUME Typed, DoneInv, NEW c \in Chunks, Call(c),
         NEW rest \in SUBSET chunk[c].pending,
         /\ Kind(c[1]) = "table" => Write(chunk[c].pending \ rest)
         /\ Kind(c[1]) = "bucket" => Write({k \in chunk[c].pending : ~Keeps(k)})
         /\ Kind(c[1]) = "stream" =>
              \E W \in SUBSET chunk[c].pending :
                Write(W) /\ rejected' = rejected \cup (chunk[c].pending \ W)
         /\ Kind(c[1]) = "queue" => Write(chunk[c].pending)
  PROVE  \A k \in chunk[c].pending \ rest : Replayed(k)'
<1>0. InSeed(c, "running") /\ UNCHANGED edited /\ rejected \subseteq rejected'
  BY CallFacts
<1> TAKE k \in chunk[c].pending \ rest
<1>1. k \in Keys(c)
  BY DEF Typed, TypeOK
<1>2. CASE Kind(c[1]) = "table"
  BY <1>2, WriteReplays
<1>3. CASE Kind(c[1]) = "bucket"
  <2>1. CASE Keeps(k)
    BY <1>0, <1>1, <1>3, <2>1, KeptReplayed, WriteKeeps
  <2>2. CASE ~Keeps(k)
    BY <1>3, <2>2, WriteReplays
  <2> QED
    BY <2>1, <2>2
<1>4. CASE Kind(c[1]) = "stream"
  <2>1. PICK W \in SUBSET chunk[c].pending :
          Write(W) /\ rejected' = rejected \cup (chunk[c].pending \ W)
    BY <1>4
  <2>2. CASE k \in W
    BY <2>1, <2>2, WriteReplays
  <2>3. CASE k \notin W
    <3>1. k \in rejected' /\ k \notin Stored
      BY <1>1, <1>4, <2>1, <2>3, KeysKinds, BundleAssumption
    <3> QED
      BY <3>1 DEF Replayed
  <2> QED
    BY <2>2, <2>3
<1>5. CASE Kind(c[1]) = "queue"
  BY <1>5, WriteReplays
<1>6. Kind(c[1]) \in {"table", "bucket", "stream", "queue"}
  BY <1>0, InSeedFacts DEF Typed
<1> QED
  BY <1>2, <1>3, <1>4, <1>5, <1>6

(* A call that leaves rest for a retry, or nothing and goes on to the next batch. *)
LEMMA AfterDone ==
  ASSUME Typed, DoneInv, NEW c \in Chunks, Call(c),
         NEW rest \in SUBSET chunk[c].pending,
         chunk' = [chunk EXCEPT ![c] = After(c, rest)],
         \A k \in chunk[c].pending \ rest : Replayed(k)',
         \A k \in Keys(c) : Replayed(k) => Replayed(k)'
  PROVE  ChunkDone(c)'
<1> DEFINE b == Batch[Kind(c[1])]
           next == chunk[c].next
<1>0. InSeed(c, "running")
  BY CallFacts
<1>1. /\ b \in Nat /\ next \in Nat /\ next >= 1 /\ chunk[c].st = "running" /\ running
  BY <1>0, InSeedFacts DEF Typed, Seedings
<1>2. chunk'[c] = After(c, rest)
  BY DEF Typed, TypeOK
<1>3. /\ Len(Records(c)) \in Nat /\ DOMAIN Records(c) = 1..Len(Records(c))
  BY ChunkFacts
<1>4. \A i \in DOMAIN Records(c) :
        i < next + b => Records(c)[i] \in rest \/ Replayed(Records(c)[i])'
  <2> TAKE i \in DOMAIN Records(c)
  <2> HAVE i < next + b
  <2>1. Records(c)[i] \in chunk[c].pending \/ Replayed(Records(c)[i])
    BY <1>1 DEF DoneInv, ChunkDone
  <2>2. Records(c)[i] \in Keys(c)
    BY DEF Keys
  <2> QED
    BY <2>1, <2>2
<1>5. CASE rest = {}
  <2>1. chunk'[c] = [st |-> IF next + b \in DOMAIN Records(c) THEN "running" ELSE "finished",
                     next |-> next + b, pending |-> BatchAt(c, next + b), tries |-> 0]
    BY <1>2, <1>5 DEF After, NextBatch
  <2>2. CASE next + b \in DOMAIN Records(c)
    <3>1. /\ chunk'[c].st = "running" /\ chunk'[c].next = next + b
          /\ chunk'[c].pending = BatchAt(c, next + b)
      BY <2>1, <2>2
    <3>2. \A i \in DOMAIN Records(c) :
            i < next + b + b => Records(c)[i] \in BatchAt(c, next + b) \/ Replayed(Records(c)[i])'
      <4> TAKE i \in DOMAIN Records(c)
      <4> HAVE i < next + b + b
      <4>1. CASE i < next + b
        BY <1>4, <1>5, <4>1
      <4>2. CASE ~(i < next + b)
        <5>1. i \in (next + b)..(next + b + b - 1)
          BY <1>1, <1>3, <4>2
        <5> QED
          BY <5>1 DEF BatchAt
      <4> QED
        BY <4>1, <4>2
    <3> QED
      BY <3>1, <3>2 DEF ChunkDone
  <2>3. CASE next + b \notin DOMAIN Records(c)
    <3>1. chunk'[c].st = "finished"
      BY <2>1, <2>3
    <3>2. \A i \in DOMAIN Records(c) : i < next + b
      BY <1>1, <1>3, <2>3
    <3>3. \A k \in Keys(c) : Replayed(k)'
      BY <1>4, <1>5, <3>2 DEF Keys
    <3> QED
      BY <3>1, <3>3 DEF ChunkDone
  <2> QED
    BY <2>2, <2>3
<1>6. CASE rest # {}
  <2>1. /\ chunk'[c].next = next /\ chunk'[c].pending = rest
        /\ chunk'[c].st \in {"running", "failed"}
    <3> DEFINE x == chunk[c]
               tries == x.tries + 1
               st == IF tries = Attempts THEN "failed" ELSE "running"
    <3>1. chunk'[c] = [x EXCEPT !.pending = rest, !.tries = tries, !.st = st]
      BY <1>2, <1>6 DEF After
    <3>2. x \in Seedings
      BY <1>0, InSeedFacts DEF Typed
    <3>3. x = [st |-> x.st, next |-> x.next, pending |-> x.pending, tries |-> x.tries]
      BY <3>2 DEF Seedings
    <3>4. chunk'[c] = [st |-> st, next |-> x.next, pending |-> rest, tries |-> tries]
      BY <3>1, <3>3
    <3> QED
      BY <3>4
  <2> QED
    BY <1>4, <2>1 DEF ChunkDone
<1> QED
  BY <1>5, <1>6

LEMMA CallDone == ASSUME Typed, DoneInv, NEW c \in Chunks, Call(c) PROVE DoneInv'
<1>1. PICK W \in SUBSET chunk[c].pending : Write(W)
  BY CallFacts
<1>2. /\ InSeed(c, "running") /\ rejected \subseteq rejected'
      /\ UNCHANGED <<running, todo, shape, applied, linked, edited>>
  BY CallFacts
<1>3. \A k : Replayed(k) => Replayed(k)'
  BY <1>1, <1>2, WriteKeeps
<1>4. \A k \in Stored : value'[k] \in {"local", "altered"} => k \in edited'
  BY <1>1, <1>2 DEF Write, DoneInv
<1>5. running
  BY <1>2, InSeedFacts DEF Typed
<1>6. StepsDone'
  BY <1>2, <1>3, <1>5 DEF DoneInv, StepsDone
<1>7. ASSUME NEW d \in Chunks, d # c PROVE ChunkDone(d)'
  <2>1. chunk'[d] = chunk[d]
    <3>1. CASE \E rest \in SUBSET chunk[c].pending : chunk' = [chunk EXCEPT ![c] = After(c, rest)]
      BY <1>7, <3>1 DEF Typed, TypeOK
    <3>2. CASE chunk' = [chunk EXCEPT ![c] = [chunk[c] EXCEPT !.st = "failed"]]
      BY <1>7, <3>2 DEF Typed, TypeOK
    <3> QED
      BY <3>1, <3>2, CallFacts
  <2> QED
    BY <1>3, <1>5, <2>1 DEF DoneInv, ChunkDone
<1>8. ChunkDone(c)'
  <2>1. CASE chunk' = [chunk EXCEPT ![c] = [chunk[c] EXCEPT !.st = "failed"]]
    BY <2>1 DEF ChunkDone, Typed, TypeOK, Seedings
  <2>2. ASSUME NEW rest \in SUBSET chunk[c].pending,
               chunk' = [chunk EXCEPT ![c] = After(c, rest)],
               /\ Kind(c[1]) = "table" => Write(chunk[c].pending \ rest)
               /\ Kind(c[1]) = "bucket" => Write({k \in chunk[c].pending : ~Keeps(k)})
               /\ Kind(c[1]) = "stream" =>
                    \E V \in SUBSET chunk[c].pending :
                      Write(V) /\ rejected' = rejected \cup (chunk[c].pending \ V)
               /\ Kind(c[1]) = "queue" => Write(chunk[c].pending)
        PROVE  ChunkDone(c)'
    <3>1. \A k \in chunk[c].pending \ rest : Replayed(k)'
      BY <2>2, CallReplays
    <3> QED
      BY <1>3, <2>2, <3>1, AfterDone
  <2> QED
    BY <2>1, <2>2, CallFacts
<1> QED
  BY <1>4, <1>6, <1>7, <1>8 DEF DoneInv

LEMMA ReplayedSame ==
  ASSUME UNCHANGED <<value, writes, edited, rejected>>, NEW k
  PROVE  Replayed(k)' <=> Replayed(k)
  BY DEF Replayed, Protected

LEMMA ChunkStepDone == ASSUME Typed, DoneInv, ChunkStep PROVE DoneInv'
<1>1. ASSUME NEW c \in Chunks, StartChunk(c) PROVE DoneInv'
  <2>1. /\ chunk' = [chunk EXCEPT ![c].st = "running", ![c].pending = BatchAt(c, 1)]
        /\ UNCHANGED <<running, todo, rejected, floci>> /\ InSeed(c, "queued")
    BY <1>1 DEF StartChunk
  <2>2. UNCHANGED <<value, writes, edited, rejected, shape, applied, linked>>
    BY <2>1 DEF floci
  <2>3. \A d \in Chunks : d # c => chunk'[d] = chunk[d]
    BY <2>1 DEF Typed, TypeOK
  <2>4. /\ chunk'[c].st = "running" /\ chunk'[c].pending = BatchAt(c, 1) /\ chunk'[c].next = 1
        /\ Batch[Kind(c[1])] \in Nat /\ running
    BY <2>1, InSeedFacts DEF Typed, TypeOK, Seedings
  <2>5. \A i \in DOMAIN Records(c) : i < 1 + Batch[Kind(c[1])] => Records(c)[i] \in BatchAt(c, 1)
    <3> TAKE i \in DOMAIN Records(c)
    <3> HAVE i < 1 + Batch[Kind(c[1])]
    <3>1. i \in 1..(1 + Batch[Kind(c[1])] - 1)
      BY <2>4, ChunkFacts
    <3> QED
      BY <3>1 DEF BatchAt
  <2>6. ChunkDone(c)'
    BY <2>4, <2>5 DEF ChunkDone
  <2>7. ASSUME NEW d \in Chunks, d # c PROVE ChunkDone(d)'
    BY <2>2, <2>3, <2>4, <2>7, ReplayedSame DEF DoneInv, ChunkDone
  <2>8. StepsDone'
    BY <2>1, <2>2, <2>4, ReplayedSame DEF DoneInv, StepsDone
  <2> QED
    BY <2>2, <2>6, <2>7, <2>8 DEF DoneInv
<1>2. ASSUME NEW c \in Chunks, Collect(c) PROVE DoneInv'
  <2>1. /\ chunk' = [chunk EXCEPT ![c] = [chunk[c] EXCEPT !.st = "collected"]]
        /\ UNCHANGED <<running, todo, value, writes, rejected, shape, applied, linked, edited>>
        /\ chunk[c].st = "finished"
    BY <1>2 DEF Collect, Seed, InSeed
  <2>2. \A d \in Chunks : /\ chunk'[d].st = IF d = c THEN "collected" ELSE chunk[d].st
                          /\ chunk'[d].next = chunk[d].next /\ chunk'[d].pending = chunk[d].pending
    BY <2>1 DEF Typed, TypeOK, Seedings
  <2>3. ASSUME running, NEW d \in Chunks PROVE ChunkDone(d)'
    BY <2>1, <2>2, <2>3, ReplayedSame DEF DoneInv, ChunkDone
  <2>4. running => StepsDone'
    BY <2>1, ReplayedSame DEF DoneInv, StepsDone
  <2> QED
    BY <2>1, <2>3, <2>4 DEF DoneInv
<1>3. ASSUME NEW c \in Chunks, Raise(c) PROVE DoneInv'
  <2>1. UNCHANGED <<running, todo, chunk, value, writes, rejected, shape, applied, linked, edited>>
    BY <1>3 DEF Raise, floci
  <2> QED
    BY <2>1, ReplayedSame DEF DoneInv, StepsDone, ChunkDone
<1> QED
  BY <1>1, <1>2, <1>3, CallDone DEF ChunkStep

LEMMA MainStepDone == ASSUME Typed, DoneInv, MainStep PROVE DoneInv'
<1>0. \A k \in Stored : value'[k] \in {"local", "altered"} => k \in edited'
  <2>1. UNCHANGED <<value, edited>>
    BY DEF MainStep, Start, Reject, Ensure, Apply, Refuse, Link, CallFails, Leave, EndSeed,
           Finish, Fail, Exit, Advance, program, floci
  <2> QED
    BY <2>1 DEF DoneInv
<1>1. CASE Start
  <2>1. todo' = Steps /\ \A c \in Chunks : chunk'[c].st = "queued"
    BY <1>1, QueuedType DEF Start
  <2>2. StepsDone'
    BY <2>1 DEF StepsDone
  <2>3. \A c \in Chunks : ChunkDone(c)'
    BY <2>1 DEF ChunkDone
  <2> QED
    BY <1>0, <2>2, <2>3 DEF DoneInv
<1>2. CASE Reject \/ Refuse \/ CallFails \/ Leave \/ Finish
  <2>1. running' = FALSE
    BY <1>2 DEF Reject, Refuse, CallFails, Leave, Finish, Fail, Exit
  <2> QED
    BY <1>0, <2>1 DEF DoneInv
<1>3. ASSUME UNCHANGED <<running, chunk, value, writes, edited, rejected>>, running,
             StepsDone'
      PROVE  DoneInv'
  <2>1. \A c \in Chunks : ChunkDone(c)'
    BY <1>3, ReplayedSame DEF DoneInv, ChunkDone
  <2> QED
    BY <1>0, <1>3, <2>1 DEF DoneInv
<1>4. CASE Ensure
  <2>1. /\ UNCHANGED <<running, todo, chunk, applied, linked, value, writes, edited, rejected>>
        /\ shape' = [shape EXCEPT ![Resource] = "captured"] /\ running
    BY <1>4 DEF Ensure, program, On
  <2>2. \A r \in Resources : shape[r] = "captured" => shape'[r] = "captured"
    BY <2>1 DEF Typed, TypeOK
  <2>3. StepsDone'
    BY <2>1, <2>2, ReplayedSame, StepFacts DEF DoneInv, StepsDone
  <2> QED
    BY <1>3, <2>1, <2>3
<1>5. CASE Apply \/ Link \/ EndSeed
  <2>1. /\ todo' = todo \ {Current} /\ running
        /\ UNCHANGED <<running, chunk, shape, value, writes, edited, rejected>>
        /\ applied \subseteq applied' /\ linked \subseteq linked'
    BY <1>5 DEF Apply, Link, EndSeed, Advance, On, floci
  <2>2. StepsDone /\ Resource = Current[2]
    BY <2>1 DEF DoneInv, Resource
  <2>3. /\ Loops[Current[1]].op = "base" => shape'[Current[2]] = "captured" /\ Current[2] \in applied'
        /\ Loops[Current[1]].op = "links" => Current[2] \in linked'
        /\ Loops[Current[1]].op = "data" =>
             \A c \in Of(Current[2]) : \A k \in Keys(c) : Replayed(k)'
    <3>0. todo \subseteq Steps
      BY DEF Typed, TypeOK
    <3>1. CASE Apply
      <4>1. Loops[Current[1]].op = "base" /\ Resource \in Resources
        BY <3>0, <3>1, CurrentFirst DEF Apply
      <4>2. shape[Resource] = "captured" /\ Resource \in applied'
        BY <3>1, <4>1 DEF Apply, Incompatible, Typed, TypeOK
      <4> QED
        BY <2>1, <2>2, <4>1, <4>2
    <3>2. CASE Link
      <4>1. Loops[Current[1]].op = "links"
        BY <3>0, <3>2, CurrentFirst DEF Link
      <4>2. Resource \in linked'
        BY <3>2 DEF Link
      <4> QED
        BY <2>2, <4>1, <4>2
    <3>3. CASE EndSeed
      <4>1. Loops[Current[1]].op = "data"
        BY <3>0, <3>3, CurrentFirst DEF EndSeed
      <4>2. \A c \in Of(Resource) : c \in Chunks /\ chunk[c].st = "collected"
        BY <3>3 DEF EndSeed, Seeded, Of
      <4>3. \A c \in Of(Resource) : \A k \in Keys(c) : Replayed(k)
        BY <2>1, <4>2 DEF DoneInv, ChunkDone
      <4> QED
        BY <2>1, <2>2, <4>1, <4>3, ReplayedSame
    <3> QED
      BY <1>5, <3>1, <3>2, <3>3
  <2>4. StepsDone'
    <3>1. \A s \in Steps \ todo : \A c \in Of(s[2]) : \A k : Replayed(k) => Replayed(k)'
      BY <2>1, ReplayedSame
    <3>2. ASSUME NEW s \in Steps \ todo', s # Current
          PROVE  /\ Loops[s[1]].op = "base" => shape'[s[2]] = "captured" /\ s[2] \in applied'
                 /\ Loops[s[1]].op = "links" => s[2] \in linked'
                 /\ Loops[s[1]].op = "data" => \A c \in Of(s[2]) : \A k \in Keys(c) : Replayed(k)'
      <4>1. s \in Steps \ todo
        BY <2>1, <3>2
      <4> HIDE DEF Current
      <4> QED
        BY <2>1, <2>2, <3>1, <4>1 DEF StepsDone
    <3> QED
      BY <2>3, <3>2 DEF StepsDone
  <2> QED
    BY <1>3, <2>1, <2>4
<1> QED
  BY <1>1, <1>2, <1>4, <1>5 DEF MainStep

LEMMA OutsideDone == ASSUME Typed, DoneInv, Outside PROVE DoneInv'
<1>1. CASE Kill
  BY <1>1 DEF Kill, Vanish, floci, DoneInv
<1>2. CASE Gone
  BY <1>2 DEF Gone, Vanish, Wiped, floci, DoneInv
<1>3. CASE \E k \in Stored : LocalWrite(k)
  BY <1>3 DEF LocalWrite, DoneInv, Typed, TypeOK
<1> QED
  BY <1>1, <1>2, <1>3 DEF Outside

LEMMA NextDone == ASSUME Typed, DoneInv, [Next]_vars PROVE DoneInv'
<1>1. CASE UNCHANGED rvars
  <2>1. UNCHANGED <<running, todo, chunk, value, writes, rejected, shape, applied, linked, edited>>
    BY <1>1 DEF rvars, floci, program
  <2> QED
    BY <2>1, ReplayedSame DEF DoneInv, StepsDone, ChunkDone
<1> QED
  BY <1>1, NextCases, MainStepDone, ChunkStepDone, OutsideDone

(* When a run ends well it has no step before it. *)
LEMMA AllDone ==
  ASSUME Typed, DoneInv, running, todo = {}
  PROVE  /\ \A r \in Resources : shape[r] = "captured" /\ r \in applied
         /\ \A r \in Resources : Kind(r) \in {"topic", "bucket"} => r \in linked
         /\ \A k \in Stored \cup Sent : Replayed(k)
<1>1. StepsDone /\ Steps \ todo = Steps
  BY DEF DoneInv
<1>2. ASSUME NEW i \in 1..11, NEW r \in Resources, Kind(r) \in Loops[i].kinds
      PROVE  /\ Loops[i].op = "base" => shape[r] = "captured" /\ r \in applied
             /\ Loops[i].op = "links" => r \in linked
             /\ Loops[i].op = "data" => \A c \in Of(r) : \A k \in Keys(c) : Replayed(k)
  <2>1. <<i, r>> \in Steps
    BY <1>2, LoopFacts DEF Steps
  <2> DEFINE s == <<i, r>>
  <2>2. s \in Steps /\ s[1] = i /\ s[2] = r
    BY <2>1
  <2> HIDE DEF s
  <2> QED
    BY <1>1, <2>2 DEF StepsDone
<1>3. ASSUME NEW r \in Resources PROVE shape[r] = "captured" /\ r \in applied
  <2>1. PICK i \in 1..11 : Loops[i].op = "base" /\ Kind(r) \in Loops[i].kinds
    BY LoopFacts, BundleFacts
  <2> QED
    BY <1>2, <2>1
<1>4. ASSUME NEW r \in Resources, Kind(r) \in {"topic", "bucket"} PROVE r \in linked
  <2>1. PICK i \in 1..11 : Loops[i].op = "links" /\ Kind(r) \in Loops[i].kinds
    BY <1>4, LoopFacts
  <2> QED
    BY <1>2, <2>1
<1>5. ASSUME NEW k \in Stored \cup Sent PROVE Replayed(k)
  <2>1. PICK c \in Chunks : Kind(c[1]) \in {"table", "bucket", "stream", "queue"} /\ k \in Keys(c)
    BY DEF Stored, Sent, KeysOf
  <2>2. c[1] \in Resources /\ c \in Of(c[1])
    BY ChunkFacts DEF Of
  <2>3. PICK i \in 1..11 : Loops[i].op = "data" /\ Kind(c[1]) \in Loops[i].kinds
    BY <2>1, LoopFacts
  <2> QED
    BY <1>2, <2>1, <2>2, <2>3
<1> QED
  BY <1>3, <1>4, <1>5

LEMMA NextComplete ==
  ASSUME Typed, PoolInv, DoneInv, ReplayComplete, [Next]_vars PROVE ReplayComplete'
<1>1. CASE Finish
  <2>1. running /\ todo = {} /\ UNCHANGED <<value, writes, edited, rejected, shape, applied, linked>>
    BY <1>1 DEF Finish, floci
  <2> QED
    BY <2>1, AllDone DEF ReplayComplete, Replayed, Protected
<1>2. CASE MainStep /\ ~Finish
  <2>1. exit' \in {"none", "failed"}
    BY <1>2 DEF PoolInv, MainStep, Start, Reject, Ensure, Apply, Refuse, Link, CallFails, Leave, EndSeed,
           Fail, Exit, Advance, program, On
  <2> QED
    BY <2>1 DEF ReplayComplete
<1>3. CASE ChunkStep
  <2>1. running
    BY <1>3, CallFacts DEF ChunkStep, StartChunk, Collect, Raise, InSeed, On
  <2>2. exit' = "none"
    <3>1. UNCHANGED exit
      BY <1>3, CallFacts DEF ChunkStep, StartChunk, Collect, Raise, Seed
    <3> QED
      BY <2>1, <3>1 DEF PoolInv
  <2> QED
    BY <2>2 DEF ReplayComplete
<1>4. CASE Outside
  <2>1. exit' \in {"none", "killed"}
    BY <1>4 DEF Outside, Kill, Gone, LocalWrite
  <2> QED
    BY <2>1 DEF ReplayComplete
<1>5. CASE UNCHANGED rvars
  BY <1>5 DEF rvars, floci, program, ReplayComplete, Protected
<1> QED
  BY <1>1, <1>2, <1>3, <1>4, <1>5, NextCases

-----------------------------------------------------------------------------
(* An object is written for its being missing or for an edit, each once. *)
VersionInv ==
  \A k \in DOMAIN Policy :
    Policy[k] = "if-different" =>
      writes[k] <= (IF value[k] = "captured" THEN 1 ELSE 0) + (IF k \in edited THEN 1 ELSE 0)

LEMMA VersionBound == ASSUME VersionInv, Typed PROVE NoNeedlessVersion
<1> SUFFICES ASSUME NEW k \in DOMAIN Policy, Policy[k] = "if-different"
             PROVE  writes[k] <= 1 + Cardinality({k} \cap edited)
  BY DEF NoNeedlessVersion
<1>1. writes[k] \in Nat
  BY DEF Typed, TypeOK
<1>2. CASE k \in edited
  <2>1. {k} \cap edited = {k} /\ Cardinality({k}) = 1
    BY <1>2, FS_Singleton
  <2>2. Cardinality({k} \cap edited) = 1
    BY <2>1
  <2> QED
    BY <1>1, <1>2, <2>2 DEF VersionInv
<1>3. CASE k \notin edited
  <2>1. {k} \cap edited = {} /\ Cardinality({}) = 0
    BY <1>3, FS_EmptySet
  <2>2. Cardinality({k} \cap edited) = 0
    BY <2>1
  <2> QED
    BY <1>1, <1>3, <2>2 DEF VersionInv
<1> QED
  BY <1>2, <1>3

LEMMA CallVersion ==
  ASSUME Typed, VersionInv, DoneInv, NEW c \in Chunks, Call(c) PROVE VersionInv'
<1>1. PICK W \in SUBSET chunk[c].pending :
        Write(W) /\ (Kind(c[1]) = "bucket" => \A k \in W : ~Keeps(k))
  BY CallFacts
<1>2. InSeed(c, "running") /\ UNCHANGED edited
  BY CallFacts
<1> SUFFICES ASSUME NEW k \in DOMAIN Policy, Policy[k] = "if-different"
             PROVE  writes'[k] <= (IF value'[k] = "captured" THEN 1 ELSE 0)
                                  + (IF k \in edited' THEN 1 ELSE 0)
  BY DEF VersionInv
<1>3. k \in Stored /\ writes[k] \in Nat
  BY BundleAssumption DEF Typed, TypeOK, Stored, KeysOf
<1>4. CASE k \in W
  <2>1. k \in Keys(c) /\ Kind(c[1]) \in {"table", "bucket", "stream", "queue"}
    BY <1>2, <1>4, InSeedFacts DEF Typed, TypeOK
  <2>2. Kind(c[1]) = "bucket"
    BY <2>1, KeysKinds
  <2>3. value[k] # "captured"
    BY <1>1, <1>4, <2>2 DEF Keeps
  <2>4. value'[k] = "captured" /\ writes'[k] = writes[k] + 1
    BY <1>1, <1>3, <1>4 DEF Write, Typed, TypeOK
  <2> QED
    BY <1>2, <1>3, <2>3, <2>4 DEF VersionInv
<1>5. CASE k \notin W
  <2>1. value'[k] = value[k] /\ writes'[k] = writes[k]
    BY <1>1, <1>3, <1>5 DEF Write, Typed, TypeOK
  <2> QED
    BY <1>2, <2>1 DEF VersionInv
<1> QED
  BY <1>4, <1>5

LEMMA NextVersion ==
  ASSUME Typed, DoneInv, VersionInv, [Next]_vars PROVE VersionInv'
<1>1. CASE UNCHANGED <<value, writes, edited>>
  BY <1>1 DEF VersionInv
<1>2. CASE MainStep
  <2>1. UNCHANGED <<value, writes, edited>>
    BY <1>2 DEF MainStep, Start, Reject, Ensure, Apply, Refuse, Link, CallFails, Leave, EndSeed,
           Finish, Fail, Exit, Advance, program, floci
  <2> QED
    BY <1>1, <2>1
<1>3. CASE ChunkStep
  <2>1. ASSUME NEW c \in Chunks, StartChunk(c) \/ Collect(c) \/ Raise(c)
        PROVE  UNCHANGED <<value, writes, edited>>
    BY <2>1 DEF StartChunk, Collect, Raise, Seed, floci
  <2> QED
    BY <1>1, <1>3, <2>1, CallVersion DEF ChunkStep
<1>4. CASE Kill
  BY <1>1, <1>4 DEF Kill, floci
<1>5. CASE Gone
  <2>1. CASE Wiped
    BY <2>1 DEF Wiped, VersionInv, Typed, TypeOK
  <2> QED
    BY <1>1, <1>5, <2>1 DEF Gone, floci
<1>6. ASSUME NEW e \in Stored, LocalWrite(e) PROVE VersionInv'
  <2>1. /\ \E v \in {"local", "altered"} : value' = [value EXCEPT ![e] = v]
        /\ edited' = edited \cup {e} /\ e \notin edited
        /\ UNCHANGED writes
    BY <1>6 DEF LocalWrite
  <2> SUFFICES ASSUME NEW k \in DOMAIN Policy, Policy[k] = "if-different"
               PROVE  writes'[k] <= (IF value'[k] = "captured" THEN 1 ELSE 0)
                                    + (IF k \in edited' THEN 1 ELSE 0)
    BY DEF VersionInv
  <2>2. writes[k] \in Nat /\ value \in [Stored -> {"none", "captured", "local", "altered"}]
    BY DEF Typed, TypeOK
  <2>3. writes[k] <= (IF value[k] = "captured" THEN 1 ELSE 0) + (IF k \in edited THEN 1 ELSE 0)
    BY DEF VersionInv
  <2>4. CASE k = e
    BY <2>1, <2>2, <2>3, <2>4
  <2>5. CASE k # e
    <3>1. value'[k] = value[k] /\ (k \in edited' <=> k \in edited) /\ writes'[k] = writes[k]
      BY <2>1, <2>2, <2>5
    <3> QED
      BY <2>3, <3>1
  <2> QED
    BY <2>4, <2>5
<1>7. CASE UNCHANGED rvars
  BY <1>1, <1>7 DEF rvars, floci
<1> QED
  BY <1>2, <1>3, <1>4, <1>5, <1>6, <1>7, NextCases DEF Outside

-----------------------------------------------------------------------------
(* An incompatible resource: data come after every resource has been seen. *)
LEMMA DataAfterBase ==
  ASSUME Typed, DoneInv, On("data"), NEW r \in Resources
  PROVE  shape[r] = "captured"
<1>0. todo \subseteq Steps /\ running
  BY DEF Typed, TypeOK, On
<1>1. /\ Current \in todo /\ First(Current) /\ Loops[Current[1]].op = "data" /\ Current[1] \in 1..11
  BY <1>0, CurrentFirst, StepFacts
<1>2. PICK i \in 1..11 : Loops[i].op = "base" /\ Kind(r) \in Loops[i].kinds
  BY LoopFacts, BundleFacts
<1> DEFINE s == <<i, r>>
<1>3. s \in Steps /\ s[1] = i /\ s[2] = r
  BY <1>2, LoopFacts DEF Steps
<1>4. i < Current[1]
  BY <1>1, <1>2, LoopFacts
<1> HIDE DEF Current
<1>5. ~Before(Current, s)
  BY <1>1, <1>3, <1>4 DEF Before
<1>6. s \notin todo
  BY <1>1, <1>5 DEF First
<1> HIDE DEF s
<1> QED
  BY <1>0, <1>2, <1>3, <1>6 DEF DoneInv, StepsDone

LEMMA NextStops ==
  ASSUME Typed, DoneInv, [Next]_vars, \E r \in Resources : shape[r] = "other", running, running'
  PROVE  UNCHANGED <<value, writes>>
<1>1. CASE MainStep
  BY <1>1 DEF MainStep, Start, Reject, Ensure, Apply, Refuse, Link, CallFails, Leave, EndSeed,
              Finish, Fail, Exit, Advance, program, floci
<1>2. CASE ChunkStep
  <2>1. ASSUME NEW c \in Chunks, StartChunk(c) \/ Collect(c) \/ Raise(c)
        PROVE  UNCHANGED <<value, writes>>
    BY <2>1 DEF StartChunk, Collect, Raise, Seed, floci
  <2>2. ASSUME NEW c \in Chunks, Call(c) PROVE FALSE
    <3>1. On("data")
      BY <2>2, CallFacts, InSeedFacts DEF Typed
    <3> QED
      BY <3>1, DataAfterBase
  <2> QED
    BY <1>2, <2>1, <2>2 DEF ChunkStep
<1>3. CASE Outside
  BY <1>3 DEF Outside, Kill, Gone, Vanish, LocalWrite
<1>4. CASE UNCHANGED rvars
  BY <1>4 DEF rvars, floci
<1> QED
  BY <1>1, <1>2, <1>3, <1>4, NextCases

-----------------------------------------------------------------------------
Places  == {"idle", "starting", "waiting", "heard", "returned"}
Results == {"none", "BUNDLE_MISSING", "BUNDLE_INVALID", "canceled", "FLOCI_READY_TIMEOUT",
            "COMPOSE_UP_FAILED", "ready", "FLOCI_INIT_FAILED"}
Calls == [pc : Places, canceled : BOOLEAN, expired : BOOLEAN, result : Results, start : Nat]

(* What an `up` has heard is about the start it has heard it of. *)
UpInv ==
  /\ starts \in Nat
  /\ up \in [Ups -> Calls]
  /\ \A u \in Ups : up[u].start <= starts
  /\ \A u \in Ups :
       up[u].result = "ready" /\ up[u].start = starts =>
         container \in {"ready", "down", "booting"} \/ (container = "failed" /\ ~honest)

LEMMA StepStarts == ASSUME Typed, Step PROVE UNCHANGED starts
<1>1. ASSUME NEW c \in Chunks, StartChunk(c) \/ Call(c) \/ Collect(c) \/ Raise(c)
      PROVE  UNCHANGED starts
  BY <1>1, CallFacts DEF StartChunk, Collect, Raise, Seed
<1> QED
  BY <1>1 DEF Step, Ensure, Apply, Refuse, Link, CallFails, Leave, EndSeed, Finish, Fail, Exit, Advance, program

(* An `up` that has heard nothing new of a start. *)
LEMMA UpKeeps ==
  ASSUME UpInv, NEW u \in Ups, NEW call,
         call \in Calls,
         up' = [up EXCEPT ![u] = call],
         call.start \in {0, up[u].start},
         call.result = "ready" => up[u].result = "ready" /\ call.start = up[u].start,
         container' \in {container, Started}, UNCHANGED <<starts, honest>>
  PROVE  UpInv'
<1>1. \A w \in Ups : up'[w] = IF w = u THEN call ELSE up[w]
  BY DEF UpInv
<1>2. /\ container \in {"ready", "down", "booting"} => container' \in {"ready", "down", "booting"}
      /\ container = "failed" => container' = "failed"
  BY DEF Started
<1>3. up' \in [Ups -> Calls]
  BY DEF UpInv
<1> QED
  BY <1>1, <1>2, <1>3 DEF UpInv

LEMMA OutcomeString ==
  ASSUME NEW u \in Ups, NEW x \in Results
  PROVE  Outcome(u, x) \in Results /\ (Outcome(u, x) = "ready" => x = "ready")
<1>1. Outcome(u, x) \in {"canceled", "FLOCI_READY_TIMEOUT", x}
  BY Zenon DEF Outcome
<1> QED
  BY <1>1 DEF Results

LEMMA NextUp == ASSUME Typed, UpInv, [Next]_vars PROVE UpInv'
<1>0. ASSUME NEW u \in Ups PROVE up[u] \in Calls
  BY DEF UpInv
<1>1. ASSUME NEW u \in Ups, NEW result \in Results, Return(u, result),
             result = "ready" => up[u].result = "ready",
             container' \in {container, Started}, UNCHANGED <<starts, honest>>
      PROVE  UpInv'
  <2> DEFINE call == [NoCall EXCEPT !.pc = "returned", !.result = result, !.start = up[u].start]
  <2>1. up' = [up EXCEPT ![u] = call]
    BY <1>1 DEF Return
  <2>2. call \in Calls /\ call.start = up[u].start /\ call.result = result
    BY <1>0 DEF Calls, NoCall, Places
  <2> HIDE DEF call
  <2> QED
    BY <1>1, <2>1, <2>2, UpKeeps
<1>2. ASSUME NEW u \in Ups, NEW pc \in Places, NEW result \in Results, Say(u, pc, result),
             result # "ready", container' \in {container, Started}, UNCHANGED <<starts, honest>>
      PROVE  UpInv'
  <2> DEFINE call == [up[u] EXCEPT !.pc = pc, !.result = result]
  <2>1. up' = [up EXCEPT ![u] = call]
    BY <1>2 DEF Say
  <2>2. call \in Calls /\ call.start = up[u].start /\ call.result = result
    BY <1>0 DEF Calls
  <2> HIDE DEF call
  <2> QED
    BY <1>2, <2>1, <2>2, UpKeeps
<1>3. ASSUME NEW u \in Ups, UpBegin(u) PROVE UpInv'
  <2>0. UNCHANGED <<starts, honest, container>>
    BY <1>3 DEF UpBegin, rvars, program, local
  <2>1. CASE Return(u, "BUNDLE_MISSING") \/ Return(u, "BUNDLE_INVALID")
    BY <1>1, <2>0, <2>1 DEF Results
  <2>2. CASE up' = [up EXCEPT ![u] = [NoCall EXCEPT !.pc = "starting"]]
    <3> DEFINE call == [NoCall EXCEPT !.pc = "starting"]
    <3>1. up' = [up EXCEPT ![u] = call]
      BY <2>2
    <3>2. call \in Calls /\ call.start = 0 /\ call.result = "none"
      BY DEF Calls, NoCall, Places, Results
    <3> HIDE DEF call
    <3> QED
      BY <2>0, <3>1, <3>2, UpKeeps
  <2> QED
    BY <1>3, <2>1, <2>2 DEF UpBegin
<1>4. ASSUME NEW u \in Ups, ComposeUp(u) PROVE UpInv'
  BY <1>1, <1>2, <1>4 DEF Places, Results, ComposeUp, rvars, program, local
<1>5. ASSUME NEW u \in Ups, ComposeUpFails(u) PROVE UpInv'
  <2>1. Outcome(u, "COMPOSE_UP_FAILED") \in Results /\ Outcome(u, "COMPOSE_UP_FAILED") # "ready"
    BY OutcomeString DEF Results
  <2> QED
    BY <1>1, <1>5, <2>1 DEF ComposeUpFails, rvars, program, local
<1>6. ASSUME NEW u \in Ups, Poll(u) PROVE UpInv'
  <2> DEFINE call == [up[u] EXCEPT !.pc = "heard", !.result = Heard, !.start = starts]
  <2>0. Heard \in Results /\ starts \in Nat
    BY DEF Heard, UpInv, Results
  <2>1. up' = [up EXCEPT ![u] = call]
    BY <1>6 DEF Poll
  <2>2. UNCHANGED <<starts, honest, container>>
    BY <1>6 DEF Poll, rvars, program, local
  <2>3. call \in Calls /\ call.start = starts /\ call.result = Heard
    BY <1>0, <2>0 DEF Calls, Places
  <2>6. Heard = "ready" => container = "ready" \/ (container = "failed" /\ ~honest)
    BY DEF Heard, CompletedReady
  <2> HIDE DEF call
  <2>4. \A w \in Ups : up'[w] = IF w = u THEN call ELSE up[w]
    BY <2>1 DEF UpInv
  <2>5. up' \in [Ups -> Calls]
    BY <2>1, <2>3 DEF UpInv
  <2> QED
    BY <2>2, <2>3, <2>4, <2>5, <2>6 DEF UpInv
<1>7. ASSUME NEW u \in Ups, GiveUp(u) PROVE UpInv'
  BY <1>2, <1>7 DEF Places, Results, GiveUp, rvars, program, local
<1>8. ASSUME NEW u \in Ups, Conclude(u) PROVE UpInv'
  <2>1. /\ Outcome(u, up[u].result) \in Results
        /\ Outcome(u, up[u].result) = "ready" => up[u].result = "ready"
    BY <1>0, OutcomeString DEF Calls
  <2> QED
    BY <1>1, <1>8, <2>1 DEF Conclude, rvars, program, local
<1>9. ASSUME NEW u \in Ups, Expire(u) PROVE UpInv'
  <2> DEFINE call == [up[u] EXCEPT !.expired = TRUE]
  <2>1. up' = [up EXCEPT ![u] = call] /\ UNCHANGED <<starts, honest, container>>
    BY <1>9 DEF Expire, rvars, program, local
  <2>2. call \in Calls /\ call.start = up[u].start /\ call.result = up[u].result
    BY <1>0 DEF Calls
  <2> HIDE DEF call
  <2> QED
    BY <2>1, <2>2, UpKeeps
<1>10. ASSUME NEW u \in Ups, Cancel(u) PROVE UpInv'
  <2> DEFINE call == [up[u] EXCEPT !.canceled = TRUE]
  <2>1. up' = [up EXCEPT ![u] = call] /\ UNCHANGED <<starts, honest, container>>
    BY <1>10 DEF Cancel, rvars, program, local
  <2>2. call \in Calls /\ call.start = up[u].start /\ call.result = up[u].result
    BY <1>0 DEF Calls
  <2> HIDE DEF call
  <2> QED
    BY <2>1, <2>2, UpKeeps
<1>11. CASE HookStarts
  <2>1. starts' = starts + 1 /\ UNCHANGED <<up, honest>>
    BY <1>11 DEF HookStarts, Start, Reject, local
  <2>2. \A u \in Ups : up[u].start \in Nat
    BY <1>0 DEF Calls
  <2>3. \A u \in Ups : up'[u].start <= starts' /\ up'[u].start # starts'
    BY <2>1, <2>2 DEF UpInv
  <2> QED
    BY <2>1, <2>3 DEF UpInv
<1>12. CASE HookSteps \/ HookTimesOut
  BY <1>12, StepStarts DEF HookSteps, HookTimesOut, Kill, local, UpInv
<1>13. CASE HookEnds
  BY <1>13 DEF HookEnds, rvars, program, local, UpInv
<1>14. CASE Down \/ Reset
  BY <1>14 DEF Down, Reset, Stop, local, UpInv
<1>15. CASE UserWrites
  BY <1>15 DEF UserWrites, LocalWrite, local, UpInv
<1>16. CASE UNCHANGED vars
  BY <1>16 DEF vars, rvars, program, local, UpInv
<1> QED
  BY <1>3, <1>4, <1>5, <1>6, <1>7, <1>8, <1>9, <1>10, <1>11, <1>12, <1>13, <1>14, <1>15, <1>16 DEF Next, UpSteps

-----------------------------------------------------------------------------
IInv == Typed /\ PoolInv /\ DoneInv /\ ReplayComplete /\ VersionInv /\ UpInv

LEMMA InitInvariant == Init => IInv
<1> SUFFICES ASSUME Init PROVE IInv
  OBVIOUS
<1>1. ReplayInit
  BY DEF Init
<1>2. Typed
  BY <1>1, InitType
<1>3. \A c \in Chunks : chunk[c].st = "queued"
  BY <1>1, QueuedType DEF ReplayInit
<1>4. Threads = {} /\ Cardinality({}) = 0
  BY <1>3, FS_EmptySet DEF Threads, Seeding
<1>5. Cardinality(Threads) <= Workers
  BY <1>4, ParametersAssumption
<1>6. PoolInv
  BY <1>1, <1>4, <1>5 DEF PoolInv, ReplayInit
<1>7. DoneInv /\ ReplayComplete
  BY <1>1 DEF DoneInv, ReplayComplete, ReplayInit
<1>8. VersionInv
  <2> SUFFICES ASSUME NEW k \in DOMAIN Policy PROVE writes[k] = 0
    BY DEF VersionInv
  <2> QED
    BY <1>1 DEF ReplayInit
<1>9. UpInv
  <2>1. NoCall \in Calls /\ NoCall.start = 0 /\ NoCall.result = "none"
    BY DEF NoCall, Calls, Places, Results
  <2>2. starts = 0 /\ up = [u \in Ups |-> NoCall]
    BY DEF Init, ReplayInit
  <2> QED
    BY <2>1, <2>2 DEF UpInv
<1> QED
  BY <1>2, <1>6, <1>7, <1>8, <1>9 DEF IInv

LEMMA NextInvariant == IInv /\ [Next]_vars => IInv'
  BY NextType, NextPool, NextDone, NextComplete, NextVersion, NextUp DEF IInv
(* The replay, its threads and the containers around it agree, always.     *)
THEOREM Invariant == Spec => []IInv
<1>1. Init => IInv
  BY InitInvariant
<1>2. IInv /\ [Next]_vars => IInv'
  BY NextInvariant
<1> QED
  BY <1>1, <1>2, PTL DEF Spec

(* Types of the replay's variables, in whatever order containers come, run *)
(* and go.                                                                 *)
THEOREM TypeCorrect == Spec => []TypeOK
<1>1. IInv => TypeOK
  BY DEF IInv, Typed
<1> QED
  BY <1>1, Invariant, PTL

(* A pool of seed threads (replay.py, seed_dynamodb and seed_s3) has at     *)
(* most Workers of them at work, all on the current resource's chunks, and *)
(* none is left when main has gone on or ended by itself.                  *)
THEOREM ThreadsAreContained == Spec => []PoolsContained
<1>1. IInv => PoolsContained
  <2> SUFFICES ASSUME PoolInv PROVE PoolsContained
    BY DEF IInv
  <2>1. exit \in {"ok", "failed"} => Threads = {}
    BY DEF PoolInv, On
  <2> QED
    BY <2>1 DEF PoolInv, PoolsContained, Threads
<1> QED
  BY <1>1, Invariant, PTL

(* Idempotence of replay.py: a run that exits well leaves the captured     *)
(* state, and no number of runs, killed anywhere, gives an object with the *)
(* policy if-different more versions than its absence and edits explain.   *)
THEOREM ReplayIsFaithful == Spec => []ReplayFaithful
<1>1. IInv => ReplayFaithful
  BY VersionBound DEF IInv, ReplayFaithful
<1> QED
  BY <1>1, Invariant, PTL

(* An incompatible table or bucket, wherever in the bundle, stops a run    *)
(* before it writes a row, an object or a message.                         *)
THEOREM IncompatibleIsFinal == Spec => IncompatibleStops
<1>1. IInv /\ [Next]_vars =>
        [(\E r \in Resources : shape[r] = "other") /\ running /\ running' =>
         UNCHANGED <<value, writes>>]_rvars
  BY NextStops DEF IInv
<1> QED
  BY <1>1, Invariant, PTL DEF Spec, IncompatibleStops

(* An `up` that reports ready says what `status` says of the same start of *)
(* the container, with any number of others, of timeouts and of stops,     *)
(* unless Floci calls itself ready although that start's replay failed.    *)
THEOREM UpIsTruthful == Spec => []UpTruthful
<1>1. IInv => UpTruthful
  <2> SUFFICES ASSUME UpInv PROVE UpTruthful
    BY DEF IInv
  <2>1. /\ container = "ready" => InspectState = "ready"
        /\ container = "failed" /\ ~honest => CompletedReady /\ ScriptFailed
    BY DEF InspectState, CompletedReady, ScriptFailed
  <2> QED
    BY <2>1 DEF UpInv, UpTruthful
<1> QED
  BY <1>1, Invariant, PTL
=============================================================================
