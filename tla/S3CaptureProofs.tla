--------------------------- MODULE S3CaptureProofs ---------------------------
(***************************************************************************)
(* Proofs about S3Capture, for any keys, bodies, prefixes, limits and any  *)
(* number of writes and interruptions: an inventory lists no key twice, no *)
(* resume is refused, the limits bind all attempts together, the packs of  *)
(* a dataset cut its inventory as one attempt would, and what nobody wrote *)
(* to is captured as the bucket has it.                                    *)
(***************************************************************************)
EXTENDS S3Capture, FiniteSetTheorems, SequenceTheorems, TLAPS

(* What the inductive argument needs of the types. *)
Types ==
  /\ object \in [Keys -> Objects \cup {NoObject}]
  /\ inventory \in Seq(Entry)
  /\ checkpoint \in Progress \cup {NoFile}
  /\ file \in [Keys -> [data : Seq(Listed) \cup {NoFile}, index : Seq(Index) \cup {NoFile}]]
  /\ \A n \in DOMAIN ledger : ledger[n].pack \in Pack
  /\ pc \in {"idle", "inventory", "list", "pack", "reuse", "fetch", "index", "save", "done"}
  /\ cp \in Progress
  /\ page.rows \subseteq Listed /\ page.next \in Keys \cup {0}
  /\ pack \in Pack

-----------------------------------------------------------------------------
(* The keys that remain to be listed at a token of a prefix. *)
Later(prefix, token) ==
  {k \in Keys : \E i \in DOMAIN Prefixes :
      /\ k \in Prefixes[i]
      /\ i > prefix \/ (i = prefix /\ k > token)}

(* The same, once the page is through. *)
LaterThanPage ==
  IF page.next = 0 THEN Later(cp.prefix + 1, 0) ELSE Later(cp.prefix, page.next)

(* The first n lines of the inventory come before all keys of K. *)
Before(n, K) == \A i \in 1..n, k \in K : inventory[i].key < k

(* A line's key is at least its number, so there are no more than Last.    *)
Spaced == \A n \in DOMAIN inventory : inventory[n].key >= n

(* A progress that covers lines of the inventory, all of them if it is     *)
(* complete, and otherwise says where the listing goes on.                 *)
Covers(c) ==
  /\ c.listed <= Len(inventory)
  /\ c.complete => c.listed = Len(inventory)
  /\ ~c.complete => c.prefix \in DOMAIN Prefixes /\ Before(c.listed, Later(c.prefix, c.token))

OrderInv ==
  /\ InventoryOrdered
  /\ Spaced
  /\ checkpoint # NoFile => Covers(checkpoint)
  /\ pc # "idle" => cp.listed = Len(inventory)
  /\ pc \in {"inventory", "list"} =>
       /\ ~cp.complete /\ cp.prefix \in DOMAIN Prefixes
       /\ checkpoint # NoFile => ~checkpoint.complete /\ checkpoint.listed <= cp.listed
  /\ pc = "inventory" => Before(cp.listed, Later(cp.prefix, cp.token))
  /\ pc = "list" =>
       /\ \A row, other \in page.rows : row.key = other.key => row = other
       /\ \A row \in page.rows : Before(cp.listed, {row.key})
       /\ \A row \in page.rows, k \in LaterThanPage : row.key < k
       /\ Before(cp.listed, LaterThanPage)
  /\ pc \notin {"idle", "inventory", "list"} =>
       cp.complete /\ checkpoint # NoFile /\ checkpoint.complete

(* Each pack has an entry at least. *)
Filled(c) == /\ Len(c.packs) <= c.packed
             /\ c.packed <= c.listed
             /\ ~c.complete => c.packed = 0

PackInv ==
  /\ checkpoint # NoFile => Filled(checkpoint) /\ Intact(checkpoint)
  /\ pc # "idle" =>
       /\ Filled(cp)
       /\ cp.packs = IF checkpoint = NoFile THEN <<>> ELSE checkpoint.packs
  /\ pc \in {"reuse", "fetch", "index", "save"} => cp.packed < cp.listed
  /\ pc = "index" => file[Number].data = pack.data
  /\ pc = "save" => file[Number] = pack

IInv == Types /\ OrderInv /\ PackInv

-----------------------------------------------------------------------------
(* A pack has an entry, and ends within the inventory. *)
LEMMA PackEnds ==
  ASSUME Types, NEW from \in Nat, from < Len(inventory)
  PROVE  PackEnd(from) \in Nat /\ from < PackEnd(from) /\ PackEnd(from) <= Len(inventory)
<1> DEFINE lines == (from + 1)..Len(inventory)
<1>1. Len(inventory) \in Nat
  BY LenProperties DEF Types
<1>2. IsFiniteSet(lines) /\ Cardinality(lines) = Len(inventory) - from
  BY <1>1, FS_Interval
<1>3. InPack(from) \in SUBSET lines
  BY DEF InPack
<1>4. IsFiniteSet(InPack(from)) /\ Cardinality(InPack(from)) <= Len(inventory) - from
  <2> HIDE DEF lines
  <2> QED
    BY <1>2, <1>3, FS_Subset
<1>5. from + 1 \in InPack(from)
  BY <1>1, ParametersAssumption DEF InPack
<1>6. Cardinality(InPack(from)) \in Nat /\ Cardinality(InPack(from)) # 0
  BY <1>4, <1>5, FS_CardinalityType, FS_EmptySet
<1> QED
  BY <1>1, <1>4, <1>6 DEF PackEnd

(* The entries of a pack are lines of the inventory. *)
LEMMA EntryFetched ==
  ASSUME Types, OrderInv, PackInv, Fetching
  PROVE  NextEntry \in Entry
<1> DEFINE from == cp.packed
           to == PackEnd(from)
<1>1. from \in Nat /\ from < Len(inventory)
  BY DEF Fetching, OrderInv, PackInv, Types, Progress
<1>2. to \in Nat /\ to <= Len(inventory) /\ from < to
  BY <1>1, PackEnds
<1>3. \A n \in (from + 1)..to : inventory[n] \in Entry
  <2> HIDE DEF from, to
  <2> QED
    BY <1>1, <1>2, ElementOfSeq, LenProperties DEF Types
<1>4. PackAfter(from) \in Seq(Entry)
  <2>1. from + 1 \in Int /\ to \in Int
    BY <1>1, <1>2
  <2> HIDE DEF from, to
  <2>2. SubSeq(inventory, from + 1, to) \in Seq(Entry)
    BY <2>1, <1>3, SubSeqProperties
  <2> QED
    BY <2>2 DEF PackAfter, to
<1>5. Len(pack.data) \in Nat /\ Len(pack.data) < Len(PackAfter(from))
  BY LenProperties DEF Fetching, Types, Pack
<1> HIDE DEF from
<1>6. Len(pack.data) + 1 \in 1..Len(PackAfter(from))
  BY <1>4, <1>5, LenProperties
<1> QED
  BY <1>4, <1>6, ElementOfSeq DEF NextEntry, from

LEMMA TypesInit == Init => Types
BY EmptySeq DEF Init, Types, Fresh, Progress, NoFiles, NoPage, NoPack, Pack

(* Each step preserves the types. *)
LEMMA TypesStep ==
  ASSUME Types, OrderInv, PackInv, [Next]_vars
  PROVE  Types'
<1>0. /\ Fresh \in Progress /\ NoPack \in Pack /\ NoPage.rows \subseteq Listed
      /\ NoPage.next \in Keys \cup {0}
      /\ NoFiles \in [data : Seq(Listed) \cup {NoFile}, index : Seq(Index) \cup {NoFile}]
  BY EmptySeq DEF Fresh, Progress, NoPack, Pack, NoPage, NoFiles
<1> USE <1>0 DEF Types, Goto, Exit, source, disk, process
<1>1. ASSUME NEW k \in Keys, WriteObject(k) PROVE Types'
  BY <1>1 DEF WriteObject
<1>2. CASE StartFresh
  BY <1>2, EmptySeq DEF StartFresh
<1>3. CASE Resume
  <2>1. ASSUME ~checkpoint.complete
        PROVE  SubSeq(inventory, 1, checkpoint.listed) \in Seq(Entry)
    BY <1>3, <2>1 DEF Resume, OrderInv, Covers, Progress
  <2> QED
    BY <1>3, <2>1 DEF Resume
<1>4. CASE ListPage
  <2> DEFINE keys == {k \in Prefixes[cp.prefix] : k > cp.token /\ object[k] # NoObject}
             upto(end) == {[key |-> k, body |-> object[k].body] : k \in {k \in keys : k <= end}}
  <2>1. page' \in {[rows |-> upto(k), next |-> k] : k \in keys}
                    \cup {[rows |-> upto(Last), next |-> 0]}
    BY <1>4 DEF ListPage
  <2>2. keys \subseteq Keys
    BY <1>4, ParametersAssumption, LenProperties DEF ListPage, OrderInv
  <2>3. \A k \in keys : object[k].body \in Bodies
    BY <2>2 DEF Objects
  <2>4. \A end : upto(end) \subseteq Listed
    BY <2>2, <2>3 DEF Listed
  <2>5. page'.rows \subseteq Listed /\ page'.next \in Keys \cup {0}
    <3> HIDE DEF keys, upto
    <3> QED
      BY <2>1, <2>2, <2>4
  <2> QED
    BY <1>4, <2>5 DEF ListPage
<1>5. ASSUME NEW row \in page.rows, InventoryObject(row) PROVE Types'
  <2>1. row \in Listed /\ Size[row.body] \in Nat
    BY <1>5, ParametersAssumption DEF Listed
  <2>2. DigestNow(row.key) \subseteq Metadata
    BY <2>1 DEF DigestNow, Listed, Objects, Metadata
  <2>3. inventory' \in Seq(Entry)
    BY <1>5, <2>1, <2>2, AppendProperties DEF InventoryObject, Entry, Listed
  <2>4. cp' \in Progress
    <3> DEFINE size == Size[row.body]
    <3>1. cp.listed + 1 \in Nat /\ cp.bytes + size \in Nat
      <4>1. cp.listed \in Nat /\ cp.bytes \in Nat
        BY DEF Progress
      <4>2. size \in Nat
        BY <2>1
      <4> HIDE DEF size
      <4> QED
        BY <4>1, <4>2
    <3>2. cp' = [cp EXCEPT !.listed = cp.listed + 1, !.bytes = cp.bytes + size]
      BY <1>5 DEF InventoryObject
    <3> HIDE DEF size
    <3> QED
      BY <3>1, <3>2 DEF Progress
  <2> QED
    BY <1>5, <2>3, <2>4 DEF InventoryObject
<1>6. ASSUME NEW row \in page.rows, SkipOversized(row) PROVE Types'
  BY <1>6 DEF SkipOversized
<1>7. ASSUME NEW row \in page.rows, StopAtLimit(row) PROVE Types'
  BY <1>7 DEF StopAtLimit, Progress
<1>8. CASE EndPage
  <2> DEFINE prefix == IF page.next = 0 THEN cp.prefix + 1 ELSE cp.prefix
             complete == page.next = 0 /\ cp.prefix = Len(Prefixes)
  <2>1. prefix \in Nat /\ complete \in BOOLEAN
    BY DEF Progress
  <2>2. cp' = [cp EXCEPT !.token = page.next, !.prefix = prefix, !.complete = complete]
    BY <1>8 DEF EndPage
  <2>3. cp' \in Progress
    <3> HIDE DEF prefix, complete
    <3> QED
      BY <2>1, <2>2 DEF Progress
  <2> QED
    BY <1>8, <2>3 DEF EndPage
<1>9. CASE ReusePack
  BY <1>9 DEF ReusePack, FreshInLedger
<1>10. CASE MaterializeData
  BY <1>10 DEF MaterializeData, Pack
<1>11. CASE MaterializeIndex
  BY <1>11 DEF MaterializeIndex, Pack
<1>12. CASE BeginPack
  BY <1>12 DEF BeginPack
<1>13. CASE FetchObject
  <2> DEFINE e == NextEntry
  <2>1. PICK meta \in DigestNow(e.key) :
          pack' = [data |-> Append(pack.data, [key |-> e.key, body |-> e.body]),
                   index |-> Append(pack.index, [key |-> e.key, meta |-> meta])]
    BY <1>13 DEF FetchObject
  <2>2. e \in Entry
    BY <1>13, EntryFetched DEF FetchObject
  <2>3. [key |-> e.key, body |-> e.body] \in Listed /\ [key |-> e.key, meta |-> meta] \in Index
    <3> HIDE DEF e
    <3> QED
      BY <2>1, <2>2 DEF Entry, Listed, Index, DigestNow, Objects, Metadata
  <2>4. pack' \in Pack
    <3> HIDE DEF e
    <3> QED
      BY <2>1, <2>3, AppendProperties DEF Pack
  <2> QED
    BY <1>13, <2>4 DEF FetchObject
<1>14. CASE ObjectChanged
  BY <1>14 DEF ObjectChanged
<1>15. CASE WriteData
  BY <1>15 DEF WriteData, Pack
<1>16. CASE WriteIndex
  BY <1>16 DEF WriteIndex, Pack
<1>17. CASE SavePack
  <2>1. PackEnd(cp.packed) \in Nat
    BY <1>17, PackEnds DEF SavePack, PackInv, OrderInv, Progress
  <2>2. Append(cp.packs, pack) \in Seq(Pack)
    BY AppendProperties DEF Progress
  <2>3. cp' \in Progress
    BY <1>17, <2>1, <2>2 DEF SavePack, Progress
  <2> QED
    BY <1>17, <2>3 DEF SavePack
<1>18. CASE Finish
  BY <1>18 DEF Finish
<1>19. CASE PullSucceeds
  <2>1. \A n \in DOMAIN Units : Units[n].pack \in Pack
    BY LenProperties, ElementOfSeq DEF Units, Progress
  <2> QED
    BY <1>19, <2>1, EmptySeq DEF PullSucceeds
<1>20. CASE Stop
  BY <1>20 DEF Stop
<1>21. CASE UNCHANGED vars
  BY <1>21 DEF vars
<1> QED
  BY <1>1, <1>2, <1>3, <1>4, <1>5, <1>6, <1>7, <1>8, <1>9, <1>10, <1>11, <1>12, <1>13,
     <1>14, <1>15, <1>16, <1>17, <1>18, <1>19, <1>20, <1>21 DEF Next, Attempt, Run

-----------------------------------------------------------------------------
LEMMA OrderInit == Init => OrderInv
BY DEF Init, OrderInv, InventoryOrdered, Spaced

(* What is left of the listing is ahead of its token, prefix after prefix. *)
LEMMA LaterPrefix ==
  ASSUME NEW p \in DOMAIN Prefixes, NEW t \in Nat
  PROVE  /\ Later(p + 1, 0) \subseteq Later(p, t)
         /\ \A u \in Nat : u >= t => Later(p, u) \subseteq Later(p, t)
         /\ \A k \in Prefixes[p] : k > t => k \in Later(p, t)
         /\ \A k \in Prefixes[p], l \in Later(p + 1, 0) : k < l
<1>1. DOMAIN Prefixes \subseteq Nat /\ \A i \in DOMAIN Prefixes : Prefixes[i] \subseteq Keys
  BY ParametersAssumption, LenProperties
<1>2. Keys \subseteq Nat
  BY ParametersAssumption DEF Keys
<1>3. Later(p + 1, 0) \subseteq Later(p, t)
  BY <1>1 DEF Later
<1>4. ASSUME NEW u \in Nat, u >= t, NEW k \in Later(p, u) PROVE k \in Later(p, t)
  <2>1. PICK i \in DOMAIN Prefixes : k \in Prefixes[i] /\ (i > p \/ (i = p /\ k > u))
    BY DEF Later
  <2>2. k \in Keys /\ (k > u => k > t)
    BY <1>2, <1>4 DEF Later
  <2> QED
    BY <2>1, <2>2 DEF Later
<1>5. \A k \in Prefixes[p] : k > t => k \in Later(p, t)
  BY <1>1 DEF Later
<1>6. ASSUME NEW k \in Prefixes[p], NEW l \in Later(p + 1, 0) PROVE k < l
  <2>1. PICK i \in DOMAIN Prefixes : l \in Prefixes[i] /\ (i > p + 1 \/ i = p + 1)
    BY DEF Later
  <2>2. p < i
    BY <1>1, <2>1
  <2> QED
    BY <2>1, <2>2, ParametersAssumption
<1> QED
  BY <1>3, <1>4, <1>5, <1>6

(* A step that leaves the inventory, the checkpoint and the listing alone. *)
LEMMA OrderFrame ==
  ASSUME OrderInv, UNCHANGED <<inventory, checkpoint, cp, page>>,
         pc' = pc \/ (/\ pc \notin {"idle", "inventory", "list"}
                      /\ pc' \notin {"idle", "inventory", "list"})
  PROVE  OrderInv'
BY DEF OrderInv, InventoryOrdered, Spaced, Covers, Before, LaterThanPage

(* The process exits. *)
LEMMA OrderExit ==
  ASSUME OrderInv, Exit, UNCHANGED <<inventory, checkpoint>>
  PROVE  OrderInv'
BY DEF OrderInv, InventoryOrdered, Spaced, Covers, Before, Exit, Goto

(* A resumed process has the lines that the checkpoint covers. *)
LEMMA ResumeLines ==
  ASSUME Types, OrderInv, Resume
  PROVE  /\ inventory' \in Seq(Entry)
         /\ Len(inventory') = checkpoint.listed /\ checkpoint.listed \in Nat
         /\ \A i \in 1..checkpoint.listed : inventory'[i] = inventory[i]
<1>1. checkpoint \in Progress /\ Len(inventory) \in Nat /\ DOMAIN inventory = 1..Len(inventory)
  BY LenProperties DEF Resume, Types
<1>2. checkpoint.listed \in Nat /\ checkpoint.listed <= Len(inventory)
  BY <1>1 DEF Resume, OrderInv, Covers, Progress
<1>3. CASE checkpoint.complete
  BY <1>1, <1>2, <1>3 DEF Resume, OrderInv, Covers, Types
<1>4. CASE ~checkpoint.complete
  <2> DEFINE n == checkpoint.listed
  <2>1. \A i \in 1..n : inventory[i] \in Entry
    BY <1>1, <1>2, ElementOfSeq DEF Types
  <2>2. n \in Nat /\ inventory' = SubSeq(inventory, 1, n)
    BY <1>2, <1>4 DEF Resume
  <2> HIDE DEF n
  <2>3. /\ SubSeq(inventory, 1, n) \in Seq(Entry)
        /\ Len(SubSeq(inventory, 1, n)) = IF 1 <= n THEN n - 1 + 1 ELSE 0
        /\ \A i \in 1..(n - 1 + 1) : SubSeq(inventory, 1, n)[i] = inventory[1 + i - 1]
    BY <2>1, <2>2, SubSeqProperties
  <2>4. (IF 1 <= n THEN n - 1 + 1 ELSE 0) = n /\ n - 1 + 1 = n
    BY <2>2
  <2>5. \A i \in 1..n : 1 + i - 1 = i
    BY <2>2
  <2> QED
    BY <2>2, <2>3, <2>4, <2>5 DEF n
<1> QED
  BY <1>3, <1>4

LEMMA OrderResume ==
  ASSUME Types, OrderInv, Resume
  PROVE  OrderInv'
<1> USE DEF Resume, Goto
<1>1. checkpoint \in Progress /\ Len(inventory) \in Nat /\ DOMAIN inventory = 1..Len(inventory)
  BY LenProperties DEF Types
<1>2. CASE checkpoint.complete
  BY <1>1, <1>2 DEF OrderInv, InventoryOrdered, Spaced, Covers, Before
<1>3. CASE ~checkpoint.complete
  <2>1. checkpoint.listed \in Nat /\ checkpoint.listed <= Len(inventory)
    BY <1>1 DEF OrderInv, Covers, Progress
  <2>2. /\ inventory' \in Seq(Entry)
        /\ Len(inventory') = checkpoint.listed
        /\ \A i \in 1..checkpoint.listed : inventory'[i] = inventory[i]
    BY ResumeLines
  <2>3. DOMAIN inventory' = 1..checkpoint.listed
    BY <2>2, LenProperties
  <2>4. InventoryOrdered' /\ Spaced'
    BY <1>1, <2>1, <2>2, <2>3 DEF OrderInv, InventoryOrdered, Spaced
  <2>5. Covers(checkpoint)'
    BY <1>3, <2>1, <2>2 DEF OrderInv, Covers, Before
  <2> QED
    BY <1>1, <1>3, <2>2, <2>4, <2>5 DEF OrderInv, Covers, Before, Progress
<1> QED
  BY <1>2, <1>3

LEMMA OrderListPage ==
  ASSUME Types, OrderInv, ListPage
  PROVE  OrderInv'
<1> DEFINE keys == {k \in Prefixes[cp.prefix] : k > cp.token /\ object[k] # NoObject}
           upto(end) == {[key |-> k, body |-> object[k].body] : k \in {k \in keys : k <= end}}
<1>1. PICK end \in Keys \cup {Last} :
        /\ page'.rows = upto(end)
        /\ page'.next = 0 \/ (page'.next = end /\ end \in keys)
  <2>1. page' \in {[rows |-> upto(k), next |-> k] : k \in keys}
                    \cup {[rows |-> upto(Last), next |-> 0]}
    BY DEF ListPage
  <2>2. keys \subseteq Keys
    BY ParametersAssumption, LenProperties DEF ListPage, OrderInv
  <2> HIDE DEF keys, upto
  <2> QED
    BY <2>1, <2>2
<1>2. cp.prefix \in DOMAIN Prefixes /\ cp.token \in Nat /\ cp.prefix \in Nat
  BY ParametersAssumption DEF ListPage, OrderInv, Types, Progress, Keys
<1>3. keys \subseteq Later(cp.prefix, cp.token) /\ keys \subseteq Keys /\ Keys \subseteq Nat
  BY <1>2, LaterPrefix, ParametersAssumption, LenProperties DEF Keys
<1>4. Before(cp.listed, Later(cp.prefix, cp.token))
  BY DEF ListPage, OrderInv
<1>5. \A row \in page'.rows : row.key \in keys /\ row.key <= end
                              /\ row = [key |-> row.key, body |-> object[row.key].body]
  <2> HIDE DEF keys
  <2> QED
    BY <1>1
<1>6. LaterThanPage' \subseteq Later(cp.prefix, cp.token)
  <2>1. LaterThanPage' = IF page'.next = 0 THEN Later(cp.prefix + 1, 0)
                                            ELSE Later(cp.prefix, page'.next)
    BY DEF ListPage, LaterThanPage
  <2>2. page'.next # 0 => page'.next \in Nat /\ page'.next >= cp.token
    BY <1>1, <1>2, <1>3
  <2> HIDE DEF keys, upto
  <2> QED
    BY <2>1, <2>2, <1>2, LaterPrefix
<1>7. \A row \in page'.rows, k \in LaterThanPage' : row.key < k
  <2>1. SUFFICES ASSUME NEW row \in page'.rows, NEW k \in LaterThanPage'
                 PROVE  row.key < k
    OBVIOUS
  <2>2. row.key \in Prefixes[cp.prefix] /\ row.key \in Nat /\ row.key <= end
    BY <1>3, <1>5
  <2>3. CASE page'.next = 0
    <3>1. k \in Later(cp.prefix + 1, 0)
      BY <2>3 DEF ListPage, LaterThanPage
    <3> QED
      BY <1>2, <2>2, <3>1, LaterPrefix
  <2>4. CASE page'.next # 0
    <3>1. k \in Later(cp.prefix, end) /\ end \in Nat
      BY <2>4, <1>1, <1>3 DEF ListPage, LaterThanPage
    <3>2. CASE k \in Later(cp.prefix + 1, 0)
      BY <1>2, <2>2, <3>2, LaterPrefix
    <3>3. CASE k \in Prefixes[cp.prefix] /\ k > end
      BY <2>2, <3>1, <3>3, <1>3 DEF Later
    <3>4. k \in Later(cp.prefix + 1, 0) \/ (k \in Prefixes[cp.prefix] /\ k > end)
      <4>1. PICK i \in DOMAIN Prefixes : /\ k \in Prefixes[i]
                                         /\ i > cp.prefix \/ (i = cp.prefix /\ k > end)
        BY <3>1 DEF Later
      <4>2. i \in Nat /\ k \in Keys /\ k > 0
        BY <4>1, ParametersAssumption, LenProperties DEF Keys
      <4> QED
        BY <1>2, <4>1, <4>2 DEF Later
    <3> QED
      BY <3>2, <3>3, <3>4
  <2> QED
    BY <2>3, <2>4
<1>8. \A row, other \in page'.rows : row.key = other.key => row = other
  BY <1>5
<1>9. \A row \in page'.rows : Before(cp.listed, {row.key})
  BY <1>3, <1>4, <1>5 DEF Before
<1>10. Before(cp.listed, LaterThanPage')
  BY <1>4, <1>6 DEF Before
<1> HIDE DEF keys, upto
<1>11. pc' = "list" /\ UNCHANGED <<inventory, checkpoint, cp>>
  BY DEF ListPage, disk, Goto
<1> QED
  BY <1>7, <1>8, <1>9, <1>10, <1>11
  DEF ListPage, OrderInv, InventoryOrdered, Spaced, Covers, Before

LEMMA OrderInventoryObject ==
  ASSUME Types, OrderInv, NEW row \in page.rows, InventoryObject(row)
  PROVE  OrderInv'
<1> DEFINE len == Len(inventory)
<1>1. /\ len \in Nat /\ cp.listed = len /\ DOMAIN inventory = 1..len
      /\ \A i \in 1..len : inventory[i].key \in Nat
  <2>1. len \in Nat /\ DOMAIN inventory = 1..len
    BY LenProperties DEF Types
  <2>2. \A i \in 1..len : inventory[i] \in Entry
    BY ElementOfSeq DEF Types
  <2>3. \A i \in 1..len : inventory[i].key \in Nat
    BY <2>2, ParametersAssumption DEF Entry, Keys
  <2>4. cp.listed = len
    BY DEF OrderInv, InventoryObject
  <2> QED
    BY <2>1, <2>3, <2>4
<1>2. row.key \in Nat /\ row.key >= 1
  BY ParametersAssumption DEF Types, Listed, Keys
<1>3. /\ Len(inventory') = len + 1
      /\ DOMAIN inventory' = 1..(len + 1)
      /\ \A i \in 1..len : inventory'[i] = inventory[i]
      /\ inventory'[len + 1].key = row.key
  <2>1. PICK meta \in DigestNow(row.key) :
          inventory' = Append(inventory, [key |-> row.key, body |-> row.body, meta |-> meta])
    BY DEF InventoryObject
  <2>2. [key |-> row.key, body |-> row.body, meta |-> meta] \in Entry
    BY <2>1 DEF Types, DigestNow, Listed, Objects, Metadata, Entry
  <2> QED
    BY <2>1, <2>2, AppendProperties, LenProperties DEF Types
<1>4. /\ pc = "list" /\ pc' = "list"
      /\ cp'.listed = len + 1
      /\ cp'.complete = cp.complete /\ cp'.prefix = cp.prefix
      /\ page'.rows = page.rows \ {row}
      /\ LaterThanPage' = LaterThanPage
      /\ UNCHANGED checkpoint
  BY <1>1 DEF InventoryObject, LaterThanPage, Types, Progress
<1>5. \A i \in 1..len : inventory[i].key < row.key
  BY <1>1, <1>4 DEF OrderInv, Before
<1> HIDE DEF len
<1>6. InventoryOrdered'
  BY <1>1, <1>3, <1>5 DEF OrderInv, InventoryOrdered
<1>7. Spaced'
  <2>1. row.key >= len + 1
    <3>1. CASE len = 0
      BY <1>2, <3>1
    <3>2. CASE len # 0
      <4>1. len \in 1..len /\ inventory[len].key >= len
        BY <1>1, <3>2 DEF OrderInv, Spaced
      <4> QED
        BY <1>1, <1>2, <1>5, <4>1
    <3> QED
      BY <3>1, <3>2
  <2> QED
    BY <1>1, <1>3, <2>1 DEF OrderInv, Spaced
<1>8. checkpoint # NoFile => ~checkpoint.complete /\ checkpoint.listed \in Nat /\ checkpoint.listed <= len
  BY <1>1, <1>4 DEF OrderInv, Types, Progress
<1>9. checkpoint # NoFile => Covers(checkpoint)'
  BY <1>1, <1>3, <1>4, <1>8 DEF OrderInv, Covers, Before
<1>10. \A other \in page'.rows : other \in page.rows /\ row.key < other.key
  BY <1>2, <1>4, ParametersAssumption
     DEF OrderInv, InventoryObject, NextRow, Types, Listed, Keys
<1>11. \A other \in page'.rows : \A i \in 1..(len + 1) : inventory'[i].key < other.key
  BY <1>1, <1>3, <1>4, <1>10 DEF OrderInv, Before
<1>12. \A k \in LaterThanPage, i \in 1..(len + 1) : inventory'[i].key < k
  BY <1>1, <1>3, <1>4 DEF OrderInv, Before
<1>13. \A a, b \in page'.rows : a.key = b.key => a = b
  BY <1>4, <1>10 DEF OrderInv
<1>14. \A a \in page'.rows, k \in LaterThanPage' : a.key < k
  BY <1>4, <1>10 DEF OrderInv
<1>15. ~cp'.complete /\ cp'.prefix \in DOMAIN Prefixes
  BY <1>4 DEF OrderInv
<1>16. /\ \A a \in page'.rows : Before(cp.listed, {a.key})'
       /\ Before(cp.listed, LaterThanPage)'
  BY <1>4, <1>11, <1>12 DEF Before
<1> QED
  BY <1>1, <1>3, <1>4, <1>6, <1>7, <1>8, <1>9, <1>13, <1>14, <1>15, <1>16 DEF OrderInv

LEMMA OrderEndPage ==
  ASSUME Types, Types', OrderInv, EndPage
  PROVE  OrderInv'
<1>1. /\ pc = "list" /\ UNCHANGED inventory /\ checkpoint' = cp'
      /\ cp.listed = Len(inventory)
      /\ cp.prefix \in DOMAIN Prefixes /\ cp.prefix \in 1..Len(Prefixes)
      /\ Len(Prefixes) \in Nat /\ DOMAIN Prefixes = 1..Len(Prefixes)
      /\ Len(inventory) \in Nat
  BY ParametersAssumption, LenProperties DEF EndPage, OrderInv, Types
<1>2. /\ cp'.listed = cp.listed
      /\ cp'.token = page.next
      /\ cp'.prefix = IF page.next = 0 THEN cp.prefix + 1 ELSE cp.prefix
      /\ cp'.complete <=> page.next = 0 /\ cp.prefix = Len(Prefixes)
      /\ pc' = IF cp'.complete THEN "pack" ELSE "inventory"
  BY DEF EndPage, Types, Progress, Goto
<1>3. Before(cp.listed, LaterThanPage)
  BY <1>1 DEF OrderInv
<1>4. Later(cp'.prefix, cp'.token) = LaterThanPage
  BY <1>2 DEF LaterThanPage
<1>5. ~cp'.complete => cp'.prefix \in DOMAIN Prefixes
  BY <1>1, <1>2
<1>6. Before(cp.listed, Later(cp.prefix, cp.token))'
  <2>1. Before(cp.listed, Later(cp'.prefix, cp'.token))
    BY <1>3, <1>4
  <2>2. \A i \in 1..cp'.listed, k \in Later(cp'.prefix, cp'.token) : inventory'[i].key < k
    BY <1>1, <1>2, <2>1 DEF Before
  <2>3. Later(cp.prefix, cp.token)' = Later(cp'.prefix, cp'.token)
    BY DEF Later
  <2> QED
    BY <2>2, <2>3 DEF Before
<1>7. InventoryOrdered' /\ Spaced'
  BY <1>1 DEF OrderInv, InventoryOrdered, Spaced
<1>8. Covers(checkpoint)' /\ Before(cp.listed, Later(cp.prefix, cp.token))'
  BY <1>1, <1>2, <1>5, <1>6 DEF Covers, Before, Later
<1>a. cp' # NoFile
  BY MarkersAssumption DEF Types
<1>9. CASE cp'.complete
  BY <1>1, <1>2, <1>7, <1>8, <1>a, <1>9 DEF OrderInv
<1>10. CASE ~cp'.complete
  BY <1>1, <1>2, <1>5, <1>7, <1>8, <1>a, <1>10 DEF OrderInv
<1> QED
  BY <1>9, <1>10

(* Each step preserves the order of the inventory. *)
LEMMA OrderStep ==
  ASSUME Types, Types', OrderInv, [Next]_vars
  PROVE  OrderInv'
<1> USE DEF Goto, source, disk, process
<1>1. ASSUME NEW k \in Keys, WriteObject(k) PROVE OrderInv'
  BY <1>1, OrderFrame DEF WriteObject
<1>2. CASE StartFresh
  <2>1. /\ inventory' = <<>> /\ checkpoint' = NoFile /\ cp' = Fresh /\ pc' = "inventory"
        /\ 1 \in DOMAIN Prefixes
    BY <1>2, ParametersAssumption, EmptySeq, LenProperties DEF StartFresh
  <2> QED
    BY <2>1 DEF OrderInv, InventoryOrdered, Spaced, Before, Fresh
<1>3. CASE Resume
  BY <1>3, OrderResume
<1>4. CASE ListPage
  BY <1>4, OrderListPage
<1>5. ASSUME NEW row \in page.rows, InventoryObject(row) PROVE OrderInv'
  BY <1>5, OrderInventoryObject
<1>6. ASSUME NEW row \in page.rows, SkipOversized(row) PROVE OrderInv'
  BY <1>6 DEF SkipOversized, OrderInv, InventoryOrdered, Spaced, Covers, Before, LaterThanPage
<1>7. ASSUME NEW row \in page.rows, StopAtLimit(row) PROVE OrderInv'
  <2>1. /\ UNCHANGED inventory /\ cp'.listed = Len(inventory) /\ cp'.complete
        /\ checkpoint' = cp' /\ pc' = "pack"
    BY <1>7 DEF StopAtLimit, OrderInv, Types, Progress
  <2>2. Len(inventory) \in Nat /\ cp' # NoFile
    BY <1>7, LenProperties, MarkersAssumption DEF StopAtLimit, Types, Progress
  <2> QED
    BY <2>1, <2>2 DEF OrderInv, InventoryOrdered, Spaced, Covers
<1>8. CASE EndPage
  BY <1>8, OrderEndPage
<1>9. CASE ReusePack
  BY <1>9, OrderFrame DEF ReusePack, MorePacks
<1>10. CASE MaterializeData
  BY <1>10, OrderFrame DEF MaterializeData
<1>11. CASE MaterializeIndex
  BY <1>11, OrderFrame DEF MaterializeIndex
<1>12. CASE BeginPack
  BY <1>12, OrderFrame DEF BeginPack, MorePacks
<1>13. CASE FetchObject
  BY <1>13, OrderFrame DEF FetchObject
<1>14. CASE ObjectChanged
  BY <1>14, OrderExit DEF ObjectChanged
<1>15. CASE WriteData
  BY <1>15, OrderFrame DEF WriteData
<1>16. CASE WriteIndex
  BY <1>16, OrderFrame DEF WriteIndex
<1>17. CASE SavePack
  <2>1. /\ UNCHANGED inventory /\ cp'.listed = cp.listed /\ cp'.complete = cp.complete
        /\ checkpoint' = cp' /\ pc = "save" /\ pc' = "pack"
    BY <1>17 DEF SavePack, Types, Progress
  <2>2. Len(inventory) \in Nat /\ checkpoint' # NoFile
    BY <2>1, LenProperties, MarkersAssumption DEF Types
  <2>3. cp.listed = Len(inventory) /\ cp.complete
    BY <2>1 DEF OrderInv
  <2> QED
    BY <2>1, <2>2, <2>3 DEF OrderInv, InventoryOrdered, Spaced, Covers
<1>18. CASE Finish
  BY <1>18, OrderFrame DEF Finish
<1>19. CASE PullSucceeds
  <2>1. inventory' = <<>> /\ checkpoint' = NoFile /\ pc' = "idle"
    BY <1>19 DEF PullSucceeds, Exit
  <2> QED
    BY <2>1 DEF OrderInv, InventoryOrdered, Spaced
<1>20. CASE Stop
  BY <1>20, OrderExit DEF Stop
<1>21. CASE UNCHANGED vars
  BY <1>21, OrderFrame DEF vars
<1> QED
  BY <1>1, <1>2, <1>3, <1>4, <1>5, <1>6, <1>7, <1>8, <1>9, <1>10, <1>11, <1>12, <1>13,
     <1>14, <1>15, <1>16, <1>17, <1>18, <1>19, <1>20, <1>21 DEF Next, Attempt, Run

-----------------------------------------------------------------------------
LEMMA PackInit == Init => PackInv
BY DEF Init, PackInv

LEMMA InventoryShort ==
  ASSUME Types, OrderInv
  PROVE  Len(inventory) \in Nat /\ Len(inventory) <= Last
<1>1. Len(inventory) \in Nat /\ DOMAIN inventory = 1..Len(inventory)
  BY LenProperties DEF Types
<1>2. CASE Len(inventory) = 0
  BY <1>2, ParametersAssumption
<1>3. CASE Len(inventory) # 0
  <2>1. Len(inventory) \in 1..Len(inventory)
    BY <1>1, <1>3
  <2>2. inventory[Len(inventory)].key \in Keys
    <3>1. inventory[Len(inventory)] \in Entry
      BY <2>1, ElementOfSeq DEF Types
    <3> QED
      BY <3>1 DEF Entry
  <2>3. inventory[Len(inventory)].key >= Len(inventory)
    BY <1>1, <2>1 DEF OrderInv, Spaced
  <2> QED
    BY <1>1, <2>2, <2>3, ParametersAssumption DEF Keys
<1> QED
  BY <1>1, <1>2, <1>3

(* While a pack is made, its number is that of no pack of the checkpoint,  *)
(* and there are files for it.                                             *)
LEMMA NumberIsNew ==
  ASSUME Types, OrderInv, PackInv, MorePacks \/ pc \in {"reuse", "fetch", "index", "save"}
  PROVE  /\ Number \in Keys
         /\ checkpoint # NoFile /\ cp.packs = checkpoint.packs
         /\ DOMAIN cp.packs = 1..(Number - 1)
         /\ cp.packed \in Nat /\ cp.packed < Len(inventory)
<1>1. /\ Len(cp.packs) \in Nat /\ DOMAIN cp.packs = 1..Len(cp.packs)
      /\ Len(inventory) \in Nat /\ DOMAIN inventory = 1..Len(inventory)
      /\ cp.packed \in Nat
  BY LenProperties DEF Types, Progress
<1>2. /\ checkpoint # NoFile /\ cp.packs = checkpoint.packs
      /\ Len(cp.packs) <= cp.packed /\ cp.packed < Len(inventory)
  BY DEF OrderInv, PackInv, Filled, MorePacks
<1>3. Len(inventory) <= Last
  BY InventoryShort
<1> QED
  BY <1>1, <1>2, <1>3, ParametersAssumption DEF Number, Keys

(* The files of the pack that is being made may change.                    *)
LEMMA IntactFrame ==
  ASSUME Types, PackInv, OrderInv, MorePacks \/ pc \in {"reuse", "fetch", "index", "save"},
         UNCHANGED checkpoint, \A n \in Keys \ {Number} : file'[n] = file[n]
  PROVE  Intact(checkpoint)'
<1>1. DOMAIN checkpoint.packs \subseteq Keys \ {Number}
  BY NumberIsNew, ParametersAssumption DEF Keys
<1> QED
  BY <1>1, NumberIsNew DEF PackInv, Intact

(* A step that leaves the checkpoint and its packs alone.                  *)
LEMMA PackFrame ==
  ASSUME PackInv, UNCHANGED <<checkpoint, file, cp, pack>>, pc # "idle",
         pc' \in {"pack", "reuse", "fetch", "index", "save"} => pc' = pc
  PROVE  PackInv'
BY DEF PackInv, Filled, Intact, Number

LEMMA PackExit ==
  ASSUME PackInv, Exit, UNCHANGED <<checkpoint, file>>
  PROVE  PackInv'
BY DEF PackInv, Filled, Intact, Exit, Goto

LEMMA PackSaved ==
  ASSUME Types, Types', OrderInv, PackInv, SavePack
  PROVE  PackInv'
<1>1. /\ Number \in Keys /\ DOMAIN cp.packs = 1..(Number - 1)
      /\ cp.packed \in Nat /\ cp.packed < Len(inventory)
      /\ checkpoint # NoFile /\ cp.packs = checkpoint.packs
  BY NumberIsNew DEF SavePack
<1>2. /\ PackEnd(cp.packed) \in Nat /\ PackEnd(cp.packed) > cp.packed
      /\ PackEnd(cp.packed) <= cp.listed
  BY <1>1, PackEnds DEF SavePack, OrderInv
<1>3. /\ cp'.packs = Append(cp.packs, pack)
      /\ cp'.packed = PackEnd(cp.packed)
      /\ cp'.listed = cp.listed /\ cp'.complete = cp.complete /\ cp.complete
      /\ checkpoint' = cp' /\ pc' = "pack" /\ UNCHANGED file
  BY DEF SavePack, Types, Progress, OrderInv, Goto
<1>4. /\ Len(cp'.packs) = Len(cp.packs) + 1
      /\ \A n \in 1..Len(cp.packs) : cp'.packs[n] = cp.packs[n]
      /\ cp'.packs[Number] = pack
      /\ DOMAIN cp'.packs = 1..Number
      /\ Len(cp.packs) \in Nat
  BY <1>3, AppendProperties, LenProperties DEF Types, Progress, Number
<1>5. Filled(cp)'
  BY <1>1, <1>2, <1>3, <1>4 DEF PackInv, Filled, SavePack
<1>6. \A n \in 1..Number : file[n] = cp'.packs[n]
  BY <1>1, <1>4 DEF PackInv, Intact, SavePack, Number
<1>7. Intact(checkpoint)'
  BY <1>3, <1>4, <1>6 DEF Intact
<1>8. Filled(checkpoint)'
  BY <1>3, <1>5 DEF Filled
<1>9. checkpoint' # NoFile
  BY <1>3, MarkersAssumption DEF Types
<1> QED
  BY <1>3, <1>5, <1>7, <1>8, <1>9 DEF PackInv

(* Each step preserves the agreement of the checkpoint with the packs.     *)
LEMMA PackStep ==
  ASSUME Types, Types', OrderInv, PackInv, [Next]_vars
  PROVE  PackInv'
<1> USE DEF Goto, source, disk, process
<1>1. ASSUME NEW k \in Keys, WriteObject(k) PROVE PackInv'
  BY <1>1 DEF WriteObject, PackInv, Filled, Intact, Number
<1>2. CASE StartFresh
  <2>1. checkpoint' = NoFile /\ cp' = Fresh /\ pc' = "inventory"
    BY <1>2 DEF StartFresh
  <2> QED
    BY <2>1, EmptySeq DEF PackInv, Filled, Fresh
<1>3. CASE Resume
  BY <1>3 DEF Resume, PackInv, Filled, Intact
<1>4. CASE ListPage
  BY <1>4, PackFrame DEF ListPage
<1>5. ASSUME NEW row \in page.rows, InventoryObject(row) PROVE PackInv'
  <2>1. /\ pc = "list" /\ pc' = "list" /\ UNCHANGED <<checkpoint, file>>
        /\ cp'.packs = cp.packs /\ cp'.packed = cp.packed /\ cp'.complete = cp.complete
        /\ cp'.packed \in Nat /\ cp'.listed \in Nat /\ ~cp.complete
    BY <1>5 DEF InventoryObject, Types, Progress, OrderInv
  <2> QED
    BY <2>1 DEF PackInv, Filled, Intact
<1>6. ASSUME NEW row \in page.rows, SkipOversized(row) PROVE PackInv'
  BY <1>6, PackFrame DEF SkipOversized
<1>7. ASSUME NEW row \in page.rows, StopAtLimit(row) PROVE PackInv'
  <2>1. /\ pc = "list" /\ pc' = "pack" /\ checkpoint' = cp' /\ UNCHANGED file
        /\ cp'.packs = cp.packs /\ cp'.packed = cp.packed /\ cp'.listed = cp.listed
        /\ cp'.complete
    BY <1>7 DEF StopAtLimit, Types, Progress
  <2>2. checkpoint' # NoFile
    BY <2>1, MarkersAssumption DEF Types
  <2> QED
    BY <2>1, <2>2, EmptySeq DEF PackInv, Filled, Intact
<1>8. CASE EndPage
  <2>1. /\ pc = "list" /\ checkpoint' = cp' /\ UNCHANGED file
        /\ cp'.packs = cp.packs /\ cp'.packed = cp.packed /\ cp'.listed = cp.listed
        /\ pc' \in {"pack", "inventory"}
        /\ ~cp.complete
    BY <1>8 DEF EndPage, Types, Progress, OrderInv
  <2>2. checkpoint' # NoFile
    BY <2>1, MarkersAssumption DEF Types
  <2> QED
    BY <2>1, <2>2, EmptySeq DEF PackInv, Filled, Intact
<1>9. CASE ReusePack
  BY <1>9 DEF ReusePack, MorePacks, PackInv, Filled, Intact
<1>10. CASE MaterializeData
  <2>1. Number' = Number /\ pc = "reuse" /\ pc' = "reuse" /\ UNCHANGED <<checkpoint, cp>>
    BY <1>10 DEF MaterializeData, Number
  <2>2. Intact(checkpoint)'
    BY <1>10, IntactFrame DEF MaterializeData, Types
  <2> QED
    BY <2>1, <2>2 DEF PackInv, Filled
<1>11. CASE MaterializeIndex
  <2>1. Number' = Number /\ pc' = "save" /\ UNCHANGED <<checkpoint, cp, pack>>
    BY <1>11 DEF MaterializeIndex, Number
  <2>2. Intact(checkpoint)'
    BY <1>11, IntactFrame DEF MaterializeIndex, Types
  <2>3. file'[Number] = pack
    BY <1>11, NumberIsNew DEF MaterializeIndex, Types, Pack
  <2> QED
    BY <1>11, <2>1, <2>2, <2>3 DEF MaterializeIndex, PackInv, Filled
<1>12. CASE BeginPack
  <2>1. /\ pc' = "fetch" /\ UNCHANGED <<checkpoint, cp>>
        /\ MorePacks \/ pc = "reuse"
    BY <1>12 DEF BeginPack
  <2>2. Intact(checkpoint)'
    BY <1>12, <2>1, IntactFrame DEF BeginPack, Types
  <2> QED
    BY <2>1, <2>2 DEF PackInv, Filled, MorePacks
<1>13. CASE FetchObject
  BY <1>13 DEF FetchObject, Fetching, PackInv, Filled, Intact
<1>14. CASE ObjectChanged
  BY <1>14, PackExit DEF ObjectChanged
<1>15. CASE WriteData
  <2>1. Number' = Number /\ pc' = "index" /\ UNCHANGED <<checkpoint, cp, pack>>
    BY <1>15 DEF WriteData, Number
  <2>2. Intact(checkpoint)'
    BY <1>15, IntactFrame DEF WriteData, Types
  <2>3. file'[Number].data = pack.data
    BY <1>15, NumberIsNew DEF WriteData, Types
  <2> QED
    BY <1>15, <2>1, <2>2, <2>3 DEF WriteData, PackInv, Filled
<1>16. CASE WriteIndex
  <2>1. Number' = Number /\ pc' = "save" /\ UNCHANGED <<checkpoint, cp, pack>>
    BY <1>16 DEF WriteIndex, Number
  <2>2. Intact(checkpoint)'
    BY <1>16, IntactFrame DEF WriteIndex, Types
  <2>3. file'[Number] = pack
    BY <1>16, NumberIsNew DEF WriteIndex, Types, Pack, PackInv
  <2> QED
    BY <1>16, <2>1, <2>2, <2>3 DEF WriteIndex, PackInv, Filled
<1>17. CASE SavePack
  BY <1>17, PackSaved
<1>18. CASE Finish
  BY <1>18, PackFrame DEF Finish
<1>19. CASE PullSucceeds
  BY <1>19 DEF PullSucceeds, Exit, PackInv
<1>20. CASE Stop
  BY <1>20, PackExit DEF Stop
<1>21. CASE UNCHANGED vars
  BY <1>21 DEF vars, PackInv, Filled, Intact, Number
<1> QED
  BY <1>1, <1>2, <1>3, <1>4, <1>5, <1>6, <1>7, <1>8, <1>9, <1>10, <1>11, <1>12, <1>13,
     <1>14, <1>15, <1>16, <1>17, <1>18, <1>19, <1>20, <1>21 DEF Next, Attempt, Run

-----------------------------------------------------------------------------
LEMMA Inductive == Spec => []IInv
<1>1. Init => IInv
  BY TypesInit, OrderInit, PackInit DEF IInv
<1>2. IInv /\ [Next]_vars => IInv'
  BY TypesStep, OrderStep, PackStep DEF IInv
<1> QED
  BY <1>1, <1>2, PTL DEF Spec

(* No interruption makes the inventory list a key again or out of order.   *)
THEOREM InventoryIsOrdered == Spec => []InventoryOrdered
<1>1. IInv => InventoryOrdered
  BY DEF IInv, OrderInv
<1> QED
  BY <1>1, Inductive, PTL

(* The packs that a checkpoint names are on disk: a capture never refuses  *)
(* its own checkpoint.                                                     *)
THEOREM CheckpointIsSound == Spec => []CheckpointSound
<1>1. IInv => CheckpointSound
  BY DEF IInv, PackInv, CheckpointSound
<1> QED
  BY <1>1, Inductive, PTL


-----------------------------------------------------------------------------
(***************************************************************************)
(* The limits of a bounded capture.  The checkpoint's count of bytes is    *)
(* that of the lines it covers, so an attempt that resumes goes on with    *)
(* the limits where the one before it stopped.                             *)
(***************************************************************************)
(* The least element of a set of numbers. *)
LEMMA LeastNumber ==
  ASSUME NEW S, S \subseteq Nat, S # {}
  PROVE  \E n \in S : \A m \in S : n <= m
<1>1. \E n \in S : \A m \in S : <<m, n>> \notin OpToRel(<, Nat)
  BY NatLessThanWellFounded, WFMin
<1>2. PICK n \in S : \A m \in S : <<m, n>> \notin {ss \in Nat \X Nat : ss[1] < ss[2]}
  BY <1>1 DEF OpToRel
<1>3. \A m \in S : ~(m < n)
  BY <1>2
<1> QED
  BY <1>3

(* The bytes of the first n lines of s. *)
Lines(s, n) == UNION {{m} \X (1..Size[s[m].body]) : m \in 1..n}
Bytes(s, n) == Cardinality(Lines(s, n))

LEMMA LinesMore ==
  ASSUME NEW s \in Seq(Entry), NEW n \in Nat, n < Len(s)
  PROVE  /\ Lines(s, n + 1) = Lines(s, n) \cup ({n + 1} \X (1..Size[s[n + 1].body]))
         /\ Lines(s, n) \cap ({n + 1} \X (1..Size[s[n + 1].body])) = {}
         /\ Size[s[n + 1].body] \in Nat
<1>1. s[n + 1].body \in Bodies
  <2>1. n + 1 \in 1..Len(s)
    BY LenProperties
  <2>2. s[n + 1] \in Entry
    BY <2>1, ElementOfSeq
  <2> QED
    BY <2>2 DEF Entry
<1>2. Size[s[n + 1].body] \in Nat
  BY <1>1, ParametersAssumption
<1> DEFINE L(m) == {m} \X (1..Size[s[m].body])
<1>3. \A m : \A x \in L(m) : x[1] = m
  OBVIOUS
<1>4. \A m : m \in 1..(n + 1) <=> m \in 1..n \/ m = n + 1
  OBVIOUS
<1>5. Lines(s, n + 1) = UNION {L(m) : m \in 1..(n + 1)} /\ Lines(s, n) = UNION {L(m) : m \in 1..n}
  BY DEF Lines
<1> HIDE DEF L
<1>6. Lines(s, n + 1) = Lines(s, n) \cup L(n + 1)
  BY <1>4, <1>5
<1>7. Lines(s, n) \cap L(n + 1) = {}
  BY <1>3, <1>5
<1> QED
  BY <1>2, <1>6, <1>7 DEF L

LEMMA LinesFinite ==
  ASSUME NEW s \in Seq(Entry), NEW n \in 0..Len(s)
  PROVE  IsFiniteSet(Lines(s, n))
<1> DEFINE Bad == {m \in 0..Len(s) : ~IsFiniteSet(Lines(s, m))}
<1>1. Len(s) \in Nat
  BY LenProperties
<1>2. CASE Bad # {}
  <2>1. PICK m \in Bad : \A k \in Bad : m <= k
    <3>1. Bad \subseteq Nat
      BY <1>1
    <3> HIDE DEF Bad
    <3> QED
      BY <1>2, <3>1, LeastNumber
  <2>2. m # 0
    <3>1. Lines(s, 0) = {}
      BY DEF Lines
    <3> QED
      BY <3>1, FS_EmptySet
  <2>3. m - 1 \in Nat /\ m - 1 < Len(s) /\ m - 1 \notin Bad
    BY <1>1, <2>1, <2>2
  <2>4. IsFiniteSet(Lines(s, m - 1)) /\ m - 1 + 1 = m
    BY <1>1, <2>1, <2>3
  <2>5. IsFiniteSet({m} \X (1..Size[s[m].body]))
    <3>1. Size[s[m].body] \in Nat
      BY <2>3, <2>4, LinesMore
    <3>2. IsFiniteSet(1..Size[s[m].body]) /\ IsFiniteSet({m})
      <4> DEFINE size == Size[s[m].body]
      <4>1. size \in Int /\ 1 \in Int
        BY <3>1
      <4> HIDE DEF size
      <4>2. IsFiniteSet(1..size)
        BY <4>1, FS_Interval
      <4> QED
        BY <4>2, FS_Singleton DEF size
    <3> QED
      BY <3>2, FS_Product
  <2>6. Lines(s, m) = Lines(s, m - 1) \cup ({m} \X (1..Size[s[m].body]))
    BY <2>3, <2>4, LinesMore
  <2>7. IsFiniteSet(Lines(s, m))
    <3> DEFINE A == Lines(s, m - 1)
               B == {m} \X (1..Size[s[m].body])
    <3>1. IsFiniteSet(A) /\ IsFiniteSet(B) /\ Lines(s, m) = A \cup B
      BY <2>4, <2>5, <2>6
    <3> HIDE DEF A, B
    <3> QED
      BY <3>1, FS_Union
  <2> QED
    BY <2>1, <2>7
<1> QED
  BY <1>2

LEMMA BytesMore ==
  ASSUME NEW s \in Seq(Entry), NEW n \in Nat, n < Len(s)
  PROVE  Bytes(s, n + 1) = Bytes(s, n) + Size[s[n + 1].body] /\ Bytes(s, n) \in Nat
<1> DEFINE size == Size[s[n + 1].body]
           A == Lines(s, n)
           B == {n + 1} \X (1..size)
<1>1. size \in Nat /\ Lines(s, n + 1) = A \cup B /\ A \cap B = {}
  BY LinesMore
<1>2. IsFiniteSet(A)
  BY LinesFinite, LenProperties
<1>3. IsFiniteSet(B) /\ Cardinality(B) = size
  <2>1. IsFiniteSet({n + 1}) /\ Cardinality({n + 1}) = 1
    BY FS_Singleton
  <2> HIDE DEF size
  <2>2. IsFiniteSet(1..size) /\ Cardinality(1..size) = size
    <3>1. 1 \in Int /\ size \in Int /\ (IF 1 > size THEN 0 ELSE size - 1 + 1) = size
      BY <1>1
    <3> QED
      BY <3>1, FS_Interval
  <2>3. IsFiniteSet(B) /\ Cardinality(B) = 1 * size
    BY <2>1, <2>2, FS_Product
  <2> QED
    BY <1>1, <2>3
<1> HIDE DEF size, A, B
<1>4. Cardinality(A \cup B) = Cardinality(A) + Cardinality(B) - Cardinality({})
  BY <1>1, <1>2, <1>3, FS_Union
<1>5. Cardinality(A) \in Nat /\ Cardinality({}) = 0
  BY <1>2, FS_CardinalityType, FS_EmptySet
<1>6. Cardinality(A \cup B) = Cardinality(A) + size
  BY <1>1, <1>3, <1>4, <1>5
<1> QED
  BY <1>1, <1>5, <1>6 DEF Bytes, A, size

(* Equal lines have equal bytes. *)
LEMMA BytesSame ==
  ASSUME NEW s, NEW t, NEW n, \A i \in 1..n : s[i] = t[i]
  PROVE  Bytes(s, n) = Bytes(t, n)
<1>1. {{m} \X (1..Size[s[m].body]) : m \in 1..n} = {{m} \X (1..Size[t[m].body]) : m \in 1..n}
  OBVIOUS
<1> QED
  BY <1>1 DEF Bytes, Lines

LEMMA BytesNone == \A s : Bytes(s, 0) = 0
<1>1. \A s : Lines(s, 0) = {}
  BY DEF Lines
<1> QED
  BY <1>1, FS_EmptySet DEF Bytes

LEMMA BytesOfAll == \A n : BytesOf(0, n) = Bytes(inventory, n)
BY DEF BytesOf, BytesIn, Bytes, Lines


LimitInv ==
  /\ pc # "idle" => cp.bytes = Bytes(inventory, cp.listed)
  /\ checkpoint # NoFile =>
       /\ checkpoint.bytes = Bytes(inventory, checkpoint.listed)
       /\ ~Full => checkpoint.bytes <= MaxTotalBytes
  /\ ~Full =>
       /\ Len(inventory) <= MaxObjects
       /\ Bytes(inventory, Len(inventory)) <= MaxTotalBytes
       /\ \A n \in DOMAIN inventory : Size[inventory[n].body] <= MaxObjectBytes

LEMMA LimitEmpty ==
  /\ ~Full => Len(<<>>) <= MaxObjects /\ Bytes(<<>>, Len(<<>>)) <= MaxTotalBytes
  /\ DOMAIN <<>> = {}
BY BytesNone, EmptySeq, ParametersAssumption

LEMMA LimitResume ==
  ASSUME Types, OrderInv, LimitInv, Resume
  PROVE  LimitInv'
<1>1. /\ Len(inventory') = checkpoint.listed /\ checkpoint.listed \in Nat
      /\ \A i \in 1..checkpoint.listed : inventory'[i] = inventory[i]
      /\ inventory' \in Seq(Entry)
  BY ResumeLines
<1>2. /\ checkpoint # NoFile /\ UNCHANGED checkpoint /\ cp' = checkpoint
      /\ checkpoint.listed <= Len(inventory) /\ Len(inventory) \in Nat
      /\ DOMAIN inventory = 1..Len(inventory) /\ DOMAIN inventory' = 1..Len(inventory')
  BY <1>1, LenProperties DEF Resume, Types, OrderInv, Covers
<1>3. Bytes(inventory', checkpoint.listed) = Bytes(inventory, checkpoint.listed)
  BY <1>1, BytesSame
<1>4. /\ checkpoint.bytes = Bytes(inventory, checkpoint.listed)
      /\ ~Full => checkpoint.bytes <= MaxTotalBytes
  BY <1>2 DEF LimitInv
<1>5. ~Full => /\ Len(inventory') <= MaxObjects
               /\ \A n \in DOMAIN inventory' : Size[inventory'[n].body] <= MaxObjectBytes
  <2> SUFFICES ASSUME ~Full
               PROVE  /\ Len(inventory') <= MaxObjects
                      /\ \A n \in DOMAIN inventory' : Size[inventory'[n].body] <= MaxObjectBytes
    OBVIOUS
  <2>1. Len(inventory) <= MaxObjects /\ MaxObjects \in Nat
    BY ParametersAssumption DEF LimitInv
  <2>2. \A n \in 1..Len(inventory') : inventory'[n] = inventory[n] /\ n \in DOMAIN inventory
    BY <1>1, <1>2
  <2> QED
    BY <1>1, <1>2, <2>1, <2>2 DEF LimitInv
<1> QED
  BY <1>1, <1>2, <1>3, <1>4, <1>5 DEF LimitInv

LEMMA LimitObject ==
  ASSUME Types, OrderInv, LimitInv, NEW row \in page.rows, InventoryObject(row)
  PROVE  LimitInv'
<1> DEFINE n == Len(inventory)
<1>1. PICK meta \in DigestNow(row.key) :
        inventory' = Append(inventory, [key |-> row.key, body |-> row.body, meta |-> meta])
  BY DEF InventoryObject
<1>2. /\ [key |-> row.key, body |-> row.body, meta |-> meta] \in Entry
      /\ Size[row.body] \in Nat
  BY <1>1, ParametersAssumption DEF Types, DigestNow, Listed, Objects, Metadata, Entry
<1>3. /\ inventory' \in Seq(Entry) /\ Len(inventory') = n + 1 /\ n \in Nat
      /\ \A i \in 1..n : inventory'[i] = inventory[i]
      /\ inventory'[n + 1].body = row.body
      /\ DOMAIN inventory' = 1..(n + 1) /\ DOMAIN inventory = 1..n
  BY <1>1, <1>2, AppendProperties, LenProperties DEF Types
<1>4. /\ pc = "list" /\ pc' = "list" /\ UNCHANGED checkpoint
      /\ cp.listed = n /\ cp.bytes \in Nat
      /\ cp'.listed = cp.listed + 1 /\ cp'.bytes = cp.bytes + Size[row.body]
  BY DEF InventoryObject, OrderInv, Types, Progress
<1> HIDE DEF n
<1>5. Bytes(inventory', n) = Bytes(inventory, n)
  BY <1>3, BytesSame
<1>6. Bytes(inventory', n + 1) = Bytes(inventory', n) + Size[row.body] /\ Bytes(inventory', n) \in Nat
  BY <1>3, BytesMore
<1>7. cp.bytes = Bytes(inventory, n)
  BY <1>4 DEF LimitInv
<1>8. cp'.bytes = Bytes(inventory', n + 1)
  BY <1>4, <1>5, <1>6, <1>7
<1>9. checkpoint # NoFile => Bytes(inventory', checkpoint.listed) = Bytes(inventory, checkpoint.listed)
  <2> SUFFICES ASSUME checkpoint # NoFile
               PROVE  Bytes(inventory', checkpoint.listed) = Bytes(inventory, checkpoint.listed)
    OBVIOUS
  <2>1. checkpoint.listed \in Nat /\ checkpoint.listed <= n
    BY <1>4 DEF OrderInv, Types, Progress
  <2>2. \A i \in 1..checkpoint.listed : inventory'[i] = inventory[i]
    BY <1>3, <2>1
  <2> QED
    BY <2>2, BytesSame
<1>10. ~Full => /\ n + 1 <= MaxObjects
                /\ Bytes(inventory', n + 1) <= MaxTotalBytes
                /\ \A i \in 1..(n + 1) : Size[inventory'[i].body] <= MaxObjectBytes
  <2> SUFFICES ASSUME ~Full
               PROVE  /\ n + 1 <= MaxObjects
                      /\ Bytes(inventory', n + 1) <= MaxTotalBytes
                      /\ \A i \in 1..(n + 1) : Size[inventory'[i].body] <= MaxObjectBytes
    OBVIOUS
  <2>1. /\ ~(n >= MaxObjects) /\ ~(Size[row.body] > MaxObjectBytes)
        /\ ~(cp.bytes + Size[row.body] > MaxTotalBytes)
    BY <1>4 DEF InventoryObject, ObjectsReached, Oversized, TotalReached
  <2>2. MaxObjects \in Nat /\ MaxObjectBytes \in Nat /\ MaxTotalBytes \in Nat
    BY ParametersAssumption
  <2>3. n + 1 <= MaxObjects /\ Bytes(inventory', n + 1) <= MaxTotalBytes
    BY <1>2, <1>3, <1>4, <1>8, <2>1, <2>2
  <2>4. ASSUME NEW i \in 1..(n + 1) PROVE Size[inventory'[i].body] <= MaxObjectBytes
    <3>1. CASE i = n + 1
      BY <1>2, <1>3, <2>1, <2>2, <3>1
    <3>2. CASE i \in 1..n
      BY <1>3, <3>2 DEF LimitInv
    <3> QED
      BY <1>3, <3>1, <3>2
  <2> QED
    BY <2>3, <2>4
<1> QED
  BY <1>3, <1>4, <1>8, <1>9, <1>10 DEF LimitInv

(* A step that saves the progress, or none. *)
LEMMA LimitSaved ==
  ASSUME OrderInv, LimitInv, pc # "idle", UNCHANGED inventory,
         cp'.listed = cp.listed, cp'.bytes = cp.bytes, checkpoint' \in {checkpoint, cp'}
  PROVE  LimitInv'
<1>1. cp.bytes = Bytes(inventory, cp.listed) /\ cp.listed = Len(inventory)
  BY DEF LimitInv, OrderInv
<1>2. ~Full => cp.bytes <= MaxTotalBytes
  BY <1>1 DEF LimitInv
<1> QED
  BY <1>1, <1>2 DEF LimitInv

LEMMA LimitStep ==
  ASSUME Types, OrderInv, LimitInv, [Next]_vars
  PROVE  LimitInv'
<1> USE DEF Goto, source, disk, process
<1>1. CASE StartFresh
  BY <1>1, LimitEmpty, BytesNone DEF StartFresh, LimitInv, Fresh
<1>2. CASE Resume
  BY <1>2, LimitResume
<1>3. ASSUME NEW row \in page.rows, InventoryObject(row) PROVE LimitInv'
  BY <1>3, LimitObject
<1>4. ASSUME NEW row \in page.rows, StopAtLimit(row) PROVE LimitInv'
  BY <1>4, LimitSaved DEF StopAtLimit, Types, Progress
<1>5. CASE EndPage
  BY <1>5, LimitSaved DEF EndPage, Types, Progress
<1>6. CASE SavePack
  BY <1>6, LimitSaved DEF SavePack, Types, Progress
<1>7. CASE PullSucceeds
  BY <1>7, LimitEmpty DEF PullSucceeds, Exit, LimitInv
<1>8. CASE ObjectChanged \/ Stop
  BY <1>8 DEF ObjectChanged, Stop, Exit, LimitInv
<1>9. CASE ListPage \/ Finish \/ WriteData \/ WriteIndex \/ FetchObject
           \/ \E row \in page.rows : SkipOversized(row)
  BY <1>9, LimitSaved
     DEF ListPage, Finish, WriteData, WriteIndex, FetchObject, Fetching, SkipOversized
<1>10. CASE ReusePack \/ MaterializeData \/ MaterializeIndex \/ BeginPack
  BY <1>10, LimitSaved DEF ReusePack, MorePacks, MaterializeData, MaterializeIndex, BeginPack
<1>11. CASE (\E k \in Keys : WriteObject(k)) \/ UNCHANGED vars
  BY <1>11 DEF WriteObject, vars, LimitInv
<1> QED
  BY <1>1, <1>2, <1>3, <1>4, <1>5, <1>6, <1>7, <1>8, <1>9, <1>10, <1>11 DEF Next, Attempt, Run

(* The limits of a bounded capture bind all its attempts together: what    *)
(* buildInventory writes to inventory.ndjson stays within MaxObjects,      *)
(* MaxTotalBytes and MaxObjectBytes however often it is resumed.           *)
THEOREM LimitsAreHeld == Spec => []LimitsHeld
<1>1. Init => LimitInv
  BY LimitEmpty DEF Init, LimitInv
<1>2. IInv /\ LimitInv /\ [Next]_vars => LimitInv'
  BY LimitStep DEF IInv
<1>3. LimitInv => LimitsHeld
  BY BytesOfAll DEF LimitInv, LimitsHeld
<1> QED
  BY <1>1, <1>2, <1>3, Inductive, PTL DEF Spec


-----------------------------------------------------------------------------
(***************************************************************************)
(* The packs.  The boundaries b of the packs made so far are where the     *)
(* inventory is cut if it is read again from its start, and each pack has  *)
(* the entries between two of them.                                        *)
(***************************************************************************)
(* p has the first of the entries, and all of them. *)
Begun(p, entries) ==
  /\ Len(p.data) <= Len(entries) /\ Len(p.index) = Len(p.data)
  /\ \A i \in 1..Len(p.data) : p.data[i] = [key |-> entries[i].key, body |-> entries[i].body]

Made(p, entries) == Begun(p, entries) /\ Len(p.data) = Len(entries)

CutAt(c, b) ==
  /\ b[0] = 0 /\ b[Len(c.packs)] = c.packed
  /\ \A n \in 1..Len(c.packs) :
       /\ b[n - 1] < Len(inventory)
       /\ b[n] = PackEnd(b[n - 1])
       /\ Made(c.packs[n], PackAfter(b[n - 1]))

CutOK(c) == \E b \in [0..Len(c.packs) -> Nat] : CutAt(c, b)

CutInv ==
  /\ checkpoint # NoFile => CutOK(checkpoint)
  /\ pc # "idle" => CutOK(cp)
  /\ pc = "fetch" => Begun(pack, PackAfter(cp.packed))
  /\ pc \in {"reuse", "index", "save"} => Made(pack, PackAfter(cp.packed))
  /\ pc = "done" => cp.packed = cp.listed
  /\ \A n \in DOMAIN ledger : Made(ledger[n].pack, ledger[n].entries)

LEMMA PackLines ==
  ASSUME Types, NEW from \in Nat, from < Len(inventory)
  PROVE  /\ PackAfter(from) \in Seq(Entry)
         /\ Len(PackAfter(from)) = PackEnd(from) - from
         /\ \A i \in 1..Len(PackAfter(from)) : PackAfter(from)[i] = inventory[from + i]
<1> DEFINE to == PackEnd(from)
<1>1. to \in Nat /\ to <= Len(inventory) /\ from < to /\ Len(inventory) \in Nat
  BY PackEnds, LenProperties DEF Types
<1>2. \A n \in (from + 1)..to : inventory[n] \in Entry
  <2> HIDE DEF to
  <2> QED
    BY <1>1, ElementOfSeq, LenProperties DEF Types
<1>3. PackAfter(from) = SubSeq(inventory, from + 1, to)
  BY DEF PackAfter
<1> HIDE DEF to
<1>4. /\ SubSeq(inventory, from + 1, to) \in Seq(Entry)
      /\ Len(SubSeq(inventory, from + 1, to)) = IF from + 1 <= to THEN to - (from + 1) + 1 ELSE 0
      /\ \A i \in 1..(to - (from + 1) + 1) :
           SubSeq(inventory, from + 1, to)[i] = inventory[from + 1 + i - 1]
  BY <1>1, <1>2, SubSeqProperties
<1>5. (IF from + 1 <= to THEN to - (from + 1) + 1 ELSE 0) = to - from
      /\ to - (from + 1) + 1 = to - from /\ \A i \in Nat : from + 1 + i - 1 = from + i
  BY <1>1
<1> QED
  BY <1>3, <1>4, <1>5 DEF to

LEMMA PackSame ==
  ASSUME UNCHANGED inventory
  PROVE  \A x : PackEnd(x)' = PackEnd(x) /\ PackAfter(x)' = PackAfter(x)
BY DEF PackEnd, PackAfter, InPack, BytesOf, BytesIn

LEMMA CutSame ==
  ASSUME UNCHANGED inventory
  PROVE  /\ UNCHANGED <<cp.packs, cp.packed>> /\ CutOK(cp) => CutOK(cp)'
         /\ UNCHANGED checkpoint /\ CutOK(checkpoint) => CutOK(checkpoint)'
BY PackSame DEF CutOK, CutAt

(* Before the inventory is complete there are no packs. *)
LEMMA NoPacksYet ==
  ASSUME Types, OrderInv, PackInv
  PROVE  /\ pc \in {"inventory", "list"} => cp.packs = <<>> /\ cp.packed = 0
         /\ checkpoint # NoFile /\ ~checkpoint.complete =>
              checkpoint.packs = <<>> /\ checkpoint.packed = 0
<1>1. ASSUME NEW c \in Progress, Filled(c), ~c.complete
      PROVE  c.packs = <<>> /\ c.packed = 0
  <2>1. c.packed = 0 /\ Len(c.packs) <= 0 /\ c.packs \in Seq(Pack)
    BY <1>1 DEF Filled, Progress
  <2> QED
    BY <2>1, EmptySeq, LenProperties
<1> QED
  BY <1>1 DEF Types, OrderInv, PackInv


(* Cut is a function that satisfies its own definition: every number that  *)
(* had none to serve up to it would have a least one before it.            *)
LEMMA CutExists ==
  \E f : f = [n \in 0..Last |-> IF n = 0 THEN 0 ELSE PackEnd(f[n - 1])]
<1> DEFINE Serves(f, m) == /\ f = [n \in 0..m |-> f[n]]
                           /\ f[0] = 0
                           /\ \A n \in 1..m : f[n] = PackEnd(f[n - 1])
<1>0. \A m \in Nat : m <= Last /\ m # 0 => m - 1 \in 0..Last /\ ~(m <= m - 1)
  BY ParametersAssumption
<1> DEFINE Bad == {m \in 0..Last : ~\E f : Serves(f, m)}
<1>1. Bad = {}
  <2> SUFFICES ASSUME Bad # {} PROVE FALSE
    OBVIOUS
  <2>1. PICK m \in Bad : \A k \in Bad : m <= k
    <3>1. Bad \subseteq Nat
      OBVIOUS
    <3> HIDE DEF Bad
    <3> QED
      BY <3>1, LeastNumber
  <2>2. m \in Nat /\ m <= Last /\ ~\E f : Serves(f, m)
    BY <2>1, ParametersAssumption
  <2>3. CASE m = 0
    <3> DEFINE f == [n \in 0..0 |-> 0]
    <3>1. Serves(f, 0)
      OBVIOUS
    <3> HIDE DEF f, Serves
    <3> QED
      BY <2>2, <2>3, <3>1
  <2>4. CASE m # 0
    <3>1. m - 1 \in 0..Last /\ m - 1 \notin Bad
      <4>1. m - 1 \in 0..Last /\ ~(m <= m - 1)
        BY <2>2, <2>4, <1>0, Zenon
      <4> HIDE DEF Bad
      <4> QED
        BY <2>1, <4>1
    <3>2. PICK g : Serves(g, m - 1)
      BY <3>1
    <3> DEFINE f == [n \in 0..m |-> IF n = m THEN PackEnd(g[m - 1]) ELSE g[n]]
    <3>3. \A n \in 0..m : f[n] = IF n = m THEN PackEnd(g[m - 1]) ELSE g[n]
      OBVIOUS
    <3>4. f = [n \in 0..m |-> f[n]]
      OBVIOUS
    <3> HIDE DEF f
    <3>5. f[0] = 0
      <4>1. 0 \in 0..m /\ 0 # m
        BY <2>2, <2>4
      <4> QED
        BY <3>2, <3>3, <4>1
    <3>6. ASSUME NEW n \in 1..m PROVE f[n] = PackEnd(f[n - 1])
      <4>1. n - 1 \in 0..m /\ n - 1 # m /\ n \in 0..m /\ n - 1 \in 0..(m - 1)
        BY <2>2
      <4>2. f[n - 1] = g[n - 1]
        BY <3>3, <4>1
      <4>3. CASE n = m
        BY <3>3, <4>1, <4>2, <4>3
      <4>4. CASE n # m
        <5>1. n \in 1..(m - 1) /\ f[n] = g[n]
          BY <2>2, <3>3, <4>1, <4>4
        <5> QED
          BY <3>2, <4>2, <5>1
      <4> QED
        BY <4>3, <4>4
    <3>7. Serves(f, m)
      BY <3>4, <3>5, <3>6
    <3> HIDE DEF Serves
    <3> QED
      BY <2>2, <3>7
  <2> QED
    BY <2>3, <2>4
<1>2. PICK f : Serves(f, Last)
  <2>1. Last \in 0..Last
    BY ParametersAssumption
  <2> QED
    BY <1>1, <2>1
<1>3. \A n \in 0..Last : f[n] = IF n = 0 THEN 0 ELSE PackEnd(f[n - 1])
  <2> SUFFICES ASSUME NEW n \in 0..Last PROVE f[n] = IF n = 0 THEN 0 ELSE PackEnd(f[n - 1])
    OBVIOUS
  <2>1. n = 0 \/ n \in 1..Last
    BY ParametersAssumption
  <2> QED
    BY <1>2, <2>1
<1>4. f = [n \in 0..Last |-> f[n]]
  BY <1>2
<1>5. [n \in 0..Last |-> f[n]] = [n \in 0..Last |-> IF n = 0 THEN 0 ELSE PackEnd(f[n - 1])]
  BY <1>3, Zenon
<1>6. f = [n \in 0..Last |-> IF n = 0 THEN 0 ELSE PackEnd(f[n - 1])]
  BY <1>4, <1>5, Zenon
<1> QED
  BY <1>6, Zenon

LEMMA CutUnfold ==
  \A n \in 0..Last : Cut[n] = IF n = 0 THEN 0 ELSE PackEnd(Cut[n - 1])
<1>1. Cut = [n \in 0..Last |-> IF n = 0 THEN 0 ELSE PackEnd(Cut[n - 1])]
  BY CutExists, Zenon DEF Cut
<1> QED
  BY <1>1, Zenon


(* Read again from its start, the inventory is cut where it was cut.       *)
LEMMA CutAgain ==
  ASSUME Types, OrderInv, PackInv, pc # "idle", NEW b, CutAt(cp, b),
         b \in [0..Len(cp.packs) -> Nat]
  PROVE  \A n \in 0..Len(cp.packs) : Cut[n] = b[n]
<1> DEFINE Bad == {m \in 0..Len(cp.packs) : Cut[m] # b[m]}
<1>1. Len(cp.packs) \in Nat /\ Len(cp.packs) <= Last
  <2>1. Len(cp.packs) \in Nat /\ cp.packed \in Nat /\ cp.listed \in Nat
    BY LenProperties DEF Types, Progress
  <2>2. Len(cp.packs) <= cp.packed /\ cp.packed <= cp.listed /\ cp.listed = Len(inventory)
    BY DEF PackInv, Filled, OrderInv
  <2> QED
    BY <2>1, <2>2, InventoryShort, ParametersAssumption
<1>2. \A m \in 0..Len(cp.packs) : m # 0 => /\ m \in 1..Len(cp.packs) /\ m \in 0..Last /\ 0 \in 0..Last
                                           /\ m - 1 \in 0..Len(cp.packs) /\ ~(m <= m - 1)
  BY <1>1, ParametersAssumption
<1>3. CASE Bad # {}
  <2>1. PICK m \in Bad : \A k \in Bad : m <= k
    <3>1. Bad \subseteq Nat
      BY <1>1
    <3> HIDE DEF Bad
    <3> QED
      BY <1>3, <3>1, LeastNumber
  <2>2. m \in 0..Len(cp.packs) /\ Cut[m] # b[m]
    BY <2>1
  <2>3. m # 0
    <3>1. 0 \in 0..Last
      BY ParametersAssumption
    <3>2. Cut[0] = 0
      BY <3>1, CutUnfold
    <3> QED
      BY <2>2, <3>2 DEF CutAt
  <2>4. m \in 1..Len(cp.packs) /\ m \in 0..Last /\ m - 1 \in 0..Len(cp.packs) /\ ~(m <= m - 1)
    BY <1>2, <2>2, <2>3
  <2>5. Cut[m - 1] = b[m - 1]
    <3>1. m - 1 \notin Bad
      <4> HIDE DEF Bad
      <4> QED
        BY <2>1, <2>4
    <3> QED
      BY <2>4, <3>1
  <2>6. Cut[m] = PackEnd(Cut[m - 1])
    BY <2>3, <2>4, CutUnfold
  <2>7. b[m] = PackEnd(b[m - 1])
    BY <2>4 DEF CutAt
  <2> QED
    BY <2>2, <2>5, <2>6, <2>7
<1> QED
  BY <1>3

(* So the ledger's units are the packs and the entries they were made of.  *)
LEMMA UnitsMade ==
  ASSUME Types, OrderInv, PackInv, CutInv, pc # "idle"
  PROVE  /\ DOMAIN Units = 1..Len(cp.packs)
         /\ \A n \in 1..Len(cp.packs) :
              /\ Units[n].pack = cp.packs[n]
              /\ Units[n].entries \in Seq(Entry)
              /\ Made(cp.packs[n], Units[n].entries)
<1>1. PICK b \in [0..Len(cp.packs) -> Nat] : CutAt(cp, b)
  BY DEF CutInv, CutOK
<1>2. \A n \in 0..Len(cp.packs) : Cut[n] = b[n]
  BY <1>1, CutAgain
<1>3. Len(cp.packs) \in Nat /\ DOMAIN cp.packs = 1..Len(cp.packs)
  BY LenProperties DEF Types, Progress
<1>4. DOMAIN Units = 1..Len(cp.packs)
  BY <1>3 DEF Units
<1>5. ASSUME NEW n \in 1..Len(cp.packs)
      PROVE  /\ Units[n].pack = cp.packs[n]
             /\ Units[n].entries \in Seq(Entry)
             /\ Made(cp.packs[n], Units[n].entries)
  <2>1. n - 1 \in 0..Len(cp.packs) /\ b[n - 1] \in Nat
    BY <1>1, <1>3
  <2>2. Units[n].pack = cp.packs[n] /\ Units[n].entries = PackAfter(Cut[n - 1])
    BY <1>3 DEF Units
  <2>3. Cut[n - 1] = b[n - 1]
    BY <1>2, <2>1
  <2>4. b[n - 1] < Len(inventory) /\ Made(cp.packs[n], PackAfter(b[n - 1]))
    BY <1>1 DEF CutAt
  <2>5. PackAfter(b[n - 1]) \in Seq(Entry)
    BY <2>1, <2>4, PackLines
  <2> QED
    BY <2>2, <2>3, <2>4, <2>5
<1> QED
  BY <1>4, <1>5

LEMMA CutSaved ==
  ASSUME Types, OrderInv, PackInv, CutInv, SavePack
  PROVE  CutOK(cp)'
<1> DEFINE k == Len(cp.packs)
<1>1. /\ cp'.packs = Append(cp.packs, pack) /\ cp'.packed = PackEnd(cp.packed)
      /\ UNCHANGED inventory /\ pc = "save"
  BY DEF SavePack, Types, Progress
<1>2. /\ Len(cp'.packs) = k + 1 /\ k \in Nat
      /\ \A n \in 1..k : cp'.packs[n] = cp.packs[n]
      /\ cp'.packs[k + 1] = pack
  BY <1>1, AppendProperties, LenProperties DEF Types, Progress
<1>3. /\ cp.packed \in Nat /\ cp.packed < Len(inventory) /\ PackEnd(cp.packed) \in Nat
      /\ Made(pack, PackAfter(cp.packed))
  BY <1>1, NumberIsNew, PackEnds DEF CutInv
<1>4. PICK b \in [0..k -> Nat] : CutAt(cp, b)
  BY <1>1 DEF CutInv, CutOK
<1> HIDE DEF k
<1>d. \E d \in [0..(k + 1) -> Nat] :
         (\A i \in 0..k : d[i] = b[i]) /\ d[k + 1] = PackEnd(cp.packed)
  <2> DEFINE d == [i \in 0..(k + 1) |-> IF i = k + 1 THEN PackEnd(cp.packed) ELSE b[i]]
  <2>1. d \in [0..(k + 1) -> Nat] /\ d[k + 1] = PackEnd(cp.packed)
    BY <1>2, <1>3, <1>4
  <2>2. \A i \in 0..k : d[i] = b[i]
    BY <1>2, <1>4
  <2> HIDE DEF d
  <2> QED
    BY <2>1, <2>2
<1>5. PICK d \in [0..(k + 1) -> Nat] :
        (\A i \in 0..k : d[i] = b[i]) /\ d[k + 1] = PackEnd(cp.packed)
  BY <1>d
<1>6. d[k + 1] = PackEnd(cp.packed) /\ d \in [0..(k + 1) -> Nat]
  BY <1>5
<1>7. d[0] = 0 /\ d[k] = cp.packed
  BY <1>2, <1>4, <1>5 DEF CutAt, k
<1>8. ASSUME NEW n \in 1..(k + 1)
      PROVE  /\ d[n - 1] < Len(inventory)
             /\ d[n] = PackEnd(d[n - 1])
             /\ Made(cp'.packs[n], PackAfter(d[n - 1]))
  <2>1. CASE n = k + 1
    <3>1. n - 1 = k
      BY <1>2, <2>1
    <3> QED
      BY <1>2, <1>3, <1>6, <1>7, <2>1, <3>1
  <2>2. CASE n # k + 1
    <3>1. n \in 1..k /\ n - 1 \in 0..k /\ n \in 0..k
      BY <1>2, <2>2
    <3>2. /\ b[n - 1] < Len(inventory) /\ b[n] = PackEnd(b[n - 1])
          /\ Made(cp.packs[n], PackAfter(b[n - 1]))
      BY <1>4, <3>1 DEF CutAt, k
    <3>3. cp'.packs[n] = cp.packs[n] /\ d[n - 1] = b[n - 1] /\ d[n] = b[n]
      BY <1>2, <1>5, <3>1
    <3> QED
      BY <3>2, <3>3
  <2> QED
    BY <2>1, <2>2
<1>9. \A x : PackEnd(x)' = PackEnd(x) /\ PackAfter(x)' = PackAfter(x)
  BY <1>1, PackSame
<1>10. CutAt(cp, d)'
  BY <1>1, <1>2, <1>6, <1>7, <1>8, <1>9 DEF CutAt
<1> QED
  BY <1>2, <1>6, <1>10 DEF CutOK


(* One more object of the pack. *)
LEMMA CutFetch ==
  ASSUME Types, OrderInv, PackInv, CutInv, FetchObject
  PROVE  Begun(pack, PackAfter(cp.packed))'
<1> DEFINE entries == PackAfter(cp.packed)
           d == Len(pack.data)
           e == NextEntry
<1>1. /\ pc = "fetch" /\ d < Len(entries) /\ e = entries[d + 1]
      /\ Begun(pack, entries) /\ UNCHANGED <<inventory, cp>>
  <2>1. Fetching /\ UNCHANGED <<inventory, cp>>
    BY DEF FetchObject, disk
  <2> QED
    BY <2>1 DEF Fetching, NextEntry, CutInv
<1>2. PICK meta \in DigestNow(e.key) :
        pack' = [data |-> Append(pack.data, [key |-> e.key, body |-> e.body]),
                 index |-> Append(pack.index, [key |-> e.key, meta |-> meta])]
  BY DEF FetchObject
<1>3. e \in Entry
  BY EntryFetched DEF FetchObject
<1>4. [key |-> e.key, body |-> e.body] \in Listed /\ [key |-> e.key, meta |-> meta] \in Index
  <2> HIDE DEF e
  <2> QED
    BY <1>2, <1>3 DEF Entry, Listed, Index, DigestNow, Objects, Metadata, Types
<1>5. pack.data \in Seq(Listed) /\ pack.index \in Seq(Index) /\ Len(pack.data) \in Nat
  BY LenProperties DEF Types, Pack
<1>6. entries' = entries
  BY <1>1, PackSame DEF PackAfter
<1>7. Len(entries) \in Nat
  <2>1. cp.packed \in Nat /\ cp.packed < Len(inventory)
    BY <1>1, NumberIsNew
  <2> QED
    BY <2>1, PackLines, LenProperties
<1> HIDE DEF entries, e
<1>8. /\ Len(pack'.data) = d + 1 /\ Len(pack'.index) = Len(pack.index) + 1
      /\ pack'.data[d + 1] = [key |-> e.key, body |-> e.body]
      /\ \A i \in 1..d : pack'.data[i] = pack.data[i]
  BY <1>2, <1>4, <1>5, AppendProperties
<1>9. Begun(pack', entries)
  <2>1. Len(pack'.data) <= Len(entries)
    BY <1>1, <1>5, <1>7, <1>8
  <2>2. Len(pack'.index) = Len(pack'.data)
    BY <1>1, <1>8 DEF Begun
  <2>3. ASSUME NEW i \in 1..(d + 1)
        PROVE  pack'.data[i] = [key |-> entries[i].key, body |-> entries[i].body]
    <3>1. CASE i = d + 1
      BY <1>1, <1>8, <3>1
    <3>2. CASE i \in 1..d
      BY <1>1, <1>8, <3>2 DEF Begun
    <3> QED
      BY <1>5, <3>1, <3>2
  <2> QED
    BY <1>8, <2>1, <2>2, <2>3 DEF Begun
<1> QED
  BY <1>6, <1>9 DEF entries, Begun


(* A step that leaves the progress alone. *)
LEMMA CutKept ==
  ASSUME CutInv, UNCHANGED <<inventory, checkpoint, cp, ledger>>
  PROVE  /\ checkpoint' # NoFile => CutOK(checkpoint)'
         /\ pc # "idle" => CutOK(cp)'
         /\ \A n \in DOMAIN ledger' : Made(ledger'[n].pack, ledger'[n].entries)
         /\ PackAfter(cp.packed)' = PackAfter(cp.packed)
<1>1. PackAfter(cp.packed)' = PackAfter(cp.packed)
  BY DEF PackAfter, PackEnd, InPack, BytesOf, BytesIn
<1> QED
  BY <1>1, CutSame DEF CutInv

LEMMA CutFrame ==
  ASSUME CutInv, UNCHANGED <<inventory, checkpoint, cp, pack, ledger>>, pc # "idle",
         pc' \in {"fetch", "reuse", "index", "save", "done"} => pc' = pc
  PROVE  CutInv'
BY CutKept DEF CutInv, Made, Begun

LEMMA CutExit ==
  ASSUME CutInv, Exit, UNCHANGED <<inventory, checkpoint, ledger>>
  PROVE  CutInv'
BY CutSame DEF Exit, Goto, CutInv, Made, Begun

(* The inventory is not complete: there are no packs, whatever it holds.   *)
LEMMA CutBefore ==
  ASSUME CutInv, cp'.packs = <<>>, cp'.packed = 0, UNCHANGED ledger,
         checkpoint' # NoFile => checkpoint'.packs = <<>> /\ checkpoint'.packed = 0,
         pc' \in {"inventory", "list", "pack"}
  PROVE  CutInv'
<1>1. CutOK(cp)' /\ (checkpoint' # NoFile => CutOK(checkpoint)')
  <2>1. [i \in {0} |-> 0] \in [{0} -> Nat] /\ [i \in {0} |-> 0][0] = 0 /\ 0..0 = {0} /\ 1..0 = {}
    OBVIOUS
  <2>2. PICK b \in [0..0 -> Nat] : b[0] = 0
    BY <2>1
  <2>3. Len(<<>>) = 0
    OBVIOUS
  <2>4. CutAt(cp, b)' /\ (checkpoint' # NoFile => CutAt(checkpoint, b)')
    BY <2>1, <2>2, <2>3 DEF CutAt
  <2> QED
    BY <2>2, <2>3, <2>4 DEF CutOK
<1> QED
  BY <1>1 DEF CutInv, Made, Begun

LEMMA CutStep ==
  ASSUME Types, Types', OrderInv, PackInv, CutInv, [Next]_vars
  PROVE  CutInv'
<1> USE DEF Goto, source, disk, process
<1>1. ASSUME NEW k \in Keys, WriteObject(k) PROVE CutInv'
  BY <1>1, CutKept DEF WriteObject, CutInv, Made, Begun
<1>2. CASE StartFresh
  BY <1>2, CutBefore DEF StartFresh, Fresh
<1>3. CASE Resume
  <2>1. CASE checkpoint.complete
    <3>1. UNCHANGED <<inventory, checkpoint, ledger>> /\ checkpoint # NoFile
          /\ cp' = checkpoint /\ pc' = "pack"
      BY <1>3, <2>1 DEF Resume
    <3>2. CutOK(checkpoint)'
      BY <3>1, CutSame DEF CutInv
    <3>3. CutOK(cp)'
      BY <3>1, <3>2 DEF CutOK, CutAt
    <3> QED
      BY <3>1, <3>2, <3>3 DEF CutInv, Made, Begun
  <2>2. CASE ~checkpoint.complete
    BY <1>3, <2>2, NoPacksYet, CutBefore DEF Resume
  <2> QED
    BY <2>1, <2>2
<1>4. CASE ListPage
  BY <1>4, CutFrame DEF ListPage
<1>5. ASSUME NEW row \in page.rows, InventoryObject(row) PROVE CutInv'
  <2>1. cp'.packs = cp.packs /\ cp'.packed = cp.packed /\ pc = "list" /\ pc' = "list"
        /\ UNCHANGED <<checkpoint, ledger>>
    BY <1>5 DEF InventoryObject, Types, Progress
  <2>2. checkpoint # NoFile => ~checkpoint.complete
    BY <2>1 DEF OrderInv
  <2> QED
    BY <2>1, <2>2, NoPacksYet, CutBefore
<1>6. ASSUME NEW row \in page.rows, SkipOversized(row) PROVE CutInv'
  BY <1>6, CutFrame DEF SkipOversized
<1>7. ASSUME NEW row \in page.rows, StopAtLimit(row) PROVE CutInv'
  <2>1. cp'.packs = cp.packs /\ cp'.packed = cp.packed /\ pc = "list" /\ pc' = "pack"
        /\ checkpoint' = cp' /\ UNCHANGED ledger
    BY <1>7 DEF StopAtLimit, Types, Progress
  <2> QED
    BY <2>1, NoPacksYet, CutBefore
<1>8. CASE EndPage
  <2>1. cp'.packs = cp.packs /\ cp'.packed = cp.packed /\ pc = "list"
        /\ pc' \in {"inventory", "pack"} /\ checkpoint' = cp' /\ UNCHANGED ledger
    BY <1>8 DEF EndPage, Types, Progress
  <2> QED
    BY <2>1, NoPacksYet, CutBefore
<1>9. CASE ReusePack
  <2>1. /\ pc = "pack" /\ pc' = "reuse" /\ UNCHANGED <<inventory, checkpoint, cp, ledger>>
        /\ Made(pack', PackAfter(cp.packed))
    BY <1>9 DEF ReusePack, MorePacks, FreshInLedger, CutInv
  <2>2. Made(pack, PackAfter(cp.packed))'
    BY <2>1, CutKept DEF Made, Begun
  <2> QED
    BY <2>1, <2>2, CutKept DEF CutInv
<1>10. CASE MaterializeData
  BY <1>10, CutFrame DEF MaterializeData
<1>11. CASE MaterializeIndex
  BY <1>11, CutKept DEF MaterializeIndex, CutInv, Made, Begun
<1>12. CASE BeginPack
  <2>1. /\ pc \in {"pack", "reuse"} /\ pc' = "fetch" /\ pack' = NoPack
        /\ cp.packed < cp.listed
        /\ UNCHANGED <<inventory, checkpoint, cp, ledger>>
    BY <1>12 DEF BeginPack, MorePacks, PackInv
  <2>2. Len(PackAfter(cp.packed)) \in Nat
    <3>1. cp.packed \in Nat /\ cp.packed < Len(inventory)
      BY <2>1 DEF OrderInv, Types, Progress
    <3> QED
      BY <3>1, PackLines, LenProperties
  <2>3. Begun(pack, PackAfter(cp.packed))'
    <3>1. Begun(NoPack, PackAfter(cp.packed))
      <4>1. Len(NoPack.data) = 0 /\ Len(NoPack.index) = 0
        BY EmptySeq DEF NoPack
      <4> QED
        BY <2>2, <4>1 DEF Begun
    <3> QED
      BY <2>1, <3>1, CutKept DEF Begun
  <2> QED
    BY <2>1, <2>3, CutKept DEF CutInv
<1>13. CASE FetchObject
  <2>1. pc = "fetch" /\ pc' = "fetch" /\ UNCHANGED <<inventory, checkpoint, cp, ledger>>
    BY <1>13 DEF FetchObject, Fetching
  <2> QED
    BY <1>13, <2>1, CutFetch, CutKept DEF CutInv
<1>14. CASE ObjectChanged
  BY <1>14, CutExit DEF ObjectChanged
<1>15. CASE WriteData
  <2>1. /\ pc = "fetch" /\ pc' = "index" /\ ~(Len(pack.data) < Len(PackAfter(cp.packed)))
        /\ Begun(pack, PackAfter(cp.packed))
        /\ UNCHANGED <<inventory, checkpoint, cp, pack, ledger>>
    BY <1>15 DEF WriteData, Fetching, CutInv
  <2>2. Len(pack.data) \in Nat /\ Len(PackAfter(cp.packed)) \in Nat
    <3>1. cp.packed \in Nat /\ cp.packed < Len(inventory)
      BY <2>1, NumberIsNew
    <3> QED
      BY <3>1, PackLines, LenProperties DEF Types, Pack
  <2>3. Made(pack, PackAfter(cp.packed))
    BY <2>1, <2>2 DEF Made, Begun
  <2> QED
    BY <2>1, <2>3, CutKept DEF CutInv, Made, Begun
<1>16. CASE WriteIndex
  BY <1>16, CutKept DEF WriteIndex, CutInv, Made, Begun
<1>17. CASE SavePack
  <2>1. CutOK(cp)' /\ checkpoint' = cp' /\ pc' = "pack" /\ UNCHANGED ledger
    BY <1>17, CutSaved DEF SavePack
  <2>2. CutOK(checkpoint)'
    BY <2>1 DEF CutOK, CutAt
  <2> QED
    BY <2>1, <2>2 DEF CutInv, Made, Begun
<1>18. CASE Finish
  <2>1. ~(cp.packed < cp.listed) /\ cp.packed <= cp.listed /\ cp.packed \in Nat /\ cp.listed \in Nat
    BY <1>18 DEF Finish, MorePacks, PackInv, Filled, Types, Progress
  <2>2. cp'.packed = cp'.listed /\ pc' = "done" /\ pc # "idle"
    BY <1>18, <2>1 DEF Finish
  <2> QED
    BY <1>18, <2>2, CutKept DEF Finish, CutInv, Made, Begun
<1>19. CASE PullSucceeds
  <2>1. checkpoint' = NoFile /\ pc' = "idle" /\ ledger' \in {ledger, Units} /\ pc # "idle"
    BY <1>19 DEF PullSucceeds, Exit
  <2>2. \A n \in DOMAIN ledger' : Made(ledger'[n].pack, ledger'[n].entries)
    BY <2>1, UnitsMade DEF CutInv
  <2> QED
    BY <2>1, <2>2 DEF CutInv
<1>20. CASE Stop
  BY <1>20, CutExit DEF Stop
<1>21. CASE UNCHANGED vars
  BY <1>21, CutKept DEF vars, CutInv, Made, Begun
<1> QED
  BY <1>1, <1>2, <1>3, <1>4, <1>5, <1>6, <1>7, <1>8, <1>9, <1>10, <1>11, <1>12, <1>13,
     <1>14, <1>15, <1>16, <1>17, <1>18, <1>19, <1>20, <1>21 DEF Next, Attempt, Run

LEMMA CutInvariance == Spec => []CutInv
<1>1. Init => CutInv
  BY DEF Init, CutInv
<1>2. IInv /\ IInv' /\ CutInv /\ [Next]_vars => CutInv'
  BY CutStep DEF IInv
<1> QED
  BY <1>1, <1>2, Inductive, PTL DEF Spec


(* Each pack that captureObjectsReusable leaves has the inventoried        *)
(* versions, and none but those, of the entries that scanS3InventoryPacks  *)
(* finds for it when it cuts the inventory once more.                      *)
THEOREM PacksMatch == Spec => []PacksMatchInventory
<1>1. IInv /\ CutInv => PacksMatchInventory
  <2> SUFFICES ASSUME Types, OrderInv, PackInv, CutInv, pc = "done"
               PROVE  /\ cp.packed = Len(inventory)
                      /\ \A n \in DOMAIN cp.packs :
                           LET entries == Units[n].entries
                           IN /\ cp.packs[n].data = [i \in DOMAIN entries |->
                                    [key |-> entries[i].key, body |-> entries[i].body]]
                              /\ DOMAIN cp.packs[n].index = DOMAIN entries
    BY Zenon DEF IInv, PacksMatchInventory
  <2>1. cp.packed = Len(inventory)
    BY DEF CutInv, OrderInv
  <2>2. ASSUME NEW n \in DOMAIN cp.packs, NEW entries, entries = Units[n].entries
        PROVE  /\ cp.packs[n].data = [i \in DOMAIN entries |->
                      [key |-> entries[i].key, body |-> entries[i].body]]
               /\ DOMAIN cp.packs[n].index = DOMAIN entries
    <3>1. n \in 1..Len(cp.packs) /\ cp.packs[n] \in Pack
      BY LenProperties, ElementOfSeq DEF Types, Progress
    <3>2. entries \in Seq(Entry) /\ Made(cp.packs[n], entries)
      BY <2>2, <3>1, UnitsMade
    <3> DEFINE data == cp.packs[n].data
               index == cp.packs[n].index
    <3>3. data \in Seq(Listed) /\ index \in Seq(Index)
      BY <3>1 DEF Pack
    <3>4. /\ Len(data) = Len(entries) /\ Len(index) = Len(entries)
          /\ \A i \in 1..Len(entries) : data[i] = [key |-> entries[i].key, body |-> entries[i].body]
      BY <3>2 DEF Made, Begun
    <3> HIDE DEF data, index
    <3>5. DOMAIN data = 1..Len(entries) /\ DOMAIN index = 1..Len(entries)
          /\ DOMAIN entries = 1..Len(entries)
      BY <3>2, <3>3, <3>4, LenProperties
    <3>6. data = [i \in 1..Len(data) |-> data[i]]
      BY <3>3
    <3>7. data = [i \in DOMAIN entries |-> [key |-> entries[i].key, body |-> entries[i].body]]
      BY <3>4, <3>5, <3>6
    <3> QED
      BY <3>5, <3>7 DEF data, index
  <2> QED
    BY <2>1, <2>2, Zenon
<1> QED
  BY <1>1, Inductive, CutInvariance, PTL


-----------------------------------------------------------------------------
(***************************************************************************)
(* The dataset is current.  What was listed, as far as nobody has written  *)
(* to it since the capture began, is as it was listed, and what the        *)
(* listing has passed was listed (CurrentInv); the packs hold the          *)
(* inventory's lines, all of them (LinesPacked).                           *)
(***************************************************************************)
Current(e) == e.key \notin touched => object[e.key] # NoObject /\ object[e.key].body = e.body

(* The first n lines have every selected object but those of K. *)
AllListed(n, K) ==
  \A k \in (Selected \ touched) \ K :
    object[k] # NoObject => \E i \in 1..n : inventory[i].key = k

Ahead(c) == IF c.complete THEN {} ELSE Later(c.prefix, c.token)

CurrentInv ==
  /\ \A n \in DOMAIN inventory : Current(inventory[n])
  /\ pc = "list" => \A row \in page.rows : Current(row)
  /\ Full /\ checkpoint # NoFile => AllListed(checkpoint.listed, Ahead(checkpoint))
  /\ Full /\ pc \notin {"idle", "list"} => AllListed(cp.listed, Ahead(cp))
  /\ Full /\ pc = "list" =>
       AllListed(cp.listed, LaterThanPage \cup {row.key : row \in page.rows})

LEMMA SelectedKeys ==
  /\ Selected \subseteq Keys
  /\ \A k \in Selected : \E i \in DOMAIN Prefixes : k \in Prefixes[i]
  /\ DOMAIN Prefixes \subseteq Nat
  /\ \A i \in DOMAIN Prefixes : Prefixes[i] \subseteq Keys
BY ParametersAssumption, LenProperties DEF Selected

LEMMA CurrentWrite ==
  ASSUME Types, CurrentInv, NEW w \in Keys, WriteObject(w)
  PROVE  CurrentInv'
<1>1. \A k \in Keys \ touched' : k \notin touched /\ object'[k] = object[k]
  BY DEF WriteObject, Types
<1>2. /\ \A n \in DOMAIN inventory : inventory[n].key \in Keys
      /\ \A row \in page.rows : row.key \in Keys
  <2>1. \A n \in DOMAIN inventory : inventory[n] \in Entry
    BY ElementOfSeq, LenProperties DEF Types
  <2> QED
    BY <2>1 DEF Types, Entry, Listed
<1>3. UNCHANGED <<inventory, checkpoint, cp, page, pc>>
  BY DEF WriteObject, disk, process
<1>4. \A n \in DOMAIN inventory' : Current(inventory[n])'
  BY <1>1, <1>2, <1>3 DEF CurrentInv, Current
<1>5. pc' = "list" => \A row \in page'.rows : Current(row)'
  BY <1>1, <1>2, <1>3 DEF CurrentInv, Current
<1>6. \A n, K : AllListed(n, K) => AllListed(n, K)'
  BY <1>1, <1>3, SelectedKeys DEF AllListed
<1>7. LaterThanPage' = LaterThanPage /\ Ahead(cp)' = Ahead(cp) /\ Ahead(checkpoint)' = Ahead(checkpoint)
  BY <1>3 DEF LaterThanPage, Ahead
<1>8. (Full /\ checkpoint # NoFile => AllListed(checkpoint.listed, Ahead(checkpoint)))'
  BY <1>3, <1>6, <1>7 DEF CurrentInv
<1>9. (Full /\ pc \notin {"idle", "list"} => AllListed(cp.listed, Ahead(cp)))'
  BY <1>3, <1>6, <1>7 DEF CurrentInv
<1>10. (Full /\ pc = "list" =>
         AllListed(cp.listed, LaterThanPage \cup {row.key : row \in page.rows}))'
  BY <1>3, <1>6, <1>7 DEF CurrentInv
<1> QED
  BY <1>4, <1>5, <1>8, <1>9, <1>10 DEF CurrentInv

LEMMA CurrentFresh ==
  ASSUME Types, StartFresh
  PROVE  CurrentInv'
<1>1. /\ inventory' = <<>> /\ checkpoint' = NoFile /\ cp' = Fresh /\ pc' = "inventory"
      /\ UNCHANGED object /\ touched' = {}
  BY DEF StartFresh, Goto
<1>2. Selected \subseteq Later(1, 0)
  <2> SUFFICES ASSUME NEW k \in Selected PROVE k \in Later(1, 0)
    OBVIOUS
  <2>1. PICK i \in DOMAIN Prefixes : k \in Prefixes[i]
    BY SelectedKeys
  <2>2. i >= 1 /\ i \in Nat
    BY ParametersAssumption, LenProperties
  <2>3. k \in Keys /\ k > 0
    BY SelectedKeys, ParametersAssumption DEF Keys
  <2> QED
    BY <2>1, <2>2, <2>3 DEF Later
<1>3. Ahead(cp') = Later(1, 0)
  BY <1>1 DEF Ahead, Fresh
<1>4. AllListed(cp.listed, Ahead(cp))'
  BY <1>1, <1>2, <1>3 DEF AllListed, Ahead
<1>5. \A n \in DOMAIN inventory' : Current(inventory[n])'
  BY <1>1
<1> QED
  BY <1>1, <1>4, <1>5 DEF CurrentInv

(* The first n lines are what they were. *)
LEMMA ListedSame ==
  ASSUME UNCHANGED <<object, touched>>, NEW n, \A i \in 1..n : inventory'[i] = inventory[i],
         NEW K, AllListed(n, K)
  PROVE  AllListed(n, K)'
BY DEF AllListed

LEMMA CurrentResume ==
  ASSUME Types, OrderInv, CurrentInv, Resume
  PROVE  CurrentInv'
<1>1. /\ UNCHANGED <<object, touched, checkpoint>> /\ checkpoint # NoFile
      /\ cp' = checkpoint /\ pc' \in {"pack", "inventory"}
  BY DEF Resume, Goto, source
<1>2. /\ Len(inventory') = checkpoint.listed /\ checkpoint.listed \in Nat
      /\ checkpoint.listed <= Len(inventory) /\ Len(inventory) \in Nat
      /\ \A i \in 1..checkpoint.listed : inventory'[i] = inventory[i]
      /\ DOMAIN inventory' = 1..Len(inventory') /\ DOMAIN inventory = 1..Len(inventory)
  BY <1>1, ResumeLines, LenProperties DEF Types, OrderInv, Covers
<1>3. \A n \in DOMAIN inventory' : Current(inventory[n])'
  BY <1>1, <1>2 DEF CurrentInv, Current
<1>4. Full => AllListed(checkpoint.listed, Ahead(checkpoint))'
  BY <1>1, <1>2 DEF CurrentInv, AllListed, Ahead, Later
<1>5. Full => AllListed(cp.listed, Ahead(cp))'
  BY <1>1, <1>4 DEF AllListed, Ahead, Later
<1> QED
  BY <1>1, <1>3, <1>4, <1>5 DEF CurrentInv

LEMMA CurrentListPage ==
  ASSUME Types, OrderInv, CurrentInv, ListPage
  PROVE  CurrentInv'
<1> DEFINE keys == {k \in Prefixes[cp.prefix] : k > cp.token /\ object[k] # NoObject}
           upto(end) == {[key |-> k, body |-> object[k].body] : k \in {k \in keys : k <= end}}
<1>1. PICK end \in Keys \cup {Last} :
        /\ page'.rows = upto(end)
        /\ (page'.next = 0 /\ end = Last) \/ (page'.next = end /\ end \in keys)
  <2>1. page' \in {[rows |-> upto(k), next |-> k] : k \in keys}
                    \cup {[rows |-> upto(Last), next |-> 0]}
    BY DEF ListPage
  <2>2. keys \subseteq Keys
    BY ParametersAssumption, LenProperties DEF ListPage, OrderInv
  <2> HIDE DEF keys, upto
  <2> QED
    BY <2>1, <2>2
<1>2. /\ cp.prefix \in DOMAIN Prefixes /\ cp.token \in Nat /\ cp.prefix \in Nat
      /\ ~cp.complete
  BY ParametersAssumption DEF ListPage, OrderInv, Types, Progress, Keys
<1>3. keys \subseteq Keys /\ Keys \subseteq Nat /\ \A k \in Keys : k > 0 /\ k <= Last
  BY <1>2, SelectedKeys, ParametersAssumption DEF Keys
<1>4. /\ pc = "inventory" /\ pc' = "list"
      /\ UNCHANGED <<object, touched, inventory, checkpoint, cp>>
  BY DEF ListPage, source, disk, Goto
<1>5. LaterThanPage' = IF page'.next = 0 THEN Later(cp.prefix + 1, 0)
                                         ELSE Later(cp.prefix, page'.next)
  BY <1>4 DEF LaterThanPage
<1>6. ASSUME NEW k \in keys, k <= end
      PROVE  \E row \in page'.rows : row.key = k
  <2>1. [key |-> k, body |-> object[k].body] \in upto(end)
    BY <1>6
  <2> HIDE DEF keys, upto
  <2> QED
    BY <1>1, <2>1
<1>7. \A row \in page'.rows : Current(row)'
  <2> SUFFICES ASSUME NEW row \in page'.rows PROVE Current(row)'
    OBVIOUS
  <2>1. PICK k \in keys : row = [key |-> k, body |-> object[k].body]
    BY <1>1
  <2> QED
    BY <1>4, <2>1 DEF Current
<1>8. ASSUME NEW k \in Later(cp.prefix, cp.token), object[k] # NoObject
      PROVE  k \in LaterThanPage' \/ \E row \in page'.rows : row.key = k
  <2>1. PICK i \in DOMAIN Prefixes :
          /\ k \in Keys /\ k \in Prefixes[i]
          /\ i > cp.prefix \/ (i = cp.prefix /\ k > cp.token)
    BY DEF Later
  <2>2. i \in Nat /\ k \in Nat /\ k > 0 /\ k <= Last
    BY <1>3, <2>1, SelectedKeys
  <2>3. CASE i > cp.prefix
    <3>1. i > cp.prefix + 1 \/ (i = cp.prefix + 1 /\ k > 0)
      BY <1>2, <2>2, <2>3
    <3>2. k \in Later(cp.prefix + 1, 0) /\ k \in Later(cp.prefix, page'.next)
      BY <2>1, <2>3, <3>1 DEF Later
    <3> QED
      BY <1>5, <3>2
  <2>4. CASE i = cp.prefix /\ k > cp.token
    <3>1. k \in keys
      BY <1>8, <2>1, <2>4
    <3>2. CASE k <= end
      BY <1>6, <3>1, <3>2
    <3>3. CASE ~(k <= end)
      <4>1. page'.next = end /\ end \in keys
        BY <1>1, <2>2, <3>3
      <4>2. end \in Nat /\ end > 0 /\ k > end
        <5>1. end \in Keys
          BY <1>3, <4>1, Zenon
        <5>2. end \in Nat /\ end > 0
          BY <1>3, <5>1
        <5> QED
          BY <2>2, <3>3, <5>2
      <4>3. k \in Later(cp.prefix, end)
        BY <2>1, <2>4, <4>2 DEF Later
      <4> QED
        BY <1>5, <4>1, <4>2, <4>3
    <3> QED
      BY <3>2, <3>3
  <2> QED
    BY <2>1, <2>3, <2>4
<1> HIDE DEF keys, upto
<1>9. (Full /\ pc = "list" =>
        AllListed(cp.listed, LaterThanPage \cup {row.key : row \in page.rows}))'
  <2> SUFFICES ASSUME Full,
                      NEW k \in (Selected \ touched) \ (LaterThanPage' \cup {row.key : row \in page'.rows}),
                      object[k] # NoObject
               PROVE  \E i \in 1..cp.listed : inventory[i].key = k
    BY <1>4 DEF AllListed
  <2>1. k \notin Later(cp.prefix, cp.token)
    BY <1>8
  <2>2. Ahead(cp) = Later(cp.prefix, cp.token)
    BY <1>2 DEF Ahead
  <2>3. AllListed(cp.listed, Ahead(cp))
    BY <1>4 DEF CurrentInv
  <2> QED
    BY <2>1, <2>2, <2>3 DEF AllListed
<1>10. (Full /\ checkpoint # NoFile => AllListed(checkpoint.listed, Ahead(checkpoint)))'
  BY <1>4 DEF CurrentInv, AllListed, Ahead, Later
<1>11. \A n \in DOMAIN inventory' : Current(inventory[n])'
  BY <1>4 DEF CurrentInv, Current
<1> QED
  BY <1>4, <1>7, <1>9, <1>10, <1>11 DEF CurrentInv

LEMMA CurrentObject ==
  ASSUME Types, OrderInv, CurrentInv, NEW row \in page.rows, InventoryObject(row)
  PROVE  CurrentInv'
<1> DEFINE n == Len(inventory)
<1>1. PICK meta \in DigestNow(row.key) :
        inventory' = Append(inventory, [key |-> row.key, body |-> row.body, meta |-> meta])
  BY DEF InventoryObject
<1>2. /\ pc = "list" /\ pc' = "list" /\ page'.rows = page.rows \ {row} /\ page'.next = page.next
      /\ cp'.listed = cp.listed + 1 /\ cp'.prefix = cp.prefix /\ cp.listed = n
      /\ UNCHANGED <<object, touched, checkpoint>>
  BY DEF InventoryObject, source, OrderInv, Types, Progress
<1>3. row \in Listed /\ n \in Nat /\ meta \in Metadata
  BY <1>1, LenProperties DEF Types, DigestNow, Listed, Objects, Metadata
<1>4. [key |-> row.key, body |-> row.body, meta |-> meta] \in Entry
  BY <1>3 DEF Listed, Entry
<1>5. /\ Len(inventory') = n + 1 /\ DOMAIN inventory' = 1..(n + 1) /\ DOMAIN inventory = 1..n
      /\ \A i \in 1..n : inventory'[i] = inventory[i]
      /\ inventory'[n + 1] = [key |-> row.key, body |-> row.body, meta |-> meta]
  BY <1>1, <1>3, <1>4, AppendProperties, LenProperties DEF Types
<1> HIDE DEF n
<1>6. ASSUME NEW m \in DOMAIN inventory'
      PROVE  Current(inventory[m])'
  <2>1. m \in 1..n \/ m = n + 1
    BY <1>3, <1>5
  <2>2. CASE m \in 1..n
    BY <1>2, <1>5, <2>2 DEF CurrentInv, Current
  <2>3. CASE m = n + 1
    <3>1. Current(row)
      BY <1>2 DEF CurrentInv
    <3> QED
      BY <1>2, <1>5, <2>3, <3>1 DEF Current
  <2> QED
    BY <2>1, <2>2, <2>3
<1>7. \A r \in page'.rows : Current(r)'
  BY <1>2 DEF CurrentInv, Current
<1>8. (Full /\ checkpoint # NoFile => AllListed(checkpoint.listed, Ahead(checkpoint)))'
  <2> SUFFICES ASSUME Full, checkpoint # NoFile
               PROVE  AllListed(checkpoint.listed, Ahead(checkpoint))'
    BY <1>2
  <2>1. checkpoint.listed \in Nat /\ checkpoint.listed <= n
    BY <1>2 DEF OrderInv, Types, Progress
  <2>2. \A i \in 1..checkpoint.listed : inventory'[i] = inventory[i]
    BY <1>3, <1>5, <2>1
  <2>3. AllListed(checkpoint.listed, Ahead(checkpoint))
    BY DEF CurrentInv
  <2> QED
    BY <1>2, <2>2, <2>3 DEF AllListed, Ahead, Later
<1>9. LaterThanPage' = LaterThanPage
  BY <1>2 DEF LaterThanPage
<1>10. (Full => AllListed(cp.listed, LaterThanPage \cup {r.key : r \in page.rows}))'
  <2> SUFFICES ASSUME Full,
                      NEW k \in (Selected \ touched) \ (LaterThanPage \cup {r.key : r \in page'.rows}),
                      object[k] # NoObject
               PROVE  \E i \in 1..(n + 1) : inventory'[i].key = k
    BY <1>2, <1>9 DEF AllListed
  <2>1. CASE k = row.key
    BY <1>3, <1>5, <2>1
  <2>2. CASE k # row.key
    <3>1. k \notin {r.key : r \in page.rows}
      BY <1>2, <2>2
    <3>2. PICK i \in 1..n : inventory[i].key = k
      BY <1>2, <3>1 DEF CurrentInv, AllListed
    <3> QED
      BY <1>3, <1>5, <3>2
  <2> QED
    BY <2>1, <2>2
<1> QED
  BY <1>2, <1>6, <1>7, <1>8, <1>10 DEF CurrentInv

LEMMA CurrentEndPage ==
  ASSUME Types, OrderInv, CurrentInv, EndPage
  PROVE  CurrentInv'
<1> DEFINE complete == page.next = 0 /\ cp.prefix = Len(Prefixes)
<1>1. /\ pc = "list" /\ page.rows = {} /\ pc' \notin {"idle", "list"}
      /\ cp'.listed = cp.listed /\ cp'.token = page.next /\ cp'.complete = complete
      /\ cp'.prefix = IF page.next = 0 THEN cp.prefix + 1 ELSE cp.prefix
      /\ checkpoint' = cp' /\ UNCHANGED <<object, touched, inventory>>
  BY DEF EndPage, source, Goto, Types, Progress
<1>2. page.next = 0 => LaterThanPage = Later(cp.prefix + 1, 0)
  BY DEF LaterThanPage
<1>3. complete => LaterThanPage = {}
  <2> SUFFICES ASSUME complete, NEW k \in LaterThanPage PROVE FALSE
    OBVIOUS
  <2>1. PICK i \in DOMAIN Prefixes : i > cp.prefix + 1 \/ (i = cp.prefix + 1 /\ k > 0)
    BY <1>2 DEF Later
  <2>2. i \in Nat /\ i <= Len(Prefixes) /\ Len(Prefixes) \in Nat
    BY ParametersAssumption, LenProperties
  <2> QED
    BY <2>1, <2>2
<1> HIDE DEF complete
<1>4. Ahead(cp') = LaterThanPage
  BY <1>1, <1>2, <1>3 DEF Ahead, LaterThanPage
<1>5. Full => AllListed(cp.listed, LaterThanPage)
  <2>1. LaterThanPage \cup {row.key : row \in page.rows} = LaterThanPage
    BY <1>1
  <2> QED
    BY <1>1, <2>1 DEF CurrentInv
<1>6. Full => AllListed(cp.listed, Ahead(cp))'
  <2>1. Ahead(cp)' = LaterThanPage
    BY <1>4 DEF Ahead, Later
  <2> QED
    BY <1>1, <1>5, <2>1 DEF AllListed
<1>7. Full => AllListed(checkpoint.listed, Ahead(checkpoint))'
  BY <1>1, <1>6 DEF AllListed, Ahead
<1>8. \A n \in DOMAIN inventory' : Current(inventory[n])'
  BY <1>1 DEF CurrentInv, Current
<1> QED
  BY <1>1, <1>6, <1>7, <1>8 DEF CurrentInv

(* A step that leaves the inventory alone, and what the checkpoints cover. *)
LEMMA CurrentFrame ==
  ASSUME CurrentInv, pc \notin {"idle", "list"}, pc' # "list",
         UNCHANGED <<object, touched, inventory>>,
         cp'.listed = cp.listed, Ahead(cp') = Ahead(cp),
         checkpoint' \in {checkpoint, cp'}, checkpoint' = cp' => pc' # "idle"
  PROVE  CurrentInv'
<1>1. \A n \in DOMAIN inventory' : Current(inventory[n])'
  BY DEF CurrentInv, Current
<1>2. \A n, K : AllListed(n, K) => AllListed(n, K)'
  BY DEF AllListed
<1>3. /\ Ahead(cp)' = Ahead(cp)
      /\ checkpoint' = checkpoint => Ahead(checkpoint)' = Ahead(checkpoint)
  BY DEF Ahead, Later
<1>4. Full /\ pc' \notin {"idle", "list"} => AllListed(cp.listed, Ahead(cp))'
  BY <1>2, <1>3 DEF CurrentInv
<1>5. Full /\ checkpoint' # NoFile => AllListed(checkpoint.listed, Ahead(checkpoint))'
  <2>1. CASE checkpoint' = checkpoint
    BY <1>2, <1>3, <2>1 DEF CurrentInv
  <2>2. CASE checkpoint' = cp'
    BY <1>4, <2>2 DEF Ahead, AllListed
  <2> QED
    BY <2>1, <2>2
<1> QED
  BY <1>1, <1>4, <1>5 DEF CurrentInv

(* The process exits. *)
LEMMA CurrentExit ==
  ASSUME CurrentInv, Exit, UNCHANGED <<object, touched, inventory, checkpoint>>
  PROVE  CurrentInv'
<1>1. pc' = "idle"
  BY DEF Exit, Goto
<1> QED
  BY <1>1 DEF CurrentInv, Current, AllListed, Ahead, Later

(* Each step preserves it. *)
LEMMA CurrentStep ==
  ASSUME Types, OrderInv, PackInv, CurrentInv, [Next]_vars
  PROVE  CurrentInv'
<1> USE DEF source, disk, process, Goto
<1>1. ASSUME NEW k \in Keys, WriteObject(k) PROVE CurrentInv'
  BY <1>1, CurrentWrite
<1>2. CASE StartFresh
  BY <1>2, CurrentFresh
<1>3. CASE Resume
  BY <1>3, CurrentResume
<1>4. CASE ListPage
  BY <1>4, CurrentListPage
<1>5. ASSUME NEW row \in page.rows, InventoryObject(row) PROVE CurrentInv'
  BY <1>5, CurrentObject
<1>6. ASSUME NEW row \in page.rows, SkipOversized(row) PROVE CurrentInv'
  <2>1. /\ ~Full /\ pc = "list" /\ pc' = "list" /\ page'.rows \subseteq page.rows
        /\ UNCHANGED <<object, touched, inventory>>
    BY <1>6 DEF SkipOversized, Oversized, Types
  <2> QED
    BY <2>1 DEF CurrentInv, Current
<1>7. ASSUME NEW row \in page.rows, StopAtLimit(row) PROVE CurrentInv'
  <2>1. /\ ~Full /\ pc' = "pack" /\ UNCHANGED <<object, touched, inventory>>
    BY <1>7 DEF StopAtLimit, ObjectsReached, TotalReached
  <2> QED
    BY <2>1 DEF CurrentInv, Current
<1>8. CASE EndPage
  BY <1>8, CurrentEndPage
<1>9. CASE ReusePack
  BY <1>9, CurrentFrame DEF ReusePack, MorePacks
<1>10. CASE MaterializeData
  BY <1>10, CurrentFrame DEF MaterializeData
<1>11. CASE MaterializeIndex
  BY <1>11, CurrentFrame DEF MaterializeIndex
<1>12. CASE BeginPack
  <2>1. /\ pc \notin {"idle", "list"} /\ pc' = "fetch"
        /\ UNCHANGED <<object, touched, inventory, checkpoint, cp>>
    BY <1>12 DEF BeginPack, MorePacks
  <2> QED
    BY <2>1, CurrentFrame
<1>13. CASE FetchObject
  <2>1. /\ pc = "fetch" /\ pc' = "fetch"
        /\ UNCHANGED <<object, touched, inventory, checkpoint, cp>>
    BY <1>13 DEF FetchObject, Fetching
  <2> QED
    BY <2>1, CurrentFrame
<1>14. CASE ObjectChanged
  BY <1>14, CurrentExit DEF ObjectChanged
<1>15. CASE WriteData
  BY <1>15, CurrentFrame DEF WriteData
<1>16. CASE WriteIndex
  BY <1>16, CurrentFrame DEF WriteIndex
<1>17. CASE SavePack
  <2>1. /\ pc = "save" /\ pc' = "pack" /\ checkpoint' = cp'
        /\ UNCHANGED <<object, touched, inventory>>
    BY <1>17 DEF SavePack
  <2>2. /\ cp'.listed = cp.listed /\ cp'.prefix = cp.prefix /\ cp'.token = cp.token
        /\ cp'.complete = cp.complete
    BY <1>17 DEF SavePack, Types, Progress
  <2>3. Ahead(cp') = Ahead(cp)
    BY <2>2 DEF Ahead
  <2> QED
    BY <2>1, <2>2, <2>3, CurrentFrame
<1>18. CASE Finish
  BY <1>18, CurrentFrame DEF Finish
<1>19. CASE PullSucceeds
  <2>1. inventory' = <<>> /\ checkpoint' = NoFile /\ pc' = "idle"
    BY <1>19 DEF PullSucceeds, Exit
  <2>2. DOMAIN inventory' = {}
    BY <2>1
  <2> QED
    BY <2>1, <2>2 DEF CurrentInv
<1>20. CASE Stop
  BY <1>20, CurrentExit DEF Stop
<1>21. CASE UNCHANGED vars
  BY <1>21 DEF vars, CurrentInv, Current, AllListed, Ahead, Later, LaterThanPage
<1> QED
  BY <1>1, <1>2, <1>3, <1>4, <1>5, <1>6, <1>7, <1>8, <1>9, <1>10, <1>11, <1>12, <1>13,
     <1>14, <1>15, <1>16, <1>17, <1>18, <1>19, <1>20, <1>21 DEF Next, Attempt, Run

LEMMA CurrentInvariance == Spec => []CurrentInv
<1>1. Init => CurrentInv
  BY DEF Init, CurrentInv
<1>2. IInv /\ CurrentInv /\ [Next]_vars => CurrentInv'
  BY CurrentStep DEF IInv
<1> QED
  BY <1>1, <1>2, Inductive, PTL DEF Spec

(* Entry i of pack n is line b[n - 1] + i of the inventory.                *)
LEMMA PackedLine ==
  ASSUME Types, CutInv, NEW b \in [0..Len(cp.packs) -> Nat], CutAt(cp, b),
         NEW n \in 1..Len(cp.packs)
  PROVE  /\ n \in DOMAIN cp.packs /\ b[n - 1] \in Nat /\ b[n] \in Nat
         /\ b[n] <= Len(inventory)
         /\ DOMAIN cp.packs[n].data = 1..(b[n] - b[n - 1])
         /\ \A i \in 1..(b[n] - b[n - 1]) :
              cp.packs[n].data[i] = [key |-> inventory[b[n - 1] + i].key,
                                     body |-> inventory[b[n - 1] + i].body]
<1>1. Len(cp.packs) \in Nat /\ n \in DOMAIN cp.packs /\ cp.packs[n] \in Pack
  BY LenProperties, ElementOfSeq DEF Types, Progress
<1>2. n - 1 \in 0..Len(cp.packs) /\ n \in 0..Len(cp.packs)
  BY <1>1
<1>3. b[n - 1] \in Nat /\ b[n] \in Nat
  BY <1>2
<1>4. /\ b[n - 1] < Len(inventory) /\ b[n] = PackEnd(b[n - 1])
      /\ Made(cp.packs[n], PackAfter(b[n - 1]))
  BY DEF CutAt
<1>5. /\ Len(PackAfter(b[n - 1])) = b[n] - b[n - 1] /\ b[n] <= Len(inventory)
      /\ \A i \in 1..Len(PackAfter(b[n - 1])) : PackAfter(b[n - 1])[i] = inventory[b[n - 1] + i]
  BY <1>3, <1>4, PackLines, PackEnds
<1>6. DOMAIN cp.packs[n].data = 1..Len(cp.packs[n].data)
  BY <1>1, LenProperties DEF Pack
<1>7. Len(cp.packs[n].data) = b[n] - b[n - 1]
  BY <1>4, <1>5 DEF Made
<1>8. \A i \in 1..(b[n] - b[n - 1]) :
        cp.packs[n].data[i] = [key |-> PackAfter(b[n - 1])[i].key, body |-> PackAfter(b[n - 1])[i].body]
  BY <1>4, <1>7 DEF Made, Begun
<1> QED
  BY <1>1, <1>3, <1>5, <1>6, <1>7, <1>8

(* The packs hold the lines of the inventory, and nothing else. *)
LEMMA LinesPacked ==
  ASSUME Types, OrderInv, PackInv, CutInv, pc = "done"
  PROVE  /\ \A j \in 1..Len(inventory) : InDataset(inventory[j].key, inventory[j].body)
         /\ \A k, body : InDataset(k, body) =>
              \E j \in 1..Len(inventory) : inventory[j].key = k /\ inventory[j].body = body
<1> DEFINE m == Len(cp.packs)
<1>1. PICK b \in [0..m -> Nat] : CutAt(cp, b)
  BY DEF CutInv, CutOK
<1>2. m \in Nat /\ Len(inventory) \in Nat /\ DOMAIN cp.packs = 1..m
  BY LenProperties DEF Types, Progress
<1>3. b[0] = 0 /\ b[m] = Len(inventory)
  BY <1>1 DEF CutAt, CutInv, OrderInv
<1>4. ASSUME NEW n \in 1..m
      PROVE  /\ b[n - 1] \in Nat /\ b[n] \in Nat
             /\ b[n] <= Len(inventory)
             /\ DOMAIN cp.packs[n].data = 1..(b[n] - b[n - 1])
             /\ \A i \in 1..(b[n] - b[n - 1]) :
                  cp.packs[n].data[i] = [key |-> inventory[b[n - 1] + i].key,
                                         body |-> inventory[b[n - 1] + i].body]
  BY <1>1, PackedLine
<1> HIDE DEF m
<1>5. ASSUME NEW j \in 1..Len(inventory)
      PROVE  InDataset(inventory[j].key, inventory[j].body)
  <2> DEFINE S == {n \in 0..m : j <= b[n]}
  <2>1. S \subseteq Nat /\ m \in S
    BY <1>2, <1>3
  <2>2. PICK n \in S : \A l \in S : n <= l
    <3> HIDE DEF S
    <3> QED
      BY <2>1, LeastNumber
  <2>3. n \in 0..m /\ j <= b[n] /\ n # 0
    BY <1>3
  <2>4. n \in 1..m /\ n - 1 \in 0..m /\ ~(n <= n - 1)
    BY <1>2, <2>3
  <2>5. ~(j <= b[n - 1])
    <3>1. n - 1 \notin S
      <4> HIDE DEF S
      <4> QED
        BY <2>2, <2>4
    <3> QED
      BY <2>4, <3>1
  <2>6. b[n - 1] \in Nat /\ b[n] \in Nat
    BY <1>4, <2>4
  <2> DEFINE i == j - b[n - 1]
  <2>7. i \in 1..(b[n] - b[n - 1]) /\ b[n - 1] + i = j
    BY <2>3, <2>5, <2>6
  <2> HIDE DEF i, S
  <2>8. /\ i \in DOMAIN cp.packs[n].data
        /\ cp.packs[n].data[i] = [key |-> inventory[j].key, body |-> inventory[j].body]
    BY <1>4, <2>4, <2>7
  <2> QED
    BY <1>2, <2>4, <2>8 DEF InDataset
<1>6. ASSUME NEW k, NEW body, InDataset(k, body)
      PROVE  \E j \in 1..Len(inventory) : inventory[j].key = k /\ inventory[j].body = body
  <2>1. PICK n \in 1..m : \E i \in DOMAIN cp.packs[n].data :
                            cp.packs[n].data[i] = [key |-> k, body |-> body]
    BY <1>2, <1>6 DEF InDataset
  <2>2. PICK i \in 1..(b[n] - b[n - 1]) : cp.packs[n].data[i] = [key |-> k, body |-> body]
    BY <1>4, <2>1
  <2>3. b[n - 1] \in Nat /\ b[n] \in Nat /\ b[n] <= Len(inventory)
    BY <1>4
  <2>4. b[n - 1] + i \in 1..Len(inventory)
    BY <1>2, <2>3
  <2> DEFINE j == b[n - 1] + i
  <2>5. cp.packs[n].data[i] = [key |-> inventory[j].key, body |-> inventory[j].body]
    BY <1>4
  <2> HIDE DEF j
  <2>6. inventory[j].key = k /\ inventory[j].body = body
    BY <2>2, <2>5
  <2>7. j \in 1..Len(inventory)
    BY <2>4 DEF j
  <2> QED
    BY <2>6, <2>7
<1> QED
  BY <1>5, <1>6


(* Every selected object that nobody writes to while a full capture of the *)
(* bucket is underway, with all its interruptions, is in its packs with    *)
(* the body it has, and no other is.  Metadata and tags are not compared.  *)
THEOREM DatasetIsCurrent == Spec => []DatasetCurrent
<1>1. IInv /\ CutInv /\ CurrentInv => DatasetCurrent
  <2> SUFFICES ASSUME Types, OrderInv, PackInv, CutInv, CurrentInv, pc = "done", Full,
                      NEW k \in Selected \ touched, NEW b \in Bodies
               PROVE  InDataset(k, b) <=> object[k] # NoObject /\ object[k].body = b
    BY Zenon DEF IInv, DatasetCurrent
  <2>1. DOMAIN inventory = 1..Len(inventory) /\ cp.listed = Len(inventory)
    BY LenProperties DEF Types, OrderInv
  <2>2. ASSUME InDataset(k, b)
        PROVE  object[k] # NoObject /\ object[k].body = b
    <3>1. PICK j \in 1..Len(inventory) : inventory[j].key = k /\ inventory[j].body = b
      BY <2>2, LinesPacked
    <3>2. Current(inventory[j])
      BY <2>1 DEF CurrentInv
    <3> QED
      BY <3>1, <3>2 DEF Current
  <2>3. ASSUME object[k] # NoObject, object[k].body = b
        PROVE  InDataset(k, b)
    <3>1. Ahead(cp) = {} /\ AllListed(cp.listed, Ahead(cp))
      BY DEF OrderInv, CurrentInv, Ahead
    <3>2. PICK j \in 1..Len(inventory) : inventory[j].key = k
      BY <2>1, <2>3, <3>1 DEF AllListed
    <3>3. Current(inventory[j])
      BY <2>1 DEF CurrentInv
    <3>4. inventory[j].body = b
      BY <2>3, <3>2, <3>3 DEF Current
    <3> QED
      BY <3>2, <3>4, LinesPacked
  <2> QED
    BY <2>2, <2>3
<1> QED
  BY <1>1, Inductive, CutInvariance, CurrentInvariance, PTL

-----------------------------------------------------------------------------
(* What the invariants above leave out of TypeOK. *)
OthersTyped ==
  /\ ledger \in Seq([entries : Seq(Entry), pack : Pack])
  /\ findings \subseteq {"truncated", "untagged"}
  /\ touched \subseteq Keys
  /\ writes \in Nat /\ stops \in Nat

(* The units that a pull publishes are of the ledger's type. *)
LEMMA UnitsTyped ==
  ASSUME Types, OrderInv, PackInv, CutInv, pc # "idle"
  PROVE  Units \in Seq([entries : Seq(Entry), pack : Pack])
<1>1. Len(cp.packs) \in Nat /\ DOMAIN cp.packs = 1..Len(cp.packs)
      /\ \A n \in 1..Len(cp.packs) : cp.packs[n] \in Pack
  BY LenProperties, ElementOfSeq DEF Types, Progress
<1>2. \A n \in 1..Len(cp.packs) :
        [entries |-> PackAfter(Cut[n - 1]), pack |-> cp.packs[n]] = Units[n]
  BY <1>1 DEF Units
<1>3. \A n \in 1..Len(cp.packs) :
        [entries |-> PackAfter(Cut[n - 1]), pack |-> cp.packs[n]]
          \in [entries : Seq(Entry), pack : Pack]
  <2> SUFFICES ASSUME NEW n \in 1..Len(cp.packs)
               PROVE  PackAfter(Cut[n - 1]) \in Seq(Entry) /\ cp.packs[n] \in Pack
    OBVIOUS
  <2>1. Units[n].entries = PackAfter(Cut[n - 1])
    BY <1>1 DEF Units
  <2> QED
    BY <1>1, <2>1, UnitsMade
<1>4. Units \in [1..Len(cp.packs) -> [entries : Seq(Entry), pack : Pack]]
  BY <1>1, <1>3 DEF Units
<1> HIDE DEF Units
<1>5. \A S, f : f \in [1..Len(cp.packs) -> S] => f \in Seq(S)
  BY <1>1
<1> QED
  BY <1>4, <1>5, Zenon

LEMMA OthersStep ==
  ASSUME Types, OrderInv, PackInv, CutInv, OthersTyped, [Next]_vars
  PROVE  OthersTyped'
<1> USE DEF OthersTyped, source, disk, process, Exit
<1>1. ASSUME NEW k \in Keys, WriteObject(k) PROVE OthersTyped'
  BY <1>1 DEF WriteObject
<1>2. CASE Attempt
  BY <1>2 DEF Attempt, StartFresh, Resume
<1>3. CASE ListPage \/ EndPage
  BY <1>3 DEF ListPage, EndPage
<1>4. ASSUME NEW row \in page.rows,
             InventoryObject(row) \/ SkipOversized(row) \/ StopAtLimit(row)
      PROVE  OthersTyped'
  BY <1>4 DEF InventoryObject, SkipOversized, StopAtLimit
<1>5. CASE ReusePack \/ MaterializeData \/ MaterializeIndex \/ BeginPack
  BY <1>5 DEF ReusePack, MaterializeData, MaterializeIndex, BeginPack
<1>6. CASE FetchObject \/ ObjectChanged
  BY <1>6 DEF FetchObject, ObjectChanged
<1>7. CASE WriteData \/ WriteIndex \/ SavePack \/ Finish
  BY <1>7 DEF WriteData, WriteIndex, SavePack, Finish
<1>8. CASE PullSucceeds
  <2>1. ledger' \in {ledger, Units} /\ pc # "idle"
    BY <1>8 DEF PullSucceeds
  <2>2. ledger' \in Seq([entries : Seq(Entry), pack : Pack])
    BY <2>1, UnitsTyped
  <2>3. findings' = {} /\ UNCHANGED <<touched, writes, stops>>
    BY <1>8 DEF PullSucceeds
  <2> QED
    BY <2>2, <2>3
<1>9. CASE Stop
  BY <1>9 DEF Stop
<1>10. CASE UNCHANGED vars
  BY <1>10 DEF vars
<1> QED
  BY <1>1, <1>2, <1>3, <1>4, <1>5, <1>6, <1>7, <1>8, <1>9, <1>10 DEF Next, Run

(* Every variable keeps its type, the ledger's units and the files of the  *)
(* work directory among them.                                              *)
THEOREM TypesAreCorrect == Spec => []TypeOK
<1>1. Init => OthersTyped
  BY EmptySeq DEF Init, OthersTyped
<1>2. IInv /\ CutInv /\ OthersTyped /\ [Next]_vars => OthersTyped'
  BY OthersStep DEF IInv
<1>3. IInv /\ OthersTyped => TypeOK
  BY DEF IInv, Types, OthersTyped, TypeOK
<1> QED
  BY <1>1, <1>2, <1>3, Inductive, CutInvariance, PTL DEF Spec

=============================================================================
