----------------------------- MODULE S3Capture -----------------------------
(***************************************************************************)
(* The resumable bucket capture of internal/services/s3/data.go:           *)
(* captureObjectsReusable lists the bucket into inventory.ndjson, cuts the *)
(* inventory into packs, and takes each pack from the capture ledger, if   *)
(* its inventory entries have not changed, or downloads it.  Its progress  *)
(* is in checkpoint.json.  Other clients write to the bucket throughout.   *)
(*                                                                         *)
(* An object is a body, which determines its ETag and its size, and a      *)
(* meta, its user metadata and tags.  A digest is what it was taken of.    *)
(***************************************************************************)
EXTENDS Integers, Sequences, FiniteSets

CONSTANTS
  Last,      \* keys are 1..Last, in the order of a listing
  Bodies, Metas,
  Size,      \* of each body
  Prefixes,  \* the keys of each prefix, sorted and compacted
  Full,      \* mode: full; otherwise the three limits hold
  MaxObjects, MaxObjectBytes, MaxTotalBytes,
  PackObjects, PackBytes,  \* s3PackObjects, s3PackBytes
  MaxWrites, MaxStops,  \* bounds: writes to the bucket, interruptions
  NoFile, NoObject, NoMeta

Keys == 1..Last

ASSUME ParametersAssumption ==
  /\ Last \in Nat
  /\ Size \in [Bodies -> Nat]
  /\ Prefixes \in Seq(SUBSET Keys) /\ Prefixes # <<>>
  /\ \A i, j \in DOMAIN Prefixes : i < j => \A k \in Prefixes[i], l \in Prefixes[j] : k < l
  /\ Full \in BOOLEAN
  /\ MaxObjects \in Nat \ {0} /\ MaxObjectBytes \in Nat \ {0} /\ MaxTotalBytes \in Nat \ {0}
  /\ PackObjects \in Nat \ {0} /\ PackBytes \in Nat \ {0}
  /\ MaxWrites \in Nat /\ MaxStops \in Nat

Objects  == [body : Bodies, meta : Metas]
Listed   == [key : Keys, body : Bodies]
Metadata == Metas \cup {NoMeta}
Entry    == [key : Keys, body : Bodies, meta : Metadata]
Index    == [key : Keys, meta : Metadata]
Pack     == [data : Seq(Listed), index : Seq(Index)]

(* s3Checkpoint.  Prefixes count from 1; token 0 is no token; listed       *)
(* stands for InventoryBytes and Records, which grow together, packed for  *)
(* ProcessedOffset and ProcessedRecords, bytes for SourceBytes.            *)
Progress == [prefix : Nat, token : Keys \cup {0}, listed : Nat, bytes : Nat,
             complete : BOOLEAN, packed : Nat, packs : Seq(Pack)]

ASSUME MarkersAssumption ==
  /\ NoObject \notin Objects
  /\ NoMeta \notin Metas
  /\ NoFile \notin Progress \cup Seq(Listed) \cup Seq(Index)

VARIABLES
  object,      \* the bucket
  inventory,   \* inventory.ndjson
  checkpoint,  \* checkpoint.json, or NoFile
  file,        \* file[n]: pack-n.tar.gz and pack-n.index.ndjson.gz
  ledger,      \* the bucket's units in the capture ledger
  pc,
  cp,          \* the process's copy of the checkpoint
  page,        \* what is left of the ListObjectsV2 response
  pack,        \* the pack being made
  findings,    \* the process's snapshot.Findings
  touched,     \* history: keys written since the capture began
  writes, stops

disk    == <<inventory, checkpoint, file>>
process == <<pc, cp, page, pack, findings>>
source  == <<object, touched, writes>>
vars    == <<source, disk, ledger, process, stops>>

NoPack  == [data |-> <<>>, index |-> <<>>]
NoFiles == [data |-> NoFile, index |-> NoFile]
NoPage  == [rows |-> {}, next |-> 0]

(* newS3Checkpoint. *)
Fresh == [prefix |-> 1, token |-> 0, listed |-> 0, bytes |-> 0,
          complete |-> FALSE, packed |-> 0, packs |-> <<>>]

Init ==
  /\ object \in [Keys -> Objects \cup {NoObject}]
  /\ inventory = <<>>
  /\ checkpoint = NoFile
  /\ file = [n \in Keys |-> NoFiles]
  /\ ledger = <<>>
  /\ pc = "idle"
  /\ cp = Fresh
  /\ page = NoPage
  /\ pack = NoPack
  /\ findings = {}
  /\ touched = {}
  /\ writes = 0 /\ stops = 0

Goto(l) == pc' = l

Exit == /\ Goto("idle")
        /\ cp' = Fresh
        /\ page' = NoPage
        /\ pack' = NoPack
        /\ findings' = {}

-----------------------------------------------------------------------------
(* Another client puts, replaces, retags or deletes an object. *)
WriteObject(k) ==
  /\ writes < MaxWrites
  /\ \E o \in Objects \cup {NoObject} :
        /\ o # object[k]
        /\ object' = [object EXCEPT ![k] = o]
  /\ touched' = touched \cup {k}
  /\ writes' = writes + 1
  /\ UNCHANGED <<disk, ledger, process, stops>>

(* loadS3Checkpoint finds no checkpoint: the inventory is truncated.       *)
StartFresh ==
  /\ pc = "idle"
  /\ checkpoint = NoFile
  /\ inventory' = <<>>
  /\ touched' = {}
  /\ cp' = Fresh
  /\ Goto("inventory")
  /\ UNCHANGED <<object, writes, checkpoint, file, ledger, page, pack, findings, stops>>

(* Otherwise every pack it names must be there with its checksums, ...     *)
Intact(c) == \A n \in DOMAIN c.packs : file[n] = c.packs[n]

(* ... and an unfinished inventory loses the lines of its last page.       *)
Resume ==
  /\ pc = "idle"
  /\ checkpoint # NoFile
  /\ Intact(checkpoint)
  /\ cp' = checkpoint
  /\ IF checkpoint.complete
       THEN Goto("pack") /\ UNCHANGED inventory
       ELSE Goto("inventory") /\ inventory' = SubSeq(inventory, 1, checkpoint.listed)
  /\ UNCHANGED <<source, checkpoint, file, ledger, page, pack, findings, stops>>

-----------------------------------------------------------------------------
(* buildInventory: one ListObjectsV2 response, truncated after any key.    *)
ListPage ==
  /\ pc = "inventory"
  /\ LET keys == {k \in Prefixes[cp.prefix] : k > cp.token /\ object[k] # NoObject}
         upto(end) == {[key |-> k, body |-> object[k].body] : k \in {k \in keys : k <= end}}
     IN page' \in {[rows |-> upto(k), next |-> k] : k \in keys}
                    \cup {[rows |-> upto(Last), next |-> 0]}
  /\ Goto("list")
  /\ UNCHANGED <<source, disk, ledger, cp, pack, findings, stops>>

NextRow(row) == row \in page.rows /\ \A r \in page.rows : row.key <= r.key

(* Mutant: the total is checked before the object is added to it. *)
TotalReachedBefore(row) == ~Full /\ cp.bytes > MaxTotalBytes

(* The checks of one listed object, in the code's order. *)
ObjectsReached    == ~Full /\ cp.listed >= MaxObjects
Oversized(row)    == ~Full /\ Size[row.body] > MaxObjectBytes
TotalReached(row) == ~Full /\ cp.bytes + Size[row.body] > MaxTotalBytes

(* objectMetadataDigest is empty if HeadObject or GetObjectTagging fails;  *)
(* otherwise it is of the object that is there now.                        *)
DigestNow(k) == IF object[k] = NoObject THEN {NoMeta} ELSE {NoMeta, object[k].meta}

InventoryObject(row) ==
  /\ pc = "list"
  /\ NextRow(row)
  /\ ~ObjectsReached /\ ~Oversized(row) /\ ~TotalReached(row)
  /\ \E meta \in DigestNow(row.key) :
       inventory' = Append(inventory, [key |-> row.key, body |-> row.body, meta |-> meta])
  /\ cp' = [cp EXCEPT !.listed = @ + 1, !.bytes = @ + Size[row.body]]
  /\ page' = [page EXCEPT !.rows = @ \ {row}]
  /\ UNCHANGED <<source, checkpoint, file, ledger, pc, pack, findings, stops>>

SkipOversized(row) ==
  /\ pc = "list"
  /\ NextRow(row)
  /\ ~ObjectsReached /\ Oversized(row)
  /\ findings' = findings \cup {"truncated"}
  /\ page' = [page EXCEPT !.rows = @ \ {row}]
  /\ UNCHANGED <<source, disk, ledger, pc, cp, pack, stops>>

(* The inventory ends here, and is complete. *)
StopAtLimit(row) ==
  /\ pc = "list"
  /\ NextRow(row)
  /\ ObjectsReached \/ (~Oversized(row) /\ TotalReached(row))
  /\ findings' = findings \cup {"truncated"}
  /\ cp' = [cp EXCEPT !.complete = TRUE]
  /\ checkpoint' = cp'
  /\ page' = NoPage
  /\ Goto("pack")
  /\ UNCHANGED <<source, inventory, file, ledger, pack, stops>>

(* The page's lines are synced before the checkpoint that counts them.     *)
EndPage ==
  /\ pc = "list"
  /\ page.rows = {}
  /\ cp' = [cp EXCEPT !.token = page.next,
                      !.prefix = IF page.next = 0 THEN @ + 1 ELSE @,
                      !.complete = page.next = 0 /\ cp.prefix = Len(Prefixes)]
  /\ checkpoint' = cp'
  /\ page' = NoPage
  /\ Goto(IF cp'.complete THEN "pack" ELSE "inventory")
  /\ UNCHANGED <<source, inventory, file, ledger, pack, findings, stops>>

-----------------------------------------------------------------------------
(* inventoryPackReader: a pack is full at PackObjects entries, or before   *)
(* the entry that would take it, unless it is empty, over PackBytes.       *)
BytesIn(from, to) == UNION {{n} \X (1..Size[inventory[n].body]) : n \in (from + 1)..to}
BytesOf(from, to) == Cardinality(BytesIn(from, to))

InPack(from) == {n \in (from + 1)..Len(inventory) :
                   /\ n <= from + PackObjects
                   /\ n = from + 1 \/ BytesOf(from, n) <= PackBytes}

PackEnd(from) == from + Cardinality(InPack(from))

PackAfter(from) == SubSeq(inventory, from + 1, PackEnd(from))

Number == Len(cp.packs) + 1

(* s3PackFreshness: packs are compared by their entries, and only if the   *)
(* metadata of every entry was read.                                       *)
Proven(entries) == \A n \in DOMAIN entries : entries[n].meta # NoMeta

(* Mutant: the pack's keys are compared, not their versions. *)
FreshByKeys ==
  LET keys(entries) == [n \in DOMAIN entries |-> entries[n].key]
  IN Number \in DOMAIN ledger /\ keys(ledger[Number].entries) = keys(PackAfter(cp.packed))

FreshInLedger == /\ Number \in DOMAIN ledger
                 /\ ledger[Number].entries = PackAfter(cp.packed)
                 /\ Proven(ledger[Number].entries)

MorePacks == pc = "pack" /\ cp.packed < cp.listed

ReusePack ==
  /\ MorePacks
  /\ FreshInLedger
  /\ pack' = ledger[Number].pack
  /\ Goto("reuse")
  /\ UNCHANGED <<source, disk, ledger, cp, page, findings, stops>>

(* Materialize creates a missing file, or checks the one that is there.    *)
MaterializeData ==
  /\ pc = "reuse"
  /\ file[Number].data = NoFile
  /\ file' = [file EXCEPT ![Number].data = pack.data]
  /\ UNCHANGED <<source, inventory, checkpoint, ledger, process, stops>>

MaterializeIndex ==
  /\ pc = "reuse"
  /\ file[Number].data = pack.data
  /\ file[Number].index \in {NoFile, pack.index}
  /\ file' = [file EXCEPT ![Number].index = pack.index]
  /\ Goto("save")
  /\ UNCHANGED <<source, inventory, checkpoint, ledger, cp, page, pack, findings, stops>>

(* capturePack, for a pack not in the ledger or not to be had from there,  *)
(* removes the files of an earlier attempt first.                          *)
BeginPack ==
  /\ (MorePacks /\ ~FreshInLedger) \/ pc = "reuse"
  /\ file' = [file EXCEPT ![Number] = NoFiles]
  /\ pack' = NoPack
  /\ Goto("fetch")
  /\ UNCHANGED <<source, inventory, checkpoint, ledger, cp, page, findings, stops>>

Fetching == pc = "fetch" /\ Len(pack.data) < Len(PackAfter(cp.packed))
NextEntry == PackAfter(cp.packed)[Len(pack.data) + 1]
Unchanged(e) == object[e.key] # NoObject /\ object[e.key].body = e.body

(* Mutant: GetObject without IfMatch. *)
FetchAnyVersion ==
  /\ Fetching
  /\ object[NextEntry.key] # NoObject
  /\ \E meta \in DigestNow(NextEntry.key) :
       /\ pack' = [data |-> Append(pack.data, [key |-> NextEntry.key,
                                                body |-> object[NextEntry.key].body]),
                   index |-> Append(pack.index, [key |-> NextEntry.key, meta |-> meta])]
       /\ findings' = IF meta = NoMeta THEN findings \cup {"untagged"} ELSE findings
  /\ UNCHANGED <<source, disk, ledger, pc, cp, page, stops>>

(* Mutant: no object without its tags. *)
FetchRequiresTags ==
  /\ Fetching
  /\ Unchanged(NextEntry)
  /\ \E meta \in DigestNow(NextEntry.key) :
       IF meta = NoMeta THEN Exit
       ELSE /\ pack' = [data |-> Append(pack.data, [key |-> NextEntry.key, body |-> NextEntry.body]),
                        index |-> Append(pack.index, [key |-> NextEntry.key, meta |-> meta])]
            /\ UNCHANGED <<pc, cp, page, findings>>
  /\ UNCHANGED <<source, disk, ledger, stops>>

(* GetObject with IfMatch, then GetObjectTagging, which may fail.          *)
FetchObject ==
  /\ Fetching
  /\ Unchanged(NextEntry)
  /\ \E meta \in DigestNow(NextEntry.key) :
       /\ pack' = [data |-> Append(pack.data, [key |-> NextEntry.key, body |-> NextEntry.body]),
                   index |-> Append(pack.index, [key |-> NextEntry.key, meta |-> meta])]
       /\ findings' = IF meta = NoMeta THEN findings \cup {"untagged"} ELSE findings
  /\ UNCHANGED <<source, disk, ledger, pc, cp, page, stops>>

(* GetObject answers 412 or 404, and the capture fails. *)
ObjectChanged ==
  /\ Fetching
  /\ ~Unchanged(NextEntry)
  /\ Exit
  /\ UNCHANGED <<source, disk, ledger, stops>>

(* Mutant: the checkpoint names the pack before its files are written. *)
WriteDataSaved ==
  /\ pc = "fetch"
  /\ ~Fetching
  /\ checkpoint' = [cp EXCEPT !.packs = Append(@, pack), !.packed = PackEnd(@)]
  /\ file' = [file EXCEPT ![Number].data = pack.data]
  /\ Goto("index")
  /\ UNCHANGED <<source, inventory, ledger, cp, page, pack, findings, stops>>

(* writeS3Artifact: a temporary file, renamed; the data before the index.  *)
WriteData ==
  /\ pc = "fetch"
  /\ ~Fetching
  /\ file' = [file EXCEPT ![Number].data = pack.data]
  /\ Goto("index")
  /\ UNCHANGED <<source, inventory, checkpoint, ledger, cp, page, pack, findings, stops>>

WriteIndex ==
  /\ pc = "index"
  /\ file' = [file EXCEPT ![Number].index = pack.index]
  /\ Goto("save")
  /\ UNCHANGED <<source, inventory, checkpoint, ledger, cp, page, pack, findings, stops>>

SavePack ==
  /\ pc = "save"
  /\ cp' = [cp EXCEPT !.packs = Append(@, pack), !.packed = PackEnd(@)]
  /\ checkpoint' = cp'
  /\ pack' = NoPack
  /\ Goto("pack")
  /\ UNCHANGED <<source, inventory, file, ledger, page, findings, stops>>

Finish ==
  /\ pc = "pack"
  /\ ~MorePacks
  /\ Goto("done")
  /\ UNCHANGED <<source, disk, ledger, cp, page, pack, findings, stops>>

-----------------------------------------------------------------------------
(* scanS3InventoryPacks cuts the inventory again for the packs of earlier  *)
(* attempts; the units are what the ledger keeps of this capture.          *)
Cut[n \in 0..Last] == IF n = 0 THEN 0 ELSE PackEnd(Cut[n - 1])

Units == [n \in DOMAIN cp.packs |-> [entries |-> PackAfter(Cut[n - 1]), pack |-> cp.packs[n]]]

(* The pull installs its bundle, publishes its ledger generation, which    *)
(* may fail, and removes the work directory.                               *)
PullSucceeds ==
  /\ pc = "done"
  /\ ledger' \in {ledger, Units}
  /\ inventory' = <<>>
  /\ checkpoint' = NoFile
  /\ file' = [n \in Keys |-> NoFiles]
  /\ Exit
  /\ UNCHANGED <<source, stops>>

(* A crash, a cancelled context, an error, or, once the bucket is done,    *)
(* the failure of the pull for another resource.                           *)
Stop ==
  /\ pc # "idle"
  /\ stops < MaxStops
  /\ stops' = stops + 1
  /\ Exit
  /\ UNCHANGED <<source, disk, ledger>>

-----------------------------------------------------------------------------
Attempt == StartFresh \/ Resume

Run == \/ ListPage \/ EndPage
       \/ \E row \in page.rows : InventoryObject(row) \/ SkipOversized(row) \/ StopAtLimit(row)
       \/ ReusePack \/ MaterializeData \/ MaterializeIndex
       \/ BeginPack \/ FetchObject \/ ObjectChanged
       \/ WriteData \/ WriteIndex \/ SavePack
       \/ Finish \/ PullSucceeds

Next == Attempt \/ Run \/ Stop \/ \E k \in Keys : WriteObject(k)

Spec == Init /\ [][Next]_vars

(* A running process runs on, and a failed pull is tried again. *)
FairSpec == Spec /\ WF_vars(Run) /\ WF_vars(Attempt)

-----------------------------------------------------------------------------
(* Types of the variables. *)
TypeOK ==
  /\ object \in [Keys -> Objects \cup {NoObject}]
  /\ inventory \in Seq(Entry)
  /\ checkpoint \in Progress \cup {NoFile}
  /\ file \in [Keys -> [data : Seq(Listed) \cup {NoFile}, index : Seq(Index) \cup {NoFile}]]
  /\ ledger \in Seq([entries : Seq(Entry), pack : Pack])
  /\ pc \in {"idle", "inventory", "list", "pack", "reuse", "fetch", "index", "save", "done"}
  /\ cp \in Progress
  /\ page.rows \subseteq Listed /\ page.next \in Keys \cup {0}
  /\ pack \in Pack
  /\ findings \subseteq {"truncated", "untagged"}
  /\ touched \subseteq Keys
  /\ writes \in Nat /\ stops \in Nat

(* After a crash at any instant the packs that the checkpoint names are on *)
(* disk as it recorded them: no resume is refused as corrupt.              *)
CheckpointSound == checkpoint # NoFile => Intact(checkpoint)

(* However often it was interrupted, an inventory has each key once, in    *)
(* order.                                                                  *)
InventoryOrdered ==
  \A m, n \in DOMAIN inventory : m < n => inventory[m].key < inventory[n].key

(* A key of the dataset, and its body. *)
InDataset(k, body) ==
  \E n \in DOMAIN cp.packs : \E i \in DOMAIN cp.packs[n].data :
    cp.packs[n].data[i] = [key |-> k, body |-> body]

Selected == UNION {Prefixes[i] : i \in DOMAIN Prefixes}

(* The dataset of a full capture has exactly the selected objects, with    *)
(* their bodies, among those that nobody wrote to while the capture, with  *)
(* all its interruptions, was underway: downloaded or reused.  Of metadata *)
(* and tags it says nothing: reused packs may lack tags (data.go:743-747). *)
DatasetCurrent ==
  pc = "done" /\ Full =>
    \A k \in Selected \ touched, b \in Bodies :
      InDataset(k, b) <=> object[k] # NoObject /\ object[k].body = b

(* No version of an object enters the dataset but the inventoried one, and *)
(* each pack has the entries the ledger will compare it by, also after the *)
(* inventory was cut a second time.                                        *)
PacksMatchInventory ==
  pc = "done" =>
    /\ cp.packed = Len(inventory)
    /\ \A n \in DOMAIN cp.packs :
         LET entries == Units[n].entries
         IN /\ cp.packs[n].data = [i \in DOMAIN entries |-> [key |-> entries[i].key,
                                                             body |-> entries[i].body]]
            /\ DOMAIN cp.packs[n].index = DOMAIN entries

(* The limits of a bounded capture bind all its attempts together. *)
LimitsHeld ==
  ~Full =>
    /\ Len(inventory) <= MaxObjects
    /\ BytesOf(0, Len(inventory)) <= MaxTotalBytes
    /\ \A n \in DOMAIN inventory : Size[inventory[n].body] <= MaxObjectBytes

(* Once interruptions and writes cease, a capture whose inventory is not   *)
(* stale completes.                                                        *)
Stale == \E n \in DOMAIN inventory : ~Unchanged(inventory[n])
Completes == pc = "inventory" ~> pc = "done" \/ Stale

(* Whatever a bounded capture left out is reported by                      *)
(* S3_DATA_LIMIT_REACHED (validation.go:14), on which admission decides.   *)
TruncationReported ==
  pc = "done" /\ "truncated" \notin findings =>
    \A k \in Selected \ touched : object[k] # NoObject => InDataset(k, object[k].body)
=============================================================================
