--------------------------- MODULE DynamoCapture ---------------------------
(***************************************************************************)
(* The resumable table capture of internal/services/dynamodb/data.go:      *)
(* captureData scans page by page, keeps each page as a sorted run file,   *)
(* records its progress in checkpoint.json, merges the runs and splits the *)
(* result into the dataset's parts.  The checkpoint directory outlives the *)
(* process until a whole pull succeeds, so a second process may find any   *)
(* prefix of that work.  The source table changes under the scan.          *)
(*                                                                         *)
(* An item is its position in the table's scan order.  A file is the bag   *)
(* of its rows; a checksum is the content it was taken of.                 *)
(***************************************************************************)
EXTENDS Integers, Sequences, FiniteSets

CONSTANTS
  Last,      \* the number of positions in the scan order
  Modes,     \* of the modes below, those to explore
  MaxItems, MaxPages,   \* limits of a bounded capture
  Limit,     \* size of a cohort
  Rank,      \* the cohort's order of the positions, from the ranker's HMAC
  FanIn,     \* mergeFanIn, runs merged at once
  MaxStops,  \* bound: interruptions of one behaviour
  NoFile, Torn

Positions == 1..Last

ASSUME ParametersAssumption ==
  /\ Last \in Nat
  /\ Modes \subseteq {"full", "bounded", "cohort"}
  /\ MaxItems \in Nat \ {0} /\ MaxPages \in Nat \ {0} /\ Limit \in Nat \ {0}
  /\ Rank \in [Positions -> Nat]
  /\ FanIn \in Nat \ {0, 1}
  /\ MaxStops \in Nat

ASSUME MarkersAssumption ==
  /\ NoFile # Torn
  /\ NoFile \notin [Positions -> Nat] /\ Torn \notin [Positions -> Nat]

VARIABLES
  mode, governed,  \* the capture options, part of every checkpoint's identity
  table,           \* the positions that hold an item now
  moved,           \* history: positions written since the capture began
  disk,            \* run files: <<0, n>> is page-n.run, <<k, n>> a file of merge pass k
  checkpoint,      \* checkpoint.json (and the sealed state it names), or NoFile
  parts,           \* the dataset's directory of part files
  pc,
  cp,              \* the process's copy of the checkpoint
  page,            \* the Scan response being kept
  inputs, outputs, pass,  \* mergeRuns' runs, next and pass
  refused,         \* the last attempt ended by rejecting files it found
  halfRemoved,     \* history: a removal of the work directory was cut short
  stops

options == <<mode, governed>>
source  == <<table, moved>>
files   == <<disk, checkpoint, parts>>
process == <<pc, cp, page, inputs, outputs, pass>>
history == <<refused, halfRemoved, stops>>
vars    == <<options, source, files, process, history>>

(* Scans advance at every page but a last, empty one; each merge pass at   *)
(* least halves the runs.                                                  *)
Files == (0..Last) \X (1..(Last + 1))

Rows(S) == [p \in Positions |-> IF p \in S THEN 1 ELSE 0]

RunOf(n) == <<0, n>>

(* Keys are positions; 0 is the absent key, before the first and after the *)
(* last page.                                                              *)
Fresh == [key |-> 0, complete |-> FALSE, runs |-> <<>>, items |-> 0,
          pages |-> 0, truncated |-> FALSE, selection |-> {}]

NoPage == [rows |-> {}, next |-> 0]

(* CohortSelection: of all positions offered, the Limit lowest in rank. *)
Best(S) == {p \in S : Cardinality({q \in S : Rank[q] < Rank[p]}) < Limit}

Init ==
  /\ mode \in Modes
  /\ governed \in BOOLEAN
  /\ mode = "cohort" => governed
  /\ table \in SUBSET Positions
  /\ moved = {}
  /\ disk = [f \in Files |-> NoFile]
  /\ checkpoint = NoFile
  /\ parts = NoFile
  /\ pc = "idle"
  /\ cp = Fresh
  /\ page = NoPage
  /\ inputs = <<>> /\ outputs = <<>> /\ pass = 0
  /\ refused = FALSE
  /\ halfRemoved = FALSE
  /\ stops = 0

(* The process is gone, and its variables with it. *)
Exit == /\ pc' = "idle"
        /\ cp' = Fresh
        /\ page' = NoPage
        /\ inputs' = <<>> /\ outputs' = <<>> /\ pass' = 0

-----------------------------------------------------------------------------
(* loadCheckpoint: a fresh capture without one, ...                        *)
StartFresh ==
  /\ pc = "idle"
  /\ checkpoint = NoFile
  /\ pc' = "scan"
  /\ cp' = Fresh
  /\ moved' = {}
  /\ UNCHANGED <<options, table, files, page, inputs, outputs, pass, history>>

(* ... and otherwise every run it names must be there with its checksum.   *)
Intact(c) == \A n \in 1..Len(c.runs) : disk[RunOf(n)] = c.runs[n]

(* The sealed state of a governed capture is complete only without a key,  *)
(* so that of a bounded capture that its limits ended is turned away.      *)
ValidState(c) == governed /\ c.complete => c.key = 0

Acceptable(c) == Intact(c) /\ ValidState(c)

(* Mutant: the cohort's selection is not restored. *)
ResumeWithoutSelection ==
  /\ pc = "idle"
  /\ checkpoint # NoFile
  /\ Acceptable(checkpoint)
  /\ pc' = "scan"
  /\ cp' = [checkpoint EXCEPT !.selection = {}]
  /\ UNCHANGED <<options, source, files, page, inputs, outputs, pass, history>>

(* Mutant: a scan that was complete is not taken up again. *)
ResumeIncomplete ==
  /\ pc = "idle"
  /\ checkpoint # NoFile /\ ~checkpoint.complete
  /\ Acceptable(checkpoint)
  /\ pc' = "scan"
  /\ cp' = checkpoint
  /\ UNCHANGED <<options, source, files, page, inputs, outputs, pass, history>>

Resume ==
  /\ pc = "idle"
  /\ checkpoint # NoFile
  /\ Acceptable(checkpoint)
  /\ pc' = "scan"
  /\ cp' = checkpoint
  /\ UNCHANGED <<options, source, files, page, inputs, outputs, pass, history>>

RejectCheckpoint ==
  /\ pc = "idle"
  /\ checkpoint # NoFile
  /\ ~Acceptable(checkpoint)
  /\ refused' = TRUE
  /\ UNCHANGED <<options, source, files, process, halfRemoved, stops>>

-----------------------------------------------------------------------------
(* The loop condition: the limits stop only a bounded capture. *)
Scanning ==
  /\ ~cp.complete
  /\ mode = "bounded" => cp.pages < MaxPages /\ cp.items < MaxItems

(* Another client writes to the source table.  When between two Scan calls *)
(* it does so makes no difference.                                         *)
WriteItem(p) ==
  /\ pc = "scan"
  /\ Scanning
  /\ table' = IF p \in table THEN table \ {p} ELSE table \cup {p}
  /\ moved' = moved \cup {p}
  /\ UNCHANGED <<options, files, process, history>>

(* Mutant: the whole limit is asked for at every page. *)
ScanPageUnlimited ==
  /\ pc = "scan"
  /\ Scanning
  /\ \E end \in cp.key..Last, more \in BOOLEAN :
       LET rows == table \cap ((cp.key + 1)..end)
       IN /\ IF more THEN end > cp.key ELSE end = Last
          /\ page' = [rows |-> rows, next |-> IF more THEN end ELSE 0]
  /\ disk' = IF mode = "cohort" THEN disk
             ELSE [disk EXCEPT ![RunOf(cp.pages + 1)] = Torn]
  /\ pc' = "keep"
  /\ UNCHANGED <<options, source, checkpoint, parts, cp, inputs, outputs, pass, history>>

(* Mutant: the run is named after the page before it. *)
ScanPageReusesName ==
  /\ pc = "scan"
  /\ Scanning
  /\ \E end \in (cp.key + 1)..Last :
       page' = [rows |-> table \cap ((cp.key + 1)..end), next |-> end]
  /\ disk' = [disk EXCEPT ![RunOf(IF cp.pages = 0 THEN 1 ELSE cp.pages)] = Torn]
  /\ pc' = "keep"
  /\ UNCHANGED <<options, source, checkpoint, parts, cp, inputs, outputs, pass, history>>

(* client.Scan from the last key.  A bounded capture asks for at most the  *)
(* items it still wants.  The response is kept in the page's run file,     *)
(* which is truncated first.                                               *)
ScanPage ==
  /\ pc = "scan"
  /\ Scanning
  /\ \E end \in cp.key..Last, more \in BOOLEAN :
       LET rows == table \cap ((cp.key + 1)..end)
       IN /\ IF more THEN end > cp.key ELSE end = Last
          /\ mode = "bounded" => Cardinality(rows) <= MaxItems - cp.items
          /\ page' = [rows |-> rows, next |-> IF more THEN end ELSE 0]
  /\ disk' = IF mode = "cohort" THEN disk
             ELSE [disk EXCEPT ![RunOf(cp.pages + 1)] = Torn]
  /\ pc' = "keep"
  /\ UNCHANGED <<options, source, checkpoint, parts, cp, inputs, outputs, pass, history>>

(* Mutant: only the page limit marks the result as truncated. *)
AdvancedSilently ==
  LET items == cp.items + Cardinality(page.rows)
      truncated == mode = "bounded" /\ page.next # 0 /\ cp.pages + 1 = MaxPages
  IN [cp EXCEPT !.key = page.next, !.complete = page.next = 0 \/ truncated,
                !.runs = Append(cp.runs, Rows(page.rows)),
                !.items = items, !.pages = cp.pages + 1, !.truncated = truncated]

(* The page after it was kept, and the counters that go with it. *)
Advanced ==
  LET items == cp.items + Cardinality(page.rows)
      pages == cp.pages + 1
      truncated == /\ mode = "bounded"
                   /\ page.next # 0
                   /\ pages = MaxPages \/ items = MaxItems
  IN [key |-> page.next, complete |-> page.next = 0 \/ truncated,
      runs |-> IF mode = "cohort" THEN cp.runs ELSE Append(cp.runs, Rows(page.rows)),
      items |-> items, pages |-> pages, truncated |-> truncated,
      selection |-> IF mode = "cohort" THEN Best(cp.selection \cup page.rows) ELSE {}]

(* The run is complete; a governed capture saves a checkpoint only after   *)
(* the first page, at intervals and at the end.                            *)
KeepPage ==
  /\ pc = "keep"
  /\ disk' = IF mode = "cohort" THEN disk
             ELSE [disk EXCEPT ![RunOf(cp.pages + 1)] = Rows(page.rows)]
  /\ cp' = Advanced
  /\ page' = NoPage
  /\ pc' \in IF governed /\ Advanced.pages > 1 /\ ~Advanced.complete
               THEN {"save", "scan"} ELSE {"save"}
  /\ UNCHANGED <<options, source, checkpoint, parts, inputs, outputs, pass, history>>

(* storage.WriteFileSync: temporary file, rename. *)
SaveCheckpoint ==
  /\ pc = "save"
  /\ checkpoint' = cp
  /\ pc' = "scan"
  /\ UNCHANGED <<options, source, disk, parts, cp, page, inputs, outputs, pass, history>>

-----------------------------------------------------------------------------
(* The scan is over: the runs go to mergeRuns. *)
BeginMerge ==
  /\ pc = "scan"
  /\ ~Scanning
  /\ mode # "cohort"
  /\ inputs' = [n \in 1..Len(cp.runs) |-> RunOf(n)]
  /\ outputs' = <<>>
  /\ pass' = 0
  /\ pc' = "merge"
  /\ UNCHANGED <<options, source, files, cp, page, history>>

(* The selection is its own merged run, cohort-selected.run. *)
SelectCohort ==
  /\ pc = "scan"
  /\ ~Scanning
  /\ mode = "cohort"
  /\ cp' = [cp EXCEPT !.truncated = cp.items > Limit]
  /\ pc' = "split"
  /\ UNCHANGED <<options, source, files, page, inputs, outputs, pass, history>>

Pending == Len(outputs) * FanIn < Len(inputs)
Output  == <<pass + 1, Len(outputs) + 1>>

(* Mutant: a group begins with the last run of the one before. *)
GroupOverlapping == {n \in 1..Len(inputs) : /\ n >= Len(outputs) * FanIn
                                            /\ n <= (Len(outputs) + 1) * FanIn}

(* runs[start:end] *)
Group == {n \in 1..Len(inputs) : /\ n > Len(outputs) * FanIn
                                 /\ n <= (Len(outputs) + 1) * FanIn}

(* mergeGroup opens its output with O_CREATE|O_EXCL. *)
OpenOutput ==
  /\ pc = "merge"
  /\ Len(inputs) > 1
  /\ Pending
  /\ disk[Output] = NoFile
  /\ disk' = [disk EXCEPT ![Output] = Torn]
  /\ pc' = "copy"
  /\ UNCHANGED <<options, source, checkpoint, parts, cp, page, inputs, outputs, pass, history>>

OutputExists ==
  /\ pc = "merge"
  /\ Len(inputs) > 1
  /\ Pending
  /\ disk[Output] # NoFile
  /\ refused' = TRUE
  /\ Exit
  /\ UNCHANGED <<options, source, files, halfRemoved, stops>>

(* The heap merge neither drops nor collapses a row: a row is known by its *)
(* run and by its place among the run's rows of the same item.             *)
RowsOf(S, p) == UNION {{n} \X (1..disk[inputs[n]][p]) : n \in S}
Merged(S) == [p \in Positions |-> Cardinality(RowsOf(S, p))]

MergeGroup ==
  /\ pc = "copy"
  /\ disk' = [disk EXCEPT ![Output] = Merged(Group)]
  /\ outputs' = Append(outputs, Output)
  /\ pc' = "merge"
  /\ UNCHANGED <<options, source, checkpoint, parts, cp, page, inputs, pass, history>>

(* The next pass; files of an earlier merge are removed, page runs stay. *)
NextPass ==
  /\ pc = "merge"
  /\ Len(inputs) > 1
  /\ ~Pending
  /\ disk' = [f \in Files |-> IF pass > 0 /\ \E n \in 1..Len(inputs) : inputs[n] = f
                                THEN NoFile ELSE disk[f]]
  /\ inputs' = outputs
  /\ outputs' = <<>>
  /\ pass' = pass + 1
  /\ UNCHANGED <<options, source, checkpoint, parts, pc, cp, page, history>>

EndMerge ==
  /\ pc = "merge"
  /\ Len(inputs) = 1
  /\ pc' = "split"
  /\ UNCHANGED <<options, source, files, cp, page, inputs, outputs, pass, history>>

(* writeDynamoChunks removes the parts of an earlier attempt, then creates *)
(* its own one by one.                                                     *)
ClearParts ==
  /\ pc = "split"
  /\ parts' = Torn
  /\ pc' = "parts"
  /\ UNCHANGED <<options, source, disk, checkpoint, cp, page, inputs, outputs, pass, history>>

WriteParts ==
  /\ pc = "parts"
  /\ parts' = IF mode = "cohort" THEN Rows(cp.selection) ELSE disk[inputs[1]]
  /\ pc' = "done"
  /\ UNCHANGED <<options, source, disk, checkpoint, cp, page, inputs, outputs, pass, history>>

-----------------------------------------------------------------------------
(* The pull installed its bundle, or runs with --restart: the whole work   *)
(* directory goes, in no particular order; the page runs count as one      *)
(* entry and so do the merge files, since one missing run already spoils   *)
(* the checkpoint and one merge file left already blocks a merge.          *)
FinishPull ==
  /\ pc = "done"
  /\ pc' = "remove"
  /\ UNCHANGED <<options, source, files, cp, page, inputs, outputs, pass, history>>

Restart ==
  /\ pc = "idle"
  /\ refused \/ checkpoint # NoFile
  /\ pc' = "remove"
  /\ UNCHANGED <<options, source, files, cp, page, inputs, outputs, pass, history>>

Empty == /\ \A f \in Files : disk[f] = NoFile
         /\ checkpoint = NoFile
         /\ parts = NoFile

RemoveEntry ==
  /\ pc = "remove"
  /\ \/ \E merged \in BOOLEAN :
          /\ disk' = [f \in Files |-> IF (f[1] > 0) = merged THEN NoFile ELSE disk[f]]
          /\ disk' # disk
          /\ UNCHANGED <<checkpoint, parts>>
     \/ /\ checkpoint # NoFile
        /\ checkpoint' = NoFile
        /\ UNCHANGED <<disk, parts>>
     \/ /\ parts # NoFile
        /\ parts' = NoFile
        /\ UNCHANGED <<disk, checkpoint>>
  /\ UNCHANGED <<options, source, process, history>>

EndRemoval ==
  /\ pc = "remove"
  /\ Empty
  /\ Exit
  /\ refused' = FALSE
  /\ halfRemoved' = FALSE
  /\ UNCHANGED <<options, source, files, stops>>

(* A crash, a cancelled context, an AWS or file system error, or, once the *)
(* table is done, the failure of another resource of the pull.  writeRun   *)
(* removes the run it could not complete, if it still runs.                *)
Stop ==
  /\ pc # "idle"
  /\ stops < MaxStops
  /\ stops' = stops + 1
  /\ \/ UNCHANGED disk
     \/ /\ pc = "keep" /\ mode # "cohort"
        /\ disk' = [disk EXCEPT ![RunOf(cp.pages + 1)] = NoFile]
  /\ halfRemoved' = (halfRemoved \/ pc = "remove")
  /\ Exit
  /\ UNCHANGED <<options, source, checkpoint, parts, refused>>

-----------------------------------------------------------------------------
Attempt == StartFresh \/ Resume \/ RejectCheckpoint

Run == \/ ScanPage \/ KeepPage \/ SaveCheckpoint
       \/ BeginMerge \/ SelectCohort \/ OpenOutput \/ OutputExists
       \/ MergeGroup \/ NextPass \/ EndMerge
       \/ ClearParts \/ WriteParts \/ FinishPull
       \/ RemoveEntry \/ EndRemoval

Next == Attempt \/ Run \/ Restart \/ Stop \/ \E p \in Positions : WriteItem(p)

Spec == Init /\ [][Next]_vars

(* A running process runs on; the operator tries again after a failure,    *)
(* and follows the remediation (--restart) of a pull that keeps refusing.  *)
FairSpec == /\ Spec
            /\ WF_vars(Run)
            /\ WF_vars(Attempt)
            /\ SF_vars(refused /\ Restart)

-----------------------------------------------------------------------------
(* Types, and the bounds that the finite scan order implies. *)
Contents == {NoFile, Torn} \cup [Positions -> 0..(Last + 1)]

Progress ==
  [key : 0..Last, complete : BOOLEAN, runs : Seq([Positions -> 0..1]), items : Nat,
   pages : 0..(Last + 1), truncated : BOOLEAN, selection : SUBSET Positions]

TypeOK ==
  /\ mode \in Modes
  /\ governed \in BOOLEAN
  /\ table \subseteq Positions
  /\ moved \subseteq Positions
  /\ DOMAIN disk = Files /\ \A f \in Files : disk[f] \in Contents
  /\ checkpoint \in Progress \cup {NoFile}
  /\ parts \in Contents
  /\ pc \in {"idle", "scan", "keep", "save", "merge", "copy", "split", "parts",
             "done", "remove"}
  /\ cp \in Progress
  /\ page.rows \subseteq Positions /\ page.next \in 0..Last
  /\ inputs \in Seq(Files) /\ outputs \in Seq(Files)
  /\ pass \in 0..Last

(* However often the capture was interrupted, wherever, and whatever was   *)
(* written to the table meanwhile: no item has two rows in the dataset.    *)
OneRowPerItem ==
  pc = "done" => \A p \in Positions : parts[p] <= 1

(* A dataset not reported as truncated has exactly the items nobody wrote  *)
(* to while the capture, with all its interruptions, was underway.         *)
NothingMissed ==
  pc = "done" /\ mode # "cohort" /\ ~cp.truncated =>
    \A p \in Positions \ moved : parts[p] = (IF p \in table THEN 1 ELSE 0)

(* The cohort of an unchanging table is the same whether or not the        *)
(* capture was interrupted (dynamodb_test.go, "MatchesUninterrupted").     *)
CohortExact ==
  pc = "done" /\ mode = "cohort" /\ moved = {} =>
    /\ parts = Rows(Best(table))
    /\ cp.truncated = (Cardinality(table) > Limit)

(* At every instant, so also after a crash at that instant, the runs the   *)
(* checkpoint names are on disk as it recorded them; only a removal of the *)
(* work directory cut short breaks that.                                   *)
CheckpointSound ==
  ~halfRemoved /\ pc # "remove" /\ checkpoint # NoFile => Intact(checkpoint)

(* Later checkpoints extend earlier ones: no attempt loses what another    *)
(* has scanned.                                                            *)
ProgressKept ==
  [][checkpoint # NoFile /\ checkpoint' # NoFile =>
       /\ checkpoint.pages <= checkpoint'.pages
       /\ checkpoint.complete => checkpoint' = checkpoint
       /\ \A n \in 1..Len(checkpoint.runs) : checkpoint'.runs[n] = checkpoint.runs[n]]_vars

(* The limits of a bounded capture bind all its attempts together.         *)
LimitsHeld ==
  mode = "bounded" => cp.items <= MaxItems /\ cp.pages <= MaxPages

(* Once interruptions cease the capture completes, with the operator       *)
(* resorting to --restart where it is told to: where a checkpoint is       *)
(* refused, for a lost run or for the state it was saved in, or a merge    *)
(* file is in the way.                                                     *)
Completes == pc = "scan" ~> pc = "done"

(* docs/compatibility.md:63: full captures are resumable.  A capture whose *)
(* work directory nobody removed is not turned away for files it left.     *)
Resumable == ~halfRemoved => ~refused

=============================================================================
