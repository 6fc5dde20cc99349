------------------------ MODULE DynamoCaptureProofs ------------------------
(***************************************************************************)
(* Proofs about DynamoCapture, for every table size, limit, merge fan-in   *)
(* and number of interruptions.  The argument: the process's progress cp   *)
(* names runs that are on disk (Intact(cp)), a checkpoint is always an     *)
(* initial part of that progress, and no step of the scan or the merge     *)
(* touches a run that cp names.                                            *)
(***************************************************************************)
EXTENDS DynamoCapture, FiniteSetTheorems, TLAPS

USE DEF vars, options, source, files, process, history

Active == pc \notin {"idle", "remove"}

(* What holds of the progress in memory and of the one in the checkpoint. *)
Sensible(c) ==
  /\ c \in Progress
  /\ Len(c.runs) = IF mode = "cohort" THEN 0 ELSE c.pages
  /\ ~c.complete => c.pages <= c.key
  /\ mode = "bounded" => c.items <= MaxItems /\ c.pages <= MaxPages

(* c is an earlier state of the same scan as d. *)
Extends(d, c) ==
  /\ c.pages <= d.pages
  /\ c.complete => d.complete
  /\ Len(c.runs) <= Len(d.runs)
  /\ \A n \in 1..Len(c.runs) : d.runs[n] = c.runs[n]

PageOK ==
  /\ page.rows \subseteq Positions
  /\ page.next \in 0..Last
  /\ pc = "keep" =>
       /\ ~cp.complete
       /\ page.next # 0 => page.next > cp.key
       /\ mode = "bounded" => /\ cp.items + Cardinality(page.rows) <= MaxItems
                              /\ cp.pages + 1 <= MaxPages

(* The merge reads page runs in its first pass only, and never writes one. *)
MergeOK ==
  /\ pass \in Nat
  /\ inputs \in Seq(Nat \X Nat)
  /\ outputs \in Seq(Nat \X Nat)
  /\ pass > 0 => \A n \in 1..Len(inputs) : inputs[n][1] > 0
  /\ \A n \in 1..Len(outputs) : outputs[n][1] > 0

DiskOK == disk = [f \in Files |-> disk[f]]

StateOK ==
  /\ DiskOK
  /\ Sensible(cp)
  /\ checkpoint # NoFile => Sensible(checkpoint)
  /\ PageOK
  /\ MergeOK

FilesOK ==
  /\ pc # "remove" => Intact(cp)
  /\ Active /\ checkpoint # NoFile => Extends(cp, checkpoint)
  /\ pc \in {"keep", "save"} /\ checkpoint # NoFile => ~checkpoint.complete
  /\ CheckpointSound

IInv == StateOK /\ FilesOK

-----------------------------------------------------------------------------
(* A page run that a sensible progress names is a file of the directory. *)
LEMMA NamedRuns ==
  ASSUME NEW c, Sensible(c)
  PROVE  /\ Len(c.runs) \in Nat
         /\ Len(c.runs) <= c.pages
         /\ \A n \in 1..Len(c.runs) : RunOf(n) \in Files
BY ParametersAssumption DEF Sensible, Progress, RunOf, Files

(* The next page has a file of its own, after all the named ones. *)
LEMMA NextRun ==
  ASSUME Sensible(cp), ~cp.complete
  PROVE  RunOf(cp.pages + 1) \in Files
BY ParametersAssumption DEF Sensible, Progress, RunOf, Files

LEMMA RowsType == \A S : Rows(S) \in [Positions -> 0..1]
BY DEF Rows

LEMMA PageSize ==
  ASSUME NEW S, S \subseteq Positions
  PROVE  IsFiniteSet(S) /\ Cardinality(S) \in Nat
<1>1. IsFiniteSet(Positions)
  BY ParametersAssumption, FS_Interval DEF Positions
<1> QED
  BY <1>1, FS_Subset, FS_CardinalityType

LEMMA FreshOK == Sensible(Fresh) /\ Intact(Fresh)
<1>1. Fresh \in Progress
  BY ParametersAssumption DEF Fresh, Progress, Positions
<1> QED
  BY <1>1, ParametersAssumption DEF Sensible, Intact, Fresh

LEMMA InitInv == Init => IInv
<1> SUFFICES ASSUME Init PROVE IInv
  OBVIOUS
<1>1. DiskOK
  BY DEF Init, DiskOK
<1>2. Sensible(cp) /\ Intact(cp)
  BY FreshOK DEF Init
<1>3. PageOK /\ MergeOK
  BY ParametersAssumption DEF Init, PageOK, MergeOK, NoPage
<1> QED
  BY <1>1, <1>2, <1>3 DEF Init, IInv, StateOK, FilesOK, CheckpointSound, Active

-----------------------------------------------------------------------------
LEMMA AttemptInv == ASSUME IInv, Attempt PROVE IInv'
<1> USE DEF IInv, StateOK, FilesOK
<1>1. CASE StartFresh
  <2>1. Sensible(cp)' /\ Intact(cp)'
    BY <1>1, FreshOK DEF StartFresh, Sensible, Intact
  <2>2. DiskOK' /\ PageOK' /\ MergeOK' /\ checkpoint' = NoFile
    BY <1>1 DEF StartFresh, DiskOK, PageOK, MergeOK
  <2> QED
    BY <1>1, <2>1, <2>2 DEF StartFresh, CheckpointSound, Active
<1>2. CASE Resume
  <2>1. Sensible(cp)' /\ Intact(cp)' /\ Extends(cp, checkpoint)'
    BY <1>2, NamedRuns DEF Resume, Acceptable, Sensible, Intact, Extends, Progress
  <2>2. DiskOK' /\ PageOK' /\ MergeOK' /\ Sensible(checkpoint)'
    BY <1>2 DEF Resume, DiskOK, PageOK, MergeOK, Sensible
  <2>3. CheckpointSound'
    BY <1>2 DEF Resume, Acceptable, CheckpointSound, Intact
  <2> QED
    BY <1>2, <2>1, <2>2, <2>3 DEF Resume
<1>3. CASE RejectCheckpoint
  <2> USE <1>3 DEF RejectCheckpoint
  <2>1. DiskOK' /\ Sensible(cp)' /\ PageOK' /\ MergeOK'
    BY DEF DiskOK, Sensible, PageOK, MergeOK
  <2>2. (checkpoint # NoFile => Sensible(checkpoint))'
    BY DEF Sensible
  <2>3. FilesOK'
    BY DEF Active, Intact, CheckpointSound, Extends
  <2> QED
    BY <2>1, <2>2, <2>3
<1> QED
  BY <1>1, <1>2, <1>3 DEF Attempt

(* Steps that leave the progress and every file alone. *)
LEMMA QuietInv ==
  ASSUME IInv, UNCHANGED <<mode, disk, checkpoint, cp, halfRemoved>>,
         PageOK', MergeOK', Active, Active',
         pc' \in {"keep", "save"} => pc \in {"keep", "save"}
  PROVE  IInv'
<1>1. DiskOK' /\ Sensible(cp)' /\ (checkpoint # NoFile => Sensible(checkpoint))'
  BY DEF IInv, StateOK, DiskOK, Sensible
<1>2. FilesOK'
  BY DEF IInv, FilesOK, Active, Intact, CheckpointSound, Extends
<1> QED
  BY <1>1, <1>2 DEF IInv, StateOK

LEMMA ScanPageInv == ASSUME IInv, ScanPage PROVE IInv'
<1> USE DEF IInv, StateOK
<1>1. PICK end \in cp.key..Last, more \in BOOLEAN :
        LET rows == table \cap ((cp.key + 1)..end)
        IN /\ IF more THEN end > cp.key ELSE end = Last
           /\ mode = "bounded" => Cardinality(rows) <= MaxItems - cp.items
           /\ page' = [rows |-> rows, next |-> IF more THEN end ELSE 0]
  BY DEF ScanPage
<1>2. cp.key \in 0..Last /\ cp.pages \in 0..(Last + 1) /\ cp.items \in Nat
  BY DEF Sensible, Progress
<1>3. page'.rows \subseteq Positions /\ page'.next \in 0..Last
  BY <1>1, <1>2, ParametersAssumption DEF Positions
<1>4. (page.next # 0 => page.next > cp.key)'
  BY <1>1, <1>2 DEF ScanPage
<1>5. ~cp.complete /\ UNCHANGED <<mode, cp, checkpoint, halfRemoved>> /\ pc = "scan" /\ pc' = "keep"
  BY DEF ScanPage, Scanning
<1>6. mode = "bounded" => cp.items + Cardinality(page'.rows) <= MaxItems /\ cp.pages + 1 <= MaxPages
  <2>1. Cardinality(page'.rows) \in Nat
    BY <1>3, PageSize
  <2> QED
    BY <1>1, <1>2, <2>1, ParametersAssumption DEF ScanPage, Scanning
<1>7. PageOK'
  BY <1>3, <1>4, <1>5, <1>6 DEF PageOK
<1>8. DiskOK' /\ MergeOK' /\ Sensible(cp)' /\ (checkpoint # NoFile => Sensible(checkpoint))'
  BY <1>5 DEF ScanPage, DiskOK, MergeOK, Sensible
<1>9. ASSUME NEW n \in 1..Len(cp.runs) PROVE disk'[RunOf(n)] = disk[RunOf(n)]
  <2>1. n # cp.pages + 1 /\ RunOf(n) \in Files
    BY <1>2, NamedRuns
  <2> QED
    BY <2>1 DEF ScanPage, RunOf, DiskOK
<1>10. Intact(cp)'
  BY <1>5, <1>9 DEF FilesOK, Intact
<1>11. Extends(cp, checkpoint)' \/ checkpoint' = NoFile
  BY <1>5 DEF FilesOK, Active, Extends
<1>12. CheckpointSound'
  BY <1>10, <1>11 DEF CheckpointSound, Intact, Extends, Sensible, Progress
<1>13. checkpoint # NoFile => ~checkpoint.complete
  BY <1>5 DEF FilesOK, Active, Extends
<1> QED
  BY <1>5, <1>7, <1>8, <1>10, <1>11, <1>12, <1>13 DEF FilesOK, Active

LEMMA AdvancedOK ==
  ASSUME Sensible(cp), PageOK, pc = "keep"
  PROVE  /\ Sensible(Advanced)
         /\ Extends(Advanced, cp)
         /\ \A n \in 1..Len(Advanced.runs) :
              \/ n \in 1..Len(cp.runs) /\ Advanced.runs[n] = cp.runs[n]
              \/ mode # "cohort" /\ n = cp.pages + 1 /\ Advanced.runs[n] = Rows(page.rows)
<1> DEFINE items == cp.items + Cardinality(page.rows)
           truncated == /\ mode = "bounded"
                        /\ page.next # 0
                        /\ cp.pages + 1 = MaxPages \/ items = MaxItems
<1>1. /\ cp.key \in 0..Last /\ cp.pages \in 0..(Last + 1) /\ cp.pages <= cp.key
      /\ cp.items \in Nat /\ cp.runs \in Seq([Positions -> 0..1])
      /\ cp.selection \subseteq Positions
  BY DEF Sensible, Progress, PageOK
<1>2. Cardinality(page.rows) \in Nat /\ items \in Nat
  BY <1>1, PageSize DEF PageOK
<1>3. /\ Advanced.key = page.next
      /\ Advanced.complete = (page.next = 0 \/ truncated)
      /\ Advanced.runs = IF mode = "cohort" THEN cp.runs ELSE Append(cp.runs, Rows(page.rows))
      /\ Advanced.items = items
      /\ Advanced.pages = cp.pages + 1
  BY DEF Advanced
<1>4. Advanced.runs \in Seq([Positions -> 0..1])
  BY <1>1, <1>3, RowsType
<1>5. Len(Advanced.runs) = IF mode = "cohort" THEN 0 ELSE Advanced.pages
  BY <1>1, <1>3, RowsType DEF Sensible
<1>6. Best(cp.selection \cup page.rows) \subseteq Positions
  BY <1>1 DEF Best, PageOK
<1>7. Advanced \in Progress
  <2>1. page.next \in 0..Last /\ cp.pages + 1 \in 0..(Last + 1)
    BY <1>1, ParametersAssumption DEF PageOK
  <2> QED
    BY <1>2, <1>3, <1>4, <1>6, <2>1 DEF Advanced, Progress
<1>8. ~Advanced.complete => Advanced.pages <= Advanced.key
  <2>1. ~Advanced.complete => page.next # 0
    BY DEF Advanced
  <2>2. page.next \in 0..Last /\ (page.next # 0 => page.next > cp.key)
    BY DEF PageOK
  <2> QED
    BY <1>1, <1>3, <2>1, <2>2
<1>9. mode = "bounded" => Advanced.items <= MaxItems /\ Advanced.pages <= MaxPages
  BY <1>3 DEF PageOK
<1>10. Sensible(Advanced)
  BY <1>5, <1>7, <1>8, <1>9 DEF Sensible
<1>11. \A n \in 1..Len(Advanced.runs) :
         \/ n \in 1..Len(cp.runs) /\ Advanced.runs[n] = cp.runs[n]
         \/ mode # "cohort" /\ n = cp.pages + 1 /\ Advanced.runs[n] = Rows(page.rows)
  BY <1>1, <1>3, RowsType DEF Sensible
<1>12. Extends(Advanced, cp)
  BY <1>1, <1>3, <1>11, RowsType DEF Extends, Sensible, PageOK
<1> QED
  BY <1>10, <1>11, <1>12

LEMMA ExtendsTransitive ==
  ASSUME NEW a, NEW b, NEW c, Sensible(a), Sensible(b), Sensible(c),
         Extends(a, b), Extends(b, c)
  PROVE  Extends(a, c)
BY DEF Sensible, Extends, Progress

LEMMA KeepPageInv == ASSUME IInv, KeepPage PROVE IInv'
<1> USE DEF IInv, StateOK
<1>1. pc = "keep" /\ pc' \in {"save", "scan"} /\ cp' = Advanced /\ page' = NoPage
  BY DEF KeepPage
<1>2. UNCHANGED <<mode, checkpoint, halfRemoved>>
  BY DEF KeepPage
<1>3. Sensible(cp)' /\ (checkpoint # NoFile => Sensible(checkpoint))'
  BY <1>1, <1>2, AdvancedOK DEF Sensible
<1>4. DiskOK' /\ MergeOK' /\ PageOK'
  BY <1>1, ParametersAssumption DEF KeepPage, DiskOK, MergeOK, PageOK, NoPage
<1>5. ~cp.complete
  BY <1>1 DEF PageOK
<1>6. RunOf(cp.pages + 1) \in Files
  BY <1>5, NextRun
<1>7. ASSUME NEW n \in 1..Len(cp.runs) PROVE disk'[RunOf(n)] = disk[RunOf(n)]
  <2>1. n # cp.pages + 1 /\ RunOf(n) \in Files
    BY NamedRuns DEF Sensible, Progress
  <2> QED
    BY <2>1 DEF KeepPage, RunOf, DiskOK
<1>8. ASSUME NEW n \in 1..Len(Advanced.runs) PROVE disk'[RunOf(n)] = Advanced.runs[n]
  <2>1. CASE n \in 1..Len(cp.runs) /\ Advanced.runs[n] = cp.runs[n]
    BY <1>1, <1>7, <2>1 DEF FilesOK, Intact
  <2>2. CASE mode # "cohort" /\ n = cp.pages + 1 /\ Advanced.runs[n] = Rows(page.rows)
    BY <1>6, <2>2 DEF KeepPage, DiskOK
  <2> QED
    BY <1>1, <2>1, <2>2, AdvancedOK
<1>9. Intact(cp)'
  BY <1>1, <1>8 DEF Intact
<1>10. checkpoint # NoFile => Extends(Advanced, checkpoint)
  BY <1>1, <1>3, AdvancedOK, ExtendsTransitive DEF FilesOK, Active, Sensible
<1>11. (checkpoint # NoFile => Extends(cp, checkpoint))'
  BY <1>1, <1>2, <1>10
<1>12. (checkpoint # NoFile => Intact(checkpoint))'
  BY <1>3, <1>9, <1>11 DEF Sensible, Extends, Intact, Progress
<1> QED
  BY <1>1, <1>2, <1>3, <1>4, <1>9, <1>11, <1>12 DEF FilesOK, CheckpointSound

LEMMA SaveCheckpointInv == ASSUME IInv, SaveCheckpoint PROVE IInv'
<1> USE DEF IInv, StateOK, SaveCheckpoint
<1>1. DiskOK' /\ PageOK' /\ MergeOK' /\ Sensible(cp)' /\ Sensible(checkpoint)'
  BY DEF DiskOK, PageOK, MergeOK, Sensible
<1>2. Intact(cp)' /\ Intact(checkpoint)'
  BY DEF FilesOK, Intact
<1>3. Extends(cp, checkpoint)'
  BY DEF Extends, Sensible, Progress
<1> QED
  BY <1>1, <1>2, <1>3 DEF FilesOK, CheckpointSound

-----------------------------------------------------------------------------
(* Writing a merge file, or dropping some, leaves every named run alone. *)
LEMMA MergeStep ==
  ASSUME IInv, UNCHANGED <<mode, checkpoint, cp, halfRemoved>>,
         DiskOK', PageOK', MergeOK', Active, Active',
         pc' \notin {"keep", "save"},
         \A n \in Nat : RunOf(n) \in Files => disk'[RunOf(n)] = disk[RunOf(n)]
  PROVE  IInv'
<1> USE DEF IInv, StateOK
<1>1. Sensible(cp)' /\ (checkpoint # NoFile => Sensible(checkpoint))'
  BY DEF Sensible
<1>2. \A n \in 1..Len(cp.runs) : RunOf(n) \in Files /\ n \in Nat
  BY NamedRuns
<1>3. Intact(cp)'
  BY <1>2 DEF FilesOK, Active, Intact
<1>4. (checkpoint # NoFile => Extends(cp, checkpoint))'
  BY DEF FilesOK, Active, Extends
<1>5. (checkpoint # NoFile => Intact(checkpoint))'
  BY <1>1, <1>3, <1>4 DEF Sensible, Extends, Intact, Progress
<1> QED
  BY <1>1, <1>3, <1>4, <1>5 DEF FilesOK, CheckpointSound

LEMMA MergeInv ==
  ASSUME IInv, OpenOutput \/ MergeGroup \/ NextPass
  PROVE  IInv'
<1> USE DEF IInv, StateOK
<1>1. UNCHANGED <<mode, checkpoint, cp, page, halfRemoved>> /\ Active /\ Active'
      /\ pc' \notin {"keep", "save"}
  BY DEF OpenOutput, MergeGroup, NextPass, Active
<1>2. DiskOK' /\ PageOK'
  BY <1>1 DEF OpenOutput, MergeGroup, NextPass, DiskOK, PageOK
<1>3. Output \in Nat \X Nat /\ Output[1] > 0
  BY DEF Output, MergeOK
<1>4. MergeOK'
  <2>1. CASE OpenOutput
    BY <2>1 DEF OpenOutput, MergeOK
  <2>2. CASE MergeGroup
    <3>1. outputs' = Append(outputs, Output) /\ UNCHANGED <<inputs, pass>>
      BY <2>2 DEF MergeGroup
    <3>2. outputs' \in Seq(Nat \X Nat)
      BY <1>3, <3>1 DEF MergeOK
    <3>3. \A n \in 1..Len(outputs') : outputs'[n][1] > 0
      <4> SUFFICES ASSUME NEW n \in 1..Len(outputs') PROVE outputs'[n][1] > 0
        OBVIOUS
      <4>1. n = Len(outputs) + 1 => outputs'[n] = Output
        BY <1>3, <3>1 DEF MergeOK
      <4>2. n # Len(outputs) + 1 => n \in 1..Len(outputs) /\ outputs'[n] = outputs[n]
        BY <1>3, <3>1 DEF MergeOK
      <4> QED
        BY <1>3, <4>1, <4>2 DEF MergeOK
    <3> QED
      BY <3>1, <3>2, <3>3 DEF MergeOK
  <2>3. CASE NextPass
    BY <2>3 DEF NextPass, MergeOK
  <2> QED
    BY <2>1, <2>2, <2>3
<1>5. ASSUME NEW n \in Nat, RunOf(n) \in Files PROVE disk'[RunOf(n)] = disk[RunOf(n)]
  <2>1. RunOf(n)[1] = 0
    BY DEF RunOf
  <2>2. CASE OpenOutput \/ MergeGroup
    <3>1. Output # RunOf(n)
      BY <1>3, <2>1
    <3>2. \E c : disk' = [disk EXCEPT ![Output] = c]
      BY <2>2 DEF OpenOutput, MergeGroup
    <3> QED
      BY <1>5, <3>1, <3>2 DEF DiskOK
  <2>3. CASE NextPass
    <3>1. pass > 0 => \A k \in 1..Len(inputs) : inputs[k] # RunOf(n)
      BY <2>1 DEF MergeOK
    <3> QED
      BY <1>5, <2>3, <3>1 DEF NextPass
  <2> QED
    BY <2>2, <2>3
<1> QED
  BY <1>1, <1>2, <1>4, <1>5, MergeStep

LEMMA FinalizeInv ==
  ASSUME IInv,
         BeginMerge \/ EndMerge \/ ClearParts \/ WriteParts \/ \E p \in Positions : WriteItem(p)
  PROVE  IInv'
<1> USE DEF IInv, StateOK
<1>1. UNCHANGED <<mode, disk, checkpoint, cp, page, halfRemoved>> /\ Active /\ Active'
      /\ pc' \notin {"keep", "save"}
  BY DEF BeginMerge, EndMerge, ClearParts, WriteParts, WriteItem, Active
<1>2. PageOK'
  BY <1>1 DEF PageOK
<1>3. CASE BeginMerge
  <2>1. Len(cp.runs) \in Nat
    BY NamedRuns
  <2>2. inputs' \in Seq(Nat \X Nat)
    BY <1>3, <2>1 DEF BeginMerge, RunOf
  <2>3. MergeOK'
    BY <1>3, <2>2 DEF BeginMerge, MergeOK
  <2> QED
    BY <1>1, <1>2, <2>3, QuietInv
<1>4. CASE EndMerge \/ ClearParts \/ WriteParts \/ \E p \in Positions : WriteItem(p)
  <2>1. MergeOK'
    BY <1>4 DEF EndMerge, ClearParts, WriteParts, WriteItem, MergeOK
  <2> QED
    BY <1>1, <1>2, <2>1, QuietInv
<1> QED
  BY <1>3, <1>4

LEMMA SelectCohortInv == ASSUME IInv, SelectCohort PROVE IInv'
<1> USE DEF IInv, StateOK, SelectCohort
<1>1. /\ cp' \in Progress
      /\ cp'.key = cp.key /\ cp'.complete = cp.complete /\ cp'.runs = cp.runs
      /\ cp'.items = cp.items /\ cp'.pages = cp.pages
  <2>1. cp \in Progress /\ (cp.items > Limit) \in BOOLEAN
    BY DEF Sensible
  <2> QED
    BY <2>1 DEF Progress
<1>2. DiskOK' /\ PageOK' /\ MergeOK' /\ (checkpoint # NoFile => Sensible(checkpoint))'
  BY <1>1 DEF DiskOK, PageOK, MergeOK, Sensible
<1>3. Sensible(cp)' /\ Intact(cp)'
  BY <1>1 DEF Sensible, FilesOK, Intact
<1>4. (checkpoint # NoFile => Extends(cp, checkpoint))'
  BY <1>1 DEF FilesOK, Active, Extends
<1>5. CheckpointSound'
  BY DEF FilesOK, CheckpointSound, Intact
<1> QED
  BY <1>2, <1>3, <1>4, <1>5 DEF FilesOK

-----------------------------------------------------------------------------
(* What remains of the state when the process ends. *)
LEMMA ExitOK ==
  ASSUME Exit, UNCHANGED mode
  PROVE  Sensible(cp)' /\ Intact(cp)' /\ PageOK' /\ MergeOK' /\ ~Active'
<1>1. Sensible(cp)' /\ Intact(cp)'
  BY FreshOK DEF Exit, Sensible, Intact, Fresh
<1>2. PageOK' /\ MergeOK' /\ ~Active'
  BY ParametersAssumption DEF Exit, PageOK, MergeOK, NoPage, Active
<1> QED
  BY <1>1, <1>2

LEMMA OutputExistsInv == ASSUME IInv, OutputExists PROVE IInv'
<1> USE DEF IInv, StateOK, OutputExists
<1>1. Sensible(cp)' /\ Intact(cp)' /\ PageOK' /\ MergeOK' /\ ~Active'
  BY ExitOK
<1>2. DiskOK' /\ (checkpoint # NoFile => Sensible(checkpoint))'
  BY DEF DiskOK, Sensible
<1>3. CheckpointSound'
  BY DEF FilesOK, CheckpointSound, Intact
<1> QED
  BY <1>1, <1>2, <1>3 DEF FilesOK, Active, Exit

LEMMA StopInv == ASSUME IInv, Stop PROVE IInv'
<1> USE DEF IInv, StateOK
<1>1. UNCHANGED <<mode, checkpoint>> /\ Exit /\ pc # "idle"
      /\ halfRemoved' = (halfRemoved \/ pc = "remove")
  BY DEF Stop
<1>2. Sensible(cp)' /\ Intact(cp)' /\ PageOK' /\ MergeOK' /\ ~Active'
  BY <1>1, ExitOK
<1>3. DiskOK' /\ (checkpoint # NoFile => Sensible(checkpoint))'
  BY <1>1 DEF Stop, DiskOK, Sensible
<1>4. ASSUME ~halfRemoved', checkpoint # NoFile PROVE Intact(checkpoint)'
  <2>1. pc # "remove" /\ Active /\ Intact(checkpoint)
    BY <1>1, <1>4 DEF FilesOK, CheckpointSound, Active
  <2>2. Len(checkpoint.runs) <= cp.pages /\ cp.pages \in Nat /\ Len(checkpoint.runs) \in Nat
    BY <1>4, <2>1, NamedRuns DEF FilesOK, Extends, Sensible, Progress
  <2>3. ASSUME NEW n \in 1..Len(checkpoint.runs) PROVE disk'[RunOf(n)] = disk[RunOf(n)]
    <3>1. n # cp.pages + 1
      BY <2>2
    <3> QED
      BY <1>4, <3>1, NamedRuns DEF Stop, RunOf, DiskOK
  <2> QED
    BY <1>1, <2>1, <2>3 DEF Intact
<1> QED
  BY <1>1, <1>2, <1>3, <1>4 DEF FilesOK, CheckpointSound, Active, Exit

LEMMA RemovalInv ==
  ASSUME IInv, FinishPull \/ Restart \/ RemoveEntry \/ EndRemoval
  PROVE  IInv'
<1> USE DEF IInv, StateOK
<1>1. CASE FinishPull \/ Restart \/ RemoveEntry
  <2>1. UNCHANGED <<mode, cp, page, inputs, outputs, pass>> /\ pc' = "remove"
    BY <1>1 DEF FinishPull, Restart, RemoveEntry
  <2>2. checkpoint' \in {checkpoint, NoFile} /\ DiskOK'
    BY <1>1 DEF FinishPull, Restart, RemoveEntry, DiskOK
  <2>3. Sensible(cp)' /\ PageOK' /\ MergeOK' /\ (checkpoint # NoFile => Sensible(checkpoint))'
    BY <2>1, <2>2 DEF Sensible, PageOK, MergeOK
  <2> QED
    BY <2>1, <2>2, <2>3 DEF FilesOK, CheckpointSound, Active
<1>2. CASE EndRemoval
  <2>1. Sensible(cp)' /\ Intact(cp)' /\ PageOK' /\ MergeOK' /\ ~Active'
    BY <1>2, ExitOK DEF EndRemoval
  <2>2. DiskOK' /\ checkpoint' = NoFile
    BY <1>2 DEF EndRemoval, Empty, DiskOK
  <2> QED
    BY <2>1, <2>2, <1>2 DEF FilesOK, CheckpointSound, EndRemoval, Exit
<1> QED
  BY <1>1, <1>2

LEMMA StepInv == IInv /\ [Next]_vars => IInv'
<1> SUFFICES ASSUME IInv, [Next]_vars PROVE IInv'
  OBVIOUS
<1>1. CASE Attempt
  BY <1>1, AttemptInv
<1>2. CASE ScanPage \/ KeepPage \/ SaveCheckpoint
  BY <1>2, ScanPageInv, KeepPageInv, SaveCheckpointInv
<1>3. CASE OpenOutput \/ MergeGroup \/ NextPass
  BY <1>3, MergeInv
<1>4. CASE BeginMerge \/ EndMerge \/ ClearParts \/ WriteParts \/ \E p \in Positions : WriteItem(p)
  BY <1>4, FinalizeInv
<1>5. CASE SelectCohort \/ OutputExists \/ Stop
  BY <1>5, SelectCohortInv, OutputExistsInv, StopInv
<1>6. CASE FinishPull \/ Restart \/ RemoveEntry \/ EndRemoval
  BY <1>6, RemovalInv
<1>7. CASE UNCHANGED vars
  BY <1>7 DEF IInv, StateOK, DiskOK, Sensible, PageOK, MergeOK, FilesOK, Active,
              Intact, Extends, CheckpointSound
<1> QED
  BY <1>1, <1>2, <1>3, <1>4, <1>5, <1>6, <1>7 DEF Next, Run

-----------------------------------------------------------------------------
(* The work directory and both copies of the checkpoint agree, always.     *)
THEOREM Invariance == Spec => []IInv
BY InitInv, StepInv, PTL DEF Spec

(* A checkpoint's runs are on disk, with their checksums, at every instant *)
(* a process may die, in every mode and for every table.                   *)
THEOREM CheckpointIsSound == Spec => []CheckpointSound
<1>1. IInv => CheckpointSound
  BY DEF IInv, FilesOK
<1> QED
  BY <1>1, Invariance, PTL

(* The configured limits bind all attempts at a bounded capture together. *)
THEOREM LimitsAreHeld == Spec => []LimitsHeld
<1>1. IInv => LimitsHeld
  BY DEF IInv, StateOK, Sensible, LimitsHeld
<1> QED
  BY <1>1, Invariance, PTL

(* No attempt replaces a checkpoint by one of less progress. *)
THEOREM ProgressIsKept == Spec => ProgressKept
<1> DEFINE Kept ==
      checkpoint # NoFile /\ checkpoint' # NoFile =>
        /\ checkpoint.pages <= checkpoint'.pages
        /\ checkpoint.complete => checkpoint' = checkpoint
        /\ \A n \in 1..Len(checkpoint.runs) : checkpoint'.runs[n] = checkpoint.runs[n]
<1>1. ASSUME IInv, [Next]_vars PROVE [Kept]_vars
  <2>1. CASE SaveCheckpoint
    BY <1>1, <2>1 DEF SaveCheckpoint, IInv, FilesOK, Active, Extends
  <2>2. CASE checkpoint' \in {checkpoint, NoFile}
    BY <1>1, <2>2 DEF IInv, StateOK, Sensible, Progress
  <2>3. SaveCheckpoint \/ checkpoint' \in {checkpoint, NoFile}
    BY <1>1 DEF Next, Attempt, Run, StartFresh, Resume, RejectCheckpoint, ScanPage, KeepPage,
                BeginMerge, SelectCohort, OpenOutput, OutputExists, MergeGroup, NextPass,
                EndMerge, ClearParts, WriteParts, FinishPull, Restart, RemoveEntry,
                EndRemoval, Stop, WriteItem
  <2> QED
    BY <2>1, <2>2, <2>3
<1>2. IInv /\ [Next]_vars => [Kept]_vars
  BY <1>1
<1>3. Spec => [][Kept]_vars
  BY <1>2, Invariance, PTL DEF Spec
<1> QED
  BY <1>3 DEF ProgressKept

-----------------------------------------------------------------------------
(***************************************************************************)
(* What the dataset holds.  A scan keeps every row once and passes over no *)
(* item (Scanned); during a merge the files that are still to be merged    *)
(* and those that have been hold the rows of the runs, each once           *)
(* (LiveExact), whatever files another attempt left; what remains at the   *)
(* end is one file, and the parts are its content (Final).                 *)
(***************************************************************************)
(* p has a row in some run of c. *)
Held(c, p) == \E n \in 1..Len(c.runs) : c.runs[n][p] = 1

(* The positions that the scan of c has passed. *)
Passed(c) == {p \in Positions : p <= c.key \/ (c.complete /\ ~c.truncated)}

(* What the scan of c has kept: no row twice, none from beyond the last    *)
(* key, every unmoved item it has passed.                                  *)
OnceEach(c) ==
  \A p \in Positions : \A m, n \in 1..Len(c.runs) :
    c.runs[m][p] = 1 /\ c.runs[n][p] = 1 => m = n

NoneBeyond(c) == ~c.complete => \A p \in Positions : Held(c, p) => p <= c.key

AllPassed(c) ==
  mode # "cohort" => \A p \in Passed(c) \ moved : Held(c, p) <=> p \in table

(* What is still wanted of a bounded scan, and the cohort's selection. *)
WithinLimits(c) ==
  /\ c.complete => c.pages > 0
  /\ mode = "bounded" /\ ~c.complete => c.items < MaxItems /\ c.pages < MaxPages

Offered(c) == {p \in table : p <= c.key \/ c.complete}

Selects(c) ==
  mode = "cohort" /\ moved = {} =>
    c.selection = Best(Offered(c)) /\ c.items = Cardinality(Offered(c))

Scanned(c) ==
  /\ OnceEach(c) /\ NoneBeyond(c) /\ AllPassed(c) /\ WithinLimits(c) /\ Selects(c)

(* The response being kept: the unmoved items after the last key. *)
PageExact ==
  pc = "keep" =>
    /\ \A p \in page.rows : p > cp.key /\ (page.next # 0 => p <= page.next)
    /\ \A p \in Positions \ moved :
         p > cp.key /\ (page.next # 0 => p <= page.next) => (p \in page.rows <=> p \in table)

(* The files whose rows are still to be merged, or are. *)
Consumed == Len(outputs) * FanIn
Live == {<<pass, n>> : n \in {n \in 1..Len(inputs) : n > Consumed}}
        \cup {<<pass + 1, n>> : n \in 1..Len(outputs)}

Merging == mode # "cohort" /\ pc \in {"merge", "copy", "split", "parts", "done"}

(* The files of a pass are numbered from 1. *)
Numbered(s, k) == \A n \in 1..Len(s) : s[n] = <<k, n>>

Named == Merging => Numbered(inputs, pass) /\ Numbered(outputs, pass + 1)

(* Each pass has fewer inputs than the one before. *)
Shrinking ==
  Merging =>
    /\ Len(inputs) \in Nat /\ Len(inputs) > 0
    /\ Len(inputs) + pass <= Last + 1
    /\ Len(outputs) > 0 => Len(inputs) > 1 /\ (Len(outputs) - 1) * FanIn < Len(inputs)
    /\ pc = "copy" => Len(inputs) > 1 /\ Pending
    /\ pc \in {"split", "parts", "done"} => Len(inputs) = 1

(* Together the live files have the rows of the runs, each once. *)
LiveExact ==
  mode # "cohort" /\ pc \in {"merge", "copy", "split", "parts"} =>
    /\ \A f \in Live : disk[f] \in [Positions -> 0..1]
    /\ \A p \in Positions : \A f, g \in Live : disk[f][p] = 1 /\ disk[g][p] = 1 => f = g
    /\ \A p \in Positions : Held(cp, p) <=> \E f \in Live : disk[f][p] = 1

Final ==
  /\ pc \in {"merge", "copy"} => mode # "cohort"
  /\ pc \in {"merge", "copy", "split", "parts", "done"} => cp.complete
  /\ pc \in {"split", "parts", "done"} /\ mode = "cohort" => cp.truncated = (cp.items > Limit)
  /\ pc = "done" =>
       parts = IF mode = "cohort" THEN Rows(cp.selection)
               ELSE Rows({p \in Positions : Held(cp, p)})

SourceOK == table \subseteq Positions /\ moved \subseteq Positions

DataOK ==
  /\ SourceOK
  /\ Scanned(cp)
  /\ checkpoint # NoFile => Scanned(checkpoint)
  /\ PageExact /\ Named /\ Shrinking /\ LiveExact /\ Final

-----------------------------------------------------------------------------
LEMMA RowsAt == \A S : \A p \in Positions : Rows(S)[p] = IF p \in S THEN 1 ELSE 0
BY DEF Rows

LEMMA FreshScanned == table \subseteq Positions => Scanned(Fresh)
<1> SUFFICES ASSUME table \subseteq Positions PROVE Scanned(Fresh)
  OBVIOUS
<1>1. Len(Fresh.runs) = 0 /\ Fresh.key = 0 /\ ~Fresh.complete /\ Fresh.items = 0
      /\ Fresh.pages = 0 /\ Fresh.selection = {}
  BY DEF Fresh
<1>2. OnceEach(Fresh) /\ NoneBeyond(Fresh) /\ AllPassed(Fresh)
  BY <1>1 DEF OnceEach, NoneBeyond, AllPassed, Held, Passed, Positions
<1>3. WithinLimits(Fresh)
  BY <1>1, ParametersAssumption DEF WithinLimits
<1>4. Offered(Fresh) = {}
  <2>1. \A p \in table : ~(p <= Fresh.key \/ Fresh.complete)
    BY <1>1, ParametersAssumption DEF Positions
  <2> QED
    BY <2>1 DEF Offered
<1>5. Best({}) = {}
  BY Zenon DEF Best
<1> QED
  BY <1>1, <1>2, <1>3, <1>4, <1>5, FS_EmptySet DEF Scanned, Selects

(* The least element of a set of numbers. *)
LEMMA LeastNumber ==
  ASSUME NEW S, S \subseteq Nat, S # {}
  PROVE  \E n \in S : \A m \in S : n <= m
<1>1. \E n \in S : \A m \in S : <<m, n>> \notin OpToRel(<, Nat)
  BY NatLessThanWellFounded, WFMin
<1>2. PICK n \in S : \A m \in S : <<m, n>> \notin {ss \in Nat \X Nat : ss[1] < ss[2]}
  BY <1>1 DEF OpToRel
<1>3. \A m \in S : ~(m < n)
  BY <1>2
<1> QED
  BY <1>3

(* The cohort is chosen page by page: what an earlier page was passed over *)
(* for is still there to pass it over for.                                 *)
LEMMA BestOfBest ==
  ASSUME NEW A, NEW B, A \subseteq Positions, B \subseteq Positions
  PROVE  Best(Best(A) \cup B) = Best(A \cup B)
<1> DEFINE Lower(S, p) == {q \in S : Rank[q] < Rank[p]}
<1>1. ASSUME NEW S, NEW T, NEW p, S \subseteq T, T \subseteq Positions
      PROVE  /\ Cardinality(Lower(S, p)) \in Nat /\ Cardinality(Lower(T, p)) \in Nat
             /\ Cardinality(Lower(S, p)) <= Cardinality(Lower(T, p))
  <2>1. IsFiniteSet(Lower(T, p)) /\ Lower(S, p) \subseteq Lower(T, p)
    BY <1>1, PageSize
  <2> QED
    BY <2>1, FS_Subset, FS_CardinalityType
<1>2. Best(A) \subseteq A /\ Best(A) \cup B \subseteq A \cup B /\ A \cup B \subseteq Positions
  BY DEF Best
<1>3. \A S : Best(S) = {p \in S : Cardinality(Lower(S, p)) < Limit}
  BY DEF Best
<1> HIDE DEF Lower
<1>4. ASSUME NEW p \in Best(A \cup B) PROVE p \in Best(Best(A) \cup B)
  <2>1. p \in A \cup B /\ Cardinality(Lower(A \cup B, p)) < Limit
    BY <1>3
  <2>2. Cardinality(Lower(A, p)) < Limit
    BY <1>1, <1>2, <2>1, ParametersAssumption
  <2>3. Cardinality(Lower(Best(A) \cup B, p)) < Limit
    BY <1>1, <1>2, <2>1, ParametersAssumption
  <2> QED
    BY <1>3, <2>1, <2>2, <2>3
<1>5. ASSUME NEW p \in Best(Best(A) \cup B) PROVE p \in Best(A \cup B)
  <2>1. p \in A \cup B /\ Cardinality(Lower(Best(A) \cup B, p)) < Limit
    BY <1>2, <1>3
  <2> DEFINE Lost == {q \in A \ Best(A) : Rank[q] < Rank[p]}
  <2>2. CASE Lost = {}
    <3>1. Lower(Best(A) \cup B, p) = Lower(A \cup B, p)
      BY <1>2, <2>2 DEF Lower
    <3> QED
      BY <1>3, <2>1, <3>1
  <2>3. CASE Lost # {}
    <3>1. \A q \in Lost : q \in Positions /\ Rank[q] \in Nat
      BY ParametersAssumption
    <3>2. PICK r \in {Rank[q] : q \in Lost} : \A m \in {Rank[q] : q \in Lost} : r <= m
      <4>1. {Rank[q] : q \in Lost} \subseteq Nat /\ {Rank[q] : q \in Lost} # {}
        BY <2>3, <3>1
      <4> QED
        BY <4>1, LeastNumber
    <3>3. PICK q \in Lost : \A x \in Lost : Rank[q] <= Rank[x]
      BY <3>2
    <3>4. Lower(A, q) \subseteq Lower(Best(A) \cup B, p)
      <4> SUFFICES ASSUME NEW x \in Lower(A, q) PROVE x \in Lower(Best(A) \cup B, p)
        OBVIOUS
      <4>1. x \in A /\ Rank[x] < Rank[q] /\ Rank[q] < Rank[p]
        BY <3>3 DEF Lower
      <4>2. x \in Positions /\ Rank[x] \in Nat /\ Rank[q] \in Nat /\ p \in Positions /\ Rank[p] \in Nat
        BY <1>2, <2>1, <3>1, <3>3, <4>1, ParametersAssumption
      <4>3. x \notin Lost
        BY <3>3, <4>1, <4>2
      <4> QED
        BY <4>1, <4>2, <4>3 DEF Lower
    <3>5. Lower(A, q) \subseteq Positions /\ Lower(Best(A) \cup B, p) \subseteq Positions
      BY <1>2 DEF Lower
    <3>6. Cardinality(Lower(A, q)) <= Cardinality(Lower(Best(A) \cup B, p))
          /\ Cardinality(Lower(A, q)) \in Nat
          /\ Cardinality(Lower(Best(A) \cup B, p)) \in Nat
      BY <3>4, <3>5, PageSize, FS_Subset
    <3>7. ~(Cardinality(Lower(A, q)) < Limit)
      BY <1>3, <3>3
    <3> QED
      BY <2>1, <3>6, <3>7, ParametersAssumption
  <2> QED
    BY <2>2, <2>3
<1> QED
  BY <1>4, <1>5

-----------------------------------------------------------------------------
(* Steps that leave the source and both copies of the progress alone. *)
LEMMA ScannedQuiet ==
  ASSUME DataOK, UNCHANGED <<mode, table, moved, cp, checkpoint>>
  PROVE  SourceOK' /\ Scanned(cp)' /\ (checkpoint # NoFile => Scanned(checkpoint))'
<1>1. SourceOK'
  BY DEF DataOK, SourceOK
<1>2. Scanned(cp)'
  BY DEF DataOK, Scanned, OnceEach, NoneBeyond, AllPassed, WithinLimits, Selects, Held,
         Passed, Offered
<1>3. (checkpoint # NoFile => Scanned(checkpoint))'
  BY DEF DataOK, Scanned, OnceEach, NoneBeyond, AllPassed, WithinLimits, Selects, Held,
         Passed, Offered
<1> QED
  BY <1>1, <1>2, <1>3

(* A process that is gone has no data to answer for. *)
LEMMA ExitScanned ==
  ASSUME DataOK, Exit, UNCHANGED <<mode, table, moved>>, checkpoint' \in {checkpoint, NoFile}
  PROVE  DataOK'
<1>1. SourceOK'
  BY DEF DataOK, SourceOK
<1>2. Scanned(cp)'
  <2>1. (table \subseteq Positions => Scanned(Fresh))'
    BY FreshScanned, PTL
  <2> QED
    BY <1>1, <2>1 DEF Exit, SourceOK, Scanned, OnceEach, NoneBeyond, AllPassed, WithinLimits,
                      Selects, Held, Passed, Offered, Fresh
<1>3. (checkpoint # NoFile => Scanned(checkpoint))'
  <2>1. CASE checkpoint' = checkpoint
    BY <2>1 DEF DataOK, Scanned, OnceEach, NoneBeyond, AllPassed, WithinLimits, Selects, Held,
                Passed, Offered
  <2> QED
    BY <2>1
<1>4. PageExact' /\ Named' /\ Shrinking' /\ LiveExact' /\ Final'
  BY DEF Exit, PageExact, Merging, Named, Shrinking, LiveExact, Final
<1> QED
  BY <1>1, <1>2, <1>3, <1>4 DEF DataOK

LEMMA InitData == Init => DataOK
<1> SUFFICES ASSUME Init PROVE DataOK
  OBVIOUS
<1>1. SourceOK /\ Scanned(cp) /\ checkpoint = NoFile
  BY FreshScanned DEF Init, SourceOK
<1>2. PageExact /\ Named /\ Shrinking /\ LiveExact /\ Final
  BY DEF Init, PageExact, Merging, Named, Shrinking, LiveExact, Final
<1> QED
  BY <1>1, <1>2 DEF DataOK

LEMMA AttemptData == ASSUME IInv, DataOK, Attempt PROVE DataOK'
<1>1. PageExact' /\ Named' /\ Shrinking' /\ LiveExact' /\ Final'
  BY DEF Attempt, StartFresh, Resume, RejectCheckpoint, PageExact, Merging, Named, Shrinking, LiveExact,
         Final, DataOK
<1>2. CASE StartFresh
  <2>1. SourceOK' /\ checkpoint' = NoFile
    BY <1>2 DEF StartFresh, DataOK, SourceOK
  <2>2. Scanned(cp)'
    <3>1. (table \subseteq Positions => Scanned(Fresh))'
      BY FreshScanned, PTL
    <3> QED
      BY <1>2, <2>1, <3>1 DEF StartFresh, SourceOK, Scanned, OnceEach, NoneBeyond, AllPassed,
                              WithinLimits, Selects, Held, Passed, Offered, Fresh
  <2> QED
    BY <1>1, <2>1, <2>2 DEF DataOK
<1>3. CASE Resume
  <2>1. SourceOK' /\ Scanned(cp)' /\ (checkpoint # NoFile => Scanned(checkpoint))'
    BY <1>3 DEF Resume, Acceptable, DataOK, SourceOK, Scanned, OnceEach, NoneBeyond, AllPassed,
                WithinLimits, Selects, Held, Passed, Offered
  <2> QED
    BY <1>1, <2>1 DEF DataOK
<1>4. CASE RejectCheckpoint
  <2>1. SourceOK' /\ Scanned(cp)' /\ (checkpoint # NoFile => Scanned(checkpoint))'
    BY <1>4, ScannedQuiet DEF RejectCheckpoint
  <2> QED
    BY <1>1, <2>1 DEF DataOK
<1> QED
  BY <1>2, <1>3, <1>4 DEF Attempt

-----------------------------------------------------------------------------
(* The scan.  A page has the rows between its predecessor's last key and   *)
(* its own, so no earlier run has any of them.                             *)
LEMMA DisjointSize ==
  ASSUME NEW S, NEW T, S \subseteq Positions, T \subseteq Positions, S \cap T = {}
  PROVE  Cardinality(S \cup T) = Cardinality(S) + Cardinality(T)
<1>1. /\ IsFiniteSet(S) /\ Cardinality(S) \in Nat
      /\ IsFiniteSet(T) /\ Cardinality(T) \in Nat
  BY PageSize
<1>2. Cardinality(S \cup T) = Cardinality(S) + Cardinality(T) - Cardinality(S \cap T)
  BY <1>1, FS_Union
<1>3. Cardinality(S \cap T) = 0
  BY FS_EmptySet
<1> QED
  BY <1>1, <1>2, <1>3

LEMMA HeldAdvanced ==
  ASSUME Sensible(cp), PageOK, mode # "cohort"
  PROVE  /\ Len(Advanced.runs) = Len(cp.runs) + 1
         /\ \A n \in 1..Len(cp.runs) : Advanced.runs[n] = cp.runs[n]
         /\ Advanced.runs[Len(cp.runs) + 1] = Rows(page.rows)
         /\ \A p \in Positions : Held(Advanced, p) <=> Held(cp, p) \/ p \in page.rows
<1>1. Advanced.runs = Append(cp.runs, Rows(page.rows))
  BY DEF Advanced
<1>2. cp.runs \in Seq([Positions -> 0..1]) /\ Len(cp.runs) \in Nat
  BY DEF Sensible, Progress
<1>3. /\ Len(Advanced.runs) = Len(cp.runs) + 1
      /\ \A n \in 1..Len(cp.runs) : Advanced.runs[n] = cp.runs[n]
      /\ Advanced.runs[Len(cp.runs) + 1] = Rows(page.rows)
  BY <1>1, <1>2, RowsType
<1>4. ASSUME NEW p \in Positions
      PROVE  Held(Advanced, p) <=> Held(cp, p) \/ p \in page.rows
  <2>1. Rows(page.rows)[p] = 1 <=> p \in page.rows
    BY RowsAt
  <2>2. \A n \in 1..Len(Advanced.runs) : n \in 1..Len(cp.runs) \/ n = Len(cp.runs) + 1
    BY <1>2, <1>3
  <2>3. 1..Len(cp.runs) \subseteq 1..Len(Advanced.runs)
        /\ Len(cp.runs) + 1 \in 1..Len(Advanced.runs)
    BY <1>2, <1>3
  <2> QED
    BY <1>3, <2>1, <2>2, <2>3 DEF Held
<1> QED
  BY <1>3, <1>4

LEMMA AdvancedRuns ==
  ASSUME Sensible(cp), PageOK, PageExact, SourceOK, Scanned(cp), pc = "keep", mode # "cohort"
  PROVE  OnceEach(Advanced) /\ NoneBeyond(Advanced) /\ AllPassed(Advanced)
<1> USE DEF Scanned
<1>1. /\ cp.key \in 0..Last /\ page.next \in 0..Last /\ ~cp.complete
      /\ page.next # 0 => page.next > cp.key
      /\ Len(cp.runs) \in Nat
  BY DEF Sensible, Progress, PageOK
<1>2. /\ Advanced.key = page.next
      /\ ~Advanced.complete => page.next # 0
      /\ Advanced.complete /\ ~Advanced.truncated => page.next = 0
  BY DEF Advanced
<1>3. \A p \in Positions : Held(cp, p) => p <= cp.key
  BY <1>1 DEF NoneBeyond
<1>4. \A p \in page.rows : p \in Positions /\ p > cp.key
  BY DEF PageOK, PageExact
<1>5. \A p \in Positions : p \in Nat /\ p > 0
  BY ParametersAssumption DEF Positions
<1>6. OnceEach(Advanced)
  <2> SUFFICES ASSUME NEW p \in Positions,
                      NEW m \in 1..Len(Advanced.runs), NEW n \in 1..Len(Advanced.runs),
                      Advanced.runs[m][p] = 1, Advanced.runs[n][p] = 1
               PROVE  m = n
    BY DEF OnceEach
  <2>1. \A k \in 1..Len(Advanced.runs) : k \in 1..Len(cp.runs) \/ k = Len(cp.runs) + 1
    BY <1>1, HeldAdvanced
  <2>2. Rows(page.rows)[p] = 1 <=> p \in page.rows
    BY RowsAt
  <2>3. ~(Held(cp, p) /\ p \in page.rows)
    BY <1>1, <1>3, <1>4, <1>5
  <2> QED
    BY <2>1, <2>2, <2>3, HeldAdvanced DEF OnceEach, Held
<1>7. NoneBeyond(Advanced)
  <2> SUFFICES ASSUME ~Advanced.complete, NEW p \in Positions, Held(Advanced, p)
               PROVE  p <= Advanced.key
    BY DEF NoneBeyond
  <2>1. CASE Held(cp, p)
    BY <1>1, <1>2, <1>3, <1>5, <2>1
  <2>2. CASE p \in page.rows
    BY <1>2, <2>2 DEF PageExact
  <2> QED
    BY <2>1, <2>2, HeldAdvanced
<1>8. AllPassed(Advanced)
  <2> SUFFICES ASSUME NEW p \in Passed(Advanced) \ moved
               PROVE  Held(Advanced, p) <=> p \in table
    BY DEF AllPassed
  <2>1. p \in Positions /\ (page.next # 0 => p <= page.next)
    BY <1>2, <1>5 DEF Passed
  <2>2. CASE p <= cp.key
    <3>1. Held(cp, p) <=> p \in table
      BY <2>1, <2>2 DEF AllPassed, Passed
    <3>2. p \notin page.rows
      BY <1>1, <1>4, <1>5, <2>1, <2>2
    <3> QED
      BY <2>1, <3>1, <3>2, HeldAdvanced
  <2>3. CASE p > cp.key
    <3>1. ~Held(cp, p)
      BY <1>1, <1>3, <1>5, <2>1, <2>3
    <3>2. p \in page.rows <=> p \in table
      BY <2>1, <2>3 DEF PageExact
    <3> QED
      BY <2>1, <3>1, <3>2, HeldAdvanced
  <2> QED
    BY <1>1, <1>5, <2>1, <2>2, <2>3
<1> QED
  BY <1>6, <1>7, <1>8

LEMMA AdvancedCohort ==
  ASSUME Sensible(cp), PageOK, PageExact, SourceOK, Scanned(cp), pc = "keep"
  PROVE  Selects(Advanced)
<1> SUFFICES ASSUME mode = "cohort", moved = {}
             PROVE  /\ Advanced.selection = Best(Offered(Advanced))
                    /\ Advanced.items = Cardinality(Offered(Advanced))
  BY DEF Selects
<1>1. /\ cp.key \in 0..Last /\ page.next \in 0..Last /\ ~cp.complete
      /\ page.next # 0 => page.next > cp.key
  BY DEF Sensible, Progress, PageOK
<1>2. /\ Advanced.selection = Best(cp.selection \cup page.rows)
      /\ Advanced.items = cp.items + Cardinality(page.rows)
      /\ Advanced.key = page.next
      /\ Advanced.complete <=> page.next = 0
  BY DEF Advanced
<1>3. cp.selection = Best(Offered(cp)) /\ cp.items = Cardinality(Offered(cp))
  BY DEF Scanned, Selects
<1>4. \A p \in Positions : p \in Nat /\ p > 0
  BY ParametersAssumption DEF Positions
<1>5. Offered(cp) \subseteq Positions /\ page.rows \subseteq Positions
  BY DEF Offered, SourceOK, PageOK
<1>6. \A p \in page.rows : p > cp.key /\ (page.next # 0 => p <= page.next)
  BY DEF PageExact
<1>7. \A p \in Positions : p > cp.key /\ (page.next # 0 => p <= page.next)
                           => (p \in page.rows <=> p \in table)
  BY DEF PageExact
<1>8. Offered(Advanced) = Offered(cp) \cup page.rows
  <2>1. \A p \in Offered(Advanced) : p \in table /\ (page.next # 0 => p <= page.next)
    BY <1>2 DEF Offered
  <2>2. \A p \in table : p \in Positions
    BY DEF SourceOK
  <2>3. \A p \in Offered(Advanced) : p \in Offered(cp) \/ p \in page.rows
    BY <1>1, <1>4, <1>7, <2>1, <2>2 DEF Offered
  <2>4. \A p \in page.rows : p \in Offered(Advanced)
    BY <1>2, <1>5, <1>6, <1>7 DEF Offered
  <2>5. \A p \in Offered(cp) : p \in Offered(Advanced)
    BY <1>1, <1>2, <1>4, <2>2 DEF Offered
  <2> QED
    BY <2>3, <2>4, <2>5
<1>9. Offered(cp) \cap page.rows = {}
  BY <1>1, <1>4, <1>5, <1>6 DEF Offered
<1>10. Cardinality(Offered(cp) \cup page.rows) = Cardinality(Offered(cp)) + Cardinality(page.rows)
  BY <1>5, <1>9, DisjointSize
<1>11. Best(cp.selection \cup page.rows) = Best(Offered(cp) \cup page.rows)
  BY <1>3, <1>5, BestOfBest
<1> QED
  BY <1>2, <1>3, <1>8, <1>10, <1>11

LEMMA AdvancedScanned ==
  ASSUME Sensible(cp), PageOK, PageExact, SourceOK, Scanned(cp), pc = "keep"
  PROVE  Scanned(Advanced)
<1>1. Sensible(Advanced)
  BY AdvancedOK
<1>2. WithinLimits(Advanced)
  <2>1. Advanced.pages = cp.pages + 1 /\ cp.pages \in Nat
    BY DEF Advanced, Sensible, Progress
  <2>2. mode = "bounded" /\ ~Advanced.complete =>
          Advanced.items # MaxItems /\ Advanced.pages # MaxPages
    BY DEF Advanced
  <2>3. Advanced.items \in Nat /\ Advanced.pages \in Nat
    BY <1>1, ParametersAssumption DEF Sensible, Progress
  <2> QED
    BY <1>1, <2>1, <2>2, <2>3, ParametersAssumption DEF WithinLimits, Sensible
<1>3. OnceEach(Advanced) /\ NoneBeyond(Advanced) /\ AllPassed(Advanced)
  <2>1. CASE mode # "cohort"
    BY <2>1, AdvancedRuns
  <2>2. CASE mode = "cohort"
    <3>1. Len(Advanced.runs) = 0
      BY <1>1, <2>2 DEF Sensible
    <3> QED
      BY <2>2, <3>1 DEF OnceEach, NoneBeyond, AllPassed, Held
  <2> QED
    BY <2>1, <2>2
<1> QED
  BY <1>2, <1>3, AdvancedCohort DEF Scanned

LEMMA KeepPageData == ASSUME IInv, DataOK, KeepPage PROVE DataOK'
<1>1. pc = "keep" /\ pc' \in {"save", "scan"} /\ cp' = Advanced
      /\ UNCHANGED <<mode, table, moved, checkpoint>>
  BY DEF KeepPage
<1>2. Scanned(Advanced)
  BY <1>1, AdvancedScanned DEF IInv, StateOK, DataOK
<1>3. SourceOK' /\ (checkpoint # NoFile => Scanned(checkpoint))'
  BY <1>1 DEF DataOK, SourceOK, Scanned, OnceEach, NoneBeyond, AllPassed, WithinLimits, Selects,
              Held, Passed, Offered
<1>4. Scanned(cp)'
  BY <1>1, <1>2 DEF Scanned, OnceEach, NoneBeyond, AllPassed, WithinLimits, Selects,
                    Held, Passed, Offered
<1>5. PageExact' /\ Named' /\ Shrinking' /\ LiveExact' /\ Final'
  BY <1>1 DEF PageExact, Merging, Named, Shrinking, LiveExact, Final
<1> QED
  BY <1>3, <1>4, <1>5 DEF DataOK

LEMMA ScanPageData == ASSUME IInv, DataOK, ScanPage PROVE DataOK'
<1>1. SourceOK' /\ Scanned(cp)' /\ (checkpoint # NoFile => Scanned(checkpoint))'
  BY ScannedQuiet DEF ScanPage
<1>2. PICK end \in cp.key..Last, more \in BOOLEAN :
        LET rows == table \cap ((cp.key + 1)..end)
        IN /\ IF more THEN end > cp.key ELSE end = Last
           /\ page' = [rows |-> rows, next |-> IF more THEN end ELSE 0]
  BY DEF ScanPage
<1>3. cp.key \in 0..Last /\ table \subseteq Positions
  BY DEF IInv, StateOK, Sensible, Progress, DataOK, SourceOK
<1>4. page'.rows = table \cap ((cp.key + 1)..end) /\ page'.next = (IF more THEN end ELSE 0)
  BY <1>2
<1>5. /\ \A p \in page'.rows : p > cp.key /\ (page'.next # 0 => p <= page'.next)
      /\ \A p \in Positions \ moved :
           p > cp.key /\ (page'.next # 0 => p <= page'.next) => (p \in page'.rows <=> p \in table)
  BY <1>2, <1>3, <1>4, ParametersAssumption DEF Positions
<1>6. PageExact' /\ Named' /\ Shrinking' /\ LiveExact' /\ Final'
  BY <1>5 DEF ScanPage, PageExact, Merging, Named, Shrinking, LiveExact, Final
<1> QED
  BY <1>1, <1>6 DEF DataOK

LEMMA SaveCheckpointData == ASSUME IInv, DataOK, SaveCheckpoint PROVE DataOK'
<1>1. SourceOK' /\ Scanned(cp)' /\ Scanned(checkpoint)'
  BY DEF SaveCheckpoint, DataOK, SourceOK, Scanned, OnceEach, NoneBeyond, AllPassed,
         WithinLimits, Selects, Held, Passed, Offered
<1>2. PageExact' /\ Named' /\ Shrinking' /\ LiveExact' /\ Final'
  BY DEF SaveCheckpoint, PageExact, Merging, Named, Shrinking, LiveExact, Final
<1> QED
  BY <1>1, <1>2 DEF DataOK

(* A write by another client: its position is answered for no longer. *)
LEMMA WriteItemData == ASSUME IInv, DataOK, NEW w \in Positions, WriteItem(w) PROVE DataOK'
<1>1. SourceOK' /\ w \in moved'
  BY DEF WriteItem, DataOK, SourceOK
<1>2. \A p \in Positions \ moved' : p \in Positions \ moved /\ (p \in table' <=> p \in table)
  BY DEF WriteItem
<1>3. moved' # {} /\ UNCHANGED <<mode, cp, checkpoint>> /\ pc = "scan" /\ pc' = "scan"
  BY <1>1 DEF WriteItem
<1>4. Scanned(cp)'
  BY <1>2, <1>3 DEF DataOK, Scanned, OnceEach, NoneBeyond, AllPassed, WithinLimits, Selects,
                    Held, Passed
<1>5. (checkpoint # NoFile => Scanned(checkpoint))'
  BY <1>2, <1>3 DEF DataOK, Scanned, OnceEach, NoneBeyond, AllPassed, WithinLimits, Selects,
                    Held, Passed
<1>6. PageExact' /\ Named' /\ Shrinking' /\ LiveExact' /\ Final'
  BY <1>3 DEF PageExact, Merging, Named, Shrinking, LiveExact, Final
<1> QED
  BY <1>1, <1>4, <1>5, <1>6 DEF DataOK

-----------------------------------------------------------------------------
(* A scan that is over is complete: the limits are reached only by a page  *)
(* that says so.                                                           *)
LEMMA ScanOver ==
  ASSUME Sensible(cp), Scanned(cp), ~Scanning
  PROVE  cp.complete /\ cp.pages > 0
BY DEF Scanned, WithinLimits, Scanning, Sensible, Progress

LEMMA SelectCohortData == ASSUME IInv, DataOK, SelectCohort PROVE DataOK'
<1> USE DEF SelectCohort
<1>1. /\ cp'.key = cp.key /\ cp'.complete = cp.complete /\ cp'.runs = cp.runs
      /\ cp'.items = cp.items /\ cp'.pages = cp.pages /\ cp'.selection = cp.selection
      /\ cp'.truncated = (cp.items > Limit)
  <2>1. cp \in Progress
    BY DEF IInv, StateOK, Sensible
  <2> QED
    BY <2>1 DEF Progress
<1>2. SourceOK' /\ (checkpoint # NoFile => Scanned(checkpoint))'
  BY DEF DataOK, SourceOK, Scanned, OnceEach, NoneBeyond, AllPassed, WithinLimits, Selects,
         Held, Passed, Offered
<1>3. Scanned(cp)'
  BY <1>1 DEF DataOK, Scanned, OnceEach, NoneBeyond, AllPassed, WithinLimits, Selects,
              Held, Offered
<1>4. PageExact' /\ Named' /\ Shrinking' /\ LiveExact' /\ Final'
  <2>1. cp.complete
    BY ScanOver DEF IInv, StateOK, DataOK
  <2> QED
    BY <1>1, <2>1 DEF PageExact, Merging, Named, Shrinking, LiveExact, Final
<1> QED
  BY <1>2, <1>3, <1>4 DEF DataOK

LEMMA NumberedAt ==
  ASSUME NEW s, NEW k, Numbered(s, k), NEW n \in 1..Len(s)
  PROVE  s[n] = <<k, n>>
BY DEF Numbered

LEMMA NumberedMore ==
  ASSUME NEW s \in Seq(Nat \X Nat), NEW k \in Nat, Numbered(s, k)
  PROVE  /\ Numbered(Append(s, <<k, Len(s) + 1>>), k)
         /\ Len(Append(s, <<k, Len(s) + 1>>)) = Len(s) + 1
<1> DEFINE t == Append(s, <<k, Len(s) + 1>>)
<1>1. /\ Len(s) \in Nat /\ Len(t) = Len(s) + 1 /\ t[Len(s) + 1] = <<k, Len(s) + 1>>
      /\ \A n \in 1..Len(s) : t[n] = s[n]
  <2>1. <<k, Len(s) + 1>> \in Nat \X Nat
    OBVIOUS
  <2> HIDE DEF t
  <2>2. t = Append(s, <<k, Len(s) + 1>>)
    BY DEF t
  <2> QED
    BY <2>1, <2>2
<1> HIDE DEF t
<1>2. ASSUME NEW n \in 1..Len(t) PROVE t[n] = <<k, n>>
  <2>1. CASE n = Len(s) + 1
    BY <1>1, <2>1
  <2>2. CASE n \in 1..Len(s)
    BY <1>1, <2>2, NumberedAt
  <2> QED
    BY <1>1, <2>1, <2>2
<1>3. Numbered(t, k)
  BY <1>2 DEF Numbered
<1> QED
  BY <1>1, <1>3 DEF t

(* The page runs are the first pass's input. *)
LEMMA BeginMergeData == ASSUME IInv, DataOK, BeginMerge PROVE DataOK'
<1> USE DEF BeginMerge
<1>1. SourceOK' /\ Scanned(cp)' /\ (checkpoint # NoFile => Scanned(checkpoint))'
  BY ScannedQuiet
<1>2. /\ cp.complete /\ mode # "cohort" /\ UNCHANGED <<mode, cp, disk>>
      /\ Len(cp.runs) \in Nat \ {0} /\ Len(cp.runs) <= Last + 1
      /\ cp.runs \in Seq([Positions -> 0..1])
  BY ScanOver, ParametersAssumption DEF IInv, StateOK, DataOK, Sensible, Progress
<1>3. /\ Len(inputs') = Len(cp.runs)
      /\ Numbered(inputs', 0) /\ Numbered(outputs', 1)
      /\ outputs' = <<>> /\ pass' = 0 /\ Len(outputs') = 0
  <2>1. inputs' \in Seq(Nat \X Nat)
    BY <1>2 DEF RunOf
  <2>2. DOMAIN inputs' = 1..Len(cp.runs)
    OBVIOUS
  <2>3. Len(inputs') = Len(cp.runs)
    BY <1>2, <2>1, <2>2
  <2>4. Numbered([n \in 1..Len(cp.runs) |-> RunOf(n)], 0)
    <3> SUFFICES ASSUME NEW n \in 1..Len([m \in 1..Len(cp.runs) |-> RunOf(m)])
                 PROVE  [m \in 1..Len(cp.runs) |-> RunOf(m)][n] = <<0, n>>
      BY Zenon DEF Numbered
    <3> QED
      BY <2>3 DEF RunOf
  <2>5. Numbered(<<>>, 1)
    BY DEF Numbered
  <2> QED
    BY <2>3, <2>4, <2>5
<1>4. PageExact' /\ Final'
  BY <1>2 DEF PageExact, Final
<1>5. Named' /\ Shrinking'
  <2>1. Named'
    <3>1. Numbered(outputs', pass' + 1) /\ Numbered(inputs', pass')
      BY <1>3
    <3> QED
      BY <3>1 DEF Named
  <2>2. Shrinking'
    BY <1>2, <1>3 DEF Shrinking
  <2> QED
    BY <2>1, <2>2
<1>6. Live' = {<<0, n>> : n \in 1..Len(cp.runs)}
  <2>1. Consumed' = 0
    BY <1>3, ParametersAssumption DEF Consumed
  <2>2. {n \in 1..Len(inputs') : n > Consumed'} = 1..Len(cp.runs)
    BY <1>2, <1>3, <2>1
  <2>3. Live' = {<<0, n>> : n \in 1..Len(cp.runs)} \cup {<<1, n>> : n \in 1..0}
    BY <1>3, <2>2 DEF Live
  <2> QED
    BY <2>3
<1>7. \A n \in 1..Len(cp.runs) : disk[<<0, n>>] = cp.runs[n]
  BY DEF IInv, FilesOK, Intact, RunOf
<1>8. LiveExact'
  <2>1. \A f \in Live' : \E n \in 1..Len(cp.runs) : f = <<0, n>> /\ disk[f] = cp.runs[n]
    BY <1>6, <1>7
  <2>2. \A n \in 1..Len(cp.runs) : \E f \in Live' : disk[f] = cp.runs[n]
    BY <1>6, <1>7
  <2>3. \A f \in Live' : disk[f] \in [Positions -> 0..1]
    BY <1>2, <2>1
  <2>4. \A p \in Positions : \A f, g \in Live' : disk[f][p] = 1 /\ disk[g][p] = 1 => f = g
    BY <2>1 DEF DataOK, Scanned, OnceEach
  <2>5. \A p \in Positions : Held(cp, p) <=> \E f \in Live' : disk[f][p] = 1
    BY <2>1, <2>2 DEF Held
  <2> QED
    BY <1>2, <2>3, <2>4, <2>5 DEF LiveExact, Held
<1> QED
  BY <1>1, <1>4, <1>5, <1>8 DEF DataOK

LEMMA MergeFacts ==
  ASSUME IInv, DataOK, Merging
  PROVE  /\ Numbered(inputs, pass) /\ Numbered(outputs, pass + 1)
         /\ Len(inputs) \in Nat /\ Len(inputs) > 0 /\ Len(inputs) + pass <= Last + 1
         /\ Len(outputs) > 0 => Len(inputs) > 1 /\ (Len(outputs) - 1) * FanIn < Len(inputs)
         /\ pc = "copy" => Len(inputs) > 1 /\ Pending
         /\ pc \in {"split", "parts", "done"} => Len(inputs) = 1
         /\ Len(outputs) \in Nat /\ pass \in Nat
         /\ outputs \in Seq(Nat \X Nat)
<1>1. Named /\ Shrinking /\ MergeOK
  BY DEF DataOK, IInv, StateOK
<1>2. Numbered(inputs, pass) /\ Numbered(outputs, pass + 1)
  BY <1>1 DEF Named
<1>3. /\ Len(inputs) \in Nat /\ Len(inputs) > 0 /\ Len(inputs) + pass <= Last + 1
      /\ Len(outputs) > 0 => Len(inputs) > 1 /\ (Len(outputs) - 1) * FanIn < Len(inputs)
      /\ pc = "copy" => Len(inputs) > 1 /\ Pending
      /\ pc \in {"split", "parts", "done"} => Len(inputs) = 1
  BY <1>1 DEF Shrinking
<1>4. Len(outputs) \in Nat /\ pass \in Nat /\ outputs \in Seq(Nat \X Nat)
  BY <1>1 DEF MergeOK
<1> QED
  BY <1>2, <1>3, <1>4

(* No file of this merge is among the live ones before it is complete. *)
LEMMA OutputApart ==
  ASSUME IInv, DataOK, mode # "cohort", pc \in {"merge", "copy"}
  PROVE  /\ Output \notin Live
         /\ Len(inputs) > 1 => pass + 1 \in 0..Last
         /\ Len(inputs) > 1 /\ Pending => Output \in Files
<1>1. /\ Len(inputs) \in Nat /\ Len(inputs) > 0 /\ Len(inputs) + pass <= Last + 1
      /\ Len(outputs) \in Nat /\ pass \in Nat
  BY MergeFacts DEF Merging
<1>2. Output \notin Live
  BY <1>1 DEF Live, Output
<1>3. Len(inputs) > 1 => pass + 1 \in 0..Last
  BY <1>1, ParametersAssumption
<1>4. Len(inputs) > 1 /\ Pending => Len(outputs) + 1 \in 1..(Last + 1)
  <2>1. Len(outputs) <= Len(outputs) * FanIn
    BY <1>1, ParametersAssumption
  <2>2. Len(outputs) * FanIn \in Nat
    BY <1>1, ParametersAssumption
  <2> QED
    BY <1>1, <2>1, <2>2, ParametersAssumption DEF Pending
<1> QED
  BY <1>2, <1>3, <1>4 DEF Output, Files

LEMMA LiveKept ==
  ASSUME DataOK, mode # "cohort", pc \in {"merge", "copy"}, UNCHANGED <<mode, cp>>,
         Live' = Live, \A f \in Live : disk'[f] = disk[f]
  PROVE  LiveExact'
BY DEF DataOK, LiveExact, Held

LEMMA OpenOutputData == ASSUME IInv, DataOK, OpenOutput PROVE DataOK'
<1> USE DEF OpenOutput
<1>1. SourceOK' /\ Scanned(cp)' /\ (checkpoint # NoFile => Scanned(checkpoint))'
  BY ScannedQuiet
<1>2. PageExact' /\ Named' /\ Shrinking' /\ Final'
  BY DEF DataOK, PageExact, Merging, Named, Shrinking, Final, Pending
<1>3. LiveExact'
  <2>1. CASE mode = "cohort"
    BY <2>1 DEF LiveExact
  <2>2. CASE mode # "cohort"
    <3>1. Output \notin Live
      BY <2>2, OutputApart
    <3>2. Live' = Live
      BY DEF Live, Consumed
    <3>3. \A f \in Live : disk'[f] = disk[f]
      BY <3>1 DEF IInv, StateOK, DiskOK
    <3> QED
      BY <2>2, <3>2, <3>3, LiveKept
  <2> QED
    BY <2>1, <2>2
<1> QED
  BY <1>1, <1>2, <1>3 DEF DataOK

(* What the heap merge makes of files that share no row. *)
LEMMA MergedContent ==
  ASSUME NEW S, \A n \in S : disk[inputs[n]] \in [Positions -> 0..1],
         \A p \in Positions : \A m, n \in S :
           disk[inputs[m]][p] = 1 /\ disk[inputs[n]][p] = 1 => m = n
  PROVE  Merged(S) = Rows({p \in Positions : \E n \in S : disk[inputs[n]][p] = 1})
<1> DEFINE V(n, p) == disk[inputs[n]][p]
<1>1. ASSUME NEW p \in Positions
      PROVE  Cardinality(RowsOf(S, p)) = IF \E n \in S : V(n, p) = 1 THEN 1 ELSE 0
  <2>1. \A n \in S : V(n, p) \in 0..1
    OBVIOUS
  <2>2. RowsOf(S, p) = UNION {{n} \X (1..V(n, p)) : n \in S}
    BY DEF RowsOf
  <2> HIDE DEF V
  <2>3. CASE \E n \in S : V(n, p) = 1
    <3>1. PICK n \in S : V(n, p) = 1
      BY <2>3
    <3>2. \A m \in S : m # n => V(m, p) = 0
      BY <2>1, <3>1 DEF V
    <3>3. \A x : x \in RowsOf(S, p) => x = <<n, 1>>
      BY <2>2, <3>1, <3>2
    <3>4. <<n, 1>> \in RowsOf(S, p)
      BY <2>2, <3>1
    <3>5. RowsOf(S, p) = {<<n, 1>>}
      BY <3>3, <3>4
    <3> QED
      BY <2>3, <3>5, FS_Singleton
  <2>4. CASE ~\E n \in S : V(n, p) = 1
    <3>1. \A n \in S : V(n, p) = 0
      BY <2>1, <2>4
    <3>2. RowsOf(S, p) = {}
      BY <2>2, <3>1
    <3> QED
      BY <2>4, <3>2, FS_EmptySet
  <2> QED
    BY <2>3, <2>4
<1> QED
  BY <1>1 DEF Merged, Rows

LEMMA MergeGroupData == ASSUME IInv, DataOK, MergeGroup PROVE DataOK'
<1>1. SourceOK' /\ Scanned(cp)' /\ (checkpoint # NoFile => Scanned(checkpoint))'
  BY ScannedQuiet DEF MergeGroup
<1>2. PageExact' /\ Final'
  BY DEF MergeGroup, DataOK, PageExact, Final
<1>3. CASE mode = "cohort"
  BY <1>1, <1>2, <1>3 DEF MergeGroup, DataOK, Merging, Named, Shrinking, LiveExact
<1>4. CASE mode # "cohort"
  <2>1. /\ Numbered(inputs, pass) /\ Numbered(outputs, pass + 1)
        /\ Len(inputs) \in Nat /\ Len(inputs) > 1 /\ Len(inputs) + pass <= Last + 1
        /\ Pending /\ Len(outputs) \in Nat /\ pass \in Nat
        /\ outputs \in Seq(Nat \X Nat)
    <3>1. pc = "copy" /\ Merging
      BY <1>4 DEF MergeGroup, Merging
    <3>2. /\ Numbered(inputs, pass) /\ Numbered(outputs, pass + 1)
          /\ Len(inputs) \in Nat /\ Len(inputs) > 1
          /\ Len(inputs) + pass <= Last + 1 /\ Pending /\ Len(outputs) \in Nat
          /\ pass \in Nat /\ outputs \in Seq(Nat \X Nat)
      BY <3>1, MergeFacts, Zenon
    <3> QED
      BY <3>2, Zenon
  <2>2. Output \notin Live /\ Output \in Files /\ Output = <<pass + 1, Len(outputs) + 1>>
    <3>1. pc \in {"merge", "copy"}
      BY DEF MergeGroup
    <3>2. Len(inputs) > 1 /\ Pending
      BY <2>1
    <3>3. Output \notin Live /\ Output \in Files
      BY <1>4, <3>1, <3>2, OutputApart, Zenon
    <3> QED
      BY <3>3 DEF Output
  <2>3. Len(outputs') = Len(outputs) + 1 /\ Numbered(outputs', pass' + 1)
    <3>1. outputs' = Append(outputs, <<pass + 1, Len(outputs) + 1>>) /\ pass' = pass
      BY <2>2 DEF MergeGroup
    <3>2. pass + 1 \in Nat
      BY <2>1
    <3> QED
      BY <2>1, <3>1, <3>2, NumberedMore
  <2>4. Named' /\ Shrinking'
    <3>1. (Len(outputs') - 1) * FanIn < Len(inputs)
      <4>1. (Len(outputs') - 1) * FanIn = Len(outputs) * FanIn
        BY <2>1, <2>3
      <4> QED
        BY <2>1, <4>1 DEF Pending
    <3>2. inputs' = inputs /\ pass' = pass /\ pc' = "merge"
      BY DEF MergeGroup
    <3>3. Named'
      BY <2>1, <2>3, <3>2 DEF Named
    <3>4. Shrinking'
      <4>1. /\ Len(inputs') \in Nat /\ Len(inputs') > 1
            /\ Len(inputs') + pass' <= Last + 1
            /\ (Len(outputs') - 1) * FanIn < Len(inputs')
        <5>1. Len(inputs) \in Nat /\ Len(inputs) > 1 /\ Len(inputs) + pass <= Last + 1
          BY <2>1
        <5> QED
          BY <3>1, <3>2, <5>1, Zenon
      <4> QED
        BY <3>2, <4>1 DEF Shrinking
    <3> QED
      BY <3>3, <3>4
  <2> DEFINE Taken == {<<pass, n>> : n \in Group}
  <2>5. Consumed' = Consumed + FanIn /\ Consumed \in Nat
    BY <2>1, <2>3, ParametersAssumption DEF Consumed
  <2>6. Group = {n \in 1..Len(inputs) : n > Consumed /\ n <= Consumed + FanIn}
    BY <2>1, ParametersAssumption DEF Group, Consumed
  <2>7. Taken \subseteq Live
    BY <2>6 DEF MergeGroup, Live
  <2>8. Live' = (Live \ Taken) \cup {Output}
    <3>1. ASSUME NEW f \in Live' PROVE f \in (Live \ Taken) \cup {Output}
      <4>1. CASE \E n \in 1..Len(inputs) : n > Consumed' /\ f = <<pass, n>>
        BY <2>1, <2>5, <2>6, <4>1, ParametersAssumption DEF MergeGroup, Live
      <4>2. CASE \E n \in 1..Len(outputs') : f = <<pass + 1, n>>
        BY <2>1, <2>2, <2>3, <4>2 DEF MergeGroup, Live
      <4> QED
        BY <4>1, <4>2 DEF MergeGroup, Live
    <3>2. ASSUME NEW f \in Live \ Taken PROVE f \in Live'
      <4>1. CASE \E n \in 1..Len(inputs) : n > Consumed /\ f = <<pass, n>>
        BY <2>1, <2>5, <2>6, <3>2, <4>1, ParametersAssumption DEF MergeGroup, Live
      <4>2. CASE \E n \in 1..Len(outputs) : f = <<pass + 1, n>>
        BY <2>1, <2>3, <4>2 DEF MergeGroup, Live
      <4> QED
        BY <3>2, <4>1, <4>2 DEF MergeGroup, Live
    <3>3. Output \in Live'
      BY <2>1, <2>2, <2>3 DEF MergeGroup, Live
    <3> QED
      BY <3>1, <3>2, <3>3
  <2>9. /\ \A f \in Live : disk[f] \in [Positions -> 0..1]
        /\ \A p \in Positions : \A f, g \in Live : disk[f][p] = 1 /\ disk[g][p] = 1 => f = g
        /\ \A p \in Positions : Held(cp, p) <=> \E f \in Live : disk[f][p] = 1
    BY <1>4 DEF MergeGroup, DataOK, LiveExact
  <2>10. \A n \in Group : inputs[n] = <<pass, n>> /\ inputs[n] \in Taken /\ n \in Nat
    <3> SUFFICES ASSUME NEW n \in Group
                 PROVE  inputs[n] = <<pass, n>> /\ inputs[n] \in Taken /\ n \in Nat
      OBVIOUS
    <3>1. n \in 1..Len(inputs) /\ n \in Nat
      BY <2>1, <2>6
    <3>2. inputs[n] = <<pass, n>>
      BY <2>1, <3>1, NumberedAt
    <3> QED
      BY <3>1, <3>2
  <2>11. \A f \in Taken : \E n \in Group : inputs[n] = f
    BY <2>10
  <2>12. Merged(Group) = Rows({p \in Positions : \E f \in Taken : disk[f][p] = 1})
    <3>1. \A n \in Group : disk[inputs[n]] \in [Positions -> 0..1]
      BY <2>7, <2>9, <2>10
    <3>2. \A p \in Positions : \A m, n \in Group :
            disk[inputs[m]][p] = 1 /\ disk[inputs[n]][p] = 1 => m = n
      BY <2>7, <2>9, <2>10
    <3>3. Merged(Group) = Rows({p \in Positions : \E n \in Group : disk[inputs[n]][p] = 1})
      BY <3>1, <3>2, MergedContent
    <3>4. \A p \in Positions : (\E n \in Group : disk[inputs[n]][p] = 1)
                                 <=> (\E f \in Taken : disk[f][p] = 1)
      BY <2>10, <2>11
    <3> QED
      BY <3>3, <3>4
  <2> HIDE DEF Taken
  <2>13. /\ disk'[Output] \in [Positions -> 0..1]
         /\ \A p \in Positions : disk'[Output][p] = 1 <=> \E f \in Taken : disk[f][p] = 1
    BY <2>2, <2>12, RowsAt, RowsType DEF MergeGroup, IInv, StateOK, DiskOK
  <2>14. \A f \in Live \ Taken : disk'[f] = disk[f]
    BY <2>2 DEF MergeGroup, IInv, StateOK, DiskOK
  <2>15. LiveExact'
    <3>1. \A f \in Live' : disk'[f] \in [Positions -> 0..1]
      BY <2>8, <2>9, <2>13, <2>14
    <3>2. \A p \in Positions : \A f, g \in Live' : disk'[f][p] = 1 /\ disk'[g][p] = 1 => f = g
      BY <2>7, <2>8, <2>9, <2>13, <2>14
    <3>3. \A p \in Positions : Held(cp, p) <=> \E f \in Live' : disk'[f][p] = 1
      BY <2>7, <2>8, <2>9, <2>13, <2>14
    <3> QED
      BY <3>1, <3>2, <3>3 DEF MergeGroup, LiveExact, Held
  <2> QED
    BY <1>1, <1>2, <2>4, <2>15 DEF DataOK
<1> QED
  BY <1>3, <1>4

LEMMA Doubling ==
  ASSUME NEW a \in Nat, NEW f \in Nat \ {0, 1}, NEW n \in Nat, a * f < n
  PROVE  a * 2 < n
<1>1. a * (f - 2) \in Nat /\ a * f = a * 2 + a * (f - 2)
  OBVIOUS
<1> QED
  BY <1>1

(* The outputs become the inputs, and only the old inputs are removed.     *)
LEMMA NextPassData == ASSUME IInv, DataOK, NextPass PROVE DataOK'
<1>1. SourceOK' /\ Scanned(cp)' /\ (checkpoint # NoFile => Scanned(checkpoint))'
  BY ScannedQuiet DEF NextPass
<1>2. PageExact' /\ Final'
  BY DEF NextPass, DataOK, PageExact, Final
<1>3. CASE mode = "cohort"
  BY <1>1, <1>2, <1>3 DEF NextPass, DataOK, Merging, Named, Shrinking, LiveExact
<1>4. CASE mode # "cohort"
  <2>1. /\ Numbered(inputs, pass) /\ Numbered(outputs, pass + 1)
        /\ Len(inputs) \in Nat /\ Len(inputs) > 1 /\ Len(inputs) + pass <= Last + 1
        /\ Len(outputs) > 0 => (Len(outputs) - 1) * FanIn < Len(inputs)
        /\ ~Pending /\ Len(outputs) \in Nat /\ pass \in Nat
        /\ outputs \in Seq(Nat \X Nat)
    <3>1. pc = "merge" /\ Merging /\ ~Pending /\ Len(inputs) > 1
      BY <1>4 DEF NextPass, Merging
    <3>2. /\ Numbered(inputs, pass) /\ Numbered(outputs, pass + 1)
          /\ Len(inputs) \in Nat /\ Len(inputs) > 0 /\ Len(inputs) + pass <= Last + 1
          /\ Len(outputs) > 0 => (Len(outputs) - 1) * FanIn < Len(inputs)
          /\ Len(outputs) \in Nat /\ pass \in Nat /\ outputs \in Seq(Nat \X Nat)
      BY <3>1, MergeFacts, Zenon
    <3> QED
      BY <3>1, <3>2, Zenon
  <2>2. Len(outputs) > 0
    BY <2>1, ParametersAssumption DEF Pending
  <2>3. Len(outputs) + 1 <= Len(inputs)
    <3>1. Len(outputs) - 1 \in Nat /\ FanIn \in Nat \ {0, 1}
      BY <2>1, <2>2, ParametersAssumption
    <3>2. Len(outputs) > 0 /\ Len(inputs) \in Nat
      BY <2>1, <2>2
    <3>3. (Len(outputs) - 1) * FanIn < Len(inputs)
      BY <2>1, <3>2
    <3>4. (Len(outputs) - 1) * 2 < Len(inputs)
      BY <3>1, <3>2, <3>3, Doubling
    <3> QED
      BY <2>1, <3>4
  <2>4. /\ Numbered(inputs', pass')
        /\ inputs' = outputs /\ Len(inputs') = Len(outputs)
        /\ outputs' = <<>> /\ Len(outputs') = 0 /\ pass' = pass + 1 /\ pc' = "merge"
    <3>1. inputs' = outputs /\ outputs' = <<>> /\ pass' = pass + 1 /\ pc' = "merge"
      BY DEF NextPass
    <3>2. Numbered(inputs', pass')
      BY <2>1, <3>1
    <3> QED
      BY <3>1, <3>2
  <2>5. Named' /\ Shrinking'
    <3>1. Named'
      <4>1. Numbered(outputs', pass' + 1)
        BY <2>4 DEF Numbered
      <4> QED
        BY <2>4, <4>1 DEF Named
    <3>2. Shrinking'
      <4>1. /\ Len(inputs') \in Nat /\ Len(inputs') > 0
            /\ Len(inputs') + pass' <= Last + 1 /\ ~(Len(outputs') > 0)
        BY <2>1, <2>2, <2>3, <2>4, ParametersAssumption
      <4> QED
        BY <2>4, <4>1 DEF Shrinking
    <3> QED
      BY <3>1, <3>2
  <2>6. Live = {<<pass + 1, n>> : n \in 1..Len(outputs)}
    <3>1. {n \in 1..Len(inputs) : n > Consumed} = {}
      <4>1. Len(outputs) * FanIn \in Nat /\ Len(outputs) * FanIn >= Len(inputs)
        BY <2>1, ParametersAssumption DEF Pending
      <4> QED
        BY <2>1, <4>1 DEF Consumed
    <3> QED
      BY <3>1 DEF Live
  <2>7. Live' = {<<pass + 1, n>> : n \in 1..Len(outputs)}
    <3>1. Consumed' = 0
      BY <2>4, ParametersAssumption DEF Consumed
    <3>2. {n \in 1..Len(inputs') : n > Consumed'} = 1..Len(outputs)
      BY <2>1, <2>4, <3>1
    <3>3. Live' = {<<pass + 1, n>> : n \in 1..Len(outputs)} \cup {<<pass + 1 + 1, n>> : n \in 1..0}
      BY <2>4, <3>2 DEF Live
    <3> QED
      BY <3>3
  <2>8. \A f \in Live : disk'[f] = disk[f]
    <3> SUFFICES ASSUME NEW n \in 1..Len(outputs)
                 PROVE  disk'[<<pass + 1, n>>] = disk[<<pass + 1, n>>]
      BY <2>6
    <3>1. <<pass + 1, n>> \in Files
      BY <2>1, <2>3, ParametersAssumption DEF Files
    <3>2. ASSUME NEW k \in 1..Len(inputs) PROVE inputs[k] # <<pass + 1, n>>
      <4>1. inputs[k] = <<pass, k>>
        BY <2>1, NumberedAt
      <4> QED
        BY <2>1, <4>1
    <3> QED
      BY <3>1, <3>2 DEF NextPass
  <2>9. LiveExact'
    <3>1. Live' = Live /\ UNCHANGED <<mode, pc, cp>> /\ pc = "merge"
      BY <2>6, <2>7 DEF NextPass
    <3> QED
      BY <1>4, <2>8, <3>1, LiveKept
  <2> QED
    BY <1>1, <1>2, <2>5, <2>9 DEF DataOK
<1> QED
  BY <1>3, <1>4

(* One input is left, and it is the dataset. *)
LEMMA EndMergeData ==
  ASSUME IInv, DataOK, EndMerge \/ ClearParts PROVE DataOK'
<1>1. SourceOK' /\ Scanned(cp)' /\ (checkpoint # NoFile => Scanned(checkpoint))'
  BY ScannedQuiet DEF EndMerge, ClearParts
<1>2. PageExact' /\ Named'
  BY DEF EndMerge, ClearParts, DataOK, PageExact, Merging, Named
<1>3. Shrinking'
  BY DEF EndMerge, ClearParts, DataOK, Merging, Shrinking
<1>4. Final'
  BY DEF EndMerge, ClearParts, DataOK, Final
<1>5. LiveExact'
  <2>1. Live' = Live
    BY DEF EndMerge, ClearParts, Live, Consumed
  <2> QED
    BY <2>1 DEF EndMerge, ClearParts, DataOK, LiveExact, Held
<1> QED
  BY <1>1, <1>2, <1>3, <1>4, <1>5 DEF DataOK

LEMMA WritePartsData == ASSUME IInv, DataOK, WriteParts PROVE DataOK'
<1>1. SourceOK' /\ Scanned(cp)' /\ (checkpoint # NoFile => Scanned(checkpoint))'
  BY ScannedQuiet DEF WriteParts
<1>2. PageExact' /\ Named' /\ Shrinking' /\ LiveExact'
  BY DEF WriteParts, DataOK, PageExact, Merging, Named, Shrinking, LiveExact
<1>3. mode # "cohort" => disk[inputs[1]] = Rows({p \in Positions : Held(cp, p)})
  <2> SUFFICES ASSUME mode # "cohort"
               PROVE  disk[inputs[1]] = Rows({p \in Positions : Held(cp, p)})
    OBVIOUS
  <2>1. /\ inputs[1] = <<pass, 1>> /\ Len(inputs) = 1
        /\ Len(outputs) = 0 /\ Consumed = 0
    <3>1. Named /\ Shrinking /\ Len(outputs) \in Nat /\ pass \in Nat
      BY DEF DataOK, IInv, StateOK, MergeOK
    <3>2. Len(inputs) = 1 /\ Len(outputs) = 0
      <4>1. Len(inputs) = 1 /\ ~(Len(outputs) > 0)
        <5>1. Len(inputs) = 1
          BY <3>1, Zenon DEF WriteParts, Merging, Shrinking
        <5>2. Len(outputs) > 0 => Len(inputs) > 1
          BY <3>1, Zenon DEF WriteParts, Merging, Shrinking
        <5> QED
          BY <5>1, <5>2
      <4> QED
        BY <3>1, <4>1
    <3>3. inputs[1] = <<pass, 1>>
      <4>1. Numbered(inputs, pass) /\ 1 \in 1..Len(inputs)
        BY <3>1, <3>2 DEF WriteParts, Merging, Named
      <4> QED
        BY <4>1, NumberedAt
    <3> QED
      BY <3>2, <3>3, ParametersAssumption DEF Consumed
  <2>2. Live = {inputs[1]}
    <3>1. {n \in 1..Len(inputs) : n > Consumed} = {1}
      BY <2>1
    <3> QED
      BY <2>1, <3>1 DEF Live
  <2>3. /\ disk[inputs[1]] \in [Positions -> 0..1]
        /\ \A p \in Positions : Held(cp, p) <=> disk[inputs[1]][p] = 1
    BY <2>2 DEF WriteParts, DataOK, LiveExact
  <2>4. \A p \in Positions : disk[inputs[1]][p] = IF Held(cp, p) THEN 1 ELSE 0
    BY <2>3
  <2> QED
    BY <2>3, <2>4 DEF Rows
<1>4. Final'
  BY <1>3 DEF WriteParts, DataOK, Final, Held, Rows
<1> QED
  BY <1>1, <1>2, <1>4 DEF DataOK

LEMMA RemovalData ==
  ASSUME IInv, DataOK, FinishPull \/ Restart \/ RemoveEntry PROVE DataOK'
<1>1. UNCHANGED <<mode, table, moved, cp, page, inputs, outputs, pass>> /\ pc' = "remove"
      /\ checkpoint' \in {checkpoint, NoFile}
  BY DEF FinishPull, Restart, RemoveEntry
<1>2. SourceOK' /\ Scanned(cp)'
  BY <1>1 DEF DataOK, SourceOK, Scanned, OnceEach, NoneBeyond, AllPassed, WithinLimits, Selects,
              Held, Passed, Offered
<1>3. (checkpoint # NoFile => Scanned(checkpoint))'
  <2>1. CASE checkpoint' = checkpoint
    BY <1>1, <2>1 DEF DataOK, Scanned, OnceEach, NoneBeyond, AllPassed, WithinLimits, Selects,
                      Held, Passed, Offered
  <2> QED
    BY <1>1, <2>1
<1>4. PageExact' /\ Named' /\ Shrinking' /\ LiveExact' /\ Final'
  BY <1>1 DEF PageExact, Merging, Named, Shrinking, LiveExact, Final
<1> QED
  BY <1>2, <1>3, <1>4 DEF DataOK

LEMMA StepData == IInv /\ DataOK /\ [Next]_vars => DataOK'
<1> SUFFICES ASSUME IInv, DataOK, [Next]_vars PROVE DataOK'
  OBVIOUS
<1>1. CASE Attempt
  BY <1>1, AttemptData
<1>2. CASE ScanPage \/ KeepPage \/ SaveCheckpoint \/ \E p \in Positions : WriteItem(p)
  BY <1>2, ScanPageData, KeepPageData, SaveCheckpointData, WriteItemData
<1>3. CASE BeginMerge \/ SelectCohort \/ OpenOutput \/ MergeGroup \/ NextPass
  BY <1>3, BeginMergeData, SelectCohortData, OpenOutputData, MergeGroupData, NextPassData
<1>4. CASE EndMerge \/ ClearParts \/ WriteParts
  BY <1>4, EndMergeData, WritePartsData
<1>5. CASE FinishPull \/ Restart \/ RemoveEntry
  BY <1>5, RemovalData
<1>6. CASE OutputExists \/ Stop \/ EndRemoval
  <2>1. Exit /\ UNCHANGED <<mode, table, moved, checkpoint>>
    BY <1>6 DEF OutputExists, Stop, EndRemoval
  <2> QED
    BY <2>1, ExitScanned
<1>7. CASE UNCHANGED vars
  <2>1. SourceOK' /\ Scanned(cp)' /\ (checkpoint # NoFile => Scanned(checkpoint))'
    BY <1>7, ScannedQuiet
  <2>2. Live' = Live
    BY <1>7 DEF Live, Consumed
  <2>3. PageExact' /\ Named' /\ Shrinking' /\ LiveExact' /\ Final'
    BY <1>7, <2>2 DEF DataOK, PageExact, Merging, Named, Shrinking, LiveExact, Final, Held, Pending
  <2> QED
    BY <2>1, <2>3 DEF DataOK
<1> QED
  BY <1>1, <1>2, <1>3, <1>4, <1>5, <1>6, <1>7 DEF Next, Run

(* The rows on disk are those that the scan, the merge and the cohort have *)
(* come to (captureData, mergeRuns, writeDynamoChunks).                     *)
THEOREM DataInvariance == Spec => []DataOK
BY InitData, StepData, Invariance, PTL DEF Spec


(* However a scan was cut short and resumed, and whatever files an earlier *)
(* attempt left for mergeGroup to find: writeDynamoChunks gives no item    *)
(* two rows.                                                               *)
THEOREM OneRow == Spec => []OneRowPerItem
<1>1. DataOK => OneRowPerItem
  BY RowsAt DEF DataOK, Final, OneRowPerItem
<1> QED
  BY <1>1, DataInvariance, PTL

(* A dataset that manifest.json does not call truncated has a row for an   *)
(* item nobody wrote to exactly if the table has the item.                 *)
THEOREM NothingIsMissed == Spec => []NothingMissed
<1>1. DataOK => NothingMissed
  <2> SUFFICES ASSUME DataOK, pc = "done", mode # "cohort", ~cp.truncated,
                      NEW p \in Positions \ moved
               PROVE  parts[p] = IF p \in table THEN 1 ELSE 0
    BY Zenon DEF NothingMissed
  <2>1. cp.complete /\ AllPassed(cp) /\ parts = Rows({q \in Positions : Held(cp, q)})
    BY DEF DataOK, Final, Scanned
  <2>2. Held(cp, p) <=> p \in table
    BY <2>1 DEF AllPassed, Passed
  <2> QED
    BY <2>1, <2>2, RowsAt
<1> QED
  BY <1>1, DataInvariance, PTL

(* The cohort selector keeps between pages, and in every checkpoint, what  *)
(* it must: the selection is the one of a single pass over the table.      *)
THEOREM CohortIsExact == Spec => []CohortExact
<1>1. DataOK => CohortExact
  <2> SUFFICES ASSUME DataOK, pc = "done", mode = "cohort", moved = {}
               PROVE  /\ parts = Rows(Best(table))
                      /\ cp.truncated = (Cardinality(table) > Limit)
    BY Zenon DEF CohortExact
  <2>1. cp.complete /\ Selects(cp) /\ parts = Rows(cp.selection)
        /\ cp.truncated = (cp.items > Limit)
    BY DEF DataOK, Final, Scanned
  <2>2. Offered(cp) = table
    BY <2>1 DEF Offered
  <2> QED
    BY <2>1, <2>2 DEF Selects
<1> QED
  BY <1>1, DataInvariance, PTL


-----------------------------------------------------------------------------
(* What the invariants above leave out of TypeOK. *)
FilesTyped ==
  /\ mode \in Modes /\ governed \in BOOLEAN
  /\ \A f \in Files : disk[f] \in Contents
  /\ parts \in Contents
  /\ pc \in {"idle", "scan", "keep", "save", "merge", "copy", "split", "parts",
             "done", "remove"}
  /\ inputs \in Seq(Files) /\ outputs \in Seq(Files) /\ pass \in 0..Last

LEMMA RowsContents == /\ \A S : Rows(S) \in Contents
                      /\ [Positions -> 0..1] \subseteq Contents
                      /\ NoFile \in Contents /\ Torn \in Contents
<1>1. [Positions -> 0..1] \subseteq [Positions -> 0..(Last + 1)]
  <2>1. 0..1 \subseteq 0..(Last + 1)
    BY ParametersAssumption
  <2> QED
    BY <2>1
<1> QED
  BY <1>1, RowsType DEF Contents

LEMMA TypedDone ==
  ASSUME FilesTyped, UNCHANGED <<mode, governed>>, Exit, parts' \in {parts, NoFile},
         \A f \in Files : disk'[f] \in {disk[f], NoFile}
  PROVE  FilesTyped'
<1>1. \A f \in Files : disk'[f] \in Contents
  BY RowsContents DEF FilesTyped
<1>2. inputs' \in Seq(Files) /\ outputs' \in Seq(Files) /\ pass' \in 0..Last
  BY ParametersAssumption DEF Exit
<1> QED
  BY <1>1, <1>2, RowsContents DEF FilesTyped, Exit

LEMMA TypedStep ==
  ASSUME IInv, DataOK, FilesTyped, [Next]_vars, DataOK'
  PROVE  FilesTyped'
<1> USE DEF FilesTyped
<1>1. CASE Attempt
  BY <1>1 DEF Attempt, StartFresh, Resume, RejectCheckpoint
<1>2. CASE ScanPage \/ KeepPage
  <2>1. \A f \in Files : disk'[f] \in Contents
    BY <1>2, RowsContents DEF ScanPage, KeepPage, IInv, StateOK, DiskOK
  <2> QED
    BY <1>2, <2>1 DEF ScanPage, KeepPage
<1>3. CASE SaveCheckpoint \/ SelectCohort \/ EndMerge \/ FinishPull \/ Restart
           \/ \E p \in Positions : WriteItem(p)
  BY <1>3 DEF SaveCheckpoint, SelectCohort, EndMerge, FinishPull, Restart, WriteItem
<1>4. CASE BeginMerge
  <2>1. Len(cp.runs) \in Nat /\ Len(cp.runs) <= Last + 1
    BY <1>4, ScanOver, ParametersAssumption DEF BeginMerge, IInv, StateOK, DataOK, Sensible, Progress
  <2>2. inputs' \in Seq(Files) /\ outputs' \in Seq(Files)
    BY <1>4, <2>1, ParametersAssumption DEF BeginMerge, RunOf, Files
  <2>3. pass' \in 0..Last
    BY <1>4, ParametersAssumption DEF BeginMerge
  <2> QED
    BY <1>4, <2>2, <2>3 DEF BeginMerge
<1>5. CASE OpenOutput
  <2>1. \A f \in Files : disk'[f] \in Contents
    BY <1>5, RowsContents DEF OpenOutput, IInv, StateOK, DiskOK
  <2> QED
    BY <1>5, <2>1 DEF OpenOutput
<1>6. CASE MergeGroup
  <2>1. /\ pc = "copy" /\ pc' = "merge" /\ disk' = [disk EXCEPT ![Output] = Merged(Group)]
        /\ outputs' = Append(outputs, Output)
        /\ UNCHANGED <<mode, governed, parts, inputs, pass>>
    BY <1>6 DEF MergeGroup
  <2>2. mode # "cohort" /\ Merging
    BY <2>1 DEF DataOK, Final, Merging
  <2>3. Len(inputs) > 1 /\ Pending /\ Len(outputs) \in Nat
    BY <2>1, <2>2, MergeFacts, Zenon
  <2>4. Output \in Files
    BY <2>1, <2>2, <2>3, OutputApart
  <2>5. outputs' \in Seq(Files) /\ Len(outputs') = Len(outputs) + 1
    BY <2>1, <2>4
  <2>6. Output \in Live'
    BY <2>1, <2>3, <2>5 DEF Live, Output
  <2>7. disk'[Output] \in [Positions -> 0..1]
    BY <2>1, <2>2, <2>6 DEF DataOK, LiveExact
  <2>8. \A f \in Files : disk'[f] \in Contents
    BY <2>1, <2>7, RowsContents DEF IInv, StateOK, DiskOK
  <2> QED
    BY <2>1, <2>5, <2>8
<1>7. CASE NextPass
  <2>1. pc = "merge" /\ mode # "cohort" /\ Len(inputs) > 1
    BY <1>7 DEF NextPass, DataOK, Final
  <2>2. pass' \in 0..Last
    BY <1>7, <2>1, OutputApart DEF NextPass
  <2>3. \A f \in Files : disk'[f] \in Contents
    BY <1>7, RowsContents DEF NextPass
  <2> QED
    BY <1>7, <2>2, <2>3 DEF NextPass
<1>8. CASE ClearParts
  BY <1>8, RowsContents DEF ClearParts
<1>9. CASE WriteParts
  <2>1. CASE mode = "cohort"
    BY <1>9, <2>1, RowsContents DEF WriteParts
  <2>2. CASE mode # "cohort"
    <3>1. pc = "parts" /\ Merging
      BY <1>9, <2>2 DEF WriteParts, Merging
    <3>2. Len(inputs) = 1
      BY <3>1, MergeFacts, Zenon
    <3>3. inputs[1] \in Files
      <4>1. inputs \in Seq(Files) /\ 1 \in 1..Len(inputs)
        BY <3>2
      <4> HIDE DEF FilesTyped
      <4> QED
        BY <4>1
    <3> QED
      BY <1>9, <2>2, <3>3 DEF WriteParts
  <2> QED
    BY <2>1, <2>2
<1>10. CASE RemoveEntry
  <2>1. (\A f \in Files : disk'[f] \in {disk[f], NoFile}) /\ parts' \in {parts, NoFile}
    BY <1>10 DEF RemoveEntry
  <2> QED
    BY <1>10, <2>1, RowsContents DEF RemoveEntry
<1>11. CASE OutputExists \/ EndRemoval
  BY <1>11, TypedDone DEF OutputExists, EndRemoval
<1>12. CASE Stop
  <2>1. \A f \in Files : disk'[f] \in {disk[f], NoFile}
    BY <1>12 DEF Stop, IInv, StateOK, DiskOK
  <2> QED
    BY <1>12, <2>1, TypedDone DEF Stop
<1>13. CASE UNCHANGED vars
  BY <1>13
<1> QED
  BY <1>1, <1>2, <1>3, <1>4, <1>5, <1>6, <1>7, <1>8, <1>9, <1>10, <1>11, <1>12, <1>13
     DEF Next, Run

(* Types, among them that every run and merge file is one of the finitely  *)
(* many that the scan order and the merge's halving allow.                 *)
THEOREM TypesAreCorrect == Spec => []TypeOK
<1>1. Init => FilesTyped
  <2> SUFFICES ASSUME Init PROVE FilesTyped
    OBVIOUS
  <2>1. (\A f \in Files : disk[f] \in Contents) /\ parts \in Contents
    BY RowsContents DEF Init
  <2>2. inputs \in Seq(Files) /\ outputs \in Seq(Files) /\ pass \in 0..Last
    BY ParametersAssumption DEF Init
  <2> QED
    BY <2>1, <2>2 DEF Init, FilesTyped
<1>2. IInv /\ DataOK /\ FilesTyped /\ [Next]_vars /\ DataOK' => FilesTyped'
  BY TypedStep
<1>3. IInv /\ DataOK /\ FilesTyped => TypeOK
  BY DEF IInv, StateOK, DiskOK, Sensible, PageOK, DataOK, SourceOK, FilesTyped, TypeOK
<1> QED
  BY <1>1, <1>2, <1>3, Invariance, DataInvariance, PTL DEF Spec

=============================================================================
