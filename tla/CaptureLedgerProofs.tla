------------------------- MODULE CaptureLedgerProofs -------------------------
(***************************************************************************)
(* Proofs about CaptureLedger, for any sets of pulls, resources and        *)
(* digests, whatever fails.  O_EXCL makes the creator of a file its only   *)
(* writer (OneCreator); an index in force is then whole, but for blobs     *)
(* that their creators took back when fsync or close failed.               *)
(***************************************************************************)
EXTENDS CaptureLedger, TLAPS

(* A file being created or just copied exists, with the contents its       *)
(* creator has written so far.                                             *)
CreatorKnows ==
  \A p \in Pulls : \A d \in copying[p] :
    /\ pc[p] = "creating" => blob[d] = "partial"
    /\ pc[p] = "copied" => blob[d] = "complete"

Exclusive == TypeOK /\ OneCreator /\ CreatorKnows

(* Where a pull is once it publishes. *)
Admitting == {"admitting", "creating", "copied", "comparing", "publishing"}

(* Artifacts of the generation a pull is publishing that are no longer in  *)
(* todo have been admitted.                                                *)
AdmittedUsable ==
  \A p \in Pulls :
    pc[p] \in Admitting =>
      /\ pc[p] = "publishing" => todo[p] = {}
      /\ \A r \in unpublished[p] : \A d \in generation[p][r] :
           d \in todo[p] \/ Usable(d) \/ d \in takenBack

LedgerInv == IndexedBlobsComplete /\ CandidatesUsable /\ AdmittedUsable

-----------------------------------------------------------------------------
LEMMA ExclusiveInit == Init => Exclusive
BY DEF Init, Exclusive, TypeOK, OneCreator, CreatorKnows, PCs, NoGeneration

(* Each step preserves the exclusivity of the creator.                     *)
LEMMA ExclusiveStep == Exclusive /\ [Next]_vars => Exclusive'
<1> SUFFICES ASSUME Exclusive, [Next]_vars PROVE Exclusive'
  OBVIOUS
<1> USE DEF Exclusive, TypeOK, PCs, NoGeneration, Goto, Exit, Admitted, store, Usable
<1>1. ASSUME NEW p \in Pulls, NEW r \in Resources, LoadCandidate(p, r) PROVE Exclusive'
  <2>1. TypeOK'
    BY <1>1 DEF LoadCandidate
  <2>2. OneCreator'
    BY <1>1 DEF LoadCandidate, OneCreator, CreatorKnows
  <2>3. CreatorKnows'
    BY <1>1 DEF LoadCandidate, OneCreator, CreatorKnows
  <2> QED
    BY <2>1, <2>2, <2>3
<1>2. ASSUME NEW p \in Pulls, NEW r \in Resources, CaptureResource(p, r) PROVE Exclusive'
  <2>1. TypeOK'
    BY <1>2 DEF CaptureResource
  <2>2. OneCreator'
    BY <1>2 DEF CaptureResource, OneCreator, CreatorKnows
  <2>3. CreatorKnows'
    BY <1>2 DEF CaptureResource, OneCreator, CreatorKnows
  <2> QED
    BY <2>1, <2>2, <2>3
<1>3. ASSUME NEW p \in Pulls, NEW r \in Resources, WriteIndex(p, r) PROVE Exclusive'
  <2>1. TypeOK'
    BY <1>3 DEF WriteIndex
  <2>2. OneCreator'
    BY <1>3 DEF WriteIndex, OneCreator, CreatorKnows
  <2>3. CreatorKnows'
    BY <1>3 DEF WriteIndex, OneCreator, CreatorKnows
  <2> QED
    BY <2>1, <2>2, <2>3
<1>4. ASSUME NEW p \in Pulls, NEW d \in Digests, CreateBlob(p, d) PROVE Exclusive'
  <2>1. TypeOK'
    BY <1>4 DEF CreateBlob
  <2>2. OneCreator'
    BY <1>4 DEF CreateBlob, OneCreator, CreatorKnows
  <2>3. CreatorKnows'
    BY <1>4 DEF CreateBlob, OneCreator, CreatorKnows
  <2> QED
    BY <2>1, <2>2, <2>3
<1>5. ASSUME NEW p \in Pulls, Publish(p) PROVE Exclusive'
  <2>1. TypeOK'
    BY <1>5 DEF Publish
  <2>2. OneCreator'
    BY <1>5 DEF Publish, OneCreator, CreatorKnows
  <2>3. CreatorKnows'
    BY <1>5 DEF Publish, OneCreator, CreatorKnows
  <2> QED
    BY <2>1, <2>2, <2>3
<1>6. ASSUME NEW p \in Pulls, FillBlob(p) PROVE Exclusive'
  <2>1. TypeOK'
    BY <1>6 DEF FillBlob
  <2>2. OneCreator'
    BY <1>6 DEF FillBlob, OneCreator, CreatorKnows
  <2>3. CreatorKnows'
    BY <1>6 DEF FillBlob, OneCreator, CreatorKnows
  <2> QED
    BY <2>1, <2>2, <2>3
<1>7. ASSUME NEW p \in Pulls, CopyFails(p) PROVE Exclusive'
  <2>1. TypeOK'
    BY <1>7 DEF CopyFails
  <2>2. OneCreator'
    BY <1>7 DEF CopyFails, OneCreator, CreatorKnows
  <2>3. CreatorKnows'
    BY <1>7 DEF CopyFails, OneCreator, CreatorKnows
  <2> QED
    BY <2>1, <2>2, <2>3
<1>8. ASSUME NEW p \in Pulls, FinishCopy(p) PROVE Exclusive'
  <2>1. TypeOK'
    BY <1>8 DEF FinishCopy
  <2>2. OneCreator'
    BY <1>8 DEF FinishCopy, OneCreator, CreatorKnows
  <2>3. CreatorKnows'
    BY <1>8 DEF FinishCopy, OneCreator, CreatorKnows
  <2> QED
    BY <2>1, <2>2, <2>3
<1>9. ASSUME NEW p \in Pulls, VerifyExisting(p) PROVE Exclusive'
  <2>1. TypeOK'
    BY <1>9 DEF VerifyExisting
  <2>2. OneCreator'
    BY <1>9 DEF VerifyExisting, OneCreator, CreatorKnows
  <2>3. CreatorKnows'
    BY <1>9 DEF VerifyExisting, OneCreator, CreatorKnows
  <2> QED
    BY <2>1, <2>2, <2>3
<1>10. ASSUME NEW p \in Pulls, ExistingUnusable(p) PROVE Exclusive'
  <2>1. TypeOK'
    BY <1>10 DEF ExistingUnusable
  <2>2. OneCreator'
    BY <1>10 DEF ExistingUnusable, OneCreator, CreatorKnows
  <2>3. CreatorKnows'
    BY <1>10 DEF ExistingUnusable, OneCreator, CreatorKnows
  <2> QED
    BY <2>1, <2>2, <2>3
<1>11. ASSUME NEW p \in Pulls, EndPublish(p) PROVE Exclusive'
  <2>1. TypeOK'
    BY <1>11 DEF EndPublish
  <2>2. OneCreator'
    BY <1>11 DEF EndPublish, OneCreator, CreatorKnows
  <2>3. CreatorKnows'
    BY <1>11 DEF EndPublish, OneCreator, CreatorKnows
  <2> QED
    BY <2>1, <2>2, <2>3
<1>12. ASSUME NEW p \in Pulls, StartIndices(p) PROVE Exclusive'
  <2>1. TypeOK'
    BY <1>12 DEF StartIndices
  <2>2. OneCreator'
    BY <1>12 DEF StartIndices, OneCreator, CreatorKnows
  <2>3. CreatorKnows'
    BY <1>12 DEF StartIndices, OneCreator, CreatorKnows
  <2> QED
    BY <2>1, <2>2, <2>3
<1>13. ASSUME NEW p \in Pulls, Start(p) PROVE Exclusive'
  <2>1. TypeOK'
    BY <1>13 DEF Start
  <2>2. OneCreator'
    BY <1>13 DEF Start, OneCreator, CreatorKnows
  <2>3. CreatorKnows'
    BY <1>13 DEF Start, OneCreator, CreatorKnows
  <2> QED
    BY <2>1, <2>2, <2>3
<1>14. ASSUME NEW p \in Pulls, Crash(p) PROVE Exclusive'
  <2>1. TypeOK'
    BY <1>14 DEF Crash
  <2>2. OneCreator'
    BY <1>14 DEF Crash, OneCreator, CreatorKnows
  <2>3. CreatorKnows'
    BY <1>14 DEF Crash, OneCreator, CreatorKnows
  <2> QED
    BY <2>1, <2>2, <2>3
<1>15. CASE UNCHANGED vars
  BY <1>15 DEF vars, locals, OneCreator, CreatorKnows
<1> QED
  BY <1>1, <1>2, <1>3, <1>4, <1>5, <1>6, <1>7, <1>8, <1>9, <1>10, <1>11, <1>12, <1>13, <1>14, <1>15 DEF Next, Step

(* The types, and the exclusive creation of blobs, whatever may fail.      *)
THEOREM TypeCorrect == Spec => []TypeOK
<1>1. Exclusive => TypeOK
  BY DEF Exclusive
<1> QED
  BY <1>1, ExclusiveInit, ExclusiveStep, PTL DEF Spec

(* O_EXCL creation gives every blob one writer at a time.                  *)
THEOREM CreatorIsExclusive == Spec => []OneCreator
<1>1. Exclusive => OneCreator
  BY DEF Exclusive
<1> QED
  BY <1>1, ExclusiveInit, ExclusiveStep, PTL DEF Spec

-----------------------------------------------------------------------------
(* A complete blob stays complete, or its creator takes it back before it  *)
(* is synced; a blob that was taken back is so until it is complete again. *)
LEMMA BlobsStay ==
  ASSUME Exclusive, [Next]_vars
  PROVE  \A d \in Digests :
           /\ Usable(d) => \/ Usable(d)'
                           \/ /\ d \in takenBack'
                              /\ \E p \in Pulls : pc[p] = "copied" /\ d \in copying[p] /\ CopyFails(p)
           /\ d \in takenBack => d \in takenBack' \/ Usable(d)'
<1> USE DEF Exclusive, TypeOK, Usable
<1>1. ASSUME NEW p \in Pulls, CopyFails(p)
      PROVE  \A d \in Digests :
               /\ Usable(d) => Usable(d)' \/ (d \in takenBack' /\ pc[p] = "copied" /\ d \in copying[p])
               /\ d \in takenBack => d \in takenBack' \/ Usable(d)'
  BY <1>1 DEF CopyFails, CreatorKnows
<1>2. CASE \E p \in Pulls : FillBlob(p)
  BY <1>2 DEF FillBlob
<1>3. CASE \E p \in Pulls, d \in Digests : CreateBlob(p, d)
  BY <1>3 DEF CreateBlob
<1>4. CASE UNCHANGED <<blob, takenBack>>
  BY <1>4
<1>5. CASE \E p \in Pulls : CopyFails(p)
  BY <1>1, <1>5
<1> QED
  BY <1>2, <1>3, <1>4, <1>5 DEF Next, Step, Start, LoadCandidate, CaptureResource,
     WriteIndex, Publish, FinishCopy, Admitted, VerifyExisting, ExistingUnusable, StartIndices,
     EndPublish, Exit,
     Crash, store, locals, vars

LEMMA LedgerInit == Init => LedgerInv
BY DEF Init, LedgerInv, IndexedBlobsComplete, CandidatesUsable, AdmittedUsable, Admitting, NoGeneration

LEMMA LedgerStep ==
  ASSUME Exclusive, LedgerInv, [Next]_vars
  PROVE  LedgerInv'
<1>a. \A d \in Digests : Usable(d) \/ d \in takenBack => Usable(d)' \/ d \in takenBack'
  BY BlobsStay
<1> USE <1>a DEF Exclusive, TypeOK, PCs, NoGeneration, Goto, Exit, Admitted, store, Admitting
<1>1. ASSUME NEW p \in Pulls, NEW r \in Resources, LoadCandidate(p, r) PROVE LedgerInv'
  <2>1. IndexedBlobsComplete'
    BY <1>1 DEF LoadCandidate, LedgerInv, IndexedBlobsComplete, AdmittedUsable
  <2>2. CandidatesUsable'
    BY <1>1 DEF LoadCandidate, LedgerInv, IndexedBlobsComplete, CandidatesUsable
  <2>3. AdmittedUsable'
    BY <1>1 DEF LoadCandidate, LedgerInv, AdmittedUsable
  <2> QED
    BY <2>1, <2>2, <2>3 DEF LedgerInv
<1>2. ASSUME NEW p \in Pulls, NEW r \in Resources, CaptureResource(p, r) PROVE LedgerInv'
  <2>1. IndexedBlobsComplete'
    BY <1>2 DEF CaptureResource, LedgerInv, IndexedBlobsComplete, AdmittedUsable
  <2>2. CandidatesUsable'
    BY <1>2 DEF CaptureResource, LedgerInv, IndexedBlobsComplete, CandidatesUsable
  <2>3. AdmittedUsable'
    BY <1>2 DEF CaptureResource, LedgerInv, AdmittedUsable
  <2> QED
    BY <2>1, <2>2, <2>3 DEF LedgerInv
<1>3. ASSUME NEW p \in Pulls, NEW r \in Resources, WriteIndex(p, r) PROVE LedgerInv'
  <2>1. IndexedBlobsComplete'
    BY <1>3 DEF WriteIndex, LedgerInv, IndexedBlobsComplete, AdmittedUsable
  <2>2. CandidatesUsable'
    BY <1>3 DEF WriteIndex, LedgerInv, IndexedBlobsComplete, CandidatesUsable
  <2>3. AdmittedUsable'
    BY <1>3 DEF WriteIndex, LedgerInv, AdmittedUsable
  <2> QED
    BY <2>1, <2>2, <2>3 DEF LedgerInv
<1>4. ASSUME NEW p \in Pulls, NEW d \in Digests, CreateBlob(p, d) PROVE LedgerInv'
  <2>1. IndexedBlobsComplete'
    BY <1>4 DEF CreateBlob, LedgerInv, IndexedBlobsComplete, AdmittedUsable
  <2>2. CandidatesUsable'
    BY <1>4 DEF CreateBlob, LedgerInv, IndexedBlobsComplete, CandidatesUsable
  <2>3. AdmittedUsable'
    <3>1. /\ UNCHANGED <<todo, generation, unpublished>>
          /\ pc[p] = "admitting" /\ pc'[p] \in {"creating", "comparing"}
          /\ \A q \in Pulls : q # p => pc'[q] = pc[q]
      BY <1>4 DEF CreateBlob
    <3>2. SUFFICES ASSUME NEW q \in Pulls, pc'[q] \in Admitting
                   PROVE  /\ pc'[q] = "publishing" => todo'[q] = {}
                          /\ \A r \in unpublished'[q] : \A e \in generation'[q][r] :
                                e \in todo'[q] \/ Usable(e)' \/ e \in takenBack'
      BY DEF AdmittedUsable, Admitting
    <3>3. pc[q] \in Admitting /\ (pc'[q] = "publishing" => pc[q] = "publishing")
      BY <3>1, <3>2 DEF Admitting
    <3>4. /\ pc[q] = "publishing" => todo[q] = {}
          /\ \A r \in unpublished[q] : \A e \in generation[q][r] :
                e \in todo[q] \/ Usable(e) \/ e \in takenBack
      BY <3>3 DEF LedgerInv, AdmittedUsable, Admitting
    <3>5. \A r \in unpublished[q] : \A e \in generation[q][r] : e \in Digests
      OBVIOUS
    <3> QED
      BY <3>1, <3>3, <3>4, <3>5
  <2> QED
    BY <2>1, <2>2, <2>3 DEF LedgerInv
<1>5. ASSUME NEW p \in Pulls, Publish(p) PROVE LedgerInv'
  <2>1. IndexedBlobsComplete'
    BY <1>5 DEF Publish, LedgerInv, IndexedBlobsComplete, AdmittedUsable
  <2>2. CandidatesUsable'
    BY <1>5 DEF Publish, LedgerInv, IndexedBlobsComplete, CandidatesUsable
  <2>3. AdmittedUsable'
    BY <1>5 DEF Publish, LedgerInv, AdmittedUsable
  <2> QED
    BY <2>1, <2>2, <2>3 DEF LedgerInv
<1>6. ASSUME NEW p \in Pulls, FillBlob(p) PROVE LedgerInv'
  <2>1. IndexedBlobsComplete'
    BY <1>6 DEF FillBlob, LedgerInv, IndexedBlobsComplete, AdmittedUsable
  <2>2. CandidatesUsable'
    BY <1>6 DEF FillBlob, LedgerInv, IndexedBlobsComplete, CandidatesUsable
  <2>3. AdmittedUsable'
    BY <1>6 DEF FillBlob, LedgerInv, AdmittedUsable
  <2> QED
    BY <2>1, <2>2, <2>3 DEF LedgerInv
<1>7. ASSUME NEW p \in Pulls, CopyFails(p) PROVE LedgerInv'
  <2>1. IndexedBlobsComplete'
    BY <1>7 DEF CopyFails, LedgerInv, IndexedBlobsComplete, AdmittedUsable
  <2>2. CandidatesUsable'
    BY <1>7 DEF CopyFails, LedgerInv, IndexedBlobsComplete, CandidatesUsable
  <2>3. AdmittedUsable'
    BY <1>7 DEF CopyFails, LedgerInv, AdmittedUsable
  <2> QED
    BY <2>1, <2>2, <2>3 DEF LedgerInv
<1>8. ASSUME NEW p \in Pulls, FinishCopy(p) PROVE LedgerInv'
  <2>1. IndexedBlobsComplete'
    BY <1>8 DEF FinishCopy, LedgerInv, IndexedBlobsComplete, AdmittedUsable
  <2>2. CandidatesUsable'
    BY <1>8 DEF FinishCopy, LedgerInv, IndexedBlobsComplete, CandidatesUsable
  <2>3. AdmittedUsable'
    <3>1. \A d \in copying[p] : Usable(d)
      BY <1>8 DEF FinishCopy, CreatorKnows, Usable
    <3> QED
      BY <1>8, <3>1 DEF FinishCopy, LedgerInv, AdmittedUsable
  <2> QED
    BY <2>1, <2>2, <2>3 DEF LedgerInv
<1>9. ASSUME NEW p \in Pulls, VerifyExisting(p) PROVE LedgerInv'
  <2>1. IndexedBlobsComplete'
    BY <1>9 DEF VerifyExisting, LedgerInv, IndexedBlobsComplete, AdmittedUsable
  <2>2. CandidatesUsable'
    BY <1>9 DEF VerifyExisting, LedgerInv, IndexedBlobsComplete, CandidatesUsable
  <2>3. AdmittedUsable'
    BY <1>9 DEF VerifyExisting, LedgerInv, AdmittedUsable
  <2> QED
    BY <2>1, <2>2, <2>3 DEF LedgerInv
<1>10. ASSUME NEW p \in Pulls, ExistingUnusable(p) PROVE LedgerInv'
  <2>1. IndexedBlobsComplete'
    BY <1>10 DEF ExistingUnusable, LedgerInv, IndexedBlobsComplete, AdmittedUsable
  <2>2. CandidatesUsable'
    BY <1>10 DEF ExistingUnusable, LedgerInv, IndexedBlobsComplete, CandidatesUsable
  <2>3. AdmittedUsable'
    BY <1>10 DEF ExistingUnusable, LedgerInv, AdmittedUsable
  <2> QED
    BY <2>1, <2>2, <2>3 DEF LedgerInv
<1>11. ASSUME NEW p \in Pulls, EndPublish(p) PROVE LedgerInv'
  <2>1. IndexedBlobsComplete'
    BY <1>11 DEF EndPublish, LedgerInv, IndexedBlobsComplete, AdmittedUsable
  <2>2. CandidatesUsable'
    BY <1>11 DEF EndPublish, LedgerInv, IndexedBlobsComplete, CandidatesUsable
  <2>3. AdmittedUsable'
    BY <1>11 DEF EndPublish, LedgerInv, AdmittedUsable
  <2> QED
    BY <2>1, <2>2, <2>3 DEF LedgerInv
<1>12. ASSUME NEW p \in Pulls, StartIndices(p) PROVE LedgerInv'
  <2>1. IndexedBlobsComplete'
    BY <1>12 DEF StartIndices, LedgerInv, IndexedBlobsComplete, AdmittedUsable
  <2>2. CandidatesUsable'
    BY <1>12 DEF StartIndices, LedgerInv, IndexedBlobsComplete, CandidatesUsable
  <2>3. AdmittedUsable'
    BY <1>12 DEF StartIndices, LedgerInv, AdmittedUsable
  <2> QED
    BY <2>1, <2>2, <2>3 DEF LedgerInv
<1>13. ASSUME NEW p \in Pulls, Start(p) PROVE LedgerInv'
  <2>1. IndexedBlobsComplete'
    BY <1>13 DEF Start, LedgerInv, IndexedBlobsComplete, AdmittedUsable
  <2>2. CandidatesUsable'
    BY <1>13 DEF Start, LedgerInv, IndexedBlobsComplete, CandidatesUsable
  <2>3. AdmittedUsable'
    BY <1>13 DEF Start, LedgerInv, AdmittedUsable
  <2> QED
    BY <2>1, <2>2, <2>3 DEF LedgerInv
<1>14. ASSUME NEW p \in Pulls, Crash(p) PROVE LedgerInv'
  <2>1. IndexedBlobsComplete'
    BY <1>14 DEF Crash, LedgerInv, IndexedBlobsComplete, AdmittedUsable
  <2>2. CandidatesUsable'
    BY <1>14 DEF Crash, LedgerInv, IndexedBlobsComplete, CandidatesUsable
  <2>3. AdmittedUsable'
    BY <1>14 DEF Crash, LedgerInv, AdmittedUsable
  <2> QED
    BY <2>1, <2>2, <2>3 DEF LedgerInv
<1>15. CASE UNCHANGED vars
  BY <1>15 DEF vars, locals, LedgerInv, IndexedBlobsComplete, CandidatesUsable, AdmittedUsable
<1> QED
  BY <1>1, <1>2, <1>3, <1>4, <1>5, <1>6, <1>7, <1>8, <1>9, <1>10, <1>11, <1>12, <1>13, <1>14, <1>15 DEF Next, Step

(* An index in force refers only to complete blobs, or to blobs that were  *)
(* removed by their creators because their fsync or close failed.          *)
THEOREM IndexIsWhole == Spec => []IndexedBlobsComplete
<1>1. Exclusive /\ LedgerInv /\ [Next]_vars => (Exclusive /\ LedgerInv)'
  BY ExclusiveStep, LedgerStep
<1>2. LedgerInv => IndexedBlobsComplete
  BY DEF LedgerInv
<1> QED
  BY <1>1, <1>2, ExclusiveInit, LedgerInit, PTL DEF Spec

(* A candidate can be materialized however long ago its index was read,    *)
(* unless a blob of it was removed so.                                     *)
THEOREM CandidatesStayUsable == Spec => []CandidatesUsable
<1>1. Exclusive /\ LedgerInv /\ [Next]_vars => (Exclusive /\ LedgerInv)'
  BY ExclusiveStep, LedgerStep
<1>2. LedgerInv => CandidatesUsable
  BY DEF LedgerInv
<1> QED
  BY <1>1, <1>2, ExclusiveInit, LedgerInit, PTL DEF Spec

(* A complete blob is never overwritten, and removed only by the pull that *)
(* wrote it, while it has not been synced.                                 *)
THEOREM BlobsNeverChange == Spec => BlobsImmutable
<1>1. Exclusive /\ [Next]_vars =>
        [\A d \in Digests :
           Usable(d) => \/ Usable(d)'
                        \/ \E p \in Pulls :
                             pc[p] = "copied" /\ d \in copying[p] /\ CopyFails(p)]_vars
  BY BlobsStay
<1> QED
  BY <1>1, ExclusiveInit, ExclusiveStep, PTL DEF Spec, BlobsImmutable
=============================================================================
