---------------------------- MODULE CaptureLedger ----------------------------
(***************************************************************************)
(* The completed-capture ledger (internal/captureledger/store.go): one     *)
(* directory shared, without a lock, by every pull on a machine.  It holds *)
(* content-addressed blobs, written in place under their final name, and   *)
(* one generation index per resource, replaced by a rename.  A pull reads  *)
(* the indices before capturing, materializes the blobs of units it can    *)
(* reuse, and publishes its own generation after its bundle is installed.  *)
(*                                                                         *)
(* A digest stands for an artifact; a resource's generation is the set of  *)
(* digests its units refer to.  Pulls are separate processes: each file    *)
(* system call they can race on is a step.                                 *)
(***************************************************************************)
CONSTANTS
  Pulls,
  Resources,
  Digests

VARIABLES
  blob,        \* contents under each digest's final path
  index,       \* current.json of each resource: a generation, {} before any
  pc,
  candidate,   \* per pull and resource: the generation LoadCandidates returned
  generation,  \* per pull and resource: what the pull captured or reused
  todo,        \* artifacts of the generation still to be admitted
  copying,     \* the blob being created or compared, as a set of at most one
  unread,      \* resources whose candidate is still to be loaded
  unpublished, \* resources whose index is still to be written
  takenBack    \* history: blobs that were complete, were removed because their
               \* fsync or close failed, and have not been written again

store == <<blob, index>>
locals == <<pc, candidate, generation, todo, copying, unread, unpublished, takenBack>>
vars == <<store, locals>>

PCs == {"idle", "loading", "capturing", "admitting", "creating", "copied",
        "comparing", "publishing"}

NoGeneration == [r \in Resources |-> {}]

Init ==
  /\ blob = [d \in Digests |-> "absent"]
  /\ index = NoGeneration
  /\ pc = [p \in Pulls |-> "idle"]
  /\ candidate = [p \in Pulls |-> NoGeneration]
  /\ generation = [p \in Pulls |-> NoGeneration]
  /\ todo = [p \in Pulls |-> {}]
  /\ copying = [p \in Pulls |-> {}]
  /\ unread = [p \in Pulls |-> {}]
  /\ unpublished = [p \in Pulls |-> {}]
  /\ takenBack = {}

Goto(p, label) == pc' = [pc EXCEPT ![p] = label]

(* The end of a process, or of its use of the ledger: a failure to publish *)
(* is only reported (internal/app/bundle.go:223).                          *)
Exit(p) ==
  /\ Goto(p, "idle")
  /\ candidate' = [candidate EXCEPT ![p] = NoGeneration]
  /\ generation' = [generation EXCEPT ![p] = NoGeneration]
  /\ todo' = [todo EXCEPT ![p] = {}]
  /\ copying' = [copying EXCEPT ![p] = {}]
  /\ unread' = [unread EXCEPT ![p] = {}]
  /\ unpublished' = [unpublished EXCEPT ![p] = {}]

-----------------------------------------------------------------------------
(* A pull selects its resources. *)
Start(p) ==
  /\ pc[p] = "idle"
  /\ \E selected \in SUBSET Resources \ {{}} :
        /\ unread' = [unread EXCEPT ![p] = selected]
        /\ unpublished' = [unpublished EXCEPT ![p] = selected]
  /\ Goto(p, "loading")
  /\ UNCHANGED <<store, candidate, generation, todo, copying, takenBack>>

(* LoadCandidates reads one index; blobs are not opened yet. *)
LoadCandidate(p, r) ==
  /\ pc[p] = "loading"
  /\ r \in unread[p]
  /\ candidate' = [candidate EXCEPT ![p][r] = index[r]]
  /\ unread' = [unread EXCEPT ![p] = @ \ {r}]
  /\ Goto(p, IF unread[p] = {r} THEN "capturing" ELSE "loading")
  /\ UNCHANGED <<store, generation, todo, copying, unpublished, takenBack>>

Usable(d) == blob[d] = "complete"

(* CaptureReusable: a candidate artifact that is still fresh is reused if  *)
(* Materialize can copy the blob and verify the copy, else its unit is     *)
(* captured anew, like every other unit (under any digest).                *)
CaptureResource(p, r) ==
  /\ pc[p] = "capturing"
  /\ r \in unpublished[p]
  /\ generation[p][r] = {}
  /\ \E fresh \in SUBSET candidate[p][r], refreshed \in SUBSET Digests :
        LET reused == {d \in fresh : Usable(d)}
        IN  /\ reused \cup refreshed # {}
            /\ generation' = [generation EXCEPT ![p][r] = reused \cup refreshed]
  /\ candidate' = [candidate EXCEPT ![p][r] = {}]
  /\ UNCHANGED <<store, pc, todo, copying, unread, unpublished, takenBack>>

(* Publish: the artifacts of all resources are admitted before any index.  *)
Publish(p) ==
  /\ pc[p] = "capturing"
  /\ \A r \in unpublished[p] : generation[p][r] # {}
  /\ todo' = [todo EXCEPT ![p] = UNION {generation[p][r] : r \in unpublished[p]}]
  /\ Goto(p, "admitting")
  /\ UNCHANGED <<store, candidate, generation, copying, unread, unpublished, takenBack>>

(* copyOpenVerified: os.OpenFile(blobPath, O_CREATE|O_EXCL) of an artifact *)
(* either creates an empty file or finds one.                              *)
CreateBlob(p, d) ==
  /\ pc[p] = "admitting"
  /\ d \in todo[p]
  /\ copying' = [copying EXCEPT ![p] = {d}]
  /\ IF blob[d] = "absent"
       THEN blob' = [blob EXCEPT ![d] = "partial"] /\ Goto(p, "creating")
       ELSE UNCHANGED blob /\ Goto(p, "comparing")
  /\ UNCHANGED <<index, candidate, generation, todo, unread, unpublished, takenBack>>

(* io.Copy has written everything; other processes can see it, and compare *)
(* their artifact with it, before it is synced.                            *)
FillBlob(p) ==
  /\ pc[p] = "creating"
  /\ blob' = [d \in Digests |-> IF d \in copying[p] THEN "complete" ELSE blob[d]]
  /\ Goto(p, "copied")
  /\ takenBack' = takenBack \ copying[p]
  /\ UNCHANGED <<index, candidate, generation, todo, copying, unread, unpublished>>

(* A short copy, a checksum mismatch, or a failed fsync or close, of which *)
(* the last two are of a file with everything in it: the file is removed   *)
(* and the publication fails.                                              *)
CopyFails(p) ==
  /\ pc[p] \in {"creating", "copied"}
  /\ blob' = [d \in Digests |-> IF d \in copying[p] THEN "absent" ELSE blob[d]]
  /\ takenBack' = IF pc[p] = "copied" THEN takenBack \cup copying[p] ELSE takenBack
  /\ Exit(p)
  /\ UNCHANGED index

Admitted(p) ==
  /\ todo' = [todo EXCEPT ![p] = @ \ copying[p]]
  /\ copying' = [copying EXCEPT ![p] = {}]
  /\ Goto(p, "admitting")
  /\ UNCHANGED <<store, candidate, generation, unread, unpublished, takenBack>>

(* The blob is synced and closed. *)
FinishCopy(p) ==
  /\ pc[p] = "copied"
  /\ Admitted(p)

(* verifyExisting, after O_EXCL failed: the file may be missing again or   *)
(* complete by now, and is never written to.                               *)
VerifyExisting(p) ==
  /\ pc[p] = "comparing"
  /\ \A d \in copying[p] : Usable(d)
  /\ Admitted(p)

ExistingUnusable(p) ==
  /\ pc[p] = "comparing"
  /\ \E d \in copying[p] : ~Usable(d)
  /\ Exit(p)
  /\ UNCHANGED <<store, takenBack>>

(* Mutant: each index is written as soon as some artifact is admitted. *)
StartIndicesEarly(p) ==
  /\ pc[p] = "admitting"
  /\ Goto(p, "publishing")
  /\ UNCHANGED <<store, candidate, generation, todo, copying, unread, unpublished, takenBack>>

(* Mutant: the artifacts that only the replaced generation used are pruned. *)
WriteIndexPrunes(p, r) ==
  /\ pc[p] = "publishing"
  /\ r \in unpublished[p]
  /\ index' = [index EXCEPT ![r] = generation[p][r]]
  /\ blob' = [d \in Digests |-> IF \E s \in Resources : d \in index'[s] \/ d \notin index[r]
                                  THEN blob[d] ELSE "absent"]
  /\ unpublished' = [unpublished EXCEPT ![p] = @ \ {r}]
  /\ UNCHANGED <<pc, candidate, generation, todo, copying, unread, takenBack>>

(* The second loop of Publish; WriteFileSync renames a complete file over  *)
(* the index.                                                              *)
StartIndices(p) ==
  /\ pc[p] = "admitting"
  /\ todo[p] = {}
  /\ Goto(p, "publishing")
  /\ UNCHANGED <<store, candidate, generation, todo, copying, unread, unpublished, takenBack>>

WriteIndex(p, r) ==
  /\ pc[p] = "publishing"
  /\ r \in unpublished[p]
  /\ index' = [index EXCEPT ![r] = generation[p][r]]
  /\ unpublished' = [unpublished EXCEPT ![p] = @ \ {r}]
  /\ UNCHANGED <<blob, pc, candidate, generation, todo, copying, unread, takenBack>>

(* All indices are written, or writing the next one fails. *)
EndPublish(p) ==
  /\ pc[p] = "publishing"
  /\ Exit(p)
  /\ UNCHANGED <<store, takenBack>>

(* The process dies, or its capture fails before anything is published.    *)
Crash(p) ==
  /\ pc[p] # "idle"
  /\ Exit(p)
  /\ UNCHANGED <<store, takenBack>>

-----------------------------------------------------------------------------
Step(p) ==
  \/ \E r \in Resources : LoadCandidate(p, r) \/ CaptureResource(p, r) \/ WriteIndex(p, r)
  \/ \E d \in Digests : CreateBlob(p, d)
  \/ Publish(p) \/ FillBlob(p) \/ CopyFails(p) \/ FinishCopy(p)
  \/ VerifyExisting(p) \/ ExistingUnusable(p) \/ StartIndices(p) \/ EndPublish(p)

Next == \E p \in Pulls : Start(p) \/ Step(p) \/ Crash(p)

Spec == Init /\ [][Next]_vars

-----------------------------------------------------------------------------
(* Types of the variables. *)
TypeOK ==
  /\ blob \in [Digests -> {"absent", "partial", "complete"}]
  /\ index \in [Resources -> SUBSET Digests]
  /\ pc \in [Pulls -> PCs]
  /\ candidate \in [Pulls -> [Resources -> SUBSET Digests]]
  /\ generation \in [Pulls -> [Resources -> SUBSET Digests]]
  /\ todo \in [Pulls -> SUBSET Digests]
  /\ copying \in [Pulls -> SUBSET Digests]
  /\ unread \in [Pulls -> SUBSET Resources]
  /\ unpublished \in [Pulls -> SUBSET Resources]
  /\ takenBack \in SUBSET Digests

(* An index in force refers only to complete blobs, whatever other pulls   *)
(* are admitting, failing or leaving half written: the order of Publish's  *)
(* two loops, and O_EXCL creation under the final name, see to it.  The    *)
(* one exception is a blob whose own creator removed it when fsync or      *)
(* close failed (store.go:417-425): another pull may have compared it, and *)
(* published an index with it, in between.                                 *)
IndexedBlobsComplete ==
  \A r \in Resources : \A d \in index[r] : Usable(d) \/ d \in takenBack

(* A candidate stays usable from the time its index was read to the time   *)
(* its blobs are opened, although other pulls replace the index meanwhile; *)
(* the exception is the same.                                              *)
CandidatesUsable ==
  \A p \in Pulls, r \in Resources :
    \A d \in candidate[p][r] : Usable(d) \/ d \in takenBack

(* docs/compatibility.md:69: completed ledger blobs are immutable.  Blobs  *)
(* are completed by their sync: before it, and never after, the process    *)
(* that wrote a blob may remove it.                                        *)
BlobsImmutable ==
  [][\A d \in Digests :
       Usable(d) => \/ Usable(d)'
                    \/ \E p \in Pulls : pc[p] = "copied" /\ d \in copying[p] /\ CopyFails(p)]_vars

(* Two pulls never write one blob, so bytes of different copies never mix. *)
OneCreator ==
  \A p, q \in Pulls :
    /\ pc[p] \in {"creating", "copied"} /\ pc[q] \in {"creating", "copied"}
    /\ copying[p] \cap copying[q] # {}
    => p = q
=============================================================================
