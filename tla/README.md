# floceed: TLA+ models and proofs

floceed captures selected resources of an AWS account (`floceed pull`), compiles
them into one generated directory (`.floceed`), and replays that directory into
a local Floci container (`floceed up`). The commands are separate, short-lived
processes; what they share is the file system. Most of what can go wrong is
therefore about files: which process sees which directory between two renames,
what a crash leaves behind, and what the next process makes of it.

This directory holds TLA+ models of that behaviour, TLC configurations that check
them on small instances, and TLAPS proofs of the main invariants for all instances.
`PROJECT.json` lists every run, theorem, hazard, finding and the source lines each
definition stands for. Paths below are relative to `src/internal/`.

    tlc -config BundleInstall.cfg MCBundleInstall     model-check a run
    tlapm BundleInstallProofs.tla                     check the proofs of a module

## 1. The system

| Component | State | Operations | Interacts with | What is hard | Correct when |
|---|---|---|---|---|---|
| Bundle installation (`bundle/bundle.go`, callers in `app/bundle.go`, `bundle/render.go`, `bundle/archive.go`) | output directory, `.backup`, `.lock`, stage directory | `WriteAtomicGuarded` by pull, render, unpack | readers of the directory (`up`, `inspect`), operator | crash and failure between two renames, stale lock, baseline read long before | old or new bundle in force, never lost; receipt names the replaced bundle |
| Capture ledger (`captureledger`) | blobs, one index per resource | `LoadCandidates`, `Materialize`, `Publish` | all pulls of a machine, no lock | two publishers of one blob, partial blobs, an index replaced between read and use | an index names complete blobs only, unless a sync failed |
| DynamoDB capture (`services/dynamodb/data.go`) | checkpoint, page runs, merge files, parts | scan, checkpoint, merge, split | table clients, work directory, governance | interruption anywhere, table changes under the scan, limits at the boundary | resumed = uninterrupted; nothing twice, nothing still missed |
| S3 capture (`services/s3/data.go`) | inventory file, checkpoint, packs | list, pack, reuse | bucket clients, ledger, work directory | inventory stale when objects are read, findings lost on resume, an inventory cut twice | untouched objects are captured as they are; a pack holds what its inventory and its ledger evidence say |
| Capture pool (`app/plan.go`) | slots, outcomes, cancellation | run jobs, fold outcomes | all adapters | cancellation racing a slot, choice of error | bounded, all jobs end, concrete error wins |
| Pull (`app/bundle.go`) | work directory under an flock, snapshots in memory | `PullWithOptions` | pool, adapters, installation, ledger, a second process | crash between capture, install, publish and clean-up; an edited project; goroutines that outlive a failure | the capture is kept until installed; a bundle holds what was captured by its definition; the ledger what was installed |
| Governance (`governance`) | ranker, selection, audit | normalise, compile, rank, transform, count | table and object capture | selection across resumes, spellings of rules | same cohort with and without interruption; no governed value is left raw |
| Configuration and manifest (`config`, `model`) | `floceed.yaml`, `manifest.json` | defaults, `Validate`, profiles | wizard, every command, replay program | three validators of the same facts | what one accepts the next one takes |
| Kinesis and SQS capture, NDJSON writer (`services/kinesis`, `services/sqs`, `services/ndjson`) | one data file | read shards or queue | AWS, producers | end of a shard, limits | bounded, and nothing left unseen |
| Structure-only adapters (`services/...`) | none | one-shot reads | AWS, plan | the actions that a plan lists | the plan's actions suffice |
| Local runtime (`app/local.go`, `compose`) | container, deadlines | up, down, reset, status | Docker, Floci, installed bundle | timeouts racing readiness, a concurrent down | bounded wait, truthful result |
| Replay program (`../runtime/replay.py`) | Floci's resources, thread pools | base, links, data | Floci, its user | retries, partial batches, kills, a second run | complete or an error |
| TUI (`tui`) | screen, tokens, selection, pull channel | messages and keys | application layer | late messages of earlier work | what is pulled was reviewed, permitted and of the right account |
| Archives (`bundle/archive.go`), inspection (`inspect`), admission (`policy`), storage (`storage`) | none between calls | pack and unpack, compare, admit, check space | bundle | boundaries of pure algorithms | equal to their definitions |
| CLI, AWS configuration, catalog | none | flag parsing, error classes, tables | - | - | not modelled |

## 2. Modules

| Module | Contents |
|---|---|
| `BundleRegister` | what an installation promises: an atomic register whose plain and pull writes replace one bundle by another |
| `BundleInstall` | `WriteAtomicGuarded` and what its callers read around it |
| `BundleInstallProofs` | type invariant, mutual exclusion, all-or-nothing, refinement, no loss |
| `CaptureLedger` | `Publish`, `LoadCandidates`, `Materialize` of concurrent pulls |
| `CaptureLedgerProofs` | type invariant, exclusive creation, whole indices, immutable blobs |
| `DynamoCapture` | `captureData` of one table over any number of attempts |
| `DynamoCaptureProofs` | soundness of the checkpoint, limits, progress; the rows of the dataset, the cohort, types |
| `S3Capture` | `captureObjectsReusable` of one bucket over any number of attempts and captures |
| `S3CaptureProofs` | types, ordered inventory, soundness of the checkpoint, limits, packs against the inventory, current objects |
| `CapturePool` | `runCaptureJobs` and `firstCaptureError` |
| `Pull` (extends `CapturePool`) | `PullWithOptions` of two processes around the pool: flock, work directory, installation, publication, clean-up |
| `PullProofs` | the pool alone (types, bound of the workers, choice of the error) and inside pulls; no stray writer, own work, requests, ledger, kept checkpoints |
| `Replay` | the steps of `replay.py`, run any number of times |
| `LocalRuntime` (extends `Replay`) | `up`, `down` and `reset` around the container whose hook is the replay |
| `LocalRuntimeProofs` | contained threads, a faithful replay, the end before any data, a truthful `up`, types |
| `Policy` | rules and cohorts of governance, their effect on items, the audit |
| `ProjectConfig` (extends `Policy`) | `floceed.yaml`: the wizard's output, defaults, validation, profiles |
| `Manifest` (extends `ProjectConfig`) | validation of the manifest by `model.go` and by `replay.py` |
| `ResourceCapture` (extends `Manifest`) | one resource of any service from project file to the replay's validation, Kinesis and SQS record by record |
| `ResourceCaptureProofs` | plans that suffice, limits, nothing missed, types, no raw value, files that load, agreeing validators |
| `Tui` | the interactive flow |
| `TuiProofs` | types, selection, account, plan, permission, stale reports, result, a busy interface has something to wait for |
| `MC...` | instances for TLC |

### BundleInstall

Every system call on which two processes can race is one action: `AcquireLock`
(`O_EXCL` creation of `<target>.lock`), `Build` and `BeforeInstall` (stage
complete; a pull loads the baseline again), `RefuseBackup`/`NothingToBackUp`/
`BackUp` (the checks and the first rename), `Install`/`InstallFails` (second
rename), `Restore`, `RemoveBackup`, `Unlock` (the deferred removals). `pc` says where
a writer is; `manifest`, `baseline` and `outcome` are its local variables. Before
the lock a pull runs `StatBaseline` and `LoadBaseline`, a render `ReadManifest`,
an unpack `OpenArchive`. `Crash` ends a process without its deferred calls;
`RemoveStaleLock` and `RecoverBackup` are what an operator does on reading the
error messages (nothing in the code repairs either) and are external.

A bundle is its manifest. That is faithful as far as it goes because every reader
validates all checksums (`LoadGenerated`, `ValidateGenerated`) before using one;
`Torn` stands for a directory of which a removal left a part. A render hard-links
artifacts out of the target, so `CanStage` compares the artifacts its manifest
names with those of the bundle that is installed by then. The content of
generated files is abstracted.

### CaptureLedger

A digest stands for an artifact, a generation of a resource for the set of digests
its units name. `CreateBlob` (`O_EXCL` under the final name), `FillBlob`
(everything written, visible to others), `FinishCopy` or `CopyFails` are the
steps of `copyOpenVerified`; `VerifyExisting`/`ExistingUnusable` is what happens on
`EEXIST`. `WriteIndex` is atomic because `storage.WriteFileSync` renames a
complete file. `CopyFails` removes the file, also when `fsync` or `close` fails after
everything was written and perhaps compared by others; `takenBack` is a history variable
with the blobs that such a failure removed and nobody has written again.

### DynamoCapture

An item is its position in the table's scan order, a file the bag of its rows,
a checksum the content it was taken of. `ScanPage` calls Scan and truncates the
page's run file, `KeepPage` completes it and advances the process's copy of
the checkpoint, `SaveCheckpoint` renames it into place; a governed capture skips
that step for pages between its intervals. `BeginMerge` to `EndMerge` are
`mergeRuns`, with `OutputExists` for the merge file that is there already.
`FinishPull`, `Restart` and `RemoveEntry` are `os.RemoveAll` of the work directory,
entry by entry; `Stop` is a crash or any error return. `WriteItem` is another
client of the table. `Resume` takes a checkpoint that is `Acceptable`: its runs are there
with their checksums, and the sealed state of a governed capture has not ended with a
last key (`ValidState`), as that of a bounded capture that reached a limit has; `RejectCheckpoint`
is the rest, and asks for `--restart`. A scan position with a page boundary anywhere stands for
DynamoDB's size limit; items that a cohort's predicate excludes never enter
`table`.

### S3Capture

An object is a body, which fixes its ETag and size, and a meta, its user metadata
and tags; a digest is what it was taken of, a checksum the file's content. Keys are
numbers in listing order. `ListPage` is one response, which may end after any key;
`InventoryObject`, `SkipOversized` and `StopAtLimit` treat its objects one by one,
with `HeadObject` and `GetObjectTagging` answering from the bucket as it is by
then, or failing; `EndPage` syncs and saves the checkpoint. `inventory` is the file,
so its lines outlive a crash and `Resume` truncates them to the checkpoint's length.
`PackEnd` is `inventoryPackReader.Next`. A pack is taken from the ledger in three
steps (`ReusePack`, `MaterializeData`, `MaterializeIndex`) or downloaded object by
object and written in three (`FetchObject`, `WriteData`, `WriteIndex`); `BeginPack`
out of `reuse` is a failed `Materialize`, of which a half-copied file is one
case. `SavePack` names it in the checkpoint. `PullSucceeds` installs, publishes the
ledger or fails to, and removes the work directory; the next `StartFresh` is
another pull, for which that ledger is the candidate. `WriteObject` is another
client of the bucket, active at any instant. `touched` is a history variable: the
keys written since the capture, not the attempt, began.

### CapturePool

`state` says where a job's goroutine is: in the `select` (`TakeSlot`, `GiveUp`; both are
enabled when both channels are ready), in the adapter (`Return`), between the
adapter's error and `cancelCaptures` (`CancelCaptures`), or in its deferred functions
(`Release`). `ctx` is `captureCtx.Err()`, which the first cause fixes. The error of an
adapter is `failed`, or the context's own once the context is over: every adapter
passes that on unclassified (`awsconfig.Classify`). `Examine` is one round of
the loop of `firstCaptureError`, in selection order. `CallerEnds` is the command's
context, cancelled or past its deadline.

### Pull

Two processes run `PullWithOptions`. The one called `pull` has the whole pool of
`CapturePool`: `Launch` starts its goroutines, a `Return` that captured is joined with
what the adapter did to the work directory (`Adapter`: resume a checkpoint, reuse the
ledger's data or capture anew, `Obtainable`). The `rival` takes the same steps with
one adapter at a time. `Begin` ends in the flock or in `CAPTURE_IN_PROGRESS`; `work`
is what a directory holds for each job, and `Fingerprint` names the directory by the
whole request, since a hash is taken as what it is a hash of. A request has a project file,
what that says of how resources are captured (`options`) and the effective policy; the ledger
is asked for the last two only (`CaptureDefinition`), so its data may be another project's. `FinishCapture` goes on or
fails, `Abandon` is any error up to the installation, then `Install`, `Publish` (which
may fail) and `Clean` (which may fail, after which the captures stay). `Crash` ends a
process anywhere and with it its goroutines and its lock. A datum is the request it was
captured for and the process that captured it; how one bundle replaces another is
`BundleInstall`'s, the ledger blob by blob `CaptureLedger`'s.

### LocalRuntime and Replay

`Replay` follows `main` of `replay.py`: `Loops` are its loops over the resources of some
kinds, `Steps` their rounds, of which `todo` has those before the run and `Current` is the
first; one `Ensure`, `Apply` or `Link` per round, then the chunks of a dataset in a thread pool (`StartChunk`, one call
to Floci at a time, `Collect`, `Raise`, `Leave`). `BatchWrite` writes any part of a
batch, and `After` resends the rest up to `Attempts` times. `floci` is what Floci keeps:
an earlier run, or the user (`LocalWrite`), may have changed it; an object that the user
gave other metadata or tags but not another body is `altered`, and equal for `object_matches`
(`Keeps`). `Kill` is the hook's
timeout. `LocalRuntime` adds the container, which starts the hook, and the `up`
processes with their polls: `Poll` reads the status the way `WaitReady` does, `Expire`
and `Cancel` end the context, and `Outcome` is the precedence of its error. `honest` says
whether Floci reports ready after a failed hook: `WaitReady` believes it,
`InspectStatus` does not, and nothing in the repository says which Floci does, so both are
modelled.

### Policy, ProjectConfig, Manifest, ResourceCapture

The first three are operators. A spelling is plain, padded or upper-case, and a conversion is
what it does to that (`NormalRule`, `NormalPath`). `Decode` is defaults, then
validation, then profiles; `WizardProject` is what the interactive flow writes for a selection.
Rules are applied in any of the `Orders` that the sort key of a rule leaves open, since names are
not compared letter by letter. `Manifest` has both validators of the manifest.
`ResourceCapture` drives them: the user has some `file`, plans, grants exactly the actions the
plan lists; the pull makes its `Calls`, which are the permission probes, then what finds
the shards or the queue (`ShardCalls`, `AddressCalls`) or what describes the resource, and each
needs its action; it reads shards and queue beside producers, writes the NDJSON file line by line
(`Fits`), and installs what `ManifestValid` accepts; `Replay` is the validation by `replay.py`.
Records and bytes are counted as the cardinality of a set of pairs (`Taken`, `BytesIn`, and
`RowsOf` and `BytesIn` in the captures of tables and buckets), which is what the
proofs can add up.

### Tui

One goroutine handles keys and messages. A command in flight is a record with the values
it was started with; `current` says whether its token is still the model's, `fresh` (a
history field) whether the user has stayed on its screen. Identity commands carry no
token, as in the code. `Merge` is `mergeResources`, `Request` what `Model.Project` would
write. The pull's goroutine (`Save`) checks the account again, writes the file, and reports
through a channel of capacity `Buffer` from which one command at a time receives
(`armed`). The list's cursor and filter, and the drawing, are left out.

## 3. Runs

| Run | Instance | Shows |
|---|---|---|
| `BundleInstall` | 1 pull, 1 render, 1 unpack, 3 bundles | `AllOrNothing`, `BundleNeverLost` and the refinement of `BundleRegister` over all interleavings, failures, crashes, repairs; every command that reaches the lock returns |
| `CaptureLedger` | 2 pulls, 2 resources, 2 digests, failing copies and syncs | `IndexedBlobsComplete`, `CandidatesUsable`: nothing is missing but blobs that their creator took back after a failed sync |
| `DynamoCapture` | 2 positions, all modes, 2 interruptions | the dataset has one row per item (`OneRowPerItem`), misses none (`NothingMissed`) and is the uninterrupted cohort (`CohortExact`), over sound checkpoints and within limits; it completes |
| `S3Capture` | 2 keys in 2 prefixes, 2 bodies of different size, 2 writes, 2 interruptions | a full capture resumes from what it saved (`CheckpointSound`), has every untouched object with its body (`DatasetCurrent`) and packs what its inventory says (`PacksMatchInventory`) |
| `S3CaptureBounded` | 3 keys, 3 sizes, limits of 2 objects, size 2, total 3, 1 write, 1 interruption | `LimitsHeld`; liveness |
| `Pull` | 3 resources, 2 workers, 3 requests, 2 pulls of either process | what a capture reports is what its jobs came to (`OutcomeFaithful`), no goroutine writes after its pull (`NoStrayWriter`), a bundle has data captured by the definition of its pull (`AsRequested`), the ledger has what was installed (`LedgerInstalled`), captures are kept until then (`CheckpointsKept`), a pull returns |
| `LocalRuntime` | 1 `up`, 2 starts; a bucket of 2 chunks, a table, a queue of 2 messages, a stream, a topic; 2 threads, 2 attempts, 1 edit by the user | a replay that exits well is complete, but for what an object's policy leaves to the user, and makes no needless object version (`ReplayFaithful`), threads stay in their pool (`PoolsContained`), an incompatible resource stops it before any data (`IncompatibleStops`), `up` agrees with `status` unless Floci calls a failed start ready (`UpTruthful`); `up` and the replay end (`EverythingEnds`) |
| `Tui` | 2 profiles of 2 accounts, 1 bucket, 2 commands in flight, 2 events, a channel of 2 | profile and resources of selection, plan and permissions are those of what is pulled, and, but for one race, data modes and identity too (`AsReviewed`), with the account checked, late reports ignored and the result shown last; neither the interface nor the pull hangs |
| `ResourceCapture` | some 1,300 project files: every service with each field of its resource, data policy and profile changed in turn; 2 shards of 2 records, limits of 3 records and 7 bytes | records within limits and none left unseen, plans that suffice (S3 and DynamoDB aside), no raw governed value, validators that agree (`ValidatorsAgree`: `config.go`, `model.go`, `replay.py`), files that load unless a name in them is refused, and profiles that compile (`FilesLoad`) |
| `DynamoCaptureResumable` | 3 positions, full mode | counterexample, section 6 |
| `S3CaptureTruncation` | 2 keys | counterexample, section 6 |
| `ReplayAccepts` | as `ResourceCapture` | counterexample, section 6 |

**Bounds.** Two installers are enough for every race on one lock, one target and one
backup, and the proofs cover any number; the run has one of each command, so the
third acts after both. Of three bundles two share an artifact, so that a render can
and cannot stage the manifest it read. Two resources are needed for a publisher
to be between two indices, two digests for it to be between two blobs. With two
scan positions a capture has up to three pages (the last one empty), hence two merge
passes at fan-in 2; a bounded capture reaches either limit first; a cohort of one
has to choose. `MaxStops` bounds the interruptions of one behaviour: two let a
second attempt be interrupted over what the first one left. There are no other
bounds on counters: pages and items are limited by the scan order. For a bucket,
two keys give two pages in two prefixes, an inventory that one pack holds or,
by bytes, does not, and a pack that is fresh next to one that is not; the two sizes
fill a pack by count and by bytes; `MaxWrites` is 2 so that an object can change,
and change back or change another one, between listing, digest, download and the
next pull. The bounded run starts
from a bucket of which one object is oversized and the other two just fit; one write
to it makes the limit on objects or the one on the total bind.

In `Pull` three jobs on two workers leave one waiting while another fails; of three requests
two differ in the project file only, and the third in what shapes a capture too, which is what
the fingerprint must tell and adapters' checkpoints do not; the rival has the stored file, so
that it can share a directory or only the ledger (`RivalAsks`); two pulls are a pull and its resume, or the two processes at once.
In `LocalRuntime` a batch of two rows is written in part; with two attempts both retry and
exhaustion happen; two starts are a replay and the replay after it. Storage on a path is as a
volume that no reset clears, and Floci's behaviour is tied to the storage, so that each
occurs; the proofs cover every combination. In `Tui` two commands
in flight are a stale and a current one; the channel is full with two events.
`ResourceCapture` takes the defaults as small numbers (3 records, 7 bytes), so that each
limit is met exactly and passed, and records of two sizes.

**Fairness.** `BundleInstall!FairSpec` gives weak fairness to the steps of a
process between lock and return, since a running process keeps running; none to
starting commands, and none to operators or crashes. `DynamoCapture!FairSpec`
adds that the operator tries again after an interruption (`Attempt`), and, when
told to restart, does so before giving up (`SF` on `Restart` once an attempt was
refused, which is the error's remediation text); interruptions are finitely many. The
run `DynamoCapture` shows that this suffices (`Completes`), and its mutant that it does not if
`--restart` leaves merge files behind.

`S3Capture!FairSpec` has weak fairness on the steps of a
running process and on starting again after a failure; writes and interruptions are
finitely many. `Completes` excepts a stale inventory (section 6).

`Pull!PullFairSpec` lets the pool's goroutines and the pull's own steps run on; that an
adapter returns is an assumption about the SDK's timeouts. Nothing is assumed of the
rival, which may hold its lock for ever: a pull does not wait for it (`PullReturns`).

`LocalRuntime!Fairness`: a started `up` runs on and its timer fires; the replay
program runs on, or is killed at the hook's timeout. Commands of the user are not fair.
`Tui!Fairness`: commands end and their messages are handled, a pull runs on. Keys are not
fair: `NotStuck` says what happens to a user who does nothing, but for a plan he left.

**Deadlock** is checked where a process can always begin a new command; it is
switched off in `Pull`, `LocalRuntime` and `Tui`, where the number of pulls and starts is
bounded and the user may quit. There liveness properties say more.

## 4. What is proved

The proofs hold for all constants that satisfy the modules' `ASSUME`s.

*BundleInstallProofs.* `IInv` = types, `OneInstaller`, `Progress` and
`TornHasTarget`. `OneInstaller` alone is inductive; `AllOrNothing` is not, because
what a returning writer leaves depends on what it saw several steps earlier.
`Progress` records, for each value of `pc` inside the lock, what that writer knows
of target and backup (after `BackUp`: no target and a complete backup, which for
a pull is its baseline, and so on). Other writers cannot disturb it because they
cannot be inside too. `TornHasTarget` says a torn backup only exists beside a
complete target, so restoring never installs one. `Refinement` maps the register to
`InForce` and the receipts: `Install` maps to a write, every other step stutters,
crash and repair included. `NeverLost` follows action by action.

*CaptureLedgerProofs.* Nothing is assumed of syncs. The invariant follows a digest from
admission to the index: a pull that is past admitting a digest has seen it complete
(`AdmittedUsable`), and a complete blob stays complete or is taken back by its creator
(`BlobsStay`, with `CreatorIsExclusive`). What an index or a candidate may lack is therefore
exactly the blobs in `takenBack`; `BlobsNeverChange` says when a blob gets there.

*DynamoCaptureProofs, the checkpoint.* `IInv` = `StateOK` (both copies of the checkpoint are
sensible: counters and runs agree, limits hold, the process's copy extends the saved
one) and `FilesOK` (the runs the saved checkpoint names are on disk as recorded,
those of the process's copy too, and the page being written is none of them).
`CheckpointIsSound`, `LimitsAreHeld` and `ProgressIsKept` follow.

*DynamoCaptureProofs, the dataset.* None of `OneRowPerItem`, `NothingMissed` and
`CohortExact` is inductive: each speaks of a finished dataset, and what makes it right
happened pages, passes and attempts before. `DataOK` says it of every instant. While
scanning (`Scanned`, of both copies of the checkpoint): the runs hold no row twice
(`OnceEach`), none from beyond the last key unless the scan has ended (`NoneBeyond`), and every
unmoved item the scan has passed (`AllPassed`); the cohort's selection is the best of what it was
offered (`Selects`). While merging: the live files, which are the inputs not yet merged and
the outputs, hold together each row of the runs once (`LiveExact`), whichever group is being
merged and whatever files an earlier attempt left, since those are refused, never read; files are
named by pass and number (`Named`), and each pass has fewer than the one before (`Shrinking`), so
the merge ends with one file whose content is that of the parts (`Final`). Disjoint unions of
rows (`RowsOf`) take the place of sums: that no two files hold the same row is what makes
`Cardinality` a bag.

*S3CaptureProofs.* `IInv` = `Types`, `OrderInv` and `PackInv`. `OrderInv` says that
the lines a checkpoint counts are ordered and lie, by prefix and key, before the
place where listing goes on, that the lines after them come from the page at hand,
and that the saved and the process's counters are such a place; that prefixes are
disjoint and sorted (`compactPrefixes`) is an assumption on the constant and is
what carries order over from one prefix to the next. `PackInv` says that both
checkpoints' packs are on disk, that packed entries are a prefix of the inventory,
and what files of the pack being made exist at each `pc`. `NumberIsNew` (the pack
being made is none of those named) is why removing and writing its files cannot
hurt a checkpoint; `PackEnds` bounds the cut of `Next`.

`LimitInv` counts the bytes of the first lines of the inventory (`Bytes`) against both
copies of the checkpoint's counters, whence `LimitsAreHeld`: a resume truncates the file to
the lines that the counters count. `CutInv` says that the packs of a
checkpoint are the cut of the inventory at some increasing boundaries, each the `PackEnd` of the
one before, and that the pack being made starts at the last of them. `Cut`, which the
property uses, is recursive; that it meets those boundaries is shown by a least
counterexample, and gives `PacksMatch`. For `DatasetIsCurrent`, `CurrentInv` follows an
untouched object: every one that listing has passed is in the inventory with its body
(`AllListed`, `Current`), what the ledger offers is used only for an equal ETag and, with metadata, an
equal digest, and a pack holds what its lines say; `touched` begins anew with every
capture, not with every attempt, so resuming is covered.

*PullProofs, the pool.* `SlotsInv` equates the channel's length with the number of
goroutines between `select` and `Done`, and bounds the workers. `CauseInv` says that a
cancelled context has a cause, the caller or a job that failed by itself, and
`ExamineInv` what the loop has established after each round. Together they give
`InducedCancellation`: were a cancellation reported without the caller having
cancelled, some job would have failed by itself, and the loop would have preferred
it.

*PullProofs, the pulls.* The pool's `IInv` is part of `PInv`: outside a capture the pool is at
rest, `Launch` and `Kill` establish `IInv` anew, and every other step of a pull leaves the
pool alone or is one of its own. `LockInv` (who is under way has the lock of the directory of
his request) and `QuietInv` (no goroutine outside a capture) give `NoWriterStrays`; it
is `captures.Wait()` that makes `QuietInv` hold when a capture fails. `WorkInv` ties a
directory to the capture definition of its fingerprint, so that what is resumed was captured
by the definition of the pull, and the ledger's data are taken for an equal definition only
(`InstalledAsRequested`); `WorkIsOwn` says that what a pull has in memory is what its directory
holds. `CapturedInv` carries "everything selected is there" from the
pool's `NothingSkipped` to the installation, and "installed" to the two steps after
it, whence `LedgerOfInstalled` and `CapturesAreKept`.

*TuiProofs.* `SelectionVisible` is inductive with the domain of the choices, and
`AccountChecked` with the check that precedes the writing. The rest need `IInv`: a
current scan is found on four screens only and a current plan on one, at most one of
each is current, and one that was left has no screen that waits for it (`PlaceInv`,
`StaleInv`); an identity is loaded by one command, for the chosen profile, while the
interface is busy (`LoadingInv`); the options stay as they are while their plan is made
(`FrozenInv`); and the checks are passed from the summary on (`CheckedInv`). What these say
of the identity and of data modes holds unless a cancelled scan reported while an identity was
loaded (`raced`, section 6): `IdentityCurrent` wholly, `PlanCurrent` and `PullPermitted` as
to data modes. Without that condition it is proved that profile and resources are the same in
selection, plan and pull, that the plan's account is its profile's and that all permissions
were found; `SelectionIsVisible` and `AccountIsChecked` do not mention the race. `ChannelInv` says that what was
sent is what was shown and what the channel holds, with the result, once sent, last.
`SomethingIsUnderWay` is the part of `NotStuck` and `PullConcludes` that a single state can
show: a busy interface has a command in flight whose report frees it (`BusyInv`), and a pull
that is watched has a receiver and an update sent or to be sent (`ArmedInv`, `ChannelInv`), so a
full channel never holds it up for good. That these steps are taken is left to the runs.
`BoundsAssumption` only says that `Events` and `Buffer` are numbers.

*LocalRuntimeProofs.* They speak of `Replay` inside the containers of `LocalRuntime`, which
start, kill and wipe it; `NextCases` reduces a step of the whole to one of the replay,
an end of its process or an edit. `PoolInv` has the threads at work on the current
resource's chunks, at most `Workers`, and in a loop a single one that stops for good when
something failed; since main leaves a resource only when no thread is left (`MainLeaves`),
`PoolsContained` follows. `DoneInv` says that what is behind a run is done: of the steps no
longer in `todo` the resources are there and linked and the keys replayed, of a finished chunk
all keys, and of a running one those before the current batch that are not pending. It
needs that nothing but a user between two runs replaces a captured value, and gives both
`ReplayComplete`, when `todo` is empty, and `IncompatibleStops`: before the first data step
every base step is done, so nothing can be incompatible. `VersionInv` charges each
write of an object to its absence or to an edit. `UpInv` ties an answer to the start of
the container it was heard of; where Floci calls a failed start ready, `UpTruthful` says that
this, and nothing else, is why `up` and `status` differ.

*ResourceCaptureProofs.* `ProjectInv` (a pull works on what its file decodes to) is part of every
argument. `PlanIsEnough`, of all services but S3 and DynamoDB: what remains to be called is always in the plan (`PlanInv`), since
`CallsArePlanned` compares `Calls` with `Planned` service by service. `LimitsAreHeld` and
`NoRecordIsMissed` rest on `RecordsInv`: the artifact's size and number of records are those of
what was taken of each shard, `PageWritten` says how far `WritePage` gets (the least record that does
not fit ends it), and a shard that was left holds what it was left with; that the limits of a
bounded capture are positive is `LimitsPositive`, from `applyDefaults` and `Validate`. `NoRawValueIsCaptured`:
`GovernedMarked` follows an item through the rules of the policy in any order the code may
apply them, and `ItemGoverned` says that no leaf a rule names is left as the source had it;
`ProfilesCompile` relates the checks of `config.go` to those of `governance/policy.go`.
`FilesDoLoad`: `WizardProjectIs` computes the file of a selection, `PlainDefaults` that no
default changes it, and `WizardResourcesValid` and its like that the check of a resource's own
name and ARN is the only one that can reject it; half of it is `ProfilesCompile`. `ValidatorsDoAgree`: every manifest that is captured is `Agreed`, part by part
(`StructuresAgreed` for ARNs, `DatasetsAgreed` for totals, `AuditsAgreed`), and `ManifestInv`
carries that to the two validations.

What the assumptions of `ResourceCapture` and `ProjectConfig` ask of the constants is what the
Go types give (`WellTyped`: a file is a value of `config.Project` with a resource at
least; limits that defaults supply are positive) and what discovery gives (`Selections`: distinct
names of any form, with ARNs or without). Nothing is assumed of the values of fields.

**Recursive definitions.** The library's induction theorems cannot be instantiated here, so no
proof is by induction. Where a definition is recursive (`GovernItem`, `Totals`, `Cut`) or counts
(`BytesOf`, `Records`, `Merged`), the proofs take a least counterexample (`LeastNumber`, from the library's
well-foundedness of `<`) or count a disjoint union with `FiniteSetTheorems`.

**Only model-checked:** liveness, since fairness and `ENABLED` are outside the prover's reach:
`InstallerReturns`, `Completes` of the table and of the bucket, `PullReturns`, `EverythingEnds`
(`UpReturns` and `ReplayEnds`), `NotStuck` and `PullConcludes`. Every invariant and every action
property of a passing run is stated by a theorem. The three runs with a counterexample
speak for themselves.

What is proved for all constants but restates less than the runs ask (`TypeOK` of the modules
with a `TypeCorrect`, `TypesAreCorrect` or `PoolTypeCorrect`, `OneInstaller`, `OneCreator`,
`BlobsImmutable`, `ProgressKept`, `InventoryOrdered`, `WorkersBounded`, `OwnWork`) is not
repeated in a run.

## 5. What is not modelled

Component by component in `PROJECT.json`. Within the modelled parts:

- the bytes of generated files, artifacts and tar streams; file modes and symbolic links;
  progress messages of captures; disk-space estimates (`RequireAvailable` is a saturating sum); directory
  syncs, since no model assumes that an unsynced rename survives a loss of power (a
  crash is the death of the process);
- the sealed state of a governed checkpoint and the checkpoint that names it are one file
  in `DynamoCapture`;
- `S3Capture` leaves out governed bodies and metadata with their audit counts, a changed
  capture definition (which merely drops the candidate), and a removal of the work
  directory that is cut short, which `DynamoCapture` has;
- `Pull`: what precedes the lock only reads and may refuse; the dependency graph,
  operations and audit of `plan.go`;
- `Replay`: resources that only have a structure are created in one step each, and the
  settings that `apply_mutable` changes are one;
- `ResourceCapture`: of buckets and tables only the form of their dataset, not their IAM
  actions and probes; rules for S3 text; the content of structures;
- `Tui`: cursor, filter and view;
- catalog, admission, inspection, the command line and AWS error classes are tables,
  comparisons and formatting without state.

## 6. Where code and documentation disagree

| Run | Statement | What the code does |
|---|---|---|
| `DynamoCaptureResumable` | `docs/compatibility.md:63`: full captures are resumable | a merge file left by an interruption makes every resume fail with `EEXIST` (`data.go:568`) |
| `S3CaptureTruncation` | `s3/validation.go:14`: a truncated capture is reported; admission decides on it | the finding is lost when the capture is resumed (`s3/data.go:610`) |
| `ReplayAccepts` | `docs/bundle-format.md:112`: what is installed is replayable | the dataset of an empty bucket or table, every Secrets Manager ARN, and a parameter or state machine with a colon in its name, which `config.go` and `model.go` accept, is refused by `replay.py` (205, 175-188), with the whole bundle |

More statements hold only in part. They have no run of their own; the models show each
on the way to something else, or with one constant changed:

- Between the two renames there is no output directory (`bundle.go:387-393`), for
  good after a crash, while `docs/bundle-format.md:96` and `app/local.go:279` call the
  installation atomic. It is atomic for those who look at target and backup
  together (`InForce`), which no reader does.
- `docs/bundle-format.md:111` says that a failed rendering preserves the installed
  directory. An error is returned after the new bundle is in place if the backup cannot be
  removed (`bundle.go:400`), and a failed restore leaves no directory (`bundle.go:395`).
- A crash inside the locked section leaves the `O_EXCL` install lock
  (`bundle.go:353`), which every later command reports as a render in progress
  (`bundle.go:356`) until somebody removes it (`RemoveStaleLock`).
- `store.go:66` and `docs/compatibility.md:69` call completed blobs immutable. A blob whose sync
  fails is removed although another pull may have verified and published it
  (`store.go:423`); `IndexedBlobsComplete` and `CandidatesUsable` except such blobs (`takenBack`).
- `docs/compatibility.md:63` calls full S3 captures resumable; an object replaced or
  deleted after it was inventoried fails every resume (`s3/data.go:679`), since a
  complete inventory is not built again. `Completes` says exactly that.
- `s3/validation.go:21` advises to retry for missing tags; the retry reuses the pack
  without tags from the ledger and reports nothing (`s3/data.go:743-747`).
- `replay.py:2` calls the program idempotent; with persistent storage a second start sends
  the queues' messages again (`replay.py:697-703`). `docs/bundle-format.md:58` puts
  messages outside the bundle's contract altogether.
- `docs/configuration.md:118` says that full mode removes the limits of Kinesis;
  `config.go:371-383` fills in 1000 records and 64 MB whatever the mode. `LimitsHeld` asks for
  positive limits of a bounded capture only, and leaves open whether a full one has any.
- `docs/compatibility.md:63` again: a governed bounded DynamoDB capture that ends at a limit saves
  its sealed state complete and with its last key (`data.go:395-400`), which `validateGovernedState`
  (`data.go:899-901`) calls corrupt. Interrupted after that, it never resumes; `Completes` counts
  on the `--restart` that the error asks for.

Observations that contradict no document, but that a reader of the properties should know:

- *TUI.* A scan cancelled with esc still reports with a valid token (`update.go:24-27`) and
  clears `busy`, also of an identity that is being loaded: the identity of the profile
  before may then be accepted, and data modes changed while they are planned. `IdentityCurrent`,
  and what `PlanCurrent` and `PullPermitted` say of data modes, except that case (`raced`);
  the rest of them and `AccountChecked` hold in it. A plan left with esc leaves the interface busy until esc has led back through
  the services screen. Resources and choices of an earlier profile survive choosing another. An
  error of a scan stays and blocks the identity screen.
- *Configuration.* A negative `hook_timeout_seconds` is accepted. A state machine or log
  group whose ARN has no region is accepted, captured, and then refused by
  `Manifest.Validate` (the exception of `ManifestAccepted`). Stream and event bus
  names that AWS allows (with dots, `default`) are refused. Rules for `a` and `a.b` may
  stand together (the second then fails closed). The wizard discovers S3, DynamoDB and
  Kinesis only, and lists streams whose names `Decode` will refuse (`kinesis.go:124-152`,
  `config.go:247`, `559`): its file then does not load, as `WrittenLoads` says. SQS capture makes one request of at most ten messages whatever
  `max_messages` says. A plan captures structure itself and needs those permissions.
- *Pull.* A pull that dies between installation and clean-up leaves complete checkpoints: the
  next pull of the same request installs that capture again. The ledger's data are reused across
  project files whenever definition and evidence are equal (`s3/data.go:446-452`). The fingerprint covers the
  whole project, adapters' checkpoints a part of it. Lock files are never removed.
- *Local runtime.* `down` reports `preserved_data: true` without persistence too. "Different",
  for `overwrite: if-different`, is the body: `object_matches` (`replay.py:429-443`) keeps an object
  of which the user changed the content type, the metadata or the tags.

## 7. Plan

1. Proofs: the safety parts of `PullReturns` and `EverythingEnds`, as `SomethingIsUnderWay` is for
   `Tui`.
2. Refinement of an abstract "capture once, install once" specification by `Pull`.
3. `GovernedCheckpoint`: sealed state files of their own; governed S3 bodies and the
   audit's counts; the cohort's byte cap.
4. Pure operators against reference definitions: `compare.go`, `validateDependencyGraph`,
   admission.
