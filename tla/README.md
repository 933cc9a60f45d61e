# A TLA+ model of ptctl

`ptctl` is a conservative command-line tool for private trackers: it verifies
payload files against metainfo files, lays them out, hands them to a downloader
and, much later, retires the source copies.  Nearly everything it writes is
guarded by a *journal* or a *record* that must be durable before the effect it
announces, because the effects (an add, a recheck, a stop, a removal, a POST
that spends site points, an unlink of the user's file) cannot be taken back and
their answers can be lost.  This directory holds TLA+ modules for that core,
TLC configurations that check them on small instances, and theorems about them
that TLAPS checks for every value of the constants.

Paths below are relative to `src/internal`.

## 1. Inventory

| part | state it keeps | operations | what is hard | what makes it correct |
|---|---|---|---|---|
| client adoption, `clientadopt` | one private directory per operation under the target root: lock file, `scratch/`, `intent.json`, `attempt-NN.json`, `complete.json` | plan, run, resume, status | concurrent invocations, an add whose answer is lost, crash and power loss between any two file operations | an attempt is durable before its request; one request per attempt; a settled operation sends nothing; every interrupted state can be resumed |
| adoption retention, `clientadopt/retention*.go`, `forget*.go` | `retention/` in the operation directory, one forget marker in the target root | prune, forget | removing the journal that protects the effect, beside invocations that are still reading it | evidence of a completed adoption survives every image until the user erases it; erasing can be resumed and is final |
| bonus exchange, `bonusexchange`, `cli/site_bonus_exchange.go` | five content-addressed records per operation in the private store | prepare, submit, prune, forget, list, show | no lock at all; records come and go under a running submit; power loss keeps any subset of unsynced names | one POST per prepared operation, for ever; an unknown outcome is never pruned; an outcome is never lost |
| private store, `metastore` | `objects/`, `tmp/`, versions, named sets; sealed records | import, load, list, confirm durability, remove | atomic publication without replacement, durability of names, concurrent writers | no torn object is visible; a reported record survives |
| anchored file system, `fsbind` | open directory handles and identities | mkdir, lock, create, write, sync, rename without replacement, exact removal | parents replaced under an open handle, a rename or unlink that is not durable | an operation touches the object it inspected |
| downloader drivers, `downloader/*` | sessions, request counters | ledger, add stopped, recheck, start, stop, remove | the answer is not the effect: lost, late, duplicate | exactly one non-retried request per call; complete ledgers only |
| client activation, `clientactivate` | a journal like adoption's with attempts of two kinds (recheck, start) | plan, run, resume, status, prune, forget | a recheck is observed by polling; a job that others start or change meanwhile | start is requested only after an attributable recheck of the adopted job |
| client stop, `clientstop`; client removal, `clientremove` | journals of the same shape | plan, run, resume, status, prune, forget | the effect is idempotent for the client but not for the evidence: who stopped or removed the job | only the reviewed job is touched; a completion is not claimed for somebody else's action |
| materialization, `materialize` | an operation subtree with a hash-chained event journal and staged files | run, resume, status, abandon, prune, forget | resuming half-copied trees; the rename that publishes the final directory | what is published was verified; abandon never removes a published final |
| source retirement, `sourceretire` | an execution journal, per-source removal events, parent-cleanup journals | plan, execute, resume, status, prune, forget, parent cleanup | unlinking the user's originals while authority ages | no source is unlinked without a verified current final and a live client job |
| storage index, `storageindex` | profile, data and descriptor records in the private store | refresh, refresh-discover, prune, inspect | no lock: generations are claimed optimistically; retention acts on listings that are out of date | the newest generation is complete and unique when reported, and one undisturbed command recovers from anything |
| reconciliation, `reconcile`, `cli/reconcile.go` | what one command has proved so far | report, refresh-report | up to six histories, a two-pass look at removed names, a job read around a storage proof, all while others change them | `consistent` is said only of what was so; a conflict has a cause; credentials are read after every gate |
| source matching, `storage/inventory.go`, `seed/discover*.go`, `metafile/match.go`, `metafile/verify.go` | what one search has found and charged | discover, discover from the index, verify a selected layout | budgets cut the search anywhere, files change while they are compared, the time ends, pieces cross files | ambiguity is never resolved by guessing; a verdict is true of every file that stayed as it was |
| metainfo, `metafile`; path model, `storage`; seed plans, `seed` | none (pure, read only) | parse, hash trees, path layout, plan | v1/v2/hybrid piece maps, limits | a torrent has one reading |
| sites, HTTP guard, bindings: `site/*`, `sitebinding` | sessions, binding records | login, detail, fetch, exchange form | redirects, credentials | a request goes to the reviewed origin only |
| CLI and redaction, `cli`, `security` | none | flag parsing, JSON, exit codes | secrets in errors | redaction |

The parts meet in the following ways.  A later operation consumes evidence of an
earlier one: activation needs a verified completion of an adoption and of a
materialization, stop and removal need the same job identity, source retirement
needs them all.  All journals live below one target root and use the same
`fsbind` operation lock and the same retention and forget protocol.  The bonus
exchange shares only the private store with other commands.  There are no
threads: the concurrency is between *invocations* of the program, and between the
program, the downloader, the site and other users of the downloader.

The behaviours that are hard to test are listed, line by line, under `hazards` in
`PROJECT.json`.

## 2. Modules

```
EffectLedger          what any journaled effect promises (abstract)
   ^ refined by
ClientAdopt  -------- EXTENDS AdoptJournal (the journal as a value)
   ^ extended by
AdoptRetention        prune and forget beside run, resume and status;
                      MCAdoptRetention (TLC)
   ^ extended by      ClientAdoptProofs (theorems about both)

ClientActivate ------ EXTENDS ActivateJournal; implements EffectLedger twice,
                      for rechecks and for starts; MCClientActivate (TLC)
   ^ extended by      ClientActivateProofs (theorems)

ClientControl ------- EXTENDS ControlJournal: stop and removal; implements
                      EffectLedger; MCClientControl (TLC)
   ^ extended by      ClientControlProofs (theorems)

BonusExchange         submit, prune and forget over five records
                      BonusExchangeProofs (theorems), MCBonusExchange (TLC)

Materialize           staging, publication and abandon over an event journal
   ^ extended by
MaterializeRetention  prune and forget beside run, resume, abandon and status;
                      Init, Next and the properties; MCMaterialize (TLC)
   ^ extended by      MaterializeProofs (theorems)

SourceRetire          the removal of source names and of empty parents
   ^ extended by
SourceRetireRetention prune and forget of either beside run and resume; Init, Next
                      and the properties; MCSourceRetire (TLC)
   ^ extended by      SourceRetireProofs (theorems)

StorageIndex          refresh, retention and readers of a profile's generations
                      StorageIndexProofs (theorems), MCStorageIndex (TLC)
Reconcile             one report: proofs, gates, the client bracket, the verdict
                      ReconcileProofs (theorems), MCReconcile (TLC)
SourceMatch           one search for the files of a torrent
                      MCSourceMatch (TLC)
```

### AdoptJournal

The directory of one adoption as a record: which of `none`, `bare` (mkdir done) and
`locked` (lock file made) the root is, whether scratch exists, the one staged
marker, and the published chain (`intent`, number of `attempts`, the attempt that
`done` names).  The operators `Readable`, `PendingAccepted` and `Resumable` are
`readStateWithRetention`, `recoverPending` and the conditions of an effectful
`openJournal`; `Stage`, `Fill`, `Commit` and `Discard` are the file steps of
`writeMarker`.  Marker bytes are abstracted to what the readers compare: the
sequence number, and whether the staged bytes are whole.

### ClientAdopt

Invocations of `run`, `resume` and `status` of one deterministic operation id, each
with a program counter `pc[p]`:

| `pc` | code |
|---|---|
| `survey` | `Run` reads the downloader ledger before it owns anything |
| `mkdir`, `newlock`, `scratch` | `createJournal` |
| `open`, `load` | `openJournal`, `recoverInitialization`, `recoverPending`, confirmation of what was read |
| `ledger` | `Resume` reads the downloader under the lock |
| `stage`, `fill`, `commit`, `confirm` | `writeMarker`: staged file, bytes and sync, rename, directory sync and re-read |
| `act` | `executeAdd` / `executeExisting`: is an attempt left in the budget |
| `send`, `await`, `seal`, `bracket` | the request and its answer, the second ledger, the completion |

The disk is a pair: `disk` is what running processes see, `surviving` the set of
journals a power loss may leave.  A write adds an image, a directory sync leaves one.
The images are those of a prefix of the writes since the last sync, which is what
an ordered journaling file system can leave and what the code's syncs are placed
for.  `PowerLoss` picks any surviving image and ends every invocation; `Abort` ends
one invocation at any step (an error, a cancelled context, a kill).

The downloader is external: it keeps at most one exact job (`job`), with the
attempt that made it as history, and a set `wire` of requests in flight.  It may
accept, report a duplicate, refuse, lose a request, or handle it after the sender
gave up; `OthersChangeJob` lets other users add, remove and change the job at any
moment.

Properties: the invariants `AttemptBeforeEffect`, `CompletionIsAttributed` and `CrashSafe`
(what was reported is durable, and only torn staging blocks an operation), the
liveness property `InvocationEnds`, and the refinement `LedgerSpec`, with which goes
`NoSilentRepeat` (after the first request, only an invocation that was told to repeat sends
another).  The constants `Drivers` and `Actions` say which downloaders and which reviewed
actions an operation may have; `Init` chooses one of each.

### EffectLedger

Authorise, perform, settle: an effect is authorised before it is performed, one
authorisation performs it at most once, only the newest one performs it, and
nothing happens after the operation is settled.  `ClientAdopt` implements it with
`authorised <- DurableAttempts` (the least number of attempts that every image
holds), `performed` the attempts that sent a request, and `settled` a completion
that no image lacks.  `ClientActivate` implements it with one ledger per kind of
request: a recheck is settled when the check was seen, a start when the job was seen
started.  `ClientControl` implements it with
the requests of a stop or a removal.

### AdoptRetention

`AdoptRetention` adds the tombstone directory, the incarnation (`gen`) of the
operation directory and the root forget marker (`erasing`) to the journal record,
and the steps of `Prune` and `Forget` to `Next`.  Every command looks for the root
forget marker before it owns the lock and for the tombstone after, which is the race
described under Findings.  `adopted` and `named` are history and a local of each
invocation.  Properties: `OnlyTornTombBlocks` and `CompletionIsRemembered` (a completed
adoption is never taken for one that was never made until the user erases it, and a
reported erasure is final).

### ActivateJournal and ClientActivate

The journal of an activation as a record: the reviewed action, two contiguous chains of attempts (`recheck`,
`start`) and three pieces of evidence (`checking`, `checked`, `started`), each naming
the last attempt of its kind.  `ChainAgrees`, `PendingAccepted` and `Resumable` are the
three readers of `journal.go`.

The client sends no receipt of a recheck or a start, so what drives the operation is
the state of the job (`job`), observed at one moment and used at a later one.  `Run`
observes before it creates the directory.  `Resume` opens and reads the journal
(`open`, `read`), observes while it holds the lock (`observe`) or, when there is no
intent yet, without it (`look`), and then always gives the lock up and takes it again
(`reopen`, `load`) before it decides (`decide`).  One action per branch of
`continueOperation` (`DecideSettled`, `DecideStarted`, `DecideStartAgain`,
`DecideFirstStart`, `DecideChecked`, `DecideChecking`, `DecideRecheckAgain`,
`DecideFirstRecheck`); `append` is `performStart` after `completeRecheck`, `request` and
`probe` are `executeAction`.

The code orders observations by the times it writes into the markers.  The model has no
clock; it keeps who observed after whom:

| variable | meaning |
|---|---|
| `seen[p]` | the job as `p` last observed it |
| `later[p]` | the invocations that observed after `p` did |
| `overtaken` | those whose observation is older than the one in the staged marker |
| `outdated` | those whose observation is older than the last one in the journal: what `continueOperation` compares first |

`posts`, `witness` and `attested` are history: how many requests an attempt sent, and
whether the job was checked or became complete since the observation the last recheck
attempt names.  `JobChanges` lets the client, its other users and late requests move the
job between any two states at any step.

Abstractions: the wall clock does not run backwards between invocations; an observation
is one step; the bounded series of probes of `executeAction` is its last probe; a failed
re-verification of the final content is an `Abort`; the acknowledgements of a resume are
chosen where they are first used.  The read-only preflight is left out.

Properties: `RequestsAreRecorded`, `EvidenceIsFresh` (a recorded check was witnessed after
the request it answers, and nobody acts on an overtaken observation), `CrashSafe`
and `ActionLedgers`, the refinement of both ledgers with `NoSilentRepeat`.

### ControlJournal and ClientControl

A stop and a removal have the same journal: an intent, attempts, a response to each
attempt and a completion.  What a response says is kept: `accepted` (a complete
receipt), `unknown` (a request without one) or `unsent` (no request).  A completion
says `accepted` when it attributes the change of the job to its attempt and `unknown`
when it claims no causality.  `Kinds` says which of the two an operation may be.

A command reads the journal in a *preflight* that gives the lock up again (`preflight`),
and what it saw decides whether it runs, resumes, or refuses; then it verifies the current
use of the job (`use`), initializes (`mkdir`, `newlock`, `scratch`) or opens the journal
(`open`, `load`), and continues at `observe`.  A stop completes on an observed stopped
job, a removal on an absence; with attempts in the journal the answers decide which attempt is
credited.  Where the two commands differ, the actions say so: a removal completes an
absence although all its attempts were answered `unsent`, a stop does not; a resume of a
stop refreshes durability before it calls a completion already complete, that of a
removal does not (`ReportsAreDurable` is stated accordingly); and an unpublished
completion is named `ErrMarkerRecoveryRequired` by a stop and an interrupted
initialization by a removal, which is the finding of `remove_stranded`.

The downloader (`job`, `wire`) may carry out a request before or after it answers, after
the sender gave up, or never; other users start, stop, remove and add the job at any
step.  `posts` and `confirmed` are history.

Properties: `HonestJournal` (every request is covered by a durable attempt, no response
says more than its sender learned, and a completion names the newest attempt that may
have had an effect); `CrashSafe`; the refinement `LedgerSpec` with `NoSilentRepeat`.

### Materialize

One operation of `seed materialize`: invocations of `run`, `resume`, `abandon` and
`status` on one deterministic directory.  The hash-chained events replay to a phase and a
number of staged files (`Logs`).  An image has five parts in four directories: the root
(operation directory and public name), `journal/`, `scratch/` and `stage/`.  Each
directory has its own sync, so a power loss keeps any combination of unsynced parts;
a rename is atomic and durable once its *destination* directory was synced; and changes
within one directory survive in their order.  These three are assumptions on the file
system.

| actions | code |
|---|---|
| `Start`, `CheckFinal`, `MakeRoot`, `MakeTree`, `WriteIntent` | `Run`, `createJournal` |
| `Open`, `Reconfirm`, `FindSource`, `ConfirmCommitted` | `Resume`, `Status`, `Abandon`, `confirmReplayDurability` |
| `ReserveEvent`, `CommitEvent`, `ConfirmEvent` | `append`, `commitBytes`: the scratch object, its rename, the syncs |
| `BeginStage`, `PrepareStage`, `FindStaged`, `CopyFile`, `PlaceFile`, `ConfirmFile`, `VerifyStage` | `continueRun`, `stageManifestFile`, `verifyStagedLayout` |
| `IntendPublication`, `RecoverPublication`, `VerifyBeforeRename`, `Rename`, `ConfirmRename`, `ConfirmFinal`, `VerifyFinal`, `Clean` | `publishOrRecover`, `confirmJournaledFinal`, `removeRetainedScratch` |
| `Crash`, `PowerLoss`, `Occupy`, `Vacate` | outside the program |

File contents are abstracted to whether an object is the operation's own; a failed
verification is a `Crash`.  The module has the actions and the disk; what an image is,
`Init`, `Next` and the properties are those of `MaterializeRetention`.

### MaterializeRetention

`seed materialize prune` and `forget` beside the commands of `Materialize`.  An image
also holds the tombstone (`tomb`: `retention/`, its intent and completion, and a staged
marker that may be torn), the identity of the operation directory (`gen`: a directory that
was forgotten and made again is another one) and the root forget intent (`erasing`: which
directory a visible one names).  The target root, `retention/`, `journal/`, `scratch/` and
`stage/` are synced independently.

| actions | code |
|---|---|
| `StartBelow`, `OpenRetained`, `Opening` | `applyForgetControl`, `controlReportFromRetention`, `openJournalMode`: what run, resume, abandon and status do beside a tombstone or a root intent |
| `StageTomb`, `FillTomb`, `CommitTomb`, `ConfirmTomb` | `ensureRetentionMarkerBytes` (`PublishNoReplace` in `ensureForgetRootIntent` for forget) |
| `PruneOpens`, `Strip` | `Prune`: `loadRetentionMarkerState`, `proveRetentionIntentBasis`, `removeRetentionNodes` |
| `ForgetReads`, `ForgetOpens`, `EraseOpens`, `Erase`, `Vanish`, `LookAgain`, `Unmark`, `ReportForgotten` | `Forget`, with and without a visible root intent |

Each file removal of `removeRetentionNodes` is one durable step, except that the events of
`journal/` go together: `stage/` goes before them, and no reader replays a journal without
`stage/`.  The rename that publishes the root intent takes the staged marker out of
`retention/`; as everywhere here, the sync of its destination settles both names.  When
an operation is forgotten, the tree it published belongs to nobody any more: for the next
directory of the same name it is somebody else's.

Properties: `PublicationIsRecorded` (a published tree has its record in every image,
nobody else's object is replaced, and, as `ReportsSurvive`, what was reported is in every
image) and `OnlyNamedCausesBlock`.  An
invocation of `abandon` that finds the event of an earlier one says so without syncing it; its report is not
among those of `ReportsSurvive`.
`OnlyNamedCausesBlock` lists the ways in which the code can leave an operation that no
command can carry on.  Besides the initialization that was interrupted, full scratch,
a foreign object at the public name and a torn marker, they are:

* a forget that ends between staging `retention/forget-<digest>.pending` and publishing
  it.  `auditInitialForgetTombstone` and `ensureForgetRootIntent` are written to take such a
  file over, but `loadRetentionMarkerState` runs first, and `auditRetentionControlDirectory`
  (`materialize/retention_state.go:115-133`) knows only the two markers of prune: every
  later prune, status and forget stops at an integrity error;
* a prune (`hasty`) that began from a terminal event another invocation had renamed but not
  synced.  Resume and abandon call `confirmReplayDurability`, prune does not; a power
  loss may keep the retention intent and lose the event it rests on;
* a run or a prune that read no root intent, because it looked before forget published it.
  `docs/MATERIALIZE_RETENTION.md:135-137` says that both fail closed while it is
  visible, but they look only once, before they open the operation: such a run can make
  the directory again, and such a prune can stage a completion in a tombstone that is
  being erased.

### SourceRetire

`seed retire run | resume` removes reviewed source files and `seed retire parent-cleanup
run | resume` the empty directories they leave.  Both are the same loop with the same
journal: per name an attempt, the exact removal, a deletion marker that says whether the
removal was seen to succeed (`confirmed`) or found after a crash (`recovered`); then a
completion.  The variable `kind` chooses; the actions state where the two differ (an
existing parent cleanup is resumed by its run; sources are bound and compared before the
loop; a parent is observed again after its attempt).

`disk.pending` is the one scratch object: its name holds the digest of its marker, so that
the scratch of any other marker is in the way.  Every name has a parent directory of
its own with its own sync.  `trusts` and `reused` record that an invocation built on
markers it had read but that no sync had made durable.  `Interfere` is another user who removes or
replaces a reviewed name, or fills a directory; nobody puts a reviewed object back.

Comparison with the final, the downloader's ledgers, other jobs' use and the search scope
only ever refuse a step: `Stop` stands for each refusal.  The scratch of the intent is
part of initialization, which is one named cause of `OnlyNamedCausesBlock`: a
directory without an intent is completed only by a run whose status inspection
raced with the one that made it.  The bytes of an adopted scratch object are taken to be durable,
which the code does not make sure of when the process that wrote them died before its
`Sync`.

### SourceRetireRetention

Prune and forget of both kinds, over a tree rather than a flat directory.  `disk.root` tells
how much of the tree exists: a run builds it up (lock file, `journal/` and `scratch/`,
intent), prune takes it down (`scratch/`, the markers in the reverse order of their names,
`journal/`), each removal durable before the next.  `disk.tomb` is `retention/`: how many of
its directory, intent and completion exist, and its staged marker.  Forget renames
its intent from there into the target root (`disk.erasing` is the identity it names), removes
the tombstone and the operation directory, makes the absence durable, and removes the root
intent last.  `disk.gen` is the identity of the operation directory.

The two kinds differ in what prune may find before its intent (the journal of a parent
cleanup does not load beside `retention/`) and in the order of the names.  A run looks for the
root intent and for a tombstone before it takes the lock (`CheckControl`), so that one that
looked before another command began may make the tree again inside a tombstone; `late`
records that it did.

Properties: `OnlyNamedCausesBlock` (in every image a power loss may leave, the command that
was interrupted can be repeated, or a cause that `NamedCause` lists applies);
`RemovalsAreHonest` (in every image a recorded deletion is a name that is gone, a reported
end is recorded, and a name that is gone has its attempt or a record of the end; nothing is removed but
what was reviewed; a reported prune has left an exact tombstone and a reported forget
neither the directory nor its root intent).

Three of the named causes are disagreements with the documentation.  `Retire.cfg` shows
each one when its disjunct of `NamedCause` is taken out:

* a process killed after the unlink, between creating the scratch of the `confirmed` marker
  and renaming it, leaves a scratch that the `recovered` marker, whose digest differs, may not
  replace (`sourceretire/execution_journal.go:336`): every resume is refused, although
  `docs/ARCHITECTURE.md:1862` says that an absence after a durable attempt is recovered;
* a prune killed between staging its completion and renaming it leaves a name that
  `auditExecutionRetentionControl` and `auditParentCleanupRetentionControl` refuse: no later prune or
  status passes, and forget needs the completion, although `docs/ARCHITECTURE.md:1962-1964` says
  that a post-removal crash state "can be advanced only with the same full operation ID,
  cleanup-plan ID, and prune acknowledgement";
* a prune of a parent cleanup killed after it made `retention/` and before its intent: the
  journal loader refuses the directory, although `parent_cleanup_retention.go:848` says
  "only explicit prune may recover it".

### StorageIndex

The generations of one storage profile.  A refresh computes the next generation from a
listing, publishes the data record (`data`, `data_sync`), lists again (`check`), publishes
the descriptor that makes the data a generation (`descriptor`, `descriptor_sync`), verifies
both (`verify`) and lists once more (`recheck`): a rival of the same generation means that
neither is reported stored.  Retention, on its own or after a stored refresh with the
listing that refresh verified, computes what the newest `retain` generations supersede,
lists the data names once (`list_data`), removes superseded data before their descriptors
(`remove` to `descriptor_gone`), and then data that no listed descriptor names (`collect`).
A reader selects the one newest generation and reads its descriptor and its data
(`locate`, `read`).  There is no lock: any step of any command runs between any two of
another, and the disk is the same three sets as in `BonusExchange`.

A listing is one step, because the code refuses one during which the directory changed; over its
budget it is an arbitrary part of the names, which are digests.  `generation` is what the
snapshot's records say; `stored`, `lone` and `regressed` are history.

`IndexIsSound`: whatever was reported stored, has a descriptor, or was selected by a reader,
is complete or superseded, and at most one snapshot of the newest generation was reported
stored.  `OneCommandRecovers`: a refresh that no other command overlaps becomes the one
newest generation in every image, and an undisturbed prune leaves nothing older than what
it keeps.  What the model shows beside them:

* A removal, like the check after the descriptor, believes a newer descriptor that another
  process has linked and not yet synced.  A power loss may lose that descriptor and keep the
  removal.  `IndexIsSound` names this cause (`regressed`, set by `GoesBack` and cleared by
  the next durable descriptor): until then the newest descriptor may be without its
  data, and a generation number may be used again.
* A refresh that stalls after its first check may report `stored` for a generation that
  was superseded meanwhile, whose data retention may collect as an orphan: harmless, since
  nobody selects it.
* A prune whose data listing is only a part ends `complete` although orphans may be left; and more
  tied descriptors of one generation than the listing budget would make `refresh` refuse for
  good, because retention never removes a tie at the newest generation.

### Reconcile

One `reconcile report` or `reconcile refresh-report`.  The request (`req`) says where the
storage proof comes from, which histories are selected and what is asked of the downloader and
the site; `LegalRequest` is what the flags accept.  `pc` walks through `Order`, skipping
what was not asked:

| actions | code |
|---|---|
| `ReadHistory`, `ReadRetirement`, `ReadCleanup` | `VerifyCompletion` of each history, its selectors and what it rests on (`cli/reconcile.go:606-842`) |
| `Look`, `EndLook`, `NamesAbsent`, `ParentsAbsent` | `VerifyCurrentAbsence`, `VerifyCurrentParentCleanupAbsence`: two passes over the names; the absence derived from removed parents |
| `SelectIndex`, `LoadBinding` | the storage profile and snapshot, the site binding |
| `ReadCredentials`, `ReadDetail` | the one gate before credentials, downloader and site |
| `ReadBefore`, `ReadFilesBefore`, `ProveStorage`, `ReadFilesAfter`, `ReadAfter` | the bracket of two ledgers and two file lists around the storage proof |
| `Finish` | `Build` and the order of the exit statuses |
| `Change`, `ClientTurn` | others change the names during the checks and the job during the bracket |

`history` has per selected history whether its completion is kept and the reason that stops
it; `removed` what was attempted, proved and derived about the names.  `Outcome` and the
`...Status` operators are `reconcile.Build` on these answers.  `names.together` and
`job.atProof` are history: whether the absences ever held all at once, and the job at the
moment of the storage proof.

Abstractions: an identity that disagrees is the answer `mismatch` at the point where the
selectors are compared, so later comparisons with the same record agree; an answer that
could not be had and a context that ended are both `unavailable`; clocks, byte and request
limits and the wording of findings are left out; the torrent has several files.

Properties: `ConsistentIsWitnessed`, `VerdictsHaveCauses`, `CredentialsComeLast`;
`RetainedRetirementReconciles` is the finding.  `VerdictsHaveCauses` names three causes of a
conflict that are not a disagreement between records, names or jobs:

* `RetainedRetirement`, the finding;
* `PartialCleanup`: a parent cleanup that removed the parents of only some of the retired files
  counts fewer files than the retirement, and `assessParentCleanup` calls that a mismatch;
* `NoFinal`: when the materialized final cannot be observed, every history that was proved is
  assessed as a mismatch with it, although `docs/ARCHITECTURE.md:160-161` calls only a positive
  mismatch a conflict.

### SourceMatch

One search for the files a torrent was made from: `seed discover` and its forms over the
storage index.  A job (`job`) is the torrent, the files on the disk, the limits and the
scope; every one of them is chosen by `Init`.

| actions | code |
|---|---|
| `Begin`, `Examine`, `ExamineFails`, `ScanEnds` | `Discover`, `InventoryCandidates`: the walk over the roots, which keeps files of a wanted size |
| `ResolveLive`, `ResolveIndexed` | `resolveInventoryCandidates`; `RefreshAndDiscoverFromIndex`, `LoadCandidates` |
| `Prepare` | `buildCandidateSetsRanked` and the checks of `MatchSourceCandidates` |
| `FilterCandidate`, `FilterEntryEnds`, `Choose` | `filterV2`, `hasMissingCandidates` |
| `Try`, `Backtrack`, `Leaf` | `searchV1`, `searchV2Layouts`: one choice, the return from one, a whole assignment |
| `VerifyEntry`, `VerifyEnds` | `preflight`, the reads of `verifyV1Resolved`, `verifyV2Resolved` and `verifyHybridResolved`, `ensureStable`, `verifyLayout` |
| `ReportSearch`, `ReportHistory`, `ReportSelected` | the outcome and the layout that is handed on: `Discover` and `DiscoverFromCurrentIndex`, `DiscoverFromIndex`, `finishExplicitIndexedSelection` |
| `Change`, `Cancel` | other programs, the time budget and the user |

`searchV1` is recursive; the model keeps the choices made so far (`path`) and the choice to
try next (`next`).  A piece may begin in one file and end in another, so a prefix of an
assignment is compared by the whole pieces it completes (`PiecesMatch`).  `hashed` and
`steady` are history: bytes that were read or hashed, and the files that were as the
inventory saw them when the last read of a proof ended.

Abstractions: hashes are injective, so a root or a piece is the bytes it stands for; a change
of a file shows in its identity, size or modification time, which is what an opener
compares; directories and their limits are `ExamineFails` of the files below them; a
cancellation is noticed at the next transition, not inside a read; the index keeps every
name of a file (`docs/ARCHITECTURE.md:915`) where the live inventory keeps one.

Properties: `VerdictIsSound` and `BudgetsAreExact`.  The first says that what was matched is the
torrent, for every file that stayed as it was, that "unique", "ambiguous" and "not found"
are true of all the files, not only of the ones that were tried, and that a past inventory
decides nothing.  Two assignments that only exchange names of one content differ as
layouts only if they are different files: `Essence` is what the code compares.  The second
says that nothing is read that was not charged, that no limit is exceeded, and that no search
is called incomplete without a cause.

### BonusExchange

One prepared operation, any number of invocations of `submit`, `prune` and
`forget`, no lock.  Each invocation is a sequence of single-record steps.  Since
most steps read one record and go on only if it is (or is not) there, they are
tables (`PreflightReads`, `ReserveReads`, `OutcomeReads`, `ChainReads`,
`PruneReads`, `ForgetReads`) of `Need(at, record, next)` and `Lack(at, record,
next)`, interpreted by `Read`.  Links, unlinks, syncs and the POST are actions.

The objects directory gives no order between names, so the disk is three sets:
`disk` is visible, `must` survives a power loss for certain and `may` may survive;
a link adds to `disk` and `may`, an unlink removes from `disk` and `must`, a sync
makes the three equal, and a power loss keeps any set between `must` and `may`.
This is weaker, hence safer, than the prefix images of the adoption journal.

## 3. Runs

| run | instance | what it shows |
|---|---|---|
| `adopt` | 2 invocations, 2 attempts, both drivers, add or adopt | all safety properties of adoption, that it implements `EffectLedger`, and that every invocation ends whatever image it finds; with a client that tells a duplicate from an accept, a completion names an attempt whose answer was delivered |
| `retain_forget` | 2 invocations, 1 attempt, 2 incarnations | prune and forget beside run, resume and status, with power loss at each step |
| `bonus` | 3 invocations of any command | all properties of the bonus exchange |
| `activate` | any action, 2 invocations, 2 attempts of each kind, constraint `RacesAreFirst` | requests are recorded, claims of a check are witnessed and nobody acts on an overtaken observation, in races; durability, recovery, repetition, finality and both ledgers in any sequence of crashed, resumed and repeated invocations |
| `control` | stop or removal, 2 invocations, 2 attempts | requests, answers, completions, repetition, recovery and the ledger |
| `remove_stranded` | removal, 1 invocation, 1 attempt | the finding about a staged completion (violation) |
| `materialize` | 2 invocations, 2 files, 2 scratch objects, 2 directories of the same name | any of the six commands at any phase, with independent syncs and a public name that others use (830,000 states) |
| `retire` | sources or parents, 2 invocations, 2 names, 1 change by others, 2 directories of the same name | both removal loops with their journals, prune and forget (450,000 states) |
| `storage_index` | 2 invocations at a time, 3 refreshes, budgets of 2 | concurrent refreshes, prunes and readers with crashes and power loss (1,600,000 states) |
| `reconcile` | 13 kinds of request, 2 parents, 2 changes of the job, each name changed once | every answer of every proof, changes between any two steps, every verdict (670,000 states) |
| `retained_unreconciled` | the same | the finding about a retained retirement (violation) |
| `source_match` | 8 torrents, 3 files of 1 or 2 bytes, 4 scopes, every limit just met and just missed, 1 change, cancellation at any step | verdicts and budgets of every search (1,840,000 states) |

### Bounds

* Two invocations of adoption: the lock admits one, so the second is the one that
  waits, surveys before the lock or observes.  A third adds no role: the order of
  any two is already arbitrary, and the proofs below hold for any number.
* Two attempts where the code allows three (`maximumAttempts`): one that is answered, one that
  repeats it, and then a request that is refused because the budget is spent.  The
  theorems hold for any budget.
* Two incarnations of the operation directory: the one being forgotten and
  the one made again under the same name.  With two invocations this reaches about
  900,000 states; the attempts are then bounded by one.
* Two attempts of each kind in activation, where the code allows three: the first request,
  its repetition, and a spent budget.  Two invocations that race through all of that are too
  many states.  The constraint `RacesAreFirst` of `MCClientActivate` therefore lets two invocations
  overlap until something is repeated or the start was seen, and follows one at a
  time afterwards; it also follows the operations that end with the check one at a time,
  whose races are the first part of those that go on to start.  It is the only state constraint.
* Stop and removal: a first request, a repetition, and a spent budget, under two
  invocations whose preflights overlap.
* Two files or names: one is done while the other is not.  Two scratch objects: one
  is retained, and the next reaches the limit while an operation is under way.  One change by others: a reviewed
  name is removed, replaced or filled, at any moment; two exceed the time of a run and add
  only that the change is undone or that both names changed, which the first one already
  makes every command refuse.  Prune and forget begin while nobody changed a name: they
  never look at one.
* Three invocations of the bonus exchange: a stale submit, a submit or prune that
  finished, and a forget can overlap.  The set of records is the code's.
* Three refreshes of the storage index: a stale one, its rival and the one that supersedes
  both; readers and prunes are not bounded.  Budgets of two: three descriptors exceed them, so
  a listing can be partial.  Retention keeps one or two generations.
* Two parents of retired names: one can be passed while the other is still to be looked
  at, and a cleanup can have removed one of them.  Each name changes once: together with
  a name that was wrong from the beginning this gives every order of a change and the two
  looks.  The job changes twice while it is bracketed: once is seen or not, and twice can hide
  itself.  One request per source of the storage proof and per combination of histories that
  shares a rule; which requests are legal is an assumption on `Requests`, so that others can be
  added.
* Source matching: pieces of two bytes and files of none, one or two, so that a piece
  crosses files, a file ends a piece, and a piece is left over; three files, so that an entry
  can have two candidates and still be ambiguous with a third.  With room in every budget all
  contents of the three files are tried; one limit at a time is tight for four disks
  on which they fit once, in part, or twice.  One change: it falls before, between and after the three
  looks of a proof; two make only more of the same answers.
* `posts` is bounded by the properties it appears in.  Symmetry is over invocations only
  and is not used with liveness (`adopt`).
* Bonus exchange: the operation identity is random, so it is prepared once.

### Fairness

`FairSpec` assumes weak fairness of `Invocation(p)`: the operating system goes on
running a process, and every HTTP request of a driver has a timeout, so `await` is
left by an answer or by `LoseReply`.  Only adoption states it; activation, stop and
removal have the same shape of invocation.
No fairness is assumed of the downloader, of
other users, of crashes or of starting an invocation; no safety property uses any.

### Findings

* `remove_stranded`: `docs/THREAT_MODEL.md:798` says that recovery publishes a staged
  completion.  When a removal ends between staging and publishing it, `Status` reports an
  interrupted initialization, and both `run` and `resume` then insist on verifying the
  use of the job that was removed: no command reaches the recovery.
* `retained_unreconciled`: `docs/THREAT_MODEL.md:563` says that with a pruned retirement
  reconciliation remains incomplete unless a live parent cleanup proves the names absent.
  The command then derives the absence and opens the gate (`cli/reconcile.go:849-858`) but
  leaves `AbsenceAttempted` unset, which `assessSourceRetirement` takes for inconsistent
  input (`reconcile/report.go:1729`).  So the parent cleanup is without its retirement, and a
  report with every proof in hand is a conflict.

Without a run of their own:

* the stranded states listed under `MaterializeRetention` and `SourceRetireRetention`, and the
  verdicts listed under `Reconcile`;
* `docs/ARCHITECTURE.md:1456` says that the root forget intent blocks resume.  `openJournal`
  (`clientadopt/journal.go:182`) looks for it only before it takes the lock, so a resume
  that looked earlier can send its add under a root intent published since.  In
  `retain_forget` this happens, and `CompletionIsRemembered` holds all the same;
* `bonusexchange/repository.go:175` says that rerunning prune removes a stray marker and that
  forget refuses while it exists: a stale submit can publish the marker after forget's
  first look at the originals, and then neither command removes it.  No second POST
  follows: `AtMostOnePost` holds.

## 4. Theorems

`ClientAdoptProofs` proves, for every set of invocations, every attempt budget, both
drivers and both actions (assumptions: `NobodyAssumption`, `MaxAttemptsAssumption`,
`DriversAssumption`, `ActionsAssumption`):

* `TypeCorrect`: `Spec => []TypeOK`;
* `LockExcludes`: whoever is past the lock holds it;
* `RequestsAreRecorded`: `Spec => []AttemptBeforeEffect`.

`AttemptBeforeEffect` is not inductive.  A request is covered because its sender
confirmed the marker, and the confirmation is worth something only if nobody else
advanced the journal in between.  The inductive invariant therefore adds
`Exclusion` (the lock: a holder is unique, and the maker of the lock file is alone)
and `Progress` (what a holder knows at each `pc`: its attempt count is the
journal's, the marker it stages is the next one, and only an attempt leads to a
send).  One lemma per action, then `Init => IInv`, `IInv /\ [Next]_vars => IInv'`.

`BonusExchangeProofs` proves, for every set of invocations, any set of commands and
with or without power loss (assumption used: `CommandsAssumption`):

* `BonusTypeCorrect`: `Spec => []TypeOK`, whose content is
  `must \subseteq disk /\ disk \subseteq may`;
* `SubmitsAtMostOnce`: `Spec => []AtMostOnePost`;
* `PruneNeverReopens`: `Spec => []NeverReopened`;
* `UnknownSurvives`: `Spec => []UnknownIsKept`.

The argument, without a lock: while the intent is visible at most one submit is past
its marker (`Authority`), because the marker can only be linked when it is absent, and
it is absent under a visible intent only before the first reservation.  A second owner
can therefore only appear after the intent is gone, and then fails the read of the
intent that follows the marker.  Prune keeps this true across power losses
because it removes the marker only when no image can hold the intent (`Order`), and
submit because the marker is synced before it is used (`Durable`); before an outcome is
published no prune gets past its first reads (`Kept`).  Three lemmas (`QuietKeeps`,
`SyncKeeps`, `UnlinkKeeps`) cover most steps; the others have a lemma each.

The second part of the module continues with what prune and forget leave, under the same
assumption:

* `OutcomeSurvives`: `Spec => []OutcomeOutlives`;
* `ForgettingIsFinal`: `Spec => []ForgottenIsFinal`.

Here the proof first says what one step of an invocation can do at all (`StepOf`: how it
changes the store, what it adds to the history, and from where it enters the phases that
matter) and shows that every action is such a step.  Two invariants follow from `StepOf`
alone.  `Finality`: an answer follows the one POST, so a forget that finds the marker gone
knows, by `Durable`, that no image holds the intent.  `Outliving`: the originals
are removed only behind a tombstone that was synced, a submit reports only behind a synced
outcome, and the tombstone goes only behind a forget marker.

So every safety property of `BonusExchange` is proved for any number of invocations.

The second part of `ClientAdoptProofs` proves, under the same assumptions:

* `CompletionsAreAttributed`: `Spec => []CompletionIsAttributed`;
* `AdoptIsCrashSafe`: `Spec => []CrashSafe`;
* `AdoptKeepsLedger`: `Spec => LedgerSpec`, that adoption implements `EffectLedger`.

What a power loss may leave is now part of the argument, so the invariant `JInv` speaks of
every image.  `WellFormed` says what one looks like on its own: written in order, nothing
staged after a completion, a completion names the last attempt and claims no more than the
driver may attribute.  `Linked` says how it relates to the visible journal: it is
at most one published marker behind, and beside a staged marker it is behind by nothing else.
`Intends` and `Rests` say what a lock holder may write next and what it rests on, and
`Reported` that a reported adoption is completed in every image.

For the refinement, the authorised attempts are the least number that any image holds.  A
staged marker leaves that number alone; the rename adds an image and leaves it alone too; the
directory sync that follows raises it by one, which is `Authorise`.  A send is `Perform`: its
sender confirmed its marker, so every image holds its attempt, and by `Linked` nobody has a
later one.  A completion that no image lacks is `Settle`, and a power loss is a stutter,
because the least over the images that remain is the one that remained.  `NoSilentRepeat`
follows from what a sender was told when it planned its marker.

The third part of `ClientAdoptProofs` is about the same commands with prune and forget beside
them, for every set of invocations, attempt budget and number of incarnations (assumptions:
`NobodyAssumption`, `MaxAttemptsAssumption`, `MaxIncarnationsAssumption`):

* `RetentionTypeCorrect`: `RetentionSpec => []RetentionTypeOK`;
* `TombstonesStayUsable`: `RetentionSpec => []OnlyTornTombBlocks`;
* `CompletedNeverPosts`: `RetentionSpec => RetainedNeverPosts`;
* `CompletionsAreRemembered`: `RetentionSpec => CompletionIsRemembered`.

Here each image that a power loss may leave is judged on its own (`Legible`, `Keeps`): how it
differs from the visible directory does not matter, because prune and forget make each new
piece of evidence durable before they take the old one away.  The rest of the invariant
`RInv` is about who acts.  `Excludes`: the lock excludes, also the invocation that still has
to make the lock file.  `Retiring`: the journal is whole until the retention intent is durable,
and gone before the tombstone is completed.  `Erasing` and `Named`: forget takes things away only
under the visible marker that names their directory, and removes the marker only when that
directory is gone and can no longer be made again, whoever works in a directory made since.
`Sends`: what leads to a request saw neither a completion nor a tombstone.  A step changes the
directory in one of few ways, so lemmas on kinds of steps (`QuietKeeps`, `HolderRetains`,
`TombKeeps`, `RemovalKeeps`, `StepRetains`) leave one short lemma to each action.

`ClientControlProofs` proves, for every set of invocations, any attempt budget, stop and
removal (assumptions: `NobodyAssumption`, `MaxAttemptsAssumption`, `KindsAssumption`):

* `ControlTypeCorrect`, `JournalIsHonest`, `ControlIsCrashSafe`: the three invariants of the run;
* `ControlKeepsLedger`: `Spec => LedgerSpec`.

The shape is that of adoption, in one invariant, with two more parts of an image.
`Truthful`: what a response says is what its sender learned.  `Recorded`: no image lacks an
attempt that was sent.  `CompletionIsHonest` then follows from `Truthful` and from what
`CompletionAgrees` demands of the responses.

`ClientActivateProofs` proves, for every set of invocations, attempt budget and set of actions
(assumptions: `NobodyAssumption`, `MaxAttemptsAssumption`, `ActionsAssumption`):

* `ActivateTypeCorrect`, `RequestsRecorded`, `ActivateIsCrashSafe`;
* `ActivateKeepsLedgers`: `Spec => ActionLedgers`, both refinements with `NoSilentRepeat`.

Here an image may be one attempt behind in either chain, but then has no evidence of a later
stage (`Linked`).  What a step does to the ledger of either kind of request is stated once, for
a kind `r` (`Promised(r)`), and mapped to the actions of `EffectLedger` twice.

The last part of the module adds, under the same assumptions,

* `EvidenceStaysFresh`: `Spec => []EvidenceIsFresh`.

The code decides whether evidence is fresh by comparing times.  The proof shows that this is
enough.  `Ordered`: of two observations one is the newer.  `Witnessed`: what an observation
cannot have missed, namely that the job is now, or was seen by somebody later, in a state that
it did not show.  `Attested`: since the observation that the last recheck attempt names, the job
was checked, if somebody who is not outdated saw it so.  `Freshness(p)` carries these facts
through the steps of the lock holder, from its decision to the sync of its marker.  The
invariant `FInv` is inductive relative to that of the first part.

`MaterializeProofs` proves, for every set of invocations, every manifest, every scratch limit
and any number of incarnations of the operation directory (assumptions: `NobodyAssumption`,
`FilesAssumption`, `ScratchAssumption`, `MaxIncarnationsAssumption`):

* `MaterializeTypeCorrect`: `Spec => []TypeOK`;
* `PublicationsAreRecorded`: `Spec => PublicationIsRecorded`, with its three parts
  `PublishedIsRecorded`, `NeverReplaces` and `ReportsSurvive`;
* `OnlyNamedCausesStop`: `Spec => []OnlyNamedCausesBlock`.

Four directories are synced one by one, so after a power loss the record of a publication may
come from another moment than the published tree, and `PublishedIsRecorded` says nothing about
such mixtures.  The invariant does: `Alone(j)` is what one image looks like, and
`Link(j, disk)` what of an image may be combined with the visible disk by the next sync.  The
part that carries the theorem is `LinkFinal`: a published tree has a record whichever of the
two is taken from the image.  `Link` also bounds every lag, which is what the order of syncs
in the code is for: the directory lags only while it is made or removed, the tombstone by
one marker and not once removals have begun, a terminal event only behind its own scratch.
`Progress(p)` says what an invocation knows at each step.  A holder of the lock knows that the
journal it replayed is in every image (`LogIsDurable`); a forget, which works beside the lock,
that no image has the directory or the root intent it named (`Erases`).

Each kind of write (`Put`, `Move`, `PutDurably`, `Sync`) has a lemma that it keeps `Stored`, and
one that says which fields it leaves alone (`Writes`); each action then has a lemma of its own.
For the reports, `OthersGoOn` and `OnlyTheseReport` say who can end with one, and
`ReportHolds` that what was synced before it is in every image.

`OnlyNamedCausesStop` has an invariant of its own, `CInv`, inductive relative to `IInv`.
`OnlyNamedCausesBlock` compares the journal, the staging tree and the public name of one image,
and the next sync takes some of them from the visible disk.  `Supported` therefore asks that
what the events claim holds whichever journal and whichever public name are taken, with the
image's staging tree; it claims nothing once somebody took the published tree.  `Claims(p)` is
the same of an event that is not written yet: from the sync of the staged file to the commit of
its event every image has the file (`StageIsDurable`), which is what the sync before `file_staged`
is for.  `Settled` says that a tombstone answers a journal that no image lags behind,
unless the prune began from a terminal event that was not durable (`hasty`), and
`Intact` that the next incarnation finds an empty staging tree.  A step `Stays`: it keeps the
disk fit and claims what it has, and it either holds the lock, is taken while nobody does, or says
nothing of the journal and the staging tree (`Quiet`), so what others claim stands.

`SourceRetireProofs` proves, for every set of invocations, both kinds, any number of names, any
changes by other users and any number of incarnations (assumptions: `NobodyAssumption`,
`FilesAssumption`, `MaxChangesAssumption`, `MaxIncarnationsAssumption`):

* `RetireTypeCorrect`: `Spec => []TypeOK`;
* `RemovalsHonest`: `Spec => RemovalsAreHonest`;
* `OnlyNamedCausesRemain`: `Spec => []OnlyNamedCausesBlock`.

The names that are removed and the journal that records it lie in directories that are synced
apart, so `Honest`, which looks at one image, is not inductive: the next sync may combine the
names of one image with the markers of another.  The invariant `IInv` compares all pairs.
`Deletions`: what one image records as deleted is gone in every other.  `Accounts`: what is gone
in one is attempted in every other, until the record of the end has moved from the journal to
the tombstone, the root intent and the next incarnation; at no moment has some image
none of these (`SealedEverywhere`).  `Beside` says of an image only how it may lag behind
the visible disk in its incarnation and its tombstone.  `Retires`, `Buries` and `Erases`
are what a lock holder of a run, a prune and a forget knows.  The history `reused` is
needed where the proof shows it: a run that trusts markers it did not sync may remove a
name whose attempt a power loss takes back, and `Accounts` claims nothing after that.

Each kind of write leaves all directories but its own alone (`Writes`, `Keeps`, `Takes`), so a
step either moves the names and markers forward (`Forward`) or leaves them aside (`Aside`).
For the reports, a step of run and resume is `Silent` and what prune and forget synced is
in every image (`ReportsStay`).

That only the named causes block an operation needs more than `IInv`, and only while none of the
causes that are histories applies (`Undisturbed`; `NextUndisturbed` shows that a disturbance is
never taken back).  `Calm` adds that every image is then close to the visible disk (`Behind`):
before a tombstone both are on the way of a run (`Running`, with the one marker that the scratch
may be for, `Suits`); with one, both are in the same burial (`Burial`); behind a root intent
both are in the same forget (`Forgotten`).  Two facts make it inductive.  While the intent of the journal may be
lost, so may all of its markers (`Rooted`).  And a tombstone that is made on a completion
which is not durable counts as `reused`, so that otherwise all images enter the burial with the completion.
`Runs` and `Ends` are what a run, a prune and a forget rely on beyond `IInv`.  Each
action has a lemma that it keeps the images close and disturbs nobody else (`Goes`).

`ReconcileProofs` proves, for any legal requests, any set of parent directories and any number
of changes of the job (assumptions: `RequestsAreLegal`, `MaxTurnsIsNat`):

* `ReconcileTypeCorrect`, `CredentialsAreLast`: `TypeOK` and `CredentialsComeLast`;
* `ReportsAreWitnessed`: `Spec => []ConsistentIsWitnessed`;
* `CausesAreNamed`: `Spec => []VerdictsHaveCauses`.

One command runs alone, but the names and the job it looks at do not stand still, so the
invariant says what was read when.  `Position` numbers the steps of `Order`, and
`OnwardFollows` that the next step is the first one that the request makes due; an order of
nineteen steps is thus one comparison (`Past`).  `Judged` gives the reasons that a history
behind the current step can have, `Gated` what was proved before credentials were read.
`Watching` is the argument for two passes over the removed names: a name that is not absent
after the first pass changed since it was seen, it does not change back, and so the second pass
cannot end; if the second pass ends, there was a moment in between when all were absent.
`Steady` is the argument for the bracket: if a job that changes at most once reads the same
before and after the storage proof, it was so at the proof.  The theorems about the verdict
then need no more steps, only `Outcome` evaluated over what the invariant allows.

`StorageIndexProofs` proves, for every set of invocations, any number of refreshes, all
retentions and listing budgets (assumption: `MaxRefreshesAssumption`):

* `IndexTypeCorrect`: `Spec => []TypeOK`;
* `IndexStaysSound`: `Spec => []IndexIsSound`, with its three parts;
* `UndisturbedRecovers`: `Spec => []OneCommandRecovers`.

There is no lock, so nothing that a command knows can rest on others standing still.  `Safe(s)`
is the fact that does last: `s` has a newer described generation, and either some removal is
not yet synced, and then a power loss that takes the newer one back is a regress, or the newer
one is durable.  No step of anybody ends it (`SafeStays`) but a regress (`SafeSurvives`).  `Behind(p)`
says that whatever a retention pass may still remove is superseded, however old its listing,
and so what it removed stays `Safe`.  `Held`, `Selectable` and `Reported` say of a refresh, of a
descriptor and of a report that the data is durable before the one and both before the other,
or else the snapshot is `Safe`; `Ties` says so of two that were reported stored under one generation.
After a regress the next durable descriptor makes up for what was lost, because every refresh under way
is above it (`Outdone`).  `IndexInvariant` puts these together.  Every step moves one command
(`StepOf`), and `StepKeeps` says what remains to be shown of it.

For the lone command `LInv` adds what nobody disturbs: that its listing is still true of the
disk (`Refreshing`), and what of a pass is done (`Passing`).  The newest generation and the oldest
one to keep are maxima of finite sets (`MaxIs`).

Assumptions on constants are the ones named above; each is evaluated by TLC in the runs.
No proof assumes fairness, a bound on the number of invocations, or an order between an answer
and a crash.

Model-checked only: the liveness property `InvocationEnds` (liveness under fairness is out of
the prover's reach); and `TypeOK`, `VerdictIsSound` and `BudgetsAreExact` of `SourceMatch`.  Those
speak of sorted, filtered and flattened sequences and of sums over sets, which are defined by
recursion over their argument, and what such a definition yields for every input needs an induction
over data that the installed provers cannot do.

## 5. What is not modelled

* Byte formats, JSON, hashing, HTML, HTTP, flags and output: the readers are modelled
  by what they compare.
* Identity checks of `fsbind` (a directory replaced under a handle) and the Windows and
  macOS backends: the model assumes the private directory is changed by ptctl only.
* The momentary lock on the operation directory while it is opened, which may make a
  concurrent run end in `Busy`; `Abort` covers the ending.
* The second link that an exact removal in the private store keeps in `tmp/` for a
  moment: no reader looks there.
* List, show and preflight commands, which only read.
* Prune and forget of an activation, a stop and a removal: they repeat the protocol that
  `AdoptRetention` models (tombstone, inventory, ordered removal, root forget marker).
* The lineage from a terminal activation to a stop, and the planning commands: they read.
* Metainfo parsing, hash trees and the path model: pure functions of large inputs,
  without state that a step could leave inconsistent.  Of source matching: a source that
  is one exact root, the re-verification of a source before it is used, path mappings and seed plans.
  `Reconcile` takes the outcome of a storage proof as an answer.
* After a lost qBittorrent add, resume attributes a fitting job to its attempt
  (`clientadopt/engine.go:418`): the client gives no evidence either way, and `CompletionIsAttributed`
  is stated for answered attempts only.  A suspended prune of the bonus exchange can publish
  the tombstone again after a forget finished (`bonusexchange/retention.go:108`): no property
  forbids it, since nothing is lost but the forgetting.
* Storage profiles: written once under a name, never removed; two racing creations of one
  name make that name ambiguous.  Explicit `--snapshot-record` reads, which select nothing.
* The parts marked `not_modelled` in `PROJECT.json`, with the plan below.

## 6. Plan

1. Proofs: the parts of `SourceMatch` that no sum or sort enters (`hashed <= charged`, and that
   a match is steady).
2. The composition of adoption, activation, stop and removal over one job.
3. Retention of activation, stop and removal, where it differs from
   `AdoptRetention` and `MaterializeRetention`.
4. The named sets and versions of `metastore`; `httpguard` redirects.
