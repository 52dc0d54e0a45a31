# Verification of ltmrs

TLA+ models, TLC runs and TLAPS proofs for ltmrs, the local memory service for
LLM agents in `src/`. Every definition is translated from the source; the
modules say in their headers what they abstract, and `PROJECT.json` ("map")
gives the lines each definition stands for. Paths below are relative to
`src/crates/` unless they start with `src/`.

## 1. The system

A host (an LLM agent) runs a stdio MCP *frontend*. Frontends share one *daemon*
per user, over a private socket. The daemon owns the *canonical store*, a Fjall
keyspace changed only in optimistic transactions, and from it derives the
*search projection*, a Lance table of text and vectors, with a local embedding
model. Recall reads the table and checks what it finds against the store.

| component | state | operations | talks to |
|---|---|---|---|
| Canonical commands (`service/src/repository_internal.rs`, `domain/src/interpreter`) | memories, relations, guides, suggestions, sessions, receipts, generation records, projection jobs | add, update, feedback, access, boost, merge, forget, relations, ... each one transaction | a commit hook wakes the projection worker |
| Projection worker (`search/src/search/projector/`, `daemon/src/server/workers.rs`) | the snapshot of jobs in hand, one memory it has read | list jobs, read, embed, guard, merge, remove older, acknowledge or requeue; backfill at start | store, embedder, Lance |
| Exactly-once mutations (`frontend/src/frontend/mcp.rs`, `daemon/src/dispatcher.rs`, `service/src/repository/{apply,admission,guide_ops,session_tools}.rs`) | frontend: stream, epoch, generation, one mutex; daemon: epochs with an expiry, pins, receipts | handshake, send, reconnect, resume, resend, renew; gate, admit, replay, transact, flush, answer; collect | each other, restores |
| Generations (`service/src/repository/generations.rs`, `search/src/search/maintenance.rs`) | one record per generation, the active pointer, rows by generation | stage, build, report, activate, abandon, roll back, reap | a write of a text, a merge or a forget marks the build dirty, a change of confidence alone does not |
| Restore (`service/src/repository/store.rs`, `interchange/src/restore/`, `daemon/src/tools/backup.rs`) | single-use preview tokens, import leases, the restore lock, the registry of channels | preview, confirm, safety backup, replace, reset | replaces store, jobs, receipts, epochs, generations |
| Backup files, Lemma import (`interchange/src/backup.rs`, `lemma-import/`) | staged and published files | encode, flush, rename, verify; read nine tables, count losses | restore |
| Sessions, suggestions (`service/src/repository/{sessions,session_tools,suggestions}.rs`, `daemon/src/registry.rs`) | sessions, attempts, frozen answers, suggestions; channel bindings, virtual sessions with leases | start, attempt, practise, end, accept, dismiss | commands add links |
| Guides (`service/src/repository/{guides,guide_mutations}.rs`) | guides with revisions, references kept by memories | create, update, rename, forget, merge, practise, distil | commands, sessions |
| Memory graph and near-duplicate gate (`domain/src/graph.rs`, `service/src/similarity.rs`, `compat/src/lemma/intelligence.rs`) | relations, a gate, a cache of signatures | validate an edge, find a cycle, scan, commit what was planned | memory tools |
| Projects, migrations (`service/src/repository/projects.rs`, `service/src/migrations.rs`) | identities, roots, slugs; the schema stamp | resolve, register, move, adopt; open, migrate | every tool |
| Daemon lifecycle (`daemon/src/{server,idle,runtime,limits}.rs`, `frontend/src/frontend/serve/`) | lock file, socket, idle tracker, quotas | spawn, probe, accept, serve, idle exit, shutdown | frontends |
| Embeddings (`embeddings/src/`) | bounded queue, worker thread, artifacts | submit, batch, cancel, shut down; chunk; download, verify, load | projection, recall |
| Retrieval (`search/src/retrieval/`, `daemon/src/tools/semantic_search.rs`) | none | pin, legs, hydrate, bundles, expansion, page | reads only |
| Command line, skills (`frontend/src/`) | the managed skill, the shim, a checkout's binding | install, bind, provision | files others own too |

Where it is hard:

* the worker holds a memory across an embedding and several table calls, with
  no lock, while commands, restores, kills and power failures go on;
* the journal is flushed after a commit has become visible, and not at all for
  the worker's own commits;
* a call may execute long after its connection has died, and be sent again
  meanwhile; epochs and receipts expire and are collected under it;
* a restore replaces the store and restarts every counter in it, while tools
  hold what they read before;
* tools plan on one snapshot and commit in another;
* a generation is built from a snapshot beside the active one;
* a batch cap counts attempts that can never succeed;
* every quota has a lock of its own, and a connection that dies gives back
  several, one after the other;
* frontends race to spawn one daemon, which may be leaving;
* a request to recall reads the store half a dozen times.

What makes each part correct: the table ends up showing the store, and lag 0
means that it does; a call takes effect at most once, an acknowledged one for
good, and an uncertain one is said to be uncertain; a cutover loses nothing and
a retired store is never read again; every job is attempted in the end; a
restore replaces the store that was shown and loses no acknowledged write; a
session ends once, by its owner, and its receipts replay after; references
between records hold, and supersession, as it is stored, has no cycle; a root has one owner; the
lock admits one daemon, and a frontend that finds none gets one; the quotas bind
and refuse no one wrongly; an answer shows what was eligible, and says when it
may lack something.

## 2. The modules

*The projection.* `Projection` (the core): `canon` and `jobs` are the memories
and `projection_jobs` of the store, `rows` the Lance table, `pc` the place of
the worker task between the calls of `process_job`, `publish_rows_guarded` and
`publish_rows`. One action per command, by its effect on what a row shows; one
action per read, check, write and acknowledgement of the worker; `Restore`,
`DriveFails` (a table call fails), `Kill` (the process ends).
`ProjectionDurability` extends it with the image the disk holds: `Flush` is
`persist_barrier`, `PowerLoss` leaves the last flushed state; `LoseCommands`
says whether power may fail between a command and its barrier. `DriveLoop` has
the batching of `run_limited`: order of keys, cap on attempts and resolutions,
passes, waits. `Projection` leaves the cap out, `DriveLoop` the steps of an
attempt. `Generations` has the records, the pointer, the builder with its
snapshot and its check and write as separate steps, the reaper's list and its
deletions. `CanonicalWrite` is a write that marks open builds dirty; `Adjust` is
feedback, an access, a boost or an update of the confidence alone, which owes a
job and marks none. Two history variables: `unruly` has what of the following
has happened: a write of a text during a build, a rollback to a retired
generation, a restore; `drifted` has the memories whose confidence changed
beside a build or a ready generation and was not projected since both are over.

*Calls.* `OnceOnly` is what a host is promised, in six actions without
envelopes or epochs. `Retry` is the frontend and the daemon: `Frontend(k)` are
the awaits of `roundtrip_with_rehandshake`, `send_with_recovery` and
`resend_after_reconnect`, `Execute(id)` the stages of a request in
`Dispatcher::handle`, `execute_tool` and `apply_inner`. It implements
`OnceOnly` under the mapping `Abstract`: an effect is an entry of
`store.applied`, kept when it is in the disk's image or was replaced by a
restore.

*The daemon.* `Lifecycle`: frontends find a daemon or spawn one; lock, socket,
stale socket, polling, probe, attachment, idle exit, shutdown, kills. `Limits`:
a connection as the steps that take and give back slots, queue places, storage
permits and presence. `EmbeddingQueue`: submissions, the worker thread,
cancellation, shutdown.

*The service.* `Sessions`, `Guides`, `Memories`: each tool as its reads and its
transactions, with resends that overlap. `Oracle` extends `Memories` with the
reference interpreter of `domain/src/interpreter.rs`, which is sent each
command as the service decides it. `RestoreCut`: a restore from preview to
report, with the registry of channels. `Projects`: which identity a claim
resolves to, and what registering it does. `Migrations`: builds of several
versions that open one store.

*Readers.* `Recall`: a request read by read. A read by id keeps to the project
of a stable identity; without one (`ask.scoped` false) it shows the memories of
any project, as `memory_read.rs:156-159` does. `Paging`: an answer read page by
page. `Chunking`: a text cut into pieces. `Conflicts`: the scan for
contradictions and its cache.

*Files.* `BackupFile`, `LemmaImport`, `ModelCache`, `OwnedFiles`.

*For TLC.* The `MC*` modules name the model values and compose: `MCService`
(with `MCFiles`), `MCDaemon`, `MCReaders` hold several modules side by side. A
behaviour is one of a single module, chosen at the start (`focus`); the others
are off, or stay at their initial states. These runs therefore ask many
questions in one go and do not interleave the modules: where two share state,
one of them has it (below).

*Proofs.* `SearchProofs` (`Projection`, `ProjectionDurability`, `Generations`),
`RetryProofs`, `DaemonProofs` (`DriveLoop`, `Lifecycle`, `Limits`),
`RestoreCutProofs` (`RestoreCut`, `LemmaImport`), `SessionsProofs`,
`MemoriesProofs` (`Memories`, `Oracle`), `ReadersProofs` (`Conflicts`, `Recall`),
`ServiceProofs` (`Projects`, `Guides`, and of the files `BackupFile`,
`OwnedFiles`, `ModelCache`, `Migrations`).

Definitions marked "Mutant:" are plausible mistakes in the definition that
follows them; nothing uses them, and putting one in its place must break a
property.

The modules compose along the state they share: `ProjectionDurability` is
`Projection` with a disk; `Oracle` is `Memories` with an interpreter beside it;
`Retry` takes of a command that it commits and of a restore that it drains,
which `RestoreCut` has the steps of; `Sessions` and `Memories` take of a resend
that it may overlap, which `Retry` shows; `Generations` and `Recall` take of the
worker that it projects a job in one step, which `Projection` justifies
(`NoPhantomRow`: what a worker overtaken by a restore writes stays in the
generation it was built for).

## 3. The runs

| run | question | answer |
|---|---|---|
| projection_durable | Do commands, kills, failed table calls, power failures and restarts in either mode leave the table showing the store? | yes |
| readers | Cutovers, restores under the worker, pieces, requests to recall, pages, contradictions, plans on guides: what may have changed since it was read? | as promised |
| service | Sessions, memories beside the interpreter, restores, projects, two calls on a connection, migrations, files: what may overlapping requests, kills and restores leave? | as promised |
| daemon | Does everything that starts come to an end: calls, drives, queued embeddings, racing frontends, connections that share quotas? | yes |
| projection_restore_lag | Is a restored memory with no job projected? | violated, 5.1 |
| projection_requeue | Does the pending job ask for the current revision when embeddings fail? | violated, 5.2 |
| drive_stalled | With a batch of failing jobs at the head: is text indexed? | violated, 5.3 |
| retry_guide_fence | Does a guide mutation respect the fence of a restore? | violated, 5.4 |
| generations_restore | Can a restore bring rows of the replaced store back? | violated, 5.5 |
| recall_complete | Is an answer that is not partial complete? | violated, 5.6 |
| recall_obsolete | Are superseded memories left out? | violated, 5.7 |
| chunking_ends | Does the cutting of a text end? | violated, 5.8 |

The bounds:

| run | bounds |
|---|---|
| projection_durable | 2 memories, 3 commands, 2 revisions, 2 confidences, 1 fault; no restore, no failing embedding |
| readers | *Generations*: 2 memories, 3 generations, 2 revisions, 2 writes of texts or confidences undisturbed, each of 2 confidences (the first for a new memory); 1 memory, 1 write, 1 confidence, rollback and 1 restore disturbed. *Projection*: 2 memories, 2 backups, 2 commands, 1 restore, 1 fault, 1 failing embedding. *Recall*: 3 memories, 5 stores (one with two memories that replace each other and a third), 6 tools, reads by id with and without an identity, pages of 2, 2 changes under a search, a change or a restore under the others. *Chunking*: texts of 5 letters of 5 kinds, window 4, prefixes 1, 3, 4. *Conflicts*: 3 memories (one there before), 3 texts, 2 changes before or after a restore with at most 3 commits, or a fault and a change. *Paging*: 4 memories, scores 2..4, seven combinations of likenesses and contradictions, pages of 1 to 3, window 4, 1 change by others, budget 4. *Guides*: a call of each of the 8 kinds on 3 names, an update sent twice, 3 requests open at a time |
| service | *Sessions*: 2 channels, 7 calls, each sent twice at most, 2 faults, 1 failure. *Memories, Oracle*: 3 memories, 3 texts, confidence 0..2, five sets of overlapping calls. *RestoreCut*: 2 channels, 1 write, 2 previews, 2 virtual sessions, times 0..1, 1 fault. *Projects*: 2 identities, 2 roots, 2 slugs, seven sets of claims, 1 restore. *Retry*: a command and a guide mutation, 1 fault or 1 restore, 4 epochs. *Migrations*: three builds (targets 1, 2 and 4), 4 opens, 2 faults. *LemmaImport*: schemas 1, 6, 8, 2 flaws. *BackupFile*: 2 exports under one name, 2 faults. *ModelCache*: 2 provisions and a start, 1 altered chunk, 1 kill. *OwnedFiles*: 2 installers, 2 shims, 2 bindings and a frontend, 2 writes of the owner, 1 kill |
| daemon | *Retry*: 1 command, 3 epochs, 2 generations, 2 faults, 1 refusal, 1 activation, 1 restore. *DriveLoop*: 3 memories, 1 failing, cap 2, 5 writes, 1 abort. *Lifecycle*: 2 frontends and a daemon spawned by neither, 1 fault. *EmbeddingQueue*: 2 callers with 2 and 1 texts, capacity 1, 1 cancellation. *Limits*: 3 connections of 3 identities, two on one frontend, 2 clients, 1 queued, 1 storage operation |

Deadlock checking is off where the bounds make a system rest: with them spent
and nothing pending, nothing is to be done.

Why the bounds are enough. Two memories are the least at which a snapshot holds
a job that another's processing delays, and a merge has a source and a result;
three commands are add, update during the projection, forget or update again.
In `Retry` a call has at most two operations (a fresh one is minted once) and
an operation two envelopes, so that the model has every envelope the code can
send; two faults lose the first answer and the second. Three generations are
the active one, the one staged beside it and the one before. `Cap = 2` is the
least at which a pass resolves something and is still full. Three memories make
a chain of supersession, which is the least that can close a cycle by an edge
that neither end sees. A tool reads at most once before it commits and is sent
at most twice, so that two overlapping calls and a resend meet every order of
reads and commits of a pair. Two frontends and a daemon of neither are a
winner, a loser and a leaver. Where a theorem states the property of a run, the
bounds no longer matter for it.

## 4. Fairness

* `FairSpec` of `Projection`, `FairDurableSpec`: weak fairness of the worker as
  a whole. The task is spawned once, woken by every commit and by an interval
  of 300 s at most, and `drive_projection_batch` returns errors to its loop; a
  killed daemon is started by the next frontend, which `StartProjection`
  (a worker step) stands for. Commands, faults and flushes have none.
* `DriveLoop`: weak fairness of the drive, for the same reason. No strong
  fairness: which job is attempted next is determined.
* `Retry`: weak fairness of each frontend call, of each request (a blocking
  task each) and of a restore that has the lock. None for faults, expiry,
  collection, flushes, or the loss of an unread request.
* `Lifecycle` (`LifeFairSpec`): weak fairness of each frontend and each daemon,
  which are processes the system schedules. None for kills, idle windows,
  faults or new connections.
* `EmbeddingQueue`: weak fairness of the worker thread and of each submission
  that has been entered. None for cancellation and shutdown.
* `Chunking`: weak fairness of its only process.
* `Limits`, all modules of `service`, and those of `readers` other than
  `Chunking` and `Projection` are checked for safety only.

In `MCDaemon` these are the tasks of the module in focus.

## 5. Known divergences

Each of the first eight is a run that TLC refutes, and a finding in
`PROJECT.json` with the sentence of the repository it contradicts.

1. A restore writes every job with sequence number 1. A worker that took a
   memory's first job before the restore clears the restored one after it, and
   the restored memory is never projected (`store.rs`, `worker.rs`).
2. The requeue after a failed embedding overwrites whatever job is in the slot:
   that of an update made during the embedding is lost (`worker.rs:132`).
3. Jobs that cannot be embedded keep their place in the listing. When a batch
   of them is at its head, nothing behind is attempted, not even for text
   search (`worker.rs:348`).
4. A guide mutation checks the generation at the dispatcher's gate only, and
   may commit into a store restored meanwhile (`guide_ops.rs:19`).
5. The generation of a restore is the active one plus one, which may be the one
   under construction: its rows become readable (`store.rs:370`).
6. The lag is read after the legs of a search have read a table pinned before:
   a write projected in between is neither found nor reported
   (`retrieval/engine/legs.rs`).
7. Supersession is resolved for the candidates of the legs only; what the
   expansion adds may be superseded (`retrieval/engine.rs:395`).
8. The search for a cut does not end at a letter of more than one byte
   (`e5_small/adapter.rs:301`).

Met while modelling, without a run of their own; the models do what the code
does, and the properties are stated so that they hold:

*Projection and generations*
* With `LoseCommands = TRUE`, a power failure between a commit and its barrier
  takes the commit back after the worker has projected it and cleared its job;
  nothing projects the memory again.
* The report of a build clears the dirty flag whatever was written since its
  snapshot, and the activation that follows serves a table without that write.
  The operator path builds and reports without holding writes back
  (`ActiveIsServed` is stated while `unruly` is empty).
* A change of confidence alone does not mark an open build dirty: "the set is
  unchanged, so no build-dirty" (`repository_internal.rs:444-454`; feedback,
  accesses and boosts, 489-491, 547-549, 575-577, the same). Projected into the
  old generation before the cutover, it is lost by it, and no job is left: the
  filter on confidence reads the old value until the memory is projected again,
  which the same comment (445-447) calls a drift that silently breaks
  eligibility. `ActiveIsServed` asks nothing of the confidence of a memory while
  it is in `drifted`.
* A rollback activates a generation the reaper has already listed, and so may
  a restore, whose number may be that of a generation abandoned before
  (`ReaperSparesActive` is stated until one of the two happens).
* With an embedder that fails to load the worker is parked altogether
  (`workers.rs` around 268-280), though `serve.rs` says that text is served.

*Calls and sessions*
* `RefusalIsCertain`: a resume that fails (as opposed to one that is refused),
  or a success over the answer's budget, is reported as a plain error although
  the call may have taken effect.
* A guide mutation past the gate may take effect again in a restored store, and
  be lost by a power failure after (`OnceOnly` is for commands).
* A late first copy of `session_start` rebinds its channel to an older session
  (`session_start.rs:117-122`); two starts planned before either commits leave
  two active sessions (`session_start.rs:42`); links do not look whether their
  session has ended.
* `store_session_response` returns Ok when another copy froze its answer first,
  and the handler answers with its own (`session_tools.rs:225-228`); a second
  copy of an attempt may say "No active session" though it is recorded.

*Restores*
* The preview reads the live counts before the sequence number, so that a write
  between the two is in neither (`backup.rs:107-126`, 225-228); the model reads
  them in one step.
* A restore whose barrier fails after its commit returns before the contexts
  are reset and the signatures cleared (`backup.rs:272-277`); the token is used
  up even when the safety backup fails; `now` is read before the fence is waited
  for (`backup.rs:197`).
* `memory_read` after a cut credits reads made before it to the virtual session
  after it (`memory_read.rs:47-71`); abandoned virtual sessions are never pruned.

*Memories, guides, projects*
* Near-duplicates both miss each other when one is projected between the two
  reads of the other's scan (`memory_add.rs:116-120`; the run states that this
  is the only way, `TwinsOnlyWhenMissed`).
* The search for a cycle follows both types of supersession from source to
  target (`graph.rs:50-78`), while `superseded_by` says the reverse of
  `supersedes`: "2 supersedes 1" and "2 superseded_by 1" are accepted together.
  The walk up the chain of each leads back to itself (`bundles.rs:104-118`), so
  that neither counts as superseded and both are served, against
  `bundles.rs:3-6`. `GraphIsSound` is of the edges as stored; `BundlesHold`
  excepts the candidates a chain leads back to (`LeadsBack`), and one of the
  stores of `readers` has such a pair.
* A forget does not look at the lifecycle; an
  auto-link whose target is deleted meanwhile refuses the whole add; a resend
  that overlaps may refuse itself as a duplicate (`memory_add.rs:54-56`);
  `memory_feedback.rs:88-89` unwraps what a restore may have replaced.
* An interpreter's refused link leaves the inserted memory, its replace-merge
  removes the rows the service keeps as deleted, its forget leaves edges
  (`Excused`), though the comments claim parity and atomicity
  (`memory_ops.rs:42-43`).
* Forgetting, merging and renaming a guide leave the references of other guides
  and of sessions dangling; a guide that was recreated at the same revision
  accepts a plan made on the old one (`guides.rs:37-39`); a merge that names a
  guide twice counts its usage twice (`guide_merge.rs:81`).
* Two identities whose roots are gone can race for one new root and both list
  it (`projects.rs:614`); a racing write with a foreign name under a fresh
  identity is accepted (425-438); a registration precedes its command and stays
  when that fails.

*Answers*
* A tie breaks by identity only, though `mmr.rs` says by score first; a query
  boosts what it shows, so that its later pages may repeat or miss memories
  (`PagesTile` is for the others); a page that would end beyond 1000 is refused.
* Reading by id shows records of any lifecycle and, when the caller has no
  stable identity, of any project (`memory_read.rs:156-159`: `in_scope` holds
  for all of them); `ServesWhatWasEligible` asks no more there than that what is
  shown is what the record said; `memory_read` drops `partial`;
  the fallback scan reports `partial = false`.
* An add that holds a snapshot from before a restore scans after the cache was
  cleared and leaves signatures of records that are gone; updates and merges
  are not scanned for contradictions; refused adds leave their signature.
* The prefix of a piece is counted twice in the search budget; one oversized
  piece fails its whole sequential batch.

*The daemon, files, import*
* The shared probe of the lock makes another child's exclusive attempt fail as
  if a daemon were running (`unix.rs:72-96`); the loser against a leaving daemon
  leaves its frontend failing (`serve/daemon.rs:194-197`); the epoch is issued
  before the client quota is looked at.
* A submission that has read `closed = false` and pushes after the worker has
  drained waits for ever (`worker.rs:185-207`, 339-342); `in_flight` may go below
  zero; a cancellation spares what is in flight.
* Three provisions can load a torn file under one staged name; a bad download
  is published and fails every start until it is removed.
* The installer may replace a file written between its read and its rename, or
  downgrade against another installer; a binding is neither atomic nor flushed.
* The stamp of a migration step is committed and not flushed; the bound on
  version jumps is tested for the first step of an open only.
* Losses of the Lemma import that are not counted: unparseable `last_accessed_at`
  of attempts, elements of arrays that are no strings, rows whose owner is
  missing, negative counters, optional values of another type
  (`lemma-import/src/lib.rs:201-204` says all are counted).

## 6. What is proved

For every value of the constants that the module's own assumptions allow, and,
where the third column names one, the theorem's. `RetryAssumption`,
`DriveAssumption`, `ProjectionAssumption`, `GenerationsAssumption`,
`DurabilityAssumption`, `SessionsAssumption`, `ProjectsAssumption`,
`GuidesAssumption`, `MemoriesAssumption`, `BackupAssumption`,
`OwnedAssumption`, `CacheAssumption`, `ConflictsAssumption`, `RecallAssumption`,
`MigrationsAssumption`, `ImportAssumption` say that bounds are natural numbers, that
a placeholder is none of the values it stands beside, that the sets counted are
finite, and what a call must bring: an outcome of its kind and one channel; a
name with an identity; at least one guide; a text for a memory that is added or
merged, two memories for a relation, and for a merge its mode and a result that
is none of its sources, as its id is derived from the request
(`memory_merge.rs:96`). `RecallAssumption` has one more: ids are
positive numbers, as what is searched for is ordered. The stores a request may
start from have any edges: `GraphIsSound`, proved of `Memories`, is about
supersession as it is stored and does not rule out a cycle in the direction in
which it is followed. `MigrationsAssumption` has that a plan lists its steps in their
order (`migrations.rs:49`) and a target is above 0, the version of a store
without a record; `ImportAssumption` only that schemas are of 1 to 8 and flaws of
`Flaws`, so that the run's pairs become any flaws together.
`LifecycleConstants`, `LimitsConstants`, `CutConstants` say the same of theirs;
they stand in the theorems as hypotheses, and the MC modules assume them of the
instances they check.

| theorem | statement | besides |
|---|---|---|
| *SearchProofs* | | |
| `TypeCorrect` | `Spec => []TypeOK` | - |
| `PhantomSafety` | `Spec => []NoPhantomRow` | - |
| `PendingSafety` | `Spec => []PendingJobIsCurrent` | no embedding fails |
| `LagSafety` | `Spec => []LagTellsTruth` | no restores |
| `PhantomSurvivesPowerLoss` | `DurableSpec => []NoPhantomRow` | no power failure between a commit and its barrier |
| `PendingSurvivesPowerLoss` | `DurableSpec => []PendingJobIsCurrent` | no embedding fails |
| `AckLossSafety` | `DurableSpec => []NothingIsLost` | no restores, no power failure between a commit and its barrier |
| `GenerationsTypeCorrect` | `GenSpec => []GenTypeOK` | - |
| `OneActiveOnePipelineAlways` | `GenSpec => []OneActiveOnePipeline` | - |
| `CutoverLosesNothing` | `GenSpec => []ActiveIsServed` | - |
| `ReaperSparesTheActive` | `GenSpec => ReaperSparesActive` | - |
| *RetryProofs* | | |
| `RetryTypeCorrect` | `Spec => []TypeOK` | - |
| `ToldSuccessIsDurable` | `Spec => []SuccessIsDurable` | - |
| `CommandsAreFenced` | `Spec => []GenerationFence` | no call mutates guides |
| `StaleAnswersAreCertain` | `Spec => []StaleIsCertain` | - |
| `TakesEffectOnce` | `Spec => []AtMostOnce` | - |
| `ImplementsOnceOnly` | `Spec => OnceOnlySpec` | no call mutates guides |
| *DaemonProofs* | | |
| `DriveTypeCorrect`, `DriveBound` | the types of a drive; `DriveIsBounded` | - |
| `ServingHasTheSocket` | `[]ServingIsReachable` | `LifecycleConstants` |
| `GivesUpForAReason` | `[]FailsOnlyWhenDisturbed` | `LifecycleConstants` |
| `IdleExitSparesClients` | `NoIdleExitUnderClient` | `LifecycleConstants` |
| `QuotasBind` | `[]LimitsBind` | `LimitsConstants` |
| *RestoreCutProofs* | | |
| `CutTypeCorrect` | `[]CutTypeOK` | `CutConstants` |
| `NoWriteIsLost` | `[]NoWriteLostUnseen` | `CutConstants` |
| `CutsAreOfWhatWasShown` | `ReplacesWhatWasShown` | `CutConstants` |
| `ContextsEndWithTheirStore` | `[]NoContextSpansCut` | `CutConstants` |
| `ImportTypeCorrect` | `ImportSpec => []ImportTypeOK` | - |
| `ImportAlwaysHonest` | `ImportSpec => []ImportIsHonest` | - |
| *SessionsProofs* | | |
| `SessionsTypeCorrect` | `SessionsSpec => []SessionsTypeOK` | - |
| `OverIsOver` | `SessionsSpec => TerminalIsFinal` | - |
| `ChannelsAreApart` | `SessionsSpec => []ChannelIsolation` | - |
| `RecordedExactlyOnce` | `SessionsSpec => []RecordedOnce` | - |
| *ServiceProofs* | | |
| `ProjectsTypeCorrect` | `ProjectsSpec => []ProjectsTypeOK` | - |
| `OwnersAlwaysAgree` | `ProjectsSpec => []OwnersAgree` | - |
| `GuidesTypeCorrect` | `GuidesSpec => []GuidesTypeOK` | - |
| `LinksAlwaysHold` | `GuidesSpec => []LinksHold` | - |
| `NoGuideUpdateLost` | `GuidesSpec => []NoUpdateLost` | `MergesOfDistinct` |
| `BackupTypeCorrect` | `BackupSpec => []BackupTypeOK` | - |
| `PublishedAlwaysWhole` | `BackupSpec => []PublishedIsWhole` | - |
| `OwnedTypeCorrect` | `OwnedSpec => []OwnedTypeOK` | - |
| `OwnedFilesKeepTheirOwner` | `OwnedSpec => []FilesKeepTheirOwner` | - |
| `CacheTypeCorrect` | `CacheSpec => []CacheTypeOK` | - |
| `WhatIsLoadedWasVerified` | `CacheSpec => []LoadsWhatItVerified` | - |
| `SchemaTypeCorrect` | `SchemaSpec => []MigrationsTypeOK` | - |
| `StoreAlwaysMigrated` | `SchemaSpec => []StoreIsMigrated` | - |
| *MemoriesProofs* | | |
| `MemoriesTypeCorrect` | `Spec => []MemoriesTypeOK` | - |
| `RecordsAlwaysAgree` | `Spec => []RecordsAgree` | - |
| `GraphAlwaysSound` | `Spec => []GraphIsSound` | - |
| `TwinsAreMissed` | `Spec => []TwinsOnlyWhenMissed` | - |
| `OracleAgrees` | `OracleSpec => []AgreesWithOracle` | - |
| *ReadersProofs* | | |
| `ConflictsTypeCorrect` | `ConflictsSpec => []ConflictsTypeOK` | - |
| `ConflictsAlwaysSeen` | `ConflictsSpec => []ConflictsAreSeen` | - |
| `RecallTypeCorrect` | `RecallSpec => []RecallTypeOK` | - |
| `ServedWasEligible` | `RecallSpec => []ServesWhatWasEligible` | - |
| `BundlesAlwaysHold` | `RecallSpec => []BundlesHold` | - |
| `CompleteOrOvertaken` | `RecallSpec => []CompleteUnlessOvertaken` | - |

The third column never excludes an ordinary fault: kills, failed table calls
and both modes are in all theorems on the projection; drops, failed dials,
outages, refusals, expiry, collection, activations and restores in those on
calls; kills, closed connections and restarts in the others. What it does
exclude is what section 5 shows to break the property: a failed embedding
(5.2), a restore under the worker (5.1), a guide mutation (5.4), a command
undone by a power failure.

Hardly any of the properties is inductive. The invariants that are:

*Projection.* `PhantomInv` adds that neither a row nor the worker is of a later
generation than the active one, and that a worker of the active generation
that is about to write holds a memory the store has, at a revision it has
reached: so the row it writes is either of the active generation and true, or
of an older one that nobody reads. `PendingInv` adds what a backfill carries
between its steps: as long as the slot of the memory it has read is empty, the
memory is at the revision that was read. It also says that a worker past the
guard has text or a vector to write.

`LagInv` has the heart of the protocol. A job in hand or in the snapshot has a
sequence number no larger than the slot's unless the slot was emptied; when it
is equal, nothing has changed since the job was written, so that what the
worker read is what is canonical now (`SnapshotKept`, `HandKept`); and by the
place the worker is at, the table has the row (after the merge), nothing older
(after the cleanup), or nothing at all (after a deletion; `RowsWritten`). A
tombstone is only for a memory that will not come back. Clearing a slot whose
number is unchanged therefore leaves the memory converged. Sequence numbers
that start over after the slot is emptied are harmless because only the worker
empties slots, one at a time; a restore, which also resets them, is what breaks
this.

*Power failures.* What is on its way to the disk is acknowledgements only
(`DiskIsCurrent`), and the image is one moment of the store
(`DiskTombstonesStand`, `DiskJobIsCurrent`), so that a power failure only brings
jobs back. A memory the disk has no job for is settled: what the worker has of
it in hand is canonical (`SettledInHand`), so that merging it once more,
removing older rows or deleting leave it as it is shown.

*Calls.* Types need `FenceInv`: a restore that holds the lock still has the
generation it was admitted with. `DurableInv` follows a success from the commit
to the host: a receipt, in the store or on the disk, is never without its
effect; what is done on the disk is done in the store; a request past its
transaction, for a commit as for a replay, is done in the store; one answered
with a success is done on the disk; and so is what the host was told. A call
counts as done when its effect is there or a restore replaced the store that
had it, and every step but a power failure only adds to that (`StoreGrows`,
`DiskGrows`); a power failure ends all requests, so that none is past a
transaction that was lost. `Met` is the fence: the transaction of a command
compares the generations in the step in which it writes.

That a call takes effect once rests on receipts that may be collected. An
effect remembers the request it came from (`OwnedInv`). A receipt is collected
only when no request of its epoch is admitted, and none is admitted after
(`EpochsInv`, `Dead`). An envelope that is sent again has the key of the one
before (`SameKey`), and a fresh operation is minted only when the first can no
longer take effect (`FirstIsOver`). So a transaction that finds no receipt is
the first of its call (`NoSecondEffect`).

`ImplementsOnceOnly` maps each step to `Ask`, `TakeEffect`, `Harden`, `Answer`,
`Lose`, `Replace` or a stutter of `OnceOnly`, with `ToldInv` and `ReplacedInv`
on what was told and what a restore took, and `DurableInv` for the answers.

*Drives.* By the place of the drive, what it has attempted is paid for by what
it has resolved and the batch it is in.

*Daemons and frontends.* The lock has one holder, and the endpoint is the
holder's from the bind to the unlink (`HolderInv`). A frontend spawns once, and
is connected in exactly the steps `InContact` (`WiringInv`). The idle tracker
counts the accepted connections that are open and the dropped ones that were
not noticed (`CountInv`). `QuietInv` is for a frontend that was not disturbed
during its start: nothing is leaving and nobody peeks at the lock; if its child
is dead another daemon has the lock; while it waits a daemon is coming up, and
once it has verified one, that one serves.

*Quotas.* Every counter is the cardinality of what it counts: connections that
hold a slot of the identity, requests in the queue, storage operations,
connections that are present (`LimitsInv`). A connection gives things back in
several steps, each of which moves it out of one of these sets and takes one
from one counter. Bounds on counters are bounds on things, and no one is refused
while there is room. The proof needs facts of `FiniteSetTheorems` on adding and
removing a member.

*Generations.* `RecordsAgree` says that two records under construction are the
same one, instead of counting them, and is inductive with the types:
`StageGeneration` runs only when there is none and takes a number above all
records (`MaxOf` finds the highest of a set of generations), a restore retires
every other open or active record. The builder's type needs `SnapshotCovers`:
what it has in hand is in its snapshot.

While `unruly` is empty, `CutoverInv` holds: the snapshot of the builder is what
is canonical; what it has dealt with is in the table for its generation, unless
that was abandoned; a clean generation that is ready shows everything; and the
active one shows what is not owed. "Shows" is up to `Current`: the text, and the
confidence of a memory that has not drifted. A change of confidence beside a
build or a ready generation puts its memory in `drifted` (`AdjustCuts`), which is
what keeps the invariant true of a snapshot or a generation that was not told;
the worker takes it out again only when there is neither (`NothingBuilt`), so
that what is out of `drifted` is right wherever a cutover may lead. The counts
that an activation compares are not needed for it. `DoomedStay` says that what
the reaper has listed is retired until something revives it.

*Restores.* `CutInv` has the types; that the tool is in a step of its own
(`StepsInv`); that the fence is held exactly in the steps from the confirmation
to the reset, by one channel (`FenceInv`); and that a restore under way points
to a preview that was shown (`PointsInv`). For `NoWriteIsLost`, `KeptInv`: the
acknowledged writes are in the store or a safety backup, and while a restore is
about to replace it the store as it is now is one; it stays as it is because a
commit needs the fence to be free. For `CutsAreOfWhatWasShown`, `ShownInv`
(tokens are of previews that were shown; one that led to a cut is not pending,
and never becomes pending again) and `ConfirmedInv` (between confirmation and
cut, the store has the generation that was shown, and as many writes more as
are counted). For `ContextsEndWithTheirStore`, `HandlesInv` (handles are
numbered in order and never used again), `LiveInv` (outside the step between
replacement and reset, what sessions in use hold, or a committed add is about
to track, is in the store) and `SavedInv` (the file a restart loads is of the
store it finds). A restart in the middle breaks this, which is what the
property excepts.

*Sessions.* A session belongs to the channel of the call that started it and is
there only with the receipt of that call (`ExistInv`); what receipts, bindings
and requests name is there and of the call's channel (`KnownInv`), and a
request past its commit has a receipt (`RoutedInv`). Three kinds of step change
what is recorded, each with a lemma on its effect; of all others one lemma says
that they are quiet. That an outcome never changes after an end is read off
these effects (`OverIsOver`). `OnceInv` ties an attempt and the receipt of its
call to each other, so that a resend finds one when the other is there, in
whatever order the transactions of its two copies interleave; the counters are
bounded by cardinalities: accesses by the calls that boosted or responded,
outcomes of the guide by the practices done and the sessions that ended with
it (`TallyInv`), and suggestions by the sessions that ended, one each
(`SuggestInv`). Resends, kills, restarts and faults are in all four theorems.

*Projects.* A claim is resolved over snapshots of its own, so that `AskInv`
says what each stage may rely on later: an identity it found is the one of its
claim, had a free root when it went on to claim, and still fits unless a
restore emptied the registry. `OwnerInv` is the index and the records: an entry
names a record that lists the root, and without an overtaken claim the owner is
the only one to list it. The transactions that change the registry are a new
identity and one that grows, by a root or by slugs; between restores records
only grow (`RecordsGrow`), which keeps every older row and request fitting.
Without the exception for overtaken claims it would not hold: section 5 has the
race.

*Guides.* What a request has read may be older than what is there, and only the
revision is compared. `HeldInv` says that this is enough as long as no name is
used again: a copy is of the revision the guide still has, and then it is the
guide, or of an earlier one, or a recorded call has taken the name away. It
holds because a step leaves a name alone, raises the revision of its guide,
removes it, or gives the name a first guide (`NameStep`). `BackInv` and
`GoneInv`, links in both directions, are preserved by three shapes of commit: a
guide that grows (`GrownLinked`), guides that give way to one (`Taken`), a
guide forgotten. `PartsInv` has the same three shapes; that a merge adds up to
what was there once is cardinality, the parts being in one guide at most.
`MergesOfDistinct` is a hypothesis of this last theorem and no property of the
code: nothing refuses a name given twice (section 5).

*Memories.* A request that holds the gate is between its scan and its commit,
the memories it looked up exist, and the links it will add come from its own
memory and lead to ones that were there (`StepsInv`). `RowsAgree` is the
projection: a memory without a job has the row its record calls for; `CountInv`
counts the events of a memory. For `GraphIsSound`, supersession is without a
cycle when every edge has a set of memories that is closed under the edges, has
the target and not the source: `OneMoreIsAcyclic` is the check of a new edge,
which hands over such a set when it finds no way back, and `FanIsAcyclic` the
merge, whose result is a memory no edge leads to. What remains is that ends of
edges are not removed under them (`EndsStand`) and that a mutual relation is
stored once (`OneWay`). `TwinsOnlyWhenMissed` rests on `ScansInv`: what has the
text of a request that holds the gate is in what its first read found, among
the pending memories, or was projected between the two, until both are done;
after that it is one of those missed.

*The interpreter.* A step that is no command leaves both stores alone; each
command has a lemma of its own (`AddAgrees`, ... `ForgetAgrees`). What they keep
is `Follows`: a memory that the interpreter has exists, live ones are the same
records (`Alike`), and the interpreter has every relation of the store, those it
has besides leading to a memory that is not live (`Related`). Records that are
not live may differ, as a merge that replaces deletes its sources in one and
removes them in the other. So the graph of the interpreter is the larger one: a
supersession that closes a cycle in the store closes one there (`MoreCycles`),
the reverse being one of the three ways to part, and two live memories are
related in both or in neither. A command planned on memories that are gone since
is refused by both, or names one the interpreter no longer has; for a merge this
needs that its sources were found (`SourcesFound`).

*Contradictions.* A scan judges memories by signatures that may be older than
its snapshot, and by a snapshot that is older than the store. `CacheInv`: a
signature is of no later revision than its memory, and one of the same revision
is of its text, as long as a restore has emptied the cache. Revisions do not
tell an id from itself across its birth, so `SignInv` has what only an add can
leave: nothing before its scan, its own text after. `StillSo` says what may
happen to a memory in a snapshot of this generation while its add holds the
gate: it is forgotten, no more, since updates and merges wait. So the scan
judges every live memory by what it says (`ScanJudges`), and what is scanned is
without contradictions until the transaction (`ScanInv`). The backup is such a
store itself (`StoresInv`), which is why restores do not disturb the property
but by overtaking a scan.

*Recall.* Every read of a request sees another store, so the history
`witnessed` keeps what was so at some moment (`eligible`, `content`) and what
was so all along (`steady`, `edges`), and `WitnessInv` ties it to the store as
it is. `ServeInv` follows what is to be served back to its reads (`Sourced`):
candidates, reached neighbours and currents were eligible when they were looked
at, and what is shown is what a record said at that moment. `BundleInv` has the
walk up a chain: of the candidates not yet dealt with, one at most is its own
current, and past the first hop the head is among what the successors of that
candidate lead to (`WalkInv`; `LeadsOn` has the hop). A walk that ends where it
began has either not moved, and then no successor was eligible all along, or
has come back, and then the chain leads back to the candidate, which
`LeadsBack` says and the property excepts (`EndsIn`); no assumption on cycles
is needed. The page then leaves out whatever has a current and prefers the
currents (`PageInv`). `CompleteInv` rests on `ConvergedInv`, that a live memory
that waits for nothing has its row. The readiness is read after the legs, and
an empty queue says nothing of the moment the table was pinned - unless nothing
was taken from it since: then it was empty all along (`NothingToDo`), the
pinned table has a row for every eligible memory, legs, candidates and page
cover them one after the other (`Completed`). The run `recall_complete` shows
that the property fails without this exception.

*Files.* `PublishInv`: the file an export renames is whole and flushed, so that
a power failure finds the old backup or the new one under the name. `FilesInv`
has what a command may rely on between its look and its write: a binding or a
shim that is there stays, with one writer (`WriterInv`, `FillerInv`), and a
skill is replaced as it was read unless others wrote in between. `CacheInv`:
the staged name is never on the published file, and who is about to load has
verified the file that is there, unless a second download moved it since.

*Migrations.* A step and its stamp commit together and are not flushed, so that
`UnflushedInv` is about every state since the last flush: in each, the steps
done are in order and end at the version (`InStep`), all are of one kind, and
what was acknowledged is in all of them. `OpeningInv` has what an open relies on
between its steps: the version it has reached still leads to the target, and
past the loop it is the target. For the loop this is `NextStep`: the first step
beyond a version from which the target can be reached is no higher than the
target, and the target can be reached from there, or it was reached.

*Import.* `ImportInv` is told pass by pass. `ToldInv`: once a pass is over, every
flaw of its tables is told by what was counted so far (`Told`, the disjuncts of
`ImportAccounts` without the restore), and whatever was counted is a flaw's
doing (`Due`); a pass only adds to the losses, so that what was told stays told.
One flaw is told out of its turn: the guide a link names is counted when the
memories are read. `ReadInv`: what was read refers to what was read, parents and
children are each the other's inverse, legacy ids are missing only where an
image lacks them - but relations are read as they stand, and it is the restore
(`RestoredInv`) that leaves out those with an end that is not there: an end of
the image's flaws, as every memory of the image was read.

The proofs go action by action, with lemmas on what an action does to the piece
of state the invariant talks about; each theorem combines its step lemma with
the types and the invariants it needs.

Proved rather than run: `DriveIsBounded`, `GenerationFence` for commands,
`StaleIsCertain` (`AtMostOnce` is part of what `OnceOnlySpec` says).

Model-checked only:

* Liveness (`CatchesUp`, `EveryoneIsAnswered`, `QueuedWorkEnds` and the refuted `TextIsIndexed` and `ChunkingEnds`): it needs
  fairness and `ENABLED`, which the prover does not handle.
* `PiecesTile`: what a loop over a text computes, an induction over data.
* `TwoCallsAgree` is an instance of `ToldSuccessIsDurable`, `TakesEffectOnce`
  and `StaleAnswersAreCertain`, and `ServiceTypeOK` is proved for the modules
  with a theorem on their types.

## 7. Not modelled

Wording, formatting and the compatibility schemas; the fusion and diversity of
scores and all vectors (floating point); the encodings of files, frames and
keys, and the limits on their sizes; the `Unrelate` command and the forgetting
of archives; the session bodies that the IPC offers beside the tools; listing
and decay of sessions; references between guides; a key used again with
another digest; `EmbeddingScheduler`, which nothing in production feeds;
cancellation tokens and health reports; the Windows runtime; the column
`related_guides` of the import; benchmarks, the visualizer and the build tasks.
What is partly modelled has its gap named in `PROJECT.json` ("components").

## 8. Plan

The modules the system called for are there.

Every safety property that a passing run checks has a theorem now, but for those
that section 6 lists as model-checked only.

A theorem on a module asks that an MC module extends it, which asks for names
that do not clash, or that its assumptions are hypotheses of the theorem.
