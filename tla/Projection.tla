----------------------------- MODULE Projection -----------------------------
(***************************************************************************)
(* The search projection: how the rows of the Lance table follow the       *)
(* canonical memories of the Fjall store.                                  *)
(*                                                                         *)
(* Every canonical command that changes what a row shows writes, in its    *)
(* own transaction, a projection job for the memory (one slot per memory,  *)
(* a sequence number that a later job increments).  One worker task of the *)
(* daemon takes a snapshot of the jobs, and for each reads the memory,     *)
(* embeds it, checks that the canonical revision is still the one it read, *)
(* writes the rows and clears the job if its sequence number is unchanged. *)
(* The reads, the check, the write and the clearing are separate steps, so *)
(* commands, a restore and a crash fall between any two of them.           *)
(*                                                                         *)
(* Abstractions.  A command is its effect on the three columns that matter *)
(* to a row: the lifecycle (live, or gone for deleted, invalidated and     *)
(* archived), the document revision and the confidence.  One row stands    *)
(* for the chunk rows of one revision of a memory; the two phases of a     *)
(* publication (merge, then removal of the older revisions) are kept.      *)
(* The table (Lance) is external and each of its calls is atomic.          *)
(***************************************************************************)
EXTENDS Naturals, FiniteSets

CONSTANTS
    Memories,       \* identifiers of memories
    NoJob,          \* an empty slot of the job queue
    Backups,        \* the canonical states a backup file may hold
    Modes,          \* values "lexical only" may take when the daemon starts
    MaxRev,         \* bound on document revisions
    MaxConf,        \* confidences are 0..MaxConf (clamped, like 0.0..1.0)
    MaxCommits,     \* bound on canonical commands
    MaxGen,         \* bound on store generations (restores)
    MaxFaults,      \* bound on crashes and failed drives
    MaxEmbedFails   \* bound on embedding failures

Lives == {"absent", "live", "gone"}

\* A canonical memory, as far as its rows can tell.
Memory == [life : Lives, rev : Nat, conf : 0..MaxConf]

Absent == [life |-> "absent", rev |-> 0, conf |-> 0]

Job == [rev : Nat, seq : Nat, tomb : BOOLEAN]

ASSUME ProjectionAssumption ==
    /\ Memories # {}
    /\ NoJob \notin Job
    /\ Backups \subseteq [Memories -> Memory]
    /\ Modes \subseteq BOOLEAN /\ Modes # {}
    /\ {MaxRev, MaxConf, MaxCommits, MaxGen, MaxFaults, MaxEmbedFails} \subseteq Nat

VARIABLES
    canon,      \* the committed canonical memories
    jobs,       \* the pending job of each memory, or NoJob
    gen,        \* the active store generation
    rows,       \* the Lance table
    lexical,    \* the daemon runs without an embedder
    pc,         \* where the worker task is
    wgen,       \* the generation its projector was built with
    todo,       \* what is left of the snapshot of jobs of this pass
    cur,        \* the memory and job in hand
    seen,       \* the canonical memory as the worker read it
    dense,      \* the embedding of the rows in hand succeeded
    progress,   \* this pass resolved a job
    commits, faults, embedFails    \* counters that bound the exploration

store    == <<canon, jobs, gen>>
locals   == <<cur, seen, dense>>
worker   == <<pc, wgen, todo, locals, progress>>
counters == <<commits, faults, embedFails>>
vars     == <<store, rows, lexical, worker, counters>>

Item == [mem : Memories, job : Job]
Row  == [mem : Memories, gen : Nat, rev : Nat, conf : Nat, dense : BOOLEAN]
PCs  == {"down", "backfill", "enqueue", "idle", "list", "pick", "publish",
         "merge", "cleanup", "ack", "delete", "ackDelete"}

NoItem == [mem |-> CHOOSE m \in Memories : TRUE,
           job |-> [rev |-> 0, seq |-> 0, tomb |-> FALSE]]

TypeOK ==
    /\ canon \in [Memories -> Memory]
    /\ jobs \in [Memories -> Job \cup {NoJob}]
    /\ gen \in Nat
    /\ rows \subseteq Row
    /\ lexical \in BOOLEAN
    /\ pc \in PCs
    /\ wgen \in Nat
    /\ todo \subseteq Item
    /\ cur \in Item
    /\ seen \in Memory
    /\ dense \in BOOLEAN
    /\ progress \in BOOLEAN
    /\ commits \in Nat /\ faults \in Nat /\ embedFails \in Nat

Init ==
    /\ canon = [m \in Memories |-> Absent]
    /\ jobs = [m \in Memories |-> NoJob]
    /\ gen = 1
    /\ rows = {}
    /\ lexical \in Modes
    /\ pc = "idle"
    /\ wgen = 1
    /\ todo = {}
    /\ cur = NoItem
    /\ seen = Absent
    /\ dense = FALSE
    /\ progress = FALSE
    /\ commits = 0 /\ faults = 0 /\ embedFails = 0

-----------------------------------------------------------------------------
(* The job queue: operations on one slot, each inside a transaction.       *)

\* The next sequence number of a slot: it starts over once the slot is empty.
NextSeq(m) == IF jobs[m] = NoJob THEN 1 ELSE jobs[m].seq + 1

\* Mutant: the revision is read from the record before the update.
PendingAtOldRevision(m, rev) == [rev |-> canon[m].rev, seq |-> NextSeq(m), tomb |-> FALSE]

\* record_pending_projection: project the memory at its current revision.
Pending(m, rev) == [rev |-> rev, seq |-> NextSeq(m), tomb |-> FALSE]

\* invalidate_projection: remove the rows of the memory.
Tombstone(m) == [rev |-> canon[m].rev, seq |-> NextSeq(m), tomb |-> TRUE]

\* Mutant: the sequence number is not compared.
AckedWhatever(m, seq) == jobs[m] # NoJob

\* acknowledge_projection: compare the sequence number and clear the slot.
Acked(m, seq) == jobs[m] # NoJob /\ jobs[m].seq = seq

Acknowledge(m, seq) ==
    jobs' = IF Acked(m, seq) THEN [jobs EXCEPT ![m] = NoJob] ELSE jobs

-----------------------------------------------------------------------------
(* Canonical commands.  Each is one committed transaction of any frontend. *)

\* Mutant: the clamp lets one too many through.
Unclamped == 0..(MaxConf + 1)

\* The confidences a command can store: every new value is clamped.
Clamped == 0..MaxConf

Commit == commits < MaxCommits /\ commits' = commits + 1

Untouched == UNCHANGED <<gen, rows, lexical, worker, faults, embedFails>>

AddMemory(m) ==
    /\ Commit
    /\ canon[m].life = "absent"
    /\ \E c \in Clamped :
         canon' = [canon EXCEPT ![m] = [life |-> "live", rev |-> 1, conf |-> c]]
    /\ jobs' = [jobs EXCEPT ![m] = Pending(m, 1)]
    /\ Untouched

\* An update that touches a column the row is rendered from, and possibly the
\* confidence with it.
UpdateContent(m) ==
    /\ Commit
    /\ canon[m].life = "live"
    /\ canon[m].rev < MaxRev
    /\ \E c \in Clamped :
         canon' = [canon EXCEPT ![m] =
                     [life |-> "live", rev |-> canon[m].rev + 1, conf |-> c]]
    /\ jobs' = [jobs EXCEPT ![m] = Pending(m, canon[m].rev + 1)]
    /\ Untouched

\* Feedback, access, boost: no test of the lifecycle.  A clamp that leaves the
\* confidence alone writes no job, and changes nothing a row shows.
AdjustConfidence(m) ==
    /\ Commit
    /\ canon[m].life # "absent"
    /\ \E c \in Clamped \ {canon[m].conf} :
         canon' = [canon EXCEPT ![m].conf = c]
    /\ jobs' = [jobs EXCEPT ![m] = Pending(m, canon[m].rev)]
    /\ Untouched

\* Delete, invalidate or archive, whatever the lifecycle was.
Forget(m) ==
    /\ Commit
    /\ canon[m].life # "absent"
    /\ canon' = [canon EXCEPT ![m].life = "gone"]
    /\ jobs' = [jobs EXCEPT ![m] = Tombstone(m)]
    /\ Untouched

\* Merge of the sources S into the new memory r: the sources are deleted, or
\* kept with the confidence of a consolidated memory.
Merge(S, r) ==
    /\ Commit
    /\ S # {} /\ canon[r].life = "absent"
    /\ \A s \in S : canon[s].life # "absent"
    /\ \E c \in Clamped, consolidate \in BOOLEAN :
         /\ consolidate => \A s \in S : canon[s].life = "live"
         /\ canon' = [m \in Memories |->
                IF m = r THEN [life |-> "live", rev |-> 1, conf |-> c]
                ELSE IF m \notin S THEN canon[m]
                ELSE IF consolidate THEN [canon[m] EXCEPT !.conf = 0]
                ELSE [canon[m] EXCEPT !.life = "gone"]]
         /\ jobs' = [m \in Memories |->
                IF m = r THEN Pending(r, 1)
                ELSE IF m \notin S THEN jobs[m]
                ELSE IF consolidate THEN Pending(m, canon[m].rev)
                ELSE Tombstone(m)]
    /\ Untouched

\* Mutant: the restored memories are not enqueued again.
JobsLeftAlone(b) == jobs

\* A first job for every restored memory, and no other.
RestoredJobs(b) == [m \in Memories |->
    IF b[m].life = "absent" THEN NoJob ELSE [rev |-> b[m].rev, seq |-> 1, tomb |-> FALSE]]

\* restore_replace: the whole store becomes the backup, under the next
\* generation, with a first job for every memory in it.
Restore(b) ==
    /\ gen < MaxGen
    /\ canon' = b
    /\ jobs' = RestoredJobs(b)
    /\ gen' = gen + 1
    /\ UNCHANGED <<rows, lexical, worker, counters>>

Canonical ==
    \/ \E m \in Memories :
          AddMemory(m) \/ UpdateContent(m) \/ AdjustConfidence(m) \/ Forget(m)
    \/ \E r \in Memories : \E S \in SUBSET (Memories \ {r}) : Merge(S, r)
    \/ \E b \in Backups : Restore(b)

-----------------------------------------------------------------------------
(* The worker task.                                                        *)

\* The locals of process_job go out of scope.
Dropped == cur' = NoItem /\ seen' = Absent /\ dense' = FALSE

\* Mutant: the filter is the wrong way round.
DenseVectors == {r.mem : r \in {s \in rows : s.dense}}

\* The memories with a row without a vector.
NullVectors == {r.mem : r \in {s \in rows : ~s.dense}}

\* start_projection: with an embedder, memories whose rows have no vector are
\* requeued before the loop starts.
StartProjection ==
    /\ pc = "down"
    /\ \E lex \in Modes :
         /\ lexical' = lex
         /\ pc' = IF lex THEN "idle" ELSE "backfill"
         /\ todo' = IF lex THEN {}
                    ELSE {[NoItem EXCEPT !.mem = m] : m \in NullVectors}
    /\ UNCHANGED <<store, rows, wgen, locals, progress, counters>>

\* backfill_null_vectors reads the memory...
BackfillRead ==
    /\ pc = "backfill"
    /\ IF todo = {}
       THEN pc' = "idle" /\ UNCHANGED <<todo, cur, seen>>
       ELSE \E it \in todo :
              /\ todo' = todo \ {it}
              /\ IF canon[it.mem].life = "live"
                 THEN cur' = it /\ seen' = canon[it.mem] /\ pc' = "enqueue"
                 ELSE UNCHANGED <<cur, seen, pc>>
    /\ UNCHANGED <<store, rows, lexical, wgen, dense, progress, counters>>

\* ... and enqueues it, unless a job is already pending.
BackfillEnqueue ==
    /\ pc = "enqueue"
    /\ jobs' = IF jobs[cur.mem] = NoJob
               THEN [jobs EXCEPT ![cur.mem] = Pending(cur.mem, seen.rev)]
               ELSE jobs
    /\ pc' = "backfill"
    /\ Dropped
    /\ UNCHANGED <<canon, gen, rows, lexical, wgen, todo, progress, counters>>

\* A commit wake or the interval: a projector for the current generation.
Wake ==
    /\ pc = "idle"
    /\ wgen' = gen
    /\ pc' = "list"
    /\ UNCHANGED <<store, rows, lexical, todo, locals, progress, counters>>

ListJobs ==
    /\ pc = "list"
    /\ todo' = {[mem |-> m, job |-> jobs[m]] :
                    m \in {n \in Memories : jobs[n] # NoJob}}
    /\ progress' = FALSE
    /\ pc' = IF todo' = {} THEN "idle" ELSE "pick"
    /\ UNCHANGED <<store, rows, lexical, wgen, locals, counters>>

\* A pass that resolved nothing ends the drive, another one starts over.
EndPass ==
    /\ pc = "pick" /\ todo = {}
    /\ pc' = IF progress THEN "list" ELSE "idle"
    /\ progress' = FALSE
    /\ UNCHANGED <<store, rows, lexical, wgen, todo, locals, counters>>

\* process_job, first read: what the job asks for against what is there now.
ReadMemory ==
    /\ pc = "pick"
    /\ \E it \in todo :
         /\ todo' = todo \ {it}
         /\ IF canon[it.mem].life = "live" /\ ~it.job.tomb /\ canon[it.mem].rev # it.job.rev
            THEN UNCHANGED <<cur, seen, pc>>
            ELSE /\ cur' = it
                 /\ seen' = canon[it.mem]
                 /\ pc' = IF canon[it.mem].life # "live" \/ it.job.tomb
                          THEN "delete" ELSE "publish"
    /\ UNCHANGED <<store, rows, lexical, wgen, dense, progress, counters>>

\* What the publication guard wants: rows of the active generation, of the
\* revision that is still canonical, of a memory that is still live.
MayPublish ==
    /\ wgen = gen
    /\ canon[cur.mem].rev = seen.rev
    /\ canon[cur.mem].life = "live"

\* Whether the embedder answers; without one every row is text only.
Embed(ok) ==
    /\ ok => ~lexical
    /\ IF ok \/ lexical THEN UNCHANGED embedFails
       ELSE embedFails < MaxEmbedFails /\ embedFails' = embedFails + 1

\* Embedding, then the guard of publish_rows_guarded.
Publish ==
    /\ pc = "publish"
    /\ \E ok \in BOOLEAN :
         /\ Embed(ok)
         /\ IF MayPublish
            THEN pc' = "merge" /\ dense' = ok /\ UNCHANGED <<cur, seen>>
            ELSE pc' = "pick" /\ Dropped
    /\ UNCHANGED <<store, rows, lexical, wgen, todo, progress, commits, faults>>

SameGroup(r) == r.mem = cur.mem /\ r.gen = wgen

\* Mutant: the row claims the generation that is active when it is written.
RowOfActive == [mem |-> cur.mem, gen |-> gen, rev |-> seen.rev,
                conf |-> seen.conf, dense |-> dense]

\* render_chunk_rows: of the generation the projector was built with.
RowInHand == [mem |-> cur.mem, gen |-> wgen, rev |-> seen.rev,
              conf |-> seen.conf, dense |-> dense]

\* publish_rows, merge_insert: replaces the row with the same revision.
MergeRows ==
    /\ pc = "merge"
    /\ rows' = {r \in rows : ~(SameGroup(r) /\ r.rev = seen.rev)} \cup {RowInHand}
    /\ pc' = "cleanup"
    /\ UNCHANGED <<store, lexical, wgen, todo, locals, progress, counters>>

\* Mutant: the row that was just merged goes with them.
SupersededOrSame(r) == SameGroup(r) /\ r.rev <= seen.rev

Superseded(r) == SameGroup(r) /\ r.rev < seen.rev

\* publish_rows, removal of the revisions the merge superseded.
RemoveOlder ==
    /\ pc = "cleanup"
    /\ rows' = {r \in rows : ~Superseded(r)}
    /\ pc' = "ack"
    /\ UNCHANGED <<store, lexical, wgen, todo, locals, progress, counters>>

\* The last step of process_job: clear the job, or requeue it when an
\* embedding is missing.  The requeue writes the slot whatever is in it now.
ResolveJob ==
    /\ pc = "ack"
    /\ IF lexical \/ dense
       THEN Acknowledge(cur.mem, cur.job.seq) /\ progress' = TRUE
       ELSE /\ jobs' = [jobs EXCEPT ![cur.mem] =
                          [rev |-> seen.rev, seq |-> cur.job.seq + 1, tomb |-> FALSE]]
            /\ UNCHANGED progress
    /\ pc' = "pick"
    /\ Dropped
    /\ UNCHANGED <<canon, gen, rows, lexical, wgen, todo, counters>>

\* propagate_deletion: every row of the memory, in every generation.
DeleteRows ==
    /\ pc = "delete"
    /\ rows' = {r \in rows : r.mem # cur.mem}
    /\ pc' = "ackDelete"
    /\ UNCHANGED <<store, lexical, wgen, todo, locals, progress, counters>>

AckDelete ==
    /\ pc = "ackDelete"
    /\ Acknowledge(cur.mem, cur.job.seq)
    /\ progress' = (progress \/ Acked(cur.mem, cur.job.seq))
    /\ pc' = "pick"
    /\ Dropped
    /\ UNCHANGED <<canon, gen, rows, lexical, wgen, todo, counters>>

\* A table call fails: the error ends the drive.
DriveFails ==
    /\ pc \in {"merge", "cleanup", "delete"}
    /\ faults < MaxFaults /\ faults' = faults + 1
    /\ pc' = "idle"
    /\ todo' = {} /\ progress' = FALSE /\ Dropped
    /\ UNCHANGED <<store, rows, lexical, wgen, commits, embedFails>>

\* The process is killed.  Commits are in the journal and survive it.
Kill ==
    /\ pc # "down"
    /\ faults < MaxFaults /\ faults' = faults + 1
    /\ pc' = "down"
    /\ todo' = {} /\ progress' = FALSE /\ Dropped
    /\ UNCHANGED <<store, rows, lexical, wgen, commits, embedFails>>

Worker ==
    \/ StartProjection \/ BackfillRead \/ BackfillEnqueue
    \/ Wake \/ ListJobs \/ ReadMemory \/ EndPass
    \/ Publish \/ MergeRows \/ RemoveOlder \/ ResolveJob
    \/ DeleteRows \/ AckDelete

Next == Canonical \/ Worker \/ DriveFails \/ Kill

Spec == Init /\ [][Next]_vars

\* The worker task is scheduled, and the daemon is started again when killed.
FairSpec == Spec /\ WF_vars(Worker)

-----------------------------------------------------------------------------
(* Properties.                                                             *)

RowsOf(m) == {r \in rows : r.mem = m /\ r.gen = gen}

\* The table shows of the memory what the canonical store holds.
Converged(m) ==
    /\ canon[m].life = "live" =>
         \E r \in RowsOf(m) : r.rev = canon[m].rev /\ r.conf = canon[m].conf
    /\ \A r \in RowsOf(m) : canon[m].life = "live" /\ r.rev = canon[m].rev

\* A memory with no pending job is fully projected: health reports a lag of
\* zero only when recall sees every memory as it is (projection_lag).
LagTellsTruth == \A m \in Memories : jobs[m] = NoJob => Converged(m)

\* The pending job of a live memory asks for the current revision, so that a
\* job the worker finds stale has a newer one behind it (process_job leaves a
\* stale job alone on that ground).
PendingJobIsCurrent ==
    \A m \in Memories :
        jobs[m] # NoJob /\ canon[m].life = "live" => jobs[m].rev = canon[m].rev

\* Readers of the active generation see only memories of the active store, and
\* no revision the store has not reached: a worker that a restore overtakes
\* leaves its rows in the generation it was built for.
NoPhantomRow ==
    \A m \in Memories : \A r \in RowsOf(m) :
        canon[m].life # "absent" /\ r.rev <= canon[m].rev

\* Once commands stop, the table becomes the store and stays it.
Converges == <>[](\A m \in Memories : Converged(m))

\* With an embedder from some time on, every live memory ends with a vector.
EventuallyDense ==
    <>[]~lexical =>
        <>[](\A m \in Memories : canon[m].life = "live" =>
                \E r \in RowsOf(m) : r.rev = canon[m].rev /\ r.dense)

\* What the worker promises once commands stop: the table converges (projector/worker.rs),
\* and rows projected without an embedder get their vectors (daemon/workers.rs).
CatchesUp == Converges /\ EventuallyDense
=============================================================================
