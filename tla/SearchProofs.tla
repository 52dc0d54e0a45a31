----------------------------- MODULE SearchProofs -----------------------------
(***************************************************************************)
(* Theorems about what searches read: Projection, for any memories,        *)
(* backups and bounds, with ProjectionDurability its disk; and             *)
(* Generations, for any finite set of memories and any bounds, with        *)
(* writes, rollbacks and restores at any moment.                           *)
(***************************************************************************)
EXTENDS ProjectionDurability, Generations, FiniteSetTheorems, WellFoundedInduction, TLAPS

(***************************************************************************)
(* The projection.                                                         *)
(***************************************************************************)

-----------------------------------------------------------------------------
(* Types.                                                                  *)

LEMMA NoItemType == NoItem \in Item
BY ProjectionAssumption DEF NoItem, Item, Job

LEMMA PendingType ==
    ASSUME TypeOK, NEW m \in Memories, NEW rev \in Nat
    PROVE  Pending(m, rev) \in Job
BY ProjectionAssumption DEF TypeOK, Pending, NextSeq, Job

LEMMA TombstoneType ==
    ASSUME TypeOK, NEW m \in Memories
    PROVE  Tombstone(m) \in Job
BY ProjectionAssumption DEF TypeOK, Tombstone, NextSeq, Job, Memory

LEMMA AbsentType == Absent \in Memory
BY ProjectionAssumption DEF Absent, Memory, Lives

LEMMA DroppedType == Dropped => cur' \in Item /\ seen' \in Memory /\ dense' \in BOOLEAN
BY NoItemType, AbsentType DEF Dropped

LEMMA TypeInit == Init => TypeOK
<1> SUFFICES ASSUME Init PROVE TypeOK
  OBVIOUS
<1>1. canon \in [Memories -> Memory] /\ jobs \in [Memories -> Job \cup {NoJob}]
  BY AbsentType DEF Init
<1>2. lexical \in BOOLEAN
  BY ProjectionAssumption DEF Init
<1>3. cur \in Item /\ seen \in Memory
  BY NoItemType, AbsentType DEF Init
<1>4. dense \in BOOLEAN /\ progress \in BOOLEAN
  BY DEF Init
<1>5. /\ gen \in Nat /\ rows \subseteq Row /\ pc \in PCs /\ wgen \in Nat
      /\ todo \subseteq Item /\ commits \in Nat /\ faults \in Nat /\ embedFails \in Nat
  BY DEF Init, PCs
<1> QED BY <1>1, <1>2, <1>3, <1>4, <1>5 DEF TypeOK

\* Canonical commands keep the types.
LEMMA TypeCanonical ==
    ASSUME TypeOK, Canonical
    PROVE  TypeOK'
<1> USE ProjectionAssumption
<1>1. ASSUME NEW m \in Memories, AddMemory(m) PROVE TypeOK'
  BY <1>1, PendingType DEF AddMemory, Clamped, Commit, Untouched, worker, locals, TypeOK, Memory, Lives
<1>2. ASSUME NEW m \in Memories, UpdateContent(m) PROVE TypeOK'
  <2>3. canon[m] \in Memory /\ canon[m].rev + 1 \in Nat
    BY DEF TypeOK, Memory
  <2>4. canon' \in [Memories -> Memory]
    BY <1>2, <2>3 DEF UpdateContent, Clamped, TypeOK, Memory, Lives
  <2>5. jobs' \in [Memories -> Job \cup {NoJob}]
    BY <1>2, <2>3, PendingType DEF UpdateContent, TypeOK
  <2> QED
    BY <1>2, <2>4, <2>5 DEF UpdateContent, Commit, Untouched, worker, locals, TypeOK
<1>3. ASSUME NEW m \in Memories, AdjustConfidence(m) PROVE TypeOK'
  BY <1>3, PendingType DEF AdjustConfidence, Clamped, Commit, Untouched, worker, locals, TypeOK, Memory, Lives
<1>4. ASSUME NEW m \in Memories, Forget(m) PROVE TypeOK'
  BY <1>4, TombstoneType DEF Forget, Commit, Untouched, worker, locals, TypeOK, Memory, Lives
<1>5. ASSUME NEW r \in Memories, NEW S \in SUBSET (Memories \ {r}), Merge(S, r)
      PROVE  TypeOK'
  <2>1. PICK c \in 0..MaxConf, consolidate \in BOOLEAN :
         /\ canon' = [m \in Memories |->
                IF m = r THEN [life |-> "live", rev |-> 1, conf |-> c]
                ELSE IF m \notin S THEN canon[m]
                ELSE IF consolidate THEN [canon[m] EXCEPT !.conf = 0]
                ELSE [canon[m] EXCEPT !.life = "gone"]]
         /\ jobs' = [m \in Memories |->
                IF m = r THEN Pending(r, 1)
                ELSE IF m \notin S THEN jobs[m]
                ELSE IF consolidate THEN Pending(m, canon[m].rev)
                ELSE Tombstone(m)]
    BY <1>5 DEF Merge, Clamped
  <2>2. 0 \in 0..MaxConf
    OBVIOUS
  <2>3. \A m \in Memories : canon'[m] \in Memory
    BY <2>1, <2>2 DEF TypeOK, Memory, Lives
  <2>4. canon' \in [Memories -> Memory]
    BY <2>1, <2>3
  <2>5. jobs' \in [Memories -> Job \cup {NoJob}]
    BY <2>1, PendingType, TombstoneType DEF TypeOK, Memory
  <2> QED BY <1>5, <2>4, <2>5 DEF Merge, Commit, Untouched, worker, locals, TypeOK
<1>6. ASSUME NEW b \in Backups, Restore(b) PROVE TypeOK'
  BY <1>6 DEF Restore, RestoredJobs, worker, locals, counters, TypeOK, Memory, Lives, Job
<1> QED BY <1>1, <1>2, <1>3, <1>4, <1>5, <1>6 DEF Canonical

\* So do the steps of the worker.
LEMMA TypeWorker ==
    ASSUME TypeOK, Worker \/ DriveFails \/ Kill
    PROVE  TypeOK'
<1> USE ProjectionAssumption, NoItemType
<1>1. CASE StartProjection
  BY <1>1 DEF StartProjection, NullVectors, store, locals, counters, TypeOK, PCs, Item, Row, Job
<1>2. CASE BackfillRead
  BY <1>2 DEF BackfillRead, store, counters, TypeOK, PCs, Item
<1>3. CASE BackfillEnqueue
  <2>1. Pending(cur.mem, seen.rev) \in Job
    BY PendingType DEF TypeOK, Item, Memory
  <2> QED BY <1>3, <2>1, DroppedType DEF BackfillEnqueue, counters, TypeOK, PCs
<1>4. CASE Wake
  BY <1>4 DEF Wake, store, locals, counters, TypeOK, PCs
<1>5. CASE ListJobs
  <2>1. todo' \subseteq Item
    BY <1>5 DEF ListJobs, TypeOK, Item
  <2>2. pc' \in PCs /\ progress' \in BOOLEAN
    BY <1>5 DEF ListJobs, PCs
  <2> QED BY <1>5, <2>1, <2>2 DEF ListJobs, store, locals, counters, TypeOK
<1>6. CASE ReadMemory
  BY <1>6 DEF ReadMemory, store, counters, TypeOK, PCs, Item
<1>7. CASE EndPass
  BY <1>7 DEF EndPass, store, locals, counters, TypeOK, PCs
<1>8. CASE Publish
  <2>1. PICK ok \in BOOLEAN :
          /\ Embed(ok)
          /\ IF MayPublish
             THEN pc' = "merge" /\ dense' = ok /\ UNCHANGED <<cur, seen>>
             ELSE pc' = "pick" /\ Dropped
    BY <1>8 DEF Publish
  <2>2. cur' \in Item /\ seen' \in Memory /\ dense' \in BOOLEAN
    BY <2>1, DroppedType DEF TypeOK
  <2>3. embedFails' \in Nat /\ pc' \in PCs
    BY <2>1 DEF Embed, TypeOK, PCs
  <2> QED BY <1>8, <2>2, <2>3 DEF Publish, store, TypeOK
<1>9. CASE MergeRows
  BY <1>9 DEF MergeRows, RowInHand, store, locals, counters, TypeOK, PCs, Item, Row, Memory
<1>10. CASE RemoveOlder
  BY <1>10 DEF RemoveOlder, store, locals, counters, TypeOK, PCs
<1>11. CASE ResolveJob
  <2>1. jobs' \in [Memories -> Job \cup {NoJob}]
    <3>1. [rev |-> seen.rev, seq |-> cur.job.seq + 1, tomb |-> FALSE] \in Job
      BY DEF TypeOK, Item, Job, Memory
    <3>2. CASE jobs' = [jobs EXCEPT ![cur.mem] =
                          [rev |-> seen.rev, seq |-> cur.job.seq + 1, tomb |-> FALSE]]
      BY <3>1, <3>2 DEF TypeOK
    <3>3. CASE Acknowledge(cur.mem, cur.job.seq)
      BY <3>3 DEF Acknowledge, TypeOK
    <3> QED BY <1>11, <3>2, <3>3 DEF ResolveJob
  <2>2. progress' \in BOOLEAN /\ pc' \in PCs
    BY <1>11 DEF ResolveJob, TypeOK, PCs
  <2> QED BY <1>11, <2>1, <2>2, DroppedType DEF ResolveJob, counters, TypeOK
<1>12. CASE DeleteRows
  BY <1>12 DEF DeleteRows, store, locals, counters, TypeOK, PCs
<1>13. CASE AckDelete
  <2>1. progress' \in BOOLEAN
    BY <1>13 DEF AckDelete, Acked, TypeOK
  <2> QED BY <1>13, <2>1, DroppedType DEF AckDelete, Acknowledge, counters, TypeOK, PCs
<1>14. CASE DriveFails
  <2>1. pc' \in PCs /\ progress' \in BOOLEAN /\ todo' \subseteq Item
    BY <1>14 DEF DriveFails, PCs
  <2> QED BY <1>14, <2>1, DroppedType DEF DriveFails, store, TypeOK
<1>15. CASE Kill
  <2>1. pc' \in PCs /\ progress' \in BOOLEAN /\ todo' \subseteq Item
    BY <1>15 DEF Kill, PCs
  <2> QED BY <1>15, <2>1, DroppedType DEF Kill, store, TypeOK
<1> QED BY <1>1, <1>2, <1>3, <1>4, <1>5, <1>6, <1>7, <1>8, <1>9, <1>10, <1>11, <1>12,
           <1>13, <1>14, <1>15 DEF Worker

LEMMA TypeNext == TypeOK /\ [Next]_vars => TypeOK'
<1> SUFFICES ASSUME TypeOK, [Next]_vars PROVE TypeOK'
  OBVIOUS
<1>1. CASE Canonical
  BY <1>1, TypeCanonical
<1>2. CASE Worker \/ DriveFails \/ Kill
  BY <1>2, TypeWorker
<1>3. CASE UNCHANGED vars
  BY <1>3 DEF vars, store, worker, locals, counters, TypeOK
<1> QED BY <1>1, <1>2, <1>3 DEF Next

\* Every variable keeps its type, whatever the commands, restores and crashes.
THEOREM TypeCorrect == Spec => []TypeOK
BY TypeInit, TypeNext, PTL DEF Spec

-----------------------------------------------------------------------------
(* What a command does to each memory.                                     *)

\* The job of the memory is replaced by one that follows it, asks for the
\* revision of a live memory, and removes rows only of one that is gone.
Bumped(m) ==
    /\ jobs'[m] \in Job
    /\ jobs'[m].seq = NextSeq(m)
    /\ jobs'[m].tomb => canon'[m].life = "gone"
    /\ canon'[m].life = "live" => jobs'[m].rev = canon'[m].rev

\* Memories never come back and revisions never go back.
Onward(m) ==
    /\ canon[m].life = "gone" => canon'[m].life = "gone"
    /\ canon[m].life # "absent" =>
         canon'[m].life # "absent" /\ canon[m].rev <= canon'[m].rev

Effect ==
    /\ \A m \in Memories :
          /\ \/ canon'[m] = canon[m] /\ jobs'[m] = jobs[m]
             \/ Bumped(m)
          /\ Onward(m)
    /\ UNCHANGED <<gen, rows, lexical, worker, faults, embedFails>>

Restoring == \E b \in Backups : Restore(b)

LEMMA CommandEffect ==
    ASSUME TypeOK, Canonical, ~Restoring
    PROVE  Effect
<1> USE DEF Effect, Bumped, Onward, Untouched, Pending, Tombstone
<1>a. \A m \in Memories : NextSeq(m) \in Nat
  BY DEF TypeOK, NextSeq, Job
<1>b. \A m \in Memories : canon[m] \in Memory /\ canon[m].rev \in Nat
  BY DEF TypeOK, Memory
<1>1. ASSUME NEW m \in Memories, AddMemory(m) PROVE Effect
  BY <1>1, <1>a, <1>b DEF AddMemory, TypeOK, Memory, Job
<1>2. ASSUME NEW m \in Memories, UpdateContent(m) PROVE Effect
  BY <1>2, <1>a, <1>b DEF UpdateContent, TypeOK, Memory, Job
<1>3. ASSUME NEW m \in Memories, AdjustConfidence(m) PROVE Effect
  BY <1>3, <1>a, <1>b DEF AdjustConfidence, TypeOK, Memory, Job
<1>4. ASSUME NEW m \in Memories, Forget(m) PROVE Effect
  BY <1>4, <1>a, <1>b DEF Forget, TypeOK, Memory, Job
<1>5. ASSUME NEW r \in Memories, NEW S \in SUBSET (Memories \ {r}), Merge(S, r)
      PROVE  Effect
  BY <1>5, <1>a, <1>b DEF Merge, TypeOK, Memory, Job
<1> QED BY <1>1, <1>2, <1>3, <1>4, <1>5 DEF Canonical, Restoring

-----------------------------------------------------------------------------
(* No phantom rows, with restores.                                         *)

\* Nothing is of a generation to come.
NotOfTheFuture == wgen <= gen /\ \A r \in rows : r.gen <= gen

\* A worker of the active generation that may write holds a revision the
\* store has reached, of a memory it has.
WriteIsCovered ==
    /\ pc = "publish" /\ wgen = gen =>
         canon[cur.mem].life # "absent" /\ seen.rev <= canon[cur.mem].rev
    /\ pc = "merge" /\ wgen = gen =>
         canon[cur.mem].life # "absent" /\ seen.rev <= canon[cur.mem].rev

PhantomInv == NotOfTheFuture /\ WriteIsCovered /\ NoPhantomRow

LEMMA PhantomInit == Init => PhantomInv
BY DEF Init, PhantomInv, NotOfTheFuture, WriteIsCovered, NoPhantomRow, RowsOf

LEMMA RevType ==
    ASSUME TypeOK
    PROVE  /\ \A m \in Memories : canon[m].rev \in Nat
           /\ seen.rev \in Nat /\ cur.mem \in Memories
           /\ gen \in Nat /\ wgen \in Nat
           /\ \A r \in rows : r.mem \in Memories /\ r.rev \in Nat /\ r.gen \in Nat
BY DEF TypeOK, Memory, Item, Row

LEMMA PhantomCommand ==
    ASSUME TypeOK, TypeOK', PhantomInv, Effect
    PROVE  PhantomInv'
<1> USE DEF PhantomInv
<1>1. /\ UNCHANGED <<gen, rows, pc, wgen, cur, seen>>
      /\ \A m \in Memories : canon[m].life # "absent" =>
            canon'[m].life # "absent" /\ canon[m].rev <= canon'[m].rev
  BY DEF Effect, Onward, worker, locals
<1>2. \A m \in Memories : canon[m].rev \in Nat /\ canon'[m].rev \in Nat
  BY DEF TypeOK, Memory
<1>3. NotOfTheFuture'
  BY <1>1 DEF NotOfTheFuture
<1>4. WriteIsCovered'
  BY <1>1, <1>2, RevType DEF WriteIsCovered
<1>5. NoPhantomRow'
  BY <1>1, <1>2, RevType DEF NoPhantomRow, RowsOf
<1> QED BY <1>3, <1>4, <1>5

LEMMA PhantomRestore ==
    ASSUME TypeOK, PhantomInv, Restoring
    PROVE  PhantomInv'
<1> USE DEF PhantomInv
<1>1. gen' = gen + 1 /\ UNCHANGED <<rows, pc, wgen, cur, seen>>
  BY DEF Restoring, Restore, worker, locals
<1>2. NotOfTheFuture'
  BY <1>1, RevType DEF NotOfTheFuture
<1>3. WriteIsCovered'
  BY <1>1, RevType DEF WriteIsCovered, NotOfTheFuture
<1>4. NoPhantomRow'
  BY <1>1, RevType DEF NoPhantomRow, RowsOf, NotOfTheFuture
<1> QED BY <1>2, <1>3, <1>4

LEMMA PhantomWorker ==
    ASSUME TypeOK, PhantomInv, Worker \/ DriveFails \/ Kill
    PROVE  PhantomInv'
<1> USE DEF PhantomInv, NotOfTheFuture, WriteIsCovered, store
<1> DEFINE Cleared == rows' \subseteq rows /\ wgen' = wgen /\ UNCHANGED <<canon, gen>>
<1>0. ASSUME Cleared, pc' \notin {"publish", "merge"} PROVE PhantomInv'
  BY <1>0, RevType DEF NoPhantomRow, RowsOf
<1>1. CASE StartProjection \/ BackfillRead \/ BackfillEnqueue
  BY <1>0, <1>1 DEF StartProjection, BackfillRead, BackfillEnqueue
<1>2. CASE Wake
  BY <1>2, RevType DEF Wake, NoPhantomRow, RowsOf
<1>3. CASE ListJobs \/ EndPass
  BY <1>0, <1>3 DEF ListJobs, EndPass
<1>4. CASE ReadMemory
  <2>1. UNCHANGED <<canon, gen, rows, wgen>> /\ pc = "pick"
    BY <1>4 DEF ReadMemory
  <2>2. PICK it \in todo :
          IF canon[it.mem].life = "live" /\ ~it.job.tomb /\ canon[it.mem].rev # it.job.rev
          THEN UNCHANGED <<cur, seen, pc>>
          ELSE /\ cur' = it
               /\ seen' = canon[it.mem]
               /\ pc' = IF canon[it.mem].life # "live" \/ it.job.tomb
                        THEN "delete" ELSE "publish"
    BY <1>4 DEF ReadMemory
  <2>3. WriteIsCovered'
    <3>1. it.mem \in Memories /\ canon[it.mem].rev \in Nat
      BY DEF TypeOK, Item, Memory
    <3> QED BY <2>1, <2>2, <3>1
  <2> QED BY <2>1, <2>3 DEF NoPhantomRow, RowsOf
<1>5. CASE Publish
  <2>1. UNCHANGED <<canon, gen, rows, wgen>> /\ pc = "publish"
    BY <1>5 DEF Publish
  <2>2. \/ pc' = "merge" /\ UNCHANGED <<cur, seen>>
        \/ pc' = "pick"
    BY <1>5 DEF Publish
  <2> QED BY <2>1, <2>2 DEF NoPhantomRow, RowsOf
<1>6. CASE MergeRows
  <2> DEFINE new == [mem |-> cur.mem, gen |-> wgen, rev |-> seen.rev,
                     conf |-> seen.conf, dense |-> dense]
  <2>1. UNCHANGED <<canon, gen, wgen>> /\ pc = "merge" /\ pc' = "cleanup"
    BY <1>6 DEF MergeRows, RowInHand
  <2>2. rows' \subseteq rows \cup {new}
    BY <1>6 DEF MergeRows, RowInHand
  <2>3. NotOfTheFuture'
    BY <2>1, <2>2
  <2>4. NoPhantomRow'
    BY <2>1, <2>2 DEF NoPhantomRow, RowsOf
  <2> QED BY <2>1, <2>3, <2>4
<1>7. CASE RemoveOlder \/ ResolveJob \/ DeleteRows \/ AckDelete
  BY <1>0, <1>7 DEF RemoveOlder, ResolveJob, DeleteRows, AckDelete
<1>8. CASE DriveFails \/ Kill
  BY <1>0, <1>8 DEF DriveFails, Kill
<1> QED BY <1>1, <1>2, <1>3, <1>4, <1>5, <1>6, <1>7, <1>8 DEF Worker

LEMMA PhantomNext == TypeOK /\ PhantomInv /\ [Next]_vars => PhantomInv'
<1> SUFFICES ASSUME TypeOK, PhantomInv, [Next]_vars PROVE PhantomInv'
  OBVIOUS
<1>1. CASE Canonical /\ ~Restoring
  BY <1>1, TypeNext, CommandEffect, PhantomCommand
<1>2. CASE Restoring
  BY <1>2, PhantomRestore
<1>3. CASE Worker \/ DriveFails \/ Kill
  BY <1>3, PhantomWorker
<1>4. CASE UNCHANGED vars
  BY <1>4 DEF vars, store, worker, locals, PhantomInv, NotOfTheFuture, WriteIsCovered,
              NoPhantomRow, RowsOf
<1> QED BY <1>1, <1>2, <1>3, <1>4 DEF Next

\* Readers of the active generation never see a memory the store does not
\* have, nor a revision it has not reached, whatever restores overtake the
\* worker: the guard of a publication and the generation its rows are stamped
\* with are enough, although the store moves between the guard and the write.
THEOREM PhantomSafety == Spec => []NoPhantomRow
<1>1. Init => TypeOK /\ PhantomInv
  BY TypeInit, PhantomInit
<1>2. TypeOK /\ PhantomInv /\ [Next]_vars => (TypeOK /\ PhantomInv)'
  BY TypeNext, PhantomNext
<1>3. PhantomInv => NoPhantomRow
  BY DEF PhantomInv
<1> QED BY <1>1, <1>2, <1>3, PTL DEF Spec

-----------------------------------------------------------------------------
(* Pending jobs are current, with restores, when no embedding fails.       *)

\* A memory read for the backfill has not changed while its slot is empty; a
\* worker past the guard has the vectors it wanted.
PendingInv ==
    /\ PendingJobIsCurrent
    /\ pc = "enqueue" /\ jobs[cur.mem] = NoJob /\ canon[cur.mem].life = "live" =>
         canon[cur.mem].rev = seen.rev
    /\ pc \in {"merge", "cleanup", "ack"} => lexical \/ dense

LEMMA PendingInit == Init => PendingInv
BY DEF Init, PendingInv, PendingJobIsCurrent

LEMMA PendingCommand ==
    ASSUME TypeOK, PendingInv, Effect
    PROVE  PendingInv'
<1>1. PendingJobIsCurrent'
  BY DEF Effect, Bumped, PendingInv, PendingJobIsCurrent
<1>2. cur.mem \in Memories /\ UNCHANGED <<pc, cur, seen, lexical, dense>>
  BY DEF Effect, worker, locals, TypeOK, Item
<1> QED BY <1>1, <1>2, ProjectionAssumption DEF Effect, Bumped, PendingInv

LEMMA PendingRestore ==
    ASSUME TypeOK, PendingInv, Restoring
    PROVE  PendingInv'
<1>1. PICK b \in Backups : Restore(b)
  BY DEF Restoring
<1>2. /\ canon' = b
      /\ \A m \in Memories :
            \/ b[m].life = "absent" /\ jobs'[m] = NoJob
            \/ b[m].life # "absent" /\ jobs'[m] = [rev |-> b[m].rev, seq |-> 1, tomb |-> FALSE]
      /\ UNCHANGED <<pc, cur, lexical, dense>>
  BY <1>1 DEF Restore, RestoredJobs, worker, locals
<1>3. \A m \in Memories : b[m].life # "absent" => jobs'[m] # NoJob
  <2> SUFFICES ASSUME NEW m \in Memories, b[m].life # "absent" PROVE jobs'[m] # NoJob
    OBVIOUS
  <2>1. [rev |-> b[m].rev, seq |-> 1, tomb |-> FALSE] \in Job
    BY <1>1, ProjectionAssumption DEF Job, Memory
  <2> QED BY <1>2, <2>1, ProjectionAssumption
<1>4. PendingJobIsCurrent'
  <2> SUFFICES ASSUME NEW m \in Memories, jobs'[m] # NoJob PROVE jobs'[m].rev = canon'[m].rev
    BY DEF PendingJobIsCurrent
  <2>1. jobs'[m] = [rev |-> b[m].rev, seq |-> 1, tomb |-> FALSE]
    BY <1>2
  <2> QED BY <1>2, <2>1
<1>5. cur.mem \in Memories
  BY DEF TypeOK, Item
<1>6. ~(jobs'[cur.mem] = NoJob /\ canon'[cur.mem].life = "live")
  BY <1>2, <1>3, <1>5
<1> QED BY <1>2, <1>4, <1>6 DEF PendingInv

LEMMA PendingWorker ==
    ASSUME TypeOK, PendingInv, MaxEmbedFails = 0, Worker \/ DriveFails \/ Kill
    PROVE  PendingInv'
<1> USE DEF PendingInv, store
<1>0. ASSUME UNCHANGED <<canon, jobs>>, pc' \notin {"enqueue", "merge", "cleanup", "ack"}
      PROVE  PendingInv'
  BY <1>0 DEF PendingJobIsCurrent
<1>1. CASE StartProjection \/ Wake \/ ListJobs \/ EndPass \/ DeleteRows \/ DriveFails \/ Kill
  BY <1>0, <1>1 DEF StartProjection, Wake, ListJobs, EndPass, DeleteRows, DriveFails, Kill
<1>2. CASE BackfillRead
  BY <1>2 DEF BackfillRead, PendingJobIsCurrent
<1>3. CASE BackfillEnqueue
  <2>1. cur.mem \in Memories /\ canon' = canon /\ pc' = "backfill"
    BY <1>3 DEF BackfillEnqueue, TypeOK, Item
  <2>2. PendingJobIsCurrent'
    BY <1>3, <2>1 DEF BackfillEnqueue, Pending, PendingJobIsCurrent, TypeOK
  <2> QED BY <2>1, <2>2
<1>4. CASE ReadMemory
  BY <1>0, <1>4 DEF ReadMemory
<1>5. CASE Publish
  <2>1. PICK ok \in BOOLEAN :
          /\ Embed(ok)
          /\ IF MayPublish
             THEN pc' = "merge" /\ dense' = ok /\ UNCHANGED <<cur, seen>>
             ELSE pc' = "pick" /\ Dropped
    BY <1>5 DEF Publish
  <2>2. ok \/ lexical
    BY <2>1 DEF Embed, TypeOK
  <2>3. UNCHANGED <<canon, jobs, lexical>>
    BY <1>5 DEF Publish
  <2> QED BY <1>0, <2>1, <2>2, <2>3 DEF PendingJobIsCurrent
<1>6. CASE MergeRows \/ RemoveOlder
  BY <1>6 DEF MergeRows, RemoveOlder, locals, PendingJobIsCurrent
<1>7. CASE ResolveJob \/ AckDelete
  <2>1. Acknowledge(cur.mem, cur.job.seq) /\ canon' = canon /\ pc' = "pick"
    BY <1>7 DEF ResolveJob, AckDelete
  <2>2. \A m \in Memories : jobs'[m] = jobs[m] \/ jobs'[m] = NoJob
    BY <2>1 DEF Acknowledge, TypeOK
  <2> QED BY <2>1, <2>2 DEF PendingJobIsCurrent
<1> QED BY <1>1, <1>2, <1>3, <1>4, <1>5, <1>6, <1>7 DEF Worker

LEMMA PendingNext ==
    MaxEmbedFails = 0 /\ TypeOK /\ PendingInv /\ [Next]_vars => PendingInv'
<1> SUFFICES ASSUME MaxEmbedFails = 0, TypeOK, PendingInv, [Next]_vars PROVE PendingInv'
  OBVIOUS
<1>1. CASE Canonical /\ ~Restoring
  BY <1>1, CommandEffect, PendingCommand
<1>2. CASE Restoring
  BY <1>2, PendingRestore
<1>3. CASE Worker \/ DriveFails \/ Kill
  BY <1>3, PendingWorker
<1>4. CASE UNCHANGED vars
  BY <1>4 DEF vars, store, worker, locals, PendingInv, PendingJobIsCurrent
<1> QED BY <1>1, <1>2, <1>3, <1>4 DEF Next

\* The job of a live memory always asks for its current revision, as
\* process_job supposes when it leaves a stale job alone, as long as no
\* embedding fails (the run projection_requeue shows that one is enough).
THEOREM PendingSafety ==
    ASSUME MaxEmbedFails = 0
    PROVE  Spec => []PendingJobIsCurrent
<1>1. Init => TypeOK /\ PendingInv
  BY TypeInit, PendingInit
<1>2. TypeOK /\ PendingInv /\ [Next]_vars => (TypeOK /\ PendingInv)'
  BY TypeNext, PendingNext
<1>3. PendingInv => PendingJobIsCurrent
  BY DEF PendingInv
<1> QED BY <1>1, <1>2, <1>3, PTL DEF Spec

-----------------------------------------------------------------------------
(* A lag of zero tells the truth, when there are no restores.              *)

Publishing == {"publish", "merge", "cleanup", "ack"}
Deleting   == {"delete", "ackDelete"}
InHand     == Publishing \cup Deleting

\* The slot has not moved since the worker took its job.
Same(it) == jobs[it.mem].seq = it.job.seq

\* Only the worker empties a slot, and only that of the memory in hand: the
\* slots of the snapshot are full, and hold the job taken or a later one.
Kept(it) ==
    /\ jobs[it.mem] # NoJob
    /\ it.job.seq <= jobs[it.mem].seq

SnapshotKept ==
    pc \in InHand \cup {"pick"} =>
        /\ \A it \in todo : Kept(it) /\ (Same(it) => jobs[it.mem] = it.job)
        /\ \A i, j \in todo : i.mem = j.mem => i = j

\* While the slot has not moved, the memory is as the worker read it.
HandKept ==
    pc \in InHand =>
        /\ Kept(cur)
        /\ \A it \in todo : it.mem # cur.mem
        /\ Same(cur) => canon[cur.mem] = seen
        /\ pc \in Publishing => seen.life = "live"
        /\ pc \in Deleting /\ Same(cur) => seen.life # "live"

\* What the worker has written so far of the memory in hand.
RowsWritten ==
    /\ pc \in {"cleanup", "ack"} =>
         \E r \in RowsOf(cur.mem) : r.rev = seen.rev /\ r.conf = seen.conf
    /\ pc = "ack" => \A r \in RowsOf(cur.mem) : seen.rev <= r.rev
    /\ pc = "ackDelete" => RowsOf(cur.mem) = {}

\* A tombstone is for a memory that will not come back.
TombstonesStand ==
    \A m \in Memories : jobs[m] # NoJob /\ jobs[m].tomb => canon[m].life = "gone"

LagInv ==
    /\ wgen = gen
    /\ SnapshotKept
    /\ HandKept
    /\ RowsWritten
    /\ TombstonesStand
    /\ LagTellsTruth

LEMMA LagInit == Init => LagInv
BY DEF Init, LagInv, SnapshotKept, HandKept, RowsWritten, TombstonesStand, LagTellsTruth,
       Converged, RowsOf, InHand, Publishing, Deleting, Absent

\* A slot a command touches moves on.
LEMMA BumpMoves ==
    ASSUME TypeOK, Effect, NEW it \in Item, Kept(it)
    PROVE  /\ Kept(it)'
           /\ Same(it)' => Same(it) /\ canon'[it.mem] = canon[it.mem]
                                    /\ jobs'[it.mem] = jobs[it.mem]
<1>1. it.mem \in Memories /\ it.job.seq \in Nat
  BY DEF Item, Job
<1>2. jobs[it.mem] \in Job /\ jobs[it.mem].seq \in Nat
  BY <1>1 DEF TypeOK, Kept, Job
<1>3. CASE canon'[it.mem] = canon[it.mem] /\ jobs'[it.mem] = jobs[it.mem]
  BY <1>3 DEF Kept, Same
<1>4. CASE Bumped(it.mem)
  <2>1. jobs'[it.mem] # NoJob /\ jobs'[it.mem].seq = jobs[it.mem].seq + 1
    BY <1>4, ProjectionAssumption DEF Bumped, NextSeq, Kept
  <2> QED BY <2>1, <1>1, <1>2 DEF Kept, Same
<1> QED BY <1>1, <1>3, <1>4 DEF Effect

LEMMA LagCommand ==
    ASSUME TypeOK, LagInv, Effect
    PROVE  LagInv'
<1> USE DEF LagInv
<1>1. UNCHANGED <<gen, rows, pc, wgen, todo, cur, seen>>
  BY DEF Effect, worker, locals
<1>2. cur \in Item /\ todo \subseteq Item
  BY DEF TypeOK
<1>3. SnapshotKept'
  BY <1>1, <1>2, BumpMoves DEF SnapshotKept
<1>4. HandKept'
  BY <1>1, <1>2, BumpMoves DEF HandKept
<1>5. RowsWritten'
  BY <1>1 DEF RowsWritten, RowsOf
<1>6. TombstonesStand'
  BY DEF TombstonesStand, Effect, Bumped, Onward
<1>7. LagTellsTruth'
  <2> SUFFICES ASSUME NEW m \in Memories, jobs'[m] = NoJob PROVE Converged(m)'
    BY DEF LagTellsTruth
  <2>1. ~Bumped(m)
    BY ProjectionAssumption DEF Bumped
  <2> QED BY <1>1, <2>1 DEF Effect, LagTellsTruth, Converged, RowsOf
<1> QED BY <1>1, <1>3, <1>4, <1>5, <1>6, <1>7

\* Whether a memory shows what it should depends on its own rows alone.
LEMMA RowsElsewhere ==
    ASSUME LagTellsTruth, UNCHANGED <<canon, jobs, gen>>,
           NEW k \in Memories, jobs[k] # NoJob,
           \A r \in rows \cup rows' : r.mem # k => (r \in rows <=> r \in rows')
    PROVE  LagTellsTruth'
BY DEF LagTellsTruth, Converged, RowsOf

LEMMA LagWorker ==
    ASSUME TypeOK, TypeOK', PhantomInv, LagInv, Worker \/ DriveFails \/ Kill
    PROVE  LagInv'
<1> USE DEF LagInv, InHand, Publishing, Deleting, store
<1>0. cur \in Item /\ cur.mem \in Memories /\ todo \subseteq Item
  BY DEF TypeOK, Item
<1>q. ASSUME UNCHANGED <<canon, jobs, gen, rows>>, wgen' = gen,
             pc' \in {"down", "idle", "list", "backfill", "enqueue"}
      PROVE  LagInv'
  BY <1>q DEF SnapshotKept, HandKept, RowsWritten, TombstonesStand, LagTellsTruth,
              Converged, RowsOf
<1>1. CASE StartProjection \/ BackfillRead \/ Wake \/ DriveFails \/ Kill
  BY <1>q, <1>1 DEF StartProjection, BackfillRead, Wake, DriveFails, Kill
<1>2. CASE BackfillEnqueue
  <2>1. UNCHANGED <<canon, gen, rows, wgen>> /\ pc' = "backfill"
    BY <1>2 DEF BackfillEnqueue
  <2>2. \A m \in Memories : \/ jobs'[m] = jobs[m]
                            \/ jobs'[m] # NoJob /\ ~jobs'[m].tomb
    <3>1. Pending(cur.mem, seen.rev) \in Job
      BY <1>0, PendingType DEF TypeOK, Memory
    <3> QED BY <1>2, <3>1, ProjectionAssumption DEF BackfillEnqueue, Pending, TypeOK
  <2>3. TombstonesStand'
    BY <2>1, <2>2 DEF TombstonesStand
  <2>4. LagTellsTruth'
    BY <2>1, <2>2 DEF LagTellsTruth, Converged, RowsOf
  <2> QED BY <2>1, <2>3, <2>4 DEF SnapshotKept, HandKept, RowsWritten
<1>3. CASE ListJobs
  <2>1. UNCHANGED <<canon, jobs, gen, rows, wgen>> /\ pc' \in {"idle", "pick"}
    BY <1>3 DEF ListJobs
  <2>2. \A it \in todo' : it.mem \in Memories /\ jobs[it.mem] # NoJob /\ it.job = jobs[it.mem]
    BY <1>3 DEF ListJobs
  <2>3. \A i, j \in todo' : i.mem = j.mem => i = j
    BY <1>3 DEF ListJobs
  <2>4. \A m \in Memories : jobs[m] # NoJob => jobs[m].seq \in Nat
    BY DEF TypeOK, Job
  <2>5. SnapshotKept'
    BY <2>1, <2>2, <2>3, <2>4 DEF SnapshotKept, Kept, Same
  <2>6. LagTellsTruth' /\ TombstonesStand'
    BY <2>1 DEF LagTellsTruth, TombstonesStand, Converged, RowsOf
  <2> QED BY <2>1, <2>5, <2>6 DEF HandKept, RowsWritten
<1>4. CASE EndPass
  BY <1>q, <1>4 DEF EndPass
<1>5. CASE ReadMemory
  <2>1. UNCHANGED <<canon, jobs, gen, rows, wgen>> /\ pc = "pick"
    BY <1>5 DEF ReadMemory
  <2>2. PICK it \in todo :
          /\ todo' = todo \ {it}
          /\ IF canon[it.mem].life = "live" /\ ~it.job.tomb /\ canon[it.mem].rev # it.job.rev
             THEN UNCHANGED <<cur, seen, pc>>
             ELSE /\ cur' = it
                  /\ seen' = canon[it.mem]
                  /\ pc' = IF canon[it.mem].life # "live" \/ it.job.tomb
                           THEN "delete" ELSE "publish"
    BY <1>5 DEF ReadMemory
  <2>3. Kept(it) /\ (Same(it) => jobs[it.mem] = it.job) /\ it.mem \in Memories
    BY <1>0, <2>1, <2>2 DEF SnapshotKept, Item
  <2>4. SnapshotKept'
    BY <2>1, <2>2 DEF SnapshotKept, Kept, Same
  <2>5. HandKept'
    BY <2>1, <2>2, <2>3 DEF HandKept, SnapshotKept, TombstonesStand, Kept, Same
  <2>6. RowsWritten' /\ LagTellsTruth' /\ TombstonesStand'
    BY <2>1, <2>2 DEF RowsWritten, LagTellsTruth, TombstonesStand, Converged, RowsOf
  <2> QED BY <2>1, <2>4, <2>5, <2>6
<1>6. CASE Publish
  <2>1. UNCHANGED <<canon, jobs, gen, rows, wgen, todo>> /\ pc = "publish"
    BY <1>6 DEF Publish
  <2>2. \/ pc' = "merge" /\ UNCHANGED <<cur, seen>>
        \/ pc' = "pick"
    BY <1>6 DEF Publish
  <2>3. SnapshotKept' /\ HandKept'
    BY <2>1, <2>2 DEF SnapshotKept, HandKept, Kept, Same
  <2>4. RowsWritten' /\ LagTellsTruth' /\ TombstonesStand'
    BY <2>1, <2>2 DEF RowsWritten, LagTellsTruth, TombstonesStand, Converged, RowsOf
  <2> QED BY <2>1, <2>3, <2>4
<1>7. CASE MergeRows
  <2>1. UNCHANGED <<canon, jobs, gen, wgen, todo, cur, seen>> /\ pc = "merge" /\ pc' = "cleanup"
    BY <1>7 DEF MergeRows, locals
  <2>2. rows' = {r \in rows : ~(SameGroup(r) /\ r.rev = seen.rev)} \cup
               {[mem |-> cur.mem, gen |-> wgen, rev |-> seen.rev,
                 conf |-> seen.conf, dense |-> dense]}
    BY <1>7 DEF MergeRows, RowInHand
  <2>3. SnapshotKept' /\ HandKept' /\ TombstonesStand'
    BY <2>1 DEF SnapshotKept, HandKept, TombstonesStand, Kept, Same
  <2>4. RowsWritten'
    <3> DEFINE new == [mem |-> cur.mem, gen |-> wgen, rev |-> seen.rev,
                       conf |-> seen.conf, dense |-> dense]
    <3>1. new \in rows' /\ new.mem = cur.mem /\ new.gen = gen
      BY <2>2
    <3>2. new.rev = seen.rev /\ new.conf = seen.conf
      OBVIOUS
    <3>3. \E r \in RowsOf(cur.mem)' : r.rev = seen'.rev /\ r.conf = seen'.conf
      BY <2>1, <3>1, <3>2 DEF RowsOf
    <3> QED BY <2>1, <3>3 DEF RowsWritten
  <2>5. LagTellsTruth'
    BY <1>0, <2>1, <2>2, RowsElsewhere DEF SameGroup, HandKept, Kept
  <2> QED BY <2>1, <2>3, <2>4, <2>5
<1>8. CASE RemoveOlder
  <2>1. UNCHANGED <<canon, jobs, gen, wgen, todo, cur, seen>> /\ pc = "cleanup" /\ pc' = "ack"
    BY <1>8 DEF RemoveOlder, locals
  <2>2. rows' = {r \in rows : ~(SameGroup(r) /\ r.rev < seen.rev)}
    BY <1>8 DEF RemoveOlder, Superseded
  <2>3. SnapshotKept' /\ HandKept' /\ TombstonesStand'
    BY <2>1 DEF SnapshotKept, HandKept, TombstonesStand, Kept, Same
  <2>4. RowsWritten'
    BY <2>1, <2>2, RevType DEF RowsWritten, RowsOf, SameGroup
  <2>5. LagTellsTruth'
    BY <1>0, <2>1, <2>2, RowsElsewhere DEF SameGroup, HandKept, Kept
  <2> QED BY <2>1, <2>3, <2>4, <2>5
<1>9. CASE DeleteRows
  <2>1. UNCHANGED <<canon, jobs, gen, wgen, todo, cur, seen>> /\ pc = "delete" /\ pc' = "ackDelete"
    BY <1>9 DEF DeleteRows, locals
  <2>2. rows' = {r \in rows : r.mem # cur.mem}
    BY <1>9 DEF DeleteRows
  <2>3. SnapshotKept' /\ HandKept' /\ TombstonesStand'
    BY <2>1 DEF SnapshotKept, HandKept, TombstonesStand, Kept, Same
  <2>4. RowsWritten'
    BY <2>1, <2>2 DEF RowsWritten, RowsOf
  <2>5. LagTellsTruth'
    BY <1>0, <2>1, <2>2, RowsElsewhere DEF HandKept, Kept
  <2> QED BY <2>1, <2>3, <2>4, <2>5
<1>10. CASE ResolveJob \/ AckDelete
  <2>1. UNCHANGED <<canon, gen, rows, wgen, todo>> /\ pc \in {"ack", "ackDelete"} /\ pc' = "pick"
    BY <1>10 DEF ResolveJob, AckDelete
  <2>2. \A m \in Memories : m # cur.mem => jobs'[m] = jobs[m]
    BY <1>10 DEF ResolveJob, AckDelete, Acknowledge, TypeOK
  <2>3. \/ jobs'[cur.mem] = NoJob /\ Same(cur)
        \/ jobs'[cur.mem] = jobs[cur.mem]
        \/ jobs'[cur.mem] # NoJob /\ ~jobs'[cur.mem].tomb
    <3>1. [rev |-> seen.rev, seq |-> cur.job.seq + 1, tomb |-> FALSE] \in Job
      BY DEF TypeOK, Item, Job, Memory
    <3>2. CASE Acknowledge(cur.mem, cur.job.seq)
      BY <1>0, <3>2 DEF Acknowledge, Acked, TypeOK, Same
    <3>3. CASE jobs' = [jobs EXCEPT ![cur.mem] =
                          [rev |-> seen.rev, seq |-> cur.job.seq + 1, tomb |-> FALSE]]
      BY <1>0, <3>1, <3>3, ProjectionAssumption DEF TypeOK
    <3> QED BY <1>10, <3>2, <3>3 DEF ResolveJob, AckDelete
  <2>4. SnapshotKept'
    <3>1. \A it \in todo : it.mem \in Memories /\ it.mem # cur.mem
      BY <1>0, <2>1 DEF HandKept, Item
    <3> QED BY <2>1, <2>2, <3>1 DEF SnapshotKept, Kept, Same
  <2>5. TombstonesStand'
    BY <2>1, <2>2, <2>3, <1>0 DEF TombstonesStand
  <2>6. Same(cur) => Converged(cur.mem)
    <3> SUFFICES ASSUME Same(cur) PROVE Converged(cur.mem)
      OBVIOUS
    <3>1. canon[cur.mem] = seen
      BY <2>1 DEF HandKept
    <3>2. \A r \in RowsOf(cur.mem) : r.rev <= seen.rev /\ r.rev \in Nat
      BY <1>0, <3>1, RevType DEF PhantomInv, NoPhantomRow, RowsOf
    <3>3. CASE pc = "ack"
      BY <3>1, <3>2, <3>3, RevType DEF HandKept, RowsWritten, Converged
    <3>4. CASE pc = "ackDelete"
      BY <3>1, <3>4 DEF HandKept, RowsWritten, Converged
    <3> QED BY <2>1, <3>3, <3>4
  <2>7. LagTellsTruth'
    <3> SUFFICES ASSUME NEW m \in Memories, jobs'[m] = NoJob PROVE Converged(m)'
      BY DEF LagTellsTruth
    <3>1. Converged(m)
      BY <2>2, <2>3, <2>6 DEF LagTellsTruth
    <3> QED BY <2>1, <3>1 DEF Converged, RowsOf
  <2> QED BY <2>1, <2>4, <2>5, <2>7 DEF HandKept, RowsWritten
<1> QED BY <1>1, <1>2, <1>3, <1>4, <1>5, <1>6, <1>7, <1>8, <1>9, <1>10 DEF Worker

LEMMA LagNext ==
    Backups = {} /\ TypeOK /\ PhantomInv /\ LagInv /\ [Next]_vars => LagInv'
<1> SUFFICES ASSUME Backups = {}, TypeOK, PhantomInv, LagInv, [Next]_vars PROVE LagInv'
  OBVIOUS
<1>1. ~Restoring
  BY DEF Restoring
<1>2. CASE Canonical
  BY <1>1, <1>2, CommandEffect, LagCommand
<1>3. CASE Worker \/ DriveFails \/ Kill
  BY <1>3, TypeNext, LagWorker
<1>4. CASE UNCHANGED vars
  BY <1>4 DEF vars, store, worker, locals, LagInv, SnapshotKept, HandKept, RowsWritten,
              TombstonesStand, LagTellsTruth, Converged, RowsOf, Kept, Same
<1> QED BY <1>2, <1>3, <1>4 DEF Next

\* Without restores, a memory with no pending job is shown as it is, whatever
\* the commands, crashes, failed table calls and failed embeddings between the
\* worker's read and its acknowledgement (with a restore it is not: the run
\* projection_restore_lag).
THEOREM LagSafety ==
    ASSUME Backups = {}
    PROVE  Spec => []LagTellsTruth
<1>1. Init => TypeOK /\ PhantomInv /\ LagInv
  BY TypeInit, PhantomInit, LagInit
<1>2. TypeOK /\ PhantomInv /\ LagInv /\ [Next]_vars => (TypeOK /\ PhantomInv /\ LagInv)'
  BY TypeNext, PhantomNext, LagNext
<1>3. LagInv => LagTellsTruth
  BY DEF LagInv
<1> QED BY <1>1, <1>2, <1>3, PTL DEF Spec

-----------------------------------------------------------------------------
(* Power failures: the specification with a disk.                          *)

\* No command has overtaken the disk, which holds no job for the memory.
Settled(m) == ~unflushed /\ disk.jobs[m] = NoJob

\* Nothing is on the way to the disk but acknowledgements.
DiskIsCurrent == ~unflushed => disk.canon = canon

\* The image is one moment of the store: its jobs ask for what its memories are.
DiskTombstonesStand ==
    \A m \in Memories :
        disk.jobs[m] # NoJob /\ disk.jobs[m].tomb => disk.canon[m].life = "gone"

DiskJobIsCurrent ==
    \A m \in Memories :
        disk.jobs[m] # NoJob /\ disk.canon[m].life = "live" =>
            disk.jobs[m].rev = disk.canon[m].rev

\* Of a settled memory the worker has nothing but what is canonical: its slot
\* has not moved since the worker took the job.
SettledInHand ==
    \A m \in Memories : Settled(m) =>
        /\ pc \in InHand \cup {"pick"} => \A it \in todo : it.mem = m => Same(it)
        /\ pc \in InHand /\ cur.mem = m => Same(cur)

DiskTypes ==
    /\ disk \in [canon : [Memories -> Memory], jobs : [Memories -> Job \cup {NoJob}]]
    /\ unflushed \in BOOLEAN

\* A step of DurableNext is one of Next that leaves the disk, or one of the two
\* that the disk adds.
LEMMA DurableSteps ==
    ASSUME [DurableNext]_durableVars
    PROVE  \/ Canonical /\ unflushed' /\ disk' = disk
           \/ (Worker \/ DriveFails \/ Kill) /\ UNCHANGED <<disk, unflushed>>
           \/ Flush
           \/ PowerLoss
           \/ UNCHANGED vars /\ UNCHANGED <<disk, unflushed>>
BY DEF DurableNext, durableVars, Command, WorkerStep, Failure

\* What a power failure leaves.
LEMMA AfterPowerLoss ==
    ASSUME PowerLoss
    PROVE  /\ canon' = disk.canon /\ jobs' = disk.jobs /\ pc' = "down" /\ todo' = {}
           /\ UNCHANGED <<gen, rows, wgen, disk>> /\ ~unflushed'
           /\ unflushed => LoseCommands
BY DEF PowerLoss

LEMMA DurableTypeStep ==
    ASSUME TypeOK, DiskTypes, [DurableNext]_durableVars
    PROVE  TypeOK' /\ DiskTypes'
<1>1. CASE Canonical /\ unflushed' /\ disk' = disk
  <2>1. unflushed' \in BOOLEAN
    BY <1>1 DEF DurableNext, durableVars, Command, WorkerStep, Failure, Flush, PowerLoss,
                DiskTypes
  <2> QED BY <1>1, <2>1, TypeCanonical DEF DiskTypes
<1>2. CASE (Worker \/ DriveFails \/ Kill) /\ UNCHANGED <<disk, unflushed>>
  BY <1>2, TypeWorker DEF DiskTypes
<1>3. CASE Flush
  <2>1. UNCHANGED vars /\ disk' = Image /\ unflushed' = FALSE
    BY <1>3 DEF Flush
  <2>2. Image \in [canon : [Memories -> Memory], jobs : [Memories -> Job \cup {NoJob}]]
    BY DEF Image, TypeOK
  <2> QED BY <2>1, <2>2, TypeNext DEF DiskTypes
<1>4. CASE PowerLoss
  <2>1. pc' \in PCs /\ progress' \in BOOLEAN /\ todo' \subseteq Item
    BY <1>4 DEF PowerLoss, PCs
  <2>2. canon' \in [Memories -> Memory] /\ jobs' \in [Memories -> Job \cup {NoJob}]
    BY <1>4 DEF PowerLoss, DiskTypes
  <2>3. cur' \in Item /\ seen' \in Memory /\ dense' \in BOOLEAN
    BY <1>4, DroppedType DEF PowerLoss
  <2>4. /\ UNCHANGED <<gen, rows, lexical, wgen, commits, embedFails, disk>>
        /\ faults' = faults + 1 /\ unflushed' = FALSE
    BY <1>4 DEF PowerLoss
  <2>5. DiskTypes'
    BY <2>4 DEF DiskTypes
  <2>6. /\ gen' \in Nat /\ rows' \subseteq Row /\ lexical' \in BOOLEAN /\ wgen' \in Nat
        /\ commits' \in Nat /\ embedFails' \in Nat
    BY <2>4 DEF TypeOK
  <2>7. faults' \in Nat
    BY <2>4 DEF TypeOK
  <2>8. TypeOK'
    BY <2>1, <2>2, <2>3, <2>6, <2>7 DEF TypeOK
  <2> QED BY <2>5, <2>8
<1>5. CASE UNCHANGED vars /\ UNCHANGED <<disk, unflushed>>
  BY <1>5, TypeNext DEF DiskTypes
<1> QED BY <1>1, <1>2, <1>3, <1>4, <1>5, DurableSteps

LEMMA WorkerLeavesMemories ==
    ASSUME Worker \/ DriveFails \/ Kill
    PROVE  UNCHANGED <<canon, gen>>
BY DEF Worker, StartProjection, BackfillRead, BackfillEnqueue, Wake, ListJobs, ReadMemory,
       EndPass, Publish, MergeRows, RemoveOlder, ResolveJob, DeleteRows, AckDelete,
       DriveFails, Kill, store

LEMMA CurrentStep ==
    ASSUME DiskIsCurrent, [DurableNext]_durableVars
    PROVE  DiskIsCurrent'
<1>1. CASE (Worker \/ DriveFails \/ Kill) /\ UNCHANGED <<disk, unflushed>>
  BY <1>1, WorkerLeavesMemories DEF DiskIsCurrent
<1>2. CASE Flush
  BY <1>2 DEF Flush, Image, DiskIsCurrent, vars, store
<1>3. CASE PowerLoss
  BY <1>3, AfterPowerLoss DEF DiskIsCurrent
<1> QED BY <1>1, <1>2, <1>3, DurableSteps DEF DiskIsCurrent, vars, store

LEMMA DiskTombstonesStep ==
    ASSUME TombstonesStand, DiskTombstonesStand, [DurableNext]_durableVars
    PROVE  DiskTombstonesStand'
<1>1. CASE Flush
  BY <1>1 DEF Flush, Image, TombstonesStand, DiskTombstonesStand
<1>2. CASE PowerLoss
  BY <1>2, AfterPowerLoss DEF DiskTombstonesStand
<1> QED BY <1>1, <1>2, DurableSteps DEF DiskTombstonesStand

LEMMA DiskJobStep ==
    ASSUME PendingJobIsCurrent, DiskJobIsCurrent, [DurableNext]_durableVars
    PROVE  DiskJobIsCurrent'
<1>1. CASE Flush
  BY <1>1 DEF Flush, Image, PendingJobIsCurrent, DiskJobIsCurrent
<1>2. CASE PowerLoss
  BY <1>2, AfterPowerLoss DEF DiskJobIsCurrent
<1> QED BY <1>1, <1>2, DurableSteps DEF DiskJobIsCurrent

LEMMA DurablePhantomStep ==
    ASSUME LoseCommands = FALSE, TypeOK, PhantomInv, DiskIsCurrent,
           [DurableNext]_durableVars
    PROVE  PhantomInv'
<1>1. CASE PowerLoss
  <2>1. UNCHANGED <<canon, gen, rows, wgen>> /\ pc' = "down"
    BY <1>1, AfterPowerLoss DEF DiskIsCurrent
  <2> QED BY <2>1 DEF PhantomInv, NotOfTheFuture, WriteIsCovered, NoPhantomRow, RowsOf
<1>2. CASE ~PowerLoss
  <2>1. [Next]_vars
    BY <1>2, DurableSteps DEF Next, Flush
  <2> QED BY <2>1, PhantomNext
<1> QED BY <1>1, <1>2

\* What the worker does to a settled memory leaves it converged: what is in hand
\* is canonical, so that a row is merged beside its like, none is older, and rows
\* are deleted only of what is not live.
LEMMA SettledWorker ==
    ASSUME TypeOK, LagInv, SettledInHand, AckLossIsHarmless,
           Worker \/ DriveFails \/ Kill, UNCHANGED <<disk, unflushed>>
    PROVE  SettledInHand' /\ AckLossIsHarmless'
<1> USE DEF InHand, Publishing, Deleting, store
<1>0. /\ cur \in Item /\ cur.mem \in Memories /\ todo \subseteq Item
      /\ \A it \in todo : it.mem \in Memories
  BY DEF TypeOK, Item
<1>a. \A m \in Memories : Settled(m)' <=> Settled(m)
  BY DEF Settled
<1>b. UNCHANGED <<canon, gen>>
  BY WorkerLeavesMemories
<1>c. ASSUME rows' = rows PROVE AckLossIsHarmless'
  BY <1>b, <1>c DEF AckLossIsHarmless, Converged, RowsOf
<1>d. ASSUME UNCHANGED <<jobs, cur>>, todo' \subseteq todo, pc \in InHand \cup {"pick"},
             pc' \in InHand => pc \in InHand
      PROVE  SettledInHand'
  BY <1>a, <1>d DEF SettledInHand, Same
<1>e. ASSUME pc' \notin InHand \cup {"pick"} PROVE SettledInHand'
  BY <1>e DEF SettledInHand
<1>f. ASSUME NEW m \in Memories, Settled(m), pc \in InHand, cur.mem = m
      PROVE  canon[m] = seen
  BY <1>f, <1>0 DEF SettledInHand, LagInv, HandKept
<1>g. ASSUME NEW m \in Memories, m # cur.mem, Settled(m),
             \A r \in rows \cup rows' : r.mem # cur.mem => (r \in rows <=> r \in rows')
      PROVE  Converged(m)'
  <2>1. Converged(m)
    BY <1>g DEF AckLossIsHarmless, Settled
  <2> QED BY <1>b, <1>g, <2>1 DEF Converged, RowsOf
<1>h. ASSUME \A m \in Memories : Settled(m) => Converged(m)' PROVE AckLossIsHarmless'
  BY <1>a, <1>h DEF AckLossIsHarmless, Settled
<1>1. CASE StartProjection \/ BackfillRead \/ Wake \/ DriveFails \/ Kill
  <2>1. pc' \notin InHand \cup {"pick"} /\ rows' = rows
    BY <1>1 DEF StartProjection, BackfillRead, Wake, DriveFails, Kill
  <2> QED BY <2>1, <1>c, <1>e
<1>2. CASE BackfillEnqueue
  <2>1. pc' \notin InHand \cup {"pick"} /\ rows' = rows
    BY <1>2 DEF BackfillEnqueue
  <2> QED BY <2>1, <1>c, <1>e
<1>3. CASE ListJobs
  <2>1. rows' = rows /\ jobs' = jobs /\ pc' \notin InHand
    BY <1>3 DEF ListJobs
  <2>2. \A it \in todo' : it.job = jobs[it.mem]
    BY <1>3 DEF ListJobs
  <2> QED BY <2>1, <2>2, <1>c DEF SettledInHand, Same
<1>4. CASE EndPass
  <2>1. pc' \notin InHand \cup {"pick"} /\ rows' = rows
    BY <1>4 DEF EndPass
  <2> QED BY <2>1, <1>c, <1>e
<1>5. CASE ReadMemory
  <2>1. UNCHANGED <<jobs, rows>> /\ pc = "pick"
    BY <1>5 DEF ReadMemory
  <2>2. PICK it \in todo :
          /\ todo' = todo \ {it}
          /\ \/ UNCHANGED <<cur, pc>>
             \/ cur' = it
    BY <1>5 DEF ReadMemory
  <2>3. SettledInHand'
    BY <1>0, <1>a, <2>1, <2>2 DEF SettledInHand, Same
  <2> QED BY <2>1, <2>3, <1>c
<1>6. CASE Publish
  <2>1. UNCHANGED <<jobs, rows, todo>> /\ pc = "publish"
    BY <1>6 DEF Publish
  <2>2. \/ pc' = "merge" /\ cur' = cur
        \/ pc' = "pick"
    BY <1>6 DEF Publish
  <2>3. SettledInHand'
    BY <1>a, <2>1, <2>2 DEF SettledInHand, Same
  <2> QED BY <2>1, <2>3, <1>c
<1>7. CASE MergeRows
  <2> DEFINE new == [mem |-> cur.mem, gen |-> wgen, rev |-> seen.rev,
                     conf |-> seen.conf, dense |-> dense]
  <2>1. UNCHANGED <<jobs, wgen, todo, cur, seen>> /\ pc = "merge" /\ pc' = "cleanup"
    BY <1>7 DEF MergeRows, locals
  <2>2. rows' = {r \in rows : ~(SameGroup(r) /\ r.rev = seen.rev)} \cup {new}
    BY <1>7 DEF MergeRows, RowInHand
  <2>3. ASSUME NEW m \in Memories, Settled(m) PROVE Converged(m)'
    <3>1. CASE m # cur.mem
      <4>1. \A r \in rows \cup rows' : r.mem # cur.mem => (r \in rows <=> r \in rows')
        BY <2>2 DEF SameGroup
      <4> QED BY <2>3, <3>1, <4>1, <1>g
    <3>2. CASE m = cur.mem
      <4>1. canon[m] = seen /\ seen.life = "live"
        BY <2>1, <2>3, <3>2, <1>f DEF LagInv, HandKept
      <4>2. \A r \in RowsOf(m) : r.rev = canon[m].rev
        BY <2>3 DEF AckLossIsHarmless, Settled, Converged
      <4>3. new \in rows' /\ new.mem = m /\ new.gen = gen
            /\ new.rev = seen.rev /\ new.conf = seen.conf
        BY <2>2, <3>2 DEF LagInv
      <4> HIDE DEF new
      <4>4. new \in RowsOf(m)'
        BY <4>3, <1>b DEF RowsOf
      <4>5. \A r \in RowsOf(m)' : r = new \/ r \in RowsOf(m)
        BY <2>2, <1>b DEF RowsOf
      <4> QED BY <1>b, <4>1, <4>2, <4>3, <4>4, <4>5 DEF Converged
    <3> QED BY <3>1, <3>2
  <2>4. SettledInHand'
    BY <1>d, <2>1
  <2> QED BY <2>3, <2>4, <1>h
<1>8. CASE RemoveOlder
  <2>1. UNCHANGED <<jobs, wgen, todo, cur, seen>> /\ pc = "cleanup" /\ pc' = "ack"
    BY <1>8 DEF RemoveOlder, locals
  <2>2. rows' = {r \in rows : ~(SameGroup(r) /\ r.rev < seen.rev)}
    BY <1>8 DEF RemoveOlder, Superseded
  <2>3. ASSUME NEW m \in Memories, Settled(m) PROVE Converged(m)'
    <3>1. CASE m # cur.mem
      <4>1. \A r \in rows \cup rows' : r.mem # cur.mem => (r \in rows <=> r \in rows')
        BY <2>2 DEF SameGroup
      <4> QED BY <2>3, <3>1, <4>1, <1>g
    <3>2. CASE m = cur.mem
      <4>1. canon[m] = seen
        BY <2>1, <2>3, <3>2, <1>f
      <4>2. Converged(m)
        BY <2>3 DEF AckLossIsHarmless, Settled
      <4>3. \A r \in RowsOf(m) : r.rev = seen.rev
        BY <4>1, <4>2 DEF Converged
      <4>4. RowsOf(m)' = RowsOf(m)
        BY <2>2, <3>2, <4>3, <1>b, RevType DEF RowsOf, LagInv
      <4> QED BY <4>2, <4>4, <1>b DEF Converged
    <3> QED BY <3>1, <3>2
  <2>4. SettledInHand'
    BY <1>d, <2>1
  <2> QED BY <2>3, <2>4, <1>h
<1>9. CASE DeleteRows
  <2>1. UNCHANGED <<jobs, wgen, todo, cur, seen>> /\ pc = "delete" /\ pc' = "ackDelete"
    BY <1>9 DEF DeleteRows, locals
  <2>2. rows' = {r \in rows : r.mem # cur.mem}
    BY <1>9 DEF DeleteRows
  <2>3. ASSUME NEW m \in Memories, Settled(m) PROVE Converged(m)'
    <3>1. CASE m # cur.mem
      <4>1. \A r \in rows \cup rows' : r.mem # cur.mem => (r \in rows <=> r \in rows')
        BY <2>2
      <4> QED BY <2>3, <3>1, <4>1, <1>g
    <3>2. CASE m = cur.mem
      <4>1. canon[m].life # "live"
        BY <2>1, <2>3, <3>2, <1>f DEF SettledInHand, LagInv, HandKept
      <4>2. RowsOf(m)' = {}
        BY <2>2, <3>2 DEF RowsOf
      <4> QED BY <4>1, <4>2, <1>b DEF Converged
    <3> QED BY <3>1, <3>2
  <2>4. SettledInHand'
    BY <1>d, <2>1
  <2> QED BY <2>3, <2>4, <1>h
<1>10. CASE ResolveJob \/ AckDelete
  <2>1. UNCHANGED <<rows, todo>> /\ pc \in {"ack", "ackDelete"} /\ pc' = "pick"
    BY <1>10 DEF ResolveJob, AckDelete
  <2>2. \A m \in Memories : m # cur.mem => jobs'[m] = jobs[m]
    BY <1>10 DEF ResolveJob, AckDelete, Acknowledge, TypeOK
  <2>3. \A it \in todo : it.mem # cur.mem
    BY <2>1 DEF LagInv, HandKept
  <2>4. SettledInHand'
    BY <1>0, <1>a, <2>1, <2>2, <2>3 DEF SettledInHand, Same
  <2> QED BY <2>1, <2>4, <1>c
<1> QED BY <1>1, <1>2, <1>3, <1>4, <1>5, <1>6, <1>7, <1>8, <1>9, <1>10 DEF Worker

LEMMA SettledStep ==
    ASSUME TypeOK, LagInv, SettledInHand, AckLossIsHarmless, DiskIsCurrent,
           LoseCommands = FALSE, [DurableNext]_durableVars
    PROVE  SettledInHand' /\ AckLossIsHarmless'
<1>1. CASE Canonical /\ unflushed' /\ disk' = disk
  BY <1>1 DEF SettledInHand, AckLossIsHarmless, Settled
<1>2. CASE (Worker \/ DriveFails \/ Kill) /\ UNCHANGED <<disk, unflushed>>
  BY <1>2, SettledWorker
<1>3. CASE Flush
  <2>1. disk'.jobs = jobs /\ UNCHANGED vars
    BY <1>3 DEF Flush, Image
  <2>2. UNCHANGED <<canon, jobs, gen, rows, pc, todo, cur>>
    BY <2>1 DEF vars, store, worker, locals
  <2>3. AckLossIsHarmless'
    BY <2>1, <2>2 DEF AckLossIsHarmless, LagInv, LagTellsTruth, Converged, RowsOf
  <2>4. SettledInHand'
    BY <2>1, <2>2 DEF SettledInHand, Settled, LagInv, SnapshotKept, HandKept, Kept
  <2> QED BY <2>3, <2>4
<1>4. CASE PowerLoss
  <2>1. UNCHANGED <<canon, gen, rows, disk>> /\ pc' = "down" /\ ~unflushed /\ ~unflushed'
    BY <1>4, AfterPowerLoss DEF DiskIsCurrent
  <2> QED BY <2>1 DEF SettledInHand, InHand, Publishing, Deleting, AckLossIsHarmless,
                      Converged, RowsOf
<1>5. CASE UNCHANGED vars /\ UNCHANGED <<disk, unflushed>>
  BY <1>5 DEF vars, store, worker, locals, SettledInHand, Settled, Same, AckLossIsHarmless,
              Converged, RowsOf
<1> QED BY <1>1, <1>2, <1>3, <1>4, <1>5, DurableSteps

LEMMA DurableLagStep ==
    ASSUME Backups = {}, LoseCommands = FALSE, TypeOK, PhantomInv, LagInv, DiskIsCurrent,
           DiskTombstonesStand, AckLossIsHarmless, [DurableNext]_durableVars
    PROVE  LagInv'
<1>1. CASE PowerLoss
  <2>1. /\ UNCHANGED <<canon, gen, rows, wgen>> /\ pc' = "down" /\ ~unflushed
        /\ disk.canon = canon /\ jobs' = disk.jobs
    BY <1>1, AfterPowerLoss DEF DiskIsCurrent
  <2>2. TombstonesStand'
    BY <2>1 DEF DiskTombstonesStand, TombstonesStand
  <2>3. LagTellsTruth'
    BY <2>1 DEF AckLossIsHarmless, LagTellsTruth, Converged, RowsOf
  <2>4. SnapshotKept' /\ HandKept' /\ RowsWritten'
    BY <2>1 DEF SnapshotKept, HandKept, RowsWritten, InHand, Publishing, Deleting
  <2> QED BY <2>1, <2>2, <2>3, <2>4 DEF LagInv
<1>2. CASE ~PowerLoss
  <2>1. [Next]_vars
    BY <1>2, DurableSteps DEF Next, Flush
  <2> QED BY <2>1, LagNext
<1> QED BY <1>1, <1>2

LEMMA DurablePendingStep ==
    ASSUME MaxEmbedFails = 0, TypeOK, PendingInv, DiskJobIsCurrent, [DurableNext]_durableVars
    PROVE  PendingInv'
<1>1. CASE PowerLoss
  BY <1>1, AfterPowerLoss DEF PendingInv, PendingJobIsCurrent, DiskJobIsCurrent
<1>2. CASE ~PowerLoss
  <2>1. [Next]_vars
    BY <1>2, DurableSteps DEF Next, Flush
  <2> QED BY <2>1, PendingNext
<1> QED BY <1>1, <1>2

\* What a restart of the machine finds: the image.
LEMMA DurableStart ==
    DurableInit => /\ TypeOK /\ DiskTypes /\ PhantomInv /\ LagInv /\ PendingInv
                   /\ DiskIsCurrent /\ DiskTombstonesStand /\ DiskJobIsCurrent
                   /\ SettledInHand /\ AckLossIsHarmless
<1> SUFFICES ASSUME DurableInit
             PROVE  /\ TypeOK /\ DiskTypes /\ PhantomInv /\ LagInv /\ PendingInv
                    /\ DiskIsCurrent /\ DiskTombstonesStand /\ DiskJobIsCurrent
                    /\ SettledInHand /\ AckLossIsHarmless
  OBVIOUS
<1>1. TypeOK /\ PhantomInv /\ LagInv /\ PendingInv
  BY TypeInit, PhantomInit, LagInit, PendingInit DEF DurableInit
<1>2. disk = [canon |-> canon, jobs |-> jobs] /\ unflushed = FALSE
  BY DEF DurableInit, Image
<1>3. DiskTypes
  BY <1>1, <1>2 DEF DiskTypes, TypeOK
<1>4. DiskIsCurrent /\ DiskTombstonesStand /\ DiskJobIsCurrent
  BY <1>1, <1>2 DEF DiskIsCurrent, DiskTombstonesStand, DiskJobIsCurrent, LagInv,
                    TombstonesStand, PendingInv, PendingJobIsCurrent
<1>5. AckLossIsHarmless
  BY <1>1, <1>2 DEF AckLossIsHarmless, LagInv, LagTellsTruth
<1>6. pc = "idle"
  BY DEF DurableInit, Init
<1>7. SettledInHand
  BY <1>6 DEF SettledInHand, InHand, Publishing, Deleting
<1> QED BY <1>1, <1>3, <1>4, <1>5, <1>7

\* Power failures after a barrier, kills and failed calls at any moment lose no
\* job: the worker's acknowledgements are not flushed, and a power failure only
\* brings jobs back.  A memory the disk has no job for is shown as it is, and so
\* is one the store has no job for (with LoseCommands it is not: README).
THEOREM AckLossSafety ==
    ASSUME Backups = {}, LoseCommands = FALSE
    PROVE  DurableSpec => []NothingIsLost
<1> DEFINE Inv == /\ TypeOK /\ DiskTypes /\ PhantomInv /\ LagInv
                  /\ DiskIsCurrent /\ DiskTombstonesStand /\ SettledInHand /\ AckLossIsHarmless
<1>1. DurableInit => Inv
  BY DurableStart
<1>2. Inv /\ [DurableNext]_durableVars => Inv'
  <2> SUFFICES ASSUME Inv, [DurableNext]_durableVars PROVE Inv'
    OBVIOUS
  <2>1. TypeOK' /\ DiskTypes'
    BY DurableTypeStep
  <2>2. PhantomInv' /\ LagInv'
    BY DurablePhantomStep, DurableLagStep
  <2>3. DiskIsCurrent'
    BY CurrentStep
  <2>4. DiskTombstonesStand'
    BY DiskTombstonesStep DEF LagInv
  <2>5. SettledInHand' /\ AckLossIsHarmless'
    BY SettledStep
  <2> QED BY <2>1, <2>2, <2>3, <2>4, <2>5
<1>3. Inv => NothingIsLost
  BY DEF LagInv, NothingIsLost
<1> QED BY <1>1, <1>2, <1>3, PTL DEF DurableSpec

\* The job of a live memory asks for its current revision across power failures
\* too, wherever they fall, because memories and jobs are in one journal.
THEOREM PendingSurvivesPowerLoss ==
    ASSUME MaxEmbedFails = 0
    PROVE  DurableSpec => []PendingJobIsCurrent
<1> DEFINE Inv == TypeOK /\ DiskTypes /\ PendingInv /\ DiskJobIsCurrent
<1>1. DurableInit => Inv
  BY DurableStart
<1>2. Inv /\ [DurableNext]_durableVars => Inv'
  <2> SUFFICES ASSUME Inv, [DurableNext]_durableVars PROVE Inv'
    OBVIOUS
  <2>1. TypeOK' /\ DiskTypes'
    BY DurableTypeStep
  <2>2. PendingInv'
    BY DurablePendingStep
  <2>3. DiskJobIsCurrent'
    BY DiskJobStep DEF PendingInv
  <2> QED BY <2>1, <2>2, <2>3
<1>3. Inv => PendingJobIsCurrent
  BY DEF PendingInv
<1> QED BY <1>1, <1>2, <1>3, PTL DEF DurableSpec

\* Nor do readers see a phantom row after a power failure, with restores.
THEOREM PhantomSurvivesPowerLoss ==
    ASSUME LoseCommands = FALSE
    PROVE  DurableSpec => []NoPhantomRow
<1> DEFINE Inv == TypeOK /\ DiskTypes /\ PhantomInv /\ DiskIsCurrent
<1>1. DurableInit => Inv
  BY DurableStart
<1>2. Inv /\ [DurableNext]_durableVars => Inv'
  <2> SUFFICES ASSUME Inv, [DurableNext]_durableVars PROVE Inv'
    OBVIOUS
  <2>1. TypeOK' /\ DiskTypes'
    BY DurableTypeStep
  <2>2. PhantomInv'
    BY DurablePhantomStep
  <2>3. DiskIsCurrent'
    BY CurrentStep
  <2> QED BY <2>1, <2>2, <2>3
<1>3. Inv => NoPhantomRow
  BY DEF PhantomInv
<1> QED BY <1>1, <1>2, <1>3, PTL DEF DurableSpec

(***************************************************************************)
(* The generations.                                                        *)
(***************************************************************************)

\* OneActiveOnePipeline without counting.  It is inductive together with the
\* types: a staging looks for open records before it makes one, and whoever
\* moves the pointer retires the record it leaves.
RecordsAgree ==
    /\ \A g \in Gens : Has(g, {"active"}) => g = pointer
    /\ recs[pointer] # Nothing => recs[pointer].status = "active"
    /\ \A g, h \in Pipeline : g = h

\* The builder has nothing in hand that its snapshot does not have.
SnapshotCovers == \A m \in build.todo \cup build.checked : build.snap[m] # Nothing

Records == [Gens -> GenerationRecord \cup {Nothing}]

-----------------------------------------------------------------------------
(* Lemmas on the operators.                                                *)

\* MaxOf chooses what it should: a set of generations has a highest one.
LEMMA Highest ==
    ASSUME NEW S \in SUBSET Gens, S # {}
    PROVE  MaxOf(S) \in S /\ \A y \in S : y <= MaxOf(S)
<1> DEFINE below == {MaxGens - x : x \in S}
           order == OpToRel(<, Nat)
<1>1. MaxGens \in Nat /\ \A x \in S : x \in Nat /\ x <= MaxGens
  BY GenerationsAssumption DEF Gens
<1>2. below \subseteq Nat /\ below # {}
  BY <1>1
<1>3. IsWellFoundedOn(order, Nat)
  BY NatLessThanWellFounded
<1> HIDE DEF order
<1>4. PICK d \in below : \A e \in below : ~(<<e, d>> \in order)
  BY <1>2, <1>3, WFMin
<1>5. \A e \in below : ~(e < d)
  BY <1>2, <1>4 DEF order, OpToRel
<1>6. PICK x \in S : d = MaxGens - x
  BY <1>4
<1>7. ASSUME NEW y \in S PROVE y <= x
  <2>1. ~(MaxGens - y < MaxGens - x)
    BY <1>5, <1>6
  <2> QED BY <1>1, <2>1
<1> QED BY <1>7 DEF MaxOf

LEMMA CountType == ASSUME NEW S, S \subseteq Mems PROVE Cardinality(S) \in Nat
BY GenerationsAssumption, FS_Subset, FS_CardinalityType

LEMMA DesiredType == Desired \in Nat
BY CountType DEF Desired, Recallable

LEMMA NoBuildType == NoBuild \in Build
BY GenerationsAssumption DEF NoBuild, Build, Gens

\* What a record is once one knows that there is one.
LEMMA RecordType ==
    ASSUME GenTypeOK, NEW g \in Gens, recs[g] # Nothing
    PROVE  recs[g] \in GenerationRecord
BY DEF GenTypeOK

LEMMA RecordFields ==
    ASSUME NEW r \in GenerationRecord, NEW status \in Open \cup {"active", "retired"},
           NEW projected \in Nat, NEW dirty \in BOOLEAN
    PROVE  /\ [r EXCEPT !.status = status] \in GenerationRecord
           /\ [r EXCEPT !.status = status].status = status
           /\ [r EXCEPT !.dirty = dirty] \in GenerationRecord
           /\ [r EXCEPT !.dirty = dirty].status = r.status
           /\ r # Nothing
BY GenerationsNothing DEF GenerationRecord

\* Marking the build dirty changes no status.
LEMMA DirtyKeeps ==
    ASSUME GenTypeOK, MarkBuildDirty
    PROVE  /\ recs' \in Records
           /\ \A g \in Gens : /\ recs'[g] # Nothing <=> recs[g] # Nothing
                              /\ recs[g] # Nothing => recs'[g].status = recs[g].status
<1> SUFFICES ASSUME NEW g \in Gens
    PROVE  /\ recs'[g] \in GenerationRecord \cup {Nothing}
           /\ recs'[g] # Nothing <=> recs[g] # Nothing
           /\ recs[g] # Nothing => recs'[g].status = recs[g].status
  BY DEF MarkBuildDirty, Records
<1>1. recs'[g] = IF Has(g, Open) THEN [recs[g] EXCEPT !.dirty = TRUE] ELSE recs[g]
  BY DEF MarkBuildDirty
<1>2. CASE Has(g, Open)
  <2>1. recs[g] \in GenerationRecord
    BY <1>2, RecordType DEF Has
  <2>2. /\ [recs[g] EXCEPT !.dirty = TRUE] \in GenerationRecord
        /\ [recs[g] EXCEPT !.dirty = TRUE].status = recs[g].status
    BY <2>1 DEF GenerationRecord
  <2> QED BY <1>1, <1>2, <2>1, <2>2, GenerationsNothing
<1>3. CASE ~Has(g, Open)
  BY <1>1, <1>3 DEF GenTypeOK
<1> QED BY <1>2, <1>3

\* Retiring changes no other status.
LEMMA RetiredKeeps ==
    ASSUME GenTypeOK, NEW statuses
    PROVE  /\ Retired(statuses) \in Records
           /\ \A g \in Gens :
                IF Has(g, statuses) THEN /\ Retired(statuses)[g] # Nothing
                                         /\ Retired(statuses)[g].status = "retired"
                ELSE Retired(statuses)[g] = recs[g]
<1> SUFFICES ASSUME NEW g \in Gens
    PROVE  /\ Retired(statuses)[g] \in GenerationRecord \cup {Nothing}
           /\ IF Has(g, statuses) THEN /\ Retired(statuses)[g] # Nothing
                                       /\ Retired(statuses)[g].status = "retired"
              ELSE Retired(statuses)[g] = recs[g]
  BY DEF Retired, Records
<1>1. Retired(statuses)[g] =
        IF Has(g, statuses) THEN [recs[g] EXCEPT !.status = "retired"] ELSE recs[g]
  BY DEF Retired
<1>2. CASE Has(g, statuses)
  <2>1. recs[g] \in GenerationRecord
    BY <1>2, RecordType DEF Has
  <2>2. /\ [recs[g] EXCEPT !.status = "retired"] \in GenerationRecord
        /\ [recs[g] EXCEPT !.status = "retired"].status = "retired"
    BY <2>1 DEF GenerationRecord
  <2> QED BY <1>1, <1>2, <2>2, GenerationsNothing
<1>3. CASE ~Has(g, statuses)
  BY <1>1, <1>3 DEF GenTypeOK
<1> QED BY <1>2, <1>3

LEMMA PublishedType ==
    ASSUME GenTypeOK, NEW g \in Gens, NEW m \in Mems, NEW doc \in Doc
    PROVE  Published(g, m, doc) \subseteq TableRow
BY DEF GenTypeOK, Published, TableRow

\* The active generation is the pointer's while records and pointer agree.
LEMMA ActiveIsPointer ==
    ASSUME GenTypeOK, RecordsAgree
    PROVE  Active = pointer /\ Active \in Gens
<1> DEFINE marked == {g \in Gens : Has(g, {"active"})}
<1>1. marked \subseteq {pointer}
  BY DEF RecordsAgree
<1>2. CASE marked = {}
  BY <1>2 DEF Active, GenTypeOK
<1>3. CASE marked # {}
  <2>1. marked = {pointer}
    BY <1>1, <1>3
  <2>2. MaxOf({pointer}) = pointer
    BY DEF MaxOf, GenTypeOK, Gens
  <2> QED BY <1>3, <2>1, <2>2 DEF Active, GenTypeOK
<1> QED BY <1>2, <1>3

\* A predecessor that is left has a record, and a retired one.
LEMMA PredecessorRetires ==
    ASSUME GenTypeOK, RecordsAgree
    PROVE  Predecessor \in GenerationRecord /\ Predecessor.status = "retired"
<1>1. CASE recs[Active] = Nothing
  BY <1>1 DEF Predecessor, GenerationRecord
<1>2. CASE recs[Active] # Nothing
  <2>1. recs[Active] \in GenerationRecord
    BY <1>2, ActiveIsPointer, RecordType
  <2> QED BY <1>2, <2>1 DEF Predecessor, GenerationRecord
<1> QED BY <1>1, <1>2

-----------------------------------------------------------------------------
(* Types and records, action by action.                                    *)

LEMMA InitStep == GenInit => GenTypeOK /\ RecordsAgree
<1> SUFFICES ASSUME GenInit PROVE GenTypeOK /\ RecordsAgree
  OBVIOUS
<1>1. 1 \in Gens
  BY GenerationsAssumption DEF Gens
<1>2. GenTypeOK
  BY <1>1, NoBuildType, GenerationsAssumption DEF GenInit, GenTypeOK, Build
<1>3. RecordsAgree
  BY <1>1 DEF GenInit, RecordsAgree, Has, Pipeline
<1> QED BY <1>2, <1>3

\* Records of the same statuses under the same pointer agree still.
LEMMA SameStatuses ==
    ASSUME GenTypeOK, RecordsAgree, pointer' = pointer,
           \A g \in Gens : /\ recs'[g] # Nothing <=> recs[g] # Nothing
                           /\ recs[g] # Nothing => recs'[g].status = recs[g].status
    PROVE  RecordsAgree'
<1>1. \A g \in Gens : \A s : Has(g, s)' <=> Has(g, s)
  BY DEF Has
<1>2. Pipeline' = Pipeline
  BY <1>1 DEF Pipeline
<1> QED BY <1>1, <1>2 DEF RecordsAgree, GenTypeOK

LEMMA WriteStep ==
    ASSUME GenTypeOK, RecordsAgree, NEW m \in Mems, Write(m) \/ ForgetDoc(m)
    PROVE  (GenTypeOK /\ RecordsAgree)'
<1>1. PICK doc \in Doc \cup {Nothing} : CanonicalWrite(m, doc)
  <2>1. CASE Write(m)
    <3> DEFINE rev == IF docs[m] = Nothing THEN 0 ELSE docs[m].rev
    <3>1. PICK conf \in Confidences :
            rev < MaxRevs /\ CanonicalWrite(m, [rev |-> rev + 1, era |-> era, conf |-> conf])
      BY <2>1 DEF Write
    <3>2. rev \in Nat
      BY DEF GenTypeOK, Doc
    <3>3. [rev |-> rev + 1, era |-> era, conf |-> conf] \in Doc
      BY <3>1, <3>2, GenerationsAssumption DEF GenTypeOK, Doc
    <3> QED BY <3>1, <3>3
  <2>2. CASE ForgetDoc(m)
    BY <2>2 DEF ForgetDoc
  <2> QED BY <2>1, <2>2
<1>2. MarkBuildDirty /\ pointer' = pointer
  BY <1>1 DEF CanonicalWrite
<1>3. RecordsAgree'
  BY <1>2, DirtyKeeps, SameStatuses
<1>4. recs' \in [Gens -> GenerationRecord \cup {Nothing}]
  BY <1>2, DirtyKeeps DEF Records
<1>5. writes' \in 0..MaxWrites
  BY <1>1, GenerationsAssumption DEF CanonicalWrite, GenTypeOK
<1>6. docs' \in [Mems -> Doc \cup {Nothing}] /\ owed' \subseteq Mems
  BY <1>1 DEF CanonicalWrite, GenTypeOK
<1> QED BY <1>1, <1>3, <1>4, <1>5, <1>6 DEF CanonicalWrite, GenTypeOK

\* What a change of confidence leaves of a document.
LEMMA AdjustEffect ==
    ASSUME GenTypeOK, NEW m \in Mems, Adjust(m)
    PROVE  /\ docs' \in [Mems -> Doc \cup {Nothing}]
           /\ docs[m] # Nothing /\ docs'[m] # Nothing /\ SameText(docs'[m], docs[m])
           /\ \A n \in Mems : n # m => docs'[n] = docs[n]
<1>1. docs[m] \in Doc
  BY DEF Adjust, GenTypeOK
<1>2. PICK conf \in Confidences : docs' = [docs EXCEPT ![m].conf = conf]
  BY DEF Adjust
<1> DEFINE new == [docs[m] EXCEPT !.conf = conf]
<1>3. new \in Doc /\ new.rev = docs[m].rev /\ new.era = docs[m].era
  BY <1>1 DEF Doc
<1>4. new # Nothing /\ docs[m] # Nothing
  BY <1>1, <1>3, GenerationsNothing
<1>5. docs' = [docs EXCEPT ![m] = new]
  BY <1>2
<1> HIDE DEF new
<1>6. docs'[m] = new /\ \A n \in Mems : n # m => docs'[n] = docs[n]
  BY <1>5 DEF GenTypeOK
<1>7. docs' \in [Mems -> Doc \cup {Nothing}]
  BY <1>3, <1>5 DEF GenTypeOK
<1> QED BY <1>3, <1>4, <1>6, <1>7 DEF SameText

LEMMA AdjustStep ==
    ASSUME GenTypeOK, RecordsAgree, NEW m \in Mems, Adjust(m)
    PROVE  (GenTypeOK /\ RecordsAgree)'
<1>1. docs' \in [Mems -> Doc \cup {Nothing}]
  BY AdjustEffect
<1>2. writes' \in 0..MaxWrites /\ owed' \subseteq Mems /\ drifted' \subseteq Mems
  BY GenerationsAssumption DEF Adjust, GenTypeOK
<1>3. UNCHANGED <<era, backup, pointer, recs, table, build, doomed, unruly>>
  BY DEF Adjust
<1>4. RecordsAgree'
  BY <1>3, SameStatuses
<1> QED BY <1>1, <1>2, <1>3, <1>4 DEF GenTypeOK

LEMMA ProjectStep ==
    ASSUME GenTypeOK, RecordsAgree, NEW m \in Mems, Project(m)
    PROVE  (GenTypeOK /\ RecordsAgree)'
<1>1. table' \subseteq TableRow
  <2>1. CASE docs[m] = Nothing
    BY <2>1 DEF Project, GenTypeOK
  <2>2. CASE docs[m] # Nothing
    <3>1. docs[m] \in Doc
      BY <2>2 DEF GenTypeOK
    <3> QED BY <2>2, <3>1, ActiveIsPointer, PublishedType DEF Project
  <2> QED BY <2>1, <2>2
<1>2. GenTypeOK'
  BY <1>1 DEF Project, GenTypeOK
<1>3. RecordsAgree'
  BY SameStatuses DEF Project
<1> QED BY <1>2, <1>3

\* A step that leaves the records, the pointer and the types alone.
LEMMA Elsewhere ==
    ASSUME GenTypeOK, RecordsAgree, UNCHANGED <<recs, pointer>>
    PROVE  RecordsAgree'
BY SameStatuses

LEMMA StageStep ==
    ASSUME GenTypeOK, RecordsAgree, StageGeneration
    PROVE  (GenTypeOK /\ RecordsAgree)'
<1> DEFINE used == {pointer} \cup {g \in Gens : recs[g] # Nothing}
           status == IF Desired = 0 THEN "ready" ELSE "staged"
           new == [status |-> status, desired |-> Desired, projected |-> 0, dirty |-> FALSE]
<1>1. PICK next \in Gens :
        /\ next = 1 + MaxOf(used)
        /\ Pipeline = {} /\ recs' = [recs EXCEPT ![next] = new]
  BY DEF StageGeneration
<1>2. new \in GenerationRecord /\ new.status \in Open /\ new # Nothing
  <2>1. status \in Open
    BY DEF Open
  <2> HIDE DEF status
  <2>2. new \in GenerationRecord /\ new.status = status
    BY <2>1, DesiredType DEF GenerationRecord
  <2> QED BY <2>1, <2>2, GenerationsNothing
<1>3. next # pointer
  <2>1. used \subseteq Gens /\ pointer \in used
    BY DEF GenTypeOK
  <2> HIDE DEF used
  <2>2. MaxOf(used) \in Gens /\ pointer <= MaxOf(used)
    BY <2>1, Highest
  <2> QED BY <1>1, <2>2 DEF GenTypeOK, Gens
<1> HIDE DEF new, used
<1>4. GenTypeOK' /\ pointer' = pointer
  BY <1>1, <1>2 DEF StageGeneration, GenTypeOK, canonical
<1>5. \A g \in Gens : recs'[g] = IF g = next THEN new ELSE recs[g]
  BY <1>1 DEF GenTypeOK
<1>6. \A g \in Gens : /\ Has(g, Open)' => g = next
                      /\ Has(g, {"active"})' => Has(g, {"active"})
  BY <1>1, <1>2, <1>5 DEF Pipeline, Has, Open
<1>7. RecordsAgree'
  BY <1>3, <1>4, <1>5, <1>6 DEF RecordsAgree, Pipeline, GenTypeOK
<1> QED BY <1>4, <1>7

LEMMA BuilderStep ==
    ASSUME GenTypeOK, RecordsAgree, SnapshotCovers,
           \/ \E g \in Gens : StartBuild(g)
           \/ \E m \in Mems : CheckPublish(m) \/ PublishRows(m)
           \/ FinishBuild
    PROVE  (GenTypeOK /\ RecordsAgree)'
<1>1. ASSUME NEW g \in Gens, StartBuild(g) PROVE GenTypeOK' /\ UNCHANGED <<recs, pointer>>
  BY <1>1 DEF StartBuild, GenTypeOK, Build, NoBuild, Recallable, canonical
<1>2. ASSUME NEW m \in Mems, CheckPublish(m) PROVE GenTypeOK' /\ UNCHANGED <<recs, pointer>>
  BY <1>2 DEF CheckPublish, GenTypeOK, Build, canonical
<1>3. ASSUME FinishBuild PROVE GenTypeOK' /\ UNCHANGED <<recs, pointer>>
  BY <1>3 DEF FinishBuild, GenTypeOK, Build, canonical
<1>4. ASSUME NEW m \in Mems, PublishRows(m) PROVE GenTypeOK' /\ UNCHANGED <<recs, pointer>>
  <2>1. build.snap[m] \in Doc \cup {Nothing} /\ build.gen \in Gens
    BY DEF GenTypeOK, Build
  <2>2. build.snap[m] \in Doc
    BY <1>4, <2>1 DEF SnapshotCovers, PublishRows
  <2>3. table' \subseteq TableRow
    BY <1>4, <2>1, <2>2, PublishedType DEF PublishRows
  <2>4. build' \in Build
    <3>1. build \in Build /\ build.published + 1 \in Nat /\ build.checked \ {m} \in SUBSET Mems
      BY DEF GenTypeOK, Build
    <3>2. build' = [build EXCEPT !.checked = build.checked \ {m}, !.published = build.published + 1]
      BY <1>4 DEF PublishRows
    <3> QED BY <3>1, <3>2 DEF Build
  <2> QED BY <1>4, <2>3, <2>4 DEF PublishRows, GenTypeOK, canonical
<1>5. GenTypeOK' /\ UNCHANGED <<recs, pointer>>
  BY <1>1, <1>2, <1>3, <1>4
<1> QED BY <1>5, Elsewhere

LEMMA NoteStep ==
    ASSUME GenTypeOK, RecordsAgree, NoteGenerationProgress
    PROVE  (GenTypeOK /\ RecordsAgree)'
<1> DEFINE g == build.gen
           status == IF build.published >= recs[g].desired THEN "ready" ELSE "building"
           noted == [recs[g] EXCEPT !.projected = build.published, !.dirty = FALSE,
                                    !.status = status]
<1>1. g \in Gens /\ build.published \in Nat
  BY DEF GenTypeOK, Build
<1>2. pointer' = pointer /\ build' \in Build
  BY NoBuildType DEF NoteGenerationProgress
<1>3. CASE Has(g, Open)
  <2>1. recs' = [recs EXCEPT ![g] = noted]
    BY <1>3, <1>1 DEF NoteGenerationProgress, GenTypeOK
  <2>2. recs[g] \in GenerationRecord /\ recs[g].status \in Open
    BY <1>1, <1>3, RecordType DEF Has
  <2>3. noted \in GenerationRecord /\ noted.status \in Open /\ noted # Nothing
    <3>1. noted \in GenerationRecord /\ noted.status = status
      BY <1>1, <2>2 DEF GenerationRecord, Open
    <3> QED BY <3>1, GenerationsNothing DEF Open
  <2> HIDE DEF noted
  <2>4. recs' \in Records
    BY <1>1, <2>1, <2>3 DEF GenTypeOK, Records
  <2>5. \A h \in Gens : recs'[h] = IF h = g THEN noted ELSE recs[h]
    BY <1>1, <2>1 DEF GenTypeOK
  <2>6. \A h \in Gens : Has(h, Open)' <=> Has(h, Open)
    BY <1>3, <2>3, <2>5 DEF Has
  <2>7. \A h \in Gens : Has(h, {"active"})' <=> Has(h, {"active"})
    BY <2>2, <2>3, <2>5 DEF Has, Open
  <2>8. g # pointer
    BY <2>2, GenerationsNothing DEF RecordsAgree, Open
  <2>9. RecordsAgree'
    BY <1>2, <2>5, <2>6, <2>7, <2>8 DEF RecordsAgree, Pipeline, GenTypeOK
  <2> QED BY <1>2, <2>4, <2>9 DEF NoteGenerationProgress, GenTypeOK, Records, canonical
<1>4. CASE ~Has(g, Open)
  <2>1. UNCHANGED <<recs, pointer>>
    BY <1>4 DEF NoteGenerationProgress
  <2> QED BY <1>2, <2>1, Elsewhere DEF NoteGenerationProgress, GenTypeOK, canonical
<1> QED BY <1>3, <1>4

LEMMA ActivateStep ==
    ASSUME GenTypeOK, RecordsAgree, NEW g \in Gens, ActivateGeneration(g)
    PROVE  (GenTypeOK /\ RecordsAgree)'
<1>1. Active = pointer /\ pointer \in Gens /\ g # pointer
  BY ActiveIsPointer DEF ActivateGeneration, GenTypeOK
<1>2. recs[g] \in GenerationRecord /\ recs[g].status \in Open \cup {"retired"}
  <2>1. Has(g, {"ready"}) \/ Has(g, {"retired"})
    BY DEF ActivateGeneration
  <2> QED BY <2>1, RecordType DEF Has, Open
<1> DEFINE now == [recs[g] EXCEPT !.status = "active"]
           before == Predecessor
<1>3. now \in GenerationRecord /\ now.status = "active"
  BY <1>2 DEF GenerationRecord
<1>4. before \in GenerationRecord /\ before.status = "retired"
  BY PredecessorRetires
<1>5. recs' = [recs EXCEPT ![g] = now, ![pointer] = before] /\ pointer' = g
  BY <1>1 DEF ActivateGeneration
<1> HIDE DEF now, before
<1>6. \A h \in Gens : recs'[h] = IF h = g THEN now ELSE IF h = pointer THEN before ELSE recs[h]
  BY <1>1, <1>5 DEF GenTypeOK
<1>7. recs' \in [Gens -> GenerationRecord \cup {Nothing}]
  BY <1>1, <1>3, <1>4, <1>5 DEF GenTypeOK
<1>8. \A h \in Gens : Has(h, {"active"})' => h = g
  BY <1>4, <1>6 DEF Has, RecordsAgree
<1>9. \A h \in Gens : Has(h, Open)' => Has(h, Open)
  BY <1>3, <1>4, <1>6 DEF Has, Open
<1>10. RecordsAgree'
  BY <1>3, <1>5, <1>6, <1>8, <1>9 DEF RecordsAgree, Pipeline
<1> QED BY <1>5, <1>7, <1>10 DEF ActivateGeneration, GenTypeOK, canonical

LEMMA AbandonStep ==
    ASSUME GenTypeOK, RecordsAgree, NEW g \in Gens, AbandonGeneration(g)
    PROVE  (GenTypeOK /\ RecordsAgree)'
<1> DEFINE gone == [recs[g] EXCEPT !.status = "retired"]
<1>1. recs[g] \in GenerationRecord /\ recs[g].status \in Open
  BY RecordType DEF AbandonGeneration, Has
<1>2. gone \in GenerationRecord /\ gone.status = "retired"
  BY <1>1 DEF GenerationRecord
<1>3. recs' = [recs EXCEPT ![g] = gone] /\ pointer' = pointer
  BY DEF AbandonGeneration
<1> HIDE DEF gone
<1>4. \A h \in Gens : recs'[h] = IF h = g THEN gone ELSE recs[h]
  BY <1>3 DEF GenTypeOK
<1>5. recs' \in [Gens -> GenerationRecord \cup {Nothing}]
  BY <1>2, <1>3 DEF GenTypeOK
<1>6. g # pointer
  BY <1>1, GenerationsNothing DEF RecordsAgree, Open
<1>7. \A h \in Gens : /\ Has(h, Open)' => Has(h, Open)
                      /\ Has(h, {"active"})' => Has(h, {"active"})
  BY <1>2, <1>4 DEF Has, Open
<1>8. RecordsAgree'
  BY <1>3, <1>4, <1>6, <1>7 DEF RecordsAgree, Pipeline, GenTypeOK
<1> QED BY <1>3, <1>5, <1>8 DEF AbandonGeneration, GenTypeOK, canonical

\* What a restore finds under construction retires, and so does the generation
\* it leaves, unless it is the one whose record it takes.
LEMMA RestoreStep ==
    ASSUME GenTypeOK, RecordsAgree, RestoreStore
    PROVE  (GenTypeOK /\ RecordsAgree)'
<1> DEFINE next == pointer + 1
           new == [status |-> "active", desired |-> Cardinality(owed'), projected |-> 0,
                   dirty |-> TRUE]
           old == Retired(Open \cup {"active"})
<1>1. Active = pointer /\ next \in Gens
  BY ActiveIsPointer, GenerationsAssumption DEF RestoreStore, GenTypeOK, Gens
<1>2. owed' \subseteq Mems
  BY DEF RestoreStore
<1>3. new \in GenerationRecord /\ new.status = "active"
  BY <1>2, CountType DEF GenerationRecord
<1>4. /\ old \in Records
      /\ \A g \in Gens : ~(old[g] # Nothing /\ old[g].status \in Open \cup {"active"})
  BY RetiredKeeps DEF Has, Open
<1>5. recs' = [old EXCEPT ![next] = new] /\ pointer' = next
  BY <1>1 DEF RestoreStore
<1>6. era' \in 0..MaxRestores
  BY GenerationsAssumption DEF RestoreStore, GenTypeOK
<1> HIDE DEF new, old
<1>7. \A g \in Gens : recs'[g] = IF g = next THEN new ELSE old[g]
  BY <1>1, <1>4, <1>5 DEF Records
<1>8. recs' \in [Gens -> GenerationRecord \cup {Nothing}]
  BY <1>1, <1>3, <1>4, <1>5 DEF Records
<1>9. \A g \in Gens : /\ Has(g, {"active"})' => g = next
                      /\ ~Has(g, Open)'
  BY <1>3, <1>4, <1>7 DEF Has, Open
<1>10. RecordsAgree'
  BY <1>1, <1>3, <1>5, <1>7, <1>9 DEF RecordsAgree, Pipeline
<1>11. docs' \in [Mems -> Doc \cup {Nothing}] /\ pointer' \in Gens
  BY <1>1, <1>5 DEF RestoreStore, GenTypeOK
<1> QED BY <1>2, <1>6, <1>8, <1>10, <1>11 DEF RestoreStore, GenTypeOK

\* Taking a backup, listing and reaping leave the records alone.
LEMMA QuietStep ==
    ASSUME GenTypeOK, RecordsAgree,
           TakeBackup \/ ListRetired \/ (\E g \in Gens : Reap(g)) \/ UNCHANGED genvars
    PROVE  (GenTypeOK /\ RecordsAgree)'
<1>1. UNCHANGED <<recs, pointer>>
  BY DEF TakeBackup, ListRetired, Reap, genvars
<1>2. ASSUME TakeBackup PROVE GenTypeOK'
  BY <1>2 DEF TakeBackup, GenTypeOK
<1>3. ASSUME ListRetired PROVE GenTypeOK'
  BY <1>3 DEF ListRetired, Reapable, GenTypeOK, canonical
<1>4. ASSUME NEW g \in Gens, Reap(g) PROVE GenTypeOK'
  BY <1>4 DEF Reap, GenTypeOK, canonical
<1>5. ASSUME UNCHANGED genvars PROVE GenTypeOK'
  BY <1>5 DEF genvars, GenTypeOK, canonical
<1>6. GenTypeOK'
  BY <1>2, <1>3, <1>4, <1>5
<1> QED BY <1>1, <1>6, Elsewhere

LEMMA SnapshotStep == GenTypeOK /\ SnapshotCovers /\ [GenNext]_genvars => SnapshotCovers'
<1> SUFFICES ASSUME GenTypeOK, SnapshotCovers, [GenNext]_genvars PROVE SnapshotCovers'
  OBVIOUS
<1>1. ASSUME NEW g \in Gens, StartBuild(g) PROVE SnapshotCovers'
  <2>1. build'.todo = Recallable /\ build'.checked = {} /\ build'.snap = docs
    BY <1>1 DEF StartBuild, NoBuild
  <2> QED BY <2>1 DEF SnapshotCovers, Recallable
<1>2. ASSUME NEW m \in Mems, CheckPublish(m) \/ PublishRows(m) PROVE SnapshotCovers'
  <2>1. CASE CheckPublish(m)
    <3>1. /\ m \in build.todo /\ build'.snap = build.snap /\ build'.todo \subseteq build.todo
          /\ build'.checked \subseteq build.checked \cup {m}
      BY <2>1 DEF CheckPublish, GenTypeOK, Build
    <3> QED BY <3>1 DEF SnapshotCovers
  <2>2. CASE PublishRows(m)
    <3>1. /\ build'.snap = build.snap /\ build'.todo = build.todo
          /\ build'.checked \subseteq build.checked
      BY <2>2 DEF PublishRows, GenTypeOK, Build
    <3> QED BY <3>1 DEF SnapshotCovers
  <2> QED BY <1>2, <2>1, <2>2
<1>3. CASE FinishBuild
  <2>1. build'.todo = build.todo /\ build'.checked = build.checked /\ build'.snap = build.snap
    BY <1>3 DEF FinishBuild, GenTypeOK, Build
  <2> QED BY <2>1 DEF SnapshotCovers
<1>4. CASE NoteGenerationProgress
  BY <1>4 DEF NoteGenerationProgress, NoBuild, SnapshotCovers
<1>5. CASE build' = build
  BY <1>5 DEF SnapshotCovers
<1> QED
  BY <1>1, <1>2, <1>3, <1>4, <1>5
  DEF GenNext, Write, Adjust, ForgetDoc, CanonicalWrite, Project, ActivateGeneration, AbandonGeneration,
      Reap, StageGeneration, TakeBackup, RestoreStore, ListRetired, genvars

LEMMA RecordsStep ==
    GenTypeOK /\ RecordsAgree /\ SnapshotCovers /\ [GenNext]_genvars => (GenTypeOK /\ RecordsAgree)'
BY WriteStep, AdjustStep, ProjectStep, StageStep, BuilderStep, NoteStep, ActivateStep, AbandonStep,
   RestoreStep, QuietStep DEF GenNext

-----------------------------------------------------------------------------
(* What a cutover depends on.                                              *)

\* What the builder works for has a record, and when it is done it has nothing
\* in hand.
BuilderAgrees ==
    /\ build.phase # "none" => recs[build.gen] # Nothing
    /\ build.phase = "built" => build.todo = {} /\ build.checked = {}

\* As long as nothing has revived a generation, what the reaper has listed is
\* retired still.
DoomedStay == unruly \cap Revives = {} => \A g \in doomed : Has(g, {"retired"})

\* A row of the generation shows the memory as it is, but for a confidence that drifted.
Shows(g, m) == \E r \in table : r.gen = g /\ r.mem = m /\ Current(r.doc, m)

\* While the pipeline has been used as it is made for: a build is of what is
\* canonical; what it has dealt with is in the table, unless it was abandoned;
\* a clean ready generation shows everything; and readers find what is not owed.
SnapshotIsCurrent ==
    build.phase # "none" =>
        \A m \in Mems : /\ build.snap[m] = Nothing <=> docs[m] = Nothing
                        /\ m \in Recallable => Current(build.snap[m], m)
BuildShows ==
    build.phase # "none" /\ (Has(build.gen, Open) \/ build.gen = pointer) =>
        \A m \in Recallable \ (build.todo \cup build.checked) : Shows(build.gen, m)
ReadyShows ==
    \A g \in Gens : Has(g, {"ready"}) /\ ~recs[g].dirty => \A m \in Recallable : Shows(g, m)
PointerShows == \A m \in Recallable \ owed : Shows(pointer, m)

CutoverInv == unruly = {} => SnapshotIsCurrent /\ BuildShows /\ ReadyShows /\ PointerShows

-----------------------------------------------------------------------------
(* What each action does to the records.                                   *)

LEMMA StageEffect ==
    ASSUME GenTypeOK, StageGeneration
    PROVE  \E next \in Gens :
              /\ recs[next] = Nothing /\ recs'[next] # Nothing
              /\ recs'[next].status \in Open
              /\ recs'[next].status = "ready" => Recallable = {}
              /\ \A g \in Gens : g # next => recs'[g] = recs[g]
<1> DEFINE used == {pointer} \cup {g \in Gens : recs[g] # Nothing}
           status == IF Desired = 0 THEN "ready" ELSE "staged"
           new == [status |-> status, desired |-> Desired, projected |-> 0, dirty |-> FALSE]
<1>1. PICK next \in Gens : next = 1 + MaxOf(used) /\ recs' = [recs EXCEPT ![next] = new]
  BY DEF StageGeneration
<1>2. status \in Open /\ (status = "ready" => Desired = 0)
  BY DEF Open
<1>3. Desired = 0 => Recallable = {}
  <2>1. IsFiniteSet(Recallable)
    BY GenerationsAssumption, FS_Subset DEF Recallable
  <2> QED BY <2>1, FS_EmptySet DEF Desired
<1>4. recs[next] = Nothing
  <2>1. used \subseteq Gens /\ used # {}
    BY DEF GenTypeOK
  <2>2. \A g \in Gens : g \notin used => recs[g] = Nothing
    OBVIOUS
  <2> HIDE DEF used
  <2>3. MaxOf(used) \in Gens /\ \A y \in used : y <= MaxOf(used)
    BY <2>1, Highest
  <2>4. next \notin used
    BY <1>1, <2>3 DEF Gens
  <2> QED BY <2>2, <2>4
<1> HIDE DEF used, status
<1>5. new \in GenerationRecord
  BY <1>2, DesiredType DEF GenerationRecord
<1>6. new # Nothing /\ new.status = status
  BY <1>5, GenerationsNothing
<1> HIDE DEF new
<1>7. recs'[next] = new /\ \A g \in Gens : g # next => recs'[g] = recs[g]
  BY <1>1 DEF GenTypeOK
<1> QED BY <1>2, <1>3, <1>4, <1>6, <1>7

LEMMA NoteEffect ==
    ASSUME GenTypeOK, NoteGenerationProgress, Has(build.gen, Open)
    PROVE  /\ build.gen \in Gens
           /\ recs'[build.gen] # Nothing /\ recs'[build.gen].status \in Open
           /\ \A g \in Gens : g # build.gen => recs'[g] = recs[g]
<1> DEFINE g == build.gen
           status == IF build.published >= recs[g].desired THEN "ready" ELSE "building"
           noted == [recs[g] EXCEPT !.projected = build.published, !.dirty = FALSE,
                                    !.status = status]
<1>1. g \in Gens /\ build.published \in Nat
  BY DEF GenTypeOK, Build
<1>2. recs' = [recs EXCEPT ![g] = noted]
  BY <1>1 DEF NoteGenerationProgress, GenTypeOK
<1>3. recs[g] \in GenerationRecord /\ recs[g].status \in Open
  BY <1>1, RecordType DEF Has
<1>4. noted \in GenerationRecord /\ noted.status = status
  BY <1>1, <1>3 DEF GenerationRecord, Open
<1>5. noted # Nothing /\ noted.status \in Open
  BY <1>4, GenerationsNothing DEF Open
<1> HIDE DEF noted
<1> QED BY <1>1, <1>2, <1>5 DEF GenTypeOK

LEMMA ActivateEffect ==
    ASSUME GenTypeOK, RecordsAgree, NEW g \in Gens, ActivateGeneration(g)
    PROVE  /\ pointer' = g /\ g # pointer
           /\ (Has(g, {"ready"}) /\ ~recs[g].dirty) \/ Has(g, {"retired"})
           /\ recs'[g] # Nothing /\ recs'[g].status = "active"
           /\ recs'[pointer] # Nothing /\ recs'[pointer].status = "retired"
           /\ \A h \in Gens \ {g, pointer} : recs'[h] = recs[h]
<1>1. Active = pointer /\ pointer \in Gens /\ g # pointer
  BY ActiveIsPointer DEF ActivateGeneration, GenTypeOK
<1>2. (Has(g, {"ready"}) /\ ~recs[g].dirty) \/ Has(g, {"retired"})
  BY DEF ActivateGeneration
<1> DEFINE now == [recs[g] EXCEPT !.status = "active"]
           before == Predecessor
<1>3. now \in GenerationRecord /\ now.status = "active"
  <2>1. recs[g] \in GenerationRecord
    BY <1>2, RecordType DEF Has
  <2> QED BY <2>1 DEF GenerationRecord
<1>4. before \in GenerationRecord /\ before.status = "retired"
  BY PredecessorRetires
<1>5. recs' = [recs EXCEPT ![g] = now, ![pointer] = before] /\ pointer' = g
  BY <1>1 DEF ActivateGeneration
<1>6. now # Nothing /\ before # Nothing
  BY <1>3, <1>4, GenerationsNothing
<1> HIDE DEF now, before
<1>7. \A h \in Gens : recs'[h] = IF h = g THEN now ELSE IF h = pointer THEN before ELSE recs[h]
  BY <1>1, <1>5 DEF GenTypeOK
<1> QED BY <1>1, <1>2, <1>3, <1>4, <1>5, <1>6, <1>7

LEMMA AbandonEffect ==
    ASSUME GenTypeOK, NEW g \in Gens, AbandonGeneration(g)
    PROVE  /\ Has(g, Open) /\ recs'[g] # Nothing /\ recs'[g].status = "retired"
           /\ \A h \in Gens : h # g => recs'[h] = recs[h]
<1> DEFINE gone == [recs[g] EXCEPT !.status = "retired"]
<1>1. recs[g] \in GenerationRecord /\ Has(g, Open)
  BY RecordType DEF AbandonGeneration, Has
<1>2. gone \in GenerationRecord /\ gone.status = "retired"
  BY <1>1 DEF GenerationRecord
<1>3. gone # Nothing /\ recs' = [recs EXCEPT ![g] = gone]
  BY <1>2, GenerationsNothing DEF AbandonGeneration
<1> HIDE DEF gone
<1> QED BY <1>1, <1>2, <1>3 DEF GenTypeOK

\* No record vanishes; and no retired one changes but by a rollback or a
\* restore.
LEMMA RecordsLast ==
    ASSUME GenTypeOK, RecordsAgree, [GenNext]_genvars
    PROVE  /\ \A g \in Gens : recs[g] # Nothing => recs'[g] # Nothing
           /\ unruly' \cap Revives = {} =>
                /\ unruly \cap Revives = {}
                /\ \A g \in Gens : Has(g, {"retired"}) => Has(g, {"retired"})'
<1> DEFINE Goal ==
        /\ \A g \in Gens : recs[g] # Nothing => recs'[g] # Nothing
        /\ unruly' \cap Revives = {} =>
             /\ unruly \cap Revives = {}
             /\ \A g \in Gens : Has(g, {"retired"}) => Has(g, {"retired"})'
<1>1. ASSUME MarkBuildDirty, unruly \subseteq unruly' PROVE Goal
  <2>1. \A g \in Gens : /\ recs'[g] # Nothing <=> recs[g] # Nothing
                        /\ recs[g] # Nothing => recs'[g].status = recs[g].status
    BY <1>1, DirtyKeeps
  <2> QED BY <1>1, <2>1 DEF Has
<1>2. ASSUME UNCHANGED <<recs, unruly>> PROVE Goal
  BY <1>2 DEF Has
<1>3. ASSUME StageGeneration PROVE Goal
  <2>1. PICK next \in Gens :
          /\ recs[next] = Nothing /\ recs'[next] # Nothing
          /\ \A g \in Gens : g # next => recs'[g] = recs[g]
    BY <1>3, StageEffect
  <2>2. unruly' = unruly
    BY <1>3 DEF StageGeneration
  <2> QED BY <2>1, <2>2 DEF Has
<1>4. ASSUME NoteGenerationProgress PROVE Goal
  <2>1. unruly' = unruly
    BY <1>4 DEF NoteGenerationProgress
  <2>2. CASE Has(build.gen, Open)
    <3>1. \A g \in Gens : g # build.gen => recs'[g] = recs[g]
      BY <1>4, <2>2, NoteEffect
    <3>2. recs'[build.gen] # Nothing
      BY <1>4, <2>2, NoteEffect
    <3> QED BY <2>1, <2>2, <3>1, <3>2 DEF Has, Open
  <2>3. CASE ~Has(build.gen, Open)
    BY <1>2, <1>4, <2>1, <2>3 DEF NoteGenerationProgress
  <2> QED BY <2>2, <2>3
<1>5. ASSUME NEW g \in Gens, ActivateGeneration(g) PROVE Goal
  <2>1. /\ (Has(g, {"ready"}) /\ ~recs[g].dirty) \/ Has(g, {"retired"})
        /\ recs'[g] # Nothing
        /\ recs'[pointer] # Nothing /\ recs'[pointer].status = "retired"
        /\ \A h \in Gens \ {g, pointer} : recs'[h] = recs[h]
    BY <1>5, ActivateEffect
  <2>2. unruly' = IF Has(g, {"retired"}) THEN unruly \cup {"rollback"} ELSE unruly
    BY <1>5 DEF ActivateGeneration
  <2>3. unruly' \cap Revives = {} => ~Has(g, {"retired"}) /\ unruly' = unruly
    BY <2>2 DEF Revives
  <2>4. Has(g, {"ready"}) => ~Has(g, {"retired"})
    BY DEF Has
  <2>5. \A h \in Gens : recs[h] # Nothing => recs'[h] # Nothing
    BY <2>1
  <2>6. ~Has(g, {"retired"}) =>
            \A h \in Gens : Has(h, {"retired"}) => Has(h, {"retired"})'
    BY <2>1 DEF Has
  <2> QED BY <2>3, <2>5, <2>6
<1>6. ASSUME NEW g \in Gens, AbandonGeneration(g) PROVE Goal
  <2>1. /\ recs'[g] # Nothing /\ recs'[g].status = "retired"
        /\ \A h \in Gens : h # g => recs'[h] = recs[h]
    BY <1>6, AbandonEffect
  <2>2. unruly' = unruly
    BY <1>6 DEF AbandonGeneration
  <2> QED BY <2>1, <2>2 DEF Has
<1>7. ASSUME RestoreStore PROVE Goal
  <2>1. "restore" \in unruly'
    BY <1>7 DEF RestoreStore
  <2>2. unruly' \cap Revives # {}
    BY <2>1 DEF Revives
  <2> DEFINE old == Retired(Open \cup {"active"})
             new == [status |-> "active", desired |-> Cardinality(owed'), projected |-> 0,
                     dirty |-> TRUE]
  <2>3. /\ old \in Records
        /\ \A g \in Gens : recs[g] # Nothing => old[g] # Nothing
    <3>1. \A g \in Gens : old[g] # Nothing \/ old[g] = recs[g]
      BY RetiredKeeps
    <3> QED BY <3>1, RetiredKeeps
  <2>4. new \in GenerationRecord
    <3>1. owed' \subseteq Mems
      BY <1>7 DEF RestoreStore
    <3> QED BY <3>1, CountType DEF GenerationRecord
  <2>5. new # Nothing /\ recs' = [old EXCEPT ![Active + 1] = new]
    BY <1>7, <2>4, GenerationsNothing DEF RestoreStore
  <2> HIDE DEF new, old
  <2>6. \A g \in Gens : recs'[g] = new \/ recs'[g] = old[g]
    BY <2>3, <2>5 DEF Records
  <2> QED BY <2>2, <2>3, <2>5, <2>6
<1> HIDE DEF Goal
<1>8. ASSUME NEW m \in Mems, Write(m) \/ ForgetDoc(m) PROVE Goal
  BY <1>1, <1>8 DEF Write, ForgetDoc, CanonicalWrite
<1>9. ASSUME NEW m \in Mems, Adjust(m) \/ Project(m) \/ CheckPublish(m) \/ PublishRows(m)
      PROVE  Goal
  BY <1>2, <1>9 DEF Adjust, Project, CheckPublish, PublishRows
<1>10. ASSUME NEW g \in Gens, StartBuild(g) \/ Reap(g) PROVE Goal
  BY <1>2, <1>10 DEF StartBuild, Reap
<1>11. ASSUME FinishBuild \/ TakeBackup \/ ListRetired \/ UNCHANGED genvars PROVE Goal
  BY <1>2, <1>11 DEF FinishBuild, TakeBackup, ListRetired, genvars
<1>12. Goal
  BY <1>3, <1>4, <1>5, <1>6, <1>7, <1>8, <1>9, <1>10, <1>11 DEF GenNext
<1> QED BY <1>12 DEF Goal

LEMMA DoomedStep ==
    ASSUME GenTypeOK, RecordsAgree, DoomedStay, [GenNext]_genvars
    PROVE  DoomedStay'
<1>1. doomed' \subseteq doomed \cup Reapable
  BY DEF GenNext, Write, Adjust, ForgetDoc, CanonicalWrite, Project, CheckPublish, PublishRows,
         StartBuild, ActivateGeneration, AbandonGeneration, Reap, StageGeneration, FinishBuild,
         NoteGenerationProgress, TakeBackup, RestoreStore, ListRetired, genvars
<1> SUFFICES ASSUME unruly' \cap Revives = {}, NEW g \in doomed' PROVE Has(g, {"retired"})'
  BY DEF DoomedStay
<1>2. /\ unruly \cap Revives = {}
      /\ \A h \in Gens : Has(h, {"retired"}) => Has(h, {"retired"})'
  BY RecordsLast
<1>3. g \in Gens /\ Has(g, {"retired"})
  BY <1>1, <1>2 DEF DoomedStay, Reapable, GenTypeOK
<1> QED BY <1>2, <1>3

LEMMA BuilderAgreesStep ==
    ASSUME GenTypeOK, RecordsAgree, BuilderAgrees, [GenNext]_genvars
    PROVE  BuilderAgrees'
<1>1. \A g \in Gens : recs[g] # Nothing => recs'[g] # Nothing
  BY RecordsLast
<1>2. build.gen \in Gens
  BY DEF GenTypeOK, Build
<1>3. ASSUME NEW g \in Gens, StartBuild(g) PROVE BuilderAgrees'
  <2>1. build'.phase = "building" /\ build'.gen = g /\ recs[g] # Nothing
    BY <1>3 DEF StartBuild, NoBuild, Pipeline, Has
  <2> QED BY <1>1, <2>1 DEF BuilderAgrees
<1>4. ASSUME NEW m \in Mems, CheckPublish(m) \/ PublishRows(m) PROVE BuilderAgrees'
  <2>1. build'.phase = "building" /\ build.phase = "building" /\ build'.gen = build.gen
    BY <1>4 DEF CheckPublish, PublishRows, GenTypeOK, Build
  <2> QED BY <1>1, <1>2, <2>1 DEF BuilderAgrees
<1>5. ASSUME FinishBuild PROVE BuilderAgrees'
  <2>1. /\ build.phase = "building" /\ build'.gen = build.gen
        /\ build'.todo = {} /\ build'.checked = {}
    BY <1>5 DEF FinishBuild, GenTypeOK, Build
  <2> QED BY <1>1, <1>2, <2>1 DEF BuilderAgrees
<1>6. ASSUME NoteGenerationProgress PROVE BuilderAgrees'
  BY <1>6 DEF NoteGenerationProgress, NoBuild, BuilderAgrees
<1>7. ASSUME build' = build PROVE BuilderAgrees'
  BY <1>1, <1>2, <1>7 DEF BuilderAgrees
<1> QED
  BY <1>3, <1>4, <1>5, <1>6, <1>7
  DEF GenNext, Write, Adjust, ForgetDoc, CanonicalWrite, Project, ActivateGeneration, AbandonGeneration,
      Reap, StageGeneration, TakeBackup, RestoreStore, ListRetired, genvars

-----------------------------------------------------------------------------
(* The cutover, action by action.                                          *)

\* A publication of what is current shows it, and hides nothing that was shown.
LEMMA PublishedKeeps ==
    ASSUME UNCHANGED <<docs, drifted>>, NEW g \in Gens, NEW m \in Mems, NEW doc,
           Current(doc, m), table' = Published(g, m, doc)
    PROVE  /\ Shows(g, m)'
           /\ \A h \in Gens : \A n \in Mems : Shows(h, n) => Shows(h, n)'
<1>1. \A d : \A n \in Mems : Current(d, n)' <=> Current(d, n)
  BY DEF Current, SameText
<1> DEFINE new == [gen |-> g, mem |-> m, doc |-> doc]
<1>2. Shows(g, m)'
  <2>1. new \in table' /\ new.gen = g /\ new.mem = m /\ Current(new.doc, m)'
    BY <1>1 DEF Published
  <2> HIDE DEF new
  <2> QED BY <2>1 DEF Shows
<1>3. ASSUME NEW h \in Gens, NEW n \in Mems, Shows(h, n), ~(h = g /\ n = m)
      PROVE  Shows(h, n)'
  <2>1. PICK r \in table : r.gen = h /\ r.mem = n /\ Current(r.doc, n)
    BY <1>3 DEF Shows
  <2>2. r \in table'
    BY <1>3, <2>1 DEF Published
  <2> QED BY <1>1, <2>1, <2>2 DEF Shows
<1> QED BY <1>2, <1>3

\* What a table shows of what has not changed.
LEMMA ShowsSame ==
    ASSUME UNCHANGED <<docs, drifted, table>>
    PROVE  \A g \in Gens : \A m \in Mems : Shows(g, m)' <=> Shows(g, m)
BY DEF Shows, Current, SameText

\* A table that goes on to show of what is read or built what it showed, under the same
\* records and the same builder, of memories whose text is the same.
LEMMA TableKeeps ==
    ASSUME GenTypeOK, CutoverInv, unruly = {}, UNCHANGED <<recs, pointer, build>>,
           \A m \in Mems : docs'[m] = Nothing <=> docs[m] = Nothing,
           \A m \in Mems : \A d : Current(d, m) => Current(d, m)',
           \A g \in Gens : \A m \in Mems :
               Shows(g, m) /\ docs[m] # Nothing /\ (g = pointer \/ Has(g, Open)) => Shows(g, m)',
           \A m \in Mems : m \in owed /\ docs[m] # Nothing => m \in owed' \/ Shows(pointer, m)'
    PROVE  CutoverInv'
<1>1. SnapshotIsCurrent /\ BuildShows /\ ReadyShows /\ PointerShows
  BY DEF CutoverInv
<1>2. Recallable' = Recallable /\ \A g \in Gens : \A s : Has(g, s)' <=> Has(g, s)
  BY DEF Recallable, Has
<1>3. build.gen \in Gens /\ pointer \in Gens
  BY DEF GenTypeOK, Build
<1>4. \A m \in Recallable : m \in Mems /\ docs[m] # Nothing
  BY DEF Recallable
<1>5. SnapshotIsCurrent'
  BY <1>1, <1>2 DEF SnapshotIsCurrent
<1>6. BuildShows'
  BY <1>1, <1>2, <1>3, <1>4 DEF BuildShows
<1>7. ReadyShows'
  <2>1. \A g \in Gens : Has(g, {"ready"}) => Has(g, Open)
    BY DEF Has, Open
  <2> QED BY <1>1, <1>2, <1>4, <2>1 DEF ReadyShows
<1>8. PointerShows'
  BY <1>1, <1>2, <1>3, <1>4 DEF PointerShows
<1> QED BY <1>5, <1>6, <1>7, <1>8 DEF CutoverInv

\* Beside no build and no ready generation, only the readers' view matters.
LEMMA NothingBuilt ==
    ASSUME GenTypeOK, ~Built, UNCHANGED <<recs, build>>
    PROVE  (SnapshotIsCurrent /\ BuildShows /\ ReadyShows)'
<1>1. build.phase = "none" /\ \A g \in Gens : ~Has(g, {"ready"})
  BY DEF Built
<1>2. \A g \in Gens : ~Has(g, {"ready"})'
  BY <1>1 DEF Has
<1> QED BY <1>1, <1>2 DEF SnapshotIsCurrent, BuildShows, ReadyShows

LEMMA WriteCuts ==
    ASSUME GenTypeOK, RecordsAgree, CutoverInv, NEW m \in Mems, Write(m) \/ ForgetDoc(m)
    PROVE  CutoverInv'
<1> SUFFICES ASSUME unruly' = {} PROVE (SnapshotIsCurrent /\ BuildShows /\ ReadyShows /\ PointerShows)'
  BY DEF CutoverInv
<1>1. PICK doc : CanonicalWrite(m, doc)
  BY DEF Write, ForgetDoc
<1>2. unruly = {} /\ build.phase = "none" /\ build' = build
  BY <1>1 DEF CanonicalWrite
<1>3. MarkBuildDirty /\ table' = table /\ pointer' = pointer /\ owed' = owed \cup {m}
  BY <1>1 DEF CanonicalWrite
<1>4. docs' = [docs EXCEPT ![m] = doc]
  BY <1>1 DEF CanonicalWrite
<1>5. (SnapshotIsCurrent /\ BuildShows)'
  BY <1>2 DEF SnapshotIsCurrent, BuildShows
<1>6. ReadyShows'
  <2> SUFFICES ASSUME NEW g \in Gens, Has(g, {"ready"})', ~recs'[g].dirty PROVE FALSE
    BY DEF ReadyShows
  <2>1. recs[g] # Nothing /\ recs'[g].status = recs[g].status
    BY <1>3, DirtyKeeps DEF Has
  <2>2. Has(g, Open)
    BY <2>1 DEF Has, Open
  <2>3. recs[g] \in GenerationRecord
    BY <2>1, RecordType
  <2>4. recs'[g] = [recs[g] EXCEPT !.dirty = TRUE]
    BY <1>3, <2>2 DEF MarkBuildDirty
  <2>5. recs'[g].dirty = TRUE
    BY <2>3, <2>4 DEF GenerationRecord
  <2> QED BY <2>5
<1>7. PointerShows'
  <2> SUFFICES ASSUME NEW n \in (Recallable \ owed)'
      PROVE  Shows(pointer, n)'
    BY <1>3 DEF PointerShows
  <2>1. n \in Mems /\ n # m /\ n \notin owed
    BY <1>3 DEF Recallable
  <2>2. docs'[n] = docs[n]
    BY <1>4, <2>1 DEF GenTypeOK
  <2>3. n \in Recallable \ owed
    BY <2>1, <2>2 DEF Recallable
  <2>4. Shows(pointer, n)
    BY <1>2, <2>3 DEF CutoverInv, PointerShows
  <2> QED BY <1>1, <1>3, <2>2, <2>4 DEF Shows, Current, SameText, CanonicalWrite
<1> QED BY <1>5, <1>6, <1>7

\* A change of confidence beside a build is a drift, and takes nothing else from what is
\* shown; beside none it hides one memory, which is owed.
LEMMA AdjustCuts ==
    ASSUME GenTypeOK, RecordsAgree, CutoverInv, NEW m \in Mems, Adjust(m)
    PROVE  CutoverInv'
<1> SUFFICES ASSUME unruly = {} PROVE CutoverInv'
  BY DEF CutoverInv, Adjust
<1>1. /\ UNCHANGED <<recs, pointer, table, build>> /\ owed' = owed \cup {m}
      /\ drifted' = IF Built THEN drifted \cup {m} ELSE drifted
  BY DEF Adjust
<1>2. /\ docs[m] # Nothing /\ docs'[m] # Nothing /\ SameText(docs'[m], docs[m])
      /\ \A n \in Mems : n # m => docs'[n] = docs[n]
  BY AdjustEffect
<1>3. \A n \in Mems : n # m => \A d : Current(d, n)' <=> Current(d, n)
  BY <1>1, <1>2 DEF Current, SameText
<1>4. \A n \in Mems : docs'[n] = Nothing <=> docs[n] = Nothing
  BY <1>2
<1>5. CASE Built
  <2>1. \A d : Current(d, m) => Current(d, m)'
    BY <1>1, <1>2, <1>5 DEF Current, SameText
  <2>2. \A n \in Mems : \A d : Current(d, n) => Current(d, n)'
    BY <1>3, <2>1
  <2>3. \A g \in Gens : \A n \in Mems : Shows(g, n) => Shows(g, n)'
    BY <1>1, <2>2 DEF Shows
  <2> QED BY <1>1, <1>4, <2>2, <2>3, TableKeeps
<1>6. CASE ~Built
  <2>1. (SnapshotIsCurrent /\ BuildShows /\ ReadyShows)'
    BY <1>1, <1>6, NothingBuilt
  <2>2. PointerShows'
    <3> SUFFICES ASSUME NEW n \in Recallable', n \notin owed' PROVE Shows(pointer, n)'
      BY <1>1 DEF PointerShows
    <3>1. n \in Mems /\ n # m /\ n \in Recallable \ owed
      BY <1>1, <1>4 DEF Recallable
    <3>2. Shows(pointer, n)
      BY <3>1 DEF CutoverInv, PointerShows
    <3> QED BY <1>1, <1>3, <3>1, <3>2 DEF Shows
  <2> QED BY <2>1, <2>2 DEF CutoverInv
<1> QED BY <1>5, <1>6

LEMMA ProjectCuts ==
    ASSUME GenTypeOK, RecordsAgree, CutoverInv, NEW m \in Mems, Project(m)
    PROVE  CutoverInv'
<1> SUFFICES ASSUME unruly = {} PROVE CutoverInv'
  BY DEF CutoverInv, Project
<1>1. /\ UNCHANGED <<docs, recs, pointer, build>> /\ owed' = owed \ {m}
      /\ table' = IF docs[m] = Nothing THEN {r \in table : r.mem # m}
                  ELSE Published(Active, m, docs[m])
      /\ drifted' = IF Built THEN drifted ELSE drifted \ {m}
  BY DEF Project
<1>2. Active = pointer /\ pointer \in Gens
  BY ActiveIsPointer DEF GenTypeOK
<1>3. \A n \in Mems : n # m => \A d : Current(d, n)' <=> Current(d, n)
  BY <1>1 DEF Current, SameText
<1>4. docs[m] # Nothing => Shows(pointer, m)'
  <2>1. PICK new : new = [gen |-> pointer, mem |-> m, doc |-> docs[m]]
    OBVIOUS
  <2>2. docs[m] # Nothing => new \in table'
    BY <1>1, <1>2, <2>1 DEF Published
  <2>3. new.gen = pointer /\ new.mem = m /\ new.doc = docs[m]
    BY <2>1
  <2>4. Current(new.doc, m)'
    BY <1>1, <2>3 DEF Current, SameText
  <2> QED BY <1>1, <2>2, <2>3, <2>4 DEF Shows
<1>5. ASSUME NEW g \in Gens, NEW n \in Mems, n # m, Shows(g, n) PROVE Shows(g, n)'
  <2>1. PICK r \in table : r.gen = g /\ r.mem = n /\ Current(r.doc, n)
    BY <1>5 DEF Shows
  <2>2. r \in table'
    BY <1>1, <1>5, <2>1 DEF Published
  <2> QED BY <1>3, <1>5, <2>1, <2>2 DEF Shows
<1>6. CASE Built
  <2>1. drifted' = drifted
    BY <1>1, <1>6
  <2>2. \A n \in Mems : \A d : Current(d, n) => Current(d, n)'
    BY <1>1, <2>1 DEF Current, SameText
  <2>3. ASSUME NEW g \in Gens, Shows(g, m), docs[m] # Nothing PROVE Shows(g, m)'
    <3>1. table' = Published(pointer, m, docs[m]) /\ Current(docs[m], m)
      BY <1>1, <1>2, <2>3 DEF Current, SameText
    <3> QED BY <1>1, <1>2, <2>1, <2>3, <3>1, PublishedKeeps
  <2>4. \A g \in Gens : \A n \in Mems : Shows(g, n) /\ docs[n] # Nothing => Shows(g, n)'
    BY <1>5, <2>3
  <2> QED BY <1>1, <1>4, <2>2, <2>4, TableKeeps
<1>7. CASE ~Built
  <2>1. (SnapshotIsCurrent /\ BuildShows /\ ReadyShows)'
    BY <1>1, <1>7, NothingBuilt
  <2>2. PointerShows'
    <3> SUFFICES ASSUME NEW n \in Recallable', n \notin owed' PROVE Shows(pointer, n)'
      BY <1>1 DEF PointerShows
    <3>1. n \in Mems /\ docs[n] # Nothing /\ n \in Recallable
      BY <1>1 DEF Recallable
    <3>2. CASE n = m
      BY <1>4, <3>1, <3>2
    <3>3. CASE n # m
      <4>1. Shows(pointer, n)
        BY <1>1, <3>1, <3>3 DEF CutoverInv, PointerShows
      <4>2. PICK g \in Gens : g = pointer
        BY <1>2
      <4>3. Shows(g, n)'
        BY <1>5, <3>1, <3>3, <4>1, <4>2
      <4> QED BY <1>1, <4>2, <4>3
    <3> QED BY <3>2, <3>3
  <2> QED BY <2>1, <2>2 DEF CutoverInv
<1> QED BY <1>6, <1>7

LEMMA StageCuts ==
    ASSUME GenTypeOK, RecordsAgree, BuilderAgrees, CutoverInv, StageGeneration
    PROVE  CutoverInv'
<1> SUFFICES ASSUME unruly' = {} PROVE (SnapshotIsCurrent /\ BuildShows /\ ReadyShows /\ PointerShows)'
  BY DEF CutoverInv
<1>1. UNCHANGED <<docs, drifted, owed, pointer, table, build, unruly>>
  BY DEF StageGeneration, canonical
<1>2. SnapshotIsCurrent /\ BuildShows /\ ReadyShows /\ PointerShows
  BY <1>1 DEF CutoverInv
<1>3. PICK next \in Gens :
        /\ recs[next] = Nothing
        /\ recs'[next].status = "ready" => Recallable = {}
        /\ \A g \in Gens : g # next => recs'[g] = recs[g]
  BY StageEffect
<1>4. /\ Recallable' = Recallable /\ pointer \in Gens /\ Recallable \subseteq Mems
      /\ \A g \in Gens : \A m \in Mems : Shows(g, m)' <=> Shows(g, m)
  BY <1>1, ShowsSame DEF Recallable, GenTypeOK
<1>5. (SnapshotIsCurrent /\ PointerShows)'
  <2>1. SnapshotIsCurrent'
    BY <1>1, <1>2, <1>4 DEF SnapshotIsCurrent, Current, SameText
  <2>2. PointerShows'
    BY <1>1, <1>2, <1>4 DEF PointerShows
  <2> QED BY <2>1, <2>2
<1>6. BuildShows'
  <2>1. build.phase # "none" => build.gen \in Gens /\ build.gen # next
    BY <1>3 DEF BuilderAgrees, GenTypeOK, Build
  <2>2. build.phase # "none" => (Has(build.gen, Open)' <=> Has(build.gen, Open))
    BY <1>1, <1>3, <2>1 DEF Has
  <2> QED BY <1>1, <1>2, <1>4, <2>1, <2>2 DEF BuildShows
<1>7. ReadyShows'
  <2> SUFFICES ASSUME NEW g \in Gens, Has(g, {"ready"})', ~recs'[g].dirty,
                      NEW m \in Recallable
      PROVE  Shows(g, m)
    BY <1>1, <1>4 DEF ReadyShows
  <2>1. CASE g = next
    BY <1>3, <2>1 DEF Has
  <2>2. CASE g # next
    BY <1>2, <1>3, <2>2 DEF Has, ReadyShows
  <2> QED BY <2>1, <2>2
<1> QED BY <1>5, <1>6, <1>7

LEMMA StartCuts ==
    ASSUME GenTypeOK, RecordsAgree, CutoverInv, NEW g \in Gens, StartBuild(g)
    PROVE  CutoverInv'
<1> SUFFICES ASSUME unruly' = {} PROVE (SnapshotIsCurrent /\ BuildShows /\ ReadyShows /\ PointerShows)'
  BY DEF CutoverInv
<1>1. UNCHANGED <<docs, drifted, owed, pointer, recs, table, unruly>>
  BY DEF StartBuild, canonical
<1>2. ReadyShows /\ PointerShows
  BY <1>1 DEF CutoverInv
<1>3. build'.snap = docs /\ build'.todo = Recallable /\ build'.gen = g
  BY DEF StartBuild, NoBuild
<1>4. /\ Recallable' = Recallable /\ pointer \in Gens /\ Recallable \subseteq Mems
      /\ \A h \in Gens : \A s : Has(h, s)' <=> Has(h, s)
      /\ \A h \in Gens : \A m \in Mems : Shows(h, m)' <=> Shows(h, m)
  BY <1>1, ShowsSame DEF Recallable, Has, GenTypeOK
<1>5. SnapshotIsCurrent'
  BY <1>1, <1>3 DEF SnapshotIsCurrent, Current, SameText
<1>6. BuildShows'
  BY <1>3, <1>4 DEF BuildShows
<1>7. (ReadyShows /\ PointerShows)'
  BY <1>1, <1>2, <1>4 DEF ReadyShows, PointerShows
<1> QED BY <1>5, <1>6, <1>7

\* What the builder checks is what is canonical, so that it publishes all of
\* its snapshot as long as its generation is open or active.
LEMMA CheckCuts ==
    ASSUME GenTypeOK, RecordsAgree, CutoverInv, NEW m \in Mems, CheckPublish(m)
    PROVE  CutoverInv'
<1> SUFFICES ASSUME unruly' = {} PROVE (SnapshotIsCurrent /\ BuildShows /\ ReadyShows /\ PointerShows)'
  BY DEF CutoverInv
<1>1. UNCHANGED <<docs, drifted, owed, pointer, recs, table, unruly>> /\ build.phase = "building"
  BY DEF CheckPublish, canonical
<1>2. SnapshotIsCurrent /\ BuildShows /\ ReadyShows /\ PointerShows
  BY <1>1 DEF CutoverInv
<1>3. /\ build'.phase = build.phase /\ build'.snap = build.snap /\ build'.gen = build.gen
      /\ build'.todo = build.todo \ {m}
      /\ build'.checked = IF BuilderMayPublish(m) THEN build.checked \cup {m} ELSE build.checked
  BY DEF CheckPublish, GenTypeOK, Build
<1>4. Active = pointer
  BY ActiveIsPointer
<1>5. /\ Recallable' = Recallable /\ \A h \in Gens : \A s : Has(h, s)' <=> Has(h, s)
      /\ \A h \in Gens : \A n \in Mems : Shows(h, n)' <=> Shows(h, n)
  BY <1>1, ShowsSame DEF Recallable, Has
<1>6. build.gen \in Gens /\ pointer \in Gens /\ Recallable \subseteq Mems
  BY DEF GenTypeOK, Build, Recallable
<1>7. SnapshotIsCurrent'
  BY <1>1, <1>2, <1>3 DEF SnapshotIsCurrent, Current, SameText, Recallable
<1>8. BuildShows'
  <2> SUFFICES ASSUME Has(build.gen, Open) \/ build.gen = pointer,
                      NEW n \in Recallable \ (build'.todo \cup build'.checked)
      PROVE  Shows(build.gen, n)
    BY <1>1, <1>3, <1>5, <1>6 DEF BuildShows
  <2>1. m \in Recallable => BuilderMayPublish(m)
    BY <1>1, <1>2, <1>4 DEF BuilderMayPublish, SnapshotIsCurrent, Current, SameText, Recallable
  <2>2. n \notin build.todo \cup build.checked
    BY <1>3, <2>1
  <2> QED BY <1>1, <1>2, <2>2 DEF BuildShows
<1>9. (ReadyShows /\ PointerShows)'
  BY <1>1, <1>2, <1>5, <1>6 DEF ReadyShows, PointerShows
<1> QED BY <1>7, <1>8, <1>9

LEMMA PublishCuts ==
    ASSUME GenTypeOK, RecordsAgree, SnapshotCovers, CutoverInv, NEW m \in Mems, PublishRows(m)
    PROVE  CutoverInv'
<1> SUFFICES ASSUME unruly' = {} PROVE (SnapshotIsCurrent /\ BuildShows /\ ReadyShows /\ PointerShows)'
  BY DEF CutoverInv
<1>1. /\ UNCHANGED <<docs, drifted, owed, pointer, recs, unruly>>
      /\ build.phase = "building" /\ m \in build.checked
      /\ table' = Published(build.gen, m, build.snap[m])
  BY DEF PublishRows, canonical
<1>2. SnapshotIsCurrent /\ BuildShows /\ ReadyShows /\ PointerShows
  BY <1>1 DEF CutoverInv
<1>3. /\ build'.phase = build.phase /\ build'.snap = build.snap /\ build'.gen = build.gen
      /\ build'.todo = build.todo /\ build'.checked = build.checked \ {m}
  BY DEF PublishRows, GenTypeOK, Build
<1>4. build.gen \in Gens /\ pointer \in Gens /\ Recallable \subseteq Mems
  BY DEF GenTypeOK, Build, Recallable
<1>5. Current(build.snap[m], m)
  BY <1>1, <1>2 DEF SnapshotIsCurrent, SnapshotCovers, Recallable
<1>6. PICK doc : doc = build.snap[m]
  OBVIOUS
<1>7. /\ \A g \in Gens : g = build.gen => Shows(g, m)'
      /\ \A g \in Gens : \A n \in Mems : Shows(g, n) => Shows(g, n)'
  BY <1>1, <1>4, <1>5, <1>6, PublishedKeeps
<1>8. Recallable' = Recallable /\ \A h \in Gens : \A s : Has(h, s)' <=> Has(h, s)
  BY <1>1 DEF Recallable, Has
<1>9. SnapshotIsCurrent'
  BY <1>1, <1>2, <1>3 DEF SnapshotIsCurrent, Current, SameText, Recallable
<1>10. BuildShows'
  BY <1>1, <1>2, <1>3, <1>4, <1>7, <1>8 DEF BuildShows
<1>11. (ReadyShows /\ PointerShows)'
  BY <1>1, <1>2, <1>4, <1>7, <1>8 DEF ReadyShows, PointerShows
<1> QED BY <1>9, <1>10, <1>11

LEMMA NoteCuts ==
    ASSUME GenTypeOK, RecordsAgree, BuilderAgrees, CutoverInv, NoteGenerationProgress
    PROVE  CutoverInv'
<1> SUFFICES ASSUME unruly' = {} PROVE (SnapshotIsCurrent /\ BuildShows /\ ReadyShows /\ PointerShows)'
  BY DEF CutoverInv
<1>1. /\ UNCHANGED <<docs, drifted, owed, pointer, table, unruly>>
      /\ build.phase = "built" /\ build'.phase = "none"
  BY DEF NoteGenerationProgress, NoBuild, canonical
<1>2. SnapshotIsCurrent /\ BuildShows /\ ReadyShows /\ PointerShows
  BY <1>1 DEF CutoverInv
<1>3. /\ Recallable' = Recallable /\ pointer \in Gens /\ Recallable \subseteq Mems
      /\ \A h \in Gens : \A m \in Mems : Shows(h, m)' <=> Shows(h, m)
  BY <1>1, ShowsSame DEF Recallable, GenTypeOK
<1>4. (SnapshotIsCurrent /\ BuildShows)'
  BY <1>1 DEF SnapshotIsCurrent, BuildShows
<1>5. PointerShows'
  BY <1>1, <1>2, <1>3 DEF PointerShows
<1>6. ReadyShows'
  <2> SUFFICES ASSUME NEW g \in Gens, Has(g, {"ready"})', ~recs'[g].dirty,
                      NEW m \in Recallable
      PROVE  Shows(g, m)
    BY <1>1, <1>3 DEF ReadyShows
  <2>1. CASE recs'[g] = recs[g]
    BY <1>2, <2>1 DEF Has, ReadyShows
  <2>2. CASE recs'[g] # recs[g]
    <3>1. Has(build.gen, Open)
      BY <2>2 DEF NoteGenerationProgress
    <3>2. g = build.gen
      BY <2>2, <3>1, NoteEffect
    <3> QED BY <1>1, <1>2, <3>1, <3>2 DEF BuildShows, BuilderAgrees
  <2> QED BY <2>1, <2>2
<1> QED BY <1>4, <1>5, <1>6

LEMMA ActivateCuts ==
    ASSUME GenTypeOK, RecordsAgree, CutoverInv, NEW g \in Gens, ActivateGeneration(g)
    PROVE  CutoverInv'
<1> SUFFICES ASSUME unruly' = {} PROVE (SnapshotIsCurrent /\ BuildShows /\ ReadyShows /\ PointerShows)'
  BY DEF CutoverInv
<1>1. /\ UNCHANGED <<docs, drifted, owed, table, build>>
      /\ unruly' = IF Has(g, {"retired"}) THEN unruly \cup {"rollback"} ELSE unruly
  BY DEF ActivateGeneration, canonical
<1>2. unruly = {} /\ ~Has(g, {"retired"})
  BY <1>1
<1>3. SnapshotIsCurrent /\ BuildShows /\ ReadyShows /\ PointerShows
  BY <1>2 DEF CutoverInv
<1>4. /\ pointer' = g
      /\ Has(g, {"ready"}) /\ ~recs[g].dirty
      /\ recs'[g].status = "active" /\ recs'[pointer].status = "retired"
      /\ \A h \in Gens \ {g, pointer} : recs'[h] = recs[h]
  BY <1>2, ActivateEffect
<1>5. /\ Recallable' = Recallable /\ Recallable \subseteq Mems
      /\ \A h \in Gens : \A m \in Mems : Shows(h, m)' <=> Shows(h, m)
  BY <1>1, ShowsSame DEF Recallable
<1>6. \A h \in Gens : \A s \in SUBSET Open : Has(h, s)' => Has(h, s)
  BY <1>4 DEF Has, Open
<1>7. SnapshotIsCurrent'
  BY <1>1, <1>3, <1>5 DEF SnapshotIsCurrent, Current, SameText
<1>8. BuildShows'
  <2>1. build.gen \in Gens
    BY DEF GenTypeOK, Build
  <2>2. Has(build.gen, Open)' \/ build.gen = pointer' => Has(build.gen, Open)
    BY <1>1, <1>4, <1>6, <2>1 DEF Has, Open
  <2> QED BY <1>1, <1>3, <1>5, <2>1, <2>2 DEF BuildShows
<1>9. ReadyShows'
  <2>1. \A h \in Gens : Has(h, {"ready"})' => recs'[h] = recs[h] /\ Has(h, {"ready"})
    BY <1>4 DEF Has
  <2> QED BY <1>1, <1>3, <1>5, <2>1 DEF ReadyShows
<1>10. PointerShows'
  BY <1>1, <1>3, <1>4, <1>5 DEF PointerShows, ReadyShows
<1> QED BY <1>7, <1>8, <1>9, <1>10

LEMMA AbandonCuts ==
    ASSUME GenTypeOK, RecordsAgree, CutoverInv, NEW g \in Gens, AbandonGeneration(g)
    PROVE  CutoverInv'
<1> SUFFICES ASSUME unruly' = {} PROVE (SnapshotIsCurrent /\ BuildShows /\ ReadyShows /\ PointerShows)'
  BY DEF CutoverInv
<1>1. UNCHANGED <<docs, drifted, owed, pointer, table, build, unruly>>
  BY DEF AbandonGeneration, canonical
<1>2. SnapshotIsCurrent /\ BuildShows /\ ReadyShows /\ PointerShows
  BY <1>1 DEF CutoverInv
<1>3. recs'[g].status = "retired" /\ \A h \in Gens : h # g => recs'[h] = recs[h]
  BY AbandonEffect
<1>4. /\ Recallable' = Recallable /\ Recallable \subseteq Mems
      /\ build.gen \in Gens /\ pointer \in Gens
      /\ \A h \in Gens : \A m \in Mems : Shows(h, m)' <=> Shows(h, m)
  BY <1>1, ShowsSame DEF Recallable, GenTypeOK, Build
<1>5. \A h \in Gens : Has(h, Open)' => Has(h, Open)
  BY <1>3 DEF Has, Open
<1>6. \A h \in Gens : Has(h, {"ready"})' => recs'[h] = recs[h] /\ Has(h, {"ready"})
  BY <1>3 DEF Has
<1>7. (SnapshotIsCurrent /\ PointerShows)'
  <2>1. SnapshotIsCurrent'
    BY <1>1, <1>2, <1>4 DEF SnapshotIsCurrent, Current, SameText
  <2>2. PointerShows'
    BY <1>1, <1>2, <1>4 DEF PointerShows
  <2> QED BY <2>1, <2>2
<1>8. BuildShows'
  <2>1. Has(build.gen, Open)' => Has(build.gen, Open)
    BY <1>1, <1>4, <1>5
  <2> QED BY <1>1, <1>2, <1>4, <2>1 DEF BuildShows
<1>9. ReadyShows'
  BY <1>1, <1>2, <1>4, <1>6 DEF ReadyShows
<1> QED BY <1>7, <1>8, <1>9

\* What the reaper deletes is neither read, nor built, nor about to be.
LEMMA ReapCuts ==
    ASSUME GenTypeOK, RecordsAgree, DoomedStay, CutoverInv, NEW g \in Gens, Reap(g)
    PROVE  CutoverInv'
<1> SUFFICES ASSUME unruly = {} PROVE CutoverInv'
  BY DEF CutoverInv, Reap
<1>1. UNCHANGED <<docs, drifted, owed, recs, pointer, build>> /\ g \in doomed
      /\ table' = {r \in table : r.gen # g}
  BY DEF Reap, canonical
<1>2. Has(g, {"retired"})
  BY <1>1 DEF DoomedStay
<1>3. g # pointer /\ ~Has(g, Open)
  BY <1>2 DEF Has, RecordsAgree, Open
<1>4. \A h \in Gens : \A m \in Mems :
        Shows(h, m) /\ (h = pointer \/ Has(h, Open)) => Shows(h, m)'
  BY <1>1, <1>3 DEF Shows, Current, SameText
<1>5. \A m \in Mems : \A d : Current(d, m) => Current(d, m)'
  BY <1>1 DEF Current, SameText
<1> QED BY <1>1, <1>4, <1>5, TableKeeps

LEMMA RestCuts ==
    ASSUME GenTypeOK, RecordsAgree, CutoverInv,
           FinishBuild \/ TakeBackup \/ ListRetired \/ RestoreStore \/ UNCHANGED genvars
    PROVE  CutoverInv'
<1>1. ASSUME FinishBuild PROVE CutoverInv'
  <2> SUFFICES ASSUME unruly' = {} PROVE (SnapshotIsCurrent /\ BuildShows /\ ReadyShows /\ PointerShows)'
    BY DEF CutoverInv
  <2>1. UNCHANGED <<docs, drifted, owed, pointer, recs, table, unruly>> /\ build.phase = "building"
    BY <1>1 DEF FinishBuild, canonical
  <2>2. SnapshotIsCurrent /\ BuildShows /\ ReadyShows /\ PointerShows
    BY <2>1 DEF CutoverInv
  <2>3. /\ build'.snap = build.snap /\ build'.gen = build.gen
        /\ build'.todo = build.todo /\ build'.checked = build.checked
    BY <1>1 DEF FinishBuild, GenTypeOK, Build
  <2>4. /\ Recallable' = Recallable /\ \A h \in Gens : \A s : Has(h, s)' <=> Has(h, s)
        /\ \A h \in Gens : \A m \in Mems : Shows(h, m)' <=> Shows(h, m)
    BY <2>1, ShowsSame DEF Recallable, Has
  <2>5. build.gen \in Gens /\ pointer \in Gens /\ Recallable \subseteq Mems
    BY DEF GenTypeOK, Build, Recallable
  <2>6. SnapshotIsCurrent'
    BY <2>1, <2>2, <2>3, <2>4 DEF SnapshotIsCurrent, Current, SameText
  <2>7. BuildShows'
    BY <2>1, <2>2, <2>3, <2>4, <2>5 DEF BuildShows
  <2>8. (ReadyShows /\ PointerShows)'
    BY <2>1, <2>2, <2>4, <2>5 DEF ReadyShows, PointerShows
  <2> QED BY <2>6, <2>7, <2>8
<1>2. ASSUME UNCHANGED <<docs, drifted, owed, recs, pointer, build, table, unruly>> PROVE CutoverInv'
  <2>1. CASE unruly # {}
    BY <1>2, <2>1 DEF CutoverInv
  <2>2. CASE unruly = {}
    <3>1. \A g \in Gens : \A m \in Mems : Shows(g, m)' <=> Shows(g, m)
      BY <1>2, ShowsSame
    <3>2. \A m \in Mems : \A d : Current(d, m) => Current(d, m)'
      BY <1>2 DEF Current, SameText
    <3> QED BY <1>2, <2>2, <3>1, <3>2, TableKeeps
  <2> QED BY <2>1, <2>2
<1>3. ASSUME RestoreStore PROVE CutoverInv'
  BY <1>3 DEF RestoreStore, CutoverInv
<1> QED BY <1>1, <1>2, <1>3 DEF TakeBackup, ListRetired, genvars, canonical

LEMMA CutoverStep ==
    ASSUME GenTypeOK, RecordsAgree, SnapshotCovers, BuilderAgrees, DoomedStay, CutoverInv,
           [GenNext]_genvars
    PROVE  CutoverInv'
BY WriteCuts, AdjustCuts, ProjectCuts, StageCuts, StartCuts, CheckCuts, PublishCuts, NoteCuts,
   ActivateCuts, AbandonCuts, ReapCuts, RestCuts DEF GenNext

-----------------------------------------------------------------------------
(* Theorems.                                                               *)

LEMMA Inductive == GenSpec => [](GenTypeOK /\ RecordsAgree /\ SnapshotCovers)
<1>1. GenInit => GenTypeOK /\ RecordsAgree /\ SnapshotCovers
  BY InitStep DEF GenInit, NoBuild, SnapshotCovers
<1> QED BY <1>1, RecordsStep, SnapshotStep, PTL DEF GenSpec

\* Every record, row and document keeps its type; in particular the builder
\* never publishes for a memory its snapshot does not have.
THEOREM GenerationsTypeCorrect == GenSpec => []GenTypeOK
BY Inductive, PTL

\* Whatever is staged, built, activated, abandoned, rolled back and restored,
\* in any order: the active record is the pointer's, and at most one
\* generation is under construction.
THEOREM OneActiveOnePipelineAlways == GenSpec => []OneActiveOnePipeline
<1>1. GenTypeOK /\ RecordsAgree => OneActiveOnePipeline
  <2> SUFFICES ASSUME GenTypeOK, RecordsAgree PROVE Cardinality(Pipeline) <= 1
    BY DEF RecordsAgree, OneActiveOnePipeline
  <2>1. CASE Pipeline = {}
    BY <2>1, FS_EmptySet
  <2>2. CASE Pipeline # {}
    <3>1. PICK g \in Pipeline : TRUE
      BY <2>2
    <3>2. Pipeline = {g}
      BY <3>1 DEF RecordsAgree
    <3>3. Cardinality({g}) = 1
      BY FS_Singleton
    <3> QED BY <3>2, <3>3
  <2> QED BY <2>1, <2>2
<1> QED BY <1>1, Inductive, PTL

LEMMA CutoverInductive ==
    GenSpec => [](GenTypeOK /\ RecordsAgree /\ BuilderAgrees /\ DoomedStay /\ CutoverInv)
<1> DEFINE Inv == /\ GenTypeOK /\ RecordsAgree /\ SnapshotCovers
                  /\ BuilderAgrees /\ DoomedStay /\ CutoverInv
<1>1. GenInit => Inv
  <2> SUFFICES ASSUME GenInit PROVE BuilderAgrees /\ DoomedStay /\ CutoverInv
    BY InitStep DEF GenInit, NoBuild, SnapshotCovers
  <2>1. build.phase = "none" /\ doomed = {} /\ Recallable = {}
    BY DEF GenInit, NoBuild, Recallable
  <2> QED BY <2>1 DEF BuilderAgrees, DoomedStay, CutoverInv, SnapshotIsCurrent, BuildShows,
                      ReadyShows, PointerShows
<1>2. Inv /\ [GenNext]_genvars => Inv'
  <2> SUFFICES ASSUME Inv, [GenNext]_genvars PROVE Inv'
    OBVIOUS
  <2>1. (GenTypeOK /\ RecordsAgree)' /\ SnapshotCovers'
    BY RecordsStep, SnapshotStep
  <2>2. BuilderAgrees' /\ DoomedStay'
    BY BuilderAgreesStep, DoomedStep
  <2>3. CutoverInv'
    BY CutoverStep
  <2> QED BY <2>1, <2>2, <2>3
<1> QED BY <1>1, <1>2, PTL DEF GenSpec

\* A cutover loses no text: as long as writes of texts have waited for builds and their
\* reports and nothing was rolled back or restored, readers of the active generation find
\* the text of every recallable memory, or the worker owes it to them; and its confidence,
\* unless that changed beside a build or a ready generation.  The counts that an
\* activation compares are not even needed.
THEOREM CutoverLosesNothing == GenSpec => []ActiveIsServed
<1>1. GenTypeOK /\ RecordsAgree /\ CutoverInv => ActiveIsServed
  BY ActiveIsPointer DEF CutoverInv, PointerShows, Shows, ActiveIsServed
<1> QED BY <1>1, CutoverInductive, PTL

\* The reaper spares what is read, as long as nothing revives a generation it
\* has listed: retired records stay retired.
THEOREM ReaperSparesTheActive == GenSpec => ReaperSparesActive
<1>1. GenTypeOK /\ RecordsAgree /\ DoomedStay /\ unruly \cap Revives = {} =>
        \A g \in Gens : Reap(g) => g # Active
  <2> SUFFICES ASSUME GenTypeOK, RecordsAgree, DoomedStay, unruly \cap Revives = {},
                      NEW g \in Gens, Reap(g)
      PROVE  g # pointer
    BY ActiveIsPointer
  <2>1. Has(g, {"retired"})
    BY DEF DoomedStay, Reap
  <2> QED BY <2>1 DEF Has, RecordsAgree
<1>2. GenTypeOK /\ RecordsAgree /\ DoomedStay =>
        [unruly \cap Revives = {} => \A g \in Gens : Reap(g) => g # Active]_genvars
  BY <1>1
<1> QED BY <1>2, CutoverInductive, PTL DEF ReaperSparesActive

=============================================================================
