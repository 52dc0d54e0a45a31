------------------------ MODULE ProjectionDurability ------------------------
(***************************************************************************)
(* Projection under power failures.                                        *)
(*                                                                         *)
(* A commit is visible to the worker as soon as it is made, and durable    *)
(* when the journal is flushed: by the command that made it, before it is  *)
(* acknowledged, or by any other command's barrier.  The worker's own      *)
(* commits are deliberately not flushed (acknowledge_projection).  The     *)
(* journal is replayed in order, so that what a failure leaves is an       *)
(* earlier state of the store; the table has a durability of its own.      *)
(***************************************************************************)
EXTENDS Projection

CONSTANTS
    LoseCommands    \* a failure may fall between a commit and its barrier

ASSUME DurabilityAssumption == LoseCommands \in BOOLEAN

VARIABLES
    disk,       \* the canonical memories and the jobs the disk holds
    unflushed   \* a command has committed, and no barrier has followed

durableVars == <<vars, disk, unflushed>>

\* Mutant: the jobs are not in the journal of the memories.
ImageWithoutJobs == [canon |-> canon, jobs |-> [m \in Memories |-> NoJob]]

Image == [canon |-> canon, jobs |-> jobs]

DurableTypeOK ==
    /\ TypeOK
    /\ disk \in [canon : [Memories -> Memory], jobs : [Memories -> Job \cup {NoJob}]]
    /\ unflushed \in BOOLEAN

DurableInit == Init /\ disk = Image /\ unflushed = FALSE

Command == Canonical /\ unflushed' = TRUE /\ UNCHANGED disk

WorkerStep == Worker /\ UNCHANGED <<disk, unflushed>>

Failure == (DriveFails \/ Kill) /\ UNCHANGED <<disk, unflushed>>

\* persist_barrier of whatever command, everything committed so far.
Flush ==
    /\ unflushed
    /\ disk' = Image
    /\ unflushed' = FALSE
    /\ UNCHANGED vars

\* The machine loses power: the unflushed commits are gone, and the worker.
PowerLoss ==
    /\ faults < MaxFaults /\ faults' = faults + 1
    /\ unflushed => LoseCommands
    /\ canon' = disk.canon
    /\ jobs' = disk.jobs
    /\ unflushed' = FALSE
    /\ pc' = "down"
    /\ todo' = {} /\ progress' = FALSE /\ Dropped
    /\ UNCHANGED <<gen, rows, lexical, wgen, disk, commits, embedFails>>

DurableNext == Command \/ WorkerStep \/ Failure \/ Flush \/ PowerLoss

DurableSpec == DurableInit /\ [][DurableNext]_durableVars

FairDurableSpec == DurableSpec /\ WF_durableVars(WorkerStep)

\* Losing an acknowledgement of the worker only makes it republish: whatever
\* of its commits the disk has not seen, a memory without a durable job has
\* the rows it should have, unless a command has overtaken the disk.
AckLossIsHarmless ==
    ~unflushed =>
        \A m \in Memories : disk.jobs[m] = NoJob => Converged(m)

\* No job is lost: a memory that has none, in the store or on the disk after a power
\* failure, is shown as it is.
NothingIsLost == LagTellsTruth /\ AckLossIsHarmless
=============================================================================
