------------------------------ MODULE DriveLoop ------------------------------
(***************************************************************************)
(* The batches of the projection worker: which jobs a drive attempts.      *)
(*                                                                         *)
(* The jobs are kept, and listed, in the order of the memories' keys.  A   *)
(* drive makes passes over fresh listings.  A pass attempts the first Cap  *)
(* jobs of its listing at most, and stops when the drive has resolved Cap; *)
(* a pass that resolves nothing ends the drive.  A drive that resolved Cap *)
(* jobs is followed by another at once, any other by a wait for a commit   *)
(* or for the interval.  A job whose embedding fails gets its text-only    *)
(* row and stays pending, at its place in the order.                       *)
(*                                                                         *)
(* Abstractions.  An attempt is one step (Projection has its parts).  A    *)
(* job is the revision it asks for, 0 for none.  A memory of Failing has   *)
(* no embedding, ever: a stalled embedder, or a text it chokes on.         *)
(***************************************************************************)
EXTENDS Naturals, FiniteSets

CONSTANTS
    N,          \* memories are 1..N, in the order of their keys
    Failing,    \* those that cannot be embedded
    Cap,        \* MAX_PROJECTION_JOBS_PER_TICK
    MaxWrites,  \* bound on writes
    MaxAborts   \* bound on failed drives

Memories == 1..N

ASSUME DriveAssumption ==
    /\ {N, Cap, MaxWrites, MaxAborts} \subseteq Nat /\ Cap > 0
    /\ Failing \subseteq Memories

VARIABLES
    jobs,       \* the revision the job of each memory asks for, or 0
    text,       \* the revision of its rows, as far as text search goes
    driving,
    listing,    \* what is left of the listing of this pass
    attempted, resolved,    \* of this pass
    total,      \* resolved by the passes before it
    spent,      \* attempts of this drive
    writes, aborts

pass == <<listing, attempted, resolved>>
drivevars == <<jobs, text, driving, pass, total, spent, writes, aborts>>

DriveTypeOK ==
    /\ jobs \in [Memories -> 0..MaxWrites]
    /\ text \in [Memories -> 0..MaxWrites]
    /\ driving \in {"wait", "list", "pass"}
    /\ listing \subseteq [mem : Memories, rev : 1..MaxWrites]
    /\ attempted \in 0..Cap /\ resolved \in 0..Cap /\ total \in 0..Cap
    /\ spent \in Nat
    /\ writes \in 0..MaxWrites /\ aborts \in 0..MaxAborts

DriveInit ==
    /\ jobs = [m \in Memories |-> 0]
    /\ text = jobs
    /\ driving = "wait"
    /\ listing = {} /\ attempted = 0 /\ resolved = 0 /\ total = 0 /\ spent = 0
    /\ writes = 0 /\ aborts = 0

-----------------------------------------------------------------------------
\* A command that gives a memory a new revision, and a job.
Write(m) ==
    /\ writes < MaxWrites /\ writes' = writes + 1
    /\ jobs' = [jobs EXCEPT ![m] = writes']
    /\ UNCHANGED <<text, driving, pass, total, spent, aborts>>

StartDrive ==
    /\ driving = "wait"
    /\ driving' = "list"
    /\ total' = 0 /\ spent' = 0
    /\ UNCHANGED <<jobs, text, pass, writes, aborts>>

Pending == {[mem |-> m, rev |-> jobs[m]] : m \in {n \in Memories : jobs[n] # 0}}

\* run_limited, the head of its loop.
ListJobs ==
    /\ driving = "list"
    /\ listing' = Pending /\ attempted' = 0 /\ resolved' = 0
    /\ driving' = IF Pending = {} THEN "wait" ELSE "pass"
    /\ UNCHANGED <<jobs, text, total, spent, writes, aborts>>

\* Mutant: the count of attempts is one ahead.
PassIsFullEarly == total + resolved >= Cap \/ attempted + 1 >= Cap

\* The two caps that end a pass before its listing is through.
PassIsFull == total + resolved >= Cap \/ attempted >= Cap

IsNext(it) == \A other \in listing : it.mem <= other.mem

Resolves(it) == it.mem \notin Failing

\* process_job: a job that has moved on is left alone; the rows are written,
\* with a vector or without, and only with one is the job cleared.
Attempt ==
    /\ driving = "pass" /\ ~PassIsFull
    /\ \E it \in listing :
         /\ IsNext(it)
         /\ listing' = listing \ {it}
         /\ IF jobs[it.mem] # it.rev THEN UNCHANGED <<jobs, text, resolved>>
            ELSE /\ text' = [text EXCEPT ![it.mem] = it.rev]
                 /\ IF Resolves(it)
                    THEN jobs' = [jobs EXCEPT ![it.mem] = 0] /\ resolved' = resolved + 1
                    ELSE UNCHANGED <<jobs, resolved>>
    /\ attempted' = attempted + 1 /\ spent' = spent + 1
    /\ UNCHANGED <<driving, total, writes, aborts>>

\* A pass that resolved nothing, or the last job of a full batch, ends the drive.
EndPass ==
    /\ driving = "pass" /\ (listing = {} \/ PassIsFull)
    /\ IF resolved = 0 \/ total + resolved >= Cap
       THEN /\ driving' = IF total + resolved < Cap THEN "wait" ELSE "list"
            /\ total' = 0 /\ spent' = 0
       ELSE driving' = "list" /\ total' = total + resolved /\ UNCHANGED spent
    /\ listing' = {} /\ attempted' = 0 /\ resolved' = 0
    /\ UNCHANGED <<jobs, text, writes, aborts>>

\* An error of the store or the table: the drive is given up until the next tick.
DriveFails ==
    /\ driving = "pass" /\ aborts < MaxAborts /\ aborts' = aborts + 1
    /\ driving' = "wait"
    /\ listing' = {} /\ attempted' = 0 /\ resolved' = 0
    /\ UNCHANGED <<jobs, text, total, spent, writes>>

Drive == StartDrive \/ ListJobs \/ Attempt \/ EndPass

DriveNext == (\E m \in Memories : Write(m)) \/ Drive \/ DriveFails

DriveSpec == DriveInit /\ [][DriveNext]_drivevars

\* The task is scheduled, and its wait ends (the interval bounds it).
DriveFairSpec == DriveSpec /\ WF_drivevars(Drive)

-----------------------------------------------------------------------------
(* Properties.                                                             *)

\* The work of one drive is bounded however many jobs fail: a drive that goes
\* on has resolved something in every pass.
DriveIsBounded == spent <= Cap * (total + 1)

\* A job that can be resolved is, in the end, or a later one takes its place.
HealthyJobsResolve ==
    \A m \in Memories \ Failing : jobs[m] # 0 ~> jobs[m] = 0

\* A memory is found by its text in the end, whether it can be embedded or not
\* (a stalled embedder does not prevent lexical indexing).
TextIsIndexed ==
    \A m \in Memories : jobs[m] # 0 ~> (jobs[m] = 0 \/ text[m] = jobs[m])
=============================================================================
