------------------------------- MODULE MCDaemon -------------------------------
(***************************************************************************)
(* What must come to an end in the daemon, for TLC: a call that is retried *)
(* against restores and outages, the batches of the projection worker, the *)
(* embedding worker's queue, the life of the daemon itself, and the quotas *)
(* its connections share.  A behaviour is a behaviour of one of them,      *)
(* chosen at the start (focus); the others stay as they start, or are off. *)
(* Each is scheduled fairly while it is in focus.                          *)
(***************************************************************************)
EXTENDS DriveLoop, MCRetry, Lifecycle, Limits, Sequences, TLC

CONSTANTS f1, f2

VARIABLES
    focus,
    watched,    \* the memory or the caller that is waited for, chosen at the start
    queue, generation, closed, stopping, inflight, caller, stamp, replied, worker, current

\* Two callers, one with two chunks, on a queue of one; one cancellation.
Q == INSTANCE EmbeddingQueue WITH
        Callers <- {"c1", "c2"}, Chunks <- [c1 |-> 2, c2 |-> 1], Capacity <- 1,
        MaxCancels <- 1, Shutdown <- "shutdown", Nobody <- "nobody", answer <- replied

\* Two channels of one frontend and one of another.
MCIdentities == {<<"f", "x">>, <<"f", "y">>, <<"g", "x">>}

ASSUME LifeInstance == LifecycleConstants
ASSUME LimitsInstance == LimitsConstants

Off == 0

DriveOff ==
    /\ jobs = Off /\ text = Off /\ driving = Off /\ listing = Off /\ attempted = Off
    /\ resolved = Off /\ total = Off /\ spent = Off /\ writes = Off /\ aborts = Off

QueueOff ==
    /\ queue = Off /\ generation = Off /\ closed = Off /\ stopping = Off /\ inflight = Off
    /\ caller = Off /\ stamp = Off /\ replied = Off /\ worker = Off /\ current = Off

queuevars == <<queue, generation, closed, stopping, inflight, caller, stamp, replied, worker,
               current>>
everything == <<focus, watched, vars, drivevars, lifevars, queuevars, limitvars>>

\* A call that is not in focus is not made, a daemon not started, no connection opened.
DaemonInit ==
    /\ focus \in {"call", "drive", "life", "queue", "limits"}
    /\ watched \in CASE focus = "drive" -> Memories \ Failing
                     [] focus = "queue" -> {"c1", "c2"}
                     [] OTHER -> {Off}
    /\ Init
    /\ IF focus = "drive" THEN DriveInit ELSE DriveOff
    /\ LifeInit /\ (focus # "life" => phase[Elder] = "none")
    /\ LimitsInit
    /\ IF focus = "queue" THEN Q!Init ELSE QueueOff

InCall(A) ==
    focus = "call" /\ A /\ UNCHANGED <<focus, watched, drivevars, lifevars, queuevars, limitvars>>
InDrive(A) ==
    focus = "drive" /\ A /\ UNCHANGED <<focus, watched, vars, lifevars, queuevars, limitvars>>
InLife(A) ==
    focus = "life" /\ A /\ UNCHANGED <<focus, watched, vars, drivevars, queuevars, limitvars>>
InQueue(A) ==
    focus = "queue" /\ A /\ UNCHANGED <<focus, watched, vars, drivevars, lifevars, limitvars>>
InLimits(A) ==
    focus = "limits" /\ A /\ UNCHANGED <<focus, watched, vars, drivevars, lifevars, queuevars>>

DaemonNext ==
    \/ InCall(Next) \/ InDrive(DriveNext) \/ InLife(LifeNext) \/ InQueue(Q!Next)
    \/ InLimits(LimitsNext)

\* Who is scheduled fairly: in each focus a task of it, or none.  One behaviour is in one
\* focus, so that tasks of different ones may share a number.
Task(n) ==
    \/ InCall(\/ n = 1 /\ \E k \in Calls : Frontend(k)
              \/ n = 2 /\ RestoreReplace
              \/ n = 3 /\ \E k \in Calls : Execute(<<k, "first", "sent">>)
              \/ n = 4 /\ \E k \in Calls : Execute(<<k, "first", "resent">>)
              \/ n = 5 /\ \E k \in Calls : Execute(<<k, "fresh", "sent">>)
              \/ n = 6 /\ \E k \in Calls : Execute(<<k, "fresh", "resent">>))
    \/ InDrive(n = 1 /\ Drive)
    \/ InLife(\/ n = 1 /\ FrontendStep(f1)
              \/ n = 2 /\ FrontendStep(f2)
              \/ n = 3 /\ Daemon(f1)
              \/ n = 4 /\ Daemon(f2)
              \/ n = 5 /\ Daemon(Elder))
    \/ InQueue(\/ n = 1 /\ Q!Worker
               \/ n = 2 /\ caller["c1"] # "idle" /\ Q!Submission("c1")
               \/ n = 3 /\ caller["c2"] # "idle" /\ Q!Submission("c2"))

DaemonSpec == DaemonInit /\ [][DaemonNext]_everything /\ \A n \in 1..6 : WF_everything(Task(n))

-----------------------------------------------------------------------------
(* What comes to an end                                                    *)

\* Whoever waits is told in the end: a host that has made a call, and a frontend that is
\* started, which is attached or says why not (f1 stands for either frontend: nothing tells
\* them apart).
EveryoneIsAnswered ==
    (\/ focus = "call" /\ \E k \in Calls : pc[k] = "begin"
     \/ focus = "life" /\ step[f1] = "probing")
        ~> (\/ focus = "call" /\ \A k \in Calls : pc[k] = "done"
            \/ focus = "life" /\ step[f1] \in {"attached", "failed", "gone"})

\* What is queued is worked off: the job of a memory that can be embedded, whatever the jobs
\* before it come to, and a request to embed that is queued before the worker has drained.
QueuedWorkEnds ==
    (\/ focus = "drive" /\ jobs[watched] # 0
     \/ focus = "queue" /\ Q!Outstanding(watched) /\ worker # "exited")
        ~> (\/ focus = "drive" /\ jobs[watched] = 0
            \/ focus = "queue" /\ ~Q!Outstanding(watched))
=============================================================================
