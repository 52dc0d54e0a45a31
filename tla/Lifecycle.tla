------------------------------ MODULE Lifecycle ------------------------------
(***************************************************************************)
(* The life of the daemon: frontends find one or spawn one, one of them    *)
(* gets the singleton lock and the socket, serves, and leaves when it has  *)
(* been idle or is told to.                                                *)
(*                                                                         *)
(* A frontend spawns one child at most, so a daemon is named after the     *)
(* frontend that spawned it; Elder is one that nobody here spawned.  A     *)
(* daemon holds the lock (an flock of its process) in the phases of        *)
(* Holding, and its listener is open in those of Listening: what dials it  *)
(* then waits in its backlog.                                              *)
(*                                                                         *)
(* Abstracted: time.  An idle window may pass whenever nothing happens in  *)
(* a daemon; a handshake runs out of time when it waits for a daemon that  *)
(* does not serve, and otherwise costs a fault; the attempts of a frontend *)
(* run out when no daemon is coming up or serving (the 1200 polls outlast  *)
(* a startup; the 30 attempts of the attachment need not).  One version of *)
(* the protocol, fewer clients than the daemon admits; what is sent after  *)
(* the attachment is in Retry.                                             *)
(***************************************************************************)
EXTENDS Naturals, FiniteSets

CONSTANTS Frontends, Elder, Nobody, MaxLifeFaults

Daemons == Frontends \cup {Elder}

VARIABLES
    phase,      \* daemon -> how far it is
    path,       \* the daemon whose socket the endpoint is, dead or alive
    active,     \* daemon -> connections its idle tracker counts
    rested,     \* daemons whose idle window has passed since the last activity
    dropped,    \* daemon -> connections it has accepted whose frontend hung up
    step,       \* frontend -> where it is
    conn,       \* frontend -> the daemon it is connected to
    taken,      \* frontends whose connection has been accepted
    unreaped,   \* frontends that have not seen their child exit
    disturbed,  \* frontends during whose start a daemon left (history)
    lifeFaults

daemonvars == <<phase, path, active, rested, dropped>>
frontvars == <<step, conn, taken, unreaped>>
lifevars == <<daemonvars, frontvars, disturbed, lifeFaults>>

Phases == {"none", "spawned", "locked", "bound", "serving", "leaving", "unlinked",
           "exited", "failed"}
Steps == {"off", "probing", "greeting", "waiting", "peeking", "shaking", "verified",
          "joining", "attached", "failed", "gone"}
InContact == {"greeting", "shaking", "joining", "attached"}
Starting == Steps \ {"off", "attached", "failed", "gone"}
Listening == {"bound", "serving", "leaving", "unlinked"}

\* Mutant: the lock is dropped before the endpoint is unlinked.
HoldingUntilStopped == {"locked", "bound", "serving"}

Holding == {"locked", "bound", "serving", "leaving", "unlinked"}

LifecycleTypeOK ==
    /\ phase \in [Daemons -> Phases]
    /\ path \in Daemons \cup {Nobody}
    /\ active \in [Daemons -> Nat] /\ rested \subseteq Daemons
    /\ dropped \in [Daemons -> Nat]
    /\ step \in [Frontends -> Steps]
    /\ conn \in [Frontends -> Daemons \cup {Nobody}]
    /\ taken \subseteq {f \in Frontends : conn[f] # Nobody}
    /\ unreaped \subseteq Frontends /\ disturbed \subseteq Frontends
    /\ lifeFaults \in 0..MaxLifeFaults

\* Finitely many frontends; Elder and nobody are none of them.
LifecycleConstants ==
    IsFiniteSet(Frontends) /\ Elder \notin Frontends /\ Nobody \notin Daemons /\ MaxLifeFaults \in Nat

\* Elder is being started, or there is none.
LifeInit ==
    /\ phase \in {[d \in Daemons |-> "none"], [[d \in Daemons |-> "none"] EXCEPT ![Elder] = "spawned"]}
    /\ path = Nobody
    /\ active = [d \in Daemons |-> 0] /\ rested = {}
    /\ dropped = [d \in Daemons |-> 0]
    /\ step = [f \in Frontends |-> "off"]
    /\ conn = [f \in Frontends |-> Nobody]
    /\ taken = {} /\ unreaped = {} /\ disturbed = {}
    /\ lifeFaults = 0

LifeFault == lifeFaults < MaxLifeFaults /\ lifeFaults' = lifeFaults + 1

(***************************************************************************)
(* The daemon process.                                                     *)
(***************************************************************************)
Enter(d, p) == phase' = [phase EXCEPT ![d] = p]
Held == \E d \in Daemons : phase[d] \in Holding

\* The connections of a process that ends are reset, and its tables are gone.
Over(d) ==
    /\ active' = [active EXCEPT ![d] = 0]
    /\ rested' = rested \ {d}
    /\ dropped' = [dropped EXCEPT ![d] = 0]

\* Whoever is starting sees a daemon leave.
Disturb == disturbed' = disturbed \cup {f \in Frontends : step[f] \in Starting}

\* acquire_singleton: the exclusive lock, or AlreadyRunning.  A frontend that
\* probes the lock holds a shared one.
TakeLock(d) ==
    /\ phase[d] = "spawned"
    /\ IF Held \/ \E f \in Frontends : step[f] = "peeking"
       THEN Enter(d, "failed") ELSE Enter(d, "locked")
    /\ UNCHANGED <<path, active, rested, dropped, frontvars, disturbed, lifeFaults>>

\* recover_stale_endpoint and build_listener: whatever is there is removed.
Bind(d) ==
    /\ phase[d] = "locked"
    /\ Enter(d, "bound") /\ path' = d
    /\ UNCHANGED <<active, rested, dropped, frontvars, disturbed, lifeFaults>>

\* Daemon::start ends: the store is open, and serve begins.
Open(d) ==
    /\ phase[d] = "bound"
    /\ Enter(d, "serving")
    /\ UNCHANGED <<path, active, rested, dropped, frontvars, disturbed, lifeFaults>>

\* The store does not open: the lock goes, the socket stays behind.
OpenFails(d) ==
    /\ LifeFault
    /\ phase[d] = "bound"
    /\ Enter(d, "failed") /\ Disturb
    /\ UNCHANGED <<path, active, rested, dropped, frontvars>>

Waiting(d) == {f \in Frontends : conn[f] = d /\ f \notin taken}

\* Mutant: the tracker does not hear of connections.
NotedNever(n) == n

Noted(n) == n + 1

\* The accept loop, and note_connect.
Accept(d, f) ==
    /\ phase[d] = "serving" /\ f \in Waiting(d)
    /\ taken' = taken \cup {f}
    /\ active' = [active EXCEPT ![d] = Noted(@)]
    /\ rested' = rested \ {d}
    /\ UNCHANGED <<phase, path, dropped, step, conn, unreaped, disturbed, lifeFaults>>

Less(n) == IF n = 0 THEN 0 ELSE n - 1

\* A task whose client has hung up ends: the tracker hears of it (DropNote).
TaskEnds(d) ==
    /\ phase[d] = "serving" /\ dropped[d] > 0
    /\ dropped' = [dropped EXCEPT ![d] = @ - 1]
    /\ active' = [active EXCEPT ![d] = Less(@)]
    /\ rested' = rested \ {d}
    /\ UNCHANGED <<phase, path, frontvars, disturbed, lifeFaults>>

\* A whole window passes in which nothing connects or disconnects.
Rest(d) ==
    /\ phase[d] = "serving" /\ active[d] = 0 /\ d \notin rested
    /\ rested' = rested \cup {d}
    /\ UNCHANGED <<phase, path, active, dropped, frontvars, disturbed, lifeFaults>>

\* should_exit at a tick of the accept loop, which finds nobody to accept.
IdleExit(d) ==
    /\ phase[d] = "serving" /\ Waiting(d) = {}
    /\ active[d] = 0 /\ d \in rested
    /\ Enter(d, "leaving") /\ Disturb
    /\ UNCHANGED <<path, active, rested, dropped, frontvars, lifeFaults>>

\* SIGTERM ends the serve loop.
Terminate(d) ==
    /\ LifeFault
    /\ phase[d] = "serving"
    /\ Enter(d, "leaving") /\ Disturb
    /\ UNCHANGED <<path, active, rested, dropped, frontvars>>

\* shutdown: the sessions are persisted, the endpoint is unlinked.
Unlink(d) ==
    /\ phase[d] = "leaving"
    /\ Enter(d, "unlinked") /\ path' = Nobody
    /\ UNCHANGED <<active, rested, dropped, frontvars, disturbed, lifeFaults>>

\* The daemon is dropped, and the lock with it.
Exit(d) ==
    /\ phase[d] = "unlinked"
    /\ Enter(d, "exited") /\ Over(d)
    /\ UNCHANGED <<path, frontvars, disturbed, lifeFaults>>

\* SIGKILL, at any moment: the socket stays behind.
Kill(d) ==
    /\ LifeFault
    /\ phase[d] \in {"spawned"} \cup Holding
    /\ Enter(d, "failed") /\ Over(d) /\ Disturb
    /\ UNCHANGED <<path, frontvars>>

Daemon(d) ==
    \/ TakeLock(d) \/ Bind(d) \/ Open(d) \/ Unlink(d) \/ Exit(d)
    \/ TaskEnds(d) \/ \E f \in Frontends : Accept(d, f)

(***************************************************************************)
(* The frontend: ensure_daemon_process, then connect_with_retry.           *)
(***************************************************************************)
Reachable == path # Nobody /\ phase[path] \in Listening
StepTo(f, s) == step' = [step EXCEPT ![f] = s]

\* What a frontend leaves behind when it drops its connection.
HangUp(f) ==
    /\ conn' = [conn EXCEPT ![f] = Nobody]
    /\ taken' = taken \ {f}
    /\ dropped' = IF f \in taken /\ phase[conn[f]] = "serving"
                  THEN [dropped EXCEPT ![conn[f]] = @ + 1] ELSE dropped

Start(f) ==
    /\ step[f] = "off"
    /\ StepTo(f, "probing")
    /\ disturbed' = IF \/ \E d \in Daemons : phase[d] \in {"leaving", "unlinked"}
                       \/ \E g \in Frontends : step[g] = "peeking"
                    THEN disturbed \cup {f} ELSE disturbed
    /\ UNCHANGED <<daemonvars, conn, taken, unreaped, lifeFaults>>

\* A dial that is refused or finds no socket changes nothing, but on the fast
\* path, where it is the reason to spawn.
Dial(f) ==
    /\ \/ step[f] = "probing"  /\ StepTo(f, "greeting")
       \/ step[f] = "waiting"  /\ StepTo(f, "shaking")
       \/ step[f] = "verified" /\ StepTo(f, "joining")
    /\ Reachable
    /\ conn' = [conn EXCEPT ![f] = path]
    /\ UNCHANGED <<daemonvars, taken, unreaped, disturbed, lifeFaults>>

Spawn(f) ==
    /\ Enter(f, "spawned")
    /\ unreaped' = unreaped \cup {f}
    /\ StepTo(f, "waiting")

NobodyThere(f) ==
    /\ step[f] = "probing" /\ ~Reachable
    /\ Spawn(f)
    /\ UNCHANGED <<path, active, rested, dropped, conn, taken, disturbed, lifeFaults>>

\* The handshake is answered, and a probe has done its work.
Answered(f) ==
    /\ f \in taken /\ phase[conn[f]] = "serving"
    /\ \/ step[f] \in {"greeting", "shaking"} /\ StepTo(f, "verified") /\ HangUp(f)
       \/ step[f] = "joining" /\ StepTo(f, "attached") /\ UNCHANGED <<conn, taken, dropped>>
    /\ UNCHANGED <<phase, path, active, rested, unreaped, disturbed, lifeFaults>>

\* Back to where the attempt came from; the fast path has one attempt only.
Again(f) ==
    /\ HangUp(f)
    /\ \/ step[f] = "greeting" /\ Spawn(f)
       \/ step[f] = "shaking" /\ StepTo(f, "waiting") /\ UNCHANGED <<phase, unreaped>>
       \/ step[f] = "joining" /\ StepTo(f, "verified") /\ UNCHANGED <<phase, unreaped>>

\* The connection is reset, or nobody answers in time.
Unanswered(f) ==
    /\ step[f] \in {"greeting", "shaking", "joining"}
    /\ \/ phase[conn[f]] # "serving" /\ UNCHANGED lifeFaults
       \/ phase[conn[f]] = "serving" /\ LifeFault
    /\ Again(f)
    /\ UNCHANGED <<path, active, rested, disturbed>>

Ended(f) == phase[f] \in {"exited", "failed"}

\* Mutant: the exit of the child is failure enough.
NobodyServesWhatever == TRUE

\* lock_held: the shared lock is to be had.
NobodyServes == ~Held

\* try_wait at the head of the loop.  The exit of a child that failed sends the
\* frontend to the lock.
Reap(f) ==
    /\ step[f] = "waiting" /\ f \in unreaped /\ Ended(f)
    /\ unreaped' = unreaped \ {f}
    /\ IF phase[f] = "failed" /\ NobodyServes
       THEN /\ StepTo(f, "peeking")
            /\ disturbed' = disturbed \cup {g \in Frontends \ {f} : step[g] \in Starting}
       ELSE UNCHANGED <<step, disturbed>>
    /\ UNCHANGED <<daemonvars, conn, taken, lifeFaults>>

\* The shared lock is released; nobody had it, so nobody serves.
Peeked(f) ==
    /\ step[f] = "peeking"
    /\ StepTo(f, "failed")
    /\ UNCHANGED <<daemonvars, conn, taken, unreaped, disturbed, lifeFaults>>

\* Mutant: the polls are not counted.
OutOfAttemptsNever(f) == FALSE

\* The polls, or the attempts to attach.
OutOfAttempts(f) ==
    \/ /\ step[f] = "waiting" /\ ~(f \in unreaped /\ Ended(f))
       /\ \A d \in Daemons : phase[d] \notin {"spawned", "locked", "bound", "serving"}
    \/ step[f] = "verified" /\ \A d \in Daemons : phase[d] # "serving"

GiveUp(f) ==
    /\ OutOfAttempts(f)
    /\ StepTo(f, "failed")
    /\ UNCHANGED <<daemonvars, conn, taken, unreaped, disturbed, lifeFaults>>

\* The host closes the stdio of its frontend.
Leave(f) ==
    /\ step[f] = "attached"
    /\ StepTo(f, "gone") /\ HangUp(f)
    /\ UNCHANGED <<phase, path, active, rested, unreaped, disturbed, lifeFaults>>

FrontendStep(f) ==
    \/ Dial(f) \/ NobodyThere(f) \/ Answered(f) \/ Unanswered(f)
    \/ Reap(f) \/ Peeked(f) \/ GiveUp(f)

LifeNext ==
    \/ \E d \in Daemons : Daemon(d) \/ OpenFails(d) \/ Rest(d) \/ IdleExit(d)
                          \/ Terminate(d) \/ Kill(d)
    \/ \E f \in Frontends : FrontendStep(f) \/ Start(f) \/ Leave(f)

LifeSpec == LifeInit /\ [][LifeNext]_lifevars

\* Processes are scheduled; nothing says when a daemon rests or a host leaves.
LifeFairSpec ==
    /\ LifeSpec
    /\ \A d \in Daemons : WF_lifevars(Daemon(d))
    /\ \A f \in Frontends : WF_lifevars(FrontendStep(f))

-----------------------------------------------------------------------------
(* Properties.                                                             *)

\* A daemon that serves can be reached, whatever other daemons are doing to the
\* endpoint on their way in or out; there is one at most.
ServingIsReachable == \A d \in Daemons : phase[d] = "serving" => path = d

SparesClients ==
    \A d \in Daemons :
        phase[d] = "serving" /\ phase'[d] = "leaving" /\ lifeFaults' = lifeFaults
            => \A f \in Frontends : conn[f] = d => f \notin taken

\* No daemon leaves for idleness while a frontend it has accepted is attached
\* or waits for its handshake.
NoIdleExitUnderClient == [][SparesClients]_lifevars

\* A frontend gives up only when a daemon left or fell while it was starting, or
\* another frontend probed the lock.
FailsOnlyWhenDisturbed == \A f \in Frontends : step[f] = "failed" => f \in disturbed

\* Every frontend that is started is attached in the end, or says why not.
Settles == \A f \in Frontends : step[f] = "probing" ~> step[f] \in {"attached", "failed", "gone"}
=============================================================================
