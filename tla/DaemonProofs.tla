----------------------------- MODULE DaemonProofs -----------------------------
(* Theorems about the parts of the daemon that run for as long as it lives:   *)
(* DriveLoop, for any number of memories, any cap, and any memories that      *)
(* cannot be embedded; Lifecycle, for any finite number of frontends and any  *)
(* number of faults; and Limits, for any finite set of connections and any    *)
(* quotas.                                                                    *)
EXTENDS DriveLoop, Lifecycle, Limits, FiniteSetTheorems, TLAPS

(***************************************************************************)
(* The drives of the projection worker.                                    *)
(***************************************************************************)

\* Where a drive is bounds what it has spent: a pass adds its attempts, and a
\* pass that is followed by another has resolved something, which pays for it.
DriveInv ==
    /\ driving = "wait" => DriveIsBounded
    /\ driving = "list" => spent <= Cap * total
    /\ driving = "pass" => spent <= Cap * total + attempted

-----------------------------------------------------------------------------
(* Types.                                                                  *)

LEMMA TypeInit == DriveInit => DriveTypeOK
BY DriveAssumption DEF DriveInit, DriveTypeOK, Memories

LEMMA TypeNext == DriveTypeOK /\ [DriveNext]_drivevars => DriveTypeOK'
<1> SUFFICES ASSUME DriveTypeOK, [DriveNext]_drivevars PROVE DriveTypeOK'
  OBVIOUS
<1> USE DriveAssumption
<1>1. ASSUME NEW m \in Memories, Write(m) PROVE DriveTypeOK'
  BY <1>1 DEF Write, DriveTypeOK, pass
<1>2. CASE StartDrive
  BY <1>2 DEF StartDrive, DriveTypeOK, pass
<1>3. CASE ListJobs
  <2>1. Pending \subseteq [mem : Memories, rev : 1..MaxWrites]
    BY DEF Pending, DriveTypeOK
  <2> QED BY <1>3, <2>1 DEF ListJobs, DriveTypeOK
<1>4. CASE Attempt
  <2>1. PICK it \in listing :
          /\ listing' = listing \ {it}
          /\ IF jobs[it.mem] # it.rev THEN UNCHANGED <<jobs, text, resolved>>
             ELSE /\ text' = [text EXCEPT ![it.mem] = it.rev]
                  /\ IF Resolves(it)
                     THEN jobs' = [jobs EXCEPT ![it.mem] = 0] /\ resolved' = resolved + 1
                     ELSE UNCHANGED <<jobs, resolved>>
    BY <1>4 DEF Attempt
  <2>2. it.mem \in Memories /\ it.rev \in 0..MaxWrites
    BY DEF DriveTypeOK
  <2>3. /\ attempted' \in 0..Cap
        /\ resolved' \in 0..Cap
    BY <1>4, <2>1 DEF Attempt, PassIsFull, DriveTypeOK
  <2>4. jobs' \in [Memories -> 0..MaxWrites] /\ text' \in [Memories -> 0..MaxWrites]
    BY <2>1, <2>2 DEF DriveTypeOK
  <2> QED BY <1>4, <2>1, <2>3, <2>4 DEF Attempt, DriveTypeOK
<1>5. CASE EndPass
  BY <1>5 DEF EndPass, PassIsFull, DriveTypeOK
<1>6. CASE DriveFails
  BY <1>6 DEF DriveFails, DriveTypeOK
<1>7. CASE UNCHANGED drivevars
  BY <1>7 DEF drivevars, pass, DriveTypeOK
<1> QED BY <1>1, <1>2, <1>3, <1>4, <1>5, <1>6, <1>7 DEF DriveNext, Drive

\* The caps of run_limited bound its counters, and the listing and the jobs
\* keep their types, under writes and failures at any moment.
THEOREM DriveTypeCorrect == DriveSpec => []DriveTypeOK
BY TypeInit, TypeNext, PTL DEF DriveSpec

-----------------------------------------------------------------------------
(* The work of a drive is bounded.                                         *)

LEMMA Times == ASSUME NEW a \in Nat, NEW b \in Nat PROVE a * b \in Nat /\ a * (b + 1) = a * b + a
OBVIOUS

LEMMA TimesMonotone ==
    ASSUME NEW a \in Nat, NEW b \in Nat, NEW c \in Nat, b <= c PROVE a * b <= a * c
<1>1. PICK d \in Nat : c = b + d
  <2>1. c - b \in Nat /\ c = b + (c - b)
    OBVIOUS
  <2> QED BY <2>1
<1>2. a * c = a * b + a * d /\ a * d \in Nat /\ a * b \in Nat
  BY <1>1
<1> QED BY <1>2

LEMMA BoundInit == DriveInit => DriveInv
BY DriveAssumption DEF DriveInit, DriveInv, DriveIsBounded

LEMMA BoundNext == DriveTypeOK /\ DriveInv /\ [DriveNext]_drivevars => DriveInv'
<1> SUFFICES ASSUME DriveTypeOK, DriveInv, [DriveNext]_drivevars PROVE DriveInv'
  OBVIOUS
<1> USE DriveAssumption DEF DriveIsBounded
<1>a. /\ Cap \in Nat /\ total \in Nat /\ spent \in Nat
      /\ attempted \in 0..Cap /\ resolved \in Nat
  BY DEF DriveTypeOK
<1>b. Cap * total \in Nat /\ Cap * (total + 1) = Cap * total + Cap
  BY <1>a, Times
<1>1. ASSUME NEW m \in Memories, Write(m) PROVE DriveInv'
  BY <1>1 DEF Write, DriveInv, pass
<1>2. CASE StartDrive
  <2>1. Cap * 0 \in Nat
    BY <1>a, Times
  <2> QED BY <1>2, <2>1 DEF StartDrive, DriveInv
<1>3. CASE ListJobs
  BY <1>3, <1>a, <1>b DEF ListJobs, DriveInv
<1>4. CASE Attempt
  <2>1. driving' = "pass" /\ total' = total /\ spent' = spent + 1 /\ attempted' = attempted + 1
    BY <1>4 DEF Attempt
  <2>2. spent <= Cap * total + attempted
    BY <1>4 DEF Attempt, DriveInv
  <2>3. spent' <= Cap * total' + attempted'
    BY <2>1, <2>2, <1>a, <1>b
  <2> QED BY <2>1, <2>3 DEF DriveInv
<1>5. CASE EndPass
  <2>1. spent <= Cap * total + Cap
    BY <1>5, <1>a, <1>b DEF EndPass, DriveInv
  <2>2. CASE resolved = 0 \/ total + resolved >= Cap
    BY <1>5, <2>1, <2>2, <1>a, <1>b DEF EndPass, DriveInv
  <2>3. CASE ~(resolved = 0 \/ total + resolved >= Cap)
    <3>1. driving' = "list" /\ total' = total + resolved /\ spent' = spent
      BY <1>5, <2>3 DEF EndPass
    <3>2. total + 1 <= total + resolved
      BY <2>3, <1>a
    <3>3. Cap * (total + 1) <= Cap * (total + resolved)
      BY <3>2, <1>a, TimesMonotone
    <3>4. spent' <= Cap * total'
      BY <3>1, <3>3, <2>1, <1>a, <1>b
    <3> QED BY <3>1, <3>4 DEF DriveInv
  <2> QED BY <2>2, <2>3
<1>6. CASE DriveFails
  BY <1>6, <1>a, <1>b DEF DriveFails, DriveInv
<1>7. CASE UNCHANGED drivevars
  BY <1>7 DEF drivevars, pass, DriveInv
<1> QED BY <1>1, <1>2, <1>3, <1>4, <1>5, <1>6, <1>7 DEF DriveNext, Drive

\* However many jobs cannot be embedded, what a drive attempts is paid
\* for by what it has resolved, and one batch more.
THEOREM DriveBound == DriveSpec => []DriveIsBounded
<1>1. DriveInit => DriveTypeOK /\ DriveInv
  BY TypeInit, BoundInit
<1>2. DriveTypeOK /\ DriveInv /\ [DriveNext]_drivevars => (DriveTypeOK /\ DriveInv)'
  BY TypeNext, BoundNext
<1>3. DriveTypeOK /\ DriveInv => DriveIsBounded
  <2> SUFFICES ASSUME DriveTypeOK, DriveInv PROVE DriveIsBounded
    OBVIOUS
  <2>2. Cap \in Nat /\ total \in Nat /\ spent \in Nat /\ attempted \in 0..Cap
    BY DriveAssumption DEF DriveTypeOK
  <2>1. Cap * total \in Nat /\ Cap * (total + 1) = Cap * total + Cap
    BY <2>2, Times
  <2> QED BY <2>1, <2>2 DEF DriveInv, DriveIsBounded, DriveTypeOK
<1> QED BY <1>1, <1>2, <1>3, PTL DEF DriveSpec

(***************************************************************************)
(* The life of the daemon.                                                 *)
(***************************************************************************)

Coming == {"spawned", "locked", "bound", "serving"}
Leaving == {"leaving", "unlinked"}

\* The lock has one holder, and the endpoint is the holder's until it unlinks it.
HolderInv ==
    /\ \A d, e \in Daemons : phase[d] \in Holding /\ phase[e] \in Holding => d = e
    /\ \A d \in Daemons : phase[d] \in {"bound", "serving", "leaving"} => path = d

\* A frontend spawns once, and is connected in some steps and in no other.
WiringInv ==
    /\ \A f \in Frontends : step[f] \in {"off", "probing", "greeting"} => phase[f] = "none"
    /\ \A f \in Frontends : conn[f] # Nobody <=> step[f] \in InContact
    /\ \A f \in taken : conn[f] # Nobody

\* The frontends whose connection to a daemon has been accepted and is open.
Clients(d) == {f \in taken : conn[f] = d}
Counts == [d \in Daemons |-> Cardinality(Clients(d))]

\* The tracker of a daemon that serves counts them, and those that hung up unnoticed.
CountInv ==
    /\ \A d \in Daemons : phase[d] = "serving" => active[d] = Counts[d] + dropped[d]
    /\ \A d \in Daemons : phase[d] \in {"none", "spawned", "locked", "bound"} =>
          active[d] = 0 /\ dropped[d] = 0 /\ Counts[d] = 0

\* A frontend during whose start nothing left: nothing is leaving, nobody has the lock to
\* probe it, and if its child ended then because another daemon has the lock; a daemon is
\* coming up once it waits for one, and serves once it has verified it.
QuietInv ==
    /\ \A f \in Frontends \ disturbed : step[f] \in Starting =>
          /\ \A d \in Daemons : phase[d] \notin Leaving
          /\ \A g \in Frontends : step[g] # "peeking"
          /\ phase[f] \in {"failed", "exited"} => Held
          /\ step[f] \in {"waiting", "shaking", "verified", "joining"} =>
                \E d \in Daemons : phase[d] \in Coming
          /\ step[f] \in {"verified", "joining"} => \E d \in Daemons : phase[d] = "serving"
    /\ FailsOnlyWhenDisturbed

LifeInv == LifecycleTypeOK /\ HolderInv /\ WiringInv /\ CountInv /\ QuietInv

-----------------------------------------------------------------------------
(* Types.                                                                  *)

LEMMA LifeTypeNext ==
    ASSUME LifecycleConstants, LifecycleTypeOK, WiringInv, LifeNext
    PROVE  LifecycleTypeOK'
<1> USE DEF LifecycleTypeOK, LifecycleConstants, daemonvars, frontvars
<1>1. ASSUME NEW d \in Daemons, Daemon(d) PROVE LifecycleTypeOK'
  <2>1. CASE TakeLock(d)
    BY <2>1 DEF TakeLock, Enter, Phases
  <2>2. CASE Bind(d)
    BY <2>2 DEF Bind, Enter, Phases
  <2>3. CASE Open(d)
    BY <2>3 DEF Open, Enter, Phases
  <2>4. CASE Unlink(d)
    BY <2>4 DEF Unlink, Enter, Phases
  <2>5. CASE Exit(d)
    BY <2>5 DEF Exit, Enter, Over, Phases
  <2>6. CASE TaskEnds(d)
    BY <2>6 DEF TaskEnds, Less
  <2>7. ASSUME NEW f \in Frontends, Accept(d, f) PROVE LifecycleTypeOK'
    <3>1. conn[f] # Nobody
      BY <2>7 DEF Accept, Waiting
    <3> QED BY <2>7, <3>1 DEF Accept, Noted
  <2> QED BY <1>1, <2>1, <2>2, <2>3, <2>4, <2>5, <2>6, <2>7 DEF Daemon
<1>2. ASSUME NEW d \in Daemons, OpenFails(d) PROVE LifecycleTypeOK'
  BY <1>2 DEF OpenFails, LifeFault, Disturb, Enter, Phases
<1>3. ASSUME NEW d \in Daemons, Rest(d) \/ IdleExit(d) PROVE LifecycleTypeOK'
  BY <1>3 DEF Rest, IdleExit, Disturb, Enter, Phases
<1>4. ASSUME NEW d \in Daemons, Terminate(d) PROVE LifecycleTypeOK'
  BY <1>4 DEF Terminate, LifeFault, Disturb, Enter, Phases
<1>5. ASSUME NEW d \in Daemons, Kill(d) PROVE LifecycleTypeOK'
  BY <1>5 DEF Kill, LifeFault, Disturb, Enter, Over, Phases
<1>6. ASSUME NEW f \in Frontends, HangUp(f)
      PROVE  /\ conn' \in [Frontends -> Daemons \cup {Nobody}]
             /\ taken' \subseteq {g \in Frontends : conn'[g] # Nobody}
             /\ dropped' \in [Daemons -> Nat]
  BY <1>6 DEF HangUp
<1>7. ASSUME NEW f \in Frontends, FrontendStep(f) PROVE LifecycleTypeOK'
  <2>0. f \in Daemons
    BY DEF Daemons
  <2>1. CASE Dial(f)
    <3>1. path \in Daemons
      BY <2>1 DEF Dial, Reachable
    <3> QED BY <2>1, <3>1 DEF Dial, StepTo, Steps
  <2>2. CASE NobodyThere(f)
    BY <2>0, <2>2 DEF NobodyThere, Spawn, Enter, StepTo, Steps, Phases
  <2>3. CASE Answered(f)
    <3>1. step' \in [Frontends -> Steps]
      BY <2>3 DEF Answered, StepTo, Steps
    <3>2. /\ conn' \in [Frontends -> Daemons \cup {Nobody}]
          /\ taken' \subseteq {g \in Frontends : conn'[g] # Nobody}
          /\ dropped' \in [Daemons -> Nat]
      BY <1>6, <2>3 DEF Answered
    <3> QED BY <2>3, <3>1, <3>2 DEF Answered
  <2>4. CASE Unanswered(f)
    <3>1. step' \in [Frontends -> Steps] /\ phase' \in [Daemons -> Phases]
          /\ unreaped' \subseteq Frontends
      BY <2>0, <2>4 DEF Unanswered, Again, Spawn, Enter, StepTo, Steps, Phases
    <3>2. /\ conn' \in [Frontends -> Daemons \cup {Nobody}]
          /\ taken' \subseteq {g \in Frontends : conn'[g] # Nobody}
          /\ dropped' \in [Daemons -> Nat]
      BY <1>6, <2>4 DEF Unanswered, Again
    <3>3. lifeFaults' \in 0..MaxLifeFaults
      BY <2>4 DEF Unanswered, LifeFault
    <3> QED BY <2>4, <3>1, <3>2, <3>3 DEF Unanswered
  <2>5. CASE Reap(f)
    BY <2>5 DEF Reap, StepTo, Steps
  <2>6. CASE Peeked(f) \/ GiveUp(f)
    BY <2>6 DEF Peeked, GiveUp, StepTo, Steps
  <2> QED BY <1>7, <2>1, <2>2, <2>3, <2>4, <2>5, <2>6 DEF FrontendStep
<1>8. ASSUME NEW f \in Frontends, Start(f) PROVE LifecycleTypeOK'
  BY <1>8 DEF Start, StepTo, Steps
<1>9. ASSUME NEW f \in Frontends, Leave(f) PROVE LifecycleTypeOK'
  <2>1. step' \in [Frontends -> Steps]
    BY <1>9 DEF Leave, StepTo, Steps
  <2> QED BY <1>6, <1>9, <2>1 DEF Leave
<1> QED BY <1>1, <1>2, <1>3, <1>4, <1>5, <1>7, <1>8, <1>9 DEF LifeNext

-----------------------------------------------------------------------------
(* The lock, the endpoint, and the wiring.                                 *)

LEMMA HolderNext ==
    ASSUME LifecycleConstants, LifecycleTypeOK, HolderInv, LifeNext
    PROVE  HolderInv'
<1> USE DEF LifecycleTypeOK, HolderInv, Holding
<1>1. ASSUME NEW d \in Daemons, Daemon(d) PROVE HolderInv'
  <2>1. CASE TakeLock(d)
    BY <2>1 DEF TakeLock, Enter, Held
  <2>2. CASE Bind(d)
    BY <2>2 DEF Bind, Enter
  <2>3. CASE Open(d)
    BY <2>3 DEF Open, Enter
  <2>4. CASE Unlink(d)
    BY <2>4 DEF Unlink, Enter
  <2>5. CASE Exit(d)
    BY <2>5 DEF Exit, Enter
  <2>6. CASE TaskEnds(d) \/ \E f \in Frontends : Accept(d, f)
    BY <2>6 DEF TaskEnds, Accept
  <2> QED BY <1>1, <2>1, <2>2, <2>3, <2>4, <2>5, <2>6 DEF Daemon
<1>2. ASSUME NEW d \in Daemons, OpenFails(d) \/ Kill(d) PROVE HolderInv'
  BY <1>2 DEF OpenFails, Kill, Enter
<1>3. ASSUME NEW d \in Daemons, Rest(d) \/ IdleExit(d) \/ Terminate(d) PROVE HolderInv'
  BY <1>3 DEF Rest, IdleExit, Terminate, Enter
<1>4. ASSUME NEW f \in Frontends, FrontendStep(f) PROVE HolderInv'
  <2>1. CASE NobodyThere(f)
    BY <2>1 DEF NobodyThere, Spawn, Enter, Daemons
  <2>2. CASE Unanswered(f)
    BY <2>2 DEF Unanswered, Again, Spawn, Enter, Daemons
  <2>3. CASE UNCHANGED <<phase, path>>
    BY <2>3
  <2>4. Dial(f) \/ Answered(f) \/ Reap(f) \/ Peeked(f) \/ GiveUp(f) => UNCHANGED <<phase, path>>
    BY DEF Dial, Answered, Reap, Peeked, GiveUp, daemonvars
  <2> QED BY <1>4, <2>1, <2>2, <2>3, <2>4 DEF FrontendStep
<1>5. ASSUME NEW f \in Frontends, Start(f) \/ Leave(f) PROVE HolderInv'
  BY <1>5 DEF Start, Leave, daemonvars
<1> QED BY <1>1, <1>2, <1>3, <1>4, <1>5 DEF LifeNext

LEMMA WiringNext ==
    ASSUME LifecycleConstants, LifecycleTypeOK, WiringInv, LifeNext
    PROVE  WiringInv'
<1> USE DEF LifecycleTypeOK, LifecycleConstants, WiringInv
<1>1. ASSUME NEW d \in Daemons, Daemon(d) PROVE WiringInv'
  <2>1. CASE TakeLock(d) \/ Bind(d) \/ Open(d) \/ Unlink(d) \/ Exit(d)
    <3>1. phase[d] # "none" /\ step' = step /\ conn' = conn /\ taken' = taken
      BY <2>1 DEF TakeLock, Bind, Open, Unlink, Exit, frontvars
    <3>2. \A e \in Daemons : e # d => phase'[e] = phase[e]
      BY <2>1 DEF TakeLock, Bind, Open, Unlink, Exit, Enter
    <3> QED BY <3>1, <3>2 DEF Daemons
  <2>2. CASE TaskEnds(d)
    BY <2>2 DEF TaskEnds, frontvars
  <2>3. ASSUME NEW f \in Frontends, Accept(d, f) PROVE WiringInv'
    BY <2>3 DEF Accept, Waiting
  <2> QED BY <1>1, <2>1, <2>2, <2>3 DEF Daemon
<1>2. ASSUME NEW d \in Daemons,
             OpenFails(d) \/ Rest(d) \/ IdleExit(d) \/ Terminate(d) \/ Kill(d)
      PROVE  WiringInv'
  <2>1. phase[d] # "none" /\ step' = step /\ conn' = conn /\ taken' = taken
    BY <1>2 DEF OpenFails, Rest, IdleExit, Terminate, Kill, Holding, frontvars
  <2>2. \A e \in Daemons : e # d => phase'[e] = phase[e]
    BY <1>2 DEF OpenFails, Rest, IdleExit, Terminate, Kill, Enter
  <2> QED BY <2>1, <2>2 DEF Daemons
<1>3. ASSUME NEW f \in Frontends, FrontendStep(f) PROVE WiringInv'
  <2>1. CASE Dial(f)
    BY <2>1 DEF Dial, StepTo, Reachable, InContact, daemonvars
  <2>2. CASE NobodyThere(f)
    BY <2>2 DEF NobodyThere, Spawn, Enter, StepTo, InContact, Daemons
  <2>3. CASE Answered(f)
    BY <2>3 DEF Answered, HangUp, StepTo, InContact
  <2>4. CASE Unanswered(f)
    <3>1. CASE step[f] = "greeting"
      BY <2>4, <3>1 DEF Unanswered, Again, HangUp, Spawn, Enter, StepTo, InContact, Daemons
    <3>2. CASE step[f] # "greeting"
      BY <2>4, <3>2 DEF Unanswered, Again, HangUp, StepTo, InContact
    <3> QED BY <3>1, <3>2
  <2>5. CASE Reap(f)
    BY <2>5 DEF Reap, StepTo, InContact, daemonvars
  <2>6. CASE Peeked(f) \/ GiveUp(f)
    BY <2>6 DEF Peeked, GiveUp, OutOfAttempts, StepTo, InContact, daemonvars
  <2> QED BY <1>3, <2>1, <2>2, <2>3, <2>4, <2>5, <2>6 DEF FrontendStep
<1>4. ASSUME NEW f \in Frontends, Start(f) \/ Leave(f) PROVE WiringInv'
  BY <1>4 DEF Start, Leave, HangUp, StepTo, InContact, daemonvars
<1> QED BY <1>1, <1>2, <1>3, <1>4 DEF LifeNext

-----------------------------------------------------------------------------
(* The connections that the tracker counts.                                *)

LEMMA Census ==
    ASSUME NEW S, IsFiniteSet(S), NEW c, NEW T
    PROVE  /\ Cardinality(S) \in Nat /\ (Cardinality(S) = 0 <=> S = {})
           /\ T = S \cup {c} /\ c \notin S => Cardinality(T) = Cardinality(S) + 1
           /\ T = S \ {c} /\ c \in S => Cardinality(T) = Cardinality(S) - 1
<1>1. Cardinality(S) \in Nat
  BY FS_CardinalityType
<1>2. Cardinality(S) = 0 <=> S = {}
  BY FS_EmptySet
<1>3. c \notin S => Cardinality(S \cup {c}) = Cardinality(S) + 1
  BY FS_AddElement
<1>4. c \in S => Cardinality(S \ {c}) = Cardinality(S) - 1
  BY FS_RemoveElement
<1> QED BY <1>1, <1>2, <1>3, <1>4

LEMMA ClientsFinite ==
    ASSUME LifecycleConstants, LifecycleTypeOK
    PROVE  /\ \A d \in Daemons : IsFiniteSet(Clients(d))
           /\ Counts \in [Daemons -> Nat]
           /\ \A d \in Daemons : Counts[d] = 0 <=> Clients(d) = {}
<1>1. ASSUME NEW d \in Daemons PROVE IsFiniteSet(Clients(d))
  BY FS_Subset DEF LifecycleConstants, LifecycleTypeOK, Clients
<1>2. ASSUME NEW d \in Daemons
      PROVE  Counts[d] \in Nat /\ (Counts[d] = 0 <=> Clients(d) = {})
  <2>1. Counts[d] = Cardinality(Clients(d))
    BY DEF Counts
  <2> QED BY <1>1, <2>1, FS_CardinalityType, FS_EmptySet
<1>3. Counts \in [Daemons -> Nat]
  BY <1>2 DEF Counts
<1> QED BY <1>1, <1>2, <1>3

\* A frontend that hangs up leaves its daemon, which is left with one dropped connection
\* to hear of.
LEMMA HangUpCounts ==
    ASSUME LifecycleConstants, LifecycleTypeOK, WiringInv, NEW f \in Frontends, HangUp(f)
    PROVE  \A d \in Daemons :
               /\ Counts'[d] = IF f \in taken /\ conn[f] = d THEN Counts[d] - 1 ELSE Counts[d]
               /\ Counts[d] = 0 => Counts'[d] = 0 /\ ~(f \in taken /\ conn[f] = d)
               /\ dropped'[d] = IF f \in taken /\ conn[f] = d /\ phase[d] = "serving"
                                THEN dropped[d] + 1 ELSE dropped[d]
<1> SUFFICES ASSUME NEW d \in Daemons
             PROVE  /\ Counts'[d] = IF f \in taken /\ conn[f] = d THEN Counts[d] - 1 ELSE Counts[d]
                    /\ Counts[d] = 0 => Counts'[d] = 0 /\ ~(f \in taken /\ conn[f] = d)
                    /\ dropped'[d] = IF f \in taken /\ conn[f] = d /\ phase[d] = "serving"
                                     THEN dropped[d] + 1 ELSE dropped[d]
  OBVIOUS
<1>1. dropped'[d] = IF f \in taken /\ conn[f] = d /\ phase[d] = "serving"
                    THEN dropped[d] + 1 ELSE dropped[d]
  BY DEF HangUp, LifecycleTypeOK, LifecycleConstants
<1>2. Counts[d] = Cardinality(Clients(d)) /\ Counts'[d] = Cardinality(Clients(d)')
  BY DEF Counts
<1>3. IsFiniteSet(Clients(d))
  BY ClientsFinite
<1>4. CASE f \in taken /\ conn[f] = d
  <2>1. Clients(d)' = Clients(d) \ {f} /\ f \in Clients(d)
    BY <1>4 DEF HangUp, Clients, LifecycleTypeOK, LifecycleConstants
  <2> QED BY <1>1, <1>2, <1>3, <1>4, <2>1, Census, FS_EmptySet
<1>5. CASE ~(f \in taken /\ conn[f] = d)
  <2>1. Clients(d)' = Clients(d)
    BY <1>5 DEF HangUp, Clients, LifecycleTypeOK, LifecycleConstants
  <2> QED BY <1>1, <1>2, <1>5, <2>1
<1> QED BY <1>4, <1>5

LEMMA CountNext ==
    ASSUME LifecycleConstants, LifecycleTypeOK, WiringInv, CountInv, LifeNext
    PROVE  CountInv'
<1> USE DEF LifecycleTypeOK, CountInv
<1>0. Counts \in [Daemons -> Nat]
  BY ClientsFinite
<1>1. ASSUME UNCHANGED <<conn, taken>> PROVE Counts' = Counts
  BY <1>1 DEF Counts, Clients
<1>2. ASSUME NEW f \in Frontends, HangUp(f), UNCHANGED active,
             \A d \in Daemons : phase'[d] \in {phase[d], "spawned"}
                                /\ (phase'[d] # phase[d] => phase[d] = "none")
      PROVE  CountInv'
  <2>1. ASSUME NEW d \in Daemons, phase'[d] = "serving"
        PROVE  active'[d] = Counts'[d] + dropped'[d]
    BY <1>0, <1>2, <2>1, HangUpCounts
  <2>2. ASSUME NEW d \in Daemons, phase'[d] \in {"none", "spawned", "locked", "bound"}
        PROVE  active'[d] = 0 /\ dropped'[d] = 0 /\ Counts'[d] = 0
    BY <1>2, <2>2, HangUpCounts
  <2> QED BY <2>1, <2>2
<1>3. ASSUME NEW d \in Daemons, Daemon(d) PROVE CountInv'
  <2>1. CASE TakeLock(d)
    BY <1>1, <2>1 DEF TakeLock, Enter, frontvars
  <2>2. CASE Bind(d)
    BY <1>1, <2>2 DEF Bind, Enter, frontvars
  <2>3. CASE Open(d)
    BY <1>1, <2>3 DEF Open, Enter, frontvars
  <2>4. CASE Unlink(d)
    BY <1>1, <2>4 DEF Unlink, Enter, frontvars
  <2>5. CASE Exit(d)
    BY <1>1, <2>5 DEF Exit, Enter, Over, frontvars
  <2>6. CASE TaskEnds(d)
    BY <1>0, <1>1, <2>6 DEF TaskEnds, Less, frontvars
  <2>7. ASSUME NEW f \in Frontends, Accept(d, f) PROVE CountInv'
    <3>1. f \notin taken /\ conn[f] = d /\ taken' = taken \cup {f} /\ conn' = conn
      BY <2>7 DEF Accept, Waiting
    <3>2. ASSUME NEW e \in Daemons
          PROVE  Counts'[e] = IF e = d THEN Counts[e] + 1 ELSE Counts[e]
      <4>1. Counts[e] = Cardinality(Clients(e)) /\ Counts'[e] = Cardinality(Clients(e)')
        BY DEF Counts
      <4>2. IsFiniteSet(Clients(e))
        BY ClientsFinite
      <4>3. CASE e = d
        <5>1. Clients(e)' = Clients(e) \cup {f} /\ f \notin Clients(e)
          BY <3>1, <4>3 DEF Clients
        <5> QED BY <4>1, <4>2, <4>3, <5>1, Census
      <4>4. CASE e # d
        <5>1. Clients(e)' = Clients(e)
          BY <3>1, <4>4 DEF Clients
        <5> QED BY <4>1, <4>4, <5>1
      <4> QED BY <4>3, <4>4
    <3> QED BY <1>0, <2>7, <3>2 DEF Accept, Noted
  <2> QED BY <1>3, <2>1, <2>2, <2>3, <2>4, <2>5, <2>6, <2>7 DEF Daemon
<1>4. ASSUME NEW d \in Daemons, OpenFails(d) \/ Rest(d) \/ IdleExit(d) \/ Terminate(d)
      PROVE  CountInv'
  BY <1>1, <1>4 DEF OpenFails, Rest, IdleExit, Terminate, Enter, frontvars
<1>5. ASSUME NEW d \in Daemons, Kill(d) PROVE CountInv'
  BY <1>1, <1>5 DEF Kill, Enter, Over, frontvars
<1>6. ASSUME NEW f \in Frontends, FrontendStep(f) PROVE CountInv'
  <2>0. f \in Daemons
    BY DEF Daemons
  <2>1. CASE Dial(f)
    <3>1. f \notin taken /\ taken' = taken /\ conn' = [conn EXCEPT ![f] = path]
      BY <2>1 DEF Dial, WiringInv, InContact
    <3>2. ASSUME NEW e \in Daemons PROVE Clients(e)' = Clients(e)
      BY <3>1 DEF Clients
    <3>3. Counts' = Counts
      BY <3>2 DEF Counts
    <3> QED BY <2>1, <3>3 DEF Dial, daemonvars
  <2>2. CASE NobodyThere(f)
    BY <1>1, <2>0, <2>2 DEF NobodyThere, Spawn, Enter, WiringInv
  <2>3. CASE Answered(f)
    <3>1. CASE HangUp(f)
      BY <1>2, <2>3, <3>1 DEF Answered
    <3>2. CASE UNCHANGED <<conn, taken, dropped>>
      BY <1>1, <2>3, <3>2 DEF Answered
    <3> QED BY <2>3, <3>1, <3>2 DEF Answered
  <2>4. CASE Unanswered(f)
    <3>1. \A d \in Daemons : phase'[d] \in {phase[d], "spawned"}
                             /\ (phase'[d] # phase[d] => phase[d] = "none")
      BY <2>0, <2>4 DEF Unanswered, Again, Spawn, Enter, WiringInv
    <3> QED BY <1>2, <2>4, <3>1 DEF Unanswered, Again
  <2>5. CASE Reap(f) \/ Peeked(f) \/ GiveUp(f)
    BY <1>1, <2>5 DEF Reap, Peeked, GiveUp, daemonvars
  <2> QED BY <1>6, <2>1, <2>2, <2>3, <2>4, <2>5 DEF FrontendStep
<1>7. ASSUME NEW f \in Frontends, Start(f) PROVE CountInv'
  BY <1>1, <1>7 DEF Start, daemonvars
<1>8. ASSUME NEW f \in Frontends, Leave(f) PROVE CountInv'
  BY <1>2, <1>8 DEF Leave
<1> QED BY <1>3, <1>4, <1>5, <1>6, <1>7, <1>8 DEF LifeNext

-----------------------------------------------------------------------------
(* What a frontend that was not disturbed may rely on.                     *)

Undisturbed(f) == step[f] \in Starting /\ f \notin disturbed

Calm(f) ==
    /\ \A d \in Daemons : phase[d] \notin Leaving
    /\ \A g \in Frontends : step[g] # "peeking"
    /\ phase[f] \in {"failed", "exited"} => Held
    /\ step[f] \in {"waiting", "shaking", "verified", "joining"} =>
          \E d \in Daemons : phase[d] \in Coming
    /\ step[f] \in {"verified", "joining"} => \E d \in Daemons : phase[d] = "serving"

LEMMA QuietMeans ==
    QuietInv <=> /\ \A f \in Frontends : Undisturbed(f) => Calm(f)
                 /\ \A f \in Frontends : step[f] = "failed" => f \in disturbed
BY DEF QuietInv, Undisturbed, Calm, FailsOnlyWhenDisturbed

\* A daemon leaves, or may be about to: whoever is starting is disturbed.
LEMMA DisturbQuiets ==
    ASSUME LifecycleTypeOK, QuietInv, Disturb, UNCHANGED step
    PROVE  QuietInv'
BY DEF QuietInv, Disturb, FailsOnlyWhenDisturbed, LifecycleTypeOK

\* Nothing that a calm frontend relies on is taken away.
LEMMA StaysCalm ==
    ASSUME LifecycleTypeOK, QuietInv, step' = step, disturbed' = disturbed, phase' = phase
    PROVE  QuietInv'
BY DEF QuietInv, FailsOnlyWhenDisturbed, Held

LEMMA QuietDaemon ==
    ASSUME LifecycleTypeOK, HolderInv, QuietInv, NEW d \in Daemons, Daemon(d)
    PROVE  QuietInv'
<1> USE DEF LifecycleTypeOK
<1>0. step' = step /\ disturbed' = disturbed
  BY DEF Daemon, TakeLock, Bind, Open, Unlink, Exit, TaskEnds, Accept, frontvars
<1>1. ASSUME NEW q, NEW r, phase[d] = q, phase' = [phase EXCEPT ![d] = r],
             <<q, r>> \in {<<"spawned", "locked">>, <<"locked", "bound">>, <<"bound", "serving">>}
      PROVE  QuietInv'
  <2>1. ASSUME NEW f \in Frontends, Undisturbed(f), Calm(f) PROVE Calm(f)'
    <3>1. /\ \A e \in Daemons : phase'[e] \notin Leaving
          /\ \A g \in Frontends : step'[g] # "peeking"
      BY <1>0, <1>1, <2>1 DEF Calm, Leaving
    <3>2. phase'[f] \in {"failed", "exited"} => Held'
      BY <1>1, <2>1 DEF Calm, Held, Holding, Daemons
    <3>3. /\ phase'[d] \in Coming
          /\ \A e \in Daemons : phase[e] = "serving" => phase'[e] = "serving"
      BY <1>1 DEF Coming
    <3> QED BY <1>0, <2>1, <3>1, <3>2, <3>3 DEF Calm
  <2>2. \A f \in Frontends : Undisturbed(f)' => Undisturbed(f) /\ Calm(f)
    BY <1>0, QuietMeans DEF Undisturbed
  <2>3. \A f \in Frontends : step'[f] = "failed" => f \in disturbed'
    BY <1>0, QuietMeans
  <2>4. \A f \in Frontends : Undisturbed(f)' => Calm(f)'
    BY <2>1, <2>2
  <2> QED BY <2>3, <2>4 DEF QuietInv, Undisturbed, Calm, FailsOnlyWhenDisturbed
<1>2. CASE TakeLock(d)
  <2>1. CASE phase' = [phase EXCEPT ![d] = "locked"]
    BY <1>1, <1>2, <2>1 DEF TakeLock
  <2>2. CASE /\ Held \/ \E f \in Frontends : step[f] = "peeking"
             /\ phase' = [phase EXCEPT ![d] = "failed"]
    <3>1. phase[d] = "spawned"
      BY <1>2 DEF TakeLock
    <3>2. ASSUME NEW f \in Frontends, Undisturbed(f)' PROVE Calm(f)'
      <4>1. Undisturbed(f) /\ Calm(f)
        BY <1>0, <3>2, QuietMeans DEF Undisturbed
      <4>2. PICK e \in Daemons : phase[e] \in Holding
        BY <2>2, <4>1 DEF Calm, Held
      <4>3. phase[e] \in {"locked", "bound", "serving"} /\ e # d
        BY <3>1, <4>1, <4>2 DEF Calm, Leaving, Holding
      <4>4. phase'[e] \in {"locked", "bound", "serving"}
        BY <2>2, <4>3
      <4>5. Held' /\ \E c \in Daemons : phase'[c] \in Coming
        BY <4>4 DEF Held, Holding, Coming
      <4>6. \A c \in Daemons : phase'[c] \notin Leaving
        BY <2>2, <4>1 DEF Calm, Leaving
      <4>7. \A c \in Daemons : phase[c] = "serving" => phase'[c] = "serving"
        BY <2>2, <3>1
      <4> QED BY <1>0, <4>1, <4>5, <4>6, <4>7 DEF Calm
    <3>3. \A f \in Frontends : step'[f] = "failed" => f \in disturbed'
      BY <1>0, QuietMeans
    <3> QED BY <3>2, <3>3 DEF QuietInv, Undisturbed, Calm, FailsOnlyWhenDisturbed
  <2> QED BY <1>2, <2>1, <2>2 DEF TakeLock, Enter
<1>3. CASE Bind(d)
  BY <1>1, <1>3 DEF Bind, Enter
<1>4. CASE Open(d)
  BY <1>1, <1>4 DEF Open, Enter
<1>5. CASE Unlink(d) \/ Exit(d)
  <2>1. phase[d] \in Leaving
    BY <1>5 DEF Unlink, Exit, Leaving
  <2>2. \A f \in Frontends : ~Undisturbed(f)
    BY <2>1, QuietMeans DEF Calm
  <2>3. \A f \in Frontends : ~Undisturbed(f)'
    BY <1>0, <2>2 DEF Undisturbed
  <2>4. \A f \in Frontends : step'[f] = "failed" => f \in disturbed'
    BY <1>0, QuietMeans
  <2> QED BY <2>3, <2>4 DEF QuietInv, Undisturbed, Calm, FailsOnlyWhenDisturbed
<1>6. CASE TaskEnds(d) \/ \E f \in Frontends : Accept(d, f)
  <2>1. phase' = phase
    BY <1>6 DEF TaskEnds, Accept
  <2> QED BY <1>0, <2>1, StaysCalm
<1> QED BY <1>2, <1>3, <1>4, <1>5, <1>6 DEF Daemon

\* A frontend takes a step, or spawns, and the others stay as calm as they were; it too,
\* but for what it relies on in the step it comes to.
LEMMA OthersStayCalm ==
    ASSUME LifecycleTypeOK, QuietInv, NEW f \in Frontends, NEW s \in Steps, s # "peeking",
           step' = [step EXCEPT ![f] = s], disturbed' = disturbed,
           \/ phase' = phase
           \/ phase' = [phase EXCEPT ![f] = "spawned"] /\ phase[f] = "none"
    PROVE  /\ \A g \in Frontends \ {f} :
                 (Undisturbed(g)' => Calm(g)') /\ (step'[g] = "failed" => g \in disturbed')
           /\ step'[f] = s
           /\ Undisturbed(f) =>
                 /\ \A d \in Daemons : phase'[d] \notin Leaving
                 /\ \A g \in Frontends : step'[g] # "peeking"
                 /\ phase'[f] \in {"failed", "exited"} => Held'
                 /\ (\E d \in Daemons : phase[d] \in Coming)
                       => \E d \in Daemons : phase'[d] \in Coming
                 /\ (\E d \in Daemons : phase[d] = "serving")
                       => \E d \in Daemons : phase'[d] = "serving"
<1> USE DEF LifecycleTypeOK
<1>1. /\ \A d \in Daemons : phase'[d] = phase[d] \/ (phase[d] = "none" /\ phase'[d] = "spawned")
      /\ f \in Daemons
  <2>1. f \in Daemons
    BY DEF Daemons
  <2>2. CASE phase' = phase
    BY <2>1, <2>2
  <2>3. CASE phase' = [phase EXCEPT ![f] = "spawned"] /\ phase[f] = "none"
    BY <2>1, <2>3
  <2> QED BY <2>2, <2>3
<1>2. /\ \A d \in Daemons : phase[d] \notin Leaving => phase'[d] \notin Leaving
      /\ Held => Held'
      /\ \A d \in Daemons : phase[d] \in Coming => phase'[d] \in Coming
      /\ \A d \in Daemons : phase[d] = "serving" => phase'[d] = "serving"
  BY <1>1 DEF Leaving, Held, Holding, Coming
<1>3. /\ step'[f] = s /\ \A g \in Frontends \ {f} : step'[g] = step[g]
      /\ \A g \in Frontends : phase'[g] \in {"failed", "exited"} => phase[g] \in {"failed", "exited"}
  BY <1>1 DEF Daemons
<1>4. ASSUME NEW g \in Frontends, Undisturbed(g)
      PROVE  /\ \A d \in Daemons : phase'[d] \notin Leaving
             /\ \A h \in Frontends : step'[h] # "peeking"
             /\ phase'[g] \in {"failed", "exited"} => Held'
             /\ (\E d \in Daemons : phase[d] \in Coming)
                   => \E d \in Daemons : phase'[d] \in Coming
             /\ (\E d \in Daemons : phase[d] = "serving")
                   => \E d \in Daemons : phase'[d] = "serving"
  <2>1. Calm(g)
    BY <1>4, QuietMeans
  <2>2. /\ \A d \in Daemons : phase'[d] \notin Leaving
        /\ phase'[g] \in {"failed", "exited"} => Held'
    BY <1>2, <1>3, <2>1 DEF Calm
  <2>3. \A h \in Frontends : step'[h] # "peeking"
    BY <1>3, <2>1 DEF Calm
  <2> QED BY <1>2, <2>2, <2>3
<1>5. ASSUME NEW g \in Frontends \ {f}
      PROVE  (Undisturbed(g)' => Calm(g)') /\ (step'[g] = "failed" => g \in disturbed')
  <2>1. Undisturbed(g)' => Undisturbed(g)
    BY <1>3 DEF Undisturbed
  <2>2. Undisturbed(g) => Calm(g)
    BY QuietMeans
  <2>3. Undisturbed(g)' => Calm(g)'
    BY <1>3, <1>4, <2>1, <2>2 DEF Calm
  <2>4. step'[g] = "failed" => g \in disturbed'
    BY <1>3, QuietMeans
  <2> QED BY <2>3, <2>4
<1> QED BY <1>3, <1>4, <1>5

\* So it is enough to look at the one that took the step.
LEMMA QuietStep ==
    ASSUME LifecycleTypeOK, QuietInv, NEW f \in Frontends, NEW s \in Steps, s # "peeking",
           step' = [step EXCEPT ![f] = s], disturbed' = disturbed,
           \/ phase' = phase
           \/ phase' = [phase EXCEPT ![f] = "spawned"] /\ phase[f] = "none",
           s \in Starting => step[f] \in Starting,
           s \in {"waiting", "shaking", "verified", "joining"} /\ Undisturbed(f) =>
               \E d \in Daemons : phase'[d] \in Coming,
           s \in {"verified", "joining"} /\ Undisturbed(f) =>
               \E d \in Daemons : phase'[d] = "serving",
           s = "failed" => f \in disturbed
    PROVE  QuietInv'
<1>1. /\ \A g \in Frontends \ {f} :
            (Undisturbed(g)' => Calm(g)') /\ (step'[g] = "failed" => g \in disturbed')
      /\ step'[f] = s
      /\ Undisturbed(f) =>
            /\ \A d \in Daemons : phase'[d] \notin Leaving
            /\ \A g \in Frontends : step'[g] # "peeking"
            /\ phase'[f] \in {"failed", "exited"} => Held'
  BY OthersStayCalm
<1>2. Undisturbed(f)' => Undisturbed(f)
  BY <1>1 DEF Undisturbed
<1>3. Undisturbed(f)' => Calm(f)'
  BY <1>1, <1>2 DEF Calm
<1>4. step'[f] = "failed" => f \in disturbed'
  BY <1>1
<1>5. /\ \A g \in Frontends : Undisturbed(g)' => Calm(g)'
      /\ \A g \in Frontends : step'[g] = "failed" => g \in disturbed'
  BY <1>1, <1>3, <1>4
<1> QED BY <1>5 DEF QuietInv, Undisturbed, Calm, FailsOnlyWhenDisturbed

LEMMA QuietFrontend ==
    ASSUME LifecycleTypeOK, WiringInv, QuietInv, NEW f \in Frontends, FrontendStep(f)
    PROVE  QuietInv'
<1> USE DEF StepTo, Starting, Steps
<1>0. f \in Daemons /\ (Undisturbed(f) => Calm(f))
  BY QuietMeans DEF Daemons
<1>1. CASE Dial(f)
  <2>1. PICK s \in Steps : /\ step' = [step EXCEPT ![f] = s] /\ s # "peeking" /\ s # "failed"
                           /\ \/ step[f] = "probing" /\ s = "greeting"
                              \/ step[f] = "waiting" /\ s = "shaking"
                              \/ step[f] = "verified" /\ s = "joining"
    BY <1>1 DEF Dial
  <2>2. phase' = phase /\ disturbed' = disturbed
    BY <1>1 DEF Dial, daemonvars
  <2>3. /\ s \in {"waiting", "shaking", "verified", "joining"} /\ Undisturbed(f) =>
              \E d \in Daemons : phase'[d] \in Coming
        /\ s \in {"verified", "joining"} /\ Undisturbed(f) =>
              \E d \in Daemons : phase'[d] = "serving"
    BY <1>0, <2>1, <2>2 DEF Calm
  <2> QED BY <2>1, <2>2, <2>3, QuietStep
<1>2. CASE NobodyThere(f)
  <2>1. /\ step' = [step EXCEPT ![f] = "waiting"] /\ disturbed' = disturbed
        /\ step[f] = "probing"
        /\ phase' = [phase EXCEPT ![f] = "spawned"] /\ phase[f] = "none"
    BY <1>2 DEF NobodyThere, Spawn, Enter, WiringInv
  <2>2. \E d \in Daemons : phase'[d] \in Coming
    BY <1>0, <2>1 DEF Coming, LifecycleTypeOK
  <2> QED BY <2>1, <2>2, QuietStep
<1>3. CASE Answered(f)
  <2>1. /\ phase' = phase /\ disturbed' = disturbed /\ step[f] \in {"greeting", "shaking", "joining"}
        /\ \/ step' = [step EXCEPT ![f] = "verified"]
           \/ step' = [step EXCEPT ![f] = "attached"]
        /\ phase[conn[f]] = "serving"
    BY <1>3 DEF Answered
  <2>2. conn[f] \in Daemons
    BY <2>1 DEF WiringInv, InContact, LifecycleTypeOK
  <2>3. (\E d \in Daemons : phase'[d] \in Coming) /\ (\E d \in Daemons : phase'[d] = "serving")
    BY <2>1, <2>2 DEF Coming
  <2> QED BY <2>1, <2>3, QuietStep
<1>4. CASE Unanswered(f)
  <2>1. disturbed' = disturbed
    BY <1>4 DEF Unanswered
  <2>2. CASE step[f] = "greeting" /\ Spawn(f)
    <3>1. /\ step' = [step EXCEPT ![f] = "waiting"]
          /\ phase' = [phase EXCEPT ![f] = "spawned"] /\ phase[f] = "none"
      BY <2>2 DEF Spawn, Enter, WiringInv
    <3>2. \E d \in Daemons : phase'[d] \in Coming
      BY <1>0, <3>1 DEF Coming, LifecycleTypeOK
    <3> QED BY <2>1, <2>2, <3>1, <3>2, QuietStep
  <2>3. CASE step[f] = "shaking" /\ StepTo(f, "waiting") /\ UNCHANGED <<phase, unreaped>>
    <3>1. Undisturbed(f) => \E d \in Daemons : phase'[d] \in Coming
      BY <1>0, <2>3 DEF Calm
    <3> QED BY <2>1, <2>3, <3>1, QuietStep
  <2>4. CASE step[f] = "joining" /\ StepTo(f, "verified") /\ UNCHANGED <<phase, unreaped>>
    <3>1. Undisturbed(f) => /\ \E d \in Daemons : phase'[d] \in Coming
                            /\ \E d \in Daemons : phase'[d] = "serving"
      BY <1>0, <2>4 DEF Calm
    <3> QED BY <2>1, <2>4, <3>1, QuietStep
  <2> QED BY <1>4, <2>2, <2>3, <2>4 DEF Unanswered, Again
<1>5. CASE Reap(f)
  <2>1. phase' = phase /\ step[f] = "waiting"
    BY <1>5 DEF Reap, daemonvars
  <2>2. CASE UNCHANGED <<step, disturbed>>
    BY <2>1, <2>2, StaysCalm
  <2>3. CASE /\ phase[f] = "failed" /\ NobodyServes
             /\ step' = [step EXCEPT ![f] = "peeking"]
             /\ disturbed' = disturbed \cup {g \in Frontends \ {f} : step[g] \in Starting}
    <3>1. f \in disturbed
      BY <1>0, <2>1, <2>3 DEF Undisturbed, Calm, NobodyServes
    <3>2. \A g \in Frontends : step'[g] \in Starting => g \in disturbed'
      BY <2>1, <2>3, <3>1 DEF LifecycleTypeOK
    <3>3. \A g \in Frontends : step'[g] = "failed" => g \in disturbed'
      BY <2>1, <2>3, QuietMeans DEF LifecycleTypeOK
    <3> QED BY <3>2, <3>3 DEF QuietInv, FailsOnlyWhenDisturbed
  <2> QED BY <1>5, <2>2, <2>3 DEF Reap
<1>6. CASE Peeked(f)
  <2>1. step[f] = "peeking" /\ phase' = phase /\ disturbed' = disturbed
        /\ step' = [step EXCEPT ![f] = "failed"]
    BY <1>6 DEF Peeked, daemonvars
  <2>2. f \in disturbed
    BY <1>0, <2>1 DEF Undisturbed, Calm
  <2> QED BY <2>1, <2>2, QuietStep
<1>7. CASE GiveUp(f)
  <2>1. OutOfAttempts(f) /\ phase' = phase /\ disturbed' = disturbed
        /\ step' = [step EXCEPT ![f] = "failed"]
    BY <1>7 DEF GiveUp, daemonvars
  <2>2. f \in disturbed
    BY <1>0, <2>1 DEF OutOfAttempts, Undisturbed, Calm, Coming
  <2> QED BY <2>1, <2>2, QuietStep
<1> QED BY <1>1, <1>2, <1>3, <1>4, <1>5, <1>6, <1>7 DEF FrontendStep

LEMMA QuietNext ==
    ASSUME LifecycleTypeOK, HolderInv, WiringInv, QuietInv, LifeNext
    PROVE  QuietInv'
<1>1. ASSUME NEW d \in Daemons, Daemon(d) PROVE QuietInv'
  BY <1>1, QuietDaemon
<1>2. ASSUME NEW d \in Daemons, OpenFails(d) \/ IdleExit(d) \/ Terminate(d) \/ Kill(d)
      PROVE  QuietInv'
  BY <1>2, DisturbQuiets DEF OpenFails, IdleExit, Terminate, Kill, frontvars
<1>3. ASSUME NEW d \in Daemons, Rest(d) PROVE QuietInv'
  BY <1>3, StaysCalm DEF Rest, frontvars
<1>4. ASSUME NEW f \in Frontends, FrontendStep(f) PROVE QuietInv'
  BY <1>4, QuietFrontend
<1>5. ASSUME NEW f \in Frontends, Start(f) PROVE QuietInv'
  <2>1. /\ step[f] = "off" /\ step' = [step EXCEPT ![f] = "probing"] /\ phase' = phase
        /\ phase[f] = "none"
    BY <1>5 DEF Start, StepTo, daemonvars, WiringInv
  <2>2. CASE disturbed' = disturbed \cup {f}
    <3>1. \A g \in Frontends : Undisturbed(g)' => Undisturbed(g) /\ g # f
      BY <2>1, <2>2 DEF Undisturbed, LifecycleTypeOK
    <3>2. \A g \in Frontends : Undisturbed(g)' => Calm(g)'
      BY <2>1, <3>1, QuietMeans DEF Calm, Held, LifecycleTypeOK
    <3>3. \A g \in Frontends : step'[g] = "failed" => g \in disturbed'
      BY <2>1, <2>2, QuietMeans DEF LifecycleTypeOK
    <3> QED BY <3>2, <3>3 DEF QuietInv, Undisturbed, Calm, FailsOnlyWhenDisturbed
  <2>3. CASE /\ disturbed' = disturbed
             /\ \A d \in Daemons : phase[d] \notin {"leaving", "unlinked"}
             /\ \A g \in Frontends : step[g] # "peeking"
    <3>1. Calm(f)'
      BY <2>1, <2>3 DEF Calm, Leaving, LifecycleTypeOK
    <3>2. \A g \in Frontends \ {f} : Undisturbed(g)' => Undisturbed(g) /\ Calm(g)
      BY <2>1, <2>3, QuietMeans DEF Undisturbed, LifecycleTypeOK
    <3>3. \A g \in Frontends \ {f} : Undisturbed(g)' => Calm(g)'
      BY <2>1, <3>2 DEF Calm, Held, LifecycleTypeOK
    <3>4. \A g \in Frontends : step'[g] = "failed" => g \in disturbed'
      BY <2>1, <2>3, QuietMeans DEF LifecycleTypeOK
    <3>5. \A g \in Frontends : Undisturbed(g)' => Calm(g)'
      BY <3>1, <3>3
    <3> QED BY <3>4, <3>5 DEF QuietInv, Undisturbed, Calm, FailsOnlyWhenDisturbed
  <2> QED BY <1>5, <2>2, <2>3 DEF Start
<1>6. ASSUME NEW f \in Frontends, Leave(f) PROVE QuietInv'
  <2>1. step' = [step EXCEPT ![f] = "gone"] /\ phase' = phase /\ disturbed' = disturbed
    BY <1>6 DEF Leave, StepTo
  <2> QED BY <2>1, QuietStep DEF Starting, Steps
<1> QED BY <1>1, <1>2, <1>3, <1>4, <1>5, <1>6 DEF LifeNext

-----------------------------------------------------------------------------
(* The theorems.                                                           *)

LEMMA LifeStart ==
    ASSUME LifecycleConstants, LifeInit
    PROVE  LifeInv
<1>1. \A d \in Daemons : phase[d] = "none" \/ (d = Elder /\ phase[d] = "spawned")
  BY DEF LifeInit, Daemons
<1>2. LifecycleTypeOK
  <2>1. phase \in [Daemons -> Phases]
    BY DEF LifeInit, Phases
  <2>2. step \in [Frontends -> Steps] /\ conn \in [Frontends -> Daemons \cup {Nobody}]
    BY DEF LifeInit, Steps
  <2>3. active \in [Daemons -> Nat] /\ dropped \in [Daemons -> Nat]
    BY DEF LifeInit
  <2> QED BY <2>1, <2>2, <2>3 DEF LifeInit, LifecycleTypeOK, LifecycleConstants
<1>3. HolderInv /\ WiringInv
  BY <1>1 DEF LifeInit, HolderInv, Holding, WiringInv, InContact, Daemons, LifecycleConstants
<1>4. CountInv
  <2>1. \A d \in Daemons : Clients(d) = {}
    BY DEF LifeInit, Clients
  <2>2. \A d \in Daemons : Counts[d] = 0
    BY <1>2, <2>1, ClientsFinite
  <2> QED BY <1>1, <2>2 DEF LifeInit, CountInv
<1>5. QuietInv
  BY DEF LifeInit, QuietInv, FailsOnlyWhenDisturbed, Starting, Steps
<1> QED BY <1>2, <1>3, <1>4, <1>5 DEF LifeInv

LEMMA LifeKept ==
    ASSUME LifecycleConstants, LifeInv, [LifeNext]_lifevars
    PROVE  LifeInv'
<1>1. CASE LifeNext
  BY <1>1, LifeTypeNext, HolderNext, WiringNext, CountNext, QuietNext DEF LifeInv
<1>2. CASE UNCHANGED lifevars
  BY <1>2 DEF lifevars, daemonvars, frontvars, LifeInv, LifecycleTypeOK, HolderInv, WiringInv,
     CountInv, Counts, Clients, QuietInv, FailsOnlyWhenDisturbed, Held
<1> QED BY <1>1, <1>2

\* A daemon that is idle, by its tracker, has no client it has accepted.
LEMMA IdleMeansAlone ==
    ASSUME LifecycleConstants, LifeInv, LifeNext
    PROVE  SparesClients
<1> SUFFICES ASSUME NEW d \in Daemons, phase[d] = "serving", phase'[d] = "leaving",
                    lifeFaults' = lifeFaults, NEW f \in Frontends, conn[f] = d, f \in taken
             PROVE  FALSE
  BY DEF SparesClients
<1> USE DEF LifeInv, LifecycleTypeOK
<1>1. f \in Clients(d)
  BY DEF Clients
<1>2. active[d] # 0
  BY <1>1, ClientsFinite DEF CountInv
<1>3. ~IdleExit(d)
  BY <1>2 DEF IdleExit
<1>4. ASSUME NEW e \in Daemons PROVE ~Terminate(e) /\ ~OpenFails(e) /\ ~Kill(e)
  BY DEF Terminate, OpenFails, Kill, LifeFault
<1>5. ASSUME NEW e \in Daemons, Daemon(e) PROVE FALSE
  BY <1>5 DEF Daemon, TakeLock, Bind, Open, Unlink, Exit, TaskEnds, Accept, Enter
<1>6. ASSUME NEW e \in Daemons, Rest(e) \/ IdleExit(e) PROVE FALSE
  BY <1>3, <1>6 DEF Rest, IdleExit, Enter
<1>7. ASSUME NEW g \in Frontends PROVE phase' = phase \/ phase' = [phase EXCEPT ![g] = "spawned"]
                                       \/ ~(FrontendStep(g) \/ Start(g) \/ Leave(g))
  BY DEF FrontendStep, Dial, NobodyThere, Answered, Unanswered, Again, Reap, Peeked, GiveUp, Start,
     Leave, Spawn, Enter, daemonvars
<1>8. ASSUME NEW g \in Frontends, FrontendStep(g) \/ Start(g) \/ Leave(g) PROVE FALSE
  BY <1>7, <1>8
<1> QED BY <1>4, <1>5, <1>6, <1>8 DEF LifeNext

\* A daemon that serves has the endpoint: ServingIsReachable, for any number of frontends
\* and faults, whoever binds, unlinks or is killed in between.
THEOREM ServingHasTheSocket == LifecycleConstants => (LifeSpec => []ServingIsReachable)
<1> SUFFICES ASSUME LifecycleConstants PROVE LifeSpec => []ServingIsReachable
  OBVIOUS
<1>1. LifeInit => LifeInv
  BY LifeStart
<1>2. LifeInv /\ [LifeNext]_lifevars => LifeInv'
  BY LifeKept
<1>3. LifeInv => ServingIsReachable
  BY DEF LifeInv, HolderInv, ServingIsReachable
<1> QED BY <1>1, <1>2, <1>3, PTL DEF LifeSpec

\* A frontend that gives up was disturbed during its start: FailsOnlyWhenDisturbed, for any
\* number of frontends and faults.
THEOREM GivesUpForAReason == LifecycleConstants => (LifeSpec => []FailsOnlyWhenDisturbed)
<1> SUFFICES ASSUME LifecycleConstants PROVE LifeSpec => []FailsOnlyWhenDisturbed
  OBVIOUS
<1>1. LifeInit => LifeInv
  BY LifeStart
<1>2. LifeInv /\ [LifeNext]_lifevars => LifeInv'
  BY LifeKept
<1>3. LifeInv => FailsOnlyWhenDisturbed
  BY DEF LifeInv, QuietInv
<1> QED BY <1>1, <1>2, <1>3, PTL DEF LifeSpec

\* No daemon leaves for idleness while it has a client: NoIdleExitUnderClient, an action
\* property, from the count of the tracker.
THEOREM IdleExitSparesClients == LifecycleConstants => (LifeSpec => NoIdleExitUnderClient)
<1> SUFFICES ASSUME LifecycleConstants PROVE LifeSpec => NoIdleExitUnderClient
  OBVIOUS
<1>1. LifeInit => LifeInv
  BY LifeStart
<1>2. LifeInv /\ [LifeNext]_lifevars => LifeInv'
  BY LifeKept
<1>3. LifeInv /\ [LifeNext]_lifevars => [SparesClients]_lifevars
  BY IdleMeansAlone
<1> QED BY <1>1, <1>2, <1>3, PTL DEF LifeSpec, NoIdleExitUnderClient

(***************************************************************************)
(* The quotas of the server.  Each counter is the number of what it        *)
(* counts, so that its bound is a bound on that, and no refusal is made    *)
(* while there is room.                                                    *)
(***************************************************************************)

Link == [step : LineSteps, claim : Identities \cup {NoOne}, as : Identities \cup {NoOne}]
Work == {"enqueued", "declined", "storing", "stored"}

Holders(i) == {c \in Connections : line[c].as = i}
Present == Connections \ In({"gone"})
HeldSlots == [i \in Identities |-> Cardinality(Holders(i))]
Busy == [f \in Accounts |-> Cardinality(Working(f))]

\* Who is where, and under which name.
StepsInv == \A c \in Connections :
    /\ line[c].step \in Work => line[c].as # NoOne
    /\ line[c].step \in {"gone", "freed"} => line[c].as = NoOne
    /\ line[c].step \in {"shaking", "admitted"} =>
          line[c].claim \in Identities /\ line[c].as \in {NoOne, line[c].claim}

\* Each counter counts.
CountsInv ==
    /\ clients = HeldSlots /\ queued = Busy
    /\ storing = Cardinality(In({"storing"}))
    /\ live = Cardinality(Present)

BoundsInv ==
    /\ IsFiniteSet(HeldBy(Authenticated))
    /\ Cardinality(HeldBy(Authenticated)) <= MaxClients
    /\ storing <= MaxStorage
    /\ \A f \in Accounts : queued[f] <= MaxQueued
    /\ ~wronged

LimitsInv == LimitsTypeOK /\ StepsInv /\ CountsInv /\ BoundsInv

-----------------------------------------------------------------------------
(* Counting.                                                               *)

LEMMA Tally ==
    ASSUME NEW S, IsFiniteSet(S), NEW c, NEW T,
           T \subseteq S \cup {c}, S \subseteq T \cup {c}
    PROVE  /\ IsFiniteSet(T) /\ Cardinality(S) \in Nat /\ Cardinality(T) \in Nat
           /\ (c \in S <=> c \in T) => Cardinality(T) = Cardinality(S)
           /\ c \in T /\ c \notin S => Cardinality(T) = Cardinality(S) + 1
           /\ c \notin T /\ c \in S => Cardinality(T) = Cardinality(S) - 1 /\ Cardinality(S) # 0
<1>1. Cardinality(S) \in Nat
  BY FS_CardinalityType
<1>2. CASE c \in S <=> c \in T
  <2>1. T = S
    BY <1>2
  <2> QED BY <1>1, <1>2, <2>1
<1>3. CASE c \in T /\ c \notin S
  <2>1. T = S \cup {c}
    BY <1>3
  <2>2. IsFiniteSet(S \cup {c}) /\ Cardinality(S \cup {c}) = Cardinality(S) + 1
    BY <1>3, FS_AddElement
  <2> QED BY <1>1, <1>3, <2>1, <2>2
<1>4. CASE c \notin T /\ c \in S
  <2>1. T = S \ {c}
    BY <1>4
  <2>2. IsFiniteSet(S \ {c}) /\ Cardinality(S \ {c}) = Cardinality(S) - 1
    BY <1>4, FS_RemoveElement
  <2>3. Cardinality(S \ {c}) \in Nat
    BY <2>2, FS_CardinalityType
  <2> QED BY <1>1, <1>4, <2>1, <2>2, <2>3
<1> QED BY <1>2, <1>3, <1>4

LEMMA AllFinite ==
    ASSUME LimitsConstants
    PROVE  /\ \A i : IsFiniteSet(Holders(i))
           /\ \A f : IsFiniteSet(Working(f))
           /\ IsFiniteSet(In({"storing"})) /\ IsFiniteSet(Present)
BY FS_Subset DEF LimitsConstants, Holders, Working, In, Present

\* One connection changes: what that does to each count.
LEMMA ConnMoves ==
    ASSUME LimitsConstants, LimitsInv, NEW c \in Connections, NEW r \in Link,
           line' = [line EXCEPT ![c] = r]
    PROVE  /\ line' \in [Connections -> Link] /\ line'[c] = r
           /\ \A d \in Connections : d # c => line'[d] = line[d]
BY DEF LimitsInv, LimitsTypeOK, Link

LEMMA SlotMoves ==
    ASSUME NEW i \in Identities, LimitsConstants, LimitsInv, NEW c \in Connections, NEW r \in Link,
           line' = [line EXCEPT ![c] = r]
    PROVE  /\ (line[c].as = i <=> r.as = i) => HeldSlots'[i] = clients[i]
           /\ line[c].as # i /\ r.as = i => HeldSlots'[i] = clients[i] + 1
           /\ line[c].as = i /\ r.as # i => /\ HeldSlots'[i] = clients[i] - 1
                                            /\ clients[i] # 0
<1>1. /\ Holders(i)' \subseteq Holders(i) \cup {c} /\ Holders(i) \subseteq Holders(i)' \cup {c}
      /\ (c \in Holders(i) <=> line[c].as = i) /\ (c \in Holders(i)' <=> r.as = i)
  BY ConnMoves DEF Holders
<1>2. clients[i] = Cardinality(Holders(i)) /\ IsFiniteSet(Holders(i))
  BY AllFinite DEF LimitsInv, CountsInv, HeldSlots
<1>3. HeldSlots'[i] = Cardinality(Holders(i)')
  BY DEF HeldSlots
<1> QED BY <1>1, <1>2, <1>3, Tally

LEMMA WorkMoves ==
    ASSUME NEW f \in Accounts, LimitsConstants, LimitsInv, NEW c \in Connections, NEW r \in Link,
           line' = [line EXCEPT ![c] = r]
    PROVE  /\ (line[c].step \in Work /\ line[c].as[1] = f <=> r.step \in Work /\ r.as[1] = f)
                 => Busy'[f] = queued[f]
           /\ ~(line[c].step \in Work /\ line[c].as[1] = f) /\ r.step \in Work /\ r.as[1] = f
                 => Busy'[f] = queued[f] + 1
           /\ line[c].step \in Work /\ line[c].as[1] = f /\ ~(r.step \in Work /\ r.as[1] = f)
                 => Busy'[f] = queued[f] - 1 /\ queued[f] # 0
<1>1. /\ Working(f)' \subseteq Working(f) \cup {c} /\ Working(f) \subseteq Working(f)' \cup {c}
      /\ (c \in Working(f) <=> line[c].step \in Work /\ line[c].as[1] = f)
      /\ (c \in Working(f)' <=> r.step \in Work /\ r.as[1] = f)
  BY ConnMoves DEF Working, In, Work
<1>2. queued[f] = Cardinality(Working(f)) /\ IsFiniteSet(Working(f))
  BY AllFinite DEF LimitsInv, CountsInv, Busy
<1>3. Busy'[f] = Cardinality(Working(f)')
  BY DEF Busy
<1> QED BY <1>1, <1>2, <1>3, Tally

LEMMA StorageMoves ==
    ASSUME LimitsConstants, LimitsInv, NEW c \in Connections, NEW r \in Link,
           line' = [line EXCEPT ![c] = r]
    PROVE  /\ (line[c].step = "storing" <=> r.step = "storing")
                 => Cardinality(In({"storing"}))' = storing
           /\ line[c].step # "storing" /\ r.step = "storing"
                 => Cardinality(In({"storing"}))' = storing + 1
           /\ line[c].step = "storing" /\ r.step # "storing"
                 => Cardinality(In({"storing"}))' = storing - 1 /\ storing # 0
<1> DEFINE S == In({"storing"})
<1>1. /\ S' \subseteq S \cup {c} /\ S \subseteq S' \cup {c}
      /\ (c \in S <=> line[c].step = "storing") /\ (c \in S' <=> r.step = "storing")
  BY ConnMoves DEF In
<1>2. storing = Cardinality(S) /\ IsFiniteSet(S)
  BY AllFinite DEF LimitsInv, CountsInv
<1> HIDE DEF S
<1>3. /\ (line[c].step = "storing" <=> r.step = "storing") => Cardinality(S') = storing
      /\ line[c].step # "storing" /\ r.step = "storing" => Cardinality(S') = storing + 1
      /\ line[c].step = "storing" /\ r.step # "storing"
            => Cardinality(S') = storing - 1 /\ storing # 0
  BY <1>1, <1>2, Tally
<1> QED BY <1>3 DEF S

LEMMA LiveMoves ==
    ASSUME LimitsConstants, LimitsInv, NEW c \in Connections, NEW r \in Link,
           line' = [line EXCEPT ![c] = r]
    PROVE  /\ (line[c].step = "gone" <=> r.step = "gone") => Cardinality(Present)' = live
           /\ line[c].step = "gone" /\ r.step # "gone" => Cardinality(Present)' = live + 1
           /\ line[c].step # "gone" /\ r.step = "gone"
                 => Cardinality(Present)' = live - 1 /\ live # 0
<1>1. /\ Present' \subseteq Present \cup {c} /\ Present \subseteq Present' \cup {c}
      /\ (c \in Present <=> line[c].step # "gone") /\ (c \in Present' <=> r.step # "gone")
  BY ConnMoves DEF Present, In
<1>2. live = Cardinality(Present) /\ IsFiniteSet(Present)
  BY AllFinite DEF LimitsInv, CountsInv
<1> QED BY <1>1, <1>2, Tally


\* The identities that hold a slot are those of the connections.
LEMMA SlotsAreHeld ==
    ASSUME LimitsConstants, LimitsInv
    PROVE  Slots(clients) = HeldBy(Authenticated)
<1>1. ASSUME NEW i \in Identities PROVE clients[i] > 0 <=> \E c \in Connections : line[c].as = i
  <2>1. clients[i] = Cardinality(Holders(i)) /\ IsFiniteSet(Holders(i))
    BY AllFinite DEF LimitsInv, CountsInv, HeldSlots
  <2>2. clients[i] \in Nat
    BY DEF LimitsInv, LimitsTypeOK
  <2>3. Cardinality(Holders(i)) = 0 <=> Holders(i) = {}
    BY <2>1, FS_EmptySet
  <2> QED BY <2>1, <2>2, <2>3 DEF Holders
<1>2. \A c \in Connections : line[c].as # NoOne => line[c].as \in Identities
  BY DEF LimitsInv, LimitsTypeOK
<1>3. ASSUME NEW i \in Slots(clients) PROVE i \in HeldBy(Authenticated)
  <2>1. i \in Identities /\ i # NoOne
    BY <1>3 DEF Slots, LimitsConstants
  <2> QED BY <1>1, <1>3, <2>1 DEF Slots, HeldBy, Authenticated
<1>4. ASSUME NEW i \in HeldBy(Authenticated) PROVE i \in Slots(clients)
  BY <1>1, <1>2 DEF Slots, HeldBy, Authenticated
<1> QED BY <1>3, <1>4

\* How the held identities change with one connection.
LEMMA HeldMoves ==
    ASSUME LimitsConstants, LimitsInv, NEW c \in Connections, NEW r \in Link,
           line' = [line EXCEPT ![c] = r]
    PROVE  /\ r.as \in {line[c].as, NoOne} =>
                 /\ IsFiniteSet(HeldBy(Authenticated))'
                 /\ Cardinality(HeldBy(Authenticated))' <= MaxClients
           /\ line[c].as = NoOne =>
                 /\ IsFiniteSet(HeldBy(Authenticated))'
                 /\ r.as \in HeldBy(Authenticated) =>
                       Cardinality(HeldBy(Authenticated))' <= MaxClients
                 /\ Cardinality(HeldBy(Authenticated)) < MaxClients =>
                       Cardinality(HeldBy(Authenticated))' <= MaxClients
<1> DEFINE H == HeldBy(Authenticated)
<1>1. /\ line'[c] = r /\ \A d \in Connections : d # c => line'[d] = line[d]
  BY DEF LimitsInv, LimitsTypeOK
<1>2. IsFiniteSet(H) /\ Cardinality(H) \in Nat /\ Cardinality(H) <= MaxClients /\ MaxClients \in Nat
  BY FS_CardinalityType DEF LimitsConstants, LimitsInv, BoundsInv
<1>3. H' \subseteq H \cup {r.as}
  BY <1>1 DEF HeldBy, Authenticated
<1>4. CASE r.as \in {line[c].as, NoOne}
  <2>1. H' \subseteq H
    BY <1>1, <1>4 DEF HeldBy, Authenticated
  <2> HIDE DEF H
  <2>2. IsFiniteSet(H') /\ Cardinality(H') <= Cardinality(H)
    BY <1>2, <2>1, FS_Subset
  <2>3. Cardinality(H') \in Nat
    BY <2>2, FS_CardinalityType
  <2>4. Cardinality(H') <= MaxClients
    BY <1>2, <2>2, <2>3
  <2>5. line[c].as = NoOne => r.as \in {line[c].as, NoOne}
    BY <1>4
  <2> QED BY <2>2, <2>4 DEF H
<1>5. CASE line[c].as = NoOne /\ r.as # NoOne
  <2> HIDE DEF H
  <2>1. /\ IsFiniteSet(H \cup {r.as})
        /\ Cardinality(H \cup {r.as}) = IF r.as \in H THEN Cardinality(H) ELSE Cardinality(H) + 1
    BY <1>2, FS_AddElement
  <2>2. IsFiniteSet(H') /\ Cardinality(H') <= Cardinality(H \cup {r.as})
    BY <1>3, <2>1, FS_Subset
  <2>3. Cardinality(H') \in Nat
    BY <2>2, FS_CardinalityType
  <2>4. r.as \in H \/ Cardinality(H) < MaxClients => Cardinality(H') <= MaxClients
    BY <1>2, <2>1, <2>2, <2>3
  <2> QED BY <1>5, <2>2, <2>4 DEF H
<1> QED BY <1>4, <1>5

\* What a connection may be after a step.
LinkOK(r) ==
    /\ r \in Link
    /\ r.step \in Work => r.as # NoOne
    /\ r.step \in {"gone", "freed"} => r.as = NoOne
    /\ r.step \in {"shaking", "admitted"} => r.claim \in Identities /\ r.as \in {NoOne, r.claim}

\* A step of a connection, and of the counters with it.
LEMMA StepKeeps ==
    ASSUME LimitsConstants, LimitsInv, NEW c \in Connections, NEW r, LinkOK(r),
           line' = [line EXCEPT ![c] = r],
           clients' \in [Identities -> Nat], queued' \in [Accounts -> Nat],
           storing' \in Nat, live' \in Nat,
           clients' = HeldSlots', queued' = Busy',
           storing' = Cardinality(In({"storing"}))', live' = Cardinality(Present)',
           IsFiniteSet(HeldBy(Authenticated))',
           Cardinality(HeldBy(Authenticated))' <= MaxClients,
           storing' <= MaxStorage, \A f \in Accounts : queued'[f] <= MaxQueued,
           wronged' = wronged
    PROVE  LimitsInv'
<1>1. /\ line' \in [Connections -> Link] /\ line'[c] = r
      /\ \A d \in Connections : d # c => line'[d] = line[d]
  BY DEF LimitsInv, LimitsTypeOK, Link, LinkOK
<1>2. LimitsTypeOK'
  BY <1>1 DEF LimitsInv, LimitsTypeOK, Link
<1>3. StepsInv'
  BY <1>1 DEF LimitsInv, StepsInv, LinkOK
<1>4. CountsInv'
  BY DEF CountsInv
<1>5. BoundsInv'
  BY DEF LimitsInv, BoundsInv
<1> QED BY <1>2, <1>3, <1>4, <1>5 DEF LimitsInv

\* The name of the connection stays: so do the slots.
LEMMA NamesKept ==
    ASSUME LimitsConstants, LimitsInv, NEW c \in Connections, NEW r \in Link,
           line' = [line EXCEPT ![c] = r], r.as = line[c].as
    PROVE  /\ clients = HeldSlots'
           /\ IsFiniteSet(HeldBy(Authenticated))'
           /\ Cardinality(HeldBy(Authenticated))' <= MaxClients
<1>1. ASSUME NEW i \in Identities PROVE clients[i] = HeldSlots'[i]
  BY SlotMoves
<1>2. clients = HeldSlots'
  BY <1>1 DEF LimitsInv, LimitsTypeOK, HeldSlots
<1> QED BY <1>2, HeldMoves

\* It is at work before and after, or neither: its queue stays.
LEMMA WorkKept ==
    ASSUME LimitsConstants, LimitsInv, NEW c \in Connections, NEW r \in Link,
           line' = [line EXCEPT ![c] = r],
           r.step \in Work <=> line[c].step \in Work, r.step \in Work => r.as = line[c].as
    PROVE  queued = Busy'
<1>1. ASSUME NEW f \in Accounts PROVE queued[f] = Busy'[f]
  BY WorkMoves
<1> QED BY <1>1 DEF LimitsInv, LimitsTypeOK, Busy

\* The bounds before the step, for the counters that it leaves.
LEMMA Bounded ==
    ASSUME LimitsInv
    PROVE  /\ clients \in [Identities -> Nat] /\ queued \in [Accounts -> Nat]
           /\ storing \in Nat /\ live \in Nat
           /\ storing <= MaxStorage /\ \A f \in Accounts : queued[f] <= MaxQueued
           /\ wronged = FALSE
BY DEF LimitsInv, LimitsTypeOK, BoundsInv

\* A step within a name and a kind of step, which no counter hears of.
LEMMA PlainStep ==
    ASSUME LimitsConstants, LimitsInv, NEW c \in Connections, NEW r, LinkOK(r),
           line' = [line EXCEPT ![c] = r],
           UNCHANGED <<clients, queued, storing, live, wronged>>,
           r.as = line[c].as, r.step \in Work <=> line[c].step \in Work,
           r.step = "storing" <=> line[c].step = "storing",
           r.step = "gone" <=> line[c].step = "gone"
    PROVE  LimitsInv'
<1>1. r \in Link
  BY DEF LinkOK
<1>2. clients = HeldSlots' /\ queued = Busy'
  BY <1>1, NamesKept, WorkKept
<1>3. storing' = Cardinality(In({"storing"}))' /\ live' = Cardinality(Present)'
  BY <1>1, StorageMoves, LiveMoves
<1>4. /\ IsFiniteSet(HeldBy(Authenticated))'
      /\ Cardinality(HeldBy(Authenticated))' <= MaxClients
  BY <1>1, NamesKept
<1>5. /\ clients' = HeldSlots' /\ queued' = Busy'
      /\ clients' \in [Identities -> Nat] /\ queued' \in [Accounts -> Nat]
      /\ storing' \in Nat /\ live' \in Nat
      /\ storing' <= MaxStorage /\ \A f \in Accounts : queued'[f] <= MaxQueued
  BY <1>2, Bounded
<1> QED BY <1>3, <1>4, <1>5, StepKeeps

\* Goes and its kind change one connection.
LEMMA Moved ==
    ASSUME LimitsInv, NEW c \in Connections, NEW next, Goes(c, next)
    PROVE  line' = [line EXCEPT ![c] = [step |-> next, claim |-> NoOne, as |-> line[c].as]]
BY DEF Goes

\* The slot goes back with the name.
LEMMA SlotFreed ==
    ASSUME LimitsConstants, LimitsInv, NEW c \in Connections, NEW r \in Link,
           line' = [line EXCEPT ![c] = r], r.as = NoOne,
           clients' = IF line[c].as = NoOne THEN clients ELSE Unregistered(clients, line[c].as)
    PROVE  /\ clients' = HeldSlots' /\ clients' \in [Identities -> Nat]
           /\ IsFiniteSet(HeldBy(Authenticated))'
           /\ Cardinality(HeldBy(Authenticated))' <= MaxClients
<1>1. line[c].as \in Identities \cup {NoOne}
  BY DEF LimitsInv, LimitsTypeOK
<1>2. clients' \in [Identities -> Nat]
  BY <1>1, Bounded DEF Unregistered
<1>3. ASSUME NEW i \in Identities PROVE clients'[i] = HeldSlots'[i]
  <2>1. i # NoOne
    BY DEF LimitsConstants
  <2>2. CASE line[c].as = i
    <3>1. clients'[i] = IF clients[i] = 0 THEN 0 ELSE clients[i] - 1
      BY <2>1, <2>2, Bounded DEF Unregistered
    <3> QED BY <2>1, <2>2, <3>1, SlotMoves
  <2>3. CASE line[c].as # i
    <3>1. clients'[i] = clients[i]
      BY <1>1, <2>3, Bounded DEF Unregistered
    <3> QED BY <2>1, <2>3, <3>1, SlotMoves
  <2> QED BY <2>2, <2>3
<1>4. clients' = HeldSlots'
  BY <1>2, <1>3 DEF HeldSlots
<1> QED BY <1>2, <1>4, HeldMoves

LEMMA Stutter ==
    ASSUME LimitsInv, UNCHANGED limitvars
    PROVE  LimitsInv'
BY DEF limitvars, LimitsInv, LimitsTypeOK, StepsInv, CountsInv, BoundsInv, HeldSlots, Busy,
       Holders, Working, In, Present, HeldBy, Authenticated

-----------------------------------------------------------------------------
(* One step per action.                                                    *)

LEMMA ConnectKeeps ==
    ASSUME LimitsConstants, LimitsInv, NEW c \in Connections, Connect(c)
    PROVE  LimitsInv'
<1> DEFINE r == [step |-> "reading", claim |-> NoOne, as |-> line[c].as]
<1>1. line' = [line EXCEPT ![c] = r] /\ line[c].step = "gone"
  BY Moved DEF Connect
<1>2. LinkOK(r) /\ r \in Link
  BY DEF LinkOK, Link, LineSteps, Work, LimitsInv, LimitsTypeOK
<1>3. /\ r.as = line[c].as /\ r.step = "reading"
      /\ r.step \notin Work /\ line[c].step \notin Work
  BY <1>1 DEF Work
<1> HIDE DEF r
<1>4. clients = HeldSlots' /\ queued = Busy'
  BY <1>1, <1>2, <1>3, NamesKept, WorkKept
<1>5. /\ IsFiniteSet(HeldBy(Authenticated))'
      /\ Cardinality(HeldBy(Authenticated))' <= MaxClients
  BY <1>1, <1>2, <1>3, NamesKept
<1>6. storing = Cardinality(In({"storing"}))' /\ live + 1 = Cardinality(Present)'
  BY <1>1, <1>2, <1>3, StorageMoves, LiveMoves
<1>7. /\ live' = live + 1 /\ clients' = clients /\ queued' = queued /\ storing' = storing
      /\ wronged' = wronged
  BY DEF Connect
<1>8. /\ clients' \in [Identities -> Nat] /\ queued' \in [Accounts -> Nat]
      /\ storing' \in Nat /\ live' \in Nat
      /\ storing' <= MaxStorage /\ \A f \in Accounts : queued'[f] <= MaxQueued
  BY <1>7, Bounded
<1> QED BY <1>1, <1>2, <1>4, <1>5, <1>6, <1>7, <1>8, StepKeeps

LEMMA DisconnectKeeps ==
    ASSUME LimitsConstants, LimitsInv, NEW c \in Connections, Disconnect(c)
    PROVE  LimitsInv'
<1> DEFINE r == [step |-> "gone", claim |-> NoOne, as |-> line[c].as]
<1>1. line' = [line EXCEPT ![c] = r] /\ line[c].step = "freed"
  BY Moved DEF Disconnect
<1>2. LinkOK(r) /\ r \in Link
  BY <1>1 DEF LinkOK, Link, LineSteps, Work, LimitsInv, LimitsTypeOK, StepsInv
<1>3. /\ r.as = line[c].as /\ r.step = "gone"
      /\ r.step \notin Work /\ line[c].step \notin Work
  BY <1>1 DEF Work
<1> HIDE DEF r
<1>4. clients = HeldSlots' /\ queued = Busy'
  BY <1>1, <1>2, <1>3, NamesKept, WorkKept
<1>5. /\ IsFiniteSet(HeldBy(Authenticated))'
      /\ Cardinality(HeldBy(Authenticated))' <= MaxClients
  BY <1>1, <1>2, <1>3, NamesKept
<1>6. storing = Cardinality(In({"storing"}))' /\ live - 1 = Cardinality(Present)' /\ live # 0
  BY <1>1, <1>2, <1>3, StorageMoves, LiveMoves
<1>7. /\ live' = (IF live = 0 THEN 0 ELSE live - 1)
      /\ clients' = clients /\ queued' = queued /\ storing' = storing /\ wronged' = wronged
  BY DEF Disconnect
<1>8. /\ clients' \in [Identities -> Nat] /\ queued' \in [Accounts -> Nat]
      /\ storing' \in Nat /\ live' \in Nat /\ live' = live - 1
      /\ storing' <= MaxStorage /\ \A f \in Accounts : queued'[f] <= MaxQueued
  BY <1>6, <1>7, Bounded
<1> QED BY <1>1, <1>2, <1>4, <1>5, <1>6, <1>7, <1>8, StepKeeps

LEMMA HangUpKeeps ==
    ASSUME LimitsConstants, LimitsInv, NEW c \in Connections, CloseLine(c)
    PROVE  LimitsInv'
<1> DEFINE r == [step |-> "ending", claim |-> NoOne, as |-> line[c].as]
<1>1. line' = [line EXCEPT ![c] = r] /\ line[c].step = "reading"
  BY Moved DEF CloseLine
<1>2. LinkOK(r) /\ r.as = line[c].as /\ r.step = "ending"
  BY <1>1 DEF LinkOK, Link, LineSteps, Work, LimitsInv, LimitsTypeOK
<1> HIDE DEF r
<1> QED BY <1>1, <1>2, PlainStep DEF CloseLine, Work

LEMMA FreeSlotKeeps ==
    ASSUME LimitsConstants, LimitsInv, NEW c \in Connections, FreeSlot(c)
    PROVE  LimitsInv'
<1> DEFINE r == [step |-> "freed", claim |-> NoOne, as |-> NoOne]
<1>1. line \in [Connections -> Link] /\ line[c] \in Link /\ line[c].step = "ending"
  BY DEF LimitsInv, LimitsTypeOK, Link, FreeSlot
<1>2. line' = [line EXCEPT ![c] = r]
  BY DEF FreeSlot
<1>3. /\ LinkOK(r) /\ r \in Link /\ r.as = NoOne /\ r.step = "freed"
      /\ r.step \notin Work /\ line[c].step \notin Work
  BY <1>1 DEF LinkOK, Link, LineSteps, Work
<1> HIDE DEF r
<1>4. /\ clients' = HeldSlots' /\ clients' \in [Identities -> Nat]
      /\ IsFiniteSet(HeldBy(Authenticated))'
      /\ Cardinality(HeldBy(Authenticated))' <= MaxClients
  BY <1>2, <1>3, SlotFreed DEF FreeSlot
<1>5. /\ queued = Busy' /\ storing = Cardinality(In({"storing"}))'
      /\ live = Cardinality(Present)'
  BY <1>1, <1>2, <1>3, WorkKept, StorageMoves, LiveMoves
<1>6. queued' = queued /\ storing' = storing /\ live' = live /\ wronged' = wronged
  BY DEF FreeSlot
<1>7. /\ queued' \in [Accounts -> Nat] /\ storing' \in Nat /\ live' \in Nat
      /\ storing' <= MaxStorage /\ \A f \in Accounts : queued'[f] <= MaxQueued
  BY <1>6, Bounded
<1> QED BY <1>2, <1>3, <1>4, <1>5, <1>6, <1>7, StepKeeps

LEMMA StartsOverKeeps ==
    ASSUME LimitsConstants, LimitsInv, NEW c \in Connections, StartsOver(c)
    PROVE  LimitsInv'
<1> DEFINE r == [step |-> "reading", claim |-> NoOne, as |-> NoOne]
<1>1. line' = [line EXCEPT ![c] = r] /\ line[c].step = "shaking"
  BY DEF StartsOver
<1>3. /\ LinkOK(r) /\ r \in Link /\ r.as = NoOne /\ r.step = "reading"
      /\ r.step \notin Work /\ line[c].step \notin Work
  BY <1>1 DEF LinkOK, Link, LineSteps, Work
<1> HIDE DEF r
<1>4. /\ clients' = HeldSlots' /\ clients' \in [Identities -> Nat]
      /\ IsFiniteSet(HeldBy(Authenticated))'
      /\ Cardinality(HeldBy(Authenticated))' <= MaxClients
  BY <1>1, <1>3, SlotFreed DEF StartsOver
<1>5. /\ queued = Busy' /\ storing = Cardinality(In({"storing"}))'
      /\ live = Cardinality(Present)'
  BY <1>1, <1>3, WorkKept, StorageMoves, LiveMoves
<1>6. queued' = queued /\ storing' = storing /\ live' = live /\ wronged' = wronged
  BY DEF StartsOver
<1>7. /\ queued' \in [Accounts -> Nat] /\ storing' \in Nat /\ live' \in Nat
      /\ storing' <= MaxStorage /\ \A f \in Accounts : queued'[f] <= MaxQueued
  BY <1>6, Bounded
<1> QED BY <1>1, <1>3, <1>4, <1>5, <1>6, <1>7, StepKeeps

LEMMA ShakeKeeps ==
    ASSUME LimitsConstants, LimitsInv, NEW c \in Connections, NEW i \in Identities, Shake(c, i)
    PROVE  LimitsInv'
<1> DEFINE r == [step |-> "shaking", claim |-> i, as |-> line[c].as]
<1>1. line' = [line EXCEPT ![c] = r] /\ line[c].step = "reading"
  BY DEF Shake
<1>2. LinkOK(r) /\ r.as = line[c].as /\ r.step = "shaking"
  BY <1>1 DEF LinkOK, Link, LineSteps, Work, Shake
<1> HIDE DEF r
<1> QED BY <1>1, <1>2, PlainStep DEF Shake, Work

LEMMA AdmittedKeeps ==
    ASSUME LimitsConstants, LimitsInv, NEW c \in Connections, Admitted(c)
    PROVE  LimitsInv'
<1>1. CASE line' = [line EXCEPT ![c] = [step |-> "admitted", claim |-> @.claim, as |-> @.as]]
  <2> DEFINE r == [step |-> "admitted", claim |-> line[c].claim, as |-> line[c].as]
  <2>1. line' = [line EXCEPT ![c] = r] /\ line[c].step = "shaking"
    BY <1>1 DEF Admitted
  <2>2. LinkOK(r) /\ r.as = line[c].as /\ r.step = "admitted"
    BY <2>1 DEF LinkOK, Link, LineSteps, Work, LimitsInv, LimitsTypeOK, StepsInv
  <2> HIDE DEF r
  <2> QED BY <2>1, <2>2, PlainStep DEF Admitted, Work
<1>2. CASE Goes(c, "ending")
  <2> DEFINE r == [step |-> "ending", claim |-> NoOne, as |-> line[c].as]
  <2>1. line' = [line EXCEPT ![c] = r] /\ line[c].step = "shaking"
    BY <1>2, Moved DEF Admitted
  <2>2. LinkOK(r) /\ r.as = line[c].as /\ r.step = "ending"
    BY <2>1 DEF LinkOK, Link, LineSteps, Work, LimitsInv, LimitsTypeOK
  <2> HIDE DEF r
  <2> QED BY <2>1, <2>2, PlainStep DEF Admitted, Work
<1> QED BY <1>1, <1>2 DEF Admitted

LEMMA RegisterKeeps ==
    ASSUME LimitsConstants, LimitsInv, NEW c \in Connections, Register(c)
    PROVE  LimitsInv'
<1> DEFINE i == line[c].claim
<1>1. /\ line[c].step = "admitted" /\ i \in Identities /\ line[c].as \in {NoOne, i}
      /\ i # NoOne
  BY DEF LimitsInv, StepsInv, Register, LimitsConstants
<1>2. /\ queued' = queued /\ storing' = storing /\ live' = live
      /\ Slots(clients) = HeldBy(Authenticated)
  BY SlotsAreHeld DEF Register
<1>3. CASE /\ line[c].as = i \/ i \in Slots(clients) \/ Cardinality(Slots(clients)) < MaxClients
           /\ clients' = IF line[c].as = i THEN clients ELSE [clients EXCEPT ![i] = @ + 1]
           /\ line' = [line EXCEPT ![c] = [step |-> "reading", claim |-> NoOne, as |-> i]]
           /\ wronged' = wronged
  <2> DEFINE r == [step |-> "reading", claim |-> NoOne, as |-> i]
  <2>1. line' = [line EXCEPT ![c] = r]
    BY <1>3
  <2>2. /\ LinkOK(r) /\ r \in Link /\ r.as = i /\ r.step = "reading"
        /\ r.step \notin Work /\ line[c].step \notin Work
    BY <1>1 DEF LinkOK, Link, LineSteps, Work
  <2> HIDE DEF r, i
  <2>3. clients' \in [Identities -> Nat]
    BY <1>1, <1>3, Bounded
  <2>4. ASSUME NEW j \in Identities PROVE clients'[j] = HeldSlots'[j]
    <3>1. CASE line[c].as = i
      <4>1. clients' = clients /\ (line[c].as = j <=> r.as = j)
        BY <1>3, <2>2, <3>1
      <4>2. HeldSlots'[j] = clients[j]
        BY <2>1, <2>2, <4>1, SlotMoves
      <4> QED BY <4>1, <4>2
    <3>2. CASE line[c].as = NoOne /\ j = i
      <4>1. clients'[j] = clients[j] + 1
        BY <1>1, <1>3, <3>2, Bounded
      <4> QED BY <1>1, <2>1, <2>2, <3>2, <4>1, SlotMoves
    <3>3. CASE line[c].as = NoOne /\ j # i
      <4>1. clients'[j] = clients[j] /\ j # NoOne
        BY <1>1, <1>3, <3>3, Bounded DEF LimitsConstants
      <4> QED BY <1>1, <2>1, <2>2, <3>3, <4>1, SlotMoves
    <3> QED BY <1>1, <3>1, <3>2, <3>3
  <2>5. clients' = HeldSlots'
    BY <2>3, <2>4 DEF HeldSlots
  <2>6. /\ IsFiniteSet(HeldBy(Authenticated))'
        /\ Cardinality(HeldBy(Authenticated))' <= MaxClients
    <3>1. CASE line[c].as = i
      BY <2>1, <2>2, <3>1, HeldMoves
    <3>2. CASE line[c].as = NoOne
      <4>1. i \in HeldBy(Authenticated) \/ Cardinality(HeldBy(Authenticated)) < MaxClients
        BY <1>1, <1>2, <1>3, <3>2
      <4> QED BY <2>1, <2>2, <3>2, <4>1, HeldMoves
    <3> QED BY <1>1, <3>1, <3>2
  <2>7. /\ queued = Busy' /\ storing = Cardinality(In({"storing"}))'
        /\ live = Cardinality(Present)'
    BY <1>1, <2>1, <2>2, WorkKept, StorageMoves, LiveMoves
  <2>8. /\ queued' \in [Accounts -> Nat] /\ storing' \in Nat /\ live' \in Nat
        /\ storing' <= MaxStorage /\ \A f \in Accounts : queued'[f] <= MaxQueued
    BY <1>2, Bounded
  <2> QED BY <1>2, <1>3, <2>1, <2>2, <2>3, <2>5, <2>6, <2>7, <2>8, StepKeeps
<1>4. CASE /\ ~(Cardinality(Slots(clients)) < MaxClients)
           /\ Goes(c, "ending") /\ UNCHANGED clients
           /\ Refused(Cardinality(HeldBy(Authenticated)) < MaxClients)
  <2> DEFINE r == [step |-> "ending", claim |-> NoOne, as |-> line[c].as]
  <2>1. line' = [line EXCEPT ![c] = r]
    BY <1>4, Moved
  <2>2. LinkOK(r) /\ r.as = line[c].as /\ r.step = "ending"
    BY DEF LinkOK, Link, LineSteps, Work, LimitsInv, LimitsTypeOK
  <2> HIDE DEF r
  <2>3. wronged' = wronged
    BY <1>2, <1>4, Bounded DEF Refused
  <2> QED BY <1>1, <1>2, <1>4, <2>1, <2>2, <2>3, PlainStep DEF Work
<1> QED BY <1>3, <1>4 DEF Register

\* A name has a frontend, and the queue of that frontend is what it is at work on.
LEMMA QueueOf ==
    ASSUME LimitsInv, NEW c \in Connections, line[c].as # NoOne
    PROVE  /\ line[c].as[1] \in Accounts
           /\ queued[line[c].as[1]] = Cardinality(Working(line[c].as[1]))
           /\ queued[line[c].as[1]] \in Nat
<1>1. line[c].as \in Identities
  BY DEF LimitsInv, LimitsTypeOK
<1>2. line[c].as[1] \in Accounts
  BY <1>1 DEF Accounts
<1> QED BY <1>2, Bounded DEF LimitsInv, CountsInv, Busy

LEMMA EnqueueKeeps ==
    ASSUME LimitsConstants, LimitsInv, NEW c \in Connections, Enqueue(c)
    PROVE  LimitsInv'
<1> DEFINE f == line[c].as[1]
<1>1. /\ line[c].step = "reading" /\ line[c].step \notin Work
      /\ clients' = clients /\ storing' = storing /\ live' = live
  BY DEF Enqueue, Work
<1>2. CASE line[c].as = NoOne /\ Goes(c, "ending") /\ UNCHANGED <<queued, wronged>>
  <2> DEFINE r == [step |-> "ending", claim |-> NoOne, as |-> line[c].as]
  <2>1. line' = [line EXCEPT ![c] = r]
    BY <1>2, Moved
  <2>2. LinkOK(r) /\ r.as = line[c].as /\ r.step = "ending"
    BY DEF LinkOK, Link, LineSteps, Work, LimitsInv, LimitsTypeOK
  <2> HIDE DEF r
  <2> QED BY <1>1, <1>2, <2>1, <2>2, PlainStep DEF Work
<1>3. CASE /\ line[c].as # NoOne /\ queued[f] >= MaxQueued
           /\ Refused(Cardinality(Working(f)) < MaxQueued) /\ UNCHANGED <<line, queued>>
  <2>1. ~(Cardinality(Working(f)) < MaxQueued)
    BY <1>3, QueueOf DEF LimitsConstants
  <2>2. wronged' = wronged
    BY <1>3, <2>1, Bounded DEF Refused
  <2> QED BY <1>1, <1>3, <2>2, Stutter DEF limitvars
<1>4. CASE /\ line[c].as # NoOne /\ ~(queued[f] >= MaxQueued)
           /\ queued' = [queued EXCEPT ![f] = @ + 1]
           /\ Goes(c, "enqueued") /\ UNCHANGED wronged
  <2> DEFINE r == [step |-> "enqueued", claim |-> NoOne, as |-> line[c].as]
  <2>1. line' = [line EXCEPT ![c] = r] /\ f \in Accounts /\ queued[f] \in Nat
    BY <1>4, Moved, QueueOf
  <2>2. /\ LinkOK(r) /\ r \in Link /\ r.as = line[c].as /\ r.as[1] = f
        /\ r.step = "enqueued" /\ r.step \in Work
    BY <1>4 DEF LinkOK, Link, LineSteps, Work, LimitsInv, LimitsTypeOK
  <2> HIDE DEF r, f
  <2>3. ASSUME NEW g \in Accounts PROVE queued'[g] = Busy'[g]
    <3>1. CASE g = f
      <4>1. queued'[g] = queued[g] + 1
        BY <1>4, <2>1, <3>1, Bounded
      <4> QED BY <1>1, <2>1, <2>2, <3>1, <4>1, WorkMoves
    <3>2. CASE g # f
      <4>1. queued'[g] = queued[g]
        BY <1>4, <2>1, <3>2, Bounded
      <4> QED BY <1>1, <2>1, <2>2, <3>2, <4>1, WorkMoves
    <3> QED BY <3>1, <3>2
  <2>8. queued' \in [Accounts -> Nat]
    BY <1>4, <2>1, Bounded
  <2>4. queued' = Busy'
    BY <2>3, <2>8 DEF Busy
  <2>5. \A g \in Accounts : queued'[g] <= MaxQueued
    BY <1>4, <2>1, Bounded DEF LimitsConstants
  <2>6. /\ clients' = HeldSlots' /\ clients' \in [Identities -> Nat]
        /\ IsFiniteSet(HeldBy(Authenticated))'
        /\ Cardinality(HeldBy(Authenticated))' <= MaxClients
    BY <1>1, <2>1, <2>2, NamesKept, Bounded
  <2>7. /\ storing' = Cardinality(In({"storing"}))' /\ live' = Cardinality(Present)'
        /\ storing' \in Nat /\ live' \in Nat /\ storing' <= MaxStorage
    BY <1>1, <2>1, <2>2, StorageMoves, LiveMoves, Bounded
  <2> QED BY <1>4, <2>1, <2>2, <2>4, <2>5, <2>6, <2>7, <2>8, StepKeeps
<1> QED BY <1>2, <1>3, <1>4 DEF Enqueue

LEMMA StartStorageKeeps ==
    ASSUME LimitsConstants, LimitsInv, NEW c \in Connections, StartStorage(c)
    PROVE  LimitsInv'
<1>1. /\ line[c].step = "enqueued" /\ line[c].step \in Work /\ line[c].as # NoOne
      /\ clients' = clients /\ queued' = queued /\ live' = live
  BY DEF StartStorage, Work, LimitsInv, StepsInv
<1>2. CASE /\ storing >= MaxStorage /\ Goes(c, "declined") /\ UNCHANGED storing
           /\ Refused(Cardinality(In({"storing"})) < MaxStorage)
  <2> DEFINE r == [step |-> "declined", claim |-> NoOne, as |-> line[c].as]
  <2>1. line' = [line EXCEPT ![c] = r]
    BY <1>2, Moved
  <2>2. LinkOK(r) /\ r.as = line[c].as /\ r.step = "declined"
    BY <1>1 DEF LinkOK, Link, LineSteps, Work, LimitsInv, LimitsTypeOK
  <2> HIDE DEF r
  <2>3. ~(Cardinality(In({"storing"})) < MaxStorage)
    BY <1>2, Bounded DEF LimitsInv, CountsInv, LimitsConstants
  <2>4. wronged' = wronged
    BY <1>2, <2>3, Bounded DEF Refused
  <2> QED BY <1>1, <1>2, <2>1, <2>2, <2>4, PlainStep DEF Work
<1>3. CASE /\ ~(storing >= MaxStorage) /\ Goes(c, "storing") /\ storing' = storing + 1
           /\ UNCHANGED wronged
  <2> DEFINE r == [step |-> "storing", claim |-> NoOne, as |-> line[c].as]
  <2>1. line' = [line EXCEPT ![c] = r]
    BY <1>3, Moved
  <2>2. /\ LinkOK(r) /\ r \in Link /\ r.as = line[c].as /\ r.step = "storing" /\ r.step \in Work
    BY <1>1 DEF LinkOK, Link, LineSteps, Work, LimitsInv, LimitsTypeOK
  <2> HIDE DEF r
  <2>3. /\ clients' = HeldSlots' /\ queued' = Busy'
        /\ IsFiniteSet(HeldBy(Authenticated))'
        /\ Cardinality(HeldBy(Authenticated))' <= MaxClients
    BY <1>1, <2>1, <2>2, NamesKept, WorkKept
  <2>4. storing' = Cardinality(In({"storing"}))' /\ live' = Cardinality(Present)'
    BY <1>1, <1>3, <2>1, <2>2, StorageMoves, LiveMoves
  <2>5. /\ clients' \in [Identities -> Nat] /\ queued' \in [Accounts -> Nat]
        /\ storing' \in Nat /\ live' \in Nat
        /\ storing' <= MaxStorage /\ \A f \in Accounts : queued'[f] <= MaxQueued
    BY <1>1, <1>3, Bounded DEF LimitsConstants
  <2> QED BY <1>3, <2>1, <2>2, <2>3, <2>4, <2>5, StepKeeps
<1> QED BY <1>2, <1>3 DEF StartStorage

LEMMA FinishStorageKeeps ==
    ASSUME LimitsConstants, LimitsInv, NEW c \in Connections, FinishStorage(c)
    PROVE  LimitsInv'
<1> DEFINE r == [step |-> "stored", claim |-> NoOne, as |-> line[c].as]
<1>1. /\ line[c].step = "storing" /\ line[c].step \in Work /\ line[c].as # NoOne
      /\ clients' = clients /\ queued' = queued /\ live' = live /\ wronged' = wronged
      /\ storing' = IF storing = 0 THEN 0 ELSE storing - 1
  BY DEF FinishStorage, Work, LimitsInv, StepsInv
<1>2. line' = [line EXCEPT ![c] = r]
  BY Moved DEF FinishStorage
<1>3. /\ LinkOK(r) /\ r \in Link /\ r.as = line[c].as /\ r.step = "stored" /\ r.step \in Work
  BY <1>1 DEF LinkOK, Link, LineSteps, Work, LimitsInv, LimitsTypeOK
<1> HIDE DEF r
<1>4. /\ clients' = HeldSlots' /\ queued' = Busy'
      /\ IsFiniteSet(HeldBy(Authenticated))'
      /\ Cardinality(HeldBy(Authenticated))' <= MaxClients
  BY <1>1, <1>2, <1>3, NamesKept, WorkKept
<1>5. /\ storing - 1 = Cardinality(In({"storing"}))' /\ storing # 0
      /\ live' = Cardinality(Present)'
  BY <1>1, <1>2, <1>3, StorageMoves, LiveMoves
<1>6. storing' = storing - 1
  BY <1>1, <1>5
<1>7. /\ clients' \in [Identities -> Nat] /\ queued' \in [Accounts -> Nat]
      /\ storing' \in Nat /\ live' \in Nat
      /\ storing' <= MaxStorage /\ \A f \in Accounts : queued'[f] <= MaxQueued
  BY <1>1, <1>5, <1>6, Bounded DEF LimitsConstants
<1> QED BY <1>1, <1>2, <1>3, <1>4, <1>5, <1>6, <1>7, StepKeeps

LEMMA DequeueKeeps ==
    ASSUME LimitsConstants, LimitsInv, NEW c \in Connections, Dequeue(c)
    PROVE  LimitsInv'
<1> DEFINE f == line[c].as[1]
           r == [step |-> "reading", claim |-> NoOne, as |-> line[c].as]
<1>1. /\ line[c].step \in {"stored", "declined"} /\ line[c].step \in Work
      /\ line[c].as # NoOne
      /\ clients' = clients /\ storing' = storing /\ live' = live /\ wronged' = wronged
  BY DEF Dequeue, Work, LimitsInv, StepsInv
<1>2. /\ line' = [line EXCEPT ![c] = r] /\ f \in Accounts
      /\ queued' = [queued EXCEPT ![f] = IF @ = 0 THEN 0 ELSE @ - 1]
  BY <1>1, Moved, QueueOf DEF Dequeue
<1>3. /\ LinkOK(r) /\ r \in Link /\ r.as = line[c].as /\ r.as[1] = f
      /\ r.step = "reading" /\ r.step \notin Work
  BY DEF LinkOK, Link, LineSteps, Work, LimitsInv, LimitsTypeOK
<1>4. line[c].as[1] = f
  OBVIOUS
<1> HIDE DEF r, f
<1>5. ASSUME NEW g \in Accounts
      PROVE  queued'[g] = Busy'[g] /\ queued'[g] \in Nat /\ queued'[g] <= MaxQueued
  <2>1. CASE g = f
    <3>1. queued'[g] = (IF queued[g] = 0 THEN 0 ELSE queued[g] - 1) /\ queued[g] \in Nat
      BY <1>2, <2>1, Bounded
    <3>2. Busy'[g] = queued[g] - 1 /\ queued[g] # 0
      BY <1>1, <1>2, <1>3, <1>4, <2>1, WorkMoves
    <3> QED BY <3>1, <3>2, Bounded DEF LimitsConstants
  <2>2. CASE g # f
    <3>1. queued'[g] = queued[g]
      BY <1>2, <2>2, Bounded
    <3>2. Busy'[g] = queued[g]
      BY <1>1, <1>2, <1>3, <1>4, <2>2, WorkMoves
    <3> QED BY <3>1, <3>2, Bounded
  <2> QED BY <2>1, <2>2
<1>6. queued' \in [Accounts -> Nat]
  BY <1>2, <1>5, Bounded
<1>7. queued' = Busy'
  BY <1>5, <1>6 DEF Busy
<1>8. /\ clients' = HeldSlots' /\ clients' \in [Identities -> Nat]
      /\ IsFiniteSet(HeldBy(Authenticated))'
      /\ Cardinality(HeldBy(Authenticated))' <= MaxClients
  BY <1>1, <1>2, <1>3, NamesKept, Bounded
<1>9. /\ storing' = Cardinality(In({"storing"}))' /\ live' = Cardinality(Present)'
      /\ storing' \in Nat /\ live' \in Nat /\ storing' <= MaxStorage
  BY <1>1, <1>2, <1>3, StorageMoves, LiveMoves, Bounded
<1> QED BY <1>1, <1>2, <1>3, <1>5, <1>6, <1>7, <1>8, <1>9, StepKeeps

-----------------------------------------------------------------------------
(* The theorems.                                                           *)

LEMMA LimitsStart ==
    ASSUME LimitsConstants, LimitsInit
    PROVE  LimitsInv
<1>5. \A c \in Connections : line[c] = [step |-> "gone", claim |-> NoOne, as |-> NoOne]
  BY DEF LimitsInit, Gone
<1>6. StepsInv
  BY <1>5 DEF StepsInv, Work
<1>7. line \in [Connections -> Link]
  <2>1. Gone \in Link
    BY DEF Gone, Link, LineSteps
  <2> QED BY <2>1 DEF LimitsInit
<1>1. LimitsTypeOK
  <2>1. clients \in [Identities -> Nat]
    <3>1. clients = [i \in Identities |-> 0]
      BY DEF LimitsInit
    <3> QED BY <3>1
  <2>3. queued \in [Accounts -> Nat]
    <3>1. queued = [f \in Accounts |-> 0]
      BY DEF LimitsInit
    <3> QED BY <3>1
  <2>2. storing \in Nat /\ live \in Nat
    BY DEF LimitsInit
  <2>4. wronged \in BOOLEAN
    BY DEF LimitsInit
  <2> QED BY <1>7, <2>1, <2>2, <2>3, <2>4 DEF LimitsTypeOK, Link
<1>2. \A i \in Identities : Holders(i) = {}
  BY DEF LimitsInit, Gone, Holders, LimitsConstants
<1>3. /\ \A f \in Accounts : Working(f) = {}
      /\ In({"storing"}) = {} /\ Present = {} /\ HeldBy(Authenticated) = {}
  BY DEF LimitsInit, Gone, Working, In, Present, HeldBy, Authenticated
<1>4. CountsInv
  <2>1. clients = HeldSlots
    BY <1>2, FS_EmptySet DEF LimitsInit, HeldSlots
  <2>2. queued = Busy
    BY <1>3, FS_EmptySet DEF LimitsInit, Busy
  <2> QED BY <1>3, <2>1, <2>2, FS_EmptySet DEF LimitsInit, CountsInv
<1>8. BoundsInv
  BY <1>3, FS_EmptySet DEF LimitsInit, BoundsInv, LimitsConstants
<1> QED BY <1>1, <1>4, <1>6, <1>8 DEF LimitsInv

LEMMA LimitsKept ==
    ASSUME LimitsConstants, LimitsInv, [LimitsNext]_limitvars
    PROVE  LimitsInv'
<1>1. CASE LimitsNext
  BY <1>1, ConnectKeeps, HangUpKeeps, FreeSlotKeeps, DisconnectKeeps, ShakeKeeps,
     AdmittedKeeps, StartsOverKeeps, RegisterKeeps, EnqueueKeeps, StartStorageKeeps,
     FinishStorageKeeps, DequeueKeeps DEF LimitsNext
<1>2. CASE UNCHANGED limitvars
  BY <1>2, Stutter
<1> QED BY <1>1, <1>2

\* What the counters count stays within the quotas, and nobody is refused while there is
\* room: LimitsBind, for any finite number of connections, any identities and any quotas.
THEOREM QuotasBind == LimitsConstants => (LimitsSpec => []LimitsBind)
<1> SUFFICES ASSUME LimitsConstants PROVE LimitsSpec => []LimitsBind
  OBVIOUS
<1>1. LimitsInit => LimitsInv
  BY LimitsStart
<1>2. LimitsInv /\ [LimitsNext]_limitvars => LimitsInv'
  BY LimitsKept
<1>3. LimitsInv => LimitsBind
  <2> SUFFICES ASSUME LimitsInv PROVE LimitsBind
    OBVIOUS
  <2>1. \A f \in Accounts : Cardinality(Working(f)) <= MaxQueued
    BY DEF LimitsInv, CountsInv, BoundsInv, Busy
  <2> QED BY <2>1 DEF LimitsInv, CountsInv, BoundsInv, LimitsBind, Present
<1> QED BY <1>1, <1>2, <1>3, PTL DEF LimitsSpec
=============================================================================
