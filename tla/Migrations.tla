------------------------------ MODULE Migrations -------------------------------
(***************************************************************************)
(* Opening the canonical store (service/src/repository.rs open_with_clock) *)
(* and the runner that brings its schema to the version of the build       *)
(* (service/src/migrations.rs).  Builds of several versions open the same  *)
(* store one after the other; an open fails, is killed or loses its power  *)
(* between any two of its steps.  The database is external: it admits one  *)
(* process, a commit is atomic, and a power failure takes back what was    *)
(* committed since the last flush, latest first.                           *)
(***************************************************************************)
EXTENDS Integers, Sequences

CONSTANTS
    Builds,         \* [target, plan, jump, required] of each build that opens the store
    MaxOpens,       \* how often the store is opened
    MaxCrashes      \* how many steps fail, kills and power failures there are

\* The steps of a plan are listed in their order; a target is above an absent record.
ASSUME MigrationsAssumption ==
    /\ MaxOpens \in Nat /\ MaxCrashes \in Nat
    /\ \A b \in Builds :
          /\ b.target \in Nat \ {0} /\ b.jump \in Nat
          /\ b.plan \in Seq(Nat \ {0})
          /\ \A k, l \in DOMAIN b.plan : k < l => b.plan[k] < b.plan[l]

VARIABLES
    database,       \* [version, done, spaces, wrote]: what the store holds
    unflushed,      \* what a power failure could leave: the states since the last flush
    build,          \* the build that opens or serves it
    opening,        \* "closed", or the next step of the open, or how it ended
    asFound,        \* history: the store as the last open found it
    acknowledged,   \* history: a mutation was acknowledged
    opens, crashes

schemavars == <<database, unflushed, build, opening, asFound, acknowledged, opens, crashes>>

NoRecord == -1      \* no version record
Corrupt == -2       \* a version record that is not eight bytes
NoStep == 0

EmptyStore == [version |-> NoRecord, done |-> <<>>, spaces |-> {}, wrote |-> FALSE]
UnknownStore == [version |-> Corrupt, done |-> <<>>, spaces |-> {"meta"}, wrote |-> FALSE]

SchemaInit ==
    /\ database \in {EmptyStore, UnknownStore}
    /\ unflushed = {database} /\ asFound = database
    /\ build \in Builds
    /\ opening = "closed"
    /\ acknowledged = FALSE
    /\ opens = 0 /\ crashes = 0

StoreCommits(new) == database' = new /\ unflushed' = unflushed \cup {new}
OpenGoes(to) == opening' = to

-----------------------------------------------------------------------------
(* MigrationPlan                                                           *)

\* The versions a build's plan has a step to.
StepsOf(b) == {b.plan[k] : k \in DOMAIN b.plan}

\* next_migration: the first step of the plan beyond the version.
NextMigration(b, version) ==
    LET beyond == {k \in DOMAIN b.plan : b.plan[k] > version}
    IN  IF beyond = {} THEN NoStep ELSE b.plan[CHOOSE k \in beyond : \A l \in beyond : k <= l]

\* can_reach: the steps up to the target, each above the last one taken, end at the target;
\* they end at the highest of them.
CanReach(b, version) == version \leq b.target /\ b.target \in {version} \cup StepsOf(b)

-----------------------------------------------------------------------------
(* assess                                                                  *)

\* Mutant: a record that cannot be read counts as an absent one.
RecordedLeniently(version) == IF version \in {NoRecord, Corrupt} THEN 0 ELSE version

\* An absent record is version 0.
RecordedVersion(version) == IF version = NoRecord THEN 0 ELSE version

\* Mutant: only what the plan cannot lead on from is refused, whichever way it leads.
RefusedWhenStuck(b, version) ==
    version = Corrupt \/ (version < b.target /\ ~ CanReach(b, version))

\* What is refused: a record of another length, a newer store, one the plan does not lead
\* on from, one whose first step is longer than the rules allow.
RefusedVersion(b, version) ==
    \/ version = Corrupt
    \/ version > b.target
    \/ /\ version < b.target
       /\ \/ ~ CanReach(b, version)
          \/ NextMigration(b, version) - version > b.jump

\* The version is read in a snapshot; reading it makes the keyspace it is in.
AssessStore ==
    /\ opening = "assess"
    /\ LET version == RecordedVersion(database.version)
       IN  OpenGoes(CASE RefusedVersion(build, version) -> "refused"
                      [] version = build.target -> "keyspaces"
                      [] OTHER -> "step")
    /\ StoreCommits([database EXCEPT !.spaces = @ \cup {"meta"}])
    /\ UNCHANGED <<build, asFound, acknowledged, opens, crashes>>

\* Mutant: the stamp is the target's from the first step on.
StampTarget(m) == StoreCommits([database EXCEPT !.version = build.target, !.done = Append(@, m)])

\* apply_migration: a step and its stamp commit together, with no flush; or the step fails,
\* and with it the open.
ApplyMigration(m) == StoreCommits([database EXCEPT !.version = m, !.done = Append(@, m)])

\* assess, its loop: the steps up to the target.
MigrateStep ==
    /\ opening = "step"
    /\ LET m == NextMigration(build, RecordedVersion(database.version))
       IN  IF m = NoStep \/ m > build.target
           THEN OpenGoes("validate") /\ UNCHANGED <<database, unflushed, crashes>>
           ELSE \/ ApplyMigration(m) /\ UNCHANGED <<opening, crashes>>
                \/ /\ crashes < MaxCrashes
                   /\ crashes' = crashes + 1
                   /\ OpenGoes("failed")
                   /\ UNCHANGED <<database, unflushed>>
    /\ UNCHANGED <<build, asFound, acknowledged, opens>>

\* validate_schema: every keyspace the runtime needs opens, and is made if it was not there.
ValidateStore ==
    /\ opening = "validate"
    /\ OpenGoes("keyspaces")
    /\ StoreCommits([database EXCEPT !.spaces = @ \cup build.required])
    /\ UNCHANGED <<build, asFound, acknowledged, opens, crashes>>

-----------------------------------------------------------------------------
(* open_with_clock                                                         *)

\* A build opens the database once its predecessor has let go of it.
OpenStore(b) ==
    /\ opening \in {"closed", "refused", "failed"}
    /\ opens < MaxOpens
    /\ opens' = opens + 1
    /\ build' = b /\ asFound' = database
    /\ OpenGoes("assess")
    /\ UNCHANGED <<database, unflushed, acknowledged, crashes>>

\* The keyspaces of the runtime are opened, as validation opened them.
OpenKeyspaces ==
    /\ opening = "keyspaces"
    /\ OpenGoes("serving")
    /\ StoreCommits([database EXCEPT !.spaces = @ \cup build.required])
    /\ UNCHANGED <<build, asFound, acknowledged, opens, crashes>>

\* A mutation commits, is flushed with all before it, and is acknowledged.
ServeStore ==
    /\ opening = "serving" /\ ~ acknowledged
    /\ database' = [database EXCEPT !.wrote = TRUE]
    /\ unflushed' = {database'}
    /\ acknowledged' = TRUE
    /\ UNCHANGED <<build, opening, asFound, opens, crashes>>

CloseStore ==
    /\ opening = "serving"
    /\ OpenGoes("closed")
    /\ UNCHANGED <<database, unflushed, build, asFound, acknowledged, opens, crashes>>

\* The process is killed, and what it committed stays; or the power fails.
OpenerKilled ==
    /\ opening # "closed" /\ crashes < MaxCrashes
    /\ crashes' = crashes + 1
    /\ OpenGoes("closed")
    /\ UNCHANGED <<database, unflushed, build, asFound, acknowledged, opens>>

StorePowerFails ==
    /\ crashes < MaxCrashes
    /\ crashes' = crashes + 1
    /\ \E kept \in unflushed : database' = kept /\ unflushed' = {kept}
    /\ OpenGoes("closed")
    /\ UNCHANGED <<build, asFound, acknowledged, opens>>

SchemaNext ==
    \/ \E b \in Builds : OpenStore(b)
    \/ AssessStore \/ MigrateStep \/ ValidateStore \/ OpenKeyspaces
    \/ ServeStore \/ CloseStore
    \/ OpenerKilled \/ StorePowerFails

SchemaSpec == SchemaInit /\ [][SchemaNext]_schemavars

-----------------------------------------------------------------------------
(* Properties                                                              *)

MigrationsTypeOK ==
    /\ database.version \in {NoRecord, Corrupt} \cup {b.target : b \in Builds}
           \cup UNION {StepsOf(b) : b \in Builds}
    /\ database.spaces \subseteq {"meta"} \cup UNION {b.required : b \in Builds}
    /\ database \in unflushed
    /\ build \in Builds
    /\ opening \in {"closed", "assess", "step", "validate", "keyspaces", "serving",
                    "refused", "failed"}
    /\ opens \in 0..MaxOpens /\ crashes \in 0..MaxCrashes

\* A build serves a store at its own version only, with every keyspace it needs; whatever
\* failed on the way, the version is that of the last step and no step was done twice or
\* out of order; a store that is refused keeps its version and its rows, one of an unknown
\* kind is never stamped, and what was acknowledged outlives every upgrade
\* (migrations.rs:3-5, 82-89, 288-293).
StoreIsMigrated ==
    /\ opening = "serving" =>
           database.version = build.target /\ build.required \subseteq database.spaces
    /\ database.version >= 0 =>
           database.done # <<>> /\ database.done[Len(database.done)] = database.version
    /\ \A i, j \in DOMAIN database.done : i < j => database.done[i] < database.done[j]
    /\ opening = "refused" => [database EXCEPT !.spaces = {}] = [asFound EXCEPT !.spaces = {}]
    /\ asFound.version = Corrupt => database.version = Corrupt /\ opening # "serving"
    /\ acknowledged => database.wrote
=============================================================================
