----------------------------- MODULE Generations -----------------------------
(***************************************************************************)
(* Blue-green generations of the search projection.                        *)
(*                                                                         *)
(* Rows are written for a generation, readers follow the active one.  An   *)
(* operator stages the next generation, a builder fills it alongside the   *)
(* active one and reports how many memories it projected, and an           *)
(* activation flips the active pointer, if the report is complete and no   *)
(* text was written since (the dirty flag).  A change of a confidence is   *)
(* owed to the active generation, but does not set the flag.  A retired    *)
(* generation keeps its rows for a rollback until the reaper deletes them. *)
(* A restore makes its own generation, the one after the active one, and   *)
(* retires all.                                                            *)
(*                                                                         *)
(* Abstractions.  The text of a document is named by its revision and by   *)
(* the restore after which it was written, as revisions start over from    *)
(* the backup's; its confidence is what a row has of it besides.           *)
(* The worker of the active generation does in one step what Projection    *)
(* details, and removes the rows of what is no longer recallable, which a  *)
(* rebuild also does.  The age of a retired generation is left open.       *)
(***************************************************************************)
EXTENDS Naturals, FiniteSets

CONSTANTS
    Mems,
    Nothing,        \* no document, no record
    MaxGens,         \* bound on generation numbers
    MaxRevs,         \* bound on revisions
    Confidences,    \* of memories
    MaxWrites,      \* bound on canonical writes
    MaxRestores     \* bound on restores

ASSUME GenerationsAssumption ==
    /\ IsFiniteSet(Mems)
    /\ {MaxGens, MaxRevs, MaxWrites, MaxRestores} \subseteq Nat /\ MaxGens > 0

Gens == 1..MaxGens
Doc  == [rev : 1..MaxRevs, era : 0..MaxRestores, conf : Confidences]
Open == {"staged", "building", "ready"}

GenerationRecord ==
    [status : Open \cup {"active", "retired"}, desired : Nat, projected : Nat, dirty : BOOLEAN]

ASSUME GenerationsNothing == Nothing \notin Doc \cup GenerationRecord

VARIABLES
    docs,      \* the document of each recallable memory, or Nothing
    era,        \* how many restores there have been
    writes,
    backup,     \* the canonical documents of the backup file
    owed,       \* memories the worker of the active generation has to project
    pointer,    \* meta "store_generation"
    recs,       \* the generation records
    table,       \* the table
    build,      \* the builder: its generation, snapshot, what is left, what is checked
    doomed,     \* the reaper: retired generations it has listed
    unruly,     \* history: what has been done that the pipeline is not made for
    drifted     \* history: memories whose confidence changed beside a build or a ready generation

canonical == <<docs, era, writes, backup, drifted>>
genvars      == <<canonical, owed, pointer, recs, table, build, doomed, unruly>>

TableRow == [gen : Gens, mem : Mems, doc : Doc]

Build == [phase : {"none", "building", "built"}, gen : Gens,
          snap : [Mems -> Doc \cup {Nothing}],
          todo : SUBSET Mems, checked : SUBSET Mems, published : Nat]

NoBuild == [phase |-> "none", gen |-> 1, snap |-> [m \in Mems |-> Nothing],
            todo |-> {}, checked |-> {}, published |-> 0]

GenTypeOK ==
    /\ docs \in [Mems -> Doc \cup {Nothing}]
    /\ era \in 0..MaxRestores /\ writes \in 0..MaxWrites
    /\ backup \in [Mems -> Doc \cup {Nothing}]
    /\ owed \subseteq Mems
    /\ pointer \in Gens
    /\ recs \in [Gens -> GenerationRecord \cup {Nothing}]
    /\ table \subseteq TableRow
    /\ build \in Build
    /\ doomed \subseteq Gens
    /\ unruly \subseteq {"write", "rollback", "restore"} /\ drifted \subseteq Mems

GenInit ==
    /\ docs = [m \in Mems |-> Nothing]
    /\ era = 0 /\ writes = 0
    /\ backup = docs
    /\ owed = {}
    /\ pointer = 1
    /\ recs = [g \in Gens |-> Nothing]
    /\ table = {}
    /\ build = NoBuild
    /\ doomed = {}
    /\ unruly = {} /\ drifted = {}

-----------------------------------------------------------------------------
Has(g, statuses) == recs[g] # Nothing /\ recs[g].status \in statuses

MaxOf(S) == CHOOSE x \in S : \A y \in S : y <= x

\* store_generation, resolve_generation: the active record, else the pointer.
Active ==
    LET marked == {g \in Gens : Has(g, {"active"})}
    IN  IF marked = {} THEN pointer ELSE MaxOf(marked)

Recallable == {m \in Mems : docs[m] # Nothing}

\* recallable_count
Desired == Cardinality(Recallable)

Pipeline == {g \in Gens : Has(g, Open)}

\* Mutant: only generations under construction retire.
RetiredOpen(statuses) ==
    [g \in Gens |-> IF Has(g, Open) THEN [recs[g] EXCEPT !.status = "retired"] ELSE recs[g]]

\* Every record of the given statuses retires.
Retired(statuses) ==
    [g \in Gens |-> IF Has(g, statuses) THEN [recs[g] EXCEPT !.status = "retired"] ELSE recs[g]]

-----------------------------------------------------------------------------
(* Canonical writes and the worker of the active generation.               *)

\* Mutant: a write does not tell the pipeline.
MarkNothing == UNCHANGED recs

\* mark_build_dirty, in the transaction of the write.
MarkBuildDirty ==
    recs' = [g \in Gens |-> IF Has(g, Open) THEN [recs[g] EXCEPT !.dirty = TRUE] ELSE recs[g]]

\* The text of a memory, or whether it can be recalled, changes.
CanonicalWrite(m, doc) ==
    /\ writes < MaxWrites /\ writes' = writes + 1
    /\ docs' = [docs EXCEPT ![m] = doc]
    /\ owed' = owed \cup {m}
    /\ MarkBuildDirty
    /\ unruly' = IF build.phase = "none" THEN unruly ELSE unruly \cup {"write"}
    /\ UNCHANGED <<era, backup, pointer, table, build, doomed, drifted>>

Write(m) ==
    LET rev == IF docs[m] = Nothing THEN 0 ELSE docs[m].rev IN
    /\ rev < MaxRevs
    /\ \E conf \in Confidences :
          CanonicalWrite(m, [rev |-> rev + 1, era |-> era, conf |-> conf])

\* There is a build, or one that may become active.
Built == build.phase # "none" \/ \E g \in Gens : Has(g, {"ready"})

\* Feedback, an access, a boost or an update of the confidence alone: the row is owed,
\* at the same revision, and no build is told.
Adjust(m) ==
    /\ writes < MaxWrites /\ writes' = writes + 1
    /\ docs[m] # Nothing
    /\ \E conf \in Confidences \ {docs[m].conf} : docs' = [docs EXCEPT ![m].conf = conf]
    /\ owed' = owed \cup {m}
    /\ drifted' = IF Built THEN drifted \cup {m} ELSE drifted
    /\ UNCHANGED <<era, backup, pointer, recs, table, build, doomed, unruly>>

ForgetDoc(m) == docs[m] # Nothing /\ CanonicalWrite(m, Nothing)

\* The rows a publication of doc leaves of a memory in a generation: the same
\* revision is replaced, older ones are removed.
Published(g, m, doc) ==
    {r \in table : r.gen = g /\ r.mem = m => r.doc.rev > doc.rev}
        \cup {[gen |-> g, mem |-> m, doc |-> doc]}

\* project_pending for one job, under the active generation: a confidence is right again
\* when no build is about to replace it.
Project(m) ==
    /\ m \in owed
    /\ owed' = owed \ {m}
    /\ table' = IF docs[m] = Nothing THEN {r \in table : r.mem # m}
                ELSE Published(Active, m, docs[m])
    /\ drifted' = IF Built THEN drifted ELSE drifted \ {m}
    /\ UNCHANGED <<docs, era, writes, backup, pointer, recs, build, doomed, unruly>>

-----------------------------------------------------------------------------
(* The pipeline.                                                           *)

\* stage_generation: the next number after every one in use.
StageGeneration ==
    LET next == 1 + MaxOf({pointer} \cup {g \in Gens : recs[g] # Nothing})
    IN  /\ Pipeline = {} /\ next \in Gens
        /\ recs' = [recs EXCEPT ![next] =
              [status |-> IF Desired = 0 THEN "ready" ELSE "staged",
               desired |-> Desired, projected |-> 0, dirty |-> FALSE]]
        /\ UNCHANGED <<canonical, owed, pointer, table, build, doomed, unruly>>

\* Projector::rebuild for the open pipeline, from a snapshot.
StartBuild(g) ==
    /\ build.phase = "none" /\ g \in Pipeline
    /\ build' = [NoBuild EXCEPT !.phase = "building", !.gen = g, !.snap = docs,
                                !.todo = Recallable]
    /\ UNCHANGED <<canonical, owed, pointer, recs, table, doomed, unruly>>

\* publish_rows_guarded, what it checks...
BuilderMayPublish(m) ==
    /\ Active = build.gen \/ Has(build.gen, Open)
    /\ docs[m] # Nothing /\ docs[m].rev = build.snap[m].rev

CheckPublish(m) ==
    /\ build.phase = "building" /\ m \in build.todo
    /\ build' = [build EXCEPT !.todo = @ \ {m},
                              !.checked = IF BuilderMayPublish(m) THEN @ \cup {m} ELSE @]
    /\ UNCHANGED <<canonical, owed, pointer, recs, table, doomed, unruly>>

\* ... and the write.
PublishRows(m) ==
    /\ build.phase = "building" /\ m \in build.checked
    /\ table' = Published(build.gen, m, build.snap[m])
    /\ build' = [build EXCEPT !.checked = @ \ {m}, !.published = @ + 1]
    /\ UNCHANGED <<canonical, owed, pointer, recs, doomed, unruly>>

FinishBuild ==
    /\ build.phase = "building" /\ build.todo = {} /\ build.checked = {}
    /\ build' = [build EXCEPT !.phase = "built"]
    /\ UNCHANGED <<canonical, owed, pointer, recs, table, doomed, unruly>>

\* note_generation_progress with what the build returned; a record that is no
\* longer open refuses the report.
NoteGenerationProgress ==
    /\ build.phase = "built"
    /\ recs' = IF Has(build.gen, Open)
               THEN [recs EXCEPT
                       ![build.gen].projected = build.published,
                       ![build.gen].dirty = FALSE,
                       ![build.gen].status =
                           IF build.published >= recs[build.gen].desired THEN "ready" ELSE "building"]
               ELSE recs
    /\ build' = NoBuild
    /\ UNCHANGED <<canonical, owed, pointer, table, doomed, unruly>>

\* Mutant: the predecessor stays active.
PredecessorKept == IF recs[Active] = Nothing
                   THEN [status |-> "active", desired |-> 0, projected |-> 0, dirty |-> FALSE]
                   ELSE recs[Active]

\* A predecessor retires, and gets a record if it has none.
Predecessor == IF recs[Active] = Nothing
               THEN [status |-> "retired", desired |-> 0, projected |-> 0, dirty |-> FALSE]
               ELSE [recs[Active] EXCEPT !.status = "retired"]

\* activate_generation: of a ready generation that is clean and complete, or of
\* a retired one.
ActivateGeneration(g) ==
    /\ g # Active
    /\ \/ /\ Has(g, {"ready"}) /\ ~recs[g].dirty
          /\ recs[g].projected >= Desired
       \/ Has(g, {"retired"})
    /\ pointer' = g
    /\ recs' = [recs EXCEPT ![g].status = "active", ![Active] = Predecessor]
    /\ unruly' = IF Has(g, {"retired"}) THEN unruly \cup {"rollback"} ELSE unruly
    /\ UNCHANGED <<canonical, owed, table, build, doomed>>

AbandonGeneration(g) ==
    /\ Has(g, Open)
    /\ recs' = [recs EXCEPT ![g].status = "retired"]
    /\ UNCHANGED <<canonical, owed, pointer, table, build, doomed, unruly>>

-----------------------------------------------------------------------------
(* Restores and the reaper.                                                *)

TakeBackup ==
    /\ MaxRestores > 0 /\ backup' = docs /\ backup # docs
    /\ UNCHANGED <<docs, era, writes, owed, pointer, recs, table, build, doomed, unruly,
                   drifted>>

\* restore_replace, called with the generation after the active one.
RestoreStore ==
    /\ era < MaxRestores /\ Active < MaxGens
    /\ era' = era + 1
    /\ docs' = backup
    /\ owed' = {m \in Mems : backup[m] # Nothing}
    /\ pointer' = Active + 1
    /\ recs' = [Retired(Open \cup {"active"}) EXCEPT ![Active + 1] =
          [status |-> "active", desired |-> Cardinality(owed'), projected |-> 0, dirty |-> TRUE]]
    /\ unruly' = unruly \cup {"restore"}
    /\ UNCHANGED <<writes, backup, table, build, doomed, drifted>>

\* Mutant: a generation without a record counts as retired.
ReapableUnknown == {g \in Gens : ~Has(g, Open \cup {"active"})}

Reapable == {g \in Gens : Has(g, {"retired"})}

\* reap_retired_generations lists the records once...
ListRetired ==
    /\ doomed = {}
    /\ doomed' \in (SUBSET Reapable) \ {{}}
    /\ UNCHANGED <<canonical, owed, pointer, recs, table, build, unruly>>

\* ... and then deletes the rows of one after the other.
Reap(g) ==
    /\ g \in doomed
    /\ table' = {r \in table : r.gen # g}
    /\ doomed' = doomed \ {g}
    /\ UNCHANGED <<canonical, owed, pointer, recs, build, unruly>>

GenNext ==
    \/ \E m \in Mems :
          \/ Write(m) \/ Adjust(m) \/ ForgetDoc(m) \/ Project(m)
          \/ CheckPublish(m) \/ PublishRows(m)
    \/ \E g \in Gens :
          StartBuild(g) \/ ActivateGeneration(g) \/ AbandonGeneration(g) \/ Reap(g)
    \/ StageGeneration \/ FinishBuild \/ NoteGenerationProgress
    \/ TakeBackup \/ RestoreStore \/ ListRetired

GenSpec == GenInit /\ [][GenNext]_genvars

-----------------------------------------------------------------------------
(* Properties.                                                             *)

\* Active record and pointer agree once there is one, and at most one
\* generation is under construction, above the active one or below it.
OneActiveOnePipeline ==
    /\ \A g \in Gens : Has(g, {"active"}) => g = pointer
    /\ recs[pointer] # Nothing => recs[pointer].status = "active"
    /\ Cardinality(Pipeline) <= 1

SameText(d, e) == d.rev = e.rev /\ d.era = e.era

\* What a row shows of a memory is its text, and its confidence unless that drifted.
Current(doc, m) == SameText(doc, docs[m]) /\ (m \in drifted \/ doc.conf = docs[m].conf)

\* As long as writes of texts have waited for a build and its report, readers of the
\* active generation find the text of every recallable memory, but for those the worker
\* has still to project: a cutover loses none.  It loses the confidence of no memory but
\* those whose confidence changed while a build was under way or ready, and that were not
\* projected again after it.
ActiveIsServed ==
    unruly = {} =>
        \A m \in Recallable \ owed :
            \E r \in table : r.gen = Active /\ r.mem = m /\ Current(r.doc, m)

\* No row of the active generation shows a text of a store that a restore has
\* replaced, unless the backup had it or the operator went back to it.
NoRowOfReplacedStore ==
    "rollback" \notin unruly =>
        \A r \in table : r.gen = Active /\ r.doc.era < era =>
            backup[r.mem] # Nothing /\ SameText(backup[r.mem], r.doc)

\* The reaper never deletes rows of the active generation, although it lists
\* the retired ones first and deletes later; but for generations that a
\* rollback or the number of a restore brings back.
Revives == {"rollback", "restore"}
ReaperSparesActive ==
    [][unruly \cap Revives = {} => \A g \in Gens : Reap(g) => g # Active]_genvars
=============================================================================
