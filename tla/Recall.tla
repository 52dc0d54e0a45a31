------------------------------- MODULE Recall -------------------------------
(***************************************************************************)
(* One request to recall, from its first read to its answer, while         *)
(* commands, the projection worker and a restore go on.                    *)
(*                                                                         *)
(* The engine pins the search table when it starts, takes its candidates   *)
(* from the pinned rows, and then reads the canonical store once for every *)
(* decision: which candidates are eligible, what supersedes them, what is  *)
(* near them in the graph, what they say, and how far the projection lags. *)
(* Every read is an action of its own, so that each may see another store. *)
(*                                                                         *)
(* Abstracted: a text matches the query by its words ("match"), only by    *)
(* its vector ("near") or not at all; ranks and scores are left out, so    *)
(* what is tied in the model may be ordered in the code; the probes of the *)
(* successors of one record, and of the neighbours of one node, are one    *)
(* step; the fan-out and node caps are not reached; every row has its      *)
(* vector.  The worker publishes a row in one action (Projection); what a  *)
(* read leaves behind is in Memories and Sessions, and is here a moment at *)
(* which others act.                                                       *)
(***************************************************************************)
EXTENDS Naturals, FiniteSets

CONSTANTS Ids,          \* numbers: of two successors the smaller is taken
          Stores,       \* what a store may hold: [text, level, edges]
          Tools,        \* of the request
          Limit,        \* of a page
          MaxChanges    \* writes; a restore stands for them all

VARIABLES
    memories,   \* id -> [life, text, level]
    edges,      \* relations
    active,     \* the generation
    backlog,    \* memories the worker has to project
    searchRows, \* of the search table, of any generation
    ask,        \* the request
    witnessed,  \* what was there at some moment of it, and at all (history)
    spent       \* changes made

recallvars == <<memories, edges, active, backlog, searchRows, ask, witnessed, spent>>

Nobody == 0
Texts == {"match", "near", "other"}
Levels == {"here", "low", "foreign"}   \* of the project; below the asked confidence; of another
Supersession == {"supersedes", "superseded_by"}
Edge == [from : Ids, to : Ids, type : Supersession \cup {"contradicts", "related_to"}]
KnownMemory == [life : {"none", "live", "invalidated", "deleted"}, text : Texts, level : Levels]
TableEntry == [id : Ids, gen : Nat, text : Texts, level : Levels]
NoMemory == [life |-> "none", text |-> "other", level |-> "here"]
Far == 3    \* not reached by the expansion, whose depth is 2

\* The pairs of a superseded memory and what supersedes it.
Followed(es) == {<<e.to, e.from>> : e \in {x \in es : x.type = "supersedes"}}
                \cup {<<e.from, e.to>> : e \in {x \in es : x.type = "superseded_by"}}

\* The pairs of a supersession as it is stored.
Stored(es) == {<<e.from, e.to>> : e \in {x \in es : x.type \in Supersession}}

\* The sets that no pair leads out of, and what the pairs lead to from S, S included.
Closed(pairs) == {T \in SUBSET Ids : \A p \in pairs : p[1] \in T => p[2] \in T}
LeadTo(pairs, S) == {m \in Ids : \A T \in Closed(pairs) : S \subseteq T => m \in T}

ASSUME RecallAssumption ==
    /\ Ids \subseteq Nat \ {Nobody} /\ IsFiniteSet(Ids)
    /\ Tools \subseteq {"search", "query", "browse", "tfidf", "id", "ids"}
    /\ Limit \in Nat \ {0} /\ MaxChanges \in Nat
    /\ \A s \in Stores : /\ s.text \in [Ids -> Texts] /\ s.level \in [Ids -> Levels]
                         /\ s.edges \subseteq Edge

\* Scoped: there is a stable identity, whose project a read by id keeps to.
Asked(tool, scoped) ==
    [tool |-> tool, scoped |-> scoped, step |-> "new", gen |-> 0, table |-> {}, found |-> {}, failed |-> FALSE,
     cand |-> {}, edges |-> {}, todo |-> {}, head |-> Nobody, walked |-> {},
     current |-> [m \in Ids |-> Nobody], conflicts |-> {},
     depth |-> [m \in Ids |-> Far], popped |-> {},
     shown |-> [m \in Ids |-> NoMemory], results |-> {}, more |-> FALSE, notice |-> FALSE,
     partial |-> FALSE, mode |-> "engine"]

Steps == {"new", "legs", "hydrate", "relations", "bundles", "expand", "content", "readiness",
          "scan", "batch", "refetch", "done"}

RecallTypeOK ==
    /\ memories \in [Ids -> KnownMemory] /\ edges \subseteq Edge /\ backlog \subseteq Ids
    /\ active \in 1..2 /\ searchRows \subseteq TableEntry
    /\ ask.step \in Steps /\ ask.tool \in Tools /\ ask.scoped \in BOOLEAN
    /\ ask.table \subseteq TableEntry /\ ask.edges \subseteq Edge
    /\ ask.current \in [Ids -> Ids \cup {Nobody}] /\ ask.depth \in [Ids -> 0..Far]
    /\ ask.shown \in [Ids -> KnownMemory]
    /\ UNION {ask.found, ask.cand, ask.todo, ask.walked, ask.popped, ask.results} \subseteq Ids

IsLive(m) == memories[m].life = "live"
Exists(m) == memories[m].life # "none"

\* The effective scope: project, lifecycle and, for memory_read, confidence.
Admitted(level) == level = "here" \/ (level = "low" /\ ask.tool \in {"search", "tfidf"})
Eligible == {m \in Ids : IsLive(m) /\ Admitted(memories[m].level)}

(***************************************************************************)
(* Stores: a converged one at the start, any of them by a restore.         *)
(***************************************************************************)
Filled(s) == [m \in Ids |-> [life |-> "live", text |-> s.text[m], level |-> s.level[m]]]
RowOf(m, g) == [id |-> m, gen |-> g, text |-> memories[m].text, level |-> memories[m].level]

Unseen == [eligible |-> {}, content |-> {}, steady |-> {}, edges |-> {}, cleared |-> FALSE]

RecallInit ==
    /\ \E s \in Stores :
          /\ memories = Filled(s) /\ edges = s.edges
          /\ searchRows = {[id |-> m, gen |-> 1, text |-> s.text[m], level |-> s.level[m]]
                            : m \in Ids}
    /\ active = 1 /\ backlog = {}
    /\ \E tool \in Tools, scoped \in BOOLEAN :
          /\ tool \in {"id", "ids"} \/ scoped
          /\ ask = Asked(tool, scoped)
    /\ witnessed = Unseen
    /\ spent = 0

(***************************************************************************)
(* The engine.                                                             *)
(***************************************************************************)
Canon == <<memories, edges, active, backlog, searchRows, spent>>
Goes(new) == ask' = new /\ UNCHANGED Canon
To(step) == [ask EXCEPT !.step = step]
Ranked == ask.tool \in {"search", "query"}

\* retrieve_sync reopens the table, which stays at that version for the request.
Refresh ==
    /\ ask.step = "new" /\ Ranked
    /\ \/ Goes([To("legs") EXCEPT !.table = searchRows])
       \/ Goes([To("scan") EXCEPT !.mode = "scan"])

\* The filter that goes with a query: the scope, on the columns of the row.
InFilter(r) == r.gen = active /\ Admitted(r.level)

Leg(texts) == {r.id : r \in {x \in ask.table : InFilter(x) /\ x.text \in texts}}

\* The generation is read once; the legs read pinned rows.  The lexical leg fails the
\* retrieval, the dense one is done without.
Legs ==
    /\ ask.step = "legs"
    /\ \/ Goes([To("hydrate") EXCEPT !.gen = active, !.found = Leg({"match", "near"})])
       \/ Goes([To("hydrate") EXCEPT !.gen = active, !.found = Leg({"match"}), !.failed = TRUE])
       \/ Goes([To("scan") EXCEPT !.mode = "scan"])

\* Mutant: candidates are what the table says.
TakenAsFound == ask.found

Candidates == ask.found \cap Eligible

Hydrate ==
    /\ ask.step = "hydrate"
    /\ Goes([To(IF Candidates = {} THEN "readiness" ELSE "relations") EXCEPT
                !.cand = Candidates, !.todo = Candidates])

Relations ==
    /\ ask.step = "relations"
    /\ Goes([To(IF Ranked THEN "bundles" ELSE "expand") EXCEPT
                !.edges = edges, !.depth = [m \in Ids |-> IF m \in ask.cand THEN 0 ELSE Far]])

(***************************************************************************)
(* Bundles: what supersedes a candidate, and what contradicts it.          *)
(***************************************************************************)

\* Mutant: one of the two directions in which a supersession is stored.
SuccessorsOneWay(es, m) == {e.from : e \in {x \in es : x.type = "supersedes" /\ x.to = m}}

Successors(es, m) ==
    {e.from : e \in {x \in es : x.type = "supersedes" /\ x.to = m}}
    \cup {e.to : e \in {x \in es : x.type = "superseded_by" /\ x.from = m}}

Walk(c) ==
    /\ ask.step = "bundles" /\ ask.head = Nobody
    /\ c \in ask.todo
    /\ IF c \in Eligible THEN Goes([ask EXCEPT !.head = c, !.current[c] = c])
       ELSE Goes([ask EXCEPT !.todo = @ \ {c}])

\* The candidate whose chain is walked is the one that is its own current.
Walked == CHOOSE c \in ask.todo : ask.current[c] = c

\* One hop to the nearest successor in scope, as long as it is a new one.
Hop ==
    LET nexts == (Successors(ask.edges, ask.head) \ {ask.head}) \cap Eligible
        next == CHOOSE n \in nexts : \A o \in nexts : n <= o
    IN  /\ ask.step = "bundles" /\ ask.head # Nobody
        /\ IF nexts # {} /\ next \notin ask.walked
           THEN Goes([ask EXCEPT !.head = next, !.walked = @ \cup {next}])
           ELSE Goes([ask EXCEPT !.head = Nobody, !.walked = {}, !.todo = @ \ {Walked},
                        !.current[Walked] = IF ask.head = Walked THEN Nobody ELSE ask.head])

Obsolete == {c \in ask.cand : ask.current[c] # Nobody}
Currents == {ask.current[c] : c \in Obsolete}
Protected == Currents \cup UNION ask.conflicts

Conflicts ==
    /\ ask.step = "bundles" /\ ask.todo = {} /\ ask.head = Nobody
    /\ Goes([To("expand") EXCEPT !.conflicts =
                {{e.from, e.to} : e \in {x \in ask.edges : /\ x.type = "contradicts"
                                                           /\ {x.from, x.to} \subseteq ask.cand
                                                           /\ {x.from, x.to} \subseteq Eligible}}])

(***************************************************************************)
(* Expansion: breadth first, two hops, every node in scope when probed.    *)
(***************************************************************************)
Neighbours(m) == {e.to : e \in {x \in ask.edges : x.from = m}}
                 \cup {e.from : e \in {x \in ask.edges : x.to = m}}
Reached == {m \in Ids : ask.depth[m] < Far}
Waiting == {m \in Reached : ask.depth[m] < Far - 1} \ ask.popped

Expand(n) ==
    /\ ask.step = "expand"
    /\ n \in Waiting /\ \A o \in Waiting : ask.depth[n] <= ask.depth[o]
    /\ Goes([ask EXCEPT !.popped = @ \cup {n},
                !.depth = [m \in Ids |-> IF m \in (Neighbours(n) \cap Eligible) \ Reached
                                         THEN ask.depth[n] + 1 ELSE @[m]]])

Expanded ==
    /\ ask.step = "expand" /\ Waiting = {}
    /\ Goes(To("content"))

(***************************************************************************)
(* The answer.                                                             *)
(***************************************************************************)
AtMost(n, S) == IF Cardinality(S) < n THEN Cardinality(S) ELSE n

\* A page of a set: what comes first in it is preferred to the rest.
Pages(S, first) == {p \in SUBSET S : /\ Cardinality(p) = AtMost(Limit, S)
                                     /\ p \subseteq first \/ S \cap first \subseteq p}

Showing(page) == [m \in Ids |-> IF m \in page THEN memories[m] ELSE NoMemory]

\* One more snapshot has what is shown, of any lifecycle.  Obsolete candidates are
\* excluded; currents and both sides of a conflict come before the rest.
Content ==
    LET pool == {m \in Reached \cup ask.cand \cup Currents : Exists(m)} \ Obsolete
    IN  /\ ask.step = "content" /\ Ranked
        /\ \E page \in Pages(pool, Protected) :
              Goes([To("readiness") EXCEPT
                    !.results = page, !.shown = Showing(page), !.more = page # pool,
                    !.notice = \E k \in ask.conflicts : ~(k \subseteq page)])

\* Mutant: nothing is said of pending jobs.
LaggingNever == FALSE

Lagging == backlog # {}
DenseReady == \E r \in ask.table : r.gen = ask.gen

\* How far the legs could be trusted is read after them.  An empty retrieval is followed
\* by a scan of the store.
Readiness ==
    /\ ask.step = "readiness"
    /\ Goes([To(IF ask.results = {} THEN "scan"
                ELSE IF ask.tool = "search" THEN "done" ELSE "refetch") EXCEPT
                !.partial = Lagging \/ ~DenseReady \/ ask.failed])

Matching == {m \in Eligible : memories[m].text = "match"}

\* semantic_search scans for the words, and keeps the engine's word when that finds
\* nothing either; memory_read lists what is eligible, matches first.
Scan ==
    LET all == IF ask.tool = "search" THEN Matching ELSE Eligible
    IN  /\ ask.step = "scan"
        /\ \E page \in Pages(all, Matching) :
              Goes([To(IF ask.tool = "search" THEN "done" ELSE "refetch") EXCEPT
                    !.results = page, !.shown = Showing(page), !.more = page # all,
                    !.mode = IF all = {} THEN @ ELSE "scan",
                    !.partial = IF all = {} THEN @ ELSE FALSE])

\* Of a corpus, what is similar enough to the words of the query.
SimilarIn(corpus) == {m \in corpus : memories[m].text = "match"}

\* Reference ranking by words: one snapshot.
Tfidf ==
    LET all == SimilarIn(Eligible)
    IN  /\ ask.step = "new" /\ ask.tool = "tfidf"
        /\ \E page \in Pages(all, {}) :
              Goes([To("done") EXCEPT !.results = page, !.shown = Showing(page),
                                      !.more = page # all, !.mode = "scan"])

\* A browse lists one snapshot, and scans another when that was empty.
Browse ==
    /\ ask.step = "new" /\ ask.tool = "browse"
    /\ \E page \in Pages(Eligible, {}) :
          Goes([To(IF page = {} THEN "scan" ELSE "refetch") EXCEPT
                    !.results = page, !.shown = Showing(page), !.more = page # Eligible,
                    !.mode = "scan"])

(***************************************************************************)
(* memory_read of one id, with its neighbourhood, and of several.          *)
(***************************************************************************)
\* What is asked for by its id need only be of the project; without a stable identity it
\* may be of any.
InProject(m) == Exists(m) /\ (ask.scoped => memories[m].level # "foreign")

ReadId(m) ==
    /\ ask.step = "new" /\ ask.tool = "id"
    /\ IF InProject(m)
       THEN Goes([To("refetch") EXCEPT !.results = {m}, !.shown = Showing({m})])
       ELSE Goes(To("done"))

\* The ids of a batch are looked up one by one.
StartBatch ==
    /\ ask.step = "new" /\ ask.tool = "ids"
    /\ \E asked \in SUBSET Ids : Goes([To("batch") EXCEPT !.todo = asked])

ReadNext ==
    LET m == CHOOSE m \in ask.todo : \A o \in ask.todo : m <= o
    IN  /\ ask.step = "batch"
        /\ IF ask.todo = {} THEN Goes(To("refetch"))
           ELSE Goes([ask EXCEPT !.todo = @ \ {m},
                                 !.results = IF InProject(m) THEN @ \cup {m} ELSE @])

\* Mutant: the scope of a batch is looked at before the access only.
StillThere(m) == Exists(m)

\* What is there at the second look; a batch looks at its scope again.
Shown(m) == IF ask.tool = "ids" THEN InProject(m) ELSE Exists(m)

\* After the access is recorded, memory_read shows what the records are then.
Refetch ==
    LET there == {m \in ask.results : Shown(m)}
    IN  /\ ask.step = "refetch"
        /\ Goes([To(IF ask.tool = "id" /\ there # {} THEN "relations" ELSE "done") EXCEPT
                    !.results = there, !.shown = Showing(there),
                    !.cand = IF ask.tool = "id" THEN there ELSE @])

\* The neighbours are fetched to be shown; the root has been.
Related ==
    LET new == {m \in Reached \ ask.cand : Exists(m)}
    IN  /\ ask.step = "content" /\ ask.tool = "id"
        /\ Goes([To("done") EXCEPT
                    !.results = ask.cand \cup new,
                    !.shown = [m \in Ids |-> IF m \in new THEN memories[m] ELSE @[m]]])

Reader ==
    \/ Refresh \/ Legs \/ Hydrate \/ Relations \/ Hop \/ Conflicts \/ Expanded
    \/ Content \/ Readiness \/ Scan \/ Tfidf \/ Browse \/ StartBatch \/ ReadNext
    \/ Refetch \/ Related
    \/ \E m \in Ids : Walk(m) \/ Expand(m) \/ ReadId(m)

(***************************************************************************)
(* The others.                                                             *)
(***************************************************************************)
Change(m, new) ==
    /\ spent < MaxChanges
    /\ memories' = [memories EXCEPT ![m] = new]
    /\ backlog' = backlog \cup {m}
    /\ spent' = spent + 1
    /\ UNCHANGED <<active, searchRows, ask>>

Hide(m) == IsLive(m) /\ Change(m, [memories[m] EXCEPT !.life = "invalidated"]) /\ UNCHANGED edges

Delete(m) ==
    /\ Exists(m)
    /\ Change(m, [memories[m] EXCEPT !.life = "deleted"])
    /\ edges' = {e \in edges : m \notin {e.from, e.to}}

Reword(m) ==
    /\ IsLive(m)
    /\ \E t \in {"match", "other"} : Change(m, [memories[m] EXCEPT !.text = t])
    /\ UNCHANGED edges

Relevel(m) ==
    /\ IsLive(m) /\ memories[m].level # "foreign"
    /\ Change(m, [memories[m] EXCEPT !.level = IF @ = "low" THEN "here" ELSE "low"])
    /\ UNCHANGED edges

\* A cycle of supersessions is looked for as they are stored, in whichever direction
\* each says that the one replaced the other.
ClosesCycle(e) == e.type \in Supersession /\ e.from \in LeadTo(Stored(edges), {e.to})

\* What is mutual is stored in one of the two directions.
Duplicates(e) ==
    \E x \in edges : x = e \/ (e.type \notin Supersession /\ x = [e EXCEPT !.from = e.to, !.to = e.from])

\* A relation that is there, or that would close such a cycle, is refused.
Relate(e) ==
    /\ spent < MaxChanges
    /\ ~Duplicates(e) /\ IsLive(e.from) /\ IsLive(e.to)
    /\ ~ClosesCycle(e)
    /\ edges' = edges \cup {e}
    /\ spent' = spent + 1
    /\ UNCHANGED <<memories, active, backlog, searchRows, ask>>

ProjectRow(m) ==
    /\ m \in backlog
    /\ searchRows' = {r \in searchRows : r.id # m \/ r.gen # active}
               \cup (IF IsLive(m) THEN {RowOf(m, active)} ELSE {})
    /\ backlog' = backlog \ {m}
    /\ UNCHANGED <<memories, edges, active, ask, spent>>

RestoreAs(s) ==
    /\ spent = 0 /\ MaxChanges > 0
    /\ memories' = Filled(s) /\ edges' = s.edges
    /\ active' = active + 1 /\ backlog' = Ids
    /\ spent' = MaxChanges
    /\ UNCHANGED <<searchRows, ask>>

Others ==
    \/ \E m \in Ids : Hide(m) \/ Delete(m) \/ Reword(m) \/ Relevel(m) \/ ProjectRow(m)
    \/ \E s \in Stores : RestoreAs(s) \/ \E e \in s.edges : Relate(e)

\* What is remembered of the moments of the request.  A restore ends all that held.
Contents(ms) == {<<m, ms[m]>> : m \in Ids}
Remember ==
    LET first == ask.step = "new"
        steady == {<<m, memories'[m].text>> : m \in Eligible'}
        held(now, before) == IF active' # active THEN {} ELSE IF first THEN now ELSE before \cap now
    IN  witnessed' = [eligible |-> (IF first THEN Eligible ELSE witnessed.eligible) \cup Eligible',
                 content |-> (IF first THEN Contents(memories) ELSE witnessed.content)
                             \cup Contents(memories'),
                 steady |-> held(steady, witnessed.steady),
                 edges |-> held(edges', witnessed.edges),
                 cleared |-> ~first /\ (witnessed.cleared \/ ~(backlog \subseteq backlog'))]

RecallNext == (Reader \/ (ask.step # "done" /\ Others)) /\ Remember
RecallSpec == RecallInit /\ [][RecallNext]_recallvars

(***************************************************************************)
(* Properties.                                                             *)
(***************************************************************************)
Answered == ask.step = "done"

\* Whatever the table held, what is served was eligible at some moment of the request, and
\* says what its record said at some moment of it.  A memory read by its id need only be
\* of the project, and in a batch what is shown of it is, whatever store took the place of
\* the one it was found in; without a stable identity it may be of any project.
ServesWhatWasEligible ==
    Answered => \A m \in ask.results :
        /\ CASE ask.tool = "ids" -> ask.scoped => ask.shown[m].level # "foreign"
             [] ask.tool = "id" /\ m \in ask.cand -> TRUE
             [] OTHER -> m \in witnessed.eligible
        /\ <<m, ask.shown[m]>> \in witnessed.content

Steady == {p[1] : p \in witnessed.steady}

\* What supersedes a memory leads back to it, in the direction in which it is followed.
LeadsBack(es, m) == m \in LeadTo(Followed(es), Successors(es, m))

\* A candidate that was superseded all along, by a memory that was eligible all along, is
\* not served, and the current of its chain is, as far as the page goes, unless the chain
\* leads back to the candidate; of two candidates that contradict each other all along,
\* both are served or a notice says so.
BundlesHold ==
    Answered /\ ask.tool = "search" /\ ask.mode = "engine" /\ ask.results # {} =>
        /\ \A p \in Followed(witnessed.edges) :
              p[1] \in ask.cand \cap Steady /\ p[2] \in Steady /\ ~LeadsBack(ask.edges, p[1]) =>
                  /\ p[1] \notin ask.results
                  /\ ask.current[p[1]] \in ask.results \/ ask.results \subseteq Protected
                     \/ ask.current[p[1]] \in Obsolete
        /\ \A e \in witnessed.edges :
              e.type = "contradicts" /\ {e.from, e.to} \subseteq ask.cand \cap Steady =>
                  {e.from, e.to} \subseteq ask.results \/ ask.notice

Complete ==
    ~ask.partial /\ ~ask.more =>
        \A p \in witnessed.steady :
            p[2] = "match" \/ (p[2] = "near" /\ ask.mode = "engine") =>
                p[1] \in ask.results \cup Obsolete

\* An answer that is not said to be partial has every memory that was eligible and could
\* be found all along, but those that are superseded - unless the worker finished
\* something while it was being put together.
CompleteUnlessOvertaken ==
    Answered /\ ask.tool = "search" /\ ~witnessed.cleared => Complete

\* Refuted: the lag is read after the legs, which read a pinned table.
NeverFalselyComplete == Answered /\ ask.tool = "search" => Complete

\* Refuted: what the expansion adds is not looked up in the chains of supersession.
ObsoleteExcluded ==
    Answered /\ ask.tool = "search" /\ ask.mode = "engine" =>
        \A p \in Followed(witnessed.edges) :
            {p[1], p[2]} \subseteq Steady => p[1] \notin ask.results
=============================================================================
