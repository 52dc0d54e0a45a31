------------------------------ MODULE Memories ------------------------------
(***************************************************************************)
(* Memories: what each canonical command does to the records, the edges    *)
(* between them, the projection jobs and the feedback events; and the      *)
(* tools that read before they send a command, with the similarity gate    *)
(* that add, update and merge commit under.                                *)
(*                                                                         *)
(* A tool reads outside the transaction it commits later: every read that  *)
(* the commit depends on, and every transaction, is an action of its own.  *)
(*                                                                         *)
(* Abstracted: a confidence is one of the levels 0..Full; a text is a      *)
(* value, two texts are near-duplicates when they are equal and overlap    *)
(* when Overlap says so; a row of the search table is the text and level   *)
(* it was published with, and the worker publishes a row and clears its    *)
(* job in one action (Projection has the steps of it).  Receipts are in    *)
(* Retry, links to sessions in Sessions; one project; no Unrelate.         *)
(***************************************************************************)
EXTENDS Integers, Sequences, FiniteSets

CONSTANTS MemoryIds, Texts, Full,
          Overlap,    \* pairs of texts that auto-link
          Calls, Op,  \* call -> [kind, ids, text, level, how]
          CallSets    \* sets of calls: those of one of them run, and overlap

VARIABLES memories,   \* id -> record
          edges,      \* relations
          jobs,       \* memories with a projection job
          index,      \* id -> row of the search table
          events,     \* feedback events
          gate,       \* the call that holds the similarity gate
          asks,       \* call -> step, candidates read, planned link
          merged,     \* results of merges (history)
          missed      \* memories projected between the two reads of a scan (history)

memvars == <<memories, edges, jobs, index, events, gate, asks, merged, missed>>

Unset == "none"
Kinds == {"add", "update", "downweight", "feedback", "read", "boost", "relate", "merge",
          "forget"}
Mutual == {"supports", "contradicts", "related_to"}
Supersession == {"supersedes", "superseded_by"}
Lives == {"none", "live", "invalidated", "archived", "deleted"}
Row == [text : Texts, level : 0..Full]
NoRow == [text |-> Unset, level |-> 0]
Memory == [life : Lives, text : Texts \cup {Unset}, level : 0..Full, votes : Nat]
Edge == [from : MemoryIds, to : MemoryIds, type : Mutual \cup Supersession]

\* What each kind of call must bring; a text that is no text is given where none is.  The
\* result of a merge has an id of its own, derived from the request.
ASSUME MemoriesAssumption ==
    /\ Full \in Nat /\ Unset \notin Texts \cup Calls /\ IsFiniteSet(Calls)
    /\ Op \in [Calls -> [kind : Kinds, ids : Seq(MemoryIds) \ {<<>>}, text : Texts \cup {Unset},
                          level : Nat, how : STRING]]
    /\ \A c \in Calls :
        /\ Op[c].kind \in {"add", "merge"} => Op[c].text # Unset
        /\ Op[c].kind = "downweight" => Op[c].text = Unset
        /\ Op[c].kind = "relate" =>
              Len(Op[c].ids) = 2 /\ Op[c].how \in Mutual \cup Supersession
        /\ Op[c].kind = "forget" => Op[c].how \in {"invalidated", "archived", "deleted"}
        /\ Op[c].kind = "merge" =>
              /\ Op[c].how \in {"consolidate", "replace"}
              /\ \A i \in 2..Len(Op[c].ids) : Op[c].ids[i] # Op[c].ids[1]

Fresh(t) == [life |-> "live", text |-> t, level |-> Full, votes |-> 0]
Unasked == [step |-> "unsent", found |-> {}, link |-> {}]
Exists(m) == memories[m].life # "none"
Live(m) == memories[m].life = "live"

MemoriesTypeOK ==
    /\ memories \in [MemoryIds -> Memory]
    /\ edges \subseteq Edge
    /\ jobs \subseteq MemoryIds /\ merged \subseteq MemoryIds /\ missed \subseteq MemoryIds
    /\ index \in [MemoryIds -> Row \cup {NoRow}]
    /\ events \subseteq Calls \X MemoryIds
    /\ gate \in Calls \cup {Unset}
    /\ asks \in [Calls -> [step : {"unsent", "gated", "indexed", "checked", "planned",
                                   "accessed", "done", "refused"},
                           found : SUBSET MemoryIds, link : SUBSET Edge]]

Init ==
    /\ memories = [m \in MemoryIds |-> [Fresh(Unset) EXCEPT !.life = "none"]]
    /\ edges = {} /\ jobs = {} /\ events = {} /\ merged = {} /\ missed = {}
    /\ index = [m \in MemoryIds |-> NoRow]
    /\ gate = Unset
    /\ \E some \in CallSets :
          asks = [c \in Calls |-> IF c \in some THEN Unasked ELSE [Unasked EXCEPT !.step = "refused"]]

(***************************************************************************)
(* The graph.                                                              *)
(***************************************************************************)
Link(a, b, t) == [from |-> a, to |-> b, type |-> t]
Stored(es) == {<<e.from, e.to>> : e \in {x \in es : x.type \in Supersession}}

\* All that a supersession path leads to from a: what is in every set that has a and that
\* no edge leads out of.
Reach(es, a) ==
    LET stored == Stored(es)
        closed == {S \in SUBSET MemoryIds :
                      a \in S /\ \A p \in stored : p[1] \in S => p[2] \in S}
    IN  {b \in MemoryIds : \A S \in closed : b \in S}

\* Mutant: a cycle is looked for one edge away.
MakesCycleOneStep(es, e) == Link(e.to, e.from, e.type) \in es

\* Both types are followed from source to target.
MakesCycle(es, e) == e.from \in Reach(es, e.to)

Duplicate(es, e) ==
    \/ e \in es
    \/ e.type \in Mutual /\ Link(e.to, e.from, e.type) \in es

\* Mutant: an endpoint need only exist.
EndpointsExist(mems, e) == mems[e.from].life # "none" /\ mems[e.to].life # "none"

EndpointsLive(mems, e) == mems[e.from].life = "live" /\ mems[e.to].life = "live"

Valid(mems, es, e) ==
    /\ e.type \in Supersession => e.from # e.to
    /\ EndpointsLive(mems, e)
    /\ ~Duplicate(es, e)
    /\ e.type \in Supersession => ~MakesCycle(es, e)

Severed(es, m) == {e \in es : m \notin {e.from, e.to}}

(***************************************************************************)
(* Requests.                                                               *)
(***************************************************************************)
Canon == <<memories, edges, jobs, index, events, merged, missed>>

Asked(c, step, kind) == asks[c].step = step /\ Op[c].kind = kind
MovesTo(c, step) == asks' = [asks EXCEPT ![c].step = step]
Ends(c, step) ==
    /\ asks' = [asks EXCEPT ![c] = [Unasked EXCEPT !.step = step]]
    /\ gate' = IF gate = c THEN Unset ELSE gate

Addressed(c) == {Op[c].ids[i] : i \in DOMAIN Op[c].ids}

\* Tools on given memories look them up first: records of any lifecycle are found.
FindAll(c, ids) ==
    /\ asks[c].step = "unsent"
    /\ IF \A m \in ids : Exists(m) THEN MovesTo(c, "planned") /\ UNCHANGED gate
       ELSE Ends(c, "refused")
    /\ UNCHANGED Canon

AskForget(c) == Op[c].kind \in {"forget", "downweight"} /\ FindAll(c, Addressed(c))
AskFeedback(c) == Op[c].kind = "feedback" /\ FindAll(c, Addressed(c))
AskRead(c) == Op[c].kind = "read" /\ FindAll(c, Addressed(c))
AskMerge(c) == Op[c].kind = "merge" /\ FindAll(c, Addressed(c) \ {Op[c].ids[1]})

\* memory_relate answers for an edge that is there, and for one memory named twice, without
\* a command.
AskRelate(c) ==
    /\ Op[c].kind = "relate"
    /\ IF \/ Op[c].ids[1] = Op[c].ids[2]
          \/ Duplicate(edges, Link(Op[c].ids[1], Op[c].ids[2], Op[c].how))
       THEN asks[c].step = "unsent" /\ Ends(c, "refused") /\ UNCHANGED Canon
       ELSE FindAll(c, Addressed(c))

\* Mutant: the gate is not waited for.
GateFreeAnyway(c) == gate \in Calls \cup {Unset}

GateFree(c) == gate = Unset

\* memory_add takes the gate before its scan, memory_update after it found the
\* memory; both hold it until they return.
TakeGate(c) ==
    /\ asks[c].step = "unsent" /\ Op[c].kind \in {"add", "update"}
    /\ GateFree(c)
    /\ IF Op[c].kind = "update" /\ ~Exists(Op[c].ids[1]) THEN Ends(c, "refused")
       ELSE /\ gate' = c
            /\ MovesTo(c, IF Op[c].text = Unset THEN "planned" ELSE "gated")
    /\ UNCHANGED Canon

\* What a scan finds: candidates that are live and have the text, by the record.
Hits(c, ids) ==
    {m \in ids : Live(m) /\ memories[m].text = Op[c].text
                 /\ (Op[c].kind = "update" => m # Op[c].ids[1])}

Decide(c, ids) == IF Hits(c, ids) = {} THEN MovesTo(c, "checked") /\ UNCHANGED gate
                  ELSE Ends(c, "refused")

\* Rows of the search table; or every memory at once when the table cannot answer.
ReadIndex(c) ==
    /\ asks[c].step = "gated"
    /\ \/ /\ asks' = [asks EXCEPT ![c].step = "indexed",
                                  ![c].found = {m \in MemoryIds : index[m].text = Op[c].text}]
          /\ UNCHANGED gate
       \/ Decide(c, MemoryIds)
    /\ UNCHANGED Canon

\* Mutant: what is not projected yet is left out.
NoOverlay == {}

PendingIds == {m \in jobs : Live(m)}

ReadPending(c) ==
    /\ asks[c].step = "indexed"
    /\ Decide(c, asks[c].found \cup PendingIds)
    /\ UNCHANGED Canon

\* memory_add plans a link to a memory that overlaps, by another scan.
PlanLink(c) ==
    LET near == {m \in MemoryIds : Live(m) /\ <<memories[m].text, Op[c].text>> \in Overlap}
    IN  /\ asks[c].step = "checked"
        /\ IF Op[c].kind = "add" /\ near # {}
           THEN \E m \in near :
                   asks' = [asks EXCEPT ![c].step = "planned",
                                        ![c].link = {Link(Op[c].ids[1], m, "related_to")}]
           ELSE MovesTo(c, "planned")
        /\ UNCHANGED <<Canon, gate>>

(***************************************************************************)
(* Commands: each is one transaction.                                      *)
(***************************************************************************)
Up(n) == IF n = Full THEN n ELSE n + 1
Down(n) == IF n = 0 THEN n ELSE n - 1

\* Memories whose level changes get a job, at a limit they do not.
Releveled(new) == {m \in MemoryIds : new[m].level # memories[m].level}

Refused(c) == Ends(c, "refused") /\ UNCHANGED Canon

AddMemory(c) ==
    LET m == Op[c].ids[1]
        mems == [memories EXCEPT ![m] = Fresh(Op[c].text)]
        fits == {e \in asks[c].link : ~Duplicate(edges, e)}
    IN  /\ Asked(c, "planned", "add")
        /\ IF ~Exists(m) /\ \A e \in asks[c].link : EndpointsLive(mems, e)
           THEN /\ memories' = mems
                /\ edges' = edges \cup fits
                /\ jobs' = jobs \cup {m}
                /\ Ends(c, "done")
                /\ UNCHANGED <<index, events, merged, missed>>
           ELSE Refused(c)

\* A patch without a confidence has a level above Full.
NewLevel(c, old) == IF Op[c].level > Full THEN old.level ELSE Op[c].level

\* Mutant: a new confidence is stored and not projected.
NeedsJobForText(c, old) == Op[c].text # Unset

NeedsJob(c, old) == Op[c].text # Unset \/ NewLevel(c, old) # old.level

\* The patch of memory_update, and of memory_forget that keeps the memory.
UpdateMemory(c) ==
    LET m == Op[c].ids[1]
        old == memories[m]
    IN  /\ Asked(c, "planned", "update") \/ Asked(c, "planned", "downweight")
        /\ IF Live(m)
           THEN /\ memories' = [memories EXCEPT
                       ![m].text = IF Op[c].text = Unset THEN @ ELSE Op[c].text,
                       ![m].level = NewLevel(c, old)]
                /\ jobs' = IF NeedsJob(c, old) THEN jobs \cup {m} ELSE jobs
                /\ Ends(c, "done")
                /\ UNCHANGED <<edges, index, events, merged, missed>>
           ELSE Refused(c)

\* Mutant: the event is keyed by the memory.
EventOfMemory(c, m) == {<<CHOOSE d \in Calls : TRUE, m>>}

EventOf(c, m) == {<<c, m>>}

Feedback(c) ==
    LET m == Op[c].ids[1]
        mems == [memories EXCEPT ![m].votes = @ + 1,
                    ![m].level = IF Op[c].how = "useful" THEN Up(@) ELSE Down(@)]
    IN  /\ Asked(c, "planned", "feedback")
        /\ memories' = mems
        /\ jobs' = jobs \cup Releveled(mems)
        /\ events' = events \cup EventOf(c, m)
        /\ Ends(c, "done")
        /\ UNCHANGED <<edges, index, merged, missed>>

\* A read, or the boost of a session start, lifts what it names that exists.
Boosted(c) ==
    [m \in MemoryIds |-> IF Exists(m) /\ m \in Addressed(c)
                         THEN [memories[m] EXCEPT !.level = Up(@)] ELSE memories[m]]

Boost(c) ==
    /\ Asked(c, "planned", "read") \/ Asked(c, "unsent", "boost")
    /\ memories' = Boosted(c)
    /\ jobs' = jobs \cup Releveled(Boosted(c))
    /\ IF Op[c].kind = "read" THEN MovesTo(c, "accessed") /\ UNCHANGED gate ELSE Ends(c, "done")
    /\ UNCHANGED <<edges, index, events, merged, missed>>

\* Memories read together are to be linked to one of them with most confidence.
Stars(c) ==
    {{Link(top, m, "related_to") : m \in Addressed(c) \ {top}} :
        top \in {t \in Addressed(c) : \A m \in Addressed(c) : memories[m].level <= memories[t].level}}

\* The links commit as far as the graph allows; what it does not allow is skipped.
CoRead(c) ==
    /\ asks[c].step = "accessed"
    /\ \E star \in Stars(c) : edges' = edges \cup {e \in star : Valid(memories, edges, e)}
    /\ Ends(c, "done")
    /\ UNCHANGED <<memories, jobs, index, events, merged, missed>>

Relate(c) ==
    LET e == Link(Op[c].ids[1], Op[c].ids[2], Op[c].how)
    IN  /\ Asked(c, "planned", "relate")
        /\ IF Valid(memories, edges, e)
           THEN /\ edges' = edges \cup {e}
                /\ Ends(c, "done")
                /\ UNCHANGED <<memories, jobs, index, events, merged, missed>>
           ELSE Refused(c)

\* The result supersedes its sources, which stay with low confidence; or the
\* sources are deleted.  Sources need only exist, but an edge wants live ends.
Merge(c) ==
    LET r == Op[c].ids[1]
        sources == {Op[c].ids[i] : i \in 2..Len(Op[c].ids)}
        made == [memories EXCEPT ![r] = Fresh(Op[c].text)]
        links == {Link(r, s, "supersedes") : s \in sources}
        keep == Op[c].how = "consolidate"
    IN  /\ Asked(c, "planned", "merge")
        /\ gate = Unset
        /\ IF ~Exists(r) /\ (keep => \A e \in links : Valid(made, edges, e))
           THEN /\ memories' = [m \in MemoryIds |->
                       IF m \notin sources THEN made[m]
                       ELSE IF keep THEN [made[m] EXCEPT !.level = 0]
                       ELSE [made[m] EXCEPT !.life = "deleted"]]
                /\ edges' = IF keep THEN edges \cup links
                            ELSE {e \in edges : {e.from, e.to} \cap sources = {}}
                /\ jobs' = jobs \cup {r} \cup sources
                /\ merged' = merged \cup {r}
                /\ Ends(c, "done")
                /\ UNCHANGED <<index, events, missed>>
           ELSE Refused(c)

\* Mutant: a deletion leaves the edges.
KeptEdges(es, m) == es

DeletedEdges(es, m) == Severed(es, m)

Forget(c) ==
    LET m == Op[c].ids[1]
    IN  /\ Asked(c, "planned", "forget")
        /\ memories' = [memories EXCEPT ![m].life = Op[c].how]
        /\ edges' = IF Op[c].how = "deleted" THEN DeletedEdges(edges, m) ELSE edges
        /\ jobs' = jobs \cup {m}
        /\ Ends(c, "done")
        /\ UNCHANGED <<index, events, merged, missed>>

\* The worker publishes the record as it is and clears the job.
Projected(m) == IF Live(m) THEN [text |-> memories[m].text, level |-> memories[m].level] ELSE NoRow

Project(m) ==
    /\ m \in jobs
    /\ index' = [index EXCEPT ![m] = Projected(m)]
    /\ jobs' = jobs \ {m}
    /\ missed' = IF \E c \in Calls : asks[c].step = "indexed" THEN missed \cup {m} ELSE missed
    /\ UNCHANGED <<memories, edges, events, merged, gate, asks>>

Tool(c) ==
    \/ AskForget(c) \/ AskFeedback(c) \/ AskRead(c) \/ AskMerge(c) \/ AskRelate(c)
    \/ TakeGate(c) \/ ReadIndex(c) \/ ReadPending(c) \/ PlanLink(c)
    \/ AddMemory(c) \/ UpdateMemory(c) \/ Feedback(c) \/ Boost(c) \/ CoRead(c)
    \/ Relate(c) \/ Merge(c) \/ Forget(c)

Next == (\E c \in Calls : Tool(c)) \/ (\E m \in MemoryIds : Project(m))

Spec == Init /\ [][Next]_memvars

(***************************************************************************)
(* Properties.                                                             *)
(***************************************************************************)

\* No edge leads to a deleted memory, whatever was read together, linked, merged
\* or related from a plan made before the deletion; there is one edge per relation,
\* in either order of the ends when the relation is symmetric; and no chain of
\* supersessions, as stored, comes back.
GraphIsSound ==
    /\ \A e \in edges : \A m \in {e.from, e.to} : memories[m].life \notin {"none", "deleted"}
    /\ \A e \in edges : e.type \in Mutual => Link(e.to, e.from, e.type) \notin edges
    /\ \A p \in Stored(edges) : p[1] \notin Reach(edges, p[2])

\* What a command leaves beside the record agrees with it: the search table shows
\* what the record says, or a job is there to change it; and a memory counts the
\* feedback events there are about it, whatever became of it.
RecordsAgree ==
    /\ \A m \in MemoryIds \ jobs : index[m] = Projected(m)
    /\ \A m \in MemoryIds : memories[m].votes = Cardinality({e \in events : e[2] = m})

Twins ==
    LET checked == {m \in MemoryIds : Live(m) /\ m \notin merged}
    IN  {p \in checked \X checked : p[1] # p[2] /\ memories[p[1]].text = memories[p[2]].text}

\* The gate keeps two live memories from the same text (merges are not checked),
\* as long as no memory is projected between the two reads of a scan.
TwinsOnlyWhenMissed == \A p \in Twins : {p[1], p[2]} \cap missed # {}
===============================================================================
