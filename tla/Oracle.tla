-------------------------------- MODULE Oracle --------------------------------
(***************************************************************************)
(* The reference interpreter of commands, run beside the service: it is    *)
(* sent each command when the service commits or refuses it, one after     *)
(* another, and has a store of its own.                                    *)
(*                                                                         *)
(* Where the two are known to part (see Excused), they are not compared    *)
(* from there on.  Revisions, aliases, receipts, sessions and guides of    *)
(* the interpreter are left out.                                           *)
(***************************************************************************)
EXTENDS Memories

VARIABLES
    reference,       \* the interpreter's memories
    relations,      \* the interpreter's relations
    parted,     \* a command came that the two are known to take differently
    differed    \* one was refused by one of them only

oraclevars == <<memvars, reference, relations, parted, differed>>

OracleInit ==
    /\ Init
    /\ reference = memories /\ relations = {} /\ parted = FALSE /\ differed = FALSE

Has(m) == reference[m].life # "none"

Said(ok, mems, es) == [ok |-> ok, reference |-> mems, relations |-> es]
No == Said(FALSE, reference, relations)

-----------------------------------------------------------------------------
(* The commands, as the interpreter reads them.                            *)

\* The memory is there before its link is looked at.
Adds(c) ==
    LET m == Op[c].ids[1]
        mems == [reference EXCEPT ![m] = Fresh(Op[c].text)]
    IN  IF Has(m) THEN No
        ELSE Said(\A e \in asks[c].link : Duplicate(relations, e) \/ Valid(mems, relations, e), mems,
                  relations \cup {e \in asks[c].link : Valid(mems, relations, e)})

\* Mutant: a memory that is hidden is updated.
UpdatesHidden(c) == Has(Op[c].ids[1])

Updates(c) == reference[Op[c].ids[1]].life = "live"

Patches(c) ==
    LET m == Op[c].ids[1]
    IN  IF ~Updates(c) THEN No
        ELSE Said(TRUE, [reference EXCEPT ![m].text = IF Op[c].text = Unset THEN @ ELSE Op[c].text,
                                     ![m].level = NewLevel(c, reference[m])], relations)

Votes(c) ==
    LET m == Op[c].ids[1]
    IN  IF ~Has(m) THEN No
        ELSE Said(TRUE, [reference EXCEPT ![m].votes = @ + 1,
                            ![m].level = IF Op[c].how = "useful" THEN Up(@) ELSE Down(@)], relations)

Boosts(c) ==
    Said(TRUE, [m \in MemoryIds |-> IF Has(m) /\ m \in Addressed(c)
                                    THEN [reference[m] EXCEPT !.level = Up(@)] ELSE reference[m]],
         relations)

Relates(e) == IF Valid(reference, relations, e) THEN Said(TRUE, reference, relations \cup {e}) ELSE No

\* The result is there before its edges are relations; a merge that replaces removes its sources.
Merges(c) ==
    LET r == Op[c].ids[1]
        sources == {Op[c].ids[i] : i \in 2..Len(Op[c].ids)}
        made == [reference EXCEPT ![r] = Fresh(Op[c].text)]
        links == {Link(r, s, "supersedes") : s \in sources}
    IN  IF Has(r) \/ \E s \in sources : ~Has(s) THEN No
        ELSE IF Op[c].how = "replace"
        THEN Said(TRUE, [m \in MemoryIds |-> IF m \in sources THEN [reference[m] EXCEPT !.life = "none"]
                                             ELSE made[m]],
                  {e \in relations : {e.from, e.to} \cap sources = {}})
        ELSE IF \A e \in links : Valid(made, relations, e)
        THEN Said(TRUE, [m \in MemoryIds |-> IF m \in sources THEN [made[m] EXCEPT !.level = 0]
                                             ELSE made[m]], relations \cup links)
        ELSE Said(FALSE, made, relations)

\* Edges stay where they are.
Forgets(c) ==
    LET m == Op[c].ids[1]
    IN  IF ~Has(m) THEN No ELSE Said(TRUE, [reference EXCEPT ![m].life = Op[c].how], relations)

\* What memory_read links is sent as the relations it comes to.
Links(es) ==
    IF \A e \in es : Valid(reference, relations, e)
    THEN Said(TRUE, reference, relations \cup es) ELSE No

Commands(c) ==
    asks[c].step \in {"planned", "accessed"} \/ Asked(c, "unsent", "boost")

Interprets(c) ==
    CASE Op[c].kind = "add" -> Adds(c)
      [] Op[c].kind \in {"update", "downweight"} -> Patches(c)
      [] Op[c].kind = "feedback" -> Votes(c)
      [] Op[c].kind \in {"read", "boost"} ->
            IF asks[c].step = "accessed" THEN Links(edges' \ edges) ELSE Boosts(c)
      [] Op[c].kind = "relate" -> Relates(Link(Op[c].ids[1], Op[c].ids[2], Op[c].how))
      [] Op[c].kind = "merge" -> Merges(c)
      [] Op[c].kind = "forget" -> Forgets(c)

\* A link or an edge of a merge is refused after the memory was put in; a replaced source is
\* gone from one store and hidden in the other; a chain through a deleted memory closes.
Excused(c, said) ==
    \/ Op[c].kind \in {"add", "merge"} /\ ~said.ok /\ said.reference # reference
    \/ \E m \in Addressed(c) : Exists(m) /\ ~Has(m)
    \/ /\ Op[c].kind = "relate"
       /\ LET e == Link(Op[c].ids[1], Op[c].ids[2], Op[c].how)
          IN  MakesCycle(relations, e) /\ ~MakesCycle(edges, e)

Follow(c) ==
    IF Commands(c)
    THEN LET said == Interprets(c)
         IN  /\ reference' = said.reference /\ relations' = said.relations
             /\ parted' = (parted \/ Excused(c, said))
             /\ differed' = (differed \/ (said.ok # (asks'[c].step # "refused")))
    ELSE UNCHANGED <<reference, relations, parted, differed>>

\* Calls that have not ended: no other takes a step.
Unended == {c \in Calls : asks[c].step \notin {"done", "refused"}}

OracleNext ==
    \/ \E c \in Unended : Tool(c) /\ Follow(c)
    \/ (\E m \in MemoryIds : Project(m)) /\ UNCHANGED <<reference, relations, parted, differed>>

OracleSpec == OracleInit /\ [][OracleNext]_oraclevars

-----------------------------------------------------------------------------
(* Properties.                                                             *)

Between(es, mems) == {e \in es : EndpointsLive(mems, e)}

\* The commands of requests that overlap, each planned on what it read, come to what the
\* interpreter makes of them one after another: the same are refused, the same memories are
\* live, with the same text, confidence and votes, and the same relations are between them.
AgreesWithOracle ==
    \/ parted
    \/ /\ ~differed
       /\ \A m \in MemoryIds : Live(m) \/ reference[m].life = "live" => memories[m] = reference[m]
       /\ Between(edges, memories) = Between(relations, reference)
=============================================================================
