---------------------------- MODULE MemoriesProofs ----------------------------
(***************************************************************************)
(* Theorems about Memories, and about Oracle beside it, for any memories,  *)
(* texts, levels and calls.                                                *)
(***************************************************************************)
EXTENDS Oracle, FiniteSetTheorems, TLAPS

Steps == {"unsent", "gated", "indexed", "checked", "planned", "accessed", "done", "refused"}
Ask == [step : Steps, found : SUBSET MemoryIds, link : SUBSET Edge]

\* The table has a row for what is live, since what is live has a text.
LiveHasText == \A m \in MemoryIds : Live(m) => memories[m].text \in Texts
TypeInv == MemoriesTypeOK /\ LiveHasText

-----------------------------------------------------------------------------
(* What a step may write of a request.                                     *)

LEMMA Typed ==
    ASSUME MemoriesTypeOK
    PROVE  /\ asks \in [Calls -> Ask] /\ memories \in [MemoryIds -> Memory]
           /\ index \in [MemoryIds -> Row \cup {NoRow}]
           /\ edges \subseteq Edge /\ jobs \subseteq MemoryIds /\ events \subseteq Calls \X MemoryIds
           /\ gate \in Calls \cup {Unset} /\ missed \subseteq MemoryIds /\ merged \subseteq MemoryIds
BY DEF MemoriesTypeOK, Ask, Steps

LEMMA OpTyped ==
    ASSUME NEW c \in Calls
    PROVE  /\ Op[c].kind \in Kinds /\ Op[c].ids[1] \in MemoryIds /\ Addressed(c) \subseteq MemoryIds
           /\ \A i \in DOMAIN Op[c].ids : Op[c].ids[i] \in MemoryIds
           /\ Op[c].text \in Texts \cup {Unset} /\ Op[c].level \in Nat
<1>1. /\ Op[c].kind \in Kinds /\ Op[c].ids \in Seq(MemoryIds) \ {<<>>}
      /\ Op[c].text \in Texts \cup {Unset} /\ Op[c].level \in Nat
  BY MemoriesAssumption
<1>2. \A i \in DOMAIN Op[c].ids : Op[c].ids[i] \in MemoryIds
  BY <1>1
<1>3. 1 \in DOMAIN Op[c].ids
  BY <1>1
<1> QED BY <1>1, <1>2, <1>3 DEF Addressed

LEMMA GoesStep ==
    ASSUME asks \in [Calls -> Ask], NEW c \in Calls, NEW step \in Steps, MovesTo(c, step)
    PROVE  /\ asks' \in [Calls -> Ask]
           /\ asks'[c].step = step
           /\ asks'[c].found = asks[c].found /\ asks'[c].link = asks[c].link
           /\ \A d \in Calls \ {c} : asks'[d] = asks[d]
<1> DEFINE r == [asks[c] EXCEPT !.step = step]
<1>1. asks' = [asks EXCEPT ![c] = r]
  BY DEF MovesTo
<1>2. r \in Ask /\ r.step = step /\ r.found = asks[c].found /\ r.link = asks[c].link
  BY DEF Ask
<1> HIDE DEF r
<1> QED BY <1>1, <1>2

LEMMA EndsStep ==
    ASSUME asks \in [Calls -> Ask], gate \in Calls \cup {Unset},
           NEW c \in Calls, NEW step \in Steps, Ends(c, step)
    PROVE  /\ asks' \in [Calls -> Ask]
           /\ asks'[c].step = step
           /\ asks'[c].found = {} /\ asks'[c].link = {}
           /\ \A d \in Calls \ {c} : asks'[d] = asks[d]
           /\ gate' \in Calls \cup {Unset}
           /\ gate' = IF gate = c THEN Unset ELSE gate
<1> DEFINE r == [Unasked EXCEPT !.step = step]
<1>1. asks' = [asks EXCEPT ![c] = r]
  BY DEF Ends
<1>2. r \in Ask /\ r.step = step /\ r.found = {} /\ r.link = {}
  BY DEF Ask, Unasked
<1> HIDE DEF r
<1> QED BY <1>1, <1>2 DEF Ends

-----------------------------------------------------------------------------
(* A tool that reads changes its own request and the gate.                 *)

Reads(c) ==
    \/ AskForget(c) \/ AskFeedback(c) \/ AskRead(c) \/ AskMerge(c) \/ AskRelate(c)
    \/ TakeGate(c) \/ ReadIndex(c) \/ ReadPending(c) \/ PlanLink(c)
Commits(c) ==
    \/ AddMemory(c) \/ UpdateMemory(c) \/ Feedback(c) \/ Boost(c) \/ CoRead(c)
    \/ Relate(c) \/ Merge(c) \/ Forget(c)

LEMMA ReadsKeep ==
    ASSUME NEW c \in Calls, Reads(c)
    PROVE  UNCHANGED <<memories, edges, jobs, index, events, merged, missed>>
BY DEF Reads, AskForget, AskFeedback, AskRead, AskMerge, AskRelate, TakeGate, ReadIndex,
       ReadPending, PlanLink, FindAll, Canon

LEMMA LinkTyped ==
    ASSUME NEW a \in MemoryIds, NEW b \in MemoryIds, NEW t \in Mutual \cup Supersession
    PROVE  /\ Link(a, b, t) \in Edge
           /\ Link(a, b, t).from = a /\ Link(a, b, t).to = b /\ Link(a, b, t).type = t
BY DEF Link, Edge

\* What a tool that reads writes of its request: it ends, or goes on with the gate
\* it needs and what it has found.
ReadsTo(c) ==
    /\ asks' \in [Calls -> Ask]
    /\ \A d \in Calls \ {c} : asks'[d] = asks[d]
    /\ gate' \in Calls \cup {Unset}
    /\ \/ /\ asks'[c].step = "refused" /\ asks'[c].link = {}
          /\ gate' = IF gate = c THEN Unset ELSE gate
       \/ /\ asks[c].step = "unsent" /\ asks'[c].step = "planned" /\ gate' = gate
          /\ asks'[c].link = asks[c].link
          /\ Op[c].kind \in {"forget", "downweight", "feedback", "read", "merge", "relate"}
          /\ Op[c].kind \in {"forget", "downweight", "feedback"} => Exists(Op[c].ids[1])
          /\ Op[c].kind = "relate" => Op[c].ids[1] # Op[c].ids[2]
       \/ /\ asks[c].step = "unsent" /\ Op[c].kind \in {"add", "update"}
          /\ gate = Unset /\ gate' = c
          /\ asks'[c].step = IF Op[c].text = Unset THEN "planned" ELSE "gated"
          /\ asks'[c].link = asks[c].link
       \/ /\ asks[c].step = "gated" /\ asks'[c].step = "indexed" /\ gate' = gate
          /\ asks'[c].found = {m \in MemoryIds : index[m].text = Op[c].text}
          /\ asks'[c].link = asks[c].link
       \/ /\ asks[c].step = "gated" /\ asks'[c].step = "checked" /\ gate' = gate
          /\ Hits(c, MemoryIds) = {}
          /\ asks'[c].link = asks[c].link
       \/ /\ asks[c].step = "indexed" /\ asks'[c].step = "checked" /\ gate' = gate
          /\ Hits(c, asks[c].found \cup PendingIds) = {}
          /\ asks'[c].link = asks[c].link
       \/ /\ asks[c].step = "checked" /\ asks'[c].step = "planned" /\ gate' = gate
          /\ \/ asks'[c].link = asks[c].link
             \/ \E m \in MemoryIds : Exists(m)
                               /\ asks'[c].link = {Link(Op[c].ids[1], m, "related_to")}

LEMMA LookUpStep ==
    ASSUME TypeInv, NEW c \in Calls, NEW ids, FindAll(c, ids),
           Op[c].kind \in {"forget", "downweight", "feedback", "read", "merge", "relate"},
           Op[c].kind \in {"forget", "downweight", "feedback"} => Op[c].ids[1] \in ids,
           Op[c].kind = "relate" => Op[c].ids[1] # Op[c].ids[2]
    PROVE  ReadsTo(c)
<1>0. asks \in [Calls -> Ask] /\ gate \in Calls \cup {Unset} /\ asks[c].step = "unsent"
  BY Typed DEF TypeInv, FindAll
<1>1. CASE \A m \in ids : Exists(m)
  <2>1. MovesTo(c, "planned") /\ gate' = gate
    BY <1>1 DEF FindAll
  <2> QED BY <1>0, <1>1, <2>1, GoesStep DEF ReadsTo, Steps
<1>2. CASE ~\A m \in ids : Exists(m)
  <2>1. Ends(c, "refused")
    BY <1>2 DEF FindAll
  <2> QED BY <1>0, <2>1, EndsStep DEF ReadsTo, Steps
<1> QED BY <1>1, <1>2

LEMMA DecideStep ==
    ASSUME TypeInv, NEW c \in Calls, NEW ids, Decide(c, ids),
           \/ asks[c].step = "gated" /\ ids = MemoryIds
           \/ asks[c].step = "indexed" /\ ids = asks[c].found \cup PendingIds
    PROVE  ReadsTo(c)
<1>0. asks \in [Calls -> Ask] /\ gate \in Calls \cup {Unset}
  BY Typed DEF TypeInv
<1>1. CASE Hits(c, ids) = {}
  <2>1. MovesTo(c, "checked") /\ gate' = gate
    BY <1>1 DEF Decide
  <2> QED BY <1>0, <1>1, <2>1, GoesStep DEF ReadsTo, Steps
<1>2. CASE Hits(c, ids) # {}
  <2>1. Ends(c, "refused")
    BY <1>2 DEF Decide
  <2> QED BY <1>0, <2>1, EndsStep DEF ReadsTo, Steps
<1> QED BY <1>1, <1>2

LEMMA ReadsStep ==
    ASSUME TypeInv, NEW c \in Calls, Reads(c)
    PROVE  ReadsTo(c)
<1>0. asks \in [Calls -> Ask] /\ gate \in Calls \cup {Unset} /\ Op[c].ids[1] \in Addressed(c)
  <2>1. Op[c].ids \in Seq(MemoryIds) \ {<<>>}
    BY MemoriesAssumption
  <2>2. 1 \in DOMAIN Op[c].ids
    BY <2>1
  <2> QED BY <2>2, Typed DEF TypeInv, Addressed
<1>1. CASE AskForget(c) \/ AskFeedback(c) \/ AskRead(c)
  BY <1>0, <1>1, LookUpStep DEF AskForget, AskFeedback, AskRead
<1>2. CASE AskMerge(c)
  BY <1>2, LookUpStep DEF AskMerge
<1>3. CASE AskRelate(c)
  <2>1. CASE \/ Op[c].ids[1] = Op[c].ids[2]
             \/ Duplicate(edges, Link(Op[c].ids[1], Op[c].ids[2], Op[c].how))
    <3>1. Ends(c, "refused")
      BY <1>3, <2>1 DEF AskRelate
    <3> QED BY <1>0, <3>1, EndsStep DEF ReadsTo, Steps
  <2>2. CASE ~(\/ Op[c].ids[1] = Op[c].ids[2]
               \/ Duplicate(edges, Link(Op[c].ids[1], Op[c].ids[2], Op[c].how)))
    <3>1. Op[c].kind = "relate" /\ FindAll(c, Addressed(c)) /\ Op[c].ids[1] # Op[c].ids[2]
      BY <1>3, <2>2 DEF AskRelate
    <3> QED BY <3>1, LookUpStep
  <2> QED BY <2>1, <2>2
<1>4. CASE TakeGate(c)
  <2>1. CASE Op[c].kind = "update" /\ ~Exists(Op[c].ids[1])
    <3>1. Ends(c, "refused")
      BY <1>4, <2>1 DEF TakeGate
    <3> QED BY <1>0, <3>1, EndsStep DEF ReadsTo, Steps
  <2>2. CASE ~(Op[c].kind = "update" /\ ~Exists(Op[c].ids[1]))
    <3> DEFINE step == IF Op[c].text = Unset THEN "planned" ELSE "gated"
    <3>1. /\ asks[c].step = "unsent" /\ Op[c].kind \in {"add", "update"}
          /\ gate = Unset /\ gate' = c /\ MovesTo(c, step) /\ step \in Steps
      BY <1>4, <2>2 DEF TakeGate, GateFree, Steps
    <3>2. /\ asks' \in [Calls -> Ask] /\ asks'[c].step = step /\ asks'[c].link = asks[c].link
          /\ \A d \in Calls \ {c} : asks'[d] = asks[d]
      <4> HIDE DEF step
      <4> QED BY <1>0, <3>1, GoesStep
    <3> QED BY <3>1, <3>2 DEF ReadsTo
  <2> QED BY <2>1, <2>2
<1>5. CASE ReadIndex(c)
  <2>1. CASE Decide(c, MemoryIds)
    BY <1>5, <2>1, DecideStep DEF ReadIndex
  <2>2. CASE ~Decide(c, MemoryIds)
    <3> DEFINE found == {m \in MemoryIds : index[m].text = Op[c].text}
               r == [asks[c] EXCEPT !.step = "indexed", !.found = found]
    <3>1. /\ asks[c].step = "gated" /\ gate' = gate /\ asks' = [asks EXCEPT ![c] = r]
      BY <1>0, <1>5, <2>2 DEF ReadIndex
    <3>2. r \in Ask /\ r.step = "indexed" /\ r.found = found /\ r.link = asks[c].link
      BY <1>0 DEF Ask, Steps
    <3>3. /\ asks' \in [Calls -> Ask] /\ asks'[c] = r
          /\ \A d \in Calls \ {c} : asks'[d] = asks[d]
      <4> HIDE DEF r
      <4> QED BY <1>0, <3>1, <3>2
    <3> HIDE DEF r
    <3> QED BY <1>0, <3>1, <3>2, <3>3 DEF ReadsTo
  <2> QED BY <2>1, <2>2
<1>6. CASE ReadPending(c)
  BY <1>6, DecideStep DEF ReadPending
<1>7. CASE PlanLink(c)
  <2> DEFINE near == {m \in MemoryIds : Live(m) /\ <<memories[m].text, Op[c].text>> \in Overlap}
  <2>1. asks[c].step = "checked" /\ gate' = gate
    BY <1>7 DEF PlanLink
  <2>2. CASE Op[c].kind = "add" /\ near # {}
    <3>1. PICK m \in near :
             asks' = [asks EXCEPT ![c].step = "planned",
                                  ![c].link = {Link(Op[c].ids[1], m, "related_to")}]
      BY <1>7, <2>2 DEF PlanLink
    <3> DEFINE link == {Link(Op[c].ids[1], m, "related_to")}
               r == [asks[c] EXCEPT !.step = "planned", !.link = link]
    <3>2. m \in MemoryIds /\ Exists(m)
      BY DEF Live, Exists
    <3>3. link \subseteq Edge
      BY <3>2, OpTyped, LinkTyped DEF Mutual
    <3>4. asks' = [asks EXCEPT ![c] = r]
      BY <1>0, <3>1
    <3>5. r \in Ask /\ r.step = "planned" /\ r.link = link
      BY <1>0, <3>3 DEF Ask, Steps
    <3>6. /\ asks' \in [Calls -> Ask] /\ asks'[c] = r
          /\ \A d \in Calls \ {c} : asks'[d] = asks[d]
      <4> HIDE DEF r
      <4> QED BY <1>0, <3>4, <3>5
    <3> HIDE DEF r
    <3> QED BY <1>0, <2>1, <3>2, <3>5, <3>6 DEF ReadsTo
  <2>3. CASE ~(Op[c].kind = "add" /\ near # {})
    <3>1. MovesTo(c, "planned")
      BY <1>7, <2>3 DEF PlanLink
    <3> QED BY <1>0, <2>1, <3>1, GoesStep DEF ReadsTo, Steps
  <2> QED BY <2>2, <2>3
<1> QED BY <1>1, <1>2, <1>3, <1>4, <1>5, <1>6, <1>7 DEF Reads

-----------------------------------------------------------------------------
(* Types.                                                                  *)

\* What a command writes of its request.
CommitsTo(c) ==
    /\ asks' \in [Calls -> Ask]
    /\ \A d \in Calls \ {c} : asks'[d] = asks[d]
    /\ gate' \in Calls \cup {Unset}
    /\ \/ asks[c].step = "planned" /\ Op[c].kind # "boost"
       \/ asks[c].step = "unsent" /\ Op[c].kind = "boost"
       \/ asks[c].step = "accessed"
    /\ \/ /\ asks'[c].step \in {"done", "refused"} /\ asks'[c].link = {}
          /\ gate' = IF gate = c THEN Unset ELSE gate
       \/ /\ asks'[c].step = "accessed" /\ gate' = gate /\ Op[c].kind = "read"
          /\ asks'[c].link = asks[c].link

LEMMA EndsCommits ==
    ASSUME TypeInv, NEW c \in Calls, Ends(c, "done") \/ Ends(c, "refused"),
           \/ asks[c].step = "planned" /\ Op[c].kind # "boost"
           \/ asks[c].step = "unsent" /\ Op[c].kind = "boost"
           \/ asks[c].step = "accessed"
    PROVE  CommitsTo(c)
BY EndsStep, Typed DEF TypeInv, CommitsTo, Steps

LEMMA CommitsStep ==
    ASSUME TypeInv, NEW c \in Calls, Commits(c)
    PROVE  CommitsTo(c)
<1>1. CASE Ends(c, "done") \/ Ends(c, "refused")
  BY <1>1, EndsCommits DEF Commits, AddMemory, UpdateMemory, Feedback, Boost, CoRead, Relate,
     Merge, Forget, Asked
<1>2. CASE ~(Ends(c, "done") \/ Ends(c, "refused"))
  <2>1. Boost(c) /\ Op[c].kind = "read" /\ MovesTo(c, "accessed") /\ gate' = gate
        /\ asks[c].step = "planned"
    BY <1>2 DEF Commits, AddMemory, UpdateMemory, Feedback, Boost, CoRead, Relate,
       Merge, Forget, Asked, Refused
  <2> QED BY <2>1, GoesStep, Typed DEF TypeInv, CommitsTo, Steps
<1> QED BY <1>1, <1>2

LEMMA LevelTyped ==
    ASSUME NEW n \in 0..Full
    PROVE  Up(n) \in 0..Full /\ Down(n) \in 0..Full
BY MemoriesAssumption DEF Up, Down

LEMMA NewLevelTyped ==
    ASSUME NEW c \in Calls, NEW old \in Memory
    PROVE  NewLevel(c, old) \in 0..Full
BY MemoriesAssumption, OpTyped DEF NewLevel, Memory

LEMMA FreshTyped ==
    ASSUME NEW t \in Texts \cup {Unset}
    PROVE  /\ Fresh(t) \in Memory /\ Fresh(t).life = "live" /\ Fresh(t).text = t
           /\ Fresh(t).votes = 0
BY MemoriesAssumption DEF Fresh, Memory, Lives

\* What each command makes of the records.
LEMMA AddMemories ==
    ASSUME TypeInv, NEW c \in Calls, AddMemory(c), ~Refused(c)
    PROVE  LET m == Op[c].ids[1]
           IN  /\ ~Exists(m) /\ m \in MemoryIds /\ Op[c].text \in Texts
               /\ asks[c].step = "planned" /\ Op[c].kind = "add" /\ Ends(c, "done")
               /\ memories' \in [MemoryIds -> Memory]
               /\ memories'[m] = Fresh(Op[c].text)
               /\ \A x \in MemoryIds \ {m} : memories'[x] = memories[x]
               /\ edges' = edges \cup {e \in asks[c].link : ~Duplicate(edges, e)}
               /\ \A e \in asks[c].link : EndpointsLive(memories', e)
               /\ jobs' = jobs \cup {m}
               /\ UNCHANGED <<index, events, merged, missed>>
<1> DEFINE m == Op[c].ids[1]
<1>1. m \in MemoryIds /\ Op[c].text \in Texts
  BY OpTyped, MemoriesAssumption DEF AddMemory, Asked
<1>2. memories \in [MemoryIds -> Memory]
  BY Typed DEF TypeInv
<1>3. Fresh(Op[c].text) \in Memory
  BY <1>1, FreshTyped
<1> QED BY <1>1, <1>2, <1>3 DEF AddMemory, Asked

LEMMA UpdateMemories ==
    ASSUME TypeInv, NEW c \in Calls, UpdateMemory(c), ~Refused(c)
    PROVE  LET m == Op[c].ids[1]
           IN  /\ Live(m) /\ m \in MemoryIds /\ asks[c].step = "planned" /\ Ends(c, "done")
               /\ Op[c].kind \in {"update", "downweight"}
               /\ memories' \in [MemoryIds -> Memory]
               /\ memories'[m].life = "live" /\ memories'[m].votes = memories[m].votes
               /\ memories'[m].text = IF Op[c].text = Unset THEN memories[m].text
                                      ELSE Op[c].text
               /\ memories'[m].level = NewLevel(c, memories[m])
               /\ \A x \in MemoryIds \ {m} : memories'[x] = memories[x]
               /\ jobs' = IF NeedsJob(c, memories[m]) THEN jobs \cup {m} ELSE jobs
               /\ UNCHANGED <<edges, index, events, merged, missed>>
<1> DEFINE m == Op[c].ids[1]
           old == memories[m]
           new == [old EXCEPT !.text = IF Op[c].text = Unset THEN old.text ELSE Op[c].text,
                              !.level = NewLevel(c, old)]
<1>1. m \in MemoryIds /\ Op[c].text \in Texts \cup {Unset}
  BY OpTyped
<1>2. memories \in [MemoryIds -> Memory] /\ old \in Memory
  BY <1>1, Typed DEF TypeInv
<1>3. /\ Live(m) /\ asks[c].step = "planned" /\ Ends(c, "done")
      /\ Op[c].kind \in {"update", "downweight"}
      /\ jobs' = IF NeedsJob(c, memories[m]) THEN jobs \cup {m} ELSE jobs
      /\ UNCHANGED <<edges, index, events, merged, missed>>
  BY DEF UpdateMemory, Asked
<1>4. memories' = [memories EXCEPT ![m] = new]
  BY <1>1, <1>2, <1>3 DEF UpdateMemory
<1>5. NewLevel(c, old) \in 0..Full
  BY <1>2, NewLevelTyped
<1>6. /\ new \in Memory /\ new.life = old.life /\ new.votes = old.votes
      /\ new.text = IF Op[c].text = Unset THEN old.text ELSE Op[c].text
      /\ new.level = NewLevel(c, old)
  BY <1>1, <1>2, <1>5 DEF Memory
<1> HIDE DEF new
<1> QED BY <1>1, <1>2, <1>3, <1>4, <1>6 DEF Live

LEMMA FeedbackMemories ==
    ASSUME TypeInv, NEW c \in Calls, Feedback(c)
    PROVE  LET m == Op[c].ids[1]
           IN  /\ m \in MemoryIds /\ asks[c].step = "planned" /\ Ends(c, "done")
               /\ Op[c].kind = "feedback"
               /\ memories' \in [MemoryIds -> Memory]
               /\ memories'[m].life = memories[m].life
               /\ memories'[m].votes = memories[m].votes + 1
               /\ memories'[m].text = memories[m].text
               /\ \A x \in MemoryIds \ {m} : memories'[x] = memories[x]
               /\ jobs' = jobs \cup {x \in MemoryIds : memories'[x].level # memories[x].level}
               /\ events' = events \cup {<<c, m>>}
               /\ UNCHANGED <<edges, index, merged, missed>>
<1> DEFINE m == Op[c].ids[1]
           old == memories[m]
           level == IF Op[c].how = "useful" THEN Up(old.level) ELSE Down(old.level)
           new == [old EXCEPT !.votes = old.votes + 1, !.level = level]
<1>1. m \in MemoryIds
  BY OpTyped
<1>2. memories \in [MemoryIds -> Memory] /\ old \in Memory
  BY <1>1, Typed DEF TypeInv
<1>3. /\ asks[c].step = "planned" /\ Ends(c, "done") /\ Op[c].kind = "feedback"
      /\ jobs' = jobs \cup {x \in MemoryIds : memories'[x].level # memories[x].level}
      /\ events' = events \cup {<<c, m>>}
      /\ UNCHANGED <<edges, index, merged, missed>>
  BY DEF Feedback, Asked, Releveled, EventOf
<1>4. memories' = [memories EXCEPT ![m] = new]
  BY <1>1, <1>2 DEF Feedback
<1>5. level \in 0..Full
  BY <1>2, LevelTyped DEF Memory
<1>6. /\ new \in Memory /\ new.life = old.life /\ new.text = old.text
      /\ new.votes = old.votes + 1
  <2> DEFINE votes == old.votes + 1
  <2>1. votes \in Nat
    BY <1>2 DEF Memory
  <2> HIDE DEF level, votes
  <2>2. [old EXCEPT !.votes = votes, !.level = level] \in Memory
    BY <1>2, <1>5, <2>1 DEF Memory
  <2>3. new = [old EXCEPT !.votes = votes, !.level = level]
    BY DEF votes
  <2> HIDE DEF new
  <2>4. /\ new.life = old.life /\ new.text = old.text /\ new.votes = votes
    BY <1>2, <2>3 DEF Memory
  <2> QED BY <2>2, <2>3, <2>4 DEF votes
<1> HIDE DEF new
<1> QED BY <1>1, <1>2, <1>3, <1>4, <1>6

LEMMA BoostMemories ==
    ASSUME TypeInv, NEW c \in Calls, Boost(c)
    PROVE  /\ memories' \in [MemoryIds -> Memory]
           /\ \A x \in MemoryIds : /\ memories'[x].life = memories[x].life
                                   /\ memories'[x].votes = memories[x].votes
                                   /\ memories'[x].text = memories[x].text
           /\ jobs' = jobs \cup {x \in MemoryIds : memories'[x].level # memories[x].level}
           /\ UNCHANGED <<edges, index, events, merged, missed>>
<1>1. memories \in [MemoryIds -> Memory]
  BY Typed DEF TypeInv
<1>2. /\ memories' = Boosted(c)
      /\ jobs' = jobs \cup {x \in MemoryIds : memories'[x].level # memories[x].level}
      /\ UNCHANGED <<edges, index, events, merged, missed>>
  BY DEF Boost, Releveled
<1>3. ASSUME NEW x \in MemoryIds
      PROVE  /\ memories'[x] \in Memory /\ memories'[x].life = memories[x].life
             /\ memories'[x].votes = memories[x].votes
             /\ memories'[x].text = memories[x].text
  <2> DEFINE old == memories[x]
             new == [old EXCEPT !.level = Up(old.level)]
  <2>1. old \in Memory /\ Up(old.level) \in 0..Full
    BY <1>1, LevelTyped DEF Memory
  <2>2. new \in Memory /\ new.life = old.life /\ new.votes = old.votes /\ new.text = old.text
    BY <2>1 DEF Memory
  <2>3. memories'[x] = new \/ memories'[x] = old
    BY <1>2 DEF Boosted
  <2> HIDE DEF new
  <2> QED BY <2>1, <2>2, <2>3
<1>4. memories' \in [MemoryIds -> Memory]
  BY <1>2, <1>3 DEF Boosted
<1> QED BY <1>2, <1>3, <1>4

Sources(c) == {Op[c].ids[i] : i \in 2..Len(Op[c].ids)}
Supersedes(c) == {Link(Op[c].ids[1], s, "supersedes") : s \in Sources(c)}

LEMMA SourcesTyped ==
    ASSUME NEW c \in Calls
    PROVE  Sources(c) \subseteq MemoryIds /\ Supersedes(c) \subseteq Edge
<1>1. Sources(c) \subseteq MemoryIds
  <2>1. Op[c].ids \in Seq(MemoryIds)
    BY MemoriesAssumption
  <2> QED BY <2>1 DEF Sources
<1> QED BY <1>1, OpTyped, LinkTyped DEF Supersedes, Supersession

LEMMA MergeMemories ==
    ASSUME TypeInv, NEW c \in Calls, Merge(c), ~Refused(c)
    PROVE  LET r == Op[c].ids[1]
               made == [memories EXCEPT ![r] = Fresh(Op[c].text)]
           IN  /\ r \in MemoryIds /\ ~Exists(r) /\ gate = Unset /\ Op[c].text \in Texts
               /\ asks[c].step = "planned" /\ Op[c].kind = "merge" /\ Ends(c, "done")
               /\ memories' \in [MemoryIds -> Memory]
               /\ memories'[r].text = Op[c].text /\ memories'[r].votes = 0
               /\ \A x \in MemoryIds \ {r} : /\ memories'[x].text = memories[x].text
                                             /\ memories'[x].votes = memories[x].votes
               /\ \A x \in MemoryIds \ ({r} \cup Sources(c)) : memories'[x] = memories[x]
               /\ jobs' = jobs \cup {r} \cup Sources(c)
               /\ merged' = merged \cup {r}
               /\ UNCHANGED <<index, events, missed>>
               /\ \/ /\ \A e \in Supersedes(c) : Valid(made, edges, e)
                     /\ \A x \in MemoryIds : memories'[x].life = made[x].life
                     /\ edges' = edges \cup Supersedes(c)
                  \/ /\ \A x \in Sources(c) : memories'[x].life = "deleted"
                     /\ \A x \in MemoryIds \ Sources(c) : memories'[x].life = made[x].life
                     /\ edges' = {e \in edges : {e.from, e.to} \cap Sources(c) = {}}
<1> DEFINE r == Op[c].ids[1]
           made == [memories EXCEPT ![r] = Fresh(Op[c].text)]
           keep == Op[c].how = "consolidate"
<1>1. /\ asks[c].step = "planned" /\ Op[c].kind = "merge" /\ gate = Unset
      /\ ~Exists(r) /\ (keep => \A e \in Supersedes(c) : Valid(made, edges, e))
      /\ memories' = [m \in MemoryIds |->
             IF m \notin Sources(c) THEN made[m]
             ELSE IF keep THEN [made[m] EXCEPT !.level = 0]
             ELSE [made[m] EXCEPT !.life = "deleted"]]
      /\ edges' = IF keep THEN edges \cup Supersedes(c)
                  ELSE {e \in edges : {e.from, e.to} \cap Sources(c) = {}}
      /\ jobs' = jobs \cup {r} \cup Sources(c)
      /\ merged' = merged \cup {r} /\ Ends(c, "done")
      /\ UNCHANGED <<index, events, missed>>
  BY DEF Merge, Asked, Sources, Supersedes
<1>2. r \in MemoryIds /\ Op[c].text \in Texts
  BY <1>1, OpTyped, MemoriesAssumption
<1>3. made \in [MemoryIds -> Memory] /\ made[r].text = Op[c].text /\ made[r].votes = 0
      /\ \A x \in MemoryIds \ {r} : made[x] = memories[x]
  BY <1>2, FreshTyped, Typed DEF TypeInv
<1> HIDE DEF made
<1>4. ASSUME NEW x \in MemoryIds
      PROVE  /\ memories'[x] \in Memory /\ memories'[x].text = made[x].text
             /\ memories'[x].votes = made[x].votes
             /\ x \notin Sources(c) => memories'[x] = made[x]
             /\ keep => memories'[x].life = made[x].life
             /\ x \in Sources(c) /\ ~keep => memories'[x].life = "deleted"
  <2> DEFINE old == made[x]
  <2>0. old \in Memory
    BY <1>3
  <2> HIDE DEF old
  <2>1. CASE x \notin Sources(c)
    BY <1>1, <2>0, <2>1 DEF old
  <2>2. CASE x \in Sources(c) /\ keep
    <3>1. memories'[x] = [old EXCEPT !.level = 0]
      BY <1>1, <2>2 DEF old
    <3>2. [old EXCEPT !.level = 0] \in Memory
      <4>1. 0 \in 0..Full
        BY MemoriesAssumption
      <4> QED BY <2>0, <4>1 DEF Memory
    <3>3. /\ [old EXCEPT !.level = 0].text = old.text
          /\ [old EXCEPT !.level = 0].votes = old.votes
          /\ [old EXCEPT !.level = 0].life = old.life
      BY <2>0 DEF Memory
    <3> QED BY <2>2, <3>1, <3>2, <3>3 DEF old
  <2>3. CASE x \in Sources(c) /\ ~keep
    <3>1. memories'[x] = [old EXCEPT !.life = "deleted"]
      BY <1>1, <2>3 DEF old
    <3>2. [old EXCEPT !.life = "deleted"] \in Memory
      BY <2>0 DEF Memory, Lives
    <3>3. /\ [old EXCEPT !.life = "deleted"].text = old.text
          /\ [old EXCEPT !.life = "deleted"].votes = old.votes
          /\ [old EXCEPT !.life = "deleted"].life = "deleted"
      BY <2>0 DEF Memory
    <3> QED BY <2>3, <3>1, <3>2, <3>3 DEF old
  <2> QED BY <2>1, <2>2, <2>3
<1>5. memories' \in [MemoryIds -> Memory]
  BY <1>1, <1>4
<1>6. Sources(c) \subseteq MemoryIds
  BY SourcesTyped
<1>7. /\ memories'[r].text = Op[c].text /\ memories'[r].votes = 0
      /\ \A x \in MemoryIds \ {r} : /\ memories'[x].text = memories[x].text
                                    /\ memories'[x].votes = memories[x].votes
      /\ \A x \in MemoryIds \ ({r} \cup Sources(c)) : memories'[x] = memories[x]
  BY <1>2, <1>3, <1>4
<1>8. CASE keep
  <2>1. /\ \A e \in Supersedes(c) : Valid(made, edges, e)
        /\ \A x \in MemoryIds : memories'[x].life = made[x].life
        /\ edges' = edges \cup Supersedes(c)
    BY <1>1, <1>4, <1>8
  <2> HIDE DEF r
  <2> QED BY <1>1, <1>2, <1>5, <1>7, <2>1 DEF made, r
<1>9. CASE ~keep
  <2>1. /\ \A x \in Sources(c) : memories'[x].life = "deleted"
        /\ \A x \in MemoryIds \ Sources(c) : memories'[x].life = made[x].life
        /\ edges' = {e \in edges : {e.from, e.to} \cap Sources(c) = {}}
    BY <1>1, <1>4, <1>6, <1>9
  <2> HIDE DEF r
  <2> QED BY <1>1, <1>2, <1>5, <1>7, <2>1 DEF made, r
<1> QED BY <1>8, <1>9

LEMMA ForgetMemories ==
    ASSUME TypeInv, NEW c \in Calls, Forget(c)
    PROVE  LET m == Op[c].ids[1]
           IN  /\ m \in MemoryIds /\ asks[c].step = "planned" /\ Op[c].kind = "forget"
               /\ Ends(c, "done")
               /\ Op[c].how \in {"invalidated", "archived", "deleted"}
               /\ memories' \in [MemoryIds -> Memory]
               /\ memories'[m].life = Op[c].how
               /\ \A x \in MemoryIds : /\ memories'[x].text = memories[x].text
                                       /\ memories'[x].votes = memories[x].votes
               /\ \A x \in MemoryIds \ {m} : memories'[x] = memories[x]
               /\ edges' = IF Op[c].how = "deleted" THEN Severed(edges, m) ELSE edges
               /\ jobs' = jobs \cup {m}
               /\ UNCHANGED <<index, events, merged, missed>>
<1> DEFINE m == Op[c].ids[1]
           old == memories[m]
           new == [old EXCEPT !.life = Op[c].how]
<1>1. /\ asks[c].step = "planned" /\ Op[c].kind = "forget" /\ Ends(c, "done")
      /\ memories' = [memories EXCEPT ![m] = new]
      /\ edges' = IF Op[c].how = "deleted" THEN Severed(edges, m) ELSE edges
      /\ jobs' = jobs \cup {m}
      /\ UNCHANGED <<index, events, merged, missed>>
  BY DEF Forget, Asked, DeletedEdges
<1>2. m \in MemoryIds /\ Op[c].how \in {"invalidated", "archived", "deleted"}
  BY <1>1, OpTyped, MemoriesAssumption
<1>3. memories \in [MemoryIds -> Memory] /\ old \in Memory
  BY <1>2, Typed DEF TypeInv
<1>4. new \in Memory /\ new.life = Op[c].how /\ new.text = old.text /\ new.votes = old.votes
  BY <1>2, <1>3 DEF Memory, Lives
<1> HIDE DEF new
<1> QED BY <1>1, <1>2, <1>3, <1>4

LEMMA ShownTyped ==
    ASSUME TypeInv, NEW m \in MemoryIds
    PROVE  Projected(m) \in Row \cup {NoRow}
BY Typed DEF TypeInv, LiveHasText, Projected, Row, Memory

LEMMA TypeInit == Init => TypeInv
<1> SUFFICES ASSUME Init PROVE TypeInv
  OBVIOUS
<1>1. [Fresh(Unset) EXCEPT !.life = "none"] \in Memory
  BY FreshTyped DEF Memory, Lives
<1>2. memories \in [MemoryIds -> Memory]
  BY <1>1 DEF Init
<1>3. \A m \in MemoryIds : memories[m].life = "none"
  BY FreshTyped DEF Init, Memory
<1>4. asks \in [Calls -> Ask]
  BY DEF Init, Unasked, Ask, Steps
<1> QED BY <1>2, <1>3, <1>4 DEF Init, TypeInv, MemoriesTypeOK, LiveHasText, Live, Ask, Steps

LEMMA TypeCommits ==
    ASSUME TypeInv, NEW c \in Calls, Commits(c)
    PROVE  TypeInv'
<1>0. /\ asks' \in [Calls -> Ask] /\ gate' \in Calls \cup {Unset}
  BY CommitsStep DEF CommitsTo
<1>1. /\ memories' \in [MemoryIds -> Memory] /\ LiveHasText'
      /\ edges' \subseteq Edge /\ jobs' \subseteq MemoryIds /\ merged' \subseteq MemoryIds
      /\ index' = index /\ events' \subseteq Calls \X MemoryIds /\ missed' = missed
  <2>0. /\ memories \in [MemoryIds -> Memory] /\ LiveHasText
        /\ edges \subseteq Edge /\ jobs \subseteq MemoryIds /\ merged \subseteq MemoryIds
        /\ events \subseteq Calls \X MemoryIds /\ Op[c].ids[1] \in MemoryIds
        /\ Op[c].text \in Texts \cup {Unset} /\ asks[c].link \subseteq Edge
    BY Typed, OpTyped DEF TypeInv, Ask
  <2>1. CASE Refused(c)
    BY <2>0, <2>1 DEF Refused, Canon, LiveHasText, Live
  <2>2. CASE AddMemory(c) /\ ~Refused(c)
    BY <2>0, <2>2, AddMemories, FreshTyped DEF LiveHasText, Live
  <2>3. CASE UpdateMemory(c) /\ ~Refused(c)
    BY <2>0, <2>3, UpdateMemories DEF LiveHasText, Live
  <2>4. CASE Feedback(c)
    BY <2>0, <2>4, FeedbackMemories DEF LiveHasText, Live
  <2>5. CASE Boost(c)
    BY <2>0, <2>5, BoostMemories DEF LiveHasText, Live
  <2>6. CASE CoRead(c)
    <3>1. PICK star \in Stars(c) : edges' = edges \cup {e \in star : Valid(memories, edges, e)}
      BY <2>6 DEF CoRead
    <3>2. star \subseteq Edge
      BY OpTyped, LinkTyped DEF Stars, Mutual
    <3> QED BY <2>0, <2>6, <3>1, <3>2 DEF CoRead, LiveHasText, Live
  <2>7. CASE Relate(c) /\ ~Refused(c)
    <3>1. Op[c].kind = "relate"
      BY <2>7 DEF Relate, Asked
    <3>2. Op[c].ids[2] \in MemoryIds /\ Op[c].how \in Mutual \cup Supersession
      BY <3>1, MemoriesAssumption
    <3>3. Link(Op[c].ids[1], Op[c].ids[2], Op[c].how) \in Edge
      BY <2>0, <3>2, LinkTyped
    <3> QED BY <2>0, <2>7, <3>3 DEF Relate, LiveHasText, Live
  <2>8. CASE Merge(c) /\ ~Refused(c)
    <3> DEFINE r == Op[c].ids[1]
               made == [memories EXCEPT ![r] = Fresh(Op[c].text)]
    <3>1. /\ memories' \in [MemoryIds -> Memory] /\ memories'[r].text \in Texts
          /\ \A x \in MemoryIds \ {r} : memories'[x].text = memories[x].text
          /\ jobs' = jobs \cup {r} \cup Sources(c) /\ merged' = merged \cup {r}
          /\ UNCHANGED <<index, events, missed>>
          /\ edges' \subseteq edges \cup Supersedes(c)
          /\ \A x \in MemoryIds : memories'[x].life \in {made[x].life, "deleted"}
      BY <2>8, MergeMemories
    <3>2. \A x \in MemoryIds \ {r} : made[x] = memories[x]
      BY <2>0
    <3> HIDE DEF made
    <3>3. LiveHasText'
      BY <2>0, <3>1, <3>2 DEF LiveHasText, Live
    <3> QED BY <2>0, <3>1, <3>3, SourcesTyped
  <2>9. CASE Forget(c)
    BY <2>0, <2>9, ForgetMemories DEF LiveHasText, Live, Severed
  <2> QED BY <2>1, <2>2, <2>3, <2>4, <2>5, <2>6, <2>7, <2>8, <2>9 DEF Commits
<1> QED BY <1>0, <1>1, Typed DEF TypeInv, MemoriesTypeOK, Ask, Steps

LEMMA TypeNext == TypeInv /\ [Next]_memvars => TypeInv'
<1> SUFFICES ASSUME TypeInv, [Next]_memvars PROVE TypeInv'
  OBVIOUS
<1>1. ASSUME NEW c \in Calls, Tool(c) PROVE TypeInv'
  <2>1. CASE Reads(c)
    <3>1. asks' \in [Calls -> Ask] /\ gate' \in Calls \cup {Unset}
      BY <2>1, ReadsStep DEF ReadsTo
    <3> QED BY <2>1, <3>1, ReadsKeep DEF TypeInv, MemoriesTypeOK, LiveHasText, Live, Ask, Steps
  <2>2. CASE Commits(c)
    BY <2>2, TypeCommits
  <2> QED BY <1>1, <2>1, <2>2 DEF Tool, Reads, Commits
<1>2. ASSUME NEW m \in MemoryIds, Project(m) PROVE TypeInv'
  <2>1. index' \in [MemoryIds -> Row \cup {NoRow}]
    BY <1>2, ShownTyped, Typed DEF TypeInv, Project
  <2> QED BY <1>2, <2>1 DEF Project, TypeInv, MemoriesTypeOK, LiveHasText, Live
<1>3. CASE UNCHANGED memvars
  BY <1>3 DEF memvars, TypeInv, MemoriesTypeOK, LiveHasText, Live
<1> QED BY <1>1, <1>2, <1>3 DEF Next

\* Records, edges, jobs, rows, events and what each request has read keep their types, for
\* any memories, texts and calls.
THEOREM MemoriesTypeCorrect == Spec => []MemoriesTypeOK
<1>1. TypeInv => MemoriesTypeOK
  BY DEF TypeInv
<1> QED BY <1>1, TypeInit, TypeNext, PTL DEF Spec

-----------------------------------------------------------------------------
(* What a request knows at each of its steps.                              *)

LEMMA ExistsStays ==
    ASSUME TypeInv, [Next]_memvars, NEW m \in MemoryIds, Exists(m)
    PROVE  memories'[m].life # "none"
<1>1. CASE memories' = memories
  BY <1>1 DEF Exists
<1>2. ASSUME NEW c \in Calls, Commits(c), memories' # memories
      PROVE  memories'[m].life # "none"
  <2>0. ~Refused(c)
    BY <1>2 DEF Refused, Canon
  <2>1. CASE AddMemory(c)
    BY <2>0, <2>1, AddMemories, FreshTyped DEF Exists
  <2>2. CASE UpdateMemory(c)
    BY <2>0, <2>2, UpdateMemories DEF Exists
  <2>3. CASE Feedback(c)
    BY <2>3, FeedbackMemories DEF Exists
  <2>4. CASE Boost(c)
    BY <2>4, BoostMemories DEF Exists
  <2>5. CASE Merge(c)
    <3>0. /\ memories \in [MemoryIds -> Memory] /\ Op[c].ids[1] \in MemoryIds
          /\ Op[c].text \in Texts \cup {Unset}
      BY Typed, OpTyped DEF TypeInv
    <3> DEFINE made == [memories EXCEPT ![Op[c].ids[1]] = Fresh(Op[c].text)]
    <3>1. memories'[m].life \in {made[m].life, "deleted"}
      BY <2>0, <2>5, MergeMemories
    <3>2. made[m].life # "none"
      BY <3>0, FreshTyped DEF Exists
    <3> QED BY <3>1, <3>2
  <2>6. CASE Forget(c)
    BY <2>6, ForgetMemories DEF Exists
  <2>7. CASE CoRead(c) \/ Relate(c)
    BY <1>2, <2>0, <2>7 DEF CoRead, Relate
  <2> QED BY <1>2, <2>1, <2>2, <2>3, <2>4, <2>5, <2>6, <2>7 DEF Commits
<1> QED BY <1>1, <1>2, ReadsKeep DEF Next, Tool, Reads, Commits, Project, memvars

\* The gate is held from before a scan to the commit; what was looked up is there; what is
\* linked comes from the new memory and leads to one that was there.
StepInv(c) ==
    /\ asks[c].step \in {"gated", "indexed", "checked"} =>
          Op[c].kind \in {"add", "update"} /\ Op[c].text # Unset
    /\ asks[c].step \in {"gated", "indexed", "checked", "planned"} /\ Op[c].kind \in {"add", "update"} =>
          gate = c
    /\ asks[c].step = "planned" /\ Op[c].kind \in {"feedback", "forget", "downweight"} =>
          Exists(Op[c].ids[1])
    /\ asks[c].step = "planned" /\ Op[c].kind = "relate" => Op[c].ids[1] # Op[c].ids[2]
    /\ \A e \in asks[c].link :
          e.from = Op[c].ids[1] /\ e.type = "related_to" /\ Exists(e.to) /\ e.to \in MemoryIds
StepsInv == \A c \in Calls : StepInv(c)

LEMMA StepsInit == Init => StepsInv
<1> SUFFICES ASSUME Init, NEW c \in Calls PROVE StepInv(c)
  BY DEF StepsInv
<1>1. asks[c].step \in {"unsent", "refused"} /\ asks[c].link = {}
  BY DEF Init, Unasked
<1> QED BY <1>1 DEF StepInv

\* A call that does not move keeps what it knows.
LEMMA StepKept ==
    ASSUME TypeInv, StepsInv, [Next]_memvars, NEW d \in Calls, asks'[d] = asks[d],
           gate = d => gate' = d
    PROVE  StepInv(d)'
<1>1. StepInv(d) /\ Op[d].ids[1] \in MemoryIds
  BY OpTyped DEF StepsInv
<1>2. \A m \in MemoryIds : Exists(m) => Exists(m)'
  BY ExistsStays DEF Exists
<1> QED BY <1>1, <1>2 DEF StepInv

LEMMA StepsNext == TypeInv /\ StepsInv /\ [Next]_memvars => StepsInv'
<1> SUFFICES ASSUME TypeInv, StepsInv, [Next]_memvars, NEW d \in Calls PROVE StepInv(d)'
  BY DEF StepsInv
<1>0. \A m \in MemoryIds : Exists(m) => Exists(m)'
  BY ExistsStays DEF Exists
<1>a. StepInv(d) /\ Op[d].ids[1] \in MemoryIds /\ Op[d].kind \in Kinds
  BY OpTyped DEF StepsInv
<1>n. Unset \notin Calls
  BY MemoriesAssumption
<1>1. ASSUME NEW c \in Calls, Reads(c) PROVE StepInv(d)'
  <2>1. ReadsTo(c)
    BY <1>1, ReadsStep
  <2>2. CASE d # c
    BY <1>n, <2>1, <2>2, StepKept DEF ReadsTo
  <2>3. CASE d = c
    <3>k. memories' = memories
      BY <1>1, ReadsKeep
    <3>1. CASE asks'[c].step = "refused" /\ asks'[c].link = {}
      BY <2>3, <3>1 DEF StepInv
    <3>2. CASE /\ asks[c].step = "unsent" /\ asks'[c].step = "planned"
               /\ asks'[c].link = asks[c].link
               /\ Op[c].kind \in {"forget", "downweight", "feedback", "read", "merge", "relate"}
               /\ Op[c].kind \in {"forget", "downweight", "feedback"} => Exists(Op[c].ids[1])
               /\ Op[c].kind = "relate" => Op[c].ids[1] # Op[c].ids[2]
      BY <1>0, <1>a, <2>3, <3>2 DEF StepInv
    <3>3. CASE /\ asks[c].step = "unsent" /\ Op[c].kind \in {"add", "update"}
               /\ gate' = c /\ asks'[c].link = asks[c].link
               /\ asks'[c].step = IF Op[c].text = Unset THEN "planned" ELSE "gated"
      BY <1>0, <1>a, <2>3, <3>3 DEF StepInv
    <3>4. CASE /\ asks[c].step \in {"gated", "indexed"} /\ asks'[c].step \in {"indexed", "checked"}
               /\ gate' = gate /\ asks'[c].link = asks[c].link
      BY <1>0, <1>a, <2>3, <3>4 DEF StepInv
    <3>5. CASE /\ asks[c].step = "checked" /\ asks'[c].step = "planned" /\ gate' = gate
               /\ \/ asks'[c].link = asks[c].link
                  \/ \E m \in MemoryIds : Exists(m)
                                    /\ asks'[c].link = {Link(Op[c].ids[1], m, "related_to")}
      <4>1. \A e \in asks'[c].link :
               e.from = Op[c].ids[1] /\ e.type = "related_to" /\ Exists(e.to)' /\ e.to \in MemoryIds
        BY <1>0, <1>a, <2>3, <3>5, LinkTyped DEF StepInv, Mutual
      <4>2. Op[c].kind \in {"add", "update"} /\ gate' = c
        BY <1>a, <2>3, <3>5 DEF StepInv
      <4> QED BY <2>3, <3>5, <4>1, <4>2 DEF StepInv
    <3> QED BY <2>1, <3>1, <3>2, <3>3, <3>4, <3>5 DEF ReadsTo
  <2> QED BY <2>2, <2>3
<1>2. ASSUME NEW c \in Calls, Commits(c) PROVE StepInv(d)'
  <2>1. CommitsTo(c)
    BY <1>2, CommitsStep
  <2>2. CASE d # c
    BY <1>n, <2>1, <2>2, StepKept DEF CommitsTo
  <2>3. CASE d = c
    BY <1>0, <1>a, <2>1, <2>3 DEF CommitsTo, StepInv
  <2> QED BY <2>2, <2>3
<1>3. CASE (\E m \in MemoryIds : Project(m)) \/ UNCHANGED memvars
  BY <1>3, StepKept DEF Project, memvars
<1> QED BY <1>1, <1>2, <1>3 DEF Next, Tool, Reads, Commits

-----------------------------------------------------------------------------
(* What a command leaves beside the record agrees with it.                 *)

RowsAgree == \A m \in MemoryIds \ jobs : index[m] = Projected(m)

\* A call has one event at most, once it is done.
CountInv ==
    /\ IsFiniteSet(events)
    /\ \A e \in events : asks[e[1]].step = "done" /\ Exists(e[2])
    /\ \A m \in MemoryIds : memories[m].votes = Cardinality({e \in events : e[2] = m})

LEMMA AgreeInit == Init => RowsAgree /\ CountInv
<1> SUFFICES ASSUME Init PROVE RowsAgree /\ CountInv
  OBVIOUS
<1>1. \A m \in MemoryIds : memories[m].life = "none" /\ memories[m].votes = 0
  BY FreshTyped DEF Init, Memory
<1>2. events = {} /\ jobs = {} /\ \A m \in MemoryIds : index[m] = NoRow
  BY DEF Init
<1>3. \A m \in MemoryIds : {e \in events : e[2] = m} = {}
  BY <1>2
<1>4. RowsAgree
  BY <1>1, <1>2 DEF RowsAgree, Projected, Live
<1> QED BY <1>1, <1>2, <1>3, <1>4, FS_EmptySet DEF CountInv

LEMMA RowsNext == TypeInv /\ RowsAgree /\ [Next]_memvars => RowsAgree'
<1> SUFFICES ASSUME TypeInv, RowsAgree, [Next]_memvars, NEW m \in MemoryIds, m \notin jobs'
             PROVE  index'[m] = Projected(m)'
  BY DEF RowsAgree
<1>0. m \notin jobs => index[m] = Projected(m)
  BY DEF RowsAgree
<1>k. ASSUME m \notin jobs, index'[m] = index[m], memories'[m].life = memories[m].life,
             memories'[m].text = memories[m].text, memories'[m].level = memories[m].level
      PROVE  index'[m] = Projected(m)'
  BY <1>0, <1>k DEF Projected, Live
<1>1. CASE memories'[m] = memories[m] /\ index' = index /\ jobs \subseteq jobs'
  BY <1>1, <1>k
<1>2. ASSUME NEW c \in Calls, Commits(c) PROVE index'[m] = Projected(m)'
  <2>1. CASE Refused(c)
    BY <1>1, <2>1 DEF Refused, Canon
  <2>2. CASE AddMemory(c) /\ ~Refused(c)
    BY <1>1, <2>2, AddMemories
  <2>3. CASE UpdateMemory(c) /\ ~Refused(c)
    BY <1>1, <1>k, <2>3, UpdateMemories DEF Live, NeedsJob
  <2>4. CASE Feedback(c)
    BY <1>1, <1>k, <2>4, FeedbackMemories
  <2>5. CASE Boost(c)
    BY <1>k, <2>5, BoostMemories
  <2>6. CASE Merge(c) /\ ~Refused(c)
    BY <1>1, <2>6, MergeMemories
  <2>7. CASE Forget(c)
    BY <1>1, <2>7, ForgetMemories
  <2>8. CASE (CoRead(c) \/ Relate(c)) /\ ~Refused(c)
    BY <1>1, <2>8 DEF CoRead, Relate
  <2> QED BY <1>2, <2>1, <2>2, <2>3, <2>4, <2>5, <2>6, <2>7, <2>8 DEF Commits
<1>3. ASSUME NEW x \in MemoryIds, Project(x) PROVE index'[m] = Projected(m)'
  <2>1. memories' = memories /\ index' = [index EXCEPT ![x] = Projected(x)] /\ jobs' = jobs \ {x}
    BY <1>3 DEF Project
  <2>2. Projected(m)' = Projected(m)
    BY <2>1 DEF Projected, Live
  <2>3. index \in [MemoryIds -> Row \cup {NoRow}]
    BY Typed DEF TypeInv
  <2> QED BY <1>0, <2>1, <2>2, <2>3
<1> QED BY <1>1, <1>2, <1>3, ReadsKeep DEF Next, Tool, Reads, Commits, memvars

LEMMA EventsOf ==
    ASSUME IsFiniteSet(events), NEW m
    PROVE  /\ IsFiniteSet({e \in events : e[2] = m})
           /\ Cardinality({e \in events : e[2] = m}) \in Nat
<1>1. {e \in events : e[2] = m} \subseteq events
  OBVIOUS
<1>2. IsFiniteSet({e \in events : e[2] = m})
  BY <1>1, FS_Subset
<1> QED BY <1>2, FS_CardinalityType

\* Steps that leave the events leave the count of what was there; nothing counts what
\* was not.
LEMMA CountKept ==
    ASSUME TypeInv, CountInv, [Next]_memvars, events' = events,
           \A c \in Calls : asks[c].step = "done" => asks'[c].step = "done",
           \A m \in MemoryIds : \/ memories'[m].votes = memories[m].votes
                                \/ ~Exists(m) /\ memories'[m].votes = 0
    PROVE  CountInv'
<1>0. events \subseteq Calls \X MemoryIds
  BY Typed DEF TypeInv
<1>1. \A e \in events : asks'[e[1]].step = "done" /\ Exists(e[2])'
  BY <1>0, ExistsStays DEF CountInv, Exists
<1>2. ASSUME NEW m \in MemoryIds, ~Exists(m) PROVE {e \in events : e[2] = m} = {}
  BY <1>2 DEF CountInv
<1>3. \A m \in MemoryIds : memories'[m].votes = Cardinality({e \in events : e[2] = m})
  BY <1>2, FS_EmptySet DEF CountInv
<1> QED BY <1>1, <1>3 DEF CountInv

LEMMA CountNext == TypeInv /\ StepsInv /\ CountInv /\ [Next]_memvars => CountInv'
<1> SUFFICES ASSUME TypeInv, StepsInv, CountInv, [Next]_memvars PROVE CountInv'
  OBVIOUS
<1>1. ASSUME NEW c \in Calls, Reads(c) PROVE CountInv'
  <2>1. ReadsTo(c)
    BY <1>1, ReadsStep
  <2>2. \A d \in Calls : asks[d].step = "done" => asks'[d].step = "done"
    <3>1. asks[c].step # "done"
      BY <1>1 DEF Reads, AskForget, AskFeedback, AskRead, AskMerge, AskRelate, TakeGate,
         ReadIndex, ReadPending, PlanLink, FindAll
    <3> QED BY <2>1, <3>1 DEF ReadsTo
  <2> QED BY <1>1, <2>2, CountKept, ReadsKeep
<1>2. ASSUME NEW c \in Calls, Commits(c) PROVE CountInv'
  <2>0. /\ asks[c].step # "done"
        /\ \A d \in Calls : asks[d].step = "done" => asks'[d].step = "done"
    BY <1>2, CommitsStep DEF CommitsTo
  <2>1. CASE Refused(c)
    BY <2>0, <2>1, CountKept DEF Refused, Canon
  <2>2. CASE AddMemory(c) /\ ~Refused(c)
    <3>1. /\ events' = events /\ ~Exists(Op[c].ids[1])
          /\ memories'[Op[c].ids[1]].votes = 0
          /\ \A x \in MemoryIds \ {Op[c].ids[1]} : memories'[x] = memories[x]
      BY <2>2, AddMemories, FreshTyped
    <3> QED BY <2>0, <3>1, CountKept
  <2>3. CASE UpdateMemory(c) /\ ~Refused(c)
    <3>1. events' = events /\ \A x \in MemoryIds : memories'[x].votes = memories[x].votes
      BY <2>3, UpdateMemories
    <3> QED BY <2>0, <3>1, CountKept
  <2>4. CASE Feedback(c)
    <3> DEFINE m == Op[c].ids[1]
               old(x) == {e \in events : e[2] = x}
               new(x) == {e \in events' : e[2] = x}
    <3>1. /\ m \in MemoryIds /\ asks[c].step = "planned" /\ Ends(c, "done") /\ Op[c].kind = "feedback"
          /\ memories'[m].votes = memories[m].votes + 1
          /\ \A x \in MemoryIds \ {m} : memories'[x] = memories[x]
          /\ events' = events \cup {<<c, m>>}
      BY <2>4, FeedbackMemories
    <3>2. IsFiniteSet(events) /\ events \subseteq Calls \X MemoryIds
      BY Typed DEF CountInv, TypeInv
    <3>3. IsFiniteSet(events')
      BY <3>1, <3>2, FS_AddElement
    <3>4. asks'[c].step = "done"
      BY <3>1, EndsStep, Typed DEF TypeInv, Steps
    <3>5. Exists(m)
      BY <3>1 DEF StepsInv, StepInv
    <3>6. \A e \in events' : asks'[e[1]].step = "done" /\ Exists(e[2])'
      <4>1. \A e \in events : asks'[e[1]].step = "done" /\ Exists(e[2])'
        BY <2>0, <3>2, ExistsStays DEF CountInv, Exists
      <4> QED BY <3>1, <3>4, <3>5, <4>1, ExistsStays DEF Exists
    <3>7. ASSUME NEW x \in MemoryIds PROVE memories'[x].votes = Cardinality(new(x))
      <4>1. CASE x = m
        <5>1. new(x) = old(x) \cup {<<c, m>>}
          BY <3>1, <4>1
        <5>2. <<c, m>> \notin old(x)
          BY <3>1 DEF CountInv
        <5>3. Cardinality(new(x)) = Cardinality(old(x)) + 1
          <6> HIDE DEF old, new
          <6>1. IsFiniteSet(old(x))
            BY <3>2, EventsOf DEF old
          <6> QED BY <5>1, <5>2, <6>1, FS_AddElement
        <5> QED BY <3>1, <4>1, <5>3 DEF CountInv
      <4>2. CASE x # m
        <5>1. new(x) = old(x)
          BY <3>1, <4>2
        <5> QED BY <3>1, <4>2, <5>1 DEF CountInv
      <4> QED BY <4>1, <4>2
    <3> QED BY <3>3, <3>6, <3>7 DEF CountInv
  <2>5. CASE Boost(c)
    BY <2>0, <2>5, BoostMemories, CountKept
  <2>6. CASE Merge(c) /\ ~Refused(c)
    <3>1. /\ events' = events /\ ~Exists(Op[c].ids[1])
          /\ memories'[Op[c].ids[1]].votes = 0
          /\ \A x \in MemoryIds \ {Op[c].ids[1]} : memories'[x].votes = memories[x].votes
      BY <2>6, MergeMemories
    <3> QED BY <2>0, <3>1, CountKept
  <2>7. CASE Forget(c)
    <3>1. events' = events /\ \A x \in MemoryIds : memories'[x].votes = memories[x].votes
      BY <2>7, ForgetMemories
    <3> QED BY <2>0, <3>1, CountKept
  <2>8. CASE (CoRead(c) \/ Relate(c)) /\ ~Refused(c)
    BY <2>0, <2>8, CountKept DEF CoRead, Relate
  <2> QED BY <1>2, <2>1, <2>2, <2>3, <2>4, <2>5, <2>6, <2>7, <2>8 DEF Commits
<1>3. CASE (\E m \in MemoryIds : Project(m)) \/ UNCHANGED memvars
  BY <1>3, CountKept DEF Project, memvars
<1> QED BY <1>1, <1>2, <1>3 DEF Next, Tool, Reads, Commits

\* Whatever commands do to a record, the search table shows it or a job is there, and
\* its votes are its feedback events.
THEOREM RecordsAlwaysAgree == Spec => []RecordsAgree
<1> DEFINE Inv == TypeInv /\ StepsInv /\ RowsAgree /\ CountInv
<1>1. Init => Inv
  BY TypeInit, StepsInit, AgreeInit
<1>2. Inv /\ [Next]_memvars => Inv'
  BY TypeNext, StepsNext, RowsNext, CountNext
<1>3. Inv => RecordsAgree
  BY DEF RowsAgree, CountInv, RecordsAgree
<1> HIDE DEF Inv
<1> QED BY <1>1, <1>2, <1>3, PTL DEF Spec

-----------------------------------------------------------------------------
(* Chains of supersession.                                                 *)

\* A set that supersessions do not lead out of.
Closed(es, S) == \A p \in Stored(es) : p[1] \in S => p[2] \in S

\* For every supersession some closed set has its target and not its source.
Acyclic(es) ==
    \A p \in Stored(es) : \E S \in SUBSET MemoryIds : p[2] \in S /\ Closed(es, S) /\ p[1] \notin S

LEMMA StoredTyped ==
    ASSUME NEW es \in SUBSET Edge
    PROVE  \A p \in Stored(es) : p[1] \in MemoryIds /\ p[2] \in MemoryIds
BY DEF Stored, Edge

LEMMA ReachByClosed ==
    ASSUME NEW es, NEW a, NEW b \in MemoryIds
    PROVE  b \notin Reach(es, a)
              <=> \E S \in SUBSET MemoryIds : a \in S /\ Closed(es, S) /\ b \notin S
BY DEF Reach, Closed

LEMMA AcyclicIsSound ==
    ASSUME NEW es \in SUBSET Edge, Acyclic(es)
    PROVE  \A p \in Stored(es) : p[1] \notin Reach(es, p[2])
<1> SUFFICES ASSUME NEW p \in Stored(es) PROVE p[1] \notin Reach(es, p[2])
  OBVIOUS
<1>1. p[1] \in MemoryIds
  BY StoredTyped
<1>2. \E S \in SUBSET MemoryIds : p[2] \in S /\ Closed(es, S) /\ p[1] \notin S
  BY DEF Acyclic
<1> QED BY <1>1, <1>2, ReachByClosed

LEMMA FewerAreAcyclic ==
    ASSUME NEW es, NEW fs, Stored(fs) \subseteq Stored(es), Acyclic(es)
    PROVE  Acyclic(fs)
BY DEF Acyclic, Closed

LEMMA StoredOfMore ==
    ASSUME NEW es, NEW new
    PROVE  /\ Stored(es \cup new) = Stored(es) \cup Stored(new)
           /\ (\A e \in new : e.type \notin Supersession) => Stored(new) = {}
BY DEF Stored

LEMMA StoredOfOne ==
    ASSUME NEW e, e.type \in Supersession
    PROVE  Stored({e}) = {<<e.from, e.to>>}
BY DEF Stored

\* A supersession whose target does not lead to its source.
LEMMA OneMoreIsAcyclic ==
    ASSUME NEW es \in SUBSET Edge, Acyclic(es), NEW e \in Edge, e.type \in Supersession,
           ~MakesCycle(es, e)
    PROVE  Acyclic(es \cup {e})
<1>0. /\ e.from \in MemoryIds /\ e.to \in MemoryIds
      /\ Stored(es \cup {e}) = Stored(es) \cup {<<e.from, e.to>>}
  <2>1. Stored({e}) = {<<e.from, e.to>>}
    BY StoredOfOne
  <2>2. Stored(es \cup {e}) = Stored(es) \cup Stored({e})
    BY StoredOfMore
  <2> QED BY <2>1, <2>2 DEF Edge
<1>1. PICK S \in SUBSET MemoryIds : e.to \in S /\ Closed(es, S) /\ e.from \notin S
  BY <1>0, ReachByClosed DEF MakesCycle
<1>2. Closed(es \cup {e}, S)
  BY <1>0, <1>1 DEF Closed
<1>3. ASSUME NEW p \in Stored(es)
      PROVE  \E T \in SUBSET MemoryIds : p[2] \in T /\ Closed(es \cup {e}, T) /\ p[1] \notin T
  <2>1. PICK T \in SUBSET MemoryIds : p[2] \in T /\ Closed(es, T) /\ p[1] \notin T
    BY DEF Acyclic
  <2>2. CASE e.from \notin T
    <3>1. Closed(es \cup {e}, T)
      BY <1>0, <2>1, <2>2 DEF Closed
    <3> QED BY <2>1, <3>1
  <2>3. CASE e.from \in T /\ p[1] \in S
    <3>1. ASSUME NEW q \in Stored(es), q[1] \in T \cap S PROVE q[2] \in T \cap S
      BY <1>1, <2>1, <3>1 DEF Closed
    <3>2. Closed(es \cup {e}, T \cap S)
      BY <1>0, <1>1, <3>1 DEF Closed
    <3>3. p[2] \in T \cap S /\ p[1] \notin T \cap S
      BY <1>1, <2>1, <2>3 DEF Closed
    <3> QED BY <3>2, <3>3
  <2>4. CASE e.from \in T /\ p[1] \notin S
    <3>1. ASSUME NEW q \in Stored(es), q[1] \in T \cup S PROVE q[2] \in T \cup S
      BY <1>1, <2>1, <3>1 DEF Closed
    <3>2. Closed(es \cup {e}, T \cup S)
      BY <1>0, <1>1, <3>1 DEF Closed
    <3>3. p[2] \in T \cup S /\ p[1] \notin T \cup S
      BY <1>1, <2>1, <2>4 DEF Closed
    <3> QED BY <3>2, <3>3
  <2> QED BY <2>2, <2>3, <2>4
<1>4. ASSUME NEW p \in {<<e.from, e.to>>}
      PROVE  \E T \in SUBSET MemoryIds : p[2] \in T /\ Closed(es \cup {e}, T) /\ p[1] \notin T
  BY <1>1, <1>2
<1> QED BY <1>0, <1>3, <1>4 DEF Acyclic

\* Supersessions of a memory that nothing leads to.
LEMMA FanIsAcyclic ==
    ASSUME NEW es \in SUBSET Edge, Acyclic(es), NEW new \in SUBSET Edge, NEW r \in MemoryIds,
           \A e \in es : e.from # r /\ e.to # r,
           \A e \in new : e.from = r /\ e.to # r
    PROVE  Acyclic(es \cup new)
<1>0. /\ Stored(es \cup new) = Stored(es) \cup Stored(new)
      /\ \A p \in Stored(es) : p[1] # r /\ p[2] # r
      /\ \A p \in Stored(new) : p[1] = r /\ p[2] # r /\ p[2] \in MemoryIds
  BY StoredOfMore, StoredTyped DEF Stored
<1>1. ASSUME NEW p \in Stored(es)
      PROVE  \E T \in SUBSET MemoryIds : p[2] \in T /\ Closed(es \cup new, T) /\ p[1] \notin T
  <2>1. PICK T \in SUBSET MemoryIds : p[2] \in T /\ Closed(es, T) /\ p[1] \notin T
    BY DEF Acyclic
  <2>2. Closed(es \cup new, T \ {r}) /\ p[2] \in T \ {r} /\ p[1] \notin T \ {r}
    BY <1>0, <2>1 DEF Closed
  <2> QED BY <2>2
<1>2. ASSUME NEW p \in Stored(new)
      PROVE  \E T \in SUBSET MemoryIds : p[2] \in T /\ Closed(es \cup new, T) /\ p[1] \notin T
  <2>1. Closed(es \cup new, MemoryIds \ {r}) /\ p[2] \in MemoryIds \ {r} /\ p[1] \notin MemoryIds \ {r}
    BY <1>0, StoredTyped DEF Closed
  <2> QED BY <2>1
<1> QED BY <1>0, <1>1, <1>2 DEF Acyclic

-----------------------------------------------------------------------------
(* The graph.                                                              *)

Stands(m) == memories[m].life \notin {"none", "deleted"}
EndsStand == \A e \in edges : Stands(e.from) /\ Stands(e.to)
OneWay(es) == \A e \in es : e.type \in Mutual => Link(e.to, e.from, e.type) \notin es
GraphInv == EndsStand /\ OneWay(edges) /\ Acyclic(edges)

LEMMA FewerAreOneWay ==
    ASSUME NEW es, NEW fs \in SUBSET es, OneWay(es)
    PROVE  OneWay(fs) /\ Stored(fs) \subseteq Stored(es)
BY DEF OneWay, Stored

LEMMA LinkOfEnds ==
    ASSUME NEW e \in Edge
    PROVE  /\ e = Link(e.from, e.to, e.type)
           /\ Link(e.to, e.from, e.type) \in Edge
           /\ Link(e.to, e.from, e.type).from = e.to
           /\ Link(e.to, e.from, e.type).to = e.from
           /\ Link(e.to, e.from, e.type).type = e.type
BY DEF Edge, Link

LEMMA MoreAreOneWay ==
    ASSUME NEW es \in SUBSET Edge, OneWay(es), NEW new \in SUBSET Edge,
           NEW a, \A e \in new : e.from = a /\ e.to # a /\ ~Duplicate(es, e)
    PROVE  OneWay(es \cup new)
<1> SUFFICES ASSUME NEW e \in es \cup new, e.type \in Mutual,
                    Link(e.to, e.from, e.type) \in es \cup new
             PROVE  FALSE
  BY DEF OneWay
<1> DEFINE back == Link(e.to, e.from, e.type)
<1>1. e \in Edge /\ back \in Edge /\ back.from = e.to /\ back.to = e.from /\ back.type = e.type
  BY LinkOfEnds
<1>2. e = Link(back.to, back.from, back.type)
  BY <1>1, LinkOfEnds
<1>3. CASE e \in es /\ back \in es
  BY <1>3 DEF OneWay
<1>4. CASE e \in new /\ back \in es
  BY <1>4 DEF Duplicate
<1>5. CASE e \in es /\ back \in new
  <2> HIDE DEF back
  <2> QED BY <1>1, <1>2, <1>5 DEF Duplicate
<1>6. CASE e \in new /\ back \in new
  BY <1>1, <1>6
<1> QED BY <1>3, <1>4, <1>5, <1>6

LEMMA GraphInit == Init => GraphInv
BY DEF Init, GraphInv, EndsStand, OneWay, Acyclic, Stored

LEMMA GraphKept ==
    ASSUME GraphInv, edges' = edges,
           \A m \in MemoryIds : Stands(m) => Stands(m)', edges \subseteq Edge
    PROVE  GraphInv'
<1>1. EndsStand'
  BY DEF GraphInv, EndsStand, Edge
<1> QED BY <1>1 DEF GraphInv

\* Edges that are no supersessions, from one memory to others.
LEMMA GraphLinked ==
    ASSUME GraphInv, edges \subseteq Edge, NEW new \in SUBSET Edge, edges' = edges \cup new,
           \A m \in MemoryIds : Stands(m) => Stands(m)',
           NEW a, \A e \in new : /\ e.from = a /\ e.to # a /\ ~Duplicate(edges, e)
                                 /\ e.type = "related_to"
                                 /\ Stands(e.from)' /\ Stands(e.to)'
    PROVE  GraphInv'
<1>1. EndsStand'
  BY DEF GraphInv, EndsStand, Edge
<1>2. OneWay(edges')
  BY MoreAreOneWay DEF GraphInv
<1>3. Stored(edges') = Stored(edges)
  <2>1. Stored(new) = {}
    BY StoredOfMore DEF Supersession
  <2> QED BY <2>1, StoredOfMore
<1>4. Acyclic(edges')
  BY <1>3, FewerAreAcyclic DEF GraphInv
<1> QED BY <1>1, <1>2, <1>4 DEF GraphInv

LEMMA GraphNext == TypeInv /\ StepsInv /\ GraphInv /\ [Next]_memvars => GraphInv'
<1> SUFFICES ASSUME TypeInv, StepsInv, GraphInv, [Next]_memvars PROVE GraphInv'
  OBVIOUS
<1>0. edges \subseteq Edge /\ memories \in [MemoryIds -> Memory]
  BY Typed DEF TypeInv
<1>1. CASE edges' = edges /\ memories' = memories
  BY <1>0, <1>1, GraphKept DEF Stands
<1>2. ASSUME NEW c \in Calls, Commits(c) PROVE GraphInv'
  <2>0. Op[c].ids[1] \in MemoryIds /\ Addressed(c) \subseteq MemoryIds /\ asks[c].link \subseteq Edge
    BY OpTyped, Typed DEF TypeInv, Ask
  <2>1. CASE Refused(c)
    BY <1>1, <2>1 DEF Refused, Canon
  <2>2. CASE AddMemory(c) /\ ~Refused(c)
    <3> DEFINE m == Op[c].ids[1]
               new == {e \in asks[c].link : ~Duplicate(edges, e)}
    <3>1. /\ ~Exists(m) /\ memories'[m] = Fresh(Op[c].text)
          /\ Op[c].text \in Texts
          /\ \A x \in MemoryIds \ {m} : memories'[x] = memories[x]
          /\ edges' = edges \cup new
          /\ \A e \in asks[c].link : EndpointsLive(memories', e)
      BY <2>2, AddMemories
    <3>2. \A e \in new : e.from = m /\ e.to # m /\ e.type = "related_to"
      BY <3>1 DEF StepsInv, StepInv
    <3>3. \A e \in new : Stands(e.from)' /\ Stands(e.to)'
      BY <3>1 DEF EndpointsLive, Stands
    <3>4. \A x \in MemoryIds : Stands(x) => Stands(x)'
      BY <3>1, FreshTyped DEF Stands
    <3>5. new \subseteq Edge /\ \A e \in new : ~Duplicate(edges, e)
      BY <2>0
    <3> HIDE DEF new
    <3> QED BY <1>0, <3>1, <3>2, <3>3, <3>4, <3>5, GraphLinked
  <2>3. CASE UpdateMemory(c) /\ ~Refused(c)
    BY <1>0, <2>3, UpdateMemories, GraphKept DEF Stands, Live
  <2>4. CASE Feedback(c)
    BY <1>0, <2>4, FeedbackMemories, GraphKept DEF Stands
  <2>5. CASE Boost(c)
    BY <1>0, <2>5, BoostMemories, GraphKept DEF Stands
  <2>6. CASE CoRead(c)
    <3>1. PICK star \in Stars(c) : edges' = edges \cup {e \in star : Valid(memories, edges, e)}
      BY <2>6 DEF CoRead
    <3>2. PICK top \in Addressed(c) : star = {Link(top, m, "related_to") : m \in Addressed(c) \ {top}}
      BY DEF Stars
    <3> DEFINE new == {e \in star : Valid(memories, edges, e)}
    <3>3. ASSUME NEW e \in new
          PROVE  /\ e \in Edge /\ e.from = top /\ e.to # top /\ e.type = "related_to"
                 /\ ~Duplicate(edges, e) /\ Stands(e.from) /\ Stands(e.to)
      <4>1. PICK m \in Addressed(c) \ {top} : e = Link(top, m, "related_to")
        BY <3>2
      <4>2. e \in Edge /\ e.from = top /\ e.to # top /\ e.type = "related_to"
        BY <2>0, <4>1, LinkTyped DEF Mutual
      <4>3. EndpointsLive(memories, e) /\ ~Duplicate(edges, e)
        BY DEF Valid
      <4> QED BY <4>2, <4>3 DEF EndpointsLive, Stands
    <3>4. edges' = edges \cup new /\ new \subseteq Edge /\ memories' = memories
      BY <2>6, <3>1, <3>3 DEF CoRead
    <3> HIDE DEF new
    <3> QED BY <1>0, <3>3, <3>4, GraphLinked DEF Stands
  <2>7. CASE Relate(c) /\ ~Refused(c)
    <3> DEFINE e == Link(Op[c].ids[1], Op[c].ids[2], Op[c].how)
    <3>1. /\ Asked(c, "planned", "relate") /\ Valid(memories, edges, e)
          /\ edges' = edges \cup {e} /\ memories' = memories
      BY <2>7 DEF Relate
    <3>2. Op[c].ids[2] \in MemoryIds /\ Op[c].how \in Mutual \cup Supersession
      BY <3>1, MemoriesAssumption DEF Asked
    <3>3. /\ e \in Edge /\ e.from = Op[c].ids[1] /\ e.to = Op[c].ids[2] /\ e.type = Op[c].how
      BY <2>0, <3>2, LinkTyped
    <3>4. e.from # e.to
      BY <3>1, <3>3 DEF Asked, StepsInv, StepInv
    <3>5. Stands(e.from)' /\ Stands(e.to)' /\ ~Duplicate(edges, e)
      BY <3>1 DEF Valid, EndpointsLive, Stands
    <3> HIDE DEF e
    <3>6. EndsStand'
      BY <3>1, <3>5 DEF GraphInv, EndsStand, Stands
    <3>7. OneWay(edges')
      BY <1>0, <3>1, <3>3, <3>4, <3>5, MoreAreOneWay DEF GraphInv
    <3>8. Acyclic(edges')
      <4>1. CASE e.type \in Supersession
        BY <1>0, <3>1, <3>3, <4>1, OneMoreIsAcyclic DEF Valid, GraphInv
      <4>2. CASE e.type \notin Supersession
        <5>1. Stored({e}) = {}
          BY <4>2, StoredOfMore
        <5>2. Stored(edges') = Stored(edges)
          BY <3>1, <5>1, StoredOfMore
        <5> QED BY <5>2, FewerAreAcyclic DEF GraphInv
      <4> QED BY <4>1, <4>2
    <3> QED BY <3>6, <3>7, <3>8 DEF GraphInv
  <2>8. CASE Merge(c) /\ ~Refused(c)
    <3> DEFINE r == Op[c].ids[1]
               made == [memories EXCEPT ![r] = Fresh(Op[c].text)]
    <3>0. /\ r \in MemoryIds /\ ~Exists(r) /\ Op[c].text \in Texts
          /\ \/ /\ \A e \in Supersedes(c) : Valid(made, edges, e)
                /\ \A x \in MemoryIds : memories'[x].life = made[x].life
                /\ edges' = edges \cup Supersedes(c)
             \/ /\ \A x \in Sources(c) : memories'[x].life = "deleted"
                /\ \A x \in MemoryIds \ Sources(c) : memories'[x].life = made[x].life
                /\ edges' = {e \in edges : {e.from, e.to} \cap Sources(c) = {}}
      BY <2>8, MergeMemories
    <3>1. made[r].life = "live" /\ \A x \in MemoryIds \ {r} : made[x] = memories[x]
      BY <1>0, <3>0, FreshTyped
    <3>2. \A e \in edges : e.from # r /\ e.to # r /\ e.from \in MemoryIds /\ e.to \in MemoryIds
      BY <1>0, <3>0 DEF GraphInv, EndsStand, Stands, Exists, Edge
    <3>3. CASE /\ \A e \in Supersedes(c) : Valid(made, edges, e)
               /\ \A x \in MemoryIds : memories'[x].life = made[x].life
               /\ edges' = edges \cup Supersedes(c)
      <4>1. ASSUME NEW e \in Supersedes(c)
            PROVE  /\ e \in Edge /\ e.from = r /\ e.to # r /\ ~Duplicate(edges, e)
                   /\ made[e.from].life = "live" /\ made[e.to].life = "live"
        <5>1. e.from = r /\ e.type = "supersedes" /\ e \in Edge
          <6>1. PICK s \in Sources(c) : e = Link(r, s, "supersedes")
            BY DEF Supersedes
          <6> QED BY <2>0, <6>1, SourcesTyped, LinkTyped DEF Supersession
        <5>2. Valid(made, edges, e)
          BY <3>3
        <5> HIDE DEF made, r
        <5> QED BY <5>1, <5>2 DEF Valid, EndpointsLive, Supersession
      <4>2. ASSUME NEW e \in edges' PROVE Stands(e.from)' /\ Stands(e.to)'
        <5>1. CASE e \in edges
          <6>1. Stands(e.from) /\ Stands(e.to)
            BY <5>1 DEF GraphInv, EndsStand
          <6> QED BY <3>1, <3>2, <3>3, <5>1, <6>1 DEF Stands
        <5>2. CASE e \in Supersedes(c)
          <6>1. e.from \in MemoryIds /\ e.to \in MemoryIds
            BY <4>1, <5>2 DEF Edge
          <6> QED BY <3>3, <4>1, <5>2, <6>1 DEF Stands
        <5> QED BY <3>3, <5>1, <5>2
      <4>3. Supersedes(c) \subseteq Edge
        BY <4>1
      <4> HIDE DEF made, r
      <4>4. OneWay(edges')
        BY <1>0, <3>3, <4>1, <4>3, MoreAreOneWay DEF GraphInv
      <4>5. Acyclic(edges')
        <5>1. /\ edges \in SUBSET Edge /\ Acyclic(edges) /\ r \in MemoryIds
              /\ edges' = edges \cup Supersedes(c)
          BY <1>0, <3>0, <3>3 DEF GraphInv
        <5>2. /\ \A e \in edges : e.from # r /\ e.to # r
              /\ \A e \in Supersedes(c) : e.from = r /\ e.to # r
          BY <3>2, <4>1
        <5> QED BY <4>3, <5>1, <5>2, FanIsAcyclic
      <4> QED BY <4>2, <4>4, <4>5 DEF GraphInv, EndsStand
    <3>4. CASE /\ \A x \in MemoryIds \ Sources(c) : memories'[x].life = made[x].life
               /\ edges' = {e \in edges : {e.from, e.to} \cap Sources(c) = {}}
      <4>1. ASSUME NEW e \in edges' PROVE Stands(e.from)' /\ Stands(e.to)'
        <5>1. e \in edges /\ e.from \notin Sources(c) /\ e.to \notin Sources(c)
          BY <3>4
        <5>2. Stands(e.from) /\ Stands(e.to)
          BY <5>1 DEF GraphInv, EndsStand
        <5> QED BY <3>1, <3>2, <3>4, <5>1, <5>2 DEF Stands
      <4>2. OneWay(edges') /\ Acyclic(edges')
        BY <3>4, FewerAreOneWay, FewerAreAcyclic DEF GraphInv
      <4> QED BY <4>1, <4>2 DEF GraphInv, EndsStand
    <3> QED BY <3>0, <3>3, <3>4
  <2>9. CASE Forget(c)
    <3> DEFINE m == Op[c].ids[1]
    <3>1. /\ memories'[m].life = Op[c].how
          /\ Op[c].how \in {"invalidated", "archived", "deleted"}
          /\ \A x \in MemoryIds \ {m} : memories'[x] = memories[x]
          /\ edges' = IF Op[c].how = "deleted" THEN Severed(edges, m) ELSE edges
      BY <2>9, ForgetMemories
    <3>2. CASE Op[c].how = "deleted"
      <4>1. edges' \subseteq edges /\ \A e \in edges' : e.from # m /\ e.to # m
        BY <3>1, <3>2 DEF Severed
      <4>2. EndsStand'
        BY <1>0, <3>1, <4>1 DEF GraphInv, EndsStand, Stands, Edge
      <4>3. OneWay(edges') /\ Acyclic(edges')
        BY <4>1, FewerAreOneWay, FewerAreAcyclic DEF GraphInv
      <4> QED BY <4>2, <4>3 DEF GraphInv
    <3>3. CASE Op[c].how # "deleted"
      BY <1>0, <3>1, <3>3, GraphKept DEF Stands
    <3> QED BY <3>2, <3>3
  <2> QED BY <1>2, <2>1, <2>2, <2>3, <2>4, <2>5, <2>6, <2>7, <2>8, <2>9 DEF Commits
<1> QED BY <1>1, <1>2, ReadsKeep DEF Next, Tool, Reads, Commits, Project, memvars

\* No edge leads to a deleted memory, a symmetric relation is there once, and no chain of
\* supersessions comes back, whatever was planned before what.
THEOREM GraphAlwaysSound == Spec => []GraphIsSound
<1> DEFINE Inv == TypeInv /\ StepsInv /\ GraphInv
<1>1. Init => Inv
  BY TypeInit, StepsInit, GraphInit
<1>2. Inv /\ [Next]_memvars => Inv'
  BY TypeNext, StepsNext, GraphNext
<1>3. Inv => GraphIsSound
  <2> SUFFICES ASSUME TypeInv, GraphInv PROVE GraphIsSound
    OBVIOUS
  <2>1. \A p \in Stored(edges) : p[1] \notin Reach(edges, p[2])
    BY AcyclicIsSound, Typed DEF GraphInv, TypeInv
  <2>2. \A e \in edges : \A m \in {e.from, e.to} : memories[m].life \notin {"none", "deleted"}
    BY DEF GraphInv, EndsStand, Stands
  <2> QED BY <2>1, <2>2 DEF GraphInv, OneWay, GraphIsSound
<1> HIDE DEF Inv
<1> QED BY <1>1, <1>2, <1>3, PTL DEF Spec

-----------------------------------------------------------------------------
(* The gate.                                                               *)

HasText(m, t) == Live(m) /\ memories[m].text = t

\* What a scan has not refused: the live memories with the text are known to the scan
\* while it reads, and none is left when it has read, but those projected meanwhile and
\* the one that is updated.
ScanInv(c) ==
    /\ asks[c].step = "indexed" =>
          \A m \in MemoryIds : HasText(m, Op[c].text) => m \in asks[c].found \cup jobs \cup missed
    /\ asks[c].step \in {"checked", "planned"} /\ Op[c].kind \in {"add", "update"}
          /\ Op[c].text # Unset =>
          \A m \in MemoryIds : HasText(m, Op[c].text) =>
              m \in missed \/ (Op[c].kind = "update" /\ m = Op[c].ids[1])
ScansInv == \A c \in Calls : ScanInv(c)

\* A memory is live with a text after a command that was so before, or that got the text
\* under the gate, or from a merge that waited for the gate.
LEMMA TextSteps ==
    ASSUME TypeInv, StepsInv, NEW d \in Calls, Commits(d)
    PROVE  /\ jobs \subseteq jobs' /\ missed' = missed /\ merged \subseteq merged'
           /\ \A m \in MemoryIds : Live(m)' =>
                 \/ Live(m) /\ memories'[m].text = memories[m].text
                 \/ /\ gate = d /\ asks[d].step = "planned" /\ Op[d].kind \in {"add", "update"}
                    /\ Op[d].text # Unset /\ m = Op[d].ids[1] /\ memories'[m].text = Op[d].text
                 \/ gate = Unset /\ m \in merged'
<1>0. memories \in [MemoryIds -> Memory] /\ Unset \notin Texts
  BY Typed, MemoriesAssumption DEF TypeInv
<1>g. asks[d].step = "planned" /\ Op[d].kind \in {"add", "update"} => gate = d
  BY DEF StepsInv, StepInv
<1>1. CASE Refused(d)
  BY <1>1 DEF Refused, Canon, Live
<1>2. CASE AddMemory(d) /\ ~Refused(d)
  BY <1>0, <1>2, <1>g, AddMemories, FreshTyped DEF Live
<1>3. CASE UpdateMemory(d) /\ ~Refused(d)
  <2>1. Op[d].kind = "downweight" => Op[d].text = Unset
    BY MemoriesAssumption
  <2> QED BY <1>3, <1>g, <2>1, UpdateMemories DEF Live
<1>4. CASE Feedback(d)
  BY <1>4, FeedbackMemories DEF Live
<1>5. CASE Boost(d)
  BY <1>5, BoostMemories DEF Live
<1>6. CASE Merge(d) /\ ~Refused(d)
  <2> DEFINE r == Op[d].ids[1]
             made == [memories EXCEPT ![r] = Fresh(Op[d].text)]
  <2>1. /\ r \in MemoryIds /\ gate = Unset
        /\ \A x \in MemoryIds \ {r} : memories'[x].text = memories[x].text
        /\ jobs' = jobs \cup {r} \cup Sources(d)
        /\ merged' = merged \cup {r} /\ missed' = missed
        /\ \A x \in MemoryIds : memories'[x].life \in {made[x].life, "deleted"}
    BY <1>6, MergeMemories
  <2>2. \A x \in MemoryIds \ {r} : made[x] = memories[x]
    BY <1>0
  <2> HIDE DEF made
  <2> QED BY <2>1, <2>2 DEF Live
<1>7. CASE Forget(d)
  BY <1>7, ForgetMemories DEF Live
<1>8. CASE (CoRead(d) \/ Relate(d)) /\ ~Refused(d)
  BY <1>8 DEF CoRead, Relate, Live
<1> QED BY <1>1, <1>2, <1>3, <1>4, <1>5, <1>6, <1>7, <1>8 DEF Commits

LEMMA ScansInit == Init => ScansInv /\ TwinsOnlyWhenMissed
<1> SUFFICES ASSUME Init PROVE ScansInv /\ TwinsOnlyWhenMissed
  OBVIOUS
<1>1. \A c \in Calls : asks[c].step \in {"unsent", "refused"}
  BY DEF Init, Unasked
<1>2. \A m \in MemoryIds : ~Live(m)
  BY FreshTyped DEF Init, Memory, Live
<1> QED BY <1>1, <1>2 DEF ScansInv, ScanInv, TwinsOnlyWhenMissed, Twins

LEMMA ScansNext == TypeInv /\ StepsInv /\ RowsAgree /\ ScansInv /\ [Next]_memvars => ScansInv'
<1> SUFFICES ASSUME TypeInv, StepsInv, RowsAgree, ScansInv, [Next]_memvars, NEW c \in Calls
             PROVE  ScanInv(c)'
  BY DEF ScansInv
<1>0. ScanInv(c) /\ StepInv(c) /\ Unset \notin Calls /\ Unset \notin Texts
      /\ Op[c].text \in Texts \cup {Unset}
  BY OpTyped, MemoriesAssumption DEF ScansInv, StepsInv
<1>k. ASSUME asks'[c] = asks[c], missed \subseteq missed', jobs \subseteq jobs',
             \A m \in MemoryIds : HasText(m, Op[c].text)' => HasText(m, Op[c].text)
      PROVE  ScanInv(c)'
  BY <1>0, <1>k DEF ScanInv
<1>1. ASSUME NEW d \in Calls, Reads(d) PROVE ScanInv(c)'
  <2>0. UNCHANGED <<memories, jobs, missed>>
    BY <1>1, ReadsKeep
  <2>1. ReadsTo(d)
    BY <1>1, ReadsStep
  <2>2. \A m \in MemoryIds : HasText(m, Op[c].text)' <=> HasText(m, Op[c].text)
    BY <2>0 DEF HasText, Live
  <2>3. CASE c # d
    BY <1>k, <2>0, <2>1, <2>2, <2>3 DEF ReadsTo
  <2>4. CASE c = d
    <3>1. CASE asks'[c].step = "refused"
      BY <3>1 DEF ScanInv
    <3>2. CASE asks[c].step = "unsent" /\ asks'[c].step \in {"planned", "gated"}
               /\ (Op[c].kind \in {"add", "update"} /\ asks'[c].step = "planned" =>
                      Op[c].text = Unset)
      BY <3>2 DEF ScanInv
    <3>3. CASE /\ asks[c].step = "gated" /\ asks'[c].step = "indexed"
               /\ asks'[c].found = {m \in MemoryIds : index[m].text = Op[c].text}
      <4>1. ASSUME NEW m \in MemoryIds, HasText(m, Op[c].text), m \notin jobs
            PROVE  m \in asks'[c].found
        <5>1. index[m] = Projected(m)
          BY <4>1 DEF RowsAgree
        <5>2. Projected(m).text = Op[c].text
          BY <4>1 DEF Projected, HasText
        <5> QED BY <3>3, <5>1, <5>2
      <4> QED BY <2>0, <2>2, <3>3, <4>1 DEF ScanInv
    <3>4. CASE /\ asks[c].step = "gated" /\ asks'[c].step = "checked"
               /\ Hits(c, MemoryIds) = {}
      BY <2>2, <3>4 DEF ScanInv, Hits, HasText
    <3>5. CASE /\ asks[c].step = "indexed" /\ asks'[c].step = "checked"
               /\ Hits(c, asks[c].found \cup PendingIds) = {}
      <4>1. ASSUME NEW m \in MemoryIds, HasText(m, Op[c].text), m \notin missed
            PROVE  Op[c].kind = "update" /\ m = Op[c].ids[1]
        <5>1. m \in asks[c].found \cup PendingIds
          BY <1>0, <3>5, <4>1 DEF ScanInv, PendingIds, HasText
        <5> QED BY <3>5, <4>1, <5>1 DEF Hits, HasText
      <4> QED BY <2>0, <2>2, <3>5, <4>1 DEF ScanInv
    <3>6. CASE asks[c].step = "checked" /\ asks'[c].step = "planned"
      BY <1>0, <2>0, <2>2, <3>6 DEF ScanInv
    <3> QED BY <2>1, <2>4, <3>1, <3>2, <3>3, <3>4, <3>5, <3>6 DEF ReadsTo
  <2> QED BY <2>3, <2>4
<1>2. ASSUME NEW d \in Calls, Commits(d) PROVE ScanInv(c)'
  <2>1. CommitsTo(d)
    BY <1>2, CommitsStep
  <2>2. CASE c = d
    BY <2>1, <2>2 DEF CommitsTo, ScanInv
  <2>3. CASE c # d /\ gate = c
    <3>1. \A m \in MemoryIds : HasText(m, Op[c].text)' => HasText(m, Op[c].text)
      BY <1>0, <1>2, <2>3, TextSteps DEF HasText
    <3>2. asks'[c] = asks[c] /\ missed \subseteq missed' /\ jobs \subseteq jobs'
      BY <1>2, <2>1, <2>3, TextSteps DEF CommitsTo
    <3> QED BY <1>k, <3>1, <3>2
  <2>4. CASE c # d /\ gate # c
    <3>1. asks'[c] = asks[c]
      BY <2>1, <2>4 DEF CommitsTo
    <3> QED BY <1>0, <2>4, <3>1 DEF ScanInv, StepInv
  <2> QED BY <2>2, <2>3, <2>4
<1>3. ASSUME NEW x \in MemoryIds, Project(x) PROVE ScanInv(c)'
  <2>1. \A m \in MemoryIds : HasText(m, Op[c].text)' <=> HasText(m, Op[c].text)
    BY <1>3 DEF Project, HasText, Live
  <2>2. asks' = asks /\ missed \subseteq missed' /\ jobs' = jobs \ {x}
        /\ (asks[c].step = "indexed" => x \in missed')
    BY <1>3 DEF Project
  <2> QED BY <1>0, <2>1, <2>2 DEF ScanInv
<1>4. CASE UNCHANGED memvars
  BY <1>k, <1>4 DEF memvars, HasText, Live
<1> QED BY <1>1, <1>2, <1>3, <1>4 DEF Next, Tool, Reads, Commits

LEMMA TwinsNext ==
    TypeInv /\ StepsInv /\ ScansInv /\ TwinsOnlyWhenMissed /\ [Next]_memvars
       => TwinsOnlyWhenMissed'
<1> SUFFICES ASSUME TypeInv, StepsInv, ScansInv, TwinsOnlyWhenMissed, [Next]_memvars,
                    NEW p \in Twins'
             PROVE  {p[1], p[2]} \cap missed' # {}
  BY DEF TwinsOnlyWhenMissed
<1>0. /\ p[1] \in MemoryIds /\ p[2] \in MemoryIds /\ p[1] # p[2] /\ Live(p[1])' /\ Live(p[2])'
      /\ memories'[p[1]].text = memories'[p[2]].text
      /\ p[1] \notin merged' /\ p[2] \notin merged' /\ p \in MemoryIds \X MemoryIds
  BY DEF Twins
<1>1. ASSUME Live(p[1]), Live(p[2]), memories[p[1]].text = memories[p[2]].text,
             merged \subseteq merged', missed \subseteq missed'
      PROVE  {p[1], p[2]} \cap missed' # {}
  <2>1. p \in Twins
    BY <1>0, <1>1 DEF Twins
  <2> QED BY <1>1, <2>1 DEF TwinsOnlyWhenMissed
<1>2. CASE memories' = memories /\ merged' = merged /\ missed \subseteq missed'
  BY <1>0, <1>1, <1>2 DEF Live
<1>3. ASSUME NEW d \in Calls, Commits(d) PROVE {p[1], p[2]} \cap missed' # {}
  <2> DEFINE Kept(m) == Live(m) /\ memories'[m].text = memories[m].text
             Given(m) == /\ gate = d /\ asks[d].step = "planned"
                         /\ Op[d].kind \in {"add", "update"} /\ Op[d].text # Unset
                         /\ m = Op[d].ids[1] /\ memories'[m].text = Op[d].text
  <2>1. missed' = missed /\ merged \subseteq merged'
    BY <1>3, TextSteps
  <2>2. (Kept(p[1]) \/ Given(p[1])) /\ (Kept(p[2]) \/ Given(p[2]))
    BY <1>0, <1>3, TextSteps
  <2>3. ASSUME NEW m \in MemoryIds, NEW x \in MemoryIds, Given(m), Kept(x), x # m,
               memories'[m].text = memories'[x].text
        PROVE  x \in missed
    <3>1. HasText(x, Op[d].text)
      BY <2>3 DEF HasText
    <3> QED BY <2>3, <3>1 DEF ScansInv, ScanInv
  <2>4. CASE Kept(p[1]) /\ Kept(p[2])
    BY <1>0, <1>1, <2>1, <2>4
  <2>5. CASE Given(p[1]) /\ Kept(p[2])
    <3>1. p[2] \in missed
      BY <1>0, <2>3, <2>5
    <3> QED BY <2>1, <3>1
  <2>6. CASE Kept(p[1]) /\ Given(p[2])
    <3>1. p[1] \in missed
      BY <1>0, <2>3, <2>6
    <3> QED BY <2>1, <3>1
  <2>7. CASE Given(p[1]) /\ Given(p[2])
    BY <1>0, <2>7
  <2> QED BY <2>2, <2>4, <2>5, <2>6, <2>7
<1> QED BY <1>2, <1>3, ReadsKeep DEF Next, Tool, Reads, Commits, Project, memvars

\* Of two live memories with one text, neither the result of a merge, one was projected
\* between the two reads of a scan.
THEOREM TwinsAreMissed == Spec => []TwinsOnlyWhenMissed
<1> DEFINE Inv == TypeInv /\ StepsInv /\ RowsAgree /\ ScansInv /\ TwinsOnlyWhenMissed
<1>1. Init => Inv
  BY TypeInit, StepsInit, AgreeInit, ScansInit
<1>2. Inv /\ [Next]_memvars => Inv'
  BY TypeNext, StepsNext, RowsNext, ScansNext, TwinsNext
<1>3. Inv => TwinsOnlyWhenMissed
  OBVIOUS
<1> HIDE DEF Inv
<1> QED BY <1>1, <1>2, <1>3, PTL DEF Spec

-----------------------------------------------------------------------------
(* The reference interpreter.  Its store follows the service's until a      *)
(* command comes that the two are known to take differently.               *)

\* What a merge was found to merge is there.
SourcesFound ==
    \A c \in Calls : asks[c].step = "planned" /\ Op[c].kind = "merge" =>
        \A s \in Sources(c) : Exists(s)

LEMMA SourcesInit == Init => SourcesFound
BY DEF Init, SourcesFound, Unasked

\* The sources of a merge are what it names besides its result.
LEMMA SourcesAddressed ==
    ASSUME NEW c \in Calls, Op[c].kind = "merge"
    PROVE  Sources(c) = Addressed(c) \ {Op[c].ids[1]}
<1>1. /\ Op[c].ids \in Seq(MemoryIds) \ {<<>>}
      /\ \A i \in 2..Len(Op[c].ids) : Op[c].ids[i] # Op[c].ids[1]
  BY MemoriesAssumption
<1>2. DOMAIN Op[c].ids = 1..Len(Op[c].ids) /\ Len(Op[c].ids) \in Nat
  BY <1>1
<1> QED BY <1>1, <1>2 DEF Sources, Addressed

LEMMA SourcesNext == TypeInv /\ StepsInv /\ SourcesFound /\ [Next]_memvars => SourcesFound'
<1> SUFFICES ASSUME TypeInv, StepsInv, SourcesFound, [Next]_memvars, NEW d \in Calls,
                    asks'[d].step = "planned", Op[d].kind = "merge"
             PROVE  \A s \in Sources(d) : Exists(s)'
  BY DEF SourcesFound
<1>1. Sources(d) \subseteq MemoryIds
  BY SourcesTyped
<1>2. ASSUME \A s \in Sources(d) : Exists(s) PROVE \A s \in Sources(d) : Exists(s)'
  BY <1>1, <1>2, ExistsStays DEF Exists
<1>3. CASE asks[d].step = "planned"
  BY <1>2, <1>3 DEF SourcesFound
<1>4. CASE asks[d].step # "planned"
  <2>1. AskMerge(d)
    <3>1. ASSUME NEW c \in Calls, Commits(c) PROVE FALSE
      BY <1>4, <3>1, CommitsStep DEF CommitsTo
    <3>2. ASSUME NEW c \in Calls, Reads(c) PROVE AskMerge(d)
      <4>1. d = c
        BY <1>4, <3>2, ReadsStep DEF ReadsTo
      <4>2. asks[d].step \notin {"gated", "indexed", "checked"}
        BY DEF StepsInv, StepInv
      <4> QED BY <3>2, <4>1, <4>2 DEF Reads, AskForget, AskFeedback, AskRead, AskRelate, TakeGate,
                 ReadIndex, ReadPending, PlanLink
    <3> QED BY <1>4, <3>1, <3>2 DEF Next, Tool, Reads, Commits, Project, memvars
  <2>2. \A s \in Addressed(d) \ {Op[d].ids[1]} : Exists(s)
    <3>1. ~Ends(d, "refused")
      BY EndsStep, Typed DEF TypeInv, Steps
    <3> QED BY <2>1, <3>1 DEF AskMerge, FindAll
  <2> QED BY <1>2, <2>2, SourcesAddressed
<1> QED BY <1>3, <1>4

-----------------------------------------------------------------------------
(* The two stores.                                                         *)

\* What the interpreter has is there; what is live is live and the same in both; and a
\* relation of one of them only has an end that is not live.
Alike ==
    /\ reference \in [MemoryIds -> Memory]
    /\ \A m \in MemoryIds : Has(m) => Exists(m)
    /\ \A m \in MemoryIds : Live(m) <=> reference[m].life = "live"
    /\ \A m \in MemoryIds : Live(m) => memories[m] = reference[m]
Related ==
    /\ relations \subseteq Edge /\ edges \subseteq relations
    /\ \A e \in relations : Has(e.from) /\ Has(e.to)
    /\ \A e \in relations : EndpointsLive(memories, e) => e \in edges
Follows == Alike /\ Related /\ ~differed

\* An edge has live ends in both or in neither.
LEMMA SameEnds ==
    ASSUME Alike, NEW e \in Edge
    PROVE  EndpointsLive(memories, e) <=> EndpointsLive(reference, e)
BY DEF Alike, EndpointsLive, Live, Edge

\* An edge between live memories is a duplicate in both or in neither.
LEMMA SameDuplicates ==
    ASSUME Alike, Related, NEW e \in Edge, EndpointsLive(memories, e)
    PROVE  Duplicate(edges, e) <=> Duplicate(relations, e)
<1>1. Duplicate(edges, e) => Duplicate(relations, e)
  BY DEF Duplicate, Related
<1>2. CASE e \in relations
  BY <1>2 DEF Duplicate, Related
<1>3. CASE e.type \in Mutual /\ Link(e.to, e.from, e.type) \in relations
  <2>1. /\ e.to \in MemoryIds /\ e.from \in MemoryIds /\ e.type \in Mutual \cup Supersession
    BY DEF Edge
  <2>2. EndpointsLive(memories, Link(e.to, e.from, e.type))
    BY <2>1, LinkTyped DEF EndpointsLive
  <2> QED BY <1>3, <2>2 DEF Duplicate, Related
<1> QED BY <1>1, <1>2, <1>3 DEF Duplicate

\* More supersessions lead further.
LEMMA MoreCycles ==
    ASSUME NEW es \in SUBSET Edge, NEW fs \in SUBSET Edge, es \subseteq fs, NEW e \in Edge,
           MakesCycle(es, e)
    PROVE  MakesCycle(fs, e)
<1>1. e.from \in MemoryIds /\ e.to \in MemoryIds
  BY DEF Edge
<1>2. Stored(es) \subseteq Stored(fs)
  BY DEF Stored
<1>3. ASSUME NEW S \in SUBSET MemoryIds, e.to \in S, Closed(fs, S) PROVE e.from \in S
  <2>1. Closed(es, S)
    BY <1>2, <1>3 DEF Closed
  <2> QED BY <1>1, <1>3, <2>1, ReachByClosed DEF MakesCycle
<1> QED BY <1>1, <1>3, ReachByClosed DEF MakesCycle

\* A command that both take the same way.
LEMMA Agreed ==
    ASSUME NEW c \in Calls, Follow(c), Commands(c), NEW ok \in BOOLEAN, NEW mems, NEW es,
           Interprets(c) = Said(ok, mems, es), ~differed, ok <=> asks'[c].step # "refused"
    PROVE  reference' = mems /\ relations' = es /\ ~differed'
<1>1. Said(ok, mems, es).ok = ok /\ Said(ok, mems, es).reference = mems
      /\ Said(ok, mems, es).relations = es
  BY DEF Said
<1>2. /\ reference' = mems /\ relations' = es
      /\ differed' = (differed \/ (ok # (asks'[c].step # "refused")))
  BY <1>1 DEF Follow
<1> QED BY <1>2

\* A command that is excused.
LEMMA Parts ==
    ASSUME NEW c \in Calls, Follow(c), Commands(c), Excused(c, Interprets(c))
    PROVE  parted'
BY DEF Follow

\* A command on a memory that is in one store only.
LEMMA NotThere ==
    ASSUME NEW c \in Calls, Follow(c), Commands(c), NEW m \in Addressed(c), Exists(m), ~Has(m)
    PROVE  parted'
<1>1. Excused(c, Interprets(c))
  BY DEF Excused
<1> QED BY <1>1, Parts

\* A command that both refuse.
LEMMA BothRefuse ==
    ASSUME TypeInv, NEW c \in Calls, Follow(c), Commands(c), Follows, Refused(c), Interprets(c) = No
    PROVE  Follows'
<1>1. asks'[c].step = "refused"
  BY EndsStep, Typed DEF TypeInv, Refused, Steps
<1>2. reference' = reference /\ relations' = relations /\ ~differed'
  <2>1. Interprets(c) = Said(FALSE, reference, relations)
    BY DEF No
  <2> QED BY <1>1, <2>1, Agreed DEF Follows
<1> QED BY <1>2 DEF Follows, Alike, Related, Refused, Canon, Has, Exists, Live, EndpointsLive

\* What each kind of command comes to in the interpreter.
LEMMA Interpreted ==
    ASSUME NEW c \in Calls
    PROVE  /\ Op[c].kind = "add" => Interprets(c) = Adds(c)
           /\ Op[c].kind \in {"update", "downweight"} => Interprets(c) = Patches(c)
           /\ Op[c].kind = "feedback" => Interprets(c) = Votes(c)
           /\ Op[c].kind \in {"read", "boost"} =>
                 Interprets(c) = IF asks[c].step = "accessed" THEN Links(edges' \ edges)
                                 ELSE Boosts(c)
           /\ Op[c].kind = "relate" =>
                 Interprets(c) = Relates(Link(Op[c].ids[1], Op[c].ids[2], Op[c].how))
           /\ Op[c].kind = "merge" => Interprets(c) = Merges(c)
           /\ Op[c].kind = "forget" => Interprets(c) = Forgets(c)
BY DEF Interprets

\* A command that the interpreter refuses after it wrote.
LEMMA HalfDone ==
    ASSUME NEW c \in Calls, Follow(c), Commands(c), Op[c].kind \in {"add", "merge"},
           NEW mems, NEW es, Interprets(c) = Said(FALSE, mems, es), mems # reference
    PROVE  parted'
<1>1. ~Interprets(c).ok /\ Interprets(c).reference # reference
  <2>1. Interprets(c).ok = FALSE /\ Interprets(c).reference = mems
    BY DEF Said
  <2> QED BY <2>1
<1>2. Excused(c, Interprets(c))
  BY <1>1, Zenon DEF Excused
<1> QED BY <1>2, Parts

\* The first memory a call names.
LEMMA FirstAddressed ==
    ASSUME NEW c \in Calls
    PROVE  Op[c].ids[1] \in MemoryIds /\ Op[c].ids[1] \in Addressed(c)
<1>1. Op[c].ids \in Seq(MemoryIds) \ {<<>>}
  BY MemoriesAssumption
<1>2. 1 \in DOMAIN Op[c].ids
  BY <1>1
<1> QED BY <1>2, OpTyped DEF Addressed

\* A command that changes one memory, the same way in both where it is live.
LEMMA OneMemory ==
    ASSUME Alike, NEW m \in MemoryIds, reference' \in [MemoryIds -> Memory],
           \A x \in MemoryIds \ {m} : memories'[x] = memories[x] /\ reference'[x] = reference[x],
           reference'[m].life # "none" => memories'[m].life # "none",
           memories'[m].life = "live" <=> reference'[m].life = "live",
           memories'[m].life = "live" => memories'[m] = reference'[m]
    PROVE  Alike'
BY DEF Alike, Has, Exists, Live

\* Relations stay when no memory comes to life that has any.
LEMMA SameRelations ==
    ASSUME Related, UNCHANGED <<edges, relations>>,
           \A m \in MemoryIds : Has(m) => reference'[m].life # "none",
           \A m \in MemoryIds : Has(m) /\ memories'[m].life = "live" => Live(m)
    PROVE  Related'
<1>1. \A e \in relations : /\ e \in Edge /\ e.from \in MemoryIds /\ e.to \in MemoryIds
                           /\ Has(e.from) /\ Has(e.to)
  BY DEF Related, Edge
<1>2. \A e \in relations : reference'[e.from].life # "none" /\ reference'[e.to].life # "none"
  BY <1>1
<1>3. \A e \in relations : EndpointsLive(memories', e) => e \in edges
  BY <1>1 DEF Related, EndpointsLive, Live
<1> QED BY <1>2, <1>3 DEF Related, Has, EndpointsLive

LEMMA AddAgrees ==
    ASSUME TypeInv, StepsInv, Follows, NEW c \in Calls, AddMemory(c), Follow(c)
    PROVE  parted' \/ Follows'
<1> DEFINE m == Op[c].ids[1]
           t == Op[c].text
           mems == [reference EXCEPT ![m] = Fresh(t)]
           ours == [memories EXCEPT ![m] = Fresh(t)]
           ok == \A e \in asks[c].link : Duplicate(relations, e) \/ Valid(mems, relations, e)
           fits == {e \in asks[c].link : Valid(mems, relations, e)}
<1>0. /\ memories \in [MemoryIds -> Memory] /\ reference \in [MemoryIds -> Memory]
      /\ m \in MemoryIds /\ m \in Addressed(c) /\ t \in Texts \cup {Unset}
      /\ Fresh(t) \in Memory /\ Fresh(t).life = "live"
      /\ asks[c].link \subseteq Edge
  BY Typed, OpTyped, FirstAddressed, FreshTyped DEF TypeInv, Follows, Alike, Ask
<1>1. /\ Op[c].kind = "add" /\ asks[c].step = "planned" /\ Commands(c)
      /\ Interprets(c) = Adds(c)
  BY Interpreted DEF AddMemory, Asked, Commands
<1>2. CASE Has(m)
  <2>1. Exists(m) /\ Interprets(c) = No
    BY <1>0, <1>1, <1>2 DEF Adds, Follows, Alike
  <2>2. Refused(c)
    BY <2>1 DEF AddMemory
  <2> QED BY <1>1, <2>1, <2>2, BothRefuse
<1>3. CASE ~Has(m) /\ Exists(m)
  BY <1>0, <1>1, <1>3, NotThere
<1>4. CASE ~Has(m) /\ ~Exists(m)
  <2>1. Interprets(c) = Said(ok, mems, relations \cup fits)
    BY <1>1, <1>4 DEF Adds
  <2>2. ASSUME NEW e \in asks[c].link
        PROVE  /\ e \in Edge /\ e.from = m /\ e.type = "related_to" /\ e.to \in MemoryIds \ {m}
               /\ Has(e.to) => Exists(e.to)
    BY <1>0, <1>4 DEF StepsInv, StepInv, Follows, Alike
  <2>3. \A e \in relations : e.from # m /\ e.to # m
    BY <1>4 DEF Follows, Related
  <2>4. ASSUME NEW e \in asks[c].link
        PROVE  ~Duplicate(relations, e) /\ ~Duplicate(edges, e)
    BY <2>2, <2>3 DEF Duplicate, Link, Follows, Related
  <2>5. ASSUME NEW e \in asks[c].link
        PROVE  /\ EndpointsLive(ours, e) <=> Live(e.to)
               /\ EndpointsLive(mems, e) <=> Live(e.to)
    BY <1>0, <2>2 DEF EndpointsLive, Live, Follows, Alike
  <2>6. \A e \in asks[c].link : Valid(mems, relations, e) <=> Live(e.to)
    BY <2>2, <2>4, <2>5 DEF Valid, Supersession
  <2>7. CASE \A e \in asks[c].link : Live(e.to)
    <3>1. /\ memories' = ours /\ edges' = edges \cup asks[c].link /\ Ends(c, "done")
      BY <1>4, <2>4, <2>5, <2>7 DEF AddMemory
    <3>2. asks'[c].step = "done"
      BY <3>1, EndsStep, Typed DEF TypeInv, Steps
    <3>3. Interprets(c) = Said(TRUE, mems, relations \cup asks[c].link)
      <4>1. ok = TRUE /\ fits = asks[c].link
        BY <2>6, <2>7
      <4> QED BY <2>1, <4>1
    <3>4. reference' = mems /\ relations' = relations \cup asks[c].link /\ ~differed'
      <4> HIDE DEF mems
      <4> QED BY <1>1, <3>2, <3>3, Agreed DEF Follows
    <3>5. Alike'
      BY <1>0, <3>1, <3>4, OneMemory DEF Follows
    <3>6. Related'
      <4>1. \A e \in relations' : e \in Edge /\ reference'[e.from].life # "none"
                                  /\ reference'[e.to].life # "none"
        <5>1. ASSUME NEW e \in relations PROVE e \in Edge /\ Has(e.from) /\ Has(e.to)
          BY DEF Follows, Related
        <5>2. ASSUME NEW e \in relations
              PROVE  reference'[e.from] = reference[e.from] /\ reference'[e.to] = reference[e.to]
          BY <1>0, <2>3, <3>4, <5>1 DEF Edge
        <5>3. ASSUME NEW e \in asks[c].link
              PROVE reference'[e.from].life # "none" /\ reference'[e.to].life # "none"
          BY <1>0, <2>2, <2>7, <3>4 DEF Follows, Alike
        <5> QED BY <1>0, <3>4, <5>1, <5>2, <5>3 DEF Has
      <4>2. \A e \in relations : EndpointsLive(memories', e) => e \in edges
        <5>1. ASSUME NEW e \in relations
              PROVE  memories'[e.from] = memories[e.from] /\ memories'[e.to] = memories[e.to]
          BY <1>0, <2>3, <3>1 DEF Edge, Follows, Related
        <5> QED BY <5>1 DEF EndpointsLive, Follows, Related
      <4> QED BY <3>1, <3>4, <4>1, <4>2 DEF Follows, Related, Has, EndpointsLive
    <3> QED BY <3>4, <3>5, <3>6 DEF Follows
  <2>8. CASE \E e \in asks[c].link : ~Live(e.to)
    <3>1. Interprets(c) = Said(FALSE, mems, relations \cup fits)
      <4>1. ok = FALSE
        BY <2>4, <2>6, <2>8
      <4> QED BY <2>1, <4>1
    <3>2. mems # reference
      BY <1>0, <1>4 DEF Has
    <3> HIDE DEF mems, fits
    <3> QED BY <1>1, <3>1, <3>2, HalfDone
  <2> QED BY <2>7, <2>8
<1> QED BY <1>2, <1>3, <1>4

-----------------------------------------------------------------------------
(* The commands.                                                           *)

LEMMA UpdateAgrees ==
    ASSUME TypeInv, Follows, NEW c \in Calls, UpdateMemory(c), Follow(c)
    PROVE  parted' \/ Follows'
<1> DEFINE m == Op[c].ids[1]
           level == NewLevel(c, reference[m])
           text == IF Op[c].text = Unset THEN reference[m].text ELSE Op[c].text
           new == [reference[m] EXCEPT !.text = text, !.level = level]
           mems == [reference EXCEPT ![m] = new]
<1>0. /\ memories \in [MemoryIds -> Memory] /\ reference \in [MemoryIds -> Memory]
      /\ m \in MemoryIds /\ Op[c].text \in Texts \cup {Unset}
  BY Typed, OpTyped DEF TypeInv, Follows, Alike
<1>1. /\ Op[c].kind \in {"update", "downweight"} /\ Commands(c) /\ Interprets(c) = Patches(c)
  BY Interpreted DEF UpdateMemory, Asked, Commands
<1>2. Live(m) <=> Updates(c)
  BY <1>0 DEF Updates, Follows, Alike
<1>3. CASE ~Live(m)
  <2>1. Refused(c) /\ Interprets(c) = No
    BY <1>1, <1>2, <1>3 DEF UpdateMemory, Patches
  <2> QED BY <1>1, <2>1, BothRefuse
<1>4. CASE Live(m)
  <2>1. memories[m] = reference[m] /\ reference[m].life = "live"
    BY <1>0, <1>4 DEF Follows, Alike, Live
  <2>2. Interprets(c) = Said(TRUE, mems, relations)
    <3>1. mems = [reference EXCEPT ![m].text = IF Op[c].text = Unset THEN @ ELSE Op[c].text,
                                   ![m].level = NewLevel(c, reference[m])]
      BY <1>0
    <3> HIDE DEF mems
    <3> QED BY <1>1, <1>2, <1>4, <3>1 DEF Patches
  <2>3. /\ memories' = [memories EXCEPT ![m] = new] /\ Ends(c, "done")
        /\ UNCHANGED edges
    BY <1>0, <1>4, <2>1 DEF UpdateMemory
  <2>4. asks'[c].step = "done"
    BY <2>3, EndsStep, Typed DEF TypeInv, Steps
  <2>5. reference' = mems /\ relations' = relations /\ ~differed'
    <3> HIDE DEF mems
    <3> QED BY <1>1, <2>2, <2>4, Agreed DEF Follows
  <2>6. new \in Memory /\ new.life = "live"
    <3>1. reference[m] \in Memory /\ level \in 0..Full /\ text \in Texts \cup {Unset}
      BY <1>0, NewLevelTyped DEF Memory
    <3> HIDE DEF level, text
    <3> QED BY <2>1, <3>1 DEF Memory
  <2> HIDE DEF new
  <2>7. Alike'
    BY <1>0, <2>3, <2>5, <2>6, OneMemory DEF Follows
  <2>8. Related'
    BY <1>0, <1>4, <2>3, <2>5, <2>6, SameRelations DEF Follows, Has, Live
  <2> QED BY <2>5, <2>7, <2>8 DEF Follows
<1> QED BY <1>3, <1>4

LEMMA FeedbackAgrees ==
    ASSUME TypeInv, StepsInv, Follows, NEW c \in Calls, Feedback(c), Follow(c)
    PROVE  parted' \/ Follows'
<1> DEFINE m == Op[c].ids[1]
           Voted(old) == [old EXCEPT !.votes = old.votes + 1,
                             !.level = IF Op[c].how = "useful" THEN Up(old.level) ELSE Down(old.level)]
           mems == [reference EXCEPT ![m] = Voted(reference[m])]
<1>0. /\ memories \in [MemoryIds -> Memory] /\ reference \in [MemoryIds -> Memory]
      /\ m \in MemoryIds /\ m \in Addressed(c)
  BY Typed, FirstAddressed DEF TypeInv, Follows, Alike
<1>1. /\ Op[c].kind = "feedback" /\ asks[c].step = "planned" /\ Commands(c)
      /\ Interprets(c) = Votes(c)
  BY Interpreted DEF Feedback, Asked, Commands
<1>2. Exists(m)
  BY <1>1 DEF StepsInv, StepInv
<1>3. CASE ~Has(m)
  BY <1>0, <1>1, <1>2, <1>3, NotThere
<1>4. CASE Has(m)
  <2>1. Interprets(c) = Said(TRUE, mems, relations)
    <3>1. mems = [reference EXCEPT ![m].votes = @ + 1,
                            ![m].level = IF Op[c].how = "useful" THEN Up(@) ELSE Down(@)]
      BY <1>0
    <3> HIDE DEF mems
    <3> QED BY <1>1, <1>4, <3>1 DEF Votes
  <2>2. /\ memories' = [memories EXCEPT ![m] = Voted(memories[m])] /\ Ends(c, "done")
        /\ UNCHANGED edges
    BY <1>0 DEF Feedback
  <2>3. asks'[c].step = "done"
    BY <2>2, EndsStep, Typed DEF TypeInv, Steps
  <2>4. reference' = mems /\ relations' = relations /\ ~differed'
    <3> HIDE DEF mems
    <3> QED BY <1>1, <2>1, <2>3, Agreed DEF Follows
  <2>5. ASSUME NEW old \in Memory
        PROVE  Voted(old) \in Memory /\ Voted(old).life = old.life
    <3> DEFINE level == IF Op[c].how = "useful" THEN Up(old.level) ELSE Down(old.level)
               votes == old.votes + 1
               new == [old EXCEPT !.votes = votes, !.level = level]
    <3>1. level \in 0..Full /\ votes \in Nat
      <4>1. old.level \in 0..Full /\ old.votes \in Nat
        BY DEF Memory
      <4> QED BY <4>1, LevelTyped
    <3>2. Voted(old) = new
      OBVIOUS
    <3> HIDE DEF level, votes
    <3>3. new \in Memory /\ new.life = old.life
      BY <3>1 DEF Memory
    <3> HIDE DEF new, Voted
    <3> QED BY <3>2, <3>3
  <2> HIDE DEF Voted
  <2>6. /\ reference'[m] = Voted(reference[m]) /\ memories'[m] = Voted(memories[m])
        /\ reference' \in [MemoryIds -> Memory]
        /\ \A x \in MemoryIds \ {m} : memories'[x] = memories[x] /\ reference'[x] = reference[x]
        /\ memories'[m].life = memories[m].life /\ reference'[m].life = reference[m].life
    BY <1>0, <2>2, <2>4, <2>5
  <2>7. Alike'
    <3>1. /\ reference'[m].life # "none" => memories'[m].life # "none"
          /\ memories'[m].life = "live" <=> reference'[m].life = "live"
          /\ memories'[m].life = "live" => memories'[m] = reference'[m]
      BY <1>0, <2>6 DEF Follows, Alike, Has, Exists, Live
    <3> QED BY <1>0, <2>6, <3>1, OneMemory DEF Follows
  <2>8. Related'
    BY <1>0, <2>2, <2>4, <2>6, SameRelations DEF Follows, Has, Live
  <2> QED BY <2>4, <2>7, <2>8 DEF Follows
<1> QED BY <1>3, <1>4

LEMMA BoostAgrees ==
    ASSUME TypeInv, Follows, NEW c \in Calls, Boost(c), Follow(c)
    PROVE  parted' \/ Follows'
<1> DEFINE Lifted(old) == [old EXCEPT !.level = Up(old.level)]
           mems == [m \in MemoryIds |-> IF Has(m) /\ m \in Addressed(c) THEN Lifted(reference[m])
                                        ELSE reference[m]]
<1>0. memories \in [MemoryIds -> Memory] /\ reference \in [MemoryIds -> Memory]
  BY Typed DEF TypeInv, Follows, Alike
<1>1. /\ Commands(c) /\ Interprets(c) = Said(TRUE, mems, relations)
      /\ memories' = Boosted(c) /\ UNCHANGED edges
  <2>1. /\ Op[c].kind \in {"read", "boost"} /\ asks[c].step # "accessed" /\ Commands(c)
        /\ memories' = Boosted(c) /\ UNCHANGED edges
    BY DEF Boost, Asked, Commands
  <2> QED BY <2>1, Interpreted DEF Boosts
<1>2. asks'[c].step # "refused"
  <2>1. Commits(c)
    BY DEF Commits
  <2> QED BY GoesStep, EndsStep, Typed DEF TypeInv, Steps, Boost
<1>3. CASE \E m \in Addressed(c) : Exists(m) /\ ~Has(m)
  BY <1>1, <1>3, NotThere
<1>4. CASE \A m \in Addressed(c) : Exists(m) => Has(m)
  <2>1. reference' = mems /\ relations' = relations /\ ~differed'
    <3> HIDE DEF mems
    <3> QED BY <1>1, <1>2, Agreed DEF Follows
  <2>2. ASSUME NEW old \in Memory
        PROVE  Lifted(old) \in Memory /\ Lifted(old).life = old.life
    BY LevelTyped DEF Memory
  <2> HIDE DEF Lifted
  <2>3. ASSUME NEW m \in MemoryIds
        PROVE  /\ reference'[m] \in Memory
               /\ reference'[m].life = reference[m].life /\ memories'[m].life = memories[m].life
               /\ memories[m] = reference[m] => memories'[m] = reference'[m]
    <3>1. /\ reference'[m] = IF Has(m) /\ m \in Addressed(c) THEN Lifted(reference[m])
                             ELSE reference[m]
          /\ memories'[m] = IF Exists(m) /\ m \in Addressed(c) THEN Lifted(memories[m])
                            ELSE memories[m]
      BY <1>1, <2>1 DEF Boosted, Lifted
    <3>2. m \in Addressed(c) => (Exists(m) <=> Has(m))
      BY <1>4 DEF Follows, Alike
    <3> QED BY <1>0, <2>2, <3>1, <3>2
  <2>4. Alike'
    <3>1. reference' \in [MemoryIds -> Memory]
      BY <2>1, <2>3
    <3> QED BY <2>3, <3>1 DEF Follows, Alike, Has, Exists, Live
  <2>5. Related'
    BY <1>1, <2>1, <2>3, SameRelations DEF Follows, Has, Live
  <2> QED BY <2>1, <2>4, <2>5 DEF Follows
<1> QED BY <1>3, <1>4

LEMMA ForgetAgrees ==
    ASSUME TypeInv, StepsInv, Follows, NEW c \in Calls, Forget(c), Follow(c)
    PROVE  parted' \/ Follows'
<1> DEFINE m == Op[c].ids[1]
           Hidden(old) == [old EXCEPT !.life = Op[c].how]
           mems == [reference EXCEPT ![m] = Hidden(reference[m])]
<1>0. /\ memories \in [MemoryIds -> Memory] /\ reference \in [MemoryIds -> Memory]
      /\ m \in MemoryIds /\ m \in Addressed(c)
  BY Typed, FirstAddressed DEF TypeInv, Follows, Alike
<1>1. /\ Op[c].kind = "forget" /\ asks[c].step = "planned" /\ Commands(c)
      /\ Interprets(c) = Forgets(c) /\ Op[c].how \in {"invalidated", "archived", "deleted"}
  BY Interpreted, MemoriesAssumption DEF Forget, Asked, Commands
<1>2. Exists(m)
  BY <1>1 DEF StepsInv, StepInv
<1>3. CASE ~Has(m)
  BY <1>0, <1>1, <1>2, <1>3, NotThere
<1>4. CASE Has(m)
  <2>1. Interprets(c) = Said(TRUE, mems, relations)
    <3>1. mems = [reference EXCEPT ![m].life = Op[c].how]
      BY <1>0
    <3> HIDE DEF mems
    <3> QED BY <1>1, <1>4, <3>1 DEF Forgets
  <2>2. /\ memories' = [memories EXCEPT ![m] = Hidden(memories[m])] /\ Ends(c, "done")
        /\ edges' = IF Op[c].how = "deleted" THEN Severed(edges, m) ELSE edges
    BY <1>0 DEF Forget, DeletedEdges
  <2>3. asks'[c].step = "done"
    BY <2>2, EndsStep, Typed DEF TypeInv, Steps
  <2>4. reference' = mems /\ relations' = relations /\ ~differed'
    <3> HIDE DEF mems
    <3> QED BY <1>1, <2>1, <2>3, Agreed DEF Follows
  <2>5. ASSUME NEW old \in Memory
        PROVE  Hidden(old) \in Memory /\ Hidden(old).life = Op[c].how
    BY <1>1 DEF Memory, Lives
  <2> HIDE DEF Hidden
  <2>6. /\ reference' \in [MemoryIds -> Memory]
        /\ \A x \in MemoryIds \ {m} : memories'[x] = memories[x] /\ reference'[x] = reference[x]
        /\ memories'[m].life = Op[c].how /\ reference'[m].life = Op[c].how
    BY <1>0, <2>2, <2>4, <2>5
  <2>7. Alike'
    BY <1>0, <1>1, <2>6, OneMemory DEF Follows
  <2>8. Related'
    <3>1. \A e \in relations : e \in Edge /\ e.from \in MemoryIds /\ e.to \in MemoryIds
                               /\ Has(e.from) /\ Has(e.to)
      BY DEF Follows, Related, Edge
    <3>2. edges' \subseteq relations
      BY <2>2 DEF Severed, Follows, Related
    <3>3. ASSUME NEW e \in relations
          PROVE  reference'[e.from].life # "none" /\ reference'[e.to].life # "none"
      BY <1>1, <2>6, <3>1 DEF Has
    <3>4. ASSUME NEW e \in relations, EndpointsLive(memories', e) PROVE e \in edges'
      <4>1. e.from # m /\ e.to # m
        BY <1>1, <2>6, <3>4 DEF EndpointsLive
      <4>2. EndpointsLive(memories, e)
        BY <2>6, <3>1, <3>4, <4>1 DEF EndpointsLive
      <4> QED BY <2>2, <4>1, <4>2 DEF Follows, Related, Severed
    <3> QED BY <2>4, <3>1, <3>2, <3>3, <3>4 DEF Related, Has, EndpointsLive
  <2> QED BY <2>4, <2>7, <2>8 DEF Follows
<1> QED BY <1>3, <1>4

\* Only a read goes on to link what it read together.
ReadsAccess == \A c \in Calls : asks[c].step = "accessed" => Op[c].kind = "read"

LEMMA AccessInit == Init => ReadsAccess
BY DEF Init, ReadsAccess, Unasked

LEMMA AccessNext == TypeInv /\ ReadsAccess /\ [Next]_memvars => ReadsAccess'
<1> SUFFICES ASSUME TypeInv, ReadsAccess, [Next]_memvars, NEW d \in Calls,
                    asks'[d].step = "accessed"
             PROVE  Op[d].kind = "read"
  BY DEF ReadsAccess
<1>1. CASE asks'[d] = asks[d]
  BY <1>1 DEF ReadsAccess
<1>2. ASSUME NEW c \in Calls, Commits(c) PROVE asks'[d] = asks[d] \/ Op[d].kind = "read"
  BY <1>2, CommitsStep DEF CommitsTo
<1>3. ASSUME NEW c \in Calls, Reads(c) PROVE asks'[d] = asks[d]
  BY <1>3, ReadsStep DEF ReadsTo
<1> QED BY <1>1, <1>2, <1>3 DEF Next, Tool, Reads, Commits, Project, memvars

\* Relations between live memories that both add.
LEMMA BothLink ==
    ASSUME Alike, Related, NEW new \in SUBSET Edge, \A e \in new : EndpointsLive(memories, e),
           UNCHANGED <<memories, reference>>,
           edges' = edges \cup new, relations' = relations \cup new
    PROVE  Alike' /\ Related'
<1>1. Alike'
  BY DEF Alike, Has, Exists, Live
<1>2. ASSUME NEW e \in new PROVE Has(e.from) /\ Has(e.to)
  BY DEF Alike, Has, Live, EndpointsLive, Edge
<1>3. Related'
  BY <1>2 DEF Related, Has, EndpointsLive
<1> QED BY <1>1, <1>3

LEMMA CoReadAgrees ==
    ASSUME TypeInv, ReadsAccess, Follows, NEW c \in Calls, CoRead(c), Follow(c)
    PROVE  Follows'
<1> DEFINE new == edges' \ edges
<1>1. /\ Commands(c) /\ Interprets(c) = Links(new)
      /\ UNCHANGED memories /\ Ends(c, "done")
  BY Interpreted DEF CoRead, Commands, ReadsAccess
<1>2. PICK star \in Stars(c) : edges' = edges \cup {e \in star : Valid(memories, edges, e)}
  BY DEF CoRead
<1>3. \A e \in star : e \in Edge /\ e.type = "related_to"
  BY OpTyped, LinkTyped DEF Stars, Mutual
<1>4. /\ edges' = edges \cup new /\ new \subseteq Edge
      /\ \A e \in new : EndpointsLive(memories, e) /\ Valid(memories, edges, e) /\ e \in star
  BY <1>2, <1>3 DEF Valid
<1>5. ASSUME NEW e \in new PROVE Valid(reference, relations, e)
  <2>1. e \in Edge /\ e.type \notin Supersession
    BY <1>3, <1>4 DEF Supersession
  <2>2. EndpointsLive(reference, e)
    BY <1>4, <2>1, SameEnds DEF Follows
  <2>3. ~Duplicate(relations, e)
    BY <1>4, <2>1, SameDuplicates DEF Valid, Follows
  <2> QED BY <2>1, <2>2, <2>3 DEF Valid
<1>6. Interprets(c) = Said(TRUE, reference, relations \cup new)
  BY <1>1, <1>5 DEF Links
<1>7. asks'[c].step = "done"
  BY <1>1, EndsStep, Typed DEF TypeInv, Steps
<1>8. reference' = reference /\ relations' = relations \cup new /\ ~differed'
  <2> HIDE DEF new
  <2> QED BY <1>1, <1>6, <1>7, Agreed DEF Follows
<1> HIDE DEF new
<1>9. Alike' /\ Related'
  BY <1>1, <1>4, <1>8, BothLink DEF Follows
<1> QED BY <1>8, <1>9 DEF Follows

LEMMA RelateAgrees ==
    ASSUME TypeInv, Follows, NEW c \in Calls, Relate(c), Follow(c)
    PROVE  parted' \/ Follows'
<1> DEFINE e == Link(Op[c].ids[1], Op[c].ids[2], Op[c].how)
<1>1. /\ Op[c].kind = "relate" /\ Commands(c) /\ Interprets(c) = Relates(e)
  BY Interpreted DEF Relate, Asked, Commands
<1>2. e \in Edge
  <2>1. Len(Op[c].ids) = 2 /\ Op[c].how \in Mutual \cup Supersession /\ Op[c].ids \in Seq(MemoryIds)
    BY <1>1, MemoriesAssumption
  <2>2. Op[c].ids[1] \in MemoryIds /\ Op[c].ids[2] \in MemoryIds
    BY <2>1
  <2> QED BY <2>1, <2>2, LinkTyped
<1>3. CASE MakesCycle(relations, e) /\ ~MakesCycle(edges, e)
  <2>1. Excused(c, Interprets(c))
    BY <1>1, <1>3 DEF Excused
  <2> QED BY <1>1, <2>1, Parts
<1>4. CASE ~(MakesCycle(relations, e) /\ ~MakesCycle(edges, e))
  <2>1. EndpointsLive(memories, e) <=> EndpointsLive(reference, e)
    BY <1>2, SameEnds DEF Follows
  <2>2. EndpointsLive(memories, e) => (Duplicate(edges, e) <=> Duplicate(relations, e))
    BY <1>2, SameDuplicates DEF Follows
  <2>3. MakesCycle(edges, e) <=> MakesCycle(relations, e)
    <3>1. edges \in SUBSET Edge /\ relations \in SUBSET Edge /\ edges \subseteq relations
      BY DEF Follows, Related
    <3> HIDE DEF e
    <3> QED BY <1>2, <1>4, <3>1, MoreCycles
  <2>4. Valid(memories, edges, e) <=> Valid(reference, relations, e)
    BY <2>1, <2>2, <2>3 DEF Valid
  <2> HIDE DEF e
  <2>5. CASE Valid(memories, edges, e)
    <3>1. edges' = edges \cup {e} /\ Ends(c, "done") /\ UNCHANGED memories
      BY <2>5 DEF Relate, e
    <3>2. asks'[c].step = "done"
      BY <3>1, EndsStep, Typed DEF TypeInv, Steps
    <3>3. Interprets(c) = Said(TRUE, reference, relations \cup {e})
      BY <1>1, <2>4, <2>5 DEF Relates
    <3>4. reference' = reference /\ relations' = relations \cup {e} /\ ~differed'
      BY <1>1, <3>2, <3>3, Agreed DEF Follows
    <3>5. Alike' /\ Related'
      <4>1. {e} \in SUBSET Edge /\ \A x \in {e} : EndpointsLive(memories, x)
        BY <1>2, <2>5 DEF Valid
      <4> QED BY <3>1, <3>4, <4>1, BothLink DEF Follows
    <3> QED BY <3>4, <3>5 DEF Follows
  <2>6. CASE ~Valid(memories, edges, e)
    <3>1. Refused(c) /\ Interprets(c) = No
      BY <1>1, <2>4, <2>6 DEF Relate, Relates, e
    <3> QED BY <1>1, <3>1, BothRefuse
  <2> QED BY <2>5, <2>6
<1> QED BY <1>3, <1>4

\* A merge that replaces: its sources are gone from one store and deleted in the other.
LEMMA ReplaceAgrees ==
    ASSUME TypeInv, Follows, NEW c \in Calls, Merge(c), Follow(c), Op[c].how = "replace",
           ~Exists(Op[c].ids[1]), \A s \in Sources(c) : Has(s)
    PROVE  Follows'
<1> DEFINE r == Op[c].ids[1]
           made == [reference EXCEPT ![r] = Fresh(Op[c].text)]
           ours == [memories EXCEPT ![r] = Fresh(Op[c].text)]
           mems == [m \in MemoryIds |-> IF m \in Sources(c) THEN [reference[m] EXCEPT !.life = "none"]
                                        ELSE made[m]]
           left == {e \in relations : {e.from, e.to} \cap Sources(c) = {}}
<1>0. /\ memories \in [MemoryIds -> Memory] /\ reference \in [MemoryIds -> Memory]
      /\ r \in MemoryIds /\ r \notin Sources(c) /\ Sources(c) \subseteq MemoryIds
      /\ Fresh(Op[c].text) \in Memory /\ Fresh(Op[c].text).life = "live"
  <2>1. Op[c].kind = "merge"
    BY DEF Merge, Asked
  <2> QED BY <2>1, Typed, OpTyped, SourcesTyped, SourcesAddressed, FreshTyped
          DEF TypeInv, Follows, Alike
<1>1. /\ ~Has(r) /\ ~Exists(r)
  BY <1>0 DEF Follows, Alike
<1>2. /\ Commands(c) /\ Interprets(c) = Said(TRUE, mems, left)
  <2>1. Op[c].kind = "merge" /\ Commands(c) /\ Interprets(c) = Merges(c)
    BY Interpreted DEF Merge, Asked, Commands
  <2>2. Merges(c) = Said(TRUE, mems, left)
    BY <1>1 DEF Merges, Sources
  <2> QED BY <2>1, <2>2
<1>3. /\ memories' = [m \in MemoryIds |-> IF m \notin Sources(c) THEN ours[m]
                                          ELSE [ours[m] EXCEPT !.life = "deleted"]]
      /\ edges' = {e \in edges : {e.from, e.to} \cap Sources(c) = {}}
      /\ Ends(c, "done")
  BY <1>1 DEF Merge, Sources
<1>4. asks'[c].step = "done"
  BY <1>3, EndsStep, Typed DEF TypeInv, Steps
<1>5. reference' = mems /\ relations' = left /\ ~differed'
  <2> HIDE DEF mems, left
  <2> QED BY <1>2, <1>4, Agreed DEF Follows
<1>6. ASSUME NEW m \in Sources(c)
      PROVE  /\ reference'[m] \in Memory /\ reference'[m].life = "none"
             /\ memories'[m].life = "deleted"
  <2>1. reference[m] \in Memory /\ memories[m] \in Memory /\ m # r
    BY <1>0
  <2>2. reference'[m] = [reference[m] EXCEPT !.life = "none"]
    BY <1>0, <1>5
  <2>3. memories'[m] = [memories[m] EXCEPT !.life = "deleted"]
    BY <1>0, <1>3, <2>1
  <2> QED BY <2>1, <2>2, <2>3 DEF Memory, Lives
<1>7. memories'[r] = Fresh(Op[c].text) /\ reference'[r] = Fresh(Op[c].text)
  BY <1>0, <1>3, <1>5
<1>8. ASSUME NEW m \in MemoryIds \ (Sources(c) \cup {r})
      PROVE  memories'[m] = memories[m] /\ reference'[m] = reference[m]
  BY <1>0, <1>3, <1>5
<1>9. Alike'
  <2>1. ASSUME NEW m \in MemoryIds PROVE reference'[m] \in Memory
    BY <1>0, <1>6, <1>7, <1>8
  <2>2. reference' \in [MemoryIds -> Memory]
    BY <1>5, <2>1
  <2>3. ASSUME NEW m \in MemoryIds
        PROVE  /\ reference'[m].life # "none" => memories'[m].life # "none"
               /\ memories'[m].life = "live" <=> reference'[m].life = "live"
               /\ memories'[m].life = "live" => memories'[m] = reference'[m]
    BY <1>0, <1>6, <1>7, <1>8 DEF Follows, Alike, Has, Exists, Live
  <2> QED BY <2>2, <2>3 DEF Alike, Has, Exists, Live
<1>10. Related'
  <2>1. ASSUME NEW e \in left
        PROVE  /\ e \in Edge /\ e.from \in MemoryIds \ (Sources(c) \cup {r})
               /\ e.to \in MemoryIds \ (Sources(c) \cup {r})
               /\ Has(e.from) /\ Has(e.to)
    BY <1>1 DEF Follows, Related, Edge
  <2>2. left \subseteq Edge /\ edges' \subseteq left
    BY <1>3 DEF Follows, Related
  <2>3. ASSUME NEW e \in left
        PROVE  reference'[e.from].life # "none" /\ reference'[e.to].life # "none"
    BY <1>8, <2>1 DEF Has
  <2>4. ASSUME NEW e \in left, EndpointsLive(memories', e) PROVE e \in edges'
    BY <1>3, <1>8, <2>1, <2>4 DEF EndpointsLive, Follows, Related
  <2> HIDE DEF left
  <2> QED BY <1>5, <2>2, <2>3, <2>4 DEF Related, Has, EndpointsLive
<1> QED BY <1>5, <1>9, <1>10 DEF Follows

\* A merge that keeps its sources and that both carry out.
LEMMA ConsolidateAgrees ==
    ASSUME TypeInv, Follows, NEW c \in Calls, Merge(c), Follow(c), Op[c].how = "consolidate",
           ~Exists(Op[c].ids[1]), \A s \in Sources(c) : Has(s),
           \A e \in Supersedes(c) :
              Valid([reference EXCEPT ![Op[c].ids[1]] = Fresh(Op[c].text)], relations, e)
    PROVE  Follows'
<1> DEFINE r == Op[c].ids[1]
           made == [reference EXCEPT ![r] = Fresh(Op[c].text)]
           ours == [memories EXCEPT ![r] = Fresh(Op[c].text)]
           mems == [m \in MemoryIds |-> IF m \in Sources(c) THEN [made[m] EXCEPT !.level = 0]
                                        ELSE made[m]]
<1>0. /\ memories \in [MemoryIds -> Memory] /\ reference \in [MemoryIds -> Memory]
      /\ r \in MemoryIds /\ r \notin Sources(c) /\ Sources(c) \subseteq MemoryIds
      /\ Fresh(Op[c].text) \in Memory /\ Fresh(Op[c].text).life = "live"
      /\ Supersedes(c) \subseteq Edge
  <2>1. Op[c].kind = "merge"
    BY DEF Merge, Asked
  <2> QED BY <2>1, Typed, OpTyped, SourcesTyped, SourcesAddressed, FreshTyped
          DEF TypeInv, Follows, Alike
<1>1. /\ ~Has(r) /\ ~Exists(r)
  BY <1>0 DEF Follows, Alike
<1>2. ASSUME NEW m \in MemoryIds
      PROVE  /\ ours[m].life = "live" <=> made[m].life = "live"
             /\ ours[m].life = "live" => ours[m] = made[m]
  BY <1>0 DEF Follows, Alike, Live
<1>3. ASSUME NEW e \in Supersedes(c) PROVE Valid(ours, edges, e)
  <2>1. e \in Edge /\ e.from \in MemoryIds /\ e.to \in MemoryIds /\ Valid(made, relations, e)
    BY <1>0 DEF Edge
  <2>2. EndpointsLive(ours, e)
    BY <1>2, <2>1 DEF EndpointsLive, Valid
  <2>3. ~Duplicate(edges, e)
    BY <2>1 DEF Valid, Duplicate, Follows, Related
  <2>4. e.type \in Supersession => ~MakesCycle(edges, e)
    <3>1. edges \in SUBSET Edge /\ relations \in SUBSET Edge /\ edges \subseteq relations
      BY DEF Follows, Related
    <3> QED BY <2>1, <3>1, MoreCycles DEF Valid
  <2> QED BY <2>1, <2>2, <2>3, <2>4 DEF Valid
<1>4. /\ Commands(c) /\ Interprets(c) = Said(TRUE, mems, relations \cup Supersedes(c))
  <2>1. Op[c].kind = "merge" /\ Commands(c) /\ Interprets(c) = Merges(c)
    BY Interpreted DEF Merge, Asked, Commands
  <2>2. Merges(c) = Said(TRUE, mems, relations \cup Supersedes(c))
    BY <1>1 DEF Merges, Sources, Supersedes
  <2> QED BY <2>1, <2>2
<1>5. /\ memories' = [m \in MemoryIds |-> IF m \notin Sources(c) THEN ours[m]
                                          ELSE [ours[m] EXCEPT !.level = 0]]
      /\ edges' = edges \cup Supersedes(c)
      /\ Ends(c, "done")
  BY <1>1, <1>3 DEF Merge, Sources, Supersedes
<1>6. asks'[c].step = "done"
  BY <1>5, EndsStep, Typed DEF TypeInv, Steps
<1>7. reference' = mems /\ relations' = relations \cup Supersedes(c) /\ ~differed'
  <2> HIDE DEF mems
  <2> QED BY <1>4, <1>6, Agreed DEF Follows
<1>8. ASSUME NEW m \in MemoryIds
      PROVE  /\ reference'[m] \in Memory /\ reference'[m].life = made[m].life
             /\ memories'[m].life = ours[m].life
             /\ ours[m] = made[m] => memories'[m] = reference'[m]
  <2>1. made[m] \in Memory /\ ours[m] \in Memory
    BY <1>0
  <2>2. /\ reference'[m] = IF m \in Sources(c) THEN [made[m] EXCEPT !.level = 0] ELSE made[m]
        /\ memories'[m] = IF m \in Sources(c) THEN [ours[m] EXCEPT !.level = 0] ELSE ours[m]
    BY <1>5, <1>7
  <2>3. 0 \in 0..Full
    BY MemoriesAssumption
  <2> HIDE DEF made, ours
  <2> QED BY <2>1, <2>2, <2>3 DEF Memory
<1>9. Alike'
  <2>1. reference' \in [MemoryIds -> Memory]
    BY <1>7, <1>8
  <2>2. ASSUME NEW m \in MemoryIds
        PROVE  /\ made[m].life # "none" => ours[m].life # "none"
    BY <1>0 DEF Follows, Alike, Has, Exists
  <2> HIDE DEF made, ours
  <2> QED BY <1>2, <1>8, <2>1, <2>2 DEF Alike, Has, Exists, Live
<1>10. Related'
  <2>1. ASSUME NEW e \in relations
        PROVE  /\ e \in Edge /\ e.from \in MemoryIds \ {r} /\ e.to \in MemoryIds \ {r}
               /\ Has(e.from) /\ Has(e.to)
    BY <1>1 DEF Follows, Related, Edge
  <2>2. ASSUME NEW m \in MemoryIds \ {r}
        PROVE  made[m] = reference[m] /\ ours[m] = memories[m]
    BY <1>0
  <2>3. ASSUME NEW e \in relations
        PROVE  reference'[e.from].life # "none" /\ reference'[e.to].life # "none"
    BY <1>8, <2>1, <2>2 DEF Has
  <2>4. ASSUME NEW e \in Supersedes(c)
        PROVE  reference'[e.from].life # "none" /\ reference'[e.to].life # "none"
    <3>1. e.from \in MemoryIds /\ e.to \in MemoryIds /\ EndpointsLive(made, e)
      BY <1>0 DEF Edge, Valid
    <3> QED BY <1>8, <3>1 DEF EndpointsLive
  <2>5. ASSUME NEW e \in relations, EndpointsLive(memories', e) PROVE e \in edges
    <3>1. EndpointsLive(memories, e)
      BY <1>8, <2>1, <2>2, <2>5 DEF EndpointsLive
    <3> QED BY <3>1 DEF Follows, Related
  <2> HIDE DEF made, ours, mems
  <2> QED BY <1>0, <1>5, <1>7, <2>3, <2>4, <2>5 DEF Follows, Related, Has, EndpointsLive
<1> QED BY <1>7, <1>9, <1>10 DEF Follows

LEMMA MergeAgrees ==
    ASSUME TypeInv, SourcesFound, Follows, NEW c \in Calls, Merge(c), Follow(c)
    PROVE  parted' \/ Follows'
<1> DEFINE r == Op[c].ids[1]
           made == [reference EXCEPT ![r] = Fresh(Op[c].text)]
<1>0. /\ reference \in [MemoryIds -> Memory] /\ r \in MemoryIds /\ r \in Addressed(c)
      /\ Fresh(Op[c].text).life = "live"
  BY OpTyped, FirstAddressed, FreshTyped DEF Follows, Alike
<1>1. /\ Op[c].kind = "merge" /\ asks[c].step = "planned" /\ Commands(c)
      /\ Interprets(c) = Merges(c) /\ Op[c].how \in {"consolidate", "replace"}
  BY Interpreted, MemoriesAssumption DEF Merge, Asked, Commands
<1>2. CASE Has(r)
  <2>1. Exists(r) /\ Interprets(c) = No
    BY <1>0, <1>1, <1>2 DEF Merges, Follows, Alike
  <2>2. Refused(c)
    BY <2>1 DEF Merge
  <2> QED BY <1>1, <2>1, <2>2, BothRefuse
<1>3. CASE ~Has(r) /\ Exists(r)
  BY <1>0, <1>1, <1>3, NotThere
<1>4. CASE \E s \in Sources(c) : ~Has(s)
  <2>1. PICK s \in Sources(c) : ~Has(s)
    BY <1>4
  <2>2. Exists(s) /\ s \in Addressed(c)
    BY <1>1, SourcesAddressed DEF SourcesFound
  <2> QED BY <1>1, <2>1, <2>2, NotThere
<1>5. CASE ~Exists(r) /\ \A s \in Sources(c) : Has(s)
  <2>1. CASE Op[c].how = "replace"
    BY <1>5, <2>1, ReplaceAgrees
  <2>2. CASE Op[c].how = "consolidate" /\ \A e \in Supersedes(c) : Valid(made, relations, e)
    BY <1>5, <2>2, ConsolidateAgrees
  <2>3. CASE Op[c].how = "consolidate" /\ ~(\A e \in Supersedes(c) : Valid(made, relations, e))
    <3>1. ~Has(r)
      BY <1>0, <1>5 DEF Follows, Alike
    <3>2. Interprets(c) = Said(FALSE, made, relations)
      BY <1>1, <1>5, <2>3, <3>1 DEF Merges, Sources, Supersedes
    <3>3. made # reference
      BY <1>0, <3>1 DEF Has
    <3> HIDE DEF made
    <3> QED BY <1>1, <3>2, <3>3, HalfDone
  <2> QED BY <1>1, <2>1, <2>2, <2>3
<1> QED BY <1>2, <1>3, <1>4, <1>5

-----------------------------------------------------------------------------
(* Every step.                                                             *)

\* A step that is no command, and does not change the store, is no step of the interpreter.
LEMMA Unmoved ==
    ASSUME Follows, UNCHANGED <<memories, edges, reference, relations, differed>>
    PROVE  Follows'
BY DEF Follows, Alike, Related, Has, Exists, Live, EndpointsLive

\* The interpreter follows every step, or a command parts it.
LEMMA FollowsNext ==
    ASSUME TypeInv, StepsInv, SourcesFound, ReadsAccess, parted \/ Follows, OracleNext
    PROVE  parted' \/ Follows'
<1>1. CASE parted
  <2>1. ASSUME NEW c \in Calls, Follow(c) PROVE parted'
    BY <1>1, <2>1 DEF Follow
  <2> QED BY <1>1, <2>1 DEF OracleNext, Unended
<1>2. ASSUME Follows, NEW c \in Calls, Commits(c), Follow(c) PROVE parted' \/ Follows'
  BY <1>2, AddAgrees, UpdateAgrees, FeedbackAgrees, BoostAgrees, CoReadAgrees, RelateAgrees,
     MergeAgrees, ForgetAgrees DEF Commits
<1>3. ASSUME Follows, NEW c \in Calls, Reads(c), Follow(c) PROVE Follows'
  <2>1. ~Commands(c)
    BY <1>3 DEF Commands, Asked, Reads, AskForget, AskFeedback, AskRead, AskMerge, AskRelate,
       TakeGate, ReadIndex, ReadPending, PlanLink, FindAll
  <2>2. UNCHANGED <<memories, edges>>
    BY <1>3, ReadsKeep
  <2>3. UNCHANGED <<reference, relations, differed>>
    BY <1>3, <2>1 DEF Follow
  <2> QED BY <1>3, <2>2, <2>3, Unmoved
<1>4. ASSUME Follows, NEW m \in MemoryIds, Project(m),
             UNCHANGED <<reference, relations, parted, differed>>
      PROVE  Follows'
  BY <1>4, Unmoved DEF Project
<1> QED BY <1>1, <1>2, <1>3, <1>4 DEF OracleNext, Unended, Tool, Reads, Commits

\* The requests know what they need to, and the interpreter follows unless parted.
OracleInv == TypeInv /\ StepsInv /\ SourcesFound /\ ReadsAccess /\ (parted \/ Follows)

LEMMA FollowsInit == OracleInit => Follows
<1> SUFFICES ASSUME OracleInit PROVE Follows
  OBVIOUS
<1>1. /\ reference = memories /\ relations = {} /\ edges = {} /\ ~differed
      /\ memories \in [MemoryIds -> Memory]
  BY TypeInit, Typed DEF OracleInit, Init, TypeInv
<1> QED BY <1>1 DEF Follows, Alike, Related, Has, Exists, Live

\* What follows agrees.
LEMMA FollowsAgrees == Follows => AgreesWithOracle
<1> SUFFICES ASSUME Follows PROVE AgreesWithOracle
  OBVIOUS
<1>1. Between(edges, memories) = Between(relations, reference)
  <2>1. edges \subseteq relations /\ relations \subseteq Edge
    BY DEF Follows, Related
  <2>2. ASSUME NEW e \in relations
        PROVE  EndpointsLive(memories, e) <=> EndpointsLive(reference, e)
    BY <2>1, SameEnds DEF Follows
  <2>3. ASSUME NEW e \in relations, EndpointsLive(memories, e) PROVE e \in edges
    BY <2>3 DEF Follows, Related
  <2> QED BY <2>1, <2>2, <2>3 DEF Between
<1>2. \A m \in MemoryIds : Live(m) \/ reference[m].life = "live" => memories[m] = reference[m]
  BY DEF Follows, Alike
<1> QED BY <1>1, <1>2 DEF Follows, AgreesWithOracle

(***************************************************************************)
(* Tools that read first, in calls that overlap, and commit what they      *)
(* planned come to what the interpreter makes of the same commands one     *)
(* after another: the same are refused, the same memories are live and     *)
(* alike, and the same relations are between them, until a command comes   *)
(* that the two are known to take differently.                             *)
(***************************************************************************)
THEOREM OracleAgrees == OracleSpec => []AgreesWithOracle
<1>1. OracleInit => OracleInv
  BY TypeInit, StepsInit, SourcesInit, AccessInit, FollowsInit DEF OracleInit, OracleInv
<1>2. OracleInv /\ [OracleNext]_oraclevars => OracleInv'
  <2> SUFFICES ASSUME OracleInv, [OracleNext]_oraclevars PROVE OracleInv'
    OBVIOUS
  <2>1. [Next]_memvars
    BY DEF OracleNext, oraclevars, Unended, Next
  <2>2. TypeInv' /\ StepsInv' /\ SourcesFound' /\ ReadsAccess'
    BY <2>1, TypeNext, StepsNext, SourcesNext, AccessNext DEF OracleInv
  <2>3. parted' \/ Follows'
    <3>1. CASE OracleNext
      BY <3>1, FollowsNext DEF OracleInv
    <3>2. CASE UNCHANGED oraclevars
      BY <3>2, Unmoved DEF OracleInv, oraclevars, memvars
    <3> QED BY <3>1, <3>2
  <2> QED BY <2>2, <2>3 DEF OracleInv
<1>3. OracleInv => AgreesWithOracle
  BY FollowsAgrees DEF OracleInv, AgreesWithOracle
<1> QED BY <1>1, <1>2, <1>3, PTL DEF OracleSpec
===============================================================================
