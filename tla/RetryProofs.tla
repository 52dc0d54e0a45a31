----------------------------- MODULE RetryProofs -----------------------------
(* Theorems about Retry, for any calls and bounds, with every fault.         *)
EXTENDS Retry, FiniteSetTheorems, TLAPS

-----------------------------------------------------------------------------
(* Types of the pieces.                                                    *)

LEMMA Bounds ==
    /\ 1 \in Gens /\ 0 \in 0..MaxEpoch
    /\ MaxFaults \in Nat /\ MaxRefusals \in Nat /\ MaxRestores \in Nat
    /\ MaxActivations \in Nat /\ MaxEpoch \in Nat /\ MaxGen \in Nat
BY RetryAssumption DEF Gens

LEMMA EmptyStoreType == EmptyStore \in Store
BY Bounds DEF EmptyStore, Store

LEMMA NoRequestType == NoRequest \in Request
BY Bounds DEF NoRequest, Request, Stages, Answers

\* The parts of a store, and what changing one of them gives.
LEMMA StoreParts ==
    ASSUME NEW s \in Store
    PROVE  /\ s.gen \in Gens /\ s.last \in 0..MaxEpoch
           /\ s.ns \in [Epochs -> {"none", "valid", "expired"}]
           /\ s.receipts \subseteq Key /\ s.applied \subseteq Effect /\ s.replaced \subseteq Calls
BY DEF Store

LEMMA RequestParts ==
    ASSUME TypeOK, NEW id \in Ids
    PROVE  /\ req[id] \in Request
           /\ req[id].stage \in Stages /\ req[id].gen \in Gens /\ req[id].epoch \in 0..MaxEpoch
           /\ req[id].answer \in Answers
           /\ id[1] \in Calls /\ id[2] \in Tries /\ id[3] \in Copies
           /\ KeyOf(id) \in Key
BY DEF TypeOK, Request, Ids, KeyOf, Key

LEMMA LastType == ASSUME TypeOK, NEW k \in Calls PROVE Last(k) \in Ids /\ Last(k)[1] = k
BY DEF TypeOK, Last, Ids, Copies

LEMMA ConnectedType == TypeOK => Connected \in Client
BY Bounds DEF TypeOK, Client, Connected

LEMMA ClosedType ==
    TypeOK => Closed \in Client /\ [Closed EXCEPT !.epoch = 0] \in Client
BY Bounds DEF TypeOK, Client, Closed

LEMMA UnlinkedType == TypeOK => Unlinked \in [Ids -> Request]
BY DEF TypeOK, Unlinked, Request

\* A step of the frontend that goes to a place, or tells the host something.
LEMMA GotoType ==
    ASSUME TypeOK, NEW k \in Calls, NEW place \in Places, Goto(k, place)
    PROVE  pc' \in [Calls -> Places]
BY DEF TypeOK, Goto

LEMMA TellType ==
    ASSUME TypeOK, NEW k \in Calls, NEW outcome \in Outcomes, Tell(k, outcome)
    PROVE  /\ pc' \in [Calls -> Places] /\ told' \in [Calls -> Outcomes]
           /\ holder' \in Calls \cup {NoCall} /\ try' \in [Calls -> Tries]
BY DEF TypeOK, Tell, Goto, Places

LEMMA MoveType ==
    ASSUME TypeOK, NEW id \in Ids, NEW stage \in Stages, Move(id, stage)
    PROVE  req' \in [Ids -> Request]
<1>1. [req[id] EXCEPT !.stage = stage] \in Request
  BY RequestParts DEF Request
<1> QED BY <1>1 DEF Move, TypeOK

LEMMA ReplyType ==
    ASSUME TypeOK, NEW id \in Ids, NEW answer \in Answers, Reply(id, answer)
    PROVE  req' \in [Ids -> Request]
<1>1. [req[id] EXCEPT !.stage = "answered", !.answer = answer] \in Request
  BY RequestParts DEF Request, Stages
<1>2. req' = [req EXCEPT ![id] = [req[id] EXCEPT !.stage = "answered", !.answer = answer]]
  BY DEF Reply, TypeOK
<1> QED BY <1>1, <1>2 DEF TypeOK

-----------------------------------------------------------------------------
(* Types, action by action.                                                *)

LEMMA TypeInit == Init => TypeOK
<1> SUFFICES ASSUME Init PROVE TypeOK
  OBVIOUS
<1>1. store \in Store /\ disk \in Store /\ req \in [Ids -> Request]
  BY EmptyStoreType, NoRequestType DEF Init
<1>2. client \in Client
  BY Bounds DEF Init, Client
<1>3. /\ pc \in [Calls -> Places] /\ try \in [Calls -> Tries] /\ told \in [Calls -> Outcomes]
      /\ holder \in Calls \cup {NoCall}
  BY DEF Init, Places, Tries, Outcomes
<1>4. /\ fence \in BOOLEAN /\ restores \in 0..MaxRestores /\ faults \in 0..MaxFaults
      /\ refusals \in 0..MaxRefusals /\ activations \in 0..MaxActivations
  <2>1. \A n \in Nat : 0 \in 0..n
    OBVIOUS
  <2> QED BY <2>1, Bounds DEF Init
<1> QED BY <1>1, <1>2, <1>3, <1>4 DEF TypeOK

\* The frontend up to the envelope.
LEMMA TypeGreeting ==
    ASSUME TypeOK, NEW k \in Calls,
           Begin(k) \/ Greet(k) \/ GreetAgain(k) \/ Issue(k) \/ GreetFails(k) \/ Send(k)
    PROVE  TypeOK'
<1> USE ConnectedType, ClosedType
<1>1. ASSUME Begin(k) PROVE TypeOK'
  BY <1>1, GotoType DEF Begin, TypeOK, Places, daemon, budgets
<1>2. ASSUME Greet(k) PROVE TypeOK'
  <2>1. CASE client.epoch # 0
    BY <1>2, <2>1, GotoType DEF Greet, TypeOK, Places, daemon, budgets
  <2>2. CASE client.epoch = 0
    <3> DEFINE c == IF client.conn = "none" THEN Connected ELSE client
    <3>1. c \in Client
      BY DEF TypeOK
    <3> HIDE DEF c
    <3>2. [c EXCEPT !.gen = store.gen] \in Client
      BY <3>1, StoreParts DEF TypeOK, Client
    <3>3. client' = [c EXCEPT !.gen = store.gen] /\ holder' = k /\ pc' \in [Calls -> Places]
      BY <1>2, <2>2, GotoType DEF Greet, Places, c
    <3> QED BY <1>2, <3>2, <3>3 DEF Greet, TypeOK, daemon, budgets
  <2> QED BY <2>1, <2>2
<1>3. ASSUME GreetAgain(k) PROVE TypeOK'
  BY <1>3, GotoType, TellType DEF GreetAgain, TypeOK, Places, Outcomes, daemon, budgets
<1>4. ASSUME Issue(k) PROVE TypeOK'
  <2> DEFINE e == store.last + 1
  <2>1. e \in Epochs /\ e \in 0..MaxEpoch
    BY <1>4, StoreParts, Bounds DEF Issue, TypeOK, Epochs
  <2>2. store' = [store EXCEPT !.last = e, !.ns[e] = "valid"]
    BY <1>4 DEF Issue
  <2> HIDE DEF e
  <2>3. store' \in Store
    BY <2>1, <2>2 DEF TypeOK, Store
  <2>4. CASE client.conn = "up"
    <3>1. client' = [client EXCEPT !.epoch = e] /\ pc' \in [Calls -> Places]
      BY <1>4, <2>4, GotoType DEF Issue, Places, e
    <3>2. client' \in Client
      BY <2>1, <3>1 DEF TypeOK, Client
    <3> QED BY <1>4, <2>3, <2>4, <3>1, <3>2 DEF Issue, TypeOK, budgets
  <2>5. CASE client.conn # "up"
    BY <1>4, <2>3, <2>5, GotoType DEF Issue, Places, TypeOK, budgets
  <2> QED BY <2>4, <2>5
<1>5. ASSUME GreetFails(k) PROVE TypeOK'
  BY <1>5, TellType DEF GreetFails, TypeOK, Outcomes, daemon, budgets
<1>6. ASSUME Send(k) PROVE TypeOK'
  <2> DEFINE new == [stage |-> IF client.conn = "up" THEN "wire" ELSE "none",
                     gen |-> client.gen, epoch |-> client.epoch,
                     linked |-> client.conn = "up", answer |-> "none"]
  <2>1. new \in Request
    BY DEF TypeOK, Client, Request, Stages, Answers
  <2>2. req' = [req EXCEPT ![<<k, try[k], "sent">>] = new]
    BY <1>6 DEF Send
  <2> HIDE DEF new
  <2>3. req' \in [Ids -> Request]
    BY <2>1, <2>2 DEF TypeOK
  <2>4. pc' \in [Calls -> Places] /\ holder' \in Calls \cup {NoCall}
    BY <1>6, GotoType DEF Send, Places, TypeOK
  <2> QED BY <1>6, <2>3, <2>4 DEF Send, TypeOK, daemon, budgets
<1> QED BY <1>1, <1>2, <1>3, <1>4, <1>5, <1>6

\* The frontend from the answer, or the lack of one.
LEMMA TypeAnswering ==
    ASSUME TypeOK, NEW k \in Calls,
           \/ Receive(k) \/ Renew(k) \/ StaleResend(k) \/ Broken(k)
           \/ Redial(k) \/ Resume(k) \/ ResumeFails(k)
    PROVE  TypeOK'
<1> USE ConnectedType, ClosedType, UnlinkedType
<1>1. ASSUME Receive(k) PROVE TypeOK'
  BY <1>1, TellType DEF Receive, TypeOK, Outcomes, daemon, budgets
<1>2. ASSUME Renew(k) PROVE TypeOK'
  <2>1. client' \in Client /\ try' \in [Calls -> Tries]
    BY <1>2, Bounds DEF Renew, TypeOK, Client, Tries
  <2>2. pc' \in [Calls -> Places] /\ holder' = NoCall
    BY <1>2, GotoType DEF Renew, Places
  <2> QED BY <1>2, <2>1, <2>2 DEF Renew, TypeOK, daemon, budgets
<1>3. ASSUME StaleResend(k) PROVE TypeOK'
  BY <1>3, TellType DEF StaleResend, TypeOK, Outcomes, daemon, budgets
<1>4. ASSUME Broken(k) PROVE TypeOK'
  BY <1>4, TellType, GotoType DEF Broken, Retreat, TypeOK, Outcomes, Places, daemon, budgets
<1>5. ASSUME Redial(k) PROVE TypeOK'
  BY <1>5, TellType, GotoType DEF Redial, TypeOK, Outcomes, Places, daemon, budgets
<1>6. ASSUME Resume(k) PROVE TypeOK'
  <2> DEFINE old == req[<<k, try[k], "sent">>]
             new == [old EXCEPT !.stage = "wire", !.linked = TRUE, !.answer = "none"]
  <2>1. old \in Request
    BY DEF TypeOK, Ids, Copies
  <2>2. CASE old.epoch # 0 /\ store.ns[old.epoch] = "valid"
    <3>1. /\ client' = [client EXCEPT !.epoch = old.epoch]
          /\ req' = [req EXCEPT ![<<k, try[k], "resent">>] = new]
          /\ pc' \in [Calls -> Places]
      BY <1>6, <2>2, GotoType DEF Resume, Places
    <3>2. new \in Request
      BY <2>1 DEF Request, Stages, Answers
    <3>3. client' \in Client
      BY <2>1, <3>1 DEF TypeOK, Client, Request
    <3> HIDE DEF new, old
    <3>4. req' \in [Ids -> Request]
      BY <3>1, <3>2 DEF TypeOK
    <3> QED BY <1>6, <2>2, <3>1, <3>3, <3>4 DEF Resume, TypeOK, daemon, budgets, old
  <2>3. CASE ~(old.epoch # 0 /\ store.ns[old.epoch] = "valid")
    BY <1>6, <2>3, TellType DEF Resume, TypeOK, Outcomes, daemon, budgets
  <2> QED BY <2>2, <2>3
<1>7. ASSUME ResumeFails(k) PROVE TypeOK'
  BY <1>7, TellType DEF ResumeFails, TypeOK, Outcomes, daemon, budgets
<1> QED BY <1>1, <1>2, <1>3, <1>4, <1>5, <1>6, <1>7

\* The daemon.
LEMMA TypeExecute ==
    ASSUME TypeOK, NEW id \in Ids, Execute(id)
    PROVE  TypeOK'
<1> USE DEF Work, calls, budgets
<1>1. ASSUME Gate(id) PROVE TypeOK'
  <2>1. req' \in [Ids -> Request]
    BY <1>1, MoveType, ReplyType DEF Gate, Stages, Answers
  <2> QED BY <1>1, <2>1 DEF Gate, TypeOK, daemon
<1>2. ASSUME Admit(id) PROVE TypeOK'
  <2>1. req' \in [Ids -> Request]
    BY <1>2, MoveType, ReplyType DEF Admit, Stages, Answers
  <2> QED BY <1>2, <2>1 DEF Admit, TypeOK, daemon
<1>3. ASSUME CheckReplay(id) PROVE TypeOK'
  <2>1. req' \in [Ids -> Request]
    BY <1>3, MoveType DEF CheckReplay, Stages
  <2> QED BY <1>3, <2>1 DEF CheckReplay, TypeOK, daemon
<1>4. ASSUME Lock(id) PROVE TypeOK'
  <2>1. req' \in [Ids -> Request]
    BY <1>4, MoveType, ReplyType DEF Lock, Stages, Answers
  <2> QED BY <1>4, <2>1 DEF Lock, TypeOK, daemon
<1>5. ASSUME Transact(id) PROVE TypeOK'
  <2>1. req' \in [Ids -> Request]
    BY <1>5, MoveType, ReplyType DEF Transact, Stages, Answers
  <2>2. store' \in Store
    <3> DEFINE new == [key |-> KeyOf(id), copy |-> id[3], at |-> store.gen]
    <3>1. new \in Effect /\ KeyOf(id) \in Key
      BY RequestParts, StoreParts DEF Effect, TypeOK
    <3> HIDE DEF new
    <3>2. \/ store' = store
          \/ store' = [store EXCEPT !.receipts = store.receipts \cup {KeyOf(id)},
                                    !.applied = store.applied \cup {new}]
      BY <1>5 DEF Transact, new
    <3>3. /\ store.receipts \cup {KeyOf(id)} \subseteq Key
          /\ store.applied \cup {new} \subseteq Effect
      BY <3>1, StoreParts DEF TypeOK
    <3> DEFINE receipts == store.receipts \cup {KeyOf(id)}
               applied  == store.applied \cup {new}
    <3> HIDE DEF receipts, applied
    <3>4. /\ receipts \in SUBSET Key /\ applied \in SUBSET Effect
          /\ store' = store \/ store' = [store EXCEPT !.receipts = receipts, !.applied = applied]
      BY <3>2, <3>3 DEF receipts, applied
    <3> QED BY <3>4 DEF TypeOK, Store
  <2> QED BY <1>5, <2>1, <2>2 DEF Transact, TypeOK
<1>6. ASSUME Acknowledge(id) PROVE TypeOK'
  <2>1. req' \in [Ids -> Request]
    BY <1>6, ReplyType DEF Acknowledge, Answers
  <2> QED BY <1>6, <2>1 DEF Acknowledge, Barrier, TypeOK
<1> QED BY <1>1, <1>2, <1>3, <1>4, <1>5, <1>6 DEF Execute

\* A restore that has the lock still has the generation it was admitted with,
\* which has a successor.
FenceInv == fence => store.gen < MaxGen /\ restores < MaxRestores

\* Expiry, collection, restores, activations.
LEMMA TypeStore ==
    ASSUME TypeOK, FenceInv,
           \/ \E e \in Epochs : Expire(e) \/ Collect(e)
           \/ RestoreBegin \/ RestoreReplace \/ Activate \/ Flush
    PROVE  TypeOK'
<1> USE DEF Work, calls, budgets
<1>1. ASSUME NEW e \in Epochs, Expire(e) PROVE TypeOK'
  <2>1. store' \in Store
    BY <1>1 DEF Expire, TypeOK, Store
  <2>2. disk' \in Store
    <3> DEFINE now == IF disk.ns[e] = "valid" THEN "expired" ELSE disk.ns[e]
    <3>1. now \in {"none", "valid", "expired"}
      BY StoreParts DEF TypeOK
    <3>2. disk' = [disk EXCEPT !.ns[e] = now]
      BY <1>1 DEF Expire
    <3> HIDE DEF now
    <3> QED BY <3>1, <3>2 DEF TypeOK, Store
  <2> QED BY <1>1, <2>1, <2>2 DEF Expire, TypeOK
<1>2. ASSUME NEW e \in Epochs, Collect(e) PROVE TypeOK'
  <2>1. store' \in Store
    BY <1>2 DEF Collect, TypeOK, Store
  <2> QED BY <1>2, <2>1 DEF Collect, TypeOK
<1>3. ASSUME RestoreBegin PROVE TypeOK'
  BY <1>3 DEF RestoreBegin, TypeOK
<1>4. ASSUME RestoreReplace PROVE TypeOK'
  <2> DEFINE gone == store.replaced \cup {f.key.call : f \in store.applied}
  <2>1. gone \subseteq Calls
    BY StoreParts DEF TypeOK, Effect, Key
  <2>2. store.gen + 1 \in Gens /\ restores + 1 \in 0..MaxRestores
    BY <1>4, Bounds DEF RestoreReplace, FenceInv, TypeOK, Gens, Store
  <2>3. store' = [EmptyStore EXCEPT !.gen = store.gen + 1, !.replaced = gone]
    BY <1>4 DEF RestoreReplace
  <2> HIDE DEF gone
  <2>4. store' \in Store
    BY <2>1, <2>2, <2>3, EmptyStoreType DEF Store
  <2> QED BY <1>4, <2>2, <2>4 DEF RestoreReplace, TypeOK
<1>5. ASSUME Activate PROVE TypeOK'
  <2>1. store' \in Store
    BY <1>5, Bounds DEF Activate, TypeOK, Store, Gens
  <2> QED BY <1>5, <2>1, Bounds DEF Activate, TypeOK
<1>6. ASSUME Flush PROVE TypeOK'
  BY <1>6 DEF Flush, TypeOK
<1> QED BY <1>1, <1>2, <1>3, <1>4, <1>5, <1>6

\* Calls, failing dials, refusals, losses, drops and outages.
LEMMA TypeFault ==
    ASSUME TypeOK,
           \/ \E k \in Calls : Ask(k) \/ DialFails(k)
           \/ \E id \in Ids : Refuse(id) \/ Lost(id)
           \/ Drop \/ Outage
    PROVE  TypeOK'
<1> USE Bounds
<1>1. ASSUME NEW k \in Calls, Ask(k) PROVE TypeOK'
  <2>1. pc' \in [Calls -> Places] /\ told' \in [Calls -> Outcomes]
    BY <1>1, GotoType DEF Ask, Places, Outcomes, TypeOK
  <2> QED BY <1>1, <2>1 DEF Ask, TypeOK, daemon, budgets
<1>2. ASSUME NEW k \in Calls, DialFails(k) PROVE TypeOK'
  <2>1. faults' \in 0..MaxFaults
    BY <1>2 DEF DialFails, TypeOK
  <2>2. client' \in Client /\ req' \in [Ids -> Request]
    BY <1>2, ClosedType, UnlinkedType DEF DialFails, TypeOK
  <2>3. /\ pc' \in [Calls -> Places] /\ told' \in [Calls -> Outcomes]
        /\ holder' \in Calls \cup {NoCall} /\ try' \in [Calls -> Tries]
    BY <1>2, TellType DEF DialFails, Outcomes
  <2> QED BY <1>2, <2>1, <2>2, <2>3 DEF DialFails, TypeOK, daemon
<1>3. ASSUME NEW id \in Ids, Refuse(id) PROVE TypeOK'
  <2>1. req' \in [Ids -> Request] /\ refusals' \in 0..MaxRefusals
    BY <1>3, ReplyType DEF Refuse, Answers, TypeOK
  <2> QED BY <1>3, <2>1 DEF Refuse, TypeOK, daemon, calls
<1>4. ASSUME NEW id \in Ids, Lost(id) PROVE TypeOK'
  <2>1. req' \in [Ids -> Request]
    BY <1>4, MoveType DEF Lost, Stages
  <2> QED BY <1>4, <2>1 DEF Lost, TypeOK, daemon, Work, calls, budgets
<1>5. ASSUME Drop PROVE TypeOK'
  <2>1. client' \in Client /\ req' \in [Ids -> Request] /\ faults' \in 0..MaxFaults
    BY <1>5, UnlinkedType DEF Drop, Fault, TypeOK, Client
  <2> QED BY <1>5, <2>1 DEF Drop, TypeOK, daemon, calls
<1>6. ASSUME Outage PROVE TypeOK'
  <2>1. client' \in Client /\ faults' \in 0..MaxFaults
    <3>1. client' = [client EXCEPT !.conn = "dead"] \/ client' = [client EXCEPT !.conn = client.conn]
      BY <1>6 DEF Outage
    <3>2. client' \in Client
      BY <3>1 DEF TypeOK, Client
    <3>3. faults \in 0..MaxFaults /\ faults < MaxFaults /\ faults' = faults + 1
      BY <1>6 DEF Outage, Fault, TypeOK
    <3>4. faults' \in 0..MaxFaults
      BY <3>3
    <3> QED BY <3>2, <3>4
  <2>2. req' \in [Ids -> Request]
    <3>1. ASSUME NEW id \in Ids
          PROVE  (IF Executing(id) THEN [req[id] EXCEPT !.stage = "lost", !.linked = FALSE]
                  ELSE [req[id] EXCEPT !.linked = FALSE]) \in Request
      BY RequestParts DEF Request, Stages
    <3> QED BY <1>6, <3>1 DEF Outage
  <2> QED BY <1>6, <2>1, <2>2 DEF Outage, TypeOK, calls
<1> QED BY <1>1, <1>2, <1>3, <1>4, <1>5, <1>6

LEMMA TypeNext == TypeOK /\ FenceInv /\ [Next]_vars => TypeOK'
<1>1. ASSUME TypeOK, UNCHANGED vars PROVE TypeOK'
  BY <1>1 DEF vars, daemon, calls, budgets, TypeOK
<1> QED BY <1>1, TypeGreeting, TypeAnswering, TypeExecute, TypeStore, TypeFault
        DEF Next, Frontend, Environment

LEMMA FenceNext == TypeOK /\ FenceInv /\ [Next]_vars => FenceInv'
<1> SUFFICES ASSUME TypeOK, FenceInv, [Next]_vars PROVE FenceInv'
  OBVIOUS
<1>1. ASSUME NEW k \in Calls, Frontend(k) PROVE fence' = fence /\ restores' = restores /\ store'.gen = store.gen
  <2>1. ASSUME Issue(k) PROVE store'.gen = store.gen
    BY <2>1 DEF Issue, TypeOK, Store
  <2> QED BY <1>1, <2>1 DEF Frontend, Begin, Greet, GreetAgain, Issue, GreetFails, Send, Receive,
        Renew, StaleResend, Broken, Redial, Resume, ResumeFails, daemon
<1>2. ASSUME NEW id \in Ids, Execute(id) PROVE fence' = fence /\ restores' = restores /\ store'.gen = store.gen
  <2>1. ASSUME Transact(id) PROVE store'.gen = store.gen
    BY <2>1 DEF Transact, TypeOK, Store
  <2> QED BY <1>2, <2>1 DEF Execute, Gate, Admit, CheckReplay, Lock, Transact, Acknowledge, daemon
<1>3. CASE RestoreReplace
  BY <1>3 DEF RestoreReplace, FenceInv
<1>4. CASE Environment
  <2>1. ASSUME NEW e \in Epochs, Expire(e) \/ Collect(e)
        PROVE  fence' = fence /\ restores' = restores /\ store'.gen = store.gen
    BY <2>1 DEF Expire, Collect, TypeOK, Store
  <2>2. ASSUME NEW k \in Calls, Ask(k) \/ DialFails(k) PROVE UNCHANGED daemon
    BY <2>2 DEF Ask, DialFails
  <2>3. ASSUME NEW id \in Ids, Refuse(id) \/ Lost(id) PROVE UNCHANGED daemon
    BY <2>3 DEF Refuse, Lost
  <2>4. ASSUME RestoreBegin \/ Activate \/ Flush \/ Drop \/ Outage PROVE FenceInv'
    BY <2>4 DEF RestoreBegin, Activate, Flush, Drop, Outage, FenceInv, daemon
  <2> QED BY <1>4, <2>1, <2>2, <2>3, <2>4 DEF Environment, FenceInv, daemon
<1>5. CASE UNCHANGED vars
  BY <1>5 DEF vars, daemon, FenceInv
<1> QED BY <1>1, <1>2, <1>3, <1>4, <1>5 DEF Next, FenceInv

LEMMA Typed == Spec => [](TypeOK /\ FenceInv)
<1>1. Init => TypeOK /\ FenceInv
  BY TypeInit DEF Init, FenceInv
<1> QED BY <1>1, TypeNext, FenceNext, PTL DEF Spec

\* Epochs, generations, stages and answers stay what they are under every
\* fault; in particular no restore runs past the last generation.
THEOREM RetryTypeCorrect == Spec => []TypeOK
BY Typed, PTL

-----------------------------------------------------------------------------
(* Success is durable.  What a call has done is its effect, or the restore  *)
(* that replaced a store with its effect; that only grows, but for a power  *)
(* failure, which ends every request and undoes nothing of the disk.        *)

Done(k, s) == (\E f \in s.applied : f.key.call = k) \/ k \in s.replaced

\* A receipt is never without the effect it was committed with.
Vouched(s) == \A r \in s.receipts : Done(r.call, s)

DiskBehind == \A k \in Calls : Done(k, disk) => Done(k, store)

Past == {"commit", "replay"}

CommittedIsDone == \A id \in Ids : req[id].stage \in Past => Done(id[1], store)

AnsweredIsDurable == \A id \in Ids : req[id].answer = "success" => Done(id[1], disk)

ToldIsDurable == \A k \in Calls : told[k] = "success" => Done(k, disk)

DurableInv == /\ Vouched(store) /\ Vouched(disk) /\ DiskBehind
              /\ CommittedIsDone /\ AnsweredIsDurable /\ ToldIsDurable

\* A step that adds no request past its transaction and no answered success.
Quiet == \A id \in Ids : /\ req'[id].stage \in Past => req[id].stage \in Past
                         /\ req'[id].answer = "success" => req[id].answer = "success"

\* What is done stays done, in the store and on the disk.
StoreGrows == \A k \in Calls : Done(k, store) => Done(k, store')

DiskGrows == \A k \in Calls : /\ Done(k, disk) => Done(k, disk')
                              /\ Done(k, disk') => Done(k, store')

\* A step that leaves receipts and effects, and perhaps flushes the journal.
Unmoved == /\ store'.applied = store.applied /\ store'.replaced = store.replaced
           /\ store'.receipts \subseteq store.receipts
           /\ \/ disk' = store'
              \/ /\ disk'.applied = disk.applied /\ disk'.replaced = disk.replaced
                 /\ disk'.receipts = disk.receipts

LEMMA UnmovedGrows ==
    ASSUME DurableInv, Unmoved
    PROVE  StoreGrows /\ DiskGrows /\ Vouched(store)' /\ Vouched(disk)'
<1>1. \A k \in Calls : Done(k, store') <=> Done(k, store)
  BY DEF Unmoved, Done
<1>2. Vouched(store)'
  BY DEF DurableInv, Unmoved, Vouched, Done
<1>3. CASE disk' = store'
  BY <1>1, <1>2, <1>3 DEF DurableInv, DiskBehind, StoreGrows, DiskGrows, Vouched
<1>4. CASE /\ disk'.applied = disk.applied /\ disk'.replaced = disk.replaced
           /\ disk'.receipts = disk.receipts
  <2>1. \A k \in Calls : Done(k, disk') <=> Done(k, disk)
    BY <1>4 DEF Done
  <2>2. Vouched(disk)'
    BY <1>4 DEF DurableInv, Vouched, Done
  <2> QED BY <1>1, <1>2, <2>1, <2>2 DEF DurableInv, DiskBehind, StoreGrows, DiskGrows
<1> QED BY <1>3, <1>4 DEF Unmoved

LEMMA GrowingKeeps ==
    ASSUME DurableInv, StoreGrows, DiskGrows, Vouched(store)', Vouched(disk)',
           \A id \in Ids : id[1] \in Calls,
           \A id \in Ids : \/ /\ req'[id].stage \in Past => req[id].stage \in Past
                              /\ req'[id].answer = "success" => req[id].answer = "success"
                           \/ /\ req'[id].stage \in Past => Done(id[1], store')
                              /\ req'[id].answer = "success" => Done(id[1], disk'),
           \A k \in Calls : told'[k] = "success" => told[k] = "success" \/ Done(k, disk)
    PROVE  DurableInv'
<1>1. DiskBehind'
  BY DEF DiskGrows, DiskBehind
<1>2. ASSUME NEW id \in Ids
      PROVE  /\ req'[id].stage \in Past => Done(id[1], store')
             /\ req'[id].answer = "success" => Done(id[1], disk')
  BY DEF DurableInv, CommittedIsDone, AnsweredIsDurable, StoreGrows, DiskGrows
<1>3. ASSUME NEW k \in Calls, told'[k] = "success" PROVE Done(k, disk')
  BY <1>3 DEF DurableInv, ToldIsDurable, DiskGrows
<1> QED BY <1>1, <1>2, <1>3 DEF DurableInv, CommittedIsDone, AnsweredIsDurable, ToldIsDurable

LEMMA CallOf == \A id \in Ids : id[1] \in Calls
BY DEF Ids

\* The frontend mints no success: it passes on an answer that it was given.
LEMMA DurableFrontend ==
    ASSUME TypeOK, DurableInv, NEW k \in Calls, Frontend(k)
    PROVE  DurableInv'
<1>1. Unmoved
  <2>1. ASSUME Issue(k) PROVE Unmoved
    BY <2>1 DEF Issue, Unmoved, TypeOK, Store
  <2>2. ASSUME ~Issue(k) PROVE UNCHANGED daemon
    BY <2>2 DEF Frontend, Begin, Greet, GreetAgain, GreetFails, Send, Receive,
         Renew, StaleResend, Broken, Redial, Resume, ResumeFails
  <2> QED BY <2>1, <2>2 DEF Unmoved, daemon
<1>2. Quiet
  <2>1. ASSUME Send(k) PROVE Quiet
    <3> DEFINE new == [stage |-> IF client.conn = "up" THEN "wire" ELSE "none",
                       gen |-> client.gen, epoch |-> client.epoch,
                       linked |-> client.conn = "up", answer |-> "none"]
    <3>1. req' = [req EXCEPT ![<<k, try[k], "sent">>] = new]
      BY <2>1 DEF Send
    <3>2. new.stage \notin Past /\ new.answer # "success"
      BY DEF Past
    <3> HIDE DEF new
    <3> QED BY <3>1, <3>2 DEF Quiet, TypeOK
  <2>2. ASSUME Resume(k) PROVE Quiet
    <3>1. req[<<k, try[k], "sent">>] \in Request
      BY DEF TypeOK, Ids, Copies
    <3> DEFINE new == [req[<<k, try[k], "sent">>] EXCEPT
                         !.stage = "wire", !.linked = TRUE, !.answer = "none"]
    <3>2. req' = req \/ req' = [req EXCEPT ![<<k, try[k], "resent">>] = new]
      BY <2>2 DEF Resume
    <3>3. new.stage \notin Past /\ new.answer # "success"
      BY <3>1 DEF Past, Request
    <3> HIDE DEF new
    <3> QED BY <3>2, <3>3 DEF Quiet, TypeOK
  <2>3. ASSUME Redial(k) PROVE Quiet
    BY <2>3 DEF Redial, Unlinked, Quiet, TypeOK, Request
  <2>4. ASSUME ~Send(k), ~Resume(k), ~Redial(k) PROVE req' = req
    BY <2>4 DEF Frontend, Begin, Greet, GreetAgain, Issue, GreetFails, Receive,
         Renew, StaleResend, Broken, ResumeFails
  <2> QED BY <2>1, <2>2, <2>3, <2>4 DEF Quiet
<1>3. \A j \in Calls : told'[j] = "success" => told[j] = "success" \/ Done(j, disk)
  <2>1. ASSUME Receive(k), NEW j \in Calls, told'[j] = "success"
        PROVE  told[j] = "success" \/ Done(j, disk)
    <3>1. CASE j # k
      BY <2>1, <3>1 DEF Receive, Tell, TypeOK
    <3>2. CASE j = k
      <4>1. req[Last(k)].answer = "success"
        BY <2>1, <3>2 DEF Receive, Tell, TypeOK
      <4> QED BY <4>1, <3>2, LastType DEF DurableInv, AnsweredIsDurable
    <3> QED BY <3>1, <3>2
  <2>2. ASSUME ~Receive(k), NEW j \in Calls, told'[j] = "success" PROVE told[j] = "success"
    BY <2>2 DEF Frontend, Begin, Greet, GreetAgain, Issue, GreetFails, Send,
         Renew, StaleResend, Broken, Retreat, Redial, Resume, ResumeFails, Tell, TypeOK
  <2> QED BY <2>1, <2>2
<1> QED BY <1>1, <1>2, <1>3, UnmovedGrows, GrowingKeeps, CallOf DEF Quiet

\* The requests: a transaction that finds a receipt finds what it vouches for.
LEMMA DurableExecute ==
    ASSUME TypeOK, DurableInv, NEW id \in Ids, Execute(id)
    PROVE  DurableInv'
<1> DEFINE Fine(i) == \/ /\ req'[i].stage \in Past => req[i].stage \in Past
                         /\ req'[i].answer = "success" => req[i].answer = "success"
                      \/ /\ req'[i].stage \in Past => Done(i[1], store')
                         /\ req'[i].answer = "success" => Done(i[1], disk')
<1>1. Recorded(id) => Done(id[1], store)
  BY DEF Recorded, KeyOf, DurableInv, Vouched
<1>2. told' = told
  BY DEF Execute, Gate, Admit, CheckReplay, Lock, Transact, Acknowledge, Work, calls
<1>3. \A i \in Ids : i # id => req'[i] = req[i]
  BY DEF Execute, Gate, Admit, CheckReplay, Lock, Transact, Acknowledge, Move, Reply, TypeOK
<1>4. req[id] \in Request
  BY RequestParts
<1>5. ASSUME Gate(id) \/ Admit(id) \/ CheckReplay(id) \/ Lock(id) PROVE DurableInv'
  <2>1. UNCHANGED daemon
    BY <1>5 DEF Gate, Admit, CheckReplay, Lock
  <2>2. /\ req'[id].stage \in Past => Recorded(id)
        /\ req'[id].answer = "success" => req[id].answer = "success"
    BY <1>4, <1>5 DEF Gate, Admit, CheckReplay, Lock, Move, Reply, TypeOK, Past, Request
  <2>3. Unmoved
    BY <2>1 DEF Unmoved, daemon
  <2>4. Fine(id)
    BY <1>1, <2>1, <2>2 DEF daemon, DurableInv, AnsweredIsDurable
  <2>5. \A i \in Ids : Fine(i)
    BY <2>4, <1>3
  <2> QED BY <1>2, <2>3, <2>5, UnmovedGrows, GrowingKeeps, CallOf
<1>6. ASSUME Transact(id) PROVE DurableInv'
  <2> DEFINE new == [key |-> KeyOf(id), copy |-> id[3], at |-> store.gen]
  <2>1. \/ store' = store
        \/ /\ store'.receipts = store.receipts \cup {KeyOf(id)}
           /\ store'.applied = store.applied \cup {new} /\ store'.replaced = store.replaced
    BY <1>6 DEF Transact, TypeOK, Store
  <2>2. new.key.call = id[1] /\ KeyOf(id).call = id[1]
    BY DEF KeyOf
  <2>3. StoreGrows
    BY <2>1 DEF StoreGrows, Done
  <2>4. disk' = disk
    BY <1>6 DEF Transact
  <2>5. DiskGrows
    BY <2>3, <2>4 DEF DiskGrows, StoreGrows, DurableInv, DiskBehind
  <2>6. Vouched(store)' /\ Vouched(disk)'
    BY <2>1, <2>2, <2>4 DEF DurableInv, Vouched, Done
  <2>7. req'[id].stage \in Past => Done(id[1], store')
    <3>1. CASE Recorded(id)
      BY <1>1, <3>1, <2>3, CallOf DEF StoreGrows
    <3>2. CASE ~Recorded(id) /\ ~Fenced(id)
      <4>1. Reply(id, "staleGeneration")
        BY <1>6, <3>2 DEF Transact
      <4>2. req'[id].stage = "answered"
        BY <4>1, <1>4 DEF Reply, TypeOK, Request
      <4> QED BY <4>2 DEF Past
    <3>3. CASE ~Recorded(id) /\ Fenced(id)
      <4>1. store'.applied = store.applied \cup {new}
        BY <1>6, <3>3 DEF Transact, TypeOK, Store
      <4> QED BY <4>1, <2>2 DEF Done
    <3> QED BY <3>1, <3>2, <3>3
  <2>8. req'[id].answer = "success" => req[id].answer = "success"
    BY <1>4, <1>6 DEF Transact, Move, Reply, TypeOK, Request
  <2>9. \A i \in Ids : Fine(i)
    BY <2>7, <2>8, <1>3, <2>4 DEF DurableInv, AnsweredIsDurable
  <2> QED BY <1>2, <2>3, <2>5, <2>6, <2>9, GrowingKeeps, CallOf
<1>7. ASSUME Acknowledge(id) PROVE DurableInv'
  <2>1. disk' = store /\ store' = store /\ req[id].stage \in Past
    BY <1>7 DEF Acknowledge, Barrier, At, Past
  <2>2. Unmoved
    BY <2>1 DEF Unmoved
  <2>3. req'[id].stage = "answered"
    BY <1>4, <1>7 DEF Acknowledge, Reply, TypeOK
  <2>4. Fine(id)
    BY <2>1, <2>3 DEF Past, DurableInv, CommittedIsDone
  <2>5. \A i \in Ids : Fine(i)
    BY <2>4, <1>3
  <2> QED BY <1>2, <2>2, <2>5, UnmovedGrows, GrowingKeeps, CallOf
<1> QED BY <1>5, <1>6, <1>7 DEF Execute

\* Expiry, collection, activation, restores and faults.
LEMMA DurableAround ==
    ASSUME TypeOK, DurableInv, RestoreReplace \/ Environment
    PROVE  DurableInv'
<1>1. ASSUME Unmoved, Quiet, \A k \in Calls : told'[k] = "success" => told[k] = "success"
      PROVE  DurableInv'
  BY <1>1, UnmovedGrows, GrowingKeeps, CallOf DEF Quiet
<1>2. ASSUME NEW e \in Epochs, Expire(e) PROVE DurableInv'
  <2>1. Unmoved
    BY <1>2 DEF Expire, Unmoved, TypeOK, Store
  <2> QED BY <1>1, <1>2, <2>1 DEF Expire, Quiet, Work, calls
<1>3. ASSUME NEW e \in Epochs, Collect(e) PROVE DurableInv'
  <2>1. Unmoved
    BY <1>3 DEF Collect, Unmoved, TypeOK, Store
  <2> QED BY <1>1, <1>3, <2>1 DEF Collect, Quiet, Work, calls
<1>4. ASSUME Activate PROVE DurableInv'
  <2>1. Unmoved
    BY <1>4 DEF Activate, Unmoved, TypeOK, Store
  <2> QED BY <1>1, <1>4, <2>1 DEF Activate, Quiet, calls
<1>5. ASSUME RestoreBegin \/ Flush PROVE DurableInv'
  <2>1. Unmoved
    BY <1>5 DEF RestoreBegin, Flush, Unmoved
  <2> QED BY <1>1, <1>5, <2>1 DEF RestoreBegin, Flush, Quiet, Work, calls
<1>6. ASSUME NEW k \in Calls, Ask(k) \/ DialFails(k) PROVE DurableInv'
  <2>1. Unmoved
    BY <1>6 DEF Ask, DialFails, daemon, Unmoved
  <2>2. Quiet
    BY <1>6 DEF Ask, DialFails, Unlinked, Quiet, TypeOK, Request
  <2>3. \A j \in Calls : told'[j] = "success" => told[j] = "success"
    BY <1>6 DEF Ask, DialFails, Tell, TypeOK
  <2> QED BY <1>1, <2>1, <2>2, <2>3
<1>7. ASSUME NEW id \in Ids, Refuse(id) \/ Lost(id) PROVE DurableInv'
  <2>1. Unmoved
    BY <1>7 DEF Refuse, Lost, daemon, Unmoved
  <2>2. Quiet
    <3>1. \A i \in Ids : i # id => req'[i] = req[i]
      BY <1>7 DEF Refuse, Lost, Move, Reply, TypeOK
    <3>2. req'[id].stage \notin Past /\ (req'[id].answer = "success" => req[id].answer = "success")
      BY <1>7, RequestParts DEF Refuse, Lost, Move, Reply, TypeOK, Request, Past
    <3> QED BY <3>1, <3>2 DEF Quiet
  <2> QED BY <1>1, <1>7, <2>1, <2>2 DEF Refuse, Lost, Work, calls
<1>8. ASSUME Drop PROVE DurableInv'
  <2>1. Unmoved
    BY <1>8 DEF Drop, daemon, Unmoved
  <2>2. Quiet
    BY <1>8 DEF Drop, Unlinked, Quiet, TypeOK, Request
  <2> QED BY <1>1, <1>8, <2>1, <2>2 DEF Drop, calls
\* A power failure: the store is the disk, and no request is past anything.
<1>9. ASSUME Outage PROVE DurableInv'
  <2>1. store' = disk /\ disk' = disk /\ told' = told
    BY <1>9 DEF Outage, calls
  <2>2. ASSUME NEW id \in Ids
        PROVE  /\ req'[id].stage \notin Past
               /\ req'[id].answer = "success" => req[id].answer = "success"
    <3>1. req[id] \in Request
      BY RequestParts
    <3>2. \/ Executing(id) /\ req'[id] = [req[id] EXCEPT !.stage = "lost", !.linked = FALSE]
          \/ ~Executing(id) /\ req'[id] = [req[id] EXCEPT !.linked = FALSE]
      BY <1>9 DEF Outage
    <3> QED BY <3>1, <3>2 DEF Request, Executing, Past
  <2> QED BY <2>1, <2>2 DEF DurableInv, Vouched, DiskBehind, CommittedIsDone,
        AnsweredIsDurable, ToldIsDurable, Done
\* A restore: the store is new, and remembers what it replaced.
<1>10. ASSUME RestoreReplace PROVE DurableInv'
  <2>1. /\ store'.receipts = {} /\ store'.applied = {} /\ disk' = store'
        /\ store'.replaced = store.replaced \cup {f.key.call : f \in store.applied}
    BY <1>10 DEF RestoreReplace, EmptyStore
  <2>2. StoreGrows
    BY <2>1 DEF StoreGrows, Done
  <2>3. DiskGrows
    BY <2>1, <2>2 DEF StoreGrows, DiskGrows, DurableInv, DiskBehind
  <2>4. Vouched(store)' /\ Vouched(disk)'
    BY <2>1 DEF Vouched
  <2>5. req' = req /\ told' = told
    BY <1>10 DEF RestoreReplace, Work, calls
  <2> QED BY <2>2, <2>3, <2>4, <2>5, GrowingKeeps, CallOf
<1> QED BY <1>2, <1>3, <1>4, <1>5, <1>6, <1>7, <1>8, <1>9, <1>10 DEF Environment

LEMMA DurableNext == TypeOK /\ DurableInv /\ [Next]_vars => DurableInv'
<1>1. ASSUME DurableInv, UNCHANGED vars PROVE DurableInv'
  BY <1>1 DEF vars, daemon, calls, DurableInv, Vouched, DiskBehind, CommittedIsDone,
       AnsweredIsDurable, ToldIsDurable, Done
<1> QED BY <1>1, DurableFrontend, DurableExecute, DurableAround DEF Next

LEMMA DurableInit == Init => DurableInv
BY DEF Init, EmptyStore, NoRequest, DurableInv, Vouched, DiskBehind, CommittedIsDone,
     AnsweredIsDurable, ToldIsDurable, Past

\* A success told to a host is on the disk, whatever was lost, resent, expired,
\* collected or replayed on the way (Acknowledge flushes before it answers, for
\* a replay too), or a restore replaced the store that had it.
THEOREM ToldSuccessIsDurable == Spec => []SuccessIsDurable
<1>1. DurableInv => SuccessIsDurable
  BY DEF DurableInv, ToldIsDurable, SuccessIsDurable, Done, EffectsOf
<1> QED BY <1>1, DurableInit, DurableNext, Typed, PTL DEF Spec

-----------------------------------------------------------------------------
(* The generation fence.                                                   *)

\* The commands' effects met the generation their envelopes name.
Met(s) == \A f \in s.applied : f.key.call \in Guides \/ f.at = f.key.gen

LEMMA MetNext == TypeOK /\ Met(store) /\ Met(disk) /\ [Next]_vars => Met(store)' /\ Met(disk)'
<1> SUFFICES ASSUME TypeOK, Met(store), Met(disk), [Next]_vars PROVE Met(store)' /\ Met(disk)'
  OBVIOUS
<1>1. ASSUME NEW id \in Ids, Transact(id) PROVE Met(store)' /\ Met(disk)'
  <2> DEFINE new == [key |-> KeyOf(id), copy |-> id[3], at |-> store.gen]
  <2>1. \/ store' = store
        \/ store'.applied = store.applied \cup {new} /\ Fenced(id)
    BY <1>1 DEF Transact, TypeOK, Store
  <2>2. Fenced(id) => new.key.call \in Guides \/ new.at = new.key.gen
    BY DEF Fenced, KeyOf
  <2> QED BY <1>1, <2>1, <2>2 DEF Transact, Met
\* Every other step leaves the effects, or copies or drops them.
<1>2. ASSUME store'.applied \in {store.applied, disk.applied, {}},
             disk'.applied \in {store.applied, store'.applied, disk.applied}
      PROVE  Met(store)' /\ Met(disk)'
  BY <1>2 DEF Met
<1>3. ASSUME NEW k \in Calls, Frontend(k) PROVE Met(store)' /\ Met(disk)'
  <2>1. ASSUME Issue(k) PROVE store'.applied = store.applied /\ disk' = store'
    BY <2>1 DEF Issue, TypeOK, Store
  <2>2. ASSUME ~Issue(k) PROVE UNCHANGED daemon
    BY <1>3, <2>2 DEF Frontend, Begin, Greet, GreetAgain, GreetFails, Send, Receive,
         Renew, StaleResend, Broken, Redial, Resume, ResumeFails
  <2> QED BY <1>2, <2>1, <2>2 DEF daemon
<1>4. ASSUME NEW id \in Ids, Execute(id), ~Transact(id) PROVE Met(store)' /\ Met(disk)'
  <2>1. store' = store /\ disk' \in {disk, store}
    BY <1>4 DEF Execute, Gate, Admit, CheckReplay, Lock, Acknowledge, Barrier, daemon
  <2> QED BY <1>2, <2>1
<1>5. ASSUME NEW e \in Epochs, Expire(e) \/ Collect(e) PROVE Met(store)' /\ Met(disk)'
  <2>1. store'.applied = store.applied /\ disk'.applied \in {disk.applied, store'.applied}
    BY <1>5 DEF Expire, Collect, TypeOK, Store
  <2> QED BY <1>2, <2>1
<1>6. ASSUME RestoreReplace \/ Activate PROVE Met(store)' /\ Met(disk)'
  <2>1. store'.applied \in {store.applied, {}} /\ disk' = store'
    BY <1>6 DEF RestoreReplace, Activate, EmptyStore, TypeOK, Store
  <2> QED BY <1>2, <2>1
<1>7. ASSUME \/ RestoreBegin \/ Flush \/ Drop \/ Outage
             \/ \E k \in Calls : Ask(k) \/ DialFails(k)
             \/ \E id \in Ids : Refuse(id) \/ Lost(id)
      PROVE  Met(store)' /\ Met(disk)'
  <2>1. store' \in {store, disk} /\ disk' \in {store, disk}
    BY <1>7 DEF RestoreBegin, Flush, Drop, Outage, Ask, DialFails, Refuse, Lost, daemon
  <2> QED BY <1>2, <2>1
<1>8. CASE UNCHANGED vars
  BY <1>2, <1>8 DEF vars, daemon
<1> QED BY <1>1, <1>3, <1>4, <1>5, <1>6, <1>7, <1>8 DEF Next, Environment

\* No command of before a restore lands in the restored store: a transaction
\* that is not of a guide compares the generations first.  Guide mutations do
\* not, so there must be none.
THEOREM CommandsAreFenced == Guides = {} => (Spec => []GenerationFence)
<1> SUFFICES ASSUME Guides = {} PROVE Spec => []GenerationFence
  OBVIOUS
<1>1. Init => Met(store) /\ Met(disk)
  BY DEF Init, EmptyStore, Met
<1>2. Met(store) => GenerationFence
  BY DEF Met, GenerationFence
<1> QED BY <1>1, <1>2, MetNext, Typed, PTL DEF Spec
-----------------------------------------------------------------------------
(* Stale answers are certain, and no call takes effect twice.  An effect    *)
(* keeps the request it came from: that one is past its transaction for     *)
(* good.  Its receipt is only collected once no request of its epoch is     *)
(* admitted, and none is admitted afterwards.                               *)

Pinning == {"admitted", "planned", "tx", "commit", "replay"}

\* A request whose transaction may have committed.
Owned(id) == \/ req[id].stage \in {"commit", "lost"}
             \/ req[id].stage = "answered" /\ req[id].answer \in {"success", "refused"}

\* An epoch that was collected.
Dead(e) == e \in Epochs /\ e <= store.last /\ store.ns[e] = "none"

\* The disk may lack effects and receipts, nothing else.
DiskFollows == /\ disk.gen = store.gen /\ disk.last = store.last /\ disk.ns = store.ns
               /\ disk.replaced = store.replaced /\ disk.applied \subseteq store.applied

EpochsInv ==
    /\ \A e \in Epochs : store.ns[e] # "none" => e <= store.last
    /\ \A id \in Ids : req[id].stage \in Pinning =>
                          req[id].epoch \in Epochs /\ ~Dead(req[id].epoch)

Receipted(s) == \A f \in s.applied : f.key \in s.receipts \/ Dead(f.key.epoch)

OwnerOf(f) == <<f.key.call, f.key.try, f.copy>>

OwnedInv == \A f \in store.applied : Owned(OwnerOf(f)) /\ f.key = KeyOf(OwnerOf(f))

\* A resent envelope is the one that was sent.
SameKey == \A k \in Calls, t \in Tries :
    req[<<k, t, "resent">>].stage # "none" =>
        /\ req[<<k, t, "resent">>].gen = req[<<k, t, "sent">>].gen
        /\ req[<<k, t, "resent">>].epoch = req[<<k, t, "sent">>].epoch

Early == {"idle", "begin", "greet", "again", "issue", "send"}

Unsent(k, t, copy) == req[<<k, t, copy>>].stage = "none"

\* What has not been sent yet, by the place of the call.
UnsentInv == \A k \in Calls :
    /\ (pc[k] \in Early => \A copy \in Copies : Unsent(k, try[k], copy))
    /\ (pc[k] \in {"redial", "resume"} => Unsent(k, try[k], "resent"))
    /\ (try[k] = "first" => \A copy \in Copies : Unsent(k, "fresh", copy))

FirstIsOver == \A k \in Calls : try[k] = "fresh" =>
    \A copy \in Copies : /\ ~Executing(<<k, "first", copy>>)
                         /\ ~Owned(<<k, "first", copy>>)

OneEffect == \A f, g \in store.applied : f.key.call = g.key.call => f = g

RequestsInv == OwnedInv /\ SameKey /\ UnsentInv
EffectsInv  == DiskFollows /\ Receipted(store) /\ Receipted(disk) /\ OneEffect

\* A request moves on: what is over stays as it is.
MovesOn(id) ==
    /\ req'[id].gen = req[id].gen /\ req'[id].epoch = req[id].epoch
    /\ ~Executing(id) => req'[id].stage = req[id].stage /\ req'[id].answer = req[id].answer
    /\ Executing(id) => req'[id].stage # "none"
    /\ Owned(id) => Owned(id)'

\* A call goes no further back than what it has sent.
StepsOn ==
    /\ try' = try
    /\ \A k \in Calls :
          /\ pc'[k] \in Early => pc[k] \in Early
          /\ pc'[k] \in {"redial", "resume"} =>
                pc[k] \in Early \cup {"redial", "resume"} \/ Unsent(k, try[k], "resent")

LEMMA OwnersAreRequests ==
    ASSUME TypeOK, NEW f \in store.applied
    PROVE  OwnerOf(f) \in Ids /\ f.key.call \in Calls /\ f.key.try \in Tries /\ f.copy \in Copies
<1>1. f \in Effect
  BY StoreParts DEF TypeOK
<1> QED BY <1>1 DEF Effect, Key, OwnerOf, Ids

LEMMA IdsOfCall ==
    ASSUME NEW k \in Calls, NEW t \in Tries, NEW copy \in Copies
    PROVE  <<k, t, copy>> \in Ids
BY DEF Ids

LEMMA RequestsFrame ==
    ASSUME TypeOK, RequestsInv, FirstIsOver, StepsOn,
           \A id \in Ids : MovesOn(id),
           \A f \in store'.applied :
              \/ f \in store.applied
              \/ OwnerOf(f) \in Ids /\ Owned(OwnerOf(f))' /\ f.key = KeyOf(OwnerOf(f))
    PROVE  RequestsInv' /\ FirstIsOver'
<1>1. \A id \in Ids : KeyOf(id)' = KeyOf(id)
  BY DEF MovesOn, KeyOf
<1>2. \A id \in Ids : req'[id].stage = "none" <=> req[id].stage = "none"
  BY DEF MovesOn, Executing
<1>3. OwnedInv'
  <2> SUFFICES ASSUME NEW f \in store'.applied
               PROVE  Owned(OwnerOf(f))' /\ f.key = KeyOf(OwnerOf(f))'
    BY DEF OwnedInv, OwnerOf
  <2>1. OwnerOf(f) \in Ids
    BY OwnersAreRequests
  <2>2. f.key = KeyOf(OwnerOf(f))
    BY DEF RequestsInv, OwnedInv
  <2>3. Owned(OwnerOf(f))'
    BY <2>1 DEF RequestsInv, OwnedInv, MovesOn
  <2> QED BY <1>1, <2>1, <2>2, <2>3
<1>4. SameKey'
  <2> SUFFICES ASSUME NEW k \in Calls, NEW t \in Tries, req'[<<k, t, "resent">>].stage # "none"
               PROVE  /\ req'[<<k, t, "resent">>].gen = req'[<<k, t, "sent">>].gen
                      /\ req'[<<k, t, "resent">>].epoch = req'[<<k, t, "sent">>].epoch
    BY DEF SameKey
  <2>1. <<k, t, "resent">> \in Ids /\ <<k, t, "sent">> \in Ids
    BY IdsOfCall DEF Copies
  <2> QED BY <1>2, <2>1 DEF RequestsInv, SameKey, MovesOn
<1>5. UnsentInv'
  <2> SUFFICES ASSUME NEW k \in Calls
        PROVE  /\ (pc'[k] \in Early => \A copy \in Copies : Unsent(k, try[k], copy)')
               /\ (pc'[k] \in {"redial", "resume"} => Unsent(k, try[k], "resent")')
               /\ (try[k] = "first" => \A copy \in Copies : Unsent(k, "fresh", copy)')
    BY DEF UnsentInv, StepsOn, Unsent
  <2>1. \A t \in Tries, copy \in Copies : Unsent(k, t, copy)' <=> Unsent(k, t, copy)
    BY <1>2, IdsOfCall DEF Unsent
  <2>2. try[k] \in Tries /\ "resent" \in Copies /\ "fresh" \in Tries
    BY DEF TypeOK, Copies, Tries
  <2> QED BY <2>1, <2>2 DEF RequestsInv, UnsentInv, StepsOn
<1>6. FirstIsOver'
  <2> SUFFICES ASSUME NEW k \in Calls, try[k] = "fresh", NEW copy \in Copies
               PROVE  ~Executing(<<k, "first", copy>>)' /\ ~Owned(<<k, "first", copy>>)'
    BY DEF FirstIsOver, StepsOn
  <2>1. <<k, "first", copy>> \in Ids
    BY IdsOfCall DEF Tries
  <2> QED BY <2>1 DEF FirstIsOver, MovesOn, Executing, Owned
<1> QED BY <1>3, <1>4, <1>5, <1>6 DEF RequestsInv

\* Epochs stay as they are, and no request is newly admitted.
LEMMA EpochsFrame ==
    ASSUME EpochsInv, store'.ns = store.ns, store'.last = store.last,
           \A id \in Ids : req'[id].stage \in Pinning =>
                req[id].stage \in Pinning /\ req'[id].epoch = req[id].epoch
    PROVE  EpochsInv'
BY DEF EpochsInv, Dead

\* Effects stay, receipts stay unless their epoch is collected, and the disk catches up or
\* stays behind.
LEMMA EffectsFrame ==
    ASSUME EffectsInv, store'.applied = store.applied,
           \A e : Dead(e) => Dead(e)',
           \A r \in store.receipts : r \in store'.receipts \/ Dead(r.epoch)',
           /\ disk'.gen = store'.gen /\ disk'.last = store'.last /\ disk'.ns = store'.ns
           /\ disk'.replaced = store'.replaced,
           disk' = store' \/ (disk'.applied = disk.applied /\ disk'.receipts = disk.receipts)
    PROVE  EffectsInv'
<1>1. Receipted(store)' /\ OneEffect'
  BY DEF EffectsInv, Receipted, OneEffect
<1>2. CASE disk' = store'
  BY <1>1, <1>2 DEF EffectsInv, Receipted, DiskFollows
<1>3. CASE disk'.applied = disk.applied /\ disk'.receipts = disk.receipts
  BY <1>1, <1>3 DEF EffectsInv, Receipted, DiskFollows
<1> QED BY <1>2, <1>3

\* What no step of the frontend touches, and what it does to the requests.
LEMMA FrontendMoves ==
    ASSUME TypeOK, NEW k \in Calls, Frontend(k), ~Send(k), ~Resume(k)
    PROVE  /\ \A id \in Ids : MovesOn(id) /\ req'[id].stage = req[id].stage
           /\ store'.applied = store.applied
<1>1. req' = req \/ req' = Unlinked
  BY DEF Frontend, Begin, Greet, GreetAgain, Issue, GreetFails, Receive, Renew, StaleResend,
       Broken, Redial, ResumeFails
<1>2. ASSUME NEW id \in Ids PROVE MovesOn(id) /\ req'[id].stage = req[id].stage
  <2>1. req[id] \in Request
    BY RequestParts
  <2>2. req'[id] = req[id] \/ req'[id] = [req[id] EXCEPT !.linked = FALSE]
    BY <1>1 DEF Unlinked
  <2>3. /\ req'[id].stage = req[id].stage /\ req'[id].gen = req[id].gen
        /\ req'[id].epoch = req[id].epoch /\ req'[id].answer = req[id].answer
    BY <2>1, <2>2 DEF Request
  <2> QED BY <2>3 DEF MovesOn, Owned, Executing
<1>3. store'.applied = store.applied
  <2>1. ASSUME Issue(k) PROVE store'.applied = store.applied
    BY <2>1 DEF Issue, TypeOK, Store
  <2>2. ASSUME ~Issue(k) PROVE store' = store
    BY <2>2 DEF Frontend, Begin, Greet, GreetAgain, GreetFails, Send, Receive,
         Renew, StaleResend, Broken, Redial, Resume, ResumeFails, daemon
  <2> QED BY <2>1, <2>2
<1> QED BY <1>2, <1>3

\* An envelope goes out in the place of one that was not sent.
LEMMA EnvelopeGoesOut ==
    ASSUME TypeOK, RequestsInv, FirstIsOver, NEW k \in Calls, NEW copy \in Copies,
           NEW new \in Request,
           Unsent(k, try[k], copy),
           req' = [req EXCEPT ![<<k, try[k], copy>>] = new],
           try' = try, store' = store,
           new.stage \in {"none", "wire"},
           copy = "resent" => /\ new.gen = req[<<k, try[k], "sent">>].gen
                              /\ new.epoch = req[<<k, try[k], "sent">>].epoch,
           copy = "sent" => Unsent(k, try[k], "resent"),
           \A j \in Calls : j # k => pc'[j] = pc[j],
           pc'[k] \in {"redial", "wait"},
           pc'[k] = "redial" => copy = "sent"
    PROVE  RequestsInv' /\ FirstIsOver'
<1> DEFINE here == <<k, try[k], copy>>
<1>1. here \in Ids /\ try[k] \in Tries
  BY DEF TypeOK, Ids
<1>2. \A id \in Ids : id # here => req'[id] = req[id]
  BY DEF TypeOK
<1>3. req'[here] = new /\ req[here].stage = "none"
  BY <1>1 DEF TypeOK, Unsent
<1>4. OwnedInv'
  <2> SUFFICES ASSUME NEW f \in store.applied
               PROVE  Owned(OwnerOf(f))' /\ f.key = KeyOf(OwnerOf(f))'
    BY DEF OwnedInv, OwnerOf
  <2>1. OwnerOf(f) \in Ids /\ Owned(OwnerOf(f)) /\ f.key = KeyOf(OwnerOf(f))
    BY OwnersAreRequests DEF RequestsInv, OwnedInv
  <2>2. OwnerOf(f) # here
    BY <1>3, <2>1 DEF Owned
  <2> QED BY <1>2, <2>1, <2>2 DEF Owned, KeyOf
<1>5. SameKey'
  <2> SUFFICES ASSUME NEW j \in Calls, NEW t \in Tries, req'[<<j, t, "resent">>].stage # "none"
               PROVE  /\ req'[<<j, t, "resent">>].gen = req'[<<j, t, "sent">>].gen
                      /\ req'[<<j, t, "resent">>].epoch = req'[<<j, t, "sent">>].epoch
    BY DEF SameKey
  <2>1. <<j, t, "resent">> \in Ids /\ <<j, t, "sent">> \in Ids
    BY IdsOfCall DEF Copies
  <2>2. CASE j = k /\ t = try[k]
    <3>1. CASE copy = "resent"
      BY <1>2, <1>3, <2>1, <2>2, <3>1
    <3>2. CASE copy = "sent"
      BY <1>2, <2>1, <2>2, <3>2 DEF Unsent
    <3> QED BY <3>1, <3>2 DEF Copies
  <2>3. CASE ~(j = k /\ t = try[k])
    BY <1>2, <2>1, <2>3 DEF RequestsInv, SameKey
  <2> QED BY <2>2, <2>3
<1>6. UnsentInv'
  <2> SUFFICES ASSUME NEW j \in Calls
        PROVE  /\ (pc'[j] \in Early => \A c \in Copies : Unsent(j, try[j], c)')
               /\ (pc'[j] \in {"redial", "resume"} => Unsent(j, try[j], "resent")')
               /\ (try[j] = "first" => \A c \in Copies : Unsent(j, "fresh", c)')
    BY DEF UnsentInv, Unsent
  <2>1. "resent" \in Copies /\ "fresh" \in Tries /\ try[j] \in Tries
    BY DEF TypeOK, Copies, Tries
  <2>2. \A t \in Tries, c \in Copies : <<j, t, c>> # here =>
            (Unsent(j, t, c)' <=> Unsent(j, t, c))
    BY <1>2, IdsOfCall DEF Unsent
  <2>3. CASE j # k
    <3>1. \A t \in Tries, c \in Copies : Unsent(j, t, c)' <=> Unsent(j, t, c)
      BY <2>2, <2>3
    <3> QED BY <2>1, <2>3, <3>1 DEF RequestsInv, UnsentInv
  <2>4. CASE j = k
    <3>1. pc'[k] \notin Early
      BY DEF Early
    <3>2. pc'[k] = "redial" => Unsent(k, try[k], "resent")'
      BY <2>1, <2>2, <2>4
    <3>3. try[k] = "first" => \A c \in Copies : Unsent(k, "fresh", c)'
      BY <2>1, <2>2, <2>4 DEF RequestsInv, UnsentInv
    <3> QED BY <2>4, <3>1, <3>2, <3>3
  <2> QED BY <2>3, <2>4
<1>7. FirstIsOver'
  <2> SUFFICES ASSUME NEW j \in Calls, try[j] = "fresh", NEW c \in Copies
               PROVE  ~Executing(<<j, "first", c>>)' /\ ~Owned(<<j, "first", c>>)'
    BY DEF FirstIsOver
  <2>1. <<j, "first", c>> \in Ids /\ <<j, "first", c>> # here
    BY IdsOfCall DEF Tries
  <2> QED BY <1>2, <2>1 DEF FirstIsOver, Executing, Owned
<1> QED BY <1>4, <1>5, <1>6, <1>7 DEF RequestsInv

\* The frontend.
LEMMA RequestsFrontend ==
    ASSUME TypeOK, RequestsInv, FirstIsOver, NEW k \in Calls, Frontend(k)
    PROVE  RequestsInv' /\ FirstIsOver'
<1>1. CASE Send(k)
  <2> DEFINE new == [stage |-> IF client.conn = "up" THEN "wire" ELSE "none",
                     gen |-> client.gen, epoch |-> client.epoch,
                     linked |-> client.conn = "up", answer |-> "none"]
  <2>1. new \in Request /\ new.stage \in {"none", "wire"}
    BY DEF TypeOK, Client, Request, Stages, Answers
  <2>2. req' = [req EXCEPT ![<<k, try[k], "sent">>] = new] /\ pc[k] = "send"
    BY <1>1 DEF Send
  <2> HIDE DEF new
  <2>3. Unsent(k, try[k], "sent") /\ Unsent(k, try[k], "resent")
    BY <2>2 DEF RequestsInv, UnsentInv, Early, Copies
  <2>4. /\ try' = try /\ store' = store /\ pc'[k] \in {"redial", "wait"}
        /\ \A j \in Calls : j # k => pc'[j] = pc[j]
    BY <1>1 DEF Send, Goto, TypeOK, daemon
  <2> QED BY <2>1, <2>2, <2>3, <2>4, EnvelopeGoesOut DEF Copies
<1>2. CASE Resume(k)
  <2> DEFINE old == req[<<k, try[k], "sent">>]
             new == [old EXCEPT !.stage = "wire", !.linked = TRUE, !.answer = "none"]
  <2>1. old \in Request
    BY DEF TypeOK, Ids, Copies
  <2>2. CASE old.epoch # 0 /\ store.ns[old.epoch] = "valid"
    <3>1. /\ req' = [req EXCEPT ![<<k, try[k], "resent">>] = new]
          /\ pc[k] = "resume" /\ try' = try /\ store' = store /\ pc'[k] = "wait"
          /\ \A j \in Calls : j # k => pc'[j] = pc[j]
      BY <1>2, <2>2 DEF Resume, Goto, TypeOK, daemon
    <3>2. /\ new \in Request /\ new.stage = "wire" /\ new.gen = old.gen
          /\ new.epoch = old.epoch
      BY <2>1 DEF Request, Stages, Answers
    <3>3. Unsent(k, try[k], "resent")
      BY <3>1 DEF RequestsInv, UnsentInv
    <3> HIDE DEF new
    <3> QED BY <3>1, <3>2, <3>3, EnvelopeGoesOut DEF Copies
  <2>3. CASE ~(old.epoch # 0 /\ store.ns[old.epoch] = "valid")
    <3>1. req' = req /\ Tell(k, "unknown") /\ store' = store
      BY <1>2, <2>3 DEF Resume, daemon
    <3>2. \A id \in Ids : MovesOn(id)
      BY <3>1 DEF MovesOn, Owned, Executing
    <3>3. StepsOn
      BY <3>1 DEF StepsOn, Tell, Goto, TypeOK, Early
    <3> QED BY <3>1, <3>2, <3>3, RequestsFrame
  <2> QED BY <2>2, <2>3
\* The fresh operation: the one envelope of the first had a stale answer.
<1>3. CASE Renew(k)
  <2>1. /\ try[k] = "first" /\ Last(k)[3] = "sent" /\ req' = req /\ store' = store
        /\ req[Last(k)].stage = "answered"
        /\ req[Last(k)].answer \in {"staleGeneration", "staleReplay"}
        /\ try' = [try EXCEPT ![k] = "fresh"] /\ pc' = [pc EXCEPT ![k] = "greet"]
    BY <1>3 DEF Renew, Arrived, Renewable, Goto, daemon
  <2>2. Last(k) = <<k, "first", "sent">> /\ Unsent(k, "first", "resent")
    BY <2>1 DEF Last, Unsent
  <2>3. \A copy \in Copies : ~Executing(<<k, "first", copy>>) /\ ~Owned(<<k, "first", copy>>)
    BY <2>1, <2>2 DEF Copies, Executing, Owned, Unsent
  <2>4. FirstIsOver'
    <3> SUFFICES ASSUME NEW j \in Calls, try'[j] = "fresh", NEW copy \in Copies
                 PROVE  ~Executing(<<j, "first", copy>>)' /\ ~Owned(<<j, "first", copy>>)'
      BY DEF FirstIsOver
    <3>1. ~Executing(<<j, "first", copy>>) /\ ~Owned(<<j, "first", copy>>)
      BY <2>1, <2>3 DEF FirstIsOver, TypeOK
    <3> QED BY <2>1, <3>1 DEF Executing, Owned
  <2>5. UnsentInv'
    <3> SUFFICES ASSUME NEW j \in Calls
          PROVE  /\ (pc'[j] \in Early => \A c \in Copies : Unsent(j, try'[j], c))
                 /\ (pc'[j] \in {"redial", "resume"} => Unsent(j, try'[j], "resent"))
                 /\ (try'[j] = "first" => \A c \in Copies : Unsent(j, "fresh", c))
      BY <2>1 DEF UnsentInv, Unsent
    <3>1. CASE j # k
      BY <2>1, <3>1 DEF RequestsInv, UnsentInv, TypeOK
    <3>2. CASE j = k
      <4>1. try'[k] = "fresh" /\ pc'[k] = "greet"
        BY <2>1 DEF TypeOK
      <4>2. \A c \in Copies : Unsent(k, "fresh", c)
        BY <2>1 DEF RequestsInv, UnsentInv
      <4> QED BY <3>2, <4>1, <4>2
    <3> QED BY <3>1, <3>2
  <2>6. OwnedInv' /\ SameKey'
    BY <2>1 DEF RequestsInv, OwnedInv, SameKey, Owned, OwnerOf, KeyOf
  <2> QED BY <2>4, <2>5, <2>6 DEF RequestsInv
<1>4. CASE ~Send(k) /\ ~Resume(k) /\ ~Renew(k)
  <2>1. \A j \in Calls : j # k => pc'[j] = pc[j]
    BY <1>4 DEF Frontend, Begin, Greet, GreetAgain, Issue, GreetFails, Receive, StaleResend,
         Broken, Retreat, Redial, ResumeFails, Tell, Goto, TypeOK
  <2>2. try' = try
    BY <1>4 DEF Frontend, Begin, Greet, GreetAgain, Issue, GreetFails, Receive, StaleResend,
         Broken, Retreat, Redial, ResumeFails, Tell
  <2>3. CASE Broken(k)
    <3>1. Unsent(k, try[k], "resent") \/ pc'[k] = "done"
      BY <2>3 DEF Broken, Last, Unsent, Tell, Goto, TypeOK
    <3>2. pc'[k] \notin Early
      BY <2>3 DEF Broken, Retreat, Tell, Goto, TypeOK, Early
    <3>3. StepsOn
      BY <2>1, <2>2, <3>1, <3>2 DEF StepsOn
    <3> QED BY <1>4, <3>3, FrontendMoves, RequestsFrame
  <2>4. CASE ~Broken(k)
    <3>1. /\ pc'[k] \in Early => pc[k] \in Early
          /\ pc'[k] \in {"redial", "resume"} => pc[k] \in {"redial", "resume"}
      BY <1>4, <2>4 DEF Frontend, Begin, Greet, GreetAgain, Issue, GreetFails, Receive, StaleResend,
           Redial, ResumeFails, Tell, Goto, TypeOK, Early
    <3>2. StepsOn
      BY <2>1, <2>2, <3>1 DEF StepsOn
    <3> QED BY <1>4, <3>2, FrontendMoves, RequestsFrame
  <2> QED BY <2>3, <2>4
<1> QED BY <1>1, <1>2, <1>3, <1>4

\* A request that is executed moves on, and a transaction's effect is its own.
LEMMA ExecuteMoves ==
    ASSUME TypeOK, NEW id \in Ids, Execute(id)
    PROVE  /\ \A i \in Ids : MovesOn(i)
           /\ \A i \in Ids : i # id => req'[i] = req[i]
           /\ Executing(id)
<1>1. req[id] \in Request
  BY RequestParts
<1>2. \A i \in Ids : i # id => req'[i] = req[i]
  BY DEF Execute, Gate, Admit, CheckReplay, Lock, Transact, Acknowledge, Move, Reply, TypeOK
<1>3. /\ Executing(id)
      /\ Owned(id) => Acknowledge(id)
  BY DEF Execute, Gate, Admit, CheckReplay, Lock, Transact, Acknowledge, At, Executing, Owned
<1>4. /\ req'[id].gen = req[id].gen /\ req'[id].epoch = req[id].epoch
      /\ req'[id].stage # "none"
      /\ Acknowledge(id) => req'[id].stage = "answered" /\ req'[id].answer = "success"
  <2>1. ASSUME Acknowledge(id)
        PROVE  /\ req'[id].gen = req[id].gen /\ req'[id].epoch = req[id].epoch
               /\ req'[id].stage = "answered" /\ req'[id].answer = "success"
    BY <1>1, <2>1 DEF Acknowledge, Reply, TypeOK, Request
  <2>2. ASSUME ~Acknowledge(id)
        PROVE  \/ \E stage \in Stages \ {"none"} : Move(id, stage)
               \/ \E answer \in Answers : Reply(id, answer)
    BY <2>2 DEF Execute, Gate, Admit, CheckReplay, Lock, Transact, Stages, Answers
  <2>3. ASSUME NEW stage \in Stages \ {"none"}, Move(id, stage)
        PROVE  /\ req'[id].gen = req[id].gen /\ req'[id].epoch = req[id].epoch
               /\ req'[id].stage # "none"
    BY <1>1, <2>3 DEF Move, TypeOK, Request
  <2>4. ASSUME NEW answer \in Answers, Reply(id, answer)
        PROVE  /\ req'[id].gen = req[id].gen /\ req'[id].epoch = req[id].epoch
               /\ req'[id].stage # "none"
    BY <1>1, <2>4 DEF Reply, TypeOK, Request
  <2> QED BY <2>1, <2>2, <2>3, <2>4
<1>5. MovesOn(id)
  BY <1>3, <1>4 DEF MovesOn, Owned
<1>6. \A i \in Ids : i # id => MovesOn(i)
  BY <1>2 DEF MovesOn, Owned, Executing
<1> QED BY <1>2, <1>3, <1>5, <1>6

LEMMA RequestsExecute ==
    ASSUME TypeOK, RequestsInv, FirstIsOver, NEW id \in Ids, Execute(id)
    PROVE  RequestsInv' /\ FirstIsOver'
<1>1. \A i \in Ids : MovesOn(i)
  BY ExecuteMoves
<1>2. StepsOn
  <2>1. pc' = pc /\ try' = try
    BY DEF Execute, Gate, Admit, CheckReplay, Lock, Transact, Acknowledge, Work, calls
  <2> QED BY <2>1 DEF StepsOn
<1>3. ASSUME NEW f \in store'.applied, f \notin store.applied
      PROVE  OwnerOf(f) \in Ids /\ Owned(OwnerOf(f))' /\ f.key = KeyOf(OwnerOf(f))
  <2> DEFINE new == [key |-> KeyOf(id), copy |-> id[3], at |-> store.gen]
  <2>1. Transact(id)
    BY <1>3 DEF Execute, Gate, Admit, CheckReplay, Lock, Acknowledge, daemon
  <2>2. store'.applied = store.applied \cup {new} /\ Move(id, "commit")
    BY <1>3, <2>1 DEF Transact, TypeOK, Store
  <2>3. f = new
    BY <1>3, <2>2
  <2>4. OwnerOf(f) = id /\ f.key = KeyOf(id)
    BY <2>3 DEF OwnerOf, KeyOf, Ids
  <2>5. Owned(id)'
    BY <2>2, RequestParts DEF Move, TypeOK, Request, Owned
  <2> QED BY <2>4, <2>5
<1> QED BY <1>1, <1>2, <1>3, RequestsFrame

\* Around them too: requests are refused, lost or cut off, never begun.
LEMMA AroundMoves ==
    ASSUME TypeOK, NEW id \in Ids, RestoreReplace \/ Environment
    PROVE  MovesOn(id)
<1>1. req[id] \in Request
  BY RequestParts
<1>2. CASE Outage
  <2>1. \/ Executing(id) /\ req'[id] = [req[id] EXCEPT !.stage = "lost", !.linked = FALSE]
        \/ ~Executing(id) /\ req'[id] = [req[id] EXCEPT !.linked = FALSE]
    BY <1>2 DEF Outage
  <2> QED BY <1>1, <2>1 DEF MovesOn, Owned, Executing, Request
<1>3. CASE \E i \in Ids : Refuse(i) \/ Lost(i)
  <2>1. PICK i \in Ids : Refuse(i) \/ Lost(i)
    BY <1>3
  <2>2. CASE id = i
    BY <1>1, <2>1, <2>2 DEF Refuse, Lost, Reply, Move, At, MovesOn, Owned, Executing, TypeOK, Request
  <2>3. CASE id # i
    BY <2>1, <2>3 DEF Refuse, Lost, Reply, Move, MovesOn, Owned, Executing, TypeOK
  <2> QED BY <2>2, <2>3
<1>4. CASE ~Outage /\ ~\E i \in Ids : Refuse(i) \/ Lost(i)
  <2>1. req' = req \/ req' = Unlinked
    BY <1>4 DEF RestoreReplace, Environment, Ask, DialFails, Expire, Collect, RestoreBegin,
         Activate, Flush, Drop, Work
  <2>2. req'[id] = req[id] \/ req'[id] = [req[id] EXCEPT !.linked = FALSE]
    BY <2>1 DEF Unlinked
  <2> QED BY <1>1, <2>2 DEF MovesOn, Owned, Executing, Request
<1> QED BY <1>2, <1>3, <1>4

LEMMA RequestsAround ==
    ASSUME TypeOK, RequestsInv, FirstIsOver, DiskFollows, RestoreReplace \/ Environment
    PROVE  RequestsInv' /\ FirstIsOver'
<1>1. try' = try
  BY DEF RestoreReplace, Environment, Ask, DialFails, Tell, Refuse, Lost, Expire, Collect, RestoreBegin,
       Activate, Flush, Drop, Outage, Work, calls
<1>2. StepsOn
  <2>1. ASSUME NEW k \in Calls, Ask(k) \/ DialFails(k)
        PROVE  \A j \in Calls : /\ pc'[j] \in Early => pc[j] \in Early
                                /\ pc'[j] \in {"redial", "resume"} => pc[j] \in {"redial", "resume"}
    BY <2>1 DEF Ask, DialFails, Tell, Goto, TypeOK, Early
  <2>2. ASSUME ~\E k \in Calls : Ask(k) \/ DialFails(k) PROVE pc' = pc
    BY <2>2 DEF RestoreReplace, Environment, Refuse, Lost, Expire, Collect, RestoreBegin,
         Activate, Flush, Drop, Outage, Work, calls
  <2> QED BY <1>1, <2>1, <2>2 DEF StepsOn
<1>3. \A id \in Ids : MovesOn(id)
  BY AroundMoves
<1>4. store'.applied \subseteq store.applied
  <2>1. ASSUME NEW e \in Epochs, Expire(e) \/ Collect(e) PROVE store'.applied = store.applied
    BY <2>1 DEF Expire, Collect, TypeOK, Store
  <2>2. ASSUME RestoreReplace PROVE store'.applied = {}
    BY <2>2 DEF RestoreReplace, EmptyStore
  <2>3. ASSUME Activate PROVE store'.applied = store.applied
    BY <2>3 DEF Activate, TypeOK, Store
  <2>4. ASSUME Outage PROVE store'.applied \subseteq store.applied
    BY <2>4 DEF Outage, DiskFollows
  <2>5. ASSUME \/ RestoreBegin \/ Flush \/ Drop
               \/ \E k \in Calls : Ask(k) \/ DialFails(k)
               \/ \E id \in Ids : Refuse(id) \/ Lost(id)
        PROVE  store' = store
    BY <2>5 DEF RestoreBegin, Flush, Drop, Ask, DialFails, Refuse, Lost, daemon
  <2> QED BY <2>1, <2>2, <2>3, <2>4, <2>5 DEF Environment
<1> QED BY <1>2, <1>3, <1>4, RequestsFrame

\* Epochs: admitted requests keep theirs from being collected.
LEMMA EpochsNext ==
    ASSUME TypeOK, EpochsInv, DiskFollows, [Next]_vars
    PROVE  EpochsInv'
<1>1. ASSUME NEW k \in Calls, Frontend(k) PROVE EpochsInv'
  <2>1. \A id \in Ids : req'[id].stage \in Pinning =>
            req[id].stage \in Pinning /\ req'[id].epoch = req[id].epoch
    <3>1. CASE Send(k)
      <4> DEFINE new == [stage |-> IF client.conn = "up" THEN "wire" ELSE "none",
                         gen |-> client.gen, epoch |-> client.epoch,
                         linked |-> client.conn = "up", answer |-> "none"]
      <4>1. req' = [req EXCEPT ![<<k, try[k], "sent">>] = new] /\ new.stage \notin Pinning
        BY <3>1 DEF Send, Pinning
      <4> HIDE DEF new
      <4> QED BY <4>1 DEF TypeOK
    <3>2. CASE Resume(k)
      <4> DEFINE new == [req[<<k, try[k], "sent">>] EXCEPT
                           !.stage = "wire", !.linked = TRUE, !.answer = "none"]
      <4>1. req' = req \/ req' = [req EXCEPT ![<<k, try[k], "resent">>] = new]
        BY <3>2 DEF Resume
      <4>2. new.stage \notin Pinning
        BY RequestParts, IdsOfCall DEF Request, Pinning, TypeOK, Copies
      <4> HIDE DEF new
      <4> QED BY <4>1, <4>2 DEF TypeOK
    <3>3. CASE ~Send(k) /\ ~Resume(k)
      BY <1>1, <3>3, FrontendMoves DEF MovesOn
    <3> QED BY <3>1, <3>2, <3>3
  <2>2. CASE Issue(k)
    <3> DEFINE e == store.last + 1
    <3>1. /\ e \in Epochs /\ store.last \in Nat
      BY <2>2, StoreParts, Bounds DEF Issue, TypeOK, Epochs
    <3>2. store'.last = e /\ store'.ns = [store.ns EXCEPT ![e] = "valid"]
      BY <2>2 DEF Issue, TypeOK, Store
    <3> HIDE DEF e
    <3>3. \A d \in Epochs : d # e => store'.ns[d] = store.ns[d]
      BY <3>1, <3>2, StoreParts DEF TypeOK
    <3>4. store'.ns[e] = "valid"
      BY <3>1, <3>2, StoreParts DEF TypeOK
    <3>5. \A d \in Epochs : d <= store.last => d <= e
      BY <3>1 DEF e, Epochs
    <3>6. \A d \in Epochs : store'.ns[d] # "none" => d <= store'.last
      BY <3>1, <3>2, <3>3, <3>5 DEF EpochsInv, Epochs
    <3>7. \A d \in Epochs : d <= e /\ d # e => d <= store.last
      BY <3>1 DEF e, Epochs
    <3>8. \A d \in Epochs : Dead(d)' => Dead(d)
      BY <3>2, <3>3, <3>4, <3>7 DEF Dead
    <3> QED BY <2>1, <3>6, <3>8 DEF EpochsInv
  <2>3. CASE ~Issue(k)
    <3>1. store' = store
      BY <1>1, <2>3 DEF Frontend, Begin, Greet, GreetAgain, GreetFails, Send, Receive,
           Renew, StaleResend, Broken, Redial, Resume, ResumeFails, daemon
    <3> QED BY <2>1, <3>1, EpochsFrame
  <2> QED BY <2>2, <2>3
<1>2. ASSUME NEW id \in Ids, Execute(id) PROVE EpochsInv'
  <2>1. store'.ns = store.ns /\ store'.last = store.last
    <3>1. ASSUME Transact(id) PROVE store'.ns = store.ns /\ store'.last = store.last
      BY <3>1 DEF Transact, TypeOK, Store
    <3> QED BY <1>2, <3>1 DEF Execute, Gate, Admit, CheckReplay, Lock, Acknowledge, daemon
  <2>2. \A i \in Ids : i # id => req'[i] = req[i]
    BY <1>2, ExecuteMoves
  <2>3. CASE Admit(id)
    <3>1. req'[id].epoch = req[id].epoch /\ req[id].epoch \in 0..MaxEpoch
      BY <1>2, ExecuteMoves, RequestParts DEF MovesOn
    <3>2. req'[id].stage \in Pinning => ValidEpoch(req[id].epoch)
      BY <2>3, RequestParts DEF Admit, Move, Reply, TypeOK, Request, Pinning
    <3>3. ValidEpoch(req[id].epoch) => req[id].epoch \in Epochs /\ ~Dead(req[id].epoch)
      BY <3>1, Bounds DEF ValidEpoch, Epochs, Dead
    <3>4. \A e : Dead(e)' <=> Dead(e)
      BY <2>1 DEF Dead
    <3> QED BY <2>1, <2>2, <3>1, <3>2, <3>3, <3>4 DEF EpochsInv
  <2>4. CASE ~Admit(id)
    <3>1. req'[id].epoch = req[id].epoch
      BY <1>2, ExecuteMoves DEF MovesOn
    <3>2. req'[id].stage \in Pinning => req[id].stage \in Pinning
      BY <1>2, <2>4, RequestParts DEF Execute, Gate, CheckReplay, Lock, Transact, Acknowledge,
           At, Move, Reply, TypeOK, Request, Pinning
    <3> QED BY <2>1, <2>2, <3>1, <3>2, EpochsFrame
  <2> QED BY <2>3, <2>4
<1>3. ASSUME RestoreReplace \/ Environment PROVE EpochsInv'
  <2>1. \A id \in Ids : req'[id].stage \in Pinning =>
            req[id].stage \in Pinning /\ req'[id].epoch = req[id].epoch
    <3> SUFFICES ASSUME NEW id \in Ids
                 PROVE  req'[id].stage \in Pinning =>
                            req[id].stage \in Pinning /\ req'[id].epoch = req[id].epoch
      OBVIOUS
    <3>1. req[id] \in Request
      BY RequestParts
    <3>2. CASE \E i \in Ids : Refuse(i) \/ Lost(i)
      BY <3>1, <3>2 DEF Refuse, Lost, Reply, Move, TypeOK, Request, Pinning
    <3>3. CASE ~\E i \in Ids : Refuse(i) \/ Lost(i)
      <4>1. \/ req'[id] = req[id] \/ req'[id] = [req[id] EXCEPT !.linked = FALSE]
            \/ req'[id] = [req[id] EXCEPT !.stage = "lost", !.linked = FALSE]
        BY <1>3, <3>3 DEF RestoreReplace, Environment, Ask, DialFails, Expire, Collect, RestoreBegin,
             Activate, Flush, Drop, Outage, Unlinked, Work
      <4> QED BY <3>1, <4>1 DEF Request, Pinning
    <3> QED BY <3>2, <3>3
  <2>2. ASSUME NEW e \in Epochs, Expire(e) PROVE EpochsInv'
    <3>1. /\ store'.ns = [store.ns EXCEPT ![e] = "expired"] /\ store'.last = store.last
          /\ store.ns[e] = "valid"
      BY <2>2 DEF Expire, TypeOK, Store
    <3>2. \A d \in Epochs : store'.ns[d] # "none" <=> store.ns[d] # "none"
      BY <3>1, StoreParts DEF TypeOK
    <3>3. \A d : Dead(d)' => Dead(d)
      BY <3>1, <3>2 DEF Dead
    <3> QED BY <2>1, <3>1, <3>2, <3>3 DEF EpochsInv
  <2>3. ASSUME NEW e \in Epochs, Collect(e) PROVE EpochsInv'
    <3>1. /\ store'.ns = [store.ns EXCEPT ![e] = "none"] /\ store'.last = store.last
          /\ ~Pinned(e)
      BY <2>3 DEF Collect, TypeOK, Store
    <3>2. \A d \in Epochs : d # e => store'.ns[d] = store.ns[d]
      BY <3>1, StoreParts DEF TypeOK
    <3>3. \A d : Dead(d)' => Dead(d) \/ d = e
      BY <3>1, <3>2 DEF Dead
    <3>4. \A id \in Ids : req[id].stage \in Pinning => req[id].epoch # e
      BY <3>1 DEF Pinned, Pinning
    <3>5. \A d \in Epochs : store'.ns[d] # "none" => store.ns[d] # "none"
      BY <3>1, <3>2, StoreParts DEF TypeOK
    <3> QED BY <2>1, <3>1, <3>3, <3>4, <3>5 DEF EpochsInv
  <2>4. ASSUME RestoreReplace PROVE EpochsInv'
    <3>1. store'.last = 0 /\ store'.ns = [e \in Epochs |-> "none"]
      BY <2>4 DEF RestoreReplace, EmptyStore
    <3>2. \A d : ~Dead(d)'
      BY <3>1, Bounds DEF Dead, Epochs
    <3> QED BY <2>1, <3>1, <3>2 DEF EpochsInv
  <2>5. ASSUME Activate PROVE store'.ns = store.ns /\ store'.last = store.last
    BY <2>5 DEF Activate, TypeOK, Store
  <2>6. ASSUME \/ RestoreBegin \/ Flush \/ Drop \/ Outage
               \/ \E k \in Calls : Ask(k) \/ DialFails(k)
               \/ \E id \in Ids : Refuse(id) \/ Lost(id)
        PROVE  store'.ns = store.ns /\ store'.last = store.last
    BY <2>6 DEF RestoreBegin, Flush, Drop, Outage, Ask, DialFails, Refuse, Lost, daemon, DiskFollows
  <2> QED BY <1>3, <2>1, <2>2, <2>3, <2>4, <2>5, <2>6, EpochsFrame DEF Environment
<1>4. ASSUME UNCHANGED vars PROVE EpochsInv'
  BY <1>4 DEF vars, daemon, EpochsInv, Dead
<1> QED BY <1>1, <1>2, <1>3, <1>4 DEF Next

\* A transaction that finds no receipt is the first of its call: an earlier effect
\* would have its operation and its epoch, and so its receipt.
LEMMA NoSecondEffect ==
    ASSUME TypeOK, RequestsInv, FirstIsOver, EpochsInv, EffectsInv,
           NEW id \in Ids, At(id, "tx"), ~Recorded(id),
           NEW f \in store.applied
    PROVE  f.key.call # id[1]
<1> SUFFICES ASSUME f.key.call = id[1] PROVE FALSE
  OBVIOUS
<1> DEFINE k == id[1]
           own == OwnerOf(f)
<1>1. /\ own \in Ids /\ Owned(own) /\ f.key = KeyOf(own)
      /\ k \in Calls /\ id[2] \in Tries /\ id[3] \in Copies
      /\ f.key.try \in Tries /\ f.copy \in Copies
      /\ id = <<k, id[2], id[3]>> /\ own = <<k, f.key.try, f.copy>>
  BY OwnersAreRequests DEF RequestsInv, OwnedInv, OwnerOf, Ids
<1>2. Executing(id) /\ req[id].stage # "none" /\ req[own].stage # "none"
  BY <1>1 DEF At, Executing, Owned
<1>3. id[2] = try[k] /\ f.key.try = try[k]
  <2>1. CASE try[k] = "fresh"
    BY <1>1, <1>2, <2>1 DEF FirstIsOver, Tries
  <2>2. CASE try[k] = "first"
    <3>1. \A copy \in Copies : Unsent(k, "fresh", copy)
      BY <1>1, <2>2 DEF RequestsInv, UnsentInv
    <3>2. id[2] # "fresh" /\ f.key.try # "fresh"
      BY <1>1, <1>2, <3>1 DEF Unsent
    <3> QED BY <1>1, <2>2, <3>2 DEF Tries
  <2> QED BY <1>1, <2>1, <2>2 DEF TypeOK, Tries
<1>4. req[own].gen = req[id].gen /\ req[own].epoch = req[id].epoch
  BY <1>1, <1>2, <1>3 DEF RequestsInv, SameKey, Copies
<1>5. f.key = KeyOf(id)
  BY <1>1, <1>3, <1>4 DEF KeyOf
<1>6. Dead(req[id].epoch)
  BY <1>5 DEF EffectsInv, Receipted, Recorded, KeyOf
<1>7. req[id].stage \in Pinning
  BY DEF At, Pinning
<1> QED BY <1>6, <1>7 DEF EpochsInv

LEMMA EffectsNext ==
    ASSUME TypeOK, RequestsInv, FirstIsOver, EpochsInv, EffectsInv, [Next]_vars
    PROVE  EffectsInv'
<1> DEFINE Kept == /\ store'.applied = store.applied
                   /\ \A e : Dead(e) => Dead(e)'
                   /\ \A r \in store.receipts : r \in store'.receipts \/ Dead(r.epoch)'
                   /\ disk' = store'
<1>0. ASSUME Kept PROVE EffectsInv'
  BY <1>0, EffectsFrame
<1>1. ASSUME UNCHANGED <<store, disk>> PROVE EffectsInv'
  <2>1. \A e : Dead(e)' <=> Dead(e)
    BY <1>1 DEF Dead
  <2> QED BY <1>1, <2>1 DEF EffectsInv, DiskFollows, Receipted, OneEffect
<1>2. ASSUME store' = store, disk' = store PROVE EffectsInv'
  <2>1. \A e : Dead(e)' <=> Dead(e)
    BY <1>2 DEF Dead
  <2> QED BY <1>2, <2>1, <1>0
<1>3. ASSUME NEW k \in Calls, Issue(k) PROVE EffectsInv'
  <2> DEFINE e == store.last + 1
  <2>1. e \in Epochs /\ store.last \in Nat
    BY <1>3, StoreParts, Bounds DEF Issue, TypeOK, Epochs
  <2>2. /\ store'.last = e /\ store'.ns = [store.ns EXCEPT ![e] = "valid"]
        /\ store'.applied = store.applied /\ store'.receipts = store.receipts /\ disk' = store'
    BY <1>3 DEF Issue, TypeOK, Store
  <2>3. \A d \in Epochs : d <= store.last => d # e /\ d <= e
    BY <2>1 DEF Epochs
  <2> HIDE DEF e
  <2>4. \A d : Dead(d) => Dead(d)'
    BY <2>1, <2>2, <2>3, StoreParts DEF TypeOK, Dead
  <2> QED BY <2>2, <2>4, <1>0
<1>4. ASSUME NEW k \in Calls, Frontend(k), ~Issue(k) PROVE EffectsInv'
  <2>1. UNCHANGED daemon
    BY <1>4 DEF Frontend, Begin, Greet, GreetAgain, GreetFails, Send, Receive,
         Renew, StaleResend, Broken, Redial, Resume, ResumeFails
  <2> QED BY <1>1, <2>1 DEF daemon
<1>5. ASSUME NEW id \in Ids, Execute(id), ~Transact(id) PROVE EffectsInv'
  BY <1>1, <1>2, <1>5 DEF Execute, Gate, Admit, CheckReplay, Lock, Acknowledge, Barrier, daemon
<1>6. ASSUME NEW id \in Ids, Transact(id) PROVE EffectsInv'
  <2>1. CASE store' = store
    BY <1>1, <1>6, <2>1 DEF Transact
  <2>2. CASE store' # store
    <3> DEFINE new == [key |-> KeyOf(id), copy |-> id[3], at |-> store.gen]
    <3>1. At(id, "tx") /\ ~Recorded(id) /\ disk' = disk
      BY <1>6, <2>2 DEF Transact
    <3>2. /\ store'.applied = store.applied \cup {new} /\ store'.gen = store.gen
          /\ store'.last = store.last /\ store'.ns = store.ns
          /\ store'.receipts = store.receipts \cup {KeyOf(id)}
          /\ store'.replaced = store.replaced
      BY <1>6, <2>2 DEF Transact, TypeOK, Store
    <3>3. new.key.call = id[1] /\ new.key = KeyOf(id)
      BY DEF KeyOf
    <3> HIDE DEF new
    <3>4. \A f \in store.applied : f.key.call # new.key.call
      BY <3>1, <3>3, NoSecondEffect
    <3>5. OneEffect'
      BY <3>2, <3>4 DEF OneEffect, EffectsInv
    <3>6. \A e : Dead(e)' <=> Dead(e)
      BY <3>2 DEF Dead
    <3>7. Receipted(store)' /\ Receipted(disk)' /\ DiskFollows'
      BY <3>1, <3>2, <3>3, <3>6 DEF EffectsInv, Receipted, DiskFollows
    <3> QED BY <3>5, <3>7 DEF EffectsInv
  <2> QED BY <2>1, <2>2
<1>7. ASSUME NEW e \in Epochs, Expire(e) PROVE EffectsInv'
  <2>1. /\ store'.ns = [store.ns EXCEPT ![e] = "expired"] /\ store'.last = store.last
        /\ store'.applied = store.applied /\ store'.receipts = store.receipts
        /\ store'.gen = store.gen /\ store'.replaced = store.replaced
        /\ store.ns[e] = "valid"
    BY <1>7 DEF Expire, TypeOK, Store
  <2>2. disk' = [disk EXCEPT !.ns[e] = "expired"]
    BY <1>7, <2>1 DEF Expire, EffectsInv, DiskFollows
  <2>3. /\ disk'.ns = [disk.ns EXCEPT ![e] = "expired"] /\ disk'.last = disk.last
        /\ disk'.applied = disk.applied /\ disk'.receipts = disk.receipts
        /\ disk'.gen = disk.gen /\ disk'.replaced = disk.replaced
    BY <2>2 DEF TypeOK, Store
  <2>4. \A d : Dead(d) => Dead(d)'
    BY <2>1, StoreParts DEF Dead, TypeOK
  <2> QED BY <2>1, <2>3, <2>4, EffectsFrame DEF EffectsInv, DiskFollows
<1>8. ASSUME NEW e \in Epochs, Collect(e) PROVE EffectsInv'
  <2>1. /\ store'.ns = [store.ns EXCEPT ![e] = "none"] /\ store'.last = store.last
        /\ store'.applied = store.applied /\ store'.receipts = {r \in store.receipts : r.epoch # e}
        /\ disk' = store' /\ store.ns[e] = "expired"
    BY <1>8 DEF Collect, TypeOK, Store
  <2>2. Dead(e)'
    BY <2>1, StoreParts DEF TypeOK, Dead, EpochsInv
  <2>3. \A d : Dead(d) => Dead(d)'
    BY <2>1, StoreParts DEF Dead, TypeOK
  <2> QED BY <2>1, <2>2, <2>3, <1>0
<1>9. ASSUME Activate PROVE EffectsInv'
  <2>1. /\ store'.ns = store.ns /\ store'.last = store.last
        /\ store'.applied = store.applied /\ store'.receipts = store.receipts /\ disk' = store'
    BY <1>9 DEF Activate, TypeOK, Store
  <2>2. \A d : Dead(d) => Dead(d)'
    BY <2>1 DEF Dead
  <2> QED BY <2>1, <2>2, <1>0
<1>10. ASSUME RestoreReplace PROVE EffectsInv'
  <2>1. store'.applied = {} /\ disk' = store'
    BY <1>10 DEF RestoreReplace, EmptyStore
  <2> QED BY <2>1 DEF EffectsInv, OneEffect, Receipted, DiskFollows
<1>11. ASSUME Outage PROVE EffectsInv'
  <2>1. store' = disk /\ disk' = disk
    BY <1>11 DEF Outage
  <2>2. \A d : Dead(d)' <=> Dead(d)
    BY <2>1 DEF Dead, EffectsInv, DiskFollows
  <2> QED BY <2>1, <2>2 DEF EffectsInv, OneEffect, Receipted, DiskFollows
<1>12. ASSUME \/ RestoreBegin \/ Drop \/ Flush
              \/ \E k \in Calls : Ask(k) \/ DialFails(k)
              \/ \E id \in Ids : Refuse(id) \/ Lost(id)
       PROVE  EffectsInv'
  BY <1>1, <1>2, <1>12 DEF RestoreBegin, Drop, Flush, Ask, DialFails, Refuse, Lost, daemon
<1>13. ASSUME UNCHANGED vars PROVE EffectsInv'
  BY <1>1, <1>13 DEF vars, daemon
<1> QED BY <1>3, <1>4, <1>5, <1>6, <1>7, <1>8, <1>9, <1>10, <1>11, <1>12, <1>13 DEF Next, Environment

CertainInv == RequestsInv /\ FirstIsOver /\ EpochsInv /\ EffectsInv

LEMMA CertainInit == Init => CertainInv
<1> SUFFICES ASSUME Init PROVE CertainInv
  OBVIOUS
<1>1. \A id \in Ids : req[id].stage = "none"
  BY DEF Init, NoRequest
<1>2. RequestsInv /\ FirstIsOver
  BY <1>1, IdsOfCall DEF Init, EmptyStore, RequestsInv, OwnedInv, SameKey, UnsentInv, Unsent,
       Tries, Copies, FirstIsOver
<1>3. EpochsInv
  BY <1>1 DEF Init, EmptyStore, EpochsInv, Pinning
<1>4. EffectsInv
  BY DEF Init, EmptyStore, EffectsInv, DiskFollows, Receipted, OneEffect
<1> QED BY <1>2, <1>3, <1>4 DEF CertainInv

LEMMA CertainNext == TypeOK /\ CertainInv /\ [Next]_vars => CertainInv'
<1> SUFFICES ASSUME TypeOK, CertainInv, [Next]_vars PROVE CertainInv'
  OBVIOUS
<1>1. RequestsInv' /\ FirstIsOver'
  <2>1. CASE UNCHANGED vars
    BY <2>1 DEF vars, daemon, calls, CertainInv, RequestsInv, OwnedInv, SameKey, UnsentInv, Unsent,
         FirstIsOver, Owned, OwnerOf, KeyOf, Executing
  <2> QED BY <2>1, RequestsFrontend, RequestsExecute, RequestsAround DEF Next, CertainInv, EffectsInv
<1>2. EpochsInv' /\ EffectsInv'
  BY EpochsNext, EffectsNext DEF CertainInv, EffectsInv
<1> QED BY <1>1, <1>2 DEF CertainInv

LEMMA Certain == Spec => []CertainInv
BY CertainInit, CertainNext, Typed, PTL DEF Spec

\* A stale answer is certain: when the fresh operation of a call is minted, the first
\* has no effect and no request of it is left that could have one.
THEOREM StaleAnswersAreCertain == Spec => []StaleIsCertain
<1>1. TypeOK /\ CertainInv => StaleIsCertain
  <2> SUFFICES ASSUME TypeOK, CertainInv, NEW k \in Calls, try[k] = "fresh"
               PROVE  /\ \A f \in store.applied : f.key.call = k => f.key.try = "fresh"
                      /\ \A copy \in Copies : ~Executing(<<k, "first", copy>>)
    BY DEF StaleIsCertain
  <2>1. ASSUME NEW f \in store.applied, f.key.call = k PROVE f.key.try = "fresh"
    <3>1. /\ OwnerOf(f) = <<k, f.key.try, f.copy>> /\ Owned(OwnerOf(f))
          /\ f.key.try \in Tries /\ f.copy \in Copies
      BY <2>1, OwnersAreRequests DEF OwnerOf, CertainInv, RequestsInv, OwnedInv
    <3> QED BY <3>1 DEF CertainInv, FirstIsOver, Tries
  <2> QED BY <2>1 DEF CertainInv, FirstIsOver
<1> QED BY <1>1, Certain, Typed, PTL

\* How often a call shows in a store whose effects are of different calls.
LEMMA CountOfEffects ==
    ASSUME NEW s, \A f, g \in s.applied : f.key.call = g.key.call => f = g, NEW k
    PROVE  \/ EffectsOf(k, s) = {} /\ Cardinality(EffectsOf(k, s)) = 0
           \/ EffectsOf(k, s) # {} /\ Cardinality(EffectsOf(k, s)) = 1
<1>1. CASE EffectsOf(k, s) = {}
  BY <1>1, FS_EmptySet
<1>2. CASE EffectsOf(k, s) # {}
  <2>1. PICK f \in s.applied : EffectsOf(k, s) = {f}
    BY <1>2 DEF EffectsOf
  <2> QED BY <2>1, FS_Singleton
<1> QED BY <1>1, <1>2

\* A call takes effect once at most, however often its envelope is sent and whatever
\* operations are minted for it (receipts, namespaces and the stale gates together).
THEOREM TakesEffectOnce == Spec => []AtMostOnce
<1>1. CertainInv => AtMostOnce
  BY CountOfEffects DEF CertainInv, EffectsInv, OneEffect, AtMostOnce
<1> QED BY <1>1, Certain, PTL

-----------------------------------------------------------------------------
(* Retry implements OnceOnly, when no call mutates a guide: the store shows *)
(* the effects, and what the disk holds, or a restore has replaced, is kept.*)

\* The host is told something once, at the end of a call.
ToldInv == \A k \in Calls :
    /\ pc[k] = "idle" => told[k] = "nothing"
    /\ pc[k] \notin {"idle", "done"} => told[k] = "asked"
    /\ told[k] = "nothing" => pc[k] = "idle"

\* An effect is of a generation the store has reached.
PastGens == \A f \in store.applied : f.key.gen <= store.gen

\* A call whose effect was replaced has spent its operation on an older generation.
Spent(k) == \E copy \in Copies :
    Owned(<<k, try[k], copy>>) /\ req[<<k, try[k], copy>>].gen < store.gen

ReplacedInv == \A k \in store.replaced : Spent(k)

ReplacedGone == \A f \in store.applied : f.key.call \notin store.replaced

HistoryInv == PastGens /\ ReplacedInv /\ ReplacedGone

LEMMA ToldNext == TypeOK /\ ToldInv /\ [Next]_vars => ToldInv'
<1> SUFFICES ASSUME TypeOK, ToldInv, [Next]_vars PROVE ToldInv'
  OBVIOUS
<1>1. ASSUME pc' = pc, told' = told PROVE ToldInv'
  BY <1>1 DEF ToldInv
<1>2. ASSUME NEW k \in Calls, NEW place \in Places \ {"idle", "done"}, Goto(k, place), told' = told,
             pc[k] \notin {"idle", "done"}
      PROVE  ToldInv'
  BY <1>2 DEF Goto, ToldInv, TypeOK
<1>3. ASSUME NEW k \in Calls, NEW outcome \in Outcomes \ {"nothing"}, Tell(k, outcome)
      PROVE  ToldInv'
  BY <1>3 DEF Tell, Goto, ToldInv, TypeOK
<1>4. ASSUME NEW k \in Calls, Frontend(k) PROVE ToldInv'
  <2>1. pc[k] \notin {"idle", "done"}
    BY <1>4 DEF Frontend, Begin, Greet, GreetAgain, Issue, GreetFails, Send, Receive, Arrived,
         Renew, StaleResend, Broken, Redial, Resume, ResumeFails
  <2>2. \/ told' = told /\ \E place \in Places \ {"idle", "done"} : Goto(k, place)
        \/ \E outcome \in Outcomes \ {"nothing"} : Tell(k, outcome)
    BY <1>4 DEF Frontend, Begin, Greet, GreetAgain, Issue, GreetFails, Send, Receive,
         Renew, StaleResend, Broken, Retreat, Redial, Resume, ResumeFails, Places, Outcomes
  <2> QED BY <2>1, <2>2, <1>2, <1>3
<1>5. ASSUME NEW k \in Calls, Ask(k) PROVE ToldInv'
  BY <1>5 DEF Ask, Goto, ToldInv, TypeOK
<1>6. ASSUME NEW k \in Calls, DialFails(k) PROVE ToldInv'
  BY <1>3, <1>6 DEF DialFails, Outcomes
<1>7. ASSUME NEW id \in Ids, Execute(id) PROVE ToldInv'
  BY <1>1, <1>7 DEF Execute, Gate, Admit, CheckReplay, Lock, Transact, Acknowledge, Work, calls
<1>8. ASSUME \/ RestoreReplace \/ RestoreBegin \/ Activate \/ Flush \/ Drop \/ Outage
             \/ \E id \in Ids : Refuse(id) \/ Lost(id)
             \/ \E e \in Epochs : Expire(e) \/ Collect(e)
      PROVE  ToldInv'
  BY <1>1, <1>8 DEF RestoreReplace, RestoreBegin, Activate, Flush, Drop, Outage, Refuse, Lost,
       Expire, Collect, Work, calls
<1>9. CASE UNCHANGED vars
  BY <1>1, <1>9 DEF vars, calls
<1> QED BY <1>4, <1>5, <1>6, <1>7, <1>8, <1>9 DEF Next, Environment

\* A request that may have taken effect keeps its envelope, and the last operation of
\* its call is the one it belongs to.
LEMMA OwnedStays ==
    ASSUME TypeOK, CertainInv, [Next]_vars, NEW k \in Calls, NEW copy \in Copies,
           Owned(<<k, try[k], copy>>)
    PROVE  /\ try'[k] = try[k]
           /\ Owned(<<k, try[k], copy>>)'
           /\ req'[<<k, try[k], copy>>].gen = req[<<k, try[k], copy>>].gen
<1> DEFINE own == <<k, try[k], copy>>
<1>1. own \in Ids
  BY DEF TypeOK, Ids
<1>2. CASE UNCHANGED vars
  BY <1>2 DEF vars, calls, Owned
<1>3. ASSUME NEW id \in Ids, Execute(id) PROVE MovesOn(own) /\ try' = try
  BY <1>1, <1>3, ExecuteMoves
     DEF Execute, Gate, Admit, CheckReplay, Lock, Transact, Acknowledge, Work, calls
<1>4. ASSUME RestoreReplace \/ Environment PROVE MovesOn(own) /\ try' = try
  BY <1>1, <1>4, AroundMoves
     DEF RestoreReplace, Environment, Ask, DialFails, Tell, Refuse, Lost, Expire, Collect, RestoreBegin,
       Activate, Flush, Drop, Outage, Work, calls
<1>5. ASSUME NEW j \in Calls, Frontend(j)
      PROVE  /\ try'[k] = try[k] /\ Owned(own)'
             /\ req'[own].gen = req[own].gen
  <2>1. CASE Send(j)
    <3>1. Unsent(j, try[j], "sent") /\ try' = try
      BY <2>1 DEF Send, CertainInv, RequestsInv, UnsentInv, Early, Copies
    <3>2. own # <<j, try[j], "sent">>
      BY <3>1 DEF Unsent, Owned
    <3>3. req'[own] = req[own]
      BY <1>1, <2>1, <3>2 DEF Send, TypeOK
    <3> QED BY <3>1, <3>3 DEF Owned
  <2>2. CASE Resume(j)
    <3>1. Unsent(j, try[j], "resent") /\ try' = try
      BY <2>2 DEF Resume, Tell, CertainInv, RequestsInv, UnsentInv
    <3>2. own # <<j, try[j], "resent">>
      BY <3>1 DEF Unsent, Owned
    <3>3. req'[own] = req[own]
      BY <1>1, <2>2, <3>2 DEF Resume, TypeOK
    <3> QED BY <3>1, <3>3 DEF Owned
  <2>3. CASE Renew(j)
    <3>1. j # k
      <4> SUFFICES ASSUME j = k PROVE FALSE
        OBVIOUS
      <4>1. /\ try[k] = "first" /\ Last(k)[3] = "sent" /\ req[Last(k)].stage = "answered"
            /\ req[Last(k)].answer \in {"staleGeneration", "staleReplay"}
        BY <2>3 DEF Renew, Arrived, Renewable
      <4>2. Last(k) = <<k, try[k], "sent">> /\ Unsent(k, try[k], "resent")
        BY <4>1 DEF Last, Unsent
      <4> QED BY <4>1, <4>2 DEF Copies, Owned, Unsent
    <3> QED BY <2>3, <3>1 DEF Renew, Owned, TypeOK
  <2>4. CASE ~Send(j) /\ ~Resume(j) /\ ~Renew(j)
    <3>1. try' = try
      BY <1>5, <2>4 DEF Frontend, Begin, Greet, GreetAgain, Issue, GreetFails, Receive, StaleResend,
           Broken, Retreat, Redial, ResumeFails, Tell
    <3> QED BY <1>1, <1>5, <2>4, <3>1, FrontendMoves DEF MovesOn
  <2> QED BY <2>1, <2>2, <2>3, <2>4
<1> QED BY <1>2, <1>3, <1>4, <1>5 DEF Next, MovesOn

\* The owner of an effect belongs to the operation its call is on.
LEMMA OwnerIsLast ==
    ASSUME TypeOK, CertainInv, NEW f \in store.applied
    PROVE  f.key.try = try[f.key.call]
<1>1. /\ OwnerOf(f) = <<f.key.call, f.key.try, f.copy>> /\ Owned(OwnerOf(f))
      /\ f.key.call \in Calls /\ f.key.try \in Tries /\ f.copy \in Copies
  BY OwnersAreRequests DEF OwnerOf, CertainInv, RequestsInv, OwnedInv
<1>2. CASE try[f.key.call] = "fresh"
  BY <1>1, <1>2 DEF CertainInv, FirstIsOver, Tries
<1>3. CASE try[f.key.call] = "first"
  BY <1>1, <1>3 DEF CertainInv, RequestsInv, UnsentInv, Unsent, Owned, Tries
<1> QED BY <1>1, <1>2, <1>3 DEF TypeOK, Tries

\* A request that is executed belongs to the operation its call is on, and the call
\* has been asked for.
LEMMA ExecutedIsLast ==
    ASSUME TypeOK, CertainInv, ToldInv, NEW id \in Ids, Executing(id)
    PROVE  id = <<id[1], try[id[1]], id[3]>> /\ told[id[1]] # "nothing"
<1>1. id = <<id[1], id[2], id[3]>> /\ id[1] \in Calls /\ id[2] \in Tries /\ id[3] \in Copies
  BY DEF Ids
<1>2. id[2] = try[id[1]]
  <2>1. CASE try[id[1]] = "fresh"
    BY <1>1, <2>1 DEF CertainInv, FirstIsOver, Tries
  <2>2. CASE try[id[1]] = "first"
    BY <1>1, <2>2 DEF CertainInv, RequestsInv, UnsentInv, Unsent, Executing, Tries
  <2> QED BY <1>1, <2>1, <2>2 DEF TypeOK, Tries
<1>3. pc[id[1]] # "idle"
  BY <1>1, <1>2 DEF CertainInv, RequestsInv, UnsentInv, Unsent, Executing, Early
<1> QED BY <1>1, <1>2, <1>3 DEF ToldInv

LEMMA GenOfCall ==
    ASSUME TypeOK, NEW k \in Calls, NEW copy \in Copies
    PROVE  req[<<k, try[k], copy>>].gen \in Nat
<1>1. <<k, try[k], copy>> \in Ids
  BY IdsOfCall DEF TypeOK
<1> QED BY <1>1, RequestParts DEF Gens

\* A command whose effect was replaced does not take effect again.
LEMMA NoEffectAfterReplace ==
    ASSUME Guides = {}, TypeOK, CertainInv, ToldInv, HistoryInv, NEW id \in Ids,
           Transact(id), store' # store
    PROVE  /\ id[1] \notin store.replaced
           /\ \A f \in store.applied : f.key.call # id[1]
<1>1. At(id, "tx") /\ ~Recorded(id) /\ req[id].gen = store.gen
  BY DEF Transact, Fenced
<1>2. Executing(id)
  BY <1>1 DEF At, Executing
<1>3. id = <<id[1], try[id[1]], id[3]>> /\ id[1] \in Calls /\ id[3] \in Copies
  BY <1>2, ExecutedIsLast DEF Ids
<1>4. ASSUME id[1] \in store.replaced PROVE FALSE
  <2>1. PICK copy \in Copies : /\ Owned(<<id[1], try[id[1]], copy>>)
                               /\ req[<<id[1], try[id[1]], copy>>].gen < store.gen
    BY <1>4 DEF HistoryInv, ReplacedInv, Spent
  <2>2. req[<<id[1], try[id[1]], copy>>].gen = req[id].gen
    <3>1. req[<<id[1], try[id[1]], copy>>].stage # "none" /\ req[id].stage # "none"
      BY <1>2, <2>1 DEF Owned, Executing
    <3>2. try[id[1]] \in Tries
      BY <1>3 DEF TypeOK
    <3> QED BY <1>3, <3>1, <3>2 DEF CertainInv, RequestsInv, SameKey, Copies
  <2>3. store.gen \in Nat
    BY StoreParts DEF TypeOK, Gens
  <2> QED BY <1>1, <2>1, <2>2, <2>3
<1> QED BY <1>1, <1>4, NoSecondEffect DEF CertainInv

LEMMA SpentStays ==
    ASSUME TypeOK, CertainInv, [Next]_vars, NEW k \in Calls, NEW copy \in Copies,
           Owned(<<k, try[k], copy>>), req[<<k, try[k], copy>>].gen < store'.gen
    PROVE  Spent(k)'
<1>1. /\ try'[k] = try[k] /\ Owned(<<k, try[k], copy>>)'
      /\ req'[<<k, try[k], copy>>].gen = req[<<k, try[k], copy>>].gen
  BY OwnedStays
<1>2. req'[<<k, try'[k], copy>>].gen < store'.gen
  BY <1>1
<1> QED BY <1>1, <1>2 DEF Spent

LEMMA HistoryNext ==
    ASSUME Guides = {}, TypeOK, TypeOK', CertainInv, ToldInv, HistoryInv, [Next]_vars
    PROVE  HistoryInv'
<1>0. store.gen \in Nat /\ store'.gen \in Nat
  BY StoreParts DEF TypeOK, Gens
\* A store that goes on: no new effect, no new replacement.
<1>1. ASSUME store'.applied \subseteq store.applied, store'.replaced = store.replaced,
             store'.gen >= store.gen
      PROVE  HistoryInv'
  <2>1. PastGens'
    <3>1. \A f \in store.applied : f.key.gen \in Nat
      BY StoreParts DEF TypeOK, Effect, Key, Gens
    <3> QED BY <1>0, <1>1, <3>1 DEF HistoryInv, PastGens
  <2>2. ReplacedInv'
    <3> SUFFICES ASSUME NEW k \in store.replaced PROVE Spent(k)'
      BY <1>1 DEF ReplacedInv
    <3>1. PICK copy \in Copies : Owned(<<k, try[k], copy>>) /\ req[<<k, try[k], copy>>].gen < store.gen
      BY DEF HistoryInv, ReplacedInv, Spent
    <3>2. k \in Calls /\ req[<<k, try[k], copy>>].gen \in Nat
      BY StoreParts, GenOfCall DEF TypeOK
    <3> QED BY <1>0, <1>1, <3>1, <3>2, SpentStays
  <2>3. ReplacedGone'
    BY <1>1 DEF HistoryInv, ReplacedGone
  <2> QED BY <2>1, <2>2, <2>3 DEF HistoryInv
<1>2. ASSUME store' = store PROVE HistoryInv'
  BY <1>0, <1>1, <1>2
<1>3. ASSUME NEW k \in Calls, Frontend(k) PROVE HistoryInv'
  <2>1. ASSUME Issue(k)
        PROVE  store'.applied = store.applied /\ store'.replaced = store.replaced /\ store'.gen = store.gen
    BY <2>1 DEF Issue, TypeOK, Store
  <2>2. ASSUME ~Issue(k) PROVE store' = store
    BY <1>3, <2>2 DEF Frontend, Begin, Greet, GreetAgain, GreetFails, Send, Receive,
         Renew, StaleResend, Broken, Redial, Resume, ResumeFails, daemon
  <2> QED BY <1>0, <1>1, <1>2, <2>1, <2>2
<1>4. ASSUME NEW id \in Ids, Execute(id) PROVE HistoryInv'
  <2>1. CASE store' = store
    BY <1>2, <2>1
  <2>2. CASE store' # store
    <3> DEFINE new == [key |-> KeyOf(id), copy |-> id[3], at |-> store.gen]
    <3>1. Transact(id)
      BY <1>4, <2>2 DEF Execute, Gate, Admit, CheckReplay, Lock, Acknowledge, daemon
    <3>2. /\ store'.applied = store.applied \cup {new} /\ store'.gen = store.gen
          /\ store'.replaced = store.replaced /\ Fenced(id)
      <4>1. store \in Store
        BY DEF TypeOK
      <4>2. Fenced(id) /\ store' = [store EXCEPT !.receipts = store.receipts \cup {KeyOf(id)},
                                                !.applied = store.applied \cup {new}]
        BY <2>2, <3>1 DEF Transact
      <4> HIDE DEF new
      <4> QED BY <4>1, <4>2 DEF Store
    <3>3. new.key.call = id[1] /\ new.key.gen = store.gen
      BY <3>2 DEF KeyOf, Fenced
    <3>4. id[1] \notin store.replaced
      BY <2>2, <3>1, NoEffectAfterReplace
    <3> HIDE DEF new
    <3>5. PastGens' /\ ReplacedGone'
      BY <1>0, <3>2, <3>3, <3>4 DEF HistoryInv, PastGens, ReplacedGone
    <3>6. ReplacedInv'
      <4> SUFFICES ASSUME NEW k \in store.replaced PROVE Spent(k)'
        BY <3>2 DEF ReplacedInv
      <4>1. k \in Calls
        BY StoreParts DEF TypeOK
      <4> QED BY <3>2, <4>1, SpentStays DEF HistoryInv, ReplacedInv, Spent
    <3> QED BY <3>5, <3>6 DEF HistoryInv
  <2> QED BY <2>1, <2>2
\* The restore: what is replaced had its effect in this generation or an earlier one.
<1>5. ASSUME RestoreReplace PROVE HistoryInv'
  <2>1. /\ store'.applied = {} /\ store'.gen = store.gen + 1
        /\ store'.replaced = store.replaced \cup {f.key.call : f \in store.applied}
    BY <1>5 DEF RestoreReplace, EmptyStore
  <2>2. ReplacedInv'
    <3> SUFFICES ASSUME NEW k \in store'.replaced PROVE Spent(k)'
      BY DEF ReplacedInv
    <3>1. k \in Calls
      BY StoreParts DEF TypeOK
    <3>2. \E copy \in Copies : Owned(<<k, try[k], copy>>) /\ req[<<k, try[k], copy>>].gen <= store.gen
      <4>1. CASE k \in store.replaced
        <5>1. PICK copy \in Copies : Owned(<<k, try[k], copy>>) /\ req[<<k, try[k], copy>>].gen < store.gen
          BY <4>1 DEF HistoryInv, ReplacedInv, Spent
        <5>2. req[<<k, try[k], copy>>].gen \in Nat
          BY <3>1, GenOfCall
        <5> QED BY <1>0, <5>1, <5>2
      <4>2. CASE k \notin store.replaced
        <5>1. PICK f \in store.applied : k = f.key.call
          BY <2>1, <4>2
        <5>2. /\ Owned(OwnerOf(f)) /\ f.key = KeyOf(OwnerOf(f))
          BY DEF CertainInv, RequestsInv, OwnedInv
        <5>3. /\ OwnerOf(f) = <<k, try[k], f.copy>> /\ f.copy \in Copies
          BY <5>1, OwnersAreRequests, OwnerIsLast DEF OwnerOf
        <5>4. f.key.gen = req[OwnerOf(f)].gen
          BY <5>2 DEF KeyOf
        <5> QED BY <5>2, <5>3, <5>4 DEF HistoryInv, PastGens
      <4> QED BY <4>1, <4>2
    <3>3. PICK copy \in Copies : Owned(<<k, try[k], copy>>) /\ req[<<k, try[k], copy>>].gen <= store.gen
      BY <3>2
    <3>4. req[<<k, try[k], copy>>].gen \in Nat
      BY <3>1, GenOfCall
    <3> QED BY <1>0, <2>1, <3>1, <3>3, <3>4, SpentStays
  <2> QED BY <2>1, <2>2 DEF HistoryInv, PastGens, ReplacedGone
<1>6. ASSUME NEW e \in Epochs, Expire(e) \/ Collect(e) PROVE HistoryInv'
  <2>1. store'.applied = store.applied /\ store'.replaced = store.replaced /\ store'.gen = store.gen
    BY <1>6 DEF Expire, Collect, TypeOK, Store
  <2> QED BY <1>0, <1>1, <2>1
<1>7. ASSUME Activate PROVE HistoryInv'
  <2>1. store'.applied = store.applied /\ store'.replaced = store.replaced /\ store'.gen = store.gen + 1
    BY <1>7 DEF Activate, TypeOK, Store
  <2> QED BY <1>0, <1>1, <2>1
<1>8. ASSUME Outage PROVE HistoryInv'
  <2>1. store'.applied \subseteq store.applied /\ store'.replaced = store.replaced
        /\ store'.gen = store.gen
    BY <1>8 DEF Outage, CertainInv, EffectsInv, DiskFollows
  <2> QED BY <1>0, <1>1, <2>1
<1>9. ASSUME \/ RestoreBegin \/ Drop \/ Flush
             \/ \E k \in Calls : Ask(k) \/ DialFails(k)
             \/ \E id \in Ids : Refuse(id) \/ Lost(id)
      PROVE  HistoryInv'
  BY <1>2, <1>9 DEF RestoreBegin, Drop, Flush, Ask, DialFails, Refuse, Lost, daemon
<1>10. CASE UNCHANGED vars
  BY <1>2, <1>10 DEF vars, daemon
<1> QED BY <1>3, <1>4, <1>5, <1>6, <1>7, <1>8, <1>9, <1>10 DEF Next, Environment

\* The invariant of the refinement.
ImplInv == TypeOK /\ CertainInv /\ DurableInv /\ ToldInv /\ HistoryInv

\* The state of OnceOnly that a state of Retry shows.
Shown(s) == [k \in Calls |-> Cardinality(EffectsOf(k, s))]
Kept(s)  == s.replaced \cup {f.key.call : f \in s.applied}

AbstractStep == \/ Abstract!Next
                \/ UNCHANGED <<told, Shown(store), Kept(disk)>>

LEMMA ShownIs ==
    ASSUME NEW s, \A f, g \in s.applied : f.key.call = g.key.call => f = g
    PROVE  /\ Shown(s) = [k \in Calls |-> IF \E f \in s.applied : f.key.call = k THEN 1 ELSE 0]
           /\ \A k \in Calls : Shown(s)[k] = IF \E f \in s.applied : f.key.call = k THEN 1 ELSE 0
<1>1. \A k \in Calls : Cardinality(EffectsOf(k, s))
                          = IF \E f \in s.applied : f.key.call = k THEN 1 ELSE 0
  <2> SUFFICES ASSUME NEW k \in Calls
               PROVE  Cardinality(EffectsOf(k, s)) = IF \E f \in s.applied : f.key.call = k THEN 1 ELSE 0
    OBVIOUS
  <2>1. EffectsOf(k, s) = {} <=> ~\E f \in s.applied : f.key.call = k
    BY DEF EffectsOf
  <2> QED BY <2>1, CountOfEffects
<1> QED BY <1>1 DEF Shown

LEMMA KeptIs ==
    ASSUME TypeOK
    PROVE  /\ Kept(disk) \subseteq Calls /\ Kept(store) \subseteq Calls
           /\ \A k \in Calls : k \in Kept(disk) <=> Done(k, disk)
BY StoreParts DEF TypeOK, Kept, Done, Effect, Key

\* A step that leaves the effects, and perhaps brings the disk up to date.
LEMMA Hardens ==
    ASSUME ImplInv, told' = told,
           store'.applied = store.applied, store'.replaced = store.replaced,
           \/ disk' = store'
           \/ disk'.applied = disk.applied /\ disk'.replaced = disk.replaced
    PROVE  AbstractStep
<1>1. Shown(store)' = Shown(store)
  BY DEF Shown, EffectsOf
<1>2. CASE disk'.applied = disk.applied /\ disk'.replaced = disk.replaced
  BY <1>1, <1>2 DEF AbstractStep, Kept
<1>3. CASE disk' = store'
  <2> DEFINE S == {k \in Calls : \E f \in store.applied : f.key.call = k}
  <2>1. Kept(disk)' = Kept(disk) \cup S
    <3>1. Kept(disk)' = store.replaced \cup {f.key.call : f \in store.applied}
      BY <1>3 DEF Kept
    <3>2. disk.replaced = store.replaced /\ disk.applied \subseteq store.applied
      BY DEF ImplInv, CertainInv, EffectsInv, DiskFollows
    <3>3. \A f \in store.applied : f.key.call \in Calls
      BY OwnersAreRequests DEF ImplInv
    <3> QED BY <3>1, <3>2, <3>3 DEF Kept
  <2>2. \A k \in S : Shown(store)[k] = 1
    BY ShownIs DEF ImplInv, CertainInv, EffectsInv, OneEffect
  <2>3. S \in SUBSET Calls
    OBVIOUS
  <2> HIDE DEF S
  <2>4. \E T \in SUBSET Calls : /\ \A k \in T : Shown(store)[k] = 1
                               /\ Kept(disk)' = Kept(disk) \cup T
    BY <2>1, <2>2, <2>3
  <2>5. Abstract!Next
    BY <1>1, <2>4 DEF Abstract!Next, Abstract!Harden, Shown, Kept
  <2> QED BY <2>5 DEF AbstractStep
<1> QED BY <1>2, <1>3

\* The end of a call.
LEMMA CallEnds ==
    ASSUME ImplInv, NEW k \in Calls, NEW outcome \in Outcomes \ {"nothing", "asked"},
           Tell(k, outcome), pc[k] \notin {"idle", "done"},
           UNCHANGED daemon, outcome = "success" => k \in Kept(disk)
    PROVE  AbstractStep
<1>1. told[k] = "asked"
  BY DEF ImplInv, ToldInv
<1>2. Shown(store)' = Shown(store) /\ Kept(disk)' = Kept(disk)
  BY DEF daemon, Shown, EffectsOf, Kept
<1>3. Abstract!Answer(k, outcome)
  BY <1>1, <1>2 DEF Abstract!Answer, Tell, Shown, Kept
<1>4. outcome \in Abstract!Outcomes
  BY DEF Outcomes, Abstract!Outcomes
<1> QED BY <1>3, <1>4 DEF AbstractStep, Abstract!Next

LEMMA ImplementsFrontend ==
    ASSUME ImplInv, NEW k \in Calls, Frontend(k)
    PROVE  AbstractStep
<1>1. CASE Issue(k)
  <2>1. store'.applied = store.applied /\ store'.replaced = store.replaced /\ disk' = store'
        /\ told' = told
    BY <1>1 DEF Issue, ImplInv, TypeOK, Store
  <2> QED BY <2>1, Hardens
<1>2. CASE ~Issue(k)
  <2>1. UNCHANGED daemon
    BY <1>2 DEF Frontend, Begin, Greet, GreetAgain, GreetFails, Send, Receive,
         Renew, StaleResend, Broken, Redial, Resume, ResumeFails
  <2>2. CASE told' = told
    BY <2>1, <2>2, Hardens DEF daemon
  <2>3. CASE Receive(k)
    <3>1. PICK outcome \in {"success", "refused"} :
              /\ Tell(k, outcome)
              /\ outcome = "success" => req[Last(k)].answer = "success"
      BY <2>3 DEF Receive
    <3>2. outcome = "success" => k \in Kept(disk)
      BY <3>1, LastType, KeptIs DEF ImplInv, DurableInv, AnsweredIsDurable
    <3>3. pc[k] = "wait"
      BY <2>3 DEF Receive, Arrived
    <3> QED BY <2>1, <3>1, <3>2, <3>3, CallEnds DEF Outcomes
  <2>4. CASE ~Receive(k) /\ told' # told
    <3>1. \E outcome \in {"failed", "unknown"} : Tell(k, outcome)
      BY <1>2, <2>4 DEF Frontend, Begin, Greet, GreetAgain, GreetFails, Send, Renew, StaleResend,
           Broken, Retreat, Redial, Resume, ResumeFails
    <3>2. pc[k] \notin {"idle", "done"}
      BY DEF Frontend, Begin, Greet, GreetAgain, Issue, GreetFails, Send, Receive, Arrived,
           Renew, StaleResend, Broken, Redial, Resume, ResumeFails
    <3> QED BY <2>1, <3>1, <3>2, CallEnds DEF Outcomes
  <2> QED BY <2>2, <2>3, <2>4
<1> QED BY <1>1, <1>2

LEMMA ImplementsExecute ==
    ASSUME Guides = {}, ImplInv, NEW id \in Ids, Execute(id)
    PROVE  AbstractStep
<1>0. told' = told
  BY DEF Execute, Gate, Admit, CheckReplay, Lock, Transact, Acknowledge, Work, calls
<1>1. CASE store' = store
  <2>1. disk' = disk \/ disk' = store
    BY <1>1 DEF Execute, Gate, Admit, CheckReplay, Lock, Transact, Acknowledge, Barrier, daemon
  <2> QED BY <1>0, <1>1, <2>1, Hardens
<1>2. CASE store' # store
  <2> DEFINE k == id[1]
             new == [key |-> KeyOf(id), copy |-> id[3], at |-> store.gen]
  <2>1. Transact(id)
    BY <1>2 DEF Execute, Gate, Admit, CheckReplay, Lock, Acknowledge, daemon
  <2>2. /\ store'.applied = store.applied \cup {new} /\ disk' = disk
        /\ Executing(id) /\ k \in Calls
    BY <1>2, <2>1 DEF Transact, ImplInv, TypeOK, Store, At, Executing, Ids
  <2>3. new.key.call = k
    BY DEF KeyOf
  <2>4. k \notin store.replaced /\ \A f \in store.applied : f.key.call # k
    BY <1>2, <2>1, NoEffectAfterReplace DEF ImplInv
  <2>5. told[k] # "nothing"
    BY <2>2, ExecutedIsLast DEF ImplInv
  <2>6. told[k] # "success"
    BY <2>2, <2>4 DEF ImplInv, DurableInv, ToldIsDurable, DiskBehind, Done
  <2> HIDE DEF new, k
  <2>7. \A f, g \in store.applied : f.key.call = g.key.call => f = g
    BY DEF ImplInv, CertainInv, EffectsInv, OneEffect
  <2>8. \A f, g \in store'.applied : f.key.call = g.key.call => f = g
    BY <2>2, <2>3, <2>4, <2>7
  <2>9. Shown(store)[k] = 0
    BY <2>2, <2>4, <2>7, ShownIs
  <2>10. Shown(store)' = [Shown(store) EXCEPT ![k] = 1]
    <3>1. Shown(store') = [j \in Calls |-> IF \E f \in store'.applied : f.key.call = j THEN 1 ELSE 0]
      BY <2>8, ShownIs
    <3>2. Shown(store) = [j \in Calls |-> IF \E f \in store.applied : f.key.call = j THEN 1 ELSE 0]
      BY <2>7, ShownIs
    <3>3. \A j \in Calls : (\E f \in store'.applied : f.key.call = j)
                            <=> j = k \/ \E f \in store.applied : f.key.call = j
      BY <2>2, <2>3
    <3>4. Shown(store') = [Shown(store) EXCEPT ![k] = 1]
      BY <2>2, <3>1, <3>2, <3>3
    <3>5. Shown(store)' = Shown(store')
      BY DEF Shown, EffectsOf
    <3> QED BY <3>4, <3>5
  <2>11. Abstract!TakeEffect(k)
    BY <1>0, <2>2, <2>5, <2>6, <2>9, <2>10 DEF Abstract!TakeEffect, Shown, Kept
  <2> QED BY <2>2, <2>11 DEF AbstractStep, Abstract!Next
<1> QED BY <1>1, <1>2

LEMMA ImplementsAround ==
    ASSUME ImplInv, RestoreReplace \/ Environment
    PROVE  AbstractStep
<1>0. OneEffect /\ DiskFollows
  BY DEF ImplInv, CertainInv, EffectsInv
<1>1. ASSUME NEW k \in Calls, Ask(k) PROVE AbstractStep
  <2>1. told[k] = "nothing" /\ told' = [told EXCEPT ![k] = "asked"] /\ UNCHANGED daemon
    BY <1>1 DEF Ask, ImplInv, ToldInv
  <2>2. Shown(store)' = Shown(store) /\ Kept(disk)' = Kept(disk)
    BY <2>1 DEF daemon, Shown, EffectsOf, Kept
  <2>3. Abstract!Ask(k)
    BY <2>1, <2>2 DEF Abstract!Ask, Shown, Kept
  <2> QED BY <2>3 DEF AbstractStep, Abstract!Next
<1>2. ASSUME NEW k \in Calls, DialFails(k) PROVE AbstractStep
  <2>1. /\ UNCHANGED daemon /\ \E outcome \in {"failed", "unknown"} : Tell(k, outcome)
        /\ pc[k] \notin {"idle", "done"}
    BY <1>2 DEF DialFails
  <2> QED BY <2>1, CallEnds DEF Outcomes
<1>3. ASSUME NEW e \in Epochs, Expire(e) PROVE AbstractStep
  <2>1. /\ store'.applied = store.applied /\ store'.replaced = store.replaced
        /\ disk'.applied = disk.applied /\ disk'.replaced = disk.replaced /\ told' = told
    BY <1>3 DEF Expire, ImplInv, TypeOK, Store, Work, calls
  <2> QED BY <2>1, Hardens
<1>4. ASSUME NEW e \in Epochs, Collect(e) PROVE AbstractStep
  <2>1. /\ store'.applied = store.applied /\ store'.replaced = store.replaced
        /\ disk' = store' /\ told' = told
    BY <1>4 DEF Collect, ImplInv, TypeOK, Store, Work, calls
  <2> QED BY <2>1, Hardens
<1>5. ASSUME Activate PROVE AbstractStep
  <2>1. /\ store'.applied = store.applied /\ store'.replaced = store.replaced
        /\ disk' = store' /\ told' = told
    BY <1>5 DEF Activate, ImplInv, TypeOK, Store, calls
  <2> QED BY <2>1, Hardens
<1>6. ASSUME RestoreBegin \/ Flush \/ Drop \/ \E id \in Ids : Refuse(id) \/ Lost(id)
      PROVE  AbstractStep
  <2>1. store' = store /\ (disk' = disk \/ disk' = store) /\ told' = told
    BY <1>6 DEF RestoreBegin, Flush, Drop, Refuse, Lost, Work, calls, daemon
  <2> QED BY <2>1, Hardens
\* A power failure takes back what the disk does not hold.
<1>7. ASSUME Outage PROVE AbstractStep
  <2> DEFINE S == {k \in Calls : /\ \E f \in store.applied : f.key.call = k
                                 /\ ~\E f \in disk.applied : f.key.call = k}
  <2>1. store' = disk /\ disk' = disk /\ told' = told
    BY <1>7 DEF Outage, calls
  <2>2. S \cap Kept(disk) = {}
    BY <1>0 DEF ImplInv, HistoryInv, ReplacedGone, DiskFollows, Kept
  <2>3. Shown(disk) = [k \in Calls |-> IF k \in S THEN 0 ELSE Shown(store)[k]]
    <3>1. \A f, g \in store.applied : f.key.call = g.key.call => f = g
      BY <1>0 DEF OneEffect
    <3>2. \A f, g \in disk.applied : f.key.call = g.key.call => f = g
      BY <1>0 DEF OneEffect, DiskFollows
    <3>3. Shown(disk) = [k \in Calls |-> IF \E f \in disk.applied : f.key.call = k THEN 1 ELSE 0]
      BY <3>2, ShownIs
    <3>4. \A k \in Calls : Shown(store)[k] = IF \E f \in store.applied : f.key.call = k THEN 1 ELSE 0
      BY <3>1, ShownIs
    <3>5. \A k \in Calls : (\E f \in disk.applied : f.key.call = k) =>
                              \E f \in store.applied : f.key.call = k
      BY <1>0 DEF DiskFollows
    <3>6. \A k \in Calls : (IF \E f \in disk.applied : f.key.call = k THEN 1 ELSE 0)
                            = IF k \in S THEN 0 ELSE Shown(store)[k]
      BY <3>4, <3>5
    <3> QED BY <3>3, <3>6
  <2> HIDE DEF S
  <2>4. Shown(store)' = [k \in Calls |-> IF k \in S THEN 0 ELSE Shown(store)[k]]
    BY <2>1, <2>3 DEF Shown, EffectsOf
  <2>5. Kept(disk)' = Kept(disk)
    BY <2>1 DEF Kept
  <2>6. Abstract!Lose(S)
    BY <2>1, <2>2, <2>4, <2>5 DEF Abstract!Lose, Shown, Kept
  <2>7. S \in SUBSET Calls
    BY DEF S
  <2> QED BY <2>6, <2>7 DEF AbstractStep, Abstract!Next
\* A restore keeps what it replaces, as something that was done.
<1>8. ASSUME RestoreReplace PROVE AbstractStep
  <2>1. /\ store'.applied = {} /\ disk' = store' /\ told' = told
        /\ store'.replaced = store.replaced \cup {f.key.call : f \in store.applied}
    BY <1>8 DEF RestoreReplace, EmptyStore, Work, calls
  <2>2. Shown(store)' = [k \in Calls |-> 0]
    <3>1. Shown(store') = [k \in Calls |-> 0]
      BY <2>1, ShownIs
    <3> QED BY <3>1 DEF Shown, EffectsOf
  <2>3. \A k \in Calls : Shown(store)[k] = 1 <=> \E f \in store.applied : f.key.call = k
    BY <1>0, ShownIs DEF OneEffect
  <2>4. Kept(disk)' = Kept(disk) \cup {k \in Calls : Shown(store)[k] = 1}
    <3>1. Kept(disk)' = store.replaced \cup {f.key.call : f \in store.applied}
      BY <2>1 DEF Kept
    <3>2. \A f \in store.applied : f.key.call \in Calls
      BY OwnersAreRequests DEF ImplInv
    <3> QED BY <1>0, <2>3, <3>1, <3>2 DEF DiskFollows, Kept
  <2>5. Abstract!Replace
    BY <2>1, <2>2, <2>4 DEF Abstract!Replace, Shown, Kept
  <2> QED BY <2>5 DEF AbstractStep, Abstract!Next
<1> QED BY <1>1, <1>2, <1>3, <1>4, <1>5, <1>6, <1>7, <1>8 DEF Environment

LEMMA ImplInit == Init => ImplInv /\ Abstract!Init
<1> SUFFICES ASSUME Init PROVE ImplInv /\ Abstract!Init
  OBVIOUS
<1>1. ToldInv
  BY DEF Init, ToldInv
<1>2. HistoryInv
  BY DEF Init, EmptyStore, HistoryInv, PastGens, ReplacedInv, ReplacedGone
<1>3. Shown(store) = [k \in Calls |-> 0] /\ Kept(disk) = {}
  <2>1. store.applied = {} /\ disk.applied = {} /\ disk.replaced = {}
    BY DEF Init, EmptyStore
  <2> QED BY <2>1, ShownIs DEF Kept
<1>4. Abstract!Init
  BY <1>3 DEF Init, Abstract!Init, Shown, Kept
<1> QED BY <1>1, <1>2, <1>4, TypeInit, CertainInit, DurableInit DEF ImplInv

\* The retry protocol keeps the promise to the host, for commands: every step is a step
\* of OnceOnly or none.  A guide mutation is not fenced, so its effect may come again in
\* a restored store and then be lost again.
THEOREM ImplementsOnceOnly == Guides = {} => (Spec => OnceOnlySpec)
<1> SUFFICES ASSUME Guides = {} PROVE Spec => OnceOnlySpec
  OBVIOUS
<1>1. Init => ImplInv
  BY ImplInit
<1>2. TypeOK /\ TypeOK' /\ ImplInv /\ [Next]_vars => ImplInv'
  BY CertainNext, DurableNext, ToldNext, HistoryNext DEF ImplInv
<1>3. ImplInv /\ [Next]_vars =>
          [Abstract!Next]_<<told, [k \in Calls |-> Cardinality(EffectsOf(k, store))],
                            disk.replaced \cup {f.key.call : f \in disk.applied}>>
  <2> SUFFICES ASSUME ImplInv, [Next]_vars PROVE AbstractStep
    BY DEF AbstractStep, Shown, Kept
  <2>1. CASE UNCHANGED vars
    BY <2>1, Hardens DEF vars, daemon, calls
  <2> QED BY <2>1, ImplementsFrontend, ImplementsExecute, ImplementsAround DEF Next
<1> QED BY <1>1, <1>2, <1>3, ImplInit, Typed, PTL DEF Spec, OnceOnlySpec, Abstract!Spec
=============================================================================
