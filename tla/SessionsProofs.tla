---------------------------- MODULE SessionsProofs ----------------------------
(***************************************************************************)
(* Theorems about Sessions, for any hosts, programs, resends and kills.    *)
(*                                                                         *)
(* The invariant they rest on is Recorded: what a receipt, a binding or a  *)
(* request names is a session that exists and belongs to the channel of    *)
(* its call, a session exists only with the receipt of its start, and a    *)
(* request that is past its commit has a receipt.  A step is one of three  *)
(* commits (StartEffect, AttemptEffect, FinishEffect), one that touches    *)
(* neither sessions nor receipts, or a quiet one (QuietEffect): it links,  *)
(* boosts, or records a practice or an answer.                             *)
(***************************************************************************)
EXTENDS Sessions, SequenceTheorems, FiniteSetTheorems, TLAPS

-----------------------------------------------------------------------------
(* Types of the pieces.                                                    *)

LEMMA NotASession == NoSession \notin SessionIds
<1> SUFFICES ASSUME NoSession \in SessionIds PROVE FALSE
  OBVIOUS
<1>1. PICK c \in HostCalls, n \in 1..MaxSends : NoSession = <<c, n>>
  BY DEF SessionIds, RequestIds
<1> QED BY <1>1 DEF NoSession

LEMMA ChannelTyped == ASSUME NEW c \in HostCalls PROVE ChannelOf(c) \in HostChannels
BY SessionsAssumption DEF ChannelOf

LEMMA AbsentTyped == ASSUME NEW ch \in HostChannels PROVE Absent(ch) \in Session /\ Created(ch) \in Session
<1>1. <<>> \in Seq(Attempt)
  OBVIOUS
<1> QED BY <1>1 DEF Absent, Created, Session

LEMMA EndTyped ==
    ASSUME sessions \in [SessionIds -> Session], NEW h \in SessionIds,
           NEW o \in {"success", "failure", "abandoned"},
           NEW st \in {"ended", "abandoned"}
    PROVE  /\ [sessions EXCEPT ![h].status = st, ![h].outcome = o] \in [SessionIds -> Session]
           /\ [sessions EXCEPT ![h].status = st, ![h].outcome = o]
                = [sessions EXCEPT ![h] = [sessions[h] EXCEPT !.status = st, !.outcome = o]]
<1>1. [sessions[h] EXCEPT !.status = st, !.outcome = o] \in Session
  BY DEF Session
<1>2. [sessions EXCEPT ![h].status = st, ![h].outcome = o]
                = [sessions EXCEPT ![h] = [sessions[h] EXCEPT !.status = st, !.outcome = o]]
  BY DEF Session
<1> QED BY <1>1, <1>2

LEMMA AbandonedTyped ==
    ASSUME sessions \in [SessionIds -> Session], NEW g \in SessionIds \cup {NoSession}
    PROVE  /\ Abandoned(sessions, g) \in [SessionIds -> Session]
           /\ \A h \in SessionIds :
                 LET r == Abandoned(sessions, g)[h] IN
                 /\ r.channel = sessions[h].channel /\ r.attempts = sessions[h].attempts
                 /\ r.used = sessions[h].used
                 /\ sessions[h].status # "active" =>
                       r.status = sessions[h].status /\ r.outcome = sessions[h].outcome
                 /\ sessions[h].status = "active" => r.status \in {"active", "abandoned"}
<1>1. CASE g # NoSession /\ sessions[g].status = "active"
  <2>1. g \in SessionIds
    BY <1>1
  <2>2. /\ Abandoned(sessions, g) \in [SessionIds -> Session]
        /\ Abandoned(sessions, g) = [sessions EXCEPT ![g] =
              [sessions[g] EXCEPT !.status = "abandoned", !.outcome = "abandoned"]]
    BY <1>1, <2>1, EndTyped DEF Abandoned
  <2> QED BY <1>1, <2>1, <2>2 DEF Session
<1>2. CASE ~(g # NoSession /\ sessions[g].status = "active")
  BY <1>2 DEF Abandoned, Session
<1> QED BY <1>1, <1>2

LEMMA InitTyped == SessionsInit => SessionsTypeOK
<1> SUFFICES ASSUME SessionsInit PROVE SessionsTypeOK
  OBVIOUS
<1> USE SessionsAssumption DEF SessionsInit
<1>1. sessions \in [SessionIds -> Session]
  BY ChannelTyped, AbsentTyped DEF SessionIds, RequestIds
<1>2. receipts \in [HostCalls -> Receipt]
  BY DEF Receipt, NoReceipt
<1>3. requests \in [RequestIds -> Request]
  BY DEF Request, Unsent, Steps
<1>4. tally \in [{"success", "failure"} -> Nat]
  OBVIOUS
<1>5. suggestions \in Seq(Suggestion)
  OBVIOUS
<1> QED BY <1>1, <1>2, <1>3, <1>4, <1>5 DEF SessionsTypeOK

\* A session of a request or a receipt is there, and of the channel of the call.
Owned(h, ch) == h # NoSession => sessions[h].status # "absent" /\ ChannelOf(h[1]) = ch

ExistInv ==
    \A h \in SessionIds :
        /\ sessions[h].channel = ChannelOf(h[1])
        /\ sessions[h].status = "absent" => DOMAIN sessions[h].attempts = {}
        /\ sessions[h].status # "absent" => receipts[h[1]].done

KnownInv ==
    /\ \A c \in HostCalls :
          /\ Owned(receipts[c].session, ChannelOf(c))
          /\ receipts[c].boosted => receipts[c].done
          /\ told[c] = "success" => receipts[c].done
    /\ \A ch \in HostChannels : Owned(bound[ch], ch) /\ Owned(saved[ch], ch)

RoutedInv ==
    \A id \in RequestIds :
        /\ Owned(requests[id].session, ChannelOf(id[1]))
        /\ Kind[id[1]] \in {"attempt", "end"} /\ requests[id].step = "routed"
              => requests[id].session # NoSession
        /\ requests[id].step \in {"committed", "bound", "recorded"} => receipts[id[1]].done

Recorded == SessionsTypeOK /\ ExistInv /\ KnownInv /\ RoutedInv

\* The sessions of t are those of s, but for attempts that count at most one access more.
CountsMore(s, t) ==
    \A h \in SessionIds :
        /\ t[h].status = s[h].status /\ t[h].channel = s[h].channel
        /\ t[h].used = s[h].used /\ t[h].outcome = s[h].outcome
        /\ DOMAIN t[h].attempts = DOMAIN s[h].attempts
        /\ \A i \in DOMAIN s[h].attempts :
              /\ t[h].attempts[i].call = s[h].attempts[i].call
              /\ t[h].attempts[i].outcome = s[h].attempts[i].outcome
              /\ t[h].attempts[i].accesses
                    \in {s[h].attempts[i].accesses, s[h].attempts[i].accesses + 1}

LEMMA AccessedTyped ==
    ASSUME NEW s \in [SessionIds -> Session], NEW T
    PROVE  Accessed(s, T) \in [SessionIds -> Session] /\ CountsMore(s, Accessed(s, T))
<1> DEFINE New(h) == [i \in DOMAIN s[h].attempts |->
                IF <<h, i>> \in T
                THEN [s[h].attempts[i] EXCEPT !.accesses = @ + 1] ELSE s[h].attempts[i]]
<1>1. Accessed(s, T) = [h \in SessionIds |-> [s[h] EXCEPT !.attempts = New(h)]]
  BY DEF Accessed
<1>2. ASSUME NEW h \in SessionIds
      PROVE /\ New(h) \in Seq(Attempt) /\ DOMAIN New(h) = DOMAIN s[h].attempts
            /\ \A i \in DOMAIN s[h].attempts :
                       /\ New(h)[i].call = s[h].attempts[i].call
                       /\ New(h)[i].outcome = s[h].attempts[i].outcome
                       /\ New(h)[i].accesses \in {s[h].attempts[i].accesses, s[h].attempts[i].accesses + 1}
  <2>1. s[h].attempts \in Seq(Attempt)
    BY DEF Session
  <2>2. DOMAIN s[h].attempts = 1..Len(s[h].attempts) /\ Len(s[h].attempts) \in Nat
    BY <2>1
  <2>3. ASSUME NEW i \in DOMAIN s[h].attempts
        PROVE /\ New(h)[i] \in Attempt
              /\ New(h)[i].call = s[h].attempts[i].call
              /\ New(h)[i].outcome = s[h].attempts[i].outcome
              /\ New(h)[i].accesses \in {s[h].attempts[i].accesses, s[h].attempts[i].accesses + 1}
    <3>1. s[h].attempts[i] \in Attempt
      BY <2>1, <2>2
    <3> QED BY <3>1 DEF Attempt
  <2>4. New(h) \in [1..Len(s[h].attempts) -> Attempt]
    BY <2>2, <2>3
  <2>5. New(h) \in Seq(Attempt)
    BY <2>2, <2>4
  <2>6. DOMAIN New(h) = DOMAIN s[h].attempts
    OBVIOUS
  <2> QED BY <2>3, <2>5, <2>6
<1> HIDE DEF New
<1>3. ASSUME NEW h \in SessionIds PROVE [s[h] EXCEPT !.attempts = New(h)] \in Session
  <2> DEFINE a == New(h)
  <2>1. s[h] \in Session /\ a \in Seq(Attempt)
    BY <1>2
  <2> HIDE DEF a
  <2>2. [s[h] EXCEPT !.attempts = a] \in Session
    BY <2>1 DEF Session
  <2> QED BY <2>2 DEF a
<1>4. ASSUME NEW h \in SessionIds
      PROVE LET r == Accessed(s, T)[h] IN
                 /\ r.status = s[h].status /\ r.channel = s[h].channel
                 /\ r.used = s[h].used /\ r.outcome = s[h].outcome /\ r.attempts = New(h)
  <2>1. s[h] \in Session
    OBVIOUS
  <2> QED BY <1>1, <2>1 DEF Session
<1>5. Accessed(s, T) \in [SessionIds -> Session]
  BY <1>1, <1>3
<1>6. CountsMore(s, Accessed(s, T))
  BY <1>2, <1>4 DEF CountsMore
<1> QED BY <1>5, <1>6

LEMMA LinkedTyped ==
    ASSUME NEW s \in [SessionIds -> Session], NEW g \in SessionIds \cup {NoSession}
    PROVE  /\ Linked(s, g) \in [SessionIds -> Session]
           /\ \A h \in SessionIds :
                 LET r == Linked(s, g)[h] IN
                 /\ r.status = s[h].status /\ r.channel = s[h].channel
                 /\ r.outcome = s[h].outcome /\ r.attempts = s[h].attempts
                 /\ s[h].used => r.used
BY DEF Linked, Session

LEMMA RequestTyped ==
    ASSUME requests \in [RequestIds -> Request], NEW id \in RequestIds,
           NEW step \in Steps, NEW h \in SessionIds \cup {NoSession},
           NEW T \in SUBSET (SessionIds \X Nat)
    PROVE  /\ [requests EXCEPT ![id].step = step] \in [RequestIds -> Request]
           /\ [requests EXCEPT ![id].targets = T] \in [RequestIds -> Request]
           /\ [requests EXCEPT ![id].step = step, ![id].session = h] \in [RequestIds -> Request]
           /\ [requests EXCEPT ![id] = [step |-> step, session |-> h, targets |-> T]]
                 \in [RequestIds -> Request]
           /\ [Unsent EXCEPT !.step = step] \in Request
           /\ [requests EXCEPT ![id] = [Unsent EXCEPT !.step = step]] \in [RequestIds -> Request]
BY DEF Request, Unsent

LEMMA CurrentTyped ==
    ASSUME SessionsTypeOK, NEW ch \in HostChannels, Waiting(ch)
    PROVE  /\ Current(ch) \in HostCalls
           /\ 1 \in 1..MaxSends => <<Current(ch), 1>> \in RequestIds
           /\ Sent(Current(ch)) \in 1..(MaxSends - 1) => <<Current(ch), Sent(Current(ch)) + 1>> \in RequestIds
<1>1. turn[ch] \in Nat \ {0} /\ turn[ch] <= Len(Program[ch])
  BY DEF SessionsTypeOK, Waiting
<1>2. Program[ch] \in Seq(HostCalls)
  BY SessionsAssumption
<1>3. Current(ch) \in HostCalls
  BY <1>1, <1>2 DEF Current
<1>4. MaxSends \in Nat
  BY SessionsAssumption
<1>5. Sent(Current(ch)) \in 1..(MaxSends - 1) => Sent(Current(ch)) + 1 \in 1..MaxSends
  BY <1>4
<1> QED BY <1>3, <1>5 DEF RequestIds

LEMMA GoToTyped ==
    ASSUME SessionsTypeOK, NEW id \in RequestIds, NEW step \in Steps, GoTo(id, step)
    PROVE  requests' \in [RequestIds -> Request]
<1>1. NoSession \in SessionIds \cup {NoSession} /\ {} \in SUBSET (SessionIds \X Nat)
  OBVIOUS
<1>2. requests \in [RequestIds -> Request]
  BY DEF SessionsTypeOK
<1>3. [requests EXCEPT ![id].step = step] \in [RequestIds -> Request]
  BY <1>1, <1>2, RequestTyped
<1> QED BY <1>3 DEF GoTo

LEMMA AnswerTyped ==
    ASSUME SessionsTypeOK, NEW id \in RequestIds,
           NEW answer \in {"success", "error"}, Answer(id, answer)
    PROVE  /\ requests' \in [RequestIds -> Request] /\ told' \in [HostCalls -> {"nothing", "success", "error", "uncertain"}]
           /\ turn' \in [HostChannels -> Nat \ {0}] /\ faults' \in 0..MaxHostFaults
           /\ requests' = [requests EXCEPT ![id] = [Unsent EXCEPT !.step = "finished"]]
           /\ \A c \in HostCalls : told'[c] \in {told[c]} \cup (IF c = id[1] THEN {answer} ELSE {})
<1>1. requests' = [requests EXCEPT ![id] = [Unsent EXCEPT !.step = "finished"]]
  BY DEF Answer
<1>2. requests' \in [RequestIds -> Request]
  <2>1. "finished" \in Steps /\ NoSession \in SessionIds \cup {NoSession} /\ {} \in SUBSET (SessionIds \X Nat)
    BY DEF Steps
  <2>2. requests \in [RequestIds -> Request]
    BY DEF SessionsTypeOK
  <2> QED BY <1>1, <2>1, <2>2, RequestTyped
<1> DEFINE heard == id[2] = Sent(id[1]) /\ told[id[1]] = "nothing"
<1>3. /\ told' = IF heard THEN [told EXCEPT ![id[1]] = answer] ELSE told
      /\ turn' = IF heard THEN [turn EXCEPT ![ChannelOf(id[1])] = @ + 1] ELSE turn
      /\ faults' = faults
  BY DEF Answer
<1> HIDE DEF heard
<1>4. id[1] \in HostCalls
  BY DEF RequestIds
<1>5. told' \in [HostCalls -> {"nothing", "success", "error", "uncertain"}]
      /\ \A c \in HostCalls : told'[c] \in {told[c]} \cup (IF c = id[1] THEN {answer} ELSE {})
  BY <1>3, <1>4 DEF SessionsTypeOK
<1>6. turn' \in [HostChannels -> Nat \ {0}]
  BY <1>3, <1>4, ChannelTyped DEF SessionsTypeOK
<1> QED BY <1>1, <1>2, <1>3, <1>5, <1>6 DEF SessionsTypeOK

LEMMA ResolvedTyped ==
    ASSUME SessionsTypeOK, KnownInv, NEW ch \in HostChannels
    PROVE  Resolved(ch) \in SessionIds \cup {NoSession} /\ Owned(Resolved(ch), ch)
BY DEF Resolved, SessionsTypeOK, KnownInv, Owned

\* What every step keeps of sessions and receipts.
Grows ==
    /\ \A h \in SessionIds :
          /\ sessions'[h].channel = sessions[h].channel
          /\ sessions[h].status # "absent" => sessions'[h].status # "absent"
    /\ \A c \in HostCalls :
          /\ receipts[c].done => receipts'[c].done
          /\ receipts[c].done => receipts'[c].session = receipts[c].session
                                    /\ receipts'[c].seq = receipts[c].seq

\* What a step does to sessions unless it starts one, ends one or adds an attempt.
Touches ==
    \A h \in SessionIds :
        /\ sessions'[h].status = sessions[h].status
        /\ sessions'[h].channel = sessions[h].channel
        /\ sessions'[h].outcome = sessions[h].outcome
        /\ sessions[h].used => sessions'[h].used
        /\ DOMAIN sessions'[h].attempts = DOMAIN sessions[h].attempts
        /\ \A i \in DOMAIN sessions[h].attempts :
              /\ sessions'[h].attempts[i].call = sessions[h].attempts[i].call
              /\ sessions'[h].attempts[i].accesses >= sessions[h].attempts[i].accesses

LEMMA StartTyped ==
    ASSUME Recorded, NEW id \in RequestIds, CommitStart(id)
    PROVE  SessionsTypeOK' /\ Grows
<1> DEFINE c == id[1]
<1>1. c \in HostCalls /\ Kind[c] = "start" /\ id \in SessionIds /\ requests[id].step = "routed"
  BY DEF CommitStart, RequestIds, SessionIds, At
<1> USE DEF Recorded
<1>2. CASE Frozen(c) /\ Answer(id, "success") /\ UNCHANGED <<sessions, receipts>>
  <2>1. UNCHANGED <<sessions, receipts, tally, suggestions, bound, saved>>
    BY <1>2 DEF CommitStart, registry
  <2> QED BY <2>1, <1>2, AnswerTyped DEF SessionsTypeOK, Grows
<1>3. CASE /\ requests' = [requests EXCEPT ![id].step = "committed", ![id].session = receipts[c].session]
           /\ UNCHANGED <<sessions, receipts, hosts>>
  <2>1. UNCHANGED <<sessions, receipts, tally, suggestions, bound, saved, told, turn, faults>>
    BY <1>3 DEF CommitStart, registry, hosts
  <2>2. "committed" \in Steps /\ receipts[c].session \in SessionIds \cup {NoSession}
        /\ {} \in SUBSET (SessionIds \X Nat)
    BY <1>1 DEF Steps, SessionsTypeOK, Receipt
  <2>3. requests' \in [RequestIds -> Request]
    BY <2>2, <1>3, RequestTyped DEF SessionsTypeOK
  <2> QED BY <2>1, <2>3 DEF SessionsTypeOK, Grows
<1>4. CASE /\ ~receipts[c].done
           /\ sessions' = [Abandoned(sessions, requests[id].session)
                                 EXCEPT ![id] = Created(ChannelOf(c))]
           /\ receipts' = [receipts EXCEPT ![c] =
                                 [NoReceipt EXCEPT !.done = TRUE, !.session = id]]
           /\ requests' = [requests EXCEPT ![id].step = "committed", ![id].session = id]
           /\ UNCHANGED hosts
  <2>1. UNCHANGED <<tally, suggestions, bound, saved, told, turn, faults>>
    BY <1>4 DEF CommitStart, registry, hosts
  <2>2. "committed" \in Steps /\ {} \in SUBSET (SessionIds \X Nat)
    BY DEF Steps
  <2>3. requests' \in [RequestIds -> Request]
    BY <2>2, <1>4, <1>1, RequestTyped DEF SessionsTypeOK
  <2>4. receipts' \in [HostCalls -> Receipt]
    BY <1>4, <1>1 DEF SessionsTypeOK, Receipt, NoReceipt
  <2>5. requests[id].session \in SessionIds \cup {NoSession}
    BY DEF SessionsTypeOK, Request
  <2>6. /\ Abandoned(sessions, requests[id].session) \in [SessionIds -> Session]
        /\ \A h \in SessionIds :
              /\ Abandoned(sessions, requests[id].session)[h].channel = sessions[h].channel
              /\ sessions[h].status # "absent" =>
                    Abandoned(sessions, requests[id].session)[h].status # "absent"
    <3>1. sessions \in [SessionIds -> Session]
      BY DEF SessionsTypeOK
    <3>2. \A h \in SessionIds :
             LET r == Abandoned(sessions, requests[id].session)[h] IN
             /\ r.channel = sessions[h].channel
             /\ sessions[h].status # "active" => r.status = sessions[h].status
             /\ sessions[h].status = "active" => r.status \in {"active", "abandoned"}
      BY <2>5, <3>1, AbandonedTyped
    <3>3. Abandoned(sessions, requests[id].session) \in [SessionIds -> Session]
      BY <2>5, <3>1, AbandonedTyped
    <3> QED BY <3>2, <3>3
  <2>7. Created(ChannelOf(c)) \in Session /\ Created(ChannelOf(c)).channel = ChannelOf(c)
        /\ Created(ChannelOf(c)).status = "active"
    BY <1>1, ChannelTyped, AbsentTyped DEF Created, Absent
  <2>8. /\ sessions' \in [SessionIds -> Session]
        /\ \A h \in SessionIds :
              /\ sessions'[h].channel = sessions[h].channel
              /\ sessions[h].status # "absent" => sessions'[h].status # "absent"
    BY <1>4, <1>1, <2>6, <2>7 DEF ExistInv
  <2>9. \A d \in HostCalls :
          /\ receipts[d].done => receipts'[d].done
          /\ receipts[d].done => receipts'[d].session = receipts[d].session
                                    /\ receipts'[d].seq = receipts[d].seq
    BY <1>4, <1>1 DEF SessionsTypeOK
  <2> QED BY <2>1, <2>3, <2>4, <2>8, <2>9 DEF SessionsTypeOK, Grows
<1> QED BY <1>2, <1>3, <1>4 DEF CommitStart

LEMMA AttemptTyped ==
    ASSUME Recorded, NEW id \in RequestIds, CommitAttempt(id)
    PROVE  SessionsTypeOK' /\ Grows
<1> DEFINE c == id[1]
           h == requests[id].session
           n == Len(sessions[h].attempts) + 1
           added == [call |-> c, outcome |-> Outcome[c], accesses |-> 0]
<1>0. UNCHANGED <<tally, suggestions, bound, saved>>
  BY DEF CommitAttempt, registry
<1>1. c \in HostCalls /\ Kind[c] = "attempt" /\ requests[id].step = "routed"
  BY DEF CommitAttempt, RequestIds, At
<1> USE DEF Recorded
<1>2. h \in SessionIds
  BY <1>1 DEF RoutedInv, SessionsTypeOK, Request
<1>3. "recorded" \in Steps
  BY DEF Steps
<1>4. GoTo(id, "recorded") => requests' \in [RequestIds -> Request]
  BY <1>3, GoToTyped
<1>5. CASE GoTo(id, "recorded") /\ UNCHANGED <<sessions, receipts, hosts>>
  BY <1>5, <1>4, <1>0 DEF SessionsTypeOK, Grows, hosts
<1>6. CASE Answer(id, "error") /\ UNCHANGED <<sessions, receipts>>
  BY <1>6, <1>0, AnswerTyped DEF SessionsTypeOK, Grows
<1>7. CASE /\ ~AttemptDone(c) /\ Writable(h)
           /\ sessions' = [sessions EXCEPT ![h].attempts = Append(@, added)]
           /\ receipts' = [receipts EXCEPT ![c] =
                     [NoReceipt EXCEPT !.done = TRUE, !.session = h, !.seq = n]]
           /\ GoTo(id, "recorded") /\ UNCHANGED hosts
  <2>1. Outcome[c] \in {"rejected", "promising"}
    BY <1>1, SessionsAssumption DEF Reports
  <2>2. added \in Attempt
    BY <1>1, <2>1 DEF Attempt
  <2>3. sessions[h] \in Session /\ sessions[h].attempts \in Seq(Attempt)
    BY <1>2 DEF SessionsTypeOK, Session
  <2>4. Append(sessions[h].attempts, added) \in Seq(Attempt) /\ n \in Nat
    BY <2>2, <2>3
  <2>5. [sessions[h] EXCEPT !.attempts = Append(sessions[h].attempts, added)] \in Session
    BY <2>3, <2>4 DEF Session
  <2>6. sessions' = [sessions EXCEPT ![h] = [sessions[h] EXCEPT !.attempts = Append(sessions[h].attempts, added)]]
    BY <1>7, <1>2 DEF SessionsTypeOK
  <2>7. /\ sessions' \in [SessionIds -> Session]
        /\ \A g \in SessionIds : sessions'[g].channel = sessions[g].channel /\ sessions'[g].status = sessions[g].status
    BY <2>3, <2>5, <2>6, <1>2 DEF SessionsTypeOK, Session
  <2>8. [NoReceipt EXCEPT !.done = TRUE, !.session = h, !.seq = n] \in Receipt
    BY <2>4, <1>2 DEF NoReceipt, Receipt
  <2>9. receipts' \in [HostCalls -> Receipt]
    BY <2>8, <1>7 DEF SessionsTypeOK
  <2>10. \A d \in HostCalls :
          /\ receipts[d].done => receipts'[d].done
          /\ receipts[d].done => receipts'[d].session = receipts[d].session
                                    /\ receipts'[d].seq = receipts[d].seq
    BY <1>7, <1>1 DEF SessionsTypeOK, AttemptDone
  <2> QED BY <1>0, <1>4, <1>7, <2>7, <2>9, <2>10 DEF SessionsTypeOK, Grows, hosts
<1> QED BY <1>5, <1>6, <1>7 DEF CommitAttempt

LEMMA TallyTyped ==
    ASSUME tally \in [{"success", "failure"} -> Nat], NEW o \in DOMAIN tally
    PROVE  [tally EXCEPT ![o] = @ + 1] \in [{"success", "failure"} -> Nat]
OBVIOUS

LEMMA FiledTyped ==
    ASSUME SessionsTypeOK, NEW h \in SessionIds, NEW o, NEW t
    PROVE  Filed(h, o, t) \in Seq(Suggestion)
<1>1. [session |-> h, status |-> "pending"] \in Suggestion
  BY DEF Suggestion
<1> QED BY <1>1 DEF Filed, SessionsTypeOK

LEMMA FinishTyped ==
    ASSUME Recorded, NEW id \in RequestIds, CommitEnd(id)
    PROVE  SessionsTypeOK' /\ Grows
<1> DEFINE c == id[1]
           h == requests[id].session
           counted == IF sessions[h].used /\ Outcome[c] \in DOMAIN tally
                      THEN [tally EXCEPT ![Outcome[c]] = @ + 1] ELSE tally
<1>0. UNCHANGED <<bound, saved>>
  BY DEF CommitEnd, registry
<1>1. c \in HostCalls /\ Kind[c] = "end" /\ requests[id].step = "routed"
  BY DEF CommitEnd, RequestIds, At
<1> USE DEF Recorded
<1>2. h \in SessionIds
  BY <1>1 DEF RoutedInv, SessionsTypeOK, Request
<1>3. "recorded" \in Steps
  BY DEF Steps
<1>4. GoTo(id, "recorded") => requests' \in [RequestIds -> Request]
  BY <1>3, GoToTyped
<1>5. CASE GoTo(id, "recorded") /\ UNCHANGED <<store, hosts>>
  BY <1>5, <1>4, <1>0 DEF SessionsTypeOK, Grows, hosts, store
<1>6. CASE (Answer(id, "error") \/ Answer(id, "success")) /\ UNCHANGED store
  BY <1>6, <1>0, AnswerTyped DEF SessionsTypeOK, Grows, store
<1>7. CASE /\ ~receipts[c].done /\ Writable(h)
           /\ tally' = counted
           /\ suggestions' = Filed(h, Outcome[c], counted)
           /\ sessions' = [sessions EXCEPT ![h].status = "ended", ![h].outcome = Outcome[c]]
           /\ receipts' = [receipts EXCEPT ![c] = [NoReceipt EXCEPT !.done = TRUE, !.session = h]]
           /\ GoTo(id, "recorded") /\ UNCHANGED hosts
  <2>1. Outcome[c] \in {"success", "failure", "abandoned"}
    BY <1>1, SessionsAssumption DEF Reports
  <2>2. tally' \in [{"success", "failure"} -> Nat]
    BY <1>7, TallyTyped DEF SessionsTypeOK
  <2>3. suggestions' \in Seq(Suggestion)
    BY <1>7, <1>2, FiledTyped
  <2>4. /\ sessions' \in [SessionIds -> Session]
        /\ sessions' = [sessions EXCEPT ![h] = [sessions[h] EXCEPT !.status = "ended", !.outcome = Outcome[c]]]
    BY <1>7, <1>2, <2>1, EndTyped DEF SessionsTypeOK
  <2>5. \A g \in SessionIds : sessions'[g].channel = sessions[g].channel
                                /\ (sessions'[g].status = "absent" => sessions[g].status = "absent")
    BY <2>4, <1>2 DEF SessionsTypeOK, Session
  <2>6. [NoReceipt EXCEPT !.done = TRUE, !.session = h] \in Receipt
    BY <1>2 DEF NoReceipt, Receipt
  <2>7. receipts' \in [HostCalls -> Receipt]
    BY <2>6, <1>7 DEF SessionsTypeOK
  <2>8. \A d \in HostCalls :
          /\ receipts[d].done => receipts'[d].done
          /\ receipts[d].done => receipts'[d].session = receipts[d].session
                                    /\ receipts'[d].seq = receipts[d].seq
    BY <1>7, <1>1 DEF SessionsTypeOK
  <2> QED BY <1>0, <1>4, <1>7, <2>2, <2>3, <2>4, <2>5, <2>7, <2>8 DEF SessionsTypeOK, Grows, hosts
<1> QED BY <1>5, <1>6, <1>7 DEF CommitEnd

\* The steps that only touch sessions, and those of a host and of a kill.
Quietly(id) ==
    \/ PlanStart(id) \/ BindSession(id) \/ PersistBinding(id) \/ ClaimBoost(id) \/ Freeze(id)
    \/ RouteAttempt(id) \/ RoutePractice(id) \/ CommitPractice(id) \/ LinkPractice(id)
    \/ RouteEnd(id) \/ Respond(id)

LEMMA AttemptsTyped ==
    ASSUME sessions \in [SessionIds -> Session], NEW h \in SessionIds,
           NEW i \in DOMAIN sessions[h].attempts
    PROVE  /\ sessions[h].attempts[i] \in Attempt
           /\ sessions[h].attempts[i].call \in HostCalls
           /\ sessions[h].attempts[i].accesses \in Nat
<1>1. sessions[h].attempts \in Seq(Attempt)
  BY DEF Session
<1>2. sessions[h].attempts[i] \in Attempt
  BY <1>1
<1> QED BY <1>2 DEF Attempt

LEMMA AccessedTouches ==
    ASSUME SessionsTypeOK, NEW T, sessions' = Accessed(sessions, T)
    PROVE  sessions' \in [SessionIds -> Session] /\ Touches
<1>1. sessions \in [SessionIds -> Session]
  BY DEF SessionsTypeOK
<1>2. ASSUME NEW h \in SessionIds, NEW i \in DOMAIN sessions[h].attempts
      PROVE  sessions[h].attempts[i].accesses \in Nat
  BY <1>1, AttemptsTyped
<1>3. ASSUME NEW h \in SessionIds, NEW i \in DOMAIN sessions[h].attempts,
             NEW k \in {sessions[h].attempts[i].accesses, sessions[h].attempts[i].accesses + 1}
      PROVE  k >= sessions[h].attempts[i].accesses
  BY <1>2
<1>4. sessions' \in [SessionIds -> Session] /\ CountsMore(sessions, sessions')
  BY <1>1, AccessedTyped
<1> QED BY <1>3, <1>4 DEF Touches, CountsMore

LEMMA LinkedTouches ==
    ASSUME SessionsTypeOK, NEW g \in SessionIds \cup {NoSession}, sessions' = Linked(sessions, g)
    PROVE  sessions' \in [SessionIds -> Session] /\ Touches
<1>1. sessions \in [SessionIds -> Session]
  BY DEF SessionsTypeOK
<1>2. ASSUME NEW h \in SessionIds, NEW i \in DOMAIN sessions[h].attempts
      PROVE  sessions[h].attempts[i].accesses \in Nat
  BY <1>1, AttemptsTyped
<1>3. sessions' \in [SessionIds -> Session]
           /\ \A h \in SessionIds :
                 LET r == sessions'[h] IN
                 /\ r.status = sessions[h].status /\ r.channel = sessions[h].channel
                 /\ r.outcome = sessions[h].outcome /\ r.attempts = sessions[h].attempts
                 /\ sessions[h].used => r.used
  BY <1>1, LinkedTyped
<1>4. ASSUME NEW h \in SessionIds, NEW i \in DOMAIN sessions[h].attempts
      PROVE  sessions'[h].attempts[i].accesses >= sessions[h].attempts[i].accesses
  BY <1>2, <1>3
<1> QED BY <1>3, <1>4 DEF Touches

LEMMA SameTouches == ASSUME SessionsTypeOK, UNCHANGED sessions PROVE sessions' \in [SessionIds -> Session] /\ Touches
<1>2. ASSUME NEW h \in SessionIds, NEW i \in DOMAIN sessions[h].attempts
      PROVE  sessions'[h].attempts[i].accesses >= sessions[h].attempts[i].accesses
  <2>1. sessions[h].attempts[i].accesses \in Nat
    BY AttemptsTyped DEF SessionsTypeOK
  <2> QED BY <2>1
<1> QED BY <1>2 DEF Touches, SessionsTypeOK

LEMMA TouchesGrow == Touches => \A h \in SessionIds :
          /\ sessions'[h].channel = sessions[h].channel
          /\ sessions[h].status # "absent" => sessions'[h].status # "absent"
BY DEF Touches

\* What these steps do to receipts.
Marks ==
    \A c \in HostCalls :
        /\ receipts'[c].session = receipts[c].session /\ receipts'[c].seq = receipts[c].seq
        /\ receipts[c].done => receipts'[c].done
        /\ receipts'[c].done => receipts[c].done \/ Kind[c] \in {"practice", "respond"}
        /\ receipts[c].boosted => receipts'[c].boosted
        /\ receipts'[c].boosted => receipts[c].boosted \/ receipts[c].done

LEMMA SameMarks == UNCHANGED receipts => Marks
BY DEF Marks

LEMMA DoneMarks ==
    ASSUME receipts \in [HostCalls -> Receipt], NEW c \in HostCalls,
           Kind[c] \in {"practice", "respond"},
           receipts' = [receipts EXCEPT ![c].done = TRUE]
    PROVE  receipts' \in [HostCalls -> Receipt] /\ Marks
<1>1. [receipts[c] EXCEPT !.done = TRUE] \in Receipt
  BY DEF Receipt
<1>2. receipts' = [receipts EXCEPT ![c] = [receipts[c] EXCEPT !.done = TRUE]]
  OBVIOUS
<1>3. ASSUME NEW d \in HostCalls, d # c PROVE receipts'[d] = receipts[d]
  BY <1>2, <1>3
<1>4. receipts'[c] = [receipts[c] EXCEPT !.done = TRUE]
  BY <1>2
<1>5. /\ receipts'[c].session = receipts[c].session /\ receipts'[c].seq = receipts[c].seq
      /\ receipts[c].done => receipts'[c].done
      /\ receipts[c].boosted => receipts'[c].boosted
      /\ receipts'[c].done => receipts[c].done \/ Kind[c] \in {"practice", "respond"}
      /\ receipts'[c].boosted => receipts[c].boosted \/ receipts[c].done
  BY <1>4 DEF Receipt
<1> QED BY <1>1, <1>2, <1>3, <1>5 DEF Marks

LEMMA BoostedMarks ==
    ASSUME receipts \in [HostCalls -> Receipt], NEW c \in HostCalls,
           receipts[c].done,
           receipts' = [receipts EXCEPT ![c].boosted = TRUE]
    PROVE  receipts' \in [HostCalls -> Receipt] /\ Marks
<1>1. [receipts[c] EXCEPT !.boosted = TRUE] \in Receipt
  BY DEF Receipt
<1>2. receipts' = [receipts EXCEPT ![c] = [receipts[c] EXCEPT !.boosted = TRUE]]
  OBVIOUS
<1>3. ASSUME NEW d \in HostCalls, d # c PROVE receipts'[d] = receipts[d]
  BY <1>2, <1>3
<1>4. receipts'[c] = [receipts[c] EXCEPT !.boosted = TRUE]
  BY <1>2
<1>5. /\ receipts'[c].session = receipts[c].session /\ receipts'[c].seq = receipts[c].seq
      /\ receipts[c].done => receipts'[c].done
      /\ receipts[c].boosted => receipts'[c].boosted
      /\ receipts'[c].done => receipts[c].done \/ Kind[c] \in {"practice", "respond"}
      /\ receipts'[c].boosted => receipts[c].boosted \/ receipts[c].done
  BY <1>4 DEF Receipt
<1> QED BY <1>1, <1>2, <1>3, <1>5 DEF Marks

LEMMA FrozenMarks ==
    ASSUME receipts \in [HostCalls -> Receipt], NEW c \in HostCalls,
           receipts' = [receipts EXCEPT ![c].frozen = TRUE]
    PROVE  receipts' \in [HostCalls -> Receipt] /\ Marks
<1>1. [receipts[c] EXCEPT !.frozen = TRUE] \in Receipt
  BY DEF Receipt
<1>2. receipts' = [receipts EXCEPT ![c] = [receipts[c] EXCEPT !.frozen = TRUE]]
  OBVIOUS
<1>3. ASSUME NEW d \in HostCalls, d # c PROVE receipts'[d] = receipts[d]
  BY <1>2, <1>3
<1>4. receipts'[c] = [receipts[c] EXCEPT !.frozen = TRUE]
  BY <1>2
<1>5. /\ receipts'[c].session = receipts[c].session /\ receipts'[c].seq = receipts[c].seq
      /\ receipts[c].done => receipts'[c].done
      /\ receipts[c].boosted => receipts'[c].boosted
      /\ receipts'[c].done => receipts[c].done \/ Kind[c] \in {"practice", "respond"}
      /\ receipts'[c].boosted => receipts[c].boosted \/ receipts[c].done
  BY <1>4 DEF Receipt
<1> QED BY <1>1, <1>2, <1>3, <1>5 DEF Marks

LEMMA MarksGrow == Touches /\ Marks => Grows
BY DEF Touches, Marks, Grows

LEMMA DeadEndsTyped == ASSUME SessionsTypeOK PROVE DeadEnds \in SUBSET (SessionIds \X Nat)
<1>1. ASSUME NEW h \in SessionIds PROVE DOMAIN sessions[h].attempts \subseteq Nat
  <2>1. sessions[h].attempts \in Seq(Attempt)
    BY DEF SessionsTypeOK, Session
  <2> QED BY <2>1
<1>2. ASSUME NEW h \in SessionIds
      PROVE {h} \X {i \in DOMAIN sessions[h].attempts : sessions[h].attempts[i].outcome = "rejected"}
                 \subseteq SessionIds \X Nat
  BY <1>1
<1> QED BY <1>2 DEF DeadEnds

LEMMA QuietTyped ==
    ASSUME Recorded, NEW id \in RequestIds, Quietly(id)
    PROVE  SessionsTypeOK' /\ Touches /\ Marks
<1> DEFINE c == id[1]
           ch == ChannelOf(c)
<1>0. c \in HostCalls /\ ch \in HostChannels
  BY ChannelTyped DEF RequestIds
<1> USE DEF Recorded
<1>a. requests \in [RequestIds -> Request] /\ requests[id].session \in SessionIds \cup {NoSession}
      /\ sessions \in [SessionIds -> Session]
      /\ receipts \in [HostCalls -> Receipt] /\ requests[id].targets \in SUBSET (SessionIds \X Nat)
  BY DEF SessionsTypeOK, Request
<1>b. {"routed", "committed", "recorded", "bound"} \subseteq Steps /\ {} \in SUBSET (SessionIds \X Nat)
  BY DEF Steps
<1>c. Resolved(ch) \in SessionIds \cup {NoSession}
  BY <1>0, ResolvedTyped
<1>d. bound[ch] \in SessionIds \cup {NoSession}
  BY <1>0 DEF SessionsTypeOK
<1>1. CASE PlanStart(id)
  <2>1. UNCHANGED <<sessions, receipts, tally, suggestions, bound, saved, told, turn, faults>>
    BY <1>1 DEF PlanStart, store, registry, hosts
  <2>2. requests' \in [RequestIds -> Request]
    <3>1. requests' = [requests EXCEPT ![id] =
                        [step |-> "routed", session |-> Resolved(ch), targets |-> DeadEnds]]
      BY <1>1 DEF PlanStart
    <3> QED BY <3>1, <1>a, <1>b, <1>c, DeadEndsTyped, RequestTyped
  <2> QED BY <2>1, <2>2, SameTouches, SameMarks DEF SessionsTypeOK
<1>2. CASE BindSession(id)
  <2>1. UNCHANGED <<sessions, receipts, tally, suggestions, saved, told, turn, faults>>
    BY <1>2 DEF BindSession, store, hosts
  <2>2. requests' \in [RequestIds -> Request]
    BY <1>2, <1>b, GoToTyped DEF BindSession
  <2>3. bound' \in [HostChannels -> SessionIds \cup {NoSession}]
    BY <1>2, <1>a DEF BindSession, SessionsTypeOK
  <2> QED BY <2>1, <2>2, <2>3, SameTouches, SameMarks DEF SessionsTypeOK
<1>3. CASE PersistBinding(id)
  <2>1. UNCHANGED <<sessions, receipts, tally, suggestions, bound, told, turn, faults>>
    BY <1>3 DEF PersistBinding, store, hosts
  <2>2. requests' \in [RequestIds -> Request]
    BY <1>3, <1>b, GoToTyped DEF PersistBinding
  <2>3. saved' \in [HostChannels -> SessionIds \cup {NoSession}]
    BY <1>3 DEF PersistBinding, SessionsTypeOK
  <2> QED BY <2>1, <2>2, <2>3, SameTouches, SameMarks DEF SessionsTypeOK
<1>4. CASE ClaimBoost(id)
  <2>1. UNCHANGED <<tally, suggestions, bound, saved, told, turn, faults>>
    BY <1>4 DEF ClaimBoost, registry, hosts
  <2>2. requests' \in [RequestIds -> Request]
    BY <1>4, <1>a, <1>b, RequestTyped DEF ClaimBoost
  <2>3. CASE UNCHANGED <<sessions, receipts>>
    BY <2>1, <2>2, <2>3, SameTouches, SameMarks DEF SessionsTypeOK
  <2>4. CASE /\ sessions' = Accessed(sessions, requests[id].targets)
             /\ receipts' = [receipts EXCEPT ![c].boosted = TRUE]
    <3>1. sessions' \in [SessionIds -> Session] /\ Touches
      BY <2>4, AccessedTouches
    <3>2. receipts[c].done
      BY <1>4 DEF ClaimBoost, At, RoutedInv
    <3>3. receipts' \in [HostCalls -> Receipt] /\ Marks
      BY <2>4, <1>0, <1>a, <3>2, BoostedMarks
    <3> QED BY <2>1, <2>2, <3>1, <3>3 DEF SessionsTypeOK
  <2> QED BY <1>4, <2>3, <2>4 DEF ClaimBoost
<1>5. CASE Freeze(id)
  <2>1. UNCHANGED <<sessions, tally, suggestions, bound, saved>>
    BY <1>5 DEF Freeze, registry
  <2>2. receipts' \in [HostCalls -> Receipt] /\ Marks
    BY <1>5, <1>0, <1>a, FrozenMarks DEF Freeze
  <2>3. Answer(id, "success")
    BY <1>5 DEF Freeze
  <2> QED BY <2>1, <2>2, <2>3, AnswerTyped, SameTouches DEF SessionsTypeOK
<1>6. CASE RouteAttempt(id)
  <2>1. UNCHANGED <<sessions, receipts, tally, suggestions, bound, saved>>
    BY <1>6 DEF RouteAttempt, store, registry
  <2>2. CASE Answer(id, "success") \/ Answer(id, "error")
    BY <2>1, <2>2, AnswerTyped, SameTouches, SameMarks DEF SessionsTypeOK
  <2>3. CASE GoTo(id, "recorded") /\ UNCHANGED hosts
    BY <2>1, <2>3, <1>b, GoToTyped, SameTouches, SameMarks DEF SessionsTypeOK, hosts
  <2>4. CASE /\ requests' = [requests EXCEPT ![id].step = "routed", ![id].session = Resolved(ch)]
             /\ UNCHANGED hosts
    <3>1. requests' \in [RequestIds -> Request]
      BY <2>4, <1>a, <1>b, <1>c, RequestTyped
    <3> QED BY <2>1, <2>4, <3>1, SameTouches, SameMarks DEF SessionsTypeOK, hosts
  <2> QED BY <1>6, <2>2, <2>3, <2>4 DEF RouteAttempt
<1>7. CASE RoutePractice(id)
  <2>1. UNCHANGED <<sessions, receipts, tally, suggestions, bound, saved, told, turn, faults>>
    BY <1>7 DEF RoutePractice, store, registry, hosts
  <2>2. requests' \in [RequestIds -> Request]
    BY <1>7, <1>a, <1>b, <1>c, RequestTyped DEF RoutePractice
  <2> QED BY <2>1, <2>2, SameTouches, SameMarks DEF SessionsTypeOK
<1>8. CASE CommitPractice(id)
  <2>1. UNCHANGED <<suggestions, bound, saved, told, turn, faults>>
    BY <1>8 DEF CommitPractice, registry, hosts
  <2>2. requests' \in [RequestIds -> Request]
    BY <1>8, <1>b, GoToTyped DEF CommitPractice
  <2>3. CASE UNCHANGED <<sessions, receipts, tally>>
    BY <2>1, <2>2, <2>3, SameTouches, SameMarks DEF SessionsTypeOK
  <2>4. CASE /\ tally' = [tally EXCEPT ![Outcome[c]] = @ + 1]
             /\ sessions' = Linked(sessions, requests[id].session)
             /\ receipts' = [receipts EXCEPT ![c].done = TRUE]
    <3>0. Kind[c] = "practice"
      BY <1>8 DEF CommitPractice
    <3>1. Outcome[c] \in {"success", "failure"}
      BY <1>0, <3>0, SessionsAssumption DEF Reports
    <3>2. tally' \in [{"success", "failure"} -> Nat]
      BY <2>4, <3>1, TallyTyped DEF SessionsTypeOK
    <3>3. sessions' \in [SessionIds -> Session] /\ Touches
      BY <2>4, <1>a, LinkedTouches
    <3>4. receipts' \in [HostCalls -> Receipt] /\ Marks
      BY <2>4, <3>0, <1>0, <1>a, DoneMarks
    <3> QED BY <2>1, <2>2, <3>2, <3>3, <3>4 DEF SessionsTypeOK
  <2> QED BY <1>8, <2>3, <2>4 DEF CommitPractice
<1>9. CASE LinkPractice(id)
  <2>1. UNCHANGED <<receipts, tally, suggestions, bound, saved>>
    BY <1>9 DEF LinkPractice, registry
  <2>2. sessions' \in [SessionIds -> Session] /\ Touches
    BY <1>9, <1>a, LinkedTouches DEF LinkPractice
  <2>3. Answer(id, "success")
    BY <1>9 DEF LinkPractice
  <2> QED BY <2>1, <2>2, <2>3, AnswerTyped, SameMarks DEF SessionsTypeOK
<1>10. CASE RouteEnd(id)
  <2>1. UNCHANGED <<sessions, receipts, tally, suggestions, bound, saved>>
    BY <1>10 DEF RouteEnd, store, registry
  <2>2. CASE Answer(id, "error")
    BY <2>1, <2>2, AnswerTyped, SameTouches, SameMarks DEF SessionsTypeOK
  <2>3. CASE /\ requests' = [requests EXCEPT ![id].step = "routed", ![id].session = bound[ch]]
             /\ UNCHANGED hosts
    <3>1. requests' \in [RequestIds -> Request]
      BY <2>3, <1>a, <1>b, <1>d, RequestTyped
    <3> QED BY <2>1, <2>3, <3>1, SameTouches, SameMarks DEF SessionsTypeOK, hosts
  <2> QED BY <1>10, <2>2, <2>3 DEF RouteEnd
<1>11. CASE Respond(id)
  <2>1. UNCHANGED <<tally, bound, saved>>
    BY <1>11 DEF Respond, registry
  <2>2. CASE (Answer(id, "success") \/ Answer(id, "error")) /\ UNCHANGED <<sessions, receipts, suggestions>>
    BY <2>1, <2>2, AnswerTyped, SameTouches, SameMarks DEF SessionsTypeOK
  <2>3. CASE /\ \E n \in DOMAIN suggestions :
                    /\ suggestions' = [suggestions EXCEPT ![n].status = Outcome[c]]
                    /\ sessions' = Accessed(sessions, Related(suggestions[n].session, Outcome[c]))
             /\ receipts' = [receipts EXCEPT ![c].done = TRUE]
             /\ Answer(id, "success")
    <3>0. Kind[c] = "respond"
      BY <1>11 DEF Respond
    <3>1. Outcome[c] \in {"accepted", "dismissed"}
      BY <1>0, <3>0, SessionsAssumption DEF Reports
    <3>2. PICK n \in DOMAIN suggestions :
                    /\ suggestions' = [suggestions EXCEPT ![n].status = Outcome[c]]
                    /\ sessions' = Accessed(sessions, Related(suggestions[n].session, Outcome[c]))
      BY <2>3
    <3>3. suggestions' \in Seq(Suggestion)
      <4>1. suggestions \in Seq(Suggestion) /\ suggestions[n] \in Suggestion
        BY DEF SessionsTypeOK
      <4>2. [suggestions[n] EXCEPT !.status = Outcome[c]] \in Suggestion
        BY <4>1, <3>1 DEF Suggestion
      <4>3. suggestions' = [suggestions EXCEPT ![n] = [suggestions[n] EXCEPT !.status = Outcome[c]]]
        BY <3>2
      <4> QED BY <4>1, <4>2, <4>3
    <3>4. sessions' \in [SessionIds -> Session] /\ Touches
      BY <3>2, AccessedTouches
    <3>5. receipts' \in [HostCalls -> Receipt] /\ Marks
      BY <2>3, <3>0, <1>0, <1>a, DoneMarks
    <3> QED BY <2>1, <2>3, <3>3, <3>4, <3>5, AnswerTyped DEF SessionsTypeOK
  <2> QED BY <1>11, <2>2, <2>3 DEF Respond
<1> QED BY <1>1, <1>2, <1>3, <1>4, <1>5, <1>6, <1>7, <1>8, <1>9, <1>10, <1>11 DEF Quietly

-----------------------------------------------------------------------------
(* What is there and whose it is.                                          *)

OwnedNext(h, ch) == h # NoSession => sessions'[h].status # "absent" /\ ChannelOf(h[1]) = ch

LEMMA OwnedKept ==
    ASSUME Grows, NEW h \in SessionIds \cup {NoSession}, NEW ch, Owned(h, ch)
    PROVE  OwnedNext(h, ch)
BY DEF Grows, Owned, OwnedNext

\* What is to be shown of the one request a step changes.
RoutedNext(id) ==
    /\ OwnedNext(requests'[id].session, ChannelOf(id[1]))
    /\ Kind[id[1]] \in {"attempt", "end"} /\ requests'[id].step = "routed"
          => requests'[id].session # NoSession
    /\ requests'[id].step \in {"committed", "bound", "recorded"} => receipts'[id[1]].done

LEMMA RoutedStay ==
    ASSUME SessionsTypeOK, RoutedInv, Grows, NEW id \in RequestIds,
           \/ requests'[id] = requests[id]
           \/ requests'[id].session = NoSession /\ requests'[id].step \in {"unsent", "received", "finished"}
    PROVE  RoutedNext(id)
<1>1. requests[id].session \in SessionIds \cup {NoSession} /\ id[1] \in HostCalls
  BY DEF SessionsTypeOK, Request, RequestIds
<1>2. OwnedNext(requests[id].session, ChannelOf(id[1]))
  BY <1>1, OwnedKept DEF RoutedInv
<1>3. CASE requests'[id] = requests[id]
  BY <1>1, <1>2, <1>3 DEF RoutedInv, RoutedNext, Grows
<1>4. CASE requests'[id].session = NoSession /\ requests'[id].step \in {"unsent", "received", "finished"}
  BY <1>4 DEF RoutedNext, OwnedNext
<1> QED BY <1>3, <1>4

LEMMA RoutedAll == (\A id \in RequestIds : RoutedNext(id)) => RoutedInv'
BY DEF RoutedNext, OwnedNext, Owned, RoutedInv

LEMMA RoutedKept ==
    ASSUME SessionsTypeOK, RoutedInv, Grows, NEW id \in RequestIds, RoutedNext(id),
           \A other \in RequestIds \ {id} : requests'[other] = requests[other]
    PROVE  RoutedInv'
<1>1. ASSUME NEW other \in RequestIds PROVE RoutedNext(other)
  BY RoutedStay
<1> QED BY <1>1, RoutedAll

\* The same of a receipt, of a binding and of what a host was told.
KnownNext ==
    /\ \A c \in HostCalls :
          /\ receipts'[c].session # receipts[c].session => OwnedNext(receipts'[c].session, ChannelOf(c))
          /\ receipts'[c].boosted => receipts'[c].done
          /\ told'[c] = "success" => told[c] = "success" \/ receipts'[c].done
    /\ \A ch \in HostChannels :
          /\ bound'[ch] # bound[ch] => OwnedNext(bound'[ch], ch)
          /\ saved'[ch] # saved[ch] => OwnedNext(saved'[ch], ch)

LEMMA KnownKept == SessionsTypeOK /\ KnownInv /\ Grows /\ KnownNext => KnownInv'
<1> SUFFICES ASSUME SessionsTypeOK, KnownInv, Grows, KnownNext PROVE KnownInv'
  OBVIOUS
<1>1. ASSUME NEW c \in HostCalls
      PROVE /\ OwnedNext(receipts'[c].session, ChannelOf(c))
            /\ receipts'[c].boosted => receipts'[c].done
            /\ told'[c] = "success" => receipts'[c].done
  <2>1. receipts[c].session \in SessionIds \cup {NoSession}
    BY DEF SessionsTypeOK, Receipt
  <2>2. OwnedNext(receipts[c].session, ChannelOf(c))
    BY <2>1, OwnedKept DEF KnownInv
  <2>3. receipts[c].done => receipts'[c].done
    BY DEF Grows
  <2> QED BY <2>2, <2>3 DEF KnownInv, KnownNext
<1>2. ASSUME NEW ch \in HostChannels PROVE OwnedNext(bound'[ch], ch) /\ OwnedNext(saved'[ch], ch)
  <2>1. bound[ch] \in SessionIds \cup {NoSession} /\ saved[ch] \in SessionIds \cup {NoSession}
    BY DEF SessionsTypeOK
  <2>2. OwnedNext(bound[ch], ch) /\ OwnedNext(saved[ch], ch)
    BY <2>1, OwnedKept DEF KnownInv
  <2> QED BY <2>2 DEF KnownNext
<1> QED BY <1>1, <1>2 DEF KnownInv, OwnedNext, Owned

LEMMA AnswerRouted ==
    ASSUME SessionsTypeOK, RoutedInv, Grows, NEW id \in RequestIds,
           NEW answer \in {"success", "error"}, Answer(id, answer),
           answer = "success" => receipts'[id[1]].done
    PROVE  /\ RoutedInv'
           /\ \A c \in HostCalls : told'[c] = "success" => told[c] = "success" \/ receipts'[c].done
<1>1. requests' = [requests EXCEPT ![id] = [Unsent EXCEPT !.step = "finished"]]
  BY AnswerTyped
<1>2. /\ requests'[id].step = "finished" /\ requests'[id].session = NoSession
      /\ \A other \in RequestIds \ {id} : requests'[other] = requests[other]
  BY <1>1 DEF SessionsTypeOK, Request, Unsent
<1>3. RoutedNext(id)
  BY <1>2 DEF RoutedNext, OwnedNext
<1>4. RoutedInv'
  BY <1>2, <1>3, RoutedKept
<1>5. \A c \in HostCalls : told'[c] \in {told[c]} \cup (IF c = id[1] THEN {answer} ELSE {})
  BY AnswerTyped
<1> QED BY <1>4, <1>5

LEMMA QuietExists == ASSUME SessionsTypeOK, ExistInv, Touches, Marks PROVE ExistInv'
<1>1. ASSUME NEW h \in SessionIds PROVE h[1] \in HostCalls
  BY DEF SessionIds, RequestIds
<1> QED BY <1>1 DEF ExistInv, Touches, Marks

LEMMA MarksKnown ==
    ASSUME KnownInv, Marks, UNCHANGED <<bound, saved>>,
           \A c \in HostCalls : told'[c] = "success" => told[c] = "success" \/ receipts'[c].done
    PROVE  KnownNext
BY DEF KnownNext, KnownInv, Marks

LEMMA QuietRecorded ==
    ASSUME Recorded, NEW id \in RequestIds, Quietly(id)
    PROVE  Recorded'
<1> DEFINE c == id[1]
           ch == ChannelOf(c)
<1>0. c \in HostCalls /\ ch \in HostChannels
  BY ChannelTyped DEF RequestIds
<1> USE DEF Recorded
<1>a. SessionsTypeOK' /\ Touches /\ Marks /\ Grows
  BY QuietTyped, MarksGrow
<1>b. ExistInv'
  BY <1>a, QuietExists
<1>c. requests[id].session \in SessionIds \cup {NoSession} /\ requests \in [RequestIds -> Request]
  BY DEF SessionsTypeOK, Request
<1>d. OwnedNext(requests[id].session, ch)
  BY <1>a, <1>0, <1>c, OwnedKept DEF RoutedInv
<1>e. Resolved(ch) \in SessionIds \cup {NoSession} /\ OwnedNext(Resolved(ch), ch)
  BY <1>a, <1>0, ResolvedTyped, OwnedKept
<1>f. bound[ch] \in SessionIds \cup {NoSession} /\ OwnedNext(bound[ch], ch)
  BY <1>a, <1>0, OwnedKept DEF SessionsTypeOK, KnownInv
<1>g. receipts[c].done => receipts'[c].done
  BY <1>a, <1>0 DEF Marks
<1>h. (receipts'[c].done /\ Answer(id, "success")) \/ Answer(id, "error")
        => RoutedInv' /\ \A d \in HostCalls : told'[d] = "success" => told[d] = "success" \/ receipts'[d].done
  BY <1>a, AnswerRouted
<1> SUFFICES KnownNext /\ RoutedInv'
  BY <1>a, <1>b, KnownKept
<1>1. CASE PlanStart(id)
  <2>1. UNCHANGED <<bound, saved, told>>
    BY <1>1 DEF PlanStart, registry, hosts
  <2>2. requests' = [requests EXCEPT ![id] =
                        [step |-> "routed", session |-> Resolved(ch), targets |-> DeadEnds]]
    BY <1>1 DEF PlanStart
  <2>3. /\ requests'[id].step = "routed" /\ requests'[id].session = Resolved(ch)
        /\ \A other \in RequestIds \ {id} : requests'[other] = requests[other]
    BY <2>2, <1>c
  <2>4. RoutedNext(id)
    BY <2>3, <1>e, <1>1 DEF RoutedNext, PlanStart
  <2>5. RoutedInv'
    BY <2>3, <2>4, <1>a, RoutedKept
  <2> QED BY <2>1, <2>5, <1>a, MarksKnown
<1>2. CASE BindSession(id)
  <2>1. UNCHANGED <<saved, told>> /\ requests[id].step = "committed" /\ GoTo(id, "bound")
        /\ bound' = [bound EXCEPT ![ch] = requests[id].session]
    BY <1>2 DEF BindSession, hosts, At
  <2>3. /\ requests'[id].step = "bound" /\ requests'[id].session = requests[id].session
        /\ \A other \in RequestIds \ {id} : requests'[other] = requests[other]
    BY <2>1, <1>c DEF GoTo, Request
  <2>4. RoutedNext(id)
    BY <2>1, <2>3, <1>d, <1>g DEF RoutedNext, RoutedInv
  <2>5. RoutedInv'
    BY <2>3, <2>4, <1>a, RoutedKept
  <2>6. KnownNext
    BY <2>1, <1>0, <1>d, <1>a DEF KnownNext, KnownInv, Marks, SessionsTypeOK
  <2> QED BY <2>5, <2>6
<1>3. CASE PersistBinding(id)
  <2>1. UNCHANGED <<bound, told>> /\ requests[id].step = "bound" /\ GoTo(id, "recorded") /\ saved' = bound
    BY <1>3 DEF PersistBinding, hosts, At
  <2>3. /\ requests'[id].step = "recorded" /\ requests'[id].session = requests[id].session
        /\ \A other \in RequestIds \ {id} : requests'[other] = requests[other]
    BY <2>1, <1>c DEF GoTo, Request
  <2>4. RoutedNext(id)
    BY <2>1, <2>3, <1>d, <1>g DEF RoutedNext, RoutedInv
  <2>5. RoutedInv'
    BY <2>3, <2>4, <1>a, RoutedKept
  <2>6. ASSUME NEW b \in HostChannels PROVE OwnedNext(saved'[b], b)
    BY <2>1, <1>a, OwnedKept DEF SessionsTypeOK, KnownInv
  <2>7. KnownNext
    BY <2>1, <2>6, <1>a DEF KnownNext, KnownInv, Marks
  <2> QED BY <2>5, <2>7
<1>4. CASE ClaimBoost(id)
  <2>1. UNCHANGED <<bound, saved, told>> /\ requests' = [requests EXCEPT ![id].targets = {}]
    BY <1>4 DEF ClaimBoost, registry, hosts
  <2>3. /\ requests'[id].step = requests[id].step /\ requests'[id].session = requests[id].session
        /\ \A other \in RequestIds \ {id} : requests'[other] = requests[other]
    BY <2>1, <1>c DEF Request
  <2>4. RoutedNext(id)
    BY <2>3, <1>d, <1>g DEF RoutedNext, RoutedInv
  <2>5. RoutedInv'
    BY <2>3, <2>4, <1>a, RoutedKept
  <2> QED BY <2>1, <2>5, <1>a, MarksKnown
<1>5. CASE Freeze(id)
  <2>1. UNCHANGED <<bound, saved>> /\ requests[id].step = "recorded" /\ Answer(id, "success")
    BY <1>5 DEF Freeze, registry, At
  <2>2. receipts'[c].done
    BY <2>1, <1>g DEF RoutedInv
  <2> QED BY <2>1, <2>2, <1>a, <1>h, MarksKnown
<1>6. CASE RouteAttempt(id)
  <2>1. UNCHANGED <<bound, saved, receipts>> /\ Kind[c] = "attempt"
    BY <1>6 DEF RouteAttempt, store, registry
  <2>2. CASE (Frozen(c) /\ Answer(id, "success")) \/ Answer(id, "error")
    BY <2>1, <2>2, <1>a, <1>g, <1>h, MarksKnown DEF Frozen
  <2>3. CASE Unfrozen(c) /\ GoTo(id, "recorded") /\ UNCHANGED hosts
    <3>1. UNCHANGED told /\ receipts'[c].done
      BY <2>3, <1>g DEF hosts, Unfrozen
    <3>3. /\ requests'[id].step = "recorded" /\ requests'[id].session = requests[id].session
          /\ \A other \in RequestIds \ {id} : requests'[other] = requests[other]
      BY <2>3, <1>c DEF GoTo, Request
    <3>4. RoutedNext(id)
      BY <3>1, <3>3, <1>d DEF RoutedNext
    <3>5. RoutedInv'
      BY <3>3, <3>4, <1>a, RoutedKept
    <3> QED BY <2>1, <3>1, <3>5, <1>a, MarksKnown
  <2>4. CASE /\ Resolved(ch) # NoSession
             /\ requests' = [requests EXCEPT ![id].step = "routed", ![id].session = Resolved(ch)]
             /\ UNCHANGED hosts
    <3>1. UNCHANGED told
      BY <2>4 DEF hosts
    <3>3. /\ requests'[id].step = "routed" /\ requests'[id].session = Resolved(ch)
          /\ \A other \in RequestIds \ {id} : requests'[other] = requests[other]
      BY <2>4, <1>c DEF Request
    <3>4. RoutedNext(id)
      BY <2>4, <3>3, <1>e DEF RoutedNext
    <3>5. RoutedInv'
      BY <3>3, <3>4, <1>a, RoutedKept
    <3> QED BY <2>1, <3>1, <3>5, <1>a, MarksKnown
  <2> QED BY <1>6, <2>2, <2>3, <2>4 DEF RouteAttempt
<1>7. CASE RoutePractice(id)
  <2>1. UNCHANGED <<bound, saved, told>> /\ Kind[c] = "practice"
        /\ requests' = [requests EXCEPT ![id].step = "routed", ![id].session = Resolved(ch)]
    BY <1>7 DEF RoutePractice, registry, hosts
  <2>3. /\ requests'[id].step = "routed" /\ requests'[id].session = Resolved(ch)
        /\ \A other \in RequestIds \ {id} : requests'[other] = requests[other]
    BY <2>1, <1>c DEF Request
  <2>4. RoutedNext(id)
    BY <2>1, <2>3, <1>e DEF RoutedNext
  <2>5. RoutedInv'
    BY <2>3, <2>4, <1>a, RoutedKept
  <2> QED BY <2>1, <2>5, <1>a, MarksKnown
<1>8. CASE CommitPractice(id)
  <2>1. UNCHANGED <<bound, saved, told>> /\ GoTo(id, "committed")
    BY <1>8 DEF CommitPractice, registry, hosts
  <2>2. receipts'[c].done
    BY <1>8, <1>0 DEF CommitPractice, PracticeDone, SessionsTypeOK, Receipt
  <2>3. /\ requests'[id].step = "committed" /\ requests'[id].session = requests[id].session
        /\ \A other \in RequestIds \ {id} : requests'[other] = requests[other]
    BY <2>1, <1>c DEF GoTo, Request
  <2>4. RoutedNext(id)
    BY <2>2, <2>3, <1>d DEF RoutedNext
  <2>5. RoutedInv'
    BY <2>3, <2>4, <1>a, RoutedKept
  <2> QED BY <2>1, <2>5, <1>a, MarksKnown
<1>9. CASE LinkPractice(id)
  <2>1. UNCHANGED <<bound, saved>> /\ requests[id].step = "committed" /\ Answer(id, "success")
    BY <1>9 DEF LinkPractice, registry, At
  <2>2. receipts'[c].done
    BY <2>1, <1>g DEF RoutedInv
  <2> QED BY <2>1, <2>2, <1>a, <1>h, MarksKnown
<1>10. CASE RouteEnd(id)
  <2>1. UNCHANGED <<bound, saved>>
    BY <1>10 DEF RouteEnd, registry
  <2>2. CASE Answer(id, "error")
    BY <2>1, <2>2, <1>a, <1>h, MarksKnown
  <2>4. CASE /\ bound[ch] # NoSession
             /\ requests' = [requests EXCEPT ![id].step = "routed", ![id].session = bound[ch]]
             /\ UNCHANGED hosts
    <3>1. UNCHANGED told
      BY <2>4 DEF hosts
    <3>3. /\ requests'[id].step = "routed" /\ requests'[id].session = bound[ch]
          /\ \A other \in RequestIds \ {id} : requests'[other] = requests[other]
      BY <2>4, <1>c DEF Request
    <3>4. RoutedNext(id)
      BY <2>4, <3>3, <1>f DEF RoutedNext
    <3>5. RoutedInv'
      BY <3>3, <3>4, <1>a, RoutedKept
    <3> QED BY <2>1, <3>1, <3>5, <1>a, MarksKnown
  <2> QED BY <1>10, <2>2, <2>4 DEF RouteEnd
<1>11. CASE Respond(id)
  <2>1. UNCHANGED <<bound, saved>>
    BY <1>11 DEF Respond, registry
  <2>2. (receipts'[c].done /\ Answer(id, "success")) \/ Answer(id, "error")
    BY <1>11, <1>0, <1>g DEF Respond, SessionsTypeOK, Receipt
  <2> QED BY <2>1, <2>2, <1>a, <1>h, MarksKnown
<1> QED BY <1>1, <1>2, <1>3, <1>4, <1>5, <1>6, <1>7, <1>8, <1>9, <1>10, <1>11 DEF Quietly

\* A commit that writes the receipt of a call.
LEMMA FreshKnown ==
    ASSUME SessionsTypeOK, KnownInv, Grows, NEW c \in HostCalls, NEW h, NEW r,
           receipts' = [receipts EXCEPT ![c] = r], r.done, r.session = h, ~r.boosted,
           OwnedNext(h, ChannelOf(c)), UNCHANGED <<bound, saved, told>>
    PROVE  KnownNext /\ receipts'[c].done
<1>1. receipts'[c].done /\ receipts'[c].session = h /\ ~receipts'[c].boosted
  BY DEF SessionsTypeOK
<1>2. \A d \in HostCalls \ {c} : receipts'[d] = receipts[d]
  BY DEF SessionsTypeOK
<1> QED BY <1>1, <1>2 DEF KnownNext, KnownInv

LEMMA StartRecorded ==
    ASSUME Recorded, NEW id \in RequestIds, CommitStart(id)
    PROVE  Recorded'
<1> DEFINE c == id[1]
           ch == ChannelOf(c)
<1>0. c \in HostCalls /\ Kind[c] = "start" /\ id \in SessionIds /\ requests[id].step = "routed"
      /\ UNCHANGED <<bound, saved>>
  BY DEF CommitStart, RequestIds, SessionIds, At, registry
<1> USE DEF Recorded
<1>a. SessionsTypeOK' /\ Grows
  BY StartTyped
<1>c. requests \in [RequestIds -> Request] /\ requests[id].session \in SessionIds \cup {NoSession}
  BY DEF SessionsTypeOK, Request
<1>1. CASE Frozen(c) /\ Answer(id, "success") /\ UNCHANGED <<sessions, receipts>>
  <2>1. RoutedInv' /\ \A d \in HostCalls : told'[d] = "success" => told[d] = "success" \/ receipts'[d].done
    BY <1>1, <1>a, AnswerRouted DEF Frozen
  <2>2. KnownNext
    BY <2>1, <1>0, <1>1 DEF KnownNext, KnownInv
  <2>3. ExistInv'
    BY <1>1 DEF ExistInv
  <2> QED BY <2>1, <2>2, <2>3, <1>a, KnownKept
<1>2. CASE /\ Unfrozen(c)
           /\ requests' = [requests EXCEPT ![id].step = "committed", ![id].session = receipts[c].session]
           /\ UNCHANGED <<sessions, receipts, hosts>>
  <2>1. /\ requests'[id].step = "committed" /\ requests'[id].session = receipts[c].session
        /\ \A other \in RequestIds \ {id} : requests'[other] = requests[other]
    BY <1>2, <1>c DEF Request
  <2>2. OwnedNext(receipts[c].session, ch)
    BY <1>0, <1>a, OwnedKept DEF KnownInv, SessionsTypeOK, Receipt
  <2>3. RoutedNext(id)
    BY <2>1, <2>2, <1>2 DEF RoutedNext, Unfrozen
  <2>4. RoutedInv'
    BY <2>1, <2>3, <1>a, RoutedKept
  <2>5. KnownNext
    BY <1>0, <1>2 DEF KnownNext, KnownInv, hosts
  <2>6. ExistInv'
    BY <1>2 DEF ExistInv
  <2> QED BY <2>4, <2>5, <2>6, <1>a, KnownKept
<1>3. CASE /\ ~receipts[c].done
           /\ sessions' = [Abandoned(sessions, requests[id].session)
                                 EXCEPT ![id] = Created(ch)]
           /\ receipts' = [receipts EXCEPT ![c] =
                                 [NoReceipt EXCEPT !.done = TRUE, !.session = id]]
           /\ requests' = [requests EXCEPT ![id].step = "committed", ![id].session = id]
           /\ UNCHANGED hosts
  <2>0. UNCHANGED told
    BY <1>3 DEF hosts
  <2>1. /\ requests'[id].step = "committed" /\ requests'[id].session = id
        /\ \A other \in RequestIds \ {id} : requests'[other] = requests[other]
    BY <1>3, <1>c DEF Request
  <2>2. /\ Abandoned(sessions, requests[id].session) \in [SessionIds -> Session]
        /\ \A h \in SessionIds :
              LET r == Abandoned(sessions, requests[id].session)[h] IN
              /\ r.channel = sessions[h].channel /\ r.attempts = sessions[h].attempts
              /\ sessions[h].status # "active" => r.status = sessions[h].status
              /\ sessions[h].status = "active" => r.status \in {"active", "abandoned"}
    BY <1>c, AbandonedTyped DEF SessionsTypeOK
  <2>3. sessions'[id] = Created(ch)
    BY <1>0, <1>3, <2>2
  <2>4. Created(ch).status = "active" /\ Created(ch).channel = ch
    BY DEF Created, Absent
  <2>5. OwnedNext(id, ch)
    BY <2>3, <2>4 DEF OwnedNext
  <2> DEFINE r == [NoReceipt EXCEPT !.done = TRUE, !.session = id]
  <2>a. r.done /\ r.session = id /\ ~r.boosted
    BY DEF NoReceipt
  <2>b. receipts' = [receipts EXCEPT ![c] = r]
    BY <1>3
  <2>7. KnownNext /\ receipts'[c].done
    <3> HIDE DEF r
    <3> QED BY <2>0, <2>5, <2>a, <2>b, <1>0, <1>a, FreshKnown
  <2>8. RoutedNext(id)
    BY <2>1, <2>5, <2>7, <1>0 DEF RoutedNext
  <2>9. RoutedInv'
    BY <2>1, <2>8, <1>a, RoutedKept
  <2>10. ASSUME NEW h \in SessionIds
         PROVE  /\ sessions'[h].channel = ChannelOf(h[1])
                /\ sessions'[h].status = "absent" => DOMAIN sessions'[h].attempts = {}
                /\ sessions'[h].status # "absent" => receipts'[h[1]].done
    <3>0. h[1] \in HostCalls
      BY DEF SessionIds, RequestIds
    <3>1. CASE h = id
      BY <3>1, <2>3, <2>4, <2>7
    <3>2. CASE h # id
      <4>1. sessions'[h] = Abandoned(sessions, requests[id].session)[h]
        BY <3>2, <1>3, <2>2
      <4>2. /\ sessions'[h].channel = sessions[h].channel
            /\ sessions'[h].attempts = sessions[h].attempts
            /\ sessions'[h].status = "absent" <=> sessions[h].status = "absent"
        BY <4>1, <2>2
      <4> QED BY <4>2, <3>0, <1>a DEF ExistInv, Grows
    <3> QED BY <3>1, <3>2
  <2>11. ExistInv'
    BY <2>10 DEF ExistInv
  <2> QED BY <2>7, <2>9, <2>11, <1>a, KnownKept
<1> QED BY <1>1, <1>2, <1>3 DEF CommitStart

LEMMA WriteRecorded ==
    ASSUME Recorded, NEW id \in RequestIds, CommitAttempt(id) \/ CommitEnd(id)
    PROVE  Recorded'
<1> DEFINE c == id[1]
           ch == ChannelOf(c)
           h == requests[id].session
<1>0. c \in HostCalls /\ Kind[c] \in {"attempt", "end"} /\ requests[id].step = "routed"
      /\ UNCHANGED <<bound, saved>>
  BY DEF CommitAttempt, CommitEnd, RequestIds, At, registry
<1> USE DEF Recorded
<1>a. SessionsTypeOK' /\ Grows
  BY AttemptTyped, FinishTyped
<1>c. requests \in [RequestIds -> Request] /\ h \in SessionIds
  BY <1>0 DEF SessionsTypeOK, Request, RoutedInv
<1>d. OwnedNext(h, ch)
  BY <1>a, <1>c, OwnedKept DEF RoutedInv
<1>e. GoTo(id, "recorded") => /\ requests'[id].step = "recorded" /\ requests'[id].session = h
                              /\ \A other \in RequestIds \ {id} : requests'[other] = requests[other]
  BY <1>c DEF GoTo, Request
<1>f. GoTo(id, "recorded") /\ receipts'[c].done => RoutedInv'
  <2> SUFFICES ASSUME GoTo(id, "recorded"), receipts'[c].done PROVE RoutedInv'
    OBVIOUS
  <2>1. RoutedNext(id)
    BY <1>d, <1>e DEF RoutedNext
  <2> QED BY <2>1, <1>e, <1>a, RoutedKept
<1>1. CASE receipts[c].done /\ GoTo(id, "recorded") /\ UNCHANGED <<sessions, receipts, hosts>>
  <2>1. RoutedInv'
    BY <1>1, <1>f
  <2>2. KnownNext
    BY <1>0, <1>1 DEF KnownNext, KnownInv, hosts
  <2>3. ExistInv'
    BY <1>1 DEF ExistInv
  <2> QED BY <2>1, <2>2, <2>3, <1>a, KnownKept
<1>2. CASE /\ (receipts[c].done /\ Answer(id, "success")) \/ Answer(id, "error")
           /\ UNCHANGED <<sessions, receipts>>
  <2>1. RoutedInv' /\ \A d \in HostCalls : told'[d] = "success" => told[d] = "success" \/ receipts'[d].done
    BY <1>2, <1>a, AnswerRouted
  <2>2. KnownNext
    BY <2>1, <1>0, <1>2 DEF KnownNext, KnownInv
  <2>3. ExistInv'
    BY <1>2 DEF ExistInv
  <2> QED BY <2>1, <2>2, <2>3, <1>a, KnownKept
<1>3. ASSUME ~receipts[c].done, Writable(h), GoTo(id, "recorded"), UNCHANGED hosts,
             NEW r, receipts' = [receipts EXCEPT ![c] = r], r.done, r.session = h, ~r.boosted,
             \A g \in SessionIds : g # h => sessions'[g] = sessions[g]
      PROVE  Recorded'
  <2>1. KnownNext /\ receipts'[c].done
    BY <1>0, <1>a, <1>d, <1>3, FreshKnown DEF hosts
  <2>2. RoutedInv'
    BY <2>1, <1>3, <1>f
  <2>3. ASSUME NEW g \in SessionIds
         PROVE  /\ sessions'[g].channel = ChannelOf(g[1])
                /\ sessions'[g].status = "absent" => DOMAIN sessions'[g].attempts = {}
                /\ sessions'[g].status # "absent" => receipts'[g[1]].done
    <3>0. g[1] \in HostCalls
      BY DEF SessionIds, RequestIds
    <3>1. CASE g = h
      <4>1. sessions[g].status # "absent"
        BY <3>1, <1>3 DEF Writable, CanEnd
      <4> QED BY <3>0, <4>1, <1>a DEF ExistInv, Grows
    <3>2. CASE g # h
      BY <3>0, <3>2, <1>3, <1>a DEF ExistInv, Grows
    <3> QED BY <3>1, <3>2
  <2>4. ExistInv'
    BY <2>3 DEF ExistInv
  <2> QED BY <2>1, <2>2, <2>4, <1>a, KnownKept
<1>4. CASE CommitAttempt(id)
  <2>1. CASE /\ ~AttemptDone(c) /\ Writable(h)
             /\ sessions' = [sessions EXCEPT ![h].attempts =
                     Append(@, [call |-> c, outcome |-> Outcome[c], accesses |-> 0])]
             /\ receipts' = [receipts EXCEPT ![c] = [NoReceipt EXCEPT !.done = TRUE, !.session = h,
                                                        !.seq = Len(sessions[h].attempts) + 1]]
             /\ GoTo(id, "recorded") /\ UNCHANGED hosts
    <3> DEFINE r == [NoReceipt EXCEPT !.done = TRUE, !.session = h,
                                         !.seq = Len(sessions[h].attempts) + 1]
    <3>1. r.done /\ r.session = h /\ ~r.boosted
      BY DEF NoReceipt
    <3>3. receipts' = [receipts EXCEPT ![c] = r]
      BY <2>1
    <3>2. \A g \in SessionIds : g # h => sessions'[g] = sessions[g]
      BY <2>1 DEF SessionsTypeOK
    <3> HIDE DEF r
    <3> QED BY <2>1, <3>1, <3>2, <3>3, <1>3 DEF AttemptDone
  <2> QED BY <1>4, <1>1, <1>2, <2>1 DEF CommitAttempt, AttemptDone
<1>5. CASE CommitEnd(id)
  <2>1. CASE /\ ~receipts[c].done /\ Writable(h)
             /\ sessions' = [sessions EXCEPT ![h].status = "ended", ![h].outcome = Outcome[c]]
             /\ receipts' = [receipts EXCEPT ![c] = [NoReceipt EXCEPT !.done = TRUE, !.session = h]]
             /\ GoTo(id, "recorded") /\ UNCHANGED hosts
    <3> DEFINE r == [NoReceipt EXCEPT !.done = TRUE, !.session = h]
    <3>1. r.done /\ r.session = h /\ ~r.boosted
      BY DEF NoReceipt
    <3>3. receipts' = [receipts EXCEPT ![c] = r]
      BY <2>1
    <3>2. \A g \in SessionIds : g # h => sessions'[g] = sessions[g]
      BY <2>1 DEF SessionsTypeOK
    <3> HIDE DEF r
    <3> QED BY <2>1, <3>1, <3>2, <3>3, <1>3
  <2> QED BY <1>5, <1>1, <1>2, <2>1 DEF CommitEnd, Frozen, Unfrozen, store
<1> QED BY <1>4, <1>5

\* What hosts and a kill do to the store: nothing.
LEMMA HostRecorded ==
    ASSUME Recorded, NEW ch \in HostChannels, Send(ch) \/ Resend(ch) \/ GiveUp(ch)
    PROVE  Recorded' /\ UNCHANGED store
<1> USE DEF Recorded
<1>0. UNCHANGED <<sessions, receipts, tally, suggestions, bound, saved>>
  BY DEF Send, Resend, GiveUp, store, registry
<1>1. Current(ch) \in HostCalls
  BY CurrentTyped DEF Send, Resend, GiveUp
<1>2. faults' \in 0..MaxHostFaults
  BY SessionsAssumption DEF Send, Resend, GiveUp, HostFault, hosts, SessionsTypeOK
<1>3. told' \in [HostCalls -> {"nothing", "success", "error", "uncertain"}]
      /\ turn' \in [HostChannels -> Nat \ {0}]
      /\ \A c \in HostCalls : told'[c] = "success" => told[c] = "success"
  <2>1. UNCHANGED <<told, turn>>
        \/ /\ told' = [told EXCEPT ![Current(ch)] = "uncertain"]
           /\ turn' = [turn EXCEPT ![ch] = turn[ch] + 1]
    BY DEF Send, Resend, GiveUp, hosts
  <2>2. turn[ch] + 1 \in Nat \ {0}
    BY DEF SessionsTypeOK
  <2>3. CASE UNCHANGED <<told, turn>>
    BY <2>3 DEF SessionsTypeOK
  <2>4. CASE /\ told' = [told EXCEPT ![Current(ch)] = "uncertain"]
             /\ turn' = [turn EXCEPT ![ch] = turn[ch] + 1]
    BY <2>2, <2>4, <1>1 DEF SessionsTypeOK
  <2> QED BY <2>1, <2>3, <2>4
<1>4. requests' \in [RequestIds -> Request]
      /\ \A id \in RequestIds : requests'[id] = requests[id] \/
            (requests'[id].step = "received" /\ requests'[id].session = requests[id].session)
  <2>1. "received" \in Steps
    BY DEF Steps
  <2>2. UNCHANGED requests \/ \E id \in RequestIds : requests' = [requests EXCEPT ![id].step = "received"]
    <3>1. MaxSends \in Nat /\ 1 \in 1..MaxSends
      BY SessionsAssumption
    <3> QED BY <3>1, CurrentTyped DEF Send, Resend, GiveUp, Deliver
  <2>3. ASSUME NEW id \in RequestIds, requests' = [requests EXCEPT ![id].step = "received"]
        PROVE  requests' \in [RequestIds -> Request]
               /\ \A other \in RequestIds : requests'[other] = requests[other] \/
                     (requests'[other].step = "received" /\ requests'[other].session = requests[other].session)
    <3>1. requests[id] \in Request /\ requests \in [RequestIds -> Request]
      BY DEF SessionsTypeOK
    <3>2. [requests[id] EXCEPT !.step = "received"] \in Request
          /\ [requests[id] EXCEPT !.step = "received"].step = "received"
          /\ [requests[id] EXCEPT !.step = "received"].session = requests[id].session
      BY <2>1, <3>1 DEF Request
    <3>3. requests' = [requests EXCEPT ![id] = [requests[id] EXCEPT !.step = "received"]]
      BY <2>3
    <3> QED BY <3>1, <3>2, <3>3
  <2> QED BY <2>2, <2>3 DEF SessionsTypeOK
<1>5. SessionsTypeOK'
  BY <1>0, <1>2, <1>3, <1>4 DEF SessionsTypeOK
<1>6. ExistInv' /\ KnownInv'
  BY <1>0, <1>3 DEF ExistInv, KnownInv, Owned
<1>7. RoutedInv'
  BY <1>0, <1>4 DEF RoutedInv, Owned
<1> QED BY <1>0, <1>5, <1>6, <1>7 DEF store

LEMMA KillRecorded == Recorded /\ Kill => Recorded' /\ UNCHANGED store
<1> SUFFICES ASSUME Recorded, Kill PROVE Recorded' /\ UNCHANGED store
  OBVIOUS
<1> USE DEF Recorded
<1>0. UNCHANGED <<sessions, receipts, tally, suggestions, saved, told, turn>> /\ bound' = saved
  BY DEF Kill, store
<1>1. faults' \in 0..MaxHostFaults
  BY SessionsAssumption DEF Kill, HostFault, SessionsTypeOK
<1>2. /\ requests' \in [RequestIds -> Request]
      /\ \A id \in RequestIds : requests'[id].session = NoSession /\ requests'[id].step \in {"unsent", "finished"}
  <2>1. {"unsent", "finished"} \subseteq Steps
    BY DEF Steps
  <2>2. Unsent \in Request /\ [Unsent EXCEPT !.step = "finished"] \in Request
    BY <2>1 DEF Unsent, Request
  <2>3. /\ Unsent.session = NoSession /\ [Unsent EXCEPT !.step = "finished"].session = NoSession
        /\ Unsent.step = "unsent" /\ [Unsent EXCEPT !.step = "finished"].step = "finished"
    BY DEF Unsent
  <2> QED BY <2>2, <2>3 DEF Kill
<1>3. SessionsTypeOK'
  BY <1>0, <1>1, <1>2 DEF SessionsTypeOK
<1>4. ExistInv' /\ KnownInv'
  BY <1>0 DEF ExistInv, KnownInv, Owned
<1>5. RoutedInv'
  BY <1>2 DEF RoutedInv, Owned
<1> QED BY <1>0, <1>3, <1>4, <1>5 DEF store

LEMMA Steps4 ==
    ASSUME SessionsNext
    PROVE  \/ \E ch \in HostChannels : Send(ch) \/ Resend(ch) \/ GiveUp(ch)
           \/ Kill
           \/ \E id \in RequestIds : CommitStart(id) \/ CommitAttempt(id) \/ CommitEnd(id) \/ Quietly(id)
BY DEF SessionsNext, Handler, Quietly

LEMMA RecordedKept == Recorded /\ [SessionsNext]_svars => Recorded'
<1> SUFFICES ASSUME Recorded, [SessionsNext]_svars PROVE Recorded'
  OBVIOUS
<1>1. CASE UNCHANGED svars
  BY <1>1 DEF svars, Recorded, SessionsTypeOK, ExistInv, KnownInv, RoutedInv, Owned
<1>2. CASE SessionsNext
  BY <1>2, Steps4, HostRecorded, KillRecorded, StartRecorded, WriteRecorded, QuietRecorded
<1> QED BY <1>1, <1>2

LEMMA RecordedInit == SessionsInit => Recorded
<1> SUFFICES ASSUME SessionsInit PROVE Recorded
  OBVIOUS
<1>1. ExistInv
  <2>1. ASSUME NEW h \in SessionIds
        PROVE sessions[h] = Absent(ChannelOf(h[1]))
    BY DEF SessionsInit
  <2>2. ASSUME NEW h \in SessionIds
        PROVE /\ sessions[h].status = "absent" /\ sessions[h].channel = ChannelOf(h[1])
              /\ sessions[h].attempts = <<>>
    <3> DEFINE ch == ChannelOf(h[1])
               r == Absent(ch)
    <3>1. r.status = "absent" /\ r.channel = ch /\ r.attempts = <<>>
      BY DEF Absent
    <3>2. sessions[h] = r
      BY <2>1
    <3> HIDE DEF r
    <3> QED BY <3>1, <3>2
  <2>3. DOMAIN <<>> = {}
    <3>1. <<>> \in Seq(Nat) /\ Len(<<>>) = 0
      OBVIOUS
    <3>2. DOMAIN <<>> = 1..0
      BY <3>1
    <3> QED BY <3>2
  <2> QED BY <2>2, <2>3 DEF ExistInv
<1>2. KnownInv
  BY DEF SessionsInit, KnownInv, NoReceipt, Owned
<1>3. RoutedInv
  BY DEF SessionsInit, RoutedInv, Unsent, Owned
<1> QED BY <1>1, <1>2, <1>3, InitTyped DEF Recorded

\* Every variable of sessions, receipts and requests keeps its type, for any calls
\* of any hosts, resends and kills.
THEOREM SessionsTypeCorrect == SessionsSpec => []SessionsTypeOK
<1>1. Recorded => SessionsTypeOK
  BY DEF Recorded
<1> QED BY RecordedInit, RecordedKept, <1>1, PTL DEF SessionsSpec

-----------------------------------------------------------------------------
(* What the three commits do.                                              *)

LEMMA StartEffect ==
    ASSUME Recorded, NEW id \in RequestIds, CommitStart(id)
    PROVE  /\ UNCHANGED <<tally, suggestions>>
           /\ \/ UNCHANGED <<sessions, receipts>>
              \/ /\ id \in SessionIds /\ sessions[id].status = "absent"
                 /\ id[1] \in HostCalls /\ Kind[id[1]] = "start" /\ ~receipts[id[1]].done
                 /\ sessions' \in [SessionIds -> Session]
                 /\ sessions'[id].status = "active" /\ sessions'[id].attempts = <<>>
                 /\ \A h \in SessionIds \ {id} :
                       /\ sessions'[h].attempts = sessions[h].attempts
                       /\ sessions'[h].used = sessions[h].used
                       /\ sessions[h].status # "active" =>
                             sessions'[h].status = sessions[h].status /\ sessions'[h].outcome = sessions[h].outcome
                 /\ \A d \in HostCalls \ {id[1]} : receipts'[d] = receipts[d]
                 /\ ~receipts'[id[1]].boosted
<1> DEFINE c == id[1]
<1>0. c \in HostCalls /\ Kind[c] = "start" /\ id \in SessionIds /\ UNCHANGED <<tally, suggestions>>
  BY DEF CommitStart, RequestIds, SessionIds
<1> USE DEF Recorded
<1>1. CASE UNCHANGED <<sessions, receipts>>
  BY <1>0, <1>1
<1>2. CASE /\ ~receipts[c].done
           /\ sessions' = [Abandoned(sessions, requests[id].session) EXCEPT ![id] = Created(ChannelOf(c))]
           /\ receipts' = [receipts EXCEPT ![c] = [NoReceipt EXCEPT !.done = TRUE, !.session = id]]
  <2>1. requests[id].session \in SessionIds \cup {NoSession}
    BY DEF SessionsTypeOK, Request
  <2>2. /\ Abandoned(sessions, requests[id].session) \in [SessionIds -> Session]
        /\ \A h \in SessionIds :
              LET r == Abandoned(sessions, requests[id].session)[h] IN
              /\ r.channel = sessions[h].channel /\ r.attempts = sessions[h].attempts
              /\ r.used = sessions[h].used
              /\ sessions[h].status # "active" => r.status = sessions[h].status /\ r.outcome = sessions[h].outcome
    BY <2>1, AbandonedTyped DEF SessionsTypeOK
  <2>3. sessions'[id] = Created(ChannelOf(c))
        /\ \A h \in SessionIds \ {id} : sessions'[h] = Abandoned(sessions, requests[id].session)[h]
    BY <1>0, <1>2, <2>2
  <2>4. sessions'[id].status = "active" /\ sessions'[id].attempts = <<>>
    BY <2>3 DEF Created, Absent
  <2>5. sessions[id].status = "absent"
    BY <1>0, <1>2 DEF ExistInv
  <2>6. sessions' \in [SessionIds -> Session]
    BY StartTyped DEF SessionsTypeOK
  <2>7. /\ \A d \in HostCalls \ {c} : receipts'[d] = receipts[d]
        /\ receipts'[c] = [NoReceipt EXCEPT !.done = TRUE, !.session = id]
    BY <1>0, <1>2 DEF SessionsTypeOK
  <2>8. ~receipts'[c].boosted
    BY <2>7 DEF NoReceipt
  <2>9. \A h \in SessionIds \ {id} :
                       /\ sessions'[h].attempts = sessions[h].attempts
                       /\ sessions'[h].used = sessions[h].used
                       /\ sessions[h].status # "active" =>
                             sessions'[h].status = sessions[h].status /\ sessions'[h].outcome = sessions[h].outcome
    BY <2>2, <2>3
  <2> QED BY <1>0, <1>2, <2>4, <2>5, <2>6, <2>7, <2>8, <2>9
<1> QED BY <1>1, <1>2 DEF CommitStart

LEMMA AppendFacts ==
    ASSUME NEW S, NEW s \in Seq(S), NEW e \in S
    PROVE  LET n == Len(s) + 1 IN
           /\ n \in Nat /\ n \notin DOMAIN s
           /\ DOMAIN Append(s, e) = DOMAIN s \cup {n}
           /\ \A i \in DOMAIN s : Append(s, e)[i] = s[i]
           /\ Append(s, e)[n] = e
<1>1. Len(s) \in Nat /\ DOMAIN s = 1..Len(s)
  OBVIOUS
<1>2. Append(s, e) \in Seq(S) /\ Len(Append(s, e)) = Len(s) + 1
  OBVIOUS
<1>3. DOMAIN Append(s, e) = 1..(Len(s) + 1)
  BY <1>2
<1>4. 1..(Len(s) + 1) = (1..Len(s)) \cup {Len(s) + 1} /\ Len(s) + 1 \notin 1..Len(s)
  BY <1>1
<1>5. \A i \in 1..Len(s) : Append(s, e)[i] = s[i]
  BY <1>1
<1>6. Append(s, e)[Len(s) + 1] = e
  BY <1>1
<1> QED BY <1>1, <1>3, <1>4, <1>5, <1>6

LEMMA AttemptEffect ==
    ASSUME Recorded, NEW id \in RequestIds, CommitAttempt(id)
    PROVE  LET c == id[1]
               h == requests[id].session
               n == Len(sessions[h].attempts) + 1
           IN  /\ UNCHANGED <<tally, suggestions>>
               /\ \/ UNCHANGED <<sessions, receipts>>
                  \/ /\ h \in SessionIds /\ c \in HostCalls /\ Kind[c] = "attempt" /\ ~receipts[c].done
                     /\ sessions[h].status = "active" /\ ChannelOf(h[1]) = ChannelOf(c)
                     /\ sessions' \in [SessionIds -> Session]
                     /\ \A g \in SessionIds \ {h} : sessions'[g] = sessions[g]
                     /\ sessions'[h].status = sessions[h].status
                     /\ sessions'[h].outcome = sessions[h].outcome
                     /\ sessions'[h].used = sessions[h].used
                     /\ DOMAIN sessions'[h].attempts = DOMAIN sessions[h].attempts \cup {n}
                     /\ n \notin DOMAIN sessions[h].attempts /\ n \in Nat
                     /\ \A i \in DOMAIN sessions[h].attempts : sessions'[h].attempts[i] = sessions[h].attempts[i]
                     /\ sessions'[h].attempts[n].call = c /\ sessions'[h].attempts[n].accesses = 0
                     /\ \A d \in HostCalls \ {c} : receipts'[d] = receipts[d]
                     /\ receipts'[c].done /\ receipts'[c].session = h /\ receipts'[c].seq = n
                     /\ ~receipts'[c].boosted
<1> DEFINE c == id[1]
           h == requests[id].session
           n == Len(sessions[h].attempts) + 1
           added == [call |-> c, outcome |-> Outcome[c], accesses |-> 0]
<1>0. c \in HostCalls /\ Kind[c] = "attempt" /\ UNCHANGED <<tally, suggestions>> /\ requests[id].step = "routed"
  BY DEF CommitAttempt, RequestIds, At
<1> USE DEF Recorded
<1>1. CASE UNCHANGED <<sessions, receipts>>
  BY <1>0, <1>1
<1>2. CASE /\ ~AttemptDone(c) /\ Writable(h)
           /\ sessions' = [sessions EXCEPT ![h].attempts = Append(@, added)]
           /\ receipts' = [receipts EXCEPT ![c] =
                     [NoReceipt EXCEPT !.done = TRUE, !.session = h, !.seq = n]]
  <2>1. h \in SessionIds /\ ChannelOf(h[1]) = ChannelOf(c)
    BY <1>0 DEF SessionsTypeOK, Request, RoutedInv, Owned
  <2>2. sessions[h] \in Session /\ sessions[h].attempts \in Seq(Attempt)
    BY <2>1 DEF SessionsTypeOK, Session
  <2>3. sessions' \in [SessionIds -> Session]
    BY AttemptTyped DEF SessionsTypeOK
  <2>4. \A g \in SessionIds \ {h} : sessions'[g] = sessions[g]
    BY <1>2 DEF SessionsTypeOK
  <2>5. sessions'[h] = [sessions[h] EXCEPT !.attempts = Append(sessions[h].attempts, added)]
    BY <1>2, <2>1 DEF SessionsTypeOK
  <2>6. /\ sessions'[h].status = sessions[h].status /\ sessions'[h].outcome = sessions[h].outcome
        /\ sessions'[h].used = sessions[h].used
        /\ sessions'[h].attempts = Append(sessions[h].attempts, added)
    BY <2>5, <2>2 DEF Session
  <2>a. Outcome[c] \in {"rejected", "promising"}
    BY <1>0, SessionsAssumption DEF Reports
  <2>b. added \in Attempt
    BY <1>0, <2>a DEF Attempt
  <2>9. added.call = c /\ added.accesses = 0
    OBVIOUS
  <2>10. sessions[h].status = "active" /\ ~receipts[c].done
    BY <1>2 DEF Writable, CanEnd, AttemptDone
  <2> DEFINE r == [NoReceipt EXCEPT !.done = TRUE, !.session = h, !.seq = n]
  <2>11. r.done /\ r.session = h /\ r.seq = n /\ ~r.boosted
    BY DEF NoReceipt
  <2>12. receipts'[c] = r /\ \A d \in HostCalls \ {c} : receipts'[d] = receipts[d]
    BY <1>0, <1>2 DEF SessionsTypeOK
  <2> HIDE DEF r, n, added
  <2>13. /\ DOMAIN sessions'[h].attempts = DOMAIN sessions[h].attempts \cup {n}
         /\ n \notin DOMAIN sessions[h].attempts /\ n \in Nat
         /\ \A i \in DOMAIN sessions[h].attempts : sessions'[h].attempts[i] = sessions[h].attempts[i]
         /\ sessions'[h].attempts[n].call = c /\ sessions'[h].attempts[n].accesses = 0
    <3>1. /\ n \in Nat /\ n \notin DOMAIN sessions[h].attempts
          /\ DOMAIN Append(sessions[h].attempts, added) = DOMAIN sessions[h].attempts \cup {n}
          /\ \A i \in DOMAIN sessions[h].attempts :
                Append(sessions[h].attempts, added)[i] = sessions[h].attempts[i]
          /\ Append(sessions[h].attempts, added)[n] = added
      BY <2>2, <2>b, AppendFacts DEF n
    <3> QED BY <3>1, <2>6, <2>9
  <2>14. /\ \A d \in HostCalls \ {c} : receipts'[d] = receipts[d]
         /\ receipts'[c].done /\ receipts'[c].session = h /\ receipts'[c].seq = n
         /\ ~receipts'[c].boosted
    BY <2>11, <2>12
  <2> QED BY <1>0, <2>1, <2>3, <2>4, <2>6, <2>10, <2>13, <2>14 DEF n
<1> QED BY <1>1, <1>2 DEF CommitAttempt

LEMMA FinishEffect ==
    ASSUME Recorded, NEW id \in RequestIds, CommitEnd(id)
    PROVE  LET c == id[1]
               h == requests[id].session
               counted == IF sessions[h].used /\ Outcome[c] \in DOMAIN tally
                          THEN [tally EXCEPT ![Outcome[c]] = @ + 1] ELSE tally
           IN  \/ UNCHANGED <<sessions, receipts, tally, suggestions>>
               \/ /\ h \in SessionIds /\ c \in HostCalls /\ Kind[c] = "end" /\ ~receipts[c].done
                  /\ sessions[h].status = "active"
                  /\ sessions' \in [SessionIds -> Session]
                  /\ \A g \in SessionIds \ {h} : sessions'[g] = sessions[g]
                  /\ sessions'[h].status = "ended" /\ sessions'[h].outcome = Outcome[c]
                  /\ sessions'[h].used = sessions[h].used
                  /\ sessions'[h].attempts = sessions[h].attempts
                  /\ \A d \in HostCalls \ {c} : receipts'[d] = receipts[d]
                  /\ ~receipts'[c].boosted
                  /\ tally' = counted /\ suggestions' = Filed(h, Outcome[c], counted)
<1> DEFINE c == id[1]
           h == requests[id].session
           counted == IF sessions[h].used /\ Outcome[c] \in DOMAIN tally
                      THEN [tally EXCEPT ![Outcome[c]] = @ + 1] ELSE tally
<1>0. c \in HostCalls /\ Kind[c] = "end" /\ requests[id].step = "routed"
  BY DEF CommitEnd, RequestIds, At
<1> USE DEF Recorded
<1>1. CASE UNCHANGED store
  BY <1>1 DEF store
<1>2. CASE /\ ~receipts[c].done /\ Writable(h)
           /\ tally' = counted
           /\ suggestions' = Filed(h, Outcome[c], counted)
           /\ sessions' = [sessions EXCEPT ![h].status = "ended", ![h].outcome = Outcome[c]]
           /\ receipts' = [receipts EXCEPT ![c] = [NoReceipt EXCEPT !.done = TRUE, !.session = h]]
  <2>1. h \in SessionIds
    BY <1>0 DEF SessionsTypeOK, Request, RoutedInv
  <2>2. Outcome[c] \in {"success", "failure", "abandoned"}
    BY <1>0, SessionsAssumption DEF Reports
  <2>3. /\ sessions' \in [SessionIds -> Session]
        /\ sessions' = [sessions EXCEPT ![h] = [sessions[h] EXCEPT !.status = "ended", !.outcome = Outcome[c]]]
    BY <1>2, <2>1, <2>2, EndTyped DEF SessionsTypeOK
  <2>4. \A g \in SessionIds \ {h} : sessions'[g] = sessions[g]
    BY <2>3 DEF SessionsTypeOK
  <2>5. sessions[h] \in Session
    BY <2>1 DEF SessionsTypeOK
  <2>6. /\ sessions'[h].status = "ended" /\ sessions'[h].outcome = Outcome[c]
        /\ sessions'[h].used = sessions[h].used /\ sessions'[h].attempts = sessions[h].attempts
    BY <2>1, <2>3, <2>5 DEF SessionsTypeOK, Session
  <2>7. sessions[h].status = "active"
    BY <1>2 DEF Writable, CanEnd
  <2> DEFINE r == [NoReceipt EXCEPT !.done = TRUE, !.session = h]
  <2>8. ~r.boosted
    BY DEF NoReceipt
  <2>9. receipts'[c] = r /\ \A d \in HostCalls \ {c} : receipts'[d] = receipts[d]
    BY <1>0, <1>2 DEF SessionsTypeOK
  <2> HIDE DEF r
  <2> QED BY <1>0, <1>2, <2>1, <2>3, <2>4, <2>6, <2>7, <2>8, <2>9
<1> QED BY <1>1, <1>2 DEF CommitEnd, store

-----------------------------------------------------------------------------
(* A session that is over stays as it is.                                  *)

LEMMA StepKeepsTerminal == Recorded /\ [SessionsNext]_svars => KeepsTerminal
<1> SUFFICES ASSUME Recorded, [SessionsNext]_svars PROVE KeepsTerminal
  OBVIOUS
<1> DEFINE Keeps(h) == /\ sessions'[h].status = sessions[h].status
                       /\ sessions'[h].outcome = sessions[h].outcome
                       /\ CallsOf(sessions'[h]) = CallsOf(sessions[h])
<1>0. SUFFICES ASSUME NEW h \in SessionIds, sessions[h].status \in {"ended", "abandoned"} PROVE Keeps(h)
  BY DEF KeepsTerminal, Terminal
<1>1. CASE UNCHANGED sessions
  BY <1>1
<1>2. ASSUME NEW id \in RequestIds, CommitStart(id) PROVE Keeps(h)
  <2>1. CASE UNCHANGED sessions
    BY <2>1
  <2>2. CASE ~UNCHANGED sessions
    <3>1. sessions[id].status = "absent"
          /\ \A g \in SessionIds \ {id} :
                       /\ sessions'[g].attempts = sessions[g].attempts
                       /\ sessions[g].status # "active" =>
                             sessions'[g].status = sessions[g].status /\ sessions'[g].outcome = sessions[g].outcome
      BY <1>2, <2>2, StartEffect
    <3> QED BY <1>0, <3>1 DEF CallsOf
  <2> QED BY <2>1, <2>2
<1>3. ASSUME NEW id \in RequestIds, CommitAttempt(id) PROVE Keeps(h)
  <2>1. CASE UNCHANGED sessions
    BY <2>1
  <2>2. CASE ~UNCHANGED sessions
    <3>1. sessions[requests[id].session].status = "active"
          /\ \A g \in SessionIds \ {requests[id].session} : sessions'[g] = sessions[g]
      BY <1>3, <2>2, AttemptEffect
    <3> QED BY <1>0, <3>1
  <2> QED BY <2>1, <2>2
<1>4. ASSUME NEW id \in RequestIds, CommitEnd(id) PROVE Keeps(h)
  <2>1. CASE UNCHANGED sessions
    BY <2>1
  <2>2. CASE ~UNCHANGED sessions
    <3>1. sessions[requests[id].session].status = "active"
          /\ \A g \in SessionIds \ {requests[id].session} : sessions'[g] = sessions[g]
      BY <1>4, <2>2, FinishEffect
    <3> QED BY <1>0, <3>1
  <2> QED BY <2>1, <2>2
<1>5. CASE Touches
  BY <1>0, <1>5 DEF Touches, CallsOf
<1>6. CASE UNCHANGED svars
  BY <1>1, <1>6 DEF svars
<1>7. CASE SessionsNext
  <2>1. ASSUME NEW ch \in HostChannels, Send(ch) \/ Resend(ch) \/ GiveUp(ch) PROVE UNCHANGED sessions
    BY <2>1, HostRecorded DEF store
  <2>2. CASE Kill
    BY <2>2, <1>1, KillRecorded DEF store
  <2>3. ASSUME NEW id \in RequestIds, Quietly(id) PROVE Touches
    BY <2>3, QuietTyped
  <2> QED BY <1>7, <1>1, <1>2, <1>3, <1>4, <1>5, <2>1, <2>2, <2>3, Steps4
<1> QED BY <1>6, <1>7

\* A session that has ended or was abandoned keeps its outcome and its attempts, for
\* any hosts, resends, kills and requests that were routed to it before it was over.
THEOREM OverIsOver == SessionsSpec => TerminalIsFinal
<1>1. Recorded /\ [SessionsNext]_svars => [KeepsTerminal]_svars
  BY StepKeepsTerminal
<1> QED BY RecordedInit, RecordedKept, <1>1, PTL DEF SessionsSpec, TerminalIsFinal

-----------------------------------------------------------------------------
(* Channels.                                                               *)

ChannelInv ==
    \A h \in SessionIds : \A i \in DOMAIN sessions[h].attempts :
        ChannelOf(sessions[h].attempts[i].call) = ChannelOf(h[1])

LEMMA StepKeepsChannels == Recorded /\ ChannelInv /\ [SessionsNext]_svars => ChannelInv'
<1> SUFFICES ASSUME Recorded, ChannelInv, [SessionsNext]_svars PROVE ChannelInv'
  OBVIOUS
<1>1. CASE UNCHANGED sessions
  BY <1>1 DEF ChannelInv
<1>5. CASE Touches
  BY <1>5 DEF Touches, ChannelInv
<1>2. ASSUME NEW id \in RequestIds, CommitStart(id) PROVE ChannelInv'
  <2>2. CASE ~UNCHANGED sessions
    <3>1. sessions'[id].attempts = <<>> /\ \A g \in SessionIds \ {id} : sessions'[g].attempts = sessions[g].attempts
      BY <1>2, <2>2, StartEffect
    <3>2. DOMAIN sessions'[id].attempts = {}
      <4>1. <<>> \in Seq(Nat) /\ Len(<<>>) = 0
        OBVIOUS
      <4>2. DOMAIN <<>> = 1..0
        BY <4>1
      <4> QED BY <3>1, <4>2
    <3> QED BY <3>1, <3>2 DEF ChannelInv
  <2> QED BY <1>1, <2>2
<1>3. ASSUME NEW id \in RequestIds, CommitAttempt(id) PROVE ChannelInv'
  <2>2. CASE ~UNCHANGED sessions
    <3> DEFINE h == requests[id].session
               n == Len(sessions[h].attempts) + 1
    <3>1. /\ ChannelOf(h[1]) = ChannelOf(id[1])
          /\ \A g \in SessionIds \ {h} : sessions'[g] = sessions[g]
          /\ DOMAIN sessions'[h].attempts = DOMAIN sessions[h].attempts \cup {n}
          /\ \A i \in DOMAIN sessions[h].attempts : sessions'[h].attempts[i] = sessions[h].attempts[i]
          /\ sessions'[h].attempts[n].call = id[1]
      BY <1>3, <2>2, AttemptEffect
    <3> HIDE DEF h, n
    <3> QED BY <3>1 DEF ChannelInv
  <2> QED BY <1>1, <2>2
<1>4. ASSUME NEW id \in RequestIds, CommitEnd(id) PROVE ChannelInv'
  <2>2. CASE ~UNCHANGED sessions
    <3> DEFINE h == requests[id].session
    <3>1. /\ \A g \in SessionIds \ {h} : sessions'[g] = sessions[g]
          /\ sessions'[h].attempts = sessions[h].attempts
      BY <1>4, <2>2, FinishEffect
    <3> HIDE DEF h
    <3> QED BY <3>1 DEF ChannelInv
  <2> QED BY <1>1, <2>2
<1>6. CASE UNCHANGED svars
  BY <1>1, <1>6 DEF svars
<1>7. CASE SessionsNext
  <2>1. ASSUME NEW ch \in HostChannels, Send(ch) \/ Resend(ch) \/ GiveUp(ch) PROVE UNCHANGED sessions
    BY <2>1, HostRecorded DEF store
  <2>2. CASE Kill
    BY <2>2, <1>1, KillRecorded DEF store
  <2>3. ASSUME NEW id \in RequestIds, Quietly(id) PROVE Touches
    BY <2>3, QuietTyped
  <2> QED BY <1>7, <1>1, <1>2, <1>3, <1>4, <1>5, <2>1, <2>2, <2>3, Steps4
<1> QED BY <1>6, <1>7

\* No attempt and no binding crosses channels, for any programs of any hosts, however
\* late a request is executed and wherever its channel is bound by then.
THEOREM ChannelsAreApart == SessionsSpec => []ChannelIsolation
<1>1. SessionsInit => ChannelInv
  <2> SUFFICES ASSUME SessionsInit PROVE ChannelInv
    OBVIOUS
  <2>1. ASSUME NEW h \in SessionIds PROVE DOMAIN sessions[h].attempts = {}
    BY RecordedInit DEF Recorded, ExistInv, SessionsInit, Absent
  <2> QED BY <2>1 DEF ChannelInv
<1>2. Recorded /\ ChannelInv => ChannelIsolation
  <2> SUFFICES ASSUME Recorded, ChannelInv PROVE ChannelIsolation
    OBVIOUS
  <2>1. \A h \in SessionIds : sessions[h].channel = ChannelOf(h[1])
    BY DEF Recorded, ExistInv
  <2>2. ASSUME NEW ch \in HostChannels, NEW h \in {bound[ch], saved[ch]}, h # NoSession
        PROVE  sessions[h].channel = ch /\ sessions[h].status # "absent"
    BY <2>1, <2>2 DEF Recorded, KnownInv, Owned, SessionsTypeOK
  <2> QED BY <2>1, <2>2 DEF ChannelInv, ChannelIsolation
<1> QED BY RecordedInit, RecordedKept, StepKeepsChannels, <1>1, <1>2, PTL DEF SessionsSpec

-----------------------------------------------------------------------------
(* Once.                                                                   *)

OnceInv ==
    \A c \in HostCalls : Kind[c] = "attempt" =>
        /\ receipts[c].done =>
              /\ receipts[c].session \in SessionIds
              /\ receipts[c].seq \in DOMAIN sessions[receipts[c].session].attempts
              /\ sessions[receipts[c].session].attempts[receipts[c].seq].call = c
        /\ \A h \in SessionIds : \A i \in DOMAIN sessions[h].attempts :
              sessions[h].attempts[i].call = c =>
                 receipts[c].done /\ receipts[c].session = h /\ receipts[c].seq = i

LEMMA EmptyDomain == DOMAIN <<>> = {}
<1>1. <<>> \in Seq(Nat) /\ Len(<<>>) = 0
  OBVIOUS
<1>2. DOMAIN <<>> = 1..0
  BY <1>1
<1> QED BY <1>2

LEMMA OnceKept ==
    ASSUME OnceInv,
           \A h \in SessionIds : /\ DOMAIN sessions'[h].attempts = DOMAIN sessions[h].attempts
                                 /\ \A i \in DOMAIN sessions[h].attempts :
                                       sessions'[h].attempts[i].call = sessions[h].attempts[i].call,
           \A c \in HostCalls : Kind[c] = "attempt" =>
                 /\ receipts'[c].done <=> receipts[c].done
                 /\ receipts'[c].session = receipts[c].session /\ receipts'[c].seq = receipts[c].seq
    PROVE  OnceInv'
BY DEF OnceInv

LEMMA StepKeepsOnce == Recorded /\ OnceInv /\ [SessionsNext]_svars => OnceInv'
<1> SUFFICES ASSUME Recorded, OnceInv, [SessionsNext]_svars PROVE OnceInv'
  OBVIOUS
<1>1. CASE UNCHANGED <<sessions, receipts>>
  BY <1>1 DEF OnceInv
<1>2. ASSUME NEW id \in RequestIds, CommitStart(id) PROVE OnceInv'
  <2>2. CASE ~UNCHANGED <<sessions, receipts>>
    <3>1. /\ id \in SessionIds /\ sessions[id].status = "absent" /\ Kind[id[1]] = "start"
          /\ sessions'[id].attempts = <<>>
          /\ \A g \in SessionIds \ {id} : sessions'[g].attempts = sessions[g].attempts
          /\ \A d \in HostCalls \ {id[1]} : receipts'[d] = receipts[d]
      BY <1>2, <2>2, StartEffect
    <3>2. DOMAIN sessions[id].attempts = {} /\ DOMAIN sessions'[id].attempts = {}
      BY <3>1, EmptyDomain DEF Recorded, ExistInv
    <3>3. \A h \in SessionIds :
             /\ DOMAIN sessions'[h].attempts = DOMAIN sessions[h].attempts
             /\ \A i \in DOMAIN sessions[h].attempts :
                   sessions'[h].attempts[i].call = sessions[h].attempts[i].call
      BY <3>1, <3>2
    <3>4. \A c \in HostCalls : Kind[c] = "attempt" => receipts'[c] = receipts[c]
      BY <3>1
    <3> QED BY <3>3, <3>4, OnceKept
  <2> QED BY <1>1, <2>2
<1>3. ASSUME NEW id \in RequestIds, CommitAttempt(id) PROVE OnceInv'
  <2>2. CASE ~UNCHANGED <<sessions, receipts>>
    <3> DEFINE h == requests[id].session
               n == Len(sessions[h].attempts) + 1
               c == id[1]
    <3>1. /\ h \in SessionIds /\ c \in HostCalls /\ Kind[c] = "attempt" /\ ~receipts[c].done
          /\ \A g \in SessionIds \ {h} : sessions'[g] = sessions[g]
          /\ DOMAIN sessions'[h].attempts = DOMAIN sessions[h].attempts \cup {n}
          /\ n \notin DOMAIN sessions[h].attempts
          /\ \A i \in DOMAIN sessions[h].attempts : sessions'[h].attempts[i] = sessions[h].attempts[i]
          /\ sessions'[h].attempts[n].call = c
          /\ \A d \in HostCalls \ {c} : receipts'[d] = receipts[d]
          /\ receipts'[c].done /\ receipts'[c].session = h /\ receipts'[c].seq = n
      BY <1>3, <2>2, AttemptEffect
    <3> HIDE DEF h, n, c
    <3>2. \A g \in SessionIds : \A i \in DOMAIN sessions[g].attempts : sessions[g].attempts[i].call # c
      BY <3>1 DEF OnceInv
    <3>3. ASSUME NEW d \in HostCalls, Kind[d] = "attempt", d # c
          PROVE  /\ receipts'[d].done =>
                    /\ receipts'[d].session \in SessionIds
                    /\ receipts'[d].seq \in DOMAIN sessions'[receipts'[d].session].attempts
                    /\ sessions'[receipts'[d].session].attempts[receipts'[d].seq].call = d
                 /\ \A g \in SessionIds : \A i \in DOMAIN sessions'[g].attempts :
                        sessions'[g].attempts[i].call = d =>
                           receipts'[d].done /\ receipts'[d].session = g /\ receipts'[d].seq = i
      BY <3>1, <3>3 DEF OnceInv
    <3>4. \A g \in SessionIds : \A i \in DOMAIN sessions'[g].attempts :
              sessions'[g].attempts[i].call = c => g = h /\ i = n
      BY <3>1, <3>2
    <3> QED BY <3>1, <3>3, <3>4 DEF OnceInv
  <2> QED BY <1>1, <2>2
<1>4. ASSUME NEW id \in RequestIds, CommitEnd(id) PROVE OnceInv'
  <2>2. CASE ~UNCHANGED <<sessions, receipts>>
    <3> DEFINE h == requests[id].session
    <3>1. /\ h \in SessionIds /\ Kind[id[1]] = "end"
          /\ \A g \in SessionIds \ {h} : sessions'[g] = sessions[g]
          /\ sessions'[h].attempts = sessions[h].attempts
          /\ \A d \in HostCalls \ {id[1]} : receipts'[d] = receipts[d]
      BY <1>4, <2>2, FinishEffect
    <3> HIDE DEF h
    <3>3. \A g \in SessionIds : sessions'[g].attempts = sessions[g].attempts
      BY <3>1
    <3>4. \A c \in HostCalls : Kind[c] = "attempt" => receipts'[c] = receipts[c]
      BY <3>1
    <3> QED BY <3>3, <3>4, OnceKept
  <2> QED BY <1>1, <2>2
<1>5. ASSUME Touches, Marks PROVE OnceInv'
  <2>1. \A c \in HostCalls : Kind[c] = "attempt" =>
                 /\ receipts'[c].done <=> receipts[c].done
                 /\ receipts'[c].session = receipts[c].session /\ receipts'[c].seq = receipts[c].seq
    BY <1>5 DEF Marks
  <2> QED BY <1>5, <2>1, OnceKept DEF Touches
<1>6. CASE UNCHANGED svars
  BY <1>1, <1>6 DEF svars
<1>7. CASE SessionsNext
  <2>1. ASSUME NEW ch \in HostChannels, Send(ch) \/ Resend(ch) \/ GiveUp(ch) PROVE UNCHANGED <<sessions, receipts>>
    BY <2>1, HostRecorded DEF store
  <2>2. CASE Kill
    BY <2>2, <1>1, KillRecorded DEF store
  <2>3. ASSUME NEW id \in RequestIds, Quietly(id) PROVE Touches /\ Marks
    BY <2>3, QuietTyped
  <2> QED BY <1>7, <1>1, <1>2, <1>3, <1>4, <1>5, <2>1, <2>2, <2>3, Steps4
<1> QED BY <1>6, <1>7

LEMMA OnceImplies == Recorded /\ OnceInv => AttemptOnce
<1> SUFFICES ASSUME Recorded, OnceInv, NEW c \in HostCalls, Kind[c] = "attempt"
             PROVE  /\ Places(c) = IF receipts[c].done THEN {<<receipts[c].session, receipts[c].seq>>} ELSE {}
                    /\ told[c] = "success" => receipts[c].done
  BY DEF AttemptOnce
<1>1. told[c] = "success" => receipts[c].done
  BY DEF Recorded, KnownInv
<1>2. ASSUME NEW p \in Places(c) PROVE receipts[c].done /\ p = <<receipts[c].session, receipts[c].seq>>
  <2>1. PICK h \in SessionIds : p \in {h} \X {i \in DOMAIN sessions[h].attempts : sessions[h].attempts[i].call = c}
    BY DEF Places
  <2>2. PICK i \in DOMAIN sessions[h].attempts : p = <<h, i>> /\ sessions[h].attempts[i].call = c
    BY <2>1
  <2> QED BY <2>2 DEF OnceInv
<1>3. receipts[c].done => <<receipts[c].session, receipts[c].seq>> \in Places(c)
  BY DEF OnceInv, Places
<1> QED BY <1>1, <1>2, <1>3

LEMMA OnceInit == SessionsInit => OnceInv
<1> SUFFICES ASSUME SessionsInit PROVE OnceInv
  OBVIOUS
<1>1. ASSUME NEW h \in SessionIds PROVE DOMAIN sessions[h].attempts = {}
  BY RecordedInit DEF Recorded, ExistInv, SessionsInit, Absent
<1>2. ASSUME NEW c \in HostCalls PROVE ~receipts[c].done
  BY DEF SessionsInit, NoReceipt
<1> QED BY <1>1, <1>2 DEF OnceInv

-----------------------------------------------------------------------------
(* Counts.                                                                 *)

\* The four ways in which a quiet step may change what is counted.
SameAttempts == \A h \in SessionIds : sessions'[h].attempts = sessions[h].attempts
SameDone == \A c \in HostCalls : receipts'[c].done <=> receipts[c].done
SameBoosted == \A c \in HostCalls : receipts'[c].boosted <=> receipts[c].boosted
OneMore ==
    \A h \in SessionIds :
        /\ DOMAIN sessions'[h].attempts = DOMAIN sessions[h].attempts
        /\ \A i \in DOMAIN sessions[h].attempts :
              sessions'[h].attempts[i].accesses
                  \in {sessions[h].attempts[i].accesses, sessions[h].attempts[i].accesses + 1}

Plain == SameAttempts /\ SameDone /\ SameBoosted /\ UNCHANGED <<tally, suggestions>>
Practised(c) ==
    /\ SameAttempts /\ SameBoosted /\ UNCHANGED suggestions
    /\ Kind[c] = "practice" /\ ~receipts[c].done /\ receipts'[c].done
    /\ \A d \in HostCalls \ {c} : receipts'[d].done <=> receipts[d].done
    /\ tally' = [tally EXCEPT ![Outcome[c]] = @ + 1]
Boosts(c) ==
    /\ OneMore /\ SameDone /\ UNCHANGED <<tally, suggestions>>
    /\ ~receipts[c].boosted /\ receipts'[c].boosted
    /\ \A d \in HostCalls \ {c} : receipts'[d].boosted <=> receipts[d].boosted
Responds(c) ==
    /\ OneMore /\ SameBoosted /\ UNCHANGED tally
    /\ Kind[c] = "respond" /\ ~receipts[c].done /\ receipts'[c].done
    /\ \A d \in HostCalls \ {c} : receipts'[d].done <=> receipts[d].done
    /\ DOMAIN suggestions' = DOMAIN suggestions
    /\ \A m \in DOMAIN suggestions : suggestions'[m].session = suggestions[m].session

LEMMA AccessedOneMore ==
    ASSUME SessionsTypeOK, NEW T, sessions' = Accessed(sessions, T) PROVE OneMore
<1>0. sessions \in [SessionIds -> Session]
  BY DEF SessionsTypeOK
<1>1. CountsMore(sessions, sessions')
  BY <1>0, AccessedTyped
<1> QED BY <1>1 DEF OneMore, CountsMore

LEMMA LinkedSame ==
    ASSUME SessionsTypeOK, NEW g \in SessionIds \cup {NoSession}, sessions' = Linked(sessions, g)
    PROVE  SameAttempts
BY LinkedTyped DEF SessionsTypeOK, SameAttempts

LEMMA DonePut ==
    ASSUME SessionsTypeOK, NEW c \in HostCalls, receipts' = [receipts EXCEPT ![c].done = TRUE]
    PROVE  /\ SameBoosted /\ receipts'[c].done
           /\ \A d \in HostCalls \ {c} : receipts'[d].done <=> receipts[d].done
<1>1. receipts[c] \in Receipt /\ receipts \in [HostCalls -> Receipt]
  BY DEF SessionsTypeOK
<1>2. receipts'[c] = [receipts[c] EXCEPT !.done = TRUE] /\ \A d \in HostCalls \ {c} : receipts'[d] = receipts[d]
  BY <1>1
<1>3. receipts'[c].done /\ receipts'[c].boosted = receipts[c].boosted
  BY <1>1, <1>2 DEF Receipt
<1> QED BY <1>2, <1>3 DEF SameBoosted

LEMMA QuietEffect ==
    ASSUME Recorded, NEW id \in RequestIds, Quietly(id)
    PROVE  Plain \/ Practised(id[1]) \/ Boosts(id[1]) \/ Responds(id[1])
<1> DEFINE c == id[1]
<1>0. c \in HostCalls
  BY DEF RequestIds
<1> USE DEF Recorded
<1>a. UNCHANGED <<sessions, receipts, tally, suggestions>> => Plain
  BY DEF Plain, SameAttempts, SameDone, SameBoosted
<1>b. requests[id].session \in SessionIds \cup {NoSession}
  BY DEF SessionsTypeOK, Request
<1>1. CASE \/ PlanStart(id) \/ BindSession(id) \/ PersistBinding(id) \/ RouteAttempt(id)
           \/ RoutePractice(id) \/ RouteEnd(id)
  BY <1>1, <1>a DEF PlanStart, BindSession, PersistBinding, RouteAttempt, RoutePractice, RouteEnd, store
<1>2. CASE ClaimBoost(id)
  <2>1. CASE UNCHANGED <<sessions, receipts>>
    BY <2>1, <1>2, <1>a DEF ClaimBoost
  <2>2. CASE /\ ~receipts[c].boosted /\ sessions' = Accessed(sessions, requests[id].targets)
             /\ receipts' = [receipts EXCEPT ![c].boosted = TRUE]
    <3>1. OneMore
      BY <2>2, AccessedOneMore
    <3>2. receipts[c] \in Receipt /\ receipts \in [HostCalls -> Receipt]
      BY <1>0 DEF SessionsTypeOK
    <3> DEFINE r == [receipts[c] EXCEPT !.boosted = TRUE]
    <3>a. receipts' = [receipts EXCEPT ![c] = r]
      BY <2>2
    <3>b. r.boosted /\ r.done = receipts[c].done
      BY <3>2 DEF Receipt
    <3> HIDE DEF r
    <3>3. receipts'[c] = r /\ \A d \in HostCalls \ {c} : receipts'[d] = receipts[d]
      BY <1>0, <3>a, <3>2
    <3>4. receipts'[c].boosted /\ receipts'[c].done = receipts[c].done
      BY <3>b, <3>3
    <3> QED BY <2>2, <3>1, <3>3, <3>4, <1>2 DEF Boosts, SameDone, ClaimBoost
  <2> QED BY <1>2, <2>1, <2>2 DEF ClaimBoost, Claimed
<1>3. CASE Freeze(id)
  <2>1. receipts' = [receipts EXCEPT ![c].frozen = TRUE] /\ UNCHANGED <<sessions, tally, suggestions>>
    BY <1>3 DEF Freeze
  <2>2. receipts[c] \in Receipt /\ receipts \in [HostCalls -> Receipt]
    BY <1>0 DEF SessionsTypeOK
  <2> DEFINE r == [receipts[c] EXCEPT !.frozen = TRUE]
  <2>a. receipts' = [receipts EXCEPT ![c] = r]
    BY <2>1
  <2>b. r.boosted = receipts[c].boosted /\ r.done = receipts[c].done
    BY <2>2 DEF Receipt
  <2> HIDE DEF r
  <2>3. receipts'[c] = r /\ \A d \in HostCalls \ {c} : receipts'[d] = receipts[d]
    BY <1>0, <2>a, <2>2
  <2>4. receipts'[c].boosted = receipts[c].boosted /\ receipts'[c].done = receipts[c].done
    BY <2>b, <2>3
  <2> QED BY <2>1, <2>3, <2>4 DEF Plain, SameAttempts, SameDone, SameBoosted
<1>4. CASE CommitPractice(id)
  <2>1. CASE UNCHANGED <<sessions, receipts, tally>>
    BY <2>1, <1>4, <1>a DEF CommitPractice
  <2>2. CASE ~receipts[c].done /\ ~UNCHANGED <<sessions, receipts, tally>>
    <3>1. /\ Kind[c] = "practice" /\ tally' = [tally EXCEPT ![Outcome[c]] = @ + 1]
          /\ sessions' = Linked(sessions, requests[id].session)
          /\ receipts' = [receipts EXCEPT ![c].done = TRUE] /\ UNCHANGED suggestions
      BY <1>4, <2>2 DEF CommitPractice, PracticeDone
    <3>2. SameAttempts
      BY <3>1, <1>b, LinkedSame
    <3> QED BY <1>0, <2>2, <3>1, <3>2, DonePut DEF Practised
  <2> QED BY <1>4, <2>1, <2>2 DEF CommitPractice, PracticeDone
<1>5. CASE LinkPractice(id)
  <2>1. sessions' = Linked(sessions, requests[id].session) /\ UNCHANGED <<receipts, tally, suggestions>>
    BY <1>5 DEF LinkPractice
  <2>2. SameAttempts
    BY <2>1, <1>b, LinkedSame
  <2> QED BY <2>1, <2>2 DEF Plain, SameDone, SameBoosted
<1>6. CASE Respond(id)
  <2>0. UNCHANGED tally /\ Kind[c] = "respond"
    BY <1>6 DEF Respond
  <2>1. CASE UNCHANGED <<sessions, receipts, suggestions>>
    BY <2>0, <2>1, <1>a
  <2>2. CASE ~UNCHANGED <<sessions, receipts, suggestions>>
    <3>1. ~receipts[c].done /\ receipts' = [receipts EXCEPT ![c].done = TRUE]
      BY <1>6, <2>2 DEF Respond
    <3>2. PICK n \in DOMAIN suggestions :
                    /\ suggestions' = [suggestions EXCEPT ![n].status = Outcome[c]]
                    /\ sessions' = Accessed(sessions, Related(suggestions[n].session, Outcome[c]))
      BY <1>6, <2>2 DEF Respond
    <3>3. OneMore
      BY <3>2, AccessedOneMore
    <3>4. DOMAIN suggestions' = DOMAIN suggestions
          /\ \A m \in DOMAIN suggestions : suggestions'[m].session = suggestions[m].session
      <4>1. suggestions \in Seq(Suggestion)
        BY DEF SessionsTypeOK
      <4>2. ASSUME NEW m \in DOMAIN suggestions PROVE suggestions[m] \in Suggestion
        BY <4>1
      <4>3. \A m \in DOMAIN suggestions : m # n => suggestions'[m] = suggestions[m]
        BY <3>2
      <4>4. suggestions'[n] = [suggestions[n] EXCEPT !.status = Outcome[c]]
        BY <3>2
      <4>5. suggestions'[n].session = suggestions[n].session
        BY <4>2, <4>4 DEF Suggestion
      <4>6. DOMAIN suggestions' = DOMAIN suggestions
        BY <3>2
      <4> QED BY <4>3, <4>5, <4>6
    <3> QED BY <1>0, <2>0, <3>1, <3>3, <3>4, DonePut DEF Responds
  <2> QED BY <2>1, <2>2
<1> QED BY <1>1, <1>2, <1>3, <1>4, <1>5, <1>6 DEF Quietly

Boosters == {c \in HostCalls : receipts[c].boosted}
Responders == {c \in HostCalls : Kind[c] = "respond" /\ receipts[c].done}
MayCount == Cardinality(Boosters) + Cardinality(Responders)

\* A set of calls is finite; it grows by one with a call it did not have.
LEMMA CallsCounted ==
    ASSUME NEW S \in SUBSET HostCalls, NEW T \in SUBSET HostCalls, S \subseteq T
    PROVE  /\ Cardinality(S) \in Nat /\ Cardinality(T) \in Nat
           /\ Cardinality(S) <= Cardinality(T)
           /\ \A c \in T \ S : T = S \cup {c} => Cardinality(T) = Cardinality(S) + 1
<1>1. IsFiniteSet(HostCalls)
  BY SessionsAssumption
<1>2. IsFiniteSet(S) /\ IsFiniteSet(T)
  BY <1>1, FS_Subset
<1>3. Cardinality(S) \in Nat /\ Cardinality(T) \in Nat
  BY <1>2, FS_CardinalityType
<1>4. Cardinality(S) <= Cardinality(T)
  BY <1>2, FS_Subset
<1>5. ASSUME NEW c \in T \ S, T = S \cup {c} PROVE Cardinality(T) = Cardinality(S) + 1
  BY <1>2, <1>5, FS_AddElement
<1> QED BY <1>3, <1>4, <1>5

\* A step that adds no more to a count than to what may count it keeps the bound.
LEMMA AccessKept ==
    ASSUME SessionsTypeOK, AccessCountedOnce, NEW more \in {0, 1},
           MayCount \in Nat, MayCount' \in Nat, MayCount' >= MayCount + more,
           \A h \in SessionIds : \A i \in DOMAIN sessions'[h].attempts :
              \/ sessions'[h].attempts[i].accesses = 0
              \/ /\ i \in DOMAIN sessions[h].attempts
                 /\ sessions'[h].attempts[i].accesses
                       \in {sessions[h].attempts[i].accesses, sessions[h].attempts[i].accesses + more}
    PROVE  AccessCountedOnce'
<1> SUFFICES ASSUME NEW h \in SessionIds, NEW i \in DOMAIN sessions'[h].attempts
             PROVE  sessions'[h].attempts[i].accesses <= MayCount'
  BY DEF AccessCountedOnce, MayCount, Boosters, Responders
<1>1. CASE sessions'[h].attempts[i].accesses = 0
  BY <1>1
<1>2. CASE /\ i \in DOMAIN sessions[h].attempts
           /\ sessions'[h].attempts[i].accesses
                       \in {sessions[h].attempts[i].accesses, sessions[h].attempts[i].accesses + more}
  <2>1. sessions[h].attempts[i].accesses <= MayCount
    BY <1>2 DEF AccessCountedOnce, MayCount, Boosters, Responders
  <2>2. sessions[h].attempts[i].accesses \in Nat
    <3>1. sessions \in [SessionIds -> Session]
      BY DEF SessionsTypeOK
    <3> QED BY <3>1, <1>2, AttemptsTyped
  <2> QED BY <1>2, <2>1, <2>2
<1> QED BY <1>1, <1>2

\* A step that keeps who counted keeps how many may.
LEMMA CountersKept ==
    ASSUME \A c \in HostCalls : receipts[c].boosted => receipts'[c].boosted,
           \A c \in HostCalls : Kind[c] = "respond" /\ receipts[c].done => receipts'[c].done
    PROVE  /\ MayCount \in Nat /\ MayCount' \in Nat /\ MayCount' >= MayCount
           /\ Boosters \subseteq Boosters' /\ Responders \subseteq Responders'
<1>1. Boosters \in SUBSET HostCalls /\ Boosters' \in SUBSET HostCalls /\ Boosters \subseteq Boosters'
  BY DEF Boosters
<1>2. Responders \in SUBSET HostCalls /\ Responders' \in SUBSET HostCalls /\ Responders \subseteq Responders'
  BY DEF Responders
<1>3. Cardinality(Boosters) \in Nat /\ Cardinality(Boosters') \in Nat /\ Cardinality(Boosters) <= Cardinality(Boosters')
  BY <1>1, CallsCounted
<1>4. Cardinality(Responders) \in Nat /\ Cardinality(Responders') \in Nat
      /\ Cardinality(Responders) <= Cardinality(Responders')
  BY <1>2, CallsCounted
<1> QED BY <1>1, <1>2, <1>3, <1>4 DEF MayCount

\* The first boost of a call, and its first answer, are one more that may count.
LEMMA CountersGrow ==
    ASSUME NEW c \in HostCalls,
           \/ /\ SameDone /\ ~receipts[c].boosted /\ receipts'[c].boosted
              /\ \A d \in HostCalls \ {c} : receipts'[d].boosted <=> receipts[d].boosted
           \/ /\ SameBoosted /\ Kind[c] = "respond" /\ ~receipts[c].done /\ receipts'[c].done
              /\ \A d \in HostCalls \ {c} : receipts'[d].done <=> receipts[d].done
    PROVE  MayCount \in Nat /\ MayCount' \in Nat /\ MayCount' >= MayCount + 1
<1>0. /\ \A d \in HostCalls : receipts[d].boosted => receipts'[d].boosted
      /\ \A d \in HostCalls : Kind[d] = "respond" /\ receipts[d].done => receipts'[d].done
  BY DEF SameDone, SameBoosted
<1>1. MayCount \in Nat /\ MayCount' \in Nat /\ Boosters \subseteq Boosters' /\ Responders \subseteq Responders'
  BY <1>0, CountersKept
<1>2. /\ Boosters \in SUBSET HostCalls /\ Boosters' \in SUBSET HostCalls
      /\ Responders \in SUBSET HostCalls /\ Responders' \in SUBSET HostCalls
  BY DEF Boosters, Responders
<1>3. \/ c \in Boosters' \ Boosters /\ Boosters' = Boosters \cup {c}
      \/ c \in Responders' \ Responders /\ Responders' = Responders \cup {c}
  BY DEF Boosters, Responders
<1>4. /\ Cardinality(Boosters) \in Nat /\ Cardinality(Boosters') \in Nat
      /\ Cardinality(Boosters) <= Cardinality(Boosters')
      /\ c \in Boosters' \ Boosters /\ Boosters' = Boosters \cup {c}
            => Cardinality(Boosters') = Cardinality(Boosters) + 1
  BY <1>1, <1>2, CallsCounted
<1>5. /\ Cardinality(Responders) \in Nat /\ Cardinality(Responders') \in Nat
      /\ Cardinality(Responders) <= Cardinality(Responders')
      /\ c \in Responders' \ Responders /\ Responders' = Responders \cup {c}
            => Cardinality(Responders') = Cardinality(Responders) + 1
  BY <1>1, <1>2, CallsCounted
<1> QED BY <1>1, <1>3, <1>4, <1>5 DEF MayCount

LEMMA StepKeepsAccesses == Recorded /\ AccessCountedOnce /\ [SessionsNext]_svars => AccessCountedOnce'
<1> SUFFICES ASSUME Recorded, AccessCountedOnce, [SessionsNext]_svars PROVE AccessCountedOnce'
  OBVIOUS
<1>0. SessionsTypeOK /\ \A c \in HostCalls : receipts[c].boosted => receipts[c].done
  BY DEF Recorded, KnownInv
<1>1. CASE UNCHANGED <<sessions, receipts>>
  BY <1>1 DEF AccessCountedOnce
<1>2. ASSUME \A c \in HostCalls : receipts[c].boosted => receipts'[c].boosted,
             \A c \in HostCalls : Kind[c] = "respond" /\ receipts[c].done => receipts'[c].done,
             \A h \in SessionIds : \A i \in DOMAIN sessions'[h].attempts :
                \/ sessions'[h].attempts[i].accesses = 0
                \/ /\ i \in DOMAIN sessions[h].attempts
                   /\ sessions'[h].attempts[i].accesses = sessions[h].attempts[i].accesses
      PROVE  AccessCountedOnce'
  <2>1. MayCount \in Nat /\ MayCount' \in Nat /\ MayCount' >= MayCount
    BY <1>2, CountersKept
  <2>2. MayCount' >= MayCount + 0
    BY <2>1
  <2>3. \A h \in SessionIds : \A i \in DOMAIN sessions'[h].attempts :
           \/ sessions'[h].attempts[i].accesses = 0
           \/ /\ i \in DOMAIN sessions[h].attempts
              /\ sessions'[h].attempts[i].accesses
                    \in {sessions[h].attempts[i].accesses, sessions[h].attempts[i].accesses + 0}
    BY <1>2
  <2>4. SessionsTypeOK
    BY <1>0
  <2> QED BY <2>1, <2>2, <2>3, <2>4, AccessKept
<1>3. ASSUME NEW id \in RequestIds, CommitStart(id) PROVE AccessCountedOnce'
  <2>1. CASE ~UNCHANGED <<sessions, receipts>>
    <3>1. /\ id \in SessionIds /\ id[1] \in HostCalls /\ ~receipts[id[1]].done /\ Kind[id[1]] = "start"
          /\ sessions'[id].attempts = <<>>
          /\ \A g \in SessionIds \ {id} : sessions'[g].attempts = sessions[g].attempts
          /\ \A d \in HostCalls \ {id[1]} : receipts'[d] = receipts[d]
      BY <1>3, <2>1, StartEffect
    <3>2. DOMAIN sessions'[id].attempts = {}
      BY <3>1, EmptyDomain
    <3> QED BY <1>0, <1>2, <3>1, <3>2
  <2> QED BY <1>1, <2>1
<1>4. ASSUME NEW id \in RequestIds, CommitAttempt(id) PROVE AccessCountedOnce'
  <2>1. CASE ~UNCHANGED <<sessions, receipts>>
    <3> DEFINE h == requests[id].session
               n == Len(sessions[h].attempts) + 1
               c == id[1]
    <3>1. /\ h \in SessionIds /\ c \in HostCalls /\ Kind[c] = "attempt" /\ ~receipts[c].done
          /\ \A g \in SessionIds \ {h} : sessions'[g] = sessions[g]
          /\ DOMAIN sessions'[h].attempts = DOMAIN sessions[h].attempts \cup {n}
          /\ \A i \in DOMAIN sessions[h].attempts : sessions'[h].attempts[i] = sessions[h].attempts[i]
          /\ sessions'[h].attempts[n].accesses = 0
          /\ \A d \in HostCalls \ {c} : receipts'[d] = receipts[d]
      BY <1>4, <2>1, AttemptEffect
    <3> HIDE DEF h, n, c
    <3>2. \A g \in SessionIds : \A i \in DOMAIN sessions'[g].attempts :
                \/ sessions'[g].attempts[i].accesses = 0
                \/ /\ i \in DOMAIN sessions[g].attempts
                   /\ sessions'[g].attempts[i].accesses = sessions[g].attempts[i].accesses
      BY <3>1
    <3>3. /\ \A d \in HostCalls : receipts[d].boosted => receipts'[d].boosted
          /\ \A d \in HostCalls : Kind[d] = "respond" /\ receipts[d].done => receipts'[d].done
      BY <1>0, <3>1
    <3> QED BY <1>2, <3>2, <3>3
  <2> QED BY <1>1, <2>1
<1>5. ASSUME NEW id \in RequestIds, CommitEnd(id) PROVE AccessCountedOnce'
  <2>1. CASE ~UNCHANGED <<sessions, receipts>>
    <3> DEFINE h == requests[id].session
               c == id[1]
    <3>1. /\ h \in SessionIds /\ c \in HostCalls /\ Kind[c] = "end" /\ ~receipts[c].done
          /\ \A g \in SessionIds \ {h} : sessions'[g] = sessions[g]
          /\ sessions'[h].attempts = sessions[h].attempts
          /\ \A d \in HostCalls \ {c} : receipts'[d] = receipts[d]
      BY <1>5, <2>1, FinishEffect
    <3> HIDE DEF h, c
    <3>2. \A g \in SessionIds : sessions'[g].attempts = sessions[g].attempts
      BY <3>1
    <3>3. /\ \A d \in HostCalls : receipts[d].boosted => receipts'[d].boosted
          /\ \A d \in HostCalls : Kind[d] = "respond" /\ receipts[d].done => receipts'[d].done
      BY <1>0, <3>1
    <3> QED BY <1>2, <3>2, <3>3
  <2> QED BY <1>1, <2>1
<1>6. ASSUME NEW id \in RequestIds, Quietly(id) PROVE AccessCountedOnce'
  <2> DEFINE c == id[1]
  <2>0. c \in HostCalls
    BY DEF RequestIds
  <2>1. CASE SameAttempts /\ SameBoosted /\ \A d \in HostCalls : receipts[d].done => receipts'[d].done
    BY <1>2, <2>1 DEF SameAttempts, SameBoosted
  <2>2. CASE OneMore /\ MayCount \in Nat /\ MayCount' \in Nat /\ MayCount' >= MayCount + 1
    BY <1>0, <2>2, AccessKept DEF OneMore
  <2>3. Plain => <2>1!1
    BY DEF Plain, SameDone
  <2>4. Practised(c) => <2>1!1
    BY DEF Practised
  <2>5. Boosts(c) \/ Responds(c) => <2>2!1
    BY <2>0, CountersGrow DEF Boosts, Responds
  <2> HIDE DEF c
  <2> QED BY <1>6, <2>1, <2>2, <2>3, <2>4, <2>5, QuietEffect DEF c
<1>7. CASE UNCHANGED svars
  BY <1>1, <1>7 DEF svars
<1>8. CASE SessionsNext
  <2>1. ASSUME NEW ch \in HostChannels, Send(ch) \/ Resend(ch) \/ GiveUp(ch) PROVE UNCHANGED <<sessions, receipts>>
    BY <2>1, HostRecorded DEF store
  <2>2. CASE Kill
    BY <2>2, <1>1, KillRecorded DEF store
  <2> QED BY <1>8, <1>1, <1>3, <1>4, <1>5, <1>6, <2>1, <2>2, Steps4
<1> QED BY <1>7, <1>8

Before(o) == IF o = "failure" THEN Failures ELSE 0

\* A suggestion is of a session that has ended, and a session has one.
SuggestInv ==
    /\ \A n \in DOMAIN suggestions : sessions[suggestions[n].session].status = "ended"
    /\ \A m, n \in DOMAIN suggestions : suggestions[m].session = suggestions[n].session => m = n

TallyInv ==
    \A o \in {"success", "failure"} :
        tally[o] \in (Before(o) + Cardinality(CallsDone("practice", o)))
                     ..(Before(o) + Cardinality(CallsDone("practice", o)) + Cardinality(EndedWith(o)))

LEMMA SessionsFinite == IsFiniteSet(SessionIds)
<1>1. IsFiniteSet(HostCalls) /\ MaxSends \in Nat
  BY SessionsAssumption
<1>2. IsFiniteSet(1..MaxSends)
  BY <1>1, FS_Interval
<1>3. IsFiniteSet(RequestIds)
  BY <1>1, <1>2, FS_Product DEF RequestIds
<1> QED BY <1>3, FS_Subset DEF SessionIds

LEMMA SessionsCounted ==
    ASSUME NEW S \in SUBSET SessionIds, NEW T \in SUBSET SessionIds, S \subseteq T
    PROVE  /\ Cardinality(S) \in Nat /\ Cardinality(T) \in Nat
           /\ Cardinality(S) <= Cardinality(T)
           /\ \A h \in T \ S : Cardinality(T) >= Cardinality(S) + 1
<1>1. IsFiniteSet(S) /\ IsFiniteSet(T)
  BY SessionsFinite, FS_Subset
<1>2. Cardinality(S) \in Nat /\ Cardinality(T) \in Nat
  BY <1>1, FS_CardinalityType
<1>3. Cardinality(S) <= Cardinality(T)
  BY <1>1, FS_Subset
<1>4. ASSUME NEW h \in T \ S PROVE Cardinality(T) >= Cardinality(S) + 1
  <2>1. Cardinality(S) = Cardinality(T) => S = T
    BY <1>1, FS_Subset
  <2> QED BY <2>1, <1>2, <1>3
<1> QED BY <1>2, <1>3, <1>4

\* A step that adds no reported outcome, and takes back no session that ended.
LEMMA TallyKept ==
    ASSUME SessionsTypeOK, TallyInv, UNCHANGED tally,
           \A c \in HostCalls : Kind[c] = "practice" => (receipts'[c].done <=> receipts[c].done),
           \A o \in {"success", "failure"} : EndedWith(o) \subseteq EndedWith(o)'
    PROVE  TallyInv'
<1> SUFFICES ASSUME NEW o \in {"success", "failure"}
             PROVE  tally'[o] \in (Before(o) + Cardinality(CallsDone("practice", o)'))
                     ..(Before(o) + Cardinality(CallsDone("practice", o)') + Cardinality(EndedWith(o)'))
  BY DEF TallyInv
<1>1. CallsDone("practice", o)' = CallsDone("practice", o) /\ CallsDone("practice", o) \in SUBSET HostCalls
  BY DEF CallsDone
<1>2. EndedWith(o) \in SUBSET SessionIds /\ EndedWith(o)' \in SUBSET SessionIds /\ EndedWith(o) \subseteq EndedWith(o)'
  BY DEF EndedWith
<1>3. Cardinality(EndedWith(o)) \in Nat /\ Cardinality(EndedWith(o)') \in Nat
      /\ Cardinality(EndedWith(o)) <= Cardinality(EndedWith(o)')
  BY <1>2, SessionsCounted
<1>4. Cardinality(CallsDone("practice", o)) \in Nat
  BY <1>1, CallsCounted
<1>5. Before(o) \in Nat
  BY SessionsAssumption DEF Before
<1>6. tally'[o] \in (Before(o) + Cardinality(CallsDone("practice", o)))
                     ..(Before(o) + Cardinality(CallsDone("practice", o)) + Cardinality(EndedWith(o)))
  BY DEF TallyInv
<1> QED BY <1>1, <1>3, <1>4, <1>5, <1>6

\* What ends, ended with the guide or without, stays among those that ended so.
LEMMA EndedKept ==
    ASSUME \A h \in SessionIds : sessions[h].status = "ended" =>
              /\ sessions'[h].status = "ended" /\ sessions'[h].outcome = sessions[h].outcome
              /\ sessions[h].used => sessions'[h].used
    PROVE  \A o \in {"success", "failure"} : EndedWith(o) \subseteq EndedWith(o)'
BY DEF EndedWith

\* The first commit of a practice adds one to its outcome and to the practices.
LEMMA TallyPractised ==
    ASSUME SessionsTypeOK, TallyInv, NEW c \in HostCalls, Practised(c),
           \A o \in {"success", "failure"} : EndedWith(o) \subseteq EndedWith(o)'
    PROVE  TallyInv'
<1> DEFINE out == Outcome[c]
<1>0. out \in {"success", "failure"}
  BY SessionsAssumption DEF Practised, Reports
<1>a. tally' = [tally EXCEPT ![out] = @ + 1] /\ tally \in [{"success", "failure"} -> Nat]
  BY DEF Practised, SessionsTypeOK
<1> SUFFICES ASSUME NEW o \in {"success", "failure"}
             PROVE  tally'[o] \in (Before(o) + Cardinality(CallsDone("practice", o)'))
                     ..(Before(o) + Cardinality(CallsDone("practice", o)') + Cardinality(EndedWith(o)'))
  BY DEF TallyInv
<1>1. /\ CallsDone("practice", o) \in SUBSET HostCalls /\ CallsDone("practice", o)' \in SUBSET HostCalls
      /\ CallsDone("practice", o) \subseteq CallsDone("practice", o)'
      /\ o # out => CallsDone("practice", o)' = CallsDone("practice", o)
      /\ o = out => /\ c \in CallsDone("practice", o)' \ CallsDone("practice", o)
                    /\ CallsDone("practice", o)' = CallsDone("practice", o) \cup {c}
  BY DEF CallsDone, Practised
<1>2. /\ Cardinality(CallsDone("practice", o)) \in Nat
      /\ o # out => Cardinality(CallsDone("practice", o)') = Cardinality(CallsDone("practice", o))
      /\ o = out => Cardinality(CallsDone("practice", o)') = Cardinality(CallsDone("practice", o)) + 1
  BY <1>1, CallsCounted
<1>3. EndedWith(o) \in SUBSET SessionIds /\ EndedWith(o)' \in SUBSET SessionIds /\ EndedWith(o) \subseteq EndedWith(o)'
  BY DEF EndedWith
<1>4. Cardinality(EndedWith(o)) \in Nat /\ Cardinality(EndedWith(o)') \in Nat
      /\ Cardinality(EndedWith(o)) <= Cardinality(EndedWith(o)')
  BY <1>3, SessionsCounted
<1>5. Before(o) \in Nat
  BY SessionsAssumption DEF Before
<1>6. tally[o] \in (Before(o) + Cardinality(CallsDone("practice", o)))
                     ..(Before(o) + Cardinality(CallsDone("practice", o)) + Cardinality(EndedWith(o)))
  BY DEF TallyInv
<1> HIDE DEF out
<1>7. tally[o] \in Nat /\ tally'[o] = IF o = out THEN tally[o] + 1 ELSE tally[o]
  BY <1>0, <1>a
<1>8. CASE o = out
  BY <1>2, <1>4, <1>5, <1>6, <1>7, <1>8
<1>9. CASE o # out
  BY <1>2, <1>4, <1>5, <1>6, <1>7, <1>9
<1> QED BY <1>8, <1>9

\* An end that credits the guide adds one to its outcome, and its session to those
\* that ended with it.
LEMMA TallyFinished ==
    ASSUME Recorded, TallyInv, NEW id \in RequestIds, CommitEnd(id), ~UNCHANGED <<sessions, receipts, tally, suggestions>>
    PROVE  TallyInv'
<1> DEFINE c == id[1]
           h == requests[id].session
           counted == IF sessions[h].used /\ Outcome[c] \in DOMAIN tally
                      THEN [tally EXCEPT ![Outcome[c]] = @ + 1] ELSE tally
<1>1. /\ h \in SessionIds /\ c \in HostCalls /\ Kind[c] = "end"
      /\ sessions[h].status = "active"
      /\ \A g \in SessionIds \ {h} : sessions'[g] = sessions[g]
      /\ sessions'[h].status = "ended" /\ sessions'[h].outcome = Outcome[c]
      /\ sessions'[h].used = sessions[h].used
      /\ \A d \in HostCalls \ {c} : receipts'[d] = receipts[d]
      /\ tally' = counted
  BY FinishEffect
<1>2. SessionsTypeOK /\ tally \in [{"success", "failure"} -> Nat]
  BY DEF Recorded, SessionsTypeOK
<1> HIDE DEF c, h, counted
<1>3. \A o \in {"success", "failure"} : EndedWith(o) \subseteq EndedWith(o)'
  <2>1. \A g \in SessionIds : sessions[g].status = "ended" => g # h
    BY <1>1
  <2> QED BY <1>1, <2>1, EndedKept
<1>4. \A d \in HostCalls : Kind[d] = "practice" => (receipts'[d].done <=> receipts[d].done)
  BY <1>1
<1>5. CASE ~(sessions[h].used /\ Outcome[c] \in DOMAIN tally)
  BY <1>1, <1>2, <1>3, <1>4, <1>5, TallyKept DEF counted
<1>6. CASE sessions[h].used /\ Outcome[c] \in DOMAIN tally
  <2> SUFFICES ASSUME NEW o \in {"success", "failure"}
             PROVE  tally'[o] \in (Before(o) + Cardinality(CallsDone("practice", o)'))
                     ..(Before(o) + Cardinality(CallsDone("practice", o)') + Cardinality(EndedWith(o)'))
    BY DEF TallyInv
  <2>1. CallsDone("practice", o)' = CallsDone("practice", o) /\ CallsDone("practice", o) \in SUBSET HostCalls
    BY <1>4 DEF CallsDone
  <2>2. EndedWith(o) \in SUBSET SessionIds /\ EndedWith(o)' \in SUBSET SessionIds /\ EndedWith(o) \subseteq EndedWith(o)'
    <3>1. EndedWith(o) \subseteq EndedWith(o)'
      BY <1>3
    <3> QED BY <3>1 DEF EndedWith
  <2>3. Cardinality(EndedWith(o)) \in Nat /\ Cardinality(EndedWith(o)') \in Nat
        /\ Cardinality(EndedWith(o)) <= Cardinality(EndedWith(o)')
        /\ \A g \in EndedWith(o)' \ EndedWith(o) : Cardinality(EndedWith(o)') >= Cardinality(EndedWith(o)) + 1
    BY <2>2, SessionsCounted
  <2>b. o = Outcome[c] => h \in EndedWith(o)' \ EndedWith(o)
    BY <1>1, <1>6 DEF EndedWith
  <2>a. ASSUME o = Outcome[c] PROVE Cardinality(EndedWith(o)') >= Cardinality(EndedWith(o)) + 1
    BY <2>3, <2>a, <2>b
  <2>4. Cardinality(CallsDone("practice", o)) \in Nat
    BY <2>1, CallsCounted
  <2>5. Before(o) \in Nat
    BY SessionsAssumption DEF Before
  <2>6. tally[o] \in (Before(o) + Cardinality(CallsDone("practice", o)))
                     ..(Before(o) + Cardinality(CallsDone("practice", o)) + Cardinality(EndedWith(o)))
    BY DEF TallyInv
  <2>7. tally[o] \in Nat /\ tally'[o] = IF o = Outcome[c] THEN tally[o] + 1 ELSE tally[o]
    BY <1>1, <1>2, <1>6 DEF counted
  <2>8. CASE o = Outcome[c]
    BY <2>1, <2>3, <2>a, <2>4, <2>5, <2>6, <2>7, <2>8
  <2>9. CASE o # Outcome[c]
    BY <2>1, <2>3, <2>4, <2>5, <2>6, <2>7, <2>9
  <2> QED BY <2>8, <2>9
<1> QED BY <1>5, <1>6

\* Only an end files a suggestion, for the session it ends.
LEMMA SuggestFinished ==
    ASSUME Recorded, SuggestInv, NEW id \in RequestIds, CommitEnd(id), ~UNCHANGED <<sessions, receipts, tally, suggestions>>
    PROVE  SuggestInv'
<1> DEFINE c == id[1]
           h == requests[id].session
           counted == IF sessions[h].used /\ Outcome[c] \in DOMAIN tally
                      THEN [tally EXCEPT ![Outcome[c]] = @ + 1] ELSE tally
           entry == [session |-> h, status |-> "pending"]
<1>1. /\ h \in SessionIds
      /\ sessions[h].status = "active"
      /\ \A g \in SessionIds \ {h} : sessions'[g] = sessions[g]
      /\ sessions'[h].status = "ended"
      /\ suggestions' = Filed(h, Outcome[c], counted)
  BY FinishEffect
<1>2. suggestions \in Seq(Suggestion)
  BY DEF Recorded, SessionsTypeOK
<1>3. \A n \in DOMAIN suggestions : suggestions[n].session \in SessionIds /\ suggestions[n].session # h
  <2>1. \A n \in DOMAIN suggestions : suggestions[n] \in Suggestion
    BY <1>2
  <2> QED BY <2>1, <1>1 DEF SuggestInv, Suggestion
<1>4. suggestions' = suggestions \/ suggestions' = Append(suggestions, entry)
  BY <1>1 DEF Filed
<1>5. entry \in Suggestion /\ entry.session = h
  BY <1>1 DEF Suggestion
<1> HIDE DEF c, h, counted, entry
<1>6. CASE suggestions' = suggestions
  BY <1>1, <1>3, <1>6 DEF SuggestInv
<1>7. CASE suggestions' = Append(suggestions, entry)
  <2> DEFINE n == Len(suggestions) + 1
  <2>1. /\ n \notin DOMAIN suggestions
        /\ DOMAIN suggestions' = DOMAIN suggestions \cup {n}
        /\ \A i \in DOMAIN suggestions : suggestions'[i] = suggestions[i]
        /\ suggestions'[n] = entry
    BY <1>2, <1>5, <1>7, AppendFacts
  <2> HIDE DEF n
  <2> QED BY <1>1, <1>3, <1>5, <2>1 DEF SuggestInv
<1> QED BY <1>4, <1>6, <1>7

LEMMA StepKeepsCounts ==
    Recorded /\ TallyInv /\ SuggestInv /\ [SessionsNext]_svars => TallyInv' /\ SuggestInv'
<1> SUFFICES ASSUME Recorded, TallyInv, SuggestInv, [SessionsNext]_svars PROVE TallyInv' /\ SuggestInv'
  OBVIOUS
<1>0. SessionsTypeOK
  BY DEF Recorded
<1>1. CASE UNCHANGED <<sessions, receipts, tally, suggestions>>
  BY <1>1 DEF TallyInv, SuggestInv, CallsDone, EndedWith
<1>2. ASSUME \A h \in SessionIds : sessions[h].status = "ended" =>
              /\ sessions'[h].status = "ended" /\ sessions'[h].outcome = sessions[h].outcome
              /\ sessions[h].used => sessions'[h].used,
             DOMAIN suggestions' = DOMAIN suggestions,
             \A n \in DOMAIN suggestions : suggestions'[n].session = suggestions[n].session
      PROVE  /\ \A o \in {"success", "failure"} : EndedWith(o) \subseteq EndedWith(o)'
             /\ SuggestInv'
  <2>1. \A o \in {"success", "failure"} : EndedWith(o) \subseteq EndedWith(o)'
    BY <1>2, EndedKept
  <2>2. \A n \in DOMAIN suggestions : suggestions[n].session \in SessionIds
    <3>1. suggestions \in Seq(Suggestion)
      BY <1>0 DEF SessionsTypeOK
    <3>2. \A n \in DOMAIN suggestions : suggestions[n] \in Suggestion
      BY <3>1
    <3> QED BY <3>2 DEF Suggestion
  <2> QED BY <1>2, <2>1, <2>2 DEF SuggestInv
<1>3. ASSUME NEW id \in RequestIds, CommitStart(id) PROVE TallyInv' /\ SuggestInv'
  <2>0. UNCHANGED <<tally, suggestions>>
    BY <1>3, StartEffect
  <2>1. CASE ~UNCHANGED <<sessions, receipts>>
    <3>1. /\ sessions[id].status = "absent" /\ Kind[id[1]] = "start"
          /\ \A h \in SessionIds \ {id} :
                       /\ sessions'[h].used = sessions[h].used
                       /\ sessions[h].status # "active" =>
                             sessions'[h].status = sessions[h].status /\ sessions'[h].outcome = sessions[h].outcome
          /\ \A d \in HostCalls \ {id[1]} : receipts'[d] = receipts[d]
      BY <1>3, <2>1, StartEffect
    <3>2. \A h \in SessionIds : sessions[h].status = "ended" =>
              /\ sessions'[h].status = "ended" /\ sessions'[h].outcome = sessions[h].outcome
              /\ sessions[h].used => sessions'[h].used
      BY <3>1
    <3>3. \A d \in HostCalls : Kind[d] = "practice" => (receipts'[d].done <=> receipts[d].done)
      BY <3>1
    <3>4. (\A o \in {"success", "failure"} : EndedWith(o) \subseteq EndedWith(o)') /\ SuggestInv'
      BY <1>2, <2>0, <3>2
    <3> QED BY <1>0, <2>0, <3>3, <3>4, TallyKept
  <2> QED BY <1>1, <2>0, <2>1
<1>4. ASSUME NEW id \in RequestIds, CommitAttempt(id) PROVE TallyInv' /\ SuggestInv'
  <2>0. UNCHANGED <<tally, suggestions>>
    BY <1>4, AttemptEffect
  <2>1. CASE ~UNCHANGED <<sessions, receipts>>
    <3> DEFINE h == requests[id].session
               c == id[1]
    <3>1. /\ h \in SessionIds /\ c \in HostCalls /\ Kind[c] = "attempt"
          /\ \A g \in SessionIds \ {h} : sessions'[g] = sessions[g]
          /\ sessions'[h].status = sessions[h].status
          /\ sessions'[h].outcome = sessions[h].outcome
          /\ sessions'[h].used = sessions[h].used
          /\ \A d \in HostCalls \ {c} : receipts'[d] = receipts[d]
      BY <1>4, <2>1, AttemptEffect
    <3> HIDE DEF h, c
    <3>2. \A g \in SessionIds : sessions[g].status = "ended" =>
              /\ sessions'[g].status = "ended" /\ sessions'[g].outcome = sessions[g].outcome
              /\ sessions[g].used => sessions'[g].used
      BY <3>1
    <3>3. \A d \in HostCalls : Kind[d] = "practice" => (receipts'[d].done <=> receipts[d].done)
      BY <3>1
    <3>4. (\A o \in {"success", "failure"} : EndedWith(o) \subseteq EndedWith(o)') /\ SuggestInv'
      BY <1>2, <2>0, <3>2
    <3> QED BY <1>0, <2>0, <3>3, <3>4, TallyKept
  <2> QED BY <1>1, <2>0, <2>1
<1>5. ASSUME NEW id \in RequestIds, CommitEnd(id) PROVE TallyInv' /\ SuggestInv'
  BY <1>1, <1>5, TallyFinished, SuggestFinished
<1>6. ASSUME NEW id \in RequestIds, Quietly(id) PROVE TallyInv' /\ SuggestInv'
  <2> DEFINE c == id[1]
  <2>0. c \in HostCalls
    BY DEF RequestIds
  <2>1. Touches
    BY <1>6, QuietTyped
  <2>2. Plain \/ Practised(c) \/ Boosts(c) \/ Responds(c)
    BY <1>6, QuietEffect
  <2> HIDE DEF c
  <2>3. DOMAIN suggestions' = DOMAIN suggestions
        /\ \A n \in DOMAIN suggestions : suggestions'[n].session = suggestions[n].session
    BY <2>2 DEF Plain, Practised, Boosts, Responds
  <2>4. \A h \in SessionIds : sessions[h].status = "ended" =>
              /\ sessions'[h].status = "ended" /\ sessions'[h].outcome = sessions[h].outcome
              /\ sessions[h].used => sessions'[h].used
    BY <2>1 DEF Touches
  <2>5. (\A o \in {"success", "failure"} : EndedWith(o) \subseteq EndedWith(o)') /\ SuggestInv'
    BY <1>2, <2>3, <2>4
  <2>6. CASE Practised(c)
    BY <1>0, <2>0, <2>5, <2>6, TallyPractised
  <2>7. CASE UNCHANGED tally /\ \A d \in HostCalls : Kind[d] = "practice" => (receipts'[d].done <=> receipts[d].done)
    BY <1>0, <2>5, <2>7, TallyKept
  <2>8. Plain \/ Boosts(c) \/ Responds(c) => <2>7!1
    BY DEF Plain, Boosts, Responds, SameDone
  <2> QED BY <2>2, <2>5, <2>6, <2>7, <2>8
<1>7. CASE UNCHANGED svars
  BY <1>1, <1>7 DEF svars
<1>8. CASE SessionsNext
  <2>1. ASSUME NEW ch \in HostChannels, Send(ch) \/ Resend(ch) \/ GiveUp(ch)
        PROVE UNCHANGED <<sessions, receipts, tally, suggestions>>
    BY <2>1, HostRecorded DEF store
  <2>2. CASE Kill
    BY <2>2, <1>1, KillRecorded DEF store
  <2> QED BY <1>8, <1>1, <1>3, <1>4, <1>5, <1>6, <2>1, <2>2, Steps4
<1> QED BY <1>7, <1>8

LEMMA CountsInit == SessionsInit => AccessCountedOnce /\ TallyInv /\ SuggestInv
<1> SUFFICES ASSUME SessionsInit PROVE AccessCountedOnce /\ TallyInv /\ SuggestInv
  OBVIOUS
<1>1. ASSUME NEW h \in SessionIds PROVE DOMAIN sessions[h].attempts = {} /\ sessions[h].status = "absent"
  BY RecordedInit DEF Recorded, ExistInv, SessionsInit, Absent
<1>2. \A c \in HostCalls : ~receipts[c].done
  BY DEF SessionsInit, NoReceipt
<1>3. DOMAIN suggestions = {}
  BY EmptyDomain DEF SessionsInit
<1>4. ASSUME NEW o \in {"success", "failure"}
      PROVE tally[o] = Before(o) /\ CallsDone("practice", o) = {} /\ EndedWith(o) = {}
  BY <1>1, <1>2 DEF SessionsInit, Before, CallsDone, EndedWith
<1>5. TallyInv
  <2>1. Failures \in Nat /\ Cardinality({}) = 0
    BY SessionsAssumption, FS_EmptySet
  <2> QED BY <1>4, <2>1 DEF TallyInv, Before
<1> QED BY <1>1, <1>3, <1>5 DEF AccessCountedOnce, SuggestInv

\* However often a call is sent, and whichever daemon answers it, its attempt is
\* there once, under the number of its receipt; a guide counts each practice once
\* and each session that ended at most once; a suggestion is filed once by an
\* end; and no attempt has more accesses than calls that may count one.
THEOREM RecordedExactlyOnce == SessionsSpec => []RecordedOnce
<1> DEFINE Counted == OnceInv /\ AccessCountedOnce /\ TallyInv /\ SuggestInv
<1>1. SessionsInit => Counted
  BY OnceInit, CountsInit
<1>2. Recorded /\ Counted /\ [SessionsNext]_svars => Counted'
  BY StepKeepsOnce, StepKeepsAccesses, StepKeepsCounts
<1>3. TallyInv /\ SuggestInv => OutcomeCountedOnce
  BY DEF TallyInv, SuggestInv, OutcomeCountedOnce, Before
<1>4. Recorded /\ Counted => RecordedOnce
  BY <1>3, OnceImplies DEF RecordedOnce
<1> HIDE DEF Counted
<1> QED BY RecordedInit, RecordedKept, <1>1, <1>2, <1>4, PTL DEF SessionsSpec
=============================================================================
