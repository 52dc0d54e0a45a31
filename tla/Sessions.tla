------------------------------ MODULE Sessions ------------------------------
(***************************************************************************)
(* Sessions: the canonical records, attempts, guide counts and suggestions *)
(* of the store, the receipts of the calls that change them, and the       *)
(* registry that routes a channel to its session.                          *)
(*                                                                         *)
(* A host works through its channel's program one call at a time.  A call  *)
(* whose connection dies is sent again (a second request, while the first  *)
(* may still be executing) or given up as uncertain.  A handler reads the  *)
(* registry and the store before its transaction; every step between two   *)
(* of its accesses is an action, every transaction is one action (they are *)
(* serializable) and is durable when it returns, by its barrier.           *)
(*                                                                         *)
(* Abstracted: texts, redaction, time, preloaded memories and their boost  *)
(* (a command with a receipt of its own, see Retry), the decay of attempt  *)
(* confidence, lessons.  There is one guide, the one that is practised.    *)
(***************************************************************************)
EXTENDS Integers, Sequences, FiniteSets

CONSTANTS HostChannels, HostCalls,
          Kind,       \* call -> "start", "practice", "attempt", "end", "respond"
          Outcome,    \* call -> what the host reports with it
          Program,    \* channel -> the calls of its host, in order
          Failures,   \* failures of the guide before the first call
          MaxSends,   \* requests of one call
          MaxHostFaults   \* resends, give-ups and kills together

Reports(kind) == CASE kind = "practice" -> {"success", "failure"}
                   [] kind = "attempt" -> {"rejected", "promising"}
                   [] kind = "end" -> {"success", "failure", "abandoned"}
                   [] kind = "respond" -> {"accepted", "dismissed"}
                   [] OTHER -> {"none"}

\* A call is made on one channel.
MadeOn(c, ch) == \E i \in DOMAIN Program[ch] : Program[ch][i] = c

ASSUME SessionsAssumption ==
    /\ IsFiniteSet(HostCalls) /\ {Failures, MaxSends, MaxHostFaults} \subseteq Nat /\ MaxSends > 0
    /\ \A c \in HostCalls :
          /\ Kind[c] \in {"start", "practice", "attempt", "end", "respond"}
          /\ Outcome[c] \in Reports(Kind[c])
          /\ \E ch \in HostChannels : MadeOn(c, ch)
    /\ \A ch \in HostChannels : Program[ch] \in Seq(HostCalls)
    /\ \A ch, other \in HostChannels, c \in HostCalls :
          MadeOn(c, ch) /\ MadeOn(c, other) => ch = other

VARIABLES sessions, receipts, tally, suggestions, bound, saved,
          requests, told, turn, faults

svars == <<sessions, receipts, tally, suggestions, bound, saved,
           requests, told, turn, faults>>
store == <<sessions, receipts, tally, suggestions>>
registry == <<bound, saved>>
hosts == <<told, turn, faults>>

RequestIds == HostCalls \X (1..MaxSends)
SessionIds == {id \in RequestIds : Kind[id[1]] = "start"}
NoSession == <<>>
ChannelOf(c) == CHOOSE ch \in HostChannels : MadeOn(c, ch)

Steps == {"unsent", "received", "routed", "committed", "recorded", "bound", "finished"}
Attempt == [call : HostCalls, outcome : {"rejected", "promising"}, accesses : Nat]
Session == [status : {"absent", "active", "ended", "abandoned"},
            channel : HostChannels, attempts : Seq(Attempt), used : BOOLEAN,
            outcome : {"none", "success", "failure", "abandoned"}]
Receipt == [done : BOOLEAN, session : SessionIds \cup {NoSession}, seq : Nat,
            frozen : BOOLEAN, boosted : BOOLEAN]
Request == [step : Steps, session : SessionIds \cup {NoSession},
            targets : SUBSET (SessionIds \X Nat)]
Suggestion == [session : SessionIds, status : {"pending", "accepted", "dismissed"}]

SessionsTypeOK ==
    /\ sessions \in [SessionIds -> Session]
    /\ receipts \in [HostCalls -> Receipt]
    /\ tally \in [{"success", "failure"} -> Nat]
    /\ suggestions \in Seq(Suggestion)
    /\ bound \in [HostChannels -> SessionIds \cup {NoSession}]
    /\ saved \in [HostChannels -> SessionIds \cup {NoSession}]
    /\ requests \in [RequestIds -> Request]
    /\ told \in [HostCalls -> {"nothing", "success", "error", "uncertain"}]
    /\ turn \in [HostChannels -> Nat \ {0}]
    /\ faults \in 0..MaxHostFaults

Unsent == [step |-> "unsent", session |-> NoSession, targets |-> {}]
NoReceipt == [done |-> FALSE, session |-> NoSession, seq |-> 0,
              frozen |-> FALSE, boosted |-> FALSE]
Absent(ch) == [status |-> "absent", channel |-> ch, attempts |-> <<>>,
               used |-> FALSE, outcome |-> "none"]

\* Mutant: a session created without its channel.
CreatedUnrouted(ch) == [Absent(ch) EXCEPT !.status = "active", !.channel = "none"]

Created(ch) == [Absent(ch) EXCEPT !.status = "active"]

SessionsInit ==
    /\ sessions = [h \in SessionIds |-> Absent(ChannelOf(h[1]))]
    /\ receipts = [c \in HostCalls |-> NoReceipt]
    /\ tally = [o \in {"success", "failure"} |-> IF o = "failure" THEN Failures ELSE 0]
    /\ suggestions = <<>>
    /\ bound = [ch \in HostChannels |-> NoSession]
    /\ saved = bound
    /\ requests = [id \in RequestIds |-> Unsent]
    /\ told = [c \in HostCalls |-> "nothing"]
    /\ turn = [ch \in HostChannels |-> 1]
    /\ faults = 0

(***************************************************************************)
(* Hosts.                                                                  *)
(***************************************************************************)
Sent(c) == Cardinality({n \in 1..MaxSends : requests[<<c, n>>].step # "unsent"})
Current(ch) == Program[ch][turn[ch]]
Waiting(ch) == turn[ch] <= Len(Program[ch])

HostFault == faults < MaxHostFaults /\ faults' = faults + 1

Deliver(id) == requests' = [requests EXCEPT ![id].step = "received"]

Send(ch) ==
    /\ Waiting(ch) /\ Sent(Current(ch)) = 0
    /\ Deliver(<<Current(ch), 1>>)
    /\ UNCHANGED <<store, registry, hosts>>

\* The connection died: the envelope is sent again over a new one.
Resend(ch) ==
    /\ Waiting(ch) /\ Sent(Current(ch)) \in 1..(MaxSends - 1)
    /\ HostFault
    /\ Deliver(<<Current(ch), Sent(Current(ch)) + 1>>)
    /\ UNCHANGED <<store, registry, told, turn>>

GiveUp(ch) ==
    /\ Waiting(ch) /\ Sent(Current(ch)) > 0
    /\ HostFault
    /\ told' = [told EXCEPT ![Current(ch)] = "uncertain"]
    /\ turn' = [turn EXCEPT ![ch] = @ + 1]
    /\ UNCHANGED <<store, registry, requests>>

(***************************************************************************)
(* Requests.  Only the last one sent has a connection to answer over.      *)
(***************************************************************************)
At(id, step) == requests[id].step = step
GoTo(id, step) == requests' = [requests EXCEPT ![id].step = step]

Answer(id, answer) ==
    LET c == id[1]
        ch == ChannelOf(c)
        heard == id[2] = Sent(c) /\ told[c] = "nothing"
    IN  /\ requests' = [requests EXCEPT ![id] = [Unsent EXCEPT !.step = "finished"]]
        /\ told' = IF heard THEN [told EXCEPT ![c] = answer] ELSE told
        /\ turn' = IF heard THEN [turn EXCEPT ![ch] = @ + 1] ELSE turn
        /\ UNCHANGED faults

CanEnd(h) == sessions[h].status = "active"

\* Mutant: bindings that are not kept by channel.
ResolvedAnywhere(ch) ==
    IF \E c \in HostChannels : bound[c] # NoSession /\ CanEnd(bound[c])
    THEN bound[CHOOSE c \in HostChannels : bound[c] # NoSession /\ CanEnd(bound[c])]
    ELSE NoSession

\* The session the channel is bound to, when it can still end.
Resolved(ch) ==
    IF bound[ch] # NoSession /\ CanEnd(bound[ch]) THEN bound[ch] ELSE NoSession

\* Dead ends of earlier sessions, to be boosted by the start that recalls them.
DeadEnds ==
    UNION {{h} \X {i \in DOMAIN sessions[h].attempts :
                      sessions[h].attempts[i].outcome = "rejected"} : h \in SessionIds}

(***************************************************************************)
(* session_start.                                                          *)
(***************************************************************************)
PlanStart(id) ==
    /\ Kind[id[1]] = "start" /\ At(id, "received")
    /\ requests' = [requests EXCEPT ![id] =
                        [step |-> "routed", session |-> Resolved(ChannelOf(id[1])),
                         targets |-> DeadEnds]]
    /\ UNCHANGED <<store, registry, hosts>>

Abandoned(s, h) ==
    IF h # NoSession /\ s[h].status = "active"
    THEN [s EXCEPT ![h].status = "abandoned", ![h].outcome = "abandoned"] ELSE s

\* A recorded call answers what it has frozen, or goes on from its receipt.
Frozen(c) == receipts[c].done /\ receipts[c].frozen
Unfrozen(c) == receipts[c].done /\ ~receipts[c].frozen

\* A replay takes the recorded session; with its answer frozen it is done.
CommitStart(id) ==
    LET c == id[1]
    IN  /\ Kind[c] = "start" /\ At(id, "routed")
        /\ UNCHANGED <<tally, suggestions, registry>>
        /\ \/ /\ Frozen(c)
              /\ Answer(id, "success")
              /\ UNCHANGED <<sessions, receipts>>
           \/ /\ Unfrozen(c)
              /\ requests' = [requests EXCEPT ![id].step = "committed",
                                              ![id].session = receipts[c].session]
              /\ UNCHANGED <<sessions, receipts, hosts>>
           \/ /\ ~receipts[c].done
              /\ sessions' = [Abandoned(sessions, requests[id].session)
                                 EXCEPT ![id] = Created(ChannelOf(c))]
              /\ receipts' = [receipts EXCEPT ![c] =
                                 [NoReceipt EXCEPT !.done = TRUE, !.session = id]]
              /\ requests' = [requests EXCEPT ![id].step = "committed", ![id].session = id]
              /\ UNCHANGED hosts

BindSession(id) ==
    /\ Kind[id[1]] = "start" /\ At(id, "committed")
    /\ bound' = [bound EXCEPT ![ChannelOf(id[1])] = requests[id].session]
    /\ GoTo(id, "bound")
    /\ UNCHANGED <<store, saved, hosts>>

\* The registry is written before the answer: tmp file, flush, rename.
PersistBinding(id) ==
    /\ Kind[id[1]] = "start" /\ At(id, "bound")
    /\ saved' = bound
    /\ GoTo(id, "recorded")
    /\ UNCHANGED <<store, bound, hosts>>

Accessed(s, targets) ==
    [h \in SessionIds |->
        [s[h] EXCEPT !.attempts =
            [i \in DOMAIN s[h].attempts |->
                IF <<h, i>> \in targets
                THEN [s[h].attempts[i] EXCEPT !.accesses = @ + 1] ELSE s[h].attempts[i]]]]

\* Mutant: the boost without its flag in the receipt.
ClaimedWhatever(c) == FALSE

Claimed(c) == receipts[c].boosted

\* The boosts and the flag that claims them commit together; then the answer
\* is frozen, unless a copy of the call has frozen its own.
ClaimBoost(id) ==
    LET c == id[1]
    IN  /\ Kind[c] = "start" /\ At(id, "recorded") /\ requests[id].targets # {}
        /\ IF Claimed(c) THEN UNCHANGED <<sessions, receipts>>
           ELSE /\ sessions' = Accessed(sessions, requests[id].targets)
                /\ receipts' = [receipts EXCEPT ![c].boosted = TRUE]
        /\ requests' = [requests EXCEPT ![id].targets = {}]
        /\ UNCHANGED <<tally, suggestions, registry, hosts>>

Freeze(id) ==
    LET c == id[1]
    IN  /\ Kind[c] \in {"start", "attempt", "end"}
        /\ At(id, "recorded") /\ requests[id].targets = {}
        /\ receipts' = [receipts EXCEPT ![c].frozen = TRUE]
        /\ Answer(id, "success")
        /\ UNCHANGED <<sessions, tally, suggestions, registry>>

(***************************************************************************)
(* session_attempt: the receipt first, then the route, then the record.    *)
(***************************************************************************)
RouteAttempt(id) ==
    LET c == id[1]
        h == Resolved(ChannelOf(c))
    IN  /\ Kind[c] = "attempt" /\ At(id, "received")
        /\ UNCHANGED <<store, registry>>
        /\ \/ Frozen(c) /\ Answer(id, "success")
           \/ Unfrozen(c) /\ GoTo(id, "recorded") /\ UNCHANGED hosts
           \/ ~receipts[c].done /\ h = NoSession /\ Answer(id, "error")
           \/ /\ ~receipts[c].done /\ h # NoSession
              /\ requests' = [requests EXCEPT ![id].step = "routed", ![id].session = h]
              /\ UNCHANGED hosts

\* Mutant: a transaction that trusts the route it was given.
WritableStill(h) == TRUE

\* A session is looked at again in the transaction that writes it.
Writable(h) == CanEnd(h)

\* Mutant: the receipt of an attempt is looked up before the transaction only.
AttemptDoneNever(c) == FALSE

AttemptDone(c) == receipts[c].done

CommitAttempt(id) ==
    LET c == id[1]
        h == requests[id].session
        n == Len(sessions[h].attempts) + 1
    IN  /\ Kind[c] = "attempt" /\ At(id, "routed")
        /\ UNCHANGED <<tally, suggestions, registry>>
        /\ \/ AttemptDone(c) /\ GoTo(id, "recorded") /\ UNCHANGED <<sessions, receipts, hosts>>
           \/ /\ ~AttemptDone(c) /\ ~Writable(h)
              /\ Answer(id, "error")
              /\ UNCHANGED <<sessions, receipts>>
           \/ /\ ~AttemptDone(c) /\ Writable(h)
              /\ sessions' = [sessions EXCEPT ![h].attempts =
                     Append(@, [call |-> c, outcome |-> Outcome[c], accesses |-> 0])]
              /\ receipts' = [receipts EXCEPT ![c] =
                     [NoReceipt EXCEPT !.done = TRUE, !.session = h, !.seq = n]]
              /\ GoTo(id, "recorded") /\ UNCHANGED hosts

(***************************************************************************)
(* guide_practice, as a session sees it: the count of the guide, the link  *)
(* in the same transaction, and the link once more after it.               *)
(***************************************************************************)
RoutePractice(id) ==
    /\ Kind[id[1]] = "practice" /\ At(id, "received")
    /\ requests' = [requests EXCEPT ![id].step = "routed",
                                    ![id].session = Resolved(ChannelOf(id[1]))]
    /\ UNCHANGED <<store, registry, hosts>>

Linked(s, h) == IF h = NoSession THEN s ELSE [s EXCEPT ![h].used = TRUE]

\* Mutant: a count that is not guarded by its receipt.
PracticeDoneNever(c) == FALSE

PracticeDone(c) == receipts[c].done

CommitPractice(id) ==
    LET c == id[1]
    IN  /\ Kind[c] = "practice" /\ At(id, "routed")
        /\ IF PracticeDone(c) THEN UNCHANGED <<sessions, receipts, tally>>
           ELSE /\ tally' = [tally EXCEPT ![Outcome[c]] = @ + 1]
                /\ sessions' = Linked(sessions, requests[id].session)
                /\ receipts' = [receipts EXCEPT ![c].done = TRUE]
        /\ GoTo(id, "committed")
        /\ UNCHANGED <<suggestions, registry, hosts>>

LinkPractice(id) ==
    /\ Kind[id[1]] = "practice" /\ At(id, "committed")
    /\ sessions' = Linked(sessions, requests[id].session)
    /\ Answer(id, "success")
    /\ UNCHANGED <<receipts, tally, suggestions, registry>>

(***************************************************************************)
(* session_end: the route is the binding, live or not.                     *)
(***************************************************************************)
RouteEnd(id) ==
    LET h == bound[ChannelOf(id[1])]
    IN  /\ Kind[id[1]] = "end" /\ At(id, "received")
        /\ UNCHANGED <<store, registry>>
        /\ \/ h = NoSession /\ Answer(id, "error")
           \/ /\ h # NoSession
              /\ requests' = [requests EXCEPT ![id].step = "routed", ![id].session = h]
              /\ UNCHANGED hosts

\* The warning a failure leaves behind: three reports, fewer than two in five
\* of them good.
Failing(t) == LET total == t["success"] + t["failure"]
              IN  total >= 3 /\ 5 * t["success"] < 2 * total

Filed(h, outcome, counted) ==
    IF sessions[h].used /\ outcome = "failure" /\ Failing(counted)
    THEN Append(suggestions, [session |-> h, status |-> "pending"])
    ELSE suggestions

CommitEnd(id) ==
    LET c == id[1]
        h == requests[id].session
        counted == IF sessions[h].used /\ Outcome[c] \in DOMAIN tally
                   THEN [tally EXCEPT ![Outcome[c]] = @ + 1] ELSE tally
    IN  /\ Kind[c] = "end" /\ At(id, "routed")
        /\ UNCHANGED registry
        /\ \/ Frozen(c) /\ Answer(id, "success") /\ UNCHANGED store
           \/ Unfrozen(c) /\ GoTo(id, "recorded") /\ UNCHANGED <<store, hosts>>
           \/ ~receipts[c].done /\ ~Writable(h) /\ Answer(id, "error") /\ UNCHANGED store
           \/ /\ ~receipts[c].done /\ Writable(h)
              /\ tally' = counted
              /\ suggestions' = Filed(h, Outcome[c], counted)
              /\ sessions' = [sessions EXCEPT ![h].status = "ended", ![h].outcome = Outcome[c]]
              /\ receipts' = [receipts EXCEPT ![c] =
                     [NoReceipt EXCEPT !.done = TRUE, !.session = h]]
              /\ GoTo(id, "recorded") /\ UNCHANGED hosts

(***************************************************************************)
(* suggestion_respond, for any suggestion; an answered one may be answered *)
(* again by another call.                                                  *)
(***************************************************************************)
Related(h, status) ==
    {<<h, i>> : i \in {j \in DOMAIN sessions[h].attempts :
        sessions[h].attempts[j].outcome =
            IF status = "dismissed" THEN "rejected" ELSE "promising"}}

Respond(id) ==
    LET c == id[1]
    IN  /\ Kind[c] = "respond" /\ At(id, "received")
        /\ UNCHANGED <<tally, registry>>
        /\ \/ receipts[c].done /\ Answer(id, "success")
              /\ UNCHANGED <<sessions, receipts, suggestions>>
           \/ /\ ~receipts[c].done /\ suggestions = <<>>
              /\ Answer(id, "error")
              /\ UNCHANGED <<sessions, receipts, suggestions>>
           \/ /\ ~receipts[c].done
              /\ \E n \in DOMAIN suggestions :
                    /\ suggestions' = [suggestions EXCEPT ![n].status = Outcome[c]]
                    /\ sessions' = Accessed(sessions, Related(suggestions[n].session, Outcome[c]))
              /\ receipts' = [receipts EXCEPT ![c].done = TRUE]
              /\ Answer(id, "success")

(***************************************************************************)
(* The daemon is killed and started again: requests end, the registry is   *)
(* what its file says.                                                     *)
(***************************************************************************)
Kill ==
    /\ HostFault
    /\ requests' = [id \in RequestIds |-> IF At(id, "unsent") THEN Unsent
                                   ELSE [Unsent EXCEPT !.step = "finished"]]
    /\ bound' = saved
    /\ UNCHANGED <<store, saved, told, turn>>

Handler(id) ==
    \/ PlanStart(id) \/ CommitStart(id) \/ BindSession(id) \/ PersistBinding(id)
    \/ ClaimBoost(id) \/ Freeze(id)
    \/ RouteAttempt(id) \/ CommitAttempt(id)
    \/ RoutePractice(id) \/ CommitPractice(id) \/ LinkPractice(id)
    \/ RouteEnd(id) \/ CommitEnd(id)
    \/ Respond(id)

SessionsNext ==
    \/ \E ch \in HostChannels : Send(ch) \/ Resend(ch) \/ GiveUp(ch)
    \/ \E id \in RequestIds : Handler(id)
    \/ Kill

SessionsSpec == SessionsInit /\ [][SessionsNext]_svars

(***************************************************************************)
(* Properties.                                                             *)
(***************************************************************************)

Terminal(h) == sessions[h].status \in {"ended", "abandoned"}
CallsOf(s) == [i \in DOMAIN s.attempts |-> s.attempts[i].call]

KeepsTerminal ==
    \A h \in SessionIds : Terminal(h) =>
        /\ sessions'[h].status = sessions[h].status
        /\ sessions'[h].outcome = sessions[h].outcome
        /\ CallsOf(sessions'[h]) = CallsOf(sessions[h])

\* A session that has ended or was abandoned stays so, with its outcome and
\* its attempts, whatever requests were routed to it before: session_end,
\* session_attempt and the abandonment by a later start look at the status
\* again in the transaction that writes.
TerminalIsFinal == [][KeepsTerminal]_svars

Places(c) ==
    UNION {{h} \X {i \in DOMAIN sessions[h].attempts : sessions[h].attempts[i].call = c} :
           h \in SessionIds}

\* A call is recorded as an attempt once, in one session, under the number its
\* receipt has, however often it is sent and wherever its channel is bound by
\* then; a call that is told it succeeded is recorded.
AttemptOnce ==
    \A c \in HostCalls : Kind[c] = "attempt" =>
        /\ Places(c) = IF receipts[c].done THEN {<<receipts[c].session, receipts[c].seq>>} ELSE {}
        /\ told[c] = "success" => receipts[c].done

EndedWith(o) == {h \in SessionIds : sessions[h].status = "ended" /\ sessions[h].outcome = o
                                    /\ sessions[h].used}
CallsDone(kind, o) == {c \in HostCalls : receipts[c].done /\ Kind[c] = kind /\ Outcome[c] = o}

\* What a guide counts is what was reported: one for each practice, at most one
\* for each session that ended with it, and nothing for a request that lost the
\* race; a suggestion is filed by an end, and at most one by each.
OutcomeCountedOnce ==
    /\ \A o \in {"success", "failure"} :
          LET before == IF o = "failure" THEN Failures ELSE 0
              practices == Cardinality(CallsDone("practice", o))
          IN  tally[o] \in (before + practices)..(before + practices + Cardinality(EndedWith(o)))
    /\ \A m, n \in DOMAIN suggestions :
          suggestions[m].session = suggestions[n].session => m = n

\* The access count of an attempt is at most the number of calls that may count
\* it: a start that recalled it, once by the flag in its receipt, and an answer
\* to a suggestion.
AccessCountedOnce ==
    \A h \in SessionIds : \A i \in DOMAIN sessions[h].attempts :
        sessions[h].attempts[i].accesses <=
            Cardinality({c \in HostCalls : receipts[c].boosted})
            + Cardinality({c \in HostCalls : Kind[c] = "respond" /\ receipts[c].done})

\* However often a call is sent, its effects on attempts, on what guides count and
\* on access counts are there once.
RecordedOnce == AttemptOnce /\ OutcomeCountedOnce /\ AccessCountedOnce

\* No attempt and no binding crosses channels, before and after a restart.
ChannelIsolation ==
    /\ \A h \in SessionIds : \A i \in DOMAIN sessions[h].attempts :
          ChannelOf(sessions[h].attempts[i].call) = sessions[h].channel
    /\ \A ch \in HostChannels : \A h \in {bound[ch], saved[ch]} :
          h # NoSession => sessions[h].channel = ch /\ sessions[h].status # "absent"
=============================================================================
