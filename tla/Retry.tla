-------------------------------- MODULE Retry --------------------------------
(***************************************************************************)
(* How a mutating tool call of a host reaches the store exactly once, or   *)
(* is reported as uncertain.                                               *)
(*                                                                         *)
(* The frontend (roundtrip_with_rehandshake and its helpers) sends a call  *)
(* as an envelope that names the store generation and the retry epoch of   *)
(* its connection.  After a transport failure it reconnects, resumes the   *)
(* epoch and sends the same envelope again; after an explicit stale answer *)
(* it handshakes again and sends a fresh one, once.  The daemon passes an  *)
(* envelope through the generation gate and the admission of the epoch,    *)
(* looks for a receipt, and commits effect and receipt in one transaction; *)
(* only then does it flush the journal and answer.  A request whose        *)
(* connection has died goes on executing.  Meanwhile epochs expire and are *)
(* collected, a restore replaces the store under the next generation, an   *)
(* activation moves the generation alone, connections drop and the machine *)
(* loses power.                                                            *)
(*                                                                         *)
(* Abstractions.  One frontend channel, several calls in it; a call is one *)
(* operation, whose tool either is a command (apply) or, for a call of     *)
(* Guides, a guide mutation.  The answer's text, and its frozen copy, are  *)
(* left out.  Time is the expiry of epochs, at any moment.                 *)
(***************************************************************************)
EXTENDS Naturals, FiniteSets

CONSTANTS
    Calls,          \* mutating tool calls
    Guides,         \* those of them that mutate guides
    NoCall,         \* nobody holds the client mutex
    MaxGen,         \* bound on generations
    MaxEpoch,       \* bound on retry epochs
    MaxFaults,      \* bound on dropped connections, failed dials and outages
    MaxRefusals,    \* bound on backpressure and on failing tails
    MaxRestores,    \* bound on restores
    MaxActivations  \* bound on activations of a staged generation

ASSUME RetryAssumption ==
    /\ NoCall \notin Calls
    /\ Guides \subseteq Calls
    /\ {MaxGen, MaxEpoch, MaxFaults, MaxRefusals, MaxRestores, MaxActivations}
            \subseteq Nat
    /\ MaxGen > 0 /\ MaxEpoch > 0

Gens   == 1..MaxGen
Epochs == 1..MaxEpoch
Tries  == {"first", "fresh"}    \* the operation of a call, and the one after a stale answer
Copies == {"sent", "resent"}    \* of the envelope of an operation

\* The key of a receipt (frontend and channel are the same for all).
Key == [gen : Gens, epoch : 0..MaxEpoch, call : Calls, try : Tries]

\* An effect in the store: the key and the copy of the envelope that asked for
\* it, and the generation it met.
Effect == [key : Key, copy : Copies, at : Gens]

VARIABLES
    store,      \* what the daemon's transactions see
    disk,       \* what a power failure leaves of it
    fence,      \* a restore holds the restore lock exclusively
    restores,
    req,        \* the requests the daemon has or had, by call, try and copy
    client,     \* the frontend's connection, epoch and generation
    holder,     \* the call that holds the client mutex
    pc, try,    \* where each call is, and on which operation
    told,       \* what the host was told
    faults, refusals, activations

daemon   == <<store, disk, fence, restores>>
calls    == <<holder, pc, try, told>>
budgets  == <<faults, refusals, activations>>
vars     == <<daemon, req, client, calls, budgets>>

Ids == Calls \X Tries \X Copies

Stages == {"none", "wire", "gated", "admitted", "planned", "tx", "commit",
           "replay", "answered", "lost"}

Answers == {"none", "success", "refused", "staleGeneration", "staleReplay"}

Request == [stage : Stages, gen : Gens, epoch : 0..MaxEpoch, linked : BOOLEAN, answer : Answers]

NoRequest == [stage |-> "none", gen |-> 1, epoch |-> 0, linked |-> FALSE, answer |-> "none"]

Client == [conn : {"none", "up", "dead"}, epoch : 0..MaxEpoch, gen : Gens]

\* Where a call is: each place is one await of the frontend.
Places == {"idle", "begin", "greet", "again", "issue", "send", "wait", "redial", "resume", "done"}

Outcomes == {"nothing", "asked", "success", "refused", "failed", "unknown"}

Store == [gen : Gens, last : 0..MaxEpoch, ns : [Epochs -> {"none", "valid", "expired"}],
          receipts : SUBSET Key, applied : SUBSET Effect, replaced : SUBSET Calls]

TypeOK ==
    /\ store \in Store /\ disk \in Store
    /\ fence \in BOOLEAN /\ restores \in 0..MaxRestores
    /\ req \in [Ids -> Request]
    /\ client \in Client
    /\ holder \in Calls \cup {NoCall}
    /\ pc \in [Calls -> Places]
    /\ try \in [Calls -> Tries]
    /\ told \in [Calls -> Outcomes]
    /\ faults \in 0..MaxFaults /\ refusals \in 0..MaxRefusals
    /\ activations \in 0..MaxActivations

\* Mutant: a store is not given its first generation when it is opened.
UnnumberedStore == [gen |-> 0, last |-> 0, ns |-> [e \in Epochs |-> "none"],
                    receipts |-> {}, applied |-> {}, replaced |-> {}]

EmptyStore == [gen |-> 1, last |-> 0, ns |-> [e \in Epochs |-> "none"],
               receipts |-> {}, applied |-> {}, replaced |-> {}]

Init ==
    /\ store = EmptyStore /\ disk = EmptyStore
    /\ fence = FALSE /\ restores = 0
    /\ req = [id \in Ids |-> NoRequest]
    /\ client = [conn |-> "none", epoch |-> 0, gen |-> 1]
    /\ holder = NoCall
    /\ pc = [k \in Calls |-> "idle"]
    /\ try = [k \in Calls |-> "first"]
    /\ told = [k \in Calls |-> "nothing"]
    /\ faults = 0 /\ refusals = 0 /\ activations = 0

-----------------------------------------------------------------------------
(* The frontend.  A step that talks to the daemon holds the client mutex.  *)

Goto(k, place) == pc' = [pc EXCEPT ![k] = place]

Free == holder = NoCall

Tell(k, outcome) ==
    /\ told' = [told EXCEPT ![k] = outcome]
    /\ Goto(k, "done")
    /\ holder' = NoCall
    /\ UNCHANGED try

Closed == [client EXCEPT !.conn = "none"]

\* connect: a new stream forgets the epoch of the one before.
Connected == [client EXCEPT !.conn = "up", !.epoch = 0]

\* The requests of the connection that is given up lose their reader.
Unlinked == [id \in Ids |-> [req[id] EXCEPT !.linked = FALSE]]

\* The last envelope of the call.
Last(k) == IF req[<<k, try[k], "resent">>].stage # "none"
           THEN <<k, try[k], "resent">> ELSE <<k, try[k], "sent">>

Ask(k) ==
    /\ pc[k] = "idle"
    /\ Goto(k, "begin")
    /\ told' = [told EXCEPT ![k] = "asked"]
    /\ UNCHANGED <<daemon, req, client, holder, try, budgets>>

\* roundtrip_with_rehandshake: a connection, then an epoch, then the request.
Begin(k) ==
    /\ Free /\ pc[k] = "begin"
    /\ IF client.conn = "none"
       THEN client' = Connected /\ Goto(k, "greet")
       ELSE Goto(k, IF client.epoch = 0 THEN "greet" ELSE "send") /\ UNCHANGED client
    /\ UNCHANGED <<daemon, req, holder, try, told, budgets>>

\* handshake_if_needed, with the daemon's generation check (validate_handshake).
Greet(k) ==
    /\ Free /\ pc[k] = "greet"
    /\ IF client.epoch # 0
       THEN Goto(k, "send") /\ UNCHANGED <<client, holder>>
       ELSE LET c == IF client.conn = "none" THEN Connected ELSE client
            IN  /\ c.conn = "up"
                /\ client' = [c EXCEPT !.gen = store.gen]
                /\ Goto(k, IF c.gen = store.gen THEN "issue" ELSE "again")
                /\ holder' = k
    /\ UNCHANGED <<daemon, req, try, told, budgets>>

\* After a mismatch, once more with the adopted generation, on a new stream.
GreetAgain(k) ==
    /\ pc[k] = "again" /\ client.conn = "up"
    /\ IF client.gen = store.gen
       THEN Goto(k, "issue") /\ UNCHANGED <<client, holder, try, told>>
       ELSE client' = Closed /\ Tell(k, "failed")
    /\ UNCHANGED <<daemon, req, budgets>>

\* issue_namespace, under the shared restore lock, made durable at once.  An epoch that
\* nobody is there to hear of stays behind (GreetFails).
Issue(k) ==
    /\ pc[k] = "issue" /\ ~fence /\ store.last < MaxEpoch
    /\ store' = [store EXCEPT !.last = @ + 1, !.ns[store.last + 1] = "valid"]
    /\ disk' = store'
    /\ IF client.conn = "up"
       THEN /\ client' = [client EXCEPT !.epoch = store.last + 1]
            /\ Goto(k, "send") /\ holder' = NoCall
       ELSE Goto(k, "again") /\ UNCHANGED <<client, holder>>
    /\ UNCHANGED <<fence, restores, req, try, told, budgets>>

\* The stream breaks during a handshake: nothing was sent for this operation.
GreetFails(k) ==
    /\ \/ Free /\ pc[k] = "greet" /\ client.epoch = 0
       \/ pc[k] \in {"again", "issue"}
    /\ client.conn = "dead"
    /\ client' = Closed
    /\ Tell(k, "failed")
    /\ UNCHANGED <<daemon, req, budgets>>

\* The listener does not answer: before anything was sent, or after.
DialFails(k) ==
    /\ Free /\ faults < MaxFaults /\ faults' = faults + 1
    /\ \/ /\ pc[k] \in {"begin", "greet"} /\ client.conn = "none"
          /\ Tell(k, "failed") /\ UNCHANGED <<client, req>>
       \/ /\ pc[k] = "redial"
          /\ client' = [Closed EXCEPT !.epoch = 0] /\ req' = Unlinked
          /\ Tell(k, "unknown")
    /\ UNCHANGED <<daemon, refusals, activations>>

\* The envelope goes out, if the stream is alive and has shaken hands.
Send(k) ==
    /\ Free /\ pc[k] = "send"
    /\ req' = [req EXCEPT ![<<k, try[k], "sent">>] =
                 [stage |-> IF client.conn = "up" THEN "wire" ELSE "none",
                  gen |-> client.gen, epoch |-> client.epoch,
                  linked |-> client.conn = "up", answer |-> "none"]]
    /\ IF client.conn = "up"
       THEN Goto(k, "wait") /\ holder' = k
       ELSE Goto(k, "redial") /\ UNCHANGED holder
    /\ UNCHANGED <<daemon, client, try, told, budgets>>

Arrived(k) ==
    /\ pc[k] = "wait" /\ client.conn = "up"
    /\ req[Last(k)].linked /\ req[Last(k)].stage = "answered"

\* An answer for the host: the second stale one of a call is one of them, and
\* every answer to a resent envelope but a stale generation.
Receive(k) ==
    /\ Arrived(k)
    /\ LET answer == req[Last(k)].answer
           resent == Last(k)[3] = "resent"
       IN  /\ \/ answer \in {"success", "refused"}
              \/ answer = "staleReplay" /\ (resent \/ try[k] = "fresh")
              \/ answer = "staleGeneration" /\ ~resent /\ try[k] = "fresh"
           /\ Tell(k, IF answer = "success" THEN "success" ELSE "refused")
    /\ UNCHANGED <<daemon, req, client, budgets>>

\* Mutant: the stale answer to a resent envelope will do too.
RenewableAlways(k) == try[k] = "first"

\* Once per call, and only when the answer is to an envelope sent once.
Renewable(k) == try[k] = "first" /\ Last(k)[3] = "sent"

\* A stale answer on a healthy stream: a fresh operation under a new epoch.
Renew(k) ==
    /\ Arrived(k) /\ Renewable(k)
    /\ req[Last(k)].answer \in {"staleGeneration", "staleReplay"}
    /\ client' = [client EXCEPT !.epoch = 0]
    /\ try' = [try EXCEPT ![k] = "fresh"]
    /\ Goto(k, "greet") /\ holder' = NoCall
    /\ UNCHANGED <<daemon, req, told, budgets>>

\* The generation moved between resume and resend.
StaleResend(k) ==
    /\ Arrived(k) /\ Last(k)[3] = "resent"
    /\ req[Last(k)].answer = "staleGeneration"
    /\ client' = Closed
    /\ Tell(k, "unknown")
    /\ UNCHANGED <<daemon, req, budgets>>

\* Mutant: the client mutex is not released for the reconnection.
RetreatHolding(k) == Goto(k, "redial") /\ UNCHANGED <<holder, try, told>>

Retreat(k) == Goto(k, "redial") /\ holder' = NoCall /\ UNCHANGED <<try, told>>

\* The stream breaks under the request.
Broken(k) ==
    /\ pc[k] = "wait" /\ client.conn = "dead"
    /\ IF Last(k)[3] = "sent"
       THEN Retreat(k)
       ELSE Tell(k, "unknown")
    /\ UNCHANGED <<daemon, req, client, budgets>>

\* resend_after_reconnect: a new stream, the generation of the envelope...
Redial(k) ==
    /\ Free /\ pc[k] = "redial"
    /\ req' = Unlinked
    /\ IF req[<<k, try[k], "sent">>].gen = store.gen
       THEN client' = Connected /\ Goto(k, "resume") /\ holder' = k /\ UNCHANGED <<try, told>>
       ELSE client' = [Closed EXCEPT !.epoch = 0] /\ Tell(k, "unknown")
    /\ UNCHANGED <<daemon, budgets>>

\* ... the epoch of the envelope (resume_namespace takes no lock), the envelope.
Resume(k) ==
    /\ pc[k] = "resume" /\ client.conn = "up"
    /\ LET old == req[<<k, try[k], "sent">>] IN
         IF old.epoch # 0 /\ store.ns[old.epoch] = "valid"
         THEN /\ client' = [client EXCEPT !.epoch = old.epoch]
              /\ req' = [req EXCEPT ![<<k, try[k], "resent">>] =
                           [old EXCEPT !.stage = "wire", !.linked = TRUE, !.answer = "none"]]
              /\ Goto(k, "wait") /\ UNCHANGED <<holder, try, told>>
         ELSE client' = Closed /\ Tell(k, "unknown") /\ UNCHANGED req
    /\ UNCHANGED <<daemon, budgets>>

\* The resuming handshake itself fails: an error that names no unknown outcome.
ResumeFails(k) ==
    /\ pc[k] = "resume" /\ client.conn = "dead"
    /\ client' = Closed
    /\ Tell(k, "failed")
    /\ UNCHANGED <<daemon, req, budgets>>

Frontend(k) ==
    \/ Begin(k) \/ Greet(k) \/ GreetAgain(k) \/ Issue(k) \/ GreetFails(k)
    \/ Send(k) \/ Receive(k) \/ Renew(k) \/ StaleResend(k) \/ Broken(k)
    \/ Redial(k) \/ Resume(k) \/ ResumeFails(k)

-----------------------------------------------------------------------------
(* The daemon.  Each request is executed by a thread of its own.           *)

At(id, stage) == req[id].stage = stage

Move(id, stage) == req' = [req EXCEPT ![id].stage = stage]

Reply(id, answer) == req' = [req EXCEPT ![id].stage = "answered", ![id].answer = answer]

KeyOf(id) == [gen |-> req[id].gen, epoch |-> req[id].epoch, call |-> id[1], try |-> id[2]]

\* Mutant: receipts are written and never read.
RecordedNever(id) == FALSE

Recorded(id) == KeyOf(id) \in store.receipts

ValidEpoch(e) == e # 0 /\ store.ns[e] = "valid"

\* Mutant: the collection does not look at admissions.
PinnedNever(e) == FALSE

\* Admission pins an epoch until the request is answered.
Pinned(e) == \E id \in Ids :
    req[id].epoch = e /\ req[id].stage \in {"admitted", "planned", "tx", "commit", "replay"}

Work == UNCHANGED <<client, calls, budgets>>

\* Dispatcher.handle: the generation gate.
Gate(id) ==
    /\ At(id, "wire")
    /\ IF req[id].gen = store.gen THEN Move(id, "gated") ELSE Reply(id, "staleGeneration")
    /\ UNCHANGED daemon /\ Work

\* execute_tool: admission of the epoch, in one step with the pin.
Admit(id) ==
    /\ At(id, "gated")
    /\ IF ValidEpoch(req[id].epoch) THEN Move(id, "admitted") ELSE Reply(id, "staleReplay")
    /\ UNCHANGED daemon /\ Work

\* replay_tool_call, read_recorded_guide_op: an operation that has a receipt.
CheckReplay(id) ==
    /\ At(id, "admitted")
    /\ Move(id, IF Recorded(id) THEN "replay" ELSE "planned")
    /\ UNCHANGED daemon /\ Work

\* apply_inner under the shared lock: receipt, then validity of the epoch.  A
\* guide mutation goes straight to its transaction (admission once).
Lock(id) ==
    /\ At(id, "planned") /\ ~fence
    /\ IF id[1] \in Guides \/ (~Recorded(id) /\ ValidEpoch(req[id].epoch))
       THEN Move(id, "tx")
       ELSE IF Recorded(id) THEN Move(id, "replay") ELSE Reply(id, "staleReplay")
    /\ UNCHANGED daemon /\ Work

\* What the transaction of a command checks before it changes anything.
Fenced(id) == id[1] \in Guides \/ req[id].gen = store.gen

\* The transaction finds a receipt, a moved generation, or work to do.
Transact(id) ==
    /\ At(id, "tx")
    /\ IF Recorded(id) THEN Move(id, "replay") /\ UNCHANGED store
       ELSE IF ~Fenced(id) THEN Reply(id, "staleGeneration") /\ UNCHANGED store
       ELSE /\ Move(id, "commit")
            /\ store' = [store EXCEPT
                  !.receipts = @ \cup {KeyOf(id)},
                  !.applied = @ \cup {[key |-> KeyOf(id), copy |-> id[3], at |-> store.gen]}]
    /\ UNCHANGED <<disk, fence, restores>> /\ Work

\* Mutant: a replay is answered without a barrier.
BarrierOfCommit(id) == disk' = IF At(id, "commit") THEN store ELSE disk

Barrier(id) == disk' = store

\* persist_barrier, then the answer: for a commit and for a replay alike.
Acknowledge(id) ==
    /\ At(id, "commit") \/ At(id, "replay")
    /\ Barrier(id)
    /\ Reply(id, "success")
    /\ UNCHANGED <<store, fence, restores>> /\ Work

\* Errors that say nothing of staleness: backpressure, a refused or failed
\* transaction, and, after the commit, a failing barrier, a tail of the tool
\* that fails, an answer over its budget.
Refuse(id) ==
    /\ refusals < MaxRefusals /\ refusals' = refusals + 1
    /\ req[id].stage \in {"wire", "planned", "tx", "commit", "replay"}
    /\ Reply(id, "refused")
    /\ UNCHANGED <<daemon, client, calls, faults, activations>>

\* A request still in the stream of a dead connection may not be read.
Lost(id) ==
    /\ At(id, "wire") /\ ~req[id].linked
    /\ Move(id, "lost")
    /\ UNCHANGED daemon /\ Work

Execute(id) ==
    \/ Gate(id) \/ Admit(id) \/ CheckReplay(id) \/ Lock(id)
    \/ Transact(id) \/ Acknowledge(id)

-----------------------------------------------------------------------------
(* Around them.                                                            *)

Expire(e) ==
    /\ store.ns[e] = "valid"
    /\ store' = [store EXCEPT !.ns[e] = "expired"]
    /\ disk' = [disk EXCEPT !.ns[e] = IF @ = "valid" THEN "expired" ELSE @]
    /\ UNCHANGED <<fence, restores, req>> /\ Work

\* gc_expired: an expired epoch that no admitted request pins, and its receipts.
Collect(e) ==
    /\ ~fence /\ store.ns[e] = "expired" /\ ~Pinned(e)
    /\ store' = [store EXCEPT !.ns[e] = "none",
                              !.receipts = {r \in @ : r.epoch # e}]
    /\ disk' = store'
    /\ UNCHANGED <<fence, restores, req>> /\ Work

\* exec_backup_restore: the fence, once no transaction runs, and the count of
\* live connections, none but the restoring one.
Executing(id) == req[id].stage \notin {"none", "answered", "lost"}

RestoreBegin ==
    /\ restores < MaxRestores /\ store.gen < MaxGen /\ ~fence
    /\ client.conn # "up" /\ \A id \in Ids : ~Executing(id)
    /\ fence' = TRUE
    /\ UNCHANGED <<store, disk, restores, req>> /\ Work

\* restore_replace_guarded: epochs (their counter too) and receipts are drained.
RestoreReplace ==
    /\ fence
    /\ store' = [EmptyStore EXCEPT
          !.gen = store.gen + 1,
          !.replaced = store.replaced \cup {f.key.call : f \in store.applied}]
    /\ disk' = store'
    /\ fence' = FALSE /\ restores' = restores + 1
    /\ UNCHANGED req /\ Work

\* activate_generation: a new generation of the projection, the same store.
Activate ==
    /\ ~fence /\ store.gen < MaxGen /\ activations < MaxActivations
    /\ activations' = activations + 1
    /\ store' = [store EXCEPT !.gen = @ + 1]
    /\ disk' = store'
    /\ UNCHANGED <<fence, restores, req, client, calls, faults, refusals>>

\* The journal reaches the disk on its own.
Flush ==
    /\ disk # store /\ disk' = store
    /\ UNCHANGED <<store, fence, restores, req>> /\ Work

Fault == faults < MaxFaults /\ faults' = faults + 1

\* The connection dies; what it carries goes on.
Drop ==
    /\ Fault /\ client.conn = "up"
    /\ client' = [client EXCEPT !.conn = "dead"]
    /\ req' = Unlinked
    /\ UNCHANGED <<daemon, calls, refusals, activations>>

\* A power failure, and the daemon is up again on what the disk holds.
Outage ==
    /\ Fault
    /\ store' = disk
    /\ fence' = FALSE
    /\ client' = [client EXCEPT !.conn = IF @ = "up" THEN "dead" ELSE @]
    /\ req' = [id \in Ids |-> IF Executing(id) THEN [req[id] EXCEPT !.stage = "lost", !.linked = FALSE]
                              ELSE [req[id] EXCEPT !.linked = FALSE]]
    /\ UNCHANGED <<disk, restores, calls, refusals, activations>>

Environment ==
    \/ \E k \in Calls : Ask(k) \/ DialFails(k)
    \/ \E id \in Ids : Refuse(id) \/ Lost(id)
    \/ \E e \in Epochs : Expire(e) \/ Collect(e)
    \/ RestoreBegin \/ Activate \/ Flush \/ Drop \/ Outage

Next ==
    \/ \E k \in Calls : Frontend(k)
    \/ \E id \in Ids : Execute(id)
    \/ RestoreReplace
    \/ Environment

Spec == Init /\ [][Next]_vars

\* Threads and tasks are scheduled; a restore that holds the lock ends.
FairSpec ==
    /\ Spec
    /\ \A k \in Calls : WF_vars(Frontend(k))
    /\ \A id \in Ids : WF_vars(Execute(id))
    /\ WF_vars(RestoreReplace)

-----------------------------------------------------------------------------
(* Properties.                                                             *)

EffectsOf(k, s) == {f \in s.applied : f.key.call = k}

\* A call shows in the store at most once, however often its envelope was sent
\* and whatever operations were minted for it.
AtMostOnce == \A k \in Calls : Cardinality(EffectsOf(k, store)) <= 1

\* What the host was told succeeded survives a power failure, unless a restore
\* has replaced the store that had it.
SuccessIsDurable ==
    \A k \in Calls : told[k] = "success" =>
        EffectsOf(k, disk) # {} \/ k \in disk.replaced

\* An operation takes effect in the generation its envelope names: no write of
\* before a restore lands in the restored store.
GenerationFence == \A f \in store.applied : f.at = f.key.gen

\* The fresh operation of a call is minted only when the first one is certain
\* to have no effect, now or later: a stale answer on a healthy stream says so.
StaleIsCertain ==
    \A k \in Calls : try[k] = "fresh" =>
        /\ \A f \in store.applied : f.key.call = k => f.key.try = "fresh"
        /\ \A copy \in Copies : ~Executing(<<k, "first", copy>>)

\* An answer other than "unknown" that is not a success is certain: the call
\* has no effect, and no request of it is left that could have one.
RefusalIsCertain ==
    \A k \in Calls : told[k] \in {"refused", "failed"} =>
        /\ EffectsOf(k, store) = {}
        /\ \A id \in Ids : id[1] = k => ~Executing(id)

\* Every call that is made is answered.
EveryCallAnswered == \A k \in Calls : (pc[k] = "begin") ~> (pc[k] = "done")

\* The promise to the host.
Abstract == INSTANCE OnceOnly WITH
    effect <- [k \in Calls |-> Cardinality(EffectsOf(k, store))],
    kept   <- disk.replaced \cup {f.key.call : f \in disk.applied}

OnceOnlySpec == Abstract!Spec
=============================================================================
