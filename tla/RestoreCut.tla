----------------------------- MODULE RestoreCut -----------------------------
(***************************************************************************)
(* A restore from its preview to its report: the tokens of backup_preview, *)
(* the leases of backup_import_lemma, the exclusive fence, the safety      *)
(* backup, the replacement of the store, and the registry of channels      *)
(* whose contexts must not outlive the store they were made in.            *)
(*                                                                         *)
(* A channel runs one tool at a time; its connection may close while the   *)
(* tool runs.  What a tool does before the fence, under it and after it    *)
(* are separate actions, and so is every access to the registry.           *)
(*                                                                         *)
(* Abstracted: the file is a version and holds an older store with none of *)
(* the writes; a memory is the write that made it; time moves in units.    *)
(* External to this module: the handshake (Retry), the search table        *)
(* (Projection), the records of generations (Generations).                 *)
(***************************************************************************)
EXTENDS Integers, FiniteSets, Sequences

CONSTANTS Channels,
          Ttl, IdleTime, Lifetime,   \* of a preview; of a virtual session
          MaxClock, MaxWrites, MaxPreviews, MaxSessions, MaxCutFaults

VARIABLES
    canon,      \* the store: its generation and the writes it holds
    safeties,   \* safety backups written, as they were encoded
    previews,   \* what each preview told its channel (history)
    tokens,     \* preview -> "pending", "used", "gone": the two coordinators
    fence,      \* the channel that holds the restore lock exclusively
    file,       \* version of the file to restore
    connected, job, acked,
    virtuals,   \* handle -> record of a virtual session
    route,      \* channel -> its virtual session and idle deadline
    disk,       \* sessions.json
    cuts,       \* previews whose restore replaced the store (history)
    torn,       \* a cut whose contexts were not dropped or not saved (history)
    clock, spent

cutvars == <<canon, safeties, previews, tokens, fence, file, connected, job, acked,
             virtuals, route, disk, cuts, torn, clock, spent>>
contexts == <<virtuals, route, disk>>
history == <<cuts, torn>>
outside == <<file, connected, clock, spent>>

NoOne == "none"
Handles == 1..MaxSessions
Writes == 1..MaxWrites
Ids == 1..MaxPreviews

NoRoute == [handle |-> 0, until |-> 0]
NoVirtual == [status |-> "gone", channel |-> NoOne, born |-> 0, made |-> {}]

\* What a channel runs: a restore or an import of a preview, or an add.
Restoring(tool, step, n, digest, now, since) ==
    [tool |-> tool, step |-> step, preview |-> n, digest |-> digest, now |-> now,
     handle |-> 0, write |-> 0, gen |-> 0, since |-> since]
Adding(step, h, write, gen) ==
    [tool |-> "add", step |-> step, preview |-> 0, digest |-> 0, now |-> 0,
     handle |-> h, write |-> write, gen |-> gen, since |-> 0]
Idle == Restoring("none", "idle", 0, 0, 0, 0)

CutTypeOK ==
    /\ canon \in [gen : Nat, writes : SUBSET Writes]
    /\ \A s \in safeties : s \in [gen : Nat, writes : SUBSET Writes]
    /\ previews \in Seq([tool : {"restore", "import"}, channel : Channels,
                         digest : Nat, gen : Nat, at : Nat, seq : Nat])
    /\ tokens \in [Ids -> {"pending", "used", "gone"}]
    /\ fence \in Channels \cup {NoOne}
    /\ connected \subseteq Channels /\ acked \subseteq Writes
    /\ \A ch \in Channels : fence = ch => job[ch].step \in {"confirmed", "safe", "replaced"}
    /\ virtuals \in [Handles -> [status : {"active", "abandoned", "gone"},
                                 channel : Channels \cup {NoOne}, born : Nat,
                                 made : SUBSET Writes]]
    /\ route \in [Channels -> [handle : 0..MaxSessions, until : Nat]]
    /\ clock \in 0..MaxClock

\* No channel is called nobody; the bounds are numbers.
CutConstants ==
    /\ NoOne \notin Channels
    /\ {Ttl, IdleTime, Lifetime, MaxClock, MaxWrites, MaxPreviews, MaxSessions, MaxCutFaults} \subseteq Nat

CutInit ==
    /\ canon = [gen |-> 1, writes |-> {}] /\ safeties = {}
    /\ previews = <<>> /\ tokens = [n \in Ids |-> "gone"]
    /\ fence = NoOne /\ file = 0
    /\ connected = {} /\ job = [ch \in Channels |-> Idle] /\ acked = {}
    /\ virtuals = [h \in Handles |-> NoVirtual]
    /\ route = [ch \in Channels |-> NoRoute]
    /\ disk = [virtuals |-> virtuals, route |-> route]
    /\ cuts = <<>> /\ torn = FALSE
    /\ clock = 0 /\ spent = [faults |-> 0, writes |-> 0, handles |-> 0]

Free(ch) == ch \in connected /\ job[ch] = Idle
Running(ch, tool, step) == job[ch].tool \in tool /\ job[ch].step = step
\* The two tools that replace the store take the same steps.
Replacing(ch, step) == Running(ch, {"restore", "import"}, step)
Become(ch, j) == job' = [job EXCEPT ![ch] = j]
Finish(ch) == Become(ch, Idle)
CutFault == spent.faults < MaxCutFaults /\ spent' = [spent EXCEPT !.faults = @ + 1]

(***************************************************************************)
(* Connections, time, the file.                                            *)
(***************************************************************************)
Connect(ch) ==
    /\ ch \notin connected
    /\ connected' = connected \cup {ch}
    /\ UNCHANGED <<canon, safeties, previews, tokens, fence, file, job, acked, contexts,
                   history, clock, spent>>

Disconnect(ch) ==
    /\ ch \in connected /\ CutFault
    /\ connected' = connected \ {ch}
    /\ UNCHANGED <<canon, safeties, previews, tokens, fence, file, job, acked, contexts,
                   history, clock>>

Tick ==
    /\ clock < MaxClock
    /\ clock' = clock + 1
    /\ UNCHANGED <<canon, safeties, previews, tokens, fence, file, connected, job, acked,
                   contexts, history, spent>>

\* The file at the path is another one by now.
EditFile ==
    /\ CutFault
    /\ file' = file + 1
    /\ UNCHANGED <<canon, safeties, previews, tokens, fence, connected, job, acked,
                   contexts, history, clock>>

(***************************************************************************)
(* Virtual sessions of channels without a traced one.                      *)
(***************************************************************************)
Expired(h, r) == clock >= r.until \/ clock - virtuals[h].born >= Lifetime

Bound(ch) == route[ch].handle # 0 /\ virtuals[route[ch].handle].status = "active"

\* Every channel's virtual session past its idle or life time is finalized.
Swept ==
    LET late == {ch \in Channels : Bound(ch) /\ Expired(route[ch].handle, route[ch])}
    IN  [virtuals |-> [h \in Handles |->
                          IF \E ch \in late : route[ch].handle = h
                          THEN [virtuals[h] EXCEPT !.status = "abandoned"] ELSE virtuals[h]],
         route |-> [ch \in Channels |-> IF ch \in late THEN NoRoute ELSE route[ch]]]

\* The registry after ensure_virtual_session(ch), and the handle it returns.
Ensured(ch) ==
    LET s == Swept
        old == s.route[ch].handle
        h == IF old # 0 /\ s.virtuals[old].status = "active" THEN old ELSE spent.handles + 1
        new == [status |-> "active", channel |-> ch, born |-> clock, made |-> {}]
    IN  [handle |-> h,
         virtuals |-> IF h = old THEN s.virtuals ELSE [s.virtuals EXCEPT ![h] = new],
         route |-> [s.route EXCEPT ![ch] = [handle |-> h, until |-> clock + IdleTime]]]

(***************************************************************************)
(* memory_add: the session, the transaction, the attribution, the answer.  *)
(***************************************************************************)
AddResolve(ch) ==
    LET e == Ensured(ch)
    IN  /\ Free(ch) /\ spent.writes < MaxWrites /\ e.handle \in Handles
        /\ virtuals' = e.virtuals /\ route' = e.route
        /\ spent' = [faults |-> spent.faults, writes |-> spent.writes + 1,
                     handles |-> IF e.handle > spent.handles THEN e.handle ELSE spent.handles]
        /\ Become(ch, Adding("resolved", e.handle, spent.writes + 1, canon.gen))
        /\ UNCHANGED <<canon, safeties, previews, tokens, fence, file, connected, acked,
                       disk, history, clock>>

\* Mutant: a write that does not take the shared fence.
Unfenced == TRUE

Admits == fence = NoOne

\* A write raises the watermark in its own transaction; the watermark is the sum over
\* all writers, and starts over with the store.
Raised(write) == [canon EXCEPT !.writes = @ \cup {write}]
OpSeq == Cardinality(canon.writes)

\* The transaction refuses a generation that is no longer the store's.
AddCommit(ch) ==
    /\ Running(ch, {"add"}, "resolved") /\ Admits
    /\ IF job[ch].gen = canon.gen
       THEN /\ canon' = Raised(job[ch].write)
            /\ Become(ch, [job[ch] EXCEPT !.step = "committed"])
       ELSE UNCHANGED canon /\ Finish(ch)
    /\ UNCHANGED <<safeties, previews, tokens, fence, acked, contexts, history, outside>>

\* Nothing is recorded for a handle the registry no longer has.
Tracked(h, write) ==
    IF virtuals[h].status = "gone" THEN virtuals
    ELSE [virtuals EXCEPT ![h].made = @ \cup {write}]

AddTrack(ch) ==
    /\ Running(ch, {"add"}, "committed")
    /\ virtuals' = Tracked(job[ch].handle, job[ch].write)
    /\ acked' = acked \cup {job[ch].write}
    /\ Finish(ch)
    /\ UNCHANGED <<canon, safeties, previews, tokens, fence, route, disk, history, outside>>

(***************************************************************************)
(* Previews.  A token of the restore coordinator is new each time; a lease *)
(* of the import coordinator takes the place of the channel's earlier one. *)
(***************************************************************************)
Lapsed(n) == clock > previews[n].at + Ttl
Evicted(tool) == [n \in Ids |-> IF n <= Len(previews) /\ previews[n].tool = tool
                                   /\ (tokens[n] = "used" \/ Lapsed(n))
                                THEN "gone" ELSE tokens[n]]

Shown(tool, ch) ==
    [tool |-> tool, channel |-> ch, digest |-> file, gen |-> canon.gen, at |-> clock,
     seq |-> OpSeq]
Replaced(tool, ch) ==
    {m \in DOMAIN previews : tool = "import" /\ previews[m].tool = tool /\ previews[m].channel = ch}

Alone == Cardinality(connected) <= 1

Preview(ch, tool) ==
    LET n == Len(previews) + 1
        left == Evicted(tool)
    IN  /\ Free(ch)
        /\ UNCHANGED <<canon, safeties, fence, job, acked, contexts, history, outside>>
        /\ \/ ~Alone /\ tokens' = left /\ UNCHANGED previews
           \/ /\ Alone /\ n \in Ids
              /\ previews' = Append(previews, Shown(tool, ch))
              /\ tokens' = [m \in Ids |-> IF m = n THEN "pending"
                                          ELSE IF m \in Replaced(tool, ch) THEN "gone" ELSE left[m]]

\* The preview of an import, whose lease is its channel's.
PreviewImport(ch) == Preview(ch, "import")

(***************************************************************************)
(* Confirmation.  Any channel may hold a token; a lease is its channel's.  *)
(* The file is verified, and a restore reads the clock, before the fence.  *)
(***************************************************************************)
Verify(ch, n) ==
    /\ Free(ch) /\ n <= Len(previews)
    /\ LET tool == previews[n].tool
       IN  /\ tool = "restore" => tokens[n] # "gone"
           /\ tool = "import" => previews[n].channel = ch
           /\ Become(ch, Restoring(tool, "verified", n, file, clock, 0))
    /\ UNCHANGED <<canon, safeties, previews, tokens, fence, acked, contexts, history, outside>>

\* Mutant: a coordinator that does not compare the store's generation.
SameStoreUnchecked(n) == TRUE

SameStore(n) == canon.gen = previews[n].gen

\* The outcome of confirm: "ok", "refused" and the token stays, "removed".
Verdict(ch, n) ==
    LET p == previews[n]
        now == IF p.tool = "restore" THEN job[ch].now ELSE clock
    IN  CASE tokens[n] = "gone" -> "refused"
          [] tokens[n] # "gone" /\ now > p.at + Ttl -> "removed"
          [] tokens[n] = "used" /\ now <= p.at + Ttl -> "refused"
          [] OTHER -> IF job[ch].digest # p.digest \/ ch # p.channel \/ ~SameStore(n)
                      THEN "removed"
                      ELSE IF Alone THEN "ok" ELSE "refused"

Confirm(ch) ==
    LET n == job[ch].preview
    IN  /\ Replacing(ch, "verified") /\ fence = NoOne
        /\ UNCHANGED <<canon, safeties, previews, acked, contexts, history, outside>>
        /\ \/ /\ Verdict(ch, n) = "ok"
              /\ tokens' = [tokens EXCEPT ![n] = "used"]
              /\ fence' = ch
              /\ Become(ch, Restoring(job[ch].tool, "confirmed", n, 0, 0, OpSeq - previews[n].seq))
           \/ /\ Verdict(ch, n) # "ok"
              /\ tokens' = IF Verdict(ch, n) = "removed" THEN [tokens EXCEPT ![n] = "gone"]
                           ELSE tokens
              /\ Finish(ch)
              /\ UNCHANGED fence

(***************************************************************************)
(* Under the fence.                                                        *)
(***************************************************************************)
\* The safety backup, or a failure to write it: the fence is released.
WriteSafety(ch) ==
    /\ Replacing(ch, "confirmed")
    /\ UNCHANGED <<canon, previews, tokens, acked, contexts, history, file, connected, clock>>
    /\ \/ /\ safeties' = safeties \cup {canon}
          /\ Become(ch, [job[ch] EXCEPT !.step = "safe"])
          /\ UNCHANGED <<fence, spent>>
       \/ CutFault /\ Finish(ch) /\ fence' = NoOne /\ UNCHANGED safeties

\* What a cut replaced, and the writes since the preview that its report counts.
Cut(ch) == [preview |-> job[ch].preview, gen |-> canon.gen, since |-> job[ch].since,
            written |-> canon.writes]

NewStore == [gen |-> canon.gen + 1, writes |-> {}]

\* One transaction; it may conflict or, committed, fail its barrier, and then
\* the contexts stay as they are.
Replace(ch) ==
    LET new == NewStore
    IN  /\ Replacing(ch, "safe")
        /\ UNCHANGED <<safeties, previews, tokens, acked, contexts, file, connected, clock>>
        /\ \/ /\ canon' = new /\ cuts' = Append(cuts, Cut(ch))
              /\ Become(ch, [job[ch] EXCEPT !.step = "replaced"])
              /\ UNCHANGED <<fence, torn, spent>>
           \/ /\ CutFault /\ Finish(ch) /\ fence' = NoOne
              /\ UNCHANGED <<canon, cuts, torn>>
           \/ /\ CutFault /\ Finish(ch) /\ fence' = NoOne
              /\ canon' = new /\ cuts' = Append(cuts, Cut(ch))
              /\ torn' = TRUE

\* Mutant: the routes are dropped and the sessions they led to are kept.
KeptSessions == virtuals

DroppedSessions == [h \in Handles |-> NoVirtual]

ResetContexts(ch) ==
    /\ Replacing(ch, "replaced")
    /\ virtuals' = DroppedSessions
    /\ route' = [c \in Channels |-> NoRoute]
    /\ fence' = NoOne
    /\ Become(ch, Restoring(job[ch].tool, "reset", 0, 0, 0, 0))
    /\ UNCHANGED <<canon, safeties, previews, tokens, acked, disk, history, outside>>

\* After the fence: the file that a restart will load.
PersistSessions(ch) ==
    /\ Replacing(ch, "reset")
    /\ disk' = [virtuals |-> virtuals, route |-> route]
    /\ Finish(ch)
    /\ UNCHANGED <<canon, safeties, previews, tokens, fence, acked, virtuals, route, history, outside>>

\* A session_start saves the registry too; here, whenever a channel is free.
SaveRegistry(ch) ==
    /\ Free(ch) /\ disk # [virtuals |-> virtuals, route |-> route]
    /\ disk' = [virtuals |-> virtuals, route |-> route]
    /\ UNCHANGED <<canon, safeties, previews, tokens, fence, job, acked, virtuals, route,
                   history, outside>>

\* The daemon dies and starts again; the store and the files are what is left.
Restart ==
    /\ CutFault
    /\ torn' = (torn \/ \E ch \in Channels : job[ch].step \in {"replaced", "reset"})
    /\ virtuals' = disk.virtuals /\ route' = disk.route
    /\ tokens' = [n \in Ids |-> "gone"]
    /\ fence' = NoOne /\ connected' = {} /\ job' = [ch \in Channels |-> Idle]
    /\ UNCHANGED <<canon, safeties, previews, file, acked, disk, cuts, clock>>

CutNext ==
    \/ \E ch \in Channels :
          \/ Connect(ch) \/ Disconnect(ch)
          \/ AddResolve(ch) \/ AddCommit(ch) \/ AddTrack(ch)
          \/ Preview(ch, "restore") \/ PreviewImport(ch)
          \/ \E n \in Ids : Verify(ch, n)
          \/ Confirm(ch) \/ WriteSafety(ch) \/ Replace(ch)
          \/ ResetContexts(ch) \/ PersistSessions(ch) \/ SaveRegistry(ch)
    \/ Tick \/ EditFile \/ Restart

CutSpec == CutInit /\ [][CutNext]_cutvars

(***************************************************************************)
(* Properties.                                                             *)
(***************************************************************************)

\* Every write a host was told of is in the store or in a safety backup: no
\* write slips in between the safety backup and the replacement.
NoWriteLostUnseen ==
    \A w \in acked : w \in canon.writes \/ \E s \in safeties : w \in s.writes

\* A restore replaces the very store its host was shown, with as many writes since as its
\* report counts, once for each preview, whatever other previews, writes, restores and
\* restarts came in between (backup.rs:225-228).
ReplacesWhatWasShown ==
    /\ \A i \in DOMAIN cuts :
          LET shown == previews[cuts[i].preview]
          IN  /\ cuts[i].gen = shown.gen
              /\ Cardinality(cuts[i].written) = shown.seq + cuts[i].since
    /\ \A i, j \in DOMAIN cuts : cuts[i].preview = cuts[j].preview => i = j

OfOneStore ==
    \A h \in Handles : virtuals[h].status = "active" => virtuals[h].made \subseteq canon.writes

\* While writes are admitted, no virtual session in use holds memories of a
\* replaced store, unless the restore that replaced it failed or died half way:
\* an add that was overtaken by the restore does not bring its memory along.
NoContextSpansCut == fence = NoOne /\ ~torn => OfOneStore
=============================================================================
