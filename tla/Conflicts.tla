------------------------------- MODULE Conflicts -------------------------------
(***************************************************************************)
(* The refusal of a memory that contradicts one that is there, and the     *)
(* cache of signatures it is decided with.                                 *)
(*                                                                         *)
(* An add scans a snapshot of the store for memories that clash with its   *)
(* text and commits if there is none, all under the gate that other adds,  *)
(* updates and merges take too; then it scans again for its answer.  What  *)
(* a text is judged by is extracted once per memory and revision and kept  *)
(* in memory.  A forget and a merge prune it after their transactions, a   *)
(* restore empties it after its own.                                       *)
(*                                                                         *)
(* Abstractions.  A text is a member of a small set, and is its signature; *)
(* Clash says which contradict each other.  One project.  An add has an id *)
(* of its own.  Near-duplicates and links are in Memories, sessions in     *)
(* Sessions, tokens and safety backups of a restore in RestoreCut.         *)
(***************************************************************************)
EXTENDS Naturals

CONSTANTS
    MemoryIds, Statements, Clash,
    AtStart,     \* the texts of the memories that are there already
    MaxEdits, MaxReplacements, MaxFailures

VARIABLES
    held,       \* id -> memory
    epoch,      \* the store's generation
    copy,       \* the store as it was exported last
    cache,      \* id -> what its signature was extracted from
    gate,       \* the add that holds the similarity gate, or Nobody
    adding,     \* id -> the request that adds it
    unpruned,   \* ids whose memory has gone and whose signature has not been dropped yet
    replacing,  \* a restore has replaced the store and holds the fence
    overtaken,  \* a restore came between a snapshot and its use (history)
    tally

conflictvars == <<held, epoch, copy, cache, gate, adding, unpruned, replacing, overtaken, tally>>

NoAdd == 0
Unborn == [life |-> "absent", text |-> "none", rev |-> 0, how |-> "none", since |-> 0]
NoSignature == [rev |-> 0, text |-> "none"]
Empty == [i \in MemoryIds |-> Unborn]
NotAsking == [step |-> "idle", text |-> "none", gen |-> 0, seen |-> Empty, seenGen |-> 0]

MemoryRow ==
    [life : {"absent", "live", "hidden"}, text : Statements \cup {"none"}, rev : Nat,
     how : {"none", "added", "reworded", "merged"}, since : Nat]
Request ==
    [step : {"idle", "asked", "gated", "read", "scanned", "committed", "reread", "done"},
     text : Statements \cup {"none"}, gen : Nat, seen : [MemoryIds -> MemoryRow], seenGen : Nat]

ASSUME ConflictsAssumption == NoAdd \notin MemoryIds /\ AtStart \in [DOMAIN AtStart -> Statements]

ConflictsTypeOK ==
    /\ held \in [MemoryIds -> MemoryRow] /\ copy \in [MemoryIds -> MemoryRow]
    /\ epoch \in Nat
    /\ cache \in [MemoryIds -> [rev : Nat, text : Statements \cup {"none"}]]
    /\ gate \in MemoryIds \cup {NoAdd}
    /\ unpruned \subseteq MemoryIds
    /\ adding \in [MemoryIds -> Request]
    /\ tally \in [changes : Nat, restores : Nat, faults : Nat, writes : Nat]
    /\ {replacing, overtaken} \subseteq BOOLEAN

\* A daemon that starts on a store with memories added before, and a backup of it.
ConflictsInit ==
    /\ held = [i \in MemoryIds |->
                  IF i \in DOMAIN AtStart
                  THEN [Unborn EXCEPT !.life = "live", !.text = AtStart[i], !.how = "added"]
                  ELSE Unborn]
    /\ epoch = 1 /\ copy = held
    /\ cache = [i \in MemoryIds |-> NoSignature]
    /\ gate = NoAdd
    /\ adding = [i \in MemoryIds |->
                    [NotAsking EXCEPT !.step = IF i \in DOMAIN AtStart THEN "done" ELSE "idle"]]
    /\ unpruned = {}
    /\ replacing = FALSE /\ overtaken = FALSE
    /\ tally = [changes |-> 0, restores |-> 0, faults |-> 0, writes |-> 0]

LiveIn(s) == {i \in MemoryIds : s[i].life = "live"}

-----------------------------------------------------------------------------
(* memory_add.                                                             *)

AddGoes(i, step) == adding' = [adding EXCEPT ![i].step = step]

EndAdd(i) == adding' = [adding EXCEPT ![i] = [NotAsking EXCEPT !.step = "done"]]

\* The request has passed the generation gate.
Ask(i, t) ==
    /\ adding[i].step = "idle"
    /\ adding' = [adding EXCEPT ![i] =
                     [NotAsking EXCEPT !.step = "asked", !.text = t, !.gen = epoch]]
    /\ UNCHANGED <<held, epoch, copy, cache, gate, unpruned, replacing, overtaken, tally>>

TakeGate(i) ==
    /\ adding[i].step = "asked" /\ gate = NoAdd
    /\ gate' = i
    /\ AddGoes(i, "gated")
    /\ UNCHANGED <<held, epoch, copy, cache, unpruned, replacing, overtaken, tally>>

\* export_snapshot, before the commit and after it.
Snapshot(i) ==
    /\ adding[i].step \in {"gated", "committed"}
    /\ adding' = [adding EXCEPT ![i].step = IF @ = "gated" THEN "read" ELSE "reread",
                                ![i].seen = held, ![i].seenGen = epoch]
    /\ UNCHANGED <<held, epoch, copy, cache, gate, unpruned, replacing, overtaken, tally>>

\* Mutant: the revision an entry was extracted at is not compared.
KeptWhatever(i, m) == cache[i] # NoSignature

Kept(i, m) == cache[i] # NoSignature /\ cache[i].rev = m.rev

\* get_or_extract: the text memory i, as it was read, is judged by.
Judged(i, m) == IF Kept(i, m) THEN cache[i].text ELSE m.text

\* The memory as it would be added: its id is in the snapshot of the second scan only.
Target(i) == [life |-> "live", text |-> adding[i].text, rev |-> 0, how |-> "added",
              since |-> tally.writes + 1]

Compared(i) == LiveIn(adding[i].seen) \ {i}

Scanned(i) == Compared(i) \cup {i}

InHand(i, j) == IF j = i THEN Target(i) ELSE adding[i].seen[j]

ClashesOf(i) ==
    {j \in Compared(i) : <<Judged(i, Target(i)), Judged(j, adding[i].seen[j])>> \in Clash}

\* scan_conflicts_for_target_cached under the lock of the cache.  The first scan refuses,
\* the second is told in the answer, which ends the request.
ScanConflicts(i) ==
    /\ adding[i].step \in {"read", "reread"}
    /\ cache' = [j \in MemoryIds |->
                    IF j \in Scanned(i)
                    THEN [rev |-> InHand(i, j).rev, text |-> Judged(j, InHand(i, j))]
                    ELSE cache[j]]
    /\ IF adding[i].step = "reread" \/ ClashesOf(i) # {}
       THEN EndAdd(i) /\ gate' = NoAdd
       ELSE AddGoes(i, "scanned") /\ UNCHANGED gate
    /\ overtaken' = (overtaken \/ replacing \/ adding[i].seenGen # epoch)
    /\ UNCHANGED <<held, epoch, copy, unpruned, replacing, tally>>

\* The transaction, under the shared fence; a replaced generation is refused.
CommitAdd(i) ==
    /\ adding[i].step = "scanned" /\ ~replacing
    /\ IF adding[i].gen = epoch
       THEN /\ held' = [held EXCEPT ![i] = Target(i)]
            /\ tally' = [tally EXCEPT !.writes = @ + 1]
            /\ AddGoes(i, "committed") /\ UNCHANGED gate
       ELSE EndAdd(i) /\ gate' = NoAdd /\ UNCHANGED <<held, tally>>
    /\ UNCHANGED <<epoch, copy, cache, unpruned, replacing, overtaken>>

-----------------------------------------------------------------------------
(* What else changes memories.                                             *)

Changes ==
    /\ tally.changes < MaxEdits
    /\ tally' = [tally EXCEPT !.changes = @ + 1, !.writes = @ + 1]

\* memory_update under the gate: nothing is scanned for conflicts.
UpdateMemory(i, t) ==
    /\ Changes /\ gate = NoAdd /\ ~replacing
    /\ held[i].life = "live" /\ t # held[i].text
    /\ held' = [held EXCEPT ![i].text = t, ![i].rev = @ + 1, ![i].how = "reworded",
                            ![i].since = tally.writes + 1]
    /\ UNCHANGED <<epoch, copy, cache, gate, adding, unpruned, replacing, overtaken>>

\* memory_forget.
ForgetMemory(i) ==
    /\ Changes /\ ~replacing /\ held[i].life = "live"
    /\ held' = [held EXCEPT ![i].life = "hidden"]
    /\ unpruned' = unpruned \cup {i}
    /\ UNCHANGED <<epoch, copy, cache, gate, adding, replacing, overtaken>>

\* memory_merge under the gate: i goes, k says what it said and more; nothing is scanned.
MergeMemories(i, k, t) ==
    /\ Changes /\ gate = NoAdd /\ ~replacing
    /\ held[i].life = "live" /\ adding[k].step = "idle"
    /\ held' = [held EXCEPT ![i].life = "hidden",
                            ![k] = [life |-> "live", text |-> t, rev |-> 1, how |-> "merged",
                                    since |-> tally.writes + 1]]
    /\ adding' = [adding EXCEPT ![k] = [NotAsking EXCEPT !.step = "done"]]
    /\ unpruned' = unpruned \cup {i}
    /\ UNCHANGED <<epoch, copy, cache, gate, replacing, overtaken>>

Prune(i) ==
    /\ i \in unpruned
    /\ unpruned' = unpruned \ {i}
    /\ cache' = [cache EXCEPT ![i] = NoSignature]
    /\ UNCHANGED <<held, epoch, copy, gate, adding, replacing, overtaken, tally>>

-----------------------------------------------------------------------------
(* Restores and restarts.                                                  *)

\* (An export that no restore would read is left out.)
Export ==
    /\ copy # held /\ ~replacing /\ tally.restores < MaxReplacements
    /\ copy' = held
    /\ UNCHANGED <<held, epoch, cache, gate, adding, unpruned, replacing, overtaken, tally>>

\* The rows of the backup, verbatim, under the next generation.
RestoreReplace ==
    /\ ~replacing /\ tally.restores < MaxReplacements
    /\ held' = copy /\ epoch' = epoch + 1
    /\ replacing' = TRUE
    /\ tally' = [tally EXCEPT !.restores = @ + 1]
    /\ UNCHANGED <<copy, cache, gate, adding, unpruned, overtaken>>

Fault == tally.faults < MaxFailures /\ tally' = [tally EXCEPT !.faults = @ + 1]

\* Mutant: the cache outlives the store.
Outlived == cache

Emptied == [i \in MemoryIds |-> NoSignature]

\* Then the cache is emptied; a barrier that fails after the commit returns before that.
RestoreClear ==
    /\ replacing
    /\ replacing' = FALSE
    /\ \/ cache' = Emptied /\ UNCHANGED <<overtaken, tally>>
       \/ Fault /\ overtaken' = TRUE /\ UNCHANGED cache
    /\ UNCHANGED <<held, epoch, copy, gate, adding, unpruned>>

\* The daemon dies, and another one starts on the store.
Restart ==
    /\ Fault
    /\ cache' = [i \in MemoryIds |-> NoSignature]
    /\ gate' = NoAdd /\ unpruned' = {} /\ replacing' = FALSE
    /\ adding' = [i \in MemoryIds |-> IF adding[i].step = "idle" THEN NotAsking
                                      ELSE [NotAsking EXCEPT !.step = "done"]]
    /\ UNCHANGED <<held, epoch, copy, overtaken>>

ConflictsNext ==
    \/ \E i \in MemoryIds :
         \/ TakeGate(i) \/ Snapshot(i) \/ ScanConflicts(i) \/ CommitAdd(i)
         \/ ForgetMemory(i) \/ Prune(i)
         \/ \E t \in Statements : \/ Ask(i, t) \/ UpdateMemory(i, t)
                                  \/ \E k \in MemoryIds : MergeMemories(i, k, t)
    \/ Export \/ RestoreReplace \/ RestoreClear \/ Restart

ConflictsSpec == ConflictsInit /\ [][ConflictsNext]_conflictvars

-----------------------------------------------------------------------------
(* Properties.                                                             *)

\* A memory that was added, and not changed since, does not contradict one that said then
\* what it says now: its add was refused, whatever was updated, forgotten, merged and
\* restored before, unless a restore came between its snapshot and its scan, or could not
\* empty the cache.
ConflictsAreSeen ==
    \A i, j \in LiveIn(held) :
        /\ held[j].how = "added" /\ held[i].since < held[j].since
        /\ <<held[j].text, held[i].text>> \in Clash
        => overtaken
=============================================================================
