---------------------------- MODULE ReadersProofs ----------------------------
(***************************************************************************)
(* Proofs about Conflicts and Recall, for all constants.                   *)
(*                                                                         *)
(* Conflicts: what was added does not contradict what was there, by what   *)
(* the gate, the snapshot of its holder and the cache have to do with the  *)
(* store.  Recall: what an answer shows was eligible, what it leaves out   *)
(* was superseded, and what it does not call partial is complete, whatever *)
(* happens between its reads.                                              *)
(***************************************************************************)
EXTENDS Conflicts, Recall, FiniteSetTheorems, WellFoundedInduction, TLAPS

(***************************************************************************)
(* Conflicts.                                                              *)
(***************************************************************************)
Early == {"idle", "asked", "gated", "read"}
Late == {"scanned", "committed", "reread"}
Holding == {"gated", "read", "scanned", "committed", "reread"}

\* What a signature of i may be that its own add has left.
OfAdd(i) == {NoSignature, [rev |-> 0, text |-> adding[i].text]}

\* An id whose add has not come to its transaction is new everywhere; one whose add
\* is past it has what the add said.
NewIn(s, i) ==
    /\ adding[i].step \in Early \cup {"scanned"} => s[i].life = "absent"
    /\ adding[i].step \in Late => s[i].life = "absent" \/ (s[i].rev = 0 /\ s[i].text = adding[i].text)

GateInv == \A i \in MemoryIds : adding[i].step \in Holding <=> gate = i

NewInv == \A i \in MemoryIds : NewIn(held, i) /\ NewIn(copy, i)

SignInv ==
    \A i \in MemoryIds : /\ adding[i].step \in Early => cache[i] = NoSignature
                         /\ adding[i].step \in Late => cache[i] \in OfAdd(i)

SeenInv == \A i, k \in MemoryIds : adding[i].step \in Early => adding[k].seen[i].life = "absent"

StepsInv == GateInv /\ NewInv /\ SignInv /\ SeenInv

\* What a snapshot says of a memory holds, unless the memory was forgotten since.
StillSo(old, m) ==
    /\ m.text = old.text /\ m.rev = old.rev
    /\ m.life = old.life \/ (old.life = "live" /\ m.life = "hidden")

Dated(i) ==
    /\ adding[i].gen <= epoch /\ adding[i].seenGen <= epoch
    /\ adding[i].step \in {"read", "scanned", "committed", "reread"} => adding[i].gen <= adding[i].seenGen
    /\ adding[i].step \in {"read", "reread"} /\ adding[i].seenGen = epoch
          => \A j \in MemoryIds : StillSo(adding[i].seen[j], held[j])

SnapshotInv == \A i \in MemoryIds : Dated(i)

Agrees(sig, m) ==
    sig # NoSignature /\ m.life # "absent"
        => sig.rev <= m.rev /\ (sig.rev = m.rev => sig.text = m.text)

CacheInv == ~replacing /\ ~overtaken => \A i \in MemoryIds : Agrees(cache[i], held[i])

\* Nothing that the add at hand contradicts has come since its scan.
ScanInv ==
    ~overtaken => \A i \in MemoryIds :
        adding[i].step = "scanned" /\ adding[i].seenGen = epoch
            => \A j \in LiveIn(held) : <<adding[i].text, held[j].text>> \notin Clash

\* The property, of any store.
Heeds(s) ==
    \A i, j \in LiveIn(s) :
        s[j].how = "added" /\ s[i].since < s[j].since => <<s[j].text, s[i].text>> \notin Clash

StoresInv ==
    /\ \A i \in MemoryIds : held[i].since <= tally.writes /\ copy[i].since <= tally.writes
    /\ ~overtaken => Heeds(held) /\ Heeds(copy)

Inv == ConflictsTypeOK /\ StepsInv /\ SnapshotInv /\ CacheInv /\ ScanInv /\ StoresInv

-----------------------------------------------------------------------------
(* Types.                                                                  *)

LEMMA AbsentTyped ==
    Unborn \in MemoryRow /\ Empty \in [MemoryIds -> MemoryRow] /\ NotAsking \in Request
BY DEF Unborn, MemoryRow, Empty, NotAsking, Request

LEMMA TypeInit == ConflictsInit => ConflictsTypeOK
<1> SUFFICES ASSUME ConflictsInit PROVE ConflictsTypeOK
  OBVIOUS
<1>1. \A i \in MemoryIds : held[i] \in MemoryRow
  BY AbsentTyped, ConflictsAssumption DEF ConflictsInit, Unborn, MemoryRow
<1>2. held \in [MemoryIds -> MemoryRow] /\ copy \in [MemoryIds -> MemoryRow]
  BY <1>1 DEF ConflictsInit
<1>3. adding \in [MemoryIds -> Request]
  BY AbsentTyped DEF ConflictsInit, NotAsking, Request
<1>4. cache \in [MemoryIds -> [rev : Nat, text : Statements \cup {"none"}]]
  BY DEF ConflictsInit, NoSignature
<1> QED BY <1>2, <1>3, <1>4 DEF ConflictsInit, ConflictsTypeOK, NoAdd

\* What each step of a request makes of it.
LEMMA Asks ==
    ASSUME ConflictsTypeOK, NEW i \in MemoryIds
    PROVE  /\ \A s \in {"gated", "scanned", "committed"} :
                 AddGoes(i, s) => /\ adding' \in [MemoryIds -> Request]
                                  /\ adding' = [adding EXCEPT ![i] = [adding[i] EXCEPT !.step = s]]
           /\ EndAdd(i) => adding' \in [MemoryIds -> Request]
<1>1. ASSUME NEW s \in {"gated", "scanned", "committed"}, AddGoes(i, s)
      PROVE  /\ adding' \in [MemoryIds -> Request]
             /\ adding' = [adding EXCEPT ![i] = [adding[i] EXCEPT !.step = s]]
  <2>1. adding[i] \in Request
    BY DEF ConflictsTypeOK
  <2>2. [adding[i] EXCEPT !.step = s] \in Request
    BY <2>1 DEF Request
  <2>3. adding' = [adding EXCEPT ![i] = [adding[i] EXCEPT !.step = s]]
    BY <1>1 DEF AddGoes
  <2> QED BY <2>2, <2>3 DEF ConflictsTypeOK
<1>2. ASSUME EndAdd(i) PROVE adding' \in [MemoryIds -> Request]
  <2>1. [NotAsking EXCEPT !.step = "done"] \in Request
    BY AbsentTyped DEF NotAsking, Request
  <2> QED BY <1>2, <2>1 DEF EndAdd, ConflictsTypeOK
<1> QED BY <1>1, <1>2

LEMMA JudgedTyped ==
    ASSUME ConflictsTypeOK, NEW j \in MemoryIds, NEW m, m.text \in Statements \cup {"none"}
    PROVE  Judged(j, m) \in Statements \cup {"none"}
BY DEF ConflictsTypeOK, Judged

LEMMA TargetTyped == ASSUME ConflictsTypeOK, NEW i \in MemoryIds PROVE Target(i) \in MemoryRow
BY DEF ConflictsTypeOK, Target, Request, MemoryRow

\* What a scan may do with the cache and with the request.
LEMMA ScanTyped ==
    ASSUME ConflictsTypeOK, NEW i \in MemoryIds, ScanConflicts(i)
    PROVE  ConflictsTypeOK'
<1>1. adding' \in [MemoryIds -> Request] /\ gate' \in MemoryIds \cup {NoAdd}
  BY Asks DEF ScanConflicts, ConflictsTypeOK
<1>2. \A j \in MemoryIds : InHand(i, j) \in MemoryRow
  BY TargetTyped DEF InHand, ConflictsTypeOK, Request
<1>3. \A j \in MemoryIds : [rev |-> InHand(i, j).rev, text |-> Judged(j, InHand(i, j))]
                         \in [rev : Nat, text : Statements \cup {"none"}]
  BY <1>2, JudgedTyped DEF MemoryRow
<1>4. cache' \in [MemoryIds -> [rev : Nat, text : Statements \cup {"none"}]]
  BY <1>3 DEF ScanConflicts, ConflictsTypeOK
<1>5. overtaken' \in BOOLEAN
  BY DEF ScanConflicts, ConflictsTypeOK
<1> QED BY <1>1, <1>4, <1>5 DEF ScanConflicts, ConflictsTypeOK

LEMMA Spends ==
    ASSUME ConflictsTypeOK
    PROVE  /\ Changes => /\ tally' \in [changes : Nat, restores : Nat, faults : Nat, writes : Nat]
                         /\ tally'.writes = tally.writes + 1
           /\ Fault => /\ tally' \in [changes : Nat, restores : Nat, faults : Nat, writes : Nat]
                       /\ tally'.writes = tally.writes
<1>1. tally \in [changes : Nat, restores : Nat, faults : Nat, writes : Nat]
  BY DEF ConflictsTypeOK
<1>2. ASSUME Changes
      PROVE  /\ tally' \in [changes : Nat, restores : Nat, faults : Nat, writes : Nat]
             /\ tally'.writes = tally.writes + 1
  <2>1. tally' = [tally EXCEPT !.changes = tally.changes + 1, !.writes = tally.writes + 1]
    BY <1>1, <1>2 DEF Changes
  <2>2. tally.changes + 1 \in Nat /\ tally.writes + 1 \in Nat
    BY <1>1
  <2> QED BY <1>1, <2>1, <2>2
<1>3. ASSUME Fault
      PROVE  /\ tally' \in [changes : Nat, restores : Nat, faults : Nat, writes : Nat]
             /\ tally'.writes = tally.writes
  <2>1. tally' = [tally EXCEPT !.faults = tally.faults + 1]
    BY <1>1, <1>3 DEF Fault
  <2> QED BY <1>1, <2>1
<1> QED BY <1>2, <1>3

\* A text that is replaced.
Reworded(m, t, n) == [m EXCEPT !.text = t, !.rev = m.rev + 1, !.how = "reworded", !.since = n]

LEMMA UpdateText ==
    ASSUME ConflictsTypeOK, NEW i \in MemoryIds, NEW t \in Statements, UpdateMemory(i, t)
    PROVE  /\ Reworded(held[i], t, tally.writes + 1) \in MemoryRow
           /\ held' = [held EXCEPT ![i] = Reworded(held[i], t, tally.writes + 1)]
<1>1. held[i] \in MemoryRow /\ tally.writes \in Nat
  BY DEF ConflictsTypeOK
<1>2. Reworded(held[i], t, tally.writes + 1) \in MemoryRow
  <2> DEFINE r == held[i].rev + 1
             n == tally.writes + 1
  <2>1. r \in Nat /\ n \in Nat
    BY <1>1 DEF MemoryRow
  <2> HIDE DEF r, n
  <2>2. [held[i] EXCEPT !.text = t, !.rev = r, !.how = "reworded", !.since = n] \in MemoryRow
    BY <1>1, <2>1 DEF MemoryRow
  <2> QED BY <2>2 DEF Reworded, r, n
<1>3. held' = [held EXCEPT ![i] = [held[i] EXCEPT !.text = t, !.rev = held[i].rev + 1,
                       !.how = "reworded", !.since = tally.writes + 1]]
  BY DEF UpdateMemory
<1> QED BY <1>2, <1>3 DEF Reworded

LEMMA TypeNext == ConflictsTypeOK /\ [ConflictsNext]_conflictvars => ConflictsTypeOK'
<1> SUFFICES ASSUME ConflictsTypeOK, [ConflictsNext]_conflictvars PROVE ConflictsTypeOK'
  OBVIOUS
<1>1. ASSUME NEW i \in MemoryIds, TakeGate(i) PROVE ConflictsTypeOK'
  BY <1>1, Asks DEF TakeGate, ConflictsTypeOK
<1>2. ASSUME NEW i \in MemoryIds, Snapshot(i) PROVE ConflictsTypeOK'
  <2> DEFINE step == IF adding[i].step = "gated" THEN "read" ELSE "reread"
             new == [adding[i] EXCEPT !.step = step, !.seen = held, !.seenGen = epoch]
  <2>1. adding' = [adding EXCEPT ![i] = new]
    BY <1>2 DEF Snapshot, ConflictsTypeOK
  <2>2. step \in {"read", "reread"} /\ adding[i] \in Request
    BY DEF ConflictsTypeOK
  <2> HIDE DEF step
  <2>3. new \in Request
    BY <2>2 DEF ConflictsTypeOK, Request
  <2> HIDE DEF new
  <2>4. adding' \in [MemoryIds -> Request]
    BY <2>1, <2>3 DEF ConflictsTypeOK
  <2> QED BY <1>2, <2>4 DEF Snapshot, ConflictsTypeOK
<1>3. ASSUME NEW i \in MemoryIds, ScanConflicts(i) PROVE ConflictsTypeOK'
  BY <1>3, ScanTyped
<1>4. ASSUME NEW i \in MemoryIds, CommitAdd(i) PROVE ConflictsTypeOK'
  <2>1. adding' \in [MemoryIds -> Request] /\ gate' \in MemoryIds \cup {NoAdd}
    BY <1>4, Asks DEF CommitAdd, ConflictsTypeOK
  <2>2. held' \in [MemoryIds -> MemoryRow]
    BY <1>4, TargetTyped DEF CommitAdd, ConflictsTypeOK
  <2>3. tally' \in [changes : Nat, restores : Nat, faults : Nat, writes : Nat]
    BY <1>4 DEF CommitAdd, ConflictsTypeOK
  <2> QED BY <1>4, <2>1, <2>2, <2>3 DEF CommitAdd, ConflictsTypeOK
<1>5. ASSUME NEW i \in MemoryIds, ForgetMemory(i) PROVE ConflictsTypeOK'
  <2>1. [held[i] EXCEPT !.life = "hidden"] \in MemoryRow
    BY DEF ConflictsTypeOK, MemoryRow
  <2>2. held' \in [MemoryIds -> MemoryRow]
    BY <1>5, <2>1 DEF ForgetMemory, ConflictsTypeOK
  <2>3. tally' \in [changes : Nat, restores : Nat, faults : Nat, writes : Nat]
    BY <1>5, Spends DEF ForgetMemory
  <2> QED BY <1>5, <2>2, <2>3 DEF ForgetMemory, ConflictsTypeOK
<1>6. ASSUME NEW i \in MemoryIds, Prune(i) PROVE ConflictsTypeOK'
  BY <1>6 DEF Prune, ConflictsTypeOK, NoSignature
<1>7. ASSUME NEW i \in MemoryIds, NEW t \in Statements, Ask(i, t) PROVE ConflictsTypeOK'
  <2>1. [NotAsking EXCEPT !.step = "asked", !.text = t, !.gen = epoch] \in Request
    BY AbsentTyped DEF ConflictsTypeOK, NotAsking, Request
  <2> QED BY <1>7, <2>1 DEF Ask, ConflictsTypeOK
<1>8. ASSUME NEW i \in MemoryIds, NEW t \in Statements, UpdateMemory(i, t) PROVE ConflictsTypeOK'
  <2>1. held' \in [MemoryIds -> MemoryRow]
    BY <1>8, UpdateText DEF ConflictsTypeOK
  <2>2. tally' \in [changes : Nat, restores : Nat, faults : Nat, writes : Nat]
    BY <1>8, Spends DEF UpdateMemory
  <2> QED BY <1>8, <2>1, <2>2 DEF UpdateMemory, ConflictsTypeOK
<1>9. ASSUME NEW i \in MemoryIds, NEW t \in Statements, NEW k \in MemoryIds, MergeMemories(i, k, t)
      PROVE ConflictsTypeOK'
  <2> DEFINE gone == [held[i] EXCEPT !.life = "hidden"]
             since == tally.writes + 1
             made == [life |-> "live", text |-> t, rev |-> 1, how |-> "merged", since |-> since]
  <2>1. gone \in MemoryRow /\ since \in Nat
    <3>1. held[i] \in MemoryRow /\ since \in Nat
      BY DEF ConflictsTypeOK
    <3> HIDE DEF since
    <3>2. gone \in MemoryRow
      BY <3>1 DEF MemoryRow
    <3> QED BY <3>1, <3>2
  <2>2. held' \in [MemoryIds -> MemoryRow]
    <3>1. held' = [held EXCEPT ![i] = gone, ![k] = made]
      BY <1>9 DEF MergeMemories, ConflictsTypeOK
    <3> HIDE DEF since
    <3>2. made \in MemoryRow
      BY <2>1 DEF MemoryRow
    <3> HIDE DEF gone, made
    <3> QED BY <2>1, <3>1, <3>2 DEF ConflictsTypeOK
  <2>3. tally' \in [changes : Nat, restores : Nat, faults : Nat, writes : Nat]
    BY <1>9, Spends DEF MergeMemories
  <2>4. adding' \in [MemoryIds -> Request]
    BY <1>9, AbsentTyped DEF MergeMemories, ConflictsTypeOK, NotAsking, Request
  <2> QED BY <1>9, <2>2, <2>3, <2>4 DEF MergeMemories, ConflictsTypeOK
<1>10. CASE Export
  BY <1>10 DEF Export, ConflictsTypeOK
<1>11. CASE RestoreReplace
  BY <1>11 DEF RestoreReplace, ConflictsTypeOK
<1>12. CASE RestoreClear
  <2>1. tally' \in [changes : Nat, restores : Nat, faults : Nat, writes : Nat]
    BY <1>12, Spends DEF RestoreClear, ConflictsTypeOK
  <2>2. cache' \in [MemoryIds -> [rev : Nat, text : Statements \cup {"none"}]]
    BY <1>12 DEF RestoreClear, Emptied, NoSignature, ConflictsTypeOK
  <2>3. {replacing', overtaken'} \subseteq BOOLEAN
    BY <1>12 DEF RestoreClear, ConflictsTypeOK
  <2> QED BY <1>12, <2>1, <2>2, <2>3 DEF RestoreClear, ConflictsTypeOK
<1>13. CASE Restart
  <2>1. adding' \in [MemoryIds -> Request]
    BY <1>13, AbsentTyped DEF Restart, ConflictsTypeOK, NotAsking, Request
  <2>2. tally' \in [changes : Nat, restores : Nat, faults : Nat, writes : Nat]
    BY <1>13, Spends DEF Restart
  <2> QED BY <1>13, <2>1, <2>2 DEF Restart, NoSignature, ConflictsTypeOK, NoAdd
<1>14. CASE UNCHANGED conflictvars
  BY <1>14 DEF conflictvars, ConflictsTypeOK
<1> QED
  BY <1>1, <1>2, <1>3, <1>4, <1>5, <1>6, <1>7, <1>8, <1>9, <1>10, <1>11, <1>12, <1>13, <1>14
    DEF ConflictsNext

-----------------------------------------------------------------------------
(* The steps of adds, the gate, and what is new.                           *)

LEMMA StepsInit == ConflictsInit => StepsInv
<1> SUFFICES ASSUME ConflictsInit PROVE StepsInv
  OBVIOUS
<1>1. \A i \in MemoryIds : /\ adding[i].step \in {"idle", "done"} /\ adding[i].seen = Empty
                           /\ adding[i].step = "idle" => held[i] = Unborn /\ copy[i] = Unborn
  BY DEF ConflictsInit, NotAsking
<1>2. GateInv
  <2> SUFFICES ASSUME NEW i \in MemoryIds PROVE adding[i].step \notin Holding /\ gate # i
    BY DEF GateInv
  <2> QED BY <1>1, ConflictsAssumption DEF ConflictsInit, Holding
<1>3. NewInv
  <2> SUFFICES ASSUME NEW i \in MemoryIds PROVE NewIn(held, i) /\ NewIn(copy, i)
    BY DEF NewInv
  <2> QED BY <1>1 DEF NewIn, Early, Late, Unborn
<1>4. SignInv
  <2> SUFFICES ASSUME NEW i \in MemoryIds PROVE cache[i] = NoSignature /\ adding[i].step \notin Late
    BY DEF SignInv
  <2> QED BY <1>1 DEF ConflictsInit, Late
<1>5. SeenInv
  BY <1>1 DEF SeenInv, Empty, Unborn
<1> QED BY <1>2, <1>3, <1>4, <1>5 DEF StepsInv

\* A step of one request, whose text and snapshot stay, with the stores as they are.
LEMMA OneMoves ==
    ASSUME ConflictsTypeOK, StepsInv, NEW i \in MemoryIds,
           \A k \in MemoryIds \ {i} : adding'[k] = adding[k],
           adding'[i].text = adding[i].text \/ adding[i].step = "idle",
           adding'[i].step \in Holding <=> gate' = i,
           gate = gate' \/ {gate, gate'} = {i, NoAdd},
           \/ adding[i].step \in Early /\ adding'[i].step \in Early
           \/ adding[i].step = "committed" /\ adding'[i].step = "reread"
           \/ adding'[i].step = "done",
           UNCHANGED <<held, copy, cache>>
    PROVE  GateInv' /\ NewInv' /\ SignInv'
<1>1. GateInv'
  BY ConflictsAssumption DEF StepsInv, GateInv, Holding
<1>2. NewInv'
  BY DEF StepsInv, NewInv, NewIn, Early, Late
<1>3. SignInv'
  BY DEF StepsInv, SignInv, OfAdd, Early, Late
<1> QED BY <1>1, <1>2, <1>3

\* While nobody holds the gate no add is under it.
LEMMA NobodyHolds ==
    ASSUME StepsInv
    PROVE  /\ gate = NoAdd => \A k \in MemoryIds : adding[k].step \notin Holding
           /\ \A i, k \in MemoryIds : adding[i].step \in Holding /\ adding[k].step \in Holding => i = k
BY ConflictsAssumption DEF StepsInv, GateInv

\* A memory that is live was added.
LEMMA LiveIsOld ==
    ASSUME StepsInv, NEW i \in MemoryIds, held[i].life = "live"
    PROVE  adding[i].step \notin Early \cup {"scanned"}
BY DEF StepsInv, NewInv, NewIn

LEMMA ScanSteps ==
    ASSUME ConflictsTypeOK, StepsInv, NEW i \in MemoryIds, ScanConflicts(i)
    PROVE  StepsInv'
<1>0. /\ adding[i].step \in {"read", "reread"} /\ gate = i
      /\ \A k \in MemoryIds \ {i} : adding'[k] = adding[k]
      /\ UNCHANGED <<held, copy>>
  BY DEF ScanConflicts, EndAdd, AddGoes, ConflictsTypeOK, StepsInv, GateInv, Holding
<1>1. \/ adding'[i].step = "done" /\ adding'[i].seen = Empty /\ gate' = NoAdd
      \/ /\ adding[i].step = "read" /\ adding'[i].step = "scanned" /\ gate' = i
         /\ adding'[i].text = adding[i].text /\ adding'[i].seen = adding[i].seen
  <2>1. CASE adding[i].step = "reread" \/ ClashesOf(i) # {}
    BY <2>1 DEF ScanConflicts, EndAdd, NotAsking, ConflictsTypeOK
  <2>2. CASE ~(adding[i].step = "reread" \/ ClashesOf(i) # {})
    <3>1. adding' = [adding EXCEPT ![i] = [adding[i] EXCEPT !.step = "scanned"]] /\ gate' = gate
      BY <2>2, Asks DEF ScanConflicts
    <3> QED BY <1>0, <2>2, <3>1 DEF ConflictsTypeOK, Request
  <2> QED BY <2>1, <2>2
<1>2. GateInv'
  <2> SUFFICES ASSUME NEW k \in MemoryIds PROVE adding'[k].step \in Holding <=> gate' = k
    BY DEF GateInv
  <2>1. CASE k = i
    BY <1>1, <2>1, ConflictsAssumption DEF Holding
  <2>2. CASE k # i
    BY <1>0, <1>1, <2>2, ConflictsAssumption DEF StepsInv, GateInv
  <2> QED BY <2>1, <2>2
<1>3. NewInv'
  <2> SUFFICES ASSUME NEW k \in MemoryIds PROVE NewIn(held, k)' /\ NewIn(copy, k)'
    BY DEF NewInv
  <2>1. CASE k = i
    BY <1>0, <1>1, <2>1 DEF StepsInv, NewInv, NewIn, Early, Late
  <2>2. CASE k # i
    BY <1>0, <2>2 DEF StepsInv, NewInv, NewIn
  <2> QED BY <2>1, <2>2
<1>4. SignInv'
  <2> SUFFICES ASSUME NEW k \in MemoryIds
               PROVE  /\ adding'[k].step \in Early => cache'[k] = NoSignature
                      /\ adding'[k].step \in Late => cache'[k] \in OfAdd(k)'
    BY DEF SignInv
  <2>1. CASE k = i
    <3>1. SUFFICES ASSUME adding'[i].step = "scanned" PROVE cache'[i] \in OfAdd(i)'
      BY <1>1, <2>1 DEF Early, Late
    <3>2. cache[i] = NoSignature /\ adding[i].step = "read"
      BY <1>1, <3>1 DEF StepsInv, SignInv, Early
    <3>3. cache'[i] = [rev |-> 0, text |-> adding[i].text]
      BY <3>2 DEF ScanConflicts, Scanned, InHand, Target, Judged, Kept
    <3> QED BY <1>1, <3>1, <3>3 DEF OfAdd
  <2>2. CASE k # i
    <3>1. adding[k].step \notin Late
      BY <1>0, <2>2, NobodyHolds DEF Late, Holding
    <3>2. ASSUME adding[k].step \in Early PROVE cache'[k] = cache[k]
      <4>1. k \notin Scanned(i)
        BY <2>2, <3>2 DEF Scanned, Compared, LiveIn, StepsInv, SeenInv
      <4> QED BY <4>1 DEF ScanConflicts
    <3> QED BY <1>0, <2>2, <3>1, <3>2 DEF StepsInv, SignInv
  <2> QED BY <2>1, <2>2
<1>5. SeenInv'
  <2> SUFFICES ASSUME NEW k \in MemoryIds, NEW n \in MemoryIds, adding'[k].step \in Early
               PROVE  adding'[n].seen[k].life = "absent"
    BY DEF SeenInv
  <2>1. adding[k].step \in Early
    BY <1>0, <1>1 DEF Early
  <2>2. adding'[n].seen = adding[n].seen \/ adding'[n].seen = Empty
    BY <1>0, <1>1
  <2> QED BY <2>1, <2>2 DEF StepsInv, SeenInv, Empty, Unborn
<1> QED BY <1>2, <1>3, <1>4, <1>5 DEF StepsInv

LEMMA RequestSteps ==
    ASSUME ConflictsTypeOK, StepsInv, NEW i \in MemoryIds,
           TakeGate(i) \/ Snapshot(i) \/ \E t \in Statements : Ask(i, t)
    PROVE  StepsInv'
<1>1. /\ \A k \in MemoryIds \ {i} : adding'[k] = adding[k]
      /\ adding'[i].text = adding[i].text \/ adding[i].step = "idle"
      /\ \/ adding[i].step \in Early /\ adding'[i].step \in Early
         \/ adding[i].step = "committed" /\ adding'[i].step = "reread"
      /\ adding'[i].step \in Holding <=> gate' = i
      /\ gate = gate' \/ {gate, gate'} = {i, NoAdd}
      /\ UNCHANGED <<held, copy, cache>>
      /\ adding'[i].seen \in {adding[i].seen, held, Empty}
  <2>1. CASE TakeGate(i)
    <3>1. adding' = [adding EXCEPT ![i] = [adding[i] EXCEPT !.step = "gated"]]
      BY <2>1, Asks DEF TakeGate
    <3> QED BY <2>1, <3>1 DEF TakeGate, ConflictsTypeOK, Request, Early, Holding
  <2>2. CASE Snapshot(i)
    <3>1. /\ adding[i] \in Request
          /\ adding' = [adding EXCEPT ![i] = [adding[i] EXCEPT !.step = IF @ = "gated" THEN "read" ELSE "reread",
                                                      !.seen = held, !.seenGen = epoch]]
      BY <2>2 DEF Snapshot, ConflictsTypeOK
    <3>2. /\ adding'[i].step = IF adding[i].step = "gated" THEN "read" ELSE "reread"
          /\ adding'[i].text = adding[i].text /\ adding'[i].seen = held
      BY <3>1 DEF ConflictsTypeOK, Request
    <3> QED BY <2>2, <3>1, <3>2 DEF Snapshot, ConflictsTypeOK, Early, Holding, StepsInv, GateInv
  <2>3. CASE \E t \in Statements : Ask(i, t)
    <3>0. PICK t \in Statements : Ask(i, t)
      BY <2>3
    <3>1. adding'[i] = [NotAsking EXCEPT !.step = "asked", !.text = t, !.gen = epoch]
      BY <3>0 DEF Ask, ConflictsTypeOK
    <3>2. adding'[i].step = "asked" /\ adding'[i].seen = Empty
      BY <3>1 DEF NotAsking
    <3> QED BY <2>3, <3>2 DEF Ask, ConflictsTypeOK, Early, Holding, StepsInv, GateInv
  <2> QED BY <2>1, <2>2, <2>3
<1>2. GateInv' /\ NewInv' /\ SignInv'
  BY <1>1, OneMoves
<1>3. SeenInv'
  <2> SUFFICES ASSUME NEW k \in MemoryIds, NEW n \in MemoryIds, adding'[k].step \in Early
               PROVE  adding'[n].seen[k].life = "absent"
    BY DEF SeenInv
  <2>1. adding[k].step \in Early
    BY <1>1 DEF Early
  <2>2. held[k].life = "absent" /\ adding[n].seen[k].life = "absent" /\ Empty[k].life = "absent"
    BY <2>1 DEF StepsInv, NewInv, NewIn, SeenInv, Empty, Unborn
  <2> QED BY <1>1, <2>2
<1> QED BY <1>2, <1>3 DEF StepsInv

LEMMA CommitSteps ==
    ASSUME ConflictsTypeOK, StepsInv, NEW i \in MemoryIds, CommitAdd(i)
    PROVE  StepsInv'
<1>0. /\ adding[i].step = "scanned" /\ gate = i /\ UNCHANGED <<copy, cache>>
      /\ \A k \in MemoryIds \ {i} : adding'[k] = adding[k]
  BY DEF CommitAdd, EndAdd, AddGoes, ConflictsTypeOK, StepsInv, GateInv, Holding
<1>1. CASE adding[i].gen = epoch
  <2>1. /\ adding' = [adding EXCEPT ![i] = [adding[i] EXCEPT !.step = "committed"]]
        /\ held' = [held EXCEPT ![i] = Target(i)] /\ gate' = gate
    BY <1>1, Asks DEF CommitAdd
  <2>2. /\ adding'[i].step = "committed" /\ adding'[i].text = adding[i].text /\ adding'[i].seen = adding[i].seen
        /\ held'[i] = Target(i) /\ \A k \in MemoryIds \ {i} : held'[k] = held[k]
    BY <2>1 DEF ConflictsTypeOK, Request
  <2>3. GateInv'
    BY <1>0, <2>1, <2>2 DEF StepsInv, GateInv, Holding
  <2>4. NewInv'
    BY <1>0, <2>2 DEF StepsInv, NewInv, NewIn, Target, Early, Late
  <2>5. SignInv'
    BY <1>0, <2>2 DEF StepsInv, SignInv, OfAdd, Early, Late
  <2>6. SeenInv'
    BY <1>0, <2>2 DEF StepsInv, SeenInv, Early
  <2> QED BY <2>3, <2>4, <2>5, <2>6 DEF StepsInv
<1>2. CASE adding[i].gen # epoch
  <2>1. /\ adding'[i].step = "done" /\ adding'[i].seen = Empty /\ gate' = NoAdd /\ held' = held
    BY <1>2 DEF CommitAdd, EndAdd, ConflictsTypeOK, NotAsking
  <2>2. GateInv'
    BY <1>0, <2>1, ConflictsAssumption DEF StepsInv, GateInv, Holding
  <2>3. NewInv'
    BY <1>0, <2>1 DEF StepsInv, NewInv, NewIn, Early, Late
  <2>4. SignInv'
    BY <1>0, <2>1 DEF StepsInv, SignInv, OfAdd, Early, Late
  <2>5. SeenInv'
    BY <1>0, <2>1 DEF StepsInv, SeenInv, Early, Empty, Unborn
  <2> QED BY <2>2, <2>3, <2>4, <2>5 DEF StepsInv
<1> QED BY <1>1, <1>2

LEMMA ChangeSteps ==
    ASSUME ConflictsTypeOK, StepsInv, NEW i \in MemoryIds,
           ForgetMemory(i) \/ \E t \in Statements : UpdateMemory(i, t)
    PROVE  StepsInv'
<1>1. /\ UNCHANGED <<adding, copy, cache, gate>>
      /\ adding[i].step \notin Early \cup {"scanned"}
      /\ \A k \in MemoryIds \ {i} : held'[k] = held[k]
  <2>1. held[i].life = "live"
    BY DEF ForgetMemory, UpdateMemory
  <2> QED BY <2>1, LiveIsOld DEF ForgetMemory, UpdateMemory, ConflictsTypeOK
<1>2. adding[i].step \in Late => held'[i].rev = held[i].rev /\ held'[i].text = held[i].text
                             /\ held[i].life # "absent"
  <2>1. CASE ForgetMemory(i)
    <3>1. held'[i] = [held[i] EXCEPT !.life = "hidden"] /\ held[i].life = "live"
      BY <2>1 DEF ForgetMemory, ConflictsTypeOK
    <3> QED BY <3>1 DEF ConflictsTypeOK, MemoryRow
  <2>2. CASE \E t \in Statements : UpdateMemory(i, t)
    BY <2>2, NobodyHolds DEF UpdateMemory, Late, Holding
  <2> QED BY <2>1, <2>2
<1>3. NewInv'
  BY <1>1, <1>2 DEF StepsInv, NewInv, NewIn, Late, Early
<1> QED BY <1>1, <1>3 DEF StepsInv, GateInv, SignInv, SeenInv, OfAdd

LEMMA MergeSteps ==
    ASSUME ConflictsTypeOK, StepsInv, NEW i \in MemoryIds, NEW k \in MemoryIds, NEW t \in Statements,
           MergeMemories(i, k, t)
    PROVE  StepsInv'
<1>1. /\ adding'[k].step = "done" /\ adding'[k].seen = Empty
      /\ \A n \in MemoryIds \ {k} : adding'[n] = adding[n]
      /\ \A n \in MemoryIds \ {i, k} : held'[n] = held[n]
      /\ UNCHANGED <<copy, cache, gate>>
      /\ adding[k].step = "idle" /\ gate = NoAdd
      /\ adding[i].step \notin Early \cup Late
  BY LiveIsOld, NobodyHolds DEF MergeMemories, ConflictsTypeOK, NotAsking, Late, Holding
<1>2. GateInv'
  BY <1>1 DEF StepsInv, GateInv, Holding
<1>3. NewInv'
  BY <1>1 DEF StepsInv, NewInv, NewIn, Early, Late
<1>4. SignInv'
  BY <1>1 DEF StepsInv, SignInv, OfAdd, Early, Late
<1>5. SeenInv'
  BY <1>1 DEF StepsInv, SeenInv, Early, Empty, Unborn
<1> QED BY <1>2, <1>3, <1>4, <1>5 DEF StepsInv

LEMMA RestartSteps ==
    ASSUME ConflictsTypeOK, StepsInv, Restart PROVE StepsInv'
<1>1. /\ \A i \in MemoryIds : /\ adding'[i].step \in {"idle", "done"} /\ adding'[i].seen = Empty
                              /\ adding'[i].step = "idle" => adding[i].step = "idle"
                        /\ cache'[i] = NoSignature
      /\ gate' = NoAdd /\ UNCHANGED <<held, copy>>
  BY DEF Restart, NotAsking
<1>2. GateInv'
  <2> SUFFICES ASSUME NEW i \in MemoryIds PROVE adding'[i].step \notin Holding /\ gate' # i
    BY DEF GateInv
  <2> QED BY <1>1, ConflictsAssumption DEF Holding
<1>3. NewInv'
  BY <1>1 DEF StepsInv, NewInv, NewIn, Early, Late
<1>4. SignInv'
  BY <1>1 DEF SignInv, OfAdd
<1>5. SeenInv'
  BY <1>1 DEF SeenInv, Empty, Unborn
<1> QED BY <1>2, <1>3, <1>4, <1>5 DEF StepsInv

LEMMA StepsNext ==
    ConflictsTypeOK /\ StepsInv /\ [ConflictsNext]_conflictvars => StepsInv'
<1> SUFFICES ASSUME ConflictsTypeOK, StepsInv, [ConflictsNext]_conflictvars PROVE StepsInv'
  OBVIOUS
<1>1. ASSUME NEW i \in MemoryIds, TakeGate(i) \/ Snapshot(i) \/ \E t \in Statements : Ask(i, t)
      PROVE StepsInv'
  BY <1>1, RequestSteps
<1>2. ASSUME NEW i \in MemoryIds, ScanConflicts(i) PROVE StepsInv'
  BY <1>2, ScanSteps
<1>3. ASSUME NEW i \in MemoryIds, CommitAdd(i) PROVE StepsInv'
  BY <1>3, CommitSteps
<1>4. ASSUME NEW i \in MemoryIds, ForgetMemory(i) \/ \E t \in Statements : UpdateMemory(i, t)
      PROVE StepsInv'
  BY <1>4, ChangeSteps
<1>5. ASSUME NEW i \in MemoryIds, NEW t \in Statements, NEW k \in MemoryIds, MergeMemories(i, k, t)
      PROVE StepsInv'
  BY <1>5, MergeSteps
<1>6. ASSUME NEW i \in MemoryIds, Prune(i) PROVE StepsInv'
  <2>1. \A k \in MemoryIds : cache'[k] \in {cache[k], NoSignature}
    BY <1>6 DEF Prune, ConflictsTypeOK
  <2> QED BY <1>6, <2>1 DEF Prune, StepsInv, GateInv, NewInv, NewIn, SignInv, SeenInv, OfAdd
<1>7. CASE Export
  BY <1>7 DEF Export, StepsInv, GateInv, NewInv, NewIn, SignInv, SeenInv, OfAdd
<1>8. CASE RestoreReplace
  BY <1>8 DEF RestoreReplace, StepsInv, GateInv, NewInv, NewIn, SignInv, SeenInv, OfAdd
<1>9. CASE RestoreClear
  <2>1. \A k \in MemoryIds : cache'[k] \in {cache[k], NoSignature}
    BY <1>9 DEF RestoreClear, Emptied
  <2> QED BY <1>9, <2>1 DEF RestoreClear, StepsInv, GateInv, NewInv, NewIn, SignInv, SeenInv, OfAdd
<1>10. CASE Restart
  BY <1>10, RestartSteps
<1>11. CASE UNCHANGED conflictvars
  BY <1>11 DEF conflictvars, StepsInv, GateInv, NewInv, NewIn, SignInv, SeenInv, OfAdd
<1> QED BY <1>1, <1>2, <1>3, <1>4, <1>5, <1>6, <1>7, <1>8, <1>9, <1>10, <1>11 DEF ConflictsNext

-----------------------------------------------------------------------------
(* What snapshots, the cache and the stores say of each other.             *)

\* What a step that is a change makes of the memories.
LEMMA ForgetKeeps ==
    ASSUME ConflictsTypeOK, NEW i \in MemoryIds, ForgetMemory(i)
    PROVE  /\ held[i].life = "live" /\ held'[i] = [held[i] EXCEPT !.life = "hidden"]
           /\ held'[i].life = "hidden"
           /\ \A j \in MemoryIds : StillSo(held[j], held'[j])
           /\ \A j \in MemoryIds \ {i} : held'[j] = held[j]
<1>1. /\ held[i].life = "live" /\ held'[i] = [held[i] EXCEPT !.life = "hidden"]
      /\ \A j \in MemoryIds \ {i} : held'[j] = held[j]
  BY DEF ForgetMemory, ConflictsTypeOK
<1>2. held'[i].life = "hidden" /\ held'[i].text = held[i].text /\ held'[i].rev = held[i].rev
  BY <1>1 DEF ConflictsTypeOK, MemoryRow
<1> QED BY <1>1, <1>2 DEF StillSo

LEMMA UpdateKeeps ==
    ASSUME ConflictsTypeOK, NEW i \in MemoryIds, NEW t \in Statements, UpdateMemory(i, t)
    PROVE  /\ held[i].life = "live" /\ held'[i].how = "reworded"
           /\ held'[i].rev = held[i].rev + 1 /\ held'[i].since = tally.writes + 1
           /\ \A j \in MemoryIds \ {i} : held'[j] = held[j]
<1>1. held[i] \in MemoryRow /\ held'[i] = Reworded(held[i], t, tally.writes + 1)
  BY UpdateText DEF ConflictsTypeOK
<1>2. held'[i].how = "reworded" /\ held'[i].rev = held[i].rev + 1 /\ held'[i].since = tally.writes + 1
  BY <1>1 DEF Reworded, MemoryRow
<1> QED BY <1>2 DEF UpdateMemory, ConflictsTypeOK

LEMMA MergeKeeps ==
    ASSUME ConflictsTypeOK, NEW i \in MemoryIds, NEW k \in MemoryIds, NEW t \in Statements, MergeMemories(i, k, t)
    PROVE  /\ held'[k].how = "merged" /\ held'[k].since = tally.writes + 1
           /\ i # k => /\ held'[i].life = "hidden" /\ held[i].life = "live"
                       /\ held'[i].rev = held[i].rev /\ held'[i].text = held[i].text
                       /\ held'[i].since = held[i].since
           /\ \A j \in MemoryIds \ {i, k} : held'[j] = held[j]
<1>1. /\ held'[k] = [life |-> "live", text |-> t, rev |-> 1, how |-> "merged",
                      since |-> tally.writes + 1]
      /\ i # k => held'[i] = [held[i] EXCEPT !.life = "hidden"] /\ held[i].life = "live"
      /\ \A j \in MemoryIds \ {i, k} : held'[j] = held[j]
  BY DEF MergeMemories, ConflictsTypeOK
<1> QED BY <1>1 DEF ConflictsTypeOK, MemoryRow

LEMMA SnapshotNext ==
    ConflictsTypeOK /\ StepsInv /\ SnapshotInv /\ [ConflictsNext]_conflictvars
        => SnapshotInv'
<1> SUFFICES ASSUME ConflictsTypeOK, StepsInv, SnapshotInv, [ConflictsNext]_conflictvars
             PROVE  SnapshotInv'
  OBVIOUS
<1>a. epoch \in Nat /\ \A i \in MemoryIds : adding[i] \in Request
  BY DEF ConflictsTypeOK
<1>b. ASSUME NEW i \in MemoryIds, \A k \in MemoryIds \ {i} : adding'[k] = adding[k], Dated(i)', epoch' = epoch,
             \/ held' = held
             \/ \A k \in MemoryIds \ {i} : adding[k].step \notin Holding
      PROVE  SnapshotInv'
  <2> SUFFICES ASSUME NEW k \in MemoryIds, k # i PROVE Dated(k)'
    BY <1>b DEF SnapshotInv
  <2> QED BY <1>b DEF SnapshotInv, Dated, Holding
<1>c. ASSUME NEW i \in MemoryIds, EndAdd(i) PROVE /\ adding'[i] = [NotAsking EXCEPT !.step = "done"]
                                          /\ \A k \in MemoryIds \ {i} : adding'[k] = adding[k]
  BY <1>c DEF EndAdd, ConflictsTypeOK
<1>d. ASSUME NEW i \in MemoryIds, adding'[i] = [NotAsking EXCEPT !.step = "done"], epoch' = epoch
      PROVE Dated(i)'
  BY <1>a, <1>d DEF Dated, NotAsking
<1>e. ASSUME NEW i \in MemoryIds, NEW st \in {"gated", "scanned", "committed"}, AddGoes(i, st), epoch' = epoch,
             st # "gated" => adding[i].step \in {"read", "scanned"}
      PROVE  Dated(i)' /\ \A k \in MemoryIds \ {i} : adding'[k] = adding[k]
  <2>1. adding' = [adding EXCEPT ![i] = [adding[i] EXCEPT !.step = st]]
    BY <1>e, Asks
  <2>2. /\ adding'[i].step = st /\ adding'[i].gen = adding[i].gen /\ adding'[i].seenGen = adding[i].seenGen
        /\ \A k \in MemoryIds \ {i} : adding'[k] = adding[k]
    BY <1>a, <2>1 DEF ConflictsTypeOK, Request
  <2> QED BY <1>e, <2>2 DEF SnapshotInv, Dated
<1>1. ASSUME NEW i \in MemoryIds, TakeGate(i) PROVE SnapshotInv'
  BY <1>1, <1>b, <1>e DEF TakeGate
<1>2. ASSUME NEW i \in MemoryIds, Snapshot(i) PROVE SnapshotInv'
  <2>1. adding' = [adding EXCEPT ![i] = [adding[i] EXCEPT !.step = IF @ = "gated" THEN "read" ELSE "reread",
                                                 !.seen = held, !.seenGen = epoch]]
    BY <1>2 DEF Snapshot, ConflictsTypeOK
  <2>2. /\ adding'[i].seen = held /\ adding'[i].gen = adding[i].gen /\ adding'[i].seenGen = epoch
        /\ \A k \in MemoryIds \ {i} : adding'[k] = adding[k]
    BY <1>a, <2>1 DEF ConflictsTypeOK, Request
  <2>3. Dated(i)'
    <3>1. \A j \in MemoryIds : StillSo(held[j], held[j])
      BY DEF StillSo
    <3>2. adding[i].gen <= epoch /\ UNCHANGED <<epoch, held>>
      BY <1>2 DEF Snapshot, SnapshotInv, Dated
    <3> QED BY <1>a, <2>2, <3>1, <3>2 DEF Dated
  <2> QED BY <1>2, <1>b, <2>2, <2>3 DEF Snapshot
<1>3. ASSUME NEW i \in MemoryIds, ScanConflicts(i) PROVE SnapshotInv'
  <2>1. CASE adding[i].step = "reread" \/ ClashesOf(i) # {}
    BY <1>3, <2>1, <1>b, <1>c, <1>d DEF ScanConflicts
  <2>2. CASE ~(adding[i].step = "reread" \/ ClashesOf(i) # {})
    BY <1>3, <2>2, <1>b, <1>e DEF ScanConflicts
  <2> QED BY <2>1, <2>2
<1>4. ASSUME NEW i \in MemoryIds, CommitAdd(i) PROVE SnapshotInv'
  <2>1. \A k \in MemoryIds \ {i} : adding[k].step \notin Holding
    BY <1>4, NobodyHolds DEF CommitAdd, Holding
  <2>2. CASE adding[i].gen = epoch
    BY <1>4, <2>1, <2>2, <1>b, <1>e DEF CommitAdd
  <2>3. CASE adding[i].gen # epoch
    BY <1>4, <2>1, <2>3, <1>b, <1>c, <1>d DEF CommitAdd
  <2> QED BY <2>2, <2>3
<1>5. ASSUME NEW i \in MemoryIds, ForgetMemory(i) PROVE SnapshotInv'
  <2>1. \A j \in MemoryIds : StillSo(held[j], held'[j])
    BY <1>5, ForgetKeeps
  <2>2. \A old : \A j \in MemoryIds : StillSo(old, held[j]) => StillSo(old, held'[j])
    BY <2>1 DEF StillSo
  <2> QED BY <1>5, <2>2 DEF ForgetMemory, SnapshotInv, Dated
<1>6. ASSUME NEW i \in MemoryIds, Prune(i) PROVE SnapshotInv'
  BY <1>6 DEF Prune, SnapshotInv, Dated
<1>7. ASSUME NEW i \in MemoryIds, NEW t \in Statements, Ask(i, t) PROVE SnapshotInv'
  <2>1. /\ adding'[i] = [NotAsking EXCEPT !.step = "asked", !.text = t, !.gen = epoch]
        /\ \A k \in MemoryIds \ {i} : adding'[k] = adding[k]
    BY <1>7 DEF Ask, ConflictsTypeOK
  <2>2. adding'[i].step = "asked" /\ adding'[i].gen = epoch /\ adding'[i].seenGen = 0 /\ epoch' = epoch
    <3>1. adding'[i].step = "asked" /\ adding'[i].gen = epoch
      BY <2>1 DEF NotAsking
    <3>2. adding'[i].seenGen = 0
      BY <2>1 DEF NotAsking
    <3> QED BY <1>7, <3>1, <3>2 DEF Ask
  <2>3. Dated(i)'
    BY <1>a, <2>2 DEF Dated
  <2> QED BY <1>7, <1>b, <2>1, <2>3 DEF Ask
<1>8. ASSUME NEW i \in MemoryIds, NEW t \in Statements, UpdateMemory(i, t) PROVE SnapshotInv'
  <2>1. \A k \in MemoryIds : adding[k].step \notin Holding
    BY <1>8, NobodyHolds DEF UpdateMemory
  <2> QED BY <1>8, <2>1 DEF UpdateMemory, SnapshotInv, Dated, Holding
<1>9. ASSUME NEW i \in MemoryIds, NEW t \in Statements, NEW k \in MemoryIds, MergeMemories(i, k, t)
      PROVE SnapshotInv'
  <2>1. \A n \in MemoryIds : adding[n].step \notin Holding
    BY <1>9, NobodyHolds DEF MergeMemories
  <2>2. /\ adding'[k] = [NotAsking EXCEPT !.step = "done"]
        /\ \A n \in MemoryIds \ {k} : adding'[n] = adding[n]
    BY <1>9 DEF MergeMemories, ConflictsTypeOK
  <2> QED BY <1>9, <1>b, <1>d, <2>1, <2>2 DEF MergeMemories
<1>10. CASE Export
  BY <1>10 DEF Export, SnapshotInv, Dated
<1>11. CASE RestoreReplace
  <2>1. \A i \in MemoryIds : adding[i].gen \in Nat /\ adding[i].seenGen \in Nat
    BY <1>a DEF Request
  <2> QED BY <1>11, <1>a, <2>1 DEF RestoreReplace, SnapshotInv, Dated
<1>12. CASE RestoreClear
  BY <1>12 DEF RestoreClear, SnapshotInv, Dated
<1>13. CASE Restart
  <2>1. \A i \in MemoryIds : /\ adding'[i].gen = 0 /\ adding'[i].seenGen = 0
                             /\ adding'[i].step \in {"idle", "done"}
    BY <1>13 DEF Restart, NotAsking
  <2> QED BY <1>13, <1>a, <2>1 DEF Restart, SnapshotInv, Dated
<1>14. CASE UNCHANGED conflictvars
  BY <1>14 DEF conflictvars, SnapshotInv, Dated
<1> QED
  BY <1>1, <1>2, <1>3, <1>4, <1>5, <1>6, <1>7, <1>8, <1>9, <1>10, <1>11, <1>12, <1>13, <1>14
    DEF ConflictsNext

\* A scan that no restore has overtaken judges the memories as they are.
LEMMA ScanJudges ==
    ASSUME ConflictsTypeOK, StepsInv, SnapshotInv, CacheInv, NEW i \in MemoryIds, ScanConflicts(i), ~overtaken'
    PROVE  /\ adding[i].seenGen = epoch /\ ~replacing /\ ~overtaken
           /\ Judged(i, Target(i)) = adding[i].text
           /\ \A j \in MemoryIds \ {i} :
                 /\ StillSo(adding[i].seen[j], held[j])
                 /\ held[j].life # "absent" => Judged(j, adding[i].seen[j]) = held[j].text
<1>1. /\ adding[i].seenGen = epoch /\ ~replacing /\ ~overtaken
      /\ adding[i].step \in {"read", "reread"}
  BY DEF ScanConflicts
<1>2. Judged(i, Target(i)) = adding[i].text
  <2>1. cache[i] \in OfAdd(i)
    BY <1>1 DEF StepsInv, SignInv, Early, Late, OfAdd
  <2> QED BY <2>1 DEF OfAdd, Judged, Kept, Target
<1>3. ASSUME NEW j \in MemoryIds
      PROVE  /\ StillSo(adding[i].seen[j], held[j])
             /\ held[j].life # "absent" => Judged(j, adding[i].seen[j]) = held[j].text
  <2>1. StillSo(adding[i].seen[j], held[j])
    BY <1>1 DEF SnapshotInv, Dated
  <2>2. Agrees(cache[j], held[j])
    BY <1>1 DEF CacheInv
  <2> QED BY <2>1, <2>2 DEF Agrees, StillSo, Judged, Kept
<1> QED BY <1>1, <1>2, <1>3

LEMMA CacheNext ==
    ConflictsTypeOK /\ StepsInv /\ SnapshotInv /\ CacheInv /\ [ConflictsNext]_conflictvars
        => CacheInv'
<1> SUFFICES ASSUME ConflictsTypeOK, StepsInv, SnapshotInv, CacheInv,
                    [ConflictsNext]_conflictvars, ~replacing', ~overtaken', NEW n \in MemoryIds
             PROVE  Agrees(cache[n], held[n])'
  BY DEF CacheInv
<1>a. held[n] \in MemoryRow /\ cache[n].rev \in Nat
  BY DEF ConflictsTypeOK
<1>1. ASSUME NEW i \in MemoryIds, TakeGate(i) PROVE Agrees(cache[n], held[n])'
  BY <1>1 DEF TakeGate, CacheInv
<1>2. ASSUME NEW i \in MemoryIds, Snapshot(i) PROVE Agrees(cache[n], held[n])'
  BY <1>2 DEF Snapshot, CacheInv
<1>3. ASSUME NEW i \in MemoryIds, ScanConflicts(i) PROVE Agrees(cache[n], held[n])'
  <2>0. ~replacing /\ ~overtaken /\ held' = held /\ adding[i].step \in {"read", "reread"}
    BY <1>3 DEF ScanConflicts
  <2>1. CASE n = i
    <3>1. cache'[i] = [rev |-> 0, text |-> adding[i].text]
      BY <1>3, ScanJudges DEF ScanConflicts, Scanned, InHand, Target
    <3>2. held[i].life = "absent" \/ (held[i].rev = 0 /\ held[i].text = adding[i].text)
      BY <2>0 DEF StepsInv, NewInv, NewIn, Early, Late
    <3> QED BY <2>0, <2>1, <3>1, <3>2 DEF Agrees
  <2>2. CASE n # i /\ n \in Scanned(i)
    <3>1. cache'[n] = [rev |-> adding[i].seen[n].rev, text |-> Judged(n, adding[i].seen[n])]
      BY <1>3, <2>2 DEF ScanConflicts, InHand
    <3>2. adding[i].seen[n].rev = held[n].rev
      BY <1>3, <2>2, ScanJudges DEF StillSo
    <3> QED BY <1>3, <1>a, <2>0, <2>2, <3>1, <3>2, ScanJudges DEF Agrees, MemoryRow
  <2>3. CASE n \notin Scanned(i)
    BY <1>3, <2>0, <2>3 DEF ScanConflicts, CacheInv
  <2> QED BY <2>1, <2>2, <2>3
<1>4. ASSUME NEW i \in MemoryIds, CommitAdd(i) PROVE Agrees(cache[n], held[n])'
  <2>1. CASE n = i /\ adding[i].gen = epoch
    <3>1. held'[i] = Target(i) /\ cache'[i] = cache[i]
      BY <1>4, <2>1 DEF CommitAdd, ConflictsTypeOK
    <3>2. cache[i] \in OfAdd(i)
      BY <1>4 DEF CommitAdd, StepsInv, SignInv, Late
    <3> QED BY <2>1, <3>1, <3>2 DEF Agrees, OfAdd, Target
  <2>2. CASE ~(n = i /\ adding[i].gen = epoch)
    <3>1. held'[n] = held[n]
      BY <1>4, <2>2 DEF CommitAdd, ConflictsTypeOK
    <3> QED BY <1>4, <3>1 DEF CommitAdd, CacheInv
  <2> QED BY <2>1, <2>2
<1>5. ASSUME NEW i \in MemoryIds, ForgetMemory(i) PROVE Agrees(cache[n], held[n])'
  <2>1. StillSo(held[n], held'[n])
    BY <1>5, ForgetKeeps
  <2> QED BY <1>5, <2>1 DEF ForgetMemory, CacheInv, StillSo, Agrees
<1>6. ASSUME NEW i \in MemoryIds, Prune(i) PROVE Agrees(cache[n], held[n])'
  BY <1>6 DEF Prune, CacheInv, Agrees, ConflictsTypeOK
<1>7. ASSUME NEW i \in MemoryIds, NEW t \in Statements, Ask(i, t) PROVE Agrees(cache[n], held[n])'
  BY <1>7 DEF Ask, CacheInv
<1>8. ASSUME NEW i \in MemoryIds, NEW t \in Statements, UpdateMemory(i, t)
      PROVE Agrees(cache[n], held[n])'
  <2>1. CASE n = i
    <3>1. held'[i].rev = held[i].rev + 1 /\ held[i].life # "absent" /\ cache' = cache
      BY <1>8, UpdateKeeps DEF UpdateMemory
    <3>2. Agrees(cache[i], held[i])
      BY <1>8 DEF UpdateMemory, CacheInv
    <3> QED BY <1>a, <2>1, <3>1, <3>2 DEF Agrees, MemoryRow
  <2>2. CASE n # i
    BY <1>8, <2>2, UpdateKeeps DEF UpdateMemory, CacheInv
  <2> QED BY <2>1, <2>2
<1>9. ASSUME NEW i \in MemoryIds, NEW t \in Statements, NEW k \in MemoryIds, MergeMemories(i, k, t)
      PROVE  Agrees(cache[n], held[n])'
  <2>1. CASE n = k
    <3>1. cache'[k] = NoSignature
      BY <1>9 DEF MergeMemories, StepsInv, SignInv, Early
    <3> QED BY <2>1, <3>1 DEF Agrees
  <2>0. cache' = cache /\ Agrees(cache[n], held[n])
    BY <1>9 DEF MergeMemories, CacheInv
  <2>2. CASE n = i /\ n # k
    <3>1. held[n].life = "live" /\ held'[n].rev = held[n].rev /\ held'[n].text = held[n].text
      BY <1>9, <2>2, MergeKeeps
    <3> QED BY <2>0, <3>1 DEF Agrees
  <2>3. CASE n \notin {i, k}
    <3>1. held'[n] = held[n]
      BY <1>9, <2>3, MergeKeeps
    <3> QED BY <2>0, <3>1
  <2> QED BY <2>1, <2>2, <2>3
<1>10. CASE Export
  BY <1>10 DEF Export, CacheInv
<1>11. CASE RestoreReplace
  BY <1>11 DEF RestoreReplace
<1>12. CASE RestoreClear
  BY <1>12 DEF RestoreClear, Emptied, Agrees
<1>13. CASE Restart
  BY <1>13 DEF Restart, Agrees
<1>14. CASE UNCHANGED conflictvars
  BY <1>14 DEF conflictvars, CacheInv
<1> QED
  BY <1>1, <1>2, <1>3, <1>4, <1>5, <1>6, <1>7, <1>8, <1>9, <1>10, <1>11, <1>12, <1>13, <1>14
    DEF ConflictsNext

LEMMA ScanInvNext ==
    ASSUME ConflictsTypeOK, StepsInv, SnapshotInv, CacheInv, ScanInv,
           [ConflictsNext]_conflictvars
    PROVE  ScanInv'
<1> SUFFICES ASSUME ~overtaken', NEW n \in MemoryIds, adding'[n].step = "scanned", adding'[n].seenGen = epoch',
                    NEW j \in MemoryIds, held'[j].life = "live", <<adding'[n].text, held'[j].text>> \in Clash
             PROVE  FALSE
  BY DEF ScanInv, LiveIn
<1>a. epoch \in Nat /\ adding[n] \in Request /\ j \in MemoryIds /\ held'[j].life = "live"
  BY DEF ConflictsTypeOK
\* A step that leaves the request, and makes nothing live.
<1>b. ASSUME adding'[n] = adding[n], epoch' = epoch, ~overtaken, held[j].life = "live", held'[j].text = held[j].text
      PROVE  FALSE
  BY <1>b, <1>a DEF ScanInv, LiveIn
<1>c. ASSUME NEW i \in MemoryIds, NEW st \in {"gated", "committed"}, AddGoes(i, st)
      PROVE n # i /\ adding'[n] = adding[n]
  BY <1>c DEF AddGoes, ConflictsTypeOK, Request
<1>d. ASSUME NEW i \in MemoryIds, EndAdd(i) PROVE n # i /\ adding'[n] = adding[n]
  BY <1>d DEF EndAdd, ConflictsTypeOK, NotAsking
<1>1. ASSUME NEW i \in MemoryIds, TakeGate(i) PROVE FALSE
  BY <1>1, <1>a, <1>b, <1>c DEF TakeGate
<1>2. ASSUME NEW i \in MemoryIds, Snapshot(i) PROVE FALSE
  <2>1. n # i /\ adding'[n] = adding[n]
    BY <1>2 DEF Snapshot, ConflictsTypeOK, Request
  <2> QED BY <1>2, <1>a, <1>b, <2>1 DEF Snapshot
<1>3. ASSUME NEW i \in MemoryIds, ScanConflicts(i) PROVE FALSE
  <2>0. UNCHANGED <<held, epoch>> /\ ~overtaken
    BY <1>3 DEF ScanConflicts
  <2>1. CASE adding[i].step = "reread" \/ ClashesOf(i) # {}
    BY <1>3, <1>a, <1>b, <1>d, <2>0, <2>1 DEF ScanConflicts
  <2>2. CASE ~(adding[i].step = "reread" \/ ClashesOf(i) # {})
    <3>1. adding' = [adding EXCEPT ![i] = [adding[i] EXCEPT !.step = "scanned"]]
      BY <1>3, <2>2, Asks DEF ScanConflicts
    <3>2. CASE n # i
      BY <1>a, <1>b, <2>0, <3>1, <3>2
    <3>3. CASE n = i
      <4>1. adding'[n].text = adding[i].text
        BY <3>1, <3>3, <1>a DEF Request, ConflictsTypeOK
      <4>2. held[j].life = "live" /\ j # i
        BY <1>3, <1>a, <2>0, <2>2, LiveIsOld DEF ScanConflicts, Early
      <4>3. /\ StillSo(adding[i].seen[j], held[j]) /\ Judged(j, adding[i].seen[j]) = held[j].text
            /\ Judged(i, Target(i)) = adding[i].text
        BY <1>3, <1>a, <4>2, ScanJudges
      <4>4. j \in Compared(i)
        BY <1>a, <4>2, <4>3 DEF Compared, LiveIn, StillSo
      <4>5. <<Judged(i, Target(i)), Judged(j, adding[i].seen[j])>> \notin Clash
        BY <2>2, <4>4 DEF ClashesOf
      <4> QED BY <2>0, <4>1, <4>3, <4>5
    <3> QED BY <3>2, <3>3
  <2> QED BY <2>1, <2>2
<1>4. ASSUME NEW i \in MemoryIds, CommitAdd(i) PROVE FALSE
  <2>1. CASE adding[i].gen = epoch
    <3>1. n # i /\ adding'[n] = adding[n]
      BY <1>4, <2>1, <1>c DEF CommitAdd
    <3> QED BY <1>4, <3>1, NobodyHolds DEF CommitAdd, Holding
  <2>2. CASE adding[i].gen # epoch
    BY <1>4, <1>a, <1>b, <1>d, <2>2 DEF CommitAdd
  <2> QED BY <2>1, <2>2
<1>5. ASSUME NEW i \in MemoryIds, ForgetMemory(i) PROVE FALSE
  <2>1. held[j].life = "live" /\ held'[j].text = held[j].text
    BY <1>5, <1>a, ForgetKeeps DEF StillSo
  <2> QED BY <1>5, <1>b, <2>1 DEF ForgetMemory
<1>6. ASSUME NEW i \in MemoryIds, Prune(i) PROVE FALSE
  BY <1>6, <1>a, <1>b DEF Prune
<1>7. ASSUME NEW i \in MemoryIds, NEW t \in Statements, Ask(i, t) PROVE FALSE
  <2>1. n # i /\ adding'[n] = adding[n]
    BY <1>7 DEF Ask, ConflictsTypeOK, NotAsking
  <2> QED BY <1>7, <1>a, <1>b, <2>1 DEF Ask
<1>8. ASSUME NEW i \in MemoryIds, NEW t \in Statements, UpdateMemory(i, t) PROVE FALSE
  BY <1>8, NobodyHolds DEF UpdateMemory, Holding
<1>9. ASSUME NEW i \in MemoryIds, NEW t \in Statements, NEW k \in MemoryIds, MergeMemories(i, k, t)
      PROVE FALSE
  <2>1. n # k /\ adding'[n] = adding[n]
    BY <1>9 DEF MergeMemories, ConflictsTypeOK, NotAsking
  <2> QED BY <1>9, <2>1, NobodyHolds DEF MergeMemories, Holding
<1>10. CASE Export
  BY <1>10, <1>a, <1>b DEF Export
<1>11. CASE RestoreReplace
  <2>1. adding[n].seenGen <= epoch /\ adding[n].seenGen = epoch + 1
    BY <1>11 DEF RestoreReplace, SnapshotInv, Dated
  <2> QED BY <1>a, <2>1
<1>12. CASE RestoreClear
  BY <1>12, <1>a, <1>b DEF RestoreClear
<1>13. CASE Restart
  BY <1>13 DEF Restart, NotAsking
<1>14. CASE UNCHANGED conflictvars
  BY <1>14, <1>a, <1>b DEF conflictvars
<1> QED
  BY <1>1, <1>2, <1>3, <1>4, <1>5, <1>6, <1>7, <1>8, <1>9, <1>10, <1>11, <1>12, <1>13, <1>14
    DEF ConflictsNext

\* A change that makes live no memory but one that is the youngest and was not added.
LEMMA ChangedHeeds ==
    ASSUME ConflictsTypeOK, StoresInv, Heeds(held), NEW s,
           \A j \in LiveIn(s) : \/ s[j] = held[j]
                                \/ s[j].how # "added" /\ s[j].since = tally.writes + 1
    PROVE  Heeds(s)
<1> SUFFICES ASSUME NEW i \in LiveIn(s), NEW j \in LiveIn(s), s[j].how = "added", s[i].since < s[j].since
             PROVE  <<s[j].text, s[i].text>> \notin Clash
  BY DEF Heeds
<1>1. /\ i \in MemoryIds /\ j \in MemoryIds /\ tally.writes \in Nat
      /\ held[j] \in MemoryRow /\ held[j].since <= tally.writes
  BY DEF LiveIn, ConflictsTypeOK, StoresInv
<1>2. s[j] = held[j]
  OBVIOUS
<1>3. s[i] = held[i]
  BY <1>1, <1>2 DEF MemoryRow
<1> QED BY <1>2, <1>3 DEF Heeds, LiveIn

LEMMA StoresNext ==
    Inv /\ [ConflictsNext]_conflictvars => StoresInv'
<1> SUFFICES ASSUME Inv, [ConflictsNext]_conflictvars PROVE StoresInv'
  OBVIOUS
<1> USE DEF Inv
<1>a. /\ tally.writes \in Nat
      /\ \A i \in MemoryIds : /\ held[i].since \in Nat /\ held[i].since <= tally.writes
                              /\ copy[i].since \in Nat /\ copy[i].since <= tally.writes
  BY DEF ConflictsTypeOK, MemoryRow, StoresInv
<1>b. ASSUME overtaken' \/ ~overtaken, tally'.writes = tally.writes,
             held' \in {held, copy}, copy' \in {held, copy}
      PROVE  StoresInv'
  BY <1>a, <1>b DEF StoresInv
\* A change, of memories which then are not added ones.
<1>c. ASSUME overtaken' = overtaken, tally'.writes = tally.writes + 1, copy' = copy,
             \A j \in MemoryIds : \/ held'[j] = held[j]
                                  \/ held'[j].life = "hidden" /\ held'[j].since = held[j].since
                                  \/ held'[j].how # "added" /\ held'[j].since = tally.writes + 1
      PROVE  StoresInv'
  <2>1. \A i \in MemoryIds : held'[i].since <= tally'.writes /\ copy'[i].since <= tally'.writes
    BY <1>a, <1>c
  <2>2. ~overtaken => Heeds(held')
    BY <1>c, ChangedHeeds DEF StoresInv, LiveIn
  <2> QED BY <1>c, <2>1, <2>2 DEF StoresInv, Heeds
<1>1. ASSUME NEW i \in MemoryIds, TakeGate(i) \/ Snapshot(i) PROVE StoresInv'
  BY <1>1, <1>b DEF TakeGate, Snapshot
<1>2. ASSUME NEW i \in MemoryIds, ScanConflicts(i) PROVE StoresInv'
  BY <1>2, <1>b DEF ScanConflicts
<1>3. ASSUME NEW i \in MemoryIds, CommitAdd(i) PROVE StoresInv'
  <2>1. CASE adding[i].gen = epoch
    <3>1. /\ held'[i] = Target(i) /\ \A j \in MemoryIds \ {i} : held'[j] = held[j]
          /\ tally'.writes = tally.writes + 1 /\ UNCHANGED <<copy, overtaken>>
      BY <1>3, <2>1 DEF CommitAdd, ConflictsTypeOK
    <3>2. \A j \in MemoryIds : held'[j].since <= tally'.writes /\ copy'[j].since <= tally'.writes
      BY <1>a, <3>1 DEF Target
    <3>3. adding[i].seenGen = epoch
      <4>1. adding[i] \in Request /\ epoch \in Nat /\ adding[i].step = "scanned" /\ Dated(i)
        BY <1>3 DEF CommitAdd, SnapshotInv, ConflictsTypeOK
      <4> QED BY <2>1, <4>1 DEF Dated, Request
    <3>4. ASSUME ~overtaken, NEW j \in LiveIn(held)', NEW k \in LiveIn(held)',
                 held'[k].how = "added", held'[j].since < held'[k].since
          PROVE  <<held'[k].text, held'[j].text>> \notin Clash
      <4>1. j \in MemoryIds /\ k \in MemoryIds /\ j # k
        BY <1>a, <3>1, <3>4 DEF LiveIn, Target
      <4>2. CASE k = i
        <5>1. held'[j] = held[j] /\ j \in LiveIn(held)
          BY <3>1, <3>4, <4>1, <4>2 DEF LiveIn
        <5> QED BY <1>3, <3>1, <3>3, <3>4, <4>2, <5>1 DEF CommitAdd, ScanInv, Target
      <4>3. CASE k # i
        <5>1. held'[k] = held[k] /\ held[k].since <= tally.writes
          BY <1>a, <3>1, <4>1, <4>3
        <5>2. j # i
          BY <1>a, <3>1, <3>4, <4>1, <5>1 DEF Target
        <5> QED BY <3>1, <3>4, <4>1, <5>1, <5>2 DEF StoresInv, Heeds, LiveIn
      <4> QED BY <4>2, <4>3
    <3> QED BY <3>1, <3>2, <3>4 DEF StoresInv, Heeds
  <2>2. CASE adding[i].gen # epoch
    BY <1>3, <2>2, <1>b DEF CommitAdd
  <2> QED BY <2>1, <2>2
<1>4. ASSUME NEW i \in MemoryIds, ForgetMemory(i) PROVE StoresInv'
  <2>1. held'[i].life = "hidden" /\ held'[i].since = held[i].since
    <3>1. held[i] \in MemoryRow /\ held'[i] = [held[i] EXCEPT !.life = "hidden"]
      BY <1>4, ForgetKeeps DEF ConflictsTypeOK
    <3> QED BY <3>1 DEF MemoryRow
  <2>2. \A j \in MemoryIds \ {i} : held'[j] = held[j]
    BY <1>4, ForgetKeeps
  <2>3. UNCHANGED <<copy, overtaken>> /\ tally'.writes = tally.writes + 1
    BY <1>4, Spends DEF ForgetMemory
  <2> QED BY <1>c, <2>1, <2>2, <2>3
<1>5. ASSUME NEW i \in MemoryIds, Prune(i) PROVE StoresInv'
  BY <1>5, <1>b DEF Prune
<1>6. ASSUME NEW i \in MemoryIds, NEW t \in Statements, Ask(i, t) PROVE StoresInv'
  BY <1>6, <1>b DEF Ask
<1>7. ASSUME NEW i \in MemoryIds, NEW t \in Statements, UpdateMemory(i, t) PROVE StoresInv'
  <2>1. held'[i].how = "reworded" /\ held'[i].since = tally.writes + 1
    BY <1>7, UpdateKeeps
  <2>2. \A j \in MemoryIds \ {i} : held'[j] = held[j]
    BY <1>7, UpdateKeeps
  <2>3. UNCHANGED <<copy, overtaken>> /\ tally'.writes = tally.writes + 1
    BY <1>7, Spends DEF UpdateMemory
  <2> QED BY <1>c, <2>1, <2>2, <2>3
<1>8. ASSUME NEW i \in MemoryIds, NEW t \in Statements, NEW k \in MemoryIds, MergeMemories(i, k, t)
      PROVE StoresInv'
  <2>1. /\ held'[k].how = "merged" /\ held'[k].since = tally.writes + 1
        /\ i # k => held'[i].life = "hidden" /\ held'[i].since = held[i].since
        /\ \A j \in MemoryIds \ {i, k} : held'[j] = held[j]
    BY <1>8, MergeKeeps
  <2>2. UNCHANGED <<copy, overtaken>> /\ tally'.writes = tally.writes + 1
    BY <1>8, Spends DEF MergeMemories
  <2> QED BY <1>c, <2>1, <2>2
<1>9. CASE Export
  BY <1>9, <1>b DEF Export
<1>10. CASE RestoreReplace
  BY <1>10, <1>b DEF RestoreReplace, ConflictsTypeOK
<1>11. CASE RestoreClear
  BY <1>11, <1>b, Spends DEF RestoreClear
<1>12. CASE Restart
  BY <1>12, <1>b, Spends DEF Restart
<1>13. CASE UNCHANGED conflictvars
  BY <1>13, <1>b DEF conflictvars
<1> QED
  BY <1>1, <1>2, <1>3, <1>4, <1>5, <1>6, <1>7, <1>8, <1>9, <1>10, <1>11, <1>12, <1>13
    DEF ConflictsNext

-----------------------------------------------------------------------------
(* Theorems.                                                               *)

LEMMA InvInit == ConflictsInit => Inv
<1> SUFFICES ASSUME ConflictsInit PROVE Inv
  OBVIOUS
<1>1. SnapshotInv
  <2>1. \A i \in MemoryIds : adding[i].gen = 0 /\ adding[i].seenGen = 0 /\ adding[i].step \in {"idle", "done"}
    BY DEF ConflictsInit, NotAsking
  <2>2. epoch = 1
    BY DEF ConflictsInit
  <2>3. ASSUME NEW i \in MemoryIds PROVE Dated(i)
    <3>1. adding[i].gen = 0 /\ adding[i].seenGen = 0
      BY <2>1
    <3>2. adding[i].step \notin {"read", "scanned", "committed", "reread"}
      BY <2>1
    <3>3. 0 <= 1
      OBVIOUS
    <3> QED BY <2>2, <3>1, <3>2, <3>3 DEF Dated
  <2> QED BY <2>3 DEF SnapshotInv
<1>2. CacheInv /\ ScanInv
  BY DEF ConflictsInit, CacheInv, Agrees, ScanInv, NotAsking
<1>3. StoresInv
  <2>1. \A i \in MemoryIds : held[i].since = 0 /\ copy[i].since = 0
    BY DEF ConflictsInit, Unborn
  <2>2. Heeds(held) /\ Heeds(copy)
    BY <2>1 DEF Heeds, LiveIn
  <2>3. tally.writes = 0
    BY DEF ConflictsInit
  <2> QED BY <2>1, <2>2, <2>3 DEF StoresInv
<1> QED BY <1>1, <1>2, <1>3, TypeInit, StepsInit DEF Inv

LEMMA InvNext == Inv /\ [ConflictsNext]_conflictvars => Inv'
BY TypeNext, StepsNext, SnapshotNext, CacheNext, ScanInvNext, StoresNext DEF Inv

\* Conflicts' variables keep to their types.
THEOREM ConflictsTypeCorrect == ConflictsSpec => []ConflictsTypeOK
<1>1. ConflictsInit => ConflictsTypeOK
  BY TypeInit
<1>2. ConflictsTypeOK /\ [ConflictsNext]_conflictvars => ConflictsTypeOK'
  BY TypeNext
<1> QED BY <1>1, <1>2, PTL DEF ConflictsSpec

\* What was added does not contradict what was there, but for a restore in between: the
\* scan under the gate judges every live memory by the text it has (get_or_extract,
\* scan_conflicts_for_target_cached), until the transaction of the add.
THEOREM ConflictsAlwaysSeen == ConflictsSpec => []ConflictsAreSeen
<1>1. ConflictsInit => Inv
  BY InvInit
<1>2. Inv /\ [ConflictsNext]_conflictvars => Inv'
  BY InvNext
<1>3. Inv => ConflictsAreSeen
  BY DEF Inv, StoresInv, Heeds, ConflictsAreSeen
<1> QED BY <1>1, <1>2, <1>3, PTL DEF ConflictsSpec

(***************************************************************************)
(* Recall.                                                                 *)
(***************************************************************************)
AskRecord ==
    [tool : Tools, scoped : BOOLEAN, step : Steps, gen : Nat, table : SUBSET TableEntry, found : SUBSET Ids,
     failed : BOOLEAN, cand : SUBSET Ids, edges : SUBSET Edge, todo : SUBSET Ids,
     head : Ids \cup {Nobody}, walked : SUBSET Ids, current : [Ids -> Ids \cup {Nobody}],
     conflicts : SUBSET SUBSET Ids, depth : [Ids -> 0..Far], popped : SUBSET Ids,
     shown : [Ids -> KnownMemory], results : SUBSET Ids, more : BOOLEAN, notice : BOOLEAN,
     partial : BOOLEAN, mode : {"engine", "scan"}]

WitnessRecord ==
    [eligible : SUBSET Ids, content : SUBSET (Ids \X KnownMemory), steady : SUBSET (Ids \X Texts),
     edges : SUBSET Edge, cleared : BOOLEAN]

StoreInv ==
    /\ memories \in [Ids -> KnownMemory] /\ edges \subseteq Edge /\ backlog \subseteq Ids
    /\ active \in 1..2 /\ searchRows \subseteq TableEntry /\ spent \in Nat
    /\ active = 2 => spent # 0
    /\ \A m \in Ids : Exists(m)

\* The steps of each tool.
StepInv ==
    /\ ask.tool = "id" => ask.step \in {"new", "refetch", "relations", "expand", "content", "done"}
    /\ ask.tool = "ids" => ask.step \in {"new", "batch", "refetch", "done"}
    /\ ask.tool = "tfidf" => ask.step \in {"new", "done"}
    /\ ask.tool = "browse" => ask.step \in {"new", "scan", "refetch", "done"}
    /\ Ranked => ask.step \in Steps \ {"batch"}
    /\ ask.tool = "search" => ask.step # "refetch"
    /\ ask.step = "new" => ask = Asked(ask.tool, ask.scoped)

TypeInv == StoreInv /\ ask \in AskRecord /\ witnessed \in WitnessRecord /\ StepInv

\* What is remembered takes in what is there now.
WitnessInv ==
    ask.step # "new" =>
        /\ Eligible \subseteq witnessed.eligible
        /\ Contents(memories) \subseteq witnessed.content
        /\ \A p \in witnessed.steady : p[1] \in Eligible /\ p[2] = memories[p[1]].text
        /\ witnessed.edges \subseteq edges

\* Where what is to be served comes from: what was eligible, and what records said.
Sourced(eligible) ==
    /\ Ranked => ask.cand \subseteq eligible
    /\ Reached \subseteq ask.cand \cup eligible
    /\ \A m \in Ids : ask.current[m] \in eligible \cup {Nobody}
    /\ ask.head \in eligible \cup {Nobody}

Served(eligible, content) ==
    /\ Sourced(eligible)
    /\ ask.tool \notin {"id", "ids"} => ask.results \subseteq eligible
    /\ ask.tool = "id" /\ ask.step = "refetch" => Reached \subseteq eligible
    /\ ask.tool = "id" /\ ask.step \in {"relations", "expand", "content"}
          => ask.results = ask.cand
    /\ ask.tool = "id" /\ ask.step = "done" => ask.results \subseteq ask.cand \cup eligible
    /\ ask.tool # "ids" \/ ask.step = "done" =>
          \A m \in ask.results : <<m, ask.shown[m]>> \in content
    /\ ask.tool = "ids" /\ ask.step = "done"
          => \A m \in ask.results : ask.scoped => ask.shown[m].level # "foreign"

ServeInv == ask.step # "new" => Served(witnessed.eligible, witnessed.content)

(***************************************************************************)
(* Bundles.                                                                *)
(***************************************************************************)
Untouched == {"new", "legs", "hydrate"}
Before == Untouched \cup {"relations"}

\* The walk up one chain, of the one candidate at hand that is its own current.
WalkInv ==
    IF ask.head = Nobody
    THEN ask.walked = {} /\ \A c \in ask.todo : ask.current[c] = Nobody
    ELSE \E c \in ask.todo :
            /\ ask.current[c] = c
            /\ \A d \in ask.todo \ {c} : ask.current[d] = Nobody
            /\ \/ ask.head = c /\ ask.walked = {}
               \/ ask.head \in LeadTo(Followed(ask.edges), Successors(ask.edges, c))

\* A candidate that was walked and is its own end was not superseded all along, unless
\* its chain leads back to it.
EndsIn(es, steady) ==
    \A a \in ask.cand \ ask.todo :
        ask.current[a] = Nobody /\ ~LeadsBack(ask.edges, a) =>
            \A p \in Followed(es) : p[1] = a => ~({p[1], p[2]} \subseteq steady)

ConflictsIn(es, steady) ==
    \A e \in es :
        e.type = "contradicts" /\ {e.from, e.to} \subseteq ask.cand \cap steady
            => {e.from, e.to} \in ask.conflicts

\* The page against what the engine had in hand.
PageInv ==
    /\ ask.results \cap Obsolete = {}
    /\ ask.results \subseteq Protected \/ Currents \subseteq ask.results \cup Obsolete
    /\ \A k \in ask.conflicts : k \subseteq ask.results \/ ask.notice

\* With the relations, and the ids of the memories, that were there all along.
Bundled(es, steady) ==
    /\ ask.todo \subseteq ask.cand
    /\ ask.step \in Untouched => ask.cand = {}
    /\ ask.step \in Before =>
          /\ ask.head = Nobody /\ ask.walked = {} /\ ask.results = {} /\ ~ask.more
          /\ \A m \in Ids : ask.current[m] = Nobody
    /\ ask.step = "relations" => ask.todo = ask.cand
    /\ ask.step = "bundles" => WalkInv
    /\ ask.step \notin Before /\ ask.cand # {} => es \subseteq ask.edges /\ EndsIn(es, steady)
    /\ ask.step \notin Before \cup {"bundles"} => ask.todo = {} /\ ConflictsIn(es, steady)
    /\ /\ ask.step \in {"readiness", "done"} /\ ask.mode = "engine"
       /\ ask.tool = "search" /\ ask.results # {}
       => PageInv

BundleInv == Ranked => Bundled(witnessed.edges, Steady)

(***************************************************************************)
(* Completeness.                                                           *)
(***************************************************************************)
\* Every live memory that is not waiting is in the table.
ConvergedInv == \A m \in Ids \ backlog : IsLive(m) => RowOf(m, active) \in searchRows

\* What the legs were to find is in a set.
Covers(S) ==
    \A m \in Eligible :
        memories[m].text = "match" \/ (memories[m].text = "near" /\ ~ask.failed) => m \in S

Found(p) == p[2] = "match" \/ (p[2] = "near" /\ ask.mode = "engine")

\* With what was eligible all along, as long as the worker finished nothing: when it has
\* nothing to do either, nothing has changed since the request began.
Completed(steady, cleared) ==
    /\ ~cleared /\ backlog = {} =>
        /\ ask.step = "legs" => \A m \in Eligible : RowOf(m, active) \in ask.table
        /\ ask.step = "hydrate" => Covers(ask.found)
        /\ ask.step \in {"relations", "bundles", "expand", "content", "readiness"}
              => Covers(ask.cand)
    /\ ask.step = "readiness" =>
        /\ ~ask.more => ask.cand \subseteq ask.results \cup Obsolete
        /\ ask.results = {} => ~ask.more
    /\ ask.step = "scan" /\ ask.tool = "search" /\ ask.mode = "engine" /\ ~ask.partial /\ ~cleared
          => \A p \in steady : Found(p) => p[1] \in Obsolete
    /\ ask.step = "done" /\ ask.tool = "search" /\ ~cleared =>
          (~ask.partial /\ ~ask.more
              => \A p \in steady : Found(p) => p[1] \in ask.results \cup Obsolete)

CompleteInv == Ranked => Completed(witnessed.steady, witnessed.cleared)

RecallInv == TypeInv /\ WitnessInv /\ ServeInv /\ BundleInv /\ ConvergedInv /\ CompleteInv

-----------------------------------------------------------------------------
(* Types.                                                                  *)

LEMMA FollowedGrows ==
    ASSUME NEW es, NEW fs, es \subseteq fs
    PROVE  Followed(es) \subseteq Followed(fs)
BY DEF Followed

LEMMA FilledTyped ==
    ASSUME NEW s \in Stores
    PROVE  /\ Filled(s) \in [Ids -> KnownMemory]
           /\ \A m \in Ids : Filled(s)[m].life = "live"
BY RecallAssumption DEF Filled, KnownMemory

LEMMA AskedTyped ==
    ASSUME NEW tool \in Tools, NEW scoped \in BOOLEAN
    PROVE  Asked(tool, scoped) \in AskRecord
<1>1. NoMemory \in KnownMemory
  BY DEF NoMemory, KnownMemory, Texts, Levels
<1> QED BY <1>1 DEF Asked, AskRecord, Steps, Far

LEMMA TypeStart == RecallInit => TypeInv
<1> SUFFICES ASSUME RecallInit PROVE TypeInv
  OBVIOUS
<1>1. PICK s \in Stores : memories = Filled(s) /\ edges = s.edges
                          /\ searchRows = {[id |-> m, gen |-> 1, text |-> s.text[m], level |-> s.level[m]]
                                           : m \in Ids}
  BY DEF RecallInit
<1>2. PICK tool \in Tools, scoped \in BOOLEAN : ask = Asked(tool, scoped)
  BY DEF RecallInit
<1>3. StoreInv
  BY <1>1, FilledTyped, RecallAssumption DEF StoreInv, RecallInit, TableEntry, Exists, Filled
<1>4. ask \in AskRecord
  BY <1>2, AskedTyped
<1>5. StepInv
  BY <1>2 DEF StepInv, Asked, Ranked, Steps
<1>6. witnessed \in WitnessRecord
  BY DEF RecallInit, Unseen, WitnessRecord
<1> QED BY <1>3, <1>4, <1>5, <1>6 DEF TypeInv

\* What the steps before there are candidates leave alone.
SameWork(a, b) ==
    /\ a.tool = b.tool /\ a.cand = b.cand /\ a.edges = b.edges /\ a.todo = b.todo
    /\ a.head = b.head /\ a.walked = b.walked /\ a.current = b.current /\ a.depth = b.depth
    /\ a.results = b.results /\ a.shown = b.shown /\ a.more = b.more

LEMMA ToKeeps ==
    ASSUME ask \in AskRecord, NEW step \in Steps
    PROVE  To(step) \in AskRecord /\ To(step).step = step /\ SameWork(To(step), ask)
<1>1. To(step) \in AskRecord /\ To(step).step = step
  BY DEF To, AskRecord
<1>2. SameWork(To(step), ask)
  BY DEF To, AskRecord, SameWork
<1> QED BY <1>1, <1>2

\* A retrieval that is given up for a scan.
LEMMA ScanKeeps ==
    ASSUME ask \in AskRecord, ask' = [To("scan") EXCEPT !.mode = "scan"]
    PROVE  ask' \in AskRecord /\ SameWork(ask', ask) /\ ask'.step = "scan" /\ ask'.mode = "scan"
<1> DEFINE to == To("scan")
<1>1. to \in AskRecord /\ to.step = "scan" /\ SameWork(to, ask)
  BY ToKeeps DEF Steps
<1> HIDE DEF to
<1>2. ask' = [to EXCEPT !.mode = "scan"]
  BY DEF to
<1>3. ask' \in AskRecord /\ ask'.step = "scan" /\ ask'.mode = "scan"
  BY <1>1, <1>2 DEF AskRecord
<1>4. SameWork(ask', to)
  BY <1>1, <1>2 DEF AskRecord, SameWork
<1> QED BY <1>1, <1>3, <1>4 DEF SameWork

LEMMA RefreshKeeps ==
    ASSUME ask \in AskRecord, searchRows \subseteq TableEntry, Refresh
    PROVE  /\ ask' \in AskRecord /\ SameWork(ask', ask) /\ UNCHANGED Canon
           /\ ask.step = "new" /\ Ranked
           /\ \/ ask'.step = "legs" /\ ask'.table = searchRows
              \/ ask'.step = "scan" /\ ask'.mode = "scan"
<1>1. /\ ask.step = "new" /\ Ranked /\ UNCHANGED Canon
      /\ \/ ask' = [To("legs") EXCEPT !.table = searchRows]
         \/ ask' = [To("scan") EXCEPT !.mode = "scan"]
  BY DEF Refresh, Goes
<1>2. CASE ask' = [To("legs") EXCEPT !.table = searchRows]
  <2> DEFINE to == To("legs")
  <2>1. to \in AskRecord /\ to.step = "legs" /\ SameWork(to, ask)
    BY ToKeeps DEF Steps
  <2> HIDE DEF to
  <2>2. ask' = [to EXCEPT !.table = searchRows]
    BY <1>2 DEF to
  <2>3. ask' \in AskRecord /\ ask'.step = "legs" /\ ask'.table = searchRows
    BY <2>1, <2>2 DEF AskRecord
  <2>4. SameWork(ask', to)
    BY <2>1, <2>2 DEF AskRecord, SameWork
  <2> QED BY <1>1, <2>1, <2>3, <2>4 DEF SameWork
<1> QED BY <1>1, <1>2, ScanKeeps

LEMMA LegsKeeps ==
    ASSUME ask \in AskRecord, active \in Nat, Legs
    PROVE  /\ ask' \in AskRecord /\ SameWork(ask', ask) /\ UNCHANGED Canon /\ ask.step = "legs"
           /\ \/ /\ ask'.step = "hydrate"
                 /\ \/ ask'.found = Leg({"match", "near"})
                    \/ ask'.found = Leg({"match"}) /\ ask'.failed
              \/ ask'.step = "scan" /\ ask'.mode = "scan"
<1> DEFINE to == To("hydrate")
           both == Leg({"match", "near"})
           one == Leg({"match"})
<1>1. /\ ask.step = "legs" /\ UNCHANGED Canon
      /\ \/ ask' = [to EXCEPT !.gen = active, !.found = both]
         \/ ask' = [to EXCEPT !.gen = active, !.found = one, !.failed = TRUE]
         \/ ask' = [To("scan") EXCEPT !.mode = "scan"]
  BY DEF Legs, Goes
<1>2. to \in AskRecord /\ to.step = "hydrate" /\ SameWork(to, ask)
  BY ToKeeps DEF Steps
<1>3. both \subseteq Ids /\ one \subseteq Ids
  <2>1. ask.table \subseteq TableEntry
    BY DEF AskRecord
  <2> QED BY <2>1 DEF Leg, TableEntry
<1> HIDE DEF to, both, one
<1>4. CASE ask' = [to EXCEPT !.gen = active, !.found = both]
  <2>1. ask' \in AskRecord /\ ask'.step = "hydrate" /\ ask'.found = both
    BY <1>2, <1>3, <1>4 DEF AskRecord
  <2>2. SameWork(ask', to)
    BY <1>2, <1>4 DEF AskRecord, SameWork
  <2> QED BY <1>1, <1>2, <2>1, <2>2 DEF SameWork, both
<1>5. CASE ask' = [to EXCEPT !.gen = active, !.found = one, !.failed = TRUE]
  <2>1. ask' \in AskRecord /\ ask'.step = "hydrate" /\ ask'.found = one
    BY <1>2, <1>3, <1>5 DEF AskRecord
  <2>2. ask'.failed
    BY <1>2, <1>5 DEF AskRecord
  <2>3. SameWork(ask', to)
    BY <1>2, <1>5 DEF AskRecord, SameWork
  <2> QED BY <1>1, <1>2, <2>1, <2>2, <2>3 DEF SameWork, one
<1> QED BY <1>1, <1>4, <1>5, ScanKeeps

\* A hop is to the nearest successor, or ends the walk.
LEMMA HopIs ==
    ASSUME ask \in AskRecord, Hop
    PROVE  LET nexts == (Successors(ask.edges, ask.head) \ {ask.head}) \cap Eligible
               next == CHOOSE n \in nexts : \A o \in nexts : n <= o
               end == IF ask.head = Walked THEN Nobody ELSE ask.head
           IN  /\ ask.step = "bundles" /\ ask'.step = "bundles" /\ ask.head # Nobody
               /\ ask'.tool = ask.tool /\ ask'.cand = ask.cand /\ ask'.edges = ask.edges
               /\ ask'.results = ask.results /\ ask'.shown = ask.shown /\ ask'.depth = ask.depth
               /\ ask'.failed = ask.failed /\ UNCHANGED Canon
               /\ \/ /\ nexts # {} /\ next \notin ask.walked
                     /\ ask'.head = next /\ ask'.walked = ask.walked \cup {next}
                     /\ ask'.todo = ask.todo /\ ask'.current = ask.current
                  \/ /\ nexts = {} \/ next \in ask.walked
                     /\ ask'.head = Nobody /\ ask'.walked = {} /\ ask'.todo = ask.todo \ {Walked}
                     /\ ask'.current = [ask.current EXCEPT ![Walked] = end]
<1> DEFINE nexts == (Successors(ask.edges, ask.head) \ {ask.head}) \cap Eligible
           next == CHOOSE n \in nexts : \A o \in nexts : n <= o
           end == IF ask.head = Walked THEN Nobody ELSE ask.head
           more == ask.walked \cup {next}
           less == ask.todo \ {Walked}
           ended == [ask.current EXCEPT ![Walked] = end]
<1>1. /\ ask.step = "bundles" /\ ask.head # Nobody /\ UNCHANGED Canon
      /\ \/ /\ nexts # {} /\ next \notin ask.walked
            /\ ask' = [ask EXCEPT !.head = next, !.walked = more]
         \/ /\ nexts = {} \/ next \in ask.walked
            /\ ask' = [ask EXCEPT !.head = Nobody, !.walked = {}, !.todo = less, !.current = ended]
  BY DEF Hop, Goes, AskRecord
<1> HIDE DEF nexts, next, end, more, less, ended
<1>2. CASE /\ nexts # {} /\ next \notin ask.walked
           /\ ask' = [ask EXCEPT !.head = next, !.walked = more]
  <2>1. /\ ask'.step = ask.step /\ ask'.tool = ask.tool /\ ask'.cand = ask.cand
        /\ ask'.edges = ask.edges /\ ask'.results = ask.results /\ ask'.shown = ask.shown
        /\ ask'.depth = ask.depth /\ ask'.failed = ask.failed
        /\ ask'.head = next /\ ask'.walked = more
        /\ ask'.todo = ask.todo /\ ask'.current = ask.current
    BY <1>2 DEF AskRecord
  <2>2. more = ask.walked \cup {next}
    BY DEF more
  <2> QED BY <1>1, <1>2, <2>1, <2>2 DEF nexts, next
<1>3. CASE /\ nexts = {} \/ next \in ask.walked
           /\ ask' = [ask EXCEPT !.head = Nobody, !.walked = {}, !.todo = less, !.current = ended]
  <2>1. /\ ask'.step = ask.step /\ ask'.tool = ask.tool /\ ask'.cand = ask.cand
        /\ ask'.edges = ask.edges /\ ask'.results = ask.results /\ ask'.shown = ask.shown
        /\ ask'.depth = ask.depth /\ ask'.failed = ask.failed
        /\ ask'.head = Nobody /\ ask'.walked = {} /\ ask'.todo = less
        /\ ask'.current = ended
    BY <1>3 DEF AskRecord
  <2>2. less = ask.todo \ {Walked} /\ ended = [ask.current EXCEPT ![Walked] = end]
    BY DEF less, ended
  <2> QED BY <1>1, <1>3, <2>1, <2>2 DEF nexts, next, end
<1> QED BY <1>1, <1>2, <1>3

LEMMA WalkIs ==
    ASSUME ask \in AskRecord, NEW m \in Ids, Walk(m)
    PROVE  /\ ask.step = "bundles" /\ ask'.step = "bundles" /\ ask.head = Nobody /\ m \in ask.todo
           /\ ask'.tool = ask.tool /\ ask'.cand = ask.cand /\ ask'.edges = ask.edges
           /\ ask'.walked = ask.walked /\ ask'.results = ask.results /\ ask'.shown = ask.shown
           /\ ask'.depth = ask.depth /\ ask'.failed = ask.failed /\ UNCHANGED Canon
           /\ \/ /\ m \in Eligible /\ ask'.head = m /\ ask'.current = [ask.current EXCEPT ![m] = m]
                 /\ ask'.todo = ask.todo
              \/ /\ m \notin Eligible /\ ask'.head = Nobody /\ ask'.current = ask.current
                 /\ ask'.todo = ask.todo \ {m}
<1> DEFINE begun == [ask.current EXCEPT ![m] = m]
           less == ask.todo \ {m}
<1>1. /\ ask.step = "bundles" /\ ask.head = Nobody /\ m \in ask.todo /\ UNCHANGED Canon
      /\ \/ m \in Eligible /\ ask' = [ask EXCEPT !.head = m, !.current = begun]
         \/ m \notin Eligible /\ ask' = [ask EXCEPT !.todo = less]
  BY DEF Walk, Goes, AskRecord
<1> HIDE DEF begun, less
<1>2. CASE m \in Eligible /\ ask' = [ask EXCEPT !.head = m, !.current = begun]
  <2>1. /\ ask'.step = ask.step /\ ask'.tool = ask.tool /\ ask'.cand = ask.cand
        /\ ask'.edges = ask.edges /\ ask'.walked = ask.walked /\ ask'.todo = ask.todo
        /\ ask'.results = ask.results /\ ask'.shown = ask.shown
        /\ ask'.depth = ask.depth /\ ask'.failed = ask.failed
        /\ ask'.head = m /\ ask'.current = begun
    BY <1>2 DEF AskRecord
  <2> QED BY <1>1, <1>2, <2>1 DEF begun
<1>3. CASE m \notin Eligible /\ ask' = [ask EXCEPT !.todo = less]
  <2>1. /\ ask'.step = ask.step /\ ask'.tool = ask.tool /\ ask'.cand = ask.cand
        /\ ask'.edges = ask.edges /\ ask'.walked = ask.walked /\ ask'.todo = less
        /\ ask'.results = ask.results /\ ask'.shown = ask.shown
        /\ ask'.depth = ask.depth /\ ask'.failed = ask.failed
        /\ ask'.head = ask.head /\ ask'.current = ask.current
    BY <1>3 DEF AskRecord
  <2> QED BY <1>1, <1>3, <2>1 DEF less
<1> QED BY <1>1, <1>2, <1>3

\* A read changes no store; it moves the request on.
LEMMA ReaderFrame ==
    ASSUME ask \in AskRecord, StoreInv, Reader
    PROVE  UNCHANGED Canon /\ ask'.tool = ask.tool /\ ask'.step # "new" /\ ask.step # "done"
<1>1. CASE Refresh
  BY <1>1, RefreshKeeps DEF StoreInv, SameWork
<1>2. CASE Legs
  BY <1>2, LegsKeeps DEF StoreInv, SameWork
<1>3. CASE Hydrate
  BY <1>3 DEF Hydrate, Goes, To, Canon, AskRecord
<1>4. CASE Relations
  BY <1>4 DEF Relations, Goes, To, Canon, AskRecord
<1>5. CASE Hop
  BY <1>5, HopIs
<1>6. CASE Conflicts
  BY <1>6 DEF Conflicts, Goes, To, Canon, AskRecord
<1>7. CASE Expanded
  BY <1>7 DEF Expanded, Goes, To, Canon, AskRecord
<1>8. CASE Content
  BY <1>8 DEF Content, Goes, To, Canon, AskRecord
<1>9. CASE Readiness
  BY <1>9 DEF Readiness, Goes, To, Canon, AskRecord
<1>10. CASE Scan
  BY <1>10 DEF Scan, Goes, To, Canon, AskRecord
<1>11. CASE Tfidf
  BY <1>11 DEF Tfidf, Goes, To, Canon, AskRecord
<1>12. CASE Browse
  BY <1>12 DEF Browse, Goes, To, Canon, AskRecord
<1>13. CASE StartBatch
  BY <1>13 DEF StartBatch, Goes, To, Canon, AskRecord
<1>14. CASE ReadNext
  BY <1>14 DEF ReadNext, Goes, To, Canon, AskRecord
<1>15. CASE Refetch
  BY <1>15 DEF Refetch, Goes, To, Canon, AskRecord
<1>16. CASE Related
  BY <1>16 DEF Related, Goes, To, Canon, AskRecord
<1>17. ASSUME NEW m \in Ids, Walk(m)
       PROVE  UNCHANGED Canon /\ ask'.tool = ask.tool /\ ask'.step # "new" /\ ask.step # "done"
  BY <1>17, WalkIs
<1>18. ASSUME NEW m \in Ids, Expand(m)
       PROVE  UNCHANGED Canon /\ ask'.tool = ask.tool /\ ask'.step # "new" /\ ask.step # "done"
  BY <1>18 DEF Expand, Goes, To, Canon, AskRecord
<1>19. ASSUME NEW m \in Ids, ReadId(m)
       PROVE  UNCHANGED Canon /\ ask'.tool = ask.tool /\ ask'.step # "new" /\ ask.step # "done"
  BY <1>19 DEF ReadId, Goes, To, Canon, AskRecord
<1> QED BY <1>1, <1>2, <1>3, <1>4, <1>5, <1>6, <1>7, <1>8, <1>9, <1>10, <1>11, <1>12, <1>13,
           <1>14, <1>15, <1>16, <1>17, <1>18, <1>19 DEF Reader

LEMMA Least ==
    ASSUME NEW S \in SUBSET Ids, S # {}
    PROVE  LET least == CHOOSE n \in S : \A o \in S : n <= o
           IN  least \in S /\ \A o \in S : least <= o
<1> DEFINE order == OpToRel(<, Nat)
<1>1. S \subseteq Nat
  BY RecallAssumption
<1>2. IsWellFoundedOn(order, Nat)
  BY NatLessThanWellFounded
<1> HIDE DEF order
<1>3. PICK n \in S : \A o \in S : ~(<<o, n>> \in order)
  BY <1>1, <1>2, WFMin
<1>4. \A o \in S : ~(o < n)
  BY <1>1, <1>3 DEF order, OpToRel
<1>5. \A o \in S : n <= o
  BY <1>1, <1>4
<1> QED BY <1>5

LEMMA ShowingTyped ==
    ASSUME StoreInv, NEW page
    PROVE  Showing(page) \in [Ids -> KnownMemory]
BY DEF StoreInv, Showing, NoMemory, KnownMemory, Texts, Levels

LEMMA SetsTyped ==
    ASSUME ask \in AskRecord
    PROVE  /\ Eligible \subseteq Ids /\ Reached \subseteq Ids /\ Obsolete \subseteq Ids
           /\ Currents \subseteq Ids /\ Candidates \subseteq Ids
           /\ \A texts : Leg(texts) \subseteq Ids
<1>1. /\ ask.cand \subseteq Ids /\ ask.current \in [Ids -> Ids \cup {Nobody}]
      /\ ask.found \subseteq Ids /\ ask.table \subseteq TableEntry
  BY DEF AskRecord
<1>2. \A texts : Leg(texts) \subseteq Ids
  BY <1>1 DEF Leg, TableEntry
<1> QED BY <1>1, <1>2 DEF Eligible, Reached, Obsolete, Currents, Candidates

LEMMA PagesTyped == ASSUME NEW S, NEW first, NEW p \in Pages(S, first) PROVE p \subseteq S
BY DEF Pages

LEMMA AskKept ==
    ASSUME TypeInv, Reader
    PROVE  ask' \in AskRecord
<1>a. ask \in AskRecord /\ StoreInv
  BY DEF TypeInv
<1>b. \A page : Showing(page) \in [Ids -> KnownMemory]
  BY <1>a, ShowingTyped
<1>1. CASE Refresh
  BY <1>a, <1>1, RefreshKeeps DEF StoreInv
<1>2. CASE Legs
  BY <1>a, <1>2, LegsKeeps DEF StoreInv
<1>3. CASE Hydrate
  <2>1. Candidates \in SUBSET Ids
    BY <1>a, SetsTyped
  <2> DEFINE next == IF Candidates = {} THEN "readiness" ELSE "relations"
  <2>2. next \in Steps
    BY DEF Steps
  <2>3. ask' = [To(next) EXCEPT !.cand = Candidates, !.todo = Candidates]
    BY <1>3 DEF Hydrate, Goes
  <2> HIDE DEF next
  <2> QED BY <1>a, <2>1, <2>2, <2>3 DEF AskRecord, To
<1>4. CASE Relations
  <2> DEFINE next == IF Ranked THEN "bundles" ELSE "expand"
             depth == [m \in Ids |-> IF m \in ask.cand THEN 0 ELSE Far]
  <2>1. next \in Steps /\ edges \in SUBSET Edge /\ depth \in [Ids -> 0..Far]
    BY <1>a DEF Steps, StoreInv, Far
  <2>2. ask' = [To(next) EXCEPT !.edges = edges, !.depth = depth]
    BY <1>4 DEF Relations, Goes
  <2> HIDE DEF next, depth
  <2> QED BY <1>a, <2>1, <2>2 DEF AskRecord, To
<1>5. CASE Hop
  <2> DEFINE nexts == (Successors(ask.edges, ask.head) \ {ask.head}) \cap Eligible
             next == CHOOSE n \in nexts : \A o \in nexts : n <= o
             end == IF ask.head = Walked THEN Nobody ELSE ask.head
             ended == [ask.current EXCEPT ![Walked] = end]
  <2>1. nexts # {} => next \in Ids
    <3>1. nexts \in SUBSET Ids
      BY DEF Eligible
    <3> HIDE DEF nexts
    <3> QED BY <3>1, Least
  <2>2. ended \in [Ids -> Ids \cup {Nobody}]
    <3>1. end \in Ids \cup {Nobody} /\ ask.current \in [Ids -> Ids \cup {Nobody}]
      BY <1>a DEF AskRecord
    <3> HIDE DEF end
    <3> QED BY <3>1
  <2>3. \/ next \in Ids /\ ask' = [ask EXCEPT !.head = next, !.walked = ask.walked \cup {next}]
        \/ ask' = [ask EXCEPT !.head = Nobody, !.walked = {}, !.todo = ask.todo \ {Walked},
                              !.current = ended]
    BY <1>a, <1>5, <2>1 DEF Hop, Goes, AskRecord
  <2> HIDE DEF nexts, next, ended
  <2>4. CASE next \in Ids /\ ask' = [ask EXCEPT !.head = next, !.walked = ask.walked \cup {next}]
    BY <1>a, <2>4 DEF AskRecord
  <2>5. CASE ask' = [ask EXCEPT !.head = Nobody, !.walked = {}, !.todo = ask.todo \ {Walked},
                                !.current = ended]
    BY <1>a, <2>2, <2>5 DEF AskRecord
  <2> QED BY <2>3, <2>4, <2>5
<1>6. CASE Conflicts
  <2> DEFINE all == {{e.from, e.to} : e \in {x \in ask.edges : /\ x.type = "contradicts"
                                                          /\ {x.from, x.to} \subseteq ask.cand
                                                          /\ {x.from, x.to} \subseteq Eligible}}
  <2>1. all \in SUBSET SUBSET Ids
    BY DEF Eligible
  <2>2. ask' = [To("expand") EXCEPT !.conflicts = all]
    BY <1>6 DEF Conflicts, Goes
  <2> HIDE DEF all
  <2> QED BY <1>a, <2>1, <2>2 DEF AskRecord, To, Steps
<1>7. CASE Expanded
  BY <1>a, <1>7 DEF Expanded, Goes, To, AskRecord, Steps
<1>8. CASE Content
  <2> DEFINE pool == {m \in Reached \cup ask.cand \cup Currents : Exists(m)} \ Obsolete
  <2>1. pool \subseteq Ids
    BY <1>a, SetsTyped DEF AskRecord
  <2>2. PICK page \in Pages(pool, Protected) :
           ask' = [To("readiness") EXCEPT
                    !.results = page, !.shown = Showing(page), !.more = page # pool,
                    !.notice = \E k \in ask.conflicts : ~(k \subseteq page)]
    BY <1>8 DEF Content, Goes
  <2> DEFINE more == page # pool
             notice == \E k \in ask.conflicts : ~(k \subseteq page)
  <2>3. page \in SUBSET Ids /\ more \in BOOLEAN /\ notice \in BOOLEAN
    BY <2>1, PagesTyped
  <2>4. ask' = [To("readiness") EXCEPT
                    !.results = page, !.shown = Showing(page), !.more = more, !.notice = notice]
    BY <2>2
  <2> DEFINE to == To("readiness")
             shown == Showing(page)
  <2>5. to \in AskRecord /\ shown \in [Ids -> KnownMemory]
    BY <1>a, <1>b, ToKeeps DEF Steps
  <2>6. ask' = [to EXCEPT !.results = page, !.shown = shown, !.more = more, !.notice = notice]
    BY <2>4
  <2> HIDE DEF pool, more, notice, to, shown
  <2> QED BY <2>3, <2>5, <2>6 DEF AskRecord
<1>9. CASE Readiness
  <2> DEFINE next == IF ask.results = {} THEN "scan"
                     ELSE IF ask.tool = "search" THEN "done" ELSE "refetch"
             partial == Lagging \/ ~DenseReady \/ ask.failed
  <2>1. next \in Steps /\ partial \in BOOLEAN
    BY <1>a DEF Steps, Lagging, DenseReady, AskRecord
  <2>2. ask' = [To(next) EXCEPT !.partial = partial]
    BY <1>9 DEF Readiness, Goes
  <2> HIDE DEF next, partial
  <2> QED BY <1>a, <2>1, <2>2 DEF AskRecord, To
<1>10. CASE Scan
  <2> DEFINE all == IF ask.tool = "search" THEN Matching ELSE Eligible
             next == IF ask.tool = "search" THEN "done" ELSE "refetch"
             mode == IF all = {} THEN ask.mode ELSE "scan"
             partial == IF all = {} THEN ask.partial ELSE FALSE
  <2>1. PICK page \in Pages(all, Matching) :
           ask' = [To(next) EXCEPT !.results = page, !.shown = Showing(page),
                                   !.more = page # all,
                                   !.mode = IF all = {} THEN @ ELSE "scan",
                                   !.partial = IF all = {} THEN @ ELSE FALSE]
    BY <1>10 DEF Scan, Goes
  <2> DEFINE more == page # all
  <2>2. /\ next \in Steps /\ mode \in {"engine", "scan"} /\ partial \in BOOLEAN
        /\ more \in BOOLEAN
    BY <1>a DEF Steps, AskRecord
  <2>3. page \in SUBSET Ids
    BY PagesTyped DEF Matching, Eligible
  <2>4. ask' = [To(next) EXCEPT !.results = page, !.shown = Showing(page),
                                !.more = more, !.mode = mode, !.partial = partial]
    <3> HIDE DEF all, next
    <3>1. To(next).mode = ask.mode /\ To(next).partial = ask.partial
      BY <1>a DEF To, AskRecord
    <3>2. ask' = [To(next) EXCEPT !.results = page, !.shown = Showing(page), !.more = more,
                                  !.mode = IF all = {} THEN To(next).mode ELSE "scan",
                                  !.partial = IF all = {} THEN To(next).partial ELSE FALSE]
      BY <1>a, <2>1 DEF To, AskRecord
    <3> QED BY <3>1, <3>2
  <2> HIDE DEF all, next, mode, partial, more
  <2> QED BY <1>a, <1>b, <2>2, <2>3, <2>4 DEF AskRecord, To
<1>11. CASE Tfidf
  <2> DEFINE all == SimilarIn(Eligible)
  <2>1. PICK page \in Pages(all, {}) :
           ask' = [To("done") EXCEPT !.results = page, !.shown = Showing(page),
                                     !.more = page # all, !.mode = "scan"]
    BY <1>11 DEF Tfidf, Goes
  <2> DEFINE more == page # all
  <2>2. page \in SUBSET Ids /\ more \in BOOLEAN
    BY PagesTyped DEF SimilarIn, Eligible
  <2>3. ask' = [To("done") EXCEPT !.results = page, !.shown = Showing(page),
                                  !.more = more, !.mode = "scan"]
    BY <2>1
  <2> HIDE DEF all, more
  <2> QED BY <1>a, <1>b, <2>2, <2>3 DEF AskRecord, To, Steps
<1>12. CASE Browse
  <2>1. PICK page \in Pages(Eligible, {}) :
           ask' = [To(IF page = {} THEN "scan" ELSE "refetch") EXCEPT
                    !.results = page, !.shown = Showing(page), !.more = page # Eligible,
                    !.mode = "scan"]
    BY <1>12 DEF Browse, Goes
  <2> DEFINE more == page # Eligible
             next == IF page = {} THEN "scan" ELSE "refetch"
  <2>2. page \in SUBSET Ids /\ more \in BOOLEAN /\ next \in Steps
    BY PagesTyped DEF Eligible, Steps
  <2>3. ask' = [To(next) EXCEPT !.results = page, !.shown = Showing(page), !.more = more,
                                !.mode = "scan"]
    BY <2>1
  <2> HIDE DEF more, next
  <2> QED BY <1>a, <1>b, <2>2, <2>3 DEF AskRecord, To
<1>13. CASE StartBatch
  <2>1. PICK asked \in SUBSET Ids : ask' = [To("batch") EXCEPT !.todo = asked]
    BY <1>13 DEF StartBatch, Goes
  <2> QED BY <1>a, <2>1 DEF AskRecord, To, Steps
<1>14. CASE ReadNext
  <2> DEFINE m == CHOOSE m \in ask.todo : \A o \in ask.todo : m <= o
             read == IF InProject(m) THEN ask.results \cup {m} ELSE ask.results
  <2>1. CASE ask.todo = {}
    <3>1. ask' = To("refetch")
      BY <1>14, <2>1 DEF ReadNext, Goes
    <3> QED BY <1>a, <3>1 DEF AskRecord, To, Steps
  <2>2. CASE ask.todo # {}
    <3>1. ask.todo \in SUBSET Ids /\ ask.results \in SUBSET Ids
      BY <1>a DEF AskRecord
    <3>2. m \in Ids
      BY <2>2, <3>1, Least
    <3>3. ask' = [ask EXCEPT !.todo = ask.todo \ {m}, !.results = read]
      BY <1>a, <1>14, <2>2 DEF ReadNext, Goes, AskRecord
    <3> HIDE DEF m
    <3>4. read \in SUBSET Ids /\ ask.todo \ {m} \in SUBSET Ids
      BY <3>1, <3>2
    <3> HIDE DEF read
    <3> QED BY <1>a, <3>3, <3>4 DEF AskRecord
  <2> QED BY <2>1, <2>2
<1>15. CASE Refetch
  <2> DEFINE there == {m \in ask.results : Shown(m)}
             next == IF ask.tool = "id" /\ there # {} THEN "relations" ELSE "done"
             cand == IF ask.tool = "id" THEN there ELSE ask.cand
  <2>1. ask' = [To(next) EXCEPT !.results = there, !.shown = Showing(there), !.cand = cand]
    BY <1>a, <1>15 DEF Refetch, Goes, To, AskRecord
  <2>2. there \in SUBSET Ids /\ next \in Steps /\ cand \in SUBSET Ids
    BY <1>a DEF AskRecord, Steps
  <2> HIDE DEF there, next, cand
  <2> QED BY <1>a, <1>b, <2>1, <2>2 DEF AskRecord, To
<1>16. CASE Related
  <2> DEFINE new == {m \in Reached \ ask.cand : Exists(m)}
             all == ask.cand \cup new
             shown == [m \in Ids |-> IF m \in new THEN memories[m] ELSE ask.shown[m]]
  <2>1. all \in SUBSET Ids
    BY <1>a DEF Reached, AskRecord
  <2>2. shown \in [Ids -> KnownMemory]
    BY <1>a DEF StoreInv, AskRecord
  <2>3. ask' = [To("done") EXCEPT !.results = all, !.shown = shown]
    BY <1>a, <1>16 DEF Related, Goes, To, AskRecord
  <2> HIDE DEF all, shown
  <2> QED BY <1>a, <2>1, <2>2, <2>3 DEF To, AskRecord, Steps
<1>17. ASSUME NEW m \in Ids, Walk(m) PROVE ask' \in AskRecord
  <2>1. CASE ask' = [ask EXCEPT !.head = m, !.current[m] = m]
    BY <1>a, <2>1 DEF AskRecord
  <2>2. CASE ask' = [ask EXCEPT !.todo = @ \ {m}]
    BY <1>a, <2>2 DEF AskRecord
  <2> QED BY <1>17, <2>1, <2>2 DEF Walk, Goes
<1>18. ASSUME NEW m \in Ids, Expand(m) PROVE ask' \in AskRecord
  <2> DEFINE depth == [n \in Ids |-> IF n \in (Neighbours(m) \cap Eligible) \ Reached
                                    THEN ask.depth[m] + 1 ELSE ask.depth[n]]
  <2>1. depth \in [Ids -> 0..Far]
    BY <1>a, <1>18 DEF Expand, Waiting, Far, AskRecord
  <2>2. ask' = [ask EXCEPT !.popped = ask.popped \cup {m}, !.depth = depth]
    BY <1>a, <1>18 DEF Expand, Goes, AskRecord
  <2> HIDE DEF depth
  <2> QED BY <1>a, <2>1, <2>2 DEF AskRecord
<1>19. ASSUME NEW m \in Ids, ReadId(m) PROVE ask' \in AskRecord
  <2>1. CASE ask' = [To("refetch") EXCEPT !.results = {m}, !.shown = Showing({m})]
    <3> DEFINE to == To("refetch")
               shown == Showing({m})
    <3>1. to \in AskRecord /\ shown \in [Ids -> KnownMemory]
      BY <1>a, <1>b, ToKeeps DEF Steps
    <3>2. ask' = [to EXCEPT !.results = {m}, !.shown = shown]
      BY <2>1
    <3> HIDE DEF to, shown
    <3> QED BY <3>1, <3>2 DEF AskRecord
  <2>2. CASE ask' = To("done")
    BY <1>a, <2>2, ToKeeps DEF Steps
  <2> QED BY <1>19, <2>1, <2>2 DEF ReadId, Goes
<1> QED BY <1>1, <1>2, <1>3, <1>4, <1>5, <1>6, <1>7, <1>8, <1>9, <1>10, <1>11, <1>12, <1>13,
           <1>14, <1>15, <1>16, <1>17, <1>18, <1>19 DEF Reader

LEMMA StoreKept ==
    ASSUME TypeInv, Others
    PROVE  StoreInv' /\ ask' = ask
<1>a. StoreInv
  BY DEF TypeInv
<1>b. ASSUME NEW m \in Ids, NEW new \in KnownMemory, new.life # "none", Change(m, new)
      PROVE  /\ memories' \in [Ids -> KnownMemory] /\ backlog' \subseteq Ids /\ active' \in 1..2
             /\ searchRows' \subseteq TableEntry /\ spent' \in Nat /\ (active' = 2 => spent' # 0)
             /\ (\A i \in Ids : Exists(i))' /\ ask' = ask
  <2>1. memories' = [memories EXCEPT ![m] = new] /\ memories \in [Ids -> KnownMemory]
    BY <1>a, <1>b DEF Change, StoreInv
  <2>2. memories' \in [Ids -> KnownMemory] /\ (\A i \in Ids : Exists(i))'
    BY <1>a, <1>b, <2>1 DEF StoreInv, Exists
  <2> QED BY <1>a, <1>b, <2>2 DEF Change, StoreInv
<1>1. ASSUME NEW m \in Ids, Hide(m) PROVE StoreInv' /\ ask' = ask
  <2>1. [memories[m] EXCEPT !.life = "invalidated"] \in KnownMemory
    BY <1>a DEF StoreInv, KnownMemory
  <2>2. [memories[m] EXCEPT !.life = "invalidated"].life # "none"
    BY <1>a DEF StoreInv, KnownMemory
  <2> QED BY <1>a, <1>b, <1>1, <2>1, <2>2 DEF Hide, StoreInv
<1>2. ASSUME NEW m \in Ids, Delete(m) PROVE StoreInv' /\ ask' = ask
  <2>1. [memories[m] EXCEPT !.life = "deleted"] \in KnownMemory
    BY <1>a DEF StoreInv, KnownMemory
  <2>2. [memories[m] EXCEPT !.life = "deleted"].life # "none"
    BY <1>a DEF StoreInv, KnownMemory
  <2>3. edges' \subseteq edges
    BY <1>2 DEF Delete
  <2> QED BY <1>a, <1>b, <1>2, <2>1, <2>2, <2>3 DEF Delete, StoreInv
<1>3. ASSUME NEW m \in Ids, Reword(m) PROVE StoreInv' /\ ask' = ask
  <2>1. PICK t \in {"match", "other"} : Change(m, [memories[m] EXCEPT !.text = t])
    BY <1>3 DEF Reword
  <2>2. [memories[m] EXCEPT !.text = t] \in KnownMemory
    BY <1>a DEF StoreInv, KnownMemory, Texts
  <2>3. [memories[m] EXCEPT !.text = t].life # "none"
    BY <1>a DEF StoreInv, KnownMemory, Exists
  <2> QED BY <1>a, <1>b, <1>3, <2>1, <2>2, <2>3 DEF Reword, StoreInv
<1>4. ASSUME NEW m \in Ids, Relevel(m) PROVE StoreInv' /\ ask' = ask
  <2>1. PICK l \in {"here", "low"} : Change(m, [memories[m] EXCEPT !.level = l])
    BY <1>a, <1>4 DEF Relevel, StoreInv, KnownMemory
  <2>2. [memories[m] EXCEPT !.level = l] \in KnownMemory
    BY <1>a DEF StoreInv, KnownMemory, Levels
  <2>3. [memories[m] EXCEPT !.level = l].life # "none"
    BY <1>a DEF StoreInv, KnownMemory, Exists
  <2> QED BY <1>a, <1>b, <1>4, <2>1, <2>2, <2>3 DEF Relevel, StoreInv
<1>5. ASSUME NEW m \in Ids, ProjectRow(m) PROVE StoreInv' /\ ask' = ask
  <2>1. RowOf(m, active) \in TableEntry
    BY <1>a DEF StoreInv, RowOf, TableEntry, KnownMemory
  <2>2. (\A i \in Ids : Exists(i))'
    BY <1>a, <1>5 DEF StoreInv, ProjectRow, Exists
  <2> QED BY <1>a, <1>5, <2>1, <2>2 DEF ProjectRow, StoreInv
<1>6. ASSUME NEW s \in Stores, RestoreAs(s) PROVE StoreInv' /\ ask' = ask
  <2>1. /\ memories' \in [Ids -> KnownMemory] /\ edges' \subseteq Edge
        /\ (\A i \in Ids : Exists(i))'
    BY <1>6, FilledTyped, RecallAssumption DEF RestoreAs, Exists
  <2> QED BY <1>a, <1>6, <2>1, RecallAssumption DEF RestoreAs, StoreInv
<1>7. ASSUME NEW s \in Stores, NEW e \in s.edges, Relate(e) PROVE StoreInv' /\ ask' = ask
  <2>1. e \in Edge
    BY RecallAssumption
  <2>2. (\A i \in Ids : Exists(i))'
    BY <1>a, <1>7 DEF StoreInv, Relate, Exists
  <2> QED BY <1>a, <1>7, <2>1, <2>2 DEF Relate, StoreInv
<1> QED BY <1>1, <1>2, <1>3, <1>4, <1>5, <1>6, <1>7 DEF Others

LEMMA StepsKept ==
    ASSUME TypeInv, Reader
    PROVE  StepInv'
<1>a. ask \in AskRecord /\ StepInv /\ StoreInv
  BY DEF TypeInv
<1>b. ask'.tool = ask.tool /\ ask'.step # "new"
  BY <1>a, ReaderFrame
<1>c. ask'.step \in Steps
  BY AskKept DEF AskRecord
<1>1. CASE Refresh
  BY <1>1, <1>a, <1>b, RefreshKeeps DEF StoreInv, StepInv, Ranked, Steps
<1>2. CASE Legs
  BY <1>2, <1>a, <1>b, LegsKeeps DEF StoreInv, StepInv, Ranked, Steps
<1>3. CASE Hydrate
  BY <1>3, <1>a, <1>b DEF Hydrate, Goes, To, AskRecord, StepInv, Ranked, Steps
<1>4. CASE Relations
  BY <1>4, <1>a, <1>b DEF Relations, Goes, To, AskRecord, StepInv, Ranked, Steps
<1>5. CASE Hop
  BY <1>5, <1>a, <1>b, HopIs DEF StepInv, Ranked, Steps
<1>6. CASE Conflicts
  BY <1>6, <1>a, <1>b DEF Conflicts, Goes, To, AskRecord, StepInv, Ranked, Steps
<1>7. CASE Expanded
  BY <1>7, <1>a, <1>b DEF Expanded, Goes, To, AskRecord, StepInv, Ranked, Steps
<1>8. CASE Content
  BY <1>8, <1>a, <1>b DEF Content, Goes, To, AskRecord, StepInv, Ranked, Steps
<1>9. CASE Readiness
  BY <1>9, <1>a, <1>b DEF Readiness, Goes, To, AskRecord, StepInv, Ranked, Steps
<1>10. CASE Scan
  BY <1>10, <1>a, <1>b DEF Scan, Goes, To, AskRecord, StepInv, Ranked, Steps
<1>11. CASE Tfidf
  BY <1>11, <1>a, <1>b DEF Tfidf, Goes, To, AskRecord, StepInv, Ranked, Steps
<1>12. CASE Browse
  BY <1>12, <1>a, <1>b DEF Browse, Goes, To, AskRecord, StepInv, Ranked, Steps
<1>13. CASE StartBatch
  BY <1>13, <1>a, <1>b DEF StartBatch, Goes, To, AskRecord, StepInv, Ranked, Steps
<1>14. CASE ReadNext
  BY <1>14, <1>a, <1>b DEF ReadNext, Goes, To, AskRecord, StepInv, Ranked, Steps
<1>15. CASE Refetch
  BY <1>15, <1>a, <1>b DEF Refetch, Goes, To, AskRecord, StepInv, Ranked, Steps
<1>16. CASE Related
  BY <1>16, <1>a, <1>b DEF Related, Goes, To, AskRecord, StepInv, Ranked, Steps
<1>17. ASSUME NEW m \in Ids, Walk(m) PROVE StepInv'
  BY <1>17, <1>a, <1>b, WalkIs DEF StepInv, Ranked, Steps
<1>18. ASSUME NEW m \in Ids, Expand(m) PROVE StepInv'
  BY <1>18, <1>a, <1>b DEF Expand, Goes, To, AskRecord, StepInv, Ranked, Steps
<1>19. ASSUME NEW m \in Ids, ReadId(m) PROVE StepInv'
  BY <1>19, <1>a, <1>b DEF ReadId, Goes, To, AskRecord, StepInv, Ranked, Steps
<1> QED BY <1>1, <1>2, <1>3, <1>4, <1>5, <1>6, <1>7, <1>8, <1>9, <1>10, <1>11, <1>12,
           <1>13, <1>14, <1>15, <1>16, <1>17, <1>18, <1>19 DEF Reader

\* What a step remembers: all that is there, and all that it found remembered.
LEMMA Remembered ==
    ASSUME TypeInv, Remember, StoreInv', ask'.tool = ask.tool
    PROVE  /\ witnessed' \in WitnessRecord
           /\ Eligible' \subseteq witnessed'.eligible
           /\ Contents(memories)' \subseteq witnessed'.content
           /\ (\A p \in witnessed.steady : p[1] \in Eligible /\ p[2] = memories[p[1]].text)'
           /\ witnessed'.edges \subseteq edges'
           /\ ask.step # "new" =>
                 /\ witnessed.eligible \subseteq witnessed'.eligible
                 /\ witnessed.content \subseteq witnessed'.content
                 /\ witnessed'.steady \subseteq witnessed.steady
                 /\ witnessed'.edges \subseteq witnessed.edges
                 /\ ~witnessed'.cleared => ~witnessed.cleared /\ backlog \subseteq backlog'
           /\ ask.step = "new" => ~witnessed'.cleared
<1> DEFINE first == ask.step = "new"
           now == {<<m, memories'[m].text>> : m \in Eligible'}
           kept(n, before) == IF active' # active THEN {} ELSE IF first THEN n ELSE before \cap n
           eligible == (IF first THEN Eligible ELSE witnessed.eligible) \cup Eligible'
           content == (IF first THEN Contents(memories) ELSE witnessed.content) \cup Contents(memories')
           steady == kept(now, witnessed.steady)
           es == kept(edges', witnessed.edges)
           cleared == ~first /\ (witnessed.cleared \/ ~(backlog \subseteq backlog'))
<1>1. witnessed' = [eligible |-> eligible, content |-> content, steady |-> steady,
                    edges |-> es, cleared |-> cleared]
  BY DEF Remember
<1>2. witnessed \in WitnessRecord /\ StoreInv
  BY DEF TypeInv
<1>3. Eligible \subseteq Ids /\ Eligible' \subseteq Ids
  BY DEF Eligible
<1>4. Contents(memories) \subseteq Ids \X KnownMemory /\ Contents(memories') \subseteq Ids \X KnownMemory
  BY <1>2 DEF Contents, StoreInv
<1>5. now \subseteq Ids \X Texts
  BY <1>3 DEF StoreInv, KnownMemory
<1>6. /\ eligible \in SUBSET Ids /\ content \in SUBSET (Ids \X KnownMemory)
      /\ steady \in SUBSET (Ids \X Texts) /\ es \in SUBSET Edge /\ cleared \in BOOLEAN
  BY <1>2, <1>3, <1>4, <1>5 DEF WitnessRecord, StoreInv
<1>7. steady \subseteq now /\ es \subseteq edges'
  OBVIOUS
<1>8. (\A p \in witnessed.steady : p[1] \in Eligible /\ p[2] = memories[p[1]].text)'
  <2>1. \A p \in now : p[1] \in Eligible' /\ p[2] = memories'[p[1]].text
    OBVIOUS
  <2> QED BY <1>1, <1>7, <2>1
<1>9. witnessed' \in WitnessRecord
  <2> HIDE DEF first, now, kept, eligible, content, steady, es, cleared
  <2> QED BY <1>1, <1>6 DEF WitnessRecord
<1>10. ask.step # "new" =>
           /\ witnessed.eligible \subseteq eligible /\ witnessed.content \subseteq content
           /\ steady \subseteq witnessed.steady /\ es \subseteq witnessed.edges
           /\ ~cleared => ~witnessed.cleared /\ backlog \subseteq backlog'
  OBVIOUS
<1>11. Eligible' \subseteq eligible /\ Contents(memories') \subseteq content
       /\ (ask.step = "new" => ~cleared)
  OBVIOUS
<1> HIDE DEF first, now, kept, eligible, content, steady, es, cleared
<1> QED BY <1>1, <1>7, <1>8, <1>9, <1>10, <1>11

LEMMA StepOfTypes ==
    ASSUME TypeInv, RecallNext
    PROVE  TypeInv' /\ WitnessInv' /\ Remember /\ ask'.tool = ask.tool /\ (Reader \/ (Others /\ ask' = ask))
<1>1. CASE Reader
  <2>1. UNCHANGED Canon /\ ask'.tool = ask.tool
    BY <1>1, ReaderFrame DEF TypeInv
  <2>2. StoreInv'
    <3>1. (\A m \in Ids : Exists(m))'
      BY <2>1 DEF TypeInv, StoreInv, Canon, Exists
    <3> QED BY <2>1, <3>1 DEF TypeInv, StoreInv, Canon
  <2>3. Remember
    BY DEF RecallNext
  <2> QED BY <1>1, <2>1, <2>2, <2>3, AskKept, StepsKept, Remembered DEF TypeInv, WitnessInv
<1>2. CASE Others
  <2>1. StoreInv' /\ ask' = ask
    BY <1>2, StoreKept
  <2>2. StepInv' /\ ask' \in AskRecord
    BY <2>1 DEF TypeInv, StepInv, Ranked
  <2>3. Remember
    BY DEF RecallNext
  <2> QED BY <1>2, <2>1, <2>2, <2>3, Remembered DEF TypeInv, WitnessInv
<1> QED BY <1>1, <1>2 DEF RecallNext

-----------------------------------------------------------------------------
(* What is served.                                                         *)

LEMMA ServedGrows ==
    ASSUME NEW E, NEW F, NEW C, NEW D, E \subseteq F, C \subseteq D, Served(E, C)
    PROVE  Served(F, D)
BY DEF Served, Sourced

LEMMA SourcesStay ==
    ASSUME NEW E, Sourced(E), ask'.tool = ask.tool, ask'.cand = ask.cand,
           ask'.depth = ask.depth, ask'.current = ask.current, ask'.head = ask.head
    PROVE  Sourced(E)' /\ Reached' = Reached /\ Obsolete' = Obsolete /\ Currents' = Currents
BY DEF Sourced, Reached, Ranked, Obsolete, Currents

\* A page of what is eligible, shown as the records are.
LEMMA PageServed ==
    ASSUME NEW E, NEW C, NEW page, Sourced(E)', page \subseteq E, page \subseteq Ids,
           Contents(memories) \subseteq C, ask'.tool \notin {"id", "ids"},
           ask'.results = page, ask'.shown = Showing(page)
    PROVE  Served(E, C)'
<1>1. \A m \in page : <<m, ask'.shown[m]>> \in C
  BY DEF Showing, Contents
<1> QED BY <1>1 DEF Served

LEMMA ReaderServes ==
    ASSUME TypeInv, Reader, NEW E, NEW C, Eligible \subseteq E, Contents(memories) \subseteq C,
           ask.step # "new" => Served(E, C)
    PROVE  Served(E, C)'
<1>a. ask \in AskRecord /\ StepInv /\ StoreInv
  BY DEF TypeInv
<1>b. ask'.tool = ask.tool /\ UNCHANGED Canon
  BY <1>a, ReaderFrame
<1>c. Served(E, C)
  <2>1. CASE ask.step = "new"
    <3>1. ask = Asked(ask.tool, ask.scoped)
      BY <1>a, <2>1 DEF StepInv
    <3>2. /\ ask.cand = {} /\ ask.results = {} /\ ask.head = Nobody
          /\ \A m \in Ids : ask.current[m] = Nobody /\ ask.depth[m] = Far
      BY <3>1 DEF Asked
    <3> QED BY <2>1, <3>2 DEF Served, Sourced, Reached, Far
  <2> QED BY <2>1
<1>d. Sourced(E)
  BY <1>c DEF Served
<1>1. CASE Refresh
  BY <1>a, <1>b, <1>c, <1>1, RefreshKeeps DEF StoreInv, SameWork, StepInv, Ranked, Served, Sourced,
     Reached
<1>2. CASE Legs
  BY <1>a, <1>b, <1>c, <1>2, LegsKeeps DEF StoreInv, SameWork, StepInv, Ranked, Served, Sourced,
     Reached
<1>3. CASE Hydrate
  <2>1. /\ ask'.cand = Candidates /\ ask'.depth = ask.depth /\ ask'.current = ask.current
        /\ ask'.head = ask.head /\ ask'.results = ask.results /\ ask'.shown = ask.shown
        /\ ask.tool \in {"search", "query"} /\ ask'.step \in {"readiness", "relations"}
    BY <1>a, <1>3, RecallAssumption DEF Hydrate, Goes, To, AskRecord, StepInv
  <2>2. Candidates \subseteq E
    BY DEF Candidates
  <2>3. Sourced(E)'
    <3>1. Reached' \subseteq E
      BY <1>d, <2>1, <1>a DEF Sourced, Reached, Ranked
    <3> QED BY <1>d, <2>1, <2>2, <3>1 DEF Sourced
  <2> QED BY <1>b, <1>c, <2>1, <2>3 DEF Served
<1>4. CASE Relations
  <2>1. /\ ask'.cand = ask.cand /\ ask'.current = ask.current
        /\ ask'.head = ask.head /\ ask'.results = ask.results /\ ask'.shown = ask.shown
        /\ ask'.depth = [m \in Ids |-> IF m \in ask.cand THEN 0 ELSE Far]
        /\ ask.step = "relations" /\ ask'.step \in {"bundles", "expand"}
    BY <1>a, <1>4 DEF Relations, Goes, To, AskRecord
  <2>2. Reached' \subseteq ask.cand
    BY <2>1 DEF Reached, Far
  <2>3. Sourced(E)'
    BY <1>b, <1>d, <2>1, <2>2 DEF Sourced, Ranked
  <2> QED BY <1>a, <1>b, <1>c, <2>1, <2>3 DEF Served, StepInv
<1>5. CASE Hop
  <2> DEFINE nexts == (Successors(ask.edges, ask.head) \ {ask.head}) \cap Eligible
             next == CHOOSE n \in nexts : \A o \in nexts : n <= o
             end == IF ask.head = Walked THEN Nobody ELSE ask.head
  <2>1. /\ ask'.cand = ask.cand /\ ask'.results = ask.results /\ ask'.shown = ask.shown
        /\ ask'.depth = ask.depth /\ ask.step = "bundles" /\ ask'.step = "bundles"
        /\ \/ ask'.head = next /\ nexts # {} /\ ask'.current = ask.current
           \/ ask'.head = Nobody /\ ask'.current = [ask.current EXCEPT ![Walked] = end]
    BY <1>a, <1>5, HopIs
  <2>2. nexts # {} => next \in E
    <3>1. nexts \in SUBSET Ids /\ nexts \subseteq E
      BY DEF Eligible
    <3> HIDE DEF nexts
    <3> QED BY <3>1, Least
  <2>3. end \in E \cup {Nobody}
    BY <1>d DEF Sourced
  <2> HIDE DEF nexts, next, end
  <2>4. ask.current \in [Ids -> Ids \cup {Nobody}]
    BY <1>a DEF AskRecord
  <2>5. \A m \in Ids : ask'.current[m] \in E \cup {Nobody}
    BY <1>d, <2>1, <2>3, <2>4 DEF Sourced
  <2>6. Sourced(E)'
    BY <1>b, <1>d, <2>1, <2>2, <2>5 DEF Sourced, Ranked, Reached
  <2> QED BY <1>a, <1>b, <1>c, <2>1, <2>6 DEF Served, StepInv
<1>6. CASE Conflicts
  BY <1>a, <1>b, <1>c, <1>6 DEF Conflicts, Goes, To, AskRecord, StepInv, Ranked, Served, Sourced,
     Reached
<1>7. CASE Expanded
  BY <1>a, <1>b, <1>c, <1>7 DEF Expanded, Goes, To, AskRecord, StepInv, Ranked, Served, Sourced,
     Reached
<1>8. CASE Content
  <2>1. /\ ask'.cand = ask.cand /\ ask'.depth = ask.depth /\ ask'.current = ask.current
        /\ ask'.head = ask.head
    BY <1>a, <1>8 DEF Content, Goes, To, AskRecord
  <2>2. Sourced(E)'
    BY <1>b, <1>d, <2>1, SourcesStay
  <2> DEFINE pool == {m \in Reached \cup ask.cand \cup Currents : Exists(m)} \ Obsolete
  <2>3. PICK page \in Pages(pool, Protected) : ask'.results = page /\ ask'.shown = Showing(page)
    BY <1>a, <1>8 DEF Content, Goes, To, AskRecord
  <2>4. pool \subseteq Ids /\ pool \subseteq E
    <3>1. Currents \subseteq Ids /\ Reached \subseteq Ids /\ ask.cand \subseteq Ids
      BY <1>a, SetsTyped DEF AskRecord
    <3>2. Ranked
      BY <1>8 DEF Content
    <3>3. Currents \subseteq E
      BY <1>d, <1>a DEF Sourced, Currents, Obsolete, AskRecord
    <3> QED BY <1>d, <3>1, <3>2, <3>3 DEF Sourced
  <2>5. page \subseteq Ids /\ page \subseteq E
    BY <2>4, PagesTyped
  <2>6. ask'.tool \notin {"id", "ids"}
    BY <1>b, <1>8 DEF Content, Ranked
  <2> HIDE DEF pool
  <2> QED BY <2>2, <2>3, <2>5, <2>6, PageServed
<1>9. CASE Readiness
  BY <1>a, <1>b, <1>c, <1>9 DEF Readiness, Goes, To, AskRecord, StepInv, Ranked, Served, Sourced,
     Reached
<1>10. CASE Scan
  <2>1. /\ ask'.cand = ask.cand /\ ask'.depth = ask.depth /\ ask'.current = ask.current
        /\ ask'.head = ask.head
    BY <1>a, <1>10 DEF Scan, Goes, To, AskRecord
  <2>2. Sourced(E)'
    BY <1>b, <1>d, <2>1, SourcesStay
  <2> DEFINE all == IF ask.tool = "search" THEN Matching ELSE Eligible
  <2>3. PICK page \in Pages(all, Matching) : ask'.results = page /\ ask'.shown = Showing(page)
    BY <1>a, <1>10 DEF Scan, Goes, To, AskRecord
  <2>4. page \subseteq Ids /\ page \subseteq E
    BY PagesTyped DEF Matching, Eligible
  <2>5. ask'.tool \notin {"id", "ids"}
    BY <1>a, <1>b, <1>10 DEF Scan, StepInv
  <2> QED BY <2>2, <2>3, <2>4, <2>5, PageServed
<1>11. CASE Tfidf
  <2>1. /\ ask'.cand = ask.cand /\ ask'.depth = ask.depth /\ ask'.current = ask.current
        /\ ask'.head = ask.head
    BY <1>a, <1>11 DEF Tfidf, Goes, To, AskRecord
  <2>2. Sourced(E)'
    BY <1>b, <1>d, <2>1, SourcesStay
  <2>3. PICK page \in Pages(SimilarIn(Eligible), {}) :
           ask'.results = page /\ ask'.shown = Showing(page)
    BY <1>a, <1>11 DEF Tfidf, Goes, To, AskRecord
  <2>4. page \subseteq Ids /\ page \subseteq E
    BY PagesTyped DEF SimilarIn, Eligible
  <2>5. ask'.tool \notin {"id", "ids"}
    BY <1>b, <1>11 DEF Tfidf
  <2> QED BY <2>2, <2>3, <2>4, <2>5, PageServed
<1>12. CASE Browse
  <2>1. /\ ask'.cand = ask.cand /\ ask'.depth = ask.depth /\ ask'.current = ask.current
        /\ ask'.head = ask.head
    BY <1>a, <1>12 DEF Browse, Goes, To, AskRecord
  <2>2. Sourced(E)'
    BY <1>b, <1>d, <2>1, SourcesStay
  <2>3. PICK page \in Pages(Eligible, {}) : ask'.results = page /\ ask'.shown = Showing(page)
    BY <1>a, <1>12 DEF Browse, Goes, To, AskRecord
  <2>4. page \subseteq Ids /\ page \subseteq E
    BY PagesTyped DEF Eligible
  <2>5. ask'.tool \notin {"id", "ids"}
    BY <1>b, <1>12 DEF Browse
  <2> QED BY <2>2, <2>3, <2>4, <2>5, PageServed
<1>13. CASE StartBatch
  BY <1>a, <1>b, <1>c, <1>13 DEF StartBatch, Goes, To, AskRecord, StepInv, Ranked, Served,
     Sourced, Reached
<1>14. CASE ReadNext
  <2>1. /\ ask'.cand = ask.cand /\ ask'.depth = ask.depth /\ ask'.current = ask.current
        /\ ask'.head = ask.head
    BY <1>a, <1>14 DEF ReadNext, Goes, To, AskRecord
  <2>2. Sourced(E)'
    BY <1>b, <1>d, <2>1, SourcesStay
  <2>3. ask.step = "batch" /\ ask'.step \in {"batch", "refetch"}
    BY <1>a, <1>14 DEF ReadNext, Goes, To, AskRecord
  <2>4. ask'.tool = "ids"
    BY <1>a, <1>b, <2>3, RecallAssumption DEF StepInv, Ranked, AskRecord
  <2> QED BY <2>2, <2>3, <2>4 DEF Served
<1>15. CASE Refetch
  <2> DEFINE there == {m \in ask.results : Shown(m)}
  <2>1. /\ ask'.depth = ask.depth /\ ask'.current = ask.current /\ ask'.head = ask.head
        /\ ask'.scoped = ask.scoped /\ ask'.results = there /\ ask'.shown = Showing(there)
        /\ ask'.cand = IF ask.tool = "id" THEN there ELSE ask.cand
        /\ ask'.step = IF ask.tool = "id" /\ there # {} THEN "relations" ELSE "done"
    BY <1>a, <1>15 DEF Refetch, Goes, To, AskRecord
  <2>2. there \subseteq Ids /\ (ask.tool \notin {"id", "ids"} => there \subseteq E)
    BY <1>a, <1>c DEF AskRecord, Served
  <2>3. ask.tool = "ids" => \A m \in there : ask.scoped => memories[m].level # "foreign"
    BY DEF Shown, InProject
  <2>4. \A m \in there : <<m, Showing(there)[m]>> \in C /\ Showing(there)[m] = memories[m]
    BY <2>2 DEF Showing, Contents
  <2>5. ask.tool = "id" => Reached \subseteq E
    BY <1>c, <1>15 DEF Refetch, Served
  <2> HIDE DEF there
  <2>6. Sourced(E)'
    BY <1>b, <1>d, <2>1, <2>5 DEF Sourced, Reached, Ranked
  <2> QED BY <1>b, <2>1, <2>2, <2>3, <2>4, <2>6 DEF Served
<1>16. CASE Related
  <2>1. /\ ask'.cand = ask.cand /\ ask'.depth = ask.depth /\ ask'.current = ask.current
        /\ ask'.head = ask.head
    BY <1>a, <1>16 DEF Related, Goes, To, AskRecord
  <2>2. Sourced(E)'
    BY <1>b, <1>d, <2>1, SourcesStay
  <2> DEFINE new == {m \in Reached \ ask.cand : Exists(m)}
  <2>3. /\ ask'.results = ask.cand \cup new /\ ask'.step = "done"
        /\ ask'.shown = [m \in Ids |-> IF m \in new THEN memories[m] ELSE ask.shown[m]]
        /\ ask.step = "content" /\ ask.tool = "id"
    BY <1>a, <1>16 DEF Related, Goes, To, AskRecord
  <2>4. new \subseteq E /\ new \subseteq Ids /\ ask.cand \subseteq Ids /\ ask.cand = ask.results
    BY <1>a, <1>c, <1>d, <2>3 DEF Served, Sourced, Reached, AskRecord
  <2>5. \A m \in new : <<m, memories[m]>> \in C
    BY <2>4 DEF Contents
  <2>6. \A m \in ask.cand : <<m, ask.shown[m]>> \in C
    BY <1>c, <2>3, <2>4 DEF Served
  <2> HIDE DEF new
  <2>7. \A m \in ask'.results : <<m, ask'.shown[m]>> \in C
    BY <2>3, <2>4, <2>5, <2>6
  <2> QED BY <1>b, <2>1, <2>2, <2>3, <2>4, <2>7 DEF Served
<1>17. ASSUME NEW m \in Ids, Walk(m) PROVE Served(E, C)'
  <2>1. /\ ask'.cand = ask.cand /\ ask'.results = ask.results /\ ask'.shown = ask.shown
        /\ ask'.depth = ask.depth /\ ask.step = "bundles" /\ ask'.step = "bundles"
        /\ \/ m \in Eligible /\ ask'.head = m /\ ask'.current = [ask.current EXCEPT ![m] = m]
           \/ ask'.head = ask.head /\ ask'.current = ask.current
    BY <1>a, <1>17, WalkIs
  <2>2. ask.current \in [Ids -> Ids \cup {Nobody}]
    BY <1>a DEF AskRecord
  <2>3. \A n \in Ids : ask'.current[n] \in E \cup {Nobody}
    BY <1>d, <2>1, <2>2 DEF Sourced
  <2>4. Sourced(E)'
    BY <1>b, <1>d, <2>1, <2>3 DEF Sourced, Ranked, Reached
  <2> QED BY <1>a, <1>b, <1>c, <2>1, <2>4 DEF Served
<1>18. ASSUME NEW m \in Ids, Expand(m) PROVE Served(E, C)'
  BY <1>a, <1>b, <1>c, <1>18 DEF Expand, Goes, To, AskRecord, StepInv, Ranked, Served, Sourced,
     Reached
<1>19. ASSUME NEW m \in Ids, ReadId(m) PROVE Served(E, C)'
  <2>1. /\ ask'.cand = ask.cand /\ ask'.depth = ask.depth /\ ask'.current = ask.current
        /\ ask'.head = ask.head
    BY <1>a, <1>19 DEF ReadId, Goes, To, AskRecord
  <2>2. Sourced(E)'
    BY <1>b, <1>d, <2>1, SourcesStay
  <2>3. CASE ask' = [To("refetch") EXCEPT !.results = {m}, !.shown = Showing({m})]
    <3>1. ask'.results = {m} /\ ask'.shown = Showing({m}) /\ ask'.step = "refetch" /\ ask'.tool = "id"
          /\ ask.step = "new"
      BY <1>a, <1>19, <2>3 DEF ReadId, To, AskRecord
    <3>3. Reached' = {}
      BY <1>a, <2>1, <3>1 DEF StepInv, Asked, Reached, Far
    <3>2. <<m, Showing({m})[m]>> \in C
      BY DEF Showing, Contents
    <3> QED BY <2>2, <3>1, <3>2, <3>3 DEF Served
  <2>4. CASE ask' = To("done")
    <3>1. ask'.results = ask.results /\ ask'.shown = ask.shown /\ ask'.tool = "id"
          /\ ask.step = "new" /\ ask'.step = "done"
      BY <1>a, <1>19, <2>4 DEF ReadId, To, AskRecord
    <3>2. ask.results = {}
      BY <1>a, <3>1 DEF StepInv, Asked
    <3> QED BY <2>2, <3>1, <3>2 DEF Served
  <2> QED BY <1>19, <2>3, <2>4 DEF ReadId, Goes
<1> QED BY <1>1, <1>2, <1>3, <1>4, <1>5, <1>6, <1>7, <1>8, <1>9, <1>10, <1>11, <1>12, <1>13,
           <1>14, <1>15, <1>16, <1>17, <1>18, <1>19 DEF Reader

LEMMA ServeStart == RecallInit => ServeInv /\ WitnessInv
BY DEF RecallInit, ServeInv, WitnessInv, Asked

LEMMA ServeStep ==
    ASSUME TypeInv, WitnessInv, ServeInv, RecallNext
    PROVE  ServeInv'
<1>e. PICK E, C : E = witnessed'.eligible /\ C = witnessed'.content
  OBVIOUS
<1>a. StoreInv' /\ Remember /\ ask'.tool = ask.tool /\ (Reader \/ (Others /\ ask' = ask))
  BY StepOfTypes DEF TypeInv
<1>b. /\ Eligible' \subseteq E /\ Contents(memories)' \subseteq C
      /\ ask.step # "new" => witnessed.eligible \subseteq E /\ witnessed.content \subseteq C
  BY <1>a, <1>e, Remembered
<1>c. ask.step # "new" => Served(E, C)
  BY <1>b, ServedGrows DEF ServeInv
<1>1. CASE Reader
  <2>1. memories' = memories
    BY <1>1, ReaderFrame DEF TypeInv, Canon
  <2>2. Eligible \subseteq E /\ Contents(memories) \subseteq C
    BY <1>a, <1>b, <2>1 DEF Eligible, IsLive, Admitted, Contents
  <2>3. Served(E, C)'
    BY <1>1, <1>c, <2>2, ReaderServes
  <2> QED BY <1>e, <2>3 DEF ServeInv
<1>2. CASE ask' = ask
  BY <1>2, <1>c, <1>e DEF ServeInv, Served, Sourced, Reached, Ranked
<1> QED BY <1>a, <1>1, <1>2

-----------------------------------------------------------------------------
(* Bundles.                                                                *)

\* What is led to holds where it starts, and every pair leads on from what it holds.
LEMMA LeadsOn ==
    ASSUME NEW pairs, NEW S
    PROVE  /\ S \cap Ids \subseteq LeadTo(pairs, S)
           /\ \A m \in LeadTo(pairs, S), n \in Ids : <<m, n>> \in pairs => n \in LeadTo(pairs, S)
BY DEF LeadTo, Closed

LEMMA SuccessorsFollow ==
    ASSUME NEW es, NEW m, NEW n
    PROVE  n \in Successors(es, m) <=> <<m, n>> \in Followed(es)
BY DEF Successors, Followed

LEMMA BundledShrinks ==
    ASSUME NEW es, NEW S, NEW fs, NEW T, fs \subseteq es, T \subseteq S, Bundled(es, S)
    PROVE  Bundled(fs, T)
<1>1. EndsIn(es, S) => EndsIn(fs, T)
  <2>1. Followed(fs) \subseteq Followed(es)
    BY FollowedGrows
  <2> QED BY <2>1 DEF EndsIn
<1>2. ConflictsIn(es, S) => ConflictsIn(fs, T)
  BY DEF ConflictsIn
<1> QED BY <1>1, <1>2 DEF Bundled

LEMMA BundledStart ==
    ASSUME ask = Asked(ask.tool, ask.scoped), NEW es, NEW S
    PROVE  Bundled(es, S)
<1>1. /\ ask.edges = {} /\ ask.cand = {} /\ ask.todo = {} /\ ask.step = "new"
      /\ ask.head = Nobody /\ ask.walked = {} /\ ask.results = {} /\ ~ask.more
      /\ \A m \in Ids : ask.current[m] = Nobody
  BY DEF Asked
<1> QED BY <1>1 DEF Bundled, Before, Untouched

\* What a step that is past the bundles, and leaves them, keeps.
LEMMA BundledStays ==
    ASSUME NEW es, NEW S, Bundled(es, S), ask.step \notin Before, ask'.step \notin Before \cup {"bundles"},
           ask.step = "bundles" => ask.todo = {},
           ask.step = "bundles" => ConflictsIn(es, S)',
           ask'.cand = ask.cand, ask'.todo = ask.todo, ask'.edges = ask.edges,
           ask'.current = ask.current,
           ask.step # "bundles" => ask'.conflicts = ask.conflicts,
           /\ ask'.step \in {"readiness", "done"} /\ ask'.mode = "engine"
           /\ ask'.tool = "search" /\ ask'.results # {}
           => PageInv'
    PROVE  Bundled(es, S)'
<1>1. EndsIn(es, S)' <=> EndsIn(es, S)
  BY DEF EndsIn
<1>2. ask.step # "bundles" => (ConflictsIn(es, S)' <=> ConflictsIn(es, S))
  BY DEF ConflictsIn
<1> QED BY <1>1, <1>2 DEF Bundled, Before, Untouched

LEMMA ReaderBundles ==
    ASSUME TypeInv, Reader, NEW es, NEW S, es \subseteq edges, S \subseteq Eligible,
           Ranked => Bundled(es, S)
    PROVE  Ranked' => Bundled(es, S)'
<1>a. ask \in AskRecord /\ StepInv /\ StoreInv
  BY DEF TypeInv
<1>b. ask'.tool = ask.tool
  BY <1>a, ReaderFrame
<1> DEFINE Goal == Ranked' => Bundled(es, S)'
<1>1. CASE Refresh
  <2>1. /\ ask'.edges = ask.edges /\ ask'.cand = ask.cand /\ ask'.todo = ask.todo
        /\ ask'.head = ask.head /\ ask'.walked = ask.walked /\ ask'.results = ask.results
        /\ ask'.more = ask.more /\ ask'.current = ask.current
        /\ ask.step = "new" /\ ask'.step \in {"legs", "scan"}
    BY <1>a, <1>1, RefreshKeeps DEF StoreInv, SameWork
  <2> QED BY <1>b, <2>1 DEF Ranked, Bundled, Before, Untouched, ConflictsIn
<1>2. CASE Legs
  <2>1. /\ ask'.edges = ask.edges /\ ask'.cand = ask.cand /\ ask'.todo = ask.todo
        /\ ask'.head = ask.head /\ ask'.walked = ask.walked /\ ask'.results = ask.results
        /\ ask'.more = ask.more /\ ask'.current = ask.current
        /\ ask.step = "legs" /\ ask'.step \in {"hydrate", "scan"}
    BY <1>a, <1>2, LegsKeeps DEF StoreInv, SameWork
  <2> QED BY <1>b, <2>1 DEF Ranked, Bundled, Before, Untouched, ConflictsIn
<1>3. CASE Hydrate
  <2>1. /\ ask'.edges = ask.edges /\ ask'.cand = Candidates /\ ask'.todo = Candidates
        /\ ask'.head = ask.head /\ ask'.walked = ask.walked /\ ask'.results = ask.results
        /\ ask'.more = ask.more /\ ask'.current = ask.current /\ ask.step = "hydrate"
        /\ ask'.step = IF Candidates = {} THEN "readiness" ELSE "relations"
    BY <1>a, <1>3 DEF Hydrate, Goes, To, AskRecord
  <2> QED BY <1>b, <2>1 DEF Ranked, Bundled, Before, Untouched, ConflictsIn
<1>4. CASE Relations
  <2>1. /\ ask'.edges = edges /\ ask'.cand = ask.cand /\ ask'.todo = ask.todo
        /\ ask'.head = ask.head /\ ask'.walked = ask.walked /\ ask'.results = ask.results
        /\ ask'.more = ask.more /\ ask'.current = ask.current
        /\ ask.step = "relations" /\ (Ranked => ask'.step = "bundles")
    BY <1>a, <1>4 DEF Relations, Goes, To, AskRecord
  <2>2. ASSUME Ranked PROVE Bundled(es, S)'
    <3>1. /\ ask.todo = ask.cand /\ ask.cand \subseteq Ids /\ ask.head = Nobody
          /\ ask.walked = {} /\ \A m \in Ids : ask.current[m] = Nobody
      BY <1>a, <2>1, <2>2 DEF Bundled, Before, AskRecord
    <3>2. WalkInv'
      BY <2>1, <3>1 DEF WalkInv
    <3> QED BY <2>1, <2>2, <3>1, <3>2 DEF Bundled, EndsIn, Before, Untouched
  <2> QED BY <1>a, <1>b, <2>1, <2>2 DEF Ranked, StoreInv
<1>5. CASE Hop
  <2> DEFINE nexts == (Successors(ask.edges, ask.head) \ {ask.head}) \cap Eligible
             next == CHOOSE n \in nexts : \A o \in nexts : n <= o
             end == IF ask.head = Walked THEN Nobody ELSE ask.head
             Led == LeadTo(Followed(ask.edges), Successors(ask.edges, Walked))
  <2>a. /\ ask.step = "bundles" /\ ask'.step = "bundles" /\ ask.head # Nobody
        /\ ask'.cand = ask.cand /\ ask'.edges = ask.edges
        /\ \/ /\ nexts # {} /\ next \notin ask.walked
              /\ ask'.head = next /\ ask'.walked = ask.walked \cup {next}
              /\ ask'.todo = ask.todo /\ ask'.current = ask.current
           \/ /\ nexts = {} \/ next \in ask.walked
              /\ ask'.head = Nobody /\ ask'.walked = {} /\ ask'.todo = ask.todo \ {Walked}
              /\ ask'.current = [ask.current EXCEPT ![Walked] = end]
    BY <1>a, <1>5, HopIs
  <2> SUFFICES ASSUME Ranked PROVE Bundled(es, S)'
    BY <1>b, <2>a DEF Ranked
  <2>b. Bundled(es, S) /\ WalkInv /\ ask.todo \subseteq ask.cand
    BY <2>a DEF Bundled
  <2>c. /\ ask.cand \subseteq Ids /\ ask.current \in [Ids -> Ids \cup {Nobody}]
        /\ ask.edges \in SUBSET Edge /\ ask.head \in Ids /\ ask.walked \subseteq Ids
    BY <1>a, <2>a DEF AskRecord
  <2>d. PICK c \in ask.todo :
           /\ ask.current[c] = c
           /\ \A d \in ask.todo \ {c} : ask.current[d] = Nobody
           /\ \/ ask.head = c /\ ask.walked = {}
              \/ ask.head \in LeadTo(Followed(ask.edges), Successors(ask.edges, c))
    BY <2>a, <2>b DEF WalkInv
  <2>e. c \in Ids /\ Nobody \notin Ids
    BY <2>b, <2>c, RecallAssumption DEF Nobody
  <2>f. Walked = c
    BY <2>c, <2>d, <2>e, <2>b DEF Walked
  <2>g. (ask.head = c /\ ask.walked = {}) \/ ask.head \in Led
    BY <2>d, <2>f
  <2>h. nexts # {} => next \in nexts /\ next \in Ids
    <3>1. nexts \in SUBSET Ids
      BY DEF Eligible
    <3> HIDE DEF nexts
    <3> QED BY <3>1, Least
  <2>i. nexts # {} => next \in Led
    <3>1. ASSUME NEW n \in nexts PROVE n \in Led
      <4>1. n \in Ids /\ n \in Successors(ask.edges, ask.head)
        BY DEF Eligible
      <4>2. <<ask.head, n>> \in Followed(ask.edges)
        BY <4>1, SuccessorsFollow
      <4> QED BY <2>f, <2>g, <4>1, <4>2, LeadsOn
    <3> HIDE DEF nexts, next, Led
    <3> QED BY <2>h, <3>1
  <2>1. CASE nexts # {} /\ next \notin ask.walked
    <3>1. /\ ask'.head = next /\ ask'.walked = ask.walked \cup {next}
          /\ ask'.todo = ask.todo /\ ask'.current = ask.current
      BY <2>a, <2>1
    <3>2. WalkInv'
      <4>1. next \in LeadTo(Followed(ask.edges), Successors(ask.edges, c)) /\ next # Nobody
        BY <2>e, <2>f, <2>h, <2>i, <2>1
      <4> HIDE DEF nexts, next
      <4> QED BY <2>a, <2>d, <3>1, <4>1 DEF WalkInv
    <3>3. EndsIn(es, S)' <=> EndsIn(es, S)
      BY <2>a, <3>1 DEF EndsIn
    <3> QED BY <2>a, <2>b, <3>1, <3>2, <3>3 DEF Bundled, Before, Untouched
  <2>2. CASE nexts = {} \/ next \in ask.walked
    <3>2. /\ ask'.head = Nobody /\ ask'.walked = {} /\ ask'.todo = ask.todo \ {c}
          /\ ask'.current = [ask.current EXCEPT ![c] = IF ask.head = c THEN Nobody ELSE ask.head]
      BY <2>a, <2>f, <2>2
    <3>3. WalkInv'
      BY <2>b, <2>c, <2>d, <3>2 DEF WalkInv
    <3>4. ASSUME EndsIn(es, S), es \subseteq ask.edges PROVE EndsIn(es, S)'
      <4> SUFFICES ASSUME NEW a \in ask.cand \ ask'.todo, ask'.current[a] = Nobody,
                          ~LeadsBack(ask.edges, a), NEW p \in Followed(es), p[1] = a, {p[1], p[2]} \subseteq S
                   PROVE  FALSE
        BY <2>a DEF EndsIn
      <4>1. CASE a # c
        BY <2>b, <2>c, <3>2, <3>4, <4>1 DEF EndsIn
      <4>2. CASE a = c
        <5>1. ask.head = c
          BY <2>a, <2>c, <2>e, <3>2, <4>2
        <5>2. p \in Followed(ask.edges) /\ p = <<p[1], p[2]>>
          BY <3>4, FollowedGrows DEF Followed
        <5>3. p[2] \in Successors(ask.edges, ask.head)
          BY <4>2, <5>1, <5>2, SuccessorsFollow
        <5>4. ask.head \notin Led
          BY <2>f, <4>2, <5>1 DEF LeadsBack
        <5>5. p[2] \in Ids /\ p[2] # c
          BY <2>f, <4>2, <5>1, <5>3, <5>4, LeadsOn DEF Eligible
        <5>6. nexts # {}
          BY <5>1, <5>3, <5>5
        <5>7. next \in ask.walked /\ ask.walked = {}
          <6> HIDE DEF nexts, next, Led
          <6> QED BY <2>2, <2>g, <5>4, <5>6
        <5> QED BY <5>7
      <4> QED BY <4>1, <4>2
    <3> QED BY <2>a, <2>b, <3>2, <3>3, <3>4 DEF Bundled, Before, Untouched
  <2> QED BY <2>1, <2>2
<1>6. CASE Conflicts
  <2> DEFINE all == {{e.from, e.to} : e \in {x \in ask.edges : /\ x.type = "contradicts"
                                                             /\ {x.from, x.to} \subseteq ask.cand
                                                             /\ {x.from, x.to} \subseteq Eligible}}
  <2>1. /\ ask'.edges = ask.edges /\ ask'.cand = ask.cand /\ ask'.todo = ask.todo
        /\ ask'.current = ask.current /\ ask'.conflicts = all
        /\ ask.step = "bundles" /\ ask'.step = "expand" /\ ask.todo = {}
    BY <1>a, <1>6 DEF Conflicts, Goes, To, AskRecord
  <2>2. ASSUME Ranked PROVE Bundled(es, S)'
    <3>1. ask.cand # {} => es \subseteq ask.edges
      BY <2>1, <2>2 DEF Bundled, Before, Untouched
    <3>2. ConflictsIn(es, S)'
      BY <2>1, <3>1 DEF ConflictsIn
    <3> QED BY <2>1, <2>2, <3>2, BundledStays DEF Before, Untouched
  <2> QED BY <1>b, <2>1, <2>2 DEF Ranked
<1>7. CASE Expanded
  <2>1. /\ ask'.edges = ask.edges /\ ask'.cand = ask.cand /\ ask'.todo = ask.todo
        /\ ask'.current = ask.current /\ ask'.conflicts = ask.conflicts
        /\ ask.step = "expand" /\ ask'.step = "content"
    BY <1>a, <1>7 DEF Expanded, Goes, To, AskRecord
  <2> QED BY <1>b, <2>1, BundledStays DEF Ranked, Before, Untouched
<1>8. CASE Content
  <2> DEFINE pool == {m \in Reached \cup ask.cand \cup Currents : Exists(m)} \ Obsolete
  <2>0. PICK page \in Pages(pool, Protected) :
           ask' = [To("readiness") EXCEPT
                    !.results = page, !.shown = Showing(page), !.more = page # pool,
                    !.notice = \E k \in ask.conflicts : ~(k \subseteq page)]
    BY <1>8 DEF Content, Goes
  <2> DEFINE more == page # pool
             notice == \E k \in ask.conflicts : ~(k \subseteq page)
  <2>1. /\ ask'.edges = ask.edges /\ ask'.cand = ask.cand /\ ask'.todo = ask.todo
        /\ ask'.current = ask.current /\ ask'.conflicts = ask.conflicts
        /\ ask.step = "content" /\ ask'.step = "readiness" /\ ask'.results = page
        /\ ask'.notice = notice
    <3>1. ask' = [To("readiness") EXCEPT
                    !.results = page, !.shown = Showing(page), !.more = more, !.notice = notice]
      BY <2>0
    <3> HIDE DEF pool, more, notice
    <3> QED BY <1>a, <1>8, <3>1 DEF Content, To, AskRecord
  <2>2. Obsolete' = Obsolete /\ Currents' = Currents /\ Protected' = Protected
    BY <2>1 DEF Obsolete, Currents, Protected
  <2>3. Currents \subseteq pool \cup Obsolete
    BY <1>a, SetsTyped DEF StoreInv
  <2>4. page \subseteq pool /\ (page \subseteq Protected \/ pool \cap Protected \subseteq page)
    BY <2>0 DEF Pages
  <2>5. PageInv'
    <3>1. page \cap Obsolete = {}
      BY <2>4
    <3>2. page \subseteq Protected \/ Currents \subseteq page \cup Obsolete
      BY <2>3, <2>4 DEF Protected
    <3>3. \A k \in ask.conflicts : k \subseteq page \/ ask'.notice
      BY <2>1
    <3> QED BY <2>1, <2>2, <3>1, <3>2, <3>3 DEF PageInv
  <2> QED BY <1>b, <2>1, <2>5, BundledStays DEF Ranked, Before, Untouched
<1>9. CASE Readiness
  <2>1. /\ ask'.edges = ask.edges /\ ask'.cand = ask.cand /\ ask'.todo = ask.todo
        /\ ask'.current = ask.current /\ ask'.conflicts = ask.conflicts
        /\ ask'.results = ask.results /\ ask'.notice = ask.notice /\ ask'.mode = ask.mode
        /\ ask.step = "readiness" /\ ask'.step \in {"scan", "done", "refetch"}
    BY <1>a, <1>9 DEF Readiness, Goes, To, AskRecord
  <2>2. PageInv' <=> PageInv
    BY <2>1 DEF PageInv, Obsolete, Currents, Protected
  <2>3. ASSUME Ranked PROVE Bundled(es, S)'
    <3>1. /\ ask'.mode = "engine" /\ ask'.tool = "search" /\ ask'.results # {}
          => PageInv'
      BY <1>b, <2>1, <2>2, <2>3 DEF Bundled
    <3> QED BY <2>1, <2>3, <3>1, BundledStays DEF Before, Untouched
  <2> QED BY <1>b, <2>1, <2>3 DEF Ranked
<1>10. CASE Scan
  <2> DEFINE all == IF ask.tool = "search" THEN Matching ELSE Eligible
  <2>1. PICK page \in Pages(all, Matching) :
           /\ ask'.edges = ask.edges /\ ask'.cand = ask.cand /\ ask'.todo = ask.todo
           /\ ask'.current = ask.current /\ ask'.conflicts = ask.conflicts
           /\ ask'.results = page /\ ask'.mode = IF all = {} THEN ask.mode ELSE "scan"
           /\ ask.step = "scan" /\ ask'.step \in {"done", "refetch"}
    BY <1>a, <1>10 DEF Scan, Goes, To, AskRecord
  <2>2. page \subseteq all
    BY PagesTyped
  <2> HIDE DEF all
  <2>3. ask'.mode = "engine" => ask'.results = {}
    BY <2>1, <2>2
  <2> QED BY <1>b, <2>1, <2>3, BundledStays DEF Ranked, Before, Untouched
<1>11. CASE Tfidf
  <2>1. ask'.edges = ask.edges /\ ~Ranked
    BY <1>a, <1>11 DEF Tfidf, Goes, To, AskRecord, StepInv, Ranked
  <2> QED BY <1>b, <2>1 DEF Ranked
<1>12. CASE Browse
  <2>1. ask'.edges = ask.edges /\ ~Ranked
    BY <1>a, <1>12 DEF Browse, Goes, To, AskRecord, StepInv, Ranked
  <2> QED BY <1>b, <2>1 DEF Ranked
<1>13. CASE StartBatch
  <2>1. ask'.edges = ask.edges /\ ~Ranked
    BY <1>a, <1>13 DEF StartBatch, Goes, To, AskRecord, StepInv, Ranked
  <2> QED BY <1>b, <2>1 DEF Ranked
<1>14. CASE ReadNext
  <2>1. ask'.edges = ask.edges /\ ask.step = "batch"
    BY <1>a, <1>14 DEF ReadNext, Goes, To, AskRecord
  <2> QED BY <1>a, <1>b, <2>1 DEF Ranked, StepInv
<1>15. CASE Refetch
  <2>1. /\ ask'.edges = ask.edges /\ ask'.todo = ask.todo /\ ask'.current = ask.current
        /\ ask'.conflicts = ask.conflicts /\ ask.step = "refetch"
        /\ Ranked => ask'.cand = ask.cand /\ ask'.step = "done"
    BY <1>a, <1>15 DEF Refetch, Goes, To, AskRecord, Ranked
  <2>2. ask.tool # "search"
    BY <1>a, <2>1 DEF StepInv
  <2> QED BY <1>b, <2>1, <2>2, BundledStays DEF Ranked, Before, Untouched
<1>16. CASE Related
  <2>1. ask'.edges = ask.edges /\ ~Ranked
    BY <1>a, <1>16 DEF Related, Goes, To, AskRecord, StepInv, Ranked
  <2> QED BY <1>b, <2>1 DEF Ranked
<1>17. ASSUME NEW m \in Ids, Walk(m) PROVE Goal
  <2>1. /\ ask.step = "bundles" /\ ask'.step = "bundles" /\ ask.head = Nobody /\ m \in ask.todo
        /\ ask'.cand = ask.cand /\ ask'.edges = ask.edges /\ ask'.walked = ask.walked
        /\ \/ /\ m \in Eligible /\ ask'.head = m /\ ask'.current = [ask.current EXCEPT ![m] = m]
              /\ ask'.todo = ask.todo
           \/ /\ m \notin Eligible /\ ask'.head = Nobody /\ ask'.current = ask.current
              /\ ask'.todo = ask.todo \ {m}
    BY <1>a, <1>17, WalkIs
  <2> SUFFICES ASSUME Ranked PROVE Bundled(es, S)'
    BY <1>b, <2>1 DEF Ranked
  <2>2. Bundled(es, S) /\ WalkInv /\ ask.todo \subseteq ask.cand
    BY <2>1 DEF Bundled
  <2>3. ask.cand \subseteq Ids /\ ask.current \in [Ids -> Ids \cup {Nobody}] /\ m # Nobody
    BY <1>a, RecallAssumption DEF AskRecord
  <2>4. WalkInv'
    BY <2>1, <2>2, <2>3 DEF WalkInv
  <2>5. EndsIn(es, S) => EndsIn(es, S)'
    BY <2>1, <2>2, <2>3 DEF EndsIn
  <2> QED BY <2>1, <2>2, <2>4, <2>5 DEF Bundled, Before, Untouched
<1>18. ASSUME NEW m \in Ids, Expand(m) PROVE Goal
  <2>1. /\ ask'.edges = ask.edges /\ ask'.cand = ask.cand /\ ask'.todo = ask.todo
        /\ ask'.current = ask.current /\ ask'.conflicts = ask.conflicts
        /\ ask.step = "expand" /\ ask'.step = "expand"
    BY <1>a, <1>18 DEF Expand, Goes, To, AskRecord
  <2> QED BY <1>b, <2>1, BundledStays DEF Ranked, Before, Untouched
<1>19. ASSUME NEW m \in Ids, ReadId(m) PROVE Goal
  <2>1. ask'.edges = ask.edges /\ ~Ranked
    BY <1>a, <1>19 DEF ReadId, Goes, To, AskRecord, StepInv, Ranked
  <2> QED BY <1>b, <2>1 DEF Ranked
<1> QED BY <1>1, <1>2, <1>3, <1>4, <1>5, <1>6, <1>7, <1>8, <1>9, <1>10, <1>11, <1>12, <1>13,
           <1>14, <1>15, <1>16, <1>17, <1>18, <1>19 DEF Reader

LEMMA BundleStart == RecallInit => BundleInv
BY BundledStart DEF RecallInit, BundleInv, Asked

LEMMA BundleStep ==
    ASSUME TypeInv, BundleInv, RecallNext
    PROVE  BundleInv'
<1>a. /\ StoreInv' /\ StepInv /\ Remember /\ ask'.tool = ask.tool
      /\ (Reader \/ (Others /\ ask' = ask))
  BY StepOfTypes DEF TypeInv
<1>e. PICK es, S : es = witnessed'.edges /\ S = Steady'
  OBVIOUS
<1>b. /\ es \subseteq edges' /\ S \subseteq Eligible'
      /\ ask.step # "new" => es \subseteq witnessed.edges /\ S \subseteq Steady
  BY <1>a, <1>e, Remembered DEF Steady
<1>c. Ranked => Bundled(es, S)
  <2>1. CASE ask.step = "new"
    BY <1>a, <2>1, BundledStart DEF StepInv
  <2>2. CASE ask.step # "new"
    BY <1>b, <2>2, BundledShrinks DEF BundleInv
  <2> QED BY <2>1, <2>2
<1>1. CASE Reader
  <2>1. memories' = memories /\ edges' = edges
    BY <1>1, ReaderFrame DEF TypeInv, Canon
  <2>2. es \subseteq edges /\ S \subseteq Eligible
    BY <1>a, <1>b, <2>1 DEF Eligible, IsLive, Admitted
  <2>3. Ranked' => Bundled(es, S)'
    BY <1>1, <1>c, <2>2, ReaderBundles DEF BundleInv
  <2> QED BY <1>e, <2>3 DEF BundleInv
<1>2. CASE ask' = ask
  <2>1. Ranked => Bundled(es, S)'
    BY <1>2, <1>c DEF Bundled, WalkInv, EndsIn, ConflictsIn, PageInv, Obsolete, Currents, Protected
  <2> QED BY <1>2, <1>e, <2>1 DEF BundleInv, Ranked
<1> QED BY <1>a, <1>1, <1>2

-----------------------------------------------------------------------------
(* Completeness.                                                           *)

LEMMA ConvergedStart == RecallInit => ConvergedInv
BY DEF RecallInit, ConvergedInv, RowOf, Filled

LEMMA ConvergedStep ==
    ASSUME TypeInv, ConvergedInv, RecallNext
    PROVE  ConvergedInv'
<1>a. StoreInv
  BY DEF TypeInv
<1>b. ASSUME NEW m \in Ids, NEW new, Change(m, new) PROVE ConvergedInv'
  <2>1. \A i \in Ids \ {m} : memories'[i] = memories[i]
    BY <1>a, <1>b DEF Change, StoreInv
  <2> QED BY <1>b, <2>1 DEF Change, ConvergedInv, IsLive, RowOf
<1>1. CASE Reader
  BY <1>1, ReaderFrame DEF TypeInv, Canon, ConvergedInv, IsLive, RowOf
<1>2. ASSUME NEW m \in Ids, Hide(m) \/ Delete(m) \/ Reword(m) \/ Relevel(m) PROVE ConvergedInv'
  BY <1>b, <1>2 DEF Hide, Delete, Reword, Relevel
<1>3. ASSUME NEW m \in Ids, ProjectRow(m) PROVE ConvergedInv'
  <2>1. /\ memories' = memories /\ active' = active /\ backlog' = backlog \ {m}
        /\ searchRows' = {r \in searchRows : r.id # m \/ r.gen # active}
                         \cup (IF IsLive(m) THEN {RowOf(m, active)} ELSE {})
    BY <1>3 DEF ProjectRow
  <2>2. \A i \in Ids \ {m} : RowOf(i, active) \in searchRows => RowOf(i, active) \in searchRows'
    BY <2>1 DEF RowOf
  <2>3. IsLive(m) => RowOf(m, active) \in searchRows'
    BY <2>1
  <2> QED BY <2>1, <2>2, <2>3 DEF ConvergedInv, IsLive, RowOf
<1>4. ASSUME NEW s \in Stores, RestoreAs(s) PROVE ConvergedInv'
  BY <1>4 DEF RestoreAs, ConvergedInv
<1>5. ASSUME NEW e, Relate(e) PROVE ConvergedInv'
  BY <1>5 DEF Relate, ConvergedInv, IsLive, RowOf
<1> QED BY <1>1, <1>2, <1>3, <1>4, <1>5 DEF RecallNext, Others

\* What leaves the worker with nothing to do, and finishes nothing, changes nothing.
LEMMA NothingToDo ==
    ASSUME TypeInv, Others, backlog \subseteq backlog', backlog' = {}
    PROVE  backlog = {} /\ (Ids = {} \/ (memories' = memories /\ active' = active))
<1>1. ASSUME NEW m \in Ids, Hide(m) \/ Delete(m) \/ Reword(m) \/ Relevel(m) PROVE FALSE
  BY <1>1 DEF Hide, Delete, Reword, Relevel, Change
<1>2. ASSUME NEW m \in Ids, ProjectRow(m) PROVE FALSE
  BY <1>2 DEF ProjectRow
<1> QED BY <1>1, <1>2 DEF Others, RestoreAs, Relate

LEMMA EmptyPage ==
    ASSUME NEW S \in SUBSET Ids, NEW first, {} \in Pages(S, first)
    PROVE  S = {}
<1>1. IsFiniteSet(S) /\ Cardinality(S) \in Nat
  BY RecallAssumption, FS_Subset, FS_CardinalityType
<1>2. AtMost(Limit, S) = 0
  BY FS_EmptySet DEF Pages
<1>3. Cardinality(S) = 0
  BY <1>1, <1>2, RecallAssumption DEF AtMost
<1> QED BY <1>1, <1>3, FS_EmptySet

LEMMA CompletedShrinks ==
    ASSUME NEW st, NEW cl \in BOOLEAN, NEW su, NEW cm \in BOOLEAN,
           su \subseteq st, ~cm => ~cl, Completed(st, cl)
    PROVE  Completed(su, cm)
BY DEF Completed

\* A step from one decision to the next that leaves the candidates alone.
LEMMA CoveredStays ==
    ASSUME NEW st, NEW cl \in BOOLEAN, Completed(st, cl), UNCHANGED Canon, ask'.tool = ask.tool,
           ask'.cand = ask.cand, ask'.failed = ask.failed,
           ask.step \in {"relations", "bundles", "expand", "content"},
           ask'.step \in {"bundles", "expand", "content", "readiness"},
           ask'.step = "readiness" =>
                /\ ~ask'.more => ask'.cand \subseteq ask'.results \cup Obsolete'
                /\ ask'.results = {} => ~ask'.more
    PROVE  Completed(st, cl)'
<1>1. Covers(ask.cand) => Covers(ask.cand)'
  BY DEF Covers, Eligible, IsLive, Admitted, Canon
<1> QED BY <1>1 DEF Completed, Canon

LEMMA ReaderCompletes ==
    ASSUME TypeInv, BundleInv, ConvergedInv, Reader, NEW st, NEW cl \in BOOLEAN,
           \A p \in st : p[1] \in Eligible /\ p[2] = memories[p[1]].text,
           Ranked /\ ask.step # "new" => Completed(st, cl)
    PROVE  Ranked' => Completed(st, cl)'
<1>a. ask \in AskRecord /\ StepInv /\ StoreInv
  BY DEF TypeInv
<1>b. ask'.tool = ask.tool /\ UNCHANGED Canon
  BY <1>a, ReaderFrame
<1>c. Ranked' = Ranked /\ Eligible' = Eligible /\ backlog' = backlog /\ active' = active
      /\ memories' = memories
  BY <1>b DEF Ranked, Eligible, IsLive, Admitted, Canon
<1> DEFINE Goal == Ranked' => Completed(st, cl)'
<1>1. CASE Refresh
  <2>1. /\ ask.step = "new"
        /\ (ask'.step = "legs" /\ ask'.table = searchRows) \/ (ask'.step = "scan" /\ ask'.mode = "scan")
    BY <1>a, <1>1, RefreshKeeps DEF StoreInv, SameWork
  <2>2. backlog = {} => \A m \in Eligible : RowOf(m, active) \in searchRows
    BY DEF ConvergedInv, Eligible
  <2>3. \A m \in Ids : RowOf(m, active)' = RowOf(m, active)
    BY <1>c DEF RowOf
  <2> QED BY <1>c, <2>1, <2>2, <2>3 DEF Completed, Eligible
<1>2. CASE Legs
  <2>1. /\ ask.step = "legs"
        /\ \/ /\ ask'.step = "hydrate"
              /\ \/ ask'.found = Leg({"match", "near"})
                 \/ ask'.found = Leg({"match"}) /\ ask'.failed
           \/ ask'.step = "scan" /\ ask'.mode = "scan"
    BY <1>a, <1>2, LegsKeeps DEF StoreInv, SameWork
  <2>2. ASSUME NEW m \in Eligible, RowOf(m, active) \in ask.table, NEW T, memories[m].text \in T
        PROVE  m \in Leg(T)
    BY <2>2 DEF Leg, InFilter, RowOf, Eligible
  <2>3. ASSUME Ranked, ~cl, backlog = {}, ask'.step = "hydrate" PROVE Covers(ask.found)'
    <3>1. \A m \in Eligible : RowOf(m, active) \in ask.table
      BY <2>1, <2>3 DEF Completed
    <3>2. \A m \in Eligible :
             /\ memories[m].text = "match" => m \in Leg({"match"}) /\ m \in Leg({"match", "near"})
             /\ memories[m].text = "near" => m \in Leg({"match", "near"})
      BY <2>2, <3>1
    <3> QED BY <1>c, <2>1, <2>3, <3>2 DEF Covers
  <2> QED BY <1>c, <2>1, <2>3 DEF Completed
<1>3. CASE Hydrate
  <2>1. /\ ask'.cand = Candidates /\ ask'.failed = ask.failed /\ ask'.more = ask.more
        /\ ask'.results = ask.results /\ ask.step = "hydrate"
        /\ ask'.step = IF Candidates = {} THEN "readiness" ELSE "relations"
    BY <1>a, <1>3 DEF Hydrate, Goes, To, AskRecord
  <2>2. ASSUME Ranked, ~cl, backlog = {} PROVE Covers(ask.cand)'
    <3>1. Covers(ask.found)
      BY <2>1, <2>2 DEF Completed
    <3>2. Covers(Candidates)
      BY <3>1 DEF Covers, Candidates
    <3> QED BY <1>c, <2>1, <3>2 DEF Covers
  <2>3. Ranked => ~ask.more
    BY <2>1 DEF BundleInv, Bundled, Before, Untouched
  <2>4. Candidates = {} => ask'.cand = {}
    BY <2>1
  <2> HIDE DEF Goal
  <2>5. ASSUME Ranked PROVE Completed(st, cl)'
    <3>1. ask'.step \in {"readiness", "relations"} /\ (ask'.step = "readiness" => ask'.cand = {})
      BY <2>1
    <3> QED BY <1>c, <2>1, <2>2, <2>3, <2>5, <3>1 DEF Completed
  <2> QED BY <1>c, <2>5 DEF Goal
<1>4. CASE Relations
  <2>1. /\ ask'.cand = ask.cand /\ ask'.failed = ask.failed
        /\ ask.step = "relations" /\ ask'.step \in {"bundles", "expand"}
    BY <1>a, <1>4 DEF Relations, Goes, To, AskRecord
  <2> QED BY <1>b, <1>c, <2>1, CoveredStays
<1>5. CASE Hop
  <2>1. /\ ask'.cand = ask.cand /\ ask'.failed = ask.failed
        /\ ask.step = "bundles" /\ ask'.step = "bundles"
    BY <1>a, <1>5, HopIs
  <2> QED BY <1>b, <1>c, <2>1, CoveredStays
<1>6. CASE Conflicts
  <2>1. /\ ask'.cand = ask.cand /\ ask'.failed = ask.failed
        /\ ask.step = "bundles" /\ ask'.step = "expand"
    BY <1>a, <1>6 DEF Conflicts, Goes, To, AskRecord
  <2> QED BY <1>b, <1>c, <2>1, CoveredStays
<1>7. CASE Expanded
  <2>1. /\ ask'.cand = ask.cand /\ ask'.failed = ask.failed
        /\ ask.step = "expand" /\ ask'.step = "content"
    BY <1>a, <1>7 DEF Expanded, Goes, To, AskRecord
  <2> QED BY <1>b, <1>c, <2>1, CoveredStays
<1>8. CASE Content
  <2> DEFINE pool == {m \in Reached \cup ask.cand \cup Currents : Exists(m)} \ Obsolete
  <2>0. PICK page \in Pages(pool, Protected) :
           ask' = [To("readiness") EXCEPT
                    !.results = page, !.shown = Showing(page), !.more = page # pool,
                    !.notice = \E k \in ask.conflicts : ~(k \subseteq page)]
    BY <1>8 DEF Content, Goes
  <2> DEFINE more == page # pool
             notice == \E k \in ask.conflicts : ~(k \subseteq page)
  <2>1. /\ ask'.cand = ask.cand /\ ask'.current = ask.current /\ ask'.failed = ask.failed
        /\ ask.step = "content" /\ ask'.step = "readiness" /\ ask'.results = page
        /\ ask'.more = more
    <3>1. ask' = [To("readiness") EXCEPT
                    !.results = page, !.shown = Showing(page), !.more = more, !.notice = notice]
      BY <2>0
    <3> HIDE DEF pool, more, notice
    <3> QED BY <1>a, <1>8, <3>1 DEF Content, To, AskRecord
  <2>2. pool \subseteq Ids /\ ask.cand \subseteq pool \cup Obsolete
    BY <1>a, SetsTyped DEF StoreInv, AskRecord
  <2>3. Obsolete' = Obsolete
    BY <2>1 DEF Obsolete
  <2>4. page = {} => pool = {}
    BY <2>0, <2>2, EmptyPage
  <2> QED BY <1>b, <1>c, <2>1, <2>2, <2>3, <2>4, CoveredStays
<1>9. CASE Readiness
  <2>1. /\ ask'.cand = ask.cand /\ ask'.current = ask.current /\ ask'.results = ask.results
        /\ ask'.more = ask.more /\ ask.step = "readiness"
        /\ ask'.step = IF ask.results = {} THEN "scan"
                       ELSE IF ask.tool = "search" THEN "done" ELSE "refetch"
        /\ ~ask'.partial => backlog = {} /\ ~ask.failed
    BY <1>a, <1>9 DEF Readiness, Lagging, Goes, To, AskRecord
  <2>2. Obsolete' = Obsolete
    BY <2>1 DEF Obsolete
  <2>3. ASSUME Ranked, ~cl, ~ask'.partial, ~ask.more, NEW p \in st, p[2] \in {"match", "near"}
        PROVE  p[1] \in ask.results \cup Obsolete
    <3>1. Covers(ask.cand) /\ ask.cand \subseteq ask.results \cup Obsolete
      BY <2>1, <2>3 DEF Completed
    <3> QED BY <2>1, <2>3, <3>1 DEF Covers
  <2>4. Ranked => (ask.results = {} => ~ask.more)
    BY <2>1 DEF Completed
  <2> QED BY <1>c, <2>1, <2>2, <2>3, <2>4 DEF Completed, Found
<1>10. CASE Scan
  <2>1. ask.tool # "search" => Goal
    <3>1. ask.tool # "search" => ask'.step = "refetch"
      BY <1>a, <1>10 DEF Scan, Goes, To, AskRecord
    <3> QED BY <1>b, <3>1 DEF Completed
  <2> SUFFICES ASSUME ask.tool = "search" PROVE Goal
    BY <2>1
  <2>2. PICK page \in Pages(Matching, Matching) :
           ask' = [To("done") EXCEPT !.results = page, !.shown = Showing(page),
                                     !.more = page # Matching,
                                     !.mode = IF Matching = {} THEN @ ELSE "scan",
                                     !.partial = IF Matching = {} THEN @ ELSE FALSE]
    BY <1>10 DEF Scan, Goes
  <2> DEFINE more == page # Matching
  <2>3. /\ ask'.results = page /\ ask'.more = more /\ ask'.step = "done" /\ ask.step = "scan"
        /\ ask'.mode = IF Matching = {} THEN ask.mode ELSE "scan"
        /\ ask'.partial = IF Matching = {} THEN ask.partial ELSE FALSE
        /\ ask'.cand = ask.cand /\ ask'.current = ask.current
    <3>1. ask' = [To("done") EXCEPT !.results = page, !.shown = Showing(page), !.more = more,
                                     !.mode = IF Matching = {} THEN @ ELSE "scan",
                                     !.partial = IF Matching = {} THEN @ ELSE FALSE]
      BY <2>2
    <3> HIDE DEF more
    <3> QED BY <1>a, <1>10, <3>1 DEF Scan, To, AskRecord
  <2>4. Obsolete' = Obsolete
    BY <2>3 DEF Obsolete
  <2>5. \A p \in st : p[2] = "match" => p[1] \in Matching
    BY DEF Matching
  <2>6. CASE Matching = {}
    BY <1>c, <2>3, <2>4, <2>5, <2>6 DEF Completed, Found, Ranked
  <2>7. CASE Matching # {}
    BY <1>c, <2>3, <2>4, <2>5, <2>7 DEF Completed, Found
  <2> QED BY <2>6, <2>7
<1>11. CASE Tfidf
  BY <1>a, <1>c, <1>11 DEF Tfidf, StepInv, Ranked
<1>12. CASE Browse
  BY <1>a, <1>c, <1>12 DEF Browse, StepInv, Ranked
<1>13. CASE StartBatch
  BY <1>a, <1>c, <1>13 DEF StartBatch, StepInv, Ranked
<1>14. CASE ReadNext
  BY <1>a, <1>c, <1>14 DEF ReadNext, StepInv, Ranked
<1>15. CASE Refetch
  <2>1. ask.step = "refetch" /\ (Ranked => ask'.step = "done")
    BY <1>a, <1>15 DEF Refetch, Goes, To, AskRecord, Ranked
  <2>2. ask.tool # "search"
    BY <1>a, <2>1 DEF StepInv
  <2> QED BY <1>b, <1>c, <2>1, <2>2 DEF Completed
<1>16. CASE Related
  BY <1>a, <1>c, <1>16 DEF Related, StepInv, Ranked
<1>17. ASSUME NEW m \in Ids, Walk(m) PROVE Goal
  <2>1. /\ ask'.cand = ask.cand /\ ask'.failed = ask.failed
        /\ ask.step = "bundles" /\ ask'.step = "bundles"
    BY <1>a, <1>17, WalkIs
  <2> QED BY <1>b, <1>c, <2>1, CoveredStays
<1>18. ASSUME NEW m \in Ids, Expand(m) PROVE Goal
  <2>1. /\ ask'.cand = ask.cand /\ ask'.failed = ask.failed
        /\ ask.step = "expand" /\ ask'.step = "expand"
    BY <1>a, <1>18 DEF Expand, Goes, To, AskRecord
  <2> QED BY <1>b, <1>c, <2>1, CoveredStays
<1>19. ASSUME NEW m \in Ids, ReadId(m) PROVE Goal
  BY <1>a, <1>c, <1>19 DEF ReadId, StepInv, Ranked
<1> QED BY <1>1, <1>2, <1>3, <1>4, <1>5, <1>6, <1>7, <1>8, <1>9, <1>10, <1>11, <1>12, <1>13,
           <1>14, <1>15, <1>16, <1>17, <1>18, <1>19 DEF Reader

LEMMA CompleteStart == RecallInit => CompleteInv
BY DEF RecallInit, CompleteInv, Completed, Asked

LEMMA CompleteStep ==
    ASSUME TypeInv, BundleInv, ConvergedInv, CompleteInv, RecallNext
    PROVE  CompleteInv'
<1>a. /\ StoreInv' /\ StepInv /\ Remember /\ ask'.tool = ask.tool
      /\ (Reader \/ (Others /\ ask' = ask))
  BY StepOfTypes DEF TypeInv
<1>e. PICK st, cl : st = witnessed'.steady /\ cl = witnessed'.cleared
  OBVIOUS
<1>b. /\ cl \in BOOLEAN
      /\ \A p \in st : p[1] \in Eligible' /\ p[2] = memories'[p[1]].text
      /\ ask.step # "new" =>
            st \subseteq witnessed.steady /\ (~cl => ~witnessed.cleared /\ backlog \subseteq backlog')
  BY <1>a, <1>e, Remembered DEF WitnessRecord
<1>c. witnessed.cleared \in BOOLEAN
  BY DEF TypeInv, WitnessRecord
<1>d. Ranked /\ ask.step # "new" => Completed(st, cl)
  BY <1>b, <1>c, CompletedShrinks DEF CompleteInv
<1>1. CASE Reader
  <2>1. memories' = memories
    BY <1>1, ReaderFrame DEF TypeInv, Canon
  <2>2. \A p \in st : p[1] \in Eligible /\ p[2] = memories[p[1]].text
    BY <1>a, <1>b, <2>1 DEF Eligible, IsLive, Admitted
  <2>3. Ranked' => Completed(st, cl)'
    BY <1>1, <1>b, <1>d, <2>2, ReaderCompletes
  <2> QED BY <1>e, <2>3 DEF CompleteInv
<1>2. CASE Others /\ ask' = ask
  <2>1. CASE ask.step = "new"
    BY <1>2, <2>1 DEF CompleteInv, Completed
  <2>2. CASE ask.step # "new"
    <3>1. ~cl /\ backlog' = {}
             => backlog = {} /\ (Ids = {} \/ (memories' = memories /\ active' = active))
      BY <1>2, <1>b, <2>2, NothingToDo
    <3>2. Ids = {} => Eligible' = {}
      BY DEF Eligible
    <3>3. memories' = memories => Eligible' = Eligible
      BY <1>2 DEF Eligible, IsLive, Admitted
    <3>4. Obsolete' = Obsolete /\ Ranked' = Ranked
      BY <1>2 DEF Obsolete, Ranked
    <3>5. Ranked => Completed(st, cl)'
      BY <1>2, <1>d, <2>2, <3>1, <3>2, <3>3, <3>4 DEF Completed, Covers, RowOf, Found
    <3> QED BY <1>e, <3>4, <3>5 DEF CompleteInv
  <2> QED BY <2>1, <2>2
<1> QED BY <1>a, <1>1, <1>2

-----------------------------------------------------------------------------
(* The theorems.                                                           *)

LEMMA RecallStarts == RecallInit => RecallInv
BY TypeStart, ServeStart, BundleStart, ConvergedStart, CompleteStart DEF RecallInv

LEMMA RecallSteps == RecallInv /\ [RecallNext]_recallvars => RecallInv'
<1> SUFFICES ASSUME RecallInv, [RecallNext]_recallvars PROVE RecallInv'
  OBVIOUS
<1>1. CASE RecallNext
  BY <1>1, StepOfTypes, ServeStep, BundleStep, ConvergedStep, CompleteStep DEF RecallInv
<1>2. CASE UNCHANGED recallvars
  <2> USE <1>2 DEF recallvars
  <2>1. Eligible' = Eligible /\ Ranked' = Ranked /\ Reached' = Reached /\ Obsolete' = Obsolete
    BY DEF Eligible, IsLive, Admitted, Ranked, Reached, Obsolete
  <2>2. TypeInv'
    BY <2>1 DEF RecallInv, TypeInv, StoreInv, StepInv, Exists
  <2>3. WitnessInv' /\ ServeInv'
    BY <2>1 DEF RecallInv, WitnessInv, Contents, ServeInv, Served, Sourced
  <2>4. BundleInv'
    BY <2>1 DEF RecallInv, BundleInv, Bundled, WalkInv, EndsIn, ConflictsIn, PageInv, Steady,
                Currents, Protected
  <2>5. ConvergedInv'
    BY DEF RecallInv, ConvergedInv, IsLive, RowOf
  <2>6. CompleteInv'
    BY <2>1 DEF RecallInv, CompleteInv, Completed, Covers, RowOf, Found
  <2> QED BY <2>2, <2>3, <2>4, <2>5, <2>6 DEF RecallInv
<1> QED BY <1>1, <1>2

LEMMA RecallInvariant == RecallSpec => []RecallInv
BY RecallStarts, RecallSteps, PTL DEF RecallSpec

\* The store, the table and every field of the request keep their types, whatever store
\* a restore puts in place.
THEOREM RecallTypeCorrect == RecallSpec => []RecallTypeOK
<1>1. RecallInv => RecallTypeOK
  BY DEF RecallInv, TypeInv, StoreInv, AskRecord, RecallTypeOK
<1> QED BY <1>1, RecallInvariant, PTL

\* What is served was eligible at some moment of the request - what is read by its id,
\* of the project, when there is a stable identity - and says what its record said then:
\* every step past the legs reads the store, or keeps to what was read.
THEOREM ServedWasEligible == RecallSpec => []ServesWhatWasEligible
<1>1. ServeInv /\ StepInv => ServesWhatWasEligible
  BY DEF ServeInv, Served, Sourced, ServesWhatWasEligible, Answered
<1> QED BY <1>1, RecallInvariant, PTL DEF RecallInv, TypeInv

\* A candidate that was superseded all along is not served, and its current takes its
\* place, unless its chain leads back to it: the walk from a candidate stays among what its
\* successors lead to, and comes to an end on the candidate itself only from there.  The
\* contradictions that were there all along are shown from both sides or announced.
THEOREM BundlesAlwaysHold == RecallSpec => []BundlesHold
<1>1. ASSUME RecallInv PROVE BundlesHold
  <2> SUFFICES ASSUME Answered, ask.tool = "search", ask.mode = "engine", ask.results # {}
               PROVE  /\ \A p \in Followed(witnessed.edges) :
                            p[1] \in ask.cand \cap Steady /\ p[2] \in Steady
                            /\ ~LeadsBack(ask.edges, p[1]) =>
                                /\ p[1] \notin ask.results
                                /\ \/ ask.current[p[1]] \in ask.results
                                   \/ ask.results \subseteq Protected
                                   \/ ask.current[p[1]] \in Obsolete
                      /\ \A e \in witnessed.edges :
                            e.type = "contradicts" /\ {e.from, e.to} \subseteq ask.cand \cap Steady
                                => {e.from, e.to} \subseteq ask.results \/ ask.notice
    BY DEF BundlesHold
  <2>1. Bundled(witnessed.edges, Steady) /\ ask.step = "done" /\ ask.mode = "engine"
    BY <1>1 DEF RecallInv, BundleInv, Ranked, Answered
  <2>2. PageInv /\ ask.todo = {} /\ ConflictsIn(witnessed.edges, Steady)
        /\ (ask.cand # {} => EndsIn(witnessed.edges, Steady))
    BY <2>1 DEF Bundled, Before, Untouched
  <2>3. ASSUME NEW p \in Followed(witnessed.edges), p[1] \in ask.cand \cap Steady, p[2] \in Steady,
               ~LeadsBack(ask.edges, p[1])
        PROVE  p[1] \in Obsolete /\ ask.current[p[1]] \in Currents
    <3>1. ask.current[p[1]] # Nobody
      BY <2>2, <2>3 DEF EndsIn
    <3> QED BY <2>3, <3>1 DEF Obsolete, Currents
  <2>4. \A e \in witnessed.edges :
           e.type = "contradicts" /\ {e.from, e.to} \subseteq ask.cand \cap Steady
               => {e.from, e.to} \subseteq ask.results \/ ask.notice
    BY <2>2 DEF ConflictsIn, PageInv
  <2>5. ask.results \subseteq Protected \/ Currents \subseteq ask.results \cup Obsolete
    BY <2>2 DEF PageInv
  <2>6. ask.results \cap Obsolete = {}
    BY <2>2 DEF PageInv
  <2> QED BY <2>3, <2>4, <2>5, <2>6
<1> QED BY <1>1, RecallInvariant, PTL

\* An answer that is not said to be partial has all that could be found all along, unless
\* the worker finished something in between: an empty queue that nothing was taken from
\* was empty throughout, so that the pinned table is the store.
THEOREM CompleteOrOvertaken == RecallSpec => []CompleteUnlessOvertaken
<1>1. RecallInv => CompleteUnlessOvertaken
  BY DEF RecallInv, CompleteInv, Completed, Complete, Found, CompleteUnlessOvertaken, Answered,
     Ranked
<1> QED BY <1>1, RecallInvariant, PTL

=============================================================================
