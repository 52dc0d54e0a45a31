--------------------------- MODULE RestoreCutProofs ---------------------------
(* Theorems about RestoreCut, for any channels, times to live and bounds: no  *)
(* acknowledged write is lost to a restore, a restore replaces what its host  *)
(* was shown, and no context outlives the store it was made in; and about     *)
(* LemmaImport, for any flaws of an image: what is imported is accounted for. *)
EXTENDS RestoreCut, LemmaImport, FiniteSetTheorems, SequenceTheorems, TLAPS

Store == [gen : Nat, writes : SUBSET Writes]
Shows == [tool : {"restore", "import"}, channel : Channels, digest : Nat, gen : Nat,
          at : Nat, seq : Nat]
Jobs == [tool : {"none", "add", "restore", "import"},
         step : {"idle", "resolved", "committed", "verified", "confirmed", "safe", "replaced",
                 "reset"},
         preview : Nat, digest : Nat, now : Nat, handle : Nat, write : Nat, gen : Nat,
         since : Int]
Virtual == [status : {"active", "abandoned", "gone"}, channel : Channels \cup {NoOne},
            born : Nat, made : SUBSET Writes]
Virtuals == [Handles -> Virtual]
Routes == [Channels -> [handle : 0..MaxSessions, until : Nat]]
Cuts == [preview : Nat, gen : Nat, since : Int, written : SUBSET Writes]

\* Every variable has its type.
CutTypes ==
    /\ canon \in Store /\ safeties \subseteq Store
    /\ previews \in Seq(Shows)
    /\ tokens \in [Ids -> {"pending", "used", "gone"}]
    /\ fence \in Channels \cup {NoOne}
    /\ file \in Nat /\ connected \subseteq Channels /\ acked \subseteq Writes
    /\ job \in [Channels -> Jobs]
    /\ virtuals \in Virtuals /\ route \in Routes
    /\ disk \in [virtuals : Virtuals, route : Routes]
    /\ cuts \in Seq(Cuts)
    /\ clock \in 0..MaxClock
    /\ spent \in [faults : Nat, writes : Nat, handles : Nat]

\* A tool is in the steps it takes, and writes and resolves within the bounds.
StepsInv ==
    \A ch \in Channels :
        /\ (job[ch].tool = "none") <=> (job[ch].step = "idle")
        /\ (job[ch].tool = "add") <=> (job[ch].step \in {"resolved", "committed"})
        /\ (job[ch].tool = "add") => (job[ch].write \in Writes /\ job[ch].handle \in Handles)

\* The fence is held from the confirmation to the end of the cut, by one channel.
FenceInv ==
    \A ch \in Channels :
        (fence = ch) <=> (job[ch].step \in {"confirmed", "safe", "replaced"})

\* A restore under way is of a preview that was shown.
PointsInv ==
    \A ch \in Channels :
        (job[ch].step \in {"verified", "confirmed", "safe", "replaced"})
            => (job[ch].preview \in DOMAIN previews)

-----------------------------------------------------------------------------
(* Types.                                                                  *)

LEMMA Bounds ==
    ASSUME CutConstants
    PROVE  /\ Ttl \in Nat /\ IdleTime \in Nat /\ MaxClock \in Nat /\ MaxWrites \in Nat
           /\ MaxPreviews \in Nat /\ MaxSessions \in Nat
           /\ Handles = 1..MaxSessions /\ Writes = 1..MaxWrites /\ Ids = 1..MaxPreviews
BY DEF CutConstants, Handles, Writes, Ids

\* A sweep changes nothing but the status of some sessions that are there, and routes.
LEMMA SweptKeeps ==
    ASSUME CutConstants, CutTypes
    PROVE  /\ Swept.virtuals \in Virtuals /\ Swept.route \in Routes
           /\ \A h \in Handles :
                 /\ Swept.virtuals[h].made = virtuals[h].made
                 /\ Swept.virtuals[h].status = "active" => virtuals[h].status = "active"
                 /\ Swept.virtuals[h].status = "gone" <=> virtuals[h].status = "gone"
<1> DEFINE late == {ch \in Channels : Bound(ch) /\ Expired(route[ch].handle, route[ch])}
           v == [h \in Handles |-> IF \E ch \in late : route[ch].handle = h
                                   THEN [virtuals[h] EXCEPT !.status = "abandoned"]
                                   ELSE virtuals[h]]
           r == [ch \in Channels |-> IF ch \in late THEN NoRoute ELSE route[ch]]
<1>1. Swept = [virtuals |-> v, route |-> r]
  BY DEF Swept
<1>2. r \in Routes
  BY DEF CutTypes, Routes, NoRoute, CutConstants
<1>3. \A ch \in late : virtuals[route[ch].handle].status = "active"
  BY DEF Bound
<1> HIDE DEF late
<1>4. ASSUME NEW h \in Handles
      PROVE  /\ v[h] \in Virtual /\ v[h].made = virtuals[h].made
             /\ v[h].status \in {virtuals[h].status, "abandoned"}
             /\ v[h].status # virtuals[h].status => virtuals[h].status = "active"
  <2>1. virtuals[h] \in Virtual
    BY DEF CutTypes, Virtuals
  <2>2. CASE \E ch \in late : route[ch].handle = h
    <3>1. v[h] = [virtuals[h] EXCEPT !.status = "abandoned"] /\ virtuals[h].status = "active"
      BY <1>3, <2>2
    <3> QED BY <2>1, <3>1 DEF Virtual
  <2>3. CASE ~\E ch \in late : route[ch].handle = h
    BY <2>1, <2>3
  <2> QED BY <2>2, <2>3
<1>5. v \in Virtuals
  BY <1>4 DEF Virtuals
<1> HIDE DEF v, r
<1> QED BY <1>1, <1>2, <1>4, <1>5

\* A channel's virtual session is the one it had, or a new one with a number not used yet.
LEMMA EnsuredKeeps ==
    ASSUME CutConstants, CutTypes, NEW ch \in Channels, Ensured(ch).handle \in Handles
    PROVE  /\ Ensured(ch).virtuals \in Virtuals /\ Ensured(ch).route \in Routes
           /\ \A h \in Handles :
                 /\ Ensured(ch).virtuals[h].status = "active" =>
                       \/ /\ virtuals[h].status = "active"
                          /\ Ensured(ch).virtuals[h].made = virtuals[h].made
                       \/ h = spent.handles + 1 /\ Ensured(ch).virtuals[h].made = {}
                 /\ Ensured(ch).virtuals[h].status # "gone" =>
                       virtuals[h].status # "gone" \/ h = Ensured(ch).handle
<1> DEFINE s == Swept
           old == s.route[ch].handle
           h == IF old # 0 /\ s.virtuals[old].status = "active" THEN old ELSE spent.handles + 1
           new == [status |-> "active", channel |-> ch, born |-> clock, made |-> {}]
           v == IF h = old THEN s.virtuals ELSE [s.virtuals EXCEPT ![h] = new]
           r == [s.route EXCEPT ![ch] = [handle |-> h, until |-> clock + IdleTime]]
<1>1. Ensured(ch) = [handle |-> h, virtuals |-> v, route |-> r]
  BY DEF Ensured
<1>2. h \in Handles
  BY <1>1
<1>3. new \in Virtual /\ new.made = {} /\ new.status = "active"
  <2>1. clock \in Nat
    BY Bounds DEF CutTypes
  <2> QED BY <2>1 DEF Virtual
<1>4. s.virtuals \in Virtuals /\ s.route \in Routes
  BY SweptKeeps
<1>5. h = old \/ h = spent.handles + 1
  OBVIOUS
<1> HIDE DEF s, h, new, old
<1>6. /\ h \in 0..MaxSessions /\ clock + IdleTime \in Nat
  <2>1. clock \in Nat /\ IdleTime \in Nat
    BY Bounds DEF CutTypes
  <2> QED BY <1>2, <2>1, Bounds
<1>7. r \in Routes
  BY <1>4, <1>6 DEF Routes
<1>8. v \in Virtuals /\ \A g \in Handles : v[g] = s.virtuals[g]
                          \/ (g = h /\ h = spent.handles + 1 /\ v[g] = new)
  BY <1>2, <1>3, <1>4, <1>5 DEF Virtuals
<1> HIDE DEF v, r
<1>9. ASSUME NEW g \in Handles
      PROVE  /\ v[g].status = "active" =>
                   \/ virtuals[g].status = "active" /\ v[g].made = virtuals[g].made
                   \/ g = spent.handles + 1 /\ v[g].made = {}
             /\ v[g].status # "gone" => virtuals[g].status # "gone" \/ g = h
  <2>1. CASE v[g] = s.virtuals[g]
    BY <2>1, SweptKeeps DEF s
  <2>2. CASE g = h /\ h = spent.handles + 1 /\ v[g] = new
    BY <1>3, <2>2
  <2> QED BY <1>8, <2>1, <2>2
<1> QED BY <1>1, <1>7, <1>8, <1>9

LEMMA OpSeqIsNat ==
    ASSUME CutConstants, CutTypes
    PROVE  OpSeq \in Nat
<1>1. IsFiniteSet(Writes)
  BY FS_Interval DEF Writes, CutConstants
<1>2. IsFiniteSet(canon.writes)
  BY <1>1, FS_Subset DEF CutTypes, Store
<1> QED BY <1>2, FS_CardinalityType DEF OpSeq

\* A preview that was shown is one of the list.
LEMMA ShownIs ==
    ASSUME CutTypes, NEW n \in DOMAIN previews
    PROVE  previews[n] \in Shows /\ n \in 1..Len(previews)
BY DEF CutTypes

\* What a channel runs is a job, and nobody else's job changes with it.
LEMMA Becomes ==
    ASSUME CutTypes, NEW ch \in Channels, NEW j \in Jobs, Become(ch, j)
    PROVE  /\ job' \in [Channels -> Jobs] /\ job'[ch] = j
           /\ \A c \in Channels : c # ch => job'[c] = job[c]
BY DEF CutTypes, Become

LEMMA JobsAre ==
    /\ Idle \in Jobs
    /\ \A tool \in {"none", "restore", "import"},
          step \in {"idle", "verified", "confirmed", "safe", "replaced", "reset"},
          n \in Nat, digest \in Nat, now \in Nat, since \in Int :
             Restoring(tool, step, n, digest, now, since) \in Jobs
    /\ \A step \in {"resolved", "committed"}, h \in Nat, write \in Nat, gen \in Nat :
             Adding(step, h, write, gen) \in Jobs
BY DEF Jobs, Idle, Restoring, Adding

\* A job that only goes on to its next step.
LEMMA StepOn ==
    ASSUME NEW j \in Jobs,
           NEW step \in {"resolved", "committed", "verified", "confirmed", "safe", "replaced", "reset"}
    PROVE  /\ [j EXCEPT !.step = step] \in Jobs
           /\ [j EXCEPT !.step = step].step = step
           /\ [j EXCEPT !.step = step].tool = j.tool
           /\ [j EXCEPT !.step = step].write = j.write
           /\ [j EXCEPT !.step = step].handle = j.handle
           /\ [j EXCEPT !.step = step].preview = j.preview
           /\ [j EXCEPT !.step = step].since = j.since
BY DEF Jobs

\* A channel that takes up a sound job leaves all jobs sound.
LEMMA Sound ==
    ASSUME CutTypes, StepsInv, NEW ch \in Channels, NEW j \in Jobs, Become(ch, j),
           (j.tool = "none") <=> (j.step = "idle"),
           (j.tool = "add") <=> (j.step \in {"resolved", "committed"}),
           (j.tool = "add") => (j.write \in Writes /\ j.handle \in Handles)
    PROVE  job' \in [Channels -> Jobs] /\ StepsInv'
<1>1. /\ job' \in [Channels -> Jobs] /\ job'[ch] = j
      /\ \A c \in Channels : c # ch => job'[c] = job[c]
  BY Becomes
<1> QED BY <1>1 DEF StepsInv

\* The fence goes with the steps of the one channel that moves.
LEMMA Fenced ==
    ASSUME CutTypes, FenceInv, NEW ch \in Channels, NEW j \in Jobs, Become(ch, j),
           (fence' = ch) <=> (j.step \in {"confirmed", "safe", "replaced"}),
           \A c \in Channels : c # ch => ((fence' = c) <=> (fence = c))
    PROVE  FenceInv'
<1>1. job'[ch] = j /\ \A c \in Channels : c # ch => job'[c] = job[c]
  BY Becomes
<1> QED BY <1>1 DEF FenceInv

LEMMA JobsNext ==
    ASSUME CutConstants, CutTypes, StepsInv, FenceInv, PointsInv, CutNext
    PROVE  /\ job' \in [Channels -> Jobs] /\ StepsInv' /\ FenceInv'
           /\ fence' \in Channels \cup {NoOne}
<1> DEFINE Jobs1 == /\ job' \in [Channels -> Jobs] /\ StepsInv'
           Fence1 == FenceInv' /\ fence' \in Channels \cup {NoOne}
<1>1. ASSUME job' = job, fence' = fence PROVE Jobs1 /\ Fence1
  BY <1>1 DEF StepsInv, FenceInv, CutTypes
<1>2. ASSUME NEW ch \in Channels, AddResolve(ch) PROVE Jobs1 /\ Fence1
  <2> DEFINE e == Ensured(ch)
             j == Adding("resolved", e.handle, spent.writes + 1, canon.gen)
  <2>1. e.handle \in Handles /\ spent.writes < MaxWrites /\ job[ch] = Idle /\ fence' = fence
    BY <1>2 DEF AddResolve, Free
  <2>2. Become(ch, j)
    BY <1>2 DEF AddResolve
  <2> HIDE DEF e
  <2>3. e.handle \in Nat /\ spent.writes + 1 \in Writes /\ spent.writes + 1 \in Nat /\ canon.gen \in Nat
    BY <2>1, Bounds DEF CutTypes, Store
  <2>4. j \in Jobs
    BY <2>3, JobsAre
  <2>5. j.tool = "add" /\ j.step = "resolved" /\ j.write \in Writes /\ j.handle \in Handles
    BY <2>1, <2>3 DEF Adding
  <2> HIDE DEF j
  <2>6. Jobs1
    BY <2>2, <2>4, <2>5, Sound
  <2>7. fence # ch
    BY <2>1 DEF FenceInv, Idle, Restoring
  <2>8. Fence1
    BY <2>1, <2>2, <2>4, <2>5, <2>7, Fenced DEF CutTypes
  <2> QED BY <2>6, <2>8
<1>3. ASSUME NEW ch \in Channels, AddCommit(ch) \/ AddTrack(ch) PROVE Jobs1 /\ Fence1
  <2>1. /\ job[ch] \in Jobs /\ job[ch].tool = "add" /\ job[ch].step \in {"resolved", "committed"}
        /\ fence' = fence
    BY <1>3 DEF AddCommit, AddTrack, Running, CutTypes
  <2>2. fence # ch
    BY <2>1 DEF FenceInv
  <2>3. CASE Become(ch, [job[ch] EXCEPT !.step = "committed"])
    <3> DEFINE j == [job[ch] EXCEPT !.step = "committed"]
    <3>1. j \in Jobs /\ j.tool = "add" /\ j.step = "committed" /\ j.write \in Writes /\ j.handle \in Handles
      BY <2>1, StepOn DEF StepsInv
    <3> HIDE DEF j
    <3>2. Become(ch, j)
      BY <2>3 DEF j
    <3>3. Jobs1
      BY <3>1, <3>2, Sound
    <3>4. Fence1
      BY <2>1, <2>2, <3>1, <3>2, Fenced DEF CutTypes
    <3> QED BY <3>3, <3>4
  <2>4. CASE Finish(ch)
    <3>1. Idle \in Jobs /\ Idle.tool = "none" /\ Idle.step = "idle" /\ Become(ch, Idle)
      BY <2>4, JobsAre DEF Finish, Idle, Restoring
    <3>2. Jobs1
      BY <3>1, Sound
    <3>3. Fence1
      BY <2>1, <2>2, <3>1, Fenced DEF CutTypes
    <3> QED BY <3>2, <3>3
  <2> QED BY <1>3, <2>3, <2>4 DEF AddCommit, AddTrack
<1>4. ASSUME NEW ch \in Channels, NEW n \in Ids, Verify(ch, n) PROVE Jobs1 /\ Fence1
  <2> DEFINE tool == previews[n].tool
             j == Restoring(tool, "verified", n, file, clock, 0)
  <2>1. n \in DOMAIN previews /\ n \in Nat /\ job[ch] = Idle /\ fence' = fence
    BY <1>4, Bounds DEF Verify, Free, CutTypes
  <2>2. tool \in {"restore", "import"}
    BY <2>1, ShownIs DEF Shows
  <2>3. Become(ch, j) /\ j.tool = tool /\ j.step = "verified"
    BY <1>4 DEF Verify, Restoring
  <2>4. file \in Nat /\ clock \in Nat /\ 0 \in Int
    BY Bounds DEF CutTypes
  <2> HIDE DEF tool
  <2>5. j \in Jobs
    BY <2>1, <2>2, <2>4, JobsAre
  <2> HIDE DEF j
  <2>6. Jobs1
    BY <2>2, <2>3, <2>5, Sound
  <2>7. fence # ch
    BY <2>1 DEF FenceInv, Idle, Restoring
  <2>8. Fence1
    BY <2>1, <2>3, <2>5, <2>7, Fenced DEF CutTypes
  <2> QED BY <2>6, <2>8
<1>5. ASSUME NEW ch \in Channels, Finish(ch), fence' = NoOne \/ fence' = fence,
             job[ch].step \in {"verified", "reset"} => fence' = fence,
             job[ch].step \in {"confirmed", "safe", "replaced"} => fence' = NoOne,
             job[ch].step \in {"verified", "reset", "confirmed", "safe", "replaced"}
      PROVE  Jobs1 /\ Fence1
  <2>1. Idle \in Jobs /\ Idle.tool = "none" /\ Idle.step = "idle" /\ Become(ch, Idle)
    BY <1>5, JobsAre DEF Finish, Idle, Restoring
  <2>2. Jobs1
    BY <2>1, Sound
  <2>3. NoOne \notin Channels /\ fence \in Channels \cup {NoOne}
    BY DEF CutConstants, CutTypes
  <2>4. (fence = ch) <=> (job[ch].step \in {"confirmed", "safe", "replaced"})
    BY DEF FenceInv
  <2>5. fence' # ch /\ \A c \in Channels : c # ch => ((fence' = c) <=> (fence = c))
    BY <1>5, <2>3, <2>4
  <2>6. FenceInv'
    BY <2>1, <2>5, Fenced
  <2> QED BY <1>5, <2>2, <2>3, <2>6
<1>6. ASSUME NEW ch \in Channels, NEW j \in Jobs, Become(ch, j), j.tool \in {"restore", "import"},
             \/ /\ j.step = "confirmed" /\ fence = NoOne /\ fence' = ch
             \/ /\ j.step = "safe" /\ fence' = fence /\ job[ch].step = "confirmed"
             \/ /\ j.step = "replaced" /\ fence' = fence /\ job[ch].step = "safe"
             \/ /\ j.step = "reset" /\ fence' = NoOne /\ job[ch].step = "replaced"
      PROVE  Jobs1 /\ Fence1
  <2>1. Jobs1
    BY <1>6, Sound
  <2>2. NoOne \notin Channels /\ fence \in Channels \cup {NoOne}
    BY DEF CutConstants, CutTypes
  <2>3. (fence = ch) <=> (job[ch].step \in {"confirmed", "safe", "replaced"})
    BY DEF FenceInv
  <2>4. /\ (fence' = ch) <=> (j.step \in {"confirmed", "safe", "replaced"})
        /\ \A c \in Channels : c # ch => ((fence' = c) <=> (fence = c))
    BY <1>6, <2>2, <2>3
  <2>5. FenceInv'
    BY <1>6, <2>4, Fenced
  <2> QED BY <1>6, <2>1, <2>2, <2>5
<1>7. ASSUME NEW ch \in Channels, Confirm(ch) PROVE Jobs1 /\ Fence1
  <2> DEFINE n == job[ch].preview
             j == Restoring(job[ch].tool, "confirmed", n, 0, 0, OpSeq - previews[n].seq)
  <2>1. job[ch] \in Jobs /\ job[ch].tool \in {"restore", "import"} /\ job[ch].step = "verified"
        /\ fence = NoOne
    BY <1>7 DEF Confirm, Replacing, Running, CutTypes
  <2>2. CASE Verdict(ch, n) = "ok"
    <3>1. OpSeq \in Nat
      BY OpSeqIsNat
    <3>2. previews[n].seq \in Nat /\ n \in Nat
      BY <2>1, ShownIs DEF PointsInv, Shows
    <3>3. OpSeq - previews[n].seq \in Int
      BY <3>1, <3>2
    <3>4. j \in Jobs /\ j.tool = job[ch].tool /\ j.step = "confirmed"
      BY <2>1, <3>2, <3>3, JobsAre DEF Restoring
    <3>5. Become(ch, j) /\ fence' = ch
      BY <1>7, <2>2 DEF Confirm
    <3> HIDE DEF j
    <3> QED BY <1>6, <2>1, <3>4, <3>5
  <2>3. CASE Verdict(ch, n) # "ok"
    <3>1. Finish(ch) /\ fence' = fence
      BY <1>7, <2>3 DEF Confirm
    <3> QED BY <1>5, <2>1, <3>1
  <2> QED BY <2>2, <2>3
<1>8. ASSUME NEW ch \in Channels, WriteSafety(ch) \/ Replace(ch) PROVE Jobs1 /\ Fence1
  <2>1. job[ch] \in Jobs /\ job[ch].tool \in {"restore", "import"}
    BY <1>8 DEF WriteSafety, Replace, Replacing, Running, CutTypes
  <2>2. \/ Finish(ch) /\ fence' = NoOne /\ job[ch].step \in {"confirmed", "safe"}
        \/ Become(ch, [job[ch] EXCEPT !.step = "safe"]) /\ fence' = fence /\ job[ch].step = "confirmed"
        \/ Become(ch, [job[ch] EXCEPT !.step = "replaced"]) /\ fence' = fence /\ job[ch].step = "safe"
    BY <1>8 DEF WriteSafety, Replace, Replacing, Running
  <2>3. CASE Finish(ch) /\ fence' = NoOne /\ job[ch].step \in {"confirmed", "safe"}
    BY <1>5, <2>3
  <2>4. ASSUME NEW step \in {"safe", "replaced"}, Become(ch, [job[ch] EXCEPT !.step = step]),
               fence' = fence,
               job[ch].step = IF step = "safe" THEN "confirmed" ELSE "safe"
        PROVE  Jobs1 /\ Fence1
    <3> DEFINE j == [job[ch] EXCEPT !.step = step]
    <3>1. j \in Jobs /\ j.step = step /\ j.tool = job[ch].tool
      BY <2>1 DEF Jobs
    <3>2. Become(ch, j)
      BY <2>4
    <3> HIDE DEF j
    <3> QED BY <1>6, <2>1, <2>4, <3>1, <3>2
  <2> QED BY <2>2, <2>3, <2>4
<1>9. ASSUME NEW ch \in Channels, ResetContexts(ch) PROVE Jobs1 /\ Fence1
  <2> DEFINE j == Restoring(job[ch].tool, "reset", 0, 0, 0, 0)
  <2>1. /\ job[ch].tool \in {"restore", "import"} /\ job[ch].step = "replaced"
        /\ fence' = NoOne /\ Become(ch, j)
    BY <1>9 DEF ResetContexts, Replacing, Running
  <2>2. j \in Jobs /\ j.tool = job[ch].tool /\ j.step = "reset"
    BY <2>1, JobsAre DEF Restoring
  <2> HIDE DEF j
  <2> QED BY <1>6, <2>1, <2>2
<1>10. ASSUME NEW ch \in Channels, PersistSessions(ch) PROVE Jobs1 /\ Fence1
  BY <1>5, <1>10 DEF PersistSessions, Replacing, Running
<1>11. ASSUME Restart PROVE Jobs1 /\ Fence1
  <2>1. job' = [ch \in Channels |-> Idle] /\ fence' = NoOne /\ NoOne \notin Channels
    BY <1>11 DEF Restart, CutConstants
  <2>2. Idle \in Jobs /\ Idle.tool = "none" /\ Idle.step = "idle"
    BY JobsAre DEF Idle, Restoring
  <2>3. Jobs1
    BY <2>1, <2>2 DEF StepsInv
  <2>4. Fence1
    BY <2>1, <2>2 DEF FenceInv
  <2> QED BY <2>3, <2>4
<1>12. ASSUME NEW ch \in Channels,
              \/ Connect(ch) \/ Disconnect(ch) \/ Preview(ch, "restore") \/ PreviewImport(ch)
              \/ SaveRegistry(ch)
       PROVE  Jobs1 /\ Fence1
  <2>1. job' = job /\ fence' = fence
    BY <1>12 DEF Connect, Disconnect, Preview, PreviewImport, SaveRegistry
  <2> QED BY <1>1, <2>1
<1>13. ASSUME Tick \/ EditFile PROVE Jobs1 /\ Fence1
  <2>1. job' = job /\ fence' = fence
    BY <1>13 DEF Tick, EditFile
  <2> QED BY <1>1, <2>1
<1> HIDE DEF Jobs1, Fence1
<1>14. Jobs1 /\ Fence1
  BY <1>2, <1>3, <1>4, <1>7, <1>8, <1>9, <1>10, <1>11, <1>12, <1>13 DEF CutNext
<1> QED BY <1>14 DEF Jobs1, Fence1
LEMMA StoreNext ==
    ASSUME CutConstants, CutTypes, StepsInv, CutNext
    PROVE  /\ canon' \in Store /\ safeties' \subseteq Store
           /\ cuts' \in Seq(Cuts) /\ acked' \subseteq Writes
<1> DEFINE Goal == /\ canon' \in Store /\ safeties' \subseteq Store
                   /\ cuts' \in Seq(Cuts) /\ acked' \subseteq Writes
<1>1. ASSUME canon' = canon, safeties' = safeties, cuts' = cuts, acked' = acked PROVE Goal
  BY <1>1 DEF CutTypes
<1>2. ASSUME NEW ch \in Channels, AddCommit(ch) PROVE Goal
  <2>1. job[ch].write \in Writes
    BY <1>2 DEF AddCommit, Running, StepsInv
  <2>2. canon' \in Store
    BY <1>2, <2>1 DEF AddCommit, Raised, Store, CutTypes
  <2> QED BY <1>2, <2>2 DEF AddCommit, history, CutTypes
<1>3. ASSUME NEW ch \in Channels, AddTrack(ch) PROVE Goal
  <2>1. job[ch].write \in Writes
    BY <1>3 DEF AddTrack, Running, StepsInv
  <2>2. acked' \subseteq Writes
    BY <1>3, <2>1 DEF AddTrack, CutTypes
  <2> QED BY <1>3, <2>2 DEF AddTrack, history, CutTypes
<1>4. ASSUME NEW ch \in Channels, WriteSafety(ch) PROVE Goal
  BY <1>4 DEF WriteSafety, history, CutTypes
<1>5. ASSUME NEW ch \in Channels, Replace(ch) PROVE Goal
  <2>1. NewStore \in Store
    BY DEF NewStore, Store, CutTypes
  <2>2. Cut(ch) \in Cuts
    BY DEF Cut, Cuts, Store, Jobs, CutTypes
  <2>3. canon' \in {canon, NewStore} /\ cuts' \in {cuts, Append(cuts, Cut(ch))}
    BY <1>5 DEF Replace
  <2>4. cuts' \in Seq(Cuts)
    <3>1. cuts \in Seq(Cuts) /\ Append(cuts, Cut(ch)) \in Seq(Cuts)
      BY <2>2, AppendProperties DEF CutTypes
    <3> QED BY <2>3, <3>1
  <2>5. canon' \in Store
    BY <2>1, <2>3 DEF CutTypes
  <2> QED BY <1>5, <2>4, <2>5 DEF Replace, CutTypes
<1> HIDE DEF Goal
<1>6. ASSUME \E ch \in Channels : \/ Connect(ch) \/ Disconnect(ch) \/ AddResolve(ch)
                                  \/ Preview(ch, "restore") \/ PreviewImport(ch) \/ Confirm(ch)
                                  \/ \E n \in Ids : Verify(ch, n)
                                  \/ ResetContexts(ch) \/ PersistSessions(ch) \/ SaveRegistry(ch)
      PROVE  Goal
  BY <1>1, <1>6 DEF Connect, Disconnect, AddResolve, Preview, PreviewImport, Confirm, Verify,
     ResetContexts, PersistSessions, SaveRegistry, history
<1>7. ASSUME Tick \/ EditFile \/ Restart
      PROVE  Goal
  BY <1>1, <1>7 DEF Tick, EditFile, Restart, history
<1>8. Goal
  BY <1>2, <1>3, <1>4, <1>5, <1>6, <1>7 DEF CutNext
<1> QED BY <1>8 DEF Goal

LEMMA PreviewsNext ==
    ASSUME CutConstants, CutTypes, CutNext
    PROVE  /\ previews' \in Seq(Shows) /\ tokens' \in [Ids -> {"pending", "used", "gone"}]
           /\ \/ previews' = previews
              \/ \E ch \in Channels, tool \in {"restore", "import"} :
                    /\ previews' = Append(previews, Shown(tool, ch))
                    /\ Len(previews) + 1 \in Ids /\ job' = job /\ canon' = canon /\ cuts' = cuts
                    /\ tokens' \in [Ids -> {"pending", "used", "gone"}]
           /\ \A n \in DOMAIN previews : n \in DOMAIN previews' /\ previews'[n] = previews[n]
<1> DEFINE Tokens == tokens' \in [Ids -> {"pending", "used", "gone"}]
           Shows1 == \/ previews' = previews
                     \/ \E ch \in Channels, tool \in {"restore", "import"} :
                           /\ previews' = Append(previews, Shown(tool, ch))
                           /\ Len(previews) + 1 \in Ids /\ job' = job /\ canon' = canon
                           /\ cuts' = cuts
                           /\ tokens' \in [Ids -> {"pending", "used", "gone"}]
<1>1. ASSUME previews' = previews, tokens' = tokens PROVE Tokens /\ Shows1
  BY <1>1 DEF CutTypes
<1>2. ASSUME NEW ch \in Channels, NEW tool \in {"restore", "import"}, Preview(ch, tool)
      PROVE  Tokens /\ Shows1
  <2>1. Evicted(tool) \in [Ids -> {"pending", "used", "gone"}]
    BY DEF Evicted, CutTypes
  <2>2. Tokens
    BY <1>2, <2>1 DEF Preview
  <2>3. \/ previews' = previews
        \/ /\ previews' = Append(previews, Shown(tool, ch))
           /\ Len(previews) + 1 \in Ids
    BY <1>2 DEF Preview
  <2>4. job' = job /\ canon' = canon /\ cuts' = cuts
    BY <1>2 DEF Preview, history
  <2> QED BY <2>2, <2>3, <2>4
<1>3. ASSUME NEW ch \in Channels, Confirm(ch) PROVE Tokens /\ Shows1
  BY <1>3 DEF Confirm, CutTypes
<1>4. ASSUME Restart PROVE Tokens /\ Shows1
  BY <1>4 DEF Restart
<1> HIDE DEF Tokens, Shows1
<1>5. ASSUME \E ch \in Channels : \/ Connect(ch) \/ Disconnect(ch) \/ AddResolve(ch)
                                  \/ AddCommit(ch) \/ AddTrack(ch)
                                  \/ \E n \in Ids : Verify(ch, n)
      PROVE  Tokens /\ Shows1
  BY <1>1, <1>5 DEF Connect, Disconnect, AddResolve, AddCommit, AddTrack, Verify
<1>6. ASSUME \E ch \in Channels : \/ WriteSafety(ch) \/ Replace(ch) \/ ResetContexts(ch)
                                  \/ PersistSessions(ch) \/ SaveRegistry(ch)
      PROVE  Tokens /\ Shows1
  BY <1>1, <1>6 DEF WriteSafety, Replace, ResetContexts, PersistSessions, SaveRegistry
<1>7. ASSUME Tick \/ EditFile
      PROVE  Tokens /\ Shows1
  BY <1>1, <1>7 DEF Tick, EditFile
<1>8. Tokens /\ Shows1
  BY <1>2, <1>3, <1>4, <1>5, <1>6, <1>7 DEF CutNext, PreviewImport
<1>9. ASSUME NEW ch \in Channels, NEW tool \in {"restore", "import"}
      PROVE  Shown(tool, ch) \in Shows
  <2>1. OpSeq \in Nat
    BY OpSeqIsNat
  <2>2. canon.gen \in Nat /\ file \in Nat /\ clock \in Nat
    BY Bounds DEF CutTypes, Store
  <2> QED BY <2>1, <2>2 DEF Shown, Shows
<1>10. /\ previews' \in Seq(Shows)
       /\ \A n \in DOMAIN previews : n \in DOMAIN previews' /\ previews'[n] = previews[n]
  <2>1. CASE previews' = previews
    BY <2>1 DEF CutTypes
  <2>2. ASSUME NEW ch \in Channels, NEW tool \in {"restore", "import"},
               previews' = Append(previews, Shown(tool, ch))
        PROVE  /\ previews' \in Seq(Shows)
               /\ \A n \in DOMAIN previews : n \in DOMAIN previews' /\ previews'[n] = previews[n]
    <3>1. previews \in Seq(Shows) /\ Shown(tool, ch) \in Shows
      BY <1>9 DEF CutTypes
    <3> HIDE DEF Shows, Shown
    <3> QED BY <2>2, <3>1
  <2> QED BY <1>8, <2>1, <2>2 DEF Shows1
<1> QED BY <1>8, <1>10 DEF Tokens, Shows1
\* Every session record and route comes from ensuring, tracking, dropping or the file.
LEMMA ContextsNext ==
    ASSUME CutConstants, CutTypes, StepsInv, CutNext
    PROVE  virtuals' \in Virtuals /\ route' \in Routes /\ disk' \in [virtuals : Virtuals, route : Routes]
<1> DEFINE Goal == /\ virtuals' \in Virtuals /\ route' \in Routes
                   /\ disk' \in [virtuals : Virtuals, route : Routes]
<1>1. ASSUME virtuals' = virtuals, route' = route,
             disk' = disk \/ disk' = [virtuals |-> virtuals, route |-> route]
      PROVE  Goal
  BY <1>1 DEF CutTypes
<1>2. ASSUME NEW ch \in Channels, AddResolve(ch) PROVE Goal
  <2>1. Ensured(ch).handle \in Handles /\ virtuals' = Ensured(ch).virtuals
        /\ route' = Ensured(ch).route /\ disk' = disk
    BY <1>2 DEF AddResolve
  <2> QED BY <2>1, EnsuredKeeps DEF CutTypes
<1>3. ASSUME NEW ch \in Channels, AddTrack(ch) PROVE Goal
  <2>1. job[ch].write \in Writes /\ job[ch].handle \in Handles
    BY <1>3 DEF AddTrack, Running, StepsInv
  <2>2. virtuals' = virtuals \/ virtuals' = [virtuals EXCEPT ![job[ch].handle].made = @ \cup {job[ch].write}]
    BY <1>3 DEF AddTrack, Tracked
  <2> DEFINE h == job[ch].handle
             u == [virtuals[h] EXCEPT !.made = @ \cup {job[ch].write}]
  <2>3. u \in Virtual
    <3>1. virtuals[h] \in Virtual
      BY <2>1 DEF CutTypes, Virtuals
    <3> HIDE DEF h
    <3> QED BY <2>1, <3>1 DEF Virtual
  <2>4. virtuals' = virtuals \/ virtuals' = [virtuals EXCEPT ![h] = u]
    BY <2>2
  <2> HIDE DEF u, h
  <2>5. virtuals' \in Virtuals
    BY <2>3, <2>4 DEF Virtuals, CutTypes
  <2> QED BY <1>3, <2>5 DEF AddTrack, CutTypes
<1>4. ASSUME NEW ch \in Channels, ResetContexts(ch) PROVE Goal
  <2>1. NoVirtual \in Virtual
    BY DEF NoVirtual, Virtual
  <2>2. virtuals' \in Virtuals
    BY <1>4, <2>1 DEF ResetContexts, DroppedSessions, Virtuals
  <2>3. NoRoute \in [handle : 0..MaxSessions, until : Nat]
    BY Bounds DEF NoRoute
  <2>4. route' \in Routes
    BY <1>4, <2>3 DEF ResetContexts, Routes
  <2> QED BY <1>4, <2>2, <2>4 DEF ResetContexts, CutTypes
<1>5. ASSUME Restart PROVE Goal
  BY <1>5 DEF Restart, CutTypes
<1> HIDE DEF Goal
<1>6. ASSUME \E ch \in Channels : \/ Connect(ch) \/ Disconnect(ch) \/ AddCommit(ch)
                                  \/ Preview(ch, "restore") \/ PreviewImport(ch) \/ Confirm(ch)
                                  \/ \E n \in Ids : Verify(ch, n)
                                  \/ WriteSafety(ch) \/ Replace(ch) \/ PersistSessions(ch)
                                  \/ SaveRegistry(ch)
      PROVE  Goal
  BY <1>1, <1>6 DEF Connect, Disconnect, AddCommit, Preview, PreviewImport, Confirm, Verify,
     WriteSafety, Replace, PersistSessions, SaveRegistry, contexts
<1>7. ASSUME Tick \/ EditFile PROVE Goal
  BY <1>1, <1>7 DEF Tick, EditFile, contexts
<1>8. Goal
  BY <1>2, <1>3, <1>4, <1>5, <1>6, <1>7 DEF CutNext
<1> QED BY <1>8 DEF Goal

LEMMA OutsideNext ==
    ASSUME CutConstants, CutTypes, CutNext
    PROVE  /\ file' \in Nat /\ connected' \subseteq Channels /\ clock' \in 0..MaxClock
           /\ spent' \in [faults : Nat, writes : Nat, handles : Nat]
           /\ spent'.handles >= spent.handles
<1> DEFINE Goal == /\ file' \in Nat /\ connected' \subseteq Channels /\ clock' \in 0..MaxClock
                   /\ spent' \in [faults : Nat, writes : Nat, handles : Nat]
                   /\ spent'.handles >= spent.handles
<1>1. ASSUME file' = file, connected' \subseteq Channels, clock' = clock,
             spent' = spent \/ spent' = [spent EXCEPT !.faults = @ + 1]
      PROVE  Goal
  <2>1. spent' \in [faults : Nat, writes : Nat, handles : Nat] /\ spent'.handles >= spent.handles
    BY <1>1 DEF CutTypes
  <2> QED BY <1>1, <2>1 DEF CutTypes
<1>2. ASSUME NEW ch \in Channels, AddResolve(ch) PROVE Goal
  <2>1. Ensured(ch).handle \in Nat
    BY <1>2, Bounds DEF AddResolve
  <2>2. spent' = [faults |-> spent.faults, writes |-> spent.writes + 1,
                  handles |-> IF Ensured(ch).handle > spent.handles THEN Ensured(ch).handle
                              ELSE spent.handles]
    BY <1>2 DEF AddResolve
  <2>3. spent' \in [faults : Nat, writes : Nat, handles : Nat] /\ spent'.handles >= spent.handles
    BY <2>1, <2>2 DEF CutTypes
  <2> QED BY <1>2, <2>3 DEF AddResolve, CutTypes
<1>3. ASSUME Tick PROVE Goal
  BY <1>3, Bounds DEF Tick, CutTypes
<1>4. ASSUME EditFile PROVE Goal
  <2>1. /\ spent \in [faults : Nat, writes : Nat, handles : Nat]
        /\ file \in Nat /\ connected \subseteq Channels /\ clock \in 0..MaxClock
    BY DEF CutTypes
  <2>2. spent' = [spent EXCEPT !.faults = spent.faults + 1]
    BY <1>4 DEF EditFile, CutFault
  <2>3. spent' \in [faults : Nat, writes : Nat, handles : Nat] /\ spent'.handles >= spent.handles
    BY <2>1, <2>2
  <2> QED BY <1>4, <2>1, <2>3 DEF EditFile
<1> HIDE DEF Goal
<1>5. ASSUME \E ch \in Channels : \/ Connect(ch) \/ Disconnect(ch)
                                  \/ AddCommit(ch) \/ AddTrack(ch)
                                  \/ Preview(ch, "restore") \/ PreviewImport(ch) \/ Confirm(ch)
                                  \/ \E n \in Ids : Verify(ch, n)
      PROVE  Goal
  BY <1>1, <1>5 DEF Connect, Disconnect, AddCommit, AddTrack, Preview, PreviewImport, Confirm,
     Verify, outside, CutFault, CutTypes
<1>6. ASSUME \E ch \in Channels : \/ WriteSafety(ch) \/ Replace(ch) \/ ResetContexts(ch)
                                  \/ PersistSessions(ch) \/ SaveRegistry(ch)
      PROVE  Goal
  BY <1>1, <1>6 DEF WriteSafety, Replace, ResetContexts, PersistSessions, SaveRegistry, outside,
     CutFault, CutTypes
<1>7. ASSUME Restart PROVE Goal
  BY <1>1, <1>7 DEF Restart, CutFault
<1>8. Goal
  BY <1>2, <1>3, <1>4, <1>5, <1>6, <1>7 DEF CutNext
<1> QED BY <1>8 DEF Goal

LEMMA TypesNext ==
    ASSUME CutConstants, CutTypes, StepsInv, FenceInv, PointsInv, CutNext
    PROVE  CutTypes'
BY StoreNext, PreviewsNext, JobsNext, ContextsNext, OutsideNext DEF CutTypes

LEMMA TypesStutter ==
    ASSUME CutTypes, UNCHANGED cutvars
    PROVE  CutTypes'
BY DEF CutTypes, cutvars

-----------------------------------------------------------------------------
(* No acknowledged write is lost.                                          *)

\* A write is in the store or in a safety backup.
Kept(w) == w \in canon.writes \/ \E s \in safeties : w \in s.writes

\* What was committed is kept, and the store about to be replaced was saved.
KeptInv ==
    /\ \A w \in acked : Kept(w)
    /\ \A ch \in Channels : (job[ch].step = "committed") => Kept(job[ch].write)
    /\ \A ch \in Channels : (job[ch].step = "safe") => (canon \in safeties)

LEMMA KeptNext ==
    ASSUME CutConstants, CutTypes, StepsInv, FenceInv, PointsInv, KeptInv, CutNext
    PROVE  KeptInv'
<1>1. ASSUME canon' = canon, safeties' = safeties, acked' = acked,
             \A ch \in Channels : job'[ch] = job[ch] \/ job'[ch].step \notin {"committed", "safe"}
      PROVE  KeptInv'
  BY <1>1 DEF KeptInv, Kept
<1>2. ASSUME NEW ch \in Channels, AddCommit(ch), job[ch].gen = canon.gen PROVE KeptInv'
  <2>1. /\ canon' = [canon EXCEPT !.writes = @ \cup {job[ch].write}]
        /\ safeties' = safeties /\ acked' = acked /\ fence = NoOne
        /\ job' = [job EXCEPT ![ch] = [job[ch] EXCEPT !.step = "committed"]]
    BY <1>2 DEF AddCommit, Raised, Become, Admits
  <2>2. /\ job'[ch].write = job[ch].write /\ \A c \in Channels : c # ch => job'[c] = job[c]
        /\ canon.writes \subseteq canon'.writes /\ job[ch].write \in canon'.writes
    BY <2>1 DEF CutTypes, Jobs, Store
  <2>3. \A c \in Channels : job[c].step # "safe"
    BY <2>1 DEF FenceInv, CutConstants
  <2>4. job'[ch].step # "safe"
    BY <2>1 DEF CutTypes, Jobs
  <2> QED BY <2>1, <2>2, <2>3, <2>4 DEF KeptInv, Kept
<1>3. ASSUME NEW ch \in Channels, Finish(ch), canon' = canon, safeties' = safeties, acked' = acked
      PROVE  KeptInv'
  BY <1>1, <1>3 DEF Finish, Become, Idle, Restoring, CutTypes
<1>4. ASSUME NEW ch \in Channels, AddTrack(ch) PROVE KeptInv'
  <2>1. /\ job[ch].step = "committed" /\ acked' = acked \cup {job[ch].write}
        /\ canon' = canon /\ safeties' = safeties /\ Finish(ch)
    BY <1>4 DEF AddTrack, Running
  <2>2. \A c \in Channels : job'[c] = job[c] \/ job'[c].step = "idle"
    BY <2>1 DEF Finish, Become, Idle, Restoring, CutTypes
  <2> QED BY <2>1, <2>2 DEF KeptInv, Kept
<1>5. ASSUME NEW ch \in Channels, WriteSafety(ch) PROVE KeptInv'
  <2>1. CASE Finish(ch) /\ safeties' = safeties
    BY <1>3, <1>5, <2>1 DEF WriteSafety
  <2>2. CASE safeties' = safeties \cup {canon} /\ Become(ch, [job[ch] EXCEPT !.step = "safe"])
    <3>1. \A c \in Channels : job'[c] = job[c] \/ job'[c].step = "safe"
      BY <2>2 DEF Become, CutTypes, Jobs
    <3>2. canon' = canon /\ acked' = acked
      BY <1>5 DEF WriteSafety
    <3> QED BY <2>2, <3>1, <3>2 DEF KeptInv, Kept
  <2> QED BY <1>5, <2>1, <2>2 DEF WriteSafety
<1>6. ASSUME NEW ch \in Channels, Replace(ch) PROVE KeptInv'
  <2>1. /\ safeties' = safeties /\ acked' = acked /\ job[ch].step = "safe"
        /\ canon' = canon \/ canon' = NewStore
        /\ Finish(ch) \/ Become(ch, [job[ch] EXCEPT !.step = "replaced"])
    BY <1>6 DEF Replace, Replacing, Running
  <2>2. \A c \in Channels : \/ c # ch /\ job'[c] = job[c]
                            \/ c = ch /\ job'[c].step \in {"idle", "replaced"}
    <3>1. job \in [Channels -> Jobs]
      BY DEF CutTypes
    <3>2. [job[ch] EXCEPT !.step = "replaced"].step = "replaced"
      BY <3>1 DEF Jobs
    <3>3. CASE Finish(ch)
      BY <3>1, <3>3 DEF Finish, Become, Idle, Restoring
    <3>4. CASE Become(ch, [job[ch] EXCEPT !.step = "replaced"])
      BY <3>1, <3>2, <3>4 DEF Become
    <3> QED BY <2>1, <3>3, <3>4
  <2>3. \A c \in Channels : c # ch => job[c].step # "safe"
    BY <2>1 DEF FenceInv
  <2>4. canon \in safeties
    BY <2>1 DEF KeptInv
  <2>5. \A w : Kept(w) => \E s \in safeties : w \in s.writes
    BY <2>4 DEF Kept
  <2>6. \A w \in acked : \E s \in safeties : w \in s.writes
    BY <2>5 DEF KeptInv
  <2>7. \A c \in Channels : (job[c].step = "committed") => \E s \in safeties : job[c].write \in s.writes
    BY <2>5 DEF KeptInv
  <2> QED BY <2>1, <2>2, <2>3, <2>6, <2>7 DEF KeptInv, Kept
<1>7. ASSUME NEW ch \in Channels, AddResolve(ch) PROVE KeptInv'
  <2>1. \A c \in Channels : job'[c] = job[c] \/ job'[c].step = "resolved"
    BY <1>7 DEF AddResolve, Become, Adding, CutTypes
  <2> QED BY <1>1, <1>7, <2>1 DEF AddResolve
<1>8. ASSUME NEW ch \in Channels, NEW n \in Ids, Verify(ch, n) PROVE KeptInv'
  <2>1. \A c \in Channels : job'[c] = job[c] \/ job'[c].step = "verified"
    BY <1>8 DEF Verify, Become, Restoring, CutTypes
  <2> QED BY <1>1, <1>8, <2>1 DEF Verify
<1>9. ASSUME NEW ch \in Channels, Confirm(ch) PROVE KeptInv'
  <2>1. \A c \in Channels : job'[c] = job[c] \/ job'[c].step \in {"confirmed", "idle"}
    BY <1>9 DEF Confirm, Finish, Become, Idle, Restoring, CutTypes
  <2> QED BY <1>1, <1>9, <2>1 DEF Confirm
<1>10. ASSUME NEW ch \in Channels, ResetContexts(ch) PROVE KeptInv'
  <2>1. \A c \in Channels : job'[c] = job[c] \/ job'[c].step = "reset"
    BY <1>10 DEF ResetContexts, Become, Restoring, CutTypes
  <2> QED BY <1>1, <1>10, <2>1 DEF ResetContexts
<1>11. ASSUME Restart PROVE KeptInv'
  <2>1. \A c \in Channels : job'[c].step = "idle"
    BY <1>11 DEF Restart, Idle, Restoring
  <2> QED BY <1>1, <1>11, <2>1 DEF Restart
<1>12. ASSUME NEW ch \in Channels,
              \/ Connect(ch) \/ Disconnect(ch) \/ Preview(ch, "restore") \/ PreviewImport(ch)
              \/ SaveRegistry(ch)
       PROVE  KeptInv'
  BY <1>1, <1>12 DEF Connect, Disconnect, Preview, PreviewImport, SaveRegistry
<1>13. ASSUME Tick \/ EditFile PROVE KeptInv'
  BY <1>1, <1>13 DEF Tick, EditFile
<1>14. ASSUME NEW ch \in Channels, AddCommit(ch), job[ch].gen # canon.gen PROVE KeptInv'
  BY <1>3, <1>14 DEF AddCommit
<1>15. ASSUME NEW ch \in Channels, PersistSessions(ch) PROVE KeptInv'
  BY <1>3, <1>15 DEF PersistSessions
<1> QED BY <1>2, <1>4, <1>5, <1>6, <1>7, <1>8, <1>9, <1>10, <1>11, <1>12, <1>13, <1>14, <1>15
        DEF CutNext
-----------------------------------------------------------------------------
(* A cut replaces what its preview showed.                                 *)

\* Tokens are of previews that were shown, and a token that led to a cut is spent.
ShownInv ==
    /\ Len(previews) <= MaxPreviews
    /\ \A n \in Ids : (tokens[n] # "gone") => (n \in DOMAIN previews)
    /\ \A i \in DOMAIN cuts : /\ cuts[i].preview \in DOMAIN previews
                              /\ tokens[cuts[i].preview] # "pending"

\* Between a confirmation and its cut the store is the one that was shown, with the
\* writes since that were counted, and no other cut is of this preview.
ConfirmedInv ==
    \A ch \in Channels :
        (job[ch].step \in {"confirmed", "safe"})
            => /\ tokens[job[ch].preview] # "pending"
               /\ canon.gen = previews[job[ch].preview].gen
               /\ OpSeq = previews[job[ch].preview].seq + job[ch].since
               /\ \A i \in DOMAIN cuts : cuts[i].preview # job[ch].preview

\* A token is pending only from its preview on, until it is taken.
LEMMA TokensNext ==
    ASSUME CutConstants, CutTypes, PointsInv, ShownInv, CutNext
    PROVE  /\ Len(previews') <= MaxPreviews
           /\ \A n \in Ids : (tokens'[n] # "gone") => (n \in DOMAIN previews')
           /\ \A n \in DOMAIN previews :
                 n \in Ids /\ ((tokens'[n] = "pending") => (tokens[n] = "pending"))
<1> DEFINE Goal == /\ Len(previews') <= MaxPreviews
                   /\ \A n \in Ids : (tokens'[n] # "gone") => (n \in DOMAIN previews')
                   /\ \A n \in DOMAIN previews : (tokens'[n] = "pending") => (tokens[n] = "pending")
<1>1. Len(previews) \in Nat /\ DOMAIN previews = 1..Len(previews) /\ DOMAIN previews \subseteq Ids
      /\ tokens \in [Ids -> {"pending", "used", "gone"}]
  BY Bounds DEF CutTypes, ShownInv
<1>2. ASSUME previews' = previews,
             \A n \in Ids : tokens'[n] \in {tokens[n], "used", "gone"},
             \A n \in Ids : (tokens'[n] = "used") => (tokens[n] # "gone")
      PROVE  Goal
  BY <1>1, <1>2 DEF ShownInv
<1>3. ASSUME previews' = previews, tokens' = tokens PROVE Goal
  BY <1>1, <1>3 DEF ShownInv
<1>4. ASSUME NEW ch \in Channels, NEW tool \in {"restore", "import"}, Preview(ch, tool)
      PROVE  Goal
  <2> DEFINE left == Evicted(tool)
             n == Len(previews) + 1
  <2>1. \A m \in Ids : left[m] \in {tokens[m], "gone"}
    BY DEF Evicted
  <2>2. CASE previews' = previews /\ tokens' = left
    BY <1>1, <2>1, <2>2 DEF ShownInv
  <2>3. CASE /\ n \in Ids /\ previews' = Append(previews, Shown(tool, ch))
             /\ tokens' = [m \in Ids |-> IF m = n THEN "pending"
                                         ELSE IF m \in Replaced(tool, ch) THEN "gone" ELSE left[m]]
    <3>1. DOMAIN previews' = 1..n /\ Len(previews') = n
      BY <1>1, <2>3 DEF CutTypes
    <3>2. n <= MaxPreviews
      BY <2>3, Bounds
    <3>3. \A m \in Ids : m # n => tokens'[m] \in {tokens[m], "gone"}
      BY <2>1, <2>3
    <3> HIDE DEF left
    <3> QED BY <1>1, <3>1, <3>2, <3>3 DEF ShownInv
  <2> QED BY <1>4, <2>2, <2>3 DEF Preview
<1>5. ASSUME NEW ch \in Channels, Confirm(ch) PROVE Goal
  <2> DEFINE n == job[ch].preview
  <2>1. previews' = previews /\ n \in DOMAIN previews
    BY <1>5 DEF Confirm, Replacing, Running, PointsInv
  <2>2. CASE Verdict(ch, n) = "ok"
    <3>1. tokens' = [tokens EXCEPT ![n] = "used"]
      BY <1>5, <2>2 DEF Confirm
    <3>2. tokens[n] # "gone"
      BY <2>2 DEF Verdict
    <3> HIDE DEF n
    <3> QED BY <1>1, <1>2, <2>1, <3>1, <3>2
  <2>3. CASE Verdict(ch, n) # "ok"
    <3>1. tokens' = [tokens EXCEPT ![n] = "gone"] \/ tokens' = tokens
      BY <1>5, <2>3 DEF Confirm
    <3> HIDE DEF n
    <3>2. /\ \A m \in Ids : tokens'[m] \in {tokens[m], "gone"}
      BY <1>1, <2>1, <3>1
    <3> QED BY <1>1, <1>2, <2>1, <3>2
  <2> QED BY <2>2, <2>3
<1>6. ASSUME Restart PROVE Goal
  BY <1>1, <1>2, <1>6 DEF Restart
<1> HIDE DEF Goal
<1>7. ASSUME \E ch \in Channels : \/ Connect(ch) \/ Disconnect(ch) \/ AddResolve(ch)
                                  \/ AddCommit(ch) \/ AddTrack(ch)
                                  \/ \E n \in Ids : Verify(ch, n)
      PROVE  Goal
  BY <1>3, <1>7 DEF Connect, Disconnect, AddResolve, AddCommit, AddTrack, Verify
<1>8. ASSUME \E ch \in Channels : \/ WriteSafety(ch) \/ Replace(ch) \/ ResetContexts(ch)
                                  \/ PersistSessions(ch) \/ SaveRegistry(ch)
      PROVE  Goal
  BY <1>3, <1>8 DEF WriteSafety, Replace, ResetContexts, PersistSessions, SaveRegistry
<1>9. ASSUME Tick \/ EditFile PROVE Goal
  BY <1>3, <1>9 DEF Tick, EditFile
<1>10. Goal
  BY <1>4, <1>5, <1>6, <1>7, <1>8, <1>9 DEF CutNext, PreviewImport
<1> QED BY <1>1, <1>10 DEF Goal

\* What a step makes of the jobs: it starts one, moves one on, or ends some.
LEMMA JobsMove ==
    ASSUME CutConstants, CutTypes, CutNext
    PROVE  \A c \in Channels :
              \/ job'[c] = job[c]
              \/ job'[c].step \in {"idle", "resolved", "reset"}
              \/ AddCommit(c) /\ job'[c].step = "committed"
              \/ /\ job'[c].step = "verified" /\ canon' = canon /\ cuts' = cuts
                 /\ job'[c].preview \in DOMAIN previews
              \/ /\ Confirm(c) /\ Verdict(c, job[c].preview) = "ok" /\ job'[c].step = "confirmed"
                 /\ job'[c].preview = job[c].preview
                 /\ job'[c].since = OpSeq - previews[job[c].preview].seq
              \/ /\ job'[c].step = "safe" /\ job[c].step = "confirmed"
                 /\ job'[c].preview = job[c].preview /\ job'[c].since = job[c].since
              \/ /\ job'[c].step = "replaced" /\ job[c].step = "safe"
                 /\ job'[c].preview = job[c].preview
<1> DEFINE G(c) ==
              \/ job'[c] = job[c]
              \/ job'[c].step \in {"idle", "resolved", "reset"}
              \/ AddCommit(c) /\ job'[c].step = "committed"
              \/ /\ job'[c].step = "verified" /\ canon' = canon /\ cuts' = cuts
                 /\ job'[c].preview \in DOMAIN previews
              \/ /\ Confirm(c) /\ Verdict(c, job[c].preview) = "ok" /\ job'[c].step = "confirmed"
                 /\ job'[c].preview = job[c].preview
                 /\ job'[c].since = OpSeq - previews[job[c].preview].seq
              \/ /\ job'[c].step = "safe" /\ job[c].step = "confirmed"
                 /\ job'[c].preview = job[c].preview /\ job'[c].since = job[c].since
              \/ /\ job'[c].step = "replaced" /\ job[c].step = "safe"
                 /\ job'[c].preview = job[c].preview
<1>1. job \in [Channels -> Jobs]
  BY DEF CutTypes
<1>2. ASSUME NEW c \in Channels, job'[c] = job[c] PROVE G(c)
  BY <1>2
<1>3. ASSUME NEW ch \in Channels, NEW j, Become(ch, j), NEW c \in Channels PROVE job'[c] = IF c = ch THEN j ELSE job[c]
  BY <1>1, <1>3 DEF Become
<1>4. ASSUME NEW ch \in Channels, Finish(ch), NEW c \in Channels PROVE G(c)
  BY <1>1, <1>4 DEF Finish, Become, Idle, Restoring
<1>5. ASSUME NEW ch \in Channels, AddResolve(ch), NEW c \in Channels PROVE G(c)
  BY <1>1, <1>5 DEF AddResolve, Become, Adding
<1>6. ASSUME NEW ch \in Channels, AddCommit(ch), NEW c \in Channels PROVE G(c)
  <2>1. CASE Finish(ch)
    BY <1>4, <2>1
  <2>2. CASE Become(ch, [job[ch] EXCEPT !.step = "committed"])
    <3>1. [job[ch] EXCEPT !.step = "committed"].step = "committed"
      BY <1>1, StepOn
    <3> QED BY <1>1, <1>6, <2>2, <3>1 DEF Become
  <2> QED BY <1>6, <2>1, <2>2 DEF AddCommit
<1>7. ASSUME NEW ch \in Channels, NEW n \in Ids, Verify(ch, n), NEW c \in Channels PROVE G(c)
  <2>1. n \in DOMAIN previews /\ canon' = canon /\ cuts' = cuts
    BY <1>7, Bounds DEF Verify, history, CutTypes
  <2>2. job' = [job EXCEPT ![ch] = Restoring(previews[n].tool, "verified", n, file, clock, 0)]
    BY <1>7 DEF Verify, Become
  <2> QED BY <1>1, <2>1, <2>2 DEF Restoring
<1>8. ASSUME NEW ch \in Channels, Confirm(ch), NEW c \in Channels PROVE G(c)
  <2> DEFINE n == job[ch].preview
  <2>1. CASE Verdict(ch, n) = "ok"
    <3>1. job' = [job EXCEPT ![ch] = Restoring(job[ch].tool, "confirmed", n, 0, 0,
                                               OpSeq - previews[n].seq)]
      BY <1>8, <2>1 DEF Confirm, Become
    <3> QED BY <1>1, <1>8, <2>1, <3>1 DEF Restoring
  <2>2. CASE Verdict(ch, n) # "ok"
    BY <1>4, <1>8, <2>2 DEF Confirm
  <2> QED BY <2>1, <2>2
<1>9. ASSUME NEW ch \in Channels, WriteSafety(ch), NEW c \in Channels PROVE G(c)
  <2>1. CASE Finish(ch)
    BY <1>4, <2>1
  <2>2. CASE Become(ch, [job[ch] EXCEPT !.step = "safe"])
    <3> DEFINE j == [job[ch] EXCEPT !.step = "safe"]
    <3>1. j.step = "safe" /\ j.preview = job[ch].preview /\ j.since = job[ch].since
      BY <1>1, StepOn
    <3>2. job[ch].step = "confirmed" /\ job' = [job EXCEPT ![ch] = j]
      BY <1>9, <2>2 DEF WriteSafety, Replacing, Running, Become
    <3> HIDE DEF j
    <3> QED BY <1>1, <3>1, <3>2
  <2> QED BY <1>9, <2>1, <2>2 DEF WriteSafety
<1>10. ASSUME NEW ch \in Channels, Replace(ch), NEW c \in Channels PROVE G(c)
  <2>1. CASE Finish(ch)
    BY <1>4, <2>1
  <2>2. CASE Become(ch, [job[ch] EXCEPT !.step = "replaced"])
    <3> DEFINE j == [job[ch] EXCEPT !.step = "replaced"]
    <3>1. j.step = "replaced" /\ j.preview = job[ch].preview
      BY <1>1, StepOn
    <3>2. job[ch].step = "safe" /\ job' = [job EXCEPT ![ch] = j]
      BY <1>10, <2>2 DEF Replace, Replacing, Running, Become
    <3> HIDE DEF j
    <3> QED BY <1>1, <3>1, <3>2
  <2> QED BY <1>10, <2>1, <2>2 DEF Replace
<1>11. ASSUME NEW ch \in Channels, ResetContexts(ch), NEW c \in Channels PROVE G(c)
  BY <1>1, <1>11 DEF ResetContexts, Become, Restoring
<1>12. ASSUME Restart, NEW c \in Channels PROVE G(c)
  BY <1>12 DEF Restart, Idle, Restoring
<1>13. ASSUME NEW ch \in Channels, AddTrack(ch) \/ PersistSessions(ch), NEW c \in Channels
       PROVE G(c)
  BY <1>4, <1>13 DEF AddTrack, PersistSessions
<1>14. ASSUME NEW ch \in Channels, NEW c \in Channels,
              \/ Connect(ch) \/ Disconnect(ch) \/ Preview(ch, "restore") \/ PreviewImport(ch)
              \/ SaveRegistry(ch)
       PROVE  G(c)
  BY <1>2, <1>14 DEF Connect, Disconnect, Preview, PreviewImport, SaveRegistry
<1>15. ASSUME Tick \/ EditFile, NEW c \in Channels PROVE G(c)
  BY <1>2, <1>15 DEF Tick, EditFile
<1> HIDE DEF G
<1>16. \A c \in Channels : G(c)
  BY <1>5, <1>6, <1>7, <1>8, <1>9, <1>10, <1>11, <1>12, <1>13, <1>14, <1>15 DEF CutNext
<1> QED BY <1>16 DEF G
LEMMA PointsNext ==
    ASSUME CutConstants, CutTypes, PointsInv, CutNext
    PROVE  PointsInv'
<1> SUFFICES ASSUME NEW c \in Channels, job'[c].step \in {"verified", "confirmed", "safe", "replaced"}
             PROVE  job'[c].preview \in DOMAIN previews'
  BY DEF PointsInv
<1>1. job'[c].preview \in DOMAIN previews
  <2>1. CASE job'[c] = job[c]
    BY <2>1 DEF PointsInv
  <2>2. CASE Confirm(c) /\ job'[c].preview = job[c].preview
    BY <2>2 DEF PointsInv, Confirm, Replacing, Running
  <2> QED BY <2>1, <2>2, JobsMove DEF PointsInv
<1> QED BY <1>1, PreviewsNext

\* The store changes by an admitted write or by a cut, which ends a safe step.
LEMMA StoreMoves ==
    ASSUME CutConstants, CutTypes, CutNext
    PROVE  \/ canon' = canon /\ cuts' = cuts
           \/ fence = NoOne /\ cuts' = cuts /\ canon'.gen = canon.gen /\ canon.writes \subseteq canon'.writes
           \/ \E ch \in Channels :
                 /\ job[ch].step = "safe" /\ job'[ch].step \in {"idle", "replaced"}
                 /\ canon' = NewStore /\ cuts' = Append(cuts, Cut(ch))
                 /\ previews' = previews /\ tokens' = tokens
                 /\ torn' = TRUE \/ job'[ch].step = "replaced"
<1> DEFINE G == \/ canon' = canon /\ cuts' = cuts
                \/ fence = NoOne /\ cuts' = cuts /\ canon'.gen = canon.gen /\ canon.writes \subseteq canon'.writes
                \/ \E ch \in Channels :
                      /\ job[ch].step = "safe" /\ job'[ch].step \in {"idle", "replaced"}
                      /\ canon' = NewStore /\ cuts' = Append(cuts, Cut(ch))
                      /\ previews' = previews /\ tokens' = tokens
                      /\ torn' = TRUE \/ job'[ch].step = "replaced"
<1>1. ASSUME canon' = canon, cuts' = cuts PROVE G
  BY <1>1
<1>2. ASSUME NEW ch \in Channels, AddCommit(ch) PROVE G
  <2>1. fence = NoOne /\ cuts' = cuts /\ (canon' = canon \/ canon' = Raised(job[ch].write))
    BY <1>2 DEF AddCommit, Admits, history
  <2>2. Raised(job[ch].write).gen = canon.gen /\ canon.writes \subseteq Raised(job[ch].write).writes
    BY DEF Raised, CutTypes, Store
  <2> QED BY <2>1, <2>2
<1>3. ASSUME NEW ch \in Channels, Replace(ch) PROVE G
  <2>1. CASE /\ canon' = NewStore /\ cuts' = Append(cuts, Cut(ch))
             /\ Finish(ch) /\ torn' = TRUE
    <3>1. job'[ch].step = "idle"
      BY <2>1 DEF Finish, Become, Idle, Restoring, CutTypes
    <3> QED BY <1>3, <2>1, <3>1 DEF Replace, Replacing, Running
  <2>2. CASE /\ canon' = NewStore /\ cuts' = Append(cuts, Cut(ch))
             /\ Become(ch, [job[ch] EXCEPT !.step = "replaced"])
    <3>1. [job[ch] EXCEPT !.step = "replaced"].step = "replaced"
      BY StepOn DEF CutTypes
    <3>2. job'[ch].step = "replaced"
      BY <2>2, <3>1 DEF Become, CutTypes
    <3> QED BY <1>3, <2>2, <3>2 DEF Replace, Replacing, Running
  <2> QED BY <1>1, <1>3, <2>1, <2>2 DEF Replace
<1> HIDE DEF G
<1>4. ASSUME \E ch \in Channels : \/ Connect(ch) \/ Disconnect(ch) \/ AddResolve(ch) \/ AddTrack(ch)
                                  \/ Preview(ch, "restore") \/ PreviewImport(ch) \/ Confirm(ch)
                                  \/ \E n \in Ids : Verify(ch, n)
                                  \/ WriteSafety(ch) \/ ResetContexts(ch) \/ PersistSessions(ch)
                                  \/ SaveRegistry(ch)
      PROVE  G
  BY <1>1, <1>4 DEF Connect, Disconnect, AddResolve, AddTrack, Preview, PreviewImport, Confirm,
     Verify, WriteSafety, ResetContexts, PersistSessions, SaveRegistry, history
<1>5. ASSUME Tick \/ EditFile \/ Restart PROVE G
  BY <1>1, <1>5 DEF Tick, EditFile, Restart, history
<1>6. G
  BY <1>2, <1>3, <1>4, <1>5 DEF CutNext
<1> QED BY <1>6 DEF G

LEMMA ShownNext ==
    ASSUME CutConstants, CutTypes, PointsInv, ShownInv, ConfirmedInv, CutNext
    PROVE  ShownInv'
<1>1. Len(previews') <= MaxPreviews /\ \A n \in Ids : (tokens'[n] # "gone") => (n \in DOMAIN previews')
  BY TokensNext
<1>2. ASSUME NEW i \in DOMAIN cuts
      PROVE  cuts[i].preview \in DOMAIN previews' /\ tokens'[cuts[i].preview] # "pending"
  <2>1. cuts[i].preview \in DOMAIN previews /\ tokens[cuts[i].preview] # "pending"
    BY DEF ShownInv
  <2> QED BY <2>1, TokensNext, PreviewsNext
<1>3. ASSUME NEW ch \in Channels, job[ch].step = "safe", cuts' = Append(cuts, Cut(ch)),
             previews' = previews, tokens' = tokens
      PROVE  ShownInv'
  <2>1. job[ch].preview \in DOMAIN previews /\ tokens[job[ch].preview] # "pending"
    BY <1>3 DEF PointsInv, ConfirmedInv
  <2>2. Cut(ch).preview = job[ch].preview
    BY DEF Cut
  <2>3. \A i \in DOMAIN cuts' : (i \in DOMAIN cuts /\ cuts'[i] = cuts[i]) \/ cuts'[i] = Cut(ch)
    BY <1>3 DEF CutTypes
  <2> HIDE DEF Cut
  <2> QED BY <1>1, <1>2, <1>3, <2>1, <2>2, <2>3 DEF ShownInv
<1>4. CASE cuts' = cuts
  BY <1>1, <1>2, <1>4 DEF ShownInv
<1> QED BY <1>3, <1>4, StoreMoves

LEMMA ConfirmedNext ==
    ASSUME CutConstants, CutTypes, FenceInv, PointsInv, ShownInv, ConfirmedInv, CutNext
    PROVE  ConfirmedInv'
<1> SUFFICES ASSUME NEW c \in Channels, job'[c].step \in {"confirmed", "safe"}
             PROVE  /\ tokens'[job'[c].preview] # "pending"
                    /\ canon'.gen = previews'[job'[c].preview].gen
                    /\ OpSeq' = previews'[job'[c].preview].seq + job'[c].since
                    /\ \A i \in DOMAIN cuts' : cuts'[i].preview # job'[c].preview
  BY DEF ConfirmedInv
<1>1. CASE /\ job[c].step \in {"confirmed", "safe"}
           /\ job'[c].preview = job[c].preview /\ job'[c].since = job[c].since
  <2>1. fence = c /\ NoOne \notin Channels /\ \A ch \in Channels : ch # c => job[ch].step # "safe"
    BY <1>1 DEF FenceInv, CutConstants
  <2>2. canon' = canon /\ cuts' = cuts
    BY <2>1, StoreMoves
  <2>3. OpSeq' = OpSeq
    BY <2>2 DEF OpSeq
  <2>4. job[c].preview \in DOMAIN previews
    BY <1>1 DEF PointsInv
  <2>5. /\ tokens'[job[c].preview] # "pending"
        /\ previews'[job[c].preview] = previews[job[c].preview]
    BY <1>1, <2>4, TokensNext, PreviewsNext DEF ConfirmedInv
  <2> QED BY <1>1, <2>2, <2>3, <2>5 DEF ConfirmedInv
<1>2. CASE /\ Confirm(c) /\ Verdict(c, job[c].preview) = "ok"
           /\ job'[c].preview = job[c].preview
           /\ job'[c].since = OpSeq - previews[job[c].preview].seq
  <2> DEFINE n == job[c].preview
  <2>1. n \in DOMAIN previews /\ previews' = previews /\ canon' = canon /\ cuts' = cuts
        /\ tokens' = [tokens EXCEPT ![n] = "used"]
    BY <1>2 DEF Confirm, Replacing, Running, PointsInv, history
  <2>2. n \in Ids /\ tokens[n] \in {"pending", "used", "gone"}
    BY <2>1, TokensNext DEF CutTypes
  <2>3. tokens[n] = "pending" /\ canon.gen = previews[n].gen
    <3> DEFINE now == IF previews[n].tool = "restore" THEN job[c].now ELSE clock
               late == now > previews[n].at + Ttl
    <3>1. late <=> ~(now <= previews[n].at + Ttl)
      <4>1. job[c].now \in Nat /\ clock \in Nat
        BY Bounds DEF Jobs, CutTypes
      <4>2. previews[n].at \in Nat /\ Ttl \in Nat
        BY <2>1, Bounds, ShownIs DEF Shows
      <4>3. now \in Nat /\ previews[n].at + Ttl \in Nat
        BY <4>1, <4>2
      <4> HIDE DEF now, n
      <4> QED BY <4>3
    <3>2. Verdict(c, n) =
             CASE tokens[n] = "gone" -> "refused"
               [] tokens[n] # "gone" /\ late -> "removed"
               [] tokens[n] = "used" /\ ~late -> "refused"
               [] OTHER -> IF job[c].digest # previews[n].digest \/ c # previews[n].channel \/ ~SameStore(n)
                           THEN "removed"
                           ELSE IF Alone THEN "ok" ELSE "refused"
      BY <3>1 DEF Verdict
    <3> HIDE DEF late, now, n
    <3>3. SameStore(n) /\ tokens[n] # "gone" /\ tokens[n] # "used"
      BY <1>2, <3>2 DEF n
    <3> QED BY <2>2, <3>3 DEF SameStore
  <2>4. tokens'[n] = "used"
    BY <2>1, <2>2 DEF CutTypes
  <2>5. OpSeq' = OpSeq /\ OpSeq \in Nat /\ previews[n].seq \in Nat
    BY <2>1, OpSeqIsNat, ShownIs DEF OpSeq, Shows
  <2>6. OpSeq' = previews'[n].seq + job'[c].since
    BY <1>2, <2>1, <2>5
  <2>7. \A i \in DOMAIN cuts' : cuts'[i].preview # n
    BY <2>1, <2>3 DEF ShownInv
  <2> QED BY <1>2, <2>1, <2>3, <2>4, <2>6, <2>7
<1> QED BY <1>1, <1>2, JobsMove

LEMMA ReplacesNext ==
    ASSUME CutConstants, CutTypes, PointsInv, ShownInv, ConfirmedInv, ReplacesWhatWasShown, CutNext
    PROVE  ReplacesWhatWasShown'
<1>1. \A i \in DOMAIN cuts : /\ cuts[i].preview \in DOMAIN previews'
                             /\ previews'[cuts[i].preview] = previews[cuts[i].preview]
  BY PreviewsNext DEF ShownInv
<1>2. CASE cuts' = cuts
  BY <1>1, <1>2 DEF ReplacesWhatWasShown
<1>3. ASSUME NEW ch \in Channels, job[ch].step = "safe", cuts' = Append(cuts, Cut(ch)),
             previews' = previews
      PROVE  ReplacesWhatWasShown'
  <2>1. /\ canon.gen = previews[job[ch].preview].gen
        /\ Cardinality(canon.writes) = previews[job[ch].preview].seq + job[ch].since
        /\ \A i \in DOMAIN cuts : cuts[i].preview # job[ch].preview
    BY <1>3 DEF ConfirmedInv, OpSeq
  <2>2. /\ Cut(ch).preview = job[ch].preview /\ Cut(ch).gen = canon.gen
        /\ Cut(ch).since = job[ch].since /\ Cut(ch).written = canon.writes
    BY DEF Cut
  <2> HIDE DEF Cut
  <2>3. /\ \A i \in DOMAIN cuts' : i \in DOMAIN cuts \/ i = Len(cuts) + 1
        /\ \A i \in DOMAIN cuts : cuts'[i] = cuts[i]
        /\ cuts'[Len(cuts) + 1] = Cut(ch)
    BY <1>3 DEF CutTypes
  <2>4. ASSUME NEW i \in DOMAIN cuts'
        PROVE  /\ cuts'[i].gen = previews'[cuts'[i].preview].gen
               /\ Cardinality(cuts'[i].written) = previews'[cuts'[i].preview].seq + cuts'[i].since
    <3>1. CASE i \in DOMAIN cuts
      BY <1>1, <2>3, <3>1 DEF ReplacesWhatWasShown
    <3>2. CASE i = Len(cuts) + 1
      BY <1>3, <2>1, <2>2, <2>3, <3>2
    <3> QED BY <2>3, <3>1, <3>2
  <2>5. ASSUME NEW i \in DOMAIN cuts', NEW j \in DOMAIN cuts', cuts'[i].preview = cuts'[j].preview
        PROVE  i = j
    BY <2>1, <2>2, <2>3, <2>5 DEF ReplacesWhatWasShown
  <2> QED BY <2>4, <2>5 DEF ReplacesWhatWasShown
<1> QED BY <1>2, <1>3, StoreMoves
-----------------------------------------------------------------------------
(* No context outlives the store it was made in.                           *)

\* Handles are numbered in the order they are made, and never used again.
HandlesInv ==
    /\ \A h \in Handles : (virtuals[h].status # "gone") => (h <= spent.handles)
    /\ \A h \in Handles : (disk.virtuals[h].status # "gone") => (h <= spent.handles)
    /\ \A ch \in Channels : (job[ch].tool = "add") => (job[ch].handle <= spent.handles)

\* Between the replacement and the reset the contexts are of the old store.
BetweenCutAndReset == \E ch \in Channels : job[ch].step = "replaced"
BetweenCutAndSave == \E ch \in Channels : job[ch].step \in {"replaced", "reset"}

\* Otherwise what a session in use made, or is about to be told it made, is in the store.
LiveInv ==
    (~torn /\ ~BetweenCutAndReset) =>
        /\ OfOneStore
        /\ \A ch \in Channels :
              ((job[ch].step = "committed") /\ (virtuals[job[ch].handle].status = "active"))
                  => (job[ch].write \in canon.writes)

\* And the file that a restart loads is of this store once the contexts were saved.
SavedInv ==
    (~torn /\ ~BetweenCutAndSave) =>
        \A h \in Handles : (disk.virtuals[h].status = "active")
                              => (disk.virtuals[h].made \subseteq canon.writes)

LEMMA HandlesNext ==
    ASSUME CutConstants, CutTypes, StepsInv, HandlesInv, CutNext
    PROVE  HandlesInv'
<1>0. spent.handles \in Nat /\ spent'.handles \in Nat /\ spent'.handles >= spent.handles
  BY OutsideNext DEF CutTypes
<1>1. ASSUME \A h \in Handles : (virtuals'[h].status # "gone") =>
                \/ virtuals[h].status # "gone" \/ disk.virtuals[h].status # "gone"
                \/ h <= spent'.handles,
             \A h \in Handles : (disk'.virtuals[h].status # "gone") =>
                (virtuals[h].status # "gone" \/ disk.virtuals[h].status # "gone"),
             \A c \in Channels : (job'[c].tool = "add") =>
                \/ job[c].tool = "add" /\ job'[c].handle = job[c].handle
                \/ job'[c].handle <= spent'.handles
      PROVE  HandlesInv'
  <2>1. \A c \in Channels : (job[c].tool = "add") => (job[c].handle \in Nat)
    BY Bounds DEF StepsInv
  <2> QED BY <1>0, <1>1, <2>1, Bounds DEF HandlesInv
<1>2. ASSUME virtuals' = virtuals, disk' = disk,
             \A c \in Channels : job'[c] = job[c] \/ job'[c].tool # "add"
      PROVE  HandlesInv'
  BY <1>1, <1>2
<1>3. ASSUME NEW ch \in Channels, Finish(ch) PROVE \A c \in Channels : job'[c] = job[c] \/ job'[c].tool # "add"
  BY <1>3 DEF Finish, Become, Idle, Restoring, CutTypes
<1>4. ASSUME NEW ch \in Channels, AddResolve(ch) PROVE HandlesInv'
  <2> DEFINE e == Ensured(ch)
  <2>1. /\ e.handle \in Handles /\ virtuals' = e.virtuals /\ disk' = disk
        /\ spent' = [faults |-> spent.faults, writes |-> spent.writes + 1,
                     handles |-> IF e.handle > spent.handles THEN e.handle ELSE spent.handles]
        /\ job' = [job EXCEPT ![ch] = Adding("resolved", e.handle, spent.writes + 1, canon.gen)]
    BY <1>4 DEF AddResolve, Become
  <2>2. \A h \in Handles : (e.virtuals[h].status # "gone") => (virtuals[h].status # "gone" \/ h = e.handle)
    BY <2>1, EnsuredKeeps
  <2> HIDE DEF e
  <2>3. e.handle \in Nat /\ e.handle <= spent'.handles
    BY <1>0, <2>1, Bounds
  <2>4. \A c \in Channels : job'[c] = job[c] \/ job'[c].handle = e.handle
    BY <2>1 DEF Adding, CutTypes
  <2> QED BY <1>1, <2>1, <2>2, <2>3, <2>4
<1>5. ASSUME NEW ch \in Channels, AddCommit(ch) PROVE HandlesInv'
  <2>1. CASE Finish(ch)
    BY <1>2, <1>3, <1>5, <2>1 DEF AddCommit, contexts
  <2>2. CASE Become(ch, [job[ch] EXCEPT !.step = "committed"])
    <3>1. /\ [job[ch] EXCEPT !.step = "committed"].tool = job[ch].tool
          /\ [job[ch] EXCEPT !.step = "committed"].handle = job[ch].handle
      BY StepOn DEF CutTypes
    <3>2. \A c \in Channels : job'[c].tool = job[c].tool /\ job'[c].handle = job[c].handle
      BY <2>2, <3>1 DEF Become, CutTypes
    <3> QED BY <1>1, <1>5, <3>2 DEF AddCommit, contexts
  <2> QED BY <1>5, <2>1, <2>2 DEF AddCommit
<1>6. ASSUME NEW ch \in Channels, AddTrack(ch) PROVE HandlesInv'
  <2>1. job[ch].handle \in Handles
    BY <1>6 DEF AddTrack, Running, StepsInv
  <2>2. \A h \in Handles : virtuals'[h].status = virtuals[h].status
    BY <1>6, <2>1 DEF AddTrack, Tracked, CutTypes, Virtuals, Virtual
  <2> QED BY <1>1, <1>3, <1>6, <2>2 DEF AddTrack
<1>7. ASSUME NEW ch \in Channels, NEW n \in Ids, Verify(ch, n) PROVE HandlesInv'
  <2>1. n \in DOMAIN previews
    BY <1>7, Bounds DEF Verify, CutTypes
  <2>2. previews[n].tool # "add"
    BY <2>1, ShownIs DEF Shows
  <2>3. job' = [job EXCEPT ![ch] = Restoring(previews[n].tool, "verified", n, file, clock, 0)]
    BY <1>7 DEF Verify, Become
  <2>4. \A c \in Channels : job'[c] = job[c] \/ job'[c].tool # "add"
    BY <2>2, <2>3 DEF Restoring, CutTypes
  <2> QED BY <1>2, <1>7, <2>4 DEF Verify, contexts
<1>8. ASSUME NEW ch \in Channels, Confirm(ch) PROVE HandlesInv'
  <2>1. job[ch].tool # "add" /\ virtuals' = virtuals /\ disk' = disk
    BY <1>8 DEF Confirm, Replacing, Running, contexts
  <2>2. CASE Finish(ch)
    BY <1>2, <1>3, <2>1, <2>2
  <2>3. CASE Become(ch, Restoring(job[ch].tool, "confirmed", job[ch].preview, 0, 0,
                                  OpSeq - previews[job[ch].preview].seq))
    <3>1. \A c \in Channels : job'[c] = job[c] \/ job'[c].tool # "add"
      BY <2>1, <2>3 DEF Become, Restoring, CutTypes
    <3> QED BY <1>2, <2>1, <3>1
  <2> QED BY <1>8, <2>2, <2>3 DEF Confirm
<1>9. ASSUME NEW ch \in Channels, WriteSafety(ch) \/ Replace(ch) PROVE HandlesInv'
  <2>1. job[ch].tool # "add" /\ virtuals' = virtuals /\ disk' = disk
    BY <1>9 DEF WriteSafety, Replace, Replacing, Running, contexts
  <2>2. CASE Finish(ch)
    BY <1>2, <1>3, <2>1, <2>2
  <2>3. ASSUME NEW step \in {"safe", "replaced"}, Become(ch, [job[ch] EXCEPT !.step = step])
        PROVE  HandlesInv'
    <3>1. [job[ch] EXCEPT !.step = step].tool = job[ch].tool
      BY DEF CutTypes, Jobs
    <3>2. \A c \in Channels : job'[c] = job[c] \/ job'[c].tool # "add"
      BY <2>1, <2>3, <3>1 DEF Become, CutTypes
    <3> QED BY <1>2, <2>1, <3>2
  <2> QED BY <1>9, <2>2, <2>3 DEF WriteSafety, Replace
<1>10. ASSUME NEW ch \in Channels, ResetContexts(ch) PROVE HandlesInv'
  <2>1. \A h \in Handles : virtuals'[h].status = "gone"
    BY <1>10 DEF ResetContexts, DroppedSessions, NoVirtual
  <2>2. \A c \in Channels : job'[c] = job[c] \/ job'[c].tool # "add"
    BY <1>10 DEF ResetContexts, Replacing, Running, Become, Restoring, CutTypes
  <2>3. disk' = disk
    BY <1>10 DEF ResetContexts
  <2> QED BY <1>1, <2>1, <2>2, <2>3
<1>11. ASSUME NEW ch \in Channels, PersistSessions(ch) PROVE HandlesInv'
  BY <1>1, <1>3, <1>11 DEF PersistSessions
<1>12. ASSUME NEW ch \in Channels, SaveRegistry(ch) PROVE HandlesInv'
  BY <1>1, <1>12 DEF SaveRegistry
<1>13. ASSUME Restart PROVE HandlesInv'
  <2>1. \A c \in Channels : job'[c].tool = "none"
    BY <1>13 DEF Restart, Idle, Restoring
  <2> QED BY <1>1, <1>13, <2>1 DEF Restart
<1>14. ASSUME NEW ch \in Channels,
              Connect(ch) \/ Disconnect(ch) \/ Preview(ch, "restore") \/ PreviewImport(ch)
       PROVE  HandlesInv'
  BY <1>2, <1>14 DEF Connect, Disconnect, Preview, PreviewImport, contexts
<1>15. ASSUME Tick \/ EditFile PROVE HandlesInv'
  BY <1>2, <1>15 DEF Tick, EditFile, contexts
<1> QED BY <1>4, <1>5, <1>6, <1>7, <1>8, <1>9, <1>10, <1>11, <1>12, <1>13, <1>14, <1>15 DEF CutNext
\* A cut goes from its replacement to its reset and its save, unless the daemon dies.
LEMMA CutsEnd ==
    ASSUME CutConstants, CutTypes, CutNext
    PROVE  \A c \in Channels :
              (job[c].step \in {"replaced", "reset"})
                  => \/ job'[c] = job[c]
                     \/ job[c].step = "replaced" /\ ResetContexts(c)
                     \/ job[c].step = "reset" /\ PersistSessions(c)
                     \/ Restart
<1> DEFINE G(c) == (job[c].step \in {"replaced", "reset"})
                       => \/ job'[c] = job[c]
                          \/ job[c].step = "replaced" /\ ResetContexts(c)
                          \/ job[c].step = "reset" /\ PersistSessions(c)
                          \/ Restart
<1>1. ASSUME NEW ch \in Channels, job[ch].step \notin {"replaced", "reset"},
             \A c \in Channels : c # ch => job'[c] = job[c]
      PROVE  \A c \in Channels : G(c)
  BY <1>1
<1>2. ASSUME NEW ch \in Channels, NEW j, Become(ch, j) PROVE \A c \in Channels : c # ch => job'[c] = job[c]
  BY <1>2 DEF Become, CutTypes
<1>3. ASSUME NEW ch \in Channels, Finish(ch) PROVE \A c \in Channels : c # ch => job'[c] = job[c]
  BY <1>3 DEF Finish, Become, CutTypes
<1>4. ASSUME job' = job PROVE \A c \in Channels : G(c)
  BY <1>4
<1>5. ASSUME NEW ch \in Channels, AddResolve(ch) PROVE \A c \in Channels : G(c)
  BY <1>1, <1>2, <1>5 DEF AddResolve, Free, Idle, Restoring
<1>6. ASSUME NEW ch \in Channels, AddCommit(ch) \/ AddTrack(ch) PROVE \A c \in Channels : G(c)
  BY <1>1, <1>2, <1>3, <1>6 DEF AddCommit, AddTrack, Running
<1>7. ASSUME NEW ch \in Channels, NEW n \in Ids, Verify(ch, n) PROVE \A c \in Channels : G(c)
  BY <1>1, <1>2, <1>7 DEF Verify, Free, Idle, Restoring
<1>8. ASSUME NEW ch \in Channels, Confirm(ch) PROVE \A c \in Channels : G(c)
  BY <1>1, <1>2, <1>3, <1>8 DEF Confirm, Replacing, Running
<1>9. ASSUME NEW ch \in Channels, WriteSafety(ch) PROVE \A c \in Channels : G(c)
  BY <1>1, <1>2, <1>3, <1>9 DEF WriteSafety, Replacing, Running
<1>10. ASSUME NEW ch \in Channels, Replace(ch) PROVE \A c \in Channels : G(c)
  BY <1>1, <1>2, <1>3, <1>10 DEF Replace, Replacing, Running
<1>11. ASSUME NEW ch \in Channels, ResetContexts(ch) PROVE \A c \in Channels : G(c)
  <2>1. /\ job[ch].step = "replaced"
        /\ \A c \in Channels : c # ch => job'[c] = job[c]
    BY <1>2, <1>11 DEF ResetContexts, Replacing, Running
  <2> QED BY <1>11, <2>1
<1>12. ASSUME NEW ch \in Channels, PersistSessions(ch) PROVE \A c \in Channels : G(c)
  <2>1. /\ job[ch].step = "reset"
        /\ \A c \in Channels : c # ch => job'[c] = job[c]
    BY <1>3, <1>12 DEF PersistSessions, Replacing, Running
  <2> QED BY <1>12, <2>1
<1>13. ASSUME Restart PROVE \A c \in Channels : G(c)
  BY <1>13
<1>14. ASSUME NEW ch \in Channels,
              \/ Connect(ch) \/ Disconnect(ch) \/ Preview(ch, "restore") \/ PreviewImport(ch)
              \/ SaveRegistry(ch)
       PROVE  \A c \in Channels : G(c)
  BY <1>4, <1>14 DEF Connect, Disconnect, Preview, PreviewImport, SaveRegistry
<1>15. ASSUME Tick \/ EditFile PROVE \A c \in Channels : G(c)
  BY <1>4, <1>15 DEF Tick, EditFile
<1> HIDE DEF G
<1>16. \A c \in Channels : G(c)
  BY <1>5, <1>6, <1>7, <1>8, <1>9, <1>10, <1>11, <1>12, <1>13, <1>14, <1>15 DEF CutNext
<1> QED BY <1>16 DEF G

\* A torn cut is remembered; a daemon that dies in the middle of a cut tears it.
LEMMA TornStays ==
    ASSUME CutNext
    PROVE  /\ torn => torn'
           /\ (Restart /\ BetweenCutAndSave) => torn'
<1>1. ASSUME torn' = torn, torn PROVE torn'
  BY <1>1
<1>2. ASSUME NEW ch \in Channels, Replace(ch), torn PROVE torn'
  BY <1>2 DEF Replace
<1>3. ASSUME Restart, torn \/ BetweenCutAndSave PROVE torn'
  BY <1>3 DEF Restart, BetweenCutAndSave
<1>4. ASSUME torn, \E ch \in Channels :
                      \/ Connect(ch) \/ Disconnect(ch) \/ AddResolve(ch) \/ AddTrack(ch)
                      \/ AddCommit(ch)
                      \/ Preview(ch, "restore") \/ PreviewImport(ch) \/ Confirm(ch)
                      \/ \E n \in Ids : Verify(ch, n)
                      \/ WriteSafety(ch) \/ ResetContexts(ch) \/ PersistSessions(ch)
                      \/ SaveRegistry(ch)
      PROVE  torn'
  BY <1>1, <1>4 DEF Connect, Disconnect, AddResolve, AddTrack, AddCommit, Preview, PreviewImport,
     Confirm, Verify, WriteSafety, ResetContexts, PersistSessions, SaveRegistry, history
<1>5. ASSUME torn, Tick \/ EditFile PROVE torn'
  BY <1>1, <1>5 DEF Tick, EditFile, history
<1> QED BY <1>2, <1>3, <1>4, <1>5 DEF CutNext

\* What the sessions in use made, in a step that ends no store.
Live ==
    /\ OfOneStore
    /\ \A ch \in Channels :
          ((job[ch].step = "committed") /\ (virtuals[job[ch].handle].status = "active"))
              => (job[ch].write \in canon.writes)

LEMMA LiveKept ==
    ASSUME CutConstants, CutTypes, StepsInv, HandlesInv, Live, canon.writes \subseteq canon'.writes, CutNext,
           ~Restart, \A ch \in Channels : ~ResetContexts(ch)
    PROVE  Live'
<1>1. ASSUME virtuals' = virtuals,
             \A c \in Channels : job'[c] = job[c] \/ job'[c].step # "committed"
      PROVE  Live'
  BY <1>1 DEF Live, OfOneStore
<1>2. ASSUME NEW ch \in Channels, AddResolve(ch) PROVE Live'
  <2> DEFINE e == Ensured(ch)
  <2>1. /\ e.handle \in Handles /\ virtuals' = e.virtuals
        /\ job' = [job EXCEPT ![ch] = Adding("resolved", e.handle, spent.writes + 1, canon.gen)]
    BY <1>2 DEF AddResolve, Become
  <2>2. \A h \in Handles :
           (e.virtuals[h].status = "active") =>
              \/ (virtuals[h].status = "active") /\ (e.virtuals[h].made = virtuals[h].made)
              \/ h = spent.handles + 1 /\ e.virtuals[h].made = {}
    BY <2>1, EnsuredKeeps
  <2> HIDE DEF e
  <2>3. OfOneStore'
    BY <2>1, <2>2 DEF Live, OfOneStore
  <2>4. ASSUME NEW c \in Channels, job'[c].step = "committed", virtuals'[job'[c].handle].status = "active"
        PROVE  job'[c].write \in canon'.writes
    <3>1. job'[c] = job[c]
      BY <2>1, <2>4 DEF Adding, CutTypes
    <3>2. job[c].handle \in Handles /\ job[c].handle <= spent.handles /\ spent.handles \in Nat
      BY <2>4, <3>1 DEF StepsInv, HandlesInv, CutTypes
    <3>3. job[c].handle # spent.handles + 1
      BY <3>2, Bounds
    <3> QED BY <2>1, <2>2, <2>4, <3>1, <3>2, <3>3 DEF Live
  <2> QED BY <2>3, <2>4 DEF Live
<1>3. ASSUME NEW ch \in Channels, AddCommit(ch) PROVE Live'
  <2>1. CASE Finish(ch)
    BY <1>1, <1>3, <2>1 DEF AddCommit, contexts, Finish, Become, Idle, Restoring, CutTypes
  <2>2. CASE canon' = Raised(job[ch].write) /\ Become(ch, [job[ch] EXCEPT !.step = "committed"])
    <3>1. [job[ch] EXCEPT !.step = "committed"].write = job[ch].write
      BY StepOn DEF CutTypes
    <3>2. job'[ch].write = job[ch].write /\ \A c \in Channels : c # ch => job'[c] = job[c]
      BY <2>2, <3>1 DEF Become, CutTypes
    <3>3. job[ch].write \in canon'.writes
      BY <2>2 DEF Raised, CutTypes, Store
    <3> QED BY <1>3, <3>2, <3>3 DEF Live, OfOneStore, AddCommit, contexts
  <2> QED BY <1>3, <2>1, <2>2 DEF AddCommit
<1>4. ASSUME NEW ch \in Channels, AddTrack(ch) PROVE Live'
  <2> DEFINE h == job[ch].handle
  <2>1. /\ h \in Handles /\ job[ch].step = "committed"
        /\ \A c \in Channels : job'[c] = job[c] \/ job'[c].step # "committed"
    BY <1>4 DEF AddTrack, Running, StepsInv, Finish, Become, Idle, Restoring, CutTypes
  <2>2. \A g \in Handles : virtuals'[g].status = virtuals[g].status
    BY <1>4, <2>1 DEF AddTrack, Tracked, CutTypes, Virtuals, Virtual
  <2>3. \A g \in Handles : \/ virtuals'[g].made = virtuals[g].made
                           \/ g = h /\ virtuals'[g].made = virtuals[g].made \cup {job[ch].write}
    BY <1>4, <2>1 DEF AddTrack, Tracked, CutTypes, Virtuals, Virtual
  <2> HIDE DEF h
  <2>4. (virtuals[h].status = "active") => (job[ch].write \in canon.writes)
    BY <2>1 DEF Live, h
  <2>5. OfOneStore'
    BY <2>2, <2>3, <2>4 DEF Live, OfOneStore
  <2>6. ASSUME NEW c \in Channels, job'[c].step = "committed", virtuals'[job'[c].handle].status = "active"
        PROVE  job'[c].write \in canon'.writes
    <3>1. job'[c] = job[c] /\ job[c].handle \in Handles
      BY <2>1, <2>6 DEF StepsInv
    <3> QED BY <2>2, <2>6, <3>1 DEF Live
  <2> QED BY <2>5, <2>6 DEF Live
<1>5. ASSUME virtuals' = virtuals, \A c \in Channels : ~AddCommit(c) PROVE Live'
  BY <1>1, <1>5, JobsMove
<1> DEFINE Others ==
              \/ \E ch \in Channels :
                    \/ Connect(ch) \/ Disconnect(ch) \/ Preview(ch, "restore") \/ PreviewImport(ch)
                    \/ Confirm(ch) \/ \E n \in Ids : Verify(ch, n)
                    \/ WriteSafety(ch) \/ Replace(ch) \/ PersistSessions(ch) \/ SaveRegistry(ch)
              \/ Tick \/ EditFile
<1>6. Others => virtuals' = virtuals
  BY DEF Connect, Disconnect, Preview, PreviewImport, Confirm, Verify, WriteSafety, Replace,
     PersistSessions, SaveRegistry, Tick, EditFile, contexts
<1>7. Others \/ \E ch \in Channels : AddResolve(ch) \/ AddCommit(ch) \/ AddTrack(ch)
  BY DEF CutNext
<1> HIDE DEF Others
<1> QED BY <1>2, <1>3, <1>4, <1>5, <1>6, <1>7

LEMMA LiveNext ==
    ASSUME CutConstants, CutTypes, StepsInv, HandlesInv, LiveInv, SavedInv, CutNext
    PROVE  LiveInv'
<1> SUFFICES ASSUME ~torn', ~BetweenCutAndReset'
             PROVE  Live'
  BY DEF LiveInv, Live
<1>1. ~torn
  BY TornStays
<1>2. CASE Restart
  <2>1. ~BetweenCutAndSave
    BY <1>2, TornStays
  <2>2. virtuals' = disk.virtuals /\ canon' = canon /\ \A ch \in Channels : job'[ch].step = "idle"
    BY <1>2 DEF Restart, Idle, Restoring
  <2> QED BY <1>1, <2>1, <2>2 DEF SavedInv, Live, OfOneStore
<1>3. ASSUME NEW ch \in Channels, ResetContexts(ch) PROVE Live'
  <2>1. \A h \in Handles : virtuals'[h].status = "gone"
    BY <1>3 DEF ResetContexts, DroppedSessions, NoVirtual
  <2>2. \A c \in Channels : job'[c] = job[c] \/ job'[c].step = "reset"
    BY <1>3 DEF ResetContexts, Become, Restoring, CutTypes
  <2>3. \A c \in Channels : (job'[c].step = "committed") => (job'[c].handle \in Handles)
    BY <2>2 DEF StepsInv
  <2> QED BY <2>1, <2>3 DEF Live, OfOneStore
<1>4. CASE ~Restart /\ \A ch \in Channels : ~ResetContexts(ch)
  <2>1. ~BetweenCutAndReset
    <3> SUFFICES ASSUME NEW c \in Channels, job[c].step = "replaced" PROVE FALSE
      BY DEF BetweenCutAndReset
    <3>1. job'[c] = job[c]
      BY <1>4, CutsEnd
    <3> QED BY <3>1 DEF BetweenCutAndReset
  <2>2. Live
    BY <1>1, <2>1 DEF LiveInv, Live
  <2>3. canon.writes \subseteq canon'.writes
    BY StoreMoves DEF BetweenCutAndReset
  <2> QED BY <1>4, <2>2, <2>3, LiveKept
<1> QED BY <1>2, <1>3, <1>4

LEMMA SavedNext ==
    ASSUME CutConstants, CutTypes, StepsInv, LiveInv, SavedInv, CutNext
    PROVE  SavedInv'
<1> SUFFICES ASSUME ~torn', ~BetweenCutAndSave', NEW h \in Handles,
                    disk'.virtuals[h].status = "active"
             PROVE  disk'.virtuals[h].made \subseteq canon'.writes
  BY DEF SavedInv
<1>1. ~torn
  BY TornStays
<1>2. canon.writes \subseteq canon'.writes
  BY StoreMoves DEF BetweenCutAndSave
<1>3. CASE disk' = [virtuals |-> virtuals, route |-> route]
  <2>1. CASE ~BetweenCutAndReset
    BY <1>1, <1>2, <1>3, <2>1 DEF LiveInv, OfOneStore
  <2>2. CASE BetweenCutAndReset
    <3>1. PICK c \in Channels : job[c].step = "replaced"
      BY <2>2 DEF BetweenCutAndReset
    <3>2. job'[c] = job[c] \/ Restart \/ ResetContexts(c)
      BY <3>1, CutsEnd
    <3>3. job'[c] # job[c]
      BY <3>1 DEF BetweenCutAndSave
    <3>4. ~Restart
      BY <3>1, TornStays DEF BetweenCutAndSave
    <3>5. job'[c].step = "reset"
      BY <3>2, <3>3, <3>4 DEF ResetContexts, Become, Restoring, CutTypes
    <3> QED BY <3>5 DEF BetweenCutAndSave
  <2> QED BY <2>1, <2>2
<1>4. CASE disk' = disk /\ \A ch \in Channels : ~PersistSessions(ch)
  <2>1. ~BetweenCutAndSave
    <3> SUFFICES ASSUME NEW c \in Channels, job[c].step \in {"replaced", "reset"} PROVE FALSE
      BY DEF BetweenCutAndSave
    <3>1. job'[c] = job[c] \/ Restart \/ ResetContexts(c)
      BY <1>4, CutsEnd
    <3>2. ~Restart
      BY TornStays DEF BetweenCutAndSave
    <3>3. job'[c].step \in {"replaced", "reset"}
      BY <3>1, <3>2 DEF ResetContexts, Become, Restoring, CutTypes
    <3> QED BY <3>3 DEF BetweenCutAndSave
  <2> QED BY <1>1, <1>2, <1>4, <2>1 DEF SavedInv
<1> DEFINE Others ==
              \/ \E ch \in Channels :
                    \/ Connect(ch) \/ Disconnect(ch) \/ AddResolve(ch) \/ AddCommit(ch) \/ AddTrack(ch)
                    \/ Preview(ch, "restore") \/ PreviewImport(ch)
                    \/ Confirm(ch) \/ \E n \in Ids : Verify(ch, n)
                    \/ WriteSafety(ch) \/ Replace(ch) \/ ResetContexts(ch)
              \/ Tick \/ EditFile \/ Restart
<1>5. Others => disk' = disk
  BY DEF Connect, Disconnect, AddResolve, AddCommit, AddTrack, Preview, PreviewImport, Confirm, Verify,
     WriteSafety, Replace, ResetContexts, Tick, EditFile, Restart, contexts
<1>6. \A ch \in Channels : (PersistSessions(ch) \/ SaveRegistry(ch)) => disk' = [virtuals |-> virtuals, route |-> route]
  BY DEF PersistSessions, SaveRegistry
<1>7. Others \/ \E ch \in Channels : PersistSessions(ch) \/ SaveRegistry(ch)
  BY DEF CutNext
<1> HIDE DEF Others
<1>8. disk' = [virtuals |-> virtuals, route |-> route] \/ (disk' = disk /\ \A ch \in Channels : ~PersistSessions(ch))
  BY <1>5, <1>6, <1>7
<1> QED BY <1>3, <1>4, <1>8

-----------------------------------------------------------------------------
(* The invariant, and the theorems.                                        *)

CutInv ==
    /\ CutTypes /\ StepsInv /\ FenceInv /\ PointsInv
    /\ KeptInv
    /\ ShownInv /\ ConfirmedInv /\ ReplacesWhatWasShown
    /\ HandlesInv /\ LiveInv /\ SavedInv

LEMMA CutInvHolds ==
    ASSUME CutConstants, CutInit
    PROVE  CutInv
<1>1. /\ canon = [gen |-> 1, writes |-> {}] /\ safeties = {} /\ previews = <<>>
      /\ tokens = [n \in Ids |-> "gone"] /\ fence = NoOne /\ file = 0 /\ connected = {}
      /\ job = [ch \in Channels |-> Idle] /\ acked = {}
      /\ virtuals = [h \in Handles |-> NoVirtual] /\ route = [ch \in Channels |-> NoRoute]
      /\ disk = [virtuals |-> virtuals, route |-> route] /\ cuts = <<>>
      /\ clock = 0 /\ spent = [faults |-> 0, writes |-> 0, handles |-> 0]
  BY DEF CutInit
<1>2. Idle \in Jobs /\ Idle.step = "idle" /\ Idle.tool = "none"
  BY JobsAre DEF Idle, Restoring
<1>3. NoVirtual \in Virtual /\ NoVirtual.status = "gone" /\ NoRoute \in [handle : 0..MaxSessions, until : Nat]
  BY Bounds DEF NoVirtual, Virtual, NoRoute
<1>4. virtuals \in Virtuals /\ route \in Routes /\ disk \in [virtuals : Virtuals, route : Routes]
  BY <1>1, <1>3 DEF Virtuals, Routes
<1>5. job \in [Channels -> Jobs] /\ tokens \in [Ids -> {"pending", "used", "gone"}]
  BY <1>1, <1>2
<1>6. canon \in Store /\ safeties \subseteq Store
  BY <1>1 DEF Store
<1>7. previews \in Seq(Shows) /\ cuts \in Seq(Cuts)
  BY <1>1
<1>8. clock \in 0..MaxClock /\ file \in Nat
  BY <1>1, Bounds
<1>9. spent \in [faults : Nat, writes : Nat, handles : Nat]
  BY <1>1
<1>10. CutTypes
  BY <1>1, <1>4, <1>5, <1>6, <1>7, <1>8, <1>9 DEF CutTypes
<1>11. \A ch \in Channels : job[ch].step = "idle" /\ job[ch].tool = "none"
  BY <1>1, <1>2
<1>12. StepsInv /\ FenceInv /\ PointsInv
  BY <1>1, <1>11 DEF StepsInv, FenceInv, PointsInv, CutConstants
<1>13. KeptInv /\ ConfirmedInv
  BY <1>1, <1>11 DEF KeptInv, ConfirmedInv
<1>14. DOMAIN cuts = {} /\ Len(previews) = 0 /\ 0 <= MaxPreviews
  BY <1>1, Bounds
<1>15. ShownInv /\ ReplacesWhatWasShown
  BY <1>1, <1>14 DEF ShownInv, ReplacesWhatWasShown
<1>16. \A h \in Handles : virtuals[h].status = "gone" /\ disk.virtuals[h].status = "gone"
  BY <1>1, <1>3
<1>17. HandlesInv /\ LiveInv /\ SavedInv
  BY <1>11, <1>16 DEF HandlesInv, LiveInv, SavedInv, OfOneStore
<1> QED BY <1>10, <1>12, <1>13, <1>15, <1>17 DEF CutInv

LEMMA CutStutter ==
    ASSUME CutInv, UNCHANGED cutvars
    PROVE  CutInv'
BY DEF CutInv, cutvars, CutTypes, StepsInv, FenceInv, PointsInv, KeptInv, Kept, ShownInv, ConfirmedInv,
   OpSeq, ReplacesWhatWasShown, HandlesInv, LiveInv, SavedInv, OfOneStore, BetweenCutAndReset,
   BetweenCutAndSave

LEMMA CutInvKept ==
    ASSUME CutConstants, CutInv, [CutNext]_cutvars
    PROVE  CutInv'
<1>1. CASE CutNext
  BY <1>1, TypesNext, JobsNext, PointsNext, KeptNext, ShownNext, ConfirmedNext, ReplacesNext,
     HandlesNext, LiveNext, SavedNext DEF CutInv
<1>2. CASE UNCHANGED cutvars
  BY <1>2, CutStutter
<1> QED BY <1>1, <1>2

\* Every variable has its type, and the fence is held through a cut's steps only.
THEOREM CutTypeCorrect == CutConstants => (CutSpec => []CutTypeOK)
<1> SUFFICES ASSUME CutConstants PROVE CutSpec => []CutTypeOK
  OBVIOUS
<1>1. CutInit => CutInv
  BY CutInvHolds
<1>2. CutInv /\ [CutNext]_cutvars => CutInv'
  BY CutInvKept
<1>3. CutInv => CutTypeOK
  <2> SUFFICES ASSUME CutInv PROVE CutTypeOK
    OBVIOUS
  <2>1. CutTypes /\ FenceInv
    BY DEF CutInv
  <2> QED BY <2>1 DEF CutTypes, FenceInv, CutTypeOK, Store, Shows, Virtuals, Virtual, Routes
<1> QED BY <1>1, <1>2, <1>3, PTL DEF CutSpec

\* An acknowledged write is in the store or in a safety backup, whatever restores, imports,
\* closed connections and restarts came in between: the fence lets no write slip in between
\* the safety backup and the replacement (backup.rs, memory_add.rs).
THEOREM NoWriteIsLost == CutConstants => (CutSpec => []NoWriteLostUnseen)
<1> SUFFICES ASSUME CutConstants PROVE CutSpec => []NoWriteLostUnseen
  OBVIOUS
<1>1. CutInit => CutInv
  BY CutInvHolds
<1>2. CutInv /\ [CutNext]_cutvars => CutInv'
  BY CutInvKept
<1>3. CutInv => NoWriteLostUnseen
  BY DEF CutInv, KeptInv, Kept, NoWriteLostUnseen
<1> QED BY <1>1, <1>2, <1>3, PTL DEF CutSpec

\* A cut replaces the store its host was shown, with as many writes since as its report
\* counts, and each preview leads to one cut at most (the two coordinators of previews).
THEOREM CutsAreOfWhatWasShown == CutConstants => (CutSpec => []ReplacesWhatWasShown)
<1> SUFFICES ASSUME CutConstants PROVE CutSpec => []ReplacesWhatWasShown
  OBVIOUS
<1>1. CutInit => CutInv
  BY CutInvHolds
<1>2. CutInv /\ [CutNext]_cutvars => CutInv'
  BY CutInvKept
<1>3. CutInv => ReplacesWhatWasShown
  BY DEF CutInv
<1> QED BY <1>1, <1>2, <1>3, PTL DEF CutSpec

\* While writes are admitted no virtual session in use holds memories of a replaced store,
\* unless a restore failed after its commit or died half way (registry.rs, memory_add.rs).
THEOREM ContextsEndWithTheirStore == CutConstants => (CutSpec => []NoContextSpansCut)
<1> SUFFICES ASSUME CutConstants PROVE CutSpec => []NoContextSpansCut
  OBVIOUS
<1>1. CutInit => CutInv
  BY CutInvHolds
<1>2. CutInv /\ [CutNext]_cutvars => CutInv'
  BY CutInvKept
<1>3. CutInv => NoContextSpansCut
  <2> SUFFICES ASSUME CutInv, fence = NoOne, ~torn PROVE OfOneStore
    BY DEF NoContextSpansCut
  <2>1. ~BetweenCutAndReset
    BY DEF CutInv, FenceInv, BetweenCutAndReset, CutConstants
  <2> QED BY <2>1 DEF CutInv, LiveInv
<1> QED BY <1>1, <1>2, <1>3, PTL DEF CutSpec

(***************************************************************************)
(* The import of a legacy backup.                                          *)
(***************************************************************************)

Passes == {"envelope", "memories", "relations", "guides", "sessions", "feedback", "suggestions",
           "archives", "history", "internal", "staged", "parsed", "restored", "refused"}

Unread == {"envelope", "refused"}
BeforeRelations == Unread \cup {"memories"}
BeforeGuides == BeforeRelations \cup {"relations"}
BeforeSessions == BeforeGuides \cup {"guides"}
BeforeFeedback == BeforeSessions \cup {"sessions"}
BeforeSuggestions == BeforeFeedback \cup {"feedback"}
BeforeArchives == BeforeSuggestions \cup {"suggestions"}
BeforeHistory == BeforeArchives \cup {"archives"}
BeforeInternal == BeforeHistory \cup {"history"}
BeforeStaged == BeforeInternal \cup {"internal"}
BeforeParsed == BeforeStaged \cup {"staged"}

\* A flaw that is told by what is lost, or needs not be told once the image was read.
Told(f, lost) ==
    LET t == f[1]
        c == f[2]
        place == {<<l[2], l[3]>> : l \in lost}
    IN  \/ f \in place
        \/ t \in {"feedback_log", "fragment_history"} /\ <<t, "memory_id">> \in place
        \/ t = "relations" /\ c \in {"source_id", "target_id"}
        \/ c = "table" /\ table_introduced_in[t] > image.schema
        \/ ~HasTable(t)
        \/ f = <<"memories", "legacy_id">>
        \/ c = "column" /\ image.schema < InvalidatedAtIntroducedIn
        \/ Unseen(t, c)

ToldOf(ts, lost) == \A f \in image.flaws : f[1] \in ts => Told(f, lost)

\* What is lost is the flaw's doing.
Due(l) ==
    /\ <<l[2], l[3]>> \in Flaws
    /\ \/ <<l[2], l[3]>> \in image.flaws
       \/ <<"memories", "legacy_id">> \in image.flaws
       \/ l[3] = "column"

GuideLink == <<"guide_memory_links", "related_guide">>
OfMemories == {"memories", "memory_evidence"}
OfGuides == {"guides", "guide_contexts", "guide_learnings", "guide_memory_links"}
OfSessions == {"sessions", "session_attempts", "session_guide_usage", "session_memory_links"}

ToldInv ==
    /\ \A l \in loss : Due(l)
    /\ pass \notin Unread => ToldOf({"envelope"}, loss)
    /\ pass \notin BeforeRelations =>
          /\ ToldOf(OfMemories, loss)
          /\ GuideLink \in image.flaws => Told(GuideLink, loss)
    /\ pass \notin BeforeGuides => ToldOf({"relations"}, loss)
    /\ pass \notin BeforeSessions => ToldOf(OfGuides, loss)
    /\ pass \notin BeforeFeedback => ToldOf(OfSessions, loss)
    /\ pass \notin BeforeSuggestions => ToldOf({"feedback_log"}, loss)
    /\ pass \notin BeforeArchives => ToldOf({"improvement_suggestions"}, loss)
    /\ pass \notin BeforeHistory => ToldOf({"fragments_archive"}, loss)
    /\ pass \notin BeforeInternal => ToldOf({"fragment_history"}, loss)
    /\ pass \notin BeforeStaged => ToldOf({"unknown"}, loss)
    /\ pass \notin BeforeParsed => ToldOf({"library"}, loss)

MemoryHolds(m) ==
    /\ m.parent \cup m.children \cup m.associated \subseteq derived
    /\ \A p \in imported.memories : p.row \in m.parent <=> m.row \in p.children
SessionHolds(s) ==
    /\ s.memories \subseteq derived /\ s.guides \subseteq {1}
    /\ \A a \in s.attempts : a.memory \subseteq derived

\* What was read refers to what was read, but for the relations.
ReadInv ==
    /\ image \in [schema : Schemas, flaws : FlawSets] /\ pass \in Passes
    /\ imported = [memories |-> imported.memories, relations |-> imported.relations,
                   guides |-> imported.guides, sessions |-> imported.sessions,
                   feedback |-> imported.feedback, suggestions |-> imported.suggestions,
                   archives |-> imported.archives, history |-> imported.history]
    /\ legacies \subseteq derived /\ derived \subseteq MemoryRows
    /\ pass \notin BeforeRelations =>
          /\ derived = MemoryRows
          /\ legacies # MemoryRows => <<"memories", "legacy_id">> \in image.flaws
    /\ {m.row : m \in imported.memories} = derived
    /\ \A m \in imported.memories : MemoryHolds(m)
    /\ pass \in BeforeGuides \ {"refused"} => imported.relations = {}
    /\ pass \notin BeforeGuides => imported.relations =
          {<<Ref("relations", "source_id"), Ref("relations", "target_id")>>}
    /\ pass \notin BeforeSessions => {g.row : g \in imported.guides} = {1}
    /\ \A g \in imported.guides : g.sources \subseteq derived
    /\ \A s \in imported.sessions : SessionHolds(s)
    /\ imported.feedback \subseteq derived

\* The restore sets aside what does not resolve.
RestoredInv ==
    pass = "restored" =>
        LET now == restored.records
            kept == {r \in imported.relations : r[1] \in derived /\ r[2] \in derived}
        IN  /\ now.memories = imported.memories /\ now.guides = imported.guides
            /\ now.sessions = imported.sessions /\ now.feedback = imported.feedback
            /\ now.relations = kept /\ restored.quarantined = imported.relations \ kept

ImportInv == ToldInv /\ ReadInv /\ RestoredInv

-----------------------------------------------------------------------------
(* The image                                                               *)

LEMMA TargetRows ==
    /\ Target["memories"] = [parent_id |-> 1, associated_with |-> 1]
    /\ Target["memory_evidence"] = [memory_id |-> 1]
    /\ Target["guides"] = [source_memories |-> 1, validated_by |-> 1]
    /\ Target["guide_contexts"] = [guide_id |-> 1]
    /\ Target["guide_learnings"] = [guide_id |-> 1]
    /\ Target["guide_memory_links"] =
          [related_guide |-> 1, related_memory |-> 1, source_guide |-> 1, source_memory |-> 2]
    /\ Target["relations"] = [source_id |-> 1, target_id |-> 2]
    /\ Target["sessions"] = <<>>
    /\ Target["session_attempts"] = [session_id |-> 1, related_memory_id |-> 1]
    /\ Target["session_guide_usage"] = [session_id |-> 1, guide_id |-> 1]
    /\ Target["session_memory_links"] = [session_id |-> 1, memory_id |-> 2]
    /\ Target["feedback_log"] = [memory_id |-> 1]
    /\ Target["improvement_suggestions"] = [session_id |-> 1]
    /\ Target["fragments_archive"] = <<>>
    /\ Target["fragment_history"] = [memory_id |-> 2]
BY DEF Target, Tables

LEMMA Columns ==
    /\ DOMAIN Target["memories"] = {"parent_id", "associated_with"}
    /\ DOMAIN Target["memory_evidence"] = {"memory_id"}
    /\ DOMAIN Target["guides"] = {"source_memories", "validated_by"}
    /\ DOMAIN Target["guide_contexts"] = {"guide_id"}
    /\ DOMAIN Target["guide_learnings"] = {"guide_id"}
    /\ DOMAIN Target["guide_memory_links"] =
          {"related_guide", "related_memory", "source_guide", "source_memory"}
    /\ DOMAIN Target["relations"] = {"source_id", "target_id"}
    /\ DOMAIN Target["sessions"] = {}
    /\ DOMAIN Target["session_attempts"] = {"session_id", "related_memory_id"}
    /\ DOMAIN Target["session_guide_usage"] = {"session_id", "guide_id"}
    /\ DOMAIN Target["session_memory_links"] = {"session_id", "memory_id"}
    /\ DOMAIN Target["feedback_log"] = {"memory_id"}
    /\ DOMAIN Target["improvement_suggestions"] = {"session_id"}
    /\ DOMAIN Target["fragments_archive"] = {}
    /\ DOMAIN Target["fragment_history"] = {"memory_id"}
BY TargetRows

LEMMA Rows ==
    \A t \in Tables : \A c \in DOMAIN Target[t] :
        /\ Target[t][c] \in MemoryRows
        /\ Ref(t, c) \in MemoryRows \cup {Gone}
        /\ Ref(t, c) = Gone <=> <<t, c>> \in image.flaws
<1>1. ASSUME NEW t \in Tables, NEW c \in DOMAIN Target[t] PROVE Target[t][c] \in MemoryRows
  BY <1>1, TargetRows, Columns DEF Tables, MemoryRows
<1> QED BY <1>1 DEF Ref, Gone, MemoryRows

LEMMA FlawKinds ==
    ASSUME NEW f \in Flaws
    PROVE  /\ f = <<f[1], f[2]>>
           /\ \/ f[1] \in {"envelope", "library"} /\ f[2] = "strict"
              \/ f = <<"unknown", "table">>
              \/ f[1] \in Tables /\ f[2] \in {"table", "strict"}
              \/ f[1] \in Tolerant /\ f[2] = "tolerated"
              \/ f[1] \in Quiet /\ f[2] = "quiet"
              \/ f[1] \in Operational /\ f[2] = "operational"
              \/ f[1] = "memories" /\ f[2] \in {"legacy_id", "column"}
              \/ f[1] \in Tables /\ f[2] \in DOMAIN Target[f[1]]
<1>1. \/ f \in {"envelope", "library"} \X {"strict"}
      \/ f \in Tables \X {"table", "strict"}
      \/ f \in Tolerant \X {"tolerated"} \/ f \in Quiet \X {"quiet"}
      \/ f \in Operational \X {"operational"}
      \/ f \in {<<"memories", "legacy_id">>, <<"memories", "column">>, <<"unknown", "table">>}
      \/ \E t \in Tables : f \in {t} \X DOMAIN Target[t]
  BY DEF Flaws
<1> QED BY <1>1

LEMMA ImageTyped ==
    ASSUME ReadInv
    PROVE  image.schema \in Nat /\ image.flaws \subseteq Flaws
BY ImportAssumption DEF ReadInv

LEMMA Introduced == \A t \in Tables : table_introduced_in[t] \in Nat
BY DEF table_introduced_in

\* A table that is not there though a pass went on is of a later schema.
LEMMA NothingMissing ==
    ASSUME ReadInv, NEW ts \in SUBSET Tables, ~TableMissing(ts), NEW f \in image.flaws,
           f[1] \in ts, f[2] = "table", NEW lost
    PROVE  Told(f, lost)
<1>1. f = <<f[1], "table">>
  BY ImageTyped, FlawKinds
<1>2. ~HasTable(f[1])
  BY <1>1 DEF HasTable
<1> QED BY <1>2 DEF Told

-----------------------------------------------------------------------------
(* What one pass does to what was told                                     *)

LEMMA ToldStays ==
    ASSUME image' = image, NEW f, NEW lost, NEW more, Told(f, lost), lost \subseteq more
    PROVE  Told(f, more)
BY DEF Told

LEMMA ToldKept ==
    ASSUME image' = image, loss \subseteq loss', NEW f, Told(f, loss)
    PROVE  Told(f, loss)'
BY DEF Told, HasTable, Unseen, Ref

LEMMA ToldNow ==
    ASSUME image' = image, NEW ts, ToldOf(ts, loss')
    PROVE  ToldOf(ts, loss)'
BY DEF ToldOf, Told, HasTable, Unseen, Ref

LEMMA ToldOfKept ==
    ASSUME image' = image, loss \subseteq loss', NEW ts, ToldOf(ts, loss)
    PROVE  ToldOf(ts, loss)'
<1>1. ToldOf(ts, loss')
  BY ToldStays DEF ToldOf
<1> QED BY <1>1, ToldNow

LEMMA DueKept ==
    ASSUME ToldInv, image' = image, NEW added, loss' = loss \cup added, \A l \in added : Due(l)
    PROVE  (\A l \in loss : Due(l))'
BY DEF ToldInv, Due

\* A refusal keeps nothing but the losses it counted.
LEMMA Refusal == ASSUME ImportInv, RefuseImage PROVE ImportInv'
<1>1. pass' = "refused" /\ UNCHANGED <<image, derived, legacies, loss, imported, restored>>
  BY DEF RefuseImage
<1> USE DEF Unread, BeforeRelations, BeforeGuides, BeforeSessions, BeforeFeedback,
        BeforeSuggestions, BeforeArchives, BeforeHistory, BeforeInternal, BeforeStaged,
        BeforeParsed
<1>2. ToldInv'
  <2>1. (\A l \in loss : Due(l))'
    BY <1>1 DEF ImportInv, ToldInv, Due
  <2> QED BY <1>1, <2>1 DEF ToldInv
<1>3. ReadInv'
  BY <1>1 DEF ImportInv, ReadInv, Passes, MemoryHolds, SessionHolds
<1>4. RestoredInv'
  BY <1>1 DEF RestoredInv
<1> QED BY <1>2, <1>3, <1>4 DEF ImportInv

\* What a pass that was not refused did.
LEMMA Passed ==
    ASSUME NEW now, NEW next, NEW refused, NEW added, NEW filled,
           Read(now, next, refused, added, filled), ~RefuseImage
    PROVE  /\ ~refused /\ pass = now /\ pass' = next /\ loss' = loss \cup added
           /\ imported' = filled /\ UNCHANGED <<image, restored>>
BY DEF Read

\* A flaw in one of a pass's tables, when it is not of a table that is missing or of a
\* value the pass insists on.
LEMMA OtherFlaws ==
    ASSUME ReadInv, NEW ts \in SUBSET Tables, NEW f \in image.flaws, f[1] \in ts,
           ~TableMissing(ts), NEW lost
    PROVE  \/ Told(f, lost)
           \/ /\ f = <<f[1], f[2]>> /\ HasTable(f[1]) /\ Flawed(f[1], f[2])
              /\ \/ f[2] = "strict"
                 \/ f[1] \in Tolerant /\ f[2] = "tolerated"
                 \/ f[1] \in Operational /\ f[2] = "operational"
                 \/ f[1] = "memories" /\ f[2] = "column"
                 \/ f[2] \in DOMAIN Target[f[1]]
<1>1. f = <<f[1], f[2]>> /\ f \in Flaws /\ f[1] \in Tables
  BY ImageTyped, FlawKinds
<1>2. CASE f[2] = "table"
  BY <1>2, NothingMissing
<1>3. CASE ~HasTable(f[1]) \/ f[2] = "quiet" \/ f = <<"memories", "legacy_id">>
  BY <1>3 DEF Told, Unseen
<1>4. CASE /\ f[2] \notin {"table", "quiet"} /\ HasTable(f[1]) /\ f # <<"memories", "legacy_id">>
  <2>1. f[1] \notin {"envelope", "library", "unknown"}
    BY <1>1 DEF Tables
  <2>2. Flawed(f[1], f[2])
    BY <1>1, <1>4 DEF Flawed
  <2> QED BY <1>1, <1>4, <2>1, <2>2, FlawKinds
<1> QED BY <1>2, <1>3, <1>4

-----------------------------------------------------------------------------
(* The passes                                                              *)

LEMMA ValidateStep == ASSUME ImportInv, Validate PROVE ImportInv'
<1>1. CASE RefuseImage
  BY <1>1, Refusal
<1>2. CASE ~RefuseImage
  <2>1. /\ ~Flawed("envelope", "strict") /\ pass = "envelope" /\ pass' = "memories"
        /\ loss' = loss /\ UNCHANGED <<image, imported, restored, derived, legacies>>
    BY <1>2, Passed DEF Validate, Read
  <2>2. ToldOf({"envelope"}, loss')
    <3> SUFFICES ASSUME NEW f \in image.flaws, f[1] = "envelope" PROVE Told(f, loss')
      BY DEF ToldOf
    <3>1. f = <<"envelope", "strict">>
      BY ImageTyped, FlawKinds DEF ImportInv, Tables, Tolerant, Quiet, Operational
    <3>2. ~HasTable("envelope")
      BY <2>1, <3>1 DEF Flawed
    <3> QED BY <3>1, <3>2 DEF Told
  <2>3. ToldInv'
    <3>1. ToldOf({"envelope"}, loss)'
      BY <2>1, <2>2, ToldNow
    <3>2. (\A l \in loss : Due(l))'
      BY <2>1 DEF ImportInv, ToldInv, Due
    <3> QED BY <2>1, <3>1, <3>2 DEF ToldInv, Unread, BeforeRelations, BeforeGuides,
                   BeforeSessions, BeforeFeedback, BeforeSuggestions, BeforeArchives,
                   BeforeHistory, BeforeInternal, BeforeStaged, BeforeParsed
  <2>4. ReadInv'
    BY <2>1 DEF ImportInv, ReadInv, Passes, MemoryHolds, SessionHolds, Unread, BeforeRelations,
       BeforeGuides, BeforeSessions
  <2>5. RestoredInv'
    BY <2>1 DEF RestoredInv
  <2> QED BY <2>3, <2>4, <2>5 DEF ImportInv
<1> QED BY <1>1, <1>2

\* A pass keeps what was told.
LEMMA Telling ==
    ASSUME ToldInv, image' = image, NEW added, loss' = loss \cup added, \A l \in added : Due(l)
    PROVE  /\ (\A l \in loss : Due(l))'
           /\ (GuideLink \in image.flaws => Told(GuideLink, loss))
                 => (GuideLink \in image.flaws => Told(GuideLink, loss))'
           /\ ToldOf({"envelope"}, loss) => ToldOf({"envelope"}, loss)'
           /\ ToldOf(OfMemories, loss) => ToldOf(OfMemories, loss)'
           /\ ToldOf({"relations"}, loss) => ToldOf({"relations"}, loss)'
           /\ ToldOf(OfGuides, loss) => ToldOf(OfGuides, loss)'
           /\ ToldOf(OfSessions, loss) => ToldOf(OfSessions, loss)'
           /\ ToldOf({"feedback_log"}, loss) => ToldOf({"feedback_log"}, loss)'
           /\ ToldOf({"improvement_suggestions"}, loss)
                 => ToldOf({"improvement_suggestions"}, loss)'
           /\ ToldOf({"fragments_archive"}, loss) => ToldOf({"fragments_archive"}, loss)'
           /\ ToldOf({"fragment_history"}, loss) => ToldOf({"fragment_history"}, loss)'
           /\ ToldOf({"unknown"}, loss) => ToldOf({"unknown"}, loss)'
           /\ ToldOf({"library"}, loss) => ToldOf({"library"}, loss)'
<1>1. loss \subseteq loss'
  OBVIOUS
<1> QED BY <1>1, DueKept, ToldKept, ToldOfKept DEF GuideLink

\* A pass that fills neither the memories, nor the relations, nor the guides.
LEMMA Elsewhere ==
    ASSUME ImportInv, UNCHANGED <<image, derived, legacies>>,
           NEW now \in Passes \ Unread, pass = now, pass' \in Passes \ {"refused", "restored"},
           pass \in BeforeRelations <=> pass' \in BeforeRelations,
           pass \in BeforeGuides <=> pass' \in BeforeGuides,
           pass \in BeforeSessions <=> pass' \in BeforeSessions,
           imported' = [memories |-> imported.memories, relations |-> imported.relations,
                   guides |-> imported.guides, sessions |-> imported'.sessions,
                   feedback |-> imported'.feedback, suggestions |-> imported'.suggestions,
                   archives |-> imported'.archives, history |-> imported'.history],
           (\A s \in imported.sessions : SessionHolds(s))', imported'.feedback \subseteq derived
    PROVE  ReadInv' /\ RestoredInv'
<1>1. RestoredInv'
  BY DEF RestoredInv
<1>2. /\ imported'.memories = imported.memories /\ imported'.relations = imported.relations
      /\ imported'.guides = imported.guides
  OBVIOUS
<1>3. (\A m \in imported.memories : MemoryHolds(m))'
  BY <1>2 DEF ImportInv, ReadInv, MemoryHolds
<1>4. (<<Ref("relations", "source_id"), Ref("relations", "target_id")>>)'
         = <<Ref("relations", "source_id"), Ref("relations", "target_id")>>
  BY DEF Ref
<1>5. pass \notin {"refused"} /\ pass' # "refused"
  BY DEF Unread
<1> QED BY <1>1, <1>2, <1>3, <1>4, <1>5 DEF ImportInv, ReadInv

LEMMA RelationsStep == ASSUME ImportInv, ReadRelations PROVE ImportInv'
<1>1. CASE RefuseImage
  BY <1>1, Refusal
<1>2. CASE ~RefuseImage
  <2>1. /\ ~(TableMissing({"relations"}) \/ Flawed("relations", "strict"))
        /\ pass = "relations" /\ pass' = "guides" /\ loss' = loss \cup {}
        /\ imported' = [imported EXCEPT !.relations =
                           {<<Ref("relations", "source_id"), Ref("relations", "target_id")>>}]
        /\ UNCHANGED <<image, restored, derived, legacies>>
    BY <1>2, Passed DEF ReadRelations, Read
  <2>2. ToldOf({"relations"}, loss')
    <3> SUFFICES ASSUME NEW f \in image.flaws, f[1] = "relations" PROVE Told(f, loss')
      BY DEF ToldOf
    <3>1. Told(f, loss') \/ f[2] \in {"source_id", "target_id"}
      <4>1. {"relations"} \in SUBSET Tables
        BY DEF Tables
      <4> QED BY <2>1, <4>1, OtherFlaws, Columns DEF ImportInv, Tolerant, Operational
    <3> QED BY <3>1 DEF Told
  <2>3. ToldInv'
    <3>1. ToldOf({"relations"}, loss)'
      BY <2>1, <2>2, ToldNow
    <3> QED BY <2>1, <3>1, Telling DEF ImportInv, ToldInv, Unread, BeforeRelations,
              BeforeGuides, BeforeSessions, BeforeFeedback, BeforeSuggestions, BeforeArchives,
              BeforeHistory, BeforeInternal, BeforeStaged, BeforeParsed
  <2>4. ReadInv'
    <3>1. imported' = [memories |-> imported.memories,
                   relations |->
                     {<<Ref("relations", "source_id"), Ref("relations", "target_id")>>},
                   guides |-> imported.guides, sessions |-> imported.sessions,
                   feedback |-> imported.feedback, suggestions |-> imported.suggestions,
                   archives |-> imported.archives, history |-> imported.history]
      BY <2>1 DEF ImportInv, ReadInv
    <3>2. (<<Ref("relations", "source_id"), Ref("relations", "target_id")>>)'
             = <<Ref("relations", "source_id"), Ref("relations", "target_id")>>
      BY <2>1 DEF Ref
    <3>3. /\ (\A m \in imported.memories : MemoryHolds(m))'
          /\ (\A s \in imported.sessions : SessionHolds(s))'
      BY <2>1, <3>1 DEF ImportInv, ReadInv, MemoryHolds, SessionHolds
    <3> QED BY <2>1, <3>1, <3>2, <3>3 DEF ImportInv, ReadInv, Passes, Unread,
              BeforeRelations, BeforeGuides, BeforeSessions
  <2>5. RestoredInv'
    BY <2>1 DEF RestoredInv
  <2> QED BY <2>3, <2>4, <2>5 DEF ImportInv
<1> QED BY <1>1, <1>2

LEMMA InternalStep == ASSUME ImportInv, ReadInternal PROVE ImportInv'
<1>1. CASE RefuseImage
  BY <1>1, Refusal
<1>2. CASE ~RefuseImage
  <2>1. /\ pass = "internal" /\ pass' = "staged"
        /\ loss' = loss \cup
              (IF HasTable("unknown") THEN {} ELSE {<<"unknown_table", "unknown", "table">>})
        /\ imported' = imported
        /\ UNCHANGED <<image, restored, derived, legacies>>
    BY <1>2, Passed DEF ReadInternal, Read
  <2>2. ToldOf({"unknown"}, loss')
    <3> SUFFICES ASSUME NEW f \in image.flaws, f[1] = "unknown" PROVE Told(f, loss')
      BY DEF ToldOf
    <3>1. f = <<"unknown", "table">>
      BY ImageTyped, FlawKinds DEF ImportInv, Tables, Tolerant, Quiet, Operational
    <3>2. ~HasTable("unknown")
      BY <3>1 DEF HasTable
    <3> QED BY <3>1, <3>2 DEF Told
  <2>3. \A l \in (IF HasTable("unknown") THEN {} ELSE {<<"unknown_table", "unknown", "table">>}) :
           Due(l)
    <3>1. <<"unknown", "table">> \in Flaws
      BY DEF Flaws
    <3> QED BY <3>1 DEF Due, HasTable
  <2>4. ToldInv'
    <3>1. ToldOf({"unknown"}, loss)'
      BY <2>1, <2>2, ToldNow
    <3> QED BY <2>1, <2>3, <3>1, Telling DEF ImportInv, ToldInv, Unread, BeforeRelations,
              BeforeGuides, BeforeSessions, BeforeFeedback, BeforeSuggestions, BeforeArchives,
              BeforeHistory, BeforeInternal, BeforeStaged, BeforeParsed
  <2>5. ReadInv' /\ RestoredInv'
    <3>1. imported' = [memories |-> imported.memories, relations |-> imported.relations,
                   guides |-> imported.guides, sessions |-> imported.sessions,
                   feedback |-> imported.feedback, suggestions |-> imported.suggestions,
                   archives |-> imported.archives, history |-> imported.history]
      BY <2>1 DEF ImportInv, ReadInv
    <3>2. (\A s \in imported.sessions : SessionHolds(s))'
      BY <2>1, <3>1 DEF ImportInv, ReadInv, SessionHolds
    <3>3. imported'.feedback \subseteq derived
      BY <2>1, <3>1 DEF ImportInv, ReadInv
    <3> QED BY <2>1, <3>1, <3>2, <3>3, Elsewhere DEF Passes, Unread, BeforeRelations,
               BeforeGuides, BeforeSessions
  <2> QED BY <2>4, <2>5 DEF ImportInv
<1> QED BY <1>1, <1>2

LEMMA ParseStep == ASSUME ImportInv, Parse PROVE ImportInv'
<1>1. CASE RefuseImage
  BY <1>1, Refusal
<1>2. CASE ~RefuseImage
  <2>1. /\ ~Flawed("library", "strict")
        /\ pass = "staged" /\ pass' = "parsed"
        /\ loss' = loss \cup {}
        /\ imported' = imported
        /\ UNCHANGED <<image, restored, derived, legacies>>
    BY <1>2, Passed DEF Parse, Read
  <2>2. ToldOf({"library"}, loss')
    <3> SUFFICES ASSUME NEW f \in image.flaws, f[1] = "library" PROVE Told(f, loss')
      BY DEF ToldOf
    <3>1. f = <<"library", "strict">>
      BY ImageTyped, FlawKinds DEF ImportInv, Tables, Tolerant, Quiet, Operational
    <3>2. ~HasTable("library")
      BY <2>1, <3>1 DEF Flawed
    <3> QED BY <3>1, <3>2 DEF Told
  <2>3. \A l \in {} : Due(l)
    OBVIOUS
  <2>4. ToldInv'
    <3>1. ToldOf({"library"}, loss)'
      BY <2>1, <2>2, ToldNow
    <3> QED BY <2>1, <2>3, <3>1, Telling DEF ImportInv, ToldInv, Unread, BeforeRelations,
              BeforeGuides, BeforeSessions, BeforeFeedback, BeforeSuggestions, BeforeArchives,
              BeforeHistory, BeforeInternal, BeforeStaged, BeforeParsed
  <2>5. ReadInv' /\ RestoredInv'
    <3>1. imported' = [memories |-> imported.memories, relations |-> imported.relations,
                   guides |-> imported.guides, sessions |-> imported.sessions,
                   feedback |-> imported.feedback, suggestions |-> imported.suggestions,
                   archives |-> imported.archives, history |-> imported.history]
      BY <2>1 DEF ImportInv, ReadInv
    <3>2. (\A s \in imported.sessions : SessionHolds(s))'
      BY <2>1, <3>1 DEF ImportInv, ReadInv, SessionHolds
    <3>3. imported'.feedback \subseteq derived
      BY <2>1, <3>1 DEF ImportInv, ReadInv
    <3> QED BY <2>1, <3>1, <3>2, <3>3, Elsewhere DEF Passes, Unread, BeforeRelations,
               BeforeGuides, BeforeSessions
  <2> QED BY <2>4, <2>5 DEF ImportInv
<1> QED BY <1>1, <1>2

LEMMA SuggestionsStep == ASSUME ImportInv, ReadSuggestions PROVE ImportInv'
<1>1. CASE RefuseImage
  BY <1>1, Refusal
<1>2. CASE ~RefuseImage
  <2>1. /\ ~TableMissing({"improvement_suggestions"})
        /\ ~Flawed("improvement_suggestions", "strict")
        /\ pass = "suggestions" /\ pass' = "archives"
        /\ loss' = loss \cup Counted("tolerated", "improvement_suggestions", "tolerated")
        /\ imported' = [imported EXCEPT !.suggestions =
                           (IF HasTable("improvement_suggestions")
                              THEN {Ref("improvement_suggestions", "session_id")} ELSE {})]
        /\ UNCHANGED <<image, restored, derived, legacies>>
    BY <1>2, Passed DEF ReadSuggestions, Read
  <2>2. ToldOf({"improvement_suggestions"}, loss')
    <3> SUFFICES ASSUME NEW f \in image.flaws, f[1] = "improvement_suggestions"
                 PROVE  Told(f, loss')
      BY DEF ToldOf
    <3>1. {"improvement_suggestions"} \in SUBSET Tables
      BY DEF Tables
    <3>2. CASE f[2] = "tolerated" /\ f = <<f[1], f[2]>> /\ Flawed(f[1], f[2])
      <4>1. <<"tolerated", "improvement_suggestions", "tolerated">> \in loss'
        BY <2>1, <3>2 DEF Counted
      <4>2. f = <<"improvement_suggestions", "tolerated">>
        BY <3>2
      <4> QED BY <4>1, <4>2 DEF Told
    <3>3. CASE f[2] = "session_id" /\ f[1] = "improvement_suggestions"
      BY <3>3 DEF Told, Unseen
    <3> QED BY <2>1, <3>1, <3>2, <3>3, OtherFlaws, Columns DEF ImportInv, Tolerant, Operational
  <2>3. \A l \in Counted("tolerated", "improvement_suggestions", "tolerated") : Due(l)
    <3>1. <<"improvement_suggestions", "tolerated">> \in Flaws
      BY DEF Flaws, Tolerant
    <3> QED BY <3>1 DEF Due, Counted, Flawed
  <2>4. ToldInv'
    <3>1. ToldOf({"improvement_suggestions"}, loss)'
      BY <2>1, <2>2, ToldNow
    <3> QED BY <2>1, <2>3, <3>1, Telling DEF ImportInv, ToldInv, Unread, BeforeRelations,
              BeforeGuides, BeforeSessions, BeforeFeedback, BeforeSuggestions, BeforeArchives,
              BeforeHistory, BeforeInternal, BeforeStaged, BeforeParsed
  <2>5. ReadInv' /\ RestoredInv'
    <3>1. imported' = [memories |-> imported.memories, relations |-> imported.relations,
                   guides |-> imported.guides, sessions |-> imported.sessions,
                   feedback |-> imported.feedback,
                   suggestions |-> (IF HasTable("improvement_suggestions")
                              THEN {Ref("improvement_suggestions", "session_id")} ELSE {}),
                   archives |-> imported.archives, history |-> imported.history]
      BY <2>1 DEF ImportInv, ReadInv
    <3>2. (\A s \in imported.sessions : SessionHolds(s))'
      BY <2>1, <3>1 DEF ImportInv, ReadInv, SessionHolds
    <3>3. imported'.feedback \subseteq derived
      BY <2>1, <3>1 DEF ImportInv, ReadInv
    <3> QED BY <2>1, <3>1, <3>2, <3>3, Elsewhere DEF Passes, Unread, BeforeRelations,
               BeforeGuides, BeforeSessions
  <2> QED BY <2>4, <2>5 DEF ImportInv
<1> QED BY <1>1, <1>2

LEMMA ArchivesStep == ASSUME ImportInv, ReadArchives PROVE ImportInv'
<1>1. CASE RefuseImage
  BY <1>1, Refusal
<1>2. CASE ~RefuseImage
  <2>1. /\ ~(TableMissing({"fragments_archive"}) \/ Flawed("fragments_archive", "strict"))
        /\ pass = "archives" /\ pass' = "history"
        /\ loss' = loss \cup Counted("tolerated", "fragments_archive", "tolerated")
        /\ imported' = [imported EXCEPT !.archives =
                           (IF HasTable("fragments_archive") THEN {1} ELSE {})]
        /\ UNCHANGED <<image, restored, derived, legacies>>
    BY <1>2, Passed DEF ReadArchives, Read
  <2>2. ToldOf({"fragments_archive"}, loss')
    <3> SUFFICES ASSUME NEW f \in image.flaws, f[1] = "fragments_archive" PROVE Told(f, loss')
      BY DEF ToldOf
    <3>1. {"fragments_archive"} \in SUBSET Tables
      BY DEF Tables
    <3>2. CASE f[2] = "tolerated" /\ f = <<f[1], f[2]>> /\ Flawed(f[1], f[2])
      <4>1. <<"tolerated", "fragments_archive", "tolerated">> \in loss'
        BY <2>1, <3>2 DEF Counted
      <4>2. f = <<"fragments_archive", "tolerated">>
        BY <3>2
      <4> QED BY <4>1, <4>2 DEF Told
    <3> QED BY <2>1, <3>1, <3>2, OtherFlaws, Columns DEF ImportInv, Tolerant, Operational
  <2>3. \A l \in Counted("tolerated", "fragments_archive", "tolerated") : Due(l)
    <3>1. <<"fragments_archive", "tolerated">> \in Flaws
      BY DEF Flaws, Tolerant
    <3> QED BY <3>1 DEF Due, Counted, Flawed
  <2>4. ToldInv'
    <3>1. ToldOf({"fragments_archive"}, loss)'
      BY <2>1, <2>2, ToldNow
    <3> QED BY <2>1, <2>3, <3>1, Telling DEF ImportInv, ToldInv, Unread, BeforeRelations,
              BeforeGuides, BeforeSessions, BeforeFeedback, BeforeSuggestions, BeforeArchives,
              BeforeHistory, BeforeInternal, BeforeStaged, BeforeParsed
  <2>5. ReadInv' /\ RestoredInv'
    <3>1. imported' = [memories |-> imported.memories, relations |-> imported.relations,
                   guides |-> imported.guides, sessions |-> imported.sessions,
                   feedback |-> imported.feedback, suggestions |-> imported.suggestions,
                   archives |-> (IF HasTable("fragments_archive") THEN {1} ELSE {}),
                   history |-> imported.history]
      BY <2>1 DEF ImportInv, ReadInv
    <3>2. (\A s \in imported.sessions : SessionHolds(s))'
      BY <2>1, <3>1 DEF ImportInv, ReadInv, SessionHolds
    <3>3. imported'.feedback \subseteq derived
      BY <2>1, <3>1 DEF ImportInv, ReadInv
    <3> QED BY <2>1, <3>1, <3>2, <3>3, Elsewhere DEF Passes, Unread, BeforeRelations,
               BeforeGuides, BeforeSessions
  <2> QED BY <2>4, <2>5 DEF ImportInv
<1> QED BY <1>1, <1>2

LEMMA FeedbackStep == ASSUME ImportInv, ReadFeedback PROVE ImportInv'
<1>1. CASE RefuseImage
  BY <1>1, Refusal
<1>2. CASE ~RefuseImage
  <2>1. /\ ~(TableMissing({"feedback_log"})
             \/ (Ref("feedback_log", "memory_id") \in derived
                 /\ Flawed("feedback_log", "strict")))
        /\ pass = "feedback" /\ pass' = "suggestions"
        /\ loss' = loss \cup
              (IF Ref("feedback_log", "memory_id") \in derived
                 THEN Counted("dropped_operational_fields", "feedback_log", "operational")
                 ELSE {<<"dangling_feedback_memory", "feedback_log", "memory_id">>})
        /\ imported' = [imported EXCEPT !.feedback =
                           ({Ref("feedback_log", "memory_id")} \cap derived)]
        /\ UNCHANGED <<image, restored, derived, legacies>>
    BY <1>2, Passed DEF ReadFeedback, Read
  <2>2. ToldOf({"feedback_log"}, loss')
    <3> SUFFICES ASSUME NEW f \in image.flaws, f[1] = "feedback_log" PROVE Told(f, loss')
      BY DEF ToldOf
    <3>1. /\ {"feedback_log"} \in SUBSET Tables /\ Gone \notin derived
          /\ "memory_id" \in DOMAIN Target["feedback_log"]
      BY Columns DEF ImportInv, ReadInv, MemoryRows, Gone, Tables
    <3>2. CASE Ref("feedback_log", "memory_id") \notin derived
      <4>1. CASE HasTable("feedback_log")
        <5>1. <<"dangling_feedback_memory", "feedback_log", "memory_id">> \in loss'
          BY <2>1, <3>2, <4>1
        <5>2. <<"feedback_log", "memory_id">> \in {<<l[2], l[3]>> : l \in loss'}
          BY <5>1
        <5> QED BY <5>2 DEF Told
      <4> QED BY <4>1 DEF Told
    <3>3. CASE Ref("feedback_log", "memory_id") \in derived
      <4>1. CASE f[2] = "memory_id" /\ f = <<f[1], f[2]>>
        BY <3>1, <3>3, <4>1, Rows DEF Tables
      <4>2. CASE f[2] = "operational" /\ f = <<f[1], f[2]>> /\ Flawed(f[1], f[2])
        <5>1. <<"dropped_operational_fields", "feedback_log", "operational">> \in loss'
          BY <2>1, <3>3, <4>2 DEF Counted
        <5>2. f = <<"feedback_log", "operational">>
          BY <4>2
        <5> QED BY <5>1, <5>2 DEF Told
      <4> QED BY <2>1, <3>1, <3>3, <4>1, <4>2, OtherFlaws, Columns
             DEF ImportInv, Tolerant, Operational
    <3> QED BY <3>2, <3>3
  <2>3. \A l \in (IF Ref("feedback_log", "memory_id") \in derived
                  THEN Counted("dropped_operational_fields", "feedback_log", "operational")
                  ELSE {<<"dangling_feedback_memory", "feedback_log", "memory_id">>}) : Due(l)
    <3>1. /\ <<"feedback_log", "memory_id">> \in Flaws
          /\ "feedback_log" \in Tables /\ "memory_id" \in DOMAIN Target["feedback_log"]
      BY Columns DEF Flaws, Tables
    <3>2. Ref("feedback_log", "memory_id") \notin derived
             => <<"feedback_log", "memory_id">> \in image.flaws
      BY <2>1, <3>1, Rows DEF ImportInv, ReadInv, Unread, BeforeRelations
    <3>3. <<"feedback_log", "operational">> \in Flaws
      BY DEF Flaws, Operational
    <3> QED BY <3>1, <3>2, <3>3 DEF Due, Counted, Flawed
  <2>4. ToldInv'
    <3>1. ToldOf({"feedback_log"}, loss)'
      BY <2>1, <2>2, ToldNow
    <3> QED BY <2>1, <2>3, <3>1, Telling DEF ImportInv, ToldInv, Unread, BeforeRelations,
              BeforeGuides, BeforeSessions, BeforeFeedback, BeforeSuggestions, BeforeArchives,
              BeforeHistory, BeforeInternal, BeforeStaged, BeforeParsed
  <2>5. ReadInv' /\ RestoredInv'
    <3>1. imported' = [memories |-> imported.memories, relations |-> imported.relations,
                   guides |-> imported.guides, sessions |-> imported.sessions,
                   feedback |-> ({Ref("feedback_log", "memory_id")} \cap derived),
                   suggestions |-> imported.suggestions,
                   archives |-> imported.archives, history |-> imported.history]
      BY <2>1 DEF ImportInv, ReadInv
    <3>2. (\A s \in imported.sessions : SessionHolds(s))'
      BY <2>1, <3>1 DEF ImportInv, ReadInv, SessionHolds
    <3>3. imported'.feedback \subseteq derived
      BY <2>1, <3>1 DEF ImportInv, ReadInv
    <3> QED BY <2>1, <3>1, <3>2, <3>3, Elsewhere DEF Passes, Unread, BeforeRelations,
               BeforeGuides, BeforeSessions
  <2> QED BY <2>4, <2>5 DEF ImportInv
<1> QED BY <1>1, <1>2

LEMMA HistoryStep == ASSUME ImportInv, ReadHistory PROVE ImportInv'
<1>1. CASE RefuseImage
  BY <1>1, Refusal
<1>2. CASE ~RefuseImage
  <2>1. /\ ~(TableMissing({"fragment_history"})
             \/ (Ref("fragment_history", "memory_id") \in derived
                 /\ Flawed("fragment_history", "strict")))
        /\ pass = "history" /\ pass' = "internal"
        /\ loss' = loss \cup
              (IF /\ HasTable("fragment_history")
                  /\ ~(Ref("fragment_history", "memory_id") \in derived)
                 THEN {<<"dangling_history_memory", "fragment_history", "memory_id">>}
                 ELSE {})
        /\ imported' = [imported EXCEPT !.history =
                           (IF HasTable("fragment_history")
                              THEN {Ref("fragment_history", "memory_id")} \cap derived ELSE {})]
        /\ UNCHANGED <<image, restored, derived, legacies>>
    BY <1>2, Passed DEF ReadHistory, Read
  <2>2. ToldOf({"fragment_history"}, loss')
    <3> SUFFICES ASSUME NEW f \in image.flaws, f[1] = "fragment_history" PROVE Told(f, loss')
      BY DEF ToldOf
    <3>1. /\ {"fragment_history"} \in SUBSET Tables /\ Gone \notin derived
          /\ "memory_id" \in DOMAIN Target["fragment_history"]
      BY Columns DEF ImportInv, ReadInv, MemoryRows, Gone, Tables
    <3>2. CASE Ref("fragment_history", "memory_id") \notin derived
      <4>1. CASE HasTable("fragment_history")
        <5>1. <<"dangling_history_memory", "fragment_history", "memory_id">> \in loss'
          BY <2>1, <3>2, <4>1
        <5>2. <<"fragment_history", "memory_id">> \in {<<l[2], l[3]>> : l \in loss'}
          BY <5>1
        <5> QED BY <5>2 DEF Told
      <4> QED BY <4>1 DEF Told
    <3>3. CASE Ref("fragment_history", "memory_id") \in derived
      <4>1. CASE f[2] = "memory_id" /\ f = <<f[1], f[2]>>
        BY <3>1, <3>3, <4>1, Rows DEF Tables
      <4> QED BY <2>1, <3>1, <3>3, <4>1, OtherFlaws, Columns DEF ImportInv, Tolerant, Operational
    <3> QED BY <3>2, <3>3
  <2>3. \A l \in (IF /\ HasTable("fragment_history")
                     /\ ~(Ref("fragment_history", "memory_id") \in derived)
                  THEN {<<"dangling_history_memory", "fragment_history", "memory_id">>}
                  ELSE {}) : Due(l)
    <3>1. /\ <<"fragment_history", "memory_id">> \in Flaws
          /\ "fragment_history" \in Tables /\ "memory_id" \in DOMAIN Target["fragment_history"]
      BY Columns DEF Flaws, Tables
    <3>2. Ref("fragment_history", "memory_id") \notin derived
             => <<"fragment_history", "memory_id">> \in image.flaws
      BY <2>1, <3>1, Rows DEF ImportInv, ReadInv, Unread, BeforeRelations
    <3> QED BY <3>1, <3>2 DEF Due, Counted, Flawed
  <2>4. ToldInv'
    <3>1. ToldOf({"fragment_history"}, loss)'
      BY <2>1, <2>2, ToldNow
    <3>2. /\ pass \notin BeforeHistory /\ pass' \in BeforeStaged /\ pass' \in BeforeParsed
          /\ \A P \in {Unread, BeforeRelations, BeforeGuides, BeforeSessions, BeforeFeedback,
                      BeforeSuggestions, BeforeArchives} : pass \notin P
      BY <2>1 DEF Unread, BeforeRelations, BeforeGuides, BeforeSessions, BeforeFeedback,
         BeforeSuggestions, BeforeArchives, BeforeHistory, BeforeInternal, BeforeStaged,
         BeforeParsed
    <3>3. /\ ToldInv /\ image' = image /\ (\A l \in loss : Due(l))'
          /\ (GuideLink \in image.flaws => Told(GuideLink, loss))'
          /\ ToldOf({"envelope"}, loss)' /\ ToldOf(OfMemories, loss)'
          /\ ToldOf({"relations"}, loss)' /\ ToldOf(OfGuides, loss)'
          /\ ToldOf(OfSessions, loss)' /\ ToldOf({"feedback_log"}, loss)'
          /\ ToldOf({"improvement_suggestions"}, loss)'
          /\ ToldOf({"fragments_archive"}, loss)'
      BY <2>1, <2>3, <3>2, Telling DEF ImportInv, ToldInv
    <3> QED BY <3>1, <3>2, <3>3 DEF ToldInv
  <2>5. ReadInv' /\ RestoredInv'
    <3>1. imported' = [memories |-> imported.memories, relations |-> imported.relations,
                   guides |-> imported.guides, sessions |-> imported.sessions,
                   feedback |-> imported.feedback, suggestions |-> imported.suggestions,
                   archives |-> imported.archives, history |-> (IF HasTable("fragment_history")
                              THEN {Ref("fragment_history", "memory_id")} \cap derived ELSE {})]
      BY <2>1 DEF ImportInv, ReadInv
    <3>2. (\A s \in imported.sessions : SessionHolds(s))'
      BY <2>1, <3>1 DEF ImportInv, ReadInv, SessionHolds
    <3>3. imported'.feedback \subseteq derived
      BY <2>1, <3>1 DEF ImportInv, ReadInv
    <3> QED BY <2>1, <3>1, <3>2, <3>3, Elsewhere DEF Passes, Unread, BeforeRelations,
               BeforeGuides, BeforeSessions
  <2> QED BY <2>4, <2>5 DEF ImportInv
<1> QED BY <1>1, <1>2

LEMMA InFlaws ==
    /\ \A t \in Tables : \A c \in DOMAIN Target[t] : <<t, c>> \in Flaws
    /\ \A t \in Tolerant : <<t, "tolerated">> \in Flaws
    /\ \A t \in Operational : <<t, "operational">> \in Flaws
    /\ <<"memories", "column">> \in Flaws
BY DEF Flaws

\* What is counted for a flaw is due, and tells of it.
LEMMA CountedDue ==
    ASSUME NEW kind, NEW t, NEW c, <<t, c>> \in Flaws, NEW l \in Counted(kind, t, c)
    PROVE  Due(l)
BY DEF Counted, Flawed, Due

LEMMA CountedTells ==
    ASSUME NEW kind, NEW t, NEW c, Flawed(t, c), NEW lost, Counted(kind, t, c) \subseteq lost
    PROVE  Told(<<t, c>>, lost)
<1>1. <<kind, t, c>> \in lost
  BY DEF Counted
<1>2. <<t, c>> \in {<<l[2], l[3]>> : l \in lost}
  BY <1>1
<1> QED BY <1>2 DEF Told

\* A row that is lost because what it refers to is not there.
LEMMA DanglingTells ==
    ASSUME NEW kind, NEW t, NEW c, NEW lost, <<kind, t, c>> \in lost
    PROVE  Told(<<t, c>>, lost)
<1>1. <<t, c>> \in {<<l[2], l[3]>> : l \in lost}
  OBVIOUS
<1> QED BY <1>1 DEF Told

LEMMA DanglingDue ==
    ASSUME NEW kind, NEW t \in Tables, NEW c \in DOMAIN Target[t], Ref(t, c) = Gone
    PROVE  Due(<<kind, t, c>>)
BY Rows, InFlaws DEF Due

LEMMA GuidesStep == ASSUME ImportInv, ReadGuides PROVE ImportInv'
<1>1. CASE RefuseImage
  BY <1>1, Refusal
<1>2. CASE ~RefuseImage
  <2> DEFINE new == {[row |-> 1, sources |-> SourceMemories,
                  validated |-> {Ref("guides", "validated_by")},
                  contexts |-> {1} \cap {Ref("guide_contexts", "guide_id")},
                  learnings |-> {1} \cap {Ref("guide_learnings", "guide_id")}]}
  <2>1. /\ ~TableMissing(OfGuides) /\ \A t \in OfGuides : ~Flawed(t, "strict")
        /\ pass = "guides" /\ pass' = "sessions" /\ loss' = loss \cup GuideLosses
        /\ imported' = [imported EXCEPT !.guides = new]
        /\ UNCHANGED <<image, restored, derived, legacies>>
    BY <1>2, Passed DEF ReadGuides, Read, OfGuides
  <2>2. /\ derived = MemoryRows /\ legacies \subseteq MemoryRows
        /\ Gone \notin derived /\ Gone \notin legacies
    BY <2>1 DEF ImportInv, ReadInv, Unread, BeforeRelations, MemoryRows, Gone
  <2>d. new = {[row |-> 1, sources |-> SourceMemories,
                  validated |-> {Ref("guides", "validated_by")},
                  contexts |-> {1} \cap {Ref("guide_contexts", "guide_id")},
                  learnings |-> {1} \cap {Ref("guide_learnings", "guide_id")}]}
    OBVIOUS
  <2> HIDE DEF new
  <2>3. /\ Counted("tolerated", "guides", "tolerated") \subseteq loss'
        /\ Counted("dropped_operational_fields", "guides", "operational") \subseteq loss'
        /\ \A c \in {"source_memories", "validated_by"} :
              Ref("guides", c) \notin legacies => <<"dangling_guide_link", "guides", c>> \in loss'
        /\ Ref("guide_memory_links", "source_guide") = 1
           /\ Ref("guide_memory_links", "source_memory") \notin derived
              => <<"dangling_guide_link", "guide_memory_links", "source_memory">> \in loss'
    BY <2>1 DEF GuideLosses
  <2>4. ToldOf(OfGuides, loss')
    <3> SUFFICES ASSUME NEW f \in image.flaws, f[1] \in OfGuides PROVE Told(f, loss')
      BY DEF ToldOf
    <3>0. OfGuides \in SUBSET Tables
      BY DEF OfGuides, Tables
    <3>a. f = <<f[1], f[2]>>
      BY ImageTyped, FlawKinds DEF ImportInv
    <3>1. CASE f[2] = "tolerated" /\ Flawed(f[1], f[2]) /\ f[1] = "guides"
      BY <2>3, <3>a, <3>1, CountedTells
    <3>2. CASE f[2] = "operational" /\ Flawed(f[1], f[2]) /\ f[1] = "guides"
      BY <2>3, <3>a, <3>2, CountedTells
    <3>3. CASE f[1] = "guides" /\ f[2] \in DOMAIN Target["guides"]
      <4>1. Ref("guides", f[2]) = Gone
        BY <3>a, <3>3, Rows DEF Tables
      <4> QED BY <2>2, <2>3, <3>a, <3>3, <4>1, Columns, DanglingTells
    <3>4. CASE f[1] \in {"guide_contexts", "guide_learnings"} /\ f[2] \in DOMAIN Target[f[1]]
      BY <3>4, Columns DEF Told, Unseen
    <3>5. CASE f[1] = "guide_memory_links" /\ f[2] \in DOMAIN Target[f[1]]
      <4>1. CASE f[2] = "related_guide"
        <5>1. Told(GuideLink, loss)
          BY <2>1, <3>a, <3>5, <4>1 DEF ImportInv, ToldInv, GuideLink, Unread, BeforeRelations
        <5> QED BY <2>1, <3>a, <3>5, <4>1, <5>1, ToldStays DEF GuideLink
      <4>2. CASE f[2] \in {"related_memory", "source_guide"}
        BY <3>5, <4>2 DEF Told, Unseen
      <4>3. CASE f[2] = "source_memory"
        <5>1. Ref("guide_memory_links", "source_memory") = Gone
          BY <3>a, <3>5, <4>3, Rows, Columns DEF Tables
        <5>2. CASE Ref("guide_memory_links", "source_guide") = Gone
          BY <3>5, <4>3, <5>2 DEF Told, Unseen
        <5>3. CASE Ref("guide_memory_links", "source_guide") # Gone
          <6>1. Ref("guide_memory_links", "source_guide") = 1
            BY <5>3, TargetRows DEF Ref
          <6> QED BY <2>2, <2>3, <3>a, <3>5, <4>3, <5>1, <6>1, DanglingTells
        <5> QED BY <5>2, <5>3
      <4> QED BY <3>5, <4>1, <4>2, <4>3, Columns
    <3>6. \/ Told(f, loss')
          \/ f[1] \in Tolerant /\ f[2] = "tolerated" /\ Flawed(f[1], f[2])
          \/ f[1] \in Operational /\ f[2] = "operational" /\ Flawed(f[1], f[2])
          \/ f[2] \in DOMAIN Target[f[1]]
      BY <2>1, <3>0, OtherFlaws DEF ImportInv, OfGuides
    <3> QED BY <3>1, <3>2, <3>3, <3>4, <3>5, <3>6 DEF OfGuides, Tolerant, Operational
  <2>5. \A l \in GuideLosses : Due(l)
    <3> SUFFICES ASSUME NEW l \in GuideLosses PROVE Due(l)
      OBVIOUS
    <3>1. CASE \/ l \in Counted("tolerated", "guides", "tolerated")
               \/ l \in Counted("dropped_operational_fields", "guides", "operational")
      BY <3>1, CountedDue, InFlaws DEF Tolerant, Operational
    <3>2. ASSUME NEW c \in {"source_memories", "validated_by"}, Ref("guides", c) \notin legacies
          PROVE  Due(<<"dangling_guide_link", "guides", c>>)
      <4>1. <<"guides", c>> \in Flaws
        BY Columns, InFlaws DEF Tables
      <4>2. CASE Ref("guides", c) = Gone
        BY <4>2, Columns, DanglingDue DEF Tables
      <4>3. CASE Ref("guides", c) # Gone
        <5>1. Ref("guides", c) = 1
          BY <4>3, TargetRows DEF Ref
        <5>2. legacies # MemoryRows
          BY <3>2, <5>1 DEF MemoryRows
        <5>3. <<"memories", "legacy_id">> \in image.flaws
          BY <2>1, <5>2 DEF ImportInv, ReadInv, Unread, BeforeRelations
        <5> QED BY <4>1, <5>3 DEF Due
      <4> QED BY <4>2, <4>3
    <3>3. CASE /\ l = <<"dangling_guide_link", "guide_memory_links", "source_memory">>
               /\ Ref("guide_memory_links", "source_memory") \notin derived
      <4>1. Ref("guide_memory_links", "source_memory") = Gone
        BY <2>2, <3>3, Rows, Columns DEF Tables
      <4> QED BY <3>3, <4>1, Columns, DanglingDue DEF Tables
    <3> QED BY <3>1, <3>2, <3>3 DEF GuideLosses
  <2>6. ToldInv'
    <3>1. ToldOf(OfGuides, loss)'
      BY <2>1, <2>4, ToldNow
    <3> QED BY <2>1, <2>5, <3>1, Telling DEF ImportInv, ToldInv, Unread, BeforeRelations,
              BeforeGuides, BeforeSessions, BeforeFeedback, BeforeSuggestions, BeforeArchives,
              BeforeHistory, BeforeInternal, BeforeStaged, BeforeParsed
  <2>7. ReadInv'
    <3>1. imported' = [memories |-> imported.memories, relations |-> imported.relations,
                       guides |-> new, sessions |-> imported.sessions,
                       feedback |-> imported.feedback, suggestions |-> imported.suggestions,
                       archives |-> imported.archives, history |-> imported.history]
      BY <2>1 DEF ImportInv, ReadInv
    <3>2. (<<Ref("relations", "source_id"), Ref("relations", "target_id")>>)'
             = <<Ref("relations", "source_id"), Ref("relations", "target_id")>>
      BY <2>1 DEF Ref
    <3>3. /\ (\A m \in imported.memories : MemoryHolds(m))'
          /\ (\A s \in imported.sessions : SessionHolds(s))'
      BY <2>1, <3>1 DEF ImportInv, ReadInv, MemoryHolds, SessionHolds
    <3>4. SourceMemories \subseteq derived
      BY DEF SourceMemories, ImportInv, ReadInv
    <3>5. {g.row : g \in new} = {1} /\ \A g \in new : g.sources \subseteq derived
      BY <2>d, <3>4
    <3> QED BY <2>1, <3>1, <3>2, <3>3, <3>5 DEF ImportInv, ReadInv, Passes, Unread,
              BeforeRelations, BeforeGuides, BeforeSessions
  <2>8. RestoredInv'
    BY <2>1 DEF RestoredInv
  <2> QED BY <2>6, <2>7, <2>8 DEF ImportInv
<1> QED BY <1>1, <1>2

LEMMA SessionsStep == ASSUME ImportInv, ReadSessions PROVE ImportInv'
<1>1. CASE RefuseImage
  BY <1>1, Refusal
<1>2. CASE ~RefuseImage
  <2> DEFINE Owned == {"session_attempts", "session_guide_usage", "session_memory_links"}
  <2>1. /\ ~TableMissing(OfSessions \cup {"guides"}) /\ ~Flawed("sessions", "strict")
        /\ \A t \in Owned : ~(OfSession(t) /\ Flawed(t, "strict"))
        /\ pass = "sessions" /\ pass' = "feedback" /\ loss' = loss \cup SessionLosses
        /\ imported' = [imported EXCEPT !.sessions = {SessionOf}]
        /\ UNCHANGED <<image, restored, derived, legacies>>
    <3>1. OfSessions \cup {"guides"} = {"sessions", "session_attempts", "session_guide_usage",
                        "session_memory_links", "guides"}
      BY DEF OfSessions
    <3> QED BY <1>2, <3>1, Passed DEF ReadSessions, Read
  <2>2. /\ derived = MemoryRows /\ legacies \subseteq MemoryRows
        /\ Gone \notin derived /\ Gone \notin legacies
    BY <2>1 DEF ImportInv, ReadInv, Unread, BeforeRelations, MemoryRows, Gone
  <2>3. /\ Counted("tolerated", "sessions", "tolerated") \subseteq loss'
        /\ Counted("dropped_operational_fields", "sessions", "operational") \subseteq loss'
        /\ OfSession("session_attempts")
           /\ Ref("session_attempts", "related_memory_id") \notin derived
              => <<"dangling_attempt_memory", "session_attempts", "related_memory_id">> \in loss'
        /\ OfSession("session_guide_usage") /\ Ref("session_guide_usage", "guide_id") = Gone
              => <<"dangling_session_guide", "session_guide_usage", "guide_id">> \in loss'
        /\ OfSession("session_memory_links")
           /\ Ref("session_memory_links", "memory_id") \notin legacies
              => <<"dangling_session_memory", "session_memory_links", "memory_id">> \in loss'
    BY <2>1 DEF SessionLosses
  <2>4. ToldOf(OfSessions, loss')
    <3> SUFFICES ASSUME NEW f \in image.flaws, f[1] \in OfSessions PROVE Told(f, loss')
      BY DEF ToldOf
    <3>0. OfSessions \cup {"guides"} \in SUBSET Tables
      BY DEF OfSessions, Tables
    <3>a. f = <<f[1], f[2]>>
      BY ImageTyped, FlawKinds DEF ImportInv
    <3>1. CASE f[2] = "tolerated" /\ Flawed(f[1], f[2]) /\ f[1] = "sessions"
      BY <2>3, <3>a, <3>1, CountedTells
    <3>2. CASE f[2] = "operational" /\ Flawed(f[1], f[2]) /\ f[1] = "sessions"
      BY <2>3, <3>a, <3>2, CountedTells
    <3>3. CASE f[1] \in Owned /\ ~OfSession(f[1])
      <4>1. CASE ~HasTable(f[1])
        BY <4>1 DEF Told
      <4>2. CASE Ref(f[1], "session_id") = Gone
        BY <3>3, <4>2 DEF Told, Unseen
      <4>3. Ref(f[1], "session_id") \in {1, Gone}
        BY <3>3, TargetRows DEF Ref
      <4> QED BY <3>3, <4>1, <4>2, <4>3 DEF OfSession
    <3>4. CASE f[1] \in Owned /\ OfSession(f[1]) /\ f[2] \in DOMAIN Target[f[1]]
      <4>1. Ref(f[1], f[2]) = Gone
        BY <3>a, <3>4, Rows DEF Tables
      <4>2. f[2] # "session_id"
        BY <3>4, <4>1 DEF OfSession, Gone
      <4>3. CASE f[1] = "session_attempts"
        <5>1. f[2] = "related_memory_id"
          BY <3>4, <4>2, <4>3, Columns
        <5> QED BY <2>2, <2>3, <3>a, <3>4, <4>1, <4>3, <5>1, DanglingTells
      <4>4. CASE f[1] = "session_guide_usage"
        <5>1. f[2] = "guide_id"
          BY <3>4, <4>2, <4>4, Columns
        <5> QED BY <2>2, <2>3, <3>a, <3>4, <4>1, <4>4, <5>1, DanglingTells
      <4>5. CASE f[1] = "session_memory_links"
        <5>1. f[2] = "memory_id"
          BY <3>4, <4>2, <4>5, Columns
        <5> QED BY <2>2, <2>3, <3>a, <3>4, <4>1, <4>5, <5>1, DanglingTells
      <4> QED BY <3>4, <4>3, <4>4, <4>5
    <3>5. \/ Told(f, loss')
          \/ Flawed(f[1], f[2]) /\ f[2] = "strict"
          \/ f[1] \in Tolerant /\ f[2] = "tolerated" /\ Flawed(f[1], f[2])
          \/ f[1] \in Operational /\ f[2] = "operational" /\ Flawed(f[1], f[2])
          \/ f[2] \in DOMAIN Target[f[1]]
      BY <2>1, <3>0, OtherFlaws DEF ImportInv, OfSessions
    <3>6. f[1] = "sessions" \/ f[1] \in Owned
      BY DEF OfSessions
    <3>7. CASE f[1] = "sessions"
      BY <2>1, <3>1, <3>2, <3>5, <3>7, Columns
    <3>8. CASE f[1] \in Owned
      BY <2>1, <3>3, <3>4, <3>5, <3>8 DEF Tolerant, Operational
    <3> QED BY <3>6, <3>7, <3>8
  <2>5. \A l \in SessionLosses : Due(l)
    <3> SUFFICES ASSUME NEW l \in SessionLosses PROVE Due(l)
      OBVIOUS
    <3>1. CASE \/ l \in Counted("tolerated", "sessions", "tolerated")
               \/ l \in Counted("dropped_operational_fields", "sessions", "operational")
      BY <3>1, CountedDue, InFlaws DEF Tolerant, Operational
    <3>2. CASE /\ l = <<"dangling_attempt_memory", "session_attempts", "related_memory_id">>
               /\ Ref("session_attempts", "related_memory_id") \notin derived
      <4>1. Ref("session_attempts", "related_memory_id") = Gone
        BY <2>2, <3>2, Rows, Columns DEF Tables
      <4> QED BY <3>2, <4>1, Columns, DanglingDue DEF Tables
    <3>3. CASE /\ l = <<"dangling_session_guide", "session_guide_usage", "guide_id">>
               /\ Ref("session_guide_usage", "guide_id") = Gone
      BY <3>3, Columns, DanglingDue DEF Tables
    <3>4. CASE /\ l = <<"dangling_session_memory", "session_memory_links", "memory_id">>
               /\ Ref("session_memory_links", "memory_id") \notin legacies
      <4>1. CASE Ref("session_memory_links", "memory_id") = Gone
        BY <3>4, <4>1, Columns, DanglingDue DEF Tables
      <4>2. CASE Ref("session_memory_links", "memory_id") # Gone
        <5>1. Ref("session_memory_links", "memory_id") = 2
          BY <4>2, TargetRows DEF Ref
        <5>2. legacies # MemoryRows
          BY <3>4, <5>1 DEF MemoryRows
        <5>3. <<"memories", "legacy_id">> \in image.flaws
          BY <2>1, <5>2 DEF ImportInv, ReadInv, Unread, BeforeRelations
        <5>4. <<"session_memory_links", "memory_id">> \in Flaws
          BY Columns, InFlaws DEF Tables
        <5> QED BY <3>4, <5>3, <5>4 DEF Due
      <4> QED BY <4>1, <4>2
    <3> QED BY <3>1, <3>2, <3>3, <3>4 DEF SessionLosses
  <2>6. ToldInv'
    <3>1. ToldOf(OfSessions, loss)'
      BY <2>1, <2>4, ToldNow
    <3> QED BY <2>1, <2>5, <3>1, Telling DEF ImportInv, ToldInv, Unread, BeforeRelations,
              BeforeGuides, BeforeSessions, BeforeFeedback, BeforeSuggestions, BeforeArchives,
              BeforeHistory, BeforeInternal, BeforeStaged, BeforeParsed
  <2>7. ReadInv' /\ RestoredInv'
    <3>1. imported' = [memories |-> imported.memories, relations |-> imported.relations,
                       guides |-> imported.guides, sessions |-> {SessionOf},
                       feedback |-> imported.feedback, suggestions |-> imported.suggestions,
                       archives |-> imported.archives, history |-> imported.history]
      BY <2>1 DEF ImportInv, ReadInv
    <3>2. SessionHolds(SessionOf)
      <4>1. Ref("session_guide_usage", "guide_id") \in {1, Gone}
        BY TargetRows DEF Ref
      <4> QED BY <2>2, <4>1 DEF SessionHolds, SessionOf
    <3>3. (\A s \in imported.sessions : SessionHolds(s))'
      BY <2>1, <3>1, <3>2 DEF SessionHolds
    <3>4. imported'.feedback \subseteq derived
      BY <3>1 DEF ImportInv, ReadInv
    <3>5. imported'.sessions = {SessionOf}
      BY <3>1
    <3> QED BY <2>1, <3>1, <3>3, <3>4, <3>5, Elsewhere DEF Passes, Unread, BeforeRelations,
               BeforeGuides, BeforeSessions
  <2> QED BY <2>6, <2>7 DEF ImportInv
<1> QED BY <1>1, <1>2

LEMMA MemoriesStep == ASSUME ImportInv, ReadMemories PROVE ImportInv'
<1> DEFINE aliased == IF Flawed("memories", "legacy_id") THEN {2} ELSE MemoryRows
           linked == {LinkedMemory(m, MemoryRows, aliased) : m \in MemoryRows}
<1>1. CASE RefuseImage
  BY <1>1, Refusal
<1>2. CASE ~RefuseImage
  <2>1. /\ ~TableMissing(OfMemories \cup {"guide_memory_links", "guides"})
        /\ ~(image.schema >= InvalidatedAtIntroducedIn /\ Flawed("memories", "column"))
        /\ \A t \in OfMemories \cup {"guide_memory_links"} : ~Flawed(t, "strict")
        /\ pass = "memories" /\ pass' = "relations" /\ loss' = loss \cup MemoryLosses(aliased)
        /\ imported' = [imported EXCEPT !.memories = linked]
        /\ UNCHANGED <<image, restored>> /\ derived' = MemoryRows /\ legacies' = aliased
    <3>1. /\ OfMemories \cup {"guide_memory_links", "guides"}
               = {"memories", "memory_evidence", "guide_memory_links", "guides"}
          /\ OfMemories \cup {"guide_memory_links"}
               = {"memories", "memory_evidence", "guide_memory_links"}
      BY DEF OfMemories
    <3>2. "relations" # "refused"
      OBVIOUS
    <3> QED BY <1>2, <3>1, <3>2, Passed DEF ReadMemories, Read
  <2>2. /\ aliased \subseteq MemoryRows /\ 2 \in aliased
        /\ aliased # MemoryRows => <<"memories", "legacy_id">> \in image.flaws
    BY DEF MemoryRows, Flawed
  <2>d. linked = {LinkedMemory(m, MemoryRows, aliased) : m \in MemoryRows}
    OBVIOUS
  <2> HIDE DEF aliased, linked
  <2>3. /\ Counted("tolerated", "memories", "tolerated") \subseteq loss'
        /\ Counted("dropped_operational_fields", "memories", "operational") \subseteq loss'
        /\ Counted("dropped_operational_fields", "memory_evidence", "operational") \subseteq loss'
        /\ Counted("dangling_guide_link", "guide_memory_links", "related_guide") \subseteq loss'
        /\ Counted("dangling_memory_link", "memories", "parent_id") \subseteq loss'
        /\ Ref("memories", "associated_with") \notin aliased
              => <<"unresolvable_associated_with", "memories", "associated_with">> \in loss'
    BY <2>1 DEF MemoryLosses
  <2>4. ToldOf(OfMemories, loss')
    <3> SUFFICES ASSUME NEW f \in image.flaws, f[1] \in OfMemories PROVE Told(f, loss')
      BY DEF ToldOf
    <3>0. OfMemories \cup {"guide_memory_links", "guides"} \in SUBSET Tables
      BY DEF OfMemories, Tables
    <3>a. f = <<f[1], f[2]>>
      BY ImageTyped, FlawKinds DEF ImportInv
    <3>1. CASE f[2] = "tolerated" /\ Flawed(f[1], f[2]) /\ f[1] = "memories"
      BY <2>3, <3>a, <3>1, CountedTells
    <3>2. CASE f[2] = "operational" /\ Flawed(f[1], f[2])
      BY <2>3, <3>a, <3>2, CountedTells DEF OfMemories
    <3>3. CASE f[1] = "memories" /\ f[2] = "column" /\ Flawed(f[1], f[2])
      <4>1. image.schema < InvalidatedAtIntroducedIn
        BY <2>1, <3>3, ImageTyped DEF ImportInv, InvalidatedAtIntroducedIn
      <4> QED BY <3>3, <4>1 DEF Told
    <3>4. CASE f[1] = "memories" /\ f[2] = "parent_id"
      <4>1. CASE HasTable("memories")
        <5>1. Flawed("memories", "parent_id")
          BY <3>a, <3>4, <4>1 DEF Flawed
        <5> QED BY <2>3, <3>a, <3>4, <5>1, CountedTells
      <4> QED BY <3>4, <4>1 DEF Told
    <3>5. CASE f[1] = "memories" /\ f[2] = "associated_with"
      <4>1. Ref("memories", "associated_with") = Gone
        BY <3>a, <3>5, Rows, Columns DEF Tables
      <4>2. Gone \notin aliased
        BY <2>2 DEF MemoryRows, Gone
      <4> QED BY <2>3, <3>a, <3>5, <4>1, <4>2, DanglingTells
    <3>6. CASE f[1] = "memory_evidence" /\ f[2] = "memory_id"
      BY <3>6 DEF Told, Unseen
    <3>7. \/ Told(f, loss')
          \/ f[1] \in Tolerant /\ f[2] = "tolerated" /\ Flawed(f[1], f[2])
          \/ f[1] \in Operational /\ f[2] = "operational" /\ Flawed(f[1], f[2])
          \/ f[1] = "memories" /\ f[2] = "column" /\ Flawed(f[1], f[2])
          \/ f[2] \in DOMAIN Target[f[1]]
      BY <2>1, <3>0, OtherFlaws DEF ImportInv, OfMemories
    <3> QED BY <3>1, <3>2, <3>3, <3>4, <3>5, <3>6, <3>7, Columns DEF OfMemories, Tolerant
  <2>5. GuideLink \in image.flaws => Told(GuideLink, loss')
    <3>1. CASE HasTable("guide_memory_links") /\ GuideLink \in image.flaws
      BY <2>3, <3>1, CountedTells DEF GuideLink, Flawed
    <3> QED BY <3>1 DEF Told, GuideLink
  <2>6. \A l \in MemoryLosses(aliased) : Due(l)
    <3> SUFFICES ASSUME NEW l \in MemoryLosses(aliased) PROVE Due(l)
      OBVIOUS
    <3>1. CASE \/ l \in Counted("tolerated", "memories", "tolerated")
               \/ l \in Counted("dropped_operational_fields", "memories", "operational")
               \/ l \in Counted("dropped_operational_fields", "memory_evidence", "operational")
      BY <3>1, CountedDue, InFlaws DEF Tolerant, Operational
    <3>2. CASE \/ l \in Counted("dangling_guide_link", "guide_memory_links", "related_guide")
               \/ l \in Counted("dangling_memory_link", "memories", "parent_id")
      <4>1. /\ <<"guide_memory_links", "related_guide">> \in Flaws
            /\ <<"memories", "parent_id">> \in Flaws
        BY Columns, InFlaws DEF Tables
      <4> QED BY <3>2, <4>1, CountedDue
    <3>3. CASE /\ l = <<"unresolvable_associated_with", "memories", "associated_with">>
               /\ Ref("memories", "associated_with") \notin aliased
      <4>1. CASE Ref("memories", "associated_with") = Gone
        BY <3>3, <4>1, Columns, DanglingDue DEF Tables
      <4>2. CASE Ref("memories", "associated_with") # Gone
        <5>1. Ref("memories", "associated_with") = 1
          BY <4>2, TargetRows DEF Ref
        <5>2. aliased # MemoryRows
          BY <3>3, <5>1 DEF MemoryRows
        <5>3. <<"memories", "associated_with">> \in Flaws
          BY Columns, InFlaws DEF Tables
        <5> QED BY <2>2, <3>3, <5>2, <5>3 DEF Due
      <4> QED BY <4>1, <4>2
    <3>4. CASE l = <<"unparseable_timestamp", "memories", "column">>
      BY <3>4, InFlaws DEF Due
    <3> QED BY <3>1, <3>2, <3>3, <3>4 DEF MemoryLosses
  <2>7. ToldInv'
    <3>1. ToldOf(OfMemories, loss)'
      BY <2>1, <2>4, ToldNow
    <3>2. (GuideLink \in image.flaws => Told(GuideLink, loss))'
      BY <2>1, <2>5 DEF Told, HasTable, Unseen, Ref, GuideLink
    <3> QED BY <2>1, <2>6, <3>1, <3>2, Telling DEF ImportInv, ToldInv, Unread, BeforeRelations,
              BeforeGuides, BeforeSessions, BeforeFeedback, BeforeSuggestions, BeforeArchives,
              BeforeHistory, BeforeInternal, BeforeStaged, BeforeParsed
  <2>8. ReadInv'
    <3>1. imported' = [memories |-> linked, relations |-> imported.relations,
                       guides |-> imported.guides, sessions |-> imported.sessions,
                       feedback |-> imported.feedback, suggestions |-> imported.suggestions,
                       archives |-> imported.archives, history |-> imported.history]
      BY <2>1 DEF ImportInv, ReadInv
    <3>2. {m.row : m \in linked} = MemoryRows
      <4>1. \A m \in MemoryRows : LinkedMemory(m, MemoryRows, aliased).row = m
        BY DEF LinkedMemory
      <4> QED BY <2>d, <4>1
    <3>3. (\A m \in imported.memories : MemoryHolds(m))'
      <4> SUFFICES ASSUME NEW m \in linked
                   PROVE  /\ m.parent \cup m.children \cup m.associated \subseteq MemoryRows
                          /\ \A p \in linked : p.row \in m.parent <=> m.row \in p.children
        BY <2>1, <3>1 DEF MemoryHolds
      <4>1. \A n \in linked : /\ n.row \in MemoryRows
                              /\ n.parent = Parent(n.row) \cap MemoryRows
                              /\ n.children = {k \in MemoryRows : n.row \in Parent(k)}
                              /\ n.associated \subseteq aliased
        BY <2>d DEF LinkedMemory
      <4> QED BY <2>2, <4>1
    <3>4. /\ (\A s \in imported.sessions : SessionHolds(s))'
          /\ \A g \in imported.guides : g.sources \subseteq MemoryRows
          /\ imported.feedback \subseteq MemoryRows
      BY <2>1, <3>1 DEF ImportInv, ReadInv, SessionHolds
    <3> QED BY <2>1, <2>2, <3>1, <3>2, <3>3, <3>4 DEF ImportInv, ReadInv, Passes, Unread,
              BeforeRelations, BeforeGuides, BeforeSessions
  <2>9. RestoredInv'
    BY <2>1 DEF RestoredInv
  <2> QED BY <2>7, <2>8, <2>9 DEF ImportInv
<1> QED BY <1>1, <1>2

LEMMA RestoreStep == ASSUME ImportInv, RestoreSnapshot PROVE ImportInv'
<1> DEFINE kept == {r \in imported.relations : r[1] \in derived /\ r[2] \in derived}
<1>1. /\ pass = "parsed" /\ pass' = "restored"
      /\ restored' =
            [records |-> [imported EXCEPT !.relations = kept, !.archives = {}, !.history = {}],
             quarantined |-> imported.relations \ kept]
      /\ UNCHANGED <<image, derived, legacies, loss, imported>>
  BY DEF RestoreSnapshot, ImportInv, ReadInv
<1> HIDE DEF kept
<1>2. ToldInv'
  <2>1. loss' = loss \cup {} /\ \A l \in {} : Due(l)
    BY <1>1
  <2> QED BY <1>1, <2>1, Telling DEF ImportInv, ToldInv, Unread, BeforeRelations, BeforeGuides,
                 BeforeSessions, BeforeFeedback, BeforeSuggestions, BeforeArchives,
                 BeforeHistory, BeforeInternal, BeforeStaged, BeforeParsed
<1>3. ReadInv'
  <2>1. (<<Ref("relations", "source_id"), Ref("relations", "target_id")>>)'
           = <<Ref("relations", "source_id"), Ref("relations", "target_id")>>
    BY <1>1 DEF Ref
  <2> QED BY <1>1, <2>1 DEF ImportInv, ReadInv, Passes, MemoryHolds, SessionHolds, Unread,
                 BeforeRelations, BeforeGuides, BeforeSessions
<1>4. RestoredInv'
  <2>1. imported = [memories |-> imported.memories, relations |-> imported.relations,
                   guides |-> imported.guides, sessions |-> imported.sessions,
                   feedback |-> imported.feedback, suggestions |-> imported.suggestions,
                   archives |-> imported.archives, history |-> imported.history]
    BY DEF ImportInv, ReadInv
  <2>2. restored' = [records |-> [memories |-> imported.memories, relations |-> kept,
                                  guides |-> imported.guides, sessions |-> imported.sessions,
                                  feedback |-> imported.feedback,
                                  suggestions |-> imported.suggestions,
                                  archives |-> {}, history |-> {}],
                     quarantined |-> imported.relations \ kept]
    BY <1>1, <2>1
  <2>3. kept = {r \in imported'.relations : r[1] \in derived' /\ r[2] \in derived'}
    BY <1>1 DEF kept
  <2>4. imported' = imported /\ restored'.quarantined = imported.relations \ kept
    BY <1>1
  <2>5. /\ restored'.records.memories = imported.memories
        /\ restored'.records.relations = kept
        /\ restored'.records.guides = imported.guides
        /\ restored'.records.sessions = imported.sessions
        /\ restored'.records.feedback = imported.feedback
    BY <2>2
  <2>6. LET now == restored'.records
            keptNow == {r \in imported'.relations : r[1] \in derived' /\ r[2] \in derived'}
        IN  /\ now.memories = imported'.memories /\ now.guides = imported'.guides
            /\ now.sessions = imported'.sessions /\ now.feedback = imported'.feedback
            /\ now.relations = keptNow /\ restored'.quarantined = imported'.relations \ keptNow
    BY <2>3, <2>4, <2>5
  <2> QED BY <2>6 DEF RestoredInv
<1> QED BY <1>2, <1>3, <1>4 DEF ImportInv

-----------------------------------------------------------------------------
(* The theorems                                                            *)

LEMMA ImportStarts == ImportInit => ImportInv
<1> SUFFICES ASSUME ImportInit PROVE ImportInv
  OBVIOUS
<1>1. ToldInv
  BY DEF ImportInit, ToldInv, Unread, BeforeRelations, BeforeGuides, BeforeSessions,
         BeforeFeedback, BeforeSuggestions, BeforeArchives, BeforeHistory, BeforeInternal,
         BeforeStaged, BeforeParsed
<1>2. ReadInv
  BY DEF ImportInit, EmptyExport, ReadInv, Passes, Unread, BeforeRelations, BeforeGuides,
         BeforeSessions
<1>3. RestoredInv
  BY DEF ImportInit, RestoredInv
<1> QED BY <1>1, <1>2, <1>3 DEF ImportInv

LEMMA ImportSteps == ImportInv /\ [ImportNext]_importvars => ImportInv'
<1> SUFFICES ASSUME ImportInv, [ImportNext]_importvars PROVE ImportInv'
  OBVIOUS
<1>1. CASE UNCHANGED importvars
  <2>1. UNCHANGED <<image, pass, derived, legacies, loss, imported, restored>>
    BY <1>1 DEF importvars
  <2>2. ToldInv'
    <3>1. loss' = loss \cup {} /\ \A l \in {} : Due(l)
      BY <2>1
    <3> QED BY <2>1, <3>1, Telling DEF ImportInv, ToldInv
  <2>3. ReadInv'
    <3>1. (<<Ref("relations", "source_id"), Ref("relations", "target_id")>>)'
             = <<Ref("relations", "source_id"), Ref("relations", "target_id")>>
      BY <2>1 DEF Ref
    <3> QED BY <2>1, <3>1 DEF ImportInv, ReadInv, MemoryHolds, SessionHolds
  <2>4. RestoredInv'
    BY <2>1 DEF ImportInv, RestoredInv
  <2> QED BY <2>2, <2>3, <2>4 DEF ImportInv
<1> QED BY <1>1, ValidateStep, MemoriesStep, RelationsStep, GuidesStep, SessionsStep,
           FeedbackStep, SuggestionsStep, ArchivesStep, HistoryStep, InternalStep, ParseStep,
           RestoreStep DEF ImportNext

LEMMA ImportHolds == ImportSpec => []ImportInv
BY ImportStarts, ImportSteps, PTL DEF ImportSpec

\* Every variable keeps its type through the passes of the import and the restore
\* (lemma-import/src/lib.rs, daemon/src/lemma_import.rs).
THEOREM ImportTypeCorrect == ImportSpec => []ImportTypeOK
<1>1. ImportInv => ImportTypeOK
  <2> SUFFICES ASSUME ImportInv PROVE ImportTypeOK
    OBVIOUS
  <2>1. image.schema \in Schemas /\ image.flaws \subseteq Flaws
    BY ImageTyped DEF ImportInv, ReadInv
  <2>2. \A l \in loss : <<l[2], l[3]>> \in Flaws
    BY DEF ImportInv, ToldInv, Due
  <2>3. /\ derived \subseteq MemoryRows /\ legacies \subseteq derived
        /\ {m.row : m \in imported.memories} = derived
    BY DEF ImportInv, ReadInv
  <2> QED BY <2>1, <2>2, <2>3 DEF ImportTypeOK
<1> QED BY <1>1, ImportHolds, PTL

\* Every flaw of an image that was imported is told, or needs not be.
LEMMA Accounted == ImportInv => ImportAccounts
<1> SUFFICES ASSUME ImportInv, pass = "restored" PROVE ImportAccounts
  BY DEF ImportAccounts
<1> USE DEF Unread, BeforeRelations, BeforeGuides, BeforeSessions, BeforeFeedback,
            BeforeSuggestions, BeforeArchives, BeforeHistory, BeforeInternal, BeforeStaged,
            BeforeParsed
<1>1. ASSUME NEW f \in image.flaws PROVE Told(f, loss)
  <2>1. f[1] \in Tables \cup {"envelope", "library", "unknown"}
    BY ImageTyped, FlawKinds DEF ImportInv, Tolerant, Quiet, Operational, Tables
  <2>2. /\ ToldOf({"envelope"}, loss) /\ ToldOf(OfMemories, loss) /\ ToldOf({"relations"}, loss)
        /\ ToldOf(OfGuides, loss) /\ ToldOf(OfSessions, loss) /\ ToldOf({"feedback_log"}, loss)
        /\ ToldOf({"improvement_suggestions"}, loss)
        /\ ToldOf({"fragments_archive"}, loss)
        /\ ToldOf({"fragment_history"}, loss) /\ ToldOf({"unknown"}, loss)
        /\ ToldOf({"library"}, loss)
    BY DEF ImportInv, ToldInv
  <2> QED BY <2>1, <2>2 DEF ToldOf, Tables, OfMemories, OfGuides, OfSessions
<1>2. ASSUME NEW f \in image.flaws, f[1] = "relations", f[2] \in {"source_id", "target_id"}
      PROVE  restored.quarantined # {}
  <2>1. f = <<f[1], f[2]>>
    BY <1>2, ImageTyped, FlawKinds DEF ImportInv
  <2>2. Ref("relations", f[2]) = Gone
    BY <1>2, <2>1, Rows, Columns DEF Tables
  <2>3. Gone \notin derived
    BY DEF ImportInv, ReadInv, MemoryRows, Gone
  <2>4. <<Ref("relations", "source_id"), Ref("relations", "target_id")>> \in imported.relations
    BY DEF ImportInv, ReadInv
  <2> QED BY <1>2, <2>2, <2>3, <2>4 DEF ImportInv, RestoredInv
<1>3. \A l \in loss : Due(l)
  BY DEF ImportInv, ToldInv
<1> QED BY <1>1, <1>2, <1>3 DEF ImportAccounts, Told, Due

\* What the restore kept refers to what it kept.
LEMMA Resolved == ImportInv => ReferencesResolve
<1> SUFFICES ASSUME ImportInv, pass = "restored" PROVE ReferencesResolve
  BY DEF ReferencesResolve
<1> DEFINE now == restored.records
<1>1. /\ now.memories = imported.memories /\ now.guides = imported.guides
      /\ now.sessions = imported.sessions /\ now.feedback = imported.feedback
      /\ now.relations = {r \in imported.relations : r[1] \in derived /\ r[2] \in derived}
  BY DEF ImportInv, RestoredInv
<1>2. /\ {m.row : m \in now.memories} = derived /\ {g.row : g \in now.guides} = {1}
      /\ now.feedback \subseteq derived
  BY <1>1 DEF ImportInv, ReadInv, Unread, BeforeRelations, BeforeGuides, BeforeSessions
<1>3. now.relations \subseteq derived \X derived
  BY <1>1 DEF ImportInv, ReadInv, Unread, BeforeRelations, BeforeGuides, BeforeSessions
<1>4. /\ \A m \in now.memories : MemoryHolds(m)
      /\ \A g \in now.guides : g.sources \subseteq derived
      /\ \A s \in now.sessions : SessionHolds(s)
  BY <1>1 DEF ImportInv, ReadInv
<1> HIDE DEF now
<1>5. /\ imported.memories = now.memories
  BY <1>1
<1>6. ReferencesResolve <=>
        /\ now.relations \subseteq derived \X derived
        /\ \A m \in now.memories :
            /\ m.parent \cup m.children \cup m.associated \subseteq derived
            /\ \A p \in now.memories : p.row \in m.parent <=> m.row \in p.children
        /\ \A g \in now.guides : g.sources \subseteq derived
        /\ \A s \in now.sessions :
            /\ s.memories \subseteq derived
            /\ s.guides \subseteq {1}
            /\ \A a \in s.attempts : a.memory \subseteq derived
        /\ now.feedback \subseteq derived
  BY <1>2 DEF ReferencesResolve, now
<1> QED BY <1>2, <1>3, <1>4, <1>5, <1>6 DEF MemoryHolds, SessionHolds

\* For any schemas and any flaws together, an import that is accepted has counted each
\* flaw (or the row it stands in, or set the relation aside) but for those in Unseen and a
\* missing legacy id, has counted nothing else but the column old images do not have, and
\* left no reference that points nowhere (lemma-import/src/lib.rs:201-204,
\* interchange/restore/verify.rs:51-74).
THEOREM ImportAlwaysHonest == ImportSpec => []ImportIsHonest
<1>1. ImportInv => ImportIsHonest
  BY Accounted, Resolved DEF ImportIsHonest
<1> QED BY <1>1, ImportHolds, PTL

===============================================================================
