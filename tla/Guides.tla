------------------------------- MODULE Guides -------------------------------
(***************************************************************************)
(* Guides: the records, the references memories keep to them, the log of   *)
(* guide operations, and the tools that plan on what they read and commit  *)
(* later.                                                                  *)
(*                                                                         *)
(* A call may be sent twice, the second request overlapping the first.  A  *)
(* read of the store and a transaction are an action each.                 *)
(*                                                                         *)
(* Abstracted: a guide is its revision, how often each call has gone into  *)
(* it (usage, learnings, outcomes, descriptions), and the memories it was  *)
(* distilled from or validated by.  A name is its normal form.  Digests    *)
(* and owners of receipts are in Retry.                                    *)
(***************************************************************************)
EXTENDS Integers, Sequences, FiniteSets

CONSTANTS GuideNames, GuideMemories, GuideCalls,
          GuideOp,    \* call -> [kind, guides, to, memories]
          Alike,      \* pairs of names of which one contains the other
          GuideSends  \* call -> how often it is sent

VARIABLES guides,     \* name -> guide
          related,    \* memory -> names of guides
          log,        \* calls recorded
          guideAsks,  \* request -> where it stands and what it has read
          heard,      \* call -> answers given
          lost,       \* calls whose part went with a forgotten guide (history)
          reborn      \* a name was used again after its guide had gone (history)

gvars == <<guides, related, log, guideAsks, heard, lost, reborn>>

Kinds == {"create", "update", "rename", "forget", "merge", "practice", "distill", "effect"}

ASSUME GuidesAssumption ==
    \A c \in GuideCalls :
        /\ GuideOp[c].kind \in Kinds
        /\ GuideOp[c].guides \in Seq(GuideNames) /\ Len(GuideOp[c].guides) > 0
        /\ GuideOp[c].to \in GuideNames /\ GuideOp[c].memories \subseteq GuideMemories

Asks == {a \in GuideCalls \X (1..2) : a[2] <= GuideSends[a[1]]}
Parts == [GuideCalls -> Nat]
Guide == [rev : Nat, parts : Parts, memories : SUBSET GuideMemories]
GuideCopy == [name : GuideNames, guide : Guide]
GuideRequest == [step : {"unsent", "checked", "listing", "planned", "answered"},
                 read : Seq(GuideCopy)]
NoGuide == [rev |-> 0, parts |-> [c \in GuideCalls |-> 0], memories |-> {}]
Fresh == [NoGuide EXCEPT !.rev = 1]
NotAsked == [step |-> "unsent", read |-> <<>>]
Live(n) == guides[n].rev > 0

GuidesTypeOK ==
    /\ guides \in [GuideNames -> Guide]
    /\ related \in [GuideMemories -> SUBSET GuideNames]
    /\ log \subseteq GuideCalls /\ lost \subseteq GuideCalls
    /\ guideAsks \in [Asks -> GuideRequest]
    /\ heard \in [GuideCalls -> SUBSET {"success", "error"}]
    /\ reborn \in BOOLEAN

GuidesInit ==
    /\ guides = [n \in GuideNames |-> NoGuide]
    /\ related = [m \in GuideMemories |-> {}]
    /\ log = {} /\ lost = {} /\ reborn = FALSE
    /\ guideAsks = [a \in Asks |-> NotAsked]
    /\ heard = [c \in GuideCalls |-> {}]

(***************************************************************************)
(* Requests.                                                               *)
(***************************************************************************)
Answer(a, answer) ==
    /\ guideAsks' = [guideAsks EXCEPT ![a] = [NotAsked EXCEPT !.step = "answered"]]
    /\ heard' = [heard EXCEPT ![a[1]] = @ \cup {answer}]

GuideStore == <<guides, related, log, lost, reborn>>
Reading(a) == GuideOp[a[1]].kind \in {"create", "update", "rename", "forget", "merge"}

\* The recorded operation, before any planning read.
CheckLog(a) ==
    /\ guideAsks[a].step = "unsent"
    /\ a[2] > 1 => guideAsks[<<a[1], a[2] - 1>>].step # "unsent"
    /\ UNCHANGED GuideStore
    /\ IF a[1] \in log THEN Answer(a, "success")
       ELSE /\ guideAsks' = [guideAsks EXCEPT ![a].step =
                                 IF Reading(a) THEN "checked" ELSE "planned"]
            /\ UNCHANGED heard

\* Plans on the guides named, read one by one as snapshots: a name that is gone
\* is an error, except for a creation.
ReadGuide(a) ==
    LET op == GuideOp[a[1]]
        n == op.guides[Len(guideAsks[a].read) + 1]
        read == Append(guideAsks[a].read, [name |-> n, guide |-> guides[n]])
    IN  /\ guideAsks[a].step = "checked"
        /\ UNCHANGED GuideStore
        /\ IF Live(n)
           THEN /\ guideAsks' = [guideAsks EXCEPT ![a] =
                       [step |-> IF Len(read) = Len(op.guides) THEN "planned" ELSE "checked",
                        read |-> read]]
                /\ UNCHANGED heard
           ELSE IF op.kind = "create"
                THEN guideAsks' = [guideAsks EXCEPT ![a].step = "listing"] /\ UNCHANGED heard
                ELSE Answer(a, "error")

\* A creation takes a guide with a name like its own, if there is one by now.
ReadSimilar(a) ==
    LET n == GuideOp[a[1]].guides[1]
        similar == {m \in GuideNames :
                       Live(m) /\ (m = n \/ <<m, n>> \in Alike \/ <<n, m>> \in Alike)}
    IN  /\ guideAsks[a].step = "listing"
        /\ UNCHANGED <<GuideStore, heard>>
        /\ \/ similar = {} /\ guideAsks' = [guideAsks EXCEPT ![a].step = "planned"]
           \/ \E m \in similar :
                 guideAsks' = [guideAsks EXCEPT ![a] =
                                  [step |-> "planned",
                                   read |-> <<[name |-> m, guide |-> guides[m]]>>]]

(***************************************************************************)
(* Transactions.                                                           *)
(***************************************************************************)
\* Mutant: an update that does not look at the revision it was planned on.
AsPlannedLive(r) == Live(r.name)

AsPlanned(r) == Live(r.name) /\ guides[r.name].rev = r.guide.rev

With(g, c) == [g EXCEPT !.parts[c] = @ + 1]
Next1(n) == guides[n].rev + 1

\* Mutant: a rename or a merge that leaves the references of memories alone.
LeftAlone(old, n) == related

\* References to the guides in old become references to n.
Moved(old, n) ==
    [m \in GuideMemories |->
        IF related[m] \cap old = {} THEN related[m] ELSE (related[m] \ old) \cup {n}]

Unreferenced(n) == [m \in GuideMemories |-> related[m] \ {n}]

\* A recorded call has taken the name away.
Removed(n) ==
    \E c \in log : /\ GuideOp[c].kind \in {"forget", "rename", "merge"}
                   /\ \E i \in DOMAIN GuideOp[c].guides : GuideOp[c].guides[i] = n

Born(n) == reborn' = (reborn \/ Removed(n))

SumParts(reads) ==
    [c \in GuideCalls |->
        LET from == {i \in DOMAIN reads : reads[i].guide.parts[c] > 0}
        IN  Cardinality(from)]

Planned(a, kind) == guideAsks[a].step = "planned" /\ GuideOp[a[1]].kind = kind

\* Mutant: the log is looked up before the transaction only.
LoggedNever(c) == FALSE

Logged(c) == c \in log

Recorded(a) ==
    /\ guideAsks[a].step = "planned" /\ Logged(a[1])
    /\ Answer(a, "success")
    /\ UNCHANGED GuideStore

Done(a) == ~Logged(a[1]) /\ log' = log \cup {a[1]} /\ Answer(a, "success")
Refused(a) == ~Logged(a[1]) /\ Answer(a, "error") /\ UNCHANGED GuideStore

Create(a) ==
    LET c == a[1]
        n == GuideOp[c].guides[1]
        r == guideAsks[a].read[1]
    IN  /\ Planned(a, "create")
        /\ \/ /\ guideAsks[a].read = <<>> /\ ~Live(n)
              /\ Done(a) /\ Born(n)
              /\ guides' = [guides EXCEPT ![n] = With(Fresh, c)]
              /\ UNCHANGED <<related, lost>>
           \/ /\ guideAsks[a].read # <<>> /\ AsPlanned(r)
              /\ Done(a)
              /\ guides' = [guides EXCEPT ![r.name] =
                                 [With(r.guide, c) EXCEPT !.rev = Next1(r.name)]]
              /\ UNCHANGED <<related, lost, reborn>>
           \/ /\ IF guideAsks[a].read = <<>> THEN Live(n) ELSE ~AsPlanned(r)
              /\ Refused(a)

Update(a) ==
    LET c == a[1]
        r == guideAsks[a].read[1]
    IN  /\ Planned(a, "update")
        /\ IF AsPlanned(r)
           THEN /\ Done(a)
                /\ guides' = [guides EXCEPT ![r.name] =
                                 [With(r.guide, c) EXCEPT !.rev = Next1(r.name)]]
                /\ UNCHANGED <<related, lost, reborn>>
           ELSE Refused(a)

Rename(a) ==
    LET c == a[1]
        to == GuideOp[c].to
        r == guideAsks[a].read[1]
    IN  /\ Planned(a, "rename")
        /\ IF AsPlanned(r) /\ ~Live(to)
           THEN /\ Done(a) /\ Born(to)
                /\ guides' = [guides EXCEPT ![r.name] = NoGuide,
                                 ![to] = [With(r.guide, c) EXCEPT !.rev = Next1(r.name)]]
                /\ related' = Moved({r.name}, to)
                /\ UNCHANGED lost
           ELSE Refused(a)

\* A forget is planned on the name alone.
ForgetGuide(a) ==
    LET c == a[1]
        n == GuideOp[c].guides[1]
    IN  /\ Planned(a, "forget")
        /\ IF Live(n)
           THEN /\ Done(a)
                /\ guides' = [guides EXCEPT ![n] = NoGuide]
                /\ related' = Unreferenced(n)
                /\ lost' = lost \cup {d \in GuideCalls : guides[n].parts[d] > 0}
                /\ UNCHANGED reborn
           ELSE Refused(a)

\* The result starts again at revision 1.
MergeGuides(a) ==
    LET c == a[1]
        to == GuideOp[c].to
        reads == guideAsks[a].read
        old == {reads[i].name : i \in DOMAIN reads}
    IN  /\ Planned(a, "merge")
        /\ IF (\A i \in DOMAIN reads : AsPlanned(reads[i])) /\ ~Live(to)
           THEN /\ Done(a) /\ Born(to)
                /\ guides' = [n \in GuideNames |->
                       IF n = to
                       THEN [Fresh EXCEPT
                               !.parts = SumParts(reads),
                               !.memories = UNION {reads[i].guide.memories : i \in DOMAIN reads}]
                       ELSE IF n \in old THEN NoGuide ELSE guides[n]]
                /\ related' = Moved(old, to)
                /\ UNCHANGED lost
           ELSE Refused(a)

\* guide_practice and guide_distill read the guide in the transaction: it is
\* made, or counted once more, and linked with memories on both sides.
Grow(a) ==
    LET c == a[1]
        n == GuideOp[c].guides[1]
        grown == IF Live(n) THEN [guides[n] EXCEPT !.rev = @ + 1] ELSE Fresh
    IN  /\ Done(a)
        /\ guides' = [guides EXCEPT ![n] =
                         [With(grown, c) EXCEPT !.memories = @ \cup GuideOp[c].memories]]
        /\ related' = [m \in GuideMemories |->
                          IF m \in GuideOp[c].memories THEN related[m] \cup {n} ELSE related[m]]
        /\ IF Live(n) THEN UNCHANGED reborn ELSE Born(n)
        /\ UNCHANGED lost

Practice(a) == Planned(a, "practice") /\ Grow(a)
Distill(a) == Planned(a, "distill") /\ Grow(a)

\* The outcome of a session that used the guide; a guide that is gone is left so.
Effect(a) ==
    LET c == a[1]
        n == GuideOp[c].guides[1]
    IN  /\ Planned(a, "effect")
        /\ IF Live(n)
           THEN /\ Done(a)
                /\ guides' = [guides EXCEPT ![n] = [With(guides[n], c) EXCEPT !.rev = @ + 1]]
                /\ UNCHANGED <<related, lost, reborn>>
           ELSE ~Logged(c) /\ Answer(a, "success") /\ UNCHANGED GuideStore

CommitGuide(a) ==
    \/ Recorded(a)
    \/ Create(a) \/ Update(a) \/ Rename(a) \/ ForgetGuide(a) \/ MergeGuides(a)
    \/ Practice(a) \/ Distill(a) \/ Effect(a)

GuidesNext == \E a \in Asks : CheckLog(a) \/ ReadGuide(a) \/ ReadSimilar(a) \/ CommitGuide(a)

GuidesSpec == GuidesInit /\ [][GuidesNext]_gvars

(***************************************************************************)
(* Properties.                                                             *)
(***************************************************************************)

\* No memory refers to a guide that was forgotten, renamed or merged away; and
\* a guide and a memory it was distilled from or validated by know each other,
\* through renames, merges and updates planned on older copies of the guide.
LinksHold ==
    /\ \A m \in GuideMemories : \A n \in related[m] : Live(n)
    /\ ~reborn => \A n \in GuideNames : \A m \in guides[n].memories : n \in related[m]

CountOf(c) == {n \in GuideNames : guides[n].parts[c] > 0}
Counted(c) ==
    /\ Cardinality(CountOf(c)) <= 1
    /\ \A n \in GuideNames : guides[n].parts[c] <= 1
    /\ c \in log /\ c \notin lost /\ GuideOp[c].kind \notin {"forget", "merge"} => CountOf(c) # {}
    /\ c \in lost => CountOf(c) = {}

\* What a recorded call put into a guide is in exactly one guide, once, until
\* somebody forgets that guide: no update, rename or merge planned earlier takes
\* it away, and no second request of the call adds it again.
NoUpdateLost == ~reborn => \A c \in GuideCalls : Counted(c)
=============================================================================
