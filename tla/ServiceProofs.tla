---------------------------- MODULE ServiceProofs ----------------------------
(***************************************************************************)
(* Theorems about Projects, for any identities, roots, slugs and claims;   *)
(* about Guides, for any names, memories and calls; about BackupFile,      *)
(* OwnedFiles and ModelCache, for any exports, commands, downloads and     *)
(* failures; and about Migrations, for any builds.                         *)
(***************************************************************************)
EXTENDS Projects, Guides, BackupFile, ModelCache, OwnedFiles, Migrations, FiniteSetTheorems,
        WellFoundedInduction, TLAPS

-----------------------------------------------------------------------------
(* Projects: types.                                                        *)

LEMMA RecordParts ==
    ASSUME ProjectsTypeOK, NEW i \in ProjectIds, Known(i)
    PROVE  /\ records[i] \in Record /\ records[i].name \in Slugs
           /\ records[i].roots \subseteq Roots /\ records[i].slugs \subseteq Slugs
BY DEF ProjectsTypeOK, Known, Record

LEMMA RecordIsThere == ASSUME NEW rec \in Record PROVE rec # None
BY ProjectsAssumption

LEMMA ScopeTyped ==
    /\ Nowhere \in Scope
    /\ \A i \in ProjectIds, rec \in Record : Stable(i, rec) \in Scope
BY DEF Nowhere, Scope, Stable, MaybeId, Record

\* What a step may write of a request.
LEMMA AskStep ==
    ASSUME ProjectsTypeOK, NEW c \in ProjectCalls, NEW step \in
              {"off", "new", "rooting", "claiming", "naming", "accepted", "refused", "done"},
           Goes(c, step)
    PROVE  /\ projectAsks' \in [ProjectCalls -> Ask]
           /\ projectAsks'[c].at = step
           /\ projectAsks'[c].scope = projectAsks[c].scope
           /\ projectAsks'[c].known = projectAsks[c].known /\ projectAsks'[c].free = projectAsks[c].free
           /\ \A d \in ProjectCalls \ {c} : projectAsks'[d] = projectAsks[d]
<1>0. projectAsks \in [ProjectCalls -> Ask]
  BY DEF ProjectsTypeOK
<1> DEFINE r == [projectAsks[c] EXCEPT !.at = step]
<1>1. projectAsks' = [projectAsks EXCEPT ![c] = r]
  BY DEF Goes
<1>2. r \in Ask /\ r.at = step /\ r.scope = projectAsks[c].scope
      /\ r.known = projectAsks[c].known /\ r.free = projectAsks[c].free
  BY <1>0 DEF Ask
<1> HIDE DEF r
<1> QED BY <1>0, <1>1, <1>2

LEMMA AcceptStep ==
    ASSUME ProjectsTypeOK, NEW c \in ProjectCalls, NEW scope \in Scope, Accept(c, scope)
    PROVE  /\ projectAsks' \in [ProjectCalls -> Ask]
           /\ projectAsks'[c].at = "accepted" /\ projectAsks'[c].scope = scope
           /\ \A d \in ProjectCalls \ {c} : projectAsks'[d] = projectAsks[d]
<1>0. projectAsks \in [ProjectCalls -> Ask]
  BY DEF ProjectsTypeOK
<1> DEFINE r == [projectAsks[c] EXCEPT !.at = "accepted", !.scope = scope]
<1>1. projectAsks' = [projectAsks EXCEPT ![c] = r]
  BY <1>0 DEF Accept
<1>2. r \in Ask /\ r.at = "accepted" /\ r.scope = scope
  BY <1>0 DEF Ask
<1> HIDE DEF r
<1> QED BY <1>0, <1>1, <1>2

-----------------------------------------------------------------------------
(* Projects: the invariant.                                                *)

\* The record is what the claim says, and its name on the wire is one of its own.
Fit(c, rec) ==
    /\ rec # None /\ rec.name = Claim[c].name
    /\ Claim[c].slug \in {None, rec.name} \cup rec.slugs

\* What a request has resolved, while it may still act on it: an identity it found is
\* the one of its claim, and fits it unless a restore or a race came between.
AskInv ==
    \A c \in ProjectCalls :
        /\ projectAsks[c].at = "new" => ~projectAsks[c].known
        /\ projectAsks[c].at = "rooting" =>
              /\ Claim[c].id \in ProjectIds /\ Claim[c].root \in Roots
              /\ projectAsks[c].scope.id = Claim[c].id /\ projectAsks[c].known
        /\ projectAsks[c].at = "claiming" =>
              Claim[c].id \in ProjectIds /\ (projectAsks[c].known => projectAsks[c].free)
        /\ restores = 0 /\ projectAsks[c].known /\ projectAsks[c].at \in {"rooting", "claiming"} =>
              Fit(c, records[Claim[c].id])
        /\ projectAsks[c].at = "accepted" /\ projectAsks[c].scope.id # None =>
              /\ projectAsks[c].scope.id = Claim[c].id
              /\ restores = 0 /\ overlapped = {} => Fit(c, records[Claim[c].id])

\* The index names an identity that lists the root; without a race it is the only one.
OwnerInv ==
    /\ \A r \in Roots : owner[r] # None => records[owner[r]] # None /\ r \in records[owner[r]].roots
    /\ overlapped = {} =>
          \A i \in ProjectIds : records[i] # None => \A r \in records[i].roots : owner[r] = i

RowInv ==
    overlapped = {} /\ restores = 0 =>
        \A row \in rows : row.id # None =>
            records[row.id] # None /\ row.slug \in {records[row.id].name} \cup records[row.id].slugs

Registered == ProjectsTypeOK /\ OwnerInv /\ AskInv /\ RowInv

\* Records grow and keep their names, but for a restore.
RecordsGrow ==
    \A i \in ProjectIds : records[i] # None =>
        /\ records'[i] # None /\ records'[i].name = records[i].name
        /\ records[i].slugs \subseteq records'[i].slugs

LEMMA FitKept ==
    ASSUME RecordsGrow, NEW c \in ProjectCalls, Claim[c].id \in ProjectIds, Fit(c, records[Claim[c].id])
    PROVE  Fit(c, records'[Claim[c].id])
BY DEF RecordsGrow, Fit

\* The requests other than the one that takes a step.
LEMMA AskKept ==
    ASSUME AskInv, RecordsGrow, UNCHANGED restores, overlapped \subseteq overlapped',
           NEW c \in ProjectCalls,
           \A d \in ProjectCalls \ {c} : projectAsks'[d] = projectAsks[d],
           projectAsks'[c].at # "new",
           projectAsks'[c].at = "rooting" =>
              /\ Claim[c].id \in ProjectIds /\ Claim[c].root \in Roots
              /\ projectAsks'[c].scope.id = Claim[c].id /\ projectAsks'[c].known,
           projectAsks'[c].at = "claiming" =>
              Claim[c].id \in ProjectIds /\ (projectAsks'[c].known => projectAsks'[c].free),
           restores = 0 /\ projectAsks'[c].known /\ projectAsks'[c].at \in {"rooting", "claiming"} =>
              Fit(c, records'[Claim[c].id]),
           projectAsks'[c].at = "accepted" /\ projectAsks'[c].scope.id # None =>
              /\ projectAsks'[c].scope.id = Claim[c].id
              /\ restores = 0 /\ overlapped' = {} => Fit(c, records'[Claim[c].id])
    PROVE  AskInv'
<1>1. ASSUME NEW d \in ProjectCalls, d # c, restores = 0,
             Fit(d, records[Claim[d].id]), Claim[d].id \in ProjectIds
      PROVE  Fit(d, records'[Claim[d].id])
  BY <1>1, FitKept
<1>2. ASSUME NEW d \in ProjectCalls, d # c
      PROVE /\ projectAsks'[d].at = "new" => ~projectAsks'[d].known
            /\ projectAsks'[d].at = "rooting" =>
                  /\ Claim[d].id \in ProjectIds /\ Claim[d].root \in Roots
                  /\ projectAsks'[d].scope.id = Claim[d].id /\ projectAsks'[d].known
            /\ projectAsks'[d].at = "claiming" =>
                  Claim[d].id \in ProjectIds /\ (projectAsks'[d].known => projectAsks'[d].free)
  BY <1>2 DEF AskInv
<1>3. ASSUME NEW d \in ProjectCalls, d # c, restores = 0,
             projectAsks'[d].known, projectAsks'[d].at \in {"rooting", "claiming"}
      PROVE  Fit(d, records'[Claim[d].id])
  BY <1>1, <1>2, <1>3 DEF AskInv
<1>4. ASSUME NEW d \in ProjectCalls, d # c,
             projectAsks'[d].at = "accepted", projectAsks'[d].scope.id # None
      PROVE  /\ projectAsks'[d].scope.id = Claim[d].id
             /\ restores = 0 /\ overlapped' = {} => Fit(d, records'[Claim[d].id])
  <2>1. /\ Claim[d].id \in ProjectIds \cup {None} /\ projectAsks[d].scope.id = Claim[d].id
        /\ restores = 0 /\ overlapped' = {} => Fit(d, records[Claim[d].id])
    BY <1>4, ProjectsAssumption DEF AskInv, MaybeId
  <2> QED BY <1>1, <1>4, <2>1
<1> QED BY <1>2, <1>3, <1>4 DEF AskInv

\* A step of a request that leaves the registry and the rows alone.
LEMMA RegistryKept ==
    ASSUME OwnerInv, RowInv, UNCHANGED <<records, owner, rows, restores>>, overlapped \subseteq overlapped'
    PROVE  OwnerInv' /\ RowInv' /\ RecordsGrow
BY DEF OwnerInv, RowInv, RecordsGrow

LEMMA QuietRegistered ==
    ASSUME Registered, UNCHANGED <<records, owner, checkouts, rows, restores, overlapped>>,
           projectAsks' \in [ProjectCalls -> Ask], AskInv'
    PROVE  Registered'
BY RegistryKept DEF Registered, ProjectsTypeOK

-----------------------------------------------------------------------------
(* Projects: the steps.                                                    *)

LEMMA ClaimTyped ==
    ASSUME NEW c \in ProjectCalls
    PROVE  /\ Claim[c].id \in ProjectIds \cup {None} /\ Claim[c].root \in Roots \cup {None}
           /\ Claim[c].slug \in Slugs \cup {None} /\ Claim[c].all \in BOOLEAN
           /\ Claim[c].id # None => Claim[c].name \in Slugs
           /\ Claim[c].kind = "adopt" => Claim[c].id # None /\ Claim[c].slug # None
BY ProjectsAssumption DEF MaybeId

LEMMA BeginRegistered == ASSUME Registered, NEW c \in ProjectCalls, Begin(c) PROVE Registered'
<1>0. /\ UNCHANGED <<records, owner, checkouts, rows, restores, overlapped>>
      /\ projectAsks[c].at = "new" /\ projectAsks \in [ProjectCalls -> Ask] /\ ~projectAsks[c].known
  BY DEF Registered, Begin, ProjectsTypeOK, AskInv
<1>1. OwnerInv' /\ RowInv' /\ RecordsGrow
  BY <1>0, RegistryKept DEF Registered
<1>2. ASSUME NEW step \in {"claiming", "refused"}, Goes(c, step), step = "claiming" => Claim[c].id \in ProjectIds
      PROVE  Registered'
  <2>1. projectAsks' \in [ProjectCalls -> Ask] /\ AskInv'
    BY <1>0, <1>1, <1>2, AskStep, AskKept DEF Registered
  <2> QED BY <1>0, <2>1, QuietRegistered
<1>3. ASSUME NEW scope \in Scope, Accept(c, scope),
             scope.id # None => scope.id = Claim[c].id /\ Fit(c, records[Claim[c].id])
      PROVE  Registered'
  <2>1. projectAsks' \in [ProjectCalls -> Ask] /\ AskInv'
    BY <1>0, <1>1, <1>3, AcceptStep, AskKept DEF Registered
  <2> QED BY <1>0, <2>1, QuietRegistered
<1>4. CASE LookUp(c)
  <2> DEFINE i == Claim[c].id
             rec == records[i]
             r == [projectAsks[c] EXCEPT !.at = "rooting", !.known = TRUE, !.scope = Stable(i, rec)]
  <2>1. i \in ProjectIds
    BY <1>4, ClaimTyped DEF LookUp
  <2>2. CASE Goes(c, "claiming") \/ Refuse(c)
    BY <1>2, <2>1, <2>2 DEF Refuse
  <2>3. CASE rec # None /\ rec.name = Claim[c].name /\ Agrees(Claim[c].slug, rec)
    <3>1. rec \in Record /\ Stable(i, rec) \in Scope /\ Stable(i, rec).id = i /\ Fit(c, rec)
      BY <2>1, <2>3, ScopeTyped DEF Registered, ProjectsTypeOK, Stable, Fit, Agrees
    <3>2. CASE Accept(c, Stable(i, rec))
      BY <1>3, <3>1, <3>2
    <3>3. CASE Claim[c].root # None /\ projectAsks' = [projectAsks EXCEPT ![c] = r]
      <4>1. r \in Ask /\ r.at = "rooting" /\ r.known /\ r.scope.id = i
        BY <1>0, <3>1 DEF Ask
      <4> HIDE DEF r
      <4>2. projectAsks'[c] = r /\ (\A d \in ProjectCalls \ {c} : projectAsks'[d] = projectAsks[d])
            /\ projectAsks' \in [ProjectCalls -> Ask]
        BY <1>0, <3>3, <4>1
      <4>3. Claim[c].root \in Roots
        BY <3>3, ClaimTyped
      <4>4. AskInv'
        BY <1>0, <1>1, <2>1, <3>1, <4>1, <4>2, <4>3, AskKept DEF Registered
      <4> QED BY <1>0, <4>2, <4>4, QuietRegistered
    <3>4. projectAsks' = [projectAsks EXCEPT ![c].at = "rooting", ![c].known = TRUE, ![c].scope = Stable(i, rec)]
             => projectAsks' = [projectAsks EXCEPT ![c] = r]
      BY <1>0
    <3>5. Accept(c, Stable(i, rec)) \/ (Claim[c].root # None /\ projectAsks' = [projectAsks EXCEPT ![c] = r])
      BY <1>4, <2>3, <3>4 DEF LookUp
    <3> QED BY <3>2, <3>3, <3>5
  <2> QED BY <1>4, <2>2, <2>3 DEF LookUp
<1>5. CASE LookUpSlug(c)
  <2>1. CASE Accept(c, [Nowhere EXCEPT !.all = Claim[c].all])
    <3> DEFINE n == [Nowhere EXCEPT !.all = Claim[c].all]
    <3>1. n \in Scope /\ n.id = None
      BY ClaimTyped, ScopeTyped DEF Nowhere, Scope
    <3> HIDE DEF n
    <3> QED BY <1>3, <2>1, <3>1 DEF n
  <2>2. CASE projectAsks' = [projectAsks EXCEPT ![c].at = "naming", ![c].buckets = Attaching(Claim[c].slug)]
    <3> DEFINE r == [projectAsks[c] EXCEPT !.at = "naming", !.buckets = Attaching(Claim[c].slug)]
    <3>1. projectAsks' = [projectAsks EXCEPT ![c] = r]
      BY <1>0, <2>2
    <3>2. r \in Ask /\ r.at = "naming"
      BY <1>0 DEF Ask, Attaching
    <3> HIDE DEF r
    <3>3. projectAsks'[c] = r /\ (\A d \in ProjectCalls \ {c} : projectAsks'[d] = projectAsks[d])
          /\ projectAsks' \in [ProjectCalls -> Ask]
      BY <1>0, <3>1, <3>2
    <3>4. AskInv'
      BY <1>0, <1>1, <3>2, <3>3, AskKept DEF Registered
    <3> QED BY <1>0, <3>3, <3>4, QuietRegistered
  <2> QED BY <1>5, <2>1, <2>2 DEF LookUpSlug
<1> QED BY <1>4, <1>5 DEF Begin

LEMMA CheckRootRegistered == ASSUME Registered, NEW c \in ProjectCalls, CheckRoot(c) PROVE Registered'
<1>0. /\ UNCHANGED <<records, owner, checkouts, rows, restores, overlapped>>
      /\ projectAsks[c].at = "rooting" /\ projectAsks \in [ProjectCalls -> Ask]
      /\ Claim[c].id \in ProjectIds /\ Claim[c].root \in Roots
      /\ projectAsks[c].scope.id = Claim[c].id /\ projectAsks[c].known
      /\ restores = 0 => Fit(c, records[Claim[c].id])
  BY DEF Registered, CheckRoot, ProjectsTypeOK, AskInv
<1>1. OwnerInv' /\ RowInv' /\ RecordsGrow
  BY <1>0, RegistryKept DEF Registered
<1>2. CASE Refuse(c)
  <2>1. projectAsks' \in [ProjectCalls -> Ask] /\ AskInv'
    BY <1>0, <1>1, <1>2, AskStep, AskKept DEF Registered, Refuse
  <2> QED BY <1>0, <2>1, QuietRegistered
<1>3. CASE Accept(c, projectAsks[c].scope)
  <2>0. projectAsks[c].scope \in Scope
    BY <1>0 DEF Ask
  <2>1. projectAsks' \in [ProjectCalls -> Ask] /\ AskInv'
    BY <1>0, <1>1, <1>3, <2>0, AcceptStep, AskKept DEF Registered
  <2> QED BY <1>0, <2>1, QuietRegistered
<1>4. CASE OwnerOf(Claim[c].root) = None
           /\ projectAsks' = [projectAsks EXCEPT ![c].at = "claiming", ![c].free = (owner[Claim[c].root] = None)]
  <2> DEFINE r == [projectAsks[c] EXCEPT !.at = "claiming", !.free = (owner[Claim[c].root] = None)]
  <2>1. projectAsks' = [projectAsks EXCEPT ![c] = r]
    BY <1>0, <1>4
  <2>2. r \in Ask /\ r.at = "claiming" /\ r.free /\ r.known = projectAsks[c].known
    <3> DEFINE free == (owner[Claim[c].root] = None)
    <3>1. projectAsks[c] \in Ask /\ r = [projectAsks[c] EXCEPT !.at = "claiming", !.free = free]
      BY <1>0
    <3>2. free /\ free \in BOOLEAN
      BY <1>0, <1>4 DEF OwnerOf
    <3> HIDE DEF free, r
    <3> QED BY <3>1, <3>2 DEF Ask
  <2> HIDE DEF r
  <2>3. projectAsks'[c] = r /\ (\A d \in ProjectCalls \ {c} : projectAsks'[d] = projectAsks[d])
        /\ projectAsks' \in [ProjectCalls -> Ask]
    BY <1>0, <2>1, <2>2
  <2>4. AskInv'
    BY <1>0, <1>1, <2>2, <2>3, AskKept DEF Registered
  <2> QED BY <1>0, <2>3, <2>4, QuietRegistered
<1> QED BY <1>2, <1>3, <1>4 DEF CheckRoot

LEMMA ResolveNameRegistered == ASSUME Registered, NEW c \in ProjectCalls, ResolveName(c) PROVE Registered'
<1>0. UNCHANGED <<records, owner, checkouts, rows, restores, overlapped>>
  BY DEF ResolveName
<1>1. OwnerInv' /\ RowInv' /\ RecordsGrow
  BY <1>0, RegistryKept DEF Registered
<1>2. CASE Refuse(c)
  <2>1. projectAsks' \in [ProjectCalls -> Ask] /\ AskInv'
    BY <1>0, <1>1, <1>2, AskStep, AskKept DEF Registered, Refuse
  <2> QED BY <1>0, <2>1, QuietRegistered
<1> DEFINE plain == [Nowhere EXCEPT !.slug = Claim[c].slug, !.all = Claim[c].all]
<1>3. CASE Accept(c, plain)
  <2>0. plain \in Scope /\ plain.id = None
    BY ClaimTyped, ScopeTyped DEF Nowhere, Scope
  <2> HIDE DEF plain
  <2>1. projectAsks' \in [ProjectCalls -> Ask] /\ AskInv'
    BY <1>0, <1>1, <1>3, <2>0, AcceptStep, AskKept DEF Registered
  <2> QED BY <1>0, <2>1, QuietRegistered
<1> QED BY <1>2, <1>3 DEF ResolveName

\* A step that leaves the rows alone and finds the registry in order again.
LEMMA RowsKept ==
    ASSUME ProjectsTypeOK, RowInv, RecordsGrow, UNCHANGED <<rows, restores>>, overlapped \subseteq overlapped'
    PROVE  RowInv'
<1>1. ASSUME NEW row \in rows, row.id # None, overlapped = {}, restores = 0
      PROVE  records'[row.id] # None /\ row.slug \in {records'[row.id].name} \cup records'[row.id].slugs
  <2>1. row.id \in ProjectIds
    BY <1>1 DEF ProjectsTypeOK, MaybeId
  <2> QED BY <1>1, <2>1 DEF RowInv, RecordsGrow
<1> QED BY <1>1 DEF RowInv

\* An identity that was unknown is registered with a root nobody owns, or with none.
LEMMA NewIdentity ==
    ASSUME Registered, NEW i \in ProjectIds, ~Known(i), NEW r \in Roots \cup {None},
           r # None => owner[r] = None,
           NEW rec \in Record, rec.roots = {r} \ {None},
           records' = [records EXCEPT ![i] = rec], owner' = OwnerNow(i, r),
           UNCHANGED <<rows, restores>>, overlapped \subseteq overlapped'
    PROVE  /\ OwnerInv' /\ RowInv' /\ RecordsGrow
           /\ records' \in [ProjectIds -> Record \cup {None}] /\ owner' \in [Roots -> MaybeId]
<1>0. /\ records \in [ProjectIds -> Record \cup {None}] /\ owner \in [Roots -> ProjectIds \cup {None}]
      /\ records[i] = None /\ rec # None /\ None \notin ProjectIds /\ None \notin Roots
  BY RecordIsThere, ProjectsAssumption DEF Registered, ProjectsTypeOK, Known, MaybeId
<1>1. records'[i] = rec /\ \A j \in ProjectIds \ {i} : records'[j] = records[j]
  BY <1>0
<1>2. /\ owner' \in [Roots -> ProjectIds \cup {None}]
      /\ \A q \in Roots : owner'[q] = IF q = r THEN i ELSE owner[q]
  BY <1>0 DEF OwnerNow
<1>3. ASSUME NEW q \in Roots, owner'[q] # None
      PROVE  records'[owner'[q]] # None /\ q \in records'[owner'[q]].roots
  <2>1. CASE q = r
    BY <1>0, <1>1, <1>2, <2>1
  <2>2. CASE q # r
    BY <1>0, <1>1, <1>2, <1>3, <2>2 DEF Registered, OwnerInv
  <2> QED BY <2>1, <2>2
<1>4. ASSUME overlapped = {}, NEW j \in ProjectIds, records'[j] # None, NEW q \in records'[j].roots
      PROVE  owner'[q] = j
  <2>1. CASE j = i
    BY <1>0, <1>1, <1>2, <1>4, <2>1
  <2>2. CASE j # i
    <3>1. records[j] # None /\ q \in records[j].roots /\ records[j] \in Record
      BY <1>0, <1>1, <1>4, <2>2
    <3>2. owner[q] = j /\ q \in Roots
      BY <1>4, <3>1 DEF Registered, OwnerInv, Record
    <3> QED BY <1>0, <1>2, <3>2
  <2> QED BY <2>1, <2>2
<1>5. OwnerInv'
  BY <1>3, <1>4 DEF OwnerInv
<1>6. RecordsGrow
  BY <1>0, <1>1 DEF RecordsGrow
<1>7. RowInv'
  BY <1>6, RowsKept DEF Registered
<1> QED BY <1>0, <1>2, <1>5, <1>6, <1>7 DEF MaybeId

\* An identity that was known gains a root, which nobody owned unless calls raced, or slugs.
LEMMA GrownIdentity ==
    ASSUME Registered, NEW i \in ProjectIds, Known(i), NEW r \in Roots \cup {None},
           overlapped' = {} => (r # None => owner[r] = None),
           NEW rec \in Record, rec.roots = records[i].roots \cup ({r} \ {None}),
           rec.name = records[i].name, records[i].slugs \subseteq rec.slugs,
           records' = [records EXCEPT ![i] = rec], owner' = OwnerNow(i, r),
           UNCHANGED <<rows, restores>>, overlapped \subseteq overlapped'
    PROVE  /\ OwnerInv' /\ RowInv' /\ RecordsGrow
           /\ records' \in [ProjectIds -> Record \cup {None}] /\ owner' \in [Roots -> MaybeId]
<1>0. /\ records \in [ProjectIds -> Record \cup {None}] /\ owner \in [Roots -> ProjectIds \cup {None}]
      /\ records[i] # None /\ rec # None /\ None \notin ProjectIds /\ None \notin Roots
  BY RecordIsThere, ProjectsAssumption DEF Registered, ProjectsTypeOK, Known, MaybeId
<1>1. records'[i] = rec /\ \A j \in ProjectIds \ {i} : records'[j] = records[j]
  BY <1>0
<1>2. /\ owner' \in [Roots -> ProjectIds \cup {None}]
      /\ \A q \in Roots : owner'[q] = IF q = r THEN i ELSE owner[q]
  BY <1>0 DEF OwnerNow
<1>3. ASSUME NEW q \in Roots, owner'[q] # None
      PROVE  records'[owner'[q]] # None /\ q \in records'[owner'[q]].roots
  <2>1. CASE q = r
    BY <1>0, <1>1, <1>2, <2>1
  <2>2. CASE q # r
    <3>1. /\ owner'[q] = owner[q] /\ owner[q] \in ProjectIds
          /\ records[owner[q]] # None /\ q \in records[owner[q]].roots
      BY <1>0, <1>2, <1>3, <2>2 DEF Registered, OwnerInv
    <3> QED BY <1>0, <1>1, <3>1
  <2> QED BY <2>1, <2>2
<1>4. ASSUME overlapped' = {}, NEW j \in ProjectIds, records'[j] # None, NEW q \in records'[j].roots
      PROVE  owner'[q] = j
  <2>0. overlapped = {}
    BY <1>4
  <2>1. CASE j = i
    <3>1. q \in records[i].roots => q \in Roots /\ owner[q] = i
      BY <1>0, <2>0 DEF Registered, OwnerInv, Record
    <3> QED BY <1>0, <1>1, <1>2, <1>4, <2>1, <3>1
  <2>2. CASE j # i
    <3>1. records[j] # None /\ q \in records[j].roots /\ records[j] \in Record
      BY <1>0, <1>1, <1>4, <2>2
    <3>2. owner[q] = j /\ q \in Roots
      BY <2>0, <3>1 DEF Registered, OwnerInv, Record
    <3> QED BY <1>0, <1>2, <1>4, <3>2
  <2> QED BY <2>1, <2>2
<1>5. OwnerInv'
  BY <1>3, <1>4 DEF OwnerInv
<1>6. RecordsGrow
  BY <1>0, <1>1 DEF RecordsGrow
<1>7. RowInv'
  BY <1>6, RowsKept DEF Registered
<1> QED BY <1>0, <1>2, <1>5, <1>6, <1>7 DEF MaybeId

\* The conclusion of a step of a request.
LEMMA StepRegistered ==
    ASSUME Registered, UNCHANGED <<checkouts, rows, restores>>,
           overlapped' \subseteq ProjectCalls, OwnerInv', RowInv', AskInv',
           projectAsks' \in [ProjectCalls -> Ask],
           records' \in [ProjectIds -> Record \cup {None}], owner' \in [Roots -> MaybeId]
    PROVE  Registered'
BY DEF Registered, ProjectsTypeOK

LEMMA ClaimProjectRegistered == ASSUME Registered, NEW c \in ProjectCalls, ClaimProject(c) PROVE Registered'
<1> DEFINE i == Claim[c].id
           r == Claim[c].root
<1>0. /\ projectAsks[c].at = "claiming" /\ i \in ProjectIds /\ r \in Roots \cup {None}
      /\ UNCHANGED <<checkouts, rows, restores>>
      /\ overlapped \subseteq overlapped' /\ overlapped' \subseteq ProjectCalls
      /\ records \in [ProjectIds -> Record \cup {None}] /\ owner \in [Roots -> MaybeId]
      /\ Claim[c].name \in Slugs /\ Claim[c].slug \in Slugs \cup {None}
  BY ClaimTyped, ProjectsAssumption DEF Registered, ClaimProject, ProjectsTypeOK, AskInv
\* A request that found its identity found its root free, and both still hold without a race.
<1>1. ASSUME overlapped' = {}, Known(i)
      PROVE  /\ owner[r] = None
             /\ restores = 0 => Fit(c, records[i])
  BY <1>0, <1>1 DEF ClaimProject, Registered, AskInv
<1>2. ASSUME Refuse(c), UNCHANGED <<records, owner>>
      PROVE  Registered'
  <2>1. OwnerInv' /\ RowInv' /\ RecordsGrow
    BY <1>0, <1>2, RegistryKept DEF Registered
  <2>2. projectAsks' \in [ProjectCalls -> Ask] /\ AskInv'
    BY <1>0, <1>2, <2>1, AskStep, AskKept DEF Registered, Refuse
  <2> QED BY <1>0, <1>2, <2>1, <2>2, StepRegistered
<1>3. ASSUME NEW scope \in Scope, Accept(c, scope), scope.id = i,
             OwnerInv', RowInv', RecordsGrow,
             records' \in [ProjectIds -> Record \cup {None}], owner' \in [Roots -> MaybeId],
             restores = 0 /\ overlapped' = {} => Fit(c, records'[i])
      PROVE  Registered'
  <2>1. projectAsks' \in [ProjectCalls -> Ask] /\ AskInv'
    BY <1>0, <1>3, AcceptStep, AskKept DEF Registered
  <2> QED BY <1>0, <1>3, <2>1, StepRegistered
<1>4. CASE Register(c)
  <2> DEFINE rec == [name |-> Claim[c].name, roots |-> {r} \ {None},
                     slugs |-> {Claim[c].slug} \cap {Claim[c].name}]
  <2>1. rec \in Record /\ rec.name = Claim[c].name /\ rec.roots = {r} \ {None}
    BY <1>0 DEF Record
  <2>2. CASE Refuse(c) /\ UNCHANGED <<records, owner>>
    BY <1>2, <2>2
  <2>3. CASE /\ Claim[c].slug \in {None, Claim[c].name} /\ (r # None => owner[r] = None)
             /\ records' = [records EXCEPT ![i] = rec] /\ owner' = OwnerNow(i, r)
             /\ Accept(c, Stable(i, rec))
    <3>1. ~Known(i)
      BY <1>4 DEF Register
    <3>2. Stable(i, rec) \in Scope /\ Stable(i, rec).id = i
      BY <1>0, <2>1, ScopeTyped DEF Stable
    <3>3. Fit(c, rec)
      BY <2>1, <2>3, RecordIsThere DEF Fit
    <3> HIDE DEF rec
    <3>4. records'[i] = rec
      BY <1>0, <2>3
    <3>5. /\ OwnerInv' /\ RowInv' /\ RecordsGrow
          /\ records' \in [ProjectIds -> Record \cup {None}] /\ owner' \in [Roots -> MaybeId]
      BY <1>0, <2>1, <2>3, <3>1, NewIdentity
    <3> QED BY <1>3, <2>3, <3>2, <3>3, <3>4, <3>5
  <2> QED BY <1>4, <2>2, <2>3 DEF Register
<1>5. CASE Move(c)
  <2> DEFINE old == records[i]
  <2>1. Known(i) /\ old \in Record /\ old.roots \subseteq Roots
    BY <1>0, <1>5, RecordParts DEF Move, Registered
  <2>2. Stable(i, old) \in Scope /\ Stable(i, old).id = i
    BY <1>0, <2>1, ScopeTyped DEF Stable
  <2>3. CASE Refuse(c) /\ UNCHANGED <<records, owner>>
    BY <1>2, <2>3
  <2>4. CASE Accept(c, Stable(i, old)) /\ UNCHANGED <<records, owner>>
    <3>1. OwnerInv' /\ RowInv' /\ RecordsGrow
      BY <1>0, <2>4, RegistryKept DEF Registered
    <3>2. restores = 0 /\ overlapped' = {} => Fit(c, records'[i])
      BY <1>1, <2>1, <2>4
    <3> QED BY <1>0, <1>3, <2>2, <2>4, <3>1, <3>2
  <2>5. CASE /\ r # None /\ records' = [records EXCEPT ![i].roots = @ \cup {r}]
             /\ owner' = OwnerNow(i, r) /\ Accept(c, Stable(i, old))
    <3> DEFINE rec == [old EXCEPT !.roots = @ \cup {r}]
    <3>1. /\ rec \in Record /\ rec.name = old.name /\ old.slugs \subseteq rec.slugs
          /\ rec.roots = old.roots \cup ({r} \ {None})
      BY <1>0, <2>1, <2>5 DEF Record
    <3>2. records' = [records EXCEPT ![i] = rec]
      BY <1>0, <2>1, <2>5
    <3> HIDE DEF rec
    <3>3. overlapped' = {} => (r # None => owner[r] = None)
      BY <1>1, <2>1
    <3>4. /\ OwnerInv' /\ RowInv' /\ RecordsGrow
          /\ records' \in [ProjectIds -> Record \cup {None}] /\ owner' \in [Roots -> MaybeId]
      BY <1>0, <2>1, <2>5, <3>1, <3>2, <3>3, GrownIdentity
    <3>5. restores = 0 /\ overlapped' = {} => Fit(c, records'[i])
      BY <1>0, <1>1, <2>1, <3>4, FitKept
    <3> QED BY <1>3, <2>2, <2>5, <3>4, <3>5
  <2> QED BY <1>5, <2>3, <2>4, <2>5 DEF Move
<1> QED BY <1>4, <1>5 DEF ClaimProject

LEMMA WriteRegistered == ASSUME Registered, NEW c \in ProjectCalls, Write(c) PROVE Registered'
<1> DEFINE id == projectAsks[c].scope.id
           slug == IF Claim[c].slug = None /\ id # None THEN Claim[c].name ELSE Claim[c].slug
           row == [id |-> id, slug |-> slug]
<1>0. /\ UNCHANGED <<records, owner, checkouts, restores, overlapped>>
      /\ projectAsks[c].at = "accepted" /\ Goes(c, "done") /\ rows' = rows \cup {row}
      /\ id \in MaybeId /\ (id # None => id = Claim[c].id)
  BY DEF Registered, Write, ProjectsTypeOK, AskInv, Ask, Scope
<1>1. row \in [id : MaybeId, slug : Slugs \cup {None}] /\ row.id = id /\ row.slug = slug
  BY <1>0, ClaimTyped
<1>2. OwnerInv' /\ RecordsGrow
  BY <1>0 DEF Registered, OwnerInv, RecordsGrow
<1>3. ASSUME overlapped = {}, restores = 0, id # None
      PROVE  records[id] # None /\ slug \in {records[id].name} \cup records[id].slugs
  <2>1. Fit(c, records[id])
    BY <1>0, <1>3 DEF Registered, AskInv
  <2> QED BY <1>3, <2>1 DEF Fit
<1> HIDE DEF row, slug, id
<1>4. RowInv'
  BY <1>0, <1>1, <1>3 DEF Registered, RowInv
<1>5. projectAsks' \in [ProjectCalls -> Ask] /\ AskInv'
  BY <1>0, <1>2, AskStep, AskKept DEF Registered
<1>6. rows' \subseteq [id : MaybeId, slug : Slugs \cup {None}]
  BY <1>0, <1>1 DEF Registered, ProjectsTypeOK
<1> QED BY <1>0, <1>2, <1>4, <1>5, <1>6 DEF Registered, ProjectsTypeOK

LEMMA AdoptRegistered == ASSUME Registered, NEW c \in ProjectCalls, Adopt(c) PROVE Registered'
<1> DEFINE i == Claim[c].id
           r == Claim[c].root
           s == Claim[c].slug
<1>0. /\ i \in ProjectIds /\ r \in Roots \cup {None} /\ s \in Slugs /\ Claim[c].name \in Slugs
      /\ UNCHANGED <<checkouts, rows, restores, overlapped>>
      /\ overlapped \subseteq overlapped' /\ overlapped' \subseteq ProjectCalls
      /\ records \in [ProjectIds -> Record \cup {None}] /\ owner \in [Roots -> MaybeId]
  BY ClaimTyped DEF Registered, Adopt, ProjectsTypeOK
<1>1. ASSUME NEW step \in {"refused", "done"}, Goes(c, step), OwnerInv', RowInv', RecordsGrow,
             records' \in [ProjectIds -> Record \cup {None}], owner' \in [Roots -> MaybeId]
      PROVE  Registered'
  <2>1. projectAsks' \in [ProjectCalls -> Ask] /\ AskInv'
    BY <1>0, <1>1, AskStep, AskKept DEF Registered
  <2> QED BY <1>0, <1>1, <2>1, StepRegistered
<1>2. CASE Goes(c, "refused") /\ UNCHANGED <<records, owner>>
  <2>1. OwnerInv' /\ RowInv' /\ RecordsGrow
    BY <1>0, <1>2, RegistryKept DEF Registered
  <2> QED BY <1>0, <1>1, <1>2, <2>1
<1>3. CASE /\ Known(i) /\ records' = [records EXCEPT ![i].slugs = @ \cup {s}]
           /\ Goes(c, "done") /\ UNCHANGED owner
  <2> DEFINE rec == [records[i] EXCEPT !.slugs = @ \cup {s}]
  <2>1. records[i] \in Record
    BY <1>0, <1>3, RecordParts DEF Registered
  <2>2. /\ rec \in Record /\ rec.name = records[i].name /\ records[i].slugs \subseteq rec.slugs
        /\ rec.roots = records[i].roots \cup ({None} \ {None})
    BY <1>0, <2>1 DEF Record
  <2>3. records' = [records EXCEPT ![i] = rec]
    BY <1>0, <1>3
  <2> HIDE DEF rec
  <2>4. owner' = OwnerNow(i, None)
    BY <1>3 DEF OwnerNow
  <2>5. /\ OwnerInv' /\ RowInv' /\ RecordsGrow
        /\ records' \in [ProjectIds -> Record \cup {None}] /\ owner' \in [Roots -> MaybeId]
    BY <1>0, <1>3, <2>2, <2>3, <2>4, GrownIdentity
  <2> QED BY <1>1, <1>3, <2>5
<1>4. CASE /\ ~Known(i) /\ (r # None => owner[r] \in {None, i}) /\ Goes(c, "done")
           /\ records' = [records EXCEPT ![i] = [name |-> Claim[c].name, roots |-> {r} \ {None},
                                                 slugs |-> {s}]]
           /\ owner' = OwnerNow(i, r)
  <2> DEFINE rec == [name |-> Claim[c].name, roots |-> {r} \ {None}, slugs |-> {s}]
  <2>1. rec \in Record /\ rec.roots = {r} \ {None}
    BY <1>0 DEF Record
  <2>2. r # None => owner[r] = None
    BY <1>0, <1>4 DEF Registered, OwnerInv, Known
  <2>3. records' = [records EXCEPT ![i] = rec]
    BY <1>4
  <2> HIDE DEF rec
  <2>4. /\ OwnerInv' /\ RowInv' /\ RecordsGrow
        /\ records' \in [ProjectIds -> Record \cup {None}] /\ owner' \in [Roots -> MaybeId]
    BY <1>0, <1>4, <2>1, <2>2, <2>3, NewIdentity
  <2> QED BY <1>1, <1>4, <2>4
<1> QED BY <1>2, <1>3, <1>4 DEF Adopt

LEMMA RemoveRegistered == ASSUME Registered, NEW r \in Roots, Remove(r) PROVE Registered'
BY DEF Registered, Remove, ProjectsTypeOK, OwnerInv, AskInv, RowInv, Fit

LEMMA RestoreRegistered == ASSUME Registered, Restore PROVE Registered'
<1>1. /\ restores' \in 0..MaxRestores /\ restores' # 0
      /\ records' \in [ProjectIds -> Record \cup {None}] /\ owner' \in [Roots -> MaybeId]
      /\ \A i \in ProjectIds : records'[i] = None
      /\ \A r \in Roots : owner'[r] = None
      /\ UNCHANGED <<checkouts, rows, projectAsks, overlapped>>
  BY ProjectsAssumption DEF Registered, ProjectsTypeOK, Restore, MaybeId
<1>2. OwnerInv' /\ RowInv'
  BY <1>1 DEF OwnerInv, RowInv
<1>3. AskInv'
  BY <1>1 DEF Registered, AskInv
<1> QED BY <1>1, <1>2, <1>3 DEF Registered, ProjectsTypeOK

LEMMA InitRegistered == ASSUME ProjectsInit PROVE Registered
<1>1. ProjectsTypeOK
  BY ProjectsAssumption DEF ProjectsInit, ProjectsTypeOK, Ask, Scope, Nowhere, MaybeId
<1>2. OwnerInv /\ RowInv
  BY DEF ProjectsInit, OwnerInv, RowInv
<1>3. AskInv
  BY DEF ProjectsInit, AskInv
<1> QED BY <1>1, <1>2, <1>3 DEF Registered

LEMMA StutterRegistered == ASSUME Registered, UNCHANGED projectvars PROVE Registered'
BY DEF projectvars, Registered, ProjectsTypeOK, OwnerInv, AskInv, RowInv, Fit

LEMMA AlwaysRegistered == ProjectsSpec => []Registered
<1>1. Registered /\ [ProjectsNext]_projectvars => Registered'
  <2> SUFFICES ASSUME Registered, [ProjectsNext]_projectvars PROVE Registered'
    OBVIOUS
  <2>1. ASSUME NEW c \in ProjectCalls,
               Begin(c) \/ CheckRoot(c) \/ ClaimProject(c) \/ ResolveName(c) \/ Write(c) \/ Adopt(c)
        PROVE  Registered'
    BY <2>1, BeginRegistered, CheckRootRegistered, ClaimProjectRegistered, ResolveNameRegistered,
       WriteRegistered, AdoptRegistered
  <2>2. ASSUME NEW r \in Roots, Remove(r) PROVE Registered'
    BY <2>2, RemoveRegistered
  <2> QED BY <2>1, <2>2, RestoreRegistered, StutterRegistered DEF ProjectsNext
<1> QED BY <1>1, InitRegistered, PTL DEF ProjectsSpec

\* The registry, the index and the requests keep their types (projects.rs).
THEOREM ProjectsTypeCorrect == ProjectsSpec => []ProjectsTypeOK
BY AlwaysRegistered, PTL DEF Registered

\* Whatever claims race, whatever checkouts move and whenever the store is restored: the
\* index names an identity that lists the root; without a race at a claim no two identities
\* list one root; and without a restore either, a row carries a name of its identity.
THEOREM OwnersAlwaysAgree == ProjectsSpec => []OwnersAgree
<1>1. Registered => OwnersAgree
  <2> SUFFICES ASSUME Registered PROVE OwnersAgree
    OBVIOUS
  <2>1. ASSUME overlapped = {}, NEW i \in ProjectIds, NEW j \in ProjectIds, i # j, Known(i), Known(j)
        PROVE  records[i].roots \cap records[j].roots = {}
    BY <2>1 DEF Registered, OwnerInv, Known
  <2>2. \A r \in Roots : owner[r] # None => Known(owner[r]) /\ r \in records[owner[r]].roots
    BY DEF Registered, OwnerInv, Known
  <2>3. overlapped = {} /\ restores = 0 =>
           \A row \in rows : row.id # None =>
               Known(row.id) /\ row.slug \in {records[row.id].name} \cup records[row.id].slugs
    BY DEF Registered, RowInv, Known
  <2> QED BY <2>1, <2>2, <2>3 DEF OwnersAgree
<1> QED BY <1>1, AlwaysRegistered, PTL

-----------------------------------------------------------------------------
(* Guides: types.                                                          *)

LEMMA NoGuideTyped ==
    /\ NoGuide \in Guide /\ NoGuide.rev = 0 /\ NoGuide.memories = {}
    /\ \A c \in GuideCalls : NoGuide.parts[c] = 0
    /\ Fresh \in Guide /\ Fresh.rev = 1 /\ Fresh.memories = {} /\ Fresh.parts = NoGuide.parts
BY DEF NoGuide, Guide, Parts, Fresh

\* A guide into which one more call has gone, at a revision.
LEMMA GuideWith ==
    ASSUME NEW g \in Guide, NEW c \in GuideCalls, NEW k \in Nat, NEW mems \in SUBSET GuideMemories
    PROVE  /\ With(g, c) \in Guide
           /\ With(g, c).rev = g.rev /\ With(g, c).memories = g.memories
           /\ With(g, c).parts[c] = g.parts[c] + 1
           /\ \A d \in GuideCalls \ {c} : With(g, c).parts[d] = g.parts[d]
           /\ [g EXCEPT !.rev = k] \in Guide
           /\ [g EXCEPT !.rev = k].parts = g.parts /\ [g EXCEPT !.rev = k].rev = k
           /\ [g EXCEPT !.rev = k].memories = g.memories
           /\ [g EXCEPT !.memories = @ \cup mems] \in Guide
           /\ [g EXCEPT !.memories = @ \cup mems].parts = g.parts
           /\ [g EXCEPT !.memories = @ \cup mems].rev = g.rev
           /\ [g EXCEPT !.memories = @ \cup mems].memories = g.memories \cup mems
<1>1. g.parts \in [GuideCalls -> Nat] /\ g.rev \in Nat /\ g.memories \in SUBSET GuideMemories
  BY DEF Guide, Parts
<1> DEFINE p == [g.parts EXCEPT ![c] = @ + 1]
<1>2. p \in [GuideCalls -> Nat] /\ p[c] = g.parts[c] + 1 /\ \A d \in GuideCalls \ {c} : p[d] = g.parts[d]
  BY <1>1
<1>3. With(g, c) = [g EXCEPT !.parts = p]
  BY DEF With, Guide
<1> HIDE DEF p
<1>4. /\ With(g, c) \in Guide /\ With(g, c).parts = p
      /\ With(g, c).rev = g.rev /\ With(g, c).memories = g.memories
  BY <1>2, <1>3 DEF Guide, Parts
<1>5. /\ [g EXCEPT !.rev = k] \in Guide
      /\ [g EXCEPT !.rev = k].parts = g.parts /\ [g EXCEPT !.rev = k].rev = k
      /\ [g EXCEPT !.rev = k].memories = g.memories
  BY DEF Guide
<1>6. /\ [g EXCEPT !.memories = @ \cup mems] \in Guide
      /\ [g EXCEPT !.memories = @ \cup mems].parts = g.parts
      /\ [g EXCEPT !.memories = @ \cup mems].rev = g.rev
      /\ [g EXCEPT !.memories = @ \cup mems].memories = g.memories \cup mems
  BY DEF Guide
<1> QED BY <1>2, <1>4, <1>5, <1>6

LEMMA OpTyped ==
    ASSUME NEW c \in GuideCalls
    PROVE  /\ GuideOp[c].kind \in Kinds
           /\ GuideOp[c].guides \in Seq(GuideNames) /\ Len(GuideOp[c].guides) > 0
           /\ GuideOp[c].guides[1] \in GuideNames
           /\ GuideOp[c].to \in GuideNames /\ GuideOp[c].memories \in SUBSET GuideMemories
<1>1. /\ GuideOp[c].kind \in Kinds
      /\ GuideOp[c].guides \in Seq(GuideNames) /\ Len(GuideOp[c].guides) > 0
      /\ GuideOp[c].to \in GuideNames /\ GuideOp[c].memories \subseteq GuideMemories
  BY GuidesAssumption
<1> DEFINE s == GuideOp[c].guides
<1>2. s \in Seq(GuideNames) /\ Len(s) > 0
  BY <1>1
<1> HIDE DEF s
<1>3. s[1] \in GuideNames
  BY <1>2
<1> QED BY <1>1, <1>3 DEF s

LEMMA AsksTyped == \A a \in Asks : a[1] \in GuideCalls
BY DEF Asks

\* An answer ends the request; another step moves it on with what it has read.
LEMMA RequestAnswered ==
    ASSUME GuidesTypeOK, NEW a \in Asks, NEW answer \in {"success", "error"}, Answer(a, answer)
    PROVE  /\ guideAsks' \in [Asks -> GuideRequest]
           /\ heard' \in [GuideCalls -> SUBSET {"success", "error"}]
           /\ guideAsks'[a].read = <<>> /\ guideAsks'[a].step = "answered"
           /\ \A b \in Asks \ {a} : guideAsks'[b] = guideAsks[b]
<1> DEFINE r == [NotAsked EXCEPT !.step = "answered"]
<1>1. r.step = "answered" /\ r.read = <<>>
      /\ r \in GuideRequest
  <2>1. r = [step |-> "answered", read |-> <<>>]
    BY DEF NotAsked
  <2>2. <<>> \in Seq(GuideCopy)
    OBVIOUS
  <2> QED BY <2>1, <2>2 DEF GuideRequest
<1>2. guideAsks' = [guideAsks EXCEPT ![a] = r]
  BY DEF Answer
<1>3. guideAsks \in [Asks -> GuideRequest]
  BY DEF GuidesTypeOK, GuideCopy
<1> HIDE DEF r
<1>4. heard' \in [GuideCalls -> SUBSET {"success", "error"}]
  BY AsksTyped DEF Answer, GuidesTypeOK
<1> QED BY <1>1, <1>2, <1>3, <1>4

LEMMA RequestMoved ==
    ASSUME GuidesTypeOK, NEW a \in Asks, UNCHANGED heard,
           NEW r \in GuideRequest,
           guideAsks' = [guideAsks EXCEPT ![a] = r]
    PROVE  /\ guideAsks' \in [Asks -> GuideRequest]
           /\ heard' \in [GuideCalls -> SUBSET {"success", "error"}]
           /\ guideAsks'[a] = r
           /\ \A b \in Asks \ {a} : guideAsks'[b] = guideAsks[b]
BY DEF GuidesTypeOK, GuideCopy

-----------------------------------------------------------------------------
(* Guides: the invariant.                                                  *)

\* A name without a guide has nothing of one, and no memory refers to it.
GoneInv ==
    /\ \A n \in GuideNames : guides[n].rev = 0 => guides[n] = NoGuide
    /\ \A m \in GuideMemories : \A n \in related[m] : guides[n].rev > 0

\* What a request has read are guides, those its call names but for a creation.
PlanInv ==
    \A a \in Asks :
        /\ \A i \in DOMAIN guideAsks[a].read : guideAsks[a].read[i].guide.rev > 0
        /\ guideAsks[a].step = "unsent" => guideAsks[a].read = <<>>
        /\ guideAsks[a].step = "checked" => Len(guideAsks[a].read) < Len(GuideOp[a[1]].guides)
        /\ GuideOp[a[1]].kind # "create" =>
              \A i \in DOMAIN guideAsks[a].read :
                  i \in DOMAIN GuideOp[a[1]].guides /\ guideAsks[a].read[i].name = GuideOp[a[1]].guides[i]
        /\ guideAsks[a].step = "listing" => GuideOp[a[1]].kind = "create"
        /\ guideAsks[a].step = "planned" /\ GuideOp[a[1]].kind \in {"update", "rename", "merge"} =>
              Len(guideAsks[a].read) = Len(GuideOp[a[1]].guides)

\* A copy of a guide is of the revision the guide still has, or of an earlier one, as
\* long as no name is used again.
Held(r) ==
    IF guides[r.name].rev > 0
       THEN /\ guides[r.name].rev >= r.guide.rev
            /\ guides[r.name].rev = r.guide.rev => guides[r.name] = r.guide
       ELSE Removed(r.name)

HeldInv == \A a \in Asks : \A i \in DOMAIN guideAsks[a].read : Held(guideAsks[a].read[i])

BackInv == \A n \in GuideNames : \A m \in guides[n].memories : n \in related[m]

LinkedInv == GuidesTypeOK /\ GoneInv /\ PlanInv /\ (~reborn => HeldInv /\ BackInv)

\* What a step makes of a name: it stays, its guide grows, its guide goes, or it gets a
\* guide it never had.
NameStep(n) ==
    \/ guides'[n] = guides[n]
    \/ guides[n].rev > 0 /\ guides'[n].rev > guides[n].rev
    \/ /\ guides'[n].rev = 0
       /\ \E c \in log' : /\ GuideOp[c].kind \in {"forget", "rename", "merge"}
                          /\ \E i \in DOMAIN GuideOp[c].guides : GuideOp[c].guides[i] = n
    \/ guides[n].rev = 0 /\ ~Removed(n)

LEMMA HeldKept ==
    ASSUME GuidesTypeOK, guides' \in [GuideNames -> Guide], log \subseteq log',
           NEW r \in GuideCopy, r.guide.rev > 0, Held(r), NameStep(r.name)
    PROVE  IF guides'[r.name].rev > 0
              THEN /\ guides'[r.name].rev >= r.guide.rev
                   /\ guides'[r.name].rev = r.guide.rev => guides'[r.name] = r.guide
              ELSE \E c \in log' : /\ GuideOp[c].kind \in {"forget", "rename", "merge"}
                                   /\ \E i \in DOMAIN GuideOp[c].guides : GuideOp[c].guides[i] = r.name
<1>1. /\ r.name \in GuideNames /\ r.guide.rev \in Nat
      /\ guides[r.name].rev \in Nat /\ guides'[r.name].rev \in Nat
  BY DEF GuideCopy, Guide, GuidesTypeOK
<1>2. Removed(r.name) => \E c \in log' : /\ GuideOp[c].kind \in {"forget", "rename", "merge"}
                                         /\ \E i \in DOMAIN GuideOp[c].guides : GuideOp[c].guides[i] = r.name
  BY DEF Removed
<1>3. CASE guides'[r.name] = guides[r.name]
  BY <1>1, <1>2, <1>3 DEF Held
<1>4. CASE guides[r.name].rev > 0 /\ guides'[r.name].rev > guides[r.name].rev
  BY <1>1, <1>4 DEF Held
<1>5. CASE /\ guides'[r.name].rev = 0
           /\ \E c \in log' : /\ GuideOp[c].kind \in {"forget", "rename", "merge"}
                              /\ \E i \in DOMAIN GuideOp[c].guides : GuideOp[c].guides[i] = r.name
  BY <1>1, <1>5
<1>6. CASE guides[r.name].rev = 0 /\ ~Removed(r.name)
  BY <1>1, <1>6 DEF Held
<1> QED BY <1>3, <1>4, <1>5, <1>6 DEF NameStep

\* The copies that are held after a commit are copies that were held before.
LEMMA HeldAfterCommit ==
    ASSUME GuidesTypeOK, PlanInv, HeldInv, guides' \in [GuideNames -> Guide], log \subseteq log',
           \A n \in GuideNames : NameStep(n), NEW a \in Asks,
           guideAsks'[a].read = <<>>, \A b \in Asks \ {a} : guideAsks'[b] = guideAsks[b]
    PROVE  HeldInv'
<1> SUFFICES ASSUME NEW b \in Asks, NEW i \in DOMAIN guideAsks'[b].read
             PROVE  LET r == guideAsks'[b].read[i] IN
                    IF guides'[r.name].rev > 0
                       THEN /\ guides'[r.name].rev >= r.guide.rev
                            /\ guides'[r.name].rev = r.guide.rev => guides'[r.name] = r.guide
                       ELSE \E c \in log' : /\ GuideOp[c].kind \in {"forget", "rename", "merge"}
                                            /\ \E j \in DOMAIN GuideOp[c].guides : GuideOp[c].guides[j] = r.name
  BY DEF HeldInv, Held, Removed
<1>1. b # a /\ guideAsks'[b] = guideAsks[b]
  BY DEF HeldInv
<1> DEFINE r == guideAsks[b].read[i]
<1>2. guideAsks[b].read \in Seq(GuideCopy) /\ i \in DOMAIN guideAsks[b].read
  BY <1>1 DEF GuidesTypeOK, GuideCopy, GuideRequest
<1>3. r \in GuideCopy
  BY <1>2
<1>4. r.guide.rev > 0 /\ Held(r)
  BY <1>2 DEF PlanInv, HeldInv
<1>5. NameStep(r.name)
  BY <1>3 DEF GuideCopy
<1> QED BY <1>1, <1>3, <1>4, <1>5, HeldKept

LEMMA PlanAfterCommit ==
    ASSUME PlanInv, NEW a \in Asks, guideAsks'[a].read = <<>>, guideAsks'[a].step = "answered",
           \A b \in Asks \ {a} : guideAsks'[b] = guideAsks[b]
    PROVE  PlanInv'
<1> SUFFICES ASSUME NEW b \in Asks
             PROVE  /\ \A i \in DOMAIN guideAsks'[b].read : guideAsks'[b].read[i].guide.rev > 0
                    /\ guideAsks'[b].step = "unsent" => guideAsks'[b].read = <<>>
                    /\ guideAsks'[b].step = "checked" => Len(guideAsks'[b].read) < Len(GuideOp[b[1]].guides)
                    /\ GuideOp[b[1]].kind # "create" =>
                          \A i \in DOMAIN guideAsks'[b].read :
                              /\ i \in DOMAIN GuideOp[b[1]].guides
                              /\ guideAsks'[b].read[i].name = GuideOp[b[1]].guides[i]
                    /\ guideAsks'[b].step = "listing" => GuideOp[b[1]].kind = "create"
                    /\ guideAsks'[b].step = "planned" /\ GuideOp[b[1]].kind \in {"update", "rename", "merge"} =>
                          Len(guideAsks'[b].read) = Len(GuideOp[b[1]].guides)
  BY DEF PlanInv
<1>1. CASE b = a
  BY <1>1
<1>2. CASE b # a
  BY <1>2 DEF PlanInv
<1> QED BY <1>1, <1>2

\* A commit that answers its request and leaves the guides in order.
LEMMA CommitLinked ==
    ASSUME LinkedInv, NEW a \in Asks, NEW answer \in {"success", "error"}, Answer(a, answer),
           guides' \in [GuideNames -> Guide], related' \in [GuideMemories -> SUBSET GuideNames],
           log' \subseteq GuideCalls, lost' \subseteq GuideCalls, reborn' \in BOOLEAN,
           log \subseteq log', GoneInv', reborn => reborn',
           ~reborn' => BackInv' /\ \A n \in GuideNames : NameStep(n)
    PROVE  LinkedInv'
<1>1. GuidesTypeOK'
  BY RequestAnswered DEF LinkedInv, GuidesTypeOK, GuideCopy
<1>2. /\ guideAsks'[a].read = <<>> /\ guideAsks'[a].step = "answered"
      /\ \A b \in Asks \ {a} : guideAsks'[b] = guideAsks[b]
  BY RequestAnswered DEF LinkedInv
<1>3. PlanInv'
  BY <1>2, PlanAfterCommit DEF LinkedInv
<1>4. ~reborn' => HeldInv'
  BY <1>2, HeldAfterCommit DEF LinkedInv
<1> QED BY <1>1, <1>3, <1>4 DEF LinkedInv

\* A guide that grows, or a new one; memories and the guide know each other after.
LEMMA GrownLinked ==
    ASSUME LinkedInv, NEW a \in Asks, NEW x \in GuideNames, NEW g \in Guide,
           NEW mems \in SUBSET GuideMemories, Answer(a, "success"),
           guides' = [guides EXCEPT ![x] = g],
           related' = [m \in GuideMemories |-> IF m \in mems THEN related[m] \cup {x} ELSE related[m]],
           log' \subseteq GuideCalls, log \subseteq log', UNCHANGED lost,
           g.rev > guides[x].rev,
           (guides[x].rev > 0 /\ reborn' = reborn) \/ (guides[x].rev = 0 /\ reborn' = (reborn \/ Removed(x))),
           ~reborn => g.memories \subseteq guides[x].memories \cup mems
    PROVE  LinkedInv'
<1>1. /\ guides \in [GuideNames -> Guide] /\ related \in [GuideMemories -> SUBSET GuideNames]
      /\ reborn \in BOOLEAN /\ lost \subseteq GuideCalls /\ guides[x].rev \in Nat /\ g.rev \in Nat
  BY DEF LinkedInv, GuidesTypeOK, Guide
<1>2. /\ guides' \in [GuideNames -> Guide] /\ guides'[x] = g
      /\ \A n \in GuideNames \ {x} : guides'[n] = guides[n]
  BY <1>1
<1>3. /\ related' \in [GuideMemories -> SUBSET GuideNames]
      /\ \A m \in GuideMemories : related'[m] = IF m \in mems THEN related[m] \cup {x} ELSE related[m]
  BY <1>1
<1>4. g.rev > 0
  BY <1>1
<1>5. GoneInv'
  <2>1. ASSUME NEW n \in GuideNames, guides'[n].rev = 0 PROVE guides'[n] = NoGuide
    BY <1>2, <1>4, <2>1 DEF LinkedInv, GoneInv
  <2>2. ASSUME NEW m \in GuideMemories, NEW n \in related'[m] PROVE guides'[n].rev > 0
    <3>1. n = x \/ n \in related[m]
      BY <1>3, <2>2
    <3>2. n \in GuideNames
      BY <1>1, <3>1
    <3> QED BY <1>2, <1>4, <3>1, <3>2 DEF LinkedInv, GoneInv
  <2> QED BY <2>1, <2>2 DEF GoneInv
<1>6. ASSUME ~reborn' PROVE BackInv' /\ \A n \in GuideNames : NameStep(n)
  <2>0. ~reborn /\ (guides[x].rev = 0 => ~Removed(x))
    <3>1. CASE guides[x].rev > 0 /\ reborn' = reborn
      BY <1>1, <1>6, <3>1
    <3>2. CASE guides[x].rev = 0 /\ reborn' = (reborn \/ Removed(x))
      <4>1. ~reborn /\ ~Removed(x)
        BY <1>6, <3>2
      <4> QED BY <4>1
    <3> QED BY <3>1, <3>2
  <2>1. ~reborn /\ BackInv /\ (guides[x].rev = 0 => ~Removed(x))
    BY <2>0 DEF LinkedInv
  <2>2. ASSUME NEW n \in GuideNames, NEW m \in guides'[n].memories PROVE n \in related'[m]
    <3>0. m \in GuideMemories
      BY <1>2, <2>2 DEF Guide
    <3>1. CASE n = x
      <4>1. m \in guides[x].memories \/ m \in mems
        BY <1>2, <2>1, <2>2, <3>1
      <4> QED BY <1>3, <2>1, <3>0, <3>1, <4>1 DEF BackInv
    <3>2. CASE n # x
      <4>1. n \in related[m]
        BY <1>2, <2>1, <2>2, <3>2 DEF BackInv
      <4> QED BY <1>3, <3>0, <4>1
    <3> QED BY <3>1, <3>2
  <2>3. ASSUME NEW n \in GuideNames PROVE NameStep(n)
    <3>1. CASE n = x
      BY <1>1, <1>2, <2>1, <3>1 DEF NameStep
    <3>2. CASE n # x
      BY <1>2, <3>2 DEF NameStep
    <3> QED BY <3>1, <3>2
  <2> QED BY <2>2, <2>3 DEF BackInv
<1> QED BY <1>1, <1>2, <1>3, <1>5, <1>6, CommitLinked

\* A guide has one part more than another.
OneMore(g, h, c) ==
    g.parts[c] = h.parts[c] + 1 /\ \A d \in GuideCalls \ {c} : g.parts[d] = h.parts[d]

\* Guides give way to one under a name that had none.
Taken(c, old, to, g) ==
    /\ GuideOp[c].kind \in {"rename", "merge"}
    /\ \A n \in old : guides[n].rev > 0 /\ \E i \in DOMAIN GuideOp[c].guides : GuideOp[c].guides[i] = n
    /\ guides[to].rev = 0 /\ g.rev > 0
    /\ ~reborn => \A m \in g.memories : \E n \in old : m \in guides[n].memories
    /\ guides' = [n \in GuideNames |-> IF n = to THEN g ELSE IF n \in old THEN NoGuide ELSE guides[n]]
    /\ related' = Moved(old, to)
    /\ log' = log \cup {c} /\ UNCHANGED lost /\ reborn' = (reborn \/ Removed(to))

\* The memories of the guides taken refer to it.
LEMMA TakenLinked ==
    ASSUME LinkedInv, NEW a \in Asks, NEW c \in GuideCalls, NEW old \in SUBSET GuideNames,
           NEW to \in GuideNames, NEW g \in Guide, Taken(c, old, to, g), Answer(a, "success")
    PROVE  LinkedInv'
<1>0. /\ GuideOp[c].kind \in {"rename", "merge"}
      /\ \A n \in old : guides[n].rev > 0 /\ \E i \in DOMAIN GuideOp[c].guides : GuideOp[c].guides[i] = n
      /\ guides[to].rev = 0 /\ g.rev > 0
      /\ ~reborn => \A m \in g.memories : \E n \in old : m \in guides[n].memories
      /\ guides' = [n \in GuideNames |-> IF n = to THEN g ELSE IF n \in old THEN NoGuide ELSE guides[n]]
      /\ related' = Moved(old, to)
      /\ log' = log \cup {c} /\ UNCHANGED lost /\ reborn' = (reborn \/ Removed(to))
  BY DEF Taken
<1>1. /\ guides \in [GuideNames -> Guide] /\ related \in [GuideMemories -> SUBSET GuideNames]
      /\ reborn \in BOOLEAN /\ lost \subseteq GuideCalls /\ log \subseteq GuideCalls
  BY DEF LinkedInv, GuidesTypeOK
<1>2. /\ guides' \in [GuideNames -> Guide] /\ guides'[to] = g /\ to \notin old
      /\ \A n \in old : guides'[n] = NoGuide
      /\ \A n \in GuideNames \ (old \cup {to}) : guides'[n] = guides[n]
  BY <1>0, <1>1, NoGuideTyped
<1>3. /\ related' \in [GuideMemories -> SUBSET GuideNames]
      /\ \A m \in GuideMemories :
            related'[m] = IF related[m] \cap old = {} THEN related[m] ELSE (related[m] \ old) \cup {to}
  BY <1>0, <1>1 DEF Moved
<1>4. GoneInv'
  <2>1. ASSUME NEW n \in GuideNames, guides'[n].rev = 0 PROVE guides'[n] = NoGuide
    BY <1>0, <1>2, <2>1 DEF LinkedInv, GoneInv
  <2>2. ASSUME NEW m \in GuideMemories, NEW n \in related'[m] PROVE guides'[n].rev > 0
    <3>1. n = to \/ (n \in related[m] /\ n \notin old)
      BY <1>3, <2>2
    <3>2. CASE n = to
      BY <1>0, <1>2, <3>2
    <3>3. CASE n \in related[m] /\ n \notin old /\ n # to
      <4>1. n \in GuideNames /\ guides[n].rev > 0
        BY <1>1, <3>3 DEF LinkedInv, GoneInv
      <4> QED BY <1>2, <3>3, <4>1
    <3> QED BY <3>1, <3>2, <3>3
  <2> QED BY <2>1, <2>2 DEF GoneInv
<1>5. ASSUME ~reborn' PROVE BackInv' /\ \A n \in GuideNames : NameStep(n)
  <2>1. ~reborn /\ BackInv /\ ~Removed(to)
    BY <1>0, <1>1, <1>5 DEF LinkedInv
  <2>2. ASSUME NEW n \in GuideNames, NEW m \in guides'[n].memories PROVE n \in related'[m]
    <3>0. m \in GuideMemories
      BY <1>2, <2>2 DEF Guide
    <3>1. CASE n = to
      <4>1. PICK o \in old : m \in guides[o].memories
        BY <1>0, <1>2, <2>1, <2>2, <3>1
      <4>2. o \in related[m]
        BY <2>1, <4>1 DEF BackInv
      <4> QED BY <1>3, <3>0, <3>1, <4>2
    <3>2. CASE n \in old
      BY <1>2, <2>2, <3>2, NoGuideTyped
    <3>3. CASE n \notin old /\ n # to
      <4>1. n \in related[m]
        BY <1>2, <2>1, <2>2, <3>3 DEF BackInv
      <4> QED BY <1>3, <3>0, <3>3, <4>1
    <3> QED BY <3>1, <3>2, <3>3
  <2>3. ASSUME NEW n \in GuideNames PROVE NameStep(n)
    <3>1. CASE n = to
      BY <1>0, <2>1, <3>1 DEF NameStep
    <3>2. CASE n \in old
      <4>1. guides'[n].rev = 0
        BY <1>2, <3>2, NoGuideTyped
      <4>2. c \in log' /\ GuideOp[c].kind \in {"forget", "rename", "merge"}
            /\ \E i \in DOMAIN GuideOp[c].guides : GuideOp[c].guides[i] = n
        BY <1>0, <3>2
      <4> QED BY <4>1, <4>2 DEF NameStep
    <3>3. CASE n \notin old /\ n # to
      BY <1>2, <3>3 DEF NameStep
    <3> QED BY <3>1, <3>2, <3>3
  <2> QED BY <2>2, <2>3 DEF BackInv
<1>6. reborn' \in BOOLEAN /\ (reborn => reborn') /\ log' \subseteq GuideCalls
  BY <1>0, <1>1
<1> QED BY <1>0, <1>1, <1>2, <1>3, <1>4, <1>5, <1>6, CommitLinked

\* A guide that is forgotten.
LEMMA ForgottenLinked ==
    ASSUME LinkedInv, NEW a \in Asks, NEW c \in GuideCalls, GuideOp[c].kind = "forget",
           NEW n \in GuideNames, \E i \in DOMAIN GuideOp[c].guides : GuideOp[c].guides[i] = n,
           Answer(a, "success"), guides' = [guides EXCEPT ![n] = NoGuide], related' = Unreferenced(n),
           log' = log \cup {c}, lost' \subseteq GuideCalls, UNCHANGED reborn
    PROVE  LinkedInv'
<1>1. /\ guides \in [GuideNames -> Guide] /\ related \in [GuideMemories -> SUBSET GuideNames]
      /\ reborn \in BOOLEAN /\ log \subseteq GuideCalls
  BY DEF LinkedInv, GuidesTypeOK
<1>2. /\ guides' \in [GuideNames -> Guide] /\ guides'[n] = NoGuide
      /\ \A o \in GuideNames \ {n} : guides'[o] = guides[o]
  BY <1>1, NoGuideTyped
<1>3. /\ related' \in [GuideMemories -> SUBSET GuideNames]
      /\ \A m \in GuideMemories : related'[m] = related[m] \ {n}
  BY <1>1 DEF Unreferenced
<1>4. GoneInv'
  <2>1. ASSUME NEW o \in GuideNames, guides'[o].rev = 0 PROVE guides'[o] = NoGuide
    BY <1>2, <2>1 DEF LinkedInv, GoneInv
  <2>2. ASSUME NEW m \in GuideMemories, NEW o \in related'[m] PROVE guides'[o].rev > 0
    BY <1>1, <1>2, <1>3, <2>2 DEF LinkedInv, GoneInv
  <2> QED BY <2>1, <2>2 DEF GoneInv
<1>5. ASSUME ~reborn' PROVE BackInv' /\ \A o \in GuideNames : NameStep(o)
  <2>1. BackInv
    BY <1>5 DEF LinkedInv
  <2>2. ASSUME NEW o \in GuideNames, NEW m \in guides'[o].memories PROVE o \in related'[m]
    <3>1. m \in GuideMemories /\ o # n
      BY <1>2, <2>2, NoGuideTyped DEF Guide
    <3> QED BY <1>2, <1>3, <2>1, <2>2, <3>1 DEF BackInv
  <2>3. ASSUME NEW o \in GuideNames PROVE NameStep(o)
    <3>1. CASE o = n
      <4>1. guides'[o].rev = 0
        BY <1>2, <3>1, NoGuideTyped
      <4>2. c \in log' /\ GuideOp[c].kind \in {"forget", "rename", "merge"}
            /\ \E i \in DOMAIN GuideOp[c].guides : GuideOp[c].guides[i] = o
        BY <3>1
      <4> QED BY <4>1, <4>2 DEF NameStep
    <3>2. CASE o # n
      BY <1>2, <3>2 DEF NameStep
    <3> QED BY <3>1, <3>2
  <2> QED BY <2>2, <2>3 DEF BackInv
<1>6. log' \subseteq GuideCalls /\ lost' \subseteq GuideCalls
  BY <1>1
<1> QED BY <1>1, <1>2, <1>3, <1>4, <1>5, <1>6, CommitLinked

\* A request that reads, or is answered without a change.
LEMMA QuietLinked ==
    ASSUME LinkedInv, UNCHANGED GuideStore, NEW a \in Asks, NEW answer \in {"success", "error"}, Answer(a, answer)
    PROVE  LinkedInv'
<1>1. GoneInv' /\ (BackInv => BackInv') /\ \A n \in GuideNames : NameStep(n)
  BY DEF GuideStore, LinkedInv, GoneInv, BackInv, NameStep
<1>2. /\ guides' \in [GuideNames -> Guide] /\ related' \in [GuideMemories -> SUBSET GuideNames]
      /\ log' \subseteq GuideCalls /\ lost' \subseteq GuideCalls /\ reborn' \in BOOLEAN
      /\ log \subseteq log' /\ (reborn => reborn') /\ (~reborn' => BackInv')
  BY <1>1 DEF GuideStore, LinkedInv, GuidesTypeOK
<1> QED BY <1>1, <1>2, CommitLinked

\* A request that goes on with what it has read.
Progress(a, r) ==
    /\ \A i \in DOMAIN r.read : r.read[i].guide.rev > 0
    /\ r.step = "unsent" => r.read = <<>>
    /\ r.step = "checked" => Len(r.read) < Len(GuideOp[a[1]].guides)
    /\ GuideOp[a[1]].kind # "create" =>
          \A i \in DOMAIN r.read :
              i \in DOMAIN GuideOp[a[1]].guides /\ r.read[i].name = GuideOp[a[1]].guides[i]
    /\ r.step = "listing" => GuideOp[a[1]].kind = "create"
    /\ r.step = "planned" /\ GuideOp[a[1]].kind \in {"update", "rename", "merge"} =>
          Len(r.read) = Len(GuideOp[a[1]].guides)

LEMMA MovedLinked ==
    ASSUME LinkedInv, UNCHANGED GuideStore, UNCHANGED heard, NEW a \in Asks,
           NEW r \in GuideRequest,
           guideAsks' = [guideAsks EXCEPT ![a] = r], Progress(a, r),
           ~reborn => \A i \in DOMAIN r.read : Held(r.read[i])
    PROVE  LinkedInv'
<1>1. /\ guideAsks' \in [Asks -> GuideRequest]
      /\ guideAsks'[a] = r /\ \A b \in Asks \ {a} : guideAsks'[b] = guideAsks[b]
  BY RequestMoved DEF LinkedInv
<1>2. GuidesTypeOK'
  BY <1>1 DEF LinkedInv, GuidesTypeOK, GuideStore, GuideCopy
<1>3. GoneInv' /\ (BackInv => BackInv')
  BY DEF GuideStore, LinkedInv, GoneInv, BackInv
<1>4. PlanInv'
  <2> SUFFICES ASSUME NEW b \in Asks PROVE Progress(b, guideAsks'[b])
    BY DEF PlanInv, Progress
  <2>1. CASE b = a
    BY <1>1, <2>1
  <2>2. CASE b # a
    <3>1. Progress(b, guideAsks[b])
      BY DEF LinkedInv, PlanInv, Progress
    <3> QED BY <1>1, <2>2, <3>1
  <2> QED BY <2>1, <2>2
<1>5. ASSUME ~reborn' PROVE HeldInv' /\ BackInv'
  <2>1. ~reborn /\ HeldInv /\ BackInv
    BY <1>5 DEF LinkedInv, GuideStore
  <2>2. ASSUME NEW b \in Asks, NEW i \in DOMAIN guideAsks'[b].read
        PROVE  Held(guideAsks'[b].read[i])
    <3>1. CASE b = a
      BY <1>1, <2>1, <2>2, <3>1
    <3>2. CASE b # a
      BY <1>1, <2>1, <2>2, <3>2 DEF HeldInv
    <3> QED BY <3>1, <3>2
  <2>3. HeldInv'
    BY <2>2 DEF HeldInv, Held, Removed, GuideStore
  <2> QED BY <1>3, <2>1, <2>3
<1> QED BY <1>2, <1>3, <1>4, <1>5 DEF LinkedInv

\* What a request keeps.
LEMMA RequestTyped ==
    ASSUME LinkedInv, NEW a \in Asks
    PROVE  /\ a[1] \in GuideCalls
           /\ guideAsks[a] \in GuideRequest
           /\ Progress(a, guideAsks[a])
           /\ \A i \in DOMAIN guideAsks[a].read : /\ guideAsks[a].read[i] \in GuideCopy
                                                  /\ guideAsks[a].read[i].name \in GuideNames
                                                  /\ guideAsks[a].read[i].guide \in Guide
           /\ ~reborn => \A i \in DOMAIN guideAsks[a].read : Held(guideAsks[a].read[i])
<1>1. guideAsks[a] \in GuideRequest
  BY DEF LinkedInv, GuidesTypeOK, GuideCopy
<1> DEFINE s == guideAsks[a].read
<1>2. s \in Seq(GuideCopy)
  BY <1>1 DEF GuideRequest
<1>3. Progress(a, guideAsks[a])
  BY DEF LinkedInv, PlanInv, Progress
<1>4. ~reborn => \A i \in DOMAIN guideAsks[a].read : Held(guideAsks[a].read[i])
  BY DEF LinkedInv, HeldInv
<1> HIDE DEF s
<1>5. \A i \in DOMAIN s : s[i] \in GuideCopy
  BY <1>2
<1>6. \A i \in DOMAIN s : s[i].name \in GuideNames /\ s[i].guide \in Guide
  BY <1>5 DEF GuideCopy
<1> QED BY <1>1, <1>3, <1>4, <1>5, <1>6, AsksTyped DEF s

LEMMA CheckLogLinked == ASSUME LinkedInv, NEW a \in Asks, CheckLog(a) PROVE LinkedInv'
<1>1. CASE a[1] \in log
  BY <1>1, QuietLinked DEF CheckLog
<1>2. CASE a[1] \notin log
  <2> DEFINE step == IF Reading(a) THEN "checked" ELSE "planned"
             r == [step |-> step, read |-> <<>>]
  <2>1. guideAsks[a].step = "unsent" /\ guideAsks[a].read = <<>>
    BY RequestTyped DEF CheckLog, Progress
  <2>2. r \in GuideRequest
    <3>1. <<>> \in Seq(GuideCopy)
      OBVIOUS
    <3> QED BY <3>1 DEF GuideRequest
  <2>3. Progress(a, r)
    BY OpTyped, AsksTyped DEF Progress, Reading
  <2>4. [guideAsks[a] EXCEPT !.step = step] = r
    BY <2>1, RequestTyped DEF GuideRequest
  <2>5. /\ guideAsks' = [guideAsks EXCEPT ![a] = [guideAsks[a] EXCEPT !.step = step]]
        /\ UNCHANGED heard /\ UNCHANGED GuideStore
    BY <1>2 DEF CheckLog
  <2>6. guideAsks' = [guideAsks EXCEPT ![a] = r]
    BY <2>4, <2>5
  <2>7. \A i \in DOMAIN r.read : Held(r.read[i])
    OBVIOUS
  <2> HIDE DEF r
  <2> QED BY <2>2, <2>3, <2>5, <2>6, <2>7, MovedLinked
<1> QED BY <1>1, <1>2

\* A copy of a guide, taken now.
LEMMA CopyHeld ==
    ASSUME LinkedInv, NEW n \in GuideNames, Live(n)
    PROVE  /\ [name |-> n, guide |-> guides[n]] \in GuideCopy
           /\ Held([name |-> n, guide |-> guides[n]])
BY DEF LinkedInv, GuidesTypeOK, GuideCopy, Live, Held, Guide

LEMMA ReadGuideLinked == ASSUME LinkedInv, NEW a \in Asks, ReadGuide(a) PROVE LinkedInv'
<1> DEFINE op == GuideOp[a[1]]
           old == guideAsks[a].read
           n == op.guides[Len(old) + 1]
           new == [name |-> n, guide |-> guides[n]]
           read == Append(old, new)
<1>1. /\ guideAsks[a].step = "checked" /\ UNCHANGED GuideStore
      /\ IF Live(n)
         THEN /\ guideAsks' = [guideAsks EXCEPT ![a] =
                     [step |-> IF Len(read) = Len(op.guides) THEN "planned" ELSE "checked", read |-> read]]
              /\ UNCHANGED heard
         ELSE IF op.kind = "create"
              THEN guideAsks' = [guideAsks EXCEPT ![a].step = "listing"] /\ UNCHANGED heard
              ELSE Answer(a, "error")
  BY DEF ReadGuide
<1>2. /\ op.guides \in Seq(GuideNames) /\ op.kind \in Kinds
  BY OpTyped, AsksTyped
<1>3. /\ old \in Seq(GuideCopy) /\ Len(old) < Len(op.guides) /\ Progress(a, guideAsks[a])
      /\ \A i \in DOMAIN old : old[i].guide.rev > 0
      /\ ~reborn => \A i \in DOMAIN old : Held(old[i])
  BY <1>1, RequestTyped DEF Progress, GuideRequest
<1>4. CASE Live(n)
  <2>1. n \in GuideNames /\ Len(old) \in Nat
    BY <1>2, <1>3
  <2>2. new \in GuideCopy /\ Held(new) /\ new.guide.rev > 0 /\ new.name = n
    BY <1>4, <2>1, CopyHeld DEF Live
  <2> HIDE DEF n, new, old, op
  <2>3. /\ read \in Seq(GuideCopy) /\ Len(read) = Len(old) + 1 /\ DOMAIN read = 1..(Len(old) + 1)
        /\ DOMAIN old = 1..Len(old)
        /\ \A i \in DOMAIN read : read[i] = IF i = Len(old) + 1 THEN new ELSE old[i]
    BY <1>3, <2>2
  <2>4. Len(op.guides) \in Nat /\ DOMAIN op.guides = 1..Len(op.guides)
    BY <1>2
  <2> DEFINE r == [step |-> IF Len(read) = Len(op.guides) THEN "planned" ELSE "checked", read |-> read]
  <2>5. r \in GuideRequest
    BY <2>3 DEF GuideRequest
  <2> HIDE DEF read
  <2>6. Progress(a, r)
    <3>1. \A i \in DOMAIN read : read[i].guide.rev > 0
      BY <1>3, <2>1, <2>2, <2>3
    <3>2. op.kind # "create" => \A i \in DOMAIN read : i \in DOMAIN op.guides /\ read[i].name = op.guides[i]
      <4> SUFFICES ASSUME op.kind # "create", NEW i \in DOMAIN read
                   PROVE  i \in DOMAIN op.guides /\ read[i].name = op.guides[i]
        OBVIOUS
      <4>1. CASE i = Len(old) + 1
        <5>1. read[i].name = n
          BY <2>2, <2>3, <4>1
        <5>2. n = op.guides[Len(old) + 1]
          BY DEF n, op, old
        <5> QED BY <1>3, <2>1, <2>3, <2>4, <4>1, <5>1, <5>2
      <4>2. CASE i # Len(old) + 1
        <5>1. i \in DOMAIN old /\ read[i] = old[i]
          BY <2>1, <2>3, <4>2
        <5>2. i \in DOMAIN op.guides /\ old[i].name = op.guides[i]
          BY <1>3, <5>1 DEF Progress, op, old
        <5> QED BY <5>1, <5>2
      <4> QED BY <4>1, <4>2
    <3>3. Len(read) <= Len(op.guides)
      BY <1>3, <2>1, <2>3, <2>4
    <3>4. r.step = "checked" => Len(read) < Len(op.guides)
      BY <2>1, <2>3, <2>4, <3>3
    <3>5. r.step = "planned" => Len(read) = Len(op.guides)
      OBVIOUS
    <3>6. r.step \in {"planned", "checked"} /\ r.read = read
      OBVIOUS
    <3> QED BY <3>1, <3>2, <3>4, <3>5, <3>6 DEF Progress, op
  <2>7. ~reborn => \A i \in DOMAIN r.read : Held(r.read[i])
    BY <1>3, <2>1, <2>2, <2>3
  <2>8. guideAsks' = [guideAsks EXCEPT ![a] = r] /\ UNCHANGED heard /\ UNCHANGED GuideStore
    BY <1>1, <1>4
  <2> HIDE DEF r
  <2> QED BY <2>5, <2>6, <2>7, <2>8, MovedLinked
<1>5. CASE ~Live(n) /\ op.kind = "create"
  <2> DEFINE r == [guideAsks[a] EXCEPT !.step = "listing"]
  <2>1. r \in GuideRequest
        /\ r.read = old /\ r.step = "listing"
    BY RequestTyped DEF GuideRequest
  <2>2. guideAsks' = [guideAsks EXCEPT ![a] = r] /\ UNCHANGED heard /\ UNCHANGED GuideStore
    BY <1>1, <1>5
  <2> HIDE DEF r
  <2>3. Progress(a, r)
    BY <1>3, <1>5, <2>1 DEF Progress
  <2> QED BY <1>3, <2>1, <2>2, <2>3, MovedLinked
<1>6. CASE ~Live(n) /\ op.kind # "create"
  BY <1>1, <1>6, QuietLinked
<1> QED BY <1>4, <1>5, <1>6

LEMMA ReadSimilarLinked == ASSUME LinkedInv, NEW a \in Asks, ReadSimilar(a) PROVE LinkedInv'
<1>1. /\ guideAsks[a].step = "listing" /\ UNCHANGED GuideStore /\ UNCHANGED heard
      /\ GuideOp[a[1]].kind = "create"
  BY RequestTyped DEF ReadSimilar, Progress
<1>2. CASE guideAsks' = [guideAsks EXCEPT ![a].step = "planned"]
  <2> DEFINE r == [guideAsks[a] EXCEPT !.step = "planned"]
  <2>1. r \in GuideRequest
        /\ r.read = guideAsks[a].read /\ r.step = "planned"
    BY RequestTyped DEF GuideRequest
  <2>2. guideAsks' = [guideAsks EXCEPT ![a] = r]
    BY <1>2
  <2> HIDE DEF r
  <2>3. Progress(a, r)
    BY <1>1, <2>1, RequestTyped DEF Progress
  <2>4. ~reborn => \A i \in DOMAIN r.read : Held(r.read[i])
    BY <2>1, RequestTyped
  <2> QED BY <1>1, <2>1, <2>2, <2>3, <2>4, MovedLinked
<1>3. ASSUME NEW m \in GuideNames, Live(m),
             guideAsks' = [guideAsks EXCEPT ![a] = [step |-> "planned",
                                                    read |-> <<[name |-> m, guide |-> guides[m]]>>]]
      PROVE  LinkedInv'
  <2> DEFINE copy == [name |-> m, guide |-> guides[m]]
             r == [step |-> "planned", read |-> <<copy>>]
  <2>1. copy \in GuideCopy /\ Held(copy) /\ copy.guide.rev > 0
    BY <1>3, CopyHeld DEF Live
  <2>2. guideAsks' = [guideAsks EXCEPT ![a] = r]
    BY <1>3
  <2> HIDE DEF copy
  <2>3. /\ r \in GuideRequest
        /\ r.step = "planned" /\ DOMAIN r.read = {1} /\ r.read[1] = copy
    BY <2>1 DEF GuideRequest
  <2> HIDE DEF r
  <2>4. Progress(a, r)
    BY <1>1, <2>1, <2>3 DEF Progress
  <2> QED BY <1>1, <2>1, <2>2, <2>3, <2>4, MovedLinked
<1> QED BY <1>2, <1>3 DEF ReadSimilar

\* What an unchanged plan says of the guide it was made on.
LEMMA PlannedCopy ==
    ASSUME LinkedInv, NEW a \in Asks, NEW i \in DOMAIN guideAsks[a].read, AsPlanned(guideAsks[a].read[i])
    PROVE  LET r == guideAsks[a].read[i] IN
           /\ r.name \in GuideNames /\ r.guide \in Guide
           /\ guides[r.name].rev > 0 /\ guides[r.name].rev = r.guide.rev
           /\ ~reborn => guides[r.name] = r.guide
<1> DEFINE r == guideAsks[a].read[i]
<1>1. r.name \in GuideNames /\ r.guide \in Guide /\ (~reborn => Held(r))
  BY RequestTyped
<1>2. Live(r.name) /\ guides[r.name].rev = r.guide.rev
  BY DEF AsPlanned
<1> HIDE DEF r
<1>3. ~reborn => guides[r.name] = r.guide
  BY <1>1, <1>2 DEF Held, Live
<1> QED BY <1>1, <1>2, <1>3 DEF Live, r

LEMMA FirstRead ==
    ASSUME LinkedInv, NEW a \in Asks
    PROVE  /\ guideAsks[a].step = "planned" /\ GuideOp[a[1]].kind \in {"update", "rename"} =>
                 1 \in DOMAIN guideAsks[a].read
           /\ guideAsks[a].read # <<>> => 1 \in DOMAIN guideAsks[a].read
<1> DEFINE s == guideAsks[a].read
<1>1. s \in Seq(GuideCopy) /\ Progress(a, guideAsks[a]) /\ Len(GuideOp[a[1]].guides) > 0
      /\ GuideOp[a[1]].guides \in Seq(GuideNames)
  BY RequestTyped, OpTyped DEF GuideRequest
<1> HIDE DEF s
<1>2. s # <<>> => 1 \in DOMAIN s
  BY <1>1
<1>3. Len(s) > 0 => 1 \in DOMAIN s
  BY <1>1
<1>4. guideAsks[a].step = "planned" /\ GuideOp[a[1]].kind \in {"update", "rename"} =>
        Len(guideAsks[a].read) = Len(GuideOp[a[1]].guides)
  BY <1>1 DEF Progress
<1> QED BY <1>1, <1>2, <1>3, <1>4 DEF s

\* The guide an update or a creation that meets another leaves.
LEMMA UpdatedLinked ==
    ASSUME LinkedInv, NEW a \in Asks, 1 \in DOMAIN guideAsks[a].read, AsPlanned(guideAsks[a].read[1]),
           Done(a), UNCHANGED <<related, lost, reborn>>,
           guides' = [guides EXCEPT ![guideAsks[a].read[1].name] =
                         [With(guideAsks[a].read[1].guide, a[1]) EXCEPT
                             !.rev = Next1(guideAsks[a].read[1].name)]]
    PROVE  LinkedInv'
<1> DEFINE r == guideAsks[a].read[1]
           x == r.name
           h == With(r.guide, a[1])
           k == Next1(x)
           g == [h EXCEPT !.rev = k]
<1>1. /\ r.name \in GuideNames /\ r.guide \in Guide /\ guides[x].rev > 0
      /\ ~reborn => guides[x] = r.guide
  BY PlannedCopy
<1>2. a[1] \in GuideCalls /\ Answer(a, "success") /\ log' \subseteq GuideCalls /\ log \subseteq log'
  BY AsksTyped DEF Done, LinkedInv, GuidesTypeOK
<1>3. guides' = [guides EXCEPT ![x] = g]
  OBVIOUS
<1> HIDE DEF r
<1>4. guides[x].rev \in Nat /\ guides[x].memories \in SUBSET GuideMemories
      /\ related \in [GuideMemories -> SUBSET GuideNames]
  BY <1>1 DEF LinkedInv, GuidesTypeOK, Guide
<1>5. k \in Nat /\ k > guides[x].rev
  BY <1>4 DEF Next1
<1>6. h \in Guide /\ h.memories = r.guide.memories
  BY <1>1, <1>2, GuideWith
<1> HIDE DEF h, k
<1>7. g \in Guide /\ g.rev = k /\ g.memories = h.memories
  BY <1>5, <1>6 DEF Guide
<1>8. related' = [m \in GuideMemories |-> IF m \in {} THEN related[m] \cup {x} ELSE related[m]]
  BY <1>4
<1>9. {} \in SUBSET GuideMemories /\ (~reborn => g.memories \subseteq guides[x].memories \cup {})
  BY <1>1, <1>6, <1>7
<1>10. g.rev > guides[x].rev /\ guides[x].rev > 0 /\ reborn' = reborn /\ UNCHANGED lost
  BY <1>1, <1>5, <1>7
<1> HIDE DEF g, x
<1>11. x \in GuideNames
  BY <1>1 DEF x
<1> QED BY <1>2, <1>3, <1>7, <1>8, <1>9, <1>10, <1>11, GrownLinked

LEMMA CreateLinked == ASSUME LinkedInv, NEW a \in Asks, Create(a) PROVE LinkedInv'
<1> DEFINE c == a[1]
           n == GuideOp[c].guides[1]
           r == guideAsks[a].read[1]
<1>0. c \in GuideCalls /\ n \in GuideNames
  BY AsksTyped, OpTyped
<1>1. CASE /\ guideAsks[a].read = <<>> /\ ~Live(n)
           /\ Done(a) /\ Born(n)
           /\ guides' = [guides EXCEPT ![n] = With(Fresh, c)]
           /\ UNCHANGED <<related, lost>>
  <2>1. Answer(a, "success") /\ log' \subseteq GuideCalls /\ log \subseteq log'
    BY <1>0, <1>1 DEF Done, LinkedInv, GuidesTypeOK
  <2> HIDE DEF n, c
  <2> DEFINE g == With(Fresh, c)
  <2>2. g \in Guide /\ g.rev = 1 /\ g.memories = {}
    BY <1>0, NoGuideTyped, GuideWith
  <2>3. /\ guides[n].rev = 0 /\ related \in [GuideMemories -> SUBSET GuideNames]
    BY <1>0, <1>1 DEF Live, LinkedInv, GuidesTypeOK, Guide
  <2>4. related' = [m \in GuideMemories |-> IF m \in {} THEN related[m] \cup {n} ELSE related[m]]
    BY <1>1, <2>3
  <2>5. guides' = [guides EXCEPT ![n] = g] /\ UNCHANGED lost
    BY <1>1
  <2>6. reborn' = (reborn \/ Removed(n))
    BY <1>1 DEF Born
  <2>7. g.rev > guides[n].rev /\ {} \in SUBSET GuideMemories
        /\ (~reborn => g.memories \subseteq guides[n].memories \cup {})
    BY <2>2, <2>3
  <2> HIDE DEF g
  <2> QED BY <1>0, <2>1, <2>2, <2>3, <2>4, <2>5, <2>6, <2>7, GrownLinked
<1>2. CASE /\ guideAsks[a].read # <<>> /\ AsPlanned(r)
           /\ Done(a)
           /\ guides' = [guides EXCEPT ![r.name] = [With(r.guide, c) EXCEPT !.rev = Next1(r.name)]]
           /\ UNCHANGED <<related, lost, reborn>>
  BY <1>2, FirstRead, UpdatedLinked
<1>3. CASE Refused(a)
  BY <1>3, QuietLinked DEF Refused
<1> QED BY <1>1, <1>2, <1>3 DEF Create

LEMMA UpdateLinked == ASSUME LinkedInv, NEW a \in Asks, Update(a) PROVE LinkedInv'
<1> DEFINE r == guideAsks[a].read[1]
<1>1. 1 \in DOMAIN guideAsks[a].read
  BY FirstRead DEF Update, Planned
<1>2. CASE AsPlanned(r)
  <2>1. /\ Done(a)
        /\ guides' = [guides EXCEPT ![r.name] = [With(r.guide, a[1]) EXCEPT !.rev = Next1(r.name)]]
        /\ UNCHANGED <<related, lost, reborn>>
    BY <1>2 DEF Update
  <2> QED BY <1>1, <1>2, <2>1, UpdatedLinked
<1>3. CASE ~AsPlanned(r)
  BY <1>3, QuietLinked DEF Update, Refused
<1> QED BY <1>2, <1>3

LEMMA RenameTaken ==
    ASSUME LinkedInv, NEW a \in Asks, Rename(a)
    PROVE  \/ Refused(a)
           \/ /\ Done(a)
              /\ \E x \in GuideNames, g \in Guide : /\ Taken(a[1], {x}, GuideOp[a[1]].to, g)
                                                    /\ ~reborn => OneMore(g, guides[x], a[1])
<1> DEFINE c == a[1]
           to == GuideOp[c].to
           r == guideAsks[a].read[1]
           x == r.name
           h == With(r.guide, c)
           k == Next1(x)
           g == [h EXCEPT !.rev = k]
<1>0. /\ c \in GuideCalls /\ to \in GuideNames /\ GuideOp[c].kind = "rename"
      /\ GuideOp[c].guides \in Seq(GuideNames)
      /\ 1 \in DOMAIN guideAsks[a].read
  BY AsksTyped, OpTyped, FirstRead DEF Rename, Planned
<1>1. CASE AsPlanned(r) /\ ~Live(to)
  <2>1. /\ Answer(a, "success") /\ log' = log \cup {c} /\ UNCHANGED lost /\ related' = Moved({x}, to)
        /\ guides' = [guides EXCEPT ![x] = NoGuide, ![to] = g]
        /\ reborn' = (reborn \/ Removed(to))
    BY <1>1 DEF Rename, Done, Born
  <2>2. /\ x \in GuideNames /\ r.guide \in Guide /\ guides[x].rev > 0
        /\ ~reborn => guides[x] = r.guide
    BY <1>0, <1>1, PlannedCopy
  <2>3. x = GuideOp[c].guides[1] /\ 1 \in DOMAIN GuideOp[c].guides
    BY <1>0, RequestTyped DEF Progress
  <2> HIDE DEF c, r
  <2>4. guides[to].rev = 0 /\ x # to /\ guides[x].rev \in Nat /\ guides \in [GuideNames -> Guide]
    BY <1>0, <1>1, <2>2 DEF Live, LinkedInv, GuidesTypeOK, Guide
  <2>5. k \in Nat /\ k > 0
    BY <2>4 DEF Next1
  <2>6. h \in Guide /\ h.memories = r.guide.memories /\ OneMore(h, r.guide, c)
    BY <1>0, <2>2, GuideWith DEF OneMore
  <2> HIDE DEF h, k
  <2>7. g \in Guide /\ g.rev = k /\ g.memories = h.memories /\ g.parts = h.parts
    BY <2>5, <2>6 DEF Guide
  <2> HIDE DEF g, x, to
  <2> DEFINE old == {x}
  <2>8. guides' = [n \in GuideNames |-> IF n = to THEN g ELSE IF n \in old THEN NoGuide ELSE guides[n]]
    BY <1>0, <2>1, <2>2, <2>4
  <2>9. old \in SUBSET GuideNames /\ GuideOp[c].kind \in {"rename", "merge"}
    BY <1>0, <2>2 DEF x
  <2>10. \A n \in old : guides[n].rev > 0 /\ \E i \in DOMAIN GuideOp[c].guides : GuideOp[c].guides[i] = n
    BY <2>2, <2>3 DEF x
  <2>11. ~reborn => \A m \in g.memories : \E n \in old : m \in guides[n].memories
    BY <2>2, <2>6, <2>7 DEF x
  <2>12. related' = Moved(old, to) /\ g.rev > 0
    BY <2>1, <2>5, <2>7
  <2>13. Taken(c, old, to, g)
    BY <2>1, <2>4, <2>8, <2>9, <2>10, <2>11, <2>12 DEF Taken
  <2>14. ~reborn => OneMore(g, guides[x], c)
    BY <2>2, <2>6, <2>7 DEF OneMore, x
  <2>15. x \in GuideNames /\ Done(a)
    BY <1>1, <2>2 DEF x, r, to, c, Rename
  <2> QED BY <2>7, <2>13, <2>14, <2>15 DEF c, to
<1>2. CASE ~(AsPlanned(r) /\ ~Live(to))
  BY <1>2 DEF Rename
<1> QED BY <1>1, <1>2

LEMMA RenameLinked == ASSUME LinkedInv, NEW a \in Asks, Rename(a) PROVE LinkedInv'
<1>1. CASE Refused(a)
  BY <1>1, QuietLinked DEF Refused
<1>2. ASSUME Done(a), NEW x \in GuideNames, NEW g \in Guide, Taken(a[1], {x}, GuideOp[a[1]].to, g)
      PROVE  LinkedInv'
  <2>1. a[1] \in GuideCalls /\ GuideOp[a[1]].to \in GuideNames /\ {x} \in SUBSET GuideNames
    BY AsksTyped, OpTyped
  <2>2. Answer(a, "success")
    BY <1>2 DEF Done
  <2> QED BY <1>2, <2>1, <2>2, TakenLinked
<1> QED BY <1>1, <1>2, RenameTaken

LEMMA ForgetLinked == ASSUME LinkedInv, NEW a \in Asks, ForgetGuide(a) PROVE LinkedInv'
<1> DEFINE c == a[1]
           n == GuideOp[c].guides[1]
<1>0. /\ c \in GuideCalls /\ n \in GuideNames /\ GuideOp[c].kind = "forget"
      /\ 1 \in DOMAIN GuideOp[c].guides
  BY AsksTyped, OpTyped DEF ForgetGuide, Planned
<1>1. CASE Live(n)
  <2>1. /\ Answer(a, "success") /\ log' = log \cup {c} /\ UNCHANGED reborn /\ related' = Unreferenced(n)
        /\ guides' = [guides EXCEPT ![n] = NoGuide]
        /\ lost' = lost \cup {d \in GuideCalls : guides[n].parts[d] > 0}
    BY <1>1 DEF ForgetGuide, Done
  <2>2. lost' \subseteq GuideCalls
    BY <2>1 DEF LinkedInv, GuidesTypeOK
  <2> QED BY <1>0, <2>1, <2>2, ForgottenLinked
<1>2. CASE ~Live(n)
  BY <1>2, QuietLinked DEF ForgetGuide, Refused
<1> QED BY <1>1, <1>2

LEMMA SumTyped ==
    ASSUME NEW reads \in Seq(GuideCopy) PROVE SumParts(reads) \in Parts
<1> SUFFICES ASSUME NEW c \in GuideCalls
             PROVE  Cardinality({i \in DOMAIN reads : reads[i].guide.parts[c] > 0}) \in Nat
  BY DEF SumParts, Parts
<1>1. IsFiniteSet(DOMAIN reads)
  BY FS_Interval
<1>2. IsFiniteSet({i \in DOMAIN reads : reads[i].guide.parts[c] > 0})
  BY <1>1, FS_Subset
<1> QED BY <1>2, FS_CardinalityType

LEMMA MergeTaken ==
    ASSUME LinkedInv, NEW a \in Asks, MergeGuides(a)
    PROVE  \/ Refused(a)
           \/ /\ Done(a)
              /\ \E g \in Guide :
                    /\ g.parts = SumParts(guideAsks[a].read)
                    /\ Taken(a[1], {guideAsks[a].read[i].name : i \in DOMAIN guideAsks[a].read},
                             GuideOp[a[1]].to, g)
              /\ ~reborn => \A i \in DOMAIN guideAsks[a].read :
                               /\ guides[guideAsks[a].read[i].name] = guideAsks[a].read[i].guide
                               /\ i \in DOMAIN GuideOp[a[1]].guides
                               /\ guideAsks[a].read[i].name = GuideOp[a[1]].guides[i]
<1> DEFINE c == a[1]
           to == GuideOp[c].to
           reads == guideAsks[a].read
           old == {reads[i].name : i \in DOMAIN reads}
           mems == UNION {reads[i].guide.memories : i \in DOMAIN reads}
           p == SumParts(reads)
           g == [Fresh EXCEPT !.parts = p, !.memories = mems]
<1>0. /\ c \in GuideCalls /\ to \in GuideNames /\ GuideOp[c].kind = "merge"
      /\ reads \in Seq(GuideCopy) /\ Progress(a, guideAsks[a])
      /\ \A i \in DOMAIN reads : reads[i].name \in GuideNames /\ reads[i].guide \in Guide
  BY AsksTyped, OpTyped, RequestTyped DEF MergeGuides, Planned, GuideRequest
<1>1. CASE (\A i \in DOMAIN reads : AsPlanned(reads[i])) /\ ~Live(to)
  <2>1. /\ Answer(a, "success") /\ log' = log \cup {c} /\ UNCHANGED lost /\ related' = Moved(old, to)
        /\ guides' = [n \in GuideNames |-> IF n = to THEN g ELSE IF n \in old THEN NoGuide ELSE guides[n]]
        /\ reborn' = (reborn \/ Removed(to))
    BY <1>1 DEF MergeGuides, Done, Born
  <2>2. \A i \in DOMAIN reads : /\ guides[reads[i].name].rev > 0
                                /\ ~reborn => guides[reads[i].name] = reads[i].guide
                                /\ i \in DOMAIN GuideOp[c].guides /\ reads[i].name = GuideOp[c].guides[i]
    BY <1>0, <1>1, PlannedCopy DEF Progress
  <2>3. p \in Parts
    BY <1>0, SumTyped
  <2>4. mems \in SUBSET GuideMemories
    <3>1. \A i \in DOMAIN reads : reads[i].guide.memories \subseteq GuideMemories
      BY <1>0 DEF Guide
    <3> QED BY <3>1
  <2>5. guides[to].rev = 0
    BY <1>0, <1>1 DEF Live, LinkedInv, GuidesTypeOK, Guide
  <2>6. ~reborn => \A m \in mems : \E n \in old : m \in guides[n].memories
    <3> SUFFICES ASSUME ~reborn, NEW m \in mems PROVE \E n \in old : m \in guides[n].memories
      OBVIOUS
    <3>1. PICK i \in DOMAIN reads : m \in reads[i].guide.memories
      OBVIOUS
    <3>2. guides[reads[i].name] = reads[i].guide /\ reads[i].name \in old
      BY <2>2, <3>1
    <3> QED BY <3>1, <3>2
  <2>7. old \in SUBSET GuideNames
    BY <1>0
  <2>8. \A n \in old : guides[n].rev > 0 /\ \E i \in DOMAIN GuideOp[c].guides : GuideOp[c].guides[i] = n
    <3> SUFFICES ASSUME NEW i \in DOMAIN reads
                 PROVE  /\ guides[reads[i].name].rev > 0
                        /\ \E j \in DOMAIN GuideOp[c].guides : GuideOp[c].guides[j] = reads[i].name
      OBVIOUS
    <3> QED BY <2>2
  <2> HIDE DEF mems, p, old, reads
  <2>9. g \in Guide /\ g.rev = 1 /\ g.memories = mems /\ g.parts = p
    BY <2>3, <2>4, NoGuideTyped DEF Guide
  <2> HIDE DEF g, to
  <2>10. Taken(c, old, to, g)
    BY <1>0, <2>1, <2>5, <2>6, <2>8, <2>9 DEF Taken
  <2>11. Done(a)
    BY <1>1 DEF MergeGuides, to, reads
  <2>12. g \in Guide /\ g.parts = SumParts(reads) /\ Taken(a[1], old, GuideOp[a[1]].to, g)
    BY <2>9, <2>10 DEF p, to
  <2> QED BY <2>2, <2>11, <2>12 DEF reads, old
<1>2. CASE ~((\A i \in DOMAIN reads : AsPlanned(reads[i])) /\ ~Live(to))
  BY <1>2 DEF MergeGuides
<1> QED BY <1>1, <1>2

LEMMA MergeLinked == ASSUME LinkedInv, NEW a \in Asks, MergeGuides(a) PROVE LinkedInv'
<1> DEFINE old == {guideAsks[a].read[i].name : i \in DOMAIN guideAsks[a].read}
<1>1. CASE Refused(a)
  BY <1>1, QuietLinked DEF Refused
<1>2. ASSUME Done(a), NEW g \in Guide, Taken(a[1], old, GuideOp[a[1]].to, g) PROVE LinkedInv'
  <2>1. a[1] \in GuideCalls /\ GuideOp[a[1]].to \in GuideNames /\ old \in SUBSET GuideNames
    BY AsksTyped, OpTyped, RequestTyped
  <2>2. Answer(a, "success")
    BY <1>2 DEF Done
  <2> HIDE DEF old
  <2> QED BY <1>2, <2>1, <2>2, TakenLinked
<1> QED BY <1>1, <1>2, MergeTaken

LEMMA GrowLinked == ASSUME LinkedInv, NEW a \in Asks, Grow(a) PROVE LinkedInv'
<1> DEFINE c == a[1]
           n == GuideOp[c].guides[1]
           mems == GuideOp[c].memories
           grown == IF Live(n) THEN [guides[n] EXCEPT !.rev = @ + 1] ELSE Fresh
           h == With(grown, c)
           g == [h EXCEPT !.memories = @ \cup mems]
<1>1. c \in GuideCalls /\ n \in GuideNames /\ mems \in SUBSET GuideMemories
  BY AsksTyped, OpTyped
<1>2. /\ Answer(a, "success") /\ log' \subseteq GuideCalls /\ log \subseteq log' /\ UNCHANGED lost
      /\ guides' = [guides EXCEPT ![n] = g]
      /\ related' = [m \in GuideMemories |-> IF m \in mems THEN related[m] \cup {n} ELSE related[m]]
      /\ IF Live(n) THEN UNCHANGED reborn ELSE Born(n)
  BY <1>1 DEF Grow, Done, LinkedInv, GuidesTypeOK
<1> HIDE DEF n, mems, c
<1>3. guides[n] \in Guide /\ guides[n].rev \in Nat
  BY <1>1 DEF LinkedInv, GuidesTypeOK, Guide
<1>4. /\ grown \in Guide /\ grown.rev > guides[n].rev
      /\ grown.memories \subseteq guides[n].memories
  <2>1. CASE Live(n)
    BY <1>3, <2>1 DEF Guide
  <2>2. CASE ~Live(n)
    BY <1>3, <2>2, NoGuideTyped DEF Live
  <2> QED BY <2>1, <2>2
<1> HIDE DEF grown
<1>5. h \in Guide /\ h.rev = grown.rev /\ h.memories = grown.memories
  BY <1>1, <1>4, GuideWith
<1> HIDE DEF h
<1>6. g \in Guide /\ g.rev = h.rev /\ g.memories = h.memories \cup mems
  BY <1>1, <1>5 DEF Guide
<1> HIDE DEF g
<1>7. (guides[n].rev > 0 /\ reborn' = reborn) \/ (guides[n].rev = 0 /\ reborn' = (reborn \/ Removed(n)))
  BY <1>2, <1>3 DEF Live, Born
<1>8. g.rev > guides[n].rev /\ g.memories \subseteq guides[n].memories \cup mems
  BY <1>4, <1>5, <1>6
<1> QED BY <1>1, <1>2, <1>6, <1>7, <1>8, GrownLinked

LEMMA EffectLinked == ASSUME LinkedInv, NEW a \in Asks, Effect(a) PROVE LinkedInv'
<1> DEFINE c == a[1]
           n == GuideOp[c].guides[1]
           h == With(guides[n], c)
           g == [h EXCEPT !.rev = @ + 1]
<1>1. c \in GuideCalls /\ n \in GuideNames
  BY AsksTyped, OpTyped
<1>2. guides[n] \in Guide /\ guides[n].rev \in Nat /\ related \in [GuideMemories -> SUBSET GuideNames]
  BY <1>1 DEF LinkedInv, GuidesTypeOK, Guide
<1>3. CASE Live(n)
  <2>1. /\ Answer(a, "success") /\ log' \subseteq GuideCalls /\ log \subseteq log' /\ UNCHANGED lost
        /\ guides' = [guides EXCEPT ![n] = g] /\ UNCHANGED <<related, reborn>>
    BY <1>1, <1>3 DEF Effect, Done, LinkedInv, GuidesTypeOK
  <2> HIDE DEF n, c
  <2>2. h \in Guide /\ h.rev = guides[n].rev /\ h.memories = guides[n].memories
    BY <1>1, <1>2, GuideWith
  <2> HIDE DEF h
  <2>3. g \in Guide /\ g.rev = h.rev + 1 /\ g.memories = h.memories
    BY <2>2 DEF Guide
  <2> HIDE DEF g
  <2>4. related' = [m \in GuideMemories |-> IF m \in {} THEN related[m] \cup {n} ELSE related[m]]
    BY <1>2, <2>1
  <2>5. /\ {} \in SUBSET GuideMemories /\ g.memories \subseteq guides[n].memories \cup {}
        /\ g.rev > guides[n].rev /\ guides[n].rev > 0 /\ reborn' = reborn
    BY <1>2, <1>3, <2>1, <2>2, <2>3 DEF Live
  <2> QED BY <1>1, <2>1, <2>3, <2>4, <2>5, GrownLinked
<1>4. CASE ~Live(n)
  BY <1>4, QuietLinked DEF Effect
<1> QED BY <1>3, <1>4

\* The types, plans, copies and links of guides hold in every behaviour.
THEOREM LinkedAlways == GuidesSpec => []LinkedInv
<1>1. GuidesInit => LinkedInv
  <2> SUFFICES ASSUME GuidesInit PROVE LinkedInv
    OBVIOUS
  <2>1. \A n \in GuideNames : guides[n] = NoGuide
    BY DEF GuidesInit
  <2>2. \A a \in Asks : guideAsks[a] = [step |-> "unsent", read |-> <<>>]
    BY DEF GuidesInit, NotAsked
  <2>3. GuidesTypeOK
    <3>1. [step |-> "unsent", read |-> <<>>] \in
              GuideRequest
      <4>1. <<>> \in Seq(GuideCopy)
        OBVIOUS
      <4> QED BY <4>1 DEF GuideRequest
    <3>2. guides \in [GuideNames -> Guide]
      BY NoGuideTyped DEF GuidesInit
    <3>3. guideAsks \in [Asks -> GuideRequest]
      BY <3>1 DEF GuidesInit, NotAsked
    <3> QED BY <3>2, <3>3 DEF GuidesInit, GuidesTypeOK
  <2>4. GoneInv
    BY <2>1, NoGuideTyped DEF GoneInv, GuidesInit
  <2>5. PlanInv
    BY <2>2 DEF PlanInv
  <2>6. HeldInv
    BY <2>2 DEF HeldInv
  <2>7. BackInv
    BY <2>1, NoGuideTyped DEF BackInv
  <2> QED BY <2>3, <2>4, <2>5, <2>6, <2>7 DEF LinkedInv
<1>2. LinkedInv /\ [GuidesNext]_gvars => LinkedInv'
  <2> SUFFICES ASSUME LinkedInv, [GuidesNext]_gvars PROVE LinkedInv'
    OBVIOUS
  <2>1. ASSUME NEW a \in Asks, CheckLog(a) \/ ReadGuide(a) \/ ReadSimilar(a) PROVE LinkedInv'
    BY <2>1, CheckLogLinked, ReadGuideLinked, ReadSimilarLinked
  <2>2. ASSUME NEW a \in Asks, CommitGuide(a) PROVE LinkedInv'
    <3>1. CASE Recorded(a)
      BY <3>1, QuietLinked DEF Recorded
    <3>2. CASE Create(a) \/ Update(a) \/ Rename(a) \/ ForgetGuide(a) \/ MergeGuides(a)
      BY <3>2, CreateLinked, UpdateLinked, RenameLinked, ForgetLinked, MergeLinked
    <3>3. CASE Practice(a) \/ Distill(a) \/ Effect(a)
      BY <3>3, GrowLinked, EffectLinked DEF Practice, Distill
    <3> QED BY <2>2, <3>1, <3>2, <3>3 DEF CommitGuide
  <2>3. CASE UNCHANGED gvars
    <3>1. GuidesTypeOK' /\ GoneInv'
      BY <2>3 DEF gvars, LinkedInv, GuidesTypeOK, GoneInv
    <3>2. PlanInv'
      BY <2>3 DEF gvars, LinkedInv, PlanInv
    <3>3. ~reborn' => HeldInv'
      BY <2>3 DEF gvars, LinkedInv, HeldInv, Held, Removed
    <3>4. ~reborn' => BackInv'
      BY <2>3 DEF gvars, LinkedInv, BackInv
    <3> QED BY <3>1, <3>2, <3>3, <3>4 DEF LinkedInv
  <2> QED BY <2>1, <2>2, <2>3 DEF GuidesNext
<1> QED BY <1>1, <1>2, PTL DEF GuidesSpec

\* Guides, the references to them, the log and the requests keep their types.
THEOREM GuidesTypeCorrect == GuidesSpec => []GuidesTypeOK
<1>1. LinkedInv => GuidesTypeOK
  BY DEF LinkedInv
<1> QED BY <1>1, LinkedAlways, PTL

\* Memories refer to guides that are there, and guides and memories to each other, through
\* updates, renames and merges planned on older copies.
THEOREM LinksAlwaysHold == GuidesSpec => []LinksHold
<1>1. LinkedInv => LinksHold
  <2> SUFFICES ASSUME LinkedInv PROVE LinksHold
    OBVIOUS
  <2>1. \A m \in GuideMemories : \A n \in related[m] : Live(n)
    BY DEF LinkedInv, GoneInv, Live
  <2>2. ~reborn => \A n \in GuideNames : \A m \in guides[n].memories : n \in related[m]
    BY DEF LinkedInv, BackInv
  <2> QED BY <2>1, <2>2 DEF LinksHold
<1> QED BY <1>1, LinkedAlways, PTL

-----------------------------------------------------------------------------
(* Guides: what calls put into them.                                       *)

\* The part of a call is in one guide at most, once, from its call being recorded until
\* it is lost.
PartKept(gs, logged, gone, c) ==
    /\ \A n \in GuideNames : gs[n].parts[c] \in {0, 1}
    /\ \A n, o \in GuideNames : gs[n].parts[c] > 0 /\ gs[o].parts[c] > 0 => n = o
    /\ c \notin logged \/ c \in gone => \A n \in GuideNames : gs[n].parts[c] = 0
    /\ c \in logged /\ c \notin gone /\ GuideOp[c].kind \notin {"forget", "merge"} =>
          \E n \in GuideNames : gs[n].parts[c] > 0

PartsInv == lost \subseteq log /\ \A c \in GuideCalls : PartKept(guides, log, lost, c)

\* A guide takes a part more.
LEMMA GrownParts ==
    ASSUME NEW gs \in [GuideNames -> Guide], NEW logged, NEW gone \in SUBSET logged,
           \A d \in GuideCalls : PartKept(gs, logged, gone, d),
           NEW c \in GuideCalls, c \notin logged, NEW x \in GuideNames, NEW g \in Guide,
           g.parts[c] = gs[x].parts[c] + 1,
           \A d \in GuideCalls \ {c} : g.parts[d] = gs[x].parts[d],
           NEW d \in GuideCalls
    PROVE  PartKept([gs EXCEPT ![x] = g], logged \cup {c}, gone, d)
<1> DEFINE hs == [gs EXCEPT ![x] = g]
<1>1. hs[x] = g /\ \A n \in GuideNames \ {x} : hs[n] = gs[n]
  OBVIOUS
<1> HIDE DEF hs
<1>2. CASE d = c
  <2>1. \A n \in GuideNames : gs[n].parts[c] = 0
    BY DEF PartKept
  <2>2. g.parts[c] = 1
    BY <2>1
  <2> QED BY <1>1, <1>2, <2>1, <2>2 DEF PartKept
<1>3. CASE d # c
  <2>1. \A n \in GuideNames : hs[n].parts[d] = gs[n].parts[d]
    BY <1>1, <1>3
  <2>2. PartKept(gs, logged, gone, d)
    OBVIOUS
  <2> QED BY <1>3, <2>1, <2>2 DEF PartKept
<1> QED BY <1>2, <1>3 DEF hs

\* A guide gives way to a new one, or several do.
LEMMA TakenParts ==
    ASSUME NEW gs \in [GuideNames -> Guide], NEW logged, NEW gone \in SUBSET logged,
           \A d \in GuideCalls : PartKept(gs, logged, gone, d),
           NEW c \in GuideCalls, c \notin logged, GuideOp[c].kind \in {"rename", "merge"},
           NEW old \in SUBSET GuideNames, NEW to \in GuideNames \ old, gs[to] = NoGuide,
           NEW g \in Guide,
           \A d \in GuideCalls \ {c} :
               g.parts[d] = IF \E n \in old : gs[n].parts[d] > 0 THEN 1 ELSE 0,
           g.parts[c] = IF GuideOp[c].kind = "rename" THEN 1 ELSE 0,
           NEW d \in GuideCalls
    PROVE  PartKept([n \in GuideNames |-> IF n = to THEN g ELSE IF n \in old THEN NoGuide ELSE gs[n]],
                    logged \cup {c}, gone, d)
<1> DEFINE hs == [n \in GuideNames |-> IF n = to THEN g ELSE IF n \in old THEN NoGuide ELSE gs[n]]
<1>1. /\ hs[to] = g /\ \A n \in GuideNames \ (old \cup {to}) : hs[n] = gs[n]
      /\ \A n \in old : hs[n].parts[d] = 0
      /\ gs[to].parts[d] = 0
  BY NoGuideTyped
<1> HIDE DEF hs
<1>2. CASE d = c
  <2>1. \A n \in GuideNames : gs[n].parts[c] = 0
    BY DEF PartKept
  <2>2. \A n \in GuideNames \ {to} : hs[n].parts[c] = 0
    BY <1>1, <1>2, <2>1
  <2>3. g.parts[c] = IF GuideOp[c].kind = "rename" THEN 1 ELSE 0
    OBVIOUS
  <2> QED BY <1>1, <1>2, <2>2, <2>3 DEF PartKept
<1>3. CASE d # c
  <2>1. g.parts[d] = IF \E n \in old : gs[n].parts[d] > 0 THEN 1 ELSE 0
    BY <1>3
  <2>2. PartKept(gs, logged, gone, d)
    OBVIOUS
  <2>3. \A n \in GuideNames : hs[n].parts[d] \in {0, 1}
    BY <1>1, <2>1, <2>2 DEF PartKept
  <2>4. \A n, o \in GuideNames : hs[n].parts[d] > 0 /\ hs[o].parts[d] > 0 => n = o
    <3> SUFFICES ASSUME NEW n \in GuideNames, NEW o \in GuideNames,
                        hs[n].parts[d] > 0, hs[o].parts[d] > 0
                 PROVE  n = o
      OBVIOUS
    <3>1. n \notin old /\ o \notin old
      BY <1>1
    <3>2. ASSUME NEW p \in GuideNames \ (old \cup {to}), hs[p].parts[d] > 0 PROVE g.parts[d] = 0
      BY <1>1, <2>1, <2>2, <3>2 DEF PartKept
    <3>3. CASE n = to \/ o = to
      BY <1>1, <3>1, <3>2, <3>3
    <3>4. CASE n # to /\ o # to
      BY <1>1, <2>2, <3>1, <3>4 DEF PartKept
    <3> QED BY <3>3, <3>4
  <2>5. ASSUME d \notin logged \cup {c} \/ d \in gone, NEW n \in GuideNames PROVE hs[n].parts[d] = 0
    <3>1. \A o \in GuideNames : gs[o].parts[d] = 0
      BY <2>2, <2>5 DEF PartKept
    <3>2. g.parts[d] = 0
      BY <2>1, <3>1
    <3> QED BY <1>1, <3>1, <3>2
  <2>6. ASSUME d \in logged \cup {c}, d \notin gone, GuideOp[d].kind \notin {"forget", "merge"}
        PROVE  \E n \in GuideNames : hs[n].parts[d] > 0
    <3>1. PICK n \in GuideNames : gs[n].parts[d] > 0
      BY <1>3, <2>2, <2>6 DEF PartKept
    <3>2. CASE n \in old
      <4>1. g.parts[d] = 1
        BY <2>1, <3>1, <3>2
      <4> QED BY <1>1, <4>1
    <3>3. CASE n \notin old
      <4>1. n # to
        BY <1>1, <3>1
      <4>2. hs[n] = gs[n]
        BY <1>1, <3>3, <4>1
      <4> QED BY <3>1, <4>2
    <3> QED BY <3>2, <3>3
  <2>7. d \notin logged \cup {c} \/ d \in gone => \A n \in GuideNames : hs[n].parts[d] = 0
    BY <2>5
  <2>8. d \in logged \cup {c} /\ d \notin gone /\ GuideOp[d].kind \notin {"forget", "merge"} =>
           \E n \in GuideNames : hs[n].parts[d] > 0
    BY <2>6
  <2> DEFINE now == logged \cup {c}
  <2> HIDE DEF now
  <2>9. PartKept(hs, now, gone, d)
    BY <2>3, <2>4, <2>7, <2>8 DEF PartKept, now
  <2> QED BY <2>9 DEF now, hs
<1> QED BY <1>2, <1>3 DEF hs

\* A guide is forgotten, and with it what was in it.
LEMMA ForgottenParts ==
    ASSUME NEW gs \in [GuideNames -> Guide], NEW logged, NEW gone \in SUBSET logged,
           \A d \in GuideCalls : PartKept(gs, logged, gone, d),
           NEW c \in GuideCalls, c \notin logged, GuideOp[c].kind = "forget", NEW x \in GuideNames,
           NEW d \in GuideCalls
    PROVE  PartKept([gs EXCEPT ![x] = NoGuide], logged \cup {c},
                    gone \cup {e \in GuideCalls : gs[x].parts[e] > 0}, d)
<1> DEFINE hs == [gs EXCEPT ![x] = NoGuide]
           newly == {e \in GuideCalls : gs[x].parts[e] > 0}
<1>1. hs[x].parts[d] = 0 /\ \A n \in GuideNames \ {x} : hs[n] = gs[n]
  BY NoGuideTyped
<1>2. d \in newly <=> gs[x].parts[d] > 0
  OBVIOUS
<1> HIDE DEF hs, newly
<1>3. PartKept(gs, logged, gone, d)
  OBVIOUS
<1>4. \A n \in GuideNames : hs[n].parts[d] \in {0, 1}
  BY <1>1, <1>3 DEF PartKept
<1>5. \A n, o \in GuideNames : hs[n].parts[d] > 0 /\ hs[o].parts[d] > 0 => n = o
  BY <1>1, <1>3 DEF PartKept
<1>6. ASSUME d \notin logged \cup {c} \/ d \in gone \cup newly, NEW n \in GuideNames
      PROVE  hs[n].parts[d] = 0
  <2>1. CASE d \notin logged \/ d \in gone
    BY <1>1, <1>3, <2>1 DEF PartKept
  <2>2. CASE d \in newly
    <3>1. CASE n = x
      BY <1>1, <3>1
    <3>2. CASE n # x
      <4>1. ~(gs[n].parts[d] > 0) /\ gs[n].parts[d] \in {0, 1}
        BY <1>2, <1>3, <2>2, <3>2 DEF PartKept
      <4> QED BY <1>1, <3>2, <4>1
    <3> QED BY <3>1, <3>2
  <2> QED BY <1>6, <2>1, <2>2
<1>7. ASSUME d \in logged \cup {c}, d \notin gone \cup newly, GuideOp[d].kind \notin {"forget", "merge"}
      PROVE  \E n \in GuideNames : hs[n].parts[d] > 0
  <2>1. PICK n \in GuideNames : gs[n].parts[d] > 0
    BY <1>3, <1>7 DEF PartKept
  <2>2. n # x
    BY <1>2, <1>7, <2>1
  <2> QED BY <1>1, <2>1, <2>2
<1> QED BY <1>4, <1>5, <1>6, <1>7 DEF PartKept, hs, newly

LEMMA PartsGrown ==
    ASSUME LinkedInv, PartsInv, NEW c \in GuideCalls, c \notin log, log' = log \cup {c}, UNCHANGED lost,
           NEW x \in GuideNames, NEW g \in Guide, guides' = [guides EXCEPT ![x] = g],
           OneMore(g, guides[x], c)
    PROVE  PartsInv'
<1>1. guides \in [GuideNames -> Guide] /\ lost \in SUBSET log
  BY DEF LinkedInv, GuidesTypeOK, PartsInv
<1>2. \A d \in GuideCalls : PartKept(guides, log, lost, d)
  BY DEF PartsInv
<1>3. \A d \in GuideCalls : PartKept([guides EXCEPT ![x] = g], log \cup {c}, lost, d)
  BY <1>1, <1>2, GrownParts DEF OneMore
<1>4. \A d \in GuideCalls : PartKept(guides', log', lost', d)
  BY <1>3
<1>5. lost' \subseteq log'
  BY <1>1
<1> QED BY <1>4, <1>5 DEF PartsInv

LEMMA PartsTaken ==
    ASSUME LinkedInv, PartsInv, NEW c \in GuideCalls, c \notin log, NEW old \in SUBSET GuideNames,
           NEW to \in GuideNames, NEW g \in Guide, Taken(c, old, to, g),
           \A d \in GuideCalls \ {c} :
               g.parts[d] = IF \E n \in old : guides[n].parts[d] > 0 THEN 1 ELSE 0,
           g.parts[c] = IF GuideOp[c].kind = "rename" THEN 1 ELSE 0
    PROVE  PartsInv'
<1>1. guides \in [GuideNames -> Guide] /\ lost \in SUBSET log
  BY DEF LinkedInv, GuidesTypeOK, PartsInv
<1>2. \A d \in GuideCalls : PartKept(guides, log, lost, d)
  BY DEF PartsInv
<1>3. /\ to \in GuideNames \ old /\ guides[to] = NoGuide /\ GuideOp[c].kind \in {"rename", "merge"}
      /\ guides' = [n \in GuideNames |-> IF n = to THEN g ELSE IF n \in old THEN NoGuide ELSE guides[n]]
      /\ log' = log \cup {c} /\ lost' = lost
  BY DEF Taken, LinkedInv, GoneInv
<1>4. \A d \in GuideCalls :
          PartKept([n \in GuideNames |-> IF n = to THEN g ELSE IF n \in old THEN NoGuide ELSE guides[n]],
                   log \cup {c}, lost, d)
  BY <1>1, <1>2, <1>3, TakenParts
<1>5. \A d \in GuideCalls : PartKept(guides', log', lost', d)
  BY <1>3, <1>4
<1>6. lost' \subseteq log'
  BY <1>1, <1>3
<1> QED BY <1>5, <1>6 DEF PartsInv

LEMMA ForgetParts ==
    ASSUME LinkedInv, PartsInv, NEW a \in Asks, ForgetGuide(a), Live(GuideOp[a[1]].guides[1])
    PROVE  PartsInv'
<1> DEFINE c == a[1]
           x == GuideOp[c].guides[1]
           newly == {e \in GuideCalls : guides[x].parts[e] > 0}
<1>1. /\ guides \in [GuideNames -> Guide] /\ lost \in SUBSET log
      /\ c \in GuideCalls /\ x \in GuideNames
  BY AsksTyped, OpTyped DEF LinkedInv, GuidesTypeOK, PartsInv
<1>2. \A d \in GuideCalls : PartKept(guides, log, lost, d)
  BY DEF PartsInv
<1>3. /\ c \notin log /\ log' = log \cup {c} /\ GuideOp[c].kind = "forget"
      /\ guides' = [guides EXCEPT ![x] = NoGuide] /\ lost' = lost \cup newly
  BY DEF ForgetGuide, Planned, Done, Logged
<1>4. newly \subseteq log
  <2> SUFFICES ASSUME NEW e \in newly PROVE e \in log
    OBVIOUS
  <2>1. e \in GuideCalls /\ guides[x].parts[e] > 0
    OBVIOUS
  <2>2. PartKept(guides, log, lost, e)
    BY <1>2, <2>1
  <2> QED BY <1>1, <2>1, <2>2 DEF PartKept
<1> HIDE DEF c, x
<1>5. \A d \in GuideCalls : PartKept([guides EXCEPT ![x] = NoGuide], log \cup {c}, lost \cup newly, d)
  BY <1>1, <1>2, <1>3, ForgottenParts
<1>6. \A d \in GuideCalls : PartKept(guides', log', lost', d)
  BY <1>3, <1>5
<1>7. lost' \subseteq log'
  BY <1>1, <1>3, <1>4
<1> QED BY <1>6, <1>7 DEF PartsInv

LEMMA QuietParts == ASSUME PartsInv, UNCHANGED GuideStore PROVE PartsInv'
BY DEF PartsInv, GuideStore, PartKept

\* As in UpdatedLinked.
LEMMA UpdatedParts ==
    ASSUME LinkedInv, PartsInv, ~reborn, NEW a \in Asks, 1 \in DOMAIN guideAsks[a].read,
           AsPlanned(guideAsks[a].read[1]), Done(a), UNCHANGED lost,
           guides' = [guides EXCEPT ![guideAsks[a].read[1].name] =
                         [With(guideAsks[a].read[1].guide, a[1]) EXCEPT
                             !.rev = Next1(guideAsks[a].read[1].name)]]
    PROVE  PartsInv'
<1> DEFINE c == a[1]
           x == guideAsks[a].read[1].name
           y == guideAsks[a].read[1].guide
           h == With(y, c)
           k == Next1(x)
           g == [h EXCEPT !.rev = k]
<1>1. x \in GuideNames /\ y \in Guide /\ guides[x] = y
  BY PlannedCopy
<1>2. c \in GuideCalls /\ c \notin log /\ log' = log \cup {c}
  BY AsksTyped DEF Done, Logged
<1>3. guides' = [guides EXCEPT ![x] = g] /\ guides[x].rev \in Nat
  BY <1>1 DEF Guide
<1> HIDE DEF c, x, y
<1>4. k \in Nat
  BY <1>3 DEF Next1
<1>5. h \in Guide /\ h.parts[c] = y.parts[c] + 1 /\ \A d \in GuideCalls \ {c} : h.parts[d] = y.parts[d]
  BY <1>1, <1>2, GuideWith
<1> HIDE DEF h, k
<1>6. g \in Guide /\ g.parts = h.parts
  BY <1>4, <1>5 DEF Guide
<1> HIDE DEF g
<1>7. OneMore(g, guides[x], c)
  BY <1>1, <1>5, <1>6 DEF OneMore
<1> QED BY <1>1, <1>2, <1>3, <1>6, <1>7, PartsGrown

LEMMA CreateParts ==
    ASSUME LinkedInv, PartsInv, ~reborn, NEW a \in Asks, Create(a) PROVE PartsInv'
<1> DEFINE c == a[1]
           n == GuideOp[c].guides[1]
           r == guideAsks[a].read[1]
<1>0. c \in GuideCalls /\ n \in GuideNames
  BY AsksTyped, OpTyped
<1>1. CASE /\ guideAsks[a].read = <<>> /\ ~Live(n)
           /\ Done(a) /\ Born(n)
           /\ guides' = [guides EXCEPT ![n] = With(Fresh, c)]
           /\ UNCHANGED <<related, lost>>
  <2>1. c \notin log /\ log' = log \cup {c} /\ UNCHANGED lost
    BY <1>1 DEF Done, Logged
  <2>2. guides[n] = NoGuide
    BY <1>0, <1>1 DEF Live, LinkedInv, GuidesTypeOK, GoneInv, Guide
  <2> HIDE DEF n, c
  <2> DEFINE g == With(Fresh, c)
  <2>3. g \in Guide /\ g.parts[c] = Fresh.parts[c] + 1
        /\ \A d \in GuideCalls \ {c} : g.parts[d] = Fresh.parts[d]
    BY <1>0, NoGuideTyped, GuideWith
  <2>4. guides' = [guides EXCEPT ![n] = g] /\ Fresh.parts = guides[n].parts
    BY <1>1, <2>2, NoGuideTyped
  <2> HIDE DEF g
  <2>5. OneMore(g, guides[n], c)
    BY <2>3, <2>4 DEF OneMore
  <2> QED BY <1>0, <2>1, <2>3, <2>4, <2>5, PartsGrown
<1>2. CASE /\ guideAsks[a].read # <<>> /\ AsPlanned(r)
           /\ Done(a)
           /\ guides' = [guides EXCEPT ![r.name] = [With(r.guide, c) EXCEPT !.rev = Next1(r.name)]]
           /\ UNCHANGED <<related, lost, reborn>>
  BY <1>2, FirstRead, UpdatedParts
<1>3. CASE Refused(a)
  BY <1>3, QuietParts DEF Refused
<1> QED BY <1>1, <1>2, <1>3 DEF Create

LEMMA UpdateParts ==
    ASSUME LinkedInv, PartsInv, ~reborn, NEW a \in Asks, Update(a) PROVE PartsInv'
<1> DEFINE r == guideAsks[a].read[1]
<1>1. 1 \in DOMAIN guideAsks[a].read
  BY FirstRead DEF Update, Planned
<1>2. CASE AsPlanned(r)
  <2>1. /\ Done(a)
        /\ guides' = [guides EXCEPT ![r.name] = [With(r.guide, a[1]) EXCEPT !.rev = Next1(r.name)]]
        /\ UNCHANGED <<related, lost, reborn>>
    BY <1>2 DEF Update
  <2> QED BY <1>1, <1>2, <2>1, UpdatedParts
<1>3. CASE ~AsPlanned(r)
  BY <1>3, QuietParts DEF Update, Refused
<1> QED BY <1>2, <1>3

LEMMA GrowParts == ASSUME LinkedInv, PartsInv, NEW a \in Asks, Grow(a) PROVE PartsInv'
<1> DEFINE c == a[1]
           n == GuideOp[c].guides[1]
           mems == GuideOp[c].memories
           grown == IF Live(n) THEN [guides[n] EXCEPT !.rev = @ + 1] ELSE Fresh
           h == With(grown, c)
           g == [h EXCEPT !.memories = @ \cup mems]
<1>1. c \in GuideCalls /\ n \in GuideNames /\ mems \in SUBSET GuideMemories
  BY AsksTyped, OpTyped
<1>2. /\ c \notin log /\ log' = log \cup {c} /\ UNCHANGED lost
      /\ guides' = [guides EXCEPT ![n] = g]
  BY DEF Grow, Done, Logged
<1> HIDE DEF n, mems, c
<1>3. guides[n] \in Guide
  BY <1>1 DEF LinkedInv, GuidesTypeOK
<1>4. grown \in Guide /\ grown.parts = guides[n].parts
  <2>1. CASE Live(n)
    BY <1>3, <2>1 DEF Guide
  <2>2. CASE ~Live(n)
    <3>1. guides[n] = NoGuide
      BY <1>1, <1>3, <2>2 DEF Live, LinkedInv, GoneInv, Guide
    <3> QED BY <2>2, <3>1, NoGuideTyped
  <2> QED BY <2>1, <2>2
<1> HIDE DEF grown
<1>5. /\ h \in Guide /\ h.parts[c] = grown.parts[c] + 1
      /\ \A d \in GuideCalls \ {c} : h.parts[d] = grown.parts[d]
  BY <1>1, <1>4, GuideWith
<1> HIDE DEF h
<1>6. g \in Guide /\ g.parts = h.parts
  BY <1>1, <1>5 DEF Guide
<1> HIDE DEF g
<1>7. OneMore(g, guides[n], c)
  BY <1>4, <1>5, <1>6 DEF OneMore
<1> QED BY <1>1, <1>2, <1>6, <1>7, PartsGrown

LEMMA EffectParts == ASSUME LinkedInv, PartsInv, NEW a \in Asks, Effect(a) PROVE PartsInv'
<1> DEFINE c == a[1]
           n == GuideOp[c].guides[1]
           h == With(guides[n], c)
           g == [h EXCEPT !.rev = @ + 1]
<1>1. c \in GuideCalls /\ n \in GuideNames
  BY AsksTyped, OpTyped
<1>2. guides[n] \in Guide
  BY <1>1 DEF LinkedInv, GuidesTypeOK
<1>3. CASE Live(n)
  <2>1. /\ c \notin log /\ log' = log \cup {c} /\ UNCHANGED lost
        /\ guides' = [guides EXCEPT ![n] = g]
    BY <1>3 DEF Effect, Done, Logged
  <2> HIDE DEF n, c
  <2>2. /\ h \in Guide /\ h.parts[c] = guides[n].parts[c] + 1
        /\ \A d \in GuideCalls \ {c} : h.parts[d] = guides[n].parts[d]
    BY <1>1, <1>2, GuideWith
  <2> HIDE DEF h
  <2>3. g \in Guide /\ g.parts = h.parts
    BY <2>2 DEF Guide
  <2> HIDE DEF g
  <2>4. OneMore(g, guides[n], c)
    BY <2>2, <2>3 DEF OneMore
  <2> QED BY <1>1, <2>1, <2>3, <2>4, PartsGrown
<1>4. CASE ~Live(n)
  BY <1>4, QuietParts DEF Effect
<1> QED BY <1>3, <1>4

LEMMA RenameParts ==
    ASSUME LinkedInv, PartsInv, ~reborn, NEW a \in Asks, Rename(a) PROVE PartsInv'
<1>1. CASE Refused(a)
  BY <1>1, QuietParts DEF Refused
<1>2. ASSUME Done(a), NEW x \in GuideNames, NEW g \in Guide, Taken(a[1], {x}, GuideOp[a[1]].to, g),
             OneMore(g, guides[x], a[1])
      PROVE  PartsInv'
  <2> DEFINE c == a[1]
             to == GuideOp[c].to
             old == {x}
  <2>1. c \in GuideCalls /\ to \in GuideNames /\ old \in SUBSET GuideNames /\ GuideOp[c].kind = "rename"
    BY AsksTyped, OpTyped DEF Rename, Planned
  <2>2. c \notin log /\ Taken(c, old, to, g) /\ OneMore(g, guides[x], c)
    BY <1>2 DEF Done, Logged
  <2> HIDE DEF c, to
  <2>3. g.parts[c] = 1
    <3>1. PartKept(guides, log, lost, c)
      BY <2>1 DEF PartsInv
    <3>2. guides[x].parts[c] = 0
      BY <2>2, <3>1 DEF PartKept
    <3> QED BY <2>2, <3>2 DEF OneMore
  <2>4. ASSUME NEW d \in GuideCalls \ {c}
        PROVE  g.parts[d] = IF \E n \in old : guides[n].parts[d] > 0 THEN 1 ELSE 0
    <3>1. PartKept(guides, log, lost, d)
      BY DEF PartsInv
    <3>2. guides[x].parts[d] \in {0, 1} /\ g.parts[d] = guides[x].parts[d]
      BY <2>2, <3>1 DEF PartKept, OneMore
    <3> QED BY <3>2
  <2>5. g.parts[c] = IF GuideOp[c].kind = "rename" THEN 1 ELSE 0
    BY <2>1, <2>3
  <2> HIDE DEF old
  <2> QED BY <2>1, <2>2, <2>4, <2>5, PartsTaken
<1> QED BY <1>1, <1>2, RenameTaken

\* The calls that merge guides name each of them once.
MergesOfDistinct ==
    \A c \in GuideCalls : GuideOp[c].kind = "merge" =>
        \A i, j \in DOMAIN GuideOp[c].guides : GuideOp[c].guides[i] = GuideOp[c].guides[j] => i = j

LEMMA MergeParts ==
    ASSUME MergesOfDistinct, LinkedInv, PartsInv, ~reborn, NEW a \in Asks, MergeGuides(a)
    PROVE  PartsInv'
<1>1. CASE Refused(a)
  BY <1>1, QuietParts DEF Refused
<1>2. CASE ~Refused(a)
  <2> DEFINE c == a[1]
             to == GuideOp[c].to
             reads == guideAsks[a].read
             old == {reads[i].name : i \in DOMAIN reads}
             from(d) == {i \in DOMAIN reads : reads[i].guide.parts[d] > 0}
  <2>1. PICK g \in Guide : g.parts = SumParts(reads) /\ Taken(c, old, to, g)
    BY <1>2, MergeTaken
  <2>2. /\ c \in GuideCalls /\ to \in GuideNames /\ GuideOp[c].kind = "merge"
        /\ reads \in Seq(GuideCopy) /\ old \in SUBSET GuideNames
    BY AsksTyped, OpTyped, RequestTyped DEF MergeGuides, Planned, GuideRequest
  <2>3. c \notin log
    BY <1>2, MergeTaken DEF Done, Logged
  <2>4. \A i \in DOMAIN reads : /\ guides[reads[i].name] = reads[i].guide /\ reads[i].name \in GuideNames
                                /\ i \in DOMAIN GuideOp[c].guides /\ reads[i].name = GuideOp[c].guides[i]
    BY <1>2, MergeTaken, RequestTyped
  <2>5. \A d \in GuideCalls : g.parts[d] = Cardinality(from(d))
    BY <2>1 DEF SumParts
  <2>6. \A d \in GuideCalls : \A i, j \in from(d) : i = j
    <3> SUFFICES ASSUME NEW d \in GuideCalls, NEW i \in from(d), NEW j \in from(d) PROVE i = j
      OBVIOUS
    <3>1. PartKept(guides, log, lost, d)
      BY DEF PartsInv
    <3>2. reads[i].name = reads[j].name
      BY <2>4, <3>1 DEF PartKept
    <3> QED BY <2>2, <2>4, <3>2 DEF MergesOfDistinct
  <2>7. ASSUME NEW d \in GuideCalls
        PROVE  g.parts[d] = IF \E n \in old : guides[n].parts[d] > 0 THEN 1 ELSE 0
    <3>1. CASE from(d) = {}
      <4>1. g.parts[d] = 0
        BY <2>5, <3>1, FS_EmptySet
      <4>2. \A n \in old : ~(guides[n].parts[d] > 0)
        BY <2>4, <3>1
      <4> QED BY <4>1, <4>2
    <3>2. CASE from(d) # {}
      <4>1. PICK i \in from(d) : TRUE
        BY <3>2
      <4>2. from(d) = {i}
        BY <2>6, <4>1
      <4>3. g.parts[d] = 1
        BY <2>5, <4>2, FS_Singleton
      <4>4. reads[i].name \in old /\ guides[reads[i].name].parts[d] > 0
        BY <2>4, <4>1
      <4> QED BY <4>3, <4>4
    <3> QED BY <3>1, <3>2
  <2>8. g.parts[c] = IF GuideOp[c].kind = "rename" THEN 1 ELSE 0
    <3>1. PartKept(guides, log, lost, c)
      BY <2>2 DEF PartsInv
    <3>2. \A n \in old : ~(guides[n].parts[c] > 0)
      BY <2>2, <2>3, <3>1 DEF PartKept
    <3> HIDE DEF old
    <3> QED BY <2>2, <2>7, <3>2
  <2> HIDE DEF c, to, old
  <2> QED BY <2>1, <2>2, <2>3, <2>7, <2>8, PartsTaken
<1> QED BY <1>1, <1>2

LEMMA RebornStays == LinkedInv /\ [GuidesNext]_gvars => (reborn => reborn')
<1> SUFFICES ASSUME LinkedInv, [GuidesNext]_gvars, reborn PROVE reborn'
  OBVIOUS
<1>1. CASE UNCHANGED gvars
  BY <1>1 DEF gvars
<1>2. ASSUME NEW a \in Asks, CheckLog(a) \/ ReadGuide(a) \/ ReadSimilar(a) PROVE reborn'
  BY <1>2 DEF CheckLog, ReadGuide, ReadSimilar, GuideStore
<1>3. ASSUME NEW a \in Asks, CommitGuide(a) PROVE reborn'
  <2>1. CASE Recorded(a) \/ Create(a) \/ Update(a)
    BY <2>1 DEF Recorded, Create, Update, Refused, Born, GuideStore
  <2>2. CASE Rename(a) \/ ForgetGuide(a) \/ MergeGuides(a)
    BY <2>2 DEF Rename, ForgetGuide, MergeGuides, Refused, Born, GuideStore
  <2>3. CASE Practice(a) \/ Distill(a) \/ Effect(a)
    BY <2>3 DEF Practice, Distill, Grow, Effect, Born, GuideStore
  <2> QED BY <1>3, <2>1, <2>2, <2>3 DEF CommitGuide
<1> QED BY <1>1, <1>2, <1>3 DEF GuidesNext

LEMMA PartsStep ==
    ASSUME MergesOfDistinct, LinkedInv, PartsInv, ~reborn, [GuidesNext]_gvars PROVE PartsInv'
<1>1. CASE UNCHANGED gvars
  BY <1>1, QuietParts DEF gvars, GuideStore
<1>2. ASSUME NEW a \in Asks, CheckLog(a) \/ ReadGuide(a) \/ ReadSimilar(a) PROVE PartsInv'
  <2>1. UNCHANGED GuideStore
    BY <1>2 DEF CheckLog, ReadGuide, ReadSimilar
  <2> QED BY <2>1, QuietParts
<1>3. ASSUME NEW a \in Asks, CommitGuide(a) PROVE PartsInv'
  <2>1. CASE Recorded(a) \/ Create(a) \/ Update(a) \/ Rename(a) \/ MergeGuides(a)
    BY <2>1, QuietParts, CreateParts, UpdateParts, RenameParts, MergeParts DEF Recorded
  <2>2. CASE ForgetGuide(a)
    <3>1. CASE Live(GuideOp[a[1]].guides[1])
      BY <2>2, <3>1, ForgetParts
    <3>2. CASE ~Live(GuideOp[a[1]].guides[1])
      BY <2>2, <3>2, QuietParts DEF ForgetGuide, Refused
    <3> QED BY <3>1, <3>2
  <2>3. CASE Practice(a) \/ Distill(a) \/ Effect(a)
    BY <2>3, GrowParts, EffectParts DEF Practice, Distill
  <2> QED BY <1>3, <2>1, <2>2, <2>3 DEF CommitGuide
<1> QED BY <1>1, <1>2, <1>3 DEF GuidesNext

LEMMA PartsHold == ASSUME GuidesTypeOK, PartsInv PROVE \A c \in GuideCalls : Counted(c)
<1> SUFFICES ASSUME NEW c \in GuideCalls PROVE Counted(c)
  OBVIOUS
<1>1. PartKept(guides, log, lost, c)
  BY DEF PartsInv
<1>2. \A n, o \in CountOf(c) : n = o
  BY <1>1 DEF PartKept, CountOf
<1>3. Cardinality(CountOf(c)) <= 1
  <2>1. CASE CountOf(c) = {}
    BY <2>1, FS_EmptySet
  <2>2. CASE CountOf(c) # {}
    <3>1. PICK n \in CountOf(c) : TRUE
      BY <2>2
    <3>2. CountOf(c) = {n}
      BY <1>2, <3>1
    <3> QED BY <3>2, FS_Singleton
  <2> QED BY <2>1, <2>2
<1>4. \A n \in GuideNames : guides[n].parts[c] <= 1
  BY <1>1 DEF PartKept
<1>5. c \in log /\ c \notin lost /\ GuideOp[c].kind \notin {"forget", "merge"} => CountOf(c) # {}
  BY <1>1 DEF PartKept, CountOf
<1>6. c \in lost => CountOf(c) = {}
  <2> SUFFICES ASSUME c \in lost, NEW n \in CountOf(c) PROVE FALSE
    OBVIOUS
  <2>1. n \in GuideNames /\ guides[n].parts[c] > 0
    BY DEF CountOf
  <2> QED BY <1>1, <2>1 DEF PartKept
<1> QED BY <1>3, <1>4, <1>5, <1>6 DEF Counted

\* What a recorded call put into a guide is in one guide, once, until it is forgotten, when
\* merges name each of their guides once.
THEOREM NoGuideUpdateLost == ASSUME MergesOfDistinct PROVE GuidesSpec => []NoUpdateLost
<1> DEFINE Inv == ~reborn => PartsInv
<1>1. GuidesInit => Inv
  <2> SUFFICES ASSUME GuidesInit PROVE PartsInv
    OBVIOUS
  <2>1. lost = {} /\ log = {} /\ \A n \in GuideNames : guides[n] = NoGuide
    BY DEF GuidesInit
  <2> QED BY <2>1, NoGuideTyped DEF PartsInv, PartKept
<1>2. LinkedInv /\ LinkedInv' /\ Inv /\ [GuidesNext]_gvars => Inv'
  BY PartsStep, RebornStays
<1>3. LinkedInv /\ Inv => NoUpdateLost
  BY PartsHold DEF LinkedInv, NoUpdateLost
<1> HIDE DEF Inv
<1> QED BY <1>1, <1>2, <1>3, LinkedAlways, PTL DEF GuidesSpec

-----------------------------------------------------------------------------
(* BackupFile: the staged file is whole and flushed before it gets the name, *)
(* and the name holds the export when the export is verified.                *)

\* Where an export is, and what the files then hold; no power failure and no failed step
\* makes a published file torn, so what a reader and a restart find is a whole export.
PublishInv ==
    /\ BackupTypeOK
    /\ publishing \in {"idle", "stage", "write", "sync", "rename", "pin", "verify"}
    /\ doing = NoBackup <=> publishing = "idle"
    /\ lasting
    /\ publishing \in {"sync", "rename"} => staged = doing
    /\ publishing = "rename" => flushed
    /\ publishing \in {"pin", "verify"} => backup = doing
    /\ publishing = "verify" => settled = doing
    /\ {backup, settled} \subseteq Exports \cup {NoBackup}
    /\ confirmed # NoBackup => backup # NoBackup /\ settled # NoBackup
    /\ readBack # "refused"

LEMMA PublishStart == BackupInit => PublishInv
<1> SUFFICES ASSUME BackupInit PROVE PublishInv
  OBVIOUS
<1>1. backupFaults \in 0..MaxBackupFaults
  BY BackupAssumption DEF BackupInit
<1>2. flushed \in BOOLEAN /\ lasting \in BOOLEAN /\ lasting
  BY DEF BackupInit
<1> QED
  BY <1>1, <1>2, BackupAssumption DEF BackupInit, PublishInv, BackupTypeOK, NoBackup

LEMMA PublishStep == PublishInv /\ [BackupNext]_backupvars => PublishInv'
<1> SUFFICES ASSUME PublishInv, [BackupNext]_backupvars PROVE PublishInv'
  OBVIOUS
<1>1. ASSUME NEW e \in Exports, Encode(e) PROVE PublishInv'
  BY <1>1, BackupAssumption DEF PublishInv, BackupTypeOK, NoBackup, Encode
<1>2. CASE Stage
  BY <1>2, BackupAssumption DEF PublishInv, BackupTypeOK, NoBackup, Stage
<1>3. CASE WriteAll
  BY <1>3, BackupAssumption DEF PublishInv, BackupTypeOK, NoBackup, WriteAll
<1>4. CASE SyncAll
  BY <1>4, BackupAssumption DEF PublishInv, BackupTypeOK, NoBackup, SyncAll
<1>5. CASE RenameStaged
  BY <1>5, BackupAssumption DEF PublishInv, BackupTypeOK, NoBackup, RenameStaged
<1>6. CASE SyncParent
  BY <1>6, BackupAssumption DEF PublishInv, BackupTypeOK, NoBackup, SyncParent
<1>7. CASE Acknowledge
  BY <1>7, BackupAssumption DEF PublishInv, BackupTypeOK, NoBackup, Acknowledge, Verified
<1>8. CASE StepFails
  BY <1>8, BackupAssumption DEF PublishInv, BackupTypeOK, NoBackup, StepFails
<1>9. CASE PowerFails
  <2>1. backup' \in {settled, backup}
    BY <1>9 DEF PowerFails, PublishInv
  <2>2. flushed' \in BOOLEAN /\ lasting' \in BOOLEAN /\ lasting'
    BY <1>9 DEF PowerFails
  <2>3. backupFaults' \in 0..MaxBackupFaults
    BY <1>9, BackupAssumption DEF PowerFails, PublishInv, BackupTypeOK
  <2> QED
    BY <1>9, <2>1, <2>2, <2>3 DEF PublishInv, BackupTypeOK, NoBackup, PowerFails
<1>10. CASE ReadFile
  BY <1>10, BackupAssumption DEF PublishInv, BackupTypeOK, NoBackup, ReadFile, Verified
<1>11. CASE UNCHANGED backupvars
  BY <1>11, BackupAssumption DEF PublishInv, BackupTypeOK, NoBackup, backupvars
<1> QED
  BY <1>1, <1>2, <1>3, <1>4, <1>5, <1>6, <1>7, <1>8, <1>9, <1>10, <1>11 DEF BackupNext

\* The files and the export under way keep their types (backup.rs export_backup_to).
THEOREM BackupTypeCorrect == BackupSpec => []BackupTypeOK
<1>1. PublishInv => BackupTypeOK
  BY DEF PublishInv
<1> QED
  BY <1>1, PublishStart, PublishStep, PTL DEF BackupSpec

\* For any exports and any number of failures, the name of a backup is on a whole export
\* from the moment it is there, on the disk too once an export was acknowledged, and no
\* reader is refused it.
THEOREM PublishedAlwaysWhole == BackupSpec => []PublishedIsWhole
<1>1. PublishInv => PublishedIsWhole
  BY DEF PublishInv, PublishedIsWhole
<1> QED
  BY <1>1, PublishStart, PublishStep, PTL DEF BackupSpec

-----------------------------------------------------------------------------
(* OwnedFiles: what a command read, decided and wrote.                       *)

\* Who is about to write has read that it may: a skill that its table replaces, and a
\* binding that this process made.
WriterInv ==
    \A p \in Processes :
        /\ nextStep[p] = "write" =>
              ProcessKind[p] = "skill" /\ Decision(seen[p], Brings[p]) = "Installed"
        /\ nextStep[p] = "fill" => p \in Binders /\ binding = "torn"

\* One process fills the binding.
FillerInv ==
    \A p, q \in Processes : nextStep[p] = "fill" /\ nextStep[q] = "fill" => p = q


FilesInv == OwnedTypeOK /\ WriterInv /\ FillerInv /\ ReplacesWhatItRead /\ OneWinner

\* A skill that the table replaces is none, or ours and older.
LEMMA InstalledOver ==
    ASSUME NEW v \in Versions, NEW old \in Skills \cup {NoSkill},
           Decision(old, v) = "Installed", old # NoSkill
    PROVE  old.marker \in 1..(v - 1)
<1> DEFINE Older == [marker : {w \in Versions : w < v}, edited : BOOLEAN]
<1>1. Foreign.marker = 0 /\ Managed(v, FALSE).marker = v
  BY DEF Foreign, Managed
<1>2. \A r \in Older : r.marker \in Versions /\ r.marker < v
  OBVIOUS
<1>3. v \in Nat /\ v # 0 /\ 0 \notin Versions /\ \A w \in Versions : w \in Nat \ {0}
  BY OwnedAssumption
<1>4. Foreign # Managed(v, FALSE) /\ Foreign \notin Older /\ Managed(v, FALSE) \notin Older
  <2>1. Foreign # Managed(v, FALSE)
    BY <1>1, <1>3
  <2>2. Foreign \notin Older
    <3> HIDE DEF Older
    <3> QED BY <1>1, <1>2, <1>3
  <2>3. ~ (v < v)
    BY <1>3
  <2>4. Managed(v, FALSE) \notin Older
    <3> HIDE DEF Older
    <3> QED BY <1>1, <1>2, <2>3, Zenon
  <2> QED
    BY <2>1, <2>2, <2>4
<1>5. Decision(old, v) =
        CASE old = NoSkill -> "Installed"
          [] old = Foreign -> "RefusedForeign"
          [] old = Managed(v, FALSE) -> "AlreadyCurrent"
          [] old \in Older -> "Installed"
          [] OTHER -> "RefusedModified"
  BY DEF Decision
<1> HIDE DEF Older
<1>6. old \in Older
  BY <1>4, <1>5, Zenon
<1>7. old.marker \in Versions /\ old.marker < v
  BY <1>2, <1>6, Zenon
<1>8. old.marker \in Nat \ {0}
  BY <1>3, <1>7
<1> QED
  BY <1>3, <1>7, <1>8

LEMMA Edited ==
    ASSUME NEW v, NEW e, NEW old, old = [marker |-> v, edited |-> e]
    PROVE  [old EXCEPT !.edited = TRUE] = [marker |-> v, edited |-> TRUE]
<1>1. \A b : [old EXCEPT !.edited = b] = [marker |-> v, edited |-> b]
  OBVIOUS
<1> QED
  BY <1>1, Zenon

LEMMA SkillsThere ==
    /\ \A v \in Versions : Managed(v, FALSE) \in Skills
    /\ \A old \in Skills : [old EXCEPT !.edited = TRUE] \in Skills
<1>1. ASSUME NEW v \in Versions, NEW e \in BOOLEAN PROVE Managed(v, e) \in Skills
  BY DEF Skills
<1>2. \A v \in Versions : Managed(v, FALSE) \in Skills /\ Managed(v, TRUE) \in Skills
  BY <1>1
<1>3. ASSUME NEW old \in Skills PROVE [old EXCEPT !.edited = TRUE] \in Skills
  <2>1. CASE old = Foreign
    <3>1. [old EXCEPT !.edited = TRUE] = Foreign
      BY <2>1, Edited, Zenon DEF Foreign
    <3> QED
      BY <3>1 DEF Skills
  <2>2. CASE \E v \in Versions, e \in BOOLEAN : old = Managed(v, e)
    <3>1. PICK v \in Versions, e \in BOOLEAN : old = Managed(v, e)
      BY <2>2
    <3>2. [old EXCEPT !.edited = TRUE] = Managed(v, TRUE)
      BY <3>1, Edited, Zenon DEF Managed
    <3> QED
      BY <1>2, <3>2
  <2> QED
    BY <2>1, <2>2 DEF Skills
<1> QED
  BY <1>2, <1>3

LEMMA FilesStart == OwnedInit => FilesInv
<1> SUFFICES ASSUME OwnedInit PROVE FilesInv
  OBVIOUS
<1>1. OwnedTypeOK
  BY OwnedAssumption DEF OwnedInit, OwnedTypeOK, Verdicts, Skills, NoSkill
<1>2. WriterInv /\ FillerInv /\ ReplacesWhatItRead
  BY DEF OwnedInit, WriterInv, FillerInv, ReplacesWhatItRead
<1>3. OneWinner
  BY OwnedAssumption DEF OwnedInit, OneWinner, Binders, Verdicts
<1> QED
  BY <1>1, <1>2, <1>3 DEF FilesInv

\* What a report changes.
LEMMA SaysStep ==
    ASSUME OwnedTypeOK, NEW p \in Processes, NEW what \in Verdicts \cup Binders, Says(p, what)
    PROVE  /\ nextStep' \in [Processes -> {"start", "write", "link", "create", "fill", "done"}]
           /\ said' \in [Processes -> Verdicts \cup Binders]
           /\ nextStep'[p] = "done" /\ said'[p] = what
           /\ \A q \in Processes : q # p => nextStep'[q] = nextStep[q] /\ said'[q] = said[q]
BY DEF OwnedTypeOK, Says

LEMMA GoStep ==
    ASSUME OwnedTypeOK, NEW p \in Processes,
           NEW next \in {"start", "write", "link", "create", "fill", "done"},
           nextStep' = [nextStep EXCEPT ![p] = next]
    PROVE  /\ nextStep' \in [Processes -> {"start", "write", "link", "create", "fill", "done"}]
           /\ nextStep'[p] = next
           /\ \A q \in Processes : q # p => nextStep'[q] = nextStep[q]
BY DEF OwnedTypeOK

\* A step of p that leaves binding and what was replaced alone, and after which p is not
\* about to write.
LEMMA QuietWriter ==
    ASSUME FilesInv, NEW p \in Processes, nextStep'[p] \notin {"write", "fill"},
           \A q \in Processes : q # p => nextStep'[q] = nextStep[q] /\ seen'[q] = seen[q],
           UNCHANGED binding
    PROVE  WriterInv' /\ FillerInv'
BY DEF FilesInv, WriterInv, FillerInv, Binders

\* The reports of p, which none of the promises is about, or which agrees with what is there.
LEMMA QuietWinner ==
    ASSUME OneWinner, NEW p \in Processes,
           \A q \in Processes : q # p => said'[q] = said[q],
           UNCHANGED <<binding, shim>>,
           said'[p] # "bound",
           said'[p] \in Binders => said'[p] = binding,
           said'[p] \in {"Installed", "AlreadyCurrent"} /\ ProcessKind[p] = "shim" =>
                shim \in {Brings[p], "foreign"}
    PROVE  OneWinner'
BY OwnedAssumption DEF OneWinner, Binders, Verdicts

LEMMA DecisionSaid ==
    ASSUME NEW old, NEW v
    PROVE  Decision(old, v) \in {"Installed", "AlreadyCurrent", "RefusedForeign", "RefusedModified"}
BY DEF Decision

LEMMA BindersApart ==
    /\ Binders \cap (Verdicts \cup {"torn", Nothing}) = {}
    /\ \A p \in Processes : p # "torn" /\ p # Nothing
BY OwnedAssumption DEF Binders

LEMMA ReadSkillStep == ASSUME FilesInv, NEW p \in Processes, ReadSkill(p) PROVE FilesInv'
<1> DEFINE answer == Decision(skill, Brings[p])
<1>0. OwnedTypeOK /\ OneWinner /\ ReplacesWhatItRead
  BY DEF FilesInv
<1>1. /\ ProcessKind[p] = "skill"
      /\ seen' = [seen EXCEPT ![p] = skill]
      /\ UNCHANGED <<skill, shim, binding, running, replaced, touches, killed>>
  BY DEF ReadSkill, Begins
<1>2. answer \in {"Installed", "AlreadyCurrent", "RefusedForeign", "RefusedModified"}
  BY DecisionSaid
<1>3. seen' \in [Processes -> Skills \cup {NoSkill}] /\ seen'[p] = skill
      /\ \A q \in Processes : q # p => seen'[q] = seen[q]
  BY <1>0, <1>1 DEF OwnedTypeOK
<1>4. ReplacesWhatItRead'
  BY <1>0, <1>1 DEF ReplacesWhatItRead
<1>5. CASE answer = "Installed"
  <2>1. nextStep' = [nextStep EXCEPT ![p] = "write"] /\ said' = said
    BY <1>5 DEF ReadSkill
  <2>2. /\ nextStep' \in [Processes -> {"start", "write", "link", "create", "fill", "done"}]
        /\ nextStep'[p] = "write"
        /\ \A q \in Processes : q # p => nextStep'[q] = nextStep[q]
    BY <1>0, <2>1, GoStep
  <2>3. OwnedTypeOK'
    BY <1>0, <1>1, <1>3, <2>1, <2>2 DEF OwnedTypeOK
  <2>4. WriterInv' /\ FillerInv'
    BY <1>1, <1>3, <1>5, <2>2 DEF FilesInv, WriterInv, FillerInv, Binders
  <2>5. OneWinner'
    BY <1>0, <1>1, <2>1 DEF OneWinner
  <2> QED
    BY <1>4, <2>3, <2>4, <2>5 DEF FilesInv
<1>6. CASE answer # "Installed"
  <2>1. Says(p, answer)
    BY <1>6 DEF ReadSkill
  <2>2. answer \in Verdicts \cup Binders
    BY <1>2 DEF Verdicts
  <2> HIDE DEF answer
  <2>3. /\ nextStep' \in [Processes -> {"start", "write", "link", "create", "fill", "done"}]
        /\ said' \in [Processes -> Verdicts \cup Binders]
        /\ nextStep'[p] = "done" /\ said'[p] = answer
        /\ \A q \in Processes : q # p => nextStep'[q] = nextStep[q] /\ said'[q] = said[q]
    BY <1>0, <2>1, <2>2, SaysStep
  <2>4. OwnedTypeOK'
    BY <1>0, <1>1, <1>3, <2>3 DEF OwnedTypeOK
  <2>5. WriterInv' /\ FillerInv'
    BY <1>1, <1>3, <2>3, QuietWriter
  <2>6. OneWinner'
    BY <1>0, <1>1, <1>2, <2>3, QuietWinner, BindersApart DEF Verdicts
  <2> QED
    BY <1>4, <2>4, <2>5, <2>6 DEF FilesInv
<1> QED
  BY <1>5, <1>6

\* A command that only reports and ends.
LEMMA EndStep ==
    ASSUME FilesInv, NEW p \in Processes, NEW what \in Verdicts \cup Binders, Says(p, what),
           UNCHANGED <<skill, shim, binding, running, seen, replaced, touches, killed>>,
           what # "bound",
           what \in Binders => what = binding,
           what \in {"Installed", "AlreadyCurrent"} /\ ProcessKind[p] = "shim" =>
                shim \in {Brings[p], "foreign"}
    PROVE  FilesInv'
<1>0. OwnedTypeOK /\ OneWinner /\ ReplacesWhatItRead
  BY DEF FilesInv
<1>1. /\ nextStep' \in [Processes -> {"start", "write", "link", "create", "fill", "done"}]
      /\ said' \in [Processes -> Verdicts \cup Binders]
      /\ nextStep'[p] = "done" /\ said'[p] = what
      /\ \A q \in Processes : q # p => nextStep'[q] = nextStep[q] /\ said'[q] = said[q]
  BY <1>0, SaysStep
<1>2. OwnedTypeOK'
  BY <1>0, <1>1 DEF OwnedTypeOK
<1>3. WriterInv' /\ FillerInv'
  BY <1>1, QuietWriter
<1>4. ReplacesWhatItRead'
  BY <1>0 DEF ReplacesWhatItRead
<1>5. OneWinner'
  BY <1>0, <1>1, QuietWinner
<1> QED
  BY <1>2, <1>3, <1>4, <1>5 DEF FilesInv

\* A command that goes on, to no step that writes, or is killed.
LEMMA OnwardStep ==
    ASSUME FilesInv, NEW p \in Processes, NEW next \in {"link", "create", "done"},
           nextStep' = [nextStep EXCEPT ![p] = next],
           UNCHANGED <<skill, shim, binding, running, seen, said, replaced, touches>>,
           killed' \in 0..MaxKills
    PROVE  FilesInv'
<1>0. OwnedTypeOK /\ OneWinner /\ ReplacesWhatItRead
  BY DEF FilesInv
<1>1. /\ nextStep' \in [Processes -> {"start", "write", "link", "create", "fill", "done"}]
      /\ nextStep'[p] = next
      /\ \A q \in Processes : q # p => nextStep'[q] = nextStep[q]
  BY <1>0, GoStep
<1>2. OwnedTypeOK'
  BY <1>0, <1>1 DEF OwnedTypeOK
<1>3. WriterInv' /\ FillerInv'
  BY <1>1, QuietWriter
<1>4. ReplacesWhatItRead' /\ OneWinner'
  BY <1>0 DEF ReplacesWhatItRead, OneWinner
<1> QED
  BY <1>2, <1>3, <1>4 DEF FilesInv

LEMMA WriteSkillStep == ASSUME FilesInv, NEW p \in Processes, WriteSkill(p) PROVE FilesInv'
<1>0. OwnedTypeOK /\ OneWinner /\ ReplacesWhatItRead
  BY DEF FilesInv
<1>1. /\ ProcessKind[p] = "skill" /\ nextStep[p] = "write"
      /\ Says(p, "Installed")
      /\ skill' = Managed(Brings[p], FALSE)
      /\ UNCHANGED <<shim, binding, running, seen, touches, killed>>
  BY DEF WriteSkill, Begins
<1>2. "Installed" \in Verdicts \cup Binders /\ "Installed" \notin Binders
  BY BindersApart DEF Verdicts
<1>3. /\ nextStep' \in [Processes -> {"start", "write", "link", "create", "fill", "done"}]
      /\ said' \in [Processes -> Verdicts \cup Binders]
      /\ nextStep'[p] = "done" /\ said'[p] = "Installed"
      /\ \A q \in Processes : q # p => nextStep'[q] = nextStep[q] /\ said'[q] = said[q]
  BY <1>0, <1>1, <1>2, SaysStep
<1>4. Brings[p] \in Versions /\ skill' \in Skills
  <2>1. Brings[p] \in Versions
    BY <1>1, OwnedAssumption
  <2> QED
    BY <1>1, <2>1, SkillsThere
<1>5. seen[p] \in Skills \cup {NoSkill} /\ Decision(seen[p], Brings[p]) = "Installed"
  BY <1>0, <1>1 DEF FilesInv, WriterInv, OwnedTypeOK
<1>6. CASE skill = NoSkill
  <2>1. replaced' = replaced
    BY <1>6 DEF WriteSkill
  <2> QED
    <3>1. OwnedTypeOK'
      BY <1>0, <1>1, <1>3, <1>4, <2>1 DEF OwnedTypeOK
    <3>2. WriterInv' /\ FillerInv'
      BY <1>1, <1>3, QuietWriter
    <3>3. ReplacesWhatItRead'
      BY <1>0, <2>1 DEF ReplacesWhatItRead
    <3>4. OneWinner'
      BY <1>0, <1>1, <1>2, <1>3, QuietWinner
    <3> QED
      BY <3>1, <3>2, <3>3, <3>4 DEF FilesInv
<1>7. CASE skill # NoSkill
  <2>1. replaced' = replaced \cup {<<skill, seen[p], Brings[p]>>}
    BY <1>7 DEF WriteSkill
  <2>2. skill \in Skills
    BY <1>0, <1>7 DEF OwnedTypeOK
  <2>3. skill = seen[p] => skill.marker \in 1..(Brings[p] - 1)
    BY <1>4, <1>5, <1>7, InstalledOver
  <2>4. ReplacesWhatItRead'
    BY <1>0, <2>1, <2>3 DEF ReplacesWhatItRead
  <2>5. OwnedTypeOK'
    <3>1. replaced' \subseteq Skills \X (Skills \cup {NoSkill}) \X Versions
      BY <1>0, <1>4, <1>5, <2>1, <2>2 DEF OwnedTypeOK
    <3> QED
      BY <1>0, <1>1, <1>3, <1>4, <3>1 DEF OwnedTypeOK
  <2>6. WriterInv' /\ FillerInv'
    BY <1>1, <1>3, QuietWriter
  <2>7. OneWinner'
    BY <1>0, <1>1, <1>2, <1>3, QuietWinner
  <2> QED
    BY <2>4, <2>5, <2>6, <2>7 DEF FilesInv
<1> QED
  BY <1>6, <1>7

LEMMA LookForShimStep == ASSUME FilesInv, NEW p \in Processes, LookForShim(p) PROVE FilesInv'
<1>1. UNCHANGED <<skill, shim, binding, running, seen, replaced, touches, killed>>
  BY DEF LookForShim
<1>2. CASE shim = Nothing
  BY <1>1, <1>2, OnwardStep DEF LookForShim, FilesInv, OwnedTypeOK
<1>3. CASE shim # Nothing
  <2>1. CheckCurrent(p)
    BY <1>3 DEF LookForShim
  <2>2. CASE shim = Brings[p]
    BY <1>1, <2>1, <2>2, EndStep, BindersApart DEF CheckCurrent, Verdicts
  <2>3. CASE shim # Brings[p]
    BY <1>1, <2>1, <2>3, EndStep, BindersApart DEF CheckCurrent, Verdicts
  <2> QED
    BY <2>2, <2>3
<1> QED
  BY <1>2, <1>3

LEMMA CreateShimStep == ASSUME FilesInv, NEW p \in Processes, CreateShim(p) PROVE FilesInv'
<1>0. OwnedTypeOK /\ OneWinner /\ ReplacesWhatItRead
  BY DEF FilesInv
<1>1. /\ ProcessKind[p] = "shim"
      /\ UNCHANGED <<skill, binding, running, seen, replaced, touches, killed>>
  BY DEF CreateShim, Begins
<1>2. CASE shim = Nothing
  <2>1. shim' = Brings[p] /\ Says(p, "Installed")
    BY <1>2 DEF CreateShim
  <2>2. "Installed" \in Verdicts \cup Binders /\ "Installed" \notin Binders
    BY BindersApart DEF Verdicts
  <2>3. /\ nextStep' \in [Processes -> {"start", "write", "link", "create", "fill", "done"}]
        /\ said' \in [Processes -> Verdicts \cup Binders]
        /\ nextStep'[p] = "done" /\ said'[p] = "Installed"
        /\ \A q \in Processes : q # p => nextStep'[q] = nextStep[q] /\ said'[q] = said[q]
    BY <1>0, <2>1, <2>2, SaysStep
  <2>4. shim' \in Executables
    BY <1>1, <2>1 DEF Executables
  <2>5. OwnedTypeOK'
    BY <1>0, <1>1, <2>3, <2>4 DEF OwnedTypeOK
  <2>6. WriterInv' /\ FillerInv'
    BY <1>1, <2>3, QuietWriter
  <2>7. ReplacesWhatItRead'
    BY <1>0, <1>1 DEF ReplacesWhatItRead
  <2>8. \A q \in Processes : ProcessKind[q] = "shim" =>
            said[q] \notin {"Installed", "AlreadyCurrent"}
    BY <1>0, <1>2, OwnedAssumption DEF OneWinner, Nothing
  <2>9. OneWinner'
    BY <1>0, <1>1, <2>1, <2>2, <2>3, <2>8 DEF OneWinner, Binders
  <2> QED
    BY <2>5, <2>6, <2>7, <2>9 DEF FilesInv
<1>3. CASE shim # Nothing
  <2>1. CheckCurrent(p) /\ UNCHANGED shim
    BY <1>3 DEF CreateShim
  <2>2. CASE shim = Brings[p]
    BY <1>1, <2>1, <2>2, EndStep, BindersApart DEF CheckCurrent, Verdicts
  <2>3. CASE shim # Brings[p]
    BY <1>1, <2>1, <2>3, EndStep, BindersApart DEF CheckCurrent, Verdicts
  <2> QED
    BY <2>2, <2>3
<1> QED
  BY <1>2, <1>3

LEMMA CheckUnboundStep == ASSUME FilesInv, NEW p \in Processes, CheckUnbound(p) PROVE FilesInv'
<1>1. UNCHANGED <<skill, shim, binding, running, seen, replaced, touches, killed>>
  BY DEF CheckUnbound
<1>2. CASE binding = Nothing
  BY <1>1, <1>2, OnwardStep DEF CheckUnbound, FilesInv, OwnedTypeOK
<1>3. CASE binding # Nothing
  BY <1>1, <1>3, EndStep, BindersApart DEF CheckUnbound, Verdicts
<1> QED
  BY <1>2, <1>3

LEMMA CreateBindingStep == ASSUME FilesInv, NEW p \in Processes, CreateBinding(p) PROVE FilesInv'
<1>0. OwnedTypeOK /\ OneWinner /\ ReplacesWhatItRead
  BY DEF FilesInv
<1>1. /\ ProcessKind[p] = "bind"
      /\ UNCHANGED <<skill, shim, running, seen, replaced, touches, killed>>
  BY DEF CreateBinding, Begins
<1>2. CASE binding = Nothing
  <2>1. /\ binding' = "torn" /\ nextStep' = [nextStep EXCEPT ![p] = "fill"]
        /\ UNCHANGED said
    BY <1>2 DEF CreateBinding
  <2>2. /\ nextStep' \in [Processes -> {"start", "write", "link", "create", "fill", "done"}]
        /\ nextStep'[p] = "fill"
        /\ \A q \in Processes : q # p => nextStep'[q] = nextStep[q]
    BY <1>0, <2>1, GoStep
  <2>3. OwnedTypeOK'
    BY <1>0, <1>1, <2>1, <2>2 DEF OwnedTypeOK
  <2>4. \A q \in Processes : nextStep[q] # "fill"
    BY <1>2 DEF FilesInv, WriterInv, Nothing
  <2>5. WriterInv' /\ FillerInv'
    BY <1>1, <2>1, <2>2, <2>4 DEF FilesInv, WriterInv, FillerInv, Binders
  <2>6. ReplacesWhatItRead'
    BY <1>0, <1>1 DEF ReplacesWhatItRead
  <2>7. \A q \in Processes : said[q] \notin Binders /\ (q \in Binders => said[q] # "bound")
    BY <1>0, <1>2, BindersApart DEF OneWinner
  <2>8. OneWinner'
    BY <1>0, <1>1, <2>1, <2>7 DEF OneWinner, Binders
  <2> QED
    BY <2>3, <2>5, <2>6, <2>8 DEF FilesInv
<1>3. CASE binding # Nothing
  BY <1>1, <1>3, EndStep, BindersApart DEF CreateBinding, Verdicts
<1> QED
  BY <1>2, <1>3

LEMMA FillBindingStep == ASSUME FilesInv, NEW p \in Processes, FillBinding(p) PROVE FilesInv'
<1>0. OwnedTypeOK /\ OneWinner /\ ReplacesWhatItRead
  BY DEF FilesInv
<1>1. /\ nextStep[p] = "fill" /\ binding' = p /\ Says(p, "bound")
      /\ UNCHANGED <<skill, shim, running, seen, replaced, touches, killed>>
  BY DEF FillBinding, Begins
<1>2. p \in Binders /\ binding = "torn"
  BY <1>1 DEF FilesInv, WriterInv
<1>3. "bound" \in Verdicts /\ "bound" \notin Binders
  BY BindersApart DEF Verdicts
<1>4. /\ nextStep' \in [Processes -> {"start", "write", "link", "create", "fill", "done"}]
      /\ said' \in [Processes -> Verdicts \cup Binders]
      /\ nextStep'[p] = "done" /\ said'[p] = "bound"
      /\ \A q \in Processes : q # p => nextStep'[q] = nextStep[q] /\ said'[q] = said[q]
  BY <1>0, <1>1, <1>3, SaysStep
<1>5. OwnedTypeOK'
  BY <1>0, <1>1, <1>2, <1>4 DEF OwnedTypeOK
<1>6. \A q \in Processes : nextStep'[q] # "fill"
  BY <1>1, <1>4 DEF FilesInv, FillerInv
<1>7. WriterInv' /\ FillerInv'
  BY <1>1, <1>4, <1>6 DEF FilesInv, WriterInv, FillerInv
<1>8. ReplacesWhatItRead'
  BY <1>0, <1>1 DEF ReplacesWhatItRead
<1>9. \A q \in Processes : said[q] \notin Binders /\ (q \in Binders => said[q] # "bound")
  BY <1>0, <1>2, BindersApart DEF OneWinner
<1>10. ProcessKind[p] = "bind"
  BY <1>2 DEF Binders
<1>11. OneWinner'
  BY <1>0, <1>1, <1>3, <1>4, <1>9, <1>10 DEF OneWinner, Binders
<1> QED
  BY <1>5, <1>7, <1>8, <1>11 DEF FilesInv

LEMMA ResolveStep == ASSUME FilesInv, NEW p \in Processes, Resolve(p) PROVE FilesInv'
<1>1. UNCHANGED <<skill, shim, binding, running, seen, replaced, touches, killed>>
  BY DEF Resolve
<1>2. CASE binding = Nothing
  <2>1. Says(p, "unbound")
    BY <1>2 DEF Resolve, Nothing
  <2> QED
    BY <1>1, <2>1, EndStep, BindersApart DEF Verdicts
<1>3. CASE binding = "torn"
  <2>1. Says(p, "corrupt")
    BY <1>3 DEF Resolve, Nothing
  <2> QED
    BY <1>1, <2>1, EndStep, BindersApart DEF Verdicts
<1>4. CASE binding \in Binders
  <2>1. Says(p, binding)
    BY <1>4, BindersApart DEF Resolve
  <2> QED
    BY <1>1, <1>4, <2>1, EndStep, BindersApart DEF Verdicts
<1> QED
  BY <1>2, <1>3, <1>4 DEF FilesInv, OwnedTypeOK

LEMMA KillCommandStep == ASSUME FilesInv, NEW p \in Processes, KillCommand(p) PROVE FilesInv'
<1>1. killed' \in 0..MaxKills
  BY OwnedAssumption DEF KillCommand, FilesInv, OwnedTypeOK
<1> QED
  BY <1>1, OnwardStep DEF KillCommand

LEMMA OwnerWritesStep == ASSUME FilesInv, OwnerWrites PROVE FilesInv'
<1>0. OwnedTypeOK /\ OneWinner /\ ReplacesWhatItRead
  BY DEF FilesInv
<1>1. UNCHANGED <<binding, running, nextStep, seen, said, replaced, killed>>
  BY DEF OwnerWrites
<1>2. touches' \in 0..MaxTouches
  BY <1>0, OwnedAssumption DEF OwnerWrites, OwnedTypeOK
<1>3. shim' = shim \/ shim' = "foreign"
  BY DEF OwnerWrites
<1>4. skill' \in Skills \cup {NoSkill}
  <2>1. CASE skill # NoSkill /\ skill' = [skill EXCEPT !.edited = TRUE]
    <3>1. skill \in Skills
      BY <1>0, <2>1 DEF OwnedTypeOK
    <3> QED
      BY <2>1, <3>1, SkillsThere
  <2> QED
    BY <1>0, <2>1 DEF OwnerWrites, OwnedTypeOK, Skills
<1>5. OwnedTypeOK'
  BY <1>0, <1>1, <1>2, <1>3, <1>4 DEF OwnedTypeOK, Executables
<1>6. WriterInv' /\ FillerInv' /\ ReplacesWhatItRead'
  BY <1>1 DEF FilesInv, WriterInv, FillerInv, ReplacesWhatItRead
<1>7. OneWinner'
  BY <1>0, <1>1, <1>3 DEF OneWinner
<1> QED
  BY <1>5, <1>6, <1>7 DEF FilesInv

LEMMA FilesStep == FilesInv /\ [OwnedNext]_ownedvars => FilesInv'
<1> SUFFICES ASSUME FilesInv, [OwnedNext]_ownedvars PROVE FilesInv'
  OBVIOUS
<1>1. CASE UNCHANGED ownedvars
  BY <1>1 DEF ownedvars, FilesInv, OwnedTypeOK, WriterInv, FillerInv, ReplacesWhatItRead, OneWinner
<1>2. CASE OwnedNext
  BY <1>2, ReadSkillStep, WriteSkillStep, LookForShimStep, CreateShimStep, CheckUnboundStep,
     CreateBindingStep, FillBindingStep, ResolveStep, KillCommandStep, OwnerWritesStep
     DEF OwnedNext
<1> QED
  BY <1>1, <1>2

\* The files a command line writes outside the store, and what each command has read and
\* reported, keep their types (skills/installer.rs, skills/shim.rs, project.rs).
THEOREM OwnedTypeCorrect == OwnedSpec => []OwnedTypeOK
<1>1. FilesInv => OwnedTypeOK
  BY DEF FilesInv
<1> QED
  BY <1>1, FilesStart, FilesStep, PTL DEF OwnedSpec

\* For any number of commands, of edits by the owner and of processes killed: a skill that
\* is replaced as it was read was ours and older (install_skill, write_atomic), and of the
\* commands that race for the shim or the binding one wins, and all that report on it name
\* what is there (create_shim, write_bind, resolve_project_id).
THEOREM OwnedFilesKeepTheirOwner == OwnedSpec => []FilesKeepTheirOwner
<1>1. FilesInv => FilesKeepTheirOwner
  BY DEF FilesInv, FilesKeepTheirOwner
<1> QED
  BY <1>1, FilesStart, FilesStep, PTL DEF OwnedSpec

------------------------------------------------
(* ModelCache: what is loaded is what was verified, or was disturbed since.  *)

\* Files are only made by downloads, the staged name is never on the published file, and
\* who is about to load has verified the file that is there, unless it was disturbed.
CacheInv ==
    /\ CacheTypeOK
    /\ part # Nobody => part # final
    /\ \A p \in Users :
        /\ loading[p] \in {"start", "fetch"} => part # p /\ final # p
        /\ loading[p] \in {"first", "second"} => handle[p] \in Users
        /\ loading[p] \in {"verify", "load"} => final \in Users
        /\ loading[p] = "load" => content[final] = Good \/ p \in moved
        /\ loading[p] = "loaded" => loaded[p] = Good \/ p \in moved

LoadStep ==
    {"start", "fetch", "first", "second", "publish", "verify", "load", "loaded", "failed"}

LEMMA ChunksTyped == Missing \in Chunks /\ Good \in Chunks
BY DEF Missing, Good, Chunks

LEMMA MovesStep ==
    ASSUME CacheTypeOK, NEW p \in Users, NEW to \in LoadStep, Moves(p, to)
    PROVE  /\ loading' \in [Users -> LoadStep]
           /\ loading'[p] = to
           /\ \A q \in Users : q # p => loading'[q] = loading[q]
BY DEF CacheTypeOK, LoadStep, Moves

LEMMA CacheStart == CacheInit => CacheInv
<1> SUFFICES ASSUME CacheInit PROVE CacheInv
  OBVIOUS
<1>1. CacheTypeOK
  BY ChunksTyped, CacheAssumption DEF CacheInit, CacheTypeOK
<1> QED
  BY <1>1, CacheAssumption DEF CacheInit, CacheInv

\* A step of p that leaves the files alone.
LEMMA FilesAlone ==
    ASSUME CacheInv, NEW p \in Users, NEW to \in LoadStep, Moves(p, to),
           UNCHANGED <<content, part, final, handle, moved, bad>>,
           broken' \in 0..MaxCacheKills,
           loaded' \in [Users -> Chunks], \A q \in Users : q # p => loaded'[q] = loaded[q],
           to \in {"start", "fetch"} => loading[p] \in {"start", "fetch"},
           to \notin {"first", "second"},
           to \in {"verify", "load"} => final \in Users,
           to = "load" => content[final] = Good,
           to = "loaded" => loaded'[p] = Good \/ p \in moved
    PROVE  CacheInv'
<1>1. /\ loading' \in [Users -> LoadStep]
      /\ loading'[p] = to
      /\ \A q \in Users : q # p => loading'[q] = loading[q]
  BY MovesStep DEF CacheInv
<1>2. CacheTypeOK'
  BY <1>1 DEF CacheInv, CacheTypeOK, LoadStep
<1> QED
  BY <1>1, <1>2 DEF CacheInv

LEMMA FetchStep == ASSUME CacheInv, NEW p \in Users, Fetch(p) PROVE CacheInv'
<1>0. CacheTypeOK /\ loading[p] = "fetch" /\ UNCHANGED <<final, loaded, moved, bad, broken>>
  BY DEF CacheInv, Fetch
<1>1. CASE Moves(p, "failed") /\ UNCHANGED <<content, part, handle>>
  <2>1. broken' \in 0..MaxCacheKills /\ loaded' \in [Users -> Chunks]
    BY <1>0 DEF CacheTypeOK
  <2> QED
    BY <1>0, <1>1, <2>1, FilesAlone DEF LoadStep
<1>2. CASE /\ Moves(p, "first")
           /\ part' = IF part = Nobody THEN p ELSE part
           /\ handle' = [handle EXCEPT ![p] = part']
           /\ content' = [content EXCEPT ![part'] = Missing]
  <2>1. /\ loading' \in [Users -> LoadStep]
        /\ loading'[p] = "first"
        /\ \A q \in Users : q # p => loading'[q] = loading[q]
    BY <1>0, <1>2, MovesStep DEF LoadStep
  <2>2. part' \in Users /\ part' # final
    BY <1>0, <1>2 DEF CacheInv, CacheTypeOK
  <2>3. handle' \in [Users -> Users \cup {Nobody}] /\ handle'[p] = part'
        /\ \A q \in Users : q # p => handle'[q] = handle[q]
    BY <1>0, <1>2, <2>2 DEF CacheTypeOK
  <2>4. content' \in [Users -> Chunks] /\ (final \in Users => content'[final] = content[final])
    BY <1>0, <1>2, <2>2, ChunksTyped DEF CacheTypeOK
  <2>5. CacheTypeOK'
    BY <1>0, <2>1, <2>2, <2>3, <2>4 DEF CacheTypeOK, LoadStep
  <2>6. \A q \in Users : loading'[q] \in {"start", "fetch"} => part' # q /\ final' # q
    BY <1>0, <1>2, <2>1, CacheAssumption DEF CacheInv
  <2> QED
    BY <1>0, <2>1, <2>2, <2>3, <2>4, <2>5, <2>6 DEF CacheInv
<1> QED
  BY <1>1, <1>2 DEF Fetch

LEMMA WriteChunkStep == ASSUME CacheInv, NEW p \in Users, WriteChunk(p) PROVE CacheInv'
<1> DEFINE to == IF loading[p] = "first" THEN "second" ELSE "publish"
           k == IF loading[p] = "first" THEN 1 ELSE 2
<1>0. /\ CacheTypeOK /\ loading[p] \in {"first", "second"}
      /\ Moves(p, to) /\ UNCHANGED <<part, final, handle, loaded, broken>>
  BY DEF CacheInv, WriteChunk
<1>1. PICK c \in {"good", "bad"} :
        /\ content' = [content EXCEPT ![handle[p]][k] = c]
        /\ bad' = IF c = "bad" THEN bad + 1 ELSE bad
        /\ c = "bad" => bad < MaxBad
  BY DEF WriteChunk
<1>2. handle[p] \in Users
  BY <1>0 DEF CacheInv
<1>3. content' \in [Users -> Chunks]
      /\ \A u \in Users : u # handle[p] => content'[u] = content[u]
  <2>1. k \in {1, 2} /\ content \in [Users -> [{1, 2} -> {"missing", "good", "bad"}]]
    BY <1>0 DEF CacheTypeOK, Chunks
  <2> HIDE DEF k
  <2> QED
    BY <1>1, <1>2, <2>1 DEF Chunks
<1>4. bad' \in 0..MaxBad
  BY <1>0, <1>1, CacheAssumption DEF CacheTypeOK
<1>5. moved' \subseteq Users /\ moved \subseteq moved'
  BY <1>0 DEF WriteChunk, Disturbs, CacheTypeOK
<1>6. handle[p] = final => \A q \in Users : loading[q] = "load" => q \in moved'
  BY DEF WriteChunk, Disturbs
<1>7. to \in {"second", "publish"} /\ to \in LoadStep
  BY DEF LoadStep
<1> HIDE DEF to
<1>8. /\ loading' \in [Users -> LoadStep]
      /\ loading'[p] = to
      /\ \A q \in Users : q # p => loading'[q] = loading[q]
  BY <1>0, <1>7, MovesStep
<1>9. CacheTypeOK'
  BY <1>0, <1>3, <1>4, <1>5, <1>8 DEF CacheTypeOK, LoadStep
<1>10. \A q \in Users : loading'[q] = "load" => content'[final'] = Good \/ q \in moved'
  BY <1>0, <1>3, <1>5, <1>6, <1>7, <1>8 DEF CacheInv
<1> QED
  BY <1>0, <1>2, <1>5, <1>7, <1>8, <1>9, <1>10 DEF CacheInv

LEMMA BreakOffStep == ASSUME CacheInv, NEW p \in Users, BreakOff(p) PROVE CacheInv'
<1>0. /\ CacheTypeOK /\ Moves(p, "failed") /\ part' = Nobody
      /\ UNCHANGED <<content, final, handle, loaded, moved, bad, broken>>
  BY DEF CacheInv, BreakOff
<1>1. /\ loading' \in [Users -> LoadStep]
      /\ loading'[p] = "failed"
      /\ \A q \in Users : q # p => loading'[q] = loading[q]
  BY <1>0, MovesStep DEF LoadStep
<1>2. CacheTypeOK'
  BY <1>0, <1>1 DEF CacheTypeOK, LoadStep
<1> QED
  BY <1>0, <1>1, <1>2, CacheAssumption DEF CacheInv

LEMMA PublishStepCache == ASSUME CacheInv, NEW p \in Users, Publish(p) PROVE CacheInv'
<1>0. /\ CacheTypeOK /\ loading[p] = "publish"
      /\ UNCHANGED <<content, handle, loaded, bad, broken>>
  BY DEF CacheInv, Publish
<1>1. CASE part = Nobody
  <2>1. Moves(p, "failed") /\ UNCHANGED <<part, final, moved>>
    BY <1>1 DEF Publish
  <2>2. broken' \in 0..MaxCacheKills /\ loaded' \in [Users -> Chunks]
    BY <1>0 DEF CacheTypeOK
  <2> QED
    BY <1>0, <2>1, <2>2, FilesAlone DEF LoadStep
<1>2. CASE part # Nobody
  <2>1. final' = part /\ part' = Nobody /\ Moves(p, "verify") /\ Disturbs
    BY <1>2 DEF Publish
  <2>2. /\ loading' \in [Users -> LoadStep]
        /\ loading'[p] = "verify"
        /\ \A q \in Users : q # p => loading'[q] = loading[q]
    BY <1>0, <2>1, MovesStep DEF LoadStep
  <2>3. moved' \subseteq Users /\ moved \subseteq moved' /\ final' \in Users
        /\ \A q \in Users : loading[q] = "load" => q \in moved'
    BY <1>0, <1>2, <2>1 DEF Disturbs, CacheTypeOK
  <2>4. CacheTypeOK'
    BY <1>0, <2>1, <2>2, <2>3 DEF CacheTypeOK, LoadStep
  <2> QED
    BY <1>0, <2>1, <2>2, <2>3, <2>4, CacheAssumption DEF CacheInv
<1> QED
  BY <1>1, <1>2

LEMMA LookStep == ASSUME CacheInv, NEW p \in Users, Look(p) PROVE CacheInv'
<1>1. broken' \in 0..MaxCacheKills /\ loaded' \in [Users -> Chunks]
  BY DEF Look, CacheInv, CacheTypeOK
<1>2. CASE Moves(p, "verify") /\ final # Nobody
  BY <1>1, <1>2, FilesAlone DEF Look, CacheInv, CacheTypeOK, LoadStep
<1>3. CASE Moves(p, "fetch") \/ Moves(p, "failed")
  BY <1>1, <1>3, FilesAlone DEF Look, LoadStep
<1> QED
  BY <1>2, <1>3 DEF Look

LEMMA VerifyDigestStep == ASSUME CacheInv, NEW p \in Users, VerifyDigest(p) PROVE CacheInv'
<1>1. broken' \in 0..MaxCacheKills /\ loaded' \in [Users -> Chunks] /\ final \in Users
  BY DEF VerifyDigest, CacheInv, CacheTypeOK
<1>2. CASE content[final] = Good
  <2>1. Moves(p, "load")
    BY <1>2 DEF VerifyDigest
  <2> QED
    BY <1>1, <1>2, <2>1, FilesAlone DEF VerifyDigest, LoadStep
<1>3. CASE content[final] # Good
  <2>1. Moves(p, "failed")
    BY <1>3 DEF VerifyDigest
  <2> QED
    BY <1>1, <2>1, FilesAlone DEF VerifyDigest, LoadStep
<1> QED
  BY <1>2, <1>3

LEMMA LoadStepTaken == ASSUME CacheInv, NEW p \in Users, Load(p) PROVE CacheInv'
<1>1. /\ broken' \in 0..MaxCacheKills /\ final \in Users
      /\ content[final] = Good \/ p \in moved
      /\ loaded' = [loaded EXCEPT ![p] = content[final]] /\ content[final] \in Chunks
  BY DEF Load, CacheInv, CacheTypeOK
<1>2. loaded' \in [Users -> Chunks] /\ loaded'[p] = content[final]
      /\ \A q \in Users : q # p => loaded'[q] = loaded[q]
  BY <1>1 DEF CacheInv, CacheTypeOK
<1> QED
  BY <1>1, <1>2, FilesAlone DEF Load, LoadStep

LEMMA KillUserStep == ASSUME CacheInv, NEW p \in Users, KillUser(p) PROVE CacheInv'
<1>1. broken' \in 0..MaxCacheKills /\ loaded' \in [Users -> Chunks]
  BY CacheAssumption DEF KillUser, CacheInv, CacheTypeOK
<1> QED
  BY <1>1, FilesAlone DEF KillUser, LoadStep

LEMMA CacheStep == CacheInv /\ [CacheNext]_cachevars => CacheInv'
<1> SUFFICES ASSUME CacheInv, [CacheNext]_cachevars PROVE CacheInv'
  OBVIOUS
<1>1. CASE UNCHANGED cachevars
  BY <1>1 DEF cachevars, CacheInv, CacheTypeOK
<1>2. CASE CacheNext
  BY <1>2, LookStep, FetchStep, WriteChunkStep, BreakOffStep, PublishStepCache, VerifyDigestStep,
     LoadStepTaken, KillUserStep DEF CacheNext
<1> QED
  BY <1>1, <1>2

\* The files of the cache, and what each process writes to and has loaded, keep their
\* types (embeddings/src/artifacts.rs).
THEOREM CacheTypeCorrect == CacheSpec => []CacheTypeOK
<1>1. CacheInv => CacheTypeOK
  BY DEF CacheInv
<1> QED
  BY <1>1, CacheStart, CacheStep, PTL DEF CacheSpec

\* For any number of downloads that share the staged name, are cut off or killed, and of
\* daemons that start beside them, what is loaded is the model whole and unaltered, unless
\* the file was disturbed between its digest and its loading (verify_digest, load_verified).
THEOREM WhatIsLoadedWasVerified == CacheSpec => []LoadsWhatItVerified
<1>1. CacheInv => LoadsWhatItVerified
  BY DEF CacheInv, LoadsWhatItVerified
<1> QED
  BY <1>1, CacheStart, CacheStep, PTL DEF CacheSpec

-----------------------------------------------------------------------------
(* Migrations.                                                             *)

Spaces == {"meta"} \cup UNION {b.required : b \in Builds}
SchemaVersions ==
    {NoRecord, Corrupt} \cup {b.target : b \in Builds} \cup UNION {StepsOf(b) : b \in Builds}

StoreRecord ==
    [version : SchemaVersions, done : Seq(Nat \ {0}), spaces : SUBSET Spaces, wrote : BOOLEAN]

\* The steps of a store led to its version, each of them above the one before it.
InStep(s) ==
    /\ s \in StoreRecord
    /\ s.version < 0 => s.done = <<>>
    /\ s.version >= 0 => s.done # <<>> /\ s.done[Len(s.done)] = s.version
    /\ \A i, j \in DOMAIN s.done : i < j => s.done[i] < s.done[j]

\* The stores a power failure may go back to are of one kind, and have what was acknowledged.
UnflushedInv ==
    /\ database \in unflushed
    /\ \A s \in unflushed \cup {asFound} :
          InStep(s) /\ (s.version = Corrupt <=> database.version = Corrupt)
    /\ acknowledged => \A s \in unflushed : s.wrote

\* Two stores that differ in their keyspaces at most.
SameRows(s, t) == s.version = t.version /\ s.done = t.done /\ s.wrote = t.wrote

\* An open that goes on has a version that leads to the build's.
OpeningInv ==
    /\ build \in Builds /\ opens \in 0..MaxOpens /\ crashes \in 0..MaxCrashes
    /\ acknowledged \in BOOLEAN
    /\ opening \in {"closed", "assess", "step", "validate", "keyspaces", "serving",
                    "refused", "failed"}
    /\ opening \in {"assess", "refused"} => SameRows(database, asFound)
    /\ opening = "step" =>
          database.version # Corrupt /\ CanReach(build, RecordedVersion(database.version))
    /\ opening \in {"validate", "keyspaces", "serving"} => database.version = build.target
    /\ opening = "serving" => build.required \subseteq database.spaces

SchemaInv == UnflushedInv /\ OpeningInv

LEMMA FirstStep ==
    ASSUME NEW S \in SUBSET Nat, S # {}
    PROVE  \E k \in S : \A l \in S : k <= l
<1> DEFINE order == OpToRel(<, Nat)
<1>1. IsWellFoundedOn(order, Nat)
  BY NatLessThanWellFounded
<1> HIDE DEF order
<1>2. PICK k \in S : \A l \in S : ~(<<l, k>> \in order)
  BY <1>1, WFMin
<1>3. \A l \in S : ~(l < k)
  BY <1>2 DEF order, OpToRel
<1> QED BY <1>3

LEMMA VersionsTyped ==
    SchemaVersions \subseteq Int /\ \A b \in Builds : StepsOf(b) \subseteq Nat \ {0}
<1>1. ASSUME NEW b \in Builds PROVE b.target \in Nat /\ StepsOf(b) \subseteq Nat \ {0}
  <2>1. b.target \in Nat /\ b.plan \in Seq(Nat \ {0})
    BY MigrationsAssumption
  <2>2. \A k \in DOMAIN b.plan : b.plan[k] \in Nat \ {0}
    BY <2>1
  <2> QED BY <2>1, <2>2 DEF StepsOf
<1>2. NoRecord \in Int /\ Corrupt \in Int
  BY DEF NoRecord, Corrupt
<1> QED BY <1>1, <1>2 DEF SchemaVersions

\* The first step beyond a version that leads to the target leads there as well; there is
\* none up to the target only at the target.
LEMMA NextStep ==
    ASSUME NEW b \in Builds, NEW v \in Nat, CanReach(b, v)
    PROVE  LET m == NextMigration(b, v)
           IN  \/ m = NoStep /\ v = b.target
               \/ m \in StepsOf(b) /\ m > v /\ m > b.target /\ v = b.target
               \/ m \in StepsOf(b) /\ m > v /\ m <= b.target /\ CanReach(b, m)
<1> DEFINE beyond == {k \in DOMAIN b.plan : b.plan[k] > v}
           first == CHOOSE k \in beyond : \A l \in beyond : k <= l
           m == NextMigration(b, v)
<1>0. b.plan \in Seq(Nat \ {0}) /\ b.target \in Nat
  BY MigrationsAssumption
<1>1. beyond \in SUBSET Nat
  BY <1>0
<1>2. CASE beyond = {}
  <2>1. m = NoStep
    BY <1>2 DEF NextMigration
  <2>2. v = b.target
    BY <1>0, <1>2 DEF CanReach, StepsOf
  <2> QED BY <2>1, <2>2
<1>3. CASE beyond # {}
  <2>1. first \in beyond /\ \A l \in beyond : first <= l
    BY <1>1, <1>3, FirstStep
  <2>2. m = b.plan[first]
    BY <1>3 DEF NextMigration
  <2> HIDE DEF first
  <2>3. m \in StepsOf(b) /\ m > v /\ m \in Nat
    BY <1>0, <2>1, <2>2 DEF StepsOf
  <2>4. CASE v = b.target
    BY <1>0, <2>3, <2>4
  <2>5. CASE v # b.target
    <3>1. PICK k \in DOMAIN b.plan : b.plan[k] = b.target
      BY <2>5 DEF CanReach, StepsOf
    <3>2. k \in beyond
      BY <1>0, <2>5, <3>1 DEF CanReach
    <3>3. first <= k /\ first \in Nat /\ k \in Nat /\ first \in DOMAIN b.plan
      BY <1>0, <2>1, <3>2
    <3>4. m <= b.target
      BY <1>0, <2>2, <3>1, <3>3, MigrationsAssumption
    <3>5. b.target \in StepsOf(b)
      BY <3>1 DEF StepsOf
    <3> QED BY <1>0, <2>3, <3>4, <3>5 DEF CanReach
  <2> QED BY <2>4, <2>5
<1> QED BY <1>2, <1>3

LEMMA SchemaStarts == SchemaInit => SchemaInv
<1> SUFFICES ASSUME SchemaInit PROVE SchemaInv
  OBVIOUS
<1>1. InStep(EmptyStore) /\ InStep(UnknownStore)
  BY DEF InStep, EmptyStore, UnknownStore, StoreRecord, Spaces, SchemaVersions, NoRecord, Corrupt
<1>2. UnflushedInv
  BY <1>1 DEF SchemaInit, UnflushedInv
<1>3. 0 \in 0..MaxOpens /\ 0 \in 0..MaxCrashes
  BY MigrationsAssumption
<1>4. OpeningInv
  BY <1>3 DEF SchemaInit, OpeningInv
<1> QED BY <1>2, <1>4 DEF SchemaInv

\* A commit that leaves the version and the steps, and what was written.
LEMMA SpacesGrow ==
    ASSUME UnflushedInv, NEW more \in SUBSET Spaces, acknowledged' = acknowledged,
           asFound' = asFound, StoreCommits([database EXCEPT !.spaces = @ \cup more])
    PROVE  /\ UnflushedInv'
           /\ database'.version = database.version
           /\ database'.spaces = database.spaces \cup more
           /\ SameRows(database', database)
<1> DEFINE new == [database EXCEPT !.spaces = @ \cup more]
<1>0. database \in StoreRecord /\ InStep(database)
  BY DEF UnflushedInv, InStep
<1>1. /\ new.version = database.version /\ new.done = database.done
      /\ new.wrote = database.wrote /\ new.spaces = database.spaces \cup more
      /\ new \in StoreRecord
  BY <1>0 DEF StoreRecord
<1>2. database' = new /\ unflushed' = unflushed \cup {new}
  BY DEF StoreCommits
<1> HIDE DEF new
<1>3. InStep(new)
  BY <1>0, <1>1 DEF InStep
<1>4. UnflushedInv'
  BY <1>1, <1>2, <1>3 DEF UnflushedInv
<1> QED BY <1>1, <1>2, <1>4 DEF SameRows

\* A step that is above the version appends to those that were done.
LEMMA StepsGrow ==
    ASSUME UnflushedInv, acknowledged' = acknowledged, asFound' = asFound,
           NEW m \in Nat \ {0}, m \in SchemaVersions, database.version # Corrupt,
           m > RecordedVersion(database.version), ApplyMigration(m)
    PROVE  UnflushedInv' /\ database'.version = m
<1> DEFINE new == [database EXCEPT !.version = m, !.done = Append(@, m)]
<1>0. database \in StoreRecord /\ InStep(database)
  BY DEF UnflushedInv, InStep
<1>d. database.done \in Seq(Nat \ {0}) /\ database.version \in Int
  BY <1>0, VersionsTyped DEF StoreRecord
<1>1. /\ new.version = m /\ new.done = Append(database.done, m)
      /\ new.wrote = database.wrote
      /\ new \in StoreRecord
  <2>1. Append(database.done, m) \in Seq(Nat \ {0})
    BY <1>d
  <2> QED BY <1>0, <2>1 DEF StoreRecord
<1>2. database' = new /\ unflushed' = unflushed \cup {new}
  BY DEF StoreCommits, ApplyMigration
<1> HIDE DEF new
<1>3. \A k \in DOMAIN database.done : database.done[k] < m
  <2>1. CASE database.version < 0
    BY <1>0, <2>1 DEF InStep
  <2>2. CASE database.version >= 0
    <3>1. database.version < m
      BY <1>d, <2>2 DEF RecordedVersion, NoRecord
    <3>2. database.done[Len(database.done)] = database.version
      BY <1>0, <2>2 DEF InStep
    <3>3. \A k \in DOMAIN database.done :
             k = Len(database.done) \/ database.done[k] < database.done[Len(database.done)]
      <4> SUFFICES ASSUME NEW k \in DOMAIN database.done, k # Len(database.done)
                   PROVE  database.done[k] < database.done[Len(database.done)]
        OBVIOUS
      <4>1. k < Len(database.done) /\ Len(database.done) \in DOMAIN database.done
        BY <1>d
      <4> QED BY <1>0, <4>1 DEF InStep
    <3> QED BY <1>d, <3>1, <3>2, <3>3
  <2> QED BY <1>d, <2>1, <2>2
<1>4. InStep(new)
  <2>1. new.done # <<>> /\ new.done[Len(new.done)] = m
    BY <1>d, <1>1
  <2>2. \A i, j \in DOMAIN new.done : i < j => new.done[i] < new.done[j]
    <3> SUFFICES ASSUME NEW i \in DOMAIN new.done, NEW j \in DOMAIN new.done, i < j
                 PROVE  new.done[i] < new.done[j]
      OBVIOUS
    <3>1. i \in DOMAIN database.done /\ new.done[i] = database.done[i]
      BY <1>d, <1>1
    <3>2. CASE j \in DOMAIN database.done
      BY <1>0, <1>d, <1>1, <3>1, <3>2 DEF InStep
    <3>3. CASE j \notin DOMAIN database.done
      BY <1>d, <1>1, <1>3, <3>1, <3>3
    <3> QED BY <3>2, <3>3
  <2> QED BY <1>1, <2>1, <2>2 DEF InStep
<1>5. m # Corrupt
  BY DEF Corrupt
<1>6. UnflushedInv'
  BY <1>1, <1>2, <1>4, <1>5 DEF UnflushedInv
<1> QED BY <1>1, <1>2, <1>6

LEMMA SchemaSteps == SchemaInv /\ [SchemaNext]_schemavars => SchemaInv'
<1> SUFFICES ASSUME SchemaInv, [SchemaNext]_schemavars PROVE SchemaInv'
  OBVIOUS
<1> USE DEF SchemaInv
<1>t. database.version \in Int /\ build.target \in Nat \ {0} /\ database \in StoreRecord
  <2>1. database \in StoreRecord
    BY DEF UnflushedInv, InStep
  <2>2. database.version \in Int
    BY <2>1, VersionsTyped DEF StoreRecord
  <2>3. build.target \in Nat \ {0}
    BY MigrationsAssumption DEF OpeningInv
  <2> QED BY <2>1, <2>2, <2>3
<1>b. MaxOpens \in Nat /\ MaxCrashes \in Nat
  BY MigrationsAssumption
<1>1. ASSUME NEW b \in Builds, OpenStore(b) PROVE SchemaInv'
  <2>1. UnflushedInv'
    BY <1>1 DEF OpenStore, UnflushedInv
  <2>2. OpeningInv'
    BY <1>1, <1>b DEF OpenStore, OpenGoes, OpeningInv, SameRows
  <2> QED BY <2>1, <2>2
<1>2. ASSUME AssessStore PROVE SchemaInv'
  <2>1. {"meta"} \in SUBSET Spaces
    BY DEF Spaces
  <2>2. /\ UnflushedInv' /\ database'.version = database.version
        /\ SameRows(database', database)
    BY <1>2, <2>1, SpacesGrow DEF AssessStore
  <2>3. OpeningInv'
    <3> DEFINE version == RecordedVersion(database.version)
    <3>0. opening' = CASE RefusedVersion(build, version) -> "refused"
                       [] version = build.target -> "keyspaces"
                       [] OTHER -> "step"
      BY <1>2 DEF AssessStore, OpenGoes
    <3>u. opening = "assess" /\ UNCHANGED <<build, asFound, acknowledged, opens, crashes>>
      BY <1>2 DEF AssessStore
    <3>1. CASE RefusedVersion(build, version)
      <4>1. opening' = "refused"
        <5>1. version = build.target => ~RefusedVersion(build, version)
          BY <1>t DEF RefusedVersion, Corrupt
        <5> QED BY <3>0, <3>1, <5>1
      <4>2. SameRows(database', asFound')
        BY <2>2, <3>u DEF SameRows, OpeningInv
      <4> QED BY <3>u, <4>1, <4>2 DEF OpeningInv
    <3>2. CASE ~RefusedVersion(build, version) /\ version = build.target
      <4>1. opening' = "keyspaces"
        BY <3>0, <3>2
      <4>2. database.version = build.target
        BY <1>t, <3>2 DEF RecordedVersion
      <4> QED BY <2>2, <3>u, <4>1, <4>2 DEF OpeningInv
    <3>3. CASE ~RefusedVersion(build, version) /\ version # build.target
      <4>0. opening' = "step"
        BY <3>0, <3>3
      <4>1. version \in Int /\ CanReach(build, version)
        BY <1>t, <3>3 DEF RefusedVersion, RecordedVersion
      <4>2. database.version # Corrupt
        BY <3>3 DEF RefusedVersion, RecordedVersion, NoRecord, Corrupt
      <4> QED BY <2>2, <3>u, <4>0, <4>1, <4>2 DEF OpeningInv
    <3> QED BY <3>1, <3>2, <3>3
  <2> QED BY <2>2, <2>3
<1>3. ASSUME MigrateStep PROVE SchemaInv'
  <2> DEFINE v == RecordedVersion(database.version)
             m == NextMigration(build, v)
  <2>1. build \in Builds /\ CanReach(build, v) /\ database.version # Corrupt
    BY <1>3 DEF MigrateStep, OpeningInv
  <2>2. v \in Nat /\ (v # 0 => v = database.version)
    <3>1. \A b \in Builds : b.target \in Nat /\ StepsOf(b) \subseteq Nat
      BY VersionsTyped, MigrationsAssumption
    <3> QED BY <1>t, <2>1, <3>1 DEF RecordedVersion, StoreRecord, SchemaVersions, NoRecord
  <2>3. \/ m = NoStep /\ v = build.target
        \/ m \in StepsOf(build) /\ m > v /\ m > build.target /\ v = build.target
        \/ m \in StepsOf(build) /\ m > v /\ m <= build.target /\ CanReach(build, m)
    BY <2>1, <2>2, NextStep
  <2>4. CASE m = NoStep \/ m > build.target
    <3>1. database.version = build.target
      <4>1. v = build.target
        BY <1>t, <2>3, <2>4, VersionsTyped, <2>1 DEF NoStep
      <4> QED BY <1>t, <2>2, <4>1
    <3>2. /\ OpenGoes("validate")
          /\ UNCHANGED <<database, unflushed, crashes, build, asFound, acknowledged, opens>>
      BY <1>3, <2>4 DEF MigrateStep
    <3>3. UnflushedInv'
      BY <3>2 DEF UnflushedInv
    <3>4. OpeningInv'
      BY <3>1, <3>2 DEF OpeningInv, OpenGoes
    <3> QED BY <3>3, <3>4
  <2>5. CASE ~(m = NoStep \/ m > build.target)
    <3>1. m \in StepsOf(build) /\ m > v /\ CanReach(build, m)
      BY <1>t, <2>3, <2>5, <2>1, VersionsTyped
    <3>2. m \in Nat \ {0} /\ m \in SchemaVersions
      BY <2>1, <3>1, VersionsTyped DEF SchemaVersions
    <3>3. CASE ApplyMigration(m) /\ UNCHANGED <<opening, crashes>>
      <4>1. UNCHANGED <<build, asFound, acknowledged, opens>> /\ opening = "step"
        BY <1>3 DEF MigrateStep
      <4>2. UnflushedInv' /\ database'.version = m
        BY <2>1, <3>1, <3>2, <3>3, <4>1, StepsGrow
      <4>3. RecordedVersion(m) = m /\ m # Corrupt
        BY <3>2 DEF RecordedVersion, NoRecord, Corrupt
      <4>4. OpeningInv'
        BY <3>1, <3>3, <4>1, <4>2, <4>3 DEF OpeningInv
      <4> QED BY <4>2, <4>4
    <3>4. CASE ~(ApplyMigration(m) /\ UNCHANGED <<opening, crashes>>)
      <4>1. /\ crashes < MaxCrashes /\ crashes' = crashes + 1 /\ OpenGoes("failed")
            /\ UNCHANGED <<database, unflushed, build, asFound, acknowledged, opens>>
        BY <1>3, <2>5, <3>4 DEF MigrateStep
      <4>2. UnflushedInv'
        BY <4>1 DEF UnflushedInv
      <4>3. OpeningInv'
        BY <4>1, <1>b DEF OpeningInv, OpenGoes
      <4> QED BY <4>2, <4>3
    <3> QED BY <3>3, <3>4
  <2> QED BY <2>4, <2>5
<1>r. build.required \in SUBSET Spaces
  BY DEF OpeningInv, Spaces
<1>4. ASSUME ValidateStore PROVE SchemaInv'
  <2>1. UnflushedInv' /\ database'.version = database.version
    BY <1>4, <1>r, SpacesGrow DEF ValidateStore
  <2>2. OpeningInv'
    BY <1>4, <2>1 DEF ValidateStore, OpenGoes, OpeningInv
  <2> QED BY <2>1, <2>2
<1>5. ASSUME OpenKeyspaces PROVE SchemaInv'
  <2>1. /\ UnflushedInv' /\ database'.version = database.version
        /\ database'.spaces = database.spaces \cup build.required
    BY <1>5, <1>r, SpacesGrow DEF OpenKeyspaces
  <2>2. OpeningInv'
    BY <1>5, <2>1 DEF OpenKeyspaces, OpenGoes, OpeningInv
  <2> QED BY <2>1, <2>2
<1>6. ASSUME ServeStore PROVE SchemaInv'
  <2> DEFINE new == [database EXCEPT !.wrote = TRUE]
  <2>1. /\ new.version = database.version /\ new.done = database.done /\ new.wrote = TRUE
        /\ new.spaces = database.spaces /\ new \in StoreRecord
    BY <1>t DEF StoreRecord
  <2>2. database' = new /\ unflushed' = {new} /\ acknowledged' = TRUE /\ opening = "serving"
        /\ UNCHANGED <<build, opening, asFound, opens, crashes>>
    BY <1>6 DEF ServeStore
  <2> HIDE DEF new
  <2>3. InStep(new)
    BY <2>1 DEF InStep, UnflushedInv
  <2>4. UnflushedInv'
    BY <2>1, <2>2, <2>3 DEF UnflushedInv
  <2>5. OpeningInv'
    BY <2>1, <2>2 DEF OpeningInv
  <2> QED BY <2>4, <2>5
<1>7. ASSUME CloseStore PROVE SchemaInv'
  BY <1>7 DEF CloseStore, OpenGoes, UnflushedInv, OpeningInv
<1>8. ASSUME OpenerKilled PROVE SchemaInv'
  BY <1>8, <1>b DEF OpenerKilled, OpenGoes, UnflushedInv, OpeningInv
<1>9. ASSUME StorePowerFails PROVE SchemaInv'
  <2>1. UnflushedInv'
    BY <1>9 DEF StorePowerFails, UnflushedInv
  <2>2. OpeningInv'
    BY <1>9, <1>b DEF StorePowerFails, OpenGoes, OpeningInv
  <2> QED BY <2>1, <2>2
<1>10. ASSUME UNCHANGED schemavars PROVE SchemaInv'
  BY <1>10 DEF schemavars, UnflushedInv, OpeningInv
<1> QED BY <1>1, <1>2, <1>3, <1>4, <1>5, <1>6, <1>7, <1>8, <1>9, <1>10 DEF SchemaNext

\* The store, what a power failure may leave of it and the open keep their types, for any
\* builds.
THEOREM SchemaTypeCorrect == SchemaSpec => []MigrationsTypeOK
<1>1. SchemaInv => MigrationsTypeOK
  BY DEF SchemaInv, UnflushedInv, OpeningInv, InStep, StoreRecord, SchemaVersions, Spaces,
     MigrationsTypeOK
<1> QED BY <1>1, SchemaStarts, SchemaSteps, PTL DEF SchemaSpec

\* A build serves a store at its own version only, every step to it done once and in
\* order, whatever builds opened it before and wherever their opens were cut off.
THEOREM StoreAlwaysMigrated == SchemaSpec => []StoreIsMigrated
<1>1. ASSUME SchemaInv PROVE StoreIsMigrated
  <2>1. InStep(database) /\ (asFound.version = Corrupt <=> database.version = Corrupt)
    BY <1>1 DEF SchemaInv, UnflushedInv
  <2>2. build.target # Corrupt
    BY <1>1, MigrationsAssumption DEF SchemaInv, OpeningInv, Corrupt
  <2>3. opening = "refused" => [database EXCEPT !.spaces = {}] = [asFound EXCEPT !.spaces = {}]
    <3> SUFFICES ASSUME opening = "refused"
                 PROVE  [database EXCEPT !.spaces = {}] = [asFound EXCEPT !.spaces = {}]
      OBVIOUS
    <3>1. database \in StoreRecord /\ asFound \in StoreRecord /\ SameRows(database, asFound)
      BY <1>1 DEF SchemaInv, UnflushedInv, OpeningInv, InStep
    <3> QED BY <3>1 DEF SameRows, StoreRecord
  <2> QED BY <1>1, <2>1, <2>2, <2>3
          DEF SchemaInv, UnflushedInv, OpeningInv, InStep, StoreIsMigrated
<1> QED BY <1>1, SchemaStarts, SchemaSteps, PTL DEF SchemaSpec
=============================================================================
