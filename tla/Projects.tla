------------------------------ MODULE Projects ------------------------------
(***************************************************************************)
(* The registry of project identities: which identity a call acts under,   *)
(* and what registering one does to the checkouts that claim it.           *)
(*                                                                         *)
(* A call brings a claim: a stable identity and its name, the root of its  *)
(* checkout, and the project it names on the wire (or the name of its      *)
(* directory), any of them None.  It is resolved over snapshots of its     *)
(* own, and only the claim itself is one transaction: the record and the   *)
(* owner of the root may have changed in between.                          *)
(*                                                                         *)
(* Abstracted: times and texts.  The filesystem is read inside the         *)
(* transaction, as in the code, and changes between steps.  The retries of *)
(* a conflicting transaction are one step.                                 *)
(***************************************************************************)
EXTENDS Naturals, FiniteSets

CONSTANTS ProjectIds, Roots, Slugs, None,
          ProjectCalls, \* each is made once
          Claim,        \* call -> [kind, id, name, root, slug, all]
          Together,     \* sets of calls: those of one of them are made
          Legacy,       \* the slugs of the rows older than the registry
          MaxRestores

VARIABLES
    records,     \* id -> its record, or None
    owner,       \* root -> the id its index entry names, or None
    checkouts,   \* the roots that exist on the filesystem
    rows,        \* memories: their identity and their project
    projectAsks, \* call -> how far it is and what it resolved
    restores,
    overlapped   \* calls whose transaction met another record or owner than their snapshot (history)

projectvars == <<records, owner, checkouts, rows, projectAsks, restores, overlapped>>

MaybeId == ProjectIds \cup {None}
Record == [name : Slugs, roots : SUBSET Roots, slugs : SUBSET Slugs]
Scope == [id : MaybeId, slug : Slugs \cup {None}, all : BOOLEAN, attached : SUBSET Slugs]
Nowhere == [id |-> None, slug |-> None, all |-> FALSE, attached |-> {}]
Ask == [at : {"off", "new", "rooting", "claiming", "naming", "accepted", "refused", "done"},
        scope : Scope, buckets : SUBSET ProjectIds, free : BOOLEAN, known : BOOLEAN]

ASSUME ProjectsAssumption ==
    /\ None \notin ProjectIds \cup Roots \cup Slugs \cup Record
    /\ Legacy \subseteq Slugs /\ MaxRestores \in Nat
    /\ \A c \in ProjectCalls :
          /\ Claim[c].id \in MaybeId /\ Claim[c].root \in Roots \cup {None}
          /\ Claim[c].slug \in Slugs \cup {None} /\ Claim[c].all \in BOOLEAN
          /\ Claim[c].id # None => Claim[c].name \in Slugs
          /\ Claim[c].kind = "adopt" => Claim[c].id # None /\ Claim[c].slug # None

ProjectsTypeOK ==
    /\ records \in [ProjectIds -> Record \cup {None}]
    /\ owner \in [Roots -> MaybeId] /\ checkouts \subseteq Roots
    /\ rows \subseteq [id : MaybeId, slug : Slugs \cup {None}]
    /\ projectAsks \in [ProjectCalls -> Ask]
    /\ overlapped \subseteq ProjectCalls /\ restores \in 0..MaxRestores

ProjectsInit ==
    /\ records = [i \in ProjectIds |-> None] /\ owner = [r \in Roots |-> None]
    /\ checkouts = Roots /\ rows = [id : {None}, slug : Legacy]
    /\ \E some \in Together :
          projectAsks = [c \in ProjectCalls |->
                            [at |-> IF c \in some THEN "new" ELSE "off", scope |-> Nowhere,
                             buckets |-> {}, free |-> FALSE, known |-> FALSE]]
    /\ restores = 0 /\ overlapped = {}
-----------------------------------------------------------------------------
IsWrite(c) == Claim[c].kind = "write"

Known(i) == records[i] # None
Named(s) == {i \in ProjectIds : Known(i) /\ records[i].name = s}
Attaching(s) == {i \in ProjectIds : Known(i) /\ s \in records[i].slugs}
Unattached(s) == \E row \in rows : row.id = None /\ row.slug = s

Stable(i, rec) == [id |-> i, slug |-> None, all |-> FALSE, attached |-> rec.slugs]

Goes(c, step) == projectAsks' = [projectAsks EXCEPT ![c].at = step]
Refuse(c) == Goes(c, "refused")
Accept(c, scope) == projectAsks' = [projectAsks EXCEPT ![c].at = "accepted", ![c].scope = scope]

\* Mutant: the name on the wire is not compared with the identity's.
AgreesWhatever(slug, rec) == TRUE

Agrees(slug, rec) == slug \in {None, rec.name} \cup rec.slugs

\* The record of the identity, in a snapshot.
LookUp(c) ==
    LET i == Claim[c].id
        rec == records[i] IN
    /\ i # None
    /\ CASE rec = None /\ IsWrite(c) -> Goes(c, "claiming")
         [] rec = None /\ ~IsWrite(c) -> Refuse(c)
         [] rec # None /\ (rec.name # Claim[c].name \/ ~Agrees(Claim[c].slug, rec)) ->
               Refuse(c)
         [] rec # None /\ rec.name = Claim[c].name /\ Agrees(Claim[c].slug, rec) ->
               IF Claim[c].root = None
                  THEN Accept(c, Stable(i, rec))
                  ELSE projectAsks' = [projectAsks EXCEPT ![c].at = "rooting", ![c].known = TRUE,
                                            ![c].scope = Stable(i, rec)]

\* A call without an identity falls back on the slug: the identities that attach it.
LookUpSlug(c) ==
    /\ Claim[c].id = None
    /\ IF Claim[c].slug = None
          THEN Accept(c, [Nowhere EXCEPT !.all = Claim[c].all])
          ELSE projectAsks' = [projectAsks EXCEPT ![c].at = "naming",
                                         ![c].buckets = Attaching(Claim[c].slug)]

Begin(c) ==
    /\ projectAsks[c].at = "new"
    /\ LookUp(c) \/ LookUpSlug(c)
    /\ UNCHANGED <<records, owner, checkouts, rows, restores, overlapped>>

\* Mutant: who owns the root is not asked.
OwnerUnasked(r) == None

OwnerOf(r) == owner[r]

\* The owner of the root, in a snapshot of its own.
CheckRoot(c) ==
    LET by == OwnerOf(Claim[c].root) IN
    /\ projectAsks[c].at = "rooting"
    /\ CASE by = Claim[c].id -> Accept(c, projectAsks[c].scope)
         [] by = None /\ IsWrite(c) ->
               projectAsks' = [projectAsks EXCEPT ![c].at = "claiming",
                                         ![c].free = owner[Claim[c].root] = None]
         [] by = None /\ ~IsWrite(c) -> Accept(c, projectAsks[c].scope)
         [] by \notin {None, Claim[c].id} ->
               IF IsWrite(c) THEN Refuse(c) ELSE Accept(c, projectAsks[c].scope)
    /\ UNCHANGED <<records, owner, checkouts, rows, restores, overlapped>>

\* Mutant: a registration does not enter its root in the index.
OwnerUnchanged(i, r) == owner

OwnerNow(i, r) == IF r = None THEN owner ELSE [owner EXCEPT ![r] = i]

\* The transaction of an unknown identity: its record, its root, and the bucket of its
\* name if the wire names it.
Register(c) ==
    LET i == Claim[c].id
        r == Claim[c].root
        rec == [name |-> Claim[c].name, roots |-> {r} \ {None},
                slugs |-> {Claim[c].slug} \cap {Claim[c].name}] IN
    /\ ~Known(i)
    /\ IF Claim[c].slug \notin {None, Claim[c].name} \/ (r # None /\ owner[r] # None)
          THEN Refuse(c) /\ UNCHANGED <<records, owner>>
          ELSE /\ records' = [records EXCEPT ![i] = rec] /\ owner' = OwnerNow(i, r)
               /\ Accept(c, Stable(i, rec))

\* The transaction of a known identity: a root it does not list is appended when every
\* root it lists is gone, whoever owns it.
Move(c) ==
    LET i == Claim[c].id
        r == Claim[c].root
        rec == records[i] IN
    /\ Known(i)
    /\ CASE rec.name # Claim[c].name -> Refuse(c) /\ UNCHANGED <<records, owner>>
         [] rec.name = Claim[c].name /\ r \in rec.roots \cup {None} ->
               Accept(c, Stable(i, rec)) /\ UNCHANGED <<records, owner>>
         [] rec.name = Claim[c].name /\ r \notin rec.roots \cup {None} ->
               IF rec.roots \cap checkouts # {}
                  THEN Refuse(c) /\ UNCHANGED <<records, owner>>
                  ELSE /\ records' = [records EXCEPT ![i].roots = @ \cup {r}]
                       /\ owner' = OwnerNow(i, r)
                       /\ Accept(c, Stable(i, rec))

ClaimProject(c) ==
    /\ projectAsks[c].at = "claiming"
    /\ Register(c) \/ Move(c)
    /\ overlapped' = IF \/ Known(Claim[c].id) # projectAsks[c].known
                        \/ projectAsks[c].free /\ owner[Claim[c].root] # None
                     THEN overlapped \cup {c} ELSE overlapped
    /\ UNCHANGED <<checkouts, rows, restores>>

\* A name that more than one identity carries or attaches, or one carried elsewhere, is
\* ambiguous; a checkout bound under it writes only under its identity.
ResolveName(c) ==
    LET same == Named(Claim[c].slug)
        r == Claim[c].root
        here == {i \in same : r \in records[i].roots}
        ambiguous == \/ Cardinality(projectAsks[c].buckets) >= 2 \/ Cardinality(same) >= 2
                     \/ Cardinality(same) = 1 /\ r # None /\ here = {}
        plain == [Nowhere EXCEPT !.slug = Claim[c].slug, !.all = Claim[c].all] IN
    /\ projectAsks[c].at = "naming"
    /\ IF ambiguous \/ (here # {} /\ IsWrite(c))
          THEN IF IsWrite(c) \/ ~Claim[c].all THEN Refuse(c) ELSE Accept(c, plain)
          ELSE Accept(c, plain)
    /\ UNCHANGED <<records, owner, checkouts, rows, restores, overlapped>>

\* The command of a write that was accepted: the row carries the identity, and the
\* name of the wire before that of the identity.
Write(c) ==
    /\ projectAsks[c].at = "accepted" /\ IsWrite(c) /\ Goes(c, "done")
    /\ rows' = rows \cup {[id |-> projectAsks[c].scope.id,
                           slug |-> IF Claim[c].slug = None /\ projectAsks[c].scope.id # None
                                       THEN Claim[c].name ELSE Claim[c].slug]}
    /\ UNCHANGED <<records, owner, checkouts, restores, overlapped>>

\* No row without an identity carries the slug, and no other identity attaches it.
UnknownSlug(s, i) == ~Unattached(s) /\ Attaching(s) \ {i} = {}

\* An explicit attachment of a slug, in one transaction: it may register the identity.
Adopt(c) ==
    LET i == Claim[c].id
        r == Claim[c].root
        s == Claim[c].slug
        unknown == UnknownSlug(s, i) IN
    /\ projectAsks[c].at = "new" /\ Claim[c].kind = "adopt"
    /\ IF Known(i)
          THEN IF records[i].name # Claim[c].name \/ (s \notin records[i].slugs /\ unknown)
                  THEN Goes(c, "refused") /\ UNCHANGED <<records, owner>>
                  ELSE /\ records' = [records EXCEPT ![i].slugs = @ \cup {s}]
                       /\ Goes(c, "done") /\ UNCHANGED owner
          ELSE IF unknown \/ (r # None /\ owner[r] \notin {None, i})
                  THEN Goes(c, "refused") /\ UNCHANGED <<records, owner>>
                  ELSE /\ records' = [records EXCEPT ![i] =
                                          [name |-> Claim[c].name, roots |-> {r} \ {None},
                                           slugs |-> {s}]]
                       /\ owner' = OwnerNow(i, r) /\ Goes(c, "done")
    /\ UNCHANGED <<checkouts, rows, restores, overlapped>>

\* A checkout is moved or deleted.
Remove(r) ==
    /\ r \in checkouts /\ checkouts' = checkouts \ {r}
    /\ UNCHANGED <<records, owner, rows, projectAsks, restores, overlapped>>

\* A restore empties the registry: checkouts register again with their next write.
Restore ==
    /\ restores < MaxRestores /\ restores' = restores + 1
    /\ records' = [i \in ProjectIds |-> None] /\ owner' = [r \in Roots |-> None]
    /\ UNCHANGED <<checkouts, rows, projectAsks, overlapped>>

ProjectsNext ==
    \/ \E c \in ProjectCalls :
          \/ Claim[c].kind # "adopt" /\ Begin(c)
          \/ CheckRoot(c) \/ ClaimProject(c) \/ ResolveName(c) \/ Write(c) \/ Adopt(c)
    \/ \E r \in Roots : Remove(r)
    \/ Restore

ProjectsSpec == ProjectsInit /\ [][ProjectsNext]_projectvars
-----------------------------------------------------------------------------
\* Who owns a root is settled by one record: the index names an identity that lists it,
\* two identities list it only after a transaction that no longer found what its
\* snapshots had shown, and a row carries a name its identity has or attaches.
OwnersAgree ==
    /\ \A r \in Roots : owner[r] # None => Known(owner[r]) /\ r \in records[owner[r]].roots
    /\ overlapped = {} =>
          \A i, j \in ProjectIds : i # j /\ Known(i) /\ Known(j)
              => records[i].roots \cap records[j].roots = {}
    /\ overlapped = {} /\ restores = 0 =>
          \A row \in rows : row.id # None =>
              Known(row.id) /\ row.slug \in {records[row.id].name} \cup records[row.id].slugs
=============================================================================
