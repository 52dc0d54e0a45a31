----------------------------- MODULE LemmaImport -----------------------------
(***************************************************************************)
(* The import of a legacy Lemma backup: the envelope is checked, the       *)
(* tables of its SQLite image are read one pass after another into an      *)
(* export with a log of losses (crates/lemma-import), the daemon checks    *)
(* what the library returned (daemon/src/lemma_import.rs), and the restore *)
(* quarantines the relations that point nowhere (interchange/restore).     *)
(*                                                                         *)
(* The image has two memories and one row of every other table; the second *)
(* memory is the child of the first and associated with it.  A flaw is a   *)
(* table with a column that does not hold what a sound image would:        *)
(*   table       the table is missing;                                     *)
(*   strict      a value the code insists on is missing or unreadable;     *)
(*   tolerated   a value the code replaces by a default;                   *)
(*   quiet       an optional value of another type, a negative counter, an *)
(*               array element that is no string;                          *)
(*   operational a value the domain has no place for;                      *)
(*   <reference> a column that refers to a row that is not there.          *)
(***************************************************************************)
EXTENDS Integers

CONSTANTS
    Schemas,        \* the schema versions an image may have, out of 1..8
    FlawSets        \* the flaws an image may have, together

VARIABLES
    image,      \* the file: its schema version and its flaws
    pass,       \* what comes next
    derived,    \* id_map: the memories whose identity is derived
    legacies,   \* legacy_map: those of them that have a legacy id
    loss,       \* LossLog: what was counted, by kind and place
    imported,   \* CanonicalExport, being filled
    restored    \* what the restore wrote, and the relations it set aside

importvars == <<image, pass, derived, legacies, loss, imported, restored>>

-----------------------------------------------------------------------------
(* The image                                                               *)

MemoryRows == {1, 2}
Gone == 9       \* a row that no table has

Tables ==
    {"memories", "memory_evidence", "guides", "guide_contexts", "guide_learnings",
     "guide_memory_links", "relations", "sessions", "session_attempts",
     "session_guide_usage", "session_memory_links", "feedback_log",
     "improvement_suggestions", "fragments_archive", "fragment_history"}

table_introduced_in ==
    [t \in Tables |->
        CASE t \in {"session_attempts", "improvement_suggestions"} -> 2
          [] t = "fragment_history" -> 5
          [] t = "fragments_archive" -> 6
          [] t = "memory_evidence" -> 7
          [] OTHER -> 1]

InvalidatedAtIntroducedIn == 5

\* The references of a sound image: the row each column refers to.
Target ==
    [t \in Tables |->
        CASE t = "memories" -> [parent_id |-> 1, associated_with |-> 1]
          [] t = "memory_evidence" -> [memory_id |-> 1]
          [] t = "guides" -> [source_memories |-> 1, validated_by |-> 1]
          [] t \in {"guide_contexts", "guide_learnings"} -> [guide_id |-> 1]
          [] t = "guide_memory_links" ->
                [related_guide |-> 1, related_memory |-> 1, source_guide |-> 1, source_memory |-> 2]
          [] t = "relations" -> [source_id |-> 1, target_id |-> 2]
          [] t = "session_attempts" -> [session_id |-> 1, related_memory_id |-> 1]
          [] t = "session_guide_usage" -> [session_id |-> 1, guide_id |-> 1]
          [] t = "session_memory_links" -> [session_id |-> 1, memory_id |-> 2]
          [] t = "improvement_suggestions" -> [session_id |-> 1]
          [] t = "feedback_log" -> [memory_id |-> 1]
          [] t = "fragment_history" -> [memory_id |-> 2]
          [] OTHER -> <<>>]

Tolerant == {"memories", "guides", "sessions", "improvement_suggestions", "fragments_archive"}
Quiet == Tables \ {"guide_contexts", "guide_learnings", "guide_memory_links",
                   "session_guide_usage"}
Operational == {"memories", "memory_evidence", "guides", "sessions", "feedback_log"}

Flaws ==
    {"envelope", "library"} \X {"strict"}
    \cup Tables \X {"table", "strict"}
    \cup Tolerant \X {"tolerated"} \cup Quiet \X {"quiet"}
    \cup Operational \X {"operational"}
    \cup {<<"memories", "legacy_id">>, <<"memories", "column">>, <<"unknown", "table">>}
    \cup UNION {{t} \X DOMAIN Target[t] : t \in Tables}

ASSUME ImportAssumption == Schemas \subseteq 1..8 /\ FlawSets \subseteq SUBSET Flaws

HasTable(t) == <<t, "table">> \notin image.flaws
Flawed(t, c) == HasTable(t) /\ <<t, c>> \in image.flaws
Ref(t, c) == IF <<t, c>> \in image.flaws THEN Gone ELSE Target[t][c]

\* read_table: a table that the schema version promises is missing.
TableMissing(ts) == \E t \in ts : ~HasTable(t) /\ table_introduced_in[t] <= image.schema

\* LossLog::add.
Counted(kind, t, c) == IF Flawed(t, c) THEN {<<kind, t, c>>} ELSE {}

EmptyExport ==
    [memories |-> {}, relations |-> {}, guides |-> {}, sessions |-> {}, feedback |-> {},
     suggestions |-> {}, archives |-> {}, history |-> {}]

ImportInit ==
    /\ image \in [schema : Schemas, flaws : FlawSets]
    /\ pass = "envelope"
    /\ derived = {} /\ legacies = {} /\ loss = {}
    /\ imported = EmptyExport
    /\ restored = [records |-> EmptyExport, quarantined |-> {}]

-----------------------------------------------------------------------------
(* The passes.  An error ends the import, and nothing of it is kept        *)

RefuseImage ==
    pass' = "refused" /\ UNCHANGED <<image, derived, legacies, loss, imported, restored>>

Read(now, next, refused, added, filled) ==
    /\ pass = now
    /\ IF refused
         THEN RefuseImage
         ELSE /\ pass' = next
              /\ loss' = loss \cup added
              /\ imported' = filled
              /\ UNCHANGED <<image, restored>>

\* validate_envelope: the size, the format and its version, the schema range, the
\* encoding, the SQLite header and the checksum, before any table is read.
Validate ==
    /\ Read("envelope", "memories", Flawed("envelope", "strict"), {}, imported)
    /\ UNCHANGED <<derived, legacies>>

\* The guides that guide_memory_links relates to memory m; a guide that is not there is
\* counted, a memory that is not there is never asked for.
RelatedGuides(m) ==
    IF HasTable("guide_memory_links") /\ Ref("guide_memory_links", "related_memory") = m
       THEN {Ref("guide_memory_links", "related_guide")} \ {Gone}
       ELSE {}

EvidenceOf(m) ==
    IF HasTable("memory_evidence") /\ Ref("memory_evidence", "memory_id") = m THEN {1} ELSE {}

Parent(m) == IF m = 2 THEN {Ref("memories", "parent_id")} ELSE {}

\* The second pass of read_memories: parents, children and associations, on the full map
\* (known: the memories of the map; aliased: those with a legacy id).
LinkedMemory(m, known, aliased) ==
    [row |-> m,
     parent |-> Parent(m) \cap known,
     children |-> {k \in known : m \in Parent(k)},
     associated |-> IF m = 2 THEN {Ref("memories", "associated_with")} \cap aliased ELSE {},
     guides |-> RelatedGuides(m),
     evidence |-> EvidenceOf(m)]

MemoryLosses(aliased) ==
    Counted("tolerated", "memories", "tolerated")
    \cup Counted("dropped_operational_fields", "memories", "operational")
    \cup Counted("dropped_operational_fields", "memory_evidence", "operational")
    \cup Counted("dangling_guide_link", "guide_memory_links", "related_guide")
    \cup Counted("dangling_memory_link", "memories", "parent_id")
    \cup (IF Ref("memories", "associated_with") \in aliased
             THEN {}
             ELSE {<<"unresolvable_associated_with", "memories", "associated_with">>})
    \cup (IF image.schema < InvalidatedAtIntroducedIn
             \* the column is selected all the same, and reads as its own name
             THEN {<<"unparseable_timestamp", "memories", "column">>}
             ELSE {})

ReadMemories ==
    LET aliased == IF Flawed("memories", "legacy_id") THEN {2} ELSE MemoryRows IN
    /\ Read("memories", "relations",
            \/ TableMissing({"memories", "memory_evidence", "guide_memory_links", "guides"})
            \/ (image.schema >= InvalidatedAtIntroducedIn /\ Flawed("memories", "column"))
            \/ \E t \in {"memories", "memory_evidence", "guide_memory_links"} : Flawed(t, "strict"),
            MemoryLosses(aliased),
            [imported EXCEPT !.memories = {LinkedMemory(m, MemoryRows, aliased) : m \in MemoryRows}])
    /\ IF pass' = "refused"
         THEN UNCHANGED <<derived, legacies>>
         ELSE derived' = MemoryRows /\ legacies' = aliased

\* read_relations: endpoints are derived even when they are dangling.
ReadRelations ==
    /\ Read("relations", "guides",
            TableMissing({"relations"}) \/ Flawed("relations", "strict"),
            {},
            [imported EXCEPT !.relations =
                {<<Ref("relations", "source_id"), Ref("relations", "target_id")>>}])
    /\ UNCHANGED <<derived, legacies>>

\* Mutant: sources are kept whether they resolve or not.
AnySource ==
    {Ref("guides", "source_memories")}
    \cup (IF Ref("guide_memory_links", "source_guide") = 1
             THEN {Ref("guide_memory_links", "source_memory")}
             ELSE {})

\* The sources of the guide: the legacy ids of its column, and the rows of its links.
SourceMemories ==
    ({Ref("guides", "source_memories")} \cap legacies)
    \cup (IF Ref("guide_memory_links", "source_guide") = 1
             THEN {Ref("guide_memory_links", "source_memory")} \cap derived
             ELSE {})

GuideLosses ==
    Counted("tolerated", "guides", "tolerated")
    \cup Counted("dropped_operational_fields", "guides", "operational")
    \cup {<<"dangling_guide_link", "guides", c>> :
            c \in {c \in {"source_memories", "validated_by"} : Ref("guides", c) \notin legacies}}
    \cup (IF /\ Ref("guide_memory_links", "source_guide") = 1
             /\ Ref("guide_memory_links", "source_memory") \notin derived
             THEN {<<"dangling_guide_link", "guide_memory_links", "source_memory">>}
             ELSE {})

\* read_guides: validated_by keeps the ids that resolve to nothing, and counts them.
ReadGuides ==
    /\ Read("guides", "sessions",
            LET read == {"guides", "guide_contexts", "guide_learnings", "guide_memory_links"}
            IN  TableMissing(read) \/ \E t \in read : Flawed(t, "strict"),
            GuideLosses,
            [imported EXCEPT !.guides =
                {[row |-> 1, sources |-> SourceMemories,
                  validated |-> {Ref("guides", "validated_by")},
                  contexts |-> {1} \cap {Ref("guide_contexts", "guide_id")},
                  learnings |-> {1} \cap {Ref("guide_learnings", "guide_id")}]}])
    /\ UNCHANGED <<derived, legacies>>

\* The rows that belong to the session; the others are never looked at.
OfSession(t) == HasTable(t) /\ Ref(t, "session_id") = 1

SessionLosses ==
    Counted("tolerated", "sessions", "tolerated")
    \cup Counted("dropped_operational_fields", "sessions", "operational")
    \cup (IF /\ OfSession("session_attempts")
             /\ Ref("session_attempts", "related_memory_id") \notin derived
             THEN {<<"dangling_attempt_memory", "session_attempts", "related_memory_id">>}
             ELSE {})
    \cup (IF OfSession("session_guide_usage") /\ Ref("session_guide_usage", "guide_id") = Gone
             THEN {<<"dangling_session_guide", "session_guide_usage", "guide_id">>}
             ELSE {})
    \cup (IF /\ OfSession("session_memory_links")
             /\ Ref("session_memory_links", "memory_id") \notin legacies
             THEN {<<"dangling_session_memory", "session_memory_links", "memory_id">>}
             ELSE {})

SessionOf ==
    [row |-> 1,
     attempts |-> IF OfSession("session_attempts")
                     THEN {[memory |-> {Ref("session_attempts", "related_memory_id")} \cap derived]}
                     ELSE {},
     guides |-> IF OfSession("session_guide_usage")
                   THEN {Ref("session_guide_usage", "guide_id")} \ {Gone}
                   ELSE {},
     memories |-> IF OfSession("session_memory_links")
                     THEN {Ref("session_memory_links", "memory_id")} \cap legacies
                     ELSE {}]

\* read_sessions.
ReadSessions ==
    /\ Read("sessions", "feedback",
            \/ TableMissing({"sessions", "session_attempts", "session_guide_usage",
                             "session_memory_links", "guides"})
            \/ Flawed("sessions", "strict")
            \/ \E t \in {"session_attempts", "session_guide_usage", "session_memory_links"} :
                    (OfSession(t) /\ Flawed(t, "strict")),
            SessionLosses,
            [imported EXCEPT !.sessions = {SessionOf}])
    /\ UNCHANGED <<derived, legacies>>

\* read_feedback: a row about a memory that is not there is counted and passed over
\* before its values are read.
ReadFeedback ==
    LET known == Ref("feedback_log", "memory_id") \in derived IN
    /\ Read("feedback", "suggestions",
            TableMissing({"feedback_log"}) \/ (known /\ Flawed("feedback_log", "strict")),
            IF known
               THEN Counted("dropped_operational_fields", "feedback_log", "operational")
               ELSE {<<"dangling_feedback_memory", "feedback_log", "memory_id">>},
            [imported EXCEPT !.feedback = {Ref("feedback_log", "memory_id")} \cap derived])
    /\ UNCHANGED <<derived, legacies>>

\* read_suggestions: the session keeps its Lemma name.
ReadSuggestions ==
    /\ Read("suggestions", "archives",
            TableMissing({"improvement_suggestions"}) \/ Flawed("improvement_suggestions", "strict"),
            Counted("tolerated", "improvement_suggestions", "tolerated"),
            [imported EXCEPT !.suggestions =
                IF HasTable("improvement_suggestions")
                   THEN {Ref("improvement_suggestions", "session_id")}
                   ELSE {}])
    /\ UNCHANGED <<derived, legacies>>

\* read_archives.
ReadArchives ==
    /\ Read("archives", "history",
            TableMissing({"fragments_archive"}) \/ Flawed("fragments_archive", "strict"),
            Counted("tolerated", "fragments_archive", "tolerated"),
            [imported EXCEPT !.archives = IF HasTable("fragments_archive") THEN {1} ELSE {}])
    /\ UNCHANGED <<derived, legacies>>

\* read_history, which passes over rows as read_feedback does.
ReadHistory ==
    LET here == HasTable("fragment_history")
        known == Ref("fragment_history", "memory_id") \in derived
    IN
    /\ Read("history", "internal",
            TableMissing({"fragment_history"}) \/ (known /\ Flawed("fragment_history", "strict")),
            IF here /\ ~known
               THEN {<<"dangling_history_memory", "fragment_history", "memory_id">>}
               ELSE {},
            [imported EXCEPT !.history =
                IF here THEN {Ref("fragment_history", "memory_id")} \cap derived ELSE {}])
    /\ UNCHANGED <<derived, legacies>>

\* read_internal: the rows of tables it does not know are counted.
ReadInternal ==
    /\ Read("internal", "staged", FALSE,
            IF HasTable("unknown") THEN {} ELSE {<<"unknown_table", "unknown", "table">>},
            imported)
    /\ UNCHANGED <<derived, legacies>>

-----------------------------------------------------------------------------
(* The daemon's side                                                       *)

\* import_json and parse_staging: the library answers, and the digest it declares is the
\* digest of the snapshot that came with it.
Parse ==
    /\ Read("staged", "parsed", Flawed("library", "strict"), {}, imported)
    /\ UNCHANGED <<derived, legacies>>

\* restore_verified_guarded: relations with an end that is not in the snapshot are listed
\* and left out; archives and history have no place in the store.
RestoreSnapshot ==
    LET present == {m.row : m \in imported.memories}
        kept == {r \in imported.relations : r[1] \in present /\ r[2] \in present}
    IN
    /\ pass = "parsed"
    /\ pass' = "restored"
    /\ restored' = [records |-> [imported EXCEPT !.relations = kept, !.archives = {}, !.history = {}],
                    quarantined |-> imported.relations \ kept]
    /\ UNCHANGED <<image, derived, legacies, loss, imported>>

ImportNext ==
    \/ Validate \/ ReadMemories \/ ReadRelations \/ ReadGuides \/ ReadSessions \/ ReadFeedback
    \/ ReadSuggestions \/ ReadArchives \/ ReadHistory \/ ReadInternal
    \/ Parse \/ RestoreSnapshot

ImportSpec == ImportInit /\ [][ImportNext]_importvars

-----------------------------------------------------------------------------
(* Correctness                                                             *)

\* Every variable keeps its type.
ImportTypeOK ==
    /\ image.schema \in Schemas /\ image.flaws \subseteq Flaws
    /\ derived \subseteq MemoryRows /\ legacies \subseteq derived
    /\ {m.row : m \in imported.memories} = derived
    /\ {<<l[2], l[3]>> : l \in loss} \subseteq Flaws

\* The rows no pass looks at, because the row they belong to is not there, and the values
\* that turn into a default without a word.
Unseen(t, c) ==
    \/ c = "quiet"
    \/ t \in {"session_attempts", "session_guide_usage", "session_memory_links"}
       /\ Ref(t, "session_id") = Gone
    \/ t = "memory_evidence" /\ c = "memory_id"
    \/ t \in {"guide_contexts", "guide_learnings"} /\ c = "guide_id"
    \/ t = "guide_memory_links" /\ c \in {"related_memory", "source_guide"}
    \/ t = "guide_memory_links" /\ c = "source_memory" /\ Ref(t, "source_guide") = Gone
    \/ t = "improvement_suggestions" /\ c = "session_id"

\* An import that is accepted has counted whatever it changed or left out, or counted the
\* row it stood in, or set the relation aside; and it has counted nothing else (but the
\* column old images do not have).  What nothing tells of is in Unseen
\* (lemma-import/src/lib.rs:201-204, restore/verify.rs:51-74).
ImportAccounts ==
    pass = "restored" =>
        /\ \A f \in image.flaws :
            LET t == f[1]
                c == f[2]
                place == {<<l[2], l[3]>> : l \in loss}
            IN  \/ f \in place
                \/ t \in {"feedback_log", "fragment_history"} /\ <<t, "memory_id">> \in place
                \/ t = "relations" /\ restored.quarantined # {}
                \/ c = "table" /\ table_introduced_in[t] > image.schema
                \/ ~HasTable(t)
                \/ f = <<"memories", "legacy_id">>
                \/ c = "column" /\ image.schema < InvalidatedAtIntroducedIn
                \/ Unseen(t, c)
        /\ \A l \in loss :
            \/ <<l[2], l[3]>> \in image.flaws
            \/ <<"memories", "legacy_id">> \in image.flaws
            \/ l[3] = "column"

\* After a restore the records refer to records: relations, parents and children (each
\* the other's inverse), associations, sources, attempts and feedback.
ReferencesResolve ==
    LET now == restored.records
        present == {m.row : m \in now.memories}
    IN
    pass = "restored" =>
        /\ now.relations \subseteq present \X present
        /\ \A m \in now.memories :
            /\ m.parent \cup m.children \cup m.associated \subseteq present
            /\ \A p \in now.memories : p.row \in m.parent <=> m.row \in p.children
        /\ \A g \in now.guides : g.sources \subseteq present
        /\ \A s \in now.sessions :
            /\ s.memories \subseteq present
            /\ s.guides \subseteq {g.row : g \in now.guides}
            /\ \A a \in s.attempts : a.memory \subseteq present
        /\ now.feedback \subseteq present

\* A record of the imported store that has a fault is refused, counted as a loss or
\* whole, and no reference of the restored store points nowhere.
ImportIsHonest == ImportAccounts /\ ReferencesResolve
=============================================================================
