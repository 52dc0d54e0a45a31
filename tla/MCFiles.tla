------------------------------- MODULE MCFiles --------------------------------
(***************************************************************************)
(* The store's own files and those around it, for TLC: its schema as builds *)
(* of several versions open it, a Lemma store that is imported, a backup   *)
(* that is published, the cache of the embedding model, and what the       *)
(* command line writes.  MCService adds them to its choice.                *)
(***************************************************************************)
EXTENDS Migrations, LemmaImport, BackupFile, ModelCache, OwnedFiles, FiniteSets

\* This build, the next one, and one whose plan leaps from its second step.
Build1 == [target |-> 1, plan |-> <<1>>, jump |-> 1, required |-> {"meta", "memories"}]
Build2 == [target |-> 2, plan |-> <<1, 2>>, jump |-> 1,
           required |-> {"meta", "memories", "guides"}]
Build4 == [Build2 EXCEPT !.target = 4, !.plan = <<1, 2, 4>>]
AllBuilds == {Build1, Build2, Build4}

\* Each flaw is met alone, and with any other.
PairsOfFlaws == {{}} \cup {{f, g} : f \in Flaws, g \in Flaws}

\* Two installers of different versions, two shims, two bindings and a frontend.
FileKind == [i2 |-> "skill", i3 |-> "skill", sa |-> "shim", sb |-> "shim",
             b1 |-> "bind", b2 |-> "bind", r |-> "resolve"]
FileBrings == [i2 |-> 2, i3 |-> 3, sa |-> "a", sb |-> "b", b1 |-> "", b2 |-> "", r |-> ""]
FileProcesses == DOMAIN FileKind
FilesTogether == {{"i2", "i3"}, {"sa", "sb"}, {"b1", "b2", "r"}}

filevars == <<schemavars, importvars, backupvars, cachevars, ownedvars>>

\* Nobody opens the store.
SchemaOff ==
    /\ database = EmptyStore /\ unflushed = {EmptyStore} /\ asFound = EmptyStore
    /\ build = Build1 /\ opening = "closed" /\ acknowledged = FALSE
    /\ opens = 0 /\ crashes = 0
ImportOff ==
    /\ image = [schema |-> 8, flaws |-> {}] /\ pass = "envelope"
    /\ derived = {} /\ legacies = {} /\ loss = {}
    /\ imported = EmptyExport /\ restored = [records |-> EmptyExport, quarantined |-> {}]

\* No command runs.
OwnedOff ==
    /\ skill = NoSkill /\ shim = Nothing /\ binding = Nothing /\ running = {}
    /\ nextStep = [p \in Processes |-> "start"]
    /\ seen = [p \in Processes |-> NoSkill] /\ said = [p \in Processes |-> "silent"]
    /\ replaced = {} /\ touches = 0 /\ killed = 0

Files == {"schema", "import", "backup", "cache", "owned"}

FilesInit(which) ==
    /\ IF which = "schema" THEN SchemaInit ELSE SchemaOff
    /\ IF which = "import" THEN ImportInit ELSE ImportOff
    /\ BackupInit
    /\ CacheInit
    /\ IF which = "owned" THEN OwnedInit ELSE OwnedOff

FilesNext(which) ==
    \/ /\ which = "schema" /\ SchemaNext
       /\ UNCHANGED <<importvars, backupvars, cachevars, ownedvars>>
    \/ /\ which = "import" /\ ImportNext
       /\ UNCHANGED <<schemavars, backupvars, cachevars, ownedvars>>
    \/ /\ which = "backup" /\ BackupNext
       /\ UNCHANGED <<schemavars, importvars, cachevars, ownedvars>>
    \/ /\ which = "cache" /\ CacheNext
       /\ UNCHANGED <<schemavars, importvars, backupvars, ownedvars>>
    \/ /\ which = "owned" /\ OwnedNext
       /\ UNCHANGED <<schemavars, importvars, backupvars, cachevars>>

\* Every variable of the five modules keeps its type.
FilesTypeOK(which) ==
    CASE which = "schema" -> MigrationsTypeOK
      [] which = "import" -> ImportTypeOK
      [] which = "backup" -> BackupTypeOK
      [] which = "cache" -> CacheTypeOK
      [] which = "owned" -> OwnedTypeOK
=============================================================================
