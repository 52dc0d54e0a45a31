----------------------------- MODULE OwnedFiles ------------------------------
(***************************************************************************)
(* The files the command line writes outside the store, where their owner  *)
(* and other processes write too: the managed skill (frontend/src/skills/  *)
(* installer.rs), the legacy shim (skills/shim.rs, as on unix) and the     *)
(* binding of a checkout to a project identity (frontend/src/project.rs).  *)
(* A process is one command; it may be killed between any two of its steps *)
(* and the owner may write or remove a file at any time.                   *)
(***************************************************************************)
EXTENDS Integers

CONSTANTS
    Processes,          \* commands that run, possibly at once
    ProcessKind,        \* what each does: "skill", "shim", "bind" or "resolve"
    Brings,             \* the skill's version or the executable it brings
    ProcessesTogether,  \* sets of processes that run together
    Versions,           \* versions of the skill
    MaxTouches,         \* how often the owner writes or removes a file
    MaxKills            \* how many processes are killed

VARIABLES
    skill,      \* the skill file: whose marker it has, and whether the body matches it
    shim,       \* the shim: Nothing, or the executable it links to
    binding,    \* the bind file: Nothing, "torn", or the identity in it
    running,    \* the processes of this behaviour
    nextStep,   \* the next step of each
    seen,       \* the skill each has read
    said,       \* what each has reported
    replaced,   \* what was replaced, and what its replacer had read
    touches, killed

ownedvars == <<skill, shim, binding, running, nextStep, seen, said, replaced, touches, killed>>

Nothing == "nothing"
NoSkill == [marker |-> 0, edited |-> FALSE]
Foreign == [marker |-> 0, edited |-> TRUE]
Managed(version, edited) == [marker |-> version, edited |-> edited]
Skills == {Foreign} \cup {Managed(v, e) : v \in Versions, e \in BOOLEAN}
Executables == {Brings[p] : p \in {p \in Processes : ProcessKind[p] = "shim"}} \cup {"foreign"}
Binders == {p \in Processes : ProcessKind[p] = "bind"}

\* What a process may report, but for the identity a frontend resolved.
Verdicts ==
    {"silent", "Installed", "AlreadyCurrent", "RefusedForeign", "RefusedModified",
     "bound", "refused", "unbound", "corrupt"}

ASSUME OwnedAssumption ==
    /\ Processes \cap (Verdicts \cup {"torn", Nothing}) = {}
    /\ \A p \in Processes :
        /\ ProcessKind[p] \in {"skill", "shim", "bind", "resolve"}
        /\ ProcessKind[p] = "skill" => Brings[p] \in Versions
        /\ ProcessKind[p] = "shim" => Brings[p] # Nothing
    /\ Versions \subseteq Nat \ {0}
    /\ MaxTouches \in Nat /\ MaxKills \in Nat

OwnedInit ==
    /\ skill \in Skills \cup {NoSkill}
    /\ shim = Nothing /\ binding = Nothing
    /\ running \in ProcessesTogether
    /\ nextStep = [p \in Processes |-> "start"]
    /\ seen = [p \in Processes |-> NoSkill]
    /\ said = [p \in Processes |-> "silent"]
    /\ replaced = {}
    /\ touches = 0 /\ killed = 0

Begins(p, kind, step) == p \in running /\ ProcessKind[p] = kind /\ nextStep[p] = step
Says(p, what) ==
    /\ nextStep' = [nextStep EXCEPT ![p] = "done"]
    /\ said' = [said EXCEPT ![p] = what]

-----------------------------------------------------------------------------
(* The skill                                                               *)

\* Mutant: any managed file is replaced, newer ones and the current one included.
AlwaysInstalled(current, version) ==
    IF current = Foreign THEN "RefusedForeign" ELSE "Installed"

\* install_skill's table, on what the file held when it was read; the command never asks
\* to replace a foreign file.
Decision(current, version) ==
    CASE current = NoSkill -> "Installed"
      [] current = Foreign -> "RefusedForeign"
      [] current = Managed(version, FALSE) -> "AlreadyCurrent"
      [] current \in [marker : {v \in Versions : v < version}, edited : BOOLEAN] -> "Installed"
      [] OTHER -> "RefusedModified"

\* install_skill: read and decide.
ReadSkill(p) ==
    /\ Begins(p, "skill", "start")
    /\ seen' = [seen EXCEPT ![p] = skill]
    /\ IF Decision(skill, Brings[p]) = "Installed"
         THEN nextStep' = [nextStep EXCEPT ![p] = "write"] /\ UNCHANGED said
         ELSE Says(p, Decision(skill, Brings[p]))
    /\ UNCHANGED <<skill, shim, binding, running, replaced, touches, killed>>

\* write_atomic: a file of its own, renamed over whatever is there now.
WriteSkill(p) ==
    /\ Begins(p, "skill", "write")
    /\ skill' = Managed(Brings[p], FALSE)
    /\ replaced' = IF skill = NoSkill THEN replaced ELSE replaced \cup {<<skill, seen[p], Brings[p]>>}
    /\ Says(p, "Installed")
    /\ UNCHANGED <<shim, binding, running, seen, touches, killed>>

-----------------------------------------------------------------------------
(* The shim                                                                *)

\* check_current: ours if it links to this executable.
CheckCurrent(p) == Says(p, IF shim = Brings[p] THEN "AlreadyCurrent" ELSE "RefusedForeign")

\* install_shim: look whether anything is there.
LookForShim(p) ==
    /\ Begins(p, "shim", "start")
    /\ IF shim = Nothing
         THEN nextStep' = [nextStep EXCEPT ![p] = "link"] /\ UNCHANGED said
         ELSE CheckCurrent(p)
    /\ UNCHANGED <<skill, shim, binding, running, seen, replaced, touches, killed>>

\* create_shim: a link is only made where nothing is; a racing one is checked instead.
CreateShim(p) ==
    /\ Begins(p, "shim", "link")
    /\ IF shim = Nothing
         THEN shim' = Brings[p] /\ Says(p, "Installed")
         ELSE CheckCurrent(p) /\ UNCHANGED shim
    /\ UNCHANGED <<skill, binding, running, seen, replaced, touches, killed>>

-----------------------------------------------------------------------------
(* The binding                                                             *)

\* write_bind: refuse when the file is there.
CheckUnbound(p) ==
    /\ Begins(p, "bind", "start")
    /\ IF binding = Nothing
         THEN nextStep' = [nextStep EXCEPT ![p] = "create"] /\ UNCHANGED said
         ELSE Says(p, "refused")
    /\ UNCHANGED <<skill, shim, binding, running, seen, replaced, touches, killed>>

\* Mutant: the file is opened whoever made it.
CreateOver(p) ==
    /\ Begins(p, "bind", "create")
    /\ binding' = "torn"
    /\ nextStep' = [nextStep EXCEPT ![p] = "fill"]
    /\ UNCHANGED <<skill, shim, running, seen, said, replaced, touches, killed>>

\* write_bind: create_new, which another process's file makes fail.
CreateBinding(p) ==
    /\ Begins(p, "bind", "create")
    /\ IF binding = Nothing
         THEN /\ binding' = "torn"
              /\ nextStep' = [nextStep EXCEPT ![p] = "fill"]
              /\ UNCHANGED said
         ELSE Says(p, "refused") /\ UNCHANGED binding
    /\ UNCHANGED <<skill, shim, running, seen, replaced, touches, killed>>

\* write_bind: the content, into the file this process made.
FillBinding(p) ==
    /\ Begins(p, "bind", "fill")
    /\ binding' = p
    /\ Says(p, "bound")
    /\ UNCHANGED <<skill, shim, running, seen, replaced, touches, killed>>

\* resolve_project_id and read_bind: a frontend starts in the checkout.
Resolve(p) ==
    /\ Begins(p, "resolve", "start")
    /\ Says(p, CASE binding = Nothing -> "unbound"
                 [] binding = "torn" -> "corrupt"
                 [] OTHER -> binding)
    /\ UNCHANGED <<skill, shim, binding, running, seen, replaced, touches, killed>>

-----------------------------------------------------------------------------
(* The owner, and the end of a process                                     *)

\* The owner writes a skill of their own, edits ours, or links the shim elsewhere.
OwnerWrites ==
    /\ touches < MaxTouches
    /\ touches' = touches + 1
    /\ \/ /\ \E p \in running : ProcessKind[p] = "skill"
          /\ skill' \in {Foreign} \cup IF skill = NoSkill THEN {} ELSE {[skill EXCEPT !.edited = TRUE]}
          /\ UNCHANGED <<shim, binding>>
       \/ /\ \E p \in running : ProcessKind[p] = "shim"
          /\ shim' = "foreign"
          /\ UNCHANGED <<skill, binding>>
    /\ UNCHANGED <<running, nextStep, seen, said, replaced, killed>>

\* A process is killed: what it had begun stays.
KillCommand(p) ==
    /\ killed < MaxKills
    /\ p \in running /\ nextStep[p] # "done"
    /\ nextStep' = [nextStep EXCEPT ![p] = "done"]
    /\ killed' = killed + 1
    /\ UNCHANGED <<skill, shim, binding, running, seen, said, replaced, touches>>

OwnedNext ==
    \/ \E p \in Processes :
        \/ ReadSkill(p) \/ WriteSkill(p)
        \/ LookForShim(p) \/ CreateShim(p)
        \/ CheckUnbound(p) \/ CreateBinding(p) \/ FillBinding(p) \/ Resolve(p)
        \/ KillCommand(p)
    \/ OwnerWrites

OwnedSpec == OwnedInit /\ [][OwnedNext]_ownedvars

-----------------------------------------------------------------------------
(* Correctness                                                             *)

\* Every variable keeps its type.
OwnedTypeOK ==
    /\ skill \in Skills \cup {NoSkill}
    /\ shim \in Executables \cup {Nothing}
    /\ binding \in Binders \cup {"torn", Nothing}
    /\ running \in ProcessesTogether
    /\ nextStep \in [Processes -> {"start", "write", "link", "create", "fill", "done"}]
    /\ seen \in [Processes -> Skills \cup {NoSkill}]
    /\ said \in [Processes -> Verdicts \cup Binders]
    /\ replaced \subseteq Skills \X (Skills \cup {NoSkill}) \X Versions
    /\ touches \in 0..MaxTouches /\ killed \in 0..MaxKills

\* A skill is replaced when the installer has read it as ours and older; another one, the
\* owner's or a newer one, only when it came between the reading and the renaming
\* (installer.rs:4-5 promises it without that exception).
ReplacesWhatItRead ==
    \A r \in replaced : r[1] = r[2] => r[1].marker \in 1..(r[3] - 1)

\* Of the processes that race for a shim or for the binding of a checkout one wins: all
\* that report to have written it, and every frontend that resolved it, name what is there.
OneWinner ==
    /\ \A p \in Binders : said[p] = "bound" => binding = p
    /\ \A p \in Processes : said[p] \in Binders => binding = said[p]
    /\ \A p \in Processes :
        (ProcessKind[p] = "shim" /\ said[p] \in {"Installed", "AlreadyCurrent"})
            => shim \in {Brings[p], "foreign"}

\* What is there is what its owner, the installer that won or the command that bound it
\* has put there, and everyone says so.
FilesKeepTheirOwner == ReplacesWhatItRead /\ OneWinner
=============================================================================
