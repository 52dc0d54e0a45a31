------------------------------ MODULE MCService ------------------------------
(***************************************************************************)
(* The modules of the service, for TLC: sessions, memories with the oracle *)
(* beside them, the cut of a restore, project identities, two calls that   *)
(* share a connection, and the files around the store (MCFiles).  A        *)
(* behaviour is a behaviour of one of them, chosen at the start (focus);   *)
(* the others are off or at rest.                                          *)
(***************************************************************************)
EXTENDS MCFiles, Sessions, Oracle, RestoreCut, Projects, TLC

VARIABLES
    focus,
    callStore, callDisk, callFence, callRestores, req, client, holder, pc, try, callTold,
    callFaults, refusals, activations

-----------------------------------------------------------------------------
(* Sessions: a channel that starts twice, with a practice, an attempt, an  *)
(* end and an answer to a suggestion in between, and one that never starts *)

SessionKind == [s1 |-> "start", p1 |-> "practice", a1 |-> "attempt", e1 |-> "end",
                s2 |-> "start", r3 |-> "respond", a3 |-> "attempt"]
SessionOutcome == [s1 |-> "none", p1 |-> "failure", a1 |-> "rejected", e1 |-> "failure",
                   s2 |-> "none", r3 |-> "dismissed", a3 |-> "rejected"]
SessionCalls == DOMAIN SessionKind
SessionProgram == [x |-> <<"s1", "p1", "a1", "e1", "s2", "r3">>, y |-> <<"a3">>]

-----------------------------------------------------------------------------
(* Memories: five sets of calls that overlap, on three memories with three *)
(* texts, two of which overlap                                             *)

OnMemories(kind, ids, text, level, how) ==
    [kind |-> kind, ids |-> ids, text |-> text, level |-> level, how |-> how]
MemoryOp ==
    [addA     |-> OnMemories("add", <<"a">>, "t", 0, ""),
     addB     |-> OnMemories("add", <<"b">>, "u", 0, ""),
     addC     |-> OnMemories("add", <<"c">>, "v", 0, ""),
     addTwin  |-> OnMemories("add", <<"c">>, "t", 0, ""),
     twin     |-> OnMemories("update", <<"b">>, "t", 3, ""),
     lower    |-> OnMemories("downweight", <<"a">>, "none", 0, ""),
     raise    |-> OnMemories("update", <<"a">>, "none", 1, ""),
     vote     |-> OnMemories("feedback", <<"a">>, "none", 0, "useless"),
     vote2    |-> OnMemories("feedback", <<"a">>, "none", 0, "useful"),
     ab       |-> OnMemories("relate", <<"a", "b">>, "none", 0, "supersedes"),
     bc       |-> OnMemories("relate", <<"b", "c">>, "none", 0, "supersedes"),
     ca       |-> OnMemories("relate", <<"c", "a">>, "none", 0, "supersedes"),
     alike    |-> OnMemories("relate", <<"b", "a">>, "none", 0, "related_to"),
     read     |-> OnMemories("read", <<"a", "b">>, "none", 0, ""),
     boost    |-> OnMemories("boost", <<"a">>, "none", 0, ""),
     keep     |-> OnMemories("merge", <<"c", "a", "b">>, "t", 0, "consolidate"),
     replace  |-> OnMemories("merge", <<"c", "a", "b">>, "t", 0, "replace"),
     delete   |-> OnMemories("forget", <<"b">>, "none", 0, "deleted"),
     hide     |-> OnMemories("forget", <<"a">>, "none", 0, "invalidated")]

MemoryCalls == DOMAIN MemoryOp
TextsThatOverlap == {<<"t", "u">>, <<"u", "t">>}
CallsTogether ==
    {{"addA", "addB", "addTwin", "twin", "hide"},
     {"addA", "addB", "addC", "ab", "bc", "ca"},
     {"addA", "addB", "alike", "read", "delete", "hide"},
     {"addA", "vote", "vote2", "boost", "lower", "raise", "hide"},
     {"addA", "addB", "keep", "ca", "replace", "delete"}}

-----------------------------------------------------------------------------
(* The cut of a restore: two channels, two previews, one write, one fault  *)

ASSUME CutInstance == CutConstants

Symmetric == Permutations(Channels)

-----------------------------------------------------------------------------
(* Projects: two identities of one name, two roots, seven sets of calls    *)

Claims(kind, id, name, root, slug, all) ==
    [kind |-> kind, id |-> id, name |-> name, root |-> root, slug |-> slug, all |-> all]
ProjectClaim ==
    [first    |-> Claims("write", "p", "shop", "x", "shop", FALSE),
     again    |-> Claims("write", "p", "shop", "x", "shop", FALSE),
     moved    |-> Claims("write", "p", "shop", "y", None, FALSE),
     rival    |-> Claims("write", "q", "shop", "y", None, FALSE),
     squatter |-> Claims("write", "q", "shop", "x", None, FALSE),
     foreign  |-> Claims("write", "p", "shop", None, "old", FALSE),
     rootless |-> Claims("write", "q", "shop", None, None, FALSE),
     renamed  |-> Claims("write", "p", "old", "x", None, FALSE),
     read     |-> Claims("read", "p", "shop", "y", None, FALSE),
     plain    |-> Claims("write", None, None, "x", "shop", FALSE),
     look     |-> Claims("read", None, None, "y", "shop", TRUE),
     peek     |-> Claims("read", None, None, "y", "shop", FALSE),
     all      |-> Claims("read", None, None, None, None, TRUE),
     adopt    |-> Claims("adopt", "p", "shop", "x", "old", FALSE),
     adopt2   |-> Claims("adopt", "q", "shop", "x", "old", FALSE),
     adopt3   |-> Claims("adopt", "q", "old", "y", "shop", FALSE)]

ClaimsMade == DOMAIN ProjectClaim
ClaimsTogether ==
    {{"first", "moved", "rival"}, {"first", "squatter", "rootless", "moved"},
     {"first", "again", "foreign"}, {"adopt", "plain", "renamed", "first"},
     {"adopt", "adopt2", "look", "peek"}, {"first", "adopt3", "look", "read"},
     {"first", "rootless", "all", "peek"}}

-----------------------------------------------------------------------------
(* Retry: a command and a guide mutation that share the client mutex, the  *)
(* connection and its epoch; one fault or one restore                      *)

C == INSTANCE Retry WITH
        store <- callStore, disk <- callDisk, fence <- callFence, restores <- callRestores,
        told <- callTold, faults <- callFaults,
        Calls <- {"command", "guide"}, Guides <- {"guide"}, NoCall <- "nobody", MaxGen <- 2,
        MaxEpoch <- 4, MaxFaults <- 1, MaxRefusals <- 0, MaxActivations <- 0, MaxRestores <- 1

-----------------------------------------------------------------------------
(* One of them; what the others would keep is off                          *)

Off == 0

\* What properties read is as at the start; requests are off.
SessionsOff ==
    /\ sessions = [h \in SessionIds |-> Absent(ChannelOf(h[1]))]
    /\ receipts = [c \in HostCalls |-> NoReceipt]
    /\ tally = [o \in {"success", "failure"} |-> IF o = "failure" THEN Failures ELSE 0]
    /\ suggestions = <<>> /\ told = [c \in HostCalls |-> "nothing"]
    /\ bound = [ch \in HostChannels |-> NoSession] /\ saved = bound
    /\ requests = Off /\ turn = Off /\ faults = Off

MemoriesOff ==
    /\ memories = [m \in MemoryIds |-> [Fresh(Unset) EXCEPT !.life = "none"]]
    /\ index = [m \in MemoryIds |-> NoRow]
    /\ edges = {} /\ jobs = MemoryIds /\ events = {} /\ merged = {} /\ missed = {}
    /\ gate = Off /\ asks = Off
    /\ reference = Off /\ relations = Off /\ parted = TRUE /\ differed = Off

ProjectsOff ==
    /\ records = [i \in ProjectIds |-> None] /\ owner = [r \in Roots |-> None]
    /\ checkouts = Off /\ rows = {} /\ restores = Off /\ overlapped = ProjectCalls
    /\ projectAsks = Off

CallsOff ==
    /\ callStore = Off /\ callDisk = Off /\ callFence = Off /\ callRestores = Off
    /\ req = Off /\ client = Off /\ holder = Off /\ pc = Off /\ try = Off
    /\ callTold = Off /\ callFaults = Off /\ refusals = Off /\ activations = Off

ServiceInit ==
    /\ focus \in {"sessions", "memories", "cut", "projects", "calls"} \cup Files
    /\ IF focus = "sessions" THEN SessionsInit ELSE SessionsOff
    /\ IF focus = "memories" THEN OracleInit ELSE MemoriesOff
    /\ CutInit
    /\ IF focus = "projects" THEN ProjectsInit ELSE ProjectsOff
    /\ IF focus = "calls" THEN C!Init ELSE CallsOff
    /\ FilesInit(focus)

callvars == <<callStore, callDisk, callFence, callRestores, req, client, holder, pc, try,
              callTold, callFaults, refusals, activations>>
vars == <<focus, svars, oraclevars, cutvars, projectvars, callvars, filevars>>

ServiceNext ==
    /\ UNCHANGED focus
    /\ \/ /\ focus = "sessions"
          /\ UNCHANGED <<oraclevars, cutvars, projectvars, callvars, filevars>>
          /\ SessionsNext
       \/ /\ focus = "memories"
          /\ UNCHANGED <<svars, cutvars, projectvars, callvars, filevars>>
          /\ OracleNext
       \/ /\ focus = "cut"
          /\ UNCHANGED <<svars, oraclevars, projectvars, callvars, filevars>>
          /\ CutNext
       \/ /\ focus = "projects"
          /\ UNCHANGED <<svars, oraclevars, cutvars, callvars, filevars>>
          /\ ProjectsNext
       \/ /\ focus = "calls"
          /\ UNCHANGED <<svars, oraclevars, cutvars, projectvars, filevars>>
          /\ C!Next /\ callFaults' + callRestores' \leq 1
       \/ /\ focus \in Files
          /\ UNCHANGED <<svars, oraclevars, cutvars, projectvars, callvars>>
          /\ FilesNext(focus)

ServiceSpec == ServiceInit /\ [][ServiceNext]_vars

-----------------------------------------------------------------------------
(* The properties of the modules, on their instances                       *)

\* Every variable of the modules keeps its type.
ServiceTypeOK ==
    CASE focus = "sessions" -> SessionsTypeOK
      [] focus = "memories" -> MemoriesTypeOK
      [] focus = "cut" -> CutTypeOK
      [] focus = "projects" -> ProjectsTypeOK
      [] focus = "calls" -> C!TypeOK
      [] OTHER -> FilesTypeOK(focus)

\* What Retry promises of one call holds of two that share the connection, its mutex and
\* its epoch: neither takes effect twice, a success told is durable, and a stale answer
\* to one is certain whatever the other does.
TwoCallsAgree ==
    focus = "calls" => C!AtMostOnce /\ C!SuccessIsDurable /\ C!StaleIsCertain
=============================================================================
