------------------------------ MODULE MCReaders ------------------------------
(***************************************************************************)
(* What a request may have read before others changed it, for TLC: a       *)
(* cutover between generations, a restore between two steps of the worker, *)
(* the pieces a text is cut into, a request to recall while others write,  *)
(* an answer read page by page, adds that look for contradictions, and     *)
(* changes of guides planned on what was read, each on its own instance.   *)
(* A behaviour is a behaviour of one of them, chosen at the start (focus); *)
(* the others are off; Generations, Projection and Guides at their starts. *)
(*                                                                         *)
(* Generations has two modes: the protocol without disturbance ("quiet":   *)
(* writes wait for a build and its report; no rollback, no restore), and   *)
(* everything at any moment, on one memory and fewer writes.  Of the two   *)
(* confidences, a new memory has the first.                                *)
(***************************************************************************)
EXTENDS Generations, Projection, Guides, Recall, Conflicts

CONSTANTS m1, m2

VARIABLES
    focus,
    text, prefix, at, from, open, rest, lo, hi, chunks,
    mode, limit, score, alike, conflicts, shown, offset, step, served, answer, touched, sunk

-----------------------------------------------------------------------------
(* Projection: two memories, two backups, a restore, a failing embedding   *)

NoMemoryYet == [life |-> "absent", rev |-> 0, conf |-> 0]

TwoBackups ==
    {[m \in Memories |-> NoMemoryYet],
     [m \in Memories |-> IF m = m1 THEN [life |-> "live", rev |-> 1, conf |-> 0]
                         ELSE NoMemoryYet]}

-----------------------------------------------------------------------------
(* Recall: three memories and five stores, a page of two, two changes under *)
(* a search and one, or a restore, under the other tools                   *)

Store(words, level, es) == [text |-> words, level |-> level, edges |-> es]
Tie(a, type, b) == [from |-> a, to |-> b, type |-> type]
Here == <<"here", "here", "here">>

\* A chain of three; a conflict beside what does not match; a replaced memory that does
\* not match; a replacement of another project; two memories that replace each other, as
\* supersessions stored both ways may say, one of them a third's replacement.
StoresToRecall ==
    {Store(<<"match", "match", "match">>, Here,
           {Tie(2, "supersedes", 1), Tie(2, "superseded_by", 3)}),
     Store(<<"match", "near", "other">>, <<"here", "here", "low">>,
           {Tie(1, "contradicts", 2)}),
     Store(<<"other", "match", "near">>, Here,
           {Tie(2, "supersedes", 1), Tie(1, "related_to", 3)}),
     Store(<<"match", "other", "match">>, <<"here", "foreign", "here">>,
           {Tie(2, "supersedes", 1), Tie(3, "contradicts", 1)}),
     Store(<<"match", "match", "match">>, Here,
           {Tie(2, "supersedes", 1), Tie(2, "superseded_by", 1), Tie(1, "supersedes", 3)})}

-----------------------------------------------------------------------------
(* Chunking: texts of at most five letters, a window of four tokens, and a *)
(* prefix that leaves room for three, for one, for none                    *)

K == INSTANCE Chunking WITH
        Letters <- {"plain", "wide", "heavy", "blank", "newline"}, MaxLetters <- 5,
        Window <- 4, Leads <- {1, 3, 4}

-----------------------------------------------------------------------------
(* Conflicts: two adds, a memory that was there before, and two changes,   *)
(* before or after a restore (then with one add), or a fault and one other *)

UseOrAvoid == {<<"use", "avoid">>, <<"avoid", "use">>}
UseBefore == <<"use">>

-----------------------------------------------------------------------------
(* Paging: four memories, pages of one to three in a window of four, one   *)
(* change by others; the third text is longer than the context             *)

Looking(likenesses, clashes) == [score : [1..4 -> 2..4], alike : likenesses, conflicts : clashes]
Looks == Looking({{}, {{1, 2}}, {{1, 2}, {3, 4}}, {{1, 2}, {2, 3}}}, {{}})
         \cup Looking({{}}, {{{1, 4}}, {{2, 3}, {3, 4}}})
         \cup Looking({{{1, 2}, {2, 3}}}, {{{1, 4}}})

A == INSTANCE Paging WITH
        Ids <- 1..4, Profiles <- Looks, Sizes <- <<2, 1, 5, 1>>, Budget <- 4, Limits <- 1..3,
        Full <- 4, MaxWindow <- 4, MaxChanges <- 1

-----------------------------------------------------------------------------
(* Guides: one call of each kind on three names of which two are alike, one *)
(* of them sent twice, three requests open at a time                       *)

OnGuides(kind, names, to, mems) == [kind |-> kind, guides |-> names, to |-> to, memories |-> mems]
GuidesAsked ==
    [create   |-> OnGuides("create", <<"golang">>, "go", {}),
     update   |-> OnGuides("update", <<"go">>, "go", {}),
     rename   |-> OnGuides("rename", <<"golang">>, "rust", {}),
     forget   |-> OnGuides("forget", <<"golang">>, "go", {}),
     merge    |-> OnGuides("merge", <<"go", "golang">>, "rust", {}),
     distill  |-> OnGuides("distill", <<"go">>, "go", {"m"}),
     practice |-> OnGuides("practice", <<"golang">>, "go", {"m"}),
     effect   |-> OnGuides("effect", <<"go">>, "go", {})]

EachGuideCall == DOMAIN GuidesAsked
OneInAnother == {<<"go", "golang">>}
UpdateTwice == [c \in EachGuideCall |-> IF c = "update" THEN 2 ELSE 1]

-----------------------------------------------------------------------------
Off == 0

chunkvars == <<text, prefix, at, from, open, rest, lo, hi, chunks>>
pagevars == <<mode, limit, score, alike, conflicts, shown, offset, step, served, answer,
              touched, sunk>>
all == <<focus, genvars, vars, gvars, recallvars, chunkvars, conflictvars, pagevars>>

RecallOff ==
    /\ memories = Off /\ edges = Off /\ active = Off /\ backlog = Off /\ searchRows = Off
    /\ ask = Asked("search", TRUE) /\ witnessed = Off /\ spent = Off

ChunkOff ==
    /\ text = Off /\ prefix = Off /\ at = Off /\ from = Off /\ open = Off /\ rest = Off
    /\ lo = Off /\ hi = Off /\ chunks = Off

ConflictsOff ==
    /\ held = Empty /\ epoch = Off /\ copy = Off /\ cache = Off /\ gate = Off /\ adding = Off
    /\ unpruned = Off /\ replacing = Off /\ overtaken = Off /\ tally = Off

PagesOff ==
    /\ mode = Off /\ limit = Off /\ score = Off /\ alike = Off /\ conflicts = Off /\ shown = Off
    /\ offset = Off /\ step = Off /\ served = Off /\ answer = Off /\ touched = Off /\ sunk = Off

ReadersInit ==
    /\ focus \in {"quiet", "disturbed", "worker", "recall", "text", "conflicts", "pages",
                 "guides"}
    /\ GenInit /\ Init /\ GuidesInit
    /\ IF focus = "recall" THEN RecallInit ELSE RecallOff
    /\ IF focus = "text" THEN K!Init ELSE ChunkOff
    /\ IF focus = "conflicts" THEN ConflictsInit ELSE ConflictsOff
    /\ IF focus = "pages" THEN A!Init ELSE PagesOff

ReadersNext ==
    /\ UNCHANGED focus
    /\ \/ /\ focus = "quiet" /\ GenNext /\ unruly' = {} /\ UNCHANGED backup
          /\ \A m \in Mems : docs[m] = Nothing /\ docs'[m] # Nothing => docs'[m].conf = 1
          /\ UNCHANGED <<vars, gvars, recallvars, chunkvars, conflictvars, pagevars>>
       \/ /\ focus = "disturbed" /\ GenNext /\ docs'[m2] = docs[m2] /\ writes' \leq 1
          /\ \A m \in Mems : docs'[m] # Nothing => docs'[m].conf = 1
          /\ UNCHANGED <<vars, gvars, recallvars, chunkvars, conflictvars, pagevars>>
       \/ /\ focus = "worker" /\ Next
          /\ UNCHANGED <<genvars, gvars, recallvars, chunkvars, conflictvars, pagevars>>
       \/ /\ focus = "recall" /\ RecallNext
          /\ spent = 1 /\ spent' = 2 => ask.tool = "search"
          /\ UNCHANGED <<genvars, vars, gvars, chunkvars, conflictvars, pagevars>>
       \/ /\ focus = "text" /\ K!Next
          /\ UNCHANGED <<genvars, vars, gvars, recallvars, conflictvars, pagevars>>
       \/ /\ focus = "conflicts" /\ ConflictsNext
          /\ tally'.faults = 1 => tally'.changes + tally'.restores \leq 1
          /\ tally'.restores = 1 => tally'.writes \leq 3
          /\ UNCHANGED <<genvars, vars, gvars, recallvars, chunkvars, pagevars>>
       \/ /\ focus = "pages" /\ A!Next
          /\ UNCHANGED <<genvars, vars, gvars, recallvars, chunkvars, conflictvars>>
       \/ /\ focus = "guides" /\ GuidesNext
          /\ Cardinality({a \in Asks : guideAsks'[a].step \notin {"unsent", "answered"}}) \leq 3
          /\ UNCHANGED <<genvars, vars, recallvars, chunkvars, conflictvars, pagevars>>

ReadersSpec == ReadersInit /\ [][ReadersNext]_all

-----------------------------------------------------------------------------
(* The properties of the modules, on their instances                       *)

\* The pieces of a text fit the model, follow each other, and leave no letter out; those of
\* an answer keep to its budget, neither repeat nor miss a memory when nobody else changes
\* any, and miss no more than others have moved otherwise.
PiecesTile ==
    /\ focus = "text" => K!ChunksTile
    /\ focus = "pages" => A!PagesTile /\ A!ContextBinds
=============================================================================
