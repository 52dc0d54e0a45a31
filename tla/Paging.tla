-------------------------------- MODULE Paging --------------------------------
(***************************************************************************)
(* An answer that is read page by page.  Nothing is kept between pages:    *)
(* each is a request of its own, which ranks the whole window from zero to *)
(* the end of its page and cuts the page off (paginate_vec), while reads   *)
(* of memory_read raise what they show, and others raise and hide some.    *)
(*                                                                         *)
(* What is browsed (or scanned, when nothing could be ranked) is ordered   *)
(* by confidence; what is searched is selected by MMR, greedily, with the  *)
(* members of bundles before all others.                                   *)
(*                                                                         *)
(* Abstractions.  A score is a number up to Full, however it was fused;    *)
(* two memories are alike (cosine 1) or not (0); the bundles are fixed;    *)
(* votes do not break ties; the fetch cap of a leg is not reached.         *)
(***************************************************************************)
EXTENDS Naturals, SequencesExt

CONSTANTS
    Ids,            \* numbers: ties go to the smaller
    Profiles,       \* [score, alike, conflicts]
    Sizes,          \* id -> the bytes of its text
    Budget,         \* of the context of one answer
    Limits,         \* of a page
    Full,           \* the greatest score
    MaxWindow,      \* MAX_PAGINATION_WINDOW
    MaxChanges

PageModes == {"browse", "search", "query"}

VARIABLES
    mode,
    limit,
    score,      \* id -> confidence, or what it was fused to
    alike,      \* pairs of memories that say the same
    conflicts,  \* pairs that contradict each other
    shown,      \* what is eligible
    offset,     \* of the next page
    step,       \* "more", "done", or "refused"
    served,     \* the pages so far
    answer,     \* the last one: the window it was cut from and its context
    touched,    \* what others have raised (history)
    sunk        \* how many were hidden or voted down (history)

pagevars == <<mode, limit, score, alike, conflicts, shown, offset, step, served, answer,
              touched, sunk>>

NoContext == [items |-> <<>>, used |-> 0]
NoAnswer == [page |-> <<>>, context |-> NoContext, notice |-> FALSE]

PagingTypeOK ==
    /\ mode \in PageModes /\ limit \in Limits
    /\ score \in [Ids -> 0..Full]
    /\ UNION (alike \cup conflicts) \subseteq Ids
    /\ shown \subseteq Ids /\ touched \subseteq Ids /\ sunk \in Nat
    /\ offset \in Nat /\ step \in {"more", "done", "refused"}
    /\ ToSet(served) \subseteq Ids

Init ==
    /\ mode \in PageModes /\ limit \in Limits
    /\ \E p \in Profiles :
          /\ score = p.score
          /\ alike = IF mode = "browse" THEN {} ELSE p.alike
          /\ conflicts = IF mode = "browse" THEN {} ELSE p.conflicts
    /\ shown = Ids
    /\ offset = 0 /\ step = "more" /\ served = <<>> /\ answer = NoAnswer
    /\ touched = {} /\ sunk = 0

-----------------------------------------------------------------------------
(* The ranking.                                                            *)

Before(a, b) == score[a] > score[b] \/ (score[a] = score[b] /\ a < b)
InOrder(S) == SetToSortSeq(S, Before)
First(n, s) == IF Len(s) <= n THEN s ELSE SubSeq(s, 1, n)

\* The cosine, for which a score of Full is one.
Likeness(m, s) == IF {m, s} \in alike THEN Full ELSE 0

\* 0.7 of the score less 0.3 of the likeness to what is selected, times ten.
Worth(m, taken) == 7 * score[m] - 3 * Max({Likeness(m, s) : s \in taken} \cup {0})

Best(rest, taken) ==
    CHOOSE m \in rest : \A o \in rest : \/ Worth(m, taken) > Worth(o, taken)
                                        \/ Worth(m, taken) = Worth(o, taken) /\ m <= o

\* Contradictions of which both sides are eligible.
Bundles == {k \in conflicts : k \subseteq shown}

\* Mutant: members of a bundle are protected when they rank within the window.
ProtectedInWindow(n) == UNION Bundles \cap ToSet(First(n, InOrder(shown)))

Protected(n) == UNION Bundles

Selected(n) ==
    LET Take(taken, k) ==
            LET rest == shown \ ToSet(taken)
            IN  IF Len(taken) >= n \/ rest = {} THEN taken
                ELSE Append(taken, Best(rest, ToSet(taken)))
    IN  FoldLeft(Take, First(n, InOrder(Protected(n))), [k \in 1..n |-> k])

Window(n) == IF mode = "browse" THEN First(n, InOrder(shown)) ELSE Selected(n)

-----------------------------------------------------------------------------
(* The context of an answer: what fits is put in, in order.                *)

\* Mutant: the first item may be longer than the budget.
PackedWhole(context, m) ==
    IF context.used + Sizes[m] > Budget /\ context.items # <<>> THEN context
    ELSE [items |-> Append(context.items, m), used |-> context.used + Sizes[m]]

\* The first item is cut to the budget, and a later one that does not fit is left out.
Packed(context, m) ==
    LET bytes == IF context.items = <<>> /\ Sizes[m] > Budget THEN Budget ELSE Sizes[m]
    IN  IF context.used + bytes > Budget THEN context
        ELSE [items |-> Append(context.items, m), used |-> context.used + bytes]

Context(window) == FoldLeft(Packed, NoContext, window)

-----------------------------------------------------------------------------
(* A page.                                                                 *)

\* A page is refused when it would end beyond the last window.
Page ==
    LET end == offset + limit
        window == Window(end)
        page == SubSeq(window, offset + 1, Len(window))
        context == Context(window)
    IN  /\ step = "more"
        /\ IF end > MaxWindow
           THEN /\ step' = "refused"
                /\ UNCHANGED <<score, offset, served, answer>>
           ELSE /\ served' = served \o page
                /\ answer' = [page |-> page, context |-> context,
                              notice |-> \E k \in Bundles : ~(k \subseteq ToSet(context.items))]
                /\ step' = IF end < Cardinality(shown) THEN "more" ELSE "done"
                /\ offset' = end
                /\ score' = IF mode = "search" THEN score
                            ELSE [m \in Ids |-> IF m \in ToSet(page) /\ score[m] < Full
                                                THEN score[m] + 1 ELSE score[m]]
        /\ UNCHANGED <<mode, limit, alike, conflicts, shown, touched, sunk>>

Changes == step = "more" /\ Cardinality(touched) + sunk < MaxChanges

\* Another reader, or a vote for it, raises a memory.
Raise(m) ==
    /\ Changes
    /\ m \in shown /\ score[m] < Full
    /\ score' = [score EXCEPT ![m] = @ + 1]
    /\ touched' = touched \cup {m}
    /\ UNCHANGED <<mode, limit, alike, conflicts, shown, offset, step, served, answer, sunk>>

Sink(m) ==
    /\ Changes
    /\ m \in shown
    /\ \/ shown' = shown \ {m} /\ UNCHANGED score
       \/ score' = [score EXCEPT ![m] = 0] /\ UNCHANGED shown
    /\ sunk' = sunk + 1
    /\ UNCHANGED <<mode, limit, alike, conflicts, offset, step, served, answer, touched>>

Next == Page \/ \E m \in Ids : Raise(m) \/ Sink(m)

Spec == Init /\ [][Next]_pagevars

-----------------------------------------------------------------------------
(* Properties.                                                             *)

Repeated == \E i, j \in DOMAIN served : i # j /\ served[i] = served[j]
Missed == (shown \ ToSet(served)) \ touched

\* The pages of a search, and those of a browse although each raises what it shows, neither
\* repeat nor miss a memory when nobody else changes any; and whatever others do, the pages
\* of a browse miss only what was raised past the reader, and one more for each that sank.
PagesTile ==
    /\ mode # "query" /\ touched = {} /\ sunk = 0 => ~Repeated /\ (step = "done" => Missed = {})
    /\ mode = "browse" /\ step = "done" => Cardinality(Missed) <= sunk

\* What goes into an answer keeps to the budget and is never nothing, and both sides of a
\* contradiction are in it or a notice is.
ContextBinds ==
    /\ answer.context.used <= Budget
    /\ answer.page # <<>> => answer.context.items # <<>>
    /\ answer.page # <<>> /\ ~answer.notice => UNION Bundles \subseteq ToSet(answer.context.items)
=============================================================================
