------------------------------- MODULE Chunking -------------------------------
(***************************************************************************)
(* How the text of a memory is cut into the pieces that are embedded and   *)
(* become its rows: lines are packed greedily as long as they fit the      *)
(* window of the model, and a line that does not fit alone is cut by a     *)
(* binary search for the largest span that does.                           *)
(*                                                                         *)
(* A text is a sequence of letters; offsets are counted in bytes, and a    *)
(* letter may have two of them.  A piece goes to the model behind a prefix *)
(* that carries the title: it is the number of its tokens here.            *)
(***************************************************************************)
EXTENDS Naturals, Sequences, SequencesExt

CONSTANTS
    Letters,    \* the letters texts are made of
    MaxLetters, \* bound on the length of a text
    Window,     \* max_tokens of the model
    Leads       \* lengths of the prefix in tokens

\* What a letter weighs: bytes of its encoding, tokens of the tokenizer.
Weight == [plain   |-> [bytes |-> 1, tokens |-> 1],
           wide    |-> [bytes |-> 2, tokens |-> 1],
           heavy   |-> [bytes |-> 1, tokens |-> 3],
           blank   |-> [bytes |-> 1, tokens |-> 0],
           newline |-> [bytes |-> 1, tokens |-> 0]]

VARIABLES
    text, prefix,
    at,         \* "units", "split", "search" or "done"
    from,       \* the lines that start before it have been taken
    open,       \* the piece that is being packed, or NoPiece
    rest,       \* what is left of a line that is too long
    lo, hi,     \* of the search
    chunks

chunkvars == <<text, prefix, at, from, open, rest, lo, hi, chunks>>

NoPiece == <<0, 0>>

\* The byte offset after i letters; the boundaries between letters.
Offset(i) == MapThenSumSet(LAMBDA k : Weight[text[k]].bytes, 1..i)
Boundaries == {Offset(i) : i \in 0..Len(text)}
End == Offset(Len(text))

\* The letters of a span, by index.
Within(span) == {k \in 1..Len(text) : Offset(k - 1) >= span[1] /\ Offset(k) <= span[2]}

Tokens(span) == prefix + MapThenSumSet(LAMBDA k : Weight[text[k]].tokens, Within(span))

\* The lines that are not blank.
Lines ==
    {<<Offset(i), Offset(j)>> : <<i, j>> \in
        {<<i, j>> \in (0..Len(text)) \X (0..Len(text)) :
            /\ i < j
            /\ i = 0 \/ text[i] = "newline"
            /\ j = Len(text) \/ text[j + 1] = "newline"
            /\ \A k \in i + 1..j : text[k] # "newline"
            /\ \E k \in i + 1..j : text[k] # "blank"}}

ChunkingTypeOK ==
    /\ text \in BoundedSeq(Letters, MaxLetters) /\ prefix \in Leads
    /\ at \in {"units", "split", "search", "done"}
    /\ {from, lo, hi} \subseteq Nat
    /\ {open, rest} \subseteq Nat \X Nat
    /\ chunks \in Seq(Nat \X Nat)

Init ==
    /\ text \in BoundedSeq(Letters, MaxLetters) /\ prefix \in Leads
    /\ at = "units" /\ from = 0
    /\ open = NoPiece /\ rest = NoPiece
    /\ lo = 0 /\ hi = 0
    /\ chunks = <<>>

-----------------------------------------------------------------------------
\* Mutant: the prefix is not counted.
FitsBare(span) == Tokens(span) - prefix <= Window

Fits(span) == Tokens(span) <= Window

\* What is left for the line when the prefix is counted off...
Budget == Window - prefix

\* ... which the search holds the prefix and the span against.
FitsBudget(span) == Tokens(span) <= Budget

Flushed == IF open = NoPiece THEN chunks ELSE Append(chunks, open)

\* The next line: packed with the ones before it, alone, as it is when the
\* prefix leaves no room, or to be cut.
TakeLine ==
    /\ at = "units"
    /\ \E line \in Lines :
         /\ line[1] >= from /\ \A other \in Lines : other[1] >= from => other[1] >= line[1]
         /\ from' = line[2]
         /\ LET packed == <<IF open = NoPiece THEN line[1] ELSE open[1], line[2]>> IN
              IF Fits(packed)
              THEN open' = packed /\ UNCHANGED <<at, rest, chunks>>
              ELSE IF Fits(line)
              THEN open' = line /\ chunks' = Flushed /\ UNCHANGED <<at, rest>>
              ELSE /\ open' = NoPiece
                   /\ IF prefix >= Window
                      THEN chunks' = Append(Flushed, line) /\ UNCHANGED <<at, rest>>
                      ELSE at' = "split" /\ rest' = line /\ chunks' = Flushed
    /\ UNCHANGED <<text, prefix, lo, hi>>

\* The head of the loop: what is left fits, or a cut is searched.
Split ==
    /\ at = "split"
    /\ IF Fits(rest)
       THEN at' = "units" /\ open' = rest /\ rest' = NoPiece /\ UNCHANGED <<lo, hi>>
       ELSE at' = "search" /\ lo' = rest[1] /\ hi' = rest[2] /\ UNCHANGED <<open, rest>>
    /\ UNCHANGED <<text, prefix, from, chunks>>

\* floor_char_boundary and ceil_char_boundary.
Floor(offset) == Max({b \in Boundaries : b <= offset})
Ceiling(offset) == Min({b \in Boundaries : b >= offset})

\* Half of the interval, down to a boundary; when that is lo again, nothing changes.
Halve ==
    /\ at = "search" /\ hi - lo > 1
    /\ LET middle == Floor((lo + hi) \div 2) IN
         IF FitsBudget(<<rest[1], middle>>)
         THEN lo' = middle /\ UNCHANGED hi
         ELSE hi' = middle /\ UNCHANGED lo
    /\ UNCHANGED <<text, prefix, at, from, open, rest, chunks>>

\* The cut that was found, or one letter.
Cut ==
    /\ at = "search" /\ hi - lo <= 1
    /\ LET cut == IF lo > rest[1] THEN lo ELSE Ceiling(rest[1] + 1) IN
         /\ chunks' = Append(chunks, <<rest[1], cut>>)
         /\ rest' = <<cut, rest[2]>>
    /\ at' = "split"
    /\ UNCHANGED <<text, prefix, from, open, lo, hi>>

\* The last piece; the caller makes one of the whole text when there is none.
Finish ==
    /\ at = "units" /\ \A line \in Lines : line[1] < from
    /\ chunks' = IF Flushed = <<>> THEN << <<0, End>> >> ELSE Flushed
    /\ open' = NoPiece
    /\ at' = "done"
    /\ UNCHANGED <<text, prefix, from, rest, lo, hi>>

Next == TakeLine \/ Split \/ Halve \/ Cut \/ Finish

Spec == Init /\ [][Next]_chunkvars

\* The code runs on.
FairSpec == Spec /\ WF_chunkvars(Next)

-----------------------------------------------------------------------------
(* Properties.                                                             *)

\* The pieces follow each other in the text without overlapping, each between two letters;
\* each fits the window behind its prefix unless it is a single letter or the prefix leaves
\* no room (the model refuses a piece that does not fit, and the memory stays unembedded).
\* In the end every letter of the text that is not blank is in a piece.
ChunksTile ==
    /\ \A i \in DOMAIN chunks :
         /\ {chunks[i][1], chunks[i][2]} \subseteq Boundaries
         /\ i > 1 => chunks[i - 1][2] <= chunks[i][1]
         /\ \/ prefix + MapThenSumSet(LAMBDA k : Weight[text[k]].tokens, Within(chunks[i]))
                 <= Window
            \/ Cardinality(Within(chunks[i])) = 1
            \/ prefix >= Window
    /\ at = "done" =>
         \A k \in 1..Len(text) : text[k] \notin {"blank", "newline"} =>
            \E i \in DOMAIN chunks : k \in Within(chunks[i])

\* The cutting comes to an end, whatever the text.
ChunkingEnds == <>(at = "done")
=============================================================================
