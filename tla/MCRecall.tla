------------------------------ MODULE MCRecall ------------------------------
(* Values for Recall: the stores a request may meet.                       *)
EXTENDS Recall, Sequences

Store(text, level, es) == [text |-> text, level |-> level, edges |-> es]
Tie(a, type, b) == [from |-> a, to |-> b, type |-> type]
Here == <<"here", "here", "here">>

\* A chain of three; a conflict beside what is only near; a replaced memory that does
\* not match; a replacement of another project.
MCStores ==
    {Store(<<"match", "match", "match">>, Here,
           {Tie(2, "supersedes", 1), Tie(2, "superseded_by", 3)}),
     Store(<<"match", "near", "other">>, <<"here", "here", "low">>,
           {Tie(1, "contradicts", 2)}),
     Store(<<"other", "match", "near">>, Here,
           {Tie(2, "supersedes", 1), Tie(1, "related_to", 3)}),
     Store(<<"match", "other", "match">>, <<"here", "foreign", "here">>,
           {Tie(2, "supersedes", 1), Tie(3, "contradicts", 1)})}

MCIds == 1..3
=============================================================================
