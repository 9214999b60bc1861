--------------------------------- MODULE MCCorpus ---------------------------------
(* Instances of Corpus for TLC. *)
EXTENDS Corpus

\* Two forms of one title, and another title.
Titles == [t \in {"Physics-Informed", "Physics-informed", "Physics"} |->
              IF t = "Physics" THEN t ELSE "physicsinformed"]

Run(count, sound, title, headings, rows) ==
    [count |-> count, sound |-> sound, title |-> title, headings |-> headings, rows |-> rows]

\* A good run; one with far fewer blocks that reads the title and the table otherwise;
\* and one that got the document wrong.
SomeRuns ==
    {Run(30, TRUE, "Physics-informed", {"A", "B"}, 10),
     Run(10, TRUE, "Physics-Informed", {"A"}, 9),
     Run(28, FALSE, "Physics", {"B"}, 0)}
=================================================================================
