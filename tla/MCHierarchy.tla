------------------------------- MODULE MCHierarchy -------------------------------
(* Instances of Hierarchy for TLC. *)
EXTENDS Hierarchy

Box(id, page, type, x, y, fields) ==
    [id |-> id, page |-> page, type |-> type, fields |-> fields,
     left |-> x[1], right |-> x[2], top |-> y[1], bottom |-> y[2]]

\* Two columns, one of them with a jitter, the full width, a wide block on the right, and one
\* that starts where a column does and is exactly 0.55 of the page; lines that follow one
\* another closely, overlap, or are far apart.
Across == {<<0, 40>>, <<60, 100>>, <<64, 100>>, <<0, 100>>, <<30, 95>>, <<22, 77>>}
Down == {<<0, 8>>, <<0, 14>>, <<10, 20>>, <<30, 40>>}

\* Three blocks on a page, anywhere.
Layouts ==
    {<<Box(1, 1, t1, x1, y1, "all"), Box(2, 1, t2, x2, y2, "all"), Box(3, 1, "text", x3, y3, "all")>>:
        t1 \in {"heading", "text"}, x1 \in Across, y1 \in Down,
        t2 \in {"heading", "text"}, x2 \in Across, y2 \in Down,
        x3 \in Across, y3 \in Down}

\* Up to three blocks that share ids, on two pages, some of them incomplete.
Copies ==
    BoundedSeq({Box(i, p, "text", <<0, 40>>, <<0, 8>>, f): i \in {1, 2}, p \in {1, 2}, f \in Fields}, 3)

Pages == Layouts \cup Copies

\* Of the spans of these pages, and those 3 and 7 times as wide: where 55 hundredths of them
\* are an integer, those whose product with the double 0.55 is above it; and those whose
\* product with the double 0.11 is above, or below, 11 hundredths of them.
RoundedUp55 ==
    {100, 700}
RoundedUp11 ==
    {40, 65, 70, 77, 78, 108, 210, 231, 280, 285, 385, 511, 546, 665}
RoundedDown11 ==
    {36, 55, 73, 95, 120, 165, 195, 219, 234, 252, 455, 490, 539}
=================================================================================
