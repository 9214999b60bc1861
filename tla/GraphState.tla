------------------------------- MODULE GraphState -------------------------------
(***************************************************************************)
(* The reducers of src/state.py.  The nodes of the graph return partial    *)
(* updates; a channel with a reducer is merged with the update, never      *)
(* assigned.  An update of extracted_flat_blocks is one of three: None,    *)
(* which resets the buffer; a list, which is appended; a list headed by    *)
(* the __replace_pages__ sentinel.                                         *)
(***************************************************************************)
EXTENDS Sequences, Ranking

Reset == [kind |-> "reset"]
Append_(new) == [kind |-> "append", new |-> new]
Replace(pages, new) == [kind |-> "replace", pages |-> pages, new |-> new]

\* A block without a bbox has page 0, a number no sentinel names.
MergeFlatBlocks(existing, update) ==
    CASE update.kind = "reset" -> <<>>
      [] update.kind = "append" -> existing \o update.new
      [] update.kind = "replace" ->
             ItemsAt(existing, {i \in DOMAIN existing: existing[i].page \notin update.pages})
                 \o update.new

\* An empty list leaves the channel as it is: it is no reset.
MergeWarnings(existing, new) == existing \cup new

ResetUsage == {}
MergeUsageLog(existing, new) == existing \cup new
=================================================================================
