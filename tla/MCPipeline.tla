------------------------------- MODULE MCPipeline -------------------------------
(* Instances of Pipeline for TLC. *)
EXTENDS Pipeline

AllPages == Pages
FirstPage == {1}
NoPage == {}
AnyQuality == {"ok", "invalid", "incomplete", "nobbox"}
OwnIds == {"own"}
AnyIds == {"own", "shared"}
=================================================================================
