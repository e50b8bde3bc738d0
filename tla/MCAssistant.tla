---------------------------- MODULE MCAssistant ----------------------------
(* Instances of Assistant: two tabs, two rebuilds, two tenants, five chunks.   *)
EXTENDS Assistant

CONSTANTS f1, f2, g1, u1, v1, t1

\* Both calls are made by one tab; the other one refreshes when it is loaded again.
MCTabOf == [c \in Calls |-> t1]

\* The first section refers to the second, as a chunk without a framework does to its
\* own; each tenant has a document, and both begin with the same words.
MCCorpus == <<f1, f2, g1, u1, v1>>
MCChunk(i, f, s, r, h) == [institution |-> i, framework |-> f, section |-> s, refs |-> r, head |-> h]
MCOf ==
  f1 :> MCChunk(Everyone, "ISO", "s1", <<"s2", "s3", "s1">>, "f1")
  @@ f2 :> MCChunk(Everyone, "ISO", "s2", <<>>, "f2")
  @@ g1 :> MCChunk(Everyone, NoFramework, "s2", <<"s2">>, "g1")
  @@ u1 :> MCChunk("ours", "User", NoSection, <<>>, "page")
  @@ v1 :> MCChunk("theirs", "User", NoSection, <<>>, "page")

\* One role has the framework of the sections, one another, one is not restricted.
MCRoleFrameworks == [vendor_reviewer |-> {"ISO 27001"}, dept_reviewer |-> {"UGC Guidelines"},
                     super_admin |-> {}]
MCMatches == {<<"ISO", "ISO 27001">>}
=============================================================================
