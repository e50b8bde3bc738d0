------------------------------ MODULE Assistant ------------------------------
(***************************************************************************)
(* The AI service and the client that talks to it: the search index, the      *)
(* cutting of texts that feeds it, the retrieval that reads it, the           *)
(* conversations, and the session of the web client.                         *)
(*                                                                         *)
(* These parts share no state but the loaded index, which Retrieval takes as  *)
(* given; `area` is the one that is explored in a behaviour.                 *)
(***************************************************************************)
EXTENDS IndexStore, Chunking, Retrieval, Conversations, ClientSession

CONSTANTS Areas

VARIABLE area

vars == <<area, indexVars, chunkVars, retrievalVars, chatVars, clientVars>>

\* No text, no question, and no choice of the tab that logged in.
NoText == text = <<>> /\ start = 0 /\ parts = {} /\ passes = 0 /\ cutting = FALSE
NoQuestion ==
  /\ asker = CHOOSE a \in [role : Roles, institution : Institutions] : TRUE
  /\ dense = <<>> /\ sparse = <<>> /\ stage = "not covered" /\ primary = <<>> /\ context = <<>>
NoLogin == stored = "never" /\ page[CHOOSE t \in Tabs : TRUE] = "app"

Init ==
  /\ area \in Areas
  /\ IndexInit /\ (area = "index" \/ postgres)
  /\ IF area = "chunks" THEN ChunkInit ELSE NoText
  /\ IF area = "retrieval" THEN RetrievalInit ELSE NoQuestion
  /\ ChatInit
  /\ ClientInit /\ (area = "client" \/ NoLogin)

IndexStep ==
  /\ area = "index" /\ IndexNext
  /\ UNCHANGED <<area, chunkVars, retrievalVars, chatVars, clientVars>>

ChunkStep ==
  /\ area = "chunks" /\ Cut
  /\ UNCHANGED <<area, indexVars, retrievalVars, chatVars, clientVars>>

RetrievalStep ==
  /\ area = "retrieval" /\ Retrieve
  /\ UNCHANGED <<area, indexVars, chunkVars, chatVars, clientVars>>

ConversationStep ==
  /\ area = "chat" /\ ChatNext
  /\ UNCHANGED <<area, indexVars, chunkVars, retrievalVars, clientVars>>

ClientStep ==
  /\ area = "client" /\ ClientNext
  /\ UNCHANGED <<area, indexVars, chunkVars, retrievalVars, chatVars>>

Next == IndexStep \/ ChunkStep \/ RetrievalStep \/ ConversationStep \/ ClientStep

Spec == Init /\ [][Next]_vars

(***************************************************************************)
(* Fairness.  The loop takes its tasks in turn, so a rebuild runs on whenever  *)
(* the loop is free of the others often enough; a loop that has begun, the     *)
(* browser and the server run on; users, expiry and failures need not.       *)
(***************************************************************************)
Rebuilds(b) ==
  /\ area = "index" /\ Pipeline(b)
  /\ UNCHANGED <<area, chunkVars, retrievalVars, chatVars, clientVars>>

TabGoesOn(t) ==
  /\ area = "client" /\ TabRuns(t)
  /\ UNCHANGED <<area, indexVars, chunkVars, retrievalVars, chatVars>>

CallGoesOn(c) ==
  /\ area = "client" /\ CallRuns(c)
  /\ UNCHANGED <<area, indexVars, chunkVars, retrievalVars, chatVars>>

Fairness ==
  /\ \A b \in Builders : SF_vars(Rebuilds(b))
  /\ WF_vars(ChunkStep)
  /\ \A t \in Tabs : WF_vars(TabGoesOn(t))
  /\ \A c \in Calls : WF_vars(CallGoesOn(c))

FairSpec == Spec /\ Fairness

AssistantTypeOK ==
  /\ area \in Areas
  /\ IndexTypeOK /\ ChunkTypeOK /\ RetrievalTypeOK /\ ChatTypeOK /\ ClientTypeOK
=============================================================================
