-------------------------- MODULE AssistantProofs --------------------------
(***************************************************************************)
(* What is proved of the parts of the assistant, carried over to their        *)
(* composition: every behaviour of Assistant is, seen from one part, a          *)
(* behaviour of that part.                                                  *)
(***************************************************************************)
EXTENDS Assistant, IndexProofs, ChatProofs, ClientProofs, RagProofs

LEMMA InitOfParts == Init => IndexInit /\ ChatInit /\ ClientInit
  BY DEF Init

LEMMA StepOfParts ==
  [Next]_vars => [IndexNext]_indexVars /\ [ChatNext]_chatVars /\ [ClientNext]_clientVars
<1> SUFFICES ASSUME [Next]_vars
             PROVE  [IndexNext]_indexVars /\ [ChatNext]_chatVars /\ [ClientNext]_clientVars
  OBVIOUS
<1>1. CASE IndexStep
  BY <1>1 DEF IndexStep
<1>2. CASE ChunkStep \/ RetrievalStep
  BY <1>2 DEF ChunkStep, RetrievalStep
<1>3. CASE ConversationStep
  BY <1>3 DEF ConversationStep
<1>4. CASE ClientStep
  BY <1>4 DEF ClientStep
<1>5. CASE UNCHANGED vars
  BY <1>5 DEF vars
<1> QED
  BY <1>1, <1>2, <1>3, <1>4, <1>5 DEF Next

\* The composition implements each of its parts: what an area does is a step of the part
\* it is about, and a stutter of the others (main.py, the routers, api.ts).
THEOREM PartsImplemented == Spec => IndexSpec /\ ChatSpec /\ ClientSpec
  BY InitOfParts, StepOfParts, PTL DEF Spec, IndexSpec, ChatSpec, ClientSpec

\* Of the whole assistant: the index answers as one that is replaced as a whole.
THEOREM AssistantRefines == Spec => ServesWholeSnapshots
  BY PartsImplemented, IndexRefines, PTL

\* Of the whole assistant: what the newest rebuild found is searched, readiness means a
\* loaded index, and turns, conversations and logouts are as they should be.
THEOREM AssistantSafe ==
  Spec => [](NewestServed /\ ReadyUnlessTorn /\ TurnsKept /\ ConversationsApart /\ LogoutsJustified)
  BY PartsImplemented, NewestSafe, ReadySafe, KeptSafe, ApartSafe, LogoutsSafe, PTL

(***************************************************************************)
(* The texts and the questions are there only where they are explored, so      *)
(* their invariants also hold of no text and no question.                    *)
(***************************************************************************)
LEMMA AreasStart == Init => area \in Areas /\ ChunkInv /\ RetrievalInv
<1> SUFFICES ASSUME Init PROVE area \in Areas /\ ChunkInv /\ RetrievalInv
  OBVIOUS
<1>1. ChunkInv
  <2>1. CASE ChunkInit
    BY <2>1, ChunkStart
  <2>2. CASE NoText
    <3>1. text \in Seq(Letters)
      BY <2>2, EmptySeq DEF NoText
    <3> QED
      BY <2>2, <3>1, NothingCut DEF NoText
  <2> QED
    BY <2>1, <2>2 DEF Init
<1>2. RetrievalInv
  <2>1. CASE RetrievalInit
    BY <2>1, RetrievalStart
  <2>2. CASE NoQuestion
    <3>1. asker \in [role : Roles, institution : Institutions]
      <4>1. PICK r \in Roles, i \in Institutions : TRUE
        BY RetrievalAssumption
      <4>2. [role |-> r, institution |-> i] \in [role : Roles, institution : Institutions]
        OBVIOUS
      <4> QED
        BY <2>2, <4>2 DEF NoQuestion
    <3>2. Ranks(<<>>)
      <4>1. <<>> \in Seq(Chunks) /\ Len(<<>>) = 0 /\ DOMAIN <<>> = {}
        BY EmptySeq
      <4>2. 0 <= Candidates
        BY RetrievalAssumption
      <4> QED
        BY <4>1, <4>2 DEF Ranks, IsInjective
    <3> QED
      BY <2>2, <3>1, <3>2, NothingRetrieved DEF NoQuestion
  <2> QED
    BY <2>1, <2>2 DEF Init
<1> QED
  BY <1>1, <1>2 DEF Init

LEMMA AreasStep ==
  [Next]_vars => /\ area' = area
                 /\ [Cut]_chunkVars /\ [Retrieve]_retrievalVars
  BY DEF Next, IndexStep, ChunkStep, RetrievalStep, ConversationStep, ClientStep, vars

LEMMA AreasKept == Spec => [](area \in Areas /\ ChunkInv /\ RetrievalInv)
<1>1. /\ area \in Areas /\ ChunkInv /\ RetrievalInv /\ [Next]_vars
      => (area \in Areas /\ ChunkInv /\ RetrievalInv)'
  BY AreasStep, CutStep, RetrieveStep
<1> QED
  BY <1>1, AreasStart, PTL DEF Spec

\* Every variable of the assistant keeps its type, for all values of the constants.
THEOREM AssistantTypes == Spec => []AssistantTypeOK
<1>1. (area \in Areas /\ ChunkInv /\ RetrievalInv) /\ IndexTypeOK /\ ChatTypeOK /\ ClientTypeOK
      => AssistantTypeOK
  BY ChunkTypeFollows, RetrievalTypeFollows DEF AssistantTypeOK
<1> QED
  BY <1>1, AreasKept, PartsImplemented, IndexTyped, ChatTyped, ClientTyped, PTL

\* Of the whole assistant: no foreign chunk reaches the model, and the fusion respects its
\* rankings (base.py, hybrid_retriever.py, rrf.py).
THEOREM AnswersSafe == Spec => [](NoForeignChunks /\ FusionRespectsRankings)
<1>1. ChunkInv /\ RetrievalInv => NoForeignChunks /\ FusionRespectsRankings
  BY DEF RetrievalInv
<1> QED
  BY <1>1, AreasKept, PTL
=============================================================================
