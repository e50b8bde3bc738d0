------------------------------ MODULE Chunking ------------------------------
(***************************************************************************)
(* How a long text is cut before it is indexed: the loop of                  *)
(* _split_large_text (rag/indexing/atomic_chunker.py), which every uploaded   *)
(* document goes through.  It runs without an await, on the event loop that   *)
(* serves every request of the AI service.                                  *)
(*                                                                         *)
(* A text is a sequence of letters, spaces and full stops; positions count    *)
(* from 0 as in the source.                                                 *)
(***************************************************************************)
EXTENDS Naturals, Sequences

CONSTANTS Target,           \* target_chars
          Overlap,          \* overlap_chars
          MaxText           \* the length of the longest text

ASSUME ChunkingAssumption ==
  Target \in Nat \ {0} /\ Overlap \in 0..Target /\ MaxText \in Nat

VARIABLES text,
          start,
          parts,            \* the stretches appended that hold more than spaces
          passes,           \* the passes of the loop, modulo 2
          cutting           \* whether the loop goes on

chunkVars == <<text, start, parts, passes, cutting>>

At(i) == text[i + 1]
End == start + Target

\* What rfind may find in the window, as offsets.
Spaces == {i \in 0..(Target - 1) : At(start + i) = " "}
Stops == {i \in 0..(Target - 2) : At(start + i) = "." /\ At(start + i + 1) = " "}
Largest(offsets) == CHOOSE i \in offsets : \A j \in offsets : j <= i

\* After the last sentence if that lies in the second half of the window, else before
\* the last space, else at the end of the window.
SplitAt ==
  IF Stops # {} /\ Largest(Stops) > Target \div 2
  THEN start + Largest(Stops) + 1
  ELSE IF Spaces # {} THEN start + Largest(Spaces) ELSE End

\* Variant: the space at the split is skipped; but a cut at the end of the window is not
\* always at a space.
SkippingSpace(at) == at + 1

\* max(split_at - overlap_chars, split_at), which is split_at: no two parts overlap.
NextStart(at) == IF at - Overlap > at THEN at - Overlap ELSE at

Part(from, to) ==
  IF \E i \in from..(to - 1) : At(i) # " " THEN {<<from, to>>} ELSE {}

Cut ==
  /\ cutting
  /\ IF End >= Len(text)
     THEN /\ parts' = parts \cup Part(start, Len(text))
          /\ cutting' = FALSE /\ UNCHANGED start
     ELSE /\ parts' = parts \cup Part(start, SplitAt)
          /\ start' = NextStart(SplitAt)
          /\ UNCHANGED cutting
  /\ passes' = 1 - passes
  /\ UNCHANGED text

Texts == UNION {[1..n -> {"a", " ", "."}] : n \in 1..MaxText}

ChunkInit ==
  /\ text \in Texts
  /\ start = 0 /\ parts = {} /\ passes = 0 /\ cutting = TRUE

ChunkSpec == ChunkInit /\ [][Cut]_chunkVars

ChunkTypeOK ==
  /\ text \in Seq({"a", " ", "."}) /\ start \in Nat
  /\ \A part \in parts : part[1] \in Nat /\ part[2] \in Nat /\ part[1] < part[2]
  /\ passes \in {0, 1} /\ cutting \in BOOLEAN

(***************************************************************************)
(* Properties                                                              *)
(***************************************************************************)
\* A window that begins with its only space.
Stuck(i) == /\ i + Target < Len(text)
            /\ At(i) = " " /\ \A j \in (i + 1)..(i + Target - 1) : At(j) # " "

Covered == \A i \in 0..(Len(text) - 1) :
             At(i) # " " => \E part \in parts : part[1] <= i /\ i < part[2]

\* Whatever the text, the loop ends with every character but spaces in a part, or
\* comes to a window that begins with its only space, where the split moves nothing and
\* the loop goes on for ever: that is the only way not to end (_split_large_text).
SplitEndsUnlessStuck ==
  []<>((~cutting /\ Covered) \/ (cutting /\ Stuck(start)))
=============================================================================
