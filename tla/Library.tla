------------------------------ MODULE Library ------------------------------
(***************************************************************************)
(* What the index of the AI service promises: answers are searched in one    *)
(* snapshot of the documents, which a rebuild replaces as a whole.  Only      *)
(* while the files are damaged, by a rebuild that was cut short, may parts of *)
(* several snapshots be mixed.  A load may fail, and nothing is served then.  *)
(***************************************************************************)
CONSTANTS Nothing, Damaged, Mixed

VARIABLES documents,   \* the documents there are to search
          built,       \* the snapshot on disk, Nothing or Damaged
          serving      \* the snapshot that answers are searched in, Nothing or Mixed

Init == built = Nothing /\ serving = Nothing

Arrive == documents \subseteq documents' /\ UNCHANGED <<built, serving>>

Build == (\E s \in SUBSET documents : built' = s) /\ UNCHANGED <<documents, serving>>

Damage == built' = Damaged /\ UNCHANGED <<documents, serving>>

Load ==
  /\ IF built = Damaged
     THEN \E s \in {Nothing, Mixed} \cup SUBSET documents : serving' = s
     ELSE serving' \in {built, Nothing}
  /\ UNCHANGED <<documents, built>>

Stop == serving' = Nothing /\ built' \in {built, Damaged} /\ UNCHANGED documents

Next == Arrive \/ Build \/ Damage \/ Load \/ Stop

Spec == Init /\ [][Next]_<<documents, built, serving>>
=============================================================================
