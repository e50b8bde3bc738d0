----------------------------- MODULE ChatProofs -----------------------------
(***************************************************************************)
(* Proofs about Conversations, for every set of persons, conversations and   *)
(* asks: its types, that a conversation is one person's, and that turns are   *)
(* kept unless two saves overlap.                                           *)
(***************************************************************************)
EXTENDS Conversations, FiniteSetTheorems, TLAPS

\* The stages of a request that carries its person, conversation and history.
Under == {"thinking", "answered", "saving", "saved", "done"}

SavedBy(b, c, p) == asks[b].at = "saved" /\ asks[b].conversation = c /\ asks[b].person = p

Distinct(s) == \A i, j \in DOMAIN s : s[i] = s[j] => i = j

\* A row holds turns that were saved to it, by its owner, each once.
RowsOwned ==
  \A c \in Conversations : rows[c] # NoRow =>
    /\ rows[c].turns # <<>> /\ Distinct(rows[c].turns)
    /\ \A b \in ToSet(rows[c].turns) : SavedBy(b, c, rows[c].owner)

\* So does what a save has read of it, whatever was written since.
ReadsOwned ==
  \A a \in Asks : asks[a].at = "saving" =>
    /\ Distinct(asks[a].read)
    /\ \A b \in ToSet(asks[a].read) : SavedBy(b, asks[a].conversation, asks[a].person)
    /\ asks[a].read # <<>> =>
         /\ rows[asks[a].conversation] # NoRow
         /\ rows[asks[a].conversation].owner = asks[a].person

GivenOwned ==
  \A a \in Asks : asks[a].at \in Under =>
    \A b \in ToSet(asks[a].given) : asks[b].at = "saved" /\ asks[b].person = asks[a].person

\* A turn that no save overlapped is in its row, and in what every save has read of it.
Settled ==
  \A b \in Asks : asks[b].at = "saved" /\ b \notin overlapped =>
    /\ rows[asks[b].conversation] # NoRow
    /\ b \in ToSet(rows[asks[b].conversation].turns)
    /\ \A a \in Asks : asks[a].at = "saving" /\ asks[a].conversation = asks[b].conversation =>
         b \in ToSet(asks[a].read)

ChatInv == ChatTypeOK /\ RowsOwned /\ ReadsOwned /\ GivenOwned /\ Settled

(***************************************************************************)
(* Sequences                                                               *)
(***************************************************************************)
\* What a turn adds to the history of a conversation.
LEMMA AppendTurn ==
  ASSUME NEW S, NEW s \in Seq(S), NEW e \in S
  PROVE  /\ Append(s, e) \in Seq(S) /\ Append(s, e) # <<>>
         /\ ToSet(Append(s, e)) = ToSet(s) \cup {e}
         /\ Distinct(s) /\ e \notin ToSet(s) => Distinct(Append(s, e))
<1>1. /\ Append(s, e) \in Seq(S) /\ DOMAIN s = 1..Len(s) /\ Len(s) \in Nat
      /\ DOMAIN Append(s, e) = 1..(Len(s) + 1)
      /\ Append(s, e)[Len(s) + 1] = e
      /\ \A i \in 1..Len(s) : Append(s, e)[i] = s[i]
  OBVIOUS
<1>2. 1..(Len(s) + 1) = (1..Len(s)) \cup {Len(s) + 1}
  BY <1>1
<1>3. ToSet(Append(s, e)) = ToSet(s) \cup {e}
  BY <1>1, <1>2 DEF ToSet
<1>4. ASSUME Distinct(s), e \notin ToSet(s) PROVE Distinct(Append(s, e))
  BY <1>1, <1>2, <1>4 DEF Distinct, ToSet
<1>5. Append(s, e) # <<>>
  BY <1>1
<1> QED
  BY <1>1, <1>3, <1>4, <1>5

LEMMA FirstTurn ==
  ASSUME NEW e
  PROVE  Append(<<>>, e) = <<e>>
<1> DEFINE s == Append(<<>>, e)
<1>1. <<>> \in Seq({e})
  OBVIOUS
<1>2. s \in Seq({e}) /\ Len(s) = 1 /\ s[1] = e
  BY <1>1
<1> QED
  BY <1>2

\* The history that the model is given is a part of the conversation.
LEMMA LastTurnsOf ==
  ASSUME NEW s \in Seq(Asks)
  PROVE  LastTurns(s) \in Seq(Asks) /\ ToSet(LastTurns(s)) \subseteq ToSet(s)
<1>1. CASE Len(s) <= HistoryTurns
  BY <1>1 DEF LastTurns
<1>2. CASE ~(Len(s) <= HistoryTurns)
  <2> DEFINE m == Len(s) - HistoryTurns + 1
             n == Len(s)
  <2>1. m \in Nat /\ n \in Nat /\ 1 <= m /\ m <= n /\ n <= Len(s)
    BY <1>2, ConversationAssumption
  <2>2. /\ SubSeq(s, m, n) \in Seq(Asks)
        /\ \A i \in DOMAIN SubSeq(s, m, n) : SubSeq(s, m, n)[i] = s[m + i - 1] /\ m + i - 1 \in DOMAIN s
    BY <2>1
  <2>3. LastTurns(s) = SubSeq(s, m, n)
    BY <1>2 DEF LastTurns
  <2> QED
    BY <2>2, <2>3 DEF ToSet
<1> QED
  BY <1>1, <1>2

(***************************************************************************)
(* Types                                                                   *)
(***************************************************************************)
AskRecord == [at : {"new", "refused", "failed"}] \cup Given(Under)
Row == [owner : Persons, turns : Seq(Asks)]

\* An ask that has begun knows its person and its conversation.
LEMMA AskKinds ==
  ASSUME ChatTypeOK, NEW a \in Asks
  PROVE  /\ asks[a].at \in Under => asks[a] \in Given(Under)
         /\ asks[a] \in Given(Under) =>
              /\ asks[a].person \in Persons /\ asks[a].conversation \in Conversations
              /\ asks[a].given \in Seq(Asks) /\ asks[a].read \in Seq(Asks)
  BY DEF ChatTypeOK, Given, Under

LEMMA RowKinds ==
  ASSUME ChatTypeOK, NEW c \in Conversations
  PROVE  /\ rows[c] # NoRow => rows[c].owner \in Persons /\ rows[c].turns \in Seq(Asks)
         /\ TurnsOf(rows[c]) \in Seq(Asks)
  BY DEF ChatTypeOK, TurnsOf

LEMMA ChatTypedStep ==
  ASSUME ChatTypeOK, NEW a \in Asks, ChatStep(a)
  PROVE  ChatTypeOK'
<1> USE DEF AskRecord, Under
<1>1. ASSUME NEW p \in Persons, NEW c \in Conversations, Ask(a, p, c) PROVE ChatTypeOK'
  <2>1. LastTurns(TurnsOf(rows[c])) \in Seq(Asks)
    BY RowKinds, LastTurnsOf
  <2> QED
    BY <1>1, <2>1 DEF Ask, ChatTypeOK, Given
<1>2. CASE Answer(a)
  BY <1>2, AskKinds DEF Answer, ChatTypeOK, Given
<1>3. CASE SaveRead(a)
  <2>1. asks[a] \in Given(Under)
    BY <1>3, AskKinds DEF SaveRead
  <2>2. TurnsOf(rows[asks[a].conversation]) \in Seq(Asks)
    BY <2>1, AskKinds, RowKinds
  <2>3. [asks[a] EXCEPT !.at = "saving", !.read = TurnsOf(rows[asks[a].conversation])] \in Given(Under)
    BY <2>1, <2>2 DEF Given
  <2> QED
    BY <1>3, <2>3 DEF SaveRead, ChatTypeOK, Given
<1>4. CASE SaveCommit(a)
  <2>1. asks[a] \in Given(Under)
    BY <1>4, AskKinds DEF SaveCommit
  <2>2. asks[a].read \in Seq(Asks) /\ asks[a].person \in Persons /\ asks[a].conversation \in Conversations
    BY <2>1, AskKinds
  <2>3. Updated(a) \in Seq(Asks)
    BY <2>2, AppendTurn DEF Updated
  <2>4. asks' \in [Asks -> AskRecord]
    <3>1. [asks[a] EXCEPT !.at = "saved"] \in AskRecord
      BY <2>1 DEF Given
    <3>2. [at |-> "failed"] \in AskRecord
      OBVIOUS
    <3>3. \/ asks' = [asks EXCEPT ![a] = [at |-> "failed"]]
          \/ asks' = [asks EXCEPT ![a] = [asks[a] EXCEPT !.at = "saved"]]
      BY <1>4 DEF SaveCommit, ChatTypeOK
    <3> HIDE DEF AskRecord
    <3> QED
      BY <3>1, <3>2, <3>3 DEF ChatTypeOK, AskRecord
  <2>5. rows' \in [Conversations -> {NoRow} \cup Row]
    <3> DEFINE c == asks[a].conversation
               new == IF rows[c] = NoRow THEN [owner |-> asks[a].person, turns |-> <<a>>]
                                         ELSE [rows[c] EXCEPT !.turns = Updated(a)]
    <3>1. rows \in [Conversations -> {NoRow} \cup Row]
      BY DEF ChatTypeOK, Row
    <3>2. new \in Row
      BY <2>2, <2>3, <3>1 DEF Row
    <3>3. rows' = rows \/ rows' = [rows EXCEPT ![c] = new]
      BY <1>4, <3>1 DEF SaveCommit
    <3> HIDE DEF new
    <3> QED
      BY <3>1, <3>2, <3>3
  <2>6. overlapped' \subseteq Asks
    BY <1>4 DEF SaveCommit, ChatTypeOK
  <2> QED
    BY <2>4, <2>5, <2>6 DEF ChatTypeOK, Row
<1>5. CASE AskFails(a)
  BY <1>5 DEF AskFails, ChatTypeOK
<1> QED
  BY <1>1, <1>2, <1>3, <1>4, <1>5 DEF ChatStep

LEMMA ChatTypedInit == ChatInit => ChatTypeOK
  BY DEF ChatInit, ChatTypeOK, NewAsk

\* The asks and the rows are what the endpoints and save_turn make of them, for any
\* number of persons, conversations and asks.
THEOREM ChatTyped == ChatSpec => []ChatTypeOK
<1>1. ChatTypeOK /\ [ChatNext]_chatVars => ChatTypeOK'
  BY ChatTypedStep DEF ChatNext, chatVars, ChatTypeOK
<1> QED
  BY ChatTypedInit, <1>1, PTL DEF ChatSpec

(***************************************************************************)
(* The steps of one ask leave the others, and what was saved, alone.         *)
(***************************************************************************)
LEMMA OthersStay ==
  ASSUME ChatTypeOK, NEW a \in Asks, ChatStep(a)
  PROVE  /\ \A b \in Asks \ {a} : asks'[b] = asks[b]
         /\ asks[a].at # "saved"
         /\ \A b \in Asks : asks[b].at = "saved" => asks'[b] = asks[b]
<1>1. \A b \in Asks \ {a} : asks'[b] = asks[b]
  BY DEF ChatStep, Ask, Answer, SaveRead, SaveCommit, AskFails, ChatTypeOK
<1>2. asks[a].at # "saved"
  BY DEF ChatStep, Ask, NewAsk, Answer, SaveRead, SaveCommit, AskFails, Asking
<1> QED
  BY <1>1, <1>2

\* A request carries a history if it has begun.
LEMMA HistoryIffBegun ==
  ASSUME ChatTypeOK, NEW a \in Asks
  PROVE  "given" \in DOMAIN asks[a] <=> asks[a].at \in Under
  BY DEF ChatTypeOK, Given, Under

\* What a row or a read holds are asks.
LEMMA TurnsAreAsks ==
  ASSUME ChatTypeOK
  PROVE  /\ \A c \in Conversations : rows[c] # NoRow => ToSet(rows[c].turns) \subseteq Asks
         /\ \A a \in Asks : asks[a].at \in Under =>
              ToSet(asks[a].read) \subseteq Asks /\ ToSet(asks[a].given) \subseteq Asks
  BY RowKinds, AskKinds DEF ToSet, Under

(***************************************************************************)
(* Everything but the commit of a save.                                     *)
(***************************************************************************)
LEMMA RowsOwnedStay ==
  ASSUME ChatInv, NEW a \in Asks, ChatStep(a), rows' = rows
  PROVE  RowsOwned'
  BY OthersStay, TurnsAreAsks DEF ChatInv, RowsOwned, SavedBy

LEMMA GivenOwnedStep ==
  ASSUME ChatInv, NEW a \in Asks, ChatStep(a)
  PROVE  GivenOwned'
<1> USE DEF ChatInv
<1> SUFFICES ASSUME NEW x \in Asks, asks'[x].at \in Under, NEW b \in ToSet(asks'[x].given)
             PROVE  asks'[b].at = "saved" /\ asks'[b].person = asks'[x].person
  BY DEF GivenOwned
<1>1. CASE x # a
  <2>1. asks'[x] = asks[x]
    BY <1>1, OthersStay
  <2>2. b \in Asks /\ asks[b].at = "saved" /\ asks[b].person = asks[x].person
    BY <2>1, TurnsAreAsks DEF GivenOwned
  <2> QED
    BY <2>1, <2>2, OthersStay
<1>2. ASSUME NEW p \in Persons, NEW c \in Conversations, x = a, Ask(a, p, c)
      PROVE  asks'[b].at = "saved" /\ asks'[b].person = asks'[x].person
  <2>1. ~(rows[c] # NoRow /\ rows[c].owner # p)
    BY <1>2 DEF Ask, Under, ChatTypeOK
  <2>2. asks'[a].person = p /\ asks'[a].given = LastTurns(TurnsOf(rows[c]))
    BY <1>2, <2>1 DEF Ask, ChatTypeOK
  <2>3. b \in ToSet(TurnsOf(rows[c]))
    BY <1>2, <2>2, RowKinds, LastTurnsOf
  <2>4. rows[c] # NoRow /\ b \in ToSet(rows[c].turns)
    BY <2>3 DEF TurnsOf, ToSet
  <2>5. b \in Asks /\ SavedBy(b, c, p)
    BY <2>1, <2>4, TurnsAreAsks DEF RowsOwned
  <2> QED
    BY <1>2, <2>2, <2>5, OthersStay DEF SavedBy
<1>3. CASE x = a /\ (Answer(a) \/ SaveRead(a) \/ SaveCommit(a) \/ AskFails(a))
  <2>1. asks[a].at \in Under
    BY <1>3 DEF Answer, SaveRead, SaveCommit, AskFails, Asking, Under
  <2>2. asks[a] \in Given(Under)
    BY <2>1, AskKinds
  <2>3. asks'[a].given = asks[a].given /\ asks'[a].person = asks[a].person
    <3>1. asks'[a].at \notin {"failed", "refused"}
      BY <1>3 DEF Under
    <3> HIDE DEF ChatInv
    <3>2. ChatTypeOK
      BY DEF ChatInv
    <3>3. CASE Answer(a)
      BY <2>2, <3>2, <3>3 DEF Answer, ChatTypeOK, Given
    <3>4. CASE SaveRead(a)
      BY <2>2, <3>1, <3>2, <3>4 DEF SaveRead, ChatTypeOK, Given
    <3>5. CASE SaveCommit(a)
      BY <2>2, <3>1, <3>2, <3>5 DEF SaveCommit, ChatTypeOK, Given
    <3>6. CASE AskFails(a)
      BY <3>1, <3>2, <3>6 DEF AskFails, ChatTypeOK
    <3> QED
      BY <1>3, <3>3, <3>4, <3>5, <3>6
  <2>4. b \in Asks /\ asks[b].at = "saved" /\ asks[b].person = asks[a].person
    BY <1>3, <2>1, <2>3, TurnsAreAsks DEF GivenOwned
  <2> QED
    BY <1>3, <2>3, <2>4, OthersStay
<1> QED
  BY <1>1, <1>2, <1>3 DEF ChatStep

\* A read is what the row holds at that time; the reads of the others are left alone.
LEMMA ReadStep ==
  ASSUME ChatInv, NEW a \in Asks, SaveRead(a)
  PROVE  ReadsOwned' /\ Settled'
<1> USE DEF ChatInv
<1> DEFINE c == asks[a].conversation
           p == asks[a].person
<1>0. /\ ChatStep(a) /\ rows' = rows /\ overlapped' = overlapped
      /\ asks[a] \in Given(Under) /\ c \in Conversations
  BY AskKinds DEF SaveRead, ChatStep, Under
<1>1. /\ asks'[a].at \in {"refused", "saving"}
      /\ asks'[a].at = "saving" => /\ Owns(p, rows[c]) /\ asks'[a].read = TurnsOf(rows[c])
                                   /\ asks'[a].conversation = c /\ asks'[a].person = p
  <2>1. CASE ~Owns(p, rows[c])
    <3>1. asks'[a] = [at |-> "refused"]
      BY <2>1 DEF SaveRead, ChatTypeOK
    <3> QED
      BY <3>1
  <2>2. CASE Owns(p, rows[c])
    <3> DEFINE r == [asks[a] EXCEPT !.at = "saving", !.read = TurnsOf(rows[c])]
    <3>1. asks'[a] = r
      BY <2>2 DEF SaveRead, ChatTypeOK
    <3>2. r.at = "saving" /\ r.read = TurnsOf(rows[c]) /\ r.conversation = c /\ r.person = p
      BY <1>0 DEF Given
    <3> HIDE DEF r
    <3> QED
      BY <2>2, <3>1, <3>2
  <2> QED
    BY <2>1, <2>2
<1>2. ASSUME asks'[a].at = "saving"
      PROVE  /\ Distinct(asks'[a].read)
             /\ \A b \in ToSet(asks'[a].read) : SavedBy(b, c, p)'
             /\ asks'[a].read # <<>> => rows[c] # NoRow /\ rows[c].owner = p
  <2>1. CASE rows[c] = NoRow
    BY <1>1, <1>2, <2>1 DEF TurnsOf, Distinct, ToSet
  <2>2. CASE rows[c] # NoRow
    <3>1. rows[c].owner = p /\ asks'[a].read = rows[c].turns
      BY <1>1, <1>2, <2>2 DEF Owns, TurnsOf
    <3>2. \A b \in ToSet(rows[c].turns) : b \in Asks /\ SavedBy(b, c, p)
      BY <1>0, <2>2, <3>1, TurnsAreAsks DEF RowsOwned
    <3>3. Distinct(rows[c].turns)
      BY <1>0, <2>2 DEF RowsOwned
    <3> QED
      BY <1>0, <1>1, <1>2, <2>2, <3>1, <3>2, <3>3, OthersStay DEF SavedBy
  <2> QED
    BY <2>1, <2>2
<1>3. ReadsOwned'
  <2> SUFFICES ASSUME NEW x \in Asks, asks'[x].at = "saving"
               PROVE  /\ Distinct(asks'[x].read)
                      /\ \A b \in ToSet(asks'[x].read) : SavedBy(b, asks[x].conversation, asks[x].person)'
                      /\ asks'[x].read # <<>> => /\ rows'[asks'[x].conversation] # NoRow
                                                 /\ rows'[asks'[x].conversation].owner = asks'[x].person
    BY DEF ReadsOwned
  <2>1. CASE x = a
    BY <1>0, <1>1, <1>2, <2>1 DEF SavedBy
  <2>2. CASE x # a
    <3>1. asks'[x] = asks[x] /\ ToSet(asks[x].read) \subseteq Asks
      BY <1>0, <2>2, OthersStay, TurnsAreAsks DEF Under
    <3> QED
      BY <1>0, <3>1, OthersStay DEF ReadsOwned, SavedBy
  <2> QED
    BY <2>1, <2>2
<1>4. Settled'
  <2> SUFFICES ASSUME NEW b \in Asks, asks'[b].at = "saved", b \notin overlapped
               PROVE  /\ rows[asks'[b].conversation] # NoRow
                      /\ b \in ToSet(rows[asks'[b].conversation].turns)
                      /\ \A x \in Asks : asks'[x].at = "saving" /\ asks'[x].conversation = asks'[b].conversation =>
                           b \in ToSet(asks'[x].read)
    BY <1>0 DEF Settled
  <2>1. b # a /\ asks'[b] = asks[b]
    BY <1>0, <1>1, OthersStay
  <2>2. /\ rows[asks[b].conversation] # NoRow
        /\ b \in ToSet(rows[asks[b].conversation].turns)
    BY <2>1 DEF Settled
  <2>3. ASSUME NEW x \in Asks, asks'[x].at = "saving", asks'[x].conversation = asks[b].conversation
        PROVE  b \in ToSet(asks'[x].read)
    <3>1. CASE x = a
      BY <1>1, <2>2, <2>3, <3>1 DEF TurnsOf
    <3>2. CASE x # a
      BY <1>0, <2>1, <2>3, <3>2, OthersStay DEF Settled
    <3> QED
      BY <3>1, <3>2
  <2> QED
    BY <2>1, <2>2, <2>3
<1> QED
  BY <1>3, <1>4

\* The steps that neither read nor write a row.
LEMMA QuietStep ==
  ASSUME ChatInv, NEW a \in Asks, ChatStep(a), UNCHANGED <<rows, overlapped>>,
         asks'[a].at \notin {"saving", "saved"}
  PROVE  ReadsOwned' /\ Settled'
<1> USE DEF ChatInv
<1>1. ReadsOwned'
  <2> SUFFICES ASSUME NEW x \in Asks, asks'[x].at = "saving"
               PROVE  /\ Distinct(asks'[x].read)
                      /\ \A b \in ToSet(asks'[x].read) : SavedBy(b, asks[x].conversation, asks[x].person)'
                      /\ asks'[x].read # <<>> => /\ rows'[asks'[x].conversation] # NoRow
                                                 /\ rows'[asks'[x].conversation].owner = asks'[x].person
    BY DEF ReadsOwned
  <2>1. asks'[x] = asks[x] /\ ToSet(asks[x].read) \subseteq Asks
    BY OthersStay, TurnsAreAsks DEF Under
  <2> QED
    BY <2>1, OthersStay DEF ReadsOwned, SavedBy
<1>2. Settled'
  BY OthersStay DEF Settled
<1> QED
  BY <1>1, <1>2

\* A save that writes: the row becomes what was read, and the turn after it.
LEMMA CommitStep ==
  ASSUME ChatInv, NEW a \in Asks, SaveCommit(a),
         ~(asks[a].read = <<>> /\ rows[asks[a].conversation] # NoRow)
  PROVE  RowsOwned' /\ ReadsOwned' /\ Settled'
<1> USE DEF ChatInv
<1> DEFINE c == asks[a].conversation
           p == asks[a].person
           read == asks[a].read
<1>0. /\ ChatStep(a) /\ asks[a].at = "saving" /\ asks[a] \in Given(Under)
      /\ c \in Conversations /\ p \in Persons /\ read \in Seq(Asks) /\ ToSet(read) \subseteq Asks
  BY AskKinds, TurnsAreAsks DEF SaveCommit, ChatStep, Under
<1>1. asks'[a].at = "saved" /\ asks'[a].conversation = c /\ asks'[a].person = p
  <2>1. asks' = [asks EXCEPT ![a] = [asks[a] EXCEPT !.at = "saved"]]
    BY DEF SaveCommit, ChatTypeOK
  <2> QED
    BY <1>0, <2>1 DEF ChatTypeOK, Given
<1>2. /\ rows'[c] = IF rows[c] = NoRow THEN [owner |-> p, turns |-> <<a>>]
                                       ELSE [rows[c] EXCEPT !.turns = Append(read, a)]
      /\ \A d \in Conversations \ {c} : rows'[d] = rows[d]
  BY <1>0 DEF SaveCommit, Updated, ChatTypeOK
<1>3. rows[c] = NoRow <=> read = <<>>
  BY <1>0 DEF ReadsOwned
<1>4. rows'[c] # NoRow /\ rows'[c].owner = p /\ rows'[c].turns = Append(read, a)
  <2>0. Row = [owner : Persons, turns : Seq(Asks)] /\ NoRow \notin Row
    BY ConversationAssumption DEF Row
  <2>1. CASE rows[c] = NoRow
    <3>1. Append(read, a) = <<a>>
      BY <1>3, <2>1, FirstTurn
    <3>2. rows'[c] = [owner |-> p, turns |-> <<a>>]
      BY <1>2, <2>1
    <3>3. [owner |-> p, turns |-> <<a>>] \in Row
      BY <1>0 DEF Row
    <3>4. rows'[c] # NoRow
      BY <2>0, <3>2, <3>3
    <3> QED
      BY <3>1, <3>2, <3>4
  <2>2. CASE rows[c] # NoRow
    <3>1. rows[c] \in Row /\ rows[c].owner = p
      BY <1>0, <1>3, <2>2 DEF ReadsOwned, ChatTypeOK, Row
    <3>2. [rows[c] EXCEPT !.turns = Append(read, a)] \in Row
      BY <1>0, <3>1, AppendTurn DEF Row
    <3>3. rows'[c] = [rows[c] EXCEPT !.turns = Append(read, a)]
      BY <1>2, <2>2
    <3> QED
      BY <2>0, <3>1, <3>2, <3>3 DEF Row
  <2> QED
    BY <2>1, <2>2
<1>5. /\ Distinct(Append(read, a)) /\ Append(read, a) # <<>>
      /\ ToSet(Append(read, a)) = ToSet(read) \cup {a}
      /\ \A b \in ToSet(read) : SavedBy(b, c, p)
  <2>1. Distinct(read) /\ (\A b \in ToSet(read) : SavedBy(b, c, p))
    BY <1>0 DEF ReadsOwned
  <2>2. a \notin ToSet(read)
    BY <1>0, <2>1 DEF SavedBy
  <2> QED
    BY <1>0, <2>1, <2>2, AppendTurn
<1>6. RowsOwned'
  <2> SUFFICES ASSUME NEW d \in Conversations, rows'[d] # NoRow
               PROVE  /\ rows'[d].turns # <<>> /\ Distinct(rows'[d].turns)
                      /\ \A b \in ToSet(rows'[d].turns) : asks'[b].at = "saved" /\ asks'[b].conversation = d
                                                          /\ asks'[b].person = rows'[d].owner
    BY DEF RowsOwned, SavedBy
  <2>1. CASE d = c
    <3>1. \A b \in ToSet(read) : b \in Asks /\ asks'[b] = asks[b]
      BY <1>0, <1>5, OthersStay DEF SavedBy
    <3>2. \A b \in ToSet(read) \cup {a} : asks'[b].at = "saved" /\ asks'[b].conversation = c /\ asks'[b].person = p
      BY <1>1, <1>5, <3>1 DEF SavedBy
    <3> QED
      BY <1>4, <1>5, <2>1, <3>2
  <2>2. CASE d # c
    <3>1. rows'[d] = rows[d] /\ ToSet(rows[d].turns) \subseteq Asks
      BY <1>2, <2>2, TurnsAreAsks
    <3> QED
      BY <1>0, <3>1, OthersStay DEF RowsOwned, SavedBy
  <2> QED
    BY <2>1, <2>2
<1>7. ReadsOwned'
  <2> SUFFICES ASSUME NEW x \in Asks, asks'[x].at = "saving"
               PROVE  /\ Distinct(asks'[x].read)
                      /\ \A b \in ToSet(asks'[x].read) :
                           asks'[b].at = "saved" /\ asks'[b].conversation = asks'[x].conversation
                           /\ asks'[b].person = asks'[x].person
                      /\ asks'[x].read # <<>> => /\ rows'[asks'[x].conversation] # NoRow
                                                 /\ rows'[asks'[x].conversation].owner = asks'[x].person
    BY DEF ReadsOwned, SavedBy
  <2>1. x # a /\ asks'[x] = asks[x] /\ ToSet(asks[x].read) \subseteq Asks /\ asks[x].conversation \in Conversations
    BY <1>0, <1>1, OthersStay, TurnsAreAsks, AskKinds DEF Under
  <2>2. ASSUME asks[x].read # <<>>
        PROVE  /\ rows'[asks[x].conversation] # NoRow
               /\ rows'[asks[x].conversation].owner = asks[x].person
    <3>1. rows[asks[x].conversation] # NoRow /\ rows[asks[x].conversation].owner = asks[x].person
      BY <2>1, <2>2 DEF ReadsOwned
    <3>2. rows[c] # NoRow => rows[c].owner = p
      BY <1>0, <1>3 DEF ReadsOwned
    <3> QED
      BY <1>2, <1>4, <2>1, <3>1, <3>2
  <2> QED
    BY <1>0, <2>1, <2>2, OthersStay DEF ReadsOwned, SavedBy
<1>8. Settled'
  <2> SUFFICES ASSUME NEW b \in Asks, asks'[b].at = "saved", b \notin overlapped'
               PROVE  /\ rows'[asks'[b].conversation] # NoRow
                      /\ b \in ToSet(rows'[asks'[b].conversation].turns)
                      /\ \A x \in Asks : asks'[x].at = "saving" /\ asks'[x].conversation = asks'[b].conversation =>
                           b \in ToSet(asks'[x].read)
    BY DEF Settled
  <2>1. CASE b = a
    <3>1. SavingWith(a) = {}
      BY <2>1 DEF SaveCommit
    <3>2. \A x \in Asks : ~(asks'[x].at = "saving" /\ asks'[x].conversation = c)
      BY <1>0, <1>1, <3>1, OthersStay DEF SavingWith
    <3> QED
      BY <1>1, <1>4, <1>5, <2>1, <3>2
  <2>2. CASE b # a
    <3>1. asks'[b] = asks[b] /\ asks[b].at = "saved" /\ b \notin overlapped
      BY <1>0, <2>2, OthersStay DEF SaveCommit
    <3>2. asks[b].conversation \in Conversations
      BY <3>1, AskKinds DEF Under
    <3>3. rows'[asks[b].conversation] # NoRow /\ b \in ToSet(rows'[asks[b].conversation].turns)
      <4>1. CASE asks[b].conversation = c
        <5>1. b \in ToSet(read)
          BY <1>0, <3>1, <4>1 DEF Settled
        <5> QED
          BY <1>4, <1>5, <4>1, <5>1
      <4>2. CASE asks[b].conversation # c
        BY <1>2, <3>1, <3>2, <4>2 DEF Settled
      <4> QED
        BY <4>1, <4>2
    <3>4. \A x \in Asks : asks'[x].at = "saving" => x # a /\ asks'[x] = asks[x]
      BY <1>0, <1>1, OthersStay
    <3> QED
      BY <3>1, <3>3, <3>4 DEF Settled
  <2> QED
    BY <2>1, <2>2
<1> QED
  BY <1>6, <1>7, <1>8

(***************************************************************************)
(* The invariant and what follows from it.                                  *)
(***************************************************************************)
LEMMA ChatInvStep ==
  ASSUME ChatInv, [ChatNext]_chatVars
  PROVE  ChatInv'
<1>1. CASE UNCHANGED chatVars
  BY <1>1 DEF chatVars, ChatInv, ChatTypeOK, RowsOwned, ReadsOwned, GivenOwned, Settled, SavedBy
<1>2. ASSUME NEW a \in Asks, ChatStep(a) PROVE ChatInv'
  <2>1. ChatTypeOK' /\ GivenOwned'
    BY <1>2, ChatTypedStep, GivenOwnedStep DEF ChatInv
  <2>2. CASE SaveRead(a)
    <3>1. rows' = rows
      BY <2>2 DEF SaveRead
    <3> QED
      BY <1>2, <2>1, <2>2, <3>1, ReadStep, RowsOwnedStay DEF ChatInv
  <2>3. CASE SaveCommit(a) /\ ~(asks[a].read = <<>> /\ rows[asks[a].conversation] # NoRow)
    BY <2>1, <2>3, CommitStep DEF ChatInv
  <2>4. CASE /\ UNCHANGED <<rows, overlapped>>
             /\ asks'[a].at \notin {"saving", "saved"}
    BY <1>2, <2>1, <2>4, QuietStep, RowsOwnedStay DEF ChatInv
  <2>5. ASSUME NEW p \in Persons, NEW c \in Conversations, Ask(a, p, c)
        PROVE  UNCHANGED <<rows, overlapped>> /\ asks'[a].at \notin {"saving", "saved"}
    BY <2>5 DEF Ask, ChatInv, ChatTypeOK
  <2>6. ASSUME Answer(a)
        PROVE  UNCHANGED <<rows, overlapped>> /\ asks'[a].at \notin {"saving", "saved"}
    <3>1. asks[a] \in Given(Under)
      BY <2>6, AskKinds DEF Answer, Under, ChatInv
    <3> QED
      BY <2>6, <3>1 DEF Answer, ChatInv, ChatTypeOK, Given
  <2>7. ASSUME \/ AskFails(a)
               \/ SaveCommit(a) /\ asks[a].read = <<>> /\ rows[asks[a].conversation] # NoRow
        PROVE  UNCHANGED <<rows, overlapped>> /\ asks'[a].at \notin {"saving", "saved"}
    <3>1. asks' = [asks EXCEPT ![a] = [at |-> "failed"]] /\ UNCHANGED <<rows, overlapped>>
      BY <2>7 DEF AskFails, SaveCommit
    <3> QED
      BY <3>1 DEF ChatInv, ChatTypeOK
  <2> QED
    BY <1>2, <2>2, <2>3, <2>4, <2>5, <2>6, <2>7 DEF ChatStep
<1> QED
  BY <1>1, <1>2 DEF ChatNext

\* The invariant behind the next two: whatever a row, a save under way or an answer holds
\* was saved by the person it belongs to (save_turn, get_history).
THEOREM ChatSound == ChatSpec => []ChatInv
<1>1. ChatInit => ChatInv
  <2>1. ChatInit => RowsOwned /\ ReadsOwned /\ GivenOwned /\ Settled
    BY DEF ChatInit, RowsOwned, ReadsOwned, GivenOwned, Settled, NewAsk, Under
  <2> QED
    BY <2>1, ChatTypedInit DEF ChatInv
<1>2. ChatInv /\ [ChatNext]_chatVars => ChatInv'
  BY ChatInvStep
<1> QED
  BY <1>1, <1>2, PTL DEF ChatSpec

\* For every number of persons who ask in one conversation together, it is one person's,
\* and nobody is given a turn of another one (get_history, save_turn).
THEOREM ApartSafe == ChatSpec => []ConversationsApart
<1>1. ASSUME ChatInv PROVE ConversationsApart
  <2> USE <1>1 DEF ChatInv
  <2>1. ASSUME NEW c \in Conversations, NEW a \in Asks, rows[c] # NoRow, a \in ToSet(rows[c].turns)
        PROVE  asks[a].person = rows[c].owner
    BY <2>1 DEF RowsOwned, SavedBy
  <2>2. ASSUME NEW a \in Asks, "given" \in DOMAIN asks[a], NEW b \in ToSet(asks[a].given)
        PROVE  asks[b].person = asks[a].person
    BY <2>2, HistoryIffBegun DEF GivenOwned
  <2> QED
    BY <2>1, <2>2 DEF ConversationsApart
<1> QED
  BY <1>1, ChatSound, PTL

\* For every number of asks under way in one conversation, a turn that was saved stays
\* in it, once, unless another save had read the row before it (save_turn).
THEOREM KeptSafe == ChatSpec => []TurnsKept
<1>1. ASSUME ChatInv PROVE TurnsKept
  <2> USE <1>1 DEF ChatInv
  <2> SUFFICES ASSUME NEW a \in Asks, asks[a].at = "saved", a \notin overlapped
               PROVE  LET turns == rows[asks[a].conversation].turns IN
                      Cardinality({i \in DOMAIN turns : turns[i] = a}) = 1
    BY DEF TurnsKept
  <2> DEFINE turns == rows[asks[a].conversation].turns
  <2>1. asks[a].conversation \in Conversations
    BY AskKinds DEF Under
  <2>2. Distinct(turns) /\ a \in ToSet(turns)
    BY <2>1 DEF Settled, RowsOwned
  <2> HIDE DEF turns
  <2>3. PICK i \in DOMAIN turns : turns[i] = a
    BY <2>2 DEF ToSet
  <2>4. {j \in DOMAIN turns : turns[j] = a} = {i}
    BY <2>2, <2>3 DEF Distinct
  <2>5. Cardinality({j \in DOMAIN turns : turns[j] = a}) = 1
    BY <2>4, FS_Singleton
  <2> QED
    BY <2>5 DEF turns
<1> QED
  BY <1>1, ChatSound, PTL
=============================================================================
