---------------------------- MODULE Conversations ----------------------------
(***************************************************************************)
(* The conversations with the assistant: what the chat endpoints of the AI    *)
(* service read before an answer and save after it                           *)
(* (ai_service/routers/compliance.py, rag/generation/conversation.py).       *)
(*                                                                         *)
(* The model call lies between the two, and the proxy of the backend gives up  *)
(* on it after 45 seconds while it goes on: a person may have several asks    *)
(* of one conversation under way.  A turn is named by its ask.               *)
(***************************************************************************)
EXTENDS Naturals, FiniteSets, Sequences, SequencesExt

CONSTANTS Persons,          \* users with their institution
          Conversations,    \* conversation_id
          Asks,             \* requests, each used once
          HistoryTurns,     \* the turns in `limit` messages
          NoRow

ASSUME ConversationAssumption ==
  HistoryTurns \in Nat \ {0} /\ NoRow \notin [owner : Persons, turns : Seq(Asks)]

VARIABLES rows,             \* ai_conversations
          asks,             \* the requests
          overlapped        \* history: turns saved while another save had read the row

chatVars == <<rows, asks, overlapped>>

NewAsk == [at |-> "new"]
Asking(a) == asks[a].at \in {"thinking", "answered", "saving"}
TurnsOf(row) == IF row = NoRow THEN <<>> ELSE row.turns

\* `messages[-limit:]`
LastTurns(turns) ==
  IF Len(turns) <= HistoryTurns THEN turns
  ELSE SubSeq(turns, Len(turns) - HistoryTurns + 1, Len(turns))

\* Variant: whoever knows the conversation may write to it.
Knows(p, row) == TRUE

Owns(p, row) == row = NoRow \/ row.owner = p

(***************************************************************************)
(* The endpoint up to the call of the model                                 *)
(***************************************************************************)
Ask(a, p, c) ==
  /\ asks[a] = NewAsk
  /\ asks' = [asks EXCEPT ![a] =
       IF rows[c] # NoRow /\ rows[c].owner # p
       THEN [at |-> "refused"]
       ELSE [at |-> "thinking", person |-> p, conversation |-> c,
             given |-> LastTurns(TurnsOf(rows[c])), read |-> <<>>]]
  /\ UNCHANGED <<rows, overlapped>>

\* Refusals, blocked and uncovered questions and the fallback are answers as well, and
\* are saved; only an empty text is not.
Answer(a) ==
  /\ asks[a].at = "thinking"
  /\ \E next \in {"answered", "done"} : asks' = [asks EXCEPT ![a].at = next]
  /\ UNCHANGED <<rows, overlapped>>

(***************************************************************************)
(* save_turn                                                               *)
(***************************************************************************)
\* Another person may have saved under the identifier since it was free.
SaveRead(a) ==
  /\ asks[a].at = "answered"
  /\ LET row == rows[asks[a].conversation] IN
     asks' = [asks EXCEPT ![a] =
       IF Owns(asks[a].person, row) THEN [@ EXCEPT !.at = "saving", !.read = TurnsOf(row)]
                                    ELSE [at |-> "refused"]]
  /\ UNCHANGED <<rows, overlapped>>

\* Variant: the turn is added to the history that was given to the model.
OntoGiven(a) == Append(asks[a].given, a)

Updated(a) == Append(asks[a].read, a)

SavingWith(a) == {b \in Asks \ {a} : asks[b].at = "saving" /\ asks[b].conversation = asks[a].conversation}

\* The UPDATE replaces the whole column; the INSERT of a second row fails on the key.
SaveCommit(a) ==
  /\ asks[a].at = "saving"
  /\ LET c == asks[a].conversation IN
     IF asks[a].read = <<>> /\ rows[c] # NoRow
     THEN asks' = [asks EXCEPT ![a] = [at |-> "failed"]] /\ UNCHANGED <<rows, overlapped>>
     ELSE /\ rows' = [rows EXCEPT ![c] =
                 IF @ = NoRow THEN [owner |-> asks[a].person, turns |-> <<a>>]
                              ELSE [@ EXCEPT !.turns = Updated(a)]]
          /\ asks' = [asks EXCEPT ![a].at = "saved"]
          /\ overlapped' = IF SavingWith(a) = {} THEN overlapped ELSE overlapped \cup {a}

\* The service is stopped, or an exception: the request ends, and what it did not
\* commit is gone.
AskFails(a) ==
  /\ Asking(a)
  /\ asks' = [asks EXCEPT ![a] = [at |-> "failed"]]
  /\ UNCHANGED <<rows, overlapped>>

ChatStep(a) ==
  \/ \E p \in Persons, c \in Conversations : Ask(a, p, c)
  \/ Answer(a)
  \/ SaveRead(a)
  \/ SaveCommit(a)
  \/ AskFails(a)

ChatInit ==
  /\ rows = [c \in Conversations |-> NoRow]
  /\ asks = [a \in Asks |-> NewAsk]
  /\ overlapped = {}

ChatNext == \E a \in Asks : ChatStep(a)

ChatSpec == ChatInit /\ [][ChatNext]_chatVars

Given(at) == [at : at, person : Persons, conversation : Conversations,
              given : Seq(Asks), read : Seq(Asks)]

ChatTypeOK ==
  /\ rows \in [Conversations -> {NoRow} \cup [owner : Persons, turns : Seq(Asks)]]
  /\ asks \in [Asks -> [at : {"new", "refused", "failed"}]
                       \cup Given({"thinking", "answered", "saving", "saved", "done"})]
  /\ overlapped \subseteq Asks

(***************************************************************************)
(* Properties                                                              *)
(***************************************************************************)
\* A turn that was saved stays in its conversation, once, whatever is asked after it;
\* only a save that had read the row before it was written can remove it (save_turn).
TurnsKept ==
  \A a \in Asks : asks[a].at = "saved" =>
    \/ a \in overlapped
    \/ LET turns == rows[asks[a].conversation].turns IN
       Cardinality({i \in DOMAIN turns : turns[i] = a}) = 1

\* A conversation holds turns of its owner only, and a person is given no turn of
\* another one, also when two of them start it together (get_history, save_turn).
ConversationsApart ==
  \A c \in Conversations, a \in Asks :
    /\ rows[c] # NoRow /\ a \in ToSet(rows[c].turns) => asks[a].person = rows[c].owner
    /\ "given" \in DOMAIN asks[a] =>
         \A b \in ToSet(asks[a].given) : asks[b].person = asks[a].person
=============================================================================
