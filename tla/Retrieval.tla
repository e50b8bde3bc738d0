------------------------------ MODULE Retrieval ------------------------------
(***************************************************************************)
(* What an agent of the AI service answers from (agents/base.py): the filter  *)
(* of the two rankings (rag/retrieval/hybrid_retriever.py), their fusion      *)
(* (rrf.py), the sections the found ones refer to (cross_reference.py), the   *)
(* context under its budget (context_builder.py), and how the answer ends.    *)
(*                                                                         *)
(* The rankings are what FAISS and BM25 return for some question: any.  How    *)
(* the filter compares two names of frameworks is a relation, `Matches`.      *)
(***************************************************************************)
EXTENDS Naturals, FiniteSets, Sequences, SequencesExt

CONSTANTS Corpus,           \* the chunks, in the order of the index
          Of,               \* what a chunk says of itself
          Everyone,         \* the institution of the regulatory chunks
          NoSection,        \* the section_id of an upload
          Institutions,
          RoleFrameworks,   \* ROLE_FRAMEWORKS
          NoFramework,      \* the name a chunk has that has none: empty
          Matches,          \* the pairs of a chunk's name and a role's of which one is
                            \* in the other, or the role's first word in the chunk's
          EndpointRoles,    \* ENDPOINT_ROLE_PERMISSIONS of the endpoint asked
          Candidates,       \* top_k
          Limit,            \* limit of retrieve
          RankOffset        \* k of the fusion

Chunks == ToSet(Corpus)
Roles == DOMAIN RoleFrameworks

\* The chunks of an upload have neither a section nor references (index_builder.py,
\* 192-199), and those of the frameworks belong to nobody.
ASSUME RetrievalAssumption ==
  /\ Candidates \in Nat /\ Limit \in Nat /\ RankOffset \in Nat
  /\ Roles # {} /\ Institutions # {}
  /\ Corpus \in Seq(Chunks)
  /\ \A c \in Chunks : /\ Of[c].refs \in Seq(ToSet(Of[c].refs))
                       /\ Of[c].institution # Everyone =>
                            Of[c].section = NoSection /\ Of[c].refs = <<>>

VARIABLES asker,            \* role and institution
          dense, sparse,    \* the two rankings
          stage,            \* how far the question has come
          primary,          \* what retrieve returned
          context           \* what the model is given

retrievalVars == <<asker, dense, sparse, stage, primary, context>>

\* A chunk without a framework is everyone's; a role without frameworks is not restricted.
InFrameworks(c) ==
  \/ Of[c].framework = NoFramework
  \/ RoleFrameworks[asker.role] = {}
  \/ \E p \in RoleFrameworks[asker.role] : <<Of[c].framework, p>> \in Matches

Permitted(c) ==
  IF Of[c].institution # Everyone
  THEN Of[c].institution = asker.institution
  ELSE InFrameworks(c)

\* The members of a finite set, sorted by an order that is given by its pairs.
Arranged(S, before) ==
  [n \in 1..Cardinality(S) |->
     CHOOSE x \in S : Cardinality({y \in S : <<y, x>> \in before}) = n - 1]

\* The results that _is_permitted leaves, in their order.
Filtered(ranking) ==
  LET kept == {i \in DOMAIN ranking : Permitted(ranking[i])}
      at == Arranged(kept, {p \in kept \X kept : p[1] < p[2]})
  IN [n \in DOMAIN at |-> ranking[at[n]]]

(***************************************************************************)
(* ReciprocalRankFusion                                                    *)
(***************************************************************************)
\* `head` stands for the index of the chunk in its section, and its first 50 characters.
Key(c) == <<Of[c].framework, Of[c].section, Of[c].head>>

\* 1 / (RankOffset + rank), times a number that all of them divide.
Scale ==
  LET product[r \in 0..Candidates] ==
        IF r = 0 THEN 1 ELSE product[r - 1] * (RankOffset + r)
  IN product[Candidates]
Gain(rank) == Scale \div (RankOffset + rank)

Weight(ranking, k) ==
  LET upto[i \in 0..Len(ranking)] ==
        IF i = 0 THEN 0 ELSE upto[i - 1] + IF Key(ranking[i]) = k THEN Gain(i) ELSE 0
  IN upto[Len(ranking)]

\* Variant: the rank in the second ranking replaces the score.
LastScore(first, second, k) ==
  IF Weight(second, k) > 0 THEN Weight(second, k) ELSE Weight(first, k)

Score(first, second, k) == Weight(first, k) + Weight(second, k)

\* Where each key is found first; of the chunks with a key, the last stands for it.
Leads(found) == {i \in DOMAIN found : \A j \in 1..(i - 1) : Key(found[j]) # Key(found[i])}
Bearer(found, k) == found[Max({i \in DOMAIN found : Key(found[i]) = k})]

\* The keys sorted by their score; equal scores stay in the order of their discovery.
MergeRankings(first, second) ==
  LET found == first \o second
      leads == Leads(found)
      score == [i \in leads |-> Score(first, second, Key(found[i]))]
      above == {p \in leads \X leads : \/ score[p[1]] > score[p[2]]
                                       \/ score[p[1]] = score[p[2]] /\ p[1] < p[2]}
      order == Arranged(leads, above)
  IN [n \in DOMAIN order |-> Bearer(found, Key(found[order[n]]))]

\* Variant: only the dense ranking is filtered.
DenseFiltered == MergeRankings(Filtered(dense), sparse)

Merged == MergeRankings(Filtered(dense), Filtered(sparse))

Retrieved == LET all == Merged IN
             SubSeq(all, 1, IF Len(all) < Limit THEN Len(all) ELSE Limit)

(***************************************************************************)
(* CrossReferenceInjector                                                  *)
(***************************************************************************)
\* The map of the sections holds the last chunk of each, of the whole corpus and not
\* filtered; the chunks of uploads have no section.
Sections(framework, id) ==
  {i \in DOMAIN Corpus : /\ Of[Corpus[i]].framework = framework
                         /\ Of[Corpus[i]].section = id /\ id # NoSection}
Section(framework, id) == Corpus[Max(Sections(framework, id))]

\* The references that the map knows, as chunk and place in its list, and their order.
Mentions(chunks) ==
  {m \in UNION {{i} \X DOMAIN Of[chunks[i]].refs : i \in DOMAIN chunks} :
     Sections(Of[chunks[m[1]]].framework, Of[chunks[m[1]]].refs[m[2]]) # {}}
Mentioned(chunks, m) == Section(Of[chunks[m[1]]].framework, Of[chunks[m[1]]].refs[m[2]])
ReadingOrder(mentions) ==
  {p \in mentions \X mentions : \/ p[1][1] < p[2][1]
                                \/ p[1][1] = p[2][1] /\ p[1][2] < p[2][2]}

\* The mentions that are the first of their section, in order.
FirstMentions(chunks) ==
  LET order == ReadingOrder(Mentions(chunks))
      Again(m) == \E p \in order : p[2] = m /\ Mentioned(chunks, p[1]) = Mentioned(chunks, m)
  IN Arranged({m \in Mentions(chunks) : ~Again(m)}, order)

\* Variant: as many as there are.
AllReferences(chunks) ==
  LET all == FirstMentions(chunks)
  IN [n \in DOMAIN all |-> Mentioned(chunks, all[n])]

\* Two at most, each once.
Secondary(chunks) ==
  LET all == FirstMentions(chunks)
  IN [n \in 1..Min({2, Len(all)}) |-> Mentioned(chunks, all[n])]

(***************************************************************************)
(* BaseAgent.execute                                                       *)
(***************************************************************************)
VerifyRoleAccess == asker.role \in EndpointRoles

\* What the budget leaves: secondary sections are dropped from the end until it is met.
Contexts(primaries, secondaries) ==
  {primaries \o SubSeq(secondaries, 1, n) : n \in 0..Len(secondaries)}

\* Up to the call of the model nothing is awaited.  The sanitizer may block any question.
Retrieve ==
  /\ stage = "asked"
  /\ \/ stage' = "refused" /\ UNCHANGED <<primary, context>>
     \/ /\ VerifyRoleAccess
        /\ primary' = Retrieved
        /\ stage' = IF primary' = <<>> THEN "not covered" ELSE "answering"
        /\ context' \in Contexts(primary', Secondary(primary'))
  /\ UNCHANGED <<asker, dense, sparse>>

Rankings(n) == {s \in [1..n -> Chunks] : IsInjective(s)}

\* FAISS returns as many as there are, BM25 those that share a word with the question.
RetrievalInit ==
  /\ asker \in [role : Roles, institution : Institutions]
  /\ dense \in Rankings(Candidates)
  /\ sparse \in UNION {Rankings(n) : n \in 0..Candidates}
  /\ stage = "asked" /\ primary = <<>> /\ context = <<>>

RetrievalSpec == RetrievalInit /\ [][Retrieve]_retrievalVars

RetrievalTypeOK ==
  /\ asker \in [role : Roles, institution : Institutions]
  /\ ToSet(dense) \cup ToSet(sparse) \cup ToSet(primary) \cup ToSet(context) \subseteq Chunks
  /\ Len(primary) <= Limit /\ Len(context) <= Limit + 2
  /\ stage \in {"asked", "answering", "refused", "not covered"}

(***************************************************************************)
(* Properties                                                              *)
(***************************************************************************)
\* Nothing of another institution, or of a framework the role has not, reaches the
\* model: not by either ranking, nor by a key that two chunks share, nor by a reference
\* of a permitted section, which is not filtered (retrieve, inject_references).
NoForeignChunks ==
  \A c \in ToSet(context) :
    /\ Of[c].institution \in {Everyone, asker.institution}
    /\ Of[c].institution = Everyone /\ RoleFrameworks[asker.role] # {}
       /\ Of[c].framework # NoFramework =>
         \E p \in RoleFrameworks[asker.role] : <<Of[c].framework, p>> \in Matches

Rank(ranking, c) ==
  IF c \in ToSet(ranking) THEN CHOOSE i \in DOMAIN ranking : ranking[i] = c
  ELSE Candidates + 1

\* A permitted chunk that one ranking puts before another, and the other ranking not
\* after it, is returned before it, and no chunk is returned twice; but for chunks
\* that share their key (merge_rankings).
FusionRespectsRankings ==
  \A j \in DOMAIN primary, c \in Chunks :
    LET d == primary[j]
        alone == \A e \in Chunks : (e = c \/ Key(e) # Key(c)) /\ (e = d \/ Key(e) # Key(d))
    IN /\ \A i \in 1..(j - 1) : primary[i] # d
       /\ /\ c # d /\ alone /\ Permitted(c)
          /\ Rank(dense, c) <= Rank(dense, d) /\ Rank(sparse, c) <= Rank(sparse, d)
          => \E i \in 1..(j - 1) : primary[i] = c
=============================================================================
