----------------------------- MODULE IndexStore -----------------------------
(***************************************************************************)
(* The search index of the AI service: the rebuild pipeline                  *)
(* (rag/indexing/index_builder.py), the files of FAISS and BM25              *)
(* (faiss_store.py, bm25_store.py), the retriever that loads them            *)
(* (rag/retrieval/hybrid_retriever.py), the startup (main.py) and            *)
(* POST /admin/reindex (routers/admin.py).                                   *)
(*                                                                         *)
(* One process runs one event loop: what a task does between two awaits is    *)
(* one step, unless the process is killed in it.  Writing the files has no     *)
(* await, so it is a sequence of steps in which `running` holds the loop.      *)
(***************************************************************************)
EXTENDS Naturals

CONSTANTS Base,         \* the regulatory documents of the knowledge base
          Uploads,      \* the documents of tenants, in MongoDB
          Reindexers,   \* the requests to rebuild
          Startup,      \* the rebuild of a cold start
          Nobody, Nothing, Torn, Damaged, Mixed

ASSUME IndexAssumption ==
  /\ Startup \notin Reindexers /\ Nobody \notin Reindexers \cup {Startup}
  /\ \A s \in SUBSET (Base \cup Uploads) : s \notin {Nothing, Torn, Damaged, Mixed}
  /\ Torn # Nothing /\ Damaged \notin {Nothing, Torn} /\ Mixed \notin {Nothing, Torn, Damaged}

VARIABLES documents,    \* the documents there are; none is ever removed
          postgres,     \* whether the audit log can be written
          files,        \* a snapshot of the documents, Nothing or Torn
          memory,       \* the retriever's copy, as far as it is used
          loaded,       \* HybridRetriever._loaded
          unread,       \* whether the last load failed over a file that is whole
          ready,        \* main._index_ready
          process,      \* "down", "starting" or "up"
          build,        \* the rebuilds under way
          running,      \* the rebuild that holds the event loop
          torn,         \* history: writing was cut short since
          due           \* history: what a rebuild that nothing disturbed has found

indexVars == <<documents, postgres, files, memory, loaded, unread, ready, process, build,
               running, torn, due>>
historyVars == <<torn, due>>

Parts == {"items", "vectors", "sparse"}
Builders == Reindexers \cup {Startup}
Resting == [at |-> "resting", read |-> {}, owes |-> {}]
UnderWay == {b \in Builders : build[b] # Resting}
LoopFree == running = Nobody

Upload(d) ==
  /\ d \in Uploads \ documents
  /\ documents' = documents \cup {d}
  /\ UNCHANGED <<postgres, files, memory, loaded, unread, ready, process, build, running, historyVars>>

IsBuilt == files["vectors"] # Nothing /\ files["items"] # Nothing

(***************************************************************************)
(* reload_indices: the parts in their order, up to the first that fails to    *)
(* load; the exception is swallowed.  A missing index.faiss only warns.  A    *)
(* file may also be whole and fail to be read (`fault`).  What a load that    *)
(* fails leaves in memory is not used: retrieve returns nothing, and the next *)
(* load that does not fail replaces it.                                      *)
(***************************************************************************)
Found(part) == files[part] \notin {Nothing, Torn}
Loads(fault) ==
  ~fault /\ Found("items") /\ Found("sparse") /\ files["vectors"] # Torn

\* Variant: the copy of BM25 in memory is not replaced.
RefreshesFaiss(part) == Found(part) /\ (part = "sparse" => memory[part] = Nothing)

Refreshes(part) == Found(part)

Replaced(part) == IF Refreshes(part) THEN files[part] ELSE memory[part]

LoadParts ==
  \E fault \in BOOLEAN :
    /\ fault => \E part \in Parts : Found(part)
    /\ memory' = [part \in Parts |-> IF Loads(fault) THEN Replaced(part) ELSE Nothing]
    /\ loaded' = Loads(fault)
    /\ unread' = fault

\* Variant: what is in memory already is not loaded again.
ReloadOnce == IF loaded THEN UNCHANGED <<memory, loaded, unread>> ELSE LoadParts

\* Variant: the indices are not loaded.
NotReloaded == UNCHANGED <<memory, loaded, unread>>

ReloadIndices == LoadParts

(***************************************************************************)
(* run_reindex_pipeline                                                    *)
(***************************************************************************)
\* The markdown files are read before the first await; one that cannot be read, or
\* downloaded, is logged and left out.  A rebuild owes what is there at its start and can
\* be read, and nothing if it is disturbed.
Begin(b) ==
  \E found \in SUBSET (documents \cap Base) :
    build' = [c \in Builders |->
      CASE c = b                -> [at |-> "reading", read |-> found,
                                    owes |-> IF UnderWay = {} THEN documents ELSE {}]
        [] c \in UnderWay \ {b} -> [build[c] EXCEPT !.owes = {}]
        [] OTHER                -> Resting]

\* What follows the pipeline in lifespan and trigger_reindex: ready is set whether or
\* not anything was loaded.
Concluded(b) ==
  /\ ReloadIndices
  /\ ready' = TRUE /\ process' = "up"
  /\ build' = [build EXCEPT ![b] = Resting]

\* What the cursor finds; if MongoDB fails on the way, the rebuild goes on with what it
\* got.  Writing begins without another await; without any document nothing is written,
\* and the old files are loaded again.
IngestMongoDocuments(b) ==
  /\ LoopFree /\ build[b].at = "reading"
  /\ \E found \in SUBSET (documents \cap Uploads) :
       LET read == build[b].read \cup found IN
       IF read = {}
       THEN Concluded(b) /\ UNCHANGED running
       ELSE /\ build' = [build EXCEPT ![b] =
                 [at |-> "items", read |-> read, owes |-> @.owes \cap read]]
            /\ running' = b
            /\ UNCHANGED <<memory, loaded, unread, ready, process>>
  /\ UNCHANGED <<documents, postgres, files, historyVars>>

WriteFaiss(b, part, next) ==
  /\ running = b /\ build[b].at = part
  /\ files' = [files EXCEPT ![part] = build[b].read]
  /\ build' = [build EXCEPT ![b].at = next]
  /\ UNCHANGED <<documents, postgres, memory, loaded, unread, ready, process, running, historyVars>>

WriteBm25(b) ==
  /\ running = b /\ build[b].at = "sparse"
  /\ files' = [files EXCEPT !["sparse"] = build[b].read]
  /\ build' = [build EXCEPT ![b].at = "logging"]
  /\ running' = Nobody
  /\ torn' = FALSE
  /\ due' = due \cap build[b].owes
  /\ UNCHANGED <<documents, postgres, memory, loaded, unread, ready, process>>

\* Variant: a rebuild ends only if its audit log is written.
LogWritten == postgres

\* _write_audit_log swallows its failure.
LogTried == TRUE

FinishReindex(b) ==
  /\ LoopFree
  /\ build[b].at = "logging" /\ LogTried
  /\ Concluded(b)
  /\ due' = due \cup build[b].owes
  /\ UNCHANGED <<documents, postgres, files, running, torn>>

\* What is under way in a file when the writing stops.
CutShort(part) ==
  /\ files' \in {files, [files EXCEPT ![part] = Torn]}
  /\ torn' = TRUE /\ due' = {}

\* An exception while embedding, before anything is written, or while writing.  A
\* cold start that fails leaves the service up, and not ready.
ReindexFails(b) ==
  /\ build[b] # Resting
  /\ \/ LoopFree /\ build[b].at = "reading" /\ UNCHANGED <<files, torn, due>>
     \/ running = b /\ CutShort(build[b].at)
  /\ build' = [build EXCEPT ![b] = Resting]
  /\ running' = Nobody /\ process' = "up"
  /\ UNCHANGED <<documents, postgres, memory, loaded, unread, ready>>

Reindex(b) ==
  /\ LoopFree /\ process = "up"
  /\ build[b] = Resting
  /\ Begin(b)
  /\ UNCHANGED <<documents, postgres, files, memory, loaded, unread, ready, process, running, historyVars>>

\* lifespan: no request is served before it has ended.
StartUp ==
  /\ process = "down"
  /\ IF IsBuilt
     THEN ReloadIndices /\ ready' = TRUE /\ process' = "up" /\ UNCHANGED build
     ELSE Begin(Startup) /\ process' = "starting" /\ UNCHANGED <<memory, loaded, unread, ready>>
  /\ UNCHANGED <<documents, postgres, files, running, historyVars>>

\* The process is killed, perhaps while it writes.
Crash ==
  /\ process # "down"
  /\ process' = "down" /\ loaded' = FALSE /\ unread' = FALSE /\ ready' = FALSE
  /\ memory' = [part \in Parts |-> Nothing]
  /\ build' = [b \in Builders |-> Resting] /\ running' = Nobody
  /\ IF LoopFree THEN UNCHANGED <<files, torn, due>> ELSE CutShort(build[running].at)
  /\ UNCHANGED <<documents, postgres>>

Pipeline(b) ==
  \/ IngestMongoDocuments(b)
  \/ WriteFaiss(b, "items", "vectors")
  \/ WriteFaiss(b, "vectors", "sparse")
  \/ WriteBm25(b)
  \/ FinishReindex(b)

IndexNext ==
  \/ \E d \in Uploads : Upload(d)
  \/ StartUp
  \/ \E b \in Reindexers : Reindex(b)
  \/ \E b \in Builders : Pipeline(b) \/ ReindexFails(b)
  \/ Crash

\* A service that is set up, or one without database and knowledge base; no files yet.
IndexInit ==
  /\ postgres \in BOOLEAN /\ documents = IF postgres THEN Base ELSE {}
  /\ files = [part \in Parts |-> Nothing] /\ memory = files
  /\ loaded = FALSE /\ unread = FALSE /\ ready = FALSE /\ process = "down"
  /\ build = [b \in Builders |-> Resting] /\ running = Nobody
  /\ torn = FALSE /\ due = {}

IndexSpec == IndexInit /\ [][IndexNext]_indexVars

Snapshots == SUBSET documents
Steps == {"reading", "items", "vectors", "sparse", "logging"}

IndexTypeOK ==
  /\ documents \subseteq Base \cup Uploads /\ postgres \in BOOLEAN
  /\ files \in [Parts -> {Nothing, Torn} \cup Snapshots]
  /\ memory \in [Parts -> {Nothing} \cup Snapshots]
  /\ loaded \in BOOLEAN /\ unread \in BOOLEAN /\ ready \in BOOLEAN /\ process \in {"down", "starting", "up"}
  /\ build \in [Builders -> {Resting} \cup
                  [at : Steps, read : Snapshots, owes : Snapshots]]
  /\ running \in UnderWay \cup {Nobody}
  /\ torn \in BOOLEAN /\ due \subseteq documents

(***************************************************************************)
(* Properties                                                              *)
(***************************************************************************)
\* What the retriever answers from, in the terms of Library.
Serving ==
  IF ~loaded THEN Nothing
  ELSE IF memory["items"] = memory["vectors"] /\ memory["vectors"] = memory["sparse"]
       THEN memory["items"] ELSE Mixed

\* The snapshot that was written last, as a whole: the file of BM25 is the last of them.
kept == files["sparse"]

Promise == INSTANCE Library
             WITH built <- IF torn THEN Damaged ELSE kept, serving <- Serving

\* The three files, the retriever's copy of each, and any overlap of rebuilds, loads
\* and kills implement an index that is replaced as a whole, damaged only by a rebuild
\* that was cut short (build_and_save, load_index, reload_indices, trigger_reindex).
ServesWholeSnapshots == Promise!Spec

\* A rebuild has been written and is not loaded yet.
LoadPending == \E b \in Builders : build[b].at = "logging"

\* Every document that was there when an undisturbed rebuild began, and that it could
\* read, is searched after it, also after a restart; a rebuild is disturbed by another
\* one that overlaps (run_reindex_pipeline, trigger_reindex, lifespan).
NewestServed == loaded /\ ~torn /\ ~LoadPending => due \subseteq memory["items"]

\* The service says that it is ready, and answers nothing, only after a rebuild was
\* cut short or found no document, until one is loaded, or after a load that could not
\* read a file (reload_indices, lifespan, ready).
ReadyUnlessTorn == ready /\ ~loaded => torn \/ kept = Nothing \/ LoadPending \/ unread

\* Every rebuild comes to an end, without MongoDB and PostgreSQL too
\* (_ingest_mongo_documents, _write_audit_log).
RebuildsEnd == \A b \in Builders : []<>(build[b] = Resting)

\* The service says it is ready only once the indices are loaded in memory, as the
\* docstring of the endpoint has it (main.py:166, reload_indices).
ReadyMeansLoaded == ready => loaded
=============================================================================
