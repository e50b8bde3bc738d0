---------------------------- MODULE IndexProofs ----------------------------
(***************************************************************************)
(* Proofs about IndexStore, for every set of documents and every number of   *)
(* rebuilds: its types, that it implements Library, that it is ready only    *)
(* with an index, and that it serves what the last rebuild has found.        *)
(***************************************************************************)
EXTENDS IndexStore, TLAPS

\* What was written last is an abbreviation for a file, and is expanded everywhere.
USE DEF kept

(***************************************************************************)
(* The files are one snapshot unless a rebuild writes them or was cut short;  *)
(* the rebuild that writes holds the event loop, and what it has written so   *)
(* far is what it has read.                                                 *)
(***************************************************************************)
Written(b) ==
  CASE build[b].at = "vectors" -> {"items"}
    [] build[b].at = "sparse"  -> {"items", "vectors"}
    [] OTHER                   -> {}

WholeFiles ==
  /\ ~torn => kept # Torn
  /\ ~torn /\ LoopFree => \A part \in Parts : files[part] = kept
  /\ ~LoopFree => /\ build[running].at \in Parts
                  /\ \A part \in Written(running) : files[part] = build[running].read

\* A process that is down holds nothing in memory, and rebuilds nothing.
WhenDown ==
  process = "down" => /\ UnderWay = {} /\ running = Nobody
                      /\ ~loaded /\ ~ready

Stored == IndexTypeOK /\ WholeFiles /\ WhenDown

Record == [at : Steps, read : Snapshots, owes : Snapshots]

(***************************************************************************)
(* Types                                                                   *)
(***************************************************************************)
\* The values that stand for no snapshot are none.
LEMMA NoSnapshots ==
  ASSUME IndexTypeOK, NEW s \in Snapshots
  PROVE  s # Nothing /\ s # Torn /\ s # Damaged /\ s # Mixed
  BY IndexAssumption DEF Snapshots, IndexTypeOK

\* A rebuild is at rest or a record of what it does.
LEMMA RecordOf ==
  ASSUME IndexTypeOK, NEW b \in Builders, build[b] # Resting
  PROVE  build[b] \in Record
  BY DEF IndexTypeOK, Record

\* reload_indices: what is loaded is in whole files, and all of them are loaded unless
\* one cannot be read.
LEMMA LoadEffect ==
  ASSUME IndexTypeOK, ReloadIndices
  PROVE  /\ memory' \in [Parts -> {Nothing} \cup Snapshots]
         /\ loaded' \in BOOLEAN /\ unread' \in BOOLEAN
         /\ loaded' => Found("items") /\ Found("sparse")
         /\ (\A part \in Parts : Found(part)) => loaded' \/ unread'
         /\ loaded' /\ (\A part \in Parts : Found(part)) => memory' = files
<1> PICK fault \in BOOLEAN :
      /\ memory' = [part \in Parts |-> IF Loads(fault) THEN Replaced(part) ELSE Nothing]
      /\ loaded' = Loads(fault)
      /\ unread' = fault
  BY DEF ReloadIndices, LoadParts
<1>1. files \in [Parts -> {Nothing, Torn} \cup Snapshots] /\ memory \in [Parts -> {Nothing} \cup Snapshots]
  BY DEF IndexTypeOK
<1>2. Loads(fault) \in BOOLEAN /\ (Loads(fault) => Found("items") /\ Found("sparse"))
  BY DEF Loads
<1>3. memory' \in [Parts -> {Nothing} \cup Snapshots]
  BY <1>1 DEF Replaced, Refreshes, Found
<1>4. (\A part \in Parts : Found(part)) /\ ~fault => Loads(fault)
  BY DEF Loads, Found, Parts
<1>5. ASSUME Loads(fault), \A part \in Parts : Found(part)
      PROVE  memory' = files
  BY <1>1, <1>5 DEF Replaced, Refreshes
<1> QED
  BY <1>2, <1>3, <1>4, <1>5

\* A rebuild that begins disturbs the others, and changes nothing else of them.
LEMMA BeginTypes ==
  ASSUME IndexTypeOK, NEW b \in Builders, Begin(b)
  PROVE  /\ build' \in [Builders -> {Resting} \cup Record]
         /\ \A c \in UnderWay : build'[c] # Resting
         /\ \A c \in UnderWay \ {b} : build'[c].at = build[c].at /\ build'[c].read = build[c].read
<1> DEFINE new(c, found) ==
      CASE c = b                -> [at |-> "reading", read |-> found,
                                    owes |-> IF UnderWay = {} THEN documents ELSE {}]
        [] c \in UnderWay \ {b} -> [build[c] EXCEPT !.owes = {}]
        [] OTHER                -> Resting
<1> PICK found \in SUBSET (documents \cap Base) : build' = [c \in Builders |-> new(c, found)]
  BY DEF Begin
<1>2. new(b, found) \in Record /\ new(b, found) # Resting
  BY DEF Record, Steps, Snapshots, Resting
<1>3. ASSUME NEW c \in UnderWay \ {b}
      PROVE  /\ new(c, found) \in Record /\ new(c, found) # Resting
             /\ new(c, found).at = build[c].at /\ new(c, found).read = build[c].read
  <2>1. c \in Builders /\ build[c] \in Record
    BY <1>3, RecordOf DEF UnderWay
  <2>2. new(c, found) = [build[c] EXCEPT !.owes = {}]
    BY <1>3
  <2> QED
    BY <2>1, <2>2 DEF Record, Steps, Snapshots, Resting
<1>4. ASSUME NEW c \in Builders \ UnderWay, c # b
      PROVE  new(c, found) = Resting
  BY <1>4
<1> HIDE DEF new
<1>5. UnderWay \subseteq Builders
  BY DEF UnderWay
<1> QED
  BY <1>2, <1>3, <1>4, <1>5

\* A document that arrives changes no snapshot that was taken.
LEMMA UploadTyped ==
  ASSUME IndexTypeOK, NEW d \in Uploads, Upload(d)
  PROVE  IndexTypeOK'
<1>1. documents' = documents \cup {d} /\ Snapshots \subseteq Snapshots'
  BY DEF Upload, Snapshots
<1>2. \A b \in Builders : {Resting} \cup Record \subseteq ({Resting} \cup Record)'
  BY <1>1 DEF Record, Resting
<1>3. /\ files' = files /\ memory' = memory /\ build' = build /\ running' = running
      /\ postgres' = postgres /\ loaded' = loaded /\ ready' = ready /\ process' = process
      /\ torn' = torn /\ due' = due /\ unread' = unread
  BY DEF Upload, historyVars
<1>4. UnderWay' = UnderWay
  BY <1>3 DEF UnderWay
<1>5. /\ files' \in [Parts -> {Nothing, Torn} \cup Snapshots']
      /\ memory' \in [Parts -> {Nothing} \cup Snapshots']
  BY <1>1, <1>3 DEF IndexTypeOK
<1>6. build' \in [Builders -> ({Resting} \cup Record)']
  BY <1>1, <1>2, <1>3 DEF IndexTypeOK, Record
<1>7. documents' \subseteq Base \cup Uploads /\ due' \subseteq documents'
  BY <1>1, <1>3 DEF IndexTypeOK
<1> QED
  BY <1>1, <1>3, <1>4, <1>5, <1>6, <1>7 DEF IndexTypeOK, Record

\* The types are kept by the steps that leave the documents alone.
LEMMA ConcludedTyped ==
  ASSUME IndexTypeOK, NEW b \in Builders, Concluded(b), LoopFree,
         UNCHANGED <<documents, postgres, files, running, torn>>,
         due' \subseteq documents
  PROVE  IndexTypeOK'
<1>1. memory' \in [Parts -> {Nothing} \cup Snapshots] /\ loaded' \in BOOLEAN /\ unread' \in BOOLEAN
  BY LoadEffect DEF Concluded
<1>2. ready' = TRUE /\ process' = "up" /\ build' = [build EXCEPT ![b] = Resting]
  BY DEF Concluded
<1>3. build' \in [Builders -> ({Resting} \cup Record)]
  BY <1>2 DEF IndexTypeOK, Record
<1>4. Snapshots' = Snapshots /\ running' = Nobody
  BY DEF Snapshots, LoopFree
<1> QED
  BY <1>1, <1>2, <1>3, <1>4 DEF IndexTypeOK, Record

LEMMA IngestTyped ==
  ASSUME IndexTypeOK, NEW b \in Builders, IngestMongoDocuments(b)
  PROVE  IndexTypeOK'
<1> PICK found \in SUBSET (documents \cap Uploads) :
      LET read == build[b].read \cup found IN
      IF read = {}
      THEN Concluded(b) /\ UNCHANGED running
      ELSE /\ build' = [build EXCEPT ![b] =
                [at |-> "items", read |-> read, owes |-> @.owes \cap read]]
           /\ running' = b
           /\ UNCHANGED <<memory, loaded, unread, ready, process>>
  BY DEF IngestMongoDocuments
<1> DEFINE read == build[b].read \cup found
<1>1. LoopFree /\ build[b].at = "reading" /\ UNCHANGED <<documents, postgres, files, torn, due>>
  BY DEF IngestMongoDocuments, historyVars
<1>2. CASE read = {}
  BY <1>1, <1>2, ConcludedTyped DEF IndexTypeOK
<1>3. CASE read # {}
  <2>1. build[b] \in Record
    BY <1>1, RecordOf DEF Resting
  <2>2. read \in Snapshots /\ build[b].owes \in Snapshots
    BY <2>1 DEF Record, Snapshots
  <2> QED
    BY <1>1, <1>3, <2>2 DEF IndexTypeOK, Snapshots, Steps, Resting, UnderWay
<1> QED
  BY <1>2, <1>3

LEMMA WriteTyped ==
  ASSUME IndexTypeOK, NEW b \in Builders,
         WriteFaiss(b, "items", "vectors") \/ WriteFaiss(b, "vectors", "sparse") \/ WriteBm25(b)
  PROVE  IndexTypeOK'
<1>1. build[b].at \in {"items", "vectors", "sparse"}
  BY DEF WriteFaiss, WriteBm25
<1>2. build[b] \in Record
  BY <1>1, RecordOf DEF Resting
<1>3. build[b].read \in Snapshots /\ build[b].owes \in Snapshots
  BY <1>2 DEF Record
<1>4. ASSUME NEW part \in {"items", "vectors"}, NEW next \in {"vectors", "sparse"}, WriteFaiss(b, part, next)
      PROVE  IndexTypeOK'
  BY <1>2, <1>3, <1>4 DEF WriteFaiss, IndexTypeOK, Snapshots, Record, Steps, Resting, UnderWay, historyVars, Parts
<1>5. CASE WriteBm25(b)
  <2>1. files' \in [Parts -> {Nothing, Torn} \cup Snapshots]
    BY <1>3, <1>5 DEF WriteBm25, IndexTypeOK, Parts
  <2>2. build' \in [Builders -> ({Resting} \cup Record)]
    BY <1>2, <1>5 DEF WriteBm25, IndexTypeOK, Record, Steps
  <2>3. due' \subseteq documents
    BY <1>5 DEF WriteBm25, IndexTypeOK
  <2> QED
    BY <1>3, <1>5, <2>1, <2>2, <2>3 DEF WriteBm25, IndexTypeOK, Snapshots, Record
<1> QED
  BY <1>4, <1>5

LEMMA FinishTyped ==
  ASSUME IndexTypeOK, NEW b \in Builders, FinishReindex(b)
  PROVE  IndexTypeOK'
<1>1. build[b] \in Record
  BY RecordOf DEF FinishReindex, Resting
<1>2. due' \subseteq documents
  BY <1>1 DEF FinishReindex, IndexTypeOK, Record, Snapshots
<1> QED
  BY <1>2, ConcludedTyped DEF FinishReindex

LEMMA FailTyped ==
  ASSUME IndexTypeOK, NEW b \in Builders, ReindexFails(b)
  PROVE  IndexTypeOK'
  BY DEF ReindexFails, CutShort, IndexTypeOK, Snapshots, Steps, Resting, UnderWay, historyVars, Parts

LEMMA ReindexTyped ==
  ASSUME IndexTypeOK, NEW b \in Builders, Reindex(b)
  PROVE  IndexTypeOK'
  BY BeginTypes DEF Reindex, IndexTypeOK, Snapshots, UnderWay, historyVars, Record

LEMMA StartTyped ==
  ASSUME IndexTypeOK, StartUp
  PROVE  IndexTypeOK'
  BY BeginTypes, LoadEffect DEF StartUp, IndexTypeOK, Snapshots, UnderWay, historyVars, Record, Builders

LEMMA CrashTyped ==
  ASSUME IndexTypeOK, Crash
  PROVE  IndexTypeOK'
  BY DEF Crash, CutShort, IndexTypeOK, Snapshots, Resting, UnderWay, historyVars, Parts

LEMMA TypedStep ==
  ASSUME IndexTypeOK, [IndexNext]_indexVars
  PROVE  IndexTypeOK'
<1>1. CASE UNCHANGED indexVars
  BY <1>1 DEF indexVars, IndexTypeOK, Snapshots, UnderWay
<1>2. CASE IndexNext
  <2>1. ASSUME NEW b \in Builders, Pipeline(b) \/ ReindexFails(b)
        PROVE  IndexTypeOK'
    BY <2>1, IngestTyped, WriteTyped, FinishTyped, FailTyped DEF Pipeline
  <2>2. ASSUME NEW b \in Reindexers, Reindex(b)
        PROVE  IndexTypeOK'
    BY <2>2, ReindexTyped DEF Builders
  <2> QED
    BY <1>2, <2>1, <2>2, UploadTyped, StartTyped, CrashTyped DEF IndexNext
<1> QED
  BY <1>1, <1>2

\* The service starts without files, loaded index or rebuild (lifespan).
LEMMA InitStored == IndexInit => Stored
  BY IndexAssumption DEF IndexInit, Stored, IndexTypeOK, WholeFiles, WhenDown, LoopFree,
     Snapshots, UnderWay, Builders, Resting, Parts

(***************************************************************************)
(* The files between the steps of a rebuild.                                *)
(***************************************************************************)
\* What holds the loop is under way, and writes.
LEMMA Holder ==
  ASSUME Stored, ~LoopFree
  PROVE  /\ running \in Builders /\ build[running] # Resting /\ build[running] \in Record
         /\ build[running].at \in Parts /\ process # "down"
  BY RecordOf DEF Stored, IndexTypeOK, LoopFree, UnderWay, WholeFiles, WhenDown

LEMMA StoredStep ==
  ASSUME Stored, [IndexNext]_indexVars
  PROVE  Stored'
<1> USE DEF Stored
<1>0. IndexTypeOK'
  BY TypedStep
<1>1. CASE UNCHANGED indexVars
  BY <1>1, <1>0 DEF indexVars, WholeFiles, WhenDown, UnderWay, LoopFree, Written
<1>2. ASSUME NEW d \in Uploads, Upload(d) PROVE Stored'
  BY <1>2, <1>0 DEF Upload, historyVars, WholeFiles, WhenDown, UnderWay, LoopFree, Written
<1>3. CASE StartUp
  BY <1>3, <1>0 DEF StartUp, historyVars, WholeFiles, WhenDown, UnderWay, LoopFree
<1>4. ASSUME NEW b \in Reindexers, Reindex(b) PROVE Stored'
  BY <1>4, <1>0 DEF Reindex, historyVars, WholeFiles, WhenDown, UnderWay, LoopFree
<1>5. ASSUME NEW b \in Builders, IngestMongoDocuments(b) PROVE Stored'
  <2>1. /\ LoopFree /\ build[b].at = "reading" /\ b # Nobody /\ build[b] # Resting
        /\ files' = files /\ torn' = torn /\ kept' = kept
    BY <1>5, IndexAssumption DEF IngestMongoDocuments, historyVars, Builders, Resting
  <2>2. \/ Concluded(b) /\ running' = running
        \/ running' = b /\ process' = process /\ build'[b].at = "items"
    BY <1>5 DEF IngestMongoDocuments, IndexTypeOK
  <2>3. process # "down"
    BY <2>1 DEF WhenDown, UnderWay
  <2> QED
    BY <1>0, <2>1, <2>2, <2>3 DEF Concluded, WholeFiles, WhenDown, LoopFree, Written, Parts
<1>6. ASSUME NEW b \in Builders, WriteFaiss(b, "items", "vectors") PROVE Stored'
  <2>1. running = b /\ b # Nobody /\ b \in UnderWay /\ process # "down"
    BY <1>6, Holder, IndexAssumption DEF WriteFaiss, LoopFree, Builders, UnderWay, IndexTypeOK
  <2>2. /\ build'[b].at = "vectors" /\ build'[b].read = build[b].read /\ files'["items"] = build[b].read
        /\ kept' = kept /\ torn' = torn
    BY <1>6, <2>1, Holder, IndexTypeOK DEF WriteFaiss, historyVars, LoopFree, Record, Parts, IndexTypeOK
  <2>3. running' = b /\ process' = process
    BY <1>6, <2>1 DEF WriteFaiss
  <2> QED
    BY <1>0, <2>1, <2>2, <2>3 DEF WholeFiles, WhenDown, Written, Parts, LoopFree
<1>7. ASSUME NEW b \in Builders, WriteFaiss(b, "vectors", "sparse") PROVE Stored'
  <2>1. running = b /\ b # Nobody /\ b \in UnderWay /\ process # "down" /\ build[b].at = "vectors"
    BY <1>7, Holder, IndexAssumption DEF WriteFaiss, LoopFree, Builders, UnderWay, IndexTypeOK
  <2>2. /\ build'[b].at = "sparse" /\ build'[b].read = build[b].read
        /\ files'["vectors"] = build[b].read /\ files'["items"] = files["items"]
        /\ kept' = kept /\ torn' = torn
    BY <1>7, <2>1, Holder DEF WriteFaiss, historyVars, LoopFree, Record, Parts, IndexTypeOK
  <2>3. running' = b /\ process' = process
    BY <1>7, <2>1 DEF WriteFaiss
  <2>4. files["items"] = build[b].read
    BY <2>1 DEF WholeFiles, LoopFree, Written
  <2> QED
    BY <1>0, <2>1, <2>2, <2>3, <2>4 DEF WholeFiles, WhenDown, Written, Parts, LoopFree
<1>8. ASSUME NEW b \in Builders, WriteBm25(b) PROVE Stored'
  <2>1. running = b /\ b # Nobody /\ process # "down" /\ build[b].at = "sparse"
    BY <1>8, Holder, IndexAssumption DEF WriteBm25, LoopFree, Builders
  <2>2. files["items"] = build[b].read /\ files["vectors"] = build[b].read
    BY <2>1 DEF WholeFiles, LoopFree, Written
  <2>3. \A part \in Parts : files'[part] = build[b].read
    BY <1>8, <2>2 DEF WriteBm25, Parts, IndexTypeOK
  <2>4. build[b].read \in Snapshots
    BY <2>1, RecordOf DEF Resting, Record
  <2>5. kept' # Torn
    BY <2>3, <2>4, NoSnapshots DEF Parts
  <2> QED
    BY <1>0, <1>8, <2>1, <2>3, <2>5 DEF WriteBm25, WholeFiles, WhenDown, LoopFree
<1>9. ASSUME NEW b \in Builders, FinishReindex(b) PROVE Stored'
  BY <1>9, <1>0 DEF FinishReindex, Concluded, WholeFiles, WhenDown, LoopFree
<1>10. ASSUME NEW b \in Builders, ReindexFails(b) PROVE Stored'
  <2>1. process' = "up" /\ running' = Nobody
    BY <1>10 DEF ReindexFails
  <2>2. CASE LoopFree /\ UNCHANGED <<files, torn>>
    BY <1>10, <1>0, <2>1, <2>2 DEF ReindexFails, WholeFiles, WhenDown, LoopFree
  <2>3. CASE torn' = TRUE
    BY <1>0, <2>1, <2>3 DEF WholeFiles, WhenDown, LoopFree
  <2> QED
    BY <1>10, <2>2, <2>3 DEF ReindexFails, CutShort
<1>11. CASE Crash
  <2>1. /\ running' = Nobody /\ ~loaded' /\ ~ready' /\ UnderWay' = {}
        /\ (LoopFree /\ files' = files /\ torn' = torn) \/ torn' = TRUE
    BY <1>11 DEF Crash, CutShort, UnderWay, LoopFree
  <2> QED
    BY <1>0, <2>1 DEF WholeFiles, WhenDown, LoopFree
<1> QED
  BY <1>1, <1>2, <1>3, <1>4, <1>5, <1>6, <1>7, <1>8, <1>9, <1>10, <1>11 DEF IndexNext, Pipeline

\* The types of the index: files and memory hold snapshots of the documents there are,
\* and what holds the event loop is a rebuild under way (index_builder, lifespan).
THEOREM IndexStored == IndexSpec => []Stored
<1>1. Stored /\ [IndexNext]_indexVars => Stored'
  BY StoredStep
<1> QED
  BY InitStored, <1>1, PTL DEF IndexSpec

THEOREM IndexTyped == IndexSpec => []IndexTypeOK
<1>1. Stored => IndexTypeOK
  BY DEF Stored
<1> QED
  BY IndexStored, <1>1, PTL

(***************************************************************************)
(* Every step is a step of Library, or none.                                *)
(***************************************************************************)
\* Files that one rebuild has written are loaded as they are; without files nothing is.
LEMMA LoadsKept ==
  ASSUME Stored, LoopFree, ReloadIndices, ~torn
  PROVE  /\ Serving' \in {kept, Nothing}
         /\ kept # Nothing => loaded' \/ unread'
         /\ loaded' => \A part \in Parts : memory'[part] = kept
         /\ kept = Nothing => ~loaded'
<1>1. \A part \in Parts : files[part] = kept
  BY DEF Stored, WholeFiles
<1>2. files \in [Parts -> {Nothing, Torn} \cup Snapshots] /\ IndexTypeOK
  BY DEF Stored, IndexTypeOK
<1>3. CASE kept = Nothing
  <2>1. ~loaded'
    BY <1>1, <1>2, <1>3, LoadEffect DEF Found, Parts
  <2> QED
    BY <1>3, <2>1 DEF Serving
<1>4. CASE kept # Nothing
  <2>1. kept \in Snapshots
    BY <1>2, <1>4 DEF Stored, WholeFiles, kept, Parts
  <2>2. \A part \in Parts : Found(part)
    BY <1>1, <1>2, <2>1, NoSnapshots DEF Found
  <2>3. (loaded' \/ unread') /\ (loaded' => memory' = files)
    BY <1>2, <2>2, LoadEffect
  <2> QED
    BY <1>1, <1>4, <2>3 DEF Serving, Parts
<1> QED
  BY <1>3, <1>4

\* Whatever the files are, what is loaded from them is nothing, a mixture or a snapshot.
LEMMA LoadsSomething ==
  ASSUME IndexTypeOK, ReloadIndices, documents' = documents
  PROVE  Serving' \in {Nothing, Mixed} \cup SUBSET documents
<1>1. memory'["items"] \in {Nothing} \cup Snapshots
  BY LoadEffect DEF Parts
<1> QED
  BY <1>1 DEF Serving, Snapshots

LEMMA ReloadIsLoad ==
  ASSUME Stored, LoopFree, ReloadIndices, UNCHANGED <<documents, kept, torn>>
  PROVE  Promise!Load
<1>1. CASE ~torn
  <2>1. kept # Damaged
    BY <1>1, NoSnapshots, IndexAssumption DEF Stored, IndexTypeOK, WholeFiles, kept, Parts
  <2> QED
    BY <1>1, <2>1, LoadsKept DEF Promise!Load
<1>2. CASE torn
  BY <1>2, LoadsSomething DEF Promise!Load, Stored
<1> QED
  BY <1>1, <1>2

\* What is written before the file of BM25 leaves that one as it is.
LEMMA WriteKeeps ==
  ASSUME IndexTypeOK, NEW b, NEW part \in {"items", "vectors"}, NEW next, WriteFaiss(b, part, next)
  PROVE  kept' = kept
  BY DEF WriteFaiss, IndexTypeOK, Parts

LEMMA StepRefines ==
  ASSUME Stored, [IndexNext]_indexVars
  PROVE  [Promise!Next]_<<documents, IF torn THEN Damaged ELSE kept, Serving>>
<1> DEFINE Built == IF torn THEN Damaged ELSE kept
           abstract == <<documents, Built, Serving>>
<1> SUFFICES Promise!Next \/ UNCHANGED abstract
  OBVIOUS
<1>0. ASSUME UNCHANGED <<memory, loaded>> PROVE Serving' = Serving
  BY <1>0 DEF Serving
<1>1. CASE UNCHANGED indexVars
  BY <1>1, <1>0 DEF indexVars
<1>2. ASSUME NEW d \in Uploads, Upload(d) PROVE Promise!Arrive
  BY <1>2, <1>0 DEF Upload, historyVars, Promise!Arrive
<1>3. ASSUME StartUp PROVE Promise!Load \/ UNCHANGED abstract
  <2>1. LoopFree /\ UNCHANGED <<documents, kept, torn>>
    BY <1>3 DEF StartUp, historyVars, Stored, WhenDown, LoopFree
  <2> QED
    BY <1>0, <1>3, <2>1, ReloadIsLoad DEF StartUp
<1>4. ASSUME NEW b \in Reindexers, Reindex(b) PROVE UNCHANGED abstract
  BY <1>4, <1>0 DEF Reindex, historyVars
<1>5. ASSUME NEW b \in Builders, IngestMongoDocuments(b) PROVE Promise!Load \/ UNCHANGED abstract
  <2>1. LoopFree /\ UNCHANGED <<documents, kept, torn>>
    BY <1>5 DEF IngestMongoDocuments, historyVars
  <2>2. ReloadIndices \/ UNCHANGED <<memory, loaded>>
    BY <1>5 DEF IngestMongoDocuments, Concluded
  <2> QED
    BY <1>0, <2>1, <2>2, ReloadIsLoad
<1>6. ASSUME NEW b \in Builders, NEW part \in {"items", "vectors"}, NEW next, WriteFaiss(b, part, next)
      PROVE  UNCHANGED abstract
  BY <1>6, <1>0, WriteKeeps DEF WriteFaiss, historyVars, Stored
<1>7. ASSUME NEW b \in Builders, WriteBm25(b) PROVE Promise!Build
  <2>1. build[b] \in Record
    BY <1>7, RecordOf DEF WriteBm25, Stored, Resting
  <2> QED
    BY <1>7, <1>0, <2>1 DEF WriteBm25, Promise!Build, Record, Snapshots, Stored, IndexTypeOK, Parts
<1>8. ASSUME NEW b \in Builders, FinishReindex(b) PROVE Promise!Load
  BY <1>8, ReloadIsLoad DEF FinishReindex, Concluded
<1>9. ASSUME NEW b \in Builders, ReindexFails(b) PROVE Promise!Damage \/ UNCHANGED abstract
  BY <1>9, <1>0 DEF ReindexFails, CutShort, Promise!Damage
<1>10. ASSUME Crash PROVE Promise!Stop
  BY <1>10 DEF Crash, CutShort, Promise!Stop, Serving
<1> QED
  BY <1>1, <1>2, <1>3, <1>4, <1>5, <1>6, <1>7, <1>8, <1>9, <1>10 DEF IndexNext, Pipeline, Promise!Next

\* The index implements the library: its three files and the copies of them in memory,
\* under any overlap of rebuilds, failures, kills and restarts, answer as one index that
\* is replaced as a whole, unless a rebuild was cut short.
THEOREM IndexRefines == IndexSpec => ServesWholeSnapshots
<1>1. IndexInit => Promise!Init
  BY DEF IndexInit, Promise!Init, Serving, Parts
<1>2. Stored /\ [IndexNext]_indexVars => [Promise!Next]_<<documents, IF torn THEN Damaged ELSE kept, Serving>>
  BY StepRefines
<1> QED
  BY <1>1, <1>2, IndexStored, PTL DEF IndexSpec, ServesWholeSnapshots, Promise!Spec

(***************************************************************************)
(* A rebuild waits to load until it has loaded, or the process is killed.    *)
(***************************************************************************)
LEMMA PendingStays ==
  ASSUME Stored, IndexNext, LoadPending
  PROVE  \/ LoadPending'
         \/ \E b \in Builders : FinishReindex(b)
         \/ Crash
<1> PICK c \in Builders : build[c].at = "logging"
  BY DEF LoadPending
<1>0. c \in UnderWay /\ build \in [Builders -> {Resting} \cup Record]
  BY DEF UnderWay, Resting, Stored, IndexTypeOK, Record
<1>1. ASSUME NEW d \in Uploads, Upload(d) PROVE LoadPending'
  BY <1>1 DEF Upload, LoadPending
<1>2. ASSUME StartUp PROVE LoadPending'
  BY <1>0, <1>2 DEF StartUp, Stored, WhenDown
<1>3. ASSUME NEW b \in Reindexers, Reindex(b) PROVE LoadPending'
  <2>1. b \in Builders /\ c \in UnderWay \ {b}
    BY <1>0, <1>3 DEF Reindex, Builders, UnderWay
  <2>2. build'[c].at = "logging"
    BY <1>3, <2>1, BeginTypes DEF Reindex, Stored
  <2> QED
    BY <2>2 DEF LoadPending
<1>4. ASSUME NEW b \in Builders,
             \/ IngestMongoDocuments(b) \/ WriteBm25(b) \/ ReindexFails(b)
             \/ WriteFaiss(b, "items", "vectors") \/ WriteFaiss(b, "vectors", "sparse")
      PROVE  LoadPending'
  <2>1. b # c
    BY <1>4, Holder, IndexAssumption
       DEF IngestMongoDocuments, WriteBm25, ReindexFails, WriteFaiss, LoopFree, Parts, Builders
  <2>2. build'[c] = build[c]
    BY <1>0, <1>4, <2>1 DEF IngestMongoDocuments, Concluded, WriteBm25, ReindexFails, WriteFaiss
  <2> QED
    BY <2>2 DEF LoadPending
<1> QED
  BY <1>1, <1>2, <1>3, <1>4 DEF IndexNext, Pipeline

\* The steps after which what is in memory is what the files hold, and the others, which
\* leave memory, flags and files alone.
LEMMA LoadOrLeave ==
  ASSUME Stored, IndexNext
  PROVE  \/ LoopFree /\ ReloadIndices /\ UNCHANGED <<kept, torn>>
         \/ UNCHANGED <<memory, loaded, unread, ready>> /\ ((torn' = torn /\ kept' = kept) \/ torn')
         \/ LoadPending' /\ UNCHANGED <<memory, loaded, ready>>
         \/ ~ready' /\ ~loaded'
<1>1. ASSUME NEW b \in Builders, WriteBm25(b) PROVE LoadPending' /\ UNCHANGED <<memory, loaded, ready>>
  <2>1. build[b] \in Record
    BY <1>1, RecordOf DEF WriteBm25, Resting, Stored
  <2>2. build'[b].at = "logging"
    BY <1>1, <2>1 DEF WriteBm25, Record, Stored, IndexTypeOK
  <2> QED
    BY <1>1, <2>2 DEF LoadPending, WriteBm25
<1>2. StartUp => LoopFree
  BY DEF StartUp, Stored, WhenDown, LoopFree
<1>3. ASSUME NEW b \in Builders,
             WriteFaiss(b, "items", "vectors") \/ WriteFaiss(b, "vectors", "sparse")
      PROVE  UNCHANGED <<memory, loaded, unread, ready, torn, kept>>
  BY <1>3, WriteKeeps DEF WriteFaiss, historyVars, Stored
<1>4. ASSUME NEW b \in Builders, ReindexFails(b)
      PROVE  /\ UNCHANGED <<memory, loaded, unread, ready>>
             /\ ((torn' = torn /\ kept' = kept) \/ torn')
  BY <1>4 DEF ReindexFails, CutShort
<1> QED
  BY <1>1, <1>2, <1>3, <1>4 DEF IndexNext, Pipeline, Upload, StartUp, Reindex, IngestMongoDocuments, Concluded,
     WriteFaiss, FinishReindex, ReindexFails, Crash, historyVars

(***************************************************************************)
(* Ready without an index                                                  *)
(***************************************************************************)
LEMMA ReadyStep ==
  ASSUME Stored, ReadyUnlessTorn, [IndexNext]_indexVars
  PROVE  ReadyUnlessTorn'
<1>1. CASE UNCHANGED indexVars
  BY <1>1 DEF indexVars, ReadyUnlessTorn, LoadPending
<1>2. CASE IndexNext
  <2>1. CASE LoopFree /\ ReloadIndices /\ UNCHANGED <<kept, torn>>
    BY <2>1, LoadsKept DEF ReadyUnlessTorn
  <2>2. CASE UNCHANGED <<memory, loaded, unread, ready>> /\ ((torn' = torn /\ kept' = kept) \/ torn')
    <3>1. LoadPending => \/ LoadPending'
                         \/ LoopFree /\ ReloadIndices /\ UNCHANGED <<kept, torn>>
                         \/ ~ready'
      BY <1>2, PendingStays DEF FinishReindex, Concluded, Crash
    <3> QED
      BY <2>1, <2>2, <3>1 DEF ReadyUnlessTorn
  <2> QED
    BY <1>2, <2>1, <2>2, LoadOrLeave DEF ReadyUnlessTorn
<1> QED
  BY <1>1, <1>2

\* For every number of rebuilds, the service is ready without an index only after a
\* rebuild was cut short or found nothing, or until one is loaded (reload_indices, ready).
THEOREM ReadySafe == IndexSpec => []ReadyUnlessTorn
<1>1. IndexInit => ReadyUnlessTorn
  BY DEF IndexInit, ReadyUnlessTorn
<1>2. Stored /\ ReadyUnlessTorn /\ [IndexNext]_indexVars => ReadyUnlessTorn'
  BY ReadyStep
<1> QED
  BY <1>1, <1>2, IndexStored, PTL DEF IndexSpec

(***************************************************************************)
(* What the last rebuild has found.  A document that an undisturbed rebuild  *)
(* found is in the files as long as they are whole: whoever rebuilds after it *)
(* owes it too, or is disturbed, and forgets it.                             *)
(***************************************************************************)
Held == IF kept = Nothing THEN {} ELSE kept

Undisturbed == \A b, c \in UnderWay : b # c => build[b].owes = {}

OwedIsRead == \A b \in Builders : build[b].at \in Parts => build[b].owes \subseteq build[b].read

OwedIsHeld ==
  ~torn => /\ due \subseteq Held
           /\ \A b \in Builders : build[b].at = "logging" => build[b].owes \subseteq Held

MemoryIsKept == loaded /\ ~torn /\ ~LoadPending => kept # Nothing /\ memory["items"] = kept

Fresh == Undisturbed /\ OwedIsRead /\ OwedIsHeld /\ MemoryIsKept

\* A rebuild that begins owes what there is, unless others are under way.
LEMMA BeginFresh ==
  ASSUME Stored, Fresh, NEW b \in Builders, build[b] = Resting, Begin(b), UNCHANGED <<kept, torn, due>>
  PROVE  Undisturbed' /\ OwedIsRead' /\ OwedIsHeld'
<1>1. /\ build'[b].at = "reading"
      /\ build'[b].owes = IF UnderWay = {} THEN documents ELSE {}
  BY DEF Begin
<1>2. ASSUME NEW c \in UnderWay
      PROVE  /\ build'[c].owes = {}
             /\ build'[c].at = build[c].at /\ build'[c].read = build[c].read
  <2>1. c # b /\ c \in Builders /\ build[c] \in Record
    BY <1>2, RecordOf DEF UnderWay, Stored
  <2>2. build'[c] = [build[c] EXCEPT !.owes = {}]
    BY <1>2, <2>1 DEF Begin
  <2> QED
    BY <2>1, <2>2 DEF Record
<1>3. ASSUME NEW c \in Builders, c # b, c \notin UnderWay
      PROVE  build'[c] = Resting
  BY <1>3 DEF Begin
<1>4. UnderWay' \subseteq UnderWay \cup {b}
  BY <1>3 DEF UnderWay
<1>5. Undisturbed'
  BY <1>1, <1>2, <1>4 DEF Undisturbed
<1>6. OwedIsRead'
  BY <1>1, <1>2, <1>3 DEF OwedIsRead, Parts, Resting
<1>7. OwedIsHeld'
  BY <1>1, <1>2, <1>3 DEF OwedIsHeld, Resting, Held, Fresh
<1> QED
  BY <1>5, <1>6, <1>7

\* A rebuild that comes to rest takes nothing from the others.
LEMMA RestFresh ==
  ASSUME Stored, Fresh, NEW b \in Builders, build' = [build EXCEPT ![b] = Resting]
  PROVE  Undisturbed' /\ OwedIsRead'
<1>1. build'[b] = Resting /\ \A c \in Builders \ {b} : build'[c] = build[c]
  BY DEF Stored, IndexTypeOK
<1>2. UnderWay' = UnderWay \ {b}
  BY <1>1 DEF UnderWay
<1> QED
  BY <1>1, <1>2 DEF Fresh, Undisturbed, OwedIsRead, Resting, Parts, UnderWay

\* A rebuild that goes on in its pipeline, and owes no more than before.
LEMMA GoesOnFresh ==
  ASSUME Stored, Fresh, NEW b \in UnderWay, NEW r \in Record,
         build' = [build EXCEPT ![b] = r],
         r.owes \subseteq build[b].owes,
         r.at \in Parts => r.owes \subseteq r.read
  PROVE  Undisturbed' /\ OwedIsRead'
<1>1. b \in Builders /\ build'[b] = r /\ \A c \in Builders \ {b} : build'[c] = build[c]
  BY DEF Stored, IndexTypeOK, UnderWay
<1>2. UnderWay' \subseteq UnderWay
  BY <1>1 DEF UnderWay
<1>3. \A c \in UnderWay' : build'[c].owes \subseteq build[c].owes
  BY <1>1, <1>2 DEF UnderWay
<1>4. Undisturbed'
  BY <1>2, <1>3 DEF Fresh, Undisturbed
<1>5. OwedIsRead'
  BY <1>1 DEF Fresh, OwedIsRead
<1> QED
  BY <1>4, <1>5

\* What is loaded is what was written last.
LEMMA MemoryStep ==
  ASSUME Stored, Fresh, IndexNext
  PROVE  MemoryIsKept'
<1>1. CASE LoopFree /\ ReloadIndices /\ UNCHANGED <<kept, torn>>
  BY <1>1, LoadsKept DEF MemoryIsKept, Parts
<1>2. CASE UNCHANGED <<memory, loaded, unread, ready>> /\ ((torn' = torn /\ kept' = kept) \/ torn')
  <2>1. LoadPending => \/ LoadPending'
                       \/ LoopFree /\ ReloadIndices /\ UNCHANGED <<kept, torn>>
                       \/ ~loaded'
    BY PendingStays DEF FinishReindex, Concluded, Crash
  <2> QED
    BY <1>1, <1>2, <2>1 DEF Fresh, MemoryIsKept
<1> QED
  BY <1>1, <1>2, LoadOrLeave DEF MemoryIsKept

LEMMA IngestFresh ==
  ASSUME Stored, Fresh, NEW b \in Builders, IngestMongoDocuments(b)
  PROVE  Undisturbed' /\ OwedIsRead' /\ OwedIsHeld'
<1> PICK found \in SUBSET (documents \cap Uploads) :
      LET read == build[b].read \cup found IN
      IF read = {}
      THEN Concluded(b) /\ UNCHANGED running
      ELSE /\ build' = [build EXCEPT ![b] =
                [at |-> "items", read |-> read, owes |-> @.owes \cap read]]
           /\ running' = b
           /\ UNCHANGED <<memory, loaded, unread, ready, process>>
  BY DEF IngestMongoDocuments
<1> DEFINE read == build[b].read \cup found
           owes == build[b].owes \cap read
           r == [at |-> "items", read |-> read, owes |-> owes]
<1>0. build[b] \in Record /\ b \in UnderWay /\ UNCHANGED <<kept, torn, due>>
  BY RecordOf DEF IngestMongoDocuments, Resting, UnderWay, historyVars, Stored
<1>1. CASE read = {}
  <2>1. build' = [build EXCEPT ![b] = Resting]
    BY <1>1 DEF Concluded
  <2>2. Undisturbed' /\ OwedIsRead'
    BY <2>1, RestFresh
  <2>3. OwedIsHeld'
    BY <1>0, <2>1 DEF Fresh, OwedIsHeld, Held, Resting, Stored, IndexTypeOK
  <2> QED
    BY <2>2, <2>3
<1>2. CASE read # {}
  <2>1. build' = [build EXCEPT ![b] = r]
    BY <1>2, <1>0 DEF Stored, IndexTypeOK, Record
  <2>2. r \in Record /\ owes \subseteq read /\ owes \subseteq build[b].owes
    BY <1>0 DEF Record, Snapshots, Steps
  <2> HIDE DEF owes, read
  <2>3. r.at = "items" /\ r.owes = owes /\ r.read = read
    OBVIOUS
  <2>4. Undisturbed' /\ OwedIsRead'
    BY <1>0, <2>1, <2>2, <2>3, GoesOnFresh
  <2>5. \A c \in Builders : build'[c].at = "logging" => build'[c] = build[c]
    BY <2>1, <2>3 DEF Stored, IndexTypeOK
  <2>6. OwedIsHeld'
    BY <1>0, <2>5 DEF Fresh, OwedIsHeld, Held
  <2> QED
    BY <2>4, <2>6
<1> QED
  BY <1>1, <1>2

LEMMA WriteFresh ==
  ASSUME Stored, Fresh, NEW b \in Builders, NEW part \in {"items", "vectors"},
         NEW next \in {"vectors", "sparse"}, WriteFaiss(b, part, next)
  PROVE  Undisturbed' /\ OwedIsRead' /\ OwedIsHeld'
<1> DEFINE r == [build[b] EXCEPT !.at = next]
<1>1. build[b] \in Record /\ b \in UnderWay /\ UNCHANGED <<kept, torn, due>>
  BY RecordOf DEF WriteFaiss, Resting, UnderWay, historyVars, Stored
<1>2. build' = [build EXCEPT ![b] = r]
  BY DEF WriteFaiss, Stored, IndexTypeOK
<1>3. r \in Record /\ r.owes = build[b].owes /\ r.read = build[b].read /\ r.at # "logging"
  BY <1>1 DEF Record, Steps
<1>4. build[b].owes \subseteq build[b].read
  BY DEF Fresh, OwedIsRead, WriteFaiss, Parts
<1> HIDE DEF r
<1>5. Undisturbed' /\ OwedIsRead'
  BY <1>1, <1>2, <1>3, <1>4, GoesOnFresh
<1>6. \A c \in Builders : build'[c].at = "logging" => build'[c] = build[c]
  BY <1>2, <1>3 DEF Stored, IndexTypeOK
<1> QED
  BY <1>1, <1>5, <1>6 DEF Fresh, OwedIsHeld, Held

\* The files hold what the rebuild owes, and what it does not owe is forgotten.
LEMMA WrittenFresh ==
  ASSUME Stored, Fresh, NEW b \in Builders, WriteBm25(b)
  PROVE  Undisturbed' /\ OwedIsRead' /\ OwedIsHeld'
<1> DEFINE r == [build[b] EXCEPT !.at = "logging"]
<1>1. build[b] \in Record /\ b \in UnderWay
  BY RecordOf DEF WriteBm25, Resting, UnderWay, Stored
<1>2. build' = [build EXCEPT ![b] = r] /\ kept' = build[b].read /\ due' = due \cap build[b].owes
  BY DEF WriteBm25, Stored, IndexTypeOK, Parts
<1>3. r \in Record /\ r.owes = build[b].owes /\ r.read = build[b].read /\ r.at = "logging"
  BY <1>1 DEF Record, Steps
<1>4. build[b].owes \subseteq build[b].read
  BY DEF Fresh, OwedIsRead, WriteBm25, Parts
<1> HIDE DEF r
<1>5. Undisturbed' /\ OwedIsRead'
  BY <1>1, <1>2, <1>3, <1>4, GoesOnFresh
<1>6. Held' = build[b].read
  BY <1>1, <1>2, NoSnapshots DEF Held, Record, Stored
<1>7. ASSUME NEW c \in Builders, build'[c].at = "logging"
      PROVE  build'[c].owes \subseteq Held'
  <2>1. CASE c = b
    BY <1>2, <1>3, <1>4, <1>6, <2>1 DEF Stored, IndexTypeOK
  <2>2. CASE c # b
    <3>1. build'[c] = build[c]
      BY <1>2, <2>2 DEF Stored, IndexTypeOK
    <3>2. c \in UnderWay
      BY <1>7, <3>1 DEF UnderWay, Resting
    <3>3. build[c].owes = {}
      BY <1>1, <2>2, <3>2 DEF Fresh, Undisturbed
    <3> QED
      BY <3>1, <3>3
  <2> QED
    BY <2>1, <2>2
<1> QED
  BY <1>2, <1>4, <1>5, <1>6, <1>7 DEF OwedIsHeld

LEMMA FreshStep ==
  ASSUME Stored, Fresh, [IndexNext]_indexVars
  PROVE  Fresh'
<1>1. CASE UNCHANGED indexVars
  BY <1>1 DEF indexVars, Fresh, Undisturbed, UnderWay, OwedIsRead, OwedIsHeld, Held, MemoryIsKept, LoadPending
<1>2. ASSUME NEW d \in Uploads, Upload(d) PROVE Undisturbed' /\ OwedIsRead' /\ OwedIsHeld'
  BY <1>2 DEF Upload, historyVars, Fresh, Undisturbed, UnderWay, OwedIsRead, OwedIsHeld, Held
<1>3. ASSUME StartUp PROVE Undisturbed' /\ OwedIsRead' /\ OwedIsHeld'
  <2>1. CASE UNCHANGED build
    BY <1>3, <2>1 DEF StartUp, historyVars, Fresh, Undisturbed, UnderWay, OwedIsRead, OwedIsHeld, Held
  <2>2. CASE Begin(Startup)
    <3>1. Startup \in Builders /\ build[Startup] = Resting
      BY <1>3 DEF StartUp, Stored, WhenDown, UnderWay, Builders
    <3> QED
      BY <1>3, <2>2, <3>1, BeginFresh DEF StartUp, historyVars
  <2> QED
    BY <1>3, <2>1, <2>2 DEF StartUp
<1>4. ASSUME NEW b \in Reindexers, Reindex(b) PROVE Undisturbed' /\ OwedIsRead' /\ OwedIsHeld'
  BY <1>4, BeginFresh DEF Reindex, historyVars, Builders
<1>5. ASSUME NEW b \in Builders, FinishReindex(b) PROVE Undisturbed' /\ OwedIsRead' /\ OwedIsHeld'
  <2>1. build' = [build EXCEPT ![b] = Resting] /\ UNCHANGED <<kept, torn>> /\ due' = due \cup build[b].owes
    BY <1>5 DEF FinishReindex, Concluded
  <2>2. ~torn => due' \subseteq Held'
    BY <1>5, <2>1 DEF Fresh, OwedIsHeld, Held, FinishReindex
  <2>3. \A c \in Builders : build'[c].at = "logging" => build'[c] = build[c]
    BY <2>1 DEF Resting, Stored, IndexTypeOK
  <2> QED
    BY <2>1, <2>2, <2>3, RestFresh DEF Fresh, OwedIsHeld, Held
<1>6. ASSUME NEW b \in Builders, ReindexFails(b) PROVE Undisturbed' /\ OwedIsRead' /\ OwedIsHeld'
  <2>1. build' = [build EXCEPT ![b] = Resting] /\ (UNCHANGED <<kept, due, torn>> \/ torn')
    BY <1>6 DEF ReindexFails, CutShort
  <2>2. \A c \in Builders : build'[c].at = "logging" => build'[c] = build[c]
    BY <2>1 DEF Resting, Stored, IndexTypeOK
  <2> QED
    BY <2>1, <2>2, RestFresh DEF Fresh, OwedIsHeld, Held
<1>7. ASSUME Crash PROVE Undisturbed' /\ OwedIsRead' /\ OwedIsHeld'
  <2>1. UnderWay' = {} /\ (\A b \in Builders : build'[b] = Resting)
    BY <1>7 DEF Crash, UnderWay
  <2>2. UNCHANGED <<kept, due, torn>> \/ torn'
    BY <1>7 DEF Crash, CutShort
  <2> QED
    BY <2>1, <2>2 DEF Fresh, Undisturbed, OwedIsRead, OwedIsHeld, Held, Resting, Parts
<1>8. CASE IndexNext
  <2>1. Undisturbed' /\ OwedIsRead' /\ OwedIsHeld'
    BY <1>8, <1>2, <1>3, <1>4, <1>5, <1>6, <1>7, IngestFresh, WriteFresh, WrittenFresh DEF IndexNext, Pipeline
  <2> QED
    BY <1>8, <2>1, MemoryStep DEF Fresh
<1> QED
  BY <1>1, <1>8

\* For every set of documents and every number of overlapping rebuilds, what an
\* undisturbed rebuild has found is searched (run_reindex_pipeline, reload_indices).
THEOREM NewestSafe == IndexSpec => []NewestServed
<1>1. IndexInit => Fresh
  BY DEF IndexInit, Fresh, Undisturbed, UnderWay, OwedIsRead, OwedIsHeld, MemoryIsKept, Held,
     Resting, Parts
<1>2. Stored /\ Fresh /\ [IndexNext]_indexVars => Fresh'
  BY FreshStep
<1>3. Fresh => NewestServed
  BY DEF Fresh, OwedIsHeld, MemoryIsKept, Held, NewestServed
<1> QED
  BY <1>1, <1>2, <1>3, IndexStored, PTL DEF IndexSpec
=============================================================================
