------------------------ MODULE DocumentStoreProofs ------------------------
(* The document store, for any requests, loaders, chunks and crashes.         *)
EXTENDS DocumentStore, FiniteSetTheorems, TLAPS

(* What the operations make of the row they read.                             *)
LEMMA Rewritten ==
    ASSUME NEW r \in Row, NEW d \in Doc
    PROVE  /\ WithProcessing(r, d) \in Row
           /\ \A n \in Int : WithProcessed(r, d, n) \in Row
           /\ WithoutLoader(r, d) \in Row
           /\ \A o : WithCount(r, o, d) \in Row
<1> USE DEF Row, Loader, Status, NoLoader
<1>1. WithProcessing(r, d) \in Row
  BY DEF WithProcessing
<1>2. ASSUME NEW n \in Int PROVE WithProcessed(r, d, n) \in Row
  BY DEF WithProcessed
<1>3. WithoutLoader(r, d) \in Row
  BY DEF WithoutLoader
<1>4. ASSUME NEW o PROVE WithCount(r, o, d) \in Row
  BY DEF WithCount
<1> QED BY <1>1, <1>2, <1>3, <1>4

LEMMA StatusRewritten ==
    ASSUME NEW r \in Row
    PROVE  /\ WithConfig(r) \in Row
           /\ [r EXCEPT !.status = "UPSERTING"] \in Row
           /\ [r EXCEPT !.status = "UPSERTED"] \in Row
BY DEF WithConfig, Row, Status

LEMMA NoRowTyped == NoRow \in Row
BY DEF NoRow, Row, NoLoader, Loader, Status

LEMMA BoundType ==
    TypeOK => bound.size \in 1 .. Size /\ bound.crashes \in 0 .. MaxCrashes
BY StoreAssumption DEF TypeOK

LEMMA NewChunkTyped ==
    ASSUME TypeOK, NEW a \in Request, doc[a] \in Doc, NEW n \in 1 .. bound.size
    PROVE  NewChunk(a, n) \in Chunk
<1>1. n \in 1 .. Size /\ crashes \in 0 .. MaxCrashes
  BY BoundType, StoreAssumption DEF TypeOK
<1> QED BY <1>1 DEF TypeOK, NewChunk, Chunk

LEMMA FirstTyped == ASSUME NEW o \in Ops PROVE First(o) \in Steps
BY DEF Ops, LoaderOps, First, Steps


LEMMA NewChunksFinite ==
    ASSUME TypeOK, NEW a \in Request
    PROVE  IsFiniteSet({NewChunk(a, n) : n \in 1 .. bound.size})
<1> DEFINE f == [n \in 1 .. bound.size |-> NewChunk(a, n)]
           S == {NewChunk(a, n) : n \in 1 .. bound.size}
<1>1. f \in Surjection(1 .. bound.size, S)
  BY DEF Surjection
<1>2. IsFiniteSet(1 .. bound.size)
  <2>1. bound.size \in Int
    BY BoundType, StoreAssumption
  <2> QED BY <2>1, FS_Interval
<1> QED BY <1>1, <1>2, FS_Surjection

USE DEF Taken, Indexing, Shared, AllKeys

(* What the steps of the upsert of the vector store have in common.          *)
LEMMA IndexStep ==
    ASSUME TypeOK, StepsKnown, NEW a \in Request, Index(a)
    PROVE  /\ UNCHANGED <<tables, request, toSave, spoiled>> /\ promised' \subseteq promised
           /\ pc[a] \in Taken \cup {"gather", "purge"} /\ toSave[a] = {}
           /\ pc'[a] \in Taken \cup {"done", "failed"}
           /\ pc'[a] \in Taken => pc[a] \in Taken /\ copy' = copy /\ found' = found
           /\ op[a] \in {"insert", "upsert", "refresh", "deleteVectors"}
           /\ op[a] = "deleteVectors" => pc'[a] \in Shared \cup {"done", "failed"}
           /\ pc'[a] = "done" => op[a] = "deleteVectors"
           /\ pc'[a] # "failed" => copy' = copy /\ found' = found
           /\ copy' \in [Request -> Row] /\ found' \in [Request -> SUBSET Chunk]
           /\ \A b \in Request \ {a} : /\ pc'[b] = pc[b] /\ copy'[b] = copy[b] /\ found'[b] = found[b]
                                       /\ uids'[b] = uids[b] /\ old'[b] \subseteq old[b]
<1> DEFINE Common ==
           /\ UNCHANGED <<tables, request, toSave, spoiled>> /\ promised' \subseteq promised
           /\ pc[a] \in Taken \cup {"gather", "purge"}
           /\ pc'[a] \in Taken \cup {"done", "failed"}
           /\ pc'[a] \in Taken => pc[a] \in Taken
           /\ op[a] = "deleteVectors" => pc'[a] \in Shared \cup {"done", "failed"}
           /\ pc'[a] = "done" => op[a] = "deleteVectors"
           /\ pc'[a] # "failed" => copy' = copy /\ found' = found
           /\ copy' \in [Request -> Row] /\ found' \in [Request -> SUBSET Chunk]
           /\ \A b \in Request \ {a} : /\ pc'[b] = pc[b] /\ copy'[b] = copy[b] /\ found'[b] = found[b]
                                       /\ uids'[b] = uids[b] /\ old'[b] \subseteq old[b]
<1>0. TypeOK /\ StepKnown(a)
  BY DEF StepsKnown
<1> USE DEF Goto, At
<1>1. ASSUME Insert(a) PROVE Common
  BY <1>0, <1>1 DEF TypeOK, StepKnown, Insert, request, local, Unindexed
<1>2. ASSUME GetTime(a) PROVE Common
  BY <1>0, <1>2 DEF TypeOK, StepKnown, GetTime, request, local, Unindexed
<1>3. ASSUME FindExisting(a) PROVE Common
  BY <1>0, <1>3 DEF TypeOK, StepKnown, FindExisting, request, local, Unindexed
<1>4. ASSUME Skip(a) PROVE Common
  BY <1>0, <1>4 DEF TypeOK, StepKnown, Skip, request, local, Unindexed, Record
<1>5. ASSUME AddDocuments(a) PROVE Common
  BY <1>0, <1>5 DEF TypeOK, StepKnown, AddDocuments, request, local, Unindexed
<1>6. ASSUME RecordAll(a) PROVE Common
  BY <1>0, <1>6 DEF TypeOK, StepKnown, RecordAll, request, local, Unindexed, Record
<1>7. ASSUME ListKeys(a) PROVE Common
  BY <1>0, <1>7 DEF TypeOK, StepKnown, ListKeys, request, local, Unindexed
<1>8. ASSUME DeleteVectors(a) PROVE Common
  BY <1>0, <1>8 DEF TypeOK, StepKnown, DeleteVectors, request, local, Unindexed
<1>9. ASSUME ForgetKeys(a) PROVE Common
  BY <1>0, <1>9 DEF TypeOK, StepKnown, ForgetKeys, request, local, Unindexed
<1>10. ASSUME IndexFails(a) PROVE Common
  BY <1>0, <1>10, NoRowTyped DEF TypeOK, IndexFails, MayFail, Unindexed
<1>11. Common
  BY <1>1, <1>2, <1>3, <1>4, <1>5, <1>6, <1>7, <1>8, <1>9, <1>10 DEF Index
<1>12. toSave[a] = {} /\ op[a] \in {"insert", "upsert", "refresh", "deleteVectors"}
  BY <1>0, <1>11 DEF StepKnown
<1> QED BY <1>11, <1>12

LEMMA IndexTyped ==
    ASSUME TypeOK, StepsKnown, NEW a \in Request, Index(a) PROVE TypeOK'
<1> DEFINE Keys == AllKeys
           Typed == /\ vectors' \subseteq Keys /\ keys' \subseteq Keys /\ misled' \subseteq Request
                    /\ old' \in [Request -> SUBSET Keys] /\ uids' \in [Request -> SUBSET Keys]
                    /\ pc' \in [Request -> Steps \cup {"idle", "done", "failed"}]
                    /\ promised' \subseteq Doc
<1>0. TypeOK
  OBVIOUS
<1>00. Upserted(a) \subseteq Keys
  BY DEF TypeOK, Upserted, KeysOf
<1>01. /\ vectors \subseteq Keys /\ keys \subseteq Keys /\ misled \subseteq Request
       /\ old \in [Request -> SUBSET Keys] /\ uids \in [Request -> SUBSET Keys]
       /\ pc \in [Request -> Steps \cup {"idle", "done", "failed"}]
       /\ promised \subseteq Doc
  BY DEF TypeOK
<1> HIDE DEF Keys
<1> USE DEF Goto, Steps
<1>1. ASSUME Insert(a) PROVE Typed
  BY <1>00, <1>01, <1>1 DEF Insert, Unindexed
<1>2. ASSUME GetTime(a) PROVE Typed
  BY <1>00, <1>01, <1>2 DEF GetTime, Unindexed
<1>3. ASSUME FindExisting(a) PROVE Typed
  BY <1>00, <1>01, <1>3 DEF FindExisting, Unindexed
<1>4. ASSUME Skip(a) PROVE Typed
  BY <1>00, <1>01, <1>4 DEF Skip, Unindexed, Record
<1>5. ASSUME AddDocuments(a) PROVE Typed
  BY <1>00, <1>01, <1>5 DEF AddDocuments, Unindexed
<1>6. ASSUME RecordAll(a) PROVE Typed
  BY <1>00, <1>01, <1>6 DEF RecordAll, Unindexed, Record
<1>7. ASSUME ListKeys(a) PROVE Typed
  BY <1>00, <1>01, <1>7 DEF ListKeys, Unindexed, Older, OlderOfSources
<1>8. ASSUME DeleteVectors(a) PROVE Typed
  BY <1>00, <1>01, <1>8 DEF DeleteVectors, Unindexed
<1>9. ASSUME ForgetKeys(a) PROVE Typed
  BY <1>00, <1>01, <1>9 DEF ForgetKeys, Unindexed
<1>10. ASSUME IndexFails(a) PROVE Typed
  BY <1>01, <1>10 DEF IndexFails, Unindexed
<1>11. Typed
  BY <1>1, <1>2, <1>3, <1>4, <1>5, <1>6, <1>7, <1>8, <1>9, <1>10 DEF Index
<1> QED BY <1>0, <1>11, IndexStep DEF TypeOK, Keys, tables, request

LEMMA TypeNext ==
    ASSUME TypeOK, StepsKnown, NEW a \in Request, Step(a) PROVE TypeOK'
<1>0. TypeOK
  OBVIOUS
<1>01. StepsKnown
  OBVIOUS
<1>1. ASSUME NEW o \in Ops, NEW d \in Doc \cup {AllDocs}, Start(a, o, d) PROVE TypeOK'
  BY <1>0, <1>1, FirstTyped DEF TypeOK, Start, Goto, At, tables, store, request, local, Contested,
      Touches, LoaderOps
<1>2. ASSUME Register(a) PROVE TypeOK'
  BY <1>0, <1>2, NoRowTyped DEF TypeOK, Register, Read, Goto, At, tables, store, request, local, Steps
<1>3. ASSUME SaveRegistered(a) PROVE TypeOK'
  <2>1. copy[a] \in Row /\ doc[a] \in Doc
    BY <1>0, <1>01, <1>3 DEF TypeOK, SaveRegistered, SaveRow, Save, Goto, At, StepsKnown,
        StepKnown, LoaderOps
  <2>2. WithProcessing(copy[a], doc[a]) \in Row
    BY <2>1, Rewritten
  <2> QED BY <2>2, <1>0, <1>3, NoRowTyped DEF TypeOK, SaveRegistered, SaveRow, Save, Goto, At,
      tables, store, request, local, Steps, Overwritten
<1>4. ASSUME Lookup(a) PROVE TypeOK'
  BY <1>0, <1>4, NoRowTyped DEF TypeOK, Lookup, Read, Goto, At, tables, store, request, local, Steps
<1>5. ASSUME Load(a) PROVE TypeOK'
  BY <1>0, <1>5, NoRowTyped DEF TypeOK, Load, Read, Goto, At, tables, store, request, local, Steps
<1>6. ASSUME Split(a) PROVE TypeOK'
  <2>1. doc[a] \in Doc
    BY <1>01, <1>6 DEF Split, At, StepsKnown, StepKnown, LoaderOps
  <2>2. {NewChunk(a, n) : n \in 1 .. bound.size} \subseteq Chunk
    BY <1>0, <2>1, NewChunkTyped
  <2> QED BY <2>1, <2>2, <1>0, <1>6, NoRowTyped DEF TypeOK, Split, Fail, Goto, At, tables,
      store, request, local, Steps, Overwritten
<1>7. ASSUME Clear(a) PROVE TypeOK'
  BY <1>0, <1>7, NoRowTyped DEF TypeOK, Clear, Goto, At, tables, store, request, local, Steps, Overwritten
<1>8. ASSUME NEW c \in toSave[a], SaveChunk(a, c) PROVE TypeOK'
  BY <1>0, <1>8, NoRowTyped DEF TypeOK, SaveChunk, tables, store, request, local, Steps, Overwritten
<1>9. ASSUME NEW c \in toSave[a], LoseChunk(a, c) PROVE TypeOK'
  <2>1. doc[a] \in Doc
    BY <1>01 DEF StepsKnown, StepKnown, LoaderOps
  <2> QED BY <2>1, <1>0, <1>9, NoRowTyped DEF TypeOK, LoseChunk, Fail, Goto, tables, store, request,
      local, Steps, Overwritten
<1>10. ASSUME SaveProcessed(a) PROVE TypeOK'
  <2>1. Cardinality(found[a]) \in Int
    BY <1>01, <1>10, FS_CardinalityType DEF SaveProcessed, At, StepsKnown, StepKnown
  <2>2. copy[a] \in Row /\ doc[a] \in Doc
    BY <1>0, <1>01, <1>10 DEF TypeOK, SaveProcessed, At, StepsKnown, StepKnown, LoaderOps
  <2>3. WithProcessed(copy[a], doc[a], Cardinality(found[a])) \in Row
    BY <2>1, <2>2, Rewritten
  <2> QED BY <2>2, <2>3, <1>0, <1>10, NoRowTyped DEF TypeOK, SaveProcessed, Fail, SaveRow, Save,
      Goto, At, tables, store, request, local, Steps, Overwritten
<1>11. ASSUME Check(a) PROVE TypeOK'
  BY <1>0, <1>11, NoRowTyped DEF TypeOK, Check, Goto, At, tables, store, request, local, Steps, Overwritten
<1>12. ASSUME Configure(a) PROVE TypeOK'
  BY <1>0, <1>12, NoRowTyped DEF TypeOK, Configure, Read, Goto, At, tables, store, request, local, Steps
<1>13. ASSUME SaveConfig(a) PROVE TypeOK'
  <2>1. WithConfig(copy[a]) \in Row
    BY <1>0, StatusRewritten DEF TypeOK
  <2> QED BY <2>1, <1>0, <1>13, NoRowTyped DEF TypeOK, SaveConfig, SaveRow, Save, Goto, At,
      tables, store, request, local, Steps, Overwritten
<1>14. ASSUME SaveUpserting(a) PROVE TypeOK'
  <2>1. [copy[a] EXCEPT !.status = "UPSERTING"] \in Row
    BY <1>0, StatusRewritten DEF TypeOK
  <2> QED BY <2>1, <1>0, <1>14, NoRowTyped DEF TypeOK, SaveUpserting, SaveRow, Save, Goto, At,
      tables, store, request, local, Steps, Overwritten
<1>15. ASSUME Gather(a) PROVE TypeOK'
  BY <1>0, <1>15, NoRowTyped DEF TypeOK, Gather, Goto, At, tables, store, request, local, Steps,
      Overwritten, ChunksOf
<1>16. ASSUME Index(a) PROVE TypeOK'
  BY <1>0, <1>01, <1>16, IndexTyped
<1>17. ASSUME Finish(a) PROVE TypeOK'
  <2>1. [copy[a] EXCEPT !.status = "UPSERTED"] \in Row
    BY <1>0, StatusRewritten DEF TypeOK
  <2>2. op[a] # "insert" => doc[a] \in Doc
    BY <1>0, <1>01, <1>17 DEF TypeOK, StepsKnown, StepKnown, LoaderOps, Finish, At
  <2> QED BY <2>1, <2>2, <1>0, <1>17, NoRowTyped DEF TypeOK, Finish, Save, Goto, At, tables,
      store, request, local, Steps, Overwritten
<1>18. ASSUME Remove(a) PROVE TypeOK'
  BY <1>0, <1>18, NoRowTyped DEF TypeOK, Remove, Read, Goto, At, tables, store, request, local, Steps
<1>19. ASSUME RemoveChunks(a) PROVE TypeOK'
  BY <1>0, <1>19, NoRowTyped DEF TypeOK, RemoveChunks, Goto, At, tables, store, request, local, Steps,
      Overwritten
<1>20. ASSUME SaveRemoved(a) PROVE TypeOK'
  <2>1. copy[a] \in Row /\ doc[a] \in Doc
    BY <1>0, <1>01, <1>20 DEF TypeOK, SaveRemoved, SaveRow, Save, Goto, At, StepsKnown,
        StepKnown, LoaderOps
  <2>2. WithoutLoader(copy[a], doc[a]) \in Row
    BY <2>1, Rewritten
  <2> QED BY <2>2, <1>0, <1>20, NoRowTyped DEF TypeOK, SaveRemoved, SaveRow, Save, Goto, At,
      tables, store, request, local, Steps, Overwritten
<1>21. ASSUME Pick(a) PROVE TypeOK'
  BY <1>0, <1>21, NoRowTyped DEF TypeOK, Pick, Read, Goto, At, tables, store, request, local, Steps
<1>22. ASSUME Find(a) PROVE TypeOK'
  BY <1>0, <1>22, NoRowTyped DEF TypeOK, Find, Fail, Goto, At, tables, store, request, local, Steps,
      Overwritten, ChunksOf
<1>23. ASSUME Change(a) PROVE TypeOK'
  <2>1. \A c \in Chunk : [c EXCEPT !.edited = TRUE] \in Chunk /\ c.doc \in Doc
    BY DEF Chunk
  <2>2. doc[a] \in Doc
    BY <1>01, <1>23 DEF Change, At, StepsKnown, StepKnown, LoaderOps
  <2> QED BY <2>1, <2>2, <1>0, <1>23, NoRowTyped DEF TypeOK, Change, Goto, At, tables, store,
      request, local, Steps
<1>24. ASSUME SaveCount(a) PROVE TypeOK'
  <2>1. copy[a] \in Row /\ doc[a] \in Doc
    BY <1>0, <1>01, <1>24 DEF TypeOK, SaveCount, SaveRow, Save, Goto, At, StepsKnown, StepKnown,
        LoaderOps
  <2>2. WithCount(copy[a], op[a], doc[a]) \in Row
    BY <2>1, Rewritten
  <2> QED BY <2>2, <1>0, <1>24, NoRowTyped DEF TypeOK, SaveCount, SaveRow, Save, Goto, At,
      tables, store, request, local, Steps, Overwritten
<1>25. ASSUME Wipe(a) PROVE TypeOK'
  BY <1>0, <1>25, NoRowTyped DEF TypeOK, Wipe, Goto, At, tables, store, request, local, Steps, Overwritten
<1>26. ASSUME WipeCheck(a) PROVE TypeOK'
  BY <1>0, <1>26, NoRowTyped DEF TypeOK, WipeCheck, Read, Goto, At, tables, store, request, local, Steps
<1>27. ASSUME WipeRow(a) PROVE TypeOK'
  BY <1>0, <1>27, NoRowTyped DEF TypeOK, WipeRow, Goto, At, tables, store, request, local, Steps,
      Overwritten
<1>28. ASSUME Rename(a) PROVE TypeOK'
  BY <1>0, <1>28, NoRowTyped DEF TypeOK, Rename, Read, Goto, At, tables, store, request, local, Steps
<1>29. ASSUME SaveRenamed(a) PROVE TypeOK'
  BY <1>0, <1>29, NoRowTyped DEF TypeOK, SaveRenamed, SaveRow, Save, Goto, At, tables, store, request,
      local, Steps, Overwritten
<1>30. ASSUME Crash(a) PROVE TypeOK'
  <2>1. First(op[a]) \in Steps
    BY <1>0, FirstTyped DEF TypeOK
  <2>2. LeftHalfway(a) \subseteq Doc
    BY <1>01 DEF LeftHalfway, Touches, StepsKnown, StepKnown
  <2>3. \A d \in Doc : Contested(a, op[a], d) \subseteq Doc
    BY DEF Contested, Touches
  <2>4. \A d : op[a] \notin LoaderOps => Contested(a, op[a], d) \subseteq Doc
    BY DEF Contested, Touches
  <2>5. bound' \in Bounds /\ crashes' \in 0 .. bound'.crashes
    BY <1>0, <1>30, StoreAssumption DEF TypeOK, Crash
  <2>6. pc' \in [Request -> Steps \cup {"idle", "done", "failed"}]
    BY <1>0, <1>30, <2>1 DEF TypeOK, Crash, Goto
  <2>7. /\ copy' \in [Request -> Row] /\ toSave' \in [Request -> SUBSET Chunk]
        /\ found' \in [Request -> SUBSET Chunk]
    BY <1>0, <1>30, NoRowTyped DEF TypeOK, Crash
  <2>8. op[a] \in LoaderOps => doc[a] \in Doc
    BY <1>01 DEF StepsKnown, StepKnown
  <2>9. doc' \in [Request -> Doc \cup {AllDocs}] /\ used' \subseteq Doc
    BY <1>0, <1>30 DEF TypeOK, Crash
  <2>10. spoiled' \subseteq Doc
    <3>1. CASE spoiled' = spoiled \cup LeftHalfway(a)
      BY <1>0, <2>2, <3>1 DEF TypeOK
    <3>2. CASE \E d \in IF op[a] = "upsert" THEN Doc \ used ELSE {doc[a]} :
                 spoiled' = spoiled \cup LeftHalfway(a) \cup Contested(a, op[a], d)
      <4>1. PICK d \in IF op[a] = "upsert" THEN Doc \ used ELSE {doc[a]} :
                 spoiled' = spoiled \cup LeftHalfway(a) \cup Contested(a, op[a], d)
        BY <3>2
      <4>2. Contested(a, op[a], d) \subseteq Doc
        BY <1>0, <2>3, <2>4, <2>8 DEF TypeOK, LoaderOps
      <4> QED BY <1>0, <2>2, <4>1, <4>2 DEF TypeOK
    <3> QED BY <1>30, <3>1, <3>2 DEF Crash
  <2>11. /\ old' \in [Request -> SUBSET AllKeys] /\ uids' \in [Request -> SUBSET AllKeys]
         /\ vectors' \subseteq AllKeys /\ keys' \subseteq AllKeys
         /\ misled' \subseteq Request /\ promised' \subseteq Doc
    BY <1>0, <1>30 DEF TypeOK, Crash, Unindexed
  <2> QED BY <1>0, <1>30, <2>5, <2>6, <2>7, <2>9, <2>10, <2>11 DEF TypeOK, Crash, tables
<1>31. ASSUME Purge(a) PROVE TypeOK'
  BY <1>0, <1>31 DEF TypeOK, Purge, Goto, At, tables, store, request, local, Steps
<1> QED BY <1>1, <1>2, <1>3, <1>4, <1>5, <1>6, <1>7, <1>8, <1>9, <1>10, <1>11, <1>12, <1>13,
    <1>14, <1>15, <1>16, <1>17, <1>18, <1>19, <1>20, <1>21, <1>22, <1>23, <1>24, <1>25, <1>26,
    <1>27, <1>28, <1>29, <1>30, <1>31 DEF Step

(* A step of one request leaves what is local to the others as it is.        *)
LEMMA Others ==
    ASSUME TypeOK, StepsKnown, NEW a \in Request, Step(a), NEW b \in Request \ {a}
    PROVE  /\ pc'[b] = pc[b] /\ op'[b] = op[b] /\ doc'[b] = doc[b]
           /\ copy'[b] = copy[b] /\ toSave'[b] = toSave[b] /\ found'[b] = found[b]
           /\ uids'[b] = uids[b] /\ old'[b] \subseteq old[b]
<1> DEFINE Same == /\ pc'[b] = pc[b] /\ op'[b] = op[b] /\ doc'[b] = doc[b]
                   /\ copy'[b] = copy[b] /\ toSave'[b] = toSave[b] /\ found'[b] = found[b]
                   /\ uids'[b] = uids[b] /\ old'[b] \subseteq old[b]
<1>0. TypeOK
  OBVIOUS
<1>01. StepsKnown
  OBVIOUS
<1>1. ASSUME NEW o \in Ops, NEW d \in Doc \cup {AllDocs}, Start(a, o, d) PROVE Same
  BY <1>0, <1>1 DEF TypeOK, Start, Goto, At, store, request, local
<1>2. ASSUME Register(a) PROVE Same
  BY <1>0, <1>2 DEF TypeOK, Register, Read, Goto, At, store, request, local
<1>3. ASSUME SaveRegistered(a) PROVE Same
  BY <1>0, <1>3 DEF TypeOK, SaveRegistered, SaveRow, Save, Goto, At, store, request, local
<1>4. ASSUME Lookup(a) PROVE Same
  BY <1>0, <1>4 DEF TypeOK, Lookup, Read, Goto, At, store, request, local
<1>5. ASSUME Load(a) PROVE Same
  BY <1>0, <1>5 DEF TypeOK, Load, Read, Goto, At, store, request, local
<1>6. ASSUME Split(a) PROVE Same
  BY <1>0, <1>6 DEF TypeOK, Split, Fail, Goto, At, store, request, local
<1>7. ASSUME Clear(a) PROVE Same
  BY <1>0, <1>7 DEF TypeOK, Clear, Goto, At, store, request, local
<1>8. ASSUME NEW c \in toSave[a], SaveChunk(a, c) PROVE Same
  BY <1>0, <1>8 DEF TypeOK, SaveChunk, store, request, local
<1>9. ASSUME NEW c \in toSave[a], LoseChunk(a, c) PROVE Same
  BY <1>0, <1>9 DEF TypeOK, LoseChunk, Fail, Goto, store, request, local
<1>10. ASSUME SaveProcessed(a) PROVE Same
  BY <1>0, <1>10 DEF TypeOK, SaveProcessed, Fail, SaveRow, Save, Goto, At, store, request, local
<1>11. ASSUME Check(a) PROVE Same
  BY <1>0, <1>11 DEF TypeOK, Check, Goto, At, store, request, local
<1>12. ASSUME Configure(a) PROVE Same
  BY <1>0, <1>12 DEF TypeOK, Configure, Read, Goto, At, store, request, local
<1>13. ASSUME SaveConfig(a) PROVE Same
  BY <1>0, <1>13 DEF TypeOK, SaveConfig, SaveRow, Save, Goto, At, store, request, local
<1>14. ASSUME SaveUpserting(a) PROVE Same
  BY <1>0, <1>14 DEF TypeOK, SaveUpserting, SaveRow, Save, Goto, At, store, request, local
<1>15. ASSUME Gather(a) PROVE Same
  BY <1>0, <1>15 DEF TypeOK, Gather, Goto, At, store, request, local
<1>16. ASSUME Index(a) PROVE Same
  BY <1>0, <1>01, <1>16, IndexStep DEF request
<1>17. ASSUME Finish(a) PROVE Same
  BY <1>0, <1>17 DEF TypeOK, Finish, Save, Goto, At, store, request, local
<1>18. ASSUME Remove(a) PROVE Same
  BY <1>0, <1>18 DEF TypeOK, Remove, Read, Goto, At, store, request, local
<1>19. ASSUME RemoveChunks(a) PROVE Same
  BY <1>0, <1>19 DEF TypeOK, RemoveChunks, Goto, At, store, request, local
<1>20. ASSUME SaveRemoved(a) PROVE Same
  BY <1>0, <1>20 DEF TypeOK, SaveRemoved, SaveRow, Save, Goto, At, store, request, local
<1>21. ASSUME Pick(a) PROVE Same
  BY <1>0, <1>21 DEF TypeOK, Pick, Read, Goto, At, store, request, local
<1>22. ASSUME Find(a) PROVE Same
  BY <1>0, <1>22 DEF TypeOK, Find, Fail, Goto, At, store, request, local
<1>23. ASSUME Change(a) PROVE Same
  BY <1>0, <1>23 DEF TypeOK, Change, Goto, At, store, request, local
<1>24. ASSUME SaveCount(a) PROVE Same
  BY <1>0, <1>24 DEF TypeOK, SaveCount, SaveRow, Save, Goto, At, store, request, local
<1>25. ASSUME Wipe(a) PROVE Same
  BY <1>0, <1>25 DEF TypeOK, Wipe, Goto, At, store, request, local
<1>26. ASSUME WipeCheck(a) PROVE Same
  BY <1>0, <1>26 DEF TypeOK, WipeCheck, Read, Goto, At, store, request, local
<1>27. ASSUME WipeRow(a) PROVE Same
  BY <1>0, <1>27 DEF TypeOK, WipeRow, Goto, At, store, request, local
<1>28. ASSUME Rename(a) PROVE Same
  BY <1>0, <1>28 DEF TypeOK, Rename, Read, Goto, At, store, request, local
<1>29. ASSUME SaveRenamed(a) PROVE Same
  BY <1>0, <1>29 DEF TypeOK, SaveRenamed, SaveRow, Save, Goto, At, store, request, local
<1>30. ASSUME Crash(a) PROVE Same
  BY <1>0, <1>30 DEF TypeOK, Crash, Goto, Unindexed, tables
<1>31. ASSUME Purge(a) PROVE Same
  BY <1>0, <1>31 DEF TypeOK, Purge, Goto, At, store, request, local
<1> QED BY <1>1, <1>2, <1>3, <1>4, <1>5, <1>6, <1>7, <1>8, <1>9, <1>10, <1>11, <1>12, <1>13,
    <1>14, <1>15, <1>16, <1>17, <1>18, <1>19, <1>20, <1>21, <1>22, <1>23, <1>24, <1>25, <1>26,
    <1>27, <1>28, <1>29, <1>30, <1>31 DEF Step

(* Every operation keeps to its part of the code.                            *)
LEMMA StepKnownNext ==
    ASSUME TypeOK, StepsKnown, NEW a \in Request, Step(a) PROVE StepKnown(a)'
<1> USE DEF LoaderOps
<1>0. TypeOK /\ StepKnown(a)
  BY DEF StepsKnown
<1>01. StepsKnown
  OBVIOUS
<1>1. ASSUME NEW o \in Ops, NEW d \in Doc \cup {AllDocs}, Start(a, o, d) PROVE StepKnown(a)'
  <2>1. /\ op'[a] = o /\ doc'[a] = d /\ pc'[a] = First(o) /\ toSave'[a] = {}
        /\ o \in LoaderOps => d \in Doc
    BY <1>0, <1>1 DEF TypeOK, StepKnown, Start, Goto, At, local
  <2>2. /\ First(o) \in {"register", "lookup", "load", "configure", "remove", "pick", "wipe",
                         "rename", "purge"}
        /\ First(o) = "register" => o \in {"save", "upsert"}
        /\ First(o) = "lookup" => o = "refresh"
        /\ First(o) = "load" => o = "process"
        /\ First(o) = "configure" => o = "insert"
        /\ First(o) = "remove" => o = "deleteLoader"
        /\ First(o) = "pick" => o \in {"deleteChunk", "editChunk"}
        /\ First(o) = "wipe" => o = "deleteStore"
        /\ First(o) = "rename" => o = "rename"
        /\ First(o) = "purge" => o = "deleteVectors"
    BY DEF Ops, First
  <2> QED BY <2>1, <2>2 DEF StepKnown
<1>2. ASSUME Register(a) PROVE StepKnown(a)'
  BY <1>0, <1>2 DEF TypeOK, StepKnown, Register, Read, Goto, At, request, local
<1>3. ASSUME SaveRegistered(a) PROVE StepKnown(a)'
  BY <1>0, <1>3 DEF TypeOK, StepKnown, SaveRegistered, SaveRow, Save, Goto, At, request, local
<1>4. ASSUME Lookup(a) PROVE StepKnown(a)'
  BY <1>0, <1>4 DEF TypeOK, StepKnown, Lookup, Read, Goto, At, request, local
<1>5. ASSUME Load(a) PROVE StepKnown(a)'
  BY <1>0, <1>5 DEF TypeOK, StepKnown, Load, Read, Goto, At, request, local
<1>6. ASSUME Split(a) PROVE StepKnown(a)'
  <2>1. IsFiniteSet({NewChunk(a, n) : n \in 1 .. bound.size})
    BY <1>0, NewChunksFinite
  <2>2. \A n \in 1 .. bound.size : NewChunk(a, n).doc = doc[a] /\ ~NewChunk(a, n).edited
    BY DEF NewChunk
  <2>3. UNCHANGED <<op, doc, toSave>> /\ toSave[a] = {}
    BY <1>0, <1>6 DEF StepKnown, Split, Fail, Goto, At, request
  <2>4. op[a] \in {"process", "upsert", "refresh"} /\ doc[a] \in Doc
    BY <1>0, <1>6 DEF StepKnown, Split, At
  <2>5. CASE pc'[a] = "clear"
    <3>1. found'[a] = {NewChunk(a, n) : n \in 1 .. bound.size}
      BY <1>0, <1>6, <2>5 DEF TypeOK, Split, Fail, Goto, At
    <3>2. IsFiniteSet(found'[a]) /\ \A c \in found'[a] : c.doc = doc[a] /\ ~c.edited
      BY <2>1, <2>2, <3>1
    <3> QED BY <2>3, <2>4, <2>5, <3>2 DEF StepKnown
  <2>6. CASE pc'[a] = "failed"
    BY <2>3, <2>4, <2>6 DEF StepKnown
  <2> QED BY <1>0, <1>6, <2>5, <2>6 DEF TypeOK, Split, Fail, Goto, At
<1>7. ASSUME Clear(a) PROVE StepKnown(a)'
  BY <1>0, <1>7 DEF TypeOK, StepKnown, Clear, Goto, At, request, local
<1>8. ASSUME NEW c \in toSave[a], SaveChunk(a, c) PROVE StepKnown(a)'
  BY <1>0, <1>8 DEF TypeOK, StepKnown, SaveChunk, request, local
<1>9. ASSUME NEW c \in toSave[a], LoseChunk(a, c) PROVE StepKnown(a)'
  BY <1>0, <1>9 DEF TypeOK, StepKnown, LoseChunk, Fail, Goto, request, local
<1>10. ASSUME SaveProcessed(a) PROVE StepKnown(a)'
  BY <1>0, <1>10 DEF TypeOK, StepKnown, SaveProcessed, Fail, SaveRow, Save, Goto, At, request, local
<1>11. ASSUME Check(a) PROVE StepKnown(a)'
  BY <1>0, <1>11 DEF TypeOK, StepKnown, Check, Goto, At, request, local
<1>12. ASSUME Configure(a) PROVE StepKnown(a)'
  BY <1>0, <1>12 DEF TypeOK, StepKnown, Configure, Read, Goto, At, request, local
<1>13. ASSUME SaveConfig(a) PROVE StepKnown(a)'
  BY <1>0, <1>13 DEF TypeOK, StepKnown, SaveConfig, SaveRow, Save, Goto, At, request, local
<1>14. ASSUME SaveUpserting(a) PROVE StepKnown(a)'
  BY <1>0, <1>14 DEF TypeOK, StepKnown, SaveUpserting, SaveRow, Save, Goto, At, request, local
<1>15. ASSUME Gather(a) PROVE StepKnown(a)'
  BY <1>0, <1>15 DEF TypeOK, StepKnown, Gather, Goto, At, request, local
<1>16. ASSUME Index(a) PROVE StepKnown(a)'
  BY <1>0, <1>01, <1>16, IndexStep DEF StepKnown, request
<1>17. ASSUME Finish(a) PROVE StepKnown(a)'
  BY <1>0, <1>17 DEF TypeOK, StepKnown, Finish, Save, Goto, At, request, local
<1>18. ASSUME Remove(a) PROVE StepKnown(a)'
  BY <1>0, <1>18 DEF TypeOK, StepKnown, Remove, Read, Goto, At, request, local
<1>19. ASSUME RemoveChunks(a) PROVE StepKnown(a)'
  BY <1>0, <1>19 DEF TypeOK, StepKnown, RemoveChunks, Goto, At, request, local
<1>20. ASSUME SaveRemoved(a) PROVE StepKnown(a)'
  BY <1>0, <1>20 DEF TypeOK, StepKnown, SaveRemoved, SaveRow, Save, Goto, At, request, local
<1>21. ASSUME Pick(a) PROVE StepKnown(a)'
  BY <1>0, <1>21 DEF TypeOK, StepKnown, Pick, Read, Goto, At, request, local, Exists
<1>22. ASSUME Find(a) PROVE StepKnown(a)'
  BY <1>0, <1>22 DEF TypeOK, StepKnown, Find, Fail, Goto, At, request, local, ChunksOf
<1>23. ASSUME Change(a) PROVE StepKnown(a)'
  BY <1>0, <1>23 DEF TypeOK, StepKnown, Change, Goto, At, request, local
<1>24. ASSUME SaveCount(a) PROVE StepKnown(a)'
  BY <1>0, <1>24 DEF TypeOK, StepKnown, SaveCount, SaveRow, Save, Goto, At, request, local
<1>25. ASSUME Wipe(a) PROVE StepKnown(a)'
  BY <1>0, <1>25 DEF TypeOK, StepKnown, Wipe, Goto, At, request, local
<1>26. ASSUME WipeCheck(a) PROVE StepKnown(a)'
  BY <1>0, <1>26 DEF TypeOK, StepKnown, WipeCheck, Read, Goto, At, request, local
<1>27. ASSUME WipeRow(a) PROVE StepKnown(a)'
  BY <1>0, <1>27 DEF TypeOK, StepKnown, WipeRow, Goto, At, request, local
<1>28. ASSUME Rename(a) PROVE StepKnown(a)'
  BY <1>0, <1>28 DEF TypeOK, StepKnown, Rename, Read, Goto, At, request, local
<1>29. ASSUME SaveRenamed(a) PROVE StepKnown(a)'
  BY <1>0, <1>29 DEF TypeOK, StepKnown, SaveRenamed, SaveRow, Save, Goto, At, request, local
<1>30. ASSUME Crash(a) PROVE StepKnown(a)'
  BY <1>0, <1>30 DEF TypeOK, StepKnown, Crash, Goto, request, local, Ops, First, JobOps, Steps
<1>31. ASSUME Purge(a) PROVE StepKnown(a)'
  BY <1>0, <1>31 DEF TypeOK, StepKnown, Purge, Goto, At, request, local
<1> QED BY <1>1, <1>2, <1>3, <1>4, <1>5, <1>6, <1>7, <1>8, <1>9, <1>10, <1>11, <1>12, <1>13,
    <1>14, <1>15, <1>16, <1>17, <1>18, <1>19, <1>20, <1>21, <1>22, <1>23, <1>24, <1>25, <1>26,
    <1>27, <1>28, <1>29, <1>30, <1>31 DEF Step

LEMMA StepsKnownNext ==
    ASSUME TypeOK, StepsKnown, NEW a \in Request, Step(a) PROVE StepsKnown'
<1> SUFFICES ASSUME NEW b \in Request PROVE StepKnown(b)'
  BY DEF StepsKnown
<1>1. CASE b = a
  BY <1>1, StepKnownNext
<1>2. CASE b # a
  <2>1. /\ pc'[b] = pc[b] /\ op'[b] = op[b] /\ doc'[b] = doc[b]
        /\ copy'[b] = copy[b] /\ toSave'[b] = toSave[b] /\ found'[b] = found[b]
    BY <1>2, Others
  <2>2. StepKnown(b)
    BY DEF StepsKnown
  <2> QED BY <2>1, <2>2 DEF StepKnown
<1> QED BY <1>1, <1>2

(* A deleted row is gone as a whole, and nobody saves a row that he did not find. *)
LEMMA RowsKnownNext ==
    ASSUME TypeOK, StepsKnown, RowsKnown, NEW a \in Request, Step(a) PROVE RowsKnown'
<1> DEFINE SavesFound(b) == pc[b] \in Carries \cup {"registerSave", "renameSave"} /\ op[b] # "deleteVectors"
                              => Exists(copy[b])
           RowKnown == ~Exists(row) => row = NoRow
           Known == SavesFound(a)' /\ RowKnown'
<1> USE DEF Carries, Exists
<1>0. TypeOK /\ RowKnown /\ SavesFound(a) /\ StepKnown(a)
  BY DEF RowsKnown, StepsKnown
<1>01. StepsKnown
  OBVIOUS
<1>1. ASSUME NEW o \in Ops, NEW d \in Doc \cup {AllDocs}, Start(a, o, d) PROVE Known
  BY <1>0, <1>1 DEF TypeOK, Start, Goto, At, tables, store, request, local, First, Ops, LoaderOps
<1>2. ASSUME Register(a) PROVE Known
  BY <1>0, <1>2 DEF TypeOK, Register, Read, Goto, At, tables, store, request, local
<1>3. ASSUME SaveRegistered(a) PROVE Known
  BY <1>0, <1>3 DEF TypeOK, SaveRegistered, SaveRow, Save, Goto, At, tables, store, request, local,
      SavesAgain, WithProcessing, StepKnown
<1>4. ASSUME Lookup(a) PROVE Known
  BY <1>0, <1>4 DEF TypeOK, Lookup, Read, Goto, At, tables, store, request, local
<1>5. ASSUME Load(a) PROVE Known
  BY <1>0, <1>5 DEF TypeOK, Load, Read, Goto, At, tables, store, request, local
<1>6. ASSUME Split(a) PROVE Known
  BY <1>0, <1>6 DEF TypeOK, Split, Fail, Goto, At, tables, store, request, local
<1>7. ASSUME Clear(a) PROVE Known
  BY <1>0, <1>7 DEF TypeOK, Clear, Goto, At, tables, store, request, local
<1>8. ASSUME NEW c \in toSave[a], SaveChunk(a, c) PROVE Known
  BY <1>0, <1>8 DEF TypeOK, SaveChunk, tables, store, request, local
<1>9. ASSUME NEW c \in toSave[a], LoseChunk(a, c) PROVE Known
  BY <1>0, <1>9 DEF TypeOK, LoseChunk, Fail, Goto, tables, store, request, local
<1>10. ASSUME SaveProcessed(a) PROVE Known
  BY <1>0, <1>10 DEF TypeOK, SaveProcessed, Fail, SaveRow, Save, Goto, At, tables, store, request,
      local, SavesAgain, WithProcessed
<1>11. ASSUME Check(a) PROVE Known
  BY <1>0, <1>11 DEF TypeOK, Check, Goto, At, tables, store, request, local
<1>12. ASSUME Configure(a) PROVE Known
  BY <1>0, <1>12 DEF TypeOK, Configure, Read, Goto, At, tables, store, request, local
<1>13. ASSUME SaveConfig(a) PROVE Known
  BY <1>0, <1>13 DEF TypeOK, SaveConfig, SaveRow, Save, Goto, At, tables, store, request, local,
      SavesAgain, WithConfig, Row, Status
<1>14. ASSUME SaveUpserting(a) PROVE Known
  BY <1>0, <1>14 DEF TypeOK, SaveUpserting, SaveRow, Save, Goto, At, tables, store, request, local,
      SavesAgain, Row
<1>15. ASSUME Gather(a) PROVE Known
  BY <1>0, <1>15 DEF TypeOK, Gather, Goto, At, tables, store, request, local
<1>16. ASSUME Index(a) PROVE Known
  BY <1>0, <1>01, <1>16, IndexStep DEF tables, request
<1>17. ASSUME Finish(a) PROVE Known
  BY <1>0, <1>17 DEF TypeOK, Finish, Save, Goto, At, tables, store, request, local, SavesAgain, Row
<1>18. ASSUME Remove(a) PROVE Known
  BY <1>0, <1>18 DEF TypeOK, Remove, Read, Goto, At, tables, store, request, local
<1>19. ASSUME RemoveChunks(a) PROVE Known
  BY <1>0, <1>19 DEF TypeOK, RemoveChunks, Goto, At, tables, store, request, local
<1>20. ASSUME SaveRemoved(a) PROVE Known
  BY <1>0, <1>20 DEF TypeOK, SaveRemoved, SaveRow, Save, Goto, At, tables, store, request, local,
      SavesAgain, WithoutLoader, StepKnown
<1>21. ASSUME Pick(a) PROVE Known
  BY <1>0, <1>21 DEF TypeOK, Pick, Read, Goto, At, tables, store, request, local
<1>22. ASSUME Find(a) PROVE Known
  BY <1>0, <1>22 DEF TypeOK, Find, Fail, Goto, At, tables, store, request, local
<1>23. ASSUME Change(a) PROVE Known
  BY <1>0, <1>23 DEF TypeOK, Change, Goto, At, tables, store, request, local
<1>24. ASSUME SaveCount(a) PROVE Known
  BY <1>0, <1>24 DEF TypeOK, SaveCount, SaveRow, Save, Goto, At, tables, store, request, local,
      SavesAgain, WithCount, StepKnown
<1>25. ASSUME Wipe(a) PROVE Known
  BY <1>0, <1>25 DEF TypeOK, Wipe, Goto, At, tables, store, request, local
<1>26. ASSUME WipeCheck(a) PROVE Known
  BY <1>0, <1>26 DEF TypeOK, WipeCheck, Read, Goto, At, tables, store, request, local
<1>27. ASSUME WipeRow(a) PROVE Known
  BY <1>0, <1>27 DEF TypeOK, WipeRow, Goto, At, tables, store, request, local
<1>28. ASSUME Rename(a) PROVE Known
  BY <1>0, <1>28 DEF TypeOK, Rename, Read, Goto, At, tables, store, request, local
<1>29. ASSUME SaveRenamed(a) PROVE Known
  BY <1>0, <1>29 DEF TypeOK, SaveRenamed, SaveRow, Save, Goto, At, tables, store, request, local,
      SavesAgain, StepKnown
<1>30. ASSUME Crash(a) PROVE Known
  <2>1. First(op[a]) \notin Carries \cup {"registerSave", "renameSave"}
    BY <1>0 DEF First, TypeOK, Ops, LoaderOps
  <2>2. pc'[a] \in {"failed", First(op[a])} /\ row' = row
    BY <1>0, <1>30 DEF TypeOK, Crash, Goto, tables
  <2> QED BY <1>0, <2>1, <2>2
<1>31. ASSUME Purge(a) PROVE Known
  BY <1>0, <1>31 DEF TypeOK, Purge, Goto, At, tables, request, local, StepKnown
<1>32. Known
  BY <1>1, <1>2, <1>3, <1>4, <1>5, <1>6, <1>7, <1>8, <1>9, <1>10, <1>11, <1>12, <1>13, <1>14,
      <1>15, <1>16, <1>17, <1>18, <1>19, <1>20, <1>21, <1>22, <1>23, <1>24, <1>25, <1>26, <1>27,
      <1>28, <1>29, <1>30, <1>31 DEF Step
<1>33. ASSUME NEW b \in Request \ {a} PROVE SavesFound(b)'
  BY <1>33, Others DEF RowsKnown
<1> QED BY <1>32, <1>33 DEF RowsKnown

(* A request whose row is as it read it changes only its own loaders.        *)
LEMMA OwnLoadersOnly ==
    ASSUME TypeOK, StepsKnown, NEW a \in Request, Step(a),
           NEW d \in Doc, row'.loaders[d] # row.loaders[d]
    PROVE  pc'[a] # pc[a] /\ (d \in Touches(op[a], doc[a]) \/ copy[a] # row)
<1> DEFINE Goal == pc'[a] # pc[a] /\ (d \in Touches(op[a], doc[a]) \/ copy[a] # row)
<1>0. TypeOK /\ StepKnown(a) /\ row'.loaders[d] # row.loaders[d]
  BY DEF StepsKnown
<1>01. StepsKnown
  OBVIOUS
<1>1. ASSUME NEW o \in Ops, NEW e \in Doc \cup {AllDocs}, Start(a, o, e) PROVE Goal
  BY <1>0, <1>1 DEF Start, Goto, At, tables
<1>2. ASSUME Register(a) PROVE Goal
  BY <1>0, <1>2 DEF Register, Read, Goto, At, tables
<1>3. ASSUME SaveRegistered(a) PROVE Goal
  BY <1>0, <1>3 DEF TypeOK, SaveRegistered, SaveRow, Save, Goto, At, tables, StepKnown, Touches,
      LoaderOps, Row, WithProcessing
<1>4. ASSUME Lookup(a) PROVE Goal
  BY <1>0, <1>4 DEF Lookup, Read, Goto, At, tables
<1>5. ASSUME Load(a) PROVE Goal
  BY <1>0, <1>5 DEF Load, Read, Goto, At, tables
<1>6. ASSUME Split(a) PROVE Goal
  BY <1>0, <1>6 DEF Split, Fail, Goto, At, tables
<1>7. ASSUME Clear(a) PROVE Goal
  BY <1>0, <1>7 DEF Clear, Goto, At, tables
<1>8. ASSUME NEW c \in toSave[a], SaveChunk(a, c) PROVE Goal
  BY <1>0, <1>8 DEF SaveChunk, tables
<1>9. ASSUME NEW c \in toSave[a], LoseChunk(a, c) PROVE Goal
  BY <1>0, <1>9 DEF LoseChunk, Fail, Goto, tables
<1>10. ASSUME SaveProcessed(a) PROVE Goal
  BY <1>0, <1>10 DEF TypeOK, SaveProcessed, Fail, SaveRow, Save, Goto, At, tables, StepKnown,
      Touches, LoaderOps, Row, WithProcessed
<1>11. ASSUME Check(a) PROVE Goal
  BY <1>0, <1>11 DEF Check, Goto, At, tables
<1>12. ASSUME Configure(a) PROVE Goal
  BY <1>0, <1>12 DEF Configure, Read, Goto, At, tables
<1>13. ASSUME SaveConfig(a) PROVE Goal
  <2>1. WithConfig(copy[a]).loaders = copy[a].loaders
    BY <1>0 DEF TypeOK, WithConfig, Row
  <2> QED BY <1>0, <1>13, <2>1 DEF TypeOK, SaveConfig, SaveRow, Save, Goto, At, tables
<1>14. ASSUME SaveUpserting(a) PROVE Goal
  BY <1>0, <1>14 DEF TypeOK, SaveUpserting, SaveRow, Save, Goto, At, tables, StepKnown, Touches,
      LoaderOps, Row
<1>15. ASSUME Gather(a) PROVE Goal
  BY <1>0, <1>15 DEF Gather, Goto, At, tables
<1>16. ASSUME Index(a) PROVE Goal
  BY <1>0, <1>01, <1>16, IndexStep DEF tables
<1>17. ASSUME Finish(a) PROVE Goal
  BY <1>0, <1>17 DEF TypeOK, Finish, Save, Goto, At, tables, StepKnown, Touches, LoaderOps, Row
<1>18. ASSUME Remove(a) PROVE Goal
  BY <1>0, <1>18 DEF Remove, Read, Goto, At, tables
<1>19. ASSUME RemoveChunks(a) PROVE Goal
  BY <1>0, <1>19 DEF RemoveChunks, Goto, At, tables
<1>20. ASSUME SaveRemoved(a) PROVE Goal
  BY <1>0, <1>20 DEF TypeOK, SaveRemoved, SaveRow, Save, Goto, At, tables, StepKnown, Touches,
      LoaderOps, Row, WithoutLoader
<1>21. ASSUME Pick(a) PROVE Goal
  BY <1>0, <1>21 DEF Pick, Read, Goto, At, tables
<1>22. ASSUME Find(a) PROVE Goal
  BY <1>0, <1>22 DEF Find, Fail, Goto, At, tables
<1>23. ASSUME Change(a) PROVE Goal
  BY <1>0, <1>23 DEF Change, Goto, At, tables
<1>24. ASSUME SaveCount(a) PROVE Goal
  BY <1>0, <1>24 DEF TypeOK, SaveCount, SaveRow, Save, Goto, At, tables, StepKnown, Touches,
      LoaderOps, Row, WithCount
<1>25. ASSUME Wipe(a) PROVE Goal
  BY <1>0, <1>25 DEF Wipe, Goto, At, tables
<1>26. ASSUME WipeCheck(a) PROVE Goal
  BY <1>0, <1>26 DEF WipeCheck, Read, Goto, At, tables
<1>27. ASSUME WipeRow(a) PROVE Goal
  BY <1>0, <1>27 DEF TypeOK, WipeRow, Goto, At, tables, StepKnown, Touches, LoaderOps, Row
<1>28. ASSUME Rename(a) PROVE Goal
  BY <1>0, <1>28 DEF Rename, Read, Goto, At, tables
<1>29. ASSUME SaveRenamed(a) PROVE Goal
  BY <1>0, <1>29 DEF TypeOK, SaveRenamed, SaveRow, Save, Goto, At, tables, StepKnown, Touches,
      LoaderOps, Row
<1>30. ASSUME Crash(a) PROVE Goal
  BY <1>0, <1>30 DEF Crash, Goto, tables
<1>31. ASSUME Purge(a) PROVE Goal
  BY <1>0, <1>31 DEF Purge, Goto, At, tables
<1> QED BY <1>1, <1>2, <1>3, <1>4, <1>5, <1>6, <1>7, <1>8, <1>9, <1>10, <1>11, <1>12, <1>13,
    <1>14, <1>15, <1>16, <1>17, <1>18, <1>19, <1>20, <1>21, <1>22, <1>23, <1>24, <1>25, <1>26,
    <1>27, <1>28, <1>29, <1>30, <1>31 DEF Step

(* Where a request newly works on a loader, nobody else does; only Clear     *)
(* takes a loader back from the spoiled ones, and only when it is alone.     *)
LEMMA WhoIsBusy ==
    ASSUME TypeOK, StepsKnown, NEW a \in Request, Step(a), NEW d \in Doc \ spoiled'
    PROVE  /\ d \in spoiled => Busy(a, d) /\ Rivals(a, d) = {}
           /\ Busy(a, d)' => Busy(a, d) \/ Rivals(a, d) = {}
<1> DEFINE Goal == /\ d \in spoiled => Busy(a, d) /\ Rivals(a, d) = {}
                   /\ Busy(a, d)' => Busy(a, d) \/ Rivals(a, d) = {}
<1>0. TypeOK /\ StepKnown(a) /\ d \notin spoiled'
  BY DEF StepsKnown
<1>01. StepsKnown
  OBVIOUS
<1>1. ASSUME NEW o \in Ops, NEW e \in Doc \cup {AllDocs}, Start(a, o, e) PROVE Goal
  <2>1. d \in spoiled => d \in spoiled'
    BY <1>1 DEF Start
  <2>2. d \in Touches(o, e) => Rivals(a, d) = {}
    BY <1>0, <1>1 DEF Start, Contested
  <2>3. op'[a] = o /\ doc'[a] = e
    BY <1>0, <1>1 DEF TypeOK, Start
  <2> QED BY <1>0, <2>1, <2>2, <2>3 DEF Busy
<1>2. ASSUME Register(a) PROVE Goal
  BY <1>0, <1>2 DEF TypeOK, Register, Read, Goto, At, request, Busy, Active, Steps
<1>3. ASSUME SaveRegistered(a) PROVE Goal
  BY <1>0, <1>3 DEF TypeOK, SaveRegistered, SaveRow, Save, Goto, At, request, Busy, Active,
      Steps, Overwritten
<1>4. ASSUME Lookup(a) PROVE Goal
  BY <1>0, <1>4 DEF TypeOK, Lookup, Read, Goto, At, request, Busy, Active, Steps
<1>5. ASSUME Load(a) PROVE Goal
  BY <1>0, <1>5 DEF TypeOK, Load, Read, Goto, At, request, Busy, Active, Steps
<1>6. ASSUME Split(a) PROVE Goal
  BY <1>0, <1>6 DEF TypeOK, Split, Fail, Goto, At, request, Busy, Active, Steps
<1>7. ASSUME Clear(a) PROVE Goal
  <2>1. Busy(a, doc[a]) /\ doc[a] \in Doc
    BY <1>0, <1>7 DEF Clear, At, StepKnown, Busy, Active, Steps, Touches, LoaderOps
  <2>2. d \in spoiled => d = doc[a] /\ Rivals(a, doc[a]) = {}
    BY <1>0, <1>7 DEF Clear
  <2>3. Busy(a, d)' => Busy(a, d)
    BY <1>0, <1>7 DEF TypeOK, Clear, At, request, Busy, Active, Steps
  <2> QED BY <2>1, <2>2, <2>3
<1>8. ASSUME NEW c \in toSave[a], SaveChunk(a, c) PROVE Goal
  BY <1>0, <1>8 DEF TypeOK, SaveChunk, request, Busy, Active, Steps
<1>9. ASSUME NEW c \in toSave[a], LoseChunk(a, c) PROVE Goal
  BY <1>0, <1>9 DEF TypeOK, LoseChunk, Fail, Goto, request, Busy, Active, Steps
<1>10. ASSUME SaveProcessed(a) PROVE Goal
  BY <1>0, <1>10 DEF TypeOK, SaveProcessed, Fail, SaveRow, Save, Goto, At, request, Busy,
      Active, Steps, Overwritten
<1>11. ASSUME Check(a) PROVE Goal
  BY <1>0, <1>11 DEF TypeOK, Check, Goto, At, request, Busy, Active, Steps
<1>12. ASSUME Configure(a) PROVE Goal
  BY <1>0, <1>12 DEF TypeOK, Configure, Read, Goto, At, request, Busy, Active, Steps
<1>13. ASSUME SaveConfig(a) PROVE Goal
  BY <1>0, <1>13 DEF TypeOK, SaveConfig, SaveRow, Save, Goto, At, request, Busy, Active, Steps,
      Overwritten
<1>14. ASSUME SaveUpserting(a) PROVE Goal
  BY <1>0, <1>14 DEF TypeOK, SaveUpserting, SaveRow, Save, Goto, At, request, Busy, Active,
      Steps, Overwritten
<1>15. ASSUME Gather(a) PROVE Goal
  BY <1>0, <1>15 DEF TypeOK, Gather, Goto, At, request, Busy, Active, Steps
<1>16. ASSUME Index(a) PROVE Goal
  BY <1>0, <1>01, <1>16, IndexStep DEF request, Busy, Active, Steps
<1>17. ASSUME Finish(a) PROVE Goal
  BY <1>0, <1>17 DEF TypeOK, Finish, Save, Goto, At, request, Busy, Active, Steps, Overwritten
<1>18. ASSUME Remove(a) PROVE Goal
  BY <1>0, <1>18 DEF TypeOK, Remove, Read, Goto, At, request, Busy, Active, Steps
<1>19. ASSUME RemoveChunks(a) PROVE Goal
  BY <1>0, <1>19 DEF TypeOK, RemoveChunks, Goto, At, request, Busy, Active, Steps
<1>20. ASSUME SaveRemoved(a) PROVE Goal
  BY <1>0, <1>20 DEF TypeOK, SaveRemoved, SaveRow, Save, Goto, At, request, Busy, Active, Steps,
      Overwritten
<1>21. ASSUME Pick(a) PROVE Goal
  BY <1>0, <1>21 DEF TypeOK, Pick, Read, Goto, At, request, Busy, Active, Steps
<1>22. ASSUME Find(a) PROVE Goal
  BY <1>0, <1>22 DEF TypeOK, Find, Fail, Goto, At, request, Busy, Active, Steps
<1>23. ASSUME Change(a) PROVE Goal
  BY <1>0, <1>23 DEF TypeOK, Change, Goto, At, request, Busy, Active, Steps
<1>24. ASSUME SaveCount(a) PROVE Goal
  BY <1>0, <1>24 DEF TypeOK, SaveCount, SaveRow, Save, Goto, At, request, Busy, Active, Steps,
      Overwritten
<1>25. ASSUME Wipe(a) PROVE Goal
  BY <1>0, <1>25 DEF TypeOK, Wipe, Goto, At, request, Busy, Active, Steps
<1>26. ASSUME WipeCheck(a) PROVE Goal
  BY <1>0, <1>26 DEF TypeOK, WipeCheck, Read, Goto, At, request, Busy, Active, Steps
<1>27. ASSUME WipeRow(a) PROVE Goal
  BY <1>0, <1>27 DEF TypeOK, WipeRow, Goto, At, request, Busy, Active, Steps
<1>28. ASSUME Rename(a) PROVE Goal
  BY <1>0, <1>28 DEF TypeOK, Rename, Read, Goto, At, request, Busy, Active, Steps
<1>29. ASSUME SaveRenamed(a) PROVE Goal
  BY <1>0, <1>29 DEF TypeOK, SaveRenamed, SaveRow, Save, Goto, At, request, Busy, Active, Steps,
      Overwritten
<1>30. ASSUME Crash(a) PROVE Goal
  <2>1. d \notin spoiled
    BY <1>0, <1>30 DEF Crash
  <2>2. CASE pc'[a] = "failed"
    BY <1>0, <1>30, <2>1, <2>2 DEF TypeOK, Crash, Busy, Active, Steps
  <2>3. CASE \E e \in Doc \cup {AllDocs} : /\ doc' = [doc EXCEPT ![a] = e]
                                      /\ spoiled' = spoiled \cup LeftHalfway(a) \cup Contested(a, op[a], e)
    <3>1. PICK e \in Doc \cup {AllDocs} : /\ doc' = [doc EXCEPT ![a] = e]
                                      /\ spoiled' = spoiled \cup LeftHalfway(a) \cup Contested(a, op[a], e)
      BY <2>3
    <3>2. d \in Touches(op[a], e) => Rivals(a, d) = {}
      BY <1>0, <3>1 DEF Contested
    <3>3. doc'[a] = e /\ op'[a] = op[a]
      BY <1>0, <3>1, <1>30 DEF TypeOK, Crash
    <3> QED BY <2>1, <3>2, <3>3 DEF Busy
  <2> QED BY <1>0, <1>30, <2>2, <2>3 DEF TypeOK, Crash, Goto
<1>31. ASSUME Purge(a) PROVE Goal
  BY <1>0, <1>31 DEF TypeOK, Purge, Goto, At, request, Busy, Active, Steps
<1> QED BY <1>1, <1>2, <1>3, <1>4, <1>5, <1>6, <1>7, <1>8, <1>9, <1>10, <1>11, <1>12, <1>13,
    <1>14, <1>15, <1>16, <1>17, <1>18, <1>19, <1>20, <1>21, <1>22, <1>23, <1>24, <1>25, <1>26,
    <1>27, <1>28, <1>29, <1>30, <1>31 DEF Step

(* So a loader that is not spoiled has one request at work at most.          *)
LEMMA NoRival ==
    ASSUME TypeOK, StepsKnown, Alone, NEW a \in Request, Step(a), NEW d \in Doc \ spoiled',
           Busy(a, d) \/ Busy(a, d)', NEW b \in Request \ {a}
    PROVE  ~Busy(b, d) /\ ~Busy(b, d)'
<1>1. Busy(b, d)' = Busy(b, d)
  BY Others DEF Busy, Active
<1>2. Rivals(a, d) = {} => ~Busy(b, d)
  BY DEF Rivals, Busy
<1>3. Busy(a, d) /\ d \notin spoiled => ~Busy(b, d)
  BY DEF Alone
<1> QED BY <1>1, <1>2, <1>3, WhoIsBusy

LEMMA AloneNext ==
    ASSUME TypeOK, StepsKnown, Alone, NEW a \in Request, Step(a) PROVE Alone'
<1> SUFFICES ASSUME NEW d \in Doc \ spoiled', NEW b \in Request, NEW c \in Request,
                    Busy(b, d)', Busy(c, d)'
             PROVE  b = c
  BY DEF Alone
<1>1. CASE a \in {b, c}
  BY <1>1, NoRival
<1>2. CASE a \notin {b, c}
  <2>1. Busy(b, d) /\ Busy(c, d)
    BY <1>2, Others DEF Busy, Active
  <2>2. ~Busy(a, d) \/ b = c
    BY <1>2, <2>1, NoRival
  <2>3. d \notin spoiled \/ b = c
    BY <2>2, WhoIsBusy
  <2> QED BY <2>1, <2>3 DEF Alone
<1> QED BY <1>1, <1>2

(* A loader the request is not at work on keeps its record and its chunks.   *)
LEMMA LeftAlone ==
    ASSUME TypeOK, StepsKnown, NEW a \in Request, Step(a), NEW d \in Doc \ spoiled', ~Busy(a, d)
    PROVE  /\ row'.loaders[d] = row.loaders[d] /\ ChunksOf(d)' = ChunksOf(d)
           /\ (d \in promised' => d \in promised)
<1> DEFINE Same == /\ row'.loaders[d] = row.loaders[d] /\ ChunksOf(d)' = ChunksOf(d)
                   /\ (d \in promised' => d \in promised)
<1>0. TypeOK /\ StepKnown(a) /\ d \notin spoiled' /\ ~Busy(a, d)
  BY DEF StepsKnown
<1>01. pc[a] \in Steps => d \notin Touches(op[a], doc[a])
  BY DEF Busy, Active
<1>02. StepsKnown
  OBVIOUS
<1>1. ASSUME NEW o \in Ops, NEW e \in Doc \cup {AllDocs}, Start(a, o, e) PROVE Same
  BY <1>0, <1>1 DEF Start, Goto, At, tables, ChunksOf
<1>2. ASSUME Register(a) PROVE Same
  BY <1>0, <1>2 DEF Register, Read, Goto, At, tables, ChunksOf
<1>3. ASSUME SaveRegistered(a) PROVE Same
  BY <1>0, <1>01, <1>3 DEF TypeOK, SaveRegistered, SaveRow, Save, Goto, At, Overwritten,
      ChunksOf, Steps
<1>4. ASSUME Lookup(a) PROVE Same
  BY <1>0, <1>4 DEF Lookup, Read, Goto, At, tables, ChunksOf
<1>5. ASSUME Load(a) PROVE Same
  BY <1>0, <1>5 DEF Load, Read, Goto, At, tables, ChunksOf
<1>6. ASSUME Split(a) PROVE Same
  BY <1>0, <1>6 DEF Split, Fail, Goto, At, tables, ChunksOf
<1>7. ASSUME Clear(a) PROVE Same
  <2>1. doc[a] # d
    BY <1>0, <1>01, <1>7 DEF Clear, Goto, At, StepKnown, Touches, LoaderOps, Steps
  <2> QED BY <2>1, <1>7 DEF Clear, Goto, At, ChunksOf
<1>8. ASSUME NEW c \in toSave[a], SaveChunk(a, c) PROVE Same
  <2>1. c.doc # d
    BY <1>0, <1>8 DEF StepKnown, Touches, LoaderOps, Busy, Active
  <2> QED BY <2>1, <1>8 DEF SaveChunk, ChunksOf
<1>9. ASSUME NEW c \in toSave[a], LoseChunk(a, c) PROVE Same
  BY <1>0, <1>9 DEF LoseChunk, Fail, Goto, tables, ChunksOf
<1>10. ASSUME SaveProcessed(a) PROVE Same
  <2>1. CASE HasLoader(copy[a], doc[a])
    BY <1>0, <1>01, <1>10, <2>1 DEF TypeOK, SaveProcessed, Fail, SaveRow, Save, Goto, At,
        Overwritten, ChunksOf, Steps
  <2>2. CASE ~HasLoader(copy[a], doc[a])
    BY <1>10, <2>2 DEF SaveProcessed, Fail, ChunksOf, tables
  <2> QED BY <2>1, <2>2
<1>11. ASSUME Check(a) PROVE Same
  BY <1>0, <1>11 DEF Check, Goto, At, tables, ChunksOf
<1>12. ASSUME Configure(a) PROVE Same
  BY <1>0, <1>12 DEF Configure, Read, Goto, At, tables, ChunksOf
<1>13. ASSUME SaveConfig(a) PROVE Same
  BY <1>0, <1>01, <1>13 DEF TypeOK, SaveConfig, SaveRow, Save, Goto, At, Overwritten, ChunksOf,
      Steps
<1>14. ASSUME SaveUpserting(a) PROVE Same
  BY <1>0, <1>01, <1>14 DEF TypeOK, SaveUpserting, SaveRow, Save, Goto, At, Overwritten,
      ChunksOf, Steps
<1>15. ASSUME Gather(a) PROVE Same
  BY <1>0, <1>15 DEF Gather, Goto, At, tables, ChunksOf
<1>16. ASSUME Index(a) PROVE Same
  BY <1>0, <1>02, <1>16, IndexStep DEF tables, ChunksOf
<1>17. ASSUME Finish(a) PROVE Same
  <2>1. row'.loaders[d] = row.loaders[d] /\ UNCHANGED chunks
    BY <1>0, <1>01, <1>17 DEF TypeOK, Finish, Save, Goto, At, Overwritten, Steps
  <2>2. op[a] # "insert" => doc[a] # d
    BY <1>0, <1>01, <1>17 DEF TypeOK, Finish, Save, Goto, At, StepKnown, Touches, LoaderOps, Steps
  <2>3. d \in promised' => d \in promised
    BY <2>2, <1>17 DEF Finish
  <2> QED BY <2>1, <2>3 DEF ChunksOf
<1>18. ASSUME Remove(a) PROVE Same
  BY <1>0, <1>18 DEF Remove, Read, Goto, At, tables, ChunksOf
<1>19. ASSUME RemoveChunks(a) PROVE Same
  <2>1. doc[a] # d
    BY <1>0, <1>01, <1>19 DEF RemoveChunks, Goto, At, StepKnown, Touches, LoaderOps, Steps
  <2> QED BY <2>1, <1>19 DEF RemoveChunks, Goto, At, ChunksOf
<1>20. ASSUME SaveRemoved(a) PROVE Same
  BY <1>0, <1>01, <1>20 DEF TypeOK, SaveRemoved, SaveRow, Save, Goto, At, Overwritten, ChunksOf,
      Steps
<1>21. ASSUME Pick(a) PROVE Same
  BY <1>0, <1>21 DEF Pick, Read, Goto, At, tables, ChunksOf
<1>22. ASSUME Find(a) PROVE Same
  BY <1>0, <1>22 DEF Find, Fail, Goto, At, tables, ChunksOf
<1>23. ASSUME Change(a) PROVE Same
  <2>1. doc[a] # d
    BY <1>0, <1>01, <1>23 DEF Change, Goto, At, StepKnown, Touches, LoaderOps, Steps
  <2>2. PICK c \in found[a] :
          /\ chunks' = (chunks \ WithId(c))
                         \cup (IF op[a] = "editChunk" THEN {[c EXCEPT !.edited = TRUE]} ELSE {})
          /\ spoiled' = IF c.doc = doc[a] THEN spoiled ELSE spoiled \cup {c.doc, doc[a]}
    BY <1>23 DEF Change
  <2>3. c \in Chunk /\ c.doc # d
    BY <1>0, <2>1, <2>2 DEF TypeOK
  <2>4. [c EXCEPT !.edited = TRUE].doc # d
    BY <2>3 DEF Chunk
  <2>5. \A e \in WithId(c) : e.doc # d
    BY <1>0, <2>3 DEF WithId, Chunk, TypeOK
  <2>6. ChunksOf(d)' = ChunksOf(d)
    BY <2>2, <2>4, <2>5 DEF ChunksOf
  <2> QED BY <2>6, <1>23 DEF Change
<1>24. ASSUME SaveCount(a) PROVE Same
  BY <1>0, <1>01, <1>24 DEF TypeOK, SaveCount, SaveRow, Save, Goto, At, Overwritten, ChunksOf, Steps
<1>25. ASSUME Wipe(a) PROVE Same
  BY <1>0, <1>01, <1>25 DEF Wipe, Goto, At, StepKnown, Touches, LoaderOps, Steps
<1>26. ASSUME WipeCheck(a) PROVE Same
  BY <1>0, <1>26 DEF WipeCheck, Read, Goto, At, tables, ChunksOf
<1>27. ASSUME WipeRow(a) PROVE Same
  BY <1>0, <1>01, <1>27 DEF WipeRow, Goto, At, StepKnown, Touches, LoaderOps, Steps
<1>28. ASSUME Rename(a) PROVE Same
  BY <1>0, <1>28 DEF Rename, Read, Goto, At, tables, ChunksOf
<1>29. ASSUME SaveRenamed(a) PROVE Same
  BY <1>0, <1>01, <1>29 DEF TypeOK, SaveRenamed, SaveRow, Save, Goto, At, Overwritten, ChunksOf,
      Steps
<1>30. ASSUME Crash(a) PROVE Same
  BY <1>0, <1>30 DEF Crash, Goto, tables, ChunksOf
<1>31. ASSUME Purge(a) PROVE Same
  BY <1>0, <1>31 DEF Purge, Goto, At, tables, ChunksOf
<1> QED BY <1>1, <1>2, <1>3, <1>4, <1>5, <1>6, <1>7, <1>8, <1>9, <1>10, <1>11, <1>12, <1>13,
    <1>14, <1>15, <1>16, <1>17, <1>18, <1>19, <1>20, <1>21, <1>22, <1>23, <1>24, <1>25, <1>26,
    <1>27, <1>28, <1>29, <1>30, <1>31 DEF Step

(* What is known of a loader depends on its record and its chunks only.      *)
LEMMA SoundSame ==
    ASSUME NEW d \in Doc, row'.loaders[d] = row.loaders[d], ChunksOf(d)' = ChunksOf(d),
           chunks \subseteq Chunk, chunks' \subseteq Chunk
    PROVE  /\ Proper(d) => Proper(d)'
           /\ Sound(d) => Sound(d)'
<1>1. ASSUME NEW c \in ChunksOf(d) PROVE WithId(c)' = WithId(c)
  <2>1. ASSUME NEW e, e \in chunks \/ e \in chunks', [e EXCEPT !.edited = c.edited] = c
        PROVE  e \in chunks <=> e \in chunks'
    <3>1. e.doc = d
      BY <2>1 DEF ChunksOf, Chunk
    <3> QED BY <3>1 DEF ChunksOf
  <2> QED BY <2>1 DEF WithId
<1>2. Proper(d) => Proper(d)'
  BY <1>1 DEF Proper
<1> QED BY <1>2 DEF Sound, HasLoader

LEMMA KeptElsewhere ==
    ASSUME IInv, TypeOK', NEW a \in Request, Step(a), NEW d \in Doc \ spoiled',
           ~Busy(a, d), ~Busy(a, d)'
    PROVE  Kept(d)'
<1>0. TypeOK /\ StepsKnown /\ d \notin spoiled
  BY WhoIsBusy DEF IInv
<1>1. /\ row'.loaders[d] = row.loaders[d] /\ ChunksOf(d)' = ChunksOf(d)
      /\ (d \in promised' => d \in promised)
  BY <1>0, LeftAlone
<1>2. Kept(d)
  BY <1>0 DEF IInv
<1>3. /\ Proper(d) => Proper(d)'
      /\ Sound(d) => Sound(d)'
  BY <1>0, <1>1, SoundSame DEF TypeOK
<1>4. ASSUME NEW b \in Request PROVE Busy(b, d)' = Busy(b, d)
  BY <1>0, <1>4, Others DEF Busy, Active
<1>5. ASSUME NEW b \in Request, Busy(b, d)' PROVE Mid(b, d)'
  <2>1. Busy(b, d) /\ b # a
    BY <1>4, <1>5
  <2>2. /\ pc'[b] = pc[b] /\ op'[b] = op[b] /\ doc'[b] = doc[b]
        /\ copy'[b] = copy[b] /\ toSave'[b] = toSave[b] /\ found'[b] = found[b]
    BY <1>0, <2>1, Others
  <2>3. Mid(b, d)
    BY <1>2, <2>1 DEF Kept
  <2> QED BY <1>1, <1>3, <2>2, <2>3 DEF Mid, Removed, HasLoader, ChunksOf
<1> QED BY <1>1, <1>2, <1>3, <1>4, <1>5 DEF Kept

(* What is kept for a loader that at most one request works on.              *)
KeptBy(a, d) == /\ Sound(d) \/ Busy(a, d)
                /\ Busy(a, d) => Mid(a, d)

Quiet == {"chunks", "change", "countSave", "removeSave", "wipeCheck", "wipeRow"} \cup Taken

(* A sound loader stays so when its record and its chunks are left alone.    *)
LEMMA Undisturbed ==
    ASSUME TypeOK, TypeOK', NEW a \in Request, NEW d \in Doc, Sound(d),
           row'.loaders[d] = row.loaders[d], ChunksOf(d)' = ChunksOf(d),
           d \in promised' => d \in promised,
           op'[a] # "save", pc'[a] \notin Quiet, toSave'[a] = {},
           pc'[a] \in Carries => copy'[a].loaders[d] = row'.loaders[d]
    PROVE  KeptBy(a, d)'
<1>1. Sound(d)'
  BY SoundSame DEF TypeOK
<1>2. Busy(a, d)' => pc'[a] # "failed"
  BY DEF Busy, Active, Steps
<1>3. Busy(a, d)' => Mid(a, d)'
  BY <1>1, <1>2 DEF Mid, Quiet
<1> QED BY <1>1, <1>3 DEF KeptBy

LEMMA KeptHere ==
    ASSUME IInv, TypeOK', NEW a \in Request, Step(a), NEW d \in Doc \ spoiled',
           Busy(a, d) \/ Busy(a, d)'
    PROVE  KeptBy(a, d)'
<1>0. TypeOK /\ StepKnown(a) /\ TypeOK' /\ StepKnown(a)' /\ d \notin spoiled' /\ RowsKnown
  BY StepKnownNext DEF IInv, StepsKnown
<1>01. d \notin spoiled /\ Busy(a, d) => Mid(a, d)
  BY DEF IInv, Kept
<1>02. d \notin spoiled /\ ~Busy(a, d) => Sound(d)
  BY NoRival DEF IInv, Kept
<1>04. Busy(a, d) \/ Busy(a, d)'
  OBVIOUS
<1>05. Busy(a, d) => \/ op[a] \in LoaderOps /\ doc[a] = d
                     \/ op[a] = "deleteStore"
  BY DEF Busy, Touches
<1>06. StepsKnown
  BY DEF IInv
<1>1. ASSUME NEW o \in Ops, NEW e \in Doc \cup {AllDocs}, Start(a, o, e) PROVE KeptBy(a, d)'
  <2>1. ~Busy(a, d) /\ d \notin spoiled
    BY <1>0, <1>1 DEF StepKnown, Start, At, Busy, Active, Steps
  <2>2. o # "save"
    BY <1>0, <1>04, <2>1, <1>1 DEF TypeOK, Start, Busy, Touches, LoaderOps
  <2>3. First(o) \notin Quiet \cup Carries
    BY DEF First, Ops, LoaderOps, Quiet, Carries
  <2>4. /\ row'.loaders[d] = row.loaders[d] /\ ChunksOf(d)' = ChunksOf(d)
        /\ (d \in promised' => d \in promised)
    BY <1>1 DEF Start, tables, ChunksOf
  <2>5. op'[a] = o /\ pc'[a] = First(o) /\ toSave'[a] = {}
    BY <1>0, <1>1 DEF TypeOK, StepKnown, Start, At, Goto, local
  <2> QED BY <1>0, <1>02, <2>1, <2>2, <2>3, <2>4, <2>5, Undisturbed
<1>2. ASSUME Register(a) PROVE KeptBy(a, d)'
  <2>1. Busy(a, d) /\ d \notin spoiled
    BY <1>0, <1>04, <1>2 DEF TypeOK, Register, Read, Goto, At, request, Busy, Active, Steps
  <2>2. Mid(a, d)
    BY <1>01, <2>1
  <2>3. Sound(d)
    BY <2>2, <1>2 DEF Register, Read, Goto, At, Mid, Halfway
  <2>4. /\ row'.loaders[d] = row.loaders[d] /\ ChunksOf(d)' = ChunksOf(d)
        /\ (d \in promised' => d \in promised)
    BY <1>0, <2>2, <1>2 DEF TypeOK, Mid, Carries, Register, Read, Goto, At, tables, ChunksOf
  <2>5. op'[a] # "save" /\ pc'[a] \notin Quiet /\ toSave'[a] = {}
    BY <1>0, <2>2, <1>2 DEF TypeOK, Mid, StepKnown, Register, Read, Goto, At, request, local, Quiet
  <2>6. pc'[a] \in Carries => copy'[a].loaders[d] = row'.loaders[d]
    BY <1>0, <2>2, <1>2 DEF TypeOK, Mid, Register, Read, Goto, At, tables, local, Carries
  <2> QED BY <1>0, <2>1, <2>3, <2>4, <2>5, <2>6, Undisturbed
<1>3. ASSUME SaveRegistered(a) PROVE KeptBy(a, d)'
  <2>1. Busy(a, d) /\ d \notin spoiled
    BY <1>0, <1>04, <1>3 DEF TypeOK, SaveRegistered, SaveRow, Save, Goto, At, request, Busy,
        Active, Steps
  <2>2. Mid(a, d)
    BY <1>01, <2>1
  <2>3. doc[a] = d
    BY <1>0, <1>05, <2>1, <1>3 DEF SaveRegistered, SaveRow, Save, Goto, At, StepKnown
  <2>4. row'.loaders[d].state = "SYNCING"
    BY <1>0, <2>3, <1>3 DEF TypeOK, SaveRegistered, SaveRow, Save, Goto, At, WithProcessing, Row
  <2>5. pc'[a] = "load" /\ op' = op /\ Busy(a, d)'
    BY <1>0, <2>1, <2>2, <1>3 DEF TypeOK, SaveRegistered, SaveRow, Save, Goto, At, request, Mid,
        Busy, Active, Steps
  <2>6. Mid(a, d)'
    BY <2>2, <2>4, <2>5 DEF Mid, Halfway, Carries, HasLoader
  <2> QED BY <2>5, <2>6 DEF KeptBy
<1>4. ASSUME Lookup(a) PROVE KeptBy(a, d)'
  <2>1. Busy(a, d) /\ d \notin spoiled
    BY <1>0, <1>04, <1>4 DEF TypeOK, Lookup, Read, Goto, At, request, Busy, Active, Steps
  <2>2. Mid(a, d)
    BY <1>01, <2>1
  <2>3. Sound(d)
    BY <2>2, <1>4 DEF Lookup, Read, Goto, At, Mid, Halfway
  <2>4. /\ row'.loaders[d] = row.loaders[d] /\ ChunksOf(d)' = ChunksOf(d)
        /\ (d \in promised' => d \in promised)
    BY <1>0, <2>2, <1>4 DEF TypeOK, Mid, Carries, Lookup, Read, Goto, At, tables, ChunksOf
  <2>5. op'[a] # "save" /\ pc'[a] \notin Quiet /\ toSave'[a] = {}
    BY <1>0, <2>2, <1>4 DEF TypeOK, Mid, StepKnown, Lookup, Read, Goto, At, request, local, Quiet
  <2>6. pc'[a] \in Carries => copy'[a].loaders[d] = row'.loaders[d]
    BY <1>0, <2>2, <1>4 DEF TypeOK, Mid, Lookup, Read, Goto, At, tables, local, Carries
  <2> QED BY <1>0, <2>1, <2>3, <2>4, <2>5, <2>6, Undisturbed
<1>5. ASSUME Load(a) PROVE KeptBy(a, d)'
  <2>1. Busy(a, d) /\ d \notin spoiled
    BY <1>0, <1>04, <1>5 DEF TypeOK, Load, Read, Goto, At, request, Busy, Active, Steps
  <2>2. Mid(a, d)
    BY <1>01, <2>1
  <2>3. CASE pc'[a] = "failed"
    <3>1. ~HasLoader(row, d)
      BY <1>0, <2>3, <1>5 DEF TypeOK, Load, Read, Goto, At, RowsKnown, NoRow, NoLoader, HasLoader
    <3>2. Sound(d)
      BY <2>2, <3>1, <1>5 DEF Mid, Load, At
    <3>3. /\ row'.loaders[d] = row.loaders[d] /\ ChunksOf(d)' = ChunksOf(d)
          /\ (d \in promised' => d \in promised)
          /\ op'[a] # "save" /\ toSave'[a] = {}
      BY <1>0, <2>2, <1>5 DEF Load, Read, Goto, At, tables, store, request, local, ChunksOf, Mid, StepKnown
    <3> QED BY <1>0, <2>1, <2>3, <3>2, <3>3, Undisturbed DEF Quiet, Carries
  <2>4. CASE pc'[a] = "split"
    <3>1. Busy(a, d)' /\ Mid(a, d)'
      BY <1>0, <2>1, <2>2, <2>4, <1>5 DEF Load, Read, Goto, At, request, Busy, Active, Steps,
          Mid, Halfway, Carries
    <3> QED BY <3>1 DEF KeptBy
  <2> QED BY <1>0, <2>3, <2>4, <1>5 DEF TypeOK, Load, Read, Goto, At
<1>6. ASSUME Split(a) PROVE KeptBy(a, d)'
  <2>1. Busy(a, d) /\ doc[a] = d
    BY <1>0, <1>04, <1>05, <1>6 DEF TypeOK, Split, Fail, Goto, At, request, StepKnown, Busy,
        Active, Steps, LoaderOps, Touches
  <2>2. pc'[a] = "clear" /\ UNCHANGED <<tables, op, doc, promised, spoiled>>
    BY <1>0, <2>1, <1>6 DEF TypeOK, Split, Fail, Goto, At, request
  <2>3. Mid(a, d) /\ d \notin spoiled
    BY <1>0, <1>01, <2>1, <2>2
  <2>4. Busy(a, d)' /\ Mid(a, d)'
    BY <2>1, <2>2, <2>3 DEF Busy, Active, Steps, Mid, Halfway, Carries
  <2> QED BY <2>2, <2>3, <2>4 DEF KeptBy, ChunksOf, tables
<1>7. ASSUME Clear(a) PROVE KeptBy(a, d)'
  <2>1. Busy(a, d) /\ doc[a] = d
    BY <1>0, <1>04, <1>05, <1>7 DEF TypeOK, Clear, Goto, At, request, StepKnown, Busy, Active,
        Steps, LoaderOps, Touches
  <2>2. pc'[a] = "chunks" /\ ChunksOf(d)' = {} /\ d \notin promised' /\ toSave'[a] = found'[a]
    BY <1>0, <2>1, <1>7 DEF TypeOK, Clear, Goto, At, ChunksOf
  <2>3. Busy(a, d)'
    BY <1>0, <2>1, <2>2, <1>7 DEF Clear, Goto, At, request, Busy, Active, Steps
  <2>4. op'[a] # "save"
    BY <1>0, <2>2 DEF StepKnown
  <2>5. Mid(a, d)'
    BY <2>2, <2>4 DEF Mid, Halfway, Carries
  <2> QED BY <2>2, <2>3, <2>5 DEF KeptBy
<1>8. ASSUME NEW c \in toSave[a], SaveChunk(a, c) PROVE KeptBy(a, d)'
  <2>1. Busy(a, d) /\ d \notin spoiled
    BY <1>0, <1>04, <1>8 DEF SaveChunk, request, Busy, Active
  <2>2. Mid(a, d)
    BY <1>01, <2>1
  <2>12. op[a] \in {"process", "upsert", "refresh"} /\ pc[a] \in {"chunks", "failed"} /\ c.doc = doc[a]
    BY <1>0 DEF StepKnown
  <2>3. pc[a] = "chunks" /\ doc[a] = d /\ c.doc = d
    BY <1>05, <2>1, <2>2, <2>12 DEF Mid
  <2>4. ChunksOf(d)' = ChunksOf(d) \cup {c} /\ toSave'[a] = toSave[a] \ {c}
    BY <1>0, <2>3, <1>8 DEF TypeOK, SaveChunk, ChunksOf
  <2>5. ChunksOf(d) \cup toSave[a] = found[a] /\ d \notin promised /\ op[a] # "save"
    BY <2>2, <2>3 DEF Mid
  <2>6. pc'[a] = "chunks" /\ Busy(a, d)' /\ found'[a] = found[a] /\ d \notin promised' /\ op'[a] # "save"
    BY <2>1, <2>3, <2>5, <1>8 DEF SaveChunk, request, Busy, Active, Steps
  <2>7. Mid(a, d)'
    BY <2>4, <2>5, <2>6 DEF Mid, Halfway, Carries
  <2> QED BY <2>6, <2>7 DEF KeptBy
<1>9. ASSUME NEW c \in toSave[a], LoseChunk(a, c) PROVE KeptBy(a, d)'
  <2>1. Busy(a, d) /\ op[a] \in {"process", "upsert", "refresh"}
    BY <1>0, <1>04, <1>9 DEF LoseChunk, Fail, Goto, request, Busy, Active, StepKnown
  <2> QED BY <1>0, <1>05, <2>1, <1>9 DEF LoseChunk, Fail, Goto
<1>10. ASSUME SaveProcessed(a) PROVE KeptBy(a, d)'
  <2>1. Busy(a, d) /\ doc[a] = d
    BY <1>0, <1>04, <1>05, <1>10 DEF TypeOK, SaveProcessed, Fail, SaveRow, Save, Goto, At,
        request, StepKnown, Busy, Active, Steps, LoaderOps, Touches
  <2>2. row' = WithProcessed(copy[a], d, Cardinality(found[a])) /\ pc'[a] = "check"
        /\ UNCHANGED <<chunks, op, doc, toSave, promised>> /\ spoiled \subseteq spoiled'
    BY <1>0, <2>1, <1>10 DEF TypeOK, SaveProcessed, Fail, SaveRow, Save, Goto, At, request
  <2>3. Mid(a, d) /\ pc[a] = "chunks" /\ toSave[a] = {}
    BY <1>0, <1>01, <2>1, <2>2, <1>10 DEF SaveProcessed, At
  <2>4. ChunksOf(d)' = found[a] /\ d \notin promised
    BY <2>2, <2>3 DEF Mid, ChunksOf
  <2>5. row'.loaders[d] = [state |-> "SYNC", total |-> Cardinality(ChunksOf(d)')]
    BY <1>0, <2>2, <2>4 DEF TypeOK, WithProcessed, Row
  <2>6. IsFiniteSet(found[a]) /\ \A c \in found[a] : c.doc = d /\ ~c.edited
    BY <1>0, <2>1, <2>3 DEF StepKnown
  <2>7. ASSUME NEW c \in ChunksOf(d)', NEW e \in chunks', [e EXCEPT !.edited = c.edited] = c
        PROVE  e = c
    <3>1. e \in Chunk /\ c \in Chunk /\ c \in found[a]
      BY <1>0, <2>4, <2>7 DEF TypeOK, ChunksOf
    <3>2. e.doc = d
      BY <2>6, <2>7, <3>1 DEF Chunk
    <3>3. e \in ChunksOf(d)'
      BY <2>7, <3>2 DEF ChunksOf
    <3>4. e.edited = c.edited
      BY <1>0, <2>4, <2>6, <3>1, <3>3 DEF TypeOK, Chunk
    <3>5. [e EXCEPT !.edited = e.edited] = e
      BY <3>1 DEF Chunk
    <3> QED BY <2>7, <3>4, <3>5
  <2>8. \A c \in ChunksOf(d)' : c \in chunks' /\ [c EXCEPT !.edited = c.edited] = c
    BY <1>0 DEF TypeOK, ChunksOf, Chunk
  <2>9. Proper(d)'
    BY <2>4, <2>6, <2>7, <2>8 DEF Proper, WithId
  <2>10. Sound(d)'
    BY <2>5, <2>9 DEF Sound, HasLoader
  <2>11. Mid(a, d)'
    BY <2>2, <2>3, <2>10 DEF Mid, Carries
  <2> QED BY <2>2, <2>4, <2>10, <2>11 DEF KeptBy
<1>11. ASSUME Check(a) PROVE KeptBy(a, d)'
  <2>1. Busy(a, d) /\ d \notin spoiled
    BY <1>0, <1>04, <1>11 DEF TypeOK, Check, Goto, At, request, Busy, Active, Steps
  <2>2. Mid(a, d)
    BY <1>01, <2>1
  <2>3. Sound(d)
    BY <2>2, <1>11 DEF Check, Goto, At, Mid, Halfway
  <2>4. /\ row'.loaders[d] = row.loaders[d] /\ ChunksOf(d)' = ChunksOf(d)
        /\ (d \in promised' => d \in promised)
    BY <1>0, <2>2, <1>11 DEF TypeOK, Mid, Carries, Check, Goto, At, tables, ChunksOf
  <2>5. op'[a] # "save" /\ pc'[a] \notin Quiet /\ toSave'[a] = {}
    BY <1>0, <2>2, <1>11 DEF TypeOK, Mid, StepKnown, Check, Goto, At, request, local, Quiet
  <2>6. pc'[a] \in Carries => copy'[a].loaders[d] = row'.loaders[d]
    BY <1>0, <2>2, <1>11 DEF TypeOK, Mid, Check, Goto, At, tables, local, Carries
  <2> QED BY <1>0, <2>1, <2>3, <2>4, <2>5, <2>6, Undisturbed
<1>12. ASSUME Configure(a) PROVE KeptBy(a, d)'
  <2>1. Busy(a, d) /\ d \notin spoiled
    BY <1>0, <1>04, <1>12 DEF TypeOK, Configure, Read, Goto, At, request, Busy, Active, Steps
  <2>2. Mid(a, d)
    BY <1>01, <2>1
  <2>3. Sound(d)
    BY <2>2, <1>12 DEF Configure, Read, Goto, At, Mid, Halfway
  <2>4. /\ row'.loaders[d] = row.loaders[d] /\ ChunksOf(d)' = ChunksOf(d)
        /\ (d \in promised' => d \in promised)
    BY <1>0, <2>2, <1>12 DEF TypeOK, Mid, Carries, Configure, Read, Goto, At, tables, ChunksOf
  <2>5. op'[a] # "save" /\ pc'[a] \notin Quiet /\ toSave'[a] = {}
    BY <1>0, <2>2, <1>12 DEF TypeOK, Mid, StepKnown, Configure, Read, Goto, At, request, local,
        Quiet
  <2>6. pc'[a] \in Carries => copy'[a].loaders[d] = row'.loaders[d]
    BY <1>0, <2>2, <1>12 DEF TypeOK, Mid, Configure, Read, Goto, At, tables, local, Carries
  <2> QED BY <1>0, <2>1, <2>3, <2>4, <2>5, <2>6, Undisturbed
<1>13. ASSUME SaveConfig(a) PROVE KeptBy(a, d)'
  <2>1. Busy(a, d) /\ d \notin spoiled
    BY <1>0, <1>04, <1>13 DEF TypeOK, SaveConfig, SaveRow, Save, Goto, At, request, Busy,
        Active, Steps
  <2>2. Mid(a, d)
    BY <1>01, <2>1
  <2>7. WithConfig(copy[a]).loaders = copy[a].loaders
    BY <1>0 DEF TypeOK, WithConfig, Row
  <2>3. Sound(d)
    BY <2>2, <1>13 DEF SaveConfig, SaveRow, Save, Goto, At, Mid, Halfway
  <2>4. /\ row'.loaders[d] = row.loaders[d] /\ ChunksOf(d)' = ChunksOf(d)
        /\ (d \in promised' => d \in promised)
    BY <1>0, <2>2, <2>7, <1>13 DEF TypeOK, Mid, Carries, SaveConfig, SaveRow, Save, Goto, At,
        tables, ChunksOf
  <2>5. op'[a] # "save" /\ pc'[a] \notin Quiet /\ toSave'[a] = {}
    BY <1>0, <2>2, <1>13 DEF TypeOK, Mid, StepKnown, SaveConfig, SaveRow, Save, Goto, At,
        request, local, Quiet
  <2>6. pc'[a] \in Carries => copy'[a].loaders[d] = row'.loaders[d]
    BY <1>0, <2>2, <1>13 DEF TypeOK, Mid, SaveConfig, SaveRow, Save, Goto, At, tables, local,
        Carries, SavesAgain
  <2> QED BY <1>0, <2>1, <2>3, <2>4, <2>5, <2>6, Undisturbed
<1>14. ASSUME SaveUpserting(a) PROVE KeptBy(a, d)'
  <2>1. Busy(a, d) /\ d \notin spoiled
    BY <1>0, <1>04, <1>14 DEF TypeOK, SaveUpserting, SaveRow, Save, Goto, At, request, Busy,
        Active, Steps
  <2>2. Mid(a, d)
    BY <1>01, <2>1
  <2>3. Sound(d)
    BY <2>2, <1>14 DEF SaveUpserting, SaveRow, Save, Goto, At, Mid, Halfway
  <2>4. /\ row'.loaders[d] = row.loaders[d] /\ ChunksOf(d)' = ChunksOf(d)
        /\ (d \in promised' => d \in promised)
    BY <1>0, <2>2, <1>14 DEF TypeOK, Mid, Carries, SaveUpserting, SaveRow, Save, Goto, At,
        tables, ChunksOf, Row
  <2>5. op'[a] # "save" /\ pc'[a] \notin Quiet /\ toSave'[a] = {}
    BY <1>0, <2>2, <1>14 DEF TypeOK, Mid, StepKnown, SaveUpserting, SaveRow, Save, Goto, At,
        request, local, Quiet
  <2>6. pc'[a] \in Carries => copy'[a].loaders[d] = row'.loaders[d]
    BY <1>0, <2>2, <1>14 DEF TypeOK, Mid, SaveUpserting, SaveRow, Save, Goto, At, tables, local,
        Carries
  <2> QED BY <1>0, <2>1, <2>3, <2>4, <2>5, <2>6, Undisturbed
<1>15. ASSUME Gather(a) PROVE KeptBy(a, d)'
  <2>1. Busy(a, d) /\ d \notin spoiled
    BY <1>0, <1>04, <1>15 DEF TypeOK, Gather, Goto, At, request, Busy, Active, Steps
  <2>2. Mid(a, d)
    BY <1>01, <2>1
  <2>3. doc[a] = d /\ d # AllDocs
    BY <1>0, <1>05, <2>1, <1>15, StoreAssumption DEF Gather, Goto, At, StepKnown
  <2>4. pc'[a] = "index" /\ found'[a] = ChunksOf(d)
        /\ UNCHANGED <<tables, store, request, copy, toSave, promised>>
    BY <1>0, <2>3, <1>15 DEF TypeOK, Gather, Goto, At
  <2>5. Sound(d) /\ copy[a].loaders[d] = row.loaders[d]
    BY <2>2, <1>15 DEF Mid, Gather, Goto, At, Halfway, Carries
  <2>6. Sound(d)' /\ ChunksOf(d)' = ChunksOf(d)
    BY <1>0, <2>4, <2>5, SoundSame DEF TypeOK, tables, ChunksOf
  <2>7. Mid(a, d)'
    BY <2>2, <2>4, <2>5, <2>6 DEF Mid, Carries, tables, store, request
  <2> QED BY <2>1, <2>4, <2>6, <2>7 DEF KeptBy, tables
<1>16. ASSUME Index(a) PROVE KeptBy(a, d)'
  <2>1. /\ UNCHANGED <<tables, request, toSave, spoiled>> /\ promised' \subseteq promised
        /\ pc[a] \in Taken \cup {"gather", "purge"} /\ toSave[a] = {}
        /\ pc'[a] \in Taken \cup {"done", "failed"}
        /\ pc'[a] \in Taken => pc[a] \in Taken /\ copy' = copy /\ found' = found
        /\ pc'[a] = "done" => op[a] = "deleteVectors"
    BY <1>0, <1>06, <1>16, IndexStep
  <2>2. Busy(a, d) /\ d \notin spoiled
    BY <1>0, <1>04, <2>1 DEF request, Busy, Active, Steps
  <2>3. Mid(a, d) /\ op[a] \in LoaderOps
    BY <1>0, <1>01, <1>05, <2>1, <2>2 DEF StepKnown
  <2>4. Sound(d) /\ row' = row /\ ChunksOf(d)' = ChunksOf(d) /\ op'[a] = op[a]
    BY <2>1, <2>3 DEF Mid, Halfway, tables, request, ChunksOf
  <2>5. CASE pc'[a] = "failed"
    BY <1>0, <2>1, <2>2, <2>3, <2>4, <2>5, Undisturbed DEF Mid, Quiet, Carries
  <2>6. CASE pc'[a] \in Taken
    <3>1. copy[a].loaders[d] = row.loaders[d] /\ ChunksOf(d) \subseteq found[a]
      BY <2>1, <2>3, <2>6 DEF Mid, Carries
    <3>2. Sound(d)'
      BY <1>0, <2>4, SoundSame DEF TypeOK
    <3>3. Mid(a, d)'
      BY <2>1, <2>3, <2>4, <2>6, <3>1, <3>2 DEF Mid
    <3> QED BY <3>2, <3>3 DEF KeptBy
  <2> QED BY <2>1, <2>3, <2>5, <2>6 DEF LoaderOps
<1>17. ASSUME Finish(a) PROVE KeptBy(a, d)'
  <2>1. Busy(a, d) /\ d \notin spoiled
    BY <1>0, <1>04, <1>17 DEF TypeOK, Finish, Save, Goto, At, request, Busy, Active, Steps
  <2>2. Mid(a, d)
    BY <1>01, <2>1
  <2>3. Sound(d) /\ copy[a].loaders[d] = row.loaders[d]
    BY <2>2, <1>17 DEF Mid, Finish, Save, Goto, At, Halfway, Carries
  <2>4. row'.loaders[d] = row.loaders[d] /\ ChunksOf(d)' = ChunksOf(d)
    BY <1>0, <2>3, <1>17 DEF TypeOK, Finish, Save, Goto, At, Row, ChunksOf
  <2>5. Sound(d)'
    BY <1>0, <2>3, <2>4, SoundSame DEF TypeOK
  <2>6. ~Busy(a, d)'
    BY <1>0, <1>17 DEF TypeOK, Finish, Save, Goto, At, StepKnown, request, Busy, Active, Steps
  <2> QED BY <2>3, <2>4, <2>5, <2>6 DEF KeptBy
<1>18. ASSUME Remove(a) PROVE KeptBy(a, d)'
  <2>1. Busy(a, d) /\ d \notin spoiled
    BY <1>0, <1>04, <1>18 DEF TypeOK, Remove, Read, Goto, At, request, Busy, Active, Steps
  <2>2. Mid(a, d)
    BY <1>01, <2>1
  <2>3. Sound(d)
    BY <2>2, <1>18 DEF Remove, Read, Goto, At, Mid, Halfway
  <2>4. /\ row'.loaders[d] = row.loaders[d] /\ ChunksOf(d)' = ChunksOf(d)
        /\ (d \in promised' => d \in promised)
    BY <1>0, <2>2, <1>18 DEF TypeOK, Mid, Carries, Remove, Read, Goto, At, tables, ChunksOf
  <2>5. op'[a] # "save" /\ pc'[a] \notin Quiet /\ toSave'[a] = {}
    BY <1>0, <2>2, <1>18 DEF TypeOK, Mid, StepKnown, Remove, Read, Goto, At, request, local, Quiet
  <2>6. pc'[a] \in Carries => copy'[a].loaders[d] = row'.loaders[d]
    BY <1>0, <2>2, <1>18 DEF TypeOK, Mid, Remove, Read, Goto, At, tables, local, Carries
  <2> QED BY <1>0, <2>1, <2>3, <2>4, <2>5, <2>6, Undisturbed
<1>19. ASSUME RemoveChunks(a) PROVE KeptBy(a, d)'
  <2>1. Busy(a, d) /\ d \notin spoiled
    BY <1>0, <1>04, <1>19 DEF TypeOK, RemoveChunks, Goto, At, request, Busy, Active, Steps
  <2>2. Mid(a, d)
    BY <1>01, <2>1
  <2>3. doc[a] = d /\ op[a] = "deleteLoader"
    BY <1>0, <1>05, <2>1, <1>19 DEF RemoveChunks, Goto, At, StepKnown
  <2>4. copy[a].loaders[d] = row.loaders[d]
    BY <2>2, <1>19 DEF Mid, RemoveChunks, Goto, At, Carries
  <2>5. ChunksOf(d)' = {} /\ pc'[a] = "removeSave" /\ UNCHANGED <<row, op, doc, copy>>
    BY <1>0, <2>3, <1>19 DEF TypeOK, RemoveChunks, Goto, At, ChunksOf, request, local
  <2>6. Busy(a, d)' /\ Mid(a, d)'
    BY <2>1, <2>3, <2>4, <2>5 DEF Mid, Halfway, Carries, Busy, Active, Steps
  <2> QED BY <2>5, <2>6 DEF KeptBy
<1>20. ASSUME SaveRemoved(a) PROVE KeptBy(a, d)'
  <2>1. Busy(a, d) /\ d \notin spoiled
    BY <1>0, <1>04, <1>20 DEF TypeOK, SaveRemoved, SaveRow, Save, Goto, At, request, Busy,
        Active, Steps
  <2>2. Mid(a, d)
    BY <1>01, <2>1
  <2>3. doc[a] = d
    BY <1>0, <1>05, <2>1, <1>20 DEF SaveRemoved, SaveRow, Save, Goto, At, StepKnown
  <2>4. ChunksOf(d)' = {}
    BY <2>2, <1>20 DEF Mid, SaveRemoved, SaveRow, Save, Goto, At, ChunksOf
  <2>5. row'.loaders[d] = NoLoader
    BY <1>0, <2>3, <1>20 DEF TypeOK, SaveRemoved, SaveRow, Save, Goto, At, WithoutLoader, Row
  <2>6. Sound(d)'
    BY <2>4, <2>5, FS_EmptySet DEF Sound, Proper, NoLoader, HasLoader
  <2>7. ~Busy(a, d)'
    BY <1>0, <1>20 DEF TypeOK, SaveRemoved, SaveRow, Save, Goto, At, StepKnown, request, Busy,
        Active, Steps
  <2> QED BY <2>4, <2>6, <2>7 DEF KeptBy
<1>21. ASSUME Pick(a) PROVE KeptBy(a, d)'
  <2>1. Busy(a, d) /\ d \notin spoiled
    BY <1>0, <1>04, <1>21 DEF TypeOK, Pick, Read, Goto, At, request, Busy, Active, Steps
  <2>2. Mid(a, d)
    BY <1>01, <2>1
  <2>3. Sound(d)
    BY <2>2, <1>21 DEF Pick, Read, Goto, At, Mid, Halfway
  <2>4. /\ row'.loaders[d] = row.loaders[d] /\ ChunksOf(d)' = ChunksOf(d)
        /\ (d \in promised' => d \in promised)
    BY <1>0, <2>2, <1>21 DEF TypeOK, Mid, Carries, Pick, Read, Goto, At, tables, ChunksOf
  <2>5. op'[a] # "save" /\ pc'[a] \notin Quiet /\ toSave'[a] = {}
    BY <1>0, <2>2, <1>21 DEF TypeOK, Mid, StepKnown, Pick, Read, Goto, At, request, local, Quiet
  <2>6. pc'[a] \in Carries => copy'[a].loaders[d] = row'.loaders[d]
    BY <1>0, <2>2, <1>21 DEF TypeOK, Mid, Pick, Read, Goto, At, tables, local, Carries
  <2> QED BY <1>0, <2>1, <2>3, <2>4, <2>5, <2>6, Undisturbed
<1>22. ASSUME Find(a) PROVE KeptBy(a, d)'
  <2>1. Busy(a, d) /\ d \notin spoiled
    BY <1>0, <1>04, <1>22 DEF TypeOK, Find, Fail, Goto, At, request, Busy, Active, Steps
  <2>2. Mid(a, d)
    BY <1>01, <2>1
  <2>3. doc[a] = d
    BY <1>0, <1>05, <2>1, <1>22 DEF Find, Fail, Goto, At, StepKnown
  <2>4. Sound(d) /\ copy[a].loaders[d] = row.loaders[d]
    BY <2>2, <1>22 DEF Mid, Find, Fail, Goto, At, Halfway, Carries
  <2>5. UNCHANGED <<tables, op, toSave, promised>> /\ ChunksOf(d)' = ChunksOf(d) /\ toSave[a] = {}
    BY <1>0, <1>22 DEF Find, Fail, Goto, At, tables, store, request, ChunksOf, StepKnown
  <2>6. CASE pc'[a] = "failed"
    BY <1>0, <2>1, <2>2, <2>4, <2>5, <2>6, Undisturbed DEF Mid, Quiet, Carries, tables
  <2>7. CASE pc'[a] = "change"
    <3>1. found'[a] \subseteq chunks /\ copy' = copy
      BY <1>0, <2>3, <2>7, <1>22 DEF TypeOK, Find, Fail, Goto, At
    <3>2. Sound(d)'
      BY <1>0, <2>4, <2>5, SoundSame DEF TypeOK, tables
    <3>3. Mid(a, d)'
      BY <2>2, <2>4, <2>5, <2>7, <3>1, <3>2 DEF Mid, Carries, tables
    <3> QED BY <2>1, <2>5, <3>2, <3>3 DEF KeptBy, tables
  <2> QED BY <1>0, <2>6, <2>7, <1>22 DEF TypeOK, Find, Fail, Goto, At
<1>23. ASSUME Change(a) PROVE KeptBy(a, d)'
  <2>1. Busy(a, d) /\ d \notin spoiled
    BY <1>0, <1>04, <1>23 DEF TypeOK, Change, Goto, At, request, Busy, Active, Steps
  <2>2. Mid(a, d)
    BY <1>01, <2>1
  <2>3. doc[a] = d /\ op[a] \in {"deleteChunk", "editChunk"}
    BY <1>0, <1>05, <2>1, <1>23 DEF Change, Goto, At, StepKnown
  <2>4. Sound(d) /\ copy[a].loaders[d] = row.loaders[d] /\ \A c \in found[a] : c.doc = d => c \in chunks
    BY <2>2, <1>23 DEF Mid, Change, Goto, At, Halfway, Carries
  <2>5. HasLoader(row, d)
    BY <1>0, <2>3, <2>4, <1>23 DEF Change, Goto, At, StepKnown, HasLoader
  <2>6. UNCHANGED <<row, op, doc, copy>> /\ pc'[a] = "countSave" /\ Busy(a, d)'
    BY <1>0, <2>1, <1>23 DEF TypeOK, Change, Goto, At, request, Busy, Active, Steps
  <2>7. PICK c \in found[a] :
          /\ chunks' = (chunks \ WithId(c))
                         \cup (IF op[a] = "editChunk" THEN {[c EXCEPT !.edited = TRUE]} ELSE {})
          /\ c.doc = doc[a]
    BY <1>0, <2>3, <1>23 DEF Change
  <2>8. /\ IsFiniteSet(ChunksOf(d)) /\ c \in ChunksOf(d) /\ WithId(c) = {c}
        /\ \A e \in ChunksOf(d) : WithId(e) = {e}
    BY <2>3, <2>4, <2>7 DEF Sound, Proper, ChunksOf
  <2>9. chunks' \subseteq Chunk /\ c \in Chunk
    BY <1>0, <2>8 DEF TypeOK, ChunksOf
  <2>10. /\ row.loaders[d].state # "SYNCING"
         /\ row.loaders[d].state = "SYNC" => row.loaders[d].total = Cardinality(ChunksOf(d))
         /\ row.loaders[d].total \in Int
    BY <1>0, <2>4 DEF Sound, TypeOK, Row, Loader
  <2>11. CASE op[a] = "deleteChunk"
    <3>1. ChunksOf(d)' = ChunksOf(d) \ {c} /\ chunks' \subseteq chunks
      BY <2>7, <2>8, <2>11 DEF ChunksOf
    <3>2. /\ IsFiniteSet(ChunksOf(d)')
          /\ Cardinality(ChunksOf(d)') = Cardinality(ChunksOf(d)) - 1
      BY <2>8, <3>1, FS_RemoveElement
    <3>3. ASSUME NEW e \in ChunksOf(d)' PROVE WithId(e)' = {e}
      <4>1. e \in ChunksOf(d) /\ e \in chunks'
        BY <3>1, <3>3 DEF ChunksOf
      <4>2. e \in WithId(e)'
        BY <2>9, <4>1 DEF WithId, Chunk
      <4>3. WithId(e)' \subseteq WithId(e)
        BY <3>1 DEF WithId
      <4> QED BY <2>8, <4>1, <4>2, <4>3
    <3>4. Proper(d)'
      BY <3>2, <3>3 DEF Proper
    <3>5. Mid(a, d)'
      BY <2>4, <2>6, <2>10, <2>11, <3>2, <3>4 DEF Mid, Halfway, Carries, Removed
    <3> QED BY <2>6, <3>5 DEF KeptBy
  <2>12. CASE op[a] = "editChunk"
    <3> DEFINE n == [c EXCEPT !.edited = TRUE]
    <3>1. n \in Chunk /\ n.doc = d
      BY <2>8, <2>9 DEF Chunk, ChunksOf
    <3>2. ChunksOf(d)' = (ChunksOf(d) \ {c}) \cup {n}
      BY <2>7, <2>8, <2>12, <3>1 DEF ChunksOf
    <3>3. n \in chunks => n = c
      <4>1. [n EXCEPT !.edited = c.edited] = c
        BY <2>9 DEF Chunk
      <4> QED BY <2>8, <4>1 DEF WithId
    <3>4. n \notin ChunksOf(d) \ {c}
      BY <3>3 DEF ChunksOf
    <3>5. /\ IsFiniteSet(ChunksOf(d) \ {c})
          /\ Cardinality(ChunksOf(d) \ {c}) = Cardinality(ChunksOf(d)) - 1
      BY <2>8, FS_RemoveElement
    <3>6. /\ IsFiniteSet(ChunksOf(d)')
          /\ Cardinality(ChunksOf(d)') = (Cardinality(ChunksOf(d)) - 1) + 1
      <4> DEFINE rest == ChunksOf(d) \ {c}
      <4>1. IsFiniteSet(rest) /\ n \notin rest
        BY <3>4, <3>5
      <4> HIDE DEF rest, n
      <4>2. IsFiniteSet(rest \cup {n}) /\ Cardinality(rest \cup {n}) = Cardinality(rest) + 1
        BY <4>1, FS_AddElement
      <4> QED BY <3>2, <3>5, <4>2 DEF rest
    <3>7. ASSUME NEW e \in ChunksOf(d)' PROVE WithId(e)' = {e}
      <4>1. e \in Chunk /\ e \in chunks' /\ [e EXCEPT !.edited = e.edited] = e
        BY <2>9 DEF ChunksOf, Chunk
      <4>2. ASSUME NEW f \in chunks', [f EXCEPT !.edited = e.edited] = e PROVE f = e
        <5>1. f \in Chunk /\ f.doc = d
          BY <2>9, <4>1, <4>2 DEF Chunk, ChunksOf
        <5>2. f \in ChunksOf(d)'
          BY <4>2, <5>1 DEF ChunksOf
        <5>3. CASE f = n /\ e # n
          <6>1. e \in ChunksOf(d) \ {c}
            BY <3>2, <5>3
          <6>2. [c EXCEPT !.edited = e.edited] = [n EXCEPT !.edited = e.edited]
            BY <2>9 DEF Chunk
          <6>3. c \in WithId(e)
            BY <2>8, <4>2, <5>3, <6>2 DEF WithId, ChunksOf
          <6> QED BY <2>8, <6>1, <6>3
        <5>4. CASE f # n /\ e = n
          <6>1. f \in ChunksOf(d) \ {c}
            BY <3>2, <5>2, <5>4
          <6>2. [f EXCEPT !.edited = c.edited] = c
            <7>1. [f EXCEPT !.edited = TRUE] = n
              BY <2>9, <4>2, <5>4 DEF Chunk
            <7> QED BY <2>9, <5>1, <7>1 DEF Chunk
          <6>3. f \in WithId(c)
            BY <6>1, <6>2 DEF WithId, ChunksOf
          <6> QED BY <2>8, <6>1, <6>3
        <5>5. CASE f # n /\ e # n
          <6>1. e \in ChunksOf(d) /\ f \in chunks
            BY <2>7, <2>12, <3>2, <5>5
          <6>2. f \in WithId(e)
            BY <4>2, <6>1 DEF WithId
          <6> QED BY <2>8, <6>1, <6>2
        <5> QED BY <5>3, <5>4, <5>5
      <4> QED BY <4>1, <4>2 DEF WithId
    <3>8. Proper(d)'
      BY <3>6, <3>7 DEF Proper
    <3>9. Cardinality(ChunksOf(d)') = Cardinality(ChunksOf(d))
      BY <2>8, <3>6, FS_CardinalityType
    <3>10. Mid(a, d)'
      BY <2>4, <2>6, <2>10, <2>12, <3>8, <3>9 DEF Mid, Halfway, Carries, Removed
    <3> QED BY <2>6, <3>10 DEF KeptBy
  <2> QED BY <2>3, <2>11, <2>12
<1>24. ASSUME SaveCount(a) PROVE KeptBy(a, d)'
  <2>1. Busy(a, d) /\ d \notin spoiled
    BY <1>0, <1>04, <1>24 DEF TypeOK, SaveCount, SaveRow, Save, Goto, At, request, Busy, Active,
        Steps
  <2>2. Mid(a, d)
    BY <1>01, <2>1
  <2>3. doc[a] = d /\ op[a] \in {"deleteChunk", "editChunk"} /\ HasLoader(copy[a], d)
    BY <1>0, <1>05, <2>1, <1>24 DEF SaveCount, SaveRow, Save, Goto, At, StepKnown
  <2>4. /\ copy[a].loaders[d] = row.loaders[d]
        /\ Proper(d) /\ row.loaders[d].state # "SYNCING"
        /\ row.loaders[d].state = "SYNC" => row.loaders[d].total - Removed(a) = Cardinality(ChunksOf(d))
    BY <2>2, <1>24 DEF Mid, SaveCount, SaveRow, Save, Goto, At, Carries
  <2>5. /\ row'.loaders[d].state = row.loaders[d].state
        /\ row'.loaders[d].total = row.loaders[d].total - Removed(a)
    <3>1. row' = WithCount(copy[a], op[a], d)
      BY <2>3, <1>24 DEF SaveCount, SaveRow, Save
    <3>2. copy[a] \in Row
      BY <1>0 DEF TypeOK
    <3>3. WithCount(copy[a], op[a], d).loaders[d] =
              [copy[a].loaders[d] EXCEPT !.total = @ - Removed(a)]
      BY <3>2 DEF WithCount, Removed, Row, Loader
    <3>4. row.loaders[d] \in Loader
      BY <1>0 DEF TypeOK, Row
    <3> QED BY <2>4, <3>1, <3>3, <3>4 DEF Loader
  <2>6. chunks' = chunks
    BY <1>24 DEF SaveCount, SaveRow, Save, Goto, At
  <2>7. Proper(d)' /\ ChunksOf(d)' = ChunksOf(d)
    BY <2>4, <2>6 DEF Proper, ChunksOf, WithId
  <2>8. row'.loaders[d].state # "none"
    BY <2>3, <2>4, <2>5 DEF HasLoader
  <2>9. Sound(d)'
    BY <2>4, <2>5, <2>7, <2>8 DEF Sound, HasLoader
  <2>10. ~Busy(a, d)'
    BY <1>0, <1>24 DEF TypeOK, SaveCount, SaveRow, Save, Goto, At, StepKnown, request, Busy,
        Active, Steps
  <2> QED BY <2>1, <2>6, <2>7, <2>9, <2>10 DEF KeptBy
<1>25. ASSUME Wipe(a) PROVE KeptBy(a, d)'
  <2>1. Busy(a, d) /\ d \notin spoiled
    BY <1>0, <1>04, <1>25 DEF TypeOK, Wipe, Goto, At, request, Busy, Active, Steps
  <2>2. Mid(a, d)
    BY <1>01, <2>1
  <2>3. ChunksOf(d)' = {} /\ pc'[a] = "wipeCheck" /\ Busy(a, d)' /\ op'[a] # "save"
    BY <1>0, <2>1, <2>2, <1>25 DEF TypeOK, Wipe, Goto, At, request, ChunksOf, Busy, Active,
        Steps, Mid
  <2>4. Mid(a, d)'
    BY <2>3 DEF Mid, Halfway, Carries
  <2> QED BY <2>3, <2>4 DEF KeptBy
<1>26. ASSUME WipeCheck(a) PROVE KeptBy(a, d)'
  <2>1. Busy(a, d) /\ d \notin spoiled
    BY <1>0, <1>04, <1>26 DEF TypeOK, WipeCheck, Read, Goto, At, request, Busy, Active, Steps
  <2>2. Mid(a, d)
    BY <1>01, <2>1
  <2>3. ChunksOf(d)' = {} /\ row' = row /\ op'[a] # "save" /\ toSave'[a] = {}
    BY <1>0, <2>2, <1>26 DEF WipeCheck, Read, Goto, At, tables, store, request, ChunksOf, Mid, StepKnown
  <2>4. CASE pc'[a] = "failed"
    <3>1. row' = NoRow
      BY <1>0, <2>3, <2>4, <1>26 DEF TypeOK, WipeCheck, Read, Goto, At, RowsKnown
    <3>2. Sound(d)'
      BY <2>3, <3>1, FS_EmptySet DEF Sound, Proper, NoRow, NoLoader, HasLoader
    <3>3. ~Busy(a, d)'
      BY <2>3, <2>4 DEF Busy, Active, Steps
    <3> QED BY <2>3, <3>2, <3>3 DEF KeptBy
  <2>5. CASE pc'[a] = "wipeRow"
    <3>1. Busy(a, d)' /\ Mid(a, d)'
      BY <2>1, <2>3, <2>5, <1>26 DEF WipeCheck, Read, Goto, At, request, Busy, Active, Steps,
          Mid, Halfway, Carries
    <3> QED BY <2>3, <3>1 DEF KeptBy
  <2> QED BY <1>0, <2>4, <2>5, <1>26 DEF TypeOK, WipeCheck, Read, Goto, At
<1>27. ASSUME WipeRow(a) PROVE KeptBy(a, d)'
  <2>1. Busy(a, d) /\ d \notin spoiled
    BY <1>0, <1>04, <1>27 DEF TypeOK, WipeRow, Goto, At, request, Busy, Active, Steps
  <2>2. Mid(a, d)
    BY <1>01, <2>1
  <2>3. ChunksOf(d)' = {} /\ row' = NoRow
    BY <2>2, <1>27 DEF WipeRow, Goto, At, ChunksOf, Mid
  <2>4. Sound(d)'
    BY <2>3, FS_EmptySet DEF Sound, Proper, NoRow, NoLoader, HasLoader
  <2>5. ~Busy(a, d)'
    BY <1>0, <1>27 DEF TypeOK, WipeRow, Goto, At, StepKnown, request, Busy, Active, Steps
  <2> QED BY <2>3, <2>4, <2>5 DEF KeptBy
<1>28. ASSUME Rename(a) PROVE KeptBy(a, d)'
  <2>1. FALSE
    BY <1>0, <1>04, <1>05, <1>28 DEF TypeOK, Rename, Read, Goto, At, request, StepKnown, Busy,
        Active, Touches, LoaderOps
  <2> QED BY <2>1
<1>29. ASSUME SaveRenamed(a) PROVE KeptBy(a, d)'
  <2>1. FALSE
    BY <1>0, <1>04, <1>05, <1>29 DEF TypeOK, SaveRenamed, SaveRow, Save, Goto, At, request,
        StepKnown, Busy, Active, Touches, LoaderOps
  <2> QED BY <2>1
<1>30. ASSUME Crash(a) PROVE KeptBy(a, d)'
  <2>1. d \notin spoiled /\ (Busy(a, d) => pc[a] \notin Halfway)
    BY <1>0, <1>30 DEF Crash, LeftHalfway, Busy
  <2>2. Sound(d)
    BY <1>01, <1>02, <2>1 DEF Mid
  <2>3. First(op[a]) \notin Quiet \cup Carries
    BY <1>0 DEF TypeOK, First, Ops, LoaderOps, Quiet, Carries
  <2>4. /\ row'.loaders[d] = row.loaders[d] /\ ChunksOf(d)' = ChunksOf(d)
        /\ (d \in promised' => d \in promised)
    BY <1>30 DEF Crash, tables, ChunksOf
  <2>5. pc'[a] \in {"failed", First(op[a])} /\ toSave'[a] = {} /\ op'[a] = op[a]
    BY <1>0, <1>30 DEF TypeOK, Crash, Goto
  <2>6. op'[a] # "save"
    <3>1. CASE Busy(a, d)
      BY <1>01, <2>1, <2>5, <3>1 DEF Mid
    <3>2. CASE op[a] \in JobOps
      BY <2>5, <3>2 DEF JobOps
    <3>3. CASE pc'[a] = "failed"
      BY <1>04, <2>5, <3>1, <3>3 DEF Busy, Active, Steps
    <3> QED BY <1>30, <3>2, <3>3, <1>0 DEF TypeOK, Crash, Goto
  <2>7. pc'[a] \notin Quiet \cup Carries
    BY <2>3, <2>5 DEF Quiet, Carries
  <2> QED BY <1>0, <2>1, <2>2, <2>4, <2>5, <2>6, <2>7, Undisturbed
<1>31. ASSUME Purge(a) PROVE KeptBy(a, d)'
  <2>1. FALSE
    BY <1>0, <1>04, <1>05, <1>31 DEF TypeOK, Purge, Goto, At, request, StepKnown, Busy, Active,
        Touches, LoaderOps
  <2> QED BY <2>1
<1> QED BY <1>1, <1>2, <1>3, <1>4, <1>5, <1>6, <1>7, <1>8, <1>9, <1>10, <1>11, <1>12, <1>13,
    <1>14, <1>15, <1>16, <1>17, <1>18, <1>19, <1>20, <1>21, <1>22, <1>23, <1>24, <1>25, <1>26,
    <1>27, <1>28, <1>29, <1>30, <1>31 DEF Step

LEMMA KeptNext ==
    ASSUME IInv, TypeOK', NEW a \in Request, Step(a), NEW d \in Doc \ spoiled'
    PROVE  Kept(d)'
<1>1. CASE ~Busy(a, d) /\ ~Busy(a, d)'
  BY <1>1, KeptElsewhere
<1>2. CASE Busy(a, d) \/ Busy(a, d)'
  <2>1. KeptBy(a, d)'
    BY <1>2, KeptHere
  <2>2. \A b \in Request \ {a} : ~Busy(b, d)'
    BY <1>2, NoRival DEF IInv
  <2> QED BY <2>1, <2>2 DEF KeptBy, Kept
<1> QED BY <1>1, <1>2

----------------------------------------------------------------------------
LEMMA InitIInv == ASSUME Init PROVE IInv
<1>1. PICK loaders \in SUBSET Doc, upserted \in BOOLEAN :
        /\ row = [status  |-> IF loaders = {} THEN "EMPTY"
                              ELSE IF upserted THEN "UPSERTED" ELSE "SYNC",
                  loaders |-> [d \in Doc |->
                      IF d \in loaders THEN [state |-> "SYNC", total |-> 1]
                      ELSE NoLoader]]
        /\ chunks = {FirstChunk(d) : d \in loaders}
        /\ vectors = IF upserted THEN KeysOf(chunks) ELSE {}
        /\ keys = vectors
        /\ used = loaders
        /\ promised = IF upserted THEN loaders ELSE {}
  BY DEF Init
<1>2. /\ pc = [a \in Request |-> "idle"]
      /\ op = [a \in Request |-> "rename"]
      /\ doc = [a \in Request |-> AllDocs]
      /\ copy = [a \in Request |-> NoRow]
      /\ toSave = [a \in Request |-> {}]
      /\ found = [a \in Request |-> {}]
      /\ old = [a \in Request |-> {}] /\ uids = [a \in Request |-> {}] /\ misled = {}
      /\ bound \in Bounds /\ crashes = 0 /\ spoiled = {}
  BY DEF Init
<1>3. \A d \in Doc : FirstChunk(d) \in Chunk /\ FirstChunk(d).doc = d
  BY StoreAssumption DEF FirstChunk, Chunk
<1>4. TypeOK
  <2>1. row \in Row
    BY <1>1 DEF Row, Status, Loader, NoLoader
  <2>2. chunks \subseteq Chunk /\ vectors \subseteq AllKeys /\ keys \subseteq AllKeys
    BY <1>1, <1>3 DEF KeysOf
  <2>3. used \subseteq Doc /\ promised \subseteq Doc
    BY <1>1
  <2>4. bound \in Bounds /\ crashes \in 0 .. bound.crashes
    <3>1. bound.crashes \in Nat
      BY <1>2, StoreAssumption
    <3> QED BY <1>2, <3>1
  <2> QED BY <1>2, <2>1, <2>2, <2>3, <2>4, NoRowTyped DEF TypeOK, Ops, LoaderOps
<1>5. StepsKnown
  BY <1>2 DEF StepsKnown, StepKnown, LoaderOps
<1>6. RowsKnown
  BY <1>1, <1>2 DEF RowsKnown, Exists, Carries
<1>7. \A a \in Request, d \in Doc : ~Busy(a, d)
  BY <1>2 DEF Busy, Active, Steps
<1>8. ASSUME NEW d \in Doc PROVE Kept(d)
  <2>1. CASE d \in loaders
    <3>1. ChunksOf(d) = {FirstChunk(d)}
      BY <1>1, <1>3, <2>1 DEF ChunksOf
    <3>2. IsFiniteSet(ChunksOf(d)) /\ Cardinality(ChunksOf(d)) = 1
      BY <3>1, FS_Singleton
    <3>3. WithId(FirstChunk(d)) = {FirstChunk(d)}
      <4>1. ASSUME NEW e \in chunks, [e EXCEPT !.edited = FirstChunk(d).edited] = FirstChunk(d)
            PROVE  e = FirstChunk(d)
        <5>1. PICK f \in loaders : e = FirstChunk(f)
          BY <1>1, <4>1
        <5> QED BY <4>1, <5>1 DEF FirstChunk
      <4>2. [FirstChunk(d) EXCEPT !.edited = FirstChunk(d).edited] = FirstChunk(d)
        BY DEF FirstChunk
      <4> QED BY <1>1, <2>1, <4>1, <4>2 DEF WithId
    <3>4. row.loaders[d] = [state |-> "SYNC", total |-> 1]
      BY <1>1, <2>1
    <3>5. Sound(d)
      BY <3>1, <3>2, <3>3, <3>4 DEF Sound, Proper, HasLoader
    <3> QED BY <1>7, <3>5 DEF Kept
  <2>2. CASE d \notin loaders
    <3>1. ChunksOf(d) = {}
      BY <1>1, <1>3, <2>2 DEF ChunksOf
    <3>2. row.loaders[d] = NoLoader
      BY <1>1, <2>2
    <3>3. Sound(d)
      BY <3>1, <3>2, FS_EmptySet DEF Sound, Proper, NoLoader, HasLoader
    <3> QED BY <1>7, <3>3 DEF Kept
  <2> QED BY <2>1, <2>2
<1> QED BY <1>4, <1>5, <1>6, <1>7, <1>8 DEF IInv, Alone

LEMMA NextIInv == ASSUME IInv, [Next]_vars PROVE IInv'
<1>1. CASE Next
  <2>1. PICK a \in Request : Step(a)
    BY <1>1 DEF Next
  <2>2. TypeOK'
    BY <2>1, TypeNext DEF IInv
  <2>3. StepsKnown' /\ RowsKnown' /\ Alone'
    BY <2>1, StepsKnownNext, RowsKnownNext, AloneNext DEF IInv
  <2>4. \A d \in Doc \ spoiled' : Kept(d)'
    BY <2>1, <2>2, KeptNext
  <2> QED BY <2>2, <2>3, <2>4 DEF IInv
<1>2. CASE UNCHANGED vars
  <2> USE <1>2 DEF vars, tables, store, request, local
  <2>1. TypeOK' /\ RowsKnown'
    BY DEF IInv, TypeOK, RowsKnown
  <2>2. StepsKnown'
    BY DEF IInv, StepsKnown, StepKnown
  <2>3. \A a \in Request, d \in Doc : Busy(a, d)' = Busy(a, d)
    BY DEF Busy, Active
  <2>4. Alone'
    BY <2>3 DEF IInv, Alone
  <2>5. ASSUME NEW d \in Doc \ spoiled' PROVE Kept(d)'
    <3>1. ChunksOf(d)' = ChunksOf(d) /\ Sound(d)' = Sound(d) /\ Proper(d)' = Proper(d)
      BY DEF ChunksOf, Sound, Proper, WithId
    <3>2. Kept(d)
      BY DEF IInv
    <3>3. \A a \in Request : Mid(a, d)' = Mid(a, d)
      BY <3>1 DEF Mid, Removed
    <3> QED BY <2>3, <3>1, <3>2, <3>3 DEF Kept
  <2> QED BY <2>1, <2>2, <2>4, <2>5 DEF IInv
<1> QED BY <1>1, <1>2

(* The invariant holds in every state of every execution.                    *)
THEOREM Invariant == Spec => []IInv
BY InitIInv, NextIInv, PTL DEF Spec

(* The row, the chunks, the vectors and what the requests carry keep their   *)
(* types, whichever requests overlap and whichever processes die.            *)
THEOREM TypeCorrect == Spec => []TypeOK
<1>1. IInv => TypeOK
  BY DEF IInv
<1> QED BY <1>1, Invariant, PTL

(* Nobody at work on a loader that is not spoiled leaves it sound.           *)
LEMMA SettledIsSound == ASSUME IInv, NEW d \in Doc, Settled(d) PROVE Sound(d)
<1>1. \A a \in Request : ~Busy(a, d)
  BY StoreAssumption DEF Settled, Rivals, Busy
<1> QED BY <1>1 DEF IInv, Kept, Settled

(* saveProcessingLoader, _saveChunksToStorage, editing and deleting chunks,  *)
(* loaders and the store: a loader's totalChunks is the number of its chunk  *)
(* rows, a loader that is gone has none, and SYNCING does not outlive the    *)
(* work, for any number of requests, as long as none overlapped or failed    *)
(* halfway since the loader was last processed alone.                        *)
THEOREM LoadersMatch == Spec => []LoadersMatchChunks
<1>1. IInv => LoadersMatchChunks
  BY SettledIsSound DEF LoadersMatchChunks, Sound
<1> QED BY <1>1, Invariant, PTL

----------------------------------------------------------------------------
(* The vectors.  A step outside the upsert of the vector store leaves them,  *)
(* and the chunks of a promised loader only shrink.                          *)
LEMMA VectorsLeft ==
    ASSUME TypeOK, StepsKnown, NEW a \in Request, Step(a), Indexed(a),
           ~Index(a), ~Finish(a), \A c \in toSave[a] : ~SaveChunk(a, c)
    PROVE  /\ vectors' = vectors /\ misled \ {a} \subseteq misled'
           /\ pc'[a] \notin Indexing \ {"list"} /\ (pc'[a] = "list" => op'[a] = "deleteVectors")
           /\ pc'[a] = "idle" \/ op'[a] = "deleteVectors" => found'[a] = {}
           /\ \A d \in promised' \ spoiled' :
                d \in promised \ spoiled /\ ChunksOf(d)' \subseteq ChunksOf(d)
<1> DEFINE Goal ==
           /\ vectors' = vectors /\ misled \ {a} \subseteq misled'
           /\ pc'[a] \notin Indexing \ {"list"} /\ (pc'[a] = "list" => op'[a] = "deleteVectors")
           /\ pc'[a] = "idle" \/ op'[a] = "deleteVectors" => found'[a] = {}
           /\ \A d \in promised' \ spoiled' :
                d \in promised \ spoiled /\ ChunksOf(d)' \subseteq ChunksOf(d)
<1>0. TypeOK /\ StepKnown(a) /\ (pc[a] = "idle" \/ op[a] = "deleteVectors" => found[a] = {})
  BY DEF StepsKnown, Indexed
<1> USE DEF Goto, At, tables, store, request, local, LoaderOps
<1>1. ASSUME NEW o \in Ops, NEW d \in Doc \cup {AllDocs}, Start(a, o, d) PROVE Goal
  BY <1>0, <1>1 DEF TypeOK, StepKnown, Start, Ops, First, ChunksOf
<1>2. ASSUME Register(a) PROVE Goal
  BY <1>0, <1>2 DEF TypeOK, StepKnown, Register, Read, ChunksOf
<1>3. ASSUME SaveRegistered(a) PROVE Goal
  BY <1>0, <1>3 DEF TypeOK, StepKnown, SaveRegistered, SaveRow, Save, SavesAgain, ChunksOf
<1>4. ASSUME Lookup(a) PROVE Goal
  BY <1>0, <1>4 DEF TypeOK, StepKnown, Lookup, Read, ChunksOf
<1>5. ASSUME Load(a) PROVE Goal
  BY <1>0, <1>5 DEF TypeOK, StepKnown, Load, Read, ChunksOf
<1>6. ASSUME Split(a) PROVE Goal
  BY <1>0, <1>6 DEF TypeOK, StepKnown, Split, Fail, ChunksOf
<1>7. ASSUME Clear(a) PROVE Goal
  BY <1>0, <1>7 DEF TypeOK, StepKnown, Clear, ChunksOf
<1>9. ASSUME NEW c \in toSave[a], LoseChunk(a, c) PROVE Goal
  BY <1>0, <1>9 DEF TypeOK, StepKnown, LoseChunk, Fail, ChunksOf
<1>10. ASSUME SaveProcessed(a) PROVE Goal
  BY <1>0, <1>10 DEF TypeOK, StepKnown, SaveProcessed, SaveRow, Save, Fail, ChunksOf
<1>11. ASSUME Check(a) PROVE Goal
  BY <1>0, <1>11 DEF TypeOK, StepKnown, Check, ChunksOf
<1>12. ASSUME Configure(a) PROVE Goal
  BY <1>0, <1>12 DEF TypeOK, StepKnown, Configure, Read, ChunksOf
<1>13. ASSUME SaveConfig(a) PROVE Goal
  BY <1>0, <1>13 DEF TypeOK, StepKnown, SaveConfig, SaveRow, Save, SavesAgain, ChunksOf
<1>14. ASSUME SaveUpserting(a) PROVE Goal
  BY <1>0, <1>14 DEF TypeOK, StepKnown, SaveUpserting, SaveRow, Save, SavesAgain, ChunksOf
<1>15. ASSUME Gather(a) PROVE Goal
  BY <1>0, <1>15 DEF TypeOK, StepKnown, Gather, ChunksOf
<1>18. ASSUME Remove(a) PROVE Goal
  BY <1>0, <1>18 DEF TypeOK, StepKnown, Remove, Read, ChunksOf
<1>19. ASSUME RemoveChunks(a) PROVE Goal
  BY <1>0, <1>19 DEF TypeOK, StepKnown, RemoveChunks, ChunksOf
<1>20. ASSUME SaveRemoved(a) PROVE Goal
  BY <1>0, <1>20 DEF TypeOK, StepKnown, SaveRemoved, SaveRow, Save, SavesAgain, ChunksOf
<1>21. ASSUME Pick(a) PROVE Goal
  BY <1>0, <1>21 DEF TypeOK, StepKnown, Pick, Read, ChunksOf
<1>22. ASSUME Find(a) PROVE Goal
  BY <1>0, <1>22 DEF TypeOK, StepKnown, Find, Fail, ChunksOf
<1>23. ASSUME Change(a) PROVE Goal
  <2>1. PICK c \in found[a] :
          /\ chunks' = (chunks \ WithId(c))
                         \cup (IF op[a] = "editChunk" THEN {[c EXCEPT !.edited = TRUE]} ELSE {})
          /\ promised' = IF op[a] = "editChunk" THEN promised \ {c.doc} ELSE promised
          /\ spoiled' = IF c.doc = doc[a] THEN spoiled ELSE spoiled \cup {c.doc, doc[a]}
    BY <1>23 DEF Change
  <2>2. c \in Chunk
    BY <1>0 DEF TypeOK
  <2>3. \A e : e = [c EXCEPT !.edited = TRUE] => e.doc = c.doc
    BY <2>2 DEF Chunk
  <2>4. \A d \in promised' \ spoiled' :
          d \in promised \ spoiled /\ ChunksOf(d)' \subseteq ChunksOf(d)
    BY <2>1, <2>3 DEF ChunksOf
  <2> QED BY <1>0, <1>23, <2>4 DEF TypeOK, StepKnown, Change
<1>24. ASSUME SaveCount(a) PROVE Goal
  BY <1>0, <1>24 DEF TypeOK, StepKnown, SaveCount, SaveRow, Save, SavesAgain, ChunksOf
<1>25. ASSUME Wipe(a) PROVE Goal
  BY <1>0, <1>25 DEF TypeOK, StepKnown, Wipe, ChunksOf
<1>26. ASSUME WipeCheck(a) PROVE Goal
  BY <1>0, <1>26 DEF TypeOK, StepKnown, WipeCheck, Read, ChunksOf
<1>27. ASSUME WipeRow(a) PROVE Goal
  BY <1>0, <1>27 DEF TypeOK, StepKnown, WipeRow, ChunksOf
<1>28. ASSUME Rename(a) PROVE Goal
  BY <1>0, <1>28 DEF TypeOK, StepKnown, Rename, Read, ChunksOf
<1>29. ASSUME SaveRenamed(a) PROVE Goal
  BY <1>0, <1>29 DEF TypeOK, StepKnown, SaveRenamed, SaveRow, Save, SavesAgain, ChunksOf
<1>30. ASSUME Crash(a) PROVE Goal
  <2>1. pc'[a] \in {"failed", First(op[a])} /\ op'[a] = op[a] /\ found'[a] = {}
        /\ (op[a] \in JobOps \/ pc'[a] = "failed")
    BY <1>0, <1>30 DEF TypeOK, Crash
  <2>2. op[a] \in JobOps => First(op[a]) \in {"load", "configure", "register", "lookup"}
    BY DEF JobOps, First
  <2>3. /\ vectors' = vectors /\ misled \ {a} \subseteq misled'
        /\ chunks' = chunks /\ promised' = promised /\ spoiled \subseteq spoiled'
    BY <1>30 DEF Crash
  <2> QED BY <2>1, <2>2, <2>3 DEF ChunksOf
<1>31. ASSUME Purge(a) PROVE Goal
  BY <1>0, <1>31 DEF TypeOK, StepKnown, Purge, ChunksOf
<1> QED BY <1>1, <1>2, <1>3, <1>4, <1>5, <1>6, <1>7, <1>9, <1>10, <1>11, <1>12, <1>13, <1>14, <1>15,
    <1>18, <1>19, <1>20, <1>21, <1>22, <1>23, <1>24, <1>25, <1>26, <1>27, <1>28, <1>29, <1>30, <1>31 DEF Step

(* What an upsert knows survives the steps of the other requests.            *)
LEMMA IndexedElsewhere ==
    ASSUME TypeOK, StepsKnown, NEW a \in Request, Step(a), NEW b \in Request \ {a}, Indexed(b),
           b \in misled => b \in misled',
           b \notin misled' /\ pc[b] \in Indexing => Upserted(b) \cap vectors \subseteq vectors'
    PROVE  Indexed(b)'
<1>1. /\ pc'[b] = pc[b] /\ op'[b] = op[b] /\ found'[b] = found[b]
      /\ uids'[b] = uids[b] /\ old'[b] \subseteq old[b]
  BY Others
<1>2. Upserted(b)' = Upserted(b)
  BY <1>1 DEF Upserted, KeysOf
<1> QED BY <1>1, <1>2 DEF Indexed

LEMMA EmptyKeys == KeysOf({}) = {}
BY DEF KeysOf

(* The upsert of the vector store: vectors only go by DeleteVectors, which   *)
(* takes no key that its own run upserted.                                   *)
LEMMA VectorsIndexed ==
    ASSUME TypeOK, StepsKnown, VInv, NEW a \in Request, Step(a), Index(a)
    PROVE  VInv'
<1> DEFINE Mine == Indexed(a)'
           Safe == \A b \in Request \ {a} :
                     /\ b \in misled => b \in misled'
                     /\ b \notin misled' /\ pc[b] \in Indexing => Upserted(b) \cap vectors \subseteq vectors'
           Promises == \A d \in promised' \ spoiled' : KeysOf(ChunksOf(d)) \subseteq vectors'
<1>0. TypeOK /\ StepKnown(a) /\ Indexed(a)
  BY DEF StepsKnown, VInv
<1>01. /\ UNCHANGED <<tables, op, spoiled>> /\ promised' \subseteq promised
       /\ pc'[a] # "failed" => found'[a] = found[a]
       /\ pc[a] \in Taken \cup {"gather", "purge"} /\ pc'[a] \in Taken \cup {"done", "failed"}
       /\ op[a] = "deleteVectors" => pc'[a] \in Shared \cup {"done", "failed"}
  BY IndexStep DEF request
<1>02. \A d \in promised' \ spoiled' : KeysOf(ChunksOf(d)) \subseteq vectors
  BY <1>01 DEF VInv, SuccessfulUpsertIsSearchable
<1>03. pc'[a] # "failed" => Upserted(a)' = Upserted(a)
  BY <1>01 DEF Upserted, KeysOf
<1>04. op[a] = "deleteVectors" => Upserted(a) = {}
  BY <1>0, EmptyKeys DEF Indexed, Upserted
<1> USE DEF Goto, At
<1>1. ASSUME Insert(a) PROVE Mine /\ Safe /\ Promises
  <2>1. pc'[a] = "finish" /\ vectors' = vectors \cup Upserted(a) /\ misled' = misled \ {a}
    BY <1>0, <1>1 DEF TypeOK, Insert
  <2>2. op'[a] # "deleteVectors" /\ Upserted(a)' = Upserted(a)
    BY <1>01, <1>03, <2>1
  <2>3. Mine
    BY <2>1, <2>2 DEF Indexed
  <2> QED BY <1>02, <2>1, <2>3
<1>2. ASSUME GetTime(a) PROVE Mine /\ Safe /\ Promises
  <2>1. pc'[a] = "exists" /\ vectors' = vectors /\ misled' = misled
    BY <1>0, <1>2 DEF TypeOK, GetTime
  <2>2. op'[a] # "deleteVectors"
    BY <1>01, <2>1
  <2> QED BY <1>02, <2>1, <2>2 DEF Indexed
<1>3. ASSUME FindExisting(a) PROVE Mine /\ Safe /\ Promises
  <2>1. /\ pc'[a] = "skip" /\ vectors' = vectors /\ uids'[a] = Upserted(a) \ keys
        /\ a \notin misled' => Upserted(a) \cap keys \subseteq vectors
        /\ misled \ {a} \subseteq misled'
    BY <1>0, <1>3 DEF TypeOK, FindExisting
  <2>2. op'[a] # "deleteVectors" /\ Upserted(a)' = Upserted(a)
    BY <1>01, <1>03, <2>1
  <2>3. Mine
    BY <2>1, <2>2 DEF Indexed
  <2> QED BY <1>02, <2>1, <2>3
<1>4. ASSUME Skip(a) PROVE Mine /\ Safe /\ Promises
  <2>1. pc[a] = "skip" /\ pc'[a] = "add" /\ vectors' = vectors /\ uids' = uids /\ misled' = misled
    BY <1>0, <1>4 DEF TypeOK, Skip
  <2>2. op'[a] # "deleteVectors" /\ Upserted(a)' = Upserted(a)
    BY <1>01, <1>03, <2>1
  <2>3. Mine
    BY <1>0, <2>1, <2>2 DEF Indexed
  <2> QED BY <1>02, <2>1, <2>3
<1>5. ASSUME AddDocuments(a) PROVE Mine /\ Safe /\ Promises
  <2>1. pc[a] = "add" /\ pc'[a] = "record" /\ vectors' = vectors \cup uids[a] /\ misled' = misled
    BY <1>0, <1>5 DEF TypeOK, AddDocuments
  <2>2. op'[a] # "deleteVectors" /\ Upserted(a)' = Upserted(a)
    BY <1>01, <1>03, <2>1
  <2>3. Mine
    BY <1>0, <2>1, <2>2 DEF Indexed
  <2> QED BY <1>02, <2>1, <2>3
<1>6. ASSUME RecordAll(a) PROVE Mine /\ Safe /\ Promises
  <2>1. /\ pc[a] = "record" /\ pc'[a] = "list" /\ vectors' = vectors /\ misled' = misled
        /\ old'[a] \cap Upserted(a) = {}
    BY <1>0, <1>6 DEF TypeOK, RecordAll, Record
  <2>2. op'[a] # "deleteVectors" /\ Upserted(a)' = Upserted(a)
    BY <1>0, <1>01, <1>03, <2>1 DEF StepKnown
  <2>3. Mine
    BY <1>0, <2>1, <2>2 DEF Indexed
  <2> QED BY <1>02, <2>1, <2>3
<1>7. ASSUME ListKeys(a) PROVE Mine /\ Safe /\ Promises
  <2>1. /\ pc[a] = "list" /\ pc'[a] \in {"delete", "finish", "done"}
        /\ vectors' = vectors /\ misled' = misled
        /\ op[a] = "deleteVectors" \/ uids'[a] \subseteq old[a]
    BY <1>0, <1>7 DEF TypeOK, ListKeys, Older, OlderOfSources
  <2>2. Upserted(a)' = Upserted(a) /\ op'[a] = op[a] /\ found'[a] = found[a]
    BY <1>01, <1>03, <2>1
  <2>3. Mine
    BY <1>0, <1>04, <2>1, <2>2 DEF Indexed
  <2> QED BY <1>02, <2>1, <2>3
<1>8. ASSUME DeleteVectors(a) PROVE Mine /\ Safe /\ Promises
  <2>1. /\ pc[a] = "delete" /\ pc'[a] = "forget"
        /\ vectors' = vectors \ uids[a] /\ uids' = uids /\ misled \subseteq misled'
        /\ promised' = promised \ Ended(a)
        /\ \A b \in Request \ {a} : pc[b] \in Indexing /\ uids[a] \cap Upserted(b) # {} => b \in misled'
    BY <1>0, <1>8 DEF TypeOK, DeleteVectors
  <2>2. Upserted(a)' = Upserted(a) /\ op'[a] = op[a] /\ found'[a] = found[a]
    BY <1>01, <1>03, <2>1
  <2>3. uids[a] \cap Upserted(a) = {}
    BY <1>0, <2>1 DEF Indexed
  <2>4. Mine
    BY <1>0, <1>04, <2>1, <2>2, <2>3 DEF Indexed
  <2>5. ASSUME NEW d \in promised' \ spoiled' PROVE KeysOf(ChunksOf(d)) \subseteq vectors'
    <3>1. d \in Doc /\ d \notin Ended(a)
      BY <1>0, <1>01, <2>1 DEF TypeOK
    <3>2. \A k \in KeysOf(ChunksOf(d)) : k.source = d
      BY DEF KeysOf, Key, ChunksOf
    <3>3. KeysOf(ChunksOf(d)) \cap uids[a] = {}
      BY <2>3, <3>1, <3>2 DEF Ended
    <3> QED BY <1>02, <2>1, <3>3
  <2> QED BY <2>1, <2>4, <2>5
<1>9. ASSUME ForgetKeys(a) PROVE Mine /\ Safe /\ Promises
  <2>1. /\ pc[a] = "forget" /\ pc'[a] \in {"finish", "done"}
        /\ vectors' = vectors /\ misled' = misled
    BY <1>0, <1>9 DEF TypeOK, ForgetKeys
  <2>2. Upserted(a)' = Upserted(a) /\ op'[a] = op[a] /\ found'[a] = found[a]
    BY <1>01, <1>03, <2>1
  <2>3. Mine
    BY <1>0, <1>04, <2>1, <2>2 DEF Indexed
  <2> QED BY <1>02, <2>1, <2>3
<1>10. ASSUME IndexFails(a) PROVE Mine /\ Safe /\ Promises
  <2>1. pc'[a] = "failed" /\ found'[a] = {} /\ vectors' = vectors /\ misled' = misled \ {a}
    BY <1>0, <1>10 DEF TypeOK, IndexFails, Unindexed
  <2>2. Mine
    BY <2>1 DEF Indexed
  <2> QED BY <1>02, <2>1, <2>2
<1>11. Mine /\ Safe /\ Promises
  BY <1>1, <1>2, <1>3, <1>4, <1>5, <1>6, <1>7, <1>8, <1>9, <1>10 DEF Index
<1>12. \A b \in Request \ {a} : Indexed(b)'
  BY <1>11, IndexedElsewhere DEF VInv
<1>13. \A d \in promised' \ spoiled' : KeysOf(ChunksOf(d)') \subseteq vectors'
  BY <1>01, <1>11 DEF ChunksOf, tables
<1>14. SuccessfulUpsertIsSearchable'
  BY <1>13 DEF SuccessfulUpsertIsSearchable, KeysOf
<1> QED BY <1>11, <1>12, <1>14 DEF VInv

LEMMA VNext == ASSUME IInv, TypeOK', VInv, [Next]_vars PROVE VInv'
<1>0. TypeOK /\ StepsKnown
  BY DEF IInv
<1>1. ASSUME NEW a \in Request, Step(a) PROVE VInv'
  <2>0. TypeOK /\ StepKnown(a) /\ Indexed(a)
    BY <1>0 DEF StepsKnown, VInv
  <2>1. CASE Index(a)
    BY <1>0, <1>1, <2>1, VectorsIndexed
  <2>2. ASSUME vectors' = vectors, misled \ {a} \subseteq misled', Indexed(a)',
               \A d \in promised' \ spoiled' : KeysOf(ChunksOf(d)') \subseteq vectors
        PROVE  VInv'
    <3>1. \A b \in Request \ {a} : Indexed(b)'
      BY <1>0, <1>1, <2>2, IndexedElsewhere DEF VInv
    <3>2. SuccessfulUpsertIsSearchable'
      BY <2>2 DEF SuccessfulUpsertIsSearchable, KeysOf
    <3> QED BY <2>2, <3>1, <3>2 DEF VInv
  <2>3. ASSUME NEW c \in toSave[a], SaveChunk(a, c) PROVE VInv'
    <3>1. /\ vectors' = vectors /\ misled' = misled /\ promised' = promised /\ spoiled' = spoiled
          /\ chunks' = chunks \cup {c} /\ pc' = pc /\ op' = op /\ found' = found
      BY <2>3 DEF SaveChunk, store, request
    <3>2. pc[a] \in {"chunks", "failed"} /\ c.doc = doc[a] /\ doc[a] \in Doc
          /\ Busy(a, doc[a]) /\ op[a] # "deleteVectors"
      BY <2>0 DEF StepKnown, LoaderOps, Busy, Active, Touches
    <3>3. doc[a] \notin promised \ spoiled
      BY <3>2 DEF IInv, Kept, Mid
    <3>4. \A d \in promised \ spoiled : ChunksOf(d)' = ChunksOf(d)
      BY <3>1, <3>2, <3>3 DEF ChunksOf
    <3>5. \A d \in promised' \ spoiled' : KeysOf(ChunksOf(d)') \subseteq vectors
      BY <3>1, <3>4 DEF VInv, SuccessfulUpsertIsSearchable
    <3>6. Indexed(a)'
      BY <3>1, <3>2 DEF Indexed
    <3> QED BY <2>2, <3>1, <3>5, <3>6
  <2>4. CASE Finish(a)
    <3>1. /\ pc[a] = "finish" /\ pc'[a] = "done" /\ vectors' = vectors /\ chunks' = chunks
          /\ misled' = misled \ {a} /\ found'[a] = {} /\ spoiled \subseteq spoiled'
          /\ promised' = promised \cup (IF op[a] = "insert" \/ a \in misled THEN {} ELSE {doc[a]})
      BY <2>0, <2>4 DEF TypeOK, Finish, Save, Goto, At
    <3>2. Indexed(a)'
      BY <3>1 DEF Indexed
    <3>3. ASSUME NEW d \in promised' \ spoiled' PROVE KeysOf(ChunksOf(d)) \subseteq vectors
      <4>1. CASE d \in promised
        BY <3>1, <3>3, <4>1 DEF VInv, SuccessfulUpsertIsSearchable
      <4>2. CASE d \notin promised
        <5>1. d = doc[a] /\ a \notin misled /\ op[a] \in {"upsert", "refresh"} /\ d \in Doc
          BY <2>0, <3>1, <3>3, <4>2 DEF StepKnown, LoaderOps
        <5>2. Mid(a, d)
          BY <3>1, <3>3, <5>1 DEF IInv, Kept, Busy, Active, Steps, Touches, LoaderOps
        <5>3. ChunksOf(d) \subseteq found[a] /\ Upserted(a) \subseteq vectors
          BY <2>0, <3>1, <5>1, <5>2 DEF Mid, Indexed
        <5> QED BY <5>3 DEF Upserted, KeysOf
      <4> QED BY <4>1, <4>2
    <3>4. \A d \in promised' \ spoiled' : KeysOf(ChunksOf(d)') \subseteq vectors
      BY <3>1, <3>3 DEF ChunksOf
    <3> QED BY <2>2, <3>1, <3>2, <3>4
  <2>5. CASE ~Index(a) /\ ~Finish(a) /\ \A c \in toSave[a] : ~SaveChunk(a, c)
    <3>1. /\ vectors' = vectors /\ misled \ {a} \subseteq misled'
          /\ pc'[a] \notin Indexing \ {"list"} /\ (pc'[a] = "list" => op'[a] = "deleteVectors")
          /\ pc'[a] = "idle" \/ op'[a] = "deleteVectors" => found'[a] = {}
          /\ \A d \in promised' \ spoiled' :
               d \in promised \ spoiled /\ ChunksOf(d)' \subseteq ChunksOf(d)
      BY <1>0, <1>1, <2>0, <2>5, VectorsLeft
    <3>2. found'[a] = {} => Upserted(a)' = {}
      BY DEF Upserted, KeysOf
    <3>3. Indexed(a)'
      BY <3>1, <3>2 DEF Indexed
    <3>4. \A d \in promised' \ spoiled' : KeysOf(ChunksOf(d)') \subseteq vectors
      BY <3>1 DEF VInv, SuccessfulUpsertIsSearchable, KeysOf
    <3> QED BY <2>2, <3>1, <3>3, <3>4
  <2> QED BY <2>1, <2>3, <2>4, <2>5
<1>2. CASE UNCHANGED vars
  <2> USE <1>2 DEF vars, tables, store, request, local
  <2>1. \A a \in Request : Indexed(a)'
    BY DEF VInv, Indexed, Upserted, KeysOf
  <2>2. SuccessfulUpsertIsSearchable'
    BY DEF VInv, SuccessfulUpsertIsSearchable, KeysOf, ChunksOf
  <2> QED BY <2>1, <2>2 DEF VInv
<1> QED BY <1>1, <1>2 DEF Next

LEMMA InitVInv == ASSUME Init PROVE VInv
<1>1. \A a \in Request : Indexed(a)
  BY EmptyKeys DEF Init, Indexed, Upserted
<1>2. SuccessfulUpsertIsSearchable
  <2>1. promised = {} \/ vectors = KeysOf(chunks)
    BY DEF Init
  <2> QED BY <2>1 DEF SuccessfulUpsertIsSearchable, KeysOf, ChunksOf
<1> QED BY <1>1, <1>2 DEF VInv

(* After upsertDocStore has answered, every chunk of the loader is in the    *)
(* vector store until its chunks change or keys of it are deleted, by a      *)
(* request or by the cleanup of an upsert that does not take all its chunks: *)
(* whatever the record manager skips, records and deletes for the other      *)
(* upserts that overlap, their own run's keys being never older than it.     *)
THEOREM UpsertIsSearchable == Spec => []SuccessfulUpsertIsSearchable
<1>1. IInv /\ TypeOK' /\ VInv /\ [Next]_vars => VInv'
  BY VNext
<1>2. Init => VInv
  BY InitVInv
<1>3. Spec => []VInv
  BY <1>1, <1>2, Invariant, TypeCorrect, PTL DEF Spec
<1>4. VInv => SuccessfulUpsertIsSearchable
  BY DEF VInv
<1> QED BY <1>3, <1>4, PTL

(* The lost updates of the store have one cause: the whole row is saved from *)
(* a copy that was read before another request saved its own.                *)
THEOREM OnlyStaleCopiesOverwrite == Spec => OthersChangeOnlyThroughStaleCopies
<1> DEFINE A == \A d \in Doc : row'.loaders[d] # row.loaders[d] =>
                   \E a \in Request : /\ pc'[a] # pc[a]
                                      /\ d \in Touches(op[a], doc[a]) \/ copy[a] # row
<1>1. ASSUME IInv, [Next]_vars PROVE [A]_vars
  <2>1. CASE Next
    <3>1. PICK a \in Request : Step(a)
      BY <2>1 DEF Next
    <3> QED BY <1>1, <3>1, OwnLoadersOnly DEF IInv
  <2> QED BY <1>1, <2>1
<1>2. Spec => [][A]_vars
  BY <1>1, Invariant, PTL DEF Spec
<1> QED BY <1>2 DEF OthersChangeOnlyThroughStaleCopies
=============================================================================
