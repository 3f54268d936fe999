--------------------------- MODULE DocumentStore ---------------------------
(* One document store (services/documentstore/index.ts): its row, with the   *)
(* loaders and the status in it, the chunks its loaders were split into, and *)
(* the vector store the chunks are upserted into.  Every operation reads the *)
(* row, works, and saves the row it read: all of it, the loaders of other    *)
(* requests included.  In queue mode processing and upserting are jobs of a  *)
(* worker that may die (queue/UpsertQueue.ts).                               *)
EXTENDS Integers, FiniteSets

CONSTANTS
    Request,      \* requests for the store, each one operation
    Doc,          \* ids of loaders
    AllDocs,      \* the operation is not about one loader
    Nobody,       \* who made the chunks that are there from the start
    Text,         \* the content of a chunk: its page, metadata left aside
    Size,         \* bound: chunks a loader is split into, at most
    MaxCrashes,   \* bound: deaths of processes, at most
    Bounds        \* bounds: [size: chunks of a loader, crashes: deaths]

ASSUME StoreAssumption ==
    /\ AllDocs \notin Doc
    /\ Nobody \notin Request
    /\ Size \in Nat \ {0}
    /\ MaxCrashes \in Nat
    /\ Bounds \subseteq [size : 1 .. Size, crashes : 0 .. MaxCrashes]

VARIABLES
    row,           \* the DocumentStore row
    chunks,        \* the DocumentStoreFileChunk rows
    vectors,       \* the keys in the vector store
    keys,          \* the keys the record manager has recorded
    pc,            \* per request: where it is
    op,            \* per request: its operation
    doc,           \* per request: the loader it is about
    copy,          \* per request: the entity it read
    toSave,        \* per request: chunks whose save is under way
    found,         \* per request: chunks it has read
    old,           \* per request: keys last recorded before its indexing began
    uids,          \* per request: keys it is about to add or to delete
    bound,         \* the bounds of this behaviour
    crashes,       \* deaths of processes so far
    used,          \* ids given to loaders so far
    misled,        \* history: requests that upsert while vectors are deleted, or
                   \* that found keys without their vectors
    promised,      \* history: loaders whose upsert succeeded, until their chunks change
    spoiled        \* history: loaders two operations worked on at a time, whose
                   \* record a stale copy overwrote, or left by a failure halfway,
                   \* or whose chunk a request for another loader took

tables  == <<row, chunks>>
store   == <<vectors, keys, old, uids, misled>>
request == <<op, doc, used, crashes, bound>>
local   == <<copy, toSave, found>>
vars    == <<tables, store, pc, request, local, promised, spoiled>>

Status == {"EMPTY", "SYNC", "STALE", "UPSERTING", "UPSERTED", "deleted"}
Loader == [state : {"none", "SYNCING", "SYNC"}, total : Int]
Row == [status : Status, loaders : [Doc -> Loader]]
NoLoader == [state |-> "none", total |-> 0]
NoRow == [status |-> "deleted", loaders |-> [d \in Doc |-> NoLoader]]
Exists(r) == r.status # "deleted"
HasLoader(r, d) == r.loaders[d].state # "none"

Chunk == [doc : Doc, by : Request \cup {Nobody}, after : 0 .. MaxCrashes,
          no : 1 .. Size, edited : BOOLEAN]
ChunksOf(d) == {c \in chunks : c.doc = d}

(* The hash of the content and the metadata, which name the source.          *)
Key(c) == [source |-> c.doc, text |-> Text[c]]
KeysOf(S) == {Key(c) : c \in S}
AllKeys == KeysOf(Chunk)
WithId(c) == {e \in chunks : [e EXCEPT !.edited = c.edited] = c}

(* What the operations of the routes are about.                              *)
LoaderOps == {"save", "process", "upsert", "refresh", "deleteLoader",
              "deleteChunk", "editChunk"}
JobOps    == {"process", "insert", "upsert", "refresh"}
Ops       == LoaderOps \cup {"insert", "deleteStore", "rename", "deleteVectors"}

First(o) == CASE o \in {"save", "upsert"}             -> "register"
              [] o = "refresh"                        -> "lookup"
              [] o = "process"                        -> "load"
              [] o = "insert"                         -> "configure"
              [] o = "deleteLoader"                   -> "remove"
              [] o \in {"deleteChunk", "editChunk"}   -> "pick"
              [] o = "deleteStore"                    -> "wipe"
              [] o = "rename"                         -> "rename"
              [] o = "deleteVectors"                  -> "purge"

Steps == {"register", "registerSave", "lookup", "load", "split", "clear", "chunks",
          "check", "configure", "configureSave", "upserting", "reconfigure",
          "reconfigureSave", "gather", "index", "exists", "skip", "add", "record",
          "list", "delete", "forget", "finish", "purge", "remove",
          "removeChunks", "removeSave", "pick", "find", "change", "countSave",
          "wipe", "wipeCheck", "wipeRow", "rename", "renameSave"}
Halfway == {"load", "split", "clear", "chunks", "removeSave", "countSave",
            "wipeCheck", "wipeRow"}

(* Loaders whose record or chunks a request writes, and who is at work.      *)
Touches(o, d) == IF o \in LoaderOps THEN {d}
                 ELSE IF o = "deleteStore" THEN Doc ELSE {}
Active(a) == pc[a] \in Steps \/ toSave[a] # {}
Rivals(a, d) == {b \in Request \ {a} : Active(b) /\ d \in Touches(op[b], doc[b])}
Contested(a, o, d) == {e \in Touches(o, d) : Rivals(a, e) # {}}
LeftHalfway(a) == IF pc[a] \in Halfway THEN Touches(op[a], doc[a]) ELSE {}

TypeOK ==
    /\ row \in Row
    /\ chunks \subseteq Chunk
    /\ vectors \subseteq AllKeys /\ keys \subseteq AllKeys
    /\ old \in [Request -> SUBSET AllKeys]
    /\ uids \in [Request -> SUBSET AllKeys]
    /\ misled \subseteq Request
    /\ pc \in [Request -> Steps \cup {"idle", "done", "failed"}]
    /\ op \in [Request -> Ops]
    /\ doc \in [Request -> Doc \cup {AllDocs}]
    /\ copy \in [Request -> Row]
    /\ toSave \in [Request -> SUBSET Chunk]
    /\ found \in [Request -> SUBSET Chunk]
    /\ bound \in Bounds /\ crashes \in 0 .. bound.crashes
    /\ used \subseteq Doc /\ spoiled \subseteq Doc
    /\ promised \subseteq Doc

FirstChunk(d) == [doc |-> d, by |-> Nobody, after |-> 0, no |-> 1, edited |-> FALSE]

(* A store with some processed loaders of one chunk, upserted or not.        *)
Init ==
    \E loaders \in SUBSET Doc, upserted \in BOOLEAN :
        /\ upserted => loaders # {}
        /\ row = [status  |-> IF loaders = {} THEN "EMPTY"
                              ELSE IF upserted THEN "UPSERTED" ELSE "SYNC",
                  loaders |-> [d \in Doc |->
                      IF d \in loaders THEN [state |-> "SYNC", total |-> 1]
                      ELSE NoLoader]]
        /\ chunks = {FirstChunk(d) : d \in loaders}
        /\ vectors = IF upserted THEN KeysOf(chunks) ELSE {}
        /\ keys = vectors
        /\ old = [a \in Request |-> {}]
        /\ uids = [a \in Request |-> {}]
        /\ misled = {}
        /\ pc = [a \in Request |-> "idle"]
        /\ op = [a \in Request |-> "rename"]
        /\ doc = [a \in Request |-> AllDocs]
        /\ copy = [a \in Request |-> NoRow]
        /\ toSave = [a \in Request |-> {}]
        /\ found = [a \in Request |-> {}]
        /\ bound \in Bounds
        /\ crashes = 0
        /\ used = loaders
        /\ promised = IF upserted THEN loaders ELSE {}
        /\ spoiled = {}

----------------------------------------------------------------------------
(* The steps of a request.                                                   *)

Goto(a, l) == pc' = [pc EXCEPT ![a] = l]
At(a, l) == pc[a] = l

(* findOneBy({id: storeId}): the entity, and NOT_FOUND without one.          *)
Read(a, l, ok) ==
    /\ LET there == Exists(row) /\ ok
       IN /\ copy' = [copy EXCEPT ![a] = IF there THEN row ELSE NoRow]
          /\ Goto(a, IF there THEN l ELSE "failed")
    /\ UNCHANGED <<tables, store, request, toSave, found, promised, spoiled>>

(* save(entity) writes every column of the entity, and inserts a row that    *)
(* was deleted meanwhile.  Few operations save the same entity again.        *)
SavesAgain == {"upserting", "gather"}
Overwritten(a, new) ==
    {d \in Doc \ Touches(op[a], doc[a]) : new.loaders[d] # row.loaders[d]}
Save(a, new, l) ==
    /\ row' = new
    /\ spoiled' = spoiled \cup Overwritten(a, new)
    /\ copy' = [copy EXCEPT ![a] = IF l \in SavesAgain THEN new ELSE NoRow]
    /\ found' = [found EXCEPT ![a] = {}]
    /\ Goto(a, l)
    /\ UNCHANGED <<chunks, request, toSave>>

SaveRow(a, new, l) == Save(a, new, l) /\ UNCHANGED <<store, promised>>

(* A request for the store arrives.  A new loader gets a new id.             *)
Start(a, o, d) ==
    /\ At(a, "idle")
    /\ CASE o = "save"               -> d \in Doc
         [] o = "upsert"             -> d \in Doc \ used
         [] o = "insert"             -> d \in used \cup {AllDocs}
         [] o \in {"deleteStore", "rename", "deleteVectors"} -> d = AllDocs
         [] OTHER                    -> d \in used
    /\ op' = [op EXCEPT ![a] = o]
    /\ doc' = [doc EXCEPT ![a] = d]
    /\ used' = used \cup ({d} \cap Doc)
    /\ Goto(a, First(o))
    /\ spoiled' = spoiled \cup Contested(a, o, d) \cup (IF o = "save" THEN {d} ELSE {})
    /\ UNCHANGED <<tables, store, local, crashes, bound, promised>>

(* saveProcessingLoader: the loader is SYNCING from here on.                 *)
\* Mutant: the list of loaders is rebuilt with the new loader only.
MutWithProcessing(r, d) ==
    [r EXCEPT !.loaders = [e \in Doc |->
        IF e = d THEN [state |-> "SYNCING", total |-> 0] ELSE NoLoader]]
WithProcessing(r, d) == [r EXCEPT !.loaders[d] = [state |-> "SYNCING", total |-> 0]]
Register(a) ==
    /\ At(a, "register")
    /\ Read(a, "registerSave", TRUE)

SaveRegistered(a) ==
    LET new == WithProcessing(copy[a], doc[a])
    IN /\ At(a, "registerSave")
       /\ SaveRow(a, new, IF op[a] = "save" THEN "done" ELSE "load")

(* upsertDocStore with the id of a loader looks for it first.                *)
Lookup(a) ==
    /\ At(a, "lookup")
    /\ Read(a, "register", HasLoader(row, doc[a]))

(* processLoader reads the row; the loader may be missing from it.           *)
Load(a) ==
    /\ At(a, "load")
    /\ Read(a, "split", TRUE)

(* A step outside the row that fails; halfway it leaves the loader as it is. *)
Fail(a, s) ==
    /\ Goto(a, "failed")
    /\ copy' = [copy EXCEPT ![a] = NoRow]
    /\ found' = [found EXCEPT ![a] = {}]
    /\ spoiled' = spoiled \cup s
    /\ UNCHANGED <<tables, store, request, promised>>

(* _normalizeFilePaths and the splitter: the chunks are in memory only.      *)
\* Mutant: chunkNo is the index in the response.
MutNewChunk(a, n) ==
    [doc |-> doc[a], by |-> a, after |-> crashes, no |-> n - 1, edited |-> FALSE]
NewChunk(a, n) == [doc |-> doc[a], by |-> a, after |-> crashes, no |-> n, edited |-> FALSE]
Split(a) ==
    /\ At(a, "split")
    /\ \/ /\ found' = [found EXCEPT ![a] = {NewChunk(a, n) : n \in 1 .. bound.size}]
          /\ Goto(a, "clear")
          /\ UNCHANGED <<tables, store, request, copy, promised, spoiled>>
       \/ Fail(a, {doc[a]})
    /\ UNCHANGED toSave

(* Step 7 removes the chunks of the loader, and all saves of step 8 start.   *)
\* Mutant: the previous chunks of the loader stay.
MutClear(a) ==
    /\ At(a, "clear")
    /\ toSave' = [toSave EXCEPT ![a] = found[a]]
    /\ Goto(a, "chunks")
    /\ promised' = promised \ {doc[a]}
    /\ spoiled' = IF Rivals(a, doc[a]) = {} THEN spoiled \ {doc[a]} ELSE spoiled
    /\ UNCHANGED <<row, chunks, store, request, copy, found>>

Clear(a) ==
    /\ At(a, "clear")
    /\ chunks' = chunks \ ChunksOf(doc[a])
    /\ toSave' = [toSave EXCEPT ![a] = found[a]]
    /\ Goto(a, "chunks")
    /\ promised' = promised \ {doc[a]}
    /\ spoiled' = IF Rivals(a, doc[a]) = {} THEN spoiled \ {doc[a]} ELSE spoiled
    /\ UNCHANGED <<row, store, request, copy, found>>

(* One of the saves of step 8 ends; the others go on when one fails.         *)
SaveChunk(a, c) ==
    /\ c \in toSave[a]
    /\ toSave' = [toSave EXCEPT ![a] = @ \ {c}]
    /\ chunks' = chunks \cup {c}
    /\ UNCHANGED <<row, store, pc, request, copy, found, promised, spoiled>>

LoseChunk(a, c) ==
    /\ c \in toSave[a]
    /\ toSave' = [toSave EXCEPT ![a] = @ \ {c}]
    /\ Fail(a, {doc[a]})

(* The loader becomes SYNC in the entity that was read before the split, and *)
(* so does the store when all loaders of that entity are.  A loader that is  *)
(* missing there is a TypeError, after its chunks are saved.                 *)
WithProcessed(r, d, n) ==
    LET loaders == [r.loaders EXCEPT ![d] = [state |-> "SYNC", total |-> n]]
        allSynced == \A e \in Doc : loaders[e].state # "SYNCING"
    IN [status |-> IF allSynced THEN "SYNC" ELSE "STALE", loaders |-> loaders]
SaveProcessed(a) ==
    /\ At(a, "chunks") /\ toSave[a] = {}
    /\ IF HasLoader(copy[a], doc[a])
       THEN SaveRow(a, WithProcessed(copy[a], doc[a], Cardinality(found[a])), "check")
       ELSE Fail(a, {doc[a]}) /\ UNCHANGED toSave

(* getDocumentStoreFileChunks: the answer of processLoader.                  *)
Check(a) ==
    /\ At(a, "check")
    /\ Goto(a, CASE ~Exists(row) \/ ~HasLoader(row, doc[a]) -> "failed"
                 [] op[a] = "process"                       -> "done"
                 [] OTHER                                   -> "configure")
    /\ UNCHANGED <<tables, store, request, local, promised, spoiled>>

(* saveVectorStoreConfig, called by insertIntoVectorStore and once more by   *)
(* _insertIntoVectorStoreWorkerThread.                                       *)
WithConfig(r) == IF r.status = "UPSERTED" THEN r ELSE [r EXCEPT !.status = "SYNC"]
Configure(a) ==
    \/ At(a, "configure") /\ Read(a, "configureSave", TRUE)
    \/ At(a, "reconfigure") /\ Read(a, "reconfigureSave", TRUE)

SaveConfig(a) ==
    \/ At(a, "configureSave") /\ SaveRow(a, WithConfig(copy[a]), "upserting")
    \/ At(a, "reconfigureSave") /\ SaveRow(a, WithConfig(copy[a]), "gather")

SaveUpserting(a) ==
    /\ At(a, "upserting")
    /\ SaveRow(a, [copy[a] EXCEPT !.status = "UPSERTING"], "reconfigure")

(* The chunks of the loader, or of the store, are read.                      *)
Gather(a) ==
    /\ At(a, "gather")
    /\ found' = [found EXCEPT ![a] = IF doc[a] = AllDocs THEN chunks ELSE ChunksOf(doc[a])]
    /\ Goto(a, "index")
    /\ UNCHANGED <<tables, store, request, copy, toSave, promised, spoiled>>

----------------------------------------------------------------------------
(* The upsert of the vector store.  With a record manager, which the request *)
(* or the row names, it is index(), here for one batch of documents.         *)
Indexing == {"skip", "add", "record", "list", "delete", "forget", "finish"}
MayFail  == {"gather", "index", "exists", "purge"} \cup (Indexing \ {"finish"})
Upserted(a) == KeysOf(found[a])
Unindexed(a, f) == [f EXCEPT ![a] = {}]

(* Without a record manager the chunks get ids of their own.                 *)
Insert(a) ==
    /\ At(a, "index")
    /\ vectors' = vectors \cup Upserted(a)
    /\ misled' = misled \ {a}
    /\ Goto(a, "finish")
    /\ UNCHANGED <<tables, keys, old, uids, request, local, promised, spoiled>>

(* indexStartDt: what is recorded by now is older than this run.             *)
GetTime(a) ==
    /\ At(a, "index")
    /\ old' = [old EXCEPT ![a] = keys]
    /\ Goto(a, "exists")
    /\ UNCHANGED <<tables, vectors, keys, uids, misled, request, local, promised, spoiled>>

(* Keys that are recorded are skipped, whether or not their vectors are there.*)
FindExisting(a) ==
    /\ At(a, "exists")
    /\ uids' = [uids EXCEPT ![a] = Upserted(a) \ keys]
    /\ misled' = IF Upserted(a) \cap keys \subseteq vectors THEN misled \ {a} ELSE misled \cup {a}
    /\ Goto(a, "skip")
    /\ UNCHANGED <<tables, vectors, keys, old, request, local, promised, spoiled>>

\* Mutant: ON CONFLICT DO NOTHING, a key keeps the time of its first upsert.
MutRecord(S) == keys' = keys \cup S /\ UNCHANGED old

(* update() inserts the keys or sets their time: no run that began before    *)
(* finds them older than itself any more.                                    *)
Record(S) ==
    /\ keys' = keys \cup S
    /\ old' = [b \in Request |-> old[b] \ S]

Skip(a) ==
    /\ At(a, "skip")
    /\ Record(Upserted(a) \ uids[a])
    /\ Goto(a, "add")
    /\ UNCHANGED <<tables, vectors, uids, misled, request, local, promised, spoiled>>

AddDocuments(a) ==
    /\ At(a, "add")
    /\ vectors' = vectors \cup uids[a]
    /\ uids' = Unindexed(a, uids)
    /\ Goto(a, "record")
    /\ UNCHANGED <<tables, keys, old, misled, request, local, promised, spoiled>>

RecordAll(a) ==
    /\ At(a, "record")
    /\ Record(Upserted(a))
    /\ Goto(a, "list")
    /\ UNCHANGED <<tables, vectors, uids, misled, request, local, promised, spoiled>>

(* The cleanup of the record manager: the older keys of the sources that     *)
(* were upserted (incremental) or of the whole store (full), or none.        *)
(* deleteVectorStoreFromStore lists all keys.                                *)
Older(a) == old[a] \cap keys
OlderOfSources(a) == {k \in Older(a) : \E c \in found[a] : c.doc = k.source}
ListKeys(a) ==
    /\ At(a, "list")
    /\ \E listed \in IF op[a] = "deleteVectors" THEN {keys} ELSE {{}, OlderOfSources(a), Older(a)} :
         /\ uids' = [uids EXCEPT ![a] = listed]
         /\ Goto(a, IF listed # {} THEN "delete"
                    ELSE IF op[a] = "deleteVectors" THEN "done" ELSE "finish")
    /\ old' = Unindexed(a, old)
    /\ UNCHANGED <<tables, vectors, keys, misled, request, local, promised, spoiled>>

(* The vectors go first, then the keys.  The promises that end are those to  *)
(* loaders of whom a key is deleted and not all chunks were upserted.        *)
Ended(a) == {d \in Doc : /\ \E k \in uids[a] : k.source = d
                         /\ ~ KeysOf(ChunksOf(d)) \subseteq Upserted(a)}
DeleteVectors(a) ==
    /\ At(a, "delete")
    /\ vectors' = vectors \ uids[a]
    /\ promised' = promised \ Ended(a)
    /\ misled' = misled \cup {b \in Request \ {a} :
                   pc[b] \in Indexing /\ uids[a] \cap Upserted(b) # {}}
    /\ Goto(a, "forget")
    /\ UNCHANGED <<tables, keys, old, uids, request, local, spoiled>>

(* What is recorded later is not older: the loop of a full cleanup ends here.*)
ForgetKeys(a) ==
    /\ At(a, "forget")
    /\ keys' = keys \ uids[a]
    /\ uids' = Unindexed(a, uids)
    /\ Goto(a, IF op[a] = "deleteVectors" THEN "done" ELSE "finish")
    /\ UNCHANGED <<tables, vectors, old, misled, request, local, promised, spoiled>>

(* Any of these awaits may reject; what it did before stays.                 *)
IndexFails(a) ==
    /\ pc[a] \in MayFail
    /\ Goto(a, "failed")
    /\ old' = Unindexed(a, old)
    /\ uids' = Unindexed(a, uids)
    /\ misled' = misled \ {a}
    /\ copy' = [copy EXCEPT ![a] = NoRow]
    /\ found' = Unindexed(a, found)
    /\ UNCHANGED <<tables, vectors, keys, request, toSave, promised, spoiled>>

Index(a) ==
    \/ Insert(a) \/ GetTime(a) \/ FindExisting(a) \/ Skip(a) \/ AddDocuments(a)
    \/ RecordAll(a) \/ ListKeys(a) \/ DeleteVectors(a) \/ ForgetKeys(a) \/ IndexFails(a)

(* deleteVectorStoreFromStore needs a store with a record manager.           *)
Purge(a) ==
    /\ At(a, "purge")
    /\ Goto(a, IF Exists(row) THEN "list" ELSE "failed")
    /\ UNCHANGED <<tables, store, request, local, promised, spoiled>>

----------------------------------------------------------------------------
(* UPSERTED is saved in the entity that was read before all this.            *)
Finish(a) ==
    /\ At(a, "finish")
    /\ Save(a, [copy[a] EXCEPT !.status = "UPSERTED"], "done")
    /\ promised' = promised \cup (IF op[a] = "insert" \/ a \in misled THEN {} ELSE {doc[a]})
    /\ misled' = misled \ {a}
    /\ UNCHANGED <<vectors, keys, old, uids>>

(* deleteLoaderFromDocumentStore.                                            *)
WithoutLoader(r, d) == [r EXCEPT !.loaders[d] = NoLoader]
Remove(a) ==
    /\ At(a, "remove")
    /\ Read(a, "removeChunks", HasLoader(row, doc[a]))

RemoveChunks(a) ==
    /\ At(a, "removeChunks")
    /\ chunks' = chunks \ ChunksOf(doc[a])
    /\ Goto(a, "removeSave")
    /\ UNCHANGED <<row, store, request, local, promised, spoiled>>

SaveRemoved(a) ==
    /\ At(a, "removeSave")
    /\ SaveRow(a, WithoutLoader(copy[a], doc[a]), "done")

(* deleteDocumentStoreFileChunk and editDocumentStoreFileChunk: the loader   *)
(* in the row, then the chunk, which may not be there: it is looked up by its *)
(* own id, and may be a chunk of another loader.                             *)
Pick(a) ==
    /\ At(a, "pick")
    /\ Read(a, "find", HasLoader(row, doc[a]))

Find(a) ==
    /\ At(a, "find")
    /\ \/ /\ \E c \in chunks : found' = [found EXCEPT ![a] = {c}]
          /\ Goto(a, "change")
          /\ UNCHANGED <<tables, store, request, copy, promised, spoiled>>
       \/ Fail(a, {})
    /\ UNCHANGED toSave

(* Saving the edited chunk inserts it again if it was deleted meanwhile.     *)
Change(a) ==
    /\ At(a, "change")
    /\ \E c \in found[a] :
         /\ chunks' = (chunks \ WithId(c))
                        \cup (IF op[a] = "editChunk" THEN {[c EXCEPT !.edited = TRUE]} ELSE {})
         /\ promised' = IF op[a] = "editChunk" THEN promised \ {c.doc} ELSE promised
         /\ spoiled' = IF c.doc = doc[a] THEN spoiled ELSE spoiled \cup {c.doc, doc[a]}
    /\ found' = [found EXCEPT ![a] = {}]
    /\ Goto(a, "countSave")
    /\ UNCHANGED <<row, store, request, copy, toSave>>

WithCount(r, o, d) ==
    IF o = "deleteChunk" THEN [r EXCEPT !.loaders[d].total = @ - 1] ELSE r
SaveCount(a) ==
    /\ At(a, "countSave")
    /\ SaveRow(a, WithCount(copy[a], op[a], doc[a]), "done")

(* deleteDocumentStore: the chunks, then the row.                            *)
Wipe(a) ==
    /\ At(a, "wipe")
    /\ chunks' = {}
    /\ Goto(a, "wipeCheck")
    /\ UNCHANGED <<row, store, request, local, promised, spoiled>>

WipeCheck(a) ==
    /\ At(a, "wipeCheck")
    /\ Read(a, "wipeRow", TRUE)

WipeRow(a) ==
    /\ At(a, "wipeRow")
    /\ row' = NoRow
    /\ copy' = [copy EXCEPT ![a] = NoRow]
    /\ Goto(a, "done")
    /\ UNCHANGED <<chunks, store, request, toSave, found, promised, spoiled>>

(* updateDocumentStore, updateVectorStoreConfigOnly, updateDocumentStoreUsage:*)
(* columns that are not modelled, saved with all the others.                 *)
Rename(a) ==
    /\ At(a, "rename")
    /\ Read(a, "renameSave", TRUE)

SaveRenamed(a) ==
    /\ At(a, "renameSave")
    /\ SaveRow(a, copy[a], "done")

(* The process dies.  A job whose worker died is started again, from its     *)
(* beginning; an upsert without the id of a loader takes a new one.          *)
Crash(a) ==
    /\ pc[a] \in Steps
    /\ crashes < bound.crashes
    /\ crashes' = crashes + 1
    /\ toSave' = [toSave EXCEPT ![a] = {}]
    /\ copy' = [copy EXCEPT ![a] = NoRow]
    /\ found' = [found EXCEPT ![a] = {}]
    /\ old' = Unindexed(a, old)
    /\ uids' = Unindexed(a, uids)
    /\ misled' = misled \ {a}
    /\ \/ /\ Goto(a, "failed")
          /\ spoiled' = spoiled \cup LeftHalfway(a)
          /\ UNCHANGED <<doc, used>>
       \/ /\ op[a] \in JobOps
          /\ \E d \in IF op[a] = "upsert" THEN Doc \ used ELSE {doc[a]} :
               /\ doc' = [doc EXCEPT ![a] = d]
               /\ used' = used \cup ({d} \cap Doc)
               /\ spoiled' = spoiled \cup LeftHalfway(a) \cup Contested(a, op[a], d)
          /\ Goto(a, First(op[a]))
    /\ UNCHANGED <<tables, vectors, keys, op, bound, promised>>

Step(a) ==
    \/ \E o \in Ops, d \in Doc \cup {AllDocs} : Start(a, o, d)
    \/ Register(a) \/ SaveRegistered(a) \/ Lookup(a)
    \/ Load(a) \/ Split(a) \/ Clear(a)
    \/ \E c \in toSave[a] : SaveChunk(a, c) \/ LoseChunk(a, c)
    \/ SaveProcessed(a) \/ Check(a)
    \/ Configure(a) \/ SaveConfig(a) \/ SaveUpserting(a)
    \/ Gather(a) \/ Index(a) \/ Finish(a) \/ Purge(a)
    \/ Remove(a) \/ RemoveChunks(a) \/ SaveRemoved(a)
    \/ Pick(a) \/ Find(a) \/ Change(a) \/ SaveCount(a)
    \/ Wipe(a) \/ WipeCheck(a) \/ WipeRow(a)
    \/ Rename(a) \/ SaveRenamed(a)
    \/ Crash(a)

Next == \E a \in Request : Step(a)
Spec == Init /\ [][Next]_vars

----------------------------------------------------------------------------
(* Nobody works on the loader, and nothing spoiled it since it was last      *)
(* processed alone.                                                          *)
Settled(d) == d \notin spoiled /\ Rivals(Nobody, d) = {}

(* The record of a loader agrees with its chunks, whatever failed before: one *)
(* processing that nobody interferes with puts it right.  A loader that is    *)
(* SYNC says how many chunks it has, one that is gone has left none (an       *)
(* upsert of the store would still take them to the vector store), and a      *)
(* loader stays SYNCING only when its processing failed or was disturbed.     *)
LoadersMatchChunks ==
    \A d \in Doc : Settled(d) =>
        /\ row.loaders[d].state # "SYNCING"
        /\ ~HasLoader(row, d) => ChunksOf(d) = {}
        /\ row.loaders[d].state = "SYNC" =>
             row.loaders[d].total = Cardinality(ChunksOf(d))

(* The chunks of an upsert that succeeded are in the vector store, all of    *)
(* them, until they change or a key of their loader is deleted by a request  *)
(* for that or by the cleanup of an upsert that does not take all of them.   *)
(* Excused are loaders two operations worked on, and an upsert that meets a  *)
(* deletion: one that happens meanwhile and takes the same keys, or one that *)
(* failed before and left keys recorded whose vectors are gone.              *)
SuccessfulUpsertIsSearchable ==
    \A d \in promised \ spoiled : KeysOf(ChunksOf(d)) \subseteq vectors

(* A request changes the record of another request's loader only by writing  *)
(* back a row that changed since it was read, or by deleting the store: a    *)
(* store that was deleted comes back in no other way.                        *)
OthersChangeOnlyThroughStaleCopies ==
    [][\A d \in Doc : row'.loaders[d] # row.loaders[d] =>
         \E a \in Request : /\ pc'[a] # pc[a]
                            /\ d \in Touches(op[a], doc[a]) \/ copy[a] # row]_vars

----------------------------------------------------------------------------
(* Why they hold.  Each operation keeps to its part of the code.             *)
Shared == {"list", "delete", "forget"}
Taken  == {"index", "exists"} \cup Indexing
Carries == {"removeChunks", "removeSave", "find", "change", "countSave", "configureSave",
            "upserting", "reconfigureSave", "gather"} \cup Taken
StepKnown(a) ==
    /\ pc[a] \in {"register", "registerSave"} => op[a] \in {"save", "upsert", "refresh"}
    /\ pc[a] = "lookup" => op[a] = "refresh"
    /\ pc[a] \in {"load", "split", "clear", "chunks", "check"}
         => op[a] \in {"process", "upsert", "refresh"}
    /\ pc[a] \in {"configure", "configureSave", "upserting", "reconfigure",
                  "reconfigureSave", "gather"} \cup (Taken \ Shared)
         => op[a] \in {"insert", "upsert", "refresh"}
    /\ pc[a] \in Shared => op[a] \in {"insert", "upsert", "refresh", "deleteVectors"}
    /\ pc[a] = "purge" => op[a] = "deleteVectors"
    /\ pc[a] \in {"remove", "removeChunks", "removeSave"} => op[a] = "deleteLoader"
    /\ pc[a] \in {"pick", "find", "change", "countSave"}
         => op[a] \in {"deleteChunk", "editChunk"}
    /\ pc[a] \in {"wipe", "wipeCheck", "wipeRow"} => op[a] = "deleteStore"
    /\ pc[a] \in {"rename", "renameSave"} => op[a] = "rename"
    /\ op[a] \in LoaderOps => doc[a] \in Doc
    /\ toSave[a] # {} => /\ op[a] \in {"process", "upsert", "refresh"}
                         /\ pc[a] \in {"chunks", "failed"}
                         /\ \A c \in toSave[a] : c.doc = doc[a]
    /\ pc[a] \in {"clear", "chunks"} =>
         /\ IsFiniteSet(found[a])
         /\ \A c \in found[a] : c.doc = doc[a] /\ ~c.edited
    /\ pc[a] \in {"find", "change", "countSave"} => HasLoader(copy[a], doc[a])
StepsKnown == \A a \in Request : StepKnown(a)

(* A deleted row has no loaders, and no request saves a row it did not find. *)
RowsKnown ==
    /\ ~Exists(row) => row = NoRow
    /\ \A a \in Request :
         pc[a] \in Carries \cup {"registerSave", "renameSave"} /\ op[a] # "deleteVectors"
           => Exists(copy[a])

Busy(a, d) == Active(a) /\ d \in Touches(op[a], doc[a])
Alone == \A d \in Doc \ spoiled, a, b \in Request : Busy(a, d) /\ Busy(b, d) => a = b

(* What is true of a loader nobody works on.                                 *)
Proper(d) == IsFiniteSet(ChunksOf(d)) /\ \A c \in ChunksOf(d) : WithId(c) = {c}
Sound(d) ==
    /\ Proper(d)
    /\ row.loaders[d].state # "SYNCING"
    /\ ~HasLoader(row, d) => ChunksOf(d) = {}
    /\ row.loaders[d].state = "SYNC" => row.loaders[d].total = Cardinality(ChunksOf(d))

(* What is true of it while one request does: it is still sound unless the   *)
(* request is halfway.                                                       *)
Removed(a) == IF op[a] = "deleteChunk" THEN 1 ELSE 0
Mid(a, d) ==
    /\ op[a] # "save" /\ pc[a] # "failed"
    /\ pc[a] \notin Halfway => Sound(d)
    /\ pc[a] \in Carries => copy[a].loaders[d] = row.loaders[d]
    /\ pc[a] = "chunks" => ChunksOf(d) \cup toSave[a] = found[a] /\ d \notin promised
    /\ pc[a] = "load" => Sound(d) \/ HasLoader(row, d)
    /\ pc[a] = "change" => \A c \in found[a] : c.doc = d => c \in chunks
    /\ pc[a] \in Taken => ChunksOf(d) \subseteq found[a]
    /\ pc[a] = "countSave" =>
         /\ Proper(d)
         /\ row.loaders[d].state # "SYNCING"
         /\ row.loaders[d].state = "SYNC" =>
              row.loaders[d].total - Removed(a) = Cardinality(ChunksOf(d))
    /\ pc[a] \in {"removeSave", "wipeCheck", "wipeRow"} => ChunksOf(d) = {}

Kept(d) ==
    /\ \/ Sound(d)
       \/ \E a \in Request : Busy(a, d)
    /\ \A a \in Request : Busy(a, d) => Mid(a, d)

IInv == /\ TypeOK /\ StepsKnown /\ RowsKnown /\ Alone
        /\ \A d \in Doc \ spoiled : Kept(d)

(* What an upsert knows of the vectors of its chunks, and of the keys it is  *)
(* about to delete.                                                          *)
Indexed(a) ==
    /\ a \notin misled =>
         /\ pc[a] \in {"skip", "add"} => Upserted(a) \ uids[a] \subseteq vectors
         /\ pc[a] \in {"record", "finish"} \cup Shared => Upserted(a) \subseteq vectors
    /\ pc[a] = "list" => old[a] \cap Upserted(a) = {}
    /\ pc[a] \in {"delete", "forget"} => uids[a] \cap Upserted(a) = {}
    /\ pc[a] = "idle" \/ op[a] = "deleteVectors" => found[a] = {}

VInv == SuccessfulUpsertIsSearchable /\ \A a \in Request : Indexed(a)
=============================================================================
