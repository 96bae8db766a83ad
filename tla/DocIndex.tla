------------------------------- MODULE DocIndex -------------------------------
(***************************************************************************)
(* WorkspaceIndex and the handlers that keep it: the files of a workspace, *)
(* the tables documents, doc_chunks and chunk_embeddings, and the vector   *)
(* index in memory.  Every statement is a step of its own, but for the     *)
(* DELETEs of embeddings id by id, which are one; an upload waits minutes  *)
(* between them, and its client may go away.                               *)
(*                                                                         *)
(* A version stands for the text that is read of a file (a placeholder, if *)
(* it could not be parsed): Pieces says into how many chunks it is cut, 0  *)
(* if it is empty; one of blanks only ends up as after a failed embedding. *)
(* All files are of the kinds that are chunked (pdf, doc, docx, md).  The  *)
(* flag is_public and the database of a spreadsheet are left out, and so   *)
(* are moves of a whole directory.                                         *)
(***************************************************************************)
EXTENDS Naturals, FiniteSets

CONSTANTS
    Handlers,
    Paths,
    Dirs,
    Inside,     \* the files that are in a directory or below it
    Matches,    \* the files whose dir_path matches `dir%`
    Versions,
    Pieces,     \* chunks of each version
    None,
    MaxOps,     \* bound: operations in all
    MaxFaults   \* bound: restarts and dropped handlers

ASSUME DocAssumption ==
    /\ Pieces \in [Versions -> Nat]
    /\ Inside \in [Dirs -> SUBSET Paths]
    /\ Matches \in [Dirs -> SUBSET Paths]
    /\ \A d \in Dirs : Inside[d] \subseteq Matches[d]
    /\ None \notin Handlers \cup Paths \cup Versions
    /\ None \notin [capacity : Nat, slots : Nat, keys : SUBSET Nat]
    /\ {MaxOps, MaxFaults} \subseteq Nat

VARIABLES
    disk,       \* the version that each file holds
    docs,       \* documents.content_text, by file_path (UNIQUE)
    chunks,     \* rows of doc_chunks
    embedded,   \* ids in chunk_embeddings
    vectors,    \* the HNSW index: capacity, slots taken, keys; None until it is made
    nextId,     \* AUTOINCREMENT
    pc, at,     \* per handler
    ops, faults,
    expected,   \* history: what the last undisturbed operation on a path left
    disturbed,  \* history: handlers whose paths another one works on, or did
    raced,      \* history: some handlers were disturbed, or one was dropped
    moved,      \* history: files whose row a move took away, and not the chunks
    rejected,   \* history: ids that the vector index had no room for
    edited      \* history: files changed since an operation of the index read them

store == <<disk, docs, chunks, embedded, vectors, nextId>>
history == <<expected, disturbed, raced, moved, rejected, edited>>
vars == <<store, pc, at, ops, faults, history>>

Ids == 1..nextId - 1
Chunk == [id : Nat, path : Paths, version : Versions, piece : Nat]
Local == [paths : SUBSET Paths,        \* what the operation is about
          path : Paths \cup {None},    \* the file it works on
          todo : SUBSET Paths,         \* the files remove_directory has yet to clear
          version : Versions \cup {None},
          ids : SUBSET Nat,            \* what SELECT id FROM doc_chunks returned
          piece : Nat,                 \* the next chunk to store
          to : Paths \cup {None},
          stray : SUBSET Paths]        \* history: files of a directory whose chunks had
                                       \* lost their document before

Rows(p) == {c \in chunks : c.path = p}
IdsOf(set) == {c.id : c \in set}

Init ==
    /\ disk = [p \in Paths |-> None]
    /\ docs = [p \in Paths |-> None]
    /\ chunks = {}
    /\ embedded = {}
    /\ vectors = None
    /\ nextId = 1
    /\ pc = [h \in Handlers |-> "idle"]
    /\ at = [h \in Handlers |-> None]
    /\ ops = 0
    /\ faults = 0
    /\ expected = [p \in Paths |-> "absent"]
    /\ disturbed = {}
    /\ raced = FALSE
    /\ moved = {}
    /\ rejected = {}
    /\ edited = {}

(***************************************************************************)
(* usearch, as VectorIndex calls it                                        *)
(***************************************************************************)
\* reserve(n) makes room for exactly n members.
Reserved(n) == [capacity |-> n, slots |-> 0, keys |-> {}]

\* Slots of removed keys, which insertions use first.
FreeSlots == vectors.slots - Cardinality(vectors.keys)

\* index_gt::add fails when every slot is taken: it does not grow.
Room == vectors.slots < vectors.capacity

\* Only called once an answer of embed_batch has made the index.
VectorAdd(id) ==
    \/ /\ FreeSlots > 0
       /\ vectors' = [vectors EXCEPT !.keys = @ \cup {id}]
       /\ UNCHANGED rejected
    \/ /\ FreeSlots = 0
       /\ Room
       /\ vectors' = [vectors EXCEPT !.keys = @ \cup {id}, !.slots = @ + 1]
       /\ UNCHANGED rejected
    \/ /\ FreeSlots = 0
       /\ ~Room
       /\ rejected' = rejected \cup {id}       \* `let _ =` drops the error
       /\ UNCHANGED vectors

VectorRemove(ids) ==
    vectors' = IF vectors = None THEN None ELSE [vectors EXCEPT !.keys = @ \ ids]

(***************************************************************************)
(* Parts of actions                                                        *)
(***************************************************************************)
Goes(h, p) == pc' = [pc EXCEPT ![h] = p]

Working(h) == pc[h] # "idle"

\* An operation on these paths begins.
Begin(h, p, paths, to, first) ==
    LET others == {g \in Handlers : Working(g) /\ at[g].paths \cap paths # {}} IN
    /\ ~Working(h)
    /\ ops < MaxOps
    /\ ops' = ops + 1
    /\ Goes(h, first)
    /\ at' = [at EXCEPT ![h] = [paths |-> paths, path |-> p, todo |-> {},
                                version |-> None, ids |-> {}, piece |-> 1, to |-> to,
                                stray |-> {}]]
    /\ expected' = [q \in Paths |-> IF q \in paths THEN "unknown" ELSE expected[q]]
    /\ disturbed' = IF others = {} THEN disturbed ELSE disturbed \cup others \cup {h}
    /\ raced' = (raced \/ others # {})
    /\ UNCHANGED <<faults, moved, rejected, edited>>

\* It ends, and leaves its files as stated if nobody else worked on them; stray
\* chunks stay where a directory is removed.
Ends(h, left) ==
    /\ Goes(h, "idle")
    /\ at' = [at EXCEPT ![h] = None]
    /\ expected' = [q \in Paths |->
                      IF q \notin at[h].paths \/ h \in disturbed THEN expected[q]
                      ELSE IF left = "absent" /\ q \in at[h].stray THEN "gone"
                      ELSE left]
    /\ disturbed' = disturbed \ {h}
    /\ UNCHANGED <<ops, faults, raced>>

Continues(h, p) == Goes(h, p) /\ UNCHANGED <<ops, faults, expected, disturbed, raced>>

(***************************************************************************)
(* add_document                                                            *)
(***************************************************************************)
\* upload: the file is saved, then indexed.
Upload(h, p, v) ==
    /\ Begin(h, p, {p}, None, "read")
    /\ disk' = [disk EXCEPT ![p] = v]
    /\ UNCHANGED <<docs, chunks, embedded, vectors, nextId>>

\* A file of reindex_workspace.
Reindex(h, p) ==
    /\ disk[p] # None
    /\ Begin(h, p, {p}, None, "read")
    /\ UNCHANGED store

AddRead(h) ==
    /\ pc[h] = "read"
    /\ \/ /\ disk[at[h].path] # None
          /\ at' = [at EXCEPT ![h].version = disk[at[h].path]]
          /\ Continues(h, "upsert")
       \/ disk[at[h].path] = None /\ Ends(h, "unknown")
    /\ edited' = edited \ {at[h].path}
    /\ UNCHANGED <<store, moved, rejected>>

\* Mutated form of AddUpsert: the chunks of the older text are not deleted first.
AddUpsertKeepsChunks(h) ==
    /\ pc[h] = "upsert"
    /\ docs' = [docs EXCEPT ![at[h].path] = at[h].version]
    /\ \/ Pieces[at[h].version] # 0 /\ Continues(h, "embed") /\ UNCHANGED at
       \/ Pieces[at[h].version] = 0 /\ Ends(h, "unchunked")
    /\ UNCHANGED <<disk, chunks, embedded, vectors, nextId, moved, rejected, edited>>

\* The chunks stay as they are if the text is empty.
AddUpsert(h) ==
    /\ pc[h] = "upsert"
    /\ docs' = [docs EXCEPT ![at[h].path] = at[h].version]
    /\ \/ Pieces[at[h].version] # 0 /\ Continues(h, "select") /\ UNCHANGED at
       \/ Pieces[at[h].version] = 0 /\ Ends(h, "unchunked")
    /\ UNCHANGED <<disk, chunks, embedded, vectors, nextId, moved, rejected, edited>>

\* embed_batch answers or fails; the first answer makes the vector index, with
\* room for the chunks of this document.
AddEmbed(h) ==
    /\ pc[h] = "embed"
    /\ \/ /\ Continues(h, "row")
          /\ vectors' = IF vectors = None THEN Reserved(Pieces[at[h].version]) ELSE vectors
          /\ UNCHANGED at
       \/ Ends(h, "bare") /\ UNCHANGED vectors
    /\ UNCHANGED <<disk, docs, chunks, embedded, nextId, moved, rejected, edited>>

\* Three steps for each chunk.
AddRow(h) ==
    /\ pc[h] = "row"
    /\ chunks' = chunks \cup {[id |-> nextId, path |-> at[h].path,
                               version |-> at[h].version, piece |-> at[h].piece]}
    /\ nextId' = nextId + 1
    /\ at' = [at EXCEPT ![h].ids = {nextId}]
    /\ Continues(h, "embedding")
    /\ UNCHANGED <<disk, docs, embedded, vectors, moved, rejected, edited>>

\* chunk_embeddings refers to doc_chunks: the chunk may be gone by now.
AddEmbedding(h) ==
    /\ pc[h] = "embedding"
    /\ \/ /\ at[h].ids \subseteq IdsOf(chunks)
          /\ embedded' = embedded \cup at[h].ids
          /\ Continues(h, "vector")
          /\ UNCHANGED at
       \/ /\ ~ at[h].ids \subseteq IdsOf(chunks)
          /\ Ends(h, "unknown")
          /\ UNCHANGED embedded
    /\ UNCHANGED <<disk, docs, chunks, vectors, nextId, moved, rejected, edited>>

AddVector(h) ==
    /\ pc[h] = "vector"
    /\ \A id \in at[h].ids : VectorAdd(id)
    /\ \/ /\ at[h].piece < Pieces[at[h].version]
          /\ at' = [at EXCEPT ![h].piece = @ + 1, ![h].ids = {}]
          /\ Continues(h, "row")
       \/ /\ at[h].piece = Pieces[at[h].version]
          /\ Ends(h, "indexed")
    /\ UNCHANGED <<disk, docs, chunks, embedded, nextId, moved, edited>>

(***************************************************************************)
(* delete_file_chunks, which three operations call                         *)
(***************************************************************************)
\* Where its caller goes on: to the embeddings, to the next file, or home.
Cleared(h) ==
    \/ at[h].version # None /\ Continues(h, "embed") /\ UNCHANGED at
    \/ /\ at[h].version = None
       /\ \E p \in at[h].todo :
            /\ at' = [at EXCEPT ![h].path = p, ![h].todo = @ \ {p}]
            /\ Continues(h, "select")
    \/ at[h].version = None /\ at[h].todo = {} /\ Ends(h, "absent")

ClearSelect(h) ==
    /\ pc[h] = "select"
    /\ LET ids == IdsOf(Rows(at[h].path)) IN
       \/ /\ ids # {}
          /\ at' = [at EXCEPT ![h].ids = ids]
          /\ Continues(h, "unvector")
       \/ ids = {} /\ Cleared(h)
    /\ UNCHANGED <<store, moved, rejected, edited>>

\* Mutated form of ClearVectors: the vector index keeps what is deleted.
ClearVectorsNot(h) ==
    /\ pc[h] = "unvector"
    /\ Continues(h, "unembed")
    /\ UNCHANGED <<store, at, moved, rejected, edited>>

ClearVectors(h) ==
    /\ pc[h] = "unvector"
    /\ VectorRemove(at[h].ids)
    /\ Continues(h, "unembed")
    /\ UNCHANGED <<disk, docs, chunks, embedded, nextId, at, moved, rejected, edited>>

ClearEmbeddings(h) ==
    /\ pc[h] = "unembed"
    /\ embedded' = embedded \ at[h].ids
    /\ Continues(h, "delete")
    /\ UNCHANGED <<disk, docs, chunks, vectors, nextId, at, moved, rejected, edited>>

\* Mutated form of ClearChunks: foreign keys are not enforced.
ClearChunksOnly(h) ==
    /\ pc[h] = "delete"
    /\ chunks' = chunks \ Rows(at[h].path)
    /\ moved' = moved \ {at[h].path}
    /\ Cleared(h)
    /\ UNCHANGED <<disk, docs, embedded, vectors, nextId, rejected, edited>>

\* By path, and not by the ids; embeddings of what is deleted go with it.
ClearChunks(h) ==
    /\ pc[h] = "delete"
    /\ chunks' = chunks \ Rows(at[h].path)
    /\ embedded' = embedded \ IdsOf(Rows(at[h].path))
    /\ moved' = moved \ {at[h].path}
    /\ Cleared(h)
    /\ UNCHANGED <<disk, docs, vectors, nextId, rejected, edited>>

(***************************************************************************)
(* Removals and moves: the file system first, then the index               *)
(***************************************************************************)
RemoveFile(h, p) ==
    /\ disk[p] # None
    /\ Begin(h, p, {p}, None, "undoc")
    /\ disk' = [disk EXCEPT ![p] = None]
    /\ UNCHANGED <<docs, chunks, embedded, vectors, nextId>>

RemoveDoc(h) ==
    /\ pc[h] = "undoc"
    /\ docs' = [docs EXCEPT ![at[h].path] = None]
    /\ Continues(h, "select")
    /\ UNCHANGED <<disk, chunks, embedded, vectors, nextId, at, moved, rejected, edited>>

RemoveDirectory(h, d) ==
    /\ Begin(h, None, Matches[d], None, "list")
    /\ disk' = [p \in Paths |-> IF p \in Inside[d] THEN None ELSE disk[p]]
    /\ UNCHANGED <<docs, chunks, embedded, vectors, nextId>>

Strays(h) == {p \in at[h].paths : docs[p] = None /\ Rows(p) # {}}

\* Mutated form of RemoveList: the files are listed when their rows are gone.
RemoveListLate(h) ==
    /\ pc[h] = "list"
    /\ at' = [at EXCEPT ![h].todo = {}, ![h].stray = Strays(h)]
    /\ Continues(h, "undocs")
    /\ UNCHANGED <<store, moved, rejected, edited>>

RemoveList(h) ==
    /\ pc[h] = "list"
    /\ at' = [at EXCEPT ![h].todo = {p \in at[h].paths : docs[p] # None},
                        ![h].stray = Strays(h)]
    /\ Continues(h, "undocs")
    /\ UNCHANGED <<store, moved, rejected, edited>>

RemoveDocs(h) ==
    /\ pc[h] = "undocs"
    /\ docs' = [p \in Paths |-> IF p \in at[h].paths THEN None ELSE docs[p]]
    /\ \/ \E p \in at[h].todo :
            /\ at' = [at EXCEPT ![h].path = p, ![h].todo = @ \ {p}]
            /\ Continues(h, "select")
       \/ at[h].todo = {} /\ Ends(h, "absent")
    /\ UNCHANGED <<disk, chunks, embedded, vectors, nextId, moved, rejected, edited>>

Move(h, p, to) ==
    /\ disk[p] # None
    /\ p # to
    /\ Begin(h, p, {p, to}, to, "move")
    /\ disk' = [disk EXCEPT ![to] = disk[p], ![p] = None]
    /\ UNCHANGED <<docs, chunks, embedded, vectors, nextId>>

\* One UPDATE of documents, refused if a row has the new path already.
MoveDoc(h) ==
    /\ pc[h] = "move"
    /\ LET p == at[h].path  to == at[h].to IN
       IF docs[p] # None /\ docs[to] = None
       THEN /\ docs' = [docs EXCEPT ![to] = docs[p], ![p] = None]
            /\ moved' = moved \cup {p}
       ELSE UNCHANGED <<docs, moved>>
    /\ Ends(h, "unknown")
    /\ UNCHANGED <<disk, chunks, embedded, vectors, nextId, rejected, edited>>

\* The editor and the agent's file_write and file_copy write a file, and its shell
\* may delete one too: none of them tells the index.
Edit(p, v) ==
    /\ ops < MaxOps
    /\ ops' = ops + 1
    /\ disk' = [disk EXCEPT ![p] = v]
    /\ edited' = edited \cup {p}
    /\ UNCHANGED <<docs, chunks, embedded, vectors, nextId, pc, at, faults,
                   expected, disturbed, raced, moved, rejected>>

(***************************************************************************)
(* Faults                                                                  *)
(***************************************************************************)
\* The handler's client went away while the handler waited.
Drop(h) ==
    /\ Working(h)
    /\ faults < MaxFaults
    /\ faults' = faults + 1
    /\ Goes(h, "idle")
    /\ at' = [at EXCEPT ![h] = None]
    /\ disturbed' = disturbed \ {h}
    /\ raced' = TRUE
    /\ UNCHANGED <<store, ops, expected, moved, rejected, edited>>

\* build_vector_index: room for exactly what is stored.
Restart ==
    /\ faults < MaxFaults
    /\ faults' = faults + 1
    /\ vectors' = IF embedded = {} THEN None
                  ELSE [Reserved(Cardinality(embedded)) EXCEPT
                         !.slots = Cardinality(embedded), !.keys = embedded]
    /\ rejected' = {}
    /\ raced' = (raced \/ \E h \in Handlers : Working(h))
    /\ pc' = [h \in Handlers |-> "idle"]
    /\ at' = [h \in Handlers |-> None]
    /\ disturbed' = {}
    /\ UNCHANGED <<disk, docs, chunks, embedded, nextId, ops, expected, moved, edited>>

(***************************************************************************)
(* Specification                                                           *)
(***************************************************************************)
Step(h) ==
    \/ AddRead(h) \/ AddUpsert(h) \/ AddEmbed(h)
    \/ AddRow(h) \/ AddEmbedding(h) \/ AddVector(h)
    \/ ClearSelect(h) \/ ClearVectors(h) \/ ClearEmbeddings(h) \/ ClearChunks(h)
    \/ RemoveDoc(h) \/ RemoveList(h) \/ RemoveDocs(h) \/ MoveDoc(h)

Request(h) ==
    \/ \E p \in Paths, v \in Versions : Upload(h, p, v)
    \/ \E p \in Paths : Reindex(h, p) \/ RemoveFile(h, p)
    \/ \E d \in Dirs : RemoveDirectory(h, d)
    \/ \E p, to \in Paths : Move(h, p, to)

Next ==
    \/ \E h \in Handlers : Request(h) \/ Step(h) \/ Drop(h)
    \/ \E p \in Paths, v \in Versions \cup {None} : Edit(p, v)
    \/ Restart

Spec == Init /\ [][Next]_vars

(***************************************************************************)
(* Properties                                                              *)
(***************************************************************************)
\* The state is well typed, ids are given out once, an embedding belongs to a
\* chunk (ON DELETE CASCADE), and the vector index never holds more keys than
\* slots, nor takes more slots than were reserved (VectorIndex, usearch).
TypeOK ==
    /\ disk \in [Paths -> Versions \cup {None}]
    /\ docs \in [Paths -> Versions \cup {None}]
    /\ nextId \in Nat \ {0}
    /\ chunks \subseteq [id : Ids, path : Paths, version : Versions, piece : Nat]
    /\ \A c, e \in chunks : c.id = e.id => c = e
    /\ embedded \subseteq IdsOf(chunks)
    /\ vectors # None =>
         /\ vectors.keys \subseteq Ids
         /\ Cardinality(vectors.keys) <= vectors.slots
         /\ vectors.slots <= vectors.capacity
    /\ pc \in [Handlers -> {"idle", "read", "upsert", "select", "unvector", "unembed",
                            "delete", "embed", "row", "embedding", "vector", "undoc",
                            "list", "undocs", "move"}]
    /\ at \in [Handlers -> Local \cup {None}]
    /\ expected \in [Paths -> {"absent", "gone", "unknown", "unchunked", "bare", "indexed"}]
    /\ ops \in 0..MaxOps
    /\ faults \in 0..MaxFaults
    /\ disturbed \subseteq Handlers
    /\ moved \subseteq Paths
    /\ rejected \subseteq Ids
    /\ edited \subseteq Paths

Holds(id) == vectors # None /\ id \in vectors.keys

\* "Add or update a document" (add_document, workspace_index.rs:331): what an
\* upload or a reindex left, if nobody else worked on the file meanwhile, is the
\* text on disk, unless the file was edited after it was read, and exactly one
\* embedded chunk for each of its pieces, findable unless the vector index was
\* full; no chunk of an older version is left.  Operations on other files, edits,
\* dropped handlers and restarts change none of that.
IndexedIsExact ==
    \A p \in Paths :
        /\ expected[p] \in {"indexed", "bare", "unchunked"} =>
             docs[p] # None /\ (docs[p] = disk[p] \/ p \in edited)
        /\ expected[p] = "bare" => Rows(p) = {}
        /\ expected[p] = "indexed" =>
             /\ {<<c.version, c.piece>> : c \in Rows(p)} = {docs[p]} \X (1..Pieces[docs[p]])
             /\ Cardinality(Rows(p)) = Pieces[docs[p]]
             /\ \A id \in IdsOf(Rows(p)) : id \in embedded /\ (Holds(id) \/ id \in rejected)

\* "Remove a file from the index", "Remove all documents under a directory"
\* (workspace_index.rs:495, 517): a file that an undisturbed removal took away, by
\* itself or with its directory, has no document and no chunk, and so is found
\* neither by text nor by vector (vector_search reads what it finds from
\* doc_chunks).  Excepted are the chunks ("gone") of a file of the directory that
\* had lost its document before, by a move or a removal that was cut off: they are
\* not deleted.  Stated of all files the pattern of remove_directory matches, and
\* these are more than those under the directory (Matches, line 523).
RemovedIsGone ==
    \A p \in Paths :
        /\ expected[p] \in {"absent", "gone"} => docs[p] = None
        /\ expected[p] = "absent" => Rows(p) = {}

\* When no handler works, and none was disturbed or dropped on the way: a chunk
\* without a document is one that a move left behind, a chunk without an
\* embedding there is none, and the vector index holds the embedded chunks but
\* for those it had no room for.
Quiet == ~raced /\ \A h \in Handlers : ~Working(h)

StoresAgree ==
    Quiet =>
        /\ \A c \in chunks : docs[c.path] # None \/ c.path \in moved
        /\ IdsOf(chunks) = embedded
        /\ \A id \in embedded : Holds(id) \/ id \in rejected
        /\ vectors # None => vectors.keys \subseteq embedded

\* "`capacity` - Initial capacity hint (number of vectors expected)"
\* (VectorIndex::new, vector_index.rs): a hint does not bound the index, so every
\* embedded chunk can be found.
EveryChunkIsFindable == Quiet => \A id \in embedded : Holds(id)
===============================================================================
