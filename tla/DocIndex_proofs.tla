---------------------------- MODULE DocIndex_proofs ----------------------------
(***************************************************************************)
(* Proofs about DocIndex, for any files, directories, versions, handlers   *)
(* and any number of operations and faults: type correctness, what an      *)
(* undisturbed operation leaves, and the agreement of the four stores.     *)
(***************************************************************************)
EXTENDS DocIndex, FiniteSetTheorems, TLAPS

(***************************************************************************)
(* The inductive invariant                                                 *)
(***************************************************************************)
Stages == {"idle", "read", "upsert", "select", "unvector", "unembed", "delete", "embed",
           "row", "embedding", "vector", "undoc", "list", "undocs", "move"}
Clearing == {"select", "unvector", "unembed", "delete"}
Storing == {"row", "embedding", "vector"}
Outcomes == {"absent", "gone", "unknown", "unchunked", "bare", "indexed"}
Vectors == [capacity : Nat, slots : Nat, keys : SUBSET Nat]

\* TypeOK in two parts; and the vector index is a record once it is made.
StoreTypes ==
    /\ disk \in [Paths -> Versions \cup {None}]
    /\ docs \in [Paths -> Versions \cup {None}]
    /\ nextId \in Nat \ {0}
    /\ chunks \subseteq [id : Ids, path : Paths, version : Versions, piece : Nat]
    /\ \A c, e \in chunks : c.id = e.id => c = e
    /\ IsFiniteSet(chunks)
    /\ embedded \subseteq IdsOf(chunks)
    /\ vectors # None =>
         /\ vectors \in Vectors
         /\ vectors.keys \subseteq Ids
         /\ Cardinality(vectors.keys) <= vectors.slots
         /\ vectors.slots <= vectors.capacity
    /\ moved \subseteq Paths
    /\ rejected \subseteq Ids
    /\ edited \subseteq Paths

RunTypes ==
    /\ pc \in [Handlers -> Stages]
    /\ at \in [Handlers -> Local \cup {None}]
    /\ expected \in [Paths -> Outcomes]
    /\ ops \in 0..MaxOps
    /\ faults \in 0..MaxFaults
    /\ disturbed \subseteq Handlers

\* What a handler works with, by its pc.
AtTypes(h) ==
    /\ Working(h) => at[h] \in Local /\ at[h].todo \subseteq at[h].paths
    /\ pc[h] \notin {"idle", "list", "undocs"} => at[h].path \in at[h].paths
    /\ pc[h] \in {"read", "undoc", "list", "undocs", "move"} => at[h].version = None
    /\ pc[h] \in {"upsert", "embed"} \cup Storing => at[h].version \in Versions
    /\ pc[h] \notin {"idle"} \cup Storing => at[h].piece = 1
    /\ pc[h] \in {"embed"} \cup Clearing /\ at[h].version # None => Pieces[at[h].version] # 0
    /\ pc[h] \in Storing => at[h].piece \in 1..Pieces[at[h].version] /\ vectors # None
    /\ pc[h] \in {"embedding", "vector"} => \E id \in Ids : at[h].ids = {id}
    /\ pc[h] \in {"unvector", "unembed", "delete"} => at[h].ids \subseteq Ids
    /\ pc[h] = "move" => at[h].to \in at[h].paths
    /\ pc[h] \in {"read", "undoc"} \/ (Working(h) /\ at[h].version # None) => at[h].paths = {at[h].path}

\* The ids that a handler deletes or stores are of its file, or of no chunk.
OwnIds(h) ==
    pc[h] \in {"unvector", "unembed", "delete", "embedding", "vector"} =>
        \A c \in chunks : c.id \in at[h].ids => c.path = at[h].path

\* Who works on the files of another is disturbed, and so is the other.
Disturbance ==
    /\ \A h, g \in Handlers :
         h # g /\ Working(h) /\ Working(g) /\ at[h].paths \cap at[g].paths # {} => h \in disturbed
    /\ \A h \in Handlers : Working(h) => \A p \in at[h].paths : expected[p] = "unknown"
    /\ ~raced => disturbed = {}

\* What holds of the files of a handler that nobody disturbed: of the document,
DocProgress(h) ==
    /\ pc[h] # "read" /\ at[h].version # None =>
         disk[at[h].path] = at[h].version \/ at[h].path \in edited
    /\ pc[h] \notin {"read", "upsert"} /\ at[h].version # None =>
         docs[at[h].path] = at[h].version
    /\ pc[h] \in Clearing /\ at[h].version = None => \A q \in at[h].paths : docs[q] = None
    /\ pc[h] = "undocs" => at[h].todo = {q \in at[h].paths : docs[q] # None}

\* of the chunks while it deletes them,
ClearProgress(h) ==
    /\ pc[h] \in {"unvector", "unembed", "delete"} => at[h].ids = IdsOf(Rows(at[h].path))
    /\ pc[h] \in {"unembed", "delete"} => \A id \in at[h].ids : ~Holds(id)
    /\ pc[h] = "delete" => at[h].ids \cap embedded = {}
    /\ pc[h] = "embed" => Rows(at[h].path) = {}

\* of those that it has deleted, file after file,
Emptied(h, q) == Rows(q) = {} \/ q \in at[h].stray

EmptyProgress(h) ==
    /\ pc[h] = "undocs" => \A q \in at[h].paths \ at[h].todo : Emptied(h, q)
    /\ pc[h] \in Clearing /\ at[h].version = None =>
         \A q \in at[h].paths \ ({at[h].path} \cup at[h].todo) : Emptied(h, q)

\* and while it stores them: how many pieces are stored, and where.
StoredPieces(h) == IF pc[h] = "row" THEN at[h].piece - 1 ELSE at[h].piece

StoreProgress(h) ==
    LET rows == Rows(at[h].path) IN
    pc[h] \in Storing =>
        /\ {<<c.version, c.piece>> : c \in rows} = {at[h].version} \X (1..StoredPieces(h))
        /\ Cardinality(rows) = StoredPieces(h)
        /\ \A id \in IdsOf(rows) : id \in embedded \/ (pc[h] = "embedding" /\ id \in at[h].ids)
        /\ \A id \in IdsOf(rows) : Holds(id) \/ id \in rejected \/ (pc[h] # "row" /\ id \in at[h].ids)
        /\ pc[h] # "row" => at[h].ids \subseteq IdsOf(rows)

Progress(h) == DocProgress(h) /\ ClearProgress(h) /\ EmptyProgress(h) /\ StoreProgress(h)

\* What is not as it should be is being seen to: chunks of no document,
Documented ==
    \A c \in chunks :
        \/ docs[c.path] # None
        \/ c.path \in moved
        \/ \E h \in Handlers : pc[h] \in Clearing /\ c.path \in {at[h].path} \cup at[h].todo

\* chunks that are not embedded,
Embedded ==
    \A c \in chunks :
        \/ c.id \in embedded
        \/ \E h \in Handlers : pc[h] \in {"embedding", "delete"} /\ c.id \in at[h].ids

\* embedded chunks that are not in the vector index, and what is there besides.
Findable ==
    \A id \in embedded :
        \/ Holds(id)
        \/ id \in rejected
        \/ \E h \in Handlers : pc[h] \in {"vector", "unembed"} /\ id \in at[h].ids

NothingElse == vectors # None => vectors.keys \subseteq embedded

Agreement == ~raced => Documented /\ Embedded /\ Findable /\ NothingElse

\* IndexedIsExact and RemovedIsGone, file by file: what an operation leaves.
FileAs(p, how) ==
    /\ how \in {"indexed", "bare", "unchunked"} =>
         docs[p] # None /\ (docs[p] = disk[p] \/ p \in edited)
    /\ how \in {"absent", "gone"} => docs[p] = None
    /\ how \in {"absent", "bare"} => Rows(p) = {}
    /\ how = "indexed" =>
         /\ {<<c.version, c.piece>> : c \in Rows(p)} = {docs[p]} \X (1..Pieces[docs[p]])
         /\ Cardinality(Rows(p)) = Pieces[docs[p]]
         /\ \A id \in IdsOf(Rows(p)) : id \in embedded /\ (Holds(id) \/ id \in rejected)

Files == \A p \in Paths : FileAs(p, expected[p])

DocInv ==
    /\ StoreTypes
    /\ RunTypes
    /\ \A h \in Handlers : AtTypes(h) /\ OwnIds(h)
    /\ Disturbance
    /\ \A h \in Handlers : Working(h) /\ h \notin disturbed => Progress(h)
    /\ Agreement
    /\ Files

LEMMA InvariantIsStronger ==
    /\ StoreTypes /\ RunTypes => TypeOK
    /\ Files <=> IndexedIsExact /\ RemovedIsGone
    /\ StoreTypes /\ Agreement => StoresAgree
<1>1. StoreTypes /\ RunTypes => TypeOK
  BY DEF StoreTypes, RunTypes, TypeOK, Vectors, Stages, Outcomes
<1>2. Files <=> IndexedIsExact /\ RemovedIsGone
  BY DEF Files, FileAs, IndexedIsExact, RemovedIsGone
<1>3. ASSUME Agreement, StoreTypes, Quiet PROVE StoresAgree
  <2>1. Documented /\ Embedded /\ Findable /\ NothingElse /\ \A h \in Handlers : pc[h] = "idle"
    BY <1>3 DEF Agreement, Quiet, Working
  <2>2. \A c \in chunks : docs[c.path] # None \/ c.path \in moved
    BY <2>1 DEF Documented, Clearing
  <2>3. IdsOf(chunks) = embedded
    BY <1>3, <2>1 DEF Embedded, StoreTypes, IdsOf
  <2>4. \A id \in embedded : Holds(id) \/ id \in rejected
    BY <2>1 DEF Findable
  <2> QED BY <2>1, <2>2, <2>3, <2>4 DEF NothingElse, StoresAgree
<1> QED BY <1>1, <1>2, <1>3 DEF StoresAgree

-----------------------------------------------------------------------------
(***************************************************************************)
(* A step leaves the files of nobody else as they are                      *)
(***************************************************************************)
SameAt(p) ==
    /\ disk'[p] = disk[p] \/ p \in edited'
    /\ p \in edited => p \in edited'
    /\ docs'[p] = docs[p]
    /\ Rows(p)' = Rows(p)
    /\ \A id \in IdsOf(Rows(p)) :
         /\ id \in embedded' <=> id \in embedded
         /\ Holds(id)' <=> Holds(id)
         /\ id \in rejected => id \in rejected'

\* A step of h: the other handlers stay where they are, ids are never given
\* back, and the files that h does not work on stay the same.
Alone(h) ==
    /\ StoreTypes'
    /\ \A g \in Handlers : g # h => pc'[g] = pc[g] /\ at'[g] = at[g]
    /\ nextId <= nextId'
    /\ vectors # None => vectors' # None
    /\ \A c \in chunks' : c \in chunks \/ c.id \notin Ids
    /\ \A p \in Paths \ at[h].paths : SameAt(p)

LEMMA UnknownFile == \A p : FileAs(p, "unknown")
BY DEF FileAs

LEMMA FileKept ==
    ASSUME NEW p \in Paths, FileAs(p, expected[p]), SameAt(p), expected'[p] = expected[p]
    PROVE  FileAs(p, expected[p])'
BY DEF FileAs, SameAt, IdsOf

LEMMA FilesKept ==
    ASSUME Files, NEW P,
           \A p \in Paths \ P : expected'[p] = expected[p] /\ SameAt(p),
           \A p \in Paths \cap P : FileAs(p, expected[p])'
    PROVE  Files'
<1> SUFFICES ASSUME NEW p \in Paths PROVE FileAs(p, expected[p])'
  BY DEF Files
<1>1. CASE p \in P
  BY <1>1
<1>2. CASE p \notin P
  BY <1>2, FileKept DEF Files
<1> QED BY <1>1, <1>2

LEMMA StoreProgressKept ==
    ASSUME NEW g \in Handlers, StoreProgress(g), pc'[g] = pc[g], at'[g] = at[g],
           SameAt(at[g].path), pc[g] \in Storing
    PROVE  StoreProgress(g)'
<1> DEFINE rows == Rows(at[g].path)
<1>1. rows' = rows /\ StoredPieces(g)' = StoredPieces(g)
  BY DEF SameAt, StoredPieces
<1>2. \A id \in IdsOf(rows) : /\ id \in embedded' <=> id \in embedded
                              /\ Holds(id)' <=> Holds(id)
                              /\ id \in rejected => id \in rejected'
  BY DEF SameAt
<1>3. IdsOf(rows)' = IdsOf(rows)
  BY <1>1 DEF IdsOf
<1>4. at'[g].version = at[g].version /\ at'[g].ids = at[g].ids
  OBVIOUS
<1>5. {<<c.version, c.piece>> : c \in rows}' = {<<c.version, c.piece>> : c \in rows}
  BY <1>1
<1>6. /\ {<<c.version, c.piece>> : c \in rows} = {at[g].version} \X (1..StoredPieces(g))
      /\ Cardinality(rows) = StoredPieces(g)
      /\ \A id \in IdsOf(rows) : id \in embedded \/ (pc[g] = "embedding" /\ id \in at[g].ids)
      /\ \A id \in IdsOf(rows) :
           Holds(id) \/ id \in rejected \/ (pc[g] # "row" /\ id \in at[g].ids)
      /\ pc[g] # "row" => at[g].ids \subseteq IdsOf(rows)
  BY DEF StoreProgress
<1>7. {<<c.version, c.piece>> : c \in rows}' = {at'[g].version} \X (1..StoredPieces(g)')
  BY <1>1, <1>4, <1>5, <1>6
<1>8. Cardinality(rows)' = StoredPieces(g)'
  BY <1>1, <1>6
<1>9. \A id \in IdsOf(rows)' : id \in embedded' \/ (pc'[g] = "embedding" /\ id \in at'[g].ids)
  BY <1>2, <1>3, <1>4, <1>6
<1>10. \A id \in IdsOf(rows)' :
         Holds(id)' \/ id \in rejected' \/ (pc'[g] # "row" /\ id \in at'[g].ids)
  BY <1>2, <1>3, <1>4, <1>6
<1>11. pc'[g] # "row" => at'[g].ids \subseteq IdsOf(rows)'
  BY <1>3, <1>4, <1>6
<1> QED BY <1>7, <1>8, <1>9, <1>10, <1>11 DEF StoreProgress

LEMMA ProgressKept ==
    ASSUME NEW g \in Handlers, AtTypes(g), Working(g), Progress(g),
           pc'[g] = pc[g], at'[g] = at[g], \A p \in at[g].paths : SameAt(p)
    PROVE  Progress(g)'
<1>1. CASE at[g].path \in at[g].paths
  <2>1. SameAt(at[g].path)
    BY <1>1
  <2>2. DocProgress(g)'
    BY <2>1 DEF Progress, DocProgress, SameAt
  <2>3. ClearProgress(g)' /\ EmptyProgress(g)'
    BY <2>1 DEF Progress, ClearProgress, EmptyProgress, Emptied, SameAt, IdsOf
  <2>4. CASE pc[g] \in Storing
    BY <2>1, <2>2, <2>3, <2>4, StoreProgressKept DEF Progress
  <2>5. CASE pc[g] \notin Storing
    BY <2>2, <2>3, <2>5 DEF Progress, StoreProgress
  <2> QED BY <2>4, <2>5
<1>2. CASE at[g].path \notin at[g].paths
  <2>1. pc[g] \in {"list", "undocs"} /\ at[g].version = None
    BY <1>2 DEF AtTypes, Working
  <2> QED
    BY <2>1 DEF Progress, DocProgress, ClearProgress, EmptyProgress, Emptied, StoreProgress,
                SameAt, Clearing, Storing
<1> QED BY <1>1, <1>2

\* What was handed out before stays handed out.
LEMMA Intervals ==
    \A m, n \in Nat : m <= n => 1..m - 1 \subseteq 1..n - 1
BY Z3

LEMMA OthersKept ==
    ASSUME DocInv, NEW h \in Handlers, NEW P,
           StoreTypes',
           \A g \in Handlers : g # h => pc'[g] = pc[g] /\ at'[g] = at[g],
           nextId <= nextId',
           vectors # None => vectors' # None,
           \A c \in chunks' : c \in chunks \/ c.id \notin Ids,
           \A p \in Paths \ P : SameAt(p),
           \A g \in Handlers : g # h /\ Working(g) /\ g \notin disturbed' =>
               g \notin disturbed /\ at[g].paths \cap P = {}
    PROVE  \A g \in Handlers : g # h =>
               /\ AtTypes(g)'
               /\ OwnIds(g)'
               /\ Working(g)' /\ g \notin disturbed' => Progress(g)'
<1> SUFFICES ASSUME NEW g \in Handlers, g # h
             PROVE  /\ AtTypes(g)'
                    /\ OwnIds(g)'
                    /\ Working(g)' /\ g \notin disturbed' => Progress(g)'
  OBVIOUS
<1>1. pc'[g] = pc[g] /\ at'[g] = at[g] /\ AtTypes(g) /\ OwnIds(g)
  BY DEF DocInv
<1>2. Ids \subseteq Ids'
  <2>1. nextId \in Nat /\ nextId' \in Nat /\ nextId <= nextId'
    BY DEF DocInv, StoreTypes
  <2>2. 1..nextId - 1 \subseteq 1..nextId' - 1
    BY ONLY <2>1, Intervals
  <2> QED BY <2>2 DEF Ids
<1>3. AtTypes(g)'
  BY <1>1, <1>2 DEF AtTypes, Working, Storing, Clearing
<1>4. OwnIds(g)'
  <2>1. pc[g] \in {"unvector", "unembed", "delete", "embedding", "vector"} =>
            at[g].ids \subseteq Ids
    BY <1>1 DEF AtTypes
  <2> QED BY <1>1, <2>1 DEF OwnIds
<1>5. ASSUME Working(g)', g \notin disturbed' PROVE Progress(g)'
  <2>1. Working(g)
    BY <1>1, <1>5 DEF Working
  <2>2. g \notin disturbed /\ at[g].paths \cap P = {} /\ at[g].paths \subseteq Paths
    BY <1>1, <1>5, <2>1 DEF AtTypes, Local
  <2>3. \A p \in at[g].paths : SameAt(p)
    BY <2>2
  <2>4. Progress(g)
    BY <2>1, <2>2 DEF DocInv
  <2> QED BY <1>1, <2>1, <2>3, <2>4, ProgressKept
<1> QED BY <1>3, <1>4, <1>5

\* An operation goes on.
LEMMA ContinueKeeps ==
    ASSUME DocInv, NEW h \in Handlers, Working(h), NEW q \in Stages \ {"idle"},
           Continues(h, q), Alone(h),
           at' \in [Handlers -> Local \cup {None}], at'[h].paths = at[h].paths,
           AtTypes(h)', OwnIds(h)', h \notin disturbed => Progress(h)', Agreement'
    PROVE  DocInv'
<1>1. StoreTypes'
  BY DEF Alone
<1>2. pc'[h] = q /\ UNCHANGED <<ops, faults, expected, disturbed, raced>>
  BY DEF Continues, Goes, DocInv, RunTypes
<1>3. RunTypes'
  BY <1>2 DEF DocInv, RunTypes, Continues, Goes
<1>4. \A g \in Handlers : g # h /\ Working(g) /\ g \notin disturbed' =>
          g \notin disturbed /\ at[g].paths \cap at[h].paths = {}
  BY <1>2 DEF DocInv, Disturbance
<1>5. \A g \in Handlers : g # h =>
          /\ AtTypes(g)'
          /\ OwnIds(g)'
          /\ Working(g)' /\ g \notin disturbed' => Progress(g)'
  BY <1>4, OthersKept DEF Alone
<1>6. \A g \in Handlers : at'[g].paths = at[g].paths /\ (Working(g)' <=> Working(g))
  BY <1>2 DEF Alone, Working
<1>7. Disturbance'
  BY <1>2, <1>6 DEF DocInv, Disturbance
<1>8. Files'
  <2>1. \A p \in Paths \cap at[h].paths : FileAs(p, expected[p])'
    BY <1>2, UnknownFile DEF DocInv, Disturbance, FileAs
  <2> QED BY <1>2, <2>1, FilesKept DEF Alone, DocInv
<1> QED BY <1>1, <1>2, <1>3, <1>5, <1>7, <1>8 DEF DocInv

\* An operation ends.
LEMMA EndKeeps ==
    ASSUME DocInv, NEW h \in Handlers, Working(h), NEW left \in Outcomes,
           Ends(h, left), Alone(h), Agreement',
           h \notin disturbed => \A p \in at[h].paths :
               \/ FileAs(p, left)'
               \/ left = "absent" /\ p \in at[h].stray /\ docs'[p] = None
    PROVE  DocInv'
<1>1. StoreTypes'
  BY DEF Alone
<1>2. /\ pc'[h] = "idle"
      /\ disturbed' = disturbed \ {h}
      /\ UNCHANGED <<ops, faults, raced>>
  BY DEF Ends, Goes, DocInv, RunTypes
<1>3. RunTypes'
  <2>1. expected' \in [Paths -> Outcomes]
    BY DEF DocInv, RunTypes, Ends, Outcomes
  <2> QED BY <1>2, <2>1 DEF DocInv, RunTypes, Ends, Goes, Stages
<1>4. \A g \in Handlers : g # h /\ Working(g) /\ g \notin disturbed' =>
          g \notin disturbed /\ at[g].paths \cap at[h].paths = {}
  BY <1>2 DEF DocInv, Disturbance
<1>5. \A g \in Handlers : g # h =>
          /\ AtTypes(g)'
          /\ OwnIds(g)'
          /\ Working(g)' /\ g \notin disturbed' => Progress(g)'
  BY <1>4, OthersKept DEF Alone
<1>6. AtTypes(h)' /\ OwnIds(h)' /\ ~Working(h)'
  BY <1>2 DEF AtTypes, OwnIds, Working, Storing, Clearing
<1>7. \A g \in Handlers : g # h => at'[g] = at[g] /\ (Working(g)' <=> Working(g))
  BY DEF Alone, Working
<1>8. \A p \in Paths : expected'[p] = IF p \notin at[h].paths \/ h \in disturbed
                                      THEN expected[p]
                                      ELSE IF left = "absent" /\ p \in at[h].stray THEN "gone"
                                      ELSE left
  BY DEF Ends
<1>9. Disturbance'
  <2>1. ASSUME NEW g \in Handlers, NEW k \in Handlers, g # k, Working(g)', Working(k)',
               at'[g].paths \cap at'[k].paths # {}
        PROVE  g \in disturbed'
    <3>1. g # h /\ k # h
      BY <1>6, <2>1
    <3> QED BY <1>2, <1>7, <2>1, <3>1 DEF DocInv, Disturbance
  <2>2. ASSUME NEW g \in Handlers, Working(g)', NEW p \in at'[g].paths
        PROVE  expected'[p] = "unknown"
    <3>1. g # h /\ Working(g) /\ p \in at[g].paths
      BY <1>6, <1>7, <2>2
    <3>2. expected[p] = "unknown" /\ p \in Paths
      BY <3>1 DEF DocInv, Disturbance, AtTypes, Local
    <3>3. p \in at[h].paths => h \in disturbed
      BY <3>1 DEF DocInv, Disturbance
    <3> QED BY <1>8, <3>2, <3>3
  <2>3. ~raced' => disturbed' = {}
    BY <1>2 DEF DocInv, Disturbance
  <2> QED BY <2>1, <2>2, <2>3 DEF Disturbance
<1>10. Files'
  <2>1. \A p \in Paths \ at[h].paths : expected'[p] = expected[p] /\ SameAt(p)
    BY <1>8 DEF Alone
  <2>2. ASSUME NEW p \in Paths \cap at[h].paths PROVE FileAs(p, expected[p])'
    <3>1. CASE h \in disturbed
      BY <1>8, <3>1, UnknownFile DEF DocInv, Disturbance, FileAs
    <3>2. CASE h \notin disturbed
      <4>1. CASE left = "absent" /\ p \in at[h].stray
        <5>1. docs'[p] = None /\ expected'[p] = "gone"
          BY <1>8, <3>2, <4>1 DEF FileAs
        <5> QED BY <5>1 DEF FileAs
      <4>2. CASE ~(left = "absent" /\ p \in at[h].stray)
        BY <1>8, <3>2, <4>2 DEF FileAs
      <4> QED BY <4>1, <4>2
    <3> QED BY <3>1, <3>2
  <2> QED BY <2>1, <2>2, FilesKept DEF DocInv
<1> QED BY <1>1, <1>2, <1>3, <1>5, <1>6, <1>9, <1>10 DEF DocInv

-----------------------------------------------------------------------------
(***************************************************************************)
(* An operation begins                                                     *)
(***************************************************************************)
LEMMA BeginKeeps ==
    ASSUME DocInv, NEW h \in Handlers, NEW p \in Paths \cup {None}, NEW paths \in SUBSET Paths,
           NEW to \in Paths \cup {None}, NEW first \in {"read", "undoc", "list", "move"},
           first # "list" => p \in paths, first \in {"read", "undoc"} => paths = {p},
           first = "move" => to \in paths,
           Begin(h, p, paths, to, first),
           disk' \in [Paths -> Versions \cup {None}],
           \A q \in Paths \ paths : disk'[q] = disk[q],
           UNCHANGED <<docs, chunks, embedded, vectors, nextId>>
    PROVE  DocInv'
<1>1. StoreTypes'
  BY DEF DocInv, StoreTypes, Begin, Ids, IdsOf
<1>2. /\ ~Working(h)
      /\ pc'[h] = first
      /\ at'[h] = [paths |-> paths, path |-> p, todo |-> {}, version |-> None, ids |-> {},
                   piece |-> 1, to |-> to, stray |-> {}]
      /\ \A g \in Handlers : g # h => pc'[g] = pc[g] /\ at'[g] = at[g]
      /\ \A q \in Paths : expected'[q] = IF q \in paths THEN "unknown" ELSE expected[q]
      /\ UNCHANGED <<moved, rejected, edited>>
  BY DEF DocInv, RunTypes, Begin, Goes
<1>3. at'[h] \in Local
  BY <1>2 DEF Local
<1>4. RunTypes'
  <2>1. at' \in [Handlers -> Local \cup {None}]
    BY <1>2, <1>3 DEF DocInv, RunTypes, Begin
  <2>2. expected' \in [Paths -> Outcomes]
    BY DEF DocInv, RunTypes, Begin, Outcomes
  <2>3. disturbed' \subseteq Handlers
    BY DEF DocInv, RunTypes, Begin
  <2> QED BY <2>1, <2>2, <2>3, DocAssumption DEF DocInv, RunTypes, Begin, Goes, Stages
<1>5. \A q \in Paths \ paths : SameAt(q)
  BY <1>2 DEF SameAt, Rows, IdsOf, Holds
<1>6. \A g \in Handlers : g # h /\ Working(g) /\ at[g].paths \cap paths # {} =>
          g \in disturbed' /\ h \in disturbed' /\ raced'
  BY DEF Begin, Working
<1>7. disturbed \subseteq disturbed' /\ (raced => raced') /\ (~raced' => disturbed' = disturbed)
  BY DEF Begin
<1>8. \A g \in Handlers : g # h =>
          /\ AtTypes(g)'
          /\ OwnIds(g)'
          /\ Working(g)' /\ g \notin disturbed' => Progress(g)'
  <2>1. \A g \in Handlers : g # h /\ Working(g) /\ g \notin disturbed' =>
            g \notin disturbed /\ at[g].paths \cap paths = {}
    BY <1>6, <1>7
  <2>2. nextId <= nextId'
    BY DEF DocInv, StoreTypes
  <2> QED BY <1>1, <1>2, <1>5, <2>1, <2>2, OthersKept
<1>9. AtTypes(h)' /\ OwnIds(h)' /\ Progress(h)'
  <2>1. AtTypes(h)' /\ OwnIds(h)'
    BY <1>2, <1>3 DEF AtTypes, OwnIds, Working, Clearing, Storing
  <2>2. Progress(h)'
    BY <1>2 DEF Progress, DocProgress, ClearProgress, EmptyProgress, StoreProgress, Clearing, Storing
  <2> QED BY <2>1, <2>2
<1>10. Disturbance'
  <2>1. ASSUME NEW g \in Handlers, NEW k \in Handlers, g # k, Working(g)', Working(k)',
               at'[g].paths \cap at'[k].paths # {}
        PROVE  g \in disturbed'
    <3>1. CASE g # h /\ k # h
      BY <1>2, <1>7, <2>1, <3>1 DEF DocInv, Disturbance, Working
    <3>2. CASE g = h \/ k = h
      BY <1>2, <1>6, <2>1, <3>2 DEF Working
    <3> QED BY <3>1, <3>2
  <2>2. ASSUME NEW g \in Handlers, Working(g)', NEW q \in at'[g].paths
        PROVE  expected'[q] = "unknown"
    <3>1. CASE g # h
      <4>1. Working(g) /\ q \in at[g].paths
        BY <1>2, <2>2, <3>1 DEF Working
      <4>2. q \in Paths /\ expected[q] = "unknown"
        BY <4>1 DEF DocInv, Disturbance, AtTypes, Local
      <4> QED BY <1>2, <4>2
    <3>2. CASE g = h
      BY <1>2, <2>2, <3>2
    <3> QED BY <3>1, <3>2
  <2>3. ~raced' => disturbed' = {}
    BY <1>7 DEF DocInv, Disturbance
  <2> QED BY <2>1, <2>2, <2>3 DEF Disturbance
<1>11. Agreement'
  <2> SUFFICES ASSUME ~raced' PROVE (Documented /\ Embedded /\ Findable /\ NothingElse)'
    BY DEF Agreement
  <2>1. Documented /\ Embedded /\ Findable /\ NothingElse
    BY <1>7 DEF DocInv, Agreement
  <2>2. \A g \in Handlers : pc[g] # "idle" => pc'[g] = pc[g] /\ at'[g] = at[g]
    BY <1>2 DEF Working
  <2>3. Documented'
    BY <1>2, <2>1, <2>2 DEF Documented, Clearing
  <2>4. Embedded'
    BY <1>2, <2>1, <2>2 DEF Embedded
  <2>5. Findable'
    BY <1>2, <2>1, <2>2 DEF Findable, Holds
  <2>6. NothingElse'
    BY <2>1 DEF NothingElse
  <2> QED BY <2>3, <2>4, <2>5, <2>6
<1>12. Files'
  <2>1. \A q \in Paths \cap paths : FileAs(q, expected[q])'
    BY <1>2 DEF FileAs
  <2> QED BY <1>2, <1>5, <2>1, FilesKept DEF DocInv
<1> QED BY <1>1, <1>4, <1>8, <1>9, <1>10, <1>11, <1>12 DEF DocInv

LEMMA RequestKeeps ==
    ASSUME DocInv, NEW h \in Handlers, Request(h)
    PROVE  DocInv'
<1>0. disk \in [Paths -> Versions \cup {None}]
  BY DEF DocInv, StoreTypes
<1>1. ASSUME NEW p \in Paths, NEW v \in Versions, Upload(h, p, v) PROVE DocInv'
  <2>1. /\ Begin(h, p, {p}, None, "read")
        /\ disk' \in [Paths -> Versions \cup {None}]
        /\ \A q \in Paths \ {p} : disk'[q] = disk[q]
        /\ UNCHANGED <<docs, chunks, embedded, vectors, nextId>>
    BY <1>0, <1>1 DEF Upload
  <2> QED BY <2>1, BeginKeeps
<1>2. ASSUME NEW p \in Paths, Reindex(h, p) PROVE DocInv'
  <2>1. /\ Begin(h, p, {p}, None, "read")
        /\ UNCHANGED <<disk, docs, chunks, embedded, vectors, nextId>>
    BY <1>2 DEF Reindex, store
  <2> QED BY <1>0, <2>1, BeginKeeps
<1>3. ASSUME NEW p \in Paths, RemoveFile(h, p) PROVE DocInv'
  <2>1. /\ Begin(h, p, {p}, None, "undoc")
        /\ disk' \in [Paths -> Versions \cup {None}]
        /\ \A q \in Paths \ {p} : disk'[q] = disk[q]
        /\ UNCHANGED <<docs, chunks, embedded, vectors, nextId>>
    BY <1>0, <1>3 DEF RemoveFile
  <2> QED BY <2>1, BeginKeeps
<1>4. ASSUME NEW d \in Dirs, RemoveDirectory(h, d) PROVE DocInv'
  <2>1. /\ Begin(h, None, Matches[d], None, "list")
        /\ disk' \in [Paths -> Versions \cup {None}]
        /\ \A q \in Paths \ Matches[d] : disk'[q] = disk[q]
        /\ UNCHANGED <<docs, chunks, embedded, vectors, nextId>>
        /\ Matches[d] \in SUBSET Paths
    BY <1>0, <1>4, DocAssumption DEF RemoveDirectory
  <2> QED BY <2>1, BeginKeeps
<1>5. ASSUME NEW p \in Paths, NEW to \in Paths, Move(h, p, to) PROVE DocInv'
  <2>1. /\ Begin(h, p, {p, to}, to, "move")
        /\ disk' \in [Paths -> Versions \cup {None}]
        /\ \A q \in Paths \ {p, to} : disk'[q] = disk[q]
        /\ UNCHANGED <<docs, chunks, embedded, vectors, nextId>>
    BY <1>0, <1>5 DEF Move
  <2> QED BY <2>1, BeginKeeps
<1> QED BY <1>1, <1>2, <1>3, <1>4, <1>5 DEF Request

-----------------------------------------------------------------------------
(***************************************************************************)
(* What the steps of an operation have in common                           *)
(***************************************************************************)
LEMMA LocalUpdates ==
    ASSUME NEW l \in Local
    PROVE  /\ \A v \in Versions \cup {None} : [l EXCEPT !.version = v] \in Local
           /\ \A ids \in SUBSET Nat : [l EXCEPT !.ids = ids] \in Local
           /\ \A todo \in SUBSET Paths : [l EXCEPT !.todo = todo] \in Local
           /\ \A stray \in SUBSET Paths : [l EXCEPT !.stray = stray] \in Local
BY DEF Local

LEMMA NewIds ==
    ASSUME RunTypes, NEW h \in Handlers, at[h] \in Local, NEW ids \in SUBSET Nat,
           at' = [at EXCEPT ![h].ids = ids]
    PROVE  /\ at'[h] \in Local /\ at' \in [Handlers -> Local \cup {None}]
           /\ at'[h].paths = at[h].paths /\ at'[h].path = at[h].path
           /\ at'[h].todo = at[h].todo /\ at'[h].version = at[h].version
           /\ at'[h].piece = at[h].piece /\ at'[h].to = at[h].to /\ at'[h].ids = ids
           /\ at'[h].stray = at[h].stray
<1>1. at'[h] = [at[h] EXCEPT !.ids = ids]
  BY DEF RunTypes
<1>2. at'[h] \in Local
  BY <1>1, LocalUpdates
<1>3. at' \in [Handlers -> Local \cup {None}]
  BY <1>1, <1>2 DEF RunTypes
<1> QED BY <1>1, <1>2, <1>3 DEF Local

LEMMA TodoUpdate ==
    ASSUME NEW l \in Local, NEW todo \in SUBSET Paths
    PROVE  LET m == [l EXCEPT !.todo = todo] IN
           /\ m.paths = l.paths /\ m.path = l.path /\ m.todo = todo
           /\ m.version = l.version /\ m.piece = l.piece /\ m.stray = l.stray
BY DEF Local

LEMMA NextFile ==
    ASSUME RunTypes, NEW h \in Handlers, at[h] \in Local, NEW q \in at[h].todo,
           at' = [at EXCEPT ![h].path = q, ![h].todo = @ \ {q}]
    PROVE  /\ at'[h] \in Local /\ at' \in [Handlers -> Local \cup {None}]
           /\ at'[h].paths = at[h].paths /\ at'[h].path = q
           /\ at'[h].todo = at[h].todo \ {q} /\ at'[h].version = at[h].version
           /\ at'[h].piece = at[h].piece /\ at'[h].stray = at[h].stray
<1> DEFINE l == [at[h] EXCEPT !.path = q]
           todo == at[h].todo \ {q}
<1>1. at'[h] = [at[h] EXCEPT !.path = q, !.todo = todo]
  BY DEF RunTypes
<1>2. q \in Paths /\ todo \in SUBSET Paths
  BY DEF Local
<1>3. l \in Local
  BY <1>2 DEF Local
<1>4. at'[h] = [l EXCEPT !.todo = todo]
  BY <1>1 DEF Local
<1>5. /\ l.paths = at[h].paths /\ l.path = q /\ l.version = at[h].version
      /\ l.piece = at[h].piece /\ l.stray = at[h].stray
  BY <1>2 DEF Local
<1> HIDE DEF l
<1>6. /\ at'[h].paths = l.paths /\ at'[h].path = l.path /\ at'[h].todo = todo
      /\ at'[h].version = l.version /\ at'[h].piece = l.piece /\ at'[h].stray = l.stray
  <2> DEFINE m == [l EXCEPT !.todo = todo]
  <2>1. /\ m.paths = l.paths /\ m.path = l.path /\ m.todo = todo
        /\ m.version = l.version /\ m.piece = l.piece /\ m.stray = l.stray
    BY <1>2, <1>3, TodoUpdate
  <2>2. at'[h] = m
    BY <1>4
  <2> HIDE DEF m, todo
  <2> QED BY <2>1, <2>2
<1>7. [l EXCEPT !.todo = todo] \in Local
  BY <1>2, <1>3, LocalUpdates
<1>8. at'[h] \in Local
  BY <1>4, <1>7, Zenon
<1>9. at' \in [Handlers -> Local \cup {None}]
  BY <1>8 DEF RunTypes
<1> QED BY <1>5, <1>6, <1>8, <1>9

LEMMA NextPiece ==
    ASSUME RunTypes, NEW h \in Handlers, at[h] \in Local,
           at' = [at EXCEPT ![h].piece = @ + 1, ![h].ids = {}]
    PROVE  /\ at'[h] \in Local /\ at' \in [Handlers -> Local \cup {None}]
           /\ at'[h].paths = at[h].paths /\ at'[h].path = at[h].path
           /\ at'[h].todo = at[h].todo /\ at'[h].version = at[h].version
           /\ at'[h].piece = at[h].piece + 1 /\ at'[h].to = at[h].to /\ at'[h].ids = {}
<1>1. at'[h] = [at[h] EXCEPT !.piece = at[h].piece + 1, !.ids = {}]
  BY DEF RunTypes
<1>2. at'[h] \in Local
  <2> DEFINE l == [at[h] EXCEPT !.piece = at[h].piece + 1]
  <2>1. l \in Local
    BY DEF Local
  <2>2. at'[h] = [l EXCEPT !.ids = {}]
    BY <1>1 DEF Local
  <2> HIDE DEF l
  <2>3. [l EXCEPT !.ids = {}] \in Local
    BY <2>1, LocalUpdates
  <2> QED BY <2>2, <2>3, Zenon
<1>3. at' \in [Handlers -> Local \cup {None}]
  BY <1>1, <1>2 DEF RunTypes
<1> QED BY <1>1, <1>2, <1>3 DEF Local

LEMMA IdsAreFinite == StoreTypes => IsFiniteSet(Ids) /\ IsFiniteSet(embedded)
<1> SUFFICES ASSUME StoreTypes PROVE IsFiniteSet(Ids) /\ IsFiniteSet(embedded)
  OBVIOUS
<1>1. IsFiniteSet(Ids)
  BY FS_Interval DEF Ids, StoreTypes
<1>2. embedded \subseteq Ids
  BY DEF StoreTypes, IdsOf
<1> QED BY <1>1, <1>2, FS_Subset

LEMMA VersionIsSome == \A v \in Versions : v # None
BY DocAssumption

LEMMA PathIsSome == \A p \in Paths : p # None
BY DocAssumption

LEMMA StoreStays ==
    ASSUME StoreTypes, UNCHANGED <<store, moved, rejected>>,
           edited' \subseteq Paths
    PROVE  /\ StoreTypes'
           /\ nextId <= nextId'
           /\ \A p \in Paths : (p \in edited => p \in edited') => SameAt(p)
<1>1. StoreTypes'
  BY DEF StoreTypes, store, IdsOf, Ids
<1> QED BY <1>1 DEF StoreTypes, store, SameAt, IdsOf, Rows, Holds

\* A step of a handler that has nothing under way in the store.
LEMMA AgreementKept ==
    ASSUME Agreement, NEW h \in Handlers,
           \A g \in Handlers : g # h => pc'[g] = pc[g] /\ at'[g] = at[g],
           pc[h] \notin Clearing \cup Storing, raced' = raced,
           chunks' = chunks, embedded' = embedded,
           \A p \in Paths : docs[p] # None => docs'[p] # None,
           chunks \subseteq [id : Nat, path : Paths, version : Versions, piece : Nat],
           moved \subseteq moved', rejected \subseteq rejected',
           \A id \in embedded : Holds(id) => Holds(id)',
           NothingElse => NothingElse'
    PROVE  Agreement'
<1> SUFFICES ASSUME ~raced, Documented, Embedded, Findable, NothingElse
             PROVE  (Documented /\ Embedded /\ Findable /\ NothingElse)'
  BY DEF Agreement
<1>1. \A g \in Handlers : pc[g] \in Clearing \cup Storing => pc'[g] = pc[g] /\ at'[g] = at[g]
  OBVIOUS
<1>2. Documented'
  BY <1>1 DEF Documented
<1>3. Embedded'
  BY <1>1 DEF Embedded, Clearing, Storing
<1>4. Findable'
  BY <1>1 DEF Findable, Clearing, Storing
<1> QED BY <1>2, <1>3, <1>4

LEMMA ChunkTypes ==
    StoreTypes => chunks \subseteq [id : Nat, path : Paths, version : Versions, piece : Nat]
BY DEF StoreTypes, Ids

\* What is known of a handler that works, and of one that is not disturbed.
LEMMA WorkerTypes ==
    ASSUME DocInv, NEW h \in Handlers, Working(h)
    PROVE  /\ at[h] \in Local /\ AtTypes(h) /\ OwnIds(h)
           /\ at[h].paths \subseteq Paths
           /\ h \notin disturbed => Progress(h)
           /\ ~raced => h \notin disturbed
BY DEF DocInv, AtTypes, Disturbance, Local

-----------------------------------------------------------------------------
(***************************************************************************)
(* The steps of add_document                                               *)
(***************************************************************************)
LEMMA AddReadKeeps ==
    ASSUME DocInv, NEW h \in Handlers, AddRead(h)
    PROVE  DocInv'
<1>1. pc[h] = "read" /\ Working(h)
  BY DEF AddRead, Working
<1>2. /\ at[h] \in Local /\ AtTypes(h) /\ at[h].path \in Paths /\ at[h].piece = 1
      /\ at[h].version = None
  BY <1>1, WorkerTypes DEF AtTypes, Local, Storing
<1>3. disk[at[h].path] \in Versions \cup {None}
  BY <1>2 DEF DocInv, StoreTypes
<1>4. \A g \in Handlers : g # h => pc'[g] = pc[g] /\ at'[g] = at[g]
  BY DEF AddRead, Continues, Ends, Goes, DocInv, RunTypes
<1>5. Alone(h)
  <2>1. edited' = edited \ {at[h].path} /\ at[h].path \in at[h].paths
    BY <1>1, <1>2 DEF AddRead, AtTypes
  <2>2. edited' \subseteq Paths
    BY <2>1 DEF DocInv, StoreTypes
  <2> QED BY <1>4, <2>1, <2>2, StoreStays DEF AddRead, Alone, DocInv, store
<1>6. Agreement'
  <2>1. UNCHANGED <<docs, chunks, embedded, vectors, moved, rejected, raced>>
    BY DEF AddRead, Continues, Ends, store
  <2> QED BY <1>1, <1>4, <2>1, AgreementKept, ChunkTypes
       DEF Clearing, Storing, DocInv, Holds, NothingElse
<1>7. CASE /\ disk[at[h].path] # None
           /\ at' = [at EXCEPT ![h].version = disk[at[h].path]]
           /\ Continues(h, "upsert")
  <2>1. at'[h] = [at[h] EXCEPT !.version = disk[at[h].path]] /\ at'[h] \in Local
    BY <1>2, <1>3, <1>7, LocalUpdates DEF DocInv, RunTypes
  <2>2. at' \in [Handlers -> Local \cup {None}]
    BY <1>7, <2>1 DEF DocInv, RunTypes
  <2>3. /\ at'[h].paths = at[h].paths /\ at'[h].path = at[h].path
        /\ at'[h].todo = at[h].todo /\ at'[h].piece = at[h].piece
        /\ at'[h].version = disk[at[h].path]
        /\ pc'[h] = "upsert" /\ UNCHANGED disk
    BY <1>2, <1>7, <2>1 DEF Local, DocInv, RunTypes, Continues, Goes, AddRead, store
  <2>4. AtTypes(h)' /\ OwnIds(h)'
    BY <1>1, <1>2, <1>3, <1>7, <2>1, <2>3 DEF AtTypes, OwnIds, Working, Clearing, Storing
  <2>5. Progress(h)'
    BY <2>3 DEF Progress, DocProgress, ClearProgress, EmptyProgress, StoreProgress, Clearing, Storing
  <2> QED BY <1>1, <1>5, <1>6, <1>7, <2>2, <2>3, <2>4, <2>5, ContinueKeeps DEF Stages
<1>8. CASE Ends(h, "unknown")
  BY <1>1, <1>5, <1>6, <1>8, EndKeeps DEF Outcomes, FileAs
<1> QED BY <1>7, <1>8 DEF AddRead

LEMMA AddUpsertKeeps ==
    ASSUME DocInv, NEW h \in Handlers, AddUpsert(h)
    PROVE  DocInv'
<1>1. pc[h] = "upsert" /\ Working(h)
  BY DEF AddUpsert, Working
<1>2. /\ at[h] \in Local /\ AtTypes(h) /\ at[h].path \in Paths /\ at[h].piece = 1
      /\ at[h].version \in Versions /\ at[h].path \in at[h].paths
      /\ h \notin disturbed => Progress(h)
  BY <1>1, WorkerTypes DEF AtTypes, Local, Storing
<1>3. docs' = [docs EXCEPT ![at[h].path] = at[h].version] /\ docs'[at[h].path] = at[h].version
  BY <1>2 DEF AddUpsert, DocInv, StoreTypes
<1>4. \A g \in Handlers : g # h => pc'[g] = pc[g] /\ at'[g] = at[g]
  BY DEF AddUpsert, Continues, Ends, Goes, DocInv, RunTypes
<1>5. Alone(h)
  <2>1. StoreTypes'
    BY <1>2, <1>3 DEF AddUpsert, DocInv, StoreTypes, IdsOf, Ids
  <2>2. \A p \in Paths \ at[h].paths : SameAt(p)
    BY <1>2, <1>3 DEF AddUpsert, DocInv, StoreTypes, SameAt, IdsOf, Rows, Holds
  <2> QED BY <1>4, <2>1, <2>2 DEF AddUpsert, Alone, DocInv, StoreTypes
<1>6. Agreement'
  <2>1. UNCHANGED <<chunks, embedded, vectors, moved, rejected, raced>>
    BY DEF AddUpsert, Continues, Ends
  <2>2. \A p \in Paths : docs[p] # None => docs'[p] # None
    BY <1>2, <1>3, VersionIsSome DEF DocInv, StoreTypes
  <2> QED BY <1>1, <1>4, <2>1, <2>2, AgreementKept, ChunkTypes
       DEF Clearing, Storing, DocInv, Holds, NothingElse
<1>7. CASE Pieces[at[h].version] # 0 /\ Continues(h, "select") /\ UNCHANGED at
  <2>1. pc'[h] = "select" /\ UNCHANGED <<disk, edited>>
    BY <1>7 DEF DocInv, RunTypes, Continues, Goes, AddUpsert
  <2>2. AtTypes(h)' /\ OwnIds(h)'
    BY <1>1, <1>2, <1>7, <2>1 DEF AtTypes, OwnIds, Working, Clearing, Storing
  <2>3. ASSUME h \notin disturbed PROVE Progress(h)'
    <3>1. DocProgress(h)'
      BY <1>1, <1>2, <1>3, <1>7, <2>1, <2>3, VersionIsSome DEF Progress, DocProgress
    <3>2. ClearProgress(h)' /\ EmptyProgress(h)' /\ StoreProgress(h)'
      BY <1>2, <1>7, <2>1, VersionIsSome
         DEF ClearProgress, EmptyProgress, StoreProgress, Storing
    <3> QED BY <3>1, <3>2 DEF Progress
  <2> QED BY <1>1, <1>2, <1>5, <1>6, <1>7, <2>2, <2>3, ContinueKeeps DEF Stages, DocInv, RunTypes
<1>8. CASE Pieces[at[h].version] = 0 /\ Ends(h, "unchunked")
  <2>1. ASSUME h \notin disturbed, NEW p \in at[h].paths PROVE FileAs(p, "unchunked")'
    <3>1. p = at[h].path
      BY <1>1, <1>2, <2>1, VersionIsSome DEF AtTypes
    <3>2. disk'[p] = at[h].version \/ p \in edited'
      BY <1>1, <1>2, <2>1, <3>1, VersionIsSome DEF Progress, DocProgress, AddUpsert
    <3> QED BY <1>2, <1>3, <3>1, <3>2, VersionIsSome DEF FileAs
  <2> QED BY <1>1, <1>5, <1>6, <1>8, <2>1, EndKeeps DEF Outcomes
<1> QED BY <1>7, <1>8 DEF AddUpsert

LEMMA AddEmbedKeeps ==
    ASSUME DocInv, NEW h \in Handlers, AddEmbed(h)
    PROVE  DocInv'
<1>1. pc[h] = "embed" /\ Working(h)
  BY DEF AddEmbed, Working
<1>2. /\ at[h] \in Local /\ AtTypes(h) /\ at[h].path \in Paths /\ at[h].piece = 1
      /\ at[h].version \in Versions /\ at[h].path \in at[h].paths
      /\ Pieces[at[h].version] \in Nat \ {0}
      /\ h \notin disturbed => Progress(h)
  BY <1>1, WorkerTypes, VersionIsSome, DocAssumption DEF AtTypes, Local, Storing
<1>3. UNCHANGED <<disk, docs, chunks, embedded, nextId, moved, rejected, raced, edited>>
  BY DEF AddEmbed, Continues, Ends
<1>4. \A g \in Handlers : g # h => pc'[g] = pc[g] /\ at'[g] = at[g]
  BY DEF AddEmbed, Continues, Ends, Goes, DocInv, RunTypes
<1>5. \/ vectors' = vectors
      \/ vectors = None /\ vectors' = Reserved(Pieces[at[h].version])
  BY DEF AddEmbed
<1>6. vectors' = Reserved(Pieces[at[h].version]) =>
          /\ vectors' \in Vectors /\ vectors'.keys = {} /\ Cardinality(vectors'.keys) = 0
          /\ vectors'.slots = 0 /\ vectors'.capacity \in Nat
  BY <1>2, FS_EmptySet DEF Reserved, Vectors
<1>7. StoreTypes'
  BY <1>3, <1>5, <1>6 DEF DocInv, StoreTypes, IdsOf, Ids
<1>8. /\ \A id : Holds(id)' <=> Holds(id)
      /\ vectors # None => vectors' # None
      /\ NothingElse => NothingElse'
  BY <1>3, <1>5, <1>6 DEF Holds, NothingElse
<1>9. Alone(h)
  BY <1>3, <1>4, <1>7, <1>8 DEF Alone, SameAt, IdsOf, Rows, DocInv, StoreTypes
<1>10. Agreement'
  BY <1>1, <1>3, <1>4, <1>8, AgreementKept, ChunkTypes DEF Clearing, Storing, DocInv
<1>11. CASE /\ Continues(h, "row")
            /\ vectors' = IF vectors = None THEN Reserved(Pieces[at[h].version]) ELSE vectors
            /\ UNCHANGED at
  <2>1. pc'[h] = "row"
    BY <1>11 DEF DocInv, RunTypes, Continues, Goes
  <2>2. vectors' # None
    BY <1>6, <1>11, DocAssumption DEF Vectors
  <2>3. AtTypes(h)' /\ OwnIds(h)'
    BY <1>1, <1>2, <1>11, <2>1, <2>2 DEF AtTypes, OwnIds, Working, Clearing, Storing
  <2>4. ASSUME h \notin disturbed PROVE Progress(h)'
    <3>1. Rows(at[h].path) = {}
      BY <1>1, <1>2, <2>4 DEF Progress, ClearProgress
    <3>2. at'[h] = at[h] /\ Rows(at[h].path)' = {} /\ StoredPieces(h)' = 0
      BY <1>2, <1>3, <1>11, <2>1, <3>1 DEF StoredPieces, Rows
    <3>3. StoreProgress(h)'
      BY <1>2, <2>1, <3>2, FS_EmptySet DEF StoreProgress, IdsOf
    <3>4. DocProgress(h)' /\ ClearProgress(h)' /\ EmptyProgress(h)'
      BY <1>1, <1>2, <1>3, <1>11, <2>1, <2>4, VersionIsSome
         DEF Progress, DocProgress, ClearProgress, EmptyProgress, Clearing
    <3> QED BY <3>3, <3>4 DEF Progress
  <2> QED BY <1>1, <1>2, <1>9, <1>10, <1>11, <2>3, <2>4, ContinueKeeps
       DEF Stages, DocInv, RunTypes
<1>12. CASE Ends(h, "bare")
  <2>1. ASSUME h \notin disturbed, NEW p \in at[h].paths PROVE FileAs(p, "bare")'
    <3>1. p = at[h].path
      BY <1>1, <1>2, VersionIsSome DEF AtTypes
    <3>2. /\ disk[p] = at[h].version \/ p \in edited
          /\ docs[p] = at[h].version /\ Rows(p) = {}
      BY <1>1, <1>2, <2>1, <3>1, VersionIsSome DEF Progress, DocProgress, ClearProgress
    <3> QED BY <1>2, <1>3, <3>2, VersionIsSome DEF FileAs, Rows
  <2> QED BY <1>1, <1>9, <1>10, <1>12, <2>1, EndKeeps DEF Outcomes
<1> QED BY <1>11, <1>12 DEF AddEmbed

LEMMA AddRowKeeps ==
    ASSUME DocInv, NEW h \in Handlers, AddRow(h)
    PROVE  DocInv'
<1> DEFINE p == at[h].path
           new == [id |-> nextId, path |-> p, version |-> at[h].version, piece |-> at[h].piece]
<1>1. pc[h] = "row" /\ Working(h)
  BY DEF AddRow, Working
<1>2. /\ at[h] \in Local /\ AtTypes(h) /\ p \in Paths /\ p \in at[h].paths
      /\ at[h].version \in Versions /\ at[h].piece \in Nat \ {0}
      /\ at[h].piece <= Pieces[at[h].version] /\ Pieces[at[h].version] \in Nat
      /\ vectors # None
      /\ h \notin disturbed => Progress(h)
  BY <1>1, WorkerTypes, VersionIsSome, DocAssumption DEF AtTypes, Local, Storing
<1>3. /\ chunks' = chunks \cup {new}
      /\ nextId' = nextId + 1
      /\ at' = [at EXCEPT ![h].ids = {nextId}]
      /\ Continues(h, "embedding")
      /\ UNCHANGED <<disk, docs, embedded, vectors, moved, rejected, raced, disturbed, edited>>
  BY DEF AddRow, Continues
<1>4. \A g \in Handlers : g # h => pc'[g] = pc[g] /\ at'[g] = at[g]
  BY <1>3 DEF Continues, Goes, DocInv, RunTypes
<1>5. nextId \in Nat \ {0} /\ \A c \in chunks : c.id \in Ids /\ c.id # nextId
  BY DEF DocInv, StoreTypes, Ids
<1>6. StoreTypes'
  <2>1. Ids \subseteq Ids' /\ nextId \in Ids'
    BY <1>3, <1>5 DEF Ids
  <2>2. chunks' \subseteq [id : Ids', path : Paths, version : Versions, piece : Nat]
    BY <1>2, <1>3, <2>1 DEF DocInv, StoreTypes
  <2>3. IsFiniteSet(chunks')
    BY <1>3, FS_AddElement DEF DocInv, StoreTypes
  <2>4. \A c, e \in chunks' : c.id = e.id => c = e
    BY <1>3, <1>5 DEF DocInv, StoreTypes
  <2> QED BY <1>3, <1>5, <2>1, <2>2, <2>3, <2>4 DEF DocInv, StoreTypes, IdsOf
<1>7. \A q \in Paths : q # p => Rows(q)' = Rows(q)
  BY <1>3 DEF Rows
<1>8. Alone(h)
  <2>1. \A q \in Paths \ at[h].paths : SameAt(q)
    BY <1>2, <1>3, <1>7 DEF SameAt, Holds
  <2>2. nextId <= nextId'
    BY <1>3, <1>5
  <2>3. \A c \in chunks' : c \in chunks \/ c.id \notin Ids
    <3>1. nextId \notin Ids
      BY <1>5 DEF Ids
    <3>2. new.id = nextId
      OBVIOUS
    <3> HIDE DEF new
    <3> QED BY <1>3, <3>1, <3>2
  <2>4. vectors # None => vectors' # None
    BY <1>3
  <2> QED BY <1>4, <1>6, <2>1, <2>2, <2>3, <2>4 DEF Alone
<1>9. /\ at'[h] \in Local /\ at' \in [Handlers -> Local \cup {None}]
      /\ at'[h].paths = at[h].paths /\ at'[h].path = p /\ at'[h].version = at[h].version
      /\ at'[h].todo = at[h].todo /\ at'[h].piece = at[h].piece /\ at'[h].ids = {nextId}
      /\ pc'[h] = "embedding"
  <2>1. {nextId} \in SUBSET Nat
    BY <1>5
  <2>2. RunTypes
    BY DEF DocInv
  <2>3. pc'[h] = "embedding"
    BY <1>3 DEF DocInv, RunTypes, Continues, Goes
  <2> QED BY <1>2, <1>3, <2>1, <2>2, <2>3, NewIds
<1>10. AtTypes(h)' /\ OwnIds(h)'
  <2>1. AtTypes(h)'
    BY <1>1, <1>2, <1>3, <1>5, <1>9 DEF AtTypes, Working, Clearing, Storing, Ids
  <2>2. OwnIds(h)'
    BY <1>3, <1>5, <1>9 DEF OwnIds
  <2> QED BY <2>1, <2>2
<1>11. ASSUME h \notin disturbed PROVE Progress(h)'
  <2> DEFINE n == at[h].piece
             v == at[h].version
  <2>1. /\ {<<c.version, c.piece>> : c \in Rows(p)} = {v} \X (1..(n - 1))
        /\ Cardinality(Rows(p)) = n - 1
        /\ \A id \in IdsOf(Rows(p)) : id \in embedded /\ (Holds(id) \/ id \in rejected)
    BY <1>1, <1>2, <1>11 DEF Progress, StoreProgress, StoredPieces, Storing
  <2>2. Rows(p)' = Rows(p) \cup {new} /\ new \notin Rows(p) /\ IsFiniteSet(Rows(p))
    <3>1. Rows(p)' = Rows(p) \cup {new} /\ new \notin Rows(p)
      BY <1>3, <1>5, <1>9 DEF Rows
    <3>2. Rows(p) \subseteq chunks
      BY DEF Rows
    <3> QED BY <3>1, <3>2, FS_Subset DEF DocInv, StoreTypes
  <2>3. Cardinality(Rows(p)') = n
    <3>1. Cardinality(Rows(p) \cup {new}) = Cardinality(Rows(p)) + 1
      BY <2>2, FS_AddElement
    <3> QED BY <1>2, <2>1, <2>2, <3>1
  <2>4. {<<c.version, c.piece>> : c \in Rows(p)'} = {v} \X (1..n)
    <3>1. {<<c.version, c.piece>> : c \in Rows(p)'} =
              {<<c.version, c.piece>> : c \in Rows(p)} \cup {<<v, n>>}
      BY <2>2
    <3>2. 1..n = 1..(n - 1) \cup {n}
      BY <1>2
    <3>3. {v} \X (1..n) = ({v} \X (1..(n - 1))) \cup {<<v, n>>}
      BY <3>2
    <3> QED BY <2>1, <3>1, <3>3
  <2>5. IdsOf(Rows(p)') = IdsOf(Rows(p)) \cup {nextId}
    BY <2>2 DEF IdsOf
  <2>6. StoredPieces(h)' = n
    BY <1>9 DEF StoredPieces
  <2>7. Rows(at[h].path)' = Rows(p)'
    BY <1>9
  <2>8. StoreProgress(h)'
    BY <1>3, <1>9, <2>1, <2>3, <2>4, <2>5, <2>6, <2>7 DEF StoreProgress, Holds
  <2>9. DocProgress(h)' /\ ClearProgress(h)' /\ EmptyProgress(h)'
    BY <1>1, <1>2, <1>3, <1>9, <1>11, VersionIsSome
       DEF Progress, DocProgress, ClearProgress, EmptyProgress, Clearing
  <2> QED BY <2>8, <2>9 DEF Progress
<1>12. Agreement'
  <2> SUFFICES ASSUME ~raced, Documented, Embedded, Findable, NothingElse
               PROVE  (Documented /\ Embedded /\ Findable /\ NothingElse)'
    BY <1>3 DEF Agreement, DocInv
  <2>1. docs[p] # None
    BY <1>1, <1>2, WorkerTypes, VersionIsSome DEF Progress, DocProgress
  <2>2. \A g \in Handlers : pc[g] # "row" => pc'[g] = pc[g] /\ at'[g] = at[g]
    BY <1>1, <1>4
  <2>3. Documented'
    BY <1>3, <2>1, <2>2 DEF Documented, Clearing
  <2>4. Embedded'
    <3> SUFFICES ASSUME NEW c \in chunks'
                 PROVE  \/ c.id \in embedded'
                        \/ \E g \in Handlers : pc'[g] \in {"embedding", "delete"} /\ c.id \in at'[g].ids
      BY DEF Embedded
    <3>1. CASE c \in chunks
      BY <1>3, <2>2, <3>1 DEF Embedded
    <3>2. CASE c = new
      <4>1. c.id \in at'[h].ids
        BY <1>9, <3>2
      <4> QED BY <1>9, <4>1
    <3> QED BY <1>3, <3>1, <3>2
  <2>5. Findable'
    BY <1>3, <2>2 DEF Findable, Holds
  <2>6. NothingElse'
    BY <1>3 DEF NothingElse
  <2> QED BY <2>3, <2>4, <2>5, <2>6
<1> QED BY <1>1, <1>3, <1>8, <1>9, <1>10, <1>11, <1>12, ContinueKeeps DEF Stages


LEMMA AddEmbeddingKeeps ==
    ASSUME DocInv, NEW h \in Handlers, AddEmbedding(h)
    PROVE  DocInv'
<1> DEFINE p == at[h].path
<1>1. pc[h] = "embedding" /\ Working(h)
  BY DEF AddEmbedding, Working
<1>2. /\ at[h] \in Local /\ AtTypes(h) /\ OwnIds(h) /\ p \in Paths /\ p \in at[h].paths
      /\ at[h].version \in Versions
      /\ h \notin disturbed => Progress(h)
  BY <1>1, WorkerTypes DEF AtTypes, Local, Storing
<1>3. PICK id \in Ids : at[h].ids = {id}
  BY <1>1, <1>2 DEF AtTypes
<1>4. UNCHANGED <<disk, docs, chunks, vectors, nextId, moved, rejected, raced, edited>>
  BY DEF AddEmbedding, Continues, Ends
<1>5. \A g \in Handlers : g # h => pc'[g] = pc[g] /\ at'[g] = at[g]
  BY DEF AddEmbedding, Continues, Ends, Goes, DocInv, RunTypes
<1>6. \/ embedded' = embedded
      \/ embedded' = embedded \cup {id} /\ id \in IdsOf(chunks)
  BY <1>3 DEF AddEmbedding
<1>7. Alone(h)
  <2>1. StoreTypes'
    BY <1>4, <1>6 DEF DocInv, StoreTypes, IdsOf, Ids
  <2>2. ASSUME NEW q \in Paths \ at[h].paths PROVE SameAt(q)
    <3>1. id \notin IdsOf(Rows(q))
      BY <1>1, <1>2, <1>3 DEF OwnIds, IdsOf, Rows
    <3>2. \A i \in IdsOf(Rows(q)) : i \in embedded' <=> i \in embedded
      BY <1>6, <3>1
    <3> QED BY <1>4, <3>2 DEF SameAt, IdsOf, Rows, Holds
  <2> QED BY <1>4, <1>5, <2>1, <2>2 DEF Alone, DocInv, StoreTypes
<1>8. CASE /\ at[h].ids \subseteq IdsOf(chunks)
           /\ embedded' = embedded \cup at[h].ids
           /\ Continues(h, "vector")
           /\ UNCHANGED at
  <2>1. pc'[h] = "vector" /\ at'[h] = at[h] /\ at' \in [Handlers -> Local \cup {None}]
    BY <1>8 DEF DocInv, RunTypes, Continues, Goes
  <2>2. AtTypes(h)' /\ OwnIds(h)'
    BY <1>1, <1>2, <1>4, <2>1 DEF AtTypes, OwnIds, Working, Clearing, Storing, Ids
  <2>3. ASSUME h \notin disturbed PROVE Progress(h)'
    <3>1. Rows(p)' = Rows(p) /\ IdsOf(Rows(p))' = IdsOf(Rows(p))
      BY <1>4, <2>1 DEF Rows, IdsOf
    <3>2. StoredPieces(h)' = StoredPieces(h)
      BY <1>1, <2>1 DEF StoredPieces
    <3>3. StoreProgress(h)'
      BY <1>1, <1>2, <1>4, <1>8, <2>1, <2>3, <3>1, <3>2
         DEF Progress, StoreProgress, Storing, Holds
    <3>4. DocProgress(h)' /\ ClearProgress(h)' /\ EmptyProgress(h)'
      BY <1>1, <1>2, <1>4, <2>1, <2>3, VersionIsSome
         DEF Progress, DocProgress, ClearProgress, EmptyProgress, Clearing
    <3> QED BY <3>3, <3>4 DEF Progress
  <2>4. Agreement'
    <3> SUFFICES ASSUME ~raced, Documented, Embedded, Findable, NothingElse
                 PROVE  (Documented /\ Embedded /\ Findable /\ NothingElse)'
      BY <1>4 DEF Agreement, DocInv
    <3>1. \A g \in Handlers : at'[g] = at[g] /\ (pc[g] # "embedding" => pc'[g] = pc[g])
      BY <1>1, <1>5, <2>1
    <3>2. Documented'
      BY <1>4, <3>1 DEF Documented, Clearing
    <3>3. Embedded'
      BY <1>4, <1>5, <1>8, <2>1 DEF Embedded
    <3>4. Findable'
      BY <1>4, <1>8, <2>1, <3>1 DEF Findable, Holds
    <3>5. NothingElse'
      BY <1>4, <1>6 DEF NothingElse
    <3> QED BY <3>2, <3>3, <3>4, <3>5
  <2> QED BY <1>1, <1>7, <1>8, <2>1, <2>2, <2>3, <2>4, ContinueKeeps DEF Stages
<1>9. CASE /\ ~ at[h].ids \subseteq IdsOf(chunks)
           /\ Ends(h, "unknown")
           /\ UNCHANGED embedded
  <2>1. Agreement'
    <3> SUFFICES ASSUME ~raced, Documented, Embedded, Findable, NothingElse
                 PROVE  (Documented /\ Embedded /\ Findable /\ NothingElse)'
      BY <1>4 DEF Agreement, DocInv
    <3>1. \A g \in Handlers : pc[g] # "embedding" => pc'[g] = pc[g] /\ at'[g] = at[g]
      BY <1>1, <1>5
    <3>2. Documented'
      BY <1>4, <3>1 DEF Documented, Clearing
    <3>3. \A c \in chunks : c.id \notin at[h].ids
      BY <1>3, <1>9 DEF IdsOf
    <3>4. Embedded'
      BY <1>4, <1>5, <1>9, <3>3 DEF Embedded
    <3>5. Findable'
      BY <1>4, <1>9, <3>1 DEF Findable, Holds
    <3>6. NothingElse'
      BY <1>4, <1>9 DEF NothingElse
    <3> QED BY <3>2, <3>4, <3>5, <3>6
  <2> QED BY <1>1, <1>7, <1>9, <2>1, EndKeeps DEF Outcomes, FileAs
<1> QED BY <1>8, <1>9 DEF AddEmbedding

\* An insertion keeps the vector index well formed, and finds its id or drops it.
LEMMA VectorAddTypes ==
    ASSUME StoreTypes, vectors # None, NEW id \in Ids, VectorAdd(id)
    PROVE  /\ vectors' \in Vectors /\ vectors' # None
           /\ vectors'.keys \subseteq Ids
           /\ Cardinality(vectors'.keys) <= vectors'.slots
           /\ vectors'.slots <= vectors'.capacity
           /\ vectors.keys \subseteq vectors'.keys
           /\ vectors'.keys \subseteq vectors.keys \cup {id}
           /\ rejected \subseteq rejected'
           /\ rejected' \subseteq rejected \cup {id}
           /\ id \in vectors'.keys \/ id \in rejected'
<1>1. /\ vectors \in Vectors /\ vectors.keys \subseteq Ids /\ vectors.slots \in Nat
      /\ vectors.capacity \in Nat /\ vectors.keys \subseteq Nat
      /\ Cardinality(vectors.keys) <= vectors.slots
      /\ vectors.slots <= vectors.capacity
  BY DEF StoreTypes, Vectors
<1>2. IsFiniteSet(vectors.keys)
  BY <1>1, IdsAreFinite, FS_Subset
<1>3. /\ Cardinality(vectors.keys) \in Nat
      /\ Cardinality(vectors.keys \cup {id}) \in Nat
      /\ Cardinality(vectors.keys \cup {id}) <= Cardinality(vectors.keys) + 1
  <2>1. Cardinality(vectors.keys) \in Nat
    BY <1>2, FS_CardinalityType
  <2>2. Cardinality(vectors.keys \cup {id}) =
            IF id \in vectors.keys THEN Cardinality(vectors.keys)
                                   ELSE Cardinality(vectors.keys) + 1
    BY <1>2, FS_AddElement
  <2> QED BY <2>1, <2>2
<1>4. id \in Nat
  BY DEF Ids, StoreTypes
<1>5. CASE FreeSlots > 0 /\ vectors' = [vectors EXCEPT !.keys = @ \cup {id}] /\ UNCHANGED rejected
  <2>1. /\ vectors' \in Vectors /\ vectors'.keys = vectors.keys \cup {id}
        /\ vectors'.slots = vectors.slots /\ vectors'.capacity = vectors.capacity
    BY <1>1, <1>4, <1>5 DEF Vectors
  <2>2. Cardinality(vectors.keys \cup {id}) <= vectors.slots
    BY <1>1, <1>3, <1>5 DEF FreeSlots
  <2>3. vectors' # None
    BY <2>1, DocAssumption DEF Vectors
  <2> QED BY <1>1, <1>5, <2>1, <2>2, <2>3
<1>6. CASE /\ FreeSlots = 0
           /\ Room
           /\ vectors' = [vectors EXCEPT !.keys = @ \cup {id}, !.slots = @ + 1]
           /\ UNCHANGED rejected
  <2>1. /\ vectors' \in Vectors /\ vectors'.keys = vectors.keys \cup {id}
        /\ vectors'.slots = vectors.slots + 1 /\ vectors'.capacity = vectors.capacity
    <3> DEFINE v == [vectors EXCEPT !.keys = @ \cup {id}]
    <3>1. v \in Vectors /\ v.keys = vectors.keys \cup {id} /\ v.slots = vectors.slots
          /\ v.capacity = vectors.capacity
      BY <1>1, <1>4 DEF Vectors
    <3>2. vectors' = [v EXCEPT !.slots = vectors.slots + 1]
      BY <1>1, <1>6 DEF Vectors
    <3>3. vectors.slots + 1 \in Nat
      BY <1>1
    <3> HIDE DEF v
    <3> QED BY <1>1, <3>1, <3>2, <3>3 DEF Vectors
  <2>2. Cardinality(vectors.keys \cup {id}) <= vectors.slots + 1 /\ vectors.slots + 1 <= vectors.capacity
    BY <1>1, <1>3, <1>6 DEF Room
  <2>3. vectors' # None
    BY <2>1, DocAssumption DEF Vectors
  <2> QED BY <1>1, <1>6, <2>1, <2>2, <2>3
<1>7. CASE rejected' = rejected \cup {id} /\ UNCHANGED vectors
  BY <1>1, <1>7
<1> QED BY <1>5, <1>6, <1>7 DEF VectorAdd

LEMMA AddVectorKeeps ==
    ASSUME DocInv, NEW h \in Handlers, AddVector(h)
    PROVE  DocInv'
<1> DEFINE p == at[h].path
<1>1. pc[h] = "vector" /\ Working(h)
  BY DEF AddVector, Working
<1>2. /\ at[h] \in Local /\ AtTypes(h) /\ OwnIds(h) /\ p \in Paths /\ p \in at[h].paths
      /\ at[h].version \in Versions /\ vectors # None
      /\ at[h].piece \in 1..Pieces[at[h].version] /\ Pieces[at[h].version] \in Nat
      /\ h \notin disturbed => Progress(h)
      /\ ~raced => h \notin disturbed
  BY <1>1, WorkerTypes, DocAssumption DEF AtTypes, Local, Storing
<1>3. PICK id \in Ids : at[h].ids = {id}
  BY <1>1, <1>2 DEF AtTypes
<1>4. UNCHANGED <<disk, docs, chunks, embedded, nextId, moved, raced, edited>>
  BY DEF AddVector, Continues, Ends
<1>5. \A g \in Handlers : g # h => pc'[g] = pc[g] /\ at'[g] = at[g]
  BY DEF AddVector, Continues, Ends, Goes, DocInv, RunTypes
<1>6. VectorAdd(id)
  BY <1>3 DEF AddVector
<1>7. /\ vectors' \in Vectors /\ vectors' # None
      /\ vectors'.keys \subseteq Ids
      /\ Cardinality(vectors'.keys) <= vectors'.slots
      /\ vectors'.slots <= vectors'.capacity
      /\ vectors.keys \subseteq vectors'.keys
      /\ vectors'.keys \subseteq vectors.keys \cup {id}
      /\ rejected \subseteq rejected'
      /\ rejected' \subseteq rejected \cup {id}
      /\ id \in vectors'.keys \/ id \in rejected'
  BY <1>2, <1>6, VectorAddTypes DEF DocInv
<1>8. StoreTypes'
  BY <1>4, <1>7 DEF DocInv, StoreTypes, IdsOf, Ids
<1>9. Alone(h)
  <2>1. ASSUME NEW q \in Paths \ at[h].paths PROVE SameAt(q)
    <3>1. id \notin IdsOf(Rows(q))
      BY <1>1, <1>2, <1>3 DEF OwnIds, IdsOf, Rows
    <3>2. \A i \in IdsOf(Rows(q)) : /\ Holds(i)' <=> Holds(i)
                                    /\ i \in rejected => i \in rejected'
      BY <1>2, <1>7, <3>1 DEF Holds
    <3> QED BY <1>4, <3>2 DEF SameAt, IdsOf, Rows
  <2> QED BY <1>4, <1>5, <1>7, <1>8, <2>1 DEF Alone, DocInv, StoreTypes
<1>10. Agreement'
  <2> SUFFICES ASSUME ~raced, Documented, Embedded, Findable, NothingElse
               PROVE  (Documented /\ Embedded /\ Findable /\ NothingElse)'
    BY <1>4 DEF Agreement, DocInv
  <2>1. \A g \in Handlers : pc[g] # "vector" => pc'[g] = pc[g] /\ at'[g] = at[g]
    BY <1>1, <1>5
  <2>2. Documented'
    BY <1>4, <2>1 DEF Documented, Clearing
  <2>3. Embedded'
    BY <1>4, <2>1 DEF Embedded
  <2>4. \A i : Holds(i) => Holds(i)'
    BY <1>2, <1>7 DEF Holds
  <2>5. Findable'
    BY <1>3, <1>4, <1>5, <1>7, <2>1, <2>4 DEF Findable, Holds
  <2>6. id \in embedded
    <3>1. StoreProgress(h)
      BY <1>2 DEF Progress
    <3> QED BY <1>1, <1>3, <3>1 DEF StoreProgress, Storing
  <2>7. NothingElse'
    BY <1>2, <1>4, <1>7, <2>6 DEF NothingElse
  <2> QED BY <2>2, <2>3, <2>5, <2>7
<1>11. ASSUME h \notin disturbed
       PROVE  LET rows == Rows(p) IN
              /\ {<<c.version, c.piece>> : c \in rows} = {at[h].version} \X (1..at[h].piece)
              /\ Cardinality(rows) = at[h].piece
              /\ \A i \in IdsOf(rows) : i \in embedded /\ (Holds(i)' \/ i \in rejected')
              /\ disk'[p] = at[h].version \/ p \in edited'
              /\ docs'[p] = at[h].version
  <2>1. StoreProgress(h) /\ DocProgress(h)
    BY <1>2, <1>11 DEF Progress
  <2>2. StoredPieces(h) = at[h].piece
    BY <1>1 DEF StoredPieces
  <2>3. /\ {<<c.version, c.piece>> : c \in Rows(p)} = {at[h].version} \X (1..at[h].piece)
        /\ Cardinality(Rows(p)) = at[h].piece
        /\ \A i \in IdsOf(Rows(p)) : i \in embedded
        /\ \A i \in IdsOf(Rows(p)) : Holds(i) \/ i \in rejected \/ i = id
    BY <1>1, <1>3, <2>1, <2>2 DEF StoreProgress, Storing
  <2>4. \A i \in IdsOf(Rows(p)) : Holds(i)' \/ i \in rejected'
    BY <1>7, <2>3 DEF Holds
  <2>5. (disk'[p] = at[h].version \/ p \in edited') /\ docs'[p] = at[h].version
    BY <1>1, <1>2, <1>4, <2>1, VersionIsSome DEF DocProgress
  <2> QED BY <2>3, <2>4, <2>5
<1>12. CASE /\ at[h].piece < Pieces[at[h].version]
            /\ at' = [at EXCEPT ![h].piece = @ + 1, ![h].ids = {}]
            /\ Continues(h, "row")
  <2>1. /\ at'[h] \in Local /\ at' \in [Handlers -> Local \cup {None}]
        /\ at'[h].paths = at[h].paths /\ at'[h].path = p
        /\ at'[h].todo = at[h].todo /\ at'[h].version = at[h].version
        /\ at'[h].piece = at[h].piece + 1 /\ at'[h].ids = {}
    BY <1>2, <1>12, NextPiece DEF DocInv
  <2>2. pc'[h] = "row"
    BY <1>12 DEF DocInv, RunTypes, Continues, Goes
  <2>3. AtTypes(h)' /\ OwnIds(h)'
    BY <1>1, <1>2, <1>7, <1>12, <2>1, <2>2, VersionIsSome
       DEF AtTypes, OwnIds, Working, Clearing, Storing
  <2>4. ASSUME h \notin disturbed PROVE Progress(h)'
    <3>1. StoredPieces(h)' = at[h].piece /\ Rows(at[h].path)' = Rows(p)
      BY <1>2, <1>4, <2>1, <2>2 DEF StoredPieces, Rows
    <3>2. StoreProgress(h)'
      BY <1>4, <1>11, <2>1, <2>2, <2>4, <3>1 DEF StoreProgress, IdsOf
    <3>3. DocProgress(h)' /\ ClearProgress(h)' /\ EmptyProgress(h)'
      BY <1>11, <2>1, <2>2, <2>4 DEF DocProgress, ClearProgress, EmptyProgress, Clearing
    <3> QED BY <3>2, <3>3 DEF Progress
  <2> QED BY <1>1, <1>9, <1>10, <1>12, <2>1, <2>3, <2>4, ContinueKeeps DEF Stages
<1>13. CASE at[h].piece = Pieces[at[h].version] /\ Ends(h, "indexed")
  <2>1. ASSUME h \notin disturbed, NEW q \in at[h].paths PROVE FileAs(q, "indexed")'
    <3>1. q = p
      BY <1>1, <1>2, VersionIsSome DEF AtTypes
    <3>2. Rows(q)' = Rows(p) /\ IdsOf(Rows(q))' = IdsOf(Rows(p))
      BY <1>4, <3>1 DEF Rows, IdsOf
    <3>3. /\ {<<c.version, c.piece>> : c \in Rows(p)} = {at[h].version} \X (1..at[h].piece)
          /\ Cardinality(Rows(p)) = at[h].piece
          /\ \A i \in IdsOf(Rows(p)) : i \in embedded' /\ (Holds(i)' \/ i \in rejected')
          /\ disk'[q] = at[h].version \/ q \in edited'
          /\ docs'[q] = at[h].version
      BY <1>4, <1>11, <2>1, <3>1
    <3> QED BY <1>2, <1>13, <3>2, <3>3, VersionIsSome DEF FileAs
  <2> QED BY <1>1, <1>9, <1>10, <1>13, <2>1, EndKeeps DEF Outcomes
<1> QED BY <1>12, <1>13 DEF AddVector

-----------------------------------------------------------------------------
(***************************************************************************)
(* The steps of delete_file_chunks                                         *)
(***************************************************************************)
\* A chunk has its id for itself: ids of one file are not ids of another.
LEMMA IdsOfOneFile ==
    ASSUME StoreTypes, NEW p, NEW c \in chunks, c.id \in IdsOf(Rows(p))
    PROVE  c.path = p
BY DEF StoreTypes, IdsOf, Rows

LEMMA RowIds == ASSUME StoreTypes, NEW p PROVE IdsOf(Rows(p)) \subseteq Ids
BY DEF StoreTypes, IdsOf, Rows

\* When all chunks of a file are gone, its caller goes on.
LEMMA ClearedKeeps ==
    ASSUME DocInv, NEW h \in Handlers, pc[h] \in {"select", "delete"}, Cleared(h), Alone(h),
           UNCHANGED <<disk, docs, vectors, nextId, rejected, edited>>,
           chunks' = chunks \ Rows(at[h].path),
           embedded' = embedded \ IdsOf(Rows(at[h].path)),
           moved \ {at[h].path} \subseteq moved',
           h \notin disturbed => \A id \in IdsOf(Rows(at[h].path)) : ~Holds(id)
    PROVE  DocInv'
<1> DEFINE p == at[h].path
<1>1. pc[h] \in Clearing /\ Working(h)
  BY DEF Clearing, Working
<1>2. /\ at[h] \in Local /\ AtTypes(h) /\ p \in Paths /\ p \in at[h].paths
      /\ at[h].todo \subseteq at[h].paths /\ at[h].paths \subseteq Paths
      /\ at[h].piece = 1
      /\ h \notin disturbed => Progress(h)
      /\ ~raced => h \notin disturbed
  BY <1>1, WorkerTypes DEF AtTypes, Local, Clearing, Storing
<1>3. \A g \in Handlers : g # h => pc'[g] = pc[g] /\ at'[g] = at[g]
  BY DEF Alone
<1>4. raced' = raced
  BY DEF Cleared, Continues, Ends
<1>5. \A c \in chunks' : c \in chunks /\ c.path # p /\ c.id \notin IdsOf(Rows(p))
  <2>1. StoreTypes
    BY DEF DocInv
  <2> QED BY <2>1, IdsOfOneFile DEF Rows
<1>6. ASSUME ~raced, Documented, Embedded, Findable, NothingElse
      PROVE  Embedded' /\ Findable' /\ NothingElse'
  <2>1. pc[h] = "delete" => at[h].ids = IdsOf(Rows(p))
    BY <1>2, <1>6 DEF Progress, ClearProgress
  <2>2. Embedded'
    BY <1>3, <1>5, <1>6, <2>1 DEF Embedded
  <2>3. Findable'
    BY <1>3, <1>6 DEF Findable, Holds
  <2>4. NothingElse'
    BY <1>2, <1>6 DEF NothingElse, Holds
  <2> QED BY <2>2, <2>3, <2>4
<1>7. ASSUME ~raced, Documented, NEW c \in chunks'
      PROVE  \/ docs'[c.path] # None
             \/ c.path \in moved'
             \/ c.path \in at[h].todo
             \/ \E g \in Handlers : /\ g # h
                                    /\ pc'[g] \in Clearing
                                    /\ c.path \in {at'[g].path} \cup at'[g].todo
  BY <1>3, <1>5, <1>7 DEF Documented
<1>8. ASSUME h \notin disturbed, at[h].version = None
       PROVE  \A r \in at[h].paths \ at[h].todo : Rows(r)' = {} \/ r \in at[h].stray
  <2> SUFFICES ASSUME NEW r \in at[h].paths \ at[h].todo
               PROVE  Rows(r)' = {} \/ r \in at[h].stray
    OBVIOUS
  <2>1. Rows(r)' \subseteq Rows(r) /\ (r = p => Rows(r)' = {})
    BY <1>5 DEF Rows
  <2>2. r # p => Rows(r) = {} \/ r \in at[h].stray
    BY <1>1, <1>2, <1>8 DEF Progress, EmptyProgress, Emptied
  <2> QED BY <2>1, <2>2
<1>9. CASE at[h].version # None /\ Continues(h, "embed") /\ UNCHANGED at
  <2>1. pc'[h] = "embed" /\ at'[h] = at[h] /\ at' \in [Handlers -> Local \cup {None}]
    BY <1>9 DEF DocInv, RunTypes, Continues, Goes
  <2>2. at[h].paths = {p} /\ at[h].version \in Versions /\ Pieces[at[h].version] # 0
    BY <1>1, <1>2, <1>9 DEF AtTypes, Local
  <2>3. AtTypes(h)' /\ OwnIds(h)'
    BY <1>2, <1>9, <2>1, <2>2 DEF AtTypes, OwnIds, Working, Clearing, Storing
  <2>4. ASSUME h \notin disturbed PROVE Progress(h)'
    <3>1. {c \in chunks' : c.path = at'[h].path} = {}
      BY <1>5, <2>1
    <3> QED BY <1>1, <1>2, <1>9, <2>1, <2>4, <3>1
         DEF Progress, DocProgress, ClearProgress, EmptyProgress, StoreProgress, Clearing, Storing, Rows
  <2>5. Agreement'
    <3> SUFFICES ASSUME ~raced, Documented, Embedded, Findable, NothingElse
                 PROVE  (Documented /\ Embedded /\ Findable /\ NothingElse)'
      BY <1>4 DEF Agreement, DocInv
    <3>1. \A c \in chunks' : c.path \notin at[h].todo
      BY <1>2, <1>5, <2>2
    <3>2. Documented'
      BY <1>7, <3>1 DEF Documented
    <3> QED BY <1>6, <3>2
  <2> QED BY <1>1, <1>9, <2>1, <2>3, <2>4, <2>5, ContinueKeeps DEF Stages
<1>10. ASSUME at[h].version = None, NEW q \in at[h].todo,
             at' = [at EXCEPT ![h].path = q, ![h].todo = @ \ {q}],
             Continues(h, "select")
      PROVE  DocInv'
  <2>1. at' = [at EXCEPT ![h].path = q, ![h].todo = at[h].todo \ {q}]
    BY <1>10
  <2>2. q \in Paths /\ at[h].todo \ {q} \in SUBSET Paths
    BY <1>2
  <2>3. /\ at'[h] \in Local /\ at' \in [Handlers -> Local \cup {None}]
        /\ at'[h].paths = at[h].paths /\ at'[h].path = q
        /\ at'[h].todo = at[h].todo \ {q} /\ at'[h].version = None /\ at'[h].piece = 1
        /\ at'[h].stray = at[h].stray
    <3>1. RunTypes
      BY DEF DocInv
    <3> QED BY <1>2, <1>10, <3>1, NextFile
  <2>4. pc'[h] = "select"
    BY <1>10 DEF DocInv, RunTypes, Continues, Goes
  <2>5. AtTypes(h)' /\ OwnIds(h)'
    BY <1>2, <2>3, <2>4 DEF AtTypes, OwnIds, Working, Clearing, Storing
  <2>6. ASSUME h \notin disturbed PROVE Progress(h)'
    <3>1. DocProgress(h)' /\ ClearProgress(h)' /\ StoreProgress(h)'
      BY <1>1, <1>2, <1>10, <2>3, <2>4, <2>6
         DEF Progress, DocProgress, ClearProgress, StoreProgress, Clearing, Storing
    <3>2. \A r \in at[h].paths \ at[h].todo : Rows(r)' = {} \/ r \in at[h].stray
      BY <1>10, <1>8, <2>6
    <3>3. EmptyProgress(h)'
      BY <2>3, <2>4, <3>2 DEF EmptyProgress, Emptied
    <3> QED BY <3>1, <3>3 DEF Progress
  <2>7. Agreement'
    <3> SUFFICES ASSUME ~raced, Documented, Embedded, Findable, NothingElse
                 PROVE  (Documented /\ Embedded /\ Findable /\ NothingElse)'
      BY <1>4 DEF Agreement, DocInv
    <3>1. \A c \in chunks' : c.path \in at[h].todo => c.path \in {at'[h].path} \cup at'[h].todo
      BY <2>3
    <3>2. Documented'
      BY <1>7, <2>4, <3>1 DEF Documented, Clearing
    <3> QED BY <1>6, <3>2
  <2> QED BY <1>1, <1>10, <2>3, <2>5, <2>6, <2>7, ContinueKeeps DEF Stages
<1>11. CASE at[h].version = None /\ at[h].todo = {} /\ Ends(h, "absent")
  <2>2. ASSUME h \notin disturbed, NEW q \in at[h].paths
        PROVE  FileAs(q, "absent")' \/ (q \in at[h].stray /\ docs'[q] = None)
    <3>1. docs'[q] = None
      BY <1>1, <1>2, <1>11, <2>2 DEF Progress, DocProgress
    <3>2. Rows(q)' = {} \/ q \in at[h].stray
      BY <1>11, <1>8, <2>2
    <3> QED BY <3>1, <3>2 DEF FileAs
  <2>3. Agreement'
    <3> SUFFICES ASSUME ~raced, Documented, Embedded, Findable, NothingElse
                 PROVE  (Documented /\ Embedded /\ Findable /\ NothingElse)'
      BY <1>4 DEF Agreement, DocInv
    <3>1. Documented'
      BY <1>7, <1>11 DEF Documented
    <3> QED BY <1>6, <3>1
  <2> QED BY <1>1, <1>11, <2>2, <2>3, EndKeeps DEF Outcomes
<1> QED BY <1>9, <1>10, <1>11 DEF Cleared

LEMMA ClearSelectKeeps ==
    ASSUME DocInv, NEW h \in Handlers, ClearSelect(h)
    PROVE  DocInv'
<1> DEFINE p == at[h].path
           ids == IdsOf(Rows(p))
<1>1. pc[h] = "select" /\ Working(h) /\ pc[h] \in Clearing
  BY DEF ClearSelect, Working, Clearing
<1>2. /\ at[h] \in Local /\ AtTypes(h) /\ p \in Paths /\ p \in at[h].paths
      /\ at[h].todo \subseteq at[h].paths /\ at[h].piece = 1
      /\ h \notin disturbed => Progress(h)
  BY <1>1, WorkerTypes DEF AtTypes, Local, Storing
<1>3. \A g \in Handlers : g # h => pc'[g] = pc[g] /\ at'[g] = at[g]
  BY DEF ClearSelect, Cleared, Continues, Ends, Goes, DocInv, RunTypes
<1>4. UNCHANGED <<disk, docs, chunks, embedded, vectors, nextId, moved, rejected, raced, edited>>
  BY DEF ClearSelect, Cleared, Continues, Ends, store
<1>5. Alone(h)
  <2>1. edited' \subseteq Paths
    BY <1>4 DEF DocInv, StoreTypes
  <2> QED BY <1>3, <1>4, <2>1, StoreStays DEF Alone, DocInv, store
<1>6. CASE /\ ids # {}
           /\ at' = [at EXCEPT ![h].ids = ids]
           /\ Continues(h, "unvector")
  <2>1. StoreTypes /\ RunTypes
    BY DEF DocInv
  <2>2. ids \subseteq Ids /\ ids \in SUBSET Nat
    BY <2>1, RowIds DEF Ids
  <2>3. /\ at'[h] \in Local /\ at' \in [Handlers -> Local \cup {None}]
        /\ at'[h].paths = at[h].paths /\ at'[h].path = p
        /\ at'[h].todo = at[h].todo /\ at'[h].version = at[h].version
        /\ at'[h].piece = 1 /\ at'[h].ids = ids /\ at'[h].stray = at[h].stray
    BY <1>2, <1>6, <2>1, <2>2, NewIds
  <2>4. pc'[h] = "unvector"
    BY <1>6, <2>1 DEF RunTypes, Continues, Goes
  <2>5. AtTypes(h)'
    BY <1>1, <1>2, <1>4, <2>2, <2>3, <2>4 DEF AtTypes, Working, Clearing, Storing, Ids
  <2>6. OwnIds(h)'
    BY <1>4, <2>1, <2>3, IdsOfOneFile DEF OwnIds
  <2>7. ASSUME h \notin disturbed PROVE Progress(h)'
    <3>1. at'[h].ids = IdsOf(Rows(at[h].path))'
      BY <1>4, <2>3 DEF IdsOf, Rows
    <3>2. DocProgress(h)' /\ EmptyProgress(h)'
      BY <1>1, <1>2, <1>4, <2>3, <2>4, <2>7
         DEF Progress, DocProgress, EmptyProgress, Emptied, Rows, Clearing
    <3> QED BY <2>4, <3>1, <3>2 DEF Progress, ClearProgress, EmptyProgress, StoreProgress, Storing
  <2>8. Agreement'
    <3> SUFFICES ASSUME ~raced, Documented, Embedded, Findable, NothingElse
                 PROVE  (Documented /\ Embedded /\ Findable /\ NothingElse)'
      BY <1>4 DEF Agreement, DocInv
    <3>1. Documented'
      <4>1. \A g \in Handlers : /\ pc'[g] \in Clearing <=> pc[g] \in Clearing
                                /\ at'[g].path = at[g].path /\ at'[g].todo = at[g].todo
        BY <1>1, <1>3, <2>3, <2>4 DEF Clearing
      <4> QED BY <1>4, <4>1 DEF Documented
    <3>2. Embedded'
      BY <1>1, <1>3, <1>4 DEF Embedded
    <3>3. Findable'
      BY <1>1, <1>3, <1>4 DEF Findable, Holds
    <3>4. NothingElse'
      BY <1>4 DEF NothingElse
    <3> QED BY <3>1, <3>2, <3>3, <3>4
  <2> QED BY <1>1, <1>5, <1>6, <2>3, <2>5, <2>6, <2>7, <2>8, ContinueKeeps DEF Stages
<1>7. CASE ids = {} /\ Cleared(h)
  <2>1. Rows(p) = {}
    BY <1>7 DEF IdsOf
  <2> QED BY <1>1, <1>4, <1>5, <1>7, <2>1, ClearedKeeps
<1> QED BY <1>6, <1>7 DEF ClearSelect

LEMMA ClearVectorsKeeps ==
    ASSUME DocInv, NEW h \in Handlers, ClearVectors(h)
    PROVE  DocInv'
<1> DEFINE p == at[h].path
<1>1. pc[h] = "unvector" /\ Working(h) /\ pc[h] \in Clearing
  BY DEF ClearVectors, Working, Clearing
<1>2. /\ at[h] \in Local /\ AtTypes(h) /\ OwnIds(h) /\ p \in Paths /\ p \in at[h].paths
      /\ at[h].ids \subseteq Ids
      /\ h \notin disturbed => Progress(h)
  BY <1>1, WorkerTypes DEF AtTypes, Local, Storing
<1>3. UNCHANGED <<disk, docs, chunks, embedded, nextId, at, moved, rejected, raced, edited>>
  BY DEF ClearVectors, Continues
<1>4. pc'[h] = "unembed" /\ \A g \in Handlers : g # h => pc'[g] = pc[g] /\ at'[g] = at[g]
  BY DEF ClearVectors, Continues, Goes, DocInv, RunTypes
<1>5. /\ vectors = None => vectors' = None
      /\ vectors # None =>
           /\ vectors' \in Vectors /\ vectors' # None
           /\ vectors'.keys = vectors.keys \ at[h].ids
           /\ Cardinality(vectors'.keys) <= vectors'.slots
           /\ vectors'.slots <= vectors'.capacity
  <2>1. vectors = None => vectors' = None
    BY DEF ClearVectors, VectorRemove
  <2>2. ASSUME vectors # None
        PROVE  /\ vectors' \in Vectors /\ vectors'.keys = vectors.keys \ at[h].ids
               /\ vectors'.slots = vectors.slots /\ vectors'.capacity = vectors.capacity
    <3>1. vectors \in Vectors
      BY <2>2 DEF DocInv, StoreTypes
    <3>2. vectors' = [vectors EXCEPT !.keys = @ \ at[h].ids]
      BY <2>2 DEF ClearVectors, VectorRemove
    <3> QED BY <3>1, <3>2 DEF Vectors
  <2>3. ASSUME vectors # None PROVE Cardinality(vectors'.keys) <= vectors.slots
    <3>1. /\ vectors.keys \subseteq Ids /\ Cardinality(vectors.keys) <= vectors.slots
          /\ vectors.slots \in Nat
      BY <2>3 DEF DocInv, StoreTypes, Vectors
    <3>2. IsFiniteSet(vectors.keys)
      BY <3>1, IdsAreFinite, FS_Subset DEF DocInv
    <3>3. /\ vectors'.keys \subseteq vectors.keys
      BY <2>2, <2>3
    <3>4. /\ Cardinality(vectors'.keys) <= Cardinality(vectors.keys)
          /\ IsFiniteSet(vectors'.keys)
      BY <3>2, <3>3, FS_Subset
    <3>5. Cardinality(vectors'.keys) \in Nat /\ Cardinality(vectors.keys) \in Nat
      BY <3>2, <3>4, FS_CardinalityType
    <3> QED BY <3>1, <3>4, <3>5
  <2>4. ASSUME vectors # None PROVE vectors' # None /\ vectors'.slots <= vectors'.capacity
    BY <2>2, <2>4, DocAssumption DEF Vectors, DocInv, StoreTypes
  <2> QED BY <2>1, <2>2, <2>3, <2>4
<1>6. StoreTypes'
  BY <1>3, <1>5 DEF DocInv, StoreTypes, IdsOf, Ids
<1>7. \A i : Holds(i)' <=> Holds(i) /\ i \notin at[h].ids
  BY <1>5 DEF Holds
<1>8. Alone(h)
  <2>1. ASSUME NEW q \in Paths \ at[h].paths PROVE SameAt(q)
    <3>1. \A i \in IdsOf(Rows(q)) : i \notin at[h].ids
      BY <1>1, <1>2 DEF OwnIds, IdsOf, Rows
    <3> QED BY <1>3, <1>7, <3>1 DEF SameAt, IdsOf, Rows
  <2> QED BY <1>3, <1>4, <1>5, <1>6, <2>1 DEF Alone, DocInv, StoreTypes
<1>9. AtTypes(h)' /\ OwnIds(h)'
  BY <1>1, <1>2, <1>3, <1>4 DEF AtTypes, OwnIds, Working, Clearing, Storing, Ids
<1>10. ASSUME h \notin disturbed PROVE Progress(h)'
  <2>1. at[h].ids = IdsOf(Rows(p))
    BY <1>1, <1>2, <1>10 DEF Progress, ClearProgress
  <2>2. at'[h].ids = IdsOf(Rows(p))' /\ \A id \in at'[h].ids : ~Holds(id)'
    BY <1>3, <1>7, <2>1 DEF IdsOf, Rows
  <2>3. DocProgress(h)' /\ EmptyProgress(h)'
    BY <1>1, <1>2, <1>3, <1>4, <1>10
       DEF Progress, DocProgress, EmptyProgress, Emptied, Rows, Clearing
  <2> QED BY <1>4, <2>2, <2>3 DEF Progress, ClearProgress, EmptyProgress, StoreProgress, Storing
<1>11. Agreement'
  <2> SUFFICES ASSUME ~raced, Documented, Embedded, Findable, NothingElse
               PROVE  (Documented /\ Embedded /\ Findable /\ NothingElse)'
    BY <1>3 DEF Agreement, DocInv
  <2>1. Documented'
    <3>1. \A g \in Handlers : pc[g] \in Clearing => pc'[g] \in Clearing
      BY <1>4 DEF Clearing
    <3> QED BY <1>3, <3>1 DEF Documented
  <2>2. Embedded'
    BY <1>1, <1>3, <1>4 DEF Embedded
  <2>3. Findable'
    BY <1>1, <1>3, <1>4, <1>7 DEF Findable
  <2>4. NothingElse'
    BY <1>3, <1>5 DEF NothingElse
  <2> QED BY <2>1, <2>2, <2>3, <2>4
<1>12. Continues(h, "unembed") /\ at' \in [Handlers -> Local \cup {None}] /\ at'[h] = at[h]
  BY <1>3 DEF ClearVectors, DocInv, RunTypes
<1> QED BY <1>1, <1>8, <1>9, <1>10, <1>11, <1>12, ContinueKeeps DEF Stages

LEMMA ClearEmbeddingsKeeps ==
    ASSUME DocInv, NEW h \in Handlers, ClearEmbeddings(h)
    PROVE  DocInv'
<1> DEFINE p == at[h].path
<1>1. pc[h] = "unembed" /\ Working(h) /\ pc[h] \in Clearing
  BY DEF ClearEmbeddings, Working, Clearing
<1>2. /\ at[h] \in Local /\ AtTypes(h) /\ OwnIds(h) /\ p \in Paths /\ p \in at[h].paths
      /\ at[h].ids \subseteq Ids
      /\ h \notin disturbed => Progress(h)
      /\ ~raced => h \notin disturbed
  BY <1>1, WorkerTypes DEF AtTypes, Local, Storing
<1>3. /\ UNCHANGED <<disk, docs, chunks, vectors, nextId, at, moved, rejected, raced, edited>>
      /\ embedded' = embedded \ at[h].ids
  BY DEF ClearEmbeddings, Continues
<1>4. pc'[h] = "delete" /\ \A g \in Handlers : g # h => pc'[g] = pc[g] /\ at'[g] = at[g]
  BY DEF ClearEmbeddings, Continues, Goes, DocInv, RunTypes
<1>5. StoreTypes'
  BY <1>3 DEF DocInv, StoreTypes, IdsOf, Ids
<1>6. Alone(h)
  <2>1. ASSUME NEW q \in Paths \ at[h].paths PROVE SameAt(q)
    <3>1. \A i \in IdsOf(Rows(q)) : i \notin at[h].ids
      BY <1>1, <1>2 DEF OwnIds, IdsOf, Rows
    <3> QED BY <1>3, <3>1 DEF SameAt, IdsOf, Rows, Holds
  <2> QED BY <1>3, <1>4, <1>5, <2>1 DEF Alone, DocInv, StoreTypes
<1>7. AtTypes(h)' /\ OwnIds(h)'
  BY <1>1, <1>2, <1>3, <1>4 DEF AtTypes, OwnIds, Working, Clearing, Storing, Ids
<1>8. ASSUME h \notin disturbed
      PROVE  at[h].ids = IdsOf(Rows(p)) /\ \A id \in at[h].ids : ~Holds(id)
  BY <1>1, <1>2, <1>8 DEF Progress, ClearProgress
<1>9. ASSUME h \notin disturbed PROVE Progress(h)'
  <2>1. /\ at'[h].ids = IdsOf(Rows(p))' /\ \A id \in at'[h].ids : ~Holds(id)'
        /\ at'[h].ids \cap embedded' = {}
    BY <1>3, <1>8, <1>9 DEF IdsOf, Rows, Holds
  <2>2. DocProgress(h)' /\ EmptyProgress(h)'
    BY <1>1, <1>2, <1>3, <1>4, <1>9
       DEF Progress, DocProgress, EmptyProgress, Emptied, Rows, Clearing
  <2> QED BY <1>4, <2>1, <2>2 DEF Progress, ClearProgress, EmptyProgress, StoreProgress, Storing
<1>10. Agreement'
  <2> SUFFICES ASSUME ~raced, Documented, Embedded, Findable, NothingElse
               PROVE  (Documented /\ Embedded /\ Findable /\ NothingElse)'
    BY <1>3 DEF Agreement, DocInv
  <2>1. Documented'
    <3>1. \A g \in Handlers : pc[g] \in Clearing => pc'[g] \in Clearing
      BY <1>4 DEF Clearing
    <3> QED BY <1>3, <3>1 DEF Documented
  <2>2. Embedded'
    BY <1>1, <1>3, <1>4 DEF Embedded
  <2>3. Findable'
    BY <1>1, <1>3, <1>4 DEF Findable, Holds
  <2>4. NothingElse'
    BY <1>2, <1>3, <1>8 DEF NothingElse, Holds
  <2> QED BY <2>1, <2>2, <2>3, <2>4
<1>11. Continues(h, "delete") /\ at' \in [Handlers -> Local \cup {None}] /\ at'[h] = at[h]
  BY <1>3 DEF ClearEmbeddings, DocInv, RunTypes
<1> QED BY <1>1, <1>6, <1>7, <1>9, <1>10, <1>11, ContinueKeeps DEF Stages

LEMMA ClearChunksKeeps ==
    ASSUME DocInv, NEW h \in Handlers, ClearChunks(h)
    PROVE  DocInv'
<1> DEFINE p == at[h].path
<1>1. pc[h] = "delete" /\ Working(h)
  BY DEF ClearChunks, Working
<1>2. p \in Paths /\ p \in at[h].paths /\ (h \notin disturbed => Progress(h))
  BY <1>1, WorkerTypes DEF AtTypes, Local, Storing
<1>3. /\ UNCHANGED <<disk, docs, vectors, nextId, rejected, edited>>
      /\ chunks' = chunks \ Rows(p)
      /\ embedded' = embedded \ IdsOf(Rows(p))
      /\ moved' = moved \ {p}
      /\ Cleared(h)
  BY DEF ClearChunks
<1>4. \A g \in Handlers : g # h => pc'[g] = pc[g] /\ at'[g] = at[g]
  BY <1>3 DEF Cleared, Continues, Ends, Goes, DocInv, RunTypes
<1>5. StoreTypes'
  <2>1. IsFiniteSet(chunks')
    BY <1>3, FS_Subset DEF DocInv, StoreTypes
  <2>2. embedded' \subseteq IdsOf(chunks')
    BY <1>3 DEF DocInv, StoreTypes, IdsOf
  <2> QED BY <1>3, <2>1, <2>2 DEF DocInv, StoreTypes, Ids
<1>6. Alone(h)
  <2>1. ASSUME NEW q \in Paths \ at[h].paths PROVE SameAt(q)
    <3>1. q # p
      BY <1>2, <2>1
    <3>2. \A i \in IdsOf(Rows(q)) : i \notin IdsOf(Rows(p))
      BY <3>1, IdsOfOneFile DEF DocInv, IdsOf, Rows
    <3>3. Rows(q)' = Rows(q)
      BY <1>3, <3>1 DEF Rows
    <3> QED BY <1>3, <3>2, <3>3 DEF SameAt, Holds
  <2>2. chunks' \subseteq chunks /\ vectors' = vectors /\ nextId <= nextId'
    BY <1>3 DEF DocInv, StoreTypes
  <2> QED BY <1>4, <1>5, <2>1, <2>2 DEF Alone
<1>7. h \notin disturbed => \A id \in IdsOf(Rows(p)) : ~Holds(id)
  BY <1>1, <1>2 DEF Progress, ClearProgress
<1> QED BY <1>1, <1>3, <1>6, <1>7, ClearedKeeps

-----------------------------------------------------------------------------
(***************************************************************************)
(* The steps of removals and moves                                         *)
(***************************************************************************)
LEMMA RemoveDocKeeps ==
    ASSUME DocInv, NEW h \in Handlers, RemoveDoc(h)
    PROVE  DocInv'
<1> DEFINE p == at[h].path
<1>1. pc[h] = "undoc" /\ Working(h)
  BY DEF RemoveDoc, Working
<1>2. /\ at[h] \in Local /\ AtTypes(h) /\ p \in Paths /\ at[h].paths = {p}
      /\ at[h].version = None /\ at[h].piece = 1
  BY <1>1, WorkerTypes DEF AtTypes, Local, Storing
<1>3. /\ UNCHANGED <<disk, chunks, embedded, vectors, nextId, at, moved, rejected, raced, edited>>
      /\ docs' = [docs EXCEPT ![p] = None]
      /\ Continues(h, "select")
  BY DEF RemoveDoc, Continues
<1>4. pc'[h] = "select" /\ \A g \in Handlers : g # h => pc'[g] = pc[g] /\ at'[g] = at[g]
  BY <1>3 DEF Continues, Goes, DocInv, RunTypes
<1>5. StoreTypes'
  BY <1>3 DEF DocInv, StoreTypes, IdsOf, Ids
<1>6. docs'[p] = None /\ \A q \in Paths : q # p => docs'[q] = docs[q]
  BY <1>2, <1>3 DEF DocInv, StoreTypes
<1>7. Alone(h)
  <2>1. ASSUME NEW q \in Paths \ at[h].paths PROVE SameAt(q)
    BY <1>2, <1>3, <1>6 DEF SameAt, IdsOf, Rows, Holds
  <2> QED BY <1>3, <1>4, <1>5, <2>1 DEF Alone, DocInv, StoreTypes
<1>8. AtTypes(h)' /\ OwnIds(h)'
  BY <1>1, <1>2, <1>3, <1>4 DEF AtTypes, OwnIds, Working, Clearing, Storing
<1>9. Progress(h)'
  BY <1>2, <1>3, <1>4, <1>6 DEF Progress, DocProgress, ClearProgress, EmptyProgress, StoreProgress, Storing
<1>10. Agreement'
  <2> SUFFICES ASSUME ~raced, Documented, Embedded, Findable, NothingElse
               PROVE  (Documented /\ Embedded /\ Findable /\ NothingElse)'
    BY <1>3 DEF Agreement, DocInv
  <2>1. Documented'
    <3> SUFFICES ASSUME NEW c \in chunks'
                 PROVE  \/ docs'[c.path] # None
                        \/ c.path \in moved'
                        \/ \E g \in Handlers : /\ pc'[g] \in Clearing
                                               /\ c.path \in {at'[g].path} \cup at'[g].todo
      BY DEF Documented
    <3>1. CASE c.path = p
      BY <1>3, <1>4, <3>1 DEF Clearing
    <3>2. CASE c.path # p
      <4>1. c \in chunks /\ c.path \in Paths
        BY <1>3 DEF DocInv, StoreTypes
      <4> QED BY <1>1, <1>3, <1>4, <1>6, <3>2, <4>1 DEF Documented, Clearing
    <3> QED BY <3>1, <3>2
  <2>2. Embedded'
    BY <1>1, <1>3, <1>4 DEF Embedded
  <2>3. Findable'
    BY <1>1, <1>3, <1>4 DEF Findable, Holds
  <2>4. NothingElse'
    BY <1>3 DEF NothingElse
  <2> QED BY <2>1, <2>2, <2>3, <2>4
<1>11. at' \in [Handlers -> Local \cup {None}] /\ at'[h] = at[h]
  BY <1>3 DEF DocInv, RunTypes
<1> QED BY <1>1, <1>3, <1>7, <1>8, <1>9, <1>10, <1>11, ContinueKeeps DEF Stages

LEMMA RemoveListKeeps ==
    ASSUME DocInv, NEW h \in Handlers, RemoveList(h)
    PROVE  DocInv'
<1>1. pc[h] = "list" /\ Working(h)
  BY DEF RemoveList, Working
<1>2. /\ at[h] \in Local /\ AtTypes(h) /\ at[h].paths \subseteq Paths
      /\ at[h].version = None /\ at[h].piece = 1
  BY <1>1, WorkerTypes DEF AtTypes, Local, Storing
<1>3. PICK todo \in SUBSET at[h].paths : todo = {p \in at[h].paths : docs[p] # None}
  OBVIOUS
<1>4. at' = [at EXCEPT ![h].todo = todo, ![h].stray = Strays(h)] /\ Continues(h, "undocs")
      /\ UNCHANGED <<store, moved, rejected, raced, edited>>
  BY <1>3 DEF RemoveList, Continues
<1>5. pc'[h] = "undocs" /\ \A g \in Handlers : g # h => pc'[g] = pc[g] /\ at'[g] = at[g]
  BY <1>4 DEF Continues, Goes, DocInv, RunTypes
<1>6. Alone(h)
  <2>1. edited' \subseteq Paths
    BY <1>4 DEF DocInv, StoreTypes
  <2> QED BY <1>4, <1>5, <2>1, StoreStays DEF Alone, DocInv, store
<1>7. /\ at'[h] \in Local /\ at' \in [Handlers -> Local \cup {None}]
      /\ at'[h].paths = at[h].paths /\ at'[h].todo = todo
      /\ at'[h].version = None /\ at'[h].piece = 1 /\ at'[h].stray = Strays(h)
  <2> DEFINE l == [at[h] EXCEPT !.todo = todo]
  <2>1. at'[h] = [at[h] EXCEPT !.todo = todo, !.stray = Strays(h)]
    BY <1>4 DEF DocInv, RunTypes
  <2>2. at'[h] \in Local
    <3>1. l \in Local /\ Strays(h) \in SUBSET Paths
      BY <1>2, LocalUpdates DEF Strays
    <3>2. at'[h] = [l EXCEPT !.stray = Strays(h)]
      BY <1>2, <2>1 DEF Local
    <3> HIDE DEF l
    <3>3. [l EXCEPT !.stray = Strays(h)] \in Local
      BY <3>1, LocalUpdates
    <3> QED BY <3>2, <3>3, Zenon
  <2> QED BY <1>2, <1>4, <2>1, <2>2 DEF DocInv, RunTypes, Local
<1>8. AtTypes(h)' /\ OwnIds(h)'
  BY <1>5, <1>7 DEF AtTypes, OwnIds, Working, Clearing, Storing
<1>9. Progress(h)'
  <2>1. docs' = docs /\ chunks' = chunks
    BY <1>4 DEF store
  <2>2. DocProgress(h)' /\ ClearProgress(h)' /\ StoreProgress(h)'
    BY <1>3, <1>5, <1>7, <2>1 DEF DocProgress, ClearProgress, StoreProgress, Clearing, Storing
  <2>3. \A q \in at[h].paths \ todo : Rows(q) = {} \/ q \in Strays(h)
    BY <1>3 DEF Strays
  <2>4. EmptyProgress(h)'
    BY <1>5, <1>7, <2>1, <2>3 DEF EmptyProgress, Emptied, Rows, Clearing
  <2> QED BY <2>2, <2>4 DEF Progress
<1>10. Agreement'
  <2>1. UNCHANGED <<docs, chunks, embedded, vectors, moved, rejected, raced>>
    BY <1>4 DEF store
  <2> QED BY <1>1, <1>5, <2>1, AgreementKept, ChunkTypes
       DEF Clearing, Storing, DocInv, Holds, NothingElse
<1> QED BY <1>1, <1>4, <1>6, <1>7, <1>8, <1>9, <1>10, ContinueKeeps DEF Stages

LEMMA RemoveDocsKeeps ==
    ASSUME DocInv, NEW h \in Handlers, RemoveDocs(h)
    PROVE  DocInv'
<1>1. pc[h] = "undocs" /\ Working(h)
  BY DEF RemoveDocs, Working
<1>2. /\ at[h] \in Local /\ AtTypes(h) /\ at[h].paths \subseteq Paths
      /\ at[h].todo \subseteq at[h].paths
      /\ at[h].version = None /\ at[h].piece = 1
      /\ h \notin disturbed => Progress(h)
      /\ ~raced => h \notin disturbed
  BY <1>1, WorkerTypes DEF AtTypes, Local, Storing
<1>3. /\ UNCHANGED <<disk, chunks, embedded, vectors, nextId, moved, rejected, raced, edited>>
      /\ docs' = [p \in Paths |-> IF p \in at[h].paths THEN None ELSE docs[p]]
  BY DEF RemoveDocs, Continues, Ends
<1>4. \A g \in Handlers : g # h => pc'[g] = pc[g] /\ at'[g] = at[g]
  BY DEF RemoveDocs, Continues, Ends, Goes, DocInv, RunTypes
<1>5. StoreTypes'
  BY <1>3 DEF DocInv, StoreTypes, IdsOf, Ids
<1>6. \A q \in Paths : docs'[q] = IF q \in at[h].paths THEN None ELSE docs[q]
  BY <1>3
<1>7. Alone(h)
  <2>1. ASSUME NEW q \in Paths \ at[h].paths PROVE SameAt(q)
    BY <1>3, <1>6 DEF SameAt, IdsOf, Rows, Holds
  <2> QED BY <1>3, <1>4, <1>5, <2>1 DEF Alone, DocInv, StoreTypes
<1>8. ASSUME ~raced, Documented, Embedded, Findable, NothingElse
      PROVE  Embedded' /\ Findable' /\ NothingElse'
  BY <1>1, <1>3, <1>4, <1>8 DEF Embedded, Findable, NothingElse, Holds
<1>9. ASSUME ~raced, Documented, NEW c \in chunks'
      PROVE  \/ docs'[c.path] # None
             \/ c.path \in moved'
             \/ c.path \in at[h].todo
             \/ \E g \in Handlers : /\ g # h
                                    /\ pc'[g] \in Clearing
                                    /\ c.path \in {at'[g].path} \cup at'[g].todo
  <2>1. at[h].todo = {q \in at[h].paths : docs[q] # None}
    BY <1>1, <1>2, <1>9 DEF Progress, DocProgress
  <2>2. c \in chunks /\ c.path \in Paths
    BY <1>3, <1>9 DEF DocInv, StoreTypes
  <2>3. \/ docs[c.path] # None
        \/ c.path \in moved
        \/ \E g \in Handlers : /\ g # h
                               /\ pc[g] \in Clearing
                               /\ c.path \in {at[g].path} \cup at[g].todo
    BY <1>1, <1>9, <2>2 DEF Documented, Clearing
  <2> QED BY <1>3, <1>4, <1>6, <2>1, <2>2, <2>3
<1>10. ASSUME NEW q \in at[h].todo,
              at' = [at EXCEPT ![h].path = q, ![h].todo = @ \ {q}],
              Continues(h, "select")
       PROVE  DocInv'
  <2>1. /\ at'[h] \in Local /\ at' \in [Handlers -> Local \cup {None}]
        /\ at'[h].paths = at[h].paths /\ at'[h].path = q
        /\ at'[h].todo = at[h].todo \ {q} /\ at'[h].version = None /\ at'[h].piece = 1
        /\ at'[h].stray = at[h].stray
    <3>1. RunTypes
      BY DEF DocInv
    <3> QED BY <1>2, <1>10, <3>1, NextFile
  <2>2. pc'[h] = "select"
    BY <1>10 DEF DocInv, RunTypes, Continues, Goes
  <2>3. AtTypes(h)' /\ OwnIds(h)'
    BY <1>2, <2>1, <2>2 DEF AtTypes, OwnIds, Working, Clearing, Storing
  <2>4. ASSUME h \notin disturbed PROVE Progress(h)'
    <3>1. DocProgress(h)' /\ ClearProgress(h)' /\ StoreProgress(h)'
      BY <1>2, <1>6, <2>1, <2>2
         DEF DocProgress, ClearProgress, StoreProgress, Clearing, Storing
    <3>2. EmptyProgress(h)'
      BY <1>1, <1>2, <1>3, <2>1, <2>2, <2>4 DEF Progress, EmptyProgress, Emptied, Rows, Clearing
    <3> QED BY <3>1, <3>2 DEF Progress
  <2>5. Agreement'
    <3> SUFFICES ASSUME ~raced, Documented, Embedded, Findable, NothingElse
                 PROVE  (Documented /\ Embedded /\ Findable /\ NothingElse)'
      BY <1>3 DEF Agreement, DocInv
    <3>1. \A c \in chunks' : c.path \in at[h].todo => c.path \in {at'[h].path} \cup at'[h].todo
      BY <2>1
    <3>2. Documented'
      BY <1>9, <2>2, <3>1 DEF Documented, Clearing
    <3> QED BY <1>8, <3>2
  <2> QED BY <1>1, <1>7, <1>10, <2>1, <2>3, <2>4, <2>5, ContinueKeeps DEF Stages
<1>11. CASE at[h].todo = {} /\ Ends(h, "absent")
  <2>1. Agreement'
    <3> SUFFICES ASSUME ~raced, Documented, Embedded, Findable, NothingElse
                 PROVE  (Documented /\ Embedded /\ Findable /\ NothingElse)'
      BY <1>3 DEF Agreement, DocInv
    <3>1. Documented'
      BY <1>9, <1>11 DEF Documented
    <3> QED BY <1>8, <3>1
  <2>2. ASSUME h \notin disturbed, NEW q \in at[h].paths
        PROVE  FileAs(q, "absent")' \/ (q \in at[h].stray /\ docs'[q] = None)
    <3>1. docs'[q] = None
      BY <1>2, <1>6, <2>2
    <3>2. Rows(q)' = {} \/ q \in at[h].stray
      BY <1>1, <1>2, <1>3, <1>11, <2>2 DEF Progress, EmptyProgress, Emptied, Rows
    <3> QED BY <3>1, <3>2 DEF FileAs
  <2> QED BY <1>1, <1>7, <1>11, <2>1, <2>2, EndKeeps DEF Outcomes
<1> QED BY <1>10, <1>11 DEF RemoveDocs

LEMMA MoveDocKeeps ==
    ASSUME DocInv, NEW h \in Handlers, MoveDoc(h)
    PROVE  DocInv'
<1> DEFINE p == at[h].path
           to == at[h].to
<1>1. pc[h] = "move" /\ Working(h)
  BY DEF MoveDoc, Working
<1>2. at[h] \in Local /\ p \in at[h].paths /\ to \in at[h].paths /\ at[h].paths \subseteq Paths
  BY <1>1, WorkerTypes DEF AtTypes
<1>3. /\ Ends(h, "unknown")
      /\ UNCHANGED <<disk, chunks, embedded, vectors, nextId, rejected, raced, edited>>
      /\ \/ /\ docs[p] # None /\ docs[to] = None
            /\ docs' = [docs EXCEPT ![to] = docs[p], ![p] = None]
            /\ moved' = moved \cup {p}
         \/ UNCHANGED <<docs, moved>>
  BY DEF MoveDoc, Ends
<1>4. \A g \in Handlers : g # h => pc'[g] = pc[g] /\ at'[g] = at[g]
  BY <1>3 DEF Ends, Goes, DocInv, RunTypes
<1>5. /\ docs' \in [Paths -> Versions \cup {None}]
      /\ moved \subseteq moved' /\ moved' \subseteq Paths
      /\ \A q \in Paths : docs'[q] = docs[q] \/ q = p \/ q = to
      /\ \A q \in Paths : docs[q] # None => docs'[q] # None \/ q \in moved'
  <2>1. docs \in [Paths -> Versions \cup {None}] /\ moved \subseteq Paths /\ p \in Paths
        /\ to \in Paths
    BY <1>2 DEF DocInv, StoreTypes
  <2> QED BY <1>3, <2>1
<1>6. StoreTypes'
  BY <1>3, <1>5 DEF DocInv, StoreTypes, IdsOf, Ids
<1>7. Alone(h)
  <2>1. ASSUME NEW q \in Paths \ at[h].paths PROVE SameAt(q)
    BY <1>2, <1>3, <1>5 DEF SameAt, IdsOf, Rows, Holds
  <2> QED BY <1>3, <1>4, <1>6, <2>1 DEF Alone, DocInv, StoreTypes
<1>8. Agreement'
  <2> SUFFICES ASSUME ~raced, Documented, Embedded, Findable, NothingElse
               PROVE  (Documented /\ Embedded /\ Findable /\ NothingElse)'
    BY <1>3 DEF Agreement, DocInv
  <2>1. Documented'
    <3>1. \A c \in chunks : c.path \in Paths
      BY DEF DocInv, StoreTypes
    <3> QED BY <1>1, <1>3, <1>4, <1>5, <3>1 DEF Documented, Clearing
  <2>2. Embedded' /\ Findable' /\ NothingElse'
    BY <1>1, <1>3, <1>4 DEF Embedded, Findable, NothingElse, Holds
  <2> QED BY <2>1, <2>2
<1> QED BY <1>1, <1>3, <1>7, <1>8, EndKeeps DEF Outcomes, FileAs

LEMMA EditKeeps ==
    ASSUME DocInv, NEW p \in Paths, NEW v \in Versions \cup {None}, Edit(p, v)
    PROVE  DocInv'
<1>1. /\ disk' = [disk EXCEPT ![p] = v] /\ edited' = edited \cup {p}
      /\ UNCHANGED <<docs, chunks, embedded, vectors, nextId, pc, at, faults,
                     expected, disturbed, raced, moved, rejected>>
      /\ ops < MaxOps /\ ops' = ops + 1
  BY DEF Edit
<1>2. /\ disk' \in [Paths -> Versions \cup {None}]
      /\ \A q \in Paths : disk'[q] = disk[q] \/ q \in edited'
  BY <1>1 DEF DocInv, StoreTypes
<1>3. StoreTypes'
  BY <1>1, <1>2 DEF DocInv, StoreTypes, IdsOf, Ids
<1>4. RunTypes'
  BY <1>1, DocAssumption DEF DocInv, RunTypes
<1>5. \A q \in Paths : SameAt(q)
  BY <1>1, <1>2 DEF SameAt, Rows, IdsOf, Holds
<1>6. \A h \in Handlers : AtTypes(h)' /\ OwnIds(h)'
  BY <1>1 DEF DocInv, AtTypes, OwnIds, Working, Ids
<1>7. Disturbance' /\ Agreement'
  BY <1>1 DEF DocInv, Disturbance, Agreement, Documented, Embedded, Findable, NothingElse,
              Working, Holds
<1>8. Files'
  <2>1. \A q \in Paths \ {} : expected'[q] = expected[q] /\ SameAt(q)
    BY <1>1, <1>5
  <2>2. \A q \in Paths \cap {} : FileAs(q, expected[q])'
    OBVIOUS
  <2> QED BY <2>1, <2>2, FilesKept DEF DocInv
<1>9. ASSUME NEW h \in Handlers, Working(h)', h \notin disturbed' PROVE Progress(h)'
  <2>1. Working(h) /\ h \notin disturbed /\ AtTypes(h)
    BY <1>1, <1>9 DEF DocInv, Working
  <2>2. \A q \in at[h].paths : SameAt(q)
    BY <1>5, <2>1 DEF AtTypes, Local
  <2> QED BY <1>1, <2>1, <2>2, ProgressKept DEF DocInv
<1> QED BY <1>3, <1>4, <1>6, <1>7, <1>8, <1>9 DEF DocInv

-----------------------------------------------------------------------------
(***************************************************************************)
(* Faults                                                                  *)
(***************************************************************************)
LEMMA DropKeeps ==
    ASSUME DocInv, NEW h \in Handlers, Drop(h)
    PROVE  DocInv'
<1>1. /\ pc'[h] = "idle" /\ raced' /\ disturbed' = disturbed \ {h}
      /\ UNCHANGED <<store, ops, expected, moved, rejected, edited>>
      /\ \A g \in Handlers : g # h => pc'[g] = pc[g] /\ at'[g] = at[g]
  BY DEF Drop, Goes, DocInv, RunTypes
<1>2. StoreTypes' /\ nextId <= nextId' /\ \A p \in Paths : SameAt(p)
  <2>1. edited' \subseteq Paths
    BY <1>1 DEF DocInv, StoreTypes
  <2> QED BY <1>1, <2>1, StoreStays DEF DocInv
<1>3. RunTypes'
  <2>1. pc' \in [Handlers -> Stages]
    BY DEF Drop, Goes, DocInv, RunTypes, Stages
  <2>2. at' \in [Handlers -> Local \cup {None}]
    BY DEF Drop, DocInv, RunTypes
  <2>3. faults' \in 0..MaxFaults
    BY DocAssumption DEF Drop, DocInv, RunTypes
  <2> QED BY <1>1, <2>1, <2>2, <2>3 DEF DocInv, RunTypes
<1>4. \A g \in Handlers : g # h =>
          /\ AtTypes(g)'
          /\ OwnIds(g)'
          /\ Working(g)' /\ g \notin disturbed' => Progress(g)'
  <2>1. vectors' = vectors /\ chunks' = chunks
    BY <1>1 DEF store
  <2>2. \A g \in Handlers : g # h /\ Working(g) /\ g \notin disturbed' =>
            g \notin disturbed /\ at[g].paths \cap {} = {}
    BY <1>1
  <2>3. \A p \in Paths \ {} : SameAt(p)
    BY <1>2
  <2> QED BY <1>1, <1>2, <2>1, <2>2, <2>3, OthersKept
<1>5. AtTypes(h)' /\ OwnIds(h)' /\ ~Working(h)'
  BY <1>1 DEF AtTypes, OwnIds, Working, Clearing, Storing
<1>6. Disturbance'
  BY <1>1, <1>5 DEF DocInv, Disturbance, Working
<1>7. Agreement'
  BY <1>1 DEF Agreement
<1>8. Files'
  <2>1. \A p \in Paths \ {} : expected'[p] = expected[p] /\ SameAt(p)
    BY <1>1, <1>2
  <2>2. \A p \in Paths \cap {} : FileAs(p, expected[p])'
    OBVIOUS
  <2> QED BY <2>1, <2>2, FilesKept DEF DocInv
<1> QED BY <1>2, <1>3, <1>4, <1>5, <1>6, <1>7, <1>8 DEF DocInv

LEMMA RestartKeeps ==
    ASSUME DocInv, Restart
    PROVE  DocInv'
<1>1. /\ UNCHANGED <<disk, docs, chunks, embedded, nextId, ops, expected, moved, edited>>
      /\ \A h \in Handlers : pc'[h] = "idle"
      /\ disturbed' = {} /\ rejected' = {}
      /\ ~raced' => ~raced /\ \A h \in Handlers : pc[h] = "idle"
  BY DEF Restart, Working
<1>2. IsFiniteSet(embedded) /\ embedded \subseteq Ids /\ Ids \subseteq Nat
      /\ Cardinality(embedded) \in Nat
  <2>1. IsFiniteSet(embedded)
    BY IdsAreFinite DEF DocInv
  <2> QED BY <2>1, FS_CardinalityType DEF DocInv, StoreTypes, IdsOf, Ids
<1>3. /\ embedded = {} => vectors' = None
      /\ embedded # {} =>
           vectors' = [capacity |-> Cardinality(embedded), slots |-> Cardinality(embedded),
                       keys |-> embedded]
  BY DEF Restart, Reserved
<1>4. /\ vectors' # None => embedded # {}
      /\ embedded # {} => /\ vectors' \in Vectors /\ vectors' # None
                          /\ vectors'.keys = embedded
                          /\ vectors'.slots = Cardinality(embedded)
                          /\ vectors'.capacity = Cardinality(embedded)
  <2>1. ASSUME embedded # {}
        PROVE  /\ vectors' \in Vectors
               /\ vectors'.keys = embedded
               /\ vectors'.slots = Cardinality(embedded)
               /\ vectors'.capacity = Cardinality(embedded)
    <3>1. embedded \in SUBSET Nat
      BY <1>2
    <3>2. PICK n \in Nat : n = Cardinality(embedded)
      BY <1>2
    <3>3. vectors' = [capacity |-> n, slots |-> n, keys |-> embedded]
      BY <1>3, <2>1, <3>2
    <3>4. [capacity |-> n, slots |-> n, keys |-> embedded] \in Vectors
      BY <3>1 DEF Vectors
    <3> QED BY <3>2, <3>3, <3>4
  <2>2. None \notin Vectors
    BY DocAssumption DEF Vectors
  <2> QED BY <1>3, <2>1, <2>2
<1>5. StoreTypes'
  <2>1. vectors' # None => /\ vectors' \in Vectors
                           /\ vectors'.keys \subseteq Ids
                           /\ Cardinality(vectors'.keys) <= vectors'.slots
                           /\ vectors'.slots <= vectors'.capacity
    <3> SUFFICES ASSUME vectors' # None
                 PROVE  /\ vectors' \in Vectors
                        /\ vectors'.keys \subseteq Ids
                        /\ Cardinality(vectors'.keys) <= vectors'.slots
                        /\ vectors'.slots <= vectors'.capacity
      OBVIOUS
    <3>1. PICK n \in Nat : n = Cardinality(embedded)
      BY <1>2
    <3>2. /\ vectors' \in Vectors /\ vectors'.keys = embedded
          /\ vectors'.slots = n /\ vectors'.capacity = n
      BY <1>4, <3>1
    <3>3. Cardinality(vectors'.keys) = n
      BY <3>1, <3>2
    <3>4. n <= n
      OBVIOUS
    <3> QED BY <1>2, <3>2, <3>3, <3>4
  <2> QED BY <1>1, <2>1 DEF DocInv, StoreTypes, IdsOf, Ids
<1>6. RunTypes'
  BY <1>1, DocAssumption DEF Restart, DocInv, RunTypes, Stages
<1>7. \A h \in Handlers : AtTypes(h)' /\ OwnIds(h)' /\ ~Working(h)'
  BY <1>1 DEF AtTypes, OwnIds, Working, Clearing, Storing
<1>8. Disturbance'
  BY <1>1, <1>7 DEF Disturbance
<1>9. \A id \in embedded' : Holds(id)'
  BY <1>1, <1>4 DEF Holds
<1>10. Agreement'
  <2> SUFFICES ASSUME ~raced' PROVE (Documented /\ Embedded /\ Findable /\ NothingElse)'
    BY DEF Agreement
  <2>1. Documented /\ Embedded /\ \A h \in Handlers : pc[h] = "idle"
    BY <1>1 DEF DocInv, Agreement
  <2>2. Documented' /\ Embedded'
    BY <1>1, <2>1 DEF Documented, Embedded, Clearing
  <2>3. Findable' /\ NothingElse'
    BY <1>1, <1>4, <1>9 DEF Findable, NothingElse
  <2> QED BY <2>2, <2>3
<1>11. Files'
  <2> SUFFICES ASSUME NEW p \in Paths PROVE FileAs(p, expected[p])'
    BY DEF Files
  <2>1. FileAs(p, expected[p]) /\ expected'[p] = expected[p]
    BY <1>1 DEF DocInv, Files
  <2>2. Rows(p)' = Rows(p) /\ IdsOf(Rows(p))' = IdsOf(Rows(p))
    BY <1>1 DEF Rows, IdsOf
  <2> QED BY <1>1, <1>9, <2>1, <2>2 DEF FileAs
<1> QED BY <1>5, <1>6, <1>7, <1>8, <1>10, <1>11 DEF DocInv

-----------------------------------------------------------------------------
(***************************************************************************)
(* The invariant holds always                                              *)
(***************************************************************************)
LEMMA DocInitially == Init => DocInv
<1> SUFFICES ASSUME Init PROVE DocInv
  OBVIOUS
<1>1. StoreTypes
  BY FS_EmptySet DEF Init, StoreTypes, IdsOf
<1>2. RunTypes
  BY DocAssumption DEF Init, RunTypes, Stages, Outcomes
<1>3. \A h \in Handlers : AtTypes(h) /\ OwnIds(h) /\ ~Working(h)
  BY DEF Init, AtTypes, OwnIds, Working, Clearing, Storing
<1>4. Disturbance
  BY <1>3 DEF Init, Disturbance
<1>5. Agreement
  BY DEF Init, Agreement, Documented, Embedded, Findable, NothingElse
<1>6. Files
  BY DEF Init, Files, FileAs, Rows
<1> QED BY <1>1, <1>2, <1>3, <1>4, <1>5, <1>6 DEF DocInv

LEMMA DocStep == DocInv /\ [Next]_vars => DocInv'
<1> SUFFICES ASSUME DocInv, [Next]_vars PROVE DocInv'
  OBVIOUS
<1>1. ASSUME NEW h \in Handlers, Request(h) PROVE DocInv'
  BY <1>1, RequestKeeps
<1>2. ASSUME NEW h \in Handlers, Step(h) PROVE DocInv'
  BY <1>2, AddReadKeeps, AddUpsertKeeps, AddEmbedKeeps, AddRowKeeps, AddEmbeddingKeeps,
     AddVectorKeeps, ClearSelectKeeps, ClearVectorsKeeps, ClearEmbeddingsKeeps,
     ClearChunksKeeps, RemoveDocKeeps, RemoveListKeeps, RemoveDocsKeeps, MoveDocKeeps
     DEF Step
<1>3. ASSUME NEW h \in Handlers, Drop(h) PROVE DocInv'
  BY <1>3, DropKeeps
<1>4. CASE Restart
  BY <1>4, RestartKeeps
<1>5. CASE UNCHANGED vars
  <2>1. UNCHANGED <<disk, docs, chunks, embedded, vectors, nextId, pc, at, ops, faults>>
        /\ UNCHANGED <<expected, disturbed, raced, moved, rejected, edited>>
    BY <1>5 DEF vars, store, history
  <2>2. StoreTypes' /\ RunTypes'
    BY <2>1 DEF DocInv, StoreTypes, RunTypes, IdsOf, Ids
  <2>3. \A h \in Handlers : AtTypes(h)' /\ OwnIds(h)'
    BY <2>1 DEF DocInv, AtTypes, OwnIds, Working, Ids
  <2>4. Disturbance' /\ Agreement'
    BY <2>1 DEF DocInv, Disturbance, Agreement, Documented, Embedded, Findable, NothingElse,
                Working, Holds
  <2>5. \A p \in Paths : SameAt(p)
    BY <2>1 DEF SameAt, Rows, IdsOf, Holds
  <2>6. Files'
    <3>1. \A p \in Paths \ {} : expected'[p] = expected[p] /\ SameAt(p)
      BY <2>1, <2>5
    <3>2. \A p \in Paths \cap {} : FileAs(p, expected[p])'
      OBVIOUS
    <3> QED BY <3>1, <3>2, FilesKept DEF DocInv
  <2>7. ASSUME NEW h \in Handlers, Working(h)', h \notin disturbed' PROVE Progress(h)'
    <3>1. Working(h) /\ h \notin disturbed /\ AtTypes(h)
      BY <2>1, <2>7 DEF DocInv, Working
    <3>2. \A p \in at[h].paths : SameAt(p)
      BY <2>5, <3>1 DEF AtTypes, Local
    <3> QED BY <2>1, <3>1, <3>2, ProgressKept DEF DocInv
  <2> QED BY <2>2, <2>3, <2>4, <2>6, <2>7 DEF DocInv
<1>6. ASSUME NEW p \in Paths, NEW v \in Versions \cup {None}, Edit(p, v) PROVE DocInv'
  BY <1>6, EditKeeps
<1> QED BY <1>1, <1>2, <1>3, <1>4, <1>5, <1>6 DEF Next

\* The inductive invariant: the stores of an index, the handlers that work on
\* them and what each is about to do.
THEOREM DocInvariance == Spec => []DocInv
<1> QED BY DocInitially, DocStep, PTL DEF Spec

\* Types of the workspace index; ids are given out once, embeddings belong to
\* chunks, and the vector index stays within its slots and its capacity.
THEOREM TypeCorrect == Spec => []TypeOK
<1>1. DocInv => TypeOK
  BY InvariantIsStronger DEF DocInv
<1> QED BY <1>1, DocInvariance, PTL

\* What add_document of an undisturbed upload or reindex left stays exact: one
\* embedded chunk for each piece of the text on disk, or of the text read last if
\* the file was edited since, whatever else is indexed, removed, moved, dropped or
\* restarted.
THEOREM IndexedIsExactAlways == Spec => []IndexedIsExact
<1>1. DocInv => IndexedIsExact
  BY InvariantIsStronger DEF DocInv
<1> QED BY <1>1, DocInvariance, PTL

\* What remove_file or remove_directory took away, undisturbed, has no document
\* and no chunk, and is found neither by text nor by vector, except that a file of
\* the directory whose document was lost before may keep its chunks.
THEOREM RemovedIsGoneAlways == Spec => []RemovedIsGone
<1>1. DocInv => RemovedIsGone
  BY InvariantIsStronger DEF DocInv
<1> QED BY <1>1, DocInvariance, PTL

\* The four stores agree whenever no handler works and none was disturbed.
THEOREM StoresAgreeAlways == Spec => []StoresAgree
<1>1. DocInv => StoresAgree
  BY InvariantIsStronger DEF DocInv
<1> QED BY <1>1, DocInvariance, PTL
=============================================================================
