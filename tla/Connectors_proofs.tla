--------------------------- MODULE Connectors_proofs ---------------------------
(***************************************************************************)
(* Proofs about Connectors, for any connectors, configurations, handlers   *)
(* and any number of requests and drops: no disabled tool runs, caches are *)
(* stale only if they were overtaken, and the registry is reconciled.      *)
(***************************************************************************)
EXTENDS Connectors, TLAPS

(***************************************************************************)
(* The inductive invariant                                                 *)
(***************************************************************************)
Changing == {"written", "sync"}    \* written to the table, and not yet in a sync

\* What a handler holds, by its pc.
Held(h) ==
    /\ pc[h] # "idle" => at[h] \in At
    /\ pc[h] = "tool" => at[h].tool \in Tools
    /\ pc[h] \in {"loaded", "tool", "panel", "checked", "calling"} => row[h] \in Row
    /\ fetch[h] # None =>
         /\ pc[h] \in {"syncing", "panel", "calling"}
         /\ fetch[h].stage # "calling" => fetch[h].config \in McpConfigs
         /\ fetch[h].stage = "calling" => pc[h] = "calling"
         /\ pc[h] = "syncing" => fetch[h].conn \in sync.todo

\* What the running sync has found so far is permitted by the rows it read.
SyncInv ==
    sync # None =>
        /\ sync.todo \cap sync.skipped = {}
        /\ \A c \in sync.todo : sync.rows[c] # None /\ sync.rows[c].on
        /\ \A c \in sync.todo \cup sync.skipped : sync.desired[c] = {}
        /\ \A c \in Conn : \A t \in sync.desired[c] :
             Permits(sync.rows[c], sync.rows[c].ctype, t)

\* A call that was permitted at some moment since it was looked up is marked so,
\* and only such a call passes the checks.
CallInv(h) ==
    /\ Calling(h) /\ Permits(db[at[h].conn], at[h].ctype, at[h].tool) => allowed[h]
    /\ pc[h] = "checked" /\ Permits(row[h], at[h].ctype, at[h].tool) => allowed[h]
    /\ pc[h] = "calling" => allowed[h]

\* StaleOnlyIfOvertaken, and nobody works on older data of the connector.
Written(c) == \E h \in Handlers : pc[h] = "written" /\ at[h].conn = c

CachesFresh(c) ==
    {connections[c], schema[c]} \subseteq {None} \cup (IF Present(c) THEN {db[c].config} ELSE {})

Fresh(c) == CachesFresh(c) /\ \A h \in Handlers : ~Behind(h, c)

StaleInv(c) == c \in overtaken \/ Written(c) \/ Fresh(c)

\* A change of the connector is not yet in the table that a sync has read.
Open(c) ==
    \/ c \in unsynced
    \/ \E h \in Handlers : pc[h] \in Changing /\ at[h].conn = c

\* Reconciled, for one connector: what is registered of it
PermittedOnly(c) ==
    \A t \in Tools : registered[c][t] # None => Permits(db[c], db[c].ctype, t)

ToolsOf(c) ==
    IF Present(c) /\ db[c].on /\ c \notin unreachable THEN Enabled(db[c], db[c].config) ELSE {}

Exact(c) ==
    registered[c] = [t \in Tools |->
        IF t \in ToolsOf(c) THEN [ctype |-> db[c].ctype, config |-> db[c].config] ELSE None]

Good(c) == PermittedOnly(c) /\ (c \notin overtaken => Exact(c))

\* is right unless a change is open or the running sync is about it;
RegistryInv(c) ==
    \/ Open(c)
    \/ guard # None /\ (c \in sync.covers \/ c = at[guard].conn)
    \/ Good(c)

\* the running sync has read its row;
SnapshotInv(c) ==
    guard # None =>
        \/ Open(c)
        \/ sync.rows[c] = IF Present(c) /\ db[c].on THEN db[c] ELSE None

\* and what it has found is what the row's configuration offers.
FoundInv(c) ==
    guard # None =>
        \/ Open(c)
        \/ c \in overtaken
        \/ c \in sync.todo \cup sync.skipped
        \/ sync.rows[c] = None
        \/ /\ sync.desired[c] = Enabled(sync.rows[c], sync.rows[c].config)
           /\ sync.rows[c].ctype = "mcp" => schema[c] = sync.rows[c].config

SyncedInv(c) == RegistryInv(c) /\ SnapshotInv(c) /\ FoundInv(c)

ConnInv ==
    /\ TypeOK
    /\ SyncInv
    /\ \A h \in Handlers : Held(h) /\ CallInv(h)
    /\ \A c \in Conn : StaleInv(c) /\ SyncedInv(c)

LEMMA InvariantIsStronger ==
    ASSUME ConnInv PROVE Reconciled /\ StaleOnlyIfOvertaken /\ DisabledNeverRuns
<1>1. DisabledNeverRuns
  BY DEF ConnInv, DisabledNeverRuns, Held, CallInv
<1>2. StaleOnlyIfOvertaken
  BY DEF ConnInv, StaleOnlyIfOvertaken, StaleInv, Written, Fresh, CachesFresh
<1>3. ASSUME Settled PROVE Reconciled
  <2>1. guard = None
    BY <1>3 DEF ConnInv, TypeOK, Settled
  <2>2. ASSUME NEW c \in Conn \ unsynced PROVE Good(c)
    <3>1. ~Open(c)
      BY <1>3, <2>2 DEF Open, Changing, Settled
    <3> QED BY <2>1, <3>1 DEF ConnInv, SyncedInv, RegistryInv
  <2> QED BY <2>2 DEF Reconciled, Good, PermittedOnly, Exact, ToolsOf
<1> QED BY <1>1, <1>2, <1>3 DEF Reconciled

-----------------------------------------------------------------------------
(***************************************************************************)
(* What a step of one handler leaves to the others                         *)
(***************************************************************************)
Frame(h) ==
    \A g \in Handlers \ {h} :
        /\ pc'[g] = pc[g] /\ at'[g] = at[g] /\ row'[g] = row[g] /\ fetch'[g] = fetch[g]
        /\ guard' = g <=> guard = g
        /\ guard = g => sync' = sync

\* A call stays marked, and is marked when the table begins to permit it.
CallsNotice(h) ==
    \A g \in Handlers \ {h} :
        /\ allowed[g] => allowed'[g]
        /\ Calling(g) /\ Permits(db'[at[g].conn], at[g].ctype, at[g].tool) =>
             allowed'[g] \/ Permits(db[at[g].conn], at[g].ctype, at[g].tool)

LEMMA OthersHold ==
    ASSUME ConnInv, NEW h \in Handlers, Frame(h), CallsNotice(h)
    PROVE  \A g \in Handlers \ {h} : Held(g)' /\ CallInv(g)'
<1> SUFFICES ASSUME NEW g \in Handlers \ {h} PROVE Held(g)' /\ CallInv(g)'
  OBVIOUS
<1>1. /\ pc'[g] = pc[g] /\ at'[g] = at[g] /\ row'[g] = row[g] /\ fetch'[g] = fetch[g]
      /\ guard = g => sync' = sync
  BY DEF Frame
<1>2. Held(g) /\ CallInv(g) /\ (pc[g] = "syncing" => guard = g)
  BY DEF ConnInv, TypeOK
<1>3. Held(g)'
  BY <1>1, <1>2 DEF Held
<1>4. CallInv(g)'
  BY <1>1, <1>2 DEF CallInv, Calling, CallsNotice
<1> QED BY <1>3, <1>4

LEMMA StepKeeps ==
    ASSUME ConnInv, NEW h \in Handlers, TypeOK', SyncInv', Frame(h), CallsNotice(h),
           Held(h)', CallInv(h)', \A c \in Conn : StaleInv(c)', \A c \in Conn : SyncedInv(c)'
    PROVE  ConnInv'
BY OthersHold DEF ConnInv

LEMMA BehindKept ==
    ASSUME ConnInv, NEW h \in Handlers, Frame(h), NEW c \in Conn,
           \A k \in Configs : Current(c, k)' <=> Current(c, k),
           NEW g \in Handlers \ {h}, Behind(g, c)'
    PROVE  Behind(g, c)
<1>1. /\ pc'[g] = pc[g] /\ at'[g] = at[g] /\ row'[g] = row[g] /\ fetch'[g] = fetch[g]
      /\ guard' = g <=> guard = g
      /\ guard = g => sync' = sync
  BY DEF Frame
<1>2. CASE fetch'[g] # None /\ fetch'[g].conn = c /\ ~Current(c, fetch[g].config)'
  <2>1. fetch[g].config \in Configs
    BY <1>1, <1>2 DEF ConnInv, TypeOK, Fetch
  <2> QED BY <1>1, <1>2, <2>1 DEF Behind
<1>3. CASE pc'[g] \in {"panel", "checked"} /\ at'[g].conn = c /\ ~Current(c, row[g].config)'
  <2>1. row[g].config \in Configs
    BY <1>1, <1>3 DEF ConnInv, Held, Row
  <2> QED BY <1>1, <1>3, <2>1 DEF Behind
<1>4. CASE guard' = g /\ c \in sync'.todo /\ ~Current(c, sync.rows[c].config)'
  <2>1. guard = g /\ sync' = sync /\ c \in sync.todo /\ guard # None
    BY <1>1, <1>4, ConfigAssumption
  <2>2. sync \in Sync /\ sync.rows[c] # None
    BY <2>1 DEF ConnInv, TypeOK, SyncInv
  <2>3. sync.rows[c].config \in Configs
    BY <2>2 DEF Sync, Row
  <2> QED BY <1>4, <2>1, <2>3 DEF Behind
<1> QED BY <1>2, <1>3, <1>4 DEF Behind

\* Caches stay fresh, or what makes them stale stays.
LEMMA StaleKept ==
    ASSUME ConnInv, NEW h \in Handlers, Frame(h), NEW c \in Conn,
           \A k \in Configs : Current(c, k)' <=> Current(c, k),
           db' \in [Conn -> Row \cup {None}],
           c \in overtaken => c \in overtaken',
           pc[h] = "written" /\ at[h].conn = c =>
               c \in overtaken' \/ (pc'[h] = "written" /\ at'[h].conn = c),
           Fresh(c) => {connections'[c], schema'[c]} \subseteq
                           {None, connections[c], schema[c]} \cup {k \in Configs : Current(c, k)},
           Fresh(c) => ~Behind(h, c)'
    PROVE  StaleInv(c)'
<1>1. CASE c \in overtaken
  BY <1>1 DEF StaleInv
<1>2. CASE Written(c)
  <2>1. PICK g \in Handlers : pc[g] = "written" /\ at[g].conn = c
    BY <1>2 DEF Written
  <2> QED BY <2>1 DEF Frame, StaleInv, Written
<1>3. CASE Fresh(c)
  <2>1. CachesFresh(c)'
    <3>1. \A k \in Configs : Current(c, k) => Present(c)' /\ db'[c].config = k
      BY DEF Current
    <3>2. CachesFresh(c) /\ db \in [Conn -> Row \cup {None}]
      BY <1>3 DEF Fresh, ConnInv, TypeOK
    <3>3. Present(c) => db[c].config \in Configs /\ Current(c, db[c].config)
      BY <3>2 DEF Present, Row, Current
    <3> QED BY <1>3, <3>1, <3>2, <3>3 DEF CachesFresh
  <2>2. ASSUME NEW g \in Handlers PROVE ~Behind(g, c)'
    <3>1. CASE g = h
      BY <1>3, <3>1
    <3>2. CASE g # h
      BY <1>3, <3>2, BehindKept DEF Fresh
    <3> QED BY <3>1, <3>2
  <2> QED BY <2>1, <2>2 DEF StaleInv, Fresh
<1> QED BY <1>1, <1>2, <1>3 DEF ConnInv, StaleInv

\* The registry stays as right as it was, or a change of the connector is open.
LEMMA SyncedKept ==
    ASSUME ConnInv, NEW c \in Conn,
           \/ Open(c)'
           \/ /\ ~Open(c)
              /\ db'[c] = db[c] /\ registered'[c] = registered[c]
              /\ c \in unreachable' <=> c \in unreachable
              /\ guard' = guard /\ sync' = sync
              /\ guard # None => at'[guard] = at[guard]
              /\ c \in overtaken => c \in overtaken'
              /\ \/ schema'[c] = schema[c]
                 \/ c \in overtaken'
                 \/ Present(c) /\ schema'[c] = db[c].config
    PROVE  SyncedInv(c)'
<1>1. CASE Open(c)'
  BY <1>1 DEF SyncedInv, RegistryInv, SnapshotInv, FoundInv
<1>2. CASE /\ ~Open(c)
           /\ db'[c] = db[c] /\ registered'[c] = registered[c]
           /\ c \in unreachable' <=> c \in unreachable
           /\ guard' = guard /\ sync' = sync
           /\ guard # None => at'[guard] = at[guard]
           /\ c \in overtaken => c \in overtaken'
           /\ \/ schema'[c] = schema[c]
              \/ c \in overtaken'
              \/ Present(c) /\ schema'[c] = db[c].config
  <2>1. Good(c) => Good(c)'
    BY <1>2 DEF Good, PermittedOnly, Exact, ToolsOf, Present
  <2>2. RegistryInv(c)'
    BY <1>2, <2>1 DEF ConnInv, SyncedInv, RegistryInv
  <2>3. SnapshotInv(c)'
    BY <1>2 DEF ConnInv, SyncedInv, SnapshotInv, Present
  <2>4. FoundInv(c)'
    BY <1>2 DEF ConnInv, SyncedInv, SnapshotInv, FoundInv
  <2> QED BY <2>2, <2>3, <2>4 DEF SyncedInv
<1> QED BY <1>1, <1>2

LEMMA FreshUnlessOvertaken ==
    ASSUME ConnInv, NEW c \in Conn, ~Open(c), c \notin overtaken
    PROVE  Fresh(c)
BY DEF ConnInv, StaleInv, Written, Open, Changing

LEMMA FetchIsCurrent ==
    ASSUME ConnInv, NEW h \in Handlers, fetch[h] # None, Fresh(fetch[h].conn)
    PROVE  Present(fetch[h].conn) /\ db[fetch[h].conn].config = fetch[h].config
BY DEF Fresh, Behind, Current

-----------------------------------------------------------------------------
(***************************************************************************)
(* A request arrives, or is answered without a sync                        *)
(***************************************************************************)
LEMMA DoneKeeps ==
    ASSUME ConnInv, NEW h \in Handlers, Done(h),
           pc[h] \in {"loaded", "panel", "resolved", "checked", "calling"},
           UNCHANGED <<db, deleted, connections, registered, guard, sync, history, requests>>,
           \/ schema' = schema
           \/ /\ fetch[h] # None /\ fetch[h].stage = "listing"
              /\ schema' = [schema EXCEPT ![fetch[h].conn] = fetch[h].config]
    PROVE  ConnInv'
<1>0. UNCHANGED <<db, deleted, connections, registered, guard, sync, requests>>
      /\ UNCHANGED <<overtaken, unreachable, unsynced, drops>>
  BY DEF history
<1>1. /\ pc'[h] = "idle" /\ at'[h] = None /\ row'[h] = None /\ fetch'[h] = None
      /\ \A g \in Handlers \ {h} : /\ pc'[g] = pc[g] /\ at'[g] = at[g] /\ row'[g] = row[g]
                                   /\ fetch'[g] = fetch[g] /\ allowed'[g] = allowed[g]
  BY DEF Done, Goes, ConnInv, TypeOK
<1>2. guard # h /\ Held(h)
  BY DEF ConnInv, TypeOK
<1>3. TypeOK'
  <2>1. /\ pc' \in [Handlers -> {"idle", "loaded", "tool", "written", "sync", "syncing",
                                 "panel", "resolved", "checked", "calling"}]
        /\ at' \in [Handlers -> At \cup {None}]
        /\ row' \in [Handlers -> Row \cup {None}]
        /\ fetch' \in [Handlers -> Fetch \cup {None}]
        /\ allowed' \in [Handlers -> BOOLEAN]
    BY DEF Done, Goes, ConnInv, TypeOK
  <2>2. schema' \in [Conn -> McpConfigs \cup {None}]
    BY <1>2 DEF ConnInv, TypeOK, Held
  <2>3. deleted' \subseteq {c \in Conn : ~Present(c)'}
    BY <1>0 DEF ConnInv, TypeOK, Present
  <2>4. \A g \in Handlers : pc'[g] = "syncing" <=> guard' = g
    BY <1>0, <1>1, <1>2 DEF ConnInv, TypeOK
  <2> QED BY <1>0, <2>1, <2>2, <2>3, <2>4 DEF ConnInv, TypeOK
<1>4. Frame(h) /\ CallsNotice(h)
  BY <1>0, <1>1 DEF Frame, CallsNotice
<1>5. Held(h)' /\ CallInv(h)'
  BY <1>1 DEF Held, CallInv, Calling
<1>6. SyncInv'
  BY <1>0 DEF ConnInv, SyncInv
<1>7. ASSUME NEW c \in Conn, Fresh(c)
      PROVE  schema'[c] = schema[c] \/ (Present(c) /\ schema'[c] = db[c].config)
  BY <1>7, FetchIsCurrent DEF ConnInv, TypeOK
<1>8. ASSUME NEW c \in Conn PROVE StaleInv(c)'
  <2>1. \A k \in Configs : Current(c, k)' <=> Current(c, k)
    BY <1>0 DEF Current, Present
  <2>2. ~Behind(h, c)'
    BY <1>0, <1>1, <1>2 DEF Behind
  <2>3. db \in [Conn -> Row \cup {None}]
    BY DEF ConnInv, TypeOK
  <2>4. Present(c) => db[c].config \in Configs /\ Current(c, db[c].config)
    BY <2>3 DEF Present, Row, Current
  <2> QED BY <1>0, <1>4, <1>7, <2>1, <2>2, <2>3, <2>4, StaleKept
<1>9. ASSUME NEW c \in Conn PROVE SyncedInv(c)'
  <2>1. Open(c) => Open(c)'
    BY <1>0, <1>1 DEF Open, Changing
  <2>2. guard # None => at'[guard] = at[guard]
    BY <1>1, <1>2 DEF ConnInv, TypeOK
  <2>3. ~Open(c) /\ c \notin overtaken => Fresh(c)
    BY FreshUnlessOvertaken
  <2> QED BY <1>0, <1>7, <2>1, <2>2, <2>3, SyncedKept
<1> QED BY <1>3, <1>4, <1>5, <1>6, <1>8, <1>9, StepKeeps

LEMMA ArriveKeeps ==
    ASSUME ConnInv, NEW h \in Handlers, NEW c \in Conn, NEW t \in Tools \cup {None},
           NEW type \in {"api", "mcp"}, NEW on \in BOOLEAN, Arrives(h, c, t, type, on),
           NEW q \in {"loaded", "tool", "panel", "resolved"}, Goes(h, q),
           UNCHANGED <<db, deleted, caches, registered, guard, sync, fetch, history>>,
           row' \in [Handlers -> Row \cup {None}],
           \A g \in Handlers \ {h} : row'[g] = row[g] /\ allowed'[g] = allowed[g],
           allowed' \in [Handlers -> BOOLEAN],
           q = "tool" => t \in Tools,
           q # "resolved" => row'[h] \in Row,
           q = "panel" => Present(c) /\ row'[h] = db[c],
           q = "resolved" /\ Permits(db[c], type, t) => allowed'[h]
    PROVE  ConnInv'
<1>0. UNCHANGED <<db, deleted, connections, schema, registered, guard, sync, fetch>>
      /\ UNCHANGED <<overtaken, unreachable, unsynced, drops>>
  BY DEF history, caches
<1>1. /\ pc[h] = "idle" /\ pc'[h] = q
      /\ at'[h] = [conn |-> c, tool |-> t, on |-> on, ctype |-> type]
      /\ \A g \in Handlers \ {h} : pc'[g] = pc[g] /\ at'[g] = at[g]
  BY DEF Arrives, Goes, ConnInv, TypeOK
<1>2. guard # h /\ fetch[h] = None
  BY <1>1 DEF ConnInv, TypeOK, Held
<1>3. at'[h] \in At /\ at'[h].conn = c /\ at'[h].tool = t /\ at'[h].ctype = type
  BY <1>1 DEF At
<1>4. TypeOK'
  <2>1. /\ pc' \in [Handlers -> {"idle", "loaded", "tool", "written", "sync", "syncing",
                                 "panel", "resolved", "checked", "calling"}]
        /\ at' \in [Handlers -> At \cup {None}]
    BY <1>1, <1>3 DEF Arrives, Goes, ConnInv, TypeOK
  <2>2. requests' \in 0..MaxRequests
    BY ConfigAssumption DEF Arrives, ConnInv, TypeOK
  <2>3. deleted' \subseteq {d \in Conn : ~Present(d)'}
    BY <1>0 DEF ConnInv, TypeOK, Present
  <2>4. \A g \in Handlers : pc'[g] = "syncing" <=> guard' = g
    BY <1>0, <1>1, <1>2 DEF ConnInv, TypeOK
  <2> QED BY <1>0, <2>1, <2>2, <2>3, <2>4 DEF ConnInv, TypeOK
<1>5. Frame(h) /\ CallsNotice(h)
  BY <1>0, <1>1 DEF Frame, CallsNotice
<1>6. Held(h)' /\ CallInv(h)'
  BY <1>0, <1>1, <1>2, <1>3 DEF Held, CallInv, Calling
<1>7. SyncInv'
  BY <1>0 DEF ConnInv, SyncInv
<1>8. ASSUME NEW d \in Conn PROVE StaleInv(d)'
  <2>1. \A k \in Configs : Current(d, k)' <=> Current(d, k)
    BY <1>0 DEF Current, Present
  <2>2. ~Behind(h, d)'
    BY <1>0, <1>1, <1>2, <1>3 DEF Behind, Current, Present
  <2>3. db \in [Conn -> Row \cup {None}]
    BY DEF ConnInv, TypeOK
  <2> QED BY <1>0, <1>1, <1>5, <2>1, <2>2, <2>3, StaleKept
<1>9. ASSUME NEW d \in Conn PROVE SyncedInv(d)'
  <2>1. Open(d) => Open(d)'
    BY <1>0, <1>1 DEF Open, Changing
  <2>2. guard # None => at'[guard] = at[guard]
    BY <1>1, <1>2 DEF ConnInv, TypeOK
  <2> QED BY <1>0, <2>1, <2>2, SyncedKept
<1> QED BY <1>4, <1>5, <1>6, <1>7, <1>8, <1>9, StepKeeps

LEMMA UpdateLoadKeeps ==
    ASSUME ConnInv, NEW h \in Handlers, NEW c \in Conn, NEW k \in Configs,
           NEW f \in Flags(k), UpdateLoad(h, c, k, f)
    PROVE  ConnInv'
<1>1. db[c] \in Row
  BY DEF UpdateLoad, Present, ConnInv, TypeOK
<1>2. f \in SUBSET Tools /\ Kind(k) \in {"api", "mcp"}
  BY ConfigAssumption DEF Flags, Kind
<1>3. PICK r \in Row : row' = [row EXCEPT ![h] = r]
  BY <1>1, <1>2 DEF UpdateLoad, Row
<1>4. row' \in [Handlers -> Row \cup {None}] /\ row'[h] \in Row
      /\ \A g \in Handlers \ {h} : row'[g] = row[g]
  BY <1>3 DEF ConnInv, TypeOK
<1>5. allowed' = allowed /\ allowed \in [Handlers -> BOOLEAN]
  BY DEF UpdateLoad, ConnInv, TypeOK
<1> QED BY <1>4, <1>5, ArriveKeeps DEF UpdateLoad

LEMMA ToolLoadKeeps ==
    ASSUME ConnInv, NEW h \in Handlers, NEW c \in Conn, NEW t \in Tools, NEW on \in BOOLEAN,
           ToolLoad(h, c, t, on)
    PROVE  ConnInv'
<1>1. db[c] \in Row
  BY DEF ToolLoad, Present, ConnInv, TypeOK
<1>2. row' \in [Handlers -> Row \cup {None}] /\ row'[h] \in Row
      /\ \A g \in Handlers \ {h} : row'[g] = row[g]
  BY <1>1 DEF ToolLoad, ConnInv, TypeOK
<1>3. allowed' = allowed /\ allowed \in [Handlers -> BOOLEAN]
  BY DEF ToolLoad, ConnInv, TypeOK
<1> QED BY <1>2, <1>3, ArriveKeeps DEF ToolLoad

LEMMA PanelKeeps ==
    ASSUME ConnInv, NEW h \in Handlers, NEW c \in Conn, Panel(h, c)
    PROVE  ConnInv'
<1>1. db[c] \in Row
  BY DEF Panel, Present, ConnInv, TypeOK
<1>2. row' \in [Handlers -> Row \cup {None}] /\ row'[h] = db[c]
      /\ \A g \in Handlers \ {h} : row'[g] = row[g]
  BY <1>1 DEF Panel, ConnInv, TypeOK
<1>3. allowed' = allowed /\ allowed \in [Handlers -> BOOLEAN]
  BY DEF Panel, ConnInv, TypeOK
<1> QED BY <1>1, <1>2, <1>3, ArriveKeeps DEF Panel

LEMMA CallResolveKeeps ==
    ASSUME ConnInv, NEW h \in Handlers, NEW c \in Conn, NEW t \in Tools, CallResolve(h, c, t)
    PROVE  ConnInv'
<1>1. PICK type \in {"api", "mcp"} : type = registered[c][t].ctype
  BY DEF CallResolve, ConnInv, TypeOK, Registration
<1>2. row' = row /\ row \in [Handlers -> Row \cup {None}]
  BY DEF CallResolve, ConnInv, TypeOK
<1>3. /\ allowed' \in [Handlers -> BOOLEAN]
      /\ \A g \in Handlers \ {h} : allowed'[g] = allowed[g]
      /\ allowed'[h] = Permits(db[c], type, t)
  BY <1>1 DEF CallResolve, ConnInv, TypeOK, Permits
<1>4. /\ Arrives(h, c, t, type, TRUE) /\ Goes(h, "resolved")
      /\ UNCHANGED <<db, deleted, caches, registered, guard, sync, fetch, history>>
  BY <1>1 DEF CallResolve
<1> QED BY <1>2, <1>3, <1>4, ArriveKeeps

-----------------------------------------------------------------------------
(***************************************************************************)
(* A statement on the table                                                *)
(***************************************************************************)
LEMMA WriteKeeps ==
    ASSUME ConnInv, NEW h \in Handlers, NEW c \in Conn, NEW r \in Row \cup {None},
           Write(c, r), pc[h] \in {"idle", "loaded", "tool"},
           NEW q \in {"written", "sync"}, Goes(h, q),
           at' \in [Handlers -> At \cup {None}], at'[h] \in At, at'[h].conn = c,
           row' \in [Handlers -> Row \cup {None}],
           \A g \in Handlers \ {h} : at'[g] = at[g] /\ row'[g] = row[g],
           UNCHANGED <<connections, schema, registered, guard, sync, fetch>>,
           UNCHANGED <<unreachable, unsynced, drops>>,
           requests' \in 0..MaxRequests,
           deleted' \subseteq deleted \cup (IF r = None THEN {c} ELSE {}),
           r # None => c \notin deleted,
           overtaken' = overtaken \/ overtaken' = overtaken \cup {c},
           q = "sync" => \/ c \in overtaken'
                         \/ ~Present(c)
                         \/ r # None /\ Present(c) /\ r.config = db[c].config
    PROVE  ConnInv'
<1>1. /\ db' = [db EXCEPT ![c] = r]
      /\ db \in [Conn -> Row \cup {None}] /\ db' \in [Conn -> Row \cup {None}]
      /\ db'[c] = r /\ \A d \in Conn \ {c} : db'[d] = db[d]
      /\ pc'[h] = q
      /\ \A g \in Handlers \ {h} : pc'[g] = pc[g]
  BY DEF Write, Goes, ConnInv, TypeOK
<1>2. guard # h /\ fetch[h] = None
  BY DEF ConnInv, TypeOK, Held
<1>3. \A g \in Handlers : allowed'[g] =
        (allowed[g] \/ (Calling(g) /\ at[g].conn = c /\ Permits(r, at[g].ctype, at[g].tool)))
  BY DEF Write
<1>4. TypeOK'
  <2>1. pc' \in [Handlers -> {"idle", "loaded", "tool", "written", "sync", "syncing",
                              "panel", "resolved", "checked", "calling"}]
    BY DEF Goes, ConnInv, TypeOK
  <2>2. allowed' \in [Handlers -> BOOLEAN]
    BY DEF Write, Calling, Permits, ConnInv, TypeOK
  <2>3. deleted' \subseteq {d \in Conn : ~Present(d)'}
    BY <1>1 DEF ConnInv, TypeOK, Present
  <2>4. \A g \in Handlers : pc'[g] = "syncing" <=> guard' = g
    BY <1>1, <1>2 DEF ConnInv, TypeOK
  <2>5. (overtaken \cup unreachable \cup unsynced)' \subseteq Conn
    BY DEF ConnInv, TypeOK
  <2> QED BY <1>1, <2>1, <2>2, <2>3, <2>4, <2>5 DEF ConnInv, TypeOK
<1>5. Frame(h)
  BY <1>1 DEF Frame
<1>6. CallsNotice(h)
  <2> SUFFICES ASSUME NEW g \in Handlers \ {h}
               PROVE  /\ allowed[g] => allowed'[g]
                      /\ Calling(g) /\ Permits(db'[at[g].conn], at[g].ctype, at[g].tool) =>
                           allowed'[g] \/ Permits(db[at[g].conn], at[g].ctype, at[g].tool)
    BY DEF CallsNotice
  <2>1. allowed[g] => allowed'[g]
    BY <1>3
  <2>2. ASSUME Calling(g), Permits(db'[at[g].conn], at[g].ctype, at[g].tool)
        PROVE  allowed'[g] \/ Permits(db[at[g].conn], at[g].ctype, at[g].tool)
    <3>1. at[g].conn \in Conn
      BY <2>2 DEF ConnInv, Held, At, Calling
    <3>2. CASE at[g].conn = c
      BY <1>1, <1>3, <2>2, <3>2
    <3>3. CASE at[g].conn # c
      BY <1>1, <2>2, <3>1, <3>3
    <3> QED BY <3>2, <3>3
  <2> QED BY <2>1, <2>2
<1>7. Held(h)' /\ CallInv(h)'
  BY <1>1, <1>2 DEF Held, CallInv, Calling
<1>8. SyncInv'
  BY DEF ConnInv, SyncInv
<1>9. \A d \in Conn : ~Behind(h, d)'
  BY <1>1, <1>2 DEF Behind
<1>10. ASSUME NEW d \in Conn PROVE StaleInv(d)'
  <2>1. CASE \A k \in Configs : Current(d, k)' <=> Current(d, k)
    BY <1>1, <1>5, <1>9, <2>1, StaleKept
  <2>2. CASE d # c
    <3>1. \A k \in Configs : Current(d, k)' <=> Current(d, k)
      BY <1>1, <2>2 DEF Current, Present
    <3> QED BY <2>1, <3>1
  <2>3. CASE d = c /\ q = "written"
    BY <1>1, <2>3 DEF StaleInv, Written
  <2>4. CASE d = c /\ c \in overtaken'
    BY <2>4 DEF StaleInv
  <2>5. CASE d = c /\ r # None /\ Present(c) /\ r.config = db[c].config
    <3>1. \A k \in Configs : Current(d, k)' <=> Current(d, k)
      BY <1>1, <2>5 DEF Current, Present
    <3> QED BY <2>1, <3>1
  <2>6. CASE d = c /\ ~Present(c) /\ c \notin overtaken'
    <3>1. CASE Written(c)
      <4>1. PICK g \in Handlers : pc[g] = "written" /\ at[g].conn = c
        BY <3>1 DEF Written
      <4> QED BY <1>1, <2>6, <4>1 DEF StaleInv, Written
    <3>2. CASE Fresh(c)
      <4>1. CachesFresh(c)'
        BY <2>6, <3>2 DEF Fresh, CachesFresh
      <4>2. ASSUME NEW g \in Handlers \ {h} PROVE ~Behind(g, c)'
        BY <1>1, <2>6, <3>2, <4>2 DEF Fresh, Behind, Current
      <4> QED BY <1>9, <2>6, <4>1, <4>2 DEF StaleInv, Fresh
    <3> QED BY <2>6, <3>1, <3>2 DEF ConnInv, StaleInv
  <2> QED BY <2>2, <2>3, <2>4, <2>5, <2>6
<1>11. ASSUME NEW d \in Conn PROVE SyncedInv(d)'
  <2>1. Open(c)'
    BY <1>1 DEF Open, Changing
  <2>2. Open(d) => Open(d)'
    BY <1>1 DEF Open, Changing
  <2>3. guard # None => at'[guard] = at[guard]
    BY <1>2 DEF ConnInv, TypeOK
  <2> QED BY <1>1, <2>1, <2>2, <2>3, SyncedKept
<1> QED BY <1>4, <1>5, <1>6, <1>7, <1>8, <1>10, <1>11, StepKeeps

LEMMA ArrivesAt ==
    ASSUME ConnInv, NEW h \in Handlers, NEW c \in Conn, NEW t \in Tools \cup {None},
           NEW type \in {"api", "mcp"}, NEW on \in BOOLEAN, Arrives(h, c, t, type, on)
    PROVE  /\ pc[h] = "idle" /\ requests' \in 0..MaxRequests
           /\ at' \in [Handlers -> At \cup {None}] /\ at'[h] \in At /\ at'[h].conn = c
           /\ \A g \in Handlers \ {h} : at'[g] = at[g]
<1>1. [conn |-> c, tool |-> t, on |-> on, ctype |-> type] \in At
  BY DEF At
<1>2. at'[h] = [conn |-> c, tool |-> t, on |-> on, ctype |-> type]
  BY DEF Arrives, ConnInv, TypeOK
<1>3. requests' \in 0..MaxRequests
  BY ConfigAssumption DEF Arrives, ConnInv, TypeOK
<1> QED BY <1>1, <1>2, <1>3 DEF Arrives, ConnInv, TypeOK

LEMMA CreateKeeps ==
    ASSUME ConnInv, NEW h \in Handlers, NEW c \in Conn, NEW k \in Configs,
           NEW f \in Flags(k), Create(h, c, k, f)
    PROVE  ConnInv'
<1>1. f \in SUBSET Tools /\ Kind(k) \in {"api", "mcp"}
  BY ConfigAssumption DEF Flags, Kind
<1>2. PICK r \in Row :
        r = [ctype |-> Kind(k), config |-> k, flags |-> f, states |-> {}, on |-> TRUE]
  BY <1>1 DEF Row
<1>3. /\ Write(c, r) /\ Goes(h, "sync") /\ ~Present(c) /\ c \notin deleted
      /\ Arrives(h, c, None, "mcp", TRUE)
      /\ UNCHANGED <<connections, schema, registered, guard, sync, fetch, deleted, row>>
      /\ UNCHANGED <<overtaken, unreachable, unsynced, drops>>
  BY <1>2 DEF Create, caches, history
<1>4. row' \in [Handlers -> Row \cup {None}]
  BY <1>3 DEF ConnInv, TypeOK
<1> QED BY <1>3, <1>4, ArrivesAt, WriteKeeps

LEMMA DeleteKeeps ==
    ASSUME ConnInv, NEW h \in Handlers, NEW c \in Conn, Delete(h, c)
    PROVE  ConnInv'
<1>1. /\ Write(c, None) /\ Goes(h, "written")
      /\ Arrives(h, c, None, "mcp", TRUE)
      /\ deleted' = deleted \cup {c}
      /\ UNCHANGED <<connections, schema, registered, guard, sync, fetch, row>>
      /\ UNCHANGED <<overtaken, unreachable, unsynced, drops>>
  BY DEF Delete, caches, history
<1>2. row' \in [Handlers -> Row \cup {None}]
  BY <1>1 DEF ConnInv, TypeOK
<1> QED BY <1>1, <1>2, ArrivesAt, WriteKeeps

LEMMA ToggleKeeps ==
    ASSUME ConnInv, NEW h \in Handlers, NEW c \in Conn, NEW on \in BOOLEAN, Toggle(h, c, on)
    PROVE  ConnInv'
<1>1. db[c] \in Row /\ c \notin deleted
  BY DEF Toggle, Present, ConnInv, TypeOK
<1>2. PICK r \in Row : r = [db[c] EXCEPT !.on = on]
  BY <1>1 DEF Row
<1>3. /\ Write(c, r) /\ Goes(h, "written")
      /\ Arrives(h, c, None, "mcp", on)
      /\ UNCHANGED <<connections, schema, registered, guard, sync, fetch, deleted, row>>
      /\ UNCHANGED <<overtaken, unreachable, unsynced, drops>>
  BY <1>2 DEF Toggle, caches, history
<1>4. row' \in [Handlers -> Row \cup {None}]
  BY <1>3 DEF ConnInv, TypeOK
<1> QED BY <1>1, <1>3, <1>4, ArrivesAt, WriteKeeps

LEMMA UpdateWriteKeeps ==
    ASSUME ConnInv, NEW h \in Handlers, UpdateWrite(h)
    PROVE  ConnInv'
<1>1. pc[h] = "loaded" /\ at[h] \in At /\ at[h].conn \in Conn /\ row[h] \in Row
  BY DEF UpdateWrite, ConnInv, Held, At
<1>2. CASE Present(at[h].conn)
  <2>1. PICK c \in Conn, r \in Row : c = at[h].conn /\ r = row[h]
    BY <1>1
  <2>2. /\ Write(c, r) /\ Goes(h, "written") /\ c \notin deleted
        /\ row' = [row EXCEPT ![h] = None]
        /\ UNCHANGED <<connections, schema, registered, guard, sync, at, fetch, deleted, requests>>
        /\ UNCHANGED <<overtaken, unreachable, unsynced, drops>>
    BY <1>2, <2>1 DEF UpdateWrite, caches, history, ConnInv, TypeOK
  <2>3. /\ row' \in [Handlers -> Row \cup {None}]
        /\ \A g \in Handlers \ {h} : at'[g] = at[g] /\ row'[g] = row[g]
        /\ at' \in [Handlers -> At \cup {None}] /\ at'[h] \in At /\ at'[h].conn = c
        /\ requests' \in 0..MaxRequests
    BY <1>1, <2>1, <2>2 DEF ConnInv, TypeOK
  <2> QED BY <1>1, <2>2, <2>3, WriteKeeps
<1>3. CASE ~Present(at[h].conn)
  <2>1. Done(h) /\ UNCHANGED <<db, deleted, connections, schema, registered, guard, sync, history, requests>>
    BY <1>3 DEF UpdateWrite, caches
  <2> QED BY <1>1, <2>1, DoneKeeps
<1> QED BY <1>2, <1>3

LEMMA ToolWrittenIsRow ==
    ASSUME NEW h, row[h] \in Row, at[h].tool \in Tools, NEW r \in Row
    PROVE  ToolWritten(h, r) \in Row
<1>1. \A set \in SUBSET Tools : Switched(h, set) \in SUBSET Tools
  BY DEF Switched
<1>2. CASE row[h].ctype = "api"
  <2>1. Switched(h, row[h].flags) \in SUBSET Tools /\ row[h].config \in Configs
    BY <1>1 DEF Row
  <2> DEFINE s == [r EXCEPT !.config = row[h].config]
  <2>2. s \in Row
    BY <2>1 DEF Row
  <2>3. ToolWritten(h, r) = [s EXCEPT !.flags = Switched(h, row[h].flags)]
    BY <1>2 DEF ToolWritten, Row
  <2> HIDE DEF s
  <2> QED BY <2>1, <2>2, <2>3 DEF Row
<1>3. CASE row[h].ctype # "api"
  <2>1. Switched(h, row[h].states) \in SUBSET Tools
    BY <1>1 DEF Row
  <2>2. ToolWritten(h, r) = [r EXCEPT !.states = Switched(h, row[h].states)]
    BY <1>3 DEF ToolWritten
  <2> QED BY <2>1, <2>2 DEF Row
<1> QED BY <1>2, <1>3

-----------------------------------------------------------------------------
(***************************************************************************)
(* A handler goes on, and the table and the registry stay as they are      *)
(***************************************************************************)
Places == {"idle", "loaded", "tool", "written", "sync", "syncing", "panel", "resolved",
           "checked", "calling"}

LEMMA MoveKeeps ==
    ASSUME ConnInv, NEW h \in Handlers,
           UNCHANGED <<db, deleted, schema, registered, guard, sync, at, allowed>>,
           UNCHANGED <<history, requests>>,
           pc' \in [Handlers -> Places],
           row' \in [Handlers -> Row \cup {None}],
           fetch' \in [Handlers -> Fetch \cup {None}],
           \A g \in Handlers \ {h} : pc'[g] = pc[g] /\ row'[g] = row[g] /\ fetch'[g] = fetch[g],
           pc[h] \in Changing \cup {"syncing"} => pc'[h] = pc[h],
           pc'[h] = "syncing" => pc[h] = "syncing",
           \/ connections' = connections
           \/ /\ fetch[h] # None /\ fetch[h].stage = "connecting"
              /\ connections' = [connections EXCEPT ![fetch[h].conn] = fetch[h].config],
           Held(h)', CallInv(h)',
           \A c \in Conn : Fresh(c) => ~Behind(h, c)'
    PROVE  ConnInv'
<1>0. UNCHANGED <<overtaken, unreachable, unsynced, drops>>
  BY DEF history
<1>1. TypeOK'
  <2>1. connections' \in [Conn -> McpConfigs \cup {None}]
    BY DEF ConnInv, TypeOK, Held
  <2>2. deleted' \subseteq {c \in Conn : ~Present(c)'}
    BY DEF ConnInv, TypeOK, Present
  <2>3. \A g \in Handlers : pc'[g] = "syncing" <=> guard' = g
    BY DEF ConnInv, TypeOK
  <2> QED BY <1>0, <2>1, <2>2, <2>3 DEF ConnInv, TypeOK, Places
<1>2. Frame(h) /\ CallsNotice(h) /\ SyncInv'
  BY DEF Frame, CallsNotice, ConnInv, SyncInv
<1>3. ASSUME NEW c \in Conn, Fresh(c)
      PROVE  connections'[c] = connections[c] \/ (Present(c) /\ connections'[c] = db[c].config)
  <2>1. connections \in [Conn -> McpConfigs \cup {None}]
    BY DEF ConnInv, TypeOK
  <2>2. CASE connections' = connections
    BY <2>2
  <2>3. CASE /\ fetch[h] # None
             /\ connections' = [connections EXCEPT ![fetch[h].conn] = fetch[h].config]
    <3>1. PICK d \in Conn, k \in Configs : d = fetch[h].conn /\ k = fetch[h].config
      BY <2>3 DEF ConnInv, TypeOK, Fetch
    <3>2. CASE d = c
      BY <1>3, <2>1, <2>3, <3>1, <3>2, FetchIsCurrent
    <3>3. CASE d # c
      BY <2>1, <2>3, <3>1, <3>3
    <3> QED BY <3>2, <3>3
  <2> QED BY <2>2, <2>3
<1>4. ASSUME NEW c \in Conn PROVE StaleInv(c)'
  <2>1. \A k \in Configs : Current(c, k)' <=> Current(c, k)
    BY DEF Current, Present
  <2>2. db \in [Conn -> Row \cup {None}]
    BY DEF ConnInv, TypeOK
  <2>3. Present(c) => db[c].config \in Configs /\ Current(c, db[c].config)
    BY <2>2 DEF Present, Row, Current
  <2>4. pc[h] = "written" => pc'[h] = "written"
    BY DEF Changing
  <2> QED BY <1>0, <1>2, <1>3, <2>1, <2>2, <2>3, <2>4, StaleKept
<1>5. ASSUME NEW c \in Conn PROVE SyncedInv(c)'
  <2>1. Open(c) => Open(c)'
    BY <1>0 DEF Open
  <2> QED BY <1>0, <2>1, SyncedKept
<1> QED BY <1>1, <1>2, <1>4, <1>5, StepKeeps

LEMMA ToolWriteKeeps ==
    ASSUME ConnInv, NEW h \in Handlers, ToolWrite(h)
    PROVE  ConnInv'
<1>1. /\ pc[h] = "tool" /\ at[h] \in At /\ at[h].conn \in Conn /\ row[h] \in Row
      /\ at[h].tool \in Tools /\ fetch[h] = None
  BY DEF ToolWrite, ConnInv, Held, At
<1>2. /\ Goes(h, "sync") /\ row' = [row EXCEPT ![h] = None]
      /\ UNCHANGED <<deleted, connections, schema, registered, guard, sync, at, fetch>>
      /\ UNCHANGED <<unreachable, unsynced, drops, requests>>
  BY DEF ToolWrite, caches
<1>3. /\ row' \in [Handlers -> Row \cup {None}]
      /\ \A g \in Handlers \ {h} : at'[g] = at[g] /\ row'[g] = row[g]
      /\ at' \in [Handlers -> At \cup {None}] /\ at'[h] = at[h]
      /\ requests' \in 0..MaxRequests
  BY <1>2 DEF ConnInv, TypeOK
<1>4. CASE Present(at[h].conn)
  <2>1. db[at[h].conn] \in Row
    BY <1>1, <1>4 DEF Present, ConnInv, TypeOK
  <2>2. ToolWritten(h, db[at[h].conn]) \in Row
    BY <1>1, <2>1, ToolWrittenIsRow
  <2>3. PICK c \in Conn, r \in Row : c = at[h].conn /\ r = ToolWritten(h, db[c])
    BY <1>1, <2>2
  <2>4. /\ Write(c, r) /\ c \notin deleted
        /\ overtaken' = IF r.config = db[c].config THEN overtaken ELSE overtaken \cup {c}
    BY <1>4, <2>3 DEF ToolWrite, ConnInv, TypeOK
  <2>5. overtaken' = overtaken \/ overtaken' = overtaken \cup {c}
    BY <2>4
  <2>6. \/ c \in overtaken'
        \/ r # None /\ Present(c) /\ r.config = db[c].config
    BY <1>4, <2>3, <2>4, NoneAssumption
  <2>7. at'[h] \in At /\ at'[h].conn = c /\ r \in Row \cup {None}
    BY <1>1, <1>3, <2>3
  <2>8. deleted' \subseteq deleted
    BY <1>2
  <2> QED BY <1>1, <1>2, <1>3, <2>4, <2>5, <2>6, <2>7, <2>8, WriteKeeps
<1>5. CASE ~Present(at[h].conn)
  <2>1. UNCHANGED <<db, allowed, overtaken>>
    BY <1>5 DEF ToolWrite
  <2>2. pc' \in [Handlers -> Places] /\ pc'[h] = "sync"
        /\ \A g \in Handlers \ {h} : pc'[g] = pc[g]
    BY <1>2 DEF Goes, ConnInv, TypeOK, Places
  <2>3. Held(h)' /\ CallInv(h)'
    BY <1>1, <1>2, <1>3, <2>2 DEF Held, CallInv, Calling
  <2>4. \A c \in Conn : ~Behind(h, c)'
    BY <1>1, <1>2, <2>2 DEF Behind, ConnInv, TypeOK
  <2>5. fetch' \in [Handlers -> Fetch \cup {None}]
    BY <1>2 DEF ConnInv, TypeOK
  <2> QED BY <1>1, <1>2, <1>3, <2>1, <2>2, <2>3, <2>4, <2>5, MoveKeeps DEF Changing, history
<1> QED BY <1>4, <1>5

LEMMA InvalidateKeeps ==
    ASSUME ConnInv, NEW h \in Handlers, Invalidate(h)
    PROVE  ConnInv'
<1>1. pc[h] = "written" /\ at[h] \in At /\ fetch[h] = None /\ guard # h
  BY DEF Invalidate, ConnInv, TypeOK, Held
<1>2. PICK c \in Conn : c = at[h].conn
  BY <1>1 DEF At
<1>3. /\ connections' = [connections EXCEPT ![c] = None]
      /\ schema' = [schema EXCEPT ![c] = None]
      /\ overtaken' = IF \E g \in Handlers : Behind(g, c) THEN overtaken \cup {c} ELSE overtaken \ {c}
      /\ UNCHANGED <<db, deleted, registered, guard, sync, at, row, fetch>>
      /\ UNCHANGED <<unreachable, unsynced, drops, allowed, requests>>
  BY <1>2 DEF Invalidate
<1>4. pc' \in [Handlers -> Places] /\ pc'[h] = "sync" /\ \A g \in Handlers \ {h} : pc'[g] = pc[g]
  BY DEF Invalidate, Goes, ConnInv, TypeOK, Places
<1>5. TypeOK'
  <2>1. /\ connections' \in [Conn -> McpConfigs \cup {None}]
        /\ schema' \in [Conn -> McpConfigs \cup {None}]
    BY <1>3 DEF ConnInv, TypeOK
  <2>2. deleted' \subseteq {d \in Conn : ~Present(d)'}
    BY <1>3 DEF ConnInv, TypeOK, Present
  <2>3. \A g \in Handlers : pc'[g] = "syncing" <=> guard' = g
    BY <1>1, <1>3, <1>4 DEF ConnInv, TypeOK
  <2>4. (overtaken \cup unreachable \cup unsynced)' \subseteq Conn
    BY <1>3 DEF ConnInv, TypeOK
  <2> QED BY <1>3, <1>4, <2>1, <2>2, <2>3, <2>4 DEF ConnInv, TypeOK, Places
<1>6. Frame(h) /\ CallsNotice(h) /\ SyncInv'
  BY <1>3, <1>4 DEF Frame, CallsNotice, ConnInv, SyncInv
<1>7. Held(h)' /\ CallInv(h)'
  BY <1>1, <1>3, <1>4 DEF Held, CallInv, Calling, ConnInv
<1>8. \A d \in Conn : ~Behind(h, d)'
  BY <1>1, <1>3, <1>4 DEF Behind
<1>9. ASSUME NEW d \in Conn PROVE StaleInv(d)'
  <2>1. CASE d = c /\ c \notin overtaken'
    <3>1. \A g \in Handlers : ~Behind(g, c)
      BY <1>3, <2>1
    <3>2. ASSUME NEW g \in Handlers PROVE ~Behind(g, c)'
      <4>1. CASE g = h
        BY <1>8, <4>1
      <4>2. CASE g # h
        BY <1>3, <1>4, <3>1, <4>2 DEF Behind, Current, Present
      <4> QED BY <4>1, <4>2
    <3>3. CachesFresh(c)'
      BY <1>3 DEF CachesFresh, ConnInv, TypeOK
    <3> QED BY <2>1, <3>2, <3>3 DEF StaleInv, Fresh
  <2>2. CASE d = c /\ c \in overtaken'
    BY <2>2 DEF StaleInv
  <2>3. CASE d # c
    <3>1. \A k \in Configs : Current(d, k)' <=> Current(d, k)
      BY <1>3 DEF Current, Present
    <3>2. connections'[d] = connections[d] /\ schema'[d] = schema[d]
          /\ db' \in [Conn -> Row \cup {None}] /\ (d \in overtaken => d \in overtaken')
      BY <1>3, <2>3 DEF ConnInv, TypeOK
    <3> QED BY <1>2, <1>6, <1>8, <2>3, <3>1, <3>2, StaleKept
  <2> QED BY <2>1, <2>2, <2>3
<1>10. ASSUME NEW d \in Conn PROVE SyncedInv(d)'
  <2>1. Open(c)'
    BY <1>2, <1>3, <1>4 DEF Open, Changing
  <2>2. Open(d) => Open(d)'
    BY <1>3, <1>4 DEF Open, Changing
  <2>3. d # c => schema'[d] = schema[d] /\ (d \in overtaken => d \in overtaken')
    BY <1>3 DEF ConnInv, TypeOK
  <2> QED BY <1>3, <2>1, <2>2, <2>3, SyncedKept
<1> QED BY <1>5, <1>6, <1>7, <1>9, <1>10, StepKeeps

LEMMA FetchFields ==
    ASSUME NEW c \in Conn, NEW k \in Configs, NEW s \in {"connecting", "listing", "calling"},
           NEW f, f = [stage |-> s, config |-> k, conn |-> c]
    PROVE  f \in Fetch /\ f.stage = s /\ f.config = k /\ f.conn = c
BY DEF Fetch

\* Who fetches for a connector gets what is cached, or what its own row says.
LEMMA FetchesKeeps ==
    ASSUME ConnInv, NEW h \in Handlers, NEW c \in Conn, NEW k \in Configs, Fetches(h, c, k),
           UNCHANGED <<db, deleted, caches, registered, guard, sync, pc, at, row, history,
                       allowed, requests>>,
           pc[h] \in {"syncing", "panel"}, pc[h] = "syncing" => c \in sync.todo,
           Fresh(c) => Current(c, k)
    PROVE  ConnInv'
<1>1. PICK f \in Fetch : /\ fetch' = [fetch EXCEPT ![h] = f]
                         /\ f.conn = c /\ f.stage # "calling" /\ f.config \in McpConfigs
                         /\ f.config \in {k, connections[c]}
  <2>1. CASE connections[c] # None /\ fetch' = [fetch EXCEPT ![h] =
                  [stage |-> "listing", config |-> connections[c], conn |-> c]]
    <3>1. PICK i \in McpConfigs : i = connections[c]
      BY <2>1 DEF ConnInv, TypeOK
    <3>2. PICK f : f = [stage |-> "listing", config |-> i, conn |-> c]
      OBVIOUS
    <3>3. f \in Fetch /\ f.stage = "listing" /\ f.config = i /\ f.conn = c
      BY <3>2, FetchFields DEF Configs
    <3>4. fetch' = [fetch EXCEPT ![h] = f]
      BY <2>1, <3>1, <3>2
    <3> QED BY <3>1, <3>3, <3>4
  <2>2. CASE Kind(k) = "mcp" /\ fetch' = [fetch EXCEPT ![h] =
                  [stage |-> "connecting", config |-> k, conn |-> c]]
    <3>1. k \in McpConfigs
      BY <2>2 DEF Kind, Configs
    <3>2. PICK f : f = [stage |-> "connecting", config |-> k, conn |-> c]
      OBVIOUS
    <3>3. f \in Fetch /\ f.stage = "connecting" /\ f.config = k /\ f.conn = c
      BY <3>2, FetchFields
    <3>4. fetch' = [fetch EXCEPT ![h] = f]
      BY <2>2, <3>2
    <3> QED BY <3>1, <3>3, <3>4
  <2> QED BY <2>1, <2>2 DEF Fetches
<1>2. /\ fetch' \in [Handlers -> Fetch \cup {None}] /\ fetch'[h] = f /\ f # None
      /\ \A g \in Handlers \ {h} : fetch'[g] = fetch[g]
  BY <1>1, NoneAssumption DEF ConnInv, TypeOK
<1>3. Held(h)' /\ CallInv(h)'
  BY <1>1, <1>2 DEF Held, CallInv, Calling, ConnInv
<1>4. ASSUME NEW d \in Conn, Fresh(d) PROVE ~Behind(h, d)'
  <2>1. ~Behind(h, d) /\ CachesFresh(d)
    BY <1>4 DEF Fresh
  <2>2. \A i : Current(d, i)' <=> Current(d, i)
    BY DEF Current, Present
  <2>3. d = c => Current(c, f.config)
    BY <1>1, <1>4, <2>1, ConfigAssumption DEF CachesFresh, Current, Configs
  <2> QED BY <1>1, <1>2, <2>1, <2>2, <2>3 DEF Behind
<1>5. /\ pc' \in [Handlers -> Places] /\ row' \in [Handlers -> Row \cup {None}]
      /\ UNCHANGED <<db, deleted, schema, connections, registered, guard, sync, at, allowed>>
  BY DEF ConnInv, TypeOK, Places, caches
<1> QED BY <1>2, <1>3, <1>4, <1>5, MoveKeeps

LEMMA SyncFetchKeeps ==
    ASSUME ConnInv, NEW h \in Handlers, NEW c \in Conn, SyncFetch(h, c)
    PROVE  ConnInv'
<1>1. guard = h /\ pc[h] = "syncing" /\ sync # None /\ c \in sync.todo
  BY ConfigAssumption DEF SyncFetch, ConnInv, TypeOK
<1>2. sync \in Sync /\ sync.rows[c] \in Row
  BY <1>1 DEF ConnInv, TypeOK, SyncInv, Sync
<1>3. PICK k \in Configs : k = sync.rows[c].config
  BY <1>2 DEF Row
<1>4. Fresh(c) => Current(c, k)
  BY <1>1, <1>3 DEF Fresh, Behind
<1>5. /\ Fetches(h, c, k)
      /\ UNCHANGED <<db, deleted, caches, registered, guard, sync, pc, at, row, history,
                     allowed, requests>>
  BY <1>3 DEF SyncFetch
<1> QED BY <1>1, <1>4, <1>5, FetchesKeeps

LEMMA PanelFetchKeeps ==
    ASSUME ConnInv, NEW h \in Handlers, PanelFetch(h)
    PROVE  ConnInv'
<1>1. pc[h] = "panel" /\ at[h] \in At /\ row[h] \in Row
  BY DEF PanelFetch, ConnInv, Held
<1>2. PICK c \in Conn, k \in Configs : c = at[h].conn /\ k = row[h].config
  BY <1>1 DEF At, Row
<1>3. Fresh(c) => Current(c, k)
  BY <1>1, <1>2 DEF Fresh, Behind
<1>4. /\ Fetches(h, c, k)
      /\ UNCHANGED <<db, deleted, caches, registered, guard, sync, pc, at, row, history,
                     allowed, requests>>
  BY <1>2 DEF PanelFetch
<1> QED BY <1>1, <1>3, <1>4, FetchesKeeps

LEMMA ConnectedKeeps ==
    ASSUME ConnInv, NEW h \in Handlers, Connected(h)
    PROVE  ConnInv'
<1>1. /\ fetch[h] \in Fetch /\ fetch[h] # None /\ fetch[h].stage = "connecting" /\ Held(h)
      /\ pc[h] \in {"syncing", "panel", "calling"}
  BY DEF Connected, ConnInv, TypeOK, Held
<1>2. PICK f \in Fetch :
        /\ f = [fetch[h] EXCEPT !.stage = IF pc[h] = "calling" THEN "calling" ELSE "listing"]
        /\ f.conn = fetch[h].conn /\ f.config = fetch[h].config
        /\ f.stage = IF pc[h] = "calling" THEN "calling" ELSE "listing"
  <2>1. PICK s \in {"calling", "listing"} : s = IF pc[h] = "calling" THEN "calling" ELSE "listing"
    OBVIOUS
  <2>2. PICK e \in Fetch : e = fetch[h]
    BY <1>1
  <2>3. PICK f : f = [e EXCEPT !.stage = s]
    OBVIOUS
  <2>4. f \in Fetch /\ f.conn = e.conn /\ f.config = e.config /\ f.stage = s
    BY <2>3 DEF Fetch
  <2> QED BY <2>1, <2>2, <2>3, <2>4
<1>3. /\ fetch' \in [Handlers -> Fetch \cup {None}] /\ fetch'[h] = f /\ f # None
      /\ \A g \in Handlers \ {h} : fetch'[g] = fetch[g]
  BY <1>2, NoneAssumption DEF Connected, ConnInv, TypeOK
<1>4. /\ UNCHANGED <<db, deleted, schema, registered, guard, sync, pc, at, row>>
      /\ UNCHANGED <<history, allowed, requests>>
      /\ connections' = [connections EXCEPT ![fetch[h].conn] = fetch[h].config]
  BY DEF Connected
<1>5. Held(h)' /\ CallInv(h)'
  BY <1>1, <1>2, <1>3, <1>4 DEF Held, CallInv, Calling, ConnInv
<1>6. ASSUME NEW c \in Conn, Fresh(c) PROVE ~Behind(h, c)'
  <2>1. ~Behind(h, c)
    BY <1>6 DEF Fresh
  <2>2. \A i : Current(c, i)' <=> Current(c, i)
    BY <1>4 DEF Current, Present
  <2> QED BY <1>1, <1>2, <1>3, <1>4, <2>1, <2>2 DEF Behind
<1>7. pc' \in [Handlers -> Places] /\ row' \in [Handlers -> Row \cup {None}]
  BY <1>4 DEF ConnInv, TypeOK, Places
<1> QED BY <1>1, <1>3, <1>4, <1>5, <1>6, <1>7, MoveKeeps

LEMMA CallLoadKeeps ==
    ASSUME ConnInv, NEW h \in Handlers, CallLoad(h)
    PROVE  ConnInv'
<1>1. pc[h] = "resolved" /\ at[h] \in At /\ Held(h) /\ CallInv(h) /\ at[h].conn \in Conn
      /\ fetch[h] = None /\ guard # h
  BY DEF CallLoad, ConnInv, TypeOK, Held, At
<1>2. CASE Present(at[h].conn)
  <2>1. db[at[h].conn] \in Row
    BY <1>1, <1>2 DEF Present, ConnInv, TypeOK
  <2>2. /\ row' = [row EXCEPT ![h] = db[at[h].conn]] /\ Goes(h, "checked")
        /\ UNCHANGED <<db, deleted, connections, schema, registered, guard, sync, at, fetch>>
        /\ UNCHANGED <<history, allowed, requests>>
    BY <1>2 DEF CallLoad, caches
  <2>3. /\ pc' \in [Handlers -> Places] /\ pc'[h] = "checked"
        /\ row' \in [Handlers -> Row \cup {None}] /\ row'[h] = db[at[h].conn]
        /\ fetch' \in [Handlers -> Fetch \cup {None}]
        /\ \A g \in Handlers \ {h} : pc'[g] = pc[g] /\ row'[g] = row[g]
    BY <2>1, <2>2 DEF Goes, ConnInv, TypeOK, Places
  <2>4. Held(h)' /\ CallInv(h)'
    BY <1>1, <2>1, <2>2, <2>3 DEF Held, CallInv, Calling
  <2>5. \A c \in Conn : ~Behind(h, c)'
    BY <1>1, <1>2, <2>2, <2>3 DEF Behind, Current, Present
  <2> QED BY <1>1, <2>2, <2>3, <2>4, <2>5, MoveKeeps DEF Changing
<1>3. CASE ~Present(at[h].conn)
  <2>1. Done(h)
        /\ UNCHANGED <<db, deleted, connections, schema, registered, guard, sync, history, requests>>
    BY <1>3 DEF CallLoad, caches
  <2> QED BY <1>1, <2>1, DoneKeeps
<1> QED BY <1>2, <1>3

\* What execute_tool checks is what the row permits.
LEMMA AllowedIsPermitted ==
    ASSUME NEW h, row[h] # None, CallAllowed(h)
    PROVE  Permits(row[h], at[h].ctype, at[h].tool)
BY DEF CallAllowed, Permits

LEMMA CallStartsKeeps ==
    ASSUME ConnInv, NEW h \in Handlers, CallStarts(h)
    PROVE  ConnInv'
<1>1. /\ pc[h] = "checked" /\ at[h] \in At /\ Held(h) /\ CallInv(h) /\ row[h] \in Row
      /\ fetch[h] = None /\ guard # h /\ row[h] # None
  BY NoneAssumption DEF CallStarts, ConnInv, TypeOK, Held
<1>2. PICK c \in Conn, k \in Configs : c = at[h].conn /\ k = row[h].config
  BY <1>1 DEF At, Row
<1>3. PICK f \in Fetch : /\ fetch' = [fetch EXCEPT ![h] = f] /\ f.conn = c
                         /\ f.config \in {k, connections[c]}
                         /\ \/ f.stage = "calling"
                            \/ f.stage = "connecting" /\ f.config \in McpConfigs
  <2>1. CASE fetch' = [fetch EXCEPT ![h] = [stage |-> "calling", config |-> k, conn |-> c]]
    <3>1. PICK f : f = [stage |-> "calling", config |-> k, conn |-> c]
      OBVIOUS
    <3>2. f \in Fetch /\ f.stage = "calling" /\ f.config = k /\ f.conn = c
      BY <3>1, FetchFields
    <3>3. fetch' = [fetch EXCEPT ![h] = f]
      BY <2>1, <3>1
    <3> QED BY <3>2, <3>3
  <2>2. CASE connections[c] # None /\ fetch' = [fetch EXCEPT ![h] =
                  [stage |-> "calling", config |-> connections[c], conn |-> c]]
    <3>1. PICK i \in Configs : i = connections[c]
      BY <2>2 DEF ConnInv, TypeOK, Configs
    <3>2. PICK f : f = [stage |-> "calling", config |-> i, conn |-> c]
      OBVIOUS
    <3>3. f \in Fetch /\ f.stage = "calling" /\ f.config = i /\ f.conn = c
      BY <3>2, FetchFields
    <3>4. fetch' = [fetch EXCEPT ![h] = f]
      BY <2>2, <3>1, <3>2
    <3> QED BY <3>1, <3>3, <3>4
  <2>3. CASE Kind(k) = "mcp" /\ fetch' = [fetch EXCEPT ![h] =
                  [stage |-> "connecting", config |-> k, conn |-> c]]
    <3>1. k \in McpConfigs
      BY <2>3 DEF Kind, Configs
    <3>2. PICK f : f = [stage |-> "connecting", config |-> k, conn |-> c]
      OBVIOUS
    <3>3. f \in Fetch /\ f.stage = "connecting" /\ f.config = k /\ f.conn = c
      BY <3>2, FetchFields
    <3>4. fetch' = [fetch EXCEPT ![h] = f]
      BY <2>3, <3>2
    <3> QED BY <3>1, <3>3, <3>4
  <2> QED BY <1>2, <2>1, <2>2, <2>3 DEF CallStarts
<1>4. /\ Goes(h, "calling")
      /\ UNCHANGED <<db, deleted, connections, schema, registered, guard, sync, at, row>>
      /\ UNCHANGED <<history, allowed, requests>>
  BY DEF CallStarts, caches
<1>5. /\ pc' \in [Handlers -> Places] /\ pc'[h] = "calling"
      /\ row' \in [Handlers -> Row \cup {None}]
      /\ fetch' \in [Handlers -> Fetch \cup {None}] /\ fetch'[h] = f /\ f # None
      /\ \A g \in Handlers \ {h} : pc'[g] = pc[g] /\ fetch'[g] = fetch[g]
  BY <1>3, <1>4, NoneAssumption DEF Goes, ConnInv, TypeOK, Places
<1>6. allowed[h]
  BY <1>1, AllowedIsPermitted DEF CallStarts, CallInv
<1>7. Held(h)' /\ CallInv(h)'
  BY <1>1, <1>3, <1>4, <1>5, <1>6 DEF Held, CallInv, Calling
<1>8. ASSUME NEW d \in Conn, Fresh(d) PROVE ~Behind(h, d)'
  <2>1. ~Behind(h, d) /\ CachesFresh(d)
    BY <1>8 DEF Fresh
  <2>2. \A i : Current(d, i)' <=> Current(d, i)
    BY <1>4 DEF Current, Present
  <2>3. d = c => Current(c, k)
    BY <1>1, <1>2, <2>1 DEF Behind
  <2>4. f.config # None
    BY <1>3, ConfigAssumption DEF Fetch
  <2>5. d = c => Current(c, f.config)
    BY <1>3, <2>1, <2>3, <2>4 DEF CachesFresh, Current
  <2> QED BY <1>1, <1>3, <1>4, <1>5, <2>2, <2>5 DEF Behind
<1> QED BY <1>1, <1>4, <1>5, <1>7, <1>8, MoveKeeps DEF Changing

-----------------------------------------------------------------------------
(***************************************************************************)
(* An answer without a sync                                                *)
(***************************************************************************)
LEMMA PanelAnswersKeeps ==
    ASSUME ConnInv, NEW h \in Handlers, PanelAnswers(h)
    PROVE  ConnInv'
BY DoneKeeps DEF PanelAnswers, caches

LEMMA CallRefusedKeeps ==
    ASSUME ConnInv, NEW h \in Handlers, CallRefused(h)
    PROVE  ConnInv'
BY DoneKeeps DEF CallRefused, caches

LEMMA CallReturnsKeeps ==
    ASSUME ConnInv, NEW h \in Handlers, CallReturns(h)
    PROVE  ConnInv'
<1>1. pc[h] = "calling"
  BY DEF CallReturns, ConnInv, Held
<1> QED BY <1>1, DoneKeeps DEF CallReturns, caches

-----------------------------------------------------------------------------
(***************************************************************************)
(* The sync looks at one connector                                         *)
(***************************************************************************)
\* The locals after Found and Skipped
FoundIn(s, c, tools) == [s EXCEPT !.todo = @ \ {c}, !.desired[c] = tools]
SkippedIn(s, c) == [s EXCEPT !.todo = @ \ {c}, !.skipped = @ \cup {c}]

LEMMA FoundFields ==
    ASSUME NEW s \in Sync, NEW c \in Conn, NEW tools \in SUBSET Tools,
           NEW s1, s1 = FoundIn(s, c, tools)
    PROVE  /\ s1 \in Sync /\ s1.todo = s.todo \ {c} /\ s1.rows = s.rows /\ s1.covers = s.covers
           /\ s1.skipped = s.skipped /\ s1.desired[c] = tools
           /\ \A d \in Conn \ {c} : s1.desired[d] = s.desired[d]
<1> DEFINE m == [s EXCEPT !.todo = @ \ {c}]
<1>1. /\ m \in Sync /\ m.todo = s.todo \ {c} /\ m.rows = s.rows /\ m.covers = s.covers
      /\ m.skipped = s.skipped /\ m.desired = s.desired
  BY DEF Sync
<1>2. s1 = [m EXCEPT !.desired[c] = tools]
  BY DEF FoundIn
<1> HIDE DEF m
<1> QED BY <1>1, <1>2 DEF Sync

LEMMA SkippedFields ==
    ASSUME NEW s \in Sync, NEW c \in Conn,
           NEW s1, s1 = SkippedIn(s, c)
    PROVE  /\ s1 \in Sync /\ s1.todo = s.todo \ {c} /\ s1.rows = s.rows /\ s1.covers = s.covers
           /\ s1.skipped = s.skipped \cup {c} /\ s1.desired = s.desired
<1> DEFINE m == [s EXCEPT !.todo = @ \ {c}]
<1>1. /\ m \in Sync /\ m.todo = s.todo \ {c} /\ m.rows = s.rows /\ m.covers = s.covers
      /\ m.skipped = s.skipped /\ m.desired = s.desired
  BY DEF Sync
<1>2. s1 = [m EXCEPT !.skipped = @ \cup {c}]
  BY DEF SkippedIn
<1> HIDE DEF m
<1> QED BY <1>1, <1>2 DEF Sync

LEMMA EnabledPermitted ==
    ASSUME NEW r \in Row, r # None, r.on, NEW k, NEW t \in Enabled(r, k)
    PROVE  Permits(r, r.ctype, t)
BY DEF Enabled, Permits

LEMMA EnabledIsTools ==
    ASSUME NEW r \in Row, NEW k \in Configs
    PROVE  Enabled(r, k) \in SUBSET Tools
BY ConfigAssumption DEF Enabled

\* The sync has found the tools of c, or has skipped it.
LEMMA SyncLooksKeeps ==
    ASSUME ConnInv, NEW h \in Handlers, guard = h, NEW c \in Conn, c \in sync.todo,
           NEW s1 \in Sync, sync' = s1,
           s1.todo = sync.todo \ {c}, s1.rows = sync.rows, s1.covers = sync.covers,
           \A d \in Conn \ {c} : /\ s1.desired[d] = sync.desired[d]
                                 /\ d \in s1.skipped <=> d \in sync.skipped,
           c \in s1.skipped => s1.desired[c] = {},
           \A t \in s1.desired[c] : Permits(sync.rows[c], sync.rows[c].ctype, t),
           \/ c \in s1.skipped
           \/ Open(c)
           \/ c \in overtaken
           \/ /\ s1.desired[c] = Enabled(sync.rows[c], sync.rows[c].config)
              /\ sync.rows[c].ctype = "mcp" => schema'[c] = sync.rows[c].config,
           UNCHANGED <<db, deleted, connections, registered, guard, pc, at, row, allowed>>,
           UNCHANGED <<history, requests>>,
           fetch' = [fetch EXCEPT ![h] = None],
           schema' \in [Conn -> McpConfigs \cup {None}],
           \A d \in Conn \ {c} : schema'[d] = schema[d],
           Fresh(c) => schema'[c] = schema[c] \/ (Present(c) /\ schema'[c] = db[c].config)
    PROVE  ConnInv'
<1>0. UNCHANGED <<overtaken, unreachable, unsynced, drops>>
  BY DEF history
<1>1. /\ fetch' \in [Handlers -> Fetch \cup {None}] /\ fetch'[h] = None
      /\ \A g \in Handlers \ {h} : fetch'[g] = fetch[g]
  BY DEF ConnInv, TypeOK
<1>2. pc[h] = "syncing" /\ guard # None /\ sync # None /\ sync' # None /\ sync \in Sync
  BY ConfigAssumption, NoneAssumption DEF ConnInv, TypeOK
<1>3. TypeOK'
  <2>1. deleted' \subseteq {d \in Conn : ~Present(d)'}
    BY DEF ConnInv, TypeOK, Present
  <2>2. \A g \in Handlers : pc'[g] = "syncing" <=> guard' = g
    BY DEF ConnInv, TypeOK
  <2> QED BY <1>0, <1>1, <1>2, <2>1, <2>2 DEF ConnInv, TypeOK
<1>4. Frame(h) /\ CallsNotice(h)
  BY <1>1 DEF Frame, CallsNotice
<1>5. SyncInv'
  <2>1. SyncInv /\ sync.todo \subseteq Conn /\ s1.skipped \subseteq Conn /\ sync.skipped \subseteq Conn
    BY <1>2 DEF ConnInv, Sync
  <2>2. s1.todo \cap s1.skipped = {}
    BY <1>2, <2>1 DEF SyncInv
  <2>3. \A d \in s1.todo : s1.rows[d] # None /\ s1.rows[d].on
    BY <1>2, <2>1 DEF SyncInv
  <2>4. \A d \in s1.todo \cup s1.skipped : s1.desired[d] = {}
    BY <1>2, <2>1 DEF SyncInv
  <2>5. \A d \in Conn : \A t \in s1.desired[d] : Permits(s1.rows[d], s1.rows[d].ctype, t)
    BY <1>2, <2>1 DEF SyncInv
  <2> QED BY <2>2, <2>3, <2>4, <2>5 DEF SyncInv
<1>6. Held(h)' /\ CallInv(h)'
  BY <1>1, <1>2 DEF Held, CallInv, Calling, ConnInv
<1>7. ASSUME NEW d \in Conn PROVE StaleInv(d)'
  <2>1. \A k \in Configs : Current(d, k)' <=> Current(d, k)
    BY DEF Current, Present
  <2>2. Fresh(d) => ~Behind(h, d)'
    BY <1>1, <1>2 DEF Fresh, Behind, Current, Present
  <2>3. db \in [Conn -> Row \cup {None}]
    BY DEF ConnInv, TypeOK
  <2>4. Present(d) => db[d].config \in Configs /\ Current(d, db[d].config)
    BY <2>3 DEF Present, Row, Current
  <2>5. Fresh(d) => schema'[d] = schema[d] \/ (Present(d) /\ schema'[d] = db[d].config)
    OBVIOUS
  <2> QED BY <1>0, <1>2, <1>4, <2>1, <2>2, <2>3, <2>4, <2>5, StaleKept
<1>8. ASSUME NEW d \in Conn PROVE SyncedInv(d)'
  <2>1. Open(d)' <=> Open(d)
    BY <1>0 DEF Open
  <2>2. Good(d) => Good(d)'
    BY <1>0 DEF Good, PermittedOnly, Exact, ToolsOf, Present
  <2>3. RegistryInv(d)'
    BY <1>2, <2>1, <2>2 DEF ConnInv, SyncedInv, RegistryInv
  <2>4. SnapshotInv(d)'
    BY <1>2, <2>1 DEF ConnInv, SyncedInv, SnapshotInv, Present
  <2>5. FoundInv(d)'
    <3>1. CASE d = c
      BY <1>0, <2>1, <3>1 DEF FoundInv
    <3>2. CASE d # c
      BY <1>0, <1>2, <2>1, <3>2 DEF ConnInv, SyncedInv, FoundInv
    <3> QED BY <3>1, <3>2
  <2> QED BY <2>3, <2>4, <2>5 DEF SyncedInv
<1> QED BY <1>3, <1>4, <1>5, <1>6, <1>7, <1>8, StepKeeps

\* While no change of c is open, the sync's copy of its row is the row.
LEMMA SnapshotIsRow ==
    ASSUME ConnInv, guard # None, NEW c \in Conn, sync.rows[c] # None, ~Open(c)
    PROVE  Present(c) /\ sync.rows[c] = db[c]
BY DEF ConnInv, SyncedInv, SnapshotInv

LEMMA LooksAt ==
    ASSUME ConnInv, NEW h \in Handlers, guard = h, NEW c \in sync.todo
    PROVE  /\ c \in Conn /\ guard # None /\ sync \in Sync /\ c \notin sync.skipped
           /\ sync.rows[c] \in Row /\ sync.rows[c] # None /\ sync.rows[c].on
           /\ sync.desired[c] = {} /\ pc[h] = "syncing"
<1>1. guard # None /\ sync # None /\ sync \in Sync /\ pc[h] = "syncing"
  BY ConfigAssumption DEF ConnInv, TypeOK
<1> QED BY <1>1 DEF ConnInv, SyncInv, Sync

LEMMA SyncKnownKeeps ==
    ASSUME ConnInv, NEW h \in Handlers, NEW c \in Conn, SyncKnown(h, c)
    PROVE  ConnInv'
<1>0. /\ guard = h /\ fetch[h] = None /\ c \in sync.todo
      /\ UNCHANGED <<db, deleted, connections, schema, registered, guard, pc, at, row, allowed>>
      /\ UNCHANGED <<history, requests, fetch>>
  BY DEF SyncKnown, caches
<1>1. /\ guard # None /\ sync \in Sync /\ c \notin sync.skipped
      /\ sync.rows[c] \in Row /\ sync.rows[c] # None /\ sync.rows[c].on /\ sync.desired[c] = {}
  BY <1>0, LooksAt
<1>2. fetch' = [fetch EXCEPT ![h] = None] /\ schema' \in [Conn -> McpConfigs \cup {None}]
  BY <1>0 DEF ConnInv, TypeOK
<1>3. PICK s1 : s1 = sync'
  OBVIOUS
<1>4. ASSUME NEW k \in Configs, Found(c, Enabled(sync.rows[c], k)),
             \/ Open(c)
             \/ c \in overtaken
             \/ /\ k = sync.rows[c].config
                /\ sync.rows[c].ctype = "mcp" => schema[c] = sync.rows[c].config
      PROVE  ConnInv'
  <2>1. PICK tools \in SUBSET Tools : tools = Enabled(sync.rows[c], k)
    BY <1>1, EnabledIsTools
  <2>2. s1 = FoundIn(sync, c, tools)
    BY <1>3, <1>4, <2>1 DEF Found, FoundIn
  <2>3. /\ s1 \in Sync /\ s1.todo = sync.todo \ {c} /\ s1.rows = sync.rows
        /\ s1.covers = sync.covers /\ s1.skipped = sync.skipped /\ s1.desired[c] = tools
        /\ \A d \in Conn \ {c} : s1.desired[d] = sync.desired[d]
    BY <1>1, <2>2, FoundFields
  <2>4. \A t \in s1.desired[c] : Permits(sync.rows[c], sync.rows[c].ctype, t)
    BY <1>1, <2>1, <2>3, EnabledPermitted
  <2>5. /\ schema'[c] = schema[c] /\ \A d \in Conn \ {c} : schema'[d] = schema[d]
        /\ \A d \in Conn \ {c} : /\ s1.desired[d] = sync.desired[d]
                               /\ d \in s1.skipped <=> d \in sync.skipped
        /\ c \notin s1.skipped
    BY <1>0, <1>1, <2>3
  <2>6. \/ c \in s1.skipped
        \/ Open(c)
        \/ c \in overtaken
        \/ /\ s1.desired[c] = Enabled(sync.rows[c], sync.rows[c].config)
           /\ sync.rows[c].ctype = "mcp" => schema'[c] = sync.rows[c].config
    BY <1>4, <2>1, <2>3, <2>5
  <2> QED BY <1>0, <1>2, <1>3, <2>3, <2>4, <2>5, <2>6, SyncLooksKeeps
<1>5. CASE sync.rows[c].ctype = "api" /\ Found(c, Enabled(sync.rows[c], sync.rows[c].config))
  <2>1. PICK k \in Configs : k = sync.rows[c].config
    BY <1>1 DEF Row
  <2> QED BY <1>4, <1>5, <2>1
<1>6. CASE /\ sync.rows[c].ctype = "mcp" /\ schema[c] # None
           /\ Found(c, Enabled(sync.rows[c], schema[c]))
  <2>1. PICK k \in Configs : k = schema[c]
    BY <1>6 DEF ConnInv, TypeOK, Configs
  <2>2. ASSUME ~Open(c), c \notin overtaken PROVE k = sync.rows[c].config
    <3>1. Fresh(c) /\ sync.rows[c] = db[c]
      BY <1>1, <2>2, FreshUnlessOvertaken, SnapshotIsRow
    <3> QED BY <1>6, <2>1, <3>1 DEF Fresh, CachesFresh
  <2> QED BY <1>4, <1>6, <2>1, <2>2
<1>7. CASE Skipped(c)
  <2>1. s1 = SkippedIn(sync, c)
    BY <1>3, <1>7 DEF Skipped, SkippedIn
  <2>2. /\ s1 \in Sync /\ s1.todo = sync.todo \ {c} /\ s1.rows = sync.rows
        /\ s1.covers = sync.covers /\ s1.skipped = sync.skipped \cup {c}
        /\ s1.desired = sync.desired
    BY <1>1, <2>1, SkippedFields
  <2> QED BY <1>0, <1>1, <1>2, <1>3, <2>2, SyncLooksKeeps
<1> QED BY <1>5, <1>6, <1>7 DEF SyncKnown

LEMMA FetchFailsKeeps ==
    ASSUME ConnInv, NEW h \in Handlers, FetchFails(h)
    PROVE  ConnInv'
<1>0. /\ fetch[h] # None /\ Held(h)
      /\ UNCHANGED <<db, deleted, connections, schema, registered, guard, history, requests>>
  BY DEF FetchFails, caches, ConnInv
<1>1. CASE guard # h /\ Done(h) /\ UNCHANGED sync
  <2>1. pc[h] \in {"panel", "calling"}
    BY <1>0, <1>1 DEF Held, ConnInv, TypeOK
  <2> QED BY <1>0, <1>1, <2>1, DoneKeeps
<1>2. CASE /\ guard = h /\ Skipped(fetch[h].conn) /\ fetch' = [fetch EXCEPT ![h] = None]
           /\ UNCHANGED <<pc, at, row, allowed>>
  <2>1. fetch[h].conn \in sync.todo
    BY <1>0, <1>2 DEF Held, ConnInv, TypeOK
  <2>2. PICK c \in Conn : c = fetch[h].conn
    BY <1>0 DEF ConnInv, TypeOK, Fetch
  <2>3. /\ guard # None /\ sync \in Sync /\ sync.desired[c] = {}
    BY <1>2, <2>1, <2>2, LooksAt
  <2>4. PICK s1 : s1 = sync'
    OBVIOUS
  <2>5. s1 = SkippedIn(sync, c)
    BY <1>2, <2>2, <2>4 DEF Skipped, SkippedIn
  <2>6. /\ s1 \in Sync /\ s1.todo = sync.todo \ {c} /\ s1.rows = sync.rows
        /\ s1.covers = sync.covers /\ s1.skipped = sync.skipped \cup {c}
        /\ s1.desired = sync.desired
    BY <2>3, <2>5, SkippedFields
  <2>7. schema' \in [Conn -> McpConfigs \cup {None}]
    BY <1>0 DEF ConnInv, TypeOK
  <2>8. /\ c \in sync.todo /\ sync' = s1 /\ c \in s1.skipped /\ s1.desired[c] = {}
        /\ schema'[c] = schema[c] /\ \A d \in Conn \ {c} : schema'[d] = schema[d]
        /\ \A d \in Conn \ {c} : /\ s1.desired[d] = sync.desired[d]
                               /\ d \in s1.skipped <=> d \in sync.skipped
    BY <1>0, <2>1, <2>2, <2>3, <2>4, <2>6
  <2> QED BY <1>0, <1>2, <2>6, <2>7, <2>8, SyncLooksKeeps
<1> QED BY <1>1, <1>2 DEF FetchFails

LEMMA ListedKeeps ==
    ASSUME ConnInv, NEW h \in Handlers, Listed(h)
    PROVE  ConnInv'
<1>0. /\ fetch[h] # None /\ fetch[h].stage = "listing" /\ Held(h) /\ fetch[h] \in Fetch
      /\ UNCHANGED <<db, deleted, connections, registered, guard, history, requests>>
      /\ schema' = [schema EXCEPT ![fetch[h].conn] = fetch[h].config]
  BY DEF Listed, ConnInv, TypeOK
<1>1. CASE pc[h] = "panel" /\ Done(h) /\ UNCHANGED sync
  BY <1>0, <1>1, DoneKeeps
<1>2. CASE /\ guard = h /\ Found(fetch[h].conn, Enabled(sync.rows[fetch[h].conn], fetch[h].config))
           /\ fetch' = [fetch EXCEPT ![h] = None] /\ UNCHANGED <<pc, at, row, allowed>>
  <2>1. fetch[h].conn \in sync.todo /\ fetch[h].config \in McpConfigs
    BY <1>0, <1>2 DEF Held, ConnInv, TypeOK
  <2>2. PICK c \in Conn, k \in McpConfigs : c = fetch[h].conn /\ k = fetch[h].config
    BY <1>0, <2>1 DEF Fetch
  <2>3. /\ guard # None /\ sync \in Sync /\ c \notin sync.skipped
        /\ sync.rows[c] \in Row /\ sync.rows[c] # None /\ sync.rows[c].on
    BY <1>2, <2>1, <2>2, LooksAt
  <2>4. PICK s1 : s1 = sync'
    OBVIOUS
  <2>5. PICK tools \in SUBSET Tools : tools = Enabled(sync.rows[c], k)
    BY <2>3, EnabledIsTools DEF Configs
  <2>6. s1 = FoundIn(sync, c, tools)
    BY <1>2, <2>2, <2>4, <2>5 DEF Found, FoundIn
  <2>7. /\ s1 \in Sync /\ s1.todo = sync.todo \ {c} /\ s1.rows = sync.rows
        /\ s1.covers = sync.covers /\ s1.skipped = sync.skipped /\ s1.desired[c] = tools
        /\ \A d \in Conn \ {c} : s1.desired[d] = sync.desired[d]
    BY <2>3, <2>6, FoundFields
  <2>8. \A t \in s1.desired[c] : Permits(sync.rows[c], sync.rows[c].ctype, t)
    BY <2>3, <2>5, <2>7, EnabledPermitted
  <2>9. /\ schema' \in [Conn -> McpConfigs \cup {None}] /\ schema'[c] = k
        /\ \A d \in Conn \ {c} : schema'[d] = schema[d]
    BY <1>0, <2>2 DEF ConnInv, TypeOK
  <2>10. Fresh(c) => Present(c) /\ k = db[c].config
    BY <1>0, <2>2, FetchIsCurrent
  <2>11. ASSUME ~Open(c), c \notin overtaken PROVE k = sync.rows[c].config
    BY <2>3, <2>10, <2>11, FreshUnlessOvertaken, SnapshotIsRow
  <2>12. \/ Open(c)
         \/ c \in overtaken
         \/ /\ s1.desired[c] = Enabled(sync.rows[c], sync.rows[c].config)
            /\ schema'[c] = sync.rows[c].config
    BY <2>5, <2>7, <2>9, <2>11
  <2>13. /\ c \in sync.todo /\ sync' = s1 /\ c \notin s1.skipped
         /\ \A d \in Conn \ {c} : /\ s1.desired[d] = sync.desired[d]
                                /\ d \in s1.skipped <=> d \in sync.skipped
         /\ Fresh(c) => Present(c) /\ schema'[c] = db[c].config
    BY <2>1, <2>2, <2>3, <2>4, <2>7, <2>9, <2>10
  <2> QED BY <1>0, <1>2, <2>7, <2>8, <2>9, <2>12, <2>13, SyncLooksKeeps
<1> QED BY <1>1, <1>2 DEF Listed

-----------------------------------------------------------------------------
(***************************************************************************)
(* The beginning and the end of a sync, and a dropped handler              *)
(***************************************************************************)
LEMMA SyncBeginKeeps ==
    ASSUME ConnInv, NEW h \in Handlers, SyncBegin(h)
    PROVE  ConnInv'
<1> DEFINE on == {c \in Conn : Present(c) /\ db[c].on}
           s0 == [rows |-> [c \in Conn |-> IF c \in on THEN db[c] ELSE None],
                  todo |-> on, desired |-> [c \in Conn |-> {}], skipped |-> {},
                  covers |-> unsynced]
<1>0. /\ pc[h] = "sync" /\ guard = None /\ sync = None /\ guard' = h /\ unsynced' = {}
      /\ UNCHANGED <<db, deleted, connections, schema, registered, at, row, fetch>>
      /\ UNCHANGED <<overtaken, unreachable, drops, allowed, requests>>
  BY DEF SyncBegin, caches, ConnInv, TypeOK
<1>1. PICK s : s = s0 /\ sync' = s
  BY DEF SyncBegin
<1>2. /\ s.todo = on /\ s.skipped = {} /\ s.covers = unsynced
      /\ \A c \in Conn : /\ s.rows[c] = IF c \in on THEN db[c] ELSE None
                         /\ s.desired[c] = {}
  BY <1>1
<1>3. s \in Sync /\ s # None
  <2>1. /\ [c \in Conn |-> IF c \in on THEN db[c] ELSE None] \in [Conn -> Row \cup {None}]
        /\ [c \in Conn |-> {}] \in [Conn -> SUBSET Tools]
        /\ on \in SUBSET Conn /\ {} \in SUBSET Conn /\ unsynced \in SUBSET Conn
    BY DEF ConnInv, TypeOK
  <2>2. s0 \in Sync
    BY <2>1 DEF Sync
  <2> QED BY <1>1, <2>2, NoneAssumption
<1> HIDE DEF s0
<1>4. /\ pc' \in [Handlers -> Places] /\ pc'[h] = "syncing"
      /\ \A g \in Handlers \ {h} : pc'[g] = pc[g]
  BY DEF SyncBegin, Goes, ConnInv, TypeOK, Places
<1>5. h # None /\ Held(h) /\ at[h] \in At /\ fetch[h] = None
      /\ \A g \in Handlers : pc[g] # "syncing"
  BY <1>0, ConfigAssumption DEF ConnInv, TypeOK, Held
<1>6. TypeOK'
  <2>1. deleted' \subseteq {d \in Conn : ~Present(d)'}
    BY <1>0 DEF ConnInv, TypeOK, Present
  <2>2. \A g \in Handlers : pc'[g] = "syncing" <=> guard' = g
    BY <1>0, <1>4, <1>5
  <2>3. guard' \in Handlers \cup {None} /\ sync' \in Sync \cup {None}
        /\ (guard' = None <=> sync' = None)
    BY <1>0, <1>1, <1>3, <1>5
  <2>4. (overtaken \cup unreachable \cup unsynced)' \subseteq Conn
    BY <1>0 DEF ConnInv, TypeOK
  <2> QED BY <1>0, <1>4, <2>1, <2>2, <2>3, <2>4 DEF ConnInv, TypeOK, Places
<1>7. Frame(h) /\ CallsNotice(h)
  BY <1>0, <1>4, <1>5, ConfigAssumption DEF Frame, CallsNotice
<1>8. SyncInv'
  BY <1>0, <1>1, <1>2, <1>3 DEF SyncInv, Present
<1>9. Held(h)' /\ CallInv(h)'
  BY <1>0, <1>4, <1>5 DEF Held, CallInv, Calling
<1>10. ASSUME NEW c \in Conn PROVE StaleInv(c)'
  <2>1. \A k \in Configs : Current(c, k)' <=> Current(c, k)
    BY <1>0 DEF Current, Present
  <2>2. ~Behind(h, c)'
    BY <1>0, <1>1, <1>2, <1>4, <1>5 DEF Behind, Current, Present
  <2>3. db \in [Conn -> Row \cup {None}]
    BY DEF ConnInv, TypeOK
  <2> QED BY <1>0, <1>7, <2>1, <2>2, <2>3, StaleKept
<1>11. ASSUME NEW c \in Conn PROVE SyncedInv(c)'
  <2>1. RegistryInv(c)'
    <3>1. CASE c \in unsynced
      BY <1>0, <1>1, <1>2, <1>5, <3>1 DEF RegistryInv
    <3>2. CASE \E g \in Handlers : pc[g] \in Changing /\ at[g].conn = c
      <4>1. PICK g \in Handlers : pc[g] \in Changing /\ at[g].conn = c
        BY <3>2
      <4>2. CASE g = h
        BY <1>0, <1>5, <4>1, <4>2 DEF RegistryInv
      <4>3. CASE g # h
        BY <1>0, <1>4, <4>1, <4>3 DEF RegistryInv, Open
      <4> QED BY <4>2, <4>3
    <3>3. CASE Good(c)
      <4>1. Good(c)'
        BY <1>0, <3>3 DEF Good, PermittedOnly, Exact, ToolsOf, Present
      <4> QED BY <4>1 DEF RegistryInv
    <3> QED BY <1>0, <3>1, <3>2, <3>3 DEF ConnInv, SyncedInv, RegistryInv, Open
  <2>2. SnapshotInv(c)'
    BY <1>0, <1>1, <1>2 DEF SnapshotInv, Present
  <2>3. FoundInv(c)'
    BY <1>0, <1>1, <1>2 DEF FoundInv
  <2> QED BY <2>1, <2>2, <2>3 DEF SyncedInv
<1> QED BY <1>6, <1>7, <1>8, <1>9, <1>10, <1>11, StepKeeps

\* What the sync registers of a connector whose change is not open.
LEMMA AppliedIsGood ==
    ASSUME ConnInv, NEW h \in Handlers, SyncApply(h), NEW c \in Conn, ~Open(c)
    PROVE  Good(c)'
<1>0. /\ guard = h /\ sync.todo = {} /\ unreachable' = sync.skipped
      /\ UNCHANGED <<db, schema, overtaken>>
  BY DEF SyncApply, caches
<1>1. guard # None /\ sync # None /\ sync \in Sync /\ db \in [Conn -> Row \cup {None}]
  BY <1>0, ConfigAssumption DEF ConnInv, TypeOK
<1>2. PICK tools \in SUBSET Tools : tools = sync.desired[c]
  BY <1>1 DEF Sync
<1>3. registered'[c] = [t \in Tools |->
            IF t \notin tools THEN None
            ELSE [ctype |-> sync.rows[c].ctype,
                  config |-> IF sync.rows[c].ctype = "api"
                             THEN sync.rows[c].config ELSE schema[c]]]
  BY <1>2 DEF SyncApply
<1>4. \A t \in tools : Permits(sync.rows[c], sync.rows[c].ctype, t)
  BY <1>1, <1>2 DEF ConnInv, SyncInv
<1>5. sync.rows[c] = IF Present(c) /\ db[c].on THEN db[c] ELSE None
  BY <1>1 DEF ConnInv, SyncedInv, SnapshotInv
<1>6. PermittedOnly(c)'
  <2> SUFFICES ASSUME NEW t \in Tools, registered'[c][t] # None
               PROVE  Permits(db[c], db[c].ctype, t)
    BY <1>0 DEF PermittedOnly, Permits
  <2>1. t \in tools
    BY <1>3
  <2> QED BY <1>4, <1>5, <2>1 DEF Permits
<1>7. ASSUME c \notin overtaken PROVE Exact(c)'
  <2> DEFINE Tools1 == IF Present(c) /\ db[c].on /\ c \notin sync.skipped
                       THEN Enabled(db[c], db[c].config) ELSE {}
  <2>1. ToolsOf(c)' = Tools1
    BY <1>0 DEF ToolsOf, Enabled, Present
  <2>2. CASE tools = {} /\ Tools1 = {}
    <3>1. registered'[c] = [t \in Tools |-> None]
      BY <1>3, <2>2
    <3> QED BY <2>1, <2>2, <3>1 DEF Exact
  <2>3. CASE c \in sync.skipped
    <3>1. tools = {}
      BY <1>1, <1>2, <2>3 DEF ConnInv, SyncInv
    <3> QED BY <2>2, <2>3, <3>1
  <2>4. CASE ~(Present(c) /\ db[c].on)
    <3>1. tools = {}
      BY <1>4, <1>5, <2>4 DEF Permits
    <3> QED BY <2>2, <2>4, <3>1
  <2>5. CASE c \notin sync.skipped /\ Present(c) /\ db[c].on
    <3>1. sync.rows[c] = db[c] /\ db[c] # None /\ db[c] \in Row
      BY <1>1, <1>5, <2>5 DEF Present
    <3>2. /\ tools = Enabled(db[c], db[c].config)
          /\ db[c].ctype = "mcp" => schema[c] = db[c].config
      BY <1>0, <1>1, <1>2, <1>7, <2>5, <3>1 DEF ConnInv, SyncedInv, FoundInv
    <3>3. db[c].ctype \in {"api", "mcp"}
      BY <3>1 DEF Row
    <3>4. (IF db[c].ctype = "api" THEN db[c].config ELSE schema[c]) = db[c].config
      BY <3>2, <3>3
    <3>5. registered'[c] = [t \in Tools |->
              IF t \in tools THEN [ctype |-> db[c].ctype, config |-> db[c].config] ELSE None]
      BY <1>3, <3>1, <3>4
    <3>6. ToolsOf(c)' = tools
      BY <2>1, <2>5, <3>2
    <3> QED BY <1>0, <3>5, <3>6 DEF Exact
  <2> QED BY <2>3, <2>4, <2>5
<1> QED BY <1>0, <1>6, <1>7 DEF Good

LEMMA SyncApplyKeeps ==
    ASSUME ConnInv, NEW h \in Handlers, SyncApply(h)
    PROVE  ConnInv'
<1>0. /\ guard = h /\ guard' = None /\ sync' = None /\ Done(h) /\ unreachable' = sync.skipped
      /\ UNCHANGED <<db, deleted, connections, schema, overtaken, unsynced, drops, requests>>
  BY DEF SyncApply, caches
<1>1. /\ guard # None /\ sync # None /\ sync \in Sync /\ pc[h] = "syncing"
      /\ \A g \in Handlers : g # None /\ (pc[g] = "syncing" <=> g = h)
  BY <1>0, ConfigAssumption DEF ConnInv, TypeOK
<1>2. /\ pc'[h] = "idle" /\ at'[h] = None /\ row'[h] = None /\ fetch'[h] = None
      /\ \A g \in Handlers \ {h} : /\ pc'[g] = pc[g] /\ at'[g] = at[g] /\ row'[g] = row[g]
                                   /\ fetch'[g] = fetch[g] /\ allowed'[g] = allowed[g]
  BY <1>0 DEF Done, Goes, ConnInv, TypeOK
<1>3. TypeOK'
  <2>1. /\ pc' \in [Handlers -> {"idle", "loaded", "tool", "written", "sync", "syncing",
                                 "panel", "resolved", "checked", "calling"}]
        /\ at' \in [Handlers -> At \cup {None}]
        /\ row' \in [Handlers -> Row \cup {None}]
        /\ fetch' \in [Handlers -> Fetch \cup {None}]
        /\ allowed' \in [Handlers -> BOOLEAN]
    BY <1>0 DEF Done, Goes, ConnInv, TypeOK
  <2>2. registered' \in [Conn -> [Tools -> Registration \cup {None}]]
    <3>1. ASSUME NEW c \in Conn, NEW t \in sync.desired[c]
          PROVE  [ctype |-> sync.rows[c].ctype,
                  config |-> IF sync.rows[c].ctype = "api"
                             THEN sync.rows[c].config ELSE schema[c]] \in Registration
      <4>1. sync.rows[c] # None
        BY <1>1, <3>1 DEF ConnInv, SyncInv, Permits
      <4>2. sync.rows[c] \in Row
        BY <1>1, <4>1 DEF Sync
      <4>3. sync.rows[c].ctype \in {"api", "mcp"} /\ sync.rows[c].config \in Configs
        BY <4>2 DEF Row
      <4>4. schema[c] \in Configs \cup {None}
        BY DEF ConnInv, TypeOK, Configs
      <4> QED BY <4>3, <4>4 DEF Registration
    <3> QED BY <3>1 DEF SyncApply
  <2>3. deleted' \subseteq {c \in Conn : ~Present(c)'}
    BY <1>0 DEF ConnInv, TypeOK, Present
  <2>4. \A g \in Handlers : pc'[g] = "syncing" <=> guard' = g
    BY <1>0, <1>1, <1>2
  <2>5. (overtaken \cup unreachable \cup unsynced)' \subseteq Conn
    BY <1>0, <1>1 DEF ConnInv, TypeOK, Sync
  <2> QED BY <1>0, <2>1, <2>2, <2>3, <2>4, <2>5 DEF ConnInv, TypeOK
<1>4. Frame(h) /\ CallsNotice(h)
  BY <1>0, <1>1, <1>2 DEF Frame, CallsNotice
<1>5. SyncInv' /\ Held(h)' /\ CallInv(h)'
  BY <1>0, <1>2 DEF SyncInv, Held, CallInv, Calling
<1>6. ASSUME NEW c \in Conn PROVE StaleInv(c)'
  <2>1. \A k \in Configs : Current(c, k)' <=> Current(c, k)
    BY <1>0 DEF Current, Present
  <2>2. ~Behind(h, c)'
    BY <1>0, <1>1, <1>2 DEF Behind
  <2>3. db \in [Conn -> Row \cup {None}]
    BY DEF ConnInv, TypeOK
  <2> QED BY <1>0, <1>1, <1>4, <2>1, <2>2, <2>3, StaleKept
<1>7. ASSUME NEW c \in Conn PROVE SyncedInv(c)'
  <2>1. Open(c) => Open(c)'
    BY <1>0, <1>1, <1>2 DEF Open, Changing
  <2>2. Open(c)' \/ Good(c)'
    BY <2>1, AppliedIsGood
  <2> QED BY <1>0, <2>2 DEF SyncedInv, RegistryInv, SnapshotInv, FoundInv
<1> QED BY <1>3, <1>4, <1>5, <1>6, <1>7, StepKeeps

LEMMA DropKeeps ==
    ASSUME ConnInv, NEW h \in Handlers, Drop(h)
    PROVE  ConnInv'
<1>0. /\ pc[h] # "idle" /\ drops < MaxDrops /\ drops' = drops + 1 /\ Done(h)
      /\ guard' = IF guard = h THEN None ELSE guard
      /\ sync' = IF guard = h THEN None ELSE sync
      /\ UNCHANGED <<db, deleted, connections, schema, registered, unreachable, requests>>
  BY DEF Drop, caches
<1>1. /\ at[h] \in At /\ h # None
      /\ \A g \in Handlers : g # None /\ (pc[g] = "syncing" <=> guard = g)
      /\ guard = None <=> sync = None
  BY <1>0, ConfigAssumption DEF ConnInv, TypeOK, Held
<1>2. PICK c \in Conn : c = at[h].conn
  BY <1>1 DEF At
<1>3. /\ unsynced' = unsynced
           \cup (IF pc[h] \in {"written", "sync", "syncing"} THEN {c} ELSE {})
           \cup (IF guard = h THEN sync.covers ELSE {})
      /\ overtaken' = IF pc[h] = "written" THEN overtaken \cup {c} ELSE overtaken
  BY <1>2 DEF Drop
<1>4. /\ pc'[h] = "idle" /\ at'[h] = None /\ row'[h] = None /\ fetch'[h] = None
      /\ \A g \in Handlers \ {h} : /\ pc'[g] = pc[g] /\ at'[g] = at[g] /\ row'[g] = row[g]
                                   /\ fetch'[g] = fetch[g] /\ allowed'[g] = allowed[g]
  BY <1>0 DEF Done, Goes, ConnInv, TypeOK
<1>5. guard = h => sync # None /\ sync \in Sync /\ sync.covers \subseteq Conn
  BY <1>1 DEF ConnInv, TypeOK, Sync
<1>6. TypeOK'
  <2>1. /\ pc' \in [Handlers -> {"idle", "loaded", "tool", "written", "sync", "syncing",
                                 "panel", "resolved", "checked", "calling"}]
        /\ at' \in [Handlers -> At \cup {None}]
        /\ row' \in [Handlers -> Row \cup {None}]
        /\ fetch' \in [Handlers -> Fetch \cup {None}]
        /\ allowed' \in [Handlers -> BOOLEAN]
    BY <1>0 DEF Done, Goes, ConnInv, TypeOK
  <2>2. drops' \in 0..MaxDrops
    BY <1>0, ConfigAssumption DEF ConnInv, TypeOK
  <2>3. deleted' \subseteq {d \in Conn : ~Present(d)'}
    BY <1>0 DEF ConnInv, TypeOK, Present
  <2>4. \A g \in Handlers : pc'[g] = "syncing" <=> guard' = g
    BY <1>0, <1>1, <1>4
  <2>5. (overtaken \cup unreachable \cup unsynced)' \subseteq Conn
    BY <1>0, <1>3, <1>5 DEF ConnInv, TypeOK
  <2>6. /\ guard' \in Handlers \cup {None} /\ sync' \in Sync \cup {None}
        /\ guard' = None <=> sync' = None
    BY <1>0, <1>1 DEF ConnInv, TypeOK
  <2> QED BY <1>0, <2>1, <2>2, <2>3, <2>4, <2>5, <2>6 DEF ConnInv, TypeOK
<1>7. Frame(h) /\ CallsNotice(h)
  BY <1>0, <1>1, <1>4 DEF Frame, CallsNotice
<1>8. SyncInv' /\ Held(h)' /\ CallInv(h)'
  BY <1>0, <1>4 DEF ConnInv, SyncInv, Held, CallInv, Calling
<1>9. ASSUME NEW d \in Conn PROVE StaleInv(d)'
  <2>1. \A k \in Configs : Current(d, k)' <=> Current(d, k)
    BY <1>0 DEF Current, Present
  <2>2. ~Behind(h, d)'
    BY <1>0, <1>1, <1>4 DEF Behind
  <2>3. db \in [Conn -> Row \cup {None}]
    BY DEF ConnInv, TypeOK
  <2> QED BY <1>0, <1>2, <1>3, <1>7, <2>1, <2>2, <2>3, StaleKept
<1>10. ASSUME NEW d \in Conn PROVE SyncedInv(d)'
  <2>1. Open(d) => Open(d)'
    <3>1. CASE d \in unsynced
      BY <1>3, <3>1 DEF Open
    <3>2. CASE \E g \in Handlers : pc[g] \in Changing /\ at[g].conn = d
      <4>1. PICK g \in Handlers : pc[g] \in Changing /\ at[g].conn = d
        BY <3>2
      <4> QED BY <1>2, <1>3, <1>4, <4>1 DEF Open, Changing
    <3> QED BY <3>1, <3>2 DEF Open
  <2>2. CASE guard = h
    <3>1. pc[h] = "syncing"
      BY <1>1, <2>2
    <3>2. (d \in sync.covers \/ d = at[guard].conn) => Open(d)'
      BY <1>2, <1>3, <2>2, <3>1 DEF Open
    <3>3. Good(d) => Good(d)'
      BY <1>0, <1>3, <3>1 DEF Good, PermittedOnly, Exact, ToolsOf, Present
    <3> QED BY <1>0, <2>1, <2>2, <3>2, <3>3
            DEF ConnInv, SyncedInv, RegistryInv, SnapshotInv, FoundInv
  <2>3. CASE guard # h
    <3>1. guard # None => at'[guard] = at[guard]
      BY <1>4, <2>3 DEF ConnInv, TypeOK
    <3>2. d \in overtaken => d \in overtaken'
      BY <1>3
    <3> QED BY <1>0, <2>1, <2>3, <3>1, <3>2, SyncedKept
  <2> QED BY <2>2, <2>3
<1> QED BY <1>6, <1>7, <1>8, <1>9, <1>10, StepKeeps

-----------------------------------------------------------------------------
(***************************************************************************)
(* The invariant                                                           *)
(***************************************************************************)
LEMMA ConnInitially ==
    ASSUME Init PROVE ConnInv
<1>0. /\ guard = None /\ sync = None /\ deleted = {} /\ overtaken = {} /\ unsynced = {}
      /\ \A h \in Handlers : pc[h] = "idle" /\ fetch[h] = None /\ h # None
  BY ConfigAssumption DEF Init
<1>1. ASSUME NEW c \in Conn, Present(c)
      PROVE  /\ db[c] \in Row /\ db[c].config \in McpConfigs /\ db[c].ctype = "mcp"
             /\ db[c].flags = {} /\ db[c].states = {} /\ db[c].on
  <2>1. PICK k \in McpConfigs :
          db[c] = [ctype |-> "mcp", config |-> k, flags |-> {}, states |-> {}, on |-> TRUE]
    BY <1>1 DEF Init, Present
  <2> QED BY <2>1 DEF Row, Configs
<1>2. ASSUME NEW c \in Conn
      PROVE  /\ connections[c] = IF Present(c) /\ c \notin unreachable THEN db[c].config ELSE None
             /\ schema[c] = connections[c]
             /\ registered[c] = [t \in Tools |->
                        IF schema[c] # None /\ t \in Offers[schema[c]]
                        THEN [ctype |-> "mcp", config |-> schema[c]] ELSE None]
  BY DEF Init
<1>3. TypeOK
  <2>1. db \in [Conn -> Row \cup {None}]
    BY <1>1 DEF Init, Present
  <2>2. connections \in [Conn -> McpConfigs \cup {None}] /\ schema \in [Conn -> McpConfigs \cup {None}]
    BY <1>1, <1>2 DEF Init
  <2>3. registered \in [Conn -> [Tools -> Registration \cup {None}]]
    <3>1. ASSUME NEW c \in Conn, schema[c] # None
          PROVE  [ctype |-> "mcp", config |-> schema[c]] \in Registration
      BY <2>2, <3>1 DEF Registration, Configs
    <3> QED BY <3>1 DEF Init
  <2>4. unreachable \subseteq Conn /\ requests \in 0..MaxRequests /\ drops \in 0..MaxDrops
    BY ConfigAssumption DEF Init
  <2>5. /\ pc \in [Handlers -> {"idle", "loaded", "tool", "written", "sync", "syncing",
                                "panel", "resolved", "checked", "calling"}]
        /\ at \in [Handlers -> At \cup {None}]
        /\ row \in [Handlers -> Row \cup {None}]
        /\ fetch \in [Handlers -> Fetch \cup {None}]
        /\ allowed \in [Handlers -> BOOLEAN]
    BY DEF Init
  <2> QED BY <1>0, <2>1, <2>2, <2>3, <2>4, <2>5 DEF TypeOK
<1>4. SyncInv /\ \A h \in Handlers : Held(h) /\ CallInv(h)
  BY <1>0 DEF SyncInv, Held, CallInv, Calling
<1>5. ASSUME NEW c \in Conn PROVE StaleInv(c)
  <2>1. CachesFresh(c)
    BY <1>2 DEF CachesFresh
  <2>2. \A h \in Handlers : ~Behind(h, c)
    BY <1>0 DEF Behind
  <2> QED BY <2>1, <2>2 DEF StaleInv, Fresh
<1>6. ASSUME NEW c \in Conn PROVE SyncedInv(c)
  <2>1. PermittedOnly(c)
    <3>1. ASSUME NEW t \in Tools, registered[c][t] # None PROVE Permits(db[c], db[c].ctype, t)
      <4>1. schema[c] # None
        BY <1>2, <3>1
      <4>2. Present(c)
        BY <1>2, <4>1
      <4>3. db[c] # None /\ db[c].on /\ db[c].states = {} /\ db[c].ctype = "mcp"
        BY <1>1, <4>2 DEF Present
      <4> QED BY <4>3 DEF Permits
    <3> QED BY <3>1 DEF PermittedOnly
  <2>2. Exact(c)
    <3>1. CASE Present(c) /\ c \notin unreachable
      <4>1. PICK k \in McpConfigs : k = db[c].config
        BY <1>1, <3>1
      <4>2. k \notin ApiConfigs /\ k # None
        BY <4>1, ConfigAssumption DEF Configs
      <4>3. schema[c] = k /\ schema[c] # None
        BY <1>2, <3>1, <4>1, <4>2
      <4>4. ToolsOf(c) = Offers[k]
        BY <1>1, <3>1, <4>1, <4>2 DEF ToolsOf, Enabled, Kind
      <4> QED BY <1>1, <1>2, <3>1, <4>1, <4>3, <4>4 DEF Exact
    <3>2. CASE ~(Present(c) /\ c \notin unreachable)
      <4>1. schema[c] = None /\ ToolsOf(c) = {}
        BY <1>2, <3>2 DEF ToolsOf
      <4> QED BY <1>2, <4>1 DEF Exact
    <3> QED BY <3>1, <3>2
  <2> QED BY <1>0, <2>1, <2>2 DEF SyncedInv, RegistryInv, SnapshotInv, FoundInv, Good
<1> QED BY <1>3, <1>4, <1>5, <1>6 DEF ConnInv

LEMMA StutterKeeps ==
    ASSUME ConnInv, UNCHANGED vars PROVE ConnInv'
<1>0. /\ UNCHANGED <<db, deleted, connections, schema, registered, guard, sync, pc, at, row>>
      /\ UNCHANGED <<fetch, overtaken, unreachable, unsynced, drops, allowed, requests>>
  BY DEF vars, caches, history
<1>1. TypeOK'
  <2>1. deleted' \subseteq {c \in Conn : ~Present(c)'}
    BY <1>0 DEF ConnInv, TypeOK, Present
  <2> QED BY <1>0, <2>1 DEF ConnInv, TypeOK
<1>2. SyncInv' /\ \A h \in Handlers : Held(h)' /\ CallInv(h)'
  BY <1>0 DEF ConnInv, SyncInv, Held, CallInv, Calling
<1>3. ASSUME NEW c \in Conn PROVE StaleInv(c)'
  <2>1. \A h \in Handlers : Behind(h, c)' <=> Behind(h, c)
    BY <1>0 DEF Behind, Current, Present
  <2> QED BY <1>0, <2>1 DEF ConnInv, StaleInv, Written, Fresh, CachesFresh, Present
<1>4. ASSUME NEW c \in Conn PROVE SyncedInv(c)'
  <2>1. Open(c)' <=> Open(c)
    BY <1>0 DEF Open
  <2> QED BY <1>0, <2>1, SyncedKept
<1> QED BY <1>1, <1>2, <1>3, <1>4 DEF ConnInv

LEMMA ConnStep ==
    ASSUME ConnInv, [Next]_vars PROVE ConnInv'
<1>1. ASSUME NEW h \in Handlers, Request(h) PROVE ConnInv'
  BY <1>1, CreateKeeps, UpdateLoadKeeps, DeleteKeeps, ToggleKeeps, ToolLoadKeeps, PanelKeeps,
     CallResolveKeeps DEF Request
<1>2. ASSUME NEW h \in Handlers, Step(h) PROVE ConnInv'
  BY <1>2, UpdateWriteKeeps, ToolWriteKeeps, InvalidateKeeps, SyncBeginKeeps, SyncApplyKeeps,
     SyncKnownKeeps, SyncFetchKeeps, FetchFailsKeeps, PanelFetchKeeps, PanelAnswersKeeps,
     CallLoadKeeps, CallStartsKeeps, CallRefusedKeeps DEF Step
<1>3. ASSUME NEW h \in Handlers, Answer(h) PROVE ConnInv'
  BY <1>3, ConnectedKeeps, ListedKeeps, CallReturnsKeeps DEF Answer
<1> QED BY <1>1, <1>2, <1>3, DropKeeps, StutterKeeps DEF Next

\* The inductive invariant holds in every reachable state, whatever the
\* handlers of router/connectors.rs, the syncs and the servers do.
THEOREM ConnInvariance == Spec => []ConnInv
<1>1. Init => ConnInv
  BY ConnInitially
<1>2. ConnInv /\ [Next]_vars => ConnInv'
  BY ConnStep
<1> QED BY <1>1, <1>2, PTL DEF Spec

\* Types, and sync_guard is held by the handler that syncs and by no other.
THEOREM TypeCorrect == Spec => []TypeOK
<1>1. ConnInv => TypeOK
  BY DEF ConnInv
<1> QED BY <1>1, ConnInvariance, PTL

\* When no change is under way, sync_registry has left in the registry what the
\* table permits and the configurations offer, unless a change lost its sync, a
\* server could not be reached, or older data came in between.
THEOREM ReconciledAlways == Spec => []Reconciled
<1>1. ConnInv => Reconciled
  BY InvariantIsStronger
<1> QED BY <1>1, ConnInvariance, PTL

\* What invalidate_connector dropped comes back stale only through a request
\* that held older data at that moment.
THEOREM StaleOnlyIfOvertakenAlways == Spec => []StaleOnlyIfOvertaken
<1>1. ConnInv => StaleOnlyIfOvertaken
  BY InvariantIsStronger
<1> QED BY <1>1, ConnInvariance, PTL

\* A tool that execute_tool runs was enabled at some moment since the call was
\* looked up in the index.
THEOREM DisabledNeverRunsAlways == Spec => []DisabledNeverRuns
<1>1. ConnInv => DisabledNeverRuns
  BY InvariantIsStronger
<1> QED BY <1>1, ConnInvariance, PTL
===============================================================================
