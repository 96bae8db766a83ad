------------------------------ MODULE Connectors ------------------------------
(***************************************************************************)
(* ConnectorManager and the handlers of router/connectors.rs: connectors   *)
(* are rows of a table, their tools are registered for the language model, *)
(* and the clients and the tool lists of MCP servers are cached.  Every    *)
(* handler is a process that can be dropped at any await; the database,    *)
(* the two caches and the registry are changed one after the other.        *)
(*                                                                         *)
(* A configuration stands for a whole config_json: Offers says which tools *)
(* it declares (API) or its server lists (MCP).  Owners are left out: the  *)
(* name of a tool contains the id of its connector, which has one owner.   *)
(***************************************************************************)
EXTENDS Naturals, FiniteSets

CONSTANTS
    Conn,        \* connector ids
    Handlers,    \* requests at a time
    Tools,
    ApiConfigs,  \* configurations of an HTTP API
    McpConfigs,  \* configurations of an MCP server
    Offers,      \* the tools of a configuration
    None,
    MaxRequests, \* bound: requests in all
    MaxDrops     \* bound: handlers dropped because their client went away

Configs == ApiConfigs \cup McpConfigs

ASSUME ConfigAssumption ==
    /\ ApiConfigs \cap McpConfigs = {}
    /\ Offers \in [Configs -> SUBSET Tools]
    /\ None \notin Configs \cup Handlers \cup Conn
    /\ MaxRequests \in Nat
    /\ MaxDrops \in Nat

\* flags: tools switched off inside config_json (API); states: in tool_states (MCP).
Row == [ctype : {"api", "mcp"}, config : Configs, flags : SUBSET Tools,
        states : SUBSET Tools, on : BOOLEAN]

At == [conn : Conn, tool : Tools \cup {None}, on : BOOLEAN, ctype : {"api", "mcp"}]

Fetch == [stage : {"connecting", "listing", "calling"}, config : Configs, conn : Conn]

Registration == [ctype : {"api", "mcp"}, config : Configs \cup {None}]

\* The locals of sync_registry.
Sync == [rows : [Conn -> Row \cup {None}],
         todo : SUBSET Conn,               \* connectors it has yet to look at
         desired : [Conn -> SUBSET Tools],
         skipped : SUBSET Conn,
         covers : SUBSET Conn]             \* history: what earlier syncs had missed

ASSUME NoneAssumption == None \notin Row \cup At \cup Fetch \cup Registration \cup Sync

VARIABLES
    db,          \* the table connectors
    deleted,     \* ids that were deleted: an id is a fresh UUID, never used again
    connections, \* the configuration that the cached client was started with
    schema,      \* the configuration whose tool list is cached
    registered,  \* tool_index and the dynamic part of the registry
    guard,       \* who holds sync_guard
    sync,        \* locals of the running sync_registry
    pc, at, row, \* per handler: position, its connector and tool, its copy of the row
    fetch,       \* per handler: the connection or listing it waits for
    overtaken,   \* history: c's caches were dropped while someone held older data
    unreachable, \* history: connectors that the last sync skipped
    unsynced,    \* history: connectors whose change was not followed by a sync
    allowed,     \* history: the tool was enabled at a moment of this call
    requests,    \* requests so far
    drops

caches == <<connections, schema>>
history == <<overtaken, unreachable, unsynced, drops>>
vars == <<db, deleted, caches, registered, guard, sync, pc, at, row, fetch,
          history, allowed, requests>>

Kind(k) == IF k \in ApiConfigs THEN "api" ELSE "mcp"

Present(c) == db[c] # None

\* The enabled tools of a row whose server lists the tools of configuration k.
Enabled(r, k) ==
    IF Kind(k) # r.ctype THEN {}
    ELSE IF r.ctype = "api" THEN Offers[k] \ r.flags ELSE Offers[k] \ r.states

\* What the row alone says about a tool of that type, whoever offers it.
Permits(r, type, t) ==
    /\ r # None
    /\ r.on
    /\ t \notin (IF type = "api" THEN r.flags ELSE r.states)

\* The server has started: its sync reached some servers and not others.
Init ==
    /\ db \in [Conn -> {None} \cup
                 {[ctype |-> "mcp", config |-> k, flags |-> {}, states |-> {}, on |-> TRUE] :
                    k \in McpConfigs}]
    /\ unreachable \in SUBSET {c \in Conn : Present(c)}
    /\ connections = [c \in Conn |-> IF Present(c) /\ c \notin unreachable
                                      THEN db[c].config ELSE None]
    /\ schema = connections
    /\ registered = [c \in Conn |-> [t \in Tools |->
                        IF schema[c] # None /\ t \in Offers[schema[c]]
                        THEN [ctype |-> "mcp", config |-> schema[c]] ELSE None]]
    /\ deleted = {}
    /\ guard = None
    /\ sync = None
    /\ pc = [h \in Handlers |-> "idle"]
    /\ at = [h \in Handlers |-> None]
    /\ row = [h \in Handlers |-> None]
    /\ fetch = [h \in Handlers |-> None]
    /\ overtaken = {}
    /\ unsynced = {}
    /\ allowed = [h \in Handlers |-> FALSE]
    /\ requests = 0
    /\ drops = 0

(***************************************************************************)
(* Parts of actions                                                        *)
(***************************************************************************)
Calling(h) == pc[h] \in {"resolved", "checked", "calling"}

\* One statement on the table; calls in flight notice what it permits.
Write(c, r) ==
    /\ db' = [db EXCEPT ![c] = r]
    /\ allowed' = [h \in Handlers |->
                    \/ allowed[h]
                    \/ Calling(h) /\ at[h].conn = c /\ Permits(r, at[h].ctype, at[h].tool)]

Goes(h, p) == pc' = [pc EXCEPT ![h] = p]

Arrives(h, c, t, type, on) ==
    /\ pc[h] = "idle"
    /\ requests < MaxRequests
    /\ requests' = requests + 1
    /\ at' = [at EXCEPT ![h] = [conn |-> c, tool |-> t, on |-> on, ctype |-> type]]

\* The answer is sent; what the handler held is gone.
Done(h) ==
    /\ Goes(h, "idle")
    /\ at' = [at EXCEPT ![h] = None]
    /\ row' = [row EXCEPT ![h] = None]
    /\ fetch' = [fetch EXCEPT ![h] = None]
    /\ allowed' = [allowed EXCEPT ![h] = FALSE]

(***************************************************************************)
(* Handlers that change the table                                          *)
(***************************************************************************)
Create(h, c, k, f) ==
    /\ ~Present(c)
    /\ c \notin deleted
    /\ Arrives(h, c, None, "mcp", TRUE)
    /\ Write(c, [ctype |-> Kind(k), config |-> k, flags |-> f, states |-> {}, on |-> TRUE])
    /\ Goes(h, "sync")
    /\ UNCHANGED <<deleted, caches, registered, guard, sync, row, fetch, history>>

\* update_connector reads the row for the fields it keeps ...
UpdateLoad(h, c, k, f) ==
    /\ Present(c)
    /\ Arrives(h, c, None, "mcp", TRUE)
    /\ row' = [row EXCEPT ![h] =
                [ctype |-> Kind(k), config |-> k, flags |-> f,
                 states |-> IF db[c].ctype = Kind(k) THEN db[c].states ELSE {},
                 on |-> db[c].on]]
    /\ Goes(h, "loaded")
    /\ UNCHANGED <<db, deleted, caches, registered, guard, sync, fetch, history, allowed>>

\* ... and writes the whole row, if it is still there.
UpdateWrite(h) ==
    /\ pc[h] = "loaded"
    /\ \/ /\ Present(at[h].conn)
          /\ Write(at[h].conn, row[h])
          /\ Goes(h, "written")
          /\ row' = [row EXCEPT ![h] = None]
          /\ UNCHANGED <<at, fetch>>
       \/ /\ ~Present(at[h].conn)
          /\ Done(h)
          /\ UNCHANGED db
    /\ UNCHANGED <<deleted, caches, registered, guard, sync, history, requests>>

Delete(h, c) ==
    /\ Present(c)
    /\ Arrives(h, c, None, "mcp", TRUE)
    /\ Write(c, None)
    /\ deleted' = deleted \cup {c}
    /\ Goes(h, "written")
    /\ UNCHANGED <<caches, registered, guard, sync, row, fetch, history>>

Toggle(h, c, on) ==
    /\ Present(c)
    /\ Arrives(h, c, None, "mcp", on)
    /\ Write(c, [db[c] EXCEPT !.on = on])
    /\ Goes(h, "written")
    /\ UNCHANGED <<deleted, caches, registered, guard, sync, row, fetch, history>>

\* set_tool_enabled: one statement reads the row, another writes a part of it.
ToolLoad(h, c, t, on) ==
    /\ Present(c)
    /\ db[c].ctype = "api" => Kind(db[c].config) = "api" /\ t \in Offers[db[c].config]
    /\ Arrives(h, c, t, "mcp", on)
    /\ row' = [row EXCEPT ![h] = db[c]]
    /\ Goes(h, "tool")
    /\ UNCHANGED <<db, deleted, caches, registered, guard, sync, fetch, history, allowed>>

Switched(h, set) == IF at[h].on THEN set \ {at[h].tool} ELSE set \cup {at[h].tool}

\* The column of the type that was read: the whole config_json, or tool_states.
ToolWritten(h, r) ==
    IF row[h].ctype = "api"
    THEN [r EXCEPT !.config = row[h].config, !.flags = Switched(h, row[h].flags)]
    ELSE [r EXCEPT !.states = Switched(h, row[h].states)]

\* Mutated form of ToolWrite: the handler answers without a sync.
ToolWriteUnsynced(h) ==
    /\ pc[h] = "tool"
    /\ LET c == at[h].conn IN
       /\ IF Present(c)
          THEN /\ Write(c, ToolWritten(h, db[c]))
               /\ overtaken' = IF ToolWritten(h, db[c]).config = db[c].config
                               THEN overtaken ELSE overtaken \cup {c}
          ELSE UNCHANGED <<db, allowed, overtaken>>
    /\ row' = [row EXCEPT ![h] = None]
    /\ Goes(h, "idle")
    /\ UNCHANGED <<deleted, caches, registered, guard, sync, at, fetch,
                   unreachable, unsynced, drops, requests>>

ToolWrite(h) ==
    /\ pc[h] = "tool"
    /\ LET c == at[h].conn IN
       /\ IF Present(c)
          THEN /\ Write(c, ToolWritten(h, db[c]))
               /\ overtaken' = IF ToolWritten(h, db[c]).config = db[c].config
                               THEN overtaken ELSE overtaken \cup {c}
          ELSE UNCHANGED <<db, allowed, overtaken>>
    /\ row' = [row EXCEPT ![h] = None]
    /\ Goes(h, "sync")
    /\ UNCHANGED <<deleted, caches, registered, guard, sync, at, fetch,
                   unreachable, unsynced, drops, requests>>

\* Someone still works on an MCP configuration of c that is no longer the row's.
Current(c, k) == Present(c) /\ db[c].config = k

Behind(h, c) ==
    \/ fetch[h] # None /\ fetch[h].conn = c /\ ~Current(c, fetch[h].config)
    \/ /\ pc[h] \in {"panel", "checked"} /\ at[h].conn = c
       /\ ~Current(c, row[h].config)
    \/ guard = h /\ c \in sync.todo /\ ~Current(c, sync.rows[c].config)

\* Mutated form of Invalidate: only the client is dropped, not its tool list.
InvalidateClient(h) ==
    /\ pc[h] = "written"
    /\ LET c == at[h].conn IN
       /\ connections' = [connections EXCEPT ![c] = None]
       /\ schema' = schema
       /\ overtaken' = IF \E g \in Handlers : Behind(g, c)
                       THEN overtaken \cup {c} ELSE overtaken \ {c}
    /\ Goes(h, "sync")
    /\ UNCHANGED <<db, deleted, registered, guard, sync, at, row, fetch,
                   unreachable, unsynced, drops, allowed, requests>>

Invalidate(h) ==
    /\ pc[h] = "written"
    /\ LET c == at[h].conn IN
       /\ connections' = [connections EXCEPT ![c] = None]
       /\ schema' = [schema EXCEPT ![c] = None]
       /\ overtaken' = IF \E g \in Handlers : Behind(g, c)
                       THEN overtaken \cup {c} ELSE overtaken \ {c}
    /\ Goes(h, "sync")
    /\ UNCHANGED <<db, deleted, registered, guard, sync, at, row, fetch,
                   unreachable, unsynced, drops, allowed, requests>>

(***************************************************************************)
(* sync_registry                                                           *)
(***************************************************************************)
SyncBegin(h) ==
    /\ pc[h] = "sync"
    /\ guard = None
    /\ guard' = h
    /\ LET on == {c \in Conn : Present(c) /\ db[c].on} IN
       sync' = [rows |-> [c \in Conn |-> IF c \in on THEN db[c] ELSE None],
                todo |-> on,
                desired |-> [c \in Conn |-> {}],
                skipped |-> {},
                covers |-> unsynced]
    /\ unsynced' = {}
    /\ Goes(h, "syncing")
    /\ UNCHANGED <<db, deleted, caches, registered, at, row, fetch,
                   overtaken, unreachable, drops, allowed, requests>>

\* The tools that one connector contributes.
Found(c, tools) ==
    sync' = [sync EXCEPT !.todo = @ \ {c}, !.desired[c] = tools]

Skipped(c) ==
    sync' = [sync EXCEPT !.todo = @ \ {c}, !.skipped = @ \cup {c}]

SyncKnown(h, c) ==
    /\ guard = h
    /\ fetch[h] = None
    /\ c \in sync.todo
    /\ LET r == sync.rows[c] IN
       \/ r.ctype = "api" /\ Found(c, Enabled(r, r.config))
       \/ r.ctype = "mcp" /\ schema[c] # None /\ Found(c, Enabled(r, schema[c]))
       \/ /\ r.ctype = "mcp" /\ schema[c] = None /\ connections[c] = None
          /\ Kind(r.config) = "api"      \* "Invalid MCP config"
          /\ Skipped(c)
    /\ UNCHANGED <<db, deleted, caches, registered, guard, pc, at, row, fetch,
                   history, allowed, requests>>

\* mcp_tools and get_or_connect: a listing through the cached client, or a new client.
Fetches(h, c, k) ==
    /\ fetch[h] = None
    /\ schema[c] = None
    /\ \/ /\ connections[c] # None
          /\ fetch' = [fetch EXCEPT ![h] =
                        [stage |-> "listing", config |-> connections[c], conn |-> c]]
       \/ /\ connections[c] = None
          /\ Kind(k) = "mcp"
          /\ fetch' = [fetch EXCEPT ![h] =
                        [stage |-> "connecting", config |-> k, conn |-> c]]

SyncFetch(h, c) ==
    /\ guard = h
    /\ c \in sync.todo
    /\ sync.rows[c].ctype = "mcp"
    /\ Fetches(h, c, sync.rows[c].config)
    /\ UNCHANGED <<db, deleted, caches, registered, guard, sync, pc, at, row,
                   history, allowed, requests>>

Connected(h) ==
    /\ fetch[h] # None
    /\ fetch[h].stage = "connecting"
    /\ connections' = [connections EXCEPT ![fetch[h].conn] = fetch[h].config]
    /\ fetch' = [fetch EXCEPT ![h].stage =
                  IF pc[h] = "calling" THEN "calling" ELSE "listing"]
    /\ UNCHANGED <<db, deleted, schema, registered, guard, sync, pc, at, row,
                   history, allowed, requests>>

Listed(h) ==
    /\ fetch[h] # None
    /\ fetch[h].stage = "listing"
    /\ LET c == fetch[h].conn
           k == fetch[h].config IN
       /\ schema' = [schema EXCEPT ![c] = k]
       /\ \/ /\ guard = h
             /\ Found(c, Enabled(sync.rows[c], k))
             /\ fetch' = [fetch EXCEPT ![h] = None]
             /\ UNCHANGED <<pc, at, row, allowed>>
          \/ /\ pc[h] = "panel"
             /\ Done(h)
             /\ UNCHANGED sync
    /\ UNCHANGED <<db, deleted, connections, registered, guard, history, requests>>

\* Mutated form of FetchFails: a request of a sync never times out.
FetchWaits(h) ==
    /\ fetch[h] # None
    /\ \/ /\ guard = h /\ FALSE
          /\ Skipped(fetch[h].conn)
          /\ fetch' = [fetch EXCEPT ![h] = None]
          /\ UNCHANGED <<pc, at, row, allowed>>
       \/ /\ guard # h
          /\ Done(h)
          /\ UNCHANGED sync
    /\ UNCHANGED <<db, deleted, caches, registered, guard, history, requests>>

\* The server is gone, or a request has waited for REQUEST_TIMEOUT.
FetchFails(h) ==
    /\ fetch[h] # None
    /\ \/ /\ guard = h
          /\ Skipped(fetch[h].conn)
          /\ fetch' = [fetch EXCEPT ![h] = None]
          /\ UNCHANGED <<pc, at, row, allowed>>
       \/ /\ guard # h
          /\ Done(h)
          /\ UNCHANGED sync
    /\ UNCHANGED <<db, deleted, caches, registered, guard, history, requests>>

\* From here to the end of sync_registry there is no await.
SyncApply(h) ==
    /\ guard = h
    /\ sync.todo = {}
    /\ registered' = [c \in Conn |-> [t \in Tools |->
            IF t \notin sync.desired[c] THEN None
            ELSE [ctype |-> sync.rows[c].ctype,
                  config |-> IF sync.rows[c].ctype = "api"
                             THEN sync.rows[c].config ELSE schema[c]]]]
    /\ unreachable' = sync.skipped
    /\ guard' = None
    /\ sync' = None
    /\ Done(h)
    /\ UNCHANGED <<db, deleted, caches, overtaken, unsynced, drops, requests>>

(***************************************************************************)
(* list_tools for the panel of the web client                              *)
(***************************************************************************)
Panel(h, c) ==
    /\ Present(c)
    /\ db[c].ctype = "mcp"
    /\ Arrives(h, c, None, "mcp", TRUE)
    /\ row' = [row EXCEPT ![h] = db[c]]
    /\ Goes(h, "panel")
    /\ UNCHANGED <<db, deleted, caches, registered, guard, sync, fetch, history, allowed>>

PanelFetch(h) ==
    /\ pc[h] = "panel"
    /\ Fetches(h, at[h].conn, row[h].config)
    /\ UNCHANGED <<db, deleted, caches, registered, guard, sync, pc, at, row,
                   history, allowed, requests>>

PanelAnswers(h) ==
    /\ pc[h] = "panel"
    /\ fetch[h] = None
    /\ \/ schema[at[h].conn] # None
       \/ connections[at[h].conn] = None /\ Kind(row[h].config) = "api"
    /\ Done(h)
    /\ UNCHANGED <<db, deleted, caches, registered, guard, sync, history, requests>>

(***************************************************************************)
(* execute_tool                                                            *)
(***************************************************************************)
CallResolve(h, c, t) ==
    /\ registered[c][t] # None
    /\ Arrives(h, c, t, registered[c][t].ctype, TRUE)
    /\ allowed' = [allowed EXCEPT ![h] =
                    Permits(db[c], registered[c][t].ctype, t)]
    /\ Goes(h, "resolved")
    /\ UNCHANGED <<db, deleted, caches, registered, guard, sync, row, fetch, history>>

CallLoad(h) ==
    /\ pc[h] = "resolved"
    /\ IF Present(at[h].conn)
       THEN /\ row' = [row EXCEPT ![h] = db[at[h].conn]]
            /\ Goes(h, "checked")
            /\ UNCHANGED <<at, fetch, allowed>>
       ELSE Done(h)
    /\ UNCHANGED <<db, deleted, caches, registered, guard, sync, history, requests>>

\* Mutated form of CallAllowed: what is in the index is taken for enabled.
CallTrustsIndex(h) ==
    /\ row[h] # None
    /\ IF at[h].ctype = "api"
       THEN /\ Kind(row[h].config) = "api"
            /\ at[h].tool \in Offers[row[h].config] \ row[h].flags
       ELSE at[h].tool \notin row[h].states

\* The checks of execute_tool, for the type that the index had.
CallAllowed(h) ==
    /\ row[h].on
    /\ IF at[h].ctype = "api"
       THEN /\ Kind(row[h].config) = "api"
            /\ at[h].tool \in Offers[row[h].config] \ row[h].flags
       ELSE at[h].tool \notin row[h].states

CallStarts(h) ==
    /\ pc[h] = "checked"
    /\ CallAllowed(h)
    /\ LET c == at[h].conn IN
       \/ /\ at[h].ctype = "api"
          /\ fetch' = [fetch EXCEPT ![h] =
                        [stage |-> "calling", config |-> row[h].config, conn |-> c]]
       \/ /\ at[h].ctype = "mcp" /\ connections[c] # None
          /\ fetch' = [fetch EXCEPT ![h] =
                        [stage |-> "calling", config |-> connections[c], conn |-> c]]
       \/ /\ at[h].ctype = "mcp" /\ connections[c] = None /\ Kind(row[h].config) = "mcp"
          /\ fetch' = [fetch EXCEPT ![h] =
                        [stage |-> "connecting", config |-> row[h].config, conn |-> c]]
    /\ Goes(h, "calling")
    /\ UNCHANGED <<db, deleted, caches, registered, guard, sync, at, row,
                   history, allowed, requests>>

CallRefused(h) ==
    /\ pc[h] = "checked"
    /\ \/ ~CallAllowed(h)
       \/ at[h].ctype = "mcp" /\ connections[at[h].conn] = None /\ Kind(row[h].config) = "api"
    /\ Done(h)
    /\ UNCHANGED <<db, deleted, caches, registered, guard, sync, history, requests>>

CallReturns(h) ==
    /\ fetch[h] # None
    /\ fetch[h].stage = "calling"
    /\ Done(h)
    /\ UNCHANGED <<db, deleted, caches, registered, guard, sync, history, requests>>

(***************************************************************************)
(* A dropped handler: its client went away, or the list of the enabled     *)
(* connectors could not be read, which every handler ignores.              *)
(***************************************************************************)
Drop(h) ==
    /\ pc[h] # "idle"
    /\ drops < MaxDrops
    /\ drops' = drops + 1
    /\ Done(h)
    /\ guard' = IF guard = h THEN None ELSE guard
    /\ sync' = IF guard = h THEN None ELSE sync
    /\ unsynced' = unsynced
         \cup (IF pc[h] \in {"written", "sync", "syncing"} THEN {at[h].conn} ELSE {})
         \cup (IF guard = h THEN sync.covers ELSE {})
    /\ overtaken' = IF pc[h] = "written" THEN overtaken \cup {at[h].conn} ELSE overtaken
    /\ UNCHANGED <<db, deleted, caches, registered, unreachable, requests>>

(***************************************************************************)
(* Specification                                                           *)
(***************************************************************************)
Flags(k) == IF Kind(k) = "api" THEN SUBSET Offers[k] ELSE {{}}

Request(h) ==
    \E c \in Conn :
      \/ \E k \in Configs : \E f \in Flags(k) : Create(h, c, k, f) \/ UpdateLoad(h, c, k, f)
      \/ Delete(h, c)
      \/ \E on \in BOOLEAN : Toggle(h, c, on)
      \/ \E t \in Tools, on \in BOOLEAN : ToolLoad(h, c, t, on)
      \/ Panel(h, c)
      \/ \E t \in Tools : CallResolve(h, c, t)

\* What a server sends, if it does.
Answer(h) == Connected(h) \/ Listed(h) \/ CallReturns(h)

Step(h) ==
    \/ UpdateWrite(h) \/ ToolWrite(h) \/ Invalidate(h)
    \/ SyncBegin(h) \/ SyncApply(h)
    \/ \E c \in Conn : SyncKnown(h, c) \/ SyncFetch(h, c)
    \/ FetchFails(h)
    \/ PanelFetch(h) \/ PanelAnswers(h)
    \/ CallLoad(h) \/ CallStarts(h) \/ CallRefused(h)

Next == \E h \in Handlers : Request(h) \/ Step(h) \/ Answer(h) \/ Drop(h)

\* The runtime polls every task that can go on, and a request to a server that
\* does not answer times out.
Spec == Init /\ [][Next]_vars /\ \A h \in Handlers : WF_vars(Step(h))

(***************************************************************************)
(* Properties                                                              *)
(***************************************************************************)
\* Types, and who may be where: sync_guard is held by the handler that syncs
\* and by nobody when none does (sync_registry, manager.rs:82).
TypeOK ==
    /\ db \in [Conn -> Row \cup {None}]
    /\ deleted \subseteq {c \in Conn : ~Present(c)}
    /\ connections \in [Conn -> McpConfigs \cup {None}]
    /\ schema \in [Conn -> McpConfigs \cup {None}]
    /\ registered \in [Conn -> [Tools -> Registration \cup {None}]]
    /\ guard \in Handlers \cup {None}
    /\ sync \in Sync \cup {None}
    /\ pc \in [Handlers -> {"idle", "loaded", "tool", "written", "sync", "syncing", "panel",
                            "resolved", "checked", "calling"}]
    /\ at \in [Handlers -> At \cup {None}]
    /\ row \in [Handlers -> Row \cup {None}]
    /\ fetch \in [Handlers -> Fetch \cup {None}]
    /\ \A h \in Handlers : pc[h] = "syncing" <=> guard = h
    /\ guard = None <=> sync = None
    /\ overtaken \cup unreachable \cup unsynced \subseteq Conn
    /\ allowed \in [Handlers -> BOOLEAN]
    /\ requests \in 0..MaxRequests
    /\ drops \in 0..MaxDrops

Settled == \A h \in Handlers : pc[h] \notin {"loaded", "tool", "written", "sync", "syncing"}

\* "Reconcile the registry's dynamic tools with the database state"
\* (manager.rs:74): when no change is under way, what is registered of a
\* connector is permitted by its row, unless a change lost its sync; and it is
\* what its configuration offers, with the schema of that configuration, unless
\* its server could not be reached or a request with older data came in between.
Reconciled ==
    Settled => \A c \in Conn \ unsynced :
        /\ \A t \in Tools : registered[c][t] # None =>
                            Permits(db[c], db[c].ctype, t)
        /\ c \notin overtaken =>
             LET tools == IF Present(c) /\ db[c].on /\ c \notin unreachable
                          THEN Enabled(db[c], db[c].config) ELSE {} IN
             registered[c] = [t \in Tools |->
                IF t \in tools THEN [ctype |-> db[c].ctype, config |-> db[c].config] ELSE None]

\* invalidate_connector (manager.rs:350) "drops" what is cached: a client or a
\* tool list of another configuration than the row's is only left while a
\* change is between its statement and its invalidation, or after a request
\* that held older data when the caches were dropped.
StaleOnlyIfOvertaken ==
    \A c \in Conn :
        \/ {connections[c], schema[c]} \subseteq
              {None} \cup (IF Present(c) THEN {db[c].config} ELSE {})
        \/ c \in overtaken
        \/ \E h \in Handlers : pc[h] = "written" /\ at[h].conn = c

\* "Only tools present in the active index (connector enabled + tool enabled)
\* can be executed" (manager.rs:233): a call that runs was permitted by the
\* table at some moment since it was looked up, although the index it was
\* found in may be older than that.  (Permitted as a tool of the type the index
\* had: an update can turn the connector into one of the other type meanwhile.)
DisabledNeverRuns ==
    \A h \in Handlers :
        fetch[h] # None /\ fetch[h].stage = "calling" => allowed[h]

\* No server that hangs keeps the registry, and nobody waits for sync_guard
\* for ever: every request is answered or dropped.
HandlersFinish ==
    \A h \in Handlers : pc[h] # "idle" ~> pc[h] = "idle"
===============================================================================
