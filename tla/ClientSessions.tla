---------------------------- MODULE ClientSessions ----------------------------
(***************************************************************************)
(* Game clients and the proxies they connect to: ClientLink on the client, *)
(* Proxy and Interlink::OnClientConnected on the proxy, the ClientManifest *)
(* in the internal database and the ClientConnectEvent.                    *)
(*                                                                         *)
(* The client's application thread stores the row of a connection after it *)
(* has started to connect; the client's tick thread needs the row when the *)
(* connection is up.  The proxy's tick thread registers a client in one    *)
(* command of the database after the other.                                *)
(***************************************************************************)
EXTENDS EventSystem, RedisStore

CONSTANTS
    Clients,      \* client processes
    Proxies,      \* proxy processes
    NoProxy,      \* no proxy
    MaxClientIds  \* bound on the ids that proxies hand out

ASSUME ClientsAssumption == NoProxy \notin Proxies

VARIABLES
    proxy,       \* a proxy: starting, up (EventSystem::Init done), aborted or crashed
    link,        \* a client's connection: its proxy, and none, connecting, connected or down
    linkRow,     \* whether ClientLink's Connections has the row of the connection
    accepting,   \* OnClientConnected on a proxy: its client, the id assigned and the next command
    waiting,     \* clients whose connection a proxy has yet to handle
    clientIds,   \* ids handed out
    manifest,    \* ClientManifest's keys of the internal database
    identity     \* history: the id a proxy gave to each client's connection

clientVars == <<proxy, link, linkRow, accepting, waiting, clientIds, manifest, identity>>

\* ClientID_2_IP_Hashtable, ClientID_2_ProxyID_Hashtable and ProxyID_2_ClientIDs_Set,
\* whose key is never formatted: all proxies share the set.
IPs == "ClientID to IP"
ProxyOf == "ClientID to ProxyID"
ClientSet == "Proxy_{}_Clients"

Idle == [at |-> "idle"]
Offline == [at |-> "none", proxy |-> NoProxy]

ClientsInit ==
    /\ proxy = [x \in Proxies |-> "starting"]
    /\ link = [c \in Clients |-> Offline]
    /\ linkRow = [c \in Clients |-> "no"]
    /\ accepting = [x \in Proxies |-> Idle]
    /\ waiting = [x \in Proxies |-> {}]
    /\ clientIds = 0
    /\ manifest = [k \in {} |-> {}]
    /\ identity = [c \in Clients |-> 0]

Running(x) == proxy[x] \in {"starting", "up"}

-----------------------------------------------------------------------------
\* Proxy::Init: the Interlink, which accepts connections, runs before EventSystem::Init.
ProxyReady(x) ==
    /\ proxy[x] = "starting"
    /\ proxy' = [proxy EXCEPT ![x] = "up"]
    /\ UNCHANGED <<link, linkRow, accepting, waiting, clientIds, manifest, identity>>

\* ConnectToAtlasNet: the connection is opened with the transport ...
ConnectToAtlasNet(c, x) ==
    /\ link[c].at = "none"
    /\ Running(x)
    /\ link' = [link EXCEPT ![c] = [at |-> "connecting", proxy |-> x]]
    /\ linkRow' = [linkRow EXCEPT ![c] = "no"]
    /\ waiting' = [waiting EXCEPT ![x] = @ \cup {c}]
    /\ identity' = [identity EXCEPT ![c] = 0]
    /\ UNCHANGED <<proxy, accepting, clientIds, manifest>>

\* ... and then gets its row.
InsertRow(c) ==
    /\ link[c].at \in {"connecting", "connected"}
    /\ linkRow[c] = "no"
    /\ linkRow' = [linkRow EXCEPT ![c] = "yes"]
    /\ UNCHANGED <<proxy, link, accepting, waiting, clientIds, manifest, identity>>

\* ClientLink::OnConnected, on the tick thread: the assertion that the row exists aborts
\* the client when the application thread has not stored it yet.
ClientOnConnected(c) ==
    /\ link[c].at = "connecting"
    /\ Running(link[c].proxy)
    /\ link' = [link EXCEPT ![c].at = IF linkRow[c] = "yes" THEN "connected" ELSE "down"]
    /\ UNCHANGED <<proxy, linkRow, accepting, waiting, clientIds, manifest, identity>>

\* The connection ends and the application connects again: the proxy closes its own side
\* (Interlink), ClientLink and the ClientManifest keep what they have.
LinkLost(c) ==
    /\ link[c].at = "connected"
    /\ clientIds < MaxClientIds
    /\ link' = [link EXCEPT ![c] = Offline]
    /\ waiting' = [waiting EXCEPT ![link[c].proxy] = @ \ {c}]
    /\ UNCHANGED <<proxy, linkRow, accepting, clientIds, manifest, identity>>

-----------------------------------------------------------------------------
\* OnClientConnected: a client without an id gets a new one, in the proxy's row and in a
\* packet that the client only logs.
NewId == clientIds + 1
AssignId(x, c) ==
    /\ Running(x) /\ accepting[x] = Idle
    /\ c \in waiting[x]
    /\ clientIds < MaxClientIds
    /\ clientIds' = clientIds + 1
    /\ waiting' = [waiting EXCEPT ![x] = @ \ {c}]
    /\ identity' = [identity EXCEPT ![c] = NewId]
    /\ accepting' = [accepting EXCEPT ![x] = [at |-> "register", id |-> NewId]]
    /\ UNCHANGED <<proxy, link, linkRow, manifest>>

\* The command of OnClientConnected that follows the one at this place.
Following_EventFirst(at) ==
    CASE at = "register" -> "getProxy" [] at = "getProxy" -> "setProxy"
      [] at = "setProxy" -> "dispatch" [] at = "dispatch" -> "addClient" [] OTHER -> "idle"
Following_LeaveLast(at) ==
    CASE at = "register" -> "setProxy" [] at = "setProxy" -> "addClient"
      [] at = "addClient" -> "getProxy" [] at = "getProxy" -> "dispatch" [] OTHER -> "idle"
Following(at) ==
    CASE at = "register" -> "getProxy" [] at = "getProxy" -> "setProxy"
      [] at = "setProxy" -> "addClient" [] at = "addClient" -> "dispatch" [] OTHER -> "idle"

Command(x, at) ==
    /\ Running(x)
    /\ accepting[x].at = at
    /\ accepting' = [accepting EXCEPT ![x] = IF Following(at) = "idle" THEN Idle
                                              ELSE [@ EXCEPT !.at = Following(at)]]
    /\ UNCHANGED <<link, linkRow, waiting, clientIds, identity>>

\* ClientManifest::RegisterClient.
RegisterClient(x) ==
    /\ Command(x, "register")
    /\ manifest' = HSet(manifest, IPs, accepting[x].id, "address")
    /\ UNCHANGED proxy

\* AssignProxyClient: the client leaves the set of the proxy it had, ...
LeaveProxy(x) ==
    /\ Command(x, "getProxy")
    /\ manifest' = IF HExists(manifest, ProxyOf, accepting[x].id)
                   THEN SRem(manifest, ClientSet, {accepting[x].id}) ELSE manifest
    /\ UNCHANGED proxy

\* ... is given the new one ...
ClientSetProxy(x) ==
    /\ Command(x, "setProxy")
    /\ manifest' = HSet(manifest, ProxyOf, accepting[x].id, x)
    /\ UNCHANGED proxy

\* ... and joins its set.
ProxyAddClient(x) ==
    /\ Command(x, "addClient")
    /\ manifest' = SAdd(manifest, ClientSet, {accepting[x].id})
    /\ UNCHANGED proxy

\* The ClientConnectEvent, whose Dispatch asserts that the EventSystem is initialized; the
\* HandshakeService then accepts every client and only logs the shard of its position.
AnnounceClient(x) ==
    LET e == [type |-> "ClientConnectEvent", client |-> accepting[x].id, proxy |-> x] IN
    /\ Command(x, "dispatch")
    /\ IF proxy[x] = "up"
       THEN DispatchEvent(e) /\ UNCHANGED proxy
       ELSE UNCHANGED eventVars /\ proxy' = [proxy EXCEPT ![x] = "aborted"]
    /\ UNCHANGED manifest

\* A proxy ends between any two commands; its clients lose their connections.
ProxyCrash(x) ==
    /\ Running(x)
    /\ proxy' = [proxy EXCEPT ![x] = "crashed"]
    /\ UNCHANGED <<link, linkRow, accepting, waiting, clientIds, manifest, identity>>

LinkDropped(c) ==
    /\ link[c].at \in {"connecting", "connected"}
    /\ ~Running(link[c].proxy)
    /\ link' = [link EXCEPT ![c] = Offline]
    /\ UNCHANGED <<proxy, linkRow, accepting, waiting, clientIds, manifest, identity>>

ManifestStep(x) ==
    RegisterClient(x) \/ LeaveProxy(x) \/ ClientSetProxy(x) \/ ProxyAddClient(x)

ClientStep(c) == InsertRow(c) \/ ClientOnConnected(c) \/ LinkLost(c) \/ LinkDropped(c)

ClientsNext ==
    \/ \E x \in Proxies : AnnounceClient(x)
    \/ /\ \/ \E x \in Proxies : ProxyReady(x) \/ ManifestStep(x) \/ ProxyCrash(x)
          \/ \E x \in Proxies, c \in Clients : ConnectToAtlasNet(c, x) \/ AssignId(x, c)
          \/ \E c \in Clients : ClientStep(c)
       /\ UNCHANGED eventVars
    \/ EventNext /\ UNCHANGED clientVars

ClientsSpec == ClientsInit /\ EventInit /\ [][ClientsNext]_<<clientVars, eventVars>>

-----------------------------------------------------------------------------
\* The entry of a client in the manifest is complete and names the proxy.
Listed(id, x) ==
    /\ HExists(manifest, IPs, id)
    /\ HExists(manifest, ProxyOf, id) /\ HGet(manifest, ProxyOf, id) = x
    /\ SIsMember(manifest, ClientSet, id)

\* Whoever learns of a client by its ClientConnectEvent finds the client in the manifest:
\* its address, the proxy the event names and the proxy's set, whatever other proxies do
\* at the time and wherever they crash.
ManifestBeforeEvent ==
    \A p \in Subscribers : \A e \in ToSet(delivered[p]) : Listed(e.client, e.proxy)

\* An aborted client, the outcome of the race in ConnectToAtlasNet, leaves its proxy able
\* to serve the others; a connected client of a proxy with nothing left to do is in the
\* manifest under the id its proxy knows it by.
ConnectedIsListed ==
    \A c \in Clients :
        LET x == link[c].proxy IN
        link[c].at = "connected" /\ proxy[x] = "up" /\ accepting[x] = Idle /\ c \notin waiting[x]
            => Listed(identity[c], x)

\* Both: the manifest knows the clients that others are told of, and those that their proxy
\* has dealt with (ClientManifest's AssignProxyClient, ClientLink's OnClientConnected).
ClientsAreListed == ManifestBeforeEvent /\ ConnectedIsListed

\* What Dispatch asserts (EventSystem.hpp): an event is only dispatched after
\* EventSystem::Init.  A proxy that accepts a client before it gets there aborts.
EventsInitialized == \A x \in Proxies : proxy[x] # "aborted"

-----------------------------------------------------------------------------
(* The inductive invariant behind ManifestBeforeEvent and ConnectedIsListed. *)

Events == [type : {"ClientConnectEvent"}, client : Nat, proxy : Proxies]

ClientsTypeOK ==
    /\ proxy \in [Proxies -> {"starting", "up", "aborted", "crashed"}]
    /\ link \in [Clients -> [at : {"none", "connecting", "connected", "down"},
                             proxy : Proxies \cup {NoProxy}]]
    /\ \A c \in Clients : link[c].at # "none" => link[c].proxy \in Proxies
    /\ accepting \in [Proxies -> {Idle} \cup
           [at : {"register", "getProxy", "setProxy", "addClient", "dispatch"}, id : Nat]]
    /\ waiting \in [Proxies -> SUBSET Clients]
    /\ clientIds \in Nat
    /\ identity \in [Clients -> Nat]

\* An id is handed out once: its registration is on one proxy, the manifest knows no other
\* ids, and what it knows of an id is what that proxy has written so far.
RegistrationInv ==
    /\ \A x \in Proxies : accepting[x] # Idle => accepting[x].id <= clientIds
    /\ \A x, y \in Proxies :
           accepting[x] # Idle /\ accepting[y] # Idle /\ accepting[x].id = accepting[y].id => x = y
    /\ \A id \in Nat : HExists(manifest, ProxyOf, id) => id <= clientIds
    /\ \A x \in Proxies : accepting[x] # Idle =>
           LET id == accepting[x].id
               at == accepting[x].at
           IN  /\ at # "register" => HExists(manifest, IPs, id)
               /\ at \in {"register", "getProxy", "setProxy"} => ~HExists(manifest, ProxyOf, id)
               /\ at \in {"addClient", "dispatch"} =>
                      HExists(manifest, ProxyOf, id) /\ HGet(manifest, ProxyOf, id) = x
               /\ at = "dispatch" => SIsMember(manifest, ClientSet, id)

\* A connection that a running proxy has yet to handle is the client's own; one that it
\* has handled is listed, or being listed under the id it was given.
ConnectionInv ==
    /\ \A x \in Proxies : \A c \in waiting[x] :
           Running(x) => link[c].at # "none" /\ link[c].proxy = x
    /\ \A c \in Clients :
           LET x == link[c].proxy IN
           link[c].at \in {"connecting", "connected"} /\ Running(x) /\ c \notin waiting[x] =>
               \/ accepting[x] # Idle /\ accepting[x].id = identity[c]
               \/ Listed(identity[c], x)

ClientsInv ==
    ClientsTypeOK /\ EventsInv(Events) /\ RegistrationInv /\ ConnectionInv /\ ManifestBeforeEvent
=============================================================================
