---------------------------- MODULE LedgerTransfers ----------------------------
(***************************************************************************)
(* How a shard's EntityLedger finds the entities that have left its bound  *)
(* and hands them to the TransferCoordinator.  LoopThread walks the        *)
(* entities without a lock while the game's thread registers and moves     *)
(* them: an insertion into the flat_map under the walk can make it skip    *)
(* entities, meet them twice, or end the process.                          *)
(***************************************************************************)
EXTENDS Naturals, FiniteSets, Sequences, SequencesExt

CONSTANTS
    LedgerEntities,  \* ids of entities
    ClientEntities,  \* those of clients: IsClient
    MaxMoves         \* bound on the moves of each entity across the bound

VARIABLES
    shardBound,     \* HasBound of the BoundLeaser
    entities,       \* the ledger: registered entities
    outside,        \* entities whose position the bound does not contain
    moves,          \* moves so far
    marked,         \* entitiesMarkedForTransfer
    scan,           \* LoopThreadEntry: asleep, walking or stopped (the process has ended)
    toVisit,        \* entities the walk has yet to meet
    newlyOut,       \* EntitiesNewlyOutOfBounds
    entityTransfers,\* EntityTransfers: the entities of each
    clientTransfers \* ClientTransfers

ledgerVars == <<shardBound, entities, outside, moves, marked, scan, toVisit, newlyOut,
                entityTransfers, clientTransfers>>

LedgerInit ==
    /\ shardBound = "no"
    /\ entities = {}
    /\ outside \in SUBSET LedgerEntities
    /\ moves = [e \in LedgerEntities |-> 0]
    /\ marked = {}
    /\ scan = "asleep"
    /\ toVisit = {}
    /\ newlyOut = <<>>
    /\ entityTransfers = <<>>
    /\ clientTransfers = <<>>

\* The BoundLeaser claims a bound.
BoundClaimed ==
    /\ shardBound = "no"
    /\ shardBound' = "yes"
    /\ UNCHANGED <<entities, outside, moves, marked, scan, toVisit, newlyOut, entityTransfers, clientTransfers>>

\* RegisterNewEntity, on the game's thread, whose assertion is the caller's duty.  Under a
\* walk the iterators are invalid: the rest of the walk is any part of the map, or a crash.
RegisterNewEntity(e) ==
    /\ e \notin entities
    /\ scan # "stopped"
    /\ entities' = entities \cup {e}
    /\ IF scan = "walking"
       THEN \/ toVisit' \in SUBSET (entities \cup {e}) /\ UNCHANGED scan
            \/ scan' = "stopped" /\ UNCHANGED toVisit
       ELSE UNCHANGED <<scan, toVisit>>
    /\ UNCHANGED <<shardBound, outside, moves, marked, newlyOut, entityTransfers, clientTransfers>>

\* The game moves an entity, through ViewLocalEntities, over the edge of the bound.
MoveEntity(e) ==
    /\ e \in entities
    /\ scan # "stopped"
    /\ moves[e] < MaxMoves
    /\ moves' = [moves EXCEPT ![e] = @ + 1]
    /\ outside' = IF e \in outside THEN outside \ {e} ELSE outside \cup {e}
    /\ UNCHANGED <<shardBound, entities, marked, scan, toVisit, newlyOut, entityTransfers, clientTransfers>>

\* LoopThreadEntry, once it holds a bound.
StartWalk ==
    /\ scan = "asleep"
    /\ shardBound = "yes"
    /\ scan' = "walking"
    /\ toVisit' = entities
    /\ newlyOut' = <<>>
    /\ UNCHANGED <<shardBound, entities, outside, moves, marked, entityTransfers, clientTransfers>>

ToMark_Again(e) == e \in outside
ToMark_Entities(e) == e \notin marked /\ e \in outside /\ e \notin ClientEntities
ToMark(e) == e \notin marked /\ e \in outside

VisitEntity(e) ==
    /\ scan = "walking"
    /\ e \in toVisit
    /\ toVisit' = toVisit \ {e}
    /\ IF ToMark(e)
       THEN /\ newlyOut' = Append(newlyOut, e)
            /\ marked' = marked \cup {e}
       ELSE UNCHANGED <<newlyOut, marked>>
    /\ UNCHANGED <<shardBound, entities, outside, moves, scan, entityTransfers, clientTransfers>>

\* MarkEntitiesForTransfer: the clients of the batch become one client transfer, the
\* others one entity transfer.  The transfer thread does nothing with either.
WithTransfer(transfers, part) == IF part = {} THEN transfers ELSE Append(transfers, part)
MarkEntitiesForTransfer ==
    /\ scan = "walking"
    /\ toVisit = {}
    /\ scan' = "asleep"
    /\ clientTransfers' = WithTransfer(clientTransfers, ToSet(newlyOut) \cap ClientEntities)
    /\ entityTransfers' = WithTransfer(entityTransfers, ToSet(newlyOut) \ ClientEntities)
    /\ newlyOut' = <<>>
    /\ UNCHANGED <<shardBound, entities, outside, moves, marked, toVisit>>

LedgerNext ==
    \/ BoundClaimed
    \/ \E e \in LedgerEntities : RegisterNewEntity(e) \/ MoveEntity(e) \/ VisitEntity(e)
    \/ StartWalk
    \/ MarkEntitiesForTransfer

LedgerSpec == LedgerInit /\ [][LedgerNext]_ledgerVars

LoopStep == StartWalk \/ MarkEntitiesForTransfer \/ \E e \in LedgerEntities : VisitEntity(e)

-----------------------------------------------------------------------------
\* An entity that stays outside the bound is marked in the end, unless the process ends,
\* also when the walk that should have met it was spoiled by an insertion.
AllOutsideMarked == scan = "stopped" \/ entities \cap outside \subseteq marked

\* Where an entity is on its way to another shard: places in the batch of the walk and in
\* the transfers.
TransferPlaces(e) ==
    {<<"walk", k>> : k \in {i \in DOMAIN newlyOut : newlyOut[i] = e}}
        \cup {<<"entity", k>> : k \in {i \in DOMAIN entityTransfers : e \in entityTransfers[i]}}
        \cup {<<"client", k>> : k \in {i \in DOMAIN clientTransfers : e \in clientTransfers[i]}}

\* LoopThreadEntry hands every entity that it marks to the TransferCoordinator exactly once,
\* a client with the clients and another entity with the others, and nothing that is not in
\* the ledger, also when an insertion makes the walk meet entities twice, when they leave
\* the bound again, and over any number of walks.
TransferredOnce ==
    /\ marked \subseteq entities
    /\ \A e \in LedgerEntities :
           /\ e \in marked <=> TransferPlaces(e) # {}
           /\ \A p, q \in TransferPlaces(e) : p = q
    /\ \A k \in DOMAIN clientTransfers : clientTransfers[k] \subseteq ClientEntities
    /\ \A k \in DOMAIN entityTransfers : entityTransfers[k] \cap ClientEntities = {}

\* The inductive invariant behind it: the walk meets only entities of the ledger.
LedgerInv ==
    /\ entities \subseteq LedgerEntities
    /\ toVisit \subseteq entities
    /\ newlyOut \in Seq(LedgerEntities)
    /\ scan = "asleep" => newlyOut = <<>>
    /\ entityTransfers \in Seq(SUBSET LedgerEntities)
    /\ clientTransfers \in Seq(SUBSET LedgerEntities)
    /\ TransferredOnce
=============================================================================
