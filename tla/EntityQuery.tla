----------------------------- MODULE EntityQuery -----------------------------
(***************************************************************************)
(* Cartograph's question to every shard for the entities it simulates:     *)
(* class EntityLedgersView in the cartograph process, EntityLedger's       *)
(* answer in each shard.                                                   *)
(*                                                                         *)
(* GetEntityLists runs on the thread of the JavaScript server; answers are *)
(* handled on the tick thread of Interlink.  The two threads share the     *)
(* vector EntityListResponses, which has no lock, and the atomic counter   *)
(* RequestsUnanswered, which is raised after each send.                    *)
(***************************************************************************)
EXTENDS Integers, FiniteSets, Sequences

CONSTANTS
    Shards,        \* shards that may be in the ServerRegistry
    Entities,      \* entity ids
    CounterRange,  \* RequestsUnanswered counts modulo this: 2^32 in the code
    MaxQueries,    \* bound on calls of GetEntityLists
    MaxFaults      \* bound on shard crashes and broken connections

ASSUME QueryAssumption ==
    /\ IsFiniteSet(Shards)
    /\ CounterRange \in Nat
    /\ CounterRange > Cardinality(Shards)
    /\ MaxQueries \in Nat
    /\ MaxFaults \in Nat

VARIABLES
    registered,  \* shards with an entry in the ServerRegistry
    bound,       \* shards whose claimed bound BoundIDFromShard finds
    up,          \* shards that run
    ready,       \* shards whose EntityLedger::Init has subscribed to the packet
    ledger,      \* EntityLedger::entities of each shard
    vpc,         \* GetEntityLists: idle, send, count, wait or take
    toAsk,       \* server_list entries the loop has not reached
    unanswered,  \* RequestsUnanswered
    responses,   \* EntityListResponses, one element per answer
    result,      \* what the last call returned
    queries,     \* shards with a query on its way
    answers,     \* answers on their way: the shard and its entities
    lost,        \* shards whose query or answer is lost
    raced,       \* history: shards whose answer to this call met an insertion
    asked,       \* the shards the running or last call has asked
    owed,        \* history: what the shards with a bound held when the call began
    calls,       \* calls of GetEntityLists so far
    faults       \* crashes and broken connections so far

viewVars == <<vpc, toAsk, asked, result, owed, calls>>
netVars  == <<queries, answers, lost>>
shardVars == <<registered, bound, up, ready, ledger>>
vars == <<viewVars, unanswered, responses, netVars, shardVars, raced, faults>>

Answers == [shard : Shards, entities : SUBSET Entities]

\* Shards that have been asked and have not been heard.
Outstanding == queries \cup lost \cup {a.shard : a \in answers}

Init ==
    /\ registered = {}
    /\ bound = {}
    /\ up = {}
    /\ ready = {}
    /\ ledger = [s \in Shards |-> {}]
    /\ vpc = "idle"
    /\ toAsk = {}
    /\ unanswered = 0
    /\ responses = <<>>
    /\ result = <<>>
    /\ queries = {}
    /\ answers = {}
    /\ lost = {}
    /\ raced = {}
    /\ asked = {}
    /\ owed = {}
    /\ calls = 0
    /\ faults = 0

-----------------------------------------------------------------------------
(* The shards. *)

\* A shard starts: Interlink::Init writes its registry entry and starts the tick
\* thread ...
ShardStart(s) ==
    /\ s \notin registered
    /\ registered' = registered \cup {s}
    /\ up' = up \cup {s}
    /\ UNCHANGED <<bound, ready, ledger, viewVars, unanswered, responses, netVars, raced, faults>>

\* ... and EntityLedger::Init subscribes to the queries later.
LedgerInit(s) ==
    /\ s \in up \ ready
    /\ ready' = ready \cup {s}
    /\ UNCHANGED <<registered, bound, up, ledger, viewVars, unanswered, responses, netVars,
                   raced, faults>>

\* BoundLeaser::ClaimBound makes BoundIDFromShard find the shard.
ShardClaims(s) ==
    /\ s \in up \ bound
    /\ bound' = bound \cup {s}
    /\ UNCHANGED <<registered, up, ready, ledger, viewVars, unanswered, responses, netVars,
                   raced, faults>>

\* RegisterNewEntity, whose ASSERT excludes an id the shard has.  The application
\* creates entities once Initialize has returned.
RegisterNewEntity(s, e) ==
    /\ s \in ready
    /\ e \notin ledger[s]
    /\ ledger' = [ledger EXCEPT ![s] = @ \cup {e}]
    /\ UNCHANGED <<registered, bound, up, ready, viewVars, unanswered, responses, netVars,
                   raced, faults>>

\* A shard crashes: nothing removes its registry entry, its claim or the query
\* on its way to it.  What it has answered is on its way still.
ShardCrash(s) ==
    /\ faults < MaxFaults
    /\ s \in up
    /\ up' = up \ {s}
    /\ ready' = ready \ {s}
    /\ ledger' = [ledger EXCEPT ![s] = {}]
    /\ faults' = faults + 1
    /\ UNCHANGED <<registered, bound, viewVars, unanswered, responses, netVars, raced>>

\* The connection between cartograph and a shard breaks with a message under way:
\* Interlink drops the connection and nobody asks or answers again.
ConnectionBreaks(s) ==
    /\ faults < MaxFaults
    /\ s \in Outstanding
    /\ queries' = queries \ {s}
    /\ answers' = {a \in answers : a.shard # s}
    /\ lost' = lost \cup {s}
    /\ faults' = faults + 1
    /\ UNCHANGED <<shardVars, viewVars, unanswered, responses, raced>>

\* Dispatch finds no subscriber for a query that precedes EntityLedger::Init.
QueryIgnored(s) ==
    /\ s \in (up \ ready) \cap queries
    /\ queries' = queries \ {s}
    /\ lost' = lost \cup {s}
    /\ UNCHANGED <<shardVars, viewVars, unanswered, responses, answers, raced, faults>>

\* The query of shard s becomes its answer.
Answered(s, es) ==
    /\ s \in ready \cap queries
    /\ queries' = queries \ {s}
    /\ answers' = answers \cup {[shard |-> s, entities |-> es]}
    /\ UNCHANGED <<lost, viewVars, unanswered, responses, faults>>

\* EntityLedger::OnLocalEntityListRequest: the whole ledger in one packet.
OnLocalEntityListRequest(s) ==
    /\ Answered(s, ledger[s])
    /\ UNCHANGED <<shardVars, raced>>

\* The handler walks the map on the tick thread while the application's thread
\* inserts into it.  No lock orders the two: the answer holds any part of the old
\* and the new entities (or the shard crashes, which is ShardCrash).
RacedAnswer(s, e, es) ==
    /\ e \notin ledger[s]
    /\ es \subseteq ledger[s] \cup {e}
    /\ Answered(s, es)
    /\ ledger' = [ledger EXCEPT ![s] = @ \cup {e}]
    /\ raced' = raced \cup {s}
    /\ UNCHANGED <<registered, bound, up, ready>>

-----------------------------------------------------------------------------
(* The view's handler on the tick thread. *)

\* fetch_sub and fetch_add of 1 on an unsigned counter wrap around.
Decremented(n) == IF n = 0 THEN CounterRange - 1 ELSE n - 1
Incremented(n) == IF n = CounterRange - 1 THEN 0 ELSE n + 1

\* The counter goes down for every answer, also one whose sender has no bound
\* and whose entities are dropped.
CountAnswer_WithBound(s) == unanswered' = IF s \in bound THEN Decremented(unanswered) ELSE unanswered
CountAnswer(s) == unanswered' = Decremented(unanswered)

OnLocalEntityListRequestPacket(a) ==
    /\ a \in answers
    /\ answers' = answers \ {a}
    /\ responses' = IF a.shard \in bound THEN Append(responses, a) ELSE responses
    /\ CountAnswer(a.shard)
    /\ UNCHANGED <<queries, lost, shardVars, viewVars, raced, faults>>

-----------------------------------------------------------------------------
(* GetEntityLists on the view's thread. *)

GetEntityLists ==
    /\ vpc = "idle"
    /\ calls < MaxQueries
    /\ calls' = calls + 1
    /\ responses' = <<>>
    /\ toAsk' = registered
    /\ asked' = {}
    /\ owed' = {x \in bound \X Entities : x[2] \in ledger[x[1]]}
    /\ raced' = {}
    /\ vpc' = "send"
    /\ UNCHANGED <<result, unanswered, netVars, shardVars, faults>>

\* SendMessage to the next shard of the list ...
SendQuery(s) ==
    /\ vpc = "send"
    /\ s \in toAsk
    /\ queries' = queries \cup {s}
    /\ toAsk' = toAsk \ {s}
    /\ asked' = asked \cup {s}
    /\ vpc' = "count"
    /\ UNCHANGED <<result, owed, calls, unanswered, responses, answers, lost, shardVars, raced,
                   faults>>

\* ... and then RequestsUnanswered.fetch_add, which an answer may have preceded.
CountQuery ==
    /\ vpc = "count"
    /\ unanswered' = Incremented(unanswered)
    /\ vpc' = "send"
    /\ UNCHANGED <<toAsk, asked, result, owed, calls, responses, netVars, shardVars, raced,
                   faults>>

EndOfList ==
    /\ vpc = "send"
    /\ toAsk = {}
    /\ vpc' = "wait"
    /\ UNCHANGED <<toAsk, asked, result, owed, calls, unanswered, responses,
                   netVars, shardVars, raced, faults>>

\* The polling loop ends when the counter is 0; the counter is then stored as 0.
WaitOver_Any == vpc = "wait"
WaitOver == vpc = "wait" /\ unanswered = 0

WaitForAnswers ==
    /\ WaitOver
    /\ unanswered' = 0
    /\ vpc' = "take"
    /\ UNCHANGED <<toAsk, asked, result, owed, calls, responses, netVars, shardVars, raced,
                   faults>>

\* entities = std::move(EntityListResponses).
TakeResponses ==
    /\ vpc = "take"
    /\ result' = responses
    /\ responses' = <<>>
    /\ vpc' = "idle"
    /\ UNCHANGED <<toAsk, asked, owed, calls, unanswered, netVars, shardVars, raced, faults>>

-----------------------------------------------------------------------------
ShardStep(s) ==
    \/ ShardStart(s)
    \/ ShardClaims(s)
    \/ LedgerInit(s)
    \/ ShardCrash(s)
    \/ ConnectionBreaks(s)
    \/ QueryIgnored(s)
    \/ OnLocalEntityListRequest(s)
    \/ \E e \in Entities : RegisterNewEntity(s, e)
    \/ \E e \in Entities, es \in SUBSET Entities : RacedAnswer(s, e, es)

ViewStep ==
    \/ GetEntityLists
    \/ \E s \in Shards : SendQuery(s)
    \/ CountQuery
    \/ EndOfList
    \/ WaitForAnswers
    \/ TakeResponses

Next ==
    \/ \E s \in Shards : ShardStep(s)
    \/ \E a \in answers : OnLocalEntityListRequestPacket(a)
    \/ ViewStep

Spec == Init /\ [][Next]_vars

\* Both threads of cartograph run, and a shard that is up answers.
FairSpec ==
    /\ Spec
    /\ WF_vars(ViewStep)
    /\ WF_vars(\E a \in answers : OnLocalEntityListRequestPacket(a))
    /\ \A s \in Shards : WF_vars(OnLocalEntityListRequest(s))

-----------------------------------------------------------------------------
\* Every variable stays in its type; the counter does not leave 32 bits.
TypeOK ==
    /\ registered \subseteq Shards
    /\ bound \subseteq registered
    /\ up \subseteq registered
    /\ ready \subseteq up
    /\ ledger \in [Shards -> SUBSET Entities]
    /\ vpc \in {"idle", "send", "count", "wait", "take"}
    /\ toAsk \subseteq Shards
    /\ unanswered \in 0..(CounterRange - 1)
    /\ responses \in Seq(Answers)
    /\ result \in Seq(Answers)
    /\ queries \subseteq Shards
    /\ answers \subseteq Answers
    /\ lost \subseteq Shards
    /\ raced \subseteq Shards
    /\ asked \subseteq Shards
    /\ owed \subseteq Shards \X Entities

\* RequestsUnanswered is the number of shards still to be heard, except that the
\* one being asked is not counted yet: an answer that overtakes the fetch_add
\* wraps the counter around and the fetch_add brings it back.
CounterExact ==
    unanswered = IF vpc = "count" THEN Decremented(Cardinality(Outstanding))
                                  ELSE Cardinality(Outstanding)

\* GetEntityLists touches the vector without a lock (clear at its start, move at
\* its end); no answer is under way then, so the tick thread does not push.
NoSharedAccess == vpc \in {"idle", "take"} => Outstanding = {}

\* A shard is asked once per call and heard once per call.
HeardOnce ==
    /\ \A a, b \in answers : a.shard = b.shard => a = b
    /\ \A a \in answers : a.shard \notin queries \cup lost
    /\ queries \cap lost = {}
    /\ \A i, j \in 1..Len(responses) : responses[i].shard = responses[j].shard => i = j
    /\ \A i \in 1..Len(responses) : responses[i].shard \in asked \ Outstanding

\* A call returns every entity that a shard with a bound held when it began, unless
\* the shard's answer raced with an insertion.
ResultComplete ==
    vpc = "take" => \A x \in owed : x[1] \notin raced =>
        \E i \in 1..Len(responses) :
            responses[i].shard = x[1] /\ x[2] \in responses[i].entities

\* The parts of the inductive invariant that no run checks by itself.  A shard
\* that is still to be heard has been asked, and is not asked again ...
AskedInv ==
    /\ Outstanding \subseteq asked
    /\ toAsk \cap asked = {}
    /\ vpc \in {"wait", "take"} => toAsk = {}

\* ... and what a call owes is in the shard's ledger until the shard answers, in
\* the answer until it is heard, and in the responses from then on.
OwedInv ==
    vpc # "idle" => \A x \in owed : x[1] \notin raced =>
        /\ x[1] \in bound \cap (toAsk \cup asked)
        /\ x[1] \in up \cap (toAsk \cup queries) => x[2] \in ledger[x[1]]
        /\ \A a \in answers : a.shard = x[1] => x[2] \in a.entities
        /\ x[1] \in asked \ Outstanding => \E i \in 1..Len(responses) :
               responses[i].shard = x[1] /\ x[2] \in responses[i].entities

QueryInv == TypeOK /\ CounterExact /\ NoSharedAccess /\ HeardOnce /\ AskedInv /\ OwedInv

\* GetEntityLists returns, unless a shard it asks cannot answer: it is down, its
\* connection broke, or it has not subscribed, so that its query finds nobody.
QueryReturns ==
    vpc = "send" ~> \/ vpc = "idle"
                    \/ lost # {}
                    \/ ~(toAsk \cup queries \subseteq ready)
=============================================================================
