-------------------------- MODULE OwnershipElection --------------------------
(***************************************************************************)
(* The election of the shard that seeds the test entities                  *)
(* (EntityHandoff, SH_OwnershipElection): the owner is a key in the        *)
(* internal database, which a shard that finds it empty, or naming a shard *)
(* it does not know, sets to the smallest shard it knows.                  *)
(*                                                                         *)
(* Each database command of Evaluate is a step, so evaluations of several  *)
(* shards interleave.  Between two evaluations (the interval, or until     *)
(* Invalidate) the last answer stands.  Identities are numbers, ordered as *)
(* their strings are; a restarted shard is a new identity; the registry    *)
(* forgets nobody, because DeRegisterSelf has no caller.                   *)
(***************************************************************************)
EXTENDS Naturals, FiniteSetsExt

CONSTANTS
    Shards,      \* identities of shards
    NoShard,     \* an empty owner key
    MaxCrashes   \* bound on crashes

ASSUME ElectionAssumption ==
    Shards \subseteq Nat /\ NoShard \notin Shards /\ MaxCrashes \in Nat

VARIABLES
    registry,   \* shards in the server registry
    up,         \* shards that run
    ownerKey,   \* options.ownerKey in the database
    pc,         \* where each shard is in Evaluate
    servers,    \* the registry as each shard's evaluation read it
    selected,   \* selectedOwner of an evaluation about to write the key
    isOwner,    \* each shard's last answer
    crashes     \* crashes so far

vars == <<registry, up, ownerKey, pc, servers, selected, isOwner, crashes>>

Init ==
    /\ registry = {}
    /\ up = {}
    /\ ownerKey = NoShard
    /\ pc = [s \in Shards |-> "idle"]
    /\ servers = [s \in Shards |-> {}]
    /\ selected = [s \in Shards |-> NoShard]
    /\ isOwner = [s \in Shards |-> "no"]
    /\ crashes = 0

-----------------------------------------------------------------------------
\* A shard starts, and registers before its runtime ticks.
Register(s) ==
    /\ s \notin registry
    /\ registry' = registry \cup {s}
    /\ up' = up \cup {s}
    /\ UNCHANGED <<ownerKey, pc, servers, selected, isOwner, crashes>>

\* Evaluate past its interval: GetServers.
ReadServers(s) ==
    /\ s \in up
    /\ pc[s] = "idle"
    /\ servers' = [servers EXCEPT ![s] = registry]
    /\ pc' = [pc EXCEPT ![s] = "key"]
    /\ UNCHANGED <<registry, up, ownerKey, selected, isOwner, crashes>>

\* SelectBootstrapOwner.
SelectBootstrapOwner(known) == Min(known)

\* The key is empty or names a shard that this evaluation does not know.
NeedsOwner_Lowest(s) == ownerKey = NoShard \/ ownerKey # SelectBootstrapOwner(servers[s])
NeedsOwner(s) == ownerKey = NoShard \/ ownerKey \notin servers[s]

\* Evaluate's answer.
Answer(s, owner) == IF owner = s THEN "yes" ELSE "no"

\* The answer when the key names a shard that the evaluation knows.
Accepted_Cached(s) == isOwner[s]
Accepted(s) == Answer(s, ownerKey)

\* No write.
AcceptKey(s) ==
    /\ s \in up
    /\ pc[s] = "key"
    /\ ~NeedsOwner(s)
    /\ isOwner' = [isOwner EXCEPT ![s] = Accepted(s)]
    /\ pc' = [pc EXCEPT ![s] = "idle"]
    /\ UNCHANGED <<registry, up, ownerKey, servers, selected, crashes>>

\* The evaluation selects an owner of its own ...
SelectOwner(s) ==
    /\ s \in up
    /\ pc[s] = "key"
    /\ NeedsOwner(s)
    /\ selected' = [selected EXCEPT ![s] = SelectBootstrapOwner(servers[s])]
    /\ pc' = [pc EXCEPT ![s] = "write"]
    /\ UNCHANGED <<registry, up, ownerKey, servers, isOwner, crashes>>

\* ... and writes it, whatever the key says by now.
WriteKey(s) ==
    /\ s \in up
    /\ pc[s] = "write"
    /\ ownerKey' = selected[s]
    /\ isOwner' = [isOwner EXCEPT ![s] = Answer(s, selected[s])]
    /\ pc' = [pc EXCEPT ![s] = "idle"]
    /\ UNCHANGED <<registry, up, servers, selected, crashes>>

\* A shard crashes; its registry entry stays.
Crash(s) ==
    /\ crashes < MaxCrashes
    /\ s \in up
    /\ crashes' = crashes + 1
    /\ up' = up \ {s}
    /\ isOwner' = [isOwner EXCEPT ![s] = "no"]
    /\ pc' = [pc EXCEPT ![s] = "idle"]
    /\ UNCHANGED <<registry, ownerKey, servers, selected>>

Evaluate(s) == ReadServers(s) \/ AcceptKey(s) \/ SelectOwner(s) \/ WriteKey(s)

Next == \E s \in Shards : Register(s) \/ Evaluate(s) \/ Crash(s)

\* Every shard starts, and a running shard keeps ticking.
Fairness == \A s \in Shards : WF_vars(Register(s)) /\ WF_vars(Evaluate(s))

Spec == Init /\ [][Next]_vars /\ Fairness

-----------------------------------------------------------------------------
\* Nobody is about to replace the key.
Settled ==
    /\ ownerKey # NoShard
    /\ \A s \in Shards : \/ pc[s] = "idle"
                         \/ pc[s] = "key" /\ ownerKey \in servers[s]

\* Once nobody is about to replace it, the owner key stays for ever, whoever joins or
\* crashes later: a later evaluation always knows the owner.
SettledStays == [][Settled => Settled' /\ ownerKey' = ownerKey]_vars

\* The shards that run agree on one owner, the one in the key.
Agreed == ownerKey # NoShard /\ \A s \in up : isOwner[s] = Answer(s, ownerKey)
=============================================================================
