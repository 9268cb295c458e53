----------------------- MODULE MCHandoffCoordination -----------------------
(***************************************************************************)
(* Three protocols over the internal database that shards follow around    *)
(* a handoff, for TLC: a behaviour chooses one of them and runs it.        *)
(***************************************************************************)
EXTENDS OwnershipElection, NaiveHandoff, AuthorityTelemetry

VARIABLE part  \* the protocol that this behaviour runs

MCInit ==
    /\ part \in {"election", "naive", "telemetry"}
    /\ Init /\ NHInit /\ TelemetryInit

MCNext ==
    /\ UNCHANGED part
    /\ \/ part = "election" /\ Next /\ UNCHANGED <<nhVars, telemetryVars>>
       \/ part = "naive" /\ NHNext /\ UNCHANGED <<vars, telemetryVars>>
       \/ part = "telemetry" /\ TelemetryNext /\ UNCHANGED <<vars, nhVars>>

\* The fairness of each protocol; the protocols that do not run owe nothing.
MCFairness ==
    /\ \A s \in Shards :
        /\ WF_vars(part = "election" /\ Register(s))
        /\ WF_vars(part = "election" /\ Evaluate(s))
    \* A shard keeps ticking, and the ownership interval comes to its end.
    /\ \A s \in NHShards :
        /\ WF_nhVars(part = "naive" /\ NHTickStep(s))
        /\ SF_nhVars(part = "naive" /\ NHEvaluation(s))
    \* Handoffs come to their end, and a shard goes on publishing.
    /\ SF_telemetryVars(part = "telemetry" /\ \E m \in moving : FinishMove(m))
    /\ \A s \in Publishers :
        /\ WF_telemetryVars(part = "telemetry" /\ PublishFromTracker(s))
        /\ WF_telemetryVars(part = "telemetry" /\ TelemetryUpdate(s))

MCSpec == MCInit /\ [][MCNext]_<<part, vars, nhVars, telemetryVars>> /\ MCFairness

\* The shards that run come to agree for ever on one owner of the test entities, the one
\* in the key.
OwnerAgreed == <>[](part = "election" => Agreed)

\* Once the entity stays where it is, exactly one shard simulates it for good, the one
\* that the key names, whatever was lost, late or written twice before.
NaiveSettled == <>[](part = "naive" => OneSimulates)

\* When the handoffs are over, row, snapshot and authority before come to name the shard
\* that has the entity, whatever its predecessor wrote late, and stay so.
TelemetrySettled == <>[](part = "telemetry" => AllNameTracker)
=============================================================================
