----------------------------- MODULE HighStakes -----------------------------
(***************************************************************************)
(* What guards a high-stakes transaction: votes, the partition detector,   *)
(* and the ABCI bridge over the quorum gate.                               *)
(***************************************************************************)
EXTENDS Integers, FiniteSets, Sequences

(***************************************************************************)
(* QuorumTracker: the votes of a cluster on one high-stakes transaction.   *)
(***************************************************************************)

CONSTANTS Member, Quorum

ASSUME QuorumAssumption == IsFiniteSet(Member) /\ Quorum \in 1..Cardinality(Member)

VARIABLE votes   \* the vote of each member, "None" before it

Choice == {"Approve", "Reject"}

VotesInit == votes = [n \in Member |-> "None"]

VotesTypeOK == votes \in [Member -> Choice \cup {"None"}]

cast(v) == {n \in Member : votes[n] = v}
voted == {n \in Member : votes[n] # "None"}

cannot_approve == Cardinality(cast("Reject")) > Cardinality(Member) - Quorum

decision ==
  IF Cardinality(cast("Approve")) >= Quorum THEN "Approved"
  ELSE IF cannot_approve \/ Cardinality(voted) >= Cardinality(Member) THEN "Rejected"
  ELSE "Pending"

\* A later vote of a node replaces its earlier one.
vote(n, v) == votes' = [votes EXCEPT ![n] = v]

VotesNext == \E n \in Member, v \in Choice : vote(n, v)

VotesSpec == VotesInit /\ [][VotesNext]_votes

---------------------------------------------------------------------------
(* Properties. *)

NoVoteTakenBack == \A n \in voted : votes'[n] = votes[n]

\* As long as no node takes a vote back, an outcome is final: votes that come
\* in later, in any order, change neither an approval nor a rejection.
DecisionFinal ==
  [decision # "Pending" /\ NoVoteTakenBack => decision' = decision]_votes

(***************************************************************************)
(* The detector every node keeps of the peers it hears from, under a       *)
(* network that splits in two and heals.                                   *)
(***************************************************************************)

CONSTANTS Peer, PeerQuorum, PeerTimeout

ASSUME PartitionAssumption ==
  /\ IsFiniteSet(Peer) /\ PeerQuorum \in Nat /\ 2 * PeerQuorum > Cardinality(Peer)
  /\ PeerTimeout \in Nat \ {0}

VARIABLES
  silence,         \* ticks since each node heard each other, up to the timeout
  side, splitFor   \* the side of the network a node is on, and since when

partitionVars == <<silence, side, splitFor>>

PartitionInit ==
  /\ silence = [n \in Peer |-> [m \in Peer \ {n} |-> 0]]
  /\ side = [n \in Peer |-> 1] /\ splitFor = 0

PartitionTypeOK ==
  /\ \A n \in Peer : silence[n] \in [Peer \ {n} -> 0..PeerTimeout]
  /\ side \in [Peer -> 1..2] /\ splitFor \in 0..PeerTimeout

is_split == \E n, m \in Peer : side[n] # side[m]
aged(t) == IF t < PeerTimeout THEN t + 1 ELSE t

record_heartbeat(n, m) ==
  /\ side[n] = side[m] /\ silence' = [silence EXCEPT ![n][m] = 0]
  /\ UNCHANGED <<side, splitFor>>

reachable_peers(n) == {m \in Peer \ {n} : silence[n][m] < PeerTimeout}
visible_cluster_size(n) == 1 + Cardinality(reachable_peers(n))

MutOffByOne(n) == visible_cluster_size(n) + 1 >= PeerQuorum
has_quorum(n) == visible_cluster_size(n) >= PeerQuorum

check_write(n, is_leader, policy) ==
  IF has_quorum(n) THEN "Proceed"
  ELSE IF policy = "ConsistencyOverAvailability" /\ is_leader THEN "StepDown"
  ELSE "ServiceUnavailable"

\* The environment: the network splits and heals, and time passes.
Split ==
  /\ ~is_split /\ side' \in [Peer -> 1..2]
  /\ UNCHANGED <<silence, splitFor>>

Heal ==
  /\ side' = [n \in Peer |-> 1] /\ splitFor' = 0
  /\ UNCHANGED silence

TimePasses ==
  /\ silence' = [n \in Peer |-> [m \in Peer \ {n} |-> aged(silence[n][m])]]
  /\ splitFor' = IF is_split THEN aged(splitFor) ELSE 0
  /\ UNCHANGED side

PartitionNext ==
  \/ \E n \in Peer : \E m \in Peer \ {n} : record_heartbeat(n, m)
  \/ Split \/ Heal \/ TimePasses

PartitionSpec == PartitionInit /\ [][PartitionNext]_partitionVars

---------------------------------------------------------------------------
(* Properties. *)

\* Once a split has outlasted the peer timeout, only nodes of one side find
\* a quorum and go on writing, although every node decides by itself.
NoSplitBrain ==
  splitFor = PeerTimeout =>
    \A n, m \in Peer, leader \in BOOLEAN, policy \in {"ConsistencyOverAvailability", "BestEffort"} :
      /\ check_write(n, leader, policy) = "Proceed" /\ check_write(m, TRUE, policy) = "Proceed"
      => side[n] = side[m]

(***************************************************************************)
(* The ABCI bridge that answers CheckTx and DeliverTx through validation,  *)
(* together with the quorum gate at the end of validation.                 *)
(***************************************************************************)

CONSTANTS Region, MinValidators, MinRegions

ASSUME BridgeAssumption == MinRegions \in Nat

VARIABLES
  deployment,  \* cluster size, fail-open switches, the validators' regions
  reply        \* the last answer of the bridge

bridgeVars == <<deployment, reply>>

Checks == {"Allow", "Deny", "CircuitBreak", "GoalClarificationRequired"}

BridgeInit ==
  /\ deployment \in [size : 1..4, fail_open : BOOLEAN, production : BOOLEAN, ack : BOOLEAN,
                     regions : UNION {[1..k -> Region] : k \in 0..3}]
  /\ reply = [op |-> "none", high |-> FALSE, anomaly |-> FALSE, decision |-> "none", code |-> -1]

BridgeTypeOK ==
  reply \in [op : {"none", "check", "deliver"}, high : BOOLEAN, anomaly : BOOLEAN, decision : Checks \cup {"none"},
             code : {-1, 0, 1, 2, 3, 10}]

---------------------------------------------------------------------------
(* The quorum gate of validate_inner and the bridge. *)

quorum_fail_open_allowed ==
  deployment.fail_open /\ (deployment.production => deployment.ack)

\* Only the node's own vote is ever counted.
effective_quorum == IF deployment.size >= 3 THEN 2 ELSE 1

validated(high, anomaly, checks) ==
  IF checks = "Allow" /\ (high \/ anomaly) /\ effective_quorum > 1 /\ ~quorum_fail_open_allowed
  THEN "Deny" ELSE checks

bft_ready ==
  /\ Len(deployment.regions) >= MinValidators
  /\ Cardinality({deployment.regions[i] : i \in DOMAIN deployment.regions}) >= MinRegions

plain_code(d) == [Allow |-> 0, Deny |-> 1, CircuitBreak |-> 2, GoalClarificationRequired |-> 3][d]

\* One local vote out of three decides nothing: a refusal is still pending.
delivered_code(high, d) ==
  IF high /\ (~bft_ready \/ Len(deployment.regions) < 2) THEN 10 ELSE plain_code(d)

check_tx ==
  /\ \E high, anomaly \in BOOLEAN, checks \in Checks :
       LET d == validated(high, anomaly, checks) IN
         reply' = [op |-> "check", high |-> high, anomaly |-> anomaly, decision |-> d,
                   code |-> plain_code(d)]
  /\ UNCHANGED deployment

deliver_tx ==
  /\ \E high, anomaly \in BOOLEAN, checks \in Checks :
       LET d == validated(high, anomaly, checks) IN
         reply' = [op |-> "deliver", high |-> high, anomaly |-> anomaly, decision |-> d,
                   code |-> delivered_code(high, d)]
  /\ UNCHANGED deployment

\* Both endpoints are for administrators, and take a request that decodes.
admin_abci_check_tx(mfa, decodes) == mfa /\ decodes /\ check_tx
admin_abci_deliver_tx(mfa, decodes) == mfa /\ decodes /\ deliver_tx

\* A call leaves nothing behind, so a behaviour makes one.
BridgeNext ==
  /\ reply.op = "none"
  /\ \E mfa, decodes \in BOOLEAN :
       admin_abci_check_tx(mfa, decodes) \/ admin_abci_deliver_tx(mfa, decodes)

BridgeSpec == BridgeInit /\ [][BridgeNext]_bridgeVars

---------------------------------------------------------------------------
(* Properties. *)

\* The bridge accepts a high-stakes transaction only when validation, with
\* its own quorum gate, allowed it and the validator set is spread widely
\* enough, over two regions unless the configured minimum is lower; a cluster
\* of three or more accepts none unless it may fail open.
HighStakesGuarded ==
  reply.op = "deliver" /\ reply.code = 0 /\ reply.high =>
    /\ reply.decision = "Allow" /\ (deployment.size >= 3 => quorum_fail_open_allowed)
    /\ Len(deployment.regions) >= MinValidators
    /\ MinRegions >= 2 => \E i, j \in DOMAIN deployment.regions : deployment.regions[i] # deployment.regions[j]
=============================================================================
