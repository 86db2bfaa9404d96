--------------------------- MODULE MCRaftRefines ---------------------------
(* RaftCluster on a small cluster for TLC, with a history variable for the *)
(* envelopes sent so far, and the claim that it implements RaftAsync.      *)
EXTENDS RaftCluster

VARIABLE sent   \* every envelope any runner was given to route

HInit == Init /\ sent = {}

HNext == Next /\ sent' = sent \cup UNION {outbox'[i] : i \in Server}

HSpec == HInit /\ [][HNext]_<<vars, sent>>

\* An in-process cluster writes no files; with DiskFaults RaftAsync allows
\* that, as a persist_state that never succeeds.
Async == INSTANCE RaftAsync WITH
             disk <- [i \in Server |-> Nil], net <- sent, crashes <- 0,
             MaxTerm <- MaxElections, MaxCrashes <- 0, DiskFaults <- TRUE

\* Refines: every step of the runners and their channels is a step of the
\* replicas over the unreliable network, or leaves the replicas alone; what
\* holds of RaftAsync with its arbitrary delivery holds of NodeRunner.
Refines == Async!Spec

\* Bound: a heartbeat, a stop or a proposed command, one of them in a behaviour.
OneExtra ==
    beats + Cardinality(Server \ alive)
          + Cardinality({n \in {2} : \E i \in Server : Len(node[i].log) >= n}) <= 1
=============================================================================
