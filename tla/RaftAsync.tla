----------------------------- MODULE RaftAsync -----------------------------
(***************************************************************************)
(* RaftNode replicas over the weakest network the replicas may be given:   *)
(* NodeRunner hands envelopes for unwired peers to outbound_tx and says    *)
(* nothing of what carries them, so here a message may be delayed, lost,   *)
(* reordered or delivered again.  Replicas crash and restart from the file *)
(* persist_state writes, and that write may fail in the ways persist_state *)
(* only logs (the file keeps its old contents, or is left truncated).      *)
(***************************************************************************)
EXTENDS RaftNode

CONSTANTS MaxTerm,     \* no election is started in this term
          MaxLog,      \* no command is proposed on a log of this length
          MaxCrashes,  \* restarts in a behaviour
          DiskFaults   \* whether persist_state may fail

ASSUME BoundsAssumption ==
    /\ MaxTerm \in Nat /\ MaxLog \in Nat /\ MaxCrashes \in Nat
    /\ DiskFaults \in BOOLEAN

VARIABLES node,     \* the replicas
          disk,     \* node-{id}.json of each replica, Nil if unusable
          net,      \* every envelope sent so far
          crashes   \* number of restarts so far

vars == <<node, disk, net, crashes>>

Init ==
    /\ node = [i \in Server |-> fresh]
    /\ disk = [i \in Server |-> Nil]
    /\ net = {}
    /\ crashes = 0

\* persist_state: File::create truncates, then write_all and sync_all; each
\* failure is only logged.
persist_state(old, saved) ==
    IF saved = Nil THEN {old}
    ELSE IF DiskFaults THEN {saved, old, Nil} ELSE {saved}

\* A replica that panics in take_unapplied loses its runner task; it is back,
\* if at all, through with_persistence.
Finish(i, r) ==
    /\ \E d \in persist_state(disk[i], r.saved) :
          /\ disk' = [disk EXCEPT ![i] = d]
          /\ node' = [node EXCEPT ![i] = IF r.panic THEN restore(d) ELSE r.node]
    /\ net' = net \cup r.send
    /\ UNCHANGED crashes

\* tick on a follower or a candidate whose election timeout has elapsed
Timeout(i) ==
    /\ node[i].role \in {"Follower", "Candidate"}
    /\ node[i].current_term < MaxTerm
    /\ Finish(i, start_election(i, node[i]))

\* tick on a leader
Heartbeat(i) ==
    /\ node[i].role = "Leader"
    /\ Finish(i, heartbeat(i, node[i]))

Propose(i, c) ==
    /\ node[i].role = "Leader"
    /\ last_index(node[i]) < MaxLog
    /\ Finish(i, propose(i, node[i], c))

Receive(m) == Finish(m.to, step(m.to, node[m.to], m))

\* The process dies, possibly between File::create and write_all, and is
\* started again.
Restart(i) ==
    /\ crashes < MaxCrashes
    /\ crashes' = crashes + 1
    /\ \E d \in {disk[i], Nil} :
          /\ disk' = [disk EXCEPT ![i] = d]
          /\ node' = [node EXCEPT ![i] = restore(d)]
    /\ UNCHANGED net

Next ==
    \/ \E i \in Server : Timeout(i) \/ Heartbeat(i) \/ Restart(i)
    \/ \E i \in Server, c \in Command : Propose(i, c)
    \/ \E m \in net : Receive(m)

Spec == Init /\ [][Next]_vars

-----------------------------------------------------------------------------

\* TypeOK: every replica, every file and every envelope has the fields and
\* ranges of the Rust types.
TypeOK ==
    /\ node \in [Server -> NodeType]
    /\ DOMAIN disk = Server
    /\ \A i \in Server : disk[i] = Nil \/ disk[i] \in DiskType
    /\ net \subseteq Message
    /\ crashes \in Nat

-----------------------------------------------------------------------------
(* Safety *)

\* LogsOrdered: in every replica's log (raft.rs appends, truncates and copies
\* entries in three handlers) the terms never go down and none is above the
\* replica's current_term, whatever is lost, repeated, crashed or torn.
\* handle_vote_req compares logs by their last entry and relies on it.
LogsOrdered == \A i \in Server : Ordered(node[i].log, node[i].current_term)

\* LeaderReady: a leader has a peer_state entry for each of its peers, so the
\* expect("unknown peer") of handle_append_resp never panics; it has voted for
\* itself, holds the votes of a quorum, and its log ends in its own term.
LeaderReady ==
    \A i \in Server : node[i].role = "Leader" =>
        /\ \A p \in Peers(i) : node[i].peer_state[p] # Nil
        /\ node[i].voted_for = i
        /\ Cardinality(node[i].votes_received) >= quorum
        /\ last_term(node[i]) = node[i].current_term

\* LeaderAppendOnly: while a replica stays leader it only extends its log;
\* truncation (truncate_from in handle_append_req) happens to followers only.
LeaderAppendOnly ==
    [][\A i \in Server :
          node[i].role = "Leader" /\ node'[i].role = "Leader" =>
              /\ Len(node[i].log) <= Len(node'[i].log)
              /\ node[i].log = SubSeq(node'[i].log, 1, Len(node[i].log))]_vars

\* TermMonotone: while its process lives and its file can be written, a
\* replica's current_term never goes down: become_follower assigns the term it
\* is given without comparing, and a panicking handler has saved its term.
TermMonotone ==
    [][~DiskFaults /\ crashes' = crashes =>
         \A i \in Server : node[i].current_term <= node'[i].current_term]_vars

\* Durable: as long as persist_state succeeds, no replica has made a promise
\* that a restart forgets: restore_state gives back its term, its vote and its
\* log, so each message it has sent rests on what the file holds.
Durable ==
    ~DiskFaults =>
        \A i \in Server :
            /\ restore(disk[i]).current_term = node[i].current_term
            /\ restore(disk[i]).voted_for = node[i].voted_for
            /\ restore(disk[i]).log = node[i].log
-----------------------------------------------------------------------------

\* Bound: once a replica has restarted, only logs of one entry are explored.
ShortAfterCrash == crashes = 0 \/ \A i \in Server : Len(node[i].log) <= 1
=============================================================================
