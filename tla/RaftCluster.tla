---------------------------- MODULE RaftCluster ----------------------------
(***************************************************************************)
(* The replicas as NodeRunner (crates/consensus/src/node.rs) drives them   *)
(* in one process: a bounded FIFO channel into each replica, shared by its *)
(* peers.  One runner task per replica waits for a tick or an envelope,    *)
(* runs the handler under the lock of inner, and then sends the envelopes  *)
(* of the handler one by one, waiting while a receiver's channel is full.  *)
(* Nothing is lost, repeated or reordered on the way from one runner to    *)
(* another unless the receiver has stopped.  RAFT_STATE_DIR is unset: a    *)
(* replica that stops does not come back.                                  *)
(***************************************************************************)
EXTENDS RaftNode

CONSTANTS Capacity,   \* of the inbound channels (256 in the code)
          MaxElections, \* election timeouts that expire in a behaviour
          MaxLog,     \* no command is proposed on a log of this length
          MaxBeats,   \* heartbeat ticks in a behaviour
          MaxStops    \* replicas that stop in a behaviour

ASSUME ClusterAssumption ==
    /\ Capacity \in Nat \ {0}
    /\ MaxElections \in Nat /\ MaxLog \in Nat /\ MaxBeats \in Nat /\ MaxStops \in Nat

VARIABLES node,     \* inner: the RaftNode of each runner
          inbox,    \* inbound_rx
          outbox,   \* envelopes the runner still has to route
          applied,  \* what apply_fn has been given
          alive,    \* runners whose loop runs
          beats,    \* heartbeat ticks so far
          elections \* election timeouts so far

vars == <<node, inbox, outbox, applied, alive, beats, elections>>

Init ==
    /\ node = [i \in Server |-> fresh]
    /\ inbox = [i \in Server |-> << >>]
    /\ outbox = [i \in Server |-> {}]
    /\ applied = [i \in Server |-> << >>]
    /\ alive = Server
    /\ beats = 0
    /\ elections = 0

\* The runner is in select!: it has dispatched all of its last actions.
Idle(i) == i \in alive /\ outbox[i] = {}

\* The part of a handler that dispatch performs: Apply is done at once, the
\* envelopes wait in outbox.  A panic ends the task.
Perform(i, r) ==
    /\ node' = [node EXCEPT ![i] = r.node]
    /\ outbox' = [outbox EXCEPT ![i] = @ \cup r.send]
    /\ applied' = [applied EXCEPT ![i] = @ \o r.apply]
    /\ alive' = IF r.panic THEN alive \ {i} ELSE alive

Timeout(i) ==
    /\ Idle(i)
    /\ node[i].role \in {"Follower", "Candidate"}
    /\ elections < MaxElections
    /\ elections' = elections + 1
    /\ Perform(i, start_election(i, node[i]))
    /\ UNCHANGED <<inbox, beats>>

Heartbeat(i) ==
    /\ Idle(i)
    /\ node[i].role = "Leader"
    /\ beats < MaxBeats
    /\ beats' = beats + 1
    /\ Perform(i, heartbeat(i, node[i]))
    /\ UNCHANGED <<inbox, elections>>

Receive(i) ==
    /\ Idle(i)
    /\ inbox[i] # << >>
    /\ inbox' = [inbox EXCEPT ![i] = Tail(@)]
    /\ Perform(i, step(i, node[i], Head(inbox[i])))
    /\ UNCHANGED <<beats, elections>>

\* Mutant: the caller does not look at the role.
MutProposeAnywhere(i, c) ==
    /\ i \in alive
    /\ last_index(node[i]) < MaxLog
    /\ Perform(i, outcome(append(node[i], node[i].current_term, c), Nil, {}))
    /\ UNCHANGED <<inbox, beats, elections>>

\* A caller locks inner, proposes and routes the returned actions itself.
Propose(i, c) ==
    /\ i \in alive
    /\ node[i].role = "Leader"
    /\ last_index(node[i]) < MaxLog
    /\ Perform(i, propose(i, node[i], c))
    /\ UNCHANGED <<inbox, beats, elections>>

\* route: send().await returns once there is room; a closed channel drops the
\* envelope with a warning.
Route(i, e) ==
    /\ i \in alive
    /\ e \in outbox[i]
    /\ outbox' = [outbox EXCEPT ![i] = @ \ {e}]
    /\ IF e.to \in alive
       THEN /\ Len(inbox[e.to]) < Capacity
            /\ inbox' = [inbox EXCEPT ![e.to] = Append(@, e)]
       ELSE UNCHANGED inbox
    /\ UNCHANGED <<node, applied, alive, beats, elections>>

\* The task is aborted (or the process of the replica dies): its receiver is
\* dropped and what it had not routed is gone.
Stop(i) ==
    /\ i \in alive
    /\ Cardinality(Server \ alive) < MaxStops
    /\ alive' = alive \ {i}
    /\ inbox' = [inbox EXCEPT ![i] = << >>]
    /\ outbox' = [outbox EXCEPT ![i] = {}]
    /\ UNCHANGED <<node, applied, beats, elections>>

Next ==
    \E i \in Server :
        \/ Timeout(i) \/ Heartbeat(i) \/ Receive(i) \/ Stop(i)
        \/ \E c \in Command : Propose(i, c)
        \/ \E e \in outbox[i] : Route(i, e)

Spec == Init /\ [][Next]_vars

\* Every runner that can route or take an envelope eventually does: tokio
\* polls woken tasks, and channel senders are woken in order.
FairSpec ==
    /\ Spec
    /\ \A i \in Server : /\ WF_vars(Receive(i))
                         /\ WF_vars(\E e \in outbox[i] : Route(i, e))

-----------------------------------------------------------------------------

\* TypeOK: at the end of a handler a runner holds at most the envelopes of that
\* handler and of concurrent proposals, and no channel is over its capacity.
TypeOK ==
    /\ alive \subseteq Server
    /\ \A i \in Server :
          /\ Len(inbox[i]) <= Capacity
          /\ \A k \in 1..Len(inbox[i]) : inbox[i][k].to = i /\ inbox[i][k].from # i
          /\ \A e \in outbox[i] : e.from = i /\ e.to # i

\* AppliedIsCommitted: what apply_fn has received is, entry by entry, the
\* replica's own log up to last_applied (take_unapplied skips nothing and
\* repeats nothing while the replica runs).
AppliedIsCommitted ==
    \A i \in Server : /\ Len(applied[i]) = node[i].last_applied
                      /\ node[i].last_applied <= Len(node[i].log)
                      /\ applied[i] = SubSeq(node[i].log, 1, node[i].last_applied)
                      /\ i \in alive => node[i].last_applied = node[i].commit_index

\* ElectionSafety: "only one leader ever holds commit authority at a time":
\* never two running leaders in one term.
ElectionSafety ==
    \A i, j \in alive :
        /\ node[i].role = "Leader" /\ node[j].role = "Leader"
        /\ node[i].current_term = node[j].current_term
        => i = j

\* CommitOnQuorum: commit_index is the "highest entry known to be safely
\* replicated on a quorum": every entry up to it is in the same place of the
\* logs of a quorum of replicas.
CommitOnQuorum ==
    \A i \in alive : \A k \in 1..node[i].commit_index :
        Cardinality({j \in Server : /\ k <= Len(node[j].log)
                                    /\ k <= Len(node[i].log)
                                    /\ node[j].log[k] = node[i].log[k]}) >= quorum

\* StateMachineSafety: no two replicas apply different entries at an index.
StateMachineSafety ==
    \A i, j \in Server : \A k \in 1..Len(applied[i]) :
        k <= Len(applied[j]) => applied[i][k] = applied[j][k]

\* NoGridlock: no set of running runners in which each is waiting to route to a
\* full channel of another: "Run the event loop until the inbound channel is
\* closed" (node.rs), with ticks and envelopes still being handled.
Blocked(i, j) == \E e \in outbox[i] : e.to = j /\ Len(inbox[j]) = Capacity

NoGridlock ==
    ~ \E S \in SUBSET alive \ {{}} :
        \A i \in S : /\ outbox[i] # {}
                     /\ \A e \in outbox[i] : e.to \in S /\ Blocked(i, e.to)

\* LogRepair: "Roll back next_index ... Retry": a follower that refuses a
\* leader's entries is eventually brought to the leader's log, unless the
\* leader or the follower stops, the leader is deposed or the runners are in
\* gridlock.
Matches(i, j) == /\ Len(node[i].log) <= Len(node[j].log)
                 /\ SubSeq(node[j].log, 1, Len(node[i].log)) = node[i].log

LogRepair ==
    \A i \in Server :
        node[i].role = "Leader"
            ~> \/ \A j \in alive : Matches(i, j)
               \/ i \notin alive
               \/ node[i].role # "Leader"
               \/ ~NoGridlock

\* LeaderCommits: a leader's log, the no-op "to commit previous terms' entries"
\* included, is eventually committed as far as it reaches, unless a runner
\* stops, the leader is deposed or the runners are in gridlock.
LeaderCommits ==
    \A i \in Server :
        node[i].role = "Leader"
            ~> \/ node[i].commit_index = last_index(node[i])
               \/ alive # Server
               \/ node[i].role # "Leader"
               \/ ~NoGridlock
=============================================================================
