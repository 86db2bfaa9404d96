----------------------------- MODULE RaftProofs -----------------------------
(***************************************************************************)
(* Proofs about RaftAsync, for any set of replicas, any bounds and a disk  *)
(* that may fail, from what RaftNodeProofs shows of each handler.          *)
(***************************************************************************)
EXTENDS RaftAsync, RaftNodeProofs

-----------------------------------------------------------------------------
(* The inductive invariant of the whole system *)

IndInv ==
    /\ DOMAIN node = Server /\ node = [i \in Server |-> node[i]]
    /\ DOMAIN disk = Server /\ disk = [i \in Server |-> disk[i]]
    /\ \A i \in Server : NodeOK(i, node[i]) /\ DiskOK(disk[i])
    /\ \A m \in net : MsgOK(m)
    /\ ~DiskFaults => \A i \in Server : Holds(restore(disk[i]), node[i])
    /\ crashes \in Nat

\* What a step of one replica does to the others, and to its term and its log.
StepInv(i) ==
    /\ \A j \in Server \ {i} : node'[j] = node[j]
    /\ ~DiskFaults /\ crashes' = crashes => node[i].current_term <= node'[i].current_term
    /\ node[i].role = "Leader" /\ node'[i].role = "Leader" =>
           Prefix(node[i].log, node'[i].log)

\* Whatever a handler returns, and however persist_state and a panic end,
\* the replica's new state, its file and the network are sound again.
LEMMA FinishOK ==
    ASSUME IndInv, NEW i \in Server, NEW r, OutcomeOK(i, node[i], r), Finish(i, r)
    PROVE  IndInv' /\ StepInv(i)
<1>1. PICK d \in persist_state(disk[i], r.saved) :
        /\ disk' = [disk EXCEPT ![i] = d]
        /\ node' = [node EXCEPT ![i] = IF r.panic THEN restore(d) ELSE r.node]
  BY DEF Finish
<1> DEFINE n2 == IF r.panic THEN restore(d) ELSE r.node
<1>2. DiskOK(d) /\ DiskOK(disk[i]) /\ NodeOK(i, node[i])
  <2>1. d \in {r.saved, disk[i], Nil}
    BY <1>1 DEF persist_state
  <2>2. QED
    BY <2>1 DEF OutcomeOK, IndInv, DiskOK
<1>3. /\ NodeOK(i, restore(d)) /\ restore(d).role = "Follower"
      /\ d # Nil => Holds(d, restore(d))
  BY <1>2, RestoreOK
<1>4. NodeOK(i, n2)
  BY <1>3 DEF OutcomeOK
<1>5. ~DiskFaults => Holds(restore(d), n2)
  <2>1. SUFFICES ASSUME ~DiskFaults PROVE Holds(restore(d), n2)
    OBVIOUS
  <2>2. CASE r.saved = Nil
    <3>1. d = disk[i]
      BY <1>1, <2>2 DEF persist_state
    <3>2. Holds(restore(d), node[i])
      BY <3>1, <2>1 DEF IndInv
    <3>3. Holds(node[i], r.node) /\ ~r.panic
      BY <2>2 DEF OutcomeOK
    <3>4. QED
      BY <3>2, <3>3 DEF Holds
  <2>3. CASE r.saved # Nil
    <3>1. d = r.saved
      BY <1>1, <2>1, <2>3 DEF persist_state
    <3>2. Holds(d, restore(d)) /\ Holds(d, r.node)
      BY <3>1, <2>3, <1>3 DEF OutcomeOK
    <3>3. QED
      BY <3>2 DEF Holds
  <2>4. QED
    BY <2>2, <2>3
<1>6. ~DiskFaults => node[i].current_term <= n2.current_term
  <2>1. SUFFICES ASSUME ~DiskFaults PROVE node[i].current_term <= n2.current_term
    OBVIOUS
  <2>2. r.panic => r.saved # Nil /\ d = r.saved
    BY <1>1, <2>1 DEF OutcomeOK, persist_state
  <2>3. QED
    BY <2>2, <1>3 DEF OutcomeOK, Holds
<1>7. node[i].role = "Leader" /\ n2.role = "Leader" => Prefix(node[i].log, n2.log)
  BY <1>3 DEF OutcomeOK
<1> HIDE DEF n2
<1>8. /\ node' = [node EXCEPT ![i] = n2] /\ disk' = [disk EXCEPT ![i] = d]
      /\ node'[i] = n2 /\ disk'[i] = d
      /\ \A j \in Server \ {i} : node'[j] = node[j] /\ disk'[j] = disk[j]
      /\ DOMAIN node' = Server /\ DOMAIN disk' = Server
      /\ node' = [j \in Server |-> node'[j]] /\ disk' = [j \in Server |-> disk'[j]]
  BY <1>1 DEF IndInv, n2
<1>9. net' = net \cup r.send /\ crashes' = crashes
  BY DEF Finish
<1>10. \A j \in Server : NodeOK(j, node'[j]) /\ DiskOK(disk'[j])
  BY <1>2, <1>4, <1>8 DEF IndInv
<1>11. \A m \in net' : MsgOK(m)
  BY <1>9 DEF IndInv, OutcomeOK
<1>12. ~DiskFaults => \A j \in Server : Holds(restore(disk'[j]), node'[j])
  BY <1>5, <1>8 DEF IndInv
<1>13. IndInv'
  BY <1>8, <1>9, <1>10, <1>11, <1>12 DEF IndInv
<1>14. StepInv(i)
  BY <1>6, <1>7, <1>8 DEF StepInv
<1>15. QED
  BY <1>13, <1>14

(* A restart from a good file, or from none. *)
LEMMA RestartOK ==
    ASSUME IndInv, NEW i \in Server, Restart(i)
    PROVE  IndInv' /\ StepInv(i)
<1>1. PICK d \in {disk[i], Nil} :
        /\ disk' = [disk EXCEPT ![i] = d]
        /\ node' = [node EXCEPT ![i] = restore(d)]
  BY DEF Restart
<1>2. DiskOK(d)
  BY DEF IndInv, DiskOK
<1>3. NodeOK(i, restore(d)) /\ restore(d).role = "Follower"
  BY <1>2, RestoreOK
<1>4. /\ node'[i] = restore(d) /\ disk'[i] = d
      /\ \A j \in Server \ {i} : node'[j] = node[j] /\ disk'[j] = disk[j]
      /\ DOMAIN node' = Server /\ DOMAIN disk' = Server
      /\ node' = [j \in Server |-> node'[j]] /\ disk' = [j \in Server |-> disk'[j]]
  BY <1>1 DEF IndInv
<1>5. net' = net /\ crashes' = crashes + 1 /\ crashes \in Nat
  BY DEF Restart, IndInv
<1>6. \A j \in Server : NodeOK(j, node'[j]) /\ DiskOK(disk'[j])
  BY <1>2, <1>3, <1>4 DEF IndInv
<1>7. ~DiskFaults => \A j \in Server : Holds(restore(disk'[j]), node'[j])
  BY <1>4 DEF IndInv, Holds
<1>8. IndInv'
  BY <1>4, <1>5, <1>6, <1>7 DEF IndInv
<1>9. StepInv(i)
  BY <1>3, <1>4, <1>5 DEF StepInv
<1>10. QED
  BY <1>8, <1>9

(* The invariant holds at the start. *)
LEMMA InitOK == Init => IndInv
<1> SUFFICES ASSUME Init PROVE IndInv
  OBVIOUS
<1>1. /\ node = [i \in Server |-> fresh] /\ disk = [i \in Server |-> Nil]
      /\ net = {} /\ crashes = 0
  BY DEF Init
<1>2. \A i \in Server : NodeOK(i, node[i]) /\ DiskOK(disk[i])
  BY <1>1, FreshOK DEF DiskOK
<1>3. \A i \in Server : Holds(restore(disk[i]), node[i])
  BY <1>1 DEF restore, Holds
<1>4. QED
  BY <1>1, <1>2, <1>3 DEF IndInv

\* Every step is the step of one replica.
LEMMA NextOK ==
    ASSUME IndInv, Next
    PROVE  IndInv' /\ \E i \in Server : StepInv(i)
<1>1. ASSUME NEW i \in Server, Timeout(i) PROVE IndInv' /\ StepInv(i)
  <2>1. NodeOK(i, node[i]) /\ node[i].role # "Leader"
    BY <1>1 DEF IndInv, Timeout
  <2>2. OutcomeOK(i, node[i], start_election(i, node[i]))
    BY <2>1, StartElectionOK
  <2>3. QED
    BY <1>1, <2>2, FinishOK DEF Timeout
<1>2. ASSUME NEW i \in Server, Heartbeat(i) PROVE IndInv' /\ StepInv(i)
  <2>1. NodeOK(i, node[i]) /\ node[i].role = "Leader"
    BY <1>2 DEF IndInv, Heartbeat
  <2>2. OutcomeOK(i, node[i], heartbeat(i, node[i]))
    BY <2>1, HeartbeatOK
  <2>3. QED
    BY <1>2, <2>2, FinishOK DEF Heartbeat
<1>3. ASSUME NEW i \in Server, NEW c \in Command, Propose(i, c)
      PROVE  IndInv' /\ StepInv(i)
  <2>1. NodeOK(i, node[i]) /\ node[i].role = "Leader"
    BY <1>3 DEF IndInv, Propose
  <2>2. OutcomeOK(i, node[i], propose(i, node[i], c))
    BY <2>1, ProposeOK
  <2>3. QED
    BY <1>3, <2>2, FinishOK DEF Propose
<1>4. ASSUME NEW m \in net, Receive(m) PROVE m.to \in Server /\ IndInv' /\ StepInv(m.to)
  <2>1. MsgOK(m) /\ m.to \in Server
    BY <1>4 DEF IndInv, MsgOK, Message
  <2>2. NodeOK(m.to, node[m.to])
    BY <2>1 DEF IndInv
  <2>3. OutcomeOK(m.to, node[m.to], step(m.to, node[m.to], m))
    BY <2>1, <2>2, StepOK
  <2>4. QED
    BY <1>4, <2>1, <2>3, FinishOK DEF Receive
<1>5. QED
  BY <1>1, <1>2, <1>3, <1>4, RestartOK DEF Next

\* A step that changes nothing preserves the invariant.
LEMMA StutterOK ==
    ASSUME IndInv, UNCHANGED vars
    PROVE  IndInv'
  BY DEF IndInv, vars

\* The invariant holds in every state a cluster of RaftNode replicas reaches.
THEOREM Invariance == Spec => []IndInv
<1>1. IndInv /\ [Next]_vars => IndInv'
  BY NextOK, StutterOK
<1>2. QED
  BY <1>1, InitOK, PTL DEF Spec

-----------------------------------------------------------------------------
(* The theorems, for every set of servers and commands and every bound *)

\* Every replica, file and envelope keeps the ranges of the Rust types through
\* elections, replication, crashes and failed writes.
THEOREM TypeCorrect == Spec => []TypeOK
<1>1. IndInv => TypeOK
  BY DEF IndInv, TypeOK, NodeOK, DiskOK, MsgOK
<1>2. QED
  BY <1>1, Invariance, PTL

\* The terms in every log never go down and stay below current_term, so the
\* last entry handle_vote_req compares is the newest the log holds.
THEOREM LogsAreOrdered == Spec => []LogsOrdered
<1>1. IndInv => LogsOrdered
  BY DEF IndInv, LogsOrdered, NodeOK
<1>2. QED
  BY <1>1, Invariance, PTL

\* The expect("unknown peer") of handle_append_resp cannot panic, and a leader
\* holds a quorum of votes and ends its log in its own term.
THEOREM LeadersAreReady == Spec => []LeaderReady
<1>1. IndInv => LeaderReady
  <2> SUFFICES ASSUME IndInv, NEW i \in Server, node[i].role = "Leader"
               PROVE  /\ \A p \in Peers(i) : node[i].peer_state[p] # Nil
                      /\ node[i].voted_for = i
                      /\ Cardinality(node[i].votes_received) >= quorum
                      /\ last_term(node[i]) = node[i].current_term
    BY DEF LeaderReady
  <2>1. NodeOK(i, node[i])
    BY DEF IndInv
  <2>2. QED
    BY <2>1 DEF NodeOK, last_term
<1>2. QED
  BY <1>1, Invariance, PTL

\* What restore_state would give back after a crash is, in every state, the
\* term, the vote and the log the replica acts on, provided that persist_state
\* succeeds.
THEOREM StateIsDurable == Spec => []Durable
<1>1. IndInv => Durable
  BY DEF IndInv, Durable, Holds
<1>2. QED
  BY <1>1, Invariance, PTL

\* No handler truncates or rewrites the log of a replica that stays leader.
THEOREM LeadersOnlyAppend == Spec => LeaderAppendOnly
<1>1. IndInv /\ [Next]_vars =>
        [\A i \in Server :
            node[i].role = "Leader" /\ node'[i].role = "Leader" =>
                /\ Len(node[i].log) <= Len(node'[i].log)
                /\ node[i].log = SubSeq(node'[i].log, 1, Len(node[i].log))]_vars
  <2> SUFFICES ASSUME IndInv, Next, NEW i \in Server,
                      node[i].role = "Leader", node'[i].role = "Leader"
               PROVE  Prefix(node[i].log, node'[i].log)
    BY DEF Prefix
  <2>1. PICK j \in Server : StepInv(j)
    BY NextOK
  <2>2. CASE i = j
    BY <2>1, <2>2 DEF StepInv
  <2>3. CASE i # j
    <3>1. node'[i] = node[i] /\ node[i].log \in Seq(Entry)
      BY <2>1, <2>3 DEF StepInv, IndInv, NodeOK, NodeType
    <3>2. QED
      BY <3>1, PrefixSelf
  <2>4. QED
    BY <2>2, <2>3
<1>2. QED
  BY <1>1, Invariance, PTL DEF Spec, LeaderAppendOnly

\* Outside crashes and failed writes no handler lowers current_term, although
\* become_follower assigns it without comparing.
THEOREM TermsNeverFall == Spec => TermMonotone
<1>1. IndInv /\ [Next]_vars =>
        [~DiskFaults /\ crashes' = crashes =>
            \A i \in Server : node[i].current_term <= node'[i].current_term]_vars
  <2> SUFFICES ASSUME IndInv, Next, ~DiskFaults, crashes' = crashes, NEW i \in Server
               PROVE  node[i].current_term <= node'[i].current_term
    OBVIOUS
  <2>1. PICK j \in Server : StepInv(j)
    BY NextOK
  <2>2. node[i].current_term \in Nat
    BY DEF IndInv, NodeOK, NodeType
  <2>3. QED
    BY <2>1, <2>2 DEF StepInv
<1>2. QED
  BY <1>1, Invariance, PTL DEF Spec, TermMonotone
=============================================================================
