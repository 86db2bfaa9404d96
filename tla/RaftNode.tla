------------------------------ MODULE RaftNode ------------------------------
(***************************************************************************)
(* The Raft state machine of crates/consensus/src/raft.rs and the decision *)
(* log of crates/consensus/src/log.rs, as operators.                       *)
(*                                                                         *)
(* A node is a record with the fields of RaftNode that the protocol reads. *)
(* The tick counters (election_elapsed, heartbeat_elapsed) are left out:   *)
(* a timeout may fire at any moment.  Every handler of the code returns    *)
(* here an outcome record                                                  *)
(*     node  : the node after the handler                                  *)
(*     saved : what the last persist_state call wrote, Nil if none was made *)
(*     send  : the envelopes of the returned RaftActions                   *)
(*     apply : the entries of the returned RaftAction::Apply               *)
(*     panic : take_unapplied sliced past the end of the log               *)
(* Each handler sends at most one message to a peer, so send is a set.     *)
(***************************************************************************)
EXTENDS Naturals, Sequences, FiniteSets, TLC

CONSTANTS Server,    \* node ids
          Command,   \* DecisionCommand values other than Noop
          Noop,      \* DecisionCommand::Noop
          Nil        \* Option::None; also "no usable file" for the disk

Entry == [term : Nat, command : Command \cup {Noop}]

Peers(i) == Server \ {i}

\* RaftNode::quorum: peers.len().div_ceil(2) + 1
quorum == ((Cardinality(Server) - 1) + 1) \div 2 + 1

PeerState == [next_index : Nat \ {0}, match_index : Nat]

ASSUME NilAssumption == Nil \notin Server /\ Nil \notin PeerState

\* peer_state is a map from peers to PeerState: Nil where it has no entry.
NoPeers == [p \in Server |-> Nil]

-----------------------------------------------------------------------------
(* DecisionLog *)

last_index(n) == Len(n.log)

last_term(n) == IF n.log = << >> THEN 0 ELSE n.log[Len(n.log)].term

\* get(index).map(|e| e.term).unwrap_or(0)
term_at(n, idx) == IF idx \in 1..Len(n.log) THEN n.log[idx].term ELSE 0

\* Mutant: the entry takes the index last_index() instead of the one after it.
MutSameIndex(n, t, c) ==
    LET e == [term |-> t, command |-> c]
    IN  [n EXCEPT !.log = IF @ = << >> THEN <<e>> ELSE [@ EXCEPT ![Len(@)] = e]]

append(n, t, c) == [n EXCEPT !.log = Append(@, [term |-> t, command |-> c])]

set_commit_index(n, ci) ==
    IF ci > n.commit_index
    THEN [n EXCEPT !.commit_index = IF ci < last_index(n) THEN ci ELSE last_index(n)]
    ELSE n

entries_from(n, next) == IF next = 0 THEN << >> ELSE SubSeq(n.log, next, Len(n.log))

unapplied(n) == SubSeq(n.log, n.last_applied + 1, n.commit_index)

\* The slice of take_unapplied ends past the vector: Rust panics.
take_panics(n) ==
    /\ n.last_applied < n.commit_index
    /\ n.commit_index > Len(n.log)

\* Mutant: last_applied is left where it was.
MutKeepsApplied(n) == n

mark_applied(n) ==
    IF n.last_applied < n.commit_index
    THEN [n EXCEPT !.last_applied = n.commit_index]
    ELSE n

\* Mutant: entries that are already there are appended again.
MutAppendAgain(log, prev, es) == log \o es

\* The loop of handle_append_req over req.entries: entry k of es belongs at
\* index prev + k; from the first entry that is missing or has another term,
\* the log is replaced by the received entries.
append_entries(log, prev, es) ==
    LET differs(k) == \/ prev + k > Len(log)
                      \/ log[prev + k].term # es[k].term
        new == {k \in 1..Len(es) : differs(k)}
    IN  IF new = {} THEN log
        ELSE LET k == CHOOSE x \in new : \A y \in new : x <= y
             IN  SubSeq(log, 1, prev + k - 1) \o SubSeq(es, k, Len(es))

-----------------------------------------------------------------------------
(* Construction and persistence *)

\* RaftNode::new
fresh == [role |-> "Follower", current_term |-> 0, voted_for |-> Nil,
          votes_received |-> {}, log |-> << >>, commit_index |-> 0,
          last_applied |-> 0, peer_state |-> NoPeers]

\* PersistedRaftState, what persist_state writes
snapshot(n) == [current_term |-> n.current_term, voted_for |-> n.voted_for,
                log |-> n.log, commit_index |-> n.commit_index,
                last_applied |-> n.last_applied]

\* with_persistence and restore_state: a missing or unparsable file leaves
\* the node as RaftNode::new made it.
restore(d) ==
    IF d = Nil THEN fresh
    ELSE LET ci == IF d.commit_index < Len(d.log) THEN d.commit_index ELSE Len(d.log)
         IN  [fresh EXCEPT !.current_term = d.current_term,
                           !.voted_for = d.voted_for,
                           !.log = d.log,
                           !.commit_index = ci,
                           !.last_applied = IF d.last_applied < ci
                                            THEN d.last_applied ELSE ci]

outcome(n, saved, send) ==
    [node |-> n, saved |-> saved, send |-> send, apply |-> << >>, panic |-> FALSE]

\* persist_state, take_unapplied and Apply, in the order the code has them
apply_outcome(n, send) ==
    [node |-> mark_applied(n), saved |-> snapshot(n),
     send |-> IF take_panics(n) THEN {} ELSE send,
     apply |-> IF take_panics(n) THEN << >> ELSE unapplied(n),
     panic |-> take_panics(n)]

-----------------------------------------------------------------------------
(* Role changes and the leader's helpers *)

become_follower(n, t) ==
    [n EXCEPT !.current_term = t, !.voted_for = Nil, !.role = "Follower",
              !.peer_state = NoPeers, !.votes_received = {}]

send_append(i, n, p) ==
    LET next == n.peer_state[p].next_index
    IN  [type |-> "AppendReq", from |-> i, to |-> p, term |-> n.current_term,
         prev_log_idx |-> next - 1, prev_log_term |-> term_at(n, next - 1),
         entries |-> entries_from(n, next), leader_commit |-> n.commit_index]

\* broadcast_heartbeat and replicate_to_peers
broadcast_append(i, n) == {send_append(i, n, p) : p \in Peers(i)}

\* Mutant: the no-op is appended in the term of the last entry.
MutNoopTerm(n) == append(n, last_term(n), Noop)

append_noop(n) == append(n, n.current_term, Noop)

become_leader(i, n) ==
    LET noop == append_noop(n)
        led == [noop EXCEPT !.role = "Leader",
                            !.peer_state = [p \in Server |->
                                IF p = i THEN Nil
                                ELSE [next_index |-> last_index(noop) + 1,
                                      match_index |-> 0]]]
    IN  outcome(led, snapshot(led), broadcast_append(i, led))

\* Mutants: the leader commits alone; the leader does not count itself.
MutCommitAlone(n) == {k \in (n.commit_index + 1)..last_index(n) :
                        n.log[k].term = n.current_term}

MutLeaderNotCounted(n) ==
    {k \in (n.commit_index + 1)..last_index(n) :
        Cardinality({p \in Server : n.peer_state[p] # Nil
                                    /\ n.peer_state[p].match_index >= k}) >= quorum}

\* The indices that try_advance_commit_index may commit: of the current term
\* and, counting the leader, acknowledged by a quorum.
committable(n) ==
    LET replicated(k) ==
            Cardinality({p \in Server : /\ n.peer_state[p] # Nil
                                        /\ n.peer_state[p].match_index >= k})
    IN  {k \in (n.commit_index + 1)..last_index(n) :
            /\ n.log[k].term = n.current_term
            /\ replicated(k) + 1 >= quorum}

try_advance_commit_index(n) ==
    IF committable(n) = {} THEN outcome(n, Nil, {})
    ELSE LET k == CHOOSE x \in committable(n) : \A y \in committable(n) : y <= x
         IN  apply_outcome(set_commit_index(n, k), {})

-----------------------------------------------------------------------------
(* Timers and proposals *)

start_election(i, n) ==
    LET cand == [n EXCEPT !.current_term = @ + 1, !.role = "Candidate",
                          !.voted_for = i, !.votes_received = {i}]
    IN  IF 1 >= quorum THEN become_leader(i, cand)
        ELSE outcome(cand, snapshot(cand),
                 {[type |-> "VoteReq", from |-> i, to |-> p,
                   term |-> cand.current_term, last_log_idx |-> last_index(n),
                   last_log_term |-> last_term(n)] : p \in Peers(i)})

\* tick on a leader
heartbeat(i, n) == outcome(n, Nil, broadcast_append(i, n))

propose(i, n, c) ==
    LET m == append(n, n.current_term, c)
    IN  outcome(m, snapshot(m), broadcast_append(i, m))

-----------------------------------------------------------------------------
(* Message handlers *)

vote_resp(i, to, t, granted) ==
    [type |-> "VoteResp", from |-> i, to |-> to, term |-> t, vote_granted |-> granted]

append_resp(i, to, t, ok, match) ==
    [type |-> "AppendResp", from |-> i, to |-> to, term |-> t,
     success |-> ok, match_index |-> match]

\* Mutant: requests of older terms are not refused.
MutNeverStale(n, m) == FALSE

stale(n, m) == m.term < n.current_term

log_ok(n, m) == \/ m.last_log_term > last_term(n)
                \/ /\ m.last_log_term = last_term(n)
                   /\ m.last_log_idx >= last_index(n)

\* Mutants: votes are not remembered; a granted vote is not persisted.
MutVoteAgain(n, m) == TRUE

can_vote(n, m) == n.voted_for \in {Nil, m.from}

MutVoteNotSaved(n, m) ==
    LET granted == log_ok(n, m) /\ can_vote(n, m)
    IN  [node |-> IF granted THEN [n EXCEPT !.voted_for = m.from] ELSE n,
         granted |-> granted, saves |-> FALSE]

vote(n, m) ==
    LET granted == log_ok(n, m) /\ can_vote(n, m)
    IN  [node |-> IF granted THEN [n EXCEPT !.voted_for = m.from] ELSE n,
         granted |-> granted, saves |-> granted]

handle_vote_req(i, n, m) ==
    LET newer == m.term > n.current_term
        v == vote(IF newer THEN become_follower(n, m.term) ELSE n, m)
    IN  IF stale(n, m)
        THEN outcome(n, Nil, {vote_resp(i, m.from, n.current_term, FALSE)})
        ELSE outcome(v.node, IF newer \/ v.saves THEN snapshot(v.node) ELSE Nil,
                     {vote_resp(i, m.from, v.node.current_term, v.granted)})

handle_vote_resp(i, n, m) ==
    IF m.term > n.current_term
    THEN LET f == become_follower(n, m.term) IN outcome(f, snapshot(f), {})
    ELSE IF n.role # "Candidate" \/ ~m.vote_granted
    THEN outcome(n, Nil, {})
    ELSE LET v == [n EXCEPT !.votes_received = @ \cup {m.from}]
         IN  IF Cardinality(v.votes_received) >= quorum
             THEN become_leader(i, v) ELSE outcome(v, Nil, {})

\* The consistency check on the entry before the ones that are sent
prev_ok(n, m) == \/ m.prev_log_idx = 0
                 \/ /\ m.prev_log_idx \in 1..Len(n.log)
                    /\ n.log[m.prev_log_idx].term = m.prev_log_term

handle_append_req(i, n, m) ==
    LET f == become_follower(n, m.term)
        g == set_commit_index(
                 [f EXCEPT !.log = append_entries(@, m.prev_log_idx, m.entries)],
                 m.leader_commit)
    IN  IF stale(n, m)
        THEN outcome(n, Nil, {append_resp(i, m.from, n.current_term, FALSE, 0)})
        ELSE IF ~prev_ok(f, m)
        THEN outcome(f, snapshot(f),
                     {append_resp(i, m.from, f.current_term, FALSE, last_index(f))})
        ELSE apply_outcome(g,
                     {append_resp(i, m.from, g.current_term, TRUE, last_index(g))})

\* Mutants: next_index is rolled back to 0; it is not rolled back.
MutToZero(next, m) == IF m.match_index > 0 THEN m.match_index + 1
                      ELSE IF next > 0 THEN next - 1 ELSE 0

MutNoRollBack(next, m) == next

\* saturating_sub(1).max(1), or the follower's hint
roll_back(next, m) == IF m.match_index > 0 THEN m.match_index + 1
                      ELSE IF next > 1 THEN next - 1 ELSE 1

handle_append_resp(i, n, m) ==
    LET acked == [n EXCEPT !.peer_state[m.from] =
                     [next_index |-> m.match_index + 1, match_index |-> m.match_index]]
        back == [n EXCEPT !.peer_state[m.from].next_index = roll_back(@, m)]
    IN  IF m.term > n.current_term
        THEN LET f == become_follower(n, m.term) IN outcome(f, snapshot(f), {})
        ELSE IF n.role # "Leader" THEN outcome(n, Nil, {})
        ELSE IF m.success THEN try_advance_commit_index(acked)
        ELSE outcome(back, Nil, {send_append(i, back, m.from)})

\* RaftNode::step
step(i, n, m) ==
    CASE m.type = "VoteReq"    -> handle_vote_req(i, n, m)
      [] m.type = "VoteResp"   -> handle_vote_resp(i, n, m)
      [] m.type = "AppendReq"  -> handle_append_req(i, n, m)
      [] m.type = "AppendResp" -> handle_append_resp(i, n, m)

-----------------------------------------------------------------------------
(* The ranges of the Rust types *)

NodeType ==
    [role : {"Follower", "Candidate", "Leader"}, current_term : Nat,
     voted_for : Server \cup {Nil}, votes_received : SUBSET Server,
     log : Seq(Entry), commit_index : Nat, last_applied : Nat,
     peer_state : [Server -> PeerState \cup {Nil}]]

DiskType == [current_term : Nat, voted_for : Server \cup {Nil}, log : Seq(Entry),
             commit_index : Nat, last_applied : Nat]

ASSUME DiskAssumption == Nil \notin DiskType

Message ==
    [type : {"VoteReq"}, from : Server, to : Server, term : Nat,
     last_log_idx : Nat, last_log_term : Nat]
    \cup [type : {"VoteResp"}, from : Server, to : Server, term : Nat,
          vote_granted : BOOLEAN]
    \cup [type : {"AppendReq"}, from : Server, to : Server, term : Nat,
          prev_log_idx : Nat, prev_log_term : Nat, entries : Seq(Entry),
          leader_commit : Nat]
    \cup [type : {"AppendResp"}, from : Server, to : Server, term : Nat,
          success : BOOLEAN, match_index : Nat]

\* A log whose terms never go down and are none above t
Ordered(log, t) ==
    /\ \A k \in 1..Len(log) : log[k].term \in 1..t
    /\ \A k, l \in 1..Len(log) : k <= l => log[k].term <= log[l].term

-----------------------------------------------------------------------------

\* The handlers compare ids for equality only: replicas are interchangeable.
Symmetry == Permutations(Server)
=============================================================================
