------------------------- MODULE RaftClusterProofs -------------------------
(***************************************************************************)
(* Proof that the runners of NodeRunner and their channels implement the   *)
(* replicas over the unreliable network: every step of RaftCluster is a    *)
(* step of RaftAsync or leaves the replicas alone.  Any number of          *)
(* replicas, any capacity, any bounds.                                     *)
(***************************************************************************)
EXTENDS MCRaftRefines, RaftNodeProofs

(* The handlers of RaftAsync are the handlers of RaftCluster. *)

(* start_election is the same operator in both modules. *)
LEMMA SameElection ==
    ASSUME NEW i, NEW n
    PROVE  Async!start_election(i, n) = start_election(i, n)
BY Zenon DEF Async!start_election, start_election, Async!become_leader, become_leader,
     Async!quorum, quorum, Async!Cardinality, Cardinality, Async!outcome, outcome,
     Async!snapshot, snapshot, Async!Peers, Peers, Async!last_index, last_index,
     Async!last_term, last_term, Async!append_noop, append_noop, Async!append, append,
     Async!broadcast_append, broadcast_append, Async!send_append, send_append,
     Async!term_at, term_at, Async!entries_from, entries_from

(* So is heartbeat. *)
LEMMA SameHeartbeat ==
    ASSUME NEW i, NEW n
    PROVE  Async!heartbeat(i, n) = heartbeat(i, n)
BY Zenon DEF Async!heartbeat, heartbeat, Async!outcome, outcome, Async!Peers, Peers,
     Async!broadcast_append, broadcast_append, Async!send_append, send_append,
     Async!term_at, term_at, Async!entries_from, entries_from

(* So is propose. *)
LEMMA SamePropose ==
    ASSUME NEW i, NEW n, NEW c
    PROVE  Async!propose(i, n, c) = propose(i, n, c)
BY Zenon DEF Async!propose, propose, Async!outcome, outcome, Async!Peers, Peers,
     Async!snapshot, snapshot, Async!append, append,
     Async!broadcast_append, broadcast_append, Async!send_append, send_append,
     Async!term_at, term_at, Async!entries_from, entries_from

(* So is step, with every handler it calls. *)
LEMMA SameStep ==
    ASSUME NEW i, NEW n, NEW m
    PROVE  Async!step(i, n, m) = step(i, n, m)
<1>1. Async!handle_vote_req(i, n, m) = handle_vote_req(i, n, m)
  BY Zenon DEF Async!handle_vote_req, handle_vote_req, Async!vote, vote,
       Async!become_follower, become_follower, Async!NoPeers, NoPeers, Async!log_ok, log_ok,
       Async!can_vote, can_vote, Async!stale, stale, Async!last_index, last_index,
       Async!last_term, last_term, Async!outcome, outcome, Async!snapshot, snapshot,
       Async!vote_resp, vote_resp
<1>2. Async!handle_vote_resp(i, n, m) = handle_vote_resp(i, n, m)
  BY Zenon DEF Async!handle_vote_resp, handle_vote_resp, Async!become_follower,
       become_follower, Async!NoPeers, NoPeers, Async!become_leader, become_leader,
       Async!quorum, quorum, Async!Cardinality, Cardinality, Async!outcome, outcome,
       Async!snapshot, snapshot, Async!Peers, Peers, Async!last_index, last_index,
       Async!append_noop, append_noop, Async!append, append,
       Async!broadcast_append, broadcast_append, Async!send_append, send_append,
       Async!term_at, term_at, Async!entries_from, entries_from
<1>3. Async!handle_append_req(i, n, m) = handle_append_req(i, n, m)
  BY Zenon DEF Async!handle_append_req, handle_append_req, Async!become_follower,
       become_follower, Async!NoPeers, NoPeers, Async!set_commit_index, set_commit_index,
       Async!append_entries, append_entries, Async!stale, stale, Async!outcome, outcome,
       Async!snapshot, snapshot, Async!append_resp, append_resp, Async!prev_ok, prev_ok,
       Async!last_index, last_index, Async!apply_outcome, apply_outcome,
       Async!mark_applied, mark_applied, Async!take_panics, take_panics,
       Async!unapplied, unapplied
<1>4. Async!handle_append_resp(i, n, m) = handle_append_resp(i, n, m)
  BY Zenon DEF Async!handle_append_resp, handle_append_resp, Async!become_follower,
       become_follower, Async!NoPeers, NoPeers, Async!roll_back, roll_back,
       Async!try_advance_commit_index, try_advance_commit_index,
       Async!committable, committable, Async!quorum, quorum, Async!Cardinality, Cardinality,
       Async!set_commit_index, set_commit_index, Async!last_index, last_index,
       Async!apply_outcome, apply_outcome, Async!mark_applied, mark_applied,
       Async!take_panics, take_panics, Async!unapplied, unapplied, Async!outcome, outcome,
       Async!snapshot, snapshot, Async!send_append, send_append, Async!term_at, term_at,
       Async!entries_from, entries_from
<1>5. QED
  BY <1>1, <1>2, <1>3, <1>4, Zenon DEF Async!step, step

(* So is the replica that starts. *)
LEMMA SameFresh == Async!fresh = fresh
BY Zenon DEF Async!fresh, fresh, Async!NoPeers, NoPeers
-----------------------------------------------------------------------------
(* Terms and commit indices *)

\* Nothing is committed that has not been applied.  A runner applies what a
\* handler commits before it waits again, so this holds between handlers.
Caught(n) == n.commit_index <= n.last_applied

\* An outcome of replica i whose node and messages are in terms up to t, and
\* whose take_unapplied did not panic.
Within(i, r, t) ==
    /\ r.node.current_term <= t
    /\ \A m \in r.send : m.from = i /\ m.term <= t
    /\ Caught(r.node)
    /\ ~r.panic

(* A broadcast comes from the leader and is in its term. *)
LEMMA BroadcastWithin ==
    ASSUME NEW i, NEW n
    PROVE  \A m \in broadcast_append(i, n) : m.from = i /\ m.term = n.current_term
BY DEF broadcast_append, send_append

(* An outcome that applies nothing, with messages of the replica up to the term. *)
LEMMA SilentWithin ==
    ASSUME NEW i, NEW n, Caught(n), NEW t, n.current_term <= t, NEW saved, NEW send,
           \A m \in send : m.from = i /\ m.term <= t
    PROVE  Within(i, outcome(n, saved, send), t)
BY Zenon DEF Within, outcome

\* set_commit_index never goes past the log, so the slice of take_unapplied
\* ends inside it; what was committed before had been applied.
LEMMA ApplyWithin ==
    ASSUME NEW i, NEW n \in NodeType, Caught(n), NEW ci \in Nat, NEW t,
           n.current_term <= t, NEW send, \A m \in send : m.from = i /\ m.term <= t
    PROVE  Within(i, apply_outcome(set_commit_index(n, ci), send), t)
<1> DEFINE g == set_commit_index(n, ci)
<1>1. Len(n.log) \in Nat /\ n.commit_index \in Nat /\ n.last_applied \in Nat
  BY Zenon, LenProperties DEF NodeType
<1>2. /\ g.log = n.log /\ g.current_term = n.current_term
      /\ g.last_applied = n.last_applied /\ g.commit_index \in Nat
      /\ g \in NodeType
      /\ g.commit_index <= Len(n.log) \/ g.commit_index <= n.last_applied
  BY <1>1 DEF set_commit_index, NodeType, last_index, Caught
<1> HIDE DEF g
<1>3. ~take_panics(g)
  BY <1>1, <1>2 DEF take_panics
<1>4. /\ mark_applied(g).current_term = g.current_term
      /\ Caught(mark_applied(g))
  BY <1>1, <1>2 DEF mark_applied, NodeType, Caught
<1>5. Within(i, apply_outcome(g, send), t)
  BY Zenon, <1>2, <1>3, <1>4 DEF Within, apply_outcome
<1>6. QED
  BY Zenon, <1>5 DEF g

(* Stepping down takes over the term and commits nothing. *)
LEMMA FollowerWithin ==
    ASSUME NEW n \in NodeType, Caught(n), NEW t
    PROVE  LET f == become_follower(n, t) IN Caught(f) /\ f.current_term = t
BY Zenon DEF become_follower, NodeType, Caught

(* Becoming leader raises no term. *)
LEMMA LeaderWithin ==
    ASSUME NEW i \in Server, NEW n \in NodeType, Caught(n), NEW t, n.current_term <= t
    PROVE  Within(i, become_leader(i, n), t)
<1> DEFINE noop == append_noop(n)
           led == [noop EXCEPT !.role = "Leader",
                               !.peer_state = [p \in Server |->
                                   IF p = i THEN Nil
                                   ELSE [next_index |-> last_index(noop) + 1,
                                         match_index |-> 0]]]
<1>1. become_leader(i, n) = outcome(led, snapshot(led), broadcast_append(i, led))
  BY Zenon DEF become_leader
<1>2. noop = [n EXCEPT !.log = Append(n.log, [term |-> n.current_term, command |-> Noop])]
  BY Zenon DEF append_noop, append, NodeType
<1> HIDE DEF noop
<1>3. Caught(led) /\ led.current_term = n.current_term
  BY Zenon, <1>2 DEF NodeType, Caught
<1> HIDE DEF led
<1>4. QED
  BY Zenon, <1>1, <1>3, BroadcastWithin, SilentWithin

(* An election raises the term by one. *)
LEMMA ElectionWithin ==
    ASSUME NEW i \in Server, NEW n \in NodeType, Caught(n)
    PROVE  Within(i, start_election(i, n), n.current_term + 1)
<1> DEFINE cand == [n EXCEPT !.current_term = @ + 1, !.role = "Candidate",
                             !.voted_for = i, !.votes_received = {i}]
           reqs == {[type |-> "VoteReq", from |-> i, to |-> p,
                     term |-> cand.current_term, last_log_idx |-> last_index(n),
                     last_log_term |-> last_term(n)] : p \in Peers(i)}
<1>1. start_election(i, n) = IF 1 >= quorum THEN become_leader(i, cand)
                             ELSE outcome(cand, snapshot(cand), reqs)
  BY Zenon DEF start_election
<1>2. cand \in NodeType
  <2>1. n.current_term + 1 \in Nat /\ {i} \in SUBSET Server
    BY DEF NodeType
  <2>2. cand = [n EXCEPT !.current_term = n.current_term + 1, !.role = "Candidate",
                         !.voted_for = i, !.votes_received = {i}]
    BY Zenon DEF NodeType
  <2> HIDE DEF cand
  <2>3. QED
    BY Zenon, <2>1, <2>2 DEF NodeType
<1>3. Caught(cand) /\ cand.current_term = n.current_term + 1
  BY Zenon DEF NodeType, Caught
<1>4. \A m \in reqs : m.from = i /\ m.term = cand.current_term
  OBVIOUS
<1> HIDE DEF cand, reqs
<1>5. n.current_term + 1 <= n.current_term + 1
  BY DEF NodeType
<1>6. Within(i, become_leader(i, cand), n.current_term + 1)
  BY Zenon, <1>2, <1>3, <1>5, LeaderWithin
<1>7. Within(i, outcome(cand, snapshot(cand), reqs), n.current_term + 1)
  BY Zenon, <1>3, <1>4, <1>5, SilentWithin
<1>8. QED
  BY Zenon, <1>1, <1>6, <1>7

(* A heartbeat stays in the term. *)
LEMMA HeartbeatWithin ==
    ASSUME NEW i, NEW n, Caught(n), NEW t, n.current_term <= t
    PROVE  Within(i, heartbeat(i, n), t)
BY Zenon, BroadcastWithin, SilentWithin DEF heartbeat

(* A proposal stays in the term. *)
LEMMA ProposeWithin ==
    ASSUME NEW i, NEW n \in NodeType, Caught(n), NEW c, NEW t, n.current_term <= t
    PROVE  Within(i, propose(i, n, c), t)
<1> DEFINE m == append(n, n.current_term, c)
<1>1. Caught(m) /\ m.current_term = n.current_term
  BY Zenon DEF append, NodeType, Caught
<1>2. propose(i, n, c) = outcome(m, snapshot(m), broadcast_append(i, m))
  BY Zenon DEF propose
<1> HIDE DEF m
<1>3. QED
  BY Zenon, <1>1, <1>2, BroadcastWithin, SilentWithin

(* An outcome that applies nothing and sends one reply in the term of the replica. *)
LEMMA ReplyWithin ==
    ASSUME NEW i, NEW n, Caught(n), NEW t, n.current_term <= t, NEW saved, NEW x,
           x.from = i, x.term = n.current_term
    PROVE  Within(i, outcome(n, saved, {x}), t)
BY Zenon DEF Within, outcome

(* A vote request raises the term to its own at most. *)
LEMMA VoteReqWithin ==
    ASSUME NEW i, NEW n \in NodeType, Caught(n), NEW m, NEW t, n.current_term <= t,
           m.term <= t
    PROVE  Within(i, handle_vote_req(i, n, m), t)
<1> DEFINE newer == m.term > n.current_term
           f == IF newer THEN become_follower(n, m.term) ELSE n
           v == vote(f, m)
           saved == IF newer \/ v.saves THEN snapshot(v.node) ELSE Nil
           refusal == vote_resp(i, m.from, n.current_term, FALSE)
           reply == vote_resp(i, m.from, v.node.current_term, v.granted)
<1>1. handle_vote_req(i, n, m) = IF stale(n, m) THEN outcome(n, Nil, {refusal})
                                 ELSE outcome(v.node, saved, {reply})
  BY Zenon DEF handle_vote_req
<1>2. Caught(f) /\ f.current_term <= t
  BY Zenon, FollowerWithin
<1>3. v.node = f \/ v.node = [f EXCEPT !.voted_for = m.from]
  BY Zenon DEF vote
<1>4. Caught(v.node) /\ v.node.current_term = f.current_term
  BY Zenon, <1>3 DEF Caught, become_follower, NodeType
<1>5. /\ refusal.from = i /\ refusal.term = n.current_term
      /\ reply.from = i /\ reply.term = v.node.current_term
  BY Zenon DEF vote_resp
<1> HIDE DEF v, f, reply, refusal, saved
<1>6. Within(i, outcome(n, Nil, {refusal}), t)
  BY Zenon, <1>5, ReplyWithin
<1>7. Within(i, outcome(v.node, saved, {reply}), t)
  BY Zenon, <1>2, <1>4, <1>5, ReplyWithin
<1>8. QED
  BY Zenon, <1>1, <1>6, <1>7

(* A vote response raises the term to its own at most. *)
LEMMA VoteRespWithin ==
    ASSUME NEW i \in Server, NEW n \in NodeType, Caught(n), NEW m, m.from \in Server,
           NEW t, n.current_term <= t, m.term <= t
    PROVE  Within(i, handle_vote_resp(i, n, m), t)
<1> DEFINE f == become_follower(n, m.term)
           v == [n EXCEPT !.votes_received = @ \cup {m.from}]
<1>1. handle_vote_resp(i, n, m) =
        IF m.term > n.current_term THEN outcome(f, snapshot(f), {})
        ELSE IF n.role # "Candidate" \/ ~m.vote_granted THEN outcome(n, Nil, {})
        ELSE IF Cardinality(v.votes_received) >= quorum
             THEN become_leader(i, v) ELSE outcome(v, Nil, {})
  BY Zenon DEF handle_vote_resp
<1>2. Caught(f) /\ f.current_term <= t
  BY Zenon, FollowerWithin
<1>3. v \in NodeType
  <2>1. n.votes_received \cup {m.from} \in SUBSET Server
    BY Zenon DEF NodeType
  <2>2. v = [n EXCEPT !.votes_received = n.votes_received \cup {m.from}]
    BY Zenon DEF NodeType
  <2> HIDE DEF v
  <2>3. QED
    BY Zenon, <2>1, <2>2 DEF NodeType
<1>4. Caught(v) /\ v.current_term = n.current_term
  BY Zenon DEF NodeType, Caught
<1> HIDE DEF f, v
<1>5. Within(i, become_leader(i, v), t)
  BY Zenon, <1>3, <1>4, LeaderWithin
<1>6. /\ Within(i, outcome(f, snapshot(f), {}), t)
      /\ Within(i, outcome(n, Nil, {}), t)
      /\ Within(i, outcome(v, Nil, {}), t)
  BY Zenon, <1>2, <1>4, SilentWithin
<1>7. QED
  BY Zenon, <1>1, <1>5, <1>6

(* An AppendReq raises the term to its own at most, and what it commits is applied. *)
LEMMA AppendReqWithin ==
    ASSUME NEW i \in Server, NEW n, NodeOK(i, n), Caught(n), NEW m, MsgOK(m), m.to = i,
           m.type = "AppendReq", NEW t, n.current_term <= t, m.term <= t
    PROVE  Within(i, handle_append_req(i, n, m), t)
<1> DEFINE f == become_follower(n, m.term)
           log2 == append_entries(f.log, m.prev_log_idx, m.entries)
           h == [f EXCEPT !.log = log2]
           g == set_commit_index(h, m.leader_commit)
           refusal == append_resp(i, m.from, n.current_term, FALSE, 0)
           hint == append_resp(i, m.from, f.current_term, FALSE, last_index(f))
           ack == append_resp(i, m.from, g.current_term, TRUE, last_index(g))
           done == apply_outcome(g, {ack})
<1>1. handle_append_req(i, n, m) =
        IF stale(n, m) THEN outcome(n, Nil, {refusal})
        ELSE IF ~prev_ok(f, m)
        THEN outcome(f, snapshot(f), {hint})
        ELSE done
  BY Zenon DEF handle_append_req
<1>2. n \in NodeType /\ m.leader_commit \in Nat /\ m.term \in Nat
  BY Zenon DEF NodeOK, MsgOK, Message
<1>3. Caught(f) /\ f.current_term = m.term /\ f \in NodeType
  <2>1. f \in NodeType
    BY Zenon, <1>2 DEF NodeType, become_follower, NoPeers
  <2>2. QED
    BY Zenon, <2>1, <1>2, FollowerWithin
<1>4. /\ refusal.from = i /\ refusal.term = n.current_term
      /\ hint.from = i /\ hint.term = f.current_term
      /\ ack.from = i /\ ack.term = g.current_term
  BY Zenon DEF append_resp
<1>5. CASE stale(n, m)
  <2> HIDE DEF f, refusal, hint, done
  <2>1. Within(i, outcome(n, Nil, {refusal}), t)
    BY Zenon, <1>4, ReplyWithin
  <2>2. QED
    BY Zenon, <1>1, <1>5, <2>1
<1>6. CASE ~stale(n, m) /\ ~prev_ok(f, m)
  <2> HIDE DEF f, refusal, hint, done
  <2>1. Within(i, outcome(f, snapshot(f), {hint}), t)
    BY Zenon, <1>3, <1>4, ReplyWithin
  <2>2. QED
    BY Zenon, <1>1, <1>6, <2>1
<1>7. CASE ~stale(n, m) /\ prev_ok(f, m)
  <2> HIDE DEF f, log2
  <2>1. OutcomeOK(i, n, done)
    <3> HIDE DEF done
    <3>1. OutcomeOK(i, n, handle_append_req(i, n, m))
      BY Zenon, AppendReqOK
    <3>2. QED
      BY Zenon, <1>1, <1>7, <3>1
  <2>2. /\ Caught(h) /\ h.current_term = m.term /\ h.log = log2
    BY Zenon, <1>3 DEF NodeType, Caught
  <2>3. log2 \in Seq(Entry)
    <3>1. done.node = mark_applied(g) /\ done.node.log \in Seq(Entry)
      BY Zenon, <2>1 DEF OutcomeOK, NodeOK, NodeType, apply_outcome
    <3>2. mark_applied(g).log = log2
      BY Zenon, <1>3 DEF mark_applied, set_commit_index, NodeType
    <3>3. QED
      BY Zenon, <3>1, <3>2
  <2>4. h \in NodeType
    BY Zenon, <1>3, <2>3 DEF NodeType
  <2>5. g.current_term = m.term
    BY Zenon, <2>2, <2>4 DEF set_commit_index, NodeType
  <2>6. \A x \in {ack} : x.from = i /\ x.term <= t
    <3> HIDE DEF g, ack
    <3>1. QED
      BY Zenon, <2>5, <1>4
  <2> HIDE DEF h, ack
  <2>7. Within(i, apply_outcome(set_commit_index(h, m.leader_commit), {ack}), t)
    BY Zenon, <2>2, <2>4, <2>6, <1>2, ApplyWithin
  <2>8. done = apply_outcome(set_commit_index(h, m.leader_commit), {ack})
    BY Zenon
  <2> HIDE DEF done
  <2>9. QED
    BY Zenon, <1>1, <1>7, <2>7, <2>8
<1>8. QED
  BY Zenon, <1>5, <1>6, <1>7

(* What try_advance_commit commits is applied. *)
LEMMA AdvanceWithin ==
    ASSUME NEW i \in Server, NEW n \in NodeType, Caught(n), NEW t, n.current_term <= t
    PROVE  Within(i, try_advance_commit_index(n), t)
<1> DEFINE k == CHOOSE x \in committable(n) : \A y \in committable(n) : y <= x
<1>1. CASE committable(n) = {}
  BY Zenon, <1>1, SilentWithin DEF try_advance_commit_index
<1>2. CASE committable(n) # {}
  <2>1. last_index(n) \in Nat /\ n.commit_index \in Nat
    BY Zenon, LenProperties DEF NodeType, last_index
  <2>2. committable(n) \subseteq 0..last_index(n)
    BY <2>1 DEF committable
  <2>3. \E x \in committable(n) : \A y \in committable(n) : y <= x
    BY Zenon, <2>1, <2>2, <1>2, GreatestNat
  <2>4. k \in Nat
    <3>1. k \in committable(n)
      BY <2>3, Zenon
    <3>2. QED
      BY <3>1, <2>1, <2>2
  <2>5. try_advance_commit_index(n) = apply_outcome(set_commit_index(n, k), {})
    BY Zenon, <1>2 DEF try_advance_commit_index
  <2> HIDE DEF k
  <2>6. Within(i, apply_outcome(set_commit_index(n, k), {}), t)
    BY Zenon, <2>4, ApplyWithin
  <2>7. QED
    BY Zenon, <2>5, <2>6
<1>3. QED
  BY Zenon, <1>1, <1>2

(* An AppendResp raises the term to its own at most. *)
LEMMA AppendRespWithin ==
    ASSUME NEW i \in Server, NEW n, NodeOK(i, n), Caught(n), NEW m, MsgOK(m), m.to = i,
           m.type = "AppendResp", NEW t, n.current_term <= t, m.term <= t
    PROVE  Within(i, handle_append_resp(i, n, m), t)
<1> DEFINE f == become_follower(n, m.term)
           ps1 == [next_index |-> m.match_index + 1, match_index |-> m.match_index]
           acked == [n EXCEPT !.peer_state[m.from] = ps1]
           back == [n EXCEPT !.peer_state[m.from].next_index = roll_back(@, m)]
           retry == send_append(i, back, m.from)
<1>1. handle_append_resp(i, n, m) =
        IF m.term > n.current_term THEN outcome(f, snapshot(f), {})
        ELSE IF n.role # "Leader" THEN outcome(n, Nil, {})
        ELSE IF m.success THEN try_advance_commit_index(acked)
        ELSE outcome(back, Nil, {retry})
  BY Zenon DEF handle_append_resp
<1>2. n \in NodeType /\ m.from \in Server /\ m.match_index \in Nat
  BY Zenon DEF NodeOK, MsgOK, Message
<1>3. Caught(f) /\ f.current_term <= t
  BY Zenon, <1>2, FollowerWithin
<1>4. ps1 \in PeerState
  BY <1>2 DEF PeerState
<1> HIDE DEF ps1
<1>5. acked \in NodeType
  BY Zenon, <1>2, <1>4 DEF NodeType
<1>6. Caught(acked) /\ acked.current_term = n.current_term
  BY Zenon, <1>2 DEF NodeType, Caught
<1>7. Caught(back) /\ back.current_term = n.current_term
  BY Zenon, <1>2 DEF NodeType, Caught
<1>8. retry.from = i /\ retry.term = back.current_term
  BY Zenon DEF send_append
<1> HIDE DEF f, acked, back, retry
<1>9. Within(i, try_advance_commit_index(acked), t)
  BY Zenon, <1>5, <1>6, AdvanceWithin
<1>10. Within(i, outcome(back, Nil, {retry}), t)
  BY Zenon, <1>7, <1>8, ReplyWithin
<1>11. Within(i, outcome(f, snapshot(f), {}), t) /\ Within(i, outcome(n, Nil, {}), t)
  BY Zenon, <1>3, SilentWithin
<1>12. QED
  BY Zenon, <1>1, <1>9, <1>10, <1>11

(* The handlers together. *)
LEMMA StepWithin ==
    ASSUME NEW i \in Server, NEW n, NodeOK(i, n), Caught(n), NEW m, MsgOK(m), m.to = i,
           NEW t, n.current_term <= t, m.term <= t
    PROVE  Within(i, step(i, n, m), t)
<1>1. /\ m.type \in {"VoteReq", "VoteResp", "AppendReq", "AppendResp"}
      /\ m.from \in Server /\ n \in NodeType
  BY Zenon DEF MsgOK, Message, NodeOK
<1>2. CASE m.type = "VoteReq"
  BY Zenon, <1>1, <1>2, VoteReqWithin DEF step
<1>3. CASE m.type = "VoteResp"
  BY Zenon, <1>1, <1>3, VoteRespWithin DEF step
<1>4. CASE m.type = "AppendReq"
  BY Zenon, <1>4, AppendReqWithin DEF step
<1>5. CASE m.type = "AppendResp"
  BY Zenon, <1>5, AppendRespWithin DEF step
<1>6. QED
  BY Zenon, <1>1, <1>2, <1>3, <1>4, <1>5

-----------------------------------------------------------------------------
(* The inductive invariant of the runners and their channels *)

\* The replicas are sound and have applied what they committed; an envelope
\* that waits with a runner or in a channel has been sent, and one in the
\* channel of a replica is for that replica; no term is above the number of
\* election timeouts so far.
HInv ==
    /\ node \in [Server -> NodeType]
    /\ outbox \in [Server -> SUBSET Message]
    /\ inbox \in [Server -> Seq(Message)]
    /\ elections \in Nat
    /\ \A i \in Server : /\ NodeOK(i, node[i]) /\ Caught(node[i])
                         /\ node[i].current_term <= elections
                         /\ outbox[i] \subseteq sent
                         /\ \A k \in 1..Len(inbox[i]) :
                               inbox[i][k] \in sent /\ inbox[i][k].to = i
    /\ \A m \in sent : MsgOK(m) /\ m.term <= elections

\* A runner that handles a tick, an envelope or a proposal leaves the
\* invariant true; its envelopes are what has been sent in addition.
LEMMA Performed ==
    ASSUME HInv, NEW i \in Server, NEW r, OutcomeOK(i, node[i], r), Perform(i, r),
           elections' \in Nat, elections <= elections', Within(i, r, elections'),
           inbox' \in [Server -> Seq(Message)],
           \A j \in Server : \A k \in 1..Len(inbox'[j]) :
               \E l \in 1..Len(inbox[j]) : inbox'[j][k] = inbox[j][l],
           sent' = sent \cup UNION {outbox'[j] : j \in Server}
    PROVE  HInv' /\ sent' = sent \cup r.send /\ node' = [node EXCEPT ![i] = r.node]
<1>1. /\ node' = [node EXCEPT ![i] = r.node]
      /\ outbox' = [outbox EXCEPT ![i] = @ \cup r.send]
  BY Zenon DEF Perform
<1>2. /\ NodeOK(i, r.node) /\ r.node \in NodeType /\ r.send \subseteq Message
      /\ \A m \in r.send : MsgOK(m)
  BY Zenon DEF OutcomeOK, NodeOK, MsgOK
<1>3. \A j \in Server : outbox'[j] = IF j = i THEN outbox[i] \cup r.send ELSE outbox[j]
  BY Zenon, <1>1 DEF HInv
<1>4. sent' = sent \cup r.send
  <2>1. \A j \in Server : outbox[j] \subseteq sent
    BY Zenon DEF HInv
  <2>2. \A m : m \in UNION {outbox'[j] : j \in Server} => m \in sent \cup r.send
    BY <1>3, <2>1
  <2>3. \A m \in r.send : m \in UNION {outbox'[j] : j \in Server}
    BY Zenon, <1>3
  <2>4. QED
    BY Zenon, <2>2, <2>3
<1>5. node' \in [Server -> NodeType] /\ outbox' \in [Server -> SUBSET Message]
  BY Zenon, <1>1, <1>2 DEF HInv
<1>6. \A j \in Server : node'[j] = IF j = i THEN r.node ELSE node[j]
  BY Zenon, <1>1 DEF HInv
<1>7. ASSUME NEW j \in Server
      PROVE  /\ NodeOK(j, node'[j]) /\ Caught(node'[j])
             /\ node'[j].current_term <= elections'
  <2>1. CASE j = i
    BY Zenon, <2>1, <1>2, <1>6 DEF Within
  <2>2. CASE j # i
    <3>1. /\ NodeOK(j, node[j]) /\ Caught(node[j]) /\ elections \in Nat
          /\ node[j].current_term <= elections /\ node[j].current_term \in Nat
      BY Zenon DEF HInv, NodeOK, NodeType
    <3>2. node[j].current_term <= elections'
      BY <3>1
    <3>3. QED
      BY Zenon, <2>2, <3>1, <3>2, <1>6
  <2>3. QED
    BY Zenon, <2>1, <2>2
<1>8. \A j \in Server : outbox'[j] \subseteq sent'
  BY Zenon, <1>3, <1>4 DEF HInv
<1>9. ASSUME NEW j \in Server, NEW k \in 1..Len(inbox'[j])
      PROVE  inbox'[j][k] \in sent' /\ inbox'[j][k].to = j
  BY <1>4 DEF HInv
<1>10. ASSUME NEW m \in sent' PROVE MsgOK(m) /\ m.term <= elections'
  <2>1. CASE m \in r.send
    BY Zenon, <2>1, <1>2 DEF Within
  <2>2. CASE m \in sent
    <3>1. MsgOK(m) /\ m.term <= elections /\ elections \in Nat
      BY Zenon, <2>2 DEF HInv
    <3>2. m.term \in Nat
      BY Zenon, <3>1 DEF MsgOK, Message
    <3>3. QED
      BY <3>1, <3>2
  <2>3. QED
    BY Zenon, <2>1, <2>2, <1>4
<1>11. HInv'
  BY Zenon, <1>5, <1>7, <1>8, <1>9, <1>10 DEF HInv
<1>12. QED
  BY Zenon, <1>1, <1>4, <1>11

\* What dispatch does with an outcome is what Finish allows of a replica whose
\* file is never written.
LEMMA Finished ==
    ASSUME NEW i \in Server, NEW r, ~r.panic, node' = [node EXCEPT ![i] = r.node],
           sent' = sent \cup r.send
    PROVE  Async!Finish(i, r)
<1> DEFINE none == [j \in Server |-> Nil]
<1>1. Nil \in Async!persist_state(none[i], r.saved)
  BY Zenon DEF Async!persist_state
<1>2. none = [none EXCEPT ![i] = Nil]
  BY Zenon
<1>3. node' = [node EXCEPT ![i] = IF r.panic THEN Async!restore(Nil) ELSE r.node]
  BY Zenon
<1>4. QED
  BY Zenon, <1>1, <1>2, <1>3 DEF Async!Finish

(* An election timeout of a runner is one of its replica. *)
LEMMA TimeoutSimulated ==
    ASSUME HInv, NEW i \in Server, Timeout(i),
           sent' = sent \cup UNION {outbox'[j] : j \in Server}
    PROVE  HInv' /\ Async!Timeout(i)
<1> DEFINE r == start_election(i, node[i])
<1>1. /\ node[i].role \in {"Follower", "Candidate"} /\ elections < MaxElections
      /\ elections' = elections + 1 /\ Perform(i, r) /\ inbox' = inbox
  BY Zenon DEF Timeout
<1>2. /\ NodeOK(i, node[i]) /\ Caught(node[i]) /\ node[i] \in NodeType
      /\ node[i].current_term \in Nat /\ elections \in Nat
      /\ node[i].current_term <= elections
  BY Zenon DEF HInv, NodeOK, NodeType
<1>3. OutcomeOK(i, node[i], r)
  BY Zenon, <1>1, <1>2, StartElectionOK
<1>4. Within(i, r, elections')
  <2>1. Within(i, r, node[i].current_term + 1)
    BY Zenon, <1>2, ElectionWithin
  <2>2. r.node.current_term \in Nat /\ \A m \in r.send : m.term \in Nat
    BY Zenon, <1>3 DEF OutcomeOK, NodeOK, NodeType, MsgOK, Message
  <2> HIDE DEF r
  <2>3. r.node.current_term <= elections'
    BY <2>1, <2>2, <1>1, <1>2 DEF Within
  <2>4. \A m \in r.send : m.from = i /\ m.term <= elections'
    BY <2>1, <2>2, <1>1, <1>2 DEF Within
  <2>5. QED
    BY Zenon, <2>1, <2>3, <2>4 DEF Within
<1> HIDE DEF r
<1>5. /\ inbox' \in [Server -> Seq(Message)]
      /\ \A j \in Server : \A k \in 1..Len(inbox'[j]) :
             \E l \in 1..Len(inbox[j]) : inbox'[j][k] = inbox[j][l]
  BY Zenon, <1>1 DEF HInv
<1>6. elections' \in Nat /\ elections <= elections'
  BY <1>1, <1>2
<1>7. HInv' /\ sent' = sent \cup r.send /\ node' = [node EXCEPT ![i] = r.node]
  BY Zenon, <1>1, <1>3, <1>4, <1>5, <1>6, Performed
<1>8. Async!Finish(i, r)
  BY Zenon, <1>4, <1>7, Finished DEF Within
<1>9. node[i].current_term < MaxElections
  BY <1>1, <1>2, ClusterAssumption
<1>10. Async!Timeout(i)
  BY Zenon, <1>1, <1>8, <1>9, SameElection DEF Async!Timeout, r
<1>11. QED
  BY Zenon, <1>7, <1>10

(* A heartbeat of a runner is one of its replica. *)
LEMMA HeartbeatSimulated ==
    ASSUME HInv, NEW i \in Server, Heartbeat(i),
           sent' = sent \cup UNION {outbox'[j] : j \in Server}
    PROVE  HInv' /\ Async!Heartbeat(i)
<1> DEFINE r == heartbeat(i, node[i])
<1>1. /\ node[i].role = "Leader" /\ elections' = elections /\ Perform(i, r)
      /\ inbox' = inbox
  BY Zenon DEF Heartbeat
<1>2. /\ NodeOK(i, node[i]) /\ Caught(node[i]) /\ elections \in Nat
      /\ node[i].current_term <= elections
  BY Zenon DEF HInv
<1>3. OutcomeOK(i, node[i], r) /\ Within(i, r, elections)
  BY Zenon, <1>1, <1>2, HeartbeatOK, HeartbeatWithin
<1> HIDE DEF r
<1>4. /\ inbox' \in [Server -> Seq(Message)]
      /\ \A j \in Server : \A k \in 1..Len(inbox'[j]) :
             \E l \in 1..Len(inbox[j]) : inbox'[j][k] = inbox[j][l]
  BY Zenon, <1>1 DEF HInv
<1>5. HInv' /\ sent' = sent \cup r.send /\ node' = [node EXCEPT ![i] = r.node]
  BY <1>1, <1>2, <1>3, <1>4, Performed
<1>6. Async!Finish(i, r)
  BY Zenon, <1>3, <1>5, Finished DEF Within
<1>7. QED
  BY Zenon, <1>1, <1>5, <1>6, SameHeartbeat DEF Async!Heartbeat, r

(* A proposal to a runner is one to its replica. *)
LEMMA ProposeSimulated ==
    ASSUME HInv, NEW i \in Server, NEW c \in Command, Propose(i, c),
           sent' = sent \cup UNION {outbox'[j] : j \in Server}
    PROVE  HInv' /\ Async!Propose(i, c)
<1> DEFINE r == propose(i, node[i], c)
<1>1. /\ node[i].role = "Leader" /\ elections' = elections /\ Perform(i, r)
      /\ last_index(node[i]) < MaxLog /\ inbox' = inbox
  BY Zenon DEF Propose
<1>2. /\ NodeOK(i, node[i]) /\ Caught(node[i]) /\ elections \in Nat
      /\ node[i].current_term <= elections /\ node[i] \in NodeType
  BY Zenon DEF HInv
<1>3. OutcomeOK(i, node[i], r) /\ Within(i, r, elections)
  BY Zenon, <1>1, <1>2, ProposeOK, ProposeWithin
<1> HIDE DEF r
<1>4. /\ inbox' \in [Server -> Seq(Message)]
      /\ \A j \in Server : \A k \in 1..Len(inbox'[j]) :
             \E l \in 1..Len(inbox[j]) : inbox'[j][k] = inbox[j][l]
  BY Zenon, <1>1 DEF HInv
<1>5. HInv' /\ sent' = sent \cup r.send /\ node' = [node EXCEPT ![i] = r.node]
  BY <1>1, <1>2, <1>3, <1>4, Performed
<1>6. Async!Finish(i, r)
  BY Zenon, <1>3, <1>5, Finished DEF Within
<1>7. QED
  BY Zenon, <1>1, <1>5, <1>6, SamePropose DEF Async!Propose, r, Async!last_index, last_index

(* What a runner takes from its channel its replica receives. *)
LEMMA ReceiveSimulated ==
    ASSUME HInv, NEW i \in Server, Receive(i),
           sent' = sent \cup UNION {outbox'[j] : j \in Server}
    PROVE  /\ HInv' /\ ~step(i, node[i], Head(inbox[i])).panic
           /\ \E m \in sent : Async!Receive(m)
<1> DEFINE m == Head(inbox[i])
           r == step(i, node[i], m)
<1>1. /\ inbox[i] # << >> /\ elections' = elections /\ Perform(i, r)
      /\ inbox' = [inbox EXCEPT ![i] = Tail(@)]
  BY Zenon DEF Receive
<1>2. /\ NodeOK(i, node[i]) /\ Caught(node[i]) /\ elections \in Nat
      /\ node[i].current_term <= elections
      /\ inbox \in [Server -> Seq(Message)] /\ inbox[i] \in Seq(Message)
  BY Zenon DEF HInv
<1>3. 1 \in 1..Len(inbox[i]) /\ m = inbox[i][1]
  BY <1>1, <1>2, EmptySeq, LenProperties
<1>4. m \in sent /\ m.to = i /\ MsgOK(m) /\ m.term <= elections
  BY Zenon, <1>3 DEF HInv
<1> HIDE DEF m
<1>5. OutcomeOK(i, node[i], r) /\ Within(i, r, elections)
  BY Zenon, <1>2, <1>4, StepOK, StepWithin
<1> HIDE DEF r
<1>6. /\ Tail(inbox[i]) \in Seq(Message) /\ Len(Tail(inbox[i])) = Len(inbox[i]) - 1
      /\ \A k \in 1..Len(Tail(inbox[i])) : Tail(inbox[i])[k] = inbox[i][k + 1]
  BY Zenon, <1>1, <1>2, HeadTailProperties
<1>7. inbox' \in [Server -> Seq(Message)]
  BY Zenon, <1>1, <1>2, <1>6
<1>8. ASSUME NEW j \in Server, NEW k \in 1..Len(inbox'[j])
      PROVE  \E l \in 1..Len(inbox[j]) : inbox'[j][k] = inbox[j][l]
  <2>1. CASE j = i
    <3>1. inbox'[i] = Tail(inbox[i]) /\ Len(inbox[i]) \in Nat
      BY Zenon, <1>1, <1>2, LenProperties
    <3>2. k + 1 \in 1..Len(inbox[i]) /\ inbox'[i][k] = inbox[i][k + 1]
      BY <2>1, <3>1, <1>6, <1>8
    <3>3. QED
      BY Zenon, <2>1, <3>2
  <2>2. CASE j # i
    <3>1. inbox'[j] = inbox[j]
      BY Zenon, <2>2, <1>1, <1>2
    <3>2. QED
      BY Zenon, <3>1, <1>8
  <2>3. QED
    BY Zenon, <2>1, <2>2
<1>9. HInv' /\ sent' = sent \cup r.send /\ node' = [node EXCEPT ![i] = r.node]
  <2>1. \A j \in Server : \A k \in 1..Len(inbox'[j]) :
            \E l \in 1..Len(inbox[j]) : inbox'[j][k] = inbox[j][l]
    BY Zenon, <1>8
  <2>2. elections' \in Nat /\ elections <= elections' /\ Within(i, r, elections')
    BY <1>1, <1>2, <1>5
  <2>3. QED
    BY Zenon, <1>1, <1>5, <1>7, <2>1, <2>2, Performed
<1>10. ~r.panic /\ Async!Finish(i, r)
  BY Zenon, <1>5, <1>9, Finished DEF Within
<1>11. Async!Receive(m)
  BY Zenon, <1>4, <1>10, SameStep DEF Async!Receive, r
<1>12. QED
  BY Zenon, <1>4, <1>9, <1>10, <1>11 DEF r, m

\* Routing an envelope changes neither the replicas nor what has been sent.
LEMMA RouteStutters ==
    ASSUME HInv, NEW i \in Server, NEW e \in outbox[i], Route(i, e),
           sent' = sent \cup UNION {outbox'[j] : j \in Server}
    PROVE  HInv' /\ node' = node /\ sent' = sent
<1>1. /\ outbox' = [outbox EXCEPT ![i] = @ \ {e}] /\ node' = node /\ elections' = elections
      /\ \/ e.to \in alive /\ inbox' = [inbox EXCEPT ![e.to] = Append(@, e)]
         \/ inbox' = inbox
  BY Zenon DEF Route
<1>2. /\ inbox \in [Server -> Seq(Message)] /\ outbox \in [Server -> SUBSET Message]
      /\ e \in sent /\ e \in Message /\ e.to \in Server
  BY Zenon DEF HInv, MsgOK, Message
<1>3. /\ outbox' \in [Server -> SUBSET Message]
      /\ \A j \in Server : outbox'[j] \subseteq outbox[j]
  BY Zenon, <1>1, <1>2
<1>4. sent' = sent
  <2>1. \A j \in Server : outbox'[j] \subseteq sent
    BY Zenon, <1>3 DEF HInv
  <2>2. \A m : m \in UNION {outbox'[j] : j \in Server} => m \in sent
    BY Zenon, <2>1
  <2>3. QED
    BY Zenon, <2>2
<1>5. ASSUME NEW q \in Seq(Message)
      PROVE  /\ Append(q, e) \in Seq(Message) /\ Len(Append(q, e)) = Len(q) + 1
             /\ \A k \in 1..Len(q) : Append(q, e)[k] = q[k]
             /\ Append(q, e)[Len(q) + 1] = e
  BY <1>2, AppendProperties
<1>6. inbox' \in [Server -> Seq(Message)]
  BY <1>1, <1>2, <1>5
<1>7. ASSUME NEW j \in Server, NEW k \in 1..Len(inbox'[j])
      PROVE  inbox'[j][k] \in sent /\ inbox'[j][k].to = j
  <2>1. CASE inbox'[j] = inbox[j]
    BY Zenon, <2>1, <1>7 DEF HInv
  <2>2. CASE j = e.to /\ inbox'[j] = Append(inbox[j], e)
    <3>1. inbox[j] \in Seq(Message) /\ Len(inbox[j]) \in Nat
      BY Zenon, <1>2, LenProperties
    <3>2. /\ Len(inbox'[j]) = Len(inbox[j]) + 1 /\ inbox'[j][Len(inbox[j]) + 1] = e
          /\ \A x \in 1..Len(inbox[j]) : inbox'[j][x] = inbox[j][x]
      BY Zenon, <2>2, <3>1, <1>5
    <3>3. CASE k = Len(inbox[j]) + 1
      BY Zenon, <3>2, <3>3, <2>2, <1>2
    <3>4. CASE k # Len(inbox[j]) + 1
      <4>1. k \in 1..Len(inbox[j])
        BY <3>1, <3>2, <3>4, <1>7
      <4>2. QED
        BY Zenon, <4>1, <3>2 DEF HInv
    <3>5. QED
      BY Zenon, <3>3, <3>4
  <2>3. inbox'[j] = inbox[j] \/ (j = e.to /\ inbox'[j] = Append(inbox[j], e))
    BY Zenon, <1>1, <1>2
  <2>4. QED
    BY Zenon, <2>1, <2>2, <2>3
<1>8. HInv'
  BY Zenon, <1>1, <1>3, <1>4, <1>6, <1>7 DEF HInv
<1>9. QED
  BY Zenon, <1>1, <1>4, <1>8

\* A runner that stops takes its channel and its envelopes with it.
LEMMA StopStutters ==
    ASSUME HInv, NEW i \in Server, Stop(i),
           sent' = sent \cup UNION {outbox'[j] : j \in Server}
    PROVE  HInv' /\ node' = node /\ sent' = sent
<1>1. /\ outbox' = [outbox EXCEPT ![i] = {}] /\ node' = node /\ elections' = elections
      /\ inbox' = [inbox EXCEPT ![i] = << >>]
  BY Zenon DEF Stop
<1>2. inbox \in [Server -> Seq(Message)] /\ outbox \in [Server -> SUBSET Message]
  BY Zenon DEF HInv
<1>3. /\ outbox' \in [Server -> SUBSET Message]
      /\ \A j \in Server : outbox'[j] \subseteq outbox[j]
  BY Zenon, <1>1, <1>2
<1>4. sent' = sent
  <2>1. \A j \in Server : outbox'[j] \subseteq sent
    BY Zenon, <1>3 DEF HInv
  <2>2. \A m : m \in UNION {outbox'[j] : j \in Server} => m \in sent
    BY Zenon, <2>1
  <2>3. QED
    BY Zenon, <2>2
<1>5. inbox' \in [Server -> Seq(Message)]
  BY <1>1, <1>2
<1>6. ASSUME NEW j \in Server, NEW k \in 1..Len(inbox'[j])
      PROVE  inbox'[j][k] \in sent /\ inbox'[j][k].to = j
  <2>1. CASE j = i
    <3>1. inbox'[j] = << >> /\ Len(<< >>) = 0
      BY Zenon, <2>1, <1>1, <1>2
    <3>2. QED
      BY <3>1, <1>6
  <2>2. CASE j # i
    <3>1. inbox'[j] = inbox[j]
      BY Zenon, <2>2, <1>1, <1>2
    <3>2. QED
      BY Zenon, <3>1, <1>6 DEF HInv
  <2>3. QED
    BY Zenon, <2>1, <2>2
<1>7. HInv'
  BY Zenon, <1>1, <1>3, <1>4, <1>5, <1>6 DEF HInv
<1>8. QED
  BY Zenon, <1>1, <1>4, <1>7

(* Runners start as replicas start. *)
LEMMA HInitOK == HInit => HInv /\ Async!Init
<1> SUFFICES ASSUME HInit PROVE HInv /\ Async!Init
  BY Zenon
<1>1. /\ node = [i \in Server |-> fresh] /\ inbox = [i \in Server |-> << >>]
      /\ outbox = [i \in Server |-> {}] /\ elections = 0 /\ sent = {}
  BY Zenon DEF HInit, Init
<1>2. \A i \in Server : NodeOK(i, fresh)
  BY Zenon, FreshOK
<1>3. Caught(fresh) /\ fresh.current_term = 0
  BY DEF Caught, fresh
<1>4. node \in [Server -> NodeType] /\ inbox \in [Server -> Seq(Message)]
  BY <1>1, <1>2 DEF NodeOK
<1>5. \A i \in Server : Len(inbox[i]) = 0
  BY Zenon, <1>1
<1>6. HInv
  BY <1>1, <1>2, <1>3, <1>4, <1>5 DEF HInv
<1>7. Async!Init
  BY Zenon, <1>1, SameFresh DEF Async!Init
<1>8. QED
  BY Zenon, <1>6, <1>7

(* Every step of the runners is a step of the replicas or leaves them alone. *)
LEMMA HNextOK ==
    ASSUME HInv, HNext
    PROVE  HInv' /\ [Async!Next]_Async!vars
<1>1. sent' = sent \cup UNION {outbox'[j] : j \in Server}
  BY Zenon DEF HNext
<1>2. PICK i \in Server :
        \/ Timeout(i) \/ Heartbeat(i) \/ Receive(i) \/ Stop(i)
        \/ \E c \in Command : Propose(i, c)
        \/ \E e \in outbox[i] : Route(i, e)
  BY Zenon DEF HNext, Next
<1>3. CASE Timeout(i)
  BY Zenon, <1>1, <1>3, TimeoutSimulated DEF Async!Next
<1>4. CASE Heartbeat(i)
  BY Zenon, <1>1, <1>4, HeartbeatSimulated DEF Async!Next
<1>5. CASE Receive(i)
  BY Zenon, <1>1, <1>5, ReceiveSimulated DEF Async!Next
<1>6. CASE Stop(i)
  BY Zenon, <1>1, <1>6, StopStutters DEF Async!vars
<1>7. CASE \E c \in Command : Propose(i, c)
  BY Zenon, <1>1, <1>7, ProposeSimulated DEF Async!Next
<1>8. CASE \E e \in outbox[i] : Route(i, e)
  BY Zenon, <1>1, <1>8, RouteStutters DEF Async!vars
<1>9. QED
  BY Zenon, <1>2, <1>3, <1>4, <1>5, <1>6, <1>7, <1>8

(* A step that changes nothing keeps the invariant. *)
LEMMA HStutterOK ==
    ASSUME HInv, UNCHANGED <<vars, sent>>
    PROVE  HInv' /\ UNCHANGED Async!vars
BY Zenon DEF HInv, vars, Async!vars

-----------------------------------------------------------------------------

\* The runners and the bounded FIFO channels of NodeRunner implement the
\* replicas over the unreliable network, so what is proved of RaftAsync holds
\* of a cluster in one process.
THEOREM RunnersRefine == HSpec => Refines
<1>1. HInv /\ [HNext]_<<vars, sent>> => HInv' /\ [Async!Next]_Async!vars
  BY Zenon, HNextOK, HStutterOK
<1>2. QED
  BY <1>1, HInitOK, PTL DEF HSpec, Refines, Async!Spec

\* The slice of take_unapplied never panics in a cluster that keeps no files:
\* a runner's loop ends only when the runner is stopped.
THEOREM RunnersOnlyStop ==
    HSpec => [][\A i \in Server : i \in alive /\ i \notin alive' => Stop(i)]_<<vars, sent>>
<1>1. ASSUME HInv, HNext, NEW i \in Server, i \in alive, i \notin alive'
      PROVE  Stop(i)
  <2>1. sent' = sent \cup UNION {outbox'[k] : k \in Server}
    BY Zenon, <1>1 DEF HNext
  <2>2. PICK j \in Server :
          \/ Timeout(j) \/ Heartbeat(j) \/ Receive(j) \/ Stop(j)
          \/ \E c \in Command : Propose(j, c)
          \/ \E e \in outbox[j] : Route(j, e)
    BY Zenon, <1>1 DEF HNext, Next
  <2>3. NodeOK(j, node[j]) /\ Caught(node[j]) /\ node[j] \in NodeType
    BY Zenon, <1>1 DEF HInv
  <2>4. CASE Timeout(j)
    <3>1. ~start_election(j, node[j]).panic
      BY Zenon, <2>3, ElectionWithin DEF Within
    <3>2. QED
      BY Zenon, <3>1, <2>4, <1>1 DEF Timeout, Perform
  <2>5. CASE Heartbeat(j)
    BY Zenon, <2>5, <1>1 DEF Heartbeat, Perform, heartbeat, outcome
  <2>6. CASE Receive(j)
    <3>1. ~step(j, node[j], Head(inbox[j])).panic
      BY Zenon, <1>1, <2>1, <2>6, ReceiveSimulated
    <3>2. QED
      BY Zenon, <3>1, <2>6, <1>1 DEF Receive, Perform
  <2>7. CASE Stop(j)
    BY Zenon, <2>7, <1>1 DEF Stop
  <2>8. CASE \E c \in Command : Propose(j, c)
    BY Zenon, <2>8, <1>1 DEF Propose, Perform, propose, outcome
  <2>9. CASE \E e \in outbox[j] : Route(j, e)
    BY Zenon, <2>9, <1>1 DEF Route
  <2>10. QED
    BY Zenon, <2>2, <2>4, <2>5, <2>6, <2>7, <2>8, <2>9
<1>2. HInv /\ [HNext]_<<vars, sent>> =>
        /\ HInv'
        /\ [\A i \in Server : i \in alive /\ i \notin alive' => Stop(i)]_<<vars, sent>>
  BY Zenon, <1>1, HNextOK, HStutterOK
<1>3. QED
  BY <1>2, HInitOK, PTL DEF HSpec

=============================================================================
