--------------------------- MODULE RaftNodeProofs ---------------------------
(***************************************************************************)
(* Proofs about the handlers of RaftNode, each taken alone: an outcome     *)
(* that starts from a good replica and a good message has a good replica,  *)
(* a good saved state and good messages.  Nothing here depends on what     *)
(* carries the messages or on what becomes of the files.                   *)
(***************************************************************************)
EXTENDS RaftNode, TLAPS, SequenceTheorems, WellFoundedInduction, FiniteSetTheorems

(* A set of naturals that is not empty has a least element. *)
LEMMA LeastNat ==
    ASSUME NEW S, S \subseteq Nat, S # {}
    PROVE  \E x \in S : \A y \in S : x <= y
<1> DEFINE R == OpToRel(<, Nat)
<1>1. IsWellFoundedOn(R, Nat)
  BY Zenon, NatLessThanWellFounded
<1> HIDE DEF R
<1>2. PICK x \in S : \A y \in S : ~ (<<y, x>> \in R)
  BY Zenon, <1>1, WFMin
<1>3. ASSUME NEW y \in S PROVE x <= y
  <2>1. R = {ss \in Nat \X Nat : ss[1] < ss[2]}
    BY Zenon DEF R, OpToRel
  <2>2. <<y, x>> \notin R /\ x \in Nat /\ y \in Nat
    BY Zenon, <1>2
  <2>3. QED
    BY <2>1, <2>2
<1>4. QED
  BY Zenon, <1>3

(* A set of naturals that is not empty and bounded has a greatest element. *)
LEMMA GreatestNat ==
    ASSUME NEW b \in Nat, NEW S, S \subseteq 0..b, S # {}
    PROVE  \E x \in S : \A y \in S : y <= x
<1> DEFINE T == {k \in Nat : \E x \in S : k = b - x}
<1>1. T # {} /\ T \subseteq Nat
  <2>1. PICK x \in S : TRUE
    BY Zenon
  <2>2. b - x \in T
    OBVIOUS
  <2>3. QED
    BY Zenon, <2>2
<1>2. PICK k \in T : \A l \in T : k <= l
  BY Zenon, <1>1, LeastNat
<1>3. PICK x \in S : k = b - x
  BY Zenon
<1>4. ASSUME NEW y \in S PROVE y <= x
  BY <1>2, <1>3, b - y \in T
<1>5. QED
  BY Zenon, <1>4

-----------------------------------------------------------------------------
(* The log *)

(* An entry of a log has a term. *)
LEMMA EntryTerm ==
    ASSUME NEW log \in Seq(Entry), NEW k \in 1..Len(log)
    PROVE  log[k] \in Entry /\ log[k].term \in Nat
<1>1. log[k] \in Entry
  BY Zenon, ElementOfSeq
<1>2. QED
  BY Zenon, <1>1 DEF Entry

(* A prefix of the log followed by a suffix of the received entries, as the *)
(* loop of handle_append_req leaves it, is ordered when the entry before    *)
(* the received ones has the term the request names.                        *)
LEMMA AppendEntriesOrdered ==
    ASSUME NEW log \in Seq(Entry), NEW es \in Seq(Entry), NEW prev \in Nat,
           NEW pt \in Nat, NEW t \in Nat,
           Ordered(log, t), Ordered(es, t),
           \A k \in 1..Len(es) : pt <= es[k].term,
           prev = 0 \/ (prev \in 1..Len(log) /\ log[prev].term = pt)
    PROVE  /\ append_entries(log, prev, es) \in Seq(Entry)
           /\ Ordered(append_entries(log, prev, es), t)
<1> DEFINE differs(k) == \/ prev + k > Len(log)
                         \/ log[prev + k].term # es[k].term
           new == {k \in 1..Len(es) : differs(k)}
           k1 == CHOOSE x \in new : \A y \in new : x <= y
           res == SubSeq(log, 1, prev + k1 - 1) \o SubSeq(es, k1, Len(es))
<1>1. CASE new = {}
  BY Zenon, <1>1, append_entries(log, prev, es) = log DEF append_entries
<1>2. CASE new # {}
  <2>1. k1 \in new /\ \A y \in new : k1 <= y
    <3>1. new \subseteq Nat
      OBVIOUS
    <3>2. \E x \in new : \A y \in new : x <= y
      BY Zenon, <3>1, <1>2, LeastNat
    <3>3. QED
      BY <3>2, Zenon
  <2>2. append_entries(log, prev, es) = res
    BY Zenon, <1>2 DEF append_entries
  <2> HIDE DEF k1
  <2>3. k1 \in 1..Len(es) /\ prev + k1 - 1 <= Len(log)
    <3>1. CASE k1 = 1
      BY <3>1, <2>1
    <3>2. CASE k1 # 1
      <4>1. k1 - 1 \notin new /\ k1 - 1 \in 1..Len(es)
        BY <2>1, <3>2
      <4>2. QED
        BY <4>1, <2>1
    <3>3. QED
      BY Zenon, <3>1, <3>2
  <2> DEFINE a == SubSeq(log, 1, prev + k1 - 1)
             b == SubSeq(es, k1, Len(es))
  <2>4. /\ a \in Seq(Entry) /\ Len(a) = prev + k1 - 1
        /\ \A j \in 1..Len(a) : a[j] = log[j]
    <3>1. \A j \in 1..(prev + k1 - 1) : log[j] \in Entry
      BY <2>3, ElementOfSeq
    <3>2. QED
      BY <3>1, <2>3, SubSeqProperties
  <2>5. /\ b \in Seq(Entry) /\ Len(b) = Len(es) - k1 + 1
        /\ \A j \in 1..Len(b) : b[j] = es[k1 + j - 1]
    <3>1. \A j \in k1..Len(es) : es[j] \in Entry
      BY <2>3, ElementOfSeq
    <3>2. QED
      BY <3>1, <2>3, SubSeqProperties
  <2>6. /\ res \in Seq(Entry) /\ Len(res) = Len(a) + Len(b)
        /\ \A j \in 1..Len(res) : res[j] = IF j <= Len(a) THEN a[j] ELSE b[j - Len(a)]
    <3>. HIDE DEF a, b
    <3>1. res = a \o b
      BY Zenon DEF a, b
    <3>2. /\ a \o b \in Seq(Entry) /\ Len(a \o b) = Len(a) + Len(b)
          /\ \A j \in 1..Len(a) + Len(b) :
                (a \o b)[j] = IF j <= Len(a) THEN a[j] ELSE b[j - Len(a)]
      BY Zenon, <2>4, <2>5, ConcatProperties
    <3>3. QED
      BY Zenon, <3>1, <3>2
  <2> HIDE DEF a, b, res, new
  <2>7. \A k \in 1..Len(log) : log[k].term \in Nat
    BY Zenon, EntryTerm
  <2>8. \A k \in 1..Len(es) : es[k].term \in Nat
    BY Zenon, EntryTerm
  <2>9. \A j \in 1..Len(a) : log[j].term <= es[k1].term
    <3>1. CASE k1 = 1
      <4>1. \A j \in 1..Len(a) : j <= prev /\ prev \in 1..Len(log)
        BY <3>1, <2>4, <2>3
      <4>2. QED
        <5> TAKE j \in 1..Len(a)
        <5>1. log[j].term <= log[prev].term
          BY <4>1, <2>7 DEF Ordered
        <5>2. log[prev].term <= es[1].term
          BY <4>1, <2>3, <3>1
        <5>3. /\ j \in 1..Len(log) /\ 1 \in 1..Len(es)
              /\ prev \in 1..Len(log)
          BY <4>1, <2>3, <3>1
        <5>4. QED
          BY <5>1, <5>2, <5>3, <2>7, <2>8, <3>1
    <3>2. CASE k1 # 1
      <4>1. k1 - 1 \notin new /\ k1 - 1 \in 1..Len(es)
        BY <2>1, <2>3, <3>2
      <4>2. prev + (k1 - 1) <= Len(log) /\ log[prev + (k1 - 1)].term = es[k1 - 1].term
        BY Zenon, <4>1, <2>3 DEF new
      <4>3. es[k1 - 1].term <= es[k1].term
        BY <4>1, <2>3 DEF Ordered
      <4>4. \A j \in 1..Len(a) : log[j].term <= log[prev + (k1 - 1)].term
        BY <4>2, <2>4, <2>3, <3>2 DEF Ordered
      <4>5. prev + (k1 - 1) \in 1..Len(log)
        BY <4>2, <2>3, <3>2
      <4>6. \A j \in 1..Len(a) : j \in 1..Len(log)
        BY <2>3, <2>4
      <4>7. ASSUME NEW j \in 1..Len(a) PROVE log[j].term <= es[k1].term
        <5>1. log[j].term <= es[k1 - 1].term
          BY Zenon, <4>2, <4>4
        <5>2. /\ log[j].term \in Nat /\ es[k1].term \in Nat
              /\ es[k1 - 1].term \in Nat
          BY Zenon, <4>1, <4>6, <2>3, <2>7, <2>8
        <5>3. QED
          BY <5>1, <5>2, <4>3
      <4>8. QED
        BY Zenon, <4>7
    <3>3. QED
      BY Zenon, <3>1, <3>2
  <2>10. \A j \in 1..Len(b) : es[k1].term <= b[j].term
    <3> TAKE j \in 1..Len(b)
    <3>1. k1 + j - 1 \in 1..Len(es) /\ k1 <= k1 + j - 1 /\ b[j] = es[k1 + j - 1]
      BY <2>5, <2>3
    <3>2. QED
      BY Zenon, <3>1, <2>3 DEF Ordered
  <2>places. \A x \in 1..Len(b) : k1 + x - 1 \in 1..Len(es) /\ b[x] = es[k1 + x - 1]
    BY <2>3, <2>5
  <2>tail. ASSUME NEW j \in 1..Len(res), ~(j <= Len(a))
           PROVE  j - Len(a) \in 1..Len(b) /\ res[j] = b[j - Len(a)]
    <3>1. Len(a) \in Nat /\ Len(b) \in Nat /\ j \in Nat /\ j <= Len(a) + Len(b)
      BY <2>4, <2>5, <2>6
    <3>2. j - Len(a) \in 1..Len(b)
      BY <3>1, <2>tail
    <3>3. QED
      BY Zenon, <3>2, <2>6, <2>tail
  <2>11. \A j \in 1..Len(res) : res[j].term \in 1..t
    <3> TAKE j \in 1..Len(res)
    <3>1. CASE j <= Len(a)
      <4>1. j \in 1..Len(log) /\ res[j] = log[j]
        BY <3>1, <2>3, <2>4, <2>6
      <4>2. QED
        BY Zenon, <4>1 DEF Ordered
    <3>2. CASE ~(j <= Len(a))
      <4>1. j - Len(a) \in 1..Len(b) /\ res[j] = b[j - Len(a)]
        BY Zenon, <3>2, <2>tail
      <4>2. /\ k1 + (j - Len(a)) - 1 \in 1..Len(es)
            /\ res[j] = es[k1 + (j - Len(a)) - 1]
        BY Zenon, <4>1, <2>places
      <4>3. QED
        BY Zenon, <4>2 DEF Ordered
    <3>3. QED
      BY Zenon, <3>1, <3>2
  <2>12. ASSUME NEW j \in 1..Len(res), NEW l \in 1..Len(res), j <= l
         PROVE  res[j].term <= res[l].term
    <3>1. CASE l <= Len(a)
      <4>1. /\ j \in 1..Len(log) /\ l \in 1..Len(log)
            /\ res[j] = log[j] /\ res[l] = log[l]
        BY <3>1, <2>12, <2>3, <2>4, <2>6
      <4>2. QED
        BY Zenon, <4>1, <2>12 DEF Ordered
    <3>2. CASE j <= Len(a) /\ ~(l <= Len(a))
      <4>1. /\ res[j] = log[j] /\ j \in 1..Len(a)
            /\ l - Len(a) \in 1..Len(b) /\ res[l] = b[l - Len(a)]
        BY <3>2, <2>4, <2>5, <2>6
      <4>2. res[j].term <= es[k1].term /\ es[k1].term <= res[l].term
        BY Zenon, <4>1, <2>9, <2>10
      <4>3. res[j].term \in Nat /\ res[l].term \in Nat /\ es[k1].term \in Nat
        BY <2>11, <2>8, <2>3
      <4>4. QED
        BY <4>2, <4>3
    <3>3. CASE ~(j <= Len(a))
      <4> DEFINE at(x) == k1 + (x - Len(a)) - 1
      <4>1. /\ j - Len(a) \in 1..Len(b) /\ res[j] = b[j - Len(a)]
            /\ l - Len(a) \in 1..Len(b) /\ res[l] = b[l - Len(a)]
        <5>1. ~(l <= Len(a))
          BY <3>3, <2>12, <2>4, <2>6
        <5>2. QED
          BY Zenon, <3>3, <5>1, <2>tail
      <4>2. /\ at(j) \in 1..Len(es) /\ res[j] = es[at(j)]
            /\ at(l) \in 1..Len(es) /\ res[l] = es[at(l)]
            /\ at(j) <= at(l)
        <5>1. /\ at(j) \in 1..Len(es) /\ res[j] = es[at(j)]
              /\ at(l) \in 1..Len(es) /\ res[l] = es[at(l)]
          BY Zenon, <4>1, <2>places
        <5>2. at(j) <= at(l)
          <6>1. j \in Int /\ l \in Int /\ j <= l
            BY <2>12
          <6>2. k1 \in Int /\ Len(a) \in Int
            BY <2>3, <2>4
          <6>3. QED
            BY <6>1, <6>2
        <5>3. QED
          BY Zenon, <5>1, <5>2
      <4> HIDE DEF at
      <4>3. QED
        BY Zenon, <4>2 DEF Ordered
    <3>4. QED
      BY Zenon, <3>1, <3>2, <3>3
  <2>13. QED
    BY Zenon, <2>2, <2>6, <2>11, <2>12 DEF Ordered
<1>3. QED
  BY Zenon, <1>1, <1>2

(* A log ordered up to a term is ordered up to a later one. *)
LEMMA OrderedLater ==
    ASSUME NEW log \in Seq(Entry), NEW t \in Nat, NEW u \in Nat, t <= u,
           Ordered(log, t)
    PROVE  Ordered(log, u)
  BY EntryTerm DEF Ordered

(* An entry of the current term keeps a log ordered. *)
LEMMA OrderedAppend ==
    ASSUME NEW log \in Seq(Entry), NEW t \in Nat, t # 0, Ordered(log, t),
           NEW c \in Command \cup {Noop}
    PROVE  LET new == Append(log, [term |-> t, command |-> c])
           IN  /\ new \in Seq(Entry)
               /\ Ordered(new, t)
               /\ Len(new) = Len(log) + 1
               /\ new[Len(log) + 1].term = t
               /\ SubSeq(new, 1, Len(log)) = log
<1> DEFINE e == [term |-> t, command |-> c]
           new == Append(log, e)
<1>1. e \in Entry
  BY Zenon DEF Entry
<1>2. /\ new \in Seq(Entry) /\ Len(new) = Len(log) + 1
      /\ \A k \in 1..Len(log) : new[k] = log[k]
      /\ new[Len(log) + 1] = e
  BY <1>1, AppendProperties
<1> HIDE DEF new
<1>3. Len(log) \in Nat
  BY Zenon, LenProperties
<1>4. ASSUME NEW k \in 1..Len(new) PROVE new[k].term \in 1..t
  <2>1. CASE k = Len(log) + 1
    BY <2>1, <1>2
  <2>2. CASE k # Len(log) + 1
    <3>1. k \in 1..Len(log)
      BY <2>2, <1>2, <1>3
    <3>2. QED
      BY Zenon, <3>1, <1>2 DEF Ordered
  <2>3. QED
    BY Zenon, <2>1, <2>2
<1>5. ASSUME NEW k \in 1..Len(new), NEW l \in 1..Len(new), k <= l
      PROVE  new[k].term <= new[l].term
  <2>1. CASE l = Len(log) + 1
    BY <2>1, <1>2, <1>4
  <2>2. CASE l # Len(log) + 1
    <3>1. k \in 1..Len(log) /\ l \in 1..Len(log)
      BY <2>2, <1>2, <1>3, <1>5
    <3>2. QED
      BY Zenon, <3>1, <1>2, <1>5 DEF Ordered
  <2>3. QED
    BY Zenon, <2>1, <2>2
<1>6. SubSeq(new, 1, Len(log)) = log
  <2>1. \A k \in 1..Len(log) : new[k] \in Entry
    BY Zenon, <1>2, <1>3, ElementOfSeq
  <2>2. /\ SubSeq(new, 1, Len(log)) \in Seq(Entry)
        /\ Len(SubSeq(new, 1, Len(log))) = Len(log)
        /\ \A k \in 1..Len(log) : SubSeq(new, 1, Len(log))[k] = new[k]
    BY <2>1, <1>3, SubSeqProperties
  <2>3. QED
    BY Zenon, <2>2, <1>2, SeqEqual
<1>7. QED
  BY <1>2, <1>4, <1>5, <1>6 DEF new, Ordered

-----------------------------------------------------------------------------
(* What one replica, one file and one message have to satisfy *)

NodeOK(i, n) ==
    /\ n \in NodeType
    /\ Ordered(n.log, n.current_term)
    /\ n.role \in {"Candidate", "Leader"} => n.current_term # 0 /\ n.voted_for = i
    /\ n.role = "Leader" => /\ \A p \in Peers(i) : n.peer_state[p] # Nil
                            /\ Cardinality(n.votes_received) >= quorum
                            /\ n.log # << >>
                            /\ n.log[Len(n.log)].term = n.current_term

DiskOK(d) == d = Nil \/ (d \in DiskType /\ Ordered(d.log, d.current_term))

MsgOK(m) ==
    /\ m \in Message
    /\ m.from # m.to
    /\ m.type = "AppendReq" =>
          /\ Ordered(m.entries, m.term)
          /\ \A k \in 1..Len(m.entries) : m.prev_log_term <= m.entries[k].term

Prefix(l1, l2) == Len(l1) <= Len(l2) /\ l1 = SubSeq(l2, 1, Len(l1))

\* d holds the term, the vote and the log of n.
Holds(d, n) == /\ d.current_term = n.current_term
               /\ d.voted_for = n.voted_for
               /\ d.log = n.log

\* An outcome of a handler of replica i that was in state n
OutcomeOK(i, n, r) ==
    /\ NodeOK(i, r.node)
    /\ DiskOK(r.saved)
    /\ \A m \in r.send : MsgOK(m)
    /\ n.current_term <= r.node.current_term
    /\ n.role = "Leader" /\ r.node.role = "Leader" => Prefix(n.log, r.node.log)
    /\ IF r.saved = Nil THEN Holds(n, r.node) /\ ~r.panic ELSE Holds(r.saved, r.node)

(* A log is a prefix of itself. *)
LEMMA PrefixSelf ==
    ASSUME NEW l \in Seq(Entry)
    PROVE  Prefix(l, l)
  BY SubSeqFull, LenProperties DEF Prefix

(* What persist_state saves of a good replica is a good file. *)
LEMMA SnapshotOK ==
    ASSUME NEW i \in Server, NEW n, NodeOK(i, n)
    PROVE  DiskOK(snapshot(n)) /\ snapshot(n) # Nil /\ Holds(snapshot(n), n)
<1>1. snapshot(n) \in DiskType
  BY Zenon DEF NodeOK, NodeType, DiskType, snapshot
<1>2. QED
  BY Zenon, <1>1, DiskAssumption DEF NodeOK, DiskOK, snapshot, Holds

(* A replica that starts without a file is good. *)
LEMMA FreshOK ==
    ASSUME NEW i \in Server
    PROVE  NodeOK(i, fresh)
<1>1. fresh \in NodeType
  BY Zenon, EmptySeq DEF fresh, NodeType, NoPeers
<1>2. Ordered(fresh.log, fresh.current_term)
  BY EmptySeq DEF fresh, Ordered
<1>3. QED
  BY Zenon, <1>1, <1>2 DEF NodeOK, fresh

(* A replica restored from a good file is good. *)
LEMMA RestoreOK ==
    ASSUME NEW i \in Server, NEW d, DiskOK(d)
    PROVE  /\ NodeOK(i, restore(d))
           /\ restore(d).role = "Follower"
           /\ d # Nil => Holds(d, restore(d))
<1>1. CASE d = Nil
  BY Zenon, <1>1, FreshOK DEF restore, fresh
<1>2. CASE d # Nil
  <2>1. d \in DiskType /\ Ordered(d.log, d.current_term)
    BY Zenon, <1>2 DEF DiskOK
  <2>2. Len(d.log) \in Nat
    BY Zenon, <2>1, LenProperties DEF DiskType
  <2>3. restore(d) \in NodeType
    BY Zenon, <1>2, <2>1, <2>2 DEF restore, fresh, DiskType, NodeType, NoPeers
  <2>4. /\ restore(d).role = "Follower" /\ restore(d).log = d.log
        /\ restore(d).current_term = d.current_term
        /\ restore(d).voted_for = d.voted_for
    BY Zenon, <1>2 DEF restore, fresh
  <2>5. QED
    BY Zenon, <2>1, <2>3, <2>4, <1>2 DEF NodeOK, Holds
<1>3. QED
  BY Zenon, <1>1, <1>2

(* become_follower *)
LEMMA FollowerOK ==
    ASSUME NEW i \in Server, NEW n, NodeOK(i, n), NEW t \in Nat,
           n.current_term <= t
    PROVE  LET f == become_follower(n, t)
           IN  /\ NodeOK(i, f) /\ f.role = "Follower" /\ f.current_term = t
               /\ f.log = n.log
<1> DEFINE f == become_follower(n, t)
<1>1. f \in NodeType
  BY Zenon DEF NodeOK, NodeType, become_follower, NoPeers
<1>2. /\ f.role = "Follower" /\ f.current_term = t /\ f.log = n.log
  BY Zenon DEF NodeOK, NodeType, become_follower
<1>3. Ordered(f.log, t)
  BY Zenon, <1>2, OrderedLater DEF NodeOK, NodeType
<1>4. QED
  BY Zenon, <1>1, <1>2, <1>3 DEF NodeOK

(* send_append: the entries from next_index on are ordered. *)
LEMMA SendAppendOK ==
    ASSUME NEW i \in Server, NEW n, NodeOK(i, n), NEW p \in Peers(i),
           n.peer_state[p] # Nil
    PROVE  MsgOK(send_append(i, n, p))
<1> DEFINE next == n.peer_state[p].next_index
           m == send_append(i, n, p)
           es == entries_from(n, next)
<1>1. next \in Nat /\ next # 0
  BY Zenon DEF NodeOK, NodeType, Peers, PeerState
<1>2. n.log \in Seq(Entry) /\ Len(n.log) \in Nat
  BY Zenon, LenProperties DEF NodeOK, NodeType
<1> HIDE DEF next
<1>3. /\ es \in Seq(Entry)
      /\ \A k \in 1..Len(es) : /\ next + k - 1 \in 1..Len(n.log)
                                /\ es[k] = n.log[next + k - 1]
  <2>1. es = SubSeq(n.log, next, Len(n.log))
    BY Zenon, <1>1 DEF entries_from
  <2>2. \A k \in next..Len(n.log) : n.log[k] \in Entry
    BY <1>1, <1>2, ElementOfSeq
  <2> DEFINE q == SubSeq(n.log, next, Len(n.log))
  <2>3. /\ q \in Seq(Entry)
        /\ Len(q) = IF next <= Len(n.log) THEN Len(n.log) - next + 1 ELSE 0
        /\ \A k \in 1..(Len(n.log) - next + 1) : q[k] = n.log[next + k - 1]
    BY <2>2, <1>1, <1>2, SubSeqProperties
  <2> HIDE DEF q
  <2>4. QED
    BY <2>1, <2>3, <1>1, <1>2 DEF q
<1> HIDE DEF es
<1>4. term_at(n, next - 1) \in Nat
  BY Zenon, <1>1, <1>2, EntryTerm DEF term_at
<1>5. m \in Message /\ m.from # m.to
  <2>1. next - 1 \in Nat /\ n.current_term \in Nat /\ n.commit_index \in Nat
    BY <1>1 DEF NodeOK, NodeType
  <2>2. m = [type |-> "AppendReq", from |-> i, to |-> p, term |-> n.current_term,
             prev_log_idx |-> next - 1, prev_log_term |-> term_at(n, next - 1),
             entries |-> es, leader_commit |-> n.commit_index]
    BY Zenon DEF send_append, next, es
  <2>3. p \in Server /\ p # i
    BY Zenon DEF Peers
  <2> HIDE DEF m
  <2>4. QED
    BY Zenon, <2>1, <2>2, <2>3, <1>3, <1>4 DEF Message
<1>6. Ordered(es, n.current_term)
  <2>1. Ordered(n.log, n.current_term)
    BY Zenon DEF NodeOK
  <2>2. ASSUME NEW k \in 1..Len(es) PROVE es[k].term \in 1..n.current_term
    BY Zenon, <2>1, <1>3 DEF Ordered
  <2>3. ASSUME NEW k \in 1..Len(es), NEW l \in 1..Len(es), k <= l
        PROVE  es[k].term <= es[l].term
    <3>1. next + k - 1 <= next + l - 1
      BY <2>3, <1>1, <1>3, LenProperties
    <3>2. QED
      BY Zenon, <3>1, <2>1, <1>3 DEF Ordered
  <2>4. QED
    BY Zenon, <2>2, <2>3 DEF Ordered
<1>7. ASSUME NEW k \in 1..Len(es) PROVE term_at(n, next - 1) <= es[k].term
  <2>1. es[k] = n.log[next + k - 1] /\ next + k - 1 \in 1..Len(n.log)
    BY Zenon, <1>3
  <2>2. es[k].term \in Nat
    BY Zenon, <1>3, EntryTerm
  <2>3. CASE next - 1 \in 1..Len(n.log)
    <3>1. next - 1 <= next + k - 1
      BY <1>1
    <3>2. n.log[next - 1].term <= n.log[next + k - 1].term
      BY Zenon, <2>1, <2>3, <3>1 DEF NodeOK, Ordered
    <3>3. QED
      BY Zenon, <2>1, <2>3, <3>2 DEF term_at
  <2>4. CASE next - 1 \notin 1..Len(n.log)
    BY <2>2, <2>4 DEF term_at
  <2>5. QED
    BY Zenon, <2>3, <2>4
<1>8. QED
  BY Zenon, <1>5, <1>6, <1>7 DEF MsgOK, send_append, next, es

-----------------------------------------------------------------------------
(* Outcomes *)

(* broadcast_append *)
LEMMA BroadcastOK ==
    ASSUME NEW i \in Server, NEW n, NodeOK(i, n), n.role = "Leader"
    PROVE  \A m \in broadcast_append(i, n) : MsgOK(m)
<1> TAKE m \in broadcast_append(i, n)
<1>1. PICK p \in Peers(i) : m = send_append(i, n, p)
  BY Zenon DEF broadcast_append
<1>2. n.peer_state[p] # Nil
  BY Zenon DEF NodeOK
<1>3. QED
  BY Zenon, <1>1, <1>2, SendAppendOK

(* become_leader, with the no-op it appends. *)
LEMMA BecomeLeaderOK ==
    ASSUME NEW i \in Server, NEW n, NodeOK(i, n), n.role = "Candidate",
           Cardinality(n.votes_received) >= quorum
    PROVE  LET r == become_leader(i, n)
           IN  OutcomeOK(i, n, r) /\ r.saved # Nil
<1> DEFINE log2 == Append(n.log, [term |-> n.current_term, command |-> Noop])
           ps == [next_index |-> Len(log2) + 1, match_index |-> 0]
           led == [n EXCEPT !.log = log2, !.role = "Leader",
                            !.peer_state = [p \in Server |-> IF p = i THEN Nil ELSE ps]]
<1>1. n \in NodeType /\ n.current_term # 0 /\ n.voted_for = i
  BY Zenon DEF NodeOK
<1>2. /\ log2 \in Seq(Entry) /\ Ordered(log2, n.current_term)
      /\ Len(log2) = Len(n.log) + 1 /\ log2[Len(n.log) + 1].term = n.current_term
  <2>1. n.log \in Seq(Entry) /\ n.current_term \in Nat /\ Ordered(n.log, n.current_term)
    BY Zenon DEF NodeOK, NodeType
  <2>2. QED
    BY <2>1, <1>1, OrderedAppend
<1>3. Len(n.log) \in Nat
  BY Zenon, <1>1, LenProperties DEF NodeType
<1> HIDE DEF log2
<1>4. ps \in PeerState
  BY <1>2, <1>3 DEF PeerState
<1> HIDE DEF ps
<1>5. led \in NodeType
  BY Zenon, <1>1, <1>2, <1>4 DEF NodeType
<1>6. /\ led.role = "Leader" /\ led.log = log2 /\ led.voted_for = i
      /\ led.current_term = n.current_term /\ led.votes_received = n.votes_received
      /\ \A p \in Server : led.peer_state[p] = IF p = i THEN Nil ELSE ps
  BY Zenon, <1>1 DEF NodeType
<1>7. ps # Nil
  BY Zenon, <1>4, NilAssumption
<1> HIDE DEF led
<1>8. log2 # << >>
  BY <1>2, <1>3, EmptySeq
<1>9. NodeOK(i, led)
  BY Zenon, <1>1, <1>2, <1>5, <1>6, <1>7, <1>8 DEF NodeOK, Peers
<1>10. become_leader(i, n) = outcome(led, snapshot(led), broadcast_append(i, led))
  <2>1. append_noop(n) = [n EXCEPT !.log = log2]
    BY Zenon, <1>1 DEF append_noop, append, log2, NodeType
  <2>2. [[n EXCEPT !.log = log2] EXCEPT !.role = "Leader",
             !.peer_state = [p \in Server |-> IF p = i THEN Nil ELSE ps]] = led
    BY Zenon, <1>1 DEF led, NodeType
  <2>3. last_index([n EXCEPT !.log = log2]) = Len(log2)
    BY Zenon, <1>1 DEF last_index, NodeType
  <2>4. QED
    BY Zenon, <2>1, <2>2, <2>3 DEF become_leader, ps
<1>11. \A m \in broadcast_append(i, led) : MsgOK(m)
  BY Zenon, <1>9, <1>6, BroadcastOK
<1>12. n.current_term <= led.current_term
  BY <1>1, <1>6 DEF NodeType
<1>13. QED
  BY <1>9, <1>10, <1>11, <1>12, SnapshotOK DEF OutcomeOK, outcome

(* start_election *)
LEMMA StartElectionOK ==
    ASSUME NEW i \in Server, NEW n, NodeOK(i, n), n.role # "Leader"
    PROVE  OutcomeOK(i, n, start_election(i, n))
<1> DEFINE cand == [n EXCEPT !.current_term = @ + 1, !.role = "Candidate",
                             !.voted_for = i, !.votes_received = {i}]
           req(p) == [type |-> "VoteReq", from |-> i, to |-> p,
                      term |-> cand.current_term, last_log_idx |-> last_index(n),
                      last_log_term |-> last_term(n)]
<1>1. n \in NodeType /\ Ordered(n.log, n.current_term)
  BY Zenon DEF NodeOK
<1>2. cand \in NodeType
  <2>1. n.current_term + 1 \in Nat /\ {i} \in SUBSET Server
    BY <1>1 DEF NodeType
  <2>2. cand = [n EXCEPT !.current_term = n.current_term + 1, !.role = "Candidate",
                         !.voted_for = i, !.votes_received = {i}]
    BY Zenon, <1>1 DEF NodeType
  <2> HIDE DEF cand
  <2>3. QED
    BY Zenon, <1>1, <2>1, <2>2 DEF NodeType
<1>3. /\ cand.role = "Candidate" /\ cand.current_term = n.current_term + 1
      /\ cand.voted_for = i /\ cand.votes_received = {i} /\ cand.log = n.log
  BY Zenon, <1>1 DEF NodeType
<1>4. n.current_term \in Nat
  BY Zenon, <1>1 DEF NodeType
<1> HIDE DEF cand
<1>5. Ordered(cand.log, cand.current_term)
  <2>1. n.log \in Seq(Entry) /\ n.current_term + 1 \in Nat
    BY <1>1, <1>4 DEF NodeType
  <2>2. QED
    BY <1>1, <1>3, <1>4, <2>1, OrderedLater
<1>6. NodeOK(i, cand)
  <2>1. cand.current_term # 0
    BY <1>3, <1>4
  <2>2. QED
    BY Zenon, <2>1, <1>2, <1>3, <1>5 DEF NodeOK
<1>7. CASE 1 >= quorum
  <2>1. Cardinality(cand.votes_received) >= quorum
    BY Zenon, <1>3, <1>7, FS_Singleton
  <2>2. OutcomeOK(i, cand, become_leader(i, cand)) /\ become_leader(i, cand).saved # Nil
    BY Zenon, <2>1, <1>3, <1>6, BecomeLeaderOK
  <2>3. start_election(i, n) = become_leader(i, cand)
    BY Zenon, <1>7 DEF start_election, cand
  <2>4. n.current_term <= become_leader(i, cand).node.current_term
    BY <2>2, <1>3, <1>4 DEF OutcomeOK, NodeOK, NodeType
  <2>5. QED
    BY Zenon, <2>2, <2>3, <2>4 DEF OutcomeOK
<1>8. CASE ~(1 >= quorum)
  <2>1. start_election(i, n) = outcome(cand, snapshot(cand), {req(p) : p \in Peers(i)})
    BY Zenon, <1>8 DEF start_election, cand
  <2>2. last_index(n) \in Nat /\ last_term(n) \in Nat
    <3>1. n.log \in Seq(Entry)
      BY Zenon, <1>1 DEF NodeType
    <3>2. n.log # << >> => Len(n.log) \in 1..Len(n.log)
      BY <3>1, EmptySeq
    <3>3. QED
      BY Zenon, <3>1, <3>2, LenProperties, EntryTerm DEF last_index, last_term
  <2>3. ASSUME NEW p \in Peers(i) PROVE MsgOK(req(p))
    BY <2>2, <1>3, <1>4 DEF MsgOK, Message, Peers
  <2> HIDE DEF req
  <2>4. \A m \in {req(p) : p \in Peers(i)} : MsgOK(m)
    BY Zenon, <2>3
  <2>5. QED
    BY <2>1, <2>4, <1>3, <1>4, <1>6, SnapshotOK DEF OutcomeOK, outcome
<1>9. QED
  BY Zenon, <1>7, <1>8

(* heartbeat *)
LEMMA HeartbeatOK ==
    ASSUME NEW i \in Server, NEW n, NodeOK(i, n), n.role = "Leader"
    PROVE  OutcomeOK(i, n, heartbeat(i, n))
<1>1. n.current_term <= n.current_term /\ Prefix(n.log, n.log)
  BY PrefixSelf DEF NodeOK, NodeType
<1>2. QED
  BY Zenon, <1>1, BroadcastOK DEF OutcomeOK, heartbeat, outcome, DiskOK, Holds

(* propose *)
LEMMA ProposeOK ==
    ASSUME NEW i \in Server, NEW n, NodeOK(i, n), n.role = "Leader",
           NEW c \in Command
    PROVE  OutcomeOK(i, n, propose(i, n, c))
<1> DEFINE log2 == Append(n.log, [term |-> n.current_term, command |-> c])
           m == [n EXCEPT !.log = log2]
<1>1. n \in NodeType /\ n.current_term # 0 /\ n.voted_for = i
  BY Zenon DEF NodeOK
<1>2. /\ log2 \in Seq(Entry) /\ Ordered(log2, n.current_term)
      /\ Len(log2) = Len(n.log) + 1 /\ log2[Len(n.log) + 1].term = n.current_term
      /\ SubSeq(log2, 1, Len(n.log)) = n.log
  <2>1. n.log \in Seq(Entry) /\ n.current_term \in Nat /\ Ordered(n.log, n.current_term)
    BY Zenon DEF NodeOK, NodeType
  <2>2. QED
    BY <2>1, <1>1, OrderedAppend
<1>3. Len(n.log) \in Nat
  BY Zenon, <1>1, LenProperties DEF NodeType
<1>4. propose(i, n, c) = outcome(m, snapshot(m), broadcast_append(i, m))
  BY Zenon, <1>1 DEF propose, append, NodeType
<1> HIDE DEF log2
<1>5. log2 # << >>
  BY <1>2, <1>3, EmptySeq
<1>6. /\ m \in NodeType /\ m.log = log2 /\ m.role = n.role
      /\ m.current_term = n.current_term /\ m.voted_for = n.voted_for
      /\ m.votes_received = n.votes_received /\ m.peer_state = n.peer_state
  BY Zenon, <1>1, <1>2 DEF NodeType
<1> HIDE DEF m
<1>7. NodeOK(i, m)
  BY Zenon, <1>2, <1>5, <1>6 DEF NodeOK
<1>8. Prefix(n.log, m.log) /\ n.current_term <= m.current_term
  BY <1>1, <1>2, <1>3, <1>6 DEF Prefix, NodeType
<1>9. QED
  BY <1>4, <1>6, <1>7, <1>8, BroadcastOK, SnapshotOK DEF OutcomeOK, outcome

(* A handler that only adopts a newer term *)
LEMMA StepDownOK ==
    ASSUME NEW i \in Server, NEW n, NodeOK(i, n), NEW t \in Nat, n.current_term < t
    PROVE  LET f == become_follower(n, t) IN OutcomeOK(i, n, outcome(f, snapshot(f), {}))
<1> DEFINE f == become_follower(n, t)
<1>1. n.current_term \in Nat
  BY Zenon DEF NodeOK, NodeType
<1>2. NodeOK(i, f) /\ f.role = "Follower" /\ f.current_term = t
  BY <1>1, FollowerOK
<1> HIDE DEF f
<1>3. QED
  BY <1>1, <1>2, SnapshotOK DEF OutcomeOK, outcome, f

(* A handler that changes nothing *)
LEMMA SilentOK ==
    ASSUME NEW i \in Server, NEW n, NodeOK(i, n), NEW send, \A m \in send : MsgOK(m)
    PROVE  OutcomeOK(i, n, outcome(n, Nil, send))
<1>1. n.current_term <= n.current_term /\ Prefix(n.log, n.log)
  BY PrefixSelf DEF NodeOK, NodeType
<1>2. QED
  BY Zenon, <1>1 DEF OutcomeOK, outcome, DiskOK, Holds

(* Raising the commit index. *)
LEMMA SetCommitOK ==
    ASSUME NEW i \in Server, NEW n, NodeOK(i, n), NEW ci \in Nat
    PROVE  LET m == set_commit_index(n, ci)
           IN  /\ NodeOK(i, m) /\ m.role = n.role /\ m.log = n.log
               /\ m.current_term = n.current_term
<1> DEFINE m == set_commit_index(n, ci)
<1>1. n \in NodeType
  BY Zenon DEF NodeOK
<1>2. last_index(n) \in Nat
  BY Zenon, <1>1, LenProperties DEF last_index, NodeType
<1>3. /\ m \in NodeType /\ m.log = n.log /\ m.role = n.role
      /\ m.current_term = n.current_term /\ m.voted_for = n.voted_for
      /\ m.votes_received = n.votes_received /\ m.peer_state = n.peer_state
  BY Zenon, <1>1, <1>2 DEF NodeType, set_commit_index
<1> HIDE DEF m
<1>4. QED
  BY Zenon, <1>3 DEF NodeOK, m

(* take_unapplied after a handler. *)
LEMMA ApplyOutcomeOK ==
    ASSUME NEW i \in Server, NEW n, NodeOK(i, n), NEW g, NodeOK(i, g),
           NEW send, \A m \in send : MsgOK(m),
           n.current_term <= g.current_term,
           n.role = "Leader" /\ g.role = "Leader" => Prefix(n.log, g.log)
    PROVE  OutcomeOK(i, n, apply_outcome(g, send))
<1> DEFINE a == mark_applied(g)
<1>1. g \in NodeType
  BY Zenon DEF NodeOK
<1>2. /\ a \in NodeType /\ a.log = g.log /\ a.role = g.role
      /\ a.current_term = g.current_term /\ a.voted_for = g.voted_for
      /\ a.votes_received = g.votes_received /\ a.peer_state = g.peer_state
  BY Zenon, <1>1 DEF NodeType, mark_applied
<1> HIDE DEF a
<1>3. NodeOK(i, a)
  BY Zenon, <1>2 DEF NodeOK
<1>4. /\ DiskOK(snapshot(g)) /\ snapshot(g) # Nil /\ Holds(snapshot(g), a)
  BY Zenon, <1>2, SnapshotOK DEF Holds
<1>5. /\ apply_outcome(g, send).node = a /\ apply_outcome(g, send).saved = snapshot(g)
      /\ apply_outcome(g, send).send \subseteq send
  BY Zenon DEF apply_outcome, a
<1>6. QED
  BY Zenon, <1>2, <1>3, <1>4, <1>5 DEF OutcomeOK

-----------------------------------------------------------------------------
(* The message handlers *)

(* The two replies to a good message are good messages. *)
LEMMA ReplyOK ==
    ASSUME NEW i \in Server, NEW m, MsgOK(m), m.to = i, NEW t \in Nat, NEW b \in BOOLEAN,
           NEW k \in Nat
    PROVE  MsgOK(vote_resp(i, m.from, t, b)) /\ MsgOK(append_resp(i, m.from, t, b, k))
<1>1. m.from \in Server /\ m.from # i
  BY Zenon DEF MsgOK, Message
<1>2. MsgOK(vote_resp(i, m.from, t, b))
  BY Zenon, <1>1 DEF vote_resp, MsgOK, Message
<1>3. MsgOK(append_resp(i, m.from, t, b, k))
  BY Zenon, <1>1 DEF append_resp, MsgOK, Message
<1>4. QED
  BY Zenon, <1>2, <1>3

(* handle_vote_req *)
LEMMA VoteReqOK ==
    ASSUME NEW i \in Server, NEW n, NodeOK(i, n), NEW m, MsgOK(m), m.to = i,
           m.type = "VoteReq"
    PROVE  OutcomeOK(i, n, handle_vote_req(i, n, m))
<1> DEFINE newer == m.term > n.current_term
           f == IF newer THEN become_follower(n, m.term) ELSE n
           granted == log_ok(f, m) /\ can_vote(f, m)
           g == IF granted THEN [f EXCEPT !.voted_for = m.from] ELSE f
<1>1. m.from \in Server /\ m.term \in Nat /\ n.current_term \in Nat
  BY Zenon DEF MsgOK, Message, NodeOK, NodeType
<1>2. CASE stale(n, m)
  <2>1. MsgOK(vote_resp(i, m.from, n.current_term, FALSE))
    BY Zenon, <1>1, ReplyOK
  <2>2. handle_vote_req(i, n, m)
            = outcome(n, Nil, {vote_resp(i, m.from, n.current_term, FALSE)})
    BY Zenon, <1>2 DEF handle_vote_req
  <2>3. QED
    BY Zenon, <2>1, <2>2, SilentOK
<1>3. CASE ~stale(n, m)
  <2>1. handle_vote_req(i, n, m)
            = outcome(g, IF newer \/ granted THEN snapshot(g) ELSE Nil,
                      {vote_resp(i, m.from, g.current_term, granted)})
    BY Zenon, <1>3 DEF handle_vote_req, vote
  <2>2. granted \in BOOLEAN
    BY Zenon DEF log_ok, can_vote
  <2>3. /\ NodeOK(i, f) /\ n.current_term <= f.current_term
        /\ newer => f.role = "Follower"
        /\ ~newer => f = n
    BY <1>1, FollowerOK DEF NodeOK
  <2>4. granted /\ f.role # "Follower" => m.from = f.voted_for
    BY Zenon, <2>3, NilAssumption DEF can_vote, NodeOK, NodeType
  <2> HIDE DEF granted, f, newer
  <2>5. /\ g \in NodeType /\ g.log = f.log /\ g.role = f.role
        /\ g.current_term = f.current_term /\ g.peer_state = f.peer_state
        /\ g.votes_received = f.votes_received
        /\ f.role # "Follower" => g.voted_for = f.voted_for
        /\ ~granted => g = f
    BY Zenon, <2>3, <2>4, <1>1 DEF NodeOK, NodeType
  <2> HIDE DEF g
  <2>6. NodeOK(i, g)
    BY Zenon, <2>3, <2>5 DEF NodeOK
  <2>7. MsgOK(vote_resp(i, m.from, g.current_term, granted))
    BY Zenon, <2>2, <2>6, ReplyOK DEF NodeOK, NodeType
  <2>8. n.role = "Leader" /\ g.role = "Leader" => Prefix(n.log, g.log)
    <3>1. n.log \in Seq(Entry)
      BY Zenon DEF NodeOK, NodeType
    <3>2. QED
      BY Zenon, <3>1, <2>3, <2>5, PrefixSelf
  <2>9. CASE newer \/ granted
    BY <2>1, <2>3, <2>5, <2>6, <2>7, <2>8, <2>9, SnapshotOK DEF OutcomeOK, outcome
  <2>10. CASE ~(newer \/ granted)
    <3>1. g = n
      BY Zenon, <2>3, <2>5, <2>10
    <3>2. QED
      BY Zenon, <2>1, <2>7, <2>10, <3>1, SilentOK
  <2>11. QED
    BY Zenon, <2>9, <2>10
<1>4. QED
  BY Zenon, <1>2, <1>3

(* handle_vote_resp *)
LEMMA VoteRespOK ==
    ASSUME NEW i \in Server, NEW n, NodeOK(i, n), NEW m, MsgOK(m), m.to = i,
           m.type = "VoteResp"
    PROVE  OutcomeOK(i, n, handle_vote_resp(i, n, m))
<1> DEFINE v == [n EXCEPT !.votes_received = @ \cup {m.from}]
<1>1. m.from \in Server /\ m.term \in Nat /\ n.current_term \in Nat
  BY Zenon DEF MsgOK, Message, NodeOK, NodeType
<1>2. CASE m.term > n.current_term
  BY Zenon, <1>1, <1>2, StepDownOK DEF handle_vote_resp
<1>3. CASE ~(m.term > n.current_term) /\ (n.role # "Candidate" \/ ~m.vote_granted)
  BY Zenon, <1>3, SilentOK DEF handle_vote_resp
<1>4. CASE ~(m.term > n.current_term) /\ n.role = "Candidate" /\ m.vote_granted
  <2>1. /\ v \in NodeType /\ v.log = n.log /\ v.role = n.role
        /\ v.current_term = n.current_term /\ v.voted_for = n.voted_for
    BY Zenon, <1>1 DEF NodeOK, NodeType
  <2>2. handle_vote_resp(i, n, m) = IF Cardinality(v.votes_received) >= quorum
                                    THEN become_leader(i, v) ELSE outcome(v, Nil, {})
    BY Zenon, <1>4 DEF handle_vote_resp
  <2> HIDE DEF v
  <2>3. NodeOK(i, v)
    BY Zenon, <2>1, <1>4 DEF NodeOK
  <2>4. CASE Cardinality(v.votes_received) >= quorum
    <3>1. OutcomeOK(i, v, become_leader(i, v)) /\ become_leader(i, v).saved # Nil
      BY Zenon, <2>1, <2>3, <2>4, <1>4, BecomeLeaderOK
    <3>2. QED
      BY Zenon, <3>1, <2>1, <2>2, <2>4, <1>4 DEF OutcomeOK
  <2>5. CASE ~(Cardinality(v.votes_received) >= quorum)
    BY <2>1, <2>2, <2>3, <2>5, <1>1, <1>4 DEF OutcomeOK, outcome, DiskOK, Holds
  <2>6. QED
    BY Zenon, <2>4, <2>5
<1>5. QED
  BY Zenon, <1>2, <1>3, <1>4

(* handle_append_req *)
LEMMA AppendReqOK ==
    ASSUME NEW i \in Server, NEW n, NodeOK(i, n), NEW m, MsgOK(m), m.to = i,
           m.type = "AppendReq"
    PROVE  OutcomeOK(i, n, handle_append_req(i, n, m))
<1> DEFINE f == become_follower(n, m.term)
           log2 == append_entries(f.log, m.prev_log_idx, m.entries)
           h == [f EXCEPT !.log = log2]
           g == set_commit_index(h, m.leader_commit)
<1>1. /\ m.from \in Server /\ m.term \in Nat /\ n.current_term \in Nat
      /\ m.prev_log_idx \in Nat /\ m.prev_log_term \in Nat
      /\ m.entries \in Seq(Entry) /\ m.leader_commit \in Nat
  BY Zenon DEF MsgOK, Message, NodeOK, NodeType
<1>2. CASE stale(n, m)
  <2>1. MsgOK(append_resp(i, m.from, n.current_term, FALSE, 0))
    BY Zenon, <1>1, ReplyOK
  <2>2. handle_append_req(i, n, m)
            = outcome(n, Nil, {append_resp(i, m.from, n.current_term, FALSE, 0)})
    BY Zenon, <1>2 DEF handle_append_req
  <2>3. QED
    BY Zenon, <2>1, <2>2, SilentOK
<1>3. CASE ~stale(n, m)
  <2>1. /\ NodeOK(i, f) /\ f.role = "Follower" /\ f.current_term = m.term
        /\ n.current_term <= f.current_term
    BY <1>1, <1>3, FollowerOK DEF stale
  <2>2. f.log \in Seq(Entry) /\ last_index(f) \in Nat
    BY Zenon, <2>1, LenProperties DEF NodeOK, NodeType, last_index
  <2>3. CASE ~prev_ok(f, m)
    <3>1. MsgOK(append_resp(i, m.from, f.current_term, FALSE, last_index(f)))
      BY Zenon, <1>1, <2>1, <2>2, ReplyOK
    <3>2. handle_append_req(i, n, m) = outcome(f, snapshot(f),
              {append_resp(i, m.from, f.current_term, FALSE, last_index(f))})
      BY Zenon, <1>3, <2>3 DEF handle_append_req
    <3> HIDE DEF f
    <3>3. DiskOK(snapshot(f)) /\ snapshot(f) # Nil /\ Holds(snapshot(f), f)
      BY Zenon, <2>1, SnapshotOK
    <3> DEFINE rep == append_resp(i, m.from, f.current_term, FALSE, last_index(f))
               sn == snapshot(f)
    <3> HIDE DEF rep, sn
    <3>4. OutcomeOK(i, n, outcome(f, sn, {rep}))
      BY Zenon, <3>1, <3>3, <2>1 DEF OutcomeOK, outcome, rep, sn
    <3>5. QED
      BY Zenon, <3>2, <3>4 DEF rep, sn
  <2>4. CASE prev_ok(f, m)
    <3>1. handle_append_req(i, n, m) = apply_outcome(g,
              {append_resp(i, m.from, g.current_term, TRUE, last_index(g))})
      BY Zenon, <1>3, <2>4 DEF handle_append_req
    <3> HIDE DEF f
    <3>2. log2 \in Seq(Entry) /\ Ordered(log2, m.term)
      <4>1. /\ Ordered(f.log, m.term) /\ Ordered(m.entries, m.term)
            /\ \A k \in 1..Len(m.entries) : m.prev_log_term <= m.entries[k].term
        BY Zenon, <2>1 DEF NodeOK, MsgOK
      <4>2. \/ m.prev_log_idx = 0
            \/ /\ m.prev_log_idx \in 1..Len(f.log)
               /\ f.log[m.prev_log_idx].term = m.prev_log_term
        BY Zenon, <2>4 DEF prev_ok
      <4>3. QED
        BY Zenon, <4>1, <4>2, <2>2, <1>1, AppendEntriesOrdered
    <3> HIDE DEF log2
    <3>3. /\ h \in NodeType /\ h.log = log2 /\ h.role = "Follower"
          /\ h.current_term = m.term
      BY Zenon, <2>1, <3>2 DEF NodeOK, NodeType
    <3> HIDE DEF h
    <3>4. NodeOK(i, h)
      BY Zenon, <3>2, <3>3 DEF NodeOK
    <3>5. /\ NodeOK(i, g) /\ g.role = "Follower" /\ g.current_term = m.term
      BY Zenon, <3>3, <3>4, <1>1, SetCommitOK
    <3> HIDE DEF g
    <3>6. last_index(g) \in Nat
      BY Zenon, <3>5, LenProperties DEF NodeOK, NodeType, last_index
    <3>7. MsgOK(append_resp(i, m.from, g.current_term, TRUE, last_index(g)))
      BY Zenon, <3>5, <3>6, <1>1, ReplyOK
    <3>8. n.current_term <= g.current_term
      BY Zenon, <3>5, <2>1
    <3>9. QED
      BY Zenon, <3>1, <3>5, <3>7, <3>8, ApplyOutcomeOK
  <2>5. QED
    BY Zenon, <2>3, <2>4
<1>4. QED
  BY Zenon, <1>2, <1>3

(* try_advance_commit *)
LEMMA TryAdvanceOK ==
    ASSUME NEW i \in Server, NEW n, NodeOK(i, n)
    PROVE  OutcomeOK(i, n, try_advance_commit_index(n))
<1> DEFINE k == CHOOSE x \in committable(n) : \A y \in committable(n) : y <= x
<1>1. CASE committable(n) = {}
  BY Zenon, <1>1, SilentOK DEF try_advance_commit_index
<1>2. CASE committable(n) # {}
  <2>1. last_index(n) \in Nat /\ n.commit_index \in Nat /\ n.log \in Seq(Entry)
    BY Zenon, LenProperties DEF NodeOK, NodeType, last_index
  <2>2. committable(n) \subseteq 0..last_index(n)
    BY <2>1 DEF committable
  <2>3. \E x \in committable(n) : \A y \in committable(n) : y <= x
    BY Zenon, <2>1, <2>2, <1>2, GreatestNat
  <2>4. k \in Nat
    <3>1. k \in committable(n)
      BY <2>3, Zenon
    <3>2. QED
      BY <3>1, <2>1, <2>2
  <2>5. try_advance_commit_index(n) = apply_outcome(set_commit_index(n, k), {})
    BY Zenon, <1>2 DEF try_advance_commit_index
  <2> HIDE DEF k
  <2> DEFINE g == set_commit_index(n, k)
  <2>6. /\ NodeOK(i, g) /\ g.role = n.role /\ g.log = n.log
        /\ g.current_term = n.current_term
    BY Zenon, <2>4, SetCommitOK
  <2> HIDE DEF g
  <2>7. n.current_term <= g.current_term /\ Prefix(n.log, g.log)
    BY <2>1, <2>6, PrefixSelf DEF NodeOK, NodeType
  <2>8. OutcomeOK(i, n, apply_outcome(g, {}))
    BY Zenon, <2>6, <2>7, ApplyOutcomeOK
  <2>9. QED
    BY Zenon, <2>5, <2>8 DEF g
<1>3. QED
  BY Zenon, <1>1, <1>2

(* handle_append_resp *)
LEMMA AppendRespOK ==
    ASSUME NEW i \in Server, NEW n, NodeOK(i, n), NEW m, MsgOK(m), m.to = i,
           m.type = "AppendResp"
    PROVE  OutcomeOK(i, n, handle_append_resp(i, n, m))
<1> DEFINE ps1 == [next_index |-> m.match_index + 1, match_index |-> m.match_index]
           acked == [n EXCEPT !.peer_state[m.from] = ps1]
           next2 == roll_back(n.peer_state[m.from].next_index, m)
           back == [n EXCEPT !.peer_state[m.from].next_index = roll_back(@, m)]
<1>1. /\ m.from \in Server /\ m.term \in Nat /\ n.current_term \in Nat
      /\ m.match_index \in Nat /\ m.from \in Peers(i) /\ m.from # i
  BY Zenon DEF MsgOK, Message, NodeOK, NodeType, Peers
<1>2. CASE m.term > n.current_term
  BY Zenon, <1>1, <1>2, StepDownOK DEF handle_append_resp
<1>3. CASE ~(m.term > n.current_term) /\ n.role # "Leader"
  BY Zenon, <1>3, SilentOK DEF handle_append_resp
<1>4. CASE ~(m.term > n.current_term) /\ n.role = "Leader"
  <2>1. n.peer_state \in [Server -> PeerState \cup {Nil}] /\ n.peer_state[m.from] \in PeerState
    BY Zenon, <1>1, <1>4 DEF NodeOK, NodeType
  <2>2. CASE m.success
    <3>1. ps1 \in PeerState
      BY <1>1 DEF PeerState
    <3>2. handle_append_resp(i, n, m) = try_advance_commit_index(acked)
      BY Zenon, <1>4, <2>2 DEF handle_append_resp
    <3> HIDE DEF ps1
    <3>3. /\ acked \in NodeType /\ acked.log = n.log /\ acked.role = n.role
          /\ acked.current_term = n.current_term /\ acked.voted_for = n.voted_for
          /\ acked.votes_received = n.votes_received
          /\ acked.peer_state = [n.peer_state EXCEPT ![m.from] = ps1]
      BY Zenon, <1>1, <2>1, <3>1 DEF NodeOK, NodeType
    <3>4. \A p \in Peers(i) : acked.peer_state[p] # Nil
      BY <3>1, <3>3, <2>1, <1>1, <1>4, NilAssumption DEF NodeOK, Peers
    <3> HIDE DEF acked
    <3>5. NodeOK(i, acked)
      BY Zenon, <3>3, <3>4 DEF NodeOK
    <3>6. OutcomeOK(i, acked, try_advance_commit_index(acked))
      BY Zenon, <3>5, TryAdvanceOK
    <3>7. QED
      BY Zenon, <3>2, <3>3, <3>6 DEF OutcomeOK, Holds
  <2>3. CASE ~m.success
    <3>1. handle_append_resp(i, n, m) = outcome(back, Nil, {send_append(i, back, m.from)})
      BY Zenon, <1>4, <2>3 DEF handle_append_resp
    <3>2. next2 \in Nat \ {0}
      BY <2>1, <1>1 DEF roll_back, PeerState
    <3>3. /\ back \in NodeType /\ back.log = n.log /\ back.role = n.role
          /\ back.current_term = n.current_term /\ back.voted_for = n.voted_for
          /\ back.votes_received = n.votes_received
          /\ back.peer_state = [n.peer_state EXCEPT ![m.from] =
                                  [n.peer_state[m.from] EXCEPT !.next_index = next2]]
      <4> HIDE DEF next2
      <4>1. [n.peer_state[m.from] EXCEPT !.next_index = next2] \in PeerState
        BY Zenon, <2>1, <3>2 DEF PeerState
      <4>2. back = [n EXCEPT !.peer_state = [n.peer_state EXCEPT ![m.from] =
                                  [n.peer_state[m.from] EXCEPT !.next_index = next2]]]
        BY Zenon, <1>1, <2>1 DEF next2, NodeOK, NodeType
      <4> HIDE DEF back
      <4>3. QED
        BY Zenon, <4>1, <4>2, <1>1, <2>1 DEF NodeOK, NodeType
    <3> HIDE DEF next2
    <3>4. [n.peer_state[m.from] EXCEPT !.next_index = next2] \in PeerState
      BY Zenon, <2>1, <3>2 DEF PeerState
    <3>5. \A p \in Peers(i) : back.peer_state[p] # Nil
      BY <3>3, <3>4, <2>1, <1>1, <1>4, NilAssumption DEF NodeOK, Peers
    <3> HIDE DEF back
    <3>6. NodeOK(i, back)
      BY Zenon, <3>3, <3>5 DEF NodeOK
    <3>7. MsgOK(send_append(i, back, m.from))
      BY Zenon, <3>5, <3>6, <1>1, SendAppendOK
    <3>8. n.current_term <= back.current_term /\ Prefix(n.log, back.log)
      BY <3>3, <1>1, PrefixSelf DEF NodeOK, NodeType
    <3>9. QED
      BY <3>1, <3>3, <3>6, <3>7, <3>8 DEF OutcomeOK, outcome, DiskOK, Holds
  <2>4. QED
    BY Zenon, <2>2, <2>3
<1>5. QED
  BY Zenon, <1>2, <1>3, <1>4

(* step: the four handlers together. *)
LEMMA StepOK ==
    ASSUME NEW i \in Server, NEW n, NodeOK(i, n), NEW m, MsgOK(m), m.to = i
    PROVE  OutcomeOK(i, n, step(i, n, m))
<1>1. m.type \in {"VoteReq", "VoteResp", "AppendReq", "AppendResp"}
  BY Zenon DEF MsgOK, Message
<1>2. CASE m.type = "VoteReq"
  BY Zenon, <1>2, VoteReqOK DEF step
<1>3. CASE m.type = "VoteResp"
  BY Zenon, <1>3, VoteRespOK DEF step
<1>4. CASE m.type = "AppendReq"
  BY Zenon, <1>4, AppendReqOK DEF step
<1>5. CASE m.type = "AppendResp"
  BY Zenon, <1>5, AppendRespOK DEF step
<1>6. QED
  BY Zenon, <1>1, <1>2, <1>3, <1>4, <1>5
=============================================================================
