--------------------------- MODULE ControlProofs ----------------------------
(***************************************************************************)
(* Proofs about the components around the validation gate: hot reload of   *)
(* rules, the queue of deferred scans, audit sinks and the rollout of      *)
(* rules, for any sets of pods, policies, requests, tasks and workers and  *)
(* any bounds.  The argument about the scan queue is that a task is in one *)
(* place at a time, and that the counters count places.                    *)
(***************************************************************************)
EXTENDS MCControl, FiniteSetTheorems, TLAPS

-----------------------------------------------------------------------------
(* Hot reload of rules. *)

\* A store under way has a policy, and its number is not above that of the
\* policy in force; an attempt of the watcher is one of Tries.
WritersOK ==
  /\ file = NoPolicy => edits < MaxEdits
  /\ watcher.pc \in {"verify", "load"} => watcher.tries >= 1
  /\ watcher.pc \in {"write", "bump"} => watcher.policy \in Policy
  /\ \A c \in Pusher : pusher[c].pc \in {"write", "bump"} => pusher[c].policy \in Policy
  /\ watcher.nr <= handle.nr /\ stored <= handle.nr
  /\ \A c \in Pusher : pusher[c].nr <= handle.nr

\* What a generation promises: the newest store that had returned when it was
\* current.  Requests that read the same generation were promised the same, and
\* the evaluator cached under a generation keeps what the generation promised.
PromisesOK ==
  /\ \A r \in Reader : reader[r].generation <= generation /\ reader[r].floor <= stored
  /\ \A r \in Reader : reader[r].pc # "idle" /\ reader[r].generation = generation =>
       reader[r].floor = stored
  /\ \A r, q \in Reader :
       /\ reader[r].pc # "idle" /\ reader[q].pc # "idle"
       /\ reader[r].generation = reader[q].generation
       => reader[r].floor = reader[q].floor
  /\ \A r \in Reader : reader[r].pc = "build" =>
       reader[r].evaluator \in Numbered /\ reader[r].evaluator.nr >= reader[r].floor

LabelOK ==
  /\ ruleCache.generation <= generation
  /\ ruleCache.evaluator # NoEvaluator /\ ruleCache.generation = generation =>
       ruleCache.evaluator.nr >= stored
  /\ \A r \in Reader :
       /\ reader[r].pc # "idle" /\ ruleCache.evaluator # NoEvaluator
       /\ ruleCache.generation = reader[r].generation
       => ruleCache.evaluator.nr >= reader[r].floor

\* Whoever builds an evaluator holds the mutex and has loaded the policy since.
MutexOK ==
  /\ ruleCache.evaluator.nr <= handle.nr
  /\ \A r \in Reader : reader[r].pc = "build" =>
       /\ cacheLock = r
       /\ ruleCache.evaluator.nr <= reader[r].evaluator.nr
       /\ reader[r].evaluator.nr <= handle.nr

ReloadInv ==
  /\ ReloadTypeOK /\ WritersOK /\ PromisesOK /\ LabelOK /\ MutexOK
  /\ FreshRules /\ NewestCached

(* The larger of two numbers, as store_bump takes it. *)
LEMMA MaxOfTwo ==
  ASSUME NEW a \in Nat, NEW b \in Nat
  PROVE  /\ Max({a, b}) \in Nat /\ Max({a, b}) >= a
         /\ Max({a, b}) = a \/ Max({a, b}) = b
<1>1. \E x \in {a, b} : \A y \in {a, b} : x >= y
  OBVIOUS
<1>2. Max({a, b}) \in {a, b} /\ \A y \in {a, b} : Max({a, b}) >= y
  BY Zenon, <1>1 DEF Max
<1> QED
  BY Zenon, <1>2

(* watch_policy has loaded the file and nothing else has happened. *)
LEMMA ReloadStart == ReloadInit => ReloadInv
<1> SUFFICES ASSUME ReloadInit PROVE ReloadInv
  BY Zenon
<1> USE ReloadAssumption DEF ReloadInit, NoRequest, NoEvaluator, NoCall, NoReload, Numbered
<1>1. ReloadTypeOK
  BY DEF ReloadTypeOK
<1>2. WritersOK
  BY DEF WritersOK
<1>3. PromisesOK /\ LabelOK /\ MutexOK
  BY DEF PromisesOK, LabelOK, MutexOK
<1>4. FreshRules /\ NewestCached
  BY Zenon DEF FreshRules, NewestCached
<1> QED
  BY Zenon, <1>1, <1>2, <1>3, <1>4 DEF ReloadInv

(* An edit of the files reaches neither the policy in force nor a request.  *)
LEMMA FileStep ==
  ASSUME ReloadInv, Truncate \/ \E p \in Policy : Fill(p) \/ Sign(p)
  PROVE  ReloadInv'
<1> USE ReloadAssumption DEF ReloadInv
<1>1. UNCHANGED <<watcher, handleVars, pusher, readVars>>
  BY Zenon DEF Truncate, Fill, Sign
<1>2. ReloadTypeOK' /\ WritersOK'
  BY <1>1 DEF Truncate, Fill, Sign, ReloadTypeOK, WritersOK, handleVars, readVars
<1> QED
  BY Zenon, <1>1, <1>2 DEF PromisesOK, LabelOK, MutexOK, FreshRules, NewestCached, handleVars, readVars

\* The state of the watcher's thread and of a call of the webhook
Reload == [pc : {"idle", "verify", "load", "write", "bump"}, tries : 0..Tries,
           policy : Policy \cup {NoPolicy}, nr : Nat]
Push == [pc : {"idle", "write", "bump", "done"}, policy : Policy \cup {NoPolicy}, nr : Nat]

(* The records of the watcher and of a push with two of their fields replaced. *)
LEMMA ReloadTries ==
  ASSUME NEW w \in Reload, NEW c \in {"verify"}, NEW n \in 0..Tries
  PROVE  LET v == [w EXCEPT !.pc = c, !.tries = n]
         IN  v \in Reload /\ v.pc = c /\ v.tries = n /\ v.nr = w.nr
BY Zenon DEF Reload

(* A reload in progress that has read a policy is one still. *)
LEMMA ReloadPolicy ==
  ASSUME NEW w \in Reload, NEW c \in {"write"}, NEW p \in Policy
  PROVE  LET v == [w EXCEPT !.pc = c, !.policy = p]
         IN  v \in Reload /\ v.pc = c /\ v.policy = p /\ v.nr = w.nr
BY Zenon DEF Reload

(* A reload in progress that has its generation is one still. *)
LEMMA ReloadNumber ==
  ASSUME NEW w \in Reload, NEW c \in {"bump"}, NEW k \in Nat
  PROVE  LET v == [w EXCEPT !.pc = c, !.nr = k]
         IN  v \in Reload /\ v.pc = c /\ v.policy = w.policy /\ v.nr = k
BY Zenon DEF Reload

(* A push that has loaded its policy is one still. *)
LEMMA PushPolicy ==
  ASSUME NEW w \in Push, NEW c \in {"write"}, NEW p \in Policy
  PROVE  LET v == [w EXCEPT !.pc = c, !.policy = p]
         IN  v \in Push /\ v.pc = c /\ v.policy = p /\ v.nr = w.nr
BY Zenon DEF Push

(* A push that has its generation is one still. *)
LEMMA PushNumber ==
  ASSUME NEW w \in Push, NEW c \in {"bump"}, NEW k \in Nat
  PROVE  LET v == [w EXCEPT !.pc = c, !.nr = k]
         IN  v \in Push /\ v.pc = c /\ v.policy = w.policy /\ v.nr = k
BY Zenon DEF Push

(* The watcher's thread up to its store: only its own record changes.       *)
LEMMA WatchStep ==
  ASSUME ReloadInv, Notified \/ verify_rules_signature \/ from_file
  PROVE  ReloadInv'
<1> USE ReloadAssumption DEF ReloadInv
<1>1. UNCHANGED <<file, sig, edits, handleVars, pusher, readVars>>
  BY Zenon DEF Notified, verify_rules_signature, from_file, fileVars
<1>2. /\ watcher'.pc \in {"verify", "load"} => watcher'.tries >= 1
      /\ watcher'.pc = "write" => watcher'.policy \in Policy
      /\ watcher' \in Reload /\ watcher'.pc # "bump" /\ watcher'.nr <= handle.nr /\ events' \in Nat
  <2>0. /\ watcher \in Reload /\ events \in Nat /\ file \in Policy \cup {NoPolicy}
        /\ handle.nr \in Nat /\ watcher.nr <= handle.nr
        /\ watcher.pc = "load" => watcher.tries >= 1
        /\ watcher.pc = "verify" => watcher.tries >= 1
    BY Zenon DEF ReloadTypeOK, WritersOK, Reload, Numbered
  <2>1. CASE Notified
    <3>1. Tries \in 0..Tries /\ events' \in Nat
      BY <2>0, <2>1 DEF Notified
    <3>2. watcher' = [watcher EXCEPT !.pc = "verify", !.tries = Tries]
      BY Zenon, <2>1 DEF Notified
    <3>3. watcher' \in Reload /\ watcher'.pc = "verify" /\ watcher'.tries = Tries /\ watcher'.nr = watcher.nr
      BY Zenon, <2>0, <3>1, <3>2, ReloadTries
    <3> QED
      BY <2>0, <3>1, <3>3
  <2>2. CASE verify_rules_signature
    BY <2>0, <2>2 DEF verify_rules_signature, Reload, NoReload, fileVars
  <2>3. CASE from_file
    <3>1. CASE file # NoPolicy
      <4>1. file \in Policy /\ watcher' = [watcher EXCEPT !.pc = "write", !.policy = file]
        BY Zenon, <2>0, <2>3, <3>1 DEF from_file
      <4>2. watcher' \in Reload /\ watcher'.pc = "write" /\ watcher'.policy = file /\ watcher'.nr = watcher.nr
        BY Zenon, <2>0, <4>1, ReloadPolicy
      <4> QED
        BY Zenon, <2>0, <2>3, <4>1, <4>2 DEF from_file, fileVars
    <3>2. CASE file = NoPolicy /\ watcher.tries = 1
      BY <2>0, <2>3, <3>2 DEF from_file, Reload, NoReload, fileVars
    <3>3. CASE file = NoPolicy /\ watcher.tries # 1
      <4> DEFINE n == watcher.tries - 1
      <4>1. n \in 0..Tries /\ n >= 1
        BY <2>0, <2>3, <3>3 DEF from_file, Reload
      <4>2. watcher' = [watcher EXCEPT !.pc = "verify", !.tries = n]
        BY Zenon, <2>0, <2>3, <3>3 DEF from_file, Reload
      <4> HIDE DEF n
      <4>3. watcher' \in Reload /\ watcher'.pc = "verify" /\ watcher'.tries = n /\ watcher'.nr = watcher.nr
        BY Zenon, <2>0, <4>1, <4>2, ReloadTries
      <4> QED
        BY Zenon, <2>0, <2>3, <4>1, <4>3 DEF from_file, fileVars
    <3> QED
      BY Zenon, <3>1, <3>2, <3>3
  <2> QED
    BY Zenon, <2>1, <2>2, <2>3
<1>3. ReloadTypeOK' /\ WritersOK'
  BY Zenon, <1>1, <1>2 DEF ReloadTypeOK, WritersOK, Reload, handleVars, readVars
<1> QED
  BY Zenon, <1>1, <1>3 DEF PromisesOK, LabelOK, MutexOK, FreshRules, NewestCached, handleVars, readVars

(* The first step of a store, of the watcher or of a push.                  *)
LEMMA WriteStep ==
  ASSUME ReloadInv, WatcherWrite \/ \E c \in Pusher : PushWrite(c)
  PROVE  ReloadInv'
<1> USE ReloadAssumption DEF ReloadInv
<1>0. handle.nr \in Nat /\ watcher \in Reload /\ pusher \in [Pusher -> Push]
  BY Zenon DEF ReloadTypeOK, Numbered, Reload, Push
<1>1. PICK p \in Policy :
        handle' = [policy |-> p, nr |-> handle.nr + 1] /\ UNCHANGED <<fileVars, generation, stored, readVars>>
  <2>1. CASE WatcherWrite
    BY Zenon, <2>1 DEF WatcherWrite, store_write, WritersOK
  <2>2. ASSUME NEW c \in Pusher, PushWrite(c)
        PROVE  \E p \in Policy : /\ handle' = [policy |-> p, nr |-> handle.nr + 1]
                                 /\ UNCHANGED <<fileVars, generation, stored, readVars>>
    BY Zenon, <2>2 DEF PushWrite, store_write, WritersOK
  <2> QED
    BY Zenon, <2>1, <2>2
<1>2. handle' \in Numbered /\ handle'.nr = handle.nr + 1
  BY <1>0, <1>1 DEF Numbered
<1>3. ReloadTypeOK' /\ WritersOK'
  <2>1. CASE WatcherWrite
    <3>1. /\ watcher' \in Reload /\ watcher'.pc = "bump" /\ watcher'.policy = watcher.policy
          /\ watcher'.nr = handle.nr + 1 /\ UNCHANGED pusher
      <4>1. watcher' = [watcher EXCEPT !.pc = "bump", !.nr = handle.nr + 1] /\ handle.nr + 1 \in Nat
        BY <1>0, <2>1 DEF WatcherWrite
      <4>2. watcher' \in Reload /\ watcher'.pc = "bump" /\ watcher'.policy = watcher.policy
            /\ watcher'.nr = handle.nr + 1
        BY Zenon, <1>0, <4>1, ReloadNumber
      <4> QED
        BY Zenon, <2>1, <4>2 DEF WatcherWrite
    <3> QED
      BY <1>0, <1>1, <1>2, <2>1, <3>1
      DEF WatcherWrite, ReloadTypeOK, WritersOK, Reload, Push, fileVars, readVars
  <2>2. ASSUME NEW c \in Pusher, PushWrite(c) PROVE ReloadTypeOK' /\ WritersOK'
    <3>1. /\ pusher' \in [Pusher -> Push] /\ UNCHANGED watcher
          /\ pusher'[c].policy \in Policy /\ pusher'[c].nr = handle.nr + 1
          /\ \A d \in Pusher \ {c} : pusher'[d] = pusher[d]
      <4> DEFINE new == [pusher[c] EXCEPT !.pc = "bump", !.nr = handle.nr + 1]
      <4>0. pusher[c].pc = "write"
        BY Zenon, <2>2 DEF PushWrite
      <4>1. handle.nr + 1 \in Nat /\ pusher[c] \in Push /\ pusher[c].policy \in Policy
        BY <1>0, <4>0 DEF WritersOK
      <4>2. new \in Push /\ new.policy = pusher[c].policy /\ new.nr = handle.nr + 1
        BY Zenon, <4>1, PushNumber
      <4>3. pusher' = [pusher EXCEPT ![c] = new] /\ UNCHANGED watcher
        BY Zenon, <2>2 DEF PushWrite
      <4> HIDE DEF new
      <4> QED
        BY Zenon, <1>0, <4>1, <4>2, <4>3
    <3> QED
      BY <1>0, <1>1, <1>2, <3>1 DEF ReloadTypeOK, WritersOK, Reload, Push, fileVars, readVars
  <2> QED
    BY Zenon, <2>1, <2>2
<1>4. MutexOK'
  BY <1>0, <1>1, <1>2 DEF MutexOK, ReloadTypeOK, NoEvaluator, Numbered, readVars
<1> QED
  BY Zenon, <1>1, <1>3, <1>4 DEF PromisesOK, LabelOK, FreshRules, NewestCached, readVars

(* The second step of a store makes every promise one of the past.          *)
LEMMA BumpStep ==
  ASSUME ReloadInv, WatcherBump \/ \E c \in Pusher : PushBump(c)
  PROVE  ReloadInv'
<1> USE ReloadAssumption DEF ReloadInv
<1>1. PICK n \in Nat : /\ n <= handle.nr /\ stored' = Max({stored, n})
                       /\ generation' = generation + 1
                       /\ UNCHANGED <<fileVars, handle, readVars>>
  BY Zenon DEF WatcherBump, PushBump, store_bump, ReloadTypeOK, WritersOK
<1>2. stored \in Nat /\ generation \in Nat /\ handle.nr \in Nat /\ stored <= handle.nr
  BY Zenon DEF ReloadTypeOK, WritersOK, Numbered
<1>3. stored' \in Nat /\ stored' >= stored /\ stored' <= handle.nr
  BY Zenon, <1>1, <1>2, MaxOfTwo
<1>4. ReloadTypeOK' /\ WritersOK'
  <2>1. CASE WatcherBump
    BY <1>1, <1>2, <1>3, <2>1 DEF WatcherBump, ReloadTypeOK, WritersOK, NoReload, fileVars, readVars
  <2>2. ASSUME NEW c \in Pusher, PushBump(c) PROVE ReloadTypeOK' /\ WritersOK'
    BY <1>1, <1>2, <1>3, <2>2 DEF PushBump, ReloadTypeOK, WritersOK, fileVars, readVars
  <2> QED
    BY Zenon, <2>1, <2>2
<1>5. \A r \in Reader : reader[r].generation \in Nat /\ reader[r].floor \in Nat
  BY Zenon DEF ReloadTypeOK
<1>6. PromisesOK'
  BY <1>1, <1>2, <1>3, <1>5 DEF PromisesOK, readVars
<1>7. LabelOK'
  BY <1>1, <1>2 DEF LabelOK, ReloadTypeOK, readVars
<1> QED
  BY Zenon, <1>1, <1>4, <1>6, <1>7 DEF MutexOK, FreshRules, NewestCached, readVars

(* A push is accepted. *)
LEMMA PushStep ==
  ASSUME ReloadInv, NEW c \in Pusher, NEW p \in Policy, PushReceived(c, p)
  PROVE  ReloadInv'
<1> USE ReloadAssumption DEF ReloadInv
<1>1. UNCHANGED <<fileVars, watcher, handleVars, readVars>>
  BY Zenon DEF PushReceived
<1>2. ReloadTypeOK' /\ WritersOK'
  <2> DEFINE new == [pusher[c] EXCEPT !.pc = "write", !.policy = p]
  <2>1. pusher \in [Pusher -> Push] /\ pusher' = [pusher EXCEPT ![c] = new]
    BY Zenon DEF PushReceived, ReloadTypeOK, Push
  <2>2. new \in Push /\ new.policy = p /\ new.nr = pusher[c].nr
    BY Zenon, <2>1, PushPolicy
  <2> HIDE DEF new
  <2>3. pusher' \in [Pusher -> Push] /\ pusher'[c] = new /\ \A d \in Pusher \ {c} : pusher'[d] = pusher[d]
    BY Zenon, <2>1, <2>2
  <2> QED
    BY Zenon, <1>1, <2>2, <2>3 DEF ReloadTypeOK, WritersOK, Push, fileVars, handleVars, readVars
<1> QED
  BY Zenon, <1>1, <1>2 DEF PromisesOK, LabelOK, MutexOK, FreshRules, NewestCached, handleVars, readVars

\* A request that evaluates rules
Reading == [pc : {"idle", "lookup", "build", "done"}, generation : Nat, floor : Nat,
            evaluator : Numbered \cup {NoEvaluator}]

(* Steps of requests: they touch only their own record, the cache and its   *)
(* mutex.  The floor of a promise is fixed when the generation is read.     *)
LEMMA ReadStep ==
  ASSUME ReloadInv, NEW r \in Reader, ReadGeneration(r)
  PROVE  ReloadInv'
<1> USE ReloadAssumption DEF ReloadInv
<1>1. /\ UNCHANGED <<fileVars, watcher, handleVars, pusher, ruleCache, cacheLock>>
      /\ reader \in [Reader -> Reading] /\ generation \in Nat /\ stored \in Nat
      /\ reader' = [reader EXCEPT ![r] = [pc |-> "lookup", generation |-> generation,
                                          floor |-> stored, evaluator |-> NoEvaluator]]
  BY Zenon DEF ReadGeneration, ReloadTypeOK, Reading
<1>2. /\ reader' \in [Reader -> Reading] /\ reader'[r].pc = "lookup"
      /\ reader'[r].generation = generation /\ reader'[r].floor = stored
      /\ \A q \in Reader \ {r} : reader'[q] = reader[q]
  BY Zenon, <1>1 DEF Reading
<1>3. ReloadTypeOK' /\ WritersOK'
  BY Zenon, <1>1, <1>2 DEF ReloadTypeOK, WritersOK, Reading, fileVars, handleVars
<1>4. PromisesOK'
  BY <1>1, <1>2 DEF PromisesOK, handleVars, Reading
<1>5. LabelOK' /\ MutexOK'
  BY Zenon, <1>1, <1>2 DEF LabelOK, MutexOK, handleVars
<1>6. FreshRules' /\ NewestCached'
  BY Zenon, <1>1, <1>2 DEF FreshRules, NewestCached
<1> QED
  BY Zenon, <1>3, <1>4, <1>5, <1>6

(* A hit takes an evaluator that keeps the promise of its generation. *)
LEMMA HitStep ==
  ASSUME ReloadInv, NEW r \in Reader, UseCached(r)
  PROVE  ReloadInv'
<1> USE ReloadAssumption DEF ReloadInv
<1>1. /\ UNCHANGED <<fileVars, watcher, handleVars, pusher, ruleCache, cacheLock>>
      /\ reader \in [Reader -> Reading] /\ ruleCache.evaluator \in Numbered
      /\ reader[r].pc = "lookup" /\ ruleCache.generation = reader[r].generation
      /\ ruleCache.evaluator # NoEvaluator
      /\ reader' = [reader EXCEPT ![r] = [@ EXCEPT !.pc = "done", !.evaluator = ruleCache.evaluator]]
  BY Zenon DEF UseCached, cache_hit, ReloadTypeOK, Reading
<1>2. /\ reader' \in [Reader -> Reading] /\ reader'[r].pc = "done"
      /\ reader'[r].generation = reader[r].generation /\ reader'[r].floor = reader[r].floor
      /\ reader'[r].evaluator = ruleCache.evaluator
      /\ \A q \in Reader \ {r} : reader'[q] = reader[q]
  BY Zenon, <1>1 DEF Reading
<1>3. ReloadTypeOK' /\ WritersOK'
  BY Zenon, <1>1, <1>2 DEF ReloadTypeOK, WritersOK, Reading, fileVars, handleVars
<1>4. PromisesOK'
  BY <1>1, <1>2 DEF PromisesOK, handleVars, Reading
<1>5. LabelOK' /\ MutexOK'
  BY Zenon, <1>1, <1>2 DEF LabelOK, MutexOK, handleVars
<1>6. FreshRules' /\ NewestCached'
  BY <1>1, <1>2 DEF FreshRules, NewestCached, LabelOK, Numbered
<1> QED
  BY Zenon, <1>3, <1>4, <1>5, <1>6

(* A miss takes the mutex and then loads the policy in force. *)
LEMMA LoadStep ==
  ASSUME ReloadInv, NEW r \in Reader, LoadPolicy(r)
  PROVE  ReloadInv'
<1> USE ReloadAssumption DEF ReloadInv
<1>1. /\ UNCHANGED <<fileVars, watcher, handleVars, pusher, ruleCache>>
      /\ reader \in [Reader -> Reading] /\ handle \in Numbered
      /\ reader[r].pc = "lookup" /\ cacheLock = NoPolicy /\ cacheLock' = r
      /\ reader' = [reader EXCEPT ![r] = [@ EXCEPT !.pc = "build", !.evaluator = handle]]
  BY Zenon DEF LoadPolicy, ReloadTypeOK, Reading
<1>2. /\ reader' \in [Reader -> Reading] /\ reader'[r].pc = "build"
      /\ reader'[r].generation = reader[r].generation /\ reader'[r].floor = reader[r].floor
      /\ reader'[r].evaluator = handle
      /\ \A q \in Reader \ {r} : reader'[q] = reader[q]
  BY Zenon, <1>1 DEF Reading
<1>3. ReloadTypeOK' /\ WritersOK'
  BY Zenon, <1>1, <1>2 DEF ReloadTypeOK, WritersOK, Reading, fileVars, handleVars
<1>4. PromisesOK'
  BY <1>1, <1>2 DEF PromisesOK, WritersOK, ReloadTypeOK, handleVars, Reading, Numbered
<1>5. LabelOK' /\ MutexOK'
  BY <1>1, <1>2 DEF LabelOK, MutexOK, handleVars, Numbered
<1>6. FreshRules' /\ NewestCached'
  BY Zenon, <1>1, <1>2 DEF FreshRules, NewestCached
<1> QED
  BY Zenon, <1>3, <1>4, <1>5, <1>6

(* The evaluator is cached under the generation whose promise it keeps, by  *)
(* the only request that holds the mutex.                                   *)
LEMMA BuildStep ==
  ASSUME ReloadInv, NEW r \in Reader, BuildEvaluator(r)
  PROVE  ReloadInv'
<1> USE ReloadAssumption DEF ReloadInv
<1> DEFINE e == reader[r].evaluator
<1>1. /\ UNCHANGED <<fileVars, watcher, handleVars, pusher>> /\ cacheLock' = NoPolicy
      /\ reader \in [Reader -> Reading] /\ reader[r].pc = "build"
      /\ e \in Numbered /\ e # NoEvaluator /\ e.nr >= reader[r].floor
      /\ ruleCache.evaluator.nr <= e.nr /\ e.nr <= handle.nr
      /\ \A q \in Reader \ {r} : reader[q].pc # "build"
      /\ ruleCache.evaluator.nr \in Nat /\ handle.nr \in Nat
  BY DEF BuildEvaluator, ReloadTypeOK, Reading, PromisesOK, MutexOK, Numbered, NoEvaluator
<1>2. CASE e.policy \notin Broken
  <2>1. /\ ruleCache' = [generation |-> reader[r].generation, evaluator |-> e]
        /\ reader' = [reader EXCEPT ![r] = [@ EXCEPT !.pc = "done"]]
    BY Zenon, <1>2 DEF BuildEvaluator, cached_as
  <2>2. /\ reader' \in [Reader -> Reading] /\ reader'[r].pc = "done"
        /\ reader'[r].generation = reader[r].generation /\ reader'[r].floor = reader[r].floor
        /\ reader'[r].evaluator = e
        /\ \A q \in Reader \ {r} : reader'[q] = reader[q]
    BY Zenon, <1>1, <2>1 DEF Reading
  <2> HIDE DEF e
  <2>3. ReloadTypeOK' /\ WritersOK'
    BY Zenon, <1>1, <2>1, <2>2 DEF ReloadTypeOK, WritersOK, Reading, fileVars, handleVars
  <2>4. PromisesOK'
    BY <1>1, <2>2 DEF PromisesOK, handleVars, Reading
  <2>5. ruleCache'.generation = reader[r].generation /\ ruleCache'.evaluator = e
    BY Zenon, <2>1
  <2>6. LabelOK'
    BY <1>1, <2>2, <2>5 DEF LabelOK, PromisesOK, handleVars
  <2>7. MutexOK'
    BY Zenon, <1>1, <2>2, <2>5 DEF MutexOK, handleVars
  <2>8. FreshRules'
    BY Zenon, <1>1, <2>2 DEF FreshRules
  <2>9. NewestCached'
    <3>1. \A q \in Reader : reader[q].pc = "done" => reader[q].evaluator.nr \in Nat
      BY DEF ReloadTypeOK, Numbered, NoEvaluator
    <3> QED
      BY <1>1, <2>2, <2>5, <3>1 DEF NewestCached, Numbered
  <2> QED
    BY Zenon, <2>3, <2>4, <2>6, <2>7, <2>8, <2>9
<1>3. CASE e.policy \in Broken
  <2>1. /\ UNCHANGED ruleCache
        /\ reader' = [reader EXCEPT ![r] = [@ EXCEPT !.pc = "done", !.evaluator = NoEvaluator]]
    BY Zenon, <1>3 DEF BuildEvaluator
  <2>2. /\ reader' \in [Reader -> Reading] /\ reader'[r].pc = "done"
        /\ reader'[r].generation = reader[r].generation /\ reader'[r].floor = reader[r].floor
        /\ reader'[r].evaluator = NoEvaluator
        /\ \A q \in Reader \ {r} : reader'[q] = reader[q]
    BY Zenon, <1>1, <2>1 DEF Reading
  <2>3. ReloadTypeOK' /\ WritersOK'
    BY Zenon, <1>1, <2>1, <2>2 DEF ReloadTypeOK, WritersOK, Reading, fileVars, handleVars
  <2>4. PromisesOK'
    BY <1>1, <2>2 DEF PromisesOK, handleVars, Reading
  <2>5. LabelOK' /\ MutexOK'
    BY Zenon, <1>1, <2>1, <2>2 DEF LabelOK, MutexOK, handleVars
  <2>6. FreshRules' /\ NewestCached'
    BY <1>1, <2>1, <2>2 DEF FreshRules, NewestCached, NoEvaluator
  <2> QED
    BY Zenon, <2>3, <2>4, <2>5, <2>6
<1> QED
  BY Zenon, <1>2, <1>3

(* A request that has its verdict leaves. *)
LEMMA LeaveStep ==
  ASSUME ReloadInv, NEW r \in Reader, Evaluated(r)
  PROVE  ReloadInv'
<1> USE ReloadAssumption DEF ReloadInv
<1>1. /\ UNCHANGED <<fileVars, watcher, handleVars, pusher, ruleCache, cacheLock>>
      /\ reader \in [Reader -> Reading] /\ generation \in Nat /\ stored \in Nat
      /\ reader' = [reader EXCEPT ![r] = NoRequest]
  BY Zenon DEF Evaluated, ReloadTypeOK, Reading
<1>2. /\ reader' \in [Reader -> Reading] /\ reader'[r].pc = "idle"
      /\ reader'[r].generation = 0 /\ reader'[r].floor = 0
      /\ \A q \in Reader \ {r} : reader'[q] = reader[q]
  BY Zenon, <1>1 DEF Reading, NoRequest
<1>3. ReloadTypeOK' /\ WritersOK'
  BY Zenon, <1>1, <1>2 DEF ReloadTypeOK, WritersOK, Reading, fileVars, handleVars
<1>4. PromisesOK'
  BY <1>1, <1>2 DEF PromisesOK, handleVars, Reading
<1>5. LabelOK' /\ MutexOK'
  BY Zenon, <1>1, <1>2 DEF LabelOK, MutexOK, handleVars
<1>6. FreshRules' /\ NewestCached'
  BY Zenon, <1>1, <1>2 DEF FreshRules, NewestCached
<1> QED
  BY Zenon, <1>3, <1>4, <1>5, <1>6

(* One step of the administrator, the watcher, a push or a request. *)
LEMMA ReloadStep == ASSUME ReloadInv, [ReloadNext]_reloadVars PROVE ReloadInv'
<1>1. CASE UNCHANGED reloadVars
  BY Zenon, <1>1 DEF reloadVars, fileVars, handleVars, readVars, ReloadInv, ReloadTypeOK, WritersOK,
              PromisesOK, LabelOK, MutexOK, FreshRules, NewestCached
<1> QED
  BY Zenon, <1>1, FileStep, WatchStep, WriteStep, BumpStep, PushStep, ReadStep, HitStep, LoadStep, BuildStep,
     LeaveStep
  DEF ReloadNext, WatcherStep

(* A request that starts after a push or a reload has returned is never     *)
(* evaluated by older rules, for any policies, requests, pushes and edits   *)
(* (validate_inner, PolicyHandle::store).                                   *)
THEOREM RulesAreFresh == ReloadSpec => []FreshRules
BY ReloadStart, ReloadStep, PTL DEF ReloadSpec, ReloadInv

(* The cached evaluator is at least as new as the one any request has been  *)
(* given: rules never go back between two requests (rule_evaluator_cache).  *)
THEOREM RulesNeverGoBack == ReloadSpec => []NewestCached
BY ReloadStart, ReloadStep, PTL DEF ReloadSpec, ReloadInv

-----------------------------------------------------------------------------
(* Deferred scans. *)

queued(l) == Range(channel[l])
settled == completed \cup deadLetter

held(t) == \E w \in Worker : worker[w].task = t

\* A worker that is not idle has a task of its own, and a channel holds tasks of
\* its priority, each once.
HoldersOnce ==
  /\ \A w \in Worker : worker[w].pc = "idle" <=> worker[w].task = NoTask
  /\ \A v, w \in Worker : worker[v].task = worker[w].task => worker[v].task = NoTask \/ v = w

ChannelsOnce ==
  \A l \in Level :
    /\ \A i \in DOMAIN channel[l] : Priority[channel[l][i]] = l
    /\ \A i, j \in DOMAIN channel[l] : channel[l][i] = channel[l][j] => i = j

\* A task is in one place at a time: waiting for room, in the channel of its
\* priority, with a worker, cancelled, or settled in one of two ways.
OnePlace ==
  \A t \in Task :
    /\ t \in waiting => t \notin queued(Priority[t]) /\ ~held(t)
    /\ t \in queued(Priority[t]) => ~held(t)
    /\ t \in dropped \cup settled => t \notin waiting /\ t \notin queued(Priority[t]) /\ ~held(t)
    /\ t \in dropped => t \notin settled
    /\ t \in completed => t \notin deadLetter

\* Every task that is anywhere has been enqueued.
AllKnown ==
  /\ waiting \cup dropped \cup settled \subseteq known
  /\ \A l \in Level : queued(l) \subseteq known
  /\ \A w \in Worker : worker[w].task \in known \cup {NoTask}

\* A task has been handed out once for each attempt before the present one, and
\* once more while it is scanned or after it is settled.
HandedOK ==
  \A t \in Task :
    /\ handed[t] <= attempts[t] + 1
    /\ \/ t \in waiting \/ t \in queued(Priority[t]) \/ t \notin known
       \/ \E w \in Worker : worker[w].pc = "taken" /\ worker[w].task = t
       => handed[t] <= attempts[t]

\* The tasks that the pending counter of a priority counts
counted(l) ==
  {t \in Task : Priority[t] = l /\
     \/ t \in waiting \cup queued(l) \cup dropped
     \/ \E w \in Worker : worker[w] = [pc |-> "taken", task |-> t]}

\* The parts of the type invariant, which the steps disturb one at a time
SetsTyped ==
  /\ waiting \subseteq Task /\ known \subseteq Task /\ dropped \subseteq Task
  /\ expired \subseteq HasTtl /\ completed \subseteq Task /\ deadLetter \subseteq Task

ChannelsTyped == channel \in [Level -> Seq(Task)] /\ \A l \in Level : Len(channel[l]) <= Cap

CountersTyped ==
  pending \in [Level -> Nat] /\ attempts \in [Task -> 0..MaxAttempts] /\ handed \in [Task -> Nat]

WorkersTyped == worker \in [Worker -> [pc : {"idle", "taken", "scan"}, task : Task \cup {NoTask}]]

ScanInv ==
  /\ SetsTyped /\ ChannelsTyped /\ CountersTyped /\ WorkersTyped /\ HoldersOnce /\ ChannelsOnce /\ OnePlace /\ AllKnown /\ HandedOK
  /\ PendingExact

(* The parts make up the type invariant. *)
LEMMA ScanTypes == ScanInv => ScanTypeOK
  BY Zenon DEF ScanInv, SetsTyped, ChannelsTyped, CountersTyped, WorkersTyped, ScanTypeOK

(* What a sequence holds after a task is sent into it. *)
LEMMA SentSet ==
  ASSUME NEW S, NEW s \in Seq(S), NEW t \in S
  PROVE  /\ Append(s, t) \in Seq(S) /\ Len(Append(s, t)) = Len(s) + 1
         /\ DOMAIN Append(s, t) = 1..(Len(s) + 1) /\ DOMAIN s = 1..Len(s)
         /\ \A i \in 1..Len(s) : Append(s, t)[i] = s[i]
         /\ Append(s, t)[Len(s) + 1] = t
         /\ Range(Append(s, t)) = Range(s) \cup {t}
<1>1. /\ Append(s, t) \in Seq(S) /\ Len(Append(s, t)) = Len(s) + 1
      /\ DOMAIN Append(s, t) = 1..(Len(s) + 1) /\ DOMAIN s = 1..Len(s)
      /\ \A i \in 1..Len(s) : Append(s, t)[i] = s[i]
      /\ Append(s, t)[Len(s) + 1] = t /\ Len(s) \in Nat
  OBVIOUS
<1>2. Range(Append(s, t)) = Range(s) \cup {t}
  BY <1>1 DEF Range
<1> QED
  BY Zenon, <1>1, <1>2

(* What a sequence without repetitions holds after its head is taken. *)
LEMMA TakenSet ==
  ASSUME NEW S, NEW s \in Seq(S), s # << >>,
         \A i, j \in DOMAIN s : s[i] = s[j] => i = j
  PROVE  /\ Tail(s) \in Seq(S) /\ Len(Tail(s)) = Len(s) - 1 /\ Head(s) \in S
         /\ \A i \in DOMAIN Tail(s) : i + 1 \in DOMAIN s /\ Tail(s)[i] = s[i + 1]
         /\ \A i, j \in DOMAIN Tail(s) : Tail(s)[i] = Tail(s)[j] => i = j
         /\ Head(s) \in Range(s) /\ Range(Tail(s)) = Range(s) \ {Head(s)}
<1>1. /\ Tail(s) \in Seq(S) /\ Len(Tail(s)) = Len(s) - 1 /\ Head(s) = s[1] /\ Head(s) \in S
      /\ DOMAIN Tail(s) = 1..(Len(s) - 1) /\ DOMAIN s = 1..Len(s) /\ Len(s) \in Nat \ {0}
      /\ \A i \in 1..(Len(s) - 1) : Tail(s)[i] = s[i + 1]
  OBVIOUS
<1>2. \A i \in DOMAIN Tail(s) : i + 1 \in DOMAIN s /\ Tail(s)[i] = s[i + 1]
  BY <1>1
<1>3. \A i, j \in DOMAIN Tail(s) : Tail(s)[i] = Tail(s)[j] => i = j
  BY <1>1, <1>2
<1>4. Head(s) \in Range(s)
  BY <1>1 DEF Range
<1>5. Range(Tail(s)) = Range(s) \ {Head(s)}
  <2>1. \A i \in DOMAIN s : s[i] # s[1] => i - 1 \in DOMAIN Tail(s) /\ Tail(s)[i - 1] = s[i]
    BY <1>1
  <2>2. \A i \in DOMAIN Tail(s) : s[i + 1] # s[1]
    BY <1>1
  <2>3. ASSUME NEW x \in Range(s), x # Head(s) PROVE x \in Range(Tail(s))
    <3>1. PICK i \in DOMAIN s : x = s[i]
      BY Zenon, <2>3 DEF Range
    <3> QED
      BY Zenon, <1>1, <2>1, <2>3, <3>1 DEF Range
  <2>4. ASSUME NEW x \in Range(Tail(s)) PROVE x \in Range(s) /\ x # Head(s)
    <3>1. PICK i \in DOMAIN Tail(s) : x = Tail(s)[i]
      BY Zenon, <2>4 DEF Range
    <3>2. i + 1 \in DOMAIN s /\ x = s[i + 1] /\ x # s[1]
      BY Zenon, <1>2, <2>2, <3>1
    <3> QED
      BY Zenon, <1>1, <3>2 DEF Range
  <2> QED
    BY Zenon, <2>3, <2>4
<1> QED
  BY Zenon, <1>1, <1>2, <1>3, <1>4, <1>5

(* Nothing is enqueued at first. *)
LEMMA ScanStart == ScanInit => ScanInv
<1> SUFFICES ASSUME ScanInit PROVE ScanInv
  BY Zenon
<1> USE ScanAssumption DEF ScanInit
<1>1. SetsTyped /\ ChannelsTyped /\ CountersTyped /\ WorkersTyped
  BY DEF SetsTyped, ChannelsTyped, CountersTyped, WorkersTyped, IdleWorker
<1>2. \A l \in Level : queued(l) = {}
  BY DEF queued, Range
<1>3. OnePlace /\ AllKnown /\ HoldersOnce /\ ChannelsOnce
  BY <1>2 DEF OnePlace, AllKnown, HoldersOnce, ChannelsOnce, settled, held, IdleWorker
<1>4. HandedOK
  BY DEF HandedOK
<1>5. PendingExact
  <2>1. \A l \in Level : counted(l) = {}
    BY Zenon, <1>2 DEF counted, IdleWorker
  <2> QED
    BY Zenon, <2>1, FS_EmptySet DEF PendingExact, counted, queued
<1> QED
  BY Zenon, <1>1, <1>3, <1>4, <1>5 DEF ScanInv

(* The counters are those of the counted tasks, which are finitely many. *)
LEMMA Counters ==
  /\ PendingExact <=> \A l \in Level : pending[l] = Cardinality(counted(l))
  /\ \A l \in Level : IsFiniteSet(counted(l)) /\ Cardinality(counted(l)) \in Nat
<1>1. PendingExact <=> \A l \in Level : pending[l] = Cardinality(counted(l))
  BY Zenon DEF PendingExact, counted, queued
<1>2. \A l \in Level : counted(l) \subseteq Task
  BY Zenon DEF counted
<1> QED
  BY Zenon, <1>1, <1>2, ScanAssumption, FS_Subset, FS_CardinalityType

(* The counters stay exact when neither they nor the counted tasks change, *)
LEMMA CountKept ==
  ASSUME ScanInv, UNCHANGED pending, \A l \in Level : counted(l)' = counted(l)
  PROVE  PendingExact'
<1>1. PendingExact' <=> \A l \in Level : pending'[l] = Cardinality(counted(l)')
  BY Zenon DEF PendingExact, counted, queued
<1> QED
  BY Zenon, <1>1, Counters DEF ScanInv

(* when a task is counted that was not, *)
LEMMA CountAdded ==
  ASSUME ScanInv, NEW t \in Task, t \notin counted(Priority[t]),
         pending' = [pending EXCEPT ![Priority[t]] = @ + 1],
         \A l \in Level : counted(l)' = IF l = Priority[t] THEN counted(l) \cup {t} ELSE counted(l)
  PROVE  PendingExact'
<1>1. PendingExact' <=> \A l \in Level : pending'[l] = Cardinality(counted(l)')
  BY Zenon DEF PendingExact, counted, queued
<1>2. Priority[t] \in Level
  BY Zenon, ScanAssumption
<1>3. Cardinality(counted(Priority[t]) \cup {t}) = Cardinality(counted(Priority[t])) + 1
  BY Zenon, <1>2, Counters, FS_AddElement
<1>4. pending \in [Level -> Nat] /\ \A l \in Level : pending[l] = Cardinality(counted(l))
  BY Zenon, Counters DEF ScanInv, CountersTyped
<1> QED
  BY Zenon, <1>1, <1>2, <1>3, <1>4

(* and when a counted task is discounted: the decrement does not saturate. *)
LEMMA CountRemoved ==
  ASSUME ScanInv, NEW t \in Task, t \in counted(Priority[t]), decrement_pending(t),
         \A l \in Level : counted(l)' = IF l = Priority[t] THEN counted(l) \ {t} ELSE counted(l)
  PROVE  PendingExact' /\ pending' \in [Level -> Nat]
<1>1. PendingExact' <=> \A l \in Level : pending'[l] = Cardinality(counted(l)')
  BY Zenon DEF PendingExact, counted, queued
<1>2. Priority[t] \in Level
  BY Zenon, ScanAssumption
<1> DEFINE S == counted(Priority[t])
<1>3. Cardinality(S \ {t}) = Cardinality(S) - 1
  BY Zenon, <1>2, Counters, FS_RemoveElement
<1>4. pending \in [Level -> Nat] /\ \A l \in Level : pending[l] = Cardinality(counted(l))
  BY Zenon, Counters DEF ScanInv, CountersTyped
<1>5. Cardinality(S) # 0
  <2>1. IsFiniteSet(S)
    BY Zenon, <1>2, Counters
  <2> QED
    BY Zenon, <2>1, FS_EmptySet
<1>6. pending[Priority[t]] \in Nat \ {0}
  BY Zenon, <1>2, <1>4, <1>5
<1>7. pending' = [pending EXCEPT ![Priority[t]] = @ - 1]
  BY Zenon, <1>2, <1>4, <1>6 DEF decrement_pending
<1> QED
  BY <1>1, <1>2, <1>3, <1>4, <1>6, <1>7

(* A new task waits for room in its channel. *)
LEMMA EnqueueStep ==
  ASSUME ScanInv, NEW t \in Task, Enqueue(t)
  PROVE  ScanInv'
<1> USE ScanAssumption DEF ScanInv
<1>1. /\ t \notin known /\ known' = known \cup {t} /\ waiting' = waiting \cup {t}
      /\ pending' = [pending EXCEPT ![Priority[t]] = @ + 1]
      /\ UNCHANGED <<channel, worker, attempts, expired, completed, deadLetter, dropped, handed>>
  BY Zenon DEF Enqueue, begin_enqueue
<1>2. \A l \in Level : queued(l)' = queued(l)
  BY Zenon, <1>1 DEF queued
<1>3. settled' = settled
  BY Zenon, <1>1 DEF settled
<1>4. Priority[t] \in Level /\ t # NoTask
  BY Zenon
<1>5. t \notin waiting \cup dropped \cup settled /\ t \notin queued(Priority[t]) /\ ~held(t)
  BY Zenon, <1>1, <1>4 DEF AllKnown, held
<1>6. SetsTyped' /\ CountersTyped'
  BY <1>1, <1>4 DEF SetsTyped, CountersTyped
<1>11. ChannelsTyped' /\ WorkersTyped' /\ HoldersOnce' /\ ChannelsOnce'
  BY Zenon, <1>1 DEF ChannelsTyped, WorkersTyped, HoldersOnce, ChannelsOnce
<1>7. OnePlace'
  <2>1. \A u \in Task : /\ u \in queued(Priority[u])' <=> u \in queued(Priority[u])
                        /\ held(u)' <=> held(u)
    BY Zenon, <1>1, <1>2 DEF held
  <2> QED
    BY Zenon, <1>1, <1>3, <1>5, <2>1 DEF OnePlace
<1>8. AllKnown'
  BY Zenon, <1>1, <1>2, <1>3 DEF AllKnown
<1>9. HandedOK'
  <2>1. \A u \in Task : u \in queued(Priority[u])' <=> u \in queued(Priority[u])
    BY Zenon, <1>2
  <2>2. \A u \in Task : u # t => (u \in waiting' <=> u \in waiting) /\ (u \in known' <=> u \in known)
    BY Zenon, <1>1
  <2> QED
    BY Zenon, <1>1, <2>1, <2>2 DEF HandedOK
<1>10. PendingExact'
  <2>1. t \notin counted(Priority[t])
    BY <1>4, <1>5 DEF counted, held
  <2>2. \A l \in Level : counted(l)' = IF l = Priority[t] THEN counted(l) \cup {t} ELSE counted(l)
    BY Zenon, <1>1, <1>2 DEF counted
  <2> QED
    BY Zenon, <1>1, <2>1, <2>2, CountAdded
<1> QED
  BY Zenon, <1>6, <1>7, <1>8, <1>9, <1>10, <1>11

(* The sender finds room: the task moves from the senders to the channel.   *)
LEMMA SendStep ==
  ASSUME ScanInv, NEW t \in Task, Send(t)
  PROVE  ScanInv'
<1> USE ScanAssumption DEF ScanInv
<1> DEFINE c == channel[Priority[t]]
<1>1. /\ t \in waiting /\ waiting' = waiting \ {t} /\ Len(c) < Cap
      /\ channel' = [channel EXCEPT ![Priority[t]] = Append(c, t)]
      /\ UNCHANGED <<pending, worker, attempts, expired, completed, deadLetter, known, dropped, handed>>
  BY Zenon DEF Send
<1>2. Priority[t] \in Level /\ c \in Seq(Task) /\ channel \in [Level -> Seq(Task)]
  BY Zenon DEF ChannelsTyped
<1>3. /\ Append(c, t) \in Seq(Task) /\ Len(Append(c, t)) = Len(c) + 1
      /\ DOMAIN Append(c, t) = 1..(Len(c) + 1) /\ DOMAIN c = 1..Len(c)
      /\ \A i \in 1..Len(c) : Append(c, t)[i] = c[i]
      /\ Append(c, t)[Len(c) + 1] = t
      /\ Range(Append(c, t)) = Range(c) \cup {t} /\ Len(c) \in Nat
  BY <1>2, SentSet
<1>4. /\ channel'[Priority[t]] = Append(c, t)
      /\ \A l \in Level : l # Priority[t] => channel'[l] = channel[l]
      /\ \A l \in Level : queued(l)' = IF l = Priority[t] THEN queued(l) \cup {t} ELSE queued(l)
  BY Zenon, <1>1, <1>2, <1>3 DEF queued
<1>5. t \notin queued(Priority[t]) /\ ~held(t) /\ t \notin dropped \cup settled
  BY Zenon, <1>1 DEF OnePlace
<1>6. \A i \in DOMAIN c : c[i] # t
  BY Zenon, <1>5 DEF queued, Range
<1> HIDE DEF c
<1>7. SetsTyped' /\ CountersTyped' /\ WorkersTyped' /\ HoldersOnce'
  BY Zenon, <1>1 DEF SetsTyped, CountersTyped, WorkersTyped, HoldersOnce
<1>13. ChannelsTyped'
  <2>1. channel' \in [Level -> Seq(Task)]
    BY Zenon, <1>1, <1>2, <1>3
  <2>2. \A l \in Level : Len(channel'[l]) <= Cap
    BY <1>1, <1>3, <1>4 DEF ChannelsTyped
  <2> QED
    BY Zenon, <2>1, <2>2 DEF ChannelsTyped
<1>8. ChannelsOnce'
  <2>1. \A l \in Level \ {Priority[t]} :
          /\ \A i \in DOMAIN channel'[l] : Priority[channel'[l][i]] = l
          /\ \A i, j \in DOMAIN channel'[l] : channel'[l][i] = channel'[l][j] => i = j
    BY Zenon, <1>4 DEF ChannelsOnce
  <2>2. /\ \A i \in DOMAIN c : Priority[c[i]] = Priority[t]
        /\ \A i, j \in DOMAIN c : c[i] = c[j] => i = j
    BY Zenon, <1>2 DEF ChannelsOnce, c
  <2>3. /\ \A i \in DOMAIN Append(c, t) : Priority[Append(c, t)[i]] = Priority[t]
        /\ \A i, j \in DOMAIN Append(c, t) : Append(c, t)[i] = Append(c, t)[j] => i = j
    BY <1>3, <1>6, <2>2
  <2> QED
    BY Zenon, <1>4, <2>1, <2>3 DEF ChannelsOnce
<1>9. OnePlace'
  <2>1. \A u \in Task : /\ held(u)' <=> held(u)
                        /\ u \in queued(Priority[u])' <=> u \in queued(Priority[u]) \/ u = t
    BY Zenon, <1>1, <1>4 DEF held
  <2> QED
    BY Zenon, <1>1, <1>5, <2>1 DEF OnePlace, settled
<1>10. AllKnown'
  BY <1>1, <1>4 DEF AllKnown, settled
<1>11. HandedOK'
  <2>1. \A u \in Task : u \in queued(Priority[u])' <=> u \in queued(Priority[u]) \/ u = t
    BY Zenon, <1>4
  <2> QED
    BY Zenon, <1>1, <2>1 DEF HandedOK
<1>12. PendingExact'
  <2>1. \A l \in Level : counted(l)' = counted(l)
    BY Zenon, <1>1, <1>4 DEF counted
  <2> QED
    BY Zenon, <1>1, <2>1, CountKept
<1> QED
  BY Zenon, <1>7, <1>8, <1>9, <1>10, <1>11, <1>12, <1>13

(* The request of a waiting sender is cancelled, or a task expires. *)
LEMMA CancelStep ==
  ASSUME ScanInv, NEW t \in Task, CancelEnqueue(t) \/ Expire(t)
  PROVE  ScanInv'
<1> USE ScanAssumption DEF ScanInv
<1>1. CASE CancelEnqueue(t)
  <2>1. /\ t \in waiting /\ waiting' = waiting \ {t} /\ dropped' = dropped \cup {t}
        /\ UNCHANGED <<channel, pending, worker, attempts, expired, completed, deadLetter, known, handed>>
    BY Zenon, <1>1 DEF CancelEnqueue
  <2>2. \A l \in Level : queued(l)' = queued(l)
    BY Zenon, <2>1 DEF queued
  <2>3. \A u \in Task : /\ u \in queued(Priority[u])' <=> u \in queued(Priority[u])
                        /\ held(u)' <=> held(u)
    BY Zenon, <2>1, <2>2 DEF held
  <2>4. SetsTyped' /\ ChannelsTyped' /\ CountersTyped' /\ WorkersTyped' /\ HoldersOnce' /\ ChannelsOnce'
    BY Zenon, <2>1 DEF SetsTyped, ChannelsTyped, CountersTyped, WorkersTyped, HoldersOnce, ChannelsOnce
  <2>5. OnePlace' /\ AllKnown'
    BY Zenon, <2>1, <2>2, <2>3 DEF OnePlace, AllKnown, settled
  <2>6. HandedOK'
    BY Zenon, <2>1, <2>3 DEF HandedOK
  <2>7. \A l \in Level : counted(l)' = counted(l)
    BY Zenon, <2>1, <2>2 DEF counted
  <2> QED
    BY Zenon, <2>1, <2>4, <2>5, <2>6, <2>7, CountKept
<1>2. CASE Expire(t)
  <2>1. /\ expired' = expired \cup {t} /\ t \in HasTtl
        /\ UNCHANGED <<waiting, channel, pending, worker, attempts, completed, deadLetter, known, dropped, handed>>
    BY Zenon, <1>2 DEF Expire
  <2>2. \A l \in Level : queued(l)' = queued(l) /\ counted(l)' = counted(l)
    BY Zenon, <2>1 DEF queued, counted
  <2>3. \A u \in Task : /\ u \in queued(Priority[u])' <=> u \in queued(Priority[u])
                        /\ held(u)' <=> held(u)
    BY Zenon, <2>1, <2>2 DEF held
  <2>4. SetsTyped' /\ ChannelsTyped' /\ CountersTyped' /\ WorkersTyped' /\ HoldersOnce' /\ ChannelsOnce'
    BY Zenon, <2>1 DEF SetsTyped, ChannelsTyped, CountersTyped, WorkersTyped, HoldersOnce, ChannelsOnce
  <2>5. OnePlace' /\ AllKnown'
    BY Zenon, <2>1, <2>2, <2>3 DEF OnePlace, AllKnown, settled
  <2>6. HandedOK'
    BY Zenon, <2>1, <2>3 DEF HandedOK
  <2> QED
    BY Zenon, <2>1, <2>2, <2>4, <2>5, <2>6, CountKept
<1> QED
  BY Zenon, <1>1, <1>2

(* A worker takes the first task of a channel. *)
LEMMA ReceiveStep ==
  ASSUME ScanInv, NEW w \in Worker, Receive(w)
  PROVE  ScanInv'
<1> USE ScanAssumption DEF ScanInv
<1>1. PICK l \in Level : /\ channel[l] # << >>
                         /\ worker' = [worker EXCEPT ![w] = [pc |-> "taken", task |-> Head(channel[l])]]
                         /\ channel' = [channel EXCEPT ![l] = Tail(channel[l])]
  BY Zenon DEF Receive
<1>2. /\ worker[w].pc = "idle"
      /\ UNCHANGED <<waiting, pending, attempts, expired, completed, deadLetter, known, dropped, handed>>
  BY Zenon DEF Receive
<1>3. /\ channel \in [Level -> Seq(Task)] /\ channel[l] \in Seq(Task) /\ Len(channel[l]) <= Cap
      /\ worker \in [Worker -> [pc : {"idle", "taken", "scan"}, task : Task \cup {NoTask}]]
  BY Zenon DEF ChannelsTyped, WorkersTyped
<1>4. \A i, j \in DOMAIN channel[l] : channel[l][i] = channel[l][j] => i = j
  BY Zenon DEF ChannelsOnce
<1> DEFINE t == Head(channel[l])
<1>5. /\ Tail(channel[l]) \in Seq(Task) /\ Len(Tail(channel[l])) = Len(channel[l]) - 1 /\ t \in Task
      /\ \A i \in DOMAIN Tail(channel[l]) :
            i + 1 \in DOMAIN channel[l] /\ Tail(channel[l])[i] = channel[l][i + 1]
      /\ \A i, j \in DOMAIN Tail(channel[l]) : Tail(channel[l])[i] = Tail(channel[l])[j] => i = j
      /\ t \in queued(l) /\ Range(Tail(channel[l])) = queued(l) \ {t}
  <2>1. channel[l] \in Seq(Task) /\ channel[l] # << >>
    BY Zenon, <1>1, <1>3
  <2> QED
    BY <1>4, <2>1, TakenSet, Zenon DEF queued
<1>6. Priority[t] = l
  <2>1. 1 \in DOMAIN channel[l] /\ t = channel[l][1]
    BY <1>1, <1>3
  <2> QED
    BY Zenon, <2>1 DEF ChannelsOnce
<1>7. /\ channel'[l] = Tail(channel[l])
      /\ \A k \in Level : k # l => channel'[k] = channel[k]
      /\ \A k \in Level : queued(k)' = IF k = l THEN queued(k) \ {t} ELSE queued(k)
  BY Zenon, <1>1, <1>3, <1>5 DEF queued
<1>8. /\ worker'[w] = [pc |-> "taken", task |-> t] /\ worker[w].task = NoTask
      /\ \A v \in Worker : v # w => worker'[v] = worker[v]
      /\ worker' \in [Worker -> [pc : {"idle", "taken", "scan"}, task : Task \cup {NoTask}]]
  BY Zenon, <1>1, <1>2, <1>3, <1>5 DEF HoldersOnce
<1>9. t # NoTask /\ ~held(t) /\ t \notin waiting \cup dropped \cup settled
  BY Zenon, <1>5, <1>6 DEF OnePlace
<1> HIDE DEF t
<1>10. SetsTyped' /\ ChannelsTyped' /\ CountersTyped' /\ WorkersTyped'
  <2>1. channel' \in [Level -> Seq(Task)]
    BY Zenon, <1>1, <1>3, <1>5
  <2>2. \A k \in Level : Len(channel'[k]) <= Cap
    <3>1. Len(channel[l]) \in Nat /\ Cap \in Nat
      BY <1>3
    <3>2. Len(channel'[l]) <= Cap
      BY <1>3, <1>5, <1>7, <3>1
    <3>3. \A k \in Level \ {l} : Len(channel'[k]) <= Cap
      BY Zenon, <1>7 DEF ChannelsTyped
    <3> QED
      BY Zenon, <3>2, <3>3
  <2>3. SetsTyped' /\ CountersTyped'
    BY Zenon, <1>2 DEF SetsTyped, CountersTyped
  <2> QED
    BY Zenon, <1>8, <2>1, <2>2, <2>3 DEF ChannelsTyped, WorkersTyped
<1>11. HoldersOnce'
  <2>1. \A v \in Worker : worker[v].task # t
    BY Zenon, <1>9 DEF held
  <2> QED
    BY <1>8, <1>9, <2>1 DEF HoldersOnce
<1>12. ChannelsOnce'
  <2>1. \A k \in Level \ {l} :
          /\ \A i \in DOMAIN channel'[k] : Priority[channel'[k][i]] = k
          /\ \A i, j \in DOMAIN channel'[k] : channel'[k][i] = channel'[k][j] => i = j
    BY Zenon, <1>7 DEF ChannelsOnce
  <2>2. \A i \in DOMAIN channel[l] : Priority[channel[l][i]] = l
    BY Zenon DEF ChannelsOnce
  <2>3. /\ \A i \in DOMAIN channel'[l] : Priority[channel'[l][i]] = l
        /\ \A i, j \in DOMAIN channel'[l] : channel'[l][i] = channel'[l][j] => i = j
    <3>1. \A i \in DOMAIN Tail(channel[l]) : Priority[Tail(channel[l])[i]] = l
      BY Zenon, <1>5, <2>2
    <3> QED
      BY Zenon, <1>5, <1>7, <3>1
  <2> QED
    BY <2>1, <2>3, Zenon DEF ChannelsOnce
<1>13. \A u \in Task : /\ u \in queued(Priority[u])' <=> u \in queued(Priority[u]) /\ u # t
                       /\ held(u)' <=> held(u) \/ u = t
  <2>1. \A u \in Task : u \in queued(Priority[u])' <=> u \in queued(Priority[u]) /\ u # t
    BY Zenon, <1>6, <1>7
  <2>2. \A u \in Task : held(u)' <=> held(u) \/ u = t
    BY <1>8 DEF held
  <2> QED
    BY Zenon, <2>1, <2>2
<1>14. OnePlace'
  BY Zenon, <1>2, <1>9, <1>13 DEF OnePlace, settled
<1>15. AllKnown'
  BY <1>2, <1>5, <1>7, <1>8 DEF AllKnown, settled
<1>16. HandedOK'
  <2>1. \A u \in Task : (\E v \in Worker : worker'[v].pc = "taken" /\ worker'[v].task = u)
                         => u = t \/ \E v \in Worker : worker[v].pc = "taken" /\ worker[v].task = u
    BY <1>8
  <2> QED
    BY Zenon, <1>2, <1>5, <1>6, <1>13, <2>1 DEF HandedOK
<1>17. PendingExact'
  <2>1. \A u \in Task : (\E v \in Worker : worker'[v] = [pc |-> "taken", task |-> u])
                         <=> u = t \/ \E v \in Worker : worker[v] = [pc |-> "taken", task |-> u]
    BY <1>2, <1>3, <1>8
  <2>2. \A k \in Level, u \in Task : u \in counted(k)' <=> u \in counted(k)
    <3>1. \A k \in Level, u \in Task : u # t => (u \in queued(k)' <=> u \in queued(k))
      BY Zenon, <1>7
    <3>2. \A k \in Level, u \in Task : u # t => (u \in counted(k)' <=> u \in counted(k))
      BY Zenon, <1>2, <2>1, <3>1 DEF counted
    <3>3. \A k \in Level : t \in counted(k)' <=> k = Priority[t]
      BY Zenon, <1>5, <2>1 DEF counted
    <3>4. \A k \in Level : t \in counted(k) <=> k = Priority[t]
      BY Zenon, <1>5, <1>6 DEF counted
    <3> QED
      BY Zenon, <3>2, <3>3, <3>4
  <2>3. \A k \in Level : counted(k)' = counted(k)
    <3>1. \A k \in Level : counted(k) \subseteq Task /\ counted(k)' \subseteq Task
      BY Zenon DEF counted
    <3> QED
      BY Zenon, <2>2, <3>1
  <2> QED
    BY Zenon, <1>2, <2>3, CountKept
<1> QED
  BY Zenon, <1>10, <1>11, <1>12, <1>14, <1>15, <1>16, <1>17

(* What a worker that gives up its task leaves behind: the others keep theirs. *)
LEMMA Released ==
  ASSUME ScanInv, NEW w \in Worker, worker[w].pc # "idle",
         worker' = [worker EXCEPT ![w] = IdleWorker]
  PROVE  /\ worker' \in [Worker -> [pc : {"idle", "taken", "scan"}, task : Task \cup {NoTask}]]
         /\ worker[w].task \in Task /\ held(worker[w].task) /\ HoldersOnce'
         /\ \A u \in Task : held(u)' <=> held(u) /\ u # worker[w].task
         /\ \A u \in Task : (\E v \in Worker : worker'[v].pc = "taken" /\ worker'[v].task = u)
              <=> /\ \E v \in Worker : worker[v].pc = "taken" /\ worker[v].task = u
                  /\ u # worker[w].task
<1> USE ScanAssumption DEF ScanInv
<1>1. worker \in [Worker -> [pc : {"idle", "taken", "scan"}, task : Task \cup {NoTask}]]
  BY Zenon DEF WorkersTyped
<1>2. /\ worker'[w] = IdleWorker /\ IdleWorker.pc = "idle" /\ IdleWorker.task = NoTask
      /\ IdleWorker \in [pc : {"idle", "taken", "scan"}, task : Task \cup {NoTask}]
      /\ \A v \in Worker : v # w => worker'[v] = worker[v]
  BY Zenon, <1>1 DEF IdleWorker
<1>3. worker[w].task \in Task /\ worker[w].task # NoTask
  BY Zenon, <1>1 DEF HoldersOnce
<1>4. \A v \in Worker : v # w => worker[v].task # worker[w].task
  BY Zenon, <1>3 DEF HoldersOnce
<1>5. worker' \in [Worker -> [pc : {"idle", "taken", "scan"}, task : Task \cup {NoTask}]]
  BY Zenon, <1>1, <1>2
<1>6. HoldersOnce'
  BY <1>2 DEF HoldersOnce
<1>7. /\ held(worker[w].task)
      /\ \A u \in Task : held(u)' <=> held(u) /\ u # worker[w].task
  BY Zenon, <1>2, <1>3, <1>4 DEF held
<1>8. \A u \in Task : (\E v \in Worker : worker'[v].pc = "taken" /\ worker'[v].task = u)
        <=> /\ \E v \in Worker : worker[v].pc = "taken" /\ worker[v].task = u
            /\ u # worker[w].task
  BY Zenon, <1>2, <1>4
<1> QED
  BY Zenon, <1>3, <1>5, <1>6, <1>7, <1>8

(* The counted tasks, with the fields of the workers' records told apart. *)
LEMMA CountedFields ==
  ASSUME WorkersTyped
  PROVE  \A l \in Level : counted(l) = {t \in Task : Priority[t] = l /\
           \/ t \in waiting \cup queued(l) \cup dropped
           \/ \E w \in Worker : worker[w].pc = "taken" /\ worker[w].task = t}
<1>1. \A w \in Worker, t \in Task :
        worker[w] = [pc |-> "taken", task |-> t] <=> worker[w].pc = "taken" /\ worker[w].task = t
  BY DEF WorkersTyped
<1> QED
  BY <1>1, Zenon DEF counted

(* The counter of a task that no worker has just taken any more goes down. *)
LEMMA Discounted ==
  ASSUME ScanInv, NEW t \in Task, decrement_pending(t), t \in counted(Priority[t]),
         UNCHANGED <<waiting, channel, dropped>>,
         t \notin waiting \cup dropped, t \notin queued(Priority[t]),
         worker' \in [Worker -> [pc : {"idle", "taken", "scan"}, task : Task \cup {NoTask}]],
         \A u \in Task : (\E v \in Worker : worker'[v].pc = "taken" /\ worker'[v].task = u)
           <=> (\E v \in Worker : worker[v].pc = "taken" /\ worker[v].task = u) /\ u # t
  PROVE  PendingExact' /\ pending' \in [Level -> Nat]
<1>1. \A l \in Level, u \in Task : u \in counted(l) <=> Priority[u] = l /\
        \/ u \in waiting \cup queued(l) \cup dropped
        \/ \E v \in Worker : worker[v].pc = "taken" /\ worker[v].task = u
  BY CountedFields DEF ScanInv
<1>2. \A l \in Level, u \in Task : u \in counted(l)' <=> Priority[u] = l /\
        \/ u \in waiting \cup queued(l) \cup dropped
        \/ (\E v \in Worker : worker[v].pc = "taken" /\ worker[v].task = u) /\ u # t
  <2>1. \A v \in Worker, u \in Task :
          worker'[v] = [pc |-> "taken", task |-> u] <=> worker'[v].pc = "taken" /\ worker'[v].task = u
    OBVIOUS
  <2>2. \A l \in Level : counted(l)' = {u \in Task : Priority[u] = l /\
          \/ u \in waiting' \cup queued(l)' \cup dropped'
          \/ \E v \in Worker : worker'[v].pc = "taken" /\ worker'[v].task = u}
    BY <2>1 DEF counted
  <2>3. \A l \in Level : queued(l)' = queued(l)
    BY Zenon DEF queued
  <2> QED
    BY <2>2, <2>3
<1>3. \A l \in Level, u \in Task : u \in counted(l)' <=> u \in counted(l) /\ u # t
  BY <1>1, <1>2
<1>4. \A l \in Level : counted(l) \subseteq Task /\ counted(l)' \subseteq Task
  BY Zenon DEF counted
<1>5. \A l \in Level : t \in counted(l) => l = Priority[t]
  BY Zenon DEF counted
<1>6. \A l \in Level : counted(l)' = IF l = Priority[t] THEN counted(l) \ {t} ELSE counted(l)
  <2> SUFFICES ASSUME NEW l \in Level
               PROVE  counted(l)' = IF l = Priority[t] THEN counted(l) \ {t} ELSE counted(l)
    BY Zenon
  <2>1. counted(l)' = counted(l) \ {t}
    BY Zenon, <1>3, <1>4
  <2>2. ASSUME NEW S, t \notin S PROVE S \ {t} = S
    BY Zenon, <2>2
  <2>3. l # Priority[t] => t \notin counted(l)
    BY Zenon, <1>5
  <2> QED
    BY Zenon, <2>1, <2>2, <2>3
<1> QED
  BY Zenon, <1>6, CountRemoved

(* A task that was taken is discounted: it expired, or it is scanned. *)
LEMMA TakenStep ==
  ASSUME ScanInv, NEW w \in Worker, Taken(w)
  PROVE  ScanInv'
<1> USE ScanAssumption DEF ScanInv
<1> DEFINE t == worker[w].task
<1>1. /\ worker[w].pc = "taken" /\ decrement_pending(t)
      /\ UNCHANGED <<waiting, channel, attempts, expired, completed, known, dropped>>
  BY Zenon DEF Taken
<1>2. worker \in [Worker -> [pc : {"idle", "taken", "scan"}, task : Task \cup {NoTask}]]
  BY Zenon DEF WorkersTyped
<1>3. t \in Task /\ t # NoTask /\ \A v \in Worker : v # w => worker[v].task # t
  BY Zenon, <1>1, <1>2 DEF HoldersOnce
<1>4. held(t) /\ t \notin waiting \cup dropped \cup settled /\ t \notin queued(Priority[t])
  BY Zenon, <1>3 DEF OnePlace, held
<1>5. /\ \A l \in Level : queued(l)' = queued(l)
      /\ \A u \in Task : u \in queued(Priority[u])' <=> u \in queued(Priority[u])
  BY Zenon, <1>1 DEF queued
<1>6. ChannelsOnce'
  BY Zenon, <1>1 DEF ChannelsOnce
<1>7. t \in counted(Priority[t]) /\ Priority[t] \in Level /\ t \in known
  BY Zenon, <1>1, <1>3, CountedFields DEF AllKnown
<1>8. CASE /\ t \in expired /\ deadLetter' = deadLetter \cup {t}
           /\ worker' = [worker EXCEPT ![w] = IdleWorker] /\ UNCHANGED handed
  <2>1. /\ worker' \in [Worker -> [pc : {"idle", "taken", "scan"}, task : Task \cup {NoTask}]]
        /\ HoldersOnce'
        /\ \A u \in Task : held(u)' <=> held(u) /\ u # t
        /\ \A u \in Task : (\E v \in Worker : worker'[v].pc = "taken" /\ worker'[v].task = u)
             <=> /\ \E v \in Worker : worker[v].pc = "taken" /\ worker[v].task = u
                 /\ u # t
    BY Zenon, <1>1, <1>8, Released
  <2> HIDE DEF t
  <2>2. PendingExact' /\ pending' \in [Level -> Nat]
    BY Zenon, <1>1, <1>3, <1>4, <1>7, <2>1, <2>1, Discounted
  <2>3. SetsTyped' /\ ChannelsTyped' /\ CountersTyped' /\ WorkersTyped'
    <3>1. SetsTyped'
      BY Zenon, <1>1, <1>3, <1>8 DEF SetsTyped
    <3>2. ChannelsTyped'
      BY Zenon, <1>1 DEF ChannelsTyped
    <3>3. CountersTyped'
      BY Zenon, <1>1, <1>8, <2>2 DEF CountersTyped
    <3> QED
      BY Zenon, <2>1, <3>1, <3>2, <3>3 DEF WorkersTyped
  <2>4. OnePlace'
    BY <1>1, <1>3, <1>4, <1>5, <1>8, <2>1 DEF OnePlace, settled
  <2>5. AllKnown'
    <3>1. \A v \in Worker : worker'[v].task \in {worker[v].task, NoTask}
      BY Zenon, <1>2, <1>8 DEF IdleWorker
    <3> QED
      BY Zenon, <1>1, <1>5, <1>7, <1>8, <3>1 DEF AllKnown, settled
  <2>6. HandedOK'
    BY Zenon, <1>1, <1>5, <1>8, <2>1 DEF HandedOK
  <2> QED
    BY Zenon, <1>6, <2>1, <2>2, <2>3, <2>4, <2>5, <2>6
<1>9. CASE /\ t \notin expired /\ worker' = [worker EXCEPT ![w].pc = "scan"]
           /\ handed' = [handed EXCEPT ![t] = @ + 1] /\ UNCHANGED deadLetter
  <2>1. /\ worker' \in [Worker -> [pc : {"idle", "taken", "scan"}, task : Task \cup {NoTask}]]
        /\ worker'[w].pc = "scan" /\ worker'[w].task = t
        /\ \A v \in Worker : v # w => worker'[v] = worker[v]
    BY Zenon, <1>2, <1>9
  <2>2. \A v \in Worker : worker'[v].task = worker[v].task
    BY Zenon, <2>1
  <2> HIDE DEF t
  <2>3. \A u \in Task : held(u)' <=> held(u)
    BY Zenon, <2>2 DEF held
  <2>4. \A u \in Task : (\E v \in Worker : worker'[v].pc = "taken" /\ worker'[v].task = u)
          <=> (\E v \in Worker : worker[v].pc = "taken" /\ worker[v].task = u) /\ u # t
    BY Zenon, <1>3, <2>1 DEF t
  <2>5. PendingExact' /\ pending' \in [Level -> Nat]
    BY Zenon, <1>1, <1>3, <1>4, <1>7, <2>1, <2>4, Discounted
  <2>6. SetsTyped' /\ ChannelsTyped' /\ CountersTyped' /\ WorkersTyped'
    <3>1. handed' \in [Task -> Nat]
      BY <1>3, <1>9 DEF CountersTyped
    <3>2. SetsTyped' /\ ChannelsTyped'
      BY Zenon, <1>1, <1>9 DEF SetsTyped, ChannelsTyped
    <3> QED
      BY Zenon, <1>1, <2>1, <2>5, <3>1, <3>2 DEF CountersTyped, WorkersTyped
  <2>7. HoldersOnce'
    BY <1>1, <2>1, <2>2 DEF HoldersOnce
  <2>8. OnePlace' /\ AllKnown'
    BY <1>1, <1>5, <1>9, <2>2, <2>3 DEF OnePlace, AllKnown, settled
  <2>9. HandedOK'
    <3>1. handed \in [Task -> Nat] /\ attempts \in [Task -> 0..MaxAttempts]
      BY Zenon DEF CountersTyped
    <3>2. handed[t] <= attempts[t]
      BY Zenon, <1>1, <1>3 DEF HandedOK, t
    <3>3. handed'[t] <= attempts'[t] + 1
      BY <1>1, <1>3, <1>9, <3>1, <3>2
    <3>4. \A u \in Task : u # t => handed'[u] = handed[u] /\ attempts'[u] = attempts[u]
      BY Zenon, <1>1, <1>9, <3>1
    <3> QED
      BY Zenon, <1>1, <1>4, <1>5, <1>7, <2>4, <3>3, <3>4 DEF HandedOK
  <2> QED
    BY Zenon, <1>6, <2>5, <2>6, <2>7, <2>8, <2>9
<1> QED
  BY Zenon, <1>8, <1>9 DEF Taken

(* A scan is done: the task has its result. *)
LEMMA CompleteStep ==
  ASSUME ScanInv, NEW w \in Worker, Complete(w)
  PROVE  ScanInv'
<1> USE ScanAssumption DEF ScanInv
<1> DEFINE t == worker[w].task
<1>1. /\ worker[w].pc = "scan" /\ completed' = completed \cup {t}
      /\ worker' = [worker EXCEPT ![w] = IdleWorker]
      /\ UNCHANGED <<waiting, channel, pending, attempts, expired, deadLetter, known, dropped, handed>>
  BY Zenon DEF Complete
<1>2. /\ worker' \in [Worker -> [pc : {"idle", "taken", "scan"}, task : Task \cup {NoTask}]]
      /\ t \in Task /\ held(t) /\ HoldersOnce'
      /\ \A u \in Task : held(u)' <=> held(u) /\ u # t
      /\ \A u \in Task : (\E v \in Worker : worker'[v].pc = "taken" /\ worker'[v].task = u)
           <=> /\ \E v \in Worker : worker[v].pc = "taken" /\ worker[v].task = u
               /\ u # t
  <2>1. worker[w].pc # "idle" /\ worker' = [worker EXCEPT ![w] = IdleWorker]
    BY Zenon, <1>1
  <2> QED
    BY <2>1, Released, Zenon
<1>3. t \notin waiting \cup dropped \cup settled /\ t \notin queued(Priority[t]) /\ t \in known
  BY Zenon, <1>2 DEF OnePlace, AllKnown
<1>4. /\ \A l \in Level : queued(l)' = queued(l)
      /\ \A u \in Task : u \in queued(Priority[u])' <=> u \in queued(Priority[u])
  BY Zenon, <1>1 DEF queued
<1>5. \A v \in Worker : worker'[v].task \in {worker[v].task, NoTask}
  BY Zenon, <1>1 DEF IdleWorker, WorkersTyped
<1>6. \A l \in Level : counted(l)' = counted(l)
  <2>1. \A v \in Worker, u \in Task :
          worker'[v] = [pc |-> "taken", task |-> u] <=> worker[v] = [pc |-> "taken", task |-> u]
    BY <1>1 DEF IdleWorker, WorkersTyped
  <2> QED
    BY Zenon, <1>1, <1>4, <2>1 DEF counted
<1> HIDE DEF t
<1>7. SetsTyped' /\ ChannelsTyped' /\ CountersTyped' /\ WorkersTyped' /\ ChannelsOnce'
  <2>1. SetsTyped'
    BY <1>1, <1>2 DEF SetsTyped
  <2>2. ChannelsTyped' /\ CountersTyped' /\ WorkersTyped' /\ ChannelsOnce'
    BY <1>1, <1>2 DEF ChannelsTyped, CountersTyped, WorkersTyped, ChannelsOnce
  <2> QED
    BY Zenon, <2>1, <2>2
<1>8. OnePlace'
  BY <1>1, <1>2, <1>3, <1>4 DEF OnePlace, settled
<1>9. AllKnown'
  BY Zenon, <1>1, <1>3, <1>4, <1>5 DEF AllKnown, settled
<1>10. HandedOK'
  BY Zenon, <1>1, <1>2, <1>4 DEF HandedOK
<1> QED
  BY Zenon, <1>1, <1>2, <1>6, <1>7, <1>8, <1>9, <1>10, CountKept

(* A scan failed: the task is a dead letter, or it waits for room again. *)
LEMMA RetryStep ==
  ASSUME ScanInv, NEW w \in Worker, Retry(w)
  PROVE  ScanInv'
<1> USE ScanAssumption DEF ScanInv
<1> DEFINE t == worker[w].task
<1>1. /\ worker[w].pc = "scan" /\ retry_or_dead_letter(t)
      /\ worker' = [worker EXCEPT ![w] = IdleWorker]
      /\ UNCHANGED <<channel, expired, completed, known, dropped, handed>>
  BY Zenon DEF Retry
<1>2. /\ worker' \in [Worker -> [pc : {"idle", "taken", "scan"}, task : Task \cup {NoTask}]]
      /\ t \in Task /\ held(t) /\ HoldersOnce'
      /\ \A u \in Task : held(u)' <=> held(u) /\ u # t
      /\ \A u \in Task : (\E v \in Worker : worker'[v].pc = "taken" /\ worker'[v].task = u)
           <=> /\ \E v \in Worker : worker[v].pc = "taken" /\ worker[v].task = u
               /\ u # t
  <2>1. worker[w].pc # "idle" /\ worker' = [worker EXCEPT ![w] = IdleWorker]
    BY Zenon, <1>1
  <2> QED
    BY <2>1, Released, Zenon
<1>3. /\ t \notin waiting \cup dropped \cup settled /\ t \notin queued(Priority[t]) /\ t \in known
      /\ Priority[t] \in Level
  BY Zenon, <1>2 DEF OnePlace, AllKnown
<1>4. /\ \A l \in Level : queued(l)' = queued(l)
      /\ \A u \in Task : u \in queued(Priority[u])' <=> u \in queued(Priority[u])
  BY Zenon, <1>1 DEF queued
<1>5. \A v \in Worker : worker'[v].task \in {worker[v].task, NoTask}
  BY Zenon, <1>1 DEF IdleWorker, WorkersTyped
<1>6. \A v \in Worker, u \in Task :
        worker'[v] = [pc |-> "taken", task |-> u] <=> worker[v] = [pc |-> "taken", task |-> u]
  BY <1>1 DEF IdleWorker, WorkersTyped
<1>7. ChannelsOnce'
  BY Zenon, <1>1 DEF ChannelsOnce
<1>8. attempts \in [Task -> 0..MaxAttempts] /\ handed \in [Task -> Nat] /\ pending \in [Level -> Nat]
  BY Zenon DEF CountersTyped
<1>9. \A v \in Worker : worker[v] # [pc |-> "taken", task |-> t]
  BY <1>1, <1>2 DEF HoldersOnce
<1> HIDE DEF t
<1>10. CASE /\ deadLetter' = deadLetter \cup {t}
            /\ UNCHANGED <<attempts, waiting, pending>>
  <2>1. \A l \in Level : counted(l)' = counted(l)
    BY Zenon, <1>1, <1>4, <1>6, <1>10 DEF counted
  <2>2. SetsTyped' /\ ChannelsTyped' /\ CountersTyped' /\ WorkersTyped'
    <3>1. SetsTyped'
      BY <1>1, <1>2, <1>10 DEF SetsTyped
    <3>2. ChannelsTyped' /\ CountersTyped' /\ WorkersTyped'
      BY Zenon, <1>1, <1>2, <1>10 DEF ChannelsTyped, CountersTyped, WorkersTyped
    <3> QED
      BY Zenon, <3>1, <3>2
  <2>3. OnePlace'
    BY <1>1, <1>2, <1>3, <1>4, <1>10 DEF OnePlace, settled
  <2>4. AllKnown'
    BY Zenon, <1>1, <1>3, <1>4, <1>5, <1>10 DEF AllKnown, settled
  <2>5. HandedOK'
    BY Zenon, <1>1, <1>2, <1>4, <1>10 DEF HandedOK
  <2> QED
    BY Zenon, <1>2, <1>7, <1>10, <2>1, <2>2, <2>3, <2>4, <2>5, CountKept
<1>11. CASE /\ attempts[t] + 1 <= MaxAttempts
            /\ attempts' = [attempts EXCEPT ![t] = @ + 1]
            /\ pending' = [pending EXCEPT ![Priority[t]] = @ + 1]
            /\ waiting' = waiting \cup {t}
            /\ UNCHANGED deadLetter
  <2>1. \A l \in Level : counted(l)' = IF l = Priority[t] THEN counted(l) \cup {t} ELSE counted(l)
    BY <1>1, <1>2, <1>4, <1>6, <1>11 DEF counted
  <2>2. t \notin counted(Priority[t])
    BY Zenon, <1>3, <1>9 DEF counted
  <2>3. PendingExact'
    BY Zenon, <1>2, <1>11, <2>1, <2>2, CountAdded
  <2>4. SetsTyped' /\ ChannelsTyped' /\ CountersTyped' /\ WorkersTyped'
    <3>1. attempts' \in [Task -> 0..MaxAttempts]
      <4>1. attempts[t] \in 0..MaxAttempts
        BY Zenon, <1>2, <1>8
      <4>2. ASSUME NEW a \in 0..MaxAttempts, a + 1 <= MaxAttempts PROVE a + 1 \in 0..MaxAttempts
        BY <4>2
      <4> QED
        BY Zenon, <1>2, <1>8, <1>11, <4>1, <4>2
    <3>2. pending' \in [Level -> Nat]
      BY <1>3, <1>8, <1>11
    <3>3. SetsTyped'
      BY <1>1, <1>2, <1>11 DEF SetsTyped
    <3>4. ChannelsTyped'
      BY Zenon, <1>1 DEF ChannelsTyped
    <3>5. CountersTyped'
      BY Zenon, <1>1, <1>8, <3>1, <3>2 DEF CountersTyped
    <3> QED
      BY Zenon, <1>2, <3>3, <3>4, <3>5 DEF WorkersTyped
  <2>5. OnePlace'
    BY <1>1, <1>2, <1>3, <1>4, <1>11 DEF OnePlace, settled
  <2>6. AllKnown'
    BY Zenon, <1>1, <1>3, <1>4, <1>5, <1>11 DEF AllKnown, settled
  <2>7. HandedOK'
    <3>1. /\ attempts'[t] = attempts[t] + 1
          /\ \A u \in Task : u # t => attempts'[u] = attempts[u]
      BY Zenon, <1>2, <1>8, <1>11
    <3>2. handed'[t] <= attempts'[t] /\ handed'[t] <= attempts'[t] + 1
      BY <1>1, <1>2, <1>8, <3>1 DEF HandedOK
    <3> QED
      BY <1>1, <1>2, <1>4, <1>11, <3>1, <3>2 DEF HandedOK
  <2> QED
    BY Zenon, <1>2, <1>7, <2>3, <2>4, <2>5, <2>6, <2>7
<1> QED
  BY Zenon, <1>1, <1>10, <1>11 DEF retry_or_dead_letter, begin_enqueue

(* Every step of the queue, its senders and its workers keeps the invariant. *)
LEMMA ScanStep == ScanInv /\ [ScanNext]_scanVars => ScanInv'
<1> SUFFICES ASSUME ScanInv, [ScanNext]_scanVars PROVE ScanInv'
  BY Zenon
<1>1. ASSUME NEW t \in Task, Enqueue(t) \/ Send(t) \/ CancelEnqueue(t) \/ Expire(t)
      PROVE  ScanInv'
  BY Zenon, <1>1, EnqueueStep, SendStep, CancelStep
<1>2. ASSUME NEW w \in Worker, WorkerStep(w)
      PROVE  ScanInv'
  BY Zenon, <1>2, ReceiveStep, TakenStep, CompleteStep, RetryStep DEF WorkerStep
<1>3. CASE UNCHANGED scanVars
  <2>1. \A l \in Level : queued(l)' = queued(l) /\ counted(l)' = counted(l)
    BY Zenon, <1>3 DEF scanVars, queued, counted
  <2>2. \A u \in Task : /\ u \in queued(Priority[u])' <=> u \in queued(Priority[u])
                        /\ held(u)' <=> held(u)
    BY Zenon, <1>3, <2>1, ScanAssumption DEF scanVars, held
  <2>3. SetsTyped' /\ ChannelsTyped' /\ CountersTyped' /\ WorkersTyped' /\ HoldersOnce' /\ ChannelsOnce'
    BY Zenon, <1>3 DEF ScanInv, SetsTyped, ChannelsTyped, CountersTyped, WorkersTyped, HoldersOnce, ChannelsOnce,
                scanVars
  <2>4. OnePlace' /\ AllKnown'
    BY Zenon, <1>3, <2>1, <2>2 DEF ScanInv, OnePlace, AllKnown, settled, scanVars
  <2>5. HandedOK'
    BY Zenon, <1>3, <2>2 DEF ScanInv, HandedOK, scanVars
  <2>6. UNCHANGED pending
    BY Zenon, <1>3 DEF scanVars
  <2> QED
    BY Zenon, <2>1, <2>3, <2>4, <2>5, <2>6, CountKept DEF ScanInv
<1> QED
  BY Zenon, <1>1, <1>2, <1>3 DEF ScanNext

(* A task that has its result or its dead letter is nowhere else. *)
LEMMA SettledIsSettled == ScanInv => SettledOnce
<1> SUFFICES ASSUME ScanInv PROVE SettledOnce
  BY Zenon
<1> USE DEF ScanInv
<1>1. \A t \in Task : handed[t] <= MaxAttempts + 1
  <2>1. handed \in [Task -> Nat] /\ attempts \in [Task -> 0..MaxAttempts] /\ MaxAttempts \in Nat
    BY Zenon, ScanAssumption DEF CountersTyped
  <2>2. \A t \in Task : handed[t] <= attempts[t] + 1
    BY Zenon DEF HandedOK
  <2> QED
    BY <2>1, <2>2
<1>2. \A t \in completed \cup deadLetter : t \in Task
  BY Zenon DEF SetsTyped
<1> QED
  BY Zenon, <1>1, <1>2 DEF SettledOnce, OnePlace, settled, queued, held

(***************************************************************************)
(* The pending counters are exact up to cancelled senders, for any number  *)
(* of tasks, workers and attempts and any capacity of the channels: the    *)
(* saturating decrement of decrement_pending never saturates.              *)
(***************************************************************************)
THEOREM PendingIsExact == ScanSpec => []PendingExact
<1>1. ScanInv => PendingExact
  BY Zenon DEF ScanInv
<1> QED
  BY <1>1, ScanStart, ScanStep, PTL DEF ScanSpec

(***************************************************************************)
(* A scan is settled once, after at most max_attempts + 1 scans, for any   *)
(* number of tasks and workers (dequeue, complete, retry_or_dead_letter).  *)
(***************************************************************************)
THEOREM ScansSettleOnce == ScanSpec => []SettledOnce
  BY ScanStart, ScanStep, SettledIsSettled, PTL DEF ScanSpec

-----------------------------------------------------------------------------
(* Audit sinks. *)

Valid == {"stdout", "webhook", "kafka"}

\* A run that has passed validation carries a valid specification, and the
\* last write was that of the run which now reports, of the one reported last,
\* or of a run that failed in between.
SinkInv ==
  /\ sinkRun \in [step : {"idle", "write", "status", "failed"}, spec : SinkSpecs \cup {"none"}]
  /\ sinkRun.step = "idle" => sinkRun = NoRun
  /\ sinkRun.step \in {"write", "status"} => sinkRun.spec \in Valid
  /\ sinkRun.step = "status" => sinkConfig = sinkRun.spec
  /\ sinkConfig \in Valid \cup {"none"}
  /\ sinkSpec \in SinkSpecs
  /\ sinkFaults \in Nat
  /\ sinkStatus.phase = "Active" =>
       sinkConfig = sinkStatus.spec \/ sinkFaults > 0 \/ sinkRun.step = "status"

(* No step of the controller or of an edit disturbs the bookkeeping of runs. *)
LEMMA SinkStep == ASSUME SinkInv, [SinkNext]_sinkVars PROVE SinkInv'
<1> USE DEF SinkInv, NoRun, SinkSpecs, Valid
<1>1. CASE EditSink
  BY Zenon, <1>1 DEF EditSink
<1>2. CASE reconcile_sink
  BY Zenon, <1>2 DEF reconcile_sink, first_write, validate_sink
<1>3. CASE WriteConfigMap
  BY Zenon, <1>3 DEF WriteConfigMap
<1>4. CASE patch_sink_status
  BY Zenon, <1>4 DEF patch_sink_status
<1>5. CASE CallFails
  BY <1>5 DEF CallFails, sink_error_policy
<1>6. CASE UNCHANGED sinkVars
  BY Zenon, <1>6 DEF sinkVars
<1> QED
  BY Zenon, <1>1, <1>2, <1>3, <1>4, <1>5, <1>6 DEF SinkNext

(* The initial state of a controller that has not run. *)
LEMMA SinkStart == SinkInit => SinkInv
BY DEF SinkInit, SinkInv, NoRun, Valid

(* The sidecars never read a sink that fails validation, and between runs   *)
(* an Active status is about what the ConfigMap holds unless a call failed, *)
(* for any number of edits and failures (reconcile of the AuditSink).       *)
THEOREM SinksAreHonest == SinkSpec => []SinkHonest
<1>1. SinkInv => SinkHonest
  BY DEF SinkInv, SinkHonest, NoRun, Valid
<1> QED
  BY SinkStart, SinkStep, <1>1, PTL DEF SinkSpec

-----------------------------------------------------------------------------
(* Rollout of rules to pods. *)

\* Every text on its way to a pod is one that a PolicySet which selects the pod
\* has had: in a job, in a post that was given up on, in the sidecar.
TextsOffered ==
  /\ \A s \in PolicySet : rules_of(s) \in offered[s]
  /\ \A s \in PolicySet : job[s].pc \in {"list", "push"} =>
       job[s].rules \in Rules /\ job[s].rules \in offered[s]
  /\ \A s \in PolicySet : job[s].todo \subseteq matched(s)
  /\ \A p \in Pod : \A t \in Rules : <<p, t>> \in late =>
       \E s \in PolicySet : s \in Matches[p] /\ t \in offered[s]

\* What a reconciliation carries.
Job == [pc : {"idle", "list", "push", "fail"}, rules : Text, todo : SUBSET Pod,
        address : SUBSET Pod, count : 0..Cardinality(Pod)]

RolloutInv == RolloutTypeOK /\ TextsOffered /\ RunsOfferedRules

(* The number of pods that a PolicySet selects is at most that of all pods. *)
LEMMA MatchedCount ==
  ASSUME NEW s \in PolicySet
  PROVE  matched(s) \subseteq Pod /\ Cardinality(matched(s)) \in 0..Cardinality(Pod)
<1>1. matched(s) \subseteq Pod
  BY Zenon DEF matched
<1> QED
  BY <1>1, RolloutAssumption, FS_Subset, FS_CardinalityType

(* Whatever a PolicySet and the ConfigMap hold resolves to a text. *)
LEMMA Resolved ==
  ASSUME NEW spec \in [inline : Text, ref : BOOLEAN], NEW cm \in Text
  PROVE  resolve_rules(spec, cm) \in Text
BY Zenon DEF resolve_rules, Text

(* A set whose job is over is one. *)
LEMMA Idle == NoJob \in Job /\ 0 \in 0..Cardinality(Pod)
<1>1. 0 \in 0..Cardinality(Pod)
  BY RolloutAssumption, FS_CardinalityType
<1> QED
  BY Zenon, <1>1 DEF NoJob, Job, Text

(* The start: sidecars run their own rules and nothing is under way. *)
LEMMA RolloutStart == RolloutInit => RolloutInv
<1> SUFFICES ASSUME RolloutInit PROVE RolloutInv
  BY Zenon
<1> USE RolloutAssumption DEF RolloutInit
<1>1. /\ job \in [PolicySet -> Job]
      /\ status \in [PolicySet -> [phase : {"Pending", "Active", "Failed"}, active : 0..Cardinality(Pod)]]
      /\ pods \in [Pod -> [ip : BOOLEAN, running : Rules \cup {OwnRules}]]
  BY Zenon, Idle
<1>2. pset \in [PolicySet -> [inline : Text, ref : BOOLEAN]] /\ configMap \in Text
  BY Zenon DEF Text
<1>3. offered \in [PolicySet -> SUBSET Text]
  <2>1. \A s \in PolicySet : rules_of(s) \in Text
    BY Zenon, <1>2, Resolved DEF rules_of
  <2> QED
    BY Zenon, <2>1
<1>7. changes \in 0..MaxChanges /\ restarts \in 0..MaxRestarts
  OBVIOUS
<1>4. RolloutTypeOK
  BY Zenon, <1>1, <1>2, <1>3, <1>7 DEF RolloutTypeOK, Job
<1>5. TextsOffered
  BY Zenon DEF TextsOffered, NoJob
<1>6. RunsOfferedRules
  BY Zenon DEF RunsOfferedRules
<1> QED
  BY Zenon, <1>4, <1>5, <1>6 DEF RolloutInv

(* A job that has listed its pods is one. *)
LEMMA JobListed ==
  ASSUME NEW j \in Job, NEW todo \in SUBSET Pod, NEW address \in SUBSET Pod,
         NEW count \in 0..Cardinality(Pod)
  PROVE  [j EXCEPT !.pc = "push", !.todo = todo, !.address = address, !.count = count] \in Job
  BY Zenon DEF Job

(* An edit only adds to the texts that sets have had. *)
LEMMA ChangeStep ==
  ASSUME RolloutInv, NEW sets \in [PolicySet -> [inline : Text, ref : BOOLEAN]],
         NEW map \in Text, Change(sets, map)
  PROVE  RolloutInv'
<1> USE DEF RolloutInv, Change
<1>1. \A s \in PolicySet : resolve_rules(sets[s], map) \in Text
  BY Zenon, Resolved
<1>2. \A s \in PolicySet : offered[s] \subseteq offered'[s]
  BY Zenon
<1>3. RolloutTypeOK'
  BY <1>1, RolloutAssumption DEF RolloutTypeOK
<1>4. TextsOffered'
  BY Zenon, <1>2 DEF TextsOffered, rules_of, matched, pod_matches, RolloutTypeOK
<1>5. RunsOfferedRules'
  BY Zenon, <1>2 DEF RunsOfferedRules
<1> QED
  BY Zenon, <1>3, <1>4, <1>5

(* Steps of a job carry on what it started with. *)
LEMMA JobKeepsTexts ==
  ASSUME RolloutInv, NEW s \in PolicySet, JobStep(s) \/ ErrorPolicy(s)
  PROVE  RolloutInv'
<1> USE RolloutAssumption DEF RolloutInv, clusterVars
<1>0. Cardinality(Pod) \in Nat
  BY Zenon, FS_CardinalityType
<1>1. CASE Reconcile(s)
  <2>1. rules_of(s) \in Text
    BY Zenon, Resolved DEF rules_of, RolloutTypeOK
  <2>2. RolloutTypeOK'
    <3>1. new_job(s) \in Job
      BY <1>0, <2>1 DEF Job, new_job
    <3>2. job \in [PolicySet -> Job] /\ job' = [job EXCEPT ![s] = new_job(s)]
      BY Zenon, <1>1 DEF Reconcile, RolloutTypeOK, Job
    <3>3. job' \in [PolicySet -> Job]
      BY Zenon, <3>1, <3>2
    <3> QED
      BY Zenon, <1>1, <3>3 DEF Reconcile, RolloutTypeOK, Job
  <2>3. TextsOffered'
    BY Zenon, <1>1 DEF Reconcile, new_job, TextsOffered, RolloutTypeOK, rules_of, matched, pod_matches
  <2> QED
    BY Zenon, <1>1, <2>2, <2>3 DEF Reconcile, RunsOfferedRules
<1>2. CASE ReconcileFails(s)
  <2>1. RolloutTypeOK'
    <3>1. /\ job \in [PolicySet -> Job]
          /\ status \in [PolicySet -> [phase : {"Pending", "Active", "Failed"}, active : 0..Cardinality(Pod)]]
      BY Zenon DEF RolloutTypeOK, Job
    <3>2. job' \in [PolicySet -> Job]
      BY Zenon, <1>2, <3>1, Idle DEF ReconcileFails
    <3>3. status' \in [PolicySet -> [phase : {"Pending", "Active", "Failed"}, active : 0..Cardinality(Pod)]]
      BY Zenon, <1>2, <3>1, Idle DEF ReconcileFails, Job
    <3> QED
      BY Zenon, <1>2, <3>2, <3>3 DEF ReconcileFails, RolloutTypeOK, Job
  <2>2. TextsOffered'
    BY Zenon, <1>2 DEF ReconcileFails, TextsOffered, RolloutTypeOK, NoJob, rules_of, matched, pod_matches
  <2> QED
    BY Zenon, <1>2, <2>1, <2>2 DEF ReconcileFails, RunsOfferedRules
<1>3. CASE ListPods(s)
  <2>1. RolloutTypeOK'
    <3>1. /\ job \in [PolicySet -> Job] /\ matched(s) \subseteq Pod
          /\ Cardinality(matched(s)) \in 0..Cardinality(Pod)
      BY Zenon, MatchedCount DEF RolloutTypeOK, Job
    <3>2. job' \in [PolicySet -> Job]
      <4> DEFINE listed == [job[s] EXCEPT !.pc = "push", !.todo = matched(s),
                              !.address = {p \in Pod : pods[p].ip}, !.count = Cardinality(matched(s))]
      <4>1. job[s] \in Job /\ {p \in Pod : pods[p].ip} \in SUBSET Pod /\ matched(s) \in SUBSET Pod
        BY Zenon, <3>1
      <4>2. listed \in Job
        BY Zenon, <3>1, <4>1, JobListed
      <4>3. job' = [job EXCEPT ![s] = listed]
        BY Zenon, <1>3 DEF ListPods
      <4> HIDE DEF listed
      <4> QED
        BY Zenon, <3>1, <4>2, <4>3
    <3> QED
      BY Zenon, <1>3, <3>2 DEF ListPods, RolloutTypeOK, Job
  <2>2. TextsOffered'
    BY <1>3, MatchedCount DEF ListPods, TextsOffered, RolloutTypeOK, rules_of, matched, pod_matches
  <2> QED
    BY Zenon, <1>3, <2>1, <2>2 DEF ListPods, RunsOfferedRules
<1>4. CASE PatchStatus(s)
  <2>1. RolloutTypeOK'
    <3>1. /\ job \in [PolicySet -> Job]
          /\ status \in [PolicySet -> [phase : {"Pending", "Active", "Failed"}, active : 0..Cardinality(Pod)]]
      BY Zenon DEF RolloutTypeOK, Job
    <3>2. job' \in [PolicySet -> Job]
      BY Zenon, <1>4, <3>1, Idle DEF PatchStatus
    <3>3. status' \in [PolicySet -> [phase : {"Pending", "Active", "Failed"}, active : 0..Cardinality(Pod)]]
      BY Zenon, <1>4, <3>1, Idle DEF PatchStatus, Job
    <3> QED
      BY Zenon, <1>4, <3>2, <3>3 DEF PatchStatus, RolloutTypeOK, Job
  <2>2. TextsOffered'
    BY Zenon, <1>4 DEF PatchStatus, TextsOffered, RolloutTypeOK, NoJob, rules_of, matched, pod_matches
  <2> QED
    BY Zenon, <1>4, <2>1, <2>2 DEF PatchStatus, RunsOfferedRules
<1>5. CASE ErrorPolicy(s)
  <2>1. RolloutTypeOK'
    <3>1. job' \in [PolicySet -> Job]
      BY Zenon, <1>5, Idle DEF ErrorPolicy, RolloutTypeOK, Job
    <3> QED
      BY Zenon, <1>5, <3>1 DEF ErrorPolicy, RolloutTypeOK, Job
  <2>2. TextsOffered'
    BY Zenon, <1>5 DEF ErrorPolicy, TextsOffered, RolloutTypeOK, NoJob, rules_of, matched, pod_matches
  <2> QED
    BY Zenon, <1>5, <2>1, <2>2 DEF ErrorPolicy, RunsOfferedRules
<1>6. ASSUME NEW p \in Pod, PostServed(s, p) \/ PostFails(s, p) \/ PostTimesOut(s, p)
      PROVE  RolloutInv'
  <2>1. done_with(s, p) /\ UNCHANGED <<clusterVars, status, restarts>>
    BY Zenon, <1>6 DEF PostServed, PostFails, PostTimesOut
  <2>2. s \in Matches[p] /\ job[s].rules \in Rules /\ job[s].rules \in offered[s]
    BY Zenon, <2>1 DEF done_with, TextsOffered, matched, pod_matches
  <2>3. RolloutTypeOK'
    <3>1. job' \in [PolicySet -> Job]
      <4>1. job \in [PolicySet -> Job] /\ job' = [job EXCEPT ![s].todo = @ \ {p}]
        BY Zenon, <2>1 DEF done_with, RolloutTypeOK, Job
      <4> QED
        BY Zenon, <4>1 DEF Job
    <3>2. late' \subseteq Pod \X Rules
      BY <1>6, <2>2 DEF PostServed, PostFails, PostTimesOut, RolloutTypeOK
    <3>3. pods' \in [Pod -> [ip : BOOLEAN, running : Rules \cup {OwnRules}]]
      <4>1. CASE PostServed(s, p)
        <5>1. /\ pods \in [Pod -> [ip : BOOLEAN, running : Rules \cup {OwnRules}]]
              /\ pods' = [pods EXCEPT ![p].running = job[s].rules]
          BY Zenon, <4>1 DEF PostServed, RolloutTypeOK
        <5> QED
          BY Zenon, <2>2, <5>1
      <4>2. CASE PostFails(s, p) \/ PostTimesOut(s, p)
        BY Zenon, <4>2 DEF PostFails, PostTimesOut, RolloutTypeOK
      <4> QED
        BY Zenon, <1>6, <4>1, <4>2
    <3> QED
      BY Zenon, <2>1, <3>1, <3>2, <3>3 DEF RolloutTypeOK, Job
  <2>4. TextsOffered'
    <3>1. \A q \in PolicySet : /\ job'[q].pc = job[q].pc /\ job'[q].rules = job[q].rules
                               /\ job'[q].todo \subseteq job[q].todo
      BY Zenon, <2>1 DEF done_with, RolloutTypeOK
    <3>2. \A q \in Pod : \A t \in Rules : <<q, t>> \in late' =>
            <<q, t>> \in late \/ (q = p /\ t = job[s].rules)
      BY <1>6 DEF PostServed, PostFails, PostTimesOut
    <3>3. \A q \in PolicySet : rules_of(q)' = rules_of(q) /\ matched(q)' = matched(q) /\ offered' = offered
      BY Zenon, <2>1 DEF clusterVars, rules_of, matched, pod_matches
    <3>4. \A q \in Pod : \A t \in Rules : <<q, t>> \in late' =>
            \E x \in PolicySet : x \in Matches[q] /\ t \in offered'[x]
      <4>1. offered' = offered
        BY Zenon, <2>1 DEF clusterVars
      <4>2. \A q \in Pod : \A t \in Rules : <<q, t>> \in late =>
              \E x \in PolicySet : x \in Matches[q] /\ t \in offered[x]
        BY Zenon DEF TextsOffered
      <4>3. ASSUME NEW q \in Pod, NEW t \in Rules, <<q, t>> \in late'
            PROVE  \E x \in PolicySet : x \in Matches[q] /\ t \in offered[x]
        <5>1. CASE <<q, t>> \in late
          BY Zenon, <4>2, <5>1
        <5>2. CASE q = p /\ t = job[s].rules
          BY Zenon, <2>2, <5>2
        <5> QED
          BY Zenon, <3>2, <4>3, <5>1, <5>2
      <4> QED
        BY Zenon, <4>1, <4>3
    <3>5. \A q \in PolicySet : job'[q].todo \subseteq matched(q)'
      BY Zenon, <3>1, <3>3 DEF TextsOffered
    <3> QED
      BY Zenon, <3>1, <3>3, <3>4, <3>5 DEF TextsOffered
  <2>5. RunsOfferedRules'
    BY <1>6, <2>1, <2>2 DEF PostServed, PostFails, PostTimesOut, RunsOfferedRules, RolloutTypeOK
  <2> QED
    BY Zenon, <2>3, <2>4, <2>5
<1> QED
  BY Zenon, <1>1, <1>2, <1>3, <1>4, <1>5, <1>6 DEF JobStep

(* Pods come and go, and a post arrives late: only texts of selecting sets. *)
LEMMA PodStep ==
  ASSUME RolloutInv, NEW p \in Pod,
         Restart(p) \/ GetsAddress(p) \/ \E t \in Rules : LatePost(p, t)
  PROVE  RolloutInv'
<1> USE RolloutAssumption DEF RolloutInv, clusterVars
<1>1. CASE Restart(p)
  <2>0. \A s \in PolicySet :
          /\ job'[s] \in Job
          /\ job'[s].pc = job[s].pc /\ job'[s].rules = job[s].rules /\ job'[s].todo = job[s].todo
    <3> SUFFICES ASSUME NEW s \in PolicySet
                 PROVE  /\ job'[s] \in Job /\ job'[s].pc = job[s].pc
                        /\ job'[s].rules = job[s].rules /\ job'[s].todo = job[s].todo
      BY Zenon
    <3>1. job[s] \in Job /\ job'[s] = [job[s] EXCEPT !.address = @ \ {p}]
      BY Zenon, <1>1 DEF Restart, RolloutTypeOK, Job
    <3> QED
      BY Zenon, <3>1 DEF Job
  <2>1. RolloutTypeOK'
    <3>1. job' \in [PolicySet -> Job]
      BY Zenon, <1>1, <2>0 DEF Restart
    <3>2. pods' \in [Pod -> [ip : BOOLEAN, running : Rules \cup {OwnRules}]]
      BY Zenon, <1>1 DEF Restart, RolloutTypeOK
    <3>3. restarts' \in 0..MaxRestarts
      BY <1>1 DEF Restart, RolloutTypeOK
    <3> QED
      BY Zenon, <1>1, <3>1, <3>2, <3>3 DEF Restart, RolloutTypeOK, Job
  <2>2. TextsOffered'
    BY Zenon, <1>1, <2>0 DEF Restart, TextsOffered, rules_of, matched, pod_matches
  <2> QED
    BY Zenon, <1>1, <2>1, <2>2 DEF Restart, RunsOfferedRules, RolloutTypeOK
<1>2. CASE GetsAddress(p)
  <2>1. RolloutTypeOK'
    <3>1. pods' \in [Pod -> [ip : BOOLEAN, running : Rules \cup {OwnRules}]]
      <4>1. /\ pods \in [Pod -> [ip : BOOLEAN, running : Rules \cup {OwnRules}]]
            /\ pods' = [pods EXCEPT ![p].ip = TRUE]
        BY Zenon, <1>2 DEF GetsAddress, RolloutTypeOK
      <4> QED
        BY Zenon, <4>1
    <3> QED
      BY Zenon, <1>2, <3>1 DEF GetsAddress, RolloutTypeOK
  <2>2. TextsOffered'
    BY Zenon, <1>2 DEF GetsAddress, TextsOffered, rules_of, matched, pod_matches
  <2> QED
    BY <1>2, <2>1, <2>2 DEF GetsAddress, RunsOfferedRules, RolloutTypeOK
<1>3. ASSUME NEW t \in Rules, LatePost(p, t) PROVE RolloutInv'
  <2>1. RolloutTypeOK'
    BY <1>3 DEF LatePost, RolloutTypeOK
  <2>2. TextsOffered'
    BY Zenon, <1>3 DEF LatePost, TextsOffered, rules_of, matched, pod_matches
  <2> QED
    BY <1>3, <2>1, <2>2 DEF LatePost, RunsOfferedRules, TextsOffered, RolloutTypeOK
<1> QED
  BY Zenon, <1>1, <1>2, <1>3

(* One step of the rollout. *)
LEMMA RolloutStep == ASSUME RolloutInv, [RolloutNext]_rolloutVars PROVE RolloutInv'
<1>1. ASSUME NEW s \in PolicySet, EditPolicySet(s) PROVE RolloutInv'
  <2>1. PICK i \in Text, r \in BOOLEAN :
          Change([pset EXCEPT ![s] = [inline |-> i, ref |-> r]], configMap)
    BY Zenon, <1>1 DEF EditPolicySet
  <2>2. [pset EXCEPT ![s] = [inline |-> i, ref |-> r]] \in [PolicySet -> [inline : Text, ref : BOOLEAN]]
    BY Zenon DEF RolloutInv, RolloutTypeOK
  <2>3. configMap \in Text
    BY Zenon DEF RolloutInv, RolloutTypeOK
  <2> QED
    BY Zenon, <2>1, <2>2, <2>3, ChangeStep
<1>2. CASE EditConfigMap
  <2>1. pset \in [PolicySet -> [inline : Text, ref : BOOLEAN]]
    BY Zenon DEF RolloutInv, RolloutTypeOK
  <2> QED
    BY Zenon, <1>2, <2>1, ChangeStep DEF EditConfigMap
<1>3. CASE UNCHANGED rolloutVars
  BY Zenon, <1>3 DEF rolloutVars, clusterVars, RolloutInv, RolloutTypeOK, TextsOffered, RunsOfferedRules,
              rules_of, matched, pod_matches
<1> QED
  BY Zenon, <1>1, <1>2, <1>3, JobKeepsTexts, PodStep DEF RolloutNext

(* A sidecar only ever runs its own rules or rules that a PolicySet which   *)
(* selects its pod has had, for any pods, sets and texts and any number of  *)
(* edits, restarts and delayed posts (push_policy_to_matching_pods).        *)
THEOREM PodsRunOfferedRules == RolloutSpec => []RunsOfferedRules
BY RolloutStart, RolloutStep, PTL DEF RolloutSpec, RolloutInv

-----------------------------------------------------------------------------
(* The components side by side, one of them running. *)

ControlInv == ReloadInv /\ RolloutInv /\ ScanInv /\ SinkInv

(* A step of one component is one that leaves the others as they are. *)
LEMMA ControlStep == ControlInv /\ [ControlNext]_controlVars => ControlInv'
<1> SUFFICES ASSUME ControlInv, [ControlNext]_controlVars PROVE ControlInv'
  BY Zenon
<1>1. /\ [ReloadNext]_reloadVars /\ [RolloutNext]_rolloutVars
      /\ [ScanNext]_scanVars /\ [SinkNext]_sinkVars
  BY Zenon DEF ControlNext, ReloadPart, RolloutPart, ScanPart, SinkPart, controlVars
<1> QED
  BY Zenon, <1>1, ReloadStep, RolloutStep, ScanStep, SinkStep DEF ControlInv

(***************************************************************************)
(* The components around the gate keep their types: a policy that is       *)
(* served was parsed (from_file), a pod is offered rules that exist        *)
(* (resolve_rules), no channel is over its capacity (enqueue) and no scan  *)
(* is tried more often than max_attempts allows (retry_or_dead_letter).    *)
(***************************************************************************)
THEOREM ControlKeepsTypes == ControlSpec => []ControlTypeOK
<1>1. ControlInit => ControlInv
  BY Zenon, ReloadStart, RolloutStart, ScanStart, SinkStart DEF ControlInit, ControlInv
<1>2. ControlInv => ControlTypeOK
  BY Zenon, ScanTypes DEF ControlInv, ControlTypeOK, ReloadInv, RolloutInv
<1> QED
  BY <1>1, <1>2, ControlStep, PTL DEF ControlSpec

=============================================================================
