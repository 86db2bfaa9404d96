---------------------------- MODULE PolicyReload ----------------------------
(***************************************************************************)
(* Hot reload of the rule set inside one server.  A watcher thread follows *)
(* the rules file and its detached signature, the policy-sync webhook      *)
(* pushes policies, and requests evaluate an evaluator that is cached      *)
(* under the generation of the policy it was built from                    *)
(* (crates/rules/src/watcher.rs, validate_inner in                         *)
(* crates/validator/src/lib.rs, webhook_policy_sync in                     *)
(* crates/api/src/handlers.rs).                                            *)
(*                                                                         *)
(* PolicyHandle::store writes the policy and bumps the generation in two   *)
(* steps, and a request reads the generation, loads the policy and fills   *)
(* the cache in three.  Each is an action, so they interleave freely.      *)
(***************************************************************************)
EXTENDS Naturals, Sequences, FiniteSetsExt

CONSTANTS
  Policy,       \* the policies that parse
  Broken,       \* those of them for which RuleEvaluator::new fails
  Reader,       \* requests that evaluate rules
  Pusher,       \* calls of the policy-sync webhook
  SignFirst,    \* does whoever edits the file write the signature first?
  Tries,        \* attempts of the watcher per event, 6 in the code
  MaxEdits,     \* bound: completed rewrites of the rules file
  NoPolicy      \* neither a policy nor an evaluator

ASSUME ReloadAssumption ==
  /\ Broken \subseteq Policy
  /\ SignFirst \in BOOLEAN
  /\ Tries \in Nat \ {0} /\ MaxEdits \in Nat
  /\ NoPolicy \notin Policy \cup Reader

VARIABLES
  file,         \* content of the rules file; NoPolicy while it is half written
  sig,          \* the policy that the signature file signs
  events,       \* notifications of writes to the rules file not yet received
  edits,        \* number of completed rewrites
  watcher,      \* the watcher thread
  handle,       \* the policy of PolicyHandle, with the number of its write
  generation,   \* the generation counter of PolicyHandle
  stored,       \* history: number of the newest write whose store() returned
  pusher,       \* the webhook calls
  ruleCache,    \* rule_evaluator_cache: generation and evaluator
  cacheLock,    \* the request that holds the mutex of rule_evaluator_cache
  reader        \* the requests

fileVars == <<file, sig, events, edits>>
handleVars == <<handle, generation, stored>>
readVars == <<ruleCache, cacheLock, reader>>
reloadVars == <<fileVars, watcher, handleVars, pusher, readVars>>

\* A policy together with the number of the write that put it in force.
Numbered == [policy : Policy, nr : Nat]
NoEvaluator == [policy |-> NoPolicy, nr |-> 0]
NoCall == [pc |-> "idle", policy |-> NoPolicy, nr |-> 0]
NoReload == [pc |-> "idle", tries |-> 0, policy |-> NoPolicy, nr |-> 0]
NoRequest == [pc |-> "idle", generation |-> 0, floor |-> 0, evaluator |-> NoEvaluator]

\* ReloadTypeOK: in particular PolicyHandle always holds a policy that parses,
\* never a half-written file, and the watcher's attempts stay within Tries.
ReloadTypeOK ==
  /\ file \in Policy \cup {NoPolicy} /\ sig \in Policy
  /\ events \in Nat /\ edits \in 0..MaxEdits
  /\ watcher \in [pc : {"idle", "verify", "load", "write", "bump"}, tries : 0..Tries,
                  policy : Policy \cup {NoPolicy}, nr : Nat]
  /\ handle \in Numbered /\ generation \in Nat /\ stored \in Nat
  /\ pusher \in [Pusher -> [pc : {"idle", "write", "bump", "done"},
                            policy : Policy \cup {NoPolicy}, nr : Nat]]
  /\ ruleCache \in [generation : Nat, evaluator : Numbered \cup {NoEvaluator}]
  /\ cacheLock \in Reader \cup {NoPolicy}
  /\ reader \in [Reader -> [pc : {"idle", "lookup", "build", "done"}, generation : Nat,
                            floor : Nat, evaluator : Numbered \cup {NoEvaluator}]]

(***************************************************************************)
(* watch_policy checks the signature and loads the file before the watcher *)
(* starts.  The empty cache is an entry without an evaluator.  A change of *)
(* the file's metadata is notified as Modify too, so an event may wait for *)
(* the watcher although nothing was written.                               *)
(***************************************************************************)
ReloadInit ==
  /\ file \in Policy \ Broken
  /\ sig = file
  /\ events \in 0..1 /\ edits = 0
  /\ watcher = NoReload
  /\ handle = [policy |-> file, nr |-> 0]
  /\ generation = 0 /\ stored = 0
  /\ pusher = [p \in Pusher |-> NoCall]
  /\ ruleCache = [generation |-> 0, evaluator |-> NoEvaluator]
  /\ cacheLock = NoPolicy
  /\ reader = [r \in Reader |-> NoRequest]

-----------------------------------------------------------------------------
(***************************************************************************)
(* The administrator.  A rewrite truncates the file and then fills it, and *)
(* each of the two is notified.  A write of the signature file is notified *)
(* too, but the watcher drops events for other file names.                 *)
(***************************************************************************)
Truncate ==
  /\ file # NoPolicy /\ edits < MaxEdits
  /\ file' = NoPolicy
  /\ events' = events + 1
  /\ UNCHANGED <<sig, edits, watcher, handleVars, pusher, readVars>>

MutFillUnnoticed(p) ==
  /\ file = NoPolicy
  /\ SignFirst => sig = p
  /\ file' = p
  /\ edits' = edits + 1
  /\ UNCHANGED <<sig, events, watcher, handleVars, pusher, readVars>>

Fill(p) ==
  /\ file = NoPolicy
  /\ SignFirst => sig = p
  /\ file' = p
  /\ edits' = edits + 1
  /\ events' = events + 1
  /\ UNCHANGED <<sig, watcher, handleVars, pusher, readVars>>

Sign(p) ==
  /\ sig # p
  /\ IF SignFirst THEN file = NoPolicy ELSE file = p
  /\ sig' = p
  /\ UNCHANGED <<file, events, edits, watcher, handleVars, pusher, readVars>>

(***************************************************************************)
(* PolicyHandle: the two steps of store(), for a caller in record c.       *)
(***************************************************************************)
store_write(c) == handle' = [policy |-> c.policy, nr |-> handle.nr + 1]

store_bump(c) ==
  /\ generation' = generation + 1
  /\ stored' = Max({stored, c.nr})

-----------------------------------------------------------------------------
(* The watcher thread. *)

\* The next event for the rules file.
Notified ==
  /\ watcher.pc = "idle" /\ events > 0
  /\ events' = events - 1
  /\ watcher' = [watcher EXCEPT !.pc = "verify", !.tries = Tries]
  /\ UNCHANGED <<file, sig, edits, handleVars, pusher, readVars>>

\* A signature that does not match ends the attempts for this event.
verify_rules_signature ==
  /\ watcher.pc = "verify"
  /\ watcher' = IF file = sig THEN [watcher EXCEPT !.pc = "load"] ELSE NoReload
  /\ UNCHANGED <<fileVars, handleVars, pusher, readVars>>

MutLoadUnparsed ==
  /\ watcher.pc = "load"
  /\ watcher' = [watcher EXCEPT !.pc = "write", !.policy = file]
  /\ UNCHANGED <<fileVars, handleVars, pusher, readVars>>

\* The file is read a second time; one that does not parse is retried.
from_file ==
  /\ watcher.pc = "load"
  /\ \/ /\ file # NoPolicy
        /\ watcher' = [watcher EXCEPT !.pc = "write", !.policy = file]
     \/ /\ file = NoPolicy
        /\ watcher' = IF watcher.tries = 1 THEN NoReload
                      ELSE [watcher EXCEPT !.pc = "verify", !.tries = @ - 1]
  /\ UNCHANGED <<fileVars, handleVars, pusher, readVars>>

WatcherWrite ==
  /\ watcher.pc = "write"
  /\ store_write(watcher)
  /\ watcher' = [watcher EXCEPT !.pc = "bump", !.nr = handle.nr + 1]
  /\ UNCHANGED <<fileVars, generation, stored, pusher, readVars>>

WatcherBump ==
  /\ watcher.pc = "bump"
  /\ store_bump(watcher)
  /\ watcher' = NoReload
  /\ UNCHANGED <<fileVars, handle, pusher, readVars>>

-----------------------------------------------------------------------------
(* webhook_policy_sync: a policy whose evaluator cannot be built is refused. *)

PushReceived(c, p) ==
  /\ pusher[c].pc = "idle"
  /\ p \notin Broken
  /\ pusher' = [pusher EXCEPT ![c] = [@ EXCEPT !.pc = "write", !.policy = p]]
  /\ UNCHANGED <<fileVars, watcher, handleVars, readVars>>

PushWrite(c) ==
  /\ pusher[c].pc = "write"
  /\ store_write(pusher[c])
  /\ pusher' = [pusher EXCEPT ![c] = [@ EXCEPT !.pc = "bump", !.nr = handle.nr + 1]]
  /\ UNCHANGED <<fileVars, watcher, generation, stored, readVars>>

PushBump(c) ==
  /\ pusher[c].pc = "bump"
  /\ store_bump(pusher[c])
  /\ pusher' = [pusher EXCEPT ![c] = [@ EXCEPT !.pc = "done"]]
  /\ UNCHANGED <<fileVars, watcher, handle, readVars>>

-----------------------------------------------------------------------------
(* A request evaluates the rules. *)

\* The generation is read before the mutex of the cache is taken.
ReadGeneration(r) ==
  /\ reader[r].pc = "idle"
  /\ reader' = [reader EXCEPT ![r] = [pc |-> "lookup", generation |-> generation,
                                      floor |-> stored, evaluator |-> NoEvaluator]]
  /\ UNCHANGED <<fileVars, watcher, handleVars, pusher, ruleCache, cacheLock>>

cache_hit(r) ==
  ruleCache.evaluator # NoEvaluator /\ ruleCache.generation = reader[r].generation

UseCached(r) ==
  /\ reader[r].pc = "lookup" /\ cacheLock = NoPolicy
  /\ cache_hit(r)
  /\ reader' = [reader EXCEPT ![r] = [@ EXCEPT !.pc = "done", !.evaluator = ruleCache.evaluator]]
  /\ UNCHANGED <<fileVars, watcher, handleVars, pusher, ruleCache, cacheLock>>

MutLoadUnlocked(r) ==
  /\ reader[r].pc = "lookup"
  /\ ~cache_hit(r)
  /\ reader' = [reader EXCEPT ![r] = [@ EXCEPT !.pc = "build", !.evaluator = handle]]
  /\ UNCHANGED <<fileVars, watcher, handleVars, pusher, ruleCache, cacheLock>>

LoadPolicy(r) ==
  /\ reader[r].pc = "lookup" /\ cacheLock = NoPolicy
  /\ ~cache_hit(r)
  /\ cacheLock' = r
  /\ reader' = [reader EXCEPT ![r] = [@ EXCEPT !.pc = "build", !.evaluator = handle]]
  /\ UNCHANGED <<fileVars, watcher, handleVars, pusher, ruleCache>>

MutLabelNow(r) == [generation |-> generation, evaluator |-> reader[r].evaluator]

\* The evaluator is cached under the generation read at the start.
cached_as(r) == [generation |-> reader[r].generation, evaluator |-> reader[r].evaluator]

\* RuleEvaluator::new.  When it fails the request goes on without rules.
BuildEvaluator(r) ==
  /\ reader[r].pc = "build"
  /\ cacheLock' = NoPolicy
  /\ \/ /\ reader[r].evaluator.policy \notin Broken
        /\ ruleCache' = cached_as(r)
        /\ reader' = [reader EXCEPT ![r] = [@ EXCEPT !.pc = "done"]]
     \/ /\ reader[r].evaluator.policy \in Broken
        /\ reader' = [reader EXCEPT ![r] = [@ EXCEPT !.pc = "done", !.evaluator = NoEvaluator]]
        /\ UNCHANGED ruleCache
  /\ UNCHANGED <<fileVars, watcher, handleVars, pusher>>

Evaluated(r) ==
  /\ reader[r].pc = "done"
  /\ reader' = [reader EXCEPT ![r] = NoRequest]
  /\ UNCHANGED <<fileVars, watcher, handleVars, pusher, ruleCache, cacheLock>>

-----------------------------------------------------------------------------
WatcherStep == Notified \/ verify_rules_signature \/ from_file \/ WatcherWrite \/ WatcherBump

ReloadNext ==
  \/ Truncate
  \/ \E p \in Policy : Fill(p) \/ Sign(p)
  \/ WatcherStep
  \/ \E c \in Pusher : (\E p \in Policy : PushReceived(c, p)) \/ PushWrite(c) \/ PushBump(c)
  \/ \E r \in Reader : \/ ReadGeneration(r) \/ UseCached(r) \/ LoadPolicy(r)
                       \/ BuildEvaluator(r) \/ Evaluated(r)

\* The watcher has a thread of its own, which the operating system schedules.
ReloadFairness == WF_reloadVars(WatcherStep)

ReloadSpec == ReloadInit /\ [][ReloadNext]_reloadVars /\ ReloadFairness

-----------------------------------------------------------------------------
(***************************************************************************)
(* A request that starts after a push or a reload has returned is never    *)
(* evaluated by rules older than that push or reload: the generation under *)
(* which an evaluator is cached (validate_inner) never promises more than  *)
(* the policy it was built from.                                           *)
(***************************************************************************)
FreshRules ==
  \A r \in Reader :
    reader[r].pc = "done" /\ reader[r].evaluator # NoEvaluator
      => reader[r].evaluator.nr >= reader[r].floor

(***************************************************************************)
(* The rules never go back: the cached evaluator is of a policy at least   *)
(* as new as the one any request under way has been given, so a request    *)
(* that looks the cache up later gets the same or newer rules.             *)
(***************************************************************************)
NewestCached ==
  \A r \in Reader :
    reader[r].pc = "done" => ruleCache.evaluator.nr >= reader[r].evaluator.nr

(***************************************************************************)
(* "Returns a PolicyHandle that always reflects the latest valid policy"   *)
(* (watch_policy): a file that stays in place with its signature is put in *)
(* force by the watcher, unless the webhook has replaced the policy.       *)
(***************************************************************************)
LatestLoaded ==
  LET pushed == \E c \in Pusher : pusher[c].pc \in {"bump", "done"}
  IN  ReloadFairness => \A p \in Policy :
        file = p /\ sig = p ~> handle.policy = p \/ file # p \/ sig # p \/ pushed
=============================================================================
