----------------------------- MODULE RiskSignals ----------------------------
(***************************************************************************)
(* What agents learn of each other's risk: advisories, and the signals of  *)
(* their transfers.                                                        *)
(***************************************************************************)
EXTENDS Integers, Sequences, FiniteSets, SequencesExt, Functions, Folds

(***************************************************************************)
(* Risk advisories between agents: a verdict TRUE_POSITIVE on a blocked    *)
(* transaction of one agent is announced to every other agent the server   *)
(* knows, and a stream of server-sent events passes the announcements of   *)
(* one agent on to a dashboard.  Several verdicts are handled at once: an  *)
(* id is drawn from a shared counter in one step and the advisory lands in *)
(* the map in a later one.                                                 *)
(***************************************************************************)

CONSTANTS AdvAgent, Publisher, MaxAdvisories, MaxSseEvents

ASSUME AdvisoriesAssumption == MaxAdvisories \in Nat /\ MaxSseEvents \in Nat \ {0}

VARIABLES
  reviewed,    \* agents with an entry in the review queue
  intents,     \* agents with an entry in intent_store
  nextId,      \* next_risk_advisory_id
  advisories,  \* risk_advisories: the ids announced to each agent, in the order of insertion
  publishing,  \* per publisher: the peers left, and the advisory in its hands (id 0: none)
  watched,     \* the agent whose stream is open
  lastId,      \* last_id of the stream
  batch,       \* what is left of the batch the stream is emitting
  sent         \* the events of the stream

adVars == <<reviewed, intents, nextId, advisories, publishing, watched, lastId, batch, sent>>

Done == [peers |-> {}, id |-> 0]

AdvisoriesInit ==
  /\ reviewed = {} /\ intents = {} /\ nextId = 1
  /\ advisories = [a \in AdvAgent |-> <<>>]
  /\ publishing = [p \in Publisher |-> Done]
  /\ watched \in AdvAgent
  /\ lastId = -1 /\ batch = <<>> /\ sent = <<>>

AdvisoriesTypeOK ==
  /\ reviewed \subseteq AdvAgent /\ intents \subseteq AdvAgent
  /\ nextId \in 1..(MaxAdvisories + 1)
  /\ \A a \in AdvAgent : Range(advisories[a]) \subseteq 1..(nextId - 1)
  /\ \A p \in Publisher : publishing[p].id \in 0..(nextId - 1)
  /\ lastId \in (1..(nextId - 1)) \cup {-1}

---------------------------------------------------------------------------
(* Publishing. *)

\* A denied request of an agent enters the review queue.
push(a) ==
  /\ reviewed' = reviewed \cup {a}
  /\ UNCHANGED <<intents, nextId, advisories, publishing, watched, lastId, batch, sent>>

record_intent(a) ==
  /\ intents' = intents \cup {a}
  /\ UNCHANGED <<reviewed, nextId, advisories, publishing, watched, lastId, batch, sent>>

\* A verdict on a transaction of agent a: the peers are collected first.
ConfirmedFailure(p, a) ==
  /\ publishing[p] = Done /\ a \in reviewed
  /\ publishing' = [publishing EXCEPT ![p].peers = (reviewed \cup intents) \ {a}]
  /\ UNCHANGED <<reviewed, intents, nextId, advisories, watched, lastId, batch, sent>>

\* fetch_add draws the id of the next peer's advisory ...
DrawId(p) ==
  /\ publishing[p].peers # {} /\ publishing[p].id = 0 /\ nextId <= MaxAdvisories
  /\ publishing' = [publishing EXCEPT ![p].id = nextId]
  /\ nextId' = nextId + 1
  /\ UNCHANGED <<reviewed, intents, advisories, watched, lastId, batch, sent>>

\* ... and the advisory is pushed to the peer's vector.
publish_cross_agent_risk_advisories(p) ==
  /\ publishing[p].id # 0
  /\ \E a \in publishing[p].peers :
       /\ advisories' = [advisories EXCEPT ![a] = Append(@, publishing[p].id)]
       /\ publishing' = [publishing EXCEPT ![p] = [peers |-> @.peers \ {a}, id |-> 0]]
  /\ UNCHANGED <<reviewed, intents, nextId, watched, lastId, batch, sent>>

---------------------------------------------------------------------------
(* The stream. *)

list_risk_advisories(a, since) ==
  SetToSortSeq({x \in Range(advisories[a]) : x > since}, <)

\* The limit on events is looked at between batches only.
Poll ==
  /\ batch = <<>> /\ Len(sent) < MaxSseEvents
  /\ batch' = list_risk_advisories(watched, lastId)
  /\ batch' # <<>>
  /\ UNCHANGED <<reviewed, intents, nextId, advisories, publishing, watched, lastId, sent>>

last_after(id, last) == IF id > last THEN id ELSE last

risk_advisories_stream ==
  /\ batch # <<>>
  /\ lastId' = last_after(Head(batch), lastId)
  /\ sent' = Append(sent, Head(batch))
  /\ batch' = Tail(batch)
  /\ UNCHANGED <<reviewed, intents, nextId, advisories, publishing, watched>>

AdvisoriesNext ==
  \/ \E a \in AdvAgent : push(a) \/ record_intent(a)
  \/ \E p \in Publisher : \/ \E a \in AdvAgent : ConfirmedFailure(p, a)
                          \/ DrawId(p) \/ publish_cross_agent_risk_advisories(p)
  \/ Poll
  \/ risk_advisories_stream

AdvisoriesSpec == AdvisoriesInit /\ [][AdvisoriesNext]_adVars

---------------------------------------------------------------------------
(* Properties. *)

\* The stream emits every advisory at most once and in the order of the ids,
\* across batches and while verdicts are being announced: a client may
\* resume after the last id it saw.
EventsIncrease ==
  \A i, j \in DOMAIN sent : i < j => sent[i] < sent[j]

\* The stream passes over an advisory only if an advisory with a larger id
\* was inserted before it: whatever reached the vector in the order of the
\* ids is emitted or still ahead of last_id.
SkippedOnlyOvertaken ==
  LET v == advisories[watched] IN
  \A j \in DOMAIN v :
    \/ v[j] > lastId \/ v[j] \in Range(sent) \/ v[j] \in Range(batch)
    \/ \E i \in 1..(j - 1) : v[i] > v[j]

(***************************************************************************)
(* What the gate learns from transfers: per agent, the observations from   *)
(* which an anomaly model is refitted in the background, and per           *)
(* recipient, the transfers of the last minute from all agents.  A request *)
(* holds the agent's mutex while it observes and checks; a fit runs on a   *)
(* blocking thread and takes the mutex again when it is done.              *)
(***************************************************************************)

CONSTANTS SigAgent, Recipient, Amount, MaxTotal, Window, MinFeatures,
          RetrainEvery, MaxObserved, MaxClock

ASSUME SignalsAssumption ==
  /\ Amount \subseteq Nat /\ MaxTotal \in Nat /\ Window \in Nat \ {0}
  /\ MinFeatures \in Nat \ {0} /\ RetrainEvery \in Nat \ {0}
  /\ MaxObserved \in Nat /\ MaxClock \in Nat

VARIABLES
  observed,   \* per agent: length of recent_features
  sinceFit,   \* samples_since_retrain
  fitGeneration, \* anomaly_generation
  fitting,   \* anomaly_retrain_inflight
  model,      \* fitGeneration of anomaly_model, 0 for none
  fits,       \* generations being fitted in the background
  transfers,  \* recipient_transfers: the events of each recipient
  allowed,    \* the transfers that passed the recipient's limit
  clock

signalVars == <<observed, sinceFit, fitGeneration, fitting, model, fits, transfers, allowed, clock>>
agentVars == <<observed, sinceFit, fitGeneration, fitting, model, fits>>

SignalsInit ==
  /\ observed = [a \in SigAgent |-> 0] /\ sinceFit = [a \in SigAgent |-> 0]
  /\ fitGeneration = [a \in SigAgent |-> 0] /\ fitting = [a \in SigAgent |-> FALSE]
  /\ model = [a \in SigAgent |-> 0] /\ fits = [a \in SigAgent |-> {}]
  /\ transfers = [r \in Recipient |-> <<>>] /\ allowed = {} /\ clock = 0

SignalsTypeOK ==
  /\ observed \in [SigAgent -> 0..MaxObserved] /\ sinceFit \in [SigAgent -> 0..MaxObserved]
  /\ fitting \in [SigAgent -> BOOLEAN]
  /\ \A a \in SigAgent : model[a] \in 0..fitGeneration[a] /\ fits[a] \subseteq 1..fitGeneration[a]

---------------------------------------------------------------------------
(* The anomaly model. *)

should_retrain(a) ==
  /\ ~fitting[a]
  /\ observed[a] + 1 >= MinFeatures
  /\ model[a] = 0 \/ sinceFit[a] + 1 >= RetrainEvery

\* Every transfer is observed; the plan of a fit is spawned at once.
observe_signal(a) ==
  /\ observed[a] < MaxObserved
  /\ observed' = [observed EXCEPT ![a] = @ + 1]
  /\ IF should_retrain(a)
     THEN /\ fitting' = [fitting EXCEPT ![a] = TRUE]
          /\ sinceFit' = [sinceFit EXCEPT ![a] = 0]
          /\ fitGeneration' = [fitGeneration EXCEPT ![a] = @ + 1]
          /\ fits' = [fits EXCEPT ![a] = @ \cup {fitGeneration[a] + 1}]
     ELSE /\ sinceFit' = [sinceFit EXCEPT ![a] = @ + 1]
          /\ UNCHANGED <<fitting, fitGeneration, fits>>
  /\ UNCHANGED model

\* A fit ends: its model is taken if its fitGeneration is the current one.
apply_retrained_model(a, g) ==
  /\ g = fitGeneration[a]
  /\ model' = [model EXCEPT ![a] = g]
  /\ fitting' = [fitting EXCEPT ![a] = FALSE]

\* A fit that panicked frees the slot for the next one.
mark_retrain_failed(a, g) ==
  /\ fitting' = [fitting EXCEPT ![a] = IF g = fitGeneration[a] THEN FALSE ELSE @]
  /\ UNCHANGED model

schedule_anomaly_retrain(a, g) ==
  /\ g \in fits[a]
  /\ fits' = [fits EXCEPT ![a] = @ \ {g}]
  /\ \/ apply_retrained_model(a, g)
     \/ g # fitGeneration[a] /\ UNCHANGED <<model, fitting>>
     \/ mark_retrain_failed(a, g)
  /\ UNCHANGED <<observed, sinceFit, fitGeneration, transfers, allowed, clock>>

---------------------------------------------------------------------------
(* The limit per recipient. *)

signal_total(events) == FoldSeq(LAMBDA e, sum : e.amount + sum, 0, events)
agents(events) == {e.agent : e \in Range(events)}

\* Events older than the window are dropped and the new one is added,
\* also if the transfer is then denied.
counted_events(r, e) == Append(SelectSeq(transfers[r], LAMBDA x : e.at - x.at < Window), e)

evaluate_recipient_aggregate(r, e) ==
  LET events == counted_events(r, e)
      denied == Cardinality(agents(events)) >= 2 /\ signal_total(events) > MaxTotal
  IN /\ transfers' = [transfers EXCEPT ![r] = events]
     /\ allowed' = IF denied THEN allowed ELSE allowed \cup {[to |-> r, ev |-> e, nth |-> Cardinality(allowed)]}

\* A request that an earlier check stops after the observation, and one that
\* comes as far as the recipient's limit.
ObserveOnly(a) ==
  /\ observe_signal(a)
  /\ UNCHANGED <<transfers, allowed, clock>>

Transfer(a, r, m) ==
  /\ observe_signal(a)
  /\ evaluate_recipient_aggregate(r, [agent |-> a, amount |-> m, at |-> clock])
  /\ UNCHANGED clock

Tick ==
  /\ clock < MaxClock
  /\ clock' = clock + 1
  /\ UNCHANGED <<agentVars, transfers, allowed>>

SignalsNext ==
  \/ \E a \in SigAgent :
       \/ ObserveOnly(a)
       \/ \E r \in Recipient, m \in Amount : Transfer(a, r, m)
       \/ \E g \in fits[a] : schedule_anomaly_retrain(a, g)
  \/ Tick

SignalsSpec == SignalsInit /\ [][SignalsNext]_signalVars

---------------------------------------------------------------------------
(* Properties. *)

\* An agent is marked as refitting exactly while one fit of its current
\* fitGeneration runs: no failure of a fit leaves the mark behind, which would
\* freeze the model for good, and no second fit races the first.
OneFitWhileMarked ==
  \A a \in SigAgent : fits[a] = IF fitting[a] THEN {fitGeneration[a]} ELSE {}

\* In any minute the transfers that two or more agents were allowed to make
\* to one recipient stay within the limit, in whatever order their requests
\* interleave and whichever were denied.
SharedRecipientBounded ==
  \A r \in Recipient, from \in 0..clock :
    LET inMinute == {x \in allowed : x.to = r /\ x.ev.at \in from..(from + Window - 1)}
    IN Cardinality({x.ev.agent : x \in inMinute}) >= 2 =>
         MapThenFoldSet(+, 0, LAMBDA x : x.ev.amount, LAMBDA S : CHOOSE x \in S : TRUE, inMinute) <= MaxTotal
=============================================================================
