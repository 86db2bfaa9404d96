---------------------------- MODULE SessionDrift ----------------------------
(***************************************************************************)
(* Drift of a session from its declared goal, and of an agent from its own *)
(* baseline.                                                               *)
(***************************************************************************)
EXTENDS Integers, Sequences, FiniteSets, SequencesExt, Functions

(***************************************************************************)
(* Declared goals and the drift window of one agent's session: POST /goals *)
(* and DELETE /goals each touch the goal store and the drift scorer under  *)
(* separate locks, while validations read the goal and later goal_push a score. *)
(* Embeddings are unit vectors of an orthogonal basis, one per topic, so   *)
(* the dot product of two is 0 or 1; scores are in thousandths.            *)
(***************************************************************************)

CONSTANTS GoalTopic, DriftCall, DriftCapacity, BaselineActions, MinWindow, MaxActions

ASSUME GoalDriftAssumption == {DriftCapacity, BaselineActions, MinWindow} \subseteq Nat \ {0}

VARIABLES
  goalStore,    \* the declared topic, or "none"
  driftWindow,  \* the session's DriftWindow
  driftCall,    \* call -> where it is
  lastVerdict,  \* decision of the last validation that reached the check
  undisturbed   \* no other call overlapped the last declaration

goalVars == <<goalStore, driftWindow, driftCall, lastVerdict, undisturbed>>

NoWindow == [scores |-> <<>>, scoredBy |-> <<>>, seen |-> <<>>, baseline |-> <<>>]
NoAction == [op |-> "idle", topic |-> "none"]
DriftThreshold == 300

GoalInit ==
  /\ goalStore = "none" /\ driftWindow = NoWindow /\ driftCall = [c \in DriftCall |-> NoAction]
  /\ lastVerdict = "Continue" /\ undisturbed = FALSE

GoalAt(c, op) == driftCall[c].op = op
Goto(c, op, topic) == driftCall' = [driftCall EXCEPT ![c] = [op |-> op, topic |-> topic]]
alone(c) == \A d \in DriftCall \ {c} : GoalAt(d, "idle")

---------------------------------------------------------------------------
(* DriftScorer. *)

same(t, u) == IF t = u THEN 1000 ELSE 0
goal_count(s, t) == Len(SelectSeq(s, LAMBDA x : x = t))

\* The running centroid is the mean of the unit vectors; 0.5 when there is none.
centroid_similarity(w, t) == IF w.seen = <<>> THEN 500 ELSE (1000 * goal_count(w.seen, t)) \div Len(w.seen)

blended(w, goal, t) ==
  IF Len(w.seen) >= 2 THEN (6 * same(goal, t) + 4 * centroid_similarity(w, t)) \div 10 ELSE same(goal, t)

baseline_frozen(w) == Len(w.baseline) >= BaselineActions

track_action(w, t) ==
  [w EXCEPT !.seen = Append(@, t), !.baseline = IF baseline_frozen(w) THEN @ ELSE Append(@, t)]

slid(s, x) == Append(IF Len(s) >= DriftCapacity THEN Tail(s) ELSE s, x)

push_score(w, goal, t) ==
  [track_action(w, t) EXCEPT !.scores = slid(@, blended(w, goal, t)), !.scoredBy = slid(@, goal)]

mean(s) == IF s = <<>> THEN 1000 ELSE FoldSeq(+, 0, s) \div Len(s)

\* Least-squares slope over the window: twelve times its numerator.
trend_slope(s) ==
  FoldSeq(+, 0, [i \in DOMAIN s |-> 6 * (2 * i - Len(s) - 1) * (s[i] - mean(s))])

cumulative_drift(w, t) ==
  IF baseline_frozen(w) THEN <<1000 - (1000 * goal_count(w.baseline, t)) \div Len(w.baseline)>> ELSE <<>>

clear(w) == NoWindow

clarification_check(w) ==
  IF Len(w.scores) >= MinWindow /\ mean(w.scores) < DriftThreshold THEN "RequireClarification" ELSE "Continue"

is_drifting(w) == w.scores # <<>> /\ mean(w.scores) < DriftThreshold /\ Len(w.scores) >= MinWindow

\* What GET drift status reports of the window.
drift_status(w) == [drifting |-> is_drifting(w), window_len |-> Len(w.scores),
                    slope |-> trend_slope(w.scores)]

---------------------------------------------------------------------------
(* Handlers. *)

\* POST /goals: the intent is embedded (an await that may fail) ...
declare_goal(c) ==
  /\ GoalAt(c, "idle")
  /\ \E t \in GoalTopic : Goto(c, "embedded", t)
  /\ undisturbed' = FALSE /\ UNCHANGED <<goalStore, driftWindow, lastVerdict>>

EmbedFails(c) ==
  /\ GoalAt(c, "embedded") /\ Goto(c, "idle", "none")
  /\ UNCHANGED <<goalStore, driftWindow, lastVerdict, undisturbed>>

\* ... the window is dropped ...
ClearWindow(c) ==
  /\ GoalAt(c, "embedded") /\ Goto(c, "cleared", driftCall[c].topic)
  /\ driftWindow' = clear(driftWindow) /\ undisturbed' = alone(c)
  /\ UNCHANGED <<goalStore, lastVerdict>>

\* ... and the goal stored.
declare(c) ==
  /\ GoalAt(c, "cleared") /\ goalStore' = driftCall[c].topic /\ Goto(c, "idle", "none")
  /\ UNCHANGED <<driftWindow, lastVerdict, undisturbed>>

revoke_goal(c) ==
  /\ GoalAt(c, "idle") /\ Goto(c, "revoked", "none") /\ goalStore' = "none"
  /\ undisturbed' = FALSE /\ UNCHANGED <<driftWindow, lastVerdict>>

ClearRevoked(c) ==
  /\ GoalAt(c, "revoked") /\ Goto(c, "idle", "none") /\ driftWindow' = clear(driftWindow)
  /\ UNCHANGED <<goalStore, lastVerdict, undisturbed>>

\* validate: a session without a goal is not scored.
ReadGoal(c) ==
  /\ GoalAt(c, "idle") /\ goalStore # "none" /\ Goto(c, "scoring", goalStore)
  /\ undisturbed' = (undisturbed /\ \A d \in DriftCall : ~GoalAt(d, "cleared"))
  /\ UNCHANGED <<goalStore, driftWindow, lastVerdict>>

goal_push(c) ==
  /\ GoalAt(c, "scoring") /\ Len(driftWindow.seen) < MaxActions
  /\ \E t \in GoalTopic : driftWindow' = push_score(driftWindow, driftCall[c].topic, t)
  /\ lastVerdict' = clarification_check(driftWindow') /\ Goto(c, "idle", "none")
  /\ UNCHANGED <<goalStore, undisturbed>>

GoalNext ==
  \E c \in DriftCall :
    \/ declare_goal(c) \/ EmbedFails(c) \/ ClearWindow(c) \/ declare(c)
    \/ revoke_goal(c) \/ ClearRevoked(c) \/ ReadGoal(c) \/ goal_push(c)

---------------------------------------------------------------------------
(* Properties. *)

GoalTypeOK ==
  /\ goalStore \in GoalTopic \cup {"none"} /\ Len(driftWindow.scores) <= DriftCapacity
  /\ \A c \in DriftCall : driftCall[c].op \in {"idle", "embedded", "cleared", "revoked", "scoring"}

\* When no validation and no other goal call overlapped the last declaration,
\* the window an agent is judged by holds scores against the goal now
\* declared and no other.
WindowScoresDeclaredGoal ==
  undisturbed /\ (\A c \in DriftCall : ~GoalAt(c, "cleared")) =>
    \A i \in DOMAIN driftWindow.scoredBy : driftWindow.scoredBy[i] = goalStore

\* The baseline a session is compared with is made of its first
\* BaselineActions actions since the last reset, for good.
BaselineIsFirstActions ==
  driftWindow.baseline = SubSeq(driftWindow.seen, 1, Len(driftWindow.baseline))
  /\ Len(driftWindow.baseline) <= BaselineActions

\* The status endpoint never reports drifting when the last validation that
\* touched the window was told to continue.
StatusAgreesWithVerdict ==
  drift_status(driftWindow).drifting => lastVerdict = "RequireClarification"

(***************************************************************************)
(* ConversationStore and its twin BehavioralFingerprinter, for one agent:  *)
(* the first BaselineSize embeddings form a baseline centroid, each later  *)
(* one is judged by the centroid of the last ConvoWindow embeddings.       *)
(* Embeddings are orthogonal unit vectors, one per topic; the similarity   *)
(* is a dot product of the two centroids; drift is in thousandths.         *)
(***************************************************************************)

CONSTANTS ConvoTopic, BaselineSize, ConvoWindow, MaxConversations

ASSUME ConversationAssumption == 0 < ConvoWindow /\ ConvoWindow <= BaselineSize

VARIABLES
  detector,      \* which of the two stores this is
  baselineSum,   \* topic -> number of baseline embeddings
  convoWindow,   \* the sliding window of embeddings
  prevDrift,     \* drift of the previous report
  report,        \* the last recommendation, or "none"
  conversations  \* all embeddings pushed (auxiliary)

convoVars == <<detector, baselineSum, convoWindow, prevDrift, report, conversations>>

ConvoInit ==
  /\ detector \in {"conversation", "behavior"} /\ baselineSum = [t \in ConvoTopic |-> 0]
  /\ convoWindow = <<>> /\ prevDrift = 0 /\ report = "none" /\ conversations = <<>>

convo_total(f) == FoldFunction(+, 0, f)
baseline_count == convo_total(baselineSum)

push_window(w, t) == Append(IF Len(w) >= ConvoWindow THEN Tail(w) ELSE w, t)

window_counts(w) == [t \in ConvoTopic |-> Len(SelectSeq(w, LAMBDA x : x = t))]

\* One minus the dot product of the centroids.
drift_of(w) ==
  1000 - (1000 * convo_total([t \in ConvoTopic |-> baselineSum[t] * window_counts(w)[t]]))
         \div (baseline_count * Len(w))

recommendation(drift, velocity) ==
  IF drift > 300 \/ velocity > 100 THEN "RetrainOrRollback"
  ELSE IF drift > 150 THEN "IncreaseMonitoring" ELSE "Maintain"

\* The baseline comes first; no report while it is filled.
pushed_conversation(t) ==
  /\ Len(conversations) < MaxConversations
  /\ conversations' = Append(conversations, t) /\ convoWindow' = push_window(convoWindow, t)
  /\ IF baseline_count < BaselineSize
     THEN /\ baselineSum' = [baselineSum EXCEPT ![t] = @ + 1]
          /\ report' = "none" /\ UNCHANGED prevDrift
     ELSE /\ prevDrift' = drift_of(convoWindow')
          /\ report' = recommendation(prevDrift', prevDrift' - prevDrift)
          /\ UNCHANGED baselineSum
  /\ UNCHANGED detector

conversation_push == detector = "conversation" /\ \E t \in ConvoTopic : pushed_conversation(t)

behavior_push == detector = "behavior" /\ \E t \in ConvoTopic : pushed_conversation(t)

ConvoNext == conversation_push \/ behavior_push

---------------------------------------------------------------------------
(* Properties. *)

\* validate denies on anything but Maintain.
convo_denied == report \in {"IncreaseMonitoring", "RetrainOrRollback"}

uniform(s, t) == \A i \in DOMAIN s : s[i] = t
first_conversations == SubSeq(conversations, 1, BaselineSize)
last_conversations == SubSeq(conversations, Len(conversations) - ConvoWindow + 1, Len(conversations))

\* An agent whose baseline was all of one kind is let through again once its
\* last ConvoWindow conversations are of that kind, whatever it was denied
\* for before.
DriftIsForgotten ==
  \A t \in ConvoTopic :
    report # "none" /\ uniform(first_conversations, t) /\ uniform(last_conversations, t) => ~convo_denied

\* Such an agent is denied once none of its last conversations is of that
\* kind, however slowly it moved away: the baseline never follows it.
SlowDriftIsCaught ==
  \A t \in ConvoTopic :
    report # "none" /\ uniform(first_conversations, t)
    /\ (\A i \in DOMAIN last_conversations : last_conversations[i] # t) => report = "RetrainOrRollback"
=============================================================================
