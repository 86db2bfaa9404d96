-------------------------- MODULE CognitiveMonitor --------------------------
(***************************************************************************)
(* The cognitive monitor: from a reasoning trace to its measurements, and  *)
(* from those to a verdict.                                                *)
(***************************************************************************)
EXTENDS Integers, FiniteSetsExt, Sequences, SequencesExt, FiniteSets

(***************************************************************************)
(* The verdict of the cognitive monitor on a reasoning trace: triage, the  *)
(* context classifier, the tier and confidence of the nearest-neighbour    *)
(* detector, and the scan that puts the signals together.  All of it is    *)
(* pure arithmetic on what was measured on the text, so the measurements   *)
(* are the state.  Similarities and percentiles are in thousandths; a      *)
(* percentile of -1 says that there are too few references for one.        *)
(***************************************************************************)

CONSTANTS Similarities, PatternScores, Percentiles, ResearchScores, IntentScores, CueCounts

VARIABLE evidence
verdictVars == <<evidence>>

Uncalibrated == -1
Whole == 1000000000    \* the number 1 in the scan's arithmetic

Evidence ==
  [centroid : Similarities, text_sim : {0, 560, 660}, pattern : PatternScores, percentile : Percentiles \cup {Uncalibrated},
   agent_percentile : {Uncalibrated, 960}, operational : BOOLEAN, academic : BOOLEAN,
   research : ResearchScores, intent : IntentScores, cues : CueCounts,
   defensive : BOOLEAN, escalation : BOOLEAN, confusables : {0, 1, 3}, lexical : BOOLEAN]

\* The whole text is one of the segments; without a percentile of its own an
\* agent is measured against the shared references.
VerdictInit ==
  \E e \in Evidence :
    /\ e.text_sim <= e.centroid
    /\ e.agent_percentile # Uncalibrated => e.percentile = Uncalibrated
    /\ evidence = e

VerdictNext == UNCHANGED verdictVars

---------------------------------------------------------------------------
(* Context: strong operational phrases win, then strong academic ones, then *)
(* the two scores.  Agency markers are what the intent score counts.        *)

classify_context(e) ==
  IF e.operational THEN "Operational"
  ELSE IF \/ e.academic /\ (e.intent = 0 \/ e.research > 2 * e.intent)
          \/ 2 * e.research > 3 * e.intent /\ e.research > 3
       THEN "Academic"
  ELSE IF 5 * e.intent > 6 * e.research THEN "Operational" ELSE "Mixed"

percent_kept(ctx, raw) ==
  CASE ctx = "Operational" -> 100
    [] ctx = "Mixed" -> 90
    [] raw > 75000 -> 85
    [] raw > 50000 -> 65
    [] OTHER -> 40

\* From hundred-thousandths to ten-millionths.
adjust_confidence(raw, ctx) == raw * percent_kept(ctx, raw)

---------------------------------------------------------------------------
(* The detector's answer.  The percentile is the agent's own when it has    *)
(* enough references, else the shared one, else a proxy of the pattern      *)
(* score.                                                                   *)

calibrated(e) == {e.agent_percentile, e.percentile} # {Uncalibrated}

percentile_of(e) ==
  IF e.agent_percentile # Uncalibrated THEN e.agent_percentile
  ELSE IF e.percentile # Uncalibrated THEN e.percentile
  ELSE (e.pattern * 8) \div 10

context_thresholds(ctx) ==
  CASE ctx = "Academic" -> [crit |-> 960, med |-> 900, crit_pct |-> 990, med_pct |-> 970]
    [] ctx = "Mixed" -> [crit |-> 880, med |-> 750, crit_pct |-> 970, med_pct |-> 930]
    [] ctx = "Operational" -> [crit |-> 850, med |-> 700, crit_pct |-> 950, med_pct |-> 900]

tier_of(e, ctx) ==
  LET t == context_thresholds(ctx)
      pct == percentile_of(e)
      above(limit, limit_pct) ==
        e.pattern > limit \/ (e.pattern > limit - 150 /\ pct >= limit_pct)
  IN  IF above(t.crit, t.crit_pct) THEN "Critical"
      ELSE IF (pct >= 995 /\ ctx # "Academic") \/ above(t.med, t.med_pct) THEN "Medium"
      ELSE "None"

\* In ten-thousandths.
combined_confidence(e) ==
  LET weight == IF calibrated(e) THEN 7 ELSE 2
  IN  Min({percentile_of(e) * weight + e.pattern * (10 - weight), 10000})

MutTierWeight(tier) == CASE tier = "Critical" -> 4 [] tier = "Medium" -> 9 [] OTHER -> 4
tier_weight(tier) == CASE tier = "Critical" -> 10 [] tier = "Medium" -> 9 [] OTHER -> 4

---------------------------------------------------------------------------
(* The scan.                                                                *)

malicious_lexical_signal(cues) == Min({cues * 80, 320})
confusable_boost(count) == Min({count * 100, 250})

\* 3a, 3b: cues count and no dampening applies unless the text is defensive
\* research; an escalation takes that privilege away.
softened(e, best) ==
  LET privileged == e.defensive /\ ~e.escalation
      signal == IF e.lexical THEN malicious_lexical_signal(e.cues) * 10000 ELSE 0
  IN  IF privileged THEN best * 75 ELSE Min({best + signal, 10000000}) * 100

boosted(best, boost) == Min({best + boost * 1000000, Whole})

score_in(e, ctx) ==
  LET onnx_score == combined_confidence(e) * tier_weight(tier_of(e, ctx))
      best == adjust_confidence(Max({e.centroid * 100, onnx_score}), ctx)
      escalated == boosted(softened(e, best), IF e.escalation THEN 150 ELSE 0)
  IN  boosted(escalated, confusable_boost(e.confusables))

Proceed == 0
Flagged == 1
HaltAndClarify == 2

verdict_in(e, ctx) ==
  LET s == score_in(e, ctx)
  IN  IF s >= 650000000 THEN HaltAndClarify ELSE IF s >= 450000000 THEN Flagged ELSE Proceed

deep_scan(e) == verdict_in(e, classify_context(e))

\* The lexical part of triage needs no more than the cues; the weighted score
\* it also adds up is positive only when a phrase has matched already.
triage_limit == 550
triage(e) == IF e.cues > 0 \/ e.text_sim > triage_limit THEN "DeepScanRequired" ELSE "FastPath"

---------------------------------------------------------------------------
(* Properties                                                               *)

Strength == {"centroid", "pattern", "percentile", "cues", "escalation", "confusables"}
Raised(e, f) ==
  CASE f = "centroid" -> {[e EXCEPT !.centroid = v] : v \in {s \in Similarities : s > e.centroid}}
    [] f = "pattern" -> {[e EXCEPT !.pattern = v] : v \in {s \in PatternScores : s > e.pattern}}
    [] f = "percentile" ->
         {[e EXCEPT !.percentile = v] :
            v \in {s \in Percentiles : e.percentile # Uncalibrated /\ s > e.percentile}}
    [] f = "cues" -> {[e EXCEPT !.cues = v] : v \in {s \in CueCounts : s > e.cues}}
    [] f = "escalation" -> {[e EXCEPT !.escalation = v] : v \in {TRUE} \ {e.escalation}}
    [] f = "confusables" -> {[e EXCEPT !.confusables = v] : v \in {3} \ {e.confusables}}

\* Stronger evidence never weakens the verdict: with the text's context
\* fixed, a higher similarity, pattern score or percentile, more cues, an
\* escalation or more confusables leave deep_scan's verdict at least as
\* severe, through all the tier, weight and dampening steps.
EvidenceIsMonotone ==
  \A f \in Strength :
    \A e \in Raised(evidence, f) : deep_scan(e) >= deep_scan(evidence)

\* The context only softens: on the same measurements an academic reading is
\* never stricter than a mixed one, nor a mixed one than an operational one,
\* though the context enters twice, in the detector's tier and in
\* adjust_confidence.
ContextOnlySoftens ==
  /\ verdict_in(evidence, "Academic") <= verdict_in(evidence, "Mixed")
  /\ verdict_in(evidence, "Mixed") <= verdict_in(evidence, "Operational")

\* A text that is both academic and defensive research, without escalation or
\* confusable letters, is never halted, however certain every detector is:
\* the two reductions together keep a score of 1 just below the halt
\* threshold, though adjust_confidence means to "preserve very high
\* confidence detection".
ResearchNeverHalts ==
  /\ classify_context(evidence) = "Academic" /\ evidence.defensive
  /\ ~evidence.escalation /\ evidence.confusables = 0
  => deep_scan(evidence) # HaltAndClarify

\* Triage lets through nothing that the scan would halt for the similarity
\* of the whole text alone: its limit lies below every halting similarity.
TriageReachesHalts ==
  LET alone == [evidence EXCEPT !.centroid = evidence.text_sim, !.pattern = 0, !.confusables = 0,
                                !.percentile = Uncalibrated, !.agent_percentile = Uncalibrated,
                                !.escalation = FALSE]
  IN  deep_scan(alone) = HaltAndClarify => triage(evidence) = "DeepScanRequired"

(***************************************************************************)
(* How the cognitive monitor takes a reasoning trace apart, all pure:       *)
(* normalisation of the text, the word windows that are scored one by one,  *)
(* and the comparison of a conversation's later turns with its earlier      *)
(* ones.  A text is a sequence of characters of a few classes; for the      *)
(* windows only the number of words matters, for the turns only their       *)
(* scores, in hundredths.                                                   *)
(***************************************************************************)

CONSTANTS MaxChars, MaxWords, MaxTurns

VARIABLES
  trace,      \* a text, as a sequence of characters
  phrase,     \* [words, first, last]: a phrase of a text of so many words
  turns       \* the scores of the turns of a conversation

traceVars == <<trace, phrase, turns>>

(* "l" is a plain letter, "L" a look-alike of it, "z" a zero-width          *)
(* character, " " any space and "-" any other visible character.            *)
Char == {"l", "L", "z", " ", "-"}

TraceInit ==
  \/ /\ trace \in SeqOf(Char, MaxChars) /\ phrase = [words |-> 1, first |-> 1, last |-> 1] /\ turns = <<>>
  \/ /\ phrase \in [words : 1 .. MaxWords, first : 1 .. MaxWords, last : 1 .. MaxWords]
     /\ phrase.first <= phrase.last /\ phrase.last <= phrase.words
     /\ trace = <<>> /\ turns = <<>>
  \/ /\ turns \in SeqOf({0, 30, 33, 34, 60}, MaxTurns)
     /\ trace = <<>> /\ phrase = [words |-> 1, first |-> 1, last |-> 1]

TraceNext == UNCHANGED traceVars

---------------------------------------------------------------------------
(* normalize_text_ex: map every character, dropping the zero-width ones,    *)
(* then merge each run of two or more one-letter words.                     *)

mapped(c) == CASE c = "L" -> <<"l">> [] c = "z" -> <<>> [] OTHER -> <<c>>

confusable_count(text) == Len(SelectSeq(text, LAMBDA c : c = "L"))

split_whitespace(text) ==
  LET ended == FoldLeft(LAMBDA acc, c :
                  IF c = " " THEN [words |-> Append(acc.words, acc.word), word |-> <<>>]
                  ELSE [acc EXCEPT !.word = Append(@, c)],
                [words |-> <<>>, word |-> <<>>], text)
  IN  SelectSeq(Append(ended.words, ended.word), LAMBDA w : w # <<>>)

is_lone_letter(w) == w = <<"l">>

\* A word joins the one before it when both are lone letters of one run.
merge_lone(acc, w) ==
  IF acc.run /\ is_lone_letter(w) THEN [words |-> Append(Front(acc.words), Last(acc.words) \o w), run |-> TRUE]
  ELSE [words |-> Append(acc.words, w), run |-> is_lone_letter(w)]

normalize_text_ex(text) ==
  FoldLeft(merge_lone, [words |-> <<>>, run |-> FALSE],
           split_whitespace(FlattenSeq([i \in DOMAIN text |-> mapped(text[i])]))).words

---------------------------------------------------------------------------
(* segmentation_windows: windows of 12 words every 5 words, and the tail.   *)
(* A long text is also scored whole and by sentences, which is left out.     *)

WINDOW == 12
STRIDE == 5

window_starts(words) == {1 + k * STRIDE : k \in 0 .. words} \cap 1 .. (words - WINDOW + 1)

segmentation_windows(words) ==
  IF words <= WINDOW THEN {<<1, words>>}
  ELSE {<<s, s + WINDOW - 1>> : s \in window_starts(words)} \cup {<<words - WINDOW + 1, words>>}

---------------------------------------------------------------------------
(* detect_multi_turn_escalation.                                            *)

peak(scores) == Max({0} \cup ToSet(scores))

min_turns == 3

detect_multi_turn_escalation(scores) ==
  LET mid == Len(scores) \div 2
  IN  /\ Len(scores) >= min_turns
      /\ peak(SubSeq(scores, mid + 1, Len(scores))) > peak(SubSeq(scores, 1, mid)) + 3

---------------------------------------------------------------------------
(* Properties                                                               *)

joined(words) == FlattenSeq([i \in DOMAIN words |-> IF i = 1 THEN words[i] ELSE <<" ">> \o words[i]])

\* A disguise leaves no trace in what is scored: replacing look-alike letters
\* by the plain ones and removing zero-width characters first gives the same
\* normal form, wherever they stand among words and spaced-out letters.
DisguiseIsRemoved ==
  LET plain == [i \in DOMAIN trace |-> IF trace[i] = "L" THEN "l" ELSE trace[i]]
  IN  normalize_text_ex(SelectSeq(plain, LAMBDA c : c # "z")) = normalize_text_ex(trace)

\* A spaced-out word is put back together whole, and the normal form is
\* stable: normalize_text_ex leaves no two lone letters side by side, so that
\* normalising its result again changes nothing.
SpacedWordsRestored ==
  LET words == normalize_text_ex(trace)
  IN  /\ \A i \in 1 .. Len(words) - 1 : ~(is_lone_letter(words[i]) /\ is_lone_letter(words[i + 1]))
      /\ normalize_text_ex(joined(words)) = words

\* Every phrase of up to eight words lies whole in some scored window,
\* whatever the length of the text and wherever the phrase stands, its end
\* included: consecutive windows overlap by enough words.
PhraseInOneWindow ==
  phrase.last - phrase.first < 8 =>
    \E w \in segmentation_windows(phrase.words) : w[1] <= phrase.first /\ phrase.last <= w[2]

\* A last turn that is clearly worse than all before it counts as an
\* escalation in any conversation of three turns or more.
LateTurnEscalates ==
  /\ Len(turns) >= 3
  /\ Last(turns) > peak(Front(turns)) + 3
  => detect_multi_turn_escalation(turns)
=============================================================================
