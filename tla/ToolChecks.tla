----------------------------- MODULE ToolChecks -----------------------------
(***************************************************************************)
(* The checks of tools that keep no state: name patterns and the command   *)
(* line.                                                                   *)
(***************************************************************************)
EXTENDS Integers, Sequences, SequencesExt, FiniteSets, FiniteSetsExt

(***************************************************************************)
(* How tool names are matched with the patterns of a baseline inventory,   *)
(* by the guard and by its lite variant.  A name is a sequence of letters, *)
(* a pattern a sequence of letters and Star.                               *)
(***************************************************************************)

CONSTANTS Letter, Star, MaxName, MaxPattern

ASSUME PatternAssumption == Star \notin Letter /\ MaxName \in Nat /\ MaxPattern \in Nat

VARIABLES name, pattern,
  inventory   \* what the inventory has for the agent, its organisation and everybody

patternVars == <<name, pattern, inventory>>

Names == UNION {[1..n -> Letter] : n \in 1..MaxName}
Patterns == UNION {[1..n -> Letter \cup {Star}] : n \in 0..MaxPattern}

\* An entry lists the pattern, lists nothing, or is absent.
Inventories == {v \in [{"agent", "org", "global"} -> {"listed", "empty", "absent"}] : v["global"] # "absent"}

PatternInit == name \in Names /\ pattern \in Patterns /\ inventory \in Inventories
PatternNext == UNCHANGED patternVars
PatternSpec == PatternInit /\ [][PatternNext]_patternVars

---------------------------------------------------------------------------
(* The guard. *)

stars(p) == {i \in DOMAIN p : p[i] = Star}

\* The non-empty parts between the stars, by their first and last index.
between_stars(p, i, j) ==
  /\ i <= j /\ \A k \in i..j : p[k] # Star
  /\ (i = 1 \/ p[i - 1] = Star) /\ (j = Len(p) \/ p[j + 1] = Star)
parts(p) == {x \in (DOMAIN p) \X (DOMAIN p) : between_stars(p, x[1], x[2])}

occurs(v, part, k) ==
  k + Len(part) <= Len(v) /\ \A n \in DOMAIN part : v[k + n] = part[n]

found(v, part, offset) ==
  LET at == {k \in offset..Len(v) : occurs(v, part, k)}
  IN IF at = {} THEN -1 ELSE CHOOSE k \in at : \A l \in at : k <= l

in_order(p) == SetToSortSeq(parts(p), LAMBDA a, b : a[1] < b[1])
text(p, part) == SubSeq(p, part[1], part[2])

\* One part after the other, each at its first place behind the last one;
\* -1 when one is missing, or when the first is not where it is anchored.
scan(v, p) ==
  FoldLeftDomain(
    LAMBDA offset, n :
      LET t == text(p, in_order(p)[n])
          f == IF offset = -1 THEN -1 ELSE found(v, t, offset)
      IN IF f = -1 \/ (n = 1 /\ p[1] # Star /\ f # 0) THEN -1 ELSE f + Len(t),
    0, in_order(p))

ends_with(v, t) == Len(t) <= Len(v) /\ occurs(v, t, Len(v) - Len(t))

end_matches(v, p) == p[Len(p)] # Star => ends_with(v, text(p, Last(in_order(p))))

wildcard_matches(v, p) ==
  IF stars(p) = {} THEN v = p
  ELSE parts(p) = {} \/ (scan(v, p) # -1 /\ end_matches(v, p))

\* Empty patterns are filtered out before they are matched.
pattern_set_matches(v, p) == p # <<>> /\ wildcard_matches(v, p)

\* The entry of the agent decides, else that of the organisation, else the
\* common one if it lists anything; "none" lets every tool pass.
deciding_entry ==
  IF inventory["agent"] # "absent" THEN "agent"
  ELSE IF inventory["org"] # "absent" THEN "org"
  ELSE IF inventory["global"] = "listed" THEN "global" ELSE "none"

is_approved(v, p) ==
  deciding_entry # "none" => inventory[deciding_entry] = "listed" /\ pattern_set_matches(v, p)

---------------------------------------------------------------------------
(* The lite guard: a star counts at one end of the pattern only. *)

starts_with(v, t) == Len(t) <= Len(v) /\ occurs(v, t, 0)

wildcard_match(v, p) ==
  IF p = <<Star>> THEN TRUE
  ELSE IF p[Len(p)] = Star THEN starts_with(v, SubSeq(p, 1, Len(p) - 1))
  ELSE IF p[1] = Star THEN ends_with(v, Tail(p))
  ELSE v = p

pattern_matches(v, p) == IF stars(p) # {} THEN wildcard_match(v, p) ELSE v = p

lite_is_approved(v, p) ==
  deciding_entry # "none" => inventory[deciding_entry] = "listed" /\ pattern_matches(v, p)

---------------------------------------------------------------------------
(* Properties. *)

\* v[i..] is matched by p[j..]: a star stands for any run of letters.
glob[v \in Names, p \in Patterns] ==
  LET m[i \in 1..Len(v) + 1, j \in 1..Len(p) + 1] ==
        IF j > Len(p) THEN i > Len(v)
        ELSE IF p[j] = Star THEN m[i, j + 1] \/ (i <= Len(v) /\ m[i + 1, j])
        ELSE i <= Len(v) /\ v[i] = p[j] /\ m[i + 1, j + 1]
  IN m[1, 1]

\* The guard's search for the parts of a pattern, first place first, decides
\* exactly what a star in the usual sense means.
WildcardIsGlob == pattern # <<>> => (pattern_set_matches(name, pattern) <=> glob[name, pattern])

\* The lite guard approves no tool by an inventory that the guard would not
\* approve by the same inventory.
LiteApprovesNoMore == lite_is_approved(name, pattern) => is_approved(name, pattern)

(***************************************************************************)
(* The reduced command-line checks of MCP configurations and tools.  Pure; *)
(* a state is one invocation.  Of a server the model keeps how many of its *)
(* settings match each rule; of the baseline file whether it was given,    *)
(* can be read, and which tools it approves, globally or for one           *)
(* organisation.                                                           *)
(***************************************************************************)

CONSTANTS CliTool, MaxMatches

VARIABLE cliCase

NoBaseline == "none"
Broken == "unreadable"
Baseline == {[file |-> NoBaseline, tools |-> {}, orgTools |-> {}], [file |-> Broken, tools |-> {}, orgTools |-> {}]}
              \cup [file : {"read"}, tools : SUBSET CliTool, orgTools : SUBSET CliTool]

\* Matches of blocked patterns in command and arguments, of literal secrets
\* in the environment, and of URLs in the arguments.
ServerConfig == [command : 0..MaxMatches, args : 0..MaxMatches, env : 0..MaxMatches, urls : 0..MaxMatches]
NoServer == [command |-> 0, args |-> 0, env |-> 0, urls |-> 0]

ScanCase == [kind : {"scan"}, server : ServerConfig, name : CliTool, baseline : Baseline]
CheckCase == [kind : {"check"}, name : CliTool, blocked : BOOLEAN, baseline : Baseline, failOpen : BOOLEAN]

CliInit == cliCase \in ScanCase \cup CheckCase
CliNext == UNCHANGED cliCase

is_tool_approved(baseline, tool) == tool \in baseline.tools \cup baseline.orgTools

---------------------------------------------------------------------------
(* scan: the issues of a server by severity; an unreadable baseline is no  *)
(* baseline.                                                               *)

scan_issues(server, tool, baseline) ==
  [critical |-> server.command, high |-> server.args + server.env,
   medium |-> IF baseline.file = "read" /\ ~is_tool_approved(baseline, tool) THEN 1 ELSE 0,
   low |-> server.urls]

risk_score(issues) == 10 * issues.critical + 5 * issues.high + 2 * issues.medium

\* 3 blocked, 2 warning, 1 advisory, 0 clean.
scan_verdict(issues) ==
  IF issues.critical > 0 THEN 3 ELSE IF issues.high > 0 THEN 2 ELSE IF issues.medium > 0 THEN 1 ELSE 0

scan_exit(issues) == IF issues.critical > 0 THEN 1 ELSE 0

---------------------------------------------------------------------------
(* check: a decision, or an error when the baseline cannot be read. *)

check_issues(c) ==
  (IF c.blocked THEN {"blocked_pattern"} ELSE {})
    \cup (IF c.baseline.file = "read" /\ ~is_tool_approved(c.baseline, c.name) THEN {"not_in_baseline"} ELSE {})
    \cup (IF c.baseline.file = NoBaseline /\ ~c.failOpen THEN {"no_baseline"} ELSE {})

check_tool(c) ==
  IF c.baseline.file = Broken THEN "error" ELSE IF check_issues(c) = {} THEN "allow" ELSE "block"

check_exit(c) == IF check_tool(c) = "allow" THEN 0 ELSE 1
check_handler(c) == IF check_tool(c) = "error" THEN 400 ELSE 200

---------------------------------------------------------------------------
(* Properties. *)

at_least(s, t) == \A f \in DOMAIN s : s[f] >= t[f]

\* A configuration with more matches never gets a better verdict, a lower
\* risk score or a cleaner exit code; the exit code is 1 exactly when the
\* verdict is "blocked".
ScanIsMonotone ==
  cliCase.kind = "scan" =>
    LET issues(s) == scan_issues(s, cliCase.name, cliCase.baseline)
        mine == issues(cliCase.server)
    IN /\ scan_exit(mine) = 1 <=> scan_verdict(mine) = 3
       /\ \A s \in ServerConfig : at_least(s, cliCase.server) =>
            scan_verdict(issues(s)) >= scan_verdict(mine) /\ risk_score(issues(s)) >= risk_score(mine)

\* A tool is let through only when a baseline that could be read approves
\* it, or when none was given and failing open was asked for; and what the
\* check lets through the scan does not report as unknown.
CheckFailsClosed ==
  cliCase.kind = "check" /\ check_exit(cliCase) = 0 =>
    /\ \/ cliCase.baseline.file = "read" /\ is_tool_approved(cliCase.baseline, cliCase.name)
       \/ cliCase.baseline.file = NoBaseline /\ cliCase.failOpen
    /\ check_handler(cliCase) = 200
    /\ scan_issues(NoServer, cliCase.name, cliCase.baseline).medium = 0
=============================================================================
