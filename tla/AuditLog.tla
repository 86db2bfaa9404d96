----------------------------- MODULE AuditLog ------------------------------
(***************************************************************************)
(* The encrypted audit log of the API: request tasks append events to one  *)
(* file without a lock, a background task prunes it by writing a temporary *)
(* file and renaming it over the log, and a hash chain in memory takes     *)
(* every event first.  A file is its lines, the last one still open; a     *)
(* line is the events whose ciphertexts were written into it, and decrypts *)
(* only when it holds exactly one.                                         *)
(***************************************************************************)
EXTENDS Integers, Sequences, SequencesExt, FiniteSets

CONSTANTS AuditEvent, Retention, MaxAuditTime, MaxAuditLines,
          MaxAnswer,  \* the most events a request may ask for, 500
          MaxRestarts

VARIABLES
  auditClock, loggedAt,   \* the time, and each event's logged_at
  chainLog,               \* the entries behind the head of the hash chain
  appendStep,             \* where each append is
  attached,               \* the appends whose open file is still the log
  logFile,                \* the contents of the log
  tempFile,               \* the contents of the .tmp file
  pruneStep, pruneCutoff, pruneKept,
  restarts, settled

auditVars == <<auditClock, loggedAt, chainLog, appendStep, attached, logFile,
               tempFile, pruneStep, pruneCutoff, pruneKept, restarts, settled>>
pruneVars == <<tempFile, pruneStep, pruneCutoff, pruneKept>>

EmptyFile == << <<>> >>

AuditInit ==
  /\ auditClock = 0 /\ loggedAt = [e \in AuditEvent |-> 0] /\ chainLog = <<>>
  /\ appendStep = [e \in AuditEvent |-> "none"] /\ attached = {}
  /\ logFile = EmptyFile /\ tempFile = EmptyFile
  /\ pruneStep = "idle" /\ pruneCutoff = 0 /\ pruneKept = <<>>
  /\ restarts = 0 /\ settled = {}

AuditTypeOK ==
  /\ appendStep \in [AuditEvent -> {"none", "chained", "opened", "written", "done", "failed"}]
  /\ logFile \in Seq(Seq(AuditEvent)) /\ attached \subseteq AuditEvent
  /\ pruneStep \in {"idle", "read", "temp"} /\ settled \subseteq AuditEvent

\* BufRead::lines yields the open line only when something is in it.
lines_of(file) == IF Last(file) = <<>> THEN Front(file) ELSE file
decrypts(line) == Len(line) = 1
events_of(lines) ==
  LET good == SelectSeq(lines, decrypts) IN [i \in DOMAIN good |-> good[i][1]]
in_log == Range(events_of(lines_of(logFile)))

put(file, e) == [file EXCEPT ![Len(file)] = Append(@, e)]
newline(file) == Append(file, <<>>)
\* A file renamed over takes what is still written to it with it.
written(e, file) == logFile' = IF e \in attached THEN file ELSE logFile
at_append(e, from, to) == appendStep[e] = from /\ appendStep' = [appendStep EXCEPT ![e] = to]

---------------------------------------------------------------------------
(* append_audit_event: chain, encrypt, open, write the line, write \n. *)

pushed(e) == Append(chainLog, e)

append_audit_event(e) ==
  /\ at_append(e, "none", "chained")
  /\ loggedAt' = [loggedAt EXCEPT ![e] = auditClock]
  /\ chainLog' = pushed(e)
  /\ UNCHANGED <<auditClock, attached, logFile, pruneVars, restarts, settled>>

append_encrypted_line(e) ==
  /\ at_append(e, "chained", "opened")
  /\ attached' = attached \cup {e}
  /\ UNCHANGED <<auditClock, loggedAt, chainLog, logFile, pruneVars, restarts, settled>>

WriteLine(e) ==
  /\ at_append(e, "opened", "written")
  /\ written(e, put(logFile, e))
  /\ UNCHANGED <<auditClock, loggedAt, chainLog, attached, pruneVars, restarts, settled>>

\* The event is settled when its line came out whole, in the log itself, and
\* no pruning was under way.
WriteNewline(e) ==
  /\ at_append(e, "written", "done")
  /\ written(e, newline(logFile))
  /\ settled' = IF pruneStep = "idle" /\ e \in attached /\ Last(logFile) = <<e>>
                THEN settled \cup {e} ELSE settled
  /\ UNCHANGED <<auditClock, loggedAt, chainLog, attached, pruneVars, restarts>>

\* No key, or the file cannot be opened or written.
AppendFails(e) ==
  /\ appendStep[e] \in {"chained", "opened", "written"}
  /\ appendStep' = [appendStep EXCEPT ![e] = "failed"]
  /\ UNCHANGED <<auditClock, loggedAt, chainLog, attached, logFile, pruneVars, restarts, settled>>

---------------------------------------------------------------------------
(* prune_expired_audit_events: read, write the temporary file, rename. *)

expired(e, cutoff) == loggedAt[e] < cutoff

\* The worker starts the next pruning when the last one has come back.
worker_idle == pruneStep = "idle"

prune_expired_audit_events ==
  /\ worker_idle /\ pruneStep' = "read"
  /\ pruneCutoff' = auditClock - Retention
  /\ pruneKept' = SelectSeq(events_of(lines_of(logFile)),
                            LAMBDA e : ~expired(e, pruneCutoff'))
  /\ UNCHANGED <<auditClock, loggedAt, chainLog, appendStep, attached, logFile,
                 tempFile, restarts, settled>>

\* File::create truncates what an interrupted pruning left behind.
created(old) == EmptyFile

WriteTemp ==
  /\ pruneStep = "read" /\ pruneStep' = "temp"
  /\ tempFile' = FoldSeq(LAMBDA e, f : newline(put(f, e)), created(tempFile), Reverse(pruneKept))
  /\ UNCHANGED <<auditClock, loggedAt, chainLog, appendStep, attached, logFile,
                 pruneCutoff, pruneKept, restarts, settled>>

\* Appends that opened the old file go on writing to it.
RenameTemp ==
  /\ pruneStep = "temp" /\ pruneStep' = "idle"
  /\ logFile' = tempFile /\ tempFile' = EmptyFile /\ attached' = {}
  /\ pruneCutoff' = 0 /\ pruneKept' = <<>>
  /\ UNCHANGED <<auditClock, loggedAt, chainLog, appendStep, restarts, settled>>

PruneFails ==
  /\ pruneStep # "idle" /\ pruneStep' = "idle"
  /\ pruneCutoff' = 0 /\ pruneKept' = <<>>
  /\ UNCHANGED <<auditClock, loggedAt, chainLog, appendStep, attached, logFile,
                 tempFile, restarts, settled>>

---------------------------------------------------------------------------
(* The two readers.  Both take the first MaxAuditLines lines and go through *)
(* them backwards; the query steps over damaged lines before it counts.    *)

up_to(n, s) == SubSeq(s, 1, IF Len(s) < n THEN Len(s) ELSE n)
scanned == up_to(MaxAuditLines, lines_of(logFile))

read_recent_audit_events(n) == events_of(up_to(n, Reverse(scanned)))

query_audit_events(from, n) ==
  up_to(n, SelectSeq(events_of(Reverse(scanned)), LAMBDA e : loggedAt[e] >= from))

clamp(n) == IF n < 1 THEN 1 ELSE IF n > MaxAnswer THEN MaxAnswer ELSE n
admin_read_audit_log(n) == read_recent_audit_events(clamp(n))
audit_query(from, n) == query_audit_events(from, clamp(n))

---------------------------------------------------------------------------

AuditTick ==
  /\ auditClock < MaxAuditTime /\ auditClock' = auditClock + 1
  /\ UNCHANGED <<loggedAt, chainLog, appendStep, attached, logFile, pruneVars, restarts, settled>>

\* A restart keeps the files, a left-over temporary file included.
Restart ==
  /\ restarts < MaxRestarts /\ restarts' = restarts + 1
  /\ chainLog' = <<>> /\ pruneStep' = "idle" /\ pruneCutoff' = 0 /\ pruneKept' = <<>>
  /\ appendStep' = [e \in AuditEvent |->
       IF appendStep[e] \in {"none", "done"} THEN appendStep[e] ELSE "failed"]
  /\ UNCHANGED <<auditClock, loggedAt, attached, logFile, tempFile, settled>>

AuditNext ==
  \/ \E e \in AuditEvent : \/ append_audit_event(e) \/ append_encrypted_line(e)
                           \/ WriteLine(e) \/ WriteNewline(e) \/ AppendFails(e)
  \/ prune_expired_audit_events \/ WriteTemp \/ RenameTemp \/ PruneFails
  \/ AuditTick \/ Restart

AuditSpec == AuditInit /\ [][AuditNext]_auditVars

---------------------------------------------------------------------------
(* Properties. *)

\* An event whose line was completed, whole, while nothing pruned is in the
\* log for as long as it is within retention, whatever appends, prunings and
\* restarts follow.
SettledEventsKept ==
  \A e \in settled : auditClock - loggedAt[e] <= Retention => e \in in_log

\* Pruning rewrites the log, yet no event is ever in it twice, also after a
\* pruning that was cut short.
AuditEventsOnce == IsInjective(events_of(lines_of(logFile)))

\* Whatever this process wrote into the log went through the hash chain.
LogWithinChain ==
  restarts = 0 => in_log \subseteq Range(chainLog)

\* An answer shorter than its limit holds every readable event in the range
\* asked for, the damaged lines in between notwithstanding, and the recent
\* events are the beginning of what an unfiltered query answers.
QueryComplete ==
  logFile # EmptyFile /\ Len(lines_of(logFile)) <= MaxAuditLines =>
    \A from \in 0..MaxAuditTime, n \in 0..(MaxAnswer + 1) :
      LET reply == audit_query(from, n) IN
        /\ Len(reply) < clamp(n) => {e \in in_log : loggedAt[e] >= from} = Range(reply)
        /\ IsPrefix(admin_read_audit_log(n), audit_query(0, n))
=============================================================================
