---------------------------- MODULE ProbeManager ----------------------------
(***************************************************************************)
(* The eBPF probe manager of the kernel build: start loads an object and   *)
(* attaches a kprobe for every configured syscall, block_comm arms the     *)
(* deny map.  Loading and attaching are the kernel's: any outcome.         *)
(***************************************************************************)
EXTENDS Integers, Sequences, FiniteSets

CONSTANTS Syscalls,      \* the configured syscalls, a sequence
          CommNames,     \* process names; they are cut to CommLength
          CommLength,
          MaxStarts      \* bound on the probeStarts

ASSUME ProbeAssumption == IsFiniteSet(DOMAIN Syscalls)

VARIABLES
  enforceDeny,           \* the configuration
  probesRunning, bpfLoaded,
  attachedTargets,       \* one outcome per syscall tried, in order
  blockedComms,          \* keys of the deny map of the loaded object
  probeEvents,           \* lifecycle events not yet polled
  acknowledged,          \* names block_comm accepted (auxiliary)
  probeStarts

probeVars == <<enforceDeny, probesRunning, bpfLoaded, attachedTargets, blockedComms, probeEvents, acknowledged, probeStarts>>

AttachOutcome == {"no_program", "not_kprobe", "load_failed", "no_symbol", "x64", "arm64", "plain"}
Symbols == {"x64", "arm64", "plain"}

ProbeInit ==
  /\ enforceDeny \in BOOLEAN /\ probesRunning = FALSE /\ bpfLoaded = FALSE
  /\ attachedTargets = <<>> /\ blockedComms = {} /\ probeEvents = {} /\ acknowledged = {} /\ probeStarts = 0

push_event(event) == probeEvents' = probeEvents \cup {event}

attached_count(targets) == Cardinality({i \in DOMAIN targets : targets[i] \in Symbols})

none_attached(targets) == attached_count(targets) = 0

\* A start that follows a failed one begins anew.
may_start == ~probesRunning

start_probes ==
  /\ probeStarts < MaxStarts /\ probeStarts' = probeStarts + 1
  /\ IF ~may_start
     THEN push_event("already_running") /\ UNCHANGED <<probesRunning, bpfLoaded, attachedTargets, blockedComms>>
     ELSE \/ /\ attachedTargets' = <<>> /\ push_event("load_failed")
             /\ UNCHANGED <<probesRunning, bpfLoaded, blockedComms>>
          \/ \E outcome \in [DOMAIN Syscalls -> AttachOutcome] :
               /\ attachedTargets' = outcome
               /\ IF none_attached(outcome)
                  THEN push_event("no_attachments") /\ probesRunning' = FALSE /\ UNCHANGED <<bpfLoaded, blockedComms>>
                  ELSE push_event("start_ok") /\ probesRunning' = TRUE /\ bpfLoaded' = TRUE /\ blockedComms' = {}
  /\ UNCHANGED <<enforceDeny, acknowledged>>

poll_events == probeEvents' = {} /\ UNCHANGED <<enforceDeny, probesRunning, bpfLoaded, attachedTargets, blockedComms, acknowledged, probeStarts>>

\* The key holds the first CommLength letters.
comm_key(comm) == SubSeq(comm, 1, IF Len(comm) < CommLength THEN Len(comm) ELSE CommLength)

block_comm(comm) ==
  /\ IF ~enforceDeny THEN push_event("block_refused") /\ UNCHANGED <<blockedComms, acknowledged>>
     ELSE IF ~bpfLoaded THEN UNCHANGED <<blockedComms, acknowledged, probeEvents>>
     ELSE /\ blockedComms' = blockedComms \cup {comm_key(comm)} /\ push_event("block_comm")
          /\ acknowledged' = acknowledged \cup {comm}
  /\ UNCHANGED <<enforceDeny, probesRunning, bpfLoaded, attachedTargets, probeStarts>>

enforcement_active == enforceDeny /\ probesRunning

ProbeNext == start_probes \/ poll_events \/ \E c \in CommNames : block_comm(c)
ProbeSpec == ProbeInit /\ [][ProbeNext]_probeVars

---------------------------------------------------------------------------
(* Properties. *)

\* When the status says that enforcement is active, an object is loaded and
\* a probe is attached: an operator never believes in enforcement that no
\* syscall reaches.
EnforcementIsBacked == enforcement_active => bpfLoaded /\ attached_count(attachedTargets) > 0

\* A name block_comm accepted stays in the deny map of the object that runs,
\* whatever probeStarts follow.
BlockedStaysBlocked == \A c \in acknowledged : comm_key(c) \in blockedComms
=============================================================================
