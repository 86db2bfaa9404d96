------------------------------- MODULE Signing ------------------------------
(***************************************************************************)
(* What carries a signature: the responses of the server and the tokens by *)
(* which agents delegate.                                                  *)
(***************************************************************************)
EXTENDS Integers, Sequences, FiniteSets

(***************************************************************************)
(* SigningService: responses are signed twice, under two separate read     *)
(* locks, while an administrator rotates the key under the write lock, and *)
(* clients have envelopes verified against a store of consumed nonces.  A  *)
(* key is a number; its key_id is right when it is the same number.        *)
(***************************************************************************)

CONSTANTS Response, Verifier, MaxRotations, SigningNonceTtl, MaxSigningTime

ASSUME SigningAssumption ==
  MaxRotations \in Nat /\ SigningNonceTtl \in Nat /\ MaxSigningTime \in Nat

VARIABLES
  backendKey, keyId, header,   \* ServiceInner
  writeLocked,                 \* a rotation holds the lock
  finalStep, envelope, cose,   \* finalize_response of each response
  merkleLeaves,
  nonceSeen,                   \* NonceStore: when a nonce was recorded, -1 if it is not there
  verifyStep, verifying, startedAt,
  acceptedFrom,                \* when the verification that accepted an envelope began
  signingClock

signerVars == <<backendKey, keyId, header, writeLocked>>
finalVars == <<finalStep, envelope, cose, merkleLeaves>>
verifyVars == <<nonceSeen, verifyStep, verifying, startedAt, acceptedFrom>>
signingVars == <<signerVars, finalVars, verifyVars, signingClock>>

Unsigned == [kid |-> -1, key |-> -1]

SigningInit ==
  /\ backendKey = 0 /\ keyId = 0 /\ header = 0 /\ writeLocked = FALSE
  /\ finalStep = [r \in Response |-> "decided"] /\ merkleLeaves = <<>>
  /\ envelope = [r \in Response |-> Unsigned] /\ cose = [r \in Response |-> Unsigned]
  /\ nonceSeen = [r \in Response |-> -1] /\ acceptedFrom = [r \in Response |-> -1]
  /\ verifyStep = [v \in Verifier |-> "idle"] /\ startedAt = [v \in Verifier |-> 0]
  /\ verifying \in [Verifier -> Response]
  /\ signingClock = 0

SigningTypeOK ==
  /\ backendKey \in 0..MaxRotations /\ keyId \in 0..MaxRotations /\ header \in 0..MaxRotations
  /\ finalStep \in [Response -> {"decided", "signed", "pushed", "done"}]
  /\ verifyStep \in [Verifier -> {"idle", "absent", "recorded"}]
  /\ nonceSeen \in [Response -> -1..MaxSigningTime]

---------------------------------------------------------------------------
(* rotate: a new key in the backend, then its id and header. *)

RotateKey ==
  /\ ~writeLocked /\ backendKey < MaxRotations
  /\ writeLocked' = TRUE /\ backendKey' = backendKey + 1
  /\ UNCHANGED <<keyId, header, finalVars, verifyVars, signingClock>>

RotateId ==
  /\ writeLocked /\ writeLocked' = FALSE
  /\ keyId' = backendKey /\ header' = backendKey
  /\ UNCHANGED <<backendKey, finalVars, verifyVars, signingClock>>

may_read == ~writeLocked

---------------------------------------------------------------------------
(* finalize_response. *)

at_final(r, from, to) == finalStep[r] = from /\ finalStep' = [finalStep EXCEPT ![r] = to]

sign(r) ==
  /\ at_final(r, "decided", "signed") /\ may_read
  /\ envelope' = [envelope EXCEPT ![r] = [kid |-> keyId, key |-> backendKey]]
  /\ UNCHANGED <<cose, merkleLeaves, signerVars, verifyVars, signingClock>>

push_leaf(r) ==
  /\ at_final(r, "signed", "pushed")
  /\ merkleLeaves' = Append(merkleLeaves, [response |-> r, key |-> envelope[r].key])
  /\ UNCHANGED <<envelope, cose, signerVars, verifyVars, signingClock>>

sign_decision(r) ==
  /\ at_final(r, "pushed", "done") /\ may_read
  /\ cose' = [cose EXCEPT ![r] = [kid |-> header, key |-> backendKey]]
  /\ UNCHANGED <<envelope, merkleLeaves, signerVars, verifyVars, signingClock>>

---------------------------------------------------------------------------
(* verify_and_consume: look for the nonce, record it, check the signature. *)

at_verify(v, from, to) == verifyStep[v] = from /\ verifyStep' = [verifyStep EXCEPT ![v] = to]

kept_nonce(at) == signingClock - at < SigningNonceTtl
evict_stale == [r \in Response |->
  IF nonceSeen[r] >= 0 /\ kept_nonce(nonceSeen[r]) THEN nonceSeen[r] ELSE -1]

verify_and_consume(v) ==
  /\ verifyStep[v] = "idle" /\ finalStep[verifying[v]] = "done"
  /\ nonceSeen' = evict_stale
  /\ verifyStep' = [verifyStep EXCEPT ![v] = IF nonceSeen'[verifying[v]] >= 0 THEN "idle" ELSE "absent"]
  /\ startedAt' = [startedAt EXCEPT ![v] = signingClock]
  /\ UNCHANGED <<verifying, acceptedFrom, signerVars, finalVars, signingClock>>

RecordNonce(v) ==
  /\ at_verify(v, "absent", "recorded")
  /\ nonceSeen' = [nonceSeen EXCEPT ![verifying[v]] = signingClock]
  /\ UNCHANGED <<verifying, startedAt, acceptedFrom, signerVars, finalVars, signingClock>>

\* The nonce stays consumed when the signature is not of the current key.
CheckSignature(v) ==
  /\ at_verify(v, "recorded", "idle") /\ may_read
  /\ acceptedFrom' = IF envelope[verifying[v]].key = backendKey
                     THEN [acceptedFrom EXCEPT ![verifying[v]] = startedAt[v]] ELSE acceptedFrom
  /\ UNCHANGED <<nonceSeen, verifying, startedAt, signerVars, finalVars, signingClock>>

SigningTick ==
  /\ signingClock < MaxSigningTime /\ signingClock' = signingClock + 1
  /\ UNCHANGED <<signerVars, finalVars, verifyVars>>

SigningNext ==
  \/ RotateKey \/ RotateId \/ SigningTick
  \/ \E r \in Response : sign(r) \/ push_leaf(r) \/ sign_decision(r)
  \/ \E v \in Verifier : verify_and_consume(v) \/ RecordNonce(v) \/ CheckSignature(v)

SigningSpec == SigningInit /\ [][SigningNext]_signingVars

---------------------------------------------------------------------------
(* Properties. *)

\* However a rotation falls between the signatures of a response, each of
\* them names the key that made it: key_id of the envelope, kid of the COSE
\* token.
SignaturesNameTheirKey ==
  \A r \in Response : envelope[r].kid = envelope[r].key /\ cose[r].kid = cose[r].key

\* A verification that starts within the nonce's lifetime after an accepted
\* one of the same envelope is refused at once.
ReplayRefused ==
  [\A v \in Verifier :
       LET r == verifying[v] IN
         verifyStep[v] = "idle" /\ verifyStep'[v] = "absent" /\ acceptedFrom[r] >= 0
         => signingClock - acceptedFrom[r] >= SigningNonceTtl]_signingVars

(***************************************************************************)
(* Chains of signed delegation tokens between agents.  A token is signed   *)
(* over all its fields with the key it carries; time passes while a chain  *)
(* is handed on.  A signature is the message it was made over.             *)
(***************************************************************************)

CONSTANTS Delegator, DelegationScope, Ttls, MaxDepth, LastDay

VARIABLES chain, day

delegationVars == <<chain, day>>

DelegationInit == chain = <<>> /\ day = 0

canonical(from, to, issued, expires, scope) == <<"A2A", from, to, issued, expires, scope>>

\* sign: the token carries the delegator's own key.
sign_token(from, to, scope, ttl) ==
  [delegator |-> from, delegatee |-> to, issued |-> day, expires |-> day + ttl, scope |-> scope,
   signature |-> canonical(from, to, day, day + ttl, scope)]

\* An agent delegates, or a chain is changed on its way: a token dropped or
\* a field replaced.
Delegate ==
  \E from, to \in Delegator, scope \in DelegationScope, ttl \in Ttls :
    /\ Len(chain) <= MaxDepth /\ chain' = Append(chain, sign_token(from, to, scope, ttl)) /\ UNCHANGED day

Disturb ==
  \E i \in DOMAIN chain :
    /\ \/ chain' = SubSeq(chain, 1, i - 1) \o SubSeq(chain, i + 1, Len(chain))
       \/ \E t \in Ttls : chain[i].expires + t <= LastDay + 1 /\ chain' = [chain EXCEPT ![i].expires = @ + t]
    /\ UNCHANGED day

NextDay == day < LastDay /\ day' = day + 1 /\ UNCHANGED chain

DelegationNext == Delegate \/ Disturb \/ NextDay

---------------------------------------------------------------------------
(* Verification. *)

signature_valid(token) == token.signature = canonical(token.delegator, token.delegatee, token.issued, token.expires, token.scope)

verify_token(token, time) == signature_valid(token) /\ ~(time > token.expires)

contiguous(tokens, i) == tokens[i - 1].delegatee = tokens[i].delegator

validate_chain(tokens, maxDepth, time) ==
  /\ tokens # <<>> /\ Len(tokens) <= maxDepth
  /\ \A i \in DOMAIN tokens : verify_token(tokens[i], time) /\ (i > 1 => contiguous(tokens, i))

terminal_agent(tokens) == tokens[Len(tokens)].delegatee

---------------------------------------------------------------------------
(* Properties. *)

\* In a valid chain the authority of the terminal agent flows unbroken from
\* the first delegator: every token was issued by the terminal agent of the
\* tokens before it, and every shorter chain is valid as well.
AuthorityFlows ==
  validate_chain(chain, MaxDepth, day) =>
    \A i \in 2..Len(chain) :
      LET prefix == SubSeq(chain, 1, i - 1) IN
        validate_chain(prefix, MaxDepth, day) /\ chain[i].delegator = terminal_agent(prefix)

\* A chain is valid at no time beyond the lifetime its issuers signed,
\* whatever was changed after signing.
ValidOnlyAsIssued ==
  \A t \in 0..(LastDay + 2) :
    validate_chain(chain, MaxDepth, t) => \A i \in DOMAIN chain : t <= chain[i].signature[5]
=============================================================================
