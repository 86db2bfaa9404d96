--------------------------- MODULE Authentication ---------------------------
(***************************************************************************)
(* Who a caller is: signatures and nonces of agents, sessions of           *)
(* administrators.                                                         *)
(***************************************************************************)
EXTENDS Integers, FiniteSets

(***************************************************************************)
(* The signature and nonce checks a validate request passes on its way     *)
(* through the middleware and the handler.  A message is what the client   *)
(* sent; it may be delivered again, also while its first delivery is still *)
(* being handled.  Keys and signatures are right or wrong.                 *)
(***************************************************************************)

CONSTANTS
  Call, Message,        \* handler tasks, and the messages clients send
  SigMaxAge, NonceTtl, NonceSweep, MaxNonces,  \* 300, 300, 60 s and 50000
  MaxNow

ASSUME AuthAssumption == {SigMaxAge, NonceTtl, NonceSweep, MaxNonces, MaxNow} \subseteq Nat

VARIABLES
  now, auth_mode,
  nonces, last_sweep,   \* inserted nonces with their times
  authTask,                 \* where each call is, and with which message
  served                \* when a nonce last got past the checks, -1 before

authVars == <<now, auth_mode, nonces, last_sweep, authTask, served>>
nonceVars == <<nonces, last_sweep>>

Resting == [at |-> "idle"]
Nonce == {m.nonce : m \in Message}

AuthInit ==
  /\ now = 0 /\ auth_mode \in {"Hybrid", "Ed25519Only", "LegacyHmac"}
  /\ nonces = {} /\ last_sweep = 0
  /\ authTask = [c \in Call |-> Resting] /\ served = [n \in Nonce |-> -1]

AuthTypeOK ==
  /\ now \in 0..MaxNow /\ Cardinality(nonces) <= MaxNonces
  /\ \A n \in nonces : n.nonce \in Nonce /\ n.at <= now
  /\ served \in [Nonce -> -1..now]

---------------------------------------------------------------------------
(* Nonces. *)

fresh(ts) == ts - now <= SigMaxAge /\ now - ts <= SigMaxAge

MutSweepAll(n) == FALSE
young(n) == now - n.at < NonceTtl

swept == IF now - last_sweep > NonceSweep THEN {n \in nonces : young(n)} ELSE nonces

check_and_insert_nonce(n) ==
  /\ \A m \in swept : m.nonce # n
  /\ Cardinality(swept) < MaxNonces

\* The sweep happens whatever the answer; a refused nonce is not inserted.
nonce_looked_up(n) ==
  /\ last_sweep' = IF now - last_sweep > NonceSweep THEN now ELSE last_sweep
  /\ nonces' = IF check_and_insert_nonce(n) THEN swept \cup {[nonce |-> n, at |-> now]} ELSE swept

---------------------------------------------------------------------------
(* A validate request: middleware, then handler. *)

Arrive(c, m) ==
  /\ authTask[c] = Resting
  /\ authTask' = [authTask EXCEPT ![c] = [at |-> "middleware", msg |-> m]]
  /\ UNCHANGED <<now, auth_mode, nonceVars, served>>

answer(c) == authTask' = [authTask EXCEPT ![c] = Resting]

\* With all four signature headers the signature is verified here, after the
\* nonce is used up; without them the request goes through.
verify_ed25519_request_sig(m) == fresh(m.ts) /\ check_and_insert_nonce(m.nonce) /\ m.sig

security_middleware(c) ==
  /\ authTask[c].at = "middleware"
  /\ LET m == authTask[c].msg IN
     /\ IF m.ed25519 /\ fresh(m.ts) THEN nonce_looked_up(m.nonce) ELSE UNCHANGED nonceVars
     /\ IF m.ed25519 => verify_ed25519_request_sig(m)
        THEN authTask' = [authTask EXCEPT ![c].at = "handler"]
        ELSE answer(c)
     /\ served' = IF m.ed25519 /\ verify_ed25519_request_sig(m)
                  THEN [served EXCEPT ![m.nonce] = now] ELSE served
  /\ UNCHANGED <<now, auth_mode>>

require_legacy_hmac(m) ==
  \/ auth_mode = "LegacyHmac"
  \/ auth_mode = "Hybrid" /\ ~m.ed25519

accepts_headers(m) == (auth_mode = "Ed25519Only" => m.ed25519) /\ m.key

validate_request(c) ==
  /\ authTask[c].at = "handler"
  /\ LET m == authTask[c].msg
         looks == accepts_headers(m) /\ require_legacy_hmac(m) /\ fresh(m.ts)
         good == looks /\ check_and_insert_nonce(m.nonce) /\ m.sig
     IN /\ IF looks THEN nonce_looked_up(m.nonce) ELSE UNCHANGED nonceVars
        /\ served' = IF good /\ m.org THEN [served EXCEPT ![m.nonce] = now] ELSE served
  /\ answer(c)
  /\ UNCHANGED <<now, auth_mode>>

PassSecond ==
  /\ now < MaxNow /\ now' = now + 1
  /\ UNCHANGED <<auth_mode, nonceVars, authTask, served>>

AuthNext ==
  \/ \E c \in Call :
       (\E m \in Message : Arrive(c, m)) \/ security_middleware(c) \/ validate_request(c)
  \/ PassSecond

AuthSpec == AuthInit /\ [][AuthNext]_authVars

---------------------------------------------------------------------------
(* Properties. *)

\* A message that is delivered again, in parallel or later, is not served
\* again before its nonce is NonceTtl seconds old.
NonceOncePerTtl ==
  [\A n \in Nonce : served'[n] # served[n] /\ served[n] # -1 =>
       served'[n] - served[n] >= NonceTtl]_authVars

(***************************************************************************)
(* Administrators of the API: logins against the accounts table, session   *)
(* tokens that carry their own expiry, and the registry of agents that     *)
(* requests with an admin key or a session change.  A session is not kept  *)
(* on the server; logging out does nothing to it.                          *)
(***************************************************************************)

CONSTANTS
  AdminUser, RegAgent, NoAgent,
  SessionExpiry, Leeway,  \* eight hours, and the leeway of the token library
  AdminHeaders,           \* the key credentials requests may carry
  MaxHours

ASSUME AdminAssumption ==
  {SessionExpiry, Leeway, MaxHours} \subseteq Nat /\ NoAgent \notin RegAgent

VARIABLES
  hour,
  admin_active,         \* accounts that are admin_active
  inactiveSince,  \* when an account was switched off, -1 while it is admin_active
  sessions,       \* tokens handed out
  registered,     \* the agent registry
  acted           \* when an administrator last changed the registry under a session

adminVars == <<hour, admin_active, inactiveSince, sessions, registered, acted>>

AdminInit ==
  /\ hour = 0 /\ admin_active \in SUBSET AdminUser
  /\ inactiveSince = [a \in AdminUser |-> IF a \in admin_active THEN -1 ELSE 0]
  /\ sessions = {} /\ registered = {} /\ acted = [a \in AdminUser |-> -1]

AdminTypeOK ==
  /\ registered \subseteq RegAgent /\ admin_active \subseteq AdminUser
  /\ \A s \in sessions : s.sub \in AdminUser /\ s.exp <= hour + SessionExpiry

---------------------------------------------------------------------------

unexpired(s) == hour <= s.exp + Leeway

verify_admin_session_jwt(s) == s \in sessions /\ unexpired(s)

find_and_verify_backend(a, pw) == a \in admin_active /\ pw
issue_admin_session_jwt(a) == [sub |-> a, exp |-> hour + SessionExpiry]

admin_login(a, pw) ==
  /\ find_and_verify_backend(a, pw)
  /\ sessions' = sessions \cup {issue_admin_session_jwt(a)}
  /\ UNCHANGED <<hour, admin_active, inactiveSince, registered, acted>>

\* An account is switched off in the database; its sessions live on.
Deactivate(a) ==
  /\ a \in admin_active
  /\ admin_active' = admin_active \ {a} /\ inactiveSince' = [inactiveSince EXCEPT ![a] = hour]
  /\ UNCHANGED <<hour, sessions, registered, acted>>

by_session(h) == \E s \in sessions : s = h.session /\ verify_admin_session_jwt(s)

\* The key needs the second factor and the listed address; a session does not.
require_admin_mfa(h) ==
  \/ by_session(h)
  \/ h.key /\ h.totp /\ h.ip

change_registry(h, agents) ==
  /\ require_admin_mfa(h) /\ registered' = agents
  /\ acted' = IF by_session(h) THEN [acted EXCEPT ![h.session.sub] = hour] ELSE acted
  /\ UNCHANGED <<hour, admin_active, inactiveSince, sessions>>

admin_register_agent(h, a) == a # NoAgent /\ change_registry(h, registered \cup {a})
admin_unregister_agent(h, a) == a # NoAgent /\ change_registry(h, registered \ {a})

admin_headers == AdminHeaders \cup
  {[key |-> FALSE, totp |-> FALSE, ip |-> FALSE, session |-> s] : s \in sessions}

\* bootstrap_if_configured switches the configured account on at start.
bootstrap_if_configured(a) ==
  /\ hour = 0 /\ a \notin admin_active
  /\ admin_active' = admin_active \cup {a} /\ inactiveSince' = [inactiveSince EXCEPT ![a] = -1]
  /\ UNCHANGED <<hour, sessions, registered, acted>>

PassHour == hour < MaxHours /\ hour' = hour + 1 /\ UNCHANGED <<admin_active, inactiveSince, sessions, registered, acted>>

AdminNext ==
  \/ \E a \in AdminUser :
       (\E pw \in BOOLEAN : admin_login(a, pw)) \/ Deactivate(a) \/ bootstrap_if_configured(a)
  \/ \E h \in admin_headers, a \in RegAgent \cup {NoAgent} :
       admin_register_agent(h, a) \/ admin_unregister_agent(h, a)
  \/ PassHour

AdminSpec == AdminInit /\ [][AdminNext]_adminVars

---------------------------------------------------------------------------
(* Properties. *)

\* An administrator whose account is switched off changes nothing any more
\* once the last session they could hold has run out.
AdminPowerExpires ==
  \A a \in AdminUser : inactiveSince[a] # -1 /\ acted[a] # -1 =>
    acted[a] <= inactiveSince[a] + SessionExpiry + Leeway
=============================================================================
