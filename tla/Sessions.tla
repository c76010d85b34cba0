------------------------------ MODULE Sessions ------------------------------
(***************************************************************************)
(* A desktop's Oracle session: the token pair it caches (desktop-client    *)
(* state.rs, auth/session.rs), the Oracle that issues, rotates and revokes *)
(* tokens (oracle api/auth.rs, auth.rs, services/app_state.rs), and the    *)
(* three places a revocation may be recorded: Redis, PostgreSQL or the     *)
(* process's memory.                                                       *)
(*                                                                         *)
(* Desktop commands run concurrently.  Each reads a snapshot of the        *)
(* session, talks to the Oracle without a lock and writes its result into  *)
(* whatever session exists when the answer arrives.  One lock acquisition, *)
(* one store access or one SQL statement is a step.                        *)
(***************************************************************************)
EXTENDS Integers, Sequences

CONSTANTS
  AccessLife,    \* life of an access token (1 hour)
  Margin,        \* a token this close to its end is refreshed (5 minutes)
  SessionLife,   \* life of a desktop session (24 hours)
  RefreshLife,   \* life of a refresh token (7 days)
  QrRefreshLife, \* life of a refresh token from a QR login (30 days)
  MaxTime,       \* bound: the last instant of the clock
  MaxPairs,      \* bound: token pairs issued
  MaxFaults,     \* bound: outages, restarts, lost answers and QR logins
  Calls,         \* slots for desktop commands running concurrently
  Empty,         \* the empty string oracle_logout stores as a token
  None

ASSUME SessionAssumption ==
  /\ AccessLife \in Nat \ {0} /\ Margin \in 0..AccessLife
  /\ SessionLife \in Nat /\ RefreshLife \in Nat /\ QrRefreshLife \in Nat
  /\ RefreshLife >= SessionLife /\ QrRefreshLife >= RefreshLife
  /\ MaxTime \in Nat /\ MaxPairs \in Nat /\ MaxFaults \in Nat
  /\ Empty \notin Int /\ None \notin Int /\ Empty # None

Ids == 1..MaxPairs
\* A pair of tokens: when it was issued, and whether by a QR login, whose
\* subject is an identity, not a row of users, and which is bound to the device
\* that approved it.
Pairs == [iat : Nat, qr : BOOLEAN]
Jtis == {"access", "refresh"} \X Ids
Entries == [jti : Jtis, until : Nat]
Stores == {"redis", "pg", "mem"}
SessionType == [exp : Nat, tok : Ids \cup {None, Empty}, texp : Nat, refr : Ids \cup {None}]
Kinds == {"expired", "proactive", "try", "status"}
Steps == {"idle", "lookup", "verify", "revoke", "issue", "answer", "failed", "drop",
          "use", "served", "forget", "clear", "login", "save", "poll", "store"}
CallType == [pc : Steps, kind : Kinds \cup {None}, logout : BOOLEAN,
             tok : Ids \cup {None, Empty}, texp : Nat,
             refr : Ids \cup {None}, new : Ids \cup {None}]

VARIABLES
  now,       \* the clock, the same for desktop and Oracle
  issued,    \* the token pairs issued, in order
  black,     \* store -> the revocations it holds
  redisUp,   \* does Redis answer?
  conn,      \* did the Oracle process connect to Redis when it started?
  pg,        \* does PostgreSQL answer?
  session,   \* the desktop's session
  call,      \* slot -> a desktop command
  authed,    \* WAS_EVER_ORACLE_AUTHED
  revoked,   \* history: the revocations made, and through which store
  disturbed, \* history: a fault, a QR login or two refreshes of one token
  faults

stores == <<black, redisUp, conn, pg>>
desktop == <<session, call, authed>>
history == <<revoked, disturbed, faults>>
vars == <<now, issued, black, redisUp, conn, pg, session, call, authed,
          revoked, disturbed, faults>>

Idle == [pc |-> "idle", kind |-> None, logout |-> FALSE,
         tok |-> None, texp |-> 0, refr |-> None, new |-> None]

\* Every variable has its type; a command names only pairs that were issued.
TypeOK ==
  /\ now \in 0..MaxTime
  /\ issued \in Seq(Pairs) /\ Len(issued) <= MaxPairs
  /\ black \in [Stores -> SUBSET Entries]
  /\ redisUp \in BOOLEAN /\ conn \in BOOLEAN /\ pg \in BOOLEAN
  /\ session \in SessionType \cup {None}
  /\ call \in [Calls -> CallType]
  /\ authed \in BOOLEAN
  /\ revoked \in SUBSET [jti : Jtis, via : Stores]
  /\ disturbed \in BOOLEAN /\ faults \in 0..MaxFaults

Init ==
  /\ now = 0 /\ issued = <<>>
  /\ black = [s \in Stores |-> {}]
  /\ redisUp = TRUE /\ conn = TRUE /\ pg = TRUE
  /\ session = None
  /\ call = [c \in Calls |-> Idle]
  /\ authed = FALSE
  /\ revoked = {} /\ disturbed = FALSE /\ faults = 0

-----------------------------------------------------------------------------
(* Tokens: Claims, verify_token *)

\* The pair a handler signs now.
NewPair(qr) == [iat |-> now, qr |-> qr]

Exp(jti) ==
  LET p == issued[jti[2]]
  IN p.iat + (IF jti[1] = "access" THEN AccessLife
              ELSE IF p.qr THEN QrRefreshLife ELSE RefreshLife)

\* is_expired is `now > exp': a token is good during its last second.
Valid(jti) == now <= Exp(jti)

-----------------------------------------------------------------------------
(* The blacklist *)

\* The connection manager exists only if Redis answered at startup.
RedisAnswers == conn /\ redisUp

\* Where blacklist_token writes: Redis, else PostgreSQL, else memory.
Route == IF RedisAnswers THEN "redis" ELSE IF pg THEN "pg" ELSE "mem"

\* Mutant of Blacklist: Redis keeps the entry for one second only.
BlacklistBriefly(jti, exp) ==
  /\ black' = [black EXCEPT ![Route] =
                 @ \cup {[jti |-> jti, until |-> IF Route = "redis" THEN now + 1 ELSE exp]}]
  /\ revoked' = revoked \cup {[jti |-> jti, via |-> Route]}

\* blacklist_token.  Redis drops the key after exp - now seconds, but at least
\* one.
Blacklist(jti, exp) ==
  LET until == IF Route = "redis" /\ exp <= now THEN now + 1 ELSE exp
  IN /\ black' = [black EXCEPT ![Route] = @ \cup {[jti |-> jti, until |-> until]}]
     /\ revoked' = revoked \cup {[jti |-> jti, via |-> Route]}

\* is_token_blacklisted.  When Redis answers it is believed; otherwise
\* PostgreSQL is asked for an unexpired row, and memory after it.
Blacklisted(jti) ==
  \/ RedisAnswers /\ \E e \in black["redis"] : e.jti = jti /\ now < e.until
  \/ /\ ~RedisAnswers
     /\ \/ pg /\ \E e \in black["pg"] : e.jti = jti /\ now < e.until
        \/ \E e \in black["mem"] : e.jti = jti

\* cleanup_expired, once a minute: memory keeps what is not over yet,
\* PostgreSQL loses what is past.
Cleanup ==
  LET kept == [black EXCEPT !["mem"] = {e \in @ : e.until > now},
                            !["pg"] = {e \in @ : pg => e.until >= now}]
  IN /\ kept # black /\ black' = kept
     /\ UNCHANGED <<now, issued, redisUp, conn, pg, desktop, history>>

-----------------------------------------------------------------------------
(* The desktop's session *)

HasSession == session # None /\ now <= session.exp
HasToken == HasSession /\ session.tok # None /\ now <= session.texp
NeedsRefresh == session.texp - now < Margin
TokenExpired == now > session.texp

Fault == faults < MaxFaults /\ faults' = faults + 1 /\ disturbed' = TRUE

Set(c, r) == call' = [call EXCEPT ![c] = r]
Goto(c, step) == call' = [call EXCEPT ![c].pc = step]
\* A command without a client any more: a logout still forgets the token.
Finish(c) == Set(c, IF call[c].logout THEN [Idle EXCEPT !.pc = "forget", !.logout = TRUE] ELSE Idle)

\* Mutant of SaveTokens: the expiry is counted backwards.
SaveTokensPast(i) ==
  session' = IF session = None THEN None
             ELSE [session EXCEPT !.tok = i, !.texp = now - AccessLife, !.refr = i]

\* Mutant of SaveTokens: the expiry is not moved on.
SaveTokensSameExpiry(i) ==
  session' = IF session = None THEN None
             ELSE [session EXCEPT !.tok = i, !.refr = i]

\* Mutant of SaveTokens: the refresh token is kept, as if it were not rotated.
SaveTokensKeepsRefresh(i) ==
  session' = IF session = None THEN None
             ELSE [session EXCEPT !.tok = i, !.texp = now + AccessLife,
                                  !.refr = IF @ = None THEN i ELSE @]

UpdateTokens(s, i) == [s EXCEPT !.tok = i, !.texp = now + AccessLife, !.refr = i]

\* save_oracle_tokens: into whatever session exists now.
SaveTokens(i) == session' = IF session = None THEN None ELSE UpdateTokens(session, i)

\* refresh_oracle_token_internal starts: POST /auth/refresh with the refresh
\* token that was read.  Two commands may carry the same one.
Carries(c) == call[c].pc \in {"verify", "revoke", "issue", "answer", "failed"}
Refresh(c, kind, logout) ==
  /\ LET sent == [Idle EXCEPT !.pc = "verify", !.kind = kind, !.logout = logout,
                     !.refr = session.refr]
     IN Set(c, IF kind # "proactive" THEN sent
               ELSE [sent EXCEPT !.tok = session.tok, !.texp = session.texp])
  /\ disturbed' = (disturbed \/ \E d \in Calls : Carries(d) /\ call[d].refr = session.refr)

\* With a client the command sends its request.  The only request that changes
\* what is modelled here is a logout's.
Use(c, tok, logout) ==
  Set(c, IF logout THEN [Idle EXCEPT !.pc = "use", !.tok = tok, !.logout = TRUE] ELSE Idle)

\* get_oracle_client_with_timeout on a snapshot of the session: use the token,
\* refresh it first, or drop it.  Without a session or a token the client has
\* no authorization and nothing changes.
GetClient(c, logout) ==
  /\ call[c].pc = "idle" /\ HasSession /\ session.tok # None
  /\ \/ TokenExpired /\ session.refr # None /\ Refresh(c, "expired", logout)
     \/ /\ TokenExpired /\ session.refr = None
        /\ Set(c, [Idle EXCEPT !.pc = "drop", !.logout = logout])
        /\ UNCHANGED disturbed
     \/ ~TokenExpired /\ NeedsRefresh /\ session.refr # None /\ Refresh(c, "proactive", logout)
     \/ /\ ~TokenExpired /\ (NeedsRefresh => session.refr = None)
        /\ Use(c, session.tok, logout) /\ UNCHANGED disturbed
  /\ UNCHANGED <<now, issued, stores, session, authed, revoked, faults>>

Request(c) == GetClient(c, FALSE)

\* try_refresh_oracle_token reads the refresh token of any session, expired or
\* not.
HasRefresh == session # None /\ session.refr # None
TryRefresh(c, kind) ==
  \/ HasRefresh /\ Refresh(c, kind, FALSE)
  \/ /\ ~HasRefresh
     /\ Set(c, [Idle EXCEPT !.pc = "failed", !.kind = kind])
     /\ UNCHANGED disturbed

\* has_oracle_token lets go of the session; try_refresh_oracle_token reads it
\* under a lock of its own, when it may have another token.
Lookup(c, kind) == Set(c, [Idle EXCEPT !.pc = "lookup", !.kind = kind])

LookupRefresh(c) ==
  /\ call[c].pc = "lookup" /\ TryRefresh(c, call[c].kind)
  /\ UNCHANGED <<now, issued, stores, session, authed, revoked, faults>>

\* create_authed_client: refresh first if the token is missing or expired.
AuthedClient(c) ==
  /\ call[c].pc = "idle" /\ ~HasToken /\ Lookup(c, "try")
  /\ UNCHANGED <<now, issued, stores, session, authed, history>>

\* oracle_refresh_token, whether or not the token is still good.
RefreshCommand(c) ==
  /\ call[c].pc = "idle" /\ TryRefresh(c, "try")
  /\ UNCHANGED <<now, issued, stores, session, authed, revoked, faults>>

\* get_oracle_auth_status, every 15 seconds.
AuthStatus(c) ==
  /\ call[c].pc = "idle"
  /\ \/ HasToken /\ authed' = TRUE /\ UNCHANGED call
     \/ ~HasToken /\ Lookup(c, "status") /\ UNCHANGED authed
  /\ UNCHANGED <<now, issued, stores, session, history>>

\* oracle_logout: tell the Oracle if there is a token, then forget it.  The
\* signed-in user asks for it once.
OracleLogout(c) ==
  /\ session # None /\ \A d \in Calls : ~call[d].logout
  /\ \/ HasToken /\ GetClient(c, TRUE)
     \/ /\ call[c].pc = "idle" /\ ~HasToken
        /\ Set(c, [Idle EXCEPT !.pc = "forget", !.logout = TRUE])
        /\ UNCHANGED <<now, issued, stores, session, authed, history>>

-----------------------------------------------------------------------------
(* POST /auth/refresh *)

\* verify_token and is_token_blacklisted.
RefreshVerify(c) ==
  /\ call[c].pc = "verify"
  /\ LET jti == <<"refresh", call[c].refr>>
     IN Goto(c, IF Valid(jti) /\ ~Blacklisted(jti) THEN "revoke" ELSE "failed")
  /\ UNCHANGED <<now, issued, stores, session, authed, history>>

RefreshRevoke(c) ==
  /\ call[c].pc = "revoke"
  /\ LET jti == <<"refresh", call[c].refr>> IN Blacklist(jti, Exp(jti))
  /\ Goto(c, "issue")
  /\ UNCHANGED <<now, issued, redisUp, conn, pg, session, authed, disturbed, faults>>

\* The role is read from users; an identity has no row there.  The new pair is
\* bound to no device.
RefreshIssue(c) ==
  /\ call[c].pc = "issue"
  /\ \/ /\ pg /\ ~issued[call[c].refr].qr /\ Len(issued) < MaxPairs
        /\ issued' = Append(issued, NewPair(FALSE))
        /\ call' = [call EXCEPT ![c].pc = "answer", ![c].new = Len(issued')]
     \/ /\ ~pg \/ issued[call[c].refr].qr
        /\ Goto(c, "failed") /\ UNCHANGED issued
  /\ UNCHANGED <<now, stores, session, authed, history>>

-----------------------------------------------------------------------------
(* The answer arrives at the desktop *)

RefreshAnswered(c) ==
  /\ call[c].pc = "answer"
  /\ SaveTokens(call[c].new)
  /\ Use(c, call[c].new, call[c].logout)
  /\ authed' = (authed \/ call[c].kind = "status")
  /\ UNCHANGED <<now, issued, stores, history>>

Without(s, fields) ==
  IF s = None THEN None
  ELSE [s EXCEPT !.tok = IF "tok" \in fields THEN None ELSE @,
                 !.texp = IF "tok" \in fields THEN 0 ELSE @,
                 !.refr = IF "refr" \in fields THEN None ELSE @]

\* The refresh failed: the tokens of the session are given up, whichever they
\* are by now.  A status check that finds the user signed out clears all.
RefreshFailed(c) ==
  /\ call[c].pc = "failed"
  /\ \/ /\ call[c].kind = "expired"
        /\ session' = Without(session, {"tok", "refr"})
        /\ Finish(c) /\ UNCHANGED authed
     \/ /\ call[c].kind = "proactive"
        /\ session' = Without(session, {"refr"})
        /\ IF now <= call[c].texp THEN Use(c, call[c].tok, call[c].logout)
           ELSE Set(c, [Idle EXCEPT !.pc = "drop", !.logout = call[c].logout])
        /\ UNCHANGED authed
     \/ call[c].kind = "try" /\ Set(c, Idle) /\ UNCHANGED <<session, authed>>
     \/ /\ call[c].kind = "status"
        /\ session' = (IF authed THEN None ELSE session)
        /\ authed' = FALSE /\ Set(c, Idle)
  /\ UNCHANGED <<now, issued, stores, history>>

\* An expired token that cannot be refreshed is dropped.
DropToken(c) ==
  /\ call[c].pc = "drop"
  /\ session' = Without(session, {"tok"})
  /\ Finish(c)
  /\ UNCHANGED <<now, issued, stores, authed, history>>

-----------------------------------------------------------------------------
(* An authenticated request *)

\* AuthenticatedUser: signature, expiry, blacklist and device.
Authenticate(c) ==
  /\ call[c].pc = "use"
  /\ IF /\ call[c].tok # Empty
        /\ Valid(<<"access", call[c].tok>>)
        /\ ~Blacklisted(<<"access", call[c].tok>>)
        /\ ~issued[call[c].tok].qr
     THEN Goto(c, "served") ELSE Finish(c)
  /\ UNCHANGED <<now, issued, stores, session, authed, history>>

\* POST /auth/logout revokes the access token for an hour.
Logout(c) ==
  /\ call[c].pc = "served"
  /\ Blacklist(<<"access", call[c].tok>>, now + AccessLife)
  /\ Finish(c)
  /\ UNCHANGED <<now, issued, redisUp, conn, pg, session, authed, disturbed, faults>>

\* oracle_logout ends with set_oracle_token(""), which fails without a session.
ForgetToken(c) ==
  /\ call[c].pc = "forget"
  /\ session' = IF session = None THEN None
                ELSE [session EXCEPT !.tok = Empty, !.texp = now + AccessLife]
  /\ authed' = (authed /\ session = None)
  /\ Goto(c, "clear")
  /\ UNCHANGED <<now, issued, stores, history>>

\* The user interface then calls logout: clear_session.
ClearSession(c) ==
  /\ call[c].pc = "clear"
  /\ session' = None /\ Set(c, Idle)
  /\ UNCHANGED <<now, issued, stores, authed, history>>

-----------------------------------------------------------------------------
(* Signing in *)

\* create_vaulted_wallet, restore_vaulted_wallet: a session without tokens,
\* then the identity login.  The screen for it shows while nobody is signed in.
SignIn(c) ==
  /\ call[c].pc = "idle" /\ session = None
  /\ \A d \in Calls : call[d].pc \notin {"login", "save"}
  /\ session' = [exp |-> now + SessionLife, tok |-> None, texp |-> 0, refr |-> None]
  /\ Set(c, [Idle EXCEPT !.pc = "login"])
  /\ UNCHANGED <<now, issued, stores, authed, history>>

\* POST /identity/token with a valid signature.
IdentityToken(c) ==
  /\ call[c].pc = "login" /\ pg /\ Len(issued) < MaxPairs
  /\ issued' = Append(issued, NewPair(FALSE))
  /\ call' = [call EXCEPT ![c].pc = "save", ![c].new = Len(issued')]
  /\ UNCHANGED <<now, stores, session, authed, history>>

SaveLogin(c) ==
  /\ call[c].pc = "save"
  /\ SaveTokens(call[c].new) /\ Set(c, Idle)
  /\ UNCHANGED <<now, issued, stores, authed, history>>

\* A phone has approved a QR login: the tokens name the identity and are bound
\* to the device that approved.
QrApproved(c) ==
  /\ call[c].pc = "idle" /\ Len(issued) < MaxPairs
  /\ issued' = Append(issued, NewPair(TRUE))
  /\ Set(c, [Idle EXCEPT !.pc = "poll", !.new = Len(issued')])
  /\ Fault
  /\ UNCHANGED <<now, stores, session, authed, revoked>>

\* poll_vaulted_qr_login copies the session, or starts one if the wallet is
\* locked or the session has expired ...
QrRead(c) ==
  /\ call[c].pc = "poll"
  /\ \E exp \in {now + SessionLife} \cup (IF HasSession THEN {session.exp} ELSE {}) :
       call' = [call EXCEPT ![c].pc = "store", ![c].texp = exp]
  /\ UNCHANGED <<now, issued, stores, session, authed, history>>

\* ... and writes the copy back with the new tokens.
QrStore(c) ==
  /\ call[c].pc = "store"
  /\ session' = [exp |-> call[c].texp, tok |-> call[c].new,
                 texp |-> now + AccessLife, refr |-> call[c].new]
  /\ Set(c, Idle)
  /\ UNCHANGED <<now, issued, stores, authed, history>>

-----------------------------------------------------------------------------
(* Time and faults *)

Tick ==
  /\ now < MaxTime /\ now' = now + 1
  /\ UNCHANGED <<issued, stores, desktop, history>>

\* The answer is lost or late; what the handler did remains.
Lose(c) ==
  /\ Fault
  /\ \/ Carries(c) /\ call[c].pc # "failed" /\ Goto(c, "failed")
     \/ call[c].pc \in {"login", "save"} /\ Set(c, Idle)
  /\ UNCHANGED <<now, issued, stores, session, authed, revoked>>

RedisOutage ==
  /\ Fault /\ redisUp' = ~redisUp
  /\ UNCHANGED <<now, issued, black, conn, pg, desktop, revoked>>

PgOutage ==
  /\ Fault /\ pg' = ~pg
  /\ UNCHANGED <<now, issued, black, redisUp, conn, desktop, revoked>>

\* The Oracle restarts: memory is lost, and Redis is used only if it answers
\* just then.  The signing key is configured, so tokens stay good.
Restart ==
  /\ Fault /\ pg
  /\ conn' \in {redisUp, FALSE}
  /\ black' = [black EXCEPT !["mem"] = {}]
  /\ revoked' = {r \in revoked : r.via # "mem"}
  /\ call' = [c \in Calls |->
                IF call[c].pc \in {"verify", "revoke", "issue"}
                THEN [call[c] EXCEPT !.pc = "failed"] ELSE call[c]]
  /\ UNCHANGED <<now, issued, redisUp, pg, session, authed>>

\* Redis is full and evicts a key it has not used lately (maxmemory, allkeys-lru):
\* the revocation is lost.
Evict(e) ==
  /\ Fault /\ e \in black["redis"]
  /\ black' = [black EXCEPT !["redis"] = @ \ {e}]
  /\ revoked' = {r \in revoked : r # [jti |-> e.jti, via |-> "redis"]}
  /\ UNCHANGED <<now, issued, redisUp, conn, pg, desktop>>

Command(c) ==
  \/ Request(c) \/ AuthedClient(c) \/ RefreshCommand(c) \/ AuthStatus(c)
  \/ OracleLogout(c) \/ SignIn(c) \/ QrApproved(c)

Continue(c) ==
  \/ LookupRefresh(c) \/ RefreshVerify(c) \/ RefreshRevoke(c) \/ RefreshIssue(c)
  \/ RefreshAnswered(c) \/ RefreshFailed(c) \/ DropToken(c)
  \/ Authenticate(c) \/ Logout(c) \/ ForgetToken(c) \/ ClearSession(c)
  \/ IdentityToken(c) \/ SaveLogin(c) \/ QrRead(c) \/ QrStore(c)

Next ==
  \/ \E c \in Calls : Command(c) \/ Continue(c) \/ Lose(c)
  \/ \E e \in black["redis"] : Evict(e)
  \/ Tick \/ Cleanup \/ RedisOutage \/ PgOutage \/ Restart

Spec == Init /\ [][Next]_vars

-----------------------------------------------------------------------------
(* Properties *)

\* The store a revocation went to is not the one that is asked now.
Forgotten(r) ==
  \/ r.via = "redis" /\ Route # "redis"
  \/ r.via = "pg" /\ Route # "pg"
  \/ r.via = "mem" /\ Route = "redis"

\* AuthenticatedUser and refresh_token refuse a token that was revoked, except
\* in its last second, when Redis or PostgreSQL came or went since, or when Redis
\* evicted the entry: neither the expiry of entries nor cleanup_expired nor a
\* restart brings one back.
RevokedStaysRefused ==
  \A r \in revoked : now < Exp(r.jti) /\ ~Forgotten(r) => Blacklisted(r.jti)

\* The desktop never takes a token for expired that the Oracle still accepts,
\* however late the answer that carried it.
NotExpiredEarly ==
  session # None /\ session.tok \in Ids =>
    session.texp >= Exp(<<"access", session.tok>>)

\* Rotation agrees: without faults, QR logins and two refreshes of one token,
\* the refresh token the desktop keeps has not been used, unless a command is
\* under way with it, and it belongs to the access token it keeps.
RotationAgrees ==
  session # None /\ ~disturbed =>
    /\ session.tok \in Ids /\ session.refr # None => session.refr = session.tok
    /\ session.refr # None =>
         \/ \A r \in revoked : r.jti # <<"refresh", session.refr>>
         \/ \E c \in Calls : call[c].pc \in {"issue", "answer"} /\ call[c].refr = session.refr
=============================================================================
