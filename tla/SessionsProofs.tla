--------------------------- MODULE SessionsProofs ---------------------------
(* Proofs about Sessions, for any lifetimes, commands and token pairs. *)
EXTENDS Sessions, TLAPS

\* The pairs that were issued so far.
Known == 1..Len(issued)

\* The pair an access token is of has been issued, and what a command's next step
\* needs is there.
CallOk(cc) ==
  /\ cc \in CallType
  /\ cc.refr \in Known \cup {None} /\ cc.new \in Known \cup {None}
  /\ cc.tok \in Known \cup {None, Empty}
  /\ cc.pc = "lookup" => cc.kind \in {"try", "status"}
  /\ cc.pc \in {"verify", "revoke", "issue"} => cc.refr # None
  /\ cc.pc \in {"answer", "save", "poll", "store"} => cc.new # None
  /\ cc.pc \in {"use", "served"} => cc.tok # None
  /\ cc.pc = "served" => cc.tok # Empty
  /\ cc.pc \in {"verify", "revoke", "issue", "answer", "failed"} /\ cc.kind = "proactive"
       => cc.tok # None

\* The session names issued pairs and does not take its token for expired early.
SessionOk(s) ==
  s # None =>
    /\ s \in SessionType
    /\ s.refr \in Known \cup {None} /\ s.tok \in Known \cup {None, Empty}
    /\ s.tok \in Known => s.texp >= issued[s.tok].iat + AccessLife

\* No pair is issued in the future.
IssuedInv == \A i \in Known : issued[i].iat <= now

\* The store a revocation went to keeps an entry for as long as the token lives.
Kept(r) ==
  /\ r.jti[2] \in Known
  /\ now < Exp(r.jti) => \E e \in black[r.via] : e.jti = r.jti /\ e.until >= Exp(r.jti)

IInv == /\ TypeOK /\ IssuedInv /\ SessionOk(session)
        /\ \A c \in Calls : CallOk(call[c])
        /\ \A r \in revoked : Kept(r)

-----------------------------------------------------------------------------

\* A command that has ended, or goes on to a step that needs no token.
LEMMA IdleOk ==
  ASSUME NEW pc \in {"idle", "forget", "drop", "login"}, NEW logout \in BOOLEAN
  PROVE  CallOk([Idle EXCEPT !.pc = pc, !.logout = logout])
<1> DEFINE r == [Idle EXCEPT !.pc = pc, !.logout = logout]
<1>1. r \in CallType /\ r.pc = pc /\ r.refr = None /\ r.new = None /\ r.tok = None
  BY DEF Idle, CallType, Steps
<1> HIDE DEF r
<1>2. CallOk(r)
  BY <1>1 DEF CallOk
<1> QED BY <1>2 DEF r

\* The same for the plain idle record.
LEMMA IdleIsOk == CallOk(Idle)
<1>1. Idle \in CallType /\ Idle.pc = "idle" /\ Idle.refr = None /\ Idle.new = None /\ Idle.tok = None
  BY DEF Idle, CallType, Steps
<1> QED BY <1>1 DEF CallOk

\* The initial states satisfy the inductive invariant.
LEMMA InitIInv == Init => IInv
<1> SUFFICES ASSUME Init PROVE IInv
  OBVIOUS
<1>1. issued = <<>> /\ Known = {} /\ Len(issued) = 0
  BY DEF Init, Known
<1>2. \A c \in Calls : call[c] = Idle /\ CallOk(call[c])
  BY IdleIsOk DEF Init
<1>3. Idle \in CallType
  BY IdleIsOk DEF CallOk
<1>4. TypeOK
  <2>1. issued \in Seq(Pairs) /\ Len(issued) <= MaxPairs
    BY <1>1, SessionAssumption
  <2>2. now \in 0..MaxTime /\ faults \in 0..MaxFaults
    BY SessionAssumption DEF Init
  <2>3. black \in [Stores -> SUBSET Entries]
    BY DEF Init
  <2> QED BY <1>3, <2>1, <2>2, <2>3 DEF Init, TypeOK
<1>5. IssuedInv /\ SessionOk(session) /\ \A r \in revoked : Kept(r)
  BY <1>1 DEF Init, IssuedInv, SessionOk
<1> QED BY <1>2, <1>4, <1>5 DEF IInv

-----------------------------------------------------------------------------

\* Issuing a pair changes nothing about the earlier ones.
LEMMA Issue ==
  ASSUME IInv, Len(issued) < MaxPairs, NEW qr \in BOOLEAN, issued' = Append(issued, NewPair(qr))
  PROVE  /\ issued' \in Seq(Pairs) /\ Len(issued') = Len(issued) + 1 /\ Len(issued') <= MaxPairs
         /\ \A i \in Known : issued'[i] = issued[i]
         /\ issued'[Len(issued')].iat = now
         /\ Known \subseteq Known' /\ Known' = Known \cup {Len(issued')} /\ Len(issued') \in Known'
         /\ Known' \subseteq Ids
<1>1. NewPair(qr) \in Pairs /\ NewPair(qr).iat = now
  BY SessionAssumption DEF IInv, TypeOK, NewPair, Pairs
<1>2. issued \in Seq(Pairs) /\ Len(issued) \in Nat /\ MaxPairs \in Nat
  BY SessionAssumption DEF IInv, TypeOK
<1>3. /\ issued' \in Seq(Pairs) /\ Len(issued') = Len(issued) + 1
      /\ \A i \in 1..Len(issued) : issued'[i] = issued[i]
      /\ issued'[Len(issued) + 1] = NewPair(qr)
  BY <1>1, <1>2
<1> QED BY <1>1, <1>2, <1>3 DEF Known, Ids

\* What is fine for a command stays so when more pairs are known.
LEMMA CallOkGrows ==
  ASSUME NEW cc, CallOk(cc), Known \subseteq Known'
  PROVE  CallOk(cc)'
BY DEF CallOk

\* A step of one command that writes no revocation.
LEMMA CallStep ==
  ASSUME IInv, NEW c \in Calls, NEW r, call' = [call EXCEPT ![c] = r], CallOk(r),
         SessionOk(session'), authed' \in BOOLEAN, disturbed' \in BOOLEAN,
         faults' \in 0..MaxFaults, UNCHANGED <<now, issued, stores, revoked>>
  PROVE  IInv'
<1>1. /\ call' \in [Calls -> CallType] /\ \A d \in Calls : CallOk(call'[d])
  BY DEF IInv, TypeOK, CallOk
<1>2. Known' = Known
  BY DEF Known
<1>3. \A d \in Calls : CallOk(call[d])'
  BY <1>1, <1>2 DEF CallOk
<1>4. session' \in SessionType \cup {None} /\ SessionOk(session)'
  BY <1>2 DEF SessionOk
<1>5. TypeOK'
  BY <1>1, <1>4 DEF IInv, TypeOK, stores
<1>6. IssuedInv' /\ \A z \in revoked' : Kept(z)'
  BY <1>2 DEF IInv, IssuedInv, Kept, Exp, stores
<1> QED BY <1>3, <1>4, <1>5, <1>6 DEF IInv

\* A step that issues a pair to one command.
LEMMA IssueStep ==
  ASSUME IInv, NEW c \in Calls, NEW r, call' = [call EXCEPT ![c] = r],
         Len(issued) < MaxPairs, NEW qr \in BOOLEAN, issued' = Append(issued, NewPair(qr)),
         CallOk(r)', disturbed' \in BOOLEAN,
         faults' \in 0..MaxFaults, UNCHANGED <<now, stores, session, authed, revoked>>
  PROVE  IInv'
<1>0. /\ issued' \in Seq(Pairs) /\ Len(issued') = Len(issued) + 1 /\ Len(issued') <= MaxPairs
      /\ \A i \in Known : issued'[i] = issued[i]
      /\ issued'[Len(issued')].iat = now
      /\ Known \subseteq Known' /\ Known' = Known \cup {Len(issued')}
  BY Issue
<1>1. \A d \in Calls : CallOk(call[d])'
  <2> SUFFICES ASSUME NEW d \in Calls PROVE CallOk(call[d])'
    OBVIOUS
  <2>1. CASE d = c
    <3>1. call'[d] = r
      BY <2>1 DEF IInv, TypeOK
    <3> QED BY <3>1 DEF CallOk, Known
  <2>2. CASE d # c
    <3>1. call'[d] = call[d] /\ CallOk(call[d])
      BY <2>2 DEF IInv, TypeOK
    <3> QED BY <1>0, <3>1 DEF CallOk
  <2> QED BY <2>1, <2>2
<1>2. call' \in [Calls -> CallType]
  BY <1>1 DEF IInv, TypeOK, CallOk
<1>3. TypeOK'
  BY <1>0, <1>2 DEF IInv, TypeOK, stores
<1>4. SessionOk(session)'
  <2> SUFFICES ASSUME session # None
               PROVE  /\ session \in SessionType
                      /\ session.refr \in Known' \cup {None}
                      /\ session.tok \in Known' \cup {None, Empty}
                      /\ session.tok \in Known' =>
                           session.texp >= issued'[session.tok].iat + AccessLife
    BY DEF SessionOk
  <2>1. /\ session \in SessionType /\ session.refr \in Known \cup {None}
        /\ session.tok \in Known \cup {None, Empty}
        /\ session.tok \in Known => session.texp >= issued[session.tok].iat + AccessLife
    BY DEF IInv, SessionOk
  <2>2. session.tok \in Known' => session.tok \in Known
    BY <2>1, SessionAssumption DEF Known
  <2> QED BY <1>0, <2>1, <2>2
<1>5. IssuedInv'
  <2>1. now \in Int /\ now' = now
    BY DEF IInv, TypeOK
  <2>2. \A i \in Known : issued'[i].iat <= now
    BY <1>0 DEF IInv, IssuedInv
  <2>3. issued'[Len(issued')].iat <= now
    BY <1>0, <2>1
  <2>4. \A i \in Known' : i \in Known \/ i = Len(issued')
    BY <1>0
  <2> QED BY <2>1, <2>2, <2>3, <2>4 DEF IssuedInv
<1>6. \A z \in revoked' : Kept(z)'
  <2> SUFFICES ASSUME NEW z \in revoked PROVE Kept(z)'
    OBVIOUS
  <2>1. Kept(z) /\ z.jti[2] \in Known
    BY DEF IInv, Kept
  <2>2. Exp(z.jti)' = Exp(z.jti)
    BY <1>0, <2>1 DEF Exp
  <2> QED BY <1>0, <2>1, <2>2 DEF Kept, stores
<1> QED BY <1>1, <1>3, <1>4, <1>5, <1>6 DEF IInv

\* A token lives as long as its pair allows.
LEMMA ExpIsNat ==
  ASSUME IInv, NEW kind \in {"access", "refresh"}, NEW i \in Known
  PROVE  /\ Exp(<<kind, i>>) \in Nat /\ <<kind, i>> \in Jtis
         /\ Exp(<<"access", i>>) = issued[i].iat + AccessLife /\ issued[i].iat \in Nat
<1>0. issued \in Seq(Pairs) /\ Len(issued) <= MaxPairs
  BY DEF IInv, TypeOK
<1>1. issued[i] \in Pairs /\ i \in Ids
  BY <1>0, SessionAssumption DEF Known, Ids
<1> QED BY <1>1, SessionAssumption DEF Exp, Pairs, Jtis

\* A step of one command that revokes a token: the entry outlives it.
LEMMA RevokeStep ==
  ASSUME IInv, NEW c \in Calls, NEW r, call' = [call EXCEPT ![c] = r], CallOk(r),
         NEW kind \in {"access", "refresh"}, NEW i \in Known, NEW exp \in Nat,
         exp >= Exp(<<kind, i>>), Blacklist(<<kind, i>>, exp),
         UNCHANGED <<now, issued, redisUp, conn, pg, session, authed, disturbed, faults>>
  PROVE  IInv'
<1> DEFINE jti == <<kind, i>>
           until == IF Route = "redis" /\ exp <= now THEN now + 1 ELSE exp
           e == [jti |-> jti, until |-> until]
<1>0. Exp(jti) \in Nat /\ jti \in Jtis /\ jti[2] = i /\ now \in Nat
  <2>1. now \in Nat
    BY SessionAssumption DEF IInv, TypeOK
  <2> QED BY <2>1, ExpIsNat
<1>1. until \in Nat /\ (now < Exp(jti) => until >= Exp(jti)) /\ Route \in Stores
  BY <1>0 DEF Route, Stores
<1>2. /\ black' = [black EXCEPT ![Route] = black[Route] \cup {e}]
      /\ revoked' = revoked \cup {[jti |-> jti, via |-> Route]}
  BY DEF Blacklist
<1>3. e \in Entries /\ e.jti = jti /\ e.until = until
  BY <1>0, <1>1 DEF Entries
<1> HIDE DEF e, until
<1>4. /\ black' \in [Stores -> SUBSET Entries]
      /\ \A s \in Stores : black[s] \subseteq black'[s]
      /\ e \in black'[Route]
  BY <1>1, <1>2, <1>3 DEF IInv, TypeOK
<1>5. /\ call' \in [Calls -> CallType] /\ \A d \in Calls : CallOk(call'[d])
  BY DEF IInv, TypeOK, CallOk
<1>6. Known' = Known
  BY DEF Known
<1>7. \A d \in Calls : CallOk(call[d])'
  BY <1>5, <1>6 DEF CallOk
<1>8. TypeOK'
  <2>1. revoked' \in SUBSET [jti : Jtis, via : Stores]
    BY <1>0, <1>1, <1>2 DEF IInv, TypeOK
  <2> QED BY <1>4, <1>5, <2>1 DEF IInv, TypeOK
<1>9. IssuedInv' /\ SessionOk(session)'
  BY <1>6 DEF IInv, IssuedInv, SessionOk
<1>10. \A z \in revoked' : Kept(z)'
  <2> SUFFICES ASSUME NEW z \in revoked' PROVE Kept(z)'
    OBVIOUS
  <2>1. CASE z \in revoked
    <3>1. Kept(z) /\ z.via \in Stores
      BY <2>1 DEF IInv, TypeOK
    <3> QED BY <1>4, <1>6, <3>1 DEF Kept, Exp
  <2>2. CASE z = [jti |-> jti, via |-> Route]
    <3>1. z.jti = jti /\ z.via = Route
      BY <2>2
    <3>2. Exp(jti)' = Exp(jti)
      BY DEF Exp
    <3> HIDE DEF jti
    <3> QED BY <1>0, <1>1, <1>3, <1>4, <1>6, <3>1, <3>2 DEF Kept
  <2> QED BY <1>2, <2>1, <2>2
<1> QED BY <1>7, <1>8, <1>9, <1>10 DEF IInv

-----------------------------------------------------------------------------

\* A command that sends the refresh token of the session.
LEMMA RefreshStep ==
  ASSUME IInv, NEW c \in Calls, NEW kind \in Kinds, NEW logout \in BOOLEAN,
         session # None, session.refr # None, kind = "proactive" => session.tok # None,
         Refresh(c, kind, logout), UNCHANGED <<now, issued, stores, session, authed, revoked, faults>>
  PROVE  IInv'
<1>0. /\ session \in SessionType /\ session.refr \in Known /\ session.tok \in Known \cup {None, Empty}
      /\ session.refr \in Ids \cup {None} /\ session.tok \in Ids \cup {None, Empty} /\ session.texp \in Nat
      /\ SessionOk(session')
  BY DEF IInv, SessionOk, SessionType
<1> DEFINE sent == [Idle EXCEPT !.pc = "verify", !.kind = kind, !.logout = logout, !.refr = session.refr]
           r == IF kind # "proactive" THEN sent
                ELSE [sent EXCEPT !.tok = session.tok, !.texp = session.texp]
<1>1. call' = [call EXCEPT ![c] = r]
  BY DEF Refresh, Set
<1>2. /\ sent \in CallType /\ sent.pc = "verify" /\ sent.refr = session.refr /\ sent.new = None
      /\ sent.tok = None /\ sent.kind = kind
  BY <1>0 DEF Idle, CallType, Steps
<1> HIDE DEF sent
<1>3. CASE kind # "proactive"
  BY <1>0, <1>1, <1>2, <1>3, CallStep DEF CallOk, Refresh, IInv, TypeOK
<1>4. CASE kind = "proactive"
  <2>1. /\ r \in CallType /\ r.pc = "verify" /\ r.refr = session.refr /\ r.new = None
        /\ r.tok = session.tok /\ r.kind = kind
    BY <1>0, <1>2, <1>4 DEF CallType
  <2> HIDE DEF r
  <2> QED BY <1>0, <1>1, <1>4, <2>1, CallStep DEF CallOk, Refresh, IInv, TypeOK
<1> QED BY <1>3, <1>4

\* A command that sends its request with an access token.
LEMMA UseOk ==
  ASSUME NEW tok \in Known \cup {Empty}, NEW logout \in BOOLEAN, IInv
  PROVE  CallOk(IF logout THEN [Idle EXCEPT !.pc = "use", !.tok = tok, !.logout = TRUE] ELSE Idle)
<1> DEFINE r == [Idle EXCEPT !.pc = "use", !.tok = tok, !.logout = TRUE]
<1>0. tok # None /\ tok \in Ids \cup {None, Empty}
  BY SessionAssumption DEF Known, Ids, IInv, TypeOK
<1>1. r \in CallType /\ r.pc = "use" /\ r.refr = None /\ r.new = None /\ r.tok = tok
  BY <1>0 DEF Idle, CallType, Steps
<1>2. CallOk(r)
  <2> HIDE DEF r
  <2> QED BY <1>0, <1>1 DEF CallOk
<1> QED BY <1>2, IdleIsOk

\* A command that is over, or goes on to forget the token.
LEMMA FinishOk ==
  ASSUME IInv, NEW c \in Calls, Finish(c)
  PROVE  \E r : call' = [call EXCEPT ![c] = r] /\ CallOk(r)
<1>1. CallOk([Idle EXCEPT !.pc = "forget", !.logout = TRUE])
  BY IdleOk
<1> QED BY <1>1, IdleIsOk DEF Finish, Set

\* get_oracle_client: use the token, refresh it or drop it.
LEMMA GetClientStep ==
  ASSUME IInv, NEW c \in Calls, NEW logout \in BOOLEAN, GetClient(c, logout)
  PROVE  IInv'
<1>0. /\ session # None /\ session.tok # None /\ SessionOk(session) /\ SessionOk(session')
      /\ session.tok \in Known \cup {Empty}
      /\ UNCHANGED <<now, issued, stores, session, authed, revoked, faults>>
      /\ authed' \in BOOLEAN /\ disturbed \in BOOLEAN /\ faults' \in 0..MaxFaults
  BY DEF GetClient, HasSession, IInv, TypeOK, SessionOk
<1>1. CASE session.refr # None /\ \E kind \in {"expired", "proactive"} : Refresh(c, kind, logout)
  BY <1>0, <1>1, RefreshStep DEF Kinds
<1>2. CASE Set(c, [Idle EXCEPT !.pc = "drop", !.logout = logout]) /\ UNCHANGED disturbed
  <2>1. CallOk([Idle EXCEPT !.pc = "drop", !.logout = logout])
    BY IdleOk
  <2> QED BY <1>0, <1>2, <2>1, CallStep DEF Set
<1>3. CASE Use(c, session.tok, logout) /\ UNCHANGED disturbed
  <2> DEFINE r == IF logout THEN [Idle EXCEPT !.pc = "use", !.tok = session.tok, !.logout = TRUE] ELSE Idle
  <2>1. CallOk(r)
    BY <1>0, UseOk
  <2>2. call' = [call EXCEPT ![c] = r]
    BY <1>3 DEF Use, Set
  <2> HIDE DEF r
  <2> QED BY <1>0, <1>3, <2>1, <2>2, CallStep
<1> QED BY <1>1, <1>2, <1>3 DEF GetClient

\* try_refresh_oracle_token.
LEMMA TryRefreshStep ==
  ASSUME IInv, NEW c \in Calls, NEW kind \in {"try", "status"}, TryRefresh(c, kind),
         UNCHANGED <<now, issued, stores, session, authed, revoked, faults>>
  PROVE  IInv'
<1>1. CASE HasRefresh /\ Refresh(c, kind, FALSE)
  BY <1>1, RefreshStep DEF HasRefresh, Kinds
<1>2. CASE Set(c, [Idle EXCEPT !.pc = "failed", !.kind = kind]) /\ UNCHANGED disturbed
  <2> DEFINE r == [Idle EXCEPT !.pc = "failed", !.kind = kind]
  <2>1. /\ r \in CallType /\ r.pc = "failed" /\ r.refr = None /\ r.new = None /\ r.tok = None
        /\ r.kind = kind
    BY DEF Idle, CallType, Steps, Kinds
  <2>2. call' = [call EXCEPT ![c] = r]
    BY <1>2 DEF Set
  <2> HIDE DEF r
  <2>3. CallOk(r)
    BY <2>1 DEF CallOk
  <2> QED BY <1>2, <2>2, <2>3, CallStep DEF IInv, TypeOK, SessionOk
<1> QED BY <1>1, <1>2 DEF TryRefresh

\* has_oracle_token found none.
LEMMA LookupStep ==
  ASSUME IInv, NEW c \in Calls, NEW kind \in {"try", "status"}, Lookup(c, kind),
         UNCHANGED <<now, issued, stores, session, authed, history>>
  PROVE  IInv'
<1> DEFINE r == [Idle EXCEPT !.pc = "lookup", !.kind = kind]
<1>1. /\ r \in CallType /\ r.pc = "lookup" /\ r.refr = None /\ r.new = None /\ r.tok = None
      /\ r.kind = kind
  BY DEF Idle, CallType, Steps, Kinds
<1>2. call' = [call EXCEPT ![c] = r]
  BY DEF Lookup, Set
<1> HIDE DEF r
<1>3. CallOk(r)
  BY <1>1 DEF CallOk
<1> QED BY <1>2, <1>3, CallStep DEF IInv, TypeOK, SessionOk, history

\* try_refresh_oracle_token after it.
LEMMA LookupRefreshStep ==
  ASSUME IInv, NEW c \in Calls, LookupRefresh(c)
  PROVE  IInv'
<1>1. call[c].kind \in {"try", "status"}
  BY DEF IInv, CallOk, LookupRefresh
<1> QED BY <1>1, TryRefreshStep DEF LookupRefresh

\* A command is sent to its next step with what it has.
LEMMA GotoStep ==
  ASSUME IInv, NEW c \in Calls, NEW pc \in Steps, Goto(c, pc)
  PROVE  LET r == [call[c] EXCEPT !.pc = pc]
         IN /\ call' = [call EXCEPT ![c] = r] /\ r \in CallType /\ r.pc = pc
            /\ r.refr = call[c].refr /\ r.new = call[c].new /\ r.tok = call[c].tok
            /\ r.kind = call[c].kind
BY DEF IInv, TypeOK, Goto, CallType

\* Commands that start.
LEMMA CommandStep ==
  ASSUME IInv, NEW c \in Calls, Command(c)
  PROVE  IInv'
<1>0. /\ authed \in BOOLEAN /\ disturbed \in BOOLEAN /\ faults \in 0..MaxFaults
      /\ SessionOk(session) /\ now \in Nat /\ CallOk(call[c]) /\ call \in [Calls -> CallType]
  BY SessionAssumption DEF IInv, TypeOK
<1>1. CASE Request(c)
  BY <1>1, GetClientStep DEF Request
<1>2. CASE AuthedClient(c) \/ RefreshCommand(c)
  BY <1>2, TryRefreshStep, LookupStep DEF AuthedClient, RefreshCommand
<1>3. CASE AuthStatus(c)
  <2>1. CASE authed' = TRUE /\ UNCHANGED call
    <3>1. call' = [call EXCEPT ![c] = call[c]]
      BY <1>0, <2>1
    <3>2. UNCHANGED <<now, issued, stores, session, revoked, faults, disturbed>>
      BY <1>3 DEF AuthStatus, history
    <3> QED BY <1>0, <2>1, <3>1, <3>2, CallStep
  <2>2. CASE Lookup(c, "status") /\ UNCHANGED authed
    BY <1>3, <2>2, LookupStep DEF AuthStatus
  <2> QED BY <1>3, <2>1, <2>2 DEF AuthStatus
<1>4. CASE OracleLogout(c)
  <2>1. CASE GetClient(c, TRUE)
    BY <2>1, GetClientStep
  <2>2. CASE /\ Set(c, [Idle EXCEPT !.pc = "forget", !.logout = TRUE])
             /\ UNCHANGED <<now, issued, stores, session, authed, history>>
    <3>1. CallOk([Idle EXCEPT !.pc = "forget", !.logout = TRUE])
      BY IdleOk
    <3> QED BY <1>0, <2>2, <3>1, CallStep DEF Set, history
  <2> QED BY <1>4, <2>1, <2>2 DEF OracleLogout
<1>5. CASE SignIn(c)
  <2>1. CallOk([Idle EXCEPT !.pc = "login"])
    <3> DEFINE r == [Idle EXCEPT !.pc = "login"]
    <3>1. r \in CallType /\ r.pc = "login" /\ r.refr = None /\ r.new = None /\ r.tok = None
      BY DEF Idle, CallType, Steps
    <3> HIDE DEF r
    <3>2. CallOk(r)
      BY <3>1 DEF CallOk
    <3> QED BY <3>2 DEF r
  <2>2. session' = [exp |-> now + SessionLife, tok |-> None, texp |-> 0, refr |-> None]
    BY <1>5 DEF SignIn
  <2>3. None \notin Known
    BY SessionAssumption DEF Known
  <2>4. SessionOk(session')
    BY <1>0, <2>2, <2>3, SessionAssumption DEF SessionOk, SessionType
  <2> QED BY <1>0, <1>5, <2>1, <2>4, CallStep DEF SignIn, Set, history
<1>6. CASE QrApproved(c)
  <2>0. Len(issued) < MaxPairs /\ issued' = Append(issued, NewPair(TRUE))
    BY <1>6 DEF QrApproved
  <2>1. Len(issued') \in Known' /\ Known' \subseteq Ids
    BY <2>0, Issue
  <2>2. PICK n : n = Len(issued')
    OBVIOUS
  <2>3. PICK r : r = [Idle EXCEPT !.pc = "poll", !.new = n]
    OBVIOUS
  <2>4. r \in CallType /\ r.pc = "poll" /\ r.refr = None /\ r.new = n /\ r.tok = None
    BY <2>1, <2>2, <2>3 DEF Idle, CallType, Steps
  <2>5. call' = [call EXCEPT ![c] = r]
    BY <1>6, <2>2, <2>3 DEF QrApproved, Set
  <2>6. disturbed' \in BOOLEAN /\ faults' \in 0..MaxFaults
    BY <1>0, <1>6, SessionAssumption DEF QrApproved, Fault
  <2>7. UNCHANGED <<now, stores, session, authed, revoked>>
    BY <1>6 DEF QrApproved
  <2>8. n # None
    BY <2>1, <2>2, SessionAssumption DEF Known
  <2>9. CallOk(r)'
    BY <2>1, <2>2, <2>4, <2>8 DEF CallOk
  <2> QED BY <2>0, <2>5, <2>6, <2>7, <2>9, IssueStep
<1> QED BY <1>1, <1>2, <1>3, <1>4, <1>5, <1>6 DEF Command

\* A command is given a pair that was just issued.
LEMMA GivenStep ==
  ASSUME IInv, NEW c \in Calls, NEW pc \in {"answer", "save"}, Len(issued) < MaxPairs,
         issued' = Append(issued, NewPair(FALSE)),
         call' = [call EXCEPT ![c].pc = pc, ![c].new = Len(issued')],
         pc = "answer" => call[c].pc = "issue",
         UNCHANGED <<now, stores, session, authed, history>>
  PROVE  IInv'
<1>0. /\ CallOk(call[c]) /\ call[c] \in CallType /\ call \in [Calls -> CallType]
      /\ disturbed' \in BOOLEAN /\ faults' \in 0..MaxFaults
  BY DEF IInv, TypeOK, history
<1>1. Len(issued') \in Known' /\ Known' \subseteq Ids /\ Known \subseteq Known'
  BY Issue
<1>2. PICK n : n = Len(issued')
  OBVIOUS
<1>3. PICK r : r = [call[c] EXCEPT !.pc = pc, !.new = n]
  OBVIOUS
<1>4. /\ r \in CallType /\ r.pc = pc /\ r.refr = call[c].refr /\ r.new = n /\ r.tok = call[c].tok
      /\ r.kind = call[c].kind
  BY <1>0, <1>1, <1>2, <1>3 DEF CallType, Steps
<1>5. call' = [call EXCEPT ![c] = r]
  BY <1>0, <1>2, <1>3
<1>6. n # None
  BY <1>1, <1>2, SessionAssumption DEF Known
<1>7. CallOk(r)'
  <2>1. /\ r.refr \in Known' \cup {None} /\ r.new \in Known' \cup {None}
        /\ r.tok \in Known' \cup {None, Empty}
    BY <1>0, <1>1, <1>2, <1>4 DEF CallOk
  <2>2. pc = "answer" /\ call[c].kind = "proactive" => call[c].tok # None
    BY <1>0 DEF CallOk
  <2> QED BY <1>4, <1>6, <2>1, <2>2 DEF CallOk
<1>8. UNCHANGED <<now, stores, session, authed, revoked>>
  BY DEF history
<1> QED BY <1>0, <1>5, <1>7, <1>8, IssueStep

\* POST /auth/refresh.
LEMMA ServerStep ==
  ASSUME IInv, NEW c \in Calls,
         RefreshVerify(c) \/ RefreshRevoke(c) \/ RefreshIssue(c) \/ IdentityToken(c)
  PROVE  IInv'
<1>0. /\ authed \in BOOLEAN /\ disturbed \in BOOLEAN /\ faults \in 0..MaxFaults
      /\ SessionOk(session) /\ CallOk(call[c]) /\ call \in [Calls -> CallType]
  BY DEF IInv, TypeOK
<1>1. ASSUME NEW pc \in {"revoke", "failed"}, call[c].pc \in {"verify", "issue"}, Goto(c, pc),
             UNCHANGED <<now, issued, stores, session, authed, history>>
      PROVE  IInv'
  <2>0. pc \in Steps
    BY DEF Steps
  <2>1. PICK r : r = [call[c] EXCEPT !.pc = pc]
    OBVIOUS
  <2>2. /\ call' = [call EXCEPT ![c] = r] /\ r \in CallType /\ r.pc = pc
        /\ r.refr = call[c].refr /\ r.new = call[c].new /\ r.tok = call[c].tok
        /\ r.kind = call[c].kind
    BY <1>1, <2>0, <2>1, GotoStep
  <2>3. CallOk(r)
    BY <1>0, <1>1, <2>2 DEF CallOk
  <2> QED BY <1>0, <1>1, <2>2, <2>3, CallStep DEF history
<1>2. CASE RefreshVerify(c)
  BY <1>1, <1>2 DEF RefreshVerify
<1>3. CASE RefreshRevoke(c)
  <2> DEFINE i == call[c].refr
  <2>1. i \in Known
    BY <1>0, <1>3 DEF RefreshRevoke, CallOk
  <2>2. Exp(<<"refresh", i>>) \in Nat
    BY <2>1, ExpIsNat
  <2>3. /\ Blacklist(<<"refresh", i>>, Exp(<<"refresh", i>>)) /\ Goto(c, "issue")
        /\ UNCHANGED <<now, issued, redisUp, conn, pg, session, authed, disturbed, faults>>
    BY <1>3 DEF RefreshRevoke
  <2>4. PICK r : r = [call[c] EXCEPT !.pc = "issue"]
    OBVIOUS
  <2>5. /\ call' = [call EXCEPT ![c] = r] /\ r \in CallType /\ r.pc = "issue"
        /\ r.refr = call[c].refr /\ r.new = call[c].new /\ r.tok = call[c].tok
        /\ r.kind = call[c].kind
    BY <2>3, <2>4, GotoStep DEF Steps
  <2>6. CallOk(r)
    BY <1>0, <1>3, <2>5 DEF CallOk, RefreshRevoke
  <2> HIDE DEF i
  <2>7. Exp(<<"refresh", i>>) >= Exp(<<"refresh", i>>)
    BY <2>2
  <2>8. PICK exp \in Nat : exp = Exp(<<"refresh", i>>)
    BY <2>2
  <2> QED BY <2>1, <2>3, <2>5, <2>6, <2>7, <2>8, RevokeStep
<1>4. CASE RefreshIssue(c)
  <2>1. CASE /\ Len(issued) < MaxPairs /\ issued' = Append(issued, NewPair(FALSE))
             /\ call' = [call EXCEPT ![c].pc = "answer", ![c].new = Len(issued')]
    BY <1>4, <2>1, GivenStep DEF RefreshIssue
  <2>2. CASE Goto(c, "failed") /\ UNCHANGED issued
    BY <1>1, <1>4, <2>2 DEF RefreshIssue
  <2> QED BY <1>4, <2>1, <2>2 DEF RefreshIssue
<1>5. CASE IdentityToken(c)
  BY <1>5, GivenStep DEF IdentityToken
<1> QED BY <1>2, <1>3, <1>4, <1>5

\* New tokens are good for the whole life of an access token, from now on.
LEMMA SaveOk ==
  ASSUME IInv, NEW i \in Known, SaveTokens(i)
  PROVE  SessionOk(session')
<1>0. /\ issued[i] \in Pairs /\ i \in Ids /\ issued[i].iat <= now /\ issued[i].iat \in Nat
      /\ now \in Nat
  <2>1. issued \in Seq(Pairs) /\ Len(issued) <= MaxPairs /\ now \in Nat
    BY SessionAssumption DEF IInv, TypeOK
  <2>2. issued[i] \in Pairs /\ i \in Ids
    BY <2>1, SessionAssumption DEF Known, Ids
  <2> QED BY <2>1, <2>2 DEF IInv, IssuedInv, Pairs
<1>1. CASE session = None
  BY <1>1 DEF SaveTokens, SessionOk
<1>2. CASE session # None
  <2>1. session \in SessionType
    BY <1>2 DEF IInv, SessionOk
  <2>2. PICK z : z = [session EXCEPT !.tok = i, !.texp = now + AccessLife, !.refr = i]
    OBVIOUS
  <2> PICK t \in Nat : t = now + AccessLife
    BY <1>0, SessionAssumption
  <2>3. z \in SessionType /\ z.tok = i /\ z.refr = i /\ z.texp = now + AccessLife
    BY <1>0, <2>1, <2>2 DEF SessionType
  <2>4. session' = z
    BY <1>2, <2>2 DEF SaveTokens, UpdateTokens
  <2> QED BY <1>0, <2>3, <2>4, SessionAssumption DEF SessionOk
<1> QED BY <1>1, <1>2

\* Tokens that are given up leave nothing to be wrong about.
LEMMA WithoutOk ==
  ASSUME IInv, NEW F \in {{"tok"}, {"refr"}, {"tok", "refr"}}, session' = Without(session, F)
  PROVE  SessionOk(session')
<1>0. None \notin Known
  BY SessionAssumption DEF Known
<1>1. CASE session = None
  BY <1>1 DEF Without, SessionOk
<1>2. CASE session # None
  <2>1. session \in SessionType /\ SessionOk(session)
    BY <1>2 DEF IInv, SessionOk
  <2>2. PICK z : z = [session EXCEPT !.tok = IF "tok" \in F THEN None ELSE @,
                                     !.texp = IF "tok" \in F THEN 0 ELSE @,
                                     !.refr = IF "refr" \in F THEN None ELSE @]
    OBVIOUS
  <2>3. /\ z \in SessionType
        /\ z.tok = IF "tok" \in F THEN None ELSE session.tok
        /\ z.texp = IF "tok" \in F THEN 0 ELSE session.texp
        /\ z.refr = IF "refr" \in F THEN None ELSE session.refr
    BY <2>1, <2>2 DEF SessionType
  <2>4. session' = z
    BY <1>2, <2>2 DEF Without
  <2> QED BY <1>0, <1>2, <2>1, <2>3, <2>4 DEF SessionOk
<1> QED BY <1>1, <1>2

\* The desktop handles an answer or a failure, and a logout goes on.
LEMMA DesktopStep ==
  ASSUME IInv, NEW c \in Calls,
         \/ RefreshAnswered(c) \/ RefreshFailed(c) \/ DropToken(c) \/ Authenticate(c)
         \/ Logout(c) \/ ForgetToken(c) \/ ClearSession(c)
         \/ SaveLogin(c) \/ QrRead(c) \/ QrStore(c)
  PROVE  IInv'
<1>0. /\ authed \in BOOLEAN /\ disturbed \in BOOLEAN /\ faults \in 0..MaxFaults
      /\ SessionOk(session) /\ CallOk(call[c]) /\ call \in [Calls -> CallType]
      /\ call[c].logout \in BOOLEAN /\ now \in Nat
  BY SessionAssumption DEF IInv, TypeOK, CallType
<1>1. ASSUME NEW tok \in Known \cup {Empty}, Use(c, tok, call[c].logout)
      PROVE  \E r : call' = [call EXCEPT ![c] = r] /\ CallOk(r)
  BY <1>0, <1>1, UseOk DEF Use, Set
<1>2. CASE RefreshAnswered(c)
  <2>1. call[c].new \in Known
    BY <1>0, <1>2 DEF RefreshAnswered, CallOk
  <2>2. SessionOk(session')
    BY <1>2, <2>1, SaveOk DEF RefreshAnswered
  <2>3. PICK r : call' = [call EXCEPT ![c] = r] /\ CallOk(r)
    BY <1>1, <1>2, <2>1 DEF RefreshAnswered
  <2>4. authed' \in BOOLEAN /\ UNCHANGED <<now, issued, stores, history>>
    BY <1>2 DEF RefreshAnswered
  <2> QED BY <1>0, <2>2, <2>3, <2>4, CallStep DEF history
<1>3. CASE RefreshFailed(c)
  <2>0. UNCHANGED <<now, issued, stores, history>>
    BY <1>3 DEF RefreshFailed
  <2>1. CASE session' = Without(session, {"tok", "refr"}) /\ Finish(c) /\ UNCHANGED authed
    BY <1>0, <2>0, <2>1, WithoutOk, FinishOk, CallStep DEF history
  <2>2. CASE /\ call[c].kind = "proactive" /\ session' = Without(session, {"refr"})
             /\ IF now <= call[c].texp THEN Use(c, call[c].tok, call[c].logout)
                ELSE Set(c, [Idle EXCEPT !.pc = "drop", !.logout = call[c].logout])
             /\ UNCHANGED authed
    <3>1. call[c].tok \in Known \cup {Empty}
      BY <1>0, <1>3, <2>2 DEF RefreshFailed, CallOk
    <3>2. CallOk([Idle EXCEPT !.pc = "drop", !.logout = call[c].logout])
      BY <1>0, IdleOk
    <3>3. PICK r : call' = [call EXCEPT ![c] = r] /\ CallOk(r)
      BY <1>1, <2>2, <3>1, <3>2 DEF Set
    <3>4. SessionOk(session')
      BY <2>2, WithoutOk
    <3> QED BY <1>0, <2>0, <2>2, <3>3, <3>4, CallStep DEF history
  <2>3. CASE Set(c, Idle) /\ UNCHANGED <<session, authed>>
    BY <1>0, <2>0, <2>3, IdleIsOk, CallStep DEF history, Set
  <2>4. CASE session' = (IF authed THEN None ELSE session) /\ authed' = FALSE /\ Set(c, Idle)
    <3>1. SessionOk(session')
      BY <1>0, <2>4 DEF SessionOk
    <3> QED BY <1>0, <2>0, <2>4, <3>1, IdleIsOk, CallStep DEF history, Set
  <2> QED BY <1>3, <2>1, <2>2, <2>3, <2>4 DEF RefreshFailed
<1>4. CASE DropToken(c)
  BY <1>0, <1>4, WithoutOk, FinishOk, CallStep DEF DropToken, history
<1>5. CASE Authenticate(c)
  <2>0. UNCHANGED <<now, issued, stores, session, authed, history>>
    BY <1>5 DEF Authenticate
  <2>1. CASE Finish(c)
    BY <1>0, <2>0, <2>1, FinishOk, CallStep DEF history
  <2>2. CASE call[c].tok # Empty /\ Goto(c, "served")
    <3>1. PICK r : r = [call[c] EXCEPT !.pc = "served"]
      OBVIOUS
    <3>2. /\ call' = [call EXCEPT ![c] = r] /\ r \in CallType /\ r.pc = "served"
          /\ r.refr = call[c].refr /\ r.new = call[c].new /\ r.tok = call[c].tok
          /\ r.kind = call[c].kind
      BY <2>2, <3>1, GotoStep DEF Steps
    <3>3. CallOk(r)
      BY <1>0, <1>5, <2>2, <3>2 DEF CallOk, Authenticate
    <3> QED BY <1>0, <2>0, <3>2, <3>3, CallStep DEF history
  <2> QED BY <1>5, <2>1, <2>2 DEF Authenticate
<1>6. CASE Logout(c)
  <2> DEFINE i == call[c].tok
  <2>1. i \in Known
    BY <1>0, <1>6 DEF Logout, CallOk
  <2>2. /\ Exp(<<"access", i>>) = issued[i].iat + AccessLife /\ issued[i].iat \in Nat
        /\ issued[i].iat <= now
    BY <2>1, ExpIsNat DEF IInv, IssuedInv
  <2>3. now + AccessLife \in Nat /\ now + AccessLife >= Exp(<<"access", i>>)
    BY <1>0, <2>2, SessionAssumption
  <2>4. /\ Blacklist(<<"access", i>>, now + AccessLife) /\ Finish(c)
        /\ UNCHANGED <<now, issued, redisUp, conn, pg, session, authed, disturbed, faults>>
    BY <1>6 DEF Logout
  <2>5. PICK r : call' = [call EXCEPT ![c] = r] /\ CallOk(r)
    BY <2>4, FinishOk
  <2>6. PICK exp \in Nat : exp = now + AccessLife
    BY <2>3
  <2> HIDE DEF i
  <2> QED BY <2>1, <2>3, <2>4, <2>5, <2>6, RevokeStep
<1>7. CASE ForgetToken(c)
  <2>0. UNCHANGED <<now, issued, stores, history>> /\ authed' \in BOOLEAN
    BY <1>0, <1>7 DEF ForgetToken
  <2>1. SessionOk(session')
    <3>1. CASE session = None
      BY <1>7, <3>1 DEF ForgetToken, SessionOk
    <3>2. CASE session # None
      <4>1. session \in SessionType /\ session.refr \in Known \cup {None}
        BY <1>0, <3>2 DEF SessionOk
      <4>2. PICK z : z = [session EXCEPT !.tok = Empty, !.texp = now + AccessLife]
        OBVIOUS
      <4> PICK t \in Nat : t = now + AccessLife
        BY <1>0, SessionAssumption
      <4>3. z \in SessionType /\ z.tok = Empty /\ z.refr = session.refr
        BY <4>1, <4>2 DEF SessionType
      <4>4. Empty \notin Known /\ session' = z
        BY <1>7, <3>2, <4>2, SessionAssumption DEF Known, ForgetToken
      <4> QED BY <4>1, <4>3, <4>4 DEF SessionOk
    <3> QED BY <3>1, <3>2
  <2>2. PICK r : r = [call[c] EXCEPT !.pc = "clear"]
    OBVIOUS
  <2>3. /\ call' = [call EXCEPT ![c] = r] /\ r \in CallType /\ r.pc = "clear"
        /\ r.refr = call[c].refr /\ r.new = call[c].new /\ r.tok = call[c].tok
        /\ r.kind = call[c].kind
    BY <1>7, <2>2, GotoStep DEF Steps, ForgetToken
  <2>4. CallOk(r)
    BY <1>0, <2>3 DEF CallOk
  <2> QED BY <1>0, <2>0, <2>1, <2>3, <2>4, CallStep DEF history
<1>8. CASE ClearSession(c)
  <2>1. SessionOk(session')
    BY <1>8 DEF ClearSession, SessionOk
  <2> QED BY <1>0, <1>8, <2>1, IdleIsOk, CallStep DEF ClearSession, Set, history
<1>9. CASE SaveLogin(c)
  <2>1. call[c].new \in Known
    BY <1>0, <1>9 DEF SaveLogin, CallOk
  <2>2. SessionOk(session')
    BY <1>9, <2>1, SaveOk DEF SaveLogin
  <2> QED BY <1>0, <1>9, <2>2, IdleIsOk, CallStep DEF SaveLogin, Set, history
<1>10. CASE QrRead(c)
  <2>1. PICK exp \in Nat : call' = [call EXCEPT ![c].pc = "store", ![c].texp = exp]
    <3>1. now + SessionLife \in Nat
      BY <1>0, SessionAssumption
    <3>2. HasSession => session.exp \in Nat
      BY <1>0 DEF HasSession, SessionOk, SessionType
    <3> QED BY <1>10, <3>1, <3>2 DEF QrRead
  <2>2. PICK r : r = [call[c] EXCEPT !.pc = "store", !.texp = exp]
    OBVIOUS
  <2>3. /\ r \in CallType /\ r.pc = "store" /\ r.refr = call[c].refr /\ r.new = call[c].new
        /\ r.tok = call[c].tok /\ r.kind = call[c].kind
    BY <1>0, <2>2 DEF CallType, Steps
  <2>4. call' = [call EXCEPT ![c] = r]
    BY <1>0, <2>1, <2>2
  <2>5. CallOk(r)
    BY <1>0, <1>10, <2>3 DEF CallOk, QrRead
  <2> QED BY <1>0, <1>10, <2>4, <2>5, CallStep DEF QrRead, history
<1>11. CASE QrStore(c)
  <2>1. call[c].new \in Known /\ call[c].new \in Ids /\ call[c].texp \in Nat
    BY <1>0, <1>11, SessionAssumption DEF QrStore, CallOk, CallType, Ids
  <2>2. issued[call[c].new].iat \in Nat /\ issued[call[c].new].iat <= now
    BY <2>1, ExpIsNat DEF IInv, IssuedInv
  <2>3. session' = [exp |-> call[c].texp, tok |-> call[c].new,
                    texp |-> now + AccessLife, refr |-> call[c].new]
    BY <1>11 DEF QrStore
  <2>4. /\ session' \in SessionType /\ session'.tok = call[c].new /\ session'.refr = call[c].new
        /\ session'.texp = now + AccessLife
    BY <1>0, <2>1, <2>3, SessionAssumption DEF SessionType
  <2>5. SessionOk(session')
    BY <1>0, <2>1, <2>2, <2>4, SessionAssumption DEF SessionOk
  <2> QED BY <1>0, <1>11, <2>5, IdleIsOk, CallStep DEF QrStore, Set, history
<1> QED BY <1>2, <1>3, <1>4, <1>5, <1>6, <1>7, <1>8, <1>9, <1>10, <1>11

-----------------------------------------------------------------------------

\* A step of the surroundings: entries of living tokens stay where they are.
LEMMA StoreStep ==
  ASSUME IInv, UNCHANGED <<issued, session, authed>>,
         now' \in 0..MaxTime, now' >= now, black' \in [Stores -> SUBSET Entries],
         redisUp' \in BOOLEAN, conn' \in BOOLEAN, pg' \in BOOLEAN,
         disturbed' \in BOOLEAN, faults' \in 0..MaxFaults,
         call' \in [Calls -> CallType], \A c \in Calls : CallOk(call'[c]),
         revoked' \subseteq revoked,
         \A r \in revoked' : \A e \in black[r.via] :
           e.jti = r.jti /\ e.until > now' => e \in black'[r.via]
  PROVE  IInv'
<1>0. now \in Nat /\ now' \in Nat /\ Known' = Known
  BY SessionAssumption DEF IInv, TypeOK, Known
<1>1. TypeOK'
  BY DEF IInv, TypeOK
<1>2. SessionOk(session)' /\ \A c \in Calls : CallOk(call[c])'
  BY <1>0 DEF IInv, SessionOk, CallOk
<1>3. IssuedInv'
  <2> SUFFICES ASSUME NEW i \in Known PROVE issued[i].iat <= now'
    BY <1>0 DEF IssuedInv
  <2>1. issued[i].iat \in Nat /\ issued[i].iat <= now
    BY ExpIsNat DEF IInv, IssuedInv
  <2> QED BY <1>0, <2>1
<1>4. \A r \in revoked' : Kept(r)'
  <2> SUFFICES ASSUME NEW r \in revoked' PROVE Kept(r)'
    OBVIOUS
  <2>1. Kept(r) /\ r.jti[2] \in Known /\ r.via \in Stores /\ r.jti \in Jtis
    BY DEF IInv, TypeOK, Kept
  <2>2. PICK kind \in {"access", "refresh"}, i \in Known : r.jti = <<kind, i>>
    BY <2>1 DEF Jtis
  <2>3. Exp(r.jti) \in Nat /\ Exp(r.jti)' = Exp(r.jti)
    <3>1. Exp(<<kind, i>>) \in Nat
      BY ExpIsNat
    <3> QED BY <2>2, <3>1 DEF Exp
  <2>4. ASSUME now' < Exp(r.jti)
        PROVE  \E e \in black'[r.via] : e.jti = r.jti /\ e.until >= Exp(r.jti)
    <3>1. PICK e \in black[r.via] : e.jti = r.jti /\ e.until >= Exp(r.jti)
      BY <1>0, <2>1, <2>3, <2>4 DEF Kept
    <3>2. e.until \in Nat
      BY <2>1, <3>1 DEF IInv, TypeOK, Entries
    <3>3. e \in black'[r.via]
      BY <1>0, <2>3, <2>4, <3>1, <3>2
    <3> QED BY <3>1, <3>3
  <2> QED BY <1>0, <2>1, <2>3, <2>4 DEF Kept
<1> QED BY <1>1, <1>2, <1>3, <1>4 DEF IInv

\* Time, the cleanup, outages and restarts.
LEMMA SurroundingsStep ==
  ASSUME IInv, \/ Tick \/ Cleanup \/ RedisOutage \/ PgOutage \/ Restart \/ UNCHANGED vars
               \/ \E e \in black["redis"] : Evict(e)
  PROVE  IInv'
<1>0. /\ now \in 0..MaxTime /\ black \in [Stores -> SUBSET Entries]
      /\ redisUp \in BOOLEAN /\ conn \in BOOLEAN /\ pg \in BOOLEAN
      /\ disturbed \in BOOLEAN /\ faults \in 0..MaxFaults
      /\ call \in [Calls -> CallType] /\ \A c \in Calls : CallOk(call[c])
      /\ revoked \in SUBSET [jti : Jtis, via : Stores] /\ MaxTime \in Nat /\ MaxFaults \in Nat
  BY SessionAssumption DEF IInv, TypeOK
<1>1. CASE Tick \/ UNCHANGED vars
  <2>1. now' \in 0..MaxTime /\ now' >= now
    BY <1>0, <1>1 DEF Tick, vars
  <2>2. UNCHANGED <<issued, black, redisUp, conn, pg, session, call, authed, revoked, disturbed, faults>>
    BY <1>1 DEF Tick, vars, stores, desktop, history
  <2> QED BY <1>0, <2>1, <2>2, StoreStep
<1>2. CASE Cleanup
  <2>1. black' = [black EXCEPT !["mem"] = {e \in black["mem"] : e.until > now},
                               !["pg"] = {e \in black["pg"] : pg => e.until >= now}]
    BY <1>0, <1>2 DEF Cleanup, Stores
  <2>2. UNCHANGED <<now, issued, redisUp, conn, pg, session, call, authed, revoked, disturbed, faults>>
    BY <1>2 DEF Cleanup, desktop, history
  <2>3. black' \in [Stores -> SUBSET Entries]
    BY <1>0, <2>1
  <2>4. \A s \in Stores : \A e \in black[s] : e.until > now => e \in black'[s]
    <3> SUFFICES ASSUME NEW s \in Stores, NEW e \in black[s], e.until > now PROVE e \in black'[s]
      OBVIOUS
    <3>1. e.until \in Nat /\ e.until >= now
      BY <1>0 DEF Entries
    <3> QED BY <1>0, <2>1, <3>1 DEF Stores
  <2>5. \A r \in revoked' : \A e \in black[r.via] : e.until > now' => e \in black'[r.via]
    BY <1>0, <2>2, <2>4
  <2>6. now' >= now
    BY <1>0, <2>2
  <2> QED BY <1>0, <2>2, <2>3, <2>5, <2>6, StoreStep
<1>3. CASE RedisOutage \/ PgOutage
  <2>1. /\ UNCHANGED <<now, issued, black, conn, session, call, authed, revoked>>
        /\ redisUp' \in BOOLEAN /\ pg' \in BOOLEAN
    BY <1>0, <1>3 DEF RedisOutage, PgOutage, desktop
  <2>2. disturbed' \in BOOLEAN /\ faults' \in 0..MaxFaults
    <3>1. Fault
      BY <1>3 DEF RedisOutage, PgOutage
    <3> QED BY <1>0, <3>1 DEF Fault
  <2>3. now' >= now
    BY <1>0, <2>1
  <2> QED BY <1>0, <2>1, <2>2, <2>3, StoreStep
<1>4. CASE Restart
  <2>1. /\ UNCHANGED <<now, issued, redisUp, pg, session, authed>> /\ conn' \in BOOLEAN
        /\ black' = [black EXCEPT !["mem"] = {}]
        /\ revoked' = {r \in revoked : r.via # "mem"}
        /\ call' = [c \in Calls |->
                      IF call[c].pc \in {"verify", "revoke", "issue"}
                      THEN [call[c] EXCEPT !.pc = "failed"] ELSE call[c]]
    BY <1>0, <1>4 DEF Restart
  <2>2. disturbed' \in BOOLEAN /\ faults' \in 0..MaxFaults
    BY <1>0, <1>4 DEF Restart, Fault
  <2>3. \A c \in Calls : CallOk(call'[c])
    <3> SUFFICES ASSUME NEW c \in Calls PROVE CallOk(call'[c])
      OBVIOUS
    <3>1. CASE call[c].pc \notin {"verify", "revoke", "issue"}
      BY <1>0, <2>1, <3>1
    <3>2. CASE call[c].pc \in {"verify", "revoke", "issue"}
      <4>1. PICK r : r = [call[c] EXCEPT !.pc = "failed"]
        OBVIOUS
      <4>2. /\ r \in CallType /\ r.pc = "failed" /\ r.refr = call[c].refr /\ r.new = call[c].new
            /\ r.tok = call[c].tok /\ r.kind = call[c].kind
        BY <1>0, <4>1 DEF CallType, Steps
      <4>3. CallOk(r)
        BY <1>0, <3>2, <4>2 DEF CallOk
      <4> QED BY <2>1, <3>2, <4>1, <4>3
    <3> QED BY <3>1, <3>2
  <2>4. call' \in [Calls -> CallType]
    BY <2>1, <2>3 DEF CallOk
  <2>5. black' \in [Stores -> SUBSET Entries]
    BY <1>0, <2>1
  <2>6. \A r \in revoked' : \A e \in black[r.via] : e.until > now' => e \in black'[r.via]
    BY <1>0, <2>1
  <2>7. now' >= now
    BY <1>0, <2>1
  <2> QED BY <1>0, <2>1, <2>2, <2>3, <2>4, <2>5, <2>6, <2>7, StoreStep
<1>5. CASE \E e \in black["redis"] : Evict(e)
  <2>1. PICK e \in black["redis"] : Evict(e)
    BY <1>5
  <2>2. /\ UNCHANGED <<now, issued, redisUp, conn, pg, session, call, authed>>
        /\ black' = [black EXCEPT !["redis"] = @ \ {e}]
        /\ revoked' = {r \in revoked : r # [jti |-> e.jti, via |-> "redis"]}
    BY <2>1 DEF Evict, desktop
  <2>3. disturbed' \in BOOLEAN /\ faults' \in 0..MaxFaults
    BY <1>0, <2>1 DEF Evict, Fault
  <2>4. black' \in [Stores -> SUBSET Entries]
    BY <1>0, <2>2
  <2>5. ASSUME NEW r \in revoked', NEW d \in black[r.via], d.jti = r.jti PROVE d \in black'[r.via]
    <3>1. /\ r \in [jti : Jtis, via : Stores] /\ r # [jti |-> e.jti, via |-> "redis"]
          /\ r = [jti |-> r.jti, via |-> r.via] /\ r.via \in Stores
      BY <1>0, <2>2
    <3>2. r.via # "redis" \/ d # e
      BY <2>5, <3>1
    <3> QED BY <1>0, <2>2, <3>1, <3>2
  <2>6. now' >= now /\ revoked' \subseteq revoked
    BY <1>0, <2>2
  <2> QED BY <1>0, <2>2, <2>3, <2>4, <2>5, <2>6, StoreStep
<1> QED BY <1>1, <1>2, <1>3, <1>4, <1>5

\* An answer that is lost.
LEMMA LoseStep ==
  ASSUME IInv, NEW c \in Calls, Lose(c)
  PROVE  IInv'
<1>0. /\ authed \in BOOLEAN /\ SessionOk(session) /\ CallOk(call[c]) /\ call \in [Calls -> CallType]
      /\ faults \in 0..MaxFaults /\ MaxFaults \in Nat
  BY SessionAssumption DEF IInv, TypeOK
<1>1. /\ disturbed' \in BOOLEAN /\ faults' \in 0..MaxFaults
      /\ UNCHANGED <<now, issued, stores, session, authed, revoked>>
  BY <1>0 DEF Lose, Fault
<1>2. CASE Set(c, Idle)
  BY <1>0, <1>1, <1>2, IdleIsOk, CallStep DEF Set
<1>3. CASE Carries(c) /\ Goto(c, "failed")
  <2>1. PICK r : r = [call[c] EXCEPT !.pc = "failed"]
    OBVIOUS
  <2>2. /\ call' = [call EXCEPT ![c] = r] /\ r \in CallType /\ r.pc = "failed"
        /\ r.refr = call[c].refr /\ r.new = call[c].new /\ r.tok = call[c].tok
        /\ r.kind = call[c].kind
    BY <1>3, <2>1, GotoStep DEF Steps
  <2>3. CallOk(r)
    BY <1>0, <1>3, <2>2 DEF CallOk, Carries
  <2> QED BY <1>0, <1>1, <2>2, <2>3, CallStep
<1> QED BY <1>2, <1>3 DEF Lose

\* Every step preserves the inductive invariant.
LEMMA NextIInv == IInv /\ [Next]_vars => IInv'
<1> SUFFICES ASSUME IInv, [Next]_vars PROVE IInv'
  OBVIOUS
<1>1. ASSUME NEW c \in Calls, Continue(c) PROVE IInv'
  BY <1>1, LookupRefreshStep, ServerStep, DesktopStep DEF Continue
<1> QED BY <1>1, CommandStep, LoseStep, SurroundingsStep DEF Next

\* The inductive invariant holds in every reachable state.
THEOREM Invariance == Spec => []IInv
BY InitIInv, NextIInv, PTL DEF Spec

\* Session, commands, tokens and revocations keep their types.
THEOREM TypeCorrect == Spec => []TypeOK
<1>1. IInv => TypeOK
  BY DEF IInv
<1> QED BY <1>1, Invariance, PTL

\* The desktop never takes a token for expired that the Oracle still accepts: it
\* counts the life of a token from the answer, the Oracle from the signature.
THEOREM NeverEarly == Spec => []NotExpiredEarly
<1>1. IInv => NotExpiredEarly
  <2> SUFFICES ASSUME IInv, session # None, session.tok \in Ids
               PROVE  session.texp >= Exp(<<"access", session.tok>>)
    BY DEF NotExpiredEarly
  <2>1. session.tok \in Known
    BY SessionAssumption DEF IInv, SessionOk, Ids
  <2> QED BY <2>1, ExpIsNat DEF IInv, SessionOk
<1> QED BY <1>1, Invariance, PTL

\* A revoked token is refused for the rest of its life while the store that holds
\* the revocation is the one that is asked.
THEOREM Refused == Spec => []RevokedStaysRefused
<1>1. IInv => RevokedStaysRefused
  <2> SUFFICES ASSUME IInv, NEW r \in revoked, now < Exp(r.jti), ~Forgotten(r)
               PROVE  Blacklisted(r.jti)
    BY DEF RevokedStaysRefused
  <2>1. r.via \in Stores /\ r.jti \in Jtis /\ r.jti[2] \in Known /\ now \in Nat
    BY SessionAssumption DEF IInv, TypeOK, Kept
  <2>2. PICK e \in black[r.via] : e.jti = r.jti /\ e.until >= Exp(r.jti)
    BY DEF IInv, Kept
  <2>3. e.until \in Nat
    BY <2>1, <2>2 DEF IInv, TypeOK, Entries
  <2>4. Exp(r.jti) \in Nat
    <3>1. PICK kind \in {"access", "refresh"}, i \in Known : r.jti = <<kind, i>>
      BY <2>1 DEF Jtis
    <3> QED BY <3>1, ExpIsNat
  <2>5. now < e.until
    BY <2>1, <2>2, <2>3, <2>4
  <2> QED BY <2>1, <2>2, <2>5 DEF Forgotten, Blacklisted, Route, Stores
<1> QED BY <1>1, Invariance, PTL

-----------------------------------------------------------------------------
(* Rotation *)

\* No refresh has spent this refresh token.
Unused(i) == \A r \in revoked : r.jti # <<"refresh", i>>

\* The pair a command is about to save is known to nobody else.
Unseen(c) ==
  /\ Unused(call[c].new)
  /\ session # None => session.refr # call[c].new
  /\ \A d \in Calls : Carries(d) => call[d].refr # call[c].new
  /\ \A d \in Calls \ {c} : call[d].pc \in {"answer", "save"} => call[d].new # call[c].new

\* What holds between commands as long as nothing has gone wrong: no two carry
\* the same refresh token, it is not spent before its turn, and answers bring
\* pairs of their own.
Smooth ==
  /\ pg /\ \A i \in Known : ~issued[i].qr
  /\ \A c \in Calls : call[c].pc \notin {"poll", "store"}
  /\ \A c, d \in Calls : /\ Carries(c) /\ Carries(d)
                         /\ call[c].refr # None /\ call[c].refr = call[d].refr
                         => c = d
  /\ \A c \in Calls : call[c].pc \in {"verify", "revoke"} => Unused(call[c].refr)
  /\ \A c \in Calls : call[c].pc \in {"answer", "save"} => Unseen(c)

RotInv == RotationAgrees /\ (~disturbed => Smooth)

\* A step after which nothing is smooth any more, or nothing was.
LEMMA Rough ==
  ASSUME disturbed'
  PROVE  RotInv'
BY DEF RotInv, RotationAgrees

\* The steps of a command that carry nothing.
QuietSteps == {"idle", "lookup", "use", "served", "forget", "clear", "drop", "login"}

\* A session with no other refresh token than before, and no other access token.
Weaker(s, t) ==
  \/ t = None
  \/ t.refr = None
  \/ s # None /\ t.refr = s.refr /\ t.tok \in {s.tok, None, Empty}

\* A command goes to a step that carries nothing, or has failed; no refresh token
\* is spent.
LEMMA QuietRot ==
  ASSUME IInv, RotInv, ~disturbed, NEW c \in Calls, NEW r, call' = [call EXCEPT ![c] = r],
         \/ r.pc \in QuietSteps
         \/ r.pc = "failed" /\ (r.refr = None \/ (Carries(c) /\ r.refr = call[c].refr)),
         call[c].pc \notin {"issue", "answer"}, UNCHANGED <<issued, pg>>,
         \A i : Unused(i) => Unused(i)', Weaker(session, session')
  PROVE  RotInv'
<1>1. call \in [Calls -> CallType] /\ None \notin Ids /\ Empty \notin Ids
  BY SessionAssumption DEF IInv, TypeOK, Ids
<1>2. call'[c] = r /\ \A d \in Calls \ {c} : call'[d] = call[d]
  BY <1>1
<1>3. Smooth /\ RotationAgrees
  BY DEF RotInv
<1>4. Known' = Known
  BY DEF Known
<1>5. \A d \in Calls : Carries(d)' => \/ Carries(d) /\ call'[d].refr = call[d].refr
                                     \/ call'[d].refr = None
  BY <1>2 DEF Carries, QuietSteps
<1>6. \A d \in Calls : call'[d].pc \in {"verify", "revoke", "issue", "answer", "save", "poll", "store"}
                         => call'[d] = call[d]
  BY <1>2 DEF QuietSteps
<1>7. RotationAgrees'
  <2> SUFFICES ASSUME session' # None, session'.refr # None
               PROVE  /\ session'.tok \in Ids => session'.refr = session'.tok
                      /\ \/ Unused(session.refr)'
                         \/ \E d \in Calls : /\ call'[d].pc \in {"issue", "answer"}
                                             /\ call'[d].refr = session'.refr
    BY DEF RotationAgrees, Unused
  <2>1. session # None /\ session'.refr = session.refr /\ session'.tok \in {session.tok, None, Empty}
    BY DEF Weaker
  <2>2. session'.tok \in Ids => session'.refr = session'.tok
    BY <1>1, <1>3, <2>1 DEF RotationAgrees
  <2>3. \/ Unused(session.refr)
        \/ \E d \in Calls : call[d].pc \in {"issue", "answer"} /\ call[d].refr = session.refr
    BY <1>3, <2>1 DEF RotationAgrees, Unused
  <2>4. CASE Unused(session.refr)
    BY <2>1, <2>2, <2>4 DEF Unused
  <2>5. CASE \E d \in Calls : call[d].pc \in {"issue", "answer"} /\ call[d].refr = session.refr
    BY <1>2, <2>1, <2>2, <2>5
  <2> QED BY <2>3, <2>4, <2>5
<1>8. Smooth'
  <2>1. pg' /\ \A i \in Known' : ~issued'[i].qr
    BY <1>3, <1>4 DEF Smooth
  <2>2. \A d \in Calls : call'[d].pc \notin {"poll", "store"}
    BY <1>3, <1>6 DEF Smooth
  <2>3. \A d, e \in Calls : /\ Carries(d)' /\ Carries(e)'
                            /\ call'[d].refr # None /\ call'[d].refr = call'[e].refr
                            => d = e
    BY <1>3, <1>5 DEF Smooth
  <2>4. \A d \in Calls : call'[d].pc \in {"verify", "revoke"} => Unused(call[d].refr)'
    BY <1>3, <1>6 DEF Smooth, Unused
  <2>5. ASSUME NEW d \in Calls, call'[d].pc \in {"answer", "save"} PROVE Unseen(d)'
    <3>1. call'[d] = call[d] /\ Unseen(d)
      BY <1>3, <1>6, <2>5 DEF Smooth
    <3>2. call[d].new # None
      BY <2>5, <3>1 DEF IInv, CallOk
    <3>3. Unused(call[d].new)'
      BY <3>1 DEF Unseen, Unused
    <3>4. session' # None => session'.refr # call'[d].new
      BY <3>1, <3>2 DEF Unseen, Weaker
    <3>5. \A e \in Calls : Carries(e)' => call'[e].refr # call'[d].new
      BY <1>5, <3>1, <3>2 DEF Unseen
    <3>6. \A e \in Calls \ {d} : call'[e].pc \in {"answer", "save"} => call'[e].new # call'[d].new
      BY <1>6, <3>1 DEF Unseen
    <3> QED BY <3>3, <3>4, <3>5, <3>6 DEF Unseen
  <2> QED BY <2>1, <2>2, <2>3, <2>4, <2>5 DEF Smooth
<1> QED BY <1>7, <1>8 DEF RotInv

\* A command takes the session's refresh token, which nobody carries.
LEMMA RefreshRot ==
  ASSUME IInv, RotInv, ~disturbed, NEW c \in Calls, NEW kind, NEW logout,
         Refresh(c, kind, logout), session # None, session.refr # None,
         UNCHANGED <<issued, pg, session, revoked>>
  PROVE  RotInv'
<1> SUFFICES ASSUME ~disturbed' PROVE RotInv'
  BY Rough
<1>1. call \in [Calls -> CallType]
  BY DEF IInv, TypeOK
<1>2. PICK r : call' = [call EXCEPT ![c] = r] /\ r.pc = "verify" /\ r.refr = session.refr
  <2>1. PICK sent : sent = [Idle EXCEPT !.pc = "verify", !.kind = kind, !.logout = logout,
                                        !.refr = session.refr]
    OBVIOUS
  <2>2. sent.pc = "verify" /\ sent.refr = session.refr
    BY <2>1 DEF Idle
  <2>3. PICK r : r = IF kind # "proactive" THEN sent
                     ELSE [sent EXCEPT !.tok = session.tok, !.texp = session.texp]
    OBVIOUS
  <2>4. call' = [call EXCEPT ![c] = r]
    BY <2>1, <2>3 DEF Refresh, Set
  <2>5. r.pc = "verify" /\ r.refr = session.refr
    BY <2>1, <2>3 DEF Idle
  <2> QED BY <2>4, <2>5
<1>3. call'[c] = r /\ \A d \in Calls \ {c} : call'[d] = call[d]
  BY <1>1, <1>2
<1>4. Smooth /\ RotationAgrees
  BY DEF RotInv
<1>5. \A d \in Calls : Carries(d) => call[d].refr # session.refr
  BY DEF Refresh
<1>6. Unused(session.refr)
  BY <1>4, <1>5 DEF RotationAgrees, Unused, Carries
<1>7. Known' = Known /\ (\A i : Unused(i) => Unused(i)')
  BY DEF Known, Unused
<1>8. \A d \in Calls : \/ d # c /\ call'[d] = call[d] /\ (Carries(d)' <=> Carries(d))
                       \/ d = c /\ call'[d].pc = "verify" /\ call'[d].refr = session.refr
  BY <1>2, <1>3 DEF Carries
<1>9. RotationAgrees'
  BY <1>4, <1>6, <1>7 DEF RotationAgrees, Unused
<1>10. Smooth'
  <2>1. pg' /\ \A i \in Known' : ~issued'[i].qr
    BY <1>4, <1>7 DEF Smooth
  <2>2. \A d \in Calls : call'[d].pc \notin {"poll", "store"}
    BY <1>4, <1>8 DEF Smooth
  <2>3. \A d, e \in Calls : /\ Carries(d)' /\ Carries(e)'
                            /\ call'[d].refr # None /\ call'[d].refr = call'[e].refr
                            => d = e
    BY <1>4, <1>5, <1>8 DEF Smooth
  <2>4. \A d \in Calls : call'[d].pc \in {"verify", "revoke"} => Unused(call[d].refr)'
    BY <1>4, <1>6, <1>7, <1>8 DEF Smooth, Unused
  <2>5. ASSUME NEW d \in Calls, call'[d].pc \in {"answer", "save"} PROVE Unseen(d)'
    <3>1. call'[d] = call[d] /\ Unseen(d) /\ d # c
      BY <1>4, <1>8, <2>5 DEF Smooth
    <3>2. Unused(call[d].new)' /\ session'.refr # call'[d].new
      BY <1>7, <3>1 DEF Unseen, Unused
    <3>3. \A e \in Calls : Carries(e)' => call'[e].refr # call'[d].new
      BY <1>8, <3>1 DEF Unseen
    <3>4. \A e \in Calls \ {d} : call'[e].pc \in {"answer", "save"} => call'[e].new # call'[d].new
      BY <1>8, <3>1 DEF Unseen
    <3> QED BY <3>2, <3>3, <3>4 DEF Unseen
  <2> QED BY <2>1, <2>2, <2>3, <2>4, <2>5 DEF Smooth
<1> QED BY <1>9, <1>10 DEF RotInv

\* POST /auth/refresh, up to the revocation: the token is spent by the command
\* that goes on to issue the next pair.
LEMMA SpendRot ==
  ASSUME IInv, RotInv, ~disturbed, NEW c \in Calls, NEW r, call' = [call EXCEPT ![c] = r],
         r.refr = call[c].refr, call[c].refr # None,
         \/ call[c].pc = "verify" /\ r.pc = "revoke" /\ (\A i : Unused(i) => Unused(i)')
         \/ /\ call[c].pc = "revoke" /\ r.pc = "issue"
            /\ \A i : Unused(i) /\ i # call[c].refr => Unused(i)',
         UNCHANGED <<issued, pg, session>>
  PROVE  RotInv'
<1>1. call \in [Calls -> CallType]
  BY DEF IInv, TypeOK
<1>2. call'[c] = r /\ \A d \in Calls \ {c} : call'[d] = call[d]
  BY <1>1
<1>3. Smooth /\ RotationAgrees
  BY DEF RotInv
<1>4. Known' = Known /\ Carries(c) /\ \A i : Unused(i) /\ i # call[c].refr => Unused(i)'
  BY DEF Known, Carries
<1>5. \A d \in Calls : /\ Carries(d)' <=> Carries(d)
                       /\ call'[d].refr = call[d].refr
                       /\ d # c => call'[d] = call[d]
  BY <1>2 DEF Carries
<1>6. \A d \in Calls \ {c} : Carries(d) => call[d].refr # call[c].refr
  BY <1>3, <1>4 DEF Smooth
<1>7. RotationAgrees'
  <2> SUFFICES ASSUME session # None, session.refr # None
               PROVE  \/ Unused(session.refr)'
                      \/ \E d \in Calls : /\ call'[d].pc \in {"issue", "answer"}
                                          /\ call'[d].refr = session.refr
    BY <1>3 DEF RotationAgrees, Unused, RotInv
  <2>1. \/ Unused(session.refr)
        \/ \E d \in Calls : call[d].pc \in {"issue", "answer"} /\ call[d].refr = session.refr
    BY <1>3 DEF RotationAgrees, Unused
  <2>2. CASE Unused(session.refr) /\ session.refr # call[c].refr
    BY <1>4, <2>2 DEF Unused
  <2>3. CASE Unused(session.refr) /\ session.refr = call[c].refr
    BY <1>2, <2>3 DEF Unused
  <2>4. CASE \E d \in Calls : call[d].pc \in {"issue", "answer"} /\ call[d].refr = session.refr
    BY <1>2, <1>5, <2>4
  <2> QED BY <2>1, <2>2, <2>3, <2>4
<1>8. Smooth'
  <2>1. pg' /\ \A i \in Known' : ~issued'[i].qr
    BY <1>3, <1>4 DEF Smooth
  <2>2. \A d \in Calls : call'[d].pc \notin {"poll", "store"}
    BY <1>2, <1>3 DEF Smooth
  <2>3. \A d, e \in Calls : /\ Carries(d)' /\ Carries(e)'
                            /\ call'[d].refr # None /\ call'[d].refr = call'[e].refr
                            => d = e
    BY <1>3, <1>5 DEF Smooth
  <2>4. ASSUME NEW d \in Calls, call'[d].pc \in {"verify", "revoke"} PROVE Unused(call[d].refr)'
    <3>1. CASE d = c
      BY <1>2, <1>3, <2>4, <3>1 DEF Smooth, Unused
    <3>2. CASE d # c
      <4>1. call'[d] = call[d] /\ Unused(call[d].refr) /\ Carries(d)
        BY <1>2, <1>3, <2>4, <3>2 DEF Smooth, Carries
      <4>2. call[d].refr # call[c].refr
        BY <1>6, <3>2, <4>1
      <4> QED BY <1>4, <4>1, <4>2 DEF Unused
    <3> QED BY <3>1, <3>2
  <2>5. ASSUME NEW d \in Calls, call'[d].pc \in {"answer", "save"} PROVE Unseen(d)'
    <3>1. call'[d] = call[d] /\ Unseen(d)
      BY <1>2, <1>3, <2>5 DEF Smooth
    <3>2. call[d].new # call[c].refr /\ Unused(call[d].new)
      BY <1>4, <3>1 DEF Unseen
    <3>3. Unused(call[d].new)'
      BY <1>4, <3>1, <3>2 DEF Unused
    <3>4. session' # None => session'.refr # call'[d].new
      BY <3>1 DEF Unseen
    <3>5. \A e \in Calls : Carries(e)' => call'[e].refr # call'[d].new
      BY <1>5, <3>1 DEF Unseen
    <3>6. \A e \in Calls \ {d} : call'[e].pc \in {"answer", "save"} => call'[e].new # call'[d].new
      BY <1>2, <3>1 DEF Unseen
    <3> QED BY <3>3, <3>4, <3>5, <3>6 DEF Unseen
  <2> QED BY <2>1, <2>2, <2>3, <2>4, <2>5 DEF Smooth
<1> QED BY <1>7, <1>8 DEF RotInv

\* A pair is issued that nobody has seen, to a login or to the refresh that spent
\* the one before.
LEMMA IssueRot ==
  ASSUME IInv, RotInv, ~disturbed, NEW c \in Calls, NEW r, call' = [call EXCEPT ![c] = r],
         Len(issued) < MaxPairs, issued' = Append(issued, NewPair(FALSE)),
         r.refr = call[c].refr, r.new = Len(issued'),
         \/ call[c].pc = "issue" /\ r.pc = "answer"
         \/ call[c].pc = "login" /\ r.pc = "save",
         UNCHANGED <<pg, session, revoked>>
  PROVE  RotInv'
<1>1. call \in [Calls -> CallType] /\ issued \in Seq(Pairs) /\ Len(issued) \in Nat
  BY DEF IInv, TypeOK
<1>2. call'[c] = r /\ \A d \in Calls \ {c} : call'[d] = call[d]
  BY <1>1
<1>3. Smooth /\ RotationAgrees
  BY DEF RotInv
<1>4. /\ Known' = Known \cup {Len(issued')} /\ Len(issued') \notin Known
      /\ \A i \in Known : issued'[i] = issued[i]
      /\ ~issued'[Len(issued')].qr /\ Len(issued') # None
  <2>1. FALSE \in BOOLEAN
    OBVIOUS
  <2>2. /\ Known' = Known \cup {Len(issued')} /\ Len(issued') = Len(issued) + 1
        /\ \A i \in Known : issued'[i] = issued[i]
    BY <2>1, Issue
  <2>3. PICK p : p = NewPair(FALSE)
    OBVIOUS
  <2>4. p \in Pairs /\ p.qr = FALSE
    BY <2>3, SessionAssumption DEF NewPair, Pairs, IInv, TypeOK
  <2>5. issued' = Append(issued, p)
    BY <2>3, Zenon
  <2>6. issued'[Len(issued) + 1] = p
    <3>1. issued \in Seq(Pairs) /\ p \in Pairs
      BY <1>1, <2>4
    <3> QED BY ONLY <2>5, <3>1
  <2>7. ~issued'[Len(issued')].qr
    BY <2>2, <2>4, <2>6
  <2>8. Len(issued') \notin Known /\ Len(issued') # None
    BY <1>1, <2>2, SessionAssumption DEF Known
  <2> QED BY <2>2, <2>7, <2>8
<1>5. PICK n : n = Len(issued')
  OBVIOUS
<1>6. /\ \A i : Unused(i) => Unused(i)'
      /\ Unused(n) /\ n \notin Known /\ n # None
  BY <1>4, <1>5 DEF Unused, IInv, Kept
<1>7. \A d \in Calls : /\ Carries(d)' <=> Carries(d)
                       /\ call'[d].refr = call[d].refr
                       /\ d # c => call'[d] = call[d]
  BY <1>2 DEF Carries
<1>8. \A d \in Calls : call[d].refr # n /\ call[d].new # n
  BY <1>6 DEF IInv, CallOk
<1>9. session # None => session.refr # n
  BY <1>6 DEF IInv, SessionOk
<1>10. RotationAgrees'
  <2> SUFFICES ASSUME session # None, session.refr # None
               PROVE  \/ Unused(session.refr)'
                      \/ \E d \in Calls : /\ call'[d].pc \in {"issue", "answer"}
                                          /\ call'[d].refr = session.refr
    BY <1>3 DEF RotationAgrees, Unused
  <2>1. \/ Unused(session.refr)
        \/ \E d \in Calls : call[d].pc \in {"issue", "answer"} /\ call[d].refr = session.refr
    BY <1>3 DEF RotationAgrees, Unused
  <2> QED BY <1>2, <1>7, <2>1 DEF Unused
<1>11. Smooth'
  <2>1. pg' /\ \A i \in Known' : ~issued'[i].qr
    BY <1>3, <1>4 DEF Smooth
  <2>2. \A d \in Calls : call'[d].pc \notin {"poll", "store"}
    BY <1>2, <1>3 DEF Smooth
  <2>3. \A d, e \in Calls : /\ Carries(d)' /\ Carries(e)'
                            /\ call'[d].refr # None /\ call'[d].refr = call'[e].refr
                            => d = e
    BY <1>3, <1>7 DEF Smooth
  <2>4. \A d \in Calls : call'[d].pc \in {"verify", "revoke"} => Unused(call[d].refr)'
    BY <1>2, <1>3 DEF Smooth, Unused
  <2>5. ASSUME NEW d \in Calls, call'[d].pc \in {"answer", "save"} PROVE Unseen(d)'
    <3>1. CASE d # c
      <4>1. call'[d] = call[d] /\ Unseen(d)
        BY <1>2, <1>3, <2>5, <3>1 DEF Smooth
      <4>2. Unused(call[d].new)' /\ (session' # None => session'.refr # call'[d].new)
        BY <4>1 DEF Unseen, Unused
      <4>3. \A e \in Calls : Carries(e)' => call'[e].refr # call'[d].new
        BY <1>7, <4>1 DEF Unseen
      <4>4. \A e \in Calls \ {d} : call'[e].pc \in {"answer", "save"} => call'[e].new # call'[d].new
        BY <1>2, <1>5, <1>8, <4>1 DEF Unseen
      <4> QED BY <4>2, <4>3, <4>4 DEF Unseen
    <3>2. CASE d = c
      <4>1. call'[d].new = n
        BY <1>2, <1>5, <3>2
      <4>2. Unused(call[d].new)' /\ (session' # None => session'.refr # call'[d].new)
        BY <1>6, <1>9, <4>1 DEF Unused
      <4>3. \A e \in Calls : Carries(e)' => call'[e].refr # call'[d].new
        BY <1>7, <1>8, <4>1
      <4>4. \A e \in Calls \ {d} : call'[e].pc \in {"answer", "save"} => call'[e].new # call'[d].new
        BY <1>2, <1>8, <3>2, <4>1
      <4> QED BY <4>2, <4>3, <4>4 DEF Unseen
    <3> QED BY <3>1, <3>2
  <2> QED BY <2>1, <2>2, <2>3, <2>4, <2>5 DEF Smooth
<1> QED BY <1>10, <1>11 DEF RotInv

\* An answer arrives: the session's tokens are of one pair, which nobody carries.
LEMMA SaveRot ==
  ASSUME IInv, RotInv, ~disturbed, NEW c \in Calls, NEW r, call' = [call EXCEPT ![c] = r],
         r.pc \in QuietSteps, call[c].pc \in {"answer", "save"}, SaveTokens(call[c].new),
         UNCHANGED <<issued, pg, revoked>>
  PROVE  RotInv'
<1>1. call \in [Calls -> CallType]
  BY DEF IInv, TypeOK
<1>2. call'[c] = r /\ \A d \in Calls \ {c} : call'[d] = call[d]
  BY <1>1
<1>3. Smooth /\ RotationAgrees /\ Unseen(c)
  BY DEF RotInv, Smooth
<1>4. Known' = Known /\ \A i : Unused(i) => Unused(i)'
  BY DEF Known, Unused
<1>5. session' # None => session'.tok = call[c].new /\ session'.refr = call[c].new
  BY DEF SaveTokens, UpdateTokens, IInv, SessionOk, SessionType
<1>6. \A d \in Calls : Carries(d)' \/ call'[d].pc \in {"answer", "save", "poll", "store"}
                         => call'[d] = call[d] /\ d # c
  BY <1>2 DEF Carries, QuietSteps
<1>7. RotationAgrees'
  BY <1>3, <1>5 DEF RotationAgrees, Unseen, Unused
<1>8. Smooth'
  <2>1. pg' /\ \A i \in Known' : ~issued'[i].qr
    BY <1>3, <1>4 DEF Smooth
  <2>2. \A d \in Calls : call'[d].pc \notin {"poll", "store"}
    BY <1>3, <1>6 DEF Smooth
  <2>3. \A d, e \in Calls : /\ Carries(d)' /\ Carries(e)'
                            /\ call'[d].refr # None /\ call'[d].refr = call'[e].refr
                            => d = e
    <3>1. \A d \in Calls : Carries(d)' => Carries(d) /\ call'[d] = call[d]
      BY <1>6 DEF Carries
    <3> QED BY <1>3, <3>1 DEF Smooth
  <2>4. \A d \in Calls : call'[d].pc \in {"verify", "revoke"} => Unused(call[d].refr)'
    BY <1>3, <1>6 DEF Smooth, Unused, Carries
  <2>5. ASSUME NEW d \in Calls, call'[d].pc \in {"answer", "save"} PROVE Unseen(d)'
    <3>1. call'[d] = call[d] /\ d # c /\ Unseen(d)
      BY <1>3, <1>6, <2>5 DEF Smooth
    <3>2. Unused(call[d].new)'
      BY <3>1 DEF Unseen, Unused
    <3>3. session' # None => session'.refr # call'[d].new
      BY <1>3, <1>5, <2>5, <3>1 DEF Unseen
    <3>4. \A e \in Calls : Carries(e)' => call'[e].refr # call'[d].new
      BY <1>6, <3>1 DEF Unseen, Carries
    <3>5. \A e \in Calls \ {d} : call'[e].pc \in {"answer", "save"} => call'[e].new # call'[d].new
      BY <1>6, <3>1 DEF Unseen
    <3> QED BY <3>2, <3>3, <3>4, <3>5 DEF Unseen
  <2> QED BY <2>1, <2>2, <2>3, <2>4, <2>5 DEF Smooth
<1> QED BY <1>7, <1>8 DEF RotInv

\* A command that has a client, or is over, carries nothing.
LEMMA QuietCall ==
  ASSUME NEW c \in Calls,
         \/ Finish(c) \/ Set(c, Idle)
         \/ \E tok, logout : Use(c, tok, logout)
         \/ \E pc \in QuietSteps : \E logout : Set(c, [Idle EXCEPT !.pc = pc, !.logout = logout])
         \/ Set(c, [Idle EXCEPT !.pc = "login"])
  PROVE  \E r : call' = [call EXCEPT ![c] = r] /\ r.pc \in QuietSteps
<1>1. Idle.pc \in QuietSteps
  BY DEF Idle, QuietSteps
<1>2. \A pc \in QuietSteps : \A logout : [Idle EXCEPT !.pc = pc, !.logout = logout].pc \in QuietSteps
  BY DEF Idle
<1>3. CASE Finish(c) \/ Set(c, Idle)
  <2>1. [Idle EXCEPT !.pc = "forget", !.logout = TRUE].pc \in QuietSteps
    BY DEF Idle, QuietSteps
  <2> QED BY <1>1, <1>3, <2>1 DEF Finish, Set
<1>4. CASE \E tok, logout : Use(c, tok, logout)
  <2>1. \A tok : [Idle EXCEPT !.pc = "use", !.tok = tok, !.logout = TRUE].pc \in QuietSteps
    BY DEF Idle, QuietSteps
  <2> QED BY <1>1, <1>4, <2>1 DEF Use, Set
<1>5. CASE \E pc \in QuietSteps : \E logout : Set(c, [Idle EXCEPT !.pc = pc, !.logout = logout])
  BY <1>2, <1>5 DEF Set
<1>6. CASE Set(c, [Idle EXCEPT !.pc = "login"])
  <2>1. [Idle EXCEPT !.pc = "login"].pc \in QuietSteps
    BY DEF Idle, QuietSteps
  <2> QED BY <1>6, <2>1 DEF Set
<1> QED BY <1>3, <1>4, <1>5, <1>6

\* get_oracle_client.
LEMMA GetClientRot ==
  ASSUME IInv, RotInv, ~disturbed, NEW c \in Calls, NEW logout, GetClient(c, logout)
  PROVE  RotInv'
<1>1. /\ call[c].pc = "idle" /\ session # None
      /\ UNCHANGED <<issued, pg, session, revoked>>
      /\ Weaker(session, session') /\ (\A i : Unused(i) => Unused(i)')
  BY DEF GetClient, HasSession, stores, Weaker, Unused
<1>2. CASE session.refr # None /\ \E kind \in {"expired", "proactive"} : Refresh(c, kind, logout)
  BY <1>1, <1>2, RefreshRot
<1>3. CASE Set(c, [Idle EXCEPT !.pc = "drop", !.logout = logout]) \/ Use(c, session.tok, logout)
  <2>1. PICK r : call' = [call EXCEPT ![c] = r] /\ r.pc \in QuietSteps
    BY <1>3, QuietCall DEF QuietSteps
  <2> QED BY <1>1, <2>1, QuietRot
<1> QED BY <1>2, <1>3 DEF GetClient

\* try_refresh_oracle_token.
LEMMA TryRefreshRot ==
  ASSUME IInv, RotInv, ~disturbed, NEW c \in Calls, NEW kind, call[c].pc \in {"idle", "lookup"},
         TryRefresh(c, kind), UNCHANGED <<issued, pg, session, revoked>>
  PROVE  RotInv'
<1>1. CASE HasRefresh /\ Refresh(c, kind, FALSE)
  <2>1. session # None /\ session.refr # None /\ Refresh(c, kind, FALSE)
    BY <1>1 DEF HasRefresh
  <2> QED BY <2>1, RefreshRot
<1>2. CASE Set(c, [Idle EXCEPT !.pc = "failed", !.kind = kind])
  <2>1. PICK r : r = [Idle EXCEPT !.pc = "failed", !.kind = kind]
    OBVIOUS
  <2>2. call' = [call EXCEPT ![c] = r] /\ r.pc = "failed" /\ r.refr = None
    BY <1>2, <2>1 DEF Set, Idle
  <2>3. Weaker(session, session') /\ (\A i : Unused(i) => Unused(i)')
    BY DEF Weaker, Unused
  <2> QED BY <2>2, <2>3, QuietRot
<1> QED BY <1>1, <1>2 DEF TryRefresh

\* A command that looks for a token and finds none.
LEMMA LookupRot ==
  ASSUME IInv, RotInv, ~disturbed, NEW c \in Calls, NEW kind, Lookup(c, kind),
         call[c].pc = "idle", UNCHANGED <<issued, pg, session, revoked>>
  PROVE  RotInv'
<1>1. PICK r : r = [Idle EXCEPT !.pc = "lookup", !.kind = kind]
  OBVIOUS
<1>2. call' = [call EXCEPT ![c] = r] /\ r.pc \in QuietSteps
  BY <1>1 DEF Lookup, Set, Idle, QuietSteps
<1>3. Weaker(session, session') /\ (\A i : Unused(i) => Unused(i)')
  BY DEF Weaker, Unused
<1> QED BY <1>2, <1>3, QuietRot

\* Commands that start.
LEMMA CommandRot ==
  ASSUME IInv, RotInv, ~disturbed, NEW c \in Calls, Command(c)
  PROVE  RotInv'
<1>1. CASE Request(c)
  BY <1>1, GetClientRot DEF Request
<1>2. CASE RefreshCommand(c)
  BY <1>2, TryRefreshRot DEF RefreshCommand, stores
<1>7. CASE AuthedClient(c)
  BY <1>7, LookupRot DEF AuthedClient, stores, history
<1>3. CASE AuthStatus(c)
  <2>1. CASE Lookup(c, "status")
    BY <1>3, <2>1, LookupRot DEF AuthStatus, stores, history
  <2>2. CASE UNCHANGED call
    <3>1. call' = [call EXCEPT ![c] = call[c]] /\ call[c].pc = "idle" /\ "idle" \in QuietSteps
      BY <1>3, <2>2 DEF IInv, TypeOK, AuthStatus, QuietSteps
    <3>2. /\ UNCHANGED <<issued, pg>> /\ Weaker(session, session')
          /\ \A i : Unused(i) => Unused(i)'
      BY <1>3 DEF AuthStatus, stores, history, Weaker, Unused
    <3>3. PICK r : r = call[c]
      OBVIOUS
    <3> QED BY <3>1, <3>2, <3>3, QuietRot
  <2> QED BY <1>3, <2>1, <2>2 DEF AuthStatus
<1>4. CASE OracleLogout(c)
  <2>1. CASE GetClient(c, TRUE)
    BY <2>1, GetClientRot
  <2>2. CASE ~GetClient(c, TRUE)
    <3>1. /\ call[c].pc = "idle" /\ UNCHANGED <<issued, pg, session, revoked>>
          /\ Set(c, [Idle EXCEPT !.pc = "forget", !.logout = TRUE])
      BY <1>4, <2>2 DEF OracleLogout, stores, history
    <3>2. PICK r : call' = [call EXCEPT ![c] = r] /\ r.pc \in QuietSteps
      BY <3>1, QuietCall DEF QuietSteps
    <3>3. Weaker(session, session') /\ (\A i : Unused(i) => Unused(i)')
      BY <3>1 DEF Weaker, Unused
    <3> QED BY <3>1, <3>2, <3>3, QuietRot
  <2> QED BY <2>1, <2>2
<1>5. CASE SignIn(c)
  <2>1. /\ call[c].pc = "idle" /\ UNCHANGED <<issued, pg, revoked>>
        /\ Set(c, [Idle EXCEPT !.pc = "login"]) /\ session'.refr = None
    BY <1>5 DEF SignIn, stores, history
  <2>2. PICK r : call' = [call EXCEPT ![c] = r] /\ r.pc \in QuietSteps
    BY <2>1, QuietCall
  <2>3. Weaker(session, session') /\ (\A i : Unused(i) => Unused(i)')
    BY <2>1 DEF Weaker, Unused
  <2> QED BY <2>1, <2>2, <2>3, QuietRot
<1>6. CASE QrApproved(c)
  BY <1>6, Rough DEF QrApproved, Fault
<1> QED BY <1>1, <1>2, <1>3, <1>4, <1>5, <1>6, <1>7 DEF Command

\* The refresh request at the Oracle.
LEMMA ServerRot ==
  ASSUME IInv, RotInv, ~disturbed, NEW c \in Calls,
         RefreshVerify(c) \/ RefreshRevoke(c) \/ RefreshIssue(c) \/ IdentityToken(c)
  PROVE  RotInv'
<1>1. CallOk(call[c]) /\ call \in [Calls -> CallType] /\ call[c] \in CallType
  BY DEF IInv, TypeOK
<1>2. CASE RefreshVerify(c)
  <2>1. call[c].pc = "verify" /\ call[c].refr # None /\ Carries(c)
    BY <1>1, <1>2 DEF RefreshVerify, CallOk, Carries
  <2>2. PICK pc \in {"revoke", "failed"} : Goto(c, pc)
    BY <1>2 DEF RefreshVerify
  <2>3. PICK r : r = [call[c] EXCEPT !.pc = pc]
    OBVIOUS
  <2>4. call' = [call EXCEPT ![c] = r] /\ r.pc = pc /\ r.refr = call[c].refr
    BY <1>1, <2>2, <2>3 DEF Goto, CallType
  <2>5. /\ UNCHANGED <<issued, pg, session>> /\ Weaker(session, session')
        /\ \A i : Unused(i) => Unused(i)'
    BY <1>2 DEF RefreshVerify, stores, history, Weaker, Unused
  <2>6. CASE pc = "failed"
    BY <2>1, <2>4, <2>5, <2>6, QuietRot
  <2>7. CASE pc = "revoke"
    BY <2>1, <2>4, <2>5, <2>7, SpendRot
  <2> QED BY <2>6, <2>7
<1>3. CASE RefreshRevoke(c)
  <2>1. /\ call[c].pc = "revoke" /\ call[c].refr # None /\ Goto(c, "issue")
        /\ UNCHANGED <<issued, pg, session>>
    BY <1>1, <1>3 DEF RefreshRevoke, CallOk
  <2>2. PICK r : r = [call[c] EXCEPT !.pc = "issue"]
    OBVIOUS
  <2>3. call' = [call EXCEPT ![c] = r] /\ r.pc = "issue" /\ r.refr = call[c].refr
    BY <1>1, <2>1, <2>2 DEF Goto, CallType
  <2>4. revoked' = revoked \cup {[jti |-> <<"refresh", call[c].refr>>, via |-> Route]}
    BY <1>3 DEF RefreshRevoke, Blacklist
  <2>5. \A i : Unused(i) /\ i # call[c].refr => Unused(i)'
    BY <2>4 DEF Unused
  <2> QED BY <2>1, <2>3, <2>5, SpendRot
<1>4. CASE RefreshIssue(c)
  <2>1. /\ call[c].pc = "issue" /\ call[c].refr \in Known
        /\ UNCHANGED <<pg, session, revoked>>
    BY <1>1, <1>4 DEF RefreshIssue, CallOk, stores, history
  <2>2. pg /\ ~issued[call[c].refr].qr
    BY <2>1 DEF RotInv, Smooth
  <2>3. /\ Len(issued) < MaxPairs /\ issued' = Append(issued, NewPair(FALSE))
        /\ call' = [call EXCEPT ![c].pc = "answer", ![c].new = Len(issued')]
    BY <1>4, <2>2 DEF RefreshIssue
  <2>4. PICK r : r = [call[c] EXCEPT !.pc = "answer", !.new = Len(issued')]
    OBVIOUS
  <2>5. call' = [call EXCEPT ![c] = r]
    BY <1>1, <2>3, <2>4
  <2>6. r.pc = "answer" /\ r.refr = call[c].refr /\ r.new = Len(issued')
    BY <1>1, <2>4 DEF CallType
  <2> QED BY <2>1, <2>3, <2>5, <2>6, IssueRot
<1>5. CASE IdentityToken(c)
  <2>1. /\ call[c].pc = "login" /\ UNCHANGED <<pg, session, revoked>>
        /\ Len(issued) < MaxPairs /\ issued' = Append(issued, NewPair(FALSE))
        /\ call' = [call EXCEPT ![c].pc = "save", ![c].new = Len(issued')]
    BY <1>5 DEF IdentityToken, stores, history
  <2>2. PICK r : r = [call[c] EXCEPT !.pc = "save", !.new = Len(issued')]
    OBVIOUS
  <2>3. call' = [call EXCEPT ![c] = r]
    BY <1>1, <2>1, <2>2
  <2>4. r.pc = "save" /\ r.refr = call[c].refr /\ r.new = Len(issued')
    BY <1>1, <2>2 DEF CallType
  <2> QED BY <2>1, <2>3, <2>4, IssueRot
<1> QED BY <1>2, <1>3, <1>4, <1>5

\* Tokens that are given up leave less.
LEMMA WithoutWeaker ==
  ASSUME IInv, NEW fields, session' = Without(session, fields)
  PROVE  Weaker(session, session')
<1>1. session # None => session \in SessionType
  BY DEF IInv, SessionOk
<1> QED BY <1>1 DEF Without, Weaker, SessionType

\* A command that carries nothing goes on, and the session gets no other tokens.
LEMMA QuietGoes ==
  ASSUME IInv, RotInv, ~disturbed, NEW c \in Calls,
         \E r : call' = [call EXCEPT ![c] = r] /\ r.pc \in QuietSteps,
         call[c].pc \notin {"issue", "answer"}, UNCHANGED <<issued, pg>>,
         UNCHANGED revoked \/ \E i, via : revoked' = revoked \cup {[jti |-> <<"access", i>>, via |-> via]},
         Weaker(session, session')
  PROVE  RotInv'
<1>1. \A i : Unused(i) => Unused(i)'
  BY DEF Unused
<1> QED BY <1>1, QuietRot

\* The same for a command that keeps what it has.
LEMMA GotoQuiet ==
  ASSUME IInv, NEW c \in Calls, NEW pc \in QuietSteps, Goto(c, pc)
  PROVE  \E r : call' = [call EXCEPT ![c] = r] /\ r.pc \in QuietSteps
<1>1. PICK r : r = [call[c] EXCEPT !.pc = pc]
  OBVIOUS
<1>2. call' = [call EXCEPT ![c] = r] /\ r.pc = pc
  BY <1>1 DEF Goto, IInv, TypeOK, CallType
<1> QED BY <1>2

\* What comes of an answer at the desktop, and of an authenticated request.
LEMMA DesktopRot ==
  ASSUME IInv, RotInv, ~disturbed, NEW c \in Calls,
         \/ RefreshAnswered(c) \/ RefreshFailed(c) \/ DropToken(c) \/ Authenticate(c) \/ Logout(c)
         \/ ForgetToken(c) \/ ClearSession(c) \/ SaveLogin(c) \/ QrRead(c) \/ QrStore(c)
  PROVE  RotInv'
<1> DEFINE Quiet == \E r : call' = [call EXCEPT ![c] = r] /\ r.pc \in QuietSteps
<1>1. CASE RefreshAnswered(c) \/ SaveLogin(c)
  <2>1. Use(c, call[c].new, call[c].logout) \/ Set(c, Idle)
    BY <1>1 DEF RefreshAnswered, SaveLogin
  <2>2. PICK r : call' = [call EXCEPT ![c] = r] /\ r.pc \in QuietSteps
    BY <2>1, QuietCall
  <2>3. /\ call[c].pc \in {"answer", "save"} /\ SaveTokens(call[c].new)
        /\ UNCHANGED <<issued, pg, revoked>>
    BY <1>1 DEF RefreshAnswered, SaveLogin, stores, history
  <2> QED BY <2>2, <2>3, SaveRot
<1>2. CASE RefreshFailed(c)
  <2>1. Weaker(session, session')
    <3>1. CASE session' = session \/ session' = None
      BY <3>1 DEF Weaker
    <3>2. CASE \E fields : session' = Without(session, fields)
      BY <3>2, WithoutWeaker
    <3> QED BY <1>2, <3>1, <3>2 DEF RefreshFailed
  <2>2. Quiet
    BY <1>2, QuietCall DEF RefreshFailed, QuietSteps
  <2>3. call[c].pc = "failed" /\ UNCHANGED <<issued, pg, revoked>>
    BY <1>2 DEF RefreshFailed, stores, history
  <2> QED BY <2>1, <2>2, <2>3, QuietGoes
<1>3. CASE DropToken(c)
  <2>1. Weaker(session, session')
    BY <1>3, WithoutWeaker DEF DropToken
  <2>2. Quiet
    BY <1>3, QuietCall DEF DropToken
  <2>3. call[c].pc = "drop" /\ UNCHANGED <<issued, pg, revoked>>
    BY <1>3 DEF DropToken, stores, history
  <2> QED BY <2>1, <2>2, <2>3, QuietGoes
<1>4. CASE Authenticate(c)
  <2>1. Quiet
    <3>1. CASE Finish(c)
      BY <3>1, QuietCall
    <3>2. CASE Goto(c, "served")
      <4>1. "served" \in QuietSteps
        BY DEF QuietSteps
      <4> QED BY <3>2, <4>1, GotoQuiet
    <3> QED BY <1>4, <3>1, <3>2 DEF Authenticate
  <2>2. call[c].pc = "use" /\ UNCHANGED <<issued, pg, revoked>> /\ Weaker(session, session')
    BY <1>4 DEF Authenticate, stores, history, Weaker
  <2> QED BY <2>1, <2>2, QuietGoes
<1>5. CASE Logout(c)
  <2>1. Quiet
    BY <1>5, QuietCall DEF Logout
  <2>2. call[c].pc = "served" /\ UNCHANGED <<issued, pg>> /\ Weaker(session, session')
    BY <1>5 DEF Logout, Weaker
  <2>3. revoked' = revoked \cup {[jti |-> <<"access", call[c].tok>>, via |-> Route]}
    BY <1>5 DEF Logout, Blacklist
  <2> QED BY <2>1, <2>2, <2>3, QuietGoes
<1>6. CASE ForgetToken(c)
  <2>1. Quiet
    <3>1. Goto(c, "clear") /\ "clear" \in QuietSteps
      BY <1>6 DEF ForgetToken, QuietSteps
    <3> QED BY <3>1, GotoQuiet
  <2>2. call[c].pc = "forget" /\ UNCHANGED <<issued, pg, revoked>>
    BY <1>6 DEF ForgetToken, stores, history
  <2>3. Weaker(session, session')
    <3>1. session # None => session \in SessionType
      BY DEF IInv, SessionOk
    <3> QED BY <1>6, <3>1 DEF ForgetToken, Weaker, SessionType
  <2> QED BY <2>1, <2>2, <2>3, QuietGoes
<1>7. CASE ClearSession(c)
  <2>1. Quiet
    BY <1>7, QuietCall DEF ClearSession
  <2>2. call[c].pc = "clear" /\ UNCHANGED <<issued, pg, revoked>> /\ Weaker(session, session')
    BY <1>7 DEF ClearSession, stores, history, Weaker
  <2> QED BY <2>1, <2>2, QuietGoes
<1>8. CASE QrRead(c) \/ QrStore(c)
  BY <1>8 DEF QrRead, QrStore, RotInv, Smooth
<1> QED BY <1>1, <1>2, <1>3, <1>4, <1>5, <1>6, <1>7, <1>8

\* The clock and the cleanup touch none of it.
LEMMA StillRot ==
  ASSUME RotInv, UNCHANGED <<issued, pg, session, call, revoked, disturbed>>
  PROVE  RotInv'
<1>1. RotationAgrees'
  BY DEF RotInv, RotationAgrees
<1>2. Smooth => Smooth'
  <2> SUFFICES ASSUME Smooth PROVE Smooth'
    OBVIOUS
  <2>1. Known' = Known /\ (\A d \in Calls : Carries(d)' <=> Carries(d))
    BY DEF Known, Carries
  <2>2. \A d \in Calls : Unseen(d) => Unseen(d)'
    BY <2>1 DEF Unseen, Unused
  <2>3. \A d \in Calls : Unused(call[d].refr) => Unused(call[d].refr)'
    BY DEF Unused
  <2> QED BY <2>1, <2>2, <2>3 DEF Smooth
<1> QED BY <1>1, <1>2 DEF RotInv

\* What was disturbed stays so.
LEMMA StaysRough == [Next]_vars /\ disturbed => disturbed'
<1> SUFFICES ASSUME [Next]_vars, disturbed PROVE disturbed'
  OBVIOUS
<1> USE DEF history
<1>1. ASSUME NEW c \in Calls, Command(c) PROVE disturbed'
  BY <1>1 DEF Command, Request, GetClient, AuthedClient, RefreshCommand, AuthStatus, Lookup, TryRefresh,
              Refresh, OracleLogout, SignIn, QrApproved, Fault
<1>2. ASSUME NEW c \in Calls, Continue(c) PROVE disturbed'
  BY <1>2 DEF Continue, LookupRefresh, TryRefresh, Refresh, RefreshVerify, RefreshRevoke, RefreshIssue, RefreshAnswered, RefreshFailed,
              DropToken, Authenticate, Logout, ForgetToken, ClearSession, IdentityToken, SaveLogin,
              QrRead, QrStore
<1>3. ASSUME NEW c \in Calls, Lose(c) PROVE disturbed'
  BY <1>3 DEF Lose, Fault
<1>4. ASSUME \/ Tick \/ Cleanup \/ RedisOutage \/ PgOutage \/ Restart \/ UNCHANGED vars
             \/ \E e \in black["redis"] : Evict(e)
      PROVE  disturbed'
  BY <1>4 DEF Evict, Tick, Cleanup, RedisOutage, PgOutage, Restart, Fault, vars
<1> QED BY <1>1, <1>2, <1>3, <1>4 DEF Next

\* Every step keeps the agreement.
LEMMA NextRot == IInv /\ RotInv /\ [Next]_vars => RotInv'
<1> SUFFICES ASSUME IInv, RotInv, [Next]_vars PROVE RotInv'
  OBVIOUS
<1>1. CASE disturbed \/ disturbed'
  BY <1>1, StaysRough, Rough
<1>2. CASE ~disturbed /\ ~disturbed'
  <2>1. ASSUME NEW c \in Calls, Command(c) PROVE RotInv'
    BY <1>2, <2>1, CommandRot
  <2>2. ASSUME NEW c \in Calls, Continue(c) PROVE RotInv'
    <3>1. CASE LookupRefresh(c)
      BY <1>2, <3>1, TryRefreshRot DEF LookupRefresh, stores
    <3> QED BY <1>2, <2>2, <3>1, ServerRot, DesktopRot DEF Continue
  <2>3. ASSUME Tick \/ Cleanup \/ UNCHANGED vars PROVE RotInv'
    <3>1. UNCHANGED <<issued, pg, session, call, revoked, disturbed>>
      BY <2>3 DEF Tick, Cleanup, vars, stores, desktop, history
    <3> QED BY <3>1, StillRot
  <2>4. ASSUME \/ RedisOutage \/ PgOutage \/ Restart \/ \E c \in Calls : Lose(c)
               \/ \E e \in black["redis"] : Evict(e)
        PROVE  FALSE
    BY <1>2, <2>4 DEF Evict, RedisOutage, PgOutage, Restart, Lose, Fault
  <2> QED BY <2>1, <2>2, <2>3, <2>4 DEF Next
<1> QED BY <1>1, <1>2

\* Rotation agrees: as long as no fault, no QR login and no second refresh of one
\* token has come between, the refresh token the desktop keeps is unspent or being
\* exchanged, and of one pair with its access token (refresh_token, the desktop's
\* save_oracle_tokens).
THEOREM RotationHolds == Spec => []RotationAgrees
<1>1. Init => RotInv
  BY DEF Init, RotInv, RotationAgrees, Smooth, Known, Idle, Carries
<1>2. IInv /\ RotInv /\ [Next]_vars => RotInv'
  BY NextRot
<1>3. RotInv => RotationAgrees
  BY DEF RotInv
<1> QED BY <1>1, <1>2, <1>3, Invariance, PTL DEF Spec
=============================================================================
