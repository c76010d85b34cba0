---------------------------- MODULE GrantsProofs ----------------------------
(* Proofs about Grants, for any identities, objects, grants, keys and calls. *)
EXTENDS Grants, TLAPS

\* What a call knows at its next step.  One that is about to write a grant has
\* seen the object with the caller as its owner; one that asks for fragments has
\* opened the envelope of the row's object as the row's recipient.
OnCourse(r) ==
  /\ r.pc = "insert" => r.owned /\ object[r.req.obj] # None
  /\ r.pc = "object" => object[r.obj] # None
  /\ r.pc \in {"access", "fetch"} =>
       grants[r.g] # None /\ grants[r.g].obj = r.obj /\ grants[r.g].to = r.me

\* The keys a status call has seen trusted all the time are trusted, and when
\* the key it read as current is one of them it found its row.
Told(c) ==
  /\ kept[c] \subseteq trust
  /\ call[c].pc = "different" /\ call[c].active \in kept[c] => call[c].trusted

CallsInv == \A c \in Calls : OnCourse(call[c]) /\ Told(c)

\* A grant that was closed and not written since has a row that is not active.
ClosedInv == \A g \in closed : grants[g] # None /\ grants[g].status # "active"

IInv == TypeOK /\ SharedAsChosen /\ ClosedInv /\ CallsInv

-----------------------------------------------------------------------------

\* The initial states satisfy the inductive invariant.
LEMMA InitIInv == Init => IInv
<1> SUFFICES ASSUME Init PROVE IInv
  OBVIOUS
<1>1. Idle \in CallType
  BY DEF CallType
<1>2. TypeOK
  BY <1>1, GrantAssumption DEF Init, TypeOK, Keys
<1>3. SharedAsChosen /\ ClosedInv /\ CallsInv
  BY DEF Init, SharedAsChosen, ClosedInv, CallsInv, OnCourse, Told, Idle
<1> QED BY <1>2, <1>3 DEF IInv

\* The record of a call has the fields of its program point.
LEMMA CallFields ==
  ASSUME IInv, NEW c \in Calls
  PROVE  /\ call[c].pc = "insert" =>
              call[c] \in [pc : {"insert"}, g : GrantIds, req : Requests, owned : BOOLEAN]
         /\ call[c].pc \in {"object", "archive"} =>
              call[c] \in [pc : {"object", "archive"}, obj : Objects]
         /\ call[c].pc \in {"access", "fetch"} =>
              call[c] \in [pc : {"access", "fetch"}, g : GrantIds, me : Identities, obj : Objects]
         /\ call[c].pc = "trust" => call[c] \in [pc : {"trust"}, key : Keys]
         /\ call[c].pc = "row" => call[c] \in [pc : {"row"}, active : Keys]
<1>1. call[c] \in CallType
  BY DEF IInv, TypeOK
<1> QED BY <1>1 DEF CallType, Idle

\* Objects stay, and a row that exists keeps its object and its recipient.
Lasting ==
  /\ \A o \in Objects : object[o] # None => object'[o] # None
  /\ \A g \in GrantIds : grants[g] # None =>
       grants'[g] # None /\ grants'[g].obj = grants[g].obj /\ grants'[g].to = grants[g].to

\* So a call that is not moved stays on course.
LEMMA StaysOnCourse ==
  ASSUME IInv, Lasting, NEW d \in Calls, call'[d] = call[d]
  PROVE  OnCourse(call[d])'
<1>1. OnCourse(call[d])
  BY DEF IInv, CallsInv
<1>2. /\ call[d].pc = "insert" => call[d].req.obj \in Objects
      /\ call[d].pc = "object" => call[d].obj \in Objects
      /\ call[d].pc \in {"access", "fetch"} => call[d].g \in GrantIds
  BY CallFields DEF Requests
<1> QED BY <1>1, <1>2 DEF OnCourse, Lasting

\* A step that leaves trust alone and moves at most the call c, to a state that
\* is on course, keeps every call on course.
LEMMA SharingStep ==
  ASSUME IInv, Lasting, UNCHANGED trusting, NEW c \in Calls, NEW r \in CallType,
         Set(c, r), OnCourse(r)', r.pc # "different"
  PROVE  CallsInv' /\ call' \in [Calls -> CallType]
<1>1. /\ call' \in [Calls -> CallType] /\ call'[c] = r
      /\ \A d \in Calls : d # c => call'[d] = call[d]
  BY DEF Set, IInv, TypeOK
<1> SUFFICES ASSUME NEW d \in Calls PROVE OnCourse(call[d])' /\ Told(d)'
  BY <1>1 DEF CallsInv
<1>2. OnCourse(call[d])'
  BY <1>1, StaysOnCourse
<1>3. Told(d)
  BY DEF IInv, CallsInv
<1>4. Told(d)'
  BY <1>1, <1>3 DEF Told, trusting
<1> QED BY <1>2, <1>4

\* A step that moves no call and leaves trust alone.
LEMMA TableStep ==
  ASSUME IInv, Lasting, UNCHANGED trusting, UNCHANGED call
  PROVE  CallsInv'
<1> SUFFICES ASSUME NEW d \in Calls PROVE OnCourse(call[d])' /\ Told(d)'
  BY DEF CallsInv
<1>1. OnCourse(call[d])'
  BY StaysOnCourse
<1>2. Told(d)
  BY DEF IInv, CallsInv
<1> QED BY <1>1, <1>2 DEF Told, trusting

\* A step that only moves one call, and makes no promise about trusted keys.
LEMMA CallStep ==
  ASSUME IInv, NEW c \in Calls, NEW r \in CallType, Set(c, r), OnCourse(r),
         r.pc # "different", UNCHANGED <<sharing, trusting>>
  PROVE  IInv'
<1>1. Lasting /\ OnCourse(r)' /\ UNCHANGED trusting
  BY DEF Lasting, OnCourse, sharing
<1>2. CallsInv' /\ call' \in [Calls -> CallType]
  BY <1>1, SharingStep
<1>3. TypeOK'
  BY <1>2 DEF IInv, TypeOK, sharing, trusting
<1>4. SharedAsChosen' /\ ClosedInv'
  BY DEF IInv, SharedAsChosen, ClosedInv, sharing
<1> QED BY <1>2, <1>3, <1>4 DEF IInv

-----------------------------------------------------------------------------

\* What an idle slot may begin.
LEMMA BeginStep ==
  ASSUME IInv, NEW c \in Calls, Begin(c)
  PROVE  IInv'
<1>1. ASSUME NEW o \in Objects, DeleteGrants(c, o) PROVE IInv'
  <2> DEFINE r == [pc |-> "object", obj |-> o]
  <2>1. r \in CallType /\ r.pc = "object" /\ r.obj = o
    BY DEF CallType
  <2>2. /\ UNCHANGED <<object, vault, chosen, trusting>> /\ object[o] # None /\ Set(c, r)
        /\ closed' = closed \cup {g \in GrantIds : grants[g] # None /\ grants[g].obj = o}
        /\ grants' = [g \in GrantIds |-> IF grants[g] # None /\ grants[g].obj = o
             THEN [grants[g] EXCEPT !.status = "revoked"] ELSE grants[g]]
    BY <1>1 DEF DeleteGrants
  <2> HIDE DEF r
  <2>3. \A g \in GrantIds :
          /\ grants[g] = None => grants'[g] = None
          /\ grants[g] # None =>
               /\ grants'[g] \in Rows /\ grants'[g].obj = grants[g].obj
               /\ grants'[g].to = grants[g].to
               /\ grants[g].obj = o \/ grants[g].status # "active" => grants'[g].status # "active"
    <3> SUFFICES ASSUME NEW g \in GrantIds, grants[g] # None
                 PROVE  /\ grants'[g] \in Rows /\ grants'[g].obj = grants[g].obj
                        /\ grants'[g].to = grants[g].to
                        /\ grants[g].obj = o \/ grants[g].status # "active" =>
                             grants'[g].status # "active"
      BY <2>2
    <3>1. grants[g] \in Rows
      BY DEF IInv, TypeOK
    <3>2. grants'[g] = IF grants[g].obj = o THEN [grants[g] EXCEPT !.status = "revoked"]
                       ELSE grants[g]
      BY <2>2
    <3> QED BY <3>1, <3>2 DEF Rows
  <2>4. Lasting
    BY <2>2, <2>3, NoneAssumption DEF Lasting
  <2>5. CallsInv' /\ call' \in [Calls -> CallType]
    <3>1. OnCourse(r)' /\ r.pc # "different" /\ UNCHANGED trusting
      BY <2>1, <2>2 DEF OnCourse
    <3> QED BY <2>1, <2>2, <2>4, <3>1, SharingStep
  <2>6. grants' \in [GrantIds -> Rows \cup {None}]
    BY <2>2, <2>3
  <2>7. TypeOK'
    BY <2>2, <2>3, <2>5, <2>6 DEF IInv, TypeOK, trusting
  <2>8. SharedAsChosen'
    BY <2>2, <2>3 DEF IInv, SharedAsChosen
  <2>9. ClosedInv'
    BY <2>2, <2>3, NoneAssumption DEF IInv, TypeOK, ClosedInv
  <2> QED BY <2>5, <2>7, <2>8, <2>9 DEF IInv
<1>2. ASSUME NEW i \in Identities, NEW g \in GrantIds, NEW req \in ClientRequests,
             CreateGrant(c, i, g, req)
      PROVE  IInv'
  <2> DEFINE r == [pc |-> "insert", g |-> g, req |-> req, owned |-> OwnsObject(i, req.obj)]
  <2>1. OwnsObject(i, req.obj) \in BOOLEAN
    BY DEF OwnsObject
  <2>2. r \in CallType
    BY <2>1 DEF CallType, ClientRequests
  <2>3. r.pc = "insert" /\ r.req = req /\ r.owned = OwnsObject(i, req.obj)
    OBVIOUS
  <2>4. Set(c, r) /\ UNCHANGED <<sharing, trusting>> /\ OwnsObject(i, req.obj)
    BY <1>2 DEF CreateGrant
  <2> HIDE DEF r
  <2>5. OnCourse(r) /\ r.pc # "different"
    BY <2>3, <2>4 DEF OnCourse, OwnsObject
  <2> QED BY <2>2, <2>4, <2>5, CallStep
<1>3. ASSUME NEW i \in Identities, NEW g \in GrantIds, ListAndOpen(c, i, g) PROVE IInv'
  <2> DEFINE r == [pc |-> "access", g |-> g, me |-> i, obj |-> grants[g].env.obj]
  <2>1. /\ grants[g] # None /\ grants[g].to = i /\ grants[g].env.obj = grants[g].obj
        /\ Set(c, r) /\ UNCHANGED <<sharing, trusting>>
    BY <1>3 DEF ListAndOpen, Incoming, Live, Opens
  <2>2. grants[g].env.obj \in Objects
    BY <2>1 DEF IInv, TypeOK, Rows
  <2>3. r \in CallType
    BY <2>2 DEF CallType
  <2>4. r.pc = "access" /\ r.g = g /\ r.me = i /\ r.obj = grants[g].env.obj
    OBVIOUS
  <2> HIDE DEF r
  <2>5. OnCourse(r) /\ r.pc # "different"
    BY <2>1, <2>4 DEF OnCourse
  <2> QED BY <2>1, <2>3, <2>5, CallStep
<1>4. ASSUME NEW k \in Keys, TrustCheck(c, k) PROVE IInv'
  <2> DEFINE r == [pc |-> "trust", key |-> k]
  <2>1. r \in CallType /\ OnCourse(r) /\ r.pc # "different"
    BY DEF CallType, OnCourse
  <2>2. Set(c, r) /\ UNCHANGED <<sharing, trusting>>
    BY <1>4 DEF TrustCheck
  <2> QED BY <2>1, <2>2, CallStep
<1>5. CASE StatusActive(c)
  <2> DEFINE r == [pc |-> "row", active |-> key]
  <2>1. r \in CallType /\ r.pc = "row"
    BY DEF CallType, IInv, TypeOK
  <2>2. /\ Set(c, r) /\ kept' = [kept EXCEPT ![c] = trust]
        /\ UNCHANGED <<object, vault, grants, chosen, closed, key, trust>>
    BY <1>5 DEF StatusActive, sharing
  <2> HIDE DEF r
  <2>3. /\ call' \in [Calls -> CallType] /\ call'[c] = r
        /\ \A d \in Calls : d # c => call'[d] = call[d]
    BY <2>1, <2>2 DEF Set, IInv, TypeOK
  <2>4. /\ kept' \in [Calls -> SUBSET Keys] /\ kept'[c] = trust
        /\ \A d \in Calls : d # c => kept'[d] = kept[d]
    BY <2>2 DEF IInv, TypeOK
  <2>5. TypeOK'
    BY <2>2, <2>3, <2>4 DEF IInv, TypeOK
  <2>6. SharedAsChosen' /\ ClosedInv'
    BY <2>2 DEF IInv, SharedAsChosen, ClosedInv
  <2>7. CallsInv'
    <3> SUFFICES ASSUME NEW d \in Calls PROVE OnCourse(call[d])' /\ Told(d)'
      BY DEF CallsInv
    <3>1. Lasting
      BY <2>2 DEF Lasting
    <3>2. Told(d) /\ (d # c => OnCourse(call[d])')
      BY <2>3, <3>1, StaysOnCourse DEF IInv, CallsInv
    <3>3. CASE d = c
      BY <2>1, <2>2, <2>3, <2>4, <3>3 DEF OnCourse, Told
    <3>4. CASE d # c
      BY <2>2, <2>3, <2>4, <3>2, <3>4 DEF Told
    <3> QED BY <3>3, <3>4
  <2> QED BY <2>5, <2>6, <2>7 DEF IInv
<1> QED BY <1>1, <1>2, <1>3, <1>4, <1>5 DEF Begin

-----------------------------------------------------------------------------

\* The upsert of create_grant: a new row is the request's, and an owner of its
\* object made the request; an old row keeps its object and recipient.
LEMMA InsertGrantStep ==
  ASSUME IInv, NEW c \in Calls, InsertGrant(c)
  PROVE  IInv'
<1> DEFINE g == call[c].g
           req == call[c].req
<1>1. /\ call[c].pc = "insert" /\ closed' = closed \ {g} /\ Set(c, Idle)
      /\ UNCHANGED <<object, vault, trusting>>
      /\ grants' = [grants EXCEPT ![g] = Upsert(grants[g], req)]
      /\ chosen' = [chosen EXCEPT ![g] =
           IF grants[g] = None /\ call[c].owned THEN <<req.obj, req.to>> ELSE chosen[g]]
  BY DEF InsertGrant
<1>2. g \in GrantIds /\ req \in Requests /\ Idle \in CallType /\ Idle.pc = "idle"
  BY <1>1, CallFields DEF CallType, Idle
<1>3. call[c].owned /\ object[req.obj] # None
  BY <1>1 DEF IInv, CallsInv, OnCourse
<1> HIDE DEF g, req
<1>4. /\ Upsert(grants[g], req) \in Rows
      /\ grants[g] = None => /\ Upsert(grants[g], req).obj = req.obj
                             /\ Upsert(grants[g], req).to = req.to
      /\ grants[g] # None => /\ Upsert(grants[g], req).obj = grants[g].obj
                             /\ Upsert(grants[g], req).to = grants[g].to
  <2>1. CASE grants[g] = None
    BY <1>2, <2>1 DEF Upsert, NewRow, Rows, Requests
  <2>2. CASE grants[g] # None
    <3>1. grants[g] \in Rows
      BY <1>2, <2>2 DEF IInv, TypeOK
    <3>2. Upsert(grants[g], req) = [grants[g] EXCEPT !.env = req.env, !.status = "active"]
      BY <2>2 DEF Upsert
    <3> QED BY <1>2, <2>2, <3>1, <3>2 DEF Rows, Requests
  <2> QED BY <2>1, <2>2
<1>5. /\ grants' \in [GrantIds -> Rows \cup {None}]
      /\ grants'[g] = Upsert(grants[g], req) /\ grants'[g] # None
      /\ \A h \in GrantIds : h # g => grants'[h] = grants[h]
  BY <1>1, <1>2, <1>4, NoneAssumption DEF IInv, TypeOK
<1>6. /\ chosen' \in [GrantIds -> (Objects \X Identities) \cup {None}]
      /\ chosen'[g] = IF grants[g] = None THEN <<req.obj, req.to>> ELSE chosen[g]
      /\ \A h \in GrantIds : h # g => chosen'[h] = chosen[h]
  BY <1>1, <1>2, <1>3 DEF IInv, TypeOK, Requests
<1>7. Lasting
  <2>1. \A o \in Objects : object[o] # None => object'[o] # None
    BY <1>1
  <2>2. \A h \in GrantIds : grants[h] # None =>
          grants'[h] # None /\ grants'[h].obj = grants[h].obj /\ grants'[h].to = grants[h].to
    BY <1>4, <1>5
  <2> QED BY <2>1, <2>2 DEF Lasting
<1>8. CallsInv' /\ call' \in [Calls -> CallType]
  <2>1. OnCourse(Idle)' /\ Idle.pc # "different" /\ UNCHANGED trusting
    BY <1>1, <1>2 DEF OnCourse
  <2> QED BY <1>1, <1>2, <1>7, <2>1, SharingStep
<1>9. TypeOK'
  <2>1. \A h \in GrantIds : grants'[h] # None => object'[grants'[h].obj] # None
    <3> SUFFICES ASSUME NEW h \in GrantIds, grants'[h] # None
                 PROVE  object[grants'[h].obj] # None
      BY <1>1
    <3>1. grants[h] # None => object[grants[h].obj] # None
      BY DEF IInv, TypeOK
    <3>2. CASE h = g
      BY <1>3, <1>4, <1>5, <3>1, <3>2
    <3>3. CASE h # g
      BY <1>5, <3>1, <3>3
    <3> QED BY <3>2, <3>3
  <2> QED BY <1>1, <1>5, <1>6, <1>8, <2>1 DEF IInv, TypeOK, trusting
<1>10. SharedAsChosen'
  <2> SUFFICES ASSUME NEW h \in GrantIds, grants'[h] # None
               PROVE  chosen'[h] = <<grants'[h].obj, grants'[h].to>>
    BY DEF SharedAsChosen
  <2>1. grants[h] # None => chosen[h] = <<grants[h].obj, grants[h].to>>
    BY DEF IInv, SharedAsChosen
  <2>2. CASE h = g
    BY <1>4, <1>5, <1>6, <2>1, <2>2
  <2>3. CASE h # g
    BY <1>5, <1>6, <2>1, <2>3
  <2> QED BY <2>2, <2>3
<1>11. ClosedInv'
  BY <1>1, <1>5 DEF IInv, TypeOK, ClosedInv
<1> QED BY <1>8, <1>9, <1>10, <1>11 DEF IInv

\* How the other calls go on.
LEMMA ContinueStep ==
  ASSUME IInv, NEW c \in Calls, Continue(c)
  PROVE  IInv'
<1>1. Idle \in CallType /\ Idle.pc # "different" /\ OnCourse(Idle) /\ OnCourse(Idle)'
  BY DEF CallType, Idle, OnCourse
<1>2. CASE DeleteObject(c)
  <2>0. PICK o \in Objects : call[c] = [pc |-> "object", obj |-> o]
    BY <1>2, CallFields DEF DeleteObject
  <2> DEFINE r == [pc |-> "archive", obj |-> o]
  <2>1. /\ object' = [object EXCEPT ![o].status = "deleted"]
        /\ Set(c, r) /\ UNCHANGED <<vault, grants, chosen, closed, trusting>>
    BY <1>2, <2>0 DEF DeleteObject
  <2>2. r \in CallType /\ r.pc = "archive" /\ object[o] # None
    BY <2>0 DEF CallType, IInv, CallsInv, OnCourse
  <2> HIDE DEF r
  <2>3. object[o] \in ObjectRows
    BY <2>2 DEF IInv, TypeOK
  <2>4. object' = [object EXCEPT ![o] = [object[o] EXCEPT !.status = "deleted"]]
    BY <2>1
  <2>5. [object[o] EXCEPT !.status = "deleted"] \in ObjectRows
    BY <2>3 DEF ObjectRows
  <2>6. /\ object' \in [Objects -> ObjectRows \cup {None}] /\ object'[o] # None
        /\ \A p \in Objects : p # o => object'[p] = object[p]
    BY <2>2, <2>4, <2>5, NoneAssumption DEF IInv, TypeOK
  <2>7. Lasting
    BY <2>1, <2>6 DEF Lasting
  <2>8. OnCourse(r)' /\ r.pc # "different" /\ UNCHANGED trusting
    BY <2>1, <2>2 DEF OnCourse
  <2>9. CallsInv' /\ call' \in [Calls -> CallType]
    BY <2>1, <2>2, <2>7, <2>8, SharingStep
  <2>10. TypeOK'
    <3>1. \A g \in GrantIds : grants[g] # None => grants[g].obj \in Objects
      BY DEF IInv, TypeOK, Rows
    <3> QED BY <2>1, <2>6, <2>9, <3>1 DEF IInv, TypeOK, trusting
  <2>11. SharedAsChosen' /\ ClosedInv'
    BY <2>1 DEF IInv, SharedAsChosen, ClosedInv
  <2> QED BY <2>9, <2>10, <2>11 DEF IInv
<1>3. CASE DeleteArchive(c)
  <2>1. /\ call[c].pc = "archive" /\ Set(c, Idle)
        /\ vault' = [vault EXCEPT ![call[c].obj] = "archived"]
        /\ UNCHANGED <<object, grants, chosen, closed, trusting>>
    BY <1>3 DEF DeleteArchive
  <2>2. vault' \in [Objects -> {"active", "archived"}]
    BY <2>1 DEF IInv, TypeOK
  <2>3. Lasting /\ UNCHANGED trusting
    BY <2>1 DEF Lasting
  <2>4. CallsInv' /\ call' \in [Calls -> CallType]
    BY <1>1, <2>1, <2>3, SharingStep
  <2>5. TypeOK' /\ SharedAsChosen' /\ ClosedInv'
    BY <2>1, <2>2, <2>4 DEF IInv, TypeOK, SharedAsChosen, ClosedInv, trusting
  <2> QED BY <2>4, <2>5 DEF IInv
<1>4. CASE GrantFileAccess(c)
  <2> DEFINE r == [call[c] EXCEPT !.pc = "fetch"]
  <2>1. call[c].pc = "access" /\ Set(c, r) /\ UNCHANGED <<sharing, trusting>>
    BY <1>4 DEF GrantFileAccess
  <2>2. r \in CallType /\ r.pc = "fetch" /\ r.g = call[c].g /\ r.me = call[c].me
        /\ r.obj = call[c].obj
    BY <2>1, CallFields DEF CallType
  <2> HIDE DEF r
  <2>3. OnCourse(r) /\ r.pc # "different"
    BY <2>1, <2>2 DEF OnCourse, IInv, CallsInv
  <2> QED BY <2>1, <2>2, <2>3, CallStep
<1>5. CASE FetchFragments(c)
  BY <1>1, <1>5, CallStep DEF FetchFragments
<1>6. CASE TrustUpsert(c)
  <2>1. /\ call[c].pc = "trust" /\ trust' = trust \cup {call[c].key} /\ Set(c, Idle)
        /\ UNCHANGED <<object, vault, grants, chosen, closed, key, kept>>
    BY <1>6 DEF TrustUpsert, sharing
  <2>2. call[c].key \in Keys
    BY <2>1, CallFields
  <2>3. /\ call' \in [Calls -> CallType] /\ call'[c] = Idle
        /\ \A d \in Calls : d # c => call'[d] = call[d]
    BY <1>1, <2>1 DEF Set, IInv, TypeOK
  <2>4. TypeOK' /\ SharedAsChosen' /\ ClosedInv'
    BY <2>1, <2>2, <2>3 DEF IInv, TypeOK, SharedAsChosen, ClosedInv
  <2>5. CallsInv'
    <3> SUFFICES ASSUME NEW d \in Calls PROVE OnCourse(call[d])' /\ Told(d)'
      BY DEF CallsInv
    <3>1. Lasting
      BY <2>1 DEF Lasting
    <3>2. OnCourse(call[d])' /\ Told(d)
      BY <1>1, <2>3, <3>1, StaysOnCourse DEF IInv, CallsInv
    <3> QED BY <1>1, <2>1, <2>3, <3>2 DEF Told
  <2> QED BY <2>4, <2>5 DEF IInv
<1>7. CASE StatusRow(c)
  <2> DEFINE r == [pc |-> "different", active |-> call[c].active,
                   trusted |-> call[c].active \in trust]
  <2>1. call[c].pc = "row" /\ Set(c, r) /\ UNCHANGED <<sharing, trusting>>
    BY <1>7 DEF StatusRow
  <2>2. call[c].active \in Keys /\ (call[c].active \in trust) \in BOOLEAN
    BY <2>1, CallFields
  <2>3. r \in CallType
    BY <2>2 DEF CallType
  <2>4. r.pc = "different" /\ r.active = call[c].active /\ r.trusted = (r.active \in trust)
    OBVIOUS
  <2> HIDE DEF r
  <2>5. /\ call' \in [Calls -> CallType] /\ call'[c] = r
        /\ \A d \in Calls : d # c => call'[d] = call[d]
    BY <2>1, <2>3 DEF Set, IInv, TypeOK
  <2>6. TypeOK' /\ SharedAsChosen' /\ ClosedInv'
    BY <2>1, <2>5 DEF IInv, TypeOK, SharedAsChosen, ClosedInv, sharing, trusting
  <2>7. CallsInv'
    <3> SUFFICES ASSUME NEW d \in Calls PROVE OnCourse(call[d])' /\ Told(d)'
      BY DEF CallsInv
    <3>1. Lasting
      BY <2>1 DEF Lasting, sharing
    <3>2. Told(d) /\ (d # c => OnCourse(call[d])')
      BY <2>5, <3>1, StaysOnCourse DEF IInv, CallsInv
    <3>3. CASE d = c
      BY <2>1, <2>4, <2>5, <3>2, <3>3 DEF OnCourse, Told, trusting
    <3>4. CASE d # c
      BY <2>1, <2>5, <3>2, <3>4 DEF Told, trusting
    <3> QED BY <3>3, <3>4
  <2> QED BY <2>6, <2>7 DEF IInv
<1>8. CASE EndCall(c)
  <2>1. /\ Set(c, Idle) /\ kept' = [kept EXCEPT ![c] = {}]
        /\ UNCHANGED <<object, vault, grants, chosen, closed, key, trust>>
    BY <1>8 DEF EndCall, sharing
  <2>2. /\ call' \in [Calls -> CallType] /\ call'[c] = Idle
        /\ \A d \in Calls : d # c => call'[d] = call[d]
    BY <1>1, <2>1 DEF Set, IInv, TypeOK
  <2>3. /\ kept' \in [Calls -> SUBSET Keys]
        /\ \A d \in Calls : kept'[d] \subseteq kept[d]
    BY <2>1 DEF IInv, TypeOK
  <2>4. TypeOK' /\ SharedAsChosen' /\ ClosedInv'
    BY <2>1, <2>2, <2>3 DEF IInv, TypeOK, SharedAsChosen, ClosedInv
  <2>5. CallsInv'
    <3> SUFFICES ASSUME NEW d \in Calls PROVE OnCourse(call[d])' /\ Told(d)'
      BY DEF CallsInv
    <3>1. Lasting
      BY <2>1 DEF Lasting
    <3>2. OnCourse(call[d])' /\ Told(d)
      BY <1>1, <2>2, <3>1, StaysOnCourse DEF IInv, CallsInv
    <3> QED BY <1>1, <2>1, <2>2, <2>3, <3>2 DEF Told
  <2> QED BY <2>4, <2>5 DEF IInv
<1> QED BY <1>2, <1>3, <1>4, <1>5, <1>6, <1>7, <1>8, InsertGrantStep DEF Continue

-----------------------------------------------------------------------------

\* A step that changes the status of one row to another that is not active.
LEMMA RowCloses ==
  ASSUME IInv, NEW g \in GrantIds, grants[g] # None,
         NEW s \in {"expired", "revoked"}, grants' = [grants EXCEPT ![g].status = s],
         closed' = closed \cup {g}, UNCHANGED <<object, vault, chosen, call, trusting>>
  PROVE  IInv'
<1>1. grants[g] \in Rows
  BY DEF IInv, TypeOK
<1>2. grants' = [grants EXCEPT ![g] = [grants[g] EXCEPT !.status = s]]
  OBVIOUS
<1>3. /\ [grants[g] EXCEPT !.status = s] \in Rows
      /\ [grants[g] EXCEPT !.status = s].obj = grants[g].obj
      /\ [grants[g] EXCEPT !.status = s].to = grants[g].to
      /\ [grants[g] EXCEPT !.status = s].status = s
  BY <1>1 DEF Rows
<1>4. /\ grants' \in [GrantIds -> Rows \cup {None}] /\ grants'[g] # None
      /\ grants'[g].obj = grants[g].obj /\ grants'[g].to = grants[g].to
      /\ grants'[g].status = s
      /\ \A h \in GrantIds : h # g => grants'[h] = grants[h]
  BY <1>2, <1>3, NoneAssumption DEF IInv, TypeOK
<1>5. Lasting /\ UNCHANGED trusting
  BY <1>4 DEF Lasting
<1>6. CallsInv'
  BY <1>5, TableStep
<1>7. TypeOK'
  BY <1>4 DEF IInv, TypeOK, trusting
<1>8. SharedAsChosen'
  BY <1>4 DEF IInv, SharedAsChosen
<1>9. ClosedInv'
  BY <1>4 DEF IInv, TypeOK, ClosedInv
<1> QED BY <1>6, <1>7, <1>8, <1>9 DEF IInv

\* What owners, recipients and time do in one statement.
LEMMA OwnerStep ==
  ASSUME IInv, Owner
  PROVE  IInv'
<1>1. ASSUME NEW i \in Identities, NEW o \in Objects, RegisterVaultObject(i, o) PROVE IInv'
  <2> DEFINE r == IF object[o] = None THEN [owner |-> i, status |-> "active"]
                  ELSE [object[o] EXCEPT !.owner = i]
  <2>1. /\ object' = [object EXCEPT ![o] = r]
        /\ UNCHANGED <<vault, grants, call, chosen, closed, trusting>>
    BY <1>1 DEF RegisterVaultObject
  <2>2. r \in ObjectRows
    BY DEF ObjectRows, IInv, TypeOK
  <2> HIDE DEF r
  <2>3. /\ object' \in [Objects -> ObjectRows \cup {None}] /\ object'[o] # None
        /\ \A p \in Objects : p # o => object'[p] = object[p]
    BY <2>1, <2>2, NoneAssumption DEF IInv, TypeOK
  <2>4. Lasting /\ UNCHANGED trusting /\ UNCHANGED call
    BY <2>1, <2>3 DEF Lasting
  <2>5. CallsInv'
    BY <2>4, TableStep
  <2>6. TypeOK'
    <3>1. \A g \in GrantIds : grants[g] # None => grants[g].obj \in Objects
      BY DEF IInv, TypeOK, Rows
    <3> QED BY <2>1, <2>3, <3>1 DEF IInv, TypeOK, trusting
  <2>7. SharedAsChosen' /\ ClosedInv'
    BY <2>1 DEF IInv, SharedAsChosen, ClosedInv
  <2> QED BY <2>5, <2>6, <2>7 DEF IInv
<1>2. ASSUME NEW g \in GrantIds, Expire(g) PROVE IInv'
  BY <1>2, RowCloses DEF Expire
<1>3. ASSUME NEW g \in GrantIds, NEW i \in Identities, RevokeGrant(i, g) PROVE IInv'
  BY <1>3, RowCloses DEF RevokeGrant
<1>4. ASSUME NEW k \in Keys, RegisterIdentity(k) \/ RevokeTrust(k) PROVE IInv'
  <2>1. /\ UNCHANGED <<object, vault, grants, chosen, closed, call>>
        /\ \/ UNCHANGED <<trust, kept>>
           \/ trust' = trust \ {k} /\ kept' = [c \in Calls |-> kept[c] \ {k}]
        /\ key' \in Keys
    BY <1>4 DEF RegisterIdentity, RevokeTrust, sharing, IInv, TypeOK
  <2>2. /\ trust' \subseteq Keys /\ kept' \in [Calls -> SUBSET Keys]
        /\ \A c \in Calls : kept'[c] \subseteq kept[c]
        /\ (\A c \in Calls : kept[c] \subseteq trust) => \A c \in Calls : kept'[c] \subseteq trust'
    BY <2>1 DEF IInv, TypeOK
  <2>3. TypeOK' /\ SharedAsChosen' /\ ClosedInv'
    BY <2>1, <2>2 DEF IInv, TypeOK, SharedAsChosen, ClosedInv
  <2>4. CallsInv'
    <3>1. \A c \in Calls : Told(c)
      BY DEF IInv, CallsInv
    <3> SUFFICES ASSUME NEW d \in Calls PROVE OnCourse(call[d])' /\ Told(d)'
      BY DEF CallsInv
    <3>2. Lasting
      BY <2>1 DEF Lasting
    <3>3. OnCourse(call[d])'
      BY <2>1, <3>2, StaysOnCourse
    <3>4. Told(d)'
      BY <2>1, <2>2, <3>1 DEF Told
    <3> QED BY <3>3, <3>4
  <2> QED BY <2>3, <2>4 DEF IInv
<1> QED BY <1>1, <1>2, <1>3, <1>4 DEF Owner

-----------------------------------------------------------------------------

\* Every step preserves the inductive invariant.
LEMMA NextIInv == IInv /\ [Next]_vars => IInv'
<1> SUFFICES ASSUME IInv, [Next]_vars PROVE IInv'
  OBVIOUS
<1>1. CASE UNCHANGED vars
  <2>1. Lasting /\ UNCHANGED trusting /\ UNCHANGED call
    BY <1>1 DEF vars, Lasting, trusting
  <2>2. CallsInv'
    BY <2>1, TableStep
  <2>3. TypeOK' /\ SharedAsChosen' /\ ClosedInv'
    BY <1>1 DEF vars, IInv, TypeOK, SharedAsChosen, ClosedInv
  <2> QED BY <2>2, <2>3 DEF IInv
<1> QED BY <1>1, OwnerStep, BeginStep, ContinueStep DEF Next

\* The inductive invariant always holds.
LEMMA Invariant == Spec => []IInv
BY InitIInv, NextIInv, PTL DEF Spec

\* All variables of Grants keep their types, whatever handlers and commands run
\* at once, and no grant is without its object.
THEOREM TypeCorrect == Spec => []TypeOK
BY Invariant, PTL DEF IInv

\* However grant ids are reused, a grant shares the object and has the recipient
\* that an owner of the object chose.
THEOREM Chosen == Spec => []SharedAsChosen
BY Invariant, PTL DEF IInv

\* recipient_key_trust_status does not miss a key that was trusted all along,
\* for any number of keys and whatever happens between its statements.
THEOREM TrustTold == Spec => []TrustIsTold
<1>1. IInv => TrustIsTold
  <2> SUFFICES ASSUME IInv, NEW c \in Calls, call[c].pc = "different", kept[c] # {},
                      ~ call[c].trusted
               PROVE  KeyRotationDetected(c)
    BY DEF TrustIsTold
  <2>1. Told(c)
    BY DEF IInv, CallsInv
  <2>2. PICK k : k \in kept[c]
    OBVIOUS
  <2>3. k \in trust /\ k # call[c].active
    BY <2>1, <2>2 DEF Told
  <2> QED BY <2>3 DEF KeyRotationDetected
<1> QED BY <1>1, Invariant, PTL

-----------------------------------------------------------------------------

\* Only grant_file_access gives a call its fragments.
LEMMA OnlyAccessFetches ==
  ASSUME IInv, Next, NEW c \in Calls, call[c].pc = "access", call'[c].pc = "fetch"
  PROVE  GrantFileAccess(c)
<1>1. ASSUME NEW d \in Calls, NEW r, Set(d, r), r.pc # "fetch" PROVE FALSE
  BY <1>1 DEF Set, IInv, TypeOK
<1>2. ~ UNCHANGED call
  OBVIOUS
<1>3. ~ Owner
  BY <1>2 DEF Owner, RegisterIdentity, RegisterVaultObject, RevokeGrant, RevokeTrust, Expire
<1>4. PICK d \in Calls : Begin(d) \/ Continue(d)
  BY <1>3 DEF Next
<1>5. Idle.pc # "fetch"
  BY DEF Idle
<1>6. ~ Begin(d)
  BY <1>1 DEF Begin, DeleteGrants, CreateGrant, ListAndOpen, TrustCheck, StatusActive
<1>7. ~ (DeleteArchive(d) \/ InsertGrant(d) \/ FetchFragments(d) \/ TrustUpsert(d)
         \/ StatusRow(d) \/ EndCall(d))
  BY <1>1, <1>5 DEF DeleteArchive, InsertGrant, FetchFragments, TrustUpsert, StatusRow, EndCall
<1>8. ~ DeleteObject(d)
  <2> SUFFICES ASSUME DeleteObject(d) PROVE FALSE
    OBVIOUS
  <2>1. [call[d] EXCEPT !.pc = "archive"].pc = "archive"
    BY CallFields DEF DeleteObject
  <2> QED BY <1>1, <2>1 DEF DeleteObject
<1>9. GrantFileAccess(d)
  BY <1>4, <1>6, <1>7, <1>8 DEF Continue
<1>10. d = c
  BY <1>9 DEF GrantFileAccess, Set, IInv, TypeOK
<1> QED BY <1>9, <1>10

\* The recipient who is handed fragments has the key of their object, although
\* the row may be rewritten before and after it is opened.
THEOREM KeyFits == Spec => KeyFitsFile
<1>1. ASSUME IInv, NEW c \in Calls, call[c].pc = "access"
      PROVE  call[c].obj = grants[call[c].g].obj /\ call[c].me = grants[call[c].g].to
  BY <1>1 DEF IInv, CallsInv, OnCourse
<1>2. IInv /\ [Next]_vars =>
        [\A c \in Calls : call[c].pc = "access" /\ call'[c].pc = "fetch" =>
           call[c].obj = grants[call[c].g].obj /\ call[c].me = grants[call[c].g].to]_vars
  BY <1>1
<1> QED BY <1>2, Invariant, PTL DEF Spec, KeyFitsFile

\* grant_file_access gives nothing out for a grant that was closed and not
\* written since, nor from an archived vault.
THEOREM ClosedForGood == Spec => ClosedHandsOutNothing
<1>1. ASSUME IInv, Next, NEW c \in Calls, call[c].pc = "access", call'[c].pc = "fetch"
      PROVE  call[c].g \notin closed /\ vault[grants[call[c].g].obj] = "active"
  <2>1. GrantFileAccess(c)
    BY <1>1, OnlyAccessFetches
  <2> QED BY <1>1, <2>1 DEF GrantFileAccess, Served, Live, IInv, ClosedInv
<1>2. IInv /\ [Next]_vars =>
        [\A c \in Calls : call[c].pc = "access" /\ call'[c].pc = "fetch" =>
           call[c].g \notin closed /\ vault[grants[call[c].g].obj] = "active"]_vars
  BY <1>1
<1> QED BY <1>2, Invariant, PTL DEF Spec, ClosedHandsOutNothing
=============================================================================
