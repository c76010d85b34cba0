-------------------------- MODULE QrApprovalProofs --------------------------
(* Proofs about QrApproval, for any number of concurrent handlers. *)
EXTENDS QrApproval, TLAPS

\* A handler past its SELECT has a row to write to.
RunningHasRow == \A h \in Confirms \cup Polls : at[h] # "idle" => row # None

\* The steps of a confirmation match the kind of the request, and one that is
\* about to approve has written the effect: no other step removes it.
ConfirmOnCourse ==
  \A c \in Confirms :
    /\ at[c] = "object" => kind = "grant"
    /\ at[c] = "effect" => HasEffect
    /\ at[c] = "approve" /\ HasEffect => effect # "none"

IInv == TypeOK /\ RunningHasRow /\ ConfirmOnCourse /\ ApprovedHasEffect

\* The initial states satisfy the inductive invariant.
LEMMA InitIInv == Init => IInv
<1> SUFFICES ASSUME Init PROVE IInv
  OBVIOUS
<1>1. TypeOK
  <2>1. effect \in {"none", "active", "revoked"} /\ (~HasEffect => effect = "none")
    <3>1. CASE kind = "pair"
      BY <3>1 DEF Init, HasEffect
    <3>2. CASE kind # "pair"
      BY <3>2 DEF Init
    <3> QED BY <3>1, <3>2
  <2>2. now \in Times /\ drops \in 0..MaxDrops
    BY QrAssumption DEF Init, Times
  <2> QED BY <2>1, <2>2 DEF Init, TypeOK, ConfirmSteps, PollSteps
<1>2. RunningHasRow /\ ConfirmOnCourse /\ ApprovedHasEffect
  BY DEF Init, RunningHasRow, ConfirmOnCourse, ApprovedHasEffect, Status
<1> QED BY <1>1, <1>2 DEF IInv

\* An UPDATE of the status leaves a well-typed row with the same expiries.
LEMMA SetStatusRow ==
  ASSUME NEW s \in {"pending", "approved", "consumed", "expired"},
         row \in Rows, SetStatus(s)
  PROVE  /\ row' \in Rows /\ row'.status = s /\ row'.gexp = row.gexp /\ row'.exp = row.exp
         /\ row' # None
<1>1. row' \in Rows /\ row'.status = s /\ row'.gexp = row.gexp /\ row'.exp = row.exp
  BY DEF Rows, SetStatus
<1>2. row' # None
  BY <1>1, QrAssumption
<1> QED BY <1>1, <1>2

\* Sending one handler to its next step leaves the others where they are.
LEMMA GotoStep ==
  ASSUME NEW h \in Confirms \cup Polls, NEW step,
         at \in [Confirms \cup Polls -> ConfirmSteps \cup PollSteps],
         step \in ConfirmSteps \cup PollSteps,
         Goto(h, step)
  PROVE  /\ at' \in [Confirms \cup Polls -> ConfirmSteps \cup PollSteps]
         /\ at'[h] = step
         /\ \A k \in Confirms \cup Polls : k # h => at'[k] = at[k]
BY DEF Goto

\* Every step preserves the inductive invariant.
LEMMA NextIInv == IInv /\ [Next]_vars => IInv'
<1> SUFFICES ASSUME IInv, [Next]_vars PROVE IInv'
  OBVIOUS
<1> USE DEF ConfirmSteps, PollSteps
<1>1. CASE Start
  <2>1. PICK life \in {ShortLife, LongLife}, g \in {None} \cup {t \in Times : t > now} :
          Insert(life, g) /\ (g # None => kind = "grant")
    BY <1>1 DEF Start, StartLogin, StartPairing, StartSigning, StartGrant
  <2>2. now + life \in Nat /\ g \in Nat \cup {None}
    BY QrAssumption DEF IInv, TypeOK, Times
  <2>3. row' \in Rows /\ row'.status = "pending" /\ row'.gexp = g
    BY <2>1, <2>2 DEF Insert, Rows
  <2>4. UNCHANGED <<now, kind, at, effect, object, delivered, drops, intime>>
    BY <2>1 DEF Insert
  <2> QED BY <2>1, <2>3, <2>4, QrAssumption
          DEF IInv, TypeOK, RunningHasRow, ConfirmOnCourse, ApprovedHasEffect,
              Status, HasEffect
<1>2. ASSUME NEW c \in Confirms, Confirm(c) PROVE IInv'
  <2>1. PICK next \in {"object", "effect", "approve"} :
          /\ CheckPending(c, next)
          /\ next = "object" => kind = "grant"
          /\ next = "effect" => HasEffect
          /\ next = "approve" => ~HasEffect
    BY <1>2 DEF Confirm, ConfirmLogin, ConfirmPairing, ConfirmSigning,
                ConfirmGrant, HasEffect
  <2>2. PICK step \in {"expire", next} : Goto(c, step)
    BY <2>1 DEF CheckPending
  <2>3. row # None /\ UNCHANGED <<now, kind, row, effect, object, delivered, drops, intime>>
    BY <2>1 DEF CheckPending
  <2>4. /\ at' \in [Confirms \cup Polls -> ConfirmSteps \cup PollSteps]
        /\ at'[c] = step
        /\ \A k \in Confirms \cup Polls : k # c => at'[k] = at[k]
    BY <2>2, GotoStep DEF IInv, TypeOK
  <2> QED BY <2>1, <2>2, <2>3, <2>4, QrAssumption
          DEF IInv, TypeOK, RunningHasRow, ConfirmOnCourse, ApprovedHasEffect,
              Status, HasEffect
<1>3. ASSUME NEW h \in Confirms \cup Polls, Expire(h) PROVE IInv'
  <2>1. row \in Rows
    BY <1>3 DEF Expire, IInv, TypeOK, RunningHasRow
  <2>2. row' \in Rows /\ row'.status = "expired" /\ row'.gexp = row.gexp /\ row' # None
    BY <1>3, <2>1, SetStatusRow DEF Expire
  <2>3. /\ at' \in [Confirms \cup Polls -> ConfirmSteps \cup PollSteps]
        /\ at'[h] = "idle"
        /\ \A k \in Confirms \cup Polls : k # h => at'[k] = at[k]
    BY <1>3, GotoStep DEF Expire, IInv, TypeOK
  <2>4. UNCHANGED <<now, kind, effect, object, delivered, drops, intime>> /\ row # None
    BY <1>3, <2>1, QrAssumption DEF Expire
  <2> QED BY <2>1, <2>2, <2>3, <2>4
          DEF IInv, TypeOK, RunningHasRow, ConfirmOnCourse, ApprovedHasEffect,
              Status, HasEffect
<1>4. ASSUME NEW c \in Confirms, ConfirmObject(c) PROVE IInv'
  <2> DEFINE step == IF object THEN "effect" ELSE "idle"
  <2>1. Goto(c, step) /\ UNCHANGED <<now, kind, row, effect, object, delivered, drops, intime>>
    BY <1>4 DEF ConfirmObject
  <2>2. kind = "grant" /\ step \in {"effect", "idle"} /\ row # None
    BY <1>4 DEF ConfirmObject, IInv, ConfirmOnCourse, RunningHasRow
  <2> HIDE DEF step
  <2>3. /\ at' \in [Confirms \cup Polls -> ConfirmSteps \cup PollSteps]
        /\ at'[c] = step
        /\ \A k \in Confirms \cup Polls : k # c => at'[k] = at[k]
    BY <2>1, <2>2, GotoStep DEF IInv, TypeOK
  <2> QED BY <2>1, <2>2, <2>3, QrAssumption
          DEF IInv, TypeOK, RunningHasRow, ConfirmOnCourse, ApprovedHasEffect,
              Status, HasEffect
<1>5. ASSUME NEW c \in Confirms, Upsert(c) PROVE IInv'
  <2>1. /\ at' \in [Confirms \cup Polls -> ConfirmSteps \cup PollSteps]
        /\ at'[c] = "approve"
        /\ \A k \in Confirms \cup Polls : k # c => at'[k] = at[k]
    BY <1>5, GotoStep DEF Upsert, IInv, TypeOK
  <2>2. HasEffect /\ row # None
    BY <1>5 DEF Upsert, IInv, ConfirmOnCourse, RunningHasRow
  <2>3. effect' = "active" /\ UNCHANGED <<now, kind, row, object, delivered, drops, intime>>
    BY <1>5 DEF Upsert
  <2> QED BY <2>1, <2>2, <2>3, QrAssumption
          DEF IInv, TypeOK, RunningHasRow, ConfirmOnCourse, ApprovedHasEffect,
              Status, HasEffect
<1>6. ASSUME NEW c \in Confirms, ConfirmApprove(c) PROVE IInv'
  <2>1. row \in Rows /\ (HasEffect => effect # "none")
    BY <1>6 DEF ConfirmApprove, IInv, TypeOK, RunningHasRow, ConfirmOnCourse
  <2>2. row' \in Rows /\ row'.status = "approved" /\ row'.gexp = row.gexp /\ row' # None
    BY <1>6, <2>1, SetStatusRow DEF ConfirmApprove
  <2>3. /\ at' \in [Confirms \cup Polls -> ConfirmSteps \cup PollSteps]
        /\ at'[c] = "idle"
        /\ \A k \in Confirms \cup Polls : k # c => at'[k] = at[k]
    BY <1>6, GotoStep DEF ConfirmApprove, IInv, TypeOK
  <2>4. UNCHANGED <<now, kind, effect, object, delivered, drops>> /\ row # None /\ intime' \in BOOLEAN
    BY <1>6, <2>1, QrAssumption DEF ConfirmApprove
  <2> QED BY <2>1, <2>2, <2>3, <2>4, QrAssumption
          DEF IInv, TypeOK, RunningHasRow, ConfirmOnCourse, ApprovedHasEffect,
              Status, HasEffect
<1>7. ASSUME NEW p \in Polls, Poll(p) PROVE IInv'
  <2>1. PICK step \in {"expire", "consume"} : Goto(p, step)
    BY <1>7 DEF Poll, LoginStatus, PairingStatus, SigningStatus, GrantStatus,
                SeeExpired, SeeApproved
  <2>2. row # None /\ UNCHANGED <<now, kind, row, effect, object, delivered, drops, intime>>
    BY <1>7 DEF Poll, LoginStatus, PairingStatus, SigningStatus, GrantStatus,
                SeeExpired, SeeApproved
  <2>3. /\ at' \in [Confirms \cup Polls -> ConfirmSteps \cup PollSteps]
        /\ at'[p] = step
        /\ \A k \in Confirms \cup Polls : k # p => at'[k] = at[k]
    BY <2>1, GotoStep DEF IInv, TypeOK
  <2> QED BY <2>1, <2>2, <2>3, QrAssumption
          DEF IInv, TypeOK, RunningHasRow, ConfirmOnCourse, ApprovedHasEffect,
              Status, HasEffect
<1>8. ASSUME NEW p \in Polls, PollConsume(p) PROVE IInv'
  <2>1. row \in Rows
    BY <1>8 DEF PollConsume, IInv, TypeOK, RunningHasRow
  <2>2. /\ row' \in Rows /\ row'.gexp = row.gexp /\ row' # None
        /\ row'.status \in {"consumed", row.status}
    <3>1. CASE SetStatus("consumed")
      BY <3>1, <2>1, SetStatusRow
    <3>2. CASE UNCHANGED row
      BY <3>2, <2>1, QrAssumption
    <3> QED BY <1>8, <3>1, <3>2 DEF PollConsume
  <2>3. /\ at' \in [Confirms \cup Polls -> ConfirmSteps \cup PollSteps]
        /\ at'[p] = "respond"
        /\ \A k \in Confirms \cup Polls : k # p => at'[k] = at[k]
    BY <1>8, GotoStep DEF PollConsume, IInv, TypeOK
  <2>4. UNCHANGED <<now, kind, effect, object, delivered, drops, intime>> /\ row # None
    BY <1>8, <2>1, QrAssumption DEF PollConsume
  <2> QED BY <2>1, <2>2, <2>3, <2>4, QrAssumption
          DEF IInv, TypeOK, RunningHasRow, ConfirmOnCourse, ApprovedHasEffect,
              Status, HasEffect
<1>9. ASSUME NEW p \in Polls, PollRespond(p) PROVE IInv'
  <2>1. /\ at' \in [Confirms \cup Polls -> ConfirmSteps \cup PollSteps]
        /\ at'[p] = "idle"
        /\ \A k \in Confirms \cup Polls : k # p => at'[k] = at[k]
    BY <1>9, GotoStep DEF PollRespond, IInv, TypeOK
  <2>2. delivered' = TRUE /\ UNCHANGED <<now, kind, row, effect, object, drops, intime>>
    BY <1>9 DEF PollRespond
  <2> QED BY <2>1, <2>2, QrAssumption
          DEF IInv, TypeOK, RunningHasRow, ConfirmOnCourse, ApprovedHasEffect,
              Status, HasEffect
<1>10. ASSUME NEW h \in Confirms \cup Polls, Drop(h) PROVE IInv'
  <2>1. /\ at' \in [Confirms \cup Polls -> ConfirmSteps \cup PollSteps]
        /\ at'[h] = "idle"
        /\ \A k \in Confirms \cup Polls : k # h => at'[k] = at[k]
    BY <1>10, GotoStep DEF Drop, IInv, TypeOK
  <2>2. UNCHANGED <<now, kind, row, effect, object, delivered, intime>>
    BY <1>10 DEF Drop
  <2>3. drops' \in 0..MaxDrops
    BY <1>10, QrAssumption DEF Drop, IInv, TypeOK
  <2> QED BY <2>1, <2>2, <2>3
          DEF IInv, TypeOK, RunningHasRow, ConfirmOnCourse, ApprovedHasEffect,
              Status, HasEffect
<1>11. CASE RevokeIdentityDevice \/ RevokeGrant
  BY <1>11 DEF RevokeIdentityDevice, RevokeGrant, IInv, TypeOK, RunningHasRow, ConfirmOnCourse,
               ApprovedHasEffect, Status, HasEffect
<1>12. CASE ObjectChanges
  BY <1>12 DEF ObjectChanges, IInv, TypeOK, RunningHasRow, ConfirmOnCourse,
               ApprovedHasEffect, Status, HasEffect
<1>13. CASE Tick
  <2>1. now' \in Times
    BY <1>13, QrAssumption DEF Tick, IInv, TypeOK, Times
  <2> QED BY <1>13, <2>1
          DEF Tick, IInv, TypeOK, RunningHasRow, ConfirmOnCourse,
              ApprovedHasEffect, Status, HasEffect
<1>14. CASE UNCHANGED vars
  BY <1>14 DEF vars, IInv, TypeOK, RunningHasRow, ConfirmOnCourse,
               ApprovedHasEffect, Status, HasEffect
<1> QED BY <1>1, <1>2, <1>3, <1>4, <1>5, <1>6, <1>7, <1>8, <1>9, <1>10,
           <1>11, <1>12, <1>13, <1>14 
           DEF Next, ConfirmStep, RegisterDevice, CreateGrant, PollStep

\* QrApproval is type correct: the confirm and status handlers of qr_auth.rs
\* write only statuses and effects of the request's kind, for any number of
\* concurrent handlers.
THEOREM TypeCorrect == Spec => []TypeOK
<1>1. IInv => TypeOK
  BY DEF IInv
<1> QED BY <1>1, InitIInv, NextIInv, PTL DEF Spec

\* Every approved pairing or grant request has its device or grant row, in
\* spite of dropped handlers, revocations and concurrent confirmations.
THEOREM EffectBeforeApproval == Spec => []ApprovedHasEffect
<1>1. IInv => ApprovedHasEffect
  BY DEF IInv
<1> QED BY <1>1, InitIInv, NextIInv, PTL DEF Spec

-----------------------------------------------------------------------------

\* A handler that is about to mark the request as expired saw a pending row too
\* late: no approval in time came before it, and none can come after it.
ExpiresUnapproved ==
  \A h \in Confirms \cup Polls : at[h] = "expire" => Late /\ ~intime

KeptInv == ExpiresUnapproved /\ InTimeApprovalKept

\* What is late stays late: the clock only advances and no UPDATE touches the
\* expiries.
LEMMA LateStays ==
  ASSUME TypeOK, row \in Rows, row' \in Rows, now' \in {now, now + 1},
         row'.exp = row.exp, row'.gexp = row.gexp, Late
  PROVE  Late'
BY QrAssumption DEF TypeOK, Times, Rows, Late, Expired, GrantExpired

\* Every step preserves KeptInv.
LEMMA NextKept == IInv /\ KeptInv /\ [Next]_vars => KeptInv'
<1> SUFFICES ASSUME IInv, KeptInv, [Next]_vars PROVE KeptInv'
  OBVIOUS
<1> USE DEF ConfirmSteps, PollSteps
<1>0. TypeOK /\ (row = None => ~intime)
  BY DEF IInv, KeptInv, InTimeApprovalKept, Status
\* a handler moves on, possibly with an UPDATE of the status
<1>1. ASSUME NEW h \in Confirms \cup Polls, NEW step \in ConfirmSteps \cup PollSteps,
             Goto(h, step), at[h] # "respond", now' = now, row # None,
             delivered' = delivered, drops' = drops,
             \/ step # "expire"
             \/ row.status = "pending" /\ Late /\ intime' = intime,
             \/ UNCHANGED <<row, intime>>
             \/ at[h] = "expire" /\ SetStatus("expired") /\ UNCHANGED intime
             \/ SetStatus("approved") /\ intime' = (intime \/ ~Late)
             \/ h \in Polls /\ step = "respond" /\ SetStatus("consumed") /\ UNCHANGED intime
      PROVE  KeptInv'
  <2>1. /\ at'[h] = step
        /\ \A k \in Confirms \cup Polls : k # h => at'[k] = at[k]
    BY <1>0, <1>1, GotoStep DEF TypeOK
  <2>2. row \in Rows
    BY <1>0, <1>1 DEF TypeOK
  <2>3. row' \in Rows /\ row' # None /\ row'.exp = row.exp /\ row'.gexp = row.gexp
    BY <1>1, <2>2, SetStatusRow, QrAssumption
  <2>4. Late => Late'
    BY <1>0, <1>1, <2>2, <2>3, LateStays
  <2>5. row.status = "pending" => ~intime
    BY <1>1 DEF KeptInv, InTimeApprovalKept, Status
  <2>6. at[h] = "expire" => ~intime
    BY DEF KeptInv, ExpiresUnapproved
  <2>7. Late /\ ~intime => ~intime'
    BY <1>1
  <2>8. ExpiresUnapproved'
    BY <1>1, <2>1, <2>4, <2>5, <2>7 DEF KeptInv, ExpiresUnapproved
  <2>9. CASE UNCHANGED <<row, intime>>
    BY <1>1, <2>1, <2>8, <2>9 DEF KeptInv, InTimeApprovalKept, Status
  <2>10. CASE at[h] = "expire" /\ UNCHANGED intime
    BY <2>6, <2>8, <2>10 DEF KeptInv, InTimeApprovalKept
  <2>11. CASE SetStatus("approved")
    BY <2>2, <2>8, <2>11, SetStatusRow DEF KeptInv, InTimeApprovalKept, Status
  <2>12. CASE h \in Polls /\ step = "respond" /\ SetStatus("consumed")
    BY <2>1, <2>2, <2>8, <2>12, SetStatusRow DEF KeptInv, InTimeApprovalKept, Status
  <2> QED BY <1>1, <2>9, <2>10, <2>11, <2>12
<1>2. CASE Start
  <2>1. row = None /\ UNCHANGED <<at, intime>>
    BY <1>2 DEF Start, StartLogin, StartPairing, StartSigning, StartGrant, Insert
  <2>2. \A h \in Confirms \cup Polls : at[h] = "idle"
    BY <2>1 DEF IInv, RunningHasRow
  <2> QED BY <1>0, <2>1, <2>2 DEF KeptInv, ExpiresUnapproved, InTimeApprovalKept
<1>3. ASSUME NEW c \in Confirms, Confirm(c) PROVE KeptInv'
  BY <1>1, <1>3 DEF Confirm, ConfirmLogin, ConfirmPairing, ConfirmSigning, ConfirmGrant,
                    CheckPending
<1>4. ASSUME NEW c \in Confirms, ConfirmStep(c) PROVE KeptInv'
  <2>1. row # None
    BY <1>4 DEF ConfirmStep, Expire, ConfirmObject, RegisterDevice, CreateGrant, Upsert,
                ConfirmApprove, IInv, RunningHasRow
  <2> QED BY <1>1, <1>4, <2>1
          DEF ConfirmStep, Expire, ConfirmObject, RegisterDevice, CreateGrant, Upsert,
              ConfirmApprove
<1>5. ASSUME NEW p \in Polls, Poll(p) PROVE KeptInv'
  BY <1>1, <1>5 DEF Poll, LoginStatus, PairingStatus, SigningStatus, GrantStatus, SeeExpired,
                    SeeApproved, Late
<1>6. ASSUME NEW p \in Polls, Expire(p) \/ PollConsume(p) PROVE KeptInv'
  <2>1. row # None
    BY <1>6 DEF Expire, PollConsume, IInv, RunningHasRow
  <2> QED BY <1>1, <1>6, <2>1 DEF Expire, PollConsume
\* the handler that ends has answered or was dropped
<1>7. ASSUME NEW h \in Confirms \cup Polls, PollRespond(h) \/ Drop(h) PROVE KeptInv'
  <2>1. \A k \in Confirms \cup Polls : at'[k] = "expire" => at[k] = "expire"
    BY <1>0, <1>7 DEF PollRespond, Drop, Goto, TypeOK
  <2>2. UNCHANGED <<now, row, intime>> /\ (delivered' \/ drops' > 0)
    BY <1>0, <1>7, QrAssumption DEF PollRespond, Drop, TypeOK
  <2> QED BY <2>1, <2>2
          DEF KeptInv, ExpiresUnapproved, InTimeApprovalKept, Status, Late, Expired, GrantExpired
<1>8. CASE RevokeIdentityDevice \/ RevokeGrant \/ ObjectChanges \/ UNCHANGED vars
  BY <1>8 DEF RevokeIdentityDevice, RevokeGrant, ObjectChanges, vars, KeptInv, ExpiresUnapproved,
              InTimeApprovalKept, Status, Late, Expired, GrantExpired
<1>9. CASE Tick
  <2>1. ExpiresUnapproved'
    <3> SUFFICES ASSUME NEW h \in Confirms \cup Polls, at[h] = "expire" PROVE Late' /\ ~intime
      BY <1>9 DEF ExpiresUnapproved, Tick
    <3>1. Late /\ ~intime /\ row # None
      BY DEF KeptInv, ExpiresUnapproved, IInv, RunningHasRow
    <3> QED BY <1>0, <1>9, <3>1, LateStays DEF Tick, TypeOK
  <2> QED BY <1>9, <2>1 DEF Tick, KeptInv, InTimeApprovalKept, Status
<1> QED BY <1>2, <1>3, <1>4, <1>5, <1>6, <1>7, <1>8, <1>9 DEF Next, PollStep

\* An approval written before the request expired is never overwritten by the
\* UPDATEs that mark a request as expired, and its tokens are lost only with a
\* poll that was dropped, for any number of confirmations and polls.
THEOREM InTimeKept == Spec => []InTimeApprovalKept
<1>1. Init => KeptInv
  BY DEF Init, KeptInv, ExpiresUnapproved, InTimeApprovalKept
<1>2. KeptInv => InTimeApprovalKept
  BY DEF KeptInv
<1>3. Spec => []IInv
  BY InitIInv, NextIInv, PTL DEF Spec
<1> QED BY <1>1, <1>2, <1>3, NextKept, PTL DEF Spec

-----------------------------------------------------------------------------

\* A settled request stays settled: a new confirmation finds it decided, and the
\* polls that are still running write `expired' or `consumed'.
LEMMA SettledStep ==
  ASSUME IInv, Settled, [Next]_vars
  PROVE  /\ Settled'
         /\ ~Status("approved") => ~Status("approved")'
         /\ effect = "revoked" => effect' = "revoked"
<1> DEFINE Goal == /\ Settled'
                   /\ ~Status("approved") => ~Status("approved")'
                   /\ effect = "revoked" => effect' = "revoked"
<1>0. /\ row # None /\ row \in Rows /\ row.status # "pending"
      /\ \A c \in Confirms : at[c] = "idle"
      /\ at \in [Confirms \cup Polls -> ConfirmSteps \cup PollSteps]
  BY DEF IInv, TypeOK, Settled, Status
<1>1. ~Start
  BY <1>0 DEF Start, StartLogin, StartPairing, StartSigning, StartGrant, Insert
<1>2. ASSUME NEW c \in Confirms PROVE ~(Confirm(c) \/ ConfirmStep(c) \/ Drop(c))
  BY <1>0 DEF Confirm, ConfirmLogin, ConfirmPairing, ConfirmSigning, ConfirmGrant, CheckPending,
              ConfirmStep, Expire, ConfirmObject, RegisterDevice, CreateGrant, Upsert,
              ConfirmApprove, Drop
\* a poll moves to its next step and may write a status that is not `approved'
<1>3. ASSUME NEW p \in Polls, NEW step \in PollSteps, Goto(p, step), effect' = effect,
             \/ UNCHANGED row
             \/ \E s \in {"expired", "consumed"} : SetStatus(s)
      PROVE  Goal
  <2>1. \A c \in Confirms : at'[c] = "idle"
    BY <1>0, <1>3, QrAssumption DEF Goto
  <2>2. CASE UNCHANGED row
    BY <1>0, <1>3, <2>1, <2>2 DEF Settled, Status
  <2>3. ASSUME NEW s \in {"expired", "consumed"}, SetStatus(s) PROVE Goal
    <3>1. row' # None /\ row'.status = s
      BY <1>0, <2>3, SetStatusRow
    <3> QED BY <1>3, <2>1, <3>1 DEF Settled, Status
  <2> QED BY <1>3, <2>2, <2>3
<1>4. ASSUME NEW p \in Polls, Poll(p) \/ PollStep(p) \/ Drop(p) PROVE Goal
  BY <1>3, <1>4 DEF Poll, LoginStatus, PairingStatus, SigningStatus, GrantStatus, SeeExpired,
                    SeeApproved, PollStep, Expire, PollConsume, PollRespond, Drop, PollSteps
<1>5. CASE RevokeIdentityDevice \/ RevokeGrant \/ ObjectChanges \/ Tick \/ UNCHANGED vars
  BY <1>5 DEF RevokeIdentityDevice, RevokeGrant, ObjectChanges, Tick, vars, Settled, Status
<1> QED BY <1>1, <1>2, <1>4, <1>5 DEF Next

\* A decided request is spent: nothing approves it again or brings back the device
\* or the grant that was revoked since.
THEOREM SettledForGood == Spec => SettledIsFinal
<1> DEFINE Refused == Settled /\ ~Status("approved")
           Revoked == Settled /\ effect = "revoked"
<1>1. IInv /\ Refused /\ [Next]_vars => Refused'
  BY SettledStep
<1>2. IInv /\ Revoked /\ [Next]_vars => Revoked'
  BY SettledStep
<1>3. Refused => ~Status("approved")
  OBVIOUS
<1>4. Revoked => effect = "revoked"
  OBVIOUS
<1>5. Spec => []IInv
  BY InitIInv, NextIInv, PTL DEF Spec
<1>6. Spec => [](Refused => []~Status("approved"))
  <2> HIDE DEF Refused
  <2> QED BY <1>1, <1>3, <1>5, PTL DEF Spec
<1>7. Spec => [](Revoked => [](effect = "revoked"))
  <2> HIDE DEF Revoked
  <2> QED BY <1>2, <1>4, <1>5, PTL DEF Spec
<1> QED BY <1>6, <1>7, PTL DEF SettledIsFinal
=============================================================================
