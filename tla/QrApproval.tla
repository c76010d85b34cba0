----------------------------- MODULE QrApproval -----------------------------
(***************************************************************************)
(* One QR approval request (crates/oracle/src/api/qr_auth.rs).  A desktop  *)
(* starts a request and polls its status; a phone scans the QR code and    *)
(* confirms.  Four kinds share one protocol: login, device pairing, XRPL   *)
(* transaction signing and file grants.  They differ in lifetime, in what  *)
(* the confirmation writes before it approves, and in the poll of a login, *)
(* which hands out the session and consumes the request.                   *)
(*                                                                         *)
(* Every SQL statement is a step; no statement after the first SELECT      *)
(* looks at the status again.                                              *)
(***************************************************************************)
EXTENDS Naturals

CONSTANTS
  ShortLife,   \* lifetime of login and signing requests (2 minutes)
  LongLife,    \* lifetime of pairing and grant requests (5 minutes)
  MaxTime,     \* bound: the last instant of the clock
  Confirms,    \* slots for confirmations served concurrently
  Polls,       \* slots for status polls served concurrently
  MaxDrops,    \* bound: handlers that end before their last statement
  None

Times == 0..MaxTime
Kinds == {"login", "sign", "pair", "grant"}
Rows == [status : {"pending", "approved", "consumed", "expired"},
         exp : Nat, gexp : Nat \cup {None}]
ConfirmSteps == {"idle", "expire", "object", "effect", "approve"}
PollSteps == {"idle", "expire", "consume", "respond"}

ASSUME QrAssumption ==
  /\ ShortLife \in Nat /\ LongLife \in Nat /\ MaxTime \in Nat
  /\ Confirms \cap Polls = {}
  /\ MaxDrops \in Nat
  /\ None \notin Nat \cup Rows

VARIABLES
  now,        \* the clock
  kind,       \* which of the four requests this is
  row,        \* the request's row: status, expires_at, grant_expires_at
  at,         \* handler -> its next step
  effect,     \* the identity_devices row (pairing) or grants row (grant)
  object,     \* is the vault object active, unchanged and the caller's?
  delivered,  \* has a poll answered with the session tokens?
  drops,      \* how many handlers have been dropped
  intime      \* history: has an approval been written before the expiry?

vars == <<now, kind, row, at, effect, object, delivered, drops, intime>>

HasEffect == kind \in {"pair", "grant"}

\* Every variable has its type; only a grant request names a grant expiry and
\* only pairing and grants have an effect.
TypeOK ==
  /\ now \in Times /\ kind \in Kinds
  /\ row \in Rows \cup {None}
  /\ at \in [Confirms \cup Polls -> ConfirmSteps \cup PollSteps]
  /\ \A c \in Confirms : at[c] \in ConfirmSteps
  /\ \A p \in Polls : at[p] \in PollSteps
  /\ effect \in {"none", "active", "revoked"}
  /\ ~HasEffect => effect = "none"
  /\ row # None /\ row.gexp # None => kind = "grant"
  /\ object \in BOOLEAN /\ delivered \in BOOLEAN /\ drops \in 0..MaxDrops
  /\ intime \in BOOLEAN

\* A device may have been registered before; a grant's id is fresh.
Init ==
  /\ now = 0 /\ kind \in Kinds
  /\ row = None
  /\ at = [h \in Confirms \cup Polls |-> "idle"]
  /\ effect \in (IF kind = "pair" THEN {"none", "active", "revoked"} ELSE {"none"})
  /\ object = TRUE /\ delivered = FALSE /\ drops = 0 /\ intime = FALSE

Goto(h, step) == at' = [at EXCEPT ![h] = step]
SetStatus(s) == row' = [row EXCEPT !.status = s]

-----------------------------------------------------------------------------
(* The desktop starts a request *)

\* INSERT of the pending row.
Insert(life, g) ==
  /\ row = None /\ now + life < MaxTime
  /\ row' = [status |-> "pending", exp |-> now + life, gexp |-> g]
  /\ UNCHANGED <<now, kind, at, effect, object, delivered, drops, intime>>

StartLogin == kind = "login" /\ Insert(ShortLife, None)

StartPairing == kind = "pair" /\ Insert(LongLife, None)

StartSigning == kind = "sign" /\ Insert(ShortLife, None)

\* A grant is for an object the caller owns; it may carry an expiry of its
\* own, in the future.
StartGrant ==
  /\ kind = "grant" /\ object
  /\ \E g \in {None} \cup {t \in Times : t > now} : Insert(LongLife, g)

-----------------------------------------------------------------------------
(* The phone confirms *)

Expired == row.exp < now
GrantExpired == row.gexp # None /\ row.gexp <= now
Late == Expired \/ GrantExpired

\* Mutant of CheckPending: a request that has not expired is taken for pending.
CheckPendingAnyStatus(c, next) ==
  /\ at[c] = "idle" /\ row # None
  /\ Late => row.status = "pending"
  /\ Goto(c, IF Late THEN "expire" ELSE next)
  /\ UNCHANGED <<now, kind, row, effect, object, delivered, drops, intime>>

\* SELECT of the row.  A request that is not pending is refused; an expired
\* one is refused after it has been marked; with a valid signature the
\* handler goes on to its first write.
CheckPending(c, next) ==
  /\ at[c] = "idle" /\ row # None
  /\ row.status = "pending"
  /\ Goto(c, IF Late THEN "expire" ELSE next)
  /\ UNCHANGED <<now, kind, row, effect, object, delivered, drops, intime>>

ConfirmLogin(c) == kind = "login" /\ CheckPending(c, "approve")

ConfirmPairing(c) == kind = "pair" /\ CheckPending(c, "effect")

ConfirmSigning(c) == kind = "sign" /\ CheckPending(c, "approve")

ConfirmGrant(c) == kind = "grant" /\ CheckPending(c, "object")

\* UPDATE ... SET status = 'expired', by a confirmation or by a poll.
Expire(h) ==
  /\ at[h] = "expire"
  /\ SetStatus("expired")
  /\ Goto(h, "idle")
  /\ UNCHANGED <<now, kind, effect, object, delivered, drops, intime>>

\* SELECT of the vault object: active, still the caller's, same context hash.
ConfirmObject(c) ==
  /\ at[c] = "object"
  /\ Goto(c, IF object THEN "effect" ELSE "idle")
  /\ UNCHANGED <<now, kind, row, effect, object, delivered, drops, intime>>

Upsert(c) ==
  /\ at[c] = "effect"
  /\ effect' = "active"
  /\ Goto(c, "approve")
  /\ UNCHANGED <<now, kind, row, object, delivered, drops, intime>>

\* Upsert of the device row, which clears revoked_at.
RegisterDevice(c) == kind = "pair" /\ Upsert(c)

\* Mutant of CreateGrant: the grant is left to a later step that never comes.
CreateGrantLater(c) ==
  /\ kind = "grant"
  /\ at[c] = "effect"
  /\ Goto(c, "approve")
  /\ UNCHANGED <<now, kind, row, effect, object, delivered, drops, intime>>

\* Upsert of the grants row with status 'active'.
CreateGrant(c) == kind = "grant" /\ Upsert(c)

\* UPDATE ... SET status = 'approved', whatever the status is by now.
ConfirmApprove(c) ==
  /\ at[c] = "approve"
  /\ SetStatus("approved")
  /\ intime' = (intime \/ ~Late)
  /\ Goto(c, "idle")
  /\ UNCHANGED <<now, kind, effect, object, delivered, drops>>

-----------------------------------------------------------------------------
(* The desktop polls; the answers that change nothing are left out *)

\* Mutant of SeeExpired: the status is not looked at.
SeeExpiredAnyStatus(p) ==
  /\ at[p] = "idle" /\ row # None
  /\ Expired
  /\ Goto(p, "expire")
  /\ UNCHANGED <<now, kind, row, effect, object, delivered, drops, intime>>

\* SELECT of a pending row that has expired.
SeeExpired(p) ==
  /\ at[p] = "idle" /\ row # None
  /\ row.status = "pending" /\ Expired
  /\ Goto(p, "expire")
  /\ UNCHANGED <<now, kind, row, effect, object, delivered, drops, intime>>

\* SELECT of an approved row, with the session tokens.
SeeApproved(p) ==
  /\ at[p] = "idle" /\ row # None
  /\ row.status = "approved"
  /\ Goto(p, "consume")
  /\ UNCHANGED <<now, kind, row, effect, object, delivered, drops, intime>>

LoginStatus(p) == kind = "login" /\ (SeeExpired(p) \/ SeeApproved(p))

PairingStatus(p) == kind = "pair" /\ SeeExpired(p)

SigningStatus(p) == kind = "sign" /\ SeeExpired(p)

GrantStatus(p) == kind = "grant" /\ SeeExpired(p)

\* UPDATE ... SET status = 'consumed'; its failure is ignored.
PollConsume(p) ==
  /\ at[p] = "consume"
  /\ SetStatus("consumed") \/ UNCHANGED row
  /\ Goto(p, "respond")
  /\ UNCHANGED <<now, kind, effect, object, delivered, drops, intime>>

\* The answer carries the tokens that were read with the row.
PollRespond(p) ==
  /\ at[p] = "respond"
  /\ delivered' = TRUE
  /\ Goto(p, "idle")
  /\ UNCHANGED <<now, kind, row, effect, object, drops, intime>>

-----------------------------------------------------------------------------
(* The surroundings *)

\* Mutant of RevokeIdentityDevice: a device that is not there is revoked.
RevokeUnknownDevice ==
  /\ effect # "revoked"
  /\ effect' = "revoked"
  /\ UNCHANGED <<now, kind, row, at, object, delivered, drops, intime>>

\* UPDATE ... SET revoked_at of a registered device.
RevokeIdentityDevice ==
  /\ kind = "pair" /\ effect = "active"
  /\ effect' = "revoked"
  /\ UNCHANGED <<now, kind, row, at, object, delivered, drops, intime>>

RevokeGrant ==
  /\ kind = "grant" /\ effect = "active"
  /\ effect' = "revoked"
  /\ UNCHANGED <<now, kind, row, at, object, delivered, drops, intime>>

\* The vault object is deleted, or re-registered with another owner or token.
ObjectChanges ==
  /\ kind = "grant"
  /\ object' = ~object
  /\ UNCHANGED <<now, kind, row, at, effect, delivered, drops, intime>>

\* The client hangs up or a statement fails: the handler ends where it is.
Drop(h) ==
  /\ at[h] # "idle" /\ drops < MaxDrops
  /\ drops' = drops + 1
  /\ Goto(h, "idle")
  /\ UNCHANGED <<now, kind, row, effect, object, delivered, intime>>

Tick ==
  /\ now < MaxTime
  /\ now' = now + 1
  /\ UNCHANGED <<kind, row, at, effect, object, delivered, drops, intime>>

Start == StartLogin \/ StartPairing \/ StartSigning \/ StartGrant
Confirm(c) == ConfirmLogin(c) \/ ConfirmPairing(c) \/ ConfirmSigning(c) \/ ConfirmGrant(c)
Poll(p) == LoginStatus(p) \/ PairingStatus(p) \/ SigningStatus(p) \/ GrantStatus(p)

ConfirmStep(c) ==
  \/ Expire(c) \/ ConfirmObject(c)
  \/ RegisterDevice(c) \/ CreateGrant(c)
  \/ ConfirmApprove(c)
PollStep(p) == Expire(p) \/ PollConsume(p) \/ PollRespond(p)

Next ==
  \/ Start
  \/ \E c \in Confirms : Confirm(c) \/ ConfirmStep(c) \/ Drop(c)
  \/ \E p \in Polls : Poll(p) \/ PollStep(p) \/ Drop(p)
  \/ RevokeIdentityDevice \/ RevokeGrant \/ ObjectChanges
  \/ Tick

Spec == Init /\ [][Next]_vars

-----------------------------------------------------------------------------
(* Properties *)

Status(s) == row # None /\ row.status = s

\* An approved pairing has its device row and an approved file grant its grant
\* row: the confirm handlers write the effect before they approve, and no
\* dropped handler, revocation or concurrent confirmation leaves an approval
\* without one.
ApprovedHasEffect == Status("approved") /\ HasEffect => effect # "none"

\* The request is decided and no confirmation that read it earlier is running.
Settled == row # None /\ ~Status("pending") /\ \A c \in Confirms : at[c] = "idle"

\* Once settled a request is spent: no later confirmation approves it again or
\* brings back the device or grant that was revoked since (the status check of
\* the confirm handlers).
SettledIsFinal ==
  /\ [](Settled /\ ~Status("approved") => []~Status("approved"))
  /\ [](Settled /\ effect = "revoked" => [](effect = "revoked"))

\* An approval that was written before the request expired is not lost in the
\* Oracle: no confirmation or poll that sees the expiry later overwrites it, and
\* when a poll has consumed it, the session tokens are in that poll's answer or
\* the poll was dropped.
InTimeApprovalKept ==
  intime => \/ Status("approved")
            \/ /\ Status("consumed")
               /\ delivered \/ drops > 0 \/ \E p \in Polls : at[p] = "respond"
=============================================================================
