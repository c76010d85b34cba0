------------------------------- MODULE Grants -------------------------------
(***************************************************************************)
(* Sharing vault objects with other identities: signed grants that carry a *)
(* file key sealed to a recipient, their revocation and expiry, the        *)
(* deletion of a vault, the recipient's desktop that lists a grant, opens  *)
(* it and fetches the fragments, and the recipient keys an owner trusts.   *)
(*                                                                         *)
(* A step is one SQL statement of an Oracle handler or one call of a       *)
(* desktop command.  Signatures are unforgeable.  An object has the id of  *)
(* its vault's nft_metadata row and is linked to that vault's token, as    *)
(* the desktop registers it.  The signature of a grant is checked before   *)
(* the row is written and not looked at again, so rows leave it out.       *)
(*                                                                         *)
(* The desktop's sharing and trust commands build a client without an      *)
(* access token, so the Oracle refuses them: the callers of create_grant   *)
(* and trust_recipient_key are other clients of the Oracle's API.  Trust   *)
(* is kept per owner and recipient; one such pair is modelled.             *)
(***************************************************************************)
EXTENDS Integers, FiniteSets

CONSTANTS
  Identities,  \* Vaulted identities; each may own an object or receive a grant
  Objects,     \* ids of vaults and of their vault objects
  GrantIds,    \* ids of grants
  MaxKeys,     \* bound: encryption keys the recipient registers
  RequireAuth, \* do storage nodes ask for a token?
  Calls,       \* slots for handlers and commands running concurrently
  None

ASSUME GrantAssumption ==
  MaxKeys \in Nat \ {0} /\ RequireAuth \in BOOLEAN

Keys == 1..MaxKeys
\* A key envelope: the identity it names, the object whose key it carries and
\* which its AAD binds, and whether it is sealed to a key of that identity at
\* all; a legacy key or one of another algorithm is not.
Envelopes == [to : Identities, obj : Objects, sealed : BOOLEAN]
\* What create_grant is asked to grant.
Requests == [obj : Objects, to : Identities, env : Envelopes]
\* A row whose status is active, and whose time is up, is "expired" here.
Rows == [obj : Objects, to : Identities, env : Envelopes,
         status : {"active", "expired", "revoked"}]
ObjectRows == [owner : Identities, status : {"active", "deleted"}]
Idle == [pc |-> "idle"]
CallType ==
  {Idle}
    \cup [pc : {"insert"}, g : GrantIds, req : Requests, owned : BOOLEAN]
    \cup [pc : {"object", "archive"}, obj : Objects]
    \cup [pc : {"access", "fetch"}, g : GrantIds, me : Identities, obj : Objects]
    \cup [pc : {"trust"}, key : Keys]
    \cup [pc : {"row"}, active : Keys]
    \cup [pc : {"different"}, active : Keys, trusted : BOOLEAN]

ASSUME NoneAssumption == None \notin Rows \cup ObjectRows \cup (Objects \X Identities)

VARIABLES
  object,      \* id -> its row of vault_objects
  vault,       \* id -> status of its nft_metadata row (pending_claim is active here)
  grants,      \* grant id -> its row
  key,         \* the recipient's current encryption key, in vaulted_identities
  trust,       \* the recipient's keys the owner trusts and has not revoked
  call,        \* slot -> a handler or command
  chosen,      \* history: grant id -> the object and recipient an owner of the
               \* object chose when the grant was created
  closed,      \* history: grants revoked or expired, and not granted again since
  kept         \* history: slot -> keys trusted since its status call began

vars == <<object, vault, grants, key, trust, call, chosen, closed, kept>>
sharing == <<object, vault, grants, chosen, closed>>
trusting == <<key, trust, kept>>

\* Every variable has its type, and a grant's object exists.
TypeOK ==
  /\ object \in [Objects -> ObjectRows \cup {None}]
  /\ vault \in [Objects -> {"active", "archived"}]
  /\ grants \in [GrantIds -> Rows \cup {None}]
  /\ key \in Keys /\ trust \subseteq Keys
  /\ call \in [Calls -> CallType]
  /\ chosen \in [GrantIds -> (Objects \X Identities) \cup {None}]
  /\ closed \subseteq GrantIds
  /\ kept \in [Calls -> SUBSET Keys]
  /\ \A g \in GrantIds : grants[g] # None => object[grants[g].obj] # None

Init ==
  /\ object = [o \in Objects |-> None] /\ vault = [o \in Objects |-> "active"]
  /\ grants = [g \in GrantIds |-> None]
  /\ key = 1 /\ trust = {}
  /\ call = [c \in Calls |-> Idle]
  /\ chosen = [g \in GrantIds |-> None] /\ closed = {}
  /\ kept = [c \in Calls |-> {}]

Set(c, r) == call' = [call EXCEPT ![c] = r]

-----------------------------------------------------------------------------
(* Vault objects *)

\* register_vault_object inserts the row or changes its owner, whoever that
\* was, and not its status.  (What finalize_vault_mint does to the row when it
\* comes after a deletion is in VaultLifecycle.)
RegisterVaultObject(i, o) ==
  /\ object' = [object EXCEPT ![o] =
       IF @ = None THEN [owner |-> i, status |-> "active"] ELSE [@ EXCEPT !.owner = i]]
  /\ UNCHANGED <<vault, grants, call, chosen, closed, trusting>>

\* load_active_vault_object_for_owner
OwnsObject(i, o) == object[o] # None /\ object[o].status = "active" /\ object[o].owner = i

\* delete_vault, after the burn was verified: first the grants ...
DeleteGrants(c, o) ==
  /\ call[c] = Idle /\ vault[o] = "active" /\ object[o] # None
  /\ grants' = [g \in GrantIds |->
                  IF grants[g] # None /\ grants[g].obj = o
                  THEN [grants[g] EXCEPT !.status = "revoked"] ELSE grants[g]]
  /\ closed' = closed \cup {g \in GrantIds : grants[g] # None /\ grants[g].obj = o}
  /\ Set(c, [pc |-> "object", obj |-> o])
  /\ UNCHANGED <<object, vault, chosen, trusting>>

\* ... then the object ...
DeleteObject(c) ==
  /\ call[c].pc = "object"
  /\ object' = [object EXCEPT ![call[c].obj].status = "deleted"]
  /\ Set(c, [call[c] EXCEPT !.pc = "archive"])
  /\ UNCHANGED <<vault, grants, chosen, closed, trusting>>

\* ... and the nft_metadata row.
DeleteArchive(c) ==
  /\ call[c].pc = "archive"
  /\ vault' = [vault EXCEPT ![call[c].obj] = "archived"]
  /\ Set(c, Idle)
  /\ UNCHANGED <<object, grants, chosen, closed, trusting>>

-----------------------------------------------------------------------------
(* Granting *)

\* normalize_grant_key_envelope: the envelope names the recipient.  What it is
\* sealed for and to, if at all, is not looked at.
ValidEnvelope(req) == req.env.to = req.to

\* Mutant of CreateGrant: the object is not loaded.
CreateGrantUnloaded(c, i, g, req) ==
  /\ call[c] = Idle /\ ValidEnvelope(req)
  /\ Set(c, [pc |-> "insert", g |-> g, req |-> req, owned |-> OwnsObject(i, req.obj)])
  /\ UNCHANGED <<sharing, trusting>>

\* create_grant loads the object and checks the request.  The grant id is what
\* the client says, be it that of another object's grant.  A confirmation of a
\* QR request, with an id the Oracle made (see QrApproval), does the same.
CreateGrant(c, i, g, req) ==
  /\ call[c] = Idle
  /\ OwnsObject(i, req.obj) /\ ValidEnvelope(req)
  /\ Set(c, [pc |-> "insert", g |-> g, req |-> req, owned |-> OwnsObject(i, req.obj)])
  /\ UNCHANGED <<sharing, trusting>>

\* The row INSERT makes of a request.
NewRow(req) ==
  [obj |-> req.obj, to |-> req.to, env |-> req.env, status |-> "active"]

\* Mutant of Upsert: a row that exists takes the recipient of the request, too.
UpsertRecipient(row, req) ==
  IF row = None THEN NewRow(req)
  ELSE [row EXCEPT !.to = req.to, !.env = req.env, !.status = "active"]

\* INSERT ... ON CONFLICT: a row that exists keeps its object and recipient,
\* takes the new envelope and expiry and is active again.
Upsert(row, req) ==
  IF row = None THEN NewRow(req)
  ELSE [row EXCEPT !.env = req.env, !.status = "active"]

\* The row is written, whatever has become of the object and its owner.
InsertGrant(c) ==
  LET g == call[c].g
      req == call[c].req
  IN /\ call[c].pc = "insert"
     /\ grants' = [grants EXCEPT ![g] = Upsert(@, req)]
     /\ chosen' = [chosen EXCEPT ![g] =
          IF grants[g] = None /\ call[c].owned THEN <<req.obj, req.to>> ELSE @]
     /\ closed' = closed \ {g}
     /\ Set(c, Idle)
     /\ UNCHANGED <<object, vault, trusting>>

\* revoke_grant, by whoever owns the grant's object now: one UPDATE with a join.
RevokeGrant(i, g) ==
  /\ grants[g] # None /\ grants[g].status # "revoked" /\ object[grants[g].obj].owner = i
  /\ grants' = [grants EXCEPT ![g].status = "revoked"]
  /\ closed' = closed \cup {g}
  /\ UNCHANGED <<object, vault, chosen, call, trusting>>

\* The time of a grant comes, soon or late: requests say when, and one whose
\* time has passed is refused (EndCall) or expires as soon as it is written.
Expire(g) ==
  /\ grants[g] # None /\ grants[g].status = "active"
  /\ grants' = [grants EXCEPT ![g].status = "expired"]
  /\ closed' = closed \cup {g}
  /\ UNCHANGED <<object, vault, chosen, call, trusting>>

-----------------------------------------------------------------------------
(* The recipient *)

\* incoming_grants: what the recipient's list shows.
Live(g) == grants[g] # None /\ grants[g].status = "active"
Incoming(i, g) == Live(g) /\ grants[g].to = i

\* Mutant of Opens: the AAD does not bind the object.
OpensAnyObject(i, r) == r.to = i /\ r.env.to = r.to /\ r.env.sealed

\* open_grant_file_key, on the installation that has the private key.
Opens(i, r) == r.to = i /\ r.env.to = r.to /\ r.env.obj = r.obj /\ r.env.sealed

\* The rows grant_file_access joins: the grant, its object and its NFT.
Served(g) ==
  /\ Live(g)
  /\ object[grants[g].obj].status = "active" /\ vault[grants[g].obj] = "active"

\* download_incoming_vaulted_grant lists the grants and opens the envelope: it
\* now has the key of the file the envelope was sealed for ...
ListAndOpen(c, i, g) ==
  /\ call[c] = Idle /\ Incoming(i, g) /\ Opens(i, grants[g])
  /\ Set(c, [pc |-> "access", g |-> g, me |-> i, obj |-> grants[g].env.obj])
  /\ UNCHANGED <<sharing, trusting>>

\* Mutant of GrantFileAccess: the grant was listed, so only its recipient is
\* looked at again.
GrantFileAccessListed(c) ==
  /\ call[c].pc = "access" /\ grants[call[c].g].to = call[c].me
  /\ Set(c, [call[c] EXCEPT !.pc = "fetch"])
  /\ UNCHANGED <<sharing, trusting>>

\* ... then asks for the fragments (grant_file_access) ...
GrantFileAccess(c) ==
  /\ call[c].pc = "access" /\ Served(call[c].g) /\ grants[call[c].g].to = call[c].me
  /\ Set(c, [call[c] EXCEPT !.pc = "fetch"])
  /\ UNCHANGED <<sharing, trusting>>

\* ... and gets them from the storage nodes, without a storage token.
FetchFragments(c) ==
  /\ call[c].pc = "fetch" /\ ~RequireAuth
  /\ Set(c, Idle)
  /\ UNCHANGED <<sharing, trusting>>

-----------------------------------------------------------------------------
(* Trusted recipient keys *)

\* register_identity with the keys of another installation, new or old.
RegisterIdentity(k) ==
  /\ k # key /\ key' = k
  /\ UNCHANGED <<sharing, trust, call, kept>>

\* trust_recipient_key reads the recipient's current key and compares ...
TrustCheck(c, k) ==
  /\ call[c] = Idle /\ k = key
  /\ Set(c, [pc |-> "trust", key |-> k])
  /\ UNCHANGED <<sharing, trusting>>

\* ... and stores the decision, which also undoes a revocation.
TrustUpsert(c) ==
  /\ call[c].pc = "trust"
  /\ trust' = trust \cup {call[c].key}
  /\ Set(c, Idle)
  /\ UNCHANGED <<sharing, key, kept>>

\* revoke_recipient_key_trust, of any fingerprint or of a key that was current.
RevokeTrust(k) ==
  /\ k \in trust /\ trust' = trust \ {k}
  /\ kept' = [c \in Calls |-> kept[c] \ {k}]
  /\ UNCHANGED <<sharing, key, call>>

\* recipient_key_trust_status, asked about the current key (a caller may name
\* another one, whose row is then read instead): it reads the current key ...
StatusActive(c) ==
  /\ call[c] = Idle
  /\ Set(c, [pc |-> "row", active |-> key])
  /\ kept' = [kept EXCEPT ![c] = trust]
  /\ UNCHANGED <<sharing, key, trust>>

\* ... then the row of that key ...
StatusRow(c) ==
  /\ call[c].pc = "row"
  /\ Set(c, [pc |-> "different", active |-> call[c].active,
             trusted |-> call[c].active \in trust])
  /\ UNCHANGED <<sharing, trusting>>

\* Mutant of KeyRotationDetected: compared with the key that is current by now.
KeyRotationSinceDetected(c) == ~call[c].trusted /\ trust \ {key} # {}

\* ... and, with load_latest_trusted_different_key, any trusted key but the one
\* it read as current: this is its answer if that statement runs now.
KeyRotationDetected(c) == ~call[c].trusted /\ trust \ {call[c].active} # {}

-----------------------------------------------------------------------------

\* A call ends: it was answered, refused or lost.
EndCall(c) ==
  /\ call[c] # Idle /\ Set(c, Idle)
  /\ kept' = [kept EXCEPT ![c] = {}]
  /\ UNCHANGED <<sharing, key, trust>>

\* build_recipient_key_envelope: a client seals the key of the object it shares,
\* for that object, or sends a legacy key; it may name another recipient.
ClientRequests == {r \in Requests : r.env.obj = r.obj}

Owner ==
  \/ \E i \in Identities, o \in Objects : RegisterVaultObject(i, o)
  \/ \E g \in GrantIds : Expire(g) \/ \E i \in Identities : RevokeGrant(i, g)
  \/ \E k \in Keys : RegisterIdentity(k) \/ RevokeTrust(k)

\* What an idle slot may begin, and how the rest goes on.
Begin(c) ==
  /\ call[c] = Idle
  /\ \/ \E o \in Objects : DeleteGrants(c, o)
     \/ \E i \in Identities, g \in GrantIds, req \in ClientRequests :
          i # req.to /\ CreateGrant(c, i, g, req)
     \/ \E i \in Identities, g \in GrantIds : ListAndOpen(c, i, g)
     \/ \E k \in Keys : TrustCheck(c, k)
     \/ StatusActive(c)

Continue(c) ==
  \/ DeleteObject(c) \/ DeleteArchive(c) \/ InsertGrant(c)
  \/ GrantFileAccess(c) \/ FetchFragments(c)
  \/ TrustUpsert(c) \/ StatusRow(c) \/ EndCall(c)

Next == Owner \/ (\E c \in Calls : Begin(c) \/ Continue(c))

Spec == Init /\ [][Next]_vars

-----------------------------------------------------------------------------
(* Properties *)

\* A grant shares the object, and shares it with the recipient, that an owner
\* of that object chose when the grant was created.  The owner of another
\* object may reuse the id, replace the envelope and the expiry and bring a
\* revoked grant back; it cannot turn the grant to another file or person.
SharedAsChosen ==
  \A g \in GrantIds : grants[g] # None => chosen[g] = <<grants[g].obj, grants[g].to>>

\* The recipient who is handed fragments has the key of that very object from
\* the envelope, though the row was listed and opened in one call, is joined
\* with its object in another, and may be rewritten before and between them by
\* the owner of another object.
KeyFitsFile ==
  [][\A c \in Calls :
       call[c].pc = "access" /\ call'[c].pc = "fetch" =>
         call[c].obj = grants[call[c].g].obj /\ call[c].me = grants[call[c].g].to]_vars

\* grant_file_access hands out nothing for a grant that was revoked or has
\* expired and was not granted again, nor from a vault whose deletion is over,
\* though the recipient listed and opened it before, and though a create_grant
\* that loaded the object before the deletion wrote its grant after it.
ClosedHandsOutNothing ==
  [][\A c \in Calls :
       call[c].pc = "access" /\ call'[c].pc = "fetch" =>
         call[c].g \notin closed /\ vault[grants[call[c].g].obj] = "active"]_vars

\* An owner who trusts some key of the recipient for as long as the status call
\* runs, and asks about the current one, is told that it is trusted or that it
\* has been rotated: not that the recipient is a stranger, whatever keys are
\* registered, trusted and revoked between the three SELECTs.
TrustIsTold ==
  \A c \in Calls :
    call[c].pc = "different" /\ kept[c] # {} => call[c].trusted \/ KeyRotationDetected(c)
=============================================================================
