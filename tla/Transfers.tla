----------------------------- MODULE Transfers -----------------------------
(***************************************************************************)
(* The transfer of one vault NFT between users.  Three parties act on it:  *)
(* the Oracle's handlers (crates/oracle/src/api/transfers.rs), the Oracle's*)
(* ledger synchronisation (sync.rs), which an admin starts, and the        *)
(* desktop clients of sender and recipient                                 *)
(* (desktop-client/src/commands.rs), with the XRP Ledger, which is         *)
(* external, between them.                                                 *)
(*                                                                         *)
(* Every SQL statement and every ledger query is a step of its own: the    *)
(* handlers use no transaction and no row lock.  Rows of different NFTs    *)
(* share nothing, so one NFT is modelled.                                  *)
(***************************************************************************)
EXTENDS Naturals, FiniteSets

CONSTANTS
  Users,         \* registered wallets
  Outsiders,     \* wallets the Oracle does not know
  Minter,        \* the first owner
  MaxTransfers,  \* bound: transfer requests
  Offers,        \* bound: NFTokenOffers created on the ledger
  Tasks,         \* slots for the requests the Oracle serves concurrently
  MaxMoves,      \* bound: transfers of the token outside the application
  MaxDrops,      \* bound: tasks that end at an await (a client hangs up, a query fails)
  MaxReads,      \* bound: commands that list, access or open the file
  None

ASSUME TransferAssumption ==
  /\ Minter \in Users /\ Users \cap Outsiders = {}
  /\ None \notin Users \cup Outsiders \cup Offers
  /\ MaxTransfers \in Nat /\ MaxMoves \in Nat /\ MaxReads \in Nat
  /\ MaxDrops \in Nat

VARIABLES
  nft,      \* the nft_metadata row
  tr,       \* transfer_requests, by order of creation
  job,      \* task -> what it has read and where it stands
  drops,    \* tasks that ended at an await so far
  holder,   \* ledger: the token's owner
  offer,    \* ledger: the sell offers
  moves,    \* ledger: transfers outside the application so far
  reader,   \* a desktop command that reads the file, and how far it has come
  reads,    \* such commands so far
  held      \* history: wallets that have ever held the token

vars == <<nft, tr, job, drops, holder, offer, moves, reader, reads, held>>
ledger == <<holder, offer, moves, held>>
clients == <<reader, reads>>

Ids == 1..MaxTransfers
Wallets == Users \cup Outsiders

(***************************************************************************)
(* encrypted_aes_key: a capsule encrypted under one user's key and, after  *)
(* re-encryption, a fragment that converts it from one user to another.    *)
(***************************************************************************)
KeyType == [under : Users, from : Users \cup {None}, to : Users \cup {None}]
TransferType == [from : Users, to : Users, key : KeyType,
                 status : {"pending", "completed", "cancelled"},
                 offer : Offers \cup {None}, tx : BOOLEAN,
                 got : BOOLEAN]  \* history: recorded when its recipient held the token
Points == {"idle", "insert", "confirm_nft", "confirm_transfer", "complete_nft",
           "complete_transfer", "cancel_transfer", "cancel_nft", "finalize",
           "verify", "scan", "update"}
JobType == [pc : Points, id : Ids \cup {0}, user : Users \cup {None},
            to : Users \cup {None}, key : KeyType \cup {None},
            offer : Offers \cup {None}]
OfferType == [from : Users, to : Users, live : BOOLEAN]
ReaderType == [pc : {"idle", "owner", "verify", "key", "fetch", "unwrap", "opened"},
               goal : {"list", "open", None}, user : Users \cup {None},
               key : KeyType \cup {None}, seen : SUBSET Wallets]

ASSUME NoneAssumption == None \notin KeyType \cup TransferType \cup OfferType

\* Every variable has its type.
TypeOK ==
  /\ nft \in [owner : Users, key : KeyType, status : {"active", "transferring"}]
  /\ tr \in [Ids -> TransferType \cup {None}]
  /\ job \in [Tasks -> JobType] /\ drops \in 0..MaxDrops
  /\ holder \in Wallets /\ held \subseteq Wallets
  /\ offer \in [Offers -> OfferType \cup {None}]
  /\ moves \in 0..MaxMoves
  /\ reader \in ReaderType /\ reads \in 0..MaxReads

Idle == [pc |-> "idle", id |-> 0, user |-> None, to |-> None, key |-> None,
         offer |-> None]
NoRead == [pc |-> "idle", goal |-> None, user |-> None, key |-> None, seen |-> {}]

\* A minted and claimed vault, before any transfer.
Init ==
  /\ nft = [owner |-> Minter, status |-> "active",
            key |-> [under |-> Minter, from |-> None, to |-> None]]
  /\ tr = [t \in Ids |-> None]
  /\ job = [h \in Tasks |-> Idle] /\ drops = 0
  /\ holder = Minter /\ held = {Minter}
  /\ offer = [o \in Offers |-> None]
  /\ moves = 0
  /\ reader = NoRead /\ reads = 0

Done(h) == job' = [job EXCEPT ![h] = Idle]

-----------------------------------------------------------------------------
(* initiate_transfer *)

\* Bound: there is an id for every transfer on its way.
IdLeft == Cardinality({k \in Tasks : job[k].pc = "insert"})
            < Cardinality({t \in Ids : tr[t] = None})

\* SELECT of the active NFT and its owner, who must be the caller.
InitiateRead(h, u, v) ==
  /\ job[h].pc = "idle" /\ IdLeft
  /\ nft.status = "active" /\ nft.owner = u
  /\ job' = [job EXCEPT ![h] = [Idle EXCEPT !.pc = "insert", !.user = u,
                                            !.to = v, !.key = nft.key]]
  /\ UNCHANGED <<nft, tr, ledger, clients, drops>>

\* perform_reencryption reads only the stored capsule, even when the stored
\* value is itself the result of a re-encryption.
ReEncrypt(key, u, v) == [under |-> key.under, from |-> u, to |-> v]

\* INSERT of the pending transfer_requests row.
InitiateInsert(h) ==
  /\ job[h].pc = "insert"
  /\ \E t \in Ids :
       /\ tr[t] = None
       /\ \A s \in 1..(t - 1) : tr[s] # None
       /\ tr' = [tr EXCEPT ![t] =
            [from |-> job[h].user, to |-> job[h].to, status |-> "pending",
             key |-> ReEncrypt(job[h].key, job[h].user, job[h].to),
             offer |-> None, tx |-> FALSE, got |-> FALSE]]
  /\ Done(h)
  /\ UNCHANGED <<nft, ledger, clients, drops>>

-----------------------------------------------------------------------------
(* The sender's client: create_transfer_offer_inner, confirm_offer_signed *)

Matches(o, t) ==
  offer[o] # None /\ offer[o].from = tr[t].from /\ offer[o].to = tr[t].to

\* NFTokenCreateOffer, unless the client finds a matching live offer.
CreateOffer(o, t) ==
  /\ tr[t] # None /\ tr[t].from # tr[t].to
  /\ offer[o] = None
  /\ holder = tr[t].from
  /\ ~ \E p \in Offers : Matches(p, t) /\ offer[p].live
  /\ offer' = [offer EXCEPT ![o] = [from |-> tr[t].from, to |-> tr[t].to,
                                    live |-> TRUE]]
  /\ UNCHANGED <<nft, tr, job, holder, moves, held, clients, drops>>

\* The Oracle reads the transfer, which must be pending.  It does not look the
\* offer up; the sender's client names one it has found on the ledger.
ConfirmRead(h, t, o) ==
  /\ job[h].pc = "idle"
  /\ tr[t] # None /\ tr[t].status = "pending"
  /\ Matches(o, t)
  /\ job' = [job EXCEPT ![h] = [Idle EXCEPT !.pc = "confirm_nft", !.id = t,
                                            !.offer = o]]
  /\ UNCHANGED <<nft, tr, ledger, clients, drops>>

\* UPDATE nft_metadata ...
ConfirmNft(h) ==
  /\ job[h].pc = "confirm_nft"
  /\ nft' = [nft EXCEPT !.status = "transferring"]
  /\ job' = [job EXCEPT ![h].pc = "confirm_transfer"]
  /\ UNCHANGED <<tr, ledger, clients, drops>>

\* ... then UPDATE transfer_requests, whatever its status is by now.
ConfirmTransfer(h) ==
  /\ job[h].pc = "confirm_transfer"
  /\ tr' = [tr EXCEPT ![job[h].id].status = "completed",
                      ![job[h].id].offer = job[h].offer]
  /\ Done(h)
  /\ UNCHANGED <<nft, ledger, clients, drops>>

-----------------------------------------------------------------------------
(* The recipient's client: claim_nft_inner, complete_transfer *)

\* A command that is reading has seen this wallet hold the token.
Witness(w) ==
  reader' = IF reader = NoRead THEN reader ELSE [reader EXCEPT !.seen = @ \cup {w}]

\* NFTokenAcceptOffer, validated.
AcceptOffer(o) ==
  /\ offer[o] # None /\ offer[o].live /\ holder = offer[o].from
  /\ holder' = offer[o].to /\ held' = held \cup {offer[o].to}
  /\ offer' = [offer EXCEPT ![o].live = FALSE]
  /\ Witness(offer[o].to)
  /\ UNCHANGED <<nft, tr, job, drops, moves, reads>>

Completing(t) == [Idle EXCEPT !.pc = "complete_nft", !.id = t, !.to = tr[t].to,
                              !.key = tr[t].key]

\* Mutant of CompleteRead: the transfer's status is not checked.
CompleteReadAnyStatus(h, t) ==
  /\ job[h].pc = "idle"
  /\ tr[t] # None
  /\ job' = [job EXCEPT ![h] = Completing(t)]
  /\ UNCHANGED <<nft, tr, ledger, clients, drops>>

\* complete_transfer, called by the recipient, reads the transfer; only status
\* `completed' (the offer was signed) goes on.  Nobody asks the ledger: the
\* client calls after any answer about its transaction, and may call again.
CompleteRead(h, t) ==
  /\ job[h].pc = "idle"
  /\ tr[t] # None /\ tr[t].status = "completed"
  /\ job' = [job EXCEPT ![h] = Completing(t)]
  /\ UNCHANGED <<nft, tr, ledger, clients, drops>>

\* UPDATE nft_metadata: owner, key and status ...
CompleteNft(h) ==
  /\ job[h].pc = "complete_nft"
  /\ nft' = [owner |-> job[h].to, key |-> job[h].key, status |-> "active"]
  /\ job' = [job EXCEPT ![h].pc = "complete_transfer"]
  /\ UNCHANGED <<tr, ledger, clients, drops>>

\* ... then UPDATE transfer_requests.
CompleteTransfer(h) ==
  /\ job[h].pc = "complete_transfer"
  /\ tr' = [tr EXCEPT ![job[h].id].status = "completed", ![job[h].id].tx = TRUE,
                      ![job[h].id].got = @ \/ holder = tr[job[h].id].to]
  /\ Done(h)
  /\ UNCHANGED <<nft, ledger, clients, drops>>

\* finalize_transfer_by_offer: any user may name an offer, and the Oracle takes a
\* transfer that has it.  A completed transfer is left as it is.
FinalizeRead(h, t) ==
  /\ job[h].pc = "idle"
  /\ tr[t] # None /\ tr[t].offer # None
  /\ tr[t].status # "completed"
  /\ job' = [job EXCEPT ![h] = [Idle EXCEPT !.pc = "finalize", !.id = t]]
  /\ UNCHANGED <<nft, tr, ledger, clients, drops>>

FinalizeWrite(h) ==
  /\ job[h].pc = "finalize"
  /\ tr' = [tr EXCEPT ![job[h].id].status = "completed",
                      ![job[h].id].tx = TRUE, ![job[h].id].offer = None]
  /\ Done(h)
  /\ UNCHANGED <<nft, ledger, clients, drops>>

-----------------------------------------------------------------------------
(* cancel_transfer, called by the sender *)

CancelRead(h, t) ==
  /\ job[h].pc = "idle"
  /\ tr[t] # None /\ tr[t].status \in {"pending", "completed"}
  /\ job' = [job EXCEPT ![h] = [Idle EXCEPT !.pc = "cancel_transfer", !.id = t]]
  /\ UNCHANGED <<nft, tr, ledger, clients, drops>>

\* UPDATE transfer_requests ...
CancelTransfer(h) ==
  /\ job[h].pc = "cancel_transfer"
  /\ tr' = [tr EXCEPT ![job[h].id].status = "cancelled"]
  /\ job' = [job EXCEPT ![h].pc = "cancel_nft"]
  /\ UNCHANGED <<nft, ledger, clients, drops>>

\* Mutant of CancelNft: the NFT is not returned to `active'.
CancelNftForgotten(h) ==
  /\ job[h].pc = "cancel_nft"
  /\ Done(h)
  /\ UNCHANGED <<nft, tr, ledger, clients, drops>>

\* ... then UPDATE nft_metadata.
CancelNft(h) ==
  /\ job[h].pc = "cancel_nft"
  /\ nft' = [nft EXCEPT !.status = "active"]
  /\ Done(h)
  /\ UNCHANGED <<tr, ledger, clients, drops>>

-----------------------------------------------------------------------------
(* sync_single_nft *)

\* sync_cycle takes NFTs that are active, sync_nft the one it is asked for.
SyncRead(h) ==
  /\ job[h].pc = "idle"
  /\ job' = [job EXCEPT ![h] = [Idle EXCEPT !.pc = "verify", !.user = nft.owner]]
  /\ UNCHANGED <<nft, tr, ledger, clients, drops>>

\* verify_nft_owner for the owner read; it sees the first page of a wallet's tokens
\* and may miss one that is there.
SyncVerify(h) ==
  /\ job[h].pc = "verify"
  /\ \/ holder = job[h].user /\ Done(h)
     \/ job' = [job EXCEPT ![h].pc = "scan"]
  /\ UNCHANGED <<nft, tr, ledger, clients, drops>>

Found(h, w) == job' = [job EXCEPT ![h].pc = "update", ![h].to = w]

\* Mutant of SyncScan: an owner that was not found is written all the same.
SyncScanUnchecked(h) ==
  /\ job[h].pc = "scan"
  /\ \/ job' = [job EXCEPT ![h].pc = "update"]
     \/ \E w \in Users : holder = w /\ Found(h, w)
  /\ UNCHANGED <<nft, tr, ledger, clients, drops>>

\* Mutant of SyncScan: the first registered wallet is taken for the owner.
SyncScanUnverified(h) ==
  /\ job[h].pc = "scan"
  /\ \E w \in Users : Found(h, w)
  /\ UNCHANGED <<nft, tr, ledger, clients, drops>>

\* find_nft_owner_on_xrpl asks the ledger about one registered wallet after
\* another while the token may move: it finds a wallet that holds the token when
\* it is asked about, or none.
SyncScan(h) ==
  /\ job[h].pc = "scan"
  /\ \/ Done(h)
     \/ \E w \in Users : holder = w /\ Found(h, w)
  /\ UNCHANGED <<nft, tr, ledger, clients, drops>>

\* UPDATE of owner and status; the key is left as it is.
SyncUpdate(h) ==
  /\ job[h].pc = "update"
  /\ nft' = [nft EXCEPT !.owner = job[h].to, !.status = "active"]
  /\ Done(h)
  /\ UNCHANGED <<tr, ledger, clients, drops>>

-----------------------------------------------------------------------------
(* The owner's desktop reads the file *)

Reads(u, goal) ==
  /\ reader = NoRead /\ reads < MaxReads
  /\ reads' = reads + 1
  /\ reader' = [NoRead EXCEPT !.pc = "owner", !.goal = goal, !.user = u, !.seen = {holder}]
  /\ UNCHANGED <<nft, tr, job, drops, ledger>>

\* list_my_nfts: the tokens the ledger shows, and access to each of them for its
\* name.
ListMyNfts(u) == holder = u /\ Reads(u, "list")

\* request_file_access: the key without the file, whatever the ledger shows.
RequestFileAccess(u) == Reads(u, "list")

\* download_file and decrypt_secure_note, from a list that may be old: first
\* /access for the key, then /download for the file.
DownloadFile(u) == Reads(u, "open")
DecryptSecureNote(u) == Reads(u, "open")

ReadOn(pc) == reader' = [reader EXCEPT !.pc = pc]
ReadEnds == reader' = NoRead

\* require_verified_nft_owner, of both requests: the row of the active NFT must
\* name the caller (a row that is pending_claim has no token on the ledger yet;
\* this vault has been minted) ...
OwnerRow ==
  /\ reader.pc = "owner"
  /\ IF nft.status = "active" /\ nft.owner = reader.user THEN ReadOn("verify") ELSE ReadEnds
  /\ UNCHANGED <<nft, tr, job, drops, ledger, reads>>

\* Mutant of Verified: the database is trusted when the ledger does not answer.
VerifiedOrUnavailable(u) == holder = u \/ nft.owner = u

\* require_owner_from_verification: only a positive answer of the ledger will do.
Verified(u) == holder = u

\* ... and so must the ledger.
OwnerOnLedger ==
  /\ reader.pc = "verify"
  /\ IF ~Verified(reader.user) THEN ReadEnds
     ELSE IF reader.key = None THEN ReadOn("key") ELSE ReadOn("fetch")
  /\ UNCHANGED <<nft, tr, job, drops, ledger, reads>>

\* request_access reads the key with the row as it is by now.
AccessKey ==
  /\ reader.pc = "key"
  /\ reader' = IF nft.status # "active" \/ reader.goal = "list" THEN NoRead
               ELSE [reader EXCEPT !.pc = "owner", !.key = nft.key]
  /\ UNCHANGED <<nft, tr, job, drops, ledger, reads>>

\* The proxy fetches the encrypted file from a storage node.
FetchFile ==
  /\ reader.pc = "fetch" /\ ReadOn("unwrap")
  /\ UNCHANGED <<nft, tr, job, drops, ledger, reads>>

\* decrypt: the capsule is encrypted under the user's key.
Decrypts(key, u) == key.under = u

\* decrypt_reencrypted_data: the fragment is for the user and converts the
\* capsule from the key it is encrypted under.
DecryptsReEncrypted(key, u) == key.to = u /\ key.from = key.under

\* is_re_encrypted decides which of the two is tried.
Readable(key, u) == IF key.to = None THEN Decrypts(key, u) ELSE DecryptsReEncrypted(key, u)

Unwrap ==
  /\ reader.pc = "unwrap"
  /\ IF Readable(reader.key, reader.user) THEN ReadOn("opened") ELSE ReadEnds
  /\ UNCHANGED <<nft, tr, job, drops, ledger, reads>>

\* The plain file is saved or shown.
SaveFile ==
  /\ reader.pc = "opened" /\ ReadEnds
  /\ UNCHANGED <<nft, tr, job, drops, ledger, reads>>

\* A request, the ledger or a storage node fails, and the command with it.
ReadFails ==
  /\ reader.pc \in {"owner", "verify", "key", "fetch"} /\ ReadEnds
  /\ UNCHANGED <<nft, tr, job, drops, ledger, reads>>

Reader ==
  \/ \E u \in Users : \/ ListMyNfts(u) \/ RequestFileAccess(u)
                      \/ DownloadFile(u) \/ DecryptSecureNote(u)
  \/ OwnerRow \/ OwnerOnLedger \/ AccessKey \/ FetchFile \/ Unwrap \/ SaveFile
  \/ ReadFails

-----------------------------------------------------------------------------
(* The ledger, and lost connections *)

\* NFTokenCancelOffer by the sender.
CancelOffer(o) ==
  /\ offer[o] # None /\ offer[o].live
  /\ offer' = [offer EXCEPT ![o].live = FALSE]
  /\ UNCHANGED <<nft, tr, job, holder, moves, held, clients, drops>>

\* The token changes hands outside the application.
ExternalMove(w) ==
  /\ moves < MaxMoves /\ w # holder
  /\ moves' = moves + 1
  /\ holder' = w /\ held' = held \cup {w}
  /\ Witness(w)
  /\ UNCHANGED <<nft, tr, job, drops, offer, reads>>

\* The client hangs up, or a statement or a ledger query fails: the task ends
\* where it is.
Drop(h) ==
  /\ job[h].pc # "idle" /\ drops < MaxDrops
  /\ drops' = drops + 1
  /\ Done(h)
  /\ UNCHANGED <<nft, tr, ledger, clients>>

Request(h) ==
  \/ \E u, v \in Users : InitiateRead(h, u, v)
  \/ \E t \in Ids :
       \/ \E o \in Offers : ConfirmRead(h, t, o)
       \/ CompleteRead(h, t) \/ FinalizeRead(h, t) \/ CancelRead(h, t)

\* What a running handler or synchronisation does next.
Continue(h) ==
  \/ InitiateInsert(h)
  \/ ConfirmNft(h) \/ ConfirmTransfer(h)
  \/ CompleteNft(h) \/ CompleteTransfer(h)
  \/ FinalizeWrite(h)
  \/ CancelTransfer(h) \/ CancelNft(h)
  \/ SyncVerify(h) \/ SyncScan(h) \/ SyncUpdate(h)

Environment ==
  \/ \E o \in Offers :
       AcceptOffer(o) \/ CancelOffer(o) \/ \E t \in Ids : CreateOffer(o, t)
  \/ \E w \in Wallets : ExternalMove(w)

Next ==
  \/ \E h \in Tasks : Request(h) \/ SyncRead(h) \/ Continue(h) \/ Drop(h)
  \/ Environment
  \/ Reader

Spec == Init /\ [][Next]_vars

-----------------------------------------------------------------------------
(* Properties *)

\* The sender has confirmed the transfer: it has an offer, or is finalized.
Confirmed(t) == tr[t] # None /\ (tr[t].offer # None \/ tr[t].tx)

\* The owner the Oracle records has held the token on the ledger or is the
\* recipient of a transfer that its sender confirmed: neither complete_transfer,
\* however it races with confirm and cancel, nor a synchronisation that raced
\* with a move names anyone else.
OwnerHeldOrNamed ==
  nft.owner \in held \/ \E t \in Ids : Confirmed(t) /\ tr[t].to = nft.owner

\* The vault's row carries the key of a transfer only once that transfer's sender
\* has confirmed it: a transfer that is initiated, or cancelled before it was
\* confirmed, never replaces the key.  (get_status shows a transfer's own key to
\* its two parties in every status.)
KeyOfConfirmed ==
  nft.key.to # None => \E t \in Ids : Confirmed(t) /\ tr[t].key = nft.key

Running == {h \in Tasks : job[h].pc # "idle"}

\* Once all tasks have run to their end, an NFT is `transferring' only while a
\* confirmed transfer exists that its sender can still cancel: confirm writes the
\* NFT before the transfer and cancel the transfer before the NFT, so no race of
\* the two leaves a locked NFT behind.  (A task dropped in between does.)
TransferringIsOpen ==
  nft.status = "transferring" /\ Running = {} /\ drops = 0 =>
    \E t \in Ids : tr[t] # None /\ tr[t].status = "completed"

\* A file is opened only by a wallet that held the token on the ledger at some
\* time while its command ran: neither a stale owner in the database nor a
\* transfer, a cancellation or a synchronisation between the two requests of
\* download_file gives it to anyone else (require_verified_nft_owner).
OpenedByHolder == reader.pc = "opened" => reader.user \in reader.seen

\* A transfer to another user that complete_transfer recorded when its recipient
\* had the token.
Delivered(t) == tr[t] # None /\ tr[t].got /\ tr[t].from # tr[t].to

\* complete_transfer is "called after NFT transfer confirmation on-chain": the
\* owner the Oracle records has held the token on the ledger.
OwnerHeldToken == nft.owner \in held

\* cancel_transfer works "before the recipient accepts the offer": a transfer
\* whose offer was accepted and which complete_transfer has recorded is not
\* cancelled any more.
AcceptedNotCancelled == \A t \in Ids : Delivered(t) => tr[t].status # "cancelled"

\* After transfers through the application, each of them delivered, the owner can
\* decrypt: the fragment converts the capsule from the key it is under.
RecipientCanDecrypt ==
  (\A t \in Ids : tr[t] # None => Delivered(t)) => Readable(nft.key, nft.owner)
=============================================================================
