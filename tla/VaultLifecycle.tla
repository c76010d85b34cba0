--------------------------- MODULE VaultLifecycle ---------------------------
(***************************************************************************)
(* The life of one vault: the Oracle's row is prepared, the ciphertext is  *)
(* replicated through the upload proxy, the public metadata is published,  *)
(* the desktop mints an NFT on the XRP Ledger and has the Oracle link it   *)
(* (again and again, if the desktop restarts or an answer is late), and    *)
(* the vault is tombstoned after the NFT has been burned.                  *)
(*                                                                         *)
(* A step is one SQL statement or transaction, one request to a storage    *)
(* node or one ledger query of an Oracle handler, or one click on the      *)
(* desktop.  The lock that a transfer puts on the row is in Transfers; the *)
(* rows of file_replicas and grants that follow the vault are left out.    *)
(***************************************************************************)
EXTENDS Naturals

CONSTANTS
  Nodes,       \* storage nodes
  Tokens,      \* NFTokenIDs that mints of this vault may produce
  Metas,       \* metadata documents the desktop may generate for the vault
  Publishers,  \* slots for publish requests served concurrently
  Finalizers,  \* slots for finalize-and-register sequences run concurrently
  Pending,     \* the pending token id of the prepared row
  MaxDrops,    \* bound: handlers that end before their last statement
  None

Rows == [status : {"pending_claim", "active", "archived"}, token : Tokens \cup {Pending}]
Objects == [status : {"active", "deleted"}, token : Tokens]
Uploads == [todo : SUBSET Nodes, ok : SUBSET Nodes]
Finals == [step : {"finalize", "verify", "commit", "register"}, token : Tokens]
Deletes == [step : {"read", "fragments", "archive"}, token : Tokens,
            todo : SUBSET Nodes, ok : BOOLEAN]
Phases == {"new", "created", "uploaded", "published", "minted", "closed"}

ASSUME VaultAssumption ==
  /\ Pending \notin Tokens
  /\ MaxDrops \in Nat
  /\ None \notin Metas \cup Tokens \cup Rows \cup Objects \cup Uploads \cup Finals \cup Deletes

VARIABLES
  row,      \* the vault's nft_metadata row
  frags,    \* its manifest.fragments: the nodes listed (none before the upload)
  meta,     \* its manifest.public_metadata
  object,   \* the vault_objects row that links the NFT
  stored,   \* nodes that hold the ciphertext
  ledger,   \* token -> its state on the XRP Ledger
  phase,    \* where the desktop's upload screen is
  submitted, \* the mint whose command is running on the desktop
  minted,   \* the last mint whose hash the screen has kept
  upload,   \* the running upload_file request
  pub,      \* publish slot -> the document it is about to write
  fin,      \* finalize slot -> its next step and token
  del,      \* the running deletion
  erased,   \* has a deletion answered that everything was removed?
  drops     \* how many handlers have been dropped

vars == <<row, frags, meta, object, stored, ledger, phase, submitted, minted, upload, pub, fin, del, erased, drops>>

\* Every variable has its type, and a vault that is linked was prepared first.
TypeOK ==
  /\ row \in Rows \cup {None} /\ object \in Objects \cup {None}
  /\ frags \subseteq Nodes /\ stored \subseteq Nodes
  /\ meta \in Metas \cup {None}
  /\ ledger \in [Tokens -> {"unminted", "owned", "burned"}]
  /\ phase \in Phases /\ submitted \in Tokens \cup {None} /\ minted \in Tokens \cup {None}
  /\ upload \in Uploads \cup {None}
  /\ pub \in [Publishers -> Metas \cup {None}]
  /\ fin \in [Finalizers -> Finals \cup {None}]
  /\ del \in Deletes \cup {None}
  /\ erased \in BOOLEAN /\ drops \in 0..MaxDrops
  /\ phase \in {"uploaded", "published", "minted"} \/ object # None => row # None

Init ==
  /\ row = None /\ frags = {} /\ meta = None /\ object = None /\ stored = {}
  /\ ledger = [t \in Tokens |-> "unminted"]
  /\ phase = "new" /\ submitted = None /\ minted = None
  /\ upload = None /\ del = None /\ erased = FALSE /\ drops = 0
  /\ pub = [p \in Publishers |-> None]
  /\ fin = [f \in Finalizers |-> None]

-----------------------------------------------------------------------------
(* Preparing the vault and uploading its ciphertext *)

\* Mutant of CreateVault: the desktop goes on although the INSERT failed.
CreateVaultUnchecked ==
  /\ phase = "new"
  /\ phase' = "created"
  /\ UNCHANGED <<row, frags, meta, object, stored, ledger, submitted, minted, upload, pub, fin, del, erased, drops>>

\* INSERT of the row with a pending token id and the client's manifest.
CreateVault ==
  /\ phase = "new" /\ row = None
  /\ row' = [status |-> "pending_claim", token |-> Pending]
  /\ phase' = "created"
  /\ UNCHANGED <<frags, meta, object, stored, ledger, submitted, minted, upload, pub, fin, del, erased, drops>>

\* The proxy picks the nodes of the replicas.
UploadStart ==
  /\ phase = "created" /\ upload = None
  /\ \E ns \in SUBSET Nodes \ {{}} : upload' = [todo |-> ns, ok |-> {}]
  /\ UNCHANGED <<row, frags, meta, object, stored, ledger, phase, submitted, minted, pub, fin, del, erased, drops>>

\* PUT of one replica: it is stored and acknowledged, stored without an
\* answer in time, or refused.
UploadPut(n) ==
  /\ upload # None /\ n \in upload.todo
  /\ \E put, ok \in BOOLEAN :
       /\ ok => put
       /\ stored' = IF put THEN stored \cup {n} ELSE stored
       /\ upload' = [todo |-> upload.todo \ {n},
                     ok |-> IF ok THEN upload.ok \cup {n} ELSE upload.ok]
  /\ UNCHANGED <<row, frags, meta, object, ledger, phase, submitted, minted, pub, fin, del, erased, drops>>

\* Mutant of UploadFinish: a replica that was not acknowledged is listed.
UploadFinishListsAll ==
  /\ upload # None /\ upload.todo = {}
  /\ frags' = IF upload.ok = {} THEN frags ELSE Nodes
  /\ phase' = IF upload.ok # {} /\ phase = "created" THEN "uploaded" ELSE "closed"
  /\ upload' = None
  /\ UNCHANGED <<row, meta, object, stored, ledger, submitted, minted, pub, fin, del, erased, drops>>

\* One acknowledged replica is enough; the manifest lists the acknowledged ones.
\* With none the request fails, and with it the desktop's upload.
UploadFinish ==
  /\ upload # None /\ upload.todo = {}
  /\ frags' = IF upload.ok = {} THEN frags ELSE upload.ok
  /\ phase' = IF upload.ok # {} /\ phase = "created" THEN "uploaded" ELSE "closed"
  /\ upload' = None
  /\ UNCHANGED <<row, meta, object, stored, ledger, submitted, minted, pub, fin, del, erased, drops>>

-----------------------------------------------------------------------------
(* Publishing the metadata *)

\* SELECT of what is published.  The same document again is accepted, another
\* one refused (no step).
PublishRead(p, m) ==
  /\ phase = "uploaded" /\ pub[p] = None
  /\ \/ meta = None /\ pub' = [pub EXCEPT ![p] = m] /\ UNCHANGED phase
     \/ meta = m /\ phase' = "published" /\ UNCHANGED pub
  /\ UNCHANGED <<row, frags, meta, object, stored, ledger, submitted, minted, upload, fin, del, erased, drops>>

\* UPDATE of the manifest, whatever has been published by now.
PublishUpdate(p) ==
  /\ pub[p] # None
  /\ meta' = pub[p]
  /\ pub' = [pub EXCEPT ![p] = None]
  /\ phase' = IF phase = "uploaded" THEN "published" ELSE phase
  /\ UNCHANGED <<row, frags, object, stored, ledger, submitted, minted, upload, fin, del, erased, drops>>

-----------------------------------------------------------------------------
(* Minting and linking *)

\* Mutant of SubmitMint: the desktop mints without waiting for the publication.
SubmitMintUnpublished(t) ==
  /\ phase \in {"uploaded", "published"} /\ submitted = None /\ ledger[t] = "unminted"
  /\ ledger' = [ledger EXCEPT ![t] = "owned"]
  /\ submitted' = t
  /\ UNCHANGED <<row, frags, meta, object, stored, phase, minted, upload, pub, fin, del, erased, drops>>

\* NFTokenMint signed locally, submitted and applied.  The screen does not know
\* the hash before the command returns.
SubmitMint(t) ==
  /\ phase = "published" /\ submitted = None /\ ledger[t] = "unminted"
  /\ ledger' = [ledger EXCEPT ![t] = "owned"]
  /\ submitted' = t
  /\ UNCHANGED <<row, frags, meta, object, stored, phase, minted, upload, pub, fin, del, erased, drops>>

\* The command returns the accepted mint, whose hash is kept.  Without its
\* NFTokenID the screen goes back and offers to finalize later.
MintReturns ==
  /\ phase = "published" /\ submitted # None
  /\ minted' = submitted /\ submitted' = None
  /\ phase' \in {"minted", "uploaded"}
  /\ UNCHANGED <<row, frags, meta, object, stored, ledger, upload, pub, fin, del, erased, drops>>

\* NFTokenMint not accepted, or accepted without an answer in time: the screen
\* offers the mint again.
MintFails ==
  /\ phase = "published"
  /\ phase' = "uploaded" /\ submitted' = None
  /\ UNCHANGED <<row, frags, meta, object, stored, ledger, minted, upload, pub, fin, del, erased, drops>>

Finalize(f, t) ==
  /\ fin[f] = None
  /\ fin' = [fin EXCEPT ![f] = [step |-> "finalize", token |-> t]]
  /\ UNCHANGED <<row, frags, meta, object, stored, ledger, submitted, minted, upload, pub, del, erased, drops>>

\* The desktop asks for the link.  The answer may come too late for its
\* 30 seconds, and then the screen offers the mint again.
RegisterMinted(f) ==
  /\ phase = "minted"
  /\ phase' = "uploaded"
  /\ Finalize(f, minted)

\* "Retry finalization" on the screen that still knows the mint.
FinalizePending(f) ==
  /\ phase = "uploaded" /\ minted # None
  /\ Finalize(f, minted)
  /\ UNCHANGED phase

\* Recovery by a transaction hash that is typed in, also after the screen is
\* gone: the Oracle names the published metadata, the ledger the token.
RecoverPendingMint(f, t) ==
  /\ row # None /\ meta # None
  /\ row.status \in {"pending_claim", "active"}
  /\ ledger[t] # "unminted"
  /\ Finalize(f, t)
  /\ UNCHANGED phase

AtStep(f, step) == fin[f] # None /\ fin[f].step = step
Goto(f, step) == fin' = [fin EXCEPT ![f].step = step]
Done(f) == fin' = [fin EXCEPT ![f] = None]

\* SELECTs of finalize-mint: the vault exists and its metadata is published.
FinalizeRead(f) ==
  /\ AtStep(f, "finalize")
  /\ IF meta # None THEN Goto(f, "verify") ELSE Done(f)
  /\ UNCHANGED <<row, frags, meta, object, stored, ledger, phase, submitted, minted, upload, pub, del, erased, drops>>

\* The ledger must know the mint and the owner must still hold the token; one
\* that is not among the 400 that account_nfts lists is not found.
FinalizeVerify(f) ==
  /\ AtStep(f, "verify")
  /\ \/ ledger[fin[f].token] = "owned" /\ Goto(f, "commit")
     \/ Done(f)
  /\ UNCHANGED <<row, frags, meta, object, stored, ledger, phase, submitted, minted, upload, pub, del, erased, drops>>

\* The transaction: row and object take the token and become active, from
\* whatever status they have by now.
FinalizeCommit(f) ==
  /\ AtStep(f, "commit")
  /\ row' = [status |-> "active", token |-> fin[f].token]
  /\ object' = [status |-> "active", token |-> fin[f].token]
  /\ Goto(f, "register")
  /\ UNCHANGED <<frags, meta, stored, ledger, phase, submitted, minted, upload, pub, del, erased, drops>>

\* The desktop's second request: upsert of the object, which keeps its status.
RegisterVaultObject(f) ==
  /\ AtStep(f, "register")
  /\ object' = [object EXCEPT !.token = fin[f].token]
  /\ Done(f)
  /\ UNCHANGED <<row, frags, meta, stored, ledger, phase, submitted, minted, upload, pub, del, erased, drops>>

-----------------------------------------------------------------------------
(* Burning the NFT and deleting the vault *)

\* The owner burns a token.  The desktop goes on to the Oracle's cleanup, or
\* stops there: it times out, is closed, or the token was burned elsewhere.
BurnNft(t) ==
  /\ ledger[t] = "owned" /\ del = None
  /\ ledger' = [ledger EXCEPT ![t] = "burned"]
  /\ \/ del' = [step |-> "read", token |-> t, todo |-> {}, ok |-> TRUE]
     \/ UNCHANGED del
  /\ UNCHANGED <<row, frags, meta, object, stored, phase, submitted, minted, upload, pub, fin, erased, drops>>

\* SELECT by token id, check of the burn, and the manifest to work from.
DeleteRead ==
  /\ del # None /\ del.step = "read"
  /\ del' = IF row.token = del.token /\ ledger[del.token] = "burned"
              THEN [del EXCEPT !.step = "fragments", !.todo = frags]
              ELSE None
  /\ UNCHANGED <<row, frags, meta, object, stored, ledger, phase, submitted, minted, upload, pub, fin, erased, drops>>

\* Mutant of DeleteFragment: a request that failed is counted as done.
DeleteFragmentCountsFailures(n) ==
  /\ del # None /\ del.step = "fragments" /\ n \in del.todo
  /\ stored' \in {stored, stored \ {n}}
  /\ del' = [del EXCEPT !.todo = @ \ {n}]
  /\ UNCHANGED <<row, frags, meta, object, ledger, phase, submitted, minted, upload, pub, fin, erased, drops>>

\* DELETE at one node: removed (or already gone), removed without an answer in
\* time, or not removed.  For a node that is no longer registered the request
\* goes to localhost:9001, where another node refuses a token that names it
\* (nodes ask for tokens, which is the default of REQUIRE_AUTH).
DeleteFragment(n) ==
  /\ del # None /\ del.step = "fragments" /\ n \in del.todo
  /\ \E gone, ok \in BOOLEAN :
       /\ ok => gone
       /\ stored' = IF gone THEN stored \ {n} ELSE stored
       /\ del' = [del EXCEPT !.todo = @ \ {n}, !.ok = @ /\ ok]
  /\ UNCHANGED <<row, frags, meta, object, ledger, phase, submitted, minted, upload, pub, fin, erased, drops>>

DeleteObject ==
  /\ del # None /\ del.step = "fragments" /\ del.todo = {}
  /\ object' = [object EXCEPT !.status = "deleted"]
  /\ del' = [del EXCEPT !.step = "archive"]
  /\ UNCHANGED <<row, frags, meta, stored, ledger, phase, submitted, minted, upload, pub, fin, erased, drops>>

\* The row is archived and the answer says whether every fragment is gone.
DeleteArchive ==
  /\ del # None /\ del.step = "archive"
  /\ row' = [row EXCEPT !.status = "archived"]
  /\ erased' = (erased \/ del.ok)
  /\ del' = None
  /\ UNCHANGED <<frags, meta, object, stored, ledger, phase, submitted, minted, upload, pub, fin, drops>>

-----------------------------------------------------------------------------
(* Failures *)

\* The desktop is closed or leaves the screen.
CloseScreen ==
  /\ phase # "closed"
  /\ phase' = "closed" /\ submitted' = None
  /\ UNCHANGED <<row, frags, meta, object, stored, ledger, minted, upload, pub, fin, del, erased, drops>>

Dropping == drops < MaxDrops /\ drops' = drops + 1

\* A handler ends where it is: its client hangs up or a statement fails.
DropUpload ==
  /\ Dropping /\ upload # None
  /\ upload' = None /\ phase' = "closed"
  /\ UNCHANGED <<row, frags, meta, object, stored, ledger, submitted, minted, pub, fin, del, erased>>

DropPublish(p) ==
  /\ Dropping /\ pub[p] # None
  /\ pub' = [pub EXCEPT ![p] = None]
  /\ UNCHANGED <<row, frags, meta, object, stored, ledger, phase, submitted, minted, upload, fin, del, erased>>

DropFinalize(f) ==
  /\ Dropping /\ fin[f] # None
  /\ Done(f)
  /\ UNCHANGED <<row, frags, meta, object, stored, ledger, phase, submitted, minted, upload, pub, del, erased>>

DropDelete ==
  /\ Dropping /\ del # None
  /\ del' = None
  /\ UNCHANGED <<row, frags, meta, object, stored, ledger, phase, submitted, minted, upload, pub, fin, erased>>

FinalizeStep(f) ==
  FinalizeRead(f) \/ FinalizeVerify(f) \/ FinalizeCommit(f) \/ RegisterVaultObject(f)

Next ==
  \/ CreateVault \/ UploadStart \/ UploadFinish
  \/ \E n \in Nodes : UploadPut(n) \/ DeleteFragment(n)
  \/ \E p \in Publishers : PublishUpdate(p) \/ DropPublish(p) \/ \E m \in Metas : PublishRead(p, m)
  \/ \E t \in Tokens : SubmitMint(t) \/ BurnNft(t)
  \/ MintReturns \/ MintFails
  \/ \E f \in Finalizers :
       \/ RegisterMinted(f) \/ FinalizePending(f) \/ FinalizeStep(f) \/ DropFinalize(f)
       \/ \E t \in Tokens : RecoverPendingMint(f, t)
  \/ DeleteRead \/ DeleteObject \/ DeleteArchive
  \/ CloseScreen \/ DropUpload \/ DropDelete

Spec == Init /\ [][Next]_vars

-----------------------------------------------------------------------------
(* Properties *)

Linked == row # None /\ row.token \in Tokens
Burned == \E t \in Tokens : ledger[t] = "burned"

\* As long as no NFT of the vault has been burned, a linked vault is usable:
\* its token is on the ledger, its metadata is published, its manifest lists at
\* least one fragment and every listed fragment is stored, whatever uploads,
\* retries, restarts and second mints have been going on.
LinkedIsReadable ==
  Linked /\ ~Burned =>
    /\ row.status = "active" /\ ledger[row.token] = "owned"
    /\ object # None
    /\ meta # None
    /\ frags # {} /\ frags \subseteq stored

\* A deletion answers that everything was removed only if no listed fragment is
\* left at its node (delete_vault's storage_deleted).
ErasedMeansGone == erased => frags \cap stored = {}

\* A mint is never stranded: as long as nothing is burned, a token on the ledger
\* can be linked, although the desktop may close at any moment, even before it
\* knows the hash.  The row is there in a status that recovery accepts, the
\* metadata that finalize-mint asks for is published, and the ciphertext was
\* uploaded before.
MintRecoverable ==
  (\E t \in Tokens : ledger[t] = "owned") /\ ~Burned =>
    /\ row # None /\ row.status \in {"pending_claim", "active"}
    /\ meta # None /\ frags # {}

\* The comment of delete_vault: the vault is tombstoned after the burn, so a
\* tombstone is not taken back.
TombstoneIsFinal ==
  [][row # None /\ row.status = "archived" => row'.status = "archived"]_vars
=============================================================================
