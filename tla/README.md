# Vaulted: a TLA+ model of the protocol between desktop, Oracle, storage nodes and ledger

Vaulted keeps encrypted files whose ownership is an NFT on the XRP Ledger. A
desktop client encrypts a file and mints the NFT with a locally held wallet; the
Oracle (an HTTP service over PostgreSQL) keeps the vault's registry, checks the
ledger, re-encrypts content keys when the NFT changes hands and signs the tokens
with which ciphertext is read from and written to storage nodes; a phone approves
logins, device pairings, XRPL signatures and file grants by QR code.

The programs are written in Rust and run concurrently. The Oracle serves requests
in parallel, almost never uses a database transaction or a row lock, and any
handler may be dropped at an `await` when its client hangs up. Desktop commands
run side by side on one shared state and hold no lock while they wait for an
answer. That is where the hard behaviour is, so **an action of these modules is
one SQL statement, one store or lock access, one file system call, one ledger
query or one user action**, and every interleaving of them is explored.

## 1. Inventory

| Component | Source | State | Operations | Hard behaviour |
|---|---|---|---|---|
| Storage node | `crates/storage-node/src/main.rs` | fragment files, in-memory index, replay cache of token ids | GET, PUT, DELETE of a fragment, registration, heartbeat, restart | concurrent requests on one key, crash between link and unlink, cache lost at restart, clock read before the lock |
| Storage tokens | `oracle/src/storage_token.rs` | signed, scoped, expiring tokens | issue, verify | expiry at a boundary, reuse |
| NFT transfers | `oracle/src/api/transfers.rs` | `transfer_requests`, `nft_metadata` | initiate, confirm, complete, finalize by offer, cancel | two rows written by separate statements, lost claims, second transfers |
| Ledger synchronisation | `oracle/src/sync.rs` | `nft_metadata.owner_id` | cycle over all NFTs, one NFT on an admin's request (nothing calls `start_background_sync`) | the token moves while wallets are asked one by one |
| Ownership checks | `oracle/src/api/ownership.rs` | none | database owner, then ledger owner | ledger unreachable, stale row, two requests per download |
| QR approvals | `oracle/src/api/qr_auth.rs` | four request tables, `identity_devices`, `grants` | start, confirm, status | check in a SELECT, decision in an unconditional UPDATE; expiry; one-shot delivery of a session |
| Vaults | `oracle/src/api/vault.rs`, `xrpl.rs` | `nft_metadata` row, manifest, `vault_objects` row | prepare, publish metadata, finalize mint, mint recovery, delete | desktop restarts between mint and link, retries, second mint, partial deletion |
| File proxy | `oracle/src/api/file_proxy.rs` | manifest fragments, `file_replicas` | upload, download, delete | partial replication, lost answers, nodes that come and go |
| Vault objects and grants | `oracle/src/api/vault_objects.rs` | `vault_objects`, `grants` | register, create, list, revoke, access | object read in one statement and grant written in another under an id the client chose, expiry, deletion meanwhile |
| Identities and devices | `oracle/src/api/identity.rs` | identities, devices, recipient keys, trust decisions | register, rotate, trust, revoke | a key that changes while an owner compares and seals to it |
| Authentication | `oracle/src/auth.rs`, `api/auth.rs`, `services/app_state.rs` | token pairs, blacklist in Redis, PostgreSQL or memory | issue, verify, refresh, logout, cleanup | refresh races, outages between revocation and lookup, last second of a token |
| Storage registry, replication | `oracle/src/api/storage.rs`, `services/replication.rs` | `storage_nodes`, settings | register, heartbeat, health check, removal, node selection | capacity at its limit, stale heartbeats, removal during uploads |
| File index | `oracle/src/api/files.rs` | none of its own | register, upload URL, confirm, access, list | key and owner read in two statements |
| Rate limiting | `oracle/src/middleware.rs` | counters per client | count, reset | window boundary |
| Desktop session | `desktop-client/src/state.rs`, `auth/session.rs` | session, cached tokens | sign in, refresh, log out | answers written into a session that is not the one they were asked for |
| Desktop wallet | `commands.rs`, `xrpl/client.rs`, `crypto-core/src/xrpl_wallet.rs` | wallet, signed-transaction registry, request ids | mint, offer, claim, burn, pay, submit | lost and late answers, retries, provisional results, sequence numbers |
| Desktop workflows | `desktop-client/src/commands.rs` | progress of a command | upload, mint, recover, transfer, claim, delete, download, grants | timeouts, restarts |
| Cryptographic core | `crypto-core/src` | keys, capsules, envelopes | encrypt, re-encrypt, seal, decrypt | what a chain of re-encryptions can decrypt |
| User interface | `desktop-client/ui` | screen state | order of calls | re-offered actions after an error |

They meet in a few places: the desktop calls the Oracle over HTTP and the ledger
over WebSocket, in that order and with nothing atomic between them; the Oracle
calls storage nodes with tokens that only it can sign and the node verifies
offline; `nft_metadata.status` is the lock that transfers, synchronisation,
deletion and finalization share; the QR endpoints write the same device and grant
rows as the identity and grant endpoints; deletion of a vault revokes its grants.

What makes each part correct:

* storage node: an acknowledged upload is on disk; a file changes only if a token
  permits it; a token is not accepted twice while it is valid;
* transfers: the recorded owner has held the token or was named by the sender of a
  confirmed transfer, and so for the content key; only a holder opens the file, an
  NFT is not left locked;
* synchronisation: it records nobody who never held the token;
* QR approvals: a decision is final, an approval has its effect, one made in time is
  not lost in the Oracle;
* vaults: a linked vault can be read until it is burned, a mint is never stranded,
  a deletion reported complete is complete;
* grants: they share the file and with the person an owner chose, the recipient's key
  fits the fragments that are handed out, and nothing is once they are closed; a
  trusted key that has rotated is reported;
* sessions: what was revoked stays refused, desktop and Oracle agree on tokens;
* wallet: an approval is used once, answers reach their own request, data are
  erased only after a final burn, payments leave the reserve, commands end;
* registry: nodes are chosen as the settings say, what is listed is stored and
  what was reported stored can be found.

## 2. Modules

| Module | Models | State and actions |
|---|---|---|
| `StorageNode` | `storage-node/src/main.rs`, `storage_token.rs` | `disk`, `temp`, `index` and `consumed` are the directory, its temporary files, `AppState.fragments` and `AppState.consumed_token_ids`; `req` holds each request's program counter. `Receive` is the token check, `ConsumeTokenId` the replay cache, `Put*`, `LocateFragment`/`ServeFragment` and `Delete*` the steps of the three handlers, `Restart` a crash followed by `main`. |
| `FragmentStore` | what the node promises | an atomic write-once store in which every change needs a permit |
| `Transfers` | `transfers.rs`, `sync.rs`, `ownership.rs`, `files.rs` (access), the transfer, list and download commands of the desktop | `nft` and `tr` are the two tables, `job` the handlers and synchronisations between two statements, `holder` and `offer` the ledger, `reader` a command that reads the file: `OwnerRow` and `OwnerOnLedger` are the two checks of each of its two requests, `AccessKey` and `FetchFile` what they are for, `Unwrap` the decryption. |
| `QrApproval` | `qr_auth.rs` | `row` is the request, `at` each confirm or status handler's next statement, `effect` the device or grant row. One action per handler and statement, for all four kinds. |
| `VaultLifecycle` | `vault.rs`, `file_proxy.rs` (upload), the mint, recovery and delete commands and `UploadScreen.tsx` | `row`, `frags`, `meta` are the vault's row and its manifest, `object` the link, `stored` the replicas, `ledger` the tokens; `upload`, `pub`, `fin` and `del` are the running handlers, `phase`, `submitted` and `minted` the desktop. A mint is submitted (`SubmitMint`), and its hash returns later, or never (`MintReturns`, `MintFails`, `CloseScreen`). |
| `Grants` | `vault_objects.rs`, `identity.rs`, the grants part of `vault.rs`, the received-grant commands of the desktop | `object`, `vault` and `grants` are the rows of several vaults, `key` and `trust` the recipient's current key and the keys an owner trusts, for one such pair; `call` holds a handler or command between two statements. `CreateGrant` and `Upsert` are the two statements of `create_grant`, under any grant id; `StatusActive`, `StatusRow` and `KeyRotationDetected` the three SELECTs of the trust status. A QR confirmation of a grant does the same two statements; its request is in `QrApproval`. |
| `Sessions` | `state.rs`, `auth/session.rs`, `auth.rs`, `api/auth.rs`, `services/app_state.rs` | `session` is the desktop's session, `call` its commands, `issued` the token pairs, `black` the three stores a revocation may be in, with `redisUp`, `conn` and `pg` for their availability. `Evict` is Redis at its memory limit (`docker-compose.yml`). |
| `WalletTx` | `xrpl/client.rs`, `xrpl_wallet.rs`, the wallet commands, the signed-transaction registry of `state.rs` | `call` is a command, `wire` the requests and answers of its client, `registry` the approvals; the ledger (`height`, `seqOf`, `bal`, `owner`, `offers`, `open`, `valid`) is external. |
| `Registry` | `storage.rs`, `replication.rs`, `file_proxy.rs`, upload registration of `files.rs`, registration and heartbeat of the node | `row` is `storage_nodes`, `replica` and `manifest` where a vault's replicas are listed, `disk` and `up` the nodes, `job` the handlers. Node selection is an operator, `Selections`, that yields every result the unspecified order of ties permits; `Sources` and `Endpoint` are where a download looks, with `localhost:9001` for a node that is no longer registered. |
| `*Proofs` | | theorems, section 5 |
| `MC*` | | the instances for TLC (symmetry sets, small token scopes, loads and regions) |

Data are abstracted to what the properties distinguish. A fragment body, a metadata
document, a token id or a wallet is a model value. A storage token is its scope and
expiry, a session token its kind, pair and time of issue; signatures are unforgeable,
so only the Oracle makes tokens. A content key is symbolic: the user it is encrypted
under and, after a re-encryption, the pair of users its fragment converts between; a
grant's envelope is the recipient it names, the object whose key it carries and
whether it can be opened at all, since `create_grant` also accepts legacy keys and
other algorithms. A grant expires by a step of its own (`Expire`) that may come at any
time, so `Grants` needs no clock. A signed transaction is its fields, because signing
is deterministic. Checks of request syntax that refuse without changing anything are
left out; a refused request is a step that is not taken.

The XRP Ledger is external. In `Transfers` and `VaultLifecycle` it is a table of
holders and offers whose transactions are single steps; `WalletTx` looks at the
part those modules leave out, between a signature and its validation.

## 3. Runs

| Run | Bounds | Shows |
|---|---|---|
| `storage_node` | two requests, a valid and an unsafe key, two tokens, two bodies, clock 0..2, restarts anywhere | type correctness; `AckMeansStored`; `ReuseOnlyAfterExpiry`; `ImplementsFragmentStore` |
| `transfers` | two users and an outsider, one transfer, two tasks (handlers or synchronisations) of which one may be dropped, one move outside the application, one reading command | type correctness; `OwnerHeldOrNamed`; `KeyOfConfirmed`; `TransferringIsOpen`; `OpenedByHolder` |
| `transfers_unclaimed`, `transfers_cancel`, `transfers_second_hop` (violations) | one or two transfers | section 4 |
| `qr_approval` | all kinds, two confirmations and two polls, one dropped handler | type correctness; `ApprovedHasEffect`; `InTimeApprovalKept`; `SettledIsFinal` |
| `vault` | two nodes, two tokens, one document, two finalizations at a time, one dropped handler, desktop restarts | type correctness; `LinkedIsReadable`; `ErasedMeansGone`; `MintRecoverable` |
| `vault_tombstone` (violation) | one mint | section 4 |
| `sessions` | two commands, two token pairs, clock 0..3 with lives 1 (access), 2 (session), 4 and 5 (refresh), one fault (outage, restart, eviction, lost answer or QR login) | type correctness; `NotExpiredEarly`; `RotationAgrees`; `RevokedStaysRefused` |
| `grants` | two identities that own two objects in turn, one grant id that both use, two keys of the recipient, two calls; revocation, expiry and deletion at any time | type correctness; `SharedAsChosen`; `TrustIsTold`; `KeyFitsFile`; `ClosedHandsOutNothing` |
| `wallet_tx` | two wallets, one token, two commands, two ledgers, two polls, one fault (lost or late answer, high fee, empty ledger, expired approval), two sign-ins | type correctness; `SentOncePerApproval`; `AnswersFit`; `ErasedIsBurned`; `ConfirmedFits`; `ReserveKept`; `CommandsRunOut` |
| `registry` | three nodes in two regions, one vault, two sizes, factors -1 and 2 with two strategies, one event (crash, removal, loss or lost answer), one heartbeat under way | type correctness; `SelectionFits`; `ListedIsStored`; `StoredIsFindable` |

Why these bounds are enough to be interesting: every race in the code is between two
handlers or commands that touch one row, one session or one file, so two slots per
kind reach it, and a third actor is there wherever one exists (the poll beside two
confirmations, the reading command beside two transfer handlers or synchronisations,
the ledger beside two wallet commands). Two transfers are needed for a second hop, two
objects for the reuse of a grant id, two tokens for a second mint, two nodes for a
partial success, three nodes in two regions for a selection that has to prefer a
region, two keys for a rotation, two token pairs for a rotation of refresh tokens.
Clocks run just past the lifetimes, so that both sides of each expiry are reached.
Named bounds: `MaxTime`, `MaxTransfers`, `MaxMoves`, `MaxReads`, `MaxDrops`,
`MaxPairs`, `MaxFaults`, `MaxKeys`, `MaxHeight`, `MaxCommands`, `MaxSignIns`,
`MaxEvents`, `MaxBeats`, and the sets `Offers`, `Tokens`, `Jtis`, `GrantIds`.

`CHECK_DEADLOCK FALSE` is given only where the modelled life really ends: the
bounded clock or the bounded commands have run out and every request or vault is
done.

No run assumes fairness, because the code's scheduling supports none that a liveness
property of the protocol could rest on:

* nothing calls `start_background_sync`; a synchronisation runs when an admin asks for
  it, and a cycle takes the 100 rows updated longest ago, so that rows whose owner is
  not found can fill every batch;
* the login dialog polls every 7 seconds, stops at the first error other than 429 and
  when it is closed, so an approved login need not be collected;
* an unlinked mint is linked when the user enters its hash, and only if the token is
  among the first 400 that `account_nfts` lists.

What the code does guarantee is stated as safety: a login that was approved in time is
not lost in the Oracle (`InTimeApprovalKept`), a mint can still be linked
(`MintRecoverable`), and every step of a wallet command lowers a rank, so that a
command that keeps being scheduled ends (`CommandsRunOut`).

## 4. Disagreements between code and documentation, and exclusions

Each disagreement is a run whose property states a comment, document or test, and
whose counterexample is a behaviour of the code.

* `transfers_unclaimed`: `complete_transfer` is "called after NFT transfer confirmation
  on-chain", but neither it nor `confirm_offer_signed` asks the ledger, and the
  desktop calls it after any `tx` answer that is no error. The recorded owner need
  never have held the token.
* `transfers_cancel`: a transfer can be cancelled after it was accepted and
  completed, because acceptance leaves the status that cancel permits.
* `transfers_second_hop`: the second transfer re-encrypts the first owner's
  capsule with the second owner's fragment; its recipient cannot decrypt.
* `vault_tombstone`: a finalization verifies the token, the vault is burned and
  archived, and the finalization then makes the row active again.

The premises of the passing properties exclude behaviour that the code has and
that a reader should know of:

* `TransferringIsOpen` is checked without dropped handlers. A cancel that ends
  between its two UPDATEs leaves the NFT `transferring` with a cancelled transfer,
  and cannot be repeated.
* `KeyOfConfirmed` is about the key in the vault's row. `get_status` shows the key of
  a transfer to both its parties in every status.
* When the recipient accepts on the ledger and the completing call is lost, the NFT
  stays `transferring`, a status the synchronisation skips.
* `OpenedByHolder` promises a holder of some time during the command, not of the
  moment of opening: the key is handed out before the second check.
* `SettledIsFinal` starts when no confirmation is running. Of two concurrent
  confirmations of a login, the slower approves again a request that the poll has
  consumed.
* `InTimeApprovalKept` is about approvals written before the expiry. A handler that
  read the request as expired and has not yet written so replaces an approval that
  came too late.
* `ReuseOnlyAfterExpiry` counts from the last boot, since the cache is in memory.
* `LinkedIsReadable` holds although finalization never looks at the token the row
  has: after a late answer the screen offers the mint again, and a second mint
  replaces the first one's link.
* `RotationAgrees` excludes faults, QR logins and two refreshes of one token: of two
  commands that refresh at once, the Oracle refuses the slower, which then discards
  the tokens the faster one has stored.
* `RevokedStaysRefused` excludes revocations whose store is not the one asked any
  more: what was revoked in PostgreSQL or memory while Redis was away is accepted once
  Redis answers again, and the reverse. So is what Redis evicted. It also leaves out
  the last second of a token, in which it is still valid and its entry already over.
* `SharedAsChosen` does not say who wrote the envelope. A grant id comes from the
  client, and the upsert of `create_grant` compares neither the object nor the
  recipient of the row it meets: the owner of any active object who knows the id
  replaces the envelope and the expiry and brings a revoked grant back. The
  `ClosedHandsOutNothing` of such a grant ends there, and it may not open.
* After a transfer of the NFT the old owner's grants stay, and the old owner keeps
  control of them until the object is registered anew.
* `TrustIsTold` is about keys trusted for as long as the status call runs. One that is
  trusted between its SELECTs may be missed.
* `SentOncePerApproval` is about approvals of mints. A payment whose submit timed
  out and is repeated is a new transaction with a new sequence, and both may be
  validated.
* `StoredIsFindable` and the second half of `ListedIsStored` exclude a vault with a
  replica whose INSERT failed, because its node was removed after the PUT or for any
  other reason, which the code ignores (`unlisted`). The replica is then in the
  manifest alone, and once its node is gone a download asks `localhost:9001` for it.

Smaller observations made while modelling: `claim_nft` takes any `tx` answer that is
no error for a validation; signing out does not stop commands that run; the storage
node's index may name a fragment that a concurrent delete has removed, and only the
statistics read it; the branch for an existing fragment leaves the temporary file; a
write token is consumed before an upload is refused; published metadata are checked
and written in two statements; `download_file` sets a replica to `missing`, which the
CHECK of `migrations/005_replication.sql` refuses and the code ignores; deletion
removes the rows of nodes it did not reach; booked space falls only with the next
heartbeat, and a heartbeat that was measured before an upload overwrites its booking;
a negative replication factor selects every node; a node goes offline at its fourth
failed check, since the check decides on the old count; a running node that was
removed registers again only at its next start; the desktop accepts plain files up to
the limit that nodes apply to encrypted ones; the `pre_key_mismatch` flag of
`list_my_files` is FALSE after a transfer outside the application and TRUE for a
creator with any open or cancelled transfer.

## 5. Proofs

Proved with TLAPS for every value of the constants that satisfies the named
assumptions.

`StorageNodeProofs` (from `StorageNode`'s assumptions on its constants):

* `TypeCorrect`, `TokenReuse` (`ReuseOnlyAfterExpiry`), `Acknowledged`
  (`AckMeansStored`) and `Refinement` (the node implements `FragmentStore`).
* They rest on one inductive invariant, `IInv`. `ReuseOnlyAfterExpiry` alone is
  not inductive: it needs that every token accepted since boot and not yet expired
  is still in the cache, and that a request waiting for the lock carries a time not
  later than the clock, which is what makes purging with an old time harmless.
  `AckMeansStored` needs what each program point of an upload knows about the
  directory: that the temporary file it wrote holds its body, that a linked
  fragment holds the body of the request that linked it, and that a request that
  was overtaken by a delete is recorded as such. The refinement needs that every
  request past the token check holds a consumed token for its key and operation.

`TransfersProofs` (from `TransferAssumption` and `NoneAssumption`):

* `TypeCorrect`, `OwnerNamed` (`OwnerHeldOrNamed`), `KeyConfirmed` (`KeyOfConfirmed`)
  and `Opened` (`OpenedByHolder`), with dropped handlers and moves outside the
  application. The inductive invariant says what a handler knows at its next
  statement (`OnCourse`: the row it will write to exists and, where it matters, is
  confirmed; the owner a synchronisation will record has held the token), that a
  transfer's key is for its recipient (`TransferInv`) and that a reading command past
  the ledger's answer has seen its own wallet hold the token (`ReaderInv`). What one
  handler knows survives the others' steps because rows keep their parties, a
  confirmation is never taken back and `held` only grows.
* `LockedIsOpen` (`TransferringIsOpen`): as long as no task was dropped, a locked NFT
  has a confirmed transfer, or some handler is about to write the confirmation or to
  release the lock (`Locked`).

`QrApprovalProofs` (from `QrAssumption`):

* `TypeCorrect` and `EffectBeforeApproval` (`ApprovedHasEffect`). The
  strengthening says that a confirmation that has reached its approving statement
  already has its effect and that no action removes an effect row.
* `InTimeKept` (`InTimeApprovalKept`): a handler that is about to write an expiry saw
  a pending request too late, so no approval in time came before it and none can come
  after it (`ExpiresUnapproved`); and a poll that has consumed the approval either has
  the tokens in its answer or was dropped.
* `SettledForGood` (`SettledIsFinal`): being settled is stable, since a new
  confirmation finds the request decided and polls write `expired` or `consumed`.

`VaultLifecycleProofs` (from `VaultAssumption`):

* `TypeCorrect`, `Readable` (`LinkedIsReadable`), `Recoverable` (`MintRecoverable`)
  and `ErasedForGood` (`ErasedMeansGone`). The inductive invariant has four parts.
  `Early`: while an upload runs nothing is published or minted, so that no upload
  writes a fragment back after a deletion. `Ready`: what is published was uploaded and
  what is minted was published. `Links`: a finalization works on a minted token, and a
  link has both rows. `Deletion`: a deletion follows a burn, and while all its
  requests have succeeded the fragments it has done with are gone; only deletions
  remove fragments.

`GrantsProofs` (from `Grants`' assumptions on its constants):

* `TypeCorrect`, `Chosen` (`SharedAsChosen`), `TrustTold` (`TrustIsTold`) and the
  action properties `KeyFits` (`KeyFitsFile`) and `ClosedForGood`
  (`ClosedHandsOutNothing`), for any number of objects, grant ids and calls. The
  invariant says that a closed grant's row is not active (`ClosedInv`) and what every
  running call relies on (`CallsInv`): that the object a creation loaded exists, that
  a grant a recipient has opened still has the object of the envelope, because an
  upsert keeps object and recipient and no row is removed, that the keys trusted
  since a status call began are still in the trust table, and that the call has found
  the key it read as current trusted if it is one of them.
`SessionsProofs` (from `SessionAssumption`):

* `TypeCorrect`, `NeverEarly` (`NotExpiredEarly`) and `Refused`
  (`RevokedStaysRefused`). The invariant says that session and commands name issued
  pairs only and have what their next step needs (`CallOk`, `SessionOk`), that no
  pair is issued in the future, so that an expiry counted from the answer is never
  before the one signed, and that the store a revocation went to has an entry that
  lasts as long as the token (`Kept`), which cleanup and restarts preserve. A command
  that found no token looks for a refresh token under a second lock (`Lookup`).

* `RotationHolds` (`RotationAgrees`). The property says when an exception is
  allowed (a command under way with the same refresh token) and is not inductive;
  `Smooth` adds what holds between commands as long as nothing has disturbed them:
  no two carry the same refresh token, a token is not spent before its command's
  turn, and a pair that a command is about to save is known to nobody else
  (`Unseen`). The steps that record a disturbance need no more than that they do
  (`Rough`).

`WalletTxProofs` (from `WalletTxAssumption` and `NoneAssumption`, the latter that
`None` is not a signed transaction):

* `TypeCorrect`, `SentOnce` (`SentOncePerApproval`), `Answers` (`AnswersFit`),
  `Erased` (`ErasedIsBurned`), `Confirmed` (`ConfirmedFits`) and the action
  properties `ReserveStays` (`ReserveKept`) and `CommandsEnd` (`CommandsRunOut`).
* Answers: every request on the wire of a client has an id not above the client's
  counter, and the one that has its current id is the one it waits for (`Fits`);
  no two commands share a client.
* Approvals: for every mint, the copies sent and the one approval that can still be
  used are together no more than the approvals given (`ApprovalInv`). An approval
  that is over counts as one that can be used, because a command reads the clock
  before it takes the lock. The count
  survives a retry because an approval is used up in the step that sends, a second
  registration because it replaces the first (`Single`), and signing out because
  it only removes approvals.
* Reserve: a balance that was read is vouched for by the sequence read with it
  (`Current`): as long as the account's sequence is the same, the account has sent
  nothing and its balance has not fallen. So what a payment was checked against
  holds until its sequence is used up (`PaidFor`), be it in the command, on the wire
  or in the open ledger.
* Erasure: what an answer says of a validated burn stays true (`AnswerOk`,
  `Burned`), because no transaction gives a burned token an owner.
* `CommandsRunOut` follows step by step from the types of the rank. That a rank in
  the naturals cannot fall for ever, hence that every command ends, is not a
  theorem of the project, because it is liveness.

`RegistryProofs` (from `RegistryAssumption`, `NodesAssumption`, that the set of
nodes is finite, and `NoneAssumption`):

* `Selected` (`SelectionFits`), for every strategy, factor and load. An order of the
  candidates enumerates each once (`Enumerates`), and taking a prefix gives
  `Min(count, candidates)` different ones (`Taken`, `Prefix`). For the spreading
  strategies, the nodes that are the first of their region come before all others, so
  a selection either has all of them, and with them all regions, or has nothing else,
  and as many regions as nodes (`Spread`). Load balancing passes over no emptier node
  because its order is by load.
* `ListedHeld` (`ListedIsStored`) and `Findable` (`StoredIsFindable`). The
  inductive invariant says what an upload knows at its next statement
  (`UploadInv`): the nodes it still has to ask and those that answered are
  different, so that no INSERT overwrites the key of another replica; each answer
  was a stored fragment; and each was listed, unless its node was removed in
  between. It also needs that two uploads are of different vaults (`OneUpload`),
  that a deletion runs for a deleted vault only (`DeleteInv`) and that a vault with
  an upload under way is not deleted (`VaultInv`).
* `TypeCorrect`. That the space a heartbeat reports is a number is the one place
  where a sum over a set is needed. The library's induction theorems cannot be
  instantiated here; `Counting` does induction over the naturals for a set of
  numbers instead of an operator, and `SumExists` and `SumIsNat` apply it to the
  cardinality of the set summed over.

Two of these proofs changed the models they are about. In `Registry`, the strategies
were recursive operators and are now stated as the orders in which the code's loops
pick the nodes (`Orders` with the strategy's `Before`); a comparison of the two forms
by the model checker in some 600 000 reachable states found no difference. In
`WalletTx`, the proof of `ReserveKept` showed that a validated transaction could take
a balance below zero; a fee is now taken from what is there.

Every property of a passing run has a theorem. The runs that expect a violation are
counterexamples and have none.

## 6. Not modelled

* Cryptographic primitives, HTTP parsing and formatting, the rendering of the user
  interface and of NFT images, logging and the audit table, the SQL of the
  migrations.
* Rate limiting: counters per address, independent of all other state; which
  requests are refused decides nothing about the others.
* The legacy wallet login with its challenges (`get_challenge`, `get_token`), which
  the desktop no longer uses, the device row that an identity login adds, and the
  keystore files.
* The legacy flow in which the Oracle mints (`cancel_offer`,
  `cancel_secure_note_offer`), and vaults with encrypted manifests
  (`DB_ENCRYPTION_KEY`).
* `list_my_files` and the other lists, which only read; commands of the desktop that
  share files with a request the Oracle refuses for want of a token.
* Liveness, for the reasons in section 3; in `WalletTx` nothing beyond the rank,
  because a ledger need not validate anything; and convergence of the storage
  registry's statuses, whose state space with fairness is beyond the model checker at
  useful bounds.
* In `Transfers`, a vault that is not minted yet (`pending_claim`), for which
  `ownership.rs` trusts the database alone; the module begins with a minted one. In
  `Grants`, an object that was registered under the token of another vault. In
  `VaultLifecycle`, nodes that are removed: a deletion that asks `localhost:9001` in
  place of such a node counts as a request that fails, because the node there refuses
  a token that names another. With `REQUIRE_AUTH=false`, which is not the default, it
  would answer 404, and `delete_vault` would count the fragment as removed.
