------------------------------ MODULE WalletTx ------------------------------
(***************************************************************************)
(* The desktop's XRPL wallet at work: the five kinds of transaction it     *)
(* builds, signs and submits (desktop-client commands.rs), the policy that *)
(* guards the signing key (crypto-core xrpl_wallet.rs), the registry of    *)
(* signed blobs that may be submitted once (state.rs) and the WebSocket    *)
(* client whose answers may be lost or late (xrpl/client.rs), against a    *)
(* ledger that validates transactions in its own time.                     *)
(*                                                                         *)
(* Every command opens a client of its own and sends one request after the *)
(* other; between a request and its answer anything else may happen.  The  *)
(* requests `fee' and `ledger_current' always follow one another and are   *)
(* one request here, "fields".                                             *)
(***************************************************************************)
EXTENDS Integers, FiniteSets, Bags

CONSTANTS
  Wallets,     \* wallets a user of this desktop can unlock
  Tokens,      \* NFTs that exist from the start
  FirstOwner,  \* the wallet that holds them
  Balance,     \* every wallet's first balance
  Reserve,     \* the 10 XRP send_xrp_payment leaves alone
  Fee,         \* a fee the signing policy allows
  Amount,      \* what a payment sends
  Window,      \* ledgers until LastLedgerSequence (20)
  MaxPolls,    \* attempts of a polling loop (12 or 20)
  MaxHeight,   \* bound: ledgers validated
  MaxCommands, \* bound: commands started
  MaxSignIns,  \* bound: wallets unlocked or locked
  MaxFaults,   \* bound: lost and late answers, excessive fees, ledgers without
               \* the desktop's transactions and approvals that expire
  Calls,       \* slots for commands running concurrently
  None

ASSUME WalletTxAssumption ==
  /\ FirstOwner \in Wallets
  /\ Balance \in Nat /\ Reserve \in Nat /\ Fee \in Nat /\ Amount \in Nat \ {0}
  /\ Window \in Nat \ {0} /\ MaxPolls \in Nat \ {0}
  /\ MaxHeight \in Nat /\ MaxCommands \in Nat /\ MaxSignIns \in Nat /\ MaxFaults \in Nat
  /\ None \notin Wallets \cup Tokens

\* Every validated transaction raises its account's sequence, one per ledger.
Seqs == 1..(MaxHeight + 1)
Lasts == 1..(MaxHeight + 1 + Window)

\* What a command was asked to do: XrplSigningIntent without the data that no
\* property tells apart.
MintIntent == [kind : {"mint"}]
OfferIntent == [kind : {"offer"}, token : Tokens, to : Wallets]
BurnIntent == [kind : {"burn"}, token : Tokens]
PayIntent == [kind : {"pay"}, to : Wallets]
\* A signed transaction.  Signing is deterministic, so equal fields are equal
\* blobs; the transaction that made an offer determines the offer's index.
Signed(I) == [intent : I, acct : Wallets, seq : Seqs, last : Lasts]
ClaimIntent == [kind : {"claim"}, offer : Signed(OfferIntent)]
Intents == MintIntent \cup OfferIntent \cup ClaimIntent \cup BurnIntent \cup PayIntent
Mints == Signed(MintIntent)

ASSUME NoneAssumption == None \notin Signed(Intents)

Requests == {"nfts", "objects", "sells", "info", "fields", "submit", "tx"}

VARIABLES
  height,    \* the ledger: index of the last validated ledger
  seqOf,     \* the ledger: account -> its next sequence
  bal,       \* the ledger: account -> balance
  owner,     \* the ledger: token -> holder, None once burned
  offers,    \* the ledger: offers that stand, named by their transactions
  open,      \* transactions in the node's open ledger
  valid,     \* validated transactions and their results
  wallet,    \* the desktop: AppState.xrpl_wallet
  registry,  \* the desktop: AppState.signed_xrpl_transactions
  call,      \* slot -> a command
  wire,      \* requests and answers of every client
  known,     \* signed mints the user interface was given
  approved,  \* history: the mints registered, a bag
  sent,      \* history: the mints sent to the node, a bag
  confirmed, \* history: offers confirmed with the Oracle
  erased,    \* history: tokens whose vaults the Oracle was asked to delete
  cmds, signins, faults

ledger == <<height, seqOf, bal, owner, offers, open, valid>>
desktop == <<wallet, registry, known>>
told == <<approved, sent, confirmed, erased>>
bounds == <<cmds, signins, faults>>
vars == <<ledger, desktop, told, bounds, call, wire>>

Unanswered == [done |-> FALSE, seq |-> 0, bal |-> 0, height |-> 0, high |-> FALSE,
               found |-> {}, res |-> "none", validated |-> FALSE]

Idle == [pc |-> "idle", intent |-> None, submit |-> FALSE, acct |-> None, n |-> 0,
         id |-> 0, seq |-> 0, bal |-> 0, tx |-> None, polls |-> 0]

\* Every variable has its type.
TypeOK ==
  /\ height \in 0..MaxHeight
  /\ seqOf \in [Wallets -> Seqs] /\ bal \in [Wallets -> Nat]
  /\ owner \in [Tokens -> Wallets \cup {None}]
  /\ offers \subseteq Signed(OfferIntent)
  /\ open \subseteq Signed(Intents)
  /\ \A v \in valid : v.tx \in Signed(Intents) /\ v.res \in {"tes", "tec"}
  /\ wallet \in Wallets \cup {None}
  /\ \A r \in registry : r.tx \in Mints /\ r.live \in BOOLEAN /\ r.consumed \in BOOLEAN
  /\ known \subseteq Mints
  /\ \A c \in Calls :
       /\ call[c].pc \in Requests \cup {"idle", "read", "consume", "late"}
       /\ call[c].tx \in Signed(Intents) \cup {None}
       /\ call[c].polls \in 0..MaxPolls
  /\ \A q \in wire : q.m \in Requests /\ q.n \in 1..MaxCommands /\ q.id \in Nat
  /\ IsABag(approved) /\ IsABag(sent) /\ DOMAIN approved \cup DOMAIN sent \subseteq Mints
  /\ cmds \in 0..MaxCommands /\ signins \in 0..MaxSignIns /\ faults \in 0..MaxFaults

Init ==
  /\ height = 0 /\ open = {} /\ valid = {} /\ offers = {}
  /\ seqOf = [w \in Wallets |-> 1] /\ bal = [w \in Wallets |-> Balance]
  /\ owner = [t \in Tokens |-> FirstOwner]
  /\ wallet = None /\ registry = {} /\ known = {}
  /\ call = [c \in Calls |-> Idle] /\ wire = {}
  /\ approved = EmptyBag /\ sent = EmptyBag /\ confirmed = {} /\ erased = {}
  /\ cmds = 0 /\ signins = 0 /\ faults = 0

-----------------------------------------------------------------------------
(* The ledger: XRPL, external *)

\* Would the transaction do what it says, as the validated ledger stands?
Applies(tx) ==
  LET i == tx.intent
  IN CASE i.kind = "mint" -> TRUE
       [] i.kind \in {"offer", "burn"} -> owner[i.token] = tx.acct
       [] i.kind = "claim" -> /\ i.offer \in offers /\ i.offer.intent.to = tx.acct
                              /\ owner[i.offer.intent.token] = i.offer.acct
       [] i.kind = "pay" -> bal[tx.acct] >= Amount + Fee

\* The next sequence of an account when the open ledger is counted.
OpenSeq(w) == seqOf[w] + Cardinality({tx \in open : tx.acct = w})

\* The next ledger is validated with this transaction in it.  A balance below
\* the fee is used up and the transaction fails.
Validate(tx) ==
  LET i == tx.intent
      fee == IF bal[tx.acct] >= Fee THEN Fee ELSE bal[tx.acct]
      ok == Applies(tx) /\ fee = Fee
      res == IF ok THEN "tes" ELSE "tec"
  IN /\ tx \in open /\ tx.seq = seqOf[tx.acct]
     /\ height < MaxHeight /\ height + 1 <= tx.last
     /\ height' = height + 1
     /\ seqOf' = [seqOf EXCEPT ![tx.acct] = @ + 1]
     /\ open' = open \ {tx}
     /\ valid' = valid \cup {[tx |-> tx, res |-> res]}
     /\ bal' = [w \in Wallets |->
                  bal[w] - (IF w = tx.acct THEN fee + (IF ok /\ i.kind = "pay" THEN Amount ELSE 0)
                            ELSE IF ok /\ i.kind = "pay" /\ w = i.to THEN - Amount ELSE 0)]
     /\ owner' = IF ok /\ i.kind = "claim" THEN [owner EXCEPT ![i.offer.intent.token] = tx.acct]
                 ELSE IF ok /\ i.kind = "burn" THEN [owner EXCEPT ![i.token] = None]
                 ELSE owner
     /\ offers' = IF ok /\ i.kind = "offer" THEN offers \cup {tx}
                  ELSE IF ok /\ i.kind = "claim" THEN offers \ {i.offer}
                  ELSE IF ok /\ i.kind = "burn" THEN {o \in offers : o.intent.token # i.token}
                  ELSE offers
     /\ UNCHANGED <<desktop, told, bounds, call, wire>>

\* The next ledger leaves the desktop's transactions out; the ones whose
\* LastLedgerSequence has come are dropped.
EmptyLedger ==
  /\ open # {} /\ height < MaxHeight /\ height' = height + 1
  /\ faults < MaxFaults /\ faults' = faults + 1
  /\ open' = {tx \in open : tx.last > height + 1}
  /\ UNCHANGED <<seqOf, bal, owner, offers, valid, desktop, told, cmds, signins, call, wire>>

\* What each request that only reads gives its command: account_nfts,
AccountNfts(w) == {t \in Tokens : owner[t] = w}
\* account_objects of the validated ledger,
AccountOffers(w) == {o \in offers : o.acct = w}
\* nft_sell_offers, which reads the open ledger,
SellOffers(t) ==
  {o \in offers \cup {tx \in open : tx.intent.kind = "offer"} : o.intent.token = t}
\* account_info of the validated ledger,
AccountInfo(w) == [Unanswered EXCEPT !.seq = seqOf[w], !.bal = bal[w]]
\* fee and ledger_current,
LedgerCurrent == [Unanswered EXCEPT !.height = height + 1]
\* and tx, which also finds a transaction that is not validated.
TxLookup(tx) ==
  IF tx \in open THEN [Unanswered EXCEPT !.res = "pending"]
  ELSE IF \E v \in valid : v.tx = tx
  THEN [Unanswered EXCEPT !.validated = TRUE, !.res = (CHOOSE v \in valid : v.tx = tx).res]
  ELSE [Unanswered EXCEPT !.res = "error"]

Read(q) ==
  CASE q.m = "nfts" -> [Unanswered EXCEPT !.found = AccountNfts(q.acct)]
    [] q.m = "objects" -> [Unanswered EXCEPT !.found = AccountOffers(q.acct)]
    [] q.m = "sells" -> [Unanswered EXCEPT !.found = SellOffers(q.token)]
    [] q.m = "info" -> AccountInfo(q.acct)
    [] q.m = "fields" -> LedgerCurrent
    [] q.m = "tx" -> TxLookup(q.tx)

Answer(q, a) == wire' = (wire \ {q}) \cup {[q EXCEPT !.ans = [a EXCEPT !.done = TRUE]]}

NodeReads(q) ==
  /\ ~q.ans.done /\ q.m # "submit"
  /\ Answer(q, Read(q))
  /\ UNCHANGED <<ledger, desktop, told, bounds, call>>

\* The network is busy: open_ledger_fee is above what the policy allows.
FeeEscalated(q) ==
  /\ ~q.ans.done /\ q.m = "fields" /\ faults < MaxFaults
  /\ Answer(q, [Read(q) EXCEPT !.high = TRUE]) /\ faults' = faults + 1
  /\ UNCHANGED <<ledger, desktop, told, call, cmds, signins>>

\* A submitted transaction is put into the open ledger, with a preliminary
\* result, or refused for its sequence or its last ledger.
NodeSubmits(q) ==
  /\ ~q.ans.done /\ q.m = "submit"
  /\ LET taken == q.tx.seq = OpenSeq(q.tx.acct) /\ height + 1 <= q.tx.last
     IN /\ open' = IF taken THEN open \cup {q.tx} ELSE open
        /\ Answer(q, [Unanswered EXCEPT !.res = IF ~taken THEN "tef"
                                                ELSE IF Applies(q.tx) THEN "tes" ELSE "tec"])
  /\ UNCHANGED <<height, seqOf, bal, owner, offers, valid, desktop, told, bounds, call>>

\* A request or an answer is lost, or the connection closes under it: the
\* reader task ends and leaves the pending sender where it is.
Lose(q) ==
  /\ faults < MaxFaults /\ faults' = faults + 1
  /\ wire' = wire \ {q}
  /\ UNCHANGED <<ledger, desktop, told, call, cmds, signins>>

-----------------------------------------------------------------------------
(* The client: XrplClient *)

\* Mutant of NextId: the request counter is read and not advanced.
NextIdStuck(id) == 1

\* request_id.fetch_add: ids are never used twice by one client.
NextId(id) == id + 1

\* request_with_id: the command `cc' in slot c sends a request and waits; `rest'
\* is what is on the wire besides it.
Ask(c, cc, m, rest) ==
  LET id == NextId(cc.id)
      token == IF cc.intent.kind \in {"offer", "burn"} THEN cc.intent.token ELSE None
  IN /\ call' = [call EXCEPT ![c] = [cc EXCEPT !.pc = m, !.id = id]]
     /\ wire' = rest \cup {[n |-> cc.n, id |-> id, m |-> m, acct |-> cc.acct, token |-> token,
                            tx |-> cc.tx, ans |-> Unanswered]}

\* The command returns and its client is dropped.  The writer task still sends
\* what is queued; answers find nobody.
Return(c) ==
  /\ call' = [call EXCEPT ![c] = Idle]
  /\ wire' = {q \in wire : q.n # call[c].n \/ (q.m = "submit" /\ ~q.ans.done)}

\* The reader task has removed the sender with this id: it is the waiting
\* request's.
Arrived(c, q, m) ==
  /\ call[c].pc = m /\ q \in wire /\ q.ans.done
  /\ q.n = call[c].n /\ q.id = call[c].id

Others(q) == wire \ {q}

\* An answer to a request that has timed out: the sender is removed and the
\* answer goes nowhere.
LateAnswer(q) ==
  /\ q.ans.done
  /\ ~\E c \in Calls : call[c].n = q.n /\ call[c].id = q.id
  /\ wire' = wire \ {q}
  /\ UNCHANGED <<ledger, desktop, told, bounds, call>>

-----------------------------------------------------------------------------
(* Signing *)

\* build_nftoken_mint_tx and its siblings: the fields of the intent and no others.
Build(intent, acct) == [intent |-> intent, acct |-> acct]

AddSigningFields(tx, seq, last) ==
  [intent |-> tx.intent, acct |-> tx.acct, seq |-> seq, last |-> last]

\* validate_common_signing_fields: the wallet's own account, a fee within the
\* limit, sequence and last ledger filled in.
CommonSigningFields(tx, acct, a) ==
  tx.acct = acct /\ ~a.high /\ tx.seq # 0 /\ tx.last # 0

\* The policies of the five intents: exactly the intent's fields and values.
MatchesIntent(tx, intent) == tx.intent = intent

\* validate_xrpl_transaction_for_intent.
PolicyAccepts(tx, intent, acct, a) ==
  CommonSigningFields(tx, acct, a) /\ MatchesIntent(tx, intent)

\* Mutant of SequenceFor: the sequence comes from the open ledger at signing.
SequenceAtSigning(cc) == OpenSeq(cc.acct)

\* The sequence is the one account_info gave, together with the balance.
SequenceFor(cc) == cc.seq

\* validate_spendable_balance, against the balance account_info gave.
Spendable(cc) == cc.intent.kind = "pay" => cc.bal >= Reserve + Fee + Amount

-----------------------------------------------------------------------------
(* The commands *)

\* The wallet is read once, when the command starts, and used to the end.
Started(c, intent, submit) ==
  /\ call[c] = Idle /\ wallet # None /\ cmds < MaxCommands
  /\ cmds' = cmds + 1
  /\ LET cc == [Idle EXCEPT !.intent = intent, !.submit = submit, !.acct = wallet, !.n = cmds + 1]
         first == CASE intent.kind = "offer" -> "objects"
                    [] intent.kind = "burn" -> "nfts"
                    [] OTHER -> "info"
     IN Ask(c, cc, first, wire)
  /\ UNCHANGED <<ledger, desktop, told, signins, faults>>

\* mint_vaulted_nft_locally, or sign_vaulted_nft_mint_transaction when nothing
\* is to be submitted.
Mint(c, submit) == Started(c, [kind |-> "mint"], submit)

\* create_transfer_offer.
CreateTransferOffer(c, t, to) ==
  /\ to # wallet
  /\ Started(c, [kind |-> "offer", token |-> t, to |-> to], TRUE)

\* claim_nft: the Oracle knows the transfer of an offer that was confirmed.
ClaimNft(c, o) ==
  /\ o \in {k.offer : k \in confirmed}
  /\ Started(c, [kind |-> "claim", offer |-> o], TRUE)

\* delete_vault.
DeleteVault(c, t) == Started(c, [kind |-> "burn", token |-> t], TRUE)

\* send_xrp_payment.
SendXrpPayment(c, to) ==
  /\ to # wallet
  /\ Started(c, [kind |-> "pay", to |-> to], TRUE)

\* submit_vaulted_xrpl_tx_blob, of a signed mint the user interface has.
SubmitBlob(c, tx) ==
  /\ call[c] = Idle /\ tx \in known /\ cmds < MaxCommands
  /\ cmds' = cmds + 1
  /\ call' = [call EXCEPT ![c] = [Idle EXCEPT !.pc = "read", !.intent = tx.intent,
                                    !.submit = TRUE, !.tx = tx, !.n = cmds + 1]]
  /\ UNCHANGED <<ledger, desktop, told, signins, faults, wire>>

\* delete_vault goes on only for the holder of the token.
OnNfts(c, q) ==
  /\ Arrived(c, q, "nfts")
  /\ IF call[c].intent.token \in q.ans.found
     THEN Ask(c, call[c], "info", Others(q))
     ELSE Return(c)
  /\ UNCHANGED <<ledger, desktop, told, bounds>>

\* Mutant of Matches: any offer of the token will do.
MatchesToken(o, cc) == o.intent.token = cc.intent.token

\* find_matching_offer_index.
Matches(o, cc) ==
  /\ o.acct = cc.acct /\ o.intent.token = cc.intent.token /\ o.intent.to = cc.intent.to

\* confirm_transfer_offer_with_oracle, the last thing create_transfer_offer does.
Confirm(c, o) ==
  /\ confirmed' = confirmed \cup {[token |-> call[c].intent.token, to |-> call[c].intent.to,
                                   offer |-> o]}
  /\ Return(c)
  /\ UNCHANGED <<approved, sent, erased>>

\* Mutant of PollAgain: the attempts are not counted.
PollAgainUncounted(c, rest) == Ask(c, call[c], "tx", rest)

\* Mutant of PollAgain: one attempt too many.
PollAgainPast(c, rest) ==
  IF call[c].polls <= MaxPolls
  THEN Ask(c, [call[c] EXCEPT !.polls = @ + 1], "tx", rest)
  ELSE Return(c)

\* One attempt of a polling loop is over: the next, or the end.
PollAgain(c, rest) ==
  IF call[c].polls < MaxPolls
  THEN Ask(c, [call[c] EXCEPT !.polls = @ + 1], "tx", rest)
  ELSE Return(c)

\* No offer was found.  Before the submit that is the lookup's answer and a new
\* offer is made; after it, the attempt's.
NotFound(c, rest) ==
  IF call[c].tx = None THEN Ask(c, call[c], "info", rest) ELSE PollAgain(c, rest)

\* find_matching_nftoken_offer looks at the account's validated objects first ...
OnObjects(c, q) ==
  /\ Arrived(c, q, "objects")
  /\ LET found == {o \in q.ans.found : Matches(o, call[c])}
     IN IF found # {}
        THEN \E o \in found : Confirm(c, o)
        ELSE Ask(c, call[c], "sells", Others(q)) /\ UNCHANGED told
  /\ UNCHANGED <<ledger, desktop, bounds>>

\* ... and then at the token's sell offers, in the open ledger.
OnSells(c, q) ==
  /\ Arrived(c, q, "sells")
  /\ LET found == {o \in q.ans.found : Matches(o, call[c])}
     IN IF found # {}
        THEN \E o \in found : Confirm(c, o)
        ELSE NotFound(c, Others(q)) /\ UNCHANGED told
  /\ UNCHANGED <<ledger, desktop, bounds>>

\* account_info: sequence and balance from one validated ledger.
OnInfo(c, q) ==
  /\ Arrived(c, q, "info")
  /\ Ask(c, [call[c] EXCEPT !.seq = q.ans.seq, !.bal = q.ans.bal], "fields", Others(q))
  /\ UNCHANGED <<ledger, desktop, told, bounds>>

\* register_signed_xrpl_tx_blob: used and expired records go, and one of the same
\* blob is replaced by a fresh one.
Register(tx) ==
  /\ registry' = {r \in registry : r.live /\ ~r.consumed /\ r.tx # tx}
                 \cup {[tx |-> tx, live |-> TRUE, consumed |-> FALSE]}
  /\ approved' = approved (+) SetToBag({tx})

\* sign_xrpl_transaction_for_intent, once the policy accepts; `a' has the fee and
\* the current ledger.
Sign(cc, a) ==
  AddSigningFields(Build(cc.intent, cc.acct), SequenceFor(cc), a.height + Window)

\* The transaction is signed.  A mint is registered, to be submitted by this
\* command or by a later one; the others are sent at once.
OnFields(c, q) ==
  LET cc == call[c]
      tx == Sign(cc, q.ans)
      signed == [cc EXCEPT !.tx = tx]
  IN /\ Arrived(c, q, "fields")
     /\ IF ~Spendable(cc) \/ ~PolicyAccepts(tx, cc.intent, cc.acct, q.ans)
        THEN Return(c) /\ UNCHANGED <<registry, approved, known>>
        ELSE IF cc.intent.kind # "mint"
        THEN Ask(c, signed, "submit", Others(q)) /\ UNCHANGED <<registry, approved, known>>
        ELSE IF cc.submit
        THEN /\ Register(tx)
             /\ call' = [call EXCEPT ![c] = [signed EXCEPT !.pc = "read"]]
             /\ wire' = Others(q) /\ UNCHANGED known
        ELSE Register(tx) /\ Return(c) /\ known' = known \cup {tx}
     /\ UNCHANGED <<ledger, wallet, sent, confirmed, erased, bounds>>

\* consume_signed_xrpl_tx_blob reads the wallet and the clock before it takes the
\* lock: an approval is over for this command if it was over then.
Over(tx) == \E r \in registry : r.tx = tx /\ ~r.live

ReadWallet(c) ==
  /\ call[c].pc = "read"
  /\ IF wallet = None THEN Return(c)
     ELSE /\ call' = [call EXCEPT ![c].pc = IF Over(call[c].tx) THEN "late" ELSE "consume",
                                  ![c].acct = wallet]
          /\ UNCHANGED wire
  /\ UNCHANGED <<ledger, desktop, told, bounds>>

\* Mutant of Consumed: the record is not marked.
ConsumedUnmarked(r) == r

Consumed(r) == [r EXCEPT !.consumed = TRUE]

\* consume_signed_xrpl_tx_blob under the lock: the record is used up before the
\* blob is sent, whatever becomes of it.  A late command needs a record made since.
Consume(c) ==
  LET cc == call[c]
      usable == {r \in registry : /\ r.tx = cc.tx /\ ~r.consumed /\ cc.tx.acct = cc.acct
                                  /\ cc.pc = "late" => r.live}
  IN /\ cc.pc \in {"consume", "late"}
     /\ IF usable = {} THEN Return(c) /\ UNCHANGED <<registry, sent>>
        ELSE /\ registry' = (registry \ usable) \cup {Consumed(r) : r \in usable}
             /\ sent' = sent (+) SetToBag({cc.tx})
             /\ Ask(c, cc, "submit", wire)
     /\ UNCHANGED <<ledger, wallet, known, approved, confirmed, erased, bounds>>

\* The user interface is given the signed mint with the answer.
Tell(c) == known' = IF call[c].intent.kind = "mint" THEN known \cup {call[c].tx} ELSE known

\* submit: accepted when the preliminary result is `tes'.
Accepted(a) == a.res = "tes"

\* submit_vaulted_xrpl_tx_blob_inner: an accepted mint is looked up for its token.
OnMintSubmit(c, q) ==
  /\ Arrived(c, q, "submit") /\ call[c].intent.kind = "mint"
  /\ IF Accepted(q.ans)
     THEN Ask(c, [call[c] EXCEPT !.polls = 1], "tx", Others(q)) /\ UNCHANGED known
     ELSE Return(c) /\ Tell(c)
  /\ UNCHANGED <<ledger, wallet, registry, told, bounds>>

\* An offer, a claim or a burn that is not accepted ends its command; an
\* accepted one is waited for.
AwaitAccepted(c, q) ==
  /\ IF Accepted(q.ans) THEN Ask(c, [call[c] EXCEPT !.polls = 1], "tx", Others(q)) ELSE Return(c)
  /\ UNCHANGED <<ledger, desktop, told, bounds>>

OnOfferSubmit(c, q) ==
  Arrived(c, q, "submit") /\ call[c].intent.kind = "offer" /\ AwaitAccepted(c, q)

OnClaimSubmit(c, q) ==
  Arrived(c, q, "submit") /\ call[c].intent.kind = "claim" /\ AwaitAccepted(c, q)

OnBurnSubmit(c, q) ==
  Arrived(c, q, "submit") /\ call[c].intent.kind = "burn" /\ AwaitAccepted(c, q)

\* A payment is over, accepted or not, with the preliminary result.
OnPaySubmit(c, q) ==
  /\ Arrived(c, q, "submit") /\ call[c].intent.kind = "pay"
  /\ Return(c)
  /\ UNCHANGED <<ledger, desktop, told, bounds>>

\* The metadata names the minted token.
MintedToken(a) == a.res = "tes"

\* extract_minted_nftoken_id: until the answer has metadata with a token.
OnMintTx(c, q) ==
  /\ Arrived(c, q, "tx") /\ call[c].intent.kind = "mint"
  /\ IF MintedToken(q.ans) THEN Return(c) ELSE PollAgain(c, Others(q))
  /\ IF call'[c].pc = "idle" THEN Tell(c) ELSE UNCHANGED known
  /\ UNCHANGED <<ledger, wallet, registry, told, bounds>>

\* The metadata of a validated transaction has a new offer.
NamesOffer(a) == a.validated /\ a.res = "tes"

\* resolve_nftoken_offer_index: a validated transaction names its offer;
\* otherwise the offers are searched.
OnOfferTx(c, q) ==
  /\ Arrived(c, q, "tx") /\ call[c].intent.kind = "offer"
  /\ IF NamesOffer(q.ans)
     THEN Confirm(c, call[c].tx)
     ELSE Ask(c, call[c], "objects", Others(q)) /\ UNCHANGED told
  /\ UNCHANGED <<ledger, desktop, bounds>>

\* wait_for_xrpl_tx_validated: any answer but an error will do, validated or
\* not; then complete_transfer is called.
OnClaimTx(c, q) ==
  /\ Arrived(c, q, "tx") /\ call[c].intent.kind = "claim"
  /\ IF q.ans.res = "error" THEN PollAgain(c, Others(q)) ELSE Return(c)
  /\ UNCHANGED <<ledger, desktop, told, bounds>>

\* Mutant of BurnIsFinal: what the submit promised is good enough.
BurnIsAccepted(a) == a.res \in {"tes", "pending"}

\* The transaction is validated, and with tesSUCCESS.
BurnIsFinal(a) == a.validated /\ a.res = "tes"

\* The Oracle is asked to delete the vault.
EraseVault(c) == erased' = erased \cup {call[c].intent.token} /\ Return(c)

\* wait_for_validated_nftoken_burn, and the Oracle's cleanup after it.
OnBurnTx(c, q) ==
  /\ Arrived(c, q, "tx") /\ call[c].intent.kind = "burn"
  /\ IF BurnIsFinal(q.ans)
     THEN EraseVault(c)
     ELSE /\ UNCHANGED erased
          /\ IF q.ans.validated THEN Return(c) ELSE PollAgain(c, Others(q))
  /\ UNCHANGED <<ledger, desktop, approved, sent, confirmed, bounds>>

\* No answer came in 30 seconds; one that is only slow counts as a fault.
GivesUp(c) ==
  /\ call[c].pc \in Requests
  /\ IF \E q \in wire : q.n = call[c].n /\ q.id = call[c].id
     THEN faults < MaxFaults /\ faults' = faults + 1
     ELSE UNCHANGED faults

\* What a failed request means to its command: a lookup before the submit is
\* skipped, an attempt of a polling loop is over, everything else ends it.
Timeout(c) ==
  /\ GivesUp(c)
  /\ CASE call[c].pc \in {"objects", "sells"} -> NotFound(c, wire)
       [] call[c].pc = "tx" /\ call[c].intent.kind = "offer" -> Ask(c, call[c], "objects", wire)
       [] call[c].pc = "tx" /\ call[c].intent.kind # "offer" -> PollAgain(c, wire)
       [] OTHER -> Return(c)
  /\ UNCHANGED <<ledger, desktop, told, cmds, signins>>

-----------------------------------------------------------------------------
(* The desktop's user *)

\* init_vaulted_identity_from_mnemonic: what is registered and running stays.
SignIn(w) ==
  /\ wallet # w /\ signins < MaxSignIns /\ signins' = signins + 1
  /\ wallet' = w
  /\ UNCHANGED <<ledger, registry, known, told, call, wire, cmds, faults>>

\* clear_session.
SignOut ==
  /\ wallet # None /\ signins < MaxSignIns /\ signins' = signins + 1
  /\ wallet' = None /\ registry' = {}
  /\ UNCHANGED <<ledger, known, told, call, wire, cmds, faults>>

\* Five minutes after it was made an approval is over.
Expire(r) ==
  /\ r.live /\ faults < MaxFaults /\ faults' = faults + 1
  /\ registry' = (registry \ {r}) \cup {[r EXCEPT !.live = FALSE]}
  /\ UNCHANGED <<ledger, wallet, known, told, cmds, signins, call, wire>>

-----------------------------------------------------------------------------
Start(c) ==
  \/ \E submit \in BOOLEAN : Mint(c, submit)
  \/ \E t \in Tokens, to \in Wallets : CreateTransferOffer(c, t, to)
  \/ \E k \in confirmed : ClaimNft(c, k.offer)
  \/ \E t \in Tokens : DeleteVault(c, t)
  \/ \E to \in Wallets : SendXrpPayment(c, to)
  \/ \E tx \in known : SubmitBlob(c, tx)

\* An answer is handled by the command that waits for it.
Handle(c) ==
  \E q \in wire : \/ OnNfts(c, q) \/ OnObjects(c, q) \/ OnSells(c, q) \/ OnInfo(c, q)
                  \/ OnFields(c, q) \/ OnMintSubmit(c, q) \/ OnOfferSubmit(c, q)
                  \/ OnClaimSubmit(c, q) \/ OnBurnSubmit(c, q) \/ OnPaySubmit(c, q)
                  \/ OnMintTx(c, q) \/ OnOfferTx(c, q) \/ OnClaimTx(c, q) \/ OnBurnTx(c, q)

Work(c) == Handle(c) \/ Timeout(c) \/ ReadWallet(c) \/ Consume(c)

Node == \E q \in wire : NodeReads(q) \/ NodeSubmits(q)

Next ==
  \/ \E c \in Calls : Start(c) \/ Work(c)
  \/ Node
  \/ \E q \in wire : FeeEscalated(q) \/ Lose(q) \/ LateAnswer(q)
  \/ \E tx \in open : Validate(tx)
  \/ EmptyLedger
  \/ \E w \in Wallets : SignIn(w)
  \/ SignOut
  \/ \E r \in registry : Expire(r)

Spec == Init /\ [][Next]_vars

-----------------------------------------------------------------------------
\* A signed mint is sent to the node at most once for each time it was
\* registered, whatever is submitted twice, concurrently, or after another
\* wallet was unlocked (register_ and consume_signed_xrpl_tx_blob).
SentOncePerApproval == sent \sqsubseteq approved

\* A late answer is never taken for the answer to a later request of the same
\* client: ids keep them apart (request_with_id, the reader task of connect).
AnswersFit ==
  \A c \in Calls, q \in wire :
    call[c].pc \in Requests /\ q.n = call[c].n /\ q.id = call[c].id
      => q.m = call[c].pc /\ q.tx = call[c].tx

\* The Oracle is asked to delete a vault only when the token is burned for good
\* (delete_vault, wait_for_validated_nftoken_burn).
ErasedIsBurned == \A t \in erased : owner[t] = None

\* An offer confirmed with the Oracle is one for the transfer's token and
\* recipient, found before or after the submit (resolve_nftoken_offer_index).
ConfirmedFits ==
  \A k \in confirmed : k.offer.intent.token = k.token /\ k.offer.intent.to = k.to

\* A payment that is validated leaves the sender the reserve, although it was
\* compared with a balance read long before: every other transaction of the
\* account in between uses up the sequence (send_xrp_payment).
ReserveKept ==
  [][\A v \in valid' \ valid :
       v.tx.intent.kind = "pay" /\ v.res = "tes" => bal'[v.tx.acct] >= Reserve]_vars

\* What a command still has ahead of it: the requests before its submit, then
\* the attempts of its polling loop.
Rank(cc) ==
  LET before == [nfts |-> 7, objects |-> 7, sells |-> 6, info |-> 5, fields |-> 4,
                 read |-> 3, consume |-> 2, late |-> 2, submit |-> 1]
      after == [tx |-> 3, objects |-> 2, sells |-> 1]
  IN IF cc.tx = None \/ cc.pc \in {"read", "consume", "late", "submit"}
     THEN 3 * MaxPolls + before[cc.pc]
     ELSE 3 * (MaxPolls - cc.polls) + after[cc.pc]

\* Every command runs out of steps: no order of answers, timeouts and late
\* answers brings it back to a request it has done (request_with_id and the
\* polling loops of xrpl/client.rs).
CommandsRunOut ==
  [][\A c \in Calls :
       call[c] # Idle /\ call'[c] # Idle /\ call'[c] # call[c]
         => Rank(call'[c]) < Rank(call[c])]_vars
=============================================================================
