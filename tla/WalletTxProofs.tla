--------------------------- MODULE WalletTxProofs ---------------------------
(* Proofs about WalletTx, for any wallets, tokens, amounts and commands. *)
EXTENDS WalletTx, TLAPS

CallType ==
  [pc : Requests \cup {"idle", "read", "consume", "late"}, intent : Intents \cup {None},
   submit : BOOLEAN, acct : Wallets \cup {None}, n : Nat, id : Nat, seq : Nat,
   bal : Nat, tx : Signed(Intents) \cup {None}, polls : 0..MaxPolls]

AnswerType ==
  [done : BOOLEAN, seq : Nat, bal : Nat, height : Nat, high : BOOLEAN,
   found : SUBSET (Tokens \cup Signed(OfferIntent)),
   res : {"none", "pending", "error", "tes", "tec", "tef"}, validated : BOOLEAN]

RequestType ==
  [n : 1..MaxCommands, id : Nat, m : Requests, acct : Wallets,
   token : Tokens \cup {None}, tx : Signed(Intents) \cup {None}, ans : AnswerType]

RecordType == [tx : Mints, live : BOOLEAN, consumed : BOOLEAN]

\* What account_info once said of a wallet: as long as the sequence is the same,
\* the wallet has sent nothing and its balance has not fallen.
Current(w, s, b) == s <= seqOf[w] /\ (s = seqOf[w] => b <= bal[w])

\* A signed payment was checked against the balance, and the check holds for as
\* long as its sequence can be used.
PaidFor(tx) == tx.intent.kind = "pay" => Current(tx.acct, tx.seq, Reserve + Fee + Amount)

\* A command has what its next step needs.
CallOk(cc) ==
  /\ cc \in CallType
  /\ cc.n <= cmds
  /\ cc.pc = "idle" => cc.n = 0
  /\ cc.pc # "idle" => cc.n # 0 /\ cc.intent \in Intents
  /\ cc.pc \in Requests \cup {"consume", "late"} => cc.acct \in Wallets
  /\ cc.pc \in {"nfts", "info", "fields"} => cc.tx = None
  /\ cc.pc \in {"submit", "tx", "read", "consume", "late"} => cc.tx # None
  /\ cc.tx # None => cc.tx.intent = cc.intent /\ PaidFor(cc.tx)
  /\ cc.pc \in {"objects", "sells"} => cc.intent.kind = "offer"
  /\ cc.pc \in {"read", "consume", "late"} => cc.intent.kind = "mint"
  /\ cc.pc = "fields" => cc.seq \in Seqs /\ Current(cc.acct, cc.seq, cc.bal)

\* A burn is final.
Burned(tx) == tx.intent.kind = "burn" => owner[tx.intent.token] = None

\* What an answer said and is still true when it is read.
AnswerOk(q) ==
  /\ q.m \in {"objects", "sells"} => q.ans.found \subseteq Signed(OfferIntent)
  /\ q.m = "info" => q.ans.seq \in Seqs /\ Current(q.acct, q.ans.seq, q.ans.bal)
  /\ q.m = "fields" => q.ans.height \in 1..(MaxHeight + 1)
  /\ q.m = "tx" /\ q.ans.validated /\ q.ans.res = "tes" => Burned(q.tx)

RequestOk(q) ==
  /\ q \in RequestType
  /\ q.n <= cmds
  /\ q.m \in {"submit", "tx"} => q.tx # None /\ PaidFor(q.tx)
  /\ q.ans.done => AnswerOk(q)

\* A request is not newer than its command's last one, and is that one only if
\* the command waits for it.
Fits(cc, q) ==
  q.n = cc.n =>
    /\ q.id <= cc.id
    /\ cc.pc \in Requests /\ q.id = cc.id
         => q.m = cc.pc /\ q.tx = cc.tx /\ q.acct = cc.acct

CallInv ==
  /\ call \in [Calls -> CallType]
  /\ \A c \in Calls : CallOk(call[c])
  /\ \A c, d \in Calls : call[c].n # 0 /\ call[c].n = call[d].n => c = d

WireInv == \A q \in wire : RequestOk(q) /\ \A c \in Calls : Fits(call[c], q)

LedgerInv ==
  /\ height \in 0..MaxHeight
  /\ seqOf \in [Wallets -> Seqs] /\ \A w \in Wallets : seqOf[w] <= height + 1
  /\ bal \in [Wallets -> Nat] /\ owner \in [Tokens -> Wallets \cup {None}]
  /\ offers \subseteq Signed(OfferIntent)
  /\ open \subseteq Signed(Intents) /\ \A tx \in open : PaidFor(tx)
  /\ valid \subseteq [tx : Signed(Intents), res : {"tes", "tec"}]
  /\ \A v \in valid : v.res = "tes" => Burned(v.tx)

\* An approval that can still be used.
Usable(r) == ~r.consumed

\* The registry is keyed by the blob.
Single == \A r, s \in registry : r.tx = s.tx => r = s

Waiting(tx) == IF \E r \in registry : r.tx = tx /\ Usable(r) THEN 1 ELSE 0

Copies(tx, B) == IF tx \in DOMAIN B THEN B[tx] ELSE 0

\* Every approval was used at most once, or waits to be used.
ApprovalInv ==
  /\ registry \subseteq RecordType /\ Single
  /\ IsABag(approved) /\ IsABag(sent)
  /\ DOMAIN approved \subseteq Mints /\ DOMAIN sent \subseteq Mints
  /\ \A tx \in Mints : Copies(tx, sent) + Waiting(tx) <= Copies(tx, approved)

ToldInv ==
  /\ known \subseteq Mints
  /\ \A k \in confirmed : /\ k.offer \in Signed(OfferIntent)
                          /\ k.offer.intent.token = k.token /\ k.offer.intent.to = k.to
  /\ erased \subseteq Tokens /\ \A t \in erased : owner[t] = None

BoundsInv ==
  /\ wallet \in Wallets \cup {None}
  /\ cmds \in 0..MaxCommands /\ signins \in 0..MaxSignIns /\ faults \in 0..MaxFaults

IInv == CallInv /\ WireInv /\ LedgerInv /\ ApprovalInv /\ ToldInv /\ BoundsInv

-----------------------------------------------------------------------------
(* What is signed *)

\* The fields that an intent of each kind has.
LEMMA IntentFields ==
  ASSUME NEW i \in Intents
  PROVE  /\ i.kind \in {"mint", "offer", "claim", "burn", "pay"}
         /\ i.kind = "mint" => i \in MintIntent
         /\ i.kind = "offer" => i \in OfferIntent /\ i.token \in Tokens /\ i.to \in Wallets
         /\ i.kind = "claim" => i.offer \in Signed(OfferIntent)
         /\ i.kind = "burn" => i.token \in Tokens
         /\ i.kind = "pay" => i.to \in Wallets
BY DEF Intents, MintIntent, OfferIntent, ClaimIntent, BurnIntent, PayIntent

\* The same for transactions.
LEMMA SignedFields ==
  ASSUME NEW tx \in Signed(Intents)
  PROVE  /\ tx.intent \in Intents /\ tx.acct \in Wallets /\ tx.seq \in Seqs
         /\ tx.intent.kind = "mint" => tx \in Mints
         /\ tx.intent.kind = "offer" => tx \in Signed(OfferIntent)
<1>1. /\ tx.intent \in Intents /\ tx.acct \in Wallets /\ tx.seq \in Seqs /\ tx.last \in Lasts
      /\ tx = [intent |-> tx.intent, acct |-> tx.acct, seq |-> tx.seq, last |-> tx.last]
  BY DEF Signed
<1>2. ASSUME tx.intent.kind = "mint" PROVE tx \in Mints
  BY <1>1, <1>2, IntentFields DEF Signed, Mints
<1>3. ASSUME tx.intent.kind = "offer" PROVE tx \in Signed(OfferIntent)
  BY <1>1, <1>3, IntentFields DEF Signed
<1> QED BY <1>1, <1>2, <1>3

\* An offer is for a token and a wallet.
LEMMA OfferFields ==
  ASSUME NEW o \in Signed(OfferIntent)
  PROVE  /\ o \in Signed(Intents) /\ o.acct \in Wallets
         /\ o.intent.token \in Tokens /\ o.intent.to \in Wallets /\ o.intent.kind = "offer"
<1>1. /\ o.intent \in OfferIntent /\ o.acct \in Wallets /\ o.seq \in Seqs /\ o.last \in Lasts
      /\ o = [intent |-> o.intent, acct |-> o.acct, seq |-> o.seq, last |-> o.last]
  BY DEF Signed
<1>2. o.intent \in Intents
  BY <1>1 DEF Intents
<1> QED BY <1>1, <1>2 DEF Signed, OfferIntent

\* A mint is a transaction without further fields.
LEMMA MintFields ==
  ASSUME NEW tx \in Mints
  PROVE  tx \in Signed(Intents) /\ tx.intent \in Intents /\ tx.intent.kind = "mint" /\ PaidFor(tx)
<1>1. /\ tx.intent \in MintIntent /\ tx.acct \in Wallets /\ tx.seq \in Seqs /\ tx.last \in Lasts
      /\ tx = [intent |-> tx.intent, acct |-> tx.acct, seq |-> tx.seq, last |-> tx.last]
  BY DEF Signed, Mints
<1>2. tx.intent \in Intents /\ tx.intent.kind = "mint"
  BY <1>1 DEF Intents, MintIntent
<1> QED BY <1>1, <1>2 DEF Signed, PaidFor

\* The records the model starts from.
LEMMA IdleFields ==
  /\ Idle \in CallType /\ Idle.pc = "idle" /\ Idle.n = 0 /\ Idle.tx = None
  /\ Unanswered \in AnswerType /\ ~Unanswered.done
BY WalletTxAssumption DEF Idle, CallType, Unanswered, AnswerType

-----------------------------------------------------------------------------
(* Steps of a command *)

\* Nothing that a command or a request relies on changes.
Still == UNCHANGED <<seqOf, bal, owner>>

\* Commands and requests are as good as before.
LEMMA StillOk ==
  ASSUME Still, cmds \in Nat, cmds' \in {cmds, cmds + 1}
  PROVE  /\ \A cc : CallOk(cc) => CallOk(cc)'
         /\ \A q : RequestOk(q) => RequestOk(q)'
<1> USE DEF Still
<1>1. \A tx : PaidFor(tx) => PaidFor(tx)'
  BY DEF PaidFor, Current
<1>2. ASSUME NEW cc, CallOk(cc) PROVE CallOk(cc)'
  <2>1. cc.n \in Nat
    BY <1>2 DEF CallOk, CallType
  <2> QED BY <1>1, <1>2, <2>1 DEF CallOk, Current
<1>3. ASSUME NEW q, RequestOk(q) PROVE RequestOk(q)'
  <2>1. q.n \in Nat
    BY <1>3, WalletTxAssumption DEF RequestOk, RequestType
  <2>2. q.ans.done => AnswerOk(q)'
    BY <1>3 DEF RequestOk, AnswerOk, Current, Burned
  <2> QED BY <1>1, <1>3, <2>1, <2>2 DEF RequestOk
<1> QED BY <1>2, <1>3

\* A command moves on with new requests, if any, under an id of their own; or it
\* is a new one, or has ended.
LEMMA CommandStep ==
  ASSUME IInv, Still, NEW c \in Calls, NEW r, NEW Q,
         call' = [call EXCEPT ![c] = r], CallOk(r)', wire' \subseteq wire \cup Q,
         cmds' \in {cmds, cmds + 1},
         \A q \in Q : /\ RequestOk(q)'
                      /\ q.n = r.n /\ q.id = r.id /\ q.m = r.pc /\ q.tx = r.tx /\ q.acct = r.acct,
         \/ r.n = 0
         \/ r.n = cmds + 1
         \/ r.n = call[c].n /\ r.id >= call[c].id /\ (r.pc \in Requests => r.id > call[c].id)
  PROVE  CallInv' /\ WireInv'
<1>1. /\ cmds \in Nat /\ \A d \in Calls : CallOk(call[d])
      /\ \A q \in wire : RequestOk(q) /\ \A d \in Calls : Fits(call[d], q)
      /\ \A d, e \in Calls : call[d].n # 0 /\ call[d].n = call[e].n => d = e
      /\ call \in [Calls -> CallType]
  BY WalletTxAssumption DEF IInv, CallInv, WireInv, BoundsInv
<1>2. /\ \A cc : CallOk(cc) => CallOk(cc)'
      /\ \A q : RequestOk(q) => RequestOk(q)'
  BY <1>1, StillOk
<1>3. r \in CallType /\ r.n \in Nat /\ r.id \in Nat
  BY DEF CallOk, CallType
<1>4. /\ call'[c] = r /\ \A d \in Calls \ {c} : call'[d] = call[d]
      /\ call' \in [Calls -> CallType]
  BY <1>1, <1>3
<1>5. \A d \in Calls : call[d].n \in Nat /\ call[d].id \in Nat /\ call[d].n <= cmds
  BY <1>1 DEF CallOk, CallType
<1>6. CallInv'
  <2>1. \A d \in Calls : CallOk(call[d])'
    <3> SUFFICES ASSUME NEW d \in Calls PROVE CallOk(call[d])'
      OBVIOUS
    <3>1. CASE d = c
      BY <1>4, <3>1 DEF CallOk
    <3>2. CASE d # c
      <4>1. call'[d] = call[d]
        BY <1>4, <3>2
      <4>2. PICK x : x = call[d]
        OBVIOUS
      <4>3. CallOk(x)'
        BY <1>1, <1>2, <4>2
      <4> QED BY <4>1, <4>2, <4>3 DEF CallOk
    <3> QED BY <3>1, <3>2
  <2>2. \A d, e \in Calls : call'[d].n # 0 /\ call'[d].n = call'[e].n => d = e
    BY <1>1, <1>3, <1>4, <1>5
  <2> QED BY <1>4, <2>1, <2>2 DEF CallInv
<1>7. WireInv'
  <2> SUFFICES ASSUME NEW q \in wire' PROVE RequestOk(q)' /\ \A d \in Calls : Fits(call'[d], q)
    BY DEF WireInv, Fits, Requests
  <2>1. CASE q \in wire
    <3>1. RequestOk(q)' /\ q.n \in Nat \ {0} /\ q.n <= cmds /\ q.id \in Nat
      BY <1>1, <1>2, <2>1 DEF RequestOk, RequestType
    <3>2. ASSUME NEW d \in Calls PROVE Fits(call'[d], q)
      <4>1. CASE d # c
        BY <1>1, <1>4, <2>1, <4>1
      <4>2. CASE d = c
        <5>1. Fits(call[c], q)
          BY <1>1, <2>1
        <5> QED BY <1>1, <1>3, <1>4, <1>5, <3>1, <4>2, <5>1 DEF Fits
      <4> QED BY <4>1, <4>2
    <3> QED BY <3>1, <3>2
  <2>2. CASE q \in Q
    <3>1. /\ RequestOk(q)' /\ q.n \in Nat \ {0} /\ q.id \in Nat
          /\ q.n = r.n /\ q.id = r.id /\ q.m = r.pc /\ q.tx = r.tx /\ q.acct = r.acct
      BY <2>2 DEF RequestOk, RequestType
    <3>2. ASSUME NEW d \in Calls PROVE Fits(call'[d], q)
      <4>1. CASE d # c
        <5>1. call'[d].n # r.n
          BY <1>1, <1>4, <1>5, <3>1, <4>1
        <5> QED BY <3>1, <5>1 DEF Fits
      <4>2. CASE d = c
        BY <1>4, <3>1, <4>2 DEF Fits
      <4> QED BY <4>1, <4>2
    <3> QED BY <3>1, <3>2
  <2> QED BY <2>1, <2>2
<1> QED BY <1>6, <1>7

\* What a command needs to send a request.
Askable(cc, m) ==
  /\ cc \in CallType /\ cc.n # 0 /\ cc.intent \in Intents /\ cc.acct \in Wallets
  /\ m \in {"nfts", "info", "fields"} => cc.tx = None
  /\ m \in {"submit", "tx"} => cc.tx # None
  /\ cc.tx # None => cc.tx.intent = cc.intent /\ PaidFor(cc.tx)
  /\ m \in {"objects", "sells"} => cc.intent.kind = "offer"
  /\ m = "fields" => cc.seq \in Seqs /\ Current(cc.acct, cc.seq, cc.bal)

\* A command asks.
LEMMA AskStep ==
  ASSUME IInv, Still, NEW c \in Calls, NEW cc, NEW m \in Requests, NEW rest \in SUBSET wire,
         Ask(c, cc, m, rest), Askable(cc, m), cmds' \in {cmds, cmds + 1}, cmds' <= MaxCommands,
         \/ cc.n = call[c].n /\ cc.id = call[c].id
         \/ cc.n = cmds + 1 /\ cmds' = cmds + 1
  PROVE  CallInv' /\ WireInv'
<1>1. PICK r : r = [cc EXCEPT !.pc = m, !.id = cc.id + 1]
  OBVIOUS
<1>2. PICK token : token = IF cc.intent.kind \in {"offer", "burn"} THEN cc.intent.token ELSE None
  OBVIOUS
<1>3. PICK q : q = [n |-> cc.n, id |-> cc.id + 1, m |-> m, acct |-> cc.acct, token |-> token,
                    tx |-> cc.tx, ans |-> Unanswered]
  OBVIOUS
<1>4. call' = [call EXCEPT ![c] = r] /\ wire' = rest \cup {q}
  BY <1>1, <1>2, <1>3 DEF Ask, NextId
<1>5. /\ cmds \in Nat /\ CallOk(call[c]) /\ call[c].n \in Nat /\ call[c].id \in Nat
      /\ call[c].n <= cmds /\ MaxCommands \in Nat
  BY WalletTxAssumption DEF IInv, CallInv, BoundsInv, CallOk, CallType
<1>6. cc.n \in Nat /\ cc.n # 0 /\ cc.n <= cmds' /\ cc.id \in Nat /\ cc.n \in 1..MaxCommands
  BY <1>5 DEF Askable, CallType
<1>7. /\ r \in CallType /\ r.pc = m /\ r.id = cc.id + 1 /\ r.n = cc.n /\ r.tx = cc.tx
      /\ r.acct = cc.acct /\ r.intent = cc.intent /\ r.seq = cc.seq /\ r.bal = cc.bal
  <2>1. /\ cc.pc \in Requests \cup {"idle", "read", "consume", "late"} /\ cc.intent \in Intents \cup {None}
        /\ cc.submit \in BOOLEAN /\ cc.acct \in Wallets \cup {None} /\ cc.n \in Nat /\ cc.id \in Nat
        /\ cc.seq \in Nat /\ cc.bal \in Nat /\ cc.tx \in Signed(Intents) \cup {None}
        /\ cc.polls \in 0..MaxPolls
    BY DEF Askable, CallType
  <2>2. r = [pc |-> m, intent |-> cc.intent, submit |-> cc.submit, acct |-> cc.acct, n |-> cc.n,
             id |-> cc.id + 1, seq |-> cc.seq, bal |-> cc.bal, tx |-> cc.tx, polls |-> cc.polls]
    BY <1>1 DEF Askable, CallType
  <2> QED BY <2>1, <2>2 DEF CallType
<1>8. \A tx : PaidFor(tx) => PaidFor(tx)'
  BY DEF Still, PaidFor, Current
<1>9. CallOk(r)'
  BY <1>6, <1>7, <1>8 DEF CallOk, Askable, Requests, Current, Still
<1>10. RequestOk(q)'
  <2>1. token \in Tokens \cup {None}
    BY <1>2, IntentFields DEF Askable
  <2>2. q \in RequestType /\ q.n = cc.n /\ q.m = m /\ q.tx = cc.tx /\ ~q.ans.done
    BY <1>3, <1>6, <2>1, IdleFields DEF RequestType, Askable, CallType
  <2> QED BY <1>6, <1>8, <2>2 DEF RequestOk, Askable
<1>11. q.n = r.n /\ q.id = r.id /\ q.m = r.pc /\ q.tx = r.tx /\ q.acct = r.acct
  BY <1>3, <1>7
<1>12. PICK Q : Q = {q}
  OBVIOUS
<1>13. wire' \subseteq wire \cup Q
  BY <1>4, <1>12
<1>14. \A z \in Q : /\ RequestOk(z)'
                    /\ z.n = r.n /\ z.id = r.id /\ z.m = r.pc /\ z.tx = r.tx /\ z.acct = r.acct
  BY <1>10, <1>11, <1>12
<1>15. \/ r.n = cmds + 1
       \/ r.n = call[c].n /\ r.id >= call[c].id /\ (r.pc \in Requests => r.id > call[c].id)
  BY <1>5, <1>6, <1>7
<1> QED BY <1>4, <1>9, <1>13, <1>14, <1>15, CommandStep

\* A command ends.
LEMMA ReturnStep ==
  ASSUME IInv, Still, NEW c \in Calls, Return(c), cmds' = cmds
  PROVE  CallInv' /\ WireInv'
<1>1. call' = [call EXCEPT ![c] = Idle] /\ wire' \subseteq wire \cup {}
  BY DEF Return
<1>2. cmds \in Nat
  BY WalletTxAssumption DEF IInv, BoundsInv
<1>3. CallOk(Idle)'
  BY <1>2, IdleFields DEF CallOk, Requests
<1>4. PICK Q : Q = {}
  OBVIOUS
<1>5. wire' \subseteq wire \cup Q /\ (\A q \in Q : FALSE)
  BY <1>1, <1>4
<1> QED BY <1>1, <1>3, <1>5, CommandStep, IdleFields

\* What is not touched keeps its invariant.
LEMMA Frames ==
  /\ LedgerInv /\ UNCHANGED ledger => LedgerInv'
  /\ ApprovalInv /\ UNCHANGED <<registry, approved, sent>> => ApprovalInv'
  /\ ToldInv /\ UNCHANGED <<known, confirmed, erased, owner>> => ToldInv'
<1>1. LedgerInv /\ UNCHANGED ledger => LedgerInv'
  BY DEF LedgerInv, ledger, PaidFor, Current, Burned
<1>2. ApprovalInv /\ UNCHANGED <<registry, approved, sent>> => ApprovalInv'
  <2> SUFFICES ASSUME ApprovalInv, UNCHANGED <<registry, approved, sent>> PROVE ApprovalInv'
    OBVIOUS
  <2>1. \A tx : Waiting(tx)' = Waiting(tx)
    BY DEF Waiting
  <2> QED BY <2>1 DEF ApprovalInv, Single
<1>3. ToldInv /\ UNCHANGED <<known, confirmed, erased, owner>> => ToldInv'
  BY DEF ToldInv
<1> QED BY <1>1, <1>2, <1>3

\* A step of a command that neither the ledger nor anybody is told of.
LEMMA QuietStep ==
  ASSUME IInv, CallInv', WireInv', BoundsInv', UNCHANGED <<ledger, desktop, told>>
  PROVE  IInv'
BY Frames DEF IInv, ledger, desktop, told

\* A command goes on to its next request.
LEMMA QuietAsk ==
  ASSUME IInv, NEW c \in Calls, NEW cc, NEW m \in Requests, NEW rest \in SUBSET wire,
         Ask(c, cc, m, rest), Askable(cc, m), cc.n = call[c].n, cc.id = call[c].id,
         UNCHANGED <<ledger, desktop, told, cmds, signins>>, faults' \in 0..MaxFaults
  PROVE  IInv'
<1>1. Still /\ cmds' = cmds /\ cmds' <= MaxCommands /\ BoundsInv'
  BY WalletTxAssumption DEF IInv, BoundsInv, Still, ledger, desktop
<1>2. CallInv' /\ WireInv'
  BY <1>1, AskStep
<1> QED BY <1>1, <1>2, QuietStep

\* A command ends with nothing told.
LEMMA QuietReturn ==
  ASSUME IInv, NEW c \in Calls, Return(c),
         UNCHANGED <<ledger, desktop, told, cmds, signins>>, faults' \in 0..MaxFaults
  PROVE  IInv'
<1>1. Still /\ cmds' = cmds /\ BoundsInv'
  BY DEF IInv, BoundsInv, Still, ledger, desktop
<1>2. CallInv' /\ WireInv'
  BY <1>1, ReturnStep
<1> QED BY <1>1, <1>2, QuietStep

\* One more attempt of a polling loop is a request that may be sent.
LEMMA PollAskable ==
  ASSUME NEW cc, CallOk(cc), cc.pc \in Requests, cc.tx # None, NEW p \in 0..MaxPolls,
         NEW r, r = [cc EXCEPT !.polls = p]
  PROVE  Askable(r, "tx") /\ r.n = cc.n /\ r.id = cc.id
<1>1. /\ cc \in CallType /\ cc.n # 0 /\ cc.intent \in Intents /\ cc.acct \in Wallets
      /\ cc.tx.intent = cc.intent /\ PaidFor(cc.tx)
  BY DEF CallOk, Requests
<1>2. /\ r \in CallType /\ r.n = cc.n /\ r.id = cc.id /\ r.intent = cc.intent
      /\ r.acct = cc.acct /\ r.tx = cc.tx
  BY <1>1 DEF CallType
<1> QED BY <1>1, <1>2 DEF Askable

\* The next attempt of a polling loop, or its end.
LEMMA QuietPoll ==
  ASSUME IInv, NEW c \in Calls, NEW rest \in SUBSET wire, PollAgain(c, rest),
         call[c].pc \in Requests, call[c].tx # None,
         UNCHANGED <<ledger, desktop, told, cmds, signins>>, faults' \in 0..MaxFaults
  PROVE  IInv'
<1>1. CallOk(call[c]) /\ call[c].polls \in 0..MaxPolls
  BY DEF IInv, CallInv, CallOk, CallType
<1>2. CASE call[c].polls < MaxPolls
  <2>1. PICK p : p = call[c].polls + 1 /\ p \in 0..MaxPolls
    BY <1>1, <1>2, WalletTxAssumption
  <2>2. PICK r : r = [call[c] EXCEPT !.polls = @ + 1]
    OBVIOUS
  <2>3. Ask(c, r, "tx", rest)
    BY <1>2, <2>2 DEF PollAgain
  <2>4. Askable(r, "tx") /\ r.n = call[c].n /\ r.id = call[c].id
    <3>1. r = [call[c] EXCEPT !.polls = p]
      BY <2>1, <2>2
    <3> QED BY <1>1, <2>1, <3>1, PollAskable
  <2>5. "tx" \in Requests
    BY DEF Requests
  <2> QED BY <2>3, <2>4, <2>5, QuietAsk
<1>3. CASE ~(call[c].polls < MaxPolls)
  BY <1>3, QuietReturn DEF PollAgain
<1> QED BY <1>2, <1>3

\* What a command knows of an answer that has arrived.
LEMMA ArrivedFacts ==
  ASSUME IInv, NEW c \in Calls, NEW q \in wire, NEW m \in Requests, Arrived(c, q, m)
  PROVE  /\ call[c].pc = m /\ CallOk(call[c]) /\ call[c] \in CallType
         /\ q.m = m /\ q.tx = call[c].tx /\ q.acct = call[c].acct
         /\ RequestOk(q) /\ AnswerOk(q) /\ q.ans \in AnswerType
         /\ Others(q) \in SUBSET wire
<1>1. /\ call[c].pc = m /\ q.ans.done /\ q.n = call[c].n /\ q.id = call[c].id
      /\ RequestOk(q) /\ Fits(call[c], q) /\ CallOk(call[c]) /\ call[c] \in CallType
  BY DEF Arrived, IInv, WireInv, CallInv
<1>2. q.m = m /\ q.tx = call[c].tx /\ q.acct = call[c].acct
  BY <1>1 DEF Fits
<1> QED BY <1>1, <1>2 DEF RequestOk, RequestType, Others

-----------------------------------------------------------------------------
(* The commands *)

\* A command starts: its number is new, and so are its requests.
LEMMA StartedStep ==
  ASSUME IInv, NEW c \in Calls, NEW intent \in Intents, NEW submit \in BOOLEAN,
         Started(c, intent, submit)
  PROVE  IInv'
<1>1. PICK r : r = [Idle EXCEPT !.intent = intent, !.submit = submit, !.acct = wallet, !.n = cmds + 1]
  OBVIOUS
<1>2. PICK first : first = CASE intent.kind = "offer" -> "objects"
                             [] intent.kind = "burn" -> "nfts"
                             [] OTHER -> "info"
  OBVIOUS
<1>3. /\ Ask(c, r, first, wire) /\ cmds' = cmds + 1 /\ cmds < MaxCommands /\ wallet # None
      /\ UNCHANGED <<ledger, desktop, told, signins, faults>>
  BY <1>1, <1>2 DEF Started
<1>4. cmds \in Nat /\ MaxCommands \in Nat /\ wallet \in Wallets
  BY <1>3, WalletTxAssumption DEF IInv, BoundsInv
<1>5. /\ first \in Requests /\ first \in {"objects", "nfts", "info"}
      /\ first = "objects" => intent.kind = "offer"
  BY <1>2 DEF Requests
<1>6. /\ r \in CallType /\ r.intent = intent /\ r.acct = wallet /\ r.n = cmds + 1 /\ r.tx = None
  <2>1. r = [pc |-> "idle", intent |-> intent, submit |-> submit, acct |-> wallet, n |-> cmds + 1,
             id |-> 0, seq |-> 0, bal |-> 0, tx |-> None, polls |-> 0]
    BY <1>1 DEF Idle
  <2>2. cmds + 1 \in Nat /\ 0 \in 0..MaxPolls
    BY <1>4, WalletTxAssumption
  <2> QED BY <1>4, <2>1, <2>2 DEF CallType
<1>7. Askable(r, first)
  BY <1>4, <1>5, <1>6 DEF Askable
<1>8. Still /\ cmds' <= MaxCommands /\ BoundsInv'
  BY <1>3, <1>4 DEF IInv, BoundsInv, Still, ledger, desktop
<1>9. CallInv' /\ WireInv'
  BY <1>3, <1>4, <1>5, <1>6, <1>7, <1>8, AskStep
<1> QED BY <1>3, <1>8, <1>9, QuietStep

\* The six commands.
LEMMA StartStep ==
  ASSUME IInv, NEW c \in Calls, Start(c)
  PROVE  IInv'
<1>1. ASSUME NEW submit \in BOOLEAN, Mint(c, submit) PROVE IInv'
  <2>1. [kind |-> "mint"] \in Intents
    BY DEF Intents, MintIntent
  <2> QED BY <1>1, <2>1, StartedStep DEF Mint
<1>2. ASSUME NEW t \in Tokens, NEW to \in Wallets, CreateTransferOffer(c, t, to) PROVE IInv'
  <2>1. [kind |-> "offer", token |-> t, to |-> to] \in Intents
    BY DEF Intents, OfferIntent
  <2> QED BY <1>2, <2>1, StartedStep DEF CreateTransferOffer
<1>3. ASSUME NEW k \in confirmed, ClaimNft(c, k.offer) PROVE IInv'
  <2>1. k.offer \in Signed(OfferIntent)
    BY DEF IInv, ToldInv
  <2>2. [kind |-> "claim", offer |-> k.offer] \in Intents
    BY <2>1 DEF Intents, ClaimIntent
  <2> QED BY <1>3, <2>2, StartedStep DEF ClaimNft
<1>4. ASSUME NEW t \in Tokens, DeleteVault(c, t) PROVE IInv'
  <2>1. [kind |-> "burn", token |-> t] \in Intents
    BY DEF Intents, BurnIntent
  <2> QED BY <1>4, <2>1, StartedStep DEF DeleteVault
<1>5. ASSUME NEW to \in Wallets, SendXrpPayment(c, to) PROVE IInv'
  <2>1. [kind |-> "pay", to |-> to] \in Intents
    BY DEF Intents, PayIntent
  <2> QED BY <1>5, <2>1, StartedStep DEF SendXrpPayment
<1>6. ASSUME NEW tx \in known, SubmitBlob(c, tx) PROVE IInv'
  <2>1. PICK r : r = [Idle EXCEPT !.pc = "read", !.intent = tx.intent, !.submit = TRUE,
                                  !.tx = tx, !.n = cmds + 1]
    OBVIOUS
  <2>2. /\ call' = [call EXCEPT ![c] = r] /\ cmds' = cmds + 1 /\ cmds < MaxCommands
        /\ UNCHANGED <<ledger, desktop, told, signins, faults, wire>>
    BY <1>6, <2>1 DEF SubmitBlob
  <2>3. cmds \in Nat /\ MaxCommands \in Nat /\ tx \in Mints
    BY WalletTxAssumption DEF IInv, BoundsInv, ToldInv
  <2>4. tx \in Signed(Intents) /\ tx.intent \in Intents /\ tx.intent.kind = "mint" /\ tx # None
    BY <2>3, MintFields, NoneAssumption
  <2>5. /\ r \in CallType /\ r.pc = "read" /\ r.intent = tx.intent /\ r.n = cmds + 1 /\ r.tx = tx
    <3>1. r = [pc |-> "read", intent |-> tx.intent, submit |-> TRUE, acct |-> None, n |-> cmds + 1,
               id |-> 0, seq |-> 0, bal |-> 0, tx |-> tx, polls |-> 0]
      BY <2>1 DEF Idle
    <3>2. cmds + 1 \in Nat /\ 0 \in 0..MaxPolls
      BY <2>3, WalletTxAssumption
    <3> QED BY <2>4, <3>1, <3>2 DEF CallType
  <2>6. CallOk(r)'
    BY <2>2, <2>3, <2>4, <2>5 DEF CallOk, PaidFor, Requests
  <2>7. Still /\ BoundsInv'
    BY <2>2, <2>3 DEF IInv, BoundsInv, Still, ledger, desktop
  <2>8. PICK Q : Q = {}
    OBVIOUS
  <2>9. wire' \subseteq wire \cup Q /\ (\A q \in Q : FALSE)
    BY <2>2, <2>8
  <2>10. CallInv' /\ WireInv'
    BY <2>2, <2>5, <2>6, <2>7, <2>9, CommandStep
  <2> QED BY <2>2, <2>7, <2>10, QuietStep
<1> QED BY <1>1, <1>2, <1>3, <1>4, <1>5, <1>6 DEF Start

\* The holder check of delete_vault.
LEMMA OnNftsStep ==
  ASSUME IInv, NEW c \in Calls, NEW q \in wire, OnNfts(c, q)
  PROVE  IInv'
<1>1. /\ Arrived(c, q, "nfts") /\ "nfts" \in Requests /\ "info" \in Requests
      /\ UNCHANGED <<ledger, desktop, told, cmds, signins>> /\ faults' \in 0..MaxFaults
  BY DEF OnNfts, Requests, bounds, IInv, BoundsInv
<1>2. CallOk(call[c]) /\ call[c].pc = "nfts" /\ Others(q) \in SUBSET wire
  BY <1>1, ArrivedFacts
<1>3. Askable(call[c], "info")
  BY <1>2 DEF CallOk, Askable, Requests
<1>4. CASE Ask(c, call[c], "info", Others(q))
  BY <1>1, <1>2, <1>3, <1>4, QuietAsk
<1>5. CASE Return(c)
  BY <1>1, <1>5, QuietReturn
<1> QED BY <1>4, <1>5 DEF OnNfts

\* account_info: the answer may be old, but as long as the sequence stands it
\* does not promise more than there is.
LEMMA OnInfoStep ==
  ASSUME IInv, NEW c \in Calls, NEW q \in wire, OnInfo(c, q)
  PROVE  IInv'
<1>1. /\ Arrived(c, q, "info") /\ "info" \in Requests /\ "fields" \in Requests
      /\ UNCHANGED <<ledger, desktop, told, cmds, signins>> /\ faults' \in 0..MaxFaults
  BY DEF OnInfo, Requests, bounds, IInv, BoundsInv
<1>2. /\ CallOk(call[c]) /\ call[c].pc = "info" /\ Others(q) \in SUBSET wire /\ call[c] \in CallType
      /\ q.m = "info" /\ q.acct = call[c].acct /\ AnswerOk(q) /\ q.ans \in AnswerType
  BY <1>1, ArrivedFacts
<1>3. PICK r : r = [call[c] EXCEPT !.seq = q.ans.seq, !.bal = q.ans.bal]
  OBVIOUS
<1>4. /\ q.ans.seq \in Seqs /\ q.ans.seq \in Nat /\ q.ans.bal \in Nat
      /\ Current(call[c].acct, q.ans.seq, q.ans.bal)
  BY <1>2 DEF AnswerOk, AnswerType
<1>5. /\ r \in CallType /\ r.seq = q.ans.seq /\ r.bal = q.ans.bal /\ r.acct = call[c].acct
      /\ r.n = call[c].n /\ r.id = call[c].id /\ r.tx = call[c].tx /\ r.intent = call[c].intent
  BY <1>2, <1>3, <1>4 DEF CallType
<1>6. Askable(r, "fields")
  BY <1>2, <1>4, <1>5 DEF CallOk, Askable, Requests
<1>7. Ask(c, r, "fields", Others(q))
  BY <1>3 DEF OnInfo
<1> QED BY <1>1, <1>2, <1>5, <1>6, <1>7, QuietAsk

\* An offer for the command's token and recipient is confirmed with the Oracle.
LEMMA ConfirmStep ==
  ASSUME IInv, NEW c \in Calls, NEW o \in Signed(OfferIntent), Confirm(c, o),
         o.intent.token = call[c].intent.token, o.intent.to = call[c].intent.to,
         UNCHANGED <<ledger, desktop, bounds>>
  PROVE  IInv'
<1>1. Still /\ cmds' = cmds /\ BoundsInv' /\ Return(c)
  BY DEF IInv, BoundsInv, Still, ledger, desktop, bounds, Confirm
<1>2. CallInv' /\ WireInv'
  BY <1>1, ReturnStep
<1>3. ToldInv'
  BY DEF IInv, ToldInv, Confirm, ledger, desktop
<1>4. LedgerInv' /\ ApprovalInv'
  BY Frames DEF IInv, Confirm, desktop
<1> QED BY <1>1, <1>2, <1>3, <1>4 DEF IInv

\* No offer was found: a new one is made, or the attempt is over.
LEMMA NotFoundStep ==
  ASSUME IInv, NEW c \in Calls, NEW rest \in SUBSET wire, NotFound(c, rest),
         call[c].pc \in {"objects", "sells"},
         UNCHANGED <<ledger, desktop, told, cmds, signins>>, faults' \in 0..MaxFaults
  PROVE  IInv'
<1>1. CallOk(call[c]) /\ "info" \in Requests /\ call[c].pc \in Requests
  BY DEF IInv, CallInv, Requests
<1>2. CASE call[c].tx = None
  <2>1. Askable(call[c], "info")
    BY <1>1, <1>2 DEF CallOk, Askable, Requests
  <2> QED BY <1>1, <1>2, <2>1, QuietAsk DEF NotFound
<1>3. CASE call[c].tx # None
  BY <1>1, <1>3, QuietPoll DEF NotFound
<1> QED BY <1>2, <1>3

\* Both places where offers are looked for.
LEMMA OnOffersStep ==
  ASSUME IInv, NEW c \in Calls, NEW q \in wire, OnObjects(c, q) \/ OnSells(c, q)
  PROVE  IInv'
<1>1. PICK m \in {"objects", "sells"} : Arrived(c, q, m)
  BY DEF OnObjects, OnSells
<1>2. /\ m \in Requests /\ "sells" \in Requests
      /\ UNCHANGED <<ledger, desktop, cmds, signins, bounds>> /\ faults' \in 0..MaxFaults
  BY <1>1 DEF OnObjects, OnSells, Requests, bounds, IInv, BoundsInv
<1>3. /\ CallOk(call[c]) /\ call[c].pc = m /\ Others(q) \in SUBSET wire
      /\ q.m = m /\ AnswerOk(q)
  BY <1>1, <1>2, ArrivedFacts
<1>4. q.ans.found \subseteq Signed(OfferIntent)
  BY <1>1, <1>3 DEF AnswerOk
<1>5. ASSUME NEW o \in q.ans.found, Matches(o, call[c]), Confirm(c, o) PROVE IInv'
  BY <1>2, <1>4, <1>5, ConfirmStep DEF Matches
<1>6. ASSUME Ask(c, call[c], "sells", Others(q)), UNCHANGED told PROVE IInv'
  <2>1. Askable(call[c], "sells")
    BY <1>1, <1>3 DEF CallOk, Askable, Requests
  <2> QED BY <1>2, <1>3, <1>6, <2>1, QuietAsk
<1>7. ASSUME NotFound(c, Others(q)), UNCHANGED told PROVE IInv'
  BY <1>1, <1>2, <1>3, <1>7, NotFoundStep
<1> QED BY <1>5, <1>6, <1>7 DEF OnObjects, OnSells

\* One more copy of an element.
Added(B, D, x) == D = B (+) SetToBag({x})

\* Adding a copy adds one to the count of that element.
LEMMA AddedBag ==
  ASSUME NEW B, IsABag(B), NEW D, NEW x, Added(B, D, x)
  PROVE  /\ IsABag(D) /\ DOMAIN D = DOMAIN B \cup {x}
         /\ Copies(x, B) \in Nat /\ Copies(x, D) = Copies(x, B) + 1
<1>1. \A f \in DOMAIN B : B[f] \in Nat /\ B[f] > 0
  BY DEF IsABag
<1>2. D = [f \in DOMAIN B \cup {x} |-> (IF f \in DOMAIN B THEN B[f] ELSE 0)
                                       + (IF f \in {x} THEN 1 ELSE 0)]
  <2>1. PICK T : T = [f \in {x} |-> 1] /\ D = B (+) T
    BY Zenon DEF Added, SetToBag
  <2>2. DOMAIN T = {x} /\ T[x] = 1
    BY <2>1
  <2>3. D = [f \in DOMAIN B \cup DOMAIN T |-> (IF f \in DOMAIN B THEN B[f] ELSE 0)
                                              + (IF f \in DOMAIN T THEN T[f] ELSE 0)]
    BY <2>1 DEF (+)
  <2> QED BY <2>2, <2>3
<1>3. DOMAIN D = DOMAIN B \cup {x}
  BY <1>2
<1>4. \A f \in DOMAIN D : D[f] = Copies(f, B) + (IF f = x THEN 1 ELSE 0)
  BY <1>2 DEF Copies
<1>5. \A f \in DOMAIN D : D[f] \in Nat /\ D[f] > 0
  BY <1>1, <1>3, <1>4 DEF Copies
<1>6. IsABag(D)
  BY <1>2, <1>5 DEF IsABag
<1>7. Copies(x, B) \in Nat /\ Copies(x, D) = Copies(x, B) + 1
  BY <1>1, <1>3, <1>4 DEF Copies
<1> QED BY <1>3, <1>6, <1>7

\* The other elements have as many copies as before.
LEMMA AddedOthers ==
  ASSUME NEW B, IsABag(B), NEW D, NEW x, Added(B, D, x), NEW e, e # x
  PROVE  Copies(e, D) = Copies(e, B)
<1>1. PICK T : T = [f \in {x} |-> 1] /\ D = B (+) T
  BY Zenon DEF Added, SetToBag
<1>2. DOMAIN T = {x} /\ T[x] = 1
  BY <1>1
<1>3. D = B (+) T
  BY <1>1
<1> QED BY <1>2, <1>3 DEF (+), Copies, IsABag

\* A mint is registered: at most one approval more is waiting.
LEMMA RegisterStep ==
  ASSUME IInv, NEW tx \in Mints, Register(tx), sent' = sent
  PROVE  ApprovalInv'
<1>1. PICK new : new = [tx |-> tx, live |-> TRUE, consumed |-> FALSE]
  OBVIOUS
<1>2. new \in RecordType /\ new.tx = tx
  BY <1>1 DEF RecordType
<1>3. registry' = {r \in registry : r.live /\ ~r.consumed /\ r.tx # tx} \cup {new}
  BY <1>1 DEF Register
<1>4. IsABag(approved) /\ DOMAIN approved \subseteq Mints /\ Added(approved, approved', tx)
  BY Zenon DEF IInv, ApprovalInv, Register, Added
<1>5. /\ IsABag(approved') /\ DOMAIN approved' = DOMAIN approved \cup {tx}
      /\ Copies(tx, approved) \in Nat /\ Copies(tx, approved') = Copies(tx, approved) + 1
  BY <1>4, AddedBag
<1>6. ASSUME NEW e \in Mints
      PROVE  Copies(e, sent') + Waiting(e)' <= Copies(e, approved')
  <2>1. Copies(e, sent) + Waiting(e) <= Copies(e, approved) /\ Copies(e, sent) \in Nat
    BY DEF IInv, ApprovalInv, IsABag, Copies
  <2>2. Waiting(e) \in {0, 1} /\ Waiting(e)' \in {0, 1}
    BY DEF Waiting
  <2>3. Copies(e, approved) \in Nat /\ sent' = sent
    BY DEF IInv, ApprovalInv, IsABag, Copies
  <2>4. CASE e = tx
    BY <1>5, <2>1, <2>2, <2>4, <2>3
  <2>5. CASE e # tx
    <3>1. Waiting(e)' = 1 => Waiting(e) = 1
      BY <1>2, <1>3, <2>5 DEF Waiting
    <3>2. Copies(e, approved') = Copies(e, approved)
      BY <1>4, <2>5, AddedOthers
    <3> QED BY <2>1, <2>2, <2>3, <3>1, <3>2
  <2> QED BY <2>4, <2>5
<1>7. Single'
  BY <1>2, <1>3 DEF IInv, ApprovalInv, Single
<1> QED BY <1>2, <1>3, <1>5, <1>6, <1>7 DEF IInv, ApprovalInv

\* The policy has accepted: the transaction is one of the command's, and a payment
\* was checked against a balance that its sequence still vouches for.
LEMMA SignFacts ==
  ASSUME IInv, NEW c \in Calls, NEW q \in wire, Arrived(c, q, "fields"), Spendable(call[c]),
         NEW tx, tx = Sign(call[c], q.ans)
  PROVE  /\ tx \in Signed(Intents) /\ tx.intent = call[c].intent /\ PaidFor(tx) /\ tx # None
<1>1. /\ call[c].pc = "fields" /\ CallOk(call[c]) /\ call[c] \in CallType
      /\ q.m = "fields" /\ AnswerOk(q)
  BY ArrivedFacts DEF Requests
<1>2. /\ call[c].intent \in Intents /\ call[c].acct \in Wallets /\ call[c].seq \in Seqs
      /\ Current(call[c].acct, call[c].seq, call[c].bal)
      /\ q.ans.height \in 1..(MaxHeight + 1)
  BY <1>1 DEF CallOk, AnswerOk, Requests
<1>3. tx = [intent |-> call[c].intent, acct |-> call[c].acct, seq |-> call[c].seq,
            last |-> q.ans.height + Window]
  BY DEF Sign, AddSigningFields, Build, SequenceFor
<1>4. q.ans.height + Window \in Lasts
  BY <1>2, WalletTxAssumption DEF Lasts
<1>5. /\ tx \in Signed(Intents) /\ tx.intent = call[c].intent /\ tx.acct = call[c].acct
      /\ tx.seq = call[c].seq
  BY <1>2, <1>3, <1>4 DEF Signed
<1>6. PaidFor(tx)
  <2> SUFFICES ASSUME tx.intent.kind = "pay"
               PROVE  Current(tx.acct, tx.seq, Reserve + Fee + Amount)
    BY DEF PaidFor
  <2>1. call[c].bal >= Reserve + Fee + Amount /\ call[c].bal \in Nat
    BY <1>1, <1>5 DEF Spendable, CallType
  <2>2. bal[call[c].acct] \in Nat
    BY <1>2 DEF IInv, LedgerInv
  <2> QED BY <1>2, <1>5, <2>1, <2>2, WalletTxAssumption DEF Current
<1> QED BY <1>5, <1>6, NoneAssumption

\* The fields that signing changes.
LEMMA SignedCall ==
  ASSUME NEW cc \in CallType, NEW tx \in Signed(Intents), NEW r, r = [cc EXCEPT !.tx = tx]
  PROVE  /\ r \in CallType /\ r.tx = tx /\ r.intent = cc.intent /\ r.acct = cc.acct
         /\ r.n = cc.n /\ r.id = cc.id /\ r.pc = cc.pc
BY DEF CallType

\* Signing.
LEMMA OnFieldsStep ==
  ASSUME IInv, NEW c \in Calls, NEW q \in wire, OnFields(c, q)
  PROVE  IInv'
<1>1. /\ Arrived(c, q, "fields") /\ "fields" \in Requests /\ "submit" \in Requests
      /\ UNCHANGED <<ledger, wallet, sent, confirmed, erased, bounds>>
      /\ faults' \in 0..MaxFaults /\ Still /\ cmds' = cmds /\ BoundsInv'
  BY DEF OnFields, Requests, bounds, IInv, BoundsInv, Still, ledger
<1>2. CallOk(call[c]) /\ call[c].pc = "fields" /\ Others(q) \in SUBSET wire /\ call[c] \in CallType
  BY <1>1, ArrivedFacts
<1>3. PICK tx : tx = Sign(call[c], q.ans)
  OBVIOUS
<1>4. CASE Return(c) /\ UNCHANGED <<registry, approved, known>>
  BY <1>1, <1>4, QuietReturn DEF desktop, told, bounds
<1>5. ASSUME Spendable(call[c]) PROVE IInv'
  <2>1. tx \in Signed(Intents) /\ tx.intent = call[c].intent /\ PaidFor(tx) /\ tx # None
    BY <1>1, <1>3, <1>5, SignFacts
  <2>2. PICK r : r = [call[c] EXCEPT !.tx = tx]
    OBVIOUS
  <2>3. /\ r \in CallType /\ r.tx = tx /\ r.intent = call[c].intent /\ r.acct = call[c].acct
        /\ r.n = call[c].n /\ r.id = call[c].id
    BY <1>2, <2>1, <2>2, SignedCall
  <2>4. call[c].n # 0 /\ call[c].n \in Nat /\ call[c].n <= cmds /\ call[c].intent \in Intents
        /\ call[c].acct \in Wallets /\ call[c].id \in Nat
    BY <1>2 DEF CallOk, Requests, CallType
  <2>5. CASE Ask(c, r, "submit", Others(q)) /\ UNCHANGED <<registry, approved, known>>
    <3>1. Askable(r, "submit")
      BY <2>1, <2>3, <2>4 DEF Askable
    <3> QED BY <1>1, <1>2, <2>3, <2>5, <3>1, QuietAsk DEF desktop, told, bounds
  <2>6. ASSUME call[c].intent.kind = "mint", Register(tx) PROVE ApprovalInv' /\ tx \in Mints
    <3>1. tx \in Mints
      BY <2>1, <2>6, SignedFields
    <3> QED BY <1>1, <2>6, <3>1, RegisterStep
  <2>7. CASE /\ call[c].intent.kind = "mint" /\ Register(tx)
             /\ call' = [call EXCEPT ![c] = [r EXCEPT !.pc = "read"]]
             /\ wire' = Others(q) /\ UNCHANGED known
    <3>1. PICK s : s = [r EXCEPT !.pc = "read"]
      OBVIOUS
    <3>2. /\ s \in CallType /\ s.pc = "read" /\ s.tx = tx /\ s.intent = call[c].intent
          /\ s.n = call[c].n /\ s.id = call[c].id
      BY <2>3, <3>1 DEF CallType
    <3>3. PaidFor(tx)'
      BY <1>1, <2>1 DEF Still, PaidFor, Current
    <3>4. CallOk(s)'
      BY <1>1, <2>1, <2>4, <2>7, <3>2, <3>3 DEF CallOk, Requests
    <3>5. PICK Q : Q = {}
      OBVIOUS
    <3>6. wire' \subseteq wire \cup Q /\ (\A z \in Q : FALSE) /\ call' = [call EXCEPT ![c] = s]
      BY <1>2, <2>7, <3>1, <3>5
    <3>7. s.n = call[c].n /\ s.id >= call[c].id /\ s.pc \notin Requests
      BY <2>4, <3>2 DEF Requests
    <3>8. CallInv' /\ WireInv'
      BY <1>1, <3>4, <3>6, <3>7, CommandStep
    <3>9. ApprovalInv'
      BY <2>6, <2>7
    <3>10. LedgerInv' /\ ToldInv'
      BY <1>1, <2>7, Frames DEF IInv, ledger
    <3> QED BY <1>1, <3>8, <3>9, <3>10 DEF IInv
  <2>8. CASE call[c].intent.kind = "mint" /\ Register(tx) /\ Return(c) /\ known' = known \cup {tx}
    <3>1. CallInv' /\ WireInv'
      BY <1>1, <2>8, ReturnStep
    <3>2. ApprovalInv' /\ tx \in Mints
      BY <2>6, <2>8
    <3>3. ToldInv'
      BY <1>1, <2>8, <3>2 DEF IInv, ToldInv, ledger
    <3>4. LedgerInv'
      BY <1>1, Frames DEF IInv
    <3> QED BY <1>1, <3>1, <3>2, <3>3, <3>4 DEF IInv
  <2> QED BY <1>3, <1>4, <2>2, <2>5, <2>7, <2>8 DEF OnFields
<1>6. CASE ~Spendable(call[c])
  BY <1>4, <1>6 DEF OnFields
<1> QED BY <1>5, <1>6

\* consume_signed_xrpl_tx_blob, its first half.
LEMMA ReadWalletStep ==
  ASSUME IInv, NEW c \in Calls, ReadWallet(c)
  PROVE  IInv'
<1>1. /\ UNCHANGED <<ledger, desktop, told, cmds, signins>> /\ faults' \in 0..MaxFaults
      /\ Still /\ cmds' = cmds /\ BoundsInv'
  BY DEF ReadWallet, bounds, IInv, BoundsInv, Still, ledger, desktop
<1>2. CASE Return(c)
  BY <1>1, <1>2, QuietReturn
<1>3. CASE wallet # None /\ UNCHANGED wire
           /\ \E pc \in {"consume", "late"} :
                call' = [call EXCEPT ![c].pc = pc, ![c].acct = wallet]
  <2>0. PICK pc \in {"consume", "late"} : call' = [call EXCEPT ![c].pc = pc, ![c].acct = wallet]
    BY <1>3
  <2>1. CallOk(call[c]) /\ call[c].pc = "read" /\ call[c] \in CallType /\ wallet \in Wallets
    BY <1>3 DEF ReadWallet, IInv, CallInv, BoundsInv
  <2>2. PICK r : r = [call[c] EXCEPT !.pc = pc, !.acct = wallet]
    OBVIOUS
  <2>3. /\ r \in CallType /\ r.pc \in {"consume", "late"} /\ r.acct = wallet /\ r.n = call[c].n
        /\ r.id = call[c].id /\ r.tx = call[c].tx /\ r.intent = call[c].intent
    BY <2>1, <2>2 DEF CallType
  <2>4. CallOk(r)'
    BY <1>1, <2>1, <2>3 DEF CallOk, Requests, Still, PaidFor, Current
  <2>5. PICK Q : Q = {}
    OBVIOUS
  <2>6. wire' \subseteq wire \cup Q /\ (\A z \in Q : FALSE) /\ call' = [call EXCEPT ![c] = r]
    BY <1>3, <2>0, <2>2, <2>5 DEF IInv, CallInv
  <2>7. r.n = call[c].n /\ r.id >= call[c].id /\ r.pc \notin Requests
    BY <2>1, <2>3 DEF Requests, CallType
  <2>8. CallInv' /\ WireInv'
    BY <1>1, <2>4, <2>6, <2>7, CommandStep
  <2> QED BY <1>1, <2>8, QuietStep
<1>4. ReadWallet(c) /\ wallet # None
        => \E pc \in {"consume", "late"} : call' = [call EXCEPT ![c].pc = pc, ![c].acct = wallet]
  BY DEF ReadWallet
<1> QED BY <1>2, <1>3, <1>4 DEF ReadWallet

\* An approval is used: the record is spent in the step that sends the blob.
LEMMA ConsumeStep ==
  ASSUME IInv, NEW c \in Calls, Consume(c)
  PROVE  IInv'
<1>1. /\ UNCHANGED <<ledger, wallet, known, approved, confirmed, erased, bounds>>
      /\ faults' \in 0..MaxFaults /\ Still /\ cmds' = cmds /\ BoundsInv' /\ cmds' <= MaxCommands
      /\ call[c].pc \in {"consume", "late"} /\ CallOk(call[c]) /\ "submit" \in Requests
  BY WalletTxAssumption
     DEF Consume, bounds, IInv, BoundsInv, CallInv, Still, ledger, Requests
<1>2. PICK usable : usable = {r \in registry : /\ r.tx = call[c].tx /\ ~r.consumed
                                               /\ call[c].tx.acct = call[c].acct
                                               /\ call[c].pc = "late" => r.live}
  OBVIOUS
<1>3. CASE usable = {}
  <2>1. Return(c) /\ UNCHANGED <<registry, sent>>
    BY <1>2, <1>3 DEF Consume
  <2> QED BY <1>1, <2>1, QuietReturn DEF desktop, told, bounds
<1>4. CASE usable # {}
  <2>1. /\ registry' = (registry \ usable) \cup {Consumed(r) : r \in usable}
        /\ Ask(c, call[c], "submit", wire)
    BY <1>2, <1>4 DEF Consume
  <2>2. PICK tx : tx = call[c].tx
    OBVIOUS
  <2>3. Added(sent, sent', tx)
    BY <1>2, <1>4, <2>2, Zenon DEF Consume, Added
  <2>4. Askable(call[c], "submit")
    BY <1>1 DEF CallOk, Askable, Requests
  <2>5. CallInv' /\ WireInv'
    BY <1>1, <2>1, <2>4, AskStep
  <2>6. registry \subseteq RecordType /\ IsABag(sent) /\ DOMAIN sent \subseteq Mints
    BY DEF IInv, ApprovalInv
  <2>7. PICK u \in registry : u.tx = tx /\ Usable(u) /\ call[c].tx.acct = call[c].acct
    BY <1>2, <1>4, <2>2 DEF Usable
  <2>8. tx \in Mints
    BY <2>6, <2>7 DEF RecordType
  <2>9. \A r \in usable : Consumed(r) \in RecordType /\ Consumed(r).consumed /\ Consumed(r).tx = r.tx
    BY <1>2, <2>6 DEF RecordType, Consumed
  <2>10. \A r \in registry' : \/ r \in registry \ usable
                              \/ r \in RecordType /\ r.consumed
    BY <2>1, <2>9
  <2>11. /\ IsABag(sent') /\ DOMAIN sent' = DOMAIN sent \cup {tx}
         /\ Copies(tx, sent) \in Nat /\ Copies(tx, sent') = Copies(tx, sent) + 1
    BY <2>3, <2>6, AddedBag
  <2>15. \A r, s \in registry : r.tx = s.tx => r = s
    BY DEF IInv, ApprovalInv, Single
  <2>12. ASSUME NEW e \in Mints
         PROVE  Copies(e, sent') + Waiting(e)' <= Copies(e, approved)
    <3>1. /\ Copies(e, sent) + Waiting(e) <= Copies(e, approved)
          /\ Copies(e, sent) \in Nat /\ Copies(e, approved) \in Nat
      BY DEF IInv, ApprovalInv, IsABag, Copies
    <3>2. Waiting(e) \in {0, 1} /\ Waiting(e)' \in {0, 1}
      BY DEF Waiting
    <3>3. CASE e = tx
      <4>1. Waiting(e) = 1
        BY <2>7, <3>3 DEF Waiting
      <4>2. Waiting(e)' = 0
        <5>1. \A r \in registry \ usable : r.tx # tx
          BY <1>2, <1>4, <2>2, <2>15
        <5> QED BY <2>10, <3>3, <5>1 DEF Waiting, Usable
      <4> QED BY <2>11, <3>1, <3>3, <4>1, <4>2
    <3>4. CASE e # tx
      <4>1. Waiting(e)' = 1 => Waiting(e) = 1
        BY <2>10 DEF Waiting, Usable
      <4>2. Copies(e, sent') = Copies(e, sent)
        BY <2>3, <2>6, <3>4, AddedOthers
      <4> QED BY <3>1, <3>2, <4>1, <4>2
    <3> QED BY <3>3, <3>4
  <2>13. ApprovalInv'
    <3>1. registry' \subseteq RecordType
      BY <2>6, <2>10
    <3>2. \A r \in registry' : \E o \in registry : /\ r.tx = o.tx
                                                    /\ \/ o \notin usable /\ r = o
                                                       \/ o \in usable /\ r = Consumed(o)
      BY <1>2, <2>1, <2>9
    <3>3. Single'
      BY <2>15, <3>2 DEF Single
    <3> QED BY <1>1, <2>6, <2>8, <2>11, <2>12, <3>1, <3>3 DEF IInv, ApprovalInv
  <2>14. LedgerInv' /\ ToldInv'
    BY <1>1, Frames DEF IInv, ledger
  <2> QED BY <1>1, <2>5, <2>13, <2>14 DEF IInv
<1> QED BY <1>3, <1>4

\* The user interface is given a mint that is signed.
LEMMA KnownStep ==
  ASSUME IInv, CallInv', WireInv', BoundsInv', UNCHANGED <<ledger, registry, told>>,
         known' \subseteq Mints
  PROVE  IInv'
<1>1. LedgerInv' /\ ApprovalInv'
  BY Frames DEF IInv, told
<1>2. ToldInv'
  BY DEF IInv, ToldInv, told, ledger
<1> QED BY <1>1, <1>2 DEF IInv

\* A mint command ends and tells its mint.
LEMMA TellStep ==
  ASSUME IInv, NEW c \in Calls, Return(c), Tell(c), call[c].tx # None,
         UNCHANGED <<ledger, wallet, registry, told, bounds>>
  PROVE  IInv'
<1>1. CallOk(call[c]) /\ Still /\ cmds' = cmds /\ BoundsInv'
  BY DEF IInv, CallInv, BoundsInv, Still, ledger, bounds
<1>2. call[c].tx \in Signed(Intents) /\ call[c].tx.intent = call[c].intent
  BY <1>1 DEF CallOk, CallType
<1>3. known' \subseteq Mints
  BY <1>2, SignedFields DEF IInv, ToldInv, Tell
<1>4. CallInv' /\ WireInv'
  BY <1>1, ReturnStep
<1> QED BY <1>1, <1>3, <1>4, KnownStep

\* An accepted transaction is looked up.
LEMMA FirstPoll ==
  ASSUME IInv, NEW c \in Calls, NEW q \in wire, Arrived(c, q, "submit"),
         Ask(c, [call[c] EXCEPT !.polls = 1], "tx", Others(q)),
         UNCHANGED <<ledger, desktop, told, bounds>>
  PROVE  IInv'
<1>1. /\ "submit" \in Requests /\ "tx" \in Requests /\ faults' \in 0..MaxFaults
      /\ UNCHANGED <<cmds, signins>> /\ 1 \in 0..MaxPolls
  BY WalletTxAssumption DEF Requests, bounds, IInv, BoundsInv
<1>2. CallOk(call[c]) /\ call[c].pc = "submit" /\ Others(q) \in SUBSET wire
  BY <1>1, ArrivedFacts
<1>3. call[c].tx # None
  BY <1>2 DEF CallOk
<1>4. PICK r : r = [call[c] EXCEPT !.polls = 1]
  OBVIOUS
<1>5. Askable(r, "tx") /\ r.n = call[c].n /\ r.id = call[c].id
  BY <1>1, <1>2, <1>3, <1>4, PollAskable
<1>6. Ask(c, r, "tx", Others(q))
  BY <1>4
<1> QED BY <1>1, <1>2, <1>5, <1>6, QuietAsk

\* The answer to a submit, for every kind of command.
LEMMA OnSubmitStep ==
  ASSUME IInv, NEW c \in Calls, NEW q \in wire,
         \/ OnMintSubmit(c, q) \/ OnOfferSubmit(c, q) \/ OnClaimSubmit(c, q)
         \/ OnBurnSubmit(c, q) \/ OnPaySubmit(c, q)
  PROVE  IInv'
<1>1. /\ Arrived(c, q, "submit") /\ "submit" \in Requests
      /\ UNCHANGED <<ledger, wallet, registry, told, bounds>>
      /\ UNCHANGED <<cmds, signins>> /\ faults' \in 0..MaxFaults
  BY DEF OnMintSubmit, OnOfferSubmit, OnClaimSubmit, OnBurnSubmit, OnPaySubmit, AwaitAccepted,
         Requests, bounds, desktop, IInv, BoundsInv
<1>2. CallOk(call[c]) /\ call[c].pc = "submit"
  BY <1>1, ArrivedFacts
<1>3. call[c].tx # None
  BY <1>2 DEF CallOk
<1>4. CASE Ask(c, [call[c] EXCEPT !.polls = 1], "tx", Others(q)) /\ UNCHANGED known
  BY <1>1, <1>4, FirstPoll DEF desktop
<1>5. CASE Return(c) /\ Tell(c)
  BY <1>1, <1>3, <1>5, TellStep
<1>6. CASE Return(c) /\ UNCHANGED known
  BY <1>1, <1>6, QuietReturn DEF desktop
<1> QED BY <1>4, <1>5, <1>6
        DEF OnMintSubmit, OnOfferSubmit, OnClaimSubmit, OnBurnSubmit, OnPaySubmit, AwaitAccepted, desktop

\* A mint is looked up until its token is known or the attempts are used up.
LEMMA OnMintTxStep ==
  ASSUME IInv, NEW c \in Calls, NEW q \in wire, OnMintTx(c, q)
  PROVE  IInv'
<1>1. /\ Arrived(c, q, "tx") /\ "tx" \in Requests
      /\ UNCHANGED <<ledger, wallet, registry, told, bounds>>
      /\ UNCHANGED <<cmds, signins>> /\ faults' \in 0..MaxFaults
  BY DEF OnMintTx, Requests, bounds, IInv, BoundsInv
<1>2. CallOk(call[c]) /\ call[c].pc = "tx" /\ Others(q) \in SUBSET wire
  BY <1>1, ArrivedFacts
<1>3. call[c].tx # None
  BY <1>2 DEF CallOk
<1>4. CASE UNCHANGED known
  <2>1. CASE Return(c)
    BY <1>1, <1>4, <2>1, QuietReturn DEF desktop
  <2>2. CASE PollAgain(c, Others(q))
    BY <1>1, <1>2, <1>3, <1>4, <2>2, QuietPoll DEF desktop
  <2> QED BY <2>1, <2>2 DEF OnMintTx
<1>5. CASE Return(c) /\ Tell(c)
  BY <1>1, <1>3, <1>5, TellStep
<1>6. CASE PollAgain(c, Others(q)) /\ ~Return(c) /\ call'[c].pc = "idle"
  <2>1. PICK r : r = [call[c] EXCEPT !.polls = @ + 1]
    OBVIOUS
  <2>2. Ask(c, r, "tx", Others(q))
    BY <1>6, <2>1 DEF PollAgain
  <2>3. call \in [Calls -> CallType] /\ call[c] \in CallType
    BY DEF IInv, CallInv
  <2>4. PICK s : s = [r EXCEPT !.pc = "tx", !.id = NextId(r.id)]
    OBVIOUS
  <2>5. call' = [call EXCEPT ![c] = s]
    BY <2>2, <2>4 DEF Ask
  <2>6. s.pc = "tx"
    BY <2>1, <2>3, <2>4 DEF CallType
  <2> QED BY <1>6, <2>3, <2>5, <2>6
<1> QED BY <1>4, <1>5, <1>6 DEF OnMintTx

\* A validated offer transaction names the offer it made.
LEMMA OnOfferTxStep ==
  ASSUME IInv, NEW c \in Calls, NEW q \in wire, OnOfferTx(c, q)
  PROVE  IInv'
<1>1. /\ Arrived(c, q, "tx") /\ "tx" \in Requests /\ "objects" \in Requests
      /\ UNCHANGED <<ledger, desktop, bounds>> /\ UNCHANGED <<cmds, signins>>
      /\ faults' \in 0..MaxFaults /\ call[c].intent.kind = "offer"
  BY DEF OnOfferTx, Requests, bounds, IInv, BoundsInv
<1>2. CallOk(call[c]) /\ call[c].pc = "tx" /\ Others(q) \in SUBSET wire
  BY <1>1, ArrivedFacts
<1>3. /\ call[c].tx # None /\ call[c].tx.intent = call[c].intent
      /\ call[c].tx \in Signed(Intents)
  BY <1>2 DEF CallOk, CallType
<1>4. CASE Confirm(c, call[c].tx)
  <2>1. call[c].tx \in Signed(OfferIntent)
    BY <1>1, <1>3, SignedFields
  <2> QED BY <1>1, <1>3, <1>4, <2>1, ConfirmStep
<1>5. CASE Ask(c, call[c], "objects", Others(q)) /\ UNCHANGED told
  <2>1. Askable(call[c], "objects")
    BY <1>1, <1>2 DEF CallOk, Askable, Requests
  <2> QED BY <1>1, <1>2, <1>5, <2>1, QuietAsk
<1> QED BY <1>4, <1>5 DEF OnOfferTx

\* A claim ends with any answer that is not an error.
LEMMA OnClaimTxStep ==
  ASSUME IInv, NEW c \in Calls, NEW q \in wire, OnClaimTx(c, q)
  PROVE  IInv'
<1>1. /\ Arrived(c, q, "tx") /\ "tx" \in Requests
      /\ UNCHANGED <<ledger, desktop, told>> /\ UNCHANGED <<cmds, signins>>
      /\ faults' \in 0..MaxFaults
  BY DEF OnClaimTx, Requests, bounds, IInv, BoundsInv
<1>2. CallOk(call[c]) /\ call[c].pc = "tx" /\ Others(q) \in SUBSET wire
  BY <1>1, ArrivedFacts
<1>3. call[c].tx # None
  BY <1>2 DEF CallOk
<1>4. CASE Return(c)
  BY <1>1, <1>4, QuietReturn
<1>5. CASE PollAgain(c, Others(q))
  BY <1>1, <1>2, <1>3, <1>5, QuietPoll
<1> QED BY <1>4, <1>5 DEF OnClaimTx

\* The Oracle is told of a burn that the answer called final: the token is gone.
LEMMA OnBurnTxStep ==
  ASSUME IInv, NEW c \in Calls, NEW q \in wire, OnBurnTx(c, q)
  PROVE  IInv'
<1>1. /\ Arrived(c, q, "tx") /\ "tx" \in Requests /\ call[c].intent.kind = "burn"
      /\ UNCHANGED <<ledger, desktop, approved, sent, confirmed, bounds>>
      /\ UNCHANGED <<cmds, signins>> /\ faults' \in 0..MaxFaults
      /\ Still /\ cmds' = cmds /\ BoundsInv'
  BY DEF OnBurnTx, Requests, bounds, desktop, ledger, Still, IInv, BoundsInv
<1>2. /\ CallOk(call[c]) /\ call[c].pc = "tx" /\ Others(q) \in SUBSET wire
      /\ q.m = "tx" /\ q.tx = call[c].tx /\ AnswerOk(q)
  BY <1>1, ArrivedFacts
<1>3. call[c].tx # None /\ call[c].tx.intent = call[c].intent /\ call[c].intent \in Intents
  BY <1>2 DEF CallOk
<1>4. CASE UNCHANGED erased /\ Return(c)
  BY <1>1, <1>4, QuietReturn DEF told
<1>5. CASE UNCHANGED erased /\ PollAgain(c, Others(q))
  BY <1>1, <1>2, <1>3, <1>5, QuietPoll DEF told
<1>6. CASE BurnIsFinal(q.ans) /\ EraseVault(c)
  <2>1. owner[call[c].intent.token] = None /\ call[c].intent.token \in Tokens
    BY <1>1, <1>2, <1>3, <1>6, IntentFields DEF BurnIsFinal, AnswerOk, Burned
  <2>2. ToldInv'
    BY <1>1, <1>6, <2>1 DEF EraseVault, IInv, ToldInv, ledger, desktop
  <2>3. CallInv' /\ WireInv'
    BY <1>1, <1>6, ReturnStep DEF EraseVault
  <2>4. LedgerInv' /\ ApprovalInv'
    BY <1>1, Frames DEF IInv, desktop
  <2> QED BY <1>1, <2>2, <2>3, <2>4 DEF IInv
<1> QED BY <1>4, <1>5, <1>6 DEF OnBurnTx

\* An answer does not come, or not in time.
LEMMA TimeoutStep ==
  ASSUME IInv, NEW c \in Calls, Timeout(c)
  PROVE  IInv'
<1>1. /\ UNCHANGED <<ledger, desktop, told, cmds, signins>> /\ faults' \in 0..MaxFaults
      /\ call[c].pc \in Requests /\ "objects" \in Requests /\ CallOk(call[c])
      /\ wire \in SUBSET wire
  BY WalletTxAssumption DEF Timeout, GivesUp, IInv, BoundsInv, CallInv, Requests
<1>2. CASE call[c].pc \in {"objects", "sells"}
  BY <1>1, <1>2, NotFoundStep DEF Timeout
<1>3. CASE call[c].pc = "tx" /\ call[c].intent.kind = "offer"
  <2>1. Askable(call[c], "objects")
    BY <1>1, <1>3 DEF CallOk, Askable, Requests
  <2>2. Ask(c, call[c], "objects", wire)
    BY <1>3 DEF Timeout
  <2> QED BY <1>1, <2>1, <2>2, QuietAsk
<1>4. CASE call[c].pc = "tx" /\ call[c].intent.kind # "offer"
  <2>1. call[c].tx # None
    BY <1>1, <1>4 DEF CallOk
  <2>2. PollAgain(c, wire)
    BY <1>4 DEF Timeout
  <2> QED BY <1>1, <2>1, <2>2, QuietPoll
<1>5. CASE call[c].pc \notin {"objects", "sells", "tx"}
  <2>1. Return(c)
    BY <1>5 DEF Timeout
  <2> QED BY <1>1, <2>1, QuietReturn
<1> QED BY <1>2, <1>3, <1>4, <1>5

\* Every step of a command.
LEMMA WorkStep ==
  ASSUME IInv, NEW c \in Calls, Work(c)
  PROVE  IInv'
<1>1. CASE Handle(c)
  <2>1. PICK q \in wire :
          \/ OnNfts(c, q) \/ OnObjects(c, q) \/ OnSells(c, q) \/ OnInfo(c, q)
          \/ OnFields(c, q) \/ OnMintSubmit(c, q) \/ OnOfferSubmit(c, q)
          \/ OnClaimSubmit(c, q) \/ OnBurnSubmit(c, q) \/ OnPaySubmit(c, q)
          \/ OnMintTx(c, q) \/ OnOfferTx(c, q) \/ OnClaimTx(c, q) \/ OnBurnTx(c, q)
    BY <1>1 DEF Handle
  <2>2. CASE OnNfts(c, q) \/ OnObjects(c, q) \/ OnSells(c, q) \/ OnInfo(c, q) \/ OnFields(c, q)
    BY <2>2, OnNftsStep, OnOffersStep, OnInfoStep, OnFieldsStep
  <2>3. CASE \/ OnMintSubmit(c, q) \/ OnOfferSubmit(c, q) \/ OnClaimSubmit(c, q)
             \/ OnBurnSubmit(c, q) \/ OnPaySubmit(c, q)
    BY <2>3, OnSubmitStep
  <2>4. CASE OnMintTx(c, q) \/ OnOfferTx(c, q) \/ OnClaimTx(c, q) \/ OnBurnTx(c, q)
    BY <2>4, OnMintTxStep, OnOfferTxStep, OnClaimTxStep, OnBurnTxStep
  <2> QED BY <2>1, <2>2, <2>3, <2>4
<1>2. CASE Timeout(c) \/ ReadWallet(c) \/ Consume(c)
  BY <1>2, TimeoutStep, ReadWalletStep, ConsumeStep
<1> QED BY <1>1, <1>2 DEF Work

-----------------------------------------------------------------------------
(* The node and the network *)

\* Nothing moves but what is on the wire.
LEMMA WireStep ==
  ASSUME IInv, Still, UNCHANGED <<call, cmds>>, NEW Q, wire' \subseteq wire \cup Q,
         \A z \in Q : RequestOk(z) /\ \A c \in Calls : Fits(call[c], z)
  PROVE  CallInv' /\ WireInv'
<1>1. cmds \in Nat /\ cmds' \in {cmds, cmds + 1}
  BY WalletTxAssumption DEF IInv, BoundsInv
<1>2. /\ \A cc : CallOk(cc) => CallOk(cc)'
      /\ \A q : RequestOk(q) => RequestOk(q)'
  BY <1>1, StillOk
<1>3. CallInv'
  <2>1. ASSUME NEW c \in Calls PROVE CallOk(call[c])'
    <3>1. PICK x : x = call[c]
      OBVIOUS
    <3>2. CallOk(x)'
      BY <1>2, <3>1 DEF IInv, CallInv
    <3> QED BY <3>1, <3>2 DEF CallOk
  <2> QED BY <2>1 DEF IInv, CallInv
<1>4. WireInv'
  BY <1>2 DEF IInv, WireInv, Fits
<1> QED BY <1>3, <1>4

\* What is on the wire only gets less.
LEMMA WireShrinks ==
  ASSUME IInv, UNCHANGED <<ledger, desktop, told, call, cmds, signins>>, faults' \in 0..MaxFaults,
         wire' \subseteq wire
  PROVE  IInv'
<1>1. PICK Q : Q = {}
  OBVIOUS
<1>2. wire' \subseteq wire \cup Q /\ (\A q \in Q : FALSE) /\ Still /\ BoundsInv'
  BY <1>1 DEF Still, ledger, desktop, IInv, BoundsInv
<1>3. CallInv' /\ WireInv'
  BY <1>2, WireStep
<1> QED BY <1>2, <1>3, QuietStep

\* What an answer to a request must say.
Truthful(q, a) ==
  /\ a \in AnswerType
  /\ q.m \in {"objects", "sells"} => a.found \subseteq Signed(OfferIntent)
  /\ q.m = "info" => a.seq \in Seqs /\ Current(q.acct, a.seq, a.bal)
  /\ q.m = "fields" => a.height \in 1..(MaxHeight + 1)
  /\ q.m = "tx" /\ a.validated /\ a.res = "tes" => Burned(q.tx)

\* A request is answered.
LEMMA AnswerStep ==
  ASSUME IInv, Still, UNCHANGED <<call, cmds>>, NEW q \in wire, NEW a, Truthful(q, a), Answer(q, a)
  PROVE  CallInv' /\ WireInv'
<1>1. PICK b : b = [a EXCEPT !.done = TRUE]
  OBVIOUS
<1>2. PICK z : z = [q EXCEPT !.ans = b]
  OBVIOUS
<1>3. wire' = (wire \ {q}) \cup {z}
  BY <1>1, <1>2 DEF Answer
<1>4. RequestOk(q) /\ \A c \in Calls : Fits(call[c], q)
  BY DEF IInv, WireInv
<1>5. /\ b \in AnswerType /\ b.seq = a.seq /\ b.bal = a.bal /\ b.height = a.height
      /\ b.found = a.found /\ b.res = a.res /\ b.validated = a.validated
  BY <1>1 DEF Truthful, AnswerType
<1>6. /\ z \in RequestType /\ z.n = q.n /\ z.id = q.id /\ z.m = q.m /\ z.acct = q.acct
      /\ z.tx = q.tx /\ z.ans = b
  BY <1>2, <1>4, <1>5 DEF RequestOk, RequestType
<1>7. AnswerOk(z)
  BY <1>5, <1>6 DEF Truthful, AnswerOk
<1>8. RequestOk(z)
  BY <1>4, <1>6, <1>7 DEF RequestOk
<1>9. \A c \in Calls : Fits(call[c], z)
  BY <1>4, <1>6 DEF Fits
<1>10. PICK Q : Q = {z}
  OBVIOUS
<1>11. wire' \subseteq wire \cup Q /\ \A y \in Q : RequestOk(y) /\ \A c \in Calls : Fits(call[c], y)
  BY <1>3, <1>8, <1>9, <1>10
<1> QED BY <1>11, WireStep

\* What the ledger says when it is asked.
LEMMA ReadTruthful ==
  ASSUME IInv, NEW q \in wire, q.m # "submit"
  PROVE  Truthful(q, Read(q))
<1>1. /\ RequestOk(q) /\ q.acct \in Wallets /\ q.tx \in Signed(Intents) \cup {None}
      /\ q.m \in Requests
  BY DEF IInv, WireInv, RequestOk, RequestType
<1>2. LedgerInv /\ MaxHeight \in Nat
  BY WalletTxAssumption DEF IInv
<1>3. CASE q.m = "nfts"
  <2>1. PICK F : F = AccountNfts(q.acct)
    OBVIOUS
  <2>2. PICK a : a = Read(q)
    OBVIOUS
  <2>3. a = [done |-> FALSE, seq |-> 0, bal |-> 0, height |-> 0, high |-> FALSE,
             found |-> F, res |-> "none", validated |-> FALSE]
    BY <1>3, <2>1, <2>2 DEF Read, Unanswered
  <2>4. F \in SUBSET (Tokens \cup Signed(OfferIntent))
    BY <2>1 DEF AccountNfts
  <2>5. a \in AnswerType
    BY <2>3, <2>4 DEF AnswerType
  <2> QED BY <1>3, <2>2, <2>5 DEF Truthful
<1>4. CASE q.m = "objects"
  <2>1. PICK F : F = AccountOffers(q.acct)
    OBVIOUS
  <2>2. F \subseteq Signed(OfferIntent)
    BY <1>2, <2>1 DEF AccountOffers, LedgerInv
  <2>3. Read(q) = [Unanswered EXCEPT !.found = F]
    BY <1>4, <2>1 DEF Read
  <2>4. F \in SUBSET (Tokens \cup Signed(OfferIntent))
    BY <2>2
  <2>5. PICK a : a = Read(q)
    OBVIOUS
  <2>6. a = [done |-> FALSE, seq |-> 0, bal |-> 0, height |-> 0, high |-> FALSE,
             found |-> F, res |-> "none", validated |-> FALSE]
    BY <2>3, <2>5 DEF Unanswered
  <2>7. a \in AnswerType /\ a.found = F
    BY <2>4, <2>6 DEF AnswerType
  <2> QED BY <1>4, <2>2, <2>5, <2>7 DEF Truthful
<1>5. CASE q.m = "sells"
  <2>1. PICK F : F = SellOffers(q.token)
    OBVIOUS
  <2>2. F \subseteq Signed(OfferIntent)
    BY <1>2, <2>1, SignedFields DEF SellOffers, LedgerInv
  <2>3. Read(q) = [Unanswered EXCEPT !.found = F]
    BY <1>5, <2>1 DEF Read
  <2>4. F \in SUBSET (Tokens \cup Signed(OfferIntent))
    BY <2>2
  <2>5. PICK a : a = Read(q)
    OBVIOUS
  <2>6. a = [done |-> FALSE, seq |-> 0, bal |-> 0, height |-> 0, high |-> FALSE,
             found |-> F, res |-> "none", validated |-> FALSE]
    BY <2>3, <2>5 DEF Unanswered
  <2>7. a \in AnswerType /\ a.found = F
    BY <2>4, <2>6 DEF AnswerType
  <2> QED BY <1>5, <2>2, <2>5, <2>7 DEF Truthful
<1>6. CASE q.m = "info"
  <2>1. PICK s : s = seqOf[q.acct]
    OBVIOUS
  <2>2. PICK b : b = bal[q.acct]
    OBVIOUS
  <2>3. s \in Seqs /\ s \in Nat /\ b \in Nat /\ Current(q.acct, s, b)
    BY <1>1, <1>2, <2>1, <2>2 DEF LedgerInv, Seqs, Current
  <2>4. Read(q) = [Unanswered EXCEPT !.seq = s, !.bal = b]
    BY <1>6, <2>1, <2>2 DEF Read, AccountInfo
  <2>5. PICK a : a = Read(q)
    OBVIOUS
  <2>6. a = [done |-> FALSE, seq |-> s, bal |-> b, height |-> 0, high |-> FALSE,
             found |-> {}, res |-> "none", validated |-> FALSE]
    BY <2>4, <2>5 DEF Unanswered
  <2>7. a \in AnswerType /\ a.seq = s /\ a.bal = b
    BY <2>3, <2>6 DEF AnswerType
  <2> QED BY <1>6, <2>3, <2>5, <2>7 DEF Truthful
<1>7. CASE q.m = "fields"
  <2>1. height + 1 \in 1..(MaxHeight + 1) /\ height + 1 \in Nat
    BY <1>2 DEF LedgerInv
  <2>2. Read(q) = [Unanswered EXCEPT !.height = height + 1]
    BY <1>7 DEF Read, LedgerCurrent
  <2>3. PICK a : a = Read(q)
    OBVIOUS
  <2>4. PICK h : h = height + 1
    OBVIOUS
  <2>5. a = [done |-> FALSE, seq |-> 0, bal |-> 0, height |-> h, high |-> FALSE,
             found |-> {}, res |-> "none", validated |-> FALSE]
    BY <2>2, <2>3, <2>4 DEF Unanswered
  <2>6. a \in AnswerType /\ a.height = h
    BY <2>1, <2>4, <2>5 DEF AnswerType
  <2> QED BY <1>7, <2>1, <2>3, <2>4, <2>6 DEF Truthful
<1>8. CASE q.m = "tx"
  <2>1. PICK a : a = Read(q)
    OBVIOUS
  <2>2. a = TxLookup(q.tx)
    BY <1>8, <2>1 DEF Read
  <2>3. CASE a = [Unanswered EXCEPT !.res = "pending"] \/ a = [Unanswered EXCEPT !.res = "error"]
    <3>1. PICK e \in {"pending", "error"} : a = [Unanswered EXCEPT !.res = e]
      BY <2>3
    <3>2. a = [done |-> FALSE, seq |-> 0, bal |-> 0, height |-> 0, high |-> FALSE,
             found |-> {}, res |-> e, validated |-> FALSE]
      BY <3>1 DEF Unanswered
    <3>3. a \in AnswerType /\ ~a.validated
      BY <3>2 DEF AnswerType
    <3> QED BY <1>8, <2>1, <3>3 DEF Truthful
  <2>4. CASE /\ \E v \in valid : v.tx = q.tx
             /\ a = [Unanswered EXCEPT !.validated = TRUE,
                                       !.res = (CHOOSE v \in valid : v.tx = q.tx).res]
    <3>1. PICK v \in valid : v.tx = q.tx /\ v = CHOOSE w \in valid : w.tx = q.tx
      BY <2>4
    <3>2. v.res \in {"tes", "tec"} /\ (v.res = "tes" => Burned(q.tx))
      BY <1>2, <3>1 DEF LedgerInv
    <3>3. PICK e : e = v.res
      OBVIOUS
    <3>4. a = [done |-> FALSE, seq |-> 0, bal |-> 0, height |-> 0, high |-> FALSE,
             found |-> {}, res |-> e, validated |-> TRUE]
      BY <2>4, <3>1, <3>3 DEF Unanswered
    <3>5. a \in AnswerType /\ a.res = e
      BY <3>2, <3>3, <3>4 DEF AnswerType
    <3> QED BY <1>8, <2>1, <3>2, <3>3, <3>5 DEF Truthful
  <2> QED BY <2>2, <2>3, <2>4 DEF TxLookup
<1> QED BY <1>1, <1>3, <1>4, <1>5, <1>6, <1>7, <1>8 DEF Requests

\* A request that only reads is answered.
LEMMA NodeReadsStep ==
  ASSUME IInv, NEW q \in wire, NodeReads(q)
  PROVE  IInv'
<1>1. /\ UNCHANGED <<ledger, desktop, told, call, cmds, signins, faults>> /\ Still /\ BoundsInv'
      /\ q.m # "submit"
  BY DEF NodeReads, bounds, ledger, desktop, Still, IInv, BoundsInv
<1>2. PICK a : a = Read(q)
  OBVIOUS
<1>3. Truthful(q, a) /\ Answer(q, a)
  BY <1>1, <1>2, ReadTruthful DEF NodeReads
<1>4. CallInv' /\ WireInv'
  BY <1>1, <1>3, AnswerStep
<1> QED BY <1>1, <1>4, QuietStep

\* The same when the network is busy.
LEMMA FeeEscalatedStep ==
  ASSUME IInv, NEW q \in wire, FeeEscalated(q)
  PROVE  IInv'
<1>1. /\ UNCHANGED <<ledger, desktop, told, call, cmds, signins>> /\ Still /\ BoundsInv'
      /\ q.m = "fields"
  BY WalletTxAssumption DEF FeeEscalated, bounds, ledger, desktop, Still, IInv, BoundsInv
<1>2. PICK a : a = Read(q)
  OBVIOUS
<1>3. Truthful(q, a)
  BY <1>1, <1>2, ReadTruthful
<1>4. PICK b : b = [a EXCEPT !.high = TRUE]
  OBVIOUS
<1>5. b \in AnswerType /\ b.height = a.height
  BY <1>3, <1>4 DEF Truthful, AnswerType
<1>6. Truthful(q, b) /\ Answer(q, b)
  BY <1>1, <1>2, <1>3, <1>4, <1>5 DEF Truthful, FeeEscalated
<1>7. CallInv' /\ WireInv'
  BY <1>1, <1>6, AnswerStep
<1> QED BY <1>1, <1>7, QuietStep

\* A transaction that was signed is put into the open ledger.
LEMMA NodeSubmitsStep ==
  ASSUME IInv, NEW q \in wire, NodeSubmits(q)
  PROVE  IInv'
<1>1. /\ UNCHANGED <<height, seqOf, bal, owner, offers, valid, desktop, told, call>>
      /\ UNCHANGED <<cmds, signins, faults>> /\ Still /\ BoundsInv' /\ q.m = "submit"
  BY DEF NodeSubmits, bounds, desktop, Still, IInv, BoundsInv
<1>2. RequestOk(q)
  BY DEF IInv, WireInv
<1>3. q.tx \in Signed(Intents) /\ PaidFor(q.tx)
  BY <1>1, <1>2 DEF RequestOk, RequestType
<1>4. PICK e : /\ e \in {"tef", "tes", "tec"}
               /\ Answer(q, [Unanswered EXCEPT !.res = e])
  <2>1. PICK e : e = IF ~(q.tx.seq = OpenSeq(q.tx.acct) /\ height + 1 <= q.tx.last) THEN "tef"
                     ELSE IF Applies(q.tx) THEN "tes" ELSE "tec"
    OBVIOUS
  <2>2. e \in {"tef", "tes", "tec"}
    BY <2>1
  <2>3. Answer(q, [Unanswered EXCEPT !.res = e])
    BY <2>1 DEF NodeSubmits
  <2> QED BY <2>2, <2>3
<1>5. PICK a : a = [Unanswered EXCEPT !.res = e]
  OBVIOUS
<1>6. a = [done |-> FALSE, seq |-> 0, bal |-> 0, height |-> 0, high |-> FALSE,
           found |-> {}, res |-> e, validated |-> FALSE]
  BY <1>5 DEF Unanswered
<1>7. a \in AnswerType
  BY <1>4, <1>6 DEF AnswerType
<1>8. Truthful(q, a) /\ Answer(q, a)
  BY <1>1, <1>4, <1>5, <1>7 DEF Truthful
<1>9. CallInv' /\ WireInv'
  BY <1>1, <1>8, AnswerStep
<1>10. LedgerInv'
  <2>1. open' \subseteq open \cup {q.tx}
    BY DEF NodeSubmits
  <2>2. \A tx : PaidFor(tx) => PaidFor(tx)'
    BY <1>1 DEF PaidFor, Current
  <2>3. \A tx \in open' : tx \in Signed(Intents) /\ PaidFor(tx)'
    BY <1>3, <2>1, <2>2 DEF IInv, LedgerInv
  <2> QED BY <1>1, <2>3 DEF IInv, LedgerInv, Burned
<1>11. ApprovalInv' /\ ToldInv'
  BY <1>1, Frames DEF IInv, desktop, told
<1> QED BY <1>1, <1>9, <1>10, <1>11 DEF IInv

\* Requests and answers get lost, or come too late.
LEMMA LostStep ==
  ASSUME IInv, NEW q \in wire, Lose(q) \/ LateAnswer(q)
  PROVE  IInv'
<1>1. /\ UNCHANGED <<ledger, desktop, told, call, cmds, signins>> /\ wire' \subseteq wire
      /\ faults' \in 0..MaxFaults
  BY WalletTxAssumption DEF Lose, LateAnswer, bounds, IInv, BoundsInv
<1> QED BY <1>1, WireShrinks

-----------------------------------------------------------------------------
(* The desktop's user *)

\* The user signs in or out, and approvals expire: none becomes usable by that.
LEMMA UserStep ==
  ASSUME IInv, \/ \E w \in Wallets : SignIn(w)
               \/ SignOut
               \/ \E r \in registry : Expire(r)
  PROVE  IInv'
<1>1. /\ UNCHANGED <<ledger, known, told, call, wire, cmds>> /\ Still
      /\ UNCHANGED <<approved, sent, confirmed, erased, owner>>
  BY DEF SignIn, SignOut, Expire, Still, ledger, told
<1>2. BoundsInv'
  BY WalletTxAssumption DEF SignIn, SignOut, Expire, IInv, BoundsInv
<1>3. PICK Q : Q = {}
  OBVIOUS
<1>4. wire' \subseteq wire \cup Q /\ (\A q \in Q : FALSE) /\ UNCHANGED <<call, cmds>>
  BY <1>1, <1>3
<1>5. CallInv' /\ WireInv'
  BY <1>1, <1>4, WireStep
<1>6. LedgerInv' /\ ToldInv'
  BY <1>1, Frames DEF IInv
<1>7. /\ registry' \subseteq RecordType /\ Single'
      /\ \A r \in registry' : Usable(r) => \E o \in registry : o.tx = r.tx /\ Usable(o)
  <2>1. CASE UNCHANGED registry \/ registry' = {}
    BY <2>1 DEF IInv, ApprovalInv, Single
  <2>2. CASE \E r \in registry : Expire(r)
    <3>1. PICK r \in registry : Expire(r)
      BY <2>2
    <3>2. PICK s : s = [r EXCEPT !.live = FALSE]
      OBVIOUS
    <3>3. registry' = (registry \ {r}) \cup {s}
      BY <3>1, <3>2 DEF Expire
    <3>4. registry \subseteq RecordType /\ Single
      BY DEF IInv, ApprovalInv
    <3>5. s \in RecordType /\ s.tx = r.tx /\ s.consumed = r.consumed
      BY <3>2, <3>4 DEF RecordType
    <3>6. Single'
      BY <3>3, <3>4, <3>5 DEF Single
    <3> QED BY <3>1, <3>3, <3>4, <3>5, <3>6 DEF Usable
  <2> QED BY <2>1, <2>2 DEF SignIn, SignOut
<1>8. ApprovalInv'
  <2>1. ASSUME NEW e \in Mints
        PROVE  Copies(e, sent) + Waiting(e)' <= Copies(e, approved)
    <3>1. /\ Copies(e, sent) + Waiting(e) <= Copies(e, approved)
          /\ Copies(e, sent) \in Nat /\ Copies(e, approved) \in Nat
      BY DEF IInv, ApprovalInv, IsABag, Copies
    <3>2. Waiting(e) \in {0, 1} /\ Waiting(e)' \in {0, 1} /\ (Waiting(e)' = 1 => Waiting(e) = 1)
      BY <1>7 DEF Waiting
    <3> QED BY <3>1, <3>2
  <2> QED BY <1>1, <1>7, <2>1 DEF IInv, ApprovalInv
<1> QED BY <1>2, <1>5, <1>6, <1>8 DEF IInv

-----------------------------------------------------------------------------
(* The ledger *)

\* What the ledger may do to what commands and requests rely on.
Moves ==
  /\ \A w \in Wallets, s \in Nat, b \in Nat : Current(w, s, b) => Current(w, s, b)'
  /\ \A t \in Tokens : owner[t] = None => owner'[t] = None

\* Payments that were checked stay checked, and burns final.
LEMMA MovesTx ==
  ASSUME Moves, NEW tx \in Signed(Intents)
  PROVE  (PaidFor(tx) => PaidFor(tx)') /\ (Burned(tx) => Burned(tx)')
<1>1. tx.intent \in Intents /\ tx.acct \in Wallets /\ tx.seq \in Nat
  BY SignedFields DEF Seqs
<1>2. PaidFor(tx) => PaidFor(tx)'
  <2>1. PICK b : b = Reserve + Fee + Amount /\ b \in Nat
    BY WalletTxAssumption
  <2>2. PICK w : w = tx.acct /\ w \in Wallets
    BY <1>1
  <2>3. PICK s : s = tx.seq /\ s \in Nat
    BY <1>1
  <2>4. Current(w, s, b) => Current(w, s, b)'
    BY <2>1, <2>2, <2>3 DEF Moves
  <2> QED BY <2>1, <2>2, <2>3, <2>4 DEF PaidFor
<1>3. Burned(tx) => Burned(tx)'
  BY <1>1, IntentFields DEF Burned, Moves
<1> QED BY <1>2, <1>3

\* Commands and requests are as good as before.
LEMMA MovesOk ==
  ASSUME Moves, UNCHANGED <<call, wire, cmds>>, CallInv, WireInv
  PROVE  CallInv' /\ WireInv'
<1>1. ASSUME NEW c \in Calls PROVE CallOk(call[c])'
  <2>1. PICK cc : cc = call[c]
    OBVIOUS
  <2>2. CallOk(cc) /\ cc \in CallType
    BY <2>1 DEF CallInv
  <2>3. cc.tx # None => PaidFor(cc.tx)'
    BY <2>2, MovesTx DEF CallOk, CallType
  <2>4. cc.pc = "fields" => cc.seq \in Seqs /\ Current(cc.acct, cc.seq, cc.bal)'
    <3> SUFFICES ASSUME cc.pc = "fields" PROVE cc.seq \in Seqs /\ Current(cc.acct, cc.seq, cc.bal)'
      OBVIOUS
    <3>1. PICK w : w = cc.acct
      OBVIOUS
    <3>2. PICK s : s = cc.seq
      OBVIOUS
    <3>3. PICK b : b = cc.bal
      OBVIOUS
    <3>4. w \in Wallets /\ s \in Nat /\ b \in Nat /\ cc.seq \in Seqs /\ Current(w, s, b)
      BY <2>2, <3>1, <3>2, <3>3 DEF CallOk, CallType, Requests
    <3>5. Current(w, s, b)'
      BY <3>4 DEF Moves
    <3> QED BY <3>1, <3>2, <3>3, <3>4, <3>5
  <2>5. CallOk(cc)'
    BY <2>2, <2>3, <2>4 DEF CallOk
  <2> QED BY <2>1, <2>5 DEF CallOk
<1>2. CallInv'
  BY <1>1 DEF CallInv
<1>3. ASSUME NEW q \in wire PROVE RequestOk(q)'
  <2>1. RequestOk(q) /\ q \in RequestType
    BY DEF WireInv, RequestOk
  <2>2. q.tx # None => (PaidFor(q.tx) => PaidFor(q.tx)') /\ (Burned(q.tx) => Burned(q.tx)')
    BY <2>1, MovesTx DEF RequestType
  <2>3. q.ans.done => AnswerOk(q)'
    <3> SUFFICES ASSUME q.ans.done PROVE AnswerOk(q)'
      OBVIOUS
    <3>1. AnswerOk(q) /\ (q.m = "tx" => q.tx # None)
      BY <2>1 DEF RequestOk
    <3>2. q.m = "info" => q.ans.seq \in Seqs /\ Current(q.acct, q.ans.seq, q.ans.bal)'
      <4> SUFFICES ASSUME q.m = "info"
                   PROVE  q.ans.seq \in Seqs /\ Current(q.acct, q.ans.seq, q.ans.bal)'
        OBVIOUS
      <4>1. PICK w : w = q.acct
        OBVIOUS
      <4>2. PICK s : s = q.ans.seq
        OBVIOUS
      <4>3. PICK b : b = q.ans.bal
        OBVIOUS
      <4>4. w \in Wallets /\ s \in Nat /\ b \in Nat /\ q.ans.seq \in Seqs /\ Current(w, s, b)
        BY <2>1, <3>1, <4>1, <4>2, <4>3 DEF AnswerOk, RequestType, AnswerType
      <4>5. Current(w, s, b)'
        BY <4>4 DEF Moves
      <4> QED BY <4>1, <4>2, <4>3, <4>4, <4>5
    <3> QED BY <2>2, <3>1, <3>2 DEF AnswerOk
  <2> QED BY <2>1, <2>2, <2>3 DEF RequestOk
<1>4. WireInv'
  BY <1>3 DEF WireInv, Fits
<1> QED BY <1>2, <1>4

\* A transaction is validated.
LEMMA ValidateStep ==
  ASSUME IInv, NEW tx \in open, Validate(tx)
  PROVE  IInv'
<1>1. /\ UNCHANGED <<desktop, told, bounds, call, wire, cmds>> /\ LedgerInv /\ BoundsInv'
      /\ height < MaxHeight /\ height' = height + 1 /\ MaxHeight \in Nat /\ Fee \in Nat
      /\ Amount \in Nat
      /\ seqOf' = [seqOf EXCEPT ![tx.acct] = @ + 1] /\ open' = open \ {tx}
  BY WalletTxAssumption DEF Validate, IInv, desktop, bounds, BoundsInv
<1>2. PICK i : i = tx.intent
  OBVIOUS
<1>3. /\ tx \in Signed(Intents) /\ i \in Intents /\ tx.acct \in Wallets
      /\ i.kind = "offer" => tx \in Signed(OfferIntent)
  BY <1>1, <1>2, SignedFields DEF LedgerInv
<1>4. /\ i.kind \in {"mint", "offer", "claim", "burn", "pay"}
      /\ i.kind = "claim" => i.offer \in Signed(OfferIntent)
      /\ i.kind = "burn" => i.token \in Tokens
      /\ i.kind = "pay" => i.to \in Wallets
  BY <1>3, IntentFields
<1>5. PICK fee : fee = IF bal[tx.acct] >= Fee THEN Fee ELSE bal[tx.acct]
  OBVIOUS
<1>6. PICK ok \in BOOLEAN : ok <=> (Applies(tx) /\ fee = Fee)
  OBVIOUS
<1>7. bal[tx.acct] \in Nat /\ fee \in Nat /\ fee <= bal[tx.acct]
  BY <1>1, <1>3, <1>5 DEF LedgerInv
<1>8. bal' = [w \in Wallets |->
                bal[w] - (IF w = tx.acct THEN fee + (IF ok /\ i.kind = "pay" THEN Amount ELSE 0)
                          ELSE IF ok /\ i.kind = "pay" /\ w = i.to THEN - Amount ELSE 0)]
  BY <1>2, <1>5, <1>6 DEF Validate
<1>9. /\ valid' = valid \cup {[tx |-> tx, res |-> IF ok THEN "tes" ELSE "tec"]}
      /\ owner' = IF ok /\ i.kind = "claim" THEN [owner EXCEPT ![i.offer.intent.token] = tx.acct]
                  ELSE IF ok /\ i.kind = "burn" THEN [owner EXCEPT ![i.token] = None]
                  ELSE owner
      /\ offers' = IF ok /\ i.kind = "offer" THEN offers \cup {tx}
                   ELSE IF ok /\ i.kind = "claim" THEN offers \ {i.offer}
                   ELSE IF ok /\ i.kind = "burn" THEN {o \in offers : o.intent.token # i.token}
                   ELSE offers
  BY <1>2, <1>5, <1>6 DEF Validate
<1>10. ok /\ i.kind = "pay" => bal[tx.acct] >= Amount + Fee /\ fee = Fee
  BY <1>2, <1>6 DEF Applies
<1>11. ok /\ i.kind = "claim" => owner[i.offer.intent.token] \in Wallets /\ i.offer.intent.token \in Tokens
  BY <1>2, <1>4, <1>6, OfferFields DEF Applies
<1>12. bal' \in [Wallets -> Nat] /\ \A w \in Wallets \ {tx.acct} : bal'[w] >= bal[w]
  <2>1. ASSUME NEW w \in Wallets PROVE bal'[w] \in Nat /\ (w # tx.acct => bal'[w] >= bal[w])
    <3>1. bal[w] \in Nat
      BY <1>1 DEF LedgerInv
    <3>2. bal'[w] = bal[w] - (IF w = tx.acct THEN fee + (IF ok /\ i.kind = "pay" THEN Amount ELSE 0)
                              ELSE IF ok /\ i.kind = "pay" /\ w = i.to THEN - Amount ELSE 0)
      BY <1>8
    <3>3. CASE w = tx.acct
      BY <1>1, <1>7, <1>10, <3>1, <3>2, <3>3
    <3>4. CASE w # tx.acct
      BY <1>1, <3>1, <3>2, <3>4
    <3> QED BY <3>3, <3>4
  <2> QED BY <1>8, <2>1
<1>13. /\ seqOf' \in [Wallets -> Seqs] /\ \A w \in Wallets : seqOf'[w] <= height' + 1
       /\ seqOf'[tx.acct] = seqOf[tx.acct] + 1
       /\ \A w \in Wallets \ {tx.acct} : seqOf'[w] = seqOf[w]
  BY <1>1, <1>3 DEF LedgerInv, Seqs
<1>14. /\ owner' \in [Tokens -> Wallets \cup {None}]
       /\ \A t \in Tokens : owner[t] = None => owner'[t] = None
       /\ ok /\ i.kind = "burn" => owner'[i.token] = None
  BY <1>1, <1>3, <1>4, <1>9, <1>11, WalletTxAssumption DEF LedgerInv
<1>15. Moves
  <2>1. ASSUME NEW w \in Wallets, NEW s \in Nat, NEW b \in Nat, Current(w, s, b)
        PROVE  Current(w, s, b)'
    <3>1. seqOf \in [Wallets -> Seqs] /\ bal \in [Wallets -> Nat]
      BY <1>1 DEF LedgerInv
    <3>2. seqOf[w] \in Nat
      BY <3>1 DEF Seqs
    <3>3. bal[w] \in Nat /\ bal'[w] \in Nat
      BY <1>12, <3>1
    <3> QED BY <1>12, <1>13, <2>1, <3>2, <3>3 DEF Current
  <2> QED BY <1>14, <2>1 DEF Moves
<1>16. CallInv' /\ WireInv'
  BY <1>1, <1>15, MovesOk DEF IInv
<1>17. LedgerInv'
  <2>1. offers' \subseteq Signed(OfferIntent)
    BY <1>1, <1>3, <1>9 DEF LedgerInv
  <2>2. open' \subseteq Signed(Intents) /\ \A y \in open' : PaidFor(y)'
    BY <1>1, <1>15, MovesTx DEF LedgerInv
  <2>3. PICK v : v = [tx |-> tx, res |-> IF ok THEN "tes" ELSE "tec"]
    OBVIOUS
  <2>4. /\ v \in [tx : Signed(Intents), res : {"tes", "tec"}] /\ v.tx = tx
        /\ v.res = "tes" => ok
    BY <1>3, <2>3
  <2>5. v.res = "tes" => Burned(v.tx)'
    BY <1>2, <1>14, <2>4 DEF Burned
  <2>6. \A y \in valid : y.tx \in Signed(Intents) /\ (y.res = "tes" => Burned(y.tx)')
    BY <1>1, <1>15, MovesTx DEF LedgerInv
  <2>7. valid' = valid \cup {v}
    BY <1>9, <2>3
  <2>8. /\ valid' \subseteq [tx : Signed(Intents), res : {"tes", "tec"}]
        /\ \A y \in valid' : y.res = "tes" => Burned(y.tx)'
    BY <1>1, <2>4, <2>5, <2>6, <2>7 DEF LedgerInv
  <2>9. height' \in 0..MaxHeight
    BY <1>1 DEF LedgerInv
  <2> QED BY <1>12, <1>13, <1>14, <2>1, <2>2, <2>8, <2>9 DEF LedgerInv
<1>18. ApprovalInv'
  BY <1>1, Frames DEF IInv, desktop, told
<1>19. ToldInv'
  BY <1>1, <1>14 DEF IInv, ToldInv, desktop, told
<1> QED BY <1>1, <1>16, <1>17, <1>18, <1>19 DEF IInv

\* A ledger passes without the desktop's transactions.
LEMMA EmptyLedgerStep ==
  ASSUME IInv, EmptyLedger
  PROVE  IInv'
<1>1. /\ UNCHANGED <<seqOf, bal, owner, offers, valid, desktop, told, call, wire, cmds>>
      /\ height' \in 0..MaxHeight /\ height' = height + 1 /\ height \in Nat
      /\ open' \subseteq open /\ BoundsInv'
  BY WalletTxAssumption DEF EmptyLedger, IInv, LedgerInv, desktop, BoundsInv
<1>2. Moves
  BY <1>1 DEF Moves, Current
<1>3. CallInv' /\ WireInv'
  BY <1>1, <1>2, MovesOk DEF IInv
<1>4. \A w \in Wallets : seqOf[w] \in Nat /\ seqOf[w] <= height' + 1
  BY <1>1 DEF IInv, LedgerInv, Seqs
<1>5. LedgerInv'
  <2>1. \A y \in open' : y \in Signed(Intents) /\ PaidFor(y)'
    BY <1>1, <1>2, MovesTx DEF IInv, LedgerInv
  <2> QED BY <1>1, <1>4, <2>1 DEF IInv, LedgerInv, Burned
<1>6. ApprovalInv' /\ ToldInv'
  BY <1>1, Frames DEF IInv, desktop, told
<1> QED BY <1>1, <1>3, <1>5, <1>6 DEF IInv

-----------------------------------------------------------------------------
(* The theorems *)

\* The desktop starts with nothing to contradict.
LEMMA InitIInv == Init => IInv
<1> SUFFICES ASSUME Init PROVE IInv
  OBVIOUS
<1>1. CallInv
  <2>1. call = [c \in Calls |-> Idle] /\ cmds = 0
    BY DEF Init
  <2>2. CallOk(Idle)
    BY <2>1, IdleFields DEF CallOk, Requests
  <2> QED BY <2>1, <2>2, IdleFields DEF CallInv
<1>2. WireInv
  BY DEF Init, WireInv
<1>3. LedgerInv
  <2>1. 1 \in Seqs /\ MaxHeight \in Nat
    BY WalletTxAssumption DEF Seqs
  <2> QED BY <2>1, WalletTxAssumption DEF Init, LedgerInv
<1>4. ApprovalInv
  <2>1. approved = EmptyBag /\ sent = EmptyBag /\ registry = {}
    BY DEF Init
  <2>2. IsABag(EmptyBag) /\ DOMAIN EmptyBag = {}
    BY DEF EmptyBag, SetToBag, IsABag
  <2>3. ASSUME NEW e \in Mints PROVE Copies(e, EmptyBag) = 0 /\ Waiting(e) = 0
    BY <2>1, <2>2 DEF Copies, Waiting
  <2> QED BY <2>1, <2>2, <2>3 DEF ApprovalInv, Single
<1>5. ToldInv /\ BoundsInv
  BY WalletTxAssumption DEF Init, ToldInv, BoundsInv
<1> QED BY <1>1, <1>2, <1>3, <1>4, <1>5 DEF IInv

\* Every step keeps the inductive invariant.
LEMMA NextIInv == IInv /\ [Next]_vars => IInv'
<1> SUFFICES ASSUME IInv, [Next]_vars PROVE IInv'
  OBVIOUS
<1>1. CASE \E c \in Calls : Start(c) \/ Work(c)
  BY <1>1, StartStep, WorkStep
<1>2. CASE Node
  BY <1>2, NodeReadsStep, NodeSubmitsStep DEF Node
<1>3. CASE \E q \in wire : FeeEscalated(q) \/ Lose(q) \/ LateAnswer(q)
  BY <1>3, FeeEscalatedStep, LostStep
<1>4. CASE (\E tx \in open : Validate(tx)) \/ EmptyLedger
  BY <1>4, ValidateStep, EmptyLedgerStep
<1>5. CASE (\E w \in Wallets : SignIn(w)) \/ SignOut \/ (\E r \in registry : Expire(r))
  BY <1>5, UserStep
<1>6. CASE UNCHANGED vars
  BY <1>6, WireShrinks DEF vars, bounds, IInv, BoundsInv
<1> QED BY <1>1, <1>2, <1>3, <1>4, <1>5, <1>6 DEF Next

\* The inductive invariant: what commands, requests, the ledger, the approvals and
\* the Oracle know of one another is never contradicted.
THEOREM Invariance == Spec => []IInv
BY InitIInv, NextIInv, PTL DEF Spec

\* The state always has its types (commands.rs, state.rs, xrpl/client.rs).
THEOREM TypeCorrect == Spec => []TypeOK
<1>1. IInv => TypeOK
  <2> SUFFICES ASSUME IInv PROVE TypeOK
    OBVIOUS
  <2>1. \A c \in Calls : /\ call[c].pc \in Requests \cup {"idle", "read", "consume", "late"}
                         /\ call[c].tx \in Signed(Intents) \cup {None}
                         /\ call[c].polls \in 0..MaxPolls
    BY DEF IInv, CallInv, CallType
  <2>2. \A q \in wire : q.m \in Requests /\ q.n \in 1..MaxCommands /\ q.id \in Nat
    BY DEF IInv, WireInv, RequestOk, RequestType
  <2>3. \A v \in valid : v.tx \in Signed(Intents) /\ v.res \in {"tes", "tec"}
    BY DEF IInv, LedgerInv
  <2>4. \A r \in registry : r.tx \in Mints /\ r.live \in BOOLEAN /\ r.consumed \in BOOLEAN
    BY DEF IInv, ApprovalInv, RecordType
  <2>5. IsABag(approved) /\ IsABag(sent) /\ DOMAIN approved \cup DOMAIN sent \subseteq Mints
    BY DEF IInv, ApprovalInv
  <2>6. /\ known \subseteq Mints /\ wallet \in Wallets \cup {None}
        /\ cmds \in 0..MaxCommands /\ signins \in 0..MaxSignIns /\ faults \in 0..MaxFaults
    BY DEF IInv, ToldInv, BoundsInv
  <2>7. /\ height \in 0..MaxHeight
        /\ seqOf \in [Wallets -> Seqs] /\ bal \in [Wallets -> Nat]
        /\ owner \in [Tokens -> Wallets \cup {None}]
        /\ offers \subseteq Signed(OfferIntent) /\ open \subseteq Signed(Intents)
    BY DEF IInv, LedgerInv
  <2> QED BY <2>1, <2>2, <2>3, <2>4, <2>5, <2>6, <2>7 DEF TypeOK
<1> QED BY <1>1, Invariance, PTL

\* A signed mint is sent at most once for each time it was registered, however
\* many commands submit it, at once or one after the other, and whichever wallet
\* is unlocked meanwhile (register_ and consume_signed_xrpl_tx_blob).
THEOREM SentOnce == Spec => []SentOncePerApproval
<1>1. IInv => SentOncePerApproval
  <2> SUFFICES ASSUME IInv PROVE SentOncePerApproval
    OBVIOUS
  <2>1. ASSUME NEW e \in DOMAIN sent PROVE e \in DOMAIN approved /\ sent[e] <= approved[e]
    <3>1. e \in Mints /\ sent[e] \in Nat /\ sent[e] > 0 /\ Copies(e, sent) = sent[e]
      BY DEF IInv, ApprovalInv, IsABag, Copies
    <3>2. Copies(e, sent) + Waiting(e) <= Copies(e, approved)
      BY <3>1 DEF IInv, ApprovalInv
    <3>3. Waiting(e) \in {0, 1}
      BY DEF Waiting
    <3>4. e \in DOMAIN approved
      BY <3>1, <3>2, <3>3 DEF Copies
    <3>5. Copies(e, approved) = approved[e] /\ approved[e] \in Nat
      BY <3>4 DEF IInv, ApprovalInv, IsABag, Copies
    <3> QED BY <3>1, <3>2, <3>3, <3>4, <3>5
  <2> QED BY <2>1 DEF SentOncePerApproval, \sqsubseteq
<1> QED BY <1>1, Invariance, PTL

\* An answer with the id a command waits for is the answer to the request the
\* command made last (request_with_id, the reader task of connect).
THEOREM Answers == Spec => []AnswersFit
<1>1. IInv => AnswersFit
  BY DEF IInv, WireInv, Fits, AnswersFit
<1> QED BY <1>1, Invariance, PTL

\* The Oracle is asked to delete a vault only when its token is burned for good
\* (delete_vault, wait_for_validated_nftoken_burn).
THEOREM Erased == Spec => []ErasedIsBurned
<1>1. IInv => ErasedIsBurned
  BY DEF IInv, ToldInv, ErasedIsBurned
<1> QED BY <1>1, Invariance, PTL

\* An offer confirmed with the Oracle is one for the transfer's token and
\* recipient (resolve_nftoken_offer_index, find_matching_nftoken_offer).
THEOREM Confirmed == Spec => []ConfirmedFits
<1>1. IInv => ConfirmedFits
  BY DEF IInv, ToldInv, ConfirmedFits
<1> QED BY <1>1, Invariance, PTL

-----------------------------------------------------------------------------
(* What a payment leaves *)

\* Only the ledger validates transactions.
LEMMA OnlyValidate == [Next]_vars => UNCHANGED valid \/ \E tx \in open : Validate(tx)
<1> SUFFICES ASSUME [Next]_vars, ~\E tx \in open : Validate(tx) PROVE UNCHANGED valid
  OBVIOUS
<1> USE DEF ledger
<1>1. ASSUME NEW c \in Calls, Start(c) PROVE UNCHANGED valid
  BY <1>1 DEF Start, Mint, CreateTransferOffer, ClaimNft, DeleteVault, SendXrpPayment, SubmitBlob,
              Started
<1>2. ASSUME NEW c \in Calls, Work(c) PROVE UNCHANGED valid
  <2>1. CASE Handle(c)
    BY <2>1 DEF Handle, OnNfts, OnObjects, OnSells, OnInfo, OnFields, OnMintSubmit, OnOfferSubmit,
                OnClaimSubmit, OnBurnSubmit, OnPaySubmit, AwaitAccepted, OnMintTx, OnOfferTx,
                OnClaimTx, OnBurnTx
  <2>2. CASE Timeout(c) \/ ReadWallet(c) \/ Consume(c)
    BY <2>2 DEF Timeout, ReadWallet, Consume
  <2> QED BY <1>2, <2>1, <2>2 DEF Work
<1>3. ASSUME NEW q, \/ NodeReads(q) \/ NodeSubmits(q) \/ FeeEscalated(q) \/ Lose(q) \/ LateAnswer(q)
      PROVE  UNCHANGED valid
  BY <1>3 DEF NodeReads, NodeSubmits, FeeEscalated, Lose, LateAnswer
<1>4. ASSUME \/ EmptyLedger \/ (\E w \in Wallets : SignIn(w)) \/ SignOut
             \/ \E r \in registry : Expire(r)
      PROVE  UNCHANGED valid
  BY <1>4 DEF EmptyLedger, SignIn, SignOut, Expire
<1>5. CASE UNCHANGED vars
  BY <1>5 DEF vars
<1> QED BY <1>1, <1>2, <1>3, <1>4, <1>5 DEF Next, Node

\* A payment that is validated leaves the sender the reserve, although it was
\* checked against a balance read long before (send_xrp_payment).
THEOREM ReserveStays == Spec => ReserveKept
<1>1. IInv /\ [Next]_vars
      => [\A v \in valid' \ valid :
            v.tx.intent.kind = "pay" /\ v.res = "tes" => bal'[v.tx.acct] >= Reserve]_vars
  <2> SUFFICES ASSUME IInv, [Next]_vars, NEW v \in valid' \ valid,
                      v.tx.intent.kind = "pay", v.res = "tes"
               PROVE  bal'[v.tx.acct] >= Reserve
    OBVIOUS
  <2>1. PICK tx \in open : Validate(tx)
    BY OnlyValidate
  <2>2. tx \in Signed(Intents) /\ PaidFor(tx) /\ tx.acct \in Wallets
    BY SignedFields DEF IInv, LedgerInv
  <2>3. PICK fee : fee = IF bal[tx.acct] >= Fee THEN Fee ELSE bal[tx.acct]
    OBVIOUS
  <2>4. PICK ok \in BOOLEAN : ok <=> (Applies(tx) /\ fee = Fee)
    OBVIOUS
  <2>5. valid' = valid \cup {[tx |-> tx, res |-> IF ok THEN "tes" ELSE "tec"]}
    BY <2>1, <2>3, <2>4 DEF Validate
  <2>6. v.tx = tx /\ ok
    BY <2>5
  <2>7. bal'[tx.acct] = bal[tx.acct] - (fee + Amount) /\ fee = Fee
    BY <2>1, <2>2, <2>3, <2>4, <2>6 DEF Validate
  <2>8. Reserve + Fee + Amount <= bal[tx.acct] /\ bal[tx.acct] \in Nat
    BY <2>1, <2>2, <2>6 DEF Validate, PaidFor, Current, IInv, LedgerInv
  <2> QED BY <2>6, <2>7, <2>8, WalletTxAssumption
<1> QED BY <1>1, Invariance, PTL DEF Spec, ReserveKept

-----------------------------------------------------------------------------
(* Commands come to an end *)

\* The measure of a command, request by request.
LEMMA RankBefore ==
  ASSUME NEW cc, cc.tx = None \/ cc.pc \in {"read", "consume", "late", "submit"}
  PROVE  /\ cc.pc \in {"nfts", "objects"} => Rank(cc) = 3 * MaxPolls + 7
         /\ cc.pc = "sells" => Rank(cc) = 3 * MaxPolls + 6
         /\ cc.pc = "info" => Rank(cc) = 3 * MaxPolls + 5
         /\ cc.pc = "fields" => Rank(cc) = 3 * MaxPolls + 4
         /\ cc.pc = "read" => Rank(cc) = 3 * MaxPolls + 3
         /\ cc.pc \in {"consume", "late"} => Rank(cc) = 3 * MaxPolls + 2
         /\ cc.pc = "submit" => Rank(cc) = 3 * MaxPolls + 1
BY DEF Rank

\* The same after the submit.
LEMMA RankAfter ==
  ASSUME NEW cc, cc.tx # None
  PROVE  /\ cc.pc = "tx" => Rank(cc) = 3 * (MaxPolls - cc.polls) + 3
         /\ cc.pc = "objects" => Rank(cc) = 3 * (MaxPolls - cc.polls) + 2
         /\ cc.pc = "sells" => Rank(cc) = 3 * (MaxPolls - cc.polls) + 1
BY DEF Rank

\* What a command is after it has asked.
LEMMA AskCall ==
  ASSUME IInv, NEW c \in Calls, NEW cc \in CallType, NEW m \in Requests, NEW rest, Ask(c, cc, m, rest)
  PROVE  /\ call'[c].pc = m /\ call'[c].tx = cc.tx /\ call'[c].polls = cc.polls
         /\ \A d \in Calls \ {c} : call'[d] = call[d]
<1>1. PICK r : r = [cc EXCEPT !.pc = m, !.id = NextId(cc.id)]
  OBVIOUS
<1>2. call' = [call EXCEPT ![c] = r] /\ call \in [Calls -> CallType]
  BY <1>1 DEF Ask, IInv, CallInv
<1>3. r.pc = m /\ r.tx = cc.tx /\ r.polls = cc.polls
  BY <1>1 DEF CallType
<1> QED BY <1>2, <1>3

\* A command has ended, or has less ahead of it; the others are where they were.
Drops(c) ==
  /\ call'[c] = Idle \/ Rank(call'[c]) < Rank(call[c])
  /\ \A d \in Calls \ {c} : call'[d] = call[d]

\* A command that returns.
LEMMA ReturnDrops ==
  ASSUME IInv, NEW c \in Calls, Return(c)
  PROVE  Drops(c)
<1>1. call' = [call EXCEPT ![c] = Idle] /\ call \in [Calls -> CallType]
  BY DEF Return, IInv, CallInv
<1> QED BY <1>1 DEF Drops

\* The steps from one request to the next that get closer to the end.
LEMMA AskDrops ==
  ASSUME IInv, NEW c \in Calls, NEW cc \in CallType, NEW m \in Requests, NEW rest, Ask(c, cc, m, rest),
         \/ /\ cc.tx = None /\ call[c].tx = None
            /\ \/ call[c].pc = "nfts" /\ m = "info"
               \/ call[c].pc = "objects" /\ m \in {"sells", "info"}
               \/ call[c].pc = "sells" /\ m = "info"
               \/ call[c].pc = "info" /\ m = "fields"
         \/ call[c].pc = "fields" /\ call[c].tx = None /\ m = "submit"
         \/ call[c].pc \in {"consume", "late"} /\ m = "submit"
         \/ call[c].pc = "submit" /\ m = "tx" /\ cc.polls = 1 /\ cc.tx # None
         \/ /\ cc.tx # None /\ call[c].tx # None /\ cc.polls = call[c].polls
            /\ \/ call[c].pc = "tx" /\ m = "objects"
               \/ call[c].pc = "objects" /\ m = "sells"
         \/ /\ cc.tx # None /\ call[c].tx # None /\ cc.polls = call[c].polls + 1
            /\ call[c].pc \in {"tx", "objects", "sells"} /\ m = "tx"
  PROVE  Drops(c)
<1>1. /\ call'[c].pc = m /\ call'[c].tx = cc.tx /\ call'[c].polls = cc.polls
      /\ \A d \in Calls \ {c} : call'[d] = call[d]
  BY AskCall
<1>2. PICK x : x = call[c]
  OBVIOUS
<1>3. PICK y : y = call'[c]
  OBVIOUS
<1>4. /\ y.pc = m /\ y.tx = cc.tx /\ y.polls = cc.polls
      /\ MaxPolls \in Nat /\ x.polls \in Nat /\ cc.polls \in Nat
  BY <1>1, <1>2, <1>3, WalletTxAssumption DEF IInv, CallInv, CallType
<1>5. Rank(y) < Rank(x)
  <2>1. CASE cc.tx = None /\ x.tx = None
    <3>1. /\ x.pc \in {"nfts", "objects"} => Rank(x) = 3 * MaxPolls + 7
          /\ x.pc = "sells" => Rank(x) = 3 * MaxPolls + 6
          /\ x.pc = "info" => Rank(x) = 3 * MaxPolls + 5
          /\ x.pc = "fields" => Rank(x) = 3 * MaxPolls + 4
      BY <2>1, RankBefore
    <3>2. /\ y.pc = "sells" => Rank(y) = 3 * MaxPolls + 6
          /\ y.pc = "info" => Rank(y) = 3 * MaxPolls + 5
          /\ y.pc = "fields" => Rank(y) = 3 * MaxPolls + 4
          /\ y.pc = "submit" => Rank(y) = 3 * MaxPolls + 1
      BY <1>4, <2>1, RankBefore
    <3>3. x.pc \in {"consume", "late"} => Rank(x) = 3 * MaxPolls + 2
      BY RankBefore
    <3> QED BY <1>2, <1>4, <2>1, <3>1, <3>2, <3>3
  <2>2. CASE m = "submit"
    <3>1. Rank(y) = 3 * MaxPolls + 1
      BY <1>4, <2>2, RankBefore
    <3>2. Rank(x) \in {3 * MaxPolls + 4, 3 * MaxPolls + 2}
      BY <1>2, <2>2, RankBefore
    <3> QED BY <1>4, <3>1, <3>2
  <2>3. CASE m = "tx" /\ x.pc = "submit"
    <3>1. Rank(y) = 3 * (MaxPolls - 1) + 3
      BY <1>2, <1>4, <2>3, RankAfter
    <3>2. Rank(x) = 3 * MaxPolls + 1
      BY <2>3, RankBefore
    <3> QED BY <1>4, <3>1, <3>2
  <2>4. CASE cc.tx # None /\ x.tx # None /\ x.pc \in {"tx", "objects", "sells"}
    <3>1. /\ x.pc = "tx" => Rank(x) = 3 * (MaxPolls - x.polls) + 3
          /\ x.pc = "objects" => Rank(x) = 3 * (MaxPolls - x.polls) + 2
          /\ x.pc = "sells" => Rank(x) = 3 * (MaxPolls - x.polls) + 1
      BY <2>4, RankAfter
    <3>2. /\ y.pc = "tx" => Rank(y) = 3 * (MaxPolls - y.polls) + 3
          /\ y.pc = "objects" => Rank(y) = 3 * (MaxPolls - y.polls) + 2
          /\ y.pc = "sells" => Rank(y) = 3 * (MaxPolls - y.polls) + 1
      BY <1>4, <2>4, RankAfter
    <3> QED BY <1>2, <1>4, <2>4, <3>1, <3>2
  <2> QED BY <1>2, <2>1, <2>2, <2>3, <2>4
<1> QED BY <1>1, <1>2, <1>3, <1>5 DEF Drops

\* The next attempt of a polling loop is one attempt less ahead.
LEMMA PollDrops ==
  ASSUME IInv, NEW c \in Calls, NEW rest, PollAgain(c, rest), call[c].tx # None,
         call[c].pc \in {"tx", "objects", "sells"}
  PROVE  Drops(c)
<1>1. CASE call[c].polls < MaxPolls
  <2>1. PICK r : r = [call[c] EXCEPT !.polls = @ + 1]
    OBVIOUS
  <2>2. call[c] \in CallType /\ "tx" \in Requests
    BY DEF IInv, CallInv, Requests
  <2>3. call[c].polls + 1 \in 0..MaxPolls
    BY <1>1, <2>2, WalletTxAssumption DEF CallType
  <2>4. r \in CallType /\ r.tx = call[c].tx /\ r.polls = call[c].polls + 1
    BY <2>1, <2>2, <2>3 DEF CallType
  <2>5. Ask(c, r, "tx", rest)
    BY <1>1, <2>1 DEF PollAgain
  <2> QED BY <2>2, <2>4, <2>5, AskDrops
<1>2. CASE ~(call[c].polls < MaxPolls)
  BY <1>2, ReturnDrops DEF PollAgain
<1> QED BY <1>1, <1>2

\* A search for offers that found none.
LEMMA NotFoundDrops ==
  ASSUME IInv, NEW c \in Calls, NEW rest, NotFound(c, rest), call[c].pc \in {"objects", "sells"}
  PROVE  Drops(c)
<1>1. call[c] \in CallType /\ "info" \in Requests
  BY DEF IInv, CallInv, Requests
<1>2. CASE call[c].tx = None
  BY <1>1, <1>2, AskDrops DEF NotFound
<1>3. CASE call[c].tx # None
  BY <1>3, PollDrops DEF NotFound
<1> QED BY <1>2, <1>3

\* The answers before the submit.
LEMMA LookupDrops ==
  ASSUME IInv, NEW c \in Calls, NEW q \in wire,
         OnNfts(c, q) \/ OnObjects(c, q) \/ OnSells(c, q) \/ OnInfo(c, q)
  PROVE  Drops(c)
<1>1. /\ call[c] \in CallType /\ CallOk(call[c])
      /\ "info" \in Requests /\ "sells" \in Requests /\ "fields" \in Requests
  BY DEF IInv, CallInv, Requests
<1>2. CASE Return(c)
  BY <1>2, ReturnDrops
<1>3. CASE OnNfts(c, q) /\ ~Return(c)
  <2>1. call[c].pc = "nfts" /\ call[c].tx = None /\ Ask(c, call[c], "info", Others(q))
    BY <1>1, <1>3 DEF OnNfts, Arrived, CallOk
  <2> QED BY <1>1, <2>1, AskDrops
<1>4. CASE OnObjects(c, q) /\ ~Return(c)
  <2>1. call[c].pc = "objects" /\ Ask(c, call[c], "sells", Others(q))
    BY <1>4 DEF OnObjects, Arrived, Confirm
  <2> QED BY <1>1, <2>1, AskDrops
<1>5. CASE OnSells(c, q) /\ ~Return(c)
  <2>1. call[c].pc = "sells" /\ NotFound(c, Others(q))
    BY <1>5 DEF OnSells, Arrived, Confirm
  <2> QED BY <2>1, NotFoundDrops
<1>6. CASE OnInfo(c, q)
  <2>1. PICK r : r = [call[c] EXCEPT !.seq = q.ans.seq, !.bal = q.ans.bal]
    OBVIOUS
  <2>2. /\ call[c].pc = "info" /\ Ask(c, r, "fields", Others(q)) /\ call[c].tx = None
        /\ Arrived(c, q, "info")
    BY <1>1, <1>6, <2>1 DEF OnInfo, Arrived, CallOk
  <2>3. q.ans \in AnswerType
    BY <1>1, <2>2, ArrivedFacts
  <2>4. r \in CallType /\ r.tx = call[c].tx
    BY <1>1, <2>1, <2>3 DEF CallType, AnswerType
  <2> QED BY <1>1, <2>2, <2>4, AskDrops
<1> QED BY <1>2, <1>3, <1>4, <1>5, <1>6

\* Signing and the submit.
LEMMA OnFieldsDrops ==
  ASSUME IInv, NEW c \in Calls, NEW q \in wire, OnFields(c, q)
  PROVE  Drops(c)
<1>1. /\ call[c] \in CallType /\ CallOk(call[c]) /\ "submit" \in Requests
      /\ call[c].pc = "fields" /\ Arrived(c, q, "fields") /\ call \in [Calls -> CallType]
  BY DEF IInv, CallInv, Requests, OnFields, Arrived
<1>2. call[c].tx = None
  BY <1>1 DEF CallOk
<1>3. CASE Return(c)
  BY <1>3, ReturnDrops
<1>4. CASE ~Return(c)
  <2>1. PICK tx : tx = Sign(call[c], q.ans)
    OBVIOUS
  <2>2. PICK r : r = [call[c] EXCEPT !.tx = tx]
    OBVIOUS
  <2>3. /\ Spendable(call[c])
        /\ \/ Ask(c, r, "submit", Others(q))
           \/ call' = [call EXCEPT ![c] = [r EXCEPT !.pc = "read"]]
    BY <1>4, <2>1, <2>2 DEF OnFields
  <2>4. tx \in Signed(Intents)
    BY <1>1, <2>1, <2>3, SignFacts
  <2>5. r \in CallType
    BY <1>1, <2>2, <2>4, SignedCall
  <2>6. CASE Ask(c, r, "submit", Others(q))
    BY <1>1, <1>2, <2>5, <2>6, AskDrops
  <2>7. CASE call' = [call EXCEPT ![c] = [r EXCEPT !.pc = "read"]]
    <3>1. PICK s : s = [r EXCEPT !.pc = "read"]
      OBVIOUS
    <3>2. s.pc = "read"
      BY <2>5, <3>1 DEF CallType
    <3>3. call'[c] = s /\ \A d \in Calls \ {c} : call'[d] = call[d]
      BY <1>1, <2>7, <3>1
    <3>4. Rank(s) = 3 * MaxPolls + 3
      BY <3>2, RankBefore
    <3>5. Rank(call[c]) = 3 * MaxPolls + 4
      BY <1>1, <1>2, RankBefore
    <3>6. Rank(s) < Rank(call[c])
      BY <3>4, <3>5, WalletTxAssumption
    <3> QED BY <3>3, <3>6 DEF Drops
  <2> QED BY <2>3, <2>6, <2>7
<1> QED BY <1>3, <1>4

\* The two halves of consume_signed_xrpl_tx_blob.
LEMMA ConsumeDrops ==
  ASSUME IInv, NEW c \in Calls, ReadWallet(c) \/ Consume(c)
  PROVE  Drops(c)
<1>1. /\ call[c] \in CallType /\ CallOk(call[c]) /\ "submit" \in Requests
      /\ call \in [Calls -> CallType]
  BY DEF IInv, CallInv, Requests
<1>2. CASE Return(c)
  BY <1>2, ReturnDrops
<1>3. CASE ReadWallet(c) /\ ~Return(c)
  <2>1. /\ call[c].pc = "read"
        /\ \E pc \in {"consume", "late"} : call' = [call EXCEPT ![c].pc = pc, ![c].acct = wallet]
    BY <1>3 DEF ReadWallet
  <2>0. PICK pc \in {"consume", "late"} : call' = [call EXCEPT ![c].pc = pc, ![c].acct = wallet]
    BY <2>1
  <2>2. PICK r : r = [call[c] EXCEPT !.pc = pc, !.acct = wallet]
    OBVIOUS
  <2>3. r.pc \in {"consume", "late"}
    BY <1>1, <2>2 DEF CallType
  <2>4. call'[c] = r /\ \A d \in Calls \ {c} : call'[d] = call[d]
    BY <1>1, <2>0, <2>2
  <2>5. Rank(r) = 3 * MaxPolls + 2
    BY <2>3, RankBefore
  <2>6. Rank(call[c]) = 3 * MaxPolls + 3
    BY <2>1, RankBefore
  <2>7. Rank(r) < Rank(call[c])
    BY <2>5, <2>6, WalletTxAssumption
  <2> QED BY <2>4, <2>7 DEF Drops
<1>4. CASE Consume(c) /\ ~Return(c)
  <2>1. call[c].pc \in {"consume", "late"} /\ Ask(c, call[c], "submit", wire)
    BY <1>4 DEF Consume
  <2> QED BY <1>1, <2>1, AskDrops
<1> QED BY <1>2, <1>3, <1>4

\* The answers to the submit.
LEMMA OnSubmitDrops ==
  ASSUME IInv, NEW c \in Calls, NEW q \in wire,
         \/ OnMintSubmit(c, q) \/ OnOfferSubmit(c, q) \/ OnClaimSubmit(c, q)
         \/ OnBurnSubmit(c, q) \/ OnPaySubmit(c, q)
  PROVE  Drops(c)
<1>1. /\ call[c] \in CallType /\ CallOk(call[c]) /\ "tx" \in Requests /\ call[c].pc = "submit"
  BY DEF IInv, CallInv, Requests, OnMintSubmit, OnOfferSubmit, OnClaimSubmit, OnBurnSubmit,
         OnPaySubmit, Arrived
<1>2. CASE Return(c)
  BY <1>2, ReturnDrops
<1>3. CASE ~Return(c)
  <2>1. PICK r : r = [call[c] EXCEPT !.polls = 1]
    OBVIOUS
  <2>2. Ask(c, r, "tx", Others(q))
    BY <1>3, <2>1 DEF OnMintSubmit, OnOfferSubmit, OnClaimSubmit, OnBurnSubmit, OnPaySubmit,
                      AwaitAccepted
  <2>3. r \in CallType /\ r.tx = call[c].tx /\ r.polls = 1
    BY <1>1, <2>1, WalletTxAssumption DEF CallType
  <2>4. r.tx # None
    BY <1>1, <2>3 DEF CallOk
  <2> QED BY <1>1, <2>2, <2>3, <2>4, AskDrops
<1> QED BY <1>2, <1>3

\* The answers of the polling loops.
LEMMA OnTxDrops ==
  ASSUME IInv, NEW c \in Calls, NEW q \in wire,
         OnMintTx(c, q) \/ OnOfferTx(c, q) \/ OnClaimTx(c, q) \/ OnBurnTx(c, q)
  PROVE  Drops(c)
<1>1. /\ call[c] \in CallType /\ CallOk(call[c]) /\ "objects" \in Requests /\ call[c].pc = "tx"
  BY DEF IInv, CallInv, Requests, OnMintTx, OnOfferTx, OnClaimTx, OnBurnTx, Arrived
<1>2. call[c].tx # None
  BY <1>1 DEF CallOk
<1>3. CASE Return(c)
  BY <1>3, ReturnDrops
<1>4. CASE PollAgain(c, Others(q))
  BY <1>1, <1>2, <1>4, PollDrops
<1>5. CASE Ask(c, call[c], "objects", Others(q))
  BY <1>1, <1>2, <1>5, AskDrops
<1> QED BY <1>3, <1>4, <1>5 DEF OnMintTx, OnOfferTx, OnClaimTx, OnBurnTx, Confirm, EraseVault

\* A request that is given up.
LEMMA TimeoutDrops ==
  ASSUME IInv, NEW c \in Calls, Timeout(c)
  PROVE  Drops(c)
<1>1. call[c] \in CallType /\ CallOk(call[c]) /\ "objects" \in Requests
  BY DEF IInv, CallInv, Requests
<1>2. CASE call[c].pc \in {"objects", "sells"}
  BY <1>2, NotFoundDrops DEF Timeout
<1>3. CASE call[c].pc = "tx"
  <2>1. call[c].tx # None
    BY <1>1, <1>3 DEF CallOk
  <2>2. Ask(c, call[c], "objects", wire) \/ PollAgain(c, wire)
    BY <1>3 DEF Timeout
  <2> QED BY <1>1, <1>3, <2>1, <2>2, AskDrops, PollDrops
<1>4. CASE call[c].pc \notin {"objects", "sells", "tx"}
  BY <1>4, ReturnDrops DEF Timeout
<1> QED BY <1>2, <1>3, <1>4

\* Every step of a command brings it closer to its end.
LEMMA WorkDrops ==
  ASSUME IInv, NEW c \in Calls, Work(c)
  PROVE  Drops(c)
<1>1. CASE Handle(c)
  BY <1>1, LookupDrops, OnFieldsDrops, OnSubmitDrops, OnTxDrops DEF Handle
<1>2. CASE Timeout(c) \/ ReadWallet(c) \/ Consume(c)
  BY <1>2, TimeoutDrops, ConsumeDrops
<1> QED BY <1>1, <1>2 DEF Work

\* A command that starts disturbs no other.
LEMMA StartDrops ==
  ASSUME IInv, NEW c \in Calls, Start(c)
  PROVE  call[c] = Idle /\ \A d \in Calls \ {c} : call'[d] = call[d]
<1>1. call[c] = Idle /\ \E r : call' = [call EXCEPT ![c] = r]
  BY DEF Start, Mint, CreateTransferOffer, ClaimNft, DeleteVault, SendXrpPayment, SubmitBlob,
         Started, Ask
<1> QED BY <1>1 DEF IInv, CallInv

\* No order of answers, timeouts and late answers brings a command back to a
\* request it has done (request_with_id and the polling loops of xrpl/client.rs).
THEOREM CommandsEnd == Spec => CommandsRunOut
<1>1. IInv /\ [Next]_vars
      => [\A c \in Calls : call[c] # Idle /\ call'[c] # Idle /\ call'[c] # call[c]
                             => Rank(call'[c]) < Rank(call[c])]_vars
  <2> SUFFICES ASSUME IInv, [Next]_vars, NEW c \in Calls,
                      call[c] # Idle, call'[c] # Idle, call'[c] # call[c]
               PROVE  Rank(call'[c]) < Rank(call[c])
    OBVIOUS
  <2>1. PICK d \in Calls : Start(d) \/ Work(d)
    BY DEF Next, Node, NodeReads, NodeSubmits, FeeEscalated, Lose, LateAnswer, Validate, EmptyLedger,
           SignIn, SignOut, Expire, vars
  <2>2. d = c /\ Work(c)
    BY <2>1, StartDrops, WorkDrops DEF Drops
  <2> QED BY <2>2, WorkDrops DEF Drops
<1> QED BY <1>1, Invariance, PTL DEF Spec, CommandsRunOut
=============================================================================
