-------------------------- MODULE TransfersProofs --------------------------
(* Proofs about Transfers, for any users, transfers and handlers. *)
EXTENDS Transfers, TLAPS

\* What a task knows at its next statement: the row it writes to exists, a transfer
\* that is being completed is confirmed, and the owner a synchronisation is about
\* to record has held the token.
OnCourse(r) ==
  /\ r.pc = "insert" => r.user \in Users /\ r.to \in Users /\ r.key \in KeyType
  /\ r.pc \in {"confirm_nft", "confirm_transfer"} =>
       r.id \in Ids /\ tr[r.id] # None /\ r.offer \in Offers
  /\ r.pc \in {"complete_nft", "complete_transfer", "finalize", "cancel_transfer", "cancel_nft"} =>
       r.id \in Ids /\ tr[r.id] # None
  /\ r.pc = "complete_nft" =>
       Confirmed(r.id) /\ r.to = tr[r.id].to /\ r.key = tr[r.id].key
  /\ r.pc = "update" => r.to \in Users /\ r.to \in held

JobInv == \A h \in Tasks : OnCourse(job[h])

\* A transfer's key is for its recipient, and one with status `completed' has been
\* confirmed by its sender.
TransferInv ==
  \A t \in Ids : tr[t] # None =>
    tr[t].key.to = tr[t].to /\ (tr[t].status = "completed" => Confirmed(t))

\* A command that is reading has seen the present holder; past the check of the
\* ledger it has seen its own wallet.
ReaderInv ==
  /\ reader # NoRead => holder \in reader.seen
  /\ reader.pc \in {"key", "fetch", "unwrap", "opened"} => reader.user \in reader.seen

IInv == /\ TypeOK /\ JobInv /\ TransferInv /\ ReaderInv
        /\ holder \in held /\ OwnerHeldOrNamed /\ KeyOfConfirmed

\* The initial states satisfy the inductive invariant.
LEMMA InitIInv == Init => IInv
<1> SUFFICES ASSUME Init PROVE IInv
  OBVIOUS
<1>1. Idle \in JobType /\ Idle.pc = "idle"
  BY DEF Idle, JobType, Points
<1>2. NoRead \in ReaderType /\ NoRead.pc = "idle"
  BY DEF NoRead, ReaderType
<1>3. nft \in [owner : Users, key : KeyType, status : {"active", "transferring"}]
  BY TransferAssumption DEF Init, KeyType
<1>4. TypeOK
  BY <1>1, <1>2, <1>3, TransferAssumption DEF Init, TypeOK, Wallets
<1>5. JobInv
  BY <1>1 DEF Init, JobInv, OnCourse
<1>6. TransferInv /\ holder \in held /\ OwnerHeldOrNamed /\ KeyOfConfirmed
  BY DEF Init, TransferInv, OwnerHeldOrNamed, KeyOfConfirmed
<1>7. ReaderInv
  BY <1>2 DEF Init, ReaderInv
<1> QED BY <1>4, <1>5, <1>6, <1>7 DEF IInv

-----------------------------------------------------------------------------

\* Transfers keep their parties and their key, a confirmed one stays confirmed, and
\* wallets that have held the token stay remembered.
Grows ==
  /\ \A t \in Ids : tr[t] # None =>
       /\ tr'[t] # None /\ tr'[t].to = tr[t].to /\ tr'[t].key = tr[t].key
       /\ Confirmed(t) => Confirmed(t)'
  /\ held \subseteq held'

\* So what one task knows is not made wrong by another's step ...
LEMMA StaysOnCourse ==
  ASSUME Grows
  PROVE  \A r \in JobType : OnCourse(r) => OnCourse(r)'
<1> SUFFICES ASSUME NEW r \in JobType, OnCourse(r) PROVE OnCourse(r)'
  OBVIOUS
<1>1. r.pc \in {"confirm_nft", "confirm_transfer"} =>
        r.id \in Ids /\ tr'[r.id] # None /\ r.offer \in Offers
  BY DEF OnCourse, Grows
<1>2. r.pc \in {"complete_nft", "complete_transfer", "finalize", "cancel_transfer", "cancel_nft"} =>
        r.id \in Ids /\ tr'[r.id] # None
  BY DEF OnCourse, Grows
<1>3. r.pc = "complete_nft" =>
        Confirmed(r.id)' /\ r.to = tr'[r.id].to /\ r.key = tr'[r.id].key
  <2> SUFFICES ASSUME r.pc = "complete_nft"
               PROVE  Confirmed(r.id)' /\ r.to = tr'[r.id].to /\ r.key = tr'[r.id].key
    OBVIOUS
  <2>1. r.id \in Ids /\ tr[r.id] # None /\ Confirmed(r.id) /\ r.to = tr[r.id].to /\ r.key = tr[r.id].key
    BY DEF OnCourse
  <2>2. Confirmed(r.id)'
    BY <2>1 DEF Grows, Confirmed
  <2> QED BY <2>1, <2>2 DEF Grows
<1>4. /\ r.pc = "update" => r.to \in Users /\ r.to \in held'
      /\ r.pc = "insert" => r.user \in Users /\ r.to \in Users /\ r.key \in KeyType
  BY DEF OnCourse, Grows
<1> QED BY <1>1, <1>2, <1>3, <1>4 DEF OnCourse

\* ... and the owner and key of a row that is not written stay accounted for.
LEMMA StaysNamed ==
  ASSUME IInv, Grows, nft' = nft
  PROVE  OwnerHeldOrNamed' /\ KeyOfConfirmed'
<1>1. OwnerHeldOrNamed'
  <2>1. CASE nft.owner \in held
    BY <2>1 DEF OwnerHeldOrNamed, Grows
  <2>2. CASE \E t \in Ids : Confirmed(t) /\ tr[t].to = nft.owner
    <3>1. PICK t \in Ids : Confirmed(t) /\ tr[t].to = nft.owner
      BY <2>2
    <3>2. Confirmed(t)' /\ tr'[t].to = nft.owner
      BY <3>1 DEF Grows, Confirmed
    <3> QED BY <3>2 DEF OwnerHeldOrNamed, Confirmed
  <2> QED BY <2>1, <2>2 DEF IInv, OwnerHeldOrNamed
<1>2. KeyOfConfirmed'
  <2> SUFFICES ASSUME nft.key.to # None
               PROVE  \E t \in Ids : Confirmed(t)' /\ tr'[t].key = nft.key
    BY DEF KeyOfConfirmed, Confirmed
  <2>1. PICK t \in Ids : Confirmed(t) /\ tr[t].key = nft.key
    BY DEF IInv, KeyOfConfirmed
  <2>2. Confirmed(t)' /\ tr'[t].key = nft.key
    BY <2>1 DEF Grows, Confirmed
  <2> QED BY <2>2
<1> QED BY <1>1, <1>2

\* A step of one task that changes no table.
LEMMA JobStep ==
  ASSUME IInv, NEW h \in Tasks, NEW r \in JobType, job' = [job EXCEPT ![h] = r],
         OnCourse(r), drops' \in 0..MaxDrops, UNCHANGED <<nft, tr, ledger, clients>>
  PROVE  IInv'
<1>1. /\ job' \in [Tasks -> JobType] /\ job'[h] = r
      /\ \A k \in Tasks : k # h => job'[k] = job[k]
  BY DEF IInv, TypeOK
<1>2. TypeOK'
  BY <1>1 DEF IInv, TypeOK, ledger, clients
<1>3. \A k \in Tasks : OnCourse(job[k])'
  BY <1>1 DEF IInv, JobInv, OnCourse, Confirmed, ledger
<1>4. TransferInv' /\ ReaderInv' /\ (holder \in held)' /\ OwnerHeldOrNamed' /\ KeyOfConfirmed'
  BY DEF IInv, TransferInv, ReaderInv, OwnerHeldOrNamed, KeyOfConfirmed, Confirmed, ledger, clients
<1> QED BY <1>2, <1>3, <1>4 DEF IInv, JobInv

\* A statement that writes one transfer.
LEMMA TransferStep ==
  ASSUME IInv, NEW h \in Tasks, NEW r \in JobType, job' = [job EXCEPT ![h] = r],
         NEW t \in Ids, NEW x \in TransferType, tr' = [tr EXCEPT ![t] = x],
         r.pc = "idle" \/ (r.pc = "cancel_nft" /\ r.id = t),
         x.key.to = x.to, x.status = "completed" => x.offer # None \/ x.tx,
         tr[t] # None => /\ x.to = tr[t].to /\ x.key = tr[t].key
                         /\ Confirmed(t) => x.offer # None \/ x.tx,
         UNCHANGED <<nft, ledger, clients, drops>>
  PROVE  IInv'
<1>1. /\ job' \in [Tasks -> JobType] /\ job'[h] = r
      /\ \A k \in Tasks : k # h => job'[k] = job[k]
  BY DEF IInv, TypeOK
<1>2. /\ tr' \in [Ids -> TransferType \cup {None}] /\ tr'[t] = x
      /\ \A s \in Ids : s # t => tr'[s] = tr[s]
  BY DEF IInv, TypeOK
<1>3. x # None
  BY NoneAssumption
<1>4. TypeOK'
  BY <1>1, <1>2 DEF IInv, TypeOK, ledger, clients
<1>5. Grows
  BY <1>2, <1>3 DEF Grows, Confirmed, ledger
<1>6. \A k \in Tasks : OnCourse(job[k])'
  <2> SUFFICES ASSUME NEW k \in Tasks PROVE OnCourse(job[k])'
    OBVIOUS
  <2>1. CASE k = h
    BY <1>1, <1>2, <1>3, <2>1 DEF OnCourse
  <2>2. CASE k # h
    <3>1. job[k] \in JobType /\ OnCourse(job[k]) /\ job'[k] = job[k]
      BY <1>1, <2>2 DEF IInv, TypeOK, JobInv
    <3>2. \A z \in JobType : OnCourse(z) => OnCourse(z)'
      BY <1>5, StaysOnCourse
    <3> QED BY <3>1, <3>2 DEF OnCourse, Confirmed
  <2> QED BY <2>1, <2>2
<1>7. TransferInv'
  BY <1>2, <1>3 DEF IInv, TransferInv, Confirmed
<1>8. ReaderInv' /\ (holder \in held)'
  BY DEF IInv, ReaderInv, ledger, clients
<1>9. OwnerHeldOrNamed' /\ KeyOfConfirmed'
  BY <1>5, StaysNamed
<1> QED BY <1>4, <1>6, <1>7, <1>8, <1>9 DEF IInv, JobInv

\* A statement that writes the NFT's row.
LEMMA NftStep ==
  ASSUME IInv, NEW h \in Tasks, NEW r \in JobType, job' = [job EXCEPT ![h] = r], OnCourse(r),
         nft' \in [owner : Users, key : KeyType, status : {"active", "transferring"}],
         nft'.owner \in held \/ \E t \in Ids : Confirmed(t) /\ tr[t].to = nft'.owner,
         nft'.key.to # None => \E t \in Ids : Confirmed(t) /\ tr[t].key = nft'.key,
         UNCHANGED <<tr, ledger, clients, drops>>
  PROVE  IInv'
<1>1. /\ job' \in [Tasks -> JobType] /\ job'[h] = r
      /\ \A k \in Tasks : k # h => job'[k] = job[k]
  BY DEF IInv, TypeOK
<1>2. TypeOK'
  BY <1>1 DEF IInv, TypeOK, ledger, clients
<1>3. \A k \in Tasks : OnCourse(job[k])'
  BY <1>1 DEF IInv, JobInv, OnCourse, Confirmed, ledger
<1>4. TransferInv' /\ ReaderInv' /\ (holder \in held)'
  BY DEF IInv, TransferInv, ReaderInv, Confirmed, ledger, clients
<1>5. OwnerHeldOrNamed' /\ KeyOfConfirmed'
  BY DEF OwnerHeldOrNamed, KeyOfConfirmed, Confirmed, ledger
<1> QED BY <1>2, <1>3, <1>4, <1>5 DEF IInv, JobInv

-----------------------------------------------------------------------------

\* A task that ends.
LEMMA IdleJob == Idle \in JobType /\ OnCourse(Idle) /\ Idle.pc = "idle"
BY DEF Idle, JobType, Points, OnCourse

\* Requests read a row and go on to their next statement.
LEMMA RequestStep ==
  ASSUME IInv, NEW h \in Tasks, Request(h)
  PROVE  IInv'
<1>0. drops \in 0..MaxDrops
  BY DEF IInv, TypeOK
<1>1. ASSUME NEW u \in Users, NEW v \in Users, InitiateRead(h, u, v) PROVE IInv'
  <2> DEFINE r == [Idle EXCEPT !.pc = "insert", !.user = u, !.to = v, !.key = nft.key]
  <2>1. nft.key \in KeyType
    BY DEF IInv, TypeOK
  <2>2. r \in JobType /\ OnCourse(r)
    BY <2>1 DEF Idle, JobType, Points, OnCourse
  <2>3. job' = [job EXCEPT ![h] = r] /\ UNCHANGED <<nft, tr, ledger, clients, drops>>
    BY <1>1 DEF InitiateRead
  <2> QED BY <2>2, <2>3, <1>0, JobStep
<1>2. ASSUME NEW t \in Ids, NEW o \in Offers, ConfirmRead(h, t, o) PROVE IInv'
  <2> DEFINE r == [Idle EXCEPT !.pc = "confirm_nft", !.id = t, !.offer = o]
  <2>1. tr[t] # None
    BY <1>2 DEF ConfirmRead
  <2>2. r \in JobType /\ r.pc = "confirm_nft" /\ r.id = t /\ r.offer = o
    BY DEF Idle, JobType, Points
  <2>3. job' = [job EXCEPT ![h] = r] /\ UNCHANGED <<nft, tr, ledger, clients, drops>>
    BY <1>2 DEF ConfirmRead
  <2> HIDE DEF r
  <2>4. OnCourse(r)
    BY <2>1, <2>2 DEF OnCourse
  <2> QED BY <2>2, <2>3, <2>4, <1>0, JobStep
<1>3. ASSUME NEW t \in Ids, FinalizeRead(h, t) \/ CancelRead(h, t) PROVE IInv'
  <2>1. PICK pc \in {"finalize", "cancel_transfer"} :
          job' = [job EXCEPT ![h] = [Idle EXCEPT !.pc = pc, !.id = t]]
    BY <1>3 DEF FinalizeRead, CancelRead
  <2> DEFINE r == [Idle EXCEPT !.pc = pc, !.id = t]
  <2>2. r \in JobType /\ r.pc = pc /\ r.id = t
    BY DEF Idle, JobType, Points
  <2>3. UNCHANGED <<nft, tr, ledger, clients, drops>> /\ tr[t] # None
    BY <1>3 DEF FinalizeRead, CancelRead
  <2> HIDE DEF r
  <2>4. OnCourse(r)
    BY <2>2, <2>3 DEF OnCourse
  <2>5. job' = [job EXCEPT ![h] = r]
    BY <2>1 DEF r
  <2> QED BY <2>2, <2>3, <2>4, <2>5, <1>0, JobStep
<1>4. ASSUME NEW t \in Ids, CompleteRead(h, t) PROVE IInv'
  <2>1. /\ tr[t] # None /\ tr[t].status = "completed" /\ job' = [job EXCEPT ![h] = Completing(t)]
        /\ UNCHANGED <<nft, tr, ledger, clients, drops>>
    BY <1>4 DEF CompleteRead
  <2>2. tr[t] \in TransferType /\ tr[t].to \in Users /\ tr[t].key \in KeyType /\ Confirmed(t)
    BY <2>1 DEF IInv, TypeOK, TransferInv, TransferType
  <2>3. /\ Completing(t) \in JobType /\ Completing(t).pc = "complete_nft" /\ Completing(t).id = t
        /\ Completing(t).to = tr[t].to /\ Completing(t).key = tr[t].key
    BY <2>2 DEF Completing, Idle, JobType, Points
  <2>4. OnCourse(Completing(t))
    BY <2>1, <2>2, <2>3 DEF OnCourse
  <2> QED BY <1>0, <2>1, <2>3, <2>4, JobStep
<1> QED BY <1>1, <1>2, <1>3, <1>4 DEF Request

\* The synchronisation, up to its UPDATE: the owner it has found held the token.
LEMMA SyncStep ==
  ASSUME IInv, NEW h \in Tasks, SyncRead(h) \/ SyncVerify(h) \/ SyncScan(h)
  PROVE  IInv'
<1>0. job[h] \in JobType /\ drops \in 0..MaxDrops /\ nft.owner \in Users /\ holder \in held
  BY DEF IInv, TypeOK
<1>1. UNCHANGED <<nft, tr, ledger, clients, drops>>
  BY DEF SyncRead, SyncVerify, SyncScan
<1>2. CASE SyncRead(h)
  <2> DEFINE r == [Idle EXCEPT !.pc = "verify", !.user = nft.owner]
  <2>1. r \in JobType /\ OnCourse(r)
    BY <1>0 DEF Idle, JobType, Points, OnCourse
  <2>2. job' = [job EXCEPT ![h] = r]
    BY <1>2 DEF SyncRead
  <2> QED BY <1>1, <2>1, <2>2, <1>0, JobStep
<1>3. CASE Done(h)
  BY <1>0, <1>1, <1>3, IdleJob, JobStep DEF Done
<1>4. CASE job' = [job EXCEPT ![h].pc = "scan"]
  <2> DEFINE r == [job[h] EXCEPT !.pc = "scan"]
  <2>1. r \in JobType /\ r.pc = "scan"
    BY <1>0 DEF JobType, Points
  <2>2. job' = [job EXCEPT ![h] = r]
    BY <1>4
  <2>3. OnCourse(r)
    BY <2>1 DEF OnCourse
  <2> QED BY <1>1, <2>1, <2>2, <2>3, <1>0, JobStep
<1>5. ASSUME NEW w \in Users, holder = w, Found(h, w) PROVE IInv'
  <2> DEFINE r == [job[h] EXCEPT !.pc = "update", !.to = w]
  <2>0. w \in Users /\ w \in held
    BY <1>0, <1>5
  <2>1. r \in JobType /\ r.pc = "update" /\ r.to = w
    BY <1>0, <2>0 DEF JobType, Points
  <2>2. job' = [job EXCEPT ![h] = r]
    BY <1>5 DEF Found
  <2>3. OnCourse(r)
    BY <2>0, <2>1 DEF OnCourse
  <2> QED BY <1>1, <2>1, <2>2, <2>3, <1>0, JobStep
<1>6. CASE SyncVerify(h)
  BY <1>3, <1>4, <1>6 DEF SyncVerify
<1>7. CASE SyncScan(h)
  BY <1>3, <1>5, <1>7 DEF SyncScan
<1> QED BY <1>2, <1>6, <1>7

\* The statements that write a transfer keep its parties and its key.
LEMMA WriteTransferStep ==
  ASSUME IInv, NEW h \in Tasks,
         \/ InitiateInsert(h) \/ ConfirmTransfer(h) \/ CompleteTransfer(h)
         \/ FinalizeWrite(h) \/ CancelTransfer(h)
  PROVE  IInv'
<1>0. job[h] \in JobType /\ OnCourse(job[h])
  BY DEF IInv, TypeOK, JobInv
<1>1. CASE InitiateInsert(h)
  <2>1. PICK t \in Ids :
          /\ tr[t] = None
          /\ tr' = [tr EXCEPT ![t] =
               [from |-> job[h].user, to |-> job[h].to, status |-> "pending",
                key |-> ReEncrypt(job[h].key, job[h].user, job[h].to),
                offer |-> None, tx |-> FALSE, got |-> FALSE]]
    BY <1>1 DEF InitiateInsert
  <2> DEFINE x == [from |-> job[h].user, to |-> job[h].to, status |-> "pending",
                   key |-> ReEncrypt(job[h].key, job[h].user, job[h].to),
                   offer |-> None, tx |-> FALSE, got |-> FALSE]
  <2>2. job[h].user \in Users /\ job[h].to \in Users /\ job[h].key \in KeyType
    BY <1>0, <1>1 DEF InitiateInsert, OnCourse
  <2>3. /\ ReEncrypt(job[h].key, job[h].user, job[h].to) \in KeyType
        /\ ReEncrypt(job[h].key, job[h].user, job[h].to).to = job[h].to
    BY <2>2 DEF ReEncrypt, KeyType
  <2>4. x \in TransferType /\ x.key.to = x.to /\ x.status = "pending"
    BY <2>2, <2>3 DEF TransferType
  <2>5. tr' = [tr EXCEPT ![t] = x]
    BY <2>1
  <2>6. job' = [job EXCEPT ![h] = Idle] /\ UNCHANGED <<nft, ledger, clients, drops>>
    BY <1>1 DEF InitiateInsert, Done
  <2>7. tr[t] = None
    BY <2>1
  <2> HIDE DEF x
  <2> QED BY <2>4, <2>5, <2>6, <2>7, IdleJob, TransferStep
<1>2. ASSUME NEW id \in Ids, tr[id] # None PROVE tr[id] \in TransferType /\ tr[id].key.to = tr[id].to
  BY <1>2 DEF IInv, TypeOK, TransferInv
<1>3. CASE ConfirmTransfer(h)
  <2> DEFINE t == job[h].id
             o == job[h].offer
             x == [tr[t] EXCEPT !.status = "completed", !.offer = o]
  <2>1. t \in Ids /\ tr[t] # None /\ o \in Offers /\ o # None
    BY <1>0, <1>3, TransferAssumption DEF ConfirmTransfer, OnCourse
  <2>2. tr[t] \in TransferType /\ tr[t].key.to = tr[t].to
    BY <1>2, <2>1
  <2>3. x \in TransferType /\ x.key.to = x.to /\ x.offer = o /\ x.key = tr[t].key /\ x.to = tr[t].to
    BY <2>1, <2>2 DEF TransferType
  <2>4. tr' = [tr EXCEPT ![t] = x] /\ job' = [job EXCEPT ![h] = Idle]
        /\ UNCHANGED <<nft, ledger, clients, drops>>
    BY <1>3 DEF ConfirmTransfer, Done
  <2> HIDE DEF x, t, o
  <2> QED BY <2>1, <2>3, <2>4, IdleJob, TransferStep
<1>4. CASE CompleteTransfer(h)
  <2> DEFINE t == job[h].id
             x == [tr[t] EXCEPT !.status = "completed", !.tx = TRUE,
                                !.got = tr[t].got \/ holder = tr[t].to]
  <2>1. t \in Ids /\ tr[t] # None
    BY <1>0, <1>4 DEF CompleteTransfer, OnCourse
  <2>2. tr[t] \in TransferType /\ tr[t].key.to = tr[t].to
    BY <1>2, <2>1
  <2>3. x \in TransferType /\ x.key.to = x.to /\ x.tx /\ x.key = tr[t].key /\ x.to = tr[t].to
    BY <2>1, <2>2 DEF TransferType
  <2>4. tr' = [tr EXCEPT ![t] = x] /\ job' = [job EXCEPT ![h] = Idle]
        /\ UNCHANGED <<nft, ledger, clients, drops>>
    BY <1>4 DEF CompleteTransfer, Done
  <2> HIDE DEF x, t
  <2> QED BY <2>1, <2>3, <2>4, IdleJob, TransferStep
<1>5. CASE FinalizeWrite(h)
  <2> DEFINE t == job[h].id
             x == [tr[t] EXCEPT !.status = "completed", !.tx = TRUE, !.offer = None]
  <2>1. t \in Ids /\ tr[t] # None
    BY <1>0, <1>5 DEF FinalizeWrite, OnCourse
  <2>2. tr[t] \in TransferType /\ tr[t].key.to = tr[t].to
    BY <1>2, <2>1
  <2>3. x \in TransferType /\ x.key.to = x.to /\ x.tx /\ x.key = tr[t].key /\ x.to = tr[t].to
    BY <2>1, <2>2 DEF TransferType
  <2>4. tr' = [tr EXCEPT ![t] = x] /\ job' = [job EXCEPT ![h] = Idle]
        /\ UNCHANGED <<nft, ledger, clients, drops>>
    BY <1>5 DEF FinalizeWrite, Done
  <2> HIDE DEF x, t
  <2> QED BY <2>1, <2>3, <2>4, IdleJob, TransferStep
<1>6. CASE CancelTransfer(h)
  <2> DEFINE t == job[h].id
             x == [tr[t] EXCEPT !.status = "cancelled"]
             r == [job[h] EXCEPT !.pc = "cancel_nft"]
  <2>1. t \in Ids /\ tr[t] # None
    BY <1>0, <1>6 DEF CancelTransfer, OnCourse
  <2>2. tr[t] \in TransferType /\ tr[t].key.to = tr[t].to
    BY <1>2, <2>1
  <2>3. /\ x \in TransferType /\ x.key.to = x.to /\ x.key = tr[t].key /\ x.to = tr[t].to
        /\ x.offer = tr[t].offer /\ x.tx = tr[t].tx /\ x.status = "cancelled"
    BY <2>1, <2>2 DEF TransferType
  <2>4. r \in JobType /\ r.pc = "cancel_nft" /\ r.id = t
    BY <1>0 DEF JobType, Points
  <2>5. tr' = [tr EXCEPT ![t] = x] /\ job' = [job EXCEPT ![h] = r]
        /\ UNCHANGED <<nft, ledger, clients, drops>>
    BY <1>6 DEF CancelTransfer
  <2>6. Confirmed(t) => x.offer # None \/ x.tx
    BY <2>3 DEF Confirmed
  <2> HIDE DEF x, t, r
  <2> QED BY <2>1, <2>3, <2>4, <2>5, <2>6, TransferStep
<1> QED BY <1>1, <1>3, <1>4, <1>5, <1>6

\* The statements that write the NFT's row.
LEMMA WriteNftStep ==
  ASSUME IInv, NEW h \in Tasks,
         ConfirmNft(h) \/ CompleteNft(h) \/ CancelNft(h) \/ SyncUpdate(h)
  PROVE  IInv'
<1>0. /\ job[h] \in JobType /\ OnCourse(job[h])
      /\ nft \in [owner : Users, key : KeyType, status : {"active", "transferring"}]
      /\ nft.owner \in held \/ \E t \in Ids : Confirmed(t) /\ tr[t].to = nft.owner
      /\ nft.key.to # None => \E t \in Ids : Confirmed(t) /\ tr[t].key = nft.key
  BY DEF IInv, TypeOK, JobInv, OwnerHeldOrNamed, KeyOfConfirmed
<1>1. UNCHANGED <<tr, ledger, clients, drops>>
  BY DEF ConfirmNft, CompleteNft, CancelNft, SyncUpdate
<1>2. CASE ConfirmNft(h)
  <2> DEFINE r == [job[h] EXCEPT !.pc = "confirm_transfer"]
  <2>1. r \in JobType /\ r.pc = "confirm_transfer" /\ r.id = job[h].id /\ r.offer = job[h].offer
    BY <1>0 DEF JobType, Points
  <2>2. job[h].pc = "confirm_nft" /\ job' = [job EXCEPT ![h] = r]
    BY <1>2 DEF ConfirmNft
  <2>3. /\ nft' \in [owner : Users, key : KeyType, status : {"active", "transferring"}]
        /\ nft'.owner = nft.owner /\ nft'.key = nft.key
    BY <1>0, <1>2 DEF ConfirmNft
  <2> HIDE DEF r
  <2>4. OnCourse(r)
    BY <1>0, <2>1, <2>2 DEF OnCourse
  <2> QED BY <1>0, <1>1, <2>1, <2>2, <2>3, <2>4, NftStep
<1>3. CASE CompleteNft(h)
  <2> DEFINE r == [job[h] EXCEPT !.pc = "complete_transfer"]
  <2>1. r \in JobType /\ r.pc = "complete_transfer" /\ r.id = job[h].id
    BY <1>0 DEF JobType, Points
  <2>2. job[h].pc = "complete_nft" /\ job' = [job EXCEPT ![h] = r]
    BY <1>3 DEF CompleteNft
  <2>3. /\ job[h].id \in Ids /\ tr[job[h].id] # None /\ Confirmed(job[h].id)
        /\ job[h].to = tr[job[h].id].to /\ job[h].key = tr[job[h].id].key
        /\ job[h].to \in Users /\ job[h].key \in KeyType
    <3>1. /\ job[h].id \in Ids /\ tr[job[h].id] # None /\ Confirmed(job[h].id)
          /\ job[h].to = tr[job[h].id].to /\ job[h].key = tr[job[h].id].key
      BY <1>0, <2>2 DEF OnCourse
    <3>2. tr[job[h].id] \in TransferType
      BY <3>1 DEF IInv, TypeOK
    <3> QED BY <3>1, <3>2 DEF TransferType
  <2>4. /\ nft' \in [owner : Users, key : KeyType, status : {"active", "transferring"}]
        /\ nft'.owner = job[h].to /\ nft'.key = job[h].key
    BY <1>3, <2>3 DEF CompleteNft
  <2> HIDE DEF r
  <2>5. OnCourse(r)
    BY <2>1, <2>3 DEF OnCourse
  <2> QED BY <1>1, <2>1, <2>2, <2>3, <2>4, <2>5, NftStep
<1>4. CASE CancelNft(h)
  <2>1. /\ nft' \in [owner : Users, key : KeyType, status : {"active", "transferring"}]
        /\ nft'.owner = nft.owner /\ nft'.key = nft.key
        /\ job' = [job EXCEPT ![h] = Idle]
    BY <1>0, <1>4 DEF CancelNft, Done
  <2> QED BY <1>0, <1>1, <2>1, IdleJob, NftStep
<1>5. CASE SyncUpdate(h)
  <2>1. job[h].to \in Users /\ job[h].to \in held
    BY <1>0, <1>5 DEF SyncUpdate, OnCourse
  <2>2. /\ nft' \in [owner : Users, key : KeyType, status : {"active", "transferring"}]
        /\ nft'.owner = job[h].to /\ nft'.key = nft.key
        /\ job' = [job EXCEPT ![h] = Idle]
    BY <1>0, <1>5, <2>1 DEF SyncUpdate, Done
  <2> QED BY <1>0, <1>1, <2>1, <2>2, IdleJob, NftStep
<1> QED BY <1>2, <1>3, <1>4, <1>5

\* A step of the ledger: whoever holds the token is remembered, by a command that is reading too.
LEMMA LedgerStep ==
  ASSUME IInv, held \subseteq held', UNCHANGED <<nft, tr, job, drops, reads>>,
         offer' \in [Offers -> OfferType \cup {None}], moves' \in 0..MaxMoves,
         holder' \in Wallets, holder' \in held', held' \subseteq Wallets,
         \/ UNCHANGED <<reader, holder>>
         \/ Witness(holder')
  PROVE  IInv'
<1>1. reader' \in ReaderType /\ ReaderInv'
  <2>0. reader \in ReaderType /\ holder' \in Wallets
    BY DEF IInv, TypeOK
  <2>1. CASE UNCHANGED <<reader, holder>>
    BY <2>0, <2>1 DEF IInv, ReaderInv
  <2>2. CASE Witness(holder') /\ reader = NoRead
    BY <2>0, <2>2 DEF IInv, ReaderInv, Witness
  <2>3. CASE Witness(holder') /\ reader # NoRead
    <3>1. reader' = [reader EXCEPT !.seen = reader.seen \cup {holder'}]
      BY <2>3 DEF Witness
    <3>2. /\ reader' \in ReaderType /\ reader'.pc = reader.pc /\ reader'.user = reader.user
          /\ reader'.seen = reader.seen \cup {holder'}
      BY <2>0, <3>1 DEF ReaderType
    <3> QED BY <3>2 DEF IInv, ReaderInv
  <2> QED BY <2>1, <2>2, <2>3
<1>2. TypeOK'
  BY <1>1 DEF IInv, TypeOK
<1>3. Grows
  BY DEF Grows, Confirmed
<1>4. JobInv'
  <2> SUFFICES ASSUME NEW k \in Tasks PROVE OnCourse(job[k])'
    BY DEF JobInv
  <2>1. job[k] \in JobType /\ OnCourse(job[k]) /\ job'[k] = job[k]
    BY DEF IInv, TypeOK, JobInv
  <2>2. \A z \in JobType : OnCourse(z) => OnCourse(z)'
    BY <1>3, StaysOnCourse
  <2> QED BY <2>1, <2>2 DEF OnCourse, Confirmed
<1>5. TransferInv'
  BY DEF IInv, TransferInv, Confirmed
<1>6. OwnerHeldOrNamed' /\ KeyOfConfirmed'
  BY <1>3, StaysNamed
<1> QED BY <1>1, <1>2, <1>4, <1>5, <1>6 DEF IInv

\* The ledger.
LEMMA EnvironmentStep ==
  ASSUME IInv, Environment
  PROVE  IInv'
<1>0. /\ offer \in [Offers -> OfferType \cup {None}] /\ moves \in 0..MaxMoves
      /\ holder \in Wallets /\ holder \in held /\ held \subseteq Wallets
  BY DEF IInv, TypeOK
<1>1. ASSUME NEW o \in Offers, AcceptOffer(o) PROVE IInv'
  <2>1. offer[o] # None /\ offer[o] \in OfferType
    BY <1>0, <1>1 DEF AcceptOffer
  <2> DEFINE y == [offer[o] EXCEPT !.live = FALSE]
  <2>2. y \in OfferType /\ y.from = offer[o].from /\ y.to = offer[o].to /\ offer[o].to \in Users
    BY <2>1 DEF OfferType
  <2>4. offer' = [offer EXCEPT ![o] = y]
    BY <1>1 DEF AcceptOffer
  <2>5. /\ holder' = offer[o].to /\ held' = held \cup {offer[o].to}
        /\ Witness(offer[o].to) /\ UNCHANGED <<nft, tr, job, drops, moves, reads>>
    BY <1>1 DEF AcceptOffer
  <2> HIDE DEF y
  <2>6. offer' \in [Offers -> OfferType \cup {None}] /\ held \subseteq held'
    BY <1>0, <2>2, <2>4, <2>5
  <2>7. Witness(holder')
    BY <2>5
  <2>8. holder' \in Wallets /\ holder' \in held' /\ held' \subseteq Wallets /\ moves' \in 0..MaxMoves
    BY <1>0, <2>2, <2>5 DEF Wallets
  <2> QED BY <2>5, <2>6, <2>7, <2>8, LedgerStep
<1>2. ASSUME NEW o \in Offers, CancelOffer(o) PROVE IInv'
  <2>1. offer[o] # None /\ offer[o] \in OfferType
    BY <1>0, <1>2 DEF CancelOffer
  <2> DEFINE y == [offer[o] EXCEPT !.live = FALSE]
  <2>2. y \in OfferType /\ y.from = offer[o].from /\ y.to = offer[o].to
    BY <2>1 DEF OfferType
  <2>4. offer' = [offer EXCEPT ![o] = y] /\ UNCHANGED <<nft, tr, job, holder, moves, held, clients, drops>>
    BY <1>2 DEF CancelOffer
  <2> HIDE DEF y
  <2>5. offer' \in [Offers -> OfferType \cup {None}]
    BY <1>0, <2>2, <2>4
  <2> QED BY <1>0, <2>4, <2>5, LedgerStep DEF clients
<1>3. ASSUME NEW o \in Offers, NEW t \in Ids, CreateOffer(o, t) PROVE IInv'
  <2> DEFINE y == [from |-> tr[t].from, to |-> tr[t].to, live |-> TRUE]
  <2>1. tr[t] \in TransferType
    BY <1>3 DEF CreateOffer, IInv, TypeOK
  <2>2. y \in OfferType
    BY <2>1 DEF OfferType, TransferType
  <2>3. /\ offer[o] = None /\ offer' = [offer EXCEPT ![o] = y]
        /\ UNCHANGED <<nft, tr, job, holder, moves, held, clients, drops>>
    BY <1>3 DEF CreateOffer
  <2> HIDE DEF y
  <2>4. offer' \in [Offers -> OfferType \cup {None}]
    BY <1>0, <2>2, <2>3
  <2> QED BY <1>0, <2>3, <2>4, LedgerStep DEF clients
<1>4. ASSUME NEW w \in Wallets, ExternalMove(w) PROVE IInv'
  <2>1. /\ moves' \in 0..MaxMoves /\ holder' = w /\ held' = held \cup {w} /\ Witness(w)
        /\ UNCHANGED <<nft, tr, job, drops, offer, reads>>
    BY <1>0, <1>4, TransferAssumption DEF ExternalMove
  <2>2. held \subseteq held' /\ Witness(holder')
    BY <2>1
  <2> QED BY <1>0, <2>1, <2>2, LedgerStep
<1> QED BY <1>1, <1>2, <1>3, <1>4 DEF Environment

\* A step of a command that reads the file changes nothing but the command.
LEMMA OnlyReader ==
  ASSUME IInv, reader' \in ReaderType, reads' \in 0..MaxReads, ReaderInv',
         UNCHANGED <<nft, tr, job, drops, ledger>>
  PROVE  IInv'
<1>1. TypeOK'
  BY DEF IInv, TypeOK, ledger
<1>2. JobInv' /\ TransferInv'
  BY DEF IInv, JobInv, OnCourse, TransferInv, Confirmed, ledger
<1>3. (holder \in held)' /\ OwnerHeldOrNamed' /\ KeyOfConfirmed'
  BY DEF IInv, OwnerHeldOrNamed, KeyOfConfirmed, Confirmed, ledger
<1> QED BY <1>1, <1>2, <1>3 DEF IInv

\* A command goes on from one point to the next, or ends.
LEMMA ReaderStep ==
  ASSUME IInv, Reader
  PROVE  IInv'
<1>0. /\ reader \in ReaderType /\ reads \in 0..MaxReads /\ holder \in Wallets /\ ReaderInv
      /\ nft.key \in KeyType
  BY DEF IInv, TypeOK
<1>1. NoRead \in ReaderType /\ NoRead.pc = "idle"
  BY DEF NoRead, ReaderType
<1>2. UNCHANGED <<nft, tr, job, drops, ledger>>
  BY DEF Reader, ListMyNfts, RequestFileAccess, DownloadFile, DecryptSecureNote, Reads,
         OwnerRow, OwnerOnLedger, AccessKey, FetchFile, Unwrap, SaveFile, ReadFails
<1>3. holder' = holder
  BY <1>2 DEF ledger
<1>4. ASSUME NEW u \in Users, NEW goal \in {"list", "open"}, Reads(u, goal) PROVE IInv'
  <2>1. reads' \in 0..MaxReads
    BY <1>0, <1>4, TransferAssumption DEF Reads
  <2> DEFINE r == [NoRead EXCEPT !.pc = "owner", !.goal = goal, !.user = u, !.seen = {holder}]
  <2>2. reader' = r
    BY <1>4 DEF Reads
  <2>3. r \in ReaderType /\ r.pc = "owner" /\ r.seen = {holder}
    BY <1>0 DEF NoRead, ReaderType
  <2> HIDE DEF r
  <2>4. ReaderInv'
    BY <1>3, <2>2, <2>3 DEF ReaderInv
  <2> QED BY <1>2, <2>1, <2>2, <2>3, <2>4, OnlyReader
<1>5. ASSUME ReadEnds, reads' = reads PROVE IInv'
  <2>1. reader' = NoRead
    BY <1>5 DEF ReadEnds
  <2>2. ReaderInv'
    BY <1>1, <2>1 DEF ReaderInv
  <2> QED BY <1>0, <1>1, <1>2, <1>5, <2>1, <2>2, OnlyReader
<1>6. ASSUME NEW pc \in {"owner", "verify", "key", "fetch", "unwrap", "opened"},
             NEW key \in KeyType \cup {None},
             reader' = [reader EXCEPT !.pc = pc, !.key = key], reads' = reads,
             reader.pc # "idle",
             pc \in {"owner", "verify"} \/ reader.user \in reader.seen
      PROVE  IInv'
  <2> DEFINE r == [reader EXCEPT !.pc = pc, !.key = key]
  <2>1. r \in ReaderType /\ r.pc = pc /\ r.user = reader.user /\ r.seen = reader.seen
    BY <1>0 DEF ReaderType
  <2>2. reader # NoRead
    BY <1>1, <1>6
  <2>3. reader' = r
    BY <1>6
  <2> HIDE DEF r
  <2>4. ReaderInv'
    BY <1>0, <1>3, <1>6, <2>1, <2>2, <2>3 DEF ReaderInv
  <2> QED BY <1>0, <1>2, <1>6, <2>1, <2>3, <2>4, OnlyReader
<1>7. ASSUME NEW pc \in {"owner", "verify", "key", "fetch", "unwrap", "opened"},
             ReadOn(pc), reads' = reads, reader.pc # "idle",
             pc \in {"owner", "verify"} \/ reader.user \in reader.seen
      PROVE  IInv'
  <2>1. reader.key \in KeyType \cup {None}
    BY <1>0 DEF ReaderType
  <2>2. reader' = [reader EXCEPT !.pc = pc, !.key = reader.key]
    BY <1>0, <1>7 DEF ReadOn, ReaderType
  <2> QED BY <1>6, <1>7, <2>1, <2>2
<1>8. CASE OwnerRow
  BY <1>5, <1>7, <1>8 DEF OwnerRow
<1>9. CASE OwnerOnLedger
  <2>1. CASE Verified(reader.user)
    <3>1. reader # NoRead
      BY <1>1, <1>9 DEF OwnerOnLedger
    <3>2. reader.user \in reader.seen
      BY <1>0, <2>1, <3>1 DEF ReaderInv, Verified
    <3> QED BY <1>7, <1>9, <2>1, <3>2 DEF OwnerOnLedger
  <2>2. CASE ~Verified(reader.user)
    BY <1>5, <1>9, <2>2 DEF OwnerOnLedger
  <2> QED BY <2>1, <2>2
<1>10. CASE AccessKey
  <2>1. CASE reader' = NoRead
    BY <1>5, <1>10, <2>1 DEF AccessKey, ReadEnds
  <2>2. CASE reader' = [reader EXCEPT !.pc = "owner", !.key = nft.key]
    BY <1>0, <1>6, <1>10, <2>2 DEF AccessKey
  <2> QED BY <1>10, <2>1, <2>2 DEF AccessKey
<1>11. CASE FetchFile
  BY <1>0, <1>7, <1>11 DEF FetchFile, ReaderInv
<1>12. CASE Unwrap
  BY <1>0, <1>5, <1>7, <1>12 DEF Unwrap, ReaderInv
<1>13. CASE SaveFile \/ ReadFails
  BY <1>5, <1>13 DEF SaveFile, ReadFails
<1>14. CASE \E u \in Users : \/ ListMyNfts(u) \/ RequestFileAccess(u)
                             \/ DownloadFile(u) \/ DecryptSecureNote(u)
  BY <1>4, <1>14 DEF ListMyNfts, RequestFileAccess, DownloadFile, DecryptSecureNote
<1> QED BY <1>8, <1>9, <1>10, <1>11, <1>12, <1>13, <1>14 DEF Reader

-----------------------------------------------------------------------------

\* A task that is dropped just ends.
LEMMA DropStep ==
  ASSUME IInv, NEW h \in Tasks, Drop(h)
  PROVE  IInv'
<1>1. job' = [job EXCEPT ![h] = Idle] /\ UNCHANGED <<nft, tr, ledger, clients>>
  BY DEF Drop, Done
<1>2. drops' \in 0..MaxDrops
  BY TransferAssumption DEF Drop, IInv, TypeOK
<1> QED BY <1>1, <1>2, IdleJob, JobStep

\* Every step preserves the inductive invariant.
LEMMA NextIInv == IInv /\ [Next]_vars => IInv'
<1> SUFFICES ASSUME IInv, [Next]_vars PROVE IInv'
  OBVIOUS
<1>1. CASE \E h \in Tasks : Request(h)
  BY <1>1, RequestStep
<1>2. CASE \E h \in Tasks : Drop(h)
  BY <1>2, DropStep
<1>3. ASSUME NEW h \in Tasks, SyncRead(h) \/ Continue(h) PROVE IInv'
  <2>1. CASE SyncRead(h) \/ SyncVerify(h) \/ SyncScan(h)
    BY <2>1, SyncStep
  <2>2. CASE \/ InitiateInsert(h) \/ ConfirmTransfer(h) \/ CompleteTransfer(h)
             \/ FinalizeWrite(h) \/ CancelTransfer(h)
    BY <2>2, WriteTransferStep
  <2>3. CASE ConfirmNft(h) \/ CompleteNft(h) \/ CancelNft(h) \/ SyncUpdate(h)
    BY <2>3, WriteNftStep
  <2> QED BY <1>3, <2>1, <2>2, <2>3 DEF Continue
<1>4. CASE Environment
  BY <1>4, EnvironmentStep
<1>5. CASE Reader
  BY <1>5, ReaderStep
<1>6. CASE UNCHANGED vars
  <2>1. UNCHANGED <<nft, tr, job, drops, ledger>> /\ reader' = reader /\ reads' = reads
    BY <1>6 DEF vars, ledger
  <2>2. reader \in ReaderType /\ reads \in 0..MaxReads /\ ReaderInv
    BY DEF IInv, TypeOK
  <2>3. ReaderInv'
    BY <2>1, <2>2 DEF ReaderInv, ledger
  <2> QED BY <2>1, <2>2, <2>3, OnlyReader
<1> QED BY <1>1, <1>2, <1>3, <1>4, <1>5, <1>6 DEF Next

\* The inductive invariant holds in every reachable state.
THEOREM Invariance == Spec => []IInv
BY InitIInv, NextIInv, PTL DEF Spec

\* The rows, tasks, offers and the reading command keep their types.
THEOREM TypeCorrect == Spec => []TypeOK
<1>1. IInv => TypeOK
  BY DEF IInv
<1> QED BY <1>1, Invariance, PTL

\* The owner the Oracle records has held the token or was named by a confirmed
\* transfer: complete_transfer writes the recipient of a transfer it has read as
\* `completed', a synchronisation a wallet it saw holding the token.
THEOREM OwnerNamed == Spec => []OwnerHeldOrNamed
<1>1. IInv => OwnerHeldOrNamed
  BY DEF IInv
<1> QED BY <1>1, Invariance, PTL

\* The vault's key is replaced only by that of a confirmed transfer, however
\* initiate, confirm, cancel and complete interleave.
THEOREM KeyConfirmed == Spec => []KeyOfConfirmed
<1>1. IInv => KeyOfConfirmed
  BY DEF IInv
<1> QED BY <1>1, Invariance, PTL

\* A file is opened only by a wallet that held the token while its command ran.
THEOREM Opened == Spec => []OpenedByHolder
<1>1. IInv => OpenedByHolder
  BY DEF IInv, ReaderInv, OpenedByHolder
<1> QED BY <1>1, Invariance, PTL

-----------------------------------------------------------------------------

\* While no task has been dropped, a locked NFT has a confirmed transfer, or a task is about to write the
\* confirmation or to release the lock.
Locked ==
  nft.status = "transferring" /\ drops = 0 =>
    \/ \E t \in Ids : tr[t] # None /\ tr[t].status = "completed"
    \/ \E h \in Tasks : job[h].pc \in {"confirm_transfer", "cancel_nft"}

\* Every step keeps that.
LEMMA NextLocked == IInv /\ Locked /\ [Next]_vars => Locked'
<1> SUFFICES ASSUME IInv, Locked, [Next]_vars PROVE Locked'
  OBVIOUS
<1>0. /\ job \in [Tasks -> JobType] /\ tr \in [Ids -> TransferType \cup {None}]
      /\ \A h \in Tasks : job[h] \in JobType /\ OnCourse(job[h])
  BY DEF IInv, TypeOK, JobInv
\* a task that reads, scans or starts a request
<1>1. ASSUME NEW h \in Tasks, UNCHANGED <<nft, tr, drops>>,
             job[h].pc \notin {"confirm_transfer", "cancel_nft"},
             \A k \in Tasks : k # h => job'[k] = job[k]
      PROVE  Locked'
  BY <1>1 DEF Locked
<1>2. CASE \E h \in Tasks : Request(h)
  <2>1. PICK h \in Tasks : Request(h)
    BY <1>2
  <2>2. /\ job[h].pc = "idle" /\ UNCHANGED <<nft, tr, drops>>
        /\ \E r : job' = [job EXCEPT ![h] = r]
    BY <2>1 DEF Request, InitiateRead, ConfirmRead, CompleteRead, FinalizeRead, CancelRead
  <2>3. \A k \in Tasks : k # h => job'[k] = job[k]
    BY <1>0, <2>2
  <2> QED BY <1>1, <2>2, <2>3
<1>3. ASSUME NEW h \in Tasks, SyncRead(h) \/ SyncVerify(h) \/ SyncScan(h) PROVE Locked'
  BY <1>0, <1>1, <1>3 DEF SyncRead, SyncVerify, SyncScan, Found, Done
<1>4. ASSUME NEW h \in Tasks, InitiateInsert(h) PROVE Locked'
  <2>1. PICK t \in Ids : tr[t] = None /\ \A s \in Ids : s # t => tr'[s] = tr[s]
    BY <1>0, <1>4 DEF InitiateInsert
  <2>2. /\ nft' = nft /\ drops' = drops /\ job[h].pc = "insert"
        /\ \A k \in Tasks : k # h => job'[k] = job[k]
    BY <1>0, <1>4 DEF InitiateInsert, Done
  <2> QED BY <2>1, <2>2 DEF Locked
<1>5. ASSUME NEW h \in Tasks, ConfirmTransfer(h) \/ CompleteTransfer(h) \/ FinalizeWrite(h)
      PROVE  Locked'
  <2> DEFINE t == job[h].id
  <2>1. t \in Ids /\ tr[t] # None /\ tr[t] \in TransferType
    BY <1>0, <1>5 DEF ConfirmTransfer, CompleteTransfer, FinalizeWrite, OnCourse
  <2>2. tr'[t].status = "completed" /\ tr'[t] \in TransferType
    <3>1. tr[t].offer \in Offers \cup {None} /\ job[h].offer \in Offers \cup {None}
      BY <1>0, <2>1 DEF TransferType, JobType
    <3> QED BY <1>0, <1>5, <2>1, <3>1 DEF ConfirmTransfer, CompleteTransfer, FinalizeWrite, TransferType
  <2>3. tr'[t] # None
    BY <2>2, NoneAssumption
  <2> QED BY <2>1, <2>2, <2>3 DEF Locked
<1>6. ASSUME NEW h \in Tasks, ConfirmNft(h) PROVE Locked'
  <2>1. job'[h].pc = "confirm_transfer"
    BY <1>0, <1>6 DEF ConfirmNft, JobType
  <2> QED BY <2>1 DEF Locked
<1>7. ASSUME NEW h \in Tasks, CancelTransfer(h) PROVE Locked'
  <2>1. job'[h].pc = "cancel_nft"
    BY <1>0, <1>7 DEF CancelTransfer, JobType
  <2> QED BY <2>1 DEF Locked
<1>8. ASSUME NEW h \in Tasks, CompleteNft(h) \/ CancelNft(h) \/ SyncUpdate(h) PROVE Locked'
  <2>1. nft \in [owner : Users, key : KeyType, status : {"active", "transferring"}]
    BY DEF IInv, TypeOK
  <2>2. CASE CompleteNft(h)
    BY <2>2 DEF CompleteNft, Locked
  <2>3. CASE CancelNft(h) \/ SyncUpdate(h)
    <3>1. nft'.status = "active"
      BY <2>1, <2>3 DEF CancelNft, SyncUpdate
    <3> QED BY <3>1 DEF Locked
  <2> QED BY <1>8, <2>2, <2>3
<1>9. CASE Environment \/ Reader \/ UNCHANGED vars
  <2>1. UNCHANGED <<nft, tr, job, drops>>
    BY <1>9 DEF Environment, AcceptOffer, CancelOffer, CreateOffer, ExternalMove,
                Reader, ListMyNfts, RequestFileAccess, DownloadFile, DecryptSecureNote, Reads,
                OwnerRow, OwnerOnLedger, AccessKey, FetchFile, Unwrap, SaveFile, ReadFails, vars
  <2> QED BY <2>1 DEF Locked
<1>10. ASSUME NEW h \in Tasks, Drop(h) PROVE Locked'
  <2>1. drops' = drops + 1 /\ drops \in Nat
    BY <1>10, TransferAssumption DEF Drop, IInv, TypeOK
  <2>2. drops' # 0
    BY <2>1
  <2> QED BY <2>2 DEF Locked
<1> QED BY <1>2, <1>3, <1>4, <1>5, <1>6, <1>7, <1>8, <1>9, <1>10 DEF Next, Continue

\* Tasks that run to their end leave no NFT locked without a transfer that its
\* sender can still cancel, however confirm and cancel interleave.
THEOREM LockedIsOpen == Spec => []TransferringIsOpen
<1>1. Init => Locked
  BY DEF Init, Locked
<1>2. IInv /\ Locked => TransferringIsOpen
  <2>1. ASSUME NEW h \in Tasks, job[h].pc \in {"confirm_transfer", "cancel_nft"} PROVE h \in Running
    BY <2>1 DEF Running
  <2> QED BY <2>1 DEF Locked, TransferringIsOpen
<1> QED BY <1>1, <1>2, NextLocked, Invariance, PTL DEF Spec
=============================================================================
