------------------------ MODULE VaultLifecycleProofs ------------------------
(* Proofs about VaultLifecycle, for any sets of nodes, tokens, documents and *)
(* concurrent requests.                                                      *)
EXTENDS VaultLifecycle, TLAPS

\* Before the upload has finished nothing is published or minted, so no
\* finalization or deletion can meet a running upload.
Early ==
  /\ phase = "created" \/ upload # None => row # None
  /\ phase \in {"new", "created"} \/ upload # None =>
       /\ meta = None
       /\ \A p \in Publishers : pub[p] = None
       /\ \A t \in Tokens : ledger[t] = "unminted"
  /\ upload # None => upload.ok \subseteq stored /\ phase \in {"created", "closed"}

\* What is published belongs to an uploaded vault, what is minted to a
\* published one.
Ready ==
  /\ phase \in {"uploaded", "published", "minted"} \/ meta # None
       \/ (\E p \in Publishers : pub[p] # None) => frags # {} /\ row # None
  /\ phase \in {"published", "minted"} => meta # None
  /\ phase = "minted" => minted # None
  /\ minted # None => ledger[minted] # "unminted"
  /\ submitted # None => ledger[submitted] # "unminted"
  /\ \A t \in Tokens : ledger[t] # "unminted" => meta # None

\* Only minted tokens are finalized and linked, and a link has both rows.
Links ==
  /\ \A f \in Finalizers : fin[f] # None =>
       /\ ledger[fin[f].token] # "unminted"
       /\ fin[f].step = "register" => object # None
  /\ Linked => object # None /\ ledger[row.token] # "unminted"
  /\ Linked /\ ~Burned => row.status = "active"
  /\ row # None /\ ~Burned => row.status # "archived"

\* A deletion follows a burn, and as long as every request has succeeded the
\* fragments it has done with are gone.  Nothing else removes a fragment.
Deletion ==
  /\ del # None =>
       /\ ledger[del.token] = "burned"
       /\ del.step # "read" => Linked
       /\ del.step # "read" /\ del.ok => (frags \ del.todo) \cap stored = {}
       /\ del.step = "archive" => del.todo = {}
  /\ ~Burned => frags \subseteq stored
  /\ erased => Burned /\ frags \cap stored = {}

IInv == TypeOK /\ Early /\ Ready /\ Links /\ Deletion

\* The initial state satisfies the inductive invariant.
LEMMA InitIInv == Init => IInv
<1> SUFFICES ASSUME Init PROVE IInv
  OBVIOUS
<1>1. TypeOK
  <2>1. drops \in 0..MaxDrops
    BY VaultAssumption DEF Init
  <2>2. /\ phase \in Phases
        /\ ledger \in [Tokens -> {"unminted", "owned", "burned"}]
        /\ pub \in [Publishers -> Metas \cup {None}]
        /\ fin \in [Finalizers -> Finals \cup {None}]
    BY DEF Init, Phases
  <2> QED BY <2>1, <2>2 DEF Init, TypeOK
<1>2. Early /\ Ready /\ Links /\ Deletion
  BY DEF Init, Early, Ready, Links, Deletion, Linked, Burned
<1> QED BY <1>1, <1>2 DEF IInv

\* Every step preserves the inductive invariant.
LEMMA NextIInv == IInv /\ [Next]_vars => IInv'
<1> SUFFICES ASSUME IInv, [Next]_vars PROVE IInv'
  OBVIOUS
<1>1. CASE CreateVault
  <2>1. TypeOK'
    BY <1>1, VaultAssumption DEF CreateVault, IInv, TypeOK, Rows, Phases
  <2>2. Early'
    BY <1>1, VaultAssumption DEF CreateVault, IInv, Early, TypeOK, Rows
  <2>3. Ready'
    BY <1>1, VaultAssumption DEF CreateVault, IInv, Ready, TypeOK, Early, Rows
  <2>4. Links'
    BY <1>1, VaultAssumption DEF CreateVault, IInv, Links, TypeOK, Early,
       Rows, Linked, Burned
  <2>5. Deletion'
    BY <1>1, VaultAssumption DEF CreateVault, IInv, Deletion, TypeOK, Early,
       Rows, Deletes, Linked, Burned
  <2> QED BY <2>1, <2>2, <2>3, <2>4, <2>5 DEF IInv
<1>2. CASE UploadStart
  <2>1. TypeOK'
    BY <1>2 DEF UploadStart, IInv, TypeOK, Uploads
  <2>2. Early'
    BY <1>2 DEF UploadStart, IInv, Early, Uploads
  <2>3. Ready' /\ Links' /\ Deletion'
    BY <1>2 DEF UploadStart, IInv, Ready, Links, Deletion, Linked, Burned
  <2> QED BY <2>1, <2>2, <2>3 DEF IInv
<1>3. ASSUME NEW n \in Nodes, UploadPut(n) PROVE IInv'
  <2>1. TypeOK'
    BY <1>3, VaultAssumption DEF UploadPut, IInv, TypeOK, Uploads
  <2>2. Early'
    BY <1>3, VaultAssumption DEF UploadPut, IInv, Early, TypeOK, Uploads
  <2>3. Deletion'
    BY <1>3, VaultAssumption DEF UploadPut, IInv, Deletion, TypeOK, Early,
       Deletes, Burned, Linked
  <2>4. Ready' /\ Links'
    BY <1>3 DEF UploadPut, IInv, Ready, Links, Linked, Burned
  <2> QED BY <2>1, <2>2, <2>3, <2>4 DEF IInv
<1>4. CASE UploadFinish
  <2>1. TypeOK'
    BY <1>4, VaultAssumption DEF UploadFinish, IInv, TypeOK, Early, Uploads,
       Phases
  <2>2. Early'
    BY <1>4, VaultAssumption DEF UploadFinish, IInv, Early, TypeOK
  <2>3. Ready'
    BY <1>4, VaultAssumption DEF UploadFinish, IInv, Ready, TypeOK, Early,
       Uploads
  <2>4. Deletion'
    BY <1>4, VaultAssumption DEF UploadFinish, IInv, Deletion, TypeOK, Early,
       Uploads, Deletes, Linked, Burned
  <2>5. Links'
    BY <1>4 DEF UploadFinish, IInv, Links, Linked, Burned
  <2> QED BY <2>1, <2>2, <2>3, <2>4, <2>5 DEF IInv
<1>5. ASSUME NEW p \in Publishers, NEW m \in Metas, PublishRead(p, m) PROVE IInv'
  <2>1. TypeOK'
    BY <1>5 DEF PublishRead, IInv, TypeOK, Phases
  <2>2. Early'
    BY <1>5, VaultAssumption DEF PublishRead, IInv, Early, TypeOK, Phases
  <2>3. Ready'
    BY <1>5, VaultAssumption DEF PublishRead, IInv, Ready, TypeOK
  <2>4. Links' /\ Deletion'
    BY <1>5 DEF PublishRead, IInv, Links, Deletion, Linked, Burned
  <2> QED BY <2>1, <2>2, <2>3, <2>4 DEF IInv
<1>6. ASSUME NEW p \in Publishers, PublishUpdate(p) PROVE IInv'
  <2>1. TypeOK'
    BY <1>6, VaultAssumption DEF PublishUpdate, IInv, TypeOK, Phases
  <2>2. Early'
    BY <1>6, VaultAssumption DEF PublishUpdate, IInv, Early, TypeOK, Phases
  <2>3. Ready'
    BY <1>6, VaultAssumption DEF PublishUpdate, IInv, Ready, TypeOK, Phases
  <2>4. Links' /\ Deletion'
    BY <1>6 DEF PublishUpdate, IInv, Links, Deletion, Linked, Burned
  <2> QED BY <2>1, <2>2, <2>3, <2>4 DEF IInv
<1>7. ASSUME NEW t \in Tokens, SubmitMint(t) PROVE IInv'
  <2>1. TypeOK'
    BY <1>7 DEF SubmitMint, IInv, TypeOK, Phases
  <2>2. Early'
    BY <1>7, VaultAssumption DEF SubmitMint, IInv, Early, TypeOK, Ready
  <2>3. Ready'
    BY <1>7, VaultAssumption DEF SubmitMint, IInv, Ready, TypeOK
  <2>4. Links'
    BY <1>7, VaultAssumption DEF SubmitMint, IInv, Links, TypeOK, Finals, Rows,
       Linked, Burned
  <2>5. Deletion'
    BY <1>7, VaultAssumption DEF SubmitMint, IInv, Deletion, TypeOK, Deletes,
       Linked, Burned
  <2> QED BY <2>1, <2>2, <2>3, <2>4, <2>5 DEF IInv
<1>8. CASE MintReturns \/ MintFails
  <2>1. TypeOK'
    BY <1>8 DEF MintReturns, MintFails, IInv, TypeOK, Phases
  <2>2. Early'
    BY <1>8 DEF MintReturns, MintFails, IInv, Early
  <2>3. Ready'
    BY <1>8 DEF MintReturns, MintFails, IInv, Ready
  <2>4. Links' /\ Deletion'
    BY <1>8 DEF MintReturns, MintFails, IInv, Links, Deletion, Linked, Burned
  <2> QED BY <2>1, <2>2, <2>3, <2>4 DEF IInv
<1>9. ASSUME NEW f \in Finalizers, RegisterMinted(f) PROVE IInv'
  <2>1. TypeOK'
    BY <1>9, VaultAssumption DEF RegisterMinted, Finalize, IInv, TypeOK,
       Ready, Finals, Phases
  <2>2. Early'
    BY <1>9 DEF RegisterMinted, Finalize, IInv, Early
  <2>3. Ready'
    BY <1>9 DEF RegisterMinted, Finalize, IInv, Ready
  <2>4. Links'
    BY <1>9, VaultAssumption DEF RegisterMinted, Finalize, IInv, Links,
       TypeOK, Ready, Finals, Linked, Burned
  <2>5. Deletion'
    BY <1>9 DEF RegisterMinted, Finalize, IInv, Deletion, Linked, Burned
  <2> QED BY <2>1, <2>2, <2>3, <2>4, <2>5 DEF IInv
<1>10. ASSUME NEW f \in Finalizers, FinalizePending(f) PROVE IInv'
  <2>1. TypeOK'
    BY <1>10, VaultAssumption DEF FinalizePending, Finalize, IInv, TypeOK,
       Finals
  <2>2. Links'
    BY <1>10, VaultAssumption DEF FinalizePending, Finalize, IInv, Links,
       TypeOK, Ready, Finals, Linked, Burned
  <2>3. Early' /\ Ready' /\ Deletion'
    BY <1>10 DEF FinalizePending, Finalize, IInv, Early, Ready, Deletion,
       Linked, Burned
  <2> QED BY <2>1, <2>2, <2>3 DEF IInv
<1>11. ASSUME NEW f \in Finalizers, NEW t \in Tokens, RecoverPendingMint(f, t) PROVE IInv'
  <2>1. TypeOK'
    BY <1>11, VaultAssumption DEF RecoverPendingMint, Finalize, IInv, TypeOK,
       Finals
  <2>2. Links'
    BY <1>11, VaultAssumption DEF RecoverPendingMint, Finalize, IInv, Links,
       TypeOK, Finals, Linked, Burned
  <2>3. Early' /\ Ready' /\ Deletion'
    BY <1>11 DEF RecoverPendingMint, Finalize, IInv, Early, Ready, Deletion,
       Linked, Burned
  <2> QED BY <2>1, <2>2, <2>3 DEF IInv
<1>12. ASSUME NEW f \in Finalizers, FinalizeRead(f) PROVE IInv'
  <2>1. TypeOK'
    BY <1>12, VaultAssumption DEF FinalizeRead, AtStep, Goto, Done, IInv,
       TypeOK, Finals
  <2>2. Links'
    BY <1>12, VaultAssumption DEF FinalizeRead, AtStep, Goto, Done, IInv,
       Links, TypeOK, Finals, Linked, Burned
  <2>3. Early' /\ Ready' /\ Deletion'
    BY <1>12 DEF FinalizeRead, AtStep, Goto, Done, IInv, Early, Ready,
       Deletion, Linked, Burned
  <2> QED BY <2>1, <2>2, <2>3 DEF IInv
<1>13. ASSUME NEW f \in Finalizers, FinalizeVerify(f) PROVE IInv'
  <2>1. TypeOK'
    BY <1>13, VaultAssumption DEF FinalizeVerify, AtStep, Goto, Done, IInv,
       TypeOK, Finals
  <2>2. Links'
    BY <1>13, VaultAssumption DEF FinalizeVerify, AtStep, Goto, Done, IInv,
       Links, TypeOK, Finals, Linked, Burned
  <2>3. Early' /\ Ready' /\ Deletion'
    BY <1>13 DEF FinalizeVerify, AtStep, Goto, Done, IInv, Early, Ready,
       Deletion, Linked, Burned
  <2> QED BY <2>1, <2>2, <2>3 DEF IInv
<1>14. ASSUME NEW f \in Finalizers, FinalizeCommit(f) PROVE IInv'
  <2>1. TypeOK'
    BY <1>14, VaultAssumption DEF FinalizeCommit, AtStep, Goto, IInv, TypeOK,
       Finals, Rows, Objects
  <2>2. Early'
    BY <1>14, VaultAssumption DEF FinalizeCommit, AtStep, Goto, IInv, Early,
       TypeOK, Finals, Rows
  <2>3. Ready'
    BY <1>14, VaultAssumption DEF FinalizeCommit, AtStep, Goto, IInv, Ready,
       TypeOK, Finals, Rows
  <2>4. Links'
    BY <1>14, VaultAssumption DEF FinalizeCommit, AtStep, Goto, IInv, Links,
       TypeOK, Finals, Rows, Objects, Linked, Burned
  <2>5. Deletion'
    BY <1>14, VaultAssumption DEF FinalizeCommit, AtStep, Goto, IInv,
       Deletion, TypeOK, Finals, Rows, Deletes, Linked, Burned
  <2> QED BY <2>1, <2>2, <2>3, <2>4, <2>5 DEF IInv
<1>15. ASSUME NEW f \in Finalizers, RegisterVaultObject(f) PROVE IInv'
  <2>1. TypeOK'
    BY <1>15, VaultAssumption DEF RegisterVaultObject, AtStep, Done, IInv,
       TypeOK, Links, Finals, Objects
  <2>2. Links'
    BY <1>15, VaultAssumption DEF RegisterVaultObject, AtStep, Done, IInv,
       Links, TypeOK, Finals, Objects, Linked, Burned
  <2>3. Early' /\ Ready' /\ Deletion'
    BY <1>15 DEF RegisterVaultObject, AtStep, Done, IInv, Early, Ready,
       Deletion, Linked, Burned
  <2> QED BY <2>1, <2>2, <2>3 DEF IInv
<1>16. ASSUME NEW t \in Tokens, BurnNft(t) PROVE IInv'
  <2>1. TypeOK'
    <3>1. [step |-> "read", token |-> t, todo |-> {}, ok |-> TRUE] \in Deletes
      BY DEF Deletes
    <3>2. del' \in Deletes \cup {None}
      BY <1>16, <3>1 DEF BurnNft, IInv, TypeOK
    <3>3. ledger' \in [Tokens -> {"unminted", "owned", "burned"}]
      BY <1>16 DEF BurnNft, IInv, TypeOK
    <3> QED BY <1>16, <3>2, <3>3 DEF BurnNft, IInv, TypeOK
  <2>2. Early'
    BY <1>16, VaultAssumption DEF BurnNft, IInv, Early, TypeOK
  <2>3. Ready'
    BY <1>16, VaultAssumption DEF BurnNft, IInv, Ready, TypeOK
  <2>4. Links'
    BY <1>16, VaultAssumption DEF BurnNft, IInv, Links, TypeOK, Finals, Rows,
       Linked, Burned
  <2>5. Deletion'
    BY <1>16, VaultAssumption DEF BurnNft, IInv, Deletion, TypeOK, Deletes,
       Linked, Burned
  <2> QED BY <2>1, <2>2, <2>3, <2>4, <2>5 DEF IInv
<1>17. CASE DeleteRead
  <2>1. TypeOK'
    BY <1>17, VaultAssumption DEF DeleteRead, IInv, TypeOK, Deletes
  <2>2. Deletion'
    BY <1>17, VaultAssumption DEF DeleteRead, IInv, Deletion, TypeOK, Ready,
       Deletes, Rows, Linked, Burned
  <2>3. Early' /\ Ready' /\ Links'
    BY <1>17 DEF DeleteRead, IInv, Early, Ready, Links, Linked, Burned
  <2> QED BY <2>1, <2>2, <2>3 DEF IInv
<1>18. ASSUME NEW n \in Nodes, DeleteFragment(n) PROVE IInv'
  <2>1. TypeOK'
    BY <1>18, VaultAssumption DEF DeleteFragment, IInv, TypeOK, Deletes
  <2>2. Early'
    BY <1>18, VaultAssumption DEF DeleteFragment, IInv, Early, TypeOK,
       Deletion, Deletes
  <2>3. Deletion'
    BY <1>18, VaultAssumption DEF DeleteFragment, IInv, Deletion, TypeOK,
       Deletes, Linked, Burned
  <2>4. Ready' /\ Links'
    BY <1>18 DEF DeleteFragment, IInv, Ready, Links, Linked, Burned
  <2> QED BY <2>1, <2>2, <2>3, <2>4 DEF IInv
<1>19. CASE DeleteObject
  <2>1. TypeOK'
    BY <1>19, VaultAssumption DEF DeleteObject, IInv, TypeOK, Links, Deletion,
       Objects, Deletes
  <2>2. Links'
    BY <1>19, VaultAssumption DEF DeleteObject, IInv, Links, TypeOK, Objects,
       Deletion, Deletes, Linked, Burned
  <2>3. Deletion'
    BY <1>19, VaultAssumption DEF DeleteObject, IInv, Deletion, TypeOK,
       Deletes, Linked, Burned
  <2>4. Early' /\ Ready'
    BY <1>19 DEF DeleteObject, IInv, Early, Ready
  <2> QED BY <2>1, <2>2, <2>3, <2>4 DEF IInv
<1>20. CASE DeleteArchive
  <2>1. TypeOK'
    BY <1>20, VaultAssumption DEF DeleteArchive, IInv, TypeOK, Deletion, Rows,
       Deletes, Linked
  <2>2. Early'
    BY <1>20, VaultAssumption DEF DeleteArchive, IInv, Early, TypeOK,
       Deletion, Rows, Linked
  <2>3. Ready'
    BY <1>20, VaultAssumption DEF DeleteArchive, IInv, Ready, TypeOK,
       Deletion, Rows, Linked
  <2>4. Links'
    BY <1>20, VaultAssumption DEF DeleteArchive, IInv, Links, TypeOK,
       Deletion, Rows, Deletes, Linked, Burned
  <2>5. Deletion'
    BY <1>20, VaultAssumption DEF DeleteArchive, IInv, Deletion, TypeOK, Rows,
       Deletes, Linked, Burned
  <2> QED BY <2>1, <2>2, <2>3, <2>4, <2>5 DEF IInv
<1>21. CASE CloseScreen
  <2>1. TypeOK'
    BY <1>21 DEF CloseScreen, IInv, TypeOK, Phases
  <2>2. Early'
    BY <1>21 DEF CloseScreen, IInv, Early
  <2>3. Ready'
    BY <1>21 DEF CloseScreen, IInv, Ready
  <2>4. Links' /\ Deletion'
    BY <1>21 DEF CloseScreen, IInv, Links, Deletion, Linked, Burned
  <2> QED BY <2>1, <2>2, <2>3, <2>4 DEF IInv
<1>22. CASE DropUpload
  <2>1. TypeOK'
    BY <1>22, VaultAssumption DEF DropUpload, Dropping, IInv, TypeOK, Phases
  <2>2. Early'
    BY <1>22 DEF DropUpload, Dropping, IInv, Early
  <2>3. Ready'
    BY <1>22 DEF DropUpload, Dropping, IInv, Ready
  <2>4. Links' /\ Deletion'
    BY <1>22 DEF DropUpload, Dropping, IInv, Links, Deletion, Linked, Burned
  <2> QED BY <2>1, <2>2, <2>3, <2>4 DEF IInv
<1>23. ASSUME NEW p \in Publishers, DropPublish(p) PROVE IInv'
  <2>1. TypeOK'
    BY <1>23, VaultAssumption DEF DropPublish, Dropping, IInv, TypeOK
  <2>2. Early'
    BY <1>23 DEF DropPublish, Dropping, IInv, Early, TypeOK
  <2>3. Ready'
    BY <1>23 DEF DropPublish, Dropping, IInv, Ready, TypeOK
  <2>4. Links' /\ Deletion'
    BY <1>23 DEF DropPublish, Dropping, IInv, Links, Deletion, Linked, Burned
  <2> QED BY <2>1, <2>2, <2>3, <2>4 DEF IInv
<1>24. ASSUME NEW f \in Finalizers, DropFinalize(f) PROVE IInv'
  <2>1. TypeOK'
    BY <1>24, VaultAssumption DEF DropFinalize, Done, Dropping, IInv, TypeOK
  <2>2. Links'
    BY <1>24 DEF DropFinalize, Done, Dropping, IInv, Links, TypeOK, Linked,
       Burned
  <2>3. Early' /\ Ready' /\ Deletion'
    BY <1>24 DEF DropFinalize, Done, Dropping, IInv, Early, Ready, Deletion,
       Linked, Burned
  <2> QED BY <2>1, <2>2, <2>3 DEF IInv
<1>25. CASE DropDelete
  <2>1. TypeOK'
    BY <1>25, VaultAssumption DEF DropDelete, Dropping, IInv, TypeOK
  <2>2. Deletion'
    BY <1>25 DEF DropDelete, Dropping, IInv, Deletion, Linked, Burned
  <2>3. Early' /\ Ready' /\ Links'
    BY <1>25 DEF DropDelete, Dropping, IInv, Early, Ready, Links, Linked,
       Burned
  <2> QED BY <2>1, <2>2, <2>3 DEF IInv
<1>26. CASE UNCHANGED vars
  BY <1>26 DEF vars, IInv, TypeOK, Early, Ready, Links, Deletion, Linked, Burned
<1> QED BY <1>1, <1>2, <1>3, <1>4, <1>5, <1>6, <1>7, <1>8, <1>9, <1>10, <1>11,
           <1>12, <1>13, <1>14, <1>15, <1>16, <1>17, <1>18, <1>19, <1>20,
           <1>21, <1>22, <1>23, <1>24, <1>25, <1>26 DEF Next, FinalizeStep

\* VaultLifecycle is type correct, and no vault is linked that the Oracle did
\* not prepare, for any number of nodes, mints and concurrent requests.
THEOREM TypeCorrect == Spec => []TypeOK
<1>1. IInv => TypeOK
  BY DEF IInv
<1> QED BY <1>1, InitIInv, NextIInv, PTL DEF Spec

\* Until an NFT of it is burned a linked vault is readable: whatever answers,
\* handlers and screens are lost, finalize_vault_mint links only a minted
\* token to an uploaded and published vault.
THEOREM Readable == Spec => []LinkedIsReadable
<1>1. IInv => LinkedIsReadable
  BY VaultAssumption DEF IInv, TypeOK, Ready, Links, Deletion, LinkedIsReadable, Linked, Burned
<1> QED BY <1>1, InitIInv, NextIInv, PTL DEF Spec

\* A mint can be linked as long as nothing is burned: wherever the desktop was
\* closed, even between the submitted mint and the return of its hash
\* (mint_vaulted_nft_locally), all that finalize_vault_mint asks for is there.
THEOREM Recoverable == Spec => []MintRecoverable
<1>1. IInv => MintRecoverable
  BY VaultAssumption DEF IInv, TypeOK, Rows, Ready, Links, MintRecoverable, Burned
<1> QED BY <1>1, InitIInv, NextIInv, PTL DEF Spec

\* A deletion that reported every fragment removed (delete_vault) has left none
\* at its node, and none comes back.
THEOREM ErasedForGood == Spec => []ErasedMeansGone
<1>1. IInv => ErasedMeansGone
  BY DEF IInv, Deletion, ErasedMeansGone
<1> QED BY <1>1, InitIInv, NextIInv, PTL DEF Spec
=============================================================================
