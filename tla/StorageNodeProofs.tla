------------------------- MODULE StorageNodeProofs -------------------------
(***************************************************************************)
(* Proofs about StorageNode, for every value of its constants.             *)
(*                                                                         *)
(* The inductive invariant is TypeOK with three parts: what the replay     *)
(* cache still knows (CacheInv), what a handler past its token check may   *)
(* do (RightsInv), and which temporary file a handler owns (FileInv).      *)
(***************************************************************************)
EXTENDS StorageNode, TLAPS

Writing == {"inspect", "compare", "create", "sync", "link", "unlink", "stat",
            "insert"}
Owning == {"sync", "link", "unlink"}

\* An accepted token id is still in the cache, or the token has expired.
CacheInv ==
  /\ consumed \subseteq Jtis /\ reused \subseteq used
  /\ \A j \in consumed \cup used \cup granted : token[j] # None
  /\ \A j \in used : j \in consumed \/ token[j].exp < now
  /\ \A j \in reused : token[j].exp < now
  /\ \A r \in Reqs : req[r].at <= now

\* A scope that permits what the request asks for.
Covers(s, q) ==
  /\ s.op = q.op /\ s.key = q.key
  /\ q.op = "write" => s.hash \in {None, q.body}

RightsInv ==
  \A r \in Reqs :
    LET q == req[r] IN
    /\ q.pc # "idle" => q.key \in Keys
    /\ q.pc \in Writing => q.op = "write" /\ q.body \in Bodies
    /\ q.pc = "consume" => /\ q.op # "read" /\ q.jti \in Jtis
                           /\ q.op = "write" => q.body \in Bodies
                           /\ token[q.jti] # None
                           /\ Covers(token[q.jti].scope, q)
    /\ q.pc \in {"remove", "deindex"} => q.op = "delete"
    /\ RequireAuth /\ q.op # "read" /\ q.pc \notin {"idle", "consume"}
         => \E s \in Permits : Covers(s, q)

\* Handlers own distinct temporary files, complete once they can be linked.
FileInv ==
  /\ \A r \in Reqs :
       LET q == req[r] IN
       /\ q.pc \in Owning => q.tmp \in TempNames /\ temp[q.tmp] # NoFile
       /\ q.pc = "link" => temp[q.tmp] = q.body
       /\ q.pc = "remove" => disk[q.key] # Symlink
  /\ \A r, s \in Reqs :
       req[r].pc \in Owning /\ req[s].pc \in Owning /\ req[r].tmp = req[s].tmp
         => r = s

\* An upload past its link or its comparison holds its body on disk, unless
\* the key was deleted under it.
StoredInv ==
  \A r \in Reqs : req[r].pc \in {"unlink", "stat", "insert"} =>
    disk[req[r].key] = req[r].body \/ r \in overtaken

IInv == TypeOK /\ CacheInv /\ RightsInv /\ FileInv /\ StoredInv

\* An answered request's slot is well typed.
LEMMA IdleType == Idle \in ReqType
BY DEF Idle, ReqType, Steps, Operations

\* Moving a handler to another step keeps the type of the request table.
LEMMA GotoType ==
  ASSUME req \in [Reqs -> ReqType], NEW r \in Reqs, NEW p \in Steps, Goto(r, p)
  PROVE  req' \in [Reqs -> ReqType]
BY DEF Goto, ReqType

\* So does answering a request.
LEMMA AnswerType ==
  ASSUME req \in [Reqs -> ReqType], overtaken \subseteq Reqs,
         NEW r \in Reqs, Answer(r)
  PROVE  req' \in [Reqs -> ReqType] /\ overtaken' \subseteq Reqs
BY IdleType DEF Answer

\* So does recording or forgetting the temporary file.
LEMMA SetTempType ==
  ASSUME req \in [Reqs -> ReqType], NEW r \in Reqs, NEW p \in Steps,
         NEW n \in TempNames \cup {None},
         req' = [req EXCEPT ![r].pc = p, ![r].tmp = n]
  PROVE  req' \in [Reqs -> ReqType]
<1> [req[r] EXCEPT !.pc = p, !.tmp = n] \in ReqType
  BY DEF ReqType
<1> QED OBVIOUS

\* Every step keeps the types: a linked file is complete.
LEMMA TypeStep ==
  ASSUME IInv, [Next]_vars
  PROVE  TypeOK'
<1>1. ASSUME NEW j \in Jtis, NEW s \in Scopes, IssueToken(j, s)
      PROVE  TypeOK'
  BY <1>1, ConstantsAssumption, DistinctAssumption, IdleType DEF IssueToken,
     history, IInv, TypeOK, TokenType
<1>2. ASSUME NEW r \in Reqs, NEW op \in Operations, NEW k \in Keys,
             NEW b \in Bodies \cup {None}, NEW d \in BOOLEAN,
             NEW j \in Jtis \cup {None}, Receive(r, op, k, b, d, j)
      PROVE  TypeOK'
  BY <1>2, ConstantsAssumption, DistinctAssumption, IdleType DEF Receive,
     TokenAccepted, FirstStep, Idle, Operations, history, IInv, TypeOK,
     ReqType, Steps
<1>3. ASSUME NEW r \in Reqs, Step(r)
      PROVE  TypeOK'
  <2>1. CASE ConsumeTokenId(r)
    <3>1. consumed' \subseteq Jtis
      BY <2>1, ConstantsAssumption, DistinctAssumption
      DEF ConsumeTokenId, RetainedAt, IInv, TypeOK, RightsInv
    <3>2. req[r].jti \in Jtis
      BY <2>1 DEF ConsumeTokenId, IInv, RightsInv
    <3>3. req' \in [Reqs -> ReqType] /\ overtaken' \subseteq Reqs
      <4>1. CASE Answer(r)
        BY <4>1, AnswerType DEF IInv, TypeOK
      <4>2. CASE /\ req' = [req EXCEPT ![r].pc = FirstStep(req[r].op),
                                       ![r].jti = None, ![r].at = 0]
                 /\ UNCHANGED overtaken
        <5>1. req[r] \in ReqType
          BY DEF IInv, TypeOK
        <5>2. FirstStep(req[r].op) \in Steps
          BY <5>1 DEF FirstStep, Steps, ReqType, Operations
        <5>3. [req[r] EXCEPT !.pc = FirstStep(req[r].op), !.jti = None,
                             !.at = 0] \in ReqType
          BY <5>1, <5>2 DEF ReqType
        <5> QED BY <4>2, <5>3 DEF IInv, TypeOK
      <4> QED BY <2>1, <4>1, <4>2 DEF ConsumeTokenId
    <3> QED BY <2>1, <3>1, <3>2, <3>3 DEF ConsumeTokenId, IInv, TypeOK
  <2>2. CASE PutInspect(r)
    BY <2>2, AnswerType, GotoType DEF PutInspect, IInv, TypeOK, Steps
  <2>3. CASE PutCompare(r)
    BY <2>3, AnswerType, GotoType DEF PutCompare, IInv, TypeOK, Steps
  <2>4. CASE PutCreateTemp(r)
    <3>1. PICK n \in TempNames :
            /\ temp' = [temp EXCEPT ![n] = Partial]
            /\ req' = [req EXCEPT ![r].pc = "sync", ![r].tmp = n]
      BY <2>4 DEF PutCreateTemp
    <3>2. req' \in [Reqs -> ReqType]
      BY <3>1, SetTempType DEF IInv, TypeOK, Steps
    <3> QED BY <2>4, <3>1, <3>2 DEF PutCreateTemp, history, IInv, TypeOK
  <2>5. CASE PutWriteTemp(r)
    <3>1. req' \in [Reqs -> ReqType]
      BY <2>5, GotoType DEF PutWriteTemp, IInv, TypeOK, Steps
    <3>2. req[r].body \in Bodies
      BY <2>5 DEF PutWriteTemp, IInv, RightsInv, Writing
    <3> QED BY <2>5, <3>1, <3>2 DEF PutWriteTemp, history, IInv, TypeOK
  <2>6. CASE PutWriteFails(r)
    BY <2>6, AnswerType DEF PutWriteFails, IInv, TypeOK
  <2>7. CASE PutLink(r)
    <3>1. temp[req[r].tmp] \in Bodies
      BY <2>7 DEF PutLink, IInv, RightsInv, FileInv, Writing
    <3> QED BY <2>7, <3>1, AnswerType, GotoType DEF PutLink, IInv, TypeOK, Steps
  <2>8. CASE PutUnlinkTemp(r)
    <3>1. req' \in [Reqs -> ReqType]
      BY <2>8, SetTempType DEF PutUnlinkTemp, IInv, TypeOK, Steps
    <3> QED BY <2>8, <3>1 DEF PutUnlinkTemp, history, IInv, TypeOK
  <2>9. CASE PutStat(r)
    BY <2>9, AnswerType, GotoType DEF PutStat, IInv, TypeOK, Steps
  <2>10. CASE PutIndex(r)
    <3>1. req[r].key \in Keys
      BY <2>10 DEF PutIndex, IInv, RightsInv
    <3> QED BY <2>10, <3>1, AnswerType DEF PutIndex, IInv, TypeOK
  <2>11. CASE LocateFragment(r)
    BY <2>11, AnswerType, GotoType DEF LocateFragment, IInv, TypeOK, Steps
  <2>12. CASE ServeFragment(r)
    BY <2>12, AnswerType DEF ServeFragment, IInv, TypeOK
  <2>13. CASE DeleteRemove(r)
    BY <2>13, AnswerType, GotoType
    DEF DeleteRemove, InFlightUploads, IInv, TypeOK, Steps
  <2>14. CASE DeleteDeindex(r)
    BY <2>14, AnswerType DEF DeleteDeindex, IInv, TypeOK
  <2> QED BY <1>3, <2>1, <2>2, <2>3, <2>4, <2>5, <2>6, <2>7, <2>8, <2>9,
     <2>10, <2>11, <2>12, <2>13, <2>14 DEF Step
<1>4. CASE Tick
  BY <1>4, ConstantsAssumption, DistinctAssumption, IdleType DEF Tick,
     history, IInv, TypeOK
<1>5. CASE Restart
  BY <1>5, ConstantsAssumption, DistinctAssumption, IdleType DEF Restart,
     LoadExistingFragments, IInv, TypeOK
<1>6. CASE UNCHANGED vars
  BY <1>6, ConstantsAssumption, DistinctAssumption, IdleType DEF vars, IInv,
     TypeOK
<1> QED BY <1>1, <1>2, <1>3, <1>4, <1>5, <1>6 DEF Next

\* Every step keeps what the replay cache must remember.
LEMMA CacheStep ==
  ASSUME IInv, [Next]_vars
  PROVE  CacheInv'
<1>1. ASSUME NEW j \in Jtis, NEW s \in Scopes, IssueToken(j, s)
      PROVE  CacheInv'
  BY <1>1, ConstantsAssumption, DistinctAssumption DEF IssueToken, history,
     IInv, CacheInv, TypeOK, TokenType
<1>2. ASSUME NEW r \in Reqs, NEW op \in Operations, NEW k \in Keys,
             NEW b \in Bodies \cup {None}, NEW d \in BOOLEAN,
             NEW j \in Jtis \cup {None}, Receive(r, op, k, b, d, j)
      PROVE  CacheInv'
  BY <1>2, ConstantsAssumption, DistinctAssumption DEF Receive,
     TokenAccepted, FirstStep, Idle, Operations, history, IInv, CacheInv,
     TypeOK, ReqType
<1>3. ASSUME NEW r \in Reqs, Step(r)
      PROVE  CacheInv'
  <2>1. CASE ConsumeTokenId(r)
    BY <2>1, ConstantsAssumption, DistinctAssumption DEF ConsumeTokenId,
       history, Answer, Idle, FirstStep, RetainedAt, IInv, CacheInv,
       TypeOK, ReqType, TokenType, RightsInv
  <2>2. CASE PutInspect(r)
    BY <2>2, ConstantsAssumption, DistinctAssumption DEF PutInspect,
       history, Answer, Idle, Goto, IInv, CacheInv, TypeOK, ReqType
  <2>3. CASE PutCompare(r)
    BY <2>3, ConstantsAssumption, DistinctAssumption DEF PutCompare,
       history, Answer, Idle, Goto, IInv, CacheInv, TypeOK, ReqType
  <2>4. CASE PutCreateTemp(r)
    BY <2>4, ConstantsAssumption, DistinctAssumption DEF PutCreateTemp,
       history, IInv, CacheInv, TypeOK, ReqType
  <2>5. CASE PutWriteTemp(r)
    BY <2>5, ConstantsAssumption, DistinctAssumption DEF PutWriteTemp,
       history, Goto, IInv, CacheInv, TypeOK, ReqType
  <2>6. CASE PutWriteFails(r)
    BY <2>6, ConstantsAssumption, DistinctAssumption DEF PutWriteFails,
       history, Answer, Idle, IInv, CacheInv, TypeOK, ReqType
  <2>7. CASE PutLink(r)
    BY <2>7, ConstantsAssumption, DistinctAssumption DEF PutLink, history,
       Answer, Idle, Goto, IInv, CacheInv, TypeOK, ReqType
  <2>8. CASE PutUnlinkTemp(r)
    BY <2>8, ConstantsAssumption, DistinctAssumption DEF PutUnlinkTemp,
       history, IInv, CacheInv, TypeOK, ReqType
  <2>9. CASE PutStat(r)
    BY <2>9, ConstantsAssumption, DistinctAssumption DEF PutStat, history,
       Answer, Idle, Goto, IInv, CacheInv, TypeOK, ReqType
  <2>10. CASE PutIndex(r)
    BY <2>10, ConstantsAssumption, DistinctAssumption DEF PutIndex,
       history, Answer, Idle, IInv, CacheInv, TypeOK, ReqType
  <2>11. CASE LocateFragment(r)
    BY <2>11, ConstantsAssumption, DistinctAssumption DEF LocateFragment,
       history, Answer, Idle, Goto, IInv, CacheInv, TypeOK, ReqType
  <2>12. CASE ServeFragment(r)
    BY <2>12, ConstantsAssumption, DistinctAssumption DEF ServeFragment,
       history, Answer, Idle, IInv, CacheInv, TypeOK, ReqType
  <2>13. CASE DeleteRemove(r)
    BY <2>13, ConstantsAssumption, DistinctAssumption DEF DeleteRemove,
       history, Answer, Idle, Goto, InFlightUploads, IInv, CacheInv,
       TypeOK, ReqType
  <2>14. CASE DeleteDeindex(r)
    BY <2>14, ConstantsAssumption, DistinctAssumption DEF DeleteDeindex,
       history, Answer, Idle, IInv, CacheInv, TypeOK, ReqType
  <2> QED BY <1>3, <2>1, <2>2, <2>3, <2>4, <2>5, <2>6, <2>7, <2>8, <2>9,
     <2>10, <2>11, <2>12, <2>13, <2>14 DEF Step
<1>4. CASE Tick
  BY <1>4, ConstantsAssumption, DistinctAssumption DEF Tick, history, IInv,
     CacheInv, TypeOK, TokenType, ReqType
<1>5. CASE Restart
  BY <1>5, ConstantsAssumption, DistinctAssumption DEF Restart,
     LoadExistingFragments, Idle, IInv, CacheInv, TypeOK
<1>6. CASE UNCHANGED vars
  BY <1>6, ConstantsAssumption, DistinctAssumption DEF vars, IInv, CacheInv
<1> QED BY <1>1, <1>2, <1>3, <1>4, <1>5, <1>6 DEF Next

\* A handler past its token check holds a permit.
LEMMA RightsStep ==
  ASSUME IInv, [Next]_vars
  PROVE  RightsInv'
<1>1. ASSUME NEW j \in Jtis, NEW s \in Scopes, IssueToken(j, s)
      PROVE  RightsInv'
  BY <1>1, ConstantsAssumption, DistinctAssumption DEF IssueToken, history,
     IInv, CacheInv, RightsInv, Writing, Covers, Permits, TypeOK, ReqType
<1>2. ASSUME NEW r \in Reqs, NEW op \in Operations, NEW k \in Keys,
             NEW b \in Bodies \cup {None}, NEW d \in BOOLEAN,
             NEW j \in Jtis \cup {None}, Receive(r, op, k, b, d, j)
      PROVE  RightsInv'
  BY <1>2, ConstantsAssumption, DistinctAssumption DEF Receive,
     TokenAccepted, FirstStep, Idle, Operations, history, IInv, CacheInv,
     RightsInv, Writing, Covers, Permits, TypeOK, ReqType
<1>3. ASSUME NEW r \in Reqs, Step(r)
      PROVE  RightsInv'
  <2>1. CASE ConsumeTokenId(r)
    BY <2>1, ConstantsAssumption, DistinctAssumption DEF ConsumeTokenId,
       history, Answer, Idle, FirstStep, RetainedAt, IInv, CacheInv,
       RightsInv, Writing, Covers, Permits, TypeOK, ReqType
  <2>2. CASE PutInspect(r)
    BY <2>2, ConstantsAssumption, DistinctAssumption DEF PutInspect,
       history, Answer, Idle, Goto, IInv, CacheInv, RightsInv, Writing,
       Covers, Permits, TypeOK, ReqType
  <2>3. CASE PutCompare(r)
    BY <2>3, ConstantsAssumption, DistinctAssumption DEF PutCompare,
       history, Answer, Idle, Goto, IInv, CacheInv, RightsInv, Writing,
       Covers, Permits, TypeOK, ReqType
  <2>4. CASE PutCreateTemp(r)
    <3>1. PICK n \in TempNames :
            req' = [req EXCEPT ![r].pc = "sync", ![r].tmp = n]
      BY <2>4 DEF PutCreateTemp
    <3> QED BY <2>4, <3>1 DEF PutCreateTemp, history, IInv, RightsInv, Writing,
              Covers, Permits, TypeOK, ReqType
  <2>5. CASE PutWriteTemp(r)
    BY <2>5, ConstantsAssumption, DistinctAssumption DEF PutWriteTemp,
       history, Goto, IInv, CacheInv, RightsInv, Writing, Covers, Permits,
       TypeOK, ReqType
  <2>6. CASE PutWriteFails(r)
    BY <2>6, ConstantsAssumption, DistinctAssumption DEF PutWriteFails,
       history, Answer, Idle, IInv, CacheInv, RightsInv, Writing, Covers,
       Permits, TypeOK, ReqType
  <2>7. CASE PutLink(r)
    BY <2>7, ConstantsAssumption, DistinctAssumption DEF PutLink, history,
       Answer, Idle, Goto, IInv, CacheInv, RightsInv, Writing, Covers,
       Permits, TypeOK, ReqType
  <2>8. CASE PutUnlinkTemp(r)
    BY <2>8, ConstantsAssumption, DistinctAssumption DEF PutUnlinkTemp,
       history, IInv, CacheInv, RightsInv, Writing, Covers, Permits,
       TypeOK, ReqType
  <2>9. CASE PutStat(r)
    BY <2>9, ConstantsAssumption, DistinctAssumption DEF PutStat, history,
       Answer, Idle, Goto, IInv, CacheInv, RightsInv, Writing, Covers,
       Permits, TypeOK, ReqType
  <2>10. CASE PutIndex(r)
    BY <2>10, ConstantsAssumption, DistinctAssumption DEF PutIndex,
       history, Answer, Idle, IInv, CacheInv, RightsInv, Writing, Covers,
       Permits, TypeOK, ReqType
  <2>11. CASE LocateFragment(r)
    <3>1. CASE Answer(r)
      BY <2>11, <3>1 DEF LocateFragment, Answer, Idle, IInv, RightsInv, Writing,
         Covers, Permits, TypeOK, ReqType
    <3>2. CASE Goto(r, "remove") /\ req[r].op = "delete"
      BY <2>11, <3>2 DEF LocateFragment, Goto, IInv, RightsInv, Writing,
         Covers, Permits, TypeOK, ReqType
    <3>3. CASE Goto(r, "serve")
      BY <2>11, <3>3 DEF LocateFragment, Goto, IInv, RightsInv, Writing,
         Covers, Permits, TypeOK, ReqType
    <3> QED BY <2>11, <3>1, <3>2, <3>3 DEF LocateFragment
  <2>12. CASE ServeFragment(r)
    BY <2>12, ConstantsAssumption, DistinctAssumption DEF ServeFragment,
       history, Answer, Idle, IInv, CacheInv, RightsInv, Writing, Covers,
       Permits, TypeOK, ReqType
  <2>13. CASE DeleteRemove(r)
    BY <2>13, ConstantsAssumption, DistinctAssumption DEF DeleteRemove,
       history, Answer, Idle, Goto, InFlightUploads, IInv, CacheInv,
       RightsInv, Writing, Covers, Permits, TypeOK, ReqType
  <2>14. CASE DeleteDeindex(r)
    BY <2>14, ConstantsAssumption, DistinctAssumption DEF DeleteDeindex,
       history, Answer, Idle, IInv, CacheInv, RightsInv, Writing, Covers,
       Permits, TypeOK, ReqType
  <2> QED BY <1>3, <2>1, <2>2, <2>3, <2>4, <2>5, <2>6, <2>7, <2>8, <2>9,
     <2>10, <2>11, <2>12, <2>13, <2>14 DEF Step
<1>4. CASE Tick
  BY <1>4, ConstantsAssumption, DistinctAssumption DEF Tick, history, IInv,
     CacheInv, RightsInv, Writing, Covers, Permits, TypeOK, ReqType
<1>5. CASE Restart
  BY <1>5, ConstantsAssumption, DistinctAssumption DEF Restart,
     LoadExistingFragments, Idle, IInv, CacheInv, RightsInv, Writing,
     Covers, Permits, TypeOK, ReqType
<1>6. CASE UNCHANGED vars
  BY <1>6, ConstantsAssumption, DistinctAssumption DEF vars, IInv, CacheInv,
     RightsInv, Writing, Covers, Permits, TypeOK, ReqType
<1> QED BY <1>1, <1>2, <1>3, <1>4, <1>5, <1>6 DEF Next

\* Temporary files are not shared.
LEMMA FileStep ==
  ASSUME IInv, [Next]_vars
  PROVE  FileInv'
<1>1. ASSUME NEW j \in Jtis, NEW s \in Scopes, IssueToken(j, s)
      PROVE  FileInv'
  BY <1>1, ConstantsAssumption, DistinctAssumption DEF IssueToken, history,
     IInv, FileInv, RightsInv, Writing, Owning, TypeOK, ReqType
<1>2. ASSUME NEW r \in Reqs, NEW op \in Operations, NEW k \in Keys,
             NEW b \in Bodies \cup {None}, NEW d \in BOOLEAN,
             NEW j \in Jtis \cup {None}, Receive(r, op, k, b, d, j)
      PROVE  FileInv'
  BY <1>2, ConstantsAssumption, DistinctAssumption DEF Receive,
     TokenAccepted, FirstStep, Idle, Operations, history, IInv, FileInv,
     RightsInv, Writing, Owning, TypeOK, ReqType
<1>3. ASSUME NEW r \in Reqs, Step(r)
      PROVE  FileInv'
  <2>1. CASE ConsumeTokenId(r)
    BY <2>1, ConstantsAssumption, DistinctAssumption DEF ConsumeTokenId,
       history, Answer, Idle, FirstStep, RetainedAt, IInv, FileInv,
       RightsInv, Writing, Owning, TypeOK, ReqType
  <2>2. CASE PutInspect(r)
    BY <2>2, ConstantsAssumption, DistinctAssumption DEF PutInspect,
       history, Answer, Idle, Goto, IInv, FileInv, RightsInv, Writing,
       Owning, TypeOK, ReqType
  <2>3. CASE PutCompare(r)
    BY <2>3, ConstantsAssumption, DistinctAssumption DEF PutCompare,
       history, Answer, Idle, Goto, IInv, FileInv, RightsInv, Writing,
       Owning, TypeOK, ReqType
  <2>4. CASE PutCreateTemp(r)
    BY <2>4, ConstantsAssumption, DistinctAssumption DEF PutCreateTemp,
       history, IInv, FileInv, RightsInv, Writing, Owning, TypeOK, ReqType
  <2>5. CASE PutWriteTemp(r)
    BY <2>5, ConstantsAssumption, DistinctAssumption DEF PutWriteTemp,
       history, Goto, IInv, FileInv, RightsInv, Writing, Owning, TypeOK,
       ReqType
  <2>6. CASE PutWriteFails(r)
    BY <2>6, ConstantsAssumption, DistinctAssumption DEF PutWriteFails,
       history, Answer, Idle, IInv, FileInv, RightsInv, Writing, Owning,
       TypeOK, ReqType
  <2>7. CASE PutLink(r)
    BY <2>7, ConstantsAssumption, DistinctAssumption DEF PutLink, history,
       Answer, Idle, Goto, IInv, FileInv, RightsInv, Writing, Owning,
       TypeOK, ReqType
  <2>8. CASE PutUnlinkTemp(r)
    BY <2>8, ConstantsAssumption, DistinctAssumption DEF PutUnlinkTemp,
       history, IInv, FileInv, RightsInv, Writing, Owning, TypeOK, ReqType
  <2>9. CASE PutStat(r)
    <3>1. CASE Answer(r)
      BY <2>9, <3>1 DEF PutStat, Answer, Idle, IInv, FileInv, Owning,
         TypeOK, ReqType
    <3>2. CASE Goto(r, "insert")
      BY <2>9, <3>2 DEF PutStat, Goto, IInv, FileInv, Owning, TypeOK, ReqType
    <3> QED BY <2>9, <3>1, <3>2 DEF PutStat
  <2>10. CASE PutIndex(r)
    BY <2>10, ConstantsAssumption, DistinctAssumption DEF PutIndex,
       history, Answer, Idle, IInv, FileInv, RightsInv, Writing, Owning,
       TypeOK, ReqType
  <2>11. CASE LocateFragment(r)
    BY <2>11, ConstantsAssumption, DistinctAssumption DEF LocateFragment,
       history, Answer, Idle, Goto, IInv, FileInv, RightsInv, Writing,
       Owning, TypeOK, ReqType
  <2>12. CASE ServeFragment(r)
    BY <2>12, ConstantsAssumption, DistinctAssumption DEF ServeFragment,
       history, Answer, Idle, IInv, FileInv, RightsInv, Writing, Owning,
       TypeOK, ReqType
  <2>13. CASE DeleteRemove(r)
    BY <2>13, ConstantsAssumption, DistinctAssumption DEF DeleteRemove,
       history, Answer, Idle, Goto, InFlightUploads, IInv, FileInv,
       RightsInv, Writing, Owning, TypeOK, ReqType
  <2>14. CASE DeleteDeindex(r)
    BY <2>14, ConstantsAssumption, DistinctAssumption DEF DeleteDeindex,
       history, Answer, Idle, IInv, FileInv, RightsInv, Writing, Owning,
       TypeOK, ReqType
  <2> QED BY <1>3, <2>1, <2>2, <2>3, <2>4, <2>5, <2>6, <2>7, <2>8, <2>9,
     <2>10, <2>11, <2>12, <2>13, <2>14 DEF Step
<1>4. CASE Tick
  BY <1>4, ConstantsAssumption, DistinctAssumption DEF Tick, history, IInv,
     FileInv, RightsInv, Writing, Owning, TypeOK, ReqType
<1>5. CASE Restart
  BY <1>5, ConstantsAssumption, DistinctAssumption DEF Restart,
     LoadExistingFragments, Idle, IInv, FileInv, RightsInv, Writing, Owning,
     TypeOK, ReqType
<1>6. CASE UNCHANGED vars
  BY <1>6, ConstantsAssumption, DistinctAssumption DEF vars, IInv, FileInv,
     RightsInv, Writing, Owning, TypeOK, ReqType
<1> QED BY <1>1, <1>2, <1>3, <1>4, <1>5, <1>6 DEF Next

\* Only a deletion takes an upload's body away.
LEMMA StoredStep ==
  ASSUME IInv, [Next]_vars
  PROVE  StoredInv'
<1>1. ASSUME NEW j \in Jtis, NEW s \in Scopes, IssueToken(j, s)
      PROVE  StoredInv'
  BY <1>1, ConstantsAssumption, DistinctAssumption DEF IssueToken, history,
     IInv, StoredInv, FileInv, RightsInv, Writing, TypeOK, ReqType
<1>2. ASSUME NEW r \in Reqs, NEW op \in Operations, NEW k \in Keys,
             NEW b \in Bodies \cup {None}, NEW d \in BOOLEAN,
             NEW j \in Jtis \cup {None}, Receive(r, op, k, b, d, j)
      PROVE  StoredInv'
  BY <1>2, ConstantsAssumption, DistinctAssumption DEF Receive,
     TokenAccepted, FirstStep, Idle, Operations, history, IInv, StoredInv,
     FileInv, RightsInv, Writing, TypeOK, ReqType
<1>3. ASSUME NEW r \in Reqs, Step(r)
      PROVE  StoredInv'
  <2>1. CASE ConsumeTokenId(r)
    BY <2>1, ConstantsAssumption, DistinctAssumption DEF ConsumeTokenId,
       history, Answer, Idle, FirstStep, RetainedAt, IInv, StoredInv,
       FileInv, RightsInv, Writing, TypeOK, ReqType
  <2>2. CASE PutInspect(r)
    BY <2>2, ConstantsAssumption, DistinctAssumption DEF PutInspect,
       history, Answer, Idle, Goto, IInv, StoredInv, FileInv, RightsInv,
       Writing, TypeOK, ReqType
  <2>3. CASE PutCompare(r)
    BY <2>3, ConstantsAssumption, DistinctAssumption DEF PutCompare,
       history, Answer, Idle, Goto, IInv, StoredInv, FileInv, RightsInv,
       Writing, TypeOK, ReqType
  <2>4. CASE PutCreateTemp(r)
    BY <2>4, ConstantsAssumption, DistinctAssumption DEF PutCreateTemp,
       history, IInv, StoredInv, FileInv, RightsInv, Writing, TypeOK,
       ReqType
  <2>5. CASE PutWriteTemp(r)
    BY <2>5, ConstantsAssumption, DistinctAssumption DEF PutWriteTemp,
       history, Goto, IInv, StoredInv, FileInv, RightsInv, Writing,
       TypeOK, ReqType
  <2>6. CASE PutWriteFails(r)
    BY <2>6, ConstantsAssumption, DistinctAssumption DEF PutWriteFails,
       history, Answer, Idle, IInv, StoredInv, FileInv, RightsInv,
       Writing, TypeOK, ReqType
  <2>7. CASE PutLink(r)
    BY <2>7, ConstantsAssumption, DistinctAssumption DEF PutLink, history,
       Answer, Idle, Goto, IInv, StoredInv, FileInv, RightsInv, Writing,
       TypeOK, ReqType
  <2>8. CASE PutUnlinkTemp(r)
    BY <2>8, ConstantsAssumption, DistinctAssumption DEF PutUnlinkTemp,
       history, IInv, StoredInv, FileInv, RightsInv, Writing, TypeOK,
       ReqType
  <2>9. CASE PutStat(r)
    BY <2>9, ConstantsAssumption, DistinctAssumption DEF PutStat, history,
       Answer, Idle, Goto, IInv, StoredInv, FileInv, RightsInv, Writing,
       TypeOK, ReqType
  <2>10. CASE PutIndex(r)
    BY <2>10, ConstantsAssumption, DistinctAssumption DEF PutIndex,
       history, Answer, Idle, IInv, StoredInv, FileInv, RightsInv,
       Writing, TypeOK, ReqType
  <2>11. CASE LocateFragment(r)
    BY <2>11, ConstantsAssumption, DistinctAssumption DEF LocateFragment,
       history, Answer, Idle, Goto, IInv, StoredInv, FileInv, RightsInv,
       Writing, TypeOK, ReqType
  <2>12. CASE ServeFragment(r)
    BY <2>12, ConstantsAssumption, DistinctAssumption DEF ServeFragment,
       history, Answer, Idle, IInv, StoredInv, FileInv, RightsInv,
       Writing, TypeOK, ReqType
  <2>13. CASE DeleteRemove(r)
    BY <2>13, ConstantsAssumption, DistinctAssumption DEF DeleteRemove,
       history, Answer, Idle, Goto, InFlightUploads, IInv, StoredInv,
       FileInv, RightsInv, Writing, TypeOK, ReqType
  <2>14. CASE DeleteDeindex(r)
    BY <2>14, ConstantsAssumption, DistinctAssumption DEF DeleteDeindex,
       history, Answer, Idle, IInv, StoredInv, FileInv, RightsInv,
       Writing, TypeOK, ReqType
  <2> QED BY <1>3, <2>1, <2>2, <2>3, <2>4, <2>5, <2>6, <2>7, <2>8, <2>9,
     <2>10, <2>11, <2>12, <2>13, <2>14 DEF Step
<1>4. CASE Tick
  BY <1>4, ConstantsAssumption, DistinctAssumption DEF Tick, history, IInv,
     StoredInv, FileInv, RightsInv, Writing, TypeOK, ReqType
<1>5. CASE Restart
  BY <1>5, ConstantsAssumption, DistinctAssumption DEF Restart,
     LoadExistingFragments, Idle, IInv, StoredInv, FileInv, RightsInv,
     Writing, TypeOK, ReqType
<1>6. CASE UNCHANGED vars
  BY <1>6, ConstantsAssumption, DistinctAssumption DEF vars, IInv,
     StoredInv, FileInv, RightsInv, Writing, TypeOK, ReqType
<1> QED BY <1>1, <1>2, <1>3, <1>4, <1>5, <1>6 DEF Next

\* The initial state satisfies the invariant.
LEMMA InitInv == Init => IInv
<1> SUFFICES ASSUME Init PROVE IInv
  OBVIOUS
<1>1. TypeOK
  BY ConstantsAssumption, IdleType DEF Init, TypeOK
<1>2. CacheInv /\ StoredInv
  BY DEF Init, CacheInv, StoredInv, Idle
<1>3. RightsInv
  BY DEF Init, RightsInv, Idle, Writing
<1>4. FileInv
  BY DEF Init, FileInv, Idle, Owning
<1> QED BY <1>1, <1>2, <1>3, <1>4 DEF IInv

\* The invariant is inductive.
THEOREM Invariance == Spec => []IInv
<1>1. IInv /\ [Next]_vars => IInv'
  <2> SUFFICES ASSUME IInv, [Next]_vars PROVE IInv'
    OBVIOUS
  <2> QED BY TypeStep, CacheStep, RightsStep, FileStep, StoredStep DEF IInv
<1> QED BY InitInv, <1>1, PTL DEF Spec

\* Every reachable state of a storage node is well typed; in particular no
\* partially written file ever has a fragment's name.
THEOREM TypeCorrect == Spec => []TypeOK
<1>1. IInv => TypeOK
  BY DEF IInv
<1> QED BY <1>1, Invariance, PTL

\* consume_token_id accepts a token id again only after the token expired.
THEOREM TokenReuse == Spec => []ReuseOnlyAfterExpiry
<1>1. IInv => ReuseOnlyAfterExpiry
  BY DEF IInv, CacheInv, ReuseOnlyAfterExpiry
<1> QED BY <1>1, Invariance, PTL

\* put_fragment answers 200 only when the body it received is stored, unless
\* the key was deleted while the request ran.
THEOREM Acknowledged == Spec => []AckMeansStored
<1>1. IInv => AckMeansStored
  BY DEF IInv, StoredInv, AckMeansStored
<1> QED BY <1>1, Invariance, PTL

\* A step that leaves the directory alone and accepts no token is a stutter
\* of the abstract store.
LEMMA QuietStep ==
  ASSUME IInv, UNCHANGED disk, granted' = granted,
         \A j \in granted : token'[j] = token[j]
  PROVE  UNCHANGED <<disk, Permits>>
BY DEF IInv, CacheInv, Permits

\* Every step of the node is a step of FragmentStore, or leaves it unchanged.
LEMMA StoreStep ==
  ASSUME IInv, [Next]_vars
  PROVE  [Store!Next]_<<disk, Permits>>
<1>1. ASSUME NEW j \in Jtis, NEW s \in Scopes, IssueToken(j, s)
      PROVE  UNCHANGED <<disk, Permits>>
  <2>1. \A i \in granted : token'[i] = token[i]
    BY <1>1 DEF IssueToken, IInv, CacheInv, TypeOK
  <2> QED BY <1>1, <2>1, QuietStep DEF IssueToken, history
<1>2. ASSUME NEW r \in Reqs, NEW op \in Operations, NEW k \in Keys,
             NEW b \in Bodies \cup {None}, NEW d \in BOOLEAN,
             NEW j \in Jtis \cup {None}, Receive(r, op, k, b, d, j)
      PROVE  UNCHANGED <<disk, Permits>>
  BY <1>2, QuietStep DEF Receive, history
<1>3. ASSUME NEW r \in Reqs, Step(r)
      PROVE  [Store!Next]_<<disk, Permits>>
  <2>1. CASE ConsumeTokenId(r)
    <3>1. CASE UNCHANGED granted
      BY <2>1, <3>1, QuietStep DEF ConsumeTokenId
    <3>2. CASE granted' = granted \cup {req[r].jti}
      <4>1. req[r].jti \in Jtis /\ token[req[r].jti] # None
        BY <2>1 DEF ConsumeTokenId, IInv, RightsInv
      <4>2. token[req[r].jti].scope \in Scopes
        BY <4>1 DEF IInv, TypeOK, TokenType
      <4>3. Permits' = Permits \cup {token[req[r].jti].scope}
        BY <2>1, <3>2 DEF ConsumeTokenId, Permits
      <4>4. Store!Accept
        BY <2>1, <4>2, <4>3 DEF ConsumeTokenId, Store!Accept
      <4> QED BY <4>4 DEF Store!Next
    <3> QED BY <2>1, <3>1, <3>2 DEF ConsumeTokenId
  <2>2. CASE PutInspect(r) \/ PutCompare(r) \/ PutStat(r)
    BY <2>2, QuietStep DEF PutInspect, PutCompare, PutStat
  <2>3. CASE \/ PutCreateTemp(r) \/ PutWriteTemp(r) \/ PutWriteFails(r)
             \/ PutUnlinkTemp(r)
    BY <2>3, QuietStep
    DEF PutCreateTemp, PutWriteTemp, PutWriteFails, PutUnlinkTemp, history
  <2>4. CASE PutIndex(r) \/ LocateFragment(r) \/ ServeFragment(r)
             \/ DeleteDeindex(r)
    BY <2>4, QuietStep
    DEF PutIndex, LocateFragment, ServeFragment, DeleteDeindex
  <2>5. CASE PutLink(r)
    <3> DEFINE k == req[r].key
               b == req[r].body
    <3>1. UNCHANGED Permits
      BY <2>5 DEF PutLink, Permits
    <3>2. CASE disk[k] = NoFile
      <4>1. /\ k \in Keys /\ b \in Bodies /\ temp[req[r].tmp] = b
            /\ req[r].op = "write"
        BY <2>5 DEF PutLink, IInv, RightsInv, FileInv, Writing
      <4>2. Store!MayStore(k, b)
        BY <2>5, <4>1
        DEF PutLink, IInv, RightsInv, Covers, Store!MayStore
      <4>3. disk' = [disk EXCEPT ![k] = b]
        BY <2>5, <3>2, <4>1 DEF PutLink
      <4>4. Store!Put(k, b)
        BY <3>1, <3>2, <4>2, <4>3 DEF Store!Put
      <4> QED BY <4>1, <4>4 DEF Store!Next
    <3>3. CASE disk[k] # NoFile
      BY <2>5, <3>1, <3>3 DEF PutLink
    <3> QED BY <3>2, <3>3
  <2>6. CASE DeleteRemove(r)
    <3> DEFINE k == req[r].key
    <3>1. UNCHANGED Permits
      BY <2>6 DEF DeleteRemove, Permits
    <3>2. CASE disk[k] = NoFile
      BY <2>6, <3>1, <3>2 DEF DeleteRemove
    <3>3. CASE disk[k] # NoFile
      <4>1. k \in Keys /\ req[r].op = "delete" /\ disk[k] \in Bodies
        BY <2>6, <3>3 DEF DeleteRemove, IInv, RightsInv, FileInv, TypeOK
      <4>2. Store!MayRemove(k)
        BY <2>6, <4>1
        DEF DeleteRemove, IInv, RightsInv, Covers, Store!MayRemove
      <4>3. disk' = [disk EXCEPT ![k] = NoFile]
        BY <2>6, <3>3 DEF DeleteRemove
      <4>4. Store!Remove(k)
        BY <3>1, <4>1, <4>2, <4>3 DEF Store!Remove
      <4> QED BY <4>1, <4>4 DEF Store!Next
    <3> QED BY <3>2, <3>3
  <2> QED BY <1>3, <2>1, <2>2, <2>3, <2>4, <2>5, <2>6 DEF Step
<1>4. CASE Tick \/ Restart
  BY <1>4, QuietStep DEF Tick, Restart, history
<1>5. CASE UNCHANGED vars
  BY <1>5, QuietStep DEF vars
<1> QED BY <1>1, <1>2, <1>3, <1>4, <1>5 DEF Next

\* The storage node implements the write-once, permit-guarded store: whatever
\* handlers interleave, fail or crash, its directory changes only as
\* FragmentStore allows.
THEOREM Refinement == Spec => ImplementsFragmentStore
<1>1. Init => Store!Init
  BY DEF Init, Store!Init, Permits
<1>2. IInv /\ [Next]_vars => [Store!Next]_<<disk, Permits>>
  BY StoreStep
<1> QED BY <1>1, <1>2, Invariance, PTL DEF Spec, ImplementsFragmentStore, Store!Spec
=============================================================================
