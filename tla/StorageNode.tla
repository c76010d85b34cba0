---------------------------- MODULE StorageNode ----------------------------
(***************************************************************************)
(* One storage node (crates/storage-node/src/main.rs): the PUT, GET and    *)
(* DELETE handlers of /fragments/:key, the Oracle-signed tokens that       *)
(* authorise them, the in-memory replay cache and fragment index, the      *)
(* storage directory, and a crash followed by a restart.                   *)
(*                                                                         *)
(* A handler is split at every await: between two steps of one request any *)
(* other request, the clock or a crash may run.  Contents are abstract: a  *)
(* body is a model value and stands for its own SHA-256 hash.              *)
(***************************************************************************)
EXTENDS Naturals, FiniteSets

CONSTANTS
  Keys,          \* storage keys a request may name
  UnsafeKeys,    \* those validate_storage_key rejects
  Bodies,        \* encrypted fragment contents
  Oversized,     \* those longer than max_fragment_size
  Jtis,          \* ids of the tokens the Oracle may sign
  Scopes,        \* what they may grant: key, operation, node, hash
  Reqs,          \* slots for concurrent HTTP requests
  TempNames,     \* bound: names ".upload-..." of temporary files
  Nodes, NodeId, \* storage nodes, and the one this module is
  RequireAuth,   \* REQUIRE_AUTH
  HasOracleKey,  \* oracle_public_key.is_some()
  TokenLife,     \* expires_in_minutes of a storage token
  MaxTime,       \* bound: last instant of the clock
  NoFile, Symlink, Partial, None

Operations == {"read", "write", "delete"}

ASSUME ConstantsAssumption ==
  /\ Scopes \subseteq [key : Keys, op : Operations, node : Nodes \cup {None},
                       hash : Bodies \cup {None}]
  /\ UnsafeKeys \subseteq Keys /\ Oversized \subseteq Bodies
  /\ NodeId \in Nodes
  /\ RequireAuth \in BOOLEAN /\ HasOracleKey \in BOOLEAN
  /\ TokenLife \in Nat /\ MaxTime \in Nat

ASSUME DistinctAssumption ==
  /\ {NoFile, Symlink, Partial, None} \cap Bodies = {}
  /\ NoFile # Symlink /\ NoFile # Partial /\ Symlink # Partial
  /\ None \notin Keys \cup Jtis \cup TempNames \cup Nodes
  /\ Keys \cap TempNames = {}

VARIABLES
  now,        \* chrono::Utc::now().timestamp()
  token,      \* jti -> the StorageToken signed with it, or None
  req,        \* request slot -> the state of its handler
  consumed,   \* consumed_token_ids: the jtis kept (their exp is token[j].exp)
  disk,       \* storage_dir: key -> content
  temp,       \* storage_dir: temporary name -> content
  index,      \* fragments: the names the in-memory index holds
  used,       \* history: jtis accepted since the last boot
  reused,     \* history: jtis accepted more than once since the last boot
  granted,    \* history: jtis ever accepted for a write or a delete
  overtaken   \* history: in-flight uploads whose key was deleted meanwhile

vars == <<now, token, req, consumed, disk, temp, index,
          used, reused, granted, overtaken>>
history == <<used, reused, granted, overtaken>>

Steps == {"idle", "consume", "inspect", "compare", "create", "sync", "link",
          "unlink", "stat", "insert", "locate", "remove", "deindex", "serve"}
TokenType == [scope : Scopes, exp : Nat]
ReqType == [pc : Steps, op : Operations, key : Keys \cup {None},
            body : Bodies \cup {None}, declared : BOOLEAN,
            jti : Jtis \cup {None}, at : Nat, tmp : TempNames \cup {None}]

Idle == [pc |-> "idle", op |-> "read", key |-> None, body |-> None,
         declared |-> TRUE, jti |-> None, at |-> 0, tmp |-> None]

\* Every variable has its type; in particular no file under a fragment's name
\* is ever incomplete, whatever crash or error interrupts
\* atomic_write_new_fragment.
TypeOK ==
  /\ now \in Nat
  /\ token \in [Jtis -> TokenType \cup {None}]
  /\ req \in [Reqs -> ReqType]
  /\ consumed \subseteq Jtis
  /\ disk \in [Keys -> Bodies \cup {NoFile, Symlink}]
  /\ temp \in [TempNames -> Bodies \cup {NoFile, Partial}]
  /\ index \subseteq Keys \cup TempNames
  /\ used \subseteq Jtis /\ reused \subseteq Jtis /\ granted \subseteq Jtis
  /\ overtaken \subseteq Reqs

(***************************************************************************)
(* The directory starts with no fragment; an operator may have left a      *)
(* symbolic link in it.  A directory entry behaves like a link.            *)
(***************************************************************************)
Init ==
  /\ now = 0
  /\ token = [j \in Jtis |-> None]
  /\ req = [r \in Reqs |-> Idle]
  /\ consumed = {}
  /\ disk \in [Keys -> {NoFile, Symlink}]
  /\ temp = [n \in TempNames |-> NoFile]
  /\ index = {k \in Keys : disk[k] = Symlink}
  /\ used = {} /\ reused = {} /\ granted = {} /\ overtaken = {}

-----------------------------------------------------------------------------
(* Tokens *)

\* StorageToken::new_scoped, signed by the Oracle with a fresh jti.
IssueToken(j, s) ==
  /\ token[j] = None
  /\ token' = [token EXCEPT ![j] = [scope |-> s, exp |-> now + TokenLife]]
  /\ UNCHANGED <<now, req, consumed, disk, temp, index, history>>

\* Mutant of TokenAccepted: the token's storage key is not compared.
TokenAcceptedAnyKey(j, k, op, b) ==
  /\ HasOracleKey
  /\ j # None
  /\ token[j] # None
  /\ now <= token[j].exp
  /\ token[j].scope.node = NodeId
  /\ token[j].scope.op = op
  /\ op = "write" => token[j].scope.hash \in {None, b}

\* verify_token_for_operation up to the replay cache: signature (only issued
\* tokens verify), expiry, key, node, operation and, for a write, the hash.
TokenAccepted(j, k, op, b) ==
  /\ HasOracleKey
  /\ j # None
  /\ token[j] # None
  /\ now <= token[j].exp
  /\ token[j].scope.key = k
  /\ token[j].scope.node = NodeId
  /\ token[j].scope.op = op
  /\ op = "write" => token[j].scope.hash \in {None, b}

\* Answering a request frees its slot; the response is not kept.
Answer(r) ==
  /\ req' = [req EXCEPT ![r] = Idle]
  /\ overtaken' = overtaken \ {r}

Goto(r, step) == req' = [req EXCEPT ![r].pc = step]

FirstStep(op) == CASE op = "write"  -> "inspect"
                   [] op = "delete" -> "locate"
                   [] op = "read"   -> "locate"

\* A request arrives (only a PUT has a body).  Everything up to the first await happens at one
\* instant, which `at' remembers until the token id is consumed: the size
\* check, and all token checks but the replay cache.  d: no hash was declared
\* or it is the body's.  A refused request changes nothing.
Receive(r, op, k, b, d, j) ==
  /\ req[r].pc = "idle"
  /\ op = "write" <=> b # None
  /\ b = None => d
  /\ op = "write" => b \notin Oversized
  /\ RequireAuth => TokenAccepted(j, k, op, b)
  /\ LET q == [Idle EXCEPT !.op = op, !.key = k, !.body = b, !.declared = d]
     IN req' = [req EXCEPT ![r] =
          IF RequireAuth /\ op # "read"
          THEN [q EXCEPT !.pc = "consume", !.jti = j, !.at = now]
          ELSE [q EXCEPT !.pc = FirstStep(op)]]
  /\ UNCHANGED <<now, token, consumed, disk, temp, index, history>>

\* Mutant of RetainedAt: a token is forgotten in its last valid second.
RetainedAtStrict(t) == {j \in consumed : token[j].exp > t}

\* consume_token_id under the write lock: purge the entries that expired
\* before `at', refuse a known jti, otherwise remember it.
RetainedAt(t) == {j \in consumed : token[j].exp >= t}

ConsumeTokenId(r) ==
  /\ req[r].pc = "consume"
  /\ LET j == req[r].jti
         kept == RetainedAt(req[r].at)
     IN \/ /\ j \in kept
           /\ consumed' = kept
           /\ Answer(r)
           /\ UNCHANGED <<used, reused, granted>>
        \/ /\ j \notin kept
           /\ consumed' = kept \cup {j}
           /\ req' = [req EXCEPT ![r].pc = FirstStep(req[r].op),
                                 ![r].jti = None, ![r].at = 0]
           /\ reused' = IF j \in used THEN reused \cup {j} ELSE reused
           /\ used' = used \cup {j}
           /\ granted' = granted \cup {j}
           /\ UNCHANGED overtaken
  /\ UNCHANGED <<now, token, disk, temp, index>>

-----------------------------------------------------------------------------
(* put_fragment after the token check *)

\* Declared hash, key validation, then symlink_metadata of the path.
PutInspect(r) ==
  LET q == req[r] IN
  /\ q.pc = "inspect"
  /\ \/ /\ \/ ~q.declared   \* 400 hash mismatch
           \/ q.key \in UnsafeKeys                 \* 400 invalid key
           \/ disk[q.key] = Symlink                \* 403
        /\ Answer(r)
     \/ /\ q.declared
        /\ q.key \notin UnsafeKeys
        /\ disk[q.key] # Symlink
        /\ Goto(r, IF disk[q.key] = NoFile THEN "create" ELSE "compare")
        /\ UNCHANGED overtaken
  /\ UNCHANGED <<now, token, consumed, disk, temp, index, used, reused, granted>>

\* fs::read of the existing fragment: it may have been deleted (500), have
\* other content (409), or be the same upload again.
PutCompare(r) ==
  LET q == req[r] IN
  /\ q.pc = "compare"
  /\ \/ disk[q.key] # q.body /\ Answer(r)
     \/ disk[q.key] = q.body /\ Goto(r, "insert") /\ UNCHANGED overtaken
  /\ UNCHANGED <<now, token, consumed, disk, temp, index, used, reused, granted>>

\* Mutant of PutCreateTemp: the file is linked before it is written.
PutCreateTempUnsynced(r) ==
  /\ req[r].pc = "create"
  /\ \E n \in TempNames :
       /\ temp[n] = NoFile
       /\ temp' = [temp EXCEPT ![n] = Partial]
       /\ req' = [req EXCEPT ![r].pc = "link", ![r].tmp = n]
  /\ UNCHANGED <<now, token, consumed, disk, index, history>>

\* atomic_write_new_fragment: create_new of the temporary file ...
PutCreateTemp(r) ==
  /\ req[r].pc = "create"
  /\ \E n \in TempNames :
       /\ temp[n] = NoFile
       /\ temp' = [temp EXCEPT ![n] = Partial]
       /\ req' = [req EXCEPT ![r].pc = "sync", ![r].tmp = n]
  /\ UNCHANGED <<now, token, consumed, disk, index, history>>

\* ... write_all and sync_all ...
PutWriteTemp(r) ==
  /\ req[r].pc = "sync"
  /\ temp' = [temp EXCEPT ![req[r].tmp] = req[r].body]
  /\ Goto(r, "link")
  /\ UNCHANGED <<now, token, consumed, disk, index, history>>

\* ... any of them failing removes the temporary file, if it can (500).
\* When the last one fails the fragment is stored all the same ...
PutWriteFails(r) ==
  /\ req[r].pc \in {"sync", "link", "unlink"}
  /\ \/ temp' = [temp EXCEPT ![req[r].tmp] = NoFile]
     \/ UNCHANGED temp
  /\ Answer(r)
  /\ UNCHANGED <<now, token, consumed, disk, index, used, reused, granted>>

\* Mutant of PutLink: AlreadyExists is taken for success.
PutLinkExistsIsOk(r) ==
  /\ req[r].pc = "link"
  /\ disk' = IF disk[req[r].key] = NoFile
             THEN [disk EXCEPT ![req[r].key] = temp[req[r].tmp]] ELSE disk
  /\ Goto(r, "unlink")
  /\ UNCHANGED <<now, token, consumed, temp, index, history>>

\* ... hard_link to the final name, which fails with AlreadyExists if the
\* name appeared meanwhile: that branch leaves the temporary file behind ...
PutLink(r) ==
  LET q == req[r] IN
  /\ q.pc = "link"
  /\ \/ /\ disk[q.key] = NoFile
        /\ disk' = [disk EXCEPT ![q.key] = temp[q.tmp]]
        /\ Goto(r, "unlink")
        /\ UNCHANGED overtaken
     \/ /\ disk[q.key] # NoFile
        /\ Answer(r)
        /\ UNCHANGED disk
  /\ UNCHANGED <<now, token, consumed, temp, index, used, reused, granted>>

\* ... remove_file of the temporary name ...
PutUnlinkTemp(r) ==
  /\ req[r].pc = "unlink"
  /\ temp' = [temp EXCEPT ![req[r].tmp] = NoFile]
  /\ req' = [req EXCEPT ![r].pc = "stat", ![r].tmp = None]
  /\ UNCHANGED <<now, token, consumed, disk, index, history>>

\* ... and symlink_metadata of the final name (500 when it is gone again).
PutStat(r) ==
  LET q == req[r] IN
  /\ q.pc = "stat"
  /\ \/ disk[q.key] = NoFile /\ Answer(r)
     \/ disk[q.key] # NoFile /\ Goto(r, "insert") /\ UNCHANGED overtaken
  /\ UNCHANGED <<now, token, consumed, disk, temp, index, used, reused, granted>>

\* Update the index under its lock and answer 200.
PutIndex(r) ==
  /\ req[r].pc = "insert"
  /\ index' = index \cup {req[r].key}
  /\ Answer(r)
  /\ UNCHANGED <<now, token, consumed, disk, temp, used, reused, granted>>

-----------------------------------------------------------------------------
(* get_fragment and delete_fragment after the token check *)

\* existing_fragment_path: a regular file under a safe key, or an error.
LocateFragment(r) ==
  LET q == req[r] IN
  /\ q.pc = "locate"
  /\ \/ /\ q.key \in UnsafeKeys \/ disk[q.key] \in {NoFile, Symlink}
        /\ Answer(r)
     \/ /\ q.key \notin UnsafeKeys /\ disk[q.key] \notin {NoFile, Symlink}
        /\ Goto(r, IF q.op = "delete" THEN "remove" ELSE "serve")
        /\ UNCHANGED overtaken
  /\ UNCHANGED <<now, token, consumed, disk, temp, index, used, reused, granted>>

\* fs::read and the response (404 if the file has gone).
ServeFragment(r) ==
  /\ req[r].pc = "serve"
  /\ Answer(r)
  /\ UNCHANGED <<now, token, consumed, disk, temp, index, used, reused, granted>>

InFlightUploads(k) == {s \in Reqs : req[s].op = "write" /\ req[s].key = k}

\* fs::remove_file; the index entry goes in a later step.
DeleteRemove(r) ==
  LET q == req[r] IN
  /\ q.pc = "remove"
  /\ \/ /\ disk[q.key] = NoFile
        /\ Answer(r)
        /\ UNCHANGED disk
     \/ /\ disk[q.key] # NoFile
        /\ disk' = [disk EXCEPT ![q.key] = NoFile]
        /\ overtaken' = overtaken \cup InFlightUploads(q.key)
        /\ Goto(r, "deindex")
  /\ UNCHANGED <<now, token, consumed, temp, index, used, reused, granted>>

DeleteDeindex(r) ==
  /\ req[r].pc = "deindex"
  /\ index' = index \ {req[r].key}
  /\ Answer(r)
  /\ UNCHANGED <<now, token, consumed, disk, temp, used, reused, granted>>

-----------------------------------------------------------------------------
(* The clock, and a crash with its restart *)

Tick ==
  /\ now < MaxTime
  /\ now' = now + 1
  /\ UNCHANGED <<token, req, consumed, disk, temp, index, history>>

\* main after a crash: requests die, both maps are rebuilt.  The replay cache
\* starts empty; load_existing_fragments indexes every file of the directory,
\* temporary ones and links to files included.
LoadExistingFragments ==
  {k \in Keys : disk[k] # NoFile} \cup {n \in TempNames : temp[n] # NoFile}

Restart ==
  /\ req' = [r \in Reqs |-> Idle]
  /\ consumed' = {}
  /\ index' = LoadExistingFragments
  /\ used' = {} /\ reused' = {} /\ overtaken' = {}
  /\ UNCHANGED <<now, token, disk, temp, granted>>

Step(r) ==
  \/ ConsumeTokenId(r)
  \/ PutInspect(r) \/ PutCompare(r) \/ PutCreateTemp(r) \/ PutWriteTemp(r)
  \/ PutWriteFails(r) \/ PutLink(r) \/ PutUnlinkTemp(r) \/ PutStat(r)
  \/ PutIndex(r)
  \/ LocateFragment(r) \/ ServeFragment(r)
  \/ DeleteRemove(r) \/ DeleteDeindex(r)

Next ==
  \/ \E j \in Jtis, s \in Scopes : IssueToken(j, s)
  \/ \E r \in Reqs, op \in Operations, k \in Keys, b \in Bodies \cup {None},
        d \in BOOLEAN, j \in Jtis \cup {None} :
          Receive(r, op, k, b, d, j)
  \/ \E r \in Reqs : Step(r)
  \/ Tick
  \/ Restart

Spec == Init /\ [][Next]_vars

-----------------------------------------------------------------------------
(* Properties *)

\* consume_token_id refuses a token id it has accepted before, for as long as
\* the token is valid: although the cache is purged with the time read before
\* the lock was taken, a second acceptance (since the last boot) is possible
\* only once the token has expired.
ReuseOnlyAfterExpiry == \A j \in reused : token[j].exp < now

\* When put_fragment is about to index a key and answer 200, the file holds
\* exactly the uploaded body, unless the key was deleted after the request
\* arrived: no concurrent upload, failure or restart can put other content
\* under an acknowledged key.
AckMeansStored ==
  \A r \in Reqs : req[r].pc = "insert" =>
    disk[req[r].key] = req[r].body \/ r \in overtaken

\* What the tokens accepted so far permit.
Permits == {token[j].scope : j \in granted}

\* The node's directory, its handlers' steps, crashes and failures taken
\* together, behaves like an atomic write-once store whose every change a
\* consumed token permits.
Store == INSTANCE FragmentStore WITH content <- disk, permits <- Permits
ImplementsFragmentStore == Store!Spec
=============================================================================
