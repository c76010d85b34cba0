------------------------------ MODULE Registry ------------------------------
(***************************************************************************)
(* The registry of storage nodes and the replicas of uploaded files:       *)
(* registration, heartbeats, health checks and removal of nodes            *)
(* (crates/oracle/src/api/storage.rs, storage-node/src/main.rs), selection *)
(* of nodes for an upload (oracle/src/services/replication.rs), and the    *)
(* proxy that uploads, downloads and deletes replicas                      *)
(* (oracle/src/api/file_proxy.rs) for the desktop's upload commands.       *)
(*                                                                         *)
(* A step is one SQL statement or one request between two programs.  What  *)
(* a node does with a request is in StorageNode; who may call is in        *)
(* Transfers (ownership) and Sessions (tokens).  The desktop prepares a    *)
(* vault of its own for every upload, so a vault is uploaded once.         *)
(***************************************************************************)
EXTENDS Integers, Sequences, FiniteSets, SequencesExt, FiniteSetsExt

CONSTANTS
  Nodes,         \* storage nodes
  RegionOf,      \* node -> its region, a number (regions are ordered by name)
  BaseLoad,      \* node -> bytes it stores for other vaults
  Vaults,        \* vaults the desktop uploads
  Managers,      \* slots for requests about nodes the Oracle serves concurrently
  Proxies,       \* slots for requests about files
  Sizes,         \* sizes of the plain files
  Overhead,      \* bytes encryption adds to a file
  MaxFileSize,   \* limit of the desktop, and of one fragment at a node
  BodySlack,     \* what the Oracle allows beyond that limit
  Capacity,      \* total_space_bytes, the same for every node
  OfflineAfter,  \* failed probes that a node survives (3 in the code)
  Factors,       \* replication factors an administrator may set
  Strategies,    \* and selection strategies
  Seeds,         \* the nodes the initial migration registers
  AtLocalhost,   \* the node that listens at localhost:9001, or None
  MaxEvents,     \* bound: administrator's requests, uses of the old index, crashes,
                 \* lost fragments, lost answers and failing INSERTs
  MaxBeats,      \* bound: heartbeats under way at a time
  None

ASSUME RegistryAssumption ==
  /\ RegionOf \in [Nodes -> Nat] /\ BaseLoad \in [Nodes -> Nat]
  /\ Sizes \subseteq Nat /\ Factors \subseteq Int
  /\ Seeds \subseteq Nodes /\ AtLocalhost \in Nodes \cup {None}
  /\ {Overhead, MaxFileSize, BodySlack, Capacity, OfflineAfter, MaxEvents,
      MaxBeats} \subseteq Nat

ASSUME NodesAssumption == IsFiniteSet(Nodes)

VARIABLES
  row,       \* storage_nodes: node -> status, health_check_failures, used space
  settings,  \* replication_settings: factor and strategy
  replica,   \* file_replicas: vault -> node -> storage key (replica index)
  manifest,  \* nft_metadata.manifest.fragments: vault -> node and key
  legacy,    \* storage_node_id of the one file_fragments row
  disk,      \* node -> fragments it holds: vault and key
  up,        \* nodes that are running
  enrol,     \* nodes that have started and not yet registered
  beat,      \* node -> the used space its heartbeat under way reports
  job,       \* slot -> the request being served
  command,   \* vault -> where the desktop's upload command stands
  size,      \* vault -> size of its plain file
  events,    \* administrator's requests and faults so far
  lost,      \* history: fragments that disappeared from a node's disk
  deleted,   \* history: vaults whose storage was asked to be deleted
  unlisted   \* history: vaults with a replica whose INSERT failed

nodes == <<row, up, enrol, beat>>
files == <<replica, manifest, legacy, disk, command, size>>
history == <<lost, deleted, unlisted>>
vars == <<row, settings, replica, manifest, legacy, disk, up, enrol, beat, job,
          command, size, events, lost, deleted, unlisted>>

Slots == Managers \cup Proxies
Keys == 0..(Cardinality(Nodes) - 1)
Fragments == Vaults \X Keys
Places == Nodes \X Keys
Encrypted(v) == size[v] + Overhead
RowType == [status : {"active", "offline"}, failures : Nat, used : Nat]
JobType == [pc : {"idle", "register", "check", "checked", "remove", "confirm",
                  "confirm_usage", "put", "list", "usage", "finish", "delete",
                  "delete_rows"},
            node : Nodes \cup {None}, vault : Vaults \cup {None},
            ok : BOOLEAN, todo : SUBSET Nodes,
            list : Seq(Places), got : SUBSET Places]
CommandType == {"new", "prepared", "posted", "stored", "failed"}

ASSUME NoneAssumption == None \notin RowType /\ None \notin Nat

\* Every variable has its type, and a replica is listed only at a node that is
\* registered (the foreign key of file_replicas).
TypeOK ==
  /\ row \in [Nodes -> RowType \cup {None}]
  /\ settings \in [factor : Factors \cup {2}, strategy : Strategies \cup {"mixed"}]
  /\ replica \in [Vaults -> [Nodes -> Keys \cup {None}]]
  /\ manifest \in [Vaults -> SUBSET Places]
  /\ legacy \in Nodes \cup {None, ""}
  /\ disk \in [Nodes -> SUBSET Fragments]
  /\ up \subseteq Nodes /\ enrol \subseteq Nodes
  /\ beat \in [Nodes -> Nat \cup {None}]
  /\ job \in [Slots -> JobType]
  /\ command \in [Vaults -> CommandType] /\ size \in [Vaults -> Nat]
  /\ events \in 0..MaxEvents
  /\ lost \in [Nodes -> SUBSET Fragments]
  /\ deleted \subseteq Vaults /\ unlisted \subseteq Vaults
  /\ \A v \in Vaults, n \in Nodes : replica[v][n] # None => row[n] # None

Idle == [pc |-> "idle", node |-> None, vault |-> None, ok |-> FALSE,
         todo |-> {}, list |-> <<>>, got |-> {}]
Fresh == [status |-> "active", failures |-> 0, used |-> 0]

\* The nodes of the initial migration are registered and have not reported;
\* the others register when they start.  One may be down.
\* replication_settings has its default row.
Init ==
  /\ row = [n \in Nodes |-> IF n \in Seeds THEN Fresh ELSE None]
  /\ settings = [factor |-> 2, strategy |-> "mixed"]
  /\ replica = [v \in Vaults |-> [n \in Nodes |-> None]]
  /\ manifest = [v \in Vaults |-> {}]
  /\ legacy = None
  /\ disk = [n \in Nodes |-> {}] /\ lost = disk
  /\ up \in {Nodes} \cup {Nodes \ {n} : n \in Nodes}
  /\ enrol = {n \in up : row[n] = None}
  /\ beat = [n \in Nodes |-> None]
  /\ job = [s \in Slots |-> Idle]
  /\ command = [v \in Vaults |-> "new"] /\ size = [v \in Vaults |-> 0]
  /\ events = 0
  /\ deleted = {} /\ unlisted = {}

At(s, pc) == job[s].pc = pc
Start(s, new) == At(s, "idle") /\ job' = [job EXCEPT ![s] = new]
Goto(s, pc) == job' = [job EXCEPT ![s].pc = pc]
Done(s) == job' = [job EXCEPT ![s] = Idle]
Event == events < MaxEvents /\ events' = events + 1

\* A request to node n is answered in time; an answer that is lost is a fault.
Answered(n) == n \in up /\ UNCHANGED events
Unanswered(n) == IF n \in up THEN Event ELSE UNCHANGED events

-----------------------------------------------------------------------------
(* Nodes: start, registration, heartbeat *)

\* What the node's index adds up to.
StoredBytes(n) == BaseLoad[n] + MapThenSumSet(LAMBDA f : Encrypted(f[1]), disk[n])

\* A node stops, and starts again later; its disk survives.
Crash(n) ==
  /\ n \in up /\ Event
  /\ up' = up \ {n} /\ enrol' = enrol \ {n}
  /\ beat' = [beat EXCEPT ![n] = None]
  /\ UNCHANGED <<row, settings, files, job, history>>

StartNode(n) ==
  /\ n \notin up
  /\ up' = up \cup {n} /\ enrol' = enrol \cup {n}
  /\ UNCHANGED <<row, settings, files, beat, job, events, history>>

\* The node registers once after its start: the Oracle calls it back ...
RegisterProbe(s, n) ==
  /\ n \in enrol
  /\ enrol' = enrol \ {n}
  /\ \E ok \in BOOLEAN :
       /\ IF ok THEN Answered(n) ELSE Unanswered(n)
       /\ Start(s, [Idle EXCEPT !.pc = "register", !.node = n, !.ok = ok])
  /\ UNCHANGED <<row, settings, files, up, beat, history>>

\* ... and upserts the row; a node that did not answer keeps its old status.
RegisterNode(s) ==
  /\ At(s, "register")
  /\ LET n == job[s].node IN
       row' = [row EXCEPT ![n] =
                 IF row[n] = None
                 THEN [status |-> IF job[s].ok THEN "active" ELSE "offline",
                       failures |-> 0, used |-> 0]
                 ELSE IF job[s].ok
                 THEN [row[n] EXCEPT !.status = "active", !.failures = 0]
                 ELSE row[n]]
  /\ Done(s)
  /\ UNCHANGED <<settings, files, up, enrol, beat, events, history>>

\* The node's loop adds up its index under the lock and sends the sum ...
SendHeartbeat(n) ==
  /\ n \in up /\ beat[n] = None
  /\ Cardinality({m \in Nodes : beat[m] # None}) < MaxBeats
  /\ beat' = [beat EXCEPT ![n] = StoredBytes(n)]
  /\ UNCHANGED <<row, settings, files, up, enrol, job, events, history>>

\* ... and the Oracle overwrites status, failures and used space with it.  An
\* unregistered node gets an error that its loop only logs.
Heartbeat(n) ==
  /\ beat[n] # None
  /\ row' = [row EXCEPT ![n] =
               IF row[n] = None THEN None
               ELSE [status |-> "active", failures |-> 0, used |-> beat[n]]]
  /\ beat' = [beat EXCEPT ![n] = None]
  /\ UNCHANGED <<settings, files, up, enrol, job, events, history>>

-----------------------------------------------------------------------------
(* The administrator: health checks, removal, settings *)

\* SELECT of all nodes; they are probed one after the other.
HealthCheckAll(s) ==
  /\ Event
  /\ Start(s, [Idle EXCEPT !.pc = "check", !.todo = {n \in Nodes : row[n] # None}])
  /\ UNCHANGED <<nodes, settings, files, history>>

HealthProbe(s) ==
  /\ At(s, "check")
  /\ \/ job[s].todo = {} /\ Done(s) /\ UNCHANGED events
     \/ \E n \in job[s].todo, ok \in BOOLEAN :
          /\ IF ok THEN Answered(n) ELSE Unanswered(n)
          /\ job' = [job EXCEPT ![s].pc = "checked", ![s].node = n, ![s].ok = ok,
                                ![s].todo = @ \ {n}]
  /\ UNCHANGED <<nodes, settings, files, history>>

\* UPDATE after a failed probe: the status is decided on the old count.
ProbeFailed(r) ==
  [r EXCEPT !.failures = IF @ > OfflineAfter THEN @ ELSE @ + 1,
            !.status = IF r.failures >= OfflineAfter THEN "offline" ELSE @]

\* UPDATE of the row with what the probe found some time ago.
HealthUpdate(s) ==
  /\ At(s, "checked")
  /\ LET n == job[s].node IN
       row' = [row EXCEPT ![n] =
                 IF row[n] = None THEN None
                 ELSE IF job[s].ok
                 THEN [row[n] EXCEPT !.status = "active", !.failures = 0]
                 ELSE ProbeFailed(row[n])]
  /\ job' = [job EXCEPT ![s].pc = "check", ![s].node = None, ![s].ok = FALSE]
  /\ UNCHANGED <<settings, files, up, enrol, beat, events, history>>

\* remove_node counts the file_fragments rows of the node ...
RemoveCount(s, n) ==
  /\ Event
  /\ legacy # n
  /\ Start(s, [Idle EXCEPT !.pc = "remove", !.node = n])
  /\ UNCHANGED <<nodes, settings, files, history>>

Referenced(n) == \E v \in Vaults : replica[v][n] # None

\* Mutant of RemoveNode: file_replicas had no foreign key.
RemoveNodeUnreferenced(s) ==
  /\ At(s, "remove")
  /\ row' = [row EXCEPT ![job[s].node] = None]
  /\ Done(s)
  /\ UNCHANGED <<settings, files, up, enrol, beat, events, history>>

\* ... and deletes its row, which the foreign key of file_replicas refuses as
\* long as a replica is listed at the node.
RemoveNode(s) ==
  /\ At(s, "remove")
  /\ LET n == job[s].node IN
       row' = IF Referenced(n) THEN row ELSE [row EXCEPT ![n] = None]
  /\ Done(s)
  /\ UNCHANGED <<settings, files, up, enrol, beat, events, history>>

UpdateReplicationSettings(f, st) ==
  /\ Event
  /\ settings' = [factor |-> f, strategy |-> st]
  /\ UNCHANGED <<nodes, files, job, history>>

-----------------------------------------------------------------------------
(* The older file index: file_fragments rows and the space they are booked for *)

\* register_file: one fragment, not yet placed.
RegisterFile ==
  /\ legacy = None /\ Event
  /\ legacy' = ""
  /\ UNCHANGED <<nodes, settings, replica, manifest, disk, command, size, job,
                 history>>

Active(n) == row[n] # None /\ row[n].status = "active"

\* get_upload_url names the least loaded active node; the client calls back.
GetUploadUrl(s) ==
  /\ legacy = ""
  /\ \E n \in Nodes :
       /\ Active(n) /\ \A m \in Nodes : Active(m) => row[n].used <= row[m].used
       /\ Start(s, [Idle EXCEPT !.pc = "confirm", !.node = n])
  /\ UNCHANGED <<nodes, settings, files, events, history>>

\* confirm_upload: UPDATE of the fragment's row ...
ConfirmUpload(s) ==
  /\ At(s, "confirm")
  /\ legacy' = job[s].node
  /\ Goto(s, "confirm_usage")
  /\ UNCHANGED <<nodes, settings, replica, manifest, disk, command, size, events,
                 history>>

Book(n, bytes) ==
  row' = IF row[n] = None THEN row ELSE [row EXCEPT ![n].used = @ + bytes]

\* ... then a fixed amount (1 MiB) is booked at the node.
ConfirmUsage(s) ==
  /\ At(s, "confirm_usage")
  /\ Book(job[s].node, 1)
  /\ Done(s)
  /\ UNCHANGED <<settings, files, up, enrol, beat, events, history>>

-----------------------------------------------------------------------------
(* select_nodes_for_upload *)

Load(n) == row[n].used
ByRegion(m, n) ==
  RegionOf[m] < RegionOf[n] \/ (RegionOf[m] = RegionOf[n] /\ Load(m) < Load(n))

\* The ways to put the members of S in order; ties come as they may.
Sorted(seq, Below(_, _)) == \A i, j \in DOMAIN seq : i < j => ~Below(seq[j], seq[i])
Orders(S, Below(_, _)) == {seq \in SetToSeqs(S) : Sorted(seq, Below)}

Candidates(bytes) == {n \in Nodes : Active(n) /\ Capacity - Load(n) > bytes}

\* The rows as the query returns them: by region and load.
Listings(bytes) == Orders(Candidates(bytes), ByRegion)

\* `count as usize': a negative factor is larger than any number of nodes.
Take(seq, count) ==
  IF count < 0 \/ count > Len(seq) THEN seq ELSE SubSeq(seq, 1, count)

Position(seq, x) == CHOOSE i \in DOMAIN seq : seq[i] = x

\* How many nodes of its region come before a node.
Rank(seq, n) == Cardinality({i \in 1..(Position(seq, n) - 1) :
                               RegionOf[seq[i]] = RegionOf[n]})

\* A stable sort by load.
ByLoad(seq, m, n) ==
  Load(m) < Load(n) \/ (Load(m) = Load(n) /\ Position(seq, m) < Position(seq, n))

\* One node per region as they come, then the others by load.
select_region_diverse(seq, count) ==
  LET First(n) == Rank(seq, n) = 0
      Before(m, n) == \/ First(m) /\ ~First(n)
                      \/ First(m) /\ First(n) /\ Position(seq, m) < Position(seq, n)
                      \/ ~First(m) /\ ~First(n) /\ ByLoad(seq, m, n)
  IN  {Take(order, count) : order \in Orders(ToSet(seq), Before)}

select_load_balanced(seq, count) ==
  LET Before(m, n) == ByLoad(seq, m, n)
  IN  {Take(order, count) : order \in Orders(ToSet(seq), Before)}

Percent(n) == (Load(n) * 100) \div Capacity

\* The regions by the whole per cent of their least loaded node; regions that
\* are equal come in the order of a hash map.
RegionOrders(seq) ==
  LET Least(r) == Min({Percent(n) : n \in {m \in ToSet(seq) : RegionOf[m] = r}})
      Below(q, r) == Least(q) < Least(r)
  IN  Orders({RegionOf[n] : n \in ToSet(seq)}, Below)

\* Mutant of select_mixed: the regions are emptied one after the other.
select_mixed_region_by_region(seq, count) ==
  UNION {LET Before(m, n) ==
               \/ Position(regions, RegionOf[m]) < Position(regions, RegionOf[n])
               \/ RegionOf[m] = RegionOf[n] /\ Rank(seq, m) < Rank(seq, n)
         IN  {Take(order, count) : order \in Orders(ToSet(seq), Before)} :
           regions \in RegionOrders(seq)}

\* Round robin: the nodes of rank 0 of all regions, then those of rank 1, ...
select_mixed(seq, count) ==
  UNION {LET Before(m, n) ==
               \/ Rank(seq, m) < Rank(seq, n)
               \/ /\ Rank(seq, m) = Rank(seq, n)
                  /\ Position(regions, RegionOf[m]) < Position(regions, RegionOf[n])
         IN  {Take(order, count) : order \in Orders(ToSet(seq), Before)} :
           regions \in RegionOrders(seq)}

\* What the configured strategy may choose; an unknown one means `mixed'.
Selections(bytes) ==
  LET Chosen(seq) ==
        CASE settings.strategy = "region_diverse" ->
               select_region_diverse(seq, settings.factor)
          [] settings.strategy = "load_balanced" ->
               select_load_balanced(seq, settings.factor)
          [] OTHER -> select_mixed(seq, settings.factor)
  IN  UNION {Chosen(seq) : seq \in Listings(bytes)}

-----------------------------------------------------------------------------
(* The desktop's upload commands *)

\* Encryption and create_vault, which may fail.
PrepareVault(v, bytes) ==
  /\ command[v] = "new"
  /\ size' = [size EXCEPT ![v] = bytes]
  /\ command' \in {[command EXCEPT ![v] = c] : c \in {"prepared", "failed"}}
  /\ UNCHANGED <<nodes, settings, replica, manifest, legacy, disk, job, events,
                 history>>

\* upload_file, one file read from disk.
UploadFile(v, bytes) == bytes <= MaxFileSize /\ PrepareVault(v, bytes)

\* upload_files, two files in an archive, which is what the limit is about.
UploadFiles(v, a, b) == a + b <= MaxFileSize /\ PrepareVault(v, a + b)

\* encrypt_secure_note has no limit of its own.
EncryptSecureNote(v, bytes) == PrepareVault(v, bytes)

-----------------------------------------------------------------------------
(* file_proxy::upload_file *)

Answer(v, result) == command' = [command EXCEPT ![v] = result]

\* The request must fit the Oracle's limit; the nodes are chosen.
UploadStart(s, v) ==
  /\ command[v] = "prepared" /\ At(s, "idle")
  /\ LET bytes == Encrypted(v) IN
     \/ /\ bytes > MaxFileSize + BodySlack \/ <<>> \in Selections(bytes)
        /\ Answer(v, "failed") /\ UNCHANGED job
     \/ /\ bytes <= MaxFileSize + BodySlack
        /\ \E chosen \in Selections(bytes) \ {<<>>} :
             Start(s, [Idle EXCEPT !.pc = "put", !.vault = v,
                         !.list = [i \in DOMAIN chosen |-> <<chosen[i], i - 1>>]])
        /\ Answer(v, "posted")
  /\ UNCHANGED <<nodes, settings, replica, manifest, legacy, disk, size, events,
                 history>>

Next1(s) == Head(job[s].list)
Advance(s) == IF Tail(job[s].list) = <<>> THEN "finish" ELSE "put"

Store(n, v, k) == disk' = [disk EXCEPT ![n] = @ \cup {<<v, k>>}]

\* Mutant of UploadPut: a replica whose answer is late is taken for stored.
UploadPutTrusts(s) ==
  /\ At(s, "put")
  /\ LET n == Next1(s)[1]  k == Next1(s)[2]  v == job[s].vault IN
       /\ Goto(s, "list")
       /\ IF n \in up /\ Encrypted(v) <= MaxFileSize
          THEN Store(n, v, k) ELSE UNCHANGED disk
  /\ UNCHANGED <<nodes, settings, replica, manifest, legacy, command, size, events,
                 history>>

\* PUT to the next node: stored and acknowledged, stored without an answer in
\* time, or refused (the encrypted file is larger than a fragment may be) or
\* not reached.
UploadPut(s) ==
  /\ At(s, "put")
  /\ LET n == Next1(s)[1]  k == Next1(s)[2]  v == job[s].vault
         fits == Encrypted(v) <= MaxFileSize
     IN
     \/ /\ fits /\ Answered(n)
        /\ Store(n, v, k) /\ Goto(s, "list")
     \/ /\ IF fits THEN Unanswered(n) ELSE UNCHANGED events
        /\ IF fits /\ n \in up THEN Store(n, v, k) ELSE UNCHANGED disk
        /\ job' = [job EXCEPT ![s].pc = Advance(s), ![s].list = Tail(@)]
  /\ UNCHANGED <<nodes, settings, replica, manifest, legacy, command, size, history>>

\* INSERT of the replica.  Its failure is ignored, whether the foreign key
\* refuses a node that was removed or the database does not answer.
UploadList(s) ==
  /\ At(s, "list")
  /\ LET n == Next1(s)[1]  k == Next1(s)[2]  v == job[s].vault IN
       /\ \/ /\ row[n] # None
             /\ replica' = [replica EXCEPT ![v][n] = k]
             /\ UNCHANGED <<unlisted, events>>
          \/ /\ IF row[n] # None THEN Event ELSE UNCHANGED events
             /\ unlisted' = unlisted \cup {v}
             /\ UNCHANGED replica
       /\ job' = [job EXCEPT ![s].pc = "usage", ![s].got = @ \cup {<<n, k>>}]
  /\ UNCHANGED <<nodes, settings, manifest, legacy, disk, command, size, lost, deleted>>

\* UPDATE of the node's used space, which a heartbeat may overwrite.
UploadUsage(s) ==
  /\ At(s, "usage")
  /\ Book(Next1(s)[1], Encrypted(job[s].vault))
  /\ job' = [job EXCEPT ![s].pc = Advance(s), ![s].list = Tail(@)]
  /\ UNCHANGED <<settings, files, up, enrol, beat, events, history>>

\* Mutant of UploadFinish: an upload that reached no node is reported stored.
UploadFinishUnchecked(s) ==
  /\ At(s, "finish")
  /\ LET v == job[s].vault IN
       /\ manifest' = [manifest EXCEPT ![v] = job[s].got]
       /\ Answer(v, "stored")
  /\ Done(s)
  /\ UNCHANGED <<nodes, settings, replica, legacy, disk, size, events, history>>

\* With no acknowledged replica the request fails; otherwise the manifest lists
\* the acknowledged ones and the desktop reports the upload as complete.
UploadFinish(s) ==
  /\ At(s, "finish")
  /\ LET v == job[s].vault  got == job[s].got IN
       /\ manifest' = IF got = {} THEN manifest ELSE [manifest EXCEPT ![v] = got]
       /\ Answer(v, IF got = {} THEN "failed" ELSE "stored")
  /\ Done(s)
  /\ UNCHANGED <<nodes, settings, replica, legacy, disk, size, events, history>>

-----------------------------------------------------------------------------
(* file_proxy::download_file *)

\* Active replicas on active nodes; without any, the fragments of the manifest.
Listed(v) == {p \in Places : replica[v][p[1]] = p[2] /\ Active(p[1])}
Sources(v) == IF Listed(v) # {} THEN Listed(v) ELSE manifest[v]

\* Where a request for a fragment at node n goes: one that is not registered has
\* no URL, and localhost:9001 is asked instead.
Endpoint(n) == IF row[n] # None THEN n ELSE AtLocalhost

\* The proxy tries one source after the other until a node answers with the
\* fragment; another node than the one that the storage token names refuses it.
\* Nothing changes meanwhile: a node that no longer has the fragment is not
\* marked, because `missing' is no status that the table allows, and the error
\* of that UPDATE is ignored.
Served(v) ==
  \E p \in Sources(v) :
    Endpoint(p[1]) = p[1] /\ p[1] \in up /\ <<v, p[2]>> \in disk[p[1]]

-----------------------------------------------------------------------------
(* file_proxy::delete_file_storage, called when the NFT is burned *)

DeleteStart(s, v) ==
  /\ command[v] \in {"stored", "failed"}
  /\ {n \in Nodes : replica[v][n] # None} # {}
  /\ \E seq \in SetToSeqs({p \in Places : replica[v][p[1]] = p[2]}) :
       Start(s, [Idle EXCEPT !.pc = "delete", !.vault = v, !.list = seq])
  /\ deleted' = deleted \cup {v}
  /\ UNCHANGED <<nodes, settings, files, events, lost, unlisted>>

\* DELETE at the next node; whatever comes of it, the loop goes on.
DeleteAtNode(s) ==
  /\ At(s, "delete")
  /\ LET n == Next1(s)[1]  k == Next1(s)[2]  rest == Tail(job[s].list) IN
       /\ IF n \in up THEN disk' = [disk EXCEPT ![n] = @ \ {<<job[s].vault, k>>}]
                      ELSE UNCHANGED disk
       /\ job' = [job EXCEPT ![s].pc = IF rest = <<>> THEN "delete_rows" ELSE @,
                             ![s].list = rest]
  /\ UNCHANGED <<nodes, settings, replica, manifest, legacy, command, size, events,
                 history>>

\* The rows of the vault go, those of nodes that were not reached too.
DeleteRows(s) ==
  /\ At(s, "delete_rows")
  /\ replica' = [replica EXCEPT ![job[s].vault] = [n \in Nodes |-> None]]
  /\ Done(s)
  /\ UNCHANGED <<nodes, settings, manifest, legacy, disk, command, size, events,
                 history>>

-----------------------------------------------------------------------------
(* Faults *)

\* A node loses a fragment.
LoseFragment(n, f) ==
  /\ f \in disk[n] /\ Event
  /\ disk' = [disk EXCEPT ![n] = @ \ {f}]
  /\ lost' = [lost EXCEPT ![n] = @ \cup {f}]
  /\ UNCHANGED <<nodes, settings, replica, manifest, legacy, command, size, job,
                 deleted, unlisted>>

\* The client hangs up: the handler ends where it is.
Drop(s) ==
  /\ ~At(s, "idle") /\ Event
  /\ Done(s)
  /\ command' = IF job[s].pc \in {"put", "list", "usage", "finish"}
                THEN [command EXCEPT ![job[s].vault] = "failed"] ELSE command
  /\ UNCHANGED <<nodes, settings, replica, manifest, legacy, disk, size, history>>

Continue(s) ==
  \/ RegisterNode(s) \/ HealthProbe(s) \/ HealthUpdate(s) \/ RemoveNode(s)
  \/ ConfirmUpload(s) \/ ConfirmUsage(s)
  \/ UploadPut(s) \/ UploadList(s) \/ UploadUsage(s) \/ UploadFinish(s)
  \/ DeleteAtNode(s) \/ DeleteRows(s)

Request(s) ==
  \/ /\ s \in Managers
     /\ \/ HealthCheckAll(s) \/ GetUploadUrl(s)
        \/ \E n \in Nodes : RegisterProbe(s, n) \/ RemoveCount(s, n)
  \/ /\ s \in Proxies
     /\ \E v \in Vaults : UploadStart(s, v) \/ DeleteStart(s, v)

Node(n) ==
  \/ Crash(n) \/ StartNode(n) \/ SendHeartbeat(n) \/ Heartbeat(n)
  \/ \E f \in Fragments : LoseFragment(n, f)

Desktop ==
  \E v \in Vaults, a \in Sizes :
    UploadFile(v, a) \/ EncryptSecureNote(v, a) \/ \E b \in Sizes : UploadFiles(v, a, b)

Next ==
  \/ \E s \in Slots : Request(s) \/ Continue(s) \/ Drop(s)
  \/ \E n \in Nodes : Node(n)
  \/ \E f \in Factors, st \in Strategies : UpdateReplicationSettings(f, st)
  \/ RegisterFile \/ Desktop

Spec == Init /\ [][Next]_vars

-----------------------------------------------------------------------------
(* Properties *)

\* Whatever loads and statuses uploads, stale heartbeats and health checks have
\* led to, the nodes chosen for an upload that is about to start, or for another
\* like one that is stored (select_nodes_for_upload), are distinct active nodes
\* with room, as many as the factor asks for and there are; the spreading
\* strategies reach as many regions as that number of nodes can, and load
\* balancing passes over no emptier node.
SelectionFits ==
  \A v \in Vaults : command[v] \in {"prepared", "stored"} =>
    \A chosen \in Selections(Encrypted(v)) :
    LET C == Candidates(Encrypted(v))  S == ToSet(chosen)
        regions(T) == {RegionOf[n] : n \in T}
    IN  /\ S \subseteq C
        /\ Len(chosen) = Cardinality(S)
        /\ Cardinality(S) = IF settings.factor < 0 THEN Cardinality(C)
                            ELSE Min({settings.factor, Cardinality(C)})
        /\ settings.strategy # "load_balanced" =>
             Cardinality(regions(S)) = Min({Cardinality(S), Cardinality(regions(C))})
        /\ settings.strategy = "load_balanced" =>
             \A m \in S, n \in C \ S : Load(m) <= Load(n)

\* A download never looks in vain unless the node lost the fragment: until a
\* vault is deleted, every node the proxy would try, whether file_replicas or the
\* manifest names it, holds the vault's bytes under the key it is asked for.  And
\* it is that node which is asked, not localhost:9001 in its place, unless the
\* INSERT of a replica failed.
ListedIsStored ==
  \A v \in Vaults \ deleted : \A p \in Sources(v) :
    /\ <<v, p[2]>> \in disk[p[1]] \cup lost[p[1]]
    /\ v \notin unlisted => Endpoint(p[1]) = p[1]

\* What the desktop was told to be stored can be found: although nodes crash,
\* go offline, lose fragments and are removed while files are uploaded, every
\* replica of the manifest is listed at a registered node, and any of them that
\* is running and still has the fragment gets the file downloaded if it is
\* active or all of them are offline.  (A vault with a replica whose INSERT failed
\* is the exception.)
StoredIsFindable ==
  \A v \in Vaults \ (deleted \cup unlisted) : command[v] = "stored" =>
    /\ manifest[v] # {}
    /\ \A p \in manifest[v] :
         /\ replica[v][p[1]] = p[2] /\ row[p[1]] # None
         /\ /\ p[1] \in up /\ <<v, p[2]>> \in disk[p[1]]
            /\ Active(p[1]) \/ Listed(v) = {}
            => Served(v)
=============================================================================
