# TLA+ model of the scalable key-value store

A server (Java, `src/server`) keeps a replicated log and a key-value table in
SQLite and is meant to agree with its peers through Raft; a C++ library
(`src/client`) talks to it. This directory holds TLA+ modules translated from
that code, TLC configurations that check them on small instances, and TLAPS
proofs of the results that hold for every size.

Paths below are relative to `src/server/src/main/java/com/kvstore/` unless
they start with `src/`. "The node" is one `RaftNode` object.

## 1. Inventory

| Component | State | Operations |
|---|---|---|
| `raft/RaftNode.java` | `nextIndex`, `matchIndex`, `rwLock`, `electionTimer`, `votedFor`, peers and channels | `startElection`, `requestVote`, `sendAppendEntries`, `updateCommitIndex`, `appendEntries`, `applyCommittedEntries`, `proposeEntry`, `replicateEntry`, `becomeLeader`, two periodic tasks, `shutdown` |
| `raft/RaftState.java` | role, current term, vote (memory only, unsynchronised fields) | `becomeFollower`, `becomeCandidate`, `becomeLeader`, `setCurrentTerm` |
| `storage/SQLiteStorage.java` | tables `logs`, `state`, `kv_store`; one connection | append, delete suffix, get row(s), last index/term, commit index, last applied, key-value read and write, open, close |
| `server/KVStoreServiceImpl.java` | none | `get` (reads `kv_store`), `put` (`proposeEntry`) |
| `server/KVStoreServer.java` | server, node, storage | construct, `start`, `stop` (from a shutdown hook) |
| `config/ServerConfig.java` | id, peers, storage path | read once |
| `raft.proto`, `kv_store.proto` | message types | |
| `src/client/src/kvclient.cpp` | `kv_client`, `server_list`, `current_leader` | `kv739_init`, `get`, `put` (with redirects), `die`, `shutdown` |
| `src/client/src/kvclientimpl.cpp` | per object a stub, a completion queue and a thread for each host; the global `g_num_servers` | constructor, destructor, `sendRequest`, `sendRequestAsync`, `AsyncCompleteRpc` |
| `src/client/src/kvclient.h` | none: declares a class no source defines | |
| `src/client/build` | generated and third-party files | |

**Interactions.** A put runs on a gRPC handler thread: `put` ->
`proposeEntry` -> `replicateEntry` -> `sendAppendEntries` for each peer ->
`updateCommitIndex` -> `applyCommittedEntries` -> SQL. Heartbeats run the same
`sendAppendEntries` on worker-pool threads, every 50 ms. Elections start on
the scheduler, from a 150 ms task and from a timer that `appendEntries`
re-arms. All threads share one database connection, the two maps and the
`RaftState` fields; only `appendEntries` takes the write lock and only
`requestVote` the read lock. A client holds one object for one server at a
time. `kv739_init` tries the servers of its list until one says it leads, a
redirected put constructs an object for the server it was pointed to, and the
assignment to `kv_client` destroys the object before: its queues are shut
down, its threads joined, its stubs deleted.

Three facts of the code shape everything else and are kept in the models:

* `sendAppendEntries` (`RaftNode.java:154`) does not call the peer. It calls
  the node's **own** `appendEntries` with a request read from the node's own
  log, and books the result under the peer's name in `nextIndex` and
  `matchIndex`.
* In `startElection` the futures that `allOf` joins hold futures, not
  Booleans (`RaftNode.java:86-95`): with peers the count throws in a discarded
  stage and `becomeLeader` is never reached; without peers it is reached at
  once. With peers a node leads only if something calls
  `getState().becomeLeader()`, as `RaftNodeTest` does.
* Term and vote are never stored. The columns for them in the `state` table
  are written once and never read.

**Hard behaviours.** Puts and heartbeats interleaving without a common lock on
the commit and apply paths; a term that changes while a request is being
built; crashes between any two SQL statements; old, repeated and overtaken
AppendEntries at a follower; SQL exceptions that are swallowed by some methods
and thrown by others; elections and answers to vote requests that write the
term while `appendEntries` does; the `state` table, which gains a row at every
start; on the client, a deadline that passes while the server executes the
request, redirections, and destructors that run beside completion threads.
`PROJECT.json` lists them under
`hazards`, each at the line where it bites, with the properties that address
it, or the reason that none does yet.

**What makes each component correct.** Storage: the tables read as a
sequence, two numbers and a map, durable and never torn. A leader: no thread
trips over a row that is not there, the log only grows, answered puts are
committed, applied and seen by reads, puts are answered and the commit index
catches up. A follower: what it commits is what the cluster chose, what it
applies is what it committed. Elections: the term never falls, a request is
handled in its own term, no lock is kept. Client: a put takes effect at most
once, and while it runs if it returns 0 or 1; calls return; objects and
threads are released in an order that leaves none behind.

## 2. Modules

```
RaftLog ---- Candidate ---- LeaderNode ---- LeaderNodeProofs
        |              |               \--- MCLeader
        |              \--- FollowerNode -- FollowerNodeProofs -- FollowerCommitProofs
        |                              \--- MCFollower
        |--- SQLiteStorage - SQLiteStorageProofs
        |               \--- MCStorage
        \--- DurableStore  (instantiated by SQLiteStorage)

Election ---- ElectionProofs

RPCClient --- KVClient --- KVClientProofs --- RPCClientProofs
              |       \    \---------------- CallMapProofs
              |        \-- MCClient
              CallMap      (instantiated by KVClient)
```

**RaftLog** has the pure operators: the slice of rows a request carries, the
consistency check, `MergeEntries` (the effect of the whole loop of
`appendEntries`), and the counting threshold `Reached`, which compares a count
that includes the node with half the number of *other* nodes.

**Candidate** has the elections that run in a node beside everything else and
is extended by the two node modules. A scheduler thread becomes candidate and
reads the term in one step and writes the term plus one in another, with no
lock between (`ballot` is the value it will write). The write is one step with
the submission of a vote request for each peer; `CampaignFails` is the case of
a storage call at lines 82-83 that throws, so that nobody is asked. A worker
in `requestVote` is inside the read lock from `TakeTask` to `CallEnds` or
`AdoptTerm`, which writes a term that a peer's answer brought some steps
before. `ReadLocked` keeps `appendEntries`, and with it every put, waiting.

**LeaderNode** is one server that leads, at the grain of one access to shared
state per step. `pc[t]` is the control point of thread `t`; a Putter runs a
put, a Beater a heartbeat's `sendAppendEntries`. Each read that later code
relies on (next index, rows, term, commit index, last index, last applied) is
a step of its own, so every interleaving of stale reads is explored. Several
accesses share one step in three places, beside those of `Candidate`:

* `appendEntries` from the lock to the end of its loop. The other writers of
  the `logs` table are the puts, which do not take the lock and could append
  between two statements of the loop; but `LeaderLogAppendOnly` is proved from
  the fact that the loop finds every entry of the request in place, and then
  it only reads rows that never change, at any grain. `LoopMerges` (below)
  shows that the statements have the effect of `MergeEntries` when nobody else
  writes;
* the tally over `matchIndex` in `updateCommitIndex`;
* the rows of a request: last index, rows and previous row. Rows once written
  do not change and a slice read up to an older last index is the slice read
  at that time, so splitting this step adds nothing.

Every storage call may fail, with the effect its method's catch clause gives
it: `ReadFails` (a number is read as 0), `WriteFails` (nothing is stored and
nobody is told), `Abort` (the methods on `logs` throw, which ends the put or
heartbeat and releases the lock) and `InsertThrows` (`appendLogEntry` has
stored its row when it throws). The switch is `StorageFails`; failures and
crashes share the budget `MaxFaults`. `KVStoreServer.stop`, which closes the
database under running threads, looks the same to them.

A crash loses the object and keeps the tables; the threads, maps, role and
term start again as the constructor leaves them. `src`, `idx` and `acked` are
history variables: the log index a key was last written from, the index a
running put received, and the indices answered with success.

**FollowerNode** is one server that handles AppendEntries, one SQL statement
or access to the term per step, `applyCommittedEntries` included, with the
elections of `Candidate` and crashes in between. The handler is
the code's `appendEntries`; no class of the repository exports it as
`RaftService`, so the rest of the cluster is an environment, marked external
in the map, that behaves as Raft promises: one leader per term, leaders that
only append, each starting with what is chosen, and entries of the leader's
term chosen in order. This takes overlapping quorums for granted, which the
thresholds of `RaftNode.java:96` and `:175` give only for an even number of
peers (`QuorumsMeet`). A request is any slice that `sendAppendEntries` of some
term's leader could have read at some time. Because any such slice can arrive
at any time, loss, duplication and reordering need no extra action. Four
switches let the dangers of the code happen or not:

* `SplitSend`: the commit index of a request may be newer than its entries,
  which is what lines 150 and 154 permit;
* `TermMayFall`: the write of `currentTerm++` (or of an adopted term) may land
  after the term has moved past it. With the switch off the write waits, so
  the run shows what holds of behaviours in which this race does not occur;
* `DeleteMayFail`: the swallowed exception of `deleteLogEntriesFrom`;
* `CallsMayFail`: every other storage call may fail: reads of the two numbers
  yield 0, writes are dropped in silence, methods on `logs` throw and leave
  the handler, `appendLogEntry` perhaps with its row stored.

**SQLiteStorage** has an action per method over the three tables: `logs` maps
primary keys to rows, `state` is the list of rows, `kv` the map. In behaviours
with `faulty` set every statement may raise `SQLException`, with the effect
that the method's catch clause gives it. Two methods can fail after a
statement of theirs has taken effect under autocommit: `appendLogEntry`, which
asks for the generated key after the insert, and the constructor. **DurableStore** says what the
callers take it for: a sequence, two numbers, a map. `Implements` is the
refinement, with `state[1]` as the row a `SELECT` yields.

**Election** is the election side of a node with peers, one access to a field
or to the lock per step: scheduler threads in `startElection`, workers in
`requestVote`, a gRPC thread in `appendEntries`. `currentTerm++` is a read and
a write, and the term is read twice by `appendEntries` and written twice by
`setCurrentTerm` and `becomeFollower`, as in the code. A peer's answer may
carry any term. A waiting writer keeps new readers out, as
`ReentrantReadWriteLock` does for the head of its queue. Votes are not counted
because the code never gets that far. Field accesses are taken to be
sequentially consistent, which is more than Java promises for plain fields.

**RPCClient** has the life of `KvstoreRPCClient` objects: constructor and
destructor statement by statement beside the completion threads, and
asynchronous calls. A thread in state `loop` is about to look up its stub.
Where the code would read past an array, the process dies (`pc = "dead"`).
**KVClient** adds the five `kv739` calls of one application thread, in any
order. The servers are external: one leads or none does, a leader executes a
request, any other server redirects to some server or stays silent, requests
and answers get lost, the leader changes at any time, and a request may be
executed after its deadline has passed. **CallMap** says what a caller may
rely on: a map, a set of puts that may still take effect, and what a return
code means. In the refinement `Implements` a put is open while its request is
on its way, or while it runs without an answer.

Data is abstracted to what the properties tell apart: keys, values and peers
are model values; strings, hosts, ports, logging and message encoding are left
out. Terms and indices are naturals: the code uses `long` and never reaches
its end.

## 3. Runs

| Run | Checks | Shows |
|---|---|---|
| `leader_puts` | `TypeOK`, `NoMissingRow`, `LogAppendOnly` | two puts at once, one peer, an election and its vote request, and a crash or a failing storage call anywhere |
| `leader_answer` | `PutAnswered` | puts, a peer, two scheduler threads, two vote requests inside the read lock, a crash or a failing storage call anywhere |
| `leader_alone` | `AckedApplied`, `AckedReadable` | a server without peers, puts of two keys in sequence, two crashes anywhere |
| `leader_live` | `CommitCatchesUp` | two peers, a put and heartbeats that never stop |
| `leader_lost` | `QuiescentStore`, violated | two acknowledged puts of one key, the older value stays |
| `follower_log` | `TypeOK`, `LoopMerges`, `CommittedAgrees`, `RowsPresent` | three terms' leaders, requests in any order, elections, vote answers, failing storage calls |
| `follower_store` | `StoreAgrees`, `StoreChosen` | two terms' leaders, a crash anywhere, a term that may fall |
| `follower_split` | `CommittedAgrees`, violated | commit index read after the entries |
| `follower_term` | `CommittedAgrees`, violated | `currentTerm++` against the handler |
| `storage` | `TypeOK`, `LateRowsLag`, `Implements` | all methods, two starts, failing statements |
| `election` | `AcceptedInTerm`, `HandlerReturns` | an election thread, two vote requests and `appendEntries` at once |
| `client_calls` | `TypeOK`, `StubFound`, `OneObject`, `InitProtects`, `Implements`, `CallReturns` | all client calls in any order, two servers, changing leaders, losses, an asynchronous call |

**Bounds.** `MaxLog` limits when a put may *start*, so two concurrent puts make
a log of two with `MaxLog = 1`; every race on the put path needs two threads
and two entries at most. `MaxFaults` is 2 in `leader_alone`, because the
second crash can hit the re-application that the first one caused, and 1 in
`leader_puts` and `leader_answer`, which interleave more threads.
`leader_puts` has a scheduler thread, a task and a worker, so that a term
moves under a request both by an election and by a peer's answer. In
`leader_answer` two tasks and two workers let the read lock pass from one
worker to the other while a put waits, two scheduler threads can overwrite
each other's term, and `MaxLog = 2` lets a put follow one that a fault ended;
two puts at once, which `leader_puts` has, would be too many states for a
liveness check. All safety
properties of the passing runs are proved for every bound (section 4); the
runs show on small instances that they hold and can be broken.
Three terms and two entries at the follower are the least that let a deposed
leader's suffix be replaced and the replaced entry come back. `follower_store`
has two terms: with a term that may fall and a restart, either leader's
requests are accepted at any time. `MaxTasks` bounds the vote requests that
wait for a worker; peers answer with terms up to `MaxTerm + 1`. Two log rows and
two starts let a suffix be deleted, keys be reused and the state table hold a
second row. Two workers let one answer be old when the other is adopted, two
peers keep more tasks than workers, and with terms 0..2 an election can still
start after a term was adopted. `client_calls` has two objects because the
code has at most two at a time (the one assigned and its predecessor), two
gets or puts so that a failed put can take effect during the next call, one
value that just fits the caller's buffer and one a byte longer. Inits,
shutdowns and redirections are unlimited. `leader_puts` uses symmetry in
peers, putters and values and `follower_store` in keys and values; no run with
a liveness property or a refinement does. `CHECK_DEADLOCK FALSE` is set because a behaviour may
end: clients need not send more puts, and the bounds stop elections, crashes
and requests. That nobody waits for ever is what `PutAnswered` states. The
client and election runs leave deadlock checking on.

**Fairness.** `FairSpec` assumes weak fairness of each thread inside a call:
a runnable Java thread is scheduled. Clients, elections and crashes carry no
fairness. `BeatSpec` adds that heartbeats keep coming, which
`scheduleAtFixedRate` provides, and that the harness does promote the node.
`leader_live` fixes the term (`MaxTerm = 0`): the node is promoted before its
first election, and each heartbeat re-arms the election timer of the node that
sends it, so the timer does not run out while heartbeats are on time.
The write lock is not a fair lock, so a thread that competes with endless
heartbeats could lose every time; `PutAnswered` is checked without heartbeats,
where each thread needs the lock finitely often and weak fairness is enough.
A worker may take the read lock in these models although a put waits for the
write lock, which the JDK's lock mostly prevents; as `MaxTerm` and `MaxTasks`
bound the elections, the put still gets its turn. **Every call of a peer
ends** in `FairSpec` too: `Vote` is weakly fair, and a peer that hangs inside
`requestVote` would hold up every put of this node. `PutAnswered` speaks of
the answer and not only of the thread: the put's index is acknowledged, unless
a fault has come after the put began, and then the thread has left the node.
In `Election` worker and gRPC threads run and **every call of a peer ends**:
`requestVote` sets no deadline, so this is an assumption about peers and
network, and `HandlerReturns` needs it. In `KVClient` the application's and
the completion threads run, `sendRequest` ends by its 500 ms deadline, and the
external `IsLeader`, `Shutdown` and `TerminateServer` return. Servers,
network and asynchronous answers carry no fairness.

**What the violations show** (`findings` in `PROJECT.json`).

1. `leader_lost`: two puts of one key, both acknowledged. Thread A reads
   `lastApplied` and `commitIndex` before B commits, B applies both entries,
   then A writes its older one. With no thread left in the node `kv_store` and
   the log disagree. When B's `setLastApplied` lands last this stays so until
   the key is put again; when A's does, the next commit applies B's entry once
   more.
2. `follower_split`: a follower with a stale suffix receives a request with
   few entries and a newer commit index; `min(leaderCommit, last index)`
   covers rows the request did not check.
3. `follower_term`: a scheduler thread in `becomeCandidate` reads the term,
   the handler takes a newer leader's request, raises the term and commits,
   and the scheduler thread writes its old value plus one. A delayed request
   of the leader in between then passes the term check and deletes the
   committed row, with no restart and no failure.

**Nearby results**, obtained by small changes to a run or seen in its states.

* Leader. `AckedApplied` fails in `leader_alone` with `StorageFails = TRUE`: a
  `setCommitIndex` that fails is swallowed and the put is still answered with
  success. A key can go back to an older value that was never acknowledged: a
  crash before `setLastApplied` makes the next put apply two entries in one
  go, and a second crash there makes the first be applied over the second;
  `AckedReadable` is the part that survives two crashes. `CommitCatchesUp`
  would fail if it asked the same of `lastApplied`: a slow thread can set it
  back, and nothing applies again until the next commit.
* Follower. With `MaxCrashes = 1` in `follower_split` and `SplitSend` off,
  `CommittedAgrees` fails too: `RaftState` is created anew at
  `RaftNode.java:42`, so after a restart the term is 0 and a request of a
  deposed leader is accepted and deletes committed rows. With
  `DeleteMayFail = TRUE` in `follower_log`, `LoopMerges` and `CommittedAgrees`
  fail: after a delete that fails in silence the insert goes to the end of the
  log and not to the index it is meant for. `CommittedAgrees` and
  `RowsPresent` survive every other failing call; `StoreAgrees` does not,
  since a dropped `updateKeyValue` is followed by a `setLastApplied` that
  claims it.
* Election. In `Election` as in `Candidate` the term can fall: `currentTerm++`
  loses an update against `appendEntries` and against another scheduler
  thread. A follower that has just heard its leader turns candidate, because
  the 150 ms task looks at the role only, where the comment at
  `RaftNode.java:76` speaks of a timeout. A vote request carries the term at
  the time it is sent, not that of the election it belongs to. A peer that
  hangs keeps `appendEntries` out for as long as it hangs.
* Client. With servers whose addresses name different numbers of hosts,
  `StubFound` fails as well as `OneObject`: the destructor counts with the
  number its successor's constructor has set, and reads past its array when
  that is larger. The destructor hangs if an asynchronous
  call is never answered, since its deadline is set on another context than
  the one the call uses (`kvclientimpl.cpp:82`); `CallReturns` leaves this
  case out explicitly. A failed asynchronous call is never deleted (line 54).
  After a failure get and put do not try the other servers of the list; only
  another `kv739_init` does.

## 4. Proofs

Every safety property of the passing runs (invariants, `LogAppendOnly`, both
refinements) is also a theorem, for any sets of peers, threads, keys, values
and servers and any bounds. Some theorems have a condition on the constants;
each is one that a violation run or a nearby result of section 3 shows to
matter. Each module names its assumptions on constants in an `ASSUME` that TLC
evaluates in the runs. The inductive invariants were checked by TLC on small
instances before they were proved.

| Module | Theorems (property) | Condition |
|---|---|---|
| `LeaderNodeProofs` | `TypeCorrect` (`TypeOK`), `RowsFound` (`NoMissingRow`), `LeaderLogAppendOnly` (`LogAppendOnly`) | none |
| | `AckedIsApplied` (`AckedApplied`), `AckedIsReadable` (`AckedReadable`) | `Alone` |
| | `QuorumsMeet` | an even number of peers |
| `ElectionProofs` | `TypeCorrect` (types, part of the argument), `TermAccepted` (`AcceptedInTerm`) | none |
| `FollowerNodeProofs` | `TypeCorrect` (`TypeOK`) | none |
| | `LoopIsMerge` (`LoopMerges`) | `~DeleteMayFail` |
| `FollowerCommitProofs` | `CommittedIsChosen` (`CommittedAgrees`), `RowsFound` (`RowsPresent`) | `Healthy` |
| | `StoreIsChosen` (`StoreAgrees`), `StoreStaysChosen` (`StoreChosen`) | `Reliable` |
| `SQLiteStorageProofs` | `TypeCorrect` (`TypeOK`), `LateRowsAlwaysLag` (`LateRowsLag`), `Refinement` (`Implements`) | none |
| `KVClientProofs` | `TypeCorrect` (`TypeOK`) | none |
| `RPCClientProofs` | `StubAlwaysFound` (`StubFound`), `ObjectsReleased` (`OneObject`), `InitAlwaysProtects` (`InitProtects`) | `Uniform` |
| `CallMapProofs` | `Refinement` (`Implements`) | none |

The provers check about 8100 obligations.

**The leader's log** (`LeaderNodeProofs`). `NoMissingRow` and `LogAppendOnly`
are not inductive. Whether a row is missing depends on indices the thread read
some steps before; whether `appendEntries` deletes rows depends on a request
built before. The invariant `Inv` adds

* `IndexesInLog`: commit index, last applied and all next indices lie in the
  log (or one past it);
* `InLog(t)`: the loop bounds and indices a thread holds lie in the log, and a
  request that is built but not handled is still a slice of it.

Since a pending request is a slice of the log, `MergeEntries` finds no clash
and leaves the log alone (`AcceptedUnchanged`); so every step leaves the log
or appends to it (`CallLogGrows`); so everything that lay inside the log still
does, for the threads that wait (`CallOthers`, `Waits`), the one that moves
(`CallOwn`) and the shared indices (`CallIndexes`). A crash resets what the
threads hold. A failing storage call keeps `Inv` too: an index read as 0 lies
in every log, a write that is dropped changes nothing, and an exception
forgets what the thread held. The result explains why the wrong call in
`sendAppendEntries` does no damage to the leader's own log, and it would stop
holding if `nextIndex` were ever set past the last index plus one.

**Acknowledged puts** (same module). `Alone` says: no peers, storage calls
succeed, at most one put and one election at a time, no promotion from
outside. Crashes, terms, keys and lengths are unlimited. One election
at a time is what the code does here: the periodic task does not overlap
itself, and without peers nothing arms the timer. A promotion by a harness
lets an election change the term under a put, and `AckedApplied` fails. With two puts at once `leader_lost` happens, and with failing
storage calls `AckedApplied` fails (section 3). `AloneInv` says for each
control point of the put (`PutState`) how its locals relate to the tables: its
entry is the last of the log and of the leader's term and lies behind the
commit index, so the loop of `updateCommitIndex`, which skips entries of other
terms, cannot pass it by. `Stored(m)` says that each entry up to `m`, or a
later one of its key, is in `kv_store`; a restart starts to apply behind
`lastApplied` and so takes no key back behind what was acknowledged.

**The threshold.** `QuorumsMeet`: with an even number of peers, two sets of
nodes that pass the test of `RaftNode.java:96` and `:175` have a node in
common. It is a theorem about `Reached` and not about the reachable states,
which never tell a half from a majority (section 5).

**Elections** (`ElectionProofs`). `AcceptedInTerm` speaks of the moment the
handler reaches the log, several steps after it compared terms. `Inv` adds
where each pool's threads can be (`Places`), that a worker between a peer's
answer and `unlock()` is a reader and that the handler inside its lock is
alone (`LockInv`), that an elector about to write read a term below the bound
(`BelowBound`), and what the handler knows of the term at each of its steps
(`HandlerKnows`). Workers write the term
as readers, whom the handler's write lock keeps out; elections take no lock,
and set the history variable `raced` when they write during the handler.

**Follower, whatever fails** (`FollowerNodeProofs`). `Inv` has the promises of
the environment as they follow from its actions (`Cluster`: log matching
between the leaders' logs, and each leader holds what it can know to be
chosen), and what the handler holds between statements (`Running`: its request
is a slice of its leader's log). `Merging` describes the loop: nothing has
differed yet, or the first clash has just been cut away, or the request is
being appended behind it. At the end that is `MergeEntries`. When a delete
fails the insert lands elsewhere, hence the condition.

**Follower, what it commits** (`FollowerCommitProofs`). `Healthy` excludes
split sends, failing deletes, restarts and lost updates of the term;
`follower_split` and `follower_term` show that two of them are needed, and
section 3 names the changes of a run that show it of the others. Every other
storage call may fail at any statement. `Committing` is Raft's argument at
this node: the log obeys log matching towards the leaders' logs (`Aligned`),
the loop has brought it into line with the request's leader up to the current
entry, and that leader, being of a term at least as late as any that committed
here, holds every entry committed here. So a clash lies behind `commitIndex`
and the loop deletes no committed row. `RowsFound` follows: whichever commit
index line 230 reads, after a write that failed in silence as after one that
did not, lies in the log.

**Follower, what it applies** (same module). `Reliable` needs storage calls
that succeed and requests that are not split, but the term may fall and the
node may crash: a row up to the request's commit index has been brought into
line by this very request before it is applied, whoever sent it. `Applying`
follows `applyCommittedEntries` through its loop: before a crash the table is
what the first entries up to `la` make of it (`Table`); after one, entries
are applied again over newer ones, and every key has the value of a chosen
entry at or behind the last one `lastApplied` covers (`Since`, `Latest`).

**Storage** (`SQLiteStorageProofs`). The keys of `logs` are an interval 1..n:
inserts use `MAX + 1` and deletes cut a suffix, so `SELECT MAX` is the length
and the table read by key is the sequence of `DurableStore`. `LateRowsLag` is
inductive with the types. The refinement has a lemma for each kind of method
(insert, delete, the two updates, upsert, queries) and one for failures,
swallowed or thrown. An append that throws after its insert is the step
`AppendAndThrow` of `DurableStore`; opening, also when it fails after its
insert, and closing are stuttering steps.

**Client.** `KVClientProofs` has the invariant that the other two modules
share: `Roles` (the object of `kv_client`, the one under construction and the
one in its destructor are different, and the last two exist just while the
thread is there) and `Control` (which call runs at which place). `Uniform`
says that all addresses name the same number of hosts; without it `StubFound`
and `OneObject` fail. `Lives` in `RPCClientProofs` says that the hosts before
the loop index of a constructor are complete and those of a destructor
released, and that every other object is whole. `CallMapProofs` needs no such
condition, for gets and puts do not depend on the stubs of other hosts. Its
invariant `Requests` says that requests on their way belong to different
calls, and that one of the running call is there only while the call waits
without an answer. So a put that is redirected leaves no request behind and
takes effect at most once. `KVAssumption` says that values are records of a
name and a length, so that a value that fits the caller's buffer is returned
as it is.

**Only model-checked**: liveness (`PutAnswered`, `CommitCatchesUp`,
`HandlerReturns`, `CallReturns`), since fairness and `ENABLED` are out of the
prover's reach. The theorems are about the models: what section 2 takes as one
step, and the environment of `FollowerNode`, is not proved but argued there.

## 5. Not modelled, and what is read charitably

* `ServerConfig` reads a file once. `KVStoreServer` starts the gRPC server,
  then the node; the order in which it starts and its arguments are not
  modelled. `src/client/build` is generated. `kvclient.h` declares a class
  that nothing defines or includes.
* `get` of the service changes nothing and has no action: what it can return
  at any time is the variable `kv`, which `AckedReadable` and `QuiescentStore`
  speak of.
* Elections are a little freer than the code's: an exception in
  `startElection` cancels the periodic task for good, while the model lets it
  run again. There is no composition of several nodes: no class
  exports `appendEntries` or a vote handler as a service, so nodes of this
  code never reach each other.
* The threshold of `RaftNode.java:96` is not a majority for an odd number of
  peers; as votes are never counted and replicas are counted on one node only,
  no reachable state shows it. `QuorumsMeet` proves that it is safe for an even
  number.
* Client: one application thread, as the globals without locks require;
  constructors do not throw; `sendRequestDone` only logs. Nothing in the
  repository calls `sendRequestAsync`; the model lets the application do it.
* `index` is a reserved word of SQLite, so the DDL of `SQLiteStorage.java:31`
  is rejected by a real SQLite; the tests mock the connection. The model reads
  it as the name of the key column. `sqlite-jdbc` has test scope in `pom.xml`,
  and `storage.path` in `config.txt` is no JDBC URL.
* Every peer channel is opened to `localhost:50051` (`RaftNode.java:40`).
* A peer list is never empty through `peers=` (`"".split(",")` has one
  element); a node without peers is made by `peers=,` or by passing an empty
  list, and is what `leader_alone` and `leader_lost` are about.
* The client includes headers and a service that the repository lacks: its
  stub, `IsLeader`, `Shutdown`, `TerminateServer` and `LeaderRedirectException`
  are external. The exception is taken to be thrown out of `sendRequest` with
  the address of some server.

## 6. Plan

Done: `RaftLog`, `LeaderNode` with storage failures, `FollowerNode`,
`SQLiteStorage` over `DurableStore`, `Election`, `RPCClient` and `KVClient`
over `CallMap`, and a theorem for each of their safety properties. The reads
of the service, planned as a module of their own, became `AckedReadable`.

Left:

1. a theorem for the atomic steps of `LeaderNode`: `appendEntries` split into
   its statements, with the puts of other threads between them, implements the
   one step of the model (section 2 argues it);
2. what a follower that has restarted may still commit: `CommittedIsChosen`
   under the condition that no deposed leader is heard after the restart.

Of the system: a composition of nodes would need the service that connects
them, which the repository does not have yet.
