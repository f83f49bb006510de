# ClexShard: a verification development

ClexShard is a sharded ledger for smart contracts. Its core is a fork of
Chainspace (`src/chainspace/chainspacecore`, Java): objects live in shards, a
shard is a group of replicas run by BFT-SMaRt, and a transaction that spends
objects of several shards is committed by S-BAC, a two-phase protocol between
the shards. Contracts are checked by Python processes; demos run contracts in
SGX enclaves that talk over attested sessions (`src/demos/Complex_contract`).

This directory holds TLA+ models of that program, TLC instances that check
them, and proofs checked by TLAPS. Paths below leave out
`src/chainspace/chainspacecore/src/main/java/uk/ac/ucl/cs/sec/chainspace/`
for Java files; `PROJECT.json` has the full paths and the source lines of
every definition.

## 1. Inventory

| component | state | operations | what is hard |
|---|---|---|---|
| shard replica, `bft/TreeMapServer.java` | `table`: object to status; `sequences`: transaction to seven flags | ordered: PREPARE_T, ACCEPT_T_COMMIT, ACCEPT_T_ABORT, CREATE_OBJECT, PUT, REMOVE; unordered: TRANSACTION_SUBMIT, PREPARED_T_*, ACCEPTED_T_*, GET, SIZE; snapshots | the delivery thread, the threads of unordered requests and the initiator's job share the two maps; `checkAcceptT` sleeps on the delivery thread |
| client proxy, `bft/MapClient.java` | one synchronous and one asynchronous BFT-SMaRt proxy per shard, `asynchReplies` | submitTransaction, prepare_t, accept_t, broadcastBFTDecision, createObjects | polls with time-outs (5 s, 10 s), reply quorums, late replies |
| protocol data, `bft/Transaction*.java`, `ObjectStatus`, `RequestType`, `ResponseType` | | | |
| core, `Core.java` | | processTransaction: package, check, store | several statements, no transaction around them |
| store, `SQLiteConnector.java` | tables data, logs, head | saveObject, setInactive, logTransaction, updateHead | UNIQUE columns, partial failure, a chain of digests |
| `SimpleCache.java` | list of digests | isInCache | not called any more |
| checkers, `PythonChecker.java` | cache of processes, port counter | getFromCache, startChecker, check | eviction, ports that wrap |
| HTTP service and clients, `ClientService`, `Client`, `ConsoleClient`, `TransactionQuery` | | submit, dump, query | |
| contract framework, `chainspacecontract` (Python) | | contracts and their checkers | sequential, stateless |
| enclave sessions, `Complex_contract/EnclaveExecutor/EnclaveMessageExchange.cpp` | session map, slot table, session count, nonces | session_request, exchange_report, generate_response, end_session, and the initiator's side | counts that drift, nonces after a refused or a lost answer, a status that nobody reads |
| task server, `Complex_contract/AppTeeProvider` | queue, worker, connection table | push, blockingPop, close, accept, shutdown | descriptors used again, SIGPIPE, shutdown from a signal handler, a full table |
| contracts `Token`, `Auction`, `Vote`, `helloWorld` under `src/demos` | one state file per program, a receive buffer | createAc, getBalance, transfer; addItem, bid; initial, nominate, vote | truncate, write, answer: a crash in between; a buffer that keeps old bytes; a file whose layout depends on the order of names |
| clients, `src/Client`; deployment shells, `src/demos/*/deploy_test` | what was sent, counted or flagged | send, receive, finish | no time-out, no request number, threads that share plain flags |

How they interact. A client (`Client.submitTransaction`) calls
`MapClient.submitTransaction`, which sends TRANSACTION_SUBMIT, unordered, to
every replica of every shard that manages an input. In each of these shards
replica 0, the *initiator*, runs a job on the thread of that request:

1. `prepare_t`: a synchronous ordered PREPARE_T in its own shard. Every replica
   runs `checkPrepareT`: managed inputs active, then `Core.processTransaction`
   (checker, then SQLite);
2. it broadcasts PREPARED_T_COMMIT or PREPARED_T_ABORT, unordered, to its shard;
   a commit locks the inputs at each replica that receives it and sets a flag;
3. `accept_t`: an ordered ACCEPT_T_COMMIT or ACCEPT_T_ABORT in *every* input
   shard. `checkAcceptT` waits up to 250 ms for a PREPARED_T_* flag and answers
   from it. The job polls for a reply quorum of every shard, up to 10 s;
4. it broadcasts ACCEPTED_T_COMMIT (inputs become inactive; the initiator's
   handler sends CREATE_OBJECT to the output shards) or ACCEPTED_T_ABORT
   (locked inputs become active);
5. it answers the client, which polls for the answers of all shards up to 5 s.

What makes each part correct: a commit decision rests on prepares of every
input shard; shards agree; the client hears a commit only if all shards
committed; statuses change only for a cause; spent objects stay spent;
repetitions do not commit twice; and nobody waits for ever, although the
protocol waits on the thread that delivers the messages it waits for. For the
enclave part: slots and counts agree, nonces of both ends agree, sessions are
not lost, every requester gets an answer or the end of its connection, and a
signal ends the process; for the contracts: coins and ballots are conserved,
bids rise, success is told only of what is in the file; for the clients: a
measurement ends, and not before every provider has answered.

## 2. Modules

| module | models |
|---|---|
| `SBAC.tla` | TreeMapServer and MapClient, the commit protocol, with Core and SQLite reduced to what the protocol sees |
| `MC_SBAC.tla` | instances of SBAC |
| `SBACProofs.tla` | theorems about SBAC |
| `AtomicCommit.tla` | the abstract specification: what the commit protocol promises |
| `SBACRefinement.tla` | the mapping under which SBAC implements AtomicCommit |
| `SBACRefinementProofs.tla` | the proof that it does |
| `EnclaveSessions.tla` | the four ECALLs of the responder's enclave as operators on its globals |
| `ComplexContract.tla` | both providers: contract C2 of one, server, worker, queue and enclave of the other, signals, crashes |
| `SessionService.tla` | the abstract specification of a provider: a queue of requests in front of an enclave |
| `ComplexContractProofs.tla` | that ComplexContract implements SessionService |
| `SessionProofs.tla` | theorems about its sessions |
| `SlotsProofs.tla` | that sessions are given back when nothing crashes |
| `MC_ComplexContract.tla` | its instance |
| `Contracts.tla` | Token, Auction and Vote: contents of a state file, and the outcomes of every call |
| `Programs.tla` | one definition per program of `src/demos` and `src/Client`: contract, ports, encryption, argument |
| `Deployment.tla` | service loops, state files, datagrams, clients, shells, crashes |
| `DeploymentProofs.tla` | theorems about its clients |
| `StateFileProofs.tla` | theorems about the contents of its state files |
| `FoldLemmas.tla` | the sums they need |
| `MC_Deployment.tla` | its experiments |

`SBACRefinement` EXTENDS `SBAC` and instantiates `AtomicCommit`; `MC_SBAC`
EXTENDS `SBACRefinement`; `SBACRefinementProofs` EXTENDS it and `SBACProofs`.

`ComplexContract` EXTENDS `EnclaveSessions` and instantiates `SessionService`;
`Deployment` EXTENDS `Programs` and `Contracts`; the proof modules EXTEND what
they are about, and TLAPS. In `Programs` the complex contract is one program
that answers every datagram; what it does before it answers is `ComplexContract`.

## 3. SBAC

### State and code

| variable | code |
|---|---|
| `table[s][r][o]` | `TreeMapServer.table` of replica r of shard s; `"NONE"` is a null |
| `stored[s][r]` | transactions with a row in `data` or `logs` of the replica's database |
| `known`, `flags` | keys of `sequences`, and the fields that are true |
| `requested[s]`, `log[s]`, `answers[s][r]` | ordered requests handed to shard s, in delivery order, and what replica r returned for the prefix it has executed |
| `inbox` | unordered requests on the way: TRANSACTION_SUBMIT and the broadcasts |
| `pc`, `vote`, `decision` | the job of the initiator of s for a call: where it stands, `strReplyPrepareT`, `strAcceptCommitReply` (or the abort it broadcasts) |
| `outcome` | what `submitTransaction` returned |

### Actions

`SubmitTransaction`, `ReturnToCaller`: the client. `HandleSubmit` and
`HandlePreparedTAbort`, `HandlePreparedTCommit`, `HandleAcceptedTAbort`,
`HandleAcceptedTCommit`: the unordered handlers at one replica, each the whole
handler. `Order`: BFT-SMaRt delivers one more request. `ExecutePrepareT`,
`ExecuteAcceptT`, `ExecuteCreateObject`: `executeSingle` at one replica.
`BroadcastPrepared`, `SendAccept`, `BroadcastAccepted`, `ReplyToClient`: the
job, cut where it waits for others. `Terminating`: nothing is left to do.

### Decisions

- *BFT-SMaRt* is external: a shard delivers requests in one order to all its
  replicas, each at its own pace; unordered requests are delivered in any
  order, at any time, to each replica separately. A synchronous broadcast
  returns when a quorum has run the handler or its time-out elapses.
- *Quorum* is `(N + F) div 2 + 1`: `getReplyQuorum` takes the ceiling of an
  integer division. `ServiceProxy` uses the same number with `system.bft = true`,
  which every configuration in the repository sets. A shard of one replica and
  F = 0 is what `ChainSpaceConfig` ships; two replicas and F = 1 is
  `contrib/core-tools/node-dist-template`.
- *Waits and time-outs.* A wait ends by its condition, or by its bound if its
  name is in `Expiring` (`"submit"` 5 s, `"prepare_t"` and `"broadcast"`
  BFT-SMaRt's invocation time-out, `"accept_t"` 10 s, `"checkAcceptT"` 250 ms).
  Time itself is left out: an expiring wait may end at any moment.
- *Failures* in `Failing`: the checker declines (`"declined"`), a statement
  fails after rows were written (`"halfway"`), PREPARE_T raises (`"raised"`,
  an empty answer or an exception), sending ACCEPT_T raises (`"send"`).
- *Core*: with `DEBUG_ALLOW_REPEAT = false` the columns are UNIQUE, so a
  database that has rows of a transaction refuses it. `DEBUG_IGNORE_DEPENDENCIES`
  is true, and the checks of the cache and of inactive rows are commented out
  (`Core.java:126-141`), so neither appears.
- The transactions carry a contract (`csTransaction` is not null). Objects in
  `Genesis` exist at the start, as after earlier init transactions.
- `sequences.get(t.id)` without the key raises a NullPointerException that the
  handler swallows *after* it changed the table: `SetFlag` then changes nothing,
  and the table change stands.
- `answers` holds `"null"` for CREATE_OBJECT, whose replies nobody reads.
- Left out: accesses to the two HashMaps are atomic (a data race inside
  `java.util.HashMap` is not modelled), restarts, view changes, console
  operations.

### Runs

All instances are in `MC_SBAC.tla`: x lives in shard A, y and the output z in
shard B (or all in A); t1 spends x and y for z, t2 spends y.

| run | instance | checks | states |
|---|---|---|---|
| `SBAC_conflict` | two shards of one replica, t1 and t2 at once, late replies | `TypeOK`, `CommitBackedByPrepares`, `SpentStaysSpent` | 1.3 million |
| `SBAC_timeouts` | t1 alone, two shards, every wait may expire, PREPARE_T and sending may raise | `StatusHasCause`, `ClientCommitIsUnanimous`, `ImplementsAtomicCommit` | 0.5 million |
| `SBAC_replicas` | t1 alone, two replicas per shard, F = 1 | `CommitBackedByPrepares` | 0.8 million |
| `SBAC_resubmit` | t1 twice at once, one shard of two replicas | `OneVotePerTransaction` | 0.4 million |
| `SBAC_retry` | t1 twice at once, one shard of one replica, every wait may expire, the core may decline or fail half-way | `ImplementsAtomicCommit` | 0.3 million |
| `SBAC_patient` | t1 and t2, two replicas per shard, nothing expires | `Agreement` | 1.2 million |
| `SBAC_drain` | t1, two shards, fairness | `LogsDrain` | 19 thousand |
| `SBAC_disagree` | t1, one shard whose two replicas may differ, fairness | `JobsFinish` | 3 thousand |
| `SBAC_early_reject` | t1 twice, one shard | violates `EarlyReject` | |

`SBAC_timeouts` leaves out a checker that declines and a statement that fails
half-way: for a transaction submitted once both are an abort vote, which the
time-out of PREPARE_T already gives. Where they matter, on a second submission,
`SBAC_retry` has them.

Bounds. Two shards are enough for a cross-shard commit, its cross-shard waits
and a split decision; two transactions for a conflict; two replicas with F = 1
(quorum two) for replicas that drift apart, and, with one reply less, for the
weaker quorum of the mutant. Every counter of the model is bounded by the
number of calls: a call sends a fixed number of requests and messages.
`SBAC_patient` turns the deadlock check off because there the system really
stops: two delivery threads can wait in `checkAcceptT` for flags whose
broadcasts need a PREPARE_T queued behind them, and without the 250 ms nothing
moves. All other runs check deadlock, with `Terminating` for a finished system.

Fairness (`SBAC_drain`, `SBAC_disagree`) is weak: a client in
`waitForShardResponses` polls on; each replica's thread of unordered requests
and its delivery thread go on; BFT-SMaRt orders what it was given; a job goes
on. A wait that may expire does so eventually, because each loop counts its
sleeps. Nobody is obliged to submit. No fairness favours a particular message.

### What the runs show

- `CommitBackedByPrepares`: time-outs make shards abort, never commit, for lack
  of information, and the quorum turns answers into a majority that prepared.
- `ClientCommitIsUnanimous`, `StatusHasCause`: with every wait expiring and
  every step failing the client's commit and each replica's table go back to
  votes and decisions.
- `SpentStaysSpent`: the unlocking of a losing transaction never revives an
  object that a winning one has consumed; the test of the previous status is
  what ensures it.
- `OneVotePerTransaction`: the early rejection is commented out, and it is the
  UNIQUE columns of SQLite that stop a second commit vote of a shard.
- `Agreement` holds while no wait expires. It does *not* hold with time-outs:
  a replica that answers after 250 ms without having seen the prepare makes one
  shard abort while another, which polled at another moment or whose ACCEPT_T
  was ordered later, commits. This is a limit of the protocol as coded (each
  initiator sends its own ACCEPT_T, so shards hear different answers for the
  same transaction), which is why it is stated for patient runs only.
- `LogsDrain`, `JobsFinish`: the bounds on the waits of `checkAcceptT` and
  `accept_t` are what makes the protocol live; without the first the two
  shards block each other, without the second replicas that disagree leave the
  job waiting for a quorum that never forms.

- `ImplementsAtomicCommit`: in each run, with time-outs, errors and repetitions,
  every step of the protocol is a step of `AtomicCommit` (next section) or
  changes nothing that it speaks of.

### The abstract specification

`AtomicCommit.tla` has four variables and five actions: a call is submitted; a
shard prepares a transaction; every *target* shard votes on a call once, to
agree only if it has prepared the transaction and has not agreed to another
call of it; it decides once, to commit only if it agreed and every
*participant* has prepared; a caller is told "committed" only if all targets
have committed, "aborted" only if one has aborted, and otherwise "unknown".
A shard may refuse at any time: that is the freedom the time-outs take. It says
nothing of agreement between shards, which the code does not provide.

The mapping (`SBACRefinement.tla`): a shard has prepared a transaction when a
majority of its replicas has answered a PREPARE_T of it with a commit; "agree"
is a `vote` PREPARED_T_COMMIT, "commit" a `decision` ACCEPTED_T_COMMIT, and any
other reply a refusal; SUBMIT_T_SYSTEM_ERROR is "unknown".

### Divergence found

`SBAC_early_reject`: `bft/TreeMapServer.java:426-428` says "We do not process
transactions that are already being processed or were previously committed".
The test that would do it is commented out (429-432) and the next statement
replaces the sequence (434), so two jobs of one transaction run at once. (Were
the test in force, `processShardResponses` would read its SUBMIT_T_REJECTED as
a commit: it only recognises aborts and errors.)

## 4. Complex contract

Two providers (`Complex_contract`), each a process with an enclave. Contract C2
of one, the initiator, opens a session with the enclave of the other, the
responder, exchanges messages over it, synchronises its state and closes it
(`C2.cpp`, func2). Every request has a connection of its own (`fifo.cpp`). Both
processes play both roles, but the roles share no variable of a process, so one
direction is modelled.

### State and code

| variable | code |
|---|---|
| `phase` | the main thread: running, in the handler after `stop()`, after `close()`, or no process |
| `enclave` | `g_session_id_tracker`, `g_dest_session_info_map`, `g_session_count` of the responder |
| `fresh`, `born` | number of the next handshake; its value when the process was started (no code: they tell keys apart) |
| `server` | `CPServer::doWork`: what select reported and is not yet handled, and the message in its hands between the test of `isStopped` and the push |
| `worker` | `CPTask::run`: where it is, its message, the reply it is to send |
| `queue` | `CPTask::m_queue` |
| `conn`, `backlog` | `client_fds` with the state of each connection; connections not yet accepted |
| `initiator` | func2: the request it is at, `g_session`, and what it has read from its connection |

`EnclaveSessions` has the four ECALLs as operators that give the enclave after
the call and the reply. `ComplexContract` has one action per step of a thread
that another thread can see: `Select`, `Accept`, `Refuse`, `Receive`, `Push`,
`Hangup` of the server; `LoopTest`, `Pop`, `PopClosed`, the four `Call`s,
`Send`, `SendDead` of the worker; `Signal`, `CloseQueue`, `Exit` of the main
thread; `Invoke`, `Ask`, `TakeAnswer`, `Closed` of the initiator; `Restart`,
`ResponderCrash`, `InitiatorCrash`.

### Decisions

- *Cryptography* is the number of the handshake a message belongs to. A message
  can be opened only with the key of its own handshake; a buffer of zeroes has
  key 0, which opens nothing.
- *CPTask never reads `status`* (`CPTask.cpp:185` and the like), so a refused
  call is answered like any other, with a body of zeroes.
- *Sizes* appear where the code compares them: a response to a STATE_SYNC has
  73 bytes, `max_payload_size` is 50, so `Fits` is false and every
  synchronisation is refused; func2 does not look at its result.
- *Descriptors.* A slot stands for its descriptor. The kernel hands out the
  lowest free number, so a connection that takes a slot again has the number of
  the one before, and `Send` writes to whoever holds it. A closed number gives
  an error, which is ignored; a number whose requester has closed its end
  raises SIGPIPE, which nobody catches: `SendDead`, `Refuse` end the process.
- *A full table*: the requester is sent a text and its connection is forgotten.
- *Signals* are taken to run on the main thread, at any moment. A second signal
  is not modelled. A request popped after `stop()` is freed without an answer.
  A server that was already in `select` makes one last pass (`late`).
- *A requester has no time-out*: it waits for an answer or for the end of its
  connection.
- Each provider's process can be started again by hand (`Restart`), with an
  empty enclave.

### Run

`ComplexContract` (198 thousand states): two session slots, two connection
slots, one STATE_SYNC per contract, three calls of func2, two crashes or
signals. Two slots of each kind are enough for a slot to be taken again while
another is in use and, with orphans of a crashed initiator, for a full tracker
and a full table; three calls with two faults let two handshakes be abandoned
before a third. The deadlock check is off because a provider without datagrams
waits for ever.

Fairness is weak, and says that each thread runs: server, worker, the handler
once it was entered, the initiator. No datagram, signal, crash or restart has
to come.

- `SlotsMatchSessions`: `end_session` frees a slot, and counts down, only while
  `g_session_count` is positive. A failed handshake that reached it would lose
  a slot for ever; the property holds because msg2 and close requests always
  name a session of their own handshake, also across restarts and orphans.
- `SlotsReturned`: without faults a call of func2 gives its session back,
  whichever request failed.
- `SessionInStep`: key and nonce of the two ends agree although answers are
  refused, or go to another connection.
- `ImplementsService`: see below.
- `RequestsEnd`, `ShutdownEnds`: no requester waits for ever, and a signal
  always ends the process, wherever the worker is.

### The abstract specification

`SessionService` knows no connections, descriptors, threads and signals. It has
a FIFO of requests in front of an enclave and four actions: a request arrives at
the end; a request is lost; the enclave executes the first one; the process
ends, which loses all requests and empties the enclave.

The mapping (`Pipeline` in `ComplexContract.tla`) concatenates the places where
a request can be: the hands of the worker before the ECALL, the queue, the
hands of the server, the connection that select reported, another accepted
connection, the backlog. It is empty once the worker has left its loop. That
requests keep their order through `select`, which looks at slots by number and
not by age, rests on the form of a pass: it accepts one connection, before it
reads, and reads all that was reported, so at most one unread request was
reported and at most one was accepted since (`Discipline` in the proofs).

## 5. Demo contracts and their clients

A program of `src/demos/{Token,Auction,Vote,helloWorld}` receives a datagram,
loads its state file, calls an operation, and, if the state changed, truncates
the file, writes it and then answers. A client of `src/Client` sends requests
from one thread and counts or collects the answers in others until main has
what it waits for. Nothing is retried and no datagram carries a number.

### State and code

| variable | code |
|---|---|
| `scenario` | which programs run, which client, with which requests, how often (no code: the experiment) |
| `phase[i]` | main of program i: waiting in recvfrom, between truncation and close of its file (`updateState`), or dead |
| `inbox[i]`, `mail[k]` | datagrams in the socket of a program, of a listener of the client |
| `disk[i]`, `pending[i]` | the state file; the image being written and the answer to be given after it |
| `tail[i]` | what lies in the receive buffer behind the last datagram (`acBuf` of Auction, which is never cleared) |
| `client` | run number, request, datagrams sent, answers counted or flags set |
| `answered[i]` | last answer of a program to a request of this run (no code: for the properties) |

`Contracts` gives the outcomes of every operation on a state file; `Programs`
has one definition per source file, because the files of a contract are copies
that differ in ports, encryption and the handling of the argument `deploy`.
Actions: `Serve` and `EndLoop` (one turn of the loop of a main), `Store` (the
file is written and closed, the answer sent), `Deploy` (a deployment shell),
`Crash`, `Start`; `StartRun`, `Send`, `Receive(k)`, `Finish` of the client.

### Decisions

- Names are numbers: only equality and, in Vote, the order of names matter. A
  price is a sequence of digits, because stale digits change it. Balances wrap
  at `UintRange`.
- *Encryption.* The encrypting programs (Token, Auction, Vote and their copies)
  encrypt with DES in blocks of eight bytes and read the ciphertext back as C
  strings. A zero byte among the first seven of a block of a price, of `num` or
  of the manager's name ends it too early (`Auction.cpp:157`, `Vote.cpp:147`,
  `157`): 165 comes back as 2, and 2.7 percent of the numbers below 100,000
  come back as another one (28 is the smallest). A count or a balance is taken with
  `strlen` of its whole record as its length, and so is cut by a zero byte at
  the front of the *name* beside it, which happens to about three names in a
  hundred (`Token.cpp:145`, `Vote.cpp:169`, `193`). A number of eight digits
  fills its block and leaves no end to it, and of a longer one the second block is not
  written (`Token.cpp:182`). The key is in the source, so which names and
  numbers are cut is fixed: the constants `CutNames`, `CutCreators` (names cut
  when read as a C string of 24 bytes, as the manager's is) and `CutNumbers`,
  and `FieldRange`, 10^7, above which a record has no room. A load gives any
  number for what is cut (`ReadAs`, `ReadBack`, `LoadBid`, `LoadBallot`), and a
  manager whose name is cut is nobody (`KnowsManager`).
- What the three properties of the state files claim is bounded accordingly:
  `TokensConserved` speaks of programs that can read back every account and all
  coins on one account (`KeepsCoins`; always true of the plain program),
  `HighestBidOnlyRises` of a price that is read back, `BallotsNeverGrow` of a
  file that is read back whole (`Whole`). Without these conditions each of the
  three is false, and the run has the experiments that show it.
- The encrypting Vote program writes its state anew at every start; the plain
  Auction program writes its bid as four bytes and reads it back as text
  (`BytesAsText`).
- *Reads of unset memory* (an empty state file of Auction, the unterminated
  names of `parseNominate`) are choices over what they can give. `Garbage`
  stands for any number: 0, which is what text that is no number is read as, and
  one other. The pointer
  `parseBalance` returns is dangling, but the makefiles do not optimise and the
  bytes are still there: the answer is the balance.
- *A state file* reaches the disk in one piece when it is closed: a record has 32
  bytes and an ofstream keeps about 8000. A file of more than 250 accounts
  (`multiple_accounts`) is written in several pieces, and a crash between two of
  them, which leaves the first records only, is not modelled.
- *UDP on one host* loses a datagram only if nobody is bound to the port or the
  socket is full; it does not reorder. The sockets of a program and its client
  are bound before anything is sent.
- `CreateAc` changes only the copy in memory, which the next load clears: it
  answers and stores nothing, as the code does.
- `ScenarioAssumption` says what an experiment is: every program has its own
  port, a client listens where the programs it addresses answer, and its
  requests are calls of their contract. It is evaluated for the checked ones.

### Runs

| run | instance | checks | states |
|---|---|---|---|
| `Deployment` | 68 experiments | `TypeOK`, `TokensConserved`, `BallotsNeverGrow`, `HighestBidOnlyRises`, `AcknowledgedIsStored`, `DoneMeansServed`, `ClientFinishes` | 128 thousand |
| `Deployment_voters` | Vote alone, outside test mode | violates `VotersAreSpecified` | |

The experiments: each of 13 programs alone, in both modes, under any calls of
its contract in four runs, with up to two crashes and restarts; service loops
with unknown and empty datagrams; the providers 1 to n and the client made for
n of them (n up to 8 for calls that change nothing, up to 4 for those that
write, whose interleavings grow fastest); the deployment of seven contracts and
of one; two runs of two requests for the counting and flooding clients; five
with accounts, voters and creators whose names are cut, or with more coins than
`FieldRange`. The long bid is 165, the number that is cut. Four
runs are enough to create, use and re-read a state and to bring a long and a
short bid in either order; three accounts or names cover payer, payee, stranger
and candidate, voter, neither. `UintRange = 2000` is above the 1100 coins there
are, as 2^32 is above 1000 + 100 n. `FieldRange = 1150` lies between the 1100
coins of two accounts and the 1200 of three. `MaxQueue = 4` is reached by the
flooding client only: two requests of a counting client never overflow a socket,
so `ClientFinishes` is not checked against a full one.

Fairness is weak: a program that has a datagram or a file to write goes on, the
threads of the client go on. Nobody has to crash a program, start it again or
start a client. The deadlock check is off: programs wait when the last run is
over.

What they show: a crash never creates coins or ballots and never takes back what
a client was told; stale digits change a bid but never lower the highest one,
both as long as what is written is read back; a
client that returns has been served by every program it was started for, and
returns if no program dies. What they do not show, because it is not so: that a
created account exists at the next call, that the bid taken is the bid sent,
that a state survives a crash during a write, that every name and number can
be read back by an encrypting program, or that answers counted in a
second run of several requests belong to that run (`DoneMeansServed` is stated
for first runs and runs of one request).

### Divergence found

`Deployment_voters`: `README.md:18-19` of the repository says that the creator
"specifies a group of users as the voters". `vote` adds a ballot to whatever
name it is given, without counting it as a candidate (`Vote.cpp:399`); the
records are written in descending order of names and read back by number, so a
candidate becomes a voter who was never specified.

## 6. Proofs

### SBAC

`SBACProofs.tla` and `SBACRefinementProofs.tla` prove, for all finite sets of replicas, any sets of shards,
objects, transactions and calls, any F, and whatever expires or fails:

| theorem | statement |
|---|---|
| `TypesCorrect`, `TypeCorrect` | `Spec => []Types`, `Spec => []TypeOK` |
| `SpentStaysSpentCorrect` | `Spec => SpentStaysSpent` |
| `CommitBackedByPreparesCorrect` | `Spec => []CommitBackedByPrepares` |
| `OneVotePerTransactionCorrect` | `Spec => []OneVotePerTransaction` |
| `ClientCommitIsUnanimousCorrect` | `Spec => []ClientCommitIsUnanimous` |
| `StatusHasCauseCorrect` | `Spec => []StatusHasCause` |
| `AgreementCorrect` | `Patient => (Spec => []Agreement)` |
| `Refinement` (in `SBACRefinementProofs.tla`) | `Spec => ImplementsAtomicCommit` |

Assumptions: those of `SBAC.tla` on its constants
(`ShardAssumption`, `TransactionAssumption`, `EnvironmentAssumption`), and for
`AgreementCorrect` the hypothesis `Patient` besides.

Arguments.

- *Step lemmas* (`TableStep`, `OrderStep`, `AnswerStep`, `FlagStep`, `JobStep`,
  `MessageStep`, `OutcomeStep`) say once what any step may do to each part of
  the state; the invariants are proved over them and not over the actions.
- *Commit.* Not inductive by itself: a decision comes from answers of
  ACCEPT_T_COMMIT, those from flags, flags from broadcasts, broadcasts from
  votes, votes from a quorum of answers to PREPARE_T. `CommitInv` has one
  conjunct for each link (`AnswerBacked`, `FlagBacked`, `MessageBacked`,
  `VoteBacked`); `VoteByMajority` turns a quorum into a majority.
- *Retries.* `RetryInv`: a replica that answered a PREPARE_T with a commit has
  the transaction stored (`PrepareStored`), and answers it at most once with a
  commit (`PreparedOnce`). Two calls with a commit vote have two quorums, which
  share a replica (`QuorumsIntersect`, from cardinalities).
- *Client and statuses.* `JobInv`: a job runs once per call and shard and
  writes its vote and decision once (`SubmittedOnce`, `WrittenOnce`). `CauseInv`
  traces statuses, messages and CREATE_OBJECT requests to votes and decisions,
  which stay as they were written.

- *Atomicity.* The shards of a call do not always agree: `SBAC_disagree` shows
  the disagreement that a time-out brings, and when a transaction is submitted
  in two calls TLC finds one in 30 steps, because the flags a shard keeps are
  those of the transaction and do not tell its calls apart. `Patient` names
  exactly these conditions: no reply is given up in `accept_t` and
  `checkAcceptT`, no ACCEPT_T fails to be sent, and `TxOf` is injective. Other
  time-outs and failures may happen. `AgreementInv` follows a vote to every
  place it reaches: a broadcast is the vote of the shard that sent it
  (`MessageOfVote`), a flag set by a broadcast is that vote (`FlagOfVote`), what
  a replica answers to an ACCEPT_T is the vote of its shard (`AnswerOfVote`),
  and a decision to commit needs all votes, one to abort a refusal
  (`DecisionOfVotes`); two shards that decided therefore saw the same votes.
- *Refinement.* `RefinementInv` adds to `JobInv` and `VoteBacked` that only
  target shards run a job (`TargetsOnly`) and that a shard that did not vote to
  commit does not decide to (`RefusalAborts`). One lemma per abstract action
  (`SubmitImplements`, `ExecuteImplements`, `VoteImplements`,
  `DecideImplements`, `ReturnImplements`); the other steps stutter, because only
  answers prepare (`NothingPrepared`). A vote to commit is allowed because
  `OneVotePerTransaction` holds after it, a decision because
  `CommitBackedByPrepares` does.

### Complex contract

`ComplexContractProofs.tla` proves, for any number of session slots,
connections, synchronisations, calls and faults (`MaxSessionsAssumption`,
`ComplexContractAssumption`):

| theorem | statement |
|---|---|
| `TypesCorrect`, `TypeCorrect` | `Spec => []Types`, `Spec => []TypeOK` |
| `ServiceRefinement` | `Spec => ImplementsService` |

`Types` adds to `TypeOK` that an initiator waits only in a call and that the
server accepts only what is in the backlog. The refinement needs `Discipline`:
of the unread requests at most one was reported by select and at most one was
accepted after it; select reports only open connections; what is in the backlog
was not read; a process that is down has nothing. So every part of the pipeline
but the queue and the backlog has one request at most, and a step of a thread
moves a request from one part to the one before it, which leaves the
concatenation as it is (`SelectForwards`, `AcceptForwards`, `ReceiveForwards`, `HangupForwards`,
`PushForwards`, `PopForwards`). A request that is read after `stop()` is a
`Lose`, a death or an exit an `End`, an ECALL an `Execute` (`CallExecutes`), a
connection a `Request` (`AskAppends`); all else stutters (`StepMaps`).

`SessionProofs.tla` adds, under the same assumptions and with crashes, signals
and restarts at any moment:

| theorem | statement |
|---|---|
| `SlotsMatchSessionsCorrect` | `Spec => []SlotsMatchSessions` |
| `SessionInStepCorrect` | `Spec => []SessionInStep` |

Neither is inductive. The count of open sessions is right only if
`exchange_report` never opens one twice and `end_session` closes only open ones,
which depends on what requests may still be under way: those of an initiator
that has crashed, or of a handshake with a process that has ended since.
`SessionInv` therefore speaks of the whole pipeline of the refinement above:

- `Keys`: a handshake of this process is told from those of earlier ones by its
  key, and no key is in two entries;
- `Msg2OK`, `CloseOK`: each msg2 under way finds its session in progress, each
  close finds its session open and given up by its owner, and it is the only one
  of its kind for that session (`Alone`); or it is left from an earlier process,
  finds nothing under its id, and no msg1 before it can change that (`NoOffer`);
- `OffersPending`: a key that was offered and not answered (in the worker's
  hands, in an answer, or at an initiator about to send msg2) is of an entry in
  progress, and was offered once;
- `Stale`: while an initiator holds a handshake with an earlier process, the new
  one has no session and no msg1 under way;
- `Held`, `LockStep`: the entry of the initiator's session is open until it asks
  for the close, the pipeline then holds its request and nothing else, and the
  enclave is ahead by one exactly while an answer that the initiator will accept
  is in the worker's hands or has arrived; by at most one when that answer was
  sent to somebody else.

`Keeps`, `Behind` and `Before` say which requests are left, and which of
`NoOffer` and `Alone` hold of them, when one is lost, executed or sent; over them
there is one lemma per ECALL (`SessionRequestKeeps`, `ExchangeReportKeeps`,
`GenerateResponseKeeps`, `EndSessionKeeps`, `FailedCallKeeps`) and per action of
the initiator (`AskKeeps`, `TakeAnswerKeeps`, `ForgottenKeeps`). After
`destroy_enclave` only what the initiator knows remains (`EndedKeeps`).

`SlotsProofs.tla` proves

| theorem | statement |
|---|---|
| `SlotsReturnedCorrect` | `2 <= MaxConns => (Spec => []SlotsReturned)` |

The hypothesis is one on `CONCURRENT_MAX`, which is 32 (CPServer.cpp:45). It is
needed: with one slot TLC finds a behaviour without any fault in which the close
request is refused, because the connection of the request before it still holds
the slot. The invariant `Calm` says where everything is as long as `faults = 0`:
a request that was read belongs to a connection that is still waited on
(`Carried`), nobody leaves before (`Patience`), at most one slot is held by a
connection that was given up, and select has reported it before accept comes
(`Room`, from which `NeverFull`), the pipeline holds the initiator's request or
nothing (`Single`), and the one slot of the tracker is that of the session being
offered, held, or not yet closed (`Lent`). That a msg2 finds its session in
progress and a close finds it open comes from `SessionInv`. TLC checked `Calm`
with two and three connection slots before it was proved.

### Deployment

`DeploymentProofs.tla` proves, for every set of experiments that satisfies
`ScenarioAssumption`, with any programs, clients, numbers of runs, requests and
crashes:

| theorem | statement |
|---|---|
| `TypesCorrect`, `TypeCorrect` | `Spec => []Types`, `Spec => []TypeOK` |
| `DoneMeansServedCorrect` | `Spec => []DoneMeansServed` |
| `AcknowledgedIsStoredCorrect` | `Spec => []AcknowledgedIsStored` |

Neither of the last two is inductive. `ServedInv` adds what ties an answer to a
request of the present run: nothing is under way before the first run (`Quiet`)
or, with one request per run, when a run has ended (`NothingUnderWay`), so
datagrams and images under way are of this run (`OfThisRun`); an image that no
request asked for is not answered (`Unasked`); what a client has in its sockets
or has counted was sent by a program (`Witnessed`); and a program is asked once
(`OneAtATime`), because the next target is one that was not yet addressed
(`NextTarget`). `Ports` then makes the program that answered the one that was
asked. `ProgramCases` says once what a step of a program may do to files,
sockets and answers; the invariants are proved over that.

`StateFileProofs.tla` adds what the state files hold, under the same
assumption:

| theorem | statement |
|---|---|
| `TokensConservedCorrect` | `Spec => []TokensConserved`, for programs with `KeepsCoins` |
| `HighestBidOnlyRisesCorrect` | `Spec => HighestBidOnlyRises`, from a price that is read back |
| `BallotsNeverGrowCorrect` | `Spec => BallotsNeverGrow`, from a file that is `Whole` |

The conditions are part of the properties; which names and numbers they exclude
is left open (`CutAssumption`: any sets, as long as a name that is cut at its
front is also cut when it is read as a manager's).

`ScenarioAssumption` says of the data (`CallsSuit`, `FilesSuit`) what the
programs read it as: a transferred value is a `uint`, the digits of a price are
digits, `parseNominate` yields one voter at least, a program is sent the calls
its main looks for, `create_account` has written as many accounts as it was
asked for, and all their coins together are fewer than a `uint` counts
(1000 + 100 n < 2^32). The last one is needed: the unsigned sum in `transfer`
would lose coins beyond it.

- *Loads.* A load gives numbers for the names in the file (`ReadBackType`,
  `LoadBallotType`), and the numbers that were written where nothing is cut: of a
  whole file both maps are, because the records of each are records of the file
  (`CutList`). An account is read back at every step because it never holds more
  than all coins together.
- *Steps.* `LatestStep` says what any step does to the file a program has or is
  writing: it leaves it, tears it, begins a new ballot, or makes of it what a
  call at the head of the queue computes on the file as it is on the disk.
- *Files.* `FilesInv`: a file that was not torn is of its program's kind; a
  Token file has the accounts of the first one and, with `KeepsCoins`, as many
  coins (`MoveType`; `MoveKeeps`:
  the two subtractions modulo 2^32 give the difference and the sum, also for a
  transfer to oneself), an Auction file a number (`PriceType`), a Vote file a
  number of candidates and a list of records (`VoteKeeps`, `NominateKeeps`).
- *Ballots.* A list is written from two maps and read back into two maps that
  are cut elsewhere when `num` is not the number of candidates any more, and the
  later of two records of a name wins. So the ballots held are at most those
  counted in the list (`LoadMapBound`, `HeldBound`), the list of a map counts
  what the map does (`RecordsOfMap`), and a vote changes two counts by one
  (`SumUpdate`).
- *Lists.* `Records` is the list of a set of records in the order of `std::map`;
  that there is one is `Sortable`, proved and not assumed.

`FoldLemmas.tla` has what these proofs need to know of the folds of the
community modules: that adding up the values of a function over a finite set is
well defined whatever element is taken first (`IterateAgree`, `SumIterates`),
gives a number (`SumType`), and how it changes when an element is removed, moved
or renamed (`SumRemove`, `SumMove`, `SumSame`, `SumSplit`, `SumImage`). The
induction theorems of the library take an operator as a parameter and cannot be
used; each induction is made first-order instead, by taking a subset that is a
smallest counterexample (`Smallest`, from the well-foundedness of strict
inclusion).

### Only model-checked

Liveness (`LogsDrain`, `JobsFinish`, `RequestsEnd`, `ShutdownEnds`,
`ClientFinishes`), which is beyond the prover, and the two properties that runs
refute.

## 7. Not modelled

- S-BAC: restart of a replica, checkpoints and state transfer; replies that
  come after the job that waited for them; console operations; races inside
  `java.util.HashMap`. The hazards in `PROJECT.json` name them.
- Rows that a statement which failed half-way leaves in the database: the model
  has them, and `SBAC_retry` sees the refusal they cause later, but no property
  says that they ought to be removed.
- Core: the statements on the SQLite tables one by one, the chain of heads, the
  cache and ports of checkers. The protocol sees only their outcome.
- Complex contract: the renewal of a session at nonce 2^32 - 2, failures of
  malloc, of SGX calls, of `accept` and `select`, a peer enclave that fails the
  trust test (EnclaveMessageExchange.cpp:469 returns without freeing the slot),
  signals on the worker or on a thread that holds the queue's mutex, the contents
  of a state package. `Ask` takes connect and send (`fifo.cpp:80-88`) as one
  step, so a responder that dies between them is one that died before the
  connect: in both cases the request is not read. With one requester at a time a
  sequence of *failing* handshakes, which would drain the tracker at
  `end_session` (EnclaveMessageExchange.cpp:697), is not reachable; the run
  reaches handshakes that are abandoned.
- Demos: the compiler and the image build that a deployment shell runs, clock
  readings.
- Configuration, JSON and hashing, HTTP, start-up and logging, the Python
  contract framework, for lack of state or concurrency of their own;
  SimpleCache, which is dead code.

`PROJECT.json` lists each part with its status and reason.
