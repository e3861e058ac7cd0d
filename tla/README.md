# Verification of the Proof-of-Luck cryptocurrency

TLA+ models of the program in this repository, the TLC runs that check them
and the TLAPS proofs about them.  `PROJECT.json` lists components, runs,
mutants, the source lines behind every definition (`map`), findings, hazards
and theorems; this file explains them.

    tlc -config net.cfg NodeMC        # a run: the configuration and its module
    tlapm WindowProofs.tla            # a proof

## The system

A node is one process.  Its **Qt thread** runs the network slots of `Client`,
the window and the console; the **miner's thread** runs
`Client::handleBlockCommand`; a third thread of the test mode pays random
amounts.  They share one `Blockchain`, one SQLite file, the mempool and a few
plain booleans.  Every SQL statement commits by itself, under `dbMutex`;
`mempoolMutex` guards the mempool; `networkMutex` is taken by
`handleReceivedBlock` only, so the miner's `handleBlock` runs beside it.

A new block's right to be stored is its *lucky number*, drawn and signed by an
SGX enclave after a wait that is the shorter the luckier it is.  Blocks and
transactions go to the direct peers and are not relayed; a node that misses a
block's predecessor asks the sender for it, block by block, and collects the
answers in a table `FORK<id>` until they reach its own chain.

| component | source | state | operations | modules |
|---|---|---|---|---|
| Block handling | `Chain/blockchain.cpp`, `block.cpp` | mempool | `handleBlock`, `checkTempChain`, `verifyBlock`, `checkDatabase`, `mempoolUpdate`, `newTransaction` | `ChainTables`, `HandleBlock` |
| Block database | `Database/database.cpp` | tables BLOCKCHAIN, TRANSACTIONS, INPUT, FORKS, FORK\<id\> | `createFork`, `addToFork`, `applyFork`, `replaceBlock`, `deleteFork`, queries | `ChainTables`, `HandleBlock`, `Ledger` |
| Threads of a node | `Network/client.cpp` | requests under way, the miner's block | `handleReceivedBlock`, `handleBlockCommand`, `checkDatabase` | `NodeThreads` |
| Nodes together | `client.cpp`, `connection.cpp` | each node's chain and fork tables, messages in flight | `sendBlock`, `sendBlockResponseWithBlock`, `getChainFromNetwork`, checks, `disconnected` | `Network` |
| Mempool | `blockchain.cpp` | the mempool, beside the chain | `newTransaction`, `mempoolUpdate`, `putTxInBlock` | `Mempool` |
| Miner's start and stop | `client.cpp`, `Interface/gui.cpp`, `consolehandler.cpp` | `threadRun`, `threadStopped`, the button | `startMiningThread`, `stopMiningThread` | `MinerThread` |
| Test mode's thread | `client.cpp`, `gui.cpp` | its balance, its flags, the check box | `startTest`, `startTransactionThread`, `stopTransactionThread` | `TestMode` |
| Transactions and balances | `blockchain.cpp`, `database.cpp`, `transactions.cpp` | rows and the hashes they spend | `putTxInBlock`, `getBalance`, `getUTXO`, the sums of `verifyBlock` | `Ledger` |
| Proof of luck | `Enclave.cpp`, `App.cpp` | sealed file, monotonic counters, `publicKey.txt`, `keys.txt` | `ecall_get_proof` | `Enclave` |
| Connection protocol | `Network/connection.cpp` | reader's state, buffer, timers | `processReadyRead` and what it calls, `sendPing`, `timerEvent` | `Connection` |
| Discovery, table of peers | `peermanager.cpp`, `server.cpp`, `client.cpp` | `peers`, `testModePublicKeys` | `readBroadcastDatagram`, `readyForUse`, `removeConnection` | `Peers` |
| not modelled | merkle tree, key files, what is only displayed, vendored code | | | see the end |

**What is hard.**  Two threads in `handleBlock` at once, with a lock per
statement; a process killed between two statements of `applyFork`; answers
that never come, or come from a chain that has changed; a chain that changes
between the check of a fork and its use; a mempool that two threads search and
append to under separate locks; a balance that is read in two parts;
loops that erase what they stand on; two processes on one sealed file; a
trusted clock whose source changes; a byte stream cut anywhere; two
connections to one address; a thread that is stopped and started again.
`PROJECT.json` lists these hazards, each at its line, with the properties
that watch it or the reason why none does.

## The modules

### The node: ChainTables, HandleBlock, NodeThreads

`ChainTables` holds what needs no state: tables as functions from index to
block, luck of a segment, `isLuckierChain`, `verifyBlock`, the loops of
`checkTempChain` and `checkDatabase`.  A block is a record of hash (a number;
the order of the numbers is the string order that breaks ties), index,
previous hash, lucky number, transactions, and two flags: `content` (everything
`verifyBlock` computes from the block and its ancestors: merkle root, hash,
times, signatures, sums) and `cert` (the signature of the enclave).

`HandleBlock` is `Blockchain::handleBlock` with one action per stretch of code
that other threads see as a whole: a statement, or a loop that keeps `dbMutex`.
Since each statement commits, the variables `main`, `rows`, `forkTab`, `live`,
`forks` are also what a crash leaves.  `pc[t]` is where thread t is:

    create -> rowid -> add -> verify -> luck -> mempool -> apply
           -> (replace -> clear -> save)* -> drop -> returned

`NodeThreads` adds the callers: the Qt thread (`ReceiveBlock`,
`ReceiveResponse`, `HandleResult`, `CheckRequested`), the miner's loop
(`MinerRound`, `MinerCheck`, `MinerLucky`, `MinerRetry`, `MinerDone`), lost
requests and `CrashRestart`.  Peers answer a request with any block of the
requested index, never, or with a `Block()` that nobody has set: that is what
`sendBlockResponseWithBlock` sends, under the asker's fork id, for a row the
peer does not have (`client.cpp:556`, `database.cpp:694`).  Its previous hash
and its list of transactions are empty and its index is what the memory held
(`Unset`, chosen freely).  `proofCertificate` lets it pass (`blockchain.cpp:274`), so it is
stored in the fork, at an index of its own, and the next request is for the
index below that one.  A fork with such a row never verifies.

`LuckyChain` is the abstract specification: a chain that takes over a valid
luckier segment in one step or loses its end; a process that finds an empty
table begins with genesis (`StartAnew`).  `NodeProperties` shows, with
`Committed` (the table as it will be when the writing threads are done) for
`chain`, that one thread's statements implement it.

Merged or left out, and why this hides nothing the properties see:
`CompareLuck`, `MinerLucky` (`isLuckierBlock`, and the queries at the start of
`handleBlock`) and `Begin` read several queries in one step, and
`BuildNewBlock` of `Mempool` reads the base block where it takes the mempool's
mutex (what changes between them also can change just before); the transaction row and its
INPUT rows are stored in one step; SQL statements do not fail; without a block
in BLOCKCHAIN the miner does not run (the index of the block it would build is
not initialised).  Values that are not initialised (the time of the `Block()`
that stands for a missing row; the row id another thread's INSERT left) are
chosen freely.  The merkle tree of no transactions, which `verifyBlock` builds
of a `Block()` or of a row that a crash left without its own, is undefined
(`merkletree.cpp:14`): the row fails, and the process may also die there, which
is a crash as at any other place.

### Nodes together: Network

Each node of `Network` has a chain, fork tables and a miner, and a channel to
each other node, in order, as TCP keeps it.  `handleBlock` is one step here:
`refine` shows that one thread's statements amount to that, and
`handleReceivedBlock` and the miner are not interleaved within a node.
`HandleReceivedBlock` stores or asks back (`Response`), `SendBlockResponse`
answers from the chain as it is by then, with the fork id it was asked for,
`Mine` finds a block and puts it into the outbox which `SendBlock` empties into
the channels of the peers of that moment.  A missing row is answered with a
`Block()`, one of `Unset`, as in `NodeThreads`.
`Disconnect` loses what is in flight; `Restart` also empties the outbox.

`apart` is history: something has happened after which nothing in the code
brings two chains together again, until somebody mines.  A check has deleted
rows; a luckier but shorter fork has left a chain that does not link; the
miner's retry has adopted a fork, which is not sent; two nodes with different
chains have met after both had asked for one; a two nodes with different
chains have met after both had asked for one; a connection or a process was
lost.  Only `Converges` is promised for the other behaviours alone; the other
properties hold after faults too.  `lost` is history of one fork table: its
request or the answer was on a connection that went (`Underway`), or the miner
left it without a request.  Nothing in the code asks again or deletes the
table, and `NoForkLeft` says that no other table is left.

With three nodes agreement is not promised: a newcomer may ask the one peer
that the newest block has not reached yet, and nobody relays.

### The mempool: Mempool

The sequence of payments, with `newTransaction` in its two halves (`Look`,
`Push`), `mempoolUpdate` entry by entry, and the loop of `putTxInBlock`, which
keeps `mempoolMutex` while the Qt thread may write the chain.  A block is its
payments and its coinbase; `handleBlock` is in three parts: what it verifies,
the mempool, `applyFork`.  Payers can always pay, so that only the order of
steps decides.  `mempoolUpdate` puts coinbase transactions back as well
(`blockchain.cpp:664`); `putTxInBlock` throws them out.

### The test mode: TestMode

`startTest` with the coins it thinks it has, while `mempoolUpdate` and
`applyFork` move what it paid from the mempool to the chain and back, the chain
grows and shrinks, and the user pays; and the flags, the join, the signal and
the check box that start and stop it.  The two reads of a round are two
actions, in the order in which GCC evaluates the operands.  What is spent and
received are numbers, not rows.

### The money: Ledger, AccountBook

`Ledger` computes what `putTxInBlock` makes of the mempool (a fold of
`Consider` over it, with change, used outputs and the loop's skipped entries)
and what `verifyBlock` asks of the result, on one chain.  `Taken` says which
outputs the inner loop takes by what the ones before them are worth.  `AccountBook` is the
promise: payments are settled once, with money the payer had.  Signatures are
valid, values positive; rows come in the order they were stored.

### The enclave: Enclave

`Enclave` follows `ecall_get_proof` of several processes in one directory:
load the sealed file, or create counter and keys, increment, seal, draw, wait,
load again, compare the counter, sign.  Each read or write of something shared
is an action; a process may fail or die at each.  `ocall_save_public_key` is
three of them: `CreateKeys` opens and so empties `publicKey.txt`, `PublishKey`
writes it, `AppendKey` opens `keys.txt` and appends, or fails.  So a published
key need not be in `keys.txt`; `TypeOK` says that the key in the sealed file,
and one that has signed a proof, is.  `since`, `rivals` and
`callers` are history: how long ago the lucky number was drawn, which proofs
were given while this call held its ticket, and which processes have called.  Luck is a number of `0 .. Scale`; the wait is
its complement, scaled, as in the code.

### The network: Connection, Peers

`Connection` models both ends of one TCP connection.  A message is cut into
pieces where the code could see the difference (inside the type token, inside
the length, inside the payload) and the network delivers any number of pieces
at a time; `processReadyRead` takes one step per call it makes.  A run of one
end's `processReadyRead` is not interleaved with the other end's: they share
nothing but the streams.  Of one end's pings at most one is on its way.

`Peers` takes a connection's inside as one step per end and models who
connects to whom, which connections the tables hold, and the keys of the test
mode that come and go with them.

### The miner's thread: MinerThread

The flags, the join, the button and the signals that wait for the event loop.
Nothing is abstracted but the loop's body.

## The runs

States are distinct states.

| run | specification | bounds | what it shows |
|---|---|---|---|
| `net` | `Spec`, crashes, checks | 8 blocks, 3 indexes, an unset block for each, 2 fork tables, Qt thread (248k states) | no gap, no abort, requests fit their forks, 0 means stored (above index 1), links are lost only to a shorter fork or a crash, luck of the chain peers accept never falls, no transaction is lost on the way |
| `refine` | `FairSpec`, checks | 8 blocks, an unset one, 2 fork tables (60k) | the statements implement `LuckyChain`; a valid luckier block gets in |
| `pair` | `FairSpec` | 5 blocks, one without a proof, and an unset one, Qt thread and miner, 2 fork tables (420k) | `checkDatabase` repairs what two threads leave, every call ends |
| `network` | `FairSpec` | 2 nodes, 4 blocks, 2 unset ones, 1 lost connection or restart (107k) | each chain changes as `LuckyChain` says, every exchange ends, no fork table waits in vain but one whose own answer was lost, the nodes agree in the end |
| `accused` | `Spec` | 2 nodes, 5 blocks of two rival miners, no faults | violation expected: an honest node is told to check its database, and the check deletes its chain |
| `mempool` | `FairSpec` | 2 payments, 3 blocks, one payment per block of a peer (450k) | no payment is listed twice, paid twice or lost, but for named meetings of the threads; each gets its turn |
| `ledger` | `Spec` | 2 keys, 3 payments of 1..3, 3 mined blocks (225k) | unspent outputs are worth the balance; the account book is implemented; the mempool drops only what cannot be covered; single payments fit |
| `test_mode` | `Spec` | 2 coins, 1 payment of the user, 1 console command (465k) | the test mode pays what it has |
| `enclave` | `FairSpec` | 2 processes, 2 calls, 3 lucky numbers, 1 change of the clock (190k) | of overlapping calls with one counter at most one gets a proof; the wait is long enough; what signs is in `keys.txt`; one process's published key signs; calls return |
| `connection` | `FairSpec` | 1 block request, pings; messages reach one end in parts (177k) | framing under every cut, greeting first, the transfer timer runs only in a transfer; what is sent is handled or the connection ends; a vanished host is noticed |
| `peers` | `PeersFairSpec` | 2 nodes, 2 connections, 2 faults, 1 switch (90k) | no table holds a deleted connection; the nodes end up in each other's tables |
| `miner_thread` | `MinerThreadFairSpec` | 4 commands (205) | one miner, short joins, a button that comes back |

Three indexes are enough for a fork that starts at, inside and above the
chain's end, is longer, as long and shorter than what it displaces, ties
included; a second fork table allows an abandoned one beside one in
use.  The unset blocks have each index of the tables in `net`, and the highest
one, which leaves the widest gap, in `refine` and `pair`; in `network` one
reads as 0 as well.  An index below 1 is taken as 1 is, and one above the
tables would only make the asker's next request one for a row that no peer has.  The blocks in `NodeMC` share transactions across forks, and one each
fails `content` and `cert`.  In `NetworkMC` the block C2 ties with A2 and A3
together, and takes their place as a shorter fork or theirs as a longer one;
with one block more `network` passes too (518k states), and without faults on
the blocks of `accused` (119k).  Two payments and three blocks allow a block of
each thread and one below them, forks of one and two blocks, and a displaced
payment that comes back while the miner takes it.  `pair` has room for one fork table per thread; with three, where a shared
table can hold both threads' blocks, TLC needs more than five minutes
(`StoredIsVerified`).  Three payments of `ledger`
allow change of change, two senders in a block and a late copy.  Two processes,
two nodes, two connections, one clock change are the least at which the
interferences looked for exist.  Both ends of a connection run the same reader,
so it is enough that one of them gets its messages in parts (`Cut`); with both,
the safety properties hold as well, on 808k states.  A third call adds nothing new to the invariants
of `enclave` (3.7M states).

Deadlock is checked in `net`.  The other configurations switch it off where
the system rightly stops: bounds of fork tables, calls, payments, blocks, losses and
commands are used up, a closed connection does nothing, an aborted process
(`pair`) stays so, nodes that agree have nothing to send, and an idle program
waits for its user.

**Fairness.**  A thread inside `handleBlock` goes on (it waits only for mutexes
held for one action); a called enclave goes on and time passes, but failures,
crashes and clock changes need not happen; data in flight arrive, Qt runs its
slots, ping and broadcast timers fire again; peers in reach are found; a stopped
miner finishes its round and the event loop handles queued
signals; a running miner builds one block after the other.  Nobody has to send,
click, pay, call, be lucky or lose anything.

### What the code does not keep

Each row is a property, in the last section of its module, that restates a
comment of the code, and that TLC finds violated with the constants of the run
named.  The first is a run of its own that expects the violation (`accused`);
for the others, put the property into a copy of the configuration.

| property | constants | comment | what happens |
|---|---|---|---|
| `HonestChainKept` | `accused` | "invalid Block received, the sending peer should check his database" | the sender of valid blocks is told so, because it answered from a chain that had changed (`client.cpp:269`), and the check deletes the chain, since the genesis block is compared with an uninitialised time (`blockchain.cpp:150`) |
| `NodesAnswer` | `network` | "@return block at index" | a row that is gone is answered with an unset `Block()` (`database.cpp:694`); it may make the asker ask for ever |
| `ForkReplacesChain` | `refine` | the fork "replaces the main chain" (`blockchain.cpp:656`) | rows above a shorter fork stay (`database.cpp:292`) |
| `BuiltBlockBalances` | `ledger` | "valid transactions to be put in a block" (`blockchain.cpp:434`) | `add_Input` overwrites the outputs added before (`transactions.cpp:90`) |
| `NoConcurrentProofs` | `enclave` | the counter is there "to prevent concurrency" (`Enclave.cpp:31`) | two first calls each create a counter, load the file written last and sign with one key (`Enclave.cpp:104`) |
| `ForkIsNew` | `pair` | "a table for a new fork" | two threads read the same row id (`database.cpp:160`) |
| `StoredIsVerified` | `pair`, `MaxForks` 3 | "checks if every block is valid" (`blockchain.cpp:283`) | the miner's block without a proof gets into the fork table that the Qt thread has verified and is about to apply (`database.cpp:160`, `blockchain.cpp:224`) |
| `AppliedForkIsLuckier` | `pair` | the fork is luckier than the main chain | the other thread changes the chain after the comparison (`blockchain.cpp:310`) |
| `ValidChainSurvivesCheck` | `net` | "true if it is valid" | as in `accused`, on one node |
| `ZeroMeansStored` | `net` | "0 if successful" | a block of index 1 waits in a fork table and 0 is returned (`blockchain.cpp:363`); or a second answer to a request that a `Block()` made the node repeat is not stored beside the first |
| `ForkBalanceIsBalance` | `ledger` | "the Balance of the input key" | UNION keeps one of two equal payments (`database.cpp:884`) |
| `KeysOnlyWhenNoFile` | `enclave` | new keys "if and only if the file ... does not exist" | an empty file, left by a crash, does too (`App.cpp:229`) |
| `NoMessageAborts` | `connection` | "handles incoming network messages" | a segment that ends in a type token aborts the connection (`connection.cpp:325`) |
| `ReadyIsInTable` | `peers` | "connection to be removed" | all connections to the address go (`client.cpp:484`) |
| `GoneKeyRemoved` | `peers` | "remove public key for this address" | the key may stay (`client.cpp:607`) |

The passing properties are stated so that they say what does hold beside
these: `SuccessMeansStored` leaves out index 1, `CheckRepairs` speaks of checks
that come to their end, `LinkLostOnlyToShorterFork`
names the shorter fork, `OneProofPerCounter` the shared counter,
`PublishedKeySigns` holds while one process calls, and so on.  The properties
of `Mempool` and `TestMode` name the meetings of the threads, and each exception
is needed: TLC has a counterexample without it.

- `ListedOnce`, `crossed`: both threads look for a payment before either
  appends it; the miner then puts it twice into one block (`PaidOnce`).
- `PaidOnce`, `torn`: a fork is written that was verified against another
  chain, or it leaves the rows of a longer one above it, with a payment it has
  itself.
- `NothingLost`, `raced`: between `mempoolUpdate` and `applyFork` of the Qt
  thread, `putTxInBlock` finds a payment that was put back still stored, and
  erases it; or both threads write the chain.
- `PaysWhatItHas`, `looked`: a payment is in neither place while `startTest`
  looks, or the user's payment or a lost income comes after its last look.

## The proofs

All hold for every value of the constants, under the named assumptions of the
modules (hashes tell blocks apart, every block that somebody made has a predecessor's
hash, an index of the tables and transactions, genesis has index 1, bounds are
natural numbers).

| module | theorems | inductive invariant |
|---|---|---|
| `NodeProofs` | `TypeCorrect`, `CheckRepairsAlways` | `TypeInv`, `KeyedInv` |
| | `NoGapsOneThread`, `NoAbortOneThread`, `RequestsFitOneThread`, `SuccessMeansStoredOneThread`, `TxsKeptOneThread`, `LinkLostOneThread`, `LinkedLuckOneThread`, `ImplementsLuckyChainOneThread` | `GapInv`, `HandleInv` |
| `NetworkProofs` | `NoForkLeftAlways`, `NodesImplementLuckyChain` | `NetInv` |
| `MempoolProofs` | `NothingLostAlways`; `ListedOnceAlways`, `PaidOnceAlways` | `LostInv`; `PaidInv` |
| `EnclaveProofs` | `TypeCorrect`, `WaitedForLuckAlways`, `OneProofPerCounterAlways`, `PublishedKeySignsAlways` | `TypeInv`, `WaitInv`, `TicketInv`, `CallerInv` |
| `LedgerProofs` | `UnspentIsBalanceAlways`, `ImplementsAccountBookAlways`, `CoveredPaymentKeptAlways`, `SinglePaymentsFitAlways` | `LedgerInv`, and `Books` of the loop |
| `ConnectionProofs` | `FramingAlways`, `GreetingIsFirstAlways`, `TransferTimedAlways`; `NoDeletedConnectionAlways` (`Peers`) | `ConnInv`, `Timed`; `PeersInv` |
| `WindowProofs` | `OneMinerAlways`, `JoinIsShortAlways`; `PaysWhatItHasAlways` (`TestMode`) | `MinerInv`; `TestInv` |

`TableProofs` has the lemmas about the operators of `ChainTables` that the
first two share: overlays, first and last index, what `VerifyFork` and `BadRows`
leave, that a fork as long as what it displaces keeps a linked chain linked,
and luck as a sum.
TLC checked each invariant below, on the constants of a run, before it was
proved.

**`NodeProofs`, any set of threads.**  `TypeOK` is not inductive: a result is in
range because the block in hand is a block, a fork id because of where the call
is, a round's count because of where the miner is.  `TypeInv` says so.
`CheckRepairsAlways` follows from what `BadRows` checks, once every row of
BLOCKCHAIN sits at its own block's index (`KeyedInv`): a cut at the least bad
index leaves rows whose links, transactions and absence of duplicates were all
verified.

**`NodeProofs`, one thread.**  `ASSUME OneThread` (a node that does not mine) is
needed: with `pair`'s constants TLC finds a gap, when the miner's check empties
the chain under the other thread, and two threads that share a fork table break
the rest.  `HandleInv` puts the whole of `handleBlock` into one invariant:

- `GapInv`: no gap; fork rows sit at their blocks' indexes; a verified fork,
  and later what is left to write of it, fits on the table as it is now.
- `ForkTables`, `ForkAtHand`: tables are numbered as they are made, and a call
  between `addToFork` and `deleteFork` works on one that exists and holds a row
  at its block's index; hence `NoAbort` and `RequestsFitForks`, whatever unset
  blocks came as answers.
- A verified fork has no unset row (`VerifiedMade`), and so none is ever written
  to the chain (`MadeOnly`, `Passed`); an unset row is what breaks a fork's
  sequence of indexes, and `UnbrokenStep` says that nothing else does.
- `RetryFits`: the miner's block comes right above the predecessor it keeps.
- `Written`: of the fork, what is not left to write is in the chain with its
  transactions, and so is the call's block at the end (`SuccessMeansStored`).
- `Chosen`: a verified and luckier fork still is when `applyFork` reads it, as
  nobody else writes; the refinement's `Adopt` rests on it.
- `Displaced`: what the fork displaces is in the mempool or in the fork, which
  makes `TxsKept` hold for each statement of the replacement.

`ImplementsLuckyChainOneThread` maps `ApplyFork` to `Adopt`, `CheckDatabase` to
`Cut`, a start without rows to `StartAnew`, and every other step to a stutter.
It assumes `~ Crashes` as well: a crash in the middle of `applyFork` leaves what
no step of `LuckyChain` makes.

`LinkedLuckOneThread`: when a fork is taken over, what it displaces of the linked
part is worth no more than the fork (`Chosen`), and if the linked part reached
up to the fork, all of the fork gets linked, as each row was verified against
the one below it (`ForkLinkedTo`).  The lemmas about luck as a sum (`LuckUnion`,
`LuckSplit`) are proved like those of `LedgerProofs`, by a function on the
subsets of a set of blocks.

**`NetworkProofs`**, any number of nodes, lost connections and restarts.
`NetInv`: types (`TypeInv`); the rows of a fork table have different indexes,
none of them 0 (`ForksOK`); each table that does not reach down to index 1 has
its request or the answer on a channel, or is one of the lost (`Waiting`).  The
step that receives a request or an answer sends the answer or the next request,
or drops the table; the step that empties a channel counts as lost what was on
it (`WaitingLost`).
For `NodesImplementLuckyChain` each of the steps that write a chain is shown to
be a step of `LuckyChain` for its node; nothing is assumed of faults, as
`handleBlock` is one step here.

**`MempoolProofs`**, any payments, copies and blocks.  `CallInv` says what a
thread holds at each place of `newTransaction` and `mempoolUpdate`.

- `LostInv` adds `Restored`: each payment that a thread's fork displaces is back
  in the mempool, in the thread's hand or list, or in a fork, until the other
  thread changes the ground (`raced`).
- `PaidInv` adds `Listed` (the mempool has an entry twice, or a thread is about
  to add one that is there, only if the threads crossed), `Taken`
  (`putTxInBlock` has taken only entries below its cursor), `BlocksWhole` (no
  block has a payment twice, the miner's and its retry's included), `ChainApart`
  (no two blocks of the chain share one) and `ForksFit` (a verified fork fits
  until the other thread writes the chain).

What the lists contain is `FlattenSeq` of the blocks' payments, a recursive
function; `Flattened` and `TxsOfBlocks` say what is in it and what is in it
twice, by the least length at which they would fail (`LeastNatural`).

**`EnclaveProofs`**, any number of processes, calls, crashes and clock changes.
`TypeInv` needs that keys are numbered as they are drawn, what each place of
a call has read, and that a call comes to seal its key only past `AppendKey`.  `WaitInv`: a call on its first time source has slept no longer
than its number is old.  `TicketInv`: a key belongs to one counter, two calls
with one counter have read different values of it, and once a call has got its
proof the counter has passed the values of the others, whose second read will
tell.  `CallerInv`: with one
process, new keys are made only without a sealed file, and are the published ones
until they are saved.

**`LedgerProofs`**, any keys, values, payments, late copies and blocks.  A sum
is a fold over a finite set and the loop of `putTxInBlock` a fold over a
sequence; each gets a function on the subsets of its set (`SumsOn`, `Rounds`),
and what is proved of the function goes by the size of the subset
(`InductiveSet`).  From this come the usual facts about sums: of two sets
apart, of an image, of a smaller set.

- `LedgerInv`: hashes tell rows apart, and what is spent is a row (`Named`);
  a payment is in the mempool once (`Queued`); `UnspentIsBalance` itself.
- `Books` is the invariant of the loop.  What it has selected comes from the
  mempool and is not stored (`Drawn`); what it has used is unspent
  (`Spends`); for every set of keys, the used outputs are worth the selected
  rows and the change (`Balanced`); a payer with one row has listed all that was
  used for it (`Listed`).  `KeptPool` says that an entry below the cursor is
  stored, kept or not covered, which is `CoveredPaymentKept`.
- `verifyBlock` compares the sums of all payers at once.  Inputs are a part of
  what was used, and values are positive, so when the sums agree every used
  output is spent: this closes the hole that `add_Input` leaves in
  `BuiltBlockBalances`, and with `Balanced` for a single key it gives
  `UnspentIsBalance` after the block, and that a payer's payments are
  together covered by its old balance, which is what `AccountBook` asks.

**`ConnectionProofs`**, any number of messages, any cut of the stream, timers,
closes and losses.  Of the pieces of a stream: they are those of whole messages
one after the other (`Whole`), sent and not yet handled (`FromSent`), in order
(`InOrder`), with none missing while the connection is open (`AllThere`).
`Place` ties the reader's state to the piece at its front: before a type token,
inside a payload, or done.  `Writer` says that the greeting is what an end sends
first.  `FramingAlways` and `GreetingIsFirstAlways` follow, whichever end greets
first.  `Timed` adds the transfer timer: off while a payload is handled, and
nothing handled before the greeting, which alone may leave it running
(`TransferTimedAlways`).  `PeersInv` is `NoDeletedConnection` with the types of the tables.

**`WindowProofs`**, any number of commands, funds and bounds.  `OneMiner` becomes
inductive with `FlagIsTrue` (`threadStopped` exactly while no thread is in the
loop or about to say that it left) and `JoinAfterStop`.  `Covered` extends
`PaysWhatItHas` to every place of `startTest`, with the mempool still to be
subtracted between the two looks; `Over` (a thread that said it stopped is out of
its loop) keeps a new thread from starting there.

Each invariant, action property and refinement of the passing runs is the
statement of a theorem.  The theorems `...OneThread` say nothing of two
threads, where their invariant fails (see above); what `pair` checks with two,
`CheckRepairs`, is proved for any number of them.  Liveness under fairness (`Returns`, `LuckierBlockIsAdopted`,
`Quiesces`, `Converges`, `Considered`, `ButtonComesBack`,
`Delivered`, `GoneIsNoticed`, `Meshed`) is only model-checked: these provers do
neither that nor ENABLED.

## Not modelled

- SQL statements that fail; most callers ignore the result.
- The rowid that joins a transaction to its INPUT rows (same race as
  `ForkIsNew`).
- `addProof` of `libapp.so`: no source; taken to do what `App.cpp` does.  A call
  that fails is a block without a proof in `MinerLucky`.
- The merkle tree (`merkletree.cpp`), a pure function of a block's
  transactions.  The models take two roots to be equal exactly when the
  transactions are.  That is so for the at most three transactions of the runs'
  blocks; a trace of the loops shows that for 5, 9, 10, 11 or 13 leaves the last ones
  do not enter the root.
- Key files and signatures (libsodium).  A crash in `createKeypair` leaves an
  empty file that the next start takes for a key; `signMsg` takes the time
  again after its caller did (`client.cpp:129`), so that on a change of the
  second the signature does not verify; two equal payments in one second have
  one hash.
- What is only displayed; the end of the process ("quit" closes the database
  while the miner may still run).
- TEST_NETWORK_PARTICIPANTS_REQUEST: its sender is commented out.
- SQLite, sodiumpp, base64, SHA-1, bandit, build output, test databases.

Known and without a finding, for want of a sentence that says otherwise: the
console's "stop mine" without a miner disables the button for ever, "stop
Test" the check box; fork tables of lost answers are never cleaned up; a host that vanishes before its
greeting is never noticed.

## Plan

Done: the node core, its refinement and first proofs; money; enclave;
connection; peers; the miner's thread; the nodes together (`Network`, with
`refine`'s abstract specification for each node); the mempool; the test mode;
proofs of every safety property of the runs.

1. Proofs about two threads of one node: what of `HandleInv` survives when the
   miner and the Qt thread share the tables.
2. `KeyFiles` (`createKeypair` and crashes) and `MerkleTree` as a function,
   checked against a definition.
3. INPUT rows and row ids in `HandleBlock`; failed statements; the end of the
   process.
