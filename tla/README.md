# Beancash: TLA+ models, checks and proofs

Beancash is a proof-of-work and proof-of-stake ("proof-of-bean", "sprouting")
coin descended from Bitcoin and Peercoin. The node is a multi-threaded C++
program (`src/src/`), with LevelDB for the chain, Berkeley DB for the wallet and
an optional Qt front end. This directory models its core in TLA+, checks the
models with TLC on small instances and proves the most important properties with
TLAPS for every value of the constants.

`PROJECT.json` says which definition stands for which lines of the source, which
run checks which property, which mutation of the model each property is shown to
catch, and where in the code the hazards are that the properties are about.

All line numbers below and in `PROJECT.json` refer to the files in the
repository's own `src/` directory.

## 1. Inventory

`cs_main` guards the chain, the pool, the orphans and the wallets' view of them.
The message thread and the RPC threads take it for a whole call, so between two
steps of a call nothing else happens to that state, except that the process may
die. Other locks: `cs_vNodes` and the locks of each `CNode`, `CAddrMan::cs`,
`cs_wallet`, `cs_KeyStore`, and the locks of `CDBEnv`.

| Component | State | Operations | Hard behaviour | What makes it correct | Module |
|---|---|---|---|---|---|
| Chain database, `CTxDB` (`txdb-leveldb.*`) | the LevelDB handle shared by all objects, a batch per object | Read, Write, Erase, Exists, TxnBegin, TxnCommit, TxnAbort, opening with version check | reads inside a transaction, several objects, a commit that is refused, a lookup that fails, death of the process | a transactional store: own writes visible, others' not, all or nothing | `TxDB`, `AtomicStore` |
| Block chain, checkpoints (`main.cpp`, `checkpoints.*`) | `mapBlockIndex`, `pnext`, `pindexBest`, orphan blocks, proofs seen, sync-checkpoint and pending checkpoint; block files and database records | ProcessBlock, AcceptBlock, AddToBlockIndex, SetBestChain, Reorganize, LoadBlockIndex, AcceptPendingSyncCheckpoint, ResetSyncCheckpoint | crash between two commits, failing storage, orphans in any order, postponed reconnects, upgrade to a release with other rules | disk describes one connected chain at every instant, memory follows it, the best chain is valid and most trusted | `BlockTree`, `BlockChain` |
| Transaction index (`main.cpp`) | `CTxIndex` records: position and spent outputs | ConnectBlock, DisconnectBlock, FetchInputs, ConnectInputs, DisconnectInputs | undoing exactly what was done, transactions that spend each other within a block | index equals what the best chain implies, nothing is spent twice | `TxIndex` |
| Memory pool, orphan transactions (`main.cpp`) | `mapTx`, `mapNextTx`, `mapOrphanTransactions`, `mapOrphanTransactionsByPrev` | accept, remove, removeConflicts, the `tx` message, sendrawtransaction, what a reorganisation puts back | raw pointers between maps, recursion, loops over maps that change, limits | the maps agree, the loops end, the pool connects | `MemPool` |
| Block template (`miner.cpp`, CreateNewBlock) | the block being put together | choosing transactions by dependency | reads the tip before the lock | a block built on the current tip connects | `MemPool` |
| Address manager and `peers.dat` (`addrman.*`, `net.cpp`) | three indexes, new and tried buckets, counters | Add, Good, GetAddr, Attempt, Connected, Select, serialization | eviction between tables, reference counts, ids that change over a restart | the indexes, buckets and counters agree; nothing is forgotten | `AddrMan` |
| Wallet transactions (`wallet.*`, `init.cpp`) | `mapWallet` with spent flags and `hashBlock`, the best block of `wallet.dat` | AddToWallet, WalletUpdateSpent, DisableTransaction, CommitTransaction, AvailableBeans, ScanForWalletTransactions, ReacceptWalletTransactions, FixSpentBeans | chain changes under the wallet, blocks and branches given up after the wallet heard of them, death between two writes, an old `wallet.dat`, a copy of the wallet that spends too | what the chain spent is marked, nothing is missing, nothing is marked for ever in vain | `WalletTx` |
| Wallet keys (`keystore.*`, `crypter.*`, `wallet.cpp`, `rpcwallet.cpp`) | plain and encrypted keys, master keys, key pool, unlock time | EncryptWallet, Lock, Unlock, ChangeWalletPassphrase, TopUp, Reserve, Keep, Return, the unlock timers | crash half way, timer threads against calls, ignored write failures, pool drained while locked | no key is lost or handed out twice, all keys open with one passphrase, an unlocked wallet is locked in the end | `WalletKeys`, `WalletLock` |
| Wallet database (`db.*`, `walletdb.*`) | file use counts, update counter | flush thread, rewrite, backup | flush against use | no file is closed in use | planned |
| Peers (`net.*`) | `vNodes`, `vNodesDisconnected`, reference counts, outbound slots, received and unsent messages | accept, ConnectNode, the socket and message threads' loops, disconnection and deletion | three kinds of threads, a count that one of them changes without the lock, TRY_LOCK, full buffers | no node is freed in use or kept for ever, no slot is lost, messages are handled once and in order | `Peers` |
| Block download (`main.cpp`, `net.h`) | `mapAskFor`, `mapAlreadyAskedFor`, inventory known and to be sent, `hashContinue`, last getblocks | getblocks, inv, getdata, block, AskFor, PushGetBlocks | retries, limited maps that forget, filters of repetitions at both ends, a peer that does not answer | every block arrives in the end | `Sync` |
| Message handlers (`main.cpp`) | handshake state, known inventory | version, verack, inv, getdata, getblocks, addr, ping, alert | order of messages, repeated messages | handshake first, sync resumes after orphans | tx and block: `MemPool`, `BlockChain`; download: `Sync`; queue: `Peers`; rest planned |
| Sprouting (`miner.cpp`, `wallet.cpp`, `kernel.cpp`, `main.cpp`) | the template, the last search time | ThreadStakeMiner, CreateNewBlock, SignBlock, CreateBeanStake, CheckStakeKernelHash, GetWeight, CheckStake | search over a tip, a pool and a wallet that move, a spent mark that is taken off too early, a clock that goes back | a block that is not stale is valid, every second is tried once, weights are not negative | `Sprout` |
| Stake modifier, difficulty (`kernel.cpp`, `main.cpp`) | modifiers in the block index | ComputeNextStakeModifier, GetNextTargetRequired | 64-bit products, selection order | targets stay in range | planned |
| Script (`script.*`) | two stacks, condition stack | EvalScript, VerifyScript, Solver | limits, nested conditions, multisig matching | agrees with a reference definition | planned |
| Alerts, time, containers (`alert.*`, `util.*`, `mruset.h`, `limitedmap.h`) | active alerts, time samples | process, cancel, median filter | bounds | bounded, median correct | limitedmap and mruset as part of `Sync`; rest planned |
| Start and shutdown (`init.cpp`, `sync.*`) | flags, thread list | AppInit2, Shutdown | order of stopping threads and closing files | no use after close | planned |
| RPC (`rpc*.cpp`) | none of its own except the unlock time | calls | threads | | sendrawtransaction: `MemPool`; unlocking, encryption, keys: `WalletLock`, `WalletKeys` |
| Addresses, keys, hashes, serialization, chain parameters, Qt, LevelDB, json_spirit | | | | | not modelled: stateless library code, data, presentation or vendored. The `.ts` files under `src/qt/locale` are Qt Linguist catalogues, translated strings in XML, and hold no code |

How they interact: the message thread takes a message off a peer's buffer and
calls ProcessMessage under `cs_main`, which calls ProcessBlock or the pool.
ProcessBlock appends to the block file, commits to `CTxDB` and, when a new best
chain is in place, changes the pool and tells the wallets (SyncWithWallets). The
stake thread builds a block from the pool and feeds it back into ProcessBlock.
The connection thread asks the address manager where to connect and tells it
what it learns. `MemPool` composes the index with the pool and the template;
`WalletTx`, `Sprout` and `Sync` each contain as much of the chain, the pool and
the other node as their component sees of them.

## 2. Modules

Every variable keeps the name it has in the code where it stands for one
variable there. Definitions whose comment begins with "Mutant" model a
plausible mistake; they are used by no specification.

**`AtomicStore`** is what the rest of the code takes for granted about the chain
database: handles, each with at most one transaction, whose pending writes the
handle reads and nobody else does, and a commit that applies all or nothing.

**`TxDB`** is `CTxDB`. A batch is the sequence of its puts and deletes;
`ScanBatch` finds the last one for a key. Actions: the first opening with its
version check and wipe, later handles with their modes, the destructor, the
three transaction calls, Read, Exists and the four writing calls, LevelDB
refusing a write or failing a lookup, and the death of the process. LevelDB is
external: a map with atomic batches. The two lookups fail differently: Read then
finds nothing, as if the key were missing, and Exists says yes, since it asks for
`IsNotFound()` only; `found` is what each of them said of a key. A version record that cannot
be read counts as an old one. `ImplementsStore` is the refinement: each batch is mapped to
what it would leave of each key.

**`BlockTree`** holds what the other chain modules share: a tree of blocks with
heights and trusts, given as constants. Its assumptions say only that it is a
tree: parents are lower and trust grows along a chain.

**`BlockChain`** is the chain of one node. An action ends where something
becomes durable (a block file append, a `TxnCommit`), and all that a call does
between two such points is one action; `Crash` may come between any two. `pc`
says where the call is:

| `pc` | the call has just |
|---|---|
| `off`, `failed` | not started; exited from a start that failed |
| `gen_best`, `gen_sync`, `pubkey` | committed the genesis index record, its SetBestChain, the sync-checkpoint |
| `reset`, `resetsync` | is about to reset the checkpoint for a new key; made its block the best one |
| `idle` | returned: nobody is inside `cs_main` |
| `index` | appended a block to the file (AcceptBlock) |
| `setbest` | committed its index record, and has more trust than the best block |
| `secondary` | committed a reorganisation, postponed reconnects remain |
| `checkpoint`, `writesync` | finished AddToBlockIndex; switched to the pending checkpoint |
| `orphans` | finished AcceptBlock, works through the orphans |

What a block's transactions decide is a constant here: `Valid` blocks connect
when their parent chain is connected. `ContextOk` blocks pass AcceptBlock's
checks; `Obsolete` ones are refused by a later release, which `Upgrade` installs
while the node is off. `StorageFails` says whether LevelDB and the block files
may refuse a read or a write at any point. The code mostly goes on after that, and
three histories say with what: `refused` are blocks whose index record LevelDB did
not take (AddToBlockIndex returns, and the block is in `mapBlockIndex` only); `ahead`
says that `pindexBest` is a block whose postponed reconnect failed after the
reorganisation itself was committed, so that memory is ahead of the database (number 2 of
section 6); `derailed` that something has since been committed on top of such a block.
The properties say what holds with `refused` blocks and while `ahead`; after
`derailed` the database is that of no chain, and most of them end there.

**`TxIndex`** looks inside the blocks: what connecting and disconnecting does to
`CTxIndex` records and what ConnectBlock tells the wallets on its way. It has no
variables. Everything the bytes of a transaction decide once and for all
(signatures, amounts, fees) is the constant `Sound`; what depends on the index
(inputs there, not spent, mature) is computed.

**`MemPool`** composes it with the pool, the orphan transactions, the best chain,
the wallet's `hashBlock` and CreateNewBlock. Steps are the iterations of the
loops, since `cs_main` keeps everything else out; the one read outside the lock,
`pindexBest` in CreateNewBlock, is an action of its own (`ReadBest`). Storage is
reliable in this module.

**`AddrMan`** is `CAddrMan`. Each operation holds `cs` throughout and is one
action; the serialization is `Reload`, which writes the map, stops and reads it
back. Which entry is evicted depends on times and random numbers in the code;
here any may be.

**`WalletLock`** is about how long an encrypted wallet stays unlocked. The calls
(walletpassphrase, walletlock, walletpassphrasechange) run under `cs_main` and
`cs_wallet`; a `ThreadCleanWalletPassphrase` takes only `cs_nWalletUnlockTime`,
gives it up while it sleeps, and may run between any two steps of
walletpassphrasechange, which is therefore four actions. `thread` says where each
timer is: `new` (created), `enter` (it knows its wake time), `asleep`. Times are
kept as what is left until then, so that `Tick` needs no clock that grows.

**`WalletKeys`** is the key store, the key pool and EncryptWallet, with what is in
memory on one side and the records of `wallet.dat` on the other. As in
`BlockChain` an action ends where a record changes and `Crash` may come between
any two; `Lock` may come as well, since it takes only `cs_KeyStore`. A call that
needs a key goes through `topup` and `write` (one key made, one record written),
`reserve`, `hold` and, for the default key, `default`; EncryptWallet commits and
goes through `flush`, `fill` and `fillwrite`, and `rewrite`. Berkeley DB is
external: records that are written one by one or in a transaction, and that it
may refuse to read or write. Where the code does not look at the result,
`slipped` records that it went on.

**`Peers`** is the life of a `CNode`. The socket thread, the message thread and the
openers (OpenNetworkConnection) each have a record that says where they are and
which nodes they hold. A step is what happens under one lock: the socket thread's
pass over `vNodes` with `cs_vNodes` held, which disconnects and deletes, is one
action, its work on one node another; the message thread holds `cs_vRecvMsg` of a
node over several steps, and the others meet that through TRY_LOCK. An opener
runs without `cs_vNodes` between ConnectNode and `fNetworkNode = true`, and
`nRefCount` is a plain int: where it meets an existing connection through
FindNode, the count is read in one step (`LoadRef`) and written in another
(`StoreRef`). `shared` records such a node and `kept` one that left `vNodes`
before its opener was done; the properties name these two as their exceptions. A
deleted node's memory is not used again.

**`Sync`** is the download of one chain, with both ends in the model: what the
serving node knows its peer to have (`setInventoryKnown`, an `mruset`), has yet to
announce and has noted as the end of a batch (`hashContinue`), and what the
downloading node has asked for (`mapAskFor` per peer, `mapAlreadyAskedFor`, a
`limitedmap`, for all) and where its last getblocks began. Connections deliver in
order and lose nothing, as TCP does; a peer of `Silent` leaves getdata
unanswered. `mapAlreadyAskedFor` has a block once, as a `limitedmap` does: inserting it
again changes nothing, and at its limit the map drops what is due first; `forgotten`
records what it has dropped so. The unit of time is a retry's two minutes. OnBlock includes
ProcessBlock's orphans: the getblocks they send and their acceptance when the
parent comes.

**`Sprout`** is the sprouting thread, one action for each point at which it reads
something that others change: the tip for the template, the pool, the tip and the
wallet for the search, the tip again before each second, the time limits, and at
last `cs_main` in CheckStake. `kernels`, chosen for each search, is the second at
which the bean's hash meets the target, or empty. What spends the bean is in three places that the
code reads at different moments: the wallet's mark (`spent`), which alone decides
whether the search takes the bean; the pool (`inPool`), from which the template takes;
and the best chain (`onChain`). `Unmark` takes the mark off as WalletUpdateSpent does
when it is told again of the bean's own block, as repairwallet does, and as a reorganisation that is
given up; `cleared` records that something spent the bean at the time. A block may
disconnect the bean's last sprout, which `setStakeSeen` (`seen`) does not forget.
CheckBlock's limit on times in the future is `Drift`.

**`WalletTx`** is `mapWallet`. A handler is the sequence of its writes to
`wallet.dat` (`Added`, `Connected`, `Disconnected`, `Committed`, `Reorganised`), so that the process
can die after any of them. The wallet is told of a block while ConnectBlock and
DisconnectBlock run, before the database commits, and is not told when that is given
up: `AbortConnect` and `AbortReorganize` leave it with what it heard up to any block of
either branch, and the process goes on with the chain it had. A block is known by the
chain it ends, and a `hashBlock` outside the best chain counts as none.
ReacceptWalletTransactions and AcceptWalletTransaction go through the map in the order
of hashes, which may be any. `Made` are the transactions of this wallet; others that
spend its beans come from a copy of it.

`stale` is a history of what the wallet has from blocks that the chain did not get, or
from an old copy: beans whose mark was taken off (`unmarked`) or put on (`marked`) in
vain, transactions given another block (`moved`). The properties except just these
transactions. A bean leaves `unmarked` when the wallet is told again of its spender, at a start
and by repairwallet (`FixSpentBeans`); `marked` when it is told again of the bean's
block and by repairwallet; `moved` when it is told again of the block; all three by a
rescan. A regular end of the program (`Shutdown`) writes the best block.

**`MCTxDB`, `MCBlockChain`, `MCMemPool`, `MCAddrMan`, `MCWalletLock`,
`MCWalletKeys`, `MCPeers`, `MCSync`, `MCSprout`, `MCWalletTx`** give the constants
for TLC.

**`TxDB_proofs`, `BlockChain_proofs`, `MemPool_proofs` (for `TxIndex` too),
`AddrMan_proofs`, `WalletKeys_proofs` (for `WalletLock` too), `WalletTx_proofs`,
`Peers_proofs`, `Sprout_proofs`** hold the theorems.

## 3. Runs

| Run | Checks | Instance and why it is enough |
|---|---|---|
| `txdb` | `ReadsAgree`, `ImplementsStore` | two handles, the version key and two more, batches of two: a key put and deleted in one batch, seen by the other handle before and after, refused commits, failed lookups, crashes with both handles open, old version wiped |
| `blockchain` | the invariants of section 4 and `TrustGrows` | two branches above genesis, the lead goes back and forth between them, one block that does not connect, a checkpoint on the shorter branch, a pair of blocks with one proof, an upgrade that outlaws the tip, storage that may fail anywhere, also at a block's index record and at a postponed reconnect with blocks coming after it, and crashes between all commits |
| `mempool` | the invariants of section 4 and `LoopsEnd` | a mature output with a double spend of it, chains of pool transactions, an orphan with two parents, at most two orphans, branches that share a transaction, one with a beanstake, and one that fails at its second block |
| `addrman` | the invariants of section 4, `ReloadKeeps`, `NeverForgotten` | buckets of size one, so that every insertion meets a full one; a host with two ports, two sources that lead to different buckets, five ids |
| `walletlock` | the invariants of section 4, `NotCutShort`, `LockedInTheEnd` | three timers, so that one can sleep, one be on its way and one be created; timeouts of nothing, one unit and two, so that a later call asks for less, the same and more |
| `walletkeys` | the invariants of section 4 | a pool of one key that is topped up to two, five keys: enough for a default key, an address, an encryption and an address after it; two passphrases, alike; two attempts at encryption in one process, so that a master key that was not stored can stand before the right one; one refusal by `wallet.dat`, at any point |
| `peers` | `RefsCounted`, `DeletedUnused`, `SlotsKept`, `DeletedInTheEnd` | two connections to one address, one accepted and one opened, and an opener that may make the second or meet the first; one slot; both break at any time |
| `messages` | `HandledInOrder`, `Answered` | one connection, three messages, a send buffer of two, so that it is full while messages wait; handlers that wipe the buffer they work on |
| `sync` | `RetriesSpaced`, `Downloaded` | a peer that serves and one that only announces, five blocks in batches of two with one found on the way, an orphan on the way, a map of three requests, which overflows, so that a block is asked for afresh while an old request for it waits |
| `sprout` | `SproutValid`, `WeightNotNegative`, `EachSecondOnce` | four seconds, a window of two, a block from outside and one of its own, a clock that goes back, a bean of every age around the minimum, sent at any step or spent by a block from outside, its mark taken off with its spender in the pool or in the chain, its sprout disconnected |
| `wallettx` | `SpentIsMarked`, `NothingMissing`, `NotLost` | a receipt, a transaction made of it, one of its change made by a copy of the wallet, a sprout of the same bean; chains of three blocks, reorganisations of one, blocks and branches given up at every block, deaths at every write, one old copy put back at any time (with `MaxHeight` 4, a million states, TLC finds no more) |
| `wallettx_commit` | `MustNotFail` | two transactions of one change; TLC shows how the code comes to contradict its comment (section 6) |

Bounds: `MaxBatch` (writes in one batch), `MaxOrphans` (the code's
`MAX_ORPHAN_TRANSACTIONS`, 2 here), `MaxId` (`nIdCount`, which the code never
bounds; a `Reload` renumbers the entries, so the bound does not end the run),
`MaxTimeout` (the longest `<timeout>`) and the number of timers in `WalletLock`,
`MaxKey` (keys ever made; a call that wants one more goes no further),
`MaxMaster` (attempts at encryption in one process) and `MaxRefusals` (refused
reads and writes of `wallet.dat`) in `WalletKeys`, `MaxMsg` (messages a peer sends)
and the number of nodes in `Peers`, `MaxAsked` and
`MaxKnown` (the sizes of `mapAlreadyAskedFor` and `setInventoryKnown`), `MaxWait` (how
far a request can be put off), `MaxTime` and `MaxTip` in `Sprout`, with `Limits`
(what a new tip may make of the earliest time) and `Beans` (the times the bean may have), `MaxHeight` and `MaxFork` in `WalletTx`, where
in addition one copy of `wallet.dat` is made. Everything else is finite
because the blocks, transactions and addresses are. There is no state constraint.
The one symmetry is that of the passphrases in `walletkeys`, which checks
invariants only. Deadlock is checked in every run. The largest run, `sprout`, has 7.6
million states; with two workers none takes two minutes but `peers` and `sync`.

Fairness. `MemPool`: the thread that is inside `cs_main` goes on with its loop
(weak fairness of the loops' steps), since the loops call nothing that waits for
anyone else. Nothing is assumed about messages arriving. `WalletLock`: a timer
thread that can go on does, a walletpassphrasechange that has begun goes on, and
the clock goes on; the lock the timers share is never held over a wait. Nobody
has to make a call. `Peers`: the socket thread and the message thread are loops
that wait for no peer. TRY_LOCK misses only while the other thread is in its few
lines at the same node, so that it does not miss for ever (strong fairness of
`LockRecv`); and a peer that takes nothing of what is queued for it is given up
after `TIMEOUT_INTERVAL` (strong fairness of `SentOrGivenUp`). Nothing is assumed of
openers, which wait for connect(), and of connections coming in. `Sync`: both
nodes' handlers and SendMessages loops go on, time passes, and the last block is
found. The other modules assume no fairness.

## 4. Properties

`TxDB`
* `ImplementsStore`: the refinement above.
* `ReadsAgree`: besides the types, what a put in the handle's own batch says both
  `Exists` and `Read` say (`BatchAnswers`), and a key that `Read` finds exists
  (`FoundExists`). The converse fails in two cases, and `ExistsUnread` says that there is no
  third: the handle's own batch deletes the key, where `Exists` looks past the batch, or LevelDB
  fails a lookup. Nothing in the repository calls `Exists` in the first situation.

`BlockChain` (until `derailed`, except `IndexClosed`, `RestartSucceeds` and `TrustGrows`)
* `DiskConsistent`: at every instant at which the process may die, the best
  block on disk is indexed and stored with all its ancestors, `hashNext` links
  just its chain, and just its transactions are indexed.
* `MemoryMatchesDisk`: between two calls `pnext` and `hashNext` link one chain, that of
  `hashBestChain`; `pindexBest` is its end or, while `ahead`, a block above it; and
  `mapBlockIndex` holds the blocks of the database, besides at most those whose record
  LevelDB refused.
* `BestChainIsValid`: no block that ConnectBlock rejects is ever under the tip, but for
  `pindexBest` while `ahead`, and none is under the best block on disk even then.
* `BestIsMostTrusted`: between calls no valid indexed block has more trust than
  the best one, unless a crash, a storage failure, a checkpoint or an upgrade
  made SetBestChain pass it over, or it was compared with the trust of a best block that
  memory was ahead with.
* `IndexClosed`: the walks along `pprev` end at genesis; and the one ancestor that a record
  in the database may lack is a block whose own record was refused, since the next block on
  top of it is stored all the same.
* `SyncCheckpointHolds`: the assertion in `CheckSync`, and that the checkpoint
  stays on the best chain.
* `RestartSucceeds`: a node that got through its first start can always start
  again. The first start itself commits the genesis record, the best chain and
  the checkpoint one after the other; a crash in between leaves a database that
  LoadBlockIndex refuses until it is deleted, which the property excludes. So does a
  database with a descendant of a block whose own record was refused (section 6).
* `TrustGrows`: a new block becomes the best one only with more trust.

`MemPool`
* `InStep`: after any connects and disconnects the index is what the best chain
  implies and no output is spent twice on it (`IndexMatchesChain`, `SpendsOnce`),
  no pool transaction is in the chain (`PoolApartFromChain`), and the wallet knows
  the block of each of its transactions, unless a reorganisation was given up half
  way (`WalletInStep`).
* `PoolLinked`: `mapNextTx` has the inputs of the pool and no dangling pointer.
* `OrphansFiled`: the two orphan maps agree and stay within the limit.
* `TemplateConnects`: what CreateNewBlock picks connects on the tip it read,
  as long as that is the tip, even with stale transactions in the pool.
* `PoolConnectsAtFirst`: what the comment quoted in section 6 says, with the
  condition under which it is true.
* `LoopsEnd`: the loops over the orphans and of Reorganize end.

`AddrMan`
* `Consistent`: what `Check_` checks in builds with `DEBUG_ADDRMAN`, after every
  operation: the indexes agree (`Indexed`), every entry is in the buckets it should
  be in (`Filed`), the counters count (`Counted`), no bucket is over its size
  (`Bounded`). `Filed` implies the assertion in `MakeTried`; with `Counted` it keeps
  the random search of `Select_` from running over an empty table for ever.
* `ReloadKeeps`, `NeverForgotten`: a restart changes nothing, and an address once
  reached is never dropped.

`WalletLock`
* `UnlockedIsTimed`, `LockedInTheEnd`: an unlocked wallet has a timer, and is
  locked in the end, with the one exception that section 6 shows (`relit`).
* `NotCutShort`: no timer locks the wallet before the time is over that the last
  walletpassphrase asked for, once its own thread runs. Before that an older
  timer may.

`WalletKeys` (all but `NothingLost` until `slipped`)
* `NothingLost`: a key that was given, that is in the pool or that is the default
  key is in `wallet.dat`, whenever the process dies.
* `StartOpens`: `wallet.dat` holds plain keys or encrypted ones, and a start finds
  all of the latter opened by one passphrase, the last that was set, also after
  encryptions that failed (`NeverBoth`, `KeysOpen`).
* `PoolSound`: pool keys are handed out once, over restarts, and the pool's indices
  lead to known keys (`GivenOnce`, `PoolReadable`); after an encryption that came
  through, no key that was on disk in the clear is handed out, unless the process
  died while the old pool was being erased: the rest of the old pool is used then
  (`FreshAfterEncryption`).

`Peers`
* `RefsCounted`: the count of a node is the references that are out, so that the
  assertion in GetRefCount holds and nothing is deleted too early or never.
* `DeletedUnused`: a node is deleted when no thread will look at it again, the
  opener that made it included. This rests on an order of three assignments and not
  on the count: the opener holds no reference, and a node without `fNetworkNode`
  keeps its first one when it is disconnected. So it is never deleted: the exception
  of `DeletedInTheEnd`.
* `SlotsKept`: outbound slots are neither lost nor given back twice while grants
  move from opener to node and nodes are disconnected.
* `HandledInOrder`, `Answered`: a peer's messages are handled each once, in order,
  and in the end, or the connection is given up. The exception is a peer that reads
  too slowly: the send buffer may be full whenever the message thread looks.

`Sync`
* `Downloaded`: every block arrives in the end, though a peer never answers, requests
  are put off and forgotten, and both ends suppress what they take for repetitions;
  where proof-of-work blocks are never more than a batch behind (section 6).
* `RetriesSpaced`: "Each retry is 2 minutes after the last" (net.h:424). No two requests for a
  block that is still wanted are put off to the same time, over all peers, and none to a later
  one than the map remembers; until the map, at its limit, drops the block and AskFor begins
  again.

`Sprout`
* `SproutValid`: a block that CheckStake does not find stale is accepted, though it was
  put together from five readings of the tip, and whenever the wallet spends the bean;
  except for `young`, the case of section 6. What else may go wrong has its cause in
  the property: the bean is spent twice only if its mark was taken off while something
  spent it (`cleared`), the proof is a duplicate only if besides that or a sprout of the bean
  was disconnected (`replaced`), and the time is in the future only if the clock went back
  while the block was made (`wentBack`).
* `EachSecondOnce`: between two blocks no second is hashed twice, and a search that
  fails on the tip it began with has left out none that the window reaches.
* `WeightNotNegative`: the weight is never negative, though the bean's age is checked
  against the end of the search only.

`WalletTx`
* `SpentIsMarked`: a bean that the chain has spent is marked, unless a block or a
  reorganisation that was given up has taken the mark off (`stale.unmarked`).
* `NothingMissing`: the wallet has every transaction that concerns it, with its block,
  unless one that was given up, or an old copy, has left it with another (`stale.moved`).
* `NotLost`: a bean is marked as spent only for a transaction that the wallet has and
  that is not a sprout the chain gave up, unless a block that the chain did not get, or
  an old copy, has marked it (`stale.marked`).

Which of these exceptions the code lets in follows from the actions: AbortConnect,
AbortReorganize, a death in the middle of a block and Restore add to `stale`, and
nothing else does.

## 5. Proofs

All from the assumptions of the modules. `BlockTree`'s say that blocks form a
tree. Two of `TxIndex`'s say what the code's own checks establish before anything here
runs: `InputsAssumption`, only a beanbase has no inputs (CheckTransaction), and
`UniqueAssumption`, no block has a transaction twice and no chain a beanbase twice
(CheckBlock; AcceptBlock wants the height in it). The others give constants
their types. Every theorem is for all values of
the constants that satisfy them: any tree of blocks, any number of threads, nodes,
keys, messages and seconds, any limits. Each inductive invariant below was checked
with TLC on the instance of its run before it was proved. The proof that it is kept
has one lemma for each of its parts, or for each group of actions, and in it one
step per action.

**`TxDB_proofs`**. `TypeCorrect`, `ReadsAlwaysAgree` (`Spec => []ReadsAgree`: there is no third
case, whatever calls came before on any handle and whichever lookups LevelDB fails), and
`RefinesStore`: `Spec => ImplementsStore` for any keys, values and handles. The lemma that carries it is `ScanAppend`:
appending an operation to a batch changes what `ScanBatch` finds for its key and
for no other. The invariant besides types: a handle that is not in a transaction
has an empty batch, and a handle is open only while the database is.

**`BlockChain_proofs`**, for any tree of blocks. None of the properties is
inductive: that the database describes one chain after a commit depends on what
memory held before it, and half way through a switch of chains on the postponed
reconnects being just the rest of the way. The invariant is

    IInv == TypeOK /\ Structure /\ (~derailed => Coherent)

`Structure` always holds. Its parts: `Closed` (memory is closed under parents and
stored in the block file, the records of the database lack no parent but a `refused`
one), `Mirrored` (memory holds the blocks of the database and besides only `refused` ones, or
is empty while the node is down), `Rooted` (what a first start has committed so far),
`Working` (what the block in progress satisfies), `RestartSucceeds`. `Coherent` says that the
database is one valid chain, that memory is in step with it except during `secondary`, or
above it while `ahead`, and that in `secondary` `vpindexSecondary` is the difference between
the target's chain and the committed one. There is one lemma per part and, in each, one step per
action. The relinking of `pnext` and `hashNext` by Reorganize is shown to give
exactly the links of the new chain (`RelinkedIsLinks`, `RelinkedOnDiskIsLinks`),
by comparing heights along the two branches. From `IInv`: `TypeCorrect`,
`DiskStaysConsistent`, `MemoryStaysInStep`, `BestChainStaysValid`,
`IndexStaysClosed`, `RestartAlwaysSucceeds` and the action property
`TrustAlwaysGrows`.

`BestStaysMostTrusted` and `SyncCheckpointAlwaysHolds` speak of moments between two
calls, and need to know what the database promises half way through one:

    LeadInv == IInv /\ (~derailed => Topped /\ Anchored)

`Topped`: no indexed block on disk has more trust than the best one there, but for
those passed over and the one the node is switching to. The step that needs care is a
reorganisation in two parts, whose intermediate block must already have more trust
than the old best block (`IntermediateIsBetter`). `Anchored`: every chain that
SetBestChain is asked for runs through the sync-checkpoint on disk, or the
release outlaws that one. CheckSync is where this comes from (`CheckedIsAnchored`),
and the fork block of a reorganisation is at or above the checkpoint because both
chains run through it (`ReorganizeKeepsAnchor`).

**`MemPool_proofs`**. `PoolStaysLinked`: `PoolLinked` is inductive, since a
transaction is only added when nobody in the pool spends its inputs, also when a
reorganisation puts it back. `OrphansStayFiled`: through `OrphanInv`, which adds
that the orphans are a finite set, so that their number can be counted through
an insertion and an eviction, and that the loop's `todo` is empty outside the
loop; the limit holds since the eviction of one orphan makes up for the one that came.

`StaysInStep`, `TemplateAlwaysConnects` and `PoolConnectsUntilReorganized` rest on one
invariant:

    StepInv == /\ TypeOK /\ Rooted /\ InChain
               /\ PoolApartFromChain /\ Lingers /\ PoolConnectsAtFirst
               /\ Collects

`InChain` says of the index what can be carried through a block that is half connected:
the records are those of the transactions so far, and a slot is filled exactly
by the one transaction so far that spends it (`InForce`), while the wallet has the block of
each of its transactions (`Followed`). `Lingers` is what holds in the middle of a reorganisation:
what the pool, or what is still to be put back into it, shares with the new
chain is in `vDelete`. `Collects`: what CreateNewBlock has picked connects in that order and
leads to its `mapTestPool`, if the tip is still the one it read.

The code's loops are folds in `TxIndex`. The first lemmas turn each of them into a run of
steps: for every input there is a function h on 0..n with h[0] the start, h[n] the
result and h[i] the loop's body on h[i - 1] (`FoldExists`, `FoldSteps`, one lemma
`...Steps` for each loop). What each step keeps then holds at the end, by `UpTo`, an
induction stated with a set of numbers. So ConnectInputs adds one transaction to an index in
force and DisconnectInputs takes away the last one (`ConnectOne`, `DisconnectOne`), ConnectBlock
and DisconnectBlock do so for a block (`ConnectBlockKeeps`, `DisconnectBlockKeeps`; the
latter never fails on an index in force, `DisconnectBlockOk`), and Reorganize leads from the
old best chain to the fork and from there to the new one (`ReorganizedKeeps`).

**`AddrMan_proofs`**. `ConsistentAlways`, `ReloadLosesNothing`, `TriedNeverForgotten`, for
any addresses, bucket functions, sizes and limits. The one assumption the proof adds to
the types of the constants is that there are finitely many new buckets (the code has 256).
`Consistent` is nearly inductive; the invariant `AInv` is its parts as statements
about values, so that a lemma can speak of the index half way through an operation, with

    ByHost: mapAddr leads from a host to an entry of that very host

added: without it Delete could take away the host of another entry. Each of the code's
helpers has a lemma on such values: `CreateKeeps`, `SwapRandomKeeps`, `DeleteKeeps` and
`UnrefKeeps` for the three indexes, `ReferenceKeeps`, `UnreferenceKeeps` and `PromoteKeeps` for
the tables. ShrinkNew within Add_ is an `Unref` and an entry into the bucket it left;
MakeTried's "there is certainly place there" is that the bucket the address came from
has lost it (step <2>14 of `GoodKeeps`). The loop of GetAddr_ is a recursive function, for which
`LoopExists` gives the states after each turn.

For a restart, `WrittenIs` shows that the file has every entry once, the new ones first, so
that the place in the file is a renumbering of the entries; `NoneLost` that no tried
bucket overflows when it is filled again (those read before an entry were in its
bucket, and so was the entry); `IntoIs` that no entry is in more new buckets than the reader
accepts; and `Renamed` that a renumbered state is filed as the old one. That a finite set of ids can be put
in order at all (`AscendingExists`) is an induction on its size, stated with a set of numbers.

**`WalletKeys_proofs`, the timers** (`WalletLock`). `UnlockedStaysTimed`, `NeverCutShort`. That an unlocked wallet
has a timer is not inductive: a walletpassphrasechange that is under way locks it
and will unlock it, so `LeftIsTimed` speaks of the wallet as the change will
leave it, and `SetIsAsleep` says that a time that is set has a thread asleep for it,
whichever thread set it. For the second theorem the time that is owed is followed
from the call to its thread (`OwedIsCarried`) and into `nWalletUnlockTime` (`OwedIsSet`).

**`WalletKeys_proofs`, the keys**. `NothingIsLost`, `StartAlwaysOpens`, `PoolStaysSound`, through
one invariant of twelve parts. Four say what a key goes through on its way into
the pool and out of it (`Numbered`: every key and every place in the pool is among the
first `nKeys`; `Making`; `Held`; `Relied`: who relies on a key finds it stored), three
that memory and `wallet.dat` are in the same mode and share a master key that opens
everything (`InMemory`, `OneMode`, `OneMaster`), the others are what the properties say,
for states in the middle of a call. As a key's number grows and a place in the pool is the
number of a key, the loop of TopUp never meets a place that is in use.

**`Peers_proofs`**. `RefsStayCounted`, `DeletedStayUnused`, `SlotsStayKept` and the
action property `MessagesHandledInOrder`. `Copies`: the two threads' work lists are
parts of their copies of `vNodes`. `Counted`: the count of a node is one while it is in
`vNodes` or its opener set `fNetworkNode` too late, and one for each copy it is in.
`Openers` is what makes deletion safe although the opener holds no reference: until
the opener has set `fNetworkNode` its node has either never been disconnected or keeps
its first reference for ever. `Slots` counts the grants with
`FiniteSetTheorems`: no action changes the sum of those free, with openers and
with nodes. `Ordered`: the messages received and not yet handled, with the one being
handled, are numbered from `handled` to `got` without a gap.

**`Sprout_proofs`**. `SproutsAreValid`, `WeightStaysNotNegative` and the action property
`SecondsHashedOnce`. The invariant follows what each of the readings of
`pindexBest` established and what is left of it if the tip is still the same
(`Templated`, `Searching`, `InTime`, `Ready`): if the template's
block is the best one at CheckStake it was so at every reading in between, since a tip does not come back.
`Hashed` says of a search under way that it has hashed all seconds from the one in hand
to its end. For the bean, `Marked` says that what spends it has marked it, unless it is
`cleared`; `Unmarked`, that if the template or the chain spends a bean that the search took, it
was; `SeenWhy`, where a second in `setStakeSeen` comes from; and `Clocked`,
that nothing a block is made of is ahead of the clock until that goes back.

**`WalletTx_proofs`**. `SpentStaysMarked`, `NothingGoesMissing` and `NoBeanIsLost`, for any
transactions, keys and copies, chains of any length and reorganisations of any depth. The
three properties speak of a program that runs. The invariant has to say what is left of
them in `wallet.dat` while it does not, and in a copy that may be put back:

    WInv == /\ TypeOK /\ Linked(chain) /\ Stored(wallet) /\ Kept
            /\ up => Has(wallet, chain) /\ Marked(wallet, chain, stale.unmarked)
            /\ Knows(wallet, chain, stale.moved)
            /\ Reason(wallet, chain, stale.marked)

The last argument is the set of transactions that are excepted.
`Linked`: the chain has no transaction twice, none before its inputs, no output spent
twice. `Has`, `Knows`, `Marked` and `Reason` say of each block that the wallet has its
transaction, has it filed under that block, has what it spends marked, and has its
output marked only for a transaction that it has. `Stored`: a `wallet.dat` has what
concerns it up to its own best block, which is what makes the rescan at the start
sufficient. `Kept` says the same of the copy. Writes are followed one at a time
(`ToldFacts`, `HeardFacts`), a scan block by block (`ScanTo`, `ScanMore`), a
reorganisation by what its disconnected sprouts give back (`Undone`) before the new
branch is scanned, and ReacceptWalletTransactions turn by turn (`Remarked`).
That the scan of one block keeps `Marked` for the earlier ones, although it clears the
mark of the block's own output, is where `Linked` is needed: who spends that
output comes later in the chain and marks it again.

Two assumptions are the proof's: there are finitely many transactions
(`FiniteAssumption`: they are known by a hash of 256 bits), and the receipt that the
wallet begins with spends none of its beans. The proof found one state that the run's
instance is too small for: a copy of `wallet.dat` whose best block is older
than the chain (taken after a death within a reorganisation and the rescan at the next
start), put back when a second reorganisation has led back to that block's branch.
The start then scans from the old best block, so that transactions up to there keep the
blocks of the other branch until the next rescan. With `MaxHeight` 5 and `MaxFork` 3 TLC
shows it. `Backup` therefore stores with the copy the transactions whose block it may have
wrong once it is put back.

What is given up needs no invariant of its own: `Follows` says of a wallet that was told of
the blocks after the p-th of a chain what holds with respect to that chain, whatever
it was told before, and `InVain` what is left of the old chain's `Marked`, `Knows` and
`Reason` if the wallet was told of anything at all, up to what `ToldInVain` adds to `stale`.
`AbortStep` is the second one for the aborted actions, and a death before the commit is the same.

Only model-checked:
* `LoopsEnd`, `LockedInTheEnd`, `DeletedInTheEnd`, `Answered`, `Downloaded`: liveness
  is beyond the prover.
* `RetriesSpaced` of `Sync`: its queues are filtered and sorted in place (SelectSeq,
  InsertAt), which needs an induction over what those operators compute.

## 6. Where comments and code disagree

The first one is a run of the project. For the others a configuration states what
the comment says, and `tlc -config <cfg> <module>` finds the behaviour that contradicts
it.

| What | Configuration | Module |
|---|---|---|
| 1 | `MCWalletTxCommit.cfg` (run `wallettx_commit`) | `MCWalletTx` |
| 2 | `MCBlockChainPostponed.cfg` | `MCBlockChain` |
| 3 | `MCBlockChainOrphans.cfg` | `MCBlockChain` |
| 4 | `MCMemPoolConnects.cfg` | `MCMemPool` |
| 5 | `MCMemPoolHears.cfg` | `MCMemPool` |
| 6 | `MCMemPoolFollows.cfg` | `MCMemPool` |
| 7 | `MCWalletLockStored.cfg` | `MCWalletLock` |
| 8 | `MCPeersDone.cfg` | `MCPeers` |
| 9 | `MCSyncBatches.cfg` | `MCSync` |

1. `CommitTransaction` (wallet.cpp:2056), "This must not fail. The transaction has
   already been signed and recorded." The wallet sends b and, of its change, c. A
   block brings b, and WalletUpdateSpent (wallet.cpp:380) marks all outputs of b
   that are the wallet's as unspent, though c spends one. The next transaction of
   that bean is signed and recorded, and the pool refuses it. Neither a failure nor
   a reorganisation is needed.
2. `SetBestChain` (main.cpp:1950), "errors now are not fatal, we still did a
   reorganisation to a new chain in a valid way". When a postponed reconnect
   fails, memory still takes the last block as the best one, although it is
   neither connected nor the best one on disk.
3. `ProcessBlock` (main.cpp:2410), orphans are held "until we get" the previous
   block. If that block is indexed but does not become best because it fails,
   its orphans stay for ever.
4. `CreateNewBlock` (miner.cpp:203), all pool transactions "should connect". A
   block leaves conflicting transactions in the pool; after a reorganisation
   that stops its own from coming back, and their descendants in the pool have
   no inputs.
5. `SyncWithWallets` (main.cpp:148), "make sure all wallets know": the loop over
   the orphans passes the transaction of the message, not the orphan.
6. The same, "in the given block": wallets are told during ConnectBlock, before
   the commit; an aborted reorganisation leaves them with blocks that are not on
   the best chain.
7. `walletpassphrase` (rpcwallet.cpp:1463), it "stores the wallet decryption key
   in memory for <timeout> seconds". ChangeWalletPassphrase (wallet.cpp:152)
   remembers whether the wallet was locked, and locks and unlocks it on its way.
   If it was unlocked and the timer fires meanwhile, the change unlocks the
   wallet again after the timer has gone: it stays unlocked until somebody locks
   it.
8. `ThreadSocketHandler` (net.cpp:698) deletes a node: "wait until threads are done
   using it". ConnectNode takes a pointer from FindNode, which has given `cs_vNodes`
   back, and calls AddRef after that (net.cpp:349): the node may be deleted in
   between.
9. `getblocks` (main.cpp:3203), "when this block is requested, we'll send an inv
   that'll make them getblocks the next batch". What is announced then is the last
   proof-of-work block (main.cpp:3137); since proof-of-work ended at
   `LAST_POW_BLOCK` that is one the other node has long had. The download stops until a new
   block comes, and then goes on by way of orphans.

Seen while modelling, without a configuration: SignBlock (main.cpp:2498) has "to make
sure that we have no future timestamps" and erases later transactions, but raises
the block's time to the latest of them first, so that it erases none; a block whose
kernel is older than one of its transactions is then refused by CheckBlock (the
outcome `young` of `Sprout`); two blocks with one proof-of-bean can both
be indexed, if one waited among the orphans; the lookups in
`mapOrphanTransactionsByPrev` with `[]` leave an empty entry for each accepted
transaction; `SelectTried` returns the position an entry had before it swapped
it away; the key that CreateNewBlock pays to goes back to the pool when its
CReserveKey ends, and the reserved key that CheckWork "removes from the key pool"
(miner.cpp:469) is another object that holds none, so the next address may be the
key of a block that was found; a walletpassphrasechange with a wrong old
passphrase locks the wallet and leaves its time set; `CSyncCheckpoint::CheckSignature` returns an error in all cases, so
checkpoints sent by peers are never accepted and the model has none.

And where storage fails, or something is given up half way: `Exists` says yes
on any error of LevelDB but NotFound (txdb-leveldb.h:160), and a start that cannot read the
version record deletes the transaction index and the block files; a block whose index record
is refused (main.cpp:2128) stays in memory, so that the next block on top of it is stored
without its parent, and the next start makes a stub of the parent with height 0, whose
checksum is not the one that `mapStakeModifierCheckpoints` has for that height: on the main
network the start fails (kernel.cpp:384). A reorganisation or a block that is given up
after ConnectBlock or DisconnectBlock ran leaves the wallet's marks and `hashBlock` as of the
branch that lost: a bean that the chain's sprout has spent may be offered again, and one
that is free may stay marked (`stale` of `WalletTx`). A bean whose mark was taken off
while its spender waits in the pool is taken by the next search, and the block
spends it twice; and since SignBlock leaves `nLastBeanStakeSearchTime` alone when it finds a kernel, a
later search may find the same second again after its sprout was refused or disconnected, a
duplicate proof. Such blocks are refused, at the cost of the search.

## 7. What is left out of the modelled parts

* ProcessBlock's filter on blocks with too little work only refuses blocks, as
  if they had not been sent. There is one hardened checkpoint.
* A crash is the death of the process. In what order the file system and LevelDB
  persist data over a power loss is outside the code.
* In `MemPool` storage does not fail, so postponed reconnects do not happen and
  the database is what ConnectBlock leaves in it. The rate limiter for free
  transactions in accept() is never reached: a transaction below the relay fee
  is refused before it. Fees and priorities decide CreateNewBlock's order,
  and any order that respects dependencies is allowed.
* In `AddrMan`, times, chances and the random order are abstracted. A
  `peers.dat` older than the map reads back as some earlier state.

* `WalletLock` has no lock button of the graphical wallet, which leaves the time
  set as ChangeRefused does. `fWalletUnlockStakingOnly` is read only by later
  calls, to refuse them.
* `WalletKeys` has no imported keys, redeem scripts or key metadata, and
  keypoolrefill only with the usual size. What Berkeley DB leaves in the slack
  space of the file, which Rewrite is for, is not a record: a process that dies
  before it, or a refused Rewrite, leaves plain keys there. ThreadTopUpKeyPool
  behaves as keypoolrefill, except that its exceptions end the process.
* `Peers` has no bytes of messages, checksums, bans and scores (a connection may be
  refused or given up at any time), the limit on received bytes (net.cpp:773, beyond which
  a node's socket is not read), DNS seeds, UPnP and end of the threads. The
  socket thread's pass that disconnects and deletes is one step, which the locks of a
  node that it tries on the way can only delay.
* `Sync` has one chain: which blocks are valid and which branch is best is
  `BlockChain`'s. Transactions share the queues and are left out.
* `Sprout` has one bean for the wallet's beans, at most one transaction of it in the pool and one
  second that meets the target in each search; its splitting and combining, the
  reward and the signature may succeed or fail. Limits of 64-bit arithmetic in the
  product of target and weight are not modelled: CBigNum has no width.
* `WalletTx` has transactions with one output, no amounts and fees, and any available
  bean may be spent. The best block is written to `wallet.dat` with every block; during
  the initial download, when the code leaves it out, a restart scans more blocks.
  A postponed reconnect that is refused after the commit is `BlockChain`'s.
  Write failures of `wallet.dat` are not modelled. EraseFromWallet is never reached:
  accept() returns before its replacement code, the only caller.

## 8. Plan

1. Done: `AtomicStore`, `TxDB`; `BlockTree`, `BlockChain`; `TxIndex`, `MemPool`;
   `AddrMan`; `WalletLock`, `WalletKeys`; `Peers`; `Sync`; `Sprout`; `WalletTx`; and
   the proofs of section 5.
2. A proof of `RetriesSpaced`, with the sequence operators written as functions on the
   places of the sequence.
3. The wallet file: use counts, flush thread, Rewrite and backup (`db.cpp`), with
   what `WalletKeys` takes for granted as its abstract specification.
4. The version handshake, addr relay and ping; alerts; the stake modifier's selection
   and the retarget arithmetic against reference definitions; the script machine
   against a reference semantics.
