# Omnicatena in TLA+

Omnicatena is a custodial wallet service over several chains, written in Go. It
creates wallets from one seed each, transfers coins on Bitcoin, EVM chains,
Solana and TRON, and watches EVM chains for transactions of its own addresses,
which it stores in Postgres and publishes to Kafka. This directory models the
parts of it in which order, failure and concurrency decide what happens, checks
them with TLC on small instances and proves the most important results with
TLAPS for every instance.

Contents: [the system](#the-system), [the modules](#the-modules),
[the runs](#the-runs), [bounds](#bounds), [fairness](#fairness),
[the proofs](#the-proofs), [where code and documents differ](#where-code-and-documents-differ),
[what is outside the models](#what-is-outside-the-models), [plan](#plan).

## The system

Two executables share the packages under `internal/`: `cmd/api`, an HTTP server
with the monitoring goroutines, and `cmd/cli`, one command per process. Both
call the application services in `internal/app`, which use ports
(`internal/port`) that adapters (`internal/adapter`) implement.

| Component | Code | State | Operations |
|---|---|---|---|
| Monitoring pipeline | `adapter/chain/evm/watcher.go`, `app/monitor_service.go`, `cmd/api/monitoring.go`, `adapter/repository/{cursor,transaction}_postgres.go` | per chain two goroutines and an unbuffered channel; tables `chain_cursors`, `transactions`, `tx_addresses` | start, poll the node, fetch a block, hand an event over, store it, publish it, save the height, stop |
| Wallet service and stores | `app/wallet_service.go`, `adapter/repository/postgres.go`, `adapter/keystore/postgres.go` | tables `wallets`, `keystore`, `accounts` | Create: three writes; Get, List, Balance, Unlock read in one to three queries |
| Key derivation | `hdwallet/hdwallet.go` | none | paths, BIP-32 and SLIP-0010 |
| Chain registry | `adapter/chain/registry.go` | the adapters by chain | filled at start-up, then read |
| Kafka publisher | `adapter/events/kafka/publisher.go` | one kafka-go writer shared by all chains: batches by partition, bytes by partition | Publish with a retry loop, Close |
| No-op publisher | `adapter/events/noop.go` | none | Publish answers nil |
| Bitcoin adapter | `adapter/chain/bitcoin/adapter.go` | none; the node has coins and mempool | EstimateFee, BuildTransfer, Broadcast, GetTransaction, Balance |
| EVM adapter | `adapter/chain/evm/adapter.go` | none; the node has nonces and pool | the same |
| Solana, TRON adapters | `adapter/chain/{solana,tron}` | none; the node has recent blocks, final blocks and transactions waiting | the same |
| Transaction service | `app/transaction_service.go` | none | Transfer, EstimateFee, Status |
| Keystore sealing | `adapter/keystore` | the sealed seeds | Create, Unlock, Sign |
| In-memory stores | `adapter/repository/memory.go`, `adapter/keystore/keystore.go` | a map behind a mutex | used by the tests only |
| HTTP, CLI | `transport`, `cmd` | none | decode, call a service, encode |
| Configuration, wiring | `config`, `cmd/*/main.go` | none | read the environment once, connect the parts |
| Domain, ports | `domain`, `port` | none | types and interfaces |

How they interact. A request's context reaches every database and node call, so
a client that goes away makes the rest of its calls fail; the keystore's write
is the exception, it takes no context. The monitoring goroutines of a chain
share the channel and otherwise meet in the database only; the chains share the
Kafka writer. Transfers share nothing in the process at all: two of them meet
at the node, which is therefore part of their models. The monitoring of the api
process runs under `context.Background()` and is never cancelled there; a
cancel is an input of the models because `Watch` is written to obey one.

What is hard, and what makes each part correct:

* **Monitoring.** `poll` saves the height of a block when its last event was
  *received*, the receiver stores it *later*, either may fail or die at any
  point, and a call that failed may have had its effect. Correct: no event is
  lost between the goroutines, nothing is published that is not stored, nothing
  is published twice without a restart, order is the chain's, the saved height
  never moves back, a restart loses at most the one event in flight, both
  goroutines make progress and both stop.
* **Wallet creation.** Three writes in three transactions, an id that is a clock
  reading, upserts that overwrite. Correct: an address that is stored has its
  seed stored; an answer of success stays true; no wallet mixes seeds.
  Readers see the rows, the accounts and the seed of a wallet at different
  moments. Correct: a list taken at start-up holds every wallet finished before,
  an address that is found can be signed for, with its own key.
* **Kafka publisher.** A retry loop that must outlast topic creation and must
  not repeat what may have been stored; batches of several callers; no
  acknowledgement. Correct: a call hands its message over once, what it answered
  for is in the topic or on its way there once, every call returns.
* **Bitcoin transfers.** The coin scan does not see the mempool, the fee is
  reckoned for one input before coins are chosen, three answers of different
  age go into one transaction. Correct: only what was asked is paid, refusals
  have a cause the caller can understand, a retry does not pay twice, and what
  Status says of a transaction advances, unless its only confirmation is replaced.
* **EVM transfers.** The nonce is read several calls before it is used, the base
  fee moves on, a status is two reads. Correct: nonces leave no gap, calls that
  overlap do not both pay, what was answered stays or was outbid, an outcome
  that has a block above it is not taken back.
* **Solana and TRON transfers.** No nonce: a transaction names a block, expires
  after a while and is executed at most once. Amounts of any size become 64-bit
  integers. Blocks that are not final are replaced. Correct: a caller who goes by
  Status pays once, what is paid is what was asked, a status is not taken back.

`PROJECT.json` lists the hazards one by one, at their lines, with the properties
that cover each and the reason where none does.

## The modules

A variable of a model is a variable, a table or a node's state of the program
and keeps its name; an action is one call that leaves the process (an RPC, a
database call, a publish, a hand-over on a channel) with the local computation
that follows it, because two goroutines or two requests can only be told apart
at those points. `pc`, `mon` and `poll` say which call comes next.

**`Monitoring`** — one chain's pipeline. `mon` walks through `startMonitoring`
(`Boot` reads the wallets), `Watcher.Watch` (`WatchTip`, `WatchCursor`) and the
loop of `MonitorService.Watch` (`Deliver`, `SaveEvent`, `Publish`,
`WatchReturns`); `poll` walks through `Watcher.poll` (`PollTip`, `FetchBlock`,
`Deliver`, `SaveCursor`, `EndScan`, `PollReturns`). `Deliver` is in both: a send
on an unbuffered channel and its receive are one step. `cursor`, `rows` and
`links` are the tables, `published` counts what the publisher took. `Crash`
clears what is in memory and keeps the tables. `Fails` lets a call answer an
error; for `SaveEvent` and `Publish` with and without the effect. The chain is
a constant, `Ledger`; the node reveals it block by block (`MineBlock`), and
events are named by block, index and direction. One chain is enough: every row,
key and message carries its chain, so the pipelines touch disjoint state.

**`EventFeed`** — what monitoring promises, without blocks, tables or channels:
each life of the process subscribes to a set of events and takes them in order
without a gap, stores each, then publishes it once, and may halt anywhere.
`Monitoring!Feed` is the refinement mapping and `ImplementsFeed` the claim.

**`WalletService`** — `Create` as `Begin`, `SaveWallet`, `CreateKeys`,
`SaveAccounts`, for concurrent requests, with `Disconnect` and `Crash`. A seed is
named after its request and an address after its seed, so a row says which seed
it came from. `bip44Path`, `Component` and `Derivable` are `bip44Path`,
`parsePath` and the hardened-only rule of `DeriveKeyEd25519`.

**`WalletReaders`** — extends `WalletService` with the calls that read while it
writes: `List` (`ListWallets`, then `ListAccounts` once per wallet), `Get` and
`Balance` (`GetWallet`, `GetAccounts`), and the lookup `Transfer` begins with, which
goes on to `Unlock`. Each query is an action and may fail. `Addrs` is the address
set `startMonitoring` makes of a list, `Unsealed` what a sealed seed yields to
which passphrase. It composes wallet creation with the boot of monitoring and
with the beginning of every transfer.

**`BitcoinTransfer`** — `Transfer` and `Status` with the Bitcoin adapter: `Begin`,
`EstimateFee`, `fetchUTXOs` (the scan), `Build` (`getblockcount`, coin
selection, change, signature), `Broadcast`, `GetTransaction`. `selectUTXOs` states what the
loop over the sorted coins returns. `Int64` is `Amount.Base.Int64()`: of an
amount beyond an int64 it leaves the low bits (`sendSat`), and the sums made with it
wrap (`Need`, `changeSat`). The node is external: the transactions `mined` and those of its
newest block (`latest`), the `coins` they leave, its `mempool`, and the reasons for which bitcoind
refuses a transaction (an output beyond all money, spent or immature inputs, a conflict without
replacement, dust below 546 sat, a fee below 1 sat/vB); a transaction already in the mempool is
answered like a new one, which is what makes a retry harmless. `Mine` connects a block,
`Fork` two in place of the newest, whose transactions wait again or are in the new
ones. `told` is the count of confirmations Status was last given, 2 standing for more.

**`EvmTransfer`** — `Transfer` and `Status` with the EVM adapter: nonce, tip,
header, signature, broadcast, then transaction and receipt. The node is
external: a pool with one transaction per account and nonce, replaced when both
fees rise by a tenth, a base fee that moves by an eighth, mining in order of
nonce (`Mine`), and a latest block that may be replaced by a sibling (`Fork`), which begins with
the nonces of their `parent`. `buried` remembers that the last answer of Status was an outcome with
a block above it. 21000 gas is the adapter's limit, so a transfer to a contract is mined
and fails.

**`ExpiringTransfer`** — `Transfer` and `Status` on Solana and on TRON, the chain
being chosen in the initial state. `SolanaTransfer` and `TronTransfer` are
BuildTransfer and Sign: what the transaction says, which block it names (the
latest confirmed one on Solana, the node's own latest on TRON), how the amount is
converted (`Uint64`, `Int64`) and whose key signs. `Broadcast` may lose its answer.
`SolanaGetTransaction` is one question at the commitment "confirmed";
`TronGetTransaction` and `TronTransactionInfo` are two, at the latest block, the
error of the second dropped; of a TRON transaction that failed the receipt may say so in other words
than the one the adapter looks for (`Reported`), and confirmed is then its status. The node is external: it mines (`Mine`), makes blocks
final (`Confirm`), and replaces those that are not (`Fork`), putting their
transactions elsewhere, back into the pool, or nowhere. A caller asks again
(`MayTry`) after an error, or when Status answers unknown once every block
the transaction could be in is final. A wallet made by `Create` has no Solana account
(see `wallet_solana`): the module speaks of an account whose path derives, like
the one `test/smoke/solana` uses.

**`KafkaPublisher`** — `Publish` of several services over one `Writer`. The
writer is external and follows kafka-go 0.4.51, the version in `go.mod`:
`UnknownTopicOrPartition` comes from the partition lookup only, `LeastBytes`
ignores the key, batches are sent in order by partition, and `RequiredAcks` is its
default, none: `Send` puts a batch on the `wire`, and with that `Publish` returns; the broker
appends it later (`Arrive`), in any order, for the writer has a pool of connections, or not at
all (`Lose`). A batch may be repeated or given up by the writer.

**`MCMonitoring`**, **`MCWalletService`**, **`MCBitcoinTransfer`**,
**`MCEvmTransfer`**, **`MCExpiringTransfer`**, **`MCKafkaPublisher`** give the constants their values.
**`MonitoringProofs`**, **`FeedProofs`**, **`WalletProofs`**, **`ReaderProofs`**, **`BitcoinProofs`**,
**`EvmProofs`**, **`ExpiringProofs`** and **`KafkaProofs`** hold the theorems.

A definition whose name ends in what it gets wrong and whose comment begins
"Mutant" is not part of a model: it is a mistake somebody could make in that
line of the code, used to show that the properties would notice.

## The runs

Run a configuration as `tlc -config monitoring_resume.cfg MCMonitoring`.

| Run | Module | Question, and what is shown |
|---|---|---|
| `monitoring_resume` | `MCMonitoring` | A chain scanned from a saved height over three lives with two failing calls. `LossBound`: one life loses at most one event of those the cursor claims. `PublishedIsRecorded`: a consumer finds the rows of what it hears of. `RowsMatchChain`: upserts from both sides of a transfer agree with the block. `ResumesAtCursor`: no block is left out at a restart. `PublishOrder`: first publications come in chain order, rescans included. |
| `monitoring_first_boot` | `MCMonitoring` | No saved height, every call able to fail, a wallet created meanwhile, a cancel and a restart. `HandOff`: no interleaving loses an event between the goroutines. `DuplicateNeedsRestart`, `CursorMonotone`, and `ImplementsFeed`: the pipeline implements `EventFeed`. Liveness, with the same faults: `EventuallyPublished`: what a scan has passed is published as long as the receiver lives; `CatchesUp`: the scan reaches the tip; `ShutdownCompletes`: after a cancel both goroutines end. |
| `monitoring_event_lost`, `monitoring_cursor_unread`, `monitoring_reverted` | `MCMonitoring` | Counterexamples to three statements of the documents, see below. |
| `wallet_create` | `MCWalletService` | Two concurrent `Create` calls, colliding ids, a call that reads, a failing query, clients that leave, a crash. `AccountsHaveKey`, `CreatedIsComplete` while ids differ; `AccountsOfOneSeed` even when they do not, and `SeedLostToCollision`: a stored address has lost its seed to nothing but a request with the same id. `WatchesCreatedBefore`: the list monitoring starts from holds the addresses of every wallet answered with before, whatever is written between its queries. `SignerOfAccount`: a transfer signs with the key of the address it found, and behind an address that can be found there is a seed its owner's passphrase opens, wherever a creation stopped. |
| `wallet_solana` | `MCWalletService` | Counterexample: the Solana account. |
| `bitcoin_transfer` | `MCBitcoinTransfer` | Two transfers, or one and its retry, at a node that connects up to three blocks and may replace its newest. `FewestInputs`: largest-first is the fewest coins, of the choices with one at all. `AcceptedIsAsked`: the node takes nothing but what was asked, when that fits an int64, and the coins stay worth what they were but for fees, whichever blocks were replaced. `RefusedForCause`: a refusal is due to the amount or the change, to a rival transfer or to the fee reckoned for one input, never to an immature coin or a replaced block. `RetryPaysOnce`: at one height and rate a retry is the same transaction. `StatusAdvances`: a hash once given is pending, then confirmed; only a first confirmation is taken back, when its block is replaced, and it is unknown only while the node does not answer. |
| `evm_transfer` | `MCEvmTransfer` | Two transfers over one account and their status calls while five blocks are mined and the latest is replaced. `NoNonceGap`, `PaidOneAfterOther`, `AnsweredStays`, `TipPaidForFiveBlocks` (twice the base fee lasts five blocks of the steepest rise), `StatusIsFinal`: after an outcome from a block below the latest the answer stays, but for a pending when the second question fails. |
| `expiring_transfer` | `MCExpiringTransfer` | A payment and its retry on Solana and on TRON, over six blocks that may be replaced until they are final, with one failing call. `PaidOnce`: two payments for a request mean that the answer of a broadcast was lost, and on Solana that the block named is another one as well. `PaidIsAsked`: nothing but the amount asked for, from the wallet's own account, when the amount fits. `StatusIsFinal`: a Solana answer is never taken back; a TRON one is when its block was replaced, or when the second question fails. |
| `kafka_publish` | `MCKafkaPublisher` | Two chains share the writer while the topic is created early, late or never. `PublishedOnce`: a call hands its message over at most once, and what it answered for is in the topic or on its way there exactly once, but for one event per chain for each fault; of the order in the topic nothing is claimed, because nothing is acknowledged. `CreationAbsorbed`: a second is enough; `PublishEnds`. |
| `kafka_key` | `MCKafkaPublisher` | Counterexample: the key. |

`LossBound` needs its words weighed. It speaks of blocks between the first
saved height and the present one, of accounts that existed from the start, and
leaves out the event the receiver is working on. Each life can lose one more:
the event handed over when the process died or a call failed. It holds because
the channel has no buffer; a buffer of *n* would lose *n*.

`CHECK_DEADLOCK FALSE` is in every configuration: a service whose chain has no
more blocks, or that has answered all its requests, stops.

## Bounds

* *Monitoring*: four blocks, five transactions, two wallets. Block 2 has a
  transfer between the two wallets (two events of one row), block 3 none of
  ours, block 4 two events in one block, with a contract creation and a
  signature that does not recover. Two blocks in sequence with events on both
  sides of an empty one are what the hand-over, the retry and the cursor can
  confuse; more blocks repeat them. Two faults let a call fail twice in
  a row or two kinds meet; two crashes give a life that begins where a broken
  one ended, twice.
* *WalletService*, *WalletReaders*: two requests and two ids, which may collide;
  one reader, which is every kind of call in turn, because readers change
  nothing another could see; one failing query and one crash. The theorems hold
  for any number of requests. `HardenedKeyStart` stands for 2^31, beyond TLC's
  integers; 1024 keeps every component of the paths, 501 included, in the lower
  half.
* *BitcoinTransfer*: five coins of the sender, two of one value, one coinbase that
  matures with the second block, and a coin of another wallet; eight requests at the boundaries (exact
  amount, dust and nothing as change, two inputs, a foreign sender, no address, an unknown
  speed, an amount beyond an int64 and one whose sum with the fee is). `Word`, 2^20, stands for 2^64 and
  `MaxMoney`, 10^5, for 21 million coins. Three blocks are two and one that replaces; only the newest is
  replaced, which is the depth the code's first confirmation is about. A conflict
  needs two calls; a third conflicts with one of them, and the two are symmetric.
* *EvmTransfer*: two calls, because nonces, replacements and retries are about
  pairs; five blocks, the span of the fee formula; a base fee that only rises,
  the worst case for it; the latest block replaced, as often as it pleases. The two calls are symmetric.
* *ExpiringTransfer*: one payment asked for twice, out of six (an ordinary one,
  amounts only one chain's integer holds and neither holds, a negative one, a
  foreign sender, a bad address); a transaction is valid for two blocks, so that
  of six blocks three remain after it has expired. 16 stands for 2^64: an amount is
  below half, below it, or above.
* *KafkaPublisher*: two partitions and two chains, three events of one and one of the other,
  messages of unlike size so that
  both partitions are chosen; a topic created after three ticks (in time) or
  never; one fault of any kind, and a cancel.

`MaxFaults` and `MaxCrashes` bound events that need no bound in reality; the
theorems hold for every value of them. TLC found the variants in the modules
to violate the property each was written for, so no property holds for want of
an interesting state.

## Fairness

Weak fairness of each step of a goroutine that exists: the Go scheduler runs a
goroutine that can run, and every RPC, database call and publish ends, because it
has a deadline or the connection breaks. `Deliver` is enabled as long as both
sides wait, so weak fairness suffices there too. `Boot` is fair: the process is
restarted by its supervisor. In `KafkaPublisher` the writer's goroutine and the clock are fair, and
the broker creates the topic by its lag; that it ever reads what is on the wire is not assumed. Nothing is assumed of clients, of the
node's mining, of cancels or of crashes. `EventuallyPublished` and `CatchesUp`
leave out a receiver that has stopped on an error, and count on faults being finite: a block that can never be decoded stops a
scan for good, and the model does not claim otherwise.

## The proofs

`tlapm` checks `MonitoringProofs.tla`, `FeedProofs.tla`, `WalletProofs.tla`,
`ReaderProofs.tla`, `BitcoinProofs.tla`, `EvmProofs.tla`, `ExpiringProofs.tla` and
`KafkaProofs.tla` to the last leaf.

**Monitoring.** Assumptions: those the module states of its constants — accounts
and strangers are disjoint, a ledger is a sequence of blocks, a transaction is in
one block once, the cursor the history starts with is no higher than the node,
`NoRow` is no row and `NoEvent` no event.
`HandOff` is not inductive: a step of `poll` moves `next`, and whether that
step may leave an event behind depends on `queue`, on the receiver and on the
event it holds. `IInv` adds what is needed:

* `Control`: which goroutine exists and when the queue is empty;
* `Heights`: the cursor is below `next`, the scan starts below it, and no height
  is above the node's;
* `Queued`: what is queued is of block `next` and of a watched address, so that
  a fetched block puts *all* its events between scan and receiver;
* `Holding`: what the receiver works on came from this scan, and is in the tables
  when it is published;
* `Counted`: an event is published once more in a life only when the life is
  finished with it;

beside `TypeOK`, `HandOff` and `PublishedIsRecorded` themselves. One lemma per
action shows that it keeps all of them; `InductiveInvariant` puts them together.
From it follow `TypeCorrect`, `HandOffCorrect`, `PublishedCorrect`,
`DuplicateCorrect` and `CursorCorrect`, for every ledger and any number of
faults and crashes. `RowsCorrect` is inductive beside it: an upsert that finds a
row keeps its parties, and two events of one transaction differ in their side
only (`SameTransaction`, from the assumption that it is in one block).

**The feed.** `FeedProofs` shows under `IInv` and `RowsMatchChain` that every step of
`Monitoring` is a step of `EventFeed` or changes nothing there, one lemma per
action, and concludes `FeedCorrect`: `Spec => ImplementsFeed`. The step that
carries the weight is `Deliver`: the event the range over the block has come to
is the next one in the order of the chain, because every earlier one
is of a block already passed or no longer queued. `RowsMatchChain` is needed
where a commit stores one event and no other: without it a transaction linked
earlier could get its row only now.

**The bound on loss.** `FeedProofs` goes on to prove `LossBound` from one hypothesis, that
`cursorGet` is not among the calls that fail; `monitoring_cursor_unread` shows
what happens otherwise. `LossInv` says why the bound holds: a process lists the
accounts that were there from the start (`Listed`); what its scan has passed is in
the tables but for the event held, also after the receiver has stopped
(`InFlight`); a scan started no higher than the cursor (`Started`). Only
`SaveCursor` claims more blocks as scanned, and it can leave out the held event
only (`SaveCursorLoses`); only `Deliver` replaces the held event, and the one
before is stored by then (`StepLoses`); only `Crash` forgets it, and adds one to
both sides. `ResumesCorrect` is `ResumesAtCursor` under the same hypothesis and
without cancels, which make a read of the cursor fail like any other call.

**Order over restarts.** `PublishOrder` from two hypotheses, the same readable cursor and
accounts that do not change (a new account's old events would come late). Cancels are allowed: one
makes the read of the cursor fail too, but then every later fetch of that life
fails as well (`Floor`). The core is `LeftOut`: an event that was not published before a later one
is below the scan and below the saved height, where the next scan starts; or, with no
height saved, below the node's height, which is above everything published (`Mined`). Within a
life nothing is passed over (`InTurn`: what is passed is published but for the event worked on, and
what is queued comes after that one), because a failed publish ends the loop. `OrderInv` was
checked on `monitoring_resume` with cancels, with a saved height and without one.

**Wallet creation.** `ClockInv == BaseInv /\ (DistinctIds => WInv)`: the types and
the one-seed rule hold whatever the clock reads; that a request finds its own
rows as it left them holds while ids differ, and `DistinctIds` can only become
false, so the implication is inductive. `Owned` needs no such premise: the rows of an id are of
requests that took this id, and a request beyond the keystore's write left a seed there; so a stored
address whose seed is another's shares its id with it (`SeedLostCorrect`). From the rest:
`WalletTypeCorrect`, `OneSeedCorrect`, `AccountsHaveKeyCorrect`, `CreatedIsCompleteCorrect`.

**The readers.** `ReaderProofs` looks at the clock one request at a time: a wallet
whose request shares its id with no other (`Alone`) is safe even while others
collide. `RowInv` says what such a request has written (`OwnRows`: an account row of
its seed is there only with the seed sealed and the request over) and that an
address stands under the id of the request it is of (`Placed`). On it rest what a
list knows between two queries (`ListInv`: a wallet answered with before it is still
to be read or read in full) and what a transfer knows between the address and the
seed (`TransferInv`: the request is over, so nobody will seal another seed there).
`Kept` shows that no step of a creation disturbs either; `Alone` can only become
false. From `ReadAlways`: `WatchesThm` and `SignerThm`, for any number of creations
and readers.

**Bitcoin transfers.** Assumptions (`CoinAssumption`, `AmountAssumption`): there are finitely many coins at the
start, of different ids and worth something; the amounts asked for are integers, the
rates of the node numbers; the accounts of wallets are addresses. That the ids at the start are
multiples of ten is the naming of outputs: `10 * id + n` is then new. `Word` is even, and all
the money there is with the fee at any rate fits an int64, as 2.1 * 10^15 does. Any number of
coins, requests, blocks and faults.

A set's `Value` is a recursive function over its subsets, and the library's induction
theorems cannot be used with it, so the first part shows what the sums need by a least
counterexample: a set of subsets of a finite set has a least member
(`MinimalSet`), and a least subset for which the recursion failed, or was not unique, or
was no integer, is one element larger than one for which it did not. From `SumRemove` on (the sum
without any one element, not only the chosen one) follow unions, bounds and the sum of the fees.
The second part is `selectUTXOs`: the sets the loop passes through are ordered by
inclusion (`TakenChain`), the answer is the first of them that is enough (`SelectIs`), and each
is worth at least as much as any set of its size (`TakenIsWorthMost`), by exchanging what
the two have not in common, coin for coin. So no smaller set is enough (`SelectsFewest`). The proof
corrected the property: the loop takes a coin before it compares, so for an amount of
zero at rate zero it takes one where none would do, and `FewestInputs` now compares it with the
sets that have an element.

The third part is the induction. `Inv` is

* `Held`: the types, and that all sets are finite;
* `Named`: no two coins there ever were have one id, no two transactions of chain and mempool share
  a coin, which is one of those there ever were (`Apart`), and the chain is `Closed`, with and without its
  newest block: what a transaction spends is an output of the chain;
* `BuiltBy`: the transaction of a call is what `BuildTransfer` makes of the coins, height and
  rate it was told, and a scan made at the tip's height is what a scan would give now;
* `SameScan`: two scans of one address at one height saw the same, whatever came into the
  mempool between them;
* `Taking`: what the node has was sent by a call that is over, of coins of its signer; what
  was answered the node has; a transaction said to have two confirmations is in a block below the newest;
* `RefusedForCause` itself.

That a sum which wraps is still the sum, for a transaction the node took, is the refusal "value" with
`AmountAssumption`. `ConnectsInv` carries the weight, for a block and for the two that replace one: a
transaction undone waits or is connected again, so that chain and mempool together lose none,
and the coins of the new chain are known ones. That only fees leave the coins is a lemma about
any closed chain (`ChainValue`): inputs are disjoint, outputs new and distinct, so the coins differ by
the sum over its transactions of what each pays less what each spends. From `Inv`:
`BitcoinTypeCorrect`, `FewestInputsCorrect`, `AcceptedIsAskedCorrect`, `RefusedForCauseCorrect`,
`RetryPaysOnceCorrect` and `StatusAdvancesCorrect`.

**EVM transfers.** Assumptions (`ChainAssumption`): nonces, tips and the base fee are
numbers, the accounts of the wallets are addresses, `NoTx` is no transaction. Any number
of calls, accounts, blocks, replaced blocks and faults, and a base fee that moves either way. `Inv` is

* `Held`: the types, a finite pool and chain;
* `Slots`: one transaction per account and nonce in the pool, none below the account's
  nonce, and every nonce below it in the chain: those from `parent` on in the latest block, the others
  below it;
* `BuiltBy`: what a call holds is what `BuildTransfer` makes of its request and of the
  answers it has got;
* `CoveredBy`: every nonce below the one a call was given is in use, and was when it
  was given;
* `ToldBy`, `Occupied`: an answered transaction's nonce is taken by itself or by one with
  a higher tip; an outcome Status gave while its block was below the latest is the one in the chain.

That `PendingNonce` is the first free nonce at all needs the pool to be finite
(`PendingNonceIsFree`); that mining in order of nonce and replacing keep the nonces
covered is the step everything else rests on, shown once for a block on top of any chain
(`ConnectsInv`) and used for `Mine` and for `Fork`. From it `NoNonceGapCorrect`,
`PaidOneAfterOtherCorrect`, `AnsweredStaysCorrect` (with `ScaleTip` shown monotone in the
speed) and `EvmStatusCorrect`. `TipPaidCorrect` has an invariant of its own, `FeeInv`: `Grown`
bounds the base fee *n* blocks after a header by what five steps of an eighth, rounded
up, can make of it. The theorem takes a base fee of 5 or more when the history starts: the
least step is 1, so a base fee of 1 may be 6 after five blocks, above twice 1 plus the
tip's cap. Chains have base fees of millions of wei. The proof also corrected the
property, which speaks of the five blocks *after* the header that was read: two calls
alike in all they were answered build one transaction, which the first can have brought
into the chain before the second reads its header.

**Solana and TRON transfers.** Assumptions (`ChainAssumption`): amounts are integers of
any size, `Word` is even and positive. Any number of payments, tries, forks and faults.
`Inv` is `Held` (types), `Built` (what a call holds is what its request makes with the
block it names), `OneBlock` (a transaction waits or is in one block, within its time), `Retried`
and `Settled`. The idea is `Gone(t)`: `t` is in no block and the *final* part of the chain
is beyond its time. What is gone stays gone, through every `Mine`, `Confirm` and
`Fork`, and `Retried` says that a call which was followed by another has failed, or was
answered and its transaction is gone. `Settled` says that an answer of Solana's Status is about a
final block; TRON's may be about one that is replaced, which `StatusIsFinal` allows. From it `PaidOnceCorrect`,
`PaidIsAskedCorrect` and `ExpiringStatusCorrect`.

**The publisher.** Assumptions (`MessageAssumption`): lags are numbers of ticks, and the lag
`Never` stands for is no shorter than the waits of the loop. Any number of chains, partitions,
messages and faults. `Inv` is `Held` (types), `Called` (how far a call is and whether it handed its
message over), `Queued` (a message in a batch is the one its chain's call is about, and the
chain's only one), `Counted` and `InTime`. `Counted` counts a chain's finished events that are not
exactly once in the topic or on the wire (`Off`): `Send` and `Lose` can add one, for each chain at
most one, and only with a fault (`SendOff`, `OneMoreOff`); that writing a batch adds one copy of each of its
messages to `Places` is `WrittenCopies`, and `Arrive` moves copies without changing their number. `InTime`
says that the attempts of a call are not ahead of the broker's clock. From it `PublishedOnceCorrect`
and `CreationAbsorbedCorrect`.

Model-checked only: the liveness properties (`EventuallyPublished`, `CatchesUp`,
`ShutdownCompletes`, `PublishEnds`), since the prover has no rule for fairness. Every
other property of the passing runs is a theorem.

## Where code and documents differ

| Run | The documents | The code |
|---|---|---|
| `monitoring_event_lost` | `db/schema.sql:66`: the table has "Every on-chain transaction that involves at least one of our addresses." | The height of a block is saved when its last event was handed over. A process that dies before storing it resumes after the block. |
| `monitoring_cursor_unread` | `internal/port/repository.go:27-29`, `db/schema.sql:10-11`: watchers resume from the saved height on restart. | An error of reading it is logged and the scan starts at the tip; the next saved height makes the gap permanent. |
| `monitoring_reverted` | `db/schema.sql:67-68`: "updated to 'confirmed'/'failed' once the block receipt is available." | Every event is stored as confirmed; no receipt is read. |
| `wallet_solana` | `REQUIREMENTS.md:16-17`: one account per supported chain. | The path of Solana has components its derivation refuses, the chain is skipped and success reported. |
| `kafka_key` | `publisher.go:62-63`: "Keyed by tx hash so a chain's events for one tx land on one partition." | The balancer is `LeastBytes`, which does not look at the key. It shows on topics with more than one partition. |

Things the documents are silent about, and the models have: an amount that does not
fit is paid all the same, as |x| mod 2^64 on Solana and as its low 64 bits on TRON and on Bitcoin,
when those are positive; `GetTransaction` says confirmed from the first confirmation on Bitcoin, and
confirmed or failed from the first receipt on EVM chains, so a reorganisation takes the answer back; on TRON
every result of the receipt but "FAILED" is confirmed; `HexToAddress` makes an address of any text on EVM chains; the
environment a request names is used by no adapter; two payments that are meant to be
two, alike in everything and made within one block, are one on Solana; a transaction
that waits is unknown, not pending, on Solana and TRON; on Bitcoin, unknown may also
mean that the node is down.

## What is outside the models

* Reorganisations and nodes that are reset, for monitoring: `Ledger` is chosen in advance
  and only grows. The code does not handle them (`chain_cursors.block_hash` is unused).
* For transfers: on Bitcoin and EVM chains, reorganisations deeper than one block, and a pool or mempool
  that forgets or expires transactions: there is one node with one pool. Nobody else has the keys of
  the wallets. Solana's blocks at the commitment "confirmed" are taken as never rolled back.
* A block the client can never decode: it stops a scan for good.
* Cryptography: derivation beyond path components, sealing, signatures. A signature
  is the account that made it, a seal opens to one passphrase.
* `Balance` of the adapters, `EstimateFee` of the service, HTTP, CLI, configuration: they
  read, or translate, and keep no state. What HTTP and CLI let through (negative
  amounts, unknown speeds, any sender) is among the inputs of the transfers.
* Funds on EVM chains, Solana and TRON: a transfer the account cannot pay is refused at the
  broadcast or executed as failed.
* Amounts beyond 2^31: TLC's integers; widths are scaled down where they matter.
* The in-memory stores: a map behind a mutex, used by the tests only.
* `Close` of the publisher: `main` ends in `log.Fatal`, which runs no deferred call.

## Plan

Done: monitoring with its abstract feed, wallet creation and its readers, transfers and
status on all four kinds of chain, the publisher; the proofs above. To do, in this order:

1. `Monitoring` over `KafkaPublisher`: `EventFeed`'s publish as the publisher's
   call, several chains on one writer.
2. A node that reorganises or is reset, and what the tables say afterwards.
