------------------------------ MODULE Monitoring ------------------------------
(***************************************************************************)
(* One chain's monitoring pipeline, from the node to the event publisher.  *)
(*                                                                         *)
(*   node --RPC--> Watcher.poll --channel--> MonitorService.Watch          *)
(*                      |                       |            |             *)
(*                      v                       v            v             *)
(*                chain_cursors           transactions     publisher       *)
(*                                        tx_addresses                     *)
(*                                                                         *)
(* The two goroutines of the api process share an unbuffered channel and   *)
(* nothing else; every row and every message carries its chain, so the     *)
(* pipelines of Ethereum and Base never touch each other's state and one   *)
(* of them is modelled.  A step is one RPC, one database call, one publish *)
(* or one hand-over on the channel, with the local work that follows it.   *)
(***************************************************************************)
EXTENDS Integers, FiniteSets, Sequences

CONSTANTS
  Txs,             \* transaction hashes
  Accounts,        \* addresses this system's wallets can own on the chain
  Strangers,       \* every other address
  NoAddress,       \* the address of nobody: "" or NULL
  Sender,          \* Sender[tx], NoAddress when the signature does not recover
  Recipient,       \* Recipient[tx], NoAddress for a contract creation
  Reverted,        \* the transactions whose receipt says they failed
  WalletOf,        \* the wallet that owns an address
  NoRow,           \* no row of the transactions table
  NoEvent,         \* MonitorService holds no event
  Ledger,          \* Ledger[h]: the transactions of block h, in order
  MaxHeight,       \* bound: the last block the node ever mines
  InitialHeight,   \* the node's tip when the history starts
  InitialCursor,   \* the chain_cursors row when the history starts
  InitialOwned,    \* the addresses in the accounts table at that point
  Faults,          \* the calls that may fail
  MaxFaults,       \* bound: how many calls fail
  MaxCrashes,      \* bound: how many times the process dies
  Cancellable      \* may the caller of Watch cancel its context

\* chain_cursors has no row for the chain.
NoCursor == -1

Roles == {"sender", "receiver"}

Calls == {"list", "tip", "cursorGet", "poll", "block", "cursorSet", "save", "publish"}

ASSUME AddressAssumption ==
  /\ Accounts \cap Strangers = {}
  /\ NoAddress \notin Accounts \cup Strangers
  /\ Sender \in [Txs -> Accounts \cup Strangers \cup {NoAddress}]
  /\ Recipient \in [Txs -> Accounts \cup Strangers \cup {NoAddress}]
  /\ Reverted \subseteq Txs
  /\ InitialOwned \subseteq Accounts

ASSUME LedgerAssumption ==
  /\ MaxHeight \in Nat
  /\ Ledger \in [1..MaxHeight -> Seq(Txs)]
  /\ InitialHeight \in 0..MaxHeight
  /\ InitialCursor \in NoCursor..InitialHeight

\* A transaction is in one block, once.
ASSUME OneBlockPerTx ==
  \A h1, h2 \in 1..MaxHeight :
    \A i \in DOMAIN Ledger[h1], j \in DOMAIN Ledger[h2] :
      Ledger[h1][i] = Ledger[h2][j] => h1 = h2 /\ i = j

ASSUME BoundAssumption ==
  /\ Faults \subseteq Calls
  /\ MaxFaults \in Nat
  /\ MaxCrashes \in Nat
  /\ Cancellable \in BOOLEAN

-----------------------------------------------------------------------------
(***************************************************************************)
(* Events.  A TxEvent is named by the place it comes from: the block, the  *)
(* transaction's index in it and the side of the transfer it is about.     *)
(***************************************************************************)

Events ==
  UNION { [height : {h}, index : DOMAIN Ledger[h], role : Roles] : h \in 1..MaxHeight }

Hash(e) == Ledger[e.height][e.index]

\* evt.Address, the watched side.
Address(e) == IF e.role = "sender" THEN Sender[Hash(e)] ELSE Recipient[Hash(e)]

\* evt.Counterparty, the other side; NoAddress when it is unknown.
Counterparty(e) == IF e.role = "sender" THEN Recipient[Hash(e)] ELSE Sender[Hash(e)]

\* evt.Status: the watcher reports what it finds in a block as confirmed.
StatusOf(e) == "confirmed"

\* The order MatchTransactions lists events in: by transaction, and a
\* transaction's outbound side before its inbound side.
Precedes(e, f) ==
  \/ e.height < f.height
  \/ e.height = f.height /\ e.index < f.index
  \/ e.height = f.height /\ e.index = f.index /\ e.role = "sender" /\ f.role = "receiver"

\* The events of block n for the given addresses.
MatchTransactions(n, addrs) == {e \in Events : e.height = n /\ Address(e) \in addrs}

-----------------------------------------------------------------------------
(***************************************************************************)
(* Rows.                                                                   *)
(***************************************************************************)

ASSUME EventAssumption == NoEvent \notin Events

\* The events that can concern a wallet of this system.
OurEvents == {e \in Events : Address(e) \in Accounts}

\* The column types; the CHECK constraint lists the statuses.
Row ==
  [status : {"pending", "confirmed", "failed", "unknown"},
   from   : Accounts \cup Strangers \cup {NoAddress},
   to     : Accounts \cup Strangers \cup {NoAddress},
   height : 1..MaxHeight]

ASSUME RowAssumption == NoRow \notin Row

\* Mutant: the same column order for both directions.
NewRowSwapped(e) ==
  [status |-> StatusOf(e), from |-> Address(e), to |-> Counterparty(e), height |-> e.height]

\* The columns SaveEvent inserts, from_address and to_address by direction.
NewRow(e) ==
  [status |-> StatusOf(e),
   from   |-> IF e.role = "sender" THEN Address(e) ELSE Counterparty(e),
   to     |-> IF e.role = "sender" THEN Counterparty(e) ELSE Address(e),
   height |-> e.height]

\* INSERT ... ON CONFLICT (chain, hash) DO UPDATE: the addresses stay.
Upsert(row, e) ==
  IF row = NoRow THEN NewRow(e)
                 ELSE [row EXCEPT !.status = StatusOf(e), !.height = e.height]

\* The tx_addresses row that ties the transaction to the wallet.
Link(e) ==
  [hash |-> Hash(e), wallet |-> WalletOf[Address(e)], address |-> Address(e), role |-> e.role]

LinkRow == {Link(e) : e \in OurEvents}

-----------------------------------------------------------------------------
VARIABLES
  height,     \* node: its latest block
  owned,      \* accounts: the addresses saved so far
  cursor,     \* chain_cursors: the saved height, or NoCursor
  rows,       \* transactions: hash -> row or NoRow
  links,      \* tx_addresses
  published,  \* port.TxEventPublisher: how often it took each event
  mon,        \* where startMonitoring and then MonitorService.Watch is
  watched,    \* addrs: the addresses listed at this boot
  held,       \* the event MonitorService took from the channel last
  poll,       \* where Watcher.poll is
  tip,        \* the latest BlockNumber answer
  from,       \* poll's argument: the block after which this scan starts
  next,       \* the block to scan next
  queue,      \* the events of block next that are still to be sent
  ctx,        \* the context given to Watch
  faults,     \* how many calls failed so far
  crashes     \* how many times the process died so far

nodeVars == <<height>>
dbVars   == <<owned, cursor, rows, links>>
monVars  == <<mon, watched, held>>
pollVars == <<poll, tip, from, next, queue>>
vars     == <<height, owned, cursor, rows, links, published, mon, watched, held,
              poll, tip, from, next, queue, ctx, faults, crashes>>

MonStates  == {"down", "tip", "cursor", "recv", "save", "publish", "stopped"}
PollStates == {"off", "idle", "scan", "emit", "closed"}

\* The tables hold what earlier runs of the process left: nothing yet, but a
\* cursor when InitialCursor says so.
Init ==
  /\ height = InitialHeight
  /\ owned = InitialOwned
  /\ cursor = InitialCursor
  /\ rows = [tx \in Txs |-> NoRow]
  /\ links = {}
  /\ published = [e \in Events |-> 0]
  /\ mon = "down"
  /\ watched = {}
  /\ held = NoEvent
  /\ poll = "off"
  /\ tip = 0
  /\ from = 0
  /\ next = 1
  /\ queue = {}
  /\ ctx = "live"
  /\ faults = 0
  /\ crashes = 0

-----------------------------------------------------------------------------
(***************************************************************************)
(* Calls out of the process.  A call made under a cancelled context fails; *)
(* any call listed in Faults may fail, MaxFaults of them in all.           *)
(***************************************************************************)

Succeeds == ctx = "live" /\ UNCHANGED faults

Fails(call) ==
  \/ ctx = "cancelled" /\ UNCHANGED faults
  \/ /\ ctx = "live" /\ call \in Faults /\ faults < MaxFaults
     /\ faults' = faults + 1

-----------------------------------------------------------------------------
(***************************************************************************)
(* Outside the pipeline.                                                   *)
(***************************************************************************)

\* The node extends its chain.
MineBlock ==
  /\ height < MaxHeight
  /\ height' = height + 1
  /\ UNCHANGED <<dbVars, published, monVars, pollVars, ctx, faults, crashes>>

\* WalletService.Create saves the account of a new wallet.
CreateAccount ==
  /\ \E a \in Accounts \ owned : owned' = owned \cup {a}
  /\ UNCHANGED <<nodeVars, cursor, rows, links, published, monVars, pollVars, ctx, faults, crashes>>

\* The process dies, or an operator restarts it: the goroutines and their
\* locals are gone, the tables and what was published stay.
Crash ==
  /\ mon # "down"
  /\ crashes < MaxCrashes
  /\ crashes' = crashes + 1
  /\ mon' = "down" /\ watched' = {} /\ held' = NoEvent
  /\ poll' = "off" /\ tip' = 0 /\ from' = 0 /\ next' = 1 /\ queue' = {}
  /\ ctx' = "live"
  /\ UNCHANGED <<nodeVars, dbVars, published, faults>>

\* The caller of Watch cancels.  The api process never does.
Cancel ==
  /\ Cancellable
  /\ ctx = "live"
  /\ mon # "down"
  /\ ctx' = "cancelled"
  /\ UNCHANGED <<nodeVars, dbVars, published, monVars, pollVars, faults, crashes>>

-----------------------------------------------------------------------------
(***************************************************************************)
(* startMonitoring and Watcher.Watch, on the goroutine that later receives.*)
(***************************************************************************)

\* The process starts and lists the wallets once.
Boot ==
  /\ mon = "down"
  /\ \/ Succeeds /\ watched' = owned /\ mon' = "tip"
     \/ Fails("list") /\ mon' = "stopped" /\ UNCHANGED watched
  /\ UNCHANGED <<nodeVars, dbVars, published, held, pollVars, ctx, crashes>>

WatchTip ==
  /\ mon = "tip"
  /\ \/ Succeeds /\ tip' = height /\ mon' = "cursor"
     \/ Fails("tip") /\ mon' = "stopped" /\ UNCHANGED tip
  /\ UNCHANGED <<nodeVars, dbVars, published, watched, held, poll, from, next, queue, ctx, crashes>>

\* Mutants: the comparison turned round; the missing row not told apart.
ResumeFromTip(saved, t) == IF saved # NoCursor /\ saved > t THEN saved ELSE t
ResumeUnchecked(saved, t) == IF saved < t THEN saved ELSE t

\* Where to scan from: the saved height if there is one below the tip.
ResumeFrom(saved, t) == IF saved # NoCursor /\ saved < t THEN saved ELSE t

\* Mutant: the zero value Get returns with its error.
ResumeAtZero(saved, t) == 0

\* Where to scan from when the cursor could not be read.
ResumeBlind(saved, t) == t

WatchCursor ==
  /\ mon = "cursor"
  /\ \/ Succeeds /\ from' = ResumeFrom(cursor, tip)
     \/ Fails("cursorGet") /\ from' = ResumeBlind(cursor, tip)
  /\ next' = from' + 1
  /\ poll' = "idle"
  /\ mon' = "recv"
  /\ UNCHANGED <<nodeVars, dbVars, published, watched, held, tip, queue, ctx, crashes>>

-----------------------------------------------------------------------------
(***************************************************************************)
(* Watcher.poll.                                                           *)
(***************************************************************************)

\* A tick, and the BlockNumber call it triggers.
PollTip ==
  /\ poll = "idle"
  /\ \/ Succeeds /\ tip' = height /\ poll' = "scan"
     \/ Fails("poll") /\ UNCHANGED <<tip, poll>>
  /\ UNCHANGED <<nodeVars, dbVars, published, monVars, from, next, queue, ctx, crashes>>

\* Mutant: off by one.
InRangeStrict(n, t) == n < t

\* The loop condition n <= tip.
InRange(n, t) == n <= t

EndScan ==
  /\ poll = "scan"
  /\ ~InRange(next, tip)
  /\ poll' = "idle"
  /\ UNCHANGED <<nodeVars, dbVars, published, monVars, tip, from, next, queue, ctx, faults, crashes>>

\* Mutant: continue instead of break, so the failed block is passed over.
FetchBlockSkips ==
  /\ poll = "scan"
  /\ InRange(next, tip)
  /\ \/ Succeeds /\ queue' = MatchTransactions(next, watched) /\ poll' = "emit" /\ UNCHANGED next
     \/ Fails("block") /\ next' = next + 1 /\ UNCHANGED <<queue, poll>>
  /\ UNCHANGED <<nodeVars, dbVars, published, monVars, tip, from, ctx, crashes>>

FetchBlock ==
  /\ poll = "scan"
  /\ InRange(next, tip)
  /\ \/ Succeeds /\ queue' = MatchTransactions(next, watched) /\ poll' = "emit"
     \/ Fails("block") /\ poll' = "idle" /\ UNCHANGED queue
  /\ UNCHANGED <<nodeVars, dbVars, published, monVars, tip, from, next, ctx, crashes>>

\* Mutant: the events of a block in any order.
AnyOf(e) == TRUE

\* The event the range over a block's events is at.
Earliest(e) == \A f \in queue : f = e \/ Precedes(e, f)

\* A send on the unbuffered channel waits for the receiver.
ReceiverReady == mon = "recv"

\* The send in poll and the receive in MonitorService.Watch are one step.
Deliver ==
  /\ poll = "emit"
  /\ ReceiverReady
  /\ \E e \in queue :
       /\ Earliest(e)
       /\ held' = e
       /\ queue' = queue \ {e}
  /\ mon' = "save"
  /\ UNCHANGED <<nodeVars, dbVars, published, watched, poll, tip, from, next, ctx, faults, crashes>>

\* Mutant: the height saved before the events are handed over.
NotWaiting == TRUE

\* The range over the block's events is exhausted.
BlockDone == queue = {}

\* Mutant: the block scanned again when its height was not stored.
NextIfStored(n, stored) == IF stored THEN n + 1 ELSE n

\* What poll saves once block n is handed over, and where it goes on.
CursorAfter(n) == n
NextAfter(n, stored) == n + 1

SaveCursor ==
  /\ poll = "emit"
  /\ BlockDone
  /\ \/ Succeeds /\ cursor' = CursorAfter(next) /\ next' = NextAfter(next, TRUE)
     \/ Fails("cursorSet") /\ UNCHANGED cursor /\ next' = NextAfter(next, FALSE)
  /\ poll' = "scan"
  /\ UNCHANGED <<nodeVars, owned, rows, links, published, monVars, tip, from, queue, ctx, crashes>>

\* Mutant: a send that does not watch the context.
PollReturnsAtTick ==
  /\ ctx = "cancelled"
  /\ poll = "idle"
  /\ poll' = "closed"
  /\ UNCHANGED <<nodeVars, dbVars, published, monVars, tip, from, next, queue, ctx, faults, crashes>>

\* poll returns at a select it reaches with a cancelled context.
PollReturns ==
  /\ ctx = "cancelled"
  /\ poll = "idle" \/ (poll = "emit" /\ queue # {})
  /\ poll' = "closed"
  /\ UNCHANGED <<nodeVars, dbVars, published, monVars, tip, from, next, queue, ctx, faults, crashes>>

-----------------------------------------------------------------------------
(***************************************************************************)
(* MonitorService.Watch's loop.                                            *)
(***************************************************************************)

\* Mutant: the error of SaveEvent not looked at.
AfterSaveIgnored(ok) == "publish"

\* Where the loop goes after SaveEvent, by its result.
AfterSave(ok) == IF ok THEN "publish" ELSE "stopped"

\* The database transaction of SaveEvent.
Commit(e) ==
  /\ rows' = [rows EXCEPT ![Hash(e)] = Upsert(@, e)]
  /\ links' = links \cup {Link(e)}

\* An error may be the answer to a commit that did happen.
SaveEvent ==
  /\ mon = "save"
  /\ \/ Succeeds /\ Commit(held) /\ mon' = AfterSave(TRUE)
     \/ Fails("save") /\ Commit(held) /\ mon' = AfterSave(FALSE)
     \/ Fails("save") /\ UNCHANGED <<rows, links>> /\ mon' = AfterSave(FALSE)
  /\ UNCHANGED <<nodeVars, owned, cursor, published, watched, held, pollVars, ctx, crashes>>

\* Where the loop goes after Publish, by its result.
AfterPublish(ok) == IF ok THEN "recv" ELSE "stopped"

Taken(e) == published' = [published EXCEPT ![e] = @ + 1]

\* An error may be the answer to an event that was taken: the publisher may
\* give up waiting for what it has already sent.
Publish ==
  /\ mon = "publish"
  /\ \/ Succeeds /\ Taken(held) /\ mon' = AfterPublish(TRUE)
     \/ Fails("publish") /\ Taken(held) /\ mon' = AfterPublish(FALSE)
     \/ Fails("publish") /\ UNCHANGED published /\ mon' = AfterPublish(FALSE)
  /\ UNCHANGED <<nodeVars, dbVars, watched, held, pollVars, ctx, crashes>>

\* Watch returns when its context is cancelled or the channel is closed.
WatchReturns ==
  /\ mon = "recv"
  /\ ctx = "cancelled" \/ poll = "closed"
  /\ mon' = "stopped"
  /\ UNCHANGED <<nodeVars, dbVars, published, watched, held, pollVars, ctx, faults, crashes>>

-----------------------------------------------------------------------------

Next ==
  \/ MineBlock \/ CreateAccount \/ Crash \/ Cancel
  \/ Boot \/ WatchTip \/ WatchCursor
  \/ PollTip \/ EndScan \/ FetchBlock \/ Deliver \/ SaveCursor \/ PollReturns
  \/ SaveEvent \/ Publish \/ WatchReturns

Spec == Init /\ [][Next]_vars

(***************************************************************************)
(* Every goroutine that can take a step takes one.  Nothing makes the node *)
(* mine, a client create a wallet, a caller cancel, or the process die.    *)
(***************************************************************************)
Fairness ==
  /\ WF_vars(Boot) /\ WF_vars(WatchTip) /\ WF_vars(WatchCursor)
  /\ WF_vars(PollTip) /\ WF_vars(EndScan) /\ WF_vars(FetchBlock)
  /\ WF_vars(Deliver) /\ WF_vars(SaveCursor) /\ WF_vars(PollReturns)
  /\ WF_vars(SaveEvent) /\ WF_vars(Publish) /\ WF_vars(WatchReturns)

FairSpec == Spec /\ Fairness

-----------------------------------------------------------------------------
(***************************************************************************)
(* What must hold.                                                         *)
(***************************************************************************)

\* The type of every variable.
TypeOK ==
  /\ height \in 0..MaxHeight
  /\ owned \subseteq Accounts
  /\ cursor \in NoCursor..MaxHeight
  /\ rows \in [Txs -> Row \cup {NoRow}]
  /\ links \subseteq LinkRow
  /\ published \in [Events -> Nat]
  /\ mon \in MonStates
  /\ watched \subseteq Accounts
  /\ held \in OurEvents \cup {NoEvent}
  /\ poll \in PollStates
  /\ tip \in 0..MaxHeight
  /\ from \in 0..MaxHeight
  /\ next \in 1..(MaxHeight + 1)
  /\ queue \subseteq OurEvents
  /\ ctx \in {"live", "cancelled"}
  /\ faults \in 0..MaxFaults
  /\ crashes \in 0..MaxCrashes

\* Both rows SaveEvent writes for the event are there.
Recorded(e) == rows[Hash(e)] # NoRow /\ Link(e) \in links

\* MonitorService.Watch is in its loop.
Receiving == mon \in {"recv", "save", "publish"}

\* poll is in the loop over a block's events, or returned from inside it.
MidBlock == poll = "emit" \/ (poll = "closed" /\ queue # {})

\* The scan of this process has come past the event: it was on the channel.
HandedOver(e) ==
  /\ poll # "off"
  /\ from < e.height
  /\ Address(e) \in watched
  /\ e.height < next \/ (e.height = next /\ MidBlock /\ e \notin queue)

\* While MonitorService.Watch lives, every event of a watched address in the
\* blocks its scan has passed is in both tables, except the one it holds: the
\* rendezvous, the early return of poll's loop on an RPC error and the retry
\* of the block lose none of them, however the two goroutines interleave.
HandOff ==
  Receiving =>
    \A e \in Events : HandedOver(e) => Recorded(e) \/ (mon = "save" /\ e = held)

\* A consumer that looks a published event up finds its rows: Publish
\* comes after a SaveEvent that succeeded, in this process or an earlier one.
PublishedIsRecorded == \A e \in Events : published[e] > 0 => Recorded(e)

\* A process publishes an event at most once, even when the cursor could not
\* be saved after its block: a second publication needs a restart.
DuplicateNeedsRestart == \A e \in Events : published[e] <= crashes + 1

\* The events of accounts known from the start in the blocks the cursor says
\* are scanned, without their rows.
Lost ==
  {e \in Events :
     /\ InitialCursor < e.height /\ e.height <= cursor
     /\ Address(e) \in InitialOwned
     /\ ~Recorded(e)}

\* The cursor runs ahead of the tables by the one event in MonitorService's
\* hands: when there was a cursor to begin with and it is always readable, one
\* life of the process loses at most one event, whatever calls fail in it and
\* wherever it dies.
LossBound == InitialCursor # NoCursor => Cardinality(Lost \ {held}) <= crashes

\* A scan starts where the saved height says, never past it: no block between
\* the saved height and the tip is left out.
ResumesAtCursor == poll # "off" /\ cursor # NoCursor => from <= cursor

\* The saved height never moves back, so no block is scanned twice for it
\* even when a process could not read it and started elsewhere.
CursorMonotone == [][cursor' >= cursor]_vars

\* An event is first published after no later event of the chain, also when
\* a restarted process scans blocks again: with the accounts unchanged and the
\* cursor readable a consumer that drops duplicates sees the chain's order.
PublishOrder ==
  [][\A e \in Events :
       published[e] = 0 /\ published'[e] = 1 =>
         \A f \in Events : published[f] > 0 => ~Precedes(e, f)]_vars

\* A row says what the block says: the parties as far as they are known, and
\* the block; and a transaction with a row has at least one wallet linked, each
\* by the side of the transfer that is its own address.
RowsMatchChain ==
  /\ \A e \in Events :
       rows[Hash(e)] # NoRow =>
         /\ rows[Hash(e)].from = Sender[Hash(e)]
         /\ rows[Hash(e)].to = Recipient[Hash(e)]
         /\ rows[Hash(e)].height = e.height
         /\ \E l \in links : l.hash = Hash(e)
  /\ \A l \in links :
       /\ rows[l.hash] # NoRow
       /\ l.address = IF l.role = "sender" THEN rows[l.hash].from ELSE rows[l.hash].to
       /\ l.wallet = WalletOf[l.address]

-----------------------------------------------------------------------------

\* A watched event in a block mined after the scan began reaches both tables
\* and then the publisher, through failed polls, fetches and cursor writes,
\* unless a failed save or publish has ended the receiving loop or this life of
\* the process is over: poll's retry and the two loops never wedge.
EventuallyPublished ==
  \A e \in OurEvents, life \in 0..MaxCrashes :
    (/\ crashes = life /\ poll # "off"
     /\ from < e.height /\ e.height <= height /\ Address(e) \in watched)
      ~> \/ Recorded(e) /\ published[e] > 0
         \/ crashes > life \/ ctx = "cancelled" \/ mon = "stopped"

\* The scan comes past every block of the chain, over restarts and failing
\* calls, unless a call has failed that ends monitoring for this life.
CatchesUp ==
  \A h \in 1..MaxHeight :
    (InitialCursor < h /\ h <= height) ~> (next > h \/ ctx = "cancelled" \/ mon = "stopped")

\* After a cancel both goroutines return; none is left blocked on the channel.
ShutdownCompletes ==
  (ctx = "cancelled") ~> (mon \in {"stopped", "down"} /\ poll \in {"closed", "off"})

-----------------------------------------------------------------------------
(***************************************************************************)
(* The feed this pipeline implements: the life of a process is a pass over *)
(* the events of the watched addresses above the height it starts from.    *)
(***************************************************************************)

Phase ==
  CASE mon \in {"down", "tip", "cursor"} -> "off"
    [] mon = "recv"                       -> "ready"
    [] mon = "save"                       -> "taken"
    [] mon = "publish"                    -> "stored"
    [] mon = "stopped"                    -> "halted"

Subscribed == {e \in OurEvents : poll # "off" /\ from < e.height /\ Address(e) \in watched}

Passed == {e \in Subscribed : HandedOver(e)}

InTables == {e \in OurEvents : Recorded(e)}

Publications == [e \in OurEvents |-> published[e]]

Feed ==
  INSTANCE EventFeed WITH
    Event <- OurEvents,
    NoneYet <- NoEvent,
    Order <- {pair \in OurEvents \X OurEvents : Precedes(pair[1], pair[2])},
    phase <- Phase,
    subscribed <- Subscribed,
    passed <- Passed,
    last <- held,
    stored <- InTables,
    out <- Publications

\* Watcher.poll, the channel and MonitorService.Watch together implement the
\* feed: an ordered pass without gaps, each event stored before it is
\* published and published once, in every life of the process.
ImplementsFeed == Feed!FeedSpec

-----------------------------------------------------------------------------
(***************************************************************************)
(* What the documents say and the code does not do.                        *)
(***************************************************************************)

\* "Every on-chain transaction that involves at least one of our addresses."
\* The blocks up to the cursor have all their events in the tables, but the
\* one MonitorService is working on.
NothingLost == Lost \ {held} = {}

\* "updated to 'confirmed'/'failed' once the block receipt is available":
\* no transaction that failed has a row that says it was confirmed.
ConfirmedSucceeded ==
  \A tx \in Txs : rows[tx] # NoRow /\ rows[tx].status = "confirmed" => tx \notin Reverted
===============================================================================
