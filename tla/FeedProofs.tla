------------------------------ MODULE FeedProofs ------------------------------
(***************************************************************************)
(* Monitoring implements EventFeed: under the invariant of MonitoringProofs *)
(* every step of the pipeline is a step of the feed or is not seen there.  *)
(* Then what the feed does not promise: how many events can be left behind, *)
(* and that the order of the chain outlasts restarts.                      *)
(***************************************************************************)
EXTENDS MonitoringProofs, FiniteSetTheorems

\* What the steps are shown under.
FInv == IInv /\ RowsMatchChain

-----------------------------------------------------------------------------
(***************************************************************************)
(* The parts of the mapping.                                               *)
(***************************************************************************)

\* A step that moves neither the receiver nor the tables nor what is handed
\* over is not seen in the feed.
LEMMA Unseen ==
  ASSUME UNCHANGED <<mon, watched, held, from, rows, links, published>>,
         poll' = "off" <=> poll = "off",
         \A e \in Events : HandedOver(e)' <=> HandedOver(e)
  PROVE  UNCHANGED Feed!feedVars
<1>1. Phase' = Phase
  BY DEF Phase
<1>2. Subscribed' = Subscribed
  BY DEF Subscribed
<1>3. Passed' = Passed
  BY <1>2, OursAreEvents DEF Passed, Subscribed
<1>4. InTables' = InTables /\ Publications' = Publications
  BY DEF InTables, Publications, Recorded
<1>. QED
  BY <1>1, <1>2, <1>3, <1>4 DEF Feed!feedVars

\* While the scan runs on, a step subscribes to nothing new.
LEMMA SameSubscription ==
  ASSUME UNCHANGED <<watched, from>>, poll' = "off" <=> poll = "off"
  PROVE  Subscribed' = Subscribed
BY DEF Subscribed

\* The receiver's own steps pass no event.
LEMMA SamePassed ==
  ASSUME UNCHANGED <<watched, from, poll, next, queue>>
  PROVE  Subscribed' = Subscribed /\ Passed' = Passed
BY DEF Subscribed, Passed, HandedOver, MidBlock

\* The tables as the feed sees them follow the two tables.
LEMMA SameTables ==
  ASSUME UNCHANGED <<rows, links>>
  PROVE  InTables' = InTables
BY DEF InTables, Recorded

\* A commit puts the event in the tables, and no other.
LEMMA CommitStores ==
  ASSUME FInv, NEW e \in OurEvents, Commit(e)
  PROVE  InTables' = InTables \cup {e}
<1>1. e \in Events /\ Hash(e) \in Txs /\ Recorded(e)'
  BY EventData, CommitRecords DEF OurEvents, FInv, IInv
<1>2. \A f \in Events : Recorded(f) => Recorded(f)'
  BY CommitRecords DEF FInv, IInv
<1>3. ASSUME NEW f \in Events, Recorded(f)', f # e
      PROVE  Recorded(f)
  <2>1. Link(f) # Link(e)
    BY <1>1, <1>3, SameTransaction DEF Link
  <2>2. Link(f) \in links
    BY <1>3, <2>1 DEF Recorded, Commit
  <2>3. rows[Hash(f)] # NoRow
    BY <2>2 DEF FInv, RowsMatchChain, Link
  <2>. QED
    BY <2>2, <2>3 DEF Recorded
<1>. QED
  BY <1>1, <1>2, <1>3, OursAreEvents DEF InTables

\* The publisher took the event, and no other.
LEMMA TakenEmits ==
  ASSUME TypeOK, NEW e \in OurEvents, Taken(e)
  PROVE  Publications' = [Publications EXCEPT ![e] = @ + 1]
BY OursAreEvents DEF TypeOK, Taken, Publications

-----------------------------------------------------------------------------
(***************************************************************************)
(* One lemma per action.                                                   *)
(***************************************************************************)

\* Every feed starts with nothing subscribed, stored or published.
LEMMA InitMaps == Init => Feed!FeedInit
<1>. SUFFICES ASSUME Init PROVE Feed!FeedInit
  OBVIOUS
<1>1. Phase = "off" /\ Subscribed = {} /\ Passed = {} /\ held = NoEvent
  BY DEF Init, Phase, Subscribed, Passed
<1>2. InTables = {}
  BY EventData, OursAreEvents DEF Init, InTables, Recorded
<1>3. Publications = [e \in OurEvents |-> 0]
  BY OursAreEvents DEF Init, Publications
<1>. QED
  BY <1>1, <1>2, <1>3 DEF Feed!FeedInit

\* The node, clients and callers, and poll between its blocks, are not seen.
LEMMA QuietMaps ==
  ASSUME IInv, MineBlock \/ CreateAccount \/ Cancel \/ PollTip \/ EndScan \/ PollReturns
  PROVE  UNCHANGED Feed!feedVars
<1>1. UNCHANGED <<mon, watched, held, from, next, rows, links, published>>
  BY DEF MineBlock, CreateAccount, Cancel, PollTip, EndScan, PollReturns, dbVars, monVars, pollVars
<1>2. poll' = "off" <=> poll = "off"
  BY DEF MineBlock, CreateAccount, Cancel, PollTip, EndScan, PollReturns, pollVars
<1>3. \A e \in Events : HandedOver(e)' <=> HandedOver(e)
  BY QuietPasses
<1>. QED
  BY <1>1, <1>2, <1>3, Unseen

\* Neither are the fetch of a block and the saving of its height.
LEMMA BlockMaps ==
  ASSUME IInv, FetchBlock \/ SaveCursor
  PROVE  UNCHANGED Feed!feedVars
<1>1. UNCHANGED <<mon, watched, held, from, rows, links, published>>
  BY DEF FetchBlock, SaveCursor, dbVars, monVars
<1>2. poll' = "off" <=> poll = "off"
  BY DEF FetchBlock, SaveCursor
<1>3. \A e \in Events : HandedOver(e)' <=> HandedOver(e)
  BY FetchBlockPasses, SaveCursorPasses
<1>. QED
  BY <1>1, <1>2, <1>3, Unseen

\* Listing the wallets and asking for the tip halt the feed or are not seen.
LEMMA StartMaps ==
  ASSUME IInv, Boot \/ WatchTip
  PROVE  Feed!Halt \/ UNCHANGED Feed!feedVars
<1>1. poll = "off" /\ poll' = "off" /\ UNCHANGED <<held, rows, links, published>>
  BY DEF IInv, Control, Boot, WatchTip, dbVars, pollVars
<1>2. Subscribed' = Subscribed /\ Passed' = Passed
  BY <1>1 DEF Subscribed, Passed
<1>3. InTables' = InTables /\ Publications' = Publications
  BY <1>1, SameTables DEF Publications
<1>4. Phase = "off" /\ Phase' \in {"off", "halted"}
  BY DEF Boot, WatchTip, Phase
<1>. QED
  BY <1>1, <1>2, <1>3, <1>4 DEF Feed!Halt, Feed!feedVars

\* The scan begins: the feed subscribes to what is above its start.
LEMMA SubscribeMaps ==
  ASSUME IInv, WatchCursor
  PROVE  Feed!Subscribe
<1>1. poll = "off" /\ UNCHANGED <<held, rows, links, published>>
  BY DEF IInv, Control, WatchCursor, dbVars
<1>2. Phase = "off" /\ Phase' = "ready"
  BY DEF WatchCursor, Phase
<1>3. Subscribed' \in SUBSET OurEvents /\ Subscribed = {} /\ Passed = {}
  BY <1>1 DEF Subscribed, Passed
<1>4. Passed' = {}
  BY ScanBegins, OursAreEvents DEF Passed, Subscribed
<1>5. InTables' = InTables /\ Publications' = Publications
  BY <1>1, SameTables DEF Publications
<1>. QED
  BY <1>1, <1>2, <1>3, <1>4, <1>5 DEF Feed!Subscribe

\* The order of events is strict.
LEMMA PrecedesIsStrict ==
  ASSUME NEW e \in Events, NEW f \in Events, Precedes(f, e)
  PROVE  e # f /\ ~Precedes(e, f) /\ f.height <= e.height
<1>1. /\ e.height \in Nat /\ f.height \in Nat
      /\ e.height = f.height => e.index \in Nat /\ f.index \in Nat
  <2>1. PICK h \in 1..MaxHeight : e \in [height : {h}, index : DOMAIN Ledger[h], role : Roles]
    BY DEF Events
  <2>2. PICK k \in 1..MaxHeight : f \in [height : {k}, index : DOMAIN Ledger[k], role : Roles]
    BY DEF Events
  <2>3. Ledger[h] \in Seq(Txs) /\ Ledger[k] \in Seq(Txs)
    BY <2>1, <2>2, LedgerAssumption
  <2>. QED
    BY <2>1, <2>2, <2>3, HeightData
<1>. QED
  BY <1>1 DEF Precedes

\* The event handed over is the next one: those before it are of a block that
\* is passed, or no longer queued.
LEMMA TakeMaps ==
  ASSUME IInv, Deliver
  PROVE  Feed!Take
<1>1. PICK e \in queue : Earliest(e) /\ held' = e /\ queue' = queue \ {e}
  BY DEF Deliver
<1>2. /\ poll = "emit" /\ poll' = "emit" /\ mon = "recv" /\ mon' = "save"
      /\ UNCHANGED <<watched, from, next, rows, links, published>>
  BY DEF Deliver, ReceiverReady, dbVars
<1>3. e \in OurEvents /\ e \in Events /\ e.height = next /\ Address(e) \in watched
  BY <1>1, OursAreEvents DEF IInv, TypeOK, Queued
<1>4. e \in Subscribed /\ e \notin Passed
  BY <1>1, <1>2, <1>3, EventData DEF IInv, TypeOK, Heights, Subscribed, Passed, HandedOver
<1>5. Phase = "ready" /\ Phase' = "taken"
  BY <1>2 DEF Phase
<1>6. Subscribed' = Subscribed
  BY <1>2, SameSubscription
<1>7. Passed' = Passed \cup {e}
  <2>1. HandedOver(e)'
    BY <1>1, <1>2, <1>3, <1>4 DEF Subscribed, HandedOver, MidBlock
  <2>2. \A f \in Events : f # e => (HandedOver(f)' <=> HandedOver(f))
    BY <1>1, <1>2 DEF HandedOver, MidBlock
  <2>. QED
    BY <1>4, <1>6, <2>1, <2>2, OursAreEvents DEF Passed, Subscribed
<1>8. InTables' = InTables /\ Publications' = Publications
  BY <1>2, SameTables DEF Publications
<1>9. ASSUME NEW f \in Subscribed, Precedes(f, e)
      PROVE  f \in Passed
  <2>1. f \in Events /\ f.height \in 1..MaxHeight /\ next \in 1..(MaxHeight + 1)
    BY <1>9, OursAreEvents, EventData DEF Subscribed, IInv, TypeOK
  <2>2. f # e /\ ~Precedes(e, f) /\ f.height <= next
    BY <1>3, <1>9, <2>1, PrecedesIsStrict
  <2>3. f \notin queue
    BY <1>1, <2>2 DEF Earliest
  <2>4. f.height < next \/ f.height = next
    BY <2>1, <2>2, HeightData
  <2>5. HandedOver(f)
    BY <1>2, <1>9, <2>3, <2>4 DEF Subscribed, HandedOver, MidBlock
  <2>. QED
    BY <1>9, <2>5 DEF Passed
<1>10. Feed!NextInOrder(e)
  BY <1>9 DEF Feed!NextInOrder
<1>. QED
  BY <1>1, <1>4, <1>5, <1>6, <1>7, <1>8, <1>10 DEF Feed!Take

\* SaveEvent stores what was taken, or halts with or without having done so.
LEMMA StoreMaps ==
  ASSUME FInv, SaveEvent
  PROVE  Feed!Store \/ Feed!Halt
<1>1. held \in OurEvents /\ held' = held /\ UNCHANGED published
  BY DEF FInv, IInv, Control, SaveEvent
<1>2. Subscribed' = Subscribed /\ Passed' = Passed
  BY SamePassed DEF SaveEvent, pollVars
<1>3. Publications' = Publications /\ Phase = "taken"
  BY <1>1 DEF Publications, Phase, SaveEvent
<1>4. CASE Commit(held)
  <2>1. InTables' = InTables \cup {held}
    BY <1>1, <1>4, CommitStores
  <2>2. Phase' \in {"stored", "halted"}
    BY DEF SaveEvent, AfterSave, Phase
  <2>. QED
    BY <1>1, <1>2, <1>3, <2>1, <2>2 DEF Feed!Store, Feed!Halt, Feed!Stored
<1>5. CASE UNCHANGED <<rows, links>> /\ mon' = "stopped"
  <2>1. InTables' = InTables /\ Phase' = "halted"
    BY <1>5, SameTables DEF Phase
  <2>. QED
    BY <1>1, <1>2, <1>3, <2>1 DEF Feed!Halt
<1>. QED
  BY <1>4, <1>5 DEF SaveEvent, AfterSave

\* Publish publishes what was stored, or halts with or without having done so.
LEMMA EmitMaps ==
  ASSUME FInv, Publish
  PROVE  Feed!Emit \/ Feed!Halt
<1>1. held \in OurEvents /\ held' = held /\ TypeOK
  BY DEF FInv, IInv, Control, Publish
<1>2. Subscribed' = Subscribed /\ Passed' = Passed
  BY SamePassed DEF Publish, pollVars
<1>3. InTables' = InTables /\ Phase = "stored"
  BY SameTables DEF Phase, Publish, dbVars
<1>4. CASE Taken(held)
  <2>1. Publications' = [Publications EXCEPT ![held] = @ + 1]
    BY <1>1, <1>4, TakenEmits
  <2>2. Phase' \in {"ready", "halted"}
    BY DEF Publish, AfterPublish, Phase
  <2>. QED
    BY <1>1, <1>2, <1>3, <2>1, <2>2 DEF Feed!Emit, Feed!Halt, Feed!Emitted
<1>5. CASE UNCHANGED published /\ mon' = "stopped"
  <2>1. Publications' = Publications /\ Phase' = "halted"
    BY <1>5 DEF Publications, Phase
  <2>. QED
    BY <1>1, <1>2, <1>3, <2>1 DEF Feed!Halt
<1>. QED
  BY <1>4, <1>5 DEF Publish, AfterPublish

\* A loop that returns halts the feed.
LEMMA ReturnMaps ==
  ASSUME WatchReturns
  PROVE  Feed!Halt
<1>1. Subscribed' = Subscribed /\ Passed' = Passed
  BY SamePassed DEF WatchReturns, monVars, pollVars
<1>2. InTables' = InTables /\ Publications' = Publications /\ held' = held
  BY SameTables DEF WatchReturns, dbVars, Publications
<1>3. Phase = "ready" /\ Phase' = "halted"
  BY DEF WatchReturns, Phase
<1>. QED
  BY <1>1, <1>2, <1>3 DEF Feed!Halt

\* A crash keeps what was stored and published, and nothing else.
LEMMA RestartMaps ==
  ASSUME Crash
  PROVE  Feed!Restart
<1>1. Subscribed' = {} /\ Passed' = {} /\ held' = NoEvent /\ Phase' = "off"
  BY DEF Crash, Subscribed, Passed, Phase
<1>2. InTables' = InTables /\ Publications' = Publications
  BY SameTables DEF Crash, dbVars, Publications
<1>. QED
  BY <1>1, <1>2 DEF Feed!Restart

\* A step that changes nothing is not seen.
LEMMA StutterMaps ==
  ASSUME UNCHANGED vars
  PROVE  UNCHANGED Feed!feedVars
BY Unseen DEF vars, HandedOver, MidBlock

-----------------------------------------------------------------------------

\* Every step of the pipeline is one of the feed's, or is not seen there.
LEMMA NextMaps == FInv /\ [Next]_vars => [Feed!FeedNext]_(Feed!feedVars)
<1>. SUFFICES ASSUME FInv, [Next]_vars PROVE [Feed!FeedNext]_(Feed!feedVars)
  OBVIOUS
<1>1. IInv
  BY DEF FInv
<1>. QED
  BY <1>1, QuietMaps, BlockMaps, StartMaps, SubscribeMaps, TakeMaps, StoreMaps, EmitMaps, ReturnMaps,
     RestartMaps, StutterMaps
  DEF Next, Feed!FeedNext

\* Watcher.poll, the channel and MonitorService.Watch implement the feed for
\* every ledger: no gap, chain order, stored before published, and published
\* once in each life of the process.
THEOREM FeedCorrect == Spec => ImplementsFeed
<1>1. Init => Feed!FeedInit
  BY InitMaps
<1>2. FInv /\ [Next]_vars => [Feed!FeedNext]_(Feed!feedVars)
  BY NextMaps
<1>3. Spec => []FInv
  BY InductiveInvariant, RowsCorrect, PTL DEF FInv
<1>. QED
  BY <1>1, <1>2, <1>3, PTL DEF Spec, ImplementsFeed, Feed!FeedSpec

-----------------------------------------------------------------------------
(***************************************************************************)
(* How many events the cursor can leave behind, for every ledger and every *)
(* failure but one: the cursor must be readable when it is there.          *)
(***************************************************************************)

\* A process lists the accounts that were there from the start.
Listed ==
  /\ InitialOwned \subseteq owned
  /\ mon \in {"tip", "cursor"} \/ poll # "off" => InitialOwned \subseteq watched

\* What is passed is in the tables, but for the event held; also when the
\* receiver has stopped, since nothing is handed over after that.
InFlight ==
  /\ poll = "off" => held = NoEvent
  /\ held # NoEvent => HandedOver(held)
  /\ \A e \in Events : HandedOver(e) => Recorded(e) \/ e = held

\* A scan whose cursor can still be saved started no higher than the cursor.
Started ==
  /\ InitialCursor <= cursor
  /\ ctx = "live" /\ poll # "off" /\ InitialCursor # NoCursor => from <= cursor

LossInv ==
  /\ Listed /\ InFlight /\ Started
  /\ InitialCursor # NoCursor =>
       IsFiniteSet(Lost \ {held}) /\ Cardinality(Lost \ {held}) <= crashes

-----------------------------------------------------------------------------
(***************************************************************************)
(* What the count rests on.                                                *)
(***************************************************************************)

\* The accounts table only grows, and the list is taken before the scan.
LEMMA ListedKeeps == IInv /\ Listed /\ [Next]_vars => Listed'
<1>. SUFFICES ASSUME IInv, Listed, [Next]_vars PROVE Listed'
  OBVIOUS
<1>1. CASE Boot
  BY <1>1 DEF Boot, Listed, IInv, Control, dbVars, pollVars
<1>2. CASE Crash
  BY <1>2 DEF Crash, Listed, dbVars
<1>3. CASE CreateAccount
  BY <1>3 DEF CreateAccount, Listed, monVars, pollVars
<1>4. CASE WatchTip \/ WatchCursor
  BY <1>4 DEF WatchTip, WatchCursor, Listed, dbVars
<1>5. CASE /\ UNCHANGED <<owned, watched>>
           /\ mon' \in {"tip", "cursor"} => mon \in {"tip", "cursor"}
           /\ poll' = "off" <=> poll = "off"
  BY <1>5 DEF Listed
<1>. QED
  BY <1>1, <1>2, <1>3, <1>4, <1>5
  DEF Next, vars, MineBlock, Cancel, PollTip, EndScan, FetchBlock, Deliver, SaveCursor,
      PollReturns, SaveEvent, Publish, WatchReturns, AfterSave, AfterPublish, dbVars, monVars, pollVars

\* The tables forget nothing.
LEMMA RecordedStays ==
  ASSUME IInv, [Next]_vars, NEW e \in Events, Recorded(e)
  PROVE  Recorded(e)'
<1>1. CASE SaveEvent
  <2>1. held \in OurEvents /\ TypeOK
    BY <1>1 DEF IInv, Control, SaveEvent
  <2>2. CASE Commit(held)
    BY <2>1, <2>2, CommitRecords
  <2>3. CASE UNCHANGED <<rows, links>>
    BY <2>3 DEF Recorded
  <2>. QED
    BY <1>1, <2>2, <2>3 DEF SaveEvent
<1>2. CASE UNCHANGED <<rows, links>>
  BY <1>2 DEF Recorded
<1>. QED
  BY <1>1, <1>2
  DEF Next, vars, MineBlock, CreateAccount, Crash, Cancel, Boot, WatchTip, WatchCursor, PollTip,
      EndScan, FetchBlock, Deliver, SaveCursor, PollReturns, Publish, WatchReturns, dbVars

\* Only a receiver that is ready takes another event, and it has stored the
\* last one.
LEMMA InFlightKeeps == IInv /\ InFlight /\ [Next]_vars => InFlight'
<1>. SUFFICES ASSUME IInv, InFlight, [Next]_vars PROVE InFlight'
  OBVIOUS
<1>0. \A e \in Events : Recorded(e) => Recorded(e)'
  BY RecordedStays
<1>1. held = NoEvent \/ held \in Events
  BY OursAreEvents DEF IInv, TypeOK
<1>2. ASSUME held' = held, poll' = "off" <=> poll = "off",
             \A e \in Events : HandedOver(e)' <=> HandedOver(e)
      PROVE  InFlight'
  BY <1>0, <1>1, <1>2 DEF InFlight
<1>3. CASE \/ MineBlock \/ CreateAccount \/ Cancel \/ PollTip \/ EndScan \/ PollReturns
           \/ SaveEvent \/ Publish \/ WatchReturns
  <2>1. held' = held /\ (poll' = "off" <=> poll = "off")
    BY <1>3
    DEF MineBlock, CreateAccount, Cancel, PollTip, EndScan, PollReturns, SaveEvent, Publish,
        WatchReturns, monVars, pollVars
  <2>. QED
    BY <1>2, <1>3, <2>1, QuietPasses
<1>4. CASE FetchBlock \/ SaveCursor
  <2>1. held' = held /\ (poll' = "off" <=> poll = "off")
    BY <1>4 DEF FetchBlock, SaveCursor, monVars
  <2>. QED
    BY <1>2, <1>4, <2>1, FetchBlockPasses, SaveCursorPasses
<1>5. CASE Boot \/ WatchTip
  BY <1>5 DEF IInv, Control, InFlight, Boot, WatchTip, HandedOver, pollVars
<1>6. CASE WatchCursor
  <2>1. held = NoEvent /\ held' = held
    BY <1>6 DEF IInv, Control, InFlight, WatchCursor
  <2>. QED
    BY <1>6, <2>1, ScanBegins DEF InFlight
<1>7. CASE Deliver
  <2>1. PICK e \in queue : held' = e /\ queue' = queue \ {e}
    BY <1>7 DEF Deliver
  <2>2. /\ poll = "emit" /\ poll' = "emit" /\ mon = "recv"
        /\ UNCHANGED <<watched, from, next, rows, links>>
    BY <1>7 DEF Deliver, ReceiverReady, dbVars
  <2>3. e \in Events /\ e.height = next /\ Address(e) \in watched
    BY <2>1, OursAreEvents DEF IInv, TypeOK, Queued
  <2>4. HandedOver(e)'
    BY <2>1, <2>2, <2>3 DEF IInv, Heights, HandedOver, MidBlock
  <2>5. \A f \in Events : f # e => (HandedOver(f)' <=> HandedOver(f))
    BY <2>1, <2>2 DEF HandedOver, MidBlock
  <2>6. \A f \in Events : HandedOver(f) => Recorded(f)
    BY <2>2 DEF IInv, HandOff, Receiving
  <2>. QED
    BY <1>0, <2>1, <2>2, <2>4, <2>5, <2>6 DEF InFlight
<1>8. CASE Crash
  BY <1>8 DEF Crash, InFlight, HandedOver
<1>9. CASE UNCHANGED vars
  BY <1>2, <1>9 DEF vars, HandedOver, MidBlock
<1>. QED
  BY <1>3, <1>4, <1>5, <1>6, <1>7, <1>8, <1>9 DEF Next

\* With the cursor readable the scan begins at it, and saving only raises it.
LEMMA StartedKeeps ==
  ASSUME "cursorGet" \notin Faults
  PROVE  IInv /\ Started /\ [Next]_vars => Started'
<1>. SUFFICES ASSUME IInv, Started, [Next]_vars PROVE Started'
  OBVIOUS
<1>1. /\ cursor \in NoCursor..MaxHeight /\ InitialCursor \in NoCursor..MaxHeight
      /\ tip \in 0..MaxHeight /\ from \in 0..MaxHeight /\ next \in 1..(MaxHeight + 1)
  BY LedgerAssumption DEF IInv, TypeOK, NoCursor
<1>2. CASE WatchCursor
  <2>1. CASE ctx = "cancelled"
    BY <1>2, <2>1 DEF WatchCursor, Started, dbVars
  <2>2. CASE ctx = "live"
    <3>1. from' = ResumeFrom(cursor, tip) /\ cursor <= tip /\ UNCHANGED <<cursor, ctx>>
      BY <1>2, <2>2 DEF IInv, Heights, WatchCursor, Fails, dbVars
    <3>2. InitialCursor # NoCursor => cursor # NoCursor
      BY <1>1, HeightData DEF Started, NoCursor
    <3>3. InitialCursor # NoCursor => from' <= cursor
      BY <1>1, <3>1, <3>2, HeightData DEF ResumeFrom, NoCursor
    <3>. QED
      BY <3>1, <3>3 DEF Started
  <2>. QED
    BY <2>1, <2>2 DEF IInv, TypeOK
<1>3. CASE SaveCursor
  <2>1. /\ cursor' \in {cursor, next} /\ from < next /\ cursor < next
        /\ poll # "off" /\ UNCHANGED <<from, ctx>>
    BY <1>3 DEF IInv, Heights, SaveCursor, CursorAfter
  <2>. QED
    BY <1>1, <2>1, HeightData DEF Started, NoCursor
<1>4. CASE Crash
  BY <1>4 DEF Crash, Started, dbVars
<1>5. CASE Cancel
  BY <1>5 DEF Cancel, Started, dbVars
<1>6. CASE UNCHANGED <<cursor, from, ctx>> /\ (poll' = "off" <=> poll = "off")
  BY <1>6 DEF Started
<1>. QED
  BY <1>2, <1>3, <1>4, <1>5, <1>6
  DEF Next, vars, MineBlock, CreateAccount, Boot, WatchTip, PollTip, EndScan, FetchBlock,
      Deliver, PollReturns, SaveEvent, Publish, WatchReturns, dbVars, pollVars

-----------------------------------------------------------------------------
(***************************************************************************)
(* The count.                                                              *)
(***************************************************************************)

\* The one step that claims a block as scanned claims no event that is not
\* stored or held: what is between the old height and the new was passed.
LEMMA SaveCursorLoses ==
  ASSUME IInv, Listed, InFlight, Started, InitialCursor # NoCursor, SaveCursor
  PROVE  Lost' \subseteq Lost \cup {held}
<1>. SUFFICES ASSUME NEW e \in Lost', e # held PROVE e \in Lost
  OBVIOUS
<1>1. /\ e \in Events /\ InitialCursor < e.height /\ e.height <= cursor'
      /\ Address(e) \in InitialOwned /\ ~Recorded(e)
      /\ poll = "emit" /\ queue = {}
  BY DEF Lost, Recorded, SaveCursor, BlockDone
<1>2. CASE cursor' = cursor
  BY <1>1, <1>2 DEF Lost
<1>3. CASE ctx = "live" /\ cursor' = next
  <2>1. e.height \in 1..MaxHeight /\ cursor \in NoCursor..MaxHeight
        /\ from \in 0..MaxHeight /\ next \in 1..(MaxHeight + 1)
    BY <1>1, EventData DEF IInv, TypeOK
  <2>2. ~HandedOver(e)
    BY <1>1 DEF InFlight
  <2>3. Address(e) \in watched /\ from <= cursor
    BY <1>1, <1>3 DEF Listed, Started
  <2>4. ~(from < e.height)
    BY <1>1, <1>3, <2>1, <2>2, <2>3, HeightData DEF HandedOver, MidBlock
  <2>5. e.height <= cursor
    BY <2>1, <2>3, <2>4, HeightData DEF NoCursor
  <2>. QED
    BY <1>1, <2>5 DEF Lost
<1>. QED
  BY <1>2, <1>3 DEF SaveCursor, Succeeds, CursorAfter

\* No other step claims more, and stored events stay stored.
LEMMA OthersLose ==
  ASSUME IInv, [Next]_vars, ~SaveCursor
  PROVE  Lost' \subseteq Lost
<1>1. cursor' = cursor
  BY DEF Next, vars, MineBlock, CreateAccount, Crash, Cancel, Boot, WatchTip, WatchCursor, PollTip,
         EndScan, FetchBlock, Deliver, PollReturns, SaveEvent, Publish, WatchReturns, dbVars
<1>2. \A e \in Events : Recorded(e) => Recorded(e)'
  BY RecordedStays
<1>. QED
  BY <1>1, <1>2 DEF Lost

\* A step other than a crash loses nothing beyond the event held; a new event
\* is held only when the one before it is stored.
LEMMA StepLoses ==
  ASSUME IInv, LossInv, [Next]_vars, ~Crash, InitialCursor # NoCursor
  PROVE  Lost' \ {held'} \subseteq Lost \ {held} /\ crashes' = crashes
<1>1. crashes' = crashes
  BY DEF Next, vars, MineBlock, CreateAccount, Cancel, Boot, WatchTip, WatchCursor, PollTip, EndScan,
         FetchBlock, Deliver, SaveCursor, PollReturns, SaveEvent, Publish, WatchReturns
<1>2. CASE SaveCursor
  <2>1. held' = held
    BY <1>2 DEF SaveCursor, monVars
  <2>. QED
    BY <1>1, <1>2, <2>1, SaveCursorLoses DEF LossInv
<1>3. CASE Deliver
  <2>1. Lost' \subseteq Lost
    BY <1>3, OthersLose DEF Deliver, SaveCursor, BlockDone
  <2>2. held \notin Lost
    <3>1. CASE held = NoEvent
      BY <3>1, EventAssumption DEF Lost
    <3>2. CASE held # NoEvent
      <4>1. held \in Events /\ HandedOver(held) /\ mon = "recv"
        BY <1>3, <3>2, OursAreEvents DEF IInv, TypeOK, LossInv, InFlight, Deliver, ReceiverReady
      <4>2. Recorded(held)
        BY <4>1 DEF IInv, HandOff, Receiving
      <4>. QED
        BY <4>2 DEF Lost
    <3>. QED
      BY <3>1, <3>2
  <2>. QED
    BY <1>1, <2>1, <2>2
<1>4. CASE ~SaveCursor /\ ~Deliver
  <2>1. Lost' \subseteq Lost
    BY <1>4, OthersLose
  <2>2. held' = held
    BY <1>4
    DEF Next, vars, MineBlock, CreateAccount, Cancel, Boot, WatchTip, WatchCursor, PollTip, EndScan,
        FetchBlock, PollReturns, SaveEvent, Publish, WatchReturns, monVars
  <2>. QED
    BY <1>1, <2>1, <2>2
<1>. QED
  BY <1>2, <1>3, <1>4

\* A subset of a counted set is counted by as much.
LEMMA CountSubset ==
  ASSUME NEW S, NEW T \in SUBSET S, NEW n \in Nat, IsFiniteSet(S), Cardinality(S) <= n
  PROVE  IsFiniteSet(T) /\ Cardinality(T) <= n
<1>1. IsFiniteSet(T) /\ Cardinality(T) <= Cardinality(S)
  BY FS_Subset
<1>2. Cardinality(T) \in Nat /\ Cardinality(S) \in Nat
  BY <1>1, FS_CardinalityType
<1>. QED
  BY <1>1, <1>2

\* Every step keeps the count.
LEMMA LossKeeps ==
  ASSUME "cursorGet" \notin Faults
  PROVE  IInv /\ LossInv /\ [Next]_vars => LossInv'
<1>. SUFFICES ASSUME IInv, LossInv, [Next]_vars PROVE LossInv'
  OBVIOUS
<1>1. (Listed /\ InFlight /\ Started)'
  BY ListedKeeps, InFlightKeeps, StartedKeeps DEF LossInv
<1>2. ASSUME InitialCursor # NoCursor
      PROVE  (IsFiniteSet(Lost \ {held}) /\ Cardinality(Lost \ {held}) <= crashes)'
  <2>1. /\ IsFiniteSet(Lost \ {held}) /\ Cardinality(Lost \ {held}) <= crashes
        /\ crashes \in Nat
    BY <1>2, BoundAssumption DEF LossInv, IInv, TypeOK
  <2>2. CASE ~Crash
    <3>1. Lost' \ {held'} \in SUBSET (Lost \ {held}) /\ crashes' = crashes
      BY <1>2, <2>2, StepLoses
    <3>. QED
      BY <2>1, <3>1, CountSubset
  <2>3. CASE Crash
    <3>1. Lost' \subseteq Lost /\ crashes' = crashes + 1
      BY <2>3, OthersLose DEF Crash, SaveCursor, dbVars, Lost, Recorded
    <3>. DEFINE S == (Lost \ {held}) \cup {held}
    <3>2. IsFiniteSet(S) /\ Cardinality(S) <= crashes + 1
      <4>1. /\ IsFiniteSet(S)
            /\ Cardinality(S) = IF held \in Lost \ {held} THEN Cardinality(Lost \ {held})
                                                          ELSE Cardinality(Lost \ {held}) + 1
        BY <2>1, FS_AddElement
      <4>2. Cardinality(Lost \ {held}) \in Nat
        BY <2>1, FS_CardinalityType
      <4>. QED
        BY <2>1, <4>1, <4>2
    <3>3. Lost' \ {held'} \in SUBSET S
      BY <3>1
    <3>. HIDE DEF S
    <3>. QED
      BY <2>1, <3>1, <3>2, <3>3, CountSubset
  <2>. QED
    BY <2>2, <2>3
<1>. QED
  BY <1>1, <1>2 DEF LossInv

\* At the start nothing is claimed that was not claimed before.
LEMMA InitLoss == Init => LossInv
<1>. SUFFICES ASSUME Init PROVE LossInv
  OBVIOUS
<1>1. Listed /\ InFlight
  BY DEF Init, Listed, InFlight, HandedOver
<1>2. Started
  BY LedgerAssumption DEF Init, Started, NoCursor
<1>3. Lost = {}
  BY EventData, LedgerAssumption DEF Init, Lost, NoCursor
<1>4. IsFiniteSet({}) /\ Cardinality({}) = 0
  BY FS_EmptySet
<1>. QED
  BY <1>1, <1>2, <1>3, <1>4 DEF Init, LossInv

\* As long as chain_cursors can be read, each life of the process leaves at
\* most one event behind for good, whatever other calls fail, whether or not
\* they took effect, and wherever the process dies.
THEOREM LossCorrect ==
  ASSUME "cursorGet" \notin Faults
  PROVE  Spec => []LossBound
<1>1. IInv /\ LossInv /\ [Next]_vars => LossInv'
  BY LossKeeps
<1>2. LossInv => LossBound
  BY DEF LossInv, LossBound
<1>. QED
  BY <1>1, <1>2, InitLoss, InductiveInvariant, PTL DEF Spec

-----------------------------------------------------------------------------
(***************************************************************************)
(* The order in which events are first published, over all lives of the    *)
(* process.  Within a life it is the order of the scan; what one life has   *)
(* left out and gone past is below the start of every later one.           *)
(***************************************************************************)

Working == mon \in {"save", "publish"}

\* What is published, or worked on, the node has; and a process that starts has
\* asked the node since.
Mined ==
  /\ \A f \in Events : published[f] > 0 => f.height <= height /\ (mon = "cursor" => f.height <= tip)
  /\ Working => held.height <= height

\* A scan started no higher than the saved height, or is cancelled before it
\* takes any event.
Floor ==
  poll # "off" /\ cursor # NoCursor =>
    from <= cursor \/ (ctx = "cancelled" /\ queue = {} /\ ~Working)

\* While the receiver lives, what is passed is published but for the event it works
\* on, and what is still queued comes after that one.
InTurn ==
  /\ Receiving => \A e \in Events : HandedOver(e) => published[e] > 0 \/ (Working /\ e = held)
  /\ Working => \A g \in queue : Precedes(held, g)

\* An event that was not published before a later one is below the scan, and
\* below the saved height where the next scan starts.
LeftOut ==
  \A e \in OurEvents, f \in Events :
    published[e] = 0 /\ published[f] > 0 /\ Precedes(e, f) =>
      /\ cursor # NoCursor => e.height <= cursor
      /\ poll # "off" => e.height <= from

OrderInv == Listed /\ Mined /\ Floor /\ InTurn /\ LeftOut

\* The types the parts are about.
LEMMA OrderTypes ==
  ASSUME IInv
  PROVE  /\ height \in Nat /\ tip \in Nat /\ from \in Nat /\ next \in Nat /\ cursor \in Int
         /\ published \in [Events -> Nat]
         /\ held \in Events \cup {NoEvent}
         /\ Working => held \in OurEvents /\ held \in Events /\ HandedOver(held)
         /\ \A e \in Events : e.height \in Nat
BY HeightData, EventData, OursAreEvents DEF IInv, TypeOK, Control, Holding, Working, NoCursor

\* Only Publish publishes, the event that was held.
LEMMA OnlyPublish ==
  ASSUME [Next]_vars, ~Publish
  PROVE  published' = published
BY DEF Next, vars, MineBlock, CreateAccount, Crash, Cancel, Boot, WatchTip, WatchCursor, PollTip,
       EndScan, FetchBlock, Deliver, SaveCursor, PollReturns, SaveEvent, WatchReturns

\* What Publish does to the counts.
LEMMA PublishCounts ==
  ASSUME IInv, Publish
  PROVE  /\ Working /\ UNCHANGED <<cursor, height, tip, poll, from, next, queue, watched, held, ctx>>
         /\ mon' \in {"recv", "stopped"}
         /\ \A e \in Events : published'[e] \in Nat /\ published'[e] >= published[e]
         /\ \A e \in Events : e # held => published'[e] = published[e]
         /\ mon' = "recv" => published'[held] > 0
<1>1. /\ Working /\ UNCHANGED <<cursor, height, tip, poll, from, next, queue, watched, held, ctx>>
      /\ mon' \in {"recv", "stopped"}
  BY DEF Publish, Working, AfterPublish, nodeVars, dbVars, pollVars
<1>2. held \in Events /\ published \in [Events -> Nat]
  BY <1>1, OrderTypes
<1>3. \/ published' = [published EXCEPT ![held] = @ + 1]
      \/ published' = published /\ mon' # "recv"
  BY DEF Publish, Taken, AfterPublish
<1>. QED
  BY <1>1, <1>2, <1>3

\* The node only grows, and what is handed over was in a block of it.
LEMMA MinedKeeps == IInv /\ Mined /\ [Next]_vars => Mined'
<1>. SUFFICES ASSUME IInv, Mined, [Next]_vars PROVE Mined'
  OBVIOUS
<1>1. CASE Publish
  <2>1. mon' \notin {"save", "publish", "cursor"} /\ height' = height /\ held.height <= height
    BY <1>1, PublishCounts DEF Mined
  <2>2. \A f \in Events : published'[f] > 0 => f = held \/ published[f] > 0
    BY <1>1, PublishCounts
  <2>. QED
    BY <2>1, <2>2 DEF Mined, Working
<1>2. CASE WatchTip
  <2>1. height' = height /\ ~Working' /\ published' = published /\ (mon' = "cursor" => tip' = height)
    BY <1>2 DEF WatchTip, Working, nodeVars
  <2>. QED
    BY <2>1 DEF Mined
<1>3. CASE Deliver
  <2>1. held' \in queue /\ height' = height /\ published' = published /\ mon' = "save" /\ tip' = tip
    BY <1>3 DEF Deliver, nodeVars
  <2>2. held'.height = next /\ next <= tip /\ tip <= height
    BY <1>3, <2>1 DEF IInv, Queued, Control, Heights, Deliver
  <2>. QED
    BY <2>1, <2>2, OrderTypes DEF Mined, Working
<1>4. CASE MineBlock
  <2>1. height' = height + 1 /\ UNCHANGED <<published, mon, held, tip>>
    BY <1>4 DEF MineBlock, monVars, pollVars
  <2>. QED
    BY <2>1, OrderTypes DEF Mined, Working
<1>5. CASE /\ UNCHANGED <<height, published>>
           /\ mon' = "cursor" => mon = "cursor" /\ tip' = tip
           /\ Working' => Working /\ held' = held
  BY <1>5 DEF Mined
<1>6. CASE Boot \/ WatchCursor \/ SaveEvent \/ WatchReturns \/ Crash
  BY <1>5, <1>6 DEF Crash, Boot, WatchCursor, SaveEvent, WatchReturns, AfterSave, nodeVars, dbVars, pollVars, Working
<1>7. CASE CreateAccount \/ Cancel \/ EndScan \/ FetchBlock \/ SaveCursor \/ PollReturns \/ UNCHANGED vars
  BY <1>5, <1>7
  DEF vars, CreateAccount, Cancel, EndScan, FetchBlock, SaveCursor, PollReturns, nodeVars, dbVars, monVars, pollVars,
      Working
<1>8. CASE PollTip
  <2>1. mon # "cursor"
    BY <1>8 DEF IInv, Control, PollTip
  <2>. QED
    BY <1>5, <1>8, <2>1 DEF PollTip, nodeVars, monVars, Working
<1>. QED
  BY <1>1, <1>2, <1>3, <1>4, <1>6, <1>7, <1>8 DEF Next

\* A cursor that can be read is where the scan starts; only a cancel makes its read
\* fail, and then every fetch fails too.
LEMMA FloorKeeps ==
  ASSUME "cursorGet" \notin Faults, IInv, Floor, [Next]_vars
  PROVE  Floor'
<1>0. cursor \in Int /\ tip \in Nat /\ from \in Nat /\ next \in Nat
  BY OrderTypes
<1>1. CASE WatchCursor
  <2>1. /\ cursor <= tip /\ cursor' = cursor /\ ctx' = ctx /\ queue' = {} /\ ~Working'
        /\ from' = ResumeFrom(cursor, tip) \/ ctx = "cancelled"
    BY <1>1 DEF IInv, Heights, Control, WatchCursor, Fails, dbVars, Working
  <2>2. cursor # NoCursor /\ from' = ResumeFrom(cursor, tip) => from' <= cursor
    BY <1>0, <2>1 DEF ResumeFrom
  <2>. QED
    BY <2>1, <2>2 DEF Floor
<1>2. CASE SaveCursor
  <2>1. /\ poll # "off" /\ from < next /\ from' = from /\ ctx' = ctx /\ queue' = queue /\ mon' = mon
        /\ cursor' = next \/ cursor' = cursor
    BY <1>2 DEF IInv, Heights, SaveCursor, CursorAfter, monVars
  <2>. QED
    BY <1>0, <2>1 DEF Floor, Working
<1>3. CASE Crash
  BY <1>3 DEF Crash, Floor
<1>4. CASE Deliver
  BY <1>4 DEF Deliver, Floor, dbVars
<1>5. CASE FetchBlock
  <2>1. ctx' = ctx /\ from' = from /\ cursor' = cursor /\ mon' = mon /\ poll # "off"
    BY <1>5 DEF FetchBlock, dbVars, monVars
  <2>2. ctx = "cancelled" => queue' = queue
    BY <1>5 DEF FetchBlock, Succeeds
  <2>. QED
    BY <2>1, <2>2 DEF Floor, Working
<1>6. CASE /\ UNCHANGED <<cursor, from, queue>> /\ (poll' = "off" <=> poll = "off")
           /\ ctx = "cancelled" => ctx' = "cancelled"
           /\ Working' => Working
  BY <1>6 DEF Floor
<1>7. CASE \/ MineBlock \/ CreateAccount \/ Cancel \/ Boot \/ WatchTip \/ PollTip \/ EndScan \/ PollReturns
           \/ UNCHANGED vars
  BY <1>6, <1>7
  DEF vars, MineBlock, CreateAccount, Cancel, Boot, WatchTip, PollTip, EndScan, PollReturns,
      dbVars, monVars, pollVars, Working
<1>8. CASE SaveEvent \/ Publish \/ WatchReturns
  BY <1>6, <1>8 DEF SaveEvent, Publish, WatchReturns, AfterSave, AfterPublish, dbVars, pollVars, Working
<1>. QED
  BY <1>1, <1>2, <1>3, <1>4, <1>5, <1>7, <1>8 DEF Next

\* The receiver takes the next event only when it has published the last one.
LEMMA InTurnKeeps == IInv /\ InTurn /\ [Next]_vars => InTurn'
<1>. SUFFICES ASSUME IInv, InTurn, [Next]_vars PROVE InTurn'
  OBVIOUS
<1>1. ASSUME \A e \in Events : HandedOver(e)' <=> HandedOver(e),
             UNCHANGED <<published, held>>, Receiving' => Receiving, Working' <=> Working, queue' = queue
      PROVE  InTurn'
  BY <1>1 DEF InTurn
<1>2. CASE MineBlock \/ CreateAccount \/ Cancel \/ PollTip \/ EndScan \/ PollReturns
  <2>1. UNCHANGED <<published, held, mon, queue>>
    BY <1>2 DEF MineBlock, CreateAccount, Cancel, PollTip, EndScan, PollReturns, monVars, pollVars
  <2>. QED
    BY <1>1, <1>2, <2>1, QuietPasses DEF Receiving, Working
<1>3. CASE SaveEvent \/ WatchReturns
  <2>1. /\ UNCHANGED <<published, held, queue>> /\ (Receiving' => Receiving)
        /\ Working' => Working
        /\ Receiving' => (Working' <=> Working)
    BY <1>3 DEF SaveEvent, WatchReturns, AfterSave, pollVars, Receiving, Working
  <2>2. \A e \in Events : HandedOver(e)' <=> HandedOver(e)
    BY <1>3, QuietPasses
  <2>. QED
    BY <2>1, <2>2 DEF InTurn
<1>4. CASE Publish
  <2>1. \A e \in Events : HandedOver(e)' <=> HandedOver(e)
    BY <1>4, QuietPasses
  <2>2. ~Working' /\ (Receiving' => mon' = "recv") /\ Receiving
    BY <1>4, PublishCounts DEF Working, Receiving
  <2>3. ASSUME mon' = "recv", NEW e \in Events, HandedOver(e) PROVE published'[e] > 0
    <3>1. published[e] > 0 \/ e = held
      BY <2>2, <2>3 DEF InTurn
    <3>2. published[e] \in Nat
      BY OrderTypes
    <3>. QED
      BY <1>4, <2>3, <3>1, <3>2, PublishCounts
  <2>. QED
    BY <2>1, <2>2, <2>3 DEF InTurn
<1>5. CASE FetchBlock
  <2>1. UNCHANGED <<published, held, mon>> /\ poll = "scan"
    BY <1>5 DEF FetchBlock, monVars
  <2>2. \A e \in Events : HandedOver(e)' <=> HandedOver(e)
    BY <1>5, FetchBlockPasses
  <2>3. ASSUME Working, NEW g \in queue' PROVE Precedes(held, g)
    <3>1. held.height < next
      BY <2>1, <2>3, OrderTypes DEF HandedOver, MidBlock
    <3>2. queue' = MatchTransactions(next, watched) \/ queue' = {}
      BY <1>5 DEF FetchBlock, IInv, Control
    <3>3. g.height = next
      BY <2>3, <3>2 DEF MatchTransactions
    <3>. QED
      BY <3>1, <3>3 DEF Precedes
  <2>. QED
    BY <2>1, <2>2, <2>3 DEF InTurn, Receiving, Working
<1>6. CASE SaveCursor
  <2>1. UNCHANGED <<published, held, mon, queue>>
    BY <1>6 DEF SaveCursor, monVars
  <2>. QED
    BY <1>1, <1>6, <2>1, SaveCursorPasses DEF Receiving, Working
<1>7. CASE Deliver
  <2>1. PICK e \in queue : Earliest(e) /\ held' = e /\ queue' = queue \ {e}
    BY <1>7 DEF Deliver
  <2>2. mon = "recv" /\ mon' = "save" /\ published' = published
    BY <1>7 DEF Deliver, ReceiverReady
  <2>3. \A f \in Events : f # e => (HandedOver(f)' <=> HandedOver(f))
    BY <1>7, <2>1 DEF Deliver, HandedOver, MidBlock
  <2>4. \A g \in queue' : Precedes(held', g)
    BY <2>1 DEF Earliest
  <2>. QED
    BY <2>1, <2>2, <2>3, <2>4 DEF InTurn, Receiving, Working
<1>8. CASE WatchCursor
  <2>1. ~Working'
    BY <1>8 DEF WatchCursor, Working
  <2>. QED
    BY <1>8, <2>1, ScanBegins DEF InTurn
<1>9. CASE Crash \/ Boot \/ WatchTip
  BY <1>9 DEF Crash, Boot, WatchTip, InTurn, Receiving, Working
<1>10. CASE UNCHANGED vars
  BY <1>1, <1>10 DEF vars, HandedOver, MidBlock, Receiving, Working
<1>. QED
  BY <1>2, <1>3, <1>4, <1>5, <1>6, <1>7, <1>8, <1>9, <1>10 DEF Next

\* While it works on an event, every earlier one above the start is passed.
LEMMA EarlierPassed ==
  ASSUME IInv, InTurn, Working, watched = Accounts, NEW e \in OurEvents, Precedes(e, held), from < e.height
  PROVE  HandedOver(e)
<1>1. /\ held \in Events /\ HandedOver(held) /\ e \in Events /\ Address(e) \in watched
      /\ next \in Nat /\ e.height \in Nat /\ held.height \in Nat
  BY OrderTypes DEF OurEvents
<1>2. e.height <= held.height /\ ~Precedes(held, e)
  BY <1>1, PrecedesIsStrict
<1>3. e \notin queue
  BY <1>2 DEF InTurn
<1>. QED
  BY <1>1, <1>2, <1>3 DEF HandedOver

\* A scan starts at or above all that was left out: at the saved height, or at the
\* node's, which has everything that was ever published.
LEMMA LeftOutKeeps ==
  ASSUME InitialOwned = Accounts, IInv, OrderInv, [Next]_vars
  PROVE  LeftOut'
<1>0. /\ cursor \in Int /\ tip \in Nat /\ from \in Nat /\ next \in Nat
      /\ published \in [Events -> Nat] /\ OurEvents \subseteq Events /\ \A e \in Events : e.height \in Nat
  BY OrderTypes, OursAreEvents
<1>1. CASE Publish
  <2>1. /\ Working /\ HandedOver(held) /\ held \in Events
        /\ UNCHANGED <<cursor, poll, from>>
    BY <1>1, PublishCounts, OrderTypes
  <2>2. poll # "off" /\ watched = Accounts /\ Receiving
    BY <2>1 DEF HandedOver, OrderInv, Listed, IInv, TypeOK, Working, Receiving
  <2>3. SUFFICES ASSUME NEW e \in OurEvents, NEW f \in Events, published'[e] = 0, published'[f] > 0, Precedes(e, f)
                 PROVE  (cursor # NoCursor => e.height <= cursor) /\ e.height <= from
    BY <2>1 DEF LeftOut
  <2>4. published[e] = 0
    BY <1>0, <1>1, <2>3, PublishCounts
  <2>5. CASE published[f] > 0
    BY <2>2, <2>3, <2>4, <2>5 DEF OrderInv, LeftOut
  <2>6. CASE ~(published[f] > 0)
    <3>1. f = held
      BY <1>0, <1>1, <2>3, <2>6, PublishCounts
    <3>2. e # held
      BY <1>0, <2>3, <3>1, PrecedesIsStrict
    <3>3. ~HandedOver(e)
      BY <1>0, <2>2, <2>4, <3>2 DEF OrderInv, InTurn
    <3>4. ~(from < e.height)
      BY <2>1, <2>2, <2>3, <3>1, <3>3, EarlierPassed DEF OrderInv
    <3>5. cursor # NoCursor => from <= cursor
      BY <2>1, <2>2 DEF OrderInv, Floor
    <3>. QED
      BY <1>0, <3>4, <3>5
  <2>. QED
    BY <2>5, <2>6
<1>2. ASSUME published' = published, NEW e \in OurEvents, NEW f \in Events,
             published'[e] = 0, published'[f] > 0, Precedes(e, f)
      PROVE  /\ cursor # NoCursor => e.height <= cursor
             /\ poll # "off" => e.height <= from
             /\ mon = "cursor" => e.height <= tip
  <2>1. f.height <= tip \/ mon # "cursor"
    BY <1>2 DEF OrderInv, Mined
  <2>2. e.height <= f.height
    BY <1>0, <1>2, PrecedesIsStrict
  <2>. QED
    BY <1>0, <1>2, <2>1, <2>2 DEF OrderInv, LeftOut
<1>3. CASE WatchCursor
  <2>1. mon = "cursor" /\ cursor' = cursor /\ published' = published
    BY <1>3 DEF WatchCursor, dbVars
  <2>2. from' = tip \/ (from' = cursor /\ cursor # NoCursor)
    BY <1>3 DEF WatchCursor, ResumeFrom, ResumeBlind
  <2>. QED
    BY <1>2, <2>1, <2>2 DEF LeftOut
<1>4. CASE SaveCursor
  <2>1. /\ poll # "off" /\ from < next /\ from' = from /\ published' = published
        /\ cursor' = next \/ cursor' = cursor
    BY <1>4 DEF IInv, Heights, SaveCursor, CursorAfter
  <2>. QED
    BY <1>0, <1>2, <2>1 DEF LeftOut
<1>5. CASE Crash
  BY <1>2, <1>5 DEF Crash, LeftOut, dbVars
<1>6. CASE UNCHANGED <<published, cursor, from>> /\ (poll' = "off" <=> poll = "off")
  BY <1>2, <1>6 DEF LeftOut
<1>7. CASE \/ MineBlock \/ CreateAccount \/ Cancel \/ Boot \/ WatchTip \/ PollTip \/ EndScan \/ PollReturns
           \/ FetchBlock \/ Deliver \/ SaveEvent \/ WatchReturns \/ UNCHANGED vars
  BY <1>6, <1>7
  DEF vars, MineBlock, CreateAccount, Cancel, Boot, WatchTip, PollTip, EndScan, PollReturns,
      FetchBlock, Deliver, SaveEvent, WatchReturns, dbVars, pollVars
<1>. QED
  BY <1>1, <1>3, <1>4, <1>5, <1>7 DEF Next

\* Nothing is published when the history starts.
LEMMA InitOrder == Init => OrderInv
<1>. SUFFICES ASSUME Init PROVE OrderInv
  OBVIOUS
<1>1. \A e \in Events : published[e] = 0
  BY DEF Init
<1>2. mon = "down" /\ poll = "off" /\ owned = InitialOwned
  BY DEF Init
<1>3. Mined /\ LeftOut
  BY <1>1, <1>2, OursAreEvents DEF Mined, LeftOut, Working
<1>. QED
  BY <1>2, <1>3 DEF OrderInv, Listed, Floor, InTurn, Receiving, Working

\* With the accounts unchanged and chain_cursors readable, a consumer that drops
\* duplicates gets the events in the order of the chain, over any number of lives of
\* the process, failing calls and cancels: an event that a life has not published is
\* published in a later one only if nothing after it was.
THEOREM PublishOrderCorrect ==
  ASSUME InitialOwned = Accounts, "cursorGet" \notin Faults
  PROVE  Spec => PublishOrder
<1>1. IInv /\ OrderInv /\ [Next]_vars => OrderInv'
  BY ListedKeeps, MinedKeeps, FloorKeeps, InTurnKeeps, LeftOutKeeps DEF OrderInv
<1>2. IInv /\ OrderInv /\ [Next]_vars =>
        [\A e \in Events :
           published[e] = 0 /\ published'[e] = 1 =>
             \A f \in Events : published[f] > 0 => ~Precedes(e, f)]_vars
  <2>1. SUFFICES ASSUME IInv, OrderInv, [Next]_vars, NEW e \in Events, NEW f \in Events,
                        published[e] = 0, published'[e] = 1, published[f] > 0, Precedes(e, f)
                 PROVE  FALSE
    OBVIOUS
  <2>2. Publish
    BY <2>1, OnlyPublish
  <2>3. e = held /\ Working
    BY <2>1, <2>2, PublishCounts
  <2>4. e \in OurEvents /\ poll # "off" /\ from < e.height
    BY <2>1, <2>3, OrderTypes DEF HandedOver
  <2>5. e.height <= from
    BY <2>1, <2>4 DEF OrderInv, LeftOut
  <2>. QED
    BY <2>1, <2>4, <2>5, OrderTypes
<1>. QED
  BY <1>1, <1>2, InitOrder, InductiveInvariant, PTL DEF Spec, PublishOrder
================================================================================
