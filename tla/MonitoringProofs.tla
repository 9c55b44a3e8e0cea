--------------------------- MODULE MonitoringProofs ---------------------------
(***************************************************************************)
(* Proofs about Monitoring for every ledger, every set of accounts and     *)
(* every bound.  One inductive invariant carries them all: its parts are   *)
(* below, and each action of Next keeps it.                                *)
(***************************************************************************)
EXTENDS Monitoring, TLAPS

\* Which goroutine exists, and what it holds, by where MonitorService is.
Control ==
  /\ mon \in {"down", "tip", "cursor"} => poll = "off"
  /\ Receiving => poll # "off"
  /\ mon \in {"save", "publish"} => held \in OurEvents
  /\ poll = "emit" => next <= tip
  /\ poll \in {"off", "idle", "scan"} => queue = {}

\* Every height known to the process or saved by it is a height of the node.
Heights ==
  /\ cursor <= height
  /\ tip <= height
  /\ from < next
  /\ mon = "cursor" => cursor <= tip
  /\ poll # "off" => cursor < next

\* What is queued is of the block being sent and of a watched address.
Queued == \A e \in queue : e.height = next /\ Address(e) \in watched

\* What MonitorService works on came from this scan, and is in the tables by
\* the time it is published.
Holding ==
  /\ mon \in {"save", "publish"} => HandedOver(held)
  /\ mon = "publish" => Recorded(held)

\* The event is past the loop of this process.
Finished(e) == HandedOver(e) /\ ~(mon \in {"save", "publish"} /\ e = held)

\* A process adds one publication of an event, and only by finishing with it.
Counted ==
  \A e \in Events : published[e] <= crashes \/ (published[e] = crashes + 1 /\ Finished(e))

IInv ==
  /\ TypeOK /\ Control /\ Heights /\ Queued /\ Holding
  /\ HandOff /\ PublishedIsRecorded /\ Counted

-----------------------------------------------------------------------------
(***************************************************************************)
(* Lemmas about the data.                                                  *)
(***************************************************************************)

\* An event's transaction is a transaction and its sides are addresses.
LEMMA EventData ==
  ASSUME NEW e \in Events
  PROVE  /\ e.height \in 1..MaxHeight
         /\ e.role \in Roles
         /\ Hash(e) \in Txs
         /\ Address(e) \in Accounts \cup Strangers \cup {NoAddress}
         /\ Counterparty(e) \in Accounts \cup Strangers \cup {NoAddress}
<1>1. PICK h \in 1..MaxHeight : e \in [height : {h}, index : DOMAIN Ledger[h], role : Roles]
  BY DEF Events
<1>2. e.height = h /\ e.index \in DOMAIN Ledger[h] /\ e.role \in Roles
  BY <1>1
<1>3. Ledger[h] \in Seq(Txs)
  BY <1>1, LedgerAssumption
<1>4. Hash(e) \in Txs
  BY <1>2, <1>3 DEF Hash
<1>. QED
  BY <1>1, <1>2, <1>4, AddressAssumption DEF Address, Counterparty

\* The bound on heights is a number.
LEMMA HeightData == MaxHeight \in Nat
BY LedgerAssumption

\* What SaveEvent writes fits the tables.
LEMMA RowData ==
  ASSUME NEW e \in Events, NEW row \in Row \cup {NoRow}
  PROVE  Upsert(row, e) \in Row
<1>1. NewRow(e) \in Row
  BY EventData DEF NewRow, Row, StatusOf
<1>2. CASE row = NoRow
  BY <1>1, <1>2 DEF Upsert
<1>3. CASE row \in Row
  BY <1>1, <1>3, EventData DEF Upsert, Row, StatusOf
<1>. QED
  BY <1>2, <1>3

\* MatchTransactions gives events of the block and of the addresses asked for.
LEMMA MatchData ==
  ASSUME NEW n, NEW addrs \in SUBSET Accounts, NEW e
  PROVE  e \in MatchTransactions(n, addrs)
           <=> e \in OurEvents /\ e.height = n /\ Address(e) \in addrs
BY DEF MatchTransactions, OurEvents

\* Events of our accounts are events of the chain.
LEMMA OursAreEvents == OurEvents \subseteq Events
BY DEF OurEvents

-----------------------------------------------------------------------------

\* The invariant holds of every history a process can start from.
LEMMA InitIInv == Init => IInv
<1>. SUFFICES ASSUME Init PROVE IInv
  OBVIOUS
<1>1. TypeOK
  BY AddressAssumption, LedgerAssumption, BoundAssumption
  DEF Init, TypeOK, MonStates, PollStates, NoCursor
<1>2. Control /\ Heights /\ Queued /\ Holding
  BY LedgerAssumption
  DEF Init, Control, Heights, Queued, Holding, Receiving, NoCursor
<1>3. HandOff /\ PublishedIsRecorded /\ Counted
  BY DEF Init, HandOff, PublishedIsRecorded, Counted, Receiving
<1>. QED
  BY <1>1, <1>2, <1>3 DEF IInv

-----------------------------------------------------------------------------
(***************************************************************************)
(* One lemma per action.  A lemma names the parts its action can disturb;  *)
(* the rest only mentions variables the action leaves alone.               *)
(***************************************************************************)

\* A new block is beyond every scan: nothing the pipeline knows changes.
LEMMA MineBlockKeeps == IInv /\ MineBlock => IInv'
<1>. SUFFICES ASSUME IInv, MineBlock PROVE IInv'
  OBVIOUS
<1>. USE DEF IInv, MineBlock, dbVars, monVars, pollVars
<1>1. TypeOK' /\ Heights'
  BY HeightData DEF TypeOK, Heights, NoCursor
<1>2. (Control /\ Queued /\ Holding)'
  BY DEF Control, Queued, Holding, Receiving, HandedOver, MidBlock, Recorded
<1>3. (HandOff /\ PublishedIsRecorded /\ Counted)'
  BY DEF HandOff, PublishedIsRecorded, Counted, Finished, Receiving, HandedOver, MidBlock, Recorded
<1>. QED
  BY <1>1, <1>2, <1>3

\* A new account is not watched in this life.
LEMMA CreateAccountKeeps == IInv /\ CreateAccount => IInv'
<1>. SUFFICES ASSUME IInv, CreateAccount PROVE IInv'
  OBVIOUS
<1>. USE DEF IInv, CreateAccount, nodeVars, monVars, pollVars
<1>1. TypeOK'
  BY DEF TypeOK
<1>2. (Control /\ Heights /\ Queued /\ Holding)'
  BY DEF Control, Heights, Queued, Holding, Receiving, HandedOver, MidBlock, Recorded
<1>3. (HandOff /\ PublishedIsRecorded /\ Counted)'
  BY DEF HandOff, PublishedIsRecorded, Counted, Finished, Receiving, HandedOver, MidBlock, Recorded
<1>. QED
  BY <1>1, <1>2, <1>3

\* A new life allows one more publication of everything.
LEMMA CrashKeeps == IInv /\ Crash => IInv'
<1>. SUFFICES ASSUME IInv, Crash PROVE IInv'
  OBVIOUS
<1>. USE DEF IInv, Crash, nodeVars, dbVars
<1>1. TypeOK'
  BY HeightData, BoundAssumption DEF TypeOK, MonStates, PollStates
<1>2. (Control /\ Heights /\ Queued /\ Holding)'
  BY DEF TypeOK, Control, Heights, Queued, Holding, Receiving
<1>3. (HandOff /\ PublishedIsRecorded)'
  BY DEF HandOff, PublishedIsRecorded, Receiving, Recorded
<1>4. Counted'
  BY DEF TypeOK, Counted
<1>. QED
  BY <1>1, <1>2, <1>3, <1>4

\* A cancel only changes what later calls answer.
LEMMA CancelKeeps == IInv /\ Cancel => IInv'
<1>. SUFFICES ASSUME IInv, Cancel PROVE IInv'
  OBVIOUS
<1>. USE DEF IInv, Cancel, nodeVars, dbVars, monVars, pollVars
<1>1. TypeOK'
  BY DEF TypeOK
<1>2. (Control /\ Heights /\ Queued /\ Holding)'
  BY DEF Control, Heights, Queued, Holding, Receiving, HandedOver, MidBlock, Recorded
<1>3. (HandOff /\ PublishedIsRecorded /\ Counted)'
  BY DEF HandOff, PublishedIsRecorded, Counted, Finished, Receiving, HandedOver, MidBlock, Recorded
<1>. QED
  BY <1>1, <1>2, <1>3

\* A call changes the fault count only, and never past its bound.
LEMMA CallType ==
  ASSUME TypeOK, NEW call, Succeeds \/ Fails(call)
  PROVE  faults' \in 0..MaxFaults
BY BoundAssumption DEF TypeOK, Succeeds, Fails

\* Before the scan nothing is handed over.
LEMMA BootKeeps == IInv /\ Boot => IInv'
<1>. SUFFICES ASSUME IInv, Boot PROVE IInv'
  OBVIOUS
<1>. USE DEF IInv, Boot, nodeVars, dbVars, pollVars
<1>0. poll = "off"
  BY DEF Control
<1>1. TypeOK'
  BY CallType DEF TypeOK, MonStates
<1>2. (Control /\ Heights /\ Holding)'
  BY <1>0 DEF Control, Heights, Holding, Receiving
<1>3. Queued'
  BY <1>0 DEF Queued, Control
<1>4. (HandOff /\ PublishedIsRecorded /\ Counted)'
  BY <1>0 DEF HandOff, PublishedIsRecorded, Counted, Finished, Receiving, HandedOver, Recorded
<1>. QED
  BY <1>1, <1>2, <1>3, <1>4

\* Watch's first BlockNumber call: the scan has not begun.
LEMMA WatchTipKeeps == IInv /\ WatchTip => IInv'
<1>. SUFFICES ASSUME IInv, WatchTip PROVE IInv'
  OBVIOUS
<1>. USE DEF IInv, WatchTip, nodeVars, dbVars
<1>0. poll = "off"
  BY DEF Control
<1>1. TypeOK'
  BY CallType DEF TypeOK, MonStates
<1>2. (Control /\ Heights /\ Holding)'
  BY <1>0 DEF TypeOK, Control, Heights, Holding, Receiving
<1>3. Queued'
  BY DEF Queued
<1>4. (HandOff /\ PublishedIsRecorded /\ Counted)'
  BY <1>0 DEF HandOff, PublishedIsRecorded, Counted, Finished, Receiving, HandedOver, Recorded
<1>. QED
  BY <1>1, <1>2, <1>3, <1>4

\* A scan starts at the cursor or at the tip, and neither is below the cursor.
LEMMA StartData ==
  ASSUME NEW c \in NoCursor..MaxHeight, NEW t \in 0..MaxHeight, c <= t,
         NEW f \in {ResumeFrom(c, t), ResumeBlind(c, t)}
  PROVE  /\ f \in 0..MaxHeight
         /\ f + 1 \in 1..(MaxHeight + 1)
         /\ c < f + 1
         /\ f < f + 1
         /\ \A h \in 1..MaxHeight : h < f + 1 => ~(f < h)
<1>1. f \in {c, t} /\ (f = c => c \in 0..MaxHeight)
  BY HeightData DEF ResumeFrom, ResumeBlind, NoCursor
<1>. QED
  BY <1>1, HeightData DEF NoCursor

\* The scan begins at its start block with nothing passed.
LEMMA ScanBegins ==
  ASSUME IInv, WatchCursor
  PROVE  /\ from' \in 0..MaxHeight
         /\ next' \in 1..(MaxHeight + 1)
         /\ cursor < next'
         /\ from' < next'
         /\ \A e \in Events : ~HandedOver(e)'
<1>1. cursor \in NoCursor..MaxHeight /\ tip \in 0..MaxHeight /\ cursor <= tip
  BY DEF IInv, TypeOK, Heights, WatchCursor
<1>2. from' \in {ResumeFrom(cursor, tip), ResumeBlind(cursor, tip)} /\ next' = from' + 1
  BY DEF WatchCursor
<1>3. /\ from' \in 0..MaxHeight
      /\ next' \in 1..(MaxHeight + 1)
      /\ cursor < next'
      /\ from' < next'
      /\ \A h \in 1..MaxHeight : h < next' => ~(from' < h)
  BY <1>1, <1>2, StartData
<1>4. \A e \in Events : ~HandedOver(e)'
  BY <1>3, EventData DEF WatchCursor, HandedOver, MidBlock
<1>. QED
  BY <1>3, <1>4

\* So where it begins keeps the invariant.
LEMMA WatchCursorKeeps == IInv /\ WatchCursor => IInv'
<1>. SUFFICES ASSUME IInv, WatchCursor PROVE IInv'
  OBVIOUS
<1>. USE DEF IInv, WatchCursor, nodeVars, dbVars
<1>0. poll = "off" /\ queue = {}
  BY DEF Control
<1>1. /\ from' \in 0..MaxHeight
      /\ next' \in 1..(MaxHeight + 1)
      /\ cursor < next'
      /\ from' < next'
      /\ \A e \in Events : ~HandedOver(e)'
  BY ScanBegins
<1>2. TypeOK'
  BY <1>1, CallType DEF TypeOK, MonStates, PollStates
<1>3. (Control /\ Queued /\ Holding)'
  BY <1>0 DEF Control, Queued, Holding, Receiving
<1>4. Heights'
  BY <1>1 DEF Heights
<1>5. (HandOff /\ PublishedIsRecorded)'
  BY <1>1 DEF HandOff, PublishedIsRecorded, Recorded
<1>6. Counted'
  BY <1>0 DEF Counted, Finished, HandedOver
<1>. QED
  BY <1>2, <1>3, <1>4, <1>5, <1>6

\* A new tip moves no event.
LEMMA PollTipKeeps == IInv /\ PollTip => IInv'
<1>. SUFFICES ASSUME IInv, PollTip PROVE IInv'
  OBVIOUS
<1>. USE DEF IInv, PollTip, nodeVars, dbVars, monVars
<1>1. TypeOK'
  BY CallType DEF TypeOK, PollStates
<1>2. (Control /\ Heights /\ Queued)'
  BY DEF TypeOK, Control, Heights, Queued, Receiving
<1>3. \A e : HandedOver(e)' <=> HandedOver(e)
  BY DEF HandedOver, MidBlock
<1>4. (Holding /\ HandOff /\ PublishedIsRecorded /\ Counted)'
  BY <1>3 DEF Holding, HandOff, PublishedIsRecorded, Counted, Finished, Receiving, Recorded
<1>. QED
  BY <1>1, <1>2, <1>4

\* The end of a scan leaves the next block as it was.
LEMMA EndScanKeeps == IInv /\ EndScan => IInv'
<1>. SUFFICES ASSUME IInv, EndScan PROVE IInv'
  OBVIOUS
<1>. USE DEF IInv, EndScan, nodeVars, dbVars, monVars
<1>1. TypeOK'
  BY DEF TypeOK, PollStates
<1>2. (Control /\ Heights /\ Queued)'
  BY DEF TypeOK, Control, Heights, Queued, Receiving
<1>3. \A e : HandedOver(e)' <=> HandedOver(e)
  BY DEF HandedOver, MidBlock
<1>4. (Holding /\ HandOff /\ PublishedIsRecorded /\ Counted)'
  BY <1>3 DEF Holding, HandOff, PublishedIsRecorded, Counted, Finished, Receiving, Recorded
<1>. QED
  BY <1>1, <1>2, <1>4

\* A fetched block puts all its events between the scan and the receiver.
LEMMA FetchBlockPasses ==
  IInv /\ FetchBlock => \A e \in Events : HandedOver(e)' <=> HandedOver(e)
<1>. SUFFICES ASSUME IInv, FetchBlock, NEW e \in Events
              PROVE  HandedOver(e)' <=> HandedOver(e)
  OBVIOUS
<1>. USE DEF IInv, FetchBlock, monVars
<1>0. watched \in SUBSET Accounts
  BY DEF TypeOK
<1>1. CASE poll' = "emit"
  <2>1. queue' = MatchTransactions(next, watched)
    BY <1>1 DEF Control
  <2>2. e.height = next /\ Address(e) \in watched => e \in queue'
    BY <2>1, <1>0, MatchData DEF OurEvents
  <2>. QED
    BY <1>1, <2>2 DEF HandedOver, MidBlock
<1>2. CASE poll' = "idle"
  BY <1>2 DEF HandedOver, MidBlock
<1>. QED
  BY <1>1, <1>2

\* So a fetch, answered or not, keeps the invariant.
LEMMA FetchBlockKeeps == IInv /\ FetchBlock => IInv'
<1>. SUFFICES ASSUME IInv, FetchBlock PROVE IInv'
  OBVIOUS
<1>. USE DEF IInv, FetchBlock, nodeVars, dbVars, monVars
<1>0. watched \in SUBSET Accounts
  BY DEF TypeOK
<1>1. TypeOK'
  BY <1>0, CallType, MatchData DEF TypeOK, PollStates
<1>2. (Control /\ Heights)'
  BY DEF TypeOK, Control, Heights, Receiving, InRange
<1>3. Queued'
  BY <1>0, MatchData DEF Queued, Control
<1>4. \A e \in Events : HandedOver(e)' <=> HandedOver(e)
  BY FetchBlockPasses
<1>5. (Holding /\ HandOff /\ PublishedIsRecorded /\ Counted)'
  BY <1>4, OursAreEvents
  DEF Control, Holding, HandOff, PublishedIsRecorded, Counted, Finished, Receiving, Recorded
<1>. QED
  BY <1>1, <1>2, <1>3, <1>5

\* The receiver gets an event it has not seen in this life.
LEMMA DeliverKeeps == IInv /\ Deliver => IInv'
<1>. SUFFICES ASSUME IInv, Deliver PROVE IInv'
  OBVIOUS
<1>. USE DEF IInv, Deliver, nodeVars, dbVars, ReceiverReady
<1>1. PICK e \in queue : held' = e /\ queue' = queue \ {e}
  OBVIOUS
<1>2. e \in OurEvents /\ e \in Events /\ e.height = next /\ Address(e) \in watched
  BY <1>1, OursAreEvents DEF TypeOK, Queued
<1>3. TypeOK'
  BY <1>1, <1>2 DEF TypeOK, MonStates
<1>4. (Control /\ Heights /\ Queued)'
  BY <1>1, <1>2 DEF Control, Heights, Queued, Receiving
<1>5. ~HandedOver(e) /\ HandedOver(e)'
  BY <1>1, <1>2, EventData DEF TypeOK, Heights, HandedOver, MidBlock
<1>6. \A f \in Events : f # e => (HandedOver(f)' <=> HandedOver(f))
  BY <1>1 DEF HandedOver, MidBlock
<1>7. Holding'
  BY <1>1, <1>5 DEF Holding
<1>8. (HandOff /\ PublishedIsRecorded)'
  BY <1>1, <1>6 DEF HandOff, PublishedIsRecorded, Receiving, Recorded
<1>9. Counted'
  BY <1>1, <1>5, <1>6 DEF Counted, Finished
<1>. QED
  BY <1>3, <1>4, <1>7, <1>8, <1>9

\* With its queue empty the block counts as passed whether or not it is the
\* one below next.
LEMMA SaveCursorPasses ==
  IInv /\ SaveCursor => \A e \in Events : HandedOver(e)' <=> HandedOver(e)
<1>. SUFFICES ASSUME IInv, SaveCursor PROVE \A e \in Events : HandedOver(e)' <=> HandedOver(e)
  OBVIOUS
<1>1. next' = next + 1
  BY DEF SaveCursor, NextAfter
<1>. QED
  BY <1>1, EventData DEF IInv, TypeOK, SaveCursor, BlockDone, monVars, HandedOver, MidBlock

\* So the step to the next block keeps the invariant, saved or not.
LEMMA SaveCursorKeeps == IInv /\ SaveCursor => IInv'
<1>. SUFFICES ASSUME IInv, SaveCursor PROVE IInv'
  OBVIOUS
<1>. USE DEF IInv, SaveCursor, nodeVars, monVars, NextAfter, CursorAfter, BlockDone
<1>0. faults' \in 0..MaxFaults
  BY CallType
<1>1. next' = next + 1 /\ cursor' \in {cursor, next} /\ next <= tip
  BY DEF Control
<1>2. TypeOK'
  <2>1. next' \in 1..(MaxHeight + 1) /\ cursor' \in NoCursor..MaxHeight
    BY <1>1, HeightData DEF TypeOK, NoCursor
  <2>. QED
    BY <1>0, <2>1 DEF TypeOK, PollStates
<1>3. (Control /\ Queued)'
  BY DEF Control, Queued, Receiving
<1>4. Heights'
  BY <1>1, HeightData DEF TypeOK, Heights, Control, NoCursor
<1>5. \A e \in Events : HandedOver(e)' <=> HandedOver(e)
  BY SaveCursorPasses
<1>6. (Holding /\ HandOff /\ PublishedIsRecorded /\ Counted)'
  BY <1>5, OursAreEvents
  DEF Control, Holding, HandOff, PublishedIsRecorded, Counted, Finished, Receiving, Recorded
<1>. QED
  BY <1>2, <1>3, <1>4, <1>6

\* A poll that returns leaves unsent events in its queue, so they do not
\* count as handed over.
LEMMA PollReturnsKeeps == IInv /\ PollReturns => IInv'
<1>. SUFFICES ASSUME IInv, PollReturns PROVE IInv'
  OBVIOUS
<1>. USE DEF IInv, PollReturns, nodeVars, dbVars, monVars
<1>1. TypeOK'
  BY DEF TypeOK, PollStates
<1>2. (Control /\ Heights /\ Queued)'
  BY DEF Control, Heights, Queued, Receiving
<1>3. \A e : HandedOver(e)' <=> HandedOver(e)
  BY DEF Control, HandedOver, MidBlock
<1>4. (Holding /\ HandOff /\ PublishedIsRecorded /\ Counted)'
  BY <1>3 DEF Holding, HandOff, PublishedIsRecorded, Counted, Finished, Receiving, Recorded
<1>. QED
  BY <1>1, <1>2, <1>4

\* The two tables only grow, and an answered SaveEvent has the event in both.
LEMMA CommitRecords ==
  ASSUME TypeOK, NEW e \in OurEvents, Commit(e)
  PROVE  /\ rows' \in [Txs -> Row \cup {NoRow}]
         /\ links' \subseteq LinkRow
         /\ Recorded(e)'
         /\ \A f \in Events : Recorded(f) => Recorded(f)'
<1>1. e \in Events /\ Hash(e) \in Txs
  BY EventData DEF OurEvents
<1>2. Upsert(rows[Hash(e)], e) \in Row
  BY <1>1, RowData DEF TypeOK
<1>3. rows' \in [Txs -> Row \cup {NoRow}] /\ rows'[Hash(e)] \in Row
  BY <1>1, <1>2 DEF TypeOK, Commit
<1>4. links' \subseteq LinkRow
  BY DEF TypeOK, Commit, LinkRow
<1>5. Recorded(e)'
  BY <1>3, RowAssumption DEF Recorded, Commit
<1>6. ASSUME NEW f \in Events, Recorded(f)
      PROVE  Recorded(f)'
  <2>1. Hash(f) \in Txs
    BY EventData
  <2>2. rows'[Hash(f)] # NoRow
    BY <1>1, <1>3, <1>6, <2>1, RowAssumption DEF TypeOK, Commit, Recorded
  <2>. QED
    BY <1>6, <2>2 DEF Commit, Recorded
<1>. QED
  BY <1>3, <1>4, <1>5, <1>6

\* SaveEvent: the held event is recorded before the receiver is ready again.
LEMMA SaveEventKeeps == IInv /\ SaveEvent => IInv'
<1>. SUFFICES ASSUME IInv, SaveEvent PROVE IInv'
  OBVIOUS
<1>. USE DEF IInv, SaveEvent, nodeVars, pollVars, AfterSave
<1>1. held \in OurEvents /\ held' = held
  BY DEF Control
<1>2. /\ rows' \in [Txs -> Row \cup {NoRow}]
      /\ links' \subseteq LinkRow
      /\ \A f \in Events : Recorded(f) => Recorded(f)'
      /\ mon' = "publish" => Recorded(held)'
      /\ mon' \in {"publish", "stopped"}
  <2>1. CASE Commit(held)
    BY <1>1, <2>1, CommitRecords
  <2>2. CASE UNCHANGED <<rows, links>> /\ mon' = "stopped"
    BY <2>2 DEF TypeOK, Recorded
  <2>. QED
    BY <2>1, <2>2
<1>3. TypeOK'
  BY <1>2, CallType DEF TypeOK, MonStates
<1>4. (Control /\ Heights /\ Queued)'
  BY <1>2 DEF Control, Heights, Queued, Receiving
<1>5. \A e : HandedOver(e)' <=> HandedOver(e)
  BY DEF HandedOver, MidBlock
<1>6. Holding'
  BY <1>1, <1>2, <1>5 DEF Holding
<1>7. HandOff'
  BY <1>1, <1>2, <1>5 DEF HandOff, Receiving
<1>8. (PublishedIsRecorded /\ Counted)'
  BY <1>1, <1>2, <1>5 DEF PublishedIsRecorded, Counted, Finished
<1>. QED
  BY <1>3, <1>4, <1>6, <1>7, <1>8

\* The event published was not finished with before, and is afterwards.
LEMMA PublishKeeps == IInv /\ Publish => IInv'
<1>. SUFFICES ASSUME IInv, Publish PROVE IInv'
  OBVIOUS
<1>. USE DEF IInv, Publish, nodeVars, dbVars, pollVars, AfterPublish
<1>1. held \in OurEvents /\ held \in Events /\ held' = held /\ HandedOver(held) /\ Recorded(held)
  BY OursAreEvents DEF Control, Holding
<1>2. mon' \in {"recv", "stopped"}
  OBVIOUS
<1>3. \A e : (HandedOver(e)' <=> HandedOver(e)) /\ (Recorded(e)' <=> Recorded(e))
  BY DEF HandedOver, MidBlock, Recorded
<1>4. /\ published' \in [Events -> Nat]
      /\ published'[held] \in {published[held], published[held] + 1}
      /\ \A e \in Events : e # held => published'[e] = published[e]
  BY <1>1 DEF TypeOK, Taken
<1>5. TypeOK'
  BY <1>2, <1>4, CallType DEF TypeOK, MonStates
<1>6. (Control /\ Heights /\ Queued /\ Holding)'
  BY <1>2 DEF Control, Heights, Queued, Holding, Receiving
<1>7. (HandOff /\ PublishedIsRecorded)'
  BY <1>1, <1>2, <1>3, <1>4 DEF HandOff, PublishedIsRecorded, Receiving
<1>8. Counted'
  <2>1. published[held] <= crashes
    BY <1>1 DEF Counted, Finished
  <2>2. published[held] \in Nat /\ crashes \in Nat
    BY <1>1, BoundAssumption DEF TypeOK
  <2>3. published'[held] <= crashes \/ published'[held] = crashes + 1
    BY <1>4, <2>1, <2>2
  <2>4. \A e \in Events : Finished(e) => Finished(e)'
    BY <1>2, <1>3 DEF Finished
  <2>5. Finished(held)'
    BY <1>1, <1>2, <1>3 DEF Finished
  <2>. QED
    BY <1>4, <2>3, <2>4, <2>5 DEF Counted
<1>. QED
  BY <1>5, <1>6, <1>7, <1>8

\* A loop that has returned is no longer bound by HandOff.
LEMMA WatchReturnsKeeps == IInv /\ WatchReturns => IInv'
<1>. SUFFICES ASSUME IInv, WatchReturns PROVE IInv'
  OBVIOUS
<1>. USE DEF IInv, WatchReturns, nodeVars, dbVars, pollVars
<1>1. TypeOK'
  BY DEF TypeOK, MonStates
<1>2. (Control /\ Heights /\ Queued /\ Holding)'
  BY DEF Control, Heights, Queued, Holding, Receiving
<1>3. (HandOff /\ PublishedIsRecorded)'
  BY DEF HandOff, PublishedIsRecorded, Receiving, Recorded
<1>4. Counted'
  BY DEF Counted, Finished, HandedOver, MidBlock
<1>. QED
  BY <1>1, <1>2, <1>3, <1>4

\* A stuttering step.
LEMMA StutterKeeps == IInv /\ UNCHANGED vars => IInv'
BY DEF IInv, vars, TypeOK, Control, Heights, Queued, Holding, HandOff, PublishedIsRecorded,
       Counted, Finished, Receiving, HandedOver, MidBlock, Recorded

\* The node, clients, callers and the receiver hand nothing over, and poll only
\* where it delivers.
LEMMA QuietPasses ==
  ASSUME IInv,
         \/ MineBlock \/ CreateAccount \/ Cancel \/ PollTip \/ EndScan \/ PollReturns
         \/ SaveEvent \/ Publish \/ WatchReturns
  PROVE  \A e \in Events : HandedOver(e)' <=> HandedOver(e)
<1>1. UNCHANGED <<watched, from, next, queue>>
  BY DEF MineBlock, CreateAccount, Cancel, PollTip, EndScan, PollReturns, SaveEvent, Publish,
         WatchReturns, monVars, pollVars
<1>2. (poll' = "off" <=> poll = "off") /\ (MidBlock' <=> MidBlock)
  BY DEF IInv, Control, MineBlock, CreateAccount, Cancel, PollTip, EndScan, PollReturns, SaveEvent,
         Publish, WatchReturns, pollVars, MidBlock
<1>. QED
  BY <1>1, <1>2 DEF HandedOver

-----------------------------------------------------------------------------
(***************************************************************************)
(* The theorems.                                                           *)
(***************************************************************************)

\* Every step keeps the invariant.
LEMMA NextKeeps == IInv /\ [Next]_vars => IInv'
BY MineBlockKeeps, CreateAccountKeeps, CrashKeeps, CancelKeeps, BootKeeps, WatchTipKeeps,
   WatchCursorKeeps, PollTipKeeps, EndScanKeeps, FetchBlockKeeps, DeliverKeeps,
   SaveCursorKeeps, PollReturnsKeeps, SaveEventKeeps, PublishKeeps, WatchReturnsKeeps,
   StutterKeeps
DEF Next

\* The strengthened invariant holds of every behaviour.
THEOREM InductiveInvariant == Spec => []IInv
BY InitIInv, NextKeeps, PTL DEF Spec

\* Every variable keeps its type: the bounds of the heights and the shape of
\* the rows SaveEvent writes.
THEOREM TypeCorrect == Spec => []TypeOK
BY InductiveInvariant, PTL DEF IInv

\* No interleaving of Watcher.poll and MonitorService.Watch loses an event
\* while the process lives.
THEOREM HandOffCorrect == Spec => []HandOff
BY InductiveInvariant, PTL DEF IInv

\* What was published is in the tables.
THEOREM PublishedCorrect == Spec => []PublishedIsRecorded
BY InductiveInvariant, PTL DEF IInv

\* A process publishes an event at most once.
THEOREM DuplicateCorrect == Spec => []DuplicateNeedsRestart
<1>1. IInv => DuplicateNeedsRestart
  BY BoundAssumption DEF IInv, TypeOK, Counted, DuplicateNeedsRestart
<1>. QED
  BY <1>1, InductiveInvariant, PTL

\* chain_cursors.block_height never decreases.
THEOREM CursorCorrect == Spec => CursorMonotone
<1>1. IInv /\ [Next]_vars => [cursor' >= cursor]_vars
  <2>. SUFFICES ASSUME IInv, Next PROVE cursor' >= cursor
    OBVIOUS
  <2>1. cursor \in Int /\ next \in Int
    BY HeightData DEF IInv, TypeOK, NoCursor
  <2>2. CASE SaveCursor
    <3>1. cursor' \in {cursor, next}
      BY <2>2 DEF SaveCursor, CursorAfter
    <3>2. cursor < next
      BY <2>2 DEF IInv, Heights, SaveCursor
    <3>. QED
      BY <2>1, <3>1, <3>2
  <2>3. CASE UNCHANGED cursor
    BY <2>1, <2>3
  <2>. QED
    BY <2>2, <2>3
    DEF Next, MineBlock, CreateAccount, Crash, Cancel, Boot, WatchTip, WatchCursor, PollTip,
        EndScan, FetchBlock, Deliver, PollReturns, SaveEvent, Publish, WatchReturns, dbVars
<1>. QED
  BY <1>1, InductiveInvariant, PTL DEF Spec, CursorMonotone

-----------------------------------------------------------------------------
(***************************************************************************)
(* The tables against the chain.                                           *)
(***************************************************************************)

\* Two events of one transaction are of one place in the chain, so what tells
\* them apart is their side.
LEMMA SameTransaction ==
  ASSUME NEW e \in Events, NEW f \in Events, Hash(e) = Hash(f)
  PROVE  e.height = f.height /\ e.index = f.index /\ (e.role = f.role => e = f)
<1>1. PICK h \in 1..MaxHeight : e \in [height : {h}, index : DOMAIN Ledger[h], role : Roles]
  BY DEF Events
<1>2. PICK k \in 1..MaxHeight : f \in [height : {k}, index : DOMAIN Ledger[k], role : Roles]
  BY DEF Events
<1>3. h = k /\ e.index = f.index
  BY <1>1, <1>2, OneBlockPerTx DEF Hash
<1>. QED
  BY <1>1, <1>2, <1>3

\* A row that is there keeps its parties.
LEMMA UpsertKeepsParties ==
  ASSUME NEW e \in Events, NEW row \in Row
  PROVE  /\ Upsert(row, e).from = row.from
         /\ Upsert(row, e).to = row.to
         /\ Upsert(row, e).height = e.height
BY RowAssumption DEF Upsert, Row

\* A new row has the parties of its transaction, whichever side it is of.
LEMMA NewRowParties ==
  ASSUME NEW e \in Events
  PROVE  /\ Upsert(NoRow, e).from = Sender[Hash(e)]
         /\ Upsert(NoRow, e).to = Recipient[Hash(e)]
         /\ Upsert(NoRow, e).height = e.height
BY EventData DEF Upsert, NewRow, Address, Counterparty, Roles

\* The database transaction of SaveEvent keeps the tables true to the chain.
LEMMA CommitMatches ==
  ASSUME TypeOK, RowsMatchChain, NEW e \in OurEvents, Commit(e)
  PROVE  RowsMatchChain'
<1>0. e \in Events /\ Hash(e) \in Txs /\ Hash(e) = Link(e).hash /\ Link(e) \in links'
  BY EventData DEF OurEvents, Commit, Link
<1>1. /\ rows' \in [Txs -> Row \cup {NoRow}]
      /\ rows'[Hash(e)] = Upsert(rows[Hash(e)], e)
      /\ rows'[Hash(e)] # NoRow
      /\ \A tx \in Txs : tx # Hash(e) => rows'[tx] = rows[tx]
  <2>1. Upsert(rows[Hash(e)], e) \in Row
    BY <1>0, RowData DEF TypeOK
  <2>. QED
    BY <1>0, <2>1, RowAssumption DEF TypeOK, Commit
<1>2. /\ rows'[Hash(e)].from = Sender[Hash(e)]
      /\ rows'[Hash(e)].to = Recipient[Hash(e)]
      /\ rows'[Hash(e)].height = e.height
  <2>1. CASE rows[Hash(e)] = NoRow
    BY <1>0, <1>1, <2>1, NewRowParties
  <2>2. CASE rows[Hash(e)] # NoRow
    <3>1. rows[Hash(e)] \in Row
      BY <1>0, <2>2 DEF TypeOK
    <3>2. rows[Hash(e)].from = Sender[Hash(e)] /\ rows[Hash(e)].to = Recipient[Hash(e)]
      BY <1>0, <2>2 DEF RowsMatchChain
    <3>. QED
      BY <1>0, <1>1, <3>1, <3>2, UpsertKeepsParties
  <2>. QED
    BY <2>1, <2>2
<1>3. ASSUME NEW f \in Events, rows'[Hash(f)] # NoRow
      PROVE  /\ rows'[Hash(f)].from = Sender[Hash(f)]
             /\ rows'[Hash(f)].to = Recipient[Hash(f)]
             /\ rows'[Hash(f)].height = f.height
             /\ \E l \in links' : l.hash = Hash(f)
  <2>1. CASE Hash(f) = Hash(e)
    <3>1. f.height = e.height
      BY <1>0, <2>1, SameTransaction
    <3>. QED
      BY <1>0, <1>2, <2>1, <3>1
  <2>2. CASE Hash(f) # Hash(e)
    <3>1. rows'[Hash(f)] = rows[Hash(f)] /\ links \subseteq links'
      BY <1>1, <2>2, EventData DEF Commit
    <3>. QED
      BY <1>3, <3>1 DEF RowsMatchChain
  <2>. QED
    BY <2>1, <2>2
<1>4. ASSUME NEW l \in links'
      PROVE  /\ rows'[l.hash] # NoRow
             /\ l.address = IF l.role = "sender" THEN rows'[l.hash].from ELSE rows'[l.hash].to
             /\ l.wallet = WalletOf[l.address]
  <2>1. CASE l = Link(e)
    BY <1>0, <1>1, <1>2, <2>1 DEF Link, Address
  <2>2. CASE l \in links
    <3>1. PICK f \in OurEvents : l = Link(f)
      BY <2>2 DEF TypeOK, LinkRow
    <3>2. l.hash \in Txs /\ f \in Events /\ l.hash = Hash(f)
      BY <3>1, EventData DEF OurEvents, Link
    <3>3. /\ rows[l.hash] # NoRow
          /\ l.address = IF l.role = "sender" THEN rows[l.hash].from ELSE rows[l.hash].to
          /\ l.wallet = WalletOf[l.address]
      BY <2>2 DEF RowsMatchChain
    <3>4. rows'[l.hash].from = rows[l.hash].from /\ rows'[l.hash].to = rows[l.hash].to
      <4>1. CASE l.hash = Hash(e)
        <5>1. rows[Hash(e)] \in Row
          BY <3>2, <3>3, <4>1 DEF TypeOK
        <5>. QED
          BY <1>0, <1>1, <4>1, <5>1, UpsertKeepsParties
      <4>2. CASE l.hash # Hash(e)
        BY <1>1, <3>2, <4>2
      <4>. QED
        BY <4>1, <4>2
    <3>5. rows'[l.hash] # NoRow
      BY <1>1, <3>2, <3>3
    <3>. QED
      BY <3>3, <3>4, <3>5
  <2>. QED
    BY <2>1, <2>2 DEF Commit
<1>. QED
  BY <1>3, <1>4 DEF RowsMatchChain

\* SaveEvent alone writes the two tables.
LEMMA RowsKeep == IInv /\ RowsMatchChain /\ [Next]_vars => RowsMatchChain'
<1>. SUFFICES ASSUME IInv, RowsMatchChain, [Next]_vars PROVE RowsMatchChain'
  OBVIOUS
<1>1. CASE SaveEvent
  <2>1. held \in OurEvents /\ TypeOK
    BY <1>1 DEF IInv, Control, SaveEvent
  <2>2. Commit(held) \/ UNCHANGED <<rows, links>>
    BY <1>1 DEF SaveEvent
  <2>. QED
    BY <2>1, <2>2, CommitMatches DEF RowsMatchChain
<1>2. CASE UNCHANGED <<rows, links>>
  BY <1>2 DEF RowsMatchChain
<1>. QED
  BY <1>1, <1>2
  DEF Next, vars, MineBlock, CreateAccount, Crash, Cancel, Boot, WatchTip, WatchCursor, PollTip,
      EndScan, FetchBlock, Deliver, SaveCursor, PollReturns, Publish, WatchReturns, dbVars

\* Whatever is scanned again, and from whichever side a transfer is seen first,
\* a row says what the block says and has a wallet linked.
THEOREM RowsCorrect == Spec => []RowsMatchChain
<1>1. Init => RowsMatchChain
  BY EventData DEF Init, RowsMatchChain
<1>. QED
  BY <1>1, RowsKeep, InductiveInvariant, PTL DEF Spec

\* With the cursor readable and no caller that cancels, a scan starts where the
\* saved height says, however often it could not be saved.
THEOREM ResumesCorrect ==
  ASSUME "cursorGet" \notin Faults, ~Cancellable
  PROVE  Spec => []ResumesAtCursor
<1>. DEFINE Inv == ctx = "live" /\ ResumesAtCursor
<1>1. Init => Inv
  BY DEF Init, ResumesAtCursor
<1>2. IInv /\ Inv /\ [Next]_vars => Inv'
  <2>. SUFFICES ASSUME IInv, Inv, [Next]_vars PROVE Inv'
    OBVIOUS
  <2>1. cursor \in NoCursor..MaxHeight /\ tip \in 0..MaxHeight /\ from \in 0..MaxHeight
    BY DEF IInv, TypeOK
  <2>2. CASE WatchCursor
    <3>1. from' = ResumeFrom(cursor, tip) /\ cursor <= tip /\ UNCHANGED <<cursor, ctx>>
      BY <2>2 DEF IInv, Heights, WatchCursor, Fails, dbVars
    <3>. QED
      BY <2>1, <3>1, HeightData DEF ResumesAtCursor, ResumeFrom, NoCursor
  <2>3. CASE SaveCursor
    <3>1. cursor' \in {cursor, next} /\ from < next /\ poll # "off" /\ UNCHANGED <<from, ctx>>
      BY <2>3 DEF IInv, Heights, SaveCursor, CursorAfter
    <3>2. next \in 1..(MaxHeight + 1)
      BY DEF IInv, TypeOK
    <3>. QED
      BY <2>1, <3>1, <3>2, HeightData DEF ResumesAtCursor
  <2>4. CASE Crash
    BY <2>4 DEF Crash, ResumesAtCursor
  <2>5. CASE UNCHANGED <<cursor, from, ctx>> /\ (poll' = "off" <=> poll = "off")
    BY <2>5 DEF ResumesAtCursor
  <2>. QED
    BY <2>2, <2>3, <2>4, <2>5
    DEF Next, vars, MineBlock, CreateAccount, Cancel, Boot, WatchTip, PollTip, EndScan, FetchBlock,
        Deliver, PollReturns, SaveEvent, Publish, WatchReturns, dbVars, pollVars
<1>. QED
  BY <1>1, <1>2, InductiveInvariant, PTL DEF Spec
===============================================================================
