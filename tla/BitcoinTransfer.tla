---------------------------- MODULE BitcoinTransfer ----------------------------
(***************************************************************************)
(* Transfer and Status on Bitcoin: concurrent calls of Transfer each ask   *)
(* the node for a fee rate, the coins of the sender and its height, build  *)
(* and sign a transaction from the answers, and broadcast it.  Nothing is  *)
(* kept between calls; they meet at the node only, whose mempool the coin  *)
(* scan does not see and whose newest block may still be replaced.  Values *)
(* are in satoshi.                                                         *)
(***************************************************************************)
EXTENDS Integers, FiniteSets, FiniteSetsExt

CONSTANTS
  Requests,      \* calls of Transfer
  Transfers,     \* what a call may ask for
  Addresses,     \* the addresses DecodeAddress accepts
  AccountOf,     \* AccountOf[wallet]: its Bitcoin address
  NoTransfer,    \* the call has not begun
  NoTx,          \* the call has built no transaction
  InitialCoins,  \* the unspent outputs when the history starts
  InitialTip,    \* the node's height at that point
  MaxTip,        \* bound: the last block that is mined
  Word,          \* 2^64, the range of a Go int64
  MaxMoney,      \* the node's bound on a value
  NodeRates,     \* the rates estimatesmartfee may answer, in sat/vByte
  Faults,        \* the calls that may fail: "wallet", "scan", "count", "send", "find"
  MaxFaults      \* bound: how many calls fail

\* An unspent output, and a signed transaction.
Coins == [id : Nat, owner : Addresses, value : Nat, coinbase : BOOLEAN, height : Nat]
Txs == [ins : SUBSET Coins, to : Addresses, amount : Int, back : Addresses, change : Int, signer : Addresses]

\* The coins of the beginning have numbers that no output of a transfer gets.
Original(c) == c.id % 10 = 0

ASSUME CoinAssumption ==
  /\ InitialCoins \subseteq Coins /\ IsFiniteSet(InitialCoins)
  /\ \A c \in InitialCoins : Original(c) /\ c.id > 0 /\ c.value > 0 /\ c.height <= InitialTip
  /\ \A c, d \in InitialCoins : c.id = d.id => c = d
  /\ \A w \in Transfers : w.amount \in Int /\ AccountOf[w.wallet] \in Addresses
  /\ NoTx \notin Txs
  /\ InitialTip \in Nat /\ MaxTip \in Nat /\ InitialTip <= MaxTip
  /\ NodeRates \subseteq Nat /\ MaxFaults \in Nat

-----------------------------------------------------------------------------
(***************************************************************************)
(* Fees and coins.                                                         *)
(***************************************************************************)

\* fallbackFeeRate, with the zero a Go map has for any other speed.
fallbackFeeRate(speed) ==
  CASE speed = "economy" -> 5 [] speed = "standard" -> 10 [] speed = "fast" -> 20 [] OTHER -> 0

\* One input and two outputs, however many there are going to be.
vSize == 1 * 148 + 2 * 34 + 10

\* A value the node may take and a fee fit into an int64 with much to spare.
ASSUME AmountAssumption ==
  /\ Word \in Nat /\ Word > 0 /\ Word % 2 = 0 /\ MaxMoney \in Nat
  /\ \A n \in NodeRates \cup 0..20 : MaxMoney + vSize * n < Word \div 2

\* big.Int.Int64: the low bits, as a signed number; Go's int64 sums wrap the same way.
Int64(n) == ((n + Word \div 2) % Word) - Word \div 2

\* The amount of the request, however large, in the width of the output.
sendSat(w) == Int64(w.amount)

Value(cs) == MapThenSumSet(LAMBDA c : c.value, cs)

\* Mutant: the boundary off by one.
MaturedEarly(c, t) == c.coinbase => t - c.height >= 98

\* A coinbase output can be in block tip + 1 when it is 100 blocks deep there.
Matured(c, t) == c.coinbase => t - c.height >= 99

spendable(cs, t) == {c \in cs : Matured(c, t)}

\* Mutant: the fee left out.
NeedWithoutFee(w, feeRate) == sendSat(w)

\* What the inputs have to cover.
Need(w, feeRate) == Int64(sendSat(w) + vSize * feeRate)

\* Mutant: the comparison of the sort the wrong way round.
FirstSmall(c, d) == c.value < d.value \/ (c.value = d.value /\ c.id < d.id)

\* The order selectUTXOs goes through the coins in.  Which of two equal ones
\* sort.Slice puts first depends on the scan alone; the id stands for that.
First(c, d) == c.value > d.value \/ (c.value = d.value /\ c.id < d.id)

\* What its loop has taken after some rounds, and where it stops.
Taken(cs) == {S \in SUBSET cs : S # {} /\ \A c \in S, d \in cs \ S : First(c, d)}

selectUTXOs(cs, need) ==
  CHOOSE S \in Taken(cs) :
    Value(S) >= need /\ \A T \in Taken(cs) : Value(T) >= need => S \subseteq T

\* It reports insufficient funds instead.
Insufficient(cs, need) == cs = {} \/ Value(cs) < need

-----------------------------------------------------------------------------
(***************************************************************************)
(* Transactions.  Signing is deterministic, so a transaction is its own    *)
(* hash.                                                                   *)
(***************************************************************************)

\* What the inputs are worth beyond the amount and the fee.
changeSat(total, amount, fee) == Int64(total - amount - fee)

BuildTransfer(w, cs, feeRate) ==
  LET ins == selectUTXOs(cs, Need(w, feeRate))
  IN  [ins |-> ins, to |-> w.to, amount |-> sendSat(w), back |-> w.from,
       change |-> changeSat(Value(ins), sendSat(w), vSize * feeRate), signer |-> AccountOf[w.wallet]]

\* Mutant: the errors of DecodeAddress not looked at.
DecodesAlways(w) == TRUE

\* DecodeAddress takes both addresses of the request.
Decodes(w) == {w.to, w.from} \subseteq Addresses

\* The change output is there only when there is any change.
HasChange(t) == t.change > 0

\* An output is named after the first coin its transaction spends, like no
\* Original one.  Its height is never looked at: it is no coinbase output.
OutputId(t, n) == 10 * Min({c.id : c \in t.ins}) + n

Outputs(t) ==
  {[id |-> OutputId(t, 1), owner |-> t.to, value |-> t.amount, coinbase |-> FALSE, height |-> 0]}
  \cup (IF HasChange(t)
        THEN {[id |-> OutputId(t, 2), owner |-> t.back, value |-> t.change, coinbase |-> FALSE, height |-> 0]}
        ELSE {})

Outs(m) == UNION {Outputs(t) : t \in m}

Spent(m) == UNION {t.ins : t \in m}

\* The coins of a chain with these transactions in its blocks.
Unspent(m) == (InitialCoins \cup Outs(m)) \ Spent(m)

\* Every one of them spends what the chain has.
Closed(m) == Spent(m) \subseteq InitialCoins \cup Outs(m)

-----------------------------------------------------------------------------
VARIABLES
  tip,       \* node: its height
  mempool,   \* node: transactions taken and not yet in a block
  mined,     \* node: transactions in a block
  latest,    \* node: those of them in its newest block
  pc,        \* call -> its next step, or how it ended
  want,      \* call -> req and walletID
  rate,      \* call -> the fee rate in use
  seen,      \* call -> the answer of scantxoutset
  seenAt,    \* call -> the node's height when it answered
  counted,   \* call -> the answer of getblockcount
  tx,        \* call -> the signed transaction
  reasons,   \* call -> why the node refused it
  status,    \* call -> what Status answered last for its hash
  told,      \* call -> the confirmations in the last answer that had any
  faults

nodeVars == <<tip, mempool, mined, latest>>
vars == <<tip, mempool, mined, latest, pc, want, rate, seen, seenAt, counted, tx, reasons, status, told, faults>>

coins == Unspent(mined)

Init ==
  /\ tip = InitialTip
  /\ mempool = {} /\ mined = {} /\ latest = {}
  /\ pc = [r \in Requests |-> "new"]
  /\ want = [r \in Requests |-> NoTransfer]
  /\ rate = [r \in Requests |-> 0]
  /\ seen = [r \in Requests |-> {}]
  /\ seenAt = [r \in Requests |-> 0]
  /\ counted = [r \in Requests |-> 0]
  /\ tx = [r \in Requests |-> NoTx]
  /\ reasons = [r \in Requests |-> {}]
  /\ status = [r \in Requests |-> "none"]
  /\ told = [r \in Requests |-> 0]
  /\ faults = 0

Goes(r, stage) == pc' = [pc EXCEPT ![r] = stage]

Fails(call) == call \in Faults /\ faults < MaxFaults /\ faults' = faults + 1

-----------------------------------------------------------------------------
(***************************************************************************)
(* The node.                                                               *)
(***************************************************************************)

\* Bytes of the transaction with the inputs and outputs it has.
Size(t) == 148 * Cardinality(t.ins) + 34 * (IF HasChange(t) THEN 2 ELSE 1) + 10

Fee(t) == Value(t.ins) - t.amount - (IF HasChange(t) THEN t.change ELSE 0)

IsDust(v) == v \in 0..545

\* Why bitcoind refuses a transaction.  No input of it signals replacement.
Refusals(t) ==
  {why \in {"value", "dust", "fee", "spent", "conflict", "immature", "script"} :
     CASE why = "value"    -> t.amount < 0 \/ \E v \in {t.amount, t.change, Value(t.ins)} : v > MaxMoney
       [] why = "dust"     -> IsDust(t.amount) \/ (HasChange(t) /\ IsDust(t.change))
       [] why = "fee"      -> Fee(t) < Size(t)
       [] why = "spent"    -> ~(t.ins \subseteq coins \cup Outs(mempool))
       [] why = "conflict" -> t.ins \cap Spent(mempool) # {}
       [] why = "immature" -> \E c \in t.ins : c.coinbase /\ tip + 1 < c.height + 100
       [] why = "script"   -> \E c \in t.ins : c.owner # t.signer}

\* The node goes to a longer chain, without the transactions undone, which wait
\* again, and with those of block, the last ones in the newest of its blocks.
Connects(undone, block, last) ==
  /\ tip < MaxTip
  /\ Closed((mined \ undone) \cup (block \ last)) /\ Closed((mined \ undone) \cup block)
  /\ tip' = tip + 1
  /\ mined' = (mined \ undone) \cup block
  /\ mempool' = (mempool \cup undone) \ block
  /\ latest' = last
  /\ UNCHANGED <<pc, want, rate, seen, seenAt, counted, tx, reasons, status, told, faults>>

\* A block with some of the mempool in it.
Mine == \E block \in SUBSET mempool : Connects({}, block, block)

\* Bound on reorganisations: the newest block, but not the one before it, is
\* replaced by two others.
Fork ==
  /\ tip > InitialTip
  /\ \E block \in SUBSET (mempool \cup latest) : \E last \in SUBSET block : Connects(latest, block, last)

-----------------------------------------------------------------------------
(***************************************************************************)
(* A call of Transfer.                                                     *)
(***************************************************************************)

\* The wallet is read and its seed unlocked.
Begin(r) ==
  /\ pc[r] = "new"
  /\ \E w \in Transfers : want' = [want EXCEPT ![r] = w]
  /\ \/ UNCHANGED faults /\ Goes(r, "estimate")
     \/ Fails("wallet") /\ Goes(r, "failed")
  /\ UNCHANGED <<nodeVars, rate, seen, seenAt, counted, tx, reasons, status, told>>

\* A rate of the node, or the fallback when it has none to give.
EstimateFee(r) ==
  /\ pc[r] = "estimate"
  /\ \E n \in NodeRates \cup {fallbackFeeRate(want[r].speed)} : rate' = [rate EXCEPT ![r] = n]
  /\ Goes(r, "scan")
  /\ UNCHANGED <<nodeVars, want, seen, seenAt, counted, tx, reasons, status, told, faults>>

\* Mutant: the coins the mempool leaves.
ScannedUnspent(a) == {c \in coins \ Spent(mempool) : c.owner = a}

\* The coins of the sender in the chain, whatever the mempool spends.
Scanned(a) == {c \in coins : c.owner = a}

fetchUTXOs(r) ==
  /\ pc[r] = "scan"
  /\ \/ /\ seen' = [seen EXCEPT ![r] = Scanned(want[r].from)]
        /\ seenAt' = [seenAt EXCEPT ![r] = tip]
        /\ UNCHANGED faults
        /\ Goes(r, "count")
     \/ /\ Fails("scan")
        /\ UNCHANGED <<seen, seenAt>>
        /\ Goes(r, "failed")
  /\ UNCHANGED <<nodeVars, want, rate, counted, tx, reasons, status, told>>

\* getblockcount, and then everything up to the broadcast, which is local.
Build(r) ==
  /\ pc[r] = "count"
  /\ LET usable == spendable(seen[r], tip)
         fails  == Insufficient(usable, Need(want[r], rate[r])) \/ ~Decodes(want[r])
     IN  \/ /\ ~fails
            /\ tx' = [tx EXCEPT ![r] = BuildTransfer(want[r], usable, rate[r])]
            /\ counted' = [counted EXCEPT ![r] = tip]
            /\ UNCHANGED faults
            /\ Goes(r, "send")
         \/ /\ \/ fails /\ UNCHANGED faults
               \/ Fails("count")
            /\ UNCHANGED <<tx, counted>>
            /\ Goes(r, "failed")
  /\ UNCHANGED <<nodeVars, want, rate, seen, seenAt, reasons, status, told>>

\* The node answers a transaction it already has in its mempool like a new one.
Acceptable(t) == t \in mempool \/ Refusals(t) = {}

\* sendrawtransaction; a failed call may have reached the node.
Broadcast(r) ==
  /\ pc[r] = "send"
  /\ \/ /\ Acceptable(tx[r])
        /\ mempool' = mempool \cup {tx[r]}
        /\ \/ UNCHANGED faults /\ Goes(r, "answered")
           \/ Fails("send") /\ Goes(r, "failed")
        /\ UNCHANGED reasons
     \/ /\ ~Acceptable(tx[r])
        /\ reasons' = [reasons EXCEPT ![r] = Refusals(tx[r])]
        /\ UNCHANGED <<mempool, faults>>
        /\ Goes(r, "refused")
     \/ /\ Fails("send")
        /\ UNCHANGED <<mempool, reasons>>
        /\ Goes(r, "failed")
  /\ UNCHANGED <<tip, mined, latest, want, rate, seen, seenAt, counted, tx, status, told>>

Transfer(r) == Begin(r) \/ EstimateFee(r) \/ fetchUTXOs(r) \/ Build(r) \/ Broadcast(r)

-----------------------------------------------------------------------------
(***************************************************************************)
(* Status for the hash a call was answered with.                           *)
(***************************************************************************)

\* The node's count of confirmations; 2 stands for any more.
Confirmations(t) == IF t \in latest THEN 1 ELSE IF t \in mined THEN 2 ELSE 0

\* Mutant: the test the wrong way round.
StatusOfWaiting(n) == IF n = 0 THEN "confirmed" ELSE "pending"

\* A transaction is pending while it has no confirmations.
StatusOf(n) == IF n = 0 THEN "pending" ELSE "confirmed"

\* getrawtransaction; whatever error it has, the transaction is unknown.
GetTransaction(r) ==
  /\ pc[r] = "answered"
  /\ \/ /\ tx[r] \in mempool \cup mined
        /\ status' = [status EXCEPT ![r] = StatusOf(Confirmations(tx[r]))]
        /\ told' = [told EXCEPT ![r] = Confirmations(tx[r])]
        /\ UNCHANGED faults
     \/ /\ status' = [status EXCEPT ![r] = "unknown"]
        /\ \/ tx[r] \notin mempool \cup mined /\ UNCHANGED faults
           \/ Fails("find")
        /\ UNCHANGED told
  /\ UNCHANGED <<nodeVars, pc, want, rate, seen, seenAt, counted, tx, reasons>>

Next == Mine \/ Fork \/ \E r \in Requests : Transfer(r) \/ GetTransaction(r)

Spec == Init /\ [][Next]_vars

-----------------------------------------------------------------------------

Stages == {"new", "estimate", "scan", "count", "send", "answered", "refused", "failed"}

\* The type of every variable; in particular no output of a chain is empty.
TypeOK ==
  /\ tip \in InitialTip..MaxTip
  /\ \A c \in coins : c.id \in Nat /\ c.owner \in Addresses /\ c.value > 0
  /\ latest \subseteq mined /\ mempool \cap mined = {}
  /\ \A t \in mempool \cup mined : t.to \in Addresses /\ t.amount > 0 /\ t.ins # {}
  /\ pc \in [Requests -> Stages]
  /\ want \in [Requests -> Transfers \cup {NoTransfer}]
  /\ rate \in [Requests -> Nat]
  /\ \A r \in Requests : seenAt[r] \in 0..tip /\ counted[r] \in 0..tip
  /\ status \in [Requests -> {"none", "pending", "confirmed", "unknown"}]
  /\ told \in [Requests -> 0..2]
  /\ faults \in 0..MaxFaults

\* selectUTXOs "picks the smallest set of UTXOs (largest-first) that covers
\* need": no fewer of the coins the call could use would have been enough, as long
\* as there is an input at all, which it takes even to cover nothing.
FewestInputs ==
  \A r \in Requests :
    tx[r] # NoTx =>
      \A S \in (SUBSET spendable(seen[r], counted[r])) \ {{}} :
        Value(S) >= Need(want[r], rate[r]) => Cardinality(S) >= Cardinality(tx[r].ins)

\* The amounts that keep their value in an int64.
Fits(n) == n >= -(Word \div 2) /\ n < Word \div 2

\* A transaction the node took does what the caller asked, when what was asked
\* fits an int64 (of any other amount BuildTransfer pays the low bits): the
\* wallet's own coins pay the amount, the fee estimated for it and nothing
\* else, the rest goes back, and the coins in the chain, whichever blocks were
\* replaced, stay worth what they were but for the fees.
AcceptedIsAsked ==
  /\ \A r \in Requests :
       tx[r] \in mempool \cup mined =>
         /\ \A c \in tx[r].ins : c.owner = AccountOf[want[r].wallet]
         /\ tx[r].back = AccountOf[want[r].wallet] /\ tx[r].to = want[r].to
         /\ Fits(want[r].amount) => tx[r].amount = want[r].amount
         /\ Fee(tx[r]) = vSize * rate[r]
  /\ Value(coins) = Value(InitialCoins) - MapThenSumSet(Fee, mined)

\* The node refuses a transaction for what the request asks, for change too
\* small to be an output, for another transfer that got one of the coins
\* first, or for a fee that was reckoned for one input; never for a coin that
\* may not be spent yet, never for change of zero, and never because a block
\* was replaced.
RefusedForCause ==
  \A r \in Requests :
    pc[r] = "refused" =>
      /\ "immature" \notin reasons[r]
      /\ reasons[r] \cap {"spent", "conflict"} # {} =>
           \E q \in Requests \ {r} :
             tx[q] \in mempool \cup mined /\ tx[q].ins \cap tx[r].ins # {}
      /\ "dust" \in reasons[r] => IsDust(sendSat(want[r])) \/ tx[r].change \in 1..545
      /\ "fee" \in reasons[r] => Cardinality(tx[r].ins) > 1 \/ rate[r] = 0 \/ "value" \in reasons[r]

\* A caller that lost the answer and asks again does not pay twice before the
\* next block: at one height and one rate the same request gives the same
\* transaction, which the node takes once, because the scan sees the chain
\* and not the mempool.
RetryPaysOnce ==
  \A q, r \in Requests :
    /\ tx[q] # NoTx /\ tx[r] # NoTx
    /\ want[q] = want[r] /\ rate[q] = rate[r]
    /\ Cardinality({seenAt[q], counted[q], seenAt[r], counted[r]}) = 1
    => tx[q] = tx[r]

\* What Status says of a hash that Transfer gave advances: no rival transfer and
\* no replaced block drives the transaction out, so it is unknown for want of an
\* answer of the node alone; and since GetTransaction says confirmed from the
\* first confirmation on, that one may be taken back, but no answer with a
\* second confirmation.
StatusAdvances ==
  [][\A r \in Requests :
       status'[r] # status[r] =>
         \/ status'[r] = "confirmed"
         \/ status'[r] = "pending" /\ told[r] <= 1
         \/ status'[r] = "unknown" /\ faults' > faults]_vars
================================================================================
