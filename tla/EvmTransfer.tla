------------------------------ MODULE EvmTransfer ------------------------------
(***************************************************************************)
(* TransactionService.Transfer and Status on an EVM chain: concurrent      *)
(* calls that each ask the node for a nonce, a tip and the head's base     *)
(* fee, sign a transaction over the answers and broadcast it, and then ask *)
(* what became of it.  Nothing is kept between calls, so whether two of    *)
(* them follow, replace or exclude one another is decided at the node by   *)
(* the nonces and fees they happened to read.                              *)
(***************************************************************************)
EXTENDS Integers, FiniteSets, FiniteSetsExt

CONSTANTS
  Requests,      \* calls of Transfer, each with the Status calls after it
  Transfers,     \* what a call may ask for
  Addresses,     \* the accounts of the chain
  Contracts,     \* those that take more gas than 21000
  AccountOf,     \* AccountOf[wallet]: its address
  Cropped,       \* the account any text that is no address is taken for
  NoTransfer,    \* the call has not begun
  NoTx,          \* the call has built no transaction
  InitialNonce,  \* the transactions each account has in the chain already
  InitialBase,   \* the head's base fee when the history starts
  Tips,          \* the tips eth_maxPriorityFeePerGas may answer
  BaseMoves,     \* bound: the ways the base fee moves, of "down", "same" and "up"
  MaxBlocks,     \* bound: how many blocks are mined
  Faults,        \* the calls that may fail: "wallet", "nonce", "tip", "header", "send", "find",
                 \* "receipt"
  MaxFaults      \* bound: how many calls fail

\* A signed transaction, in whole units of gas.
Txs == [signer : Addresses, nonce : Nat, tip : Nat, cap : Nat, to : Addresses, value : Nat]

ASSUME ChainAssumption ==
  /\ Contracts \subseteq Addresses /\ Cropped \in Addresses
  /\ \A w \in Transfers : w.amount \in Int /\ AccountOf[w.wallet] \in Addresses
  /\ NoTx \notin Txs
  /\ InitialNonce \in [Addresses -> Nat]
  /\ InitialBase \in Nat /\ Tips \subseteq Nat /\ MaxBlocks \in Nat /\ MaxFaults \in Nat
  /\ BaseMoves \subseteq {"down", "same", "up"}

-----------------------------------------------------------------------------
(***************************************************************************)
(* Fees and transactions.                                                  *)
(***************************************************************************)

\* Mutant: the two multipliers taken for each other.
ScaleTipSwapped(tip, speed) ==
  (tip * (CASE speed = "fast" -> 8 [] speed = "economy" -> 15 [] OTHER -> 10)) \div 10

\* The suggested tip by speed, rounded down.
ScaleTip(tip, speed) ==
  (tip * (CASE speed = "fast" -> 15 [] speed = "economy" -> 8 [] OTHER -> 10)) \div 10

\* Mutant: one base fee instead of two.
MaxFeeTight(baseFee, tip) == baseFee + tip

\* maxFee, what a unit of gas may cost at most.
MaxFee(baseFee, tip) == 2 * baseFee + tip

\* HexToAddress never fails: it crops, pads and skips until it has an address.
HexToAddress(text) == IF text \in Addresses THEN text ELSE Cropped

\* The signed transaction; the node recovers its sender from the signature,
\* so it is the wallet's account whatever the request says.
BuildTransfer(w, n, suggested, baseFee) ==
  LET tip == ScaleTip(suggested, w.speed)
  IN  [signer |-> AccountOf[w.wallet], nonce |-> n, tip |-> tip, cap |-> MaxFee(baseFee, tip),
       to |-> HexToAddress(w.to), value |-> w.amount]

\* Mutant: its error not looked at.
EncodesAny(w) == TRUE

\* MarshalBinary refuses a negative value.
Encodes(w) == w.amount >= 0

-----------------------------------------------------------------------------
VARIABLES
  blocks,    \* node: how many blocks it mined
  base,      \* node: the base fee of its latest block
  nonce,     \* node: account -> its transactions in the chain
  parent,    \* node: the same before its latest block
  pool,      \* node: transactions waiting
  mined,     \* node: [tx, ok, block, tip] of the transactions in a block
  pc,        \* call -> its next step, or how it ended
  want,      \* call -> req and walletID
  counted,   \* call -> the answer of eth_getTransactionCount for "pending"
  known,     \* call -> the transactions the node had at that point
  suggested, \* call -> the answer of eth_maxPriorityFeePerGas
  head,      \* call -> block and base fee of the latest header
  tx,        \* call -> the signed transaction
  found,     \* call -> may a Status call go on to the receipt
  status,    \* call -> what Status answered last
  buried,    \* call -> was that an outcome, in a block with another on top
  faults

nodeVars == <<blocks, base, nonce, parent, pool, mined>>
callVars == <<want, counted, known, suggested, head, tx>>
statusVars == <<found, status, buried>>
vars == <<nodeVars, pc, callVars, statusVars, faults>>

Init ==
  /\ blocks = 0
  /\ base = InitialBase
  /\ nonce = InitialNonce /\ parent = InitialNonce
  /\ pool = {} /\ mined = {}
  /\ pc = [r \in Requests |-> "new"]
  /\ want = [r \in Requests |-> NoTransfer]
  /\ counted = [r \in Requests |-> 0]
  /\ known = [r \in Requests |-> {}]
  /\ suggested = [r \in Requests |-> 0]
  /\ head = [r \in Requests |-> [block |-> 0, base |-> 0]]
  /\ tx = [r \in Requests |-> NoTx]
  /\ found = [r \in Requests |-> FALSE]
  /\ status = [r \in Requests |-> "none"]
  /\ buried = [r \in Requests |-> FALSE]
  /\ faults = 0

Goes(r, stage) == pc' = [pc EXCEPT ![r] = stage]

Fails(call) == call \in Faults /\ faults < MaxFaults /\ faults' = faults + 1

-----------------------------------------------------------------------------
(***************************************************************************)
(* The node.                                                               *)
(***************************************************************************)

InChain == {m.tx : m \in mined}

SameSlot(t, u) == t.signer = u.signer /\ t.nonce = u.nonce

Taken(ts, a, n) == \E t \in ts : t.signer = a /\ t.nonce = n

\* The first nonce of the account the node has no transaction for.
PendingNonce(a) ==
  CHOOSE n \in nonce[a]..(nonce[a] + Cardinality(pool)) :
    ~Taken(pool, a, n) /\ \A k \in nonce[a]..(n - 1) : Taken(pool, a, k)

\* A transaction takes the place of another with its nonce when it pays a
\* tenth more, by both of its fees.
Outbids(t, u) ==
  /\ t.tip > u.tip /\ 10 * t.tip >= 11 * u.tip
  /\ t.cap > u.cap /\ 10 * t.cap >= 11 * u.cap

\* The node takes a transaction whose nonce is not used up, unless it has it
\* already or one with the same nonce that pays as well.
Acceptable(t) ==
  t.nonce >= nonce[t.signer] /\ \A u \in pool : SameSlot(t, u) => Outbids(t, u)

\* The base fee moves by an eighth at most, and by one at least when it rises.
NextBase ==
  {CASE move = "down" -> base - base \div 8
     [] move = "same" -> base
     [] move = "up"   -> base + Max({1, base \div 8}) : move \in BaseMoves}

\* Block h with base fee b becomes the latest, on the blocks before it.  It
\* holds the next transactions of each account that pay its base fee, and what
\* is left of a cap above that goes to the tip.  What was mined since, and is
\* not in it, waits again.
Connects(before, h, b) ==
  LET kept == {m \in mined : m.block < h}
      free == pool \cup {m.tx : m \in mined \ kept}
  IN  \E block \in SUBSET free :
        /\ \A t \in block :
             /\ t.cap >= b
             /\ \A n \in before[t.signer]..t.nonce : Taken(block, t.signer, n)
        /\ blocks' = h /\ base' = b /\ parent' = before
        /\ nonce' = [a \in Addresses |-> before[a] + Cardinality({t \in block : t.signer = a})]
        /\ pool' = free \ block
        /\ mined' = kept \cup
             {[tx |-> t, ok |-> t.to \notin Contracts, block |-> h, tip |-> Min({t.tip, t.cap - b})] : t \in block}
        /\ UNCHANGED <<pc, callVars, statusVars, faults>>

Mine == blocks < MaxBlocks /\ \E b \in NextBase : Connects(nonce, blocks + 1, b)

\* Bound on reorganisations: the latest block, but not the one before it, is
\* replaced by another, whose base fee is the same because it follows from the
\* block before.
Fork == blocks > 0 /\ Connects(parent, blocks, base)

-----------------------------------------------------------------------------
(***************************************************************************)
(* A call of Transfer.                                                     *)
(***************************************************************************)

\* The wallet is read and its seed unlocked.
Begin(r) ==
  /\ pc[r] = "new"
  /\ \E w \in Transfers : want' = [want EXCEPT ![r] = w]
  /\ \/ UNCHANGED faults /\ Goes(r, "nonce")
     \/ Fails("wallet") /\ Goes(r, "failed")
  /\ UNCHANGED <<nodeVars, counted, known, suggested, head, tx, statusVars>>

\* Mutant: the calls still on their way counted too, as a nonce kept in the
\* adapter would.
NonceReserved(r) ==
  PendingNonce(HexToAddress(want[r].from))
    + Cardinality({q \in Requests \ {r} : pc[q] \in {"tip", "header", "send"} /\ want[q].from = want[r].from})

\* What the nonce of the transaction is going to be.
NonceFor(r) == PendingNonce(HexToAddress(want[r].from))

\* PendingNonceAt the sender the request names.
PendingNonceAt(r) ==
  /\ pc[r] = "nonce"
  /\ \/ /\ counted' = [counted EXCEPT ![r] = NonceFor(r)]
        /\ known' = [known EXCEPT ![r] = pool \cup InChain]
        /\ UNCHANGED faults
        /\ Goes(r, "tip")
     \/ /\ Fails("nonce")
        /\ UNCHANGED <<counted, known>>
        /\ Goes(r, "failed")
  /\ UNCHANGED <<nodeVars, want, suggested, head, tx, statusVars>>

SuggestGasTipCap(r) ==
  /\ pc[r] = "tip"
  /\ \/ /\ \E t \in Tips : suggested' = [suggested EXCEPT ![r] = t]
        /\ UNCHANGED faults
        /\ Goes(r, "header")
     \/ /\ Fails("tip")
        /\ UNCHANGED suggested
        /\ Goes(r, "failed")
  /\ UNCHANGED <<nodeVars, want, counted, known, head, tx, statusVars>>

\* The latest header, and with its base fee everything up to the broadcast.
HeaderByNumber(r) ==
  /\ pc[r] = "header"
  /\ \/ /\ Encodes(want[r])
        /\ head' = [head EXCEPT ![r] = [block |-> blocks, base |-> base]]
        /\ tx' = [tx EXCEPT ![r] = BuildTransfer(want[r], counted[r], suggested[r], base)]
        /\ UNCHANGED faults
        /\ Goes(r, "send")
     \/ /\ (~Encodes(want[r]) /\ UNCHANGED faults) \/ Fails("header")
        /\ UNCHANGED <<head, tx>>
        /\ Goes(r, "failed")
  /\ UNCHANGED <<nodeVars, want, counted, known, suggested, statusVars>>

\* SendTransaction; a failed call may have reached the node.
Broadcast(r) ==
  /\ pc[r] = "send"
  /\ \/ /\ Acceptable(tx[r])
        /\ pool' = {u \in pool : ~SameSlot(u, tx[r])} \cup {tx[r]}
        /\ \/ UNCHANGED faults /\ Goes(r, "answered")
           \/ Fails("send") /\ Goes(r, "failed")
     \/ /\ (~Acceptable(tx[r]) /\ UNCHANGED faults) \/ Fails("send")
        /\ UNCHANGED pool
        /\ Goes(r, "failed")
  /\ UNCHANGED <<blocks, base, nonce, parent, mined, callVars, statusVars>>

Transfer(r) ==
  Begin(r) \/ PendingNonceAt(r) \/ SuggestGasTipCap(r) \/ HeaderByNumber(r) \/ Broadcast(r)

-----------------------------------------------------------------------------
(***************************************************************************)
(* GetTransaction for the hash a call was answered with: the transaction   *)
(* and its receipt are two calls.                                          *)
(***************************************************************************)

\* What is answered, and whether it is the outcome in a block that is not the
\* latest.
Answers(r, answer) ==
  /\ status' = [status EXCEPT ![r] = answer]
  /\ buried' = [buried EXCEPT ![r] =
       answer \in {"confirmed", "failed"} /\ \E m \in mined : m.tx = tx[r] /\ m.block < blocks]

TransactionByHash(r) ==
  /\ pc[r] = "answered" /\ ~found[r]
  /\ \/ /\ tx[r] \in pool \cup InChain
        /\ found' = [found EXCEPT ![r] = TRUE]
        /\ UNCHANGED <<status, buried, faults>>
     \/ /\ tx[r] \notin pool \cup InChain
        /\ Answers(r, "unknown")
        /\ UNCHANGED <<found, faults>>
     \/ Fails("find") /\ UNCHANGED statusVars
  /\ UNCHANGED <<nodeVars, pc, callVars>>

\* Mutant: what has no receipt is not known.
NoReceiptUnknown == "unknown"

\* What no receipt means to GetTransaction, and an error of the call as well.
NoReceipt == "pending"

\* The receipt of a mined transaction, and its status.
ReceiptStatus(t) ==
  IF t \notin InChain THEN NoReceipt
  ELSE IF \E m \in mined : m.tx = t /\ m.ok THEN "confirmed" ELSE "failed"

TransactionReceipt(r) ==
  /\ found[r]
  /\ found' = [found EXCEPT ![r] = FALSE]
  /\ \/ UNCHANGED faults /\ Answers(r, ReceiptStatus(tx[r]))
     \/ Fails("receipt") /\ Answers(r, NoReceipt)
  /\ UNCHANGED <<nodeVars, pc, callVars>>

Status(r) == TransactionByHash(r) \/ TransactionReceipt(r)

Next == Mine \/ Fork \/ \E r \in Requests : Transfer(r) \/ Status(r)

Spec == Init /\ [][Next]_vars

-----------------------------------------------------------------------------

Stages == {"new", "nonce", "tip", "header", "send", "answered", "failed"}

\* The type of every variable.
TypeOK ==
  /\ blocks \in 0..MaxBlocks /\ base \in Nat
  /\ nonce \in [Addresses -> Nat] /\ parent \in [Addresses -> Nat]
  /\ \A t \in pool \cup InChain : t.signer \in Addresses /\ t.nonce \in Nat /\ t.value \in Nat /\ t.tip \in 0..t.cap
  /\ pc \in [Requests -> Stages]
  /\ want \in [Requests -> Transfers \cup {NoTransfer}]
  /\ counted \in [Requests -> Nat] /\ suggested \in [Requests -> Tips \cup {0}]
  /\ found \in [Requests -> BOOLEAN] /\ buried \in [Requests -> BOOLEAN]
  /\ status \in [Requests -> {"none", "pending", "confirmed", "failed", "unknown"}]
  /\ faults \in 0..MaxFaults

\* The sender the request names is the account that signs for it.
FromOwn(r) == want[r].from = AccountOf[want[r].wallet]

\* A transaction the node took can be mined once those before it are: calls
\* that fail, and calls that overtake one another, leave no gap in the nonces,
\* unless the sender the request names is not the account that signs.
NoNonceGap ==
  \A r \in Requests :
    tx[r] \in pool /\ FromOwn(r) =>
      \A n \in nonce[tx[r].signer]..tx[r].nonce : Taken(pool, tx[r].signer, n)

\* Two calls that both pay were one after the other: the one with the higher
\* nonce read it when the other's was in use.  Calls that overlap up to that
\* point exclude or replace one another, and a request sent twice at once is
\* paid once.
PaidOneAfterOther ==
  \A q, r \in Requests :
    /\ {tx[q], tx[r]} \subseteq InChain
    /\ FromOwn(q) /\ FromOwn(r)
    /\ tx[q].signer = tx[r].signer /\ tx[q].nonce < tx[r].nonce
    => Taken(known[r], tx[q].signer, tx[q].nonce)

Rank(speed) == CASE speed = "economy" -> 0 [] speed = "fast" -> 2 [] OTHER -> 1

\* A transaction the caller has the hash of stays with the node, unless a call
\* that overlapped took its nonce with a faster speed, or with a higher tip of
\* the node's; a rise of the base fee alone replaces nothing.
AnsweredStays ==
  \A r \in Requests :
    pc[r] = "answered" /\ tx[r] \notin pool \cup InChain =>
      \E q \in Requests \ {r} :
        /\ tx[q] \in pool \cup InChain /\ SameSlot(tx[q], tx[r])
        /\ Rank(want[q].speed) > Rank(want[r].speed) \/ suggested[q] > suggested[r]

\* Twice the base fee is enough for five blocks: a transaction mined by then
\* pays the tip its speed stands for in full, however fast the base fee rises.
TipPaidForFiveBlocks ==
  \A r \in Requests, m \in mined :
    m.tx = tx[r] /\ m.block - head[r].block \in 1..5 => m.tip = ScaleTip(suggested[r], want[r].speed)

\* An outcome Status answered when its block had another on top is final, but
\* for a receipt call that fails: a transaction that is mined is neither
\* reported as unknown nor, between the two calls for it, as anything else.
\* Status answers the outcome in the latest block no differently, and that one
\* is taken back when the block is replaced.
StatusIsFinal ==
  [][\A r \in Requests :
       buried[r] => status'[r] = status[r] \/ (status'[r] = "pending" /\ faults' > faults)]_vars
================================================================================
