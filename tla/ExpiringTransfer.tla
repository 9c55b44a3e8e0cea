--------------------------- MODULE ExpiringTransfer ---------------------------
(***************************************************************************)
(* Transfer and Status on Solana and on TRON.  Neither chain numbers the   *)
(* transactions of an account: a transaction names a recent block, is      *)
(* valid for a while after it and is executed at most once.  Whether a     *)
(* caller who is left without an answer, or with a transaction nobody has  *)
(* seen since, may ask again without paying twice hangs on the block the   *)
(* adapter names and on what Status makes of a transaction it cannot find. *)
(* The account is one whose path derives: Create makes none on Solana.     *)
(***************************************************************************)
EXTENDS Integers, FiniteSets

CONSTANTS
  Chains,      \* of "solana" and "tron", the chains a behaviour may be on
  Requests,    \* the payments callers want made
  Payments,    \* what a payment may be: from, to, amount
  Addresses,   \* the texts that are addresses
  Own,         \* the address of the wallet's account
  MaxTries,    \* bound: calls of Transfer for a payment
  NoTx,        \* the call has built no transaction
  Word,        \* 2^64, the range of an amount on the wire
  Window,      \* how many blocks after the one it names a transaction is valid
  Stamps,      \* the milliseconds a TRON node may date a transaction with
  MaxHeight,   \* bound: the last block
  Faults,      \* the calls that may fail: "build", "send", "find", "info"
  MaxFaults    \* bound: how many calls fail

\* A signed transaction.
Txs == [from : Addresses, to : Addresses, amount : Int, ref : Nat, stamp : Stamps \cup {0}, signer : {Own}]

ASSUME ChainAssumption ==
  /\ Chains \subseteq {"solana", "tron"} /\ Own \in Addresses
  /\ \A p \in Payments : p.amount \in Int
  /\ NoTx \notin Txs
  /\ Word \in Nat /\ Word > 0 /\ Word % 2 = 0
  /\ MaxTries \in Nat /\ Window \in Nat /\ MaxHeight \in Nat \ {0} /\ MaxFaults \in Nat

Calls == Requests \X (1..MaxTries)

VARIABLES
  chain,      \* the chain
  height,     \* node: its latest block
  confirmed,  \* node: the latest block nothing replaces: "confirmed" on Solana, solid on TRON
  pool,       \* node: transactions waiting for a block
  landed,     \* node: [tx, at, ok, err] of the transactions in a block
  want,       \* payment -> what it is
  pc,         \* call -> its next step, or how it ended
  tx,         \* call -> the signed transaction
  ended,      \* call -> the latest block when it was answered
  found,      \* call -> may a TRON Status call go on to the second question
  status,     \* call -> what Status answered last
  late,       \* call -> was that "unknown", after the transaction's time
  faults

nodeVars == <<height, confirmed, pool, landed>>
statusVars == <<found, status, late>>
vars == <<chain, nodeVars, want, pc, tx, ended, statusVars, faults>>

Init ==
  /\ chain \in Chains
  /\ height = 1 /\ confirmed = 1
  /\ pool = {} /\ landed = {}
  /\ want \in [Requests -> Payments]
  /\ pc = [a \in Calls |-> "new"]
  /\ tx = [a \in Calls |-> NoTx]
  /\ ended = [a \in Calls |-> 0]
  /\ found = [a \in Calls |-> FALSE]
  /\ status = [a \in Calls |-> "none"]
  /\ late = [a \in Calls |-> FALSE]
  /\ faults = 0

Goes(a, stage) == pc' = [pc EXCEPT ![a] = stage]

Fails(call) == call \in Faults /\ faults < MaxFaults /\ faults' = faults + 1

-----------------------------------------------------------------------------
(***************************************************************************)
(* The node.                                                               *)
(***************************************************************************)

InChain == {l.tx : l \in landed}

\* A transaction can be in block h.
ValidAt(t, h) == h - t.ref <= Window

\* The failed transactions the node reports in the words the adapter looks for:
\* meta.Err is set for each of them on Solana; on TRON it depends on the failure
\* whether receipt.result is "FAILED".
Reported(failed) == IF chain = "solana" THEN {failed} ELSE SUBSET failed

\* The transactions of a block as they were executed.
Executed(block, h, oks, errs) ==
  {[tx |-> t, at |-> h, ok |-> t \in oks, err |-> t \in errs] : t \in block}

\* The next block, with some of the transactions waiting.  One that is out of
\* funds by then is executed as failed, or left out for good.
Mine ==
  /\ height < MaxHeight
  /\ height' = height + 1
  /\ \E block \in SUBSET {t \in pool : ValidAt(t, height')} :
       /\ \E oks \in SUBSET block : \E errs \in Reported(block \ oks) :
            landed' = landed \cup Executed(block, height', oks, errs)
       /\ pool' = {t \in pool \ block : ValidAt(t, height' + 1)}
  /\ UNCHANGED <<chain, confirmed, want, pc, tx, ended, statusVars, faults>>

\* Enough validators have voted for, or built upon, the blocks up to some height.
Confirm ==
  /\ confirmed' \in (confirmed + 1)..height
  /\ UNCHANGED <<chain, height, pool, landed, want, pc, tx, ended, statusVars, faults>>

\* The blocks after that are replaced by others: a transaction they held, or one
\* that waits, is in one of those now, waits again, or is dropped.
Fork ==
  /\ confirmed < height
  /\ LET settled == {l \in landed : l.at <= confirmed}
         loose   == pool \cup (InChain \ {l.tx : l \in settled})
     IN  /\ loose # {}
         /\ \E block \in SUBSET loose, h \in (confirmed + 1)..height :
              /\ \A t \in block : t.ref < h /\ ValidAt(t, h)
              /\ \E oks \in SUBSET block : \E errs \in Reported(block \ oks) :
                   landed' = settled \cup Executed(block, h, oks, errs)
              /\ pool' \in SUBSET {t \in loose \ block : ValidAt(t, height + 1)}
  /\ UNCHANGED <<chain, height, confirmed, want, pc, tx, ended, statusVars, faults>>

\* The node takes a transaction that is signed by its payer, in time and not in
\* a block yet; a TRON node refuses one that is waiting as well.
Acceptable(t) ==
  /\ t.signer = t.from
  /\ ValidAt(t, height)
  /\ t \notin InChain
  /\ chain = "tron" => t \notin pool

-----------------------------------------------------------------------------
(***************************************************************************)
(* A call of Transfer.                                                     *)
(***************************************************************************)

Abs(n) == IF n < 0 THEN -n ELSE n

\* Mutant: half the range taken for all of it.
Uint64Halved(n) == Abs(n) % (Word \div 2)

\* big.Int.Uint64: the low bits of the absolute value.
Uint64(n) == Abs(n) % Word

\* big.Int.Int64: the low bits, as a signed number.
Int64(n) == ((n + Word \div 2) % Word) - Word \div 2

\* The message names the latest confirmed block, and nothing in it tells two
\* calls apart; it is signed with the wallet's key, whoever is to pay.
SolanaTransfer(p) ==
  [from |-> p.from, to |-> p.to, amount |-> Uint64(p.amount), ref |-> confirmed, stamp |-> 0, signer |-> Own]

\* A TRON node writes the transaction: it names its own latest block and time.
TronTransfer(p, stamp) ==
  [from |-> p.from, to |-> p.to, amount |-> Int64(p.amount), ref |-> height, stamp |-> stamp, signer |-> Own]

\* Both addresses decode.
Decodes(p) == p.from \in Addresses /\ p.to \in Addresses

\* A caller asks for a payment once more when the calls before have failed, or
\* what they were answered with is unknown after its time.
MayTry(a) ==
  \A n \in 1..(a[2] - 1) : pc[<<a[1], n>>] = "failed" \/ late[<<a[1], n>>]

\* The wallet's account and key are looked up, and the transfer is built and
\* signed.
Build(a) ==
  /\ pc[a] = "new" /\ MayTry(a)
  /\ LET p == want[a[1]]
     IN  \/ /\ chain = "solana" /\ Decodes(p)
            /\ tx' = [tx EXCEPT ![a] = SolanaTransfer(p)]
            /\ Goes(a, "send") /\ UNCHANGED faults
         \/ /\ chain = "tron" /\ Decodes(p) /\ Int64(p.amount) > 0
            /\ \E s \in Stamps : tx' = [tx EXCEPT ![a] = TronTransfer(p, s)]
            /\ Goes(a, "send") /\ UNCHANGED faults
         \/ /\ \/ ~Decodes(p) /\ UNCHANGED faults
               \/ chain = "tron" /\ Decodes(p) /\ Int64(p.amount) <= 0 /\ UNCHANGED faults
               \/ Fails("build")
            /\ Goes(a, "failed") /\ UNCHANGED tx
  /\ UNCHANGED <<chain, nodeVars, want, ended, statusVars>>

\* The node takes the transaction, or refuses it for want of funds as well; the
\* answer to one that was taken may be lost.
Broadcast(a) ==
  /\ pc[a] = "send"
  /\ \/ /\ Acceptable(tx[a])
        /\ pool' = pool \cup {tx[a]}
        /\ \/ Goes(a, "answered") /\ UNCHANGED faults
           \/ Goes(a, "failed") /\ Fails("send")
     \/ UNCHANGED <<pool, faults>> /\ Goes(a, "failed")
  /\ ended' = [ended EXCEPT ![a] = height]
  /\ UNCHANGED <<chain, height, confirmed, landed, want, tx, statusVars>>

-----------------------------------------------------------------------------
(***************************************************************************)
(* GetTransaction for the hash a call was answered with.                   *)
(***************************************************************************)

\* Mutant: the commitment "processed".
SeenProcessed == height

\* The block up to which a question is answered: Solana is asked for its
\* commitment "confirmed", TRON's /wallet answers from the latest.
Seen == IF chain = "solana" THEN confirmed ELSE height

Visible(t) == {l \in landed : l.tx = t /\ l.at <= Seen}

\* Mutant: the status left out of the answer for a failed transaction.
ResultUnset(t) == IF \E l \in Visible(t) : l.err THEN "" ELSE "confirmed"

\* The status of a transaction that was found: confirmed, unless the node says
\* in the words the adapter looks for that it failed.
Result(t) == IF \E l \in Visible(t) : l.err THEN "failed" ELSE "confirmed"

\* Status has an answer, and the caller knows whether the blocks the transaction
\* could be in are all there for good.
Answers(a, s) ==
  /\ status' = [status EXCEPT ![a] = s]
  /\ late' = [late EXCEPT ![a] = s = "unknown" /\ confirmed > ended[a] + Window]

\* Mutant: any error of the call taken for "not found".
ErrsUnknown(a) == Answers(a, "unknown")

\* An error of the call is no answer: the caller knows what it knew.
Errs(a) == UNCHANGED <<status, late>>

SolanaGetTransaction(a) ==
  /\ chain = "solana" /\ pc[a] = "answered"
  /\ \/ UNCHANGED faults /\ Answers(a, IF Visible(tx[a]) = {} THEN "unknown" ELSE Result(tx[a]))
     \/ Fails("find") /\ Errs(a)
  /\ UNCHANGED <<chain, nodeVars, want, pc, tx, ended, found>>

\* The first question, whether the transaction is in a block.
TronGetTransaction(a) ==
  /\ chain = "tron" /\ pc[a] = "answered" /\ ~found[a]
  /\ \/ Visible(tx[a]) = {} /\ Answers(a, "unknown") /\ UNCHANGED <<found, faults>>
     \/ /\ Visible(tx[a]) # {}
        /\ found' = [found EXCEPT ![a] = TRUE] /\ UNCHANGED <<status, late, faults>>
     \/ Fails("find") /\ Errs(a) /\ UNCHANGED found
  /\ UNCHANGED <<chain, nodeVars, want, pc, tx, ended>>

\* The second, in which.  Its error is dropped, and the block may be gone.
TronTransactionInfo(a) ==
  /\ found[a]
  /\ found' = [found EXCEPT ![a] = FALSE]
  /\ \/ UNCHANGED faults /\ Answers(a, IF Visible(tx[a]) = {} THEN "pending" ELSE Result(tx[a]))
     \/ Fails("info") /\ Answers(a, "pending")
  /\ UNCHANGED <<chain, nodeVars, want, pc, tx, ended>>

Next ==
  \/ Mine \/ Confirm \/ Fork
  \/ \E a \in Calls :
       Build(a) \/ Broadcast(a)
         \/ SolanaGetTransaction(a) \/ TronGetTransaction(a) \/ TronTransactionInfo(a)

Spec == Init /\ [][Next]_vars

-----------------------------------------------------------------------------

Stages == {"new", "send", "answered", "failed"}

\* The type of every variable.
TypeOK ==
  /\ chain \in Chains /\ height \in 1..MaxHeight /\ confirmed \in 1..height
  /\ \A t \in pool \cup InChain :
       {t.from, t.to, t.signer} \subseteq Addresses /\ t.ref \in 1..height
  /\ pc \in [Calls -> Stages] /\ want \in [Requests -> Payments]
  /\ found \in [Calls -> BOOLEAN] /\ late \in [Calls -> BOOLEAN]
  /\ status \in [Calls -> {"none", "pending", "confirmed", "failed", "unknown"}]
  /\ faults \in 0..MaxFaults

Paid(a) == \E l \in landed : l.tx = tx[a] /\ l.ok

\* A caller who has the hash of a transaction, and asks for the payment again
\* only when Status answers unknown after the transaction's time, pays once:
\* two payments for one request mean that the answer of Broadcast was lost.
\* On Solana not even then while the block named is the same, because calls for
\* one payment are one transaction.
PaidOnce ==
  \A r \in Requests, m, n \in 1..MaxTries :
    m < n /\ Paid(<<r, m>>) /\ Paid(<<r, n>>) /\ tx[<<r, m>>] # tx[<<r, n>>] =>
      /\ pc[<<r, m>>] = "failed"
      /\ chain = "solana" => tx[<<r, m>>].ref # tx[<<r, n>>].ref

\* The amounts that survive the conversion to the chain's integer.
Fits(n) == n >= 0 /\ n < (IF chain = "solana" THEN Word ELSE Word \div 2)

\* What is paid is what was asked for, from the wallet's own account: a request
\* that names another sender pays nothing, and an amount the chain's integer
\* holds is the amount paid.
PaidIsAsked ==
  \A a \in Calls :
    Paid(a) => LET p == want[a[1]]
               IN  p.from = Own /\ tx[a].to = p.to /\ (Fits(p.amount) => tx[a].amount = p.amount)

\* The blocks that stay say s of the transaction.
SettledAs(t, s) == \E l \in landed : l.tx = t /\ l.at <= confirmed /\ (l.err <=> s = "failed")

\* An answer of confirmed or failed is never taken back on Solana, whatever
\* blocks are replaced.  On TRON it is when its block was, and when the second
\* question of a later call fails.
StatusIsFinal ==
  [][\A a \in Calls :
       status[a] \in {"confirmed", "failed"} /\ status'[a] # status[a] =>
         /\ chain = "tron"
         /\ SettledAs(tx[a], status[a]) => status'[a] = "pending" /\ faults' > faults]_vars
================================================================================
