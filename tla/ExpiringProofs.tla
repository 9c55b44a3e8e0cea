----------------------------- MODULE ExpiringProofs -----------------------------
(***************************************************************************)
(* Proofs about ExpiringTransfer, for any number of payments, of calls for *)
(* each and of blocks, any window of validity and any width of amounts.    *)
(***************************************************************************)
EXTENDS ExpiringTransfer, TLAPS

LandedTxs == [tx : Txs, at : Nat, ok : BOOLEAN, err : BOOLEAN]

\* What a variable may hold, where TypeOK does not say it.
Held ==
  /\ TypeOK
  /\ tx \in [Calls -> Txs \cup {NoTx}]
  /\ ended \in [Calls -> Nat]
  /\ landed \subseteq LandedTxs
  /\ pool \subseteq Txs

\* The transaction of a call is the one its payment asks for.
Asked(a) ==
  LET p == want[a[1]]
      t == tx[a]
  IN  /\ t.from = p.from /\ t.to = p.to
      /\ t.ref <= height
      /\ t.ref >= 1
      /\ chain = "solana" => t.stamp = 0 /\ t.amount = Uint64(p.amount)
      /\ chain = "tron" => t.amount = Int64(p.amount) /\ t.amount > 0

Built ==
  \A a \in Calls :
    /\ pc[a] = "new" => tx[a] = NoTx
    /\ pc[a] \in {"send", "answered"} => tx[a] # NoTx
    /\ tx[a] # NoTx => Asked(a)
    /\ pc[a] = "answered" => tx[a].ref <= ended[a]

\* A transaction is in one block, in its time, or waits; its payer signed it.
OneBlock ==
  /\ pool \cap InChain = {}
  /\ \A l, k \in landed : l.tx = k.tx => l = k
  /\ \A l \in landed : l.at <= height /\ ValidAt(l.tx, l.at)
  /\ \A t \in pool \cup InChain : t.from = Own

\* The transaction is in no block and cannot get into one any more, whatever
\* blocks are replaced.
Gone(t) == t \notin InChain /\ confirmed > t.ref + Window

\* A caller who asks again has nothing left to fear from the call before, if it
\* was answered.
Retried ==
  /\ \A a \in Calls : late[a] => pc[a] = "answered" /\ Gone(tx[a])
  /\ \A a \in Calls : found[a] => pc[a] = "answered" /\ chain = "tron"
  /\ \A r \in Requests, m, n \in 1..MaxTries :
       m < n /\ pc[<<r, n>>] # "new" =>
         \/ pc[<<r, m>>] = "failed"
         \/ pc[<<r, m>>] = "answered" /\ Gone(tx[<<r, m>>])

\* What Solana has answered is in a block that stays.
Settled ==
  \A a \in Calls :
    chain = "solana" /\ status[a] \in {"confirmed", "failed"} =>
      tx[a] # NoTx /\ SettledAs(tx[a], status[a])

Inv == Held /\ Built /\ OneBlock /\ Retried /\ Settled

-----------------------------------------------------------------------------
(***************************************************************************)
(* Amounts.                                                                *)
(***************************************************************************)

\* The remainder of a division by the range is within it.
LEMMA Remainder ==
  ASSUME NEW n \in Int
  PROVE  /\ n % Word \in 0..(Word - 1)
         /\ n \in 0..(Word - 1) => n % Word = n
<1>1. Word \in Nat /\ Word > 0
  BY ChainAssumption
<1>. QED
  BY <1>1

\* Half the range is a number below it.
LEMMA HalfWord == Word \div 2 \in Nat /\ 2 * (Word \div 2) = Word
BY ChainAssumption

\* big.Int.Uint64 stays in the range, and keeps what fits.
LEMMA Uint64Range ==
  ASSUME NEW n \in Int
  PROVE  /\ Uint64(n) \in 0..(Word - 1)
         /\ n \in 0..(Word - 1) => Uint64(n) = n
<1>1. Abs(n) \in Int /\ (n >= 0 => Abs(n) = n)
  BY DEF Abs
<1>. QED
  BY <1>1, Remainder DEF Uint64

\* big.Int.Int64 is a signed number of the range, and keeps what fits.
LEMMA Int64Range ==
  ASSUME NEW n \in Int
  PROVE  /\ Int64(n) \in Int /\ Int64(n) < Word \div 2
         /\ n >= 0 /\ n < Word \div 2 => Int64(n) = n
<1>1. n + Word \div 2 \in Int
  BY HalfWord
<1>2. (n + Word \div 2) % Word \in 0..(Word - 1)
  BY <1>1, Remainder
<1>3. n >= 0 /\ n < Word \div 2 => (n + Word \div 2) % Word = n + Word \div 2
  BY <1>1, HalfWord, Remainder
<1>. QED
  BY <1>1, <1>2, <1>3, HalfWord, ChainAssumption DEF Int64

-----------------------------------------------------------------------------
(***************************************************************************)
(* The node.                                                               *)
(***************************************************************************)

\* A step of the node makes no transaction: what has to be shown of it is where
\* the ones there are may be.
LEMMA NodeKeeps ==
  ASSUME Inv, UNCHANGED <<chain, want, pc, tx, ended, statusVars, faults>>,
         height' \in height..MaxHeight, confirmed' \in confirmed..height',
         landed' \subseteq LandedTxs, pool' \cup InChain' \subseteq pool \cup InChain,
         OneBlock',
         \A t \in Txs : Gone(t) => Gone(t)',
         \A t \in Txs : \A s : SettledAs(t, s) => SettledAs(t, s)'
  PROVE  Inv'
<1>1. /\ UNCHANGED <<chain, want, pc, tx, ended, found, status, late, faults>>
      /\ height \in 1..MaxHeight /\ confirmed \in 1..height
      /\ height' \in 1..MaxHeight /\ confirmed' \in 1..height'
      /\ tx \in [Calls -> Txs \cup {NoTx}]
  BY ChainAssumption DEF Inv, Held, TypeOK, statusVars
<1>2. Held'
  <2>1. pool' \subseteq Txs
    <3>1. InChain \subseteq Txs
      BY DEF Inv, Held, InChain, LandedTxs
    <3>. QED
      BY <3>1 DEF Inv, Held
  <2>2. TypeOK'
    <3>1. \A t \in pool' \cup InChain' :
             {t.from, t.to, t.signer} \subseteq Addresses /\ t.ref \in 1..height'
      BY <1>1 DEF Inv, Held, TypeOK
    <3>. QED
      BY <1>1, <3>1 DEF Inv, Held, TypeOK
  <2>. QED
    BY <1>1, <2>1, <2>2 DEF Inv, Held
<1>3. Built'
  <2>1. \A a \in Calls : tx[a] # NoTx /\ Asked(a) => Asked(a)'
    BY <1>1 DEF Asked, Txs, Uint64, Int64, Abs
  <2>. QED
    BY <1>1, <2>1 DEF Inv, Built
<1>4. Retried'
  <2>1. ASSUME NEW a \in Calls, pc[a] = "answered", Gone(tx[a])
        PROVE  Gone(tx[a])'
    <3>1. tx[a] \in Txs
      BY <1>1, <2>1 DEF Inv, Built
    <3>. QED
      BY <1>1, <2>1, <3>1 DEF Gone
  <2>2. \A r \in Requests, m \in 1..MaxTries : <<r, m>> \in Calls
    BY DEF Calls
  <2>. QED
    BY <1>1, <2>1, <2>2 DEF Inv, Retried
<1>5. Settled'
  BY <1>1 DEF Inv, Settled, SettledAs
<1>. QED
  BY <1>2, <1>3, <1>4, <1>5 DEF Inv

\* What a block with some transactions adds to what has landed.
LEMMA Fresh ==
  ASSUME NEW B \in SUBSET Txs, NEW O, NEW E, NEW h \in Nat
  PROVE  /\ Executed(B, h, O, E) \subseteq LandedTxs
         /\ {l.tx : l \in Executed(B, h, O, E)} = B
         /\ \A l \in Executed(B, h, O, E) : l.at = h
         /\ \A l, k \in Executed(B, h, O, E) : l.tx = k.tx => l = k
<1> DEFINE As(t) == [tx |-> t, at |-> h, ok |-> t \in O, err |-> t \in E]
<1>1. ASSUME NEW t \in B PROVE As(t) \in LandedTxs /\ As(t).tx = t /\ As(t).at = h
  <2>1. ASSUME NEW b \in BOOLEAN, NEW c \in BOOLEAN
        PROVE  [tx |-> t, at |-> h, ok |-> b, err |-> c] \in LandedTxs
    BY DEF LandedTxs
  <2>2. As(t) \in LandedTxs
    <3>1. (t \in O) \in BOOLEAN /\ (t \in E) \in BOOLEAN
      OBVIOUS
    <3>. QED
      BY <2>1, <3>1
  <2>. QED
    BY <2>2
<1>2. Executed(B, h, O, E) = {As(t) : t \in B}
  BY DEF Executed
<1> HIDE DEF As
<1>3. ASSUME NEW t \in B PROVE t \in {l.tx : l \in Executed(B, h, O, E)}
  BY <1>1, <1>2
<1>4. ASSUME NEW l \in Executed(B, h, O, E)
      PROVE  l \in LandedTxs /\ l.tx \in B /\ l.at = h /\ l = As(l.tx)
  BY <1>1, <1>2
<1>. QED
  BY <1>3, <1>4

\* A block takes transactions that wait and are valid in it.
LEMMA MineInv == ASSUME Inv, Mine PROVE Inv'
<1>1. /\ height < MaxHeight /\ height' = height + 1
      /\ UNCHANGED <<chain, confirmed, want, pc, tx, ended, statusVars, faults>>
  BY DEF Mine
<1>0. PICK block \in SUBSET {t \in pool : ValidAt(t, height')} :
        /\ \E oks \in SUBSET block : \E errs \in Reported(block \ oks) :
             landed' = landed \cup Executed(block, height', oks, errs)
        /\ pool' = {t \in pool \ block : ValidAt(t, height' + 1)}
  BY DEF Mine
<1>a. PICK oks \in SUBSET block : \E errs \in Reported(block \ oks) :
        landed' = landed \cup Executed(block, height', oks, errs)
  BY <1>0
<1>b. PICK errs \in Reported(block \ oks) :
        landed' = landed \cup Executed(block, height', oks, errs)
  BY <1>a
<1> DEFINE fresh == Executed(block, height', oks, errs)
<1>2. /\ landed' = landed \cup fresh
      /\ pool' = {t \in pool \ block : ValidAt(t, height' + 1)}
  BY <1>0, <1>b
<1>3. /\ height \in Nat /\ confirmed \in Nat /\ confirmed <= height /\ MaxHeight \in Nat /\ Window \in Nat
      /\ pool \subseteq Txs /\ landed \subseteq LandedTxs /\ OneBlock
      /\ block \subseteq pool
  BY <1>2, ChainAssumption DEF Inv, Held, TypeOK
<1>f. /\ fresh \subseteq LandedTxs /\ {l.tx : l \in fresh} = block
      /\ \A l \in fresh : l.at = height'
      /\ \A l, k \in fresh : l.tx = k.tx => l = k
  BY <1>1, <1>3, Fresh
<1> HIDE DEF fresh
<1>4. InChain' = InChain \cup block
  BY <1>f, <1>2 DEF InChain
<1>5. landed' \subseteq LandedTxs
  BY <1>2, <1>3, <1>f
<1>6. OneBlock'
  <2>1. pool' \cap InChain' = {} /\ \A t \in pool' \cup InChain' : t.from = Own
    BY <1>2, <1>3, <1>4 DEF OneBlock
  <2>2. ASSUME NEW l \in landed', NEW k \in landed', l.tx = k.tx PROVE l = k
    <3>1. \A j \in landed : j.tx \notin block
      BY <1>3 DEF OneBlock, InChain
    <3>. QED
      BY <1>2, <1>3, <1>f, <2>2, <3>1 DEF OneBlock
  <2>3. ASSUME NEW l \in landed' PROVE l.at <= height' /\ ValidAt(l.tx, l.at)
    <3>1. CASE l \in landed
      BY <1>1, <1>3, <3>1 DEF OneBlock, LandedTxs
    <3>2. CASE l \notin landed
      BY <1>0, <1>1, <1>2, <1>3, <1>f, <3>2
    <3>. QED
      BY <3>1, <3>2
  <2>. QED
    BY <1>1, <2>1, <2>2, <2>3 DEF OneBlock, ValidAt
<1>7. \A t \in Txs : Gone(t) => Gone(t)'
  <2>1. ASSUME NEW t \in block PROVE ~(confirmed > t.ref + Window)
    <3>1. t.ref \in Nat /\ height + 1 - t.ref <= Window
      BY <1>0, <1>1, <1>3 DEF ValidAt, Txs
    <3>. QED
      BY <1>3, <3>1
  <2>. QED
    BY <1>1, <1>4, <2>1 DEF Gone
<1>8. \A t \in Txs : \A s : SettledAs(t, s) => SettledAs(t, s)'
  BY <1>1, <1>2 DEF SettledAs
<1>. QED
  BY <1>1, <1>2, <1>3, <1>4, <1>5, <1>6, <1>7, <1>8, NodeKeeps

\* More blocks stay.
LEMMA ConfirmInv == ASSUME Inv, Confirm PROVE Inv'
<1>1. /\ confirmed' \in (confirmed + 1)..height
      /\ UNCHANGED <<chain, height, pool, landed, want, pc, tx, ended, statusVars, faults>>
      /\ height \in Nat /\ height <= MaxHeight /\ confirmed \in Nat /\ MaxHeight \in Nat /\ Window \in Nat
      /\ landed \subseteq LandedTxs /\ OneBlock
  BY ChainAssumption DEF Confirm, Inv, Held, TypeOK
<1>2. InChain' = InChain
  BY <1>1 DEF InChain
<1>3. OneBlock'
  BY <1>1, <1>2 DEF OneBlock, ValidAt
<1>4. \A t \in Txs : Gone(t) => Gone(t)'
  BY <1>1, <1>2 DEF Gone, Txs
<1>5. \A t \in Txs : \A s : SettledAs(t, s) => SettledAs(t, s)'
  BY <1>1 DEF SettledAs, LandedTxs
<1>. QED
  BY <1>1, <1>2, <1>3, <1>4, <1>5, NodeKeeps

\* Blocks after the confirmed ones are replaced: a transaction moves, but only to
\* where it is still valid.
LEMMA ForkInv == ASSUME Inv, Fork PROVE Inv'
<1> DEFINE settled == {l \in landed : l.at <= confirmed}
           loose == pool \cup (InChain \ {l.tx : l \in settled})
<1>1. /\ UNCHANGED <<chain, height, confirmed, want, pc, tx, ended, statusVars, faults>>
      /\ height \in Nat /\ height <= MaxHeight /\ confirmed \in Nat /\ confirmed <= height
      /\ MaxHeight \in Nat /\ Window \in Nat
      /\ pool \subseteq Txs /\ landed \subseteq LandedTxs /\ OneBlock
  BY ChainAssumption DEF Fork, Inv, Held, TypeOK
<1>2. PICK block \in SUBSET loose, h \in (confirmed + 1)..height :
        /\ \A t \in block : t.ref < h /\ ValidAt(t, h)
        /\ \E oks \in SUBSET block : \E errs \in Reported(block \ oks) :
             landed' = settled \cup Executed(block, h, oks, errs)
        /\ pool' \in SUBSET {t \in loose \ block : ValidAt(t, height + 1)}
  BY DEF Fork
<1>a. PICK oks \in SUBSET block : \E errs \in Reported(block \ oks) :
        landed' = settled \cup Executed(block, h, oks, errs)
  BY <1>2
<1>b. PICK errs \in Reported(block \ oks) :
        landed' = settled \cup Executed(block, h, oks, errs)
  BY <1>a
<1> DEFINE fresh == Executed(block, h, oks, errs)
<1>3. landed' = settled \cup fresh
  BY <1>b
<1>4. /\ loose \subseteq pool \cup InChain
      /\ InChain \subseteq Txs
      /\ \A l \in settled : l.tx \notin loose
  BY <1>1 DEF OneBlock, InChain, LandedTxs
<1>f. /\ fresh \subseteq LandedTxs /\ {l.tx : l \in fresh} = block
      /\ \A l \in fresh : l.at = h
      /\ \A l, k \in fresh : l.tx = k.tx => l = k
  BY <1>1, <1>2, <1>4, Fresh
<1> HIDE DEF fresh
<1>5. InChain' = {l.tx : l \in settled} \cup block
  <2>. HIDE DEF settled
  <2>. QED
    BY <1>f, <1>3 DEF InChain
<1>6. {l.tx : l \in settled} \subseteq InChain
  BY DEF InChain
<1>7. landed' \subseteq LandedTxs
  BY <1>1, <1>3, <1>f
<1>8. OneBlock'
  <2>1. pool' \cap InChain' = {} /\ \A t \in pool' \cup InChain' : t.from = Own
    BY <1>1, <1>2, <1>4, <1>5, <1>6 DEF OneBlock
  <2>2. ASSUME NEW l \in landed', NEW k \in landed', l.tx = k.tx PROVE l = k
    BY <1>1, <1>2, <1>3, <1>4, <1>f, <2>2 DEF OneBlock
  <2>3. ASSUME NEW l \in landed' PROVE l.at <= height' /\ ValidAt(l.tx, l.at)
    BY <1>1, <1>2, <1>3, <1>f DEF OneBlock
  <2>. QED
    BY <1>1, <2>1, <2>2, <2>3 DEF OneBlock, ValidAt
<1>9. \A t \in Txs : Gone(t) => Gone(t)'
  <2>1. ASSUME NEW t \in block PROVE ~(confirmed > t.ref + Window)
    <3>1. t.ref \in Nat /\ h \in Nat /\ h > confirmed /\ h - t.ref <= Window
      BY <1>1, <1>2, <1>4 DEF ValidAt, Txs
    <3>. QED
      BY <1>1, <3>1
  <2>. QED
    BY <1>1, <1>5, <1>6, <2>1 DEF Gone
<1>10. \A t \in Txs : \A s : SettledAs(t, s) => SettledAs(t, s)'
  BY <1>1, <1>3 DEF SettledAs
<1>. QED
  BY <1>1, <1>2, <1>4, <1>5, <1>6, <1>7, <1>8, <1>9, <1>10, NodeKeeps

-----------------------------------------------------------------------------
(***************************************************************************)
(* The calls.                                                              *)
(***************************************************************************)

\* A call begins when those before it have failed or cannot be paid any more,
\* and builds what its payment asks for.
LEMMA BuildInv == ASSUME Inv, NEW a \in Calls, Build(a) PROVE Inv'
<1> DEFINE p == want[a[1]]
<1>1. /\ UNCHANGED <<chain, height, confirmed, pool, landed, want, ended, found, status, late>>
      /\ pc[a] = "new" /\ MayTry(a)
      /\ InChain' = InChain
      /\ height \in Nat /\ height >= 1 /\ confirmed \in Nat /\ confirmed >= 1 /\ confirmed <= height
      /\ pc \in [Calls -> Stages] /\ tx \in [Calls -> Txs \cup {NoTx}]
      /\ chain \in {"solana", "tron"}
      /\ a[1] \in Requests /\ want[a[1]] \in Payments
  BY ChainAssumption DEF Build, nodeVars, statusVars, InChain, Inv, Held, TypeOK, Calls
<1>2. tx[a] = NoTx /\ NoTx \notin Txs
  BY <1>1, ChainAssumption DEF Inv, Built
<1>3. faults' \in 0..MaxFaults
  BY ChainAssumption DEF Build, Fails, Inv, Held, TypeOK
<1>4. \/ pc' = [pc EXCEPT ![a] = "failed"] /\ tx' = tx
      \/ /\ pc' = [pc EXCEPT ![a] = "send"]
         /\ \E t \in Txs :
              /\ tx' = [tx EXCEPT ![a] = t]
              /\ t.from = p.from /\ t.to = p.to /\ t.ref <= height /\ t.ref >= 1
              /\ chain = "solana" => t.stamp = 0 /\ t.amount = Uint64(p.amount)
              /\ chain = "tron" => t.amount = Int64(p.amount) /\ t.amount > 0
  <2>1. p.amount \in Int /\ Uint64(p.amount) \in Int /\ Int64(p.amount) \in Int
    BY <1>1, ChainAssumption, Uint64Range, Int64Range
  <2>2. ASSUME chain = "solana", Decodes(p) PROVE SolanaTransfer(p) \in Txs
    BY <1>1, <2>1, <2>2 DEF SolanaTransfer, Decodes, Txs
  <2>3. ASSUME Decodes(p), NEW s \in Stamps PROVE TronTransfer(p, s) \in Txs
    BY <1>1, <2>1, <2>3 DEF TronTransfer, Decodes, Txs
  <2>4. CASE chain = "solana" /\ Decodes(p) /\ tx' = [tx EXCEPT ![a] = SolanaTransfer(p)] /\ Goes(a, "send")
    BY <1>1, <2>2, <2>4 DEF SolanaTransfer, Goes
  <2>5. CASE /\ chain = "tron" /\ Decodes(p) /\ Int64(p.amount) > 0
             /\ \E s \in Stamps : tx' = [tx EXCEPT ![a] = TronTransfer(p, s)]
             /\ Goes(a, "send")
    <3>1. PICK s \in Stamps : tx' = [tx EXCEPT ![a] = TronTransfer(p, s)]
      BY <2>5
    <3> DEFINE t == TronTransfer(p, s)
    <3>2. t \in Txs
      BY <2>3, <2>5
    <3>3. t.from = p.from /\ t.to = p.to /\ t.ref = height /\ t.amount = Int64(p.amount)
      BY DEF TronTransfer
    <3>4. /\ t.ref <= height /\ t.ref >= 1
          /\ chain # "solana" /\ t.amount > 0
      BY <1>1, <2>5, <3>3
    <3>5. tx' = [tx EXCEPT ![a] = t] /\ pc' = [pc EXCEPT ![a] = "send"]
      BY <2>5, <3>1 DEF Goes
    <3>. HIDE DEF t, p
    <3>. QED
      BY <3>2, <3>3, <3>4, <3>5
  <2>. QED
    BY <2>4, <2>5 DEF Build, Goes
<1>5. /\ tx' \in [Calls -> Txs \cup {NoTx}] /\ pc' \in [Calls -> Stages]
      /\ pc'[a] \in {"send", "failed"} /\ (pc'[a] = "send" => tx'[a] \in Txs)
      /\ \A b \in Calls : b # a => pc'[b] = pc[b] /\ tx'[b] = tx[b]
  BY <1>1, <1>4 DEF Stages
<1>6. Held'
  BY <1>1, <1>3, <1>5 DEF Inv, Held, TypeOK
<1>7. Built'
  <2>1. tx'[a] # NoTx => Asked(a)'
    BY <1>1, <1>2, <1>4 DEF Asked, Uint64, Int64, Abs
  <2>2. \A b \in Calls : b # a => (Asked(b)' <=> Asked(b))
    BY <1>1, <1>5 DEF Asked, Uint64, Int64, Abs
  <2>. QED
    BY <1>1, <1>2, <1>5, <2>1, <2>2 DEF Inv, Built
<1>8. OneBlock'
  BY <1>1 DEF Inv, OneBlock, ValidAt
<1>9. Retried'
  <2>1. \A b \in Calls : late[b] \/ found[b] => b # a
    BY <1>1 DEF Inv, Retried
  <2>2. \A b \in Calls : b # a => (Gone(tx[b])' <=> Gone(tx[b]))
    BY <1>1, <1>5 DEF Gone
  <2>3. \A r \in Requests, m \in 1..MaxTries : <<r, m>> \in Calls
    BY DEF Calls
  <2>4. ASSUME NEW r \in Requests, NEW m \in 1..MaxTries, NEW n \in 1..MaxTries,
               m < n, pc'[<<r, n>>] # "new"
        PROVE  /\ <<r, m>> # a
               /\ \/ pc[<<r, m>>] = "failed"
                  \/ pc[<<r, m>>] = "answered" /\ Gone(tx[<<r, m>>])
    <3>1. CASE <<r, n>> = a
      <4>1. m \in 1..(a[2] - 1) /\ a[1] = r /\ <<r, m>> # a
        BY <2>4, <3>1
      <4>2. pc[<<r, m>>] = "failed" \/ late[<<r, m>>]
        BY <1>1, <4>1 DEF MayTry
      <4>. QED
        BY <2>3, <4>1, <4>2 DEF Inv, Retried
    <3>2. CASE <<r, n>> # a
      BY <1>1, <1>5, <2>3, <2>4, <3>2 DEF Inv, Retried
    <3>. QED
      BY <3>1, <3>2
  <2>. QED
    BY <1>1, <1>5, <2>1, <2>2, <2>3, <2>4 DEF Inv, Retried
<1>10. Settled'
  BY <1>1, <1>2, <1>5 DEF Inv, Settled, SettledAs
<1>. QED
  BY <1>6, <1>7, <1>8, <1>9, <1>10 DEF Inv

\* The node takes a transaction it does not have, signed by its payer.
LEMMA BroadcastInv == ASSUME Inv, NEW a \in Calls, Broadcast(a) PROVE Inv'
<1>1. /\ UNCHANGED <<chain, height, confirmed, landed, want, tx, found, status, late>>
      /\ pc[a] = "send" /\ InChain' = InChain
      /\ height \in Nat /\ height >= 1 /\ confirmed \in Nat /\ confirmed >= 1 /\ confirmed <= height
      /\ pc \in [Calls -> Stages] /\ tx \in [Calls -> Txs \cup {NoTx}]
      /\ ended \in [Calls -> Nat] /\ ended' = [ended EXCEPT ![a] = height]
      /\ chain \in {"solana", "tron"} /\ a[1] \in Requests /\ want[a[1]] \in Payments
  BY ChainAssumption DEF Broadcast, statusVars, InChain, Inv, Held, TypeOK, Calls
<1>2. tx[a] \in Txs /\ Asked(a)
  BY <1>1 DEF Inv, Built
<1>3. faults' \in 0..MaxFaults
  BY ChainAssumption DEF Broadcast, Fails, Inv, Held, TypeOK
<1>4. \/ pool' = pool
      \/ pool' = pool \cup {tx[a]} /\ Acceptable(tx[a])
  BY DEF Broadcast
<1>5. pc' = [pc EXCEPT ![a] = "answered"] \/ pc' = [pc EXCEPT ![a] = "failed"]
  BY DEF Broadcast, Goes
<1>6. /\ pc' \in [Calls -> Stages] /\ pc'[a] \in {"answered", "failed"}
      /\ \A b \in Calls : b # a => pc'[b] = pc[b] /\ ended'[b] = ended[b]
      /\ ended' \in [Calls -> Nat] /\ ended'[a] = height
  BY <1>1, <1>5 DEF Stages
<1>7. Held'
  <2>2. {tx[a].from, tx[a].to, tx[a].signer} \subseteq Addresses /\ tx[a].ref \in 1..height
    BY <1>1, <1>2, ChainAssumption DEF Txs, Asked
  <2>. QED
    BY <1>1, <1>2, <1>3, <1>4, <1>6, <2>2 DEF Inv, Held, TypeOK
<1>8. Built'
  <2>1. \A b \in Calls : Asked(b)' <=> Asked(b)
    BY <1>1 DEF Asked, Uint64, Int64, Abs
  <2>2. tx[a].ref <= height /\ tx[a] # NoTx
    BY <1>1, <1>2 DEF Asked, Inv, Built
  <2>. QED
    BY <1>1, <1>2, <1>6, <2>1, <2>2 DEF Inv, Built
<1>9. OneBlock'
  <2>1. Acceptable(tx[a]) => tx[a].from = Own /\ tx[a] \notin InChain
    BY <1>2 DEF Acceptable, Txs
  <2>. QED
    BY <1>1, <1>4, <2>1 DEF Inv, OneBlock, ValidAt
<1>10. Retried'
  <2>1. \A b \in Calls : Gone(tx[b])' <=> Gone(tx[b])
    BY <1>1 DEF Gone
  <2>2. \A r \in Requests, m \in 1..MaxTries : <<r, m>> \in Calls
    BY DEF Calls
  <2>. QED
    BY <1>1, <1>6, <2>1, <2>2 DEF Inv, Retried
<1>11. Settled'
  BY <1>1 DEF Inv, Settled, SettledAs
<1>. QED
  BY <1>7, <1>8, <1>9, <1>10, <1>11 DEF Inv

\* A question changes what the caller knows of its call and nothing else.
LEMMA StatusKeeps ==
  ASSUME Inv, NEW a \in Calls,
         UNCHANGED <<chain, nodeVars, want, pc, tx, ended>>, faults' \in 0..MaxFaults,
         found' \in [Calls -> BOOLEAN], late' \in [Calls -> BOOLEAN],
         status' \in [Calls -> {"none", "pending", "confirmed", "failed", "unknown"}],
         \A b \in Calls : b # a => found'[b] = found[b] /\ late'[b] = late[b] /\ status'[b] = status[b],
         late'[a] => pc[a] = "answered" /\ Gone(tx[a]),
         found'[a] => pc[a] = "answered" /\ chain = "tron",
         chain = "solana" /\ status'[a] \in {"confirmed", "failed"} => tx[a] # NoTx /\ SettledAs(tx[a], status'[a])
  PROVE  Inv'
<1>1. UNCHANGED <<chain, height, confirmed, pool, landed, want, pc, tx, ended>> /\ InChain' = InChain
  BY DEF nodeVars, InChain
<1>2. Held'
  BY <1>1 DEF Inv, Held, TypeOK
<1>3. Built'
  <2>1. \A b \in Calls : Asked(b)' <=> Asked(b)
    BY <1>1 DEF Asked, Uint64, Int64, Abs
  <2>. QED
    BY <1>1, <2>1 DEF Inv, Built
<1>4. OneBlock'
  BY <1>1 DEF Inv, OneBlock, ValidAt
<1>5. Retried'
  <2>1. \A b \in Calls : Gone(tx[b])' <=> Gone(tx[b])
    BY <1>1 DEF Gone
  <2>2. \A r \in Requests, m \in 1..MaxTries : <<r, m>> \in Calls
    BY DEF Calls
  <2>. QED
    BY <1>1, <2>1, <2>2 DEF Inv, Retried
<1>6. Settled'
  <2>1. \A b \in Calls : \A s : SettledAs(tx[b], s)' <=> SettledAs(tx[b], s)
    BY <1>1 DEF SettledAs
  <2>. QED
    BY <1>1, <2>1 DEF Inv, Settled, SettledAs
<1>. QED
  BY <1>2, <1>3, <1>4, <1>5, <1>6 DEF Inv

\* A transaction not found after its time is gone: every block it could be in is
\* there for good, and within what the question sees.
LEMMA NotFoundGone ==
  ASSUME Inv, NEW a \in Calls, pc[a] = "answered", Visible(tx[a]) = {}, confirmed > ended[a] + Window
  PROVE  Gone(tx[a])
<1>1. /\ tx[a] \in Txs /\ tx[a].ref \in Nat /\ ended[a] \in Nat /\ tx[a].ref <= ended[a]
      /\ confirmed \in Nat /\ height \in Nat /\ confirmed <= height /\ Window \in Nat
  BY ChainAssumption DEF Inv, Held, Built, TypeOK, Txs
<1>2. ASSUME NEW l \in landed, l.tx = tx[a] PROVE FALSE
  <2>1. l.at \in Nat /\ l.at - tx[a].ref <= Window
    BY <1>2 DEF Inv, Held, LandedTxs, OneBlock, ValidAt
  <2>2. l.at <= Seen
    BY <1>1, <2>1 DEF Seen
  <2>. QED
    BY <1>2, <2>2 DEF Visible
<1>. QED
  BY <1>1, <1>2 DEF Gone, InChain

\* What is found in a block that stays is what those blocks say.
LEMMA FoundSettled ==
  ASSUME Inv, NEW t, NEW l \in landed, l.tx = t, l.at <= Seen
  PROVE  /\ Visible(t) = {l}
         /\ Result(t) = IF l.err THEN "failed" ELSE "confirmed"
         /\ l.at <= confirmed => SettledAs(t, Result(t))
<1>1. Visible(t) = {l}
  BY DEF Visible, Inv, OneBlock
<1>2. Result(t) = IF l.err THEN "failed" ELSE "confirmed"
  BY <1>1 DEF Result
<1>. QED
  BY <1>1, <1>2 DEF SettledAs

\* An answer is stored for the call asked about.
LEMMA AnswersKeep ==
  ASSUME Inv, NEW a \in Calls, NEW s \in {"pending", "confirmed", "failed", "unknown"}, Answers(a, s)
  PROVE  /\ late' \in [Calls -> BOOLEAN]
         /\ status' \in [Calls -> {"none", "pending", "confirmed", "failed", "unknown"}]
         /\ \A b \in Calls : b # a => late'[b] = late[b] /\ status'[b] = status[b]
         /\ status'[a] = s /\ (late'[a] => s = "unknown" /\ confirmed > ended[a] + Window)
<1>1. /\ late \in [Calls -> BOOLEAN]
      /\ status \in [Calls -> {"none", "pending", "confirmed", "failed", "unknown"}]
  BY DEF Inv, Held, TypeOK
<1>2. PICK b \in BOOLEAN : late' = [late EXCEPT ![a] = b] /\ (b <=> s = "unknown" /\ confirmed > ended[a] + Window)
  BY DEF Answers
<1>3. status' = [status EXCEPT ![a] = s]
  BY DEF Answers
<1>. QED
  BY <1>1, <1>2, <1>3

\* Solana's answer is of a confirmed block.
LEMMA SolanaGetTransactionInv == ASSUME Inv, NEW a \in Calls, SolanaGetTransaction(a) PROVE Inv'
<1>1. /\ UNCHANGED <<chain, nodeVars, want, pc, tx, ended, found>>
      /\ chain = "solana" /\ pc[a] = "answered" /\ tx[a] # NoTx
  BY DEF SolanaGetTransaction, Inv, Built
<1>2. faults' \in 0..MaxFaults
  BY ChainAssumption DEF SolanaGetTransaction, Fails, Inv, Held, TypeOK
<1>3. found \in [Calls -> BOOLEAN] /\ (found[a] => pc[a] = "answered" /\ chain = "tron")
  BY DEF Inv, Held, TypeOK, Retried
<1>4. CASE UNCHANGED <<status, late>>
  BY <1>1, <1>2, <1>3, <1>4, StatusKeeps DEF Inv, Held, TypeOK, Retried, Settled
<1>5. CASE Answers(a, "unknown") /\ Visible(tx[a]) = {}
  <2>1. late'[a] => Gone(tx[a])
    BY <1>1, <1>5, AnswersKeep, NotFoundGone
  <2>. QED
    BY <1>1, <1>2, <1>3, <1>5, <2>1, AnswersKeep, StatusKeeps
<1>6. CASE Answers(a, Result(tx[a])) /\ Visible(tx[a]) # {}
  <2>1. PICK l \in landed : l.tx = tx[a] /\ l.at <= Seen
    BY <1>6 DEF Visible
  <2>2. Result(tx[a]) \in {"confirmed", "failed"} /\ SettledAs(tx[a], Result(tx[a]))
    BY <1>1, <2>1, FoundSettled DEF Seen
  <2>. QED
    BY <1>1, <1>2, <1>3, <1>6, <2>2, AnswersKeep, StatusKeeps
<1>. QED
  BY <1>4, <1>5, <1>6 DEF SolanaGetTransaction, Errs

\* TRON's first question.
LEMMA TronGetTransactionInv == ASSUME Inv, NEW a \in Calls, TronGetTransaction(a) PROVE Inv'
<1>1. /\ UNCHANGED <<chain, nodeVars, want, pc, tx, ended>>
      /\ chain = "tron" /\ pc[a] = "answered"
  BY DEF TronGetTransaction
<1>2. faults' \in 0..MaxFaults
  BY ChainAssumption DEF TronGetTransaction, Fails, Inv, Held, TypeOK
<1>3. /\ found \in [Calls -> BOOLEAN] /\ late \in [Calls -> BOOLEAN]
      /\ status \in [Calls -> {"none", "pending", "confirmed", "failed", "unknown"}]
      /\ late[a] => Gone(tx[a])
  BY DEF Inv, Held, TypeOK, Retried
<1>4. found' \in [Calls -> BOOLEAN] /\ \A b \in Calls : b # a => found'[b] = found[b]
  BY <1>3 DEF TronGetTransaction
<1>5. CASE UNCHANGED <<status, late>>
  BY <1>1, <1>2, <1>3, <1>4, <1>5, StatusKeeps
<1>6. CASE Visible(tx[a]) = {} /\ Answers(a, "unknown")
  <2>1. late'[a] => Gone(tx[a])
    BY <1>1, <1>6, AnswersKeep, NotFoundGone
  <2>. QED
    BY <1>1, <1>2, <1>4, <1>6, <2>1, AnswersKeep, StatusKeeps
<1>. QED
  BY <1>5, <1>6 DEF TronGetTransaction, Errs

\* TRON's second question.
LEMMA TronTransactionInfoInv == ASSUME Inv, NEW a \in Calls, TronTransactionInfo(a) PROVE Inv'
<1>1. /\ UNCHANGED <<chain, nodeVars, want, pc, tx, ended>>
      /\ chain = "tron" /\ pc[a] = "answered"
  BY DEF TronTransactionInfo, Inv, Retried
<1>2. faults' \in 0..MaxFaults
  BY ChainAssumption DEF TronTransactionInfo, Fails, Inv, Held, TypeOK
<1>3. found \in [Calls -> BOOLEAN]
  BY DEF Inv, Held, TypeOK
<1>4. found' \in [Calls -> BOOLEAN] /\ \A b \in Calls : b # a => found'[b] = found[b]
  BY <1>3 DEF TronTransactionInfo
<1>5. PICK s \in {"pending", "confirmed", "failed"} : Answers(a, s)
  BY DEF TronTransactionInfo, Result
<1>. QED
  BY <1>1, <1>2, <1>4, <1>5, AnswersKeep, StatusKeeps

-----------------------------------------------------------------------------
(***************************************************************************)
(* The theorems.                                                           *)
(***************************************************************************)

\* No call has begun and nothing has landed.
LEMMA InitInv == Init => Inv
<1>1. ASSUME Init PROVE Inv
  <2>1. InChain = {}
    BY <1>1 DEF Init, InChain
  <2>2. Held
    BY <1>1, <2>1, ChainAssumption DEF Init, Held, TypeOK, Stages
  <2>3. Built /\ OneBlock /\ Settled
    BY <1>1, <2>1 DEF Init, Built, OneBlock, Settled
  <2>4. Retried
    <3>1. \A r \in Requests, m \in 1..MaxTries : <<r, m>> \in Calls
      BY DEF Calls
    <3>. QED
      BY <1>1, <3>1 DEF Init, Retried
  <2>. QED
    BY <2>2, <2>3, <2>4 DEF Inv
<1>. QED
  BY <1>1

\* Every step keeps what is known of calls and blocks.
LEMMA StepInv == Inv /\ [Next]_vars => Inv'
<1>1. ASSUME Inv, Next PROVE Inv'
  BY <1>1, MineInv, ConfirmInv, ForkInv, BuildInv, BroadcastInv,
     SolanaGetTransactionInv, TronGetTransactionInv, TronTransactionInfoInv DEF Next
<1>2. ASSUME Inv, UNCHANGED vars PROVE Inv'
  <2>1. /\ UNCHANGED <<chain, height, confirmed, pool, landed, want, pc, tx, ended, found, status, late, faults>>
        /\ InChain' = InChain
    BY <1>2 DEF vars, nodeVars, statusVars, InChain
  <2>2. Held' /\ OneBlock'
    BY <1>2, <2>1 DEF Inv, Held, TypeOK, OneBlock, ValidAt
  <2>3. Built'
    BY <1>2, <2>1 DEF Inv, Built, Asked, Uint64, Int64, Abs
  <2>4. Retried' /\ Settled'
    BY <1>2, <2>1 DEF Inv, Retried, Settled, Gone, SettledAs
  <2>. QED
    BY <2>2, <2>3, <2>4 DEF Inv
<1>. QED
  BY <1>1, <1>2

\* Inv holds throughout.
THEOREM ExpiringInv == Spec => []Inv
BY InitInv, StepInv, PTL DEF Spec

\* Every variable has its type, and every transaction the node holds is between
\* addresses and names a block that is there.
THEOREM ExpiringTypeCorrect == Spec => []TypeOK
<1>1. Inv => TypeOK
  BY DEF Inv, Held
<1>. QED
  BY <1>1, ExpiringInv, PTL

\* TransactionService.Transfer on Solana and TRON pays a request once: a caller
\* who asks again only when Status answers unknown after the transaction's time
\* pays twice only if an answer of Broadcast was lost, and on Solana not even then
\* under one block.
THEOREM PaidOnceCorrect == Spec => []PaidOnce
<1>1. ASSUME Inv PROVE PaidOnce
  <2>1. SUFFICES ASSUME NEW r \in Requests, NEW m \in 1..MaxTries, NEW n \in 1..MaxTries,
                        m < n, Paid(<<r, m>>), Paid(<<r, n>>), tx[<<r, m>>] # tx[<<r, n>>]
                 PROVE  /\ pc[<<r, m>>] = "failed"
                        /\ chain = "solana" => tx[<<r, m>>].ref # tx[<<r, n>>].ref
    BY DEF PaidOnce
  <2>2. <<r, m>> \in Calls /\ <<r, n>> \in Calls
    BY DEF Calls
  <2>3. \A a \in Calls : Paid(a) => tx[a] \in InChain /\ tx[a] \in Txs /\ tx[a] # NoTx
    BY <1>1, ChainAssumption DEF Paid, Inv, Held, InChain, LandedTxs
  <2>4. pc[<<r, n>>] # "new"
    BY <1>1, <2>1, <2>2, <2>3 DEF Inv, Built
  <2>5. pc[<<r, m>>] = "failed"
    BY <1>1, <2>1, <2>2, <2>3, <2>4 DEF Inv, Retried, Gone
  <2>6. ASSUME chain = "solana", tx[<<r, m>>].ref = tx[<<r, n>>].ref PROVE FALSE
    <3> DEFINE t == tx[<<r, m>>]
               u == tx[<<r, n>>]
    <3>1. t \in Txs /\ u \in Txs /\ Asked(<<r, m>>) /\ Asked(<<r, n>>)
      BY <1>1, <2>1, <2>2, <2>3 DEF Inv, Built
    <3>2. t.from = u.from /\ t.to = u.to /\ t.amount = u.amount /\ t.stamp = u.stamp /\ t.signer = u.signer
      BY <2>6, <3>1 DEF Asked, Txs
    <3>. QED
      BY <2>1, <2>6, <3>1, <3>2 DEF Txs
  <2>. QED
    BY <2>5, <2>6
<1>. QED
  BY <1>1, ExpiringInv, PTL

\* What lands as paid is the payment the request asks for, from the wallet's own
\* account, and with the amount asked for wherever the chain's integer holds it.
THEOREM PaidIsAskedCorrect == Spec => []PaidIsAsked
<1>1. ASSUME Inv PROVE PaidIsAsked
  <2>1. SUFFICES ASSUME NEW a \in Calls, Paid(a)
                 PROVE  LET p == want[a[1]]
                        IN  p.from = Own /\ tx[a].to = p.to /\ (Fits(p.amount) => tx[a].amount = p.amount)
    BY DEF PaidIsAsked
  <2>2. tx[a] \in InChain /\ tx[a] \in Txs /\ tx[a] # NoTx
    BY <1>1, <2>1, ChainAssumption DEF Paid, Inv, Held, InChain, LandedTxs
  <2>3. Asked(a) /\ tx[a].from = Own
    BY <1>1, <2>2 DEF Inv, Built, OneBlock
  <2>4. want[a[1]].amount \in Int /\ chain \in {"solana", "tron"}
    BY <1>1, ChainAssumption DEF Inv, Held, TypeOK, Calls
  <2>5. Fits(want[a[1]].amount) => tx[a].amount = want[a[1]].amount
    <3>1. CASE chain = "solana"
      BY <2>3, <2>4, <3>1, Uint64Range, ChainAssumption DEF Asked, Fits
    <3>2. CASE chain = "tron"
      BY <2>3, <2>4, <3>2, Int64Range DEF Asked, Fits
    <3>. QED
      BY <2>4, <3>1, <3>2
  <2>. QED
    BY <2>3, <2>5 DEF Asked
<1>. QED
  BY <1>1, ExpiringInv, PTL

\* GetTransaction's confirmed or failed is never taken back on Solana; on TRON only
\* when the block was replaced, or when the second question of a later call fails.
THEOREM ExpiringStatusCorrect == Spec => StatusIsFinal
<1> DEFINE A == \A a \in Calls :
                  status[a] \in {"confirmed", "failed"} /\ status'[a] # status[a] =>
                    /\ chain = "tron"
                    /\ SettledAs(tx[a], status[a]) => status'[a] = "pending" /\ faults' > faults
<1>1. ASSUME Inv, Next PROVE A
  <2>1. SUFFICES ASSUME NEW a \in Calls, status[a] \in {"confirmed", "failed"}, status'[a] # status[a]
                 PROVE  /\ chain = "tron"
                        /\ SettledAs(tx[a], status[a]) => status'[a] = "pending" /\ faults' > faults
    OBVIOUS
  <2>2. /\ status \in [Calls -> {"none", "pending", "confirmed", "failed", "unknown"}]
        /\ height \in Nat /\ confirmed \in Nat /\ confirmed <= height /\ faults \in Nat
        /\ landed \subseteq LandedTxs
    BY <1>1, ChainAssumption DEF Inv, Held, TypeOK
  <2>3. \/ SolanaGetTransaction(a) \/ TronGetTransaction(a) \/ TronTransactionInfo(a)
    BY <1>1, <2>1, <2>2
    DEF Next, Mine, Confirm, Fork, Build, Broadcast, SolanaGetTransaction, TronGetTransaction,
        TronTransactionInfo, Answers, Errs, statusVars
  <2>4. \A s : Answers(a, s) => status'[a] = s
    BY <2>2 DEF Answers
  <2>5. ASSUME SettledAs(tx[a], status[a])
        PROVE  Visible(tx[a]) # {} /\ Result(tx[a]) = status[a]
    <3>1. PICK l \in landed : l.tx = tx[a] /\ l.at <= confirmed /\ (l.err <=> status[a] = "failed")
      BY <2>5 DEF SettledAs
    <3>2. l.at <= Seen
      BY <2>2, <3>1 DEF Seen, LandedTxs
    <3>. QED
      BY <1>1, <2>1, <3>1, <3>2, FoundSettled
  <2>6. CASE SolanaGetTransaction(a)
    <3>1. SettledAs(tx[a], status[a])
      BY <1>1, <2>1, <2>6 DEF SolanaGetTransaction, Inv, Settled
    <3>2. status'[a] = Result(tx[a]) \/ status' = status
      BY <2>4, <2>5, <2>6, <3>1 DEF SolanaGetTransaction, Errs
    <3>. QED
      BY <2>1, <2>5, <3>1, <3>2
  <2>7. CASE TronGetTransaction(a)
    BY <2>1, <2>5, <2>7 DEF TronGetTransaction, Errs
  <2>8. CASE TronTransactionInfo(a)
    <3>1. chain = "tron"
      BY <1>1, <2>8 DEF TronTransactionInfo, Inv, Retried
    <3>2. ASSUME SettledAs(tx[a], status[a]) PROVE status'[a] = "pending" /\ faults' > faults
      BY <2>1, <2>2, <2>4, <2>5, <2>8, <3>2 DEF TronTransactionInfo, Fails
    <3>. QED
      BY <3>1, <3>2
  <2>. QED
    BY <2>3, <2>6, <2>7, <2>8
<1>2. Inv /\ [Next]_vars => [A]_vars
  BY <1>1
<1>. QED
  BY <1>2, ExpiringInv, PTL DEF Spec, StatusIsFinal
================================================================================
