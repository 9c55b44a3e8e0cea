------------------------------- MODULE EvmProofs -------------------------------
(***************************************************************************)
(* Proofs about EvmTransfer, for any number of calls, accounts and blocks, *)
(* any tips and any way the base fee moves.                                *)
(***************************************************************************)
EXTENDS EvmTransfer, FiniteSetTheorems, TLAPS

-----------------------------------------------------------------------------
(***************************************************************************)
(* Nonces.                                                                 *)
(***************************************************************************)

\* A finite set of numbers without a gap above b is an interval, as long as it
\* has elements.
LEMMA NoGapIsInterval ==
  ASSUME NEW b \in Nat, NEW S \in SUBSET Nat, IsFiniteSet(S),
         \A n \in S : n >= b /\ \A k \in b..n : k \in S
  PROVE  Cardinality(S) \in Nat /\ S = b..(b + Cardinality(S) - 1)
<1> DEFINE c == Cardinality(S)
<1>1. c \in Nat
  BY FS_CardinalityType
<1>2. ASSUME NEW n \in S, n >= b + c PROVE FALSE
  <2>1. b..n \in SUBSET S /\ n \in Int /\ b \in Int /\ b <= n
    BY <1>1, <1>2
  <2>2. Cardinality(b..n) = n - b + 1
    BY <2>1, FS_Interval
  <2>3. Cardinality(b..n) <= c
    BY <2>1, FS_Subset
  <2>. QED
    BY <1>1, <1>2, <2>1, <2>2, <2>3
<1>3. S \in SUBSET (b..(b + c - 1))
  BY <1>1, <1>2
<1>4. IsFiniteSet(b..(b + c - 1)) /\ Cardinality(b..(b + c - 1)) = c
  <2> DEFINE e == b + c - 1
  <2>1. b \in Int /\ e \in Int /\ (IF b > e THEN 0 ELSE e - b + 1) = c
    BY <1>1
  <2>2. IsFiniteSet(b..e) /\ Cardinality(b..e) = IF b > e THEN 0 ELSE e - b + 1
    <3>. HIDE DEF e
    <3>. QED
      BY <2>1, FS_Interval
  <2>. QED
    BY <2>1, <2>2
<1>. QED
  BY <1>1, <1>3, <1>4, FS_Subset

\* The nonces of some transactions: no more of them than transactions, and as
\* many when no two have the same.
LEMMA NoncesOf ==
  ASSUME NEW B \in SUBSET Txs, IsFiniteSet(B)
  PROVE  LET N == {t.nonce : t \in B}
         IN  /\ N \in SUBSET Nat /\ IsFiniteSet(N) /\ Cardinality(N) <= Cardinality(B)
             /\ (\A t, u \in B : t.nonce = u.nonce => t = u) => Cardinality(N) = Cardinality(B)
<1> DEFINE N == {t.nonce : t \in B}
           f == [t \in B |-> t.nonce]
<1>1. f \in Surjection(B, N)
  BY DEF Surjection
<1>2. N \in SUBSET Nat
  BY DEF Txs
<1>3. (\A t, u \in B : t.nonce = u.nonce => t = u) => f \in Injection(B, N)
  BY DEF Injection, IsInjective
<1>. HIDE DEF N, f
<1>4. IsFiniteSet(N) /\ Cardinality(N) <= Cardinality(B) /\ (Cardinality(N) = Cardinality(B) <=> f \in Injection(B, N))
  BY <1>1, FS_Surjection
<1>. QED
  BY <1>2, <1>3, <1>4 DEF N

\* eth_getTransactionCount for "pending" is the first nonce that is free: there is
\* one, because the pool is finite.
LEMMA PendingNonceIsFree ==
  ASSUME NEW a \in Addresses, nonce \in [Addresses -> Nat], pool \in SUBSET Txs, IsFiniteSet(pool)
  PROVE  /\ PendingNonce(a) \in Nat /\ PendingNonce(a) >= nonce[a]
         /\ ~Taken(pool, a, PendingNonce(a))
         /\ \A k \in nonce[a]..(PendingNonce(a) - 1) : Taken(pool, a, k)
<1> DEFINE b == nonce[a]
           N == {t.nonce : t \in pool}
           D == {n \in N : n >= b /\ \A k \in b..n : Taken(pool, a, k)}
           c == Cardinality(D)
<1>1. b \in Nat
  OBVIOUS
<1>2. N \in SUBSET Nat /\ IsFiniteSet(N) /\ Cardinality(N) <= Cardinality(pool)
  BY NoncesOf
<1>3. \A n : Taken(pool, a, n) => n \in N
  BY DEF Taken
<1>4. D \in SUBSET N /\ D \in SUBSET Nat
  BY <1>2
<1>5. IsFiniteSet(D) /\ c <= Cardinality(N)
  <2>. HIDE DEF D, N
  <2>. QED
    BY <1>2, <1>4, FS_Subset
<1>6. \A n \in D : n >= b /\ \A k \in b..n : k \in D
  BY <1>1, <1>2, <1>3
<1>7. c \in Nat /\ D = b..(b + c - 1)
  <2>. HIDE DEF D
  <2>. QED
    BY <1>1, <1>4, <1>5, <1>6, NoGapIsInterval
<1>8. b + c \notin D /\ \A k \in b..(b + c - 1) : k \in D
  <2>. HIDE DEF D, c
  <2>. QED
    BY <1>1, <1>7
<1>9. \A k \in b..(b + c - 1) : Taken(pool, a, k)
  <2>1. \A k \in D : k >= b /\ k \in Nat /\ \A j \in b..k : Taken(pool, a, j)
    BY <1>2
  <2>. HIDE DEF D, c
  <2>. QED
    BY <1>1, <1>7, <1>8, <2>1
<1>10. ~Taken(pool, a, b + c)
  <2>1. SUFFICES ASSUME Taken(pool, a, b + c) PROVE b + c \in D
    BY <1>8
  <2>2. b + c \in N
    BY <1>3, <2>1
  <2>3. \A k \in b..(b + c) : k = b + c \/ k \in b..(b + c - 1)
    <3>. HIDE DEF c
    <3>. QED
      BY <1>1, <1>7
  <2>4. b + c >= b
    <3>. HIDE DEF c
    <3>. QED
      BY <1>1, <1>7
  <2>. HIDE DEF c, N
  <2>. QED
    BY <1>9, <2>1, <2>2, <2>3, <2>4
<1>11. b + c \in b..(b + Cardinality(pool))
  <2>1. Cardinality(pool) \in Nat /\ Cardinality(N) \in Nat
    <3>. HIDE DEF N
    <3>. QED
      BY <1>2, FS_CardinalityType
  <2>. HIDE DEF c, N
  <2>. QED
    BY <1>1, <1>2, <1>5, <1>7, <2>1
<1>12. \E n \in b..(b + Cardinality(pool)) :
         ~Taken(pool, a, n) /\ \A k \in b..(n - 1) : Taken(pool, a, k)
  <2>. HIDE DEF c
  <2>1. \A k \in b..((b + c) - 1) : Taken(pool, a, k)
    <3>1. (b + c) - 1 = b + c - 1
      BY <1>1, <1>7
    <3>. QED
      BY <1>9, <3>1
  <2>. WITNESS b + c \in b..(b + Cardinality(pool))
  <2>. QED
    BY <1>10, <2>1
<1>13. Cardinality(pool) \in Nat
  BY FS_CardinalityType
<1>. QED
  BY <1>1, <1>12, <1>13 DEF PendingNonce

\* A block takes the next nonces of each account, and as many as it has
\* transactions of it.
LEMMA BlockNonces ==
  ASSUME NEW a \in Addresses, NEW before \in [Addresses -> Nat], NEW free \in SUBSET Txs, IsFiniteSet(free),
         \A t, u \in free : SameSlot(t, u) => t = u,
         \A t \in free : t.nonce >= before[t.signer],
         NEW block \in SUBSET free,
         \A t \in block : \A n \in before[t.signer]..t.nonce : Taken(block, t.signer, n)
  PROVE  LET c == Cardinality({t \in block : t.signer = a})
         IN  /\ c \in Nat
             /\ \A n \in before[a]..(before[a] + c - 1) : Taken(block, a, n)
             /\ \A t \in block : t.signer = a => t.nonce < before[a] + c
<1> DEFINE B == {t \in block : t.signer = a}
           N == {t.nonce : t \in B}
           c == Cardinality(B)
<1>1. B \in SUBSET Txs /\ B \in SUBSET free
  OBVIOUS
<1>2. IsFiniteSet(B)
  BY <1>1, FS_Subset
<1>3. \A t, u \in B : t.nonce = u.nonce => t = u
  BY DEF SameSlot
<1>4. N \in SUBSET Nat /\ IsFiniteSet(N) /\ Cardinality(N) = c
  <2>. HIDE DEF B
  <2>. QED
    BY <1>1, <1>2, <1>3, NoncesOf
<1>5. before[a] \in Nat
  OBVIOUS
<1>6. ASSUME NEW n \in N PROVE n >= before[a] /\ \A k \in before[a]..n : k \in N
  <2>1. PICK t \in B : t.nonce = n
    OBVIOUS
  <2>2. \A k \in before[a]..n : Taken(block, a, k)
    BY <2>1
  <2>3. \A k : Taken(block, a, k) => k \in N
    BY DEF Taken
  <2>. QED
    BY <2>1, <2>2, <2>3
<1>7. c \in Nat /\ N = before[a]..(before[a] + c - 1)
  <2>. HIDE DEF N, c
  <2>. QED
    BY <1>4, <1>5, <1>6, NoGapIsInterval
<1>8. \A n \in N : Taken(block, a, n)
  BY DEF Taken
<1>9. \A t \in block : t.signer = a => t.nonce \in N
  OBVIOUS
<1>. HIDE DEF N, c
<1>10. /\ \A n \in before[a]..(before[a] + c - 1) : Taken(block, a, n)
       /\ \A t \in block : t.signer = a => t.nonce < before[a] + c
  BY <1>5, <1>7, <1>8, <1>9
<1>. QED
  BY <1>7, <1>10 DEF c

-----------------------------------------------------------------------------
(***************************************************************************)
(* The inductive invariant.                                                *)
(***************************************************************************)

Account(r) == AccountOf[want[r].wallet]

MinedTxs == [tx : Txs, ok : BOOLEAN, block : Nat, tip : Int]

\* What a variable may hold, where TypeOK does not say it.
Held ==
  /\ TypeOK
  /\ tx \in [Requests -> Txs \cup {NoTx}]
  /\ head \in [Requests -> [block : Nat, base : Nat]]
  /\ known \in [Requests -> SUBSET Txs]
  /\ pool \in SUBSET Txs /\ IsFiniteSet(pool)
  /\ mined \in SUBSET MinedTxs /\ IsFiniteSet(mined)

\* A transaction is made of the answers its call got.
BuiltBy(r) ==
  /\ pc[r] \in {"new", "nonce"} => counted[r] = 0
  /\ pc[r] \in {"new", "nonce", "tip", "header"} => tx[r] = NoTx
  /\ pc[r] \in {"send", "answered"} => tx[r] # NoTx
  /\ pc[r] # "new" => want[r] \in Transfers
  /\ tx[r] # NoTx =>
       /\ tx[r].signer = Account(r) /\ tx[r].nonce = counted[r]
       /\ tx[r].tip = ScaleTip(suggested[r], want[r].speed)
       /\ tx[r].cap = MaxFee(head[r].base, tx[r].tip)

\* The transactions of the latest block, and of those before it.
Latest == {m.tx : m \in {k \in mined : k.block = blocks}}
Below == {m.tx : m \in {k \in mined : k.block < blocks}}

\* A nonce has one transaction, in the pool or in the chain; those of the chain
\* have no gap, and those of the latest block come last.
Slots ==
  /\ \A t \in pool \cup InChain : \E q \in Requests : tx[q] = t
  /\ \A t, u \in pool : SameSlot(t, u) => t = u
  /\ \A t, u \in Latest : SameSlot(t, u) => t = u
  /\ \A t \in pool : t.nonce >= nonce[t.signer]
  /\ \A t \in Latest : t.nonce \in parent[t.signer]..(nonce[t.signer] - 1)
  /\ \A t \in Below : t.nonce \in InitialNonce[t.signer]..(parent[t.signer] - 1)
  /\ \A a \in Addresses :
       /\ nonce[a] >= parent[a] /\ parent[a] >= InitialNonce[a]
       /\ \A n \in parent[a]..(nonce[a] - 1) : Taken(Latest, a, n)
       /\ \A n \in InitialNonce[a]..(parent[a] - 1) : Taken(Below, a, n)
  /\ \A m \in mined : m.block <= blocks

\* Every nonce below the one a call was given is in use, and was at that point.
CoveredBy(r) ==
  pc[r] # "new" /\ FromOwn(r) =>
    /\ \A n \in nonce[Account(r)]..(counted[r] - 1) : Taken(pool, Account(r), n)
    /\ \A n \in InitialNonce[Account(r)]..(counted[r] - 1) : Taken(known[r], Account(r), n)

\* The nonce of a transaction is taken, by itself or by one with a higher tip.
Occupied(t) == \E u \in pool \cup InChain : SameSlot(u, t) /\ (u = t \/ u.tip > t.tip)

\* What Status has answered is so, once it is below the latest block.
ToldBy(r) ==
  /\ found[r] \/ status[r] # "none" => pc[r] = "answered"
  /\ buried[r] =>
       /\ tx[r] \in Below
       /\ status[r] = IF tx[r].to \notin Contracts THEN "confirmed" ELSE "failed"

Inv ==
  /\ Held /\ Slots
  /\ \A r \in Requests : BuiltBy(r) /\ CoveredBy(r) /\ ToldBy(r)
  /\ \A r \in Requests : pc[r] = "answered" => Occupied(tx[r])
  /\ \A m \in mined : m.ok <=> m.tx.to \notin Contracts

-----------------------------------------------------------------------------
(***************************************************************************)
(* The steps.                                                              *)
(***************************************************************************)

\* The nonces of the chain: those of the latest block follow the others.
LEMMA ChainSlots ==
  ASSUME Inv
  PROVE  /\ InChain = Latest \cup Below
         /\ Latest \cup Below \subseteq Txs
         /\ \A t \in InChain : t.nonce \in InitialNonce[t.signer]..(nonce[t.signer] - 1)
         /\ \A a \in Addresses :
              /\ nonce[a] >= InitialNonce[a]
              /\ \A n \in InitialNonce[a]..(nonce[a] - 1) : Taken(InChain, a, n)
<1>1. /\ blocks \in Nat /\ mined \in SUBSET MinedTxs /\ Slots
      /\ nonce \in [Addresses -> Nat] /\ parent \in [Addresses -> Nat] /\ InitialNonce \in [Addresses -> Nat]
  BY ChainAssumption DEF Inv, Held, TypeOK
<1>2. InChain = Latest \cup Below
  <2>1. \A m \in mined : m.block = blocks \/ m.block < blocks
    BY <1>1 DEF Slots, MinedTxs
  <2>. QED
    BY <2>1 DEF InChain, Latest, Below
<1>3. Latest \cup Below \subseteq Txs
  BY <1>1 DEF Latest, Below, MinedTxs
<1>4. \A a \in Addresses :
        /\ nonce[a] \in Nat /\ parent[a] \in Nat /\ InitialNonce[a] \in Nat
        /\ nonce[a] >= parent[a] /\ parent[a] >= InitialNonce[a]
  BY <1>1 DEF Slots
<1>5. ASSUME NEW t \in InChain PROVE t.nonce \in InitialNonce[t.signer]..(nonce[t.signer] - 1)
  <2>1. t.signer \in Addresses /\ t.nonce \in Nat
    BY <1>2, <1>3 DEF Txs
  <2>2. CASE t \in Latest
    BY <1>1, <1>4, <2>1, <2>2 DEF Slots
  <2>3. CASE t \in Below
    BY <1>1, <1>4, <2>1, <2>3 DEF Slots
  <2>. QED
    BY <1>2, <2>2, <2>3
<1>6. ASSUME NEW a \in Addresses, NEW n \in InitialNonce[a]..(nonce[a] - 1) PROVE Taken(InChain, a, n)
  <2>1. n \in InitialNonce[a]..(parent[a] - 1) \/ n \in parent[a]..(nonce[a] - 1)
    BY <1>4
  <2>2. Taken(Below, a, n) \/ Taken(Latest, a, n)
    BY <1>1, <2>1 DEF Slots
  <2>. QED
    BY <1>2, <2>2 DEF Taken
<1>7. \A a \in Addresses : nonce[a] >= InitialNonce[a]
  BY <1>4
<1>. QED
  BY <1>2, <1>3, <1>5, <1>6, <1>7

\* The scaled tip is a number.
LEMMA ScaleTipType == ASSUME NEW n \in Nat, NEW s PROVE ScaleTip(n, s) \in Nat
<1>1. CASE s = "fast"
  BY <1>1 DEF ScaleTip
<1>2. CASE s = "economy"
  BY <1>2 DEF ScaleTip
<1>3. CASE s # "fast" /\ s # "economy"
  BY <1>3 DEF ScaleTip
<1>. QED
  BY <1>1, <1>2, <1>3

\* A step of a call that has broadcast nothing yet leaves the others, and the
\* node, as they are.
LEMMA CallKeeps ==
  ASSUME Inv, NEW r \in Requests, UNCHANGED <<nodeVars, statusVars>>,
         \A q \in Requests : q # r =>
           /\ pc'[q] = pc[q] /\ want'[q] = want[q] /\ counted'[q] = counted[q] /\ known'[q] = known[q]
           /\ suggested'[q] = suggested[q] /\ head'[q] = head[q] /\ tx'[q] = tx[q],
         pc[r] \in {"new", "nonce", "tip", "header"}, pc'[r] # "answered",
         Held', BuiltBy(r)', CoveredBy(r)'
  PROVE  Inv'
<1>1. /\ UNCHANGED <<blocks, base, nonce, parent, pool, mined, found, status, buried>>
      /\ InChain' = InChain /\ Latest' = Latest /\ Below' = Below
  BY DEF nodeVars, statusVars, InChain, Latest, Below
<1>2. tx[r] = NoTx /\ NoTx \notin Txs /\ InChain \subseteq Txs /\ pool \subseteq Txs
  BY ChainAssumption DEF Inv, BuiltBy, Held, InChain, MinedTxs
<1>3. Slots'
  <2>1. \A t \in pool \cup InChain : \E q \in Requests : tx'[q] = t
    BY <1>2 DEF Inv, Slots
  <2>. QED
    BY <1>1, <2>1 DEF Inv, Slots, Taken, SameSlot
<1>4. ASSUME NEW q \in Requests, q # r PROVE BuiltBy(q)' /\ CoveredBy(q)' /\ ToldBy(q)'
  <2>1. BuiltBy(q)'
    BY <1>4 DEF Inv, BuiltBy, Account, ScaleTip, MaxFee
  <2>2. CoveredBy(q)'
    BY <1>1, <1>4 DEF Inv, CoveredBy, Account, Taken, FromOwn
  <2>3. ToldBy(q)'
    BY <1>1, <1>4 DEF Inv, ToldBy
  <2>. QED
    BY <2>1, <2>2, <2>3
<1>5. ToldBy(r)'
  BY <1>1 DEF Inv, ToldBy
<1>6. \A q \in Requests : pc'[q] = "answered" => Occupied(tx[q])'
  BY <1>1 DEF Inv, Occupied, SameSlot
<1>7. \A m \in mined' : m.ok <=> m.tx.to \notin Contracts
  BY <1>1 DEF Inv
<1>. QED
  BY <1>3, <1>4, <1>5, <1>6, <1>7 DEF Inv

\* A call that begins has read no nonce.
LEMMA BeginInv == ASSUME Inv, NEW r \in Requests, Begin(r) PROVE Inv'
<1>1. PICK w \in Transfers : want' = [want EXCEPT ![r] = w]
  BY DEF Begin
<1>2. PICK stage \in {"nonce", "failed"} : pc' = [pc EXCEPT ![r] = stage]
  BY DEF Begin, Goes
<1>3. /\ UNCHANGED <<blocks, base, nonce, parent, pool, mined, counted, known, suggested, head, tx, found, status, buried>>
      /\ pc[r] = "new" /\ faults' \in 0..MaxFaults /\ InChain' = InChain
      /\ want \in [Requests -> Transfers \cup {NoTransfer}] /\ pc \in [Requests -> Stages]
  BY ChainAssumption DEF Begin, nodeVars, statusVars, Fails, InChain, Inv, Held, TypeOK
<1>4. counted[r] = 0 /\ tx[r] = NoTx
  BY <1>3 DEF Inv, BuiltBy
<1>5. want' \in [Requests -> Transfers \cup {NoTransfer}] /\ pc' \in [Requests -> Stages]
  BY <1>1, <1>2, <1>3 DEF Stages
<1>6. Held'
  BY <1>3, <1>5 DEF Inv, Held, TypeOK
<1>7. BuiltBy(r)'
  BY <1>1, <1>2, <1>3, <1>4 DEF BuiltBy
<1>8. CoveredBy(r)'
  <2>1. Account(r)' \in Addresses
    BY <1>1, <1>3, ChainAssumption DEF Account
  <2>2. nonce[Account(r)'] \in Nat /\ InitialNonce[Account(r)'] \in Nat
    BY <2>1, ChainAssumption DEF Inv, Held, TypeOK
  <2>. QED
    BY <1>3, <1>4, <2>2 DEF CoveredBy
<1>. QED
  BY <1>1, <1>2, <1>3, <1>6, <1>7, <1>8, CallKeeps DEF nodeVars, statusVars

\* The nonce read is the first that is free: all below it are taken.
LEMMA PendingNonceAtInv == ASSUME Inv, NEW r \in Requests, PendingNonceAt(r) PROVE Inv'
<1>1. /\ UNCHANGED <<blocks, base, nonce, parent, pool, mined, want, suggested, head, tx, found, status, buried>>
      /\ pc[r] = "nonce" /\ faults' \in 0..MaxFaults /\ InChain' = InChain
      /\ counted \in [Requests -> Nat] /\ pc \in [Requests -> Stages] /\ known \in [Requests -> SUBSET Txs]
      /\ pool \cup InChain \subseteq Txs
  BY ChainAssumption DEF PendingNonceAt, nodeVars, statusVars, Fails, InChain, Inv, Held, TypeOK, MinedTxs
<1>2. /\ counted[r] = 0 /\ tx[r] = NoTx /\ want[r] \in Transfers /\ CoveredBy(r)
      /\ Account(r) \in Addresses
  BY <1>1, ChainAssumption DEF Inv, BuiltBy, Account
<1>3. CASE Goes(r, "failed") /\ UNCHANGED <<counted, known>>
  <2>1. pc' = [pc EXCEPT ![r] = "failed"] /\ pc' \in [Requests -> Stages]
    BY <1>1, <1>3 DEF Goes, Stages
  <2>2. Held'
    BY <1>1, <1>3, <2>1 DEF Inv, Held, TypeOK
  <2>3. BuiltBy(r)' /\ CoveredBy(r)'
    BY <1>1, <1>2, <1>3, <2>1 DEF BuiltBy, CoveredBy, Account, FromOwn, Taken
  <2>. QED
    BY <1>1, <1>3, <2>1, <2>2, <2>3, CallKeeps DEF nodeVars, statusVars
<1>4. CASE /\ counted' = [counted EXCEPT ![r] = NonceFor(r)]
           /\ known' = [known EXCEPT ![r] = pool \cup InChain]
           /\ Goes(r, "tip")
  <2>1. pc' = [pc EXCEPT ![r] = "tip"] /\ pc' \in [Requests -> Stages]
    BY <1>1, <1>4 DEF Goes, Stages
  <2> DEFINE a == HexToAddress(want[r].from)
             n == PendingNonce(a)
  <2>2. a \in Addresses /\ (FromOwn(r) => a = Account(r))
    BY <1>2, ChainAssumption DEF HexToAddress, FromOwn, Account
  <2>3. n \in Nat /\ n >= nonce[a] /\ \A k \in nonce[a]..(n - 1) : Taken(pool, a, k)
    BY <2>2, PendingNonceIsFree DEF Inv, Held, TypeOK
  <2>4. counted' = [counted EXCEPT ![r] = n]
    BY <1>4 DEF NonceFor
  <2>. HIDE DEF n
  <2>5. counted' \in [Requests -> Nat] /\ counted'[r] = n
    BY <1>1, <2>3, <2>4
  <2>6. known' \in [Requests -> SUBSET Txs] /\ known'[r] = pool \cup InChain
    BY <1>1, <1>4
  <2>7. Held'
    BY <1>1, <2>1, <2>5, <2>6 DEF Inv, Held, TypeOK
  <2>8. BuiltBy(r)'
    BY <1>1, <1>2, <2>1 DEF BuiltBy
  <2>9. CoveredBy(r)'
    <3>1. SUFFICES ASSUME FromOwn(r)
                   PROVE  /\ \A k \in nonce[a]..(n - 1) : Taken(pool, a, k)
                          /\ \A k \in InitialNonce[a]..(n - 1) : Taken(pool \cup InChain, a, k)
      BY <1>1, <2>2, <2>5, <2>6 DEF CoveredBy, FromOwn, Account, Taken
    <3>2. /\ nonce[a] \in Nat /\ InitialNonce[a] \in Nat
          /\ \A k \in InitialNonce[a]..(nonce[a] - 1) : Taken(InChain, a, k)
      BY <2>2, ChainAssumption, ChainSlots DEF Inv, Held, TypeOK
    <3>3. ASSUME NEW k \in InitialNonce[a]..(n - 1) PROVE Taken(pool \cup InChain, a, k)
      <4>1. k \in nonce[a]..(n - 1) \/ k \in InitialNonce[a]..(nonce[a] - 1)
        BY <2>3, <3>2
      <4>. QED
        BY <2>3, <3>2, <4>1 DEF Taken
    <3>. QED
      BY <2>3, <3>3
  <2>. QED
    BY <1>1, <1>4, <2>1, <2>4, <2>7, <2>8, <2>9, CallKeeps DEF nodeVars, statusVars
<1>. QED
  BY <1>3, <1>4 DEF PendingNonceAt

\* The tip is remembered.
LEMMA SuggestGasTipCapInv == ASSUME Inv, NEW r \in Requests, SuggestGasTipCap(r) PROVE Inv'
<1>1. /\ UNCHANGED <<blocks, base, nonce, parent, pool, mined, want, counted, known, head, tx, found, status, buried>>
      /\ pc[r] = "tip" /\ faults' \in 0..MaxFaults /\ InChain' = InChain
      /\ suggested \in [Requests -> Tips \cup {0}] /\ pc \in [Requests -> Stages]
  BY ChainAssumption DEF SuggestGasTipCap, nodeVars, statusVars, Fails, InChain, Inv, Held, TypeOK
<1>2. PICK stage \in {"header", "failed"} : pc' = [pc EXCEPT ![r] = stage]
  BY DEF SuggestGasTipCap, Goes
<1>3. /\ pc' \in [Requests -> Stages] /\ suggested' \in [Requests -> Tips \cup {0}]
      /\ \A q \in Requests : q # r => suggested'[q] = suggested[q]
  BY <1>1, <1>2 DEF SuggestGasTipCap, Stages
<1>4. Held'
  BY <1>1, <1>3 DEF Inv, Held, TypeOK
<1>5. BuiltBy(r)' /\ CoveredBy(r)'
  BY <1>1, <1>2 DEF Inv, BuiltBy, CoveredBy, Account, FromOwn, Taken
<1>. QED
  BY <1>1, <1>2, <1>3, <1>4, <1>5, CallKeeps DEF nodeVars, statusVars

\* What a call goes by is numbers.
LEMMA NumbersHeld ==
  ASSUME Inv
  PROVE  /\ blocks \in Nat /\ base \in Nat
         /\ \A r \in Requests : counted[r] \in Nat /\ suggested[r] \in Nat
<1>1. /\ blocks \in 0..MaxBlocks /\ base \in Nat
      /\ counted \in [Requests -> Nat] /\ suggested \in [Requests -> Tips \cup {0}]
  BY DEF Inv, Held, TypeOK
<1>2. MaxBlocks \in Nat /\ \A n \in Tips : n \in Nat
  BY ChainAssumption
<1>3. \A r \in Requests : suggested[r] \in Tips \cup {0}
  BY <1>1
<1>. QED
  BY <1>1, <1>2, <1>3

\* The transaction is built of the answers.
LEMMA HeaderByNumberInv == ASSUME Inv, NEW r \in Requests, HeaderByNumber(r) PROVE Inv'
<1>1. /\ UNCHANGED <<blocks, base, nonce, parent, pool, mined, want, counted, known, suggested, found, status, buried>>
      /\ pc[r] = "header" /\ faults' \in 0..MaxFaults /\ InChain' = InChain
      /\ tx \in [Requests -> Txs \cup {NoTx}] /\ pc \in [Requests -> Stages]
      /\ head \in [Requests -> [block : Nat, base : Nat]]
  BY ChainAssumption DEF HeaderByNumber, nodeVars, statusVars, Fails, InChain, Inv, Held, TypeOK
<1>0. blocks \in Nat /\ base \in Nat /\ counted[r] \in Nat /\ suggested[r] \in Nat
  BY NumbersHeld
<1>2. tx[r] = NoTx /\ want[r] \in Transfers /\ BuiltBy(r) /\ CoveredBy(r)
  BY <1>1 DEF Inv, BuiltBy
<1>3. CASE Goes(r, "failed") /\ UNCHANGED <<head, tx>>
  <2>1. pc' = [pc EXCEPT ![r] = "failed"] /\ pc' \in [Requests -> Stages]
    BY <1>1, <1>3 DEF Goes, Stages
  <2>2. Held'
    BY <1>1, <1>3, <2>1 DEF Inv, Held, TypeOK
  <2>3. BuiltBy(r)' /\ CoveredBy(r)'
    BY <1>1, <1>2, <1>3, <2>1 DEF BuiltBy, CoveredBy, Account, FromOwn, Taken
  <2>. QED
    BY <1>1, <1>3, <2>1, <2>2, <2>3, CallKeeps DEF nodeVars, statusVars
<1>4. CASE /\ Encodes(want[r]) /\ Goes(r, "send")
           /\ head' = [head EXCEPT ![r] = [block |-> blocks, base |-> base]]
           /\ tx' = [tx EXCEPT ![r] = BuildTransfer(want[r], counted[r], suggested[r], base)]
  <2> DEFINE t == BuildTransfer(want[r], counted[r], suggested[r], base)
  <2>1. pc' = [pc EXCEPT ![r] = "send"] /\ pc' \in [Requests -> Stages]
    BY <1>1, <1>4 DEF Goes, Stages
  <2>2. ScaleTip(suggested[r], want[r].speed) \in Nat
    BY <1>0, ScaleTipType
  <2>3. /\ t.signer = Account(r) /\ t.nonce = counted[r]
        /\ t.tip = ScaleTip(suggested[r], want[r].speed) /\ t.cap = MaxFee(base, t.tip)
    BY DEF BuildTransfer, Account
  <2>4. t \in Txs
    <3>1. Account(r) \in Addresses /\ HexToAddress(want[r].to) \in Addresses
      BY <1>2, ChainAssumption DEF Account, HexToAddress
    <3>2. want[r].amount \in Nat
      BY <1>2, <1>4, ChainAssumption DEF Encodes
    <3>3. MaxFee(base, ScaleTip(suggested[r], want[r].speed)) \in Nat
      BY <1>0, <2>2 DEF MaxFee
    <3>. QED
      BY <1>0, <2>2, <3>1, <3>2, <3>3 DEF BuildTransfer, Txs, Account
  <2>. HIDE DEF t
  <2>5. /\ tx' = [tx EXCEPT ![r] = t] /\ tx' \in [Requests -> Txs \cup {NoTx}] /\ tx'[r] = t
        /\ head' \in [Requests -> [block : Nat, base : Nat]] /\ head'[r].base = base
    BY <1>0, <1>1, <1>4, <2>4 DEF t
  <2>6. Held'
    BY <1>1, <2>1, <2>5 DEF Inv, Held, TypeOK
  <2>7. BuiltBy(r)'
    <3>1. t # NoTx
      BY <2>4, ChainAssumption
    <3>. QED
      BY <1>1, <1>2, <2>1, <2>3, <2>5, <3>1 DEF BuiltBy, Account, ScaleTip, MaxFee
  <2>8. CoveredBy(r)'
    BY <1>1, <1>2 DEF CoveredBy, Account, FromOwn, Taken
  <2>. QED
    BY <1>1, <1>4, <2>1, <2>5, <2>6, <2>7, <2>8, CallKeeps DEF nodeVars, statusVars
<1>. QED
  BY <1>3, <1>4 DEF HeaderByNumber

\* What is in the pool or in the chain is a transaction some call has signed.
LEMMA NodeHolds ==
  ASSUME Inv
  PROVE  /\ pool \cup InChain \subseteq Txs /\ NoTx \notin pool \cup InChain
         /\ nonce \in [Addresses -> Nat] /\ InitialNonce \in [Addresses -> Nat]
         /\ \A a \in Addresses : nonce[a] \in Nat /\ InitialNonce[a] \in Nat
BY ChainAssumption DEF Inv, Held, TypeOK, InChain, MinedTxs

\* The node takes a transaction, in the place of the one with its nonce.
LEMMA TakeInv ==
  ASSUME Inv, NEW r \in Requests, pc[r] = "send", Acceptable(tx[r]),
         pool' = {u \in pool : ~SameSlot(u, tx[r])} \cup {tx[r]},
         NEW stage \in {"answered", "failed"}, pc' = [pc EXCEPT ![r] = stage],
         faults' \in 0..MaxFaults,
         UNCHANGED <<blocks, base, nonce, parent, mined, callVars, statusVars>>
  PROVE  Inv'
<1> DEFINE t == tx[r]
<1>1. /\ UNCHANGED <<blocks, base, nonce, parent, mined, want, counted, known, suggested, head, tx, found, status, buried>>
      /\ InChain' = InChain /\ Latest' = Latest /\ Below' = Below
  BY DEF callVars, statusVars, InChain, Latest, Below
<1>2. /\ t \in Txs /\ BuiltBy(r) /\ pc \in [Requests -> Stages]
      /\ t.cap = MaxFee(head[r].base, t.tip) /\ head[r].base \in Nat
      /\ pool \in SUBSET Txs /\ IsFiniteSet(pool)
  BY DEF Inv, BuiltBy, Held, TypeOK
<1>3. pc' \in [Requests -> Stages] /\ pc'[r] = stage /\ \A q \in Requests : q # r => pc'[q] = pc[q]
  BY <1>2 DEF Stages
<1>4. pool' \in SUBSET Txs /\ IsFiniteSet(pool')
  <2>1. IsFiniteSet({u \in pool : ~SameSlot(u, t)})
    BY <1>2, FS_Subset
  <2>. QED
    BY <1>2, <2>1, FS_AddElement
<1>5. Held'
  <2>1. t.signer \in Addresses /\ t.nonce \in Nat /\ t.value \in Nat /\ t.tip \in 0..t.cap
    BY <1>2 DEF Txs, MaxFee
  <2>2. \A u \in pool' \cup InChain' : u.signer \in Addresses /\ u.nonce \in Nat /\ u.value \in Nat /\ u.tip \in 0..u.cap
    BY <1>1, <2>1 DEF Inv, Held, TypeOK
  <2>. QED
    BY <1>1, <1>3, <1>4, <2>2 DEF Inv, Held, TypeOK
<1>6. \A a, n : Taken(pool, a, n) => Taken(pool', a, n)
  BY DEF Taken, SameSlot
<1>7. Slots'
  <2>1. \A u \in pool' \cup InChain' : \E q \in Requests : tx'[q] = u
    BY <1>1 DEF Inv, Slots
  <2>2. \A u, v \in pool' : SameSlot(u, v) => u = v
    BY DEF Inv, Slots, SameSlot
  <2>3. \A u \in pool' : u.nonce >= nonce'[u.signer]
    BY <1>1 DEF Inv, Slots, Acceptable
  <2>. QED
    BY <1>1, <2>1, <2>2, <2>3 DEF Inv, Slots, Taken, SameSlot
<1>8. ASSUME NEW q \in Requests PROVE BuiltBy(q)' /\ CoveredBy(q)' /\ ToldBy(q)'
  <2>0. pc'[q] = pc[q] \/ q = r
    BY <1>3
  <2>1. BuiltBy(q)'
    BY <1>1, <1>2, <1>3, <2>0, ChainAssumption DEF Inv, BuiltBy, Account, ScaleTip, MaxFee
  <2>2. CoveredBy(q)'
    <3>1. pc'[q] # "new" => pc[q] # "new"
      BY <2>0
    <3>2. CoveredBy(q)
      BY DEF Inv
    <3>. QED
      BY <1>1, <1>6, <3>1, <3>2 DEF CoveredBy, Account, FromOwn, Taken
  <2>3. ToldBy(q)'
    <3>1. ToldBy(q) /\ (pc[q] = "answered" => q # r)
      BY DEF Inv
    <3>. QED
      BY <1>1, <1>3, <2>0, <3>1 DEF ToldBy
  <2>. QED
    BY <2>1, <2>2, <2>3
<1>9. ASSUME NEW q \in Requests, pc'[q] = "answered" PROVE Occupied(tx[q])'
  <2>1. CASE q = r
    BY <1>1, <2>1 DEF Occupied, SameSlot
  <2>2. CASE q # r
    <3>1. Occupied(tx[q]) /\ tx[q] \in Txs
      BY <1>3, <1>9, <2>2 DEF Inv, BuiltBy, Held
    <3>2. PICK u \in pool \cup InChain : SameSlot(u, tx[q]) /\ (u = tx[q] \/ u.tip > tx[q].tip)
      BY <3>1 DEF Occupied
    <3>3. CASE u \in pool' \cup InChain
      BY <1>1, <3>2, <3>3 DEF Occupied, SameSlot
    <3>4. CASE u \in pool /\ SameSlot(u, t)
      <4>1. t.tip > u.tip
        BY <3>4 DEF Acceptable, Outbids, SameSlot
      <4>2. t.tip > tx[q].tip /\ SameSlot(t, tx[q])
        BY <1>2, <3>1, <3>2, <3>4, <4>1 DEF Txs, SameSlot
      <4>. QED
        BY <1>1, <4>2 DEF Occupied, SameSlot
    <3>. QED
      BY <3>2, <3>3, <3>4
  <2>. QED
    BY <2>1, <2>2
<1>. QED
  BY <1>1, <1>5, <1>7, <1>8, <1>9 DEF Inv

\* A broadcast that reaches the node is taken or refused; a failed call may be
\* either.
LEMMA BroadcastInv == ASSUME Inv, NEW r \in Requests, Broadcast(r) PROVE Inv'
<1>1. /\ pc[r] = "send" /\ faults' \in 0..MaxFaults
      /\ UNCHANGED <<blocks, base, nonce, parent, mined, callVars, statusVars>>
  BY ChainAssumption DEF Broadcast, Fails, Inv, Held, TypeOK
<1>2. CASE /\ Acceptable(tx[r]) /\ pool' = {u \in pool : ~SameSlot(u, tx[r])} \cup {tx[r]}
           /\ Goes(r, "answered") \/ Goes(r, "failed")
  <2>1. PICK stage \in {"answered", "failed"} : pc' = [pc EXCEPT ![r] = stage]
    BY <1>2 DEF Goes
  <2>. QED
    BY <1>1, <1>2, <2>1, TakeInv
<1>3. CASE UNCHANGED pool /\ Goes(r, "failed")
  <2>1. /\ UNCHANGED <<blocks, base, nonce, parent, pool, mined, want, counted, known, suggested, head, tx, found, status, buried>>
        /\ InChain' = InChain /\ Latest' = Latest /\ Below' = Below
    BY <1>1, <1>3 DEF callVars, statusVars, InChain, Latest, Below
  <2>2. pc \in [Requests -> Stages] /\ pc' = [pc EXCEPT ![r] = "failed"]
    BY <1>3 DEF Goes, Inv, Held, TypeOK
  <2>3. /\ pc' \in [Requests -> Stages] /\ pc'[r] = "failed"
        /\ \A q \in Requests : q # r => pc'[q] = pc[q]
    BY <2>2 DEF Stages
  <2>4. Held'
    BY <1>1, <2>1, <2>3 DEF Inv, Held, TypeOK
  <2>5. Slots'
    BY <2>1 DEF Inv, Slots, Taken, SameSlot
  <2>6. ASSUME NEW q \in Requests PROVE BuiltBy(q)' /\ CoveredBy(q)' /\ ToldBy(q)'
    <3>1. BuiltBy(q) /\ CoveredBy(q) /\ ToldBy(q) /\ (pc'[q] = pc[q] \/ (q = r /\ pc'[q] = "failed"))
      BY <2>3 DEF Inv
    <3>2. BuiltBy(q)'
      BY <1>1, <2>1, <3>1 DEF BuiltBy, Account, ScaleTip, MaxFee
    <3>3. CoveredBy(q)'
      BY <1>1, <2>1, <3>1 DEF CoveredBy, Account, Taken, FromOwn
    <3>4. ToldBy(q)'
      BY <1>1, <2>1, <3>1 DEF ToldBy
    <3>. QED
      BY <3>2, <3>3, <3>4
  <2>7. \A q \in Requests : pc'[q] = "answered" => Occupied(tx[q])'
    BY <2>1, <2>3 DEF Inv, Occupied, SameSlot
  <2>. QED
    BY <2>1, <2>4, <2>5, <2>6, <2>7 DEF Inv
<1>. QED
  BY <1>2, <1>3 DEF Broadcast

-----------------------------------------------------------------------------
(***************************************************************************)
(* Blocks.                                                                 *)
(***************************************************************************)

\* The smaller and the larger of two numbers.
LEMMA MinOfTwo == ASSUME NEW x \in Int, NEW y \in Int PROVE Min({x, y}) = IF x <= y THEN x ELSE y
<1> DEFINE P(m) == \A n \in {x, y} : m <= n
<1>1. \E m \in {x, y} : P(m)
  OBVIOUS
<1>2. Min({x, y}) = CHOOSE m \in {x, y} : P(m)
  BY DEF Min
<1>3. Min({x, y}) \in {x, y} /\ P(Min({x, y}))
  BY <1>1, <1>2
<1>. QED
  BY <1>3

\* The greater of two numbers.
LEMMA MaxOfTwo == ASSUME NEW x \in Int, NEW y \in Int PROVE Max({x, y}) = IF x >= y THEN x ELSE y
<1> DEFINE P(m) == \A n \in {x, y} : m >= n
<1>1. \E m \in {x, y} : P(m)
  OBVIOUS
<1>2. Max({x, y}) = CHOOSE m \in {x, y} : P(m)
  BY DEF Max
<1>3. Max({x, y}) \in {x, y} /\ P(Max({x, y}))
  BY <1>1, <1>2
<1>. QED
  BY <1>3

\* The base fee of the next block: at most an eighth more, or one.
LEMMA NextBaseBound ==
  ASSUME base \in Nat, NEW b \in NextBase
  PROVE  /\ b \in Nat
         /\ base < 8 => b <= base + 1
         /\ base >= 8 => 8 * b <= 9 * base
         /\ 8 * b >= 7 * base
<1>1. /\ Max({1, base \div 8}) = IF 1 >= base \div 8 THEN 1 ELSE base \div 8
      /\ base \div 8 \in Nat /\ 8 * (base \div 8) <= base /\ base < 8 * (base \div 8) + 8
  BY MaxOfTwo
<1>2. PICK move \in BaseMoves :
        b = CASE move = "down" -> base - base \div 8
              [] move = "same" -> base
              [] move = "up"   -> base + Max({1, base \div 8})
  BY DEF NextBase
<1>3. move \in {"down", "same", "up"}
  BY ChainAssumption
<1>. QED
  BY <1>1, <1>2, <1>3

Receipt(t, h, b) ==
  [tx |-> t, ok |-> t.to \notin Contracts, block |-> h, tip |-> Min({t.tip, t.cap - b})]

\* What a block adds to what is mined, for each of its transactions.
LEMMA ReceiptIs ==
  ASSUME NEW t \in Txs, NEW h \in Nat, NEW b \in Nat
  PROVE  /\ Receipt(t, h, b) \in MinedTxs
         /\ Receipt(t, h, b).tx = t
         /\ Receipt(t, h, b).ok <=> t.to \notin Contracts
         /\ Receipt(t, h, b).block = h
         /\ Receipt(t, h, b).tip = IF t.tip <= t.cap - b THEN t.tip ELSE t.cap - b
<1>1. t.tip \in Nat /\ t.cap - b \in Int
  BY DEF Txs
<1>2. Min({t.tip, t.cap - b}) = IF t.tip <= t.cap - b THEN t.tip ELSE t.cap - b
  BY <1>1, MinOfTwo
<1>3. (t.to \notin Contracts) \in BOOLEAN
  OBVIOUS
<1>4. ASSUME NEW ok \in BOOLEAN, NEW tip \in Int
      PROVE  [tx |-> t, ok |-> ok, block |-> h, tip |-> tip] \in MinedTxs
  BY DEF MinedTxs
<1>5. Min({t.tip, t.cap - b}) \in Int
  BY <1>1, <1>2
<1>6. Receipt(t, h, b) \in MinedTxs
  BY <1>3, <1>4, <1>5 DEF Receipt
<1>. QED
  BY <1>2, <1>6 DEF Receipt

\* The blocks from h on make room for another: what they held waits again, and
\* the nonces go back to where the others leave them.
Room(before, h, free) ==
  /\ h \in 0..MaxBlocks /\ h >= blocks
  /\ before \in [Addresses -> Nat]
  /\ free \in SUBSET Txs /\ IsFiniteSet(free)
  /\ \A t, u \in free : SameSlot(t, u) => t = u
  /\ \A t \in free : t.nonce >= before[t.signer]
  /\ \A m \in mined : m.block < h => m.tx.nonce \in InitialNonce[m.tx.signer]..(before[m.tx.signer] - 1)
  /\ \A a \in Addresses :
       /\ before[a] >= InitialNonce[a] /\ before[a] <= nonce[a]
       /\ \A n \in InitialNonce[a]..(before[a] - 1) : \E m \in mined : m.block < h /\ m.tx.signer = a /\ m.tx.nonce = n
       /\ \A n \in before[a]..(nonce[a] - 1) : Taken(free, a, n)

\* A block takes the next transactions of each account: their nonces move from
\* the pool to the chain.
LEMMA ConnectsInv ==
  ASSUME Inv, NEW before, NEW h, NEW b \in Nat, NEW free,
         free = pool \cup {m.tx : m \in {k \in mined : k.block >= h}},
         Room(before, h, free), Connects(before, h, b)
  PROVE  Inv'
<1> DEFINE kept == {m \in mined : m.block < h}
<1>0. {k \in mined : k.block >= h} = mined \ kept /\ free = pool \cup {m.tx : m \in mined \ kept}
  <2>1. \A m \in mined : m.block \in Nat
    BY DEF Inv, Held, MinedTxs
  <2>2. h \in Nat
    BY ChainAssumption DEF Room
  <2>3. {k \in mined : k.block >= h} = mined \ kept
    BY <2>1, <2>2
  <2>. QED
    BY <2>3
<1>1. PICK block \in SUBSET free :
        /\ \A t \in block :
             /\ t.cap >= b
             /\ \A n \in before[t.signer]..t.nonce : Taken(block, t.signer, n)
        /\ blocks' = h /\ base' = b /\ parent' = before
        /\ nonce' = [a \in Addresses |-> before[a] + Cardinality({t \in block : t.signer = a})]
        /\ pool' = free \ block
        /\ mined' = kept \cup
             {[tx |-> t, ok |-> t.to \notin Contracts, block |-> h, tip |-> Min({t.tip, t.cap - b})] : t \in block}
        /\ UNCHANGED <<pc, callVars, statusVars, faults>>
  BY <1>0 DEF Connects
<1>2. UNCHANGED <<pc, want, counted, known, suggested, head, tx, found, status, buried, faults>>
  BY <1>1 DEF callVars, statusVars
<1>3. /\ h \in Nat /\ mined \in SUBSET MinedTxs /\ IsFiniteSet(mined)
      /\ kept \subseteq mined /\ \A m \in mined : m \in kept \/ m.block >= h
      /\ nonce \in [Addresses -> Nat] /\ InitialNonce \in [Addresses -> Nat]
  BY ChainAssumption DEF Inv, Held, TypeOK, Room, MinedTxs
<1> DEFINE F == {[tx |-> t, ok |-> t.to \notin Contracts, block |-> h, tip |-> Min({t.tip, t.cap - b})] : t \in block}
           C(a) == Cardinality({t \in block : t.signer = a})
<1>4. /\ free \in SUBSET Txs /\ IsFiniteSet(free)
      /\ \A t, u \in free : SameSlot(t, u) => t = u
      /\ \A t \in free : t.nonce >= before[t.signer]
      /\ \A a \in Addresses : \A n \in before[a]..(nonce[a] - 1) : Taken(free, a, n)
  BY DEF Room
<1>5. /\ before \in [Addresses -> Nat] /\ h \in 0..MaxBlocks
      /\ \A m \in kept : m.tx.nonce \in InitialNonce[m.tx.signer]..(before[m.tx.signer] - 1)
      /\ \A a \in Addresses :
           /\ before[a] >= InitialNonce[a] /\ before[a] <= nonce[a]
           /\ \A n \in InitialNonce[a]..(before[a] - 1) : \E m \in kept : m.tx.signer = a /\ m.tx.nonce = n
  BY DEF Room
<1>6. /\ F \subseteq MinedTxs /\ IsFiniteSet(F)
      /\ \A m \in F : m.tx \in block /\ m.block = h /\ (m.ok <=> m.tx.to \notin Contracts)
      /\ \A t \in block : \E m \in F : m.tx = t
  <2>1. /\ F = {Receipt(t, h, b) : t \in block}
    BY DEF Receipt
  <2>2. IsFiniteSet(block)
    BY <1>4, FS_Subset
  <2>. HIDE DEF F, C
  <2>3. ASSUME NEW t \in block
        PROVE  /\ Receipt(t, h, b) \in MinedTxs /\ Receipt(t, h, b).tx = t /\ Receipt(t, h, b).block = h
               /\ Receipt(t, h, b).ok <=> t.to \notin Contracts
    BY <1>3, <1>4, ReceiptIs
  <2>4. IsFiniteSet(F)
    <3> DEFINE f == [t \in block |-> Receipt(t, h, b)]
    <3>1. f \in Surjection(block, F)
      BY <2>1 DEF Surjection
    <3>. HIDE DEF f
    <3>. QED
      BY <2>2, <3>1, FS_Surjection
  <2>. QED
    BY <2>1, <2>3, <2>4
<1>7. mined' = kept \cup F
  BY <1>1
<1>8. /\ Latest' = block /\ Below' = {m.tx : m \in kept} /\ InChain' = {m.tx : m \in kept} \cup block
      /\ \A m \in mined' : m.block <= blocks'
  <2>. HIDE DEF F, C
  <2>0. /\ blocks' = h /\ \A m \in F : m.block = h
        /\ \A m \in kept : m.block \in Nat /\ m.block < h
    BY <1>1, <1>3, <1>6 DEF MinedTxs
  <2>. HIDE DEF kept
  <2>1. {k \in mined' : k.block = blocks'} = F
    BY <1>3, <1>7, <2>0
  <2>2. {k \in mined' : k.block < blocks'} = kept
    BY <1>3, <1>7, <2>0
  <2>3. {m.tx : m \in F} = block
    BY <1>6
  <2>4. \A m \in mined' : m.block <= blocks'
    BY <1>3, <1>7, <2>0
  <2>. QED
    BY <1>7, <2>1, <2>2, <2>3, <2>4 DEF Latest, Below, InChain
<1>9. pool' \cup InChain' = pool \cup InChain
  <2>1. InChain = {m.tx : m \in kept} \cup {m.tx : m \in mined \ kept}
    BY DEF InChain
  <2>. QED
    BY <1>0, <1>1, <1>8, <2>1
<1>10. ASSUME NEW a \in Addresses
      PROVE  /\ nonce'[a] \in Nat /\ before[a] \in Nat /\ InitialNonce[a] \in Nat /\ nonce[a] \in Nat
             /\ nonce'[a] >= before[a] /\ before[a] >= InitialNonce[a]
             /\ \A n \in before[a]..(nonce'[a] - 1) : Taken(block, a, n)
             /\ \A t \in block : t.signer = a => t.nonce >= before[a] /\ t.nonce < nonce'[a]
  <2>1. /\ C(a) \in Nat
        /\ \A n \in before[a]..(before[a] + C(a) - 1) : Taken(block, a, n)
        /\ \A t \in block : t.signer = a => t.nonce < before[a] + C(a)
    BY <1>1, <1>4, <1>5, BlockNonces
  <2>2. nonce'[a] = before[a] + C(a) /\ before[a] \in Nat /\ InitialNonce[a] \in Nat /\ nonce[a] \in Nat
    BY <1>1, <1>3, <1>5
  <2>. HIDE DEF C
  <2>3. \A t \in block : t.signer = a => t.nonce >= before[a]
    BY <1>4
  <2>. QED
    BY <1>5, <2>1, <2>2, <2>3
<1>. HIDE DEF F, C
<1>11. Held'
  <2>1. nonce' \in [Addresses -> Nat]
    BY <1>1, <1>10
  <2>2. pool' \in SUBSET Txs /\ IsFiniteSet(pool')
    BY <1>1, <1>4, FS_Subset
  <2>3. mined' \in SUBSET MinedTxs /\ IsFiniteSet(mined')
    <3>1. IsFiniteSet(kept)
      BY <1>3, FS_Subset
    <3>. QED
      BY <1>3, <1>6, <1>7, <3>1, FS_Union
  <2>4. TypeOK'
    BY <1>1, <1>2, <1>5, <1>9, <2>1 DEF Inv, Held, TypeOK
  <2>. QED
    BY <1>2, <2>2, <2>3, <2>4 DEF Inv, Held
<1>12. Slots'
  <2>1. \A t \in pool' \cup InChain' : \E q \in Requests : tx'[q] = t
    BY <1>2, <1>9 DEF Inv, Slots
  <2>2. /\ \A t, u \in pool' : SameSlot(t, u) => t = u
        /\ \A t, u \in Latest' : SameSlot(t, u) => t = u
    BY <1>1, <1>4, <1>8
  <2>3. ASSUME NEW t \in pool' PROVE t.nonce >= nonce'[t.signer]
    <3>1. t \in free /\ t \notin block /\ t.signer \in Addresses /\ t.nonce \in Nat /\ t.nonce >= before[t.signer]
      BY <1>1, <1>4 DEF Txs
    <3>2. ~Taken(block, t.signer, t.nonce)
      BY <1>4, <3>1 DEF Taken, SameSlot
    <3>. QED
      BY <1>10, <3>1, <3>2
  <2>4. ASSUME NEW t \in Latest' PROVE t.nonce \in parent'[t.signer]..(nonce'[t.signer] - 1)
    <3>1. t \in block /\ t.signer \in Addresses /\ t.nonce \in Nat
      BY <1>4, <1>8 DEF Txs
    <3>2. parent' = before
      BY <1>1
    <3>3. /\ t.nonce >= before[t.signer] /\ t.nonce < nonce'[t.signer]
          /\ before[t.signer] \in Nat /\ nonce'[t.signer] \in Nat
      BY <1>10, <3>1
    <3>. QED
      BY <3>1, <3>2, <3>3
  <2>5. \A t \in Below' : t.nonce \in InitialNonce[t.signer]..(parent'[t.signer] - 1)
    BY <1>1, <1>5, <1>8
  <2>6. ASSUME NEW a \in Addresses
        PROVE  /\ nonce'[a] >= parent'[a] /\ parent'[a] >= InitialNonce[a]
               /\ \A n \in parent'[a]..(nonce'[a] - 1) : Taken(Latest', a, n)
               /\ \A n \in InitialNonce[a]..(parent'[a] - 1) : Taken(Below', a, n)
    <3>1. \A n \in InitialNonce[a]..(before[a] - 1) : Taken(Below', a, n)
      <4>. HIDE DEF kept
      <4>. QED
        BY <1>5, <1>8 DEF Taken
    <3>2. parent' = before
      BY <1>1
    <3>. QED
      BY <1>8, <1>10, <3>1, <3>2
  <2>. QED
    BY <1>8, <2>1, <2>2, <2>3, <2>4, <2>5, <2>6 DEF Slots, Taken, SameSlot
<1>13. ASSUME NEW r \in Requests PROVE BuiltBy(r)' /\ CoveredBy(r)' /\ ToldBy(r)'
  <2>0. BuiltBy(r) /\ CoveredBy(r) /\ ToldBy(r)
    BY DEF Inv
  <2>1. BuiltBy(r)'
    BY <1>2, <2>0 DEF BuiltBy, Account, ScaleTip, MaxFee
  <2>2. CoveredBy(r)'
    <3>1. SUFFICES ASSUME pc[r] # "new", FromOwn(r), NEW n \in nonce'[Account(r)]..(counted[r] - 1)
                   PROVE  Taken(pool', Account(r), n)
      BY <1>2, <2>0 DEF CoveredBy, FromOwn, Account, Taken
    <3>2. Account(r) \in Addresses /\ counted[r] \in Nat
      BY <2>0, <3>1, ChainAssumption DEF BuiltBy, Account, Inv, Held, TypeOK
    <3>3. n \in Nat /\ n >= nonce'[Account(r)] /\ n >= before[Account(r)]
      BY <1>10, <3>2
    <3>4. Taken(free, Account(r), n)
      <4>1. n \in nonce[Account(r)]..(counted[r] - 1) \/ n \in before[Account(r)]..(nonce[Account(r)] - 1)
        BY <1>10, <3>2, <3>3
      <4>2. CASE n \in nonce[Account(r)]..(counted[r] - 1)
        BY <1>0, <2>0, <3>1, <4>2 DEF CoveredBy, Taken
      <4>3. CASE n \in before[Account(r)]..(nonce[Account(r)] - 1)
        BY <1>4, <3>2, <4>3
      <4>. QED
        BY <4>1, <4>2, <4>3
    <3>5. PICK t \in free : t.signer = Account(r) /\ t.nonce = n
      BY <3>4 DEF Taken
    <3>6. t \notin block
      BY <1>10, <3>2, <3>3, <3>5
    <3>. QED
      BY <1>1, <3>5, <3>6 DEF Taken
  <2>3. ToldBy(r)'
    <3>1. blocks \in Nat /\ h >= blocks /\ \A m \in mined : m.block \in Nat
      BY <1>3, NumbersHeld DEF Room, MinedTxs
    <3>2. {k \in mined : k.block < blocks} \subseteq kept
      BY <1>3, <3>1
    <3>3. Below \subseteq Below'
      <4>. HIDE DEF kept
      <4>. QED
        BY <1>8, <3>2 DEF Below
    <3>. QED
      BY <1>2, <2>0, <3>3 DEF ToldBy
  <2>. QED
    BY <2>1, <2>2, <2>3
<1>14. \A r \in Requests : pc'[r] = "answered" => Occupied(tx[r])'
  BY <1>2, <1>9 DEF Inv, Occupied, SameSlot
<1>15. \A m \in mined' : m.ok <=> m.tx.to \notin Contracts
  BY <1>6, <1>7 DEF Inv
<1>. QED
  BY <1>11, <1>12, <1>13, <1>14, <1>15 DEF Inv

\* Nothing is undone for a block on top of the latest one.
LEMMA MineInv == ASSUME Inv, Mine PROVE Inv'
<1>1. PICK b \in NextBase : Connects(nonce, blocks + 1, b)
  BY DEF Mine
<1>2. blocks \in Nat /\ base \in Nat /\ b \in Nat /\ blocks + 1 \in 0..MaxBlocks
  <2>1. blocks \in Nat /\ base \in Nat /\ MaxBlocks \in Nat /\ blocks < MaxBlocks
    BY NumbersHeld, ChainAssumption DEF Mine
  <2>. QED
    BY <2>1, NextBaseBound
<1>3. \A m \in mined : m.block < blocks + 1 /\ ~(m.block >= blocks + 1)
  BY <1>2 DEF Inv, Slots, Held, MinedTxs
<1>4. pool \cup {m.tx : m \in {k \in mined : k.block >= blocks + 1}} = pool
  BY <1>3
<1>5. /\ nonce \in [Addresses -> Nat] /\ InitialNonce \in [Addresses -> Nat]
      /\ pool \in SUBSET Txs /\ IsFiniteSet(pool)
      /\ \A t, u \in pool : SameSlot(t, u) => t = u
      /\ \A t \in pool : t.nonce >= nonce[t.signer]
  BY ChainAssumption DEF Inv, Held, TypeOK, Slots
<1>6. \A m \in mined : m.tx.nonce \in InitialNonce[m.tx.signer]..(nonce[m.tx.signer] - 1)
  BY ChainSlots DEF InChain
<1>7. ASSUME NEW a \in Addresses
      PROVE  /\ nonce[a] >= InitialNonce[a] /\ nonce[a] <= nonce[a]
             /\ \A n \in InitialNonce[a]..(nonce[a] - 1) :
                  \E m \in mined : m.block < blocks + 1 /\ m.tx.signer = a /\ m.tx.nonce = n
             /\ \A n \in nonce[a]..(nonce[a] - 1) : Taken(pool, a, n)
  <2>1. nonce[a] \in Nat /\ nonce[a] >= InitialNonce[a]
    BY <1>5, ChainSlots
  <2>2. \A n \in InitialNonce[a]..(nonce[a] - 1) :
          \E m \in mined : m.block < blocks + 1 /\ m.tx.signer = a /\ m.tx.nonce = n
    BY <1>3, ChainSlots DEF Taken, InChain
  <2>. QED
    BY <2>1, <2>2
<1>8. Room(nonce, blocks + 1, pool)
  BY <1>2, <1>5, <1>6, <1>7 DEF Room
<1>. QED
  BY <1>1, <1>2, <1>4, <1>8, ConnectsInv

\* The latest block gives way: its transactions had the last nonces.
LEMMA ForkInv == ASSUME Inv, Fork PROVE Inv'
<1>1. Connects(parent, blocks, base) /\ blocks \in 0..MaxBlocks /\ blocks \in Nat /\ base \in Nat
  BY NumbersHeld DEF Fork, Inv, Held, TypeOK
<1>2. pool \cup {m.tx : m \in {k \in mined : k.block >= blocks}} = pool \cup Latest
  <2>0. \A m \in mined : m.block \in Nat /\ m.block <= blocks
    BY DEF Inv, Slots, Held, MinedTxs
  <2>1. {k \in mined : k.block >= blocks} = {k \in mined : k.block = blocks}
    BY <1>1, <2>0
  <2>. QED
    BY <2>1 DEF Latest
<1>3. /\ nonce \in [Addresses -> Nat] /\ parent \in [Addresses -> Nat] /\ InitialNonce \in [Addresses -> Nat]
      /\ pool \in SUBSET Txs /\ IsFiniteSet(pool) /\ Latest \in SUBSET Txs /\ Slots
  BY ChainAssumption, ChainSlots DEF Inv, Held, TypeOK
<1>4. ASSUME NEW a \in Addresses
      PROVE  nonce[a] \in Nat /\ parent[a] \in Nat /\ InitialNonce[a] \in Nat
             /\ parent[a] <= nonce[a] /\ parent[a] >= InitialNonce[a]
  BY <1>3 DEF Slots
<1>5. IsFiniteSet(Latest)
  <2> DEFINE M == {k \in mined : k.block = blocks}
             f == [m \in M |-> m.tx]
  <2>1. f \in Surjection(M, Latest)
    BY DEF Surjection, Latest
  <2>2. IsFiniteSet(M)
    BY FS_Subset DEF Inv, Held
  <2>. HIDE DEF M, f
  <2>. QED
    BY <2>1, <2>2, FS_Surjection
<1>6. IsFiniteSet(pool \cup Latest)
  BY <1>3, <1>5, FS_Union
<1>7. ASSUME NEW t \in pool \cup Latest
      PROVE  /\ t.signer \in Addresses /\ t.nonce \in Nat /\ t.nonce >= parent[t.signer]
             /\ t \in pool <=> t.nonce >= nonce[t.signer]
  <2>1. t.signer \in Addresses /\ t.nonce \in Nat
    BY <1>3 DEF Txs
  <2>2. t \in pool => t.nonce >= nonce[t.signer]
    BY <1>3 DEF Slots
  <2>3. t \in Latest => t.nonce \in parent[t.signer]..(nonce[t.signer] - 1)
    BY <1>3 DEF Slots
  <2>. QED
    BY <1>4, <2>1, <2>2, <2>3
<1>8. ASSUME NEW t \in pool \cup Latest, NEW u \in pool \cup Latest, SameSlot(t, u) PROVE t = u
  <2>1. t \in pool <=> u \in pool
    BY <1>7, <1>8 DEF SameSlot
  <2>. QED
    BY <1>3, <1>8, <2>1 DEF Slots
<1>9. \A m \in mined : m.block < blocks => m.tx \in Below
  BY DEF Below
<1>10. ASSUME NEW a \in Addresses
       PROVE  /\ \A n \in InitialNonce[a]..(parent[a] - 1) :
                   \E m \in mined : m.block < blocks /\ m.tx.signer = a /\ m.tx.nonce = n
              /\ \A n \in parent[a]..(nonce[a] - 1) : Taken(pool \cup Latest, a, n)
  <2>1. \A n \in InitialNonce[a]..(parent[a] - 1) :
          \E m \in mined : m.block < blocks /\ m.tx.signer = a /\ m.tx.nonce = n
    BY <1>3 DEF Slots, Taken, Below
  <2>2. \A n \in parent[a]..(nonce[a] - 1) : Taken(pool \cup Latest, a, n)
    BY <1>3 DEF Slots, Taken
  <2>. QED
    BY <2>1, <2>2
<1>11. \A m \in mined : m.block < blocks => m.tx.nonce \in InitialNonce[m.tx.signer]..(parent[m.tx.signer] - 1)
  BY <1>3, <1>9 DEF Slots
<1>12. Room(parent, blocks, pool \cup Latest)
  <2>1. /\ blocks \in 0..MaxBlocks /\ blocks >= blocks /\ parent \in [Addresses -> Nat]
        /\ pool \cup Latest \in SUBSET Txs
    BY <1>1, <1>3
  <2>2. \A t \in pool \cup Latest : t.nonce >= parent[t.signer]
    BY <1>7
  <2>3. \A a \in Addresses : parent[a] >= InitialNonce[a] /\ parent[a] <= nonce[a]
    BY <1>4
  <2>. QED
    BY <1>6, <1>8, <1>10, <1>11, <2>1, <2>2, <2>3 DEF Room
<1>. QED
  BY <1>1, <1>2, <1>12, ConnectsInv

-----------------------------------------------------------------------------
(***************************************************************************)
(* Status.                                                                 *)
(***************************************************************************)

\* A step of Status changes what is told of one transaction and nothing else.
LEMMA StatusKeeps ==
  ASSUME Inv, UNCHANGED <<nodeVars, pc, callVars>>, faults' \in 0..MaxFaults,
         found' \in [Requests -> BOOLEAN], buried' \in [Requests -> BOOLEAN],
         status' \in [Requests -> {"none", "pending", "confirmed", "failed", "unknown"}],
         \A r \in Requests : ToldBy(r)'
  PROVE  Inv'
<1>1. /\ UNCHANGED <<blocks, base, nonce, parent, pool, mined, pc, want, counted, known, suggested, head, tx>>
      /\ InChain' = InChain /\ Latest' = Latest /\ Below' = Below
  BY DEF nodeVars, callVars, InChain, Latest, Below
<1>2. Held'
  BY <1>1 DEF Inv, Held, TypeOK
<1>3. Slots'
  BY <1>1 DEF Inv, Slots, Taken, SameSlot
<1>4. ASSUME NEW r \in Requests PROVE BuiltBy(r)' /\ CoveredBy(r)'
  BY <1>1 DEF Inv, BuiltBy, CoveredBy, Account, FromOwn, Taken, ScaleTip, MaxFee
<1>5. \A r \in Requests : pc'[r] = "answered" => Occupied(tx[r])'
  BY <1>1 DEF Inv, Occupied, SameSlot
<1>. QED
  BY <1>1, <1>2, <1>3, <1>4, <1>5 DEF Inv

\* What a receipt says of a mined transaction.
LEMMA ReceiptStatusIs ==
  ASSUME Inv, NEW t \in InChain
  PROVE  ReceiptStatus(t) = IF t.to \notin Contracts THEN "confirmed" ELSE "failed"
<1>1. PICK m \in mined : m.tx = t
  BY DEF InChain
<1>2. \A k \in mined : k.tx = t => (k.ok <=> t.to \notin Contracts)
  BY DEF Inv
<1>. QED
  BY <1>1, <1>2 DEF ReceiptStatus

\* An answer is kept with whether it is the outcome in a block below the latest.
LEMMA AnswersInv ==
  ASSUME Inv, NEW r \in Requests, pc[r] = "answered",
         NEW s \in {"unknown", "pending", "confirmed", "failed"},
         s \in {"confirmed", "failed"} => tx[r] \in InChain /\ s = ReceiptStatus(tx[r]),
         Answers(r, s), found' \in [Requests -> BOOLEAN],
         \A q \in Requests : found'[q] => found[q] \/ q = r,
         faults' \in 0..MaxFaults, UNCHANGED <<nodeVars, pc, callVars>>
  PROVE  Inv'
<1> DEFINE z == s \in {"confirmed", "failed"} /\ \E m \in mined : m.tx = tx[r] /\ m.block < blocks
<1>1. /\ status' = [status EXCEPT ![r] = s] /\ buried' = [buried EXCEPT ![r] = z]
      /\ status \in [Requests -> {"none", "pending", "confirmed", "failed", "unknown"}]
      /\ buried \in [Requests -> BOOLEAN] /\ z \in BOOLEAN
      /\ UNCHANGED <<pc, tx>> /\ Below' = Below
      /\ \A q \in Requests : ToldBy(q)
  BY DEF Answers, Inv, Held, TypeOK, nodeVars, callVars, Below
<1>2. z => tx[r] \in Below /\ s = IF tx[r].to \notin Contracts THEN "confirmed" ELSE "failed"
  BY ReceiptStatusIs DEF Below
<1>. HIDE DEF z
<1>3. /\ status' \in [Requests -> {"none", "pending", "confirmed", "failed", "unknown"}]
      /\ buried' \in [Requests -> BOOLEAN]
      /\ status'[r] = s /\ buried'[r] = z
      /\ \A q \in Requests : q # r => status'[q] = status[q] /\ buried'[q] = buried[q]
  BY <1>1
<1>4. ToldBy(r)'
  BY <1>1, <1>2, <1>3 DEF ToldBy
<1>5. \A q \in Requests : q # r => ToldBy(q)'
  BY <1>1, <1>3 DEF ToldBy
<1>. QED
  BY <1>3, <1>4, <1>5, StatusKeeps

\* The node has the transaction or has lost it.
LEMMA TransactionByHashInv == ASSUME Inv, NEW r \in Requests, TransactionByHash(r) PROVE Inv'
<1>1. /\ UNCHANGED <<nodeVars, pc, callVars>> /\ faults' \in 0..MaxFaults
      /\ UNCHANGED <<mined, blocks, tx, pc>> /\ Below' = Below
      /\ found \in [Requests -> BOOLEAN] /\ buried \in [Requests -> BOOLEAN]
      /\ status \in [Requests -> {"none", "pending", "confirmed", "failed", "unknown"}]
      /\ pc[r] = "answered" /\ ~found[r]
      /\ \A q \in Requests : ToldBy(q)
  BY ChainAssumption DEF TransactionByHash, Fails, nodeVars, callVars, Below, Inv, Held, TypeOK
<1>2. CASE (found' = [found EXCEPT ![r] = TRUE] \/ UNCHANGED found) /\ UNCHANGED <<status, buried>>
  <2>1. found' \in [Requests -> BOOLEAN] /\ \A q \in Requests : found'[q] = found[q] \/ q = r
    BY <1>1, <1>2
  <2>2. \A q \in Requests : ToldBy(q)'
    BY <1>1, <1>2, <2>1 DEF ToldBy
  <2>. QED
    BY <1>1, <1>2, <2>1, <2>2, StatusKeeps
<1>3. CASE Answers(r, "unknown") /\ UNCHANGED found
  BY <1>1, <1>3, AnswersInv
<1>. QED
  BY <1>2, <1>3 DEF TransactionByHash, statusVars

\* The answer is what the receipt says, or pending.
LEMMA TransactionReceiptInv == ASSUME Inv, NEW r \in Requests, TransactionReceipt(r) PROVE Inv'
<1>1. /\ UNCHANGED <<nodeVars, pc, callVars>> /\ faults' \in 0..MaxFaults
      /\ found \in [Requests -> BOOLEAN]
      /\ found[r] /\ found' = [found EXCEPT ![r] = FALSE] /\ pc[r] = "answered"
  BY ChainAssumption DEF TransactionReceipt, Fails, Inv, Held, TypeOK, ToldBy
<1>2. found' \in [Requests -> BOOLEAN] /\ \A q \in Requests : found'[q] => found[q] \/ q = r
  BY <1>1
<1>3. PICK s \in {ReceiptStatus(tx[r]), "pending"} : Answers(r, s)
  BY DEF TransactionReceipt, NoReceipt
<1>4. /\ s \in {"unknown", "pending", "confirmed", "failed"}
      /\ s \in {"confirmed", "failed"} => tx[r] \in InChain /\ s = ReceiptStatus(tx[r])
  BY <1>3 DEF ReceiptStatus, NoReceipt
<1>. QED
  BY <1>1, <1>2, <1>3, <1>4, AnswersInv

-----------------------------------------------------------------------------
(***************************************************************************)
(* The theorems.                                                           *)
(***************************************************************************)

\* The invariant holds at the start,
LEMMA InitInv == Init => Inv
<1>1. SUFFICES ASSUME Init PROVE Inv
  OBVIOUS
<1>2. InChain = {} /\ pool = {} /\ mined = {} /\ Latest = {} /\ Below = {} /\ IsFiniteSet({})
  BY <1>1, FS_EmptySet DEF Init, InChain, Latest, Below
<1>3. Held
  BY <1>1, <1>2, ChainAssumption DEF Init, Held, TypeOK, Stages
<1>4. Slots
  BY <1>1, <1>2, ChainAssumption DEF Init, Slots
<1>. QED
  BY <1>1, <1>2, <1>3, <1>4 DEF Init, Inv, BuiltBy, CoveredBy, ToldBy

\* and every step keeps it.
LEMMA StepInv == Inv /\ [Next]_vars => Inv'
<1>1. SUFFICES ASSUME Inv, [Next]_vars PROVE Inv'
  OBVIOUS
<1>2. CASE UNCHANGED vars
  <2>1. UNCHANGED <<nodeVars, pc, callVars>> /\ UNCHANGED <<found, status, buried, faults, tx>> /\ Below' = Below
    BY <1>2 DEF vars, nodeVars, callVars, statusVars, Below
  <2>2. \A r \in Requests : ToldBy(r)'
    BY <1>1, <2>1 DEF Inv, ToldBy
  <2>. QED
    BY <1>1, <2>1, <2>2, StatusKeeps DEF Inv, Held, TypeOK
<1>3. CASE Mine \/ Fork
  BY <1>1, <1>3, MineInv, ForkInv
<1>4. ASSUME NEW r \in Requests, Transfer(r) PROVE Inv'
  BY <1>1, <1>4, BeginInv, PendingNonceAtInv, SuggestGasTipCapInv, HeaderByNumberInv, BroadcastInv DEF Transfer
<1>5. ASSUME NEW r \in Requests, Status(r) PROVE Inv'
  BY <1>1, <1>5, TransactionByHashInv, TransactionReceiptInv DEF Status
<1>. QED
  BY <1>1, <1>2, <1>3, <1>4, <1>5 DEF Next

\* The inductive invariant holds of every history of calls and blocks.
THEOREM EvmInv == Spec => []Inv
BY InitInv, StepInv, PTL DEF Spec

\* Every variable keeps its type; a transaction's tip is never above its cap.
THEOREM EvmTypeCorrect == Spec => []TypeOK
<1>1. Inv => TypeOK
  BY DEF Inv, Held
<1>. QED
  BY <1>1, EvmInv, PTL

\* However many calls overlap, fail or replace one another, what PendingNonceAt
\* gave them leaves no gap below a transaction that waits.
THEOREM NoNonceGapCorrect == Spec => []NoNonceGap
<1>1. ASSUME Inv PROVE NoNonceGap
  <2>1. SUFFICES ASSUME NEW r \in Requests, tx[r] \in pool, FromOwn(r),
                        NEW n \in nonce[tx[r].signer]..tx[r].nonce
                 PROVE  Taken(pool, tx[r].signer, n)
    BY DEF NoNonceGap
  <2>2. tx[r] \in Txs /\ tx[r] # NoTx
    BY <1>1, <2>1, NodeHolds
  <2>3. pc[r] # "new" /\ tx[r].signer = Account(r) /\ tx[r].nonce = counted[r]
    BY <1>1, <2>2 DEF Inv, BuiltBy
  <2>4. tx[r].nonce \in Nat /\ nonce[tx[r].signer] \in Nat
    BY <1>1, <2>2, NodeHolds DEF Txs
  <2>5. CASE n = tx[r].nonce
    BY <2>1, <2>5 DEF Taken
  <2>6. CASE n \in nonce[Account(r)]..(counted[r] - 1)
    BY <1>1, <2>1, <2>3, <2>6 DEF Inv, CoveredBy
  <2>. QED
    BY <2>3, <2>4, <2>5, <2>6
<1>. QED
  BY <1>1, EvmInv, PTL

\* Of two calls that both pay, the one with the higher nonce read its nonce when
\* the other's was in use.
THEOREM PaidOneAfterOtherCorrect == Spec => []PaidOneAfterOther
<1>1. ASSUME Inv PROVE PaidOneAfterOther
  <2>1. SUFFICES ASSUME NEW q \in Requests, NEW r \in Requests, tx[q] \in InChain, tx[r] \in InChain,
                        FromOwn(r), tx[q].signer = tx[r].signer, tx[q].nonce < tx[r].nonce
                 PROVE  Taken(known[r], tx[q].signer, tx[q].nonce)
    BY DEF PaidOneAfterOther
  <2>2. tx[r] \in Txs /\ tx[r] # NoTx /\ tx[q] \in Txs
    BY <1>1, <2>1, NodeHolds
  <2>3. pc[r] # "new" /\ tx[r].signer = Account(r) /\ tx[r].nonce = counted[r]
    BY <1>1, <2>2 DEF Inv, BuiltBy
  <2>4. tx[q].nonce \in InitialNonce[tx[q].signer]..(nonce[tx[q].signer] - 1)
    BY <1>1, <2>1, ChainSlots
  <2>5. /\ tx[q].nonce \in Nat /\ tx[r].nonce \in Nat
        /\ InitialNonce[tx[q].signer] \in Nat /\ nonce[tx[q].signer] \in Nat
    BY <1>1, <2>2, NodeHolds DEF Txs
  <2>6. tx[q].nonce \in InitialNonce[Account(r)]..(counted[r] - 1)
    BY <2>1, <2>3, <2>4, <2>5
  <2>. QED
    BY <1>1, <2>1, <2>3, <2>6 DEF Inv, CoveredBy
<1>. QED
  BY <1>1, EvmInv, PTL

\* A higher suggestion and a faster speed give no lower tip.
LEMMA ScaleTipMonotone ==
  ASSUME NEW m \in Nat, NEW n \in Nat, m <= n, NEW s, NEW f, Rank(s) <= Rank(f)
  PROVE  ScaleTip(m, s) <= ScaleTip(n, f)
<1> DEFINE By(x) == CASE x = "fast" -> 15 [] x = "economy" -> 8 [] OTHER -> 10
<1>1. By(s) \in {8, 10, 15} /\ By(f) \in {8, 10, 15} /\ By(s) <= By(f)
  BY DEF Rank
<1>2. ScaleTip(m, s) = (m * By(s)) \div 10 /\ ScaleTip(n, f) = (n * By(f)) \div 10
  BY DEF ScaleTip
<1>. HIDE DEF By
<1>3. CASE By(s) = 8
  BY <1>1, <1>2, <1>3
<1>4. CASE By(s) = 10
  BY <1>1, <1>2, <1>4
<1>5. CASE By(s) = 15
  BY <1>1, <1>2, <1>5
<1>. QED
  BY <1>1, <1>3, <1>4, <1>5

\* A transaction the caller was given the hash of is dropped only for one of a
\* faster speed or of a higher suggested tip.
THEOREM AnsweredStaysCorrect == Spec => []AnsweredStays
<1>1. ASSUME Inv PROVE AnsweredStays
  <2>1. SUFFICES ASSUME NEW r \in Requests, pc[r] = "answered", tx[r] \notin pool \cup InChain
                 PROVE  \E q \in Requests \ {r} :
                          /\ tx[q] \in pool \cup InChain /\ SameSlot(tx[q], tx[r])
                          /\ Rank(want[q].speed) > Rank(want[r].speed) \/ suggested[q] > suggested[r]
    BY DEF AnsweredStays
  <2>2. PICK u \in pool \cup InChain : SameSlot(u, tx[r]) /\ u.tip > tx[r].tip
    BY <1>1, <2>1 DEF Inv, Occupied
  <2>3. PICK q \in Requests : tx[q] = u
    BY <1>1 DEF Inv, Slots
  <2>4. tx[q] # NoTx /\ tx[r] # NoTx
    BY <1>1, <2>1, <2>3, NodeHolds DEF Inv, BuiltBy
  <2>5. /\ tx[q].tip = ScaleTip(suggested[q], want[q].speed)
        /\ tx[r].tip = ScaleTip(suggested[r], want[r].speed)
    BY <1>1, <2>4 DEF Inv, BuiltBy
  <2>6. suggested[q] \in Nat /\ suggested[r] \in Nat
    BY <1>1, NumbersHeld
  <2>7. ASSUME ~(Rank(want[q].speed) > Rank(want[r].speed)), ~(suggested[q] > suggested[r]) PROVE FALSE
    <3>1. Rank(want[q].speed) <= Rank(want[r].speed) /\ suggested[q] <= suggested[r]
      BY <2>6, <2>7 DEF Rank
    <3>2. tx[q].tip <= tx[r].tip
      BY <2>5, <2>6, <3>1, ScaleTipMonotone
    <3>3. tx[q].tip \in Nat /\ tx[r].tip \in Nat
      BY <2>5, <2>6, ScaleTipType
    <3>. QED
      BY <2>2, <2>3, <3>2, <3>3
  <2>8. q # r
    BY <2>1, <2>3
  <2>. QED
    BY <2>2, <2>3, <2>7, <2>8
<1>. QED
  BY <1>1, EvmInv, PTL

\* An outcome GetTransaction gave when its block had another on top is final, but
\* for a receipt call that fails.
THEOREM EvmStatusCorrect == Spec => StatusIsFinal
<1> DEFINE A == \A r \in Requests :
                  buried[r] => status'[r] = status[r] \/ (status'[r] = "pending" /\ faults' > faults)
<1>1. ASSUME Inv, Next PROVE A
  <2>1. SUFFICES ASSUME NEW r \in Requests, buried[r], status'[r] # status[r]
                 PROVE  status'[r] = "pending" /\ faults' > faults
    OBVIOUS
  <2>2. /\ status \in [Requests -> {"none", "pending", "confirmed", "failed", "unknown"}]
        /\ faults \in Nat /\ tx[r] \in InChain
        /\ status[r] = IF tx[r].to \notin Contracts THEN "confirmed" ELSE "failed"
    <3>1. ToldBy(r)
      BY <1>1 DEF Inv
    <3>. QED
      BY <1>1, <2>1, <3>1, ChainAssumption, ChainSlots DEF Inv, Held, TypeOK, ToldBy
  <2>3. TransactionByHash(r) \/ TransactionReceipt(r)
    <3>1. ASSUME Mine \/ Fork PROVE FALSE
      BY <2>1, <3>1 DEF Mine, Fork, Connects, statusVars
    <3>2. ASSUME NEW q \in Requests, Transfer(q) PROVE FALSE
      BY <2>1, <3>2
      DEF Transfer, Begin, PendingNonceAt, SuggestGasTipCap, HeaderByNumber, Broadcast, statusVars
    <3>3. ASSUME NEW q \in Requests, q # r, Status(q) PROVE FALSE
      BY <2>1, <2>2, <3>3 DEF Status, TransactionByHash, TransactionReceipt, Answers, statusVars
    <3>. QED
      BY <1>1, <3>1, <3>2, <3>3 DEF Next, Status
  <2>4. CASE TransactionByHash(r)
    BY <2>1, <2>2, <2>4 DEF TransactionByHash, statusVars
  <2>5. CASE TransactionReceipt(r)
    <3>1. ReceiptStatus(tx[r]) = status[r]
      BY <1>1, <2>2, ReceiptStatusIs
    <3>. QED
      BY <2>1, <2>2, <2>5, <3>1 DEF TransactionReceipt, Answers, Fails, NoReceipt
  <2>. QED
    BY <2>3, <2>4, <2>5
<1>2. Inv /\ [Next]_vars => [A]_vars
  BY <1>1
<1>. QED
  BY <1>2, EvmInv, PTL DEF Spec, StatusIsFinal

-----------------------------------------------------------------------------
(***************************************************************************)
(* Fees.                                                                   *)
(***************************************************************************)

\* b is what a base fee B may have become k blocks later: an eighth more in each,
\* or one while it is small.
Grown(B, k, b) ==
  /\ B < 8 /\ k <= 5 => b <= B + k
  /\ B >= 8 =>
       /\ k = 0 => b <= B
       /\ k = 1 => 8 * b <= 9 * B
       /\ k = 2 => 64 * b <= 81 * B
       /\ k = 3 => 512 * b <= 729 * B
       /\ k = 4 => 4096 * b <= 6561 * B
       /\ k = 5 => 32768 * b <= 59049 * B

\* Another block keeps to the bound.
LEMMA GrownStep ==
  ASSUME NEW B \in Nat, NEW k \in Nat, NEW b \in Nat, NEW c \in Nat, Grown(B, k, b),
         b < 8 => c <= b + 1, b >= 8 => 8 * c <= 9 * b
  PROVE  Grown(B, k + 1, c)
<1>1. CASE B < 8
  BY <1>1 DEF Grown
<1>2. CASE B >= 8 /\ b < 8
  BY <1>2 DEF Grown
<1>3. CASE B >= 8 /\ b >= 8
  BY <1>3 DEF Grown
<1>. QED
  BY <1>1, <1>2, <1>3

\* Five blocks do not double a base fee, unless it is tiny.
LEMMA GrownBound ==
  ASSUME NEW B \in Nat, B >= 5, NEW k \in 0..5, NEW b \in Nat, Grown(B, k, b)
  PROVE  b <= 2 * B
BY DEF Grown

\* The base fee a transaction was built for and the one there is now; what is
\* mined within five blocks has its tip paid in full.
FeeInv ==
  /\ base >= 5
  /\ \A r \in Requests :
       tx[r] # NoTx =>
         /\ head[r].block <= blocks /\ head[r].base >= 5
         /\ Grown(head[r].base, blocks - head[r].block, base)
  /\ \A r \in Requests, m \in mined :
       m.tx = tx[r] /\ m.block - head[r].block \in 1..5 => m.tip = tx[r].tip

\* A step that neither mines nor builds a transaction.
LEMMA FeeKeeps == ASSUME FeeInv, UNCHANGED <<blocks, base, mined, head, tx>> PROVE FeeInv'
BY DEF FeeInv, Grown

\* A transaction is built for the base fee of the latest block.
LEMMA HeaderByNumberFee == ASSUME Inv, FeeInv, NEW r \in Requests, HeaderByNumber(r) PROVE FeeInv'
<1>1. CASE UNCHANGED <<head, tx>>
  BY <1>1, FeeKeeps DEF HeaderByNumber, nodeVars
<1>2. CASE /\ head' = [head EXCEPT ![r] = [block |-> blocks, base |-> base]]
           /\ tx' = [tx EXCEPT ![r] = BuildTransfer(want[r], counted[r], suggested[r], base)]
  <2>1. /\ UNCHANGED <<blocks, base, mined>> /\ blocks \in Nat /\ base \in Nat
        /\ tx \in [Requests -> Txs \cup {NoTx}] /\ head \in [Requests -> [block : Nat, base : Nat]]
        /\ mined \in SUBSET MinedTxs
    BY NumbersHeld DEF HeaderByNumber, nodeVars, Inv, Held
  <2>2. /\ head'[r].block = blocks /\ head'[r].base = base
        /\ \A q \in Requests : q # r => head'[q] = head[q] /\ tx'[q] = tx[q]
    BY <1>2, <2>1
  <2>3. Grown(base, blocks - blocks, base)
    BY <2>1 DEF Grown
  <2>4. \A q \in Requests :
          tx'[q] # NoTx =>
            /\ head'[q].block <= blocks /\ head'[q].base >= 5
            /\ Grown(head'[q].base, blocks - head'[q].block, base)
    BY <2>1, <2>2, <2>3 DEF FeeInv
  <2>5. \A q \in Requests, m \in mined :
          m.tx = tx'[q] /\ m.block - head'[q].block \in 1..5 => m.tip = tx'[q].tip
    <3>1. \A m \in mined : m.block \in Nat /\ m.block <= blocks
      BY <2>1 DEF Inv, Slots, MinedTxs
    <3>2. \A m \in mined : ~(m.block - blocks \in 1..5)
      BY <2>1, <3>1
    <3>. QED
      BY <2>2, <3>2 DEF FeeInv
  <2>. QED
    BY <2>1, <2>4, <2>5 DEF FeeInv, Grown
<1>. QED
  BY <1>1, <1>2 DEF HeaderByNumber

\* Twice the base fee covers what it has become, and leaves the tip.
LEMMA ConnectsFee ==
  ASSUME Inv, FeeInv, NEW before, NEW h \in Nat, NEW b \in Nat, Connects(before, h, b),
         h >= blocks, b >= 5,
         \A B \in Nat, k \in Nat : k <= blocks /\ Grown(B, blocks - k, base) => Grown(B, h - k, b)
  PROVE  FeeInv'
<1>1. PICK block \in SUBSET (pool \cup {m.tx : m \in mined \ {m \in mined : m.block < h}}) :
        /\ blocks' = h /\ base' = b
        /\ mined' = {m \in mined : m.block < h} \cup
             {[tx |-> t, ok |-> t.to \notin Contracts, block |-> h, tip |-> Min({t.tip, t.cap - b})] : t \in block}
        /\ UNCHANGED <<head, tx>>
  BY DEF Connects, callVars
<1>2. /\ blocks' = h /\ base' = b /\ UNCHANGED <<head, tx>> /\ blocks \in Nat /\ base \in Nat
  BY <1>1, NumbersHeld
<1>3. /\ tx \in [Requests -> Txs \cup {NoTx}] /\ head \in [Requests -> [block : Nat, base : Nat]]
      /\ mined \in SUBSET MinedTxs /\ pool \in SUBSET Txs /\ NoTx \notin Txs
  BY ChainAssumption DEF Inv, Held
<1>4. block \subseteq Txs
  BY <1>1, <1>3 DEF MinedTxs
<1>5. ASSUME NEW r \in Requests, tx[r] # NoTx
      PROVE  /\ head[r].block \in Nat /\ head[r].base \in Nat
             /\ head[r].block <= h /\ head[r].base >= 5
             /\ Grown(head[r].base, h - head[r].block, b)
  <2>1. /\ head[r].block \in Nat /\ head[r].base \in Nat /\ head[r].block <= blocks /\ head[r].base >= 5
        /\ Grown(head[r].base, blocks - head[r].block, base)
    BY <1>3, <1>5 DEF FeeInv
  <2>. QED
    BY <1>2, <2>1
<1>6. ASSUME NEW m \in mined', m \notin mined
      PROVE  /\ m.tx \in block /\ m.block = h
             /\ m.tip = IF m.tx.tip <= m.tx.cap - b THEN m.tx.tip ELSE m.tx.cap - b
  <2>1. PICK t \in block : m = Receipt(t, h, b)
    BY <1>1, <1>6 DEF Receipt
  <2>. QED
    BY <1>4, <2>1, ReceiptIs
<1>7. ASSUME NEW r \in Requests, NEW m \in mined', m.tx = tx[r], m.block - head[r].block \in 1..5
      PROVE  m.tip = tx[r].tip
  <2>1. CASE m \in mined
    BY <1>7, <2>1 DEF FeeInv
  <2>2. CASE m \notin mined
    <3>1. tx[r] \in Txs /\ tx[r] # NoTx /\ m.block = h
      BY <1>3, <1>4, <1>6, <1>7, <2>2
    <3>2. tx[r].cap = MaxFee(head[r].base, tx[r].tip)
      BY <3>1 DEF Inv, BuiltBy
    <3>3. b <= 2 * head[r].base /\ head[r].base \in Nat
      <4> DEFINE k == h - head[r].block
      <4>1. k \in 0..5 /\ Grown(head[r].base, k, b)
        BY <1>5, <1>7, <3>1
      <4>. HIDE DEF k
      <4>. QED
        BY <1>5, <3>1, <4>1, GrownBound
    <3>4. tx[r].tip <= tx[r].cap - b
      BY <3>1, <3>2, <3>3 DEF MaxFee, Txs
    <3>. QED
      BY <1>6, <1>7, <2>2, <3>4
  <2>. QED
    BY <2>1, <2>2
<1>8. \A r \in Requests :
         tx'[r] # NoTx =>
           /\ head'[r].block <= blocks' /\ head'[r].base >= 5
           /\ Grown(head'[r].base, blocks' - head'[r].block, base')
  BY <1>2, <1>5
<1>. QED
  BY <1>2, <1>7, <1>8 DEF FeeInv, Grown

\* A block on top grows the base fee once more.
LEMMA MineFee == ASSUME Inv, FeeInv, Mine PROVE FeeInv'
<1>1. PICK b \in NextBase : Connects(nonce, blocks + 1, b)
  BY DEF Mine
<1>2. blocks \in Nat /\ base \in Nat /\ base >= 5
  BY NumbersHeld DEF FeeInv
<1>3. /\ b \in Nat /\ (base < 8 => b <= base + 1) /\ (base >= 8 => 8 * b <= 9 * base) /\ 8 * b >= 7 * base
  BY <1>2, NextBaseBound
<1>4. ASSUME NEW B \in Nat, NEW k \in Nat, k <= blocks, Grown(B, blocks - k, base)
      PROVE  Grown(B, (blocks + 1) - k, b)
  <2>1. blocks - k \in Nat /\ (blocks + 1) - k = (blocks - k) + 1
    BY <1>2, <1>4
  <2>2. Grown(B, (blocks - k) + 1, b)
    BY <1>2, <1>3, <1>4, <2>1, GrownStep
  <2>. QED
    BY <2>1, <2>2
<1>5. b >= 5 /\ blocks + 1 \in Nat /\ blocks + 1 >= blocks
  BY <1>2, <1>3
<1>. QED
  BY <1>1, <1>3, <1>4, <1>5, ConnectsFee

\* The block in the place of the latest has its base fee.
LEMMA ForkFee == ASSUME Inv, FeeInv, Fork PROVE FeeInv'
<1>1. Connects(parent, blocks, base) /\ blocks \in Nat /\ base \in Nat /\ base >= 5 /\ blocks >= blocks
  BY NumbersHeld DEF Fork, FeeInv
<1>. QED
  BY <1>1, ConnectsFee

\* Twice the base fee of the latest block is enough for the five blocks after it,
\* whatever the base fee does in them, on a chain whose base fee starts at 5 at
\* least: one of 1 may be 6 after five blocks.
THEOREM TipPaidCorrect == ASSUME InitialBase >= 5 PROVE Spec => []TipPaidForFiveBlocks
<1>1. Init => FeeInv
  BY DEF Init, FeeInv
<1>2. ASSUME Inv, FeeInv, [Next]_vars PROVE FeeInv'
  <2>1. CASE UNCHANGED vars
    BY <1>2, <2>1, FeeKeeps DEF vars, nodeVars, callVars
  <2>2. CASE Mine \/ Fork
    BY <1>2, <2>2, MineFee, ForkFee
  <2>3. ASSUME NEW r \in Requests, Transfer(r) \/ Status(r) PROVE FeeInv'
    <3>1. CASE HeaderByNumber(r)
      BY <1>2, <3>1, HeaderByNumberFee
    <3>2. CASE ~HeaderByNumber(r)
      <4>1. UNCHANGED <<blocks, base, mined, head, tx>>
        BY <2>3, <3>2
        DEF Transfer, Status, Begin, PendingNonceAt, SuggestGasTipCap, Broadcast, TransactionByHash,
            TransactionReceipt, nodeVars, callVars
      <4>. QED
        BY <1>2, <4>1, FeeKeeps
    <3>. QED
      BY <3>1, <3>2
  <2>. QED
    BY <1>2, <2>1, <2>2, <2>3 DEF Next
<1>3. ASSUME Inv, FeeInv PROVE TipPaidForFiveBlocks
  <2>1. SUFFICES ASSUME NEW r \in Requests, NEW m \in mined, m.tx = tx[r], m.block - head[r].block \in 1..5
                 PROVE  m.tip = ScaleTip(suggested[r], want[r].speed)
    BY DEF TipPaidForFiveBlocks
  <2>2. tx[r] # NoTx
    BY <1>3, <2>1, ChainAssumption DEF Inv, Held, MinedTxs
  <2>. QED
    BY <1>3, <2>1, <2>2 DEF FeeInv, Inv, BuiltBy
<1>. QED
  BY <1>1, <1>2, <1>3, EvmInv, PTL DEF Spec
================================================================================
