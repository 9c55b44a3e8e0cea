------------------------------ MODULE WalletProofs ------------------------------
(***************************************************************************)
(* Proofs about WalletService for any number of requests, failed writes    *)
(* and deaths of the process.  The types, AccountsOfOneSeed and            *)
(* SeedLostToCollision hold for any clock; AccountsHaveKey and             *)
(* CreatedIsComplete as long as every request has read a time of its own.  *)
(***************************************************************************)
EXTENDS WalletService, TLAPS

\* A request has an id exactly when it has begun.
Named ==
  \A r \in Requests :
    /\ pc[r] = "new" => id[r] = NoId
    /\ pc[r] # "new" => id[r] \in Ids

BaseInv == TypeOK /\ Named /\ AccountsOfOneSeed

\* How far a request got, in the tables.
Progress ==
  \A r \in Requests :
    /\ pc[r] \in {"keys", "accounts", "created"} => id[r] \in wallets
    /\ pc[r] \in {"accounts", "created"} => keystore[id[r]] = r
    /\ pc[r] = "created" => \A c \in AccountChains : accounts[id[r]][c] = r

\* An account row is of a request that has nothing left to write.
Settled ==
  \A i \in Ids, c \in Supported :
    accounts[i][c] # NoSeed =>
      /\ i \in wallets
      /\ keystore[i] = accounts[i][c]
      /\ \E r \in Requests : id[r] = i /\ pc[r] \in {"created", "failed", "dead"}

WInv == BaseInv /\ DistinctIds /\ Progress /\ Settled

\* What holds of every clock: the full invariant while the ids differ.
ClockInv == BaseInv /\ (DistinctIds => WInv)

-----------------------------------------------------------------------------

\* The chains that get an account are chains of the registry.
LEMMA ChainData == AccountChains \subseteq Supported
BY DEF AccountChains

\* A failed write changes the fault count within its bound, or not at all.
LEMMA FailsType ==
  ASSUME TypeOK, NEW r, NEW write, NEW contextual, Fails(r, write, contextual)
  PROVE  faults' \in 0..MaxFaults
BY FaultAssumption DEF TypeOK, Fails

\* What SaveAccounts may leave in one wallet's rows.
LEMMA UpsertData ==
  ASSUME NEW r \in Requests, NEW rows \in [Supported -> Requests \cup {NoSeed}],
         \A c, d \in AccountChains : rows[c] = rows[d],
         NEW new \in Upserted(r, rows) \cup {AccountsOf(r, rows)}
  PROVE  /\ new \in [Supported -> Requests \cup {NoSeed}]
         /\ \A c, d \in AccountChains : new[c] = new[d]
         /\ \A c \in Supported : new[c] \in {r, rows[c]}
BY ChainData DEF AccountsOf, Upserted

\* An upsert that is answered has the seed on every derivable chain.
LEMMA UpsertComplete ==
  ASSUME NEW r, NEW rows, NEW c \in AccountChains
  PROVE  AccountsOf(r, rows)[c] = r
BY ChainData DEF AccountsOf

-----------------------------------------------------------------------------
(***************************************************************************)
(* The invariant for any clock.                                            *)
(***************************************************************************)

\* Nothing is stored and no request has begun.
LEMMA InitBase == Init => BaseInv
BY FaultAssumption, ChainData DEF Init, BaseInv, TypeOK, Named, AccountsOfOneSeed, Stages

\* Taking an id writes nothing.
LEMMA BeginBase == ASSUME BaseInv, NEW r \in Requests, Begin(r) PROVE BaseInv'
<1>1. TypeOK' /\ Named'
  BY DEF BaseInv, TypeOK, Named, Begin, Goes, Stages, tables
<1>2. AccountsOfOneSeed'
  BY DEF BaseInv, AccountsOfOneSeed, Begin, tables
<1>. QED
  BY <1>1, <1>2 DEF BaseInv

\* The first Save writes no account.
LEMMA SaveWalletBase == ASSUME BaseInv, NEW r \in Requests, SaveWallet(r) PROVE BaseInv'
<1>0. faults' \in 0..MaxFaults
  BY FailsType DEF BaseInv, TypeOK, SaveWallet
<1>1. TypeOK'
  BY <1>0 DEF BaseInv, TypeOK, Named, SaveWallet, Goes, Stages
<1>2. Named' /\ AccountsOfOneSeed'
  BY DEF BaseInv, TypeOK, Named, AccountsOfOneSeed, SaveWallet, Goes
<1>. QED
  BY <1>1, <1>2 DEF BaseInv

\* The keystore write touches no account.
LEMMA CreateKeysBase == ASSUME BaseInv, NEW r \in Requests, CreateKeys(r) PROVE BaseInv'
<1>0. faults' \in 0..MaxFaults
  BY FailsType DEF BaseInv, TypeOK, CreateKeys
<1>1. TypeOK'
  <2>1. keystore' \in [Ids -> Requests \cup {NoSeed}]
    BY DEF BaseInv, TypeOK, Named, CreateKeys
  <2>2. pc' \in [Requests -> Stages]
    BY DEF BaseInv, TypeOK, CreateKeys, Goes, Stages, AfterKeys
  <2>. QED
    BY <1>0, <2>1, <2>2 DEF BaseInv, TypeOK, CreateKeys
<1>2. Named'
  BY DEF BaseInv, TypeOK, Named, CreateKeys, Goes, AfterKeys
<1>3. AccountsOfOneSeed'
  BY DEF BaseInv, AccountsOfOneSeed, CreateKeys
<1>. QED
  BY <1>1, <1>2, <1>3 DEF BaseInv

\* SaveAccounts replaces the rows of one id by what Upserted or AccountsOf give.
LEMMA SaveAccountsRows ==
  ASSUME BaseInv, NEW r \in Requests, SaveAccounts(r)
  PROVE  /\ pc[r] = "accounts" /\ id[r] \in Ids
         /\ pc' \in {[pc EXCEPT ![r] = "created"], [pc EXCEPT ![r] = "failed"]}
         /\ \E new \in [Supported -> Requests \cup {NoSeed}] :
              /\ accounts' = [accounts EXCEPT ![id[r]] = new]
              /\ \A c, d \in AccountChains : new[c] = new[d]
              /\ \A c \in Supported : new[c] \in {r, accounts[id[r]][c]}
              /\ pc' = [pc EXCEPT ![r] = "created"] => \A c \in AccountChains : new[c] = r
<1>1. pc[r] = "accounts" /\ id[r] \in Ids
  BY DEF BaseInv, Named, SaveAccounts
<1>2. /\ accounts[id[r]] \in [Supported -> Requests \cup {NoSeed}]
      /\ \A c, d \in AccountChains : accounts[id[r]][c] = accounts[id[r]][d]
  BY <1>1 DEF BaseInv, TypeOK, AccountsOfOneSeed
<1>3. CASE /\ accounts' = [accounts EXCEPT ![id[r]] = AccountsOf(r, @)]
           /\ Goes(r, AfterAccounts(TRUE))
  <2>. DEFINE new == AccountsOf(r, accounts[id[r]])
  <2>1. /\ new \in [Supported -> Requests \cup {NoSeed}]
        /\ \A c, d \in AccountChains : new[c] = new[d]
        /\ \A c \in Supported : new[c] \in {r, accounts[id[r]][c]}
        /\ \A c \in AccountChains : new[c] = r
    BY <1>2, UpsertData, UpsertComplete
  <2>2. accounts' = [accounts EXCEPT ![id[r]] = new] /\ pc' = [pc EXCEPT ![r] = "created"]
    BY <1>3 DEF Goes, AfterAccounts
  <2>. HIDE DEF new
  <2>. QED
    BY <1>1, <2>1, <2>2
<1>4. CASE /\ \E rows \in Upserted(r, accounts[id[r]]) : accounts' = [accounts EXCEPT ![id[r]] = rows]
           /\ Goes(r, AfterAccounts(FALSE))
  <2>1. PICK rows \in Upserted(r, accounts[id[r]]) : accounts' = [accounts EXCEPT ![id[r]] = rows]
    BY <1>4
  <2>2. /\ rows \in [Supported -> Requests \cup {NoSeed}]
        /\ \A c, d \in AccountChains : rows[c] = rows[d]
        /\ \A c \in Supported : rows[c] \in {r, accounts[id[r]][c]}
    BY <1>2, UpsertData
  <2>3. pc' = [pc EXCEPT ![r] = "failed"] /\ pc' # [pc EXCEPT ![r] = "created"]
    BY <1>4 DEF Goes, AfterAccounts, BaseInv, TypeOK
  <2>. QED
    BY <1>1, <2>1, <2>2, <2>3
<1>. QED
  BY <1>3, <1>4 DEF SaveAccounts

\* The second Save leaves the rows of each wallet of one seed.
LEMMA SaveAccountsBase == ASSUME BaseInv, NEW r \in Requests, SaveAccounts(r) PROVE BaseInv'
<1>1. PICK new \in [Supported -> Requests \cup {NoSeed}] :
        /\ accounts' = [accounts EXCEPT ![id[r]] = new]
        /\ \A c, d \in AccountChains : new[c] = new[d]
  BY SaveAccountsRows
<1>2. accounts' \in [Ids -> [Supported -> Requests \cup {NoSeed}]] /\ AccountsOfOneSeed'
  BY <1>1, SaveAccountsRows DEF BaseInv, TypeOK, AccountsOfOneSeed
<1>3. faults' \in 0..MaxFaults
  BY FailsType DEF BaseInv, TypeOK, SaveAccounts
<1>4. pc' \in [Requests -> Stages] /\ Named'
  <2>1. pc' \in {[pc EXCEPT ![r] = "created"], [pc EXCEPT ![r] = "failed"]} /\ pc[r] = "accounts"
    BY SaveAccountsRows
  <2>2. pc \in [Requests -> Stages] /\ id' = id
    BY DEF BaseInv, TypeOK, SaveAccounts
  <2>3. pc' \in [Requests -> Stages] /\ \A q \in Requests : pc'[q] = "new" <=> pc[q] = "new"
    BY <2>1, <2>2 DEF Stages
  <2>. QED
    BY <2>2, <2>3 DEF BaseInv, Named
<1>5. TypeOK'
  BY <1>2, <1>3, <1>4 DEF BaseInv, TypeOK, SaveAccounts
<1>. QED
  BY <1>2, <1>4, <1>5 DEF BaseInv

\* A client that goes away changes no table.
LEMMA DisconnectBase == ASSUME BaseInv, NEW r \in Requests, Disconnect(r) PROVE BaseInv'
BY DEF BaseInv, TypeOK, Named, AccountsOfOneSeed, Disconnect, tables

\* A process that dies changes no table.
LEMMA CrashBase == BaseInv /\ Crash => BaseInv'
BY FaultAssumption DEF BaseInv, TypeOK, Named, AccountsOfOneSeed, Crash, tables, Stages

\* Every step keeps the invariant that needs no assumption on the clock.
LEMMA NextBase == BaseInv /\ [Next]_vars => BaseInv'
<1>1. BaseInv /\ UNCHANGED vars => BaseInv'
  BY DEF BaseInv, TypeOK, Named, AccountsOfOneSeed, vars
<1>. QED
  BY <1>1, BeginBase, SaveWalletBase, CreateKeysBase, SaveAccountsBase, DisconnectBase, CrashBase
  DEF Next, Create

\* Types, named requests and one seed per wallet hold of every behaviour.
THEOREM BaseInvariant == Spec => []BaseInv
BY InitBase, NextBase, PTL DEF Spec

\* Every variable keeps its type, for any clock.
THEOREM WalletTypeCorrect == Spec => []TypeOK
BY BaseInvariant, PTL DEF BaseInv

\* The accounts of a wallet come from one seed, even when ids collide.
THEOREM OneSeedCorrect == Spec => []AccountsOfOneSeed
BY BaseInvariant, PTL DEF BaseInv

-----------------------------------------------------------------------------
(***************************************************************************)
(* Whose seeds and addresses the rows of an id are, for any clock.         *)
(***************************************************************************)

\* The rows of an id are of requests that took it, and a request past the
\* keystore write, or one whose addresses are stored, left a seed there.
Owned ==
  /\ \A i \in Ids : keystore[i] # NoSeed => id[keystore[i]] = i
  /\ \A r \in Requests : pc[r] \in {"accounts", "created"} => keystore[id[r]] # NoSeed
  /\ \A i \in Ids, c \in Supported :
       accounts[i][c] # NoSeed => id[accounts[i][c]] = i /\ keystore[i] # NoSeed

\* No row is there at the start.
LEMMA InitOwned == Init => Owned
BY DEF Init, Owned

\* A request that has not begun owns no row, so its id may change.
LEMMA BeginOwned == ASSUME BaseInv, Owned, NEW r \in Requests, Begin(r) PROVE Owned'
<1>1. PICK i \in Ids : id' = [id EXCEPT ![r] = i]
  BY DEF Begin
<1>2. /\ id[r] = NoId /\ pc[r] = "new" /\ pc' = [pc EXCEPT ![r] = "wallet"]
      /\ UNCHANGED <<keystore, accounts>>
  BY DEF Begin, Goes, tables, BaseInv, Named
<1>3. \A q \in Requests : q # r => id'[q] = id[q] /\ pc'[q] = pc[q]
  BY <1>1, <1>2 DEF BaseInv, TypeOK
<1>4. \A j \in Ids : keystore[j] # NoSeed => keystore[j] \in Requests \ {r}
  BY <1>2, RequestAssumption DEF BaseInv, TypeOK, Owned
<1>5. \A j \in Ids, c \in Supported : accounts[j][c] # NoSeed => accounts[j][c] \in Requests \ {r}
  BY <1>2, RequestAssumption DEF BaseInv, TypeOK, Owned
<1>6. pc'[r] = "wallet"
  BY <1>2 DEF BaseInv, TypeOK
<1>. QED
  BY <1>2, <1>3, <1>4, <1>5, <1>6 DEF Owned

\* The keystore row of an id is only ever replaced by a seed of that id.
LEMMA CreateKeysOwned == ASSUME BaseInv, Owned, NEW r \in Requests, CreateKeys(r) PROVE Owned'
<1>1. /\ pc[r] = "keys" /\ id[r] \in Ids /\ UNCHANGED <<accounts, id>>
      /\ keystore \in [Ids -> Requests \cup {NoSeed}]
      /\ accounts \in [Ids -> [Supported -> Requests \cup {NoSeed}]]
      /\ pc \in [Requests -> Stages]
  BY DEF CreateKeys, BaseInv, Named, TypeOK
<1>2. /\ keystore' \in {keystore, [keystore EXCEPT ![id[r]] = r]}
      /\ pc'[r] = "accounts" => keystore'[id[r]] = r
      /\ pc'[r] \in {"accounts", "failed"}
      /\ \A q \in Requests : q # r => pc'[q] = pc[q]
  BY <1>1 DEF CreateKeys, Goes, AfterKeys
<1>3. \A i \in Ids : keystore'[i] # keystore[i] => i = id[r] /\ keystore'[i] = r
  BY <1>1, <1>2
<1>4. r # NoSeed
  BY RequestAssumption
<1>5. \A i \in Ids : keystore[i] # NoSeed => keystore'[i] # NoSeed
  BY <1>3, <1>4
<1>6. \A q \in Requests : pc[q] # "new" => id[q] \in Ids
  BY DEF BaseInv, Named
<1>. QED
  BY <1>1, <1>2, <1>3, <1>4, <1>5, <1>6 DEF Owned

\* Addresses are written by a request that left a seed under the same id.
LEMMA SaveAccountsOwned == ASSUME BaseInv, Owned, NEW r \in Requests, SaveAccounts(r) PROVE Owned'
<1>1. /\ pc[r] = "accounts" /\ id[r] \in Ids
      /\ pc' \in {[pc EXCEPT ![r] = "created"], [pc EXCEPT ![r] = "failed"]}
      /\ UNCHANGED <<keystore, id>>
  BY SaveAccountsRows DEF SaveAccounts
<1>2. PICK new \in [Supported -> Requests \cup {NoSeed}] :
        /\ accounts' = [accounts EXCEPT ![id[r]] = new]
        /\ \A c \in Supported : new[c] \in {r, accounts[id[r]][c]}
  BY SaveAccountsRows
<1>3. accounts'[id[r]] = new /\ \A i \in Ids : i # id[r] => accounts'[i] = accounts[i]
  BY <1>1, <1>2 DEF BaseInv, TypeOK
<1>4. keystore[id[r]] # NoSeed
  BY <1>1 DEF Owned
<1>5. \A i \in Ids, c \in Supported :
        accounts'[i][c] # NoSeed => id[accounts'[i][c]] = i /\ keystore[i] # NoSeed
  BY <1>1, <1>2, <1>3, <1>4 DEF Owned
<1>6. \A q \in Requests : pc'[q] \in {"accounts", "created"} => pc[q] \in {"accounts", "created"}
  BY <1>1 DEF BaseInv, TypeOK
<1>. QED
  BY <1>1, <1>5, <1>6 DEF Owned

\* The other steps write neither seeds nor addresses.
LEMMA OtherOwned ==
  ASSUME BaseInv, Owned, UNCHANGED <<keystore, accounts, id>>,
         \A r \in Requests : pc'[r] \in {"accounts", "created"} => pc[r] \in {"accounts", "created"}
  PROVE  Owned'
BY DEF Owned

\* Every step keeps the rows of an id with the requests that took it.
LEMMA NextOwned == ASSUME BaseInv, Owned, [Next]_vars PROVE Owned'
<1>1. ASSUME NEW r \in Requests, SaveWallet(r) PROVE Owned'
  BY <1>1, OtherOwned DEF SaveWallet, Goes, BaseInv, TypeOK
<1>2. ASSUME NEW r \in Requests, Disconnect(r) PROVE Owned'
  BY <1>2, OtherOwned DEF Disconnect, tables
<1>3. CASE Crash
  BY <1>3, OtherOwned DEF Crash, tables
<1>4. CASE UNCHANGED vars
  BY <1>4, OtherOwned DEF vars
<1>. QED
  BY <1>1, <1>2, <1>3, <1>4, BeginOwned, CreateKeysOwned, SaveAccountsOwned DEF Next, Create

\* A stored address has lost its seed only to a request that took the same id,
\* for any number of requests, failed writes and deaths of the process.
THEOREM SeedLostCorrect == Spec => []SeedLostToCollision
<1>1. BaseInv /\ Owned => SeedLostToCollision
  <2>1. SUFFICES ASSUME BaseInv, Owned, NEW i \in Ids, NEW c \in Supported,
                        accounts[i][c] \notin {NoSeed, keystore[i]}
                 PROVE  /\ id[accounts[i][c]] = i
                        /\ \E q \in Requests \ {accounts[i][c]} : id[q] = i /\ keystore[i] = q
    BY DEF SeedLostToCollision
  <2>2. keystore[i] \in Requests \ {accounts[i][c]} /\ id[keystore[i]] = i
    BY <2>1 DEF BaseInv, TypeOK, Owned
  <2>. QED
    BY <2>1, <2>2 DEF Owned
<1>2. BaseInv /\ Owned /\ [Next]_vars => Owned'
  BY NextOwned
<1>. QED
  BY <1>1, <1>2, InitOwned, BaseInvariant, PTL DEF Spec

-----------------------------------------------------------------------------
(***************************************************************************)
(* The invariant while the ids differ.  An id belongs to one request,      *)
(* so a row is only written by the request that owns it, and the request   *)
(* writes the keystore row before the account rows.                        *)
(***************************************************************************)

\* The full invariant at the start.
LEMMA InitW == Init => ClockInv
BY InitBase DEF Init, ClockInv, WInv, DistinctIds, Progress, Settled

\* A fresh id has no rows that matter yet.
LEMMA BeginW == ASSUME WInv, DistinctIds', NEW r \in Requests, Begin(r) PROVE WInv'
<1>0. BaseInv'
  BY BeginBase DEF WInv
<1>1. PICK i \in Ids : id' = [id EXCEPT ![r] = i]
  BY DEF Begin
<1>2. /\ pc[r] = "new" /\ pc' = [pc EXCEPT ![r] = "wallet"]
      /\ id \in [Requests -> Ids \cup {NoId}] /\ pc \in [Requests -> Stages]
      /\ UNCHANGED <<wallets, keystore, accounts>>
  BY DEF Begin, Goes, tables, WInv, BaseInv, TypeOK
<1>3. DistinctIds'
  OBVIOUS
<1>4. Progress'
  BY <1>1, <1>2 DEF WInv, Progress
<1>5. Settled'
  <2>1. \A q \in Requests : pc[q] \in {"created", "failed", "dead"} => q # r
    BY <1>2
  <2>2. \A q \in Requests : q # r => id'[q] = id[q] /\ pc'[q] = pc[q]
    BY <1>1, <1>2
  <2>. QED
    BY <1>2, <2>1, <2>2 DEF WInv, Settled
<1>. QED
  BY <1>0, <1>3, <1>4, <1>5 DEF WInv

\* The wallet row is there before the keystore is written.
LEMMA SaveWalletW == ASSUME WInv, NEW r \in Requests, SaveWallet(r) PROVE WInv'
<1>0. BaseInv'
  BY SaveWalletBase DEF WInv
<1>1. /\ pc[r] = "wallet"
      /\ pc \in [Requests -> Stages]
      /\ UNCHANGED <<keystore, accounts, id>>
      /\ wallets \subseteq wallets'
      /\ \/ pc' = [pc EXCEPT ![r] = "keys"] /\ id[r] \in wallets'
         \/ pc' = [pc EXCEPT ![r] = "failed"]
  BY DEF SaveWallet, Goes, WInv, BaseInv, TypeOK
<1>2. DistinctIds'
  BY <1>1 DEF WInv, DistinctIds
<1>3. Progress'
  BY <1>1 DEF WInv, Progress
<1>4. Settled'
  BY <1>1 DEF WInv, Settled
<1>. QED
  BY <1>0, <1>2, <1>3, <1>4 DEF WInv

\* No account row and no finished request has the id of a request on its way.
LEMMA Unsettled ==
  ASSUME WInv, NEW r \in Requests, pc[r] \in {"keys", "accounts"}
  PROVE  /\ \A q \in Requests : q # r => id[q] # id[r]
         /\ \A c \in Supported : accounts[id[r]][c] = NoSeed
<1>1. id[r] \in Ids /\ id[r] # NoId
  BY RequestAssumption DEF WInv, BaseInv, Named
<1>2. \A q \in Requests : q # r => id[q] # id[r]
  BY <1>1 DEF WInv, DistinctIds
<1>. QED
  BY <1>1, <1>2 DEF WInv, Settled

\* The keystore row is there before the accounts are written, and no other
\* request shares the id it is written under.
LEMMA CreateKeysW == ASSUME WInv, NEW r \in Requests, CreateKeys(r) PROVE WInv'
<1>0. BaseInv'
  BY CreateKeysBase DEF WInv
<1>1. /\ pc[r] = "keys" /\ id[r] \in Ids
      /\ pc \in [Requests -> Stages] /\ keystore \in [Ids -> Requests \cup {NoSeed}]
      /\ UNCHANGED <<wallets, accounts, id>>
  BY DEF CreateKeys, WInv, BaseInv, TypeOK, Named
<1>2. \/ /\ pc' = [pc EXCEPT ![r] = "accounts"]
         /\ keystore' = [keystore EXCEPT ![id[r]] = r]
      \/ /\ pc' = [pc EXCEPT ![r] = "failed"]
         /\ keystore' \in {keystore, [keystore EXCEPT ![id[r]] = r]}
  BY DEF CreateKeys, Goes, AfterKeys
<1>3. \A q \in Requests : q # r => id[q] # id[r] /\ pc'[q] = pc[q]
  BY <1>1, <1>2, Unsettled
<1>4. \A i \in Ids : i # id[r] => keystore'[i] = keystore[i]
  BY <1>1, <1>2
<1>5. DistinctIds'
  BY <1>1 DEF WInv, DistinctIds
<1>6. Progress'
  <2>1. ASSUME NEW q \in Requests, q # r, pc[q] \in {"accounts", "created"}
        PROVE  keystore'[id[q]] = q
    BY <1>3, <1>4, <2>1 DEF WInv, BaseInv, Named, Progress
  <2>2. pc'[r] = "accounts" => keystore'[id[r]] = r
    BY <1>1, <1>2
  <2>3. pc'[r] \in {"accounts", "failed"} /\ id[r] \in wallets
    BY <1>1, <1>2 DEF WInv, Progress
  <2>. QED
    BY <1>1, <1>3, <2>1, <2>2, <2>3 DEF WInv, Progress
<1>7. Settled'
  BY <1>1, <1>3, <1>4, Unsettled DEF WInv, Settled
<1>. QED
  BY <1>0, <1>5, <1>6, <1>7 DEF WInv

\* The rows written are of the seed the keystore already has.
LEMMA SaveAccountsW == ASSUME WInv, NEW r \in Requests, SaveAccounts(r) PROVE WInv'
<1>0. BaseInv /\ BaseInv'
  BY SaveAccountsBase DEF WInv
<1>1. /\ pc[r] = "accounts" /\ id[r] \in Ids /\ id[r] \in wallets /\ keystore[id[r]] = r
      /\ pc \in [Requests -> Stages]
      /\ accounts \in [Ids -> [Supported -> Requests \cup {NoSeed}]]
      /\ UNCHANGED <<wallets, keystore, id>>
  BY SaveAccountsRows DEF SaveAccounts, WInv, BaseInv, TypeOK, Progress
<1>2. PICK new \in [Supported -> Requests \cup {NoSeed}] :
        /\ accounts' = [accounts EXCEPT ![id[r]] = new]
        /\ \A c \in Supported : new[c] \in {r, accounts[id[r]][c]}
        /\ pc' = [pc EXCEPT ![r] = "created"] => \A c \in AccountChains : new[c] = r
  BY <1>0, SaveAccountsRows
<1>3. pc' \in {[pc EXCEPT ![r] = "created"], [pc EXCEPT ![r] = "failed"]}
  BY <1>0, SaveAccountsRows
<1>4. \A q \in Requests : q # r => id[q] # id[r] /\ pc'[q] = pc[q]
  BY <1>1, <1>3, Unsettled
<1>5. accounts'[id[r]] = new /\ \A i \in Ids : i # id[r] => accounts'[i] = accounts[i]
  BY <1>1, <1>2
<1>6. DistinctIds'
  BY <1>1 DEF WInv, DistinctIds
<1>7. Progress'
  <2>1. ASSUME NEW q \in Requests, q # r, pc[q] = "created"
        PROVE  \A c \in AccountChains : accounts'[id[q]][c] = q
    BY <1>4, <1>5, <2>1 DEF WInv, BaseInv, Named, Progress
  <2>2. pc'[r] = "created" => \A c \in AccountChains : accounts'[id[r]][c] = r
    BY <1>1, <1>2, <1>3, <1>5
  <2>3. pc'[r] \in {"created", "failed"}
    BY <1>1, <1>3
  <2>. QED
    BY <1>1, <1>4, <2>1, <2>2, <2>3 DEF WInv, Progress
<1>8. Settled'
  <2>1. \A c \in Supported : new[c] \in {r, NoSeed}
    BY <1>1, <1>2, Unsettled DEF WInv
  <2>2. pc'[r] \in {"created", "failed"}
    BY <1>1, <1>3
  <2>. QED
    BY <1>1, <1>4, <1>5, <2>1, <2>2 DEF WInv, Settled
<1>. QED
  BY <1>0, <1>6, <1>7, <1>8 DEF WInv

\* A client that goes away changes nothing the invariant is about.
LEMMA DisconnectW == ASSUME WInv, NEW r \in Requests, Disconnect(r) PROVE WInv'
BY DisconnectBase DEF WInv, DistinctIds, Progress, Settled, Disconnect, tables

\* A request that died is never taken up again.
LEMMA CrashW == ASSUME WInv, Crash PROVE WInv'
<1>1. BaseInv' /\ UNCHANGED <<wallets, keystore, accounts, id>>
  BY CrashBase DEF WInv, Crash, tables
<1>2. \A r \in Requests :
        /\ pc'[r] = pc[r] \/ pc'[r] = "dead"
        /\ pc[r] \in {"new", "created", "failed", "dead"} => pc'[r] = pc[r]
  BY DEF Crash
<1>3. DistinctIds' /\ Progress'
  BY <1>1, <1>2 DEF WInv, DistinctIds, Progress
<1>4. Settled'
  BY <1>1, <1>2 DEF WInv, Settled
<1>. QED
  BY <1>1, <1>3, <1>4 DEF WInv

\* An id that two requests share stays shared.
LEMMA DistinctBefore == ASSUME BaseInv, [Next]_vars, DistinctIds' PROVE DistinctIds
<1>1. ASSUME NEW r \in Requests, Begin(r) PROVE DistinctIds
  <2>1. PICK i \in Ids : id' = [id EXCEPT ![r] = i]
    BY <1>1 DEF Begin
  <2>2. id[r] = NoId
    BY <1>1 DEF Begin, BaseInv, Named
  <2>3. \A q \in Requests : q # r => id'[q] = id[q]
    BY <2>1 DEF BaseInv, TypeOK
  <2>. QED
    BY <2>2, <2>3 DEF DistinctIds
<1>2. CASE UNCHANGED id
  BY <1>2 DEF DistinctIds
<1>. QED
  BY <1>1, <1>2 DEF Next, Create, SaveWallet, CreateKeys, SaveAccounts, Disconnect, Crash, vars

\* Every step keeps the full invariant while no two requests share an id.
LEMMA NextW == ASSUME ClockInv, [Next]_vars PROVE ClockInv'
<1>1. BaseInv'
  BY NextBase DEF ClockInv
<1>2. ASSUME DistinctIds' PROVE WInv'
  <2>1. WInv
    BY <1>2, DistinctBefore DEF ClockInv
  <2>2. CASE UNCHANGED vars
    BY <1>1, <2>1, <2>2 DEF WInv, DistinctIds, Progress, Settled, vars
  <2>. QED
    BY <1>2, <2>1, <2>2, BeginW, SaveWalletW, CreateKeysW, SaveAccountsW, DisconnectW, CrashW
    DEF Next, Create
<1>. QED
  BY <1>1, <1>2 DEF ClockInv

\* While the ids differ the full invariant holds, in every behaviour.
LEMMA WInvariant == Spec => []ClockInv
<1>1. ClockInv /\ [Next]_vars => ClockInv'
  BY NextW
<1>. QED
  BY InitW, <1>1, PTL DEF Spec

\* Every saved address can be spent from: keystore row before account rows.
THEOREM AccountsHaveKeyCorrect == Spec => []AccountsHaveKey
<1>1. ClockInv => AccountsHaveKey
  BY DEF ClockInv, WInv, Settled, AccountsHaveKey
<1>. QED
  BY <1>1, WInvariant, PTL

\* A wallet that was answered with stays complete.
THEOREM CreatedIsCompleteCorrect == Spec => []CreatedIsComplete
<1>1. ClockInv => CreatedIsComplete
  BY DEF ClockInv, WInv, Progress, CreatedIsComplete
<1>. QED
  BY <1>1, WInvariant, PTL
================================================================================
