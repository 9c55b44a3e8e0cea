------------------------------ MODULE ReaderProofs ------------------------------
(***************************************************************************)
(* Proofs about WalletReaders, for any number of creations and of calls    *)
(* that read beside them.  Unlike in WalletProofs the clock is looked at   *)
(* one request at a time: what is said of a wallet holds as long as its    *)
(* own request shares its id with no other, whatever the others do.        *)
(***************************************************************************)
EXTENDS WalletReaders, WalletProofs

Done == {"created", "failed", "dead"}

\* The rows a request alone with its id has written, and nobody else.
OwnRows ==
  \A r \in Requests :
    pc[r] # "new" /\ Alone(r) =>
      /\ pc[r] \in {"keys", "accounts", "created"} => id[r] \in wallets
      /\ pc[r] \in {"accounts", "created"} => keystore[id[r]] = r
      /\ pc[r] = "created" => \A c \in AccountChains : accounts[id[r]][c] = r
      /\ \A c \in Supported : accounts[id[r]][c] = r => keystore[id[r]] = r /\ pc[r] \in Done

\* An address is under the id of the request its seed is of.
Placed ==
  \A i \in Ids, c \in Supported :
    accounts[i][c] # NoSeed => id[accounts[i][c]] = i /\ pc[accounts[i][c]] # "new"

RowInv == BaseInv /\ OwnRows /\ Placed

Calls == {"none", "list", "get", "balance", "transfer"}

Steps == {"new", "accounts", "key", "answered", "failed", "noWallet", "noAccount", "noKey", "badPass"}

ReadTypeOK ==
  /\ at \in [Readers -> Steps] /\ kind \in [Readers -> Calls]
  /\ todo \in [Readers -> SUBSET Ids]
  /\ seen \in [Readers -> [Ids -> [Supported -> Requests \cup {NoSeed}]]]
  /\ account \in [Readers -> Requests \cup {NoSeed}]
  /\ signer \in [Readers -> Requests \cup {NoSeed}]
  /\ pass \in [Readers -> Passphrases]
  /\ before \in [Readers -> SUBSET Requests]

\* A list still has to read, or has read in full, every wallet that was
\* answered with before it.
ListInv ==
  \A k \in Readers :
    kind[k] = "list" /\ at[k] \in {"accounts", "answered"} =>
      /\ at[k] = "answered" => todo[k] = {}
      /\ \A r \in before[k] :
           /\ pc[r] = "created"
           /\ Alone(r) => id[r] \in todo[k] \/ \A c \in AccountChains : seen[k][id[r]][c] = r

\* A transfer that has found an address looks for its seed under the id of the
\* request that made it, and finds what that request sealed.
TransferInv ==
  \A k \in Readers :
    kind[k] = "transfer" /\ at[k] \in {"key", "answered", "noKey", "badPass"} =>
      /\ account[k] \in Requests
      /\ pc[account[k]] # "new"
      /\ todo[k] = {id[account[k]]}
      /\ Alone(account[k]) =>
           /\ pc[account[k]] \in Done
           /\ keystore[id[account[k]]] = account[k]
           /\ at[k] = "answered" => signer[k] = account[k]
           /\ at[k] # "noKey"
           /\ at[k] = "badPass" => pass[k] # PassOf[account[k]]

\* A call that reads accounts is known by its kind, and the ones about a wallet
\* have one id left.
CallInv ==
  \A k \in Readers :
    /\ at[k] = "accounts" => kind[k] = "list" \/ (kind[k] # "none" /\ \E i \in Ids : todo[k] = {i})
    /\ at[k] = "key" => kind[k] = "transfer"

Inv == RowInv /\ ReadTypeOK /\ CallInv /\ ListInv /\ TransferInv

-----------------------------------------------------------------------------
(***************************************************************************)
(* The rows.                                                               *)
(***************************************************************************)

\* Nothing is stored yet.
LEMMA InitRows == Init => RowInv
<1>1. ASSUME Init PROVE RowInv
  <2>1. BaseInv
    BY <1>1, InitBase
  <2>2. OwnRows /\ Placed
    BY <1>1, RequestAssumption DEF Init, OwnRows, Placed
  <2>. QED
    BY <2>1, <2>2 DEF RowInv
<1>. QED
  BY <1>1

\* A request that takes an id writes nothing; it ends the solitude of another at most.
LEMMA BeginRows == ASSUME RowInv, NEW r \in Requests, Begin(r) PROVE RowInv'
<1>0. BaseInv'
  BY BeginBase DEF RowInv
<1>1. PICK i \in Ids : id' = [id EXCEPT ![r] = i]
  BY DEF Begin
<1>2. /\ pc[r] = "new" /\ pc' = [pc EXCEPT ![r] = "wallet"] /\ id[r] = NoId
      /\ id \in [Requests -> Ids \cup {NoId}] /\ pc \in [Requests -> Stages]
      /\ accounts \in [Ids -> [Supported -> Requests \cup {NoSeed}]]
      /\ UNCHANGED <<wallets, keystore, accounts>>
  BY DEF Begin, Goes, tables, RowInv, BaseInv, TypeOK, Named
<1>3. \A q \in Requests :
        q # r => id'[q] = id[q] /\ pc'[q] = pc[q] /\ (pc[q] # "new" /\ Alone(q)' => Alone(q))
  <2>1. \A q \in Requests : q # r => id'[q] = id[q] /\ pc'[q] = pc[q]
    BY <1>1, <1>2
  <2>2. ASSUME NEW q \in Requests, q # r, Alone(q)', pc[q] # "new" PROVE Alone(q)
    BY <1>2, <2>1, <2>2, RequestAssumption DEF Alone, RowInv, BaseInv, Named
  <2>. QED
    BY <2>1, <2>2
<1>4. Placed'
  <2>1. ASSUME NEW j \in Ids, NEW c \in Supported, accounts[j][c] # NoSeed
        PROVE  accounts[j][c] \in Requests /\ accounts[j][c] # r
    BY <1>2, <2>1 DEF RowInv, Placed
  <2>. QED
    BY <1>2, <1>3, <2>1 DEF RowInv, Placed
<1>5. OwnRows'
  <2>1. \A c \in Supported : accounts'[id'[r]][c] # r
    BY <1>1, <1>2, RequestAssumption DEF RowInv, Placed
  <2>. QED
    BY <1>1, <1>2, <1>3, <2>1 DEF RowInv, OwnRows
<1>. QED
  BY <1>0, <1>4, <1>5 DEF RowInv

\* The wallet row is there before the keystore is written.
LEMMA SaveWalletRows == ASSUME RowInv, NEW r \in Requests, SaveWallet(r) PROVE RowInv'
<1>0. BaseInv'
  BY SaveWalletBase DEF RowInv
<1>1. /\ pc[r] = "wallet"
      /\ pc \in [Requests -> Stages]
      /\ UNCHANGED <<keystore, accounts, id>>
      /\ wallets \subseteq wallets'
      /\ \/ pc' = [pc EXCEPT ![r] = "keys"] /\ id[r] \in wallets'
         \/ pc' = [pc EXCEPT ![r] = "failed"]
  BY DEF SaveWallet, Goes, RowInv, BaseInv, TypeOK
<1>2. \A q \in Requests : Alone(q)' <=> Alone(q)
  BY <1>1 DEF Alone
<1>3. OwnRows'
  BY <1>1, <1>2 DEF RowInv, OwnRows, Done
<1>4. Placed'
  <2>1. \A q \in Requests : pc[q] # "new" => pc'[q] # "new"
    BY <1>1
  <2>2. \A i \in Ids, c \in Supported : accounts[i][c] \in Requests \cup {NoSeed}
    BY DEF RowInv, BaseInv, TypeOK
  <2>. QED
    BY <1>1, <2>1, <2>2 DEF RowInv, Placed
<1>. QED
  BY <1>0, <1>3, <1>4 DEF RowInv

\* The keystore row of a request alone with its id is overwritten by none.
LEMMA CreateKeysRows == ASSUME RowInv, NEW r \in Requests, CreateKeys(r) PROVE RowInv'
<1>0. BaseInv'
  BY CreateKeysBase DEF RowInv
<1>1. /\ pc[r] = "keys" /\ id[r] \in Ids
      /\ pc \in [Requests -> Stages] /\ keystore \in [Ids -> Requests \cup {NoSeed}]
      /\ UNCHANGED <<wallets, accounts, id>>
  BY DEF CreateKeys, RowInv, BaseInv, TypeOK, Named
<1>2. \/ /\ pc' = [pc EXCEPT ![r] = "accounts"]
         /\ keystore' = [keystore EXCEPT ![id[r]] = r]
      \/ /\ pc' = [pc EXCEPT ![r] = "failed"]
         /\ keystore' \in {keystore, [keystore EXCEPT ![id[r]] = r]}
  BY DEF CreateKeys, Goes, AfterKeys
<1>3. \A q \in Requests : Alone(q)' <=> Alone(q)
  BY <1>1 DEF Alone
<1>4. \A q \in Requests : q # r /\ pc[q] # "new" /\ Alone(q) => pc'[q] = pc[q] /\ keystore'[id[q]] = keystore[id[q]]
  BY <1>1, <1>2 DEF Alone, RowInv, BaseInv, Named
<1>5. /\ pc'[r] \in {"accounts", "failed"}
      /\ pc'[r] = "accounts" => keystore'[id[r]] = r
      /\ Alone(r) => id[r] \in wallets /\ \A c \in Supported : accounts[id[r]][c] # r
  BY <1>1, <1>2 DEF RowInv, OwnRows, Done
<1>6. OwnRows'
  <2>1. \A q \in Requests : q # r => pc'[q] = pc[q]
    BY <1>1, <1>2
  <2>. QED
    BY <1>1, <1>3, <1>4, <1>5, <2>1 DEF RowInv, OwnRows, Done
<1>7. Placed'
  <2>1. \A q \in Requests : pc[q] # "new" => pc'[q] # "new"
    BY <1>1, <1>2
  <2>2. \A i \in Ids, c \in Supported : accounts[i][c] \in Requests \cup {NoSeed}
    BY DEF RowInv, BaseInv, TypeOK
  <2>. QED
    BY <1>1, <2>1, <2>2 DEF RowInv, Placed
<1>. QED
  BY <1>0, <1>6, <1>7 DEF RowInv

\* The account rows written are of the seed the keystore already has.
LEMMA SaveAccountsOwn == ASSUME RowInv, NEW r \in Requests, SaveAccounts(r) PROVE RowInv'
<1>0. BaseInv /\ BaseInv'
  BY SaveAccountsBase DEF RowInv
<1>1. /\ pc[r] = "accounts" /\ id[r] \in Ids
      /\ pc \in [Requests -> Stages]
      /\ accounts \in [Ids -> [Supported -> Requests \cup {NoSeed}]]
      /\ UNCHANGED <<wallets, keystore, id>>
  BY <1>0, SaveAccountsRows DEF SaveAccounts, BaseInv, TypeOK
<1>2. PICK new \in [Supported -> Requests \cup {NoSeed}] :
        /\ accounts' = [accounts EXCEPT ![id[r]] = new]
        /\ \A c \in Supported : new[c] \in {r, accounts[id[r]][c]}
        /\ pc' = [pc EXCEPT ![r] = "created"] => \A c \in AccountChains : new[c] = r
  BY <1>0, SaveAccountsRows
<1>3. pc' \in {[pc EXCEPT ![r] = "created"], [pc EXCEPT ![r] = "failed"]}
  BY <1>0, SaveAccountsRows
<1>4. accounts'[id[r]] = new /\ \A i \in Ids : i # id[r] => accounts'[i] = accounts[i]
  BY <1>1, <1>2
<1>5. \A q \in Requests : Alone(q)' <=> Alone(q)
  BY <1>1 DEF Alone
<1>6. /\ \A q \in Requests : q # r => pc'[q] = pc[q]
      /\ pc'[r] \in {"created", "failed"}
      /\ pc'[r] = "created" => \A c \in AccountChains : new[c] = r
  BY <1>1, <1>2, <1>3
<1>7. OwnRows'
  <2>1. ASSUME NEW q \in Requests, q # r, pc[q] # "new", Alone(q)
        PROVE  id[q] \in Ids /\ accounts'[id[q]] = accounts[id[q]]
    BY <1>1, <1>4, <2>1 DEF Alone, RowInv, BaseInv, Named
  <2>2. Alone(r) => id[r] \in wallets /\ keystore[id[r]] = r
    BY <1>1 DEF RowInv, OwnRows
  <2>. QED
    BY <1>1, <1>4, <1>5, <1>6, <2>1, <2>2 DEF RowInv, OwnRows, Done
<1>8. Placed'
  <2>1. \A q \in Requests : pc[q] # "new" => pc'[q] # "new"
    BY <1>1, <1>6
  <2>2. ASSUME NEW c \in Supported, new[c] # NoSeed
        PROVE  id[new[c]] = id[r] /\ pc'[new[c]] # "new"
    <3>1. CASE new[c] = r
      BY <1>6, <3>1
    <3>2. CASE new[c] = accounts[id[r]][c]
      BY <1>1, <2>1, <2>2, <3>2 DEF RowInv, Placed
    <3>. QED
      BY <1>2, <3>1, <3>2
  <2>3. ASSUME NEW i \in Ids, i # id[r], NEW c \in Supported, accounts[i][c] # NoSeed
        PROVE  id[accounts[i][c]] = i /\ pc'[accounts[i][c]] # "new"
    BY <1>1, <2>1, <2>3 DEF RowInv, Placed
  <2>. QED
    BY <1>1, <1>4, <2>2, <2>3 DEF Placed
<1>. QED
  BY <1>0, <1>7, <1>8 DEF RowInv

\* A client that goes away changes no row and no id.
LEMMA DisconnectRows == ASSUME RowInv, NEW r \in Requests, Disconnect(r) PROVE RowInv'
<1>1. BaseInv'
  BY DisconnectBase DEF RowInv
<1>2. UNCHANGED <<wallets, keystore, accounts, pc, id>>
  BY DEF Disconnect, tables
<1>3. OwnRows' /\ Placed'
  BY <1>2 DEF RowInv, OwnRows, Placed, Alone
<1>. QED
  BY <1>1, <1>3 DEF RowInv

\* Nor does a process that dies.
LEMMA CrashRows == ASSUME RowInv, Crash PROVE RowInv'
<1>1. BaseInv' /\ UNCHANGED <<wallets, keystore, accounts, id>>
  BY CrashBase DEF RowInv, Crash, tables
<1>2. \A r \in Requests :
        /\ pc'[r] = pc[r] \/ (pc'[r] = "dead" /\ pc[r] # "new")
        /\ pc[r] \in {"new", "created", "failed", "dead"} => pc'[r] = pc[r]
  BY DEF Crash
<1>3. OwnRows'
  BY <1>1, <1>2 DEF RowInv, OwnRows, Alone, Done
<1>4. Placed'
  <2>1. \A i \in Ids, c \in Supported : accounts[i][c] \in Requests \cup {NoSeed}
    BY DEF RowInv, BaseInv, TypeOK
  <2>. QED
    BY <1>1, <1>2, <2>1 DEF RowInv, Placed
<1>. QED
  BY <1>1, <1>3, <1>4 DEF RowInv

\* A creation keeps the rows as they should be.
LEMMA NextRows == ASSUME RowInv, Next PROVE RowInv'
BY BeginRows, SaveWalletRows, CreateKeysRows, SaveAccountsOwn, DisconnectRows, CrashRows DEF Next, Create

-----------------------------------------------------------------------------
(***************************************************************************)
(* The readers, while a creation takes a step.                             *)
(***************************************************************************)

\* What a step of a creation leaves of a request that has begun: its id, how it
\* ended, and, as long as it is alone, the seed it sealed.
LEMMA Kept ==
  ASSUME RowInv, Next, NEW r \in Requests, pc[r] # "new"
  PROVE  /\ id'[r] = id[r] /\ pc'[r] # "new"
         /\ Alone(r)' => Alone(r)
         /\ pc[r] \in Done => pc'[r] = pc[r]
         /\ pc[r] \in Done /\ Alone(r)' => keystore'[id[r]] = keystore[id[r]]
<1>0. /\ pc \in [Requests -> Stages] /\ id \in [Requests -> Ids \cup {NoId}]
      /\ keystore \in [Ids -> Requests \cup {NoSeed}]
      /\ id[r] \in Ids /\ NoId \notin Ids
      /\ \A q \in Requests : (pc[q] = "new" => id[q] = NoId) /\ (pc[q] # "new" => id[q] \in Ids)
  BY RequestAssumption DEF RowInv, BaseInv, TypeOK, Named
<1>1. ASSUME NEW q \in Requests, Begin(q)
      PROVE  /\ pc' = [pc EXCEPT ![q] = "wallet"] /\ q # r /\ id[q] = NoId
             /\ \A p \in Requests : p # q => id'[p] = id[p]
             /\ keystore' = keystore
  BY <1>0, <1>1 DEF Begin, Goes, tables
<1>2. ASSUME NEW q \in Requests, Begin(q) PROVE Alone(r)' => Alone(r)
  BY <1>0, <1>1, <1>2 DEF Alone
<1>3. ASSUME UNCHANGED id PROVE Alone(r)' <=> Alone(r)
  BY <1>3 DEF Alone
<1>4. ASSUME NEW q \in Requests, SaveWallet(q) \/ SaveAccounts(q) \/ Disconnect(q)
      PROVE  /\ UNCHANGED <<id, keystore>>
             /\ pc' = pc \/ (pc[q] \notin Done /\ \E st \in Stages \ {"new"} : pc' = [pc EXCEPT ![q] = st])
  BY <1>4 DEF SaveWallet, SaveAccounts, Disconnect, Goes, tables, Done, Stages, AfterAccounts
<1>5. ASSUME NEW q \in Requests, CreateKeys(q)
      PROVE  /\ UNCHANGED id /\ pc[q] = "keys"
             /\ \E st \in {"accounts", "failed"} : pc' = [pc EXCEPT ![q] = st]
             /\ keystore' \in {keystore, [keystore EXCEPT ![id[q]] = q]}
  BY <1>5 DEF CreateKeys, Goes, AfterKeys
<1>6. CASE Crash
  <2>1. UNCHANGED <<id, keystore>> /\ \A q \in Requests : pc'[q] \in {pc[q], "dead"}
    BY <1>6 DEF Crash, tables
  <2>2. pc[r] \in Done => pc'[r] = pc[r]
    BY <1>6 DEF Crash, Done
  <2>. QED
    BY <1>0, <1>3, <2>1, <2>2
<1>7. CASE \E q \in Requests : Begin(q)
  BY <1>0, <1>1, <1>2, <1>7
<1>8. CASE \E q \in Requests : SaveWallet(q) \/ SaveAccounts(q) \/ Disconnect(q)
  BY <1>0, <1>3, <1>4, <1>8
<1>9. CASE \E q \in Requests : CreateKeys(q)
  <2>1. PICK q \in Requests : CreateKeys(q)
    BY <1>9
  <2>2. /\ id'[r] = id[r] /\ pc'[r] # "new" /\ (Alone(r)' => Alone(r))
        /\ pc[r] \in Done => pc'[r] = pc[r] /\ q # r
    BY <1>0, <1>3, <1>5, <2>1 DEF Done
  <2>3. ASSUME pc[r] \in Done, Alone(r) PROVE keystore'[id[r]] = keystore[id[r]]
    <3>1. id[q] # id[r]
      BY <2>2, <2>3 DEF Alone
    <3>. QED
      BY <1>0, <1>5, <2>1, <3>1
  <2>. QED
    BY <2>2, <2>3
<1>. QED
  BY <1>6, <1>7, <1>8, <1>9 DEF Next, Create

\* What a reader knows stays true while creations go on.
LEMMA NextReaders == ASSUME Inv, Next, UNCHANGED readVars PROVE Inv'
<1>1. RowInv /\ RowInv'
  BY NextRows DEF Inv
<1>2. UNCHANGED <<at, kind, todo, seen, account, signer, pass, before>>
  BY DEF readVars
<1>3. ReadTypeOK' /\ CallInv'
  BY <1>2 DEF Inv, ReadTypeOK, CallInv
<1>4. ListInv'
  <2>1. ASSUME NEW k \in Readers, NEW r \in before[k], pc[r] = "created"
        PROVE  pc'[r] = "created" /\ id'[r] = id[r] /\ (Alone(r)' => Alone(r))
    <3>1. r \in Requests
      BY DEF Inv, ReadTypeOK
    <3>. QED
      BY <1>1, <2>1, <3>1, Kept DEF Done
  <2>. QED
    BY <1>2, <2>1 DEF Inv, ListInv
<1>5. TransferInv'
  <2>1. ASSUME NEW k \in Readers, kind[k] = "transfer", at[k] \in {"key", "answered", "noKey", "badPass"}
        PROVE  /\ account[k] \in Requests /\ pc[account[k]] # "new"
               /\ todo[k] = {id[account[k]]}
               /\ Alone(account[k]) =>
                    /\ pc[account[k]] \in Done
                    /\ keystore[id[account[k]]] = account[k]
                    /\ at[k] = "answered" => signer[k] = account[k]
                    /\ at[k] # "noKey"
                    /\ at[k] = "badPass" => pass[k] # PassOf[account[k]]
    BY <2>1 DEF Inv, TransferInv
  <2>2. ASSUME NEW k \in Readers, kind[k] = "transfer", at[k] \in {"key", "answered", "noKey", "badPass"}
        PROVE  /\ id'[account[k]] = id[account[k]] /\ pc'[account[k]] # "new"
               /\ Alone(account[k])' => Alone(account[k])
               /\ pc[account[k]] \in Done /\ Alone(account[k])' =>
                    /\ pc'[account[k]] \in Done
                    /\ keystore'[id[account[k]]] = keystore[id[account[k]]]
    BY <1>1, <1>2, <2>1, <2>2, Kept DEF Alone
  <2>. QED
    BY <1>2, <2>1, <2>2 DEF TransferInv
<1>. QED
  BY <1>1, <1>3, <1>4, <1>5 DEF Inv

-----------------------------------------------------------------------------
(***************************************************************************)
(* The steps of the readers.                                               *)
(***************************************************************************)

\* The chains monitoring watches are chains with an account.
LEMMA Watched == {"ethereum", "base"} \subseteq AccountChains
BY DEF AccountChains, Supported, Derivable

\* A query that fails stays within the bound of failures.
LEMMA QueryFailsType ==
  ASSUME RowInv, NEW k, UNCHANGED faults \/ QueryFails(k)
  PROVE  faults' \in 0..MaxFaults
BY FaultAssumption DEF RowInv, BaseInv, TypeOK, QueryFails

\* A reader writes nothing.
LEMMA ReadRows ==
  ASSUME RowInv, UNCHANGED <<tables, pc, id, connected, crashes>>, faults' \in 0..MaxFaults
  PROVE  RowInv' /\ \A r \in Requests : Alone(r)' <=> Alone(r)
<1>1. UNCHANGED <<wallets, keystore, accounts, pc, id, connected, crashes>>
  BY DEF tables
<1>2. BaseInv'
  BY <1>1 DEF RowInv, BaseInv, TypeOK, Named, AccountsOfOneSeed
<1>3. OwnRows' /\ Placed'
  BY <1>1 DEF RowInv, OwnRows, Placed, Alone
<1>. QED
  BY <1>1, <1>2, <1>3 DEF RowInv, Alone

\* A reader that does not move keeps what it knows.
LEMMA ListAlone ==
  ASSUME ListInv, ReadTypeOK, UNCHANGED <<pc, id>>, NEW k \in Readers,
         \A r \in Requests : Alone(r)' <=> Alone(r),
         \A j \in Readers : j # k =>
           /\ at'[j] = at[j] /\ kind'[j] = kind[j] /\ todo'[j] = todo[j]
           /\ seen'[j] = seen[j] /\ before'[j] = before[j],
         kind'[k] = "list" /\ at'[k] \in {"accounts", "answered"} =>
           /\ at'[k] = "answered" => todo'[k] = {}
           /\ before'[k] \subseteq Requests
           /\ \A r \in before'[k] :
                /\ pc[r] = "created"
                /\ Alone(r) => id[r] \in todo'[k] \/ \A c \in AccountChains : seen'[k][id[r]][c] = r
  PROVE  ListInv'
<1>1. ASSUME NEW j \in Readers, j # k, kind'[j] = "list" /\ at'[j] \in {"accounts", "answered"}
      PROVE  /\ at'[j] = "answered" => todo'[j] = {}
             /\ \A r \in before'[j] :
                  /\ pc'[r] = "created"
                  /\ Alone(r)' => id'[r] \in todo'[j] \/ \A c \in AccountChains : seen'[j][id'[r]][c] = r
  <2>1. before[j] \subseteq Requests
    BY DEF ReadTypeOK
  <2>. QED
    BY <1>1, <2>1 DEF ListInv
<1>2. ASSUME kind'[k] = "list" /\ at'[k] \in {"accounts", "answered"}
      PROVE  /\ at'[k] = "answered" => todo'[k] = {}
             /\ \A r \in before'[k] :
                  /\ pc'[r] = "created"
                  /\ Alone(r)' => id'[r] \in todo'[k] \/ \A c \in AccountChains : seen'[k][id'[r]][c] = r
  BY <1>2
<1>. QED
  BY <1>1, <1>2 DEF ListInv

\* The same for transfers.
LEMMA TransferAlone ==
  ASSUME TransferInv, UNCHANGED <<pc, id, keystore, pass>>, NEW k \in Readers,
         \A r \in Requests : Alone(r)' <=> Alone(r),
         \A j \in Readers : j # k =>
           /\ at'[j] = at[j] /\ kind'[j] = kind[j] /\ todo'[j] = todo[j]
           /\ account'[j] = account[j] /\ signer'[j] = signer[j],
         kind'[k] = "transfer" /\ at'[k] \in {"key", "answered", "noKey", "badPass"} =>
           /\ account'[k] \in Requests /\ pc[account'[k]] # "new"
           /\ todo'[k] = {id[account'[k]]}
           /\ Alone(account'[k]) =>
                /\ pc[account'[k]] \in Done
                /\ keystore[id[account'[k]]] = account'[k]
                /\ at'[k] = "answered" => signer'[k] = account'[k]
                /\ at'[k] # "noKey"
                /\ at'[k] = "badPass" => pass[k] # PassOf[account'[k]]
  PROVE  TransferInv'
<1>1. ASSUME NEW r \in Requests PROVE (Alone(r)' <=> Alone(r))
  OBVIOUS
<1>. QED
  BY DEF TransferInv, Alone

\* The wallets there are include those answered with.
LEMMA ListWalletsInv == ASSUME Inv, NEW k \in Readers, ListWallets(k) PROVE Inv'
<1>1. faults' \in 0..MaxFaults
  BY QueryFailsType DEF ListWallets, Inv
<1>2. RowInv' /\ \A r \in Requests : Alone(r)' <=> Alone(r)
  BY <1>1, ReadRows DEF ListWallets, Inv
<1>3. /\ UNCHANGED <<wallets, keystore, accounts, pc, id, seen, account, signer, pass>>
      /\ kind' = [kind EXCEPT ![k] = "list"]
      /\ before' = [before EXCEPT ![k] = {r \in Requests : pc[r] = "created"}]
      /\ \/ /\ todo' = [todo EXCEPT ![k] = wallets]
            /\ at' = [at EXCEPT ![k] = IF wallets = {} THEN "answered" ELSE "accounts"]
         \/ todo' = todo /\ at' = [at EXCEPT ![k] = "failed"]
  BY DEF ListWallets, Notes, Ends, QueryFails, tables
<1>4. wallets \subseteq Ids /\ ReadTypeOK
  BY DEF Inv, RowInv, BaseInv, TypeOK
<1>5. ReadTypeOK'
  <2>1. before' \in [Readers -> SUBSET Requests] /\ todo' \in [Readers -> SUBSET Ids]
    BY <1>3, <1>4 DEF ReadTypeOK
  <2>2. at' \in [Readers -> Steps] /\ kind' \in [Readers -> Calls]
    BY <1>3, <1>4 DEF ReadTypeOK, Steps, Calls
  <2>. QED
    BY <1>3, <1>4, <2>1, <2>2 DEF ReadTypeOK
<1>6. /\ kind'[k] = "list"
      /\ \A j \in Readers : j # k => at'[j] = at[j] /\ kind'[j] = kind[j] /\ todo'[j] = todo[j] /\ before'[j] = before[j]
  BY <1>3, <1>4 DEF ReadTypeOK
<1>7. ListInv'
  <2>1. ASSUME at'[k] \in {"accounts", "answered"}
        PROVE  /\ todo'[k] = wallets
               /\ at'[k] = "answered" => todo'[k] = {}
               /\ before'[k] = {r \in Requests : pc[r] = "created"}
    BY <1>3, <1>4, <2>1 DEF ReadTypeOK
  <2>2. \A r \in Requests : pc[r] = "created" /\ Alone(r) => id[r] \in wallets
    BY DEF Inv, RowInv, OwnRows
  <2>. QED
    BY <1>2, <1>3, <1>4, <1>6, <2>1, <2>2, ListAlone DEF Inv
<1>8. TransferInv'
  BY <1>2, <1>3, <1>6, TransferAlone DEF Inv
<1>9. CallInv'
  <2>1. at'[k] # "key"
    BY <1>3, <1>4 DEF ReadTypeOK
  <2>. QED
    BY <1>6, <2>1 DEF Inv, CallInv
<1>. QED
  BY <1>2, <1>5, <1>7, <1>8, <1>9 DEF Inv

\* A call about a wallet goes on with the id it was given.
LEMMA GetWalletInv == ASSUME Inv, NEW k \in Readers, GetWallet(k) PROVE Inv'
<1>1. faults' \in 0..MaxFaults
  BY QueryFailsType DEF GetWallet, Inv
<1>2. RowInv' /\ \A r \in Requests : Alone(r)' <=> Alone(r)
  BY <1>1, ReadRows DEF GetWallet, Inv
<1>3. PICK call \in {"get", "balance", "transfer"} : kind' = [kind EXCEPT ![k] = call]
  BY DEF GetWallet
<1>4. PICK stage \in {"accounts", "noWallet", "failed"} :
        /\ at' = [at EXCEPT ![k] = stage]
        /\ \/ \E i \in Ids : todo' = [todo EXCEPT ![k] = {i}]
           \/ todo' = todo /\ stage = "failed"
  BY DEF GetWallet, Ends, QueryFails
<1>5. /\ UNCHANGED <<wallets, keystore, accounts, pc, id, seen, account, signer, pass>>
      /\ before' = [before EXCEPT ![k] = {r \in Requests : pc[r] = "created"}]
  BY DEF GetWallet, Notes, tables
<1>6. ReadTypeOK
  BY DEF Inv
<1>7. ReadTypeOK'
  <2>1. before' \in [Readers -> SUBSET Requests] /\ todo' \in [Readers -> SUBSET Ids]
    BY <1>4, <1>5, <1>6 DEF ReadTypeOK
  <2>2. at' \in [Readers -> Steps] /\ kind' \in [Readers -> Calls]
    BY <1>3, <1>4, <1>6 DEF ReadTypeOK, Steps, Calls
  <2>. QED
    BY <1>5, <1>6, <2>1, <2>2 DEF ReadTypeOK
<1>8. /\ kind'[k] = call /\ at'[k] = stage
      /\ stage = "accounts" => \E i \in Ids : todo'[k] = {i}
      /\ \A j \in Readers : j # k => at'[j] = at[j] /\ kind'[j] = kind[j] /\ todo'[j] = todo[j] /\ before'[j] = before[j]
  BY <1>3, <1>4, <1>5, <1>6 DEF ReadTypeOK
<1>9. ListInv'
  BY <1>2, <1>5, <1>6, <1>8, ListAlone DEF Inv
<1>10. TransferInv'
  BY <1>2, <1>5, <1>8, TransferAlone DEF Inv
<1>11. CallInv'
  BY <1>8 DEF Inv, CallInv
<1>. QED
  BY <1>2, <1>7, <1>9, <1>10, <1>11 DEF Inv

\* The rows read of a wallet answered with are all there are of it.
LEMMA ListAccountsInv == ASSUME Inv, NEW k \in Readers, ListAccounts(k) PROVE Inv'
<1>1. faults' \in 0..MaxFaults
  BY QueryFailsType DEF ListAccounts, Inv
<1>2. RowInv' /\ \A r \in Requests : Alone(r)' <=> Alone(r)
  BY <1>1, ReadRows DEF ListAccounts, Inv
<1>3. /\ UNCHANGED <<wallets, keystore, accounts, pc, id, kind, account, signer, pass, before>>
      /\ at[k] = "accounts" /\ kind[k] = "list"
  BY DEF ListAccounts, tables
<1>4. ReadTypeOK /\ accounts \in [Ids -> [Supported -> Requests \cup {NoSeed}]]
  BY DEF Inv, RowInv, BaseInv, TypeOK
<1>5. CASE at' = [at EXCEPT ![k] = "failed"] /\ UNCHANGED <<todo, seen>>
  <2>1. ReadTypeOK'
    BY <1>3, <1>4, <1>5 DEF ReadTypeOK, Steps
  <2>2. at'[k] = "failed" /\ \A j \in Readers : j # k => at'[j] = at[j]
    BY <1>4, <1>5 DEF ReadTypeOK
  <2>3. ListInv'
    BY <1>2, <1>3, <1>4, <1>5, <2>2, ListAlone DEF Inv
  <2>4. TransferInv'
    BY <1>2, <1>3, <1>5, <2>2, TransferAlone DEF Inv
  <2>5. CallInv'
    BY <1>3, <1>5, <2>2 DEF Inv, CallInv
  <2>. QED
    BY <1>2, <2>1, <2>3, <2>4, <2>5 DEF Inv
<1>6. ASSUME NEW i \in todo[k],
             todo' = [todo EXCEPT ![k] = @ \ {i}],
             seen' = [seen EXCEPT ![k][i] = accounts[i]],
             at' = [at EXCEPT ![k] = IF todo[k] \ {i} = {} THEN "answered" ELSE "accounts"]
      PROVE  Inv'
  <2>0. i \in Ids /\ todo[k] \subseteq Ids /\ before[k] \subseteq Requests /\ seen[k] \in [Ids -> [Supported -> Requests \cup {NoSeed}]]
    BY <1>4 DEF ReadTypeOK
  <2>1. /\ todo'[k] = todo[k] \ {i}
        /\ seen'[k] = [seen[k] EXCEPT ![i] = accounts[i]]
        /\ at'[k] = "accounts" \/ (at'[k] = "answered" /\ todo'[k] = {})
    BY <1>4, <1>6, <2>0 DEF ReadTypeOK
  <2>2. \A j \in Readers : j # k => at'[j] = at[j] /\ todo'[j] = todo[j] /\ seen'[j] = seen[j]
    BY <1>4, <1>6 DEF ReadTypeOK
  <2>3. ReadTypeOK'
    <3>1. todo' \in [Readers -> SUBSET Ids]
      BY <1>4, <1>6, <2>0 DEF ReadTypeOK
    <3>2. seen' \in [Readers -> [Ids -> [Supported -> Requests \cup {NoSeed}]]]
      BY <1>4, <1>6, <2>0 DEF ReadTypeOK
    <3>3. at' \in [Readers -> Steps]
      BY <1>4, <1>6 DEF ReadTypeOK, Steps
    <3>. QED
      BY <1>3, <1>4, <3>1, <3>2, <3>3 DEF ReadTypeOK
  <2>4. ListInv'
    <3>1. ASSUME NEW r \in before[k]
          PROVE  /\ pc[r] = "created"
                 /\ Alone(r) => id[r] \in todo[k] \/ \A c \in AccountChains : seen[k][id[r]][c] = r
      BY <1>3 DEF Inv, ListInv
    <3>2. ASSUME NEW r \in before[k], Alone(r)
          PROVE  id[r] \in Ids /\ \A c \in AccountChains : accounts[id[r]][c] = r
      BY <2>0, <3>1, <3>2 DEF Inv, RowInv, OwnRows, BaseInv, Named
    <3>3. ASSUME NEW r \in before[k], Alone(r)
          PROVE  id[r] \in todo'[k] \/ \A c \in AccountChains : seen'[k][id[r]][c] = r
      <4>1. CASE id[r] = i
        BY <2>0, <2>1, <3>2, <3>3, <4>1
      <4>2. CASE id[r] # i
        <5>1. seen'[k][id[r]] = seen[k][id[r]]
          BY <2>0, <2>1, <3>2, <3>3, <4>2
        <5>. QED
          BY <2>1, <3>1, <3>3, <4>2, <5>1
      <4>. QED
        BY <4>1, <4>2
    <3>4. /\ at'[k] = "answered" => todo'[k] = {}
          /\ before'[k] \subseteq Requests
          /\ \A r \in before'[k] :
               /\ pc[r] = "created"
               /\ Alone(r) => id[r] \in todo'[k] \/ \A c \in AccountChains : seen'[k][id[r]][c] = r
      BY <1>3, <2>0, <2>1, <3>1, <3>3
    <3>5. ListInv /\ UNCHANGED <<pc, id, kind, before>>
      BY <1>3 DEF Inv
    <3>. QED
      BY <1>2, <1>4, <2>2, <3>4, <3>5, ListAlone
  <2>5. TransferInv'
    BY <1>2, <1>3, <2>2, TransferAlone DEF Inv
  <2>6. CallInv'
    BY <1>3, <2>1, <2>2 DEF Inv, CallInv
  <2>. QED
    BY <1>2, <2>3, <2>4, <2>5, <2>6 DEF Inv
<1>. QED
  BY <1>5, <1>6 DEF ListAccounts, AccountsFor, Ends, ListEnds, QueryFails

\* The address found on a chain is of a request that sealed its seed first.
LEMMA GetAccountsInv == ASSUME Inv, NEW k \in Readers, GetAccounts(k) PROVE Inv'
<1>1. faults' \in 0..MaxFaults
  BY QueryFailsType DEF GetAccounts, Inv
<1>2. RowInv' /\ \A r \in Requests : Alone(r)' <=> Alone(r)
  BY <1>1, ReadRows DEF GetAccounts, Inv
<1>3. /\ UNCHANGED <<wallets, keystore, accounts, pc, id, kind, todo, signer, pass, before>>
      /\ at[k] = "accounts" /\ kind[k] # "list"
  BY DEF GetAccounts, tables
<1>4. ReadTypeOK /\ accounts \in [Ids -> [Supported -> Requests \cup {NoSeed}]]
  BY DEF Inv, RowInv, BaseInv, TypeOK
<1>5. kind[k] \in {"get", "balance", "transfer"} /\ \E i \in Ids : todo[k] = {i}
  BY <1>3, <1>4 DEF Inv, CallInv, ReadTypeOK, Calls
<1>6. CASE at' = [at EXCEPT ![k] = "failed"] /\ UNCHANGED <<seen, account>>
  <2>1. ReadTypeOK'
    BY <1>3, <1>4, <1>6 DEF ReadTypeOK, Steps
  <2>2. at'[k] = "failed" /\ \A j \in Readers : j # k => at'[j] = at[j]
    BY <1>4, <1>6 DEF ReadTypeOK
  <2>3. ListInv'
    BY <1>2, <1>3, <1>4, <1>6, <2>2, ListAlone DEF Inv
  <2>4. TransferInv'
    BY <1>2, <1>3, <1>6, <2>2, TransferAlone DEF Inv
  <2>5. CallInv'
    BY <1>3, <1>6, <2>2 DEF Inv, CallInv
  <2>. QED
    BY <1>2, <2>1, <2>3, <2>4, <2>5 DEF Inv
<1>7. ASSUME NEW i \in todo[k], NEW c \in Supported,
             seen' = [seen EXCEPT ![k][i] = accounts[i]],
             account' = [account EXCEPT ![k] = accounts[i][c]],
             at' = [at EXCEPT ![k] = Found(kind[k], accounts[i][c])]
      PROVE  Inv'
  <2> DEFINE a == accounts[i][c]
  <2>0. i \in Ids /\ todo[k] = {i} /\ a \in Requests \cup {NoSeed}
    BY <1>4, <1>5
  <2>1. /\ Found(kind[k], a) \in {"answered", "noAccount", "key"}
        /\ kind[k] = "transfer" => Found(kind[k], a) = IF a = NoSeed THEN "noAccount" ELSE "key"
        /\ kind[k] # "transfer" => Found(kind[k], a) # "key"
    <3>1. CASE kind[k] = "get"
      BY <3>1 DEF Found
    <3>2. CASE kind[k] = "balance"
      BY <3>2 DEF Found
    <3>3. CASE kind[k] = "transfer"
      BY <3>3 DEF Found
    <3>. QED
      BY <1>5, <3>1, <3>2, <3>3
  <2>2. /\ account'[k] = a /\ at'[k] = Found(kind[k], a)
        /\ \A j \in Readers : j # k => at'[j] = at[j] /\ seen'[j] = seen[j] /\ account'[j] = account[j]
    BY <1>4, <1>7 DEF ReadTypeOK
  <2>3. ReadTypeOK'
    <3>1. account' \in [Readers -> Requests \cup {NoSeed}]
      BY <1>4, <1>7, <2>0 DEF ReadTypeOK
    <3>2. seen' \in [Readers -> [Ids -> [Supported -> Requests \cup {NoSeed}]]]
      BY <1>4, <1>7, <2>0 DEF ReadTypeOK
    <3>3. at' \in [Readers -> Steps]
      BY <1>4, <1>7, <2>1 DEF ReadTypeOK, Steps
    <3>. QED
      BY <1>3, <1>4, <3>1, <3>2, <3>3 DEF ReadTypeOK
  <2>4. ListInv'
    BY <1>2, <1>3, <1>4, <2>2, ListAlone DEF Inv
  <2>5. TransferInv'
    <3>1. ASSUME a # NoSeed
          PROVE  /\ a \in Requests /\ pc[a] # "new" /\ id[a] = i
                 /\ Alone(a) => pc[a] \in Done /\ keystore[id[a]] = a
      <4>1. a \in Requests /\ id[a] = i /\ pc[a] # "new"
        BY <2>0, <3>1 DEF Inv, RowInv, Placed
      <4>. QED
        BY <4>1 DEF Inv, RowInv, OwnRows
    <3>2. kind'[k] = "transfer" /\ at'[k] \in {"key", "answered", "noKey", "badPass"} =>
            a # NoSeed /\ at'[k] = "key"
      BY <1>3, <2>1, <2>2
    <3>. QED
      BY <1>2, <1>3, <2>0, <2>2, <3>1, <3>2, TransferAlone DEF Inv
  <2>6. CallInv'
    BY <1>3, <2>1, <2>2 DEF Inv, CallInv
  <2>. QED
    BY <1>2, <2>3, <2>4, <2>5, <2>6 DEF Inv
<1>. QED
  BY <1>6, <1>7 DEF GetAccounts, AccountsFor, Ends, QueryFails

\* The seed unsealed is the one the address was derived from.
LEMMA UnlockInv == ASSUME Inv, NEW k \in Readers, Unlock(k) PROVE Inv'
<1>1. faults' \in 0..MaxFaults
  BY QueryFailsType DEF Unlock, Inv
<1>2. RowInv' /\ \A r \in Requests : Alone(r)' <=> Alone(r)
  BY <1>1, ReadRows DEF Unlock, Inv
<1>3. /\ UNCHANGED <<wallets, keystore, accounts, pc, id, kind, todo, seen, account, pass, before>>
      /\ at[k] = "key"
  BY DEF Unlock, tables
<1>4. ReadTypeOK /\ keystore \in [Ids -> Requests \cup {NoSeed}] /\ NoSeed \notin Requests
  BY RequestAssumption DEF Inv, RowInv, BaseInv, TypeOK
<1>5. /\ kind[k] = "transfer"
      /\ account[k] \in Requests /\ pc[account[k]] # "new"
      /\ todo[k] = {id[account[k]]}
      /\ Alone(account[k]) => pc[account[k]] \in Done /\ keystore[id[account[k]]] = account[k]
  BY <1>3 DEF Inv, CallInv, TransferInv
<1>6. ASSUME NEW stage \in {"failed", "noKey", "badPass", "answered"},
             at' = [at EXCEPT ![k] = stage],
             signer' \in [Readers -> Requests \cup {NoSeed}],
             \A j \in Readers : j # k => signer'[j] = signer[j],
             Alone(account[k]) =>
               /\ stage # "noKey"
               /\ stage = "answered" => signer'[k] = account[k]
               /\ stage = "badPass" => pass[k] # PassOf[account[k]]
      PROVE  Inv'
  <2>1. ReadTypeOK'
    <3>1. at' \in [Readers -> Steps]
      BY <1>4, <1>6 DEF ReadTypeOK, Steps
    <3>. QED
      BY <1>3, <1>4, <1>6, <3>1 DEF ReadTypeOK
  <2>2. at'[k] = stage /\ \A j \in Readers : j # k => at'[j] = at[j]
    BY <1>4, <1>6 DEF ReadTypeOK
  <2>3. ListInv'
    BY <1>2, <1>3, <1>4, <1>5, <2>2, ListAlone DEF Inv
  <2>4. TransferInv'
    BY <1>2, <1>3, <1>5, <1>6, <2>2, TransferAlone DEF Inv
  <2>5. CallInv'
    BY <1>3, <1>5, <2>2 DEF Inv, CallInv
  <2>. QED
    BY <1>2, <2>1, <2>3, <2>4, <2>5 DEF Inv
<1>7. CASE at' = [at EXCEPT ![k] = "failed"] /\ UNCHANGED signer
  BY <1>4, <1>6, <1>7 DEF ReadTypeOK
<1>8. ASSUME NEW i \in todo[k],
             at' = [at EXCEPT ![k] = Unsealed(keystore[i], pass[k])],
             signer' = [signer EXCEPT ![k] = IF Unsealed(keystore[i], pass[k]) = "answered"
                                             THEN keystore[i] ELSE NoSeed]
      PROVE  Inv'
  <2> DEFINE answer == Unsealed(keystore[i], pass[k])
  <2>1. i = id[account[k]] /\ i \in Ids
    BY <1>4, <1>5 DEF ReadTypeOK
  <2>2. /\ answer \in {"noKey", "badPass", "answered"}
        /\ answer = "noKey" => keystore[i] = NoSeed
        /\ answer = "badPass" => PassOf[keystore[i]] # pass[k]
    BY DEF Unsealed
  <2>3. /\ signer' \in [Readers -> Requests \cup {NoSeed}]
        /\ \A j \in Readers : j # k => signer'[j] = signer[j]
        /\ answer = "answered" => signer'[k] = keystore[i]
    BY <1>4, <1>8, <2>1 DEF ReadTypeOK
  <2>4. Alone(account[k]) => keystore[i] = account[k] /\ keystore[i] # NoSeed
    BY <1>4, <1>5, <2>1
  <2>. QED
    BY <1>6, <1>8, <2>2, <2>3, <2>4
<1>. QED
  BY <1>7, <1>8 DEF Unlock, Ends, QueryFails

-----------------------------------------------------------------------------
(***************************************************************************)
(* The theorems.                                                           *)
(***************************************************************************)

\* No call has begun.
LEMMA ReadInitInv == ReadInit => Inv
<1>1. ASSUME ReadInit PROVE Inv
  <2>1. RowInv
    BY <1>1, InitRows DEF ReadInit
  <2>2. ReadTypeOK
    BY <1>1 DEF ReadInit, ReadTypeOK, NoAccounts, Steps, Calls
  <2>3. CallInv /\ ListInv /\ TransferInv
    BY <1>1 DEF ReadInit, CallInv, ListInv, TransferInv
  <2>. QED
    BY <2>1, <2>2, <2>3 DEF Inv
<1>. QED
  BY <1>1

\* What is known of the rows and of the calls is kept by every step.
LEMMA ReadStepInv == Inv /\ [ReadNext]_allVars => Inv'
<1>1. ASSUME Inv, ReadNext PROVE Inv'
  BY <1>1, NextReaders, ListWalletsInv, ListAccountsInv, GetWalletInv, GetAccountsInv, UnlockInv
  DEF ReadNext, Read
<1>2. ASSUME Inv, UNCHANGED allVars PROVE Inv'
  <2>1. /\ UNCHANGED <<wallets, keystore, accounts, pc, id, connected, faults, crashes>>
        /\ UNCHANGED <<at, kind, todo, seen, account, signer, pass, before>>
    BY <1>2 DEF allVars, vars, readVars, tables
  <2>2. RowInv' /\ \A r \in Requests : Alone(r)' <=> Alone(r)
    BY <1>2, <2>1, ReadRows DEF Inv, RowInv, BaseInv, TypeOK, tables
  <2>3. ReadTypeOK' /\ CallInv'
    BY <1>2, <2>1 DEF Inv, ReadTypeOK, CallInv
  <2>4. ListInv' /\ TransferInv'
    BY <1>2, <2>1 DEF Inv, ListInv, TransferInv, Alone
  <2>. QED
    BY <2>2, <2>3, <2>4 DEF Inv
<1>. QED
  BY <1>1, <1>2

\* Inv holds throughout, whatever creations and readers do beside one another.
LEMMA ReadAlways == ReadSpec => []Inv
BY ReadInitInv, ReadStepInv, PTL DEF ReadSpec

\* The addresses startMonitoring takes from WalletService.List hold those of
\* every wallet answered with before the list began, under its id, for any number
\* of creations that write between the queries of the list.
THEOREM WatchesThm == ReadSpec => []WatchesCreatedBefore
<1>1. ASSUME Inv PROVE WatchesCreatedBefore
  <2>1. SUFFICES ASSUME NEW k \in Readers, at[k] = "answered", kind[k] = "list",
                        NEW r \in before[k], NEW c \in {"ethereum", "base"}, Alone(r)
                 PROVE  <<r, id[r]>> \in Addrs(k, c)
    BY DEF WatchesCreatedBefore
  <2>2. r \in Requests /\ r # NoSeed /\ c \in AccountChains
    BY <1>1, Watched, RequestAssumption DEF Inv, ReadTypeOK
  <2>3. pc[r] = "created" /\ seen[k][id[r]][c] = r
    BY <1>1, <2>1, <2>2 DEF Inv, ListInv
  <2>4. id[r] \in Ids
    BY <1>1, <2>2, <2>3 DEF Inv, RowInv, BaseInv, Named
  <2>. QED
    BY <2>2, <2>3, <2>4 DEF Addrs
<1>. QED
  BY <1>1, ReadAlways, PTL

\* A transfer that finds an address signs with the seed of that address, or is
\* refused because the passphrase is not its owner's: never for want of a key,
\* and never with another wallet's, wherever a creation has stopped and however
\* many run between the two queries.
THEOREM SignerThm == ReadSpec => []SignerOfAccount
<1>1. ASSUME Inv PROVE SignerOfAccount
  BY <1>1 DEF Inv, TransferInv, SignerOfAccount
<1>. QED
  BY <1>1, ReadAlways, PTL
================================================================================
