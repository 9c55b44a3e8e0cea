----------------------------- MODULE WalletService -----------------------------
(***************************************************************************)
(* WalletService.Create under concurrent requests: the wallet row, the     *)
(* sealed seed and the accounts are three separate writes to Postgres, any *)
(* of which may fail, and the process may die between them.  A seed is     *)
(* fresh randomness, so the one a request generates is named after the     *)
(* request; an address is named after the seed it is derived from.         *)
(***************************************************************************)
EXTENDS Integers, FiniteSets, Sequences

CONSTANTS
  Requests,    \* the calls of Create
  Ids,         \* the nanosecond readings that name wallets
  NoId,        \* the request has not read the clock yet
  NoSeed,      \* no keystore row, or no account row
  HardenedKeyStart,  \* 2^31, half the range of a path component
  Faults,      \* the calls that may fail: "wallet", "keys", "accounts", "read"
  MaxFaults,   \* bound: how many calls fail
  MaxCrashes   \* bound: how many times the process dies

ASSUME RequestAssumption ==
  /\ NoSeed \notin Requests
  /\ NoId \notin Ids
  /\ HardenedKeyStart \in Nat /\ HardenedKeyStart > 501

ASSUME FaultAssumption ==
  /\ Faults \subseteq {"wallet", "keys", "accounts", "read"}
  /\ MaxFaults \in Nat
  /\ MaxCrashes \in Nat

-----------------------------------------------------------------------------
(***************************************************************************)
(* Derivation.                                                             *)
(***************************************************************************)

\* The registry of cmd/api: one adapter per chain.
Supported == {"ethereum", "base", "bitcoin", "solana", "tron"}

\* One path component: n, or n' with the wrapping sum parsePath computes.
Component(n, hardened) == IF hardened THEN (n + HardenedKeyStart) % (2 * HardenedKeyStart) ELSE n

bip44CoinType ==
  [c \in Supported |-> CASE c \in {"ethereum", "base"} -> 60 [] c = "bitcoin" -> 0
                         [] c = "solana" -> 501 [] c = "tron" -> 195]

\* m/44'/coin'/0'/0/0
bip44Path(c) ==
  <<Component(44, TRUE), Component(bip44CoinType[c], TRUE), Component(0, TRUE),
    Component(0, FALSE), Component(0, FALSE)>>

\* DeriveAccount succeeds: ed25519 takes hardened components only.
Derivable(c) ==
  c = "solana" => \A i \in DOMAIN bip44Path(c) : bip44Path(c)[i] >= HardenedKeyStart

\* The chains Create gives a wallet an account on; an error skips the chain.
AccountChains == {c \in Supported : Derivable(c)}

-----------------------------------------------------------------------------
VARIABLES
  wallets,    \* the ids in the wallets table
  keystore,   \* id -> the seed sealed for it
  accounts,   \* id -> chain -> the seed its address comes from
  pc,         \* request -> its next write, or how it ended
  id,         \* request -> the id it took
  connected,  \* the requests whose client still waits
  faults,
  crashes

tables == <<wallets, keystore, accounts>>
vars == <<wallets, keystore, accounts, pc, id, connected, faults, crashes>>

Stages == {"new", "wallet", "keys", "accounts", "created", "failed", "dead"}

Init ==
  /\ wallets = {}
  /\ keystore = [i \in Ids |-> NoSeed]
  /\ accounts = [i \in Ids |-> [c \in Supported |-> NoSeed]]
  /\ pc = [r \in Requests |-> "new"]
  /\ id = [r \in Requests |-> NoId]
  /\ connected = Requests
  /\ faults = 0
  /\ crashes = 0

\* A write made for a request: it may fail for the reasons of its context, and
\* any write may fail on the way.  Failing says nothing about the commit.
Fails(r, write, contextual) ==
  \/ contextual /\ r \notin connected /\ UNCHANGED faults
  \/ write \in Faults /\ faults < MaxFaults /\ faults' = faults + 1

Goes(r, stage) == pc' = [pc EXCEPT ![r] = stage]

\* Mutant: the id read into a variable of an inner scope, so that the wallet is
\* saved under the empty id.
BeginUnnamed(r) ==
  /\ pc[r] = "new"
  /\ Goes(r, "wallet")
  /\ UNCHANGED <<tables, id, connected, faults, crashes>>

\* id := "w<UnixNano>".  The clock is read once: another request may read the
\* same nanosecond, and nothing checks the id against those in use.
Begin(r) ==
  /\ pc[r] = "new"
  /\ \E i \in Ids : id' = [id EXCEPT ![r] = i]
  /\ Goes(r, "wallet")
  /\ UNCHANGED <<tables, connected, faults, crashes>>

\* The first repo.Save: the wallet has no accounts yet.
SaveWallet(r) ==
  /\ pc[r] = "wallet"
  /\ \/ /\ r \in connected /\ UNCHANGED faults
        /\ wallets' = wallets \cup {id[r]}
        /\ Goes(r, "keys")
     \/ /\ Fails(r, "wallet", TRUE)
        /\ wallets' \in {wallets, wallets \cup {id[r]}}
        /\ Goes(r, "failed")
  /\ UNCHANGED <<keystore, accounts, id, connected, crashes>>

\* Mutant: the error of keys.Create not looked at.
AfterKeysIgnored(ok) == "accounts"

AfterKeys(ok) == IF ok THEN "accounts" ELSE "failed"

\* keys.Create: an upsert, outside the request's context.
CreateKeys(r) ==
  /\ pc[r] = "keys"
  /\ \/ /\ UNCHANGED faults
        /\ keystore' = [keystore EXCEPT ![id[r]] = r]
        /\ Goes(r, AfterKeys(TRUE))
     \/ /\ Fails(r, "keys", FALSE)
        /\ keystore' \in {keystore, [keystore EXCEPT ![id[r]] = r]}
        /\ Goes(r, AfterKeys(FALSE))
  /\ UNCHANGED <<wallets, accounts, id, connected, crashes>>

\* Mutants: the error of the commit not looked at; one database transaction per
\* account.
AfterAccountsIgnored(ok) == "created"
UpsertedOneByOne(r, rows) ==
  {[c \in Supported |-> IF c \in done THEN r ELSE rows[c]] : done \in SUBSET AccountChains}

\* The account rows of a wallet after an upsert of seed r's accounts.
AccountsOf(r, rows) == [c \in Supported |-> IF c \in AccountChains THEN r ELSE rows[c]]

AfterAccounts(ok) == IF ok THEN "created" ELSE "failed"

\* What an upsert whose commit was not confirmed leaves: all rows or none.
Upserted(r, rows) == {rows, AccountsOf(r, rows)}

\* The second repo.Save: one database transaction over all chains.
SaveAccounts(r) ==
  /\ pc[r] = "accounts"
  /\ \/ /\ r \in connected /\ UNCHANGED faults
        /\ accounts' = [accounts EXCEPT ![id[r]] = AccountsOf(r, @)]
        /\ Goes(r, AfterAccounts(TRUE))
     \/ /\ Fails(r, "accounts", TRUE)
        /\ \E rows \in Upserted(r, accounts[id[r]]) : accounts' = [accounts EXCEPT ![id[r]] = rows]
        /\ Goes(r, AfterAccounts(FALSE))
  /\ UNCHANGED <<wallets, keystore, id, connected, crashes>>

\* The HTTP client goes away: the request's context is cancelled.
Disconnect(r) ==
  /\ r \in connected
  /\ pc[r] \in {"wallet", "keys", "accounts"}
  /\ connected' = connected \ {r}
  /\ UNCHANGED <<tables, pc, id, faults, crashes>>

\* The process dies with every request it is serving.
Crash ==
  /\ crashes < MaxCrashes
  /\ crashes' = crashes + 1
  /\ pc' = [r \in Requests |-> IF pc[r] \in {"wallet", "keys", "accounts"} THEN "dead" ELSE pc[r]]
  /\ UNCHANGED <<tables, id, connected, faults>>

Create(r) == Begin(r) \/ SaveWallet(r) \/ CreateKeys(r) \/ SaveAccounts(r)

Next == Crash \/ \E r \in Requests : Create(r) \/ Disconnect(r)

Spec == Init /\ [][Next]_vars

-----------------------------------------------------------------------------

\* The type of every variable.
TypeOK ==
  /\ wallets \subseteq Ids
  /\ keystore \in [Ids -> Requests \cup {NoSeed}]
  /\ accounts \in [Ids -> [Supported -> Requests \cup {NoSeed}]]
  /\ pc \in [Requests -> Stages]
  /\ id \in [Requests -> Ids \cup {NoId}]
  /\ connected \subseteq Requests
  /\ faults \in 0..MaxFaults
  /\ crashes \in 0..MaxCrashes

\* No two requests have read the same nanosecond.
DistinctIds == \A q, r \in Requests : id[q] = id[r] /\ id[q] # NoId => q = r

\* An address anybody can be told to pay can be spent from: a saved account
\* comes from the very seed in the keystore, whichever write failed and
\* wherever the process died, as long as the ids differ.
AccountsHaveKey ==
  DistinctIds =>
    \A i \in Ids, c \in Supported :
      accounts[i][c] # NoSeed => i \in wallets /\ keystore[i] = accounts[i][c]

\* A wallet the service answered with has all its rows, for good, as long as
\* the ids differ.
CreatedIsComplete ==
  DistinctIds =>
    \A r \in Requests :
      pc[r] = "created" =>
        /\ id[r] \in wallets
        /\ keystore[id[r]] = r
        /\ \A c \in AccountChains : accounts[id[r]][c] = r

\* The accounts of a wallet are of one seed and on all chains or on none, even
\* when two requests take the same id and overwrite each other.
AccountsOfOneSeed ==
  \A i \in Ids : \A c, d \in AccountChains : accounts[i][c] = accounts[i][d]

\* What a shared id may destroy: a stored address has lost its seed only where
\* another request took the same id and its seed took the place, never to a
\* write that failed, a client that went away or a process that died.
SeedLostToCollision ==
  \A i \in Ids, c \in Supported :
    LET r == accounts[i][c]
    IN  r \notin {NoSeed, keystore[i]} =>
          /\ id[r] = i
          /\ \E q \in Requests \ {r} : id[q] = i /\ keystore[i] = q

\* "derives one account per supported chain (BTC, ETH, Base, SOL, TRON)": a
\* wallet answered with has an address on each of them.
AccountPerChain ==
  \A r \in Requests :
    pc[r] = "created" => \A c \in Supported : accounts[id[r]][c] = r
================================================================================
