----------------------------- MODULE WalletReaders -----------------------------
(***************************************************************************)
(* The calls that read what WalletService.Create writes, while it writes:  *)
(* List (also the one startMonitoring makes at boot), Get, and the lookup  *)
(* TransactionService.Transfer begins with.  Every query is a statement of *)
(* its own, so a call may see the wallet row, the accounts and the seed of *)
(* one wallet at three different moments.                                  *)
(***************************************************************************)
EXTENDS WalletService

CONSTANTS
  Readers,      \* the calls that read
  Passphrases,  \* what a caller may type
  PassOf        \* PassOf[r]: the passphrase Create was called with

ASSUME ReaderAssumption == PassOf \in [Requests -> Passphrases]

VARIABLES
  at,        \* reader -> its next query, or how it ended
  kind,      \* reader -> the call it is: "list", "get", "balance", "transfer"
  todo,      \* reader -> the wallets whose accounts it has to read
  seen,      \* reader -> wallet -> the account rows it has read
  account,   \* reader -> the seed of the address found on the chain asked about
  signer,    \* reader -> Transfer: the seed unlocked
  pass,      \* reader -> the passphrase given
  before     \* reader -> the requests answered with a wallet before it began

readVars == <<at, kind, todo, seen, account, signer, pass, before>>
allVars == <<vars, readVars>>

NoAccounts == [c \in Supported |-> NoSeed]

ReadInit ==
  /\ Init
  /\ at = [k \in Readers |-> "new"]
  /\ kind = [k \in Readers |-> "none"]
  /\ todo = [k \in Readers |-> {}]
  /\ seen = [k \in Readers |-> [i \in Ids |-> NoAccounts]]
  /\ account = [k \in Readers |-> NoSeed]
  /\ signer = [k \in Readers |-> NoSeed]
  /\ pass \in [Readers -> Passphrases]
  /\ before = [k \in Readers |-> {}]

\* A query may fail, and its call with it.
QueryFails(k) ==
  /\ "read" \in Faults /\ faults < MaxFaults /\ faults' = faults + 1
  /\ at' = [at EXCEPT ![k] = "failed"]

Ends(k, stage) == at' = [at EXCEPT ![k] = stage]

Notes(k) == before' = [before EXCEPT ![k] = {r \in Requests : pc[r] = "created"}]

\* List's first query: the wallets there are.
ListWallets(k) ==
  /\ at[k] = "new"
  /\ kind' = [kind EXCEPT ![k] = "list"]
  /\ Notes(k)
  /\ \/ /\ todo' = [todo EXCEPT ![k] = wallets]
        /\ Ends(k, IF wallets = {} THEN "answered" ELSE "accounts")
        /\ UNCHANGED faults
     \/ QueryFails(k) /\ UNCHANGED todo
  /\ UNCHANGED <<tables, pc, id, connected, crashes, seen, account, signer, pass>>

\* Get's first query, for the id the caller names; Balance and Transfer begin
\* with the same call.
GetWallet(k) ==
  /\ at[k] = "new"
  /\ \E call \in {"get", "balance", "transfer"} : kind' = [kind EXCEPT ![k] = call]
  /\ Notes(k)
  /\ \/ /\ \E i \in Ids :
             /\ todo' = [todo EXCEPT ![k] = {i}]
             /\ Ends(k, IF i \in wallets THEN "accounts" ELSE "noWallet")
        /\ UNCHANGED faults
     \/ QueryFails(k) /\ UNCHANGED todo
  /\ UNCHANGED <<tables, pc, id, connected, crashes, seen, account, signer, pass>>

\* Mutant: the query without its WHERE.
AccountsForAny(i) == {accounts[j] : j \in wallets}

\* The account rows of one wallet, in one query.
AccountsFor(i) == {accounts[i]}

\* Mutant: a wallet without accounts taken for the end of the list.
ListEndsEarly(left, rows) == left = {} \/ rows = NoAccounts

\* List has read the accounts of its last wallet.
ListEnds(left, rows) == left = {}

\* The accounts of the next wallet of a list, in whatever order the rows come.
ListAccounts(k) ==
  /\ at[k] = "accounts" /\ kind[k] = "list"
  /\ \/ \E i \in todo[k] : \E rows \in AccountsFor(i) :
          /\ todo' = [todo EXCEPT ![k] = @ \ {i}]
          /\ seen' = [seen EXCEPT ![k][i] = rows]
          /\ Ends(k, IF ListEnds(todo[k] \ {i}, rows) THEN "answered" ELSE "accounts")
          /\ UNCHANGED faults
     \/ QueryFails(k) /\ UNCHANGED <<todo, seen>>
  /\ UNCHANGED <<tables, pc, id, connected, crashes, kind, account, signer, pass, before>>

\* Where a call goes with the account it has found, or has not, on its chain.
Found(call, seed) ==
  CASE call = "get" -> "answered"
    [] call # "get" /\ seed = NoSeed -> "noAccount"
    [] call = "balance" /\ seed # NoSeed -> "answered"
    [] call = "transfer" /\ seed # NoSeed -> "key"

\* Get's second query, and wallet.Account(chain) for the calls about a chain.
GetAccounts(k) ==
  /\ at[k] = "accounts" /\ kind[k] # "list"
  /\ \/ /\ \E i \in todo[k] : \E rows \in AccountsFor(i), c \in Supported :
             /\ seen' = [seen EXCEPT ![k][i] = rows]
             /\ account' = [account EXCEPT ![k] = rows[c]]
             /\ Ends(k, Found(kind[k], rows[c]))
        /\ UNCHANGED faults
     \/ QueryFails(k) /\ UNCHANGED <<seen, account>>
  /\ UNCHANGED <<tables, pc, id, connected, crashes, kind, todo, signer, pass, before>>

\* What Unlock answers: there is no row, or its seal does not yield to the
\* passphrase, or the seed.
Unsealed(seed, p) ==
  CASE seed = NoSeed -> "noKey"
    [] seed # NoSeed /\ PassOf[seed] # p -> "badPass"
    [] seed # NoSeed /\ PassOf[seed] = p -> "answered"

\* keys.Signer: the seed is read and unsealed, outside the caller's context.
Unlock(k) ==
  /\ at[k] = "key"
  /\ \/ /\ \E i \in todo[k] :
             LET answer == Unsealed(keystore[i], pass[k])
             IN  /\ Ends(k, answer)
                 /\ signer' = [signer EXCEPT ![k] = IF answer = "answered" THEN keystore[i] ELSE NoSeed]
        /\ UNCHANGED faults
     \/ QueryFails(k) /\ UNCHANGED signer
  /\ UNCHANGED <<tables, pc, id, connected, crashes, kind, todo, seen, account, pass, before>>

Read(k) == ListWallets(k) \/ ListAccounts(k) \/ GetWallet(k) \/ GetAccounts(k) \/ Unlock(k)

ReadNext == (Next /\ UNCHANGED readVars) \/ \E k \in Readers : Read(k)

ReadSpec == ReadInit /\ [][ReadNext]_allVars

-----------------------------------------------------------------------------

\* The addresses startMonitoring takes from its list for a chain, with the
\* wallet each is reported for.
Addrs(k, c) == {<<seen[k][i][c], i>> : i \in {j \in Ids : seen[k][j][c] # NoSeed}}

\* No other request has read the nanosecond request r has.
Alone(r) == \A q \in Requests \ {r} : id[q] # id[r]

\* "this now reflects every wallet created before this boot": the addresses
\* startMonitoring takes from a list hold those of every wallet that was
\* answered with before the list began, under its id, whatever is being written
\* between the queries of the list.
WatchesCreatedBefore ==
  \A k \in Readers :
    at[k] = "answered" /\ kind[k] = "list" =>
      \A r \in before[k], c \in {"ethereum", "base"} : Alone(r) => <<r, id[r]>> \in Addrs(k, c)

\* The key a transfer signs with is that of the address it found, although the
\* address and the seed are read at different moments; and an address that can
\* be found can be signed for: wherever a creation has failed, there is a seed
\* behind it, and the passphrase of its owner opens it.
SignerOfAccount ==
  \A k \in Readers :
    kind[k] = "transfer" /\ at[k] \in {"answered", "noKey", "badPass"} /\ Alone(account[k]) =>
      \/ at[k] = "answered" /\ signer[k] = account[k]
      \/ at[k] = "badPass" /\ pass[k] # PassOf[account[k]]
================================================================================
