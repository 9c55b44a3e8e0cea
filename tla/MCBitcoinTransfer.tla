-------------------------- MODULE MCBitcoinTransfer --------------------------
(***************************************************************************)
(* Two calls, or one call and its retry, over five coins of one wallet,    *)
(* two of the same value and one a coinbase output that can be spent from  *)
(* the second block on, and one coin of another wallet.                    *)
(***************************************************************************)
EXTENDS BitcoinTransfer, TLC

CONSTANTS r1, r2, alice, bob, carol, nowhere

Coin(i, a, v) == [id |-> i, owner |-> a, value |-> v, coinbase |-> FALSE, height |-> 50]

MCCoins ==
  {Coin(10, alice, 1500), Coin(20, alice, 3000), Coin(30, alice, 3000), Coin(40, alice, 2000), Coin(60, bob, 9000),
   [id |-> 50, owner |-> alice, value |-> 7000, coinbase |-> TRUE, height |-> 2]}

MCAccountOf == [w \in {"wa", "wb"} |-> IF w = "wa" THEN alice ELSE bob]

Sym == Permutations({r1, r2})

Ask(w, from, to, amount, speed) ==
  [wallet |-> w, from |-> from, to |-> to, amount |-> amount, speed |-> speed]

\* Ordinary transfers with one coin, with two, with dust or nothing as change; one
\* from an address of another wallet, one to no address, odd amounts, one beyond
\* an int64 and one that is so with its fee, and a speed nobody knows.
MCTransfers ==
  {Ask("wa", alice, carol, 1500, "economy"), Ask("wa", alice, bob, 1870, "economy"),
   Ask("wa", alice, carol, 5000, "standard"), Ask("wb", alice, carol, 1500, "economy"),
   Ask("wa", alice, nowhere, 1500, "economy"), Ask("wa", alice, carol, 500, "slow"),
   Ask("wa", alice, carol, Word + 1500, "economy"), Ask("wa", alice, carol, Word \div 2 - 100, "economy")}
===============================================================================
