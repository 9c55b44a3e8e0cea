---------------------------- MODULE MCEvmTransfer ----------------------------
(***************************************************************************)
(* Two calls over one wallet, on a chain whose base fee rises with every   *)
(* block for as long as the adapter's fee formula is meant to last.        *)
(***************************************************************************)
EXTENDS EvmTransfer, TLC

CONSTANTS r1, r2, alice, bob, shop, zero, typo

MCAccountOf == [w \in {"wa"} |-> alice]

MCNonce == [a \in {alice, bob, shop, zero} |-> IF a = bob THEN 1 ELSE 0]

Ask(w, from, to, amount, speed) ==
  [wallet |-> w, from |-> from, to |-> to, amount |-> amount, speed |-> speed]

\* The slowest and the fastest speed, one nobody knows with a contract as
\* recipient, an address of another wallet as sender with no address as recipient, and a
\* negative amount.
MCTransfers ==
  {Ask("wa", alice, bob, 1, "economy"), Ask("wa", alice, bob, 1, "fast"),
   Ask("wa", alice, shop, 1, "slow"), Ask("wa", bob, typo, 2, "standard"),
   Ask("wa", alice, bob, -1, "standard")}

MCSymmetry == Permutations({r1, r2})
==============================================================================
