-------------------------- MODULE MCExpiringTransfer --------------------------
(***************************************************************************)
(* A payment and its retry, on either chain, with amounts on both sides of *)
(* what its integer holds.                                                 *)
(***************************************************************************)
EXTENDS ExpiringTransfer

CONSTANTS p1, alice, bob, typo

Ask(from, to, amount) == [from |-> from, to |-> to, amount |-> amount]

\* A payment, one whose amount only Solana's integer holds, one that neither
\* holds, a negative one, one from another's account, and one to no address.
MCPayments ==
  {Ask(alice, bob, 3), Ask(alice, bob, 9), Ask(alice, bob, 19), Ask(alice, bob, -3),
   Ask(bob, alice, 3), Ask(alice, typo, 3)}
===============================================================================
