--------------------------- MODULE MCWalletService ---------------------------
(***************************************************************************)
(* Two creations with passphrases of their own, and a call that reads.     *)
(***************************************************************************)
EXTENDS WalletReaders

CONSTANTS r1, r2, k1

MCPassOf == [r \in Requests |-> IF r = r1 THEN "one" ELSE "two"]
==============================================================================
