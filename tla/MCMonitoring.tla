----------------------------- MODULE MCMonitoring -----------------------------
(***************************************************************************)
(* A small chain for Monitoring: two accounts of two wallets, one outside  *)
(* party, and four blocks.  Block 1 has an inbound transfer; block 2 a      *)
(* transfer between the two wallets, with one event for each; block 3 a    *)
(* transaction of nobody here; block 4 an outbound contract creation and   *)
(* an inbound transfer whose signature does not recover.                   *)
(***************************************************************************)
EXTENDS Monitoring

CONSTANTS a1, a2, x, none, t1, t2, t3, t4, t5

MCTxs == {t1, t2, t3, t4, t5}
MCAccounts == {a1, a2}
MCStrangers == {x}

MCSender ==
  [t \in MCTxs |-> CASE t = t1 -> x [] t = t2 -> a1 [] t = t3 -> x [] t = t4 -> a1 [] t = t5 -> none]

MCRecipient ==
  [t \in MCTxs |-> CASE t = t1 -> a1 [] t = t2 -> a2 [] t = t3 -> x [] t = t4 -> none [] t = t5 -> a2]

MCReverted == {t2}
MCWalletOf == [a \in MCAccounts |-> IF a = a1 THEN "w1" ELSE "w2"]

MCLedger == << <<t1>>, <<t2>>, <<t3>>, <<t4, t5>> >>

MCOneAccount == {a1}
===============================================================================
