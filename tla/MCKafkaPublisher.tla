--------------------------- MODULE MCKafkaPublisher ---------------------------
(***************************************************************************)
(* Two chains on a topic with two partitions: three events of one, two of  *)
(* them of the same transaction, and one of the other.                     *)
(***************************************************************************)
EXTENDS KafkaPublisher

Event(hash, size) == [key |-> hash, bytes |-> size]

MCMessages ==
  [c \in {"ethereum", "base"} |->
     IF c = "ethereum" THEN <<Event("0xa", 2), Event("0xa", 3), Event("0xb", 2)>>
                       ELSE <<Event("0xc", 2)>>]
===============================================================================
