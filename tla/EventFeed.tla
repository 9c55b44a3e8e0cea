------------------------------- MODULE EventFeed -------------------------------
(***************************************************************************)
(* What a chain's monitoring promises, without blocks, tables or channels. *)
(* Each life of the process subscribes to a set of events and passes over  *)
(* them in the order of the chain, without a gap: it takes the next event, *)
(* stores it, and publishes it, once, before it takes another.  It may     *)
(* halt at any point, and the step it halts in may or may not take effect. *)
(***************************************************************************)
EXTENDS Naturals

CONSTANTS
  Event,    \* the events that can be subscribed to
  NoneYet,  \* no event was taken in this life
  Order     \* the pairs <<e, f>> of events with e before f

VARIABLES
  phase,       \* of this life
  subscribed,  \* the events this life is to deliver
  passed,      \* those it has taken
  last,        \* the one it took last
  stored,      \* the events stored, in this life or another
  out          \* event -> how often it was published

feedVars == <<phase, subscribed, passed, last, stored, out>>

Phases == {"off", "ready", "taken", "stored", "halted"}

FeedInit ==
  /\ phase = "off"
  /\ subscribed = {} /\ passed = {} /\ last = NoneYet
  /\ stored = {}
  /\ out = [e \in Event |-> 0]

Subscribe ==
  /\ phase = "off" /\ phase' = "ready"
  /\ subscribed' \in SUBSET Event
  /\ UNCHANGED <<passed, last, stored, out>>

\* The next event is the one no subscribed event is left before.
NextInOrder(e) == \A f \in subscribed : <<f, e>> \in Order => f \in passed

Take ==
  /\ phase = "ready" /\ phase' = "taken"
  /\ \E e \in subscribed \ passed :
       /\ NextInOrder(e)
       /\ last' = e
       /\ passed' = passed \cup {e}
  /\ UNCHANGED <<subscribed, stored, out>>

Stored == stored' = stored \cup {last}

Store ==
  /\ phase = "taken" /\ phase' = "stored"
  /\ Stored
  /\ UNCHANGED <<subscribed, passed, last, out>>

Emitted == out' = [out EXCEPT ![last] = @ + 1]

Emit ==
  /\ phase = "stored" /\ phase' = "ready"
  /\ Emitted
  /\ UNCHANGED <<subscribed, passed, last, stored>>

\* The life ends as far as its promises go; what it was doing may be done.
Halt ==
  /\ phase # "halted" /\ phase' = "halted"
  /\ (phase = "taken" /\ Stored) \/ UNCHANGED stored
  /\ (phase = "stored" /\ Emitted) \/ UNCHANGED out
  /\ UNCHANGED <<subscribed, passed, last>>

Restart ==
  /\ phase' = "off"
  /\ subscribed' = {} /\ passed' = {} /\ last' = NoneYet
  /\ UNCHANGED <<stored, out>>

FeedNext == Subscribe \/ Take \/ Store \/ Emit \/ Halt \/ Restart

FeedSpec == FeedInit /\ [][FeedNext]_feedVars
================================================================================
