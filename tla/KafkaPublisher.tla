----------------------------- MODULE KafkaPublisher -----------------------------
(***************************************************************************)
(* kafka.Publisher under the monitoring services of several chains, which  *)
(* share its one kafka-go Writer.  Publish looks the topic's partitions up *)
(* and tries again while the broker is still creating the topic; then the  *)
(* writer puts the message in a batch for a partition, perhaps with those  *)
(* of other chains, and Publish waits for the batch to be written to the   *)
(* connection.  No acknowledgement is asked for: the broker stores what is *)
(* on the wire later, in any order, since the writer has a pool of         *)
(* connections.  A service publishes one event after the other and stops   *)
(* at the first error.                                                     *)
(***************************************************************************)
EXTENDS Integers, FiniteSets, SequencesExt

CONSTANTS
  Chains,      \* the monitoring services
  Messages,    \* Messages[chain]: [key, bytes] of each event, in order
  Partitions,  \* the topic's partitions
  Lags,        \* the ticks of 250 ms the broker may take to create the topic
  Never,       \* the lag of a broker that does not create it, which is no short one
  Faults,      \* what may go wrong: "lookup", "send", "resend", "lose"
  MaxFaults,   \* bound: how often
  Cancellable  \* may the context of Publish be cancelled

autoCreateRetries == 5

ASSUME MessageAssumption ==
  /\ \A c \in Chains : Messages[c] \in Seq([key : STRING, bytes : Nat])
  /\ Lags \subseteq Nat /\ Never \in Nat /\ Never >= autoCreateRetries - 1
  /\ MaxFaults \in Nat /\ Cancellable \in BOOLEAN

VARIABLES
  lag,      \* broker: how long it takes to create the topic
  topic,    \* broker: "absent", "creating" or "ready"
  age,      \* broker: ticks since it began
  stored,   \* broker: the batches it has appended, in whatever order
  wire,     \* the batches [p, k, batch] written to a connection and not yet read
  written,  \* partition -> how many batches were written for it
  queue,    \* writer: partition -> the batches not yet sent
  bytes,    \* writer: partition -> what LeastBytes has put there
  pc,       \* chain -> where its Publish is
  sent,     \* chain -> how many of its events it called Publish for
  attempt,  \* chain -> the attempt the call is at
  timer,    \* chain -> ticks until time.After fires
  handed,   \* chain -> how often the call put its message in a batch
  error,    \* chain -> what its last call returned
  ctx,
  faults

brokerVars == <<lag, topic, age, stored>>
wireVars == <<wire, written>>
writerVars == <<queue, bytes>>
callVars == <<pc, sent, attempt, timer, handed, error>>
vars == <<lag, topic, age, stored, wire, written, queue, bytes, pc, sent, attempt, timer, handed, error, ctx,
          faults>>

Stages == {"idle", "lookup", "wait", "batched", "stopped"}

Init ==
  /\ lag \in Lags
  /\ topic = "absent" /\ age = 0
  /\ stored = {} /\ wire = {} /\ written = [p \in Partitions |-> 0]
  /\ queue = [p \in Partitions |-> <<>>]
  /\ bytes = [p \in Partitions |-> 0]
  /\ pc = [c \in Chains |-> "idle"]
  /\ sent = [c \in Chains |-> 0]
  /\ attempt = [c \in Chains |-> 0]
  /\ timer = [c \in Chains |-> 0]
  /\ handed = [c \in Chains |-> 0]
  /\ error = [c \in Chains |-> "none"]
  /\ ctx = "live"
  /\ faults = 0

Fails(call) == call \in Faults /\ faults < MaxFaults /\ faults' = faults + 1

-----------------------------------------------------------------------------
(***************************************************************************)
(* Publish.                                                                *)
(***************************************************************************)

\* Encode: the message of the event the call is about, keyed by its hash.
Message(c) == [chain |-> c, n |-> sent[c], key |-> Messages[c][sent[c]].key]

\* MonitorService has its next event.
Call(c) ==
  /\ pc[c] = "idle"
  /\ sent[c] < Len(Messages[c])
  /\ sent' = [sent EXCEPT ![c] = @ + 1]
  /\ attempt' = [attempt EXCEPT ![c] = 1]
  /\ handed' = [handed EXCEPT ![c] = 0]
  /\ pc' = [pc EXCEPT ![c] = "lookup"]
  /\ UNCHANGED <<brokerVars, wireVars, writerVars, timer, error, ctx, faults>>

\* Mutants: one attempt more; one fewer.
RetriesMore(a, err) == a <= autoCreateRetries /\ err = "unknown"
RetriesFewer(a, err) == a + 1 < autoCreateRetries /\ err = "unknown"

\* Whether the loop goes on after an error of WriteMessages.  As the broker is
\* not asked for an acknowledgement, the error of a batch is one of the
\* connection, and never the one tried again.
Retries(a, err) == a < autoCreateRetries /\ err = "unknown"

\* Mutant: the writer's Async set: WriteMessages does not wait for its batch.
Unwaited == "idle"

\* Where WriteMessages is when its message is in a batch.
Waiting == "batched"

\* The writer may put a message in the last batch or begin another.
Batched(batches, m) ==
  {Append(batches, <<m>>)} \cup
  (IF batches = <<>> THEN {} ELSE {Append(Front(batches), Append(Last(batches), m))})

\* LeastBytes: the key has no say.
Chosen(p) == \A q \in Partitions : bytes[p] <= bytes[q]

\* WriteMessages with the partitions known.
Hand(c) ==
  /\ topic = "ready"
  /\ \E p \in Partitions :
       /\ Chosen(p)
       /\ bytes' = [bytes EXCEPT ![p] = @ + Messages[c][sent[c]].bytes]
       /\ \E batches \in Batched(queue[p], Message(c)) : queue' = [queue EXCEPT ![p] = batches]
  /\ handed' = [handed EXCEPT ![c] = @ + 1]
  /\ pc' = [pc EXCEPT ![c] = Waiting]
  /\ UNCHANGED <<brokerVars, wireVars, sent, attempt, timer, error, ctx, faults>>

\* Publish and then the service end with an error.
Stops(c, err) == pc' = [pc EXCEPT ![c] = "stopped"] /\ error' = [error EXCEPT ![c] = err]

\* WriteMessages does not find the topic, and asks the broker to create it.
Unknown(c) ==
  /\ topic # "ready"
  /\ topic' = "creating"
  /\ \/ /\ Retries(attempt[c], "unknown")
        /\ pc' = [pc EXCEPT ![c] = "wait"]
        /\ timer' = [timer EXCEPT ![c] = 1]
        /\ UNCHANGED error
     \/ /\ ~Retries(attempt[c], "unknown")
        /\ Stops(c, "unknown")
        /\ UNCHANGED timer
  /\ UNCHANGED <<lag, age, stored, wireVars, writerVars, sent, attempt, handed, ctx, faults>>

\* WriteMessages cannot ask, or does not under a cancelled context.
Unanswered(c) ==
  /\ \/ Fails("lookup")
     \/ ctx = "cancelled" /\ UNCHANGED faults
  /\ Stops(c, "other")
  /\ UNCHANGED <<brokerVars, wireVars, writerVars, sent, attempt, timer, handed, ctx>>

WriteMessages(c) == pc[c] = "lookup" /\ (Hand(c) \/ Unknown(c) \/ Unanswered(c))

\* Mutant: attempt++ missing.
AgainUncounted(c) ==
  /\ pc[c] = "wait"
  /\ timer[c] = 0
  /\ pc' = [pc EXCEPT ![c] = "lookup"]
  /\ UNCHANGED <<brokerVars, wireVars, writerVars, sent, attempt, timer, handed, error, ctx, faults>>

\* time.After(autoCreateRetryDelay) fires.
Again(c) ==
  /\ pc[c] = "wait"
  /\ timer[c] = 0
  /\ attempt' = [attempt EXCEPT ![c] = @ + 1]
  /\ pc' = [pc EXCEPT ![c] = "lookup"]
  /\ UNCHANGED <<brokerVars, wireVars, writerVars, sent, timer, handed, error, ctx, faults>>

\* ctx.Done ends both waits; the message stays in its batch.
Abandon(c) ==
  /\ ctx = "cancelled"
  /\ pc[c] \in {"wait", "batched"}
  /\ Stops(c, "cancelled")
  /\ UNCHANGED <<brokerVars, wireVars, writerVars, sent, attempt, timer, handed, ctx, faults>>

-----------------------------------------------------------------------------
(***************************************************************************)
(* The writer's goroutines, the broker and the clock.                      *)
(***************************************************************************)

\* The calls that wait for the batch.
Waiters(batch) ==
  {c \in Chains : pc[c] = "batched" /\ \E i \in DOMAIN batch : batch[i].chain = c /\ batch[i].n = sent[c]}

\* The batch is done without an error: Publish returns nil.
Done(p) ==
  /\ queue' = [queue EXCEPT ![p] = Tail(@)]
  /\ pc' = [c \in Chains |-> IF c \in Waiters(Head(queue[p])) THEN "idle" ELSE pc[c]]
  /\ UNCHANGED <<timer, error>>

\* The batch is given up.
GivenUp(p) ==
  LET failed == Waiters(Head(queue[p]))
      again  == {c \in failed : Retries(attempt[c], "batch")}
  IN  /\ queue' = [queue EXCEPT ![p] = Tail(@)]
      /\ pc' = [c \in Chains |-> IF c \in again THEN "wait" ELSE IF c \in failed THEN "stopped" ELSE pc[c]]
      /\ timer' = [c \in Chains |-> IF c \in again THEN 1 ELSE timer[c]]
      /\ error' = [c \in Chains |-> IF c \in failed \ again THEN "batch" ELSE error[c]]

\* The batch at the head of a partition's queue is written to a connection.
Written(p) ==
  /\ wire' = wire \cup {[p |-> p, k |-> written[p], batch |-> Head(queue[p])]}
  /\ written' = [written EXCEPT ![p] = @ + 1]

\* The next batch of a partition goes out.  With the last byte written it is
\* done, whatever becomes of it; after an error of the connection the writer
\* sends it again, or gives it up, without knowing whether all of it was written.
Send(p) ==
  /\ queue[p] # <<>>
  /\ \/ Written(p) /\ Done(p) /\ UNCHANGED faults
     \/ /\ Fails("resend") /\ UNCHANGED <<queue, pc, timer, error>>
        /\ Written(p) \/ UNCHANGED wireVars
     \/ /\ Fails("send") /\ GivenUp(p)
        /\ Written(p) \/ UNCHANGED wireVars
  /\ UNCHANGED <<brokerVars, bytes, sent, attempt, handed, ctx>>

\* The broker reads a batch from one of its connections and appends it.
Arrive ==
  /\ \E w \in wire : wire' = wire \ {w} /\ stored' = stored \cup {w}
  /\ UNCHANGED <<lag, topic, age, written, writerVars, callVars, ctx, faults>>

\* A batch is lost with its connection, or the broker cannot store it.
Lose ==
  /\ Fails("lose")
  /\ \E w \in wire : wire' = wire \ {w}
  /\ UNCHANGED <<brokerVars, written, writerVars, callVars, ctx>>

Created ==
  /\ topic = "creating" /\ lag # Never
  /\ topic' = "ready"
  /\ UNCHANGED <<lag, age, stored, wireVars, writerVars, callVars, ctx, faults>>

\* 250 ms pass; the broker keeps to its lag.
Tick ==
  /\ \E c \in Chains : timer[c] > 0
  /\ topic = "creating" => age < lag \/ lag = Never
  /\ age' = IF topic = "creating" /\ age < lag THEN age + 1 ELSE age
  /\ timer' = [c \in Chains |-> 0]
  /\ UNCHANGED <<lag, topic, stored, wireVars, writerVars, pc, sent, attempt, handed, error, ctx, faults>>

Cancel ==
  /\ Cancellable /\ ctx = "live"
  /\ ctx' = "cancelled"
  /\ UNCHANGED <<brokerVars, wireVars, writerVars, callVars, faults>>

-----------------------------------------------------------------------------

Publish(c) == WriteMessages(c) \/ Again(c) \/ Abandon(c)

Next ==
  \/ Created \/ Tick \/ Cancel \/ Arrive \/ Lose
  \/ \E c \in Chains : Call(c) \/ Publish(c)
  \/ \E p \in Partitions : Send(p)

Spec == Init /\ [][Next]_vars

\* Goroutines that can run do, the writer's included, and time passes.  The
\* broker creates the topic by the end of its lag.
FairSpec ==
  /\ Spec /\ WF_vars(Tick) /\ WF_vars(age = lag /\ Created)
  /\ \A c \in Chains : WF_vars(Publish(c))
  /\ \A p \in Partitions : WF_vars(Send(p))

-----------------------------------------------------------------------------

\* The type of every variable.
TypeOK ==
  /\ lag \in Lags /\ topic \in {"absent", "creating", "ready"} /\ age \in 0..lag
  /\ \A w \in stored \cup wire :
       w.p \in Partitions /\ w.k \in 0..(written[w.p] - 1) /\ w.batch # <<>>
  /\ \A p \in Partitions : \A i \in DOMAIN queue[p] : queue[p][i] # <<>>
  /\ bytes \in [Partitions -> Nat] /\ written \in [Partitions -> Nat]
  /\ pc \in [Chains -> Stages]
  /\ \A c \in Chains : sent[c] \in 0..Len(Messages[c])
  /\ attempt \in [Chains -> 0..autoCreateRetries]
  /\ timer \in [Chains -> 0..1]
  /\ handed \in [Chains -> Nat]
  /\ error \in [Chains -> {"none", "unknown", "batch", "other", "cancelled"}]
  /\ faults \in 0..MaxFaults

\* Where an event is, in the topic or on its way there.
Places(c, n) ==
  {wj \in UNION {{w} \X DOMAIN w.batch : w \in stored \cup wire} :
     wj[1].batch[wj[2]].chain = c /\ wj[1].batch[wj[2]].n = n}

\* When Publish has returned nil the event is in the topic or on its way there,
\* and it will be there once: the loop tries the lookup again, and never hands
\* over a message that may have been written.  What is twice in the topic or not
\* at all is the doing of a connection or of the broker, and each time it costs
\* a chain one event at most, however many batches it is in.
PublishedOnce ==
  \A c \in Chains :
    /\ handed[c] <= 1
    /\ Cardinality({n \in 1..(sent[c] - 1) : Cardinality(Places(c, n)) # 1}) <= faults

\* A topic the broker creates within a second is created in time: no chain's
\* monitoring ends because it published too early.
CreationAbsorbed == lag < autoCreateRetries - 1 => \A c \in Chains : error[c] # "unknown"

\* Every call of Publish returns, also when the topic is never created.
PublishEnds ==
  \A c \in Chains : (pc[c] \in {"lookup", "wait", "batched"}) ~> (pc[c] \in {"idle", "stopped"})

\* "Keyed by tx hash so a chain's events for one tx land on one partition."
KeyOnOnePartition ==
  \A v, w \in stored : \A i \in DOMAIN v.batch, j \in DOMAIN w.batch :
    v.batch[i].chain = w.batch[j].chain /\ v.batch[i].key = w.batch[j].key => v.p = w.p
================================================================================
