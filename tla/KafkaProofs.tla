------------------------------ MODULE KafkaProofs ------------------------------
(***************************************************************************)
(* Proofs about KafkaPublisher, for any number of chains, events and       *)
(* partitions, any lag of the broker and any faults of the writer.         *)
(***************************************************************************)
EXTENDS KafkaPublisher, FiniteSetTheorems, TLAPS

Msgs == [chain : Chains, n : Nat, key : STRING]

\* No batch is empty.
Full(batches) == \A i \in DOMAIN batches : batches[i] # <<>>

\* The batches that were written and not lost.
Out == stored \cup wire

Writes == [p : Partitions, k : Nat, batch : Seq(Msgs)]

\* The places of an event in a set of batches.
PlacesIn(W, c, n) ==
  {wj \in UNION {{w} \X DOMAIN w.batch : w \in W} :
     wj[1].batch[wj[2]].chain = c /\ wj[1].batch[wj[2]].n = n}

Copies(c, n) == Cardinality(Places(c, n))

\* What a variable may hold, where TypeOK does not say it.
Held ==
  /\ TypeOK
  /\ sent \in [Chains -> Nat]
  /\ queue \in [Partitions -> Seq(Seq(Msgs))]
  /\ Out \subseteq Writes
  /\ \A c \in Chains : \A n : IsFiniteSet(Places(c, n))

\* A call of Publish: what it has done by the stage it is at.
Called ==
  \A c \in Chains :
    /\ handed[c] <= 1
    /\ pc[c] \in {"lookup", "wait"} => handed[c] = 0
    /\ pc[c] \in {"lookup", "wait", "batched"} => sent[c] >= 1 /\ attempt[c] >= 1
    /\ pc[c] = "wait" => attempt[c] < autoCreateRetries

\* A message in a batch is the one its chain's call is about, and the only one of
\* the chain.
Queued ==
  /\ \A p \in Partitions : \A i \in DOMAIN queue[p] : \A j \in DOMAIN queue[p][i] :
       LET m == queue[p][i][j] IN m.n = sent[m.chain] /\ pc[m.chain] \in {"batched", "stopped"}
  /\ \A p, q \in Partitions : \A i \in DOMAIN queue[p], k \in DOMAIN queue[q] :
       \A j \in DOMAIN queue[p][i], l \in DOMAIN queue[q][k] :
         queue[p][i][j].chain = queue[q][k][l].chain => p = q /\ i = k /\ j = l

\* A batch holds one message of a chain, and none its service is not yet at.
Single(w) ==
  /\ \A j \in DOMAIN w.batch : w.batch[j].n <= sent[w.batch[j].chain]
  /\ \A j, k \in DOMAIN w.batch : w.batch[j].chain = w.batch[k].chain => j = k

\* The events of a chain that are out not as often as they should, as far as
\* Publish has been called for them: once, or not yet while the call goes on.
Off(c) ==
  {n \in 1..sent[c] :
     \/ (n < sent[c] \/ pc[c] = "idle") /\ Copies(c, n) # 1
     \/ n = sent[c] /\ pc[c] \in {"lookup", "wait", "batched"} /\ Copies(c, n) # 0}

\* Each of them is a fault's doing.
Counted ==
  /\ \A w \in Out : Single(w)
  /\ \A c \in Chains : IsFiniteSet(Off(c)) /\ Cardinality(Off(c)) <= faults

\* While a quick broker creates the topic, no call is further than time has passed.
InTime ==
  lag < autoCreateRetries - 1 =>
    /\ \A c \in Chains : error[c] # "unknown"
    /\ topic = "absent" => \A c \in Chains : pc[c] # "wait" /\ (pc[c] = "lookup" => attempt[c] <= 1)
    /\ topic = "creating" =>
         \A c \in Chains :
           /\ pc[c] = "lookup" => attempt[c] <= age + 1
           /\ pc[c] = "wait" => attempt[c] <= age + timer[c]

Inv == Held /\ Called /\ Queued /\ Counted /\ InTime

-----------------------------------------------------------------------------
(***************************************************************************)
(* Batches.                                                                *)
(***************************************************************************)

\* The writer adds a message to a partition's batches, at one place, and leaves
\* the others where they are.
LEMMA BatchedIs ==
  ASSUME NEW S, NEW m \in S, NEW batches \in Seq(Seq(S)), Full(batches),
         NEW bs \in Batched(batches, m)
  PROVE  /\ bs \in Seq(Seq(S)) /\ Full(bs)
         /\ \E I \in DOMAIN bs : \E J \in DOMAIN bs[I] :
              /\ bs[I][J] = m
              /\ \A i \in DOMAIN bs : \A j \in DOMAIN bs[i] :
                   \/ i = I /\ j = J
                   \/ i \in DOMAIN batches /\ j \in DOMAIN batches[i] /\ bs[i][j] = batches[i][j]
<1>1. CASE bs = Append(batches, <<m>>)
  <2>1. /\ bs \in Seq(Seq(S)) /\ Len(bs) = Len(batches) + 1 /\ bs[Len(bs)] = <<m>>
        /\ \A i \in 1..Len(batches) : bs[i] = batches[i]
    BY <1>1
  <2>2. DOMAIN bs = 1..Len(bs) /\ DOMAIN batches = 1..Len(batches) /\ Len(batches) \in Nat
    BY <2>1
  <2>3. Len(bs) \in DOMAIN bs /\ DOMAIN bs[Len(bs)] = {1} /\ 1 \in DOMAIN bs[Len(bs)] /\ bs[Len(bs)][1] = m
    BY <2>1, <2>2
  <2>4. \A i \in DOMAIN bs : i = Len(bs) \/ (i \in DOMAIN batches /\ bs[i] = batches[i])
    BY <2>1, <2>2
  <2>5. \A i \in DOMAIN bs : bs[i] # <<>>
    <3>1. bs[Len(bs)] # <<>>
      <4>1. 1 \notin DOMAIN <<>>
        OBVIOUS
      <4>. QED
        BY <2>3, <4>1
    <3>. QED
      BY <2>4, <3>1 DEF Full
  <2>6. \A i \in DOMAIN bs : \A j \in DOMAIN bs[i] :
          \/ i = Len(bs) /\ j = 1
          \/ i \in DOMAIN batches /\ j \in DOMAIN batches[i] /\ bs[i][j] = batches[i][j]
    BY <2>3, <2>4
  <2>. QED
    BY <2>1, <2>3, <2>5, <2>6 DEF Full
<1>2. CASE batches # <<>> /\ bs = Append(Front(batches), Append(Last(batches), m))
  <2> DEFINE L == Len(batches)
             b == batches[L]
             e == Append(b, m)
             f == Front(batches)
  <2>1. L \in Nat /\ L >= 1 /\ DOMAIN batches = 1..L /\ b \in Seq(S)
    BY <1>2
  <2>2. e \in Seq(S) /\ Len(e) = Len(b) + 1 /\ e[Len(e)] = m /\ \A j \in 1..Len(b) : e[j] = b[j]
    BY <2>1
  <2>3. f \in Seq(Seq(S)) /\ Len(f) = L - 1 /\ \A i \in 1..(L - 1) : f[i] = batches[i]
    BY <2>1 DEF Front
  <2>4. bs = Append(f, e)
    BY <1>2 DEF Last
  <2>. HIDE DEF f, e, b
  <2>5. bs \in Seq(Seq(S)) /\ Len(bs) = L /\ bs[L] = e /\ \A i \in 1..(L - 1) : bs[i] = batches[i]
    <3>1. bs \in Seq(Seq(S)) /\ Len(bs) = Len(f) + 1 /\ bs[Len(f) + 1] = e /\ \A i \in 1..Len(f) : bs[i] = f[i]
      BY <2>2, <2>3, <2>4
    <3>2. Len(f) + 1 = L
      BY <2>1, <2>3
    <3>. HIDE DEF L
    <3>. QED
      BY <2>1, <2>3, <3>1, <3>2
  <2>6. /\ DOMAIN bs = 1..L /\ L \in DOMAIN bs
        /\ DOMAIN e = 1..Len(e) /\ DOMAIN b = 1..Len(b) /\ Len(b) \in Nat /\ Len(e) \in DOMAIN e
    BY <2>1, <2>2, <2>5
  <2>7. ASSUME NEW j \in DOMAIN e, j # Len(e) PROVE j \in DOMAIN b /\ e[j] = b[j]
    <3>1. j \in 1..Len(b)
      BY <2>2, <2>6, <2>7
    <3>. QED
      BY <2>2, <2>6, <3>1
  <2>8. \A i \in DOMAIN bs : i = L \/ (i \in DOMAIN batches /\ bs[i] = batches[i])
    BY <2>1, <2>5, <2>6
  <2>9. \A i \in DOMAIN bs : bs[i] # <<>>
    BY <2>2, <2>5, <2>6, <2>8 DEF Full
  <2>10. \A i \in DOMAIN bs : \A j \in DOMAIN bs[i] :
           \/ i = L /\ j = Len(e)
           \/ i \in DOMAIN batches /\ j \in DOMAIN batches[i] /\ bs[i][j] = batches[i][j]
    BY <2>1, <2>5, <2>7, <2>8 DEF b
  <2>11. Len(e) \in DOMAIN bs[L] /\ bs[L][Len(e)] = m
    BY <2>2, <2>5, <2>6
  <2>12. bs \in Seq(Seq(S)) /\ Full(bs)
    BY <2>5, <2>9 DEF Full
  <2>. QED
    BY ONLY <2>6, <2>10, <2>11, <2>12
<1>. QED
  BY <1>1, <1>2 DEF Batched

\* The first batch of a partition, and those after it.
LEMMA TailIs ==
  ASSUME NEW S, NEW batches \in Seq(Seq(S)), batches # <<>>
  PROVE  /\ 1 \in DOMAIN batches /\ Head(batches) = batches[1] /\ Head(batches) \in Seq(S)
         /\ Tail(batches) \in Seq(Seq(S))
         /\ \A i \in DOMAIN Tail(batches) :
              i \in Nat /\ i >= 1 /\ i + 1 \in DOMAIN batches /\ Tail(batches)[i] = batches[i + 1]
<1>1. Len(batches) \in Nat /\ Len(batches) >= 1 /\ DOMAIN batches = 1..Len(batches)
  OBVIOUS
<1>2. Tail(batches) \in Seq(Seq(S)) /\ Len(Tail(batches)) = Len(batches) - 1
  OBVIOUS
<1>3. DOMAIN Tail(batches) = 1..(Len(batches) - 1)
  BY <1>1, <1>2
<1>4. \A i \in 1..(Len(batches) - 1) : Tail(batches)[i] = batches[i + 1]
  BY <1>1
<1>. QED
  BY <1>1, <1>2, <1>3, <1>4

-----------------------------------------------------------------------------
(***************************************************************************)
(* What is out.                                                            *)
(***************************************************************************)

\* An entry of a sequence is one of its elements.
LEMMA EntryIs == ASSUME NEW S, NEW s \in Seq(S), NEW i \in 1..Len(s) PROVE s[i] \in S
OBVIOUS

\* A place is a batch and an index.
LEMMA PlacesIs ==
  ASSUME NEW W, NEW c, NEW n
  PROVE  /\ \A w \in W : \A j \in DOMAIN w.batch :
              <<w, j>> \in PlacesIn(W, c, n) <=> w.batch[j].chain = c /\ w.batch[j].n = n
         /\ \A x \in PlacesIn(W, c, n) : \E w \in W : \E j \in DOMAIN w.batch :
              x = <<w, j>> /\ w.batch[j].chain = c /\ w.batch[j].n = n
<1> DEFINE All == UNION {{w} \X DOMAIN w.batch : w \in W}
<1>1. ASSUME NEW w \in W, NEW j \in DOMAIN w.batch PROVE <<w, j>> \in All
  BY <1>1
<1>2. ASSUME NEW x \in All PROVE \E w \in W : \E j \in DOMAIN w.batch : x = <<w, j>>
  BY <1>2
<1>3. ASSUME NEW w, NEW j PROVE <<w, j>>[1] = w /\ <<w, j>>[2] = j
  OBVIOUS
<1>4. \A x : x \in PlacesIn(W, c, n) <=>
               x \in All /\ x[1].batch[x[2]].chain = c /\ x[1].batch[x[2]].n = n
  BY DEF PlacesIn
<1>. HIDE DEF All
<1>5. ASSUME NEW w \in W, NEW j \in DOMAIN w.batch
      PROVE  <<w, j>> \in PlacesIn(W, c, n) <=> w.batch[j].chain = c /\ w.batch[j].n = n
  BY <1>1, <1>3, <1>4
<1>6. ASSUME NEW x \in PlacesIn(W, c, n)
      PROVE  \E w \in W : \E j \in DOMAIN w.batch :
               x = <<w, j>> /\ w.batch[j].chain = c /\ w.batch[j].n = n
  BY <1>2, <1>3, <1>4
<1>. QED
  BY <1>5, <1>6

\* A batch without the event adds no place of it, and takes none away.
LEMMA OtherPlaces ==
  ASSUME NEW W, NEW w, NEW V, V = W \cup {w}, NEW c, NEW n,
         \A j \in DOMAIN w.batch : ~(w.batch[j].chain = c /\ w.batch[j].n = n)
  PROVE  PlacesIn(V, c, n) = PlacesIn(W, c, n)
<1>1. ASSUME NEW x \in PlacesIn(W, c, n) PROVE x \in PlacesIn(V, c, n)
  BY <1>1, PlacesIs
<1>2. ASSUME NEW x \in PlacesIn(V, c, n) PROVE x \in PlacesIn(W, c, n)
  <2>1. PICK v \in V : \E j \in DOMAIN v.batch :
          x = <<v, j>> /\ v.batch[j].chain = c /\ v.batch[j].n = n
    BY <1>2, PlacesIs
  <2>2. v \in W
    BY <2>1
  <2>. QED
    BY <2>1, <2>2, PlacesIs
<1>. QED
  BY <1>1, <1>2

\* A batch with the event adds the one place.
LEMMA OnePlace ==
  ASSUME NEW W, NEW w, NEW V, V = W \cup {w}, w \notin W, NEW c, NEW n, NEW j \in DOMAIN w.batch,
         w.batch[j].chain = c, w.batch[j].n = n,
         \A k \in DOMAIN w.batch : w.batch[k].chain = c => k = j
  PROVE  /\ PlacesIn(V, c, n) = PlacesIn(W, c, n) \cup {<<w, j>>}
         /\ <<w, j>> \notin PlacesIn(W, c, n)
<1>1. ASSUME NEW x \in PlacesIn(W, c, n) PROVE x \in PlacesIn(V, c, n)
  BY <1>1, PlacesIs
<1>2. <<w, j>> \in PlacesIn(V, c, n)
  BY PlacesIs
<1>3. ASSUME NEW x \in PlacesIn(V, c, n) PROVE x \in PlacesIn(W, c, n) \/ x = <<w, j>>
  <2>1. PICK v \in V : \E k \in DOMAIN v.batch :
          x = <<v, k>> /\ v.batch[k].chain = c /\ v.batch[k].n = n
    BY <1>3, PlacesIs
  <2>. QED
    BY <2>1, PlacesIs
<1>4. <<w, j>> \notin PlacesIn(W, c, n)
  <2>1. SUFFICES ASSUME <<w, j>> \in PlacesIn(W, c, n) PROVE FALSE
    OBVIOUS
  <2>2. PICK v \in W : \E k \in DOMAIN v.batch : <<w, j>> = <<v, k>>
    BY <2>1, PlacesIs
  <2>. QED
    BY <2>2
<1>. QED
  BY <1>1, <1>2, <1>3, <1>4

Carries(batch, c) == \E j \in DOMAIN batch : batch[j].chain = c

\* A batch that is written adds one copy of the event each of its chains is at, and
\* changes nothing for another.
LEMMA WrittenCopies ==
  ASSUME Held, Queued, NEW p \in Partitions, queue[p] # <<>>, Written(p), UNCHANGED <<sent, stored>>
  PROVE  /\ written' \in [Partitions -> Nat]
         /\ Out' \subseteq Writes
         /\ \A w \in Out' : w.k \in 0..(written'[w.p] - 1) /\ w.batch # <<>>
         /\ (\A w \in Out : Single(w)) => \A w \in Out' : Single(w)'
         /\ \A c \in Chains : \A n :
              /\ IsFiniteSet(Places(c, n)')
              /\ Carries(Head(queue[p]), c) /\ n = sent[c] => Copies(c, n)' = Copies(c, n) + 1
              /\ ~(Carries(Head(queue[p]), c) /\ n = sent[c]) => Copies(c, n)' = Copies(c, n)
<1> DEFINE b == Head(queue[p])
<1>0. PICK w : w = [p |-> p, k |-> written[p], batch |-> b]
  OBVIOUS
<1>1. /\ queue[p] \in Seq(Seq(Msgs)) /\ written \in [Partitions -> Nat]
      /\ Out \subseteq Writes /\ Out' = Out \cup {w}
      /\ written' = [written EXCEPT ![p] = @ + 1]
  BY <1>0 DEF Held, TypeOK, Written, Out
<1>2. 1 \in DOMAIN queue[p] /\ b = queue[p][1] /\ b \in Seq(Msgs)
  BY <1>1, TailIs
<1>3. /\ \A j \in DOMAIN b : b[j].chain \in Chains /\ b[j].n = sent[b[j].chain]
      /\ \A j, k \in DOMAIN b : b[j].chain = b[k].chain => j = k
  <2>1. \A j \in DOMAIN b : b[j] \in Msgs
    BY <1>2
  <2>. QED
    BY <1>2, <2>1 DEF Queued, Msgs
<1>4. b # <<>>
  BY <1>2 DEF Held, TypeOK
<1>. HIDE DEF b
<1>5. w \in Writes /\ w.p = p /\ w.k = written[p] /\ w.batch = b
  BY <1>0, <1>1, <1>2 DEF Writes
<1>6. \A v \in Out : v.p \in Partitions /\ v.k \in 0..(written[v.p] - 1) /\ v.batch # <<>>
  BY DEF Held, TypeOK, Out
<1>7. w \notin Out
  BY <1>1, <1>5, <1>6
<1>8. /\ written' \in [Partitions -> Nat]
      /\ \A v \in Out' : v.k \in 0..(written'[v.p] - 1) /\ v.batch # <<>>
  <2>1. written' \in [Partitions -> Nat] /\ written'[p] = written[p] + 1
    BY <1>1
  <2>2. \A q \in Partitions : written[q] \in Nat /\ written'[q] \in Nat /\ written'[q] >= written[q]
    BY <1>1, <2>1
  <2>3. ASSUME NEW v \in Out PROVE v.k \in 0..(written'[v.p] - 1)
    BY <1>6, <2>2
  <2>4. w.k \in 0..(written'[w.p] - 1)
    BY <1>1, <1>5, <2>1
  <2>. QED
    BY <1>1, <1>4, <1>5, <1>6, <2>1, <2>3, <2>4
<1>9. Out' \subseteq Writes
  BY <1>1, <1>5
<1>10. ASSUME \A v \in Out : Single(v) PROVE \A v \in Out' : Single(v)'
  <2>1. Single(w)'
    <3>1. \A c \in Chains : sent[c] \in Nat
      BY DEF Held
    <3>. QED
      BY <1>3, <1>5, <3>1 DEF Single
  <2>2. ASSUME NEW v \in Out PROVE Single(v)'
    BY <1>10, <2>2 DEF Single
  <2>. QED
    BY <1>1, <2>1, <2>2
<1>11. ASSUME NEW c \in Chains, NEW n
       PROVE  /\ IsFiniteSet(Places(c, n)')
              /\ Carries(b, c) /\ n = sent[c] => Copies(c, n)' = Copies(c, n) + 1
              /\ ~(Carries(b, c) /\ n = sent[c]) => Copies(c, n)' = Copies(c, n)
  <2>1. Places(c, n) = PlacesIn(Out, c, n) /\ Places(c, n)' = PlacesIn(Out', c, n)
    BY DEF Places, PlacesIn, Out
  <2>2. IsFiniteSet(Places(c, n))
    BY DEF Held
  <2>3. Copies(c, n) = Cardinality(Places(c, n)) /\ Copies(c, n)' = Cardinality(Places(c, n)')
    BY DEF Copies
  <2>n. Out' = Out \cup {w} /\ w \notin Out /\ w.batch = b
    BY <1>1, <1>5, <1>7
  <2>4. CASE Carries(b, c) /\ n = sent[c]
    <3>1. PICK j \in DOMAIN b : b[j].chain = c
      BY <2>4 DEF Carries
    <3>2. b[j].n = n /\ \A k \in DOMAIN b : b[k].chain = c => k = j
      BY <1>3, <2>4, <3>1
    <3>3. /\ PlacesIn(Out', c, n) = PlacesIn(Out, c, n) \cup {<<w, j>>}
          /\ <<w, j>> \notin PlacesIn(Out, c, n)
      <4>1. /\ j \in DOMAIN w.batch /\ w.batch[j].chain = c /\ w.batch[j].n = n
            /\ \A k \in DOMAIN w.batch : w.batch[k].chain = c => k = j
        BY <2>n, <3>1, <3>2
      <4>. QED
        BY ONLY <2>n, <4>1, OnePlace, Z3
    <3>4. /\ IsFiniteSet(PlacesIn(Out', c, n))
          /\ Cardinality(PlacesIn(Out', c, n)) = Cardinality(PlacesIn(Out, c, n)) + 1
      <4> DEFINE S == PlacesIn(Out, c, n)
                 x == <<w, j>>
                 T == PlacesIn(Out', c, n)
      <4>1. T = S \cup {x} /\ x \notin S /\ IsFiniteSet(S)
        BY <2>1, <2>2, <3>3
      <4>. HIDE DEF S, x, T
      <4>2. IsFiniteSet(T) /\ Cardinality(T) = Cardinality(S) + 1
        BY ONLY <4>1, FS_AddElement
      <4>. QED
        BY <4>2 DEF S, T
    <3>. QED
      BY <2>1, <2>3, <2>4, <3>4
  <2>5. CASE ~(Carries(b, c) /\ n = sent[c])
    <3>1. \A j \in DOMAIN w.batch : ~(w.batch[j].chain = c /\ w.batch[j].n = n)
      BY <1>3, <1>5, <2>5 DEF Carries
    <3>2. PlacesIn(Out', c, n) = PlacesIn(Out, c, n)
      BY ONLY <2>n, <3>1, OtherPlaces
    <3>. QED
      BY <2>1, <2>2, <2>3, <2>5, <3>2
  <2>. QED
    BY <2>4, <2>5
<1>. QED
  BY <1>8, <1>9, <1>10, <1>11 DEF b

-----------------------------------------------------------------------------
(***************************************************************************)
(* The calls.                                                              *)
(***************************************************************************)

\* No more events are off than before, and no fewer faults.
LEMMA NoMoreOff ==
  ASSUME Counted, faults \in Nat, NEW c \in Chains, NEW S, S \subseteq Off(c), NEW f \in Nat, f >= faults
  PROVE  IsFiniteSet(S) /\ Cardinality(S) <= f
<1>1. IsFiniteSet(Off(c)) /\ Cardinality(Off(c)) <= faults
  BY DEF Counted
<1>2. IsFiniteSet(S) /\ Cardinality(S) <= Cardinality(Off(c))
  BY <1>1, FS_Subset
<1>3. Cardinality(S) \in Nat /\ Cardinality(Off(c)) \in Nat
  BY <1>1, <1>2, FS_CardinalityType
<1>. QED
  BY <1>1, <1>2, <1>3

\* A fault puts one event of a chain off.
LEMMA OneMoreOff ==
  ASSUME Counted, faults \in Nat, NEW c \in Chains, NEW x, NEW S, S \subseteq Off(c) \cup {x}
  PROVE  IsFiniteSet(S) /\ Cardinality(S) <= faults + 1
<1>1. IsFiniteSet(Off(c)) /\ Cardinality(Off(c)) <= faults
  BY DEF Counted
<1>2. /\ IsFiniteSet(Off(c) \cup {x})
      /\ Cardinality(Off(c) \cup {x}) = Cardinality(Off(c)) \/ Cardinality(Off(c) \cup {x}) = Cardinality(Off(c)) + 1
  BY <1>1, FS_AddElement
<1>3. IsFiniteSet(S) /\ Cardinality(S) <= Cardinality(Off(c) \cup {x})
  BY <1>2, FS_Subset
<1>4. Cardinality(S) \in Nat /\ Cardinality(Off(c)) \in Nat /\ Cardinality(Off(c) \cup {x}) \in Nat
  BY <1>1, <1>2, <1>3, FS_CardinalityType
<1>. QED
  BY <1>1, <1>2, <1>3, <1>4

\* What is in a batch is a message.
LEMMA QueueTypes ==
  ASSUME Held, NEW p \in Partitions
  PROVE  /\ queue[p] \in Seq(Seq(Msgs))
         /\ \A i \in DOMAIN queue[p] :
              /\ queue[p][i] \in Seq(Msgs)
              /\ \A j \in DOMAIN queue[p][i] : queue[p][i][j] \in Msgs /\ queue[p][i][j].chain \in Chains
<1>1. queue[p] \in Seq(Seq(Msgs))
  BY DEF Held
<1>2. \A i \in DOMAIN queue[p] : queue[p][i] \in Seq(Msgs)
  BY <1>1
<1>3. \A i \in DOMAIN queue[p] : \A j \in DOMAIN queue[p][i] : queue[p][i][j] \in Msgs
  BY <1>2
<1>. QED
  BY <1>1, <1>2, <1>3 DEF Msgs

\* A step that touches neither the topic nor a batch, and moves calls only between
\* their lookups or to their end.
LEMMA CallKeeps ==
  ASSUME Inv, TypeOK', InTime', UNCHANGED <<stored, wire, queue, sent, handed>>, faults' >= faults,
         \A c \in Chains :
           /\ \/ pc'[c] = pc[c] /\ attempt'[c] = attempt[c]
              \/ pc'[c] = "stopped"
              \/ pc[c] \in {"lookup", "wait"} /\ pc'[c] \in {"lookup", "wait"} /\ attempt'[c] >= 1
           /\ pc'[c] = "wait" => attempt'[c] < autoCreateRetries
  PROVE  Inv'
<1>1. Held'
  BY DEF Inv, Held, Out, Places
<1>2. Called'
  BY DEF Inv, Called
<1>3. Queued'
  <2>1. \A p \in Partitions : \A i \in DOMAIN queue[p] : \A j \in DOMAIN queue[p][i] :
          queue[p][i][j].chain \in Chains
    BY QueueTypes DEF Inv
  <2>. QED
    BY <2>1 DEF Inv, Queued
<1>4. Counted'
  <2>1. ASSUME NEW c \in Chains PROVE Off(c)' \subseteq Off(c)
    <3>1. \A n : Copies(c, n)' = Copies(c, n)
      BY DEF Copies, Places
    <3>2. sent'[c] = sent[c] /\ sent[c] \in Nat
      BY DEF Inv, Held
    <3>3. \/ pc'[c] = pc[c] \/ pc'[c] = "stopped"
          \/ pc[c] \in {"lookup", "wait"} /\ pc'[c] \in {"lookup", "wait"}
      OBVIOUS
    <3>. QED
      BY <3>1, <3>2, <3>3 DEF Off
  <2>2. faults \in Nat /\ faults' \in Nat /\ Counted
    BY DEF Inv, Held, TypeOK
  <2>3. \A c \in Chains : IsFiniteSet(Off(c)') /\ Cardinality(Off(c)') <= faults'
    BY <2>1, <2>2, NoMoreOff
  <2>. QED
    BY <2>2, <2>3 DEF Counted, Out, Single
<1>. QED
  BY <1>1, <1>2, <1>3, <1>4 DEF Inv

\* What a call knows by its stage, in one place.
LEMMA CallTypes ==
  ASSUME Inv
  PROVE  /\ lag \in Nat /\ age \in Nat /\ age <= lag /\ faults \in Nat /\ faults <= MaxFaults
         /\ pc \in [Chains -> Stages] /\ attempt \in [Chains -> 0..autoCreateRetries]
         /\ timer \in [Chains -> 0..1] /\ handed \in [Chains -> Nat] /\ sent \in [Chains -> Nat]
         /\ error \in [Chains -> {"none", "unknown", "batch", "other", "cancelled"}]
         /\ autoCreateRetries = 5 /\ MaxFaults \in Nat
<1>1. lag \in Lags /\ \A x \in Lags : x \in Nat
  BY MessageAssumption DEF Inv, Held, TypeOK
<1>2. lag \in Nat
  BY <1>1
<1>. QED
  BY <1>2, MessageAssumption DEF Inv, Held, TypeOK, autoCreateRetries

\* A fault is one of those counted.
LEMMA FaultBound ==
  ASSUME Inv, NEW call, Fails(call)
  PROVE  faults' = faults + 1 /\ faults' \in 0..MaxFaults
BY CallTypes DEF Fails

\* A lookup that finds no topic asks for it, and waits or gives up; a quick broker
\* is done by then.
LEMMA UnknownInv == ASSUME Inv, NEW c \in Chains, pc[c] = "lookup", Unknown(c) PROVE Inv'
<1>1. /\ topic # "ready" /\ topic' = "creating"
      /\ UNCHANGED <<lag, age, stored, wire, written, queue, bytes, sent, attempt, handed, ctx, faults>>
  BY DEF Unknown, wireVars, writerVars
<1>2. CASE /\ Retries(attempt[c], "unknown") /\ pc' = [pc EXCEPT ![c] = "wait"]
           /\ timer' = [timer EXCEPT ![c] = 1] /\ UNCHANGED error
  <2>1. attempt[c] < autoCreateRetries /\ attempt[c] >= 1
    BY <1>2 DEF Retries, Inv, Called
  <2>2. /\ pc' \in [Chains -> Stages] /\ timer' \in [Chains -> 0..1]
        /\ pc'[c] = "wait" /\ timer'[c] = 1
        /\ \A d \in Chains : d # c => pc'[d] = pc[d] /\ timer'[d] = timer[d]
    BY <1>2, CallTypes DEF Stages
  <2>3. TypeOK'
    BY <1>1, <1>2, <2>2 DEF Inv, Held, TypeOK
  <2>4. InTime'
    <3>1. SUFFICES ASSUME lag < autoCreateRetries - 1, NEW d \in Chains
                   PROVE  /\ error[d] # "unknown"
                          /\ pc'[d] = "lookup" => attempt[d] <= age + 1
                          /\ pc'[d] = "wait" => attempt[d] <= age + timer'[d]
      BY <1>1, <1>2 DEF InTime, autoCreateRetries
    <3>2. topic \in {"absent", "creating"}
      BY <1>1 DEF Inv, Held, TypeOK
    <3>. QED
      BY <1>1, <2>2, <3>1, <3>2, CallTypes DEF Inv, InTime
  <2>5. faults' >= faults
    BY <1>1, CallTypes
  <2>. QED
    BY <1>1, <2>1, <2>2, <2>3, <2>4, <2>5, CallKeeps DEF Inv, Called
<1>3. CASE ~Retries(attempt[c], "unknown") /\ Stops(c, "unknown") /\ UNCHANGED timer
  <2>1. attempt[c] >= 5 /\ attempt[c] \in Nat
    BY <1>3, CallTypes DEF Retries
  <2>2. /\ pc' \in [Chains -> Stages] /\ pc'[c] = "stopped"
        /\ \A d \in Chains : d # c => pc'[d] = pc[d]
        /\ error' \in [Chains -> {"none", "unknown", "batch", "other", "cancelled"}]
    BY <1>3, CallTypes DEF Stages, Stops
  <2>3. TypeOK'
    BY <1>1, <1>3, <2>2 DEF Inv, Held, TypeOK
  <2>4. ~(lag < autoCreateRetries - 1)
    <3>1. topic \in {"absent", "creating"}
      BY <1>1 DEF Inv, Held, TypeOK
    <3>. QED
      BY <2>1, <3>1, CallTypes DEF Inv, InTime
  <2>5. InTime'
    BY <1>1, <2>4 DEF InTime, autoCreateRetries
  <2>6. faults' >= faults
    BY <1>1, CallTypes
  <2>. QED
    BY <1>1, <2>2, <2>3, <2>5, <2>6, CallKeeps DEF Inv, Called
<1>. QED
  BY <1>2, <1>3 DEF Unknown

\* A call that ends for another reason.
LEMMA StopsInv ==
  ASSUME Inv, NEW c \in Chains, NEW err \in {"other", "cancelled"}, Stops(c, err),
         UNCHANGED <<lag, topic, age, stored, wire, written, queue, bytes, sent, attempt, timer, handed, ctx>>,
         faults' \in faults..MaxFaults
  PROVE  Inv'
<1>1. /\ pc' \in [Chains -> Stages] /\ pc'[c] = "stopped"
      /\ \A d \in Chains : d # c => pc'[d] = pc[d] /\ error'[d] = error[d]
      /\ error' \in [Chains -> {"none", "unknown", "batch", "other", "cancelled"}]
      /\ error'[c] # "unknown"
  BY CallTypes DEF Stages, Stops
<1>2. faults' \in 0..MaxFaults /\ faults' >= faults
  BY CallTypes
<1>3. TypeOK'
  BY <1>1, <1>2 DEF Inv, Held, TypeOK
<1>4. InTime'
  BY <1>1 DEF Inv, InTime, autoCreateRetries
<1>. QED
  BY <1>1, <1>2, <1>3, <1>4, CallKeeps DEF Inv, Called

\* The wait is over, and the next attempt is counted.
LEMMA AgainInv == ASSUME Inv, NEW c \in Chains, Again(c) PROVE Inv'
<1>1. /\ pc[c] = "wait" /\ timer[c] = 0 /\ faults' >= faults
      /\ UNCHANGED <<lag, topic, age, stored, wire, written, queue, bytes, sent, timer, handed, error, ctx, faults>>
  BY CallTypes DEF Again, brokerVars, wireVars, writerVars
<1>2. attempt[c] \in Nat /\ attempt[c] >= 1 /\ attempt[c] < 5
  BY <1>1, CallTypes DEF Inv, Called
<1>3. /\ pc' \in [Chains -> Stages] /\ pc'[c] = "lookup"
      /\ attempt' \in [Chains -> 0..autoCreateRetries] /\ attempt'[c] = attempt[c] + 1
      /\ \A d \in Chains : d # c => pc'[d] = pc[d] /\ attempt'[d] = attempt[d]
  <2>1. attempt[c] + 1 \in 0..autoCreateRetries
    BY <1>2, CallTypes
  <2>. QED
    BY <2>1, CallTypes DEF Again, Stages
<1>4. TypeOK'
  BY <1>1, <1>3 DEF Inv, Held, TypeOK
<1>5. InTime'
  <2>1. topic # "absent" \/ ~(lag < autoCreateRetries - 1)
    BY <1>1 DEF Inv, InTime
  <2>. QED
    BY <1>1, <1>2, <1>3, <2>1, CallTypes DEF Inv, InTime
<1>. QED
  BY <1>1, <1>2, <1>3, <1>4, <1>5, CallKeeps DEF Inv, Called

\* A tick is one for the broker too.
LEMMA TickInv == ASSUME Inv, Tick PROVE Inv'
<1>1. /\ UNCHANGED <<lag, topic, stored, wire, written, queue, bytes, pc, sent, attempt, handed, error, ctx, faults>>
      /\ timer' = [d \in Chains |-> 0] /\ faults' >= faults
      /\ topic = "creating" => age < lag \/ lag = Never
      /\ age' = IF topic = "creating" /\ age < lag THEN age + 1 ELSE age
  BY CallTypes DEF Tick, wireVars, writerVars
<1>2. age' \in 0..lag /\ age' >= age /\ timer' \in [Chains -> 0..1]
  BY <1>1, CallTypes
<1>3. TypeOK'
  BY <1>1, <1>2 DEF Inv, Held, TypeOK
<1>4. InTime'
  <2>1. SUFFICES ASSUME lag < autoCreateRetries - 1, topic = "creating", NEW d \in Chains
                 PROVE  /\ pc[d] = "lookup" => attempt[d] <= age' + 1
                        /\ pc[d] = "wait" => attempt[d] <= age' + timer'[d]
    BY <1>1 DEF Inv, InTime, autoCreateRetries
  <2>2. age' = age + 1 /\ timer'[d] = 0
    BY <1>1, <2>1, MessageAssumption, CallTypes
  <2>3. timer[d] \in 0..1 /\ attempt[d] \in Nat
    BY CallTypes
  <2>. QED
    BY <2>1, <2>2, <2>3, CallTypes DEF Inv, InTime
<1>. QED
  BY <1>1, <1>3, <1>4, CallKeeps DEF Inv, Called

\* The topic is there, or the context is cancelled, or nothing happens.
LEMMA OutsideInv ==
  ASSUME Inv, UNCHANGED <<lag, age, stored, wire, written, queue, bytes, pc, sent, attempt, timer, handed, error, faults>>,
         topic' \in {topic, "ready"}
  PROVE  Inv'
<1>1. faults' >= faults
  BY CallTypes
<1>2. TypeOK'
  BY DEF Inv, Held, TypeOK
<1>3. InTime'
  BY DEF Inv, InTime, autoCreateRetries
<1>. QED
  BY <1>1, <1>2, <1>3, CallKeeps DEF Inv, Called

\* What is in a batch is what its chain's call is about.
LEMMA QueuedCalls ==
  ASSUME Inv, NEW p \in Partitions, NEW i \in DOMAIN queue[p], NEW j \in DOMAIN queue[p][i]
  PROVE  /\ queue[p][i][j].chain \in Chains
         /\ queue[p][i][j].n = sent[queue[p][i][j].chain]
         /\ pc[queue[p][i][j].chain] \in {"batched", "stopped"}
<1>1. queue[p][i][j].chain \in Chains
  BY QueueTypes DEF Inv
<1>. QED
  BY <1>1 DEF Inv, Queued

\* A call begins: no batch and no partition has its event.
LEMMA CallInv == ASSUME Inv, NEW c \in Chains, Call(c) PROVE Inv'
<1>1. /\ pc[c] = "idle" /\ sent[c] < Len(Messages[c])
      /\ UNCHANGED <<lag, topic, age, stored, wire, written, queue, bytes, timer, error, ctx, faults>>
  BY DEF Call, brokerVars, wireVars, writerVars
<1>2. sent[c] \in Nat /\ Len(Messages[c]) \in Nat /\ autoCreateRetries = 5
  BY MessageAssumption, CallTypes
<1>3. /\ sent' \in [Chains -> Nat] /\ sent'[c] = sent[c] + 1
      /\ pc' \in [Chains -> Stages] /\ pc'[c] = "lookup"
      /\ attempt' \in [Chains -> 0..autoCreateRetries] /\ attempt'[c] = 1
      /\ handed' \in [Chains -> Nat] /\ handed'[c] = 0
      /\ \A d \in Chains : d # c => /\ sent'[d] = sent[d] /\ pc'[d] = pc[d]
                                    /\ attempt'[d] = attempt[d] /\ handed'[d] = handed[d]
  BY <1>2, CallTypes DEF Call, Stages
<1>4. Held'
  <2>1. \A d \in Chains : sent'[d] \in 0..Len(Messages[d])
    BY <1>1, <1>2, <1>3 DEF Inv, Held, TypeOK
  <2>2. TypeOK'
    BY <1>1, <1>3, <2>1 DEF Inv, Held, TypeOK
  <2>. QED
    BY <1>1, <1>3, <2>2 DEF Inv, Held, Out, Places
<1>5. Called'
  <2>1. ASSUME NEW d \in Chains
        PROVE  /\ handed'[d] <= 1
               /\ pc'[d] \in {"lookup", "wait"} => handed'[d] = 0
               /\ pc'[d] \in {"lookup", "wait", "batched"} => sent'[d] >= 1 /\ attempt'[d] >= 1
               /\ pc'[d] = "wait" => attempt'[d] < autoCreateRetries
    <3>1. CASE d = c
      BY <1>2, <1>3, <3>1
    <3>2. CASE d # c
      BY <1>3, <3>2 DEF Inv, Called
    <3>. QED
      BY <3>1, <3>2
  <2>. QED
    BY <2>1 DEF Called, autoCreateRetries
<1>6. Queued'
  <2>1. ASSUME NEW p \in Partitions, NEW i \in DOMAIN queue[p], NEW j \in DOMAIN queue[p][i]
        PROVE  queue[p][i][j].chain \in Chains /\ queue[p][i][j].chain # c
    BY <1>1, QueuedCalls
  <2>2. \A p \in Partitions : \A i \in DOMAIN queue[p] : \A j \in DOMAIN queue[p][i] :
          /\ queue[p][i][j].n = sent'[queue[p][i][j].chain]
          /\ pc'[queue[p][i][j].chain] \in {"batched", "stopped"}
    BY <1>3, <2>1, QueuedCalls
  <2>. QED
    BY <1>1, <2>2 DEF Inv, Queued
<1>7. Counted'
  <2>1. \A w \in Out : \A j \in DOMAIN w.batch :
          /\ w.batch[j].chain \in Chains /\ w.batch[j].n \in Nat
          /\ w.batch[j].n <= sent[w.batch[j].chain]
    <3>1. \A w \in Out : w.batch \in Seq(Msgs)
      BY DEF Inv, Held, Writes
    <3>2. \A w \in Out : \A j \in DOMAIN w.batch : w.batch[j] \in Msgs
      BY <3>1
    <3>. QED
      BY <3>2 DEF Inv, Counted, Single, Msgs
  <2>2. \A w \in Out' : Single(w)'
    <3>1. \A d \in Chains : sent[d] \in Nat /\ sent'[d] \in Nat /\ sent'[d] >= sent[d]
      BY <1>2, <1>3, CallTypes
    <3>2. \A w \in Out : \A j \in DOMAIN w.batch : w.batch[j].n <= sent'[w.batch[j].chain]
      BY <2>1, <3>1
    <3>3. Out' = Out
      BY <1>1 DEF Out
    <3>. QED
      BY <3>2, <3>3 DEF Inv, Counted, Single
  <2>3. Copies(c, sent[c] + 1) = 0
    <3>1. \A x : x \notin PlacesIn(Out, c, sent[c] + 1)
      BY <1>2, <2>1, PlacesIs
    <3>2. Places(c, sent[c] + 1) = {}
      BY <3>1 DEF Places, PlacesIn, Out
    <3>. QED
      BY <3>2, FS_EmptySet DEF Copies
  <2>4. \A d \in Chains : \A n : Copies(d, n)' = Copies(d, n)
    BY <1>1 DEF Copies, Places
  <2>5. Off(c)' \subseteq Off(c)
    <3>1. ASSUME NEW n \in Off(c)' PROVE n \in Off(c)
      <4>1. n \in 1..(sent[c] + 1) /\ n \in Nat
        BY <1>2, <1>3 DEF Off
      <4>2. n # sent[c] + 1
        BY <1>1, <1>2, <1>3, <2>3, <2>4 DEF Off
      <4>3. n \in 1..sent[c] /\ Copies(c, n) # 1
        BY <1>2, <1>3, <2>4, <4>1, <4>2 DEF Off
      <4>. QED
        BY <1>1, <4>3 DEF Off
    <3>. QED
      BY <3>1
  <2>6. \A d \in Chains : d # c => Off(d)' \subseteq Off(d)
    BY <1>3, <2>4 DEF Off
  <2>7. \A d \in Chains : Off(d)' \subseteq Off(d)
    BY <2>5, <2>6
  <2>8. faults \in Nat /\ faults' = faults /\ faults' >= faults /\ Counted
    BY <1>1, CallTypes DEF Inv
  <2>9. \A d \in Chains : IsFiniteSet(Off(d)') /\ Cardinality(Off(d)') <= faults'
    BY <2>7, <2>8, NoMoreOff
  <2>. QED
    BY <2>2, <2>9 DEF Counted
<1>8. InTime'
  <2>1. age \in Nat /\ 1 <= age + 1
    BY CallTypes
  <2>2. pc'[c] = "lookup" /\ attempt'[c] <= 1 /\ attempt'[c] <= age + 1
    BY <1>3, <2>1
  <2>3. \A d \in Chains : d = c \/ (pc'[d] = pc[d] /\ attempt'[d] = attempt[d])
    BY <1>3
  <2>. QED
    BY <1>1, <1>3, <2>1, <2>2, <2>3 DEF Inv, InTime, autoCreateRetries
<1>. QED
  BY <1>4, <1>5, <1>6, <1>7, <1>8 DEF Inv

\* The message goes into a batch, for the first time.
LEMMA HandInv == ASSUME Inv, NEW c \in Chains, pc[c] = "lookup", Hand(c) PROVE Inv'
<1>1. /\ topic = "ready"
      /\ UNCHANGED <<lag, topic, age, stored, wire, written, sent, attempt, timer, error, ctx, faults>>
  BY DEF Hand, brokerVars, wireVars
<1>2. PICK p \in Partitions :
        /\ bytes' = [bytes EXCEPT ![p] = @ + Messages[c][sent[c]].bytes]
        /\ \E batches \in Batched(queue[p], Message(c)) : queue' = [queue EXCEPT ![p] = batches]
  BY DEF Hand
<1>3. PICK bs \in Batched(queue[p], Message(c)) : queue' = [queue EXCEPT ![p] = bs]
  BY <1>2
<1> DEFINE m == Message(c)
<1>4. m \in Msgs /\ m.chain = c /\ m.n = sent[c] /\ Messages[c][sent[c]].bytes \in Nat
  <2>1. sent[c] \in 1..Len(Messages[c]) /\ sent[c] \in Nat
    BY CallTypes DEF Inv, Called, Held, TypeOK
  <2>2. Messages[c][sent[c]] \in [key : STRING, bytes : Nat]
    <3>1. Messages[c] \in Seq([key : STRING, bytes : Nat])
      BY MessageAssumption
    <3>. QED
      BY <2>1, <3>1, EntryIs
  <2>. QED
    BY <2>1, <2>2 DEF Message, Msgs
<1>. HIDE DEF m
<1>5. /\ bs \in Seq(Seq(Msgs)) /\ Full(bs)
      /\ \E I \in DOMAIN bs : \E J \in DOMAIN bs[I] :
           /\ bs[I][J] = m
           /\ \A i \in DOMAIN bs : \A j \in DOMAIN bs[i] :
                \/ i = I /\ j = J
                \/ i \in DOMAIN queue[p] /\ j \in DOMAIN queue[p][i] /\ bs[i][j] = queue[p][i][j]
  <2>1. queue[p] \in Seq(Seq(Msgs)) /\ Full(queue[p])
    BY QueueTypes DEF Inv, Held, TypeOK, Full
  <2>2. bs \in Batched(queue[p], m)
    BY DEF m
  <2>. QED
    BY ONLY <1>4, <2>1, <2>2, BatchedIs
<1>6. PICK I \in DOMAIN bs : \E J \in DOMAIN bs[I] :
        /\ bs[I][J] = m
        /\ \A i \in DOMAIN bs : \A j \in DOMAIN bs[i] :
             \/ i = I /\ j = J
             \/ i \in DOMAIN queue[p] /\ j \in DOMAIN queue[p][i] /\ bs[i][j] = queue[p][i][j]
  BY <1>5
<1>7. PICK J \in DOMAIN bs[I] :
        /\ bs[I][J] = m
        /\ \A i \in DOMAIN bs : \A j \in DOMAIN bs[i] :
             \/ i = I /\ j = J
             \/ i \in DOMAIN queue[p] /\ j \in DOMAIN queue[p][i] /\ bs[i][j] = queue[p][i][j]
  BY <1>6
<1>8. queue' \in [Partitions -> Seq(Seq(Msgs))] /\ queue'[p] = bs /\ \A q \in Partitions : q # p => queue'[q] = queue[q]
  BY <1>3, <1>5 DEF Inv, Held
<1>9. /\ pc' \in [Chains -> Stages] /\ pc'[c] = "batched"
      /\ handed' \in [Chains -> Nat] /\ handed'[c] = 1
      /\ \A d \in Chains : d # c => pc'[d] = pc[d] /\ handed'[d] = handed[d]
  <2>1. handed[c] = 0
    BY DEF Inv, Called
  <2>. QED
    BY <2>1, CallTypes DEF Hand, Waiting, Stages
<1>10. Held'
  <2>1. bytes' \in [Partitions -> Nat]
    <3>1. bytes \in [Partitions -> Nat]
      BY DEF Inv, Held, TypeOK
    <3>. QED
      BY ONLY <1>2, <1>4, <3>1 DEF Msgs
  <2>2. \A q \in Partitions : \A i \in DOMAIN queue'[q] : queue'[q][i] # <<>>
    <3>1. \A q \in Partitions : Full(queue[q])
      BY DEF Inv, Held, TypeOK, Full
    <3>2. \A q \in Partitions : Full(queue'[q])
      BY <1>5, <1>8, <3>1
    <3>. QED
      BY <3>2 DEF Full
  <2>3. TypeOK'
    BY <1>1, <1>9, <2>1, <2>2 DEF Inv, Held, TypeOK
  <2>. QED
    BY <1>1, <1>8, <2>3 DEF Inv, Held, Out, Places
<1>11. Called'
  BY <1>1, <1>9 DEF Inv, Called
<1>12. ASSUME NEW q \in Partitions, NEW i \in DOMAIN queue'[q], NEW j \in DOMAIN queue'[q][i]
       PROVE  \/ q = p /\ i = I /\ j = J /\ queue'[q][i][j] = m
              \/ /\ i \in DOMAIN queue[q] /\ j \in DOMAIN queue[q][i] /\ queue'[q][i][j] = queue[q][i][j]
                 /\ queue[q][i][j].chain \in Chains /\ queue[q][i][j].chain # c
  <2>1. \/ q = p /\ i = I /\ j = J /\ queue'[q][i][j] = m
        \/ i \in DOMAIN queue[q] /\ j \in DOMAIN queue[q][i] /\ queue'[q][i][j] = queue[q][i][j]
    BY <1>7, <1>8
  <2>. QED
    BY <2>1, QueuedCalls
<1>13. Queued'
  <2>1. ASSUME NEW q \in Partitions, NEW i \in DOMAIN queue'[q], NEW j \in DOMAIN queue'[q][i]
        PROVE  /\ queue'[q][i][j].n = sent'[queue'[q][i][j].chain]
               /\ pc'[queue'[q][i][j].chain] \in {"batched", "stopped"}
    BY <1>1, <1>4, <1>9, <1>12 DEF Inv, Queued
  <2>2. ASSUME NEW q \in Partitions, NEW i \in DOMAIN queue'[q], NEW j \in DOMAIN queue'[q][i],
               NEW r \in Partitions, NEW k \in DOMAIN queue'[r], NEW l \in DOMAIN queue'[r][k],
               queue'[q][i][j].chain = queue'[r][k][l].chain
        PROVE  q = r /\ i = k /\ j = l
    <3>1. \/ q = p /\ i = I /\ j = J /\ queue'[q][i][j] = m
          \/ /\ i \in DOMAIN queue[q] /\ j \in DOMAIN queue[q][i] /\ queue'[q][i][j] = queue[q][i][j]
             /\ queue[q][i][j].chain # c
      BY <1>12
    <3>2. \/ r = p /\ k = I /\ l = J /\ queue'[r][k][l] = m
          \/ /\ k \in DOMAIN queue[r] /\ l \in DOMAIN queue[r][k] /\ queue'[r][k][l] = queue[r][k][l]
             /\ queue[r][k][l].chain # c
      BY <1>12
    <3>. QED
      BY <1>4, <2>2, <3>1, <3>2 DEF Inv, Queued
  <2>. QED
    BY <2>1, <2>2 DEF Queued
<1>14. Counted'
  <2>1. \A d \in Chains : \A n : Copies(d, n)' = Copies(d, n)
    BY <1>1 DEF Copies, Places
  <2>2. \A d \in Chains : Off(d)' \subseteq Off(d)
    BY <1>1, <1>9, <2>1 DEF Off
  <2>3. faults \in Nat /\ faults' = faults /\ faults' >= faults /\ Counted
    BY <1>1, CallTypes DEF Inv
  <2>4. \A d \in Chains : IsFiniteSet(Off(d)') /\ Cardinality(Off(d)') <= faults'
    BY <2>2, <2>3, NoMoreOff
  <2>. QED
    BY <1>1, <2>3, <2>4 DEF Counted, Out, Single
<1>15. InTime'
  BY <1>1 DEF Inv, InTime, autoCreateRetries
<1>. QED
  BY <1>10, <1>11, <1>13, <1>14, <1>15 DEF Inv

-----------------------------------------------------------------------------
(***************************************************************************)
(* The writer.                                                             *)
(***************************************************************************)

\* The calls that wait for the first batch are those it carries a message of, and
\* that have not been abandoned.
LEMMA WaitersAre ==
  ASSUME Inv, NEW p \in Partitions, queue[p] # <<>>
  PROVE  /\ Waiters(Head(queue[p])) = {c \in Chains : pc[c] = "batched" /\ Carries(Head(queue[p]), c)}
         /\ \A c \in Chains : Carries(Head(queue[p]), c) => pc[c] \in {"batched", "stopped"}
<1> DEFINE b == Head(queue[p])
<1>1. 1 \in DOMAIN queue[p] /\ b = queue[p][1]
  BY QueueTypes, TailIs DEF Inv
<1>2. \A j \in DOMAIN b : b[j].n = sent[b[j].chain] /\ pc[b[j].chain] \in {"batched", "stopped"}
  BY <1>1, QueuedCalls
<1>. HIDE DEF b
<1>3. Waiters(b) = {c \in Chains : pc[c] = "batched" /\ Carries(b, c)}
  BY <1>2 DEF Waiters, Carries
<1>4. \A c \in Chains : Carries(b, c) => pc[c] \in {"batched", "stopped"}
  BY <1>2 DEF Carries
<1>. QED
  BY <1>3, <1>4 DEF b

\* The batch is taken out of the queue: what is left is of other chains.
LEMMA DropQueued ==
  ASSUME Inv, NEW p \in Partitions, queue[p] # <<>>, queue' = [queue EXCEPT ![p] = Tail(@)],
         UNCHANGED sent,
         \A c \in Chains : Carries(Head(queue[p]), c) \/ pc'[c] = pc[c]
  PROVE  /\ queue' \in [Partitions -> Seq(Seq(Msgs))] /\ \A q \in Partitions : Full(queue'[q])
         /\ Queued'
<1> DEFINE T == Tail(queue[p])
           K(q, i) == IF q = p THEN i + 1 ELSE i
<1>1. /\ 1 \in DOMAIN queue[p] /\ Head(queue[p]) = queue[p][1]
      /\ T \in Seq(Seq(Msgs))
      /\ \A i \in DOMAIN T : i \in Nat /\ i >= 1 /\ i + 1 \in DOMAIN queue[p] /\ T[i] = queue[p][i + 1]
  BY QueueTypes, TailIs DEF Inv
<1>2. /\ queue \in [Partitions -> Seq(Seq(Msgs))] /\ \A q \in Partitions : Full(queue[q])
      /\ queue' = [queue EXCEPT ![p] = T]
  BY DEF Inv, Held, TypeOK, Full
<1>. HIDE DEF T
<1>3. /\ queue' \in [Partitions -> Seq(Seq(Msgs))] /\ queue'[p] = T
      /\ \A q \in Partitions : q # p => queue'[q] = queue[q]
  BY <1>1, <1>2
<1>4. \A q \in Partitions : Full(queue'[q])
  <2>1. Full(T)
    BY <1>1, <1>2 DEF Full
  <2>. QED
    BY <1>2, <1>3, <2>1
<1>5. ASSUME NEW q \in Partitions, NEW i \in DOMAIN queue'[q]
      PROVE  /\ K(q, i) \in DOMAIN queue[q] /\ queue'[q][i] = queue[q][K(q, i)]
             /\ ~(q = p /\ K(q, i) = 1)
             /\ \A k \in DOMAIN queue'[q] : K(q, i) = K(q, k) => i = k
  BY <1>1, <1>3
<1>. HIDE DEF K
<1>6. ASSUME NEW q \in Partitions, NEW i \in DOMAIN queue'[q], NEW j \in DOMAIN queue'[q][i]
      PROVE  LET c == queue'[q][i][j].chain
             IN  queue'[q][i][j].n = sent'[c] /\ pc'[c] \in {"batched", "stopped"}
  <2>1. /\ K(q, i) \in DOMAIN queue[q] /\ j \in DOMAIN queue[q][K(q, i)]
        /\ queue'[q][i][j] = queue[q][K(q, i)][j] /\ ~(q = p /\ K(q, i) = 1)
    BY <1>5
  <2> DEFINE c == queue[q][K(q, i)][j].chain
  <2>2. c \in Chains /\ queue[q][K(q, i)][j].n = sent[c] /\ pc[c] \in {"batched", "stopped"}
    BY <2>1, QueuedCalls
  <2>3. ~Carries(Head(queue[p]), c)
    BY <1>1, <2>1 DEF Carries, Inv, Queued
  <2>. HIDE DEF c
  <2>4. pc'[c] = pc[c]
    BY <2>2, <2>3
  <2>. QED
    BY <2>1, <2>2, <2>4 DEF c
<1>7. ASSUME NEW q \in Partitions, NEW i \in DOMAIN queue'[q], NEW j \in DOMAIN queue'[q][i],
             NEW r \in Partitions, NEW k \in DOMAIN queue'[r], NEW l \in DOMAIN queue'[r][k],
             queue'[q][i][j].chain = queue'[r][k][l].chain
      PROVE  q = r /\ i = k /\ j = l
  <2>1. /\ K(q, i) \in DOMAIN queue[q] /\ queue'[q][i] = queue[q][K(q, i)]
        /\ K(r, k) \in DOMAIN queue[r] /\ queue'[r][k] = queue[r][K(r, k)]
    BY <1>5
  <2>2. q = r /\ K(q, i) = K(r, k) /\ j = l
    BY <1>7, <2>1 DEF Inv, Queued
  <2>. QED
    BY <1>5, <2>2
<1>. QED
  BY <1>3, <1>4, <1>6, <1>7 DEF Queued

\* What sending a batch does to the count: nothing for the events before the one a
\* chain is at.
LEMMA SendOff ==
  ASSUME Inv, NEW c \in Chains, UNCHANGED sent,
         \A n : n # sent[c] => Copies(c, n)' = Copies(c, n)
  PROVE  Off(c)' \subseteq Off(c) \cup {sent[c]}
<1>1. sent'[c] = sent[c] /\ sent[c] \in Nat
  BY CallTypes
<1>2. ASSUME NEW n \in Off(c)', n # sent[c] PROVE n \in Off(c)
  <2>1. n \in 1..sent[c] /\ n < sent[c] /\ Copies(c, n)' # 1
    BY <1>1, <1>2 DEF Off
  <2>. QED
    BY <1>2, <2>1 DEF Off
<1>. QED
  BY <1>2

\* A batch goes out: it may arrive or not, and its calls end well, end with an
\* error, or go on waiting.
LEMMA SendKeeps ==
  ASSUME Inv, NEW p \in Partitions, queue[p] # <<>>,
         UNCHANGED <<lag, topic, age, bytes, sent, attempt, timer, handed>>,
         UNCHANGED stored, Written(p) \/ UNCHANGED <<wire, written>>,
         queue' \in [Partitions -> Seq(Seq(Msgs))], \A q \in Partitions : Full(queue'[q]), Queued',
         faults' \in 0..MaxFaults,
         pc' \in [Chains -> Stages],
         \A c \in Chains : pc'[c] = pc[c] \/ (Carries(Head(queue[p]), c) /\ pc'[c] \in {"idle", "stopped"}),
         error' \in [Chains -> {"none", "unknown", "batch", "other", "cancelled"}],
         \A c \in Chains : error'[c] \in {error[c], "batch"},
         \/ faults' = faults + 1
         \/ faults' = faults /\ \A c \in Chains : Off(c)' \subseteq Off(c)
  PROVE  Inv'
<1>1. /\ written' \in [Partitions -> Nat]
      /\ Out' \subseteq Writes
      /\ \A w \in Out' : w.k \in 0..(written'[w.p] - 1) /\ w.batch # <<>>
      /\ \A w \in Out' : Single(w)'
      /\ \A c \in Chains : \A n :
           IsFiniteSet(Places(c, n)') /\ (n # sent[c] => Copies(c, n)' = Copies(c, n))
  <2>1. CASE UNCHANGED <<wire, written>>
    <3>1. Out' = Out /\ \A c \in Chains : \A n : Places(c, n)' = Places(c, n)
      BY <2>1 DEF Out, Places
    <3>2. \A c \in Chains : \A n : Copies(c, n)' = Copies(c, n)
      BY <3>1 DEF Copies
    <3>3. /\ written \in [Partitions -> Nat] /\ Out \subseteq Writes
          /\ \A w \in Out : w.k \in 0..(written[w.p] - 1) /\ w.batch # <<>>
          /\ \A c \in Chains : \A n : IsFiniteSet(Places(c, n))
      BY DEF Inv, Held, TypeOK, Out
    <3>4. \A w \in Out : Single(w)'
      BY DEF Inv, Counted, Single
    <3>. QED
      BY <2>1, <3>1, <3>2, <3>3, <3>4
  <2>2. CASE Written(p)
    BY <2>2, WrittenCopies DEF Inv, Counted
  <2>. QED
    BY <2>1, <2>2
<1>2. Held'
  <2>1. \A q \in Partitions : \A i \in DOMAIN queue'[q] : queue'[q][i] # <<>>
    BY DEF Full
  <2>2. \A w \in Out' : w.p \in Partitions /\ w.k \in 0..(written'[w.p] - 1) /\ w.batch # <<>>
    BY <1>1 DEF Writes
  <2>3. TypeOK'
    BY <1>1, <2>1, <2>2 DEF Inv, Held, TypeOK, Out
  <2>. QED
    BY <1>1, <2>3 DEF Inv, Held
<1>3. Called'
  BY DEF Inv, Called, autoCreateRetries
<1>4. Counted'
  <2>0. faults \in Nat /\ faults' \in Nat /\ Counted
    BY CallTypes DEF Inv
  <2>1. \A c \in Chains : Off(c)' \subseteq Off(c) \cup {sent[c]}
    BY <1>1, SendOff
  <2>2. ASSUME NEW c \in Chains PROVE IsFiniteSet(Off(c)') /\ Cardinality(Off(c)') <= faults'
    <3>1. CASE faults' = faults + 1
      BY <2>0, <2>1, <3>1, OneMoreOff
    <3>2. CASE faults' = faults /\ Off(c)' \subseteq Off(c)
      <4>1. faults' >= faults
        BY <2>0, <3>2
      <4>. QED
        BY <2>0, <3>2, <4>1, NoMoreOff
    <3>. QED
      BY <3>1, <3>2
  <2>. QED
    BY <1>1, <2>2 DEF Counted
<1>5. InTime'
  BY DEF Inv, InTime, autoCreateRetries
<1>. QED
  BY <1>2, <1>3, <1>4, <1>5 DEF Inv

\* Every outcome of a batch keeps the invariant.
LEMMA SendInv == ASSUME Inv, NEW p \in Partitions, Send(p) PROVE Inv'
<1> DEFINE b == Head(queue[p])
           W == Waiters(b)
<1>1. queue[p] # <<>> /\ UNCHANGED <<lag, topic, age, stored, bytes, sent, attempt, handed, ctx>>
  BY DEF Send, brokerVars
<1>2. /\ W = {c \in Chains : pc[c] = "batched" /\ Carries(b, c)}
      /\ \A c \in Chains : Carries(b, c) => pc[c] \in {"batched", "stopped"}
  BY <1>1, WaitersAre
<1>3. /\ pc \in [Chains -> Stages] /\ faults \in Nat /\ faults \in 0..MaxFaults
      /\ error \in [Chains -> {"none", "unknown", "batch", "other", "cancelled"}]
      /\ queue \in [Partitions -> Seq(Seq(Msgs))] /\ \A q \in Partitions : Full(queue[q])
  BY CallTypes DEF Inv, Held, TypeOK, Full
<1>. HIDE DEF W, b
<1>4. CASE Done(p) /\ Written(p) /\ UNCHANGED faults
  <2>1. /\ pc' = [c \in Chains |-> IF c \in W THEN "idle" ELSE pc[c]]
        /\ queue' = [queue EXCEPT ![p] = Tail(@)] /\ UNCHANGED <<timer, error>>
    BY <1>4 DEF Done, W, b
  <2>2. /\ pc' \in [Chains -> Stages]
        /\ \A c \in Chains : pc'[c] = pc[c] \/ (Carries(b, c) /\ pc'[c] \in {"idle", "stopped"})
        /\ \A c \in Chains : Carries(b, c) \/ pc'[c] = pc[c]
    BY <1>2, <1>3, <2>1 DEF Stages
  <2>3. /\ queue' \in [Partitions -> Seq(Seq(Msgs))] /\ \A q \in Partitions : Full(queue'[q])
        /\ Queued'
    BY <1>1, <2>1, <2>2, DropQueued DEF b
  <2>5. Inv'
    <3>1. \A c \in Chains : \A n :
            /\ Carries(b, c) /\ n = sent[c] => Copies(c, n)' = Copies(c, n) + 1
            /\ ~(Carries(b, c) /\ n = sent[c]) => Copies(c, n)' = Copies(c, n)
      BY <1>1, <1>4, WrittenCopies DEF Inv, b
    <3>2. ASSUME NEW c \in Chains PROVE Off(c)' \subseteq Off(c)
      <4>1. sent'[c] = sent[c] /\ sent[c] \in Nat
        BY <1>1, CallTypes
      <4>2. CASE ~Carries(b, c)
        BY <2>2, <3>1, <4>1, <4>2 DEF Off
      <4>3. CASE Carries(b, c)
        <5>0. Copies(c, sent[c]) \in Nat
          BY FS_CardinalityType DEF Inv, Held, Copies
        <5>1. \/ pc[c] = "batched" /\ pc'[c] = "idle"
              \/ pc[c] = "stopped" /\ pc'[c] = "stopped"
          BY <1>2, <2>1, <4>3
        <5>2. \A n \in 1..sent[c] : n # sent[c] => Copies(c, n)' = Copies(c, n)
          BY <3>1
        <5>3. Copies(c, sent[c])' = Copies(c, sent[c]) + 1
          <6>1. \A n : n = sent[c] => Copies(c, n)' = Copies(c, n) + 1
            BY <3>1, <4>3
          <6>. QED
            BY <1>1, <6>1 DEF Copies, Places
        <5>4. ASSUME NEW n \in Off(c)' PROVE n \in Off(c)
          <6>1. n \in 1..sent[c] /\ (n = sent[c] \/ n < sent[c])
            BY <4>1 DEF Off
          <6>2. CASE n < sent[c]
            BY <4>1, <5>2, <6>1, <6>2 DEF Off
          <6>3. CASE n = sent[c]
            <7>1. pc[c] = "batched" /\ pc'[c] = "idle" /\ Copies(c, n)' # 1
              BY <4>1, <5>1, <6>3 DEF Off
            <7>2. Copies(c, n) # 0
              BY <3>1, <4>3, <5>0, <6>3, <7>1
            <7>. QED
              BY <6>1, <6>3, <7>1, <7>2 DEF Off
          <6>. QED
            BY <6>1, <6>2, <6>3
        <5>. QED
          BY <5>4
      <4>. QED
        BY <4>2, <4>3
    <3>. QED
      BY <1>1, <1>3, <1>4, <2>1, <2>2, <2>3, <3>2, SendKeeps DEF b
  <2>. QED
    BY <2>5
<1>5. CASE /\ Fails("resend") /\ UNCHANGED <<queue, pc, timer, error>>
           /\ Written(p) \/ UNCHANGED <<wire, written>>
  <2>1. Queued'
    BY <1>1, <1>5 DEF Inv, Queued
  <2>. QED
    BY <1>1, <1>3, <1>5, <2>1, FaultBound, SendKeeps
<1>6. CASE Fails("send") /\ (Written(p) \/ UNCHANGED <<wire, written>>) /\ GivenUp(p)
  <2>0. \A a : ~Retries(a, "batch")
    BY DEF Retries
  <2>1. /\ pc' = [c \in Chains |-> IF c \in W THEN "stopped" ELSE pc[c]]
        /\ queue' = [queue EXCEPT ![p] = Tail(@)]
        /\ timer' = [c \in Chains |-> timer[c]]
        /\ error' = [c \in Chains |-> IF c \in W THEN "batch" ELSE error[c]]
    BY <1>6, <2>0 DEF GivenUp, W, b
  <2>2. UNCHANGED timer
    BY <2>1, CallTypes
  <2>3. /\ pc' \in [Chains -> Stages]
        /\ \A c \in Chains : pc'[c] = pc[c] \/ (Carries(b, c) /\ pc'[c] \in {"idle", "stopped"})
        /\ \A c \in Chains : Carries(b, c) \/ pc'[c] = pc[c]
        /\ error' \in [Chains -> {"none", "unknown", "batch", "other", "cancelled"}]
        /\ \A c \in Chains : error'[c] \in {error[c], "batch"}
    BY <1>2, <1>3, <2>1 DEF Stages
  <2>4. /\ queue' \in [Partitions -> Seq(Seq(Msgs))] /\ \A q \in Partitions : Full(queue'[q])
        /\ Queued'
    BY <1>1, <2>1, <2>3, DropQueued DEF b
  <2>. QED
    BY <1>1, <1>3, <1>6, <2>2, <2>3, <2>4, FaultBound, SendKeeps DEF b
<1>7. \/ Done(p) /\ Written(p) /\ UNCHANGED faults
      \/ /\ Fails("resend") /\ UNCHANGED <<queue, pc, timer, error>>
         /\ Written(p) \/ UNCHANGED <<wire, written>>
      \/ Fails("send") /\ (Written(p) \/ UNCHANGED <<wire, written>>) /\ GivenUp(p)
  BY DEF Send, wireVars
<1>. QED
  BY <1>4, <1>5, <1>6, <1>7

\* What is out does not change when a batch is read from the wire and stored.
LEMMA ArriveInv == ASSUME Inv, Arrive PROVE Inv'
<1>1. /\ Out' = Out /\ UNCHANGED written
      /\ UNCHANGED <<lag, topic, age, queue, bytes, pc, sent, attempt, timer, handed, error, ctx, faults>>
  BY DEF Arrive, Out, writerVars, callVars
<1>2. \A c \in Chains : \A n : Places(c, n)' = Places(c, n)
  BY <1>1 DEF Places, Out
<1>3. Held'
  <2>1. TypeOK'
    BY <1>1 DEF Inv, Held, TypeOK, Out
  <2>. QED
    BY <1>1, <1>2, <2>1 DEF Inv, Held
<1>4. Called' /\ Queued' /\ InTime'
  BY <1>1 DEF Inv, Called, Queued, InTime, autoCreateRetries
<1>5. Counted'
  <2>1. \A c \in Chains : Off(c)' = Off(c)
    BY <1>1, <1>2 DEF Off, Copies
  <2>2. \A w \in Out' : Single(w)'
    BY <1>1 DEF Inv, Counted, Single
  <2>. QED
    BY <1>1, <2>1, <2>2 DEF Inv, Counted
<1>. QED
  BY <1>3, <1>4, <1>5 DEF Inv

\* A batch that is lost takes one event of each of its chains with it.
LEMMA LoseInv == ASSUME Inv, Lose PROVE Inv'
<1>1. PICK w \in wire : wire' = wire \ {w}
  BY DEF Lose
<1>2. /\ UNCHANGED <<lag, topic, age, stored, written, queue, bytes, pc, sent, attempt, timer, handed, error, ctx>>
      /\ faults' = faults + 1 /\ faults' \in 0..MaxFaults /\ faults \in Nat /\ Counted
  BY FaultBound, CallTypes DEF Lose, brokerVars, writerVars, callVars, Inv
<1>3. Out' \subseteq Out /\ Out = Out' \cup {w}
  BY <1>1, <1>2 DEF Out
<1>4. \A c \in Chains : \A n : /\ Places(c, n) = PlacesIn(Out, c, n)
                              /\ Places(c, n)' = PlacesIn(Out', c, n)
  BY DEF Places, PlacesIn, Out
<1>5. ASSUME NEW c \in Chains, NEW n PROVE IsFiniteSet(Places(c, n)')
  <2>1. Places(c, n)' \subseteq Places(c, n)
    BY <1>3, <1>4, PlacesIs
  <2>. QED
    BY <2>1, FS_Subset DEF Inv, Held
<1>6. Held'
  <2>1. TypeOK'
    BY <1>2, <1>3 DEF Inv, Held, TypeOK, Out
  <2>. QED
    BY <1>2, <1>3, <1>5, <2>1 DEF Inv, Held
<1>7. Called' /\ Queued' /\ InTime'
  BY <1>2 DEF Inv, Called, Queued, InTime, autoCreateRetries
<1>8. ASSUME NEW c \in Chains PROVE IsFiniteSet(Off(c)') /\ Cardinality(Off(c)') <= faults'
  <2>1. CASE Carries(w.batch, c)
    <3>1. PICK j \in DOMAIN w.batch : w.batch[j].chain = c
      BY <2>1 DEF Carries
    <3> DEFINE m == w.batch[j].n
    <3>2. \A k \in DOMAIN w.batch : w.batch[k].chain = c => w.batch[k].n = m
      BY <1>3, <3>1 DEF Inv, Counted, Single
    <3>. HIDE DEF m
    <3>3. \A n : n # m => Copies(c, n)' = Copies(c, n)
      BY <1>3, <1>4, <3>2, OtherPlaces DEF Copies
    <3>4. Off(c)' \subseteq Off(c) \cup {m}
      BY <1>2, <3>3 DEF Off
    <3>. QED
      BY <1>2, <3>4, OneMoreOff
  <2>2. CASE ~Carries(w.batch, c)
    <3>0. \A j \in DOMAIN w.batch : w.batch[j].chain # c
      BY <2>2 DEF Carries
    <3>n. \A n : PlacesIn(Out', c, n) = PlacesIn(Out, c, n)
      BY ONLY <1>3, <3>0, OtherPlaces
    <3>1. \A n : Copies(c, n)' = Copies(c, n)
      BY <1>4, <3>n DEF Copies
    <3>2. Off(c)' \subseteq Off(c)
      BY <1>2, <3>1 DEF Off
    <3>3. faults' \in Nat /\ faults' >= faults
      BY <1>2
    <3>. QED
      BY <1>2, <3>2, <3>3, NoMoreOff
  <2>. QED
    BY <2>1, <2>2
<1>9. Counted'
  <2>1. \A v \in Out' : Single(v)'
    BY <1>2, <1>3 DEF Counted, Single
  <2>. QED
    BY <1>8, <2>1 DEF Counted
<1>. QED
  BY <1>6, <1>7, <1>9 DEF Inv

-----------------------------------------------------------------------------
(***************************************************************************)
(* The theorems.                                                           *)
(***************************************************************************)

\* The invariant holds at the start,
LEMMA InitInv == Init => Inv
<1>1. SUFFICES ASSUME Init PROVE Inv
  OBVIOUS
<1>2. /\ lag \in Nat /\ \A p \in Partitions : queue[p] = <<>>
      /\ \A p \in Partitions : DOMAIN queue[p] = {}
      /\ Out = {}
  <2>1. lag \in Lags /\ \A x \in Lags : x \in Nat
    BY <1>1, MessageAssumption DEF Init
  <2>2. (\A p \in Partitions : queue[p] = <<>>) /\ Out = {}
    BY <1>1 DEF Init, Out
  <2>3. DOMAIN <<>> = {}
    OBVIOUS
  <2>. QED
    BY <2>1, <2>2, <2>3
<1>3. \A c \in Chains : \A n : Places(c, n) = {}
  <2>1. \A c \in Chains : \A n : Places(c, n) = PlacesIn(Out, c, n)
    BY DEF Places, PlacesIn, Out
  <2>. QED
    BY <1>2, <2>1, PlacesIs
<1>4. Held
  <2>1. \A c \in Chains : 0 \in 0..Len(Messages[c])
    BY MessageAssumption
  <2>2. \A c \in Chains : \A n : IsFiniteSet(Places(c, n))
    BY <1>3, FS_EmptySet
  <2>3. queue \in [Partitions -> Seq(Seq(Msgs))]
    BY <1>1 DEF Init
  <2>4. lag \in Lags /\ age \in 0..lag
    BY <1>1, <1>2 DEF Init
  <2>5. TypeOK
    BY <1>1, <1>2, <2>1, <2>3, <2>4, MessageAssumption DEF Init, TypeOK, Out, Stages, autoCreateRetries
  <2>. QED
    BY <1>1, <1>2, <2>2, <2>3, <2>5 DEF Init, Held
<1>5. Counted
  <2>1. \A c \in Chains : Off(c) = {}
    BY <1>1 DEF Init, Off
  <2>2. \A c \in Chains : IsFiniteSet(Off(c)) /\ Cardinality(Off(c)) = 0
    BY <2>1, FS_EmptySet
  <2>. QED
    BY <1>1, <1>2, <2>2 DEF Init, Counted
<1>6. Called
  BY <1>1 DEF Init, Called
<1>7. Queued
  BY <1>2 DEF Queued
<1>8. InTime
  BY <1>1 DEF Init, InTime
<1>. QED
  BY <1>4, <1>5, <1>6, <1>7, <1>8 DEF Inv

\* and every step keeps it.
LEMMA StepInv == Inv /\ [Next]_vars => Inv'
<1>1. SUFFICES ASSUME Inv, [Next]_vars PROVE Inv'
  OBVIOUS
<1>2. faults \in faults..MaxFaults
  BY <1>1, CallTypes
<1>3. CASE UNCHANGED vars
  BY <1>1, <1>3, OutsideInv DEF vars
<1>4. CASE Created
  BY <1>1, <1>4, OutsideInv DEF Created, wireVars, writerVars, callVars
<1>5. CASE Cancel
  BY <1>1, <1>5, OutsideInv DEF Cancel, brokerVars, wireVars, writerVars, callVars
<1>6. CASE Tick
  BY <1>1, <1>6, TickInv
<1>7. ASSUME NEW c \in Chains, Publish(c) PROVE Inv'
  <2>1. CASE pc[c] = "lookup" /\ Hand(c)
    BY <1>1, <2>1, HandInv
  <2>2. CASE pc[c] = "lookup" /\ Unknown(c)
    BY <1>1, <2>2, UnknownInv
  <2>3. CASE Unanswered(c)
    <3>1. faults' \in faults..MaxFaults
      BY <1>1, <1>2, <2>3, FaultBound, CallTypes DEF Unanswered
    <3>. QED
      BY <1>1, <2>3, <3>1, StopsInv DEF Unanswered, brokerVars, wireVars, writerVars
  <2>4. CASE Again(c)
    BY <1>1, <2>4, AgainInv
  <2>5. CASE Abandon(c)
    BY <1>1, <1>2, <2>5, StopsInv DEF Abandon, brokerVars, wireVars, writerVars
  <2>. QED
    BY <1>7, <2>1, <2>2, <2>3, <2>4, <2>5 DEF Publish, WriteMessages
<1>. QED
  BY <1>1, <1>3, <1>4, <1>5, <1>6, <1>7, CallInv, SendInv, ArriveInv, LoseInv DEF Next

\* The inductive invariant holds of every history of calls, batches and ticks.
THEOREM KafkaInv == Spec => []Inv
BY InitInv, StepInv, PTL DEF Spec

\* Every variable keeps its type: no call makes a sixth attempt, and no batch is
\* empty.
THEOREM KafkaTypeCorrect == Spec => []TypeOK
<1>1. Inv => TypeOK
  BY DEF Inv, Held
<1>. QED
  BY <1>1, KafkaInv, PTL

\* The loop of Publish hands a message over once at most, and when Publish has
\* returned nil the event is in the topic, or on its way there, once, but for one
\* event of the chain for each fault of a connection or of the broker.
THEOREM PublishedOnceCorrect == Spec => []PublishedOnce
<1>1. ASSUME Inv PROVE PublishedOnce
  <2>1. SUFFICES ASSUME NEW c \in Chains
                 PROVE  handed[c] <= 1 /\ Cardinality({n \in 1..(sent[c] - 1) : Copies(c, n) # 1}) <= faults
    BY DEF PublishedOnce, Copies
  <2> DEFINE S == {n \in 1..(sent[c] - 1) : Copies(c, n) # 1}
  <2>2. sent[c] \in Nat /\ faults \in Nat /\ faults >= faults /\ Counted
    BY <1>1, CallTypes DEF Inv
  <2>3. S \subseteq Off(c)
    BY <2>2 DEF Off
  <2>. HIDE DEF S
  <2>4. Cardinality(S) <= faults
    BY <2>2, <2>3, NoMoreOff
  <2>. QED
    BY <1>1, <2>4 DEF Inv, Called, S
<1>. QED
  BY <1>1, KafkaInv, PTL

\* Five attempts a quarter of a second apart outlast a broker that creates the topic
\* within a second.
THEOREM CreationAbsorbedCorrect == Spec => []CreationAbsorbed
<1>1. Inv => CreationAbsorbed
  BY DEF Inv, InTime, CreationAbsorbed
<1>. QED
  BY <1>1, KafkaInv, PTL
================================================================================
