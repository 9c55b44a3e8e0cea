---------------------------- MODULE BitcoinProofs ----------------------------
(***************************************************************************)
(* Every safety property of BitcoinTransfer, for any coins, transfers,     *)
(* requests and bounds.  The choice of coins takes no more inputs than it  *)
(* must because it takes the ones worth most first; what the node has was  *)
(* paid by a call, of coins that nobody else spent; and two scans of one   *)
(* address at one height saw the same, so that a retry builds the same     *)
(* transaction.                                                            *)
(***************************************************************************)
EXTENDS BitcoinTransfer, FiniteSetTheorems, TLAPS

-----------------------------------------------------------------------------
(***************************************************************************)
(* Sums over finite sets.  Value and the sum of the fees are both          *)
(* MapThenSumSet, whose definition is a recursive function on the subsets  *)
(* of the set; the facts below are by a least counterexample.              *)
(***************************************************************************)

\* Some of the subsets of a finite set have a least one among them.
LEMMA MinimalSet ==
  ASSUME NEW S, IsFiniteSet(S), NEW F \in SUBSET (SUBSET S), F # {}
  PROVE  \E m \in F : \A n \in F : n \subseteq m => n = m
<1>1. F \subseteq FiniteSubsetsOf(S)
  BY FS_FiniteSubsetsOfFinite
<1>2. PICK m \in F : \A n \in F : ~(<<n, m>> \in StrictSubsetOrdering(S))
  BY <1>1, FS_StrictSubsetOrderingWellFounded, WFMin
<1>3. \A n \in F : n \subseteq m /\ n # m => <<n, m>> \in StrictSubsetOrdering(S)
  BY DEF StrictSubsetOrdering
<1>4. \A n \in F : n \subseteq m => n = m
  <2>. HIDE DEF StrictSubsetOrdering
  <2>. QED
    BY <1>2, <1>3
<1>. QED
  BY <1>4

Some(s) == CHOOSE x \in s : TRUE

\* g gives every subset of S the sum of w over it.
IsSum(g, w, S) ==
  g = [s \in SUBSET S |-> IF s = {} THEN 0 ELSE w[Some(s)] + g[s \ {Some(s)}]]

Sum(w, S) == (CHOOSE g : IsSum(g, w, S))[S]

\* The sum of a set is that of the set without one element, and this element.
LEMMA IsSumAt ==
  ASSUME NEW S, NEW w, NEW g, IsSum(g, w, S)
  PROVE  /\ g[{}] = 0
         /\ \A s \in SUBSET S : s # {} => /\ Some(s) \in s
                                          /\ g[s] = w[Some(s)] + g[s \ {Some(s)}]
<1>1. \A s : s # {} => Some(s) \in s
  BY DEF Some
<1>2. \A s \in SUBSET S : g[s] = IF s = {} THEN 0 ELSE w[Some(s)] + g[s \ {Some(s)}]
  BY DEF IsSum
<1>. QED
  BY <1>1, <1>2

\* Two such functions agree where both are defined.
LEMMA SumUnique ==
  ASSUME NEW S, NEW T, IsFiniteSet(S), NEW w, NEW g, NEW h, IsSum(g, w, S), IsSum(h, w, T),
         NEW u \in SUBSET S, u \in SUBSET T
  PROVE  g[u] = h[u]
<1> DEFINE F == {s \in SUBSET S : s \in SUBSET T /\ g[s] # h[s]}
<1>1. SUFFICES ASSUME F # {} PROVE FALSE
  OBVIOUS
<1>2. PICK m \in F : \A n \in F : n \subseteq m => n = m
  <2>1. F \in SUBSET (SUBSET S)
    OBVIOUS
  <2>. HIDE DEF F
  <2>. QED
    BY <1>1, <2>1, MinimalSet
<1>3. m \in SUBSET S /\ m \in SUBSET T /\ g[m] # h[m]
  BY <1>2
<1>4. m # {}
  BY <1>3, IsSumAt
<1> DEFINE n == m \ {Some(m)}
<1>5. /\ Some(m) \in m
      /\ g[m] = w[Some(m)] + g[n] /\ h[m] = w[Some(m)] + h[n]
  BY <1>3, <1>4, IsSumAt
<1>6. n \notin F
  BY <1>2, <1>5
<1>. QED
  BY <1>3, <1>5, <1>6

\* There is one for every finite set.
LEMMA SumExists ==
  ASSUME NEW S, IsFiniteSet(S), NEW w
  PROVE  \E g : IsSum(g, w, S)
<1> DEFINE Has(s) == \E g : IsSum(g, w, s)
           F == {s \in SUBSET S : ~Has(s)}
<1>1. SUFFICES ASSUME F # {} PROVE FALSE
  OBVIOUS
<1>2. PICK m \in F : \A n \in F : n \subseteq m => n = m
  <2>1. F \in SUBSET (SUBSET S)
    OBVIOUS
  <2>. HIDE DEF F
  <2>. QED
    BY <1>1, <2>1, MinimalSet
<1>3. m \in SUBSET S /\ ~Has(m)
  BY <1>2
<1> DEFINE G(s) == CHOOSE g : IsSum(g, w, s)
           Less(s) == s \ {Some(s)}
           h == [s \in SUBSET m |-> IF s = {} THEN 0 ELSE w[Some(s)] + G(Less(s))[Less(s)]]
<1>4. \A s : s # {} => Some(s) \in s
  BY DEF Some
<1>5. ASSUME NEW s \in SUBSET m, s # m PROVE IsSum(G(s), w, s)
  <2>1. Has(s)
    BY <1>2, <1>3, <1>5
  <2>. QED
    BY <2>1
<1>6. ASSUME NEW s \in SUBSET m, s # m PROVE h[s] = G(s)[s]
  <2>1. CASE s = {}
    BY <1>5, <1>6, <2>1, IsSumAt
  <2>2. CASE s # {}
    <3>1. G(s)[s] = w[Some(s)] + G(s)[Less(s)]
      BY <1>5, <1>6, <2>2, IsSumAt
    <3>2. Less(s) \in SUBSET m /\ Less(s) # m /\ Less(s) \in SUBSET s
      BY <1>6
    <3>3. IsSum(G(s), w, s) /\ IsSum(G(Less(s)), w, Less(s))
      BY <1>5, <1>6, <3>2
    <3>4. IsFiniteSet(s)
      BY <1>3, FS_Subset
    <3>5. G(s)[Less(s)] = G(Less(s))[Less(s)]
      <4>. HIDE DEF G, Less
      <4>. QED
        BY <3>2, <3>3, <3>4, SumUnique
    <3>. QED
      BY <2>2, <3>1, <3>5
  <2>. QED
    BY <2>1, <2>2
<1>7. \A s \in SUBSET m : s # {} => Less(s) \in SUBSET m /\ Less(s) # m
  BY <1>4
<1>8. h = [s \in SUBSET m |-> IF s = {} THEN 0 ELSE w[Some(s)] + h[Less(s)]]
  <2>1. \A s \in SUBSET m : s # {} => h[Less(s)] = G(Less(s))[Less(s)]
    BY <1>6, <1>7
  <2>. HIDE DEF G
  <2>. QED
    BY <2>1
<1>9. IsSum(h, w, m)
  BY <1>8 DEF IsSum
<1>. QED
  BY <1>3, <1>9

\* What Sum is: nothing for no elements, and one element more for one more.
LEMMA SumStep ==
  ASSUME NEW S, IsFiniteSet(S), NEW w
  PROVE  /\ Sum(w, {}) = 0
         /\ S # {} => Some(S) \in S /\ Sum(w, S) = w[Some(S)] + Sum(w, S \ {Some(S)})
<1> DEFINE G(s) == CHOOSE g : IsSum(g, w, s)
           T == S \ {Some(S)}
<1>1. ASSUME NEW s, IsFiniteSet(s) PROVE IsSum(G(s), w, s) /\ Sum(w, s) = G(s)[s]
  BY <1>1, SumExists DEF Sum
<1>2. IsFiniteSet({}) /\ IsFiniteSet(T) /\ T \in SUBSET S
  BY FS_EmptySet, FS_RemoveElement
<1>3. Sum(w, {}) = 0
  BY <1>1, <1>2, IsSumAt
<1>4. IsSum(G(S), w, S) /\ IsSum(G(T), w, T) /\ Sum(w, S) = G(S)[S] /\ Sum(w, T) = G(T)[T]
  BY <1>1, <1>2
<1>5. ASSUME S # {} PROVE Some(S) \in S /\ G(S)[S] = w[Some(S)] + G(S)[T]
  <2>. HIDE DEF G
  <2>. QED
    BY <1>4, <1>5, IsSumAt
<1>6. G(S)[T] = G(T)[T]
  <2>. HIDE DEF G, T
  <2>. QED
    BY <1>2, <1>4, SumUnique
<1>. QED
  BY <1>3, <1>4, <1>5, <1>6

\* The elements of S have weights that can be added.
Weights(w, S) == \A x \in S : w[x] \in Int

\* A finite sum of integers is one.
LEMMA SumInt ==
  ASSUME NEW S, IsFiniteSet(S), NEW w, Weights(w, S)
  PROVE  Sum(w, S) \in Int
<1> DEFINE F == {s \in SUBSET S : Sum(w, s) \notin Int}
<1>1. SUFFICES ASSUME F # {} PROVE FALSE
  OBVIOUS
<1>2. PICK m \in F : \A n \in F : n \subseteq m => n = m
  <2>1. F \in SUBSET (SUBSET S)
    OBVIOUS
  <2>. HIDE DEF F
  <2>. QED
    BY <1>1, <2>1, MinimalSet
<1>3. m \in SUBSET S /\ Sum(w, m) \notin Int /\ IsFiniteSet(m)
  BY <1>2, FS_Subset
<1>4. m # {}
  <2>1. Sum(w, {}) = 0
    BY SumStep
  <2>. QED
    BY <1>3, <2>1
<1>5. Some(m) \in m /\ Sum(w, m) = w[Some(m)] + Sum(w, m \ {Some(m)})
  BY <1>3, <1>4, SumStep
<1>6. m \ {Some(m)} \notin F
  BY <1>2, <1>5
<1>. QED
  BY <1>3, <1>5, <1>6 DEF Weights

\* The order in which the elements are taken does not matter.
LEMMA SumRemove ==
  ASSUME NEW S, IsFiniteSet(S), NEW w, Weights(w, S), NEW x \in S
  PROVE  Sum(w, S) = w[x] + Sum(w, S \ {x})
<1> DEFINE F == {s \in SUBSET S : \E y \in s : Sum(w, s) # w[y] + Sum(w, s \ {y})}
<1>1. SUFFICES ASSUME F # {} PROVE FALSE
  OBVIOUS
<1>2. PICK m \in F : \A n \in F : n \subseteq m => n = m
  <2>1. F \in SUBSET (SUBSET S)
    OBVIOUS
  <2>. HIDE DEF F
  <2>. QED
    BY <1>1, <2>1, MinimalSet
<1>3. m \in SUBSET S /\ IsFiniteSet(m)
  BY <1>2, FS_Subset
<1>4. PICK y \in m : Sum(w, m) # w[y] + Sum(w, m \ {y})
  BY <1>2
<1> DEFINE a == Some(m)
<1>5. a \in m /\ Sum(w, m) = w[a] + Sum(w, m \ {a})
  BY <1>3, <1>4, SumStep
<1>6. a # y
  BY <1>4, <1>5
<1>. HIDE DEF a
<1>7. Sum(w, m \ {a}) = w[y] + Sum(w, (m \ {a}) \ {y})
  <2>1. m \ {a} \notin F
    BY <1>2, <1>5
  <2>. QED
    BY <1>3, <1>6, <2>1
<1>8. Sum(w, m \ {y}) = w[a] + Sum(w, (m \ {a}) \ {y})
  <2>1. m \ {y} \notin F
    BY <1>2
  <2>2. (m \ {y}) \ {a} = (m \ {a}) \ {y}
    OBVIOUS
  <2>. QED
    BY <1>3, <1>5, <1>6, <2>1, <2>2
<1>9. w[a] \in Int /\ w[y] \in Int /\ Sum(w, (m \ {a}) \ {y}) \in Int
  <2>1. IsFiniteSet((m \ {a}) \ {y}) /\ Weights(w, (m \ {a}) \ {y})
    BY <1>3, FS_Difference DEF Weights
  <2>. QED
    BY <1>3, <1>5, <2>1, SumInt DEF Weights
<1>. QED
  BY <1>4, <1>5, <1>7, <1>8, <1>9

\* The sum of two disjoint sets.
LEMMA SumUnion ==
  ASSUME NEW A, NEW B, IsFiniteSet(A), IsFiniteSet(B), A \cap B = {},
         NEW w, Weights(w, A \cup B)
  PROVE  Sum(w, A \cup B) = Sum(w, A) + Sum(w, B)
<1> DEFINE F == {s \in SUBSET B : Sum(w, A \cup s) # Sum(w, A) + Sum(w, s)}
<1>1. SUFFICES ASSUME F # {} PROVE FALSE
  OBVIOUS
<1>2. PICK m \in F : \A n \in F : n \subseteq m => n = m
  <2>1. F \in SUBSET (SUBSET B)
    OBVIOUS
  <2>. HIDE DEF F
  <2>. QED
    BY <1>1, <2>1, MinimalSet
<1>3. m \in SUBSET B /\ IsFiniteSet(m) /\ Sum(w, A \cup m) # Sum(w, A) + Sum(w, m)
  BY <1>2, FS_Subset
<1>4. Sum(w, A) \in Int
  BY SumInt DEF Weights
<1>5. m # {}
  <2>1. A \cup {} = A /\ Sum(w, {}) = 0
    BY SumStep
  <2>. QED
    BY <1>3, <1>4, <2>1
<1>6. PICK x \in m : TRUE
  BY <1>5
<1> DEFINE n == m \ {x}
<1>7. n \notin F
  BY <1>2
<1>8. Sum(w, A \cup n) = Sum(w, A) + Sum(w, n)
  BY <1>3, <1>7
<1>9. Sum(w, m) = w[x] + Sum(w, n)
  <2>1. Weights(w, m)
    BY <1>3 DEF Weights
  <2>. QED
    BY <1>3, <2>1, SumRemove
<1>10. Sum(w, A \cup m) = w[x] + Sum(w, A \cup n)
  <2>1. Weights(w, A \cup m) /\ IsFiniteSet(A \cup m) /\ x \in A \cup m
    BY <1>3, FS_Union DEF Weights
  <2>2. (A \cup m) \ {x} = A \cup n
    BY <1>3
  <2>. QED
    BY <2>1, <2>2, SumRemove
<1>11. w[x] \in Int /\ Sum(w, n) \in Int
  <2>1. IsFiniteSet(n) /\ Weights(w, n)
    BY <1>3, FS_RemoveElement DEF Weights
  <2>. QED
    BY <1>3, <2>1, SumInt DEF Weights
<1>. QED
  BY <1>3, <1>4, <1>8, <1>9, <1>10, <1>11

\* Weights of at most v make a sum of at most v for each element, and likewise of
\* at least v.
LEMMA SumBound ==
  ASSUME NEW S, IsFiniteSet(S), NEW w, Weights(w, S), NEW v \in Int
  PROVE  /\ (\A x \in S : w[x] <= v) => Sum(w, S) <= v * Cardinality(S)
         /\ (\A x \in S : w[x] >= v) => Sum(w, S) >= v * Cardinality(S)
<1> DEFINE Over(s)  == (\A x \in S : w[x] <= v) /\ ~(Sum(w, s) <= v * Cardinality(s))
           Under(s) == (\A x \in S : w[x] >= v) /\ ~(Sum(w, s) >= v * Cardinality(s))
           F == {s \in SUBSET S : Over(s) \/ Under(s)}
<1>1. SUFFICES ASSUME F # {} PROVE FALSE
  OBVIOUS
<1>2. PICK m \in F : \A n \in F : n \subseteq m => n = m
  <2>1. F \in SUBSET (SUBSET S)
    OBVIOUS
  <2>. HIDE DEF F
  <2>. QED
    BY <1>1, <2>1, MinimalSet
<1>3. m \in SUBSET S /\ IsFiniteSet(m) /\ (Over(m) \/ Under(m))
  BY <1>2, FS_Subset
<1>4. m # {}
  <2>1. Sum(w, {}) = 0 /\ Cardinality({}) = 0
    BY SumStep, FS_EmptySet
  <2>2. v * 0 = 0
    OBVIOUS
  <2>. QED
    BY <1>3, <2>1, <2>2
<1>5. PICK x \in m : TRUE
  BY <1>4
<1> DEFINE n == m \ {x}
<1>6. n \in SUBSET S /\ ~Over(n) /\ ~Under(n)
  <2>1. n \notin F
    BY <1>2
  <2>2. n \in SUBSET S
    BY <1>3
  <2>. QED
    BY <2>1, <2>2
<1>7. Sum(w, m) = w[x] + Sum(w, n) /\ Sum(w, n) \in Int /\ w[x] \in Int
  <2>1. Weights(w, m) /\ Weights(w, n) /\ IsFiniteSet(n)
    BY <1>3, FS_RemoveElement DEF Weights
  <2>. QED
    BY <1>3, <2>1, SumRemove, SumInt DEF Weights
<1>8. Cardinality(n) \in Nat /\ Cardinality(m) = Cardinality(n) + 1
  <2>1. IsFiniteSet(n) /\ Cardinality(n) = Cardinality(m) - 1 /\ Cardinality(m) \in Nat
    BY <1>3, FS_RemoveElement, FS_CardinalityType
  <2>. QED
    BY <2>1, FS_CardinalityType
<1>9. ASSUME NEW k \in Nat PROVE v * (k + 1) = v * k + v /\ v * k \in Int
  OBVIOUS
<1>10. v * Cardinality(m) = v * Cardinality(n) + v /\ v * Cardinality(n) \in Int
  BY <1>8, <1>9
<1>11. x \in S
  BY <1>3
<1>12. ASSUME Over(m) PROVE FALSE
  <2>1. Sum(w, n) <= v * Cardinality(n) /\ w[x] <= v
    BY <1>6, <1>11, <1>12
  <2>. QED
    BY <1>7, <1>10, <1>12, <2>1
<1>13. ASSUME Under(m) PROVE FALSE
  <2>1. Sum(w, n) >= v * Cardinality(n) /\ w[x] >= v
    BY <1>6, <1>11, <1>13
  <2>. QED
    BY <1>7, <1>10, <1>13, <2>1
<1>. QED
  BY <1>3, <1>12, <1>13

\* Value of coins, and the fees of transactions, are such sums.
LEMMA ValueIs ==
  ASSUME NEW S, IsFiniteSet(S), NEW w, \A c \in S : w[c] = c.value
  PROVE  Value(S) = Sum(w, S)
<1> DEFINE P(g) == g = [s \in SUBSET S |-> IF s = {} THEN 0 ELSE Some(s).value + g[s \ {Some(s)}]]
<1>1. Value(S) = (CHOOSE g : P(g))[S]
  BY DEF Value, MapThenSumSet, MapThenFoldSet, Some
<1>2. ASSUME NEW g PROVE P(g) <=> IsSum(g, w, S)
  <2>1. \A s \in SUBSET S : s # {} => Some(s).value = w[Some(s)]
    BY DEF Some
  <2>2. [s \in SUBSET S |-> IF s = {} THEN 0 ELSE Some(s).value + g[s \ {Some(s)}]]
        = [s \in SUBSET S |-> IF s = {} THEN 0 ELSE w[Some(s)] + g[s \ {Some(s)}]]
    BY <2>1
  <2>. QED
    BY <2>2 DEF IsSum
<1>. HIDE DEF P
<1>3. (CHOOSE g : P(g)) = (CHOOSE g : IsSum(g, w, S))
  BY <1>2
<1>. QED
  BY <1>1, <1>3 DEF Sum

Fees(ts) == MapThenSumSet(Fee, ts)

\* The fees of a block are a sum of this kind.
LEMMA FeesAre ==
  ASSUME NEW S, IsFiniteSet(S), NEW w, \A t \in S : w[t] = Fee(t)
  PROVE  Fees(S) = Sum(w, S)
<1> DEFINE P(g) == g = [s \in SUBSET S |-> IF s = {} THEN 0 ELSE Fee(Some(s)) + g[s \ {Some(s)}]]
<1>1. Fees(S) = (CHOOSE g : P(g))[S]
  BY DEF Fees, MapThenSumSet, MapThenFoldSet, Some
<1>2. ASSUME NEW g PROVE P(g) <=> IsSum(g, w, S)
  <2>1. \A s \in SUBSET S : s # {} => Fee(Some(s)) = w[Some(s)]
    BY DEF Some
  <2>2. [s \in SUBSET S |-> IF s = {} THEN 0 ELSE Fee(Some(s)) + g[s \ {Some(s)}]]
        = [s \in SUBSET S |-> IF s = {} THEN 0 ELSE w[Some(s)] + g[s \ {Some(s)}]]
    BY <2>1
  <2>. QED
    BY <2>2 DEF IsSum
<1>. HIDE DEF P
<1>3. (CHOOSE g : P(g)) = (CHOOSE g : IsSum(g, w, S))
  BY <1>2
<1>. QED
  BY <1>1, <1>3 DEF Sum

-----------------------------------------------------------------------------
(***************************************************************************)
(* The choice of coins.                                                    *)
(***************************************************************************)

\* Coins of different ids.
Distinct(cs) == \A c, d \in cs : c.id = d.id => c = d

\* A finite set of coins is worth a number.
LEMMA ValueType ==
  ASSUME NEW S \in SUBSET Coins, IsFiniteSet(S)
  PROVE  Value(S) \in Int
<1> DEFINE w == [c \in S |-> c.value]
<1>1. Weights(w, S) /\ \A c \in S : w[c] = c.value
  BY DEF Weights, Coins
<1>. HIDE DEF w
<1>. QED
  BY <1>1, ValueIs, SumInt

\* Disjoint sets of coins together are worth what each is worth.
LEMMA ValueUnion ==
  ASSUME NEW A \in SUBSET Coins, NEW B \in SUBSET Coins, IsFiniteSet(A), IsFiniteSet(B), A \cap B = {}
  PROVE  Value(A \cup B) = Value(A) + Value(B)
<1> DEFINE w == [c \in A \cup B |-> c.value]
<1>1. Weights(w, A \cup B) /\ \A c \in A \cup B : w[c] = c.value
  BY DEF Weights, Coins
<1>2. IsFiniteSet(A \cup B)
  BY FS_Union
<1>. HIDE DEF w
<1>3. Value(A) = Sum(w, A) /\ Value(B) = Sum(w, B) /\ Value(A \cup B) = Sum(w, A \cup B)
  BY <1>1, <1>2, ValueIs
<1>. QED
  BY <1>1, <1>3, SumUnion

\* What a set of coins is worth is bounded by its size.
LEMMA ValueBound ==
  ASSUME NEW S \in SUBSET Coins, IsFiniteSet(S), NEW v \in Int
  PROVE  /\ (\A c \in S : c.value <= v) => Value(S) <= v * Cardinality(S)
         /\ (\A c \in S : c.value >= v) => Value(S) >= v * Cardinality(S)
<1> DEFINE w == [c \in S |-> c.value]
<1>1. Weights(w, S) /\ \A c \in S : w[c] = c.value
  BY DEF Weights, Coins
<1>. HIDE DEF w
<1>. QED
  BY <1>1, ValueIs, SumBound

\* The loop takes more and more of the coins.
LEMMA TakenChain ==
  ASSUME NEW cs \in SUBSET Coins, NEW S \in Taken(cs), NEW T \in Taken(cs)
  PROVE  S \subseteq T \/ T \subseteq S
<1>1. SUFFICES ASSUME NEW c \in S, c \notin T, NEW d \in T, d \notin S PROVE FALSE
  OBVIOUS
<1>2. First(c, d) /\ First(d, c)
  BY <1>1 DEF Taken
<1>3. c.value \in Nat /\ d.value \in Nat /\ c.id \in Nat /\ d.id \in Nat
  BY DEF Taken, Coins
<1>. QED
  BY <1>2, <1>3 DEF First

\* When the funds suffice there is a first round that has enough.
LEMMA SelectIs ==
  ASSUME NEW cs \in SUBSET Coins, IsFiniteSet(cs), NEW need \in Int, ~Insufficient(cs, need)
  PROVE  LET ins == selectUTXOs(cs, need)
         IN  /\ ins \in Taken(cs) /\ Value(ins) >= need
             /\ \A T \in Taken(cs) : Value(T) >= need => ins \subseteq T
<1> DEFINE F == {S \in Taken(cs) : Value(S) >= need}
<1>1. cs # {} /\ Value(cs) >= need
  BY ValueType DEF Insufficient
<1>2. cs \in F /\ F \in SUBSET (SUBSET cs)
  BY <1>1 DEF Taken
<1>3. PICK m \in F : \A n \in F : n \subseteq m => n = m
  <2>. HIDE DEF F
  <2>. QED
    BY <1>2, MinimalSet
<1>4. m \in Taken(cs) /\ Value(m) >= need
  BY <1>3
<1>5. \A T \in Taken(cs) : Value(T) >= need => m \subseteq T
  BY <1>3, <1>4, TakenChain
<1>6. \E S \in Taken(cs) : Value(S) >= need /\ \A T \in Taken(cs) : Value(T) >= need => S \subseteq T
  BY <1>4, <1>5
<1>. QED
  BY <1>6 DEF selectUTXOs

\* Of some coins one comes last in the order of the loop.
LEMMA LastOf ==
  ASSUME NEW S \in SUBSET Coins, IsFiniteSet(S), S # {}, Distinct(S)
  PROVE  \E z \in S : \A c \in S : c # z => First(c, z)
<1> DEFINE Has(s) == \E z \in s : \A c \in s : c # z => First(c, z)
           F == {s \in SUBSET S : s # {} /\ ~Has(s)}
<1>1. SUFFICES ASSUME F # {} PROVE FALSE
  OBVIOUS
<1>2. PICK m \in F : \A n \in F : n \subseteq m => n = m
  <2>1. F \in SUBSET (SUBSET S)
    OBVIOUS
  <2>. HIDE DEF F
  <2>. QED
    BY <1>1, <2>1, MinimalSet
<1>3. m \in SUBSET S /\ m # {} /\ ~Has(m)
  BY <1>2
<1>4. PICK x \in m : TRUE
  BY <1>3
<1>5. m \ {x} \notin F
  BY <1>2
<1>6. m # {x}
  BY <1>3
<1>7. Has(m \ {x})
  BY <1>3, <1>4, <1>5, <1>6
<1>8. PICK z \in m \ {x} : \A c \in m \ {x} : c # z => First(c, z)
  BY <1>7
<1>9. \A c \in m : c.value \in Nat /\ c.id \in Nat
  BY <1>3 DEF Coins
<1>10. x.id # z.id
  BY <1>3, <1>8 DEF Distinct
<1>11. CASE First(z, x)
  <2>1. \A c \in m : c # x => First(c, x)
    BY <1>8, <1>9, <1>11 DEF First
  <2>. QED
    BY <1>3, <2>1
<1>12. CASE First(x, z)
  <2>1. \A c \in m : c # z => First(c, z)
    BY <1>8, <1>12
  <2>. QED
    BY <1>3, <1>8, <2>1
<1>. QED
  BY <1>4, <1>8, <1>9, <1>10, <1>11, <1>12 DEF First

\* Every number of coins up to what it took was taken after some round.
LEMMA Rounds ==
  ASSUME NEW cs \in SUBSET Coins, IsFiniteSet(cs), Distinct(cs), NEW ins \in Taken(cs),
         NEW k \in Nat, k >= 1, k <= Cardinality(ins)
  PROVE  \E T \in Taken(cs) : T \subseteq ins /\ Cardinality(T) = k
<1> DEFINE F == {T \in Taken(cs) : T \subseteq ins /\ Cardinality(T) >= k}
<1>1. ins \in F /\ F \in SUBSET (SUBSET cs)
  BY DEF Taken
<1>2. PICK m \in F : \A n \in F : n \subseteq m => n = m
  <2>. HIDE DEF F
  <2>. QED
    BY <1>1, MinimalSet
<1>3. m \in Taken(cs) /\ m \subseteq ins /\ Cardinality(m) >= k /\ m \in SUBSET cs /\ m # {}
  BY <1>2 DEF Taken
<1>4. IsFiniteSet(m) /\ Cardinality(m) \in Nat
  BY <1>3, FS_Subset, FS_CardinalityType
<1>5. SUFFICES ASSUME Cardinality(m) > k PROVE FALSE
  BY <1>3, <1>4
<1>6. PICK z \in m : \A c \in m : c # z => First(c, z)
  BY <1>3, <1>4, LastOf DEF Distinct
<1> DEFINE n == m \ {z}
<1>7. Cardinality(n) = Cardinality(m) - 1 /\ IsFiniteSet(n)
  BY <1>4, FS_RemoveElement
<1>8. n # {}
  BY <1>4, <1>5, <1>7, FS_EmptySet
<1>9. \A c \in n, d \in cs \ n : First(c, d)
  BY <1>3, <1>6 DEF Taken
<1>10. n \in Taken(cs)
  BY <1>3, <1>8, <1>9 DEF Taken
<1>11. n \in F
  BY <1>3, <1>4, <1>5, <1>7, <1>10
<1>. QED
  BY <1>2, <1>6, <1>11

\* As many other coins are worth no more.
LEMMA TakenIsWorthMost ==
  ASSUME NEW cs \in SUBSET Coins, IsFiniteSet(cs), Distinct(cs), NEW T \in Taken(cs), NEW S \in SUBSET cs,
         Cardinality(S) = Cardinality(T)
  PROVE  Value(S) <= Value(T)
<1> DEFINE A == S \ T
           B == T \ S
           I == S \cap T
<1>1. T \in SUBSET cs /\ IsFiniteSet(S) /\ IsFiniteSet(T)
  BY FS_Subset DEF Taken
<1>2. IsFiniteSet(A) /\ IsFiniteSet(B) /\ IsFiniteSet(I) /\ Cardinality(A) = Cardinality(B)
  <2>1. T \cap S = S \cap T
    OBVIOUS
  <2>2. IsFiniteSet(S \ T) /\ Cardinality(S \ T) = Cardinality(S) - Cardinality(S \cap T)
    BY <1>1, FS_Difference
  <2>3. IsFiniteSet(T \ S) /\ Cardinality(T \ S) = Cardinality(T) - Cardinality(T \cap S)
    BY <1>1, FS_Difference
  <2>4. IsFiniteSet(S \cap T)
    BY <1>1, FS_Intersection
  <2>. QED
    BY <2>1, <2>2, <2>3, <2>4
<1>3. A \in SUBSET Coins /\ B \in SUBSET Coins /\ I \in SUBSET Coins
  BY <1>1
<1>4. Value(S) = Value(I) + Value(A) /\ Value(T) = Value(I) + Value(B)
  <2>1. S = I \cup A /\ T = I \cup B /\ I \cap A = {} /\ I \cap B = {}
    OBVIOUS
  <2>. HIDE DEF A, B, I
  <2>. QED
    BY <1>2, <1>3, <2>1, ValueUnion
<1>5. Value(A) \in Int /\ Value(B) \in Int /\ Value(I) \in Int
  BY <1>2, <1>3, ValueType
<1>6. CASE B = {}
  <2>1. A = B
    BY <1>2, <1>6, FS_EmptySet
  <2>. QED
    BY <1>4, <1>5, <2>1
<1>7. CASE B # {}
  <2>1. PICK b \in B : \A c \in B : c # b => First(c, b)
    <3>1. Distinct(B)
      BY <1>1 DEF Distinct
    <3>. QED
      BY <1>2, <1>3, <1>7, <3>1, LastOf
  <2>2. b.value \in Int /\ \A c \in A \cup B : c.value \in Int
    BY <1>3, <2>1 DEF Coins
  <2>3. \A c \in B : c.value >= b.value
    BY <2>1, <2>2 DEF First
  <2>4. \A c \in A : c.value <= b.value
    <3>1. \A c \in A : First(b, c)
      BY DEF Taken
    <3>. QED
      BY <2>2, <3>1 DEF First
  <2>5. Value(A) <= b.value * Cardinality(A) /\ Value(B) >= b.value * Cardinality(A)
    <3>. HIDE DEF A, B
    <3>. QED
      BY <1>2, <1>3, <2>2, <2>3, <2>4, ValueBound
  <2>6. b.value * Cardinality(A) \in Int
    <3>1. Cardinality(A) \in Nat
      BY <1>2, FS_CardinalityType
    <3>2. \A x \in Int, y \in Nat : x * y \in Int
      OBVIOUS
    <3>. QED
      BY <2>2, <3>1, <3>2
  <2>. QED
    BY <1>4, <1>5, <2>5, <2>6
<1>. QED
  BY <1>6, <1>7

\* selectUTXOs takes as few coins as would be enough.
LEMMA SelectsFewest ==
  ASSUME NEW cs \in SUBSET Coins, IsFiniteSet(cs), Distinct(cs), NEW need \in Int, ~Insufficient(cs, need),
         NEW S \in SUBSET cs, S # {}, Value(S) >= need
  PROVE  Cardinality(S) >= Cardinality(selectUTXOs(cs, need))
<1> DEFINE ins == selectUTXOs(cs, need)
<1>1. ins \in Taken(cs) /\ Value(ins) >= need /\ \A T \in Taken(cs) : Value(T) >= need => ins \subseteq T
  BY SelectIs
<1>. HIDE DEF ins
<1>2. IsFiniteSet(S) /\ IsFiniteSet(ins) /\ Cardinality(S) \in Nat /\ Cardinality(ins) \in Nat
  BY <1>1, FS_Subset, FS_CardinalityType DEF Taken
<1>3. Cardinality(S) >= 1
  BY <1>2, FS_EmptySet
<1>4. SUFFICES ASSUME Cardinality(S) < Cardinality(ins) PROVE FALSE
  BY <1>2 DEF ins
<1>5. PICK T \in Taken(cs) : T \subseteq ins /\ Cardinality(T) = Cardinality(S)
  <2>1. Cardinality(S) <= Cardinality(ins)
    BY <1>2, <1>4
  <2>. QED
    BY <1>1, <1>2, <1>3, <2>1, Rounds
<1>6. Value(S) <= Value(T)
  BY <1>5, TakenIsWorthMost
<1>7. Value(S) \in Int /\ Value(T) \in Int
  <2>1. T \in SUBSET Coins /\ IsFiniteSet(T) /\ S \in SUBSET Coins
    BY FS_Subset DEF Taken
  <2>. QED
    BY <1>2, <2>1, ValueType
<1>8. ins = T
  <2>1. Value(T) >= need
    BY <1>6, <1>7
  <2>. QED
    BY <1>1, <1>5, <2>1
<1>. QED
  BY <1>2, <1>4, <1>5, <1>8

-----------------------------------------------------------------------------
(***************************************************************************)
(* Amounts.                                                                *)
(***************************************************************************)

\* Half of the range is a number.
LEMMA HalfWord == Word \div 2 \in Nat /\ 2 * (Word \div 2) = Word
BY AmountAssumption

\* big.Int.Int64 is a number, and keeps what fits.
LEMMA Int64Range ==
  ASSUME NEW n \in Int
  PROVE  Int64(n) \in Int /\ (Fits(n) => Int64(n) = n)
<1> DEFINE m == n + Word \div 2
<1>1. m \in Int /\ Word \in Nat /\ Word > 0
  BY HalfWord, AmountAssumption
<1>2. Fits(n) => m \in 0..(Word - 1)
  BY HalfWord DEF Fits
<1>3. m % Word \in 0..(Word - 1) /\ (m \in 0..(Word - 1) => m % Word = m)
  <2>. HIDE DEF m
  <2>. QED
    BY <1>1
<1>4. Int64(n) = (m % Word) - Word \div 2
  BY DEF Int64
<1>5. m - Word \div 2 = n
  BY HalfWord
<1>. HIDE DEF m
<1>6. m % Word \in Int
  BY <1>1, <1>3
<1>. QED
  BY <1>2, <1>3, <1>4, <1>5, <1>6, HalfWord

\* The rates the node and the adapter know.
Rates == NodeRates \cup 0..20

\* The speeds without a rate of the node have one of the adapter.
LEMMA FallbackRate == \A speed : fallbackFeeRate(speed) \in Rates
BY DEF fallbackFeeRate, Rates

\* A fee on top of a value the node may take is far from the end of the range.
LEMMA FeeRoom ==
  ASSUME NEW n \in Rates
  PROVE  n \in Nat /\ vSize * n \in Nat /\ MaxMoney \in Nat /\ MaxMoney + vSize * n < Word \div 2
<1>1. n \in Nat
  BY CoinAssumption DEF Rates
<1>2. vSize * n \in Nat
  BY <1>1 DEF vSize
<1>. QED
  BY <1>1, <1>2, AmountAssumption DEF Rates

-----------------------------------------------------------------------------
(***************************************************************************)
(* What a chain has, once its blocks have some transactions in them.       *)
(***************************************************************************)

\* A transaction that may be in a block.
Sound(t) == t \in Txs /\ t.ins # {} /\ IsFiniteSet(t.ins) /\ t.amount > 0

\* The n-th output of a transaction.
Output(t, n) ==
  [id |-> OutputId(t, n), owner |-> IF n = 1 THEN t.to ELSE t.back,
   value |-> IF n = 1 THEN t.amount ELSE t.change, coinbase |-> FALSE, height |-> 0]

\* The outputs of a transaction, by their number.
LEMMA OutputsAre ==
  ASSUME NEW t
  PROVE  Outputs(t) = {Output(t, n) : n \in IF HasChange(t) THEN {1, 2} ELSE {1}}
<1>1. Output(t, 1) = [id |-> OutputId(t, 1), owner |-> t.to, value |-> t.amount, coinbase |-> FALSE, height |-> 0]
  BY DEF Output
<1>2. Output(t, 2) = [id |-> OutputId(t, 2), owner |-> t.back, value |-> t.change, coinbase |-> FALSE, height |-> 0]
  BY DEF Output
<1>3. Outputs(t) = {Output(t, 1)} \cup (IF HasChange(t) THEN {Output(t, 2)} ELSE {})
  BY <1>1, <1>2 DEF Outputs
<1>. QED
  BY <1>3

\* An output is named after one of the coins that are spent.
LEMMA NamedAfter ==
  ASSUME NEW t, t.ins \in SUBSET Coins, t.ins # {}, IsFiniteSet(t.ins)
  PROVE  \E e \in t.ins : \A n \in {1, 2} : OutputId(t, n) = 10 * e.id + n
<1> DEFINE S == t.ins
           Upto(x) == {d \in S : d.id <= x.id}
           F == {Upto(x) : x \in S}
<1>1. F \in SUBSET (SUBSET S) /\ F # {}
  OBVIOUS
<1>2. PICK m \in F : \A n \in F : n \subseteq m => n = m
  <2>. HIDE DEF F
  <2>. QED
    BY <1>1, MinimalSet
<1>3. PICK e \in S : m = Upto(e)
  BY <1>2
<1>4. \A c \in S : c.id \in Nat
  BY DEF Coins
<1>5. ASSUME NEW c \in S, c.id < e.id PROVE FALSE
  <2>1. Upto(c) \in F
    OBVIOUS
  <2>2. Upto(c) \subseteq Upto(e) /\ e \notin Upto(c) /\ e \in Upto(e)
    BY <1>4, <1>5
  <2>. HIDE DEF F, Upto
  <2>. QED
    BY <1>2, <1>3, <2>1, <2>2
<1>6. \A y \in {c.id : c \in S} : e.id =< y
  BY <1>4, <1>5
<1>7. \A x \in {c.id : c \in S} : x =< e.id => x = e.id
  <2>1. \A c \in S : c.id =< e.id => c.id = e.id
    BY <1>4, <1>5
  <2>. QED
    BY <2>1
<1>8. Min({c.id : c \in S}) = e.id
  <2> DEFINE ids == {c.id : c \in S}
  <2>1. e.id \in ids /\ \A y \in ids : e.id =< y
    BY <1>6
  <2>2. \A x \in ids : x =< e.id => x = e.id
    BY <1>7
  <2>. HIDE DEF ids
  <2>3. Min(ids) \in ids /\ \A y \in ids : Min(ids) =< y
    BY <2>1 DEF Min
  <2>. QED
    BY <2>1, <2>2, <2>3 DEF ids
<1>. QED
  BY <1>8 DEF OutputId

\* An output is a coin with a name made of that of a coin that is spent.
LEMMA OutputIs ==
  ASSUME NEW t, Sound(t), NEW c \in Outputs(t)
  PROVE  /\ c \in Coins /\ c.value > 0 /\ c.owner \in Addresses
         /\ \E e \in t.ins, n \in {1, 2} : e \in Coins /\ c.id = 10 * e.id + n /\ c = Output(t, n)
<1>1. t \in Txs /\ t.ins # {} /\ IsFiniteSet(t.ins) /\ t.amount > 0 /\ t.ins \in SUBSET Coins
  BY DEF Sound, Txs
<1>2. PICK e \in t.ins : \A n \in {1, 2} : OutputId(t, n) = 10 * e.id + n
  BY <1>1, NamedAfter
<1>3. PICK n \in {1, 2} : c = Output(t, n) /\ (n = 2 => HasChange(t))
  BY OutputsAre
<1>4. c.id = 10 * e.id + n
  BY <1>2, <1>3 DEF Output
<1>5. e.id \in Nat /\ t.to \in Addresses /\ t.back \in Addresses /\ t.amount \in Int /\ t.change \in Int
  BY <1>1 DEF Coins, Txs
<1>6. c.value > 0 /\ c.value \in Nat
  BY <1>1, <1>3, <1>5 DEF Output, HasChange
<1>7. c.owner \in Addresses /\ c.height = 0 /\ c.coinbase = FALSE
  BY <1>3, <1>5 DEF Output
<1>8. c \in Coins
  <2>1. c = [id |-> c.id, owner |-> c.owner, value |-> c.value, coinbase |-> c.coinbase, height |-> c.height]
    BY <1>3 DEF Output
  <2>2. c.id \in Nat
    BY <1>4, <1>5
  <2>3. c.height \in Nat
    BY <1>7
  <2>4. c.coinbase \in BOOLEAN
    BY <1>7
  <2>. QED
    BY <1>6, <1>7, <2>1, <2>2, <2>3, <2>4 DEF Coins
<1>. QED
  BY <1>1, <1>3, <1>4, <1>6, <1>7, <1>8

\* Transactions that never spend the same coin, of coins with one name each.
Apart(m, cs) ==
  /\ \A t \in m : Sound(t) /\ t.ins \subseteq cs
  /\ \A t, u \in m : t.ins \cap u.ins # {} => t = u
  /\ Distinct(cs)

\* No two of them have an output of one name, and none has one of the beginning.
LEMMA OutputOnce ==
  ASSUME NEW m, NEW cs, Apart(m, cs), NEW t \in m, NEW c \in Outputs(t)
  PROVE  /\ \A u \in m : \A d \in Outputs(u) : d.id = c.id => u = t /\ d = c
         /\ \A d \in InitialCoins : d.id # c.id
<1>1. PICK e \in t.ins, n \in {1, 2} : e \in Coins /\ c.id = 10 * e.id + n /\ c = Output(t, n)
  BY OutputIs DEF Apart
<1>2. e.id \in Nat
  BY <1>1 DEF Coins
<1>3. ASSUME NEW u \in m, NEW d \in Outputs(u), d.id = c.id PROVE u = t /\ d = c
  <2>1. PICK f \in u.ins, k \in {1, 2} : f \in Coins /\ d.id = 10 * f.id + k /\ d = Output(u, k)
    BY OutputIs DEF Apart
  <2>2. f.id = e.id /\ k = n
    <3>1. f.id \in Nat
      BY <2>1 DEF Coins
    <3>. QED
      BY <1>1, <1>2, <1>3, <2>1, <3>1
  <2>3. f = e
    BY <2>2 DEF Apart, Distinct
  <2>4. u = t
    BY <2>3 DEF Apart
  <2>. QED
    BY <1>1, <2>1, <2>2, <2>4
<1>4. ASSUME NEW d \in InitialCoins, d.id = c.id PROVE FALSE
  <2>1. d.id % 10 = 0
    BY CoinAssumption DEF Original
  <2>2. \A x \in Nat, k \in {1, 2} : (10 * x + k) % 10 # 0
    OBVIOUS
  <2>. QED
    BY <1>1, <1>2, <1>4, <2>1, <2>2
<1>. QED
  BY <1>3, <1>4

\* So the coins of the beginning and their outputs have one name each.
LEMMA OutputsDistinct ==
  ASSUME NEW m, NEW cs, Apart(m, cs)
  PROVE  Distinct(InitialCoins \cup Outs(m))
<1>1. SUFFICES ASSUME NEW c \in InitialCoins \cup Outs(m), NEW d \in InitialCoins \cup Outs(m), c.id = d.id
               PROVE  c = d
  BY DEF Distinct
<1>2. CASE c \in InitialCoins /\ d \in InitialCoins
  BY <1>1, <1>2, CoinAssumption
<1>3. ASSUME NEW t \in m, c \in Outputs(t) PROVE c = d
  <2>1. \A e \in InitialCoins : e.id # c.id
    BY <1>3, OutputOnce
  <2>2. PICK u \in m : d \in Outputs(u)
    BY <1>1, <2>1 DEF Outs
  <2>. QED
    BY <1>1, <1>3, <2>2, OutputOnce
<1>4. ASSUME NEW u \in m, d \in Outputs(u), c \in InitialCoins PROVE c = d
  BY <1>1, <1>4, OutputOnce
<1>. QED
  BY <1>2, <1>3, <1>4 DEF Outs

\* What one coin is worth.
LEMMA ValueSingle == ASSUME NEW c \in Coins PROVE Value({c}) = c.value
<1> DEFINE w == [x \in {c} |-> x.value]
<1>1. Weights(w, {c}) /\ (\A x \in {c} : w[x] = x.value) /\ w[c] = c.value /\ c.value \in Int
  BY DEF Weights, Coins
<1>. HIDE DEF w
<1>2. IsFiniteSet({c}) /\ c \in {c}
  BY FS_Singleton
<1>3. Value({c}) = Sum(w, {c}) /\ Sum(w, {c}) = w[c] + Sum(w, {c} \ {c})
  BY <1>1, <1>2, ValueIs, SumRemove
<1>4. Sum(w, {c} \ {c}) = 0
  <2>1. {c} \ {c} = {}
    OBVIOUS
  <2>. QED
    BY <1>2, <2>1, SumStep
<1>. QED
  BY <1>1, <1>3, <1>4

\* What a transaction pays out is what it spends less its fee.
LEMMA OutputsValue ==
  ASSUME NEW t, Sound(t)
  PROVE  /\ Value(Outputs(t)) = Value(t.ins) - Fee(t) /\ Value(t.ins) \in Int /\ Fee(t) \in Int
         /\ IsFiniteSet(Outputs(t)) /\ Outputs(t) \in SUBSET Coins
<1>1. /\ t \in Txs /\ IsFiniteSet(t.ins) /\ t.ins \in SUBSET Coins /\ t.ins # {}
      /\ t.amount \in Int /\ t.change \in Int
  BY DEF Sound, Txs
<1>2. Value(t.ins) \in Int
  BY <1>1, ValueType
<1>3. Fee(t) \in Int /\ Fee(t) = Value(t.ins) - t.amount - (IF t.change > 0 THEN t.change ELSE 0)
  BY <1>1, <1>2 DEF Fee, HasChange
<1> DEFINE a == Output(t, 1)
           b == Output(t, 2)
<1>4. a \in Outputs(t) /\ (t.change > 0 => b \in Outputs(t)) /\ a.value = t.amount /\ b.value = t.change /\ a.id # b.id
  <2>1. a \in Outputs(t) /\ (t.change > 0 => b \in Outputs(t))
    BY OutputsAre DEF HasChange
  <2>2. a.value = t.amount /\ b.value = t.change /\ a.id = OutputId(t, 1) /\ b.id = OutputId(t, 2)
    BY DEF Output
  <2>3. OutputId(t, 1) # OutputId(t, 2)
    <3>1. PICK e \in t.ins : \A n \in {1, 2} : OutputId(t, n) = 10 * e.id + n
      BY <1>1, NamedAfter
    <3>2. e.id \in Nat
      BY <1>1 DEF Coins
    <3>. QED
      BY <3>1, <3>2
  <2>. QED
    BY <2>1, <2>2, <2>3
<1>5. \A c \in Outputs(t) : c \in Coins
  BY OutputIs
<1>6. Outputs(t) = IF t.change > 0 THEN {a} \cup {b} ELSE {a}
  BY OutputsAre DEF HasChange
<1>. HIDE DEF a, b
<1>7. CASE t.change > 0
  <2>1. a \in Coins /\ b \in Coins /\ {a} \cap {b} = {}
    BY <1>4, <1>5, <1>7
  <2>2. IsFiniteSet({a}) /\ IsFiniteSet({b}) /\ IsFiniteSet({a} \cup {b})
    BY FS_Singleton, FS_Union
  <2>3. Value({a} \cup {b}) = Value({a}) + Value({b})
    BY <2>1, <2>2, ValueUnion
  <2>4. Value({a}) = t.amount /\ Value({b}) = t.change
    BY <1>4, <2>1, ValueSingle
  <2>5. Outputs(t) = {a} \cup {b}
    BY <1>6, <1>7
  <2>6. Value(Outputs(t)) = t.amount + t.change
    BY <2>3, <2>4, <2>5
  <2>7. Fee(t) = Value(t.ins) - t.amount - t.change
    BY <1>3, <1>7
  <2>8. Value(Outputs(t)) = Value(t.ins) - Fee(t)
    BY <1>1, <1>2, <2>6, <2>7
  <2>. QED
    BY <1>2, <1>3, <1>5, <2>2, <2>5, <2>8
<1>8. CASE ~(t.change > 0)
  <2>1. Value({a}) = t.amount /\ IsFiniteSet({a})
    BY <1>4, <1>5, ValueSingle, FS_Singleton
  <2>. QED
    BY <1>1, <1>2, <1>3, <1>5, <1>6, <1>8, <2>1
<1>. QED
  BY <1>7, <1>8

\* What finitely many sound transactions spend and pay is finite.
LEMMA FiniteChain ==
  ASSUME NEW m, IsFiniteSet(m), \A t \in m : Sound(t)
  PROVE  /\ IsFiniteSet(Outs(m)) /\ IsFiniteSet(Spent(m)) /\ IsFiniteSet(InitialCoins \cup Outs(m))
         /\ Outs(m) \in SUBSET Coins /\ Spent(m) \in SUBSET Coins
         /\ InitialCoins \cup Outs(m) \in SUBSET Coins
         /\ Unspent(m) \in SUBSET Coins /\ IsFiniteSet(Unspent(m))
<1> DEFINE O == {Outputs(t) : t \in m}
           I == {t.ins : t \in m}
           f == [t \in m |-> Outputs(t)]
           g == [t \in m |-> t.ins]
<1>1. \A t \in m : /\ IsFiniteSet(Outputs(t)) /\ Outputs(t) \in SUBSET Coins
                   /\ IsFiniteSet(t.ins) /\ t.ins \in SUBSET Coins
  BY OutputsValue DEF Sound, Txs
<1>2. f \in Surjection(m, O) /\ g \in Surjection(m, I)
  BY DEF Surjection
<1>3. /\ \A o \in O : IsFiniteSet(o)
      /\ \A i \in I : IsFiniteSet(i)
  BY <1>1
<1>4. Outs(m) = UNION O /\ Spent(m) = UNION I
  BY DEF Outs, Spent
<1>. HIDE DEF O, I, f, g
<1>5. IsFiniteSet(O) /\ IsFiniteSet(I)
  BY <1>2, FS_Surjection
<1>6. IsFiniteSet(Outs(m)) /\ IsFiniteSet(Spent(m))
  BY <1>3, <1>4, <1>5, FS_UNION
<1>7. Outs(m) \in SUBSET Coins /\ Spent(m) \in SUBSET Coins
  BY <1>1 DEF Outs, Spent
<1>8. IsFiniteSet(InitialCoins \cup Outs(m)) /\ InitialCoins \cup Outs(m) \in SUBSET Coins
  BY <1>6, <1>7, CoinAssumption, FS_Union
<1>9. Unspent(m) \in SUBSET Coins /\ IsFiniteSet(Unspent(m))
  BY <1>8, FS_Difference DEF Unspent
<1>. QED
  BY <1>6, <1>7, <1>8, <1>9

\* A chain that has what its transactions spend loses their fees and nothing else.
LEMMA ChainValue ==
  ASSUME NEW B, IsFiniteSet(B), NEW cs, Apart(B, cs), Closed(B)
  PROVE  Value(Unspent(B)) = Value(InitialCoins) - Fees(B)
<1> DEFINE Had(s) == InitialCoins \cup Outs(s)
           Off(s) == Value(Had(s)) # Value(InitialCoins) + Value(Spent(s)) - Fees(s)
           F == {s \in SUBSET B : Off(s)}
<1>1. \A t \in B : Sound(t)
  BY DEF Apart
<1>2. ASSUME NEW s \in SUBSET B
      PROVE  /\ IsFiniteSet(s) /\ IsFiniteSet(Had(s)) /\ IsFiniteSet(Spent(s))
             /\ Had(s) \in SUBSET Coins /\ Spent(s) \in SUBSET Coins
             /\ Value(Had(s)) \in Int /\ Value(Spent(s)) \in Int
  <2>1. IsFiniteSet(s)
    BY FS_Subset
  <2>. QED
    BY <1>1, <2>1, FiniteChain, ValueType
<1> DEFINE w == [t \in B |-> Fee(t)]
<1>3. Weights(w, B) /\ \A t \in B : w[t] = Fee(t)
  BY <1>1, OutputsValue DEF Weights
<1>. HIDE DEF w
<1>4. ASSUME NEW s \in SUBSET B PROVE Fees(s) = Sum(w, s) /\ Sum(w, s) \in Int
  <2>1. IsFiniteSet(s) /\ Weights(w, s) /\ \A t \in s : w[t] = Fee(t)
    BY <1>2, <1>3 DEF Weights
  <2>. QED
    BY <2>1, FeesAre, SumInt
<1>5. Value(InitialCoins) \in Int
  BY ValueType, CoinAssumption
<1>6. F = {}
  <2>1. SUFFICES ASSUME F # {} PROVE FALSE
    OBVIOUS
  <2>2. PICK m \in F : \A n \in F : n \subseteq m => n = m
    <3>1. F \in SUBSET (SUBSET B)
      OBVIOUS
    <3>. HIDE DEF F
    <3>. QED
      BY <2>1, <3>1, MinimalSet
  <2>3. m \in SUBSET B /\ Off(m)
    BY <2>2
  <2>4. m # {}
    <3>1. Had({}) = InitialCoins /\ Spent({}) = {}
      BY DEF Outs, Spent
    <3>2. Fees({}) = 0
      BY <1>2, <1>4, SumStep
    <3>3. Value({}) = 0
      <4> DEFINE v == [c \in {} |-> 0]
      <4>1. IsFiniteSet({}) /\ \A c \in {} : v[c] = c.value
        BY FS_EmptySet
      <4>. HIDE DEF v
      <4>. QED
        BY <4>1, ValueIs, SumStep
    <3>4. Value(Had({})) = Value(InitialCoins) + Value(Spent({})) - Fees({})
      BY <1>5, <3>1, <3>2, <3>3
    <3>. QED
      BY <2>3, <3>4
  <2>5. PICK t \in m : TRUE
    BY <2>4
  <2> DEFINE n == m \ {t}
  <2>6. n \in SUBSET B /\ t \in B /\ t \notin n /\ m = n \cup {t}
    BY <2>3
  <2>7. ~Off(n)
    BY <2>2, <2>5, <2>6
  <2>8. Had(m) = Had(n) \cup Outputs(t) /\ Had(n) \cap Outputs(t) = {}
    <3>1. Had(m) = Had(n) \cup Outputs(t)
      BY <2>6 DEF Outs
    <3>2. ASSUME NEW c \in Outputs(t), c \in Had(n) PROVE FALSE
      <4>1. \A d \in InitialCoins : d.id # c.id
        BY <2>6, <3>2, OutputOnce
      <4>2. PICK u \in n : c \in Outputs(u)
        BY <3>2, <4>1 DEF Outs
      <4>. QED
        BY <2>6, <3>2, <4>2, OutputOnce
    <3>. QED
      BY <3>1, <3>2
  <2>9. Spent(m) = Spent(n) \cup t.ins /\ Spent(n) \cap t.ins = {}
    <3>1. Spent(m) = Spent(n) \cup t.ins
      BY <2>6 DEF Spent
    <3>2. \A u \in n : u.ins \cap t.ins = {}
      BY <2>6 DEF Apart
    <3>. QED
      BY <3>1, <3>2 DEF Spent
  <2>10. Fees(m) = Fee(t) + Fees(n)
    <3>1. IsFiniteSet(m) /\ Weights(w, m)
      BY <1>2, <1>3, <2>3 DEF Weights
    <3>2. Sum(w, m) = w[t] + Sum(w, n)
      BY <2>5, <3>1, SumRemove
    <3>. QED
      BY <1>3, <1>4, <2>3, <2>6, <3>2
  <2>. HIDE DEF n, Had
  <2>11. /\ Value(Outputs(t)) = Value(t.ins) - Fee(t) /\ Value(t.ins) \in Int /\ Fee(t) \in Int
         /\ IsFiniteSet(Outputs(t)) /\ Outputs(t) \in SUBSET Coins
         /\ IsFiniteSet(t.ins) /\ t.ins \in SUBSET Coins
    BY <1>1, <2>6, OutputsValue DEF Sound, Txs
  <2>12. Value(Had(m)) = Value(Had(n)) + Value(Outputs(t))
    BY <1>2, <2>6, <2>8, <2>11, ValueUnion
  <2>13. Value(Spent(m)) = Value(Spent(n)) + Value(t.ins)
    BY <1>2, <2>6, <2>9, <2>11, ValueUnion
  <2>14. Value(Had(n)) = Value(InitialCoins) + Value(Spent(n)) - Fees(n)
    BY <2>7
  <2>15. Value(Had(n)) \in Int /\ Value(Spent(n)) \in Int /\ Fees(n) \in Int
    BY <1>2, <1>4, <2>6
  <2>16. Value(Had(m)) = Value(InitialCoins) + Value(Spent(m)) - Fees(m)
    BY <1>5, <2>10, <2>11, <2>12, <2>13, <2>14, <2>15
  <2>. QED
    BY <2>3, <2>16
<1>7. Value(Had(B)) = Value(InitialCoins) + Value(Spent(B)) - Fees(B)
  BY <1>6
<1>8. Value(Had(B)) = Value(Unspent(B)) + Value(Spent(B)) /\ Value(Unspent(B)) \in Int
  <2>1. Had(B) = Unspent(B) \cup Spent(B) /\ Unspent(B) \cap Spent(B) = {}
    BY DEF Unspent, Closed
  <2>2. Unspent(B) \in SUBSET Coins /\ IsFiniteSet(Unspent(B))
    BY <1>1, FiniteChain
  <2>3. Spent(B) \in SUBSET Coins /\ IsFiniteSet(Spent(B))
    BY <1>2
  <2>. HIDE DEF Had
  <2>. QED
    BY <2>1, <2>2, <2>3, ValueUnion, ValueType
<1>. HIDE DEF Had
<1>. QED
  BY <1>2, <1>4, <1>5, <1>7, <1>8

-----------------------------------------------------------------------------
(***************************************************************************)
(* The inductive invariant.                                                *)
(***************************************************************************)

Reasons == {"value", "dust", "fee", "spent", "conflict", "immature", "script"}

\* What the node has, in a block or not.
Has == mempool \cup mined

\* What a variable may hold, where TypeOK does not say it.
Held ==
  /\ TypeOK
  /\ IsFiniteSet(mempool) /\ IsFiniteSet(mined)
  /\ \A r \in Requests : rate[r] \in Rates
  /\ tx \in [Requests -> Txs \cup {NoTx}]
  /\ seen \in [Requests -> SUBSET Coins] /\ \A r \in Requests : IsFiniteSet(seen[r])
  /\ seenAt \in [Requests -> Nat] /\ counted \in [Requests -> Nat]
  /\ reasons \in [Requests -> SUBSET Reasons]

\* The coins the node has ever known of, whichever blocks were replaced.
Known == InitialCoins \cup Outs(Has)

\* A coin is there once in a history: its id is one of the beginning, or made of
\* that of a coin that is spent.  No two transactions of the node spend the same
\* one, and each part of the chain has what it spends.
Named == Apart(Has, Known) /\ Closed(mined) /\ Closed(mined \ latest)

\* The call has scanned the coins.
Looked(r) == pc[r] = "count" \/ tx[r] # NoTx

\* What a call may use of the coins it has seen.
Usable(r) == spendable(seen[r], counted[r])

\* A transaction is made of the answers its call got.
BuiltBy(r) ==
  /\ pc[r] \in {"new", "estimate", "scan", "count"} => tx[r] = NoTx
  /\ pc[r] \in {"send", "answered", "refused"} => tx[r] # NoTx
  /\ pc[r] # "new" => want[r] \in Transfers
  /\ seen[r] \subseteq Known
  /\ Looked(r) => \A c \in seen[r] : c.owner = want[r].from
  /\ Looked(r) /\ seenAt[r] = tip => seen[r] = Scanned(want[r].from)
  /\ tx[r] # NoTx =>
       /\ ~Insufficient(Usable(r), Need(want[r], rate[r])) /\ Decodes(want[r])
       /\ tx[r] = BuildTransfer(want[r], Usable(r), rate[r])

\* Two scans of one address at one height saw the same.
SameScan ==
  \A q, r \in Requests :
    Looked(q) /\ Looked(r) /\ seenAt[q] = seenAt[r] /\ want[q].from = want[r].from => seen[q] = seen[r]

\* Its values are within what the node takes.
InRange(t) == t.amount <= MaxMoney /\ Value(t.ins) <= MaxMoney

\* What the node has was sent by a call that is over, with its own coins; what was
\* answered it has, and has below the newest block once Status has said so.
Taking ==
  /\ \A t \in Has : \E q \in Requests : tx[q] = t /\ pc[q] \in {"answered", "failed"}
  /\ \A t \in Has : InRange(t) /\ \A c \in t.ins : c.owner = t.signer
  /\ \A r \in Requests :
       /\ pc[r] = "answered" => tx[r] \in Has
       /\ status[r] # "none" => pc[r] = "answered"
       /\ told[r] = 2 => tx[r] \in mined \ latest

Inv == Held /\ Named /\ (\A r \in Requests : BuiltBy(r)) /\ SameScan /\ Taking /\ RefusedForCause

\* The coins of the chain are known ones, each worth something.
LEMMA CoinsAre ==
  ASSUME NEW m, NEW n, IsFiniteSet(m), IsFiniteSet(n), \A t \in m \cup n : Sound(t)
  PROVE  /\ Unspent(n) \subseteq InitialCoins \cup Outs(m \cup n)
         /\ Unspent(n) \in SUBSET Coins /\ IsFiniteSet(Unspent(n))
         /\ InitialCoins \cup Outs(m \cup n) \in SUBSET Coins
         /\ \A c \in Unspent(n) : c.id \in Nat /\ c.owner \in Addresses /\ c.value > 0
<1>1. IsFiniteSet(m \cup n)
  BY FS_Union
<1>2. /\ Unspent(n) \in SUBSET Coins /\ IsFiniteSet(Unspent(n))
      /\ InitialCoins \cup Outs(m \cup n) \in SUBSET Coins
  BY <1>1, FiniteChain
<1>3. Unspent(n) \subseteq InitialCoins \cup Outs(n) /\ Outs(n) \subseteq Outs(m \cup n)
  BY DEF Unspent, Outs
<1>4. \A c \in InitialCoins : c.value > 0
  BY CoinAssumption
<1>5. \A c \in Outs(n) : c.value > 0
  BY OutputIs DEF Outs
<1>6. \A c \in Unspent(n) : c.id \in Nat /\ c.owner \in Addresses
  BY <1>2 DEF Coins
<1>. QED
  BY <1>2, <1>3, <1>4, <1>5, <1>6

\* The same of the chain of the node.
LEMMA ChainIs ==
  ASSUME Inv
  PROVE  /\ coins \subseteq Known /\ coins \in SUBSET Coins /\ IsFiniteSet(coins) /\ Known \in SUBSET Coins
         /\ IsFiniteSet(mempool) /\ IsFiniteSet(mined) /\ IsFiniteSet(Has)
         /\ \A t \in Has : Sound(t) /\ t \in Txs /\ t # NoTx /\ t.ins \in SUBSET Known
<1>1. IsFiniteSet(mempool) /\ IsFiniteSet(mined) /\ IsFiniteSet(Has)
  BY FS_Union DEF Inv, Held, Has
<1>2. \A t \in Has : Sound(t) /\ t.ins \in SUBSET Known
  BY DEF Inv, Named, Apart
<1>3. \A t \in Has : t \in Txs /\ t # NoTx
  BY <1>2, CoinAssumption DEF Sound
<1>. QED
  BY <1>1, <1>2, <1>3, CoinsAre DEF coins, Known, Has

-----------------------------------------------------------------------------
(***************************************************************************)
(* What a call builds.                                                     *)
(***************************************************************************)

\* BuildTransfer spends coins it was given; and when the node may take what they
\* are worth and the amount, what is left beyond the amount and the change is the
\* fee for one input.
LEMMA BuildIs ==
  ASSUME NEW w \in Transfers, Decodes(w), NEW cs \in SUBSET Coins, IsFiniteSet(cs), NEW n \in Rates,
         ~Insufficient(cs, Need(w, n)), NEW t, t = BuildTransfer(w, cs, n)
  PROVE  /\ t \in Txs /\ Need(w, n) \in Int
         /\ t.ins \in SUBSET cs /\ t.ins # {} /\ IsFiniteSet(t.ins)
         /\ t.ins = selectUTXOs(cs, Need(w, n))
         /\ t.to = w.to /\ t.back = w.from /\ t.amount = sendSat(w) /\ t.signer = AccountOf[w.wallet]
         /\ t.amount >= 0 /\ InRange(t) => Fee(t) = vSize * n
<1> DEFINE need == Need(w, n)
           ins == selectUTXOs(cs, need)
           v == Value(ins)
           a == sendSat(w)
           f == vSize * n
<1>1. w.amount \in Int /\ AccountOf[w.wallet] \in Addresses /\ w.to \in Addresses /\ w.from \in Addresses
  BY CoinAssumption DEF Decodes
<1>2. f \in Nat /\ MaxMoney \in Nat /\ MaxMoney + f < Word \div 2 /\ Word \div 2 \in Nat
  BY FeeRoom, HalfWord
<1>3. a \in Int
  BY <1>1, Int64Range DEF sendSat
<1>4. need = Int64(a + f)
  BY DEF Need
<1>. HIDE DEF f, a
<1>5. need \in Int /\ (Fits(a + f) => need = a + f)
  BY <1>2, <1>3, <1>4, Int64Range
<1>6. ins \in Taken(cs) /\ v >= need
  BY <1>5, SelectIs
<1>. HIDE DEF need, ins
<1>7. ins \in SUBSET cs /\ ins # {} /\ IsFiniteSet(ins)
  BY <1>6, FS_Subset DEF Taken
<1>8. v \in Int
  BY <1>7, ValueType
<1>. HIDE DEF v
<1>9. t = [ins |-> ins, to |-> w.to, amount |-> a, back |-> w.from,
           change |-> Int64(v - a - f), signer |-> AccountOf[w.wallet]]
  BY DEF BuildTransfer, changeSat, ins, need, v, a, f
<1>10. t.change = Int64(v - a - f) /\ t.amount = a /\ t.ins = ins
  BY <1>9
<1>11. t.change \in Int /\ (Fits(v - a - f) => t.change = v - a - f)
  BY <1>2, <1>3, <1>8, <1>10, Int64Range
<1>12. t \in Txs
  BY <1>1, <1>3, <1>7, <1>9, <1>11 DEF Txs
<1>13. ASSUME t.amount >= 0, InRange(t) PROVE Fee(t) = f
  <2>1. a >= 0 /\ a <= MaxMoney /\ v <= MaxMoney
    BY <1>10, <1>13 DEF InRange, v
  <2>2. need = a + f
    BY <1>2, <1>3, <1>5, <2>1 DEF Fits
  <2>3. v - a - f >= 0 /\ v - a - f < Word \div 2
    BY <1>2, <1>3, <1>6, <1>8, <2>1, <2>2
  <2>4. t.change = v - a - f
    BY <1>2, <1>3, <1>8, <1>11, <2>3 DEF Fits
  <2>5. Fee(t) = v - a - (IF t.change > 0 THEN t.change ELSE 0)
    BY <1>10 DEF Fee, HasChange, v
  <2>. QED
    BY <1>2, <1>3, <1>8, <2>3, <2>4, <2>5
<1>. QED
  BY <1>5, <1>7, <1>9, <1>10, <1>12, <1>13 DEF ins, need, a, f

\* The same of the transaction a call holds.
LEMMA HeldTx ==
  ASSUME Inv, NEW r \in Requests, tx[r] # NoTx
  PROVE  /\ tx[r] \in Txs /\ want[r] \in Transfers /\ rate[r] \in Rates /\ rate[r] \in Nat
         /\ tx[r].ins \in SUBSET Usable(r) /\ tx[r].ins # {} /\ IsFiniteSet(tx[r].ins)
         /\ Usable(r) \in SUBSET seen[r] /\ Usable(r) \in SUBSET Coins /\ IsFiniteSet(Usable(r))
         /\ Need(want[r], rate[r]) \in Int
         /\ tx[r].ins = selectUTXOs(Usable(r), Need(want[r], rate[r]))
         /\ tx[r].to = want[r].to /\ tx[r].back = want[r].from /\ tx[r].amount = sendSat(want[r])
         /\ tx[r].signer = AccountOf[want[r].wallet]
         /\ tx[r].change \in Int /\ tx[r].amount \in Int
         /\ tx[r].amount >= 0 /\ InRange(tx[r]) => Fee(tx[r]) = vSize * rate[r]
<1>1. want[r] \in Transfers /\ rate[r] \in Rates /\ tx[r] \in Txs /\ rate[r] \in Nat
  BY DEF Inv, BuiltBy, Held, TypeOK
<1>2. Usable(r) \in SUBSET seen[r] /\ Usable(r) \in SUBSET Coins /\ IsFiniteSet(Usable(r))
  <2>1. seen[r] \in SUBSET Coins /\ IsFiniteSet(seen[r])
    BY DEF Inv, Held
  <2>2. Usable(r) \in SUBSET seen[r]
    BY DEF Usable, spendable
  <2>. QED
    BY <2>1, <2>2, FS_Subset
<1>3. /\ ~Insufficient(Usable(r), Need(want[r], rate[r])) /\ Decodes(want[r])
      /\ tx[r] = BuildTransfer(want[r], Usable(r), rate[r])
  BY DEF Inv, BuiltBy
<1>4. tx[r].change \in Int /\ tx[r].amount \in Int
  BY <1>1 DEF Txs
<1>. QED
  BY <1>1, <1>2, <1>3, <1>4, BuildIs

\* The transactions of the node are those of calls.
LEMMA NodeTx ==
  ASSUME Inv, NEW t \in Has
  PROVE  /\ \E q \in Requests : tx[q] = t /\ tx[q] # NoTx /\ pc[q] \in {"answered", "failed"}
         /\ Sound(t) /\ InRange(t)
<1>1. PICK q \in Requests : tx[q] = t /\ pc[q] \in {"answered", "failed"}
  BY DEF Inv, Taking
<1>2. Sound(t) /\ t # NoTx /\ InRange(t)
  BY ChainIs DEF Inv, Taking
<1>. QED
  BY <1>1, <1>2

-----------------------------------------------------------------------------
(***************************************************************************)
(* The steps of a call up to the broadcast.                                *)
(***************************************************************************)

\* They leave the node and the other calls alone, and the call sends nothing.
LEMMA EarlyInv ==
  ASSUME Inv, NEW r \in Requests, pc[r] \in {"new", "estimate", "scan", "count"},
         UNCHANGED <<nodeVars, reasons, status, told>>,
         \A q \in Requests : q # r =>
           /\ pc'[q] = pc[q] /\ want'[q] = want[q] /\ rate'[q] = rate[q] /\ seen'[q] = seen[q]
           /\ seenAt'[q] = seenAt[q] /\ counted'[q] = counted[q] /\ tx'[q] = tx[q],
         pc'[r] \in {"estimate", "scan", "count", "send", "failed"},
         Held', BuiltBy(r)',
         \/ pc'[r] # "count" /\ tx'[r] = NoTx
         \/ seenAt'[r] = tip /\ seen'[r] = Scanned(want'[r].from)
         \/ pc[r] = "count" /\ seenAt'[r] = seenAt[r] /\ seen'[r] = seen[r] /\ want'[r] = want[r]
  PROVE  Inv'
<1>1. /\ tip' = tip /\ coins' = coins /\ mempool' = mempool /\ mined' = mined /\ latest' = latest
      /\ Has' = Has /\ reasons' = reasons /\ status' = status /\ told' = told
  BY DEF nodeVars, coins, Has
<1>2. tx[r] = NoTx
  BY DEF Inv, BuiltBy
<1>3. Known' = Known /\ Named'
  BY <1>1 DEF Inv, Named, Known
<1>4. \A q \in Requests : BuiltBy(q)'
  <2>1. SUFFICES ASSUME NEW q \in Requests, q # r PROVE BuiltBy(q)'
    OBVIOUS
  <2>2. (Looked(q)' <=> Looked(q)) /\ Usable(q)' = Usable(q) /\ \A a : Scanned(a)' = Scanned(a)
    BY <1>1, <2>1 DEF Looked, Usable, Scanned, coins
  <2>3. BuiltBy(q)
    BY DEF Inv
  <2>. QED
    BY <1>1, <1>3, <2>1, <2>2, <2>3 DEF BuiltBy
<1>5. SameScan'
  <2>1. SUFFICES ASSUME NEW p \in Requests, NEW q \in Requests, Looked(p)', Looked(q)', seenAt'[p] = seenAt'[q],
                        want'[p].from = want'[q].from
                 PROVE  seen'[p] = seen'[q]
    BY DEF SameScan
  <2>2. ASSUME NEW x \in Requests, Looked(x)'
        PROVE  \/ Looked(x) /\ seenAt'[x] = seenAt[x] /\ seen'[x] = seen[x] /\ want'[x] = want[x]
               \/ seenAt'[x] = tip /\ seen'[x] = Scanned(want'[x].from)
    BY <2>2 DEF Looked
  <2>3. \A x \in Requests : Looked(x) /\ seenAt[x] = tip => seen[x] = Scanned(want[x].from)
    BY DEF Inv, BuiltBy
  <2>4. \A x, y \in Requests :
          Looked(x) /\ Looked(y) /\ seenAt[x] = seenAt[y] /\ want[x].from = want[y].from => seen[x] = seen[y]
    BY DEF Inv, SameScan
  <2>5. /\ \/ Looked(p) /\ seenAt'[p] = seenAt[p] /\ seen'[p] = seen[p] /\ want'[p] = want[p]
           \/ seenAt'[p] = tip /\ seen'[p] = Scanned(want'[p].from)
        /\ \/ Looked(q) /\ seenAt'[q] = seenAt[q] /\ seen'[q] = seen[q] /\ want'[q] = want[q]
           \/ seenAt'[q] = tip /\ seen'[q] = Scanned(want'[q].from)
    BY <2>1, <2>2
  <2>. QED
    BY <2>1, <2>3, <2>4, <2>5
<1>6. Taking'
  <2>1. \A t \in Has : \E q \in Requests : q # r /\ tx[q] = t /\ pc[q] \in {"answered", "failed"}
    BY <1>2, NodeTx
  <2>2. Taking
    BY DEF Inv
  <2>3. status[r] = "none" /\ told[r] # 2
    <3>1. NoTx \notin mined
      BY ChainIs DEF Has
    <3>. QED
      BY <1>2, <2>2, <3>1 DEF Taking
  <2>4. \A t \in Has' : \E q \in Requests : tx'[q] = t /\ pc'[q] \in {"answered", "failed"}
    BY <1>1, <2>1
  <2>5. \A t \in Has' : InRange(t) /\ \A c \in t.ins : c.owner = t.signer
    BY <1>1, <2>2 DEF Taking
  <2>6. ASSUME NEW q \in Requests
        PROVE  /\ pc'[q] = "answered" => tx'[q] \in Has'
               /\ status'[q] # "none" => pc'[q] = "answered"
               /\ told'[q] = 2 => tx'[q] \in mined' \ latest'
    BY <1>1, <2>2, <2>3 DEF Taking
  <2>. QED
    BY <2>4, <2>5, <2>6 DEF Taking
<1>7. RefusedForCause'
  <2>1. SUFFICES ASSUME NEW q \in Requests, q # r, pc'[q] = "refused"
                 PROVE  /\ "immature" \notin reasons'[q]
                        /\ reasons'[q] \cap {"spent", "conflict"} # {} =>
                             \E p \in Requests \ {q} :
                               tx'[p] \in mempool' \cup mined' /\ tx'[p].ins \cap tx'[q].ins # {}
                        /\ "dust" \in reasons'[q] => IsDust(sendSat(want'[q])) \/ tx'[q].change \in 1..545
                        /\ "fee" \in reasons'[q] => Cardinality(tx'[q].ins) > 1 \/ rate'[q] = 0 \/ "value" \in reasons'[q]
    BY DEF RefusedForCause
  <2>2. pc[q] = "refused" /\ tx'[q] = tx[q] /\ want'[q] = want[q] /\ rate'[q] = rate[q]
    BY <2>1
  <2>3. /\ "immature" \notin reasons[q]
        /\ reasons[q] \cap {"spent", "conflict"} # {} =>
             \E p \in Requests \ {q} : tx[p] \in mempool \cup mined /\ tx[p].ins \cap tx[q].ins # {}
        /\ "dust" \in reasons[q] => IsDust(sendSat(want[q])) \/ tx[q].change \in 1..545
        /\ "fee" \in reasons[q] => Cardinality(tx[q].ins) > 1 \/ rate[q] = 0 \/ "value" \in reasons[q]
    BY <2>2 DEF Inv, RefusedForCause
  <2>4. NoTx \notin mempool \cup mined
    BY ChainIs DEF Has
  <2>5. \A p \in Requests : tx[p] \in mempool \cup mined => tx'[p] = tx[p]
    BY <1>2, <2>4
  <2>. QED
    BY <1>1, <2>2, <2>3, <2>5
<1>. QED
  BY <1>3, <1>4, <1>5, <1>6, <1>7 DEF Inv

\* The types of what the steps of calls change.
LEMMA CallTypes ==
  ASSUME Inv
  PROVE  /\ pc \in [Requests -> Stages] /\ want \in [Requests -> Transfers \cup {NoTransfer}]
         /\ rate \in [Requests -> Nat] /\ tx \in [Requests -> Txs \cup {NoTx}]
         /\ seen \in [Requests -> SUBSET Coins] /\ seenAt \in [Requests -> Nat] /\ counted \in [Requests -> Nat]
         /\ faults \in Nat /\ tip \in Nat
BY CoinAssumption DEF Inv, Held, TypeOK

\* A failing call stays within the bound on faults.
LEMMA FaultBound ==
  ASSUME Inv, NEW call, Fails(call) \/ UNCHANGED faults
  PROVE  faults' \in 0..MaxFaults
BY CoinAssumption DEF Inv, Held, TypeOK, Fails

\* Transfer's checks before the chain is asked.
LEMMA BeginInv == ASSUME Inv, NEW r \in Requests, Begin(r) PROVE Inv'
<1>1. /\ pc[r] = "new" /\ UNCHANGED <<nodeVars, rate, seen, seenAt, counted, tx, reasons, status, told>>
      /\ pc' = [pc EXCEPT ![r] = "estimate"] \/ pc' = [pc EXCEPT ![r] = "failed"]
      /\ faults' \in 0..MaxFaults
  BY FaultBound DEF Begin, Goes
<1>2. PICK w \in Transfers : want' = [want EXCEPT ![r] = w]
  BY DEF Begin
<1>3. tx[r] = NoTx /\ BuiltBy(r)
  BY <1>1 DEF Inv, BuiltBy
<1>4. Held'
  <2>1. pc' \in [Requests -> Stages] /\ want' \in [Requests -> Transfers \cup {NoTransfer}]
    BY <1>1, <1>2, CallTypes DEF Stages
  <2>. QED
    BY <1>1, <2>1 DEF Inv, Held, TypeOK, nodeVars, coins
<1>5. pc'[r] \in {"estimate", "failed"} /\ want'[r] \in Transfers /\ tx'[r] = NoTx
  BY <1>1, <1>2, <1>3, CallTypes
<1>6. BuiltBy(r)'
  BY <1>1, <1>3, <1>5 DEF BuiltBy, Looked, Known, Has, nodeVars
<1>7. \A q \in Requests : q # r => pc'[q] = pc[q] /\ want'[q] = want[q]
  BY <1>1, <1>2, CallTypes
<1>. QED
  BY <1>1, <1>4, <1>5, <1>6, <1>7, EarlyInv

\* The estimate of the rate.
LEMMA EstimateFeeInv == ASSUME Inv, NEW r \in Requests, EstimateFee(r) PROVE Inv'
<1>1. /\ pc[r] = "estimate" /\ UNCHANGED <<nodeVars, want, seen, seenAt, counted, tx, reasons, status, told, faults>>
      /\ pc' = [pc EXCEPT ![r] = "scan"]
  BY DEF EstimateFee, Goes
<1>2. PICK n \in NodeRates \cup {fallbackFeeRate(want[r].speed)} : rate' = [rate EXCEPT ![r] = n]
  BY DEF EstimateFee
<1>3. n \in Rates /\ n \in Nat
  <2>1. n \in Rates
    BY FallbackRate DEF Rates
  <2>. QED
    BY <2>1, FeeRoom
<1>4. tx[r] = NoTx /\ BuiltBy(r)
  BY <1>1 DEF Inv, BuiltBy
<1>5. Held'
  <2>1. pc' \in [Requests -> Stages] /\ rate' \in [Requests -> Nat]
    BY <1>1, <1>2, <1>3, CallTypes DEF Stages
  <2>2. \A q \in Requests : rate'[q] \in Rates
    BY <1>2, <1>3 DEF Inv, Held, TypeOK
  <2>. QED
    BY <1>1, <2>1, <2>2 DEF Inv, Held, TypeOK, nodeVars, coins
<1>6. pc'[r] = "scan" /\ tx'[r] = NoTx /\ \A q \in Requests : q # r => pc'[q] = pc[q] /\ rate'[q] = rate[q]
  BY <1>1, <1>2, <1>4, CallTypes
<1>7. BuiltBy(r)'
  BY <1>1, <1>4, <1>6 DEF BuiltBy, Looked, Known, Has, nodeVars
<1>. QED
  BY <1>1, <1>5, <1>6, <1>7, EarlyInv

\* The scan: what it sees is what the chain has at this height.
LEMMA fetchUTXOsInv == ASSUME Inv, NEW r \in Requests, fetchUTXOs(r) PROVE Inv'
<1>1. /\ pc[r] = "scan" /\ UNCHANGED <<nodeVars, want, rate, counted, tx, reasons, status, told>>
      /\ faults' \in 0..MaxFaults
  BY FaultBound DEF fetchUTXOs
<1>2. tx[r] = NoTx /\ tx'[r] = NoTx /\ BuiltBy(r)
  BY <1>1 DEF Inv, BuiltBy
<1> DEFINE S == Scanned(want[r].from)
<1>3. S \in SUBSET Known /\ S \in SUBSET Coins /\ IsFiniteSet(S) /\ \A c \in S : c.owner = want[r].from
  <2>1. S \in SUBSET coins /\ \A c \in S : c.owner = want[r].from
    BY DEF Scanned
  <2>2. coins \in SUBSET Coins /\ IsFiniteSet(coins)
    BY ChainIs
  <2>. QED
    BY <2>1, <2>2, ChainIs, FS_Subset
<1>. HIDE DEF S
<1>4. CASE /\ seen' = [seen EXCEPT ![r] = S] /\ seenAt' = [seenAt EXCEPT ![r] = tip]
           /\ pc' = [pc EXCEPT ![r] = "count"]
  <2>1. /\ seen' \in [Requests -> SUBSET Coins] /\ seen'[r] = S
        /\ seenAt' \in [Requests -> Nat] /\ seenAt'[r] = tip
        /\ pc' \in [Requests -> Stages] /\ pc'[r] = "count"
        /\ \A q \in Requests : q # r => seen'[q] = seen[q] /\ seenAt'[q] = seenAt[q] /\ pc'[q] = pc[q]
    BY <1>3, <1>4, CallTypes DEF Stages
  <2>2. \A q \in Requests : IsFiniteSet(seen'[q]) /\ seenAt'[q] \in 0..tip
    BY <1>3, <2>1, CallTypes DEF Inv, Held, TypeOK
  <2>3. Held'
    BY <1>1, <2>1, <2>2 DEF Inv, Held, TypeOK, nodeVars, coins
  <2>4. BuiltBy(r)'
    <3>1. \A a : Scanned(a)' = Scanned(a)
      BY <1>1 DEF Scanned, nodeVars, coins
    <3>. QED
      BY <1>1, <1>2, <1>3, <2>1, <3>1 DEF BuiltBy, Known, Has, nodeVars, S
  <2>. QED
    BY <1>1, <2>1, <2>3, <2>4, EarlyInv DEF S
<1>5. CASE pc' = [pc EXCEPT ![r] = "failed"] /\ UNCHANGED <<seen, seenAt>>
  <2>1. /\ pc' \in [Requests -> Stages] /\ pc'[r] = "failed"
        /\ \A q \in Requests : q # r => pc'[q] = pc[q]
    BY <1>5, CallTypes DEF Stages
  <2>2. Held'
    BY <1>1, <1>5, <2>1 DEF Inv, Held, TypeOK, nodeVars, coins
  <2>3. BuiltBy(r)'
    BY <1>1, <1>2, <1>5, <2>1 DEF BuiltBy, Looked, Known, Has, nodeVars
  <2>. QED
    BY <1>1, <1>2, <1>5, <2>1, <2>2, <2>3, EarlyInv
<1>. QED
  BY <1>4, <1>5 DEF fetchUTXOs, Goes, S

\* The height is read and the transaction built of what the call was told.
LEMMA BuildInv == ASSUME Inv, NEW r \in Requests, Build(r) PROVE Inv'
<1> DEFINE usable == spendable(seen[r], tip)
           fails == Insufficient(usable, Need(want[r], rate[r])) \/ ~Decodes(want[r])
<1>1. /\ pc[r] = "count" /\ UNCHANGED <<nodeVars, want, rate, seen, seenAt, reasons, status, told>>
      /\ faults' \in 0..MaxFaults
  BY FaultBound DEF Build
<1>2. tx[r] = NoTx /\ BuiltBy(r) /\ want[r] \in Transfers /\ Looked(r)
  BY <1>1 DEF Inv, BuiltBy, Looked
<1>3. CASE /\ ~fails /\ tx' = [tx EXCEPT ![r] = BuildTransfer(want[r], usable, rate[r])]
           /\ counted' = [counted EXCEPT ![r] = tip] /\ pc' = [pc EXCEPT ![r] = "send"]
  <2>1. usable \in SUBSET Coins /\ IsFiniteSet(usable)
    <3>1. seen[r] \in SUBSET Coins /\ IsFiniteSet(seen[r])
      BY DEF Inv, Held
    <3>2. usable \in SUBSET seen[r]
      BY DEF spendable
    <3>. QED
      BY <3>1, <3>2, FS_Subset
  <2>2. BuildTransfer(want[r], usable, rate[r]) \in Txs
    BY <1>2, <1>3, <2>1, BuildIs DEF Inv, Held
  <2>3. /\ tx' \in [Requests -> Txs \cup {NoTx}] /\ tx'[r] = BuildTransfer(want[r], usable, rate[r])
        /\ counted' \in [Requests -> Nat] /\ counted'[r] = tip
        /\ pc' \in [Requests -> Stages] /\ pc'[r] = "send"
        /\ \A q \in Requests : q # r => tx'[q] = tx[q] /\ counted'[q] = counted[q] /\ pc'[q] = pc[q]
    <3>. HIDE DEF usable
    <3>. QED
      BY <1>3, <2>2, CallTypes DEF Stages
  <2>4. \A q \in Requests : counted'[q] \in 0..tip
    BY <2>3, CallTypes DEF Inv, Held, TypeOK
  <2>5. Held'
    BY <1>1, <2>3, <2>4 DEF Inv, Held, TypeOK, nodeVars, coins
  <2>6. BuiltBy(r)'
    <3>1. Usable(r)' = usable /\ \A a : Scanned(a)' = Scanned(a)
      BY <1>1, <2>3 DEF Usable, Scanned, nodeVars, coins
    <3>2. tx'[r] # NoTx
      BY <2>2, <2>3, CoinAssumption
    <3>3. ~Insufficient(usable, Need(want[r], rate[r])) /\ Decodes(want[r])
      BY <1>3
    <3>. HIDE DEF usable
    <3>. QED
      BY <1>1, <1>2, <2>3, <3>1, <3>2, <3>3 DEF BuiltBy, Known, Has, nodeVars
  <2>. QED
    BY <1>1, <2>3, <2>5, <2>6, EarlyInv
<1>4. CASE pc' = [pc EXCEPT ![r] = "failed"] /\ UNCHANGED <<tx, counted>>
  <2>1. /\ pc' \in [Requests -> Stages] /\ pc'[r] = "failed"
        /\ \A q \in Requests : q # r => pc'[q] = pc[q]
    BY <1>4, CallTypes DEF Stages
  <2>2. Held'
    BY <1>1, <1>4, <2>1 DEF Inv, Held, TypeOK, nodeVars, coins
  <2>3. BuiltBy(r)'
    BY <1>1, <1>2, <1>4, <2>1 DEF BuiltBy, Looked, Known, Has, nodeVars
  <2>. QED
    BY <1>1, <1>2, <1>4, <2>1, <2>2, <2>3, EarlyInv
<1>. QED
  BY <1>3, <1>4 DEF Build, Goes

-----------------------------------------------------------------------------
(***************************************************************************)
(* The broadcast, and Status.                                              *)
(***************************************************************************)

\* What the node accepts spends known coins of its signer nobody else spends.
LEMMA AcceptableIs ==
  ASSUME Inv, NEW t \in Txs, t.ins # {}, IsFiniteSet(t.ins), Acceptable(t)
  PROVE  /\ t.ins \subseteq Known /\ Sound(t) /\ InRange(t) /\ t \notin mined
         /\ \A u \in Has : t.ins \cap u.ins # {} => t = u
         /\ \A c \in t.ins : c.owner = t.signer
<1>1. CASE t \in mempool
  <2>1. t \in Has /\ t \notin mined
    BY <1>1 DEF Has, Inv, Held, TypeOK
  <2>. QED
    BY <2>1 DEF Inv, Named, Apart, Taking
<1>2. CASE Refusals(t) = {}
  <2>1. t.amount \in Int
    BY DEF Txs
  <2>2. /\ ~(t.amount < 0) /\ ~IsDust(t.amount) /\ t.ins \subseteq coins \cup Outs(mempool)
        /\ \A v \in {t.amount, t.change, Value(t.ins)} : ~(v > MaxMoney)
        /\ t.ins \cap Spent(mempool) = {} /\ \A c \in t.ins : c.owner = t.signer
    <3>1. "value" \notin Refusals(t) /\ "dust" \notin Refusals(t) /\ "spent" \notin Refusals(t)
          /\ "conflict" \notin Refusals(t) /\ "script" \notin Refusals(t)
      BY <1>2
    <3>. QED
      BY <3>1 DEF Refusals
  <2>3. t.amount > 0
    BY <2>1, <2>2 DEF IsDust
  <2>4. InRange(t)
    <3>1. Value(t.ins) \in Int /\ MaxMoney \in Int
      BY ValueType, AmountAssumption DEF Txs
    <3>. QED
      BY <2>1, <2>2, <3>1 DEF InRange
  <2>5. t.ins \subseteq Known
    BY <2>2, ChainIs DEF Known, Outs, Has
  <2>6. t.ins \cap Spent(mined) = {}
    <3>1. SUFFICES ASSUME NEW c \in t.ins, c \in Spent(mined), c \notin coins PROVE FALSE
      BY DEF coins, Unspent
    <3>2. PICK m \in mempool : c \in Outputs(m)
      BY <2>2, <3>1 DEF Outs
    <3>3. Apart(Has, Known) /\ m \in Has
      BY DEF Inv, Named, Has
    <3>4. c \notin InitialCoins
      BY <3>2, <3>3, OutputOnce
    <3>5. c \in InitialCoins \cup Outs(mined)
      BY <3>1 DEF Inv, Named, Closed
    <3>6. PICK u \in mined : c \in Outputs(u)
      BY <3>4, <3>5 DEF Outs
    <3>7. u = m
      BY <3>2, <3>3, <3>6, OutputOnce DEF Has
    <3>. QED
      BY <3>7 DEF Inv, Held, TypeOK
  <2>7. \A u \in Has : t.ins \cap u.ins = {}
    BY <2>2, <2>6 DEF Spent, Has
  <2>8. t \notin mined
    BY <2>7 DEF Has
  <2>9. Sound(t)
    BY <2>3 DEF Sound
  <2>. QED
    BY <2>2, <2>4, <2>5, <2>7, <2>8, <2>9
<1>. QED
  BY <1>1, <1>2 DEF Acceptable

\* A refusal has its cause, at the moment it is made.
LEMMA RefusalIs ==
  ASSUME Inv, NEW r \in Requests, pc[r] = "send", ~Acceptable(tx[r])
  PROVE  LET why == Refusals(tx[r])
         IN  /\ "immature" \notin why
             /\ why \cap {"spent", "conflict"} # {} =>
                  \E q \in Requests \ {r} : tx[q] \in Has /\ tx[q].ins \cap tx[r].ins # {}
             /\ "dust" \in why => IsDust(sendSat(want[r])) \/ tx[r].change \in 1..545
             /\ "fee" \in why => Cardinality(tx[r].ins) > 1 \/ rate[r] = 0 \/ "value" \in why
<1> DEFINE t == tx[r]
           why == Refusals(t)
<1>1. t # NoTx
  BY DEF Inv, BuiltBy
<1>2. /\ t \in Txs /\ want[r] \in Transfers /\ rate[r] \in Nat
      /\ t.ins \in SUBSET Usable(r) /\ t.ins # {} /\ IsFiniteSet(t.ins)
      /\ Usable(r) \in SUBSET seen[r] /\ Usable(r) \in SUBSET Coins
      /\ t.amount = sendSat(want[r]) /\ t.change \in Int /\ t.amount \in Int
      /\ t.amount >= 0 /\ InRange(t) => Fee(t) = vSize * rate[r]
  BY <1>1, HeldTx
<1>. HIDE DEF t
<1>3. "immature" \notin why
  <2>1. SUFFICES ASSUME NEW c \in t.ins, c.coinbase, tip + 1 < c.height + 100 PROVE FALSE
    BY DEF Refusals
  <2>2. Matured(c, counted[r]) /\ c \in Coins
    BY <1>2 DEF Usable, spendable
  <2>3. counted[r] - c.height >= 99
    BY <2>1, <2>2 DEF Matured
  <2>4. counted[r] \in 0..tip /\ tip \in Nat /\ c.height \in Nat
    BY <2>2, CallTypes DEF Inv, Held, TypeOK, Coins
  <2>. QED
    BY <2>1, <2>3, <2>4
<1>4. ASSUME NEW u \in Has, u.ins \cap t.ins # {}
      PROVE  \E q \in Requests \ {r} : tx[q] \in Has /\ tx[q].ins \cap t.ins # {}
  BY <1>4, NodeTx
<1>5. ASSUME why \cap {"spent", "conflict"} # {}
      PROVE  \E u \in Has : u.ins \cap t.ins # {}
  <2>1. CASE "conflict" \in why
    <3>1. t.ins \cap Spent(mempool) # {}
      BY <2>1 DEF Refusals
    <3>. QED
      BY <3>1 DEF Spent, Has
  <2>2. CASE "spent" \in why
    <3>1. ~(t.ins \subseteq coins \cup Outs(mempool))
      BY <2>2 DEF Refusals
    <3>2. seen[r] \subseteq InitialCoins \cup Outs(mempool \cup mined)
      BY DEF Inv, BuiltBy, Known, Has
    <3>3. Outs(mempool \cup mined) = Outs(mempool) \cup Outs(mined)
      BY DEF Outs
    <3>4. PICK c \in t.ins : c \in Spent(mined)
      BY <1>2, <3>1, <3>2, <3>3 DEF coins, Unspent
    <3>. QED
      BY <3>4 DEF Spent, Has
  <2>. QED
    BY <1>5, <2>1, <2>2
<1>6. "dust" \in why => IsDust(sendSat(want[r])) \/ t.change \in 1..545
  <2>1. "dust" \in why => IsDust(t.amount) \/ (t.change > 0 /\ IsDust(t.change))
    BY DEF Refusals, HasChange
  <2>. QED
    BY <1>2, <2>1 DEF IsDust
<1>7. ASSUME "fee" \in why, rate[r] # 0, "value" \notin why PROVE Cardinality(t.ins) > 1
  <2>1. Fee(t) < Size(t)
    BY <1>7 DEF Refusals
  <2>2. Cardinality(t.ins) \in Nat /\ Cardinality(t.ins) # 0
    BY <1>2, FS_CardinalityType, FS_EmptySet
  <2>3. SUFFICES ASSUME Cardinality(t.ins) = 1 PROVE FALSE
    BY <2>2
  <2>4. Size(t) = 226 \/ Size(t) = 192
    BY <2>3 DEF Size
  <2>5. t.amount >= 0 /\ InRange(t)
    <3>1. ~(t.amount < 0) /\ \A v \in {t.amount, t.change, Value(t.ins)} : ~(v > MaxMoney)
      BY <1>7 DEF Refusals
    <3>2. Value(t.ins) \in Int /\ MaxMoney \in Int
      BY <1>2, ValueType, AmountAssumption
    <3>. QED
      BY <1>2, <3>1, <3>2 DEF InRange
  <2>6. Fee(t) = 226 * rate[r]
    BY <1>2, <2>5 DEF vSize
  <2>. QED
    BY <1>2, <1>7, <2>1, <2>4, <2>6
<1>. QED
  BY <1>3, <1>4, <1>5, <1>6, <1>7 DEF t

\* The node takes or refuses the transaction, and the answer may be lost.
LEMMA BroadcastInv == ASSUME Inv, NEW r \in Requests, Broadcast(r) PROVE Inv'
<1> DEFINE t == tx[r]
<1>1. /\ pc[r] = "send" /\ UNCHANGED <<tip, mined, latest, want, rate, seen, seenAt, counted, tx, status, told>>
      /\ coins' = coins /\ faults' \in 0..MaxFaults
  BY FaultBound DEF Broadcast, coins
<1>2. t # NoTx /\ status[r] = "none"
  BY <1>1 DEF Inv, BuiltBy, Taking
<1>3. t \in Txs /\ t.ins # {} /\ IsFiniteSet(t.ins)
  BY <1>2, HeldTx
<1>4. /\ pc' \in [Requests -> Stages] /\ pc'[r] \in {"answered", "refused", "failed"}
      /\ \A q \in Requests : q # r => pc'[q] = pc[q]
  BY <1>1, CallTypes DEF Broadcast, Goes, Stages
<1>5. \/ /\ Acceptable(t) /\ mempool' = mempool \cup {t} /\ pc'[r] \in {"answered", "failed"}
         /\ reasons' = reasons
      \/ /\ ~Acceptable(t) /\ mempool' = mempool /\ pc'[r] = "refused"
         /\ reasons' = [reasons EXCEPT ![r] = Refusals(t)]
      \/ mempool' = mempool /\ pc'[r] = "failed" /\ reasons' = reasons
  BY CallTypes DEF Broadcast, Goes
<1>6. ASSUME Known \subseteq Known', NEW q \in Requests PROVE BuiltBy(q)'
  <2>1. BuiltBy(q)
    BY DEF Inv
  <2>2. (Looked(q)' <=> Looked(q)) /\ Usable(q)' = Usable(q) /\ \A a : Scanned(a)' = Scanned(a)
    BY <1>1, <1>2, <1>4 DEF Looked, Usable, Scanned
  <2>. QED
    BY <1>1, <1>2, <1>4, <1>6, <2>1, <2>2 DEF BuiltBy
<1>7. SameScan'
  <2>1. \A q \in Requests : Looked(q)' <=> Looked(q)
    BY <1>1, <1>2, <1>4 DEF Looked
  <2>. QED
    BY <1>1, <2>1 DEF Inv, SameScan
<1>. HIDE DEF t
<1>8. ASSUME Acceptable(t), mempool' = mempool \cup {t}, pc'[r] \in {"answered", "failed"}, reasons' = reasons
      PROVE  Inv'
  <2>1. /\ t.ins \subseteq Known /\ Sound(t) /\ InRange(t) /\ t \notin mined
        /\ \A u \in Has : t.ins \cap u.ins # {} => t = u
        /\ \A c \in t.ins : c.owner = t.signer
    BY <1>3, <1>8, AcceptableIs
  <2>2. Has' = Has \cup {t} /\ Known \subseteq Known'
    BY <1>1, <1>8 DEF Has, Known, Outs
  <2>3. Named'
    <3>1. Apart(Has, Known)
      BY DEF Inv, Named
    <3>2. Apart(Has', Known)
      BY <2>1, <2>2, <3>1 DEF Apart
    <3>3. Distinct(Known')
      BY <3>2, OutputsDistinct DEF Known
    <3>4. Apart(Has', Known')
      BY <2>2, <3>2, <3>3 DEF Apart
    <3>. QED
      BY <1>1, <3>4 DEF Inv, Named
  <2>4. Held'
    <3>1. IsFiniteSet(mempool')
      BY <1>8, FS_AddElement DEF Inv, Held
    <3>2. t.to \in Addresses /\ t.amount > 0 /\ t.ins # {}
      BY <2>1 DEF Sound, Txs
    <3>3. \A u \in mempool' \cup mined' : u.to \in Addresses /\ u.amount > 0 /\ u.ins # {}
      BY <1>1, <1>8, <3>2 DEF Inv, Held, TypeOK
    <3>4. mempool' \cap mined' = {}
      BY <1>1, <1>8, <2>1 DEF Inv, Held, TypeOK
    <3>. QED
      BY <1>1, <1>4, <1>8, <3>1, <3>3, <3>4 DEF Inv, Held, TypeOK
  <2>5. Taking'
    <3>1. ASSUME NEW u \in Has'
          PROVE  /\ \E q \in Requests : tx'[q] = u /\ pc'[q] \in {"answered", "failed"}
                 /\ InRange(u) /\ \A c \in u.ins : c.owner = u.signer
      <4>1. CASE u = t
        BY <1>1, <1>8, <2>1, <4>1 DEF t
      <4>2. CASE u \in Has
        <5>1. PICK q \in Requests : tx[q] = u /\ pc[q] \in {"answered", "failed"}
          BY <4>2, NodeTx
        <5>2. q # r
          BY <1>1, <5>1
        <5>. QED
          BY <1>1, <1>4, <4>2, <5>1, <5>2 DEF Inv, Taking
      <4>. QED
        BY <2>2, <4>1, <4>2
    <3>2. ASSUME NEW q \in Requests
          PROVE  /\ pc'[q] = "answered" => tx'[q] \in Has'
                 /\ status'[q] # "none" => pc'[q] = "answered"
                 /\ told'[q] = 2 => tx'[q] \in mined' \ latest'
      <4>1. /\ pc[q] = "answered" => tx[q] \in Has
            /\ status[q] # "none" => pc[q] = "answered"
            /\ told[q] = 2 => tx[q] \in mined \ latest
        BY DEF Inv, Taking
      <4>2. CASE q = r
        BY <1>1, <1>2, <2>2, <4>1, <4>2 DEF t
      <4>3. CASE q # r
        BY <1>1, <1>4, <2>2, <4>1, <4>3
      <4>. QED
        BY <4>2, <4>3
    <3>. QED
      BY <3>1, <3>2 DEF Taking
  <2>6. RefusedForCause'
    BY <1>1, <1>4, <1>8 DEF Inv, RefusedForCause
  <2>. QED
    BY <1>6, <1>7, <2>2, <2>3, <2>4, <2>5, <2>6 DEF Inv
<1>9. ASSUME mempool' = mempool, pc'[r] \in {"refused", "failed"}
      PROVE  Named' /\ Taking' /\ \A q \in Requests : BuiltBy(q)'
  <2>1. Has' = Has /\ Known' = Known
    BY <1>1, <1>9 DEF Has, Known
  <2>2. Named'
    BY <1>1, <2>1 DEF Inv, Named
  <2>3. \A u \in Has : \E q \in Requests : tx'[q] = u /\ pc'[q] \in {"answered", "failed"}
    <3>1. SUFFICES ASSUME NEW u \in Has
                   PROVE  \E q \in Requests : tx'[q] = u /\ pc'[q] \in {"answered", "failed"}
      OBVIOUS
    <3>2. PICK q \in Requests : tx[q] = u /\ pc[q] \in {"answered", "failed"}
      BY NodeTx
    <3>. QED
      BY <1>1, <1>4, <3>2
  <2>4. ASSUME NEW q \in Requests
        PROVE  /\ pc'[q] = "answered" => tx'[q] \in Has'
               /\ status'[q] # "none" => pc'[q] = "answered"
               /\ told'[q] = 2 => tx'[q] \in mined' \ latest'
    BY <1>1, <1>2, <1>4, <1>9, <2>1 DEF Inv, Taking
  <2>. QED
    BY <1>1, <1>6, <2>1, <2>2, <2>3, <2>4 DEF Inv, Taking
<1>10. ASSUME ~Acceptable(t), mempool' = mempool, pc'[r] = "refused", reasons' = [reasons EXCEPT ![r] = Refusals(t)]
       PROVE  Inv'
  <2>1. /\ reasons' \in [Requests -> SUBSET Reasons] /\ reasons'[r] = Refusals(t)
        /\ \A q \in Requests : q # r => reasons'[q] = reasons[q]
    <3>1. Refusals(t) \in SUBSET Reasons
      BY DEF Refusals, Reasons
    <3>. QED
      BY <1>10, <3>1 DEF Inv, Held
  <2>2. Held'
    BY <1>1, <1>4, <1>10, <2>1 DEF Inv, Held, TypeOK
  <2>3. RefusedForCause'
    <3>1. LET why == Refusals(t)
          IN  /\ "immature" \notin why
              /\ why \cap {"spent", "conflict"} # {} =>
                   \E q \in Requests \ {r} : tx[q] \in mempool \cup mined /\ tx[q].ins \cap tx[r].ins # {}
              /\ "dust" \in why => IsDust(sendSat(want[r])) \/ tx[r].change \in 1..545
              /\ "fee" \in why => Cardinality(tx[r].ins) > 1 \/ rate[r] = 0 \/ "value" \in why
      BY <1>1, <1>10, RefusalIs DEF t, Has
    <3>2. SUFFICES ASSUME NEW q \in Requests, pc'[q] = "refused"
                   PROVE  /\ "immature" \notin reasons'[q]
                          /\ reasons'[q] \cap {"spent", "conflict"} # {} =>
                               \E p \in Requests \ {q} :
                                 tx'[p] \in mempool' \cup mined' /\ tx'[p].ins \cap tx'[q].ins # {}
                          /\ "dust" \in reasons'[q] => IsDust(sendSat(want'[q])) \/ tx'[q].change \in 1..545
                          /\ "fee" \in reasons'[q] =>
                               Cardinality(tx'[q].ins) > 1 \/ rate'[q] = 0 \/ "value" \in reasons'[q]
      BY DEF RefusedForCause
    <3>3. tx' = tx /\ want' = want /\ rate' = rate /\ mined' = mined /\ mempool' = mempool
      BY <1>1, <1>10
    <3>4. CASE q = r
      BY <2>1, <3>1, <3>3, <3>4
    <3>5. CASE q # r
      <4>1. pc[q] = "refused" /\ reasons'[q] = reasons[q]
        BY <1>4, <2>1, <3>2, <3>5
      <4>2. RefusedForCause
        BY DEF Inv
      <4>. QED
        BY <3>3, <4>1, <4>2 DEF RefusedForCause
    <3>. QED
      BY <3>4, <3>5
  <2>. QED
    BY <1>7, <1>9, <1>10, <2>2, <2>3 DEF Inv
<1>11. ASSUME mempool' = mempool, pc'[r] = "failed", reasons' = reasons
       PROVE  Inv'
  <2>1. Held'
    BY <1>1, <1>4, <1>11 DEF Inv, Held, TypeOK
  <2>2. RefusedForCause'
    BY <1>1, <1>4, <1>11 DEF Inv, RefusedForCause
  <2>. QED
    BY <1>7, <1>9, <1>11, <2>1, <2>2 DEF Inv
<1>. QED
  BY <1>5, <1>8, <1>10, <1>11

\* Status asks for a transaction that was answered.
LEMMA GetTransactionInv == ASSUME Inv, NEW r \in Requests, GetTransaction(r) PROVE Inv'
<1>1. /\ pc[r] = "answered" /\ UNCHANGED <<nodeVars, pc, want, rate, seen, seenAt, counted, tx, reasons>>
      /\ faults' \in 0..MaxFaults
  BY FaultBound DEF GetTransaction
<1>2. coins' = coins /\ Has' = Has /\ Known' = Known
  BY <1>1 DEF nodeVars, coins, Has, Known
<1>3. tx[r] \in Has
  BY <1>1 DEF Inv, Taking
<1>4. /\ status' \in [Requests -> {"none", "pending", "confirmed", "unknown"}] /\ told' \in [Requests -> 0..2]
      /\ \A q \in Requests : q # r => status'[q] = status[q] /\ told'[q] = told[q]
      /\ told'[r] = told[r] \/ (told'[r] = 2 => tx[r] \in mined \ latest)
  <2>1. status \in [Requests -> {"none", "pending", "confirmed", "unknown"}] /\ told \in [Requests -> 0..2]
    BY DEF Inv, Held, TypeOK
  <2>2. Confirmations(tx[r]) \in 0..2 /\ (Confirmations(tx[r]) = 2 => tx[r] \in mined \ latest)
    BY DEF Confirmations
  <2>. HIDE DEF Confirmations
  <2>. QED
    BY <2>1, <2>2 DEF GetTransaction, StatusOf
<1>5. Held'
  BY <1>1, <1>2, <1>4 DEF Inv, Held, TypeOK, nodeVars
<1>6. Taking'
  BY <1>1, <1>2, <1>4 DEF Inv, Taking, nodeVars
<1>7. Named' /\ SameScan' /\ RefusedForCause'
  <2>1. Named'
    BY <1>1, <1>2 DEF Inv, Named, nodeVars
  <2>2. SameScan'
    BY <1>1 DEF Inv, SameScan, Looked
  <2>3. RefusedForCause'
    <3>1. mempool' = mempool /\ mined' = mined
      BY <1>1 DEF nodeVars
    <3>. QED
      BY <1>1, <3>1 DEF Inv, RefusedForCause
  <2>. QED
    BY <2>1, <2>2, <2>3
<1>8. \A q \in Requests : BuiltBy(q)'
  BY <1>1, <1>2 DEF Inv, BuiltBy, Looked, Usable, Scanned, nodeVars
<1>. QED
  BY <1>5, <1>6, <1>7, <1>8 DEF Inv

-----------------------------------------------------------------------------
(***************************************************************************)
(* Blocks.                                                                 *)
(***************************************************************************)

\* The node goes to a longer chain: what it has stays, in a block or not, and what
\* is below the newest block stays there.
LEMMA ConnectsInv ==
  ASSUME Inv, NEW undone \in SUBSET latest, NEW block \in SUBSET (mempool \cup undone),
         NEW last \in SUBSET block, Connects(undone, block, last),
         mined \cap last \subseteq undone
  PROVE  Inv'
<1>1. /\ tip < MaxTip /\ tip' = tip + 1
      /\ Closed((mined \ undone) \cup (block \ last)) /\ Closed((mined \ undone) \cup block)
      /\ mined' = (mined \ undone) \cup block /\ mempool' = (mempool \cup undone) \ block /\ latest' = last
      /\ UNCHANGED <<pc, want, rate, seen, seenAt, counted, tx, reasons, status, told, faults>>
  BY DEF Connects
<1>2. latest \subseteq mined /\ mempool \cap mined = {} /\ tip \in Nat /\ TypeOK
  BY CallTypes DEF Inv, Held, TypeOK
<1>3. mempool' \cup mined' = mempool \cup mined /\ mempool' \cap mined' = {} /\ latest' \subseteq mined'
  BY <1>1, <1>2
<1>4. mined' \ latest' = (mined \ undone) \cup (block \ last) /\ mined \ latest \subseteq mined' \ latest'
  BY <1>1, <1>2
<1>5. Has' = Has /\ Known' = Known
  BY <1>3 DEF Has, Known
<1>6. Named'
  BY <1>1, <1>4, <1>5 DEF Inv, Named
<1>7. Held'
  <2>1. IsFiniteSet(mempool') /\ IsFiniteSet(mined')
    <3>1. mempool' \in SUBSET Has /\ mined' \in SUBSET Has
      BY <1>3 DEF Has
    <3>. QED
      BY <3>1, ChainIs, FS_Subset
  <2>2. \A c \in coins' : c.id \in Nat /\ c.owner \in Addresses /\ c.value > 0
    <3>1. \A t \in mempool' \cup mined' : Sound(t)
      BY <1>3, ChainIs DEF Has
    <3>. QED
      BY <2>1, <3>1, CoinsAre DEF coins
  <2>3. tip' \in InitialTip..MaxTip
    BY <1>1, <1>2, CoinAssumption DEF TypeOK
  <2>4. \A r \in Requests : seenAt'[r] \in 0..tip' /\ counted'[r] \in 0..tip'
    BY <1>1, <1>2 DEF TypeOK
  <2>5. TypeOK'
    BY <1>1, <1>2, <1>3, <2>2, <2>3, <2>4 DEF TypeOK
  <2>. QED
    BY <1>1, <2>1, <2>5 DEF Inv, Held
<1>8. \A q \in Requests : BuiltBy(q)'
  <2>1. SUFFICES ASSUME NEW q \in Requests PROVE BuiltBy(q)'
    OBVIOUS
  <2>2. BuiltBy(q) /\ (Looked(q)' <=> Looked(q)) /\ Usable(q)' = Usable(q)
    BY <1>1 DEF Inv, Looked, Usable
  <2>3. seenAt'[q] # tip'
    BY <1>1, <1>2 DEF TypeOK
  <2>. QED
    BY <1>1, <1>5, <2>2, <2>3 DEF BuiltBy
<1>9. SameScan'
  BY <1>1 DEF Inv, SameScan, Looked
<1>10. Taking'
  BY <1>1, <1>4, <1>5 DEF Inv, Taking
<1>11. RefusedForCause'
  BY <1>1, <1>3 DEF Inv, RefusedForCause
<1>. QED
  BY <1>6, <1>7, <1>8, <1>9, <1>10, <1>11 DEF Inv

\* A block on top of the others,
LEMMA MineInv == ASSUME Inv, Mine PROVE Inv'
<1>1. PICK block \in SUBSET mempool : Connects({}, block, block)
  BY DEF Mine
<1>2. mined \cap block \subseteq {}
  BY DEF Inv, Held, TypeOK
<1>. QED
  BY <1>1, <1>2, ConnectsInv

\* and two in place of the newest.
LEMMA ForkInv == ASSUME Inv, Fork PROVE Inv'
<1>1. PICK block \in SUBSET (mempool \cup latest) : \E last \in SUBSET block : Connects(latest, block, last)
  BY DEF Fork
<1>2. PICK last \in SUBSET block : Connects(latest, block, last)
  BY <1>1
<1>3. mined \cap last \subseteq latest
  BY DEF Inv, Held, TypeOK
<1>. QED
  BY <1>2, <1>3, ConnectsInv

\* The invariant holds at the start,
LEMMA InitInv == ASSUME Init PROVE Inv
<1>1. Has = {} /\ mempool = {} /\ mined = {} /\ latest = {}
  BY DEF Init, Has
<1>2. Outs({}) = {} /\ Spent({}) = {}
  BY DEF Outs, Spent
<1>3. Known = InitialCoins /\ coins = InitialCoins
  BY <1>1, <1>2 DEF Known, coins, Unspent
<1>4. \A r \in Requests : pc[r] = "new" /\ tx[r] = NoTx /\ seen[r] = {} /\ status[r] = "none" /\ told[r] = 0
  BY DEF Init
<1>5. TypeOK
  <2>1. \A c \in coins : c.id \in Nat /\ c.owner \in Addresses /\ c.value > 0
    BY <1>3, CoinAssumption DEF Coins
  <2>. QED
    BY <1>1, <2>1, CoinAssumption DEF Init, TypeOK, Stages
<1>6. Held
  <2>1. IsFiniteSet({})
    BY FS_EmptySet
  <2>2. \A r \in Requests : rate[r] \in Rates
    BY DEF Init, Rates
  <2>. QED
    BY <1>1, <1>4, <1>5, <2>1, <2>2 DEF Init, Held
<1>7. Named
  <2>1. Distinct(InitialCoins)
    BY CoinAssumption DEF Distinct
  <2>2. Closed({}) /\ {} \ {} = {}
    BY <1>2 DEF Closed
  <2>. QED
    BY <1>1, <1>3, <2>1, <2>2 DEF Named, Apart
<1>8. \A r \in Requests : BuiltBy(r) /\ ~Looked(r)
  BY <1>4 DEF BuiltBy, Looked
<1>9. SameScan /\ Taking /\ RefusedForCause
  BY <1>1, <1>4, <1>8 DEF SameScan, Taking, RefusedForCause
<1>. QED
  BY <1>6, <1>7, <1>8, <1>9 DEF Inv

\* and every step keeps it.
LEMMA StepInv == ASSUME Inv, [Next]_vars PROVE Inv'
<1>1. CASE UNCHANGED vars
  <2>1. /\ tip' = tip /\ mempool' = mempool /\ mined' = mined /\ latest' = latest /\ pc' = pc /\ want' = want
        /\ rate' = rate /\ seen' = seen /\ seenAt' = seenAt /\ counted' = counted /\ tx' = tx
        /\ reasons' = reasons /\ status' = status /\ told' = told /\ faults' = faults
    BY <1>1 DEF vars
  <2>2. coins' = coins /\ Has' = Has /\ Known' = Known
    BY <2>1 DEF coins, Has, Known
  <2>3. Held' /\ Named'
    BY <2>1, <2>2 DEF Inv, Held, TypeOK, Named
  <2>4. SameScan' /\ Taking' /\ RefusedForCause'
    BY <2>1, <2>2 DEF Inv, SameScan, Looked, Taking, RefusedForCause
  <2>5. \A q \in Requests : BuiltBy(q)'
    BY <2>1, <2>2 DEF Inv, BuiltBy, Looked, Usable, Scanned
  <2>. QED
    BY <2>3, <2>4, <2>5 DEF Inv
<1>2. ASSUME NEW r \in Requests, Transfer(r) PROVE Inv'
  BY <1>2, BeginInv, EstimateFeeInv, fetchUTXOsInv, BuildInv, BroadcastInv DEF Transfer
<1>. QED
  BY <1>1, <1>2, MineInv, ForkInv, GetTransactionInv DEF Next

\* The inductive invariant holds of every history of calls and blocks.
THEOREM BitcoinInv == Spec => []Inv
BY InitInv, StepInv, PTL DEF Spec

-----------------------------------------------------------------------------
(***************************************************************************)
(* The theorems.                                                           *)
(***************************************************************************)

\* Every variable keeps its type, and no output of the chain is empty.
THEOREM BitcoinTypeCorrect == Spec => []TypeOK
<1>1. Inv => TypeOK
  BY DEF Inv, Held
<1>. QED
  BY <1>1, BitcoinInv, PTL

\* selectUTXOs takes no more inputs than the fewest coins that cover amount and
\* fee, of all the coins the call could use.
THEOREM FewestInputsCorrect == Spec => []FewestInputs
<1>1. ASSUME Inv PROVE FewestInputs
  <2>1. SUFFICES ASSUME NEW r \in Requests, tx[r] # NoTx, NEW S \in SUBSET Usable(r), S # {},
                        Value(S) >= Need(want[r], rate[r])
                 PROVE  Cardinality(S) >= Cardinality(tx[r].ins)
    BY DEF FewestInputs, Usable
  <2>2. /\ Need(want[r], rate[r]) \in Int
        /\ Usable(r) \in SUBSET seen[r] /\ Usable(r) \in SUBSET Coins /\ IsFiniteSet(Usable(r))
        /\ tx[r].ins = selectUTXOs(Usable(r), Need(want[r], rate[r]))
    BY <1>1, <2>1, HeldTx
  <2>3. Distinct(Usable(r)) /\ ~Insufficient(Usable(r), Need(want[r], rate[r]))
    BY <1>1, <2>1, <2>2 DEF Inv, BuiltBy, Named, Apart, Distinct
  <2>. QED
    BY <2>1, <2>2, <2>3, SelectsFewest
<1>. QED
  BY <1>1, BitcoinInv, PTL

\* What the node takes is what was asked for, when the amount fits an int64:
\* BuildTransfer's inputs are the wallet's own, its outputs the amount and the
\* change, its fee the estimated one; and the chain as a whole, whichever blocks
\* were replaced, loses the fees and nothing else.
THEOREM AcceptedIsAskedCorrect == Spec => []AcceptedIsAsked
<1>1. ASSUME Inv PROVE AcceptedIsAsked
  <2>1. ASSUME NEW r \in Requests, tx[r] \in mempool \cup mined
        PROVE  /\ \A c \in tx[r].ins : c.owner = AccountOf[want[r].wallet]
               /\ tx[r].back = AccountOf[want[r].wallet] /\ tx[r].to = want[r].to
               /\ Fits(want[r].amount) => tx[r].amount = want[r].amount
               /\ Fee(tx[r]) = vSize * rate[r]
    <3>1. tx[r] \in Has /\ tx[r] # NoTx /\ InRange(tx[r]) /\ Sound(tx[r])
      BY <1>1, <2>1, ChainIs, NodeTx DEF Has
    <3>2. /\ tx[r].ins \in SUBSET seen[r] /\ tx[r].ins # {} /\ tx[r].signer = AccountOf[want[r].wallet]
          /\ tx[r].to = want[r].to /\ tx[r].back = want[r].from /\ tx[r].amount = sendSat(want[r])
          /\ tx[r].amount \in Int /\ want[r] \in Transfers
          /\ tx[r].amount >= 0 /\ InRange(tx[r]) => Fee(tx[r]) = vSize * rate[r]
      BY <1>1, <3>1, HeldTx
    <3>3. \A c \in tx[r].ins : c.owner = tx[r].signer /\ c.owner = want[r].from
      BY <1>1, <3>1, <3>2 DEF Inv, Taking, BuiltBy, Looked
    <3>4. Fits(want[r].amount) => tx[r].amount = want[r].amount
      BY <3>2, Int64Range, CoinAssumption DEF sendSat
    <3>5. Fee(tx[r]) = vSize * rate[r]
      BY <3>1, <3>2 DEF Sound
    <3>. QED
      BY <3>2, <3>3, <3>4, <3>5
  <2>2. Value(coins) = Value(InitialCoins) - MapThenSumSet(Fee, mined)
    <3>1. IsFiniteSet(mined) /\ Apart(mined, Known) /\ Closed(mined)
      BY <1>1 DEF Inv, Held, Named, Apart, Has
    <3>. QED
      BY <3>1, ChainValue DEF coins, Fees
  <2>. QED
    BY <2>1, <2>2 DEF AcceptedIsAsked
<1>. QED
  BY <1>1, BitcoinInv, PTL

\* sendrawtransaction refuses for the request, for a rival transfer or for the fee
\* of one input, never for a coin that is not mature.
THEOREM RefusedForCauseCorrect == Spec => []RefusedForCause
<1>1. Inv => RefusedForCause
  BY DEF Inv
<1>. QED
  BY <1>1, BitcoinInv, PTL

\* Calls that ask for the same at one height and rate build the same transaction,
\* whatever waits in the mempool.
THEOREM RetryPaysOnceCorrect == Spec => []RetryPaysOnce
<1>1. ASSUME Inv PROVE RetryPaysOnce
  <2>1. SUFFICES ASSUME NEW q \in Requests, NEW r \in Requests, tx[q] # NoTx, tx[r] # NoTx,
                        want[q] = want[r], rate[q] = rate[r],
                        Cardinality({seenAt[q], counted[q], seenAt[r], counted[r]}) = 1
                 PROVE  tx[q] = tx[r]
    BY DEF RetryPaysOnce
  <2> DEFINE H == {seenAt[q], counted[q], seenAt[r], counted[r]}
  <2>2. IsFiniteSet(H)
    <3>1. H = ({seenAt[q]} \cup {counted[q]}) \cup ({seenAt[r]} \cup {counted[r]})
      OBVIOUS
    <3>2. \A x : IsFiniteSet({x})
      BY FS_Singleton
    <3>3. IsFiniteSet({seenAt[q]} \cup {counted[q]}) /\ IsFiniteSet({seenAt[r]} \cup {counted[r]})
      BY <3>2, FS_Union
    <3>4. IsFiniteSet(({seenAt[q]} \cup {counted[q]}) \cup ({seenAt[r]} \cup {counted[r]}))
      BY <3>3, FS_Union
    <3>. QED
      BY <3>1, <3>4
  <2>3. PICK x : H = {x}
    BY <2>1, <2>2, FS_Singleton
  <2>4. seenAt[q] = seenAt[r] /\ counted[q] = counted[r]
    BY <2>3
  <2>5. seen[q] = seen[r]
    BY <1>1, <2>1, <2>4 DEF Inv, SameScan, Looked
  <2>6. Usable(q) = Usable(r)
    BY <2>4, <2>5 DEF Usable
  <2>7. /\ tx[q] = BuildTransfer(want[q], Usable(q), rate[q])
        /\ tx[r] = BuildTransfer(want[r], Usable(r), rate[r])
    BY <1>1, <2>1 DEF Inv, BuiltBy
  <2>. QED
    BY <2>1, <2>6, <2>7
<1>. QED
  BY <1>1, BitcoinInv, PTL

\* GetTransaction's answers advance: pending, then confirmed, and unknown only for
\* want of an answer of the node; and a replaced block takes an answer back only
\* when it had one confirmation.
THEOREM StatusAdvancesCorrect == Spec => StatusAdvances
<1> DEFINE A == \A r \in Requests :
                  status'[r] # status[r] =>
                    \/ status'[r] = "confirmed"
                    \/ status'[r] = "pending" /\ told[r] <= 1
                    \/ status'[r] = "unknown" /\ faults' > faults
<1>1. ASSUME Inv, [Next]_vars PROVE [A]_vars
  <2>1. CASE UNCHANGED status
    BY <2>1
  <2>2. ASSUME NEW r \in Requests, GetTransaction(r) PROVE A
    <3>1. \A q \in Requests : q # r => status'[q] = status[q]
      BY <1>1, <2>2 DEF GetTransaction, Inv, Held, TypeOK
    <3>2. tx[r] \in mempool \cup mined /\ faults \in Nat /\ told[r] \in 0..2
      BY <1>1, <2>2, CallTypes DEF GetTransaction, Inv, Taking, Has, Held, TypeOK
    <3>3. \/ status'[r] = StatusOf(Confirmations(tx[r]))
          \/ status'[r] = "unknown" /\ faults' = faults + 1
      BY <1>1, <2>2, <3>2 DEF GetTransaction, Fails, Inv, Held, TypeOK
    <3>4. StatusOf(Confirmations(tx[r])) # "confirmed" =>
            StatusOf(Confirmations(tx[r])) = "pending" /\ tx[r] \notin mined
      BY <1>1 DEF StatusOf, Confirmations, Inv, Held, TypeOK
    <3>5. told[r] = 2 => tx[r] \in mined
      BY <1>1 DEF Inv, Taking
    <3>. QED
      BY <3>1, <3>2, <3>3, <3>4, <3>5
  <2>. QED
    BY <1>1, <2>1, <2>2
    DEF Next, Mine, Fork, Connects, Transfer, Begin, EstimateFee, fetchUTXOs, Build, Broadcast, vars
<1>. QED
  BY <1>1, BitcoinInv, PTL DEF Spec, StatusAdvances
================================================================================
