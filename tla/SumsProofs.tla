----------------------------- MODULE SumsProofs -----------------------------
(***************************************************************************)
(* Lemmas about sums of naturals over finite sets: how a sum changes when  *)
(* an order joins it, leaves it or gets another value.                     *)
(***************************************************************************)
EXTENDS Sums, FiniteSetTheorems, TLAPS

(***************************************************************************)
(* Sums.  Block(s, f) stands for the summand f[s].                         *)
(***************************************************************************)
Block(s, f) == {s} \X (1 .. f[s])

LEMMA BlockSize ==
  ASSUME NEW s, NEW f, f[s] \in Nat
  PROVE  IsFiniteSet(Block(s, f)) /\ Cardinality(Block(s, f)) = f[s]
<1>1. IsFiniteSet(1 .. f[s]) /\ Cardinality(1 .. f[s]) = f[s]
  BY FS_Interval
<1>2. IsFiniteSet({s}) /\ Cardinality({s}) = 1
  BY FS_Singleton
<1>3. IsFiniteSet(Block(s, f)) /\ Cardinality(Block(s, f)) = 1 * f[s]
  BY <1>1, <1>2, FS_Product DEF Block
<1> QED BY <1>3

LEMMA BlocksFinite ==
  ASSUME NEW S, IsFiniteSet(S), NEW f, \A s \in S : f[s] \in Nat
  PROVE  IsFiniteSet(UNION {Block(s, f) : s \in S})
<1> DEFINE g == [s \in S |-> Block(s, f)]
<1>1. g \in Surjection(S, {Block(s, f) : s \in S})
  BY DEF Surjection
<1>2. IsFiniteSet({Block(s, f) : s \in S})
  BY <1>1, FS_Surjection
<1>3. \A T \in {Block(s, f) : s \in S} : IsFiniteSet(T)
  BY BlockSize
<1> QED BY <1>2, <1>3, FS_UNION

\* A sum of naturals is natural, and an empty one is 0.
LEMMA TotalNat ==
  ASSUME NEW S, IsFiniteSet(S), NEW f, \A s \in S : f[s] \in Nat
  PROVE  Total(S, f) \in Nat
BY BlocksFinite, FS_CardinalityType DEF Total, Block

LEMMA TotalEmpty ==
  ASSUME NEW f
  PROVE  Total({}, f) = 0
<1>1. UNION {{s} \X (1 .. f[s]) : s \in {}} = {}
  OBVIOUS
<1> QED BY <1>1, FS_EmptySet DEF Total

\* Only the summands in S count.
LEMMA TotalSame ==
  ASSUME NEW S, NEW f, NEW g, \A s \in S : f[s] = g[s]
  PROVE  Total(S, f) = Total(S, g)
<1>1. {{s} \X (1 .. f[s]) : s \in S} = {{s} \X (1 .. g[s]) : s \in S}
  OBVIOUS
<1> QED BY <1>1 DEF Total

\* A new summand adds its value.
LEMMA TotalAdd ==
  ASSUME NEW S, IsFiniteSet(S), NEW c, c \notin S, NEW f,
         \A s \in S \cup {c} : f[s] \in Nat
  PROVE  Total(S \cup {c}, f) = Total(S, f) + f[c]
<1> DEFINE U == UNION {Block(s, f) : s \in S}
<1>1. UNION {Block(s, f) : s \in S \cup {c}} = U \cup Block(c, f)
  OBVIOUS
<1>2. U \cap Block(c, f) = {}
  BY DEF Block
<1>3. IsFiniteSet(U) /\ Cardinality(U) \in Nat
  BY BlocksFinite, FS_CardinalityType
<1>4. IsFiniteSet(Block(c, f)) /\ Cardinality(Block(c, f)) = f[c]
  BY BlockSize
<1>5. Cardinality(U \cup Block(c, f)) = Cardinality(U) + f[c]
  <2> HIDE DEF U
  <2>1. Cardinality(U \cup Block(c, f))
          = Cardinality(U) + Cardinality(Block(c, f)) - Cardinality(U \cap Block(c, f))
    BY <1>3, <1>4, FS_Union
  <2>2. Cardinality(U \cap Block(c, f)) = 0
    BY <1>2, FS_EmptySet
  <2> QED BY <1>3, <1>4, <2>1, <2>2
<1> QED BY <1>1, <1>5 DEF Total, Block

\* The same when the old summands keep their values and the new one has its own.
LEMMA TotalGrow ==
  ASSUME NEW S, IsFiniteSet(S), NEW c, c \notin S, NEW f, NEW g,
         \A s \in S : f[s] \in Nat /\ g[s] = f[s], g[c] \in Nat
  PROVE  Total(S \cup {c}, g) = Total(S, f) + g[c]
<1>1. Total(S, g) = Total(S, f)
  BY TotalSame
<1>2. \A s \in S \cup {c} : g[s] \in Nat
  OBVIOUS
<1>3. Total(S \cup {c}, g) = Total(S, g) + g[c]
  BY <1>2, TotalAdd
<1> QED BY <1>1, <1>3

\* A summand that leaves takes its value away.
LEMMA TotalRemove ==
  ASSUME NEW S, IsFiniteSet(S), NEW c \in S, NEW f, \A s \in S : f[s] \in Nat
  PROVE  Total(S \ {c}, f) = Total(S, f) - f[c]
<1>1. IsFiniteSet(S \ {c}) /\ S = (S \ {c}) \cup {c}
  BY FS_RemoveElement
<1>2. Total(S, f) = Total(S \ {c}, f) + f[c]
  BY <1>1, TotalAdd
<1>3. Total(S \ {c}, f) \in Nat
  BY <1>1, TotalNat
<1> QED BY <1>2, <1>3

\* No summand is greater than the sum.
LEMMA TotalBound ==
  ASSUME NEW S, IsFiniteSet(S), NEW c \in S, NEW f, \A s \in S : f[s] \in Nat
  PROVE  f[c] <= Total(S, f)
<1>1. IsFiniteSet(S \ {c})
  BY FS_RemoveElement
<1>2. Total(S \ {c}, f) \in Nat
  BY <1>1, TotalNat
<1>3. Total(S \ {c}, f) = Total(S, f) - f[c]
  BY TotalRemove
<1>4. Total(S, f) \in Nat /\ f[c] \in Nat
  BY TotalNat
<1> QED BY <1>2, <1>3, <1>4

\* A summand that changes changes the sum by as much.
LEMMA TotalOneChange ==
  ASSUME NEW S, IsFiniteSet(S), NEW c \in S, NEW f, NEW g,
         \A s \in S : f[s] \in Nat /\ g[s] \in Nat,
         \A s \in S \ {c} : g[s] = f[s]
  PROVE  Total(S, g) = Total(S, f) - f[c] + g[c]
<1>1. Total(S \ {c}, g) = Total(S \ {c}, f)
  BY TotalSame
<1>2. Total(S \ {c}, g) = Total(S, g) - g[c]
  BY TotalRemove
<1>3. Total(S \ {c}, f) = Total(S, f) - f[c]
  BY TotalRemove
<1>4. Total(S, f) \in Nat /\ Total(S, g) \in Nat
  BY TotalNat
<1> QED BY <1>1, <1>2, <1>3, <1>4

\* A sum of greater or equal summands is greater or equal.
LEMMA TotalMonotone ==
  ASSUME NEW S, IsFiniteSet(S), NEW f, NEW g,
         \A s \in S : f[s] \in Nat /\ g[s] \in Nat /\ f[s] <= g[s]
  PROVE  Total(S, f) <= Total(S, g)
<1> DEFINE U == UNION {Block(s, f) : s \in S}
           V == UNION {Block(s, g) : s \in S}
<1>1. ASSUME NEW s \in S
      PROVE  Block(s, f) \subseteq Block(s, g)
  BY DEF Block
<1>2. U \subseteq V
  BY <1>1
<1>3. IsFiniteSet(V)
  BY BlocksFinite
<1> HIDE DEF U, V
<1>4. Cardinality(U) <= Cardinality(V)
  BY <1>2, <1>3, FS_Subset
<1> QED BY <1>4 DEF U, V, Total, Block
=============================================================================
