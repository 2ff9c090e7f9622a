------------------------- MODULE CaptureSystemProofs -------------------------
(***************************************************************************)
(* Proofs about the fleet, for any files, hosts, overrides, daemons,       *)
(* clients and downloads.                                                  *)
(*                                                                         *)
(* What a file and the environment lead to is a matter of texts: Slug and  *)
(* Ros2SafeName, the ids and topics made of them, and the rewriting of the *)
(* override rest on what holds of the positions kept of a sequence         *)
(* (KeptFacts) and of their first and last (Extremes).  What happens at    *)
(* run time is one small invariant for each question: Verdicts (how a call *)
(* and what its client knows of it stand to each other), Taken (a frame is *)
(* one that its camera could have given), Traced and Once (where an image  *)
(* came from, and what may still be published) and Environment (how far    *)
(* the override is rewritten), each beside Base, the types; only Once      *)
(* needs another, Traced.                                                  *)
(***************************************************************************)
EXTENDS CaptureSystem, FiniteSetTheorems, TLAPS

-----------------------------------------------------------------------------
(* The positions that are kept of a sequence, and the first and last of    *)
(* them.                                                                   *)

Place(S, i) == Cardinality({j \in S : j <= i})

LEMMA PlaceFacts ==
  ASSUME NEW S \in SUBSET Int, IsFiniteSet(S)
  PROVE  /\ Cardinality(S) \in Nat
         /\ \A i \in S : Place(S, i) \in 1 .. Cardinality(S)
         /\ \A i, j \in S : i < j <=> Place(S, i) < Place(S, j)
         /\ \A i, j \in S : i = j <=> Place(S, i) = Place(S, j)
  <1>1. Cardinality(S) \in Nat
    BY FS_CardinalityType
  <1>2. ASSUME NEW i \in S PROVE Place(S, i) \in 1 .. Cardinality(S)
    <2> DEFINE U == {j \in S : j <= i}
    <2>1. IsFiniteSet(U) /\ Cardinality(U) <= Cardinality(S)
      BY FS_Subset
    <2>2. Cardinality(U) \in Nat /\ Cardinality(U) # 0
      <3>1. i \in U
        OBVIOUS
      <3> HIDE DEF U
      <3>2. QED
        BY <2>1, <3>1, FS_CardinalityType, FS_EmptySet
    <2> HIDE DEF U
    <2>3. Cardinality(U) \in 1 .. Cardinality(S)
      BY <1>1, <2>1, <2>2
    <2>4. QED
      BY <2>3 DEF Place, U
  <1>3. ASSUME NEW i \in S, NEW j \in S, i < j PROVE Place(S, i) < Place(S, j)
    <2> DEFINE U == {k \in S : k <= i}
               V == {k \in S : k <= j}
    <2>1. IsFiniteSet(V)
      BY FS_Subset
    <2>2. U \in SUBSET V /\ U # V
      <3>1. i \in Int /\ j \in Int /\ \A k \in S : k \in Int
        OBVIOUS
      <3>2. j \in V /\ j \notin U
        BY <1>3, <3>1
      <3>3. ASSUME NEW k \in U PROVE k \in V
        <4>1. k \in S /\ k \in Int /\ k <= i
          BY <3>1
        <4>2. QED
          BY <1>3, <3>1, <4>1
      <3>4. QED
        BY <3>2, <3>3
    <2>3. Cardinality(U) \in Nat /\ Cardinality(V) \in Nat /\ Cardinality(U) < Cardinality(V)
      <3> HIDE DEF U, V
      <3>1. IsFiniteSet(U) /\ Cardinality(U) <= Cardinality(V) /\ Cardinality(U) # Cardinality(V)
        BY <2>1, <2>2, FS_Subset
      <3>2. QED
        BY <2>1, <3>1, FS_CardinalityType
    <2>4. QED
      BY <2>3 DEF Place
  <1>4. ASSUME NEW i \in S, NEW j \in S
        PROVE  /\ i < j <=> Place(S, i) < Place(S, j)
               /\ i = j <=> Place(S, i) = Place(S, j)
    <2>1. i \in Int /\ j \in Int /\ Place(S, i) \in Int /\ Place(S, j) \in Int
      BY <1>1, <1>2
    <2>2. QED
      BY <1>3, <2>1
  <1>5. QED
    BY <1>1, <1>2, <1>4

\* Places do not repeat, so that each of them is taken.
LEMMA NthFacts ==
  ASSUME NEW S \in SUBSET Int, IsFiniteSet(S)
  PROVE  /\ \A k \in 1 .. Cardinality(S) : Nth(S, k) \in S /\ Place(S, Nth(S, k)) = k
         /\ \A i \in S : Nth(S, Place(S, i)) = i
  <1> DEFINE T == 1 .. Cardinality(S)
             r == [i \in S |-> Place(S, i)]
  <1>1. IsFiniteSet(T) /\ Cardinality(T) = Cardinality(S)
    BY FS_CardinalityType, FS_Interval
  <1>2. r \in Injection(S, T)
    BY PlaceFacts DEF Injection, IsInjective
  <1>3. r \in Surjection(S, T)
    <2> HIDE DEF T, r
    <2>1. QED
      BY <1>1, <1>2, FS_Injection
  <1>4. \A k \in T : \E i \in S : Place(S, i) = k
    BY <1>3 DEF Surjection
  <1>5. ASSUME NEW k \in T PROVE Nth(S, k) \in S /\ Place(S, Nth(S, k)) = k
    BY <1>4 DEF Nth, Place
  <1>6. ASSUME NEW i \in S PROVE Nth(S, Place(S, i)) = i
    <2>1. Place(S, i) \in T
      BY PlaceFacts
    <2>2. Nth(S, Place(S, i)) \in S /\ Place(S, Nth(S, Place(S, i))) = Place(S, i)
      BY <1>5, <2>1
    <2>3. QED
      BY <2>2, PlaceFacts
  <1>7. QED
    BY <1>5, <1>6

\* The order is kept, and nothing that is kept lies between two neighbours.
LEMMA NthOrder ==
  ASSUME NEW S \in SUBSET Int, IsFiniteSet(S),
         NEW k \in 1 .. Cardinality(S), NEW l \in 1 .. Cardinality(S), k < l
  PROVE  /\ Nth(S, k) < Nth(S, l)
         /\ l = k + 1 => \A i \in S : ~(Nth(S, k) < i /\ i < Nth(S, l))
  <1>1. /\ Nth(S, k) \in S /\ Place(S, Nth(S, k)) = k
        /\ Nth(S, l) \in S /\ Place(S, Nth(S, l)) = l
    BY NthFacts
  <1>0. \A i, j \in S : Place(S, i) < Place(S, j) => i < j
    BY PlaceFacts
  <1>2. Nth(S, k) < Nth(S, l)
    BY <1>0, <1>1
  <1>3. ASSUME l = k + 1, NEW i \in S, Nth(S, k) < i, i < Nth(S, l) PROVE FALSE
    <2>1. Place(S, Nth(S, k)) < Place(S, i) /\ Place(S, i) < Place(S, Nth(S, l))
      BY <1>1, <1>3, PlaceFacts
    <2>2. Place(S, i) \in Int
      BY PlaceFacts
    <2>3. QED
      BY <1>1, <1>3, <2>1, <2>2
  <1>4. QED
    BY <1>2, <1>3

LEMMA Extremes ==
  ASSUME NEW S \in SUBSET Int, IsFiniteSet(S), S # {}
  PROVE  /\ Min(S) \in S /\ \A i \in S : Min(S) <= i
         /\ Max(S) \in S /\ \A i \in S : i <= Max(S)
  <1>1. Cardinality(S) \in Nat /\ Cardinality(S) # 0
    BY FS_CardinalityType, FS_EmptySet
  <1>2. \E m \in S : \A i \in S : m <= i
    <2>1. Nth(S, 1) \in S /\ Place(S, Nth(S, 1)) = 1
      BY <1>1, NthFacts
    <2>2. ASSUME NEW i \in S PROVE Nth(S, 1) <= i
      <3>1. Place(S, i) \in 1 .. Cardinality(S) /\ ~(Place(S, i) < 1)
        BY <1>1, PlaceFacts
      <3>2. i < Nth(S, 1) <=> Place(S, i) < Place(S, Nth(S, 1))
        BY <2>1, PlaceFacts
      <3>3. i \in Int /\ Nth(S, 1) \in Int
        BY <2>1
      <3>4. QED
        BY <2>1, <3>1, <3>2, <3>3
    <2>3. QED
      BY <2>1, <2>2
  <1>3. \E m \in S : \A i \in S : m >= i
    <2> DEFINE n == Cardinality(S)
    <2>1. Nth(S, n) \in S /\ Place(S, Nth(S, n)) = n
      BY <1>1, NthFacts
    <2>2. ASSUME NEW i \in S PROVE Nth(S, n) >= i
      <3>1. Place(S, i) \in 1 .. n
        BY <1>1, PlaceFacts
      <3>2. Nth(S, n) < i <=> Place(S, Nth(S, n)) < Place(S, i)
        BY <2>1, PlaceFacts
      <3>3. i \in Int /\ Nth(S, n) \in Int
        BY <2>1
      <3>4. QED
        BY <1>1, <2>1, <3>1, <3>2, <3>3
    <2>3. QED
      BY <2>1, <2>2
  <1>4. QED
    BY <1>2, <1>3 DEF Min, Max

LEMMA Positions ==
  ASSUME NEW T, NEW s \in Seq(T), NEW S \in SUBSET DOMAIN s
  PROVE  IsFiniteSet(S) /\ S \in SUBSET Int /\ Cardinality(S) \in Nat
  <1>1. DOMAIN s = 1 .. Len(s) /\ Len(s) \in Nat
    OBVIOUS
  <1>2. IsFiniteSet(1 .. Len(s))
    BY <1>1, FS_Interval
  <1>3. QED
    BY <1>1, <1>2, FS_Subset, FS_CardinalityType

LEMMA KeptFacts ==
  ASSUME NEW T, NEW s \in Seq(T), NEW S \in SUBSET DOMAIN s
  PROVE  /\ Kept(s, S) \in Seq(T)
         /\ Len(Kept(s, S)) = Cardinality(S) /\ DOMAIN Kept(s, S) = 1 .. Cardinality(S)
         /\ \A k \in 1 .. Cardinality(S) : Nth(S, k) \in S /\ Kept(s, S)[k] = s[Nth(S, k)]
  <1>1. Cardinality(S) \in Nat
    BY Positions
  <1>2. \A k \in 1 .. Cardinality(S) : Nth(S, k) \in S
    BY Positions, NthFacts
  <1>3. Kept(s, S) \in [1 .. Cardinality(S) -> T]
    BY <1>2 DEF Kept
  <1>4. QED
    BY <1>1, <1>2, <1>3 DEF Kept

-----------------------------------------------------------------------------
(* Texts and the names made of them.                                       *)

Over(t, alphabet) == t \in Texts /\ \A i \in DOMAIN t : t[i] \in alphabet

\* What is kept of a text: its words, and perhaps its underscores.
Keeps(keep) == Words \subseteq keep /\ keep \subseteq Words \cup {"_"}

LEMMA SqueezeFacts ==
  ASSUME NEW t \in Texts, NEW keep, Keeps(keep)
  PROVE  /\ Over(Squeeze(t, keep), Words \cup {"_"})
         /\ LettersFirst(t) => LettersFirst(Squeeze(t, keep))
         /\ "_" \notin keep \/ UnderscoresApart(t) => ~Doubled(Squeeze(t, keep))
  <1> DEFINE S == {i \in DOMAIN t : t[i] \in keep \/ i = 1 \/ t[i - 1] \in keep}
             n == Cardinality(S)
             q == Squeeze(t, keep)
  <1>1. S \in SUBSET DOMAIN t /\ t \in Seq(Tokens)
    BY DEF Texts
  <1>2. /\ IsFiniteSet(S) /\ S \in SUBSET Int /\ n \in Nat
        /\ \A k \in 1 .. n : Nth(S, k) \in S /\ Kept(t, S)[k] = t[Nth(S, k)]
        /\ DOMAIN Kept(t, S) = 1 .. n
    <2> HIDE DEF S
    <2>1. QED
      BY <1>1, Positions, KeptFacts
  <1>3. q = [k \in 1 .. n |-> IF t[Nth(S, k)] \in keep THEN t[Nth(S, k)] ELSE "_"]
    BY <1>2 DEF Squeeze
  <1>4. Over(q, Words \cup {"_"})
    <2>1. \A k \in 1 .. n : t[Nth(S, k)] \in Tokens
      BY <1>1, <1>2
    <2> HIDE DEF S, q, n
    <2>2. q \in [1 .. n -> Tokens]
      <3>1. "_" \in Tokens
        BY TokenAssumption DEF Tokens
      <3>2. QED
        BY <1>3, <2>1, <3>1
    <2>3. q \in Seq(Tokens)
      BY <1>2, <2>2
    <2>4. QED
      BY <1>3, <2>3 DEF Over, Texts, Keeps
  <1>5. ASSUME LettersFirst(t), NEW k \in 1 .. n, q[k] \in Numbers
        PROVE  \E l \in 1 .. k - 1 : q[l] \in Words \ Numbers
    <2> DEFINE i == Nth(S, k)
    <2>1. i \in S /\ t[i] = q[k]
      BY <1>2, <1>3, <1>5, TokenAssumption
    <2>2. PICK j \in 1 .. i - 1 : t[j] \in Words \ Numbers
      BY <1>5, <2>1 DEF LettersFirst
    <2>3. j \in S /\ i \in Int /\ j \in Int /\ j < i
      <3>1. i \in 1 .. Len(t) /\ DOMAIN t = 1 .. Len(t) /\ Len(t) \in Nat
        BY <1>1, <2>1
      <3> HIDE DEF i
      <3>2. j \in DOMAIN t /\ i \in Int /\ j \in Int /\ j < i
        BY <3>1
      <3>3. QED
        BY <2>2, <3>2 DEF Keeps, i
    <2> DEFINE l == Place(S, j)
    <2>4. l \in 1 .. n /\ Nth(S, l) = j /\ Place(S, i) = k /\ l < k
      <3> HIDE DEF S, i
      <3>1. Place(S, i) = k
        BY <1>2, NthFacts DEF i, n
      <3>2. QED
        BY <1>2, <2>1, <2>3, <3>1, PlaceFacts, NthFacts
    <2>5. q[l] = t[j]
      BY <1>3, <2>2, <2>4 DEF Keeps
    <2> HIDE DEF l, n
    <2>6. l \in 1 .. k - 1
      BY <1>2, <2>4
    <2>7. QED
      BY <2>2, <2>5, <2>6
  <1>6. ASSUME "_" \notin keep \/ UnderscoresApart(t), Doubled(q) PROVE FALSE
    <2>1. PICK k \in 1 .. n : k > 1 /\ q[k - 1] = "_" /\ q[k] = "_"
      BY <1>3, <1>6 DEF Doubled
    <2>2. k - 1 \in 1 .. n
      <3> HIDE DEF n, S, q
      <3>1. n \in Int
        BY <1>2
      <3>2. k > 1
        BY <2>1
      <3>3. QED
        BY <3>1, <3>2
    <2> DEFINE i == Nth(S, k)
               j == Nth(S, k - 1)
    <2>3. /\ t[i] = "_" \/ t[i] \notin keep
          /\ t[j] = "_" \/ t[j] \notin keep
      BY <1>3, <2>1, <2>2
    <2>4. i \in S /\ j \in S /\ i \in Int /\ j \in Int
      BY <1>2, <2>2
    <2>5. j < i /\ \A m \in S : ~(j < m /\ m < i)
      <3> HIDE DEF S
      <3>1. k = (k - 1) + 1 /\ k - 1 < k
        BY <1>2
      <3>2. QED
        BY <1>2, <2>2, <3>1, NthOrder
    <2>6. j \in 1 .. Len(t) /\ i \in 1 .. Len(t) /\ DOMAIN t = 1 .. Len(t) /\ Len(t) \in Nat
      BY <1>1, <2>4
    <2>7. i > 1 /\ i - 1 \in DOMAIN t /\ i \in DOMAIN t
      <3> HIDE DEF S, i, j
      <3>1. QED
        BY <2>4, <2>5, <2>6
    <2>8. t[i - 1] \in keep
      <3>1. CASE t[i] \notin keep
        BY <2>4, <2>7, <3>1
      <3>2. CASE t[i] = "_" /\ t[i] \in keep
        BY <1>6, <2>7, <3>2, TokenAssumption DEF UnderscoresApart, Keeps
      <3>3. QED
        BY <2>3, <3>1, <3>2
    <2>9. i - 1 = j
      <3>1. i - 1 \in S
        BY <2>7, <2>8
      <3> HIDE DEF S, i, j
      <3>2. QED
        BY <2>4, <2>5, <3>1
    <2>10. t[i - 1] = "_" /\ "_" \in keep
      BY <2>3, <2>8, <2>9
    <2>11. QED
      BY <1>6, <2>3, <2>7, <2>10, TokenAssumption DEF UnderscoresApart, Keeps
  <1>7. LettersFirst(t) => LettersFirst(q)
    BY <1>3, <1>5 DEF LettersFirst
  <1>8. QED
    BY <1>4, <1>6, <1>7

LEMMA StripFacts ==
  ASSUME NEW alphabet, NEW t, Over(t, alphabet)
  PROVE  /\ Over(Strip(t), alphabet)
         /\ LettersFirst(t) => LettersFirst(Strip(t))
         /\ ~Doubled(t) => ~Doubled(Strip(t))
  <1> DEFINE inner == {i \in DOMAIN t : t[i] # "_"}
  <1>1. t \in Seq(Tokens) /\ DOMAIN t = 1 .. Len(t) /\ Len(t) \in Nat
    BY DEF Over, Texts
  <1>2. CASE inner = {}
    <2>1. Strip(t) = <<>>
      BY <1>2 DEF Strip
    <2>2. QED
      BY <2>1 DEF Over, Texts, Doubled, LettersFirst
  <1>3. CASE inner # {}
    <2> DEFINE a == Min(inner)
               b == Max(inner)
               q == SubSeq(t, a, b)
    <2>1. inner \in SUBSET DOMAIN t
      OBVIOUS
    <2>2. a \in inner /\ b \in inner /\ a <= b
      <3> HIDE DEF inner
      <3>1. QED
        BY <1>1, <1>3, <2>1, Positions, Extremes
    <2>3. a \in 1 .. Len(t) /\ b \in 1 .. Len(t) /\ a <= b
      BY <1>1, <2>2
    <2>4. Strip(t) = q
      BY <1>3 DEF Strip
    <2> HIDE DEF a, b, inner
    <2>5. /\ q \in Seq(Tokens) /\ DOMAIN q = 1 .. b - a + 1
          /\ \A i \in 1 .. b - a + 1 : q[i] = t[a + i - 1] /\ a + i - 1 \in DOMAIN t
      BY <1>1, <2>3
    <2>6. Over(q, alphabet)
      BY <2>5 DEF Over, Texts
    <2>7. ASSUME Doubled(q) PROVE Doubled(t)
      <3>1. PICK i \in 1 .. b - a + 1 : i > 1 /\ q[i - 1] = "_" /\ q[i] = "_"
        BY <2>5, <2>7 DEF Doubled
      <3>0. i \in Int /\ a \in Int /\ b \in Int /\ 1 <= i /\ i <= b - a + 1 /\ 1 <= a
        BY <2>3
      <3>6. i > 1
        BY <3>1
      <3>2. i - 1 \in 1 .. b - a + 1
        BY <3>0, <3>6
      <3>3. t[a + i - 1] = "_" /\ t[a + (i - 1) - 1] = "_" /\ a + i - 1 \in DOMAIN t
        BY <2>5, <3>1, <3>2
      <3>4. a + i - 1 > 1 /\ a + (i - 1) - 1 = (a + i - 1) - 1
        BY <3>0, <3>6
      <3>5. QED
        BY <3>3, <3>4 DEF Doubled
    <2>8. ASSUME LettersFirst(t), NEW i \in 1 .. b - a + 1, q[i] \in Numbers
          PROVE  \E l \in 1 .. i - 1 : q[l] \in Words \ Numbers
      <3>1. t[a + i - 1] \in Numbers /\ a + i - 1 \in DOMAIN t
        BY <2>5, <2>8
      <3>2. PICK j \in 1 .. (a + i - 1) - 1 : t[j] \in Words \ Numbers
        BY <2>8, <3>1 DEF LettersFirst
      <3>3. j \in DOMAIN t /\ j \in Int /\ j < a + i - 1
        BY <1>1, <2>3, <3>1
      <3>4. a <= j
        <4>1. j \in inner
          BY <3>2, <3>3, TokenAssumption DEF inner
        <4>2. inner \in SUBSET DOMAIN t
          BY DEF inner
        <4>3. QED
          BY <1>1, <1>3, <4>1, <4>2, Positions, Extremes DEF a
      <3>5. j - a + 1 \in 1 .. i - 1 /\ a + (j - a + 1) - 1 = j /\ j - a + 1 \in 1 .. b - a + 1
        BY <2>3, <3>3, <3>4
      <3>6. q[j - a + 1] = t[j]
        BY <2>5, <3>5
      <3>7. QED
        BY <3>2, <3>5, <3>6
    <2>9. LettersFirst(t) => LettersFirst(q)
      BY <2>5, <2>8 DEF LettersFirst
    <2>10. QED
      BY <2>4, <2>6, <2>7, <2>9
  <1>4. QED
    BY <1>2, <1>3

LEMMA Defaults == <<"dslr">> \in Texts /\ <<"device">> \in Texts /\ <<"pgwaam">> \in Texts
  <1>1. ASSUME NEW w \in Words PROVE <<w>> \in Texts
    BY DEF Texts, Tokens
  <1>2. "dslr" \in Words /\ "device" \in Words /\ "pgwaam" \in Words
    BY TokenAssumption
  <1>3. QED
    BY <1>1, <1>2

LEMMA SafeNames ==
  ASSUME NEW t \in Texts
  PROVE  /\ Slug(t) \in Texts /\ Clean(Slug(t)) /\ ~Doubled(Slug(t))
         /\ LettersFirst(t) => Legal(Slug(t))
         /\ Ros2SafeName(t) \in Texts /\ Clean(Ros2SafeName(t))
         /\ LettersFirst(t) /\ UnderscoresApart(t) => Legal(Ros2SafeName(t))
  <1>1. ASSUME NEW keep \in {Words, Words \cup {"_"}}
        PROVE  LET u == Strip(Squeeze(t, keep))
               IN  /\ Over(u, Words \cup {"_"})
                   /\ LettersFirst(t) => LettersFirst(u)
                   /\ "_" \notin keep \/ UnderscoresApart(t) => ~Doubled(u)
    <2>0. Keeps(keep)
      BY DEF Keeps
    <2>1. /\ Over(Squeeze(t, keep), Words \cup {"_"})
          /\ LettersFirst(t) => LettersFirst(Squeeze(t, keep))
          /\ "_" \notin keep \/ UnderscoresApart(t) => ~Doubled(Squeeze(t, keep))
      BY <2>0, SqueezeFacts
    <2>2. QED
      BY <2>1, StripFacts
  <1>2. ASSUME NEW u, Over(u, Words \cup {"_"}), NEW w \in {"dslr", "device"}
        PROVE  /\ OrElse(u, <<w>>) \in Texts /\ Clean(OrElse(u, <<w>>))
               /\ ~Doubled(u) => ~Doubled(OrElse(u, <<w>>))
               /\ LettersFirst(u) => OrElse(u, <<w>>)[1] \notin Numbers
    <2>1. <<w>> \in Texts /\ w \in Words \ Numbers
      BY Defaults, TokenAssumption
    <2>2. Clean(<<w>>)
      <3>1. ToSet(<<w>>) = {w}
        BY DEF ToSet
      <3>2. <<w>> # <<>>
        OBVIOUS
      <3>3. QED
        BY <2>1, <3>1, <3>2 DEF Clean
    <2>3. ~Doubled(<<w>>)
      <3>1. DOMAIN <<w>> = 1 .. 1
        OBVIOUS
      <3>2. \A i \in 1 .. 1 : ~(i > 1)
        OBVIOUS
      <3>3. QED
        BY <3>1, <3>2 DEF Doubled
    <2>4. u # <<>> => u \in Texts /\ Clean(u)
      BY <1>2 DEF Over, Clean, ToSet
    <2>5. ASSUME u # <<>>, LettersFirst(u) PROVE u[1] \notin Numbers
      <3>1. 1 \in DOMAIN u
        <4>1. u \in Seq(Tokens)
          BY <1>2 DEF Over, Texts
        <4>2. QED
          BY <2>5, <4>1
      <3>2. ~ \E j \in 1 .. 1 - 1 : u[j] \in Words \ Numbers
        OBVIOUS
      <3>3. QED
        BY <2>5, <3>1, <3>2 DEF LettersFirst
    <2>6. <<w>>[1] = w
      OBVIOUS
    <2>7. CASE u = <<>>
      BY <2>1, <2>2, <2>3, <2>6, <2>7 DEF OrElse
    <2>8. CASE u # <<>>
      BY <2>4, <2>5, <2>8 DEF OrElse
    <2>9. QED
      BY <2>7, <2>8
  <1>3. /\ Slug(t) \in Texts /\ Clean(Slug(t)) /\ ~Doubled(Slug(t))
        /\ LettersFirst(t) => Slug(t)[1] \notin Numbers
    BY <1>1, <1>2, TokenAssumption DEF Slug
  <1>4. /\ Ros2SafeName(t) \in Texts /\ Clean(Ros2SafeName(t))
        /\ LettersFirst(t) => Ros2SafeName(t)[1] \notin Numbers
        /\ UnderscoresApart(t) => ~Doubled(Ros2SafeName(t))
    BY <1>1, <1>2 DEF Ros2SafeName
  <1>5. QED
    BY <1>3, <1>4 DEF Legal

LEMMA ShortNameType ==
  ASSUME NEW t \in Texts
  PROVE  ShortName(t) \in Texts
  <1> DEFINE dots == {i \in DOMAIN t : t[i] = "."}
  <1>1. t \in Seq(Tokens) /\ DOMAIN t = 1 .. Len(t) /\ Len(t) \in Nat
    BY DEF Texts
  <1>2. CASE dots = {}
    BY <1>2 DEF ShortName
  <1>3. CASE dots # {}
    <2>1. dots \in SUBSET DOMAIN t
      OBVIOUS
    <2>2. Min(dots) \in dots
      <3> HIDE DEF dots
      <3>1. QED
        BY <1>1, <1>3, <2>1, Positions, Extremes
    <2>3. Min(dots) \in 1 .. Len(t)
      BY <1>1, <2>2
    <2>4. ShortName(t) = SubSeq(t, 1, Min(dots) - 1)
      BY <1>3 DEF ShortName
    <2> HIDE DEF dots
    <2>5. QED
      BY <1>1, <2>3, <2>4 DEF Texts
  <1>4. QED
    BY <1>2, <1>3

\* Different ids make for different client ids.
LEMMA ClientIdsDiffer ==
  ASSUME NEW x \in Texts, NEW y \in Texts, NEW application, NEW what,
         ClientId(application, x, what) = ClientId(application, y, what)
  PROVE  x = y
  <1>1. Len(x) \in Nat /\ Len(y) \in Nat /\ DOMAIN x = 1 .. Len(x) /\ DOMAIN y = 1 .. Len(y)
    BY DEF Texts
  <1> DEFINE U == Tokens \cup {application, what, "-"}
             X == <<application, "-">> \o x \o <<"-", what>>
             Y == <<application, "-">> \o y \o <<"-", what>>
  <1>2. /\ x \in Seq(U) /\ y \in Seq(U)
        /\ <<application, "-">> \in Seq(U) /\ <<"-", what>> \in Seq(U)
    BY DEF Texts
  <1>3. Len(X) = Len(x) + 4 /\ Len(Y) = Len(y) + 4
    <2> HIDE DEF U
    <2>1. QED
      BY <1>2
  <1>4. Len(x) = Len(y)
    <2>1. Len(X) = Len(Y)
      BY DEF ClientId
    <2> HIDE DEF X, Y
    <2>2. Len(x) + 4 = Len(y) + 4
      BY <1>3, <2>1
    <2>3. \A m, n \in Nat : m + 4 = n + 4 => m = n
      OBVIOUS
    <2>4. QED
      BY <1>1, <2>2, <2>3
  <1>5. ASSUME NEW i \in 1 .. Len(x) PROVE x[i] = y[i]
    <2> HIDE DEF U
    <2>1. X[i + 2] = x[i] /\ Y[i + 2] = y[i]
      BY <1>1, <1>2, <1>4
    <2>2. QED
      BY <2>1 DEF ClientId
  <1>6. QED
    BY <1>1, <1>4, <1>5 DEF Texts

-----------------------------------------------------------------------------
(* The steps of the fleet.                                                 *)

Calls == {Blob(d, c) : d \in Daemons, c \in Clients}

\* The types that later invariants rest on.
Base == TypeOK /\ handled \in Calls \cup {NoBlob}

LEMMA BaseInit == Init => Base
  BY DEF Init, Base, TypeOK, Calls, Stray

\* The files are read once.
LEMMA FleetStays ==
  ASSUME [Next]_vars
  PROVE  /\ fleet' = fleet
         /\ \A d \in Daemons : Config(d)' = Config(d) /\ Shot(d)' = Shot(d)
  <1>1. fleet' = fleet
    BY DEF Next, vars, bootVars, Boot, Run, Crash, ClientStep, Call, WaitTimesOut, CallTimesOut,
           TakeAnswer, Learn, Accept, Refuse, Job, Fail, Hang, Deliver, Finish, Turn,
           RelayStep, OnFrame, PublishRaw, Destroy
  <1>2. QED
    BY <1>1 DEF Config, Configs, Shot

Served(d, c) == Accept(d, c) \/ Refuse(d, c) \/ Job(d, c)

\* A step of a daemon for a call changes the state of this call only.
LEMMA ServedFacts ==
  ASSUME TypeOK, NEW d \in Daemons, NEW c \in Clients, Served(d, c)
  PROVE  /\ \E to \in Accepted \cup {"refused"} : work' = [work EXCEPT ![d][c] = to]
         /\ work' \in [Daemons -> [Clients -> Accepted \cup {"idle", "refused"}]]
         /\ work'[d][c] \in Accepted \cup {"refused"}
         /\ \A e \in Daemons, b \in Clients : e # d \/ b # c => work'[e][b] = work[e][b]
         /\ UNCHANGED <<fleet, env, proc, client, told, relay, handled>>
         /\ sent' \subseteq sent \cup {Blob(d, c)}
  <1>1. \E to \in Accepted \cup {"refused"} : work' = [work EXCEPT ![d][c] = to]
    BY DEF Served, Accept, Refuse, Job, Fail, Hang, Deliver, Finish, Turn, Accepted
  <1>2. PICK to \in Accepted \cup {"refused"} : work' = [work EXCEPT ![d][c] = to]
    BY <1>1
  <1>3. /\ work' \in [Daemons -> [Clients -> Accepted \cup {"idle", "refused"}]]
        /\ work'[d][c] = to
        /\ \A e \in Daemons, b \in Clients : e # d \/ b # c => work'[e][b] = work[e][b]
    BY <1>2 DEF TypeOK
  <1>4. UNCHANGED <<fleet, env, proc, client, told, relay, handled>>
    BY DEF Served, Accept, Refuse, Job, Fail, Hang, Deliver, Finish, Turn, bootVars,
           clientVars, relayVars
  <1>5. sent' \subseteq sent \cup {Blob(d, c)}
    BY DEF Served, Accept, Refuse, Job, Fail, Hang, Deliver, Finish
  <1>6. QED
    BY <1>1, <1>3, <1>4, <1>5

LEMMA BaseStep == Base /\ [Next]_vars => Base'
  <1> SUFFICES ASSUME Base, [Next]_vars PROVE Base'
    OBVIOUS
  <1> USE DEF Base, TypeOK, jobVars, clientVars, relayVars, bootVars
  <1>1. ASSUME NEW d \in Daemons, Boot(d) \/ Run(d) \/ Crash(d) PROVE Base'
    BY <1>1 DEF Boot, Run, Crash
  <1>2. ASSUME NEW c \in Clients, ClientStep(c) PROVE Base'
    BY <1>2 DEF ClientStep, Call, WaitTimesOut, CallTimesOut, TakeAnswer, Learn
  <1>3. ASSUME NEW d \in Daemons, NEW c \in Clients, Served(d, c) PROVE Base'
    BY <1>3, ServedFacts
  <1>4. CASE RelayStep \/ Destroy
    BY <1>4 DEF RelayStep, Blobs, Calls, OnFrame, Arrives, PublishRaw, Destroy
  <1>5. CASE UNCHANGED vars
    BY <1>5 DEF vars
  <1>6. QED
    BY <1>1, <1>2, <1>3, <1>4, <1>5 DEF Next, Served

LEMMA BaseAlways == SafeSpec => []Base
  BY BaseInit, BaseStep, PTL DEF SafeSpec

\* The variables of the fleet keep their types.
THEOREM TypeCorrect == SafeSpec => []TypeOK
  <1>1. Base => TypeOK
    BY DEF Base
  <1>2. QED
    BY <1>1, BaseAlways, PTL
-----------------------------------------------------------------------------
(* Verdicts.                                                               *)

\* The names that a file gives, and those that follow from the camera and the device.
NamedAfter(cfg, file, host) ==
  /\ cfg.camera_id = Given(file, "camera_id", Slug(CameraModel(file)))
  /\ cfg.device_id = DeviceId(file, host, cfg.camera_id)
  /\ cfg.service = Given(file, "capture_service_name", Dslr(cfg.camera_id, "capture"))
  /\ cfg.frames = Given(file, "frame_key_prefix", Dslr(cfg.camera_id, "frames"))
  /\ cfg.image = ImageTopic(file, cfg.camera_id)
  /\ cfg.heartbeat = GivenOr(file, "heartbeat.zenoh_key", Dslr(cfg.camera_id, "heartbeat"))
  /\ cfg.alive = GivenOr(file, "heartbeat.liveliness_key", Dslr(cfg.camera_id, "alive"))
  /\ cfg.heartbeatMqtt = GivenOr(file, "heartbeat.mqtt.topic",
                                Dslr(cfg.camera_id, "heartbeat"))
  /\ cfg.heartbeatId = GivenOr(file, "heartbeat.mqtt.client_id",
                              ClientId("dslr", cfg.camera_id, "heartbeat"))
  /\ cfg.online = GivenOr(file, "pgwaam.topic", <<<<"pgwaam">>, cfg.device_id, <<"online">>>>)
  /\ cfg.onlineId = GivenOr(file, "pgwaam.client_id",
                           ClientId("pgwaam", cfg.device_id, "online"))
  /\ cfg.coreTemp = GivenOr(file, "core_temp_publish.topic",
                           <<Ros2SafeName(Given(file, "core_temp_publish.application",
                                                <<"pgwaam">>)),
                             Ros2SafeName(cfg.device_id), <<"online">>, <<"core_temp">>>>)

LEMMA Names ==
  ASSUME TypeOK, NEW d \in Daemons
  PROVE  NamedAfter(Config(d), File(d), Host[d])
  <1>1. ASSUME NEW file, NEW host, NEW cfg, cfg = FromFile(file, host)
        PROVE  NamedAfter(cfg, file, host)
    <2>1. /\ cfg.camera_id = Given(file, "camera_id", Slug(CameraModel(file)))
          /\ cfg.device_id = DeviceId(file, host, cfg.camera_id)
          /\ cfg.service = Given(file, "capture_service_name", Dslr(cfg.camera_id, "capture"))
          /\ cfg.frames = Given(file, "frame_key_prefix", Dslr(cfg.camera_id, "frames"))
          /\ cfg.image = ImageTopic(file, cfg.camera_id)
      BY <1>1 DEF FromFile
    <2>2. QED
      BY <1>1, <2>1 DEF FromFile, NamedAfter
  <1>2. Config(d) = FromFile(File(d), Host[d])
    BY DEF TypeOK, Config, Configs, File
  <1>3. QED
    BY <1>1, <1>2

\* By default, different cameras make for different names.
LEMMA ApartNames ==
  ASSUME TypeOK, NEW d \in Daemons, NEW e \in Daemons, Apart(d, e)
  PROVE  {Config(d).service, Config(d).frames, Config(d).image}
           \cap {Config(e).service, Config(e).frames, Config(e).image} = {}
  <1>1. ASSUME NEW b \in {d, e}
        PROVE  /\ Config(b).service = Dslr(Config(b).camera_id, "capture")
               /\ Config(b).frames = Dslr(Config(b).camera_id, "frames")
               /\ Config(b).image = Dslr(Config(b).camera_id, "image_raw")
    <2>1. {"capture_service_name", "frame_key_prefix", "ros2_publish.topic"}
            \cap DOMAIN File(b) = {}
      BY DEF Apart, ByDefault, NameKeys
    <2>2. QED
      BY <2>1, Names DEF NamedAfter, Given, GivenOr, ImageTopic
  <1>2. Config(d).camera_id # Config(e).camera_id
    BY DEF Apart
  <1> HIDE DEF Apart
  <1>3. QED
    BY <1>1, <1>2 DEF Dslr

\* What a client knows, and whom it asked.
Verdicts ==
  \A c \in Clients :
    /\ client[c] \in {"waiting", "unavailable"} => \A d \in Daemons : work[d][c] = "idle"
    /\ client[c] = "told" => told[c] \in Daemons /\ work[told[c]][c] \in Accepted
    /\ client[c] = "refused" => told[c] \in Daemons /\ work[told[c]][c] = "refused"
    /\ \A d \in Daemons : work[d][c] # "idle" => Config(d).service = Fleets[fleet].asks[c]

LEMMA VerdictsInit == Init => Verdicts
  BY DEF Init, Verdicts

LEMMA VerdictsStep == Base /\ Verdicts /\ [Next]_vars => Verdicts'
  <1> SUFFICES ASSUME Base, Verdicts, [Next]_vars PROVE Verdicts'
    OBVIOUS
  <1>0. fleet' = fleet /\ \A d \in Daemons : Config(d)' = Config(d)
    BY FleetStays
  <1>1. ASSUME UNCHANGED <<client, told, work>> PROVE Verdicts'
    BY <1>0, <1>1 DEF Verdicts
  <1>2. ASSUME NEW d \in Daemons, Boot(d) \/ Run(d) \/ Crash(d) PROVE Verdicts'
    BY <1>1, <1>2 DEF Boot, Run, Crash, jobVars, clientVars
  <1>3. CASE RelayStep \/ Destroy \/ UNCHANGED vars
    BY <1>1, <1>3 DEF RelayStep, OnFrame, PublishRaw, Destroy, jobVars, clientVars, vars
  <1>4. ASSUME NEW c \in Clients, ClientStep(c) PROVE Verdicts'
    <2>1. work' = work
      BY <1>4 DEF ClientStep, Call, WaitTimesOut, CallTimesOut, TakeAnswer, Learn, jobVars
    <2>2. \A b \in Clients \ {c} : client'[b] = client[b] /\ told'[b] = told[b]
      BY <1>4 DEF ClientStep, Call, WaitTimesOut, CallTimesOut, TakeAnswer, Learn, Base, TypeOK
    <2>3. /\ client'[c] \in {"waiting", "unavailable"} => client[c] = "waiting"
          /\ client'[c] = "told" => told'[c] \in Daemons /\ work[told'[c]][c] \in Accepted
          /\ client'[c] = "refused" => told'[c] \in Daemons /\ work[told'[c]][c] = "refused"
      BY <1>4 DEF ClientStep, Call, WaitTimesOut, CallTimesOut, TakeAnswer, Learn, Base, TypeOK
    <2>4. QED
      BY <1>0, <2>1, <2>2, <2>3 DEF Verdicts
  <1>5. ASSUME NEW d \in Daemons, NEW c \in Clients, Served(d, c) PROVE Verdicts'
    <2>1. client' = client /\ told' = told
      BY <1>5, ServedFacts DEF Base
    <2>2. /\ work[d][c] = "refused" => FALSE
          /\ work'[d][c] \in Accepted \/ work[d][c] \notin Accepted
          /\ work[d][c] = "idle" =>
               /\ client[c] \notin {"waiting", "unavailable"}
               /\ Config(d).service = Fleets[fleet].asks[c]
      BY <1>5 DEF Served, Accept, Refuse, Job, Fail, Hang, Deliver, Finish, Turn, Accepted,
                  Reached, Serves, Base, TypeOK
    <2>3. QED
      BY <1>0, <1>5, <2>1, <2>2, ServedFacts DEF Verdicts, Base
  <1>6. QED
    BY <1>2, <1>3, <1>4, <1>5 DEF Next, Served

\* A client never concludes more than is so: "unavailable" and "refused" mean that there
\* is no frame of its call, "accepted" that the daemon which answered works on it.
THEOREM VerdictsAreSound == SafeSpec => []VerdictSound
  <1>1. Base /\ Verdicts => VerdictSound
    <2> SUFFICES ASSUME Base, Verdicts, NEW c \in Clients, client[c] = "refused",
                        NEW d \in Daemons \ {told[c]}, Apart(d, told[c])
                 PROVE  work[d][c] = "idle"
      BY DEF Verdicts, VerdictSound
    <2>1. Config(d).service # Config(told[c]).service
      BY ApartNames DEF Base, Verdicts
    <2>2. QED
      BY <2>1 DEF Verdicts
  <1>2. QED
    BY <1>1, BaseInit, BaseStep, VerdictsInit, VerdictsStep, PTL DEF SafeSpec
-----------------------------------------------------------------------------
(* Frames and their labels.                                                *)

\* A call's frame is one that its daemon's camera could have given.
Taken ==
  /\ frame = [d \in Daemons |-> [c \in Clients |-> frame[d][c]]]
  /\ \A d \in Daemons, c \in Clients : frame[d][c] # NoFrame => frame[d][c] \in Shot(d)

LEMMA TakenInit == Init => Taken
  BY DEF Init, Taken

LEMMA TakenStep == Base /\ Taken /\ [Next]_vars => Taken'
  <1> SUFFICES ASSUME Base, Taken, [Next]_vars PROVE Taken'
    OBVIOUS
  <1>0. \A d \in Daemons : Shot(d)' = Shot(d)
    BY FleetStays
  <1>1. ASSUME UNCHANGED frame PROVE Taken'
    BY <1>0, <1>1 DEF Taken
  <1>2. ASSUME NEW d \in Daemons, NEW c \in Clients, Deliver(d, c) PROVE Taken'
    <2>1. PICK f \in Shot(d) : frame' = [frame EXCEPT ![d][c] = f]
      BY <1>2 DEF Deliver
    <2>2. frame' = [e \in Daemons |-> [b \in Clients |->
                      IF e = d /\ b = c THEN f ELSE frame[e][b]]]
      BY <2>1 DEF Taken
    <2> HIDE DEF Taken
    <2>3. \A e \in Daemons, b \in Clients :
            frame'[e][b] = IF e = d /\ b = c THEN f ELSE frame[e][b]
      BY <2>2
    <2>4. QED
      BY <1>0, <2>2, <2>3 DEF Taken
  <1>3. UNCHANGED frame \/ \E d \in Daemons, c \in Clients : Deliver(d, c)
    BY DEF Next, vars, Boot, Run, Crash, ClientStep, Call, WaitTimesOut, CallTimesOut, jobVars,
           TakeAnswer, Learn, Accept, Refuse, Job, Fail, Hang, Finish, Turn, RelayStep,
           OnFrame, PublishRaw, Destroy
  <1>4. QED
    BY <1>1, <1>2, <1>3

\* If there is a file that can be shown, it comes before those that cannot.
LEMMA FirstIsShown ==
  ASSUME NEW s \in Downloaded,
         \A files \in Downloads : \E t \in files : Kind(t) \in Displayable
  PROVE  Lower[s] \in {"jpg", "jpeg", "png", "webp"}
  <1>1. PICK files \in Downloads : s \in files /\ \A u \in files : Rank(s) <= Rank(u)
    BY DEF Downloaded
  <1>2. PICK t \in files : Kind(t) \in Displayable
    OBVIOUS
  <1>3. Rank(t) <= 2
    BY <1>2 DEF Kind, Displayable, Rank, Preferred
  <1>4. Lower[s] \notin {"jpg", "jpeg", "png", "webp"} => Rank(s) \in {10, 20}
    BY DEF Rank, Preferred
  <1>5. Rank(s) <= Rank(t) /\ Rank(t) \in Int
    BY <1>1 DEF Rank, Preferred
  <1>6. QED
    BY <1>3, <1>4, <1>5

\* A frame of a camera with a file that can be shown is labelled as what it is.
THEOREM LabelsAreTruthful == SafeSpec => []LabelTruthful
  <1>1. Base /\ Taken => LabelTruthful
    <2> SUFFICES ASSUME Base, Taken, NEW d \in Daemons, NEW c \in Clients,
                        Config(d).backend = "gphoto2", frame[d][c] # NoFrame,
                        \A files \in Downloads : \E s \in files : Kind(s) \in Displayable
                 PROVE  <<frame[d][c].type, frame[d][c].encoding>> \in
                          {<<"jpg", "image/jpeg">>, <<"png", "image/png">>,
                           <<"webp", "image/webp">>}
      BY DEF LabelTruthful
    <2>1. PICK s \in Downloaded :
            frame[d][c] = [type     |-> Kind(s),
                           encoding |-> EncodingForSuffix(s, Config(d).encoding)]
      BY DEF Taken, Shot
    <2>2. Lower[s] \in {"jpg", "jpeg", "png", "webp"}
      BY FirstIsShown
    <2>3. QED
      BY <2>1, <2>2 DEF Kind, EncodingForSuffix, Encodings
  <1>2. QED
    BY <1>1, BaseInit, BaseStep, TakenInit, TakenStep, PTL DEF SafeSpec
-----------------------------------------------------------------------------
(* Images.                                                                 *)

\* An image published once more.
LEMMA Published ==
  ASSUME NEW image, shown' = With(image)
  PROVE  /\ DOMAIN shown' = DOMAIN shown \cup {image}
         /\ \A i \in DOMAIN shown : i # image /\ shown[i] = 1 => shown'[i] = 1
         /\ image \notin DOMAIN shown => shown'[image] = 1
  <1>1. \A i \in DOMAIN shown' :
          shown'[i] = (IF i \in DOMAIN shown THEN shown[i] ELSE 0)
                        + (IF i = image THEN 1 ELSE 0)
    BY DEF With
  <1>2. DOMAIN shown' = DOMAIN shown \cup {image}
    BY DEF With
  <1>3. QED
    BY <1>1, <1>2

\* Where an image comes from: from the daemon itself, or through the relay from one
\* whose frames are under the relay's prefix.
Native(d, c) == Image(Config(d).image, Blob(d, c), "native")
Relayed(d, c) == {Image(Relay.compressed, Blob(d, c), "compressed"),
                  Image(Relay.image, Blob(d, c), "raw")}
Under(d) == Config(d).frames = Relay.frames
From(i, d, c) == i = Native(d, c) \/ (Under(d) /\ i \in Relayed(d, c))
Traced ==
  /\ handled # NoBlob => \E d \in Daemons, c \in Clients : handled = Blob(d, c) /\ Under(d)
  /\ \A i \in DOMAIN shown : \E d \in Daemons, c \in Clients : From(i, d, c)

LEMMA TracedInit == Init => Traced
  BY DEF Init, Traced

LEMMA TracedStep == Base /\ Traced /\ [Next]_vars => Traced'
  <1> SUFFICES ASSUME Base, Traced, [Next]_vars PROVE Traced'
    OBVIOUS
  <1>0. \A d \in Daemons, c \in Clients :
          /\ Native(d, c)' = Native(d, c) /\ Under(d)' = Under(d)
          /\ Relayed(d, c)' = Relayed(d, c)
    BY FleetStays DEF Native, Under, Relayed
  <1>1. ASSUME UNCHANGED handled \/ handled' = NoBlob,
               \A i \in DOMAIN shown' \ DOMAIN shown : \E d \in Daemons, c \in Clients :
                 From(i, d, c)
        PROVE  Traced'
    <2>1. handled' # NoBlob => \E d \in Daemons, c \in Clients : handled' = Blob(d, c) /\ Under(d)'
      BY <1>0, <1>1 DEF Traced
    <2>2. \A i \in DOMAIN shown' : \E d \in Daemons, c \in Clients :
            From(i, d, c)'
      BY <1>0, <1>1 DEF Traced, From
    <2>3. QED
      BY <2>1, <2>2 DEF Traced
  <1>2. ASSUME NEW d \in Daemons, NEW c \in Clients, Finish(d, c) PROVE Traced'
    <2>1. handled' = handled
      BY <1>2 DEF Finish, Turn, relayVars
    <2>2. DOMAIN shown' \subseteq DOMAIN shown \cup {Native(d, c)}
      BY <1>2, Published DEF Finish, Native
    <2>3. \A i \in DOMAIN shown' \ DOMAIN shown : \E e \in Daemons, b \in Clients :
            From(i, e, b)
      BY <2>2 DEF From
    <2>4. QED
      BY <1>1, <2>1, <2>3
  <1>3. ASSUME NEW b \in Blobs, OnFrame(b) PROVE Traced'
    <2>1. CASE b = Stray
      BY <1>1, <1>3, <2>1 DEF OnFrame
    <2>2. CASE b # Stray
      <3>1. PICK d \in Daemons, c \in Clients : b = Blob(d, c)
        BY <2>2 DEF Blobs
      <3>2. Under(d) /\ handled' = b
        BY <1>3, <2>2, <3>1 DEF OnFrame, Arrives, Prefix, Under, Blob
      <3>3. DOMAIN shown' = DOMAIN shown \cup {Image(Relay.compressed, b, "compressed")}
        BY <1>3, <2>2, Published DEF OnFrame
      <3>4. \A i \in DOMAIN shown' : \E e \in Daemons, a \in Clients :
              From(i, e, a)'
        BY <1>0, <3>1, <3>2, <3>3 DEF Traced, Relayed, From
      <3>5. QED
        BY <1>0, <3>1, <3>2, <3>4 DEF Traced
    <2>3. QED
      BY <2>1, <2>2
  <1>4. CASE PublishRaw
    <2>1. PICK d \in Daemons, c \in Clients : handled = Blob(d, c) /\ Under(d)
      BY <1>4 DEF PublishRaw, Traced
    <2>2. /\ handled' = NoBlob
          /\ DOMAIN shown' \subseteq DOMAIN shown \cup {Image(Relay.image, handled, "raw")}
      BY <1>4, Published DEF PublishRaw
    <2>3. QED
      BY <1>1, <2>1, <2>2 DEF Relayed, From
  <1>5. (UNCHANGED <<handled, shown>>) \/ PublishRaw \/ (\E b \in Blobs : OnFrame(b))
          \/ \E d \in Daemons, c \in Clients : Finish(d, c)
    BY DEF Next, vars, relayVars, Boot, Run, Crash, ClientStep, Call, WaitTimesOut, CallTimesOut,
           TakeAnswer, Learn, Accept, Refuse, Job, Fail, Hang, Deliver, Turn, RelayStep, Destroy
  <1>6. CASE UNCHANGED <<handled, shown>>
    BY <1>1, <1>6
  <1>7. QED
    BY <1>2, <1>3, <1>4, <1>5, <1>6

\* What has been published once, and what may still be: a frame on its way is in no image
\* of the relay's, the one that it works on in no raw image, and a frame whose job is not
\* done in no native one; a call without a frame has left nothing anywhere.
Once ==
  /\ \A i \in DOMAIN shown :
       /\ shown[i] = 1
       /\ i.form # "native" => i.blob \notin sent
       /\ i.form = "raw" => i.blob # handled
  /\ handled \notin sent
  /\ \A d \in Daemons, c \in Clients :
       /\ work[d][c] # "done" => Native(d, c) \notin DOMAIN shown
       /\ work[d][c] \notin {"delivered", "done"} =>
            /\ Blob(d, c) \notin sent /\ Blob(d, c) # handled
            /\ \A i \in DOMAIN shown : i.blob # Blob(d, c)

LEMMA BlobFacts ==
  /\ NoBlob # Stray
  /\ \A d \in Daemons, c \in Clients :
       /\ Blob(d, c) \notin {Stray, NoBlob}
       /\ \A e \in Daemons, b \in Clients : Blob(d, c) = Blob(e, b) => d = e /\ c = b
  <1>1. \A d, c, e, b : Blob(d, c) = Blob(e, b) => d = e /\ c = b
    BY DEF Blob
  <1>2. Others # Nobody
    BY DEF Others, Nobody
  <1>3. QED
    BY <1>1, <1>2, NobodyAssumption DEF NoBlob, Stray

LEMMA OnceInit == Init => Once
  <1> SUFFICES ASSUME Init PROVE Once
    OBVIOUS
  <1>1. DOMAIN shown = {} /\ handled = NoBlob /\ sent = {Stray}
    BY DEF Init
  <1>2. QED
    BY <1>1, BlobFacts DEF Once

LEMMA OnceStep == Base /\ Traced /\ Once /\ [Next]_vars => Once'
  <1> SUFFICES ASSUME Base, Traced, Once, [Next]_vars PROVE Once'
    OBVIOUS
  <1>0. \A d \in Daemons, c \in Clients : Native(d, c)' = Native(d, c)
    BY FleetStays DEF Native
  <1>1. /\ NoBlob # Stray
        /\ \A d \in Daemons, c \in Clients :
             /\ Blob(d, c) \notin {Stray, NoBlob}
             /\ \A e \in Daemons, b \in Clients : Blob(d, c) = Blob(e, b) => d = e /\ c = b
    BY BlobFacts
  <1>2. NoBlob \notin sent
    BY <1>1 DEF Base, TypeOK
  <1>3. ASSUME UNCHANGED <<work, sent, handled, shown>> PROVE Once'
    BY <1>0, <1>3 DEF Once
  <1>4. ASSUME NEW d \in Daemons, NEW c \in Clients, Served(d, c), UNCHANGED <<sent, shown>>
        PROVE  Once'
    <2>1. handled' = handled
      BY <1>4, ServedFacts DEF Base
    <2>2. /\ work'[d][c] # "done" => work[d][c] # "done"
          /\ work'[d][c] \notin {"delivered", "done"} => work[d][c] \notin {"delivered", "done"}
      BY <1>4 DEF Served, Accept, Refuse, Job, Fail, Hang, Deliver, Finish, Turn, Base, TypeOK
    <2>3. \A e \in Daemons, b \in Clients : e # d \/ b # c => work'[e][b] = work[e][b]
      BY <1>4, ServedFacts DEF Base
    <2>4. QED
      BY <1>0, <1>4, <2>1, <2>2, <2>3 DEF Once
  <1>5. ASSUME NEW d \in Daemons, NEW c \in Clients, Deliver(d, c) PROVE Once'
    <2>1. Served(d, c)
      BY <1>5 DEF Served, Job
    <2>2. /\ work[d][c] = "working" /\ work'[d][c] = "delivered"
          /\ \A e \in Daemons, b \in Clients : e # d \/ b # c => work'[e][b] = work[e][b]
          /\ handled' = handled
      BY <1>5, <2>1, ServedFacts DEF Deliver, Turn, Base, TypeOK
    <2>3. sent' = sent \cup {Blob(d, c)} /\ shown' = shown
      BY <1>5 DEF Deliver
    <2>4. handled # Blob(d, c) /\ \A i \in DOMAIN shown : i.blob # Blob(d, c)
      BY <2>2 DEF Once
    <2>5. QED
      BY <1>0, <1>1, <2>2, <2>3, <2>4 DEF Once
  <1>6. ASSUME NEW d \in Daemons, NEW c \in Clients, Finish(d, c),
               shown' = With(Native(d, c))
        PROVE  Once'
    <2>1. Served(d, c)
      BY <1>6 DEF Served, Job
    <2>2. /\ work[d][c] = "delivered" /\ work'[d][c] = "done" /\ sent' = sent
          /\ \A e \in Daemons, b \in Clients : e # d \/ b # c => work'[e][b] = work[e][b]
          /\ handled' = handled
      BY <1>6, <2>1, ServedFacts DEF Finish, Turn, Base, TypeOK
    <2>3. Native(d, c) \notin DOMAIN shown
      BY <2>2 DEF Once
    <2>4. DOMAIN shown' = DOMAIN shown \cup {Native(d, c)}
      BY <1>6, Published
    <2>5. \A i \in DOMAIN shown' : shown'[i] = 1
      BY <1>6, <2>3, <2>4, Published DEF Once
    <2>6. Native(d, c).form = "native" /\ Native(d, c).blob = Blob(d, c)
      BY DEF Native, Image
    <2>7. \A e \in Daemons, b \in Clients : Native(d, c) = Native(e, b) => d = e /\ c = b
      BY <1>1 DEF Native, Image
    <2>8. QED
      BY <1>0, <1>1, <2>2, <2>4, <2>5, <2>6, <2>7 DEF Once
  <1>7. ASSUME NEW b \in Blobs, OnFrame(b) PROVE Once'
    <2>1. b \in sent /\ sent' = sent \ {b} /\ work' = work
      BY <1>7 DEF OnFrame, Arrives
    <2>2. CASE b = Stray
      <3>1. UNCHANGED <<handled, shown>>
        BY <1>7, <2>2 DEF OnFrame
      <3>2. QED
        BY <1>0, <2>1, <3>1 DEF Once
    <2>3. CASE b # Stray
      <3> DEFINE image == Image(Relay.compressed, b, "compressed")
      <3>1. handled' = b /\ shown' = With(image)
        BY <1>7, <2>3 DEF OnFrame
      <3>2. image.form = "compressed" /\ image.blob = b
        BY DEF Image
      <3>3. image \notin DOMAIN shown
        BY <2>1, <3>2 DEF Once
      <3>4. DOMAIN shown' = DOMAIN shown \cup {image} /\ \A i \in DOMAIN shown' : shown'[i] = 1
        BY <3>1, <3>3, Published DEF Once
      <3>5. \A e \in Daemons, a \in Clients : Native(e, a) # image
        BY DEF Native, Image
      <3> HIDE DEF image
      <3>6. QED
        BY <1>0, <2>1, <3>1, <3>2, <3>4, <3>5 DEF Once
    <2>4. QED
      BY <2>2, <2>3
  <1>8. CASE PublishRaw
    <2>1. handled # NoBlob /\ handled' = NoBlob /\ work' = work /\ sent' = sent
      BY <1>8 DEF PublishRaw, jobVars
    <2>2. \A i \in DOMAIN shown : i.blob # NoBlob
      BY <1>1 DEF Traced, From, Native, Relayed, Image
    <2>3. CASE shown' = shown
      BY <1>0, <1>1, <1>2, <2>1, <2>2, <2>3 DEF Once
    <2>4. CASE shown' = With(Image(Relay.image, handled, "raw"))
      <3> DEFINE image == Image(Relay.image, handled, "raw")
      <3>1. image.form = "raw" /\ image.blob = handled
        BY DEF Image
      <3>2. image \notin DOMAIN shown
        BY <3>1 DEF Once
      <3>3. DOMAIN shown' = DOMAIN shown \cup {image} /\ \A i \in DOMAIN shown' : shown'[i] = 1
        BY <2>4, <3>2, Published DEF Once
      <3>4. \A e \in Daemons, a \in Clients : Native(e, a) # image
        BY DEF Native, Image
      <3> HIDE DEF image
      <3>5. QED
        BY <1>0, <1>1, <1>2, <2>1, <2>2, <3>1, <3>3, <3>4 DEF Once
    <2>5. QED
      BY <1>8, <2>3, <2>4 DEF PublishRaw
  <1>9. ASSUME NEW d \in Daemons, NEW c \in Clients, Served(d, c) PROVE Once'
    <2>1. \/ UNCHANGED <<sent, shown>> \/ Deliver(d, c)
          \/ Finish(d, c) /\ shown' = With(Native(d, c))
      BY <1>9 DEF Served, Accept, Refuse, Job, Fail, Hang, Finish, Native
    <2>2. QED
      BY <1>4, <1>5, <1>6, <1>9, <2>1
  <1>10. \/ UNCHANGED <<work, sent, handled, shown>>
         \/ PublishRaw \/ \E b \in Blobs : OnFrame(b)
         \/ \E d \in Daemons, c \in Clients : Served(d, c)
    BY DEF Next, vars, relayVars, jobVars, Boot, Run, Crash, ClientStep, Call, WaitTimesOut,
           CallTimesOut, TakeAnswer, Learn, Served, RelayStep, Destroy
  <1>11. QED
    BY <1>3, <1>7, <1>8, <1>9, <1>10

\* No frame is published twice on a topic in one form, and a topic of its own shows one
\* camera, among daemons that keep to their defaults.
THEOREM ImagesAreShownOnce == SafeSpec => []OneImageEach
  <1>1. Base /\ Traced /\ Once => OneImageEach
    <2> SUFFICES ASSUME Base, Traced, Once, NEW i \in DOMAIN shown
                 PROVE  /\ i.blob \notin {Stray, NoBlob}
                        /\ shown[i] = 1
                        /\ \A j \in DOMAIN shown : i.topic = j.topic /\ OwnTopics =>
                             ~Apart(i.blob.daemon, j.blob.daemon)
      BY DEF OneImageEach
    <2>1. PICK d \in Daemons, c \in Clients : From(i, d, c)
      BY DEF Traced
    <2>2. i.blob = Blob(d, c)
      BY <2>1 DEF From, Native, Relayed, Image
    <2>3. i.blob \notin {Stray, NoBlob}
      BY <2>2, NobodyAssumption DEF Blob, Stray, NoBlob
    <2>4. ASSUME NEW j \in DOMAIN shown, i.topic = j.topic, OwnTopics
          PROVE  ~Apart(i.blob.daemon, j.blob.daemon)
      <3>1. PICK e \in Daemons, b \in Clients : From(j, e, b)
        BY DEF Traced
      <3>2. i.blob.daemon = d /\ j.blob.daemon = e
        BY <2>2, <3>1 DEF From, Native, Relayed, Image, Blob
      <3>3. CASE i = Native(d, c) /\ j = Native(e, b)
        <4>1. Config(d).image = Config(e).image
          BY <2>4, <3>3 DEF Native, Image
        <4>2. QED
          BY <3>2, <4>1, ApartNames DEF Base
      <3>4. CASE Under(d) /\ Under(e)
        BY <3>2, <3>4, ApartNames DEF Base, Under
      <3>5. ~(i = Native(d, c) /\ j \in Relayed(e, b))
        BY <2>4 DEF Native, Relayed, Image, OwnTopics
      <3>6. ~(j = Native(e, b) /\ i \in Relayed(d, c))
        BY <2>4 DEF Native, Relayed, Image, OwnTopics
      <3>7. QED
        BY <2>1, <3>1, <3>3, <3>4, <3>5, <3>6 DEF From
    <2>5. shown[i] = 1
      BY DEF Once
    <2>6. QED
      BY <2>3, <2>4, <2>5
  <1>2. QED
    BY <1>1, BaseInit, BaseStep, TracedInit, TracedStep, OnceInit, OnceStep, PTL DEF SafeSpec
-----------------------------------------------------------------------------
(* Names.                                                                  *)

\* Whatever the file and the host, cameras and devices have texts for ids.
LEMMA IdsAreTexts ==
  ASSUME TypeOK, NEW d \in Daemons
  PROVE  /\ CameraModel(File(d)) \in Texts
         /\ Given(File(d), "core_temp_publish.application", <<"pgwaam">>) \in Texts
         /\ Config(d).camera_id \in Texts /\ Config(d).device_id \in Texts
         /\ ShortName(Host[d]) \in Texts
  <1>1. \A k \in {"camera_id", "camera_model", "device_id", "core_temp_publish.application"} :
          k \in DOMAIN File(d) => File(d)[k] \in Texts
    BY TextAssumption DEF File, TypeOK
  <1>2. CameraModel(File(d)) \in Texts
    BY <1>1, Defaults DEF CameraModel, Given
  <1>3. Given(File(d), "core_temp_publish.application", <<"pgwaam">>) \in Texts
    BY <1>1, Defaults DEF Given
  <1>4. Config(d).camera_id \in Texts
    <2>1. Config(d).camera_id = Given(File(d), "camera_id", Slug(CameraModel(File(d))))
      BY Names DEF NamedAfter
    <2>2. QED
      BY <1>1, <1>2, <2>1, SafeNames DEF Given
  <1>5. ShortName(Host[d]) \in Texts
    BY TextAssumption, ShortNameType
  <1>6. Config(d).device_id \in Texts
    <2>1. Config(d).device_id = DeviceId(File(d), Host[d], Config(d).camera_id)
      BY Names DEF NamedAfter
    <2>2. DefaultDeviceId(Host[d], Config(d).camera_id) \in Texts
      BY <1>4, <1>5, Defaults DEF DefaultDeviceId, OrElse
    <2>3. QED
      BY <1>1, <2>1, <2>2 DEF DeviceId, GivenOr
  <1>7. QED
    BY <1>2, <1>3, <1>4, <1>5, <1>6

\* What a daemon is called where its file is silent.
LEMMA DefaultIdentity ==
  ASSUME TypeOK, NEW d \in Daemons, ByDefault(d, IdentityKeys)
  PROVE  /\ Config(d).heartbeat = Dslr(Config(d).camera_id, "heartbeat")
         /\ Config(d).alive = Dslr(Config(d).camera_id, "alive")
         /\ Config(d).heartbeatMqtt = Dslr(Config(d).camera_id, "heartbeat")
         /\ Config(d).heartbeatId = ClientId("dslr", Config(d).camera_id, "heartbeat")
         /\ Config(d).online = <<<<"pgwaam">>, Config(d).device_id, <<"online">>>>
         /\ Config(d).onlineId = ClientId("pgwaam", Config(d).device_id, "online")
  <1>1. {"heartbeat.zenoh_key", "heartbeat.liveliness_key", "heartbeat.mqtt.topic",
         "heartbeat.mqtt.client_id", "pgwaam.topic", "pgwaam.client_id"}
           \cap DOMAIN File(d) = {}
    BY DEF ByDefault, IdentityKeys
  <1>2. NamedAfter(Config(d), File(d), Host[d])
    BY Names
  <1>3. QED
    BY <1>1, <1>2 DEF NamedAfter, GivenOr

\* By default daemons are taken for one another just if they have the same camera_id
\* (heartbeats) or the same device (pgwaam pulses); those that are apart share neither
\* service nor frames nor images.
THEOREM FleetIsToldApart == SafeSpec => []FleetToldApart
  <1>1. Base => FleetToldApart
    <2> SUFFICES ASSUME TypeOK, NEW d \in Daemons, NEW e \in Daemons
                 PROVE  LET D == Config(d)
                            E == Config(e)
                        IN  /\ ByDefault(d, IdentityKeys) /\ ByDefault(e, IdentityKeys) =>
                                 /\ D.heartbeat = E.heartbeat <=> D.camera_id = E.camera_id
                                 /\ D.alive = E.alive <=> D.camera_id = E.camera_id
                                 /\ D.heartbeatMqtt = E.heartbeatMqtt
                                      <=> D.camera_id = E.camera_id
                                 /\ D.heartbeatId = E.heartbeatId <=> D.camera_id = E.camera_id
                                 /\ D.online = E.online <=> D.device_id = E.device_id
                                 /\ D.onlineId = E.onlineId <=> D.device_id = E.device_id
                            /\ NamedByHost(d) /\ NamedByHost(e) =>
                                 (D.device_id = E.device_id
                                    <=> ShortName(Host[d]) = ShortName(Host[e]))
                            /\ Apart(d, e) => {D.service, D.frames, D.image}
                                                \cap {E.service, E.frames, E.image} = {}
      BY DEF FleetToldApart, Base
    <2>1. ASSUME ByDefault(d, IdentityKeys), ByDefault(e, IdentityKeys)
          PROVE  LET D == Config(d)
                     E == Config(e)
                 IN  /\ D.heartbeat = E.heartbeat <=> D.camera_id = E.camera_id
                     /\ D.alive = E.alive <=> D.camera_id = E.camera_id
                     /\ D.heartbeatMqtt = E.heartbeatMqtt <=> D.camera_id = E.camera_id
                     /\ D.heartbeatId = E.heartbeatId <=> D.camera_id = E.camera_id
                     /\ D.online = E.online <=> D.device_id = E.device_id
                     /\ D.onlineId = E.onlineId <=> D.device_id = E.device_id
      <3>1. ClientId("dslr", Config(d).camera_id, "heartbeat")
              = ClientId("dslr", Config(e).camera_id, "heartbeat")
              <=> Config(d).camera_id = Config(e).camera_id
        BY IdsAreTexts, ClientIdsDiffer
      <3>2. ClientId("pgwaam", Config(d).device_id, "online")
              = ClientId("pgwaam", Config(e).device_id, "online")
              <=> Config(d).device_id = Config(e).device_id
        BY IdsAreTexts, ClientIdsDiffer
      <3>3. \A x, y, what : Dslr(x, what) = Dslr(y, what) <=> x = y
        BY DEF Dslr
      <3>4. <<<<"pgwaam">>, Config(d).device_id, <<"online">>>>
              = <<<<"pgwaam">>, Config(e).device_id, <<"online">>>>
              <=> Config(d).device_id = Config(e).device_id
        OBVIOUS
      <3>5. QED
        BY <2>1, <3>1, <3>2, <3>3, <3>4, DefaultIdentity
    <2>2. ASSUME NEW b \in {d, e}, NamedByHost(b) PROVE Config(b).device_id = ShortName(Host[b])
      <3>1. Config(b).device_id = DeviceId(File(b), Host[b], Config(b).camera_id)
        BY Names DEF NamedAfter
      <3>2. "device_id" \notin DOMAIN File(b) /\ ShortName(Host[b]) # <<>>
        BY <2>2 DEF ByDefault, NamedByHost
      <3>3. QED
        BY <3>1, <3>2 DEF DeviceId, GivenOr, DefaultDeviceId, OrElse
    <2>3. QED
      BY <2>1, <2>2, ApartNames
  <1>2. QED
    BY <1>1, BaseAlways, PTL

\* Names made of a model, a host or an application are clean, and legal but for a digit
\* that comes first and underscores beside other separators.
THEOREM NamesAreLegal == SafeSpec => []NamesLegal
  <1>1. Base => NamesLegal
    <2> SUFFICES ASSUME TypeOK, NEW d \in Daemons
                 PROVE  /\ "camera_id" \notin DOMAIN File(d) =>
                             /\ Clean(Config(d).camera_id) /\ ~Doubled(Config(d).camera_id)
                             /\ LettersFirst(CameraModel(File(d))) => Legal(Config(d).camera_id)
                        /\ "core_temp_publish.topic" \notin DOMAIN File(d) =>
                             \A k \in {1, 2} :
                               /\ Clean(Config(d).coreTemp[k])
                               /\ LettersFirst(Labels(d)[k]) /\ UnderscoresApart(Labels(d)[k])
                                    => Legal(Config(d).coreTemp[k])
      BY DEF NamesLegal, Base
    <2>1. ASSUME "core_temp_publish.topic" \notin DOMAIN File(d), NEW k \in {1, 2}
          PROVE  /\ Clean(Config(d).coreTemp[k])
                 /\ LettersFirst(Labels(d)[k]) /\ UnderscoresApart(Labels(d)[k])
                      => Legal(Config(d).coreTemp[k])
      <3>1. Config(d).coreTemp = <<Ros2SafeName(Labels(d)[1]), Ros2SafeName(Labels(d)[2]),
                                   <<"online">>, <<"core_temp">>>>
        <4>1. NamedAfter(Config(d), File(d), Host[d])
          BY Names
        <4>2. QED
          BY <2>1, <4>1 DEF NamedAfter, GivenOr, Labels
      <3>2. Labels(d)[k] \in Texts
        BY IdsAreTexts DEF Labels
      <3>3. Config(d).coreTemp[k] = Ros2SafeName(Labels(d)[k])
        BY <3>1
      <3>4. QED
        BY <3>2, <3>3, SafeNames
    <2>2. ASSUME "camera_id" \notin DOMAIN File(d)
          PROVE  /\ Clean(Config(d).camera_id) /\ ~Doubled(Config(d).camera_id)
                 /\ LettersFirst(CameraModel(File(d))) => Legal(Config(d).camera_id)
      <3>1. Config(d).camera_id = Slug(CameraModel(File(d)))
        BY <2>2, Names DEF NamedAfter, Given
      <3>2. QED
        BY <3>1, IdsAreTexts, SafeNames
    <2>3. QED
      BY <2>1, <2>2
  <1>2. QED
    BY <1>1, BaseAlways, PTL
-----------------------------------------------------------------------------
(* The environment variable.                                               *)

\* The positions of p in an override.
At(override, p) == {i \in DOMAIN override : override[i].path = p}

\* The positions of what the user has set and the daemon does not own.
Users(override) ==
  {i \in DOMAIN override : override[i] # Blank /\ override[i].path \notin OwnedPaths}

\* The daemon's own segments, and that their paths differ.
LEMMA OwnedFacts ==
  /\ Len(OwnedSegments) = 3 /\ DOMAIN OwnedSegments = 1 .. 3
  /\ OwnedSegments[1] = [path |-> "mode", value |-> "client"]
  /\ OwnedSegments[2] = [path |-> "scouting/gossip/enabled", value |-> "false"]
  /\ OwnedSegments[3] = [path |-> "scouting/multicast/enabled", value |-> "false"]
  /\ OwnedPaths = {"mode", "scouting/gossip/enabled", "scouting/multicast/enabled"}
  /\ \A j \in 1 .. 3 : OwnedSegments[j].path \in OwnedPaths
  /\ \A i, j \in 1 .. 3 : OwnedSegments[i].path = OwnedSegments[j].path => i = j
  <1>1. /\ Len(OwnedSegments) = 3 /\ DOMAIN OwnedSegments = 1 .. 3
        /\ OwnedSegments[1] = [path |-> "mode", value |-> "client"]
        /\ OwnedSegments[2] = [path |-> "scouting/gossip/enabled", value |-> "false"]
        /\ OwnedSegments[3] = [path |-> "scouting/multicast/enabled", value |-> "false"]
    BY DEF OwnedSegments
  <1>2. 1 .. 3 = {1, 2, 3}
    OBVIOUS
  <1>3. OwnedPaths = {"mode", "scouting/gossip/enabled", "scouting/multicast/enabled"}
    BY <1>1, <1>2 DEF OwnedPaths
  <1>4. \A i, j \in {1, 2, 3} : OwnedSegments[i].path = OwnedSegments[j].path => i = j
    BY <1>1
  <1>5. QED
    BY <1>1, <1>2, <1>3, <1>4

\* The position of k in an interval that starts with 1 is k.
LEMMA NthInterval ==
  ASSUME NEW n \in Nat, NEW k \in 1 .. n
  PROVE  Nth(1 .. n, k) = k
  <1>1. {j \in 1 .. n : j <= k} = 1 .. k
    OBVIOUS
  <1>2. Place(1 .. n, k) = k
    <2>1. Cardinality(1 .. k) = k
      BY FS_Interval
    <2>2. QED
      BY <1>1, <2>1 DEF Place
  <1>3. IsFiniteSet(1 .. n) /\ 1 .. n \in SUBSET Int
    BY FS_Interval
  <1>4. QED
    BY <1>2, <1>3, NthFacts

\* An override once rewritten: what the user has set, and then what the daemon sets.
LEMMA Forced ==
  ASSUME NEW T, NEW o \in Seq(T)
  PROVE  LET F == ForceNativeClientMode(o)
             K == Kept(o, Users(o))
             n == Cardinality(Users(o))
         IN  /\ n \in Nat /\ DOMAIN F = 1 .. n + 3 /\ Len(K) = n /\ DOMAIN K = 1 .. n
             /\ F \in Seq(T \cup {OwnedSegments[1], OwnedSegments[2], OwnedSegments[3]})
             /\ \A i \in 1 .. n : /\ F[i] = K[i] /\ K[i] = o[Nth(Users(o), i)]
                                  /\ Nth(Users(o), i) \in Users(o)
                                  /\ F[i] # Blank /\ F[i].path \notin OwnedPaths
             /\ F[n + 1] = OwnedSegments[1] /\ F[n + 2] = OwnedSegments[2]
             /\ F[n + 3] = OwnedSegments[3]
  <1> DEFINE F == ForceNativeClientMode(o)
             S == Users(o)
             K == Kept(o, S)
             n == Cardinality(S)
             U == T \cup {OwnedSegments[1], OwnedSegments[2], OwnedSegments[3]}
  <1>1. S \in SUBSET DOMAIN o /\ n \in Nat
    <2>1. S \in SUBSET DOMAIN o
      BY DEF Users
    <2>2. QED
      BY <2>1, Positions
  <1>2. /\ K \in Seq(T) /\ Len(K) = n /\ DOMAIN K = 1 .. n
        /\ \A i \in 1 .. n : Nth(S, i) \in S /\ K[i] = o[Nth(S, i)]
    BY <1>1, KeptFacts
  <1>3. F = K \o OwnedSegments
    BY DEF ForceNativeClientMode, Users
  <1>4. K \in Seq(U) /\ OwnedSegments \in Seq(U)
    <2>1. OwnedSegments \in Seq(U)
      <3>1. \A i \in 1 .. 3 : OwnedSegments[i] \in U
        <4>1. 1 .. 3 = {1, 2, 3}
          OBVIOUS
        <4>2. QED
          BY <4>1
      <3>2. OwnedSegments = [i \in 1 .. 3 |-> OwnedSegments[i]]
        BY DEF OwnedSegments
      <3> HIDE DEF U
      <3>3. QED
        BY <3>1, <3>2
    <2>2. QED
      BY <1>2, <2>1
  <1> HIDE DEF F, S, K, U
  <1>5. /\ F \in Seq(U) /\ DOMAIN F = 1 .. n + 3
        /\ \A i \in 1 .. n : F[i] = K[i]
        /\ \A j \in 1 .. 3 : F[n + j] = OwnedSegments[j]
    <2>1. /\ K \o OwnedSegments \in Seq(U)
          /\ DOMAIN (K \o OwnedSegments) = 1 .. Len(K) + Len(OwnedSegments)
          /\ \A i \in 1 .. Len(K) : (K \o OwnedSegments)[i] = K[i]
          /\ \A j \in 1 .. Len(OwnedSegments) :
               (K \o OwnedSegments)[Len(K) + j] = OwnedSegments[j]
      BY <1>4
    <2> HIDE DEF n
    <2>2. QED
      BY <1>2, <1>3, <2>1, OwnedFacts
  <1>6. \A i \in 1 .. n : F[i] # Blank /\ F[i].path \notin OwnedPaths
    BY <1>2, <1>5 DEF S, Users
  <1>7. 1 \in 1 .. 3 /\ 2 \in 1 .. 3 /\ 3 \in 1 .. 3
    OBVIOUS
  <1>8. QED
    BY <1>1, <1>2, <1>5, <1>6, <1>7 DEF F, S, K, U

\* Rewriting the variable again changes nothing, as force_native_client_mode says of
\* itself ("Idempotent", zenoh_native_session.py:54): an embedder's run may follow main.
THEOREM ForcingIsIdempotent ==
  ASSUME NEW T, NEW o \in Seq(T)
  PROVE  ForceNativeClientMode(ForceNativeClientMode(o)) = ForceNativeClientMode(o)
  <1> DEFINE F == ForceNativeClientMode(o)
             K == Kept(o, Users(o))
             n == Cardinality(Users(o))
  <1>1. /\ n \in Nat /\ DOMAIN F = 1 .. n + 3 /\ DOMAIN K = 1 .. n
        /\ \A i \in 1 .. n : F[i] = K[i] /\ F[i] # Blank /\ F[i].path \notin OwnedPaths
        /\ \A i \in {n + 1, n + 2, n + 3} : F[i].path \in OwnedPaths
    <2>1. /\ n \in Nat /\ DOMAIN F = 1 .. n + 3 /\ DOMAIN K = 1 .. n
          /\ \A i \in 1 .. n : F[i] = K[i] /\ F[i] # Blank /\ F[i].path \notin OwnedPaths
          /\ F[n + 1] = OwnedSegments[1] /\ F[n + 2] = OwnedSegments[2]
          /\ F[n + 3] = OwnedSegments[3]
      BY Forced
    <2>2. /\ OwnedSegments[1].path \in OwnedPaths /\ OwnedSegments[2].path \in OwnedPaths
          /\ OwnedSegments[3].path \in OwnedPaths
      BY OwnedFacts
    <2> HIDE DEF F, K, n
    <2>3. QED
      BY <2>1, <2>2
  <1>2. F = K \o OwnedSegments
    BY DEF ForceNativeClientMode, Users
  <1>3. K = [i \in 1 .. n |-> K[i]]
    BY DEF Kept
  <1> HIDE DEF F, K, n
  <1>4. Users(F) = 1 .. n
    <2>1. 1 .. n + 3 = (1 .. n) \cup {n + 1, n + 2, n + 3}
      BY <1>1
    <2>2. QED
      BY <1>1, <2>1 DEF Users
  <1>5. Kept(F, 1 .. n) = K
    <2>1. Cardinality(1 .. n) = n
      BY <1>1, FS_Interval
    <2>2. \A k \in 1 .. n : Nth(1 .. n, k) = k
      BY <1>1, NthInterval
    <2>3. Kept(F, 1 .. n) = [k \in 1 .. n |-> F[k]]
      BY <2>1, <2>2 DEF Kept
    <2>4. QED
      BY <1>1, <1>3, <2>3
  <1>6. ForceNativeClientMode(F) = Kept(F, Users(F)) \o OwnedSegments
    BY DEF ForceNativeClientMode, Users
  <1>7. QED
    BY <1>2, <1>4, <1>5, <1>6 DEF F

\* The last segment of a path is still the last one if none of that path was dropped.
LEMMA LastKept ==
  ASSUME NEW T, NEW s \in Seq(T), NEW S \in SUBSET DOMAIN s, NEW p,
         {i \in S : s[i].path = p} # {}
  PROVE  /\ At(Kept(s, S), p) # {}
         /\ Kept(s, S)[Max(At(Kept(s, S), p))] = s[Max({i \in S : s[i].path = p})]
  <1> DEFINE D == {i \in S : s[i].path = p}
             K == Kept(s, S)
             n == Cardinality(S)
             E == At(K, p)
  <1>1. IsFiniteSet(S) /\ S \in SUBSET Int /\ n \in Nat
    BY Positions
  <1>2. /\ K \in Seq(T) /\ DOMAIN K = 1 .. n
        /\ \A k \in 1 .. n : Nth(S, k) \in S /\ K[k] = s[Nth(S, k)]
    BY KeptFacts
  <1>3. Max(D) \in D /\ \A i \in D : i <= Max(D)
    <2>1. D \in SUBSET DOMAIN s /\ D # {}
      OBVIOUS
    <2> HIDE DEF D
    <2>2. QED
      BY <2>1, Positions, Extremes
  <1> DEFINE m == Max(D)
             k == Place(S, m)
  <1>4. m \in S /\ k \in 1 .. n /\ Nth(S, k) = m
    <2>1. m \in S
      BY <1>3
    <2> HIDE DEF m
    <2>2. QED
      BY <1>1, <2>1, PlaceFacts, NthFacts
  <1> HIDE DEF K, n, m, k
  <1>5. k \in E
    BY <1>2, <1>3, <1>4 DEF At, m
  <1>6. Max(E) \in E /\ \A i \in E : i <= Max(E)
    <2>1. E \in SUBSET DOMAIN K
      BY DEF At
    <2> HIDE DEF E
    <2>2. QED
      BY <1>2, <1>5, <2>1, Positions, Extremes
  <1> DEFINE l == Max(E)
  <1>7. l \in 1 .. n /\ K[l].path = p /\ k <= l
    BY <1>2, <1>5, <1>6 DEF At
  <1> HIDE DEF l, E
  <1>8. Nth(S, l) \in D
    BY <1>2, <1>7
  <1>9. Nth(S, l) = m
    <2>1. Nth(S, l) <= m
      BY <1>3, <1>8 DEF m
    <2>2. k < l => m < Nth(S, l)
      BY <1>1, <1>4, <1>7, NthOrder DEF n
    <2>3. m \in Int /\ Nth(S, l) \in Int /\ k \in Int /\ l \in Int
      BY <1>1, <1>2, <1>4, <1>7
    <2>4. k = l
      BY <1>7, <2>1, <2>2, <2>3
    <2>5. QED
      BY <1>4, <2>4
  <1>10. QED
    BY <1>2, <1>5, <1>7, <1>9 DEF K, E, l, m

\* The paths that an override sets.
Paths(override) == {override[i].path : i \in DOMAIN override}

\* What is kept of an override sets the paths of what is kept.
LEMMA KeptPaths ==
  ASSUME NEW T, NEW s \in Seq(T), NEW S \in SUBSET DOMAIN s
  PROVE  Paths(Kept(s, S)) = {s[i].path : i \in S}
  <1> DEFINE K == Kept(s, S)
             n == Cardinality(S)
  <1>1. IsFiniteSet(S) /\ S \in SUBSET Int
    BY Positions
  <1>2. DOMAIN K = 1 .. n /\ \A k \in 1 .. n : Nth(S, k) \in S /\ K[k] = s[Nth(S, k)]
    BY KeptFacts
  <1>3. \A i \in S : Place(S, i) \in 1 .. n /\ Nth(S, Place(S, i)) = i
    BY <1>1, PlaceFacts, NthFacts
  <1> HIDE DEF K, n
  <1>4. ASSUME NEW i \in S PROVE \E k \in DOMAIN K : K[k].path = s[i].path
    BY <1>2, <1>3
  <1>5. ASSUME NEW k \in DOMAIN K PROVE \E i \in S : K[k].path = s[i].path
    BY <1>2
  <1>6. Paths(K) = {s[i].path : i \in S}
    BY <1>4, <1>5 DEF Paths
  <1>7. QED
    BY <1>6 DEF K

\* The session of a process is forced if its variable is e where the user has set o.
ForcedInto(e, o) ==
  LET session == SessionConfig(e)
      user == SessionConfig(Present(o))
  IN  /\ DOMAIN session = DOMAIN user \cup OwnedPaths
      /\ session["mode"] = "client"
      /\ session["scouting/gossip/enabled"] = "false"
      /\ session["scouting/multicast/enabled"] = "false"
      /\ \A p \in DOMAIN user \ OwnedPaths : session[p] = user[p]
      /\ \A s \in ToSet(e) : s.path \in OwnedPaths =>
           Cardinality({i \in DOMAIN e : e[i].path = s.path}) = 1

\* A rewritten override forces it.
LEMMA ForcedSession ==
  ASSUME NEW T, NEW o \in Seq(T)
  PROVE  ForcedInto(ForceNativeClientMode(o), o)
  <1> DEFINE F == ForceNativeClientMode(o)
             S == Users(o)
             K == Kept(o, S)
             n == Cardinality(S)
             P == {i \in DOMAIN o : o[i] # Blank}
             Q == Kept(o, P)
             session == SessionConfig(F)
             user == SessionConfig(Present(o))
  <1>1. /\ n \in Nat /\ DOMAIN F = 1 .. n + 3 /\ DOMAIN K = 1 .. n
        /\ \A i \in 1 .. n : F[i] = K[i] /\ F[i].path \notin OwnedPaths
        /\ F[n + 1] = OwnedSegments[1] /\ F[n + 2] = OwnedSegments[2]
        /\ F[n + 3] = OwnedSegments[3]
    BY Forced
  <1> HIDE DEF F
  <1>2. S \in SUBSET DOMAIN o /\ P \in SUBSET DOMAIN o
    BY DEF Users
  <1>3. Present(o) = Q
    BY DEF Present
  <1>4. \A c, p : p \in Paths(c) => SessionConfig(c)[p] = c[Max(At(c, p))].value
    BY DEF SessionConfig, At, Paths
  <1>5. \A c : DOMAIN SessionConfig(c) = Paths(c)
    BY DEF SessionConfig, Paths
  <1>6. Paths(K) = {o[i].path : i \in S} /\ Paths(Q) = {o[i].path : i \in P}
    <2> HIDE DEF P, S
    <2>1. QED
      BY <1>2, KeptPaths
  <1>7. Paths(F) = Paths(K) \cup OwnedPaths
    <2>1. 1 .. n + 3 = (1 .. n) \cup {n + 1, n + 2, n + 3}
      <3> HIDE DEF n
      <3>1. QED
        BY <1>1
    <2>2. OwnedPaths = {F[n + 1].path, F[n + 2].path, F[n + 3].path}
      BY <1>1, OwnedFacts
    <2> HIDE DEF n, K
    <2>3. Paths(F) = {F[i].path : i \in 1 .. n} \cup {F[n + 1].path, F[n + 2].path, F[n + 3].path}
      <3>1. Paths(F) = {F[i].path : i \in (1 .. n) \cup {n + 1, n + 2, n + 3}}
        BY <1>1, <2>1, Zenon DEF Paths
      <3> HIDE DEF Paths
      <3>2. {F[i].path : i \in (1 .. n) \cup {n + 1, n + 2, n + 3}}
              = {F[i].path : i \in 1 .. n} \cup {F[n + 1].path, F[n + 2].path, F[n + 3].path}
        OBVIOUS
      <3>3. QED
        BY <3>1, <3>2, Zenon
    <2>4. {F[i].path : i \in 1 .. n} = Paths(K)
      <3>1. Paths(K) = {K[i].path : i \in 1 .. n}
        BY <1>1, Zenon DEF Paths
      <3>2. \A i \in 1 .. n : F[i].path = K[i].path
        BY <1>1
      <3> HIDE DEF Paths
      <3>3. {F[i].path : i \in 1 .. n} = {K[i].path : i \in 1 .. n}
        BY <3>2
      <3>4. QED
        BY <3>1, <3>3
    <2>5. QED
      BY <2>2, <2>3, <2>4
  <1>8. DOMAIN session = DOMAIN user \cup OwnedPaths
    <2>1. {o[i].path : i \in S} \cup OwnedPaths = {o[i].path : i \in P} \cup OwnedPaths
      BY DEF Users
    <2>2. QED
      BY <1>3, <1>5, <1>6, <1>7, <2>1
  <1>9. ASSUME NEW j \in 1 .. 3 PROVE At(F, OwnedSegments[j].path) = {n + j}
    <2> HIDE DEF n, K
    <2>1. F[n + j] = OwnedSegments[j] /\ n + j \in 1 .. n + 3
      BY <1>1
    <2>2. ASSUME NEW i \in 1 .. n + 3, F[i].path = OwnedSegments[j].path PROVE i = n + j
      <3>1. i \notin 1 .. n
        BY <1>1, <2>2, OwnedFacts
      <3>2. PICK l \in 1 .. 3 : i = n + l
        BY <1>1, <3>1
      <3>3. F[i] = OwnedSegments[l]
        BY <1>1, <3>2
      <3>4. QED
        BY <2>2, <3>2, <3>3, OwnedFacts
    <2>3. QED
      BY <1>1, <2>1, <2>2 DEF At
  <1>10. ASSUME NEW j \in 1 .. 3 PROVE session[OwnedSegments[j].path] = OwnedSegments[j].value
    <2>1. OwnedSegments[j].path \in Paths(F)
      BY <1>7, OwnedFacts
    <2>2. Max({n + j}) = n + j
      <3> HIDE DEF n
      <3>1. n + j \in Int
        BY <1>1
      <3>2. QED
        BY <3>1 DEF Max
    <2>3. F[n + j] = OwnedSegments[j]
      BY <1>1
    <2>4. session[OwnedSegments[j].path] = F[Max(At(F, OwnedSegments[j].path))].value
      BY <1>4, <2>1
    <2>5. At(F, OwnedSegments[j].path) = {n + j}
      BY <1>9
    <2> HIDE DEF session, n
    <2>6. QED
      BY <2>2, <2>3, <2>4, <2>5
  <1>11. ASSUME NEW p \in DOMAIN user \ OwnedPaths PROVE session[p] = user[p]
    <2> DEFINE D == {i \in S : o[i].path = p}
    <2>1. D = {i \in P : o[i].path = p} /\ D # {}
      BY <1>3, <1>5, <1>6 DEF Users
    <2>2. /\ At(K, p) # {} /\ K[Max(At(K, p))] = o[Max(D)]
          /\ Q[Max(At(Q, p))] = o[Max(D)]
      <3> HIDE DEF S, P
      <3>0. {i \in S : o[i].path = p} # {}
        BY <2>1
      <3>1. At(K, p) # {} /\ K[Max(At(K, p))] = o[Max(D)]
        BY <1>2, <3>0, LastKept
      <3>2. {i \in P : o[i].path = p} # {}
        BY <2>1
      <3>3. Q[Max(At(Q, p))] = o[Max({i \in P : o[i].path = p})]
        BY <1>2, <3>2, LastKept
      <3>4. QED
        BY <2>1, <3>1, <3>3
    <2>3. At(F, p) = At(K, p) /\ At(K, p) # {} /\ At(K, p) \in SUBSET (1 .. n)
      <3>1. At(K, p) # {} /\ At(K, p) \in SUBSET (1 .. n)
        <4> HIDE DEF n, K
        <4>1. QED
          BY <1>1, <2>2 DEF At
      <3> HIDE DEF n, K
      <3>2. \A i \in 1 .. n + 3 : F[i].path = p => i \in 1 .. n
        <4>1. 1 .. n + 3 = (1 .. n) \cup {n + 1, n + 2, n + 3}
          BY <1>1
        <4>2. QED
          BY <1>1, <4>1, OwnedFacts
      <3>3. 1 .. n \subseteq 1 .. n + 3
        BY <1>1
      <3>4. QED
        BY <1>1, <3>1, <3>2, <3>3 DEF At
    <2>4. Max(At(K, p)) \in 1 .. n
      <3> HIDE DEF n, K
      <3>1. IsFiniteSet(1 .. n) /\ 1 .. n \in SUBSET Int
        <4>1. n \in Int
          BY <1>1
        <4>2. IsFiniteSet(1 .. n)
          BY <4>1, FS_Interval
        <4>3. QED
          BY <4>2
      <3> DEFINE A == At(K, p)
      <3>2. A # {} /\ A \in SUBSET (1 .. n)
        BY <2>3
      <3> HIDE DEF A
      <3>3. IsFiniteSet(A) /\ A \in SUBSET Int
        BY <3>1, <3>2, FS_Subset
      <3>4. Max(A) \in A
        BY <3>2, <3>3, Extremes
      <3>5. QED
        BY <3>2, <3>4 DEF A
    <2>5. F[Max(At(F, p))] = o[Max(D)]
      BY <1>1, <2>2, <2>3, <2>4
    <2>6. p \in Paths(F) /\ p \in Paths(Q)
      BY <1>3, <1>5, <1>8
    <2> HIDE DEF D, K, Q, S, P, n
    <2>7. QED
      BY <1>3, <1>4, <2>2, <2>5, <2>6
  <1>12. ASSUME NEW s \in ToSet(F), s.path \in OwnedPaths
         PROVE  Cardinality({i \in DOMAIN F : F[i].path = s.path}) = 1
    <2>1. PICK j \in 1 .. 3 : s.path = OwnedSegments[j].path
      BY <1>12 DEF OwnedPaths, OwnedSegments
    <2>2. {i \in DOMAIN F : F[i].path = s.path} = {n + j}
      BY <1>9, <2>1 DEF At
    <2>3. QED
      BY <2>2, FS_Singleton
  <1>13. QED
    <2>1. 1 \in 1 .. 3 /\ 2 \in 1 .. 3 /\ 3 \in 1 .. 3
      OBVIOUS
    <2>2. /\ session["mode"] = "client"
          /\ session["scouting/gossip/enabled"] = "false"
          /\ session["scouting/multicast/enabled"] = "false"
      BY <1>10, <2>1, OwnedFacts
    <2> HIDE DEF session, user
    <2>3. \A p \in DOMAIN user \ OwnedPaths : session[p] = user[p]
      BY <1>11
    <2>4. \A s \in ToSet(F) : s.path \in OwnedPaths =>
            Cardinality({i \in DOMAIN F : F[i].path = s.path}) = 1
      BY <1>12
    <2>5. QED
      BY <1>8, <2>2, <2>3, <2>4, Zenon DEF session, user, F, ForcedInto

\* The variable is the user's until the daemon's entry point or its run rewrites it.
Environment ==
  /\ env = [d \in Daemons |-> env[d]]
  /\ \A d \in Daemons :
       /\ proc[d] = "off" => env[d] = UserOverride[d]
       /\ proc[d] \in {"booted", "up"} => env[d] = ForceNativeClientMode(UserOverride[d])

LEMMA EnvironmentInit == Init => Environment
  BY OverrideAssumption DEF Init, Environment

LEMMA EnvironmentStep == Base /\ Environment /\ [Next]_vars => Environment'
  <1> SUFFICES ASSUME Base, Environment, [Next]_vars PROVE Environment'
    OBVIOUS
  <1>1. ASSUME NEW d \in Daemons,
               proc[d] \in {"off", "booted"}, proc' = [proc EXCEPT ![d] = proc'[d]],
               \/ /\ env' = [env EXCEPT ![d] = ForceNativeClientMode(@)]
                  /\ proc'[d] \in {"booted", "up"}
               \/ env' = env /\ proc'[d] = "dead"
        PROVE  Environment'
    <2>1. ForceNativeClientMode(env[d]) = ForceNativeClientMode(UserOverride[d])
      <3>1. UserOverride[d] \in Seq([path : STRING, value : STRING])
        BY OverrideAssumption
      <3>2. \/ env[d] = UserOverride[d]
            \/ env[d] = ForceNativeClientMode(UserOverride[d])
        BY <1>1 DEF Environment
      <3>3. QED
        BY <3>1, <3>2, ForcingIsIdempotent
    <2>2. \A e \in Daemons : e # d => proc'[e] = proc[e] /\ env'[e] = env[e]
      BY <1>1 DEF Base, TypeOK, Environment
    <2>3. env' = [e \in Daemons |-> env'[e]]
      BY <1>1 DEF Environment
    <2>4. proc'[d] \in {"booted", "up"} => env'[d] = ForceNativeClientMode(UserOverride[d])
      BY <1>1, <2>1 DEF Environment
    <2>5. QED
      BY <1>1, <2>2, <2>3, <2>4 DEF Environment
  <1>2. ASSUME NEW d \in Daemons, Boot(d) PROVE Environment'
    <2>1. proc' = [proc EXCEPT ![d] = proc'[d]] /\ proc'[d] = "booted"
      BY <1>2 DEF Boot, Base, TypeOK
    <2>2. QED
      BY <1>1, <1>2, <2>1 DEF Boot
  <1>3. ASSUME NEW d \in Daemons, Run(d) PROVE Environment'
    <2>1. /\ proc' = [proc EXCEPT ![d] = proc'[d]]
          /\ \/ /\ env' = [env EXCEPT ![d] = ForceNativeClientMode(@)]
                /\ proc'[d] \in {"booted", "up"}
             \/ env' = env /\ proc'[d] = "dead"
      BY <1>3 DEF Run, Base, TypeOK
    <2>2. QED
      BY <1>1, <1>3, <2>1 DEF Run
  <1>4. ASSUME NEW d \in Daemons, Crash(d) PROVE Environment'
    BY <1>4 DEF Crash, Environment, Base, TypeOK
  <1>5. ASSUME UNCHANGED <<env, proc>> PROVE Environment'
    BY <1>5 DEF Environment
  <1>6. \/ UNCHANGED <<env, proc>>
        \/ \E d \in Daemons : Boot(d) \/ Run(d) \/ Crash(d)
    BY DEF Next, vars, bootVars, ClientStep, Call, WaitTimesOut, CallTimesOut, jobVars,
           TakeAnswer, Learn, Accept, Refuse, Job, Fail, Hang, Deliver, Finish, Turn,
           RelayStep, OnFrame, PublishRaw, Destroy
  <1>7. QED
    BY <1>2, <1>3, <1>4, <1>5, <1>6

\* A running daemon's native sessions are client sessions without scouting, whatever
\* the user has put into the variable, and the user's other settings stay in force:
\* what the daemon sets comes last and once (zenoh_native_session.py:51-79).
THEOREM SessionsAreForced == SafeSpec => []SessionForced
  <1>1. Environment => SessionForced
    <2> SUFFICES ASSUME Environment, NEW d \in Daemons, proc[d] = "up"
                 PROVE  ForcedInto(env[d], UserOverride[d])
      BY DEF SessionForced, ForcedInto
    <2>1. env[d] = ForceNativeClientMode(UserOverride[d])
      BY DEF Environment
    <2>2. UserOverride[d] \in Seq([path : STRING, value : STRING])
      BY OverrideAssumption
    <2>3. QED
      BY <2>1, <2>2, ForcedSession
  <1>2. QED
    BY <1>1, BaseInit, BaseStep, EnvironmentInit, EnvironmentStep, PTL DEF SafeSpec
=============================================================================
