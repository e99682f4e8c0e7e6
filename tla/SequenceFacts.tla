--------------------------- MODULE SequenceFacts ---------------------------
(***************************************************************************)
(* Facts about the operators of SequencesExt with which the modules are    *)
(* written, and induction over the natural numbers without an operator as  *)
(* a parameter.                                                            *)
(***************************************************************************)
EXTENDS Integers, SequencesExt, SequenceTheorems, FiniteSetTheorems, WellFoundedInduction, TLAPS

\* Induction over the natural numbers, for a set in place of a predicate.
LEMMA NatSetInduction ==
    ASSUME NEW T, 0 \in T, \A n \in Nat : n \in T => n + 1 \in T
    PROVE  Nat \subseteq T
<1>. SUFFICES ASSUME NEW b \in Nat, b \notin T PROVE FALSE
  OBVIOUS
<1>. DEFINE Bad == {0 .. n : n \in Nat \ T}
<1>1. IsWellFoundedOn(StrictSubsetOrdering(Nat), FiniteSubsetsOf(Nat))
  BY FS_StrictSubsetOrderingWellFounded
<1>2. Bad \subseteq FiniteSubsetsOf(Nat)
  <2>1. \A n \in Nat : 0 .. n \subseteq Nat /\ IsFiniteSet(0 .. n)
    BY FS_Interval
  <2>. QED
    BY <2>1 DEF FiniteSubsetsOf
<1>3. 0 .. b \in Bad
  OBVIOUS
<1>4. PICK S \in Bad : \A U \in Bad : <<U, S>> \notin StrictSubsetOrdering(Nat)
  <2>. HIDE DEF Bad
  <2>. QED
    BY <1>1, <1>2, <1>3, WFMin, Zenon
<1>5. PICK n \in Nat \ T : S = 0 .. n
  OBVIOUS
<1>6. n - 1 \in Nat \ T
  BY <1>5
<1>7. 0 .. n - 1 \in Bad /\ 0 .. n - 1 \subseteq S /\ 0 .. n - 1 # S
  <2>1. n \in S /\ n \notin 0 .. n - 1 /\ 0 .. n - 1 \subseteq S
    BY <1>5
  <2>. QED
    BY <1>6, <2>1
<1>8. <<0 .. n - 1, S>> \in StrictSubsetOrdering(Nat)
  BY <1>5, <1>7 DEF StrictSubsetOrdering
<1>. QED
  BY <1>4, <1>7, <1>8

\* A set of numbers has a least one, and a greatest if it has a bound.
LEMMA LeastExists ==
    ASSUME NEW S \in SUBSET Nat, S # {}
    PROVE  \E x \in S : \A y \in S : x <= y
<1>. DEFINE T == {n \in Nat : \A m \in 0 .. n : m \notin S}
<1>. SUFFICES ASSUME \A x \in S : \E y \in S : y < x PROVE FALSE
  OBVIOUS
<1>1. 0 \in T
  <2>1. 0 \notin S
    OBVIOUS
  <2>. QED
    BY <2>1
<1>2. ASSUME NEW n \in Nat, n \in T PROVE n + 1 \in T
  <2>1. n + 1 \notin S
    BY <1>2
  <2>. QED
    BY <1>2, <2>1
<1>3. Nat \subseteq T
  <2>. HIDE DEF T
  <2>. QED
    BY <1>1, <1>2, NatSetInduction
<1>4. PICK x \in S : TRUE
  OBVIOUS
<1>5. x \in T
  BY <1>3
<1>. QED
  BY <1>5

LEMMA GreatestExists ==
    ASSUME NEW n \in Nat, NEW S \in SUBSET (0..n), S # {}
    PROVE  \E x \in S : \A y \in S : y <= x
<1>. DEFINE T == {n - x : x \in S}
<1>1. \A x \in S : x \in Nat /\ n - x \in Nat
  OBVIOUS
<1>2. T \in SUBSET Nat /\ T # {}
  BY <1>1
<1>3. PICK t \in T : \A y \in T : t <= y
  BY <1>2, LeastExists
<1>4. PICK x \in S : t = n - x
  BY <1>3
<1>5. ASSUME NEW y \in S PROVE y <= x
  <2>1. n - y \in T
    OBVIOUS
  <2>2. n - x <= n - y
    BY <1>3, <1>4, <2>1
  <2>. HIDE DEF T
  <2>3. x \in Nat /\ y \in Nat
    BY <1>1
  <2>. QED
    BY <2>2, <2>3
<1>. QED
  BY <1>5

\* f makes each of its values from the one before it, with the n steps.
StepsOf(V, n) == [1..n -> [V -> V]]

IsRecursion(V, n, first, step, f) ==
    /\ f \in [0..n -> V]
    /\ f[0] = first
    /\ \A i \in 1..n : f[i] = step[i][f[i - 1]]

\* A function defined by recursion is there, which no induction theorem can be
\* used for.
LEMMA RecursionExists ==
    ASSUME NEW V, NEW n \in Nat, NEW first \in V, NEW step \in StepsOf(V, n)
    PROVE  \E f : IsRecursion(V, n, first, step, f)
<1>. USE DEF StepsOf
<1>. DEFINE Runs(f, k) == f[0] = first /\ \A i \in 1..k : f[i] = step[i][f[i - 1]]
            T == {k \in Nat : k <= n => \E f \in [0..k -> V] : Runs(f, k)}
<1>1. 0 \in T
  <2>. DEFINE f == [i \in 0..0 |-> first]
  <2>1. f \in [0..0 -> V] /\ Runs(f, 0)
    OBVIOUS
  <2>. QED
    BY <2>1
<1>2. ASSUME NEW k \in Nat, k \in T PROVE k + 1 \in T
  <2>. SUFFICES ASSUME k + 1 <= n PROVE \E f \in [0..k + 1 -> V] : Runs(f, k + 1)
    OBVIOUS
  <2>1. PICK f \in [0..k -> V] : Runs(f, k)
    BY <1>2
  <2>. DEFINE last == step[k + 1][f[k]]
              g == [i \in 0..k + 1 |-> IF i = k + 1 THEN last ELSE f[i]]
  <2>2. last \in V
    <3>1. step[k + 1] \in [V -> V]
      OBVIOUS
    <3>2. f[k] \in V
      OBVIOUS
    <3>. QED
      BY <3>1, <3>2
  <2>3. g \in [0..k + 1 -> V] /\ g[0] = first
    BY <2>1, <2>2
  <2>4. ASSUME NEW i \in 1..k + 1 PROVE g[i] = step[i][g[i - 1]]
    <3>1. g[i - 1] = f[i - 1]
      OBVIOUS
    <3>2. CASE i = k + 1
      BY <3>1, <3>2
    <3>3. CASE i \in 1..k
      BY <2>1, <3>1, <3>3
    <3>. QED
      BY <3>2, <3>3
  <2>. QED
    BY <2>3, <2>4
<1>3. n \in T
  <2>. HIDE DEF T
  <2>. QED
    BY <1>1, <1>2, NatSetInduction
<1>. QED
  BY <1>3 DEF IsRecursion

\* The items of a sequence are its values.
LEMMA ItemsOf ==
    ASSUME NEW S, NEW items \in Seq(S)
    PROVE  /\ ToSet(items) \subseteq S
           /\ \A x : x \in ToSet(items) <=> \E i \in 1..Len(items) : items[i] = x
BY LenProperties DEF ToSet

\* An item that is appended is the last one.
LEMMA AppendedItems ==
    ASSUME NEW S, NEW items \in Seq(S), NEW x \in S
    PROVE  /\ Append(items, x) \in Seq(S)
           /\ ToSet(Append(items, x)) = ToSet(items) \cup {x}
<1>1. /\ Append(items, x) \in Seq(S)
      /\ Len(Append(items, x)) = Len(items) + 1
      /\ \A i \in 1..Len(items) : Append(items, x)[i] = items[i]
      /\ Append(items, x)[Len(items) + 1] = x
  BY AppendProperties
<1>2. Len(items) \in Nat
  BY LenProperties
<1>3. 1..Len(items) + 1 = 1..Len(items) \cup {Len(items) + 1}
  BY <1>2
<1>4. \A y : (\E i \in 1..Len(items) + 1 : Append(items, x)[i] = y)
             <=> (y = x \/ \E i \in 1..Len(items) : items[i] = y)
  BY <1>1, <1>3, Zenon
<1>5. \A y : y \in ToSet(Append(items, x))
               <=> \E i \in 1..Len(items) + 1 : Append(items, x)[i] = y
  <2>. DEFINE more == Append(items, x)
  <2>1. more \in Seq(S) /\ Len(more) = Len(items) + 1
    BY <1>1
  <2>. HIDE DEF more
  <2>2. \A y : y \in ToSet(more) <=> \E i \in 1..Len(items) + 1 : more[i] = y
    BY <2>1, ItemsOf
  <2>. QED
    BY <2>2 DEF more
<1>6. \A y : y \in ToSet(items) <=> \E i \in 1..Len(items) : items[i] = y
  BY ItemsOf
<1>7. \A y : y \in ToSet(Append(items, x)) <=> y \in ToSet(items) \cup {x}
  BY <1>4, <1>5, <1>6, Zenon
<1>. QED
  BY <1>1, <1>7

\* The tail has the items but the first, and perhaps that one again.
LEMMA TailItems ==
    ASSUME NEW S, NEW items \in Seq(S), items # <<>>
    PROVE  /\ Head(items) \in S /\ Tail(items) \in Seq(S)
           /\ ToSet(items) = ToSet(Tail(items)) \cup {Head(items)}
<1>1. /\ Len(items) \in Nat \ {0}
      /\ Head(items) = items[1]
      /\ Tail(items) \in Seq(S)
      /\ Len(Tail(items)) = Len(items) - 1
      /\ \A i \in 1..Len(items) - 1 : Tail(items)[i] = items[i + 1]
  OBVIOUS
<1>2. Head(items) \in S
  BY <1>1, ElementOfSeq
<1>. DEFINE n == Len(items)
            t == Tail(items)
<1>3. ASSUME NEW y
      PROVE  (\E i \in 1..n : items[i] = y) <=> (y = items[1] \/ \E i \in 1..n - 1 : t[i] = y)
  <2>1. ASSUME NEW i \in 1..n, i # 1 PROVE i - 1 \in 1..n - 1 /\ t[i - 1] = items[i]
    BY <1>1, <2>1
  <2>2. ASSUME NEW i \in 1..n - 1 PROVE i + 1 \in 1..n /\ t[i] = items[i + 1]
    BY <1>1, <2>2
  <2>3. 1 \in 1..n
    BY <1>1
  <2>. HIDE DEF n, t
  <2>. QED
    BY <2>1, <2>2, <2>3
<1>4. \A y : y \in ToSet(t) <=> \E i \in 1..n - 1 : t[i] = y
  <2>1. t \in Seq(S) /\ Len(t) = n - 1
    BY <1>1
  <2>. HIDE DEF n, t
  <2>. QED
    BY <2>1, ItemsOf
<1>5. \A y : y \in ToSet(items) <=> \E i \in 1..n : items[i] = y
  BY ItemsOf
<1>6. \A y : y \in ToSet(items) <=> y \in ToSet(t) \cup {Head(items)}
  <2>. HIDE DEF n, t
  <2>. QED
    BY <1>1, <1>3, <1>4, <1>5
<1>. QED
  BY <1>1, <1>2, <1>6

\* Removal at an index shifts the later items by one.
LEMMA RemoveAtShifts ==
    ASSUME NEW S, NEW items \in Seq(S), NEW i \in 1..Len(items)
    PROVE  /\ RemoveAt(items, i) \in Seq(S)
           /\ Len(RemoveAt(items, i)) = Len(items) - 1
           /\ \A j \in 1..Len(items) - 1 :
                 RemoveAt(items, i)[j] = IF j < i THEN items[j] ELSE items[j + 1]
<1>. DEFINE front == SubSeq(items, 1, i - 1)
            back == SubSeq(items, i + 1, Len(items))
<1>1. Len(items) \in Nat /\ \A j \in 1..Len(items) : items[j] \in S
  BY LenProperties, ElementOfSeq
<1>2. /\ front \in Seq(S) /\ Len(front) = i - 1
      /\ \A j \in 1..i - 1 : front[j] = items[j]
  <2>1. \A j \in 1..i - 1 : items[j] \in S
    BY <1>1
  <2>2. 1 \in Int /\ i - 1 \in Int
    BY <1>1
  <2>. QED
    BY <1>1, <2>1, <2>2, SubSeqProperties
<1>3. /\ back \in Seq(S) /\ Len(back) = Len(items) - i
      /\ \A j \in 1..Len(items) - i : back[j] = items[i + j]
  <2>1. \A j \in i + 1..Len(items) : items[j] \in S
    BY <1>1
  <2>2. i + 1 \in Int /\ Len(items) \in Int
    BY <1>1
  <2>3. /\ back \in Seq(S)
        /\ Len(back) = IF i + 1 <= Len(items) THEN Len(items) - (i + 1) + 1 ELSE 0
        /\ \A j \in 1..Len(items) - (i + 1) + 1 : back[j] = items[i + 1 + j - 1]
    BY <2>1, <2>2, SubSeqProperties
  <2>. QED
    BY <1>1, <2>3
<1>4. RemoveAt(items, i) = front \o back
  BY DEF RemoveAt
<1>. HIDE DEF front, back
<1>5. /\ front \o back \in Seq(S)
      /\ Len(front \o back) = Len(front) + Len(back)
      /\ \A j \in 1..Len(front) + Len(back) :
            (front \o back)[j] = IF j <= Len(front) THEN front[j] ELSE back[j - Len(front)]
  BY <1>2, <1>3, ConcatProperties
<1>6. Len(front) + Len(back) = Len(items) - 1
  BY <1>1, <1>2, <1>3
<1>7. ASSUME NEW j \in 1..Len(items) - 1
      PROVE  (front \o back)[j] = IF j < i THEN items[j] ELSE items[j + 1]
  <2>1. CASE j < i
    BY <1>1, <1>2, <1>5, <1>6, <2>1
  <2>2. CASE ~ (j < i)
    <3>. DEFINE k == j - (i - 1)
    <3>1. k \in 1..Len(items) - i /\ i + k = j + 1 /\ ~ (j <= i - 1)
      BY <1>1, <2>2
    <3>2. (front \o back)[j] = back[k]
      BY <1>2, <1>5, <1>6, <3>1
    <3>. HIDE DEF k
    <3>3. back[k] = items[j + 1]
      BY <1>3, <3>1
    <3>. QED
      BY <2>2, <3>2, <3>3
  <2>. QED
    BY <2>1, <2>2
<1>. QED
  BY <1>4, <1>5, <1>6, <1>7

\* Without the item at one index, the others are still there.
LEMMA RemainingItems ==
    ASSUME NEW S, NEW items \in Seq(S), NEW i \in 1..Len(items)
    PROVE  /\ RemoveAt(items, i) \in Seq(S)
           /\ ToSet(RemoveAt(items, i)) \subseteq ToSet(items)
           /\ ToSet(items) \subseteq ToSet(RemoveAt(items, i)) \cup {items[i]}
<1>. DEFINE n == Len(items)
            rest == RemoveAt(items, i)
<1>1. /\ n \in Nat /\ rest \in Seq(S) /\ Len(rest) = n - 1
      /\ \A j \in 1..n - 1 : rest[j] = IF j < i THEN items[j] ELSE items[j + 1]
  BY RemoveAtShifts, LenProperties
<1>. HIDE DEF rest
<1>2. ASSUME NEW j \in 1..n - 1 PROVE \E k \in 1..n : items[k] = rest[j]
  <2>1. j \in 1..n /\ j + 1 \in 1..n
    BY <1>1
  <2>. QED
    BY <1>1, <2>1
<1>3. ASSUME NEW k \in 1..n, k # i PROVE \E j \in 1..n - 1 : rest[j] = items[k]
  <2>1. CASE k < i
    <3>1. k \in 1..n - 1
      BY <1>1, <2>1
    <3>. QED
      BY <1>1, <2>1, <3>1
  <2>2. CASE k > i
    <3>1. k - 1 \in 1..n - 1 /\ ~ (k - 1 < i) /\ (k - 1) + 1 = k
      BY <1>1, <2>2
    <3>. QED
      BY <1>1, <3>1
  <2>. QED
    BY <1>1, <1>3, <2>1, <2>2
<1>4. ToSet(rest) \subseteq ToSet(items)
  BY <1>1, <1>2, ItemsOf
<1>5. ToSet(items) \subseteq ToSet(rest) \cup {items[i]}
  <2>1. ASSUME NEW x \in ToSet(items), x # items[i] PROVE x \in ToSet(rest)
    <3>1. PICK k \in 1..n : items[k] = x
      BY ItemsOf
    <3>. QED
      BY <1>1, <1>3, <2>1, <3>1, ItemsOf
  <2>. QED
    BY <2>1
<1>. QED
  BY <1>1, <1>4, <1>5 DEF rest

-----------------------------------------------------------------------------
\* No item is twice in the sequence.
Distinct(items) == \A i, j \in 1..Len(items) : items[i] = items[j] => i = j

LEMMA DistinctAppend ==
    ASSUME NEW S, NEW items \in Seq(S), NEW x \in S,
           Distinct(items), x \notin ToSet(items)
    PROVE  Distinct(Append(items, x))
<1>. DEFINE more == Append(items, x)
<1>1. /\ Len(more) = Len(items) + 1 /\ Len(items) \in Nat
      /\ \A i \in 1..Len(items) : more[i] = items[i]
      /\ more[Len(items) + 1] = x
  BY AppendProperties, LenProperties
<1>2. \A i \in 1..Len(items) : items[i] # x
  BY ItemsOf
<1>. HIDE DEF more
<1>3. ASSUME NEW i \in 1..Len(more), NEW j \in 1..Len(more), more[i] = more[j]
      PROVE  i = j
  <2>1. \A k \in 1..Len(more) : k \in 1..Len(items) \/ k = Len(items) + 1
    BY <1>1
  <2>. QED
    BY <1>1, <1>2, <1>3, <2>1 DEF Distinct
<1>4. Distinct(more)
  BY <1>3 DEF Distinct
<1>. QED
  BY <1>4 DEF more

LEMMA DistinctTail ==
    ASSUME NEW S, NEW items \in Seq(S), items # <<>>, Distinct(items)
    PROVE  Distinct(Tail(items)) /\ Head(items) \notin ToSet(Tail(items))
<1>. DEFINE t == Tail(items)
<1>1. /\ Len(items) \in Nat \ {0} /\ Head(items) = items[1]
      /\ t \in Seq(S) /\ Len(t) = Len(items) - 1
      /\ \A i \in 1..Len(items) - 1 : t[i] = items[i + 1]
  OBVIOUS
<1>. HIDE DEF t
<1>2. \A i \in 1..Len(t) : i + 1 \in 1..Len(items) /\ i + 1 # 1 /\ 1 \in 1..Len(items)
  BY <1>1
<1>3. ASSUME NEW i \in 1..Len(t), NEW j \in 1..Len(t), t[i] = t[j]
      PROVE  i = j
  <2>1. items[i + 1] = items[j + 1]
    BY <1>1, <1>3
  <2>2. i + 1 = j + 1
    BY <1>2, <2>1 DEF Distinct
  <2>. QED
    BY <2>2
<1>4. \A i \in 1..Len(t) : t[i] # items[1]
  <2>. SUFFICES ASSUME NEW i \in 1..Len(t) PROVE items[i + 1] # items[1]
    BY <1>1
  <2>. QED
    BY <1>2 DEF Distinct
<1>5. Distinct(t) /\ Head(items) \notin ToSet(t)
  BY <1>1, <1>3, <1>4, ItemsOf DEF Distinct
<1>. QED
  BY <1>5 DEF t

LEMMA DistinctRemove ==
    ASSUME NEW S, NEW items \in Seq(S), NEW i \in 1..Len(items), Distinct(items)
    PROVE  Distinct(RemoveAt(items, i)) /\ items[i] \notin ToSet(RemoveAt(items, i))
<1>. DEFINE n == Len(items)
            rest == RemoveAt(items, i)
            From(j) == IF j < i THEN j ELSE j + 1
<1>1. /\ n \in Nat /\ rest \in Seq(S) /\ Len(rest) = n - 1
      /\ \A j \in 1..n - 1 : rest[j] = IF j < i THEN items[j] ELSE items[j + 1]
  BY RemoveAtShifts, LenProperties
<1>. HIDE DEF rest
<1>2. ASSUME NEW j \in 1..n - 1 PROVE From(j) \in 1..n /\ From(j) # i /\ rest[j] = items[From(j)]
  BY <1>1
<1>3. ASSUME NEW j \in 1..n - 1, NEW k \in 1..n - 1, From(j) = From(k) PROVE j = k
  BY <1>1, <1>3
<1>. HIDE DEF From
<1>4. ASSUME NEW j \in 1..n - 1, NEW k \in 1..n - 1, rest[j] = rest[k] PROVE j = k
  BY <1>2, <1>3, <1>4 DEF Distinct
<1>5. \A j \in 1..n - 1 : rest[j] # items[i]
  BY <1>2 DEF Distinct
<1>6. Distinct(rest) /\ items[i] \notin ToSet(rest)
  BY <1>1, <1>4, <1>5, ItemsOf DEF Distinct
<1>. QED
  BY <1>6 DEF rest

\* A step of FlattenSeq.
Joined(seqs, f, i) == IF i = 1 THEN seqs[i] ELSE f[i - 1] \o seqs[i]

LEMMA JoinedFirst == ASSUME NEW seqs, NEW f PROVE Joined(seqs, f, 1) = seqs[1]
BY DEF Joined

LEMMA JoinedNext ==
    ASSUME NEW seqs, NEW f, NEW i \in Nat
    PROVE  Joined(seqs, f, i + 2) = f[i + 1] \o seqs[i + 2]
<1>. DEFINE k == i + 2
<1>1. k - 1 = i + 1 /\ k # 1
  OBVIOUS
<1>. HIDE DEF k
<1>2. Joined(seqs, f, k) = f[k - 1] \o seqs[k]
  BY <1>1, Zenon DEF Joined
<1>3. Joined(seqs, f, k) = f[i + 1] \o seqs[k]
  BY <1>1, <1>2, Zenon
<1>. QED
  BY <1>3, Zenon DEF k

LEMMA JoinedTogether ==
    ASSUME NEW S, NEW seqs \in Seq(Seq(S)), NEW n \in Nat, n <= Len(seqs)
    PROVE  \E f \in [1 .. n -> Seq(S)] : \A i \in 1 .. n : f[i] = Joined(seqs, f, i)
<1>. DEFINE Good(k) == \E f \in [1 .. k -> Seq(S)] : \A i \in 1 .. k : f[i] = Joined(seqs, f, i)
            T == {k \in Nat : k <= Len(seqs) => Good(k)}
<1>1. 0 \in T
  <2>. DEFINE f == [i \in 1 .. 0 |-> <<>>]
  <2>1. f \in [1 .. 0 -> Seq(S)] /\ \A i \in 1 .. 0 : f[i] = Joined(seqs, f, i)
    OBVIOUS
  <2>. QED
    BY <2>1
<1>2. ASSUME NEW k \in Nat, k \in T, k + 1 <= Len(seqs) PROVE Good(k + 1)
  <2>0. k <= Len(seqs) /\ seqs[k + 1] \in Seq(S)
    BY <1>2
  <2>1. PICK f \in [1 .. k -> Seq(S)] : \A i \in 1 .. k : f[i] = Joined(seqs, f, i)
    BY <1>2, <2>0
  <2>. DEFINE last == Joined(seqs, f, k + 1)
              g == [i \in 1 .. k + 1 |-> IF i = k + 1 THEN last ELSE f[i]]
  <2>2. last \in Seq(S)
    <3>1. CASE k = 0
      <4>1. k + 1 = 1
        BY <3>1
      <4>. QED
        BY <2>0, <4>1, JoinedFirst, Zenon
    <3>2. CASE k # 0
      <4>1. k - 1 \in Nat /\ k - 1 + 2 = k + 1 /\ k - 1 + 1 = k
        BY <3>2
      <4>2. last = f[k] \o seqs[k + 1]
        BY <4>1, JoinedNext
      <4>3. f[k] \in Seq(S)
        BY <2>1, <3>2
      <4>. HIDE DEF last
      <4>. QED
        BY <2>0, <4>2, <4>3
    <3>. QED
      BY <3>1, <3>2
  <2>. HIDE DEF last
  <2>3. g \in [1 .. k + 1 -> Seq(S)]
    BY <2>1, <2>2
  <2>4. ASSUME NEW i \in 1 .. k + 1 PROVE g[i] = Joined(seqs, g, i)
    <3>0. i # 1 => g[i - 1] = f[i - 1]
      OBVIOUS
    <3>1. Joined(seqs, g, i) = Joined(seqs, f, i)
      <4>. HIDE DEF g
      <4>. QED
        BY <3>0 DEF Joined
    <3>2. CASE i = k + 1
      BY <3>1, <3>2 DEF last
    <3>3. CASE i \in 1 .. k
      <4>1. g[i] = f[i] /\ f[i] = Joined(seqs, f, i)
        BY <2>1, <3>3
      <4>. QED
        BY <3>1, <4>1
    <3>. QED
      BY <3>2, <3>3
  <2>. HIDE DEF g
  <2>. QED
    BY <2>3, <2>4
<1>3. ASSUME NEW k \in Nat, k \in T PROVE k + 1 \in T
  <2>. HIDE DEF Good
  <2>. QED
    BY <1>2, <1>3
<1>4. n \in T
  <2>. HIDE DEF T
  <2>. QED
    BY <1>1, <1>3, NatSetInduction
<1>. QED
  BY <1>4

\* The items of two sequences, one after the other.
LEMMA ConcatItems ==
    ASSUME NEW S, NEW seq \in Seq(S), NEW more \in Seq(S)
    PROVE  ToSet(seq \o more) = ToSet(seq) \cup ToSet(more)
<1>. DEFINE m == Len(seq)
            n == Len(more)
            all == seq \o more
<1>1. /\ all \in Seq(S) /\ Len(all) = m + n /\ m \in Nat /\ n \in Nat
      /\ \A i \in 1 .. m + n : all[i] = IF i <= m THEN seq[i] ELSE more[i - m]
  BY ConcatProperties, LenProperties
<1>2. DOMAIN seq = 1 .. m /\ DOMAIN more = 1 .. n /\ DOMAIN all = 1 .. m + n
  BY <1>1, LenProperties
<1>. HIDE DEF m, n, all
<1>3. \A i \in 1 .. m : all[i] = seq[i]
  BY <1>1
<1>4. \A i \in 1 .. n : all[i + m] = more[i]
  <2>. TAKE i \in 1 .. n
  <2>1. i + m \in 1 .. m + n /\ ~(i + m <= m) /\ i + m - m = i
    BY <1>1
  <2>. QED
    BY <1>1, <2>1
<1>5. ASSUME NEW i \in 1 .. m + n
      PROVE  all[i] \in {seq[j] : j \in 1 .. m} \cup {more[j] : j \in 1 .. n}
  <2>1. CASE i <= m
    BY <1>1, <2>1
  <2>2. CASE ~(i <= m)
    <3>1. i - m \in 1 .. n
      BY <1>1, <2>2
    <3>. QED
      BY <1>1, <2>2, <3>1
  <2>. QED
    BY <2>1, <2>2
<1>6. \A i \in 1 .. m : i \in 1 .. m + n
  BY <1>1
<1>7. \A i \in 1 .. n : i + m \in 1 .. m + n
  BY <1>1
<1>. QED
  <2>1. ToSet(all) \subseteq ToSet(seq) \cup ToSet(more)
    BY <1>2, <1>5 DEF ToSet
  <2>2. ToSet(seq) \subseteq ToSet(all)
    BY <1>2, <1>3, <1>6 DEF ToSet
  <2>3. ToSet(more) \subseteq ToSet(all)
    BY <1>2, <1>4, <1>7 DEF ToSet
  <2>. QED
    BY <2>1, <2>2, <2>3 DEF all

\* The sequences of a sequence, one after the other, of whatever they are.
LEMMA FlattenType ==
    ASSUME NEW S, NEW seqs \in Seq(Seq(S))
    PROVE  /\ FlattenSeq(seqs) \in Seq(S)
           /\ ToSet(FlattenSeq(seqs)) = UNION {ToSet(seqs[i]) : i \in DOMAIN seqs}
<1>. DEFINE len == Len(seqs)
            Def(f) == [i \in 1 .. len |-> Joined(seqs, f, i)]
            flatten == CHOOSE f : f = Def(f)
<1>0. len \in Nat /\ \A i \in 1 .. len : seqs[i] \in Seq(S)
  OBVIOUS
<1>1. CASE len = 0
  BY <1>1 DEF FlattenSeq, ToSet
<1>2. CASE len # 0
  <2>1. FlattenSeq(seqs) = flatten[len]
    BY <1>2, Zenon DEF FlattenSeq, Joined
  <2>2. PICK f \in [1 .. len -> Seq(S)] : \A i \in 1 .. len : f[i] = Joined(seqs, f, i)
    <3>1. len <= Len(seqs)
      BY <1>0
    <3>. HIDE DEF len
    <3>. QED
      BY <1>0, <3>1, JoinedTogether
  <2>3. f = Def(f)
    BY <2>2
  <2>4. flatten = Def(flatten)
    BY <2>3
  <2>. HIDE DEF flatten
  <2>5. \A i \in 1 .. len : flatten[i] = Joined(seqs, flatten, i)
    BY <2>4
  <2>. DEFINE Upto(n) == UNION {ToSet(seqs[i]) : i \in 1 .. n}
              Good(n) == flatten[n] \in Seq(S) /\ ToSet(flatten[n]) = Upto(n)
              U == {n \in Nat : n + 1 <= len => Good(n + 1)}
  <2>6. 0 \in U
    <3>1. 1 <= len => flatten[1] = seqs[1]
      BY <1>0, <1>2, <2>5, JoinedFirst
    <3>2. Upto(1) = ToSet(seqs[1])
      <4>1. 1 .. 1 = {1}
        OBVIOUS
      <4>. QED
        BY <4>1
    <3>. HIDE DEF Upto
    <3>. QED
      BY <1>0, <3>1, <3>2
  <2>7. ASSUME NEW n \in Nat, n \in U, n + 2 <= len PROVE Good(n + 2)
    <3>1. flatten[n + 2] = flatten[n + 1] \o seqs[n + 2]
      <4>1. n + 2 \in 1 .. len
        BY <1>0, <2>7
      <4>. QED
        BY <2>5, <4>1, JoinedNext, Zenon
    <3>2. Good(n + 1) /\ seqs[n + 2] \in Seq(S)
      BY <1>0, <2>7
    <3>3. Upto(n + 2) = Upto(n + 1) \cup ToSet(seqs[n + 2])
      <4>1. 1 .. n + 2 = (1 .. n + 1) \cup {n + 2}
        OBVIOUS
      <4>. QED
        BY <4>1
    <3>. HIDE DEF Upto
    <3>. QED
      <4>. DEFINE a == flatten[n + 1]
                  b == seqs[n + 2]
      <4>1. a \in Seq(S) /\ b \in Seq(S) /\ ToSet(a) = Upto(n + 1)
        BY <3>2
      <4>2. a \o b \in Seq(S) /\ ToSet(a \o b) = ToSet(a) \cup ToSet(b)
        <5>. HIDE DEF a, b
        <5>. QED
          BY <4>1, ConcatItems, ConcatProperties
      <4>. QED
        BY <3>1, <3>3, <4>1, <4>2, Zenon
  <2>8. ASSUME NEW n \in Nat, n \in U PROVE n + 1 \in U
    <3>1. n + 2 <= len => Good(n + 2)
      BY <2>7, <2>8
    <3>2. n + 1 + 1 = n + 2
      OBVIOUS
    <3>. HIDE DEF Good
    <3>. QED
      BY <3>1, <3>2
  <2>9. len - 1 \in U
    <3>. HIDE DEF U
    <3>1. Nat \subseteq U
      BY <2>6, <2>8, NatSetInduction
    <3>. QED
      BY <1>0, <1>2, <3>1
  <2>10. Good(len)
    <3>1. len - 1 + 1 = len
      BY <1>0
    <3>. HIDE DEF Good, len
    <3>. QED
      BY <1>0, <2>9, <3>1
  <2>11. DOMAIN seqs = 1 .. len
    OBVIOUS
  <2>. HIDE DEF len
  <2>. QED
    BY <2>1, <2>10, <2>11
<1>. QED
  BY <1>1, <1>2

\* A sequence read backwards, without its last item, and without any.
LEMMA ReverseItems ==
    ASSUME NEW S, NEW seq \in Seq(S)
    PROVE  ToSet(Reverse(seq)) = ToSet(seq)
<1>. DEFINE n == Len(seq)
            back == Reverse(seq)
<1>1. n \in Nat /\ DOMAIN seq = 1..n
  BY LenProperties
<1>2. DOMAIN back = 1..n /\ \A i \in 1..n : back[i] = seq[n - i + 1]
  BY <1>1 DEF Reverse
<1>. HIDE DEF back, n
<1>3. \A i \in 1..n : n - i + 1 \in 1..n /\ n - (n - i + 1) + 1 = i
  BY <1>1
<1>4. \A i \in 1..n : back[n - i + 1] = seq[i]
  <2>. TAKE i \in 1..n
  <2>1. n - i + 1 \in 1..n /\ n - (n - i + 1) + 1 = i
    BY <1>3
  <2>. QED
    BY <1>2, <2>1
<1>5. ToSet(seq) \subseteq ToSet(back)
  BY <1>1, <1>2, <1>3, <1>4 DEF ToSet
<1>6. ToSet(back) \subseteq ToSet(seq)
  BY <1>1, <1>2, <1>3 DEF ToSet
<1>. QED
  BY <1>5, <1>6 DEF back

LEMMA FrontItems ==
    ASSUME NEW S, NEW seq \in Seq(S), seq # <<>>
    PROVE  /\ Front(seq) \in Seq(S) /\ Last(seq) \in S
           /\ ToSet(seq) = ToSet(Front(seq)) \cup {Last(seq)}
<1>. DEFINE n == Len(seq)
            most == Front(seq)
<1>1. n \in Nat \ {0} /\ DOMAIN seq = 1..n /\ n \in 1..n
  BY EmptySeq, LenProperties
<1>2. most \in Seq(S) /\ Len(most) = n - 1 /\ \A i \in 1..n - 1 : most[i] = seq[i]
  <2>1. 1 \in 1..n + 1 /\ n - 1 \in 0..n
    BY <1>1
  <2>2. /\ SubSeq(seq, 1, n - 1) \in Seq(S)
        /\ Len(SubSeq(seq, 1, n - 1)) = n - 1
        /\ \A i \in 1..n - 1 : SubSeq(seq, 1, n - 1)[i] = seq[i]
    BY <1>1, <2>1, SubSeqProperties
  <2>. QED
    BY <2>2, Zenon DEF Front
<1>3. DOMAIN most = 1..n - 1
  BY <1>2, LenProperties
<1>4. Last(seq) = seq[n]
  BY DEF Last
<1>. HIDE DEF most, n
<1>5. 1..n = (1..n - 1) \cup {n}
  BY <1>1
<1>. QED
  BY <1>1, <1>2, <1>3, <1>4, <1>5 DEF ToSet, most

LEMMA HeadItems ==
    ASSUME NEW S, NEW seq \in Seq(S), seq # <<>>
    PROVE  Head(seq) \in ToSet(seq)
BY EmptySeq, LenProperties DEF ToSet

LEMMA EmptyItems == ToSet(<<>>) = {}
BY DEF ToSet

LEMMA NoItems == ASSUME NEW S, NEW seq \in Seq(S), ToSet(seq) = {} PROVE seq = <<>>
BY HeadItems

=============================================================================
