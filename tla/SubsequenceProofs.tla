-------------------------- MODULE SubsequenceProofs --------------------------
(***************************************************************************)
(* What erasing elements leaves of a sequence: elements of it, and only    *)
(* those that were to stay.  The provers know no induction over sequences; *)
(* the places that stay are a finite set of numbers, which has a least and *)
(* so an n-th.                                                             *)
(***************************************************************************)
EXTENDS Subsequences, Integers, Sequences, FiniteSetTheorems, WellFoundedInduction, TLAPS

\* Every set of naturals that has a member has a least one.
LEMMA Least ==
  ASSUME NEW T \in SUBSET Nat, T # {}
  PROVE  \E least \in T : \A n \in T : least <= n
<1> DEFINE Less == OpToRel(<, Nat)
<1>1. IsWellFoundedOn(Less, Nat)
  BY NatLessThanWellFounded
<1>2. \A x, y \in Nat : <<x, y>> \in Less <=> x < y
  BY DEF OpToRel
<1> HIDE DEF Less
<1>3. \E x \in T : \A y \in T : ~ (<<y, x>> \in Less)
  BY <1>1, WFMin
<1>4. PICK least \in T : \A y \in T : ~ (<<y, least>> \in Less)
  BY <1>3
<1>5. ASSUME NEW n \in T PROVE least <= n
  <2>1. n \in Nat /\ least \in Nat
    OBVIOUS
  <2>2. ~ (<<n, least>> \in Less)
    BY <1>4
  <2>3. ~ (n < least)
    BY <1>2, <2>1, <2>2
  <2> QED BY <2>1, <2>3
<1> QED BY <1>5

\* As many numbers as there are, each has its place.
LEMMA NthIsThere ==
  ASSUME NEW N \in Nat, NEW numbers \in SUBSET (1 .. N), NEW n \in 1 .. Cardinality(numbers)
  PROVE  /\ Nth(numbers, n) \in numbers
         /\ Cardinality({j \in numbers : j <= Nth(numbers, n)}) = n
<1> DEFINE UpTo(i) == {j \in numbers : j <= i}
<1>1. IsFiniteSet(numbers) /\ Cardinality(numbers) \in Nat
  <2>1. IsFiniteSet(1 .. N)
    BY FS_Interval
  <2> QED BY <2>1, FS_Subset, FS_CardinalityType
<1>2. \A i : IsFiniteSet(UpTo(i)) /\ Cardinality(UpTo(i)) \in Nat
  BY <1>1, FS_Subset, FS_CardinalityType
<1>3. ASSUME NEW some \in SUBSET numbers, some # {}
      PROVE  \E greatest \in some : \A j \in some : j <= greatest
  <2> DEFINE mirror == {k \in 0 .. N : N - k \in some}
  <2>1. PICK i \in some : TRUE
    BY <1>3
  <2>2. N - i \in mirror /\ mirror \in SUBSET Nat
    BY <2>1
  <2>3. PICK least \in mirror : \A k \in mirror : least <= k
    BY <2>2, Least
  <2>4. \A j \in some : N - j \in mirror
    OBVIOUS
  <2> QED BY <2>3, <2>4
<1> DEFINE enough == {i \in numbers : Cardinality(UpTo(i)) >= n}
<1>4. enough # {}
  <2>1. numbers # {}
    BY FS_EmptySet
  <2>2. PICK greatest \in numbers : \A j \in numbers : j <= greatest
    BY <1>3, <2>1
  <2>3. UpTo(greatest) = numbers
    BY <2>2
  <2> QED BY <1>1, <2>3
<1>5. PICK least \in enough : \A i \in enough : least <= i
  <2>1. enough \in SUBSET Nat
    <3>1. numbers \in SUBSET Nat
      OBVIOUS
    <3>2. enough \subseteq numbers
      BY Zenon
    <3> QED BY <3>1, <3>2
  <2> HIDE DEF enough
  <2> QED BY <1>4, <2>1, Least
<1>6. Cardinality(UpTo(least)) = n
  <2> SUFFICES ASSUME Cardinality(UpTo(least)) > n PROVE FALSE
    BY <1>2, <1>5
  <2> DEFINE below == UpTo(least) \ {least}
  <2>1. Cardinality(below) = Cardinality(UpTo(least)) - 1 /\ IsFiniteSet(below)
    <3>1. least \in UpTo(least) /\ IsFiniteSet(UpTo(least))
      BY <1>2, <1>5
    <3> HIDE DEF UpTo
    <3> QED BY <3>1, FS_RemoveElement
  <2>2. Cardinality(below) >= n /\ below # {}
    BY <1>2, <2>1, FS_EmptySet
  <2>3. PICK before \in below : \A j \in below : j <= before
    BY <1>3, <2>2
  <2>4. UpTo(before) = below
    <3>1. before < least /\ before \in numbers
      BY <1>5, <2>3
    <3>2. \A j \in numbers : j <= before <=> j <= least /\ j # least
      BY <1>5, <2>3, <3>1
    <3> QED BY <3>2
  <2> QED BY <1>5, <2>2, <2>3, <2>4
<1> QED BY <1>5, <1>6 DEF Nth

\* What is left of a sequence is elements of it that were to stay.
LEMMA MembersStay ==
  ASSUME NEW S, NEW sequence \in Seq(S), NEW places \in SUBSET DOMAIN sequence
  PROVE  /\ MembersAt(sequence, places) \in Seq(S)
         /\ \A i \in DOMAIN MembersAt(sequence, places) : \E j \in places :
              MembersAt(sequence, places)[i] = sequence[j]
<1> DEFINE left == MembersAt(sequence, places)
<1>1. places \in SUBSET (1 .. Len(sequence)) /\ Len(sequence) \in Nat
  OBVIOUS
<1>2. Cardinality(places) \in Nat
  <2>1. IsFiniteSet(1 .. Len(sequence))
    BY <1>1, FS_Interval
  <2> QED BY <1>1, <2>1, FS_Subset, FS_CardinalityType
<1>3. left = [n \in 1 .. Cardinality(places) |-> sequence[Nth(places, n)]]
  BY DEF MembersAt
<1>4. \A n \in 1 .. Cardinality(places) : Nth(places, n) \in places
  BY <1>1, NthIsThere
<1>5. \A j \in places : sequence[j] \in S
  OBVIOUS
<1> HIDE DEF left
<1>6. DOMAIN left = 1 .. Cardinality(places)
  BY <1>3
<1>7. \A n \in DOMAIN left : left[n] \in S /\ \E j \in places : left[n] = sequence[j]
  <2> TAKE n \in DOMAIN left
  <2>1. left[n] = sequence[Nth(places, n)] /\ Nth(places, n) \in places
    BY <1>3, <1>4, <1>6
  <2> QED BY <1>5, <2>1
<1>8. left = [n \in 1 .. Cardinality(places) |-> left[n]]
  BY <1>3
<1>9. left \in Seq(S)
  BY <1>2, <1>6, <1>7, <1>8
<1> QED BY <1>7, <1>9 DEF left

\* What holds of 0 and of the successor of a number it holds of, up to N.
LEMMA Climb ==
  ASSUME NEW N \in Nat, NEW T, 0 \in T, \A n \in 0 .. N - 1 : n \in T => n + 1 \in T
  PROVE  \A n \in 0 .. N : n \in T
<1> DEFINE Missed == (0 .. N) \ T
<1> SUFFICES ASSUME Missed # {} PROVE FALSE
  OBVIOUS
<1>1. Missed \in SUBSET Nat
  OBVIOUS
<1>2. PICK least \in Missed : \A n \in Missed : least <= n
  <2> HIDE DEF Missed
  <2> QED BY <1>1, Least
<1>3. least # 0 /\ least \in 0 .. N
  OBVIOUS
<1>4. least - 1 \in 0 .. N - 1 /\ least - 1 \in 0 .. N
  BY <1>3
<1>5. least - 1 \in T
  BY <1>2, <1>4
<1>6. (least - 1) + 1 \in T
  BY <1>4, <1>5
<1>7. (least - 1) + 1 = least
  BY <1>3
<1> QED BY <1>6, <1>7

\* A sequence keeps its places when another is put behind it.
LEMMA Behind ==
  ASSUME NEW S, NEW s \in Seq(S), NEW t \in Seq(S)
  PROVE  /\ s \o t \in Seq(S)
         /\ \A i \in DOMAIN s : i \in DOMAIN (s \o t) /\ (s \o t)[i] = s[i]
         /\ \A i \in DOMAIN t : /\ i + Len(s) \in DOMAIN (s \o t)
                                /\ (s \o t)[i + Len(s)] = t[i]
         /\ \A k \in DOMAIN (s \o t) :
              \/ k \in DOMAIN s
              \/ k > Len(s) /\ k - Len(s) \in DOMAIN t /\ (s \o t)[k] = t[k - Len(s)]
OBVIOUS

\* What is left without the first element.
LEMMA RestOf ==
  ASSUME NEW S, NEW s \in Seq(S), s # << >>
  PROVE  /\ Tail(s) \in Seq(S) /\ Head(s) = s[1] /\ Head(s) \in S /\ 1 \in DOMAIN s
         /\ \A i \in DOMAIN Tail(s) : i + 1 \in DOMAIN s /\ Tail(s)[i] = s[i + 1]
         /\ \A i \in DOMAIN s : i # 1 => i - 1 \in DOMAIN Tail(s) /\ Tail(s)[i - 1] = s[i]
OBVIOUS

\* A value of S for each step up to N, the next made from the one before.
StepsOf(N, S, first, Advance, f) ==
  /\ f \in [0 .. N -> S] /\ f[0] = first
  /\ \A n \in 1 .. N : f[n] = Advance[<<n, f[n - 1]>>]

\* What is computed step by step exists, and stays in its set.
LEMMA StepByStep ==
  ASSUME NEW N \in Nat, NEW S, NEW first \in S, NEW Advance \in [(1 .. N) \X S -> S]
  PROVE  \E f : StepsOf(N, S, first, Advance, f)
<1> DEFINE Computes(f, m) == f[0] = first /\ \A n \in 1 .. m : f[n] = Advance[<<n, f[n - 1]>>]
           T == {m \in 0 .. N : \E f \in [0 .. N -> S] : Computes(f, m)}
<1>1. 0 \in T
  <2> DEFINE g == [n \in 0 .. N |-> first]
  <2>1. g \in [0 .. N -> S] /\ Computes(g, 0)
    OBVIOUS
  <2> HIDE DEF g
  <2>2. 0 \in 0 .. N
    OBVIOUS
  <2> QED BY <2>1, <2>2 DEF T
<1>2. ASSUME NEW m \in 0 .. N - 1, m \in T PROVE m + 1 \in T
  <2>1. PICK f \in [0 .. N -> S] : Computes(f, m)
    BY <1>2
  <2> DEFINE next == Advance[<<m + 1, f[m]>>]
             g == [f EXCEPT ![m + 1] = next]
  <2>2. m \in 0 .. N /\ m + 1 \in 1 .. N /\ m + 1 \in 0 .. N
    OBVIOUS
  <2>3. <<m + 1, f[m]>> \in (1 .. N) \X S
    BY <2>1, <2>2
  <2>4. next \in S
    BY <2>3
  <2> HIDE DEF next
  <2>5. g \in [0 .. N -> S] /\ g[m + 1] = next /\ \A n \in 0 .. m : g[n] = f[n]
    BY <2>1, <2>2, <2>4
  <2>6. g[0] = first
    BY <2>1, <2>2, <2>5
  <2> HIDE DEF g
  <2>7. ASSUME NEW n \in 1 .. m + 1 PROVE g[n] = Advance[<<n, g[n - 1]>>]
    <3>1. CASE n = m + 1
      <4>1. n - 1 = m /\ g[n - 1] = f[m] /\ g[n] = next
        BY <3>1, <2>2, <2>5
      <4> QED BY <4>1, <3>1 DEF next
    <3>2. CASE n # m + 1
      <4>1. n \in 1 .. m /\ n - 1 \in 0 .. m /\ n \in 0 .. m
        BY <2>2, <3>2
      <4>2. f[n] = Advance[<<n, f[n - 1]>>]
        BY <2>1, <4>1
      <4>3. g[n] = f[n] /\ g[n - 1] = f[n - 1]
        BY <2>5, <4>1
      <4> QED BY <4>2, <4>3
    <3> QED BY <3>1, <3>2
  <2>8. Computes(g, m + 1)
    BY <2>6, <2>7
  <2> QED BY <2>2, <2>5, <2>8
<1> HIDE DEF T
<1>3. N \in T
  <2>1. \A n \in 0 .. N : n \in T
    BY <1>1, <1>2, Climb
  <2> QED BY <2>1
<1> QED BY <1>3 DEF T, StepsOf
\* No other number is the n-th.
LEMMA NthIsUnique ==
  ASSUME NEW N \in Nat, NEW numbers \in SUBSET (1 .. N), NEW i \in numbers
  PROVE  /\ Cardinality({j \in numbers : j <= i}) \in 1 .. Cardinality(numbers)
         /\ Nth(numbers, Cardinality({j \in numbers : j <= i})) = i
<1> DEFINE UpTo(k) == {j \in numbers : j <= k}
<1>1. IsFiniteSet(numbers) /\ Cardinality(numbers) \in Nat
  <2>1. IsFiniteSet(1 .. N)
    BY FS_Interval
  <2> QED BY <2>1, FS_Subset, FS_CardinalityType
<1>2. \A k : IsFiniteSet(UpTo(k)) /\ Cardinality(UpTo(k)) \in Nat
             /\ Cardinality(UpTo(k)) <= Cardinality(numbers)
  BY <1>1, FS_Subset, FS_CardinalityType
<1>3. ASSUME NEW k \in numbers, NEW l \in numbers, k < l
      PROVE  Cardinality(UpTo(k)) < Cardinality(UpTo(l))
  <2>0. \A j \in numbers : (j <= k => j <= l) /\ l <= l /\ ~ (l <= k)
    <3>1. numbers \subseteq Nat
      OBVIOUS
    <3>2. \A j \in Nat : j <= k => j <= l
      BY <1>3, <3>1
    <3> QED BY <1>3, <3>1, <3>2
  <2>1. UpTo(k) \subseteq UpTo(l) /\ l \in UpTo(l) /\ l \notin UpTo(k)
    BY <2>0, Zenon
  <2> HIDE DEF UpTo
  <2>2. IsFiniteSet(UpTo(l)) /\ IsFiniteSet(UpTo(k))
    BY <1>2
  <2>3. IsFiniteSet(UpTo(l) \ {l}) /\ Cardinality(UpTo(l) \ {l}) = Cardinality(UpTo(l)) - 1
    BY <2>1, <2>2, FS_RemoveElement
  <2>4. UpTo(k) \subseteq UpTo(l) \ {l}
    BY <2>1
  <2>5. Cardinality(UpTo(k)) <= Cardinality(UpTo(l) \ {l})
    BY <2>3, <2>4, FS_Subset
  <2> QED BY <1>2, <2>3, <2>5
<1>4. Cardinality(UpTo(i)) # 0
  <2>1. i \in UpTo(i)
    OBVIOUS
  <2> QED BY <1>2, <2>1, FS_EmptySet
<1> DEFINE n == Cardinality(UpTo(i))
<1>5. n \in 1 .. Cardinality(numbers)
  BY <1>1, <1>2, <1>4
<1>6. ASSUME NEW k \in numbers, Cardinality(UpTo(k)) = n PROVE k = i
  <2>1. k \in Nat /\ i \in Nat
    OBVIOUS
  <2> HIDE DEF UpTo
  <2>2. ~ (k < i) /\ ~ (i < k)
    BY <1>2, <1>3, <1>6
  <2> QED BY <2>1, <2>2
<1>7. Nth(numbers, n) \in numbers /\ Cardinality(UpTo(Nth(numbers, n))) = n
  <2>1. Nth(numbers, n) = CHOOSE k \in numbers : Cardinality(UpTo(k)) = n
    BY DEF Nth
  <2>2. \E k \in numbers : Cardinality(UpTo(k)) = n
    OBVIOUS
  <2> HIDE DEF UpTo, n
  <2> QED BY <2>1, <2>2
<1> QED BY <1>5, <1>6, <1>7

\* Nothing is left when no place is.
LEMMA NoneLeft == ASSUME NEW sequence PROVE MembersAt(sequence, {}) = << >>
BY FS_EmptySet DEF MembersAt

\* What an appended element leaves where it is.
LEMMA PutBehind ==
  ASSUME NEW S, NEW s \in Seq(S), NEW e \in S
  PROVE  Append(s, e) = [n \in 1 .. Len(s) + 1 |-> IF n = Len(s) + 1 THEN e ELSE s[n]]
<1> DEFINE t == Append(s, e)
           count == Len(s)
<1>1. /\ t \in Seq(S) /\ Len(t) = count + 1 /\ count \in Nat
      /\ \A n \in 1 .. count + 1 : t[n] = IF n = count + 1 THEN e ELSE s[n]
  OBVIOUS
<1> HIDE DEF t, count
<1>2. t = [n \in 1 .. count + 1 |-> t[n]]
  BY <1>1
<1>3. t = [n \in 1 .. count + 1 |-> IF n = count + 1 THEN e ELSE s[n]]
  BY <1>1, <1>2
<1> QED BY <1>3 DEF t, count

\* What is at a place behind all others comes last.
LEMMA OneMore ==
  ASSUME NEW S, NEW sequence \in Seq(S), NEW last \in DOMAIN sequence,
         NEW places \in SUBSET DOMAIN sequence, \A i \in places : i < last
  PROVE  /\ MembersAt(sequence, places) \in Seq(S)
         /\ MembersAt(sequence, places \cup {last})
              = Append(MembersAt(sequence, places), sequence[last])
<1> DEFINE more == places \cup {last}
           count == Cardinality(places)
           N == Len(sequence)
<1>1. N \in Nat /\ places \in SUBSET (1 .. N) /\ last \in 1 .. N /\ more \in SUBSET (1 .. N)
  OBVIOUS
<1>2. last \notin places
  BY <1>1
<1>3. IsFiniteSet(places) /\ count \in Nat /\ Cardinality(more) = count + 1
  <2>1. IsFiniteSet(1 .. N)
    BY <1>1, FS_Interval
  <2>2. IsFiniteSet(places) /\ count \in Nat
    BY <1>1, <2>1, FS_Subset, FS_CardinalityType
  <2> QED BY <1>2, <2>2, FS_AddElement
<1>4. ASSUME NEW n \in 1 .. count PROVE Nth(more, n) = Nth(places, n)
  <2> DEFINE i == Nth(places, n)
  <2>1. i \in places /\ Cardinality({j \in places : j <= i}) = n
    BY <1>1, NthIsThere
  <2> HIDE DEF i
  <2>2. {j \in more : j <= i} = {j \in places : j <= i}
    BY <1>1, <2>1
  <2>3. Nth(more, n) = i
    BY <1>1, <2>1, <2>2, NthIsUnique
  <2> QED BY <2>3 DEF i
<1>5. Nth(more, count + 1) = last
  <2>1. {j \in more : j <= last} = more
    BY <1>1
  <2> QED BY <1>1, <1>3, <2>1, NthIsUnique
<1>6. MembersAt(sequence, places) \in Seq(S)
  BY MembersStay
<1>7. MembersAt(sequence, places) = [n \in 1 .. count |-> sequence[Nth(places, n)]]
  BY DEF MembersAt
<1>8. MembersAt(sequence, more) = [n \in 1 .. count + 1 |-> sequence[Nth(more, n)]]
  BY <1>3 DEF MembersAt
<1> HIDE DEF more, count
<1> DEFINE s == MembersAt(sequence, places)
<1>9. Len(s) = count /\ s \in Seq(S)
  BY <1>3, <1>6, <1>7
<1>10. Append(s, sequence[last]) =
         [n \in 1 .. count + 1 |-> IF n = count + 1 THEN sequence[last] ELSE s[n]]
  <2> HIDE DEF s
  <2> QED BY <1>9, PutBehind
<1>11. \A n \in 1 .. count + 1 :
         sequence[Nth(more, n)] = IF n = count + 1 THEN sequence[last] ELSE s[n]
  BY <1>3, <1>4, <1>5, <1>7
<1> QED BY <1>6, <1>8, <1>10, <1>11 DEF more
=============================================================================
