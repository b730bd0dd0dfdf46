--------------------------- MODULE MatchingProofs ---------------------------
(***************************************************************************)
(* Lemmas about the operators of Matching: what one call of WithAsk or     *)
(* WithBid makes of a sound engine, for any orders, prices and sizes.      *)
(***************************************************************************)
EXTENDS Matching, TLAPS, FiniteSetTheorems, SequenceTheorems, WellFoundedInduction

(* A non-empty set of naturals has a least element.                        *)
LEMMA LeastElement ==
    ASSUME NEW S \in SUBSET Nat, S # {}
    PROVE  \E m \in S : \A x \in S : m <= x
<1> DEFINE R == {ss \in Nat \X Nat : ss[1] < ss[2]}
<1>1. IsWellFoundedOn(R, Nat)
  <2>1. R = OpToRel(<, Nat)
    BY Zenon DEF OpToRel
  <2>2. QED
    BY NatLessThanWellFounded, <2>1, Zenon
<1> HIDE DEF R
<1>2. PICK m \in S : \A x \in S : <<x, m>> \notin R
  BY <1>1, WFMin
<1>3. \A x \in S : m <= x
  <2> SUFFICES ASSUME NEW x \in S, ~(m <= x) PROVE FALSE
    OBVIOUS
  <2>1. x < m /\ x \in Nat /\ m \in Nat
    OBVIOUS
  <2>2. <<x, m>> \in Nat \X Nat /\ <<x, m>>[1] = x /\ <<x, m>>[2] = m
    BY <2>1
  <2>3. <<x, m>> \in R
    BY <2>1, <2>2 DEF R
  <2>4. QED
    BY <1>2, <2>3
<1>4. QED
  BY <1>3

-----------------------------------------------------------------------------
(* Sums *)

(* g holds the sums of the first amounts, up to n of them, one by one.     *)
IsSum(g, w, n) == g = [k \in 0 .. n |-> IF k = 0 THEN 0 ELSE g[k-1] + w[k]]

(* The amounts can be summed up.                                           *)
LEMMA SumExists ==
    ASSUME NEW w, NEW n \in Nat
    PROVE  \E g : IsSum(g, w, n)
<1> DEFINE Fails == {m \in Nat : \A g : ~IsSum(g, w, m)}
<1> SUFFICES ASSUME Fails # {} PROVE FALSE
  OBVIOUS
<1>1. Fails \in SUBSET Nat
  OBVIOUS
<1>2. PICK m \in Fails : \A k \in Fails : m <= k
  BY <1>1, LeastElement
<1>3. m # 0
  <2> DEFINE g == [k \in 0 .. 0 |-> 0]
  <2>1. g = [k \in 0 .. 0 |-> IF k = 0 THEN 0 ELSE g[k-1] + w[k]]
    OBVIOUS
  <2>2. IsSum(g, w, 0)
    BY <2>1 DEF IsSum
  <2>3. QED
    BY <1>2, <2>2
<1>4. m - 1 \in Nat /\ m \in Nat /\ m - 1 \notin Fails
  BY <1>2, <1>3
<1>5. PICK g : IsSum(g, w, m - 1)
  BY <1>4
<1> DEFINE h == [k \in 0 .. m |-> IF k = m THEN g[m-1] + w[m] ELSE g[k]]
<1>6. ASSUME NEW k \in 0 .. m
      PROVE  h[k] = IF k = 0 THEN 0 ELSE h[k-1] + w[k]
  <2>1. CASE k = m
    <3>1. h[k] = g[m-1] + w[m] /\ h[k-1] = g[m-1]
      BY <1>3, <1>4, <2>1
    <3>2. QED
      BY <1>3, <2>1, <3>1
  <2>2. CASE k # m
    <3>1. k \in 0 .. m - 1 /\ h[k] = g[k]
      BY <1>4, <2>2
    <3>2. g[k] = IF k = 0 THEN 0 ELSE g[k-1] + w[k]
      BY <1>5, <3>1 DEF IsSum
    <3>3. k # 0 => h[k-1] = g[k-1]
      BY <1>4, <3>1
    <3>4. QED
      BY <3>1, <3>2, <3>3
  <2>3. QED
    BY <2>1, <2>2
<1>7. h = [k \in 0 .. m |-> h[k]]
  OBVIOUS
<1> HIDE DEF h
<1>8. IsSum(h, w, m)
  BY <1>6, <1>7 DEF IsSum
<1>9. QED
  BY <1>2, <1>8

(* A total is the last of these sums, whichever way they were found.       *)
LEMMA TotalIs ==
    ASSUME NEW w, Len(w) \in Nat, NEW f,
           f[0] = 0, \A k \in 1 .. Len(w) : f[k] = f[k-1] + w[k]
    PROVE  Total(w) = f[Len(w)]
<1> DEFINE n == Len(w)
           g == CHOOSE h : IsSum(h, w, n)
           Differ == {k \in 0 .. n : g[k] # f[k]}
<1>1. IsSum(g, w, n)
  BY SumExists
<1>2. Total(w) = g[n]
  BY Zenon DEF Total, IsSum
<1> HIDE DEF g
<1>3. Differ = {}
  <2> SUFFICES ASSUME Differ # {} PROVE FALSE
    OBVIOUS
  <2>1. Differ \in SUBSET Nat
    OBVIOUS
  <2>2. PICK k \in Differ : \A i \in Differ : k <= i
    BY <2>1, LeastElement
  <2>3. g[k] = IF k = 0 THEN 0 ELSE g[k-1] + w[k]
    BY <1>1 DEF IsSum
  <2>4. k # 0
    BY <2>2, <2>3
  <2>5. k - 1 \in 0 .. n /\ k - 1 \notin Differ /\ k \in 1 .. n
    BY <2>2, <2>4
  <2>6. QED
    BY <2>2, <2>3, <2>4, <2>5
<1>4. n \in 0 .. n
  OBVIOUS
<1>5. QED
  BY <1>2, <1>3, <1>4

(* The sums of natural amounts are natural.                                *)
LEMMA SumsOf ==
    ASSUME NEW w \in Seq(Nat)
    PROVE  \E f \in [0 .. Len(w) -> Nat] :
              /\ f[0] = 0 /\ \A k \in 1 .. Len(w) : f[k] = f[k-1] + w[k]
              /\ Total(w) = f[Len(w)]
<1>1. Len(w) \in Nat /\ \A k \in 1 .. Len(w) : w[k] \in Nat
  OBVIOUS
<1>2. PICK g : IsSum(g, w, Len(w))
  BY <1>1, SumExists
<1>3. g[0] = 0 /\ \A k \in 1 .. Len(w) : g[k] = g[k-1] + w[k]
  BY <1>1, <1>2 DEF IsSum
<1> DEFINE Odd == {k \in 0 .. Len(w) : g[k] \notin Nat}
<1>4. Odd = {}
  <2> SUFFICES ASSUME Odd # {} PROVE FALSE
    OBVIOUS
  <2>1. Odd \in SUBSET Nat
    OBVIOUS
  <2>2. PICK k \in Odd : \A i \in Odd : k <= i
    BY <2>1, LeastElement
  <2>3. k # 0
    BY <1>3
  <2>4. k - 1 \in 0 .. Len(w) /\ k - 1 \notin Odd /\ k \in 1 .. Len(w)
    BY <1>1, <2>2, <2>3
  <2>5. QED
    BY <1>1, <1>3, <2>4
<1>5. g \in [0 .. Len(w) -> Nat]
  BY <1>2, <1>4 DEF IsSum
<1>6. Total(w) = g[Len(w)]
  BY <1>1, <1>3, TotalIs
<1>7. QED
  BY <1>3, <1>5, <1>6

LEMMA TotalType ==
    ASSUME NEW w \in Seq(Nat)
    PROVE  Total(w) \in Nat
<1>1. PICK f \in [0 .. Len(w) -> Nat] : Total(w) = f[Len(w)]
  BY SumsOf
<1>2. Len(w) \in 0 .. Len(w)
  OBVIOUS
<1>3. QED
  BY <1>1, <1>2

(* The total of two sequences put together.                                *)
LEMMA TotalConcat ==
    ASSUME NEW v \in Seq(Nat), NEW w \in Seq(Nat)
    PROVE  Total(v \o w) = Total(v) + Total(w)
<1> DEFINE m == Len(v)
           n == Len(w)
           vw == v \o w
<1>1. m \in Nat /\ n \in Nat /\ Len(vw) = m + n
  OBVIOUS
<1>2. \A k \in 1 .. m + n : vw[k] = IF k <= m THEN v[k] ELSE w[k-m]
  OBVIOUS
<1>3. PICK f \in [0 .. m -> Nat] : /\ f[0] = 0 /\ \A k \in 1 .. m : f[k] = f[k-1] + v[k]
                                   /\ Total(v) = f[m]
  BY SumsOf
<1>4. PICK g \in [0 .. n -> Nat] : /\ g[0] = 0 /\ \A k \in 1 .. n : g[k] = g[k-1] + w[k]
                                   /\ Total(w) = g[n]
  BY SumsOf
<1> DEFINE h == [k \in 0 .. m + n |-> IF k <= m THEN f[k] ELSE f[m] + g[k-m]]
<1>5. \A k \in 1 .. n : w[k] \in Nat
  OBVIOUS
<1> HIDE DEF m, n, vw
<1>6. h[0] = 0 /\ h[m+n] = f[m] + g[n]
  <2>1. CASE n = 0
    <3>1. m + n = m /\ m <= m
      BY <1>1, <2>1
    <3>2. f[m] \in Nat
      BY <1>1, <1>3
    <3>3. QED
      BY <1>1, <1>3, <1>4, <2>1, <3>1, <3>2
  <2>2. CASE n # 0
    <3>1. ~(m + n <= m) /\ (m + n) - m = n /\ m + n \in 0 .. m + n /\ 0 \in 0 .. m + n /\ 0 <= m
      BY <1>1, <2>2
    <3>2. QED
      BY <1>3, <3>1
  <2>3. QED
    BY <2>1, <2>2
<1>7. ASSUME NEW k \in 1 .. m + n PROVE h[k] = h[k-1] + vw[k]
  <2>1. k \in 0 .. m + n /\ k - 1 \in 0 .. m + n /\ k \in Nat
    BY <1>1
  <2>2. CASE k <= m
    <3>1. k \in 1 .. m /\ k - 1 <= m
      BY <1>1, <2>2
    <3>2. QED
      BY <1>2, <1>3, <2>1, <2>2, <3>1
  <2>3. CASE ~(k <= m)
    <3>1. k - m \in 1 .. n /\ (k - m) - 1 \in 0 .. n /\ (k - 1) - m = (k - m) - 1
      BY <1>1, <2>1, <2>3
    <3>2. vw[k] = w[k-m] /\ h[k] = f[m] + g[k-m]
      BY <1>2, <2>1, <2>3
    <3>3. g[k-m] = g[(k-m)-1] + w[k-m]
      BY <1>4, <3>1
    <3>4. h[k-1] = f[m] + g[(k-m)-1]
      <4>1. CASE k - 1 = m
        <5>1. (k - m) - 1 = 0 /\ f[m] \in Nat /\ k - 1 <= m
          BY <1>1, <1>3, <2>1, <4>1
        <5>2. h[k-1] = f[m]
          BY <2>1, <4>1, <5>1
        <5>3. QED
          BY <1>4, <5>1, <5>2
      <4>2. CASE k - 1 # m
        <5>1. ~(k - 1 <= m)
          BY <1>1, <2>1, <2>3, <4>2
        <5>2. QED
          BY <2>1, <3>1, <5>1
      <4>3. QED
        BY <4>1, <4>2
    <3>5. f[m] \in Nat /\ g[(k-m)-1] \in Nat /\ w[k-m] \in Nat
      BY <1>1, <1>3, <1>4, <1>5, <3>1
    <3> HIDE DEF h
    <3>6. QED
      BY <3>2, <3>3, <3>4, <3>5
  <2>4. QED
    BY <2>2, <2>3
<1> HIDE DEF h
<1>8. Len(vw) \in Nat /\ Len(vw) = m + n
  BY <1>1
<1>9. Total(vw) = h[Len(vw)]
  BY <1>6, <1>7, <1>8, TotalIs
<1>10. QED
  BY <1>3, <1>4, <1>6, <1>8, <1>9 DEF vw

(* A total of nothing but zeros, and of zeros and one amount.              *)
LEMMA TotalZero ==
    ASSUME NEW w, Len(w) \in Nat, \A k \in 1 .. Len(w) : w[k] = 0
    PROVE  Total(w) = 0
<1> DEFINE f == [k \in 0 .. Len(w) |-> 0]
<1>1. f[0] = 0 /\ \A k \in 1 .. Len(w) : f[k] = f[k-1] + w[k]
  OBVIOUS
<1>2. f[Len(w)] = 0
  OBVIOUS
<1> HIDE DEF f
<1>3. QED
  BY <1>1, <1>2, TotalIs

LEMMA TotalOne ==
    ASSUME NEW w, Len(w) \in Nat, NEW i \in 1 .. Len(w), w[i] \in Nat,
           \A k \in 1 .. Len(w) : k # i => w[k] = 0
    PROVE  Total(w) = w[i]
<1> DEFINE n == Len(w)
           f == [k \in 0 .. n |-> IF k < i THEN 0 ELSE w[i]]
<1>1. f[0] = 0 /\ f[n] = w[i]
  OBVIOUS
<1>2. ASSUME NEW k \in 1 .. n PROVE f[k] = f[k-1] + w[k]
  <2>1. k \in 0 .. n /\ k - 1 \in 0 .. n
    OBVIOUS
  <2>2. CASE k = i
    <3>1. f[k] = w[i] /\ f[k-1] = 0
      BY <2>1, <2>2
    <3>2. QED
      BY <2>2, <3>1
  <2>3. CASE k # i
    <3>1. f[k] = f[k-1] /\ f[k-1] \in Nat /\ w[k] = 0
      BY <2>1, <2>3
    <3>2. QED
      BY <3>1
  <2>4. QED
    BY <2>2, <2>3
<1> HIDE DEF f
<1>3. QED
  BY <1>1, <1>2, TotalIs

(* A total without one of its amounts.                                     *)
LEMMA TotalWithout ==
    ASSUME NEW w \in Seq(Nat), NEW i \in 1 .. Len(w),
           NEW v, Len(v) = Len(w), v[i] = 0, \A k \in 1 .. Len(w) : k # i => v[k] = w[k]
    PROVE  w[i] \in Nat /\ Total(w) = Total(v) + w[i]
<1> DEFINE n == Len(w)
<1>1. n \in Nat /\ i \in 1 .. n /\ \A k \in 1 .. n : w[k] \in Nat
  OBVIOUS
<1>2. PICK f \in [0 .. n -> Nat] :
              /\ f[0] = 0 /\ \A k \in 1 .. n : f[k] = f[k-1] + w[k]
              /\ Total(w) = f[n]
  BY SumsOf
<1> HIDE DEF n
<1> DEFINE g == [k \in 0 .. n |-> IF k < i THEN f[k] ELSE f[k] - w[i]]
<1>3. g[0] = 0 /\ g[n] = f[n] - w[i] /\ f[n] \in Nat
  BY <1>1, <1>2
<1>4. ASSUME NEW k \in 1 .. n PROVE g[k] = g[k-1] + v[k]
  <2>1. k \in 0 .. n /\ k - 1 \in 0 .. n /\ k \in Int /\ i \in Int
    BY <1>1
  <2>2. f[k] = f[k-1] + w[k] /\ f[k] \in Nat /\ f[k-1] \in Nat /\ w[k] \in Nat /\ w[i] \in Nat
    BY <1>1, <1>2, <2>1
  <2>3. /\ g[k] = IF k < i THEN f[k] ELSE f[k] - w[i]
        /\ g[k-1] = IF k - 1 < i THEN f[k-1] ELSE f[k-1] - w[i]
    BY <2>1
  <2>4. v[k] = IF k = i THEN 0 ELSE w[k]
    BY DEF n
  <2> HIDE DEF g
  <2>5. CASE k = i
    BY <2>1, <2>2, <2>3, <2>4, <2>5
  <2>6. CASE k < i
    BY <2>1, <2>2, <2>3, <2>4, <2>6
  <2>7. CASE k > i
    BY <2>1, <2>2, <2>3, <2>4, <2>7
  <2>8. QED
    BY <2>1, <2>5, <2>6, <2>7
<1> HIDE DEF g
<1>5. Len(v) = n
  BY DEF n
<1>6. Total(v) = g[n]
  BY <1>1, <1>3, <1>4, <1>5, TotalIs
<1>7. QED
  BY <1>1, <1>2, <1>3, <1>6

(* What is picked from some amounts, none twice, is at most their total.   *)
LEMMA TotalPicked ==
    ASSUME NEW a \in Seq(Nat), NEW s \in Seq(Nat),
           \A i \in 1 .. Len(s) : s[i] \in 1 .. Len(a),
           \A i, j \in 1 .. Len(s) : s[i] = s[j] => i = j
    PROVE  Total([i \in 1 .. Len(s) |-> a[s[i]]]) <= Total(a)
<1> DEFINE m == Len(a)
           n == Len(s)
           picked == [i \in 1 .. n |-> a[s[i]]]
           Rest(k) == [x \in 1 .. m |-> IF \E i \in 1 .. k : s[i] = x THEN 0 ELSE a[x]]
<1>1. /\ m \in Nat /\ n \in Nat
      /\ \A x \in 1 .. m : a[x] \in Nat
      /\ a = [x \in 1 .. m |-> a[x]]
      /\ \A i \in 1 .. n : s[i] \in 1 .. m
      /\ \A i, j \in 1 .. n : s[i] = s[j] => i = j
  OBVIOUS
<1> HIDE DEF m, n
<1>2. picked \in Seq(Nat) /\ Len(picked) = n /\ \A i \in 1 .. n : picked[i] = a[s[i]]
  <2>1. picked \in [1 .. n -> Nat]
    BY <1>1
  <2>2. picked \in Seq(Nat) /\ Len(picked) = n
    <3>1. \A w \in [1 .. n -> Nat] : w \in Seq(Nat) /\ Len(w) = n
      <4>1. n \in Nat
        BY <1>1
      <4>2. QED
        BY <4>1
    <3> HIDE DEF picked
    <3>2. QED
      BY <2>1, <3>1
  <2>3. QED
    BY <2>2
<1>3. ASSUME NEW k \in 0 .. n
      PROVE  /\ Rest(k) \in Seq(Nat) /\ Len(Rest(k)) = m
             /\ \A x \in 1 .. m :
                   Rest(k)[x] = IF \E i \in 1 .. k : s[i] = x THEN 0 ELSE a[x]
  <2>1. Rest(k) \in [1 .. m -> Nat]
    BY <1>1
  <2>2. Rest(k) \in Seq(Nat) /\ Len(Rest(k)) = m
    <3>1. \A w \in [1 .. m -> Nat] : w \in Seq(Nat) /\ Len(w) = m
      <4>1. m \in Nat
        BY <1>1
      <4>2. QED
        BY <4>1
    <3> HIDE DEF Rest
    <3>2. QED
      BY <2>1, <3>1
  <2>3. QED
    BY <2>2
<1>4. Rest(0) = a
  <2>1. \A x \in 1 .. m : ~\E i \in 1 .. 0 : s[i] = x
    OBVIOUS
  <2>2. QED
    BY <1>1, <2>1
<1> HIDE DEF picked, Rest
<1>5. PICK f \in [0 .. n -> Nat] :
              /\ f[0] = 0 /\ \A k \in 1 .. n : f[k] = f[k-1] + picked[k]
              /\ Total(picked) = f[n]
  BY <1>2, SumsOf
<1> DEFINE Odd == {k \in 0 .. n : f[k] + Total(Rest(k)) # Total(a)}
<1>6. Odd = {}
  <2> SUFFICES ASSUME Odd # {} PROVE FALSE
    OBVIOUS
  <2>1. Odd \in SUBSET Nat
    BY <1>1
  <2>2. PICK k \in Odd : \A i \in Odd : k <= i
    BY <2>1, LeastElement
  <2>3. k # 0
    <3>1. Total(a) \in Nat
      BY TotalType
    <3>2. QED
      BY <1>4, <1>5, <2>2, <3>1
  <2>4. k \in 1 .. n /\ k \in 0 .. n /\ k - 1 \in 0 .. n /\ ~(k <= k - 1)
    BY <1>1, <2>2, <2>3
  <2>5. k - 1 \notin Odd
    BY <2>2, <2>4
  <2>6. f[k-1] + Total(Rest(k-1)) = Total(a)
    BY <2>4, <2>5
  <2>7. s[k] \in 1 .. m /\ ~\E i \in 1 .. k - 1 : s[i] = s[k]
    <3>1. \A i \in 1 .. k - 1 : i \in 1 .. n /\ i # k
      BY <1>1, <2>4
    <3>2. QED
      BY <1>1, <2>4, <3>1
  <2>8. Rest(k)[s[k]] = 0 /\ Rest(k-1)[s[k]] = a[s[k]]
    <3>1. k \in 1 .. k
      BY <2>4
    <3>2. QED
      BY <1>3, <2>4, <2>7, <3>1
  <2>9. \A x \in 1 .. m : x # s[k] => Rest(k)[x] = Rest(k-1)[x]
    <3>1. \A i \in 1 .. k : i \in 1 .. k - 1 \/ i = k
      BY <2>4
    <3>2. \A i \in 1 .. k - 1 : i \in 1 .. k
      BY <2>4
    <3>3. ASSUME NEW x \in 1 .. m, x # s[k]
          PROVE  (\E i \in 1 .. k : s[i] = x) <=> (\E i \in 1 .. k - 1 : s[i] = x)
      BY <3>1, <3>2, <3>3
    <3>4. ASSUME NEW x \in 1 .. m, x # s[k] PROVE Rest(k)[x] = Rest(k-1)[x]
      <4>1. Rest(k)[x] = IF \E i \in 1 .. k : s[i] = x THEN 0 ELSE a[x]
        BY <1>3, <2>4
      <4>2. Rest(k-1)[x] = IF \E i \in 1 .. k - 1 : s[i] = x THEN 0 ELSE a[x]
        BY <1>3, <2>4
      <4>3. QED
        BY <3>3, <3>4, <4>1, <4>2
    <3>5. QED
      BY <3>4
  <2>10. Total(Rest(k-1)) = Total(Rest(k)) + a[s[k]]
    <3>1. /\ Rest(k-1) \in Seq(Nat) /\ Len(Rest(k-1)) = m /\ Len(Rest(k)) = m
      BY <1>3, <2>4
    <3> DEFINE v == Rest(k)
               w == Rest(k-1)
    <3> HIDE DEF v, w
    <3>2. /\ w \in Seq(Nat) /\ Len(w) = m /\ Len(v) = m /\ s[k] \in 1 .. m /\ v[s[k]] = 0
          /\ \A x \in 1 .. m : x # s[k] => v[x] = w[x]
      BY <2>7, <2>8, <2>9, <3>1 DEF v, w
    <3>3. Total(w) = Total(v) + w[s[k]]
      <4>1. \A i \in 1 .. Len(w) : v[i] = 0 /\ (\A x \in 1 .. Len(w) : x # i => v[x] = w[x])
                                    => Total(w) = Total(v) + w[i]
        <5>1. w \in Seq(Nat) /\ Len(v) = Len(w)
          BY <3>2
        <5>2. QED
          BY <5>1, TotalWithout
      <4>2. QED
        BY <3>2, <4>1
    <3>4. QED
      BY <2>8, <3>3 DEF v, w
  <2>11. f[k] = f[k-1] + a[s[k]]
    BY <1>2, <1>5, <2>4
  <2>12. f[k-1] \in Nat /\ a[s[k]] \in Nat /\ Total(Rest(k)) \in Nat
    BY <1>1, <1>3, <1>5, <2>4, <2>7, TotalType
  <2>13. f[k] + Total(Rest(k)) = Total(a)
    BY <2>6, <2>10, <2>11, <2>12
  <2>14. QED
    BY <2>2, <2>13
<1>7. f[n] + Total(Rest(n)) = Total(a) /\ f[n] \in Nat /\ Total(Rest(n)) \in Nat
  <2>1. n \in 0 .. n
    BY <1>1
  <2>2. QED
    BY <1>3, <1>5, <1>6, <2>1, TotalType
<1>8. Total(picked) <= Total(a)
  BY <1>5, <1>7
<1>9. QED
  BY <1>8 DEF picked, n

-----------------------------------------------------------------------------
(* Orders *)

(* An order that can rest in the book: something of it is left.            *)
OpenOrder == {x \in Order : x.filled < x.qty}

(* The types of what is read off an order.                                 *)
LEMMA OrderFacts ==
    ASSUME NEW x \in Order
    PROVE  /\ x.id \in OrderIds /\ x.side \in Sides /\ x.price \in Nat
           /\ x.qty \in Nat /\ x.qty > 0 /\ x.filled \in Nat
           /\ RemainingQuantity(x) \in Int
           /\ Opposite(x.side) \in Sides /\ Opposite(x.side) # x.side
           /\ Opposite(Opposite(x.side)) = x.side
<1>1. /\ x.id \in OrderIds /\ x.side \in Sides /\ x.price \in Prices
      /\ x.qty \in Quantities /\ x.filled \in Nat
  BY DEF Order
<1>2. x.price \in Nat /\ x.qty \in Nat /\ x.qty > 0
  <2>1. x.price \in Nat
    BY <1>1, PricesAssumption
  <2>2. x.qty \in Nat \ {0}
    BY <1>1, QuantitiesAssumption
  <2>3. QED
    BY <2>1, <2>2
<1>3. RemainingQuantity(x) \in Int
  BY <1>1, <1>2 DEF RemainingQuantity
<1>4. /\ Opposite(x.side) \in Sides /\ Opposite(x.side) # x.side
      /\ Opposite(Opposite(x.side)) = x.side
  BY <1>1 DEF Sides, Opposite
<1>5. QED
  BY <1>1, <1>2, <1>3, <1>4

(* Something is left of an open order.                                     *)
LEMMA OpenOrderFacts ==
    ASSUME NEW x \in OpenOrder
    PROVE  x \in Order /\ RemainingQuantity(x) \in Nat /\ RemainingQuantity(x) > 0
BY OrderFacts DEF OpenOrder, RemainingQuantity

(* A fill of no more than what is left keeps an order what it is, and      *)
(* completes it exactly when it takes all that is left.                    *)
LEMMA WithFillFacts ==
    ASSUME NEW x \in OpenOrder, NEW n \in 0 .. RemainingQuantity(x)
    PROVE  /\ WithFill(x, n) \in Order
           /\ WithFill(x, n).id = x.id /\ WithFill(x, n).side = x.side
           /\ WithFill(x, n).price = x.price /\ WithFill(x, n).qty = x.qty
           /\ WithFill(x, n).filled = x.filled + n
           /\ Completed(WithFill(x, n)) <=> n = RemainingQuantity(x)
           /\ ~Completed(WithFill(x, n)) => WithFill(x, n) \in OpenOrder
<1>1. x \in Order /\ x.filled \in Nat /\ x.qty \in Nat /\ x.filled < x.qty
  BY OrderFacts DEF OpenOrder
<1>2. n \in Nat /\ n <= x.qty - x.filled
  BY <1>1 DEF RemainingQuantity
<1>3. /\ WithFill(x, n) \in Order
      /\ WithFill(x, n).id = x.id /\ WithFill(x, n).side = x.side
      /\ WithFill(x, n).price = x.price /\ WithFill(x, n).qty = x.qty
      /\ WithFill(x, n).filled = x.filled + n
  BY <1>1, <1>2 DEF WithFill, Order
<1>4. QED
  BY <1>1, <1>2, <1>3 DEF Completed, RemainingQuantity, OpenOrder

-----------------------------------------------------------------------------
(* The trace of a call *)

(* What an order with `wanted` left trades with an entry of the index.     *)
Sold(o, wanted, opposite) ==
    IF Match(o, opposite) THEN Lesser(wanted, RemainingQuantity(opposite)) ELSE 0

(* What the first entries of an index offer an order, summed one by one.   *)
LEMMA OfferedFacts ==
    ASSUME NEW o \in OpenOrder, NEW ix \in Seq(OpenOrder)
    PROVE  /\ \A i \in 1 .. Len(ix) + 1 : Offered(o, ix, i) \in Nat
           /\ Offered(o, ix, 1) = 0
           /\ \A i \in 1 .. Len(ix) :
                 Offered(o, ix, i + 1) =
                    Offered(o, ix, i) + IF Match(o, ix[i]) THEN RemainingQuantity(ix[i]) ELSE 0
<1> DEFINE n == Len(ix)
           amount(j) == IF Match(o, ix[j]) THEN RemainingQuantity(ix[j]) ELSE 0
           w(i) == [j \in 1 .. i-1 |-> amount(j)]
<1>1. n \in Nat /\ \A j \in 1 .. n : amount(j) \in Nat
  BY OpenOrderFacts
<1> HIDE DEF n, amount
<1>2. \A i \in 1 .. n + 1 : w(i) \in Seq(Nat) /\ Len(w(i)) = i - 1
  <2> SUFFICES ASSUME NEW i \in 1 .. n + 1 PROVE w(i) \in Seq(Nat) /\ Len(w(i)) = i - 1
    OBVIOUS
  <2>1. i - 1 \in Nat /\ \A j \in 1 .. i - 1 : amount(j) \in Nat
    BY <1>1
  <2>2. QED
    BY <2>1
<1>3. n + 1 \in 1 .. n + 1
  BY <1>1
<1>4. PICK f \in [0 .. n -> Nat] :
         f[0] = 0 /\ \A k \in 1 .. n : f[k] = f[k-1] + w(n + 1)[k]
  <2>1. w(n + 1) \in Seq(Nat) /\ Len(w(n + 1)) = n
    BY <1>1, <1>2, <1>3
  <2> HIDE DEF w
  <2>2. QED
    BY <2>1, SumsOf
<1>5. \A k \in 1 .. n : f[k] = f[k-1] + amount(k)
  BY <1>1, <1>4
<1>6. \A i \in 1 .. n + 1 : Total(w(i)) = f[i-1]
  <2> SUFFICES ASSUME NEW i \in 1 .. n + 1 PROVE Total(w(i)) = f[i-1]
    OBVIOUS
  <2>1. Len(w(i)) = i - 1 /\ i - 1 \in Nat
    BY <1>1, <1>2
  <2>2. \A k \in 1 .. i - 1 : f[k] = f[k-1] + w(i)[k]
    BY <1>1, <1>5
  <2> HIDE DEF w
  <2>3. QED
    BY <1>4, <2>1, <2>2, TotalIs
<1>7. \A i \in 1 .. n + 1 : Offered(o, ix, i) = f[i-1]
  BY <1>6 DEF Offered, amount
<1>8. /\ \A i \in 1 .. n + 1 : i - 1 \in 0 .. n
      /\ \A i \in 1 .. n : i \in 1 .. n + 1 /\ i + 1 \in 1 .. n + 1 /\ (i + 1) - 1 = i
      /\ 1 \in 1 .. n + 1
  BY <1>1
<1>9. \A i \in 1 .. n + 1 : Offered(o, ix, i) \in Nat
  BY <1>4, <1>7, <1>8
<1>10. Offered(o, ix, 1) = 0
  <2>1. Offered(o, ix, 1) = f[1-1]
    BY <1>7, <1>8
  <2>2. QED
    BY <1>4, <2>1
<1>11. ASSUME NEW i \in 1 .. n PROVE Offered(o, ix, i + 1) = Offered(o, ix, i) + amount(i)
  <2>1. Offered(o, ix, i + 1) = f[(i+1)-1] /\ Offered(o, ix, i) = f[i-1]
    BY <1>7, <1>8
  <2>2. QED
    BY <1>5, <1>8, <2>1
<1>12. QED
  BY <1>9, <1>10, <1>11 DEF n, amount

(* The two remainders agree: whichever of them an entry is traded by, what *)
(* is left of the order is what those before it have not offered; so       *)
(* HasMatches selects an entry exactly when the order matches it and       *)
(* something is left of it then.                                           *)
LEMMA RemaindersAgree ==
    ASSUME NEW o \in OpenOrder, NEW ix \in Seq(OpenOrder), NEW left,
           left[0] = RemainingQuantity(o),
           \A i \in 1 .. Len(ix) :
              \/ left[i] = left[i-1] - Sold(o, left[i-1], ix[i])
              \/ left[i] = left[i-1] - IF i \in HasMatches(o, ix)
                                      THEN Lesser(left[i-1], RemainingQuantity(ix[i])) ELSE 0
    PROVE  \A i \in 1 .. Len(ix) :
              /\ i \in HasMatches(o, ix) <=> Match(o, ix[i]) /\ left[i-1] > 0
              /\ Sold(o, left[i-1], ix[i]) =
                    IF i \in HasMatches(o, ix)
                    THEN Lesser(left[i-1], RemainingQuantity(ix[i])) ELSE 0
<1> DEFINE n == Len(ix)
           R == RemainingQuantity(o)
           S(i) == Offered(o, ix, i)
           Right(i) == left[i-1] = IF S(i) < R THEN R - S(i) ELSE 0
           Wrong == {i \in 1 .. n : ~Right(i)}
<1>1. n \in Nat /\ R \in Nat /\ R > 0
  BY OpenOrderFacts
<1>2. /\ \A i \in 1 .. n + 1 : S(i) \in Nat
      /\ S(1) = 0
      /\ \A i \in 1 .. n :
            S(i + 1) = S(i) + IF Match(o, ix[i]) THEN RemainingQuantity(ix[i]) ELSE 0
  BY OfferedFacts
<1>3. \A i \in 1 .. n : RemainingQuantity(ix[i]) \in Nat /\ RemainingQuantity(ix[i]) > 0
  BY OpenOrderFacts
<1>4. \A i \in 1 .. n : i \in HasMatches(o, ix) <=> Match(o, ix[i]) /\ S(i) < R
  BY DEF HasMatches
<1> HIDE DEF n, R, S
<1>5. ASSUME NEW i \in 1 .. n, Right(i)
      PROVE  /\ i \in HasMatches(o, ix) <=> Match(o, ix[i]) /\ left[i-1] > 0
             /\ Sold(o, left[i-1], ix[i]) =
                   IF i \in HasMatches(o, ix)
                   THEN Lesser(left[i-1], RemainingQuantity(ix[i])) ELSE 0
             /\ left[i] = IF S(i + 1) < R THEN R - S(i + 1) ELSE 0
  <2>1. S(i) \in Nat /\ i \in Nat
    BY <1>1, <1>2
  <2>2. i \in HasMatches(o, ix) <=> Match(o, ix[i]) /\ left[i-1] > 0
    BY <1>1, <1>4, <1>5, <2>1
  <2>3. Sold(o, left[i-1], ix[i]) =
           IF i \in HasMatches(o, ix) THEN Lesser(left[i-1], RemainingQuantity(ix[i])) ELSE 0
    BY <1>1, <1>3, <1>5, <2>1, <2>2 DEF Sold, Lesser
  <2>4. left[i] = left[i-1] - Sold(o, left[i-1], ix[i])
    BY <2>3 DEF n
  <2>5. left[i] = IF S(i + 1) < R THEN R - S(i + 1) ELSE 0
    BY <1>1, <1>2, <1>3, <1>5, <2>1, <2>4 DEF Sold, Lesser
  <2>6. QED
    BY <2>2, <2>3, <2>5
<1>6. Wrong = {}
  <2> SUFFICES ASSUME Wrong # {} PROVE FALSE
    OBVIOUS
  <2>1. Wrong \in SUBSET Nat
    BY <1>1
  <2>2. PICK i \in Wrong : \A k \in Wrong : i <= k
    <3> HIDE DEF Wrong
    <3>1. QED
      BY <2>1, LeastElement
  <2>3. i \in 1 .. n /\ ~Right(i)
    BY <2>2
  <2>4. i # 1
    BY <1>1, <1>2, <2>3 DEF R
  <2>5. i - 1 \in 1 .. n /\ ~(i <= i - 1) /\ (i - 1) + 1 = i
    BY <1>1, <2>3, <2>4
  <2>6. Right(i - 1)
    BY <2>2, <2>5
  <2>7. left[i-1] = IF S(i) < R THEN R - S(i) ELSE 0
    <3> HIDE DEF Right
    <3>1. QED
      BY <1>5, <2>5, <2>6
  <2>8. QED
    BY <2>3, <2>7
<1>7. \A i \in 1 .. n : Right(i)
  BY <1>6
<1>8. QED
  BY <1>5, <1>7 DEF n

(* What is left of the incoming order never grows, and no entry of the     *)
(* index gives more than it has.                                           *)
LEMMA TraceFacts ==
    ASSUME NEW o \in OpenOrder, NEW ix \in Seq(OpenOrder), NEW left \in Traces(o, ix)
    PROVE  /\ \A i \in 0 .. Len(ix) : left[i] \in 0 .. RemainingQuantity(o)
           /\ DOMAIN left = 0 .. Len(ix)
           /\ \A i \in 1 .. Len(ix) :
                 /\ ix[i] \in OpenOrder
                 /\ left[i-1] \in Nat /\ left[i] \in Nat /\ left[i] <= left[i-1]
                 /\ left[i] = left[i-1] - Sold(o, left[i-1], ix[i])
                 /\ left[i-1] - left[i] \in 0 .. RemainingQuantity(ix[i])
<1>1. /\ Len(ix) \in Nat
      /\ left \in [0 .. Len(ix) -> 0 .. RemainingQuantity(o)]
      /\ \A i \in 1 .. Len(ix) : left[i] = left[i-1] - Sold(o, left[i-1], ix[i])
  <2>1. /\ left \in [0 .. Len(ix) -> 0 .. RemainingQuantity(o)] /\ left[0] = RemainingQuantity(o)
        /\ \A i \in 1 .. Len(ix) :
              left[i] = left[i-1] - IF i \in HasMatches(o, ix)
                                    THEN Lesser(left[i-1], RemainingQuantity(ix[i])) ELSE 0
    BY DEF Traces
  <2>2. \A i \in 1 .. Len(ix) :
           Sold(o, left[i-1], ix[i]) = IF i \in HasMatches(o, ix)
                                       THEN Lesser(left[i-1], RemainingQuantity(ix[i])) ELSE 0
    BY <2>1, RemaindersAgree
  <2>3. QED
    BY <2>1, <2>2
<1>2. RemainingQuantity(o) \in Nat
  BY OpenOrderFacts
<1>3. ASSUME NEW i \in 1 .. Len(ix)
      PROVE  /\ ix[i] \in OpenOrder
             /\ left[i-1] \in Nat /\ left[i] \in Nat /\ left[i] <= left[i-1]
             /\ left[i] = left[i-1] - Sold(o, left[i-1], ix[i])
             /\ left[i-1] - left[i] \in 0 .. RemainingQuantity(ix[i])
  <2>1. i - 1 \in 0 .. Len(ix) /\ i \in 0 .. Len(ix)
    BY <1>1
  <2>2. ix[i] \in OpenOrder /\ RemainingQuantity(ix[i]) \in Nat
    BY OpenOrderFacts
  <2>3. left[i-1] \in Nat /\ left[i] \in Nat
    BY <1>1, <1>2, <2>1
  <2>4. Sold(o, left[i-1], ix[i]) \in 0 .. RemainingQuantity(ix[i])
    BY <2>2, <2>3 DEF Sold, Lesser
  <2>5. QED
    BY <1>1, <2>2, <2>3, <2>4
<1>4. QED
  BY <1>1, <1>3

(* What is left of the incoming order after an entry was left before it.   *)
LEMMA LeftBefore ==
    ASSUME NEW o \in OpenOrder, NEW ix \in Seq(OpenOrder), NEW left \in Traces(o, ix),
           NEW n \in 0 .. Len(ix), left[n] > 0, NEW i \in 0 .. n
    PROVE  left[i] > 0
<1> DEFINE Spent == {k \in 0 .. n : left[n-k] = 0}
<1>1. n \in Nat /\ n <= Len(ix) /\ Len(ix) \in Nat
  OBVIOUS
<1>2. Spent = {}
  <2> SUFFICES ASSUME Spent # {} PROVE FALSE
    OBVIOUS
  <2>1. Spent \in SUBSET Nat
    BY <1>1
  <2>2. PICK k \in Spent : \A x \in Spent : k <= x
    <3> HIDE DEF Spent
    <3>1. QED
      BY LeastElement, <2>1
  <2>3. k \in Nat /\ k <= n /\ k # 0 /\ left[n-k] = 0
    BY <2>2, <1>1
  <2>4. n - k + 1 \in 1 .. Len(ix) /\ (n - k + 1) - 1 = n - k /\ n - (k - 1) = n - k + 1
        /\ k - 1 \in 0 .. n
    BY <2>3, <1>1
  <2>5. left[n-k+1] \in Nat /\ left[n-k+1] <= left[n-k]
    BY <2>4, TraceFacts
  <2>6. left[n-(k-1)] = 0
    BY <2>3, <2>4, <2>5
  <2>7. k - 1 \in Spent
    BY <2>4, <2>6
  <2>8. QED
    BY <2>2, <2>3, <2>7
<1>3. n - i \in 0 .. n /\ n - (n - i) = i /\ i \in 0 .. Len(ix)
  BY <1>1
<1>4. left[i] # 0
  BY <1>2, <1>3
<1>5. left[i] \in 0 .. RemainingQuantity(o)
  BY <1>3, TraceFacts
<1>6. QED
  BY <1>4, <1>5, OpenOrderFacts

(* The loop stops early only when the incoming order is exhausted: while   *)
(* something of it is left, every entry it could trade with is filled      *)
(* completely.                                                             *)
LEMMA Exhausted ==
    ASSUME NEW o \in OpenOrder, NEW ix \in Seq(OpenOrder), NEW left \in Traces(o, ix),
           NEW i \in 1 .. Len(ix), left[i] > 0, Match(o, ix[i])
    PROVE  left[i-1] - left[i] = RemainingQuantity(ix[i])
<1>1. /\ left[i-1] \in Nat /\ left[i] \in Nat
      /\ left[i] = left[i-1] - Sold(o, left[i-1], ix[i])
      /\ RemainingQuantity(ix[i]) \in Nat
  BY TraceFacts, OpenOrderFacts
<1>2. QED
  BY <1>1 DEF Sold, Lesser

(* The order trades with the entries it hits, and only with entries it     *)
(* matches, while something of it is left.                                 *)
LEMMA HitFacts ==
    ASSUME NEW o \in OpenOrder, NEW ix \in Seq(OpenOrder), NEW left \in Traces(o, ix),
           NEW i \in 1 .. Len(ix)
    PROVE  i \in Hits(left) <=> Match(o, ix[i]) /\ left[i-1] > 0
<1>1. /\ left[i-1] \in Nat /\ left[i] \in Nat
      /\ left[i] = left[i-1] - Sold(o, left[i-1], ix[i])
      /\ RemainingQuantity(ix[i]) \in Nat /\ RemainingQuantity(ix[i]) > 0
  BY TraceFacts, OpenOrderFacts
<1>2. Sold(o, left[i-1], ix[i]) # 0 <=> Match(o, ix[i]) /\ left[i-1] > 0
  BY <1>1 DEF Sold, Lesser
<1>3. left[i] # left[i-1] <=> Sold(o, left[i-1], ix[i]) # 0
  BY <1>1 DEF Sold, Lesser
<1>4. i \in DOMAIN left \ {0}
  BY TraceFacts
<1>5. QED
  BY <1>2, <1>3, <1>4 DEF Hits

(* So every match is filled, and nothing else is.                          *)
LEMMA HitsAreMatches ==
    ASSUME NEW o \in OpenOrder, NEW ix \in Seq(OpenOrder), NEW left \in Traces(o, ix)
    PROVE  Hits(left) = HasMatches(o, ix)
<1>1. left[0] = RemainingQuantity(o)
  BY DEF Traces
<1>2. \A i \in 1 .. Len(ix) : left[i] = left[i-1] - Sold(o, left[i-1], ix[i])
  BY TraceFacts
<1>3. \A i \in 1 .. Len(ix) : i \in HasMatches(o, ix) <=> Match(o, ix[i]) /\ left[i-1] > 0
  BY <1>1, <1>2, RemaindersAgree
<1>4. \A i \in 1 .. Len(ix) : i \in Hits(left) <=> Match(o, ix[i]) /\ left[i-1] > 0
  BY HitFacts
<1>5. Hits(left) \subseteq 1 .. Len(ix)
  BY TraceFacts DEF Hits
<1>6. HasMatches(o, ix) \subseteq 1 .. Len(ix)
  BY DEF HasMatches
<1>7. QED
  BY <1>3, <1>4, <1>5, <1>6

-----------------------------------------------------------------------------
(* The price indexes *)

(* Finitely many orders have finitely many prices.                         *)
LEMMA PriceLevelsFinite ==
    ASSUME NEW orders, IsFiniteSet(orders)
    PROVE  IsFiniteSet(PriceLevels(orders))
<1> DEFINE f == [o \in orders |-> o.price]
<1>1. f \in Surjection(orders, PriceLevels(orders))
  BY DEF Surjection, PriceLevels
<1> HIDE DEF f
<1>2. QED
  BY <1>1, FS_Surjection

(* An index is a sequence of orders of the side it is built from.          *)
LEMMA IndexType ==
    ASSUME NEW orders \in SUBSET OpenOrder, IsFiniteSet(orders), NEW ix \in PriceIndexes(orders)
    PROVE  /\ ix \in Seq(OpenOrder)
           /\ \A i \in 1 .. Len(ix) : ix[i] \in orders
           /\ \A i, j \in 1 .. Len(ix) : i < j => ix[i].price < ix[j].price
           /\ \A o \in orders : \E i \in 1 .. Len(ix) : ix[i].price = o.price
<1> DEFINE n == Cardinality(PriceLevels(orders))
<1>1. n \in Nat
  BY PriceLevelsFinite, FS_CardinalityType
<1>2. /\ ix \in [1 .. n -> orders]
      /\ \A i, j \in DOMAIN ix : i < j => ix[i].price < ix[j].price
      /\ \A o \in orders : \E i \in DOMAIN ix : ix[i].price = o.price
  BY DEF PriceIndexes
<1> HIDE DEF n
<1>3. ix \in Seq(OpenOrder) /\ Len(ix) = n /\ DOMAIN ix = 1 .. n
  BY <1>1, <1>2
<1>4. QED
  BY <1>2, <1>3

-----------------------------------------------------------------------------
(* The engine *)

(* What every engine satisfies between two calls.                          *)
SoundEngine(e) ==
    /\ e \in [orders : [Sides -> SUBSET OpenOrder], index : [Sides -> Seq(OpenOrder)]]
    /\ \A side \in Sides :
          /\ IsFiniteSet(e.orders[side])
          /\ \A x \in e.orders[side] : x.side = side
          /\ \A x, y \in e.orders[side] : x.id = y.id => x = y
          /\ e.index[side] \in PriceIndexes(e.orders[side])

(* A new engine is sound.                                                  *)
LEMMA NewEngineSound == SoundEngine(NewEngine)
<1>1. NewEngine.orders = [side \in Sides |-> {}] /\ NewEngine.index = [side \in Sides |-> << >>]
  BY DEF NewEngine
<1>2. NewEngine \in [orders : [Sides -> SUBSET OpenOrder], index : [Sides -> Seq(OpenOrder)]]
  BY EmptySeq DEF NewEngine
<1>3. IsFiniteSet({}) /\ Cardinality({}) = 0
  BY FS_EmptySet
<1>4. << >> \in PriceIndexes({})
  <2>1. PriceLevels({}) = {}
    BY DEF PriceLevels
  <2>2. << >> \in [1 .. 0 -> {}]
    OBVIOUS
  <2>3. QED
    BY <1>3, <2>1, <2>2 DEF PriceIndexes
<1>5. QED
  BY <1>1, <1>2, <1>3, <1>4 DEF SoundEngine

(* What the call does to the side it trades with.                          *)
LEMMA UpdateOrdersSound ==
    ASSUME NEW o \in OpenOrder, NEW side \in Sides,
           NEW orders \in SUBSET OpenOrder, IsFiniteSet(orders),
           \A x \in orders : x.side = side,
           \A x, y \in orders : x.id = y.id => x = y,
           NEW ix \in PriceIndexes(orders), NEW left \in Traces(o, ix)
    PROVE  /\ UpdateOrders(orders, ix, left) \in SUBSET OpenOrder
           /\ IsFiniteSet(UpdateOrders(orders, ix, left))
           /\ \A x \in UpdateOrders(orders, ix, left) :
                 /\ x.side = side
                 /\ \E y \in orders : y.id = x.id /\ y.price = x.price /\ y.qty = x.qty
           /\ \A x, y \in UpdateOrders(orders, ix, left) : x.id = y.id => x = y
<1> DEFINE n == Len(ix)
           sold(i) == left[i-1] - left[i]
           after(i) == WithFill(ix[i], sold(i))
           filled == {after(i) : i \in Hits(left)}
           kept == {x \in orders : \A i \in Hits(left) : ix[i].id # x.id}
           new == UpdateOrders(orders, ix, left)
<1>1. /\ ix \in Seq(OpenOrder) /\ n \in Nat
      /\ \A i \in 1 .. n : ix[i] \in orders
      /\ \A i, j \in 1 .. n : i < j => ix[i].price < ix[j].price
  BY IndexType
<1>2. Hits(left) \subseteq 1 .. n /\ IsFiniteSet(Hits(left))
  <2>1. Hits(left) \subseteq 1 .. n
    BY <1>1, TraceFacts DEF Hits
  <2>2. IsFiniteSet(1 .. n)
    BY <1>1, FS_Interval
  <2>3. QED
    BY <2>1, <2>2, FS_Subset
<1>3. ASSUME NEW i \in Hits(left)
      PROVE  /\ ix[i] \in orders
             /\ after(i) \in Order /\ after(i).id = ix[i].id /\ after(i).side = side
             /\ after(i).price = ix[i].price /\ after(i).qty = ix[i].qty
             /\ ~Completed(after(i)) => after(i) \in OpenOrder
  <2>1. ix[i] \in orders /\ sold(i) \in 0 .. RemainingQuantity(ix[i])
    BY <1>1, <1>2, TraceFacts
  <2>2. QED
    BY <2>1, WithFillFacts
<1>4. new = kept \cup {x \in filled : ~Completed(x)}
  BY DEF UpdateOrders
<1>5. IsFiniteSet(new)
  <2> DEFINE f == [i \in Hits(left) |-> after(i)]
  <2>1. f \in Surjection(Hits(left), filled)
    BY DEF Surjection
  <2>2. IsFiniteSet(filled)
    <3> HIDE DEF f, filled
    <3>1. QED
      BY <1>2, <2>1, FS_Surjection
  <2>3. IsFiniteSet({x \in filled : ~Completed(x)}) /\ IsFiniteSet(kept)
    BY <2>2, FS_Subset
  <2>4. QED
    <3> HIDE DEF new, kept, filled, f
    <3>1. QED
      BY <1>4, <2>3, FS_Union
<1>6. \A x \in new :
         /\ x \in OpenOrder /\ x.side = side
         /\ \E y \in orders : y.id = x.id /\ y.price = x.price /\ y.qty = x.qty
  BY <1>3, <1>4
<1>7. ASSUME NEW i \in Hits(left), NEW j \in Hits(left), after(i).id = after(j).id
      PROVE  i = j
  <2>1. ix[i] = ix[j]
    BY <1>3, <1>7
  <2>2. i \in 1 .. n /\ j \in 1 .. n /\ ix[i].price \in Nat
    BY <1>1, <1>2, OpenOrderFacts, OrderFacts
  <2>3. QED
    BY <1>1, <2>1, <2>2
<1>8. ASSUME NEW x \in new, NEW y \in new, x.id = y.id
      PROVE  x = y
  <2>1. CASE x \in kept /\ y \in kept
    BY <1>8, <2>1
  <2>2. CASE x \in kept /\ y \in filled
    BY <1>3, <1>8, <2>2
  <2>3. CASE x \in filled /\ y \in kept
    BY <1>3, <1>8, <2>3
  <2>4. CASE x \in filled /\ y \in filled
    <3>1. PICK i \in Hits(left), j \in Hits(left) : x = after(i) /\ y = after(j)
      BY <2>4
    <3>2. QED
      BY <1>7, <1>8, <3>1
  <2>5. QED
    BY <1>4, <2>1, <2>2, <2>3, <2>4
<1>9. QED
  BY <1>5, <1>6, <1>8

(* What the call does to the side of the incoming order.                   *)
LEMMA RestedSound ==
    ASSUME NEW e, SoundEngine(e), NEW o \in OpenOrder, ~ContainsKey(e.orders[o.side], o.id),
           NEW left \in Traces(o, e.index[Opposite(o.side)])
    PROVE  LET n == Len(e.index[Opposite(o.side)])
               rested == WithFill(o, RemainingQuantity(o) - left[n])
           IN  /\ Rested(e, o, left) \in SUBSET OpenOrder
               /\ IsFiniteSet(Rested(e, o, left))
               /\ \A x, y \in Rested(e, o, left) : x.id = y.id => x = y
               /\ \A x \in Rested(e, o, left) :
                     \/ x \in e.orders[o.side]
                     \/ /\ left[n] > 0 /\ x = rested
                        /\ x.id = o.id /\ x.side = o.side /\ x.price = o.price /\ x.qty = o.qty
<1> DEFINE own == e.orders[o.side]
           ix == e.index[Opposite(o.side)]
           n == Len(ix)
           rested == WithFill(o, RemainingQuantity(o) - left[n])
<1>1. o.side \in Sides /\ Opposite(o.side) \in Sides /\ RemainingQuantity(o) \in Nat
  BY OrderFacts, OpenOrderFacts
<1>2. /\ own \in SUBSET OpenOrder /\ IsFiniteSet(own)
      /\ \A x, y \in own : x.id = y.id => x = y
      /\ ix \in Seq(OpenOrder)
  BY <1>1 DEF SoundEngine
<1>3. left[n] \in 0 .. RemainingQuantity(o)
  <2>1. n \in 0 .. n
    BY <1>2
  <2>2. QED
    BY <1>2, <2>1, TraceFacts
<1>4. CASE left[n] > 0
  <2>1. RemainingQuantity(o) - left[n] \in 0 .. RemainingQuantity(o)
        /\ RemainingQuantity(o) - left[n] # RemainingQuantity(o)
    BY <1>1, <1>3, <1>4
  <2>2. /\ rested \in OpenOrder /\ rested.id = o.id /\ rested.side = o.side
        /\ rested.price = o.price /\ rested.qty = o.qty
    BY <2>1, WithFillFacts
  <2>3. Rested(e, o, left) = {x \in own : x.id # rested.id} \cup {rested}
    BY <1>4 DEF Rested, Put
  <2>4. IsFiniteSet({x \in own : x.id # rested.id})
    BY <1>2, FS_Subset
  <2>5. IsFiniteSet(Rested(e, o, left))
    BY <2>3, <2>4, FS_AddElement
  <2> HIDE DEF own, ix, n, rested
  <2>6. \A x, y \in Rested(e, o, left) : x.id = y.id => x = y
    BY <1>2, <2>3
  <2>7. Rested(e, o, left) \in SUBSET OpenOrder
    BY <1>2, <2>2, <2>3
  <2>8. \A x \in Rested(e, o, left) : x \in own \/ x = rested
    BY <2>3
  <2>9. QED
    BY <1>4, <2>2, <2>5, <2>6, <2>7, <2>8 DEF own, ix, n, rested
<1>5. CASE ~(left[n] > 0)
  <2>1. Rested(e, o, left) = own
    BY <1>5 DEF Rested
  <2>2. QED
    BY <1>2, <2>1
<1>6. QED
  BY <1>4, <1>5

(* A side that was indexed is indexed after the call, rebuilt or not.      *)
LEMMA ReindexedSound ==
    ASSUME NEW old, NEW new, NEW ix, ix \in PriceIndexes(old), NEW ix2 \in Reindexed(old, new, ix)
    PROVE  ix2 \in PriceIndexes(new)
BY DEF Reindexed

(* The trades a call returns.                                              *)
LEMMA TradesType ==
    ASSUME NEW o \in OpenOrder, NEW ix \in Seq(OpenOrder), NEW left \in Traces(o, ix)
    PROVE  TradesOf(o, ix, left) \in Seq(Trade)
<1> DEFINE n == Len(ix)
           hits == Hits(left)
           at(k) == Min(hits) + k - 1
           trade(k) == FillOrders(o, ix[at(k)], left[at(k) - 1] - left[at(k)])
<1>1. n \in Nat /\ hits \subseteq 1 .. n /\ IsFiniteSet(hits) /\ Cardinality(hits) \in Nat
  <2>1. n \in Nat /\ hits \subseteq 1 .. n
    BY TraceFacts DEF Hits
  <2>2. IsFiniteSet(1 .. n)
    BY <2>1, FS_Interval
  <2>3. IsFiniteSet(hits)
    BY <2>1, <2>2, FS_Subset
  <2>4. QED
    BY <2>1, <2>3, FS_CardinalityType
<1>2. ASSUME NEW k \in 1 .. Cardinality(hits)
      PROVE  at(k) \in 1 .. n
  <2>1. hits # {}
    BY <1>1, FS_EmptySet
  <2>2. hits \in SUBSET Nat
    BY <1>1
  <2>3. \E m \in hits : \A x \in hits : m <= x
    <3> HIDE DEF hits
    <3>1. QED
      BY <2>1, <2>2, LeastElement
  <2>4. Min(hits) \in hits /\ \A x \in hits : Min(hits) <= x
    BY <2>3 DEF Min
  <2> DEFINE m == Min(hits)
  <2>5. m \in 1 .. n /\ hits \subseteq m .. n
    <3> HIDE DEF hits, n
    <3>1. m \in hits /\ \A x \in hits : m <= x
      BY <2>4
    <3> HIDE DEF m
    <3>2. m \in 1 .. n
      BY <1>1, <3>1
    <3>3. ASSUME NEW x \in hits PROVE x \in m .. n
      <4>1. x \in 1 .. n /\ m <= x
        BY <1>1, <3>1
      <4>2. QED
        BY <1>1, <3>2, <4>1
    <3>4. QED
      BY <3>2, <3>3
  <2> HIDE DEF m, hits, n
  <2>6. m \in Int /\ n \in Int /\ m <= n
    BY <1>1, <2>5
  <2>7. IsFiniteSet(m .. n) /\ Cardinality(m .. n) = n - m + 1
    BY <2>6, FS_Interval
  <2>8. Cardinality(hits) <= Cardinality(m .. n)
    BY <2>5, <2>7, FS_Subset
  <2>9. QED
    BY <1>1, <2>5, <2>7, <2>8 DEF m
<1>3. ASSUME NEW k \in 1 .. Cardinality(hits)
      PROVE  trade(k) \in Trade
  <2>1. /\ ix[at(k)] \in OpenOrder
        /\ left[at(k)-1] \in Nat /\ left[at(k)] \in Nat /\ left[at(k)] <= left[at(k)-1]
    BY <1>2, TraceFacts
  <2>2. left[at(k)-1] - left[at(k)] \in Nat
    BY <2>1
  <2>3. ix[at(k)] \in Order /\ o \in Order
    BY <2>1 DEF OpenOrder
  <2>4. QED
    BY <2>2, <2>3 DEF FillOrders, Trade, Order
<1>4. TradesOf(o, ix, left) = [k \in 1 .. Cardinality(hits) |-> trade(k)]
  BY DEF TradesOf
<1>5. QED
  <2> HIDE DEF hits, trade
  <2>1. QED
    BY <1>1, <1>3, <1>4

(* The hits are consecutive: the index is sorted, and the order takes from *)
(* it until nothing of it is left.                                         *)
LEMMA HitsAreConsecutive ==
    ASSUME NEW o \in OpenOrder, NEW orders \in SUBSET OpenOrder, IsFiniteSet(orders),
           NEW ix \in PriceIndexes(orders), NEW left \in Traces(o, ix),
           NEW i \in Hits(left), NEW l \in Hits(left), NEW j \in i .. l
    PROVE  j \in Hits(left)
<1>1. /\ ix \in Seq(OpenOrder) /\ Len(ix) \in Nat
      /\ \A a, b \in 1 .. Len(ix) : a < b => ix[a].price < ix[b].price
  BY IndexType
<1>2. i \in 1 .. Len(ix) /\ l \in 1 .. Len(ix)
  <2>1. DOMAIN left = 0 .. Len(ix)
    BY <1>1, TraceFacts
  <2>2. i \in (0 .. Len(ix)) \ {0} /\ l \in (0 .. Len(ix)) \ {0}
    BY <2>1 DEF Hits
  <2>3. QED
    BY <1>1, <2>2
<1>3. /\ j \in 1 .. Len(ix) /\ j - 1 \in 0 .. (l - 1) /\ l - 1 \in 0 .. Len(ix)
      /\ i <= j /\ j <= l
  BY <1>1, <1>2
<1>4. left[j-1] > 0
  <2>1. left[l-1] > 0
    BY <1>1, <1>2, HitFacts
  <2>2. QED
    BY <1>1, <1>3, <2>1, LeftBefore
<1>5. Match(o, ix[i]) /\ Match(o, ix[l])
  BY <1>1, <1>2, HitFacts
<1>6. /\ ix[i].price \in Nat /\ ix[j].price \in Nat /\ ix[l].price \in Nat /\ o.price \in Nat
  BY <1>1, <1>2, <1>3, OpenOrderFacts, OrderFacts
<1>7. ix[i].price <= ix[j].price /\ ix[j].price <= ix[l].price
  <2>1. i = j \/ i < j
    BY <1>2, <1>3
  <2>2. j = l \/ j < l
    BY <1>2, <1>3
  <2>3. QED
    BY <1>1, <1>2, <1>3, <1>6, <2>1, <2>2
<1>8. Match(o, ix[j])
  BY <1>5, <1>6, <1>7 DEF Match
<1>9. QED
  BY <1>1, <1>3, <1>4, <1>8, HitFacts

(* The trades of a call, one by one: those with the entries the order hit, *)
(* which are all those of an interval of the index.                        *)
LEMMA TradeList ==
    ASSUME NEW o \in OpenOrder, NEW orders \in SUBSET OpenOrder, IsFiniteSet(orders),
           NEW ix \in PriceIndexes(orders), NEW left \in Traces(o, ix)
    PROVE  LET trades == TradesOf(o, ix, left)
               c == Len(trades)
           IN  \E m \in 1 .. Len(ix) + 1 :
                  /\ c \in Nat /\ m + c - 1 \in 0 .. Len(ix)
                  /\ Hits(left) = m .. m + c - 1
                  /\ \A k \in 1 .. c :
                        trades[k] = FillOrders(o, ix[m+k-1], left[m+k-2] - left[m+k-1])
<1> DEFINE hits == Hits(left)
           n == Len(ix)
           trades == TradesOf(o, ix, left)
<1>1. ix \in Seq(OpenOrder) /\ n \in Nat /\ hits \subseteq 1 .. n
  BY IndexType, TraceFacts DEF Hits
<1>2. trades = [k \in 1 .. Cardinality(hits) |->
                  FillOrders(o, ix[Min(hits) + k - 1],
                             left[(Min(hits) + k - 1) - 1] - left[Min(hits) + k - 1])]
  BY DEF TradesOf
<1>3. IsFiniteSet(hits) /\ Cardinality(hits) \in Nat /\ hits \in SUBSET Nat
  <2> HIDE DEF hits, n
  <2>1. IsFiniteSet(1 .. n)
    BY <1>1, FS_Interval
  <2>2. IsFiniteSet(hits)
    BY <1>1, <2>1, FS_Subset
  <2>3. 1 .. n \subseteq Nat
    OBVIOUS
  <2>4. QED
    BY <1>1, <2>2, <2>3, FS_CardinalityType
<1>4. Len(trades) = Cardinality(hits)
  <2>1. trades \in Seq(Trade)
    BY <1>1, TradesType
  <2>2. DOMAIN trades = 1 .. Cardinality(hits)
    BY <1>2
  <2> HIDE DEF trades, hits
  <2>3. QED
    BY <1>3, <2>1, <2>2
<1>5. CASE hits = {}
  <2>1. Cardinality(hits) = 0
    BY <1>5, FS_EmptySet
  <2>2. Len(trades) = 0
    BY <1>4, <2>1
  <2>3. 1 \in 1 .. n + 1 /\ 1 + 0 - 1 \in 0 .. n /\ 1 .. 1 + 0 - 1 = {} /\ 1 .. 0 = {}
    BY <1>1
  <2> HIDE DEF trades, hits, n
  <2>4. QED
    BY <1>5, <2>2, <2>3 DEF trades, hits, n
<1>6. CASE hits # {}
  <2> DEFINE m == Min(hits)
             Behind == {k \in Nat : n - k \in hits}
  <2>1. m \in hits /\ \A x \in hits : m <= x
    <3>1. \E y \in hits : \A x \in hits : y <= x
      <4> HIDE DEF hits
      <4>1. QED
        BY <1>3, <1>6, LeastElement
    <3>2. QED
      BY <3>1 DEF Min
  <2>2. PICK k \in Behind : \A x \in Behind : k <= x
    <3>1. PICK x \in hits : TRUE
      BY <1>6
    <3>2. n - x \in Nat /\ n - (n - x) = x
      BY <1>1, <3>1
    <3>3. Behind # {} /\ Behind \in SUBSET Nat
      BY <3>1, <3>2
    <3> HIDE DEF Behind
    <3>4. QED
      BY <3>3, LeastElement
  <2> DEFINE last == n - k
  <2>3. last \in hits
    BY <2>2
  <2>4. \A x \in hits : x <= last
    <3> SUFFICES ASSUME NEW x \in hits PROVE x <= last
      OBVIOUS
    <3>1. x \in 1 .. n /\ k \in Nat
      BY <1>1, <2>2
    <3>2. n - x \in Behind
      BY <3>1
    <3>3. k <= n - x
      BY <2>2, <3>2
    <3>4. QED
      BY <1>1, <3>1, <3>3
  <2>5. \A j \in m .. last : j \in hits
    <3> SUFFICES ASSUME NEW j \in m .. last PROVE j \in hits
      OBVIOUS
    <3> HIDE DEF m, last
    <3>1. QED
      BY <2>1, <2>3, HitsAreConsecutive
  <2> HIDE DEF m, last, hits, n, trades
  <2>6. m \in 1 .. n /\ last \in 1 .. n /\ m <= last
    BY <1>1, <2>1, <2>3
  <2>7. hits = m .. last
    <3>1. \A x \in hits : x \in m .. last
      <4> SUFFICES ASSUME NEW x \in hits PROVE x \in m .. last
        OBVIOUS
      <4>1. x \in 1 .. n /\ m <= x /\ x <= last
        BY <1>1, <2>1, <2>4
      <4>2. QED
        BY <2>6, <4>1
    <3>2. QED
      BY <2>5, <3>1
  <2>8. Cardinality(hits) = last - m + 1
    BY <2>6, <2>7, FS_Interval
  <2> DEFINE c == Len(trades)
  <2>9. c \in Nat /\ m + c - 1 = last /\ m \in 1 .. n + 1 /\ m + c - 1 \in 0 .. n
    BY <1>1, <1>3, <1>4, <2>6, <2>8
  <2>10. \A j \in 1 .. c :
            trades[j] = FillOrders(o, ix[m+j-1], left[m+j-2] - left[m+j-1])
    <3> SUFFICES ASSUME NEW j \in 1 .. c
                 PROVE  trades[j] = FillOrders(o, ix[m+j-1], left[m+j-2] - left[m+j-1])
      OBVIOUS
    <3>1. j \in 1 .. Cardinality(hits) /\ m \in Nat /\ j \in Nat
      BY <1>1, <1>4, <2>6, <2>9
    <3>2. (m + j - 1) - 1 = m + j - 2
      BY <3>1
    <3>3. trades[j] = FillOrders(o, ix[m+j-1], left[(m+j-1)-1] - left[m+j-1])
      BY <1>2, <3>1 DEF m
    <3>4. QED
      BY <3>2, <3>3
  <2> HIDE DEF c
  <2>11. hits = m .. m + c - 1
    BY <2>7, <2>9
  <2>12. QED
    BY <2>9, <2>10, <2>11 DEF c, trades, hits, n
<1>7. QED
  BY <1>5, <1>6

(* Each trade of a call is the one with an entry the order hit.            *)
LEMMA TradesAreHits ==
    ASSUME NEW o \in OpenOrder, NEW orders \in SUBSET OpenOrder, IsFiniteSet(orders),
           NEW ix \in PriceIndexes(orders), NEW left \in Traces(o, ix),
           NEW k \in 1 .. Len(TradesOf(o, ix, left))
    PROVE  \E i \in Hits(left) :
              TradesOf(o, ix, left)[k] = FillOrders(o, ix[i], left[i-1] - left[i])
<1> DEFINE trades == TradesOf(o, ix, left)
           c == Len(trades)
<1>1. PICK m \in 1 .. Len(ix) + 1 :
         /\ c \in Nat /\ m + c - 1 \in 0 .. Len(ix)
         /\ Hits(left) = m .. m + c - 1
         /\ \A j \in 1 .. c :
               trades[j] = FillOrders(o, ix[m+j-1], left[m+j-2] - left[m+j-1])
  BY TradeList
<1> HIDE DEF trades
<1>2. m + k - 1 \in m .. m + c - 1 /\ (m + k - 1) - 1 = m + k - 2 /\ k \in 1 .. c
  BY <1>1 DEF trades
<1>3. trades[k] = FillOrders(o, ix[m+k-1], left[(m+k-1)-1] - left[m+k-1])
  BY <1>1, <1>2
<1>4. QED
  BY <1>1, <1>2, <1>3 DEF trades

(* The order leaves nothing it could have traded with before it was        *)
(* exhausted: no such entry of the opposite index is left in the book.     *)
LEMMA MatchedAreGone ==
    ASSUME NEW e, SoundEngine(e), NEW o \in OpenOrder,
           NEW left \in Traces(o, e.index[Opposite(o.side)]),
           NEW i \in 1 .. Len(e.index[Opposite(o.side)]), left[i] > 0,
           Match(o, e.index[Opposite(o.side)][i]),
           NEW x \in UpdateOrders(e.orders[Opposite(o.side)], e.index[Opposite(o.side)], left)
    PROVE  x.id # e.index[Opposite(o.side)][i].id
<1> DEFINE opp == Opposite(o.side)
           orders == e.orders[opp]
           ix == e.index[opp]
           after(j) == WithFill(ix[j], left[j-1] - left[j])
<1>1. opp \in Sides
  BY OpenOrderFacts, OrderFacts
<1>2. /\ orders \in SUBSET OpenOrder /\ IsFiniteSet(orders)
      /\ \A y, z \in orders : y.id = z.id => y = z
      /\ ix \in PriceIndexes(orders)
  BY <1>1 DEF SoundEngine
<1>3. /\ ix \in Seq(OpenOrder) /\ Len(ix) \in Nat
      /\ \A j \in 1 .. Len(ix) : ix[j] \in orders
      /\ \A j, k \in 1 .. Len(ix) : j < k => ix[j].price < ix[k].price
  BY <1>2, IndexType
<1>4. /\ left[i-1] - left[i] = RemainingQuantity(ix[i])
      /\ left[i-1] \in Nat /\ left[i] \in Nat
      /\ RemainingQuantity(ix[i]) \in Nat /\ RemainingQuantity(ix[i]) > 0
  BY <1>3, Exhausted, TraceFacts, OpenOrderFacts
<1>5. i \in Hits(left)
  BY <1>3, <1>4, TraceFacts DEF Hits
<1>6. Completed(after(i))
  BY <1>3, <1>4, WithFillFacts
<1>7. CASE x \in orders /\ \A j \in Hits(left) : ix[j].id # x.id
  BY <1>5, <1>7
<1>8. CASE \E j \in Hits(left) : x = after(j) /\ ~Completed(after(j))
  <2>1. PICK j \in Hits(left) : x = after(j) /\ ~Completed(after(j))
    BY <1>8
  <2>2. j \in 1 .. Len(ix)
    BY <1>3, TraceFacts DEF Hits
  <2>3. x.id = ix[j].id
    BY <1>3, <2>1, <2>2, TraceFacts, WithFillFacts
  <2>4. SUFFICES ASSUME x.id = ix[i].id PROVE FALSE
    OBVIOUS
  <2>5. ix[i] = ix[j]
    BY <1>2, <1>3, <2>2, <2>3, <2>4
  <2>6. i = j
    <3>1. ix[i].price \in Nat /\ ix[j].price \in Nat
      BY <1>2, <1>3, <2>2, OpenOrderFacts, OrderFacts
    <3>2. ~(i < j) /\ ~(j < i)
      BY <1>3, <2>2, <2>5, <3>1
    <3>3. QED
      BY <1>3, <2>2, <3>2
  <2>7. QED
    BY <1>6, <2>1, <2>6
<1>9. QED
  BY <1>7, <1>8 DEF UpdateOrders

(* Every result of a call comes from one trace of the loop.                *)
LEMMA ResultFacts ==
    ASSUME NEW e, NEW o \in OpenOrder, NEW r \in Results(e, o)
    PROVE  LET opp == Opposite(o.side) IN
           \E left \in Traces(o, e.index[opp]) :
              /\ r.trades = TradesOf(o, e.index[opp], left)
              /\ r.engine \in [orders : {r.engine.orders}, index : {r.engine.index}]
              /\ r.engine.orders[o.side] = Rested(e, o, left)
              /\ r.engine.orders[opp] = UpdateOrders(e.orders[opp], e.index[opp], left)
              /\ r.engine.index[o.side] \in
                    Reindexed(e.orders[o.side], r.engine.orders[o.side], e.index[o.side])
              /\ r.engine.index[opp] \in
                    Reindexed(e.orders[opp], r.engine.orders[opp], e.index[opp])
              /\ r.engine.orders = [s \in Sides |-> r.engine.orders[s]]
              /\ r.engine.index = [s \in Sides |-> r.engine.index[s]]
<1> DEFINE opp == Opposite(o.side)
           ix == e.index[opp]
           result(left, own, opposite, ownIx, oppIx) ==
              [trades |-> TradesOf(o, ix, left),
               engine |-> [orders |-> [s \in Sides |-> IF s = opp THEN opposite ELSE own],
                           index |-> [s \in Sides |-> IF s = opp THEN oppIx ELSE ownIx]]]
<1>1. PICK left \in Traces(o, ix) :
         \E ownIx \in Reindexed(e.orders[o.side], Rested(e, o, left), e.index[o.side]),
            oppIx \in Reindexed(e.orders[opp], UpdateOrders(e.orders[opp], ix, left), ix) :
              r = result(left, Rested(e, o, left), UpdateOrders(e.orders[opp], ix, left),
                         ownIx, oppIx)
  BY DEF Results
<1>2. o.side \in Sides /\ opp \in Sides /\ o.side # opp
  BY OpenOrderFacts, OrderFacts
<1>3. QED
  BY <1>1, <1>2

(* Of these, what the open orders of the two sides become.                 *)
LEMMA ResultOrders ==
    ASSUME NEW e, NEW o \in OpenOrder, NEW r \in Results(e, o)
    PROVE  LET opp == Opposite(o.side) IN
           \E left \in Traces(o, e.index[opp]) :
              /\ r.engine.orders[o.side] = Rested(e, o, left)
              /\ r.engine.orders[opp] = UpdateOrders(e.orders[opp], e.index[opp], left)
<1> DEFINE opp == Opposite(o.side)
<1>1. PICK left \in Traces(o, e.index[opp]) :
              /\ r.trades = TradesOf(o, e.index[opp], left)
              /\ r.engine \in [orders : {r.engine.orders}, index : {r.engine.index}]
              /\ r.engine.orders[o.side] = Rested(e, o, left)
              /\ r.engine.orders[opp] = UpdateOrders(e.orders[opp], e.index[opp], left)
              /\ r.engine.index[o.side] \in
                    Reindexed(e.orders[o.side], r.engine.orders[o.side], e.index[o.side])
              /\ r.engine.index[opp] \in
                    Reindexed(e.orders[opp], r.engine.orders[opp], e.index[opp])
              /\ r.engine.orders = [s \in Sides |-> r.engine.orders[s]]
              /\ r.engine.index = [s \in Sides |-> r.engine.index[s]]
  BY ResultFacts
<1>2. QED
  BY <1>1

(* A call leaves the engine sound, and every open order is one that was    *)
(* open before, or the incoming one, at the same price.                    *)
LEMMA ResultsSound ==
    ASSUME NEW e, SoundEngine(e), NEW o \in OpenOrder, ~ContainsKey(e.orders[o.side], o.id),
           NEW r \in Results(e, o)
    PROVE  /\ SoundEngine(r.engine)
           /\ r.trades \in Seq(Trade)
           /\ \A s \in Sides : \A x \in r.engine.orders[s] :
                 \E y \in e.orders[s] \cup (IF s = o.side THEN {o} ELSE {}) :
                    y.id = x.id /\ y.price = x.price /\ y.qty = x.qty
<1> DEFINE opp == Opposite(o.side)
<1>1. o.side \in Sides /\ opp \in Sides /\ o.side # opp /\ Sides = {o.side, opp}
  BY OpenOrderFacts, OrderFacts DEF Sides
<1>2. PICK left \in Traces(o, e.index[opp]) :
              /\ r.trades = TradesOf(o, e.index[opp], left)
              /\ r.engine \in [orders : {r.engine.orders}, index : {r.engine.index}]
              /\ r.engine.orders[o.side] = Rested(e, o, left)
              /\ r.engine.orders[opp] = UpdateOrders(e.orders[opp], e.index[opp], left)
              /\ r.engine.index[o.side] \in
                    Reindexed(e.orders[o.side], r.engine.orders[o.side], e.index[o.side])
              /\ r.engine.index[opp] \in
                    Reindexed(e.orders[opp], r.engine.orders[opp], e.index[opp])
              /\ r.engine.orders = [s \in Sides |-> r.engine.orders[s]]
              /\ r.engine.index = [s \in Sides |-> r.engine.index[s]]
  BY ResultFacts
<1>3. \A s \in Sides :
         /\ e.orders[s] \in SUBSET OpenOrder /\ IsFiniteSet(e.orders[s])
         /\ \A x \in e.orders[s] : x.side = s
         /\ \A x, y \in e.orders[s] : x.id = y.id => x = y
         /\ e.index[s] \in PriceIndexes(e.orders[s])
  BY DEF SoundEngine
<1>4. /\ r.engine.orders[opp] \in SUBSET OpenOrder /\ IsFiniteSet(r.engine.orders[opp])
      /\ \A x \in r.engine.orders[opp] :
            /\ x.side = opp
            /\ \E y \in e.orders[opp] : y.id = x.id /\ y.price = x.price /\ y.qty = x.qty
      /\ \A x, y \in r.engine.orders[opp] : x.id = y.id => x = y
  BY <1>1, <1>2, <1>3, UpdateOrdersSound
<1>5. /\ r.engine.orders[o.side] \in SUBSET OpenOrder /\ IsFiniteSet(r.engine.orders[o.side])
      /\ \A x \in r.engine.orders[o.side] :
            /\ x.side = o.side
            /\ \E y \in e.orders[o.side] \cup {o} :
                  y.id = x.id /\ y.price = x.price /\ y.qty = x.qty
      /\ \A x, y \in r.engine.orders[o.side] : x.id = y.id => x = y
  BY <1>1, <1>2, <1>3, RestedSound
<1>6. /\ r.engine.index[o.side] \in PriceIndexes(r.engine.orders[o.side])
      /\ r.engine.index[opp] \in PriceIndexes(r.engine.orders[opp])
  BY <1>1, <1>2, <1>3, ReindexedSound
<1>7. \A s \in Sides : r.engine.index[s] \in Seq(OpenOrder)
  BY <1>1, <1>4, <1>5, <1>6, IndexType
<1>8. SoundEngine(r.engine)
  <2> DEFINE orders == r.engine.orders
             index == r.engine.index
  <2>1. orders \in [Sides -> SUBSET OpenOrder]
    BY <1>1, <1>2, <1>4, <1>5
  <2>2. index \in [Sides -> Seq(OpenOrder)]
    BY <1>2, <1>7
  <2>3. r.engine \in [orders : [Sides -> SUBSET OpenOrder], index : [Sides -> Seq(OpenOrder)]]
    BY <1>2, <2>1, <2>2
  <2>4. QED
    BY <1>1, <1>4, <1>5, <1>6, <2>3 DEF SoundEngine
<1>9. r.trades \in Seq(Trade)
  <2>1. e.index[opp] \in Seq(OpenOrder)
    BY <1>1 DEF SoundEngine
  <2>2. QED
    BY <1>2, <2>1, TradesType
<1>10. QED
  BY <1>1, <1>4, <1>5, <1>8, <1>9

-----------------------------------------------------------------------------
(* What a call fills its orders for *)

(* What is left of the incoming order does not change where it trades with *)
(* nothing.                                                                *)
LEMMA LeftStays ==
    ASSUME NEW o \in OpenOrder, NEW ix \in Seq(OpenOrder), NEW left \in Traces(o, ix),
           NEW i \in 0 .. Len(ix), NEW j \in i .. Len(ix),
           \A k \in i + 1 .. j : k \notin Hits(left)
    PROVE  left[j] = left[i]
<1> DEFINE Changed == {k \in i .. j : left[k] # left[i]}
<1>1. Len(ix) \in Nat /\ i \in Nat /\ j \in Nat /\ i <= j /\ j <= Len(ix)
  OBVIOUS
<1>2. Changed = {}
  <2> SUFFICES ASSUME Changed # {} PROVE FALSE
    OBVIOUS
  <2>1. Changed \in SUBSET Nat
    BY <1>1
  <2>2. PICK k \in Changed : \A x \in Changed : k <= x
    BY <2>1, LeastElement
  <2>3. k # i /\ k \in i .. j
    BY <2>2
  <2>4. k \in i + 1 .. j /\ k - 1 \in i .. j /\ ~(k <= k - 1)
    BY <1>1, <2>3
  <2>5. k - 1 \notin Changed
    BY <2>2, <2>4
  <2>6. left[k] # left[k-1]
    BY <2>2, <2>4, <2>5
  <2>7. k \in DOMAIN left \ {0}
    BY <1>1, <2>4, TraceFacts
  <2>8. QED
    BY <2>4, <2>6, <2>7 DEF Hits
<1>3. j \in i .. j
  BY <1>1
<1>4. QED
  BY <1>2, <1>3

(* The amounts an order gets from trades.                                  *)
LEMMA FillsOfFacts ==
    ASSUME NEW id, NEW trades \in Seq(Trade)
    PROVE  /\ FillsOf(id, trades) \in Seq(Nat) /\ Len(FillsOf(id, trades)) = Len(trades)
           /\ \A k \in 1 .. Len(trades) :
                 FillsOf(id, trades)[k] =
                    IF id \in {trades[k].buy, trades[k].sell} THEN trades[k].qty ELSE 0
<1> DEFINE n == Len(trades)
<1>1. n \in Nat /\ DOMAIN trades = 1 .. n /\ \A k \in 1 .. n : trades[k] \in Trade
  OBVIOUS
<1>2. \A k \in 1 .. n : trades[k].qty \in Nat
  BY <1>1 DEF Trade
<1> HIDE DEF n
<1>3. FillsOf(id, trades) =
         [k \in 1 .. n |-> IF id \in {trades[k].buy, trades[k].sell} THEN trades[k].qty ELSE 0]
  BY <1>1 DEF FillsOf
<1>4. FillsOf(id, trades) \in [1 .. n -> Nat]
  BY <1>2, <1>3
<1>5. FillsOf(id, trades) \in Seq(Nat) /\ Len(FillsOf(id, trades)) = n
  BY <1>1, <1>4
<1>6. QED
  BY <1>3, <1>5 DEF n

(* The parts of a trade.                                                   *)
LEMMA FillOrdersFacts ==
    ASSUME NEW o
    PROVE  \A x, sold : /\ FillOrders(o, x, sold).qty = sold
                        /\ o.id \in {FillOrders(o, x, sold).buy, FillOrders(o, x, sold).sell}
                        /\ {FillOrders(o, x, sold).buy, FillOrders(o, x, sold).sell} = {o.id, x.id}
BY DEF FillOrders

(* The incoming order is filled for what the call takes off it.            *)
LEMMA IncomingIsFilled ==
    ASSUME NEW o \in OpenOrder, NEW orders \in SUBSET OpenOrder, IsFiniteSet(orders),
           NEW ix \in PriceIndexes(orders), NEW left \in Traces(o, ix)
    PROVE  Total(FillsOf(o.id, TradesOf(o, ix, left))) = RemainingQuantity(o) - left[Len(ix)]
<1> DEFINE n == Len(ix)
           trades == TradesOf(o, ix, left)
           c == Len(trades)
           w == FillsOf(o.id, trades)
<1>1. ix \in Seq(OpenOrder) /\ n \in Nat
  BY IndexType
<1>2. PICK m \in 1 .. n + 1 :
         /\ c \in Nat /\ m + c - 1 \in 0 .. n
         /\ Hits(left) = m .. m + c - 1
         /\ \A k \in 1 .. c :
               trades[k] = FillOrders(o, ix[m+k-1], left[m+k-2] - left[m+k-1])
  BY TradeList
<1>3. trades \in Seq(Trade)
  BY <1>1, TradesType
<1>4. Len(w) = c /\ \A k \in 1 .. c :
         w[k] = IF o.id \in {trades[k].buy, trades[k].sell} THEN trades[k].qty ELSE 0
  BY <1>3, FillsOfFacts
<1> DEFINE f == [k \in 0 .. c |-> left[m-1] - left[m+k-1]]
<1>5. \A i \in 0 .. n : left[i] \in Nat
  BY <1>1, TraceFacts, OpenOrderFacts
<1>6. left[0] = RemainingQuantity(o)
  BY DEF Traces
<1> HIDE DEF trades, c, w, n
<1>7. ASSUME NEW k \in 1 .. c PROVE f[k] = f[k-1] + w[k]
  <2>1. /\ k \in 0 .. c /\ k - 1 \in 0 .. c /\ m + (k - 1) - 1 = m + k - 2
        /\ m + k - 2 \in 0 .. n /\ m + k - 1 \in 0 .. n /\ m - 1 \in 0 .. n
    BY <1>1, <1>2
  <2>2. trades[k] = FillOrders(o, ix[m+k-1], left[m+k-2] - left[m+k-1])
    BY <1>2
  <2>3. w[k] = left[m+k-2] - left[m+k-1]
    <3>1. trades[k].qty = left[m+k-2] - left[m+k-1] /\ o.id \in {trades[k].buy, trades[k].sell}
      <4>1. \A x, sold : /\ FillOrders(o, x, sold).qty = sold
                         /\ o.id \in {FillOrders(o, x, sold).buy, FillOrders(o, x, sold).sell}
        BY FillOrdersFacts
      <4>2. QED
        BY <2>2, <4>1
    <3>2. w[k] = trades[k].qty
      BY <1>4, <3>1
    <3>3. QED
      BY <3>1, <3>2
  <2>4. f[k] = left[m-1] - left[m+k-1] /\ f[k-1] = left[m-1] - left[m+k-2]
    BY <2>1
  <2>5. left[m-1] \in Nat /\ left[m+k-1] \in Nat /\ left[m+k-2] \in Nat
    BY <1>5, <2>1
  <2> HIDE DEF f
  <2>6. QED
    BY <2>3, <2>4, <2>5
<1>8. f[0] = 0 /\ f[c] = left[m-1] - left[m+c-1]
  <2>1. 0 \in 0 .. c /\ c \in 0 .. c /\ m + 0 - 1 = m - 1 /\ m - 1 \in 0 .. n
    BY <1>1, <1>2
  <2>2. left[m-1] \in Nat
    BY <1>5, <2>1
  <2>3. f[0] = left[m-1] - left[m+0-1]
    BY <2>1
  <2>4. f[0] = 0
    BY <2>1, <2>2, <2>3
  <2>5. QED
    BY <2>1, <2>4
<1>9. Total(w) = left[m-1] - left[m+c-1]
  <2> HIDE DEF f
  <2>1. QED
    BY <1>2, <1>4, <1>7, <1>8, TotalIs
<1>10. left[m-1] = left[0]
  <2>1. /\ 0 \in 0 .. Len(ix) /\ m - 1 \in 0 .. Len(ix)
        /\ \A k \in 0 + 1 .. m - 1 : k \notin Hits(left)
    BY <1>1, <1>2 DEF n
  <2>2. QED
    BY <1>1, <2>1, LeftStays
<1>11. left[m+c-1] = left[n]
  <2>1. /\ m + c - 1 \in 0 .. Len(ix) /\ n \in m + c - 1 .. Len(ix)
        /\ \A k \in (m + c - 1) + 1 .. n : k \notin Hits(left)
    BY <1>1, <1>2 DEF n
  <2>2. QED
    BY <1>1, <2>1, LeftStays
<1>12. QED
  BY <1>6, <1>9, <1>10, <1>11 DEF n, w, trades

(* An order of the index is filled for what the incoming order takes from  *)
(* it, another one for nothing.                                            *)
LEMMA EntryIsFilled ==
    ASSUME NEW o \in OpenOrder, NEW orders \in SUBSET OpenOrder, IsFiniteSet(orders),
           \A x, y \in orders : x.id = y.id => x = y,
           NEW ix \in PriceIndexes(orders), NEW left \in Traces(o, ix),
           NEW id, id # o.id
    PROVE  LET total == Total(FillsOf(id, TradesOf(o, ix, left))) IN
           /\ \A i \in Hits(left) : ix[i].id = id => total = left[i-1] - left[i]
           /\ (\A i \in Hits(left) : ix[i].id # id) => total = 0
<1> DEFINE n == Len(ix)
           trades == TradesOf(o, ix, left)
           c == Len(trades)
           w == FillsOf(id, trades)
<1>1. /\ ix \in Seq(OpenOrder) /\ n \in Nat
      /\ \A i \in 1 .. n : ix[i] \in orders
      /\ \A i, j \in 1 .. n : i < j => ix[i].price < ix[j].price
  BY IndexType
<1>2. PICK m \in 1 .. n + 1 :
         /\ c \in Nat /\ m + c - 1 \in 0 .. n
         /\ Hits(left) = m .. m + c - 1
         /\ \A k \in 1 .. c :
               trades[k] = FillOrders(o, ix[m+k-1], left[m+k-2] - left[m+k-1])
  BY TradeList
<1>3. trades \in Seq(Trade)
  BY <1>1, TradesType
<1>4. Len(w) = c /\ \A k \in 1 .. c :
         w[k] = IF id \in {trades[k].buy, trades[k].sell} THEN trades[k].qty ELSE 0
  BY <1>3, FillsOfFacts
<1>5. \A i \in 0 .. n : left[i] \in Nat
  BY <1>1, TraceFacts, OpenOrderFacts
<1> HIDE DEF trades, c, w, n
<1>6. \A k \in 1 .. c :
         w[k] = IF ix[m+k-1].id = id THEN left[m+k-2] - left[m+k-1] ELSE 0
  <2> SUFFICES ASSUME NEW k \in 1 .. c
               PROVE  w[k] = IF ix[m+k-1].id = id THEN left[m+k-2] - left[m+k-1] ELSE 0
    OBVIOUS
  <2>1. trades[k] = FillOrders(o, ix[m+k-1], left[m+k-2] - left[m+k-1])
    BY <1>2
  <2>2. trades[k].qty = left[m+k-2] - left[m+k-1]
        /\ {trades[k].buy, trades[k].sell} = {o.id, ix[m+k-1].id}
    BY <2>1, FillOrdersFacts
  <2>3. QED
    BY <1>4, <2>2
<1>7. ASSUME NEW i \in Hits(left), ix[i].id = id
      PROVE  Total(w) = left[i-1] - left[i]
  <2> DEFINE k == i - m + 1
  <2>1. i \in 1 .. n /\ k \in 1 .. c /\ m + k - 1 = i /\ m + k - 2 = i - 1
    BY <1>1, <1>2
  <2>2. w[k] = left[i-1] - left[i]
    BY <1>6, <1>7, <2>1
  <2>3. ASSUME NEW j \in 1 .. c, j # k PROVE w[j] = 0
    <3>1. m + j - 1 \in 1 .. n /\ m + j - 1 # i
      BY <1>1, <1>2, <2>1, <2>3
    <3> DEFINE l == m + j - 1
    <3>2. ix[l] # ix[i]
      <4>1. ix[l].price \in Nat /\ ix[i].price \in Nat
        BY <1>1, <2>1, <3>1, OpenOrderFacts, OrderFacts
      <4>2. l < i \/ i < l
        BY <2>1, <3>1
      <4> HIDE DEF l
      <4>3. l \in 1 .. n
        BY <3>1 DEF l
      <4>4. ix[l].price < ix[i].price \/ ix[i].price < ix[l].price
        BY <1>1, <2>1, <4>2, <4>3
      <4>5. QED
        BY <4>1, <4>4
    <3>3. ix[l].id # id
      BY <1>1, <1>7, <2>1, <3>1, <3>2
    <3>4. QED
      BY <1>6, <3>3
  <2>4. left[i-1] - left[i] \in Nat
    <3>1. left[i-1] \in Nat /\ left[i] \in Nat /\ left[i] <= left[i-1]
      BY <1>1, <2>1, TraceFacts DEF n
    <3>2. QED
      BY <3>1
  <2> HIDE DEF k
  <2>5. /\ Len(w) \in Nat /\ k \in 1 .. Len(w) /\ w[k] \in Nat
        /\ \A j \in 1 .. Len(w) : j # k => w[j] = 0
    BY <1>2, <1>4, <2>1, <2>2, <2>3, <2>4
  <2>6. Total(w) = w[k]
    BY <2>5, TotalOne
  <2>7. QED
    BY <2>2, <2>6
<1>8. ASSUME \A i \in Hits(left) : ix[i].id # id
      PROVE  Total(w) = 0
  <2>1. \A k \in 1 .. c : w[k] = 0
    <3> SUFFICES ASSUME NEW k \in 1 .. c PROVE w[k] = 0
      OBVIOUS
    <3>1. m + k - 1 \in Hits(left)
      BY <1>2
    <3>2. QED
      BY <1>6, <1>8, <3>1
  <2>2. QED
    BY <1>2, <1>4, <2>1, TotalZero
<1>9. QED
  BY <1>7, <1>8 DEF w, trades

(* No id is open twice.                                                    *)
OpenOnce(e) ==
    \A x, y \in e.orders["Buy"] \cup e.orders["Sell"] : x.id = y.id => x = y

(* What is left of an id that is open, and of one that is not.             *)
LEMMA LeftOpenFacts ==
    ASSUME NEW e, OpenOnce(e), NEW id
    PROVE  /\ \A s \in Sides : \A x \in e.orders[s] :
                 x.id = id => LeftOpen(e, id) = RemainingQuantity(x)
           /\ (\A s \in Sides : \A x \in e.orders[s] : x.id # id) => LeftOpen(e, id) = 0
<1> DEFINE open == e.orders["Buy"] \cup e.orders["Sell"]
           found == {x \in open : x.id = id}
<1>1. \A s \in Sides : \A x \in e.orders[s] : x \in open
  BY DEF Sides
<1>2. "Buy" \in Sides /\ "Sell" \in Sides
  BY DEF Sides
<1>3. LeftOpen(e, id) = IF found = {} THEN 0 ELSE RemainingQuantity(CHOOSE x \in found : TRUE)
  BY DEF LeftOpen
<1>4. \A x, y \in open : x.id = y.id => x = y
  BY DEF OpenOnce
<1>5. ASSUME NEW x \in open, x.id = id PROVE LeftOpen(e, id) = RemainingQuantity(x)
  <2>1. x \in found /\ \A y \in found : y = x
    BY <1>4, <1>5
  <2> HIDE DEF found
  <2>2. (CHOOSE y \in found : TRUE) = x
    BY <2>1
  <2>3. QED
    BY <1>3, <2>1, <2>2
<1>6. ASSUME \A x \in open : x.id # id PROVE LeftOpen(e, id) = 0
  <2>1. found = {}
    BY <1>6
  <2>2. QED
    BY <1>3, <2>1
<1>7. QED
  BY <1>1, <1>2, <1>5, <1>6

(* It is a whole quantity.                                                 *)
LEMMA LeftOpenType ==
    ASSUME NEW e, SoundEngine(e), OpenOnce(e), NEW id
    PROVE  LeftOpen(e, id) \in Nat
<1>1. CASE \E s \in Sides : \E x \in e.orders[s] : x.id = id
  <2>1. PICK s \in Sides : \E x \in e.orders[s] : x.id = id
    BY <1>1
  <2>2. PICK x \in e.orders[s] : x.id = id
    BY <2>1
  <2>3. RemainingQuantity(x) \in Nat
    BY OpenOrderFacts DEF SoundEngine
  <2>4. QED
    BY <2>2, <2>3, LeftOpenFacts
<1>2. CASE ~ \E s \in Sides : \E x \in e.orders[s] : x.id = id
  BY <1>2, LeftOpenFacts
<1>3. QED
  BY <1>1, <1>2

(* What an order is filled for by trades and then by more of them.         *)
LEMMA TotalFills ==
    ASSUME NEW id, NEW old \in Seq(Trade), NEW new \in Seq(Trade)
    PROVE  /\ Total(FillsOf(id, old)) \in Nat /\ Total(FillsOf(id, new)) \in Nat
           /\ Total(FillsOf(id, old \o new)) = Total(FillsOf(id, old)) + Total(FillsOf(id, new))
<1> DEFINE m == Len(old)
           n == Len(new)
           v == FillsOf(id, old)
           w == FillsOf(id, new)
<1>1. /\ v \in Seq(Nat) /\ Len(v) = m /\ w \in Seq(Nat) /\ Len(w) = n
      /\ m \in Nat /\ n \in Nat
  BY FillsOfFacts
<1> DEFINE both == old \o new
           sum == FillsOf(id, both)
<1>2. /\ both \in Seq(Trade) /\ Len(both) = m + n
      /\ \A k \in 1 .. m + n : both[k] = IF k <= m THEN old[k] ELSE new[k-m]
  OBVIOUS
<1>3. /\ \A k \in 1 .. m : v[k] = IF id \in {old[k].buy, old[k].sell} THEN old[k].qty ELSE 0
      /\ \A k \in 1 .. n : w[k] = IF id \in {new[k].buy, new[k].sell} THEN new[k].qty ELSE 0
  BY FillsOfFacts
<1> HIDE DEF m, n, v, w, both
<1>4. /\ sum \in Seq(Nat) /\ Len(sum) = m + n
      /\ \A k \in 1 .. m + n :
            sum[k] = IF id \in {both[k].buy, both[k].sell} THEN both[k].qty ELSE 0
  BY <1>2, FillsOfFacts
<1> HIDE DEF sum
<1>5. /\ v \o w \in Seq(Nat) /\ Len(v \o w) = m + n
      /\ \A k \in 1 .. m + n : (v \o w)[k] = IF k <= m THEN v[k] ELSE w[k-m]
  <2>1. /\ v \o w \in Seq(Nat) /\ Len(v \o w) = Len(v) + Len(w)
        /\ \A k \in 1 .. Len(v) + Len(w) :
              (v \o w)[k] = IF k <= Len(v) THEN v[k] ELSE w[k-Len(v)]
    <3>1. v \in Seq(Nat) /\ w \in Seq(Nat)
      BY <1>1
    <3>2. QED
      BY <3>1
  <2>2. QED
    BY <1>1, <2>1
<1>6. ASSUME NEW k \in 1 .. m + n
      PROVE  sum[k] = (v \o w)[k]
  <2>1. CASE k <= m
    <3>1. k \in 1 .. m
      BY <1>1, <2>1
    <3>2. both[k] = old[k] /\ (v \o w)[k] = v[k]
      BY <1>2, <1>5, <2>1
    <3>3. QED
      BY <1>3, <1>4, <3>1, <3>2
  <2>2. CASE ~(k <= m)
    <3>1. k - m \in 1 .. n
      BY <1>1, <2>2
    <3>2. both[k] = new[k-m] /\ (v \o w)[k] = w[k-m]
      BY <1>2, <1>5, <2>2
    <3>3. QED
      BY <1>3, <1>4, <3>1, <3>2
  <2>3. QED
    BY <2>1, <2>2
<1>7. FillsOf(id, old \o new) = v \o w
  <2> DEFINE vw == v \o w
  <2>1. vw \in Seq(Nat) /\ Len(vw) = m + n /\ \A k \in 1 .. m + n : sum[k] = vw[k]
    BY <1>5, <1>6
  <2> HIDE DEF vw
  <2>2. sum = vw
    BY <1>4, <2>1, SeqEqual
  <2>3. QED
    BY <2>2 DEF sum, both, vw
<1>8. Total(v \o w) = Total(v) + Total(w) /\ Total(v) \in Nat /\ Total(w) \in Nat
  BY <1>1, TotalConcat, TotalType
<1>9. QED
  BY <1>7, <1>8 DEF v, w

(* A call opens no id twice.                                               *)
LEMMA CallOpensOnce ==
    ASSUME NEW e, SoundEngine(e), OpenOnce(e), NEW o \in OpenOrder,
           \A s \in Sides : ~ContainsKey(e.orders[s], o.id), NEW r \in Results(e, o)
    PROVE  OpenOnce(r.engine)
<1>1. o.side \in Sides /\ "Buy" \in Sides /\ "Sell" \in Sides /\ "Buy" # "Sell"
      /\ Sides = {"Buy", "Sell"}
  BY OpenOrderFacts, OrderFacts DEF Sides
<1>2. SoundEngine(e) /\ SoundEngine(r.engine)
  BY <1>1, ResultsSound
<1>3. \A s \in Sides : \A x \in r.engine.orders[s] :
         \E y \in e.orders[s] \cup (IF s = o.side THEN {o} ELSE {}) : y.id = x.id
  BY <1>1, ResultsSound
<1>4. \A s \in Sides : /\ \A x \in e.orders[s] : x.side = s /\ x.id # o.id
                       /\ \A x, y \in r.engine.orders[s] : x.id = y.id => x = y
  BY <1>2 DEF SoundEngine, ContainsKey
<1>5. ASSUME NEW x \in r.engine.orders["Buy"], NEW y \in r.engine.orders["Sell"]
      PROVE  x.id # y.id
  <2>1. PICK x0 \in e.orders["Buy"] \cup (IF "Buy" = o.side THEN {o} ELSE {}) : x0.id = x.id
    BY <1>1, <1>3
  <2>2. PICK y0 \in e.orders["Sell"] \cup (IF "Sell" = o.side THEN {o} ELSE {}) : y0.id = y.id
    BY <1>1, <1>3
  <2>3. CASE x0 \in e.orders["Buy"] /\ y0 \in e.orders["Sell"]
    BY <1>1, <1>4, <2>1, <2>2, <2>3 DEF OpenOnce
  <2>4. CASE x0 \in e.orders["Buy"] /\ y0 = o
    BY <1>1, <1>4, <2>1, <2>2, <2>4
  <2>5. CASE x0 = o /\ y0 \in e.orders["Sell"]
    BY <1>1, <1>4, <2>1, <2>2, <2>5
  <2>6. QED
    BY <1>1, <2>1, <2>2, <2>3, <2>4, <2>5
<1>6. QED
  BY <1>1, <1>4, <1>5 DEF OpenOnce

(* The accounts of a call: of every order, what it is filled for is what   *)
(* is gone of it.                                                          *)
LEMMA CallAccounts ==
    ASSUME NEW e, SoundEngine(e), OpenOnce(e), NEW o \in OpenOrder,
           \A s \in Sides : ~ContainsKey(e.orders[s], o.id), NEW r \in Results(e, o), NEW id
    PROVE  LeftOpen(r.engine, id) + Total(FillsOf(id, r.trades))
              = LeftOpen(e, id) + (IF id = o.id THEN RemainingQuantity(o) ELSE 0)
<1> DEFINE opp == Opposite(o.side)
           ix == e.index[opp]
           orders == e.orders[opp]
<1>1. o.side \in Sides /\ opp \in Sides /\ o.side # opp /\ Sides = {o.side, opp}
  BY OpenOrderFacts, OrderFacts DEF Sides
<1>2. PICK left \in Traces(o, ix) :
              /\ r.trades = TradesOf(o, e.index[opp], left)
              /\ r.engine \in [orders : {r.engine.orders}, index : {r.engine.index}]
              /\ r.engine.orders[o.side] = Rested(e, o, left)
              /\ r.engine.orders[opp] = UpdateOrders(e.orders[opp], e.index[opp], left)
              /\ r.engine.index[o.side] \in
                    Reindexed(e.orders[o.side], r.engine.orders[o.side], e.index[o.side])
              /\ r.engine.index[opp] \in
                    Reindexed(e.orders[opp], r.engine.orders[opp], e.index[opp])
              /\ r.engine.orders = [s \in Sides |-> r.engine.orders[s]]
              /\ r.engine.index = [s \in Sides |-> r.engine.index[s]]
  BY ResultFacts
<1>3. /\ orders \in SUBSET OpenOrder /\ IsFiniteSet(orders)
      /\ \A x, y \in orders : x.id = y.id => x = y
      /\ ix \in PriceIndexes(orders)
  BY <1>1 DEF SoundEngine
<1>4. /\ ix \in Seq(OpenOrder) /\ Len(ix) \in Nat
      /\ \A j \in 1 .. Len(ix) : ix[j] \in orders
  BY <1>3, IndexType
<1>5. OpenOnce(r.engine)
  BY CallOpensOnce
<1>6. \A s \in Sides : \A x \in e.orders[s] : x \in OpenOrder /\ x.id # o.id
  BY DEF SoundEngine, ContainsKey
<1>7. Hits(left) \subseteq 1 .. Len(ix)
  BY <1>4, TraceFacts DEF Hits
<1> DEFINE after(i) == WithFill(ix[i], left[i-1] - left[i])
           new == UpdateOrders(orders, ix, left)
<1>8. \A i \in Hits(left) : /\ ix[i] \in orders /\ left[i-1] - left[i] \in 0 .. RemainingQuantity(ix[i])
                            /\ after(i).id = ix[i].id
                            /\ RemainingQuantity(after(i)) = RemainingQuantity(ix[i]) - (left[i-1] - left[i])
                            /\ (Completed(after(i)) <=> RemainingQuantity(after(i)) = 0)
  <2> SUFFICES ASSUME NEW i \in Hits(left)
               PROVE  /\ ix[i] \in orders /\ left[i-1] - left[i] \in 0 .. RemainingQuantity(ix[i])
                      /\ after(i).id = ix[i].id
                      /\ RemainingQuantity(after(i)) = RemainingQuantity(ix[i]) - (left[i-1] - left[i])
                      /\ (Completed(after(i)) <=> RemainingQuantity(after(i)) = 0)
    OBVIOUS
  <2>1. ix[i] \in orders /\ ix[i] \in OpenOrder /\ left[i-1] - left[i] \in 0 .. RemainingQuantity(ix[i])
    BY <1>3, <1>4, <1>7, TraceFacts
  <2>2. /\ after(i).id = ix[i].id /\ after(i).qty = ix[i].qty
        /\ after(i).filled = ix[i].filled + (left[i-1] - left[i])
    BY <2>1, WithFillFacts
  <2>3. ix[i].qty \in Nat /\ ix[i].filled \in Nat /\ left[i-1] - left[i] \in Int
    BY <2>1, OpenOrderFacts, OrderFacts
  <2> HIDE DEF after
  <2>4. RemainingQuantity(after(i)) = RemainingQuantity(ix[i]) - (left[i-1] - left[i])
    BY <2>2, <2>3 DEF RemainingQuantity
  <2>5. Completed(after(i)) <=> RemainingQuantity(after(i)) = 0
    BY <2>2, <2>3 DEF RemainingQuantity, Completed
  <2>6. QED
    BY <2>1, <2>2, <2>4, <2>5
<1>9. \A x : x \in new <=> \/ x \in orders /\ \A i \in Hits(left) : ix[i].id # x.id
                           \/ \E i \in Hits(left) : x = after(i) /\ ~Completed(after(i))
  BY DEF UpdateOrders
<1> DEFINE total == Total(FillsOf(id, r.trades))
<1>10. CASE id = o.id
  <2>1. total = RemainingQuantity(o) - left[Len(ix)]
    BY <1>2, <1>3, <1>10, IncomingIsFilled
  <2>2. LeftOpen(e, id) = 0
    BY <1>6, <1>10, LeftOpenFacts
  <2>3. left[Len(ix)] \in 0 .. RemainingQuantity(o) /\ RemainingQuantity(o) \in Nat
    <3>1. Len(ix) \in 0 .. Len(ix)
      BY <1>4
    <3>2. QED
      BY <1>4, <3>1, TraceFacts, OpenOrderFacts
  <2>4. LeftOpen(r.engine, id) = left[Len(ix)]
    <3>1. \A x \in r.engine.orders[opp] : x.id # o.id
      BY <1>1, <1>2, <1>6, <1>8, <1>9
    <3>2. CASE left[Len(ix)] > 0
      <4> DEFINE rested == WithFill(o, RemainingQuantity(o) - left[Len(ix)])
      <4>1. rested \in r.engine.orders[o.side]
        BY <1>2, <3>2 DEF Rested, Put
      <4>2. RemainingQuantity(o) - left[Len(ix)] \in 0 .. RemainingQuantity(o)
        BY <2>3
      <4>3. /\ rested.id = o.id /\ rested.qty = o.qty
            /\ rested.filled = o.filled + (RemainingQuantity(o) - left[Len(ix)])
        BY <4>2, WithFillFacts
      <4>4. o.qty \in Nat /\ o.filled \in Nat
        BY OpenOrderFacts, OrderFacts
      <4> HIDE DEF rested
      <4>5. RemainingQuantity(rested) = left[Len(ix)]
        BY <2>3, <4>3, <4>4 DEF RemainingQuantity
      <4>6. QED
        BY <1>1, <1>5, <1>10, <4>1, <4>3, <4>5, LeftOpenFacts
    <3>3. CASE ~(left[Len(ix)] > 0)
      <4>1. left[Len(ix)] = 0
        BY <2>3, <3>3
      <4>2. r.engine.orders[o.side] = e.orders[o.side]
        BY <1>2, <3>3 DEF Rested
      <4>3. \A s \in Sides : \A x \in r.engine.orders[s] : x.id # id
        BY <1>1, <1>6, <1>10, <3>1, <4>2
      <4>4. QED
        BY <1>5, <4>1, <4>3, LeftOpenFacts
    <3>4. QED
      BY <3>2, <3>3
  <2> HIDE DEF total
  <2>5. QED
    BY <1>10, <2>1, <2>2, <2>3, <2>4 DEF total
<1>11. CASE id # o.id
  <2>1. /\ \A i \in Hits(left) : ix[i].id = id => total = left[i-1] - left[i]
        /\ (\A i \in Hits(left) : ix[i].id # id) => total = 0
    BY <1>2, <1>3, <1>11, EntryIsFilled
  <2>2. \A x : x.id = id => (x \in r.engine.orders[o.side] <=> x \in e.orders[o.side])
    <3>1. CASE left[Len(ix)] > 0
      <4>1. RemainingQuantity(o) - left[Len(ix)] \in 0 .. RemainingQuantity(o)
        <5>1. Len(ix) \in 0 .. Len(ix)
          BY <1>4
        <5>2. left[Len(ix)] \in 0 .. RemainingQuantity(o) /\ RemainingQuantity(o) \in Nat
          BY <1>4, <5>1, TraceFacts, OpenOrderFacts
        <5>3. QED
          BY <5>2
      <4>2. WithFill(o, RemainingQuantity(o) - left[Len(ix)]).id = o.id
        BY <4>1, WithFillFacts
      <4>3. QED
        BY <1>2, <1>11, <3>1, <4>2 DEF Rested, Put
    <3>2. CASE ~(left[Len(ix)] > 0)
      BY <1>2, <3>2 DEF Rested
    <3>3. QED
      BY <3>1, <3>2
  <2>3. CASE \E i \in Hits(left) : ix[i].id = id
    <3>1. PICK i \in Hits(left) : ix[i].id = id
      BY <2>3
    <3>2. total = left[i-1] - left[i]
      BY <2>1, <3>1
    <3>3. LeftOpen(e, id) = RemainingQuantity(ix[i])
      BY <1>1, <1>8, <3>1, LeftOpenFacts
    <3>4. RemainingQuantity(after(i)) = RemainingQuantity(ix[i]) - (left[i-1] - left[i])
      BY <1>8
    <3>5. LeftOpen(r.engine, id) = RemainingQuantity(after(i))
      <4>1. CASE ~Completed(after(i))
        <5>1. after(i) \in r.engine.orders[opp] /\ after(i).id = id
          BY <1>2, <1>8, <1>9, <3>1, <4>1
        <5> HIDE DEF after
        <5>2. QED
          BY <1>1, <1>5, <5>1, LeftOpenFacts
      <4>2. CASE Completed(after(i))
        <5>1. \A x \in r.engine.orders[opp] : x.id # id
          <6> SUFFICES ASSUME NEW x \in r.engine.orders[opp], x.id = id PROVE FALSE
            OBVIOUS
          <6>1. PICK j \in Hits(left) : x = after(j) /\ ~Completed(after(j))
            BY <1>2, <1>9, <3>1
          <6>2. ix[j] = ix[i]
            BY <1>3, <1>8, <3>1, <6>1
          <6>3. i = j
            <7>1. ix[i].price \in Nat /\ i \in 1 .. Len(ix) /\ j \in 1 .. Len(ix)
              BY <1>3, <1>7, <1>8, OpenOrderFacts, OrderFacts
            <7>2. \A k, l \in 1 .. Len(ix) : k < l => ix[k].price < ix[l].price
              BY <1>3, IndexType
            <7>3. ~(i < j) /\ ~(j < i)
              BY <6>2, <7>1, <7>2
            <7>4. QED
              BY <7>1, <7>3
          <6>4. QED
            BY <4>2, <6>1, <6>3
        <5>2. \A x \in r.engine.orders[o.side] : x.id # id
          <6> SUFFICES ASSUME NEW x \in r.engine.orders[o.side], x.id = id PROVE FALSE
            OBVIOUS
          <6>1. x \in e.orders[o.side]
            BY <2>2
          <6>2. x.side = o.side /\ ix[i].side = opp
            BY <1>1, <1>8, <6>1 DEF SoundEngine
          <6>3. x = ix[i]
            <7>1. x \in e.orders["Buy"] \cup e.orders["Sell"] /\ ix[i] \in e.orders["Buy"] \cup e.orders["Sell"]
              BY <1>1, <1>8, <6>1 DEF Sides
            <7>2. QED
              BY <3>1, <7>1 DEF OpenOnce
          <6>4. QED
            BY <1>1, <6>2, <6>3
        <5>3. \A s \in Sides : \A x \in r.engine.orders[s] : x.id # id
          BY <1>1, <5>1, <5>2
        <5>4. LeftOpen(r.engine, id) = 0
          BY <1>5, <5>3, LeftOpenFacts
        <5>5. QED
          BY <1>8, <4>2, <5>4
      <4>3. QED
        BY <4>1, <4>2
    <3>6. RemainingQuantity(ix[i]) \in Nat /\ left[i-1] - left[i] \in Int
      BY <1>3, <1>8, OpenOrderFacts
    <3> HIDE DEF total, after
    <3>7. QED
      BY <1>11, <3>2, <3>3, <3>4, <3>5, <3>6 DEF total
  <2>4. CASE \A i \in Hits(left) : ix[i].id # id
    <3>1. total = 0
      BY <2>1, <2>4
    <3>2. \A x : x.id = id => (x \in r.engine.orders[opp] <=> x \in orders)
      BY <1>2, <1>8, <1>9, <2>4
    <3>3. \A s \in Sides : \A x : x.id = id => (x \in r.engine.orders[s] <=> x \in e.orders[s])
      BY <1>1, <2>2, <3>2
    <3>4. LeftOpen(r.engine, id) = LeftOpen(e, id)
      <4>1. CASE \E s \in Sides : \E x \in e.orders[s] : x.id = id
        <5>1. PICK s \in Sides : \E x \in e.orders[s] : x.id = id
          BY <4>1
        <5>2. PICK x \in e.orders[s] : x.id = id
          BY <5>1
        <5>3. LeftOpen(e, id) = RemainingQuantity(x)
          BY <5>2, LeftOpenFacts
        <5>4. LeftOpen(r.engine, id) = RemainingQuantity(x)
          BY <1>5, <3>3, <5>2, LeftOpenFacts
        <5>5. QED
          BY <5>3, <5>4
      <4>2. CASE ~ \E s \in Sides : \E x \in e.orders[s] : x.id = id
        <5>1. LeftOpen(e, id) = 0
          BY <4>2, LeftOpenFacts
        <5>2. LeftOpen(r.engine, id) = 0
          BY <1>5, <3>3, <4>2, LeftOpenFacts
        <5>3. QED
          BY <5>1, <5>2
      <4>3. QED
        BY <4>1, <4>2
    <3>5. LeftOpen(e, id) \in Nat
      BY LeftOpenType
    <3> HIDE DEF total
    <3>6. QED
      BY <1>11, <3>1, <3>4, <3>5 DEF total
  <2>5. QED
    BY <2>3, <2>4
<1>12. QED
  BY <1>10, <1>11
=============================================================================
