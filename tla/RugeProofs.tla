----------------------------- MODULE RugeProofs -----------------------------
(***************************************************************************)
(* Theorems about Ruge and the lists it keeps its points on, for every     *)
(* matrix size and every strength relation.                                *)
(***************************************************************************)
EXTENDS Ruge, FiniteSetTheorems, SequenceTheorems, TLAPS

LEMMA PointsFinite ==
  /\ IsFiniteSet(Points) /\ N \in Nat \ {0}
  /\ \A T \in SUBSET Points : IsFiniteSet(T) /\ Cardinality(T) \in Nat
<1>1. IsFiniteSet(Points) /\ N \in Nat \ {0}
  BY GraphAssumption, FS_Interval DEF Points
<1>2. QED
  BY <1>1, FS_Subset, FS_CardinalityType

(* The numbers 0 .. x, whose inclusion is the order of the naturals.       *)
Down(x) == 0 .. x

(* What Min of a set of naturals is.                                       *)
LEMMA MinOfNaturals ==
  ASSUME NEW T, T \subseteq Nat, T # {}
  PROVE  Min(T) \in T /\ \A y \in T : Min(T) <= y
<1> DEFINE Segments == { Down(x) : x \in T }
<1>1. IsWellFoundedOn(StrictSubsetOrdering(Nat), FiniteSubsetsOf(Nat))
  BY FS_StrictSubsetOrderingWellFounded
<1>2. Segments \subseteq FiniteSubsetsOf(Nat)
  <2> SUFFICES ASSUME NEW x \in T PROVE Down(x) \in FiniteSubsetsOf(Nat)
    OBVIOUS
  <2> IsFiniteSet(0 .. x)
    BY FS_Interval
  <2> QED
    BY DEF Down, FiniteSubsetsOf
<1>3. Segments # {}
  OBVIOUS
<1>4. PICK s \in Segments :
        \A t \in Segments : <<t, s>> \notin StrictSubsetOrdering(Nat)
  <2> HIDE DEF Segments
  <2> QED
    BY <1>1, <1>2, <1>3, WFMin
<1>5. PICK m \in T : s = Down(m)
  OBVIOUS
<1>6. \A y \in T : m <= y
  <2> SUFFICES ASSUME NEW y \in T, y < m PROVE FALSE
    OBVIOUS
  <2>1. Down(y) \subseteq Down(m) /\ Down(y) # Down(m)
    BY DEF Down
  <2>2. Down(y) \in SUBSET Nat /\ Down(m) \in SUBSET Nat
    BY DEF Down
  <2>3. <<Down(y), s>> \in StrictSubsetOrdering(Nat)
    BY <1>5, <2>1, <2>2 DEF StrictSubsetOrdering
  <2> QED
    BY <1>4, <2>3
<1> QED
  BY <1>6 DEF Min
-----------------------------------------------------------------------------
(***************************************************************************)
(* One list.  Visits says that f is an order of the points of M, that the  *)
(* list starts at h and ends at t, and that next and prev follow f; it is  *)
(* what Linked says, without the set of all orders.                        *)
(***************************************************************************)
Visits(next, prev, h, t, f, n, M) ==
  /\ n \in Nat \ {0} /\ f \in [1 .. n -> M]
  /\ \A a, b \in 1 .. n : f[a] = f[b] => a = b
  /\ \A x \in M : \E a \in 1 .. n : f[a] = x
  /\ h = f[1] /\ prev[h] = LIST_HEAD
  /\ t = f[n] /\ next[t] = LIST_TAIL
  /\ \A a \in 1 .. n - 1 : next[f[a]] = f[a + 1] /\ prev[f[a + 1]] = f[a]

Ordered(next, prev, h, t, M) == \E n, f : Visits(next, prev, h, t, f, n, M)

LEMMA LinkedOrdered ==
  ASSUME NEW L, NEW list, NEW M \in SUBSET Points
  PROVE  Linked(L, list, M)
           <=> Ordered(L.next, L.prev, list.head, list.tail, M)
<1>1. IsFiniteSet(M) /\ Cardinality(M) \in Nat
  BY PointsFinite
<1>2. ASSUME Linked(L, list, M)
      PROVE  Ordered(L.next, L.prev, list.head, list.tail, M)
  <2>1. PICK f \in SetToSeqs(M) :
          /\ f # << >>
          /\ list.head = f[1] /\ L.prev[list.head] = LIST_HEAD
          /\ list.tail = f[Len(f)] /\ L.next[list.tail] = LIST_TAIL
          /\ \A k \in 1 .. Len(f) - 1 :
               L.next[f[k]] = f[k + 1] /\ L.prev[f[k + 1]] = f[k]
    BY <1>2 DEF Linked
  <2> DEFINE n == Cardinality(M)
  <2>2. f \in [1 .. n -> M] /\ \A a, b \in 1 .. n : a # b => f[a] # f[b]
    BY <2>1 DEF SetToSeqs
  <2>3. f \in Seq(M) /\ Len(f) = n /\ n # 0
    BY <1>1, <2>1, <2>2, EmptySeq
  <2>4. IsFiniteSet(1 .. n) /\ Cardinality(1 .. n) = n
    BY <1>1, FS_Interval
  <2>5. f \in Injection(1 .. n, M)
    BY <2>2 DEF Injection, IsInjective
  <2>6. f \in Surjection(1 .. n, M)
    <3> HIDE DEF n
    <3>1. Cardinality(1 .. n) = Cardinality(M)
      BY <2>4 DEF n
    <3>2. QED
      BY <1>1, <2>5, <3>1, FS_Injection
  <2>7. \A x \in M : \E a \in 1 .. n : f[a] = x
    BY <2>6 DEF Surjection
  <2>8. Visits(L.next, L.prev, list.head, list.tail, f, n, M)
    BY <1>1, <2>1, <2>2, <2>3, <2>7 DEF Visits
  <2>9. QED
    BY <2>8 DEF Ordered
<1>3. ASSUME NEW n, NEW f, Visits(L.next, L.prev, list.head, list.tail, f, n, M)
      PROVE  Linked(L, list, M)
  <2>1. n \in Nat \ {0} /\ f \in [1 .. n -> M]
    BY <1>3 DEF Visits
  <2>2. f \in Surjection(1 .. n, M) /\ f \in Injection(1 .. n, M)
    BY <1>3 DEF Visits, Surjection, Injection, IsInjective
  <2>3. Cardinality(M) = n
    <3>1. IsFiniteSet(1 .. n) /\ Cardinality(1 .. n) = n
      BY <2>1, FS_Interval
    <3>2. QED
      BY <2>2, <3>1, FS_Surjection
  <2>4. f \in SetToSeqs(M)
    BY <1>3, <2>3 DEF Visits, SetToSeqs
  <2>5. f \in Seq(M) /\ Len(f) = n /\ f # << >>
    BY <2>1
  <2>6. QED
    BY <1>3, <2>4, <2>5 DEF Visits, Linked
<1>4. QED
  BY <1>2, <1>3 DEF Ordered

(* A list is not disturbed by writes to other points.                      *)
LEMMA OrderedElsewhere ==
  ASSUME NEW next, NEW prev, NEW h, NEW t, NEW M,
         Ordered(next, prev, h, t, M), NEW nx, NEW pv,
         \A x \in M : nx[x] = next[x] /\ pv[x] = prev[x]
  PROVE  Ordered(nx, pv, h, t, M)
<1> PICK n, f : Visits(next, prev, h, t, f, n, M)
  BY DEF Ordered
<1>1. \A a \in 1 .. n - 1 : a \in 1 .. n /\ a + 1 \in 1 .. n
  BY DEF Visits
<1>2. \A a \in 1 .. n : f[a] \in M
  BY DEF Visits
<1>3. 1 \in 1 .. n /\ n \in 1 .. n
  BY DEF Visits
<1>4. h = f[1] /\ h \in M /\ pv[h] = LIST_HEAD
  <2>1. h = f[1] /\ prev[h] = LIST_HEAD
    BY DEF Visits
  <2>2. QED
    BY <1>2, <1>3, <2>1
<1>5. t = f[n] /\ t \in M /\ nx[t] = LIST_TAIL
  <2>1. t = f[n] /\ next[t] = LIST_TAIL
    BY DEF Visits
  <2>2. QED
    BY <1>2, <1>3, <2>1
<1>6. \A a \in 1 .. n - 1 : nx[f[a]] = f[a + 1] /\ pv[f[a + 1]] = f[a]
  <2> TAKE a \in 1 .. n - 1
  <2>1. next[f[a]] = f[a + 1] /\ prev[f[a + 1]] = f[a]
    BY DEF Visits
  <2>2. f[a] \in M /\ f[a + 1] \in M
    BY <1>1, <1>2
  <2>3. QED
    BY <2>1, <2>2
<1>7. /\ n \in Nat \ {0} /\ f \in [1 .. n -> M]
      /\ \A a, b \in 1 .. n : f[a] = f[b] => a = b
      /\ \A x \in M : \E a \in 1 .. n : f[a] = x
  BY DEF Visits
<1>8. QED
  <2>1. Visits(nx, pv, h, t, f, n, M)
    BY ONLY <1>4, <1>5, <1>6, <1>7 DEF Visits
  <2>2. QED
    BY <2>1 DEF Ordered

LEMMA OrderedEnds ==
  ASSUME NEW next, NEW prev, NEW h, NEW t, NEW M,
         Ordered(next, prev, h, t, M)
  PROVE  h \in M /\ t \in M
<1> PICK n, f : Visits(next, prev, h, t, f, n, M)
  BY DEF Ordered
<1>1. 1 \in 1 .. n /\ n \in 1 .. n
  BY DEF Visits
<1>2. QED
  BY <1>1 DEF Visits

(* A list of one point.                                                    *)
LEMMA OrderedOne ==
  ASSUME NEW next, NEW prev, NEW i, next[i] = LIST_TAIL, prev[i] = LIST_HEAD
  PROVE  Ordered(next, prev, i, i, {i})
<1>1. Visits(next, prev, i, i, [a \in 1 .. 1 |-> i], 1, {i})
  BY DEF Visits
<1>2. QED
  BY <1>1 DEF Ordered

LEMMA OrderedOnly ==
  ASSUME NEW next, NEW prev, NEW i, NEW M,
         Ordered(next, prev, i, i, M)
  PROVE  M = {i}
<1> PICK n, f : Visits(next, prev, i, i, f, n, M)
  BY DEF Ordered
<1>1. 1 \in 1 .. n /\ n \in 1 .. n /\ n = 1
  <2>1. 1 \in 1 .. n /\ n \in 1 .. n /\ f[1] = i /\ f[n] = i
    BY DEF Visits
  <2>2. f[1] = f[n] => 1 = n
    BY <2>1 DEF Visits
  <2>3. QED
    BY <2>1, <2>2
<1>2. i = f[1] /\ f \in [1 .. n -> M]
  BY DEF Visits
<1>3. \A x \in M : x = i
  <2> TAKE x \in M
  <2>1. PICK a \in 1 .. n : f[a] = x
    BY DEF Visits
  <2>2. a = 1
    BY <1>1, <2>1
  <2>3. QED
    BY <1>2, <2>1, <2>2
<1>4. QED
  BY <1>1, <1>2, <1>3

(* A point put last.                                                       *)
LEMMA OrderedAppended ==
  ASSUME NEW next, NEW prev, NEW h, NEW t, NEW M,
         Ordered(next, prev, h, t, M), NEW i, i \notin M, NEW nx, NEW pv,
         \A x \in M : nx[x] = IF x = t THEN i ELSE next[x],
         \A x \in M : pv[x] = prev[x],
         nx[i] = LIST_TAIL, pv[i] = t
  PROVE  Ordered(nx, pv, h, i, M \cup {i})
<1> PICK n, f : Visits(next, prev, h, t, f, n, M)
  BY DEF Ordered
<1> DEFINE g == [a \in 1 .. n + 1 |-> IF a = n + 1 THEN i ELSE f[a]]
<1>1. n \in Nat \ {0} /\ f \in [1 .. n -> M] /\ 1 \in 1 .. n /\ n \in 1 .. n
  BY DEF Visits
<1>2. n + 1 \in Nat \ {0} /\ g[n + 1] = i /\ \A a \in 1 .. n : g[a] = f[a] /\ f[a] \in M
  BY <1>1
<1>3. g \in [1 .. n + 1 -> M \cup {i}]
  BY <1>1
<1>4. \A a \in 1 .. n + 1 : a = n + 1 \/ a \in 1 .. n
  BY <1>1
<1> HIDE DEF g
<1>5. \A a, b \in 1 .. n + 1 : g[a] = g[b] => a = b
  BY <1>2, <1>4 DEF Visits
<1>6. \A x \in M \cup {i} : \E a \in 1 .. n + 1 : g[a] = x
  <2>1. \A a \in 1 .. n : a \in 1 .. n + 1
    BY <1>1
  <2>2. n + 1 \in 1 .. n + 1
    BY <1>1
  <2>3. QED
    BY <1>2, <2>1, <2>2 DEF Visits
<1>7. \A a \in 1 .. n : nx[g[a]] = g[a + 1] /\ pv[g[a + 1]] = g[a]
  <2> TAKE a \in 1 .. n
  <2>1. CASE a = n
    <3>1. f[n] = t /\ g[a] = t /\ g[a + 1] = i /\ t \in M
      BY <1>1, <1>2, <2>1 DEF Visits
    <3>2. QED
      BY <3>1
  <2>2. CASE a # n
    <3>1. a \in 1 .. n - 1 /\ a + 1 \in 1 .. n
      BY <1>1, <2>2
    <3>2. f[a] # t
      BY <1>1, <2>2 DEF Visits
    <3>3. next[f[a]] = f[a + 1] /\ prev[f[a + 1]] = f[a]
      BY <3>1 DEF Visits
    <3>4. g[a] = f[a] /\ g[a + 1] = f[a + 1] /\ f[a] \in M /\ f[a + 1] \in M
      BY <1>2, <3>1
    <3>5. QED
      BY <3>2, <3>3, <3>4
  <2>3. QED
    BY <2>1, <2>2
<1>8. h = g[1] /\ pv[h] = LIST_HEAD
  <2>1. h = f[1] /\ prev[h] = LIST_HEAD
    BY DEF Visits
  <2>2. QED
    BY <1>1, <1>2, <2>1
<1>9. n + 1 - 1 = n
  BY <1>1
<1>10. Visits(nx, pv, h, i, g, n + 1, M \cup {i})
  BY <1>2, <1>3, <1>5, <1>6, <1>7, <1>8, <1>9 DEF Visits
<1>11. QED
  BY <1>10 DEF Ordered

(* The first point taken away from others.                                 *)
LEMMA OrderedWithoutFirst ==
  ASSUME NEW next, NEW prev, NEW h, NEW t, NEW M,
         Ordered(next, prev, h, t, M), h # t, NEW pv,
         \A x \in M : pv[x] = IF x = next[h] THEN LIST_HEAD ELSE prev[x]
  PROVE  /\ next[h] \in M /\ next[h] # h
         /\ Ordered(next, pv, next[h], t, M \ {h})
<1> PICK n, f : Visits(next, prev, h, t, f, n, M)
  BY DEF Ordered
<1> DEFINE m == n - 1
           g == [a \in 1 .. m |-> f[a + 1]]
<1>1. n \in Nat \ {0} /\ f \in [1 .. n -> M] /\ h = f[1] /\ t = f[n]
  BY DEF Visits
<1>2. n # 1 /\ 1 \in 1 .. n /\ 2 \in 1 .. n /\ 1 \in 1 .. n - 1 /\ m \in Nat \ {0}
  BY <1>1
<1>3. next[h] = f[2]
  <2>1. next[f[1]] = f[1 + 1]
    BY <1>2 DEF Visits
  <2>2. QED
    BY <1>1, <2>1
<1>4. next[h] \in M /\ next[h] # h
  BY <1>1, <1>2, <1>3 DEF Visits
<1>5. \A a \in 1 .. m : a + 1 \in 1 .. n /\ g[a] = f[a + 1] /\ a + 1 # 1
  BY <1>1
<1>6. \A b \in 1 .. n : b # 1 => b - 1 \in 1 .. m /\ b - 1 + 1 = b
  BY <1>1
<1>7. g \in [1 .. m -> M \ {h}]
  <2>1. \A a \in 1 .. m : f[a + 1] \in M \ {h}
    BY <1>1, <1>2, <1>5 DEF Visits
  <2>2. QED
    BY <2>1
<1> HIDE DEF m, g
<1>8. \A a, b \in 1 .. m : g[a] = g[b] => a = b
  <2> TAKE a, b \in 1 .. m
  <2>1. g[a] = g[b] => a + 1 = b + 1
    BY <1>5 DEF Visits
  <2>2. QED
    BY <1>2, <2>1
<1>9. \A x \in M \ {h} : \E a \in 1 .. m : g[a] = x
  <2> TAKE x \in M \ {h}
  <2>1. PICK b \in 1 .. n : f[b] = x
    BY DEF Visits
  <2>2. b - 1 \in 1 .. m /\ g[b - 1] = x
    BY <1>1, <1>5, <1>6, <2>1
  <2>3. QED
    BY <2>2
<1>10. next[h] = g[1] /\ pv[next[h]] = LIST_HEAD
  <2>1. 1 \in 1 .. m
    BY <1>2
  <2>2. g[1] = f[1 + 1]
    BY <1>5, <2>1
  <2>3. QED
    BY <1>3, <1>4, <2>2
<1>11. t = g[m] /\ next[t] = LIST_TAIL
  <2>1. m \in 1 .. m /\ m + 1 = n
    BY <1>1, <1>2 DEF m
  <2>2. QED
    BY <1>1, <1>5, <2>1 DEF Visits
<1>12. \A a \in 1 .. m - 1 : next[g[a]] = g[a + 1] /\ pv[g[a + 1]] = g[a]
  <2> TAKE a \in 1 .. m - 1
  <2>1. a \in 1 .. m /\ a + 1 \in 1 .. m /\ a + 1 \in 1 .. n - 1 /\ a + 1 + 1 \in 1 .. n
    BY <1>1, <1>2 DEF m
  <2>2. g[a] = f[a + 1] /\ g[a + 1] = f[a + 1 + 1]
    BY <1>5, <2>1
  <2>3. next[f[a + 1]] = f[a + 1 + 1] /\ prev[f[a + 1 + 1]] = f[a + 1]
    BY <2>1 DEF Visits
  <2>4. f[a + 1 + 1] # f[2] /\ f[a + 1 + 1] \in M
    <3>1. a + 1 + 1 # 2
      BY <2>1
    <3>2. QED
      BY <1>1, <1>2, <2>1, <3>1 DEF Visits
  <2>5. QED
    BY <1>3, <2>2, <2>3, <2>4
<1>13. Visits(next, pv, next[h], t, g, m, M \ {h})
  BY <1>2, <1>7, <1>8, <1>9, <1>10, <1>11, <1>12 DEF Visits
<1>14. QED
  BY <1>4, <1>13 DEF Ordered

(* The last point taken away from others.                                  *)
LEMMA OrderedWithoutLast ==
  ASSUME NEW next, NEW prev, NEW h, NEW t, NEW M,
         Ordered(next, prev, h, t, M), h # t, NEW nx,
         \A x \in M : nx[x] = IF x = prev[t] THEN LIST_TAIL ELSE next[x]
  PROVE  /\ prev[t] \in M /\ prev[t] # t
         /\ Ordered(nx, prev, h, prev[t], M \ {t})
<1> PICK n, f : Visits(next, prev, h, t, f, n, M)
  BY DEF Ordered
<1> DEFINE m == n - 1
           g == [a \in 1 .. m |-> f[a]]
<1>1. n \in Nat \ {0} /\ f \in [1 .. n -> M] /\ h = f[1] /\ t = f[n]
  BY DEF Visits
<1>2. n # 1 /\ n \in 1 .. n /\ m \in 1 .. n - 1 /\ m \in 1 .. n /\ m \in Nat \ {0} /\ m + 1 = n
  BY <1>1
<1>3. prev[t] = f[m]
  <2>1. prev[f[m + 1]] = f[m]
    BY <1>2 DEF Visits
  <2>2. QED
    BY <1>1, <1>2, <2>1
<1>4. prev[t] \in M /\ prev[t] # t
  BY <1>1, <1>2, <1>3 DEF Visits
<1>5. \A a \in 1 .. m : a \in 1 .. n /\ a # n /\ g[a] = f[a]
  BY <1>1
<1>6. \A b \in 1 .. n : b # n => b \in 1 .. m
  BY <1>1
<1>7. g \in [1 .. m -> M \ {t}]
  <2>1. \A a \in 1 .. m : f[a] \in M \ {t}
    BY <1>1, <1>2, <1>5 DEF Visits
  <2>2. QED
    BY <2>1
<1> HIDE DEF m, g
<1>8. \A a, b \in 1 .. m : g[a] = g[b] => a = b
  BY <1>5 DEF Visits
<1>9. \A x \in M \ {t} : \E a \in 1 .. m : g[a] = x
  <2> TAKE x \in M \ {t}
  <2>1. PICK b \in 1 .. n : f[b] = x
    BY DEF Visits
  <2>2. b \in 1 .. m /\ g[b] = x
    BY <1>1, <1>5, <1>6, <2>1
  <2>3. QED
    BY <2>2
<1>10. h = g[1] /\ prev[h] = LIST_HEAD
  <2>1. 1 \in 1 .. m
    BY <1>2
  <2>2. QED
    BY <1>1, <1>5, <2>1 DEF Visits
<1>11. prev[t] = g[m] /\ nx[prev[t]] = LIST_TAIL
  <2>1. m \in 1 .. m
    BY <1>2
  <2>2. QED
    BY <1>3, <1>4, <1>5, <2>1
<1>12. \A a \in 1 .. m - 1 : nx[g[a]] = g[a + 1] /\ prev[g[a + 1]] = g[a]
  <2> TAKE a \in 1 .. m - 1
  <2>1. a \in 1 .. m /\ a + 1 \in 1 .. m /\ a \in 1 .. n - 1 /\ a \in 1 .. n /\ a # m
    BY <1>1, <1>2 DEF m
  <2>2. g[a] = f[a] /\ g[a + 1] = f[a + 1]
    BY <1>5, <2>1
  <2>3. next[f[a]] = f[a + 1] /\ prev[f[a + 1]] = f[a]
    BY <2>1 DEF Visits
  <2>4. f[a] # f[m] /\ f[a] \in M
    BY <1>1, <1>2, <2>1 DEF Visits
  <2>5. QED
    BY <1>3, <2>2, <2>3, <2>4
<1>13. Visits(nx, prev, h, prev[t], g, m, M \ {t})
  BY <1>2, <1>7, <1>8, <1>9, <1>10, <1>11, <1>12 DEF Visits
<1>14. QED
  BY <1>4, <1>13 DEF Ordered


(* A point between two others taken away.                                  *)
Bypassed(next, prev, i, M, nx, pv) ==
  \A x \in M : /\ nx[x] = IF x = prev[i] THEN next[i] ELSE next[x]
               /\ pv[x] = IF x = next[i] THEN prev[i] ELSE prev[x]

LEMMA OrderedWithoutInner ==
  ASSUME NEW next, NEW prev, NEW h, NEW t, NEW M,
         Ordered(next, prev, h, t, M), NEW i \in M, i # h, i # t, NEW nx, NEW pv,
         Bypassed(next, prev, i, M, nx, pv)
  PROVE  /\ prev[i] \in M \ {i} /\ next[i] \in M \ {i}
         /\ Ordered(nx, pv, h, t, M \ {i})
<1> PICK n, f : Visits(next, prev, h, t, f, n, M)
  BY DEF Ordered
<1>0. /\ \A x \in M : nx[x] = IF x = prev[i] THEN next[i] ELSE next[x]
      /\ \A x \in M : pv[x] = IF x = next[i] THEN prev[i] ELSE prev[x]
  BY DEF Bypassed
<1>1. n \in Nat \ {0} /\ f \in [1 .. n -> M] /\ h = f[1] /\ t = f[n]
  BY DEF Visits
<1>2. PICK p \in 1 .. n : f[p] = i
  BY DEF Visits
<1> DEFINE m == n - 1
           skip(a) == IF a < p THEN a ELSE a + 1
           g == [a \in 1 .. m |-> f[skip(a)]]
<1>3. p # 1 /\ p # n
  BY <1>1, <1>2
<1>4. p - 1 \in 1 .. n - 1 /\ p \in 1 .. n - 1 /\ p - 1 + 1 = p /\ p + 1 \in 1 .. n
      /\ p - 1 \in 1 .. n /\ m \in Nat \ {0} /\ m + 1 = n
  BY <1>1, <1>3
<1>5. prev[i] = f[p - 1] /\ next[i] = f[p + 1]
  <2>1. prev[f[p - 1 + 1]] = f[p - 1]
    BY <1>4 DEF Visits
  <2>2. next[f[p]] = f[p + 1]
    BY <1>4 DEF Visits
  <2>3. QED
    BY <1>2, <1>4, <2>1, <2>2
<1>6. prev[i] \in M \ {i} /\ next[i] \in M \ {i}
  <2>1. p - 1 # p /\ p + 1 # p
    BY <1>4
  <2>2. QED
    BY <1>1, <1>2, <1>4, <1>5, <2>1 DEF Visits
<1>7. \A a \in 1 .. m : skip(a) \in 1 .. n /\ skip(a) # p /\ g[a] = f[skip(a)]
  BY <1>1, <1>4
<1>8. \A a, b \in 1 .. m : skip(a) = skip(b) => a = b
  BY <1>1, <1>4
<1>9. \A b \in 1 .. n : b # p => \E a \in 1 .. m : skip(a) = b
  <2> TAKE b \in 1 .. n
  <2> HAVE b # p
  <2>1. CASE b < p
    BY <1>1, <1>4, <2>1
  <2>2. CASE b > p
    <3>1. b - 1 \in 1 .. m /\ skip(b - 1) = b
      BY <1>1, <1>4, <2>2
    <3>2. QED
      BY <3>1
  <2>3. QED
    BY <1>1, <1>4, <2>1, <2>2
<1>10. skip(1) = 1 /\ skip(m) = n
  BY <1>1, <1>3, <1>4
<1>11. \A a \in 1 .. m - 1 :
         /\ a \in 1 .. m /\ a + 1 \in 1 .. m /\ skip(a) \in 1 .. n - 1
         /\ skip(a + 1) = IF a = p - 1 THEN p + 1 ELSE skip(a) + 1
         /\ a = p - 1 <=> skip(a) = p - 1
         /\ skip(a) # p
  BY <1>1, <1>4
<1>12. g \in [1 .. m -> M \ {i}]
  <2>1. \A a \in 1 .. m : f[skip(a)] \in M \ {i}
    BY <1>1, <1>2, <1>7 DEF Visits
  <2>2. QED
    BY <2>1
<1> HIDE DEF m, g, skip
<1>13. \A a, b \in 1 .. m : g[a] = g[b] => a = b
  BY <1>7, <1>8 DEF Visits
<1>14. \A x \in M \ {i} : \E a \in 1 .. m : g[a] = x
  <2> TAKE x \in M \ {i}
  <2>1. PICK b \in 1 .. n : f[b] = x
    BY DEF Visits
  <2>2. PICK a \in 1 .. m : skip(a) = b
    BY <1>2, <1>9, <2>1
  <2>3. QED
    BY <1>7, <2>1, <2>2
<1>15. 1 \in 1 .. m /\ m \in 1 .. m
  BY <1>4
<1>16. h = g[1] /\ h \in M /\ h # next[i]
  <2>1. h = g[1] /\ h \in M
    BY <1>1, <1>4, <1>7, <1>10, <1>15
  <2>2. p + 1 # 1 /\ 1 \in 1 .. n
    BY <1>1, <1>4
  <2>3. f[p + 1] = f[1] => p + 1 = 1
    BY <1>4, <2>2 DEF Visits
  <2>4. QED
    BY <1>1, <1>5, <2>1, <2>2, <2>3
<1>17. t = g[m] /\ t \in M /\ t # prev[i]
  <2>1. t = g[m] /\ t \in M
    BY <1>1, <1>4, <1>7, <1>10, <1>15
  <2>2. p - 1 # n /\ n \in 1 .. n
    BY <1>1, <1>4
  <2>3. f[p - 1] = f[n] => p - 1 = n
    BY <1>4, <2>2 DEF Visits
  <2>4. QED
    BY <1>1, <1>5, <2>1, <2>2, <2>3
<1>18. pv[h] = LIST_HEAD /\ nx[t] = LIST_TAIL
  <2>1. prev[h] = LIST_HEAD /\ next[t] = LIST_TAIL
    BY DEF Visits
  <2>2. QED
    BY <1>0, <1>16, <1>17, <2>1
<1>19. \A a \in 1 .. m - 1 : nx[g[a]] = g[a + 1] /\ pv[g[a + 1]] = g[a]
  <2> TAKE a \in 1 .. m - 1
  <2>1. /\ a \in 1 .. m /\ a + 1 \in 1 .. m
        /\ g[a] = f[skip(a)] /\ g[a + 1] = f[skip(a + 1)]
        /\ g[a] \in M /\ g[a + 1] \in M
        /\ skip(a) \in 1 .. n /\ skip(a + 1) \in 1 .. n
    BY <1>1, <1>7, <1>11
  <2>2. CASE a = p - 1
    <3>1. g[a] = prev[i] /\ g[a + 1] = next[i]
      BY <1>5, <1>11, <2>1, <2>2
    <3>2. QED
      BY <1>0, <2>1, <3>1
  <2>3. CASE a # p - 1
    <3>1. skip(a) # p - 1 /\ skip(a) # p /\ skip(a + 1) = skip(a) + 1
      BY <1>11, <2>3
    <3>2. g[a] # prev[i]
      BY <1>4, <1>5, <2>1, <3>1 DEF Visits
    <3>3. g[a + 1] # next[i]
      <4>1. skip(a) + 1 # p + 1
        BY <1>4, <2>1, <3>1
      <4>2. QED
        BY <1>4, <1>5, <2>1, <3>1, <4>1 DEF Visits
    <3>4. next[g[a]] = g[a + 1] /\ prev[g[a + 1]] = g[a]
      <4>1. skip(a) \in 1 .. n - 1
        BY <1>11
      <4>2. next[f[skip(a)]] = f[skip(a) + 1] /\ prev[f[skip(a) + 1]] = f[skip(a)]
        BY <4>1 DEF Visits
      <4>3. QED
        BY <2>1, <3>1, <4>2
    <3>5. QED
      BY <1>0, <2>1, <3>2, <3>3, <3>4
  <2>4. QED
    BY <2>2, <2>3
<1>20. Visits(nx, pv, h, t, g, m, M \ {i})
  BY <1>4, <1>12, <1>13, <1>14, <1>16, <1>17, <1>18, <1>19 DEF Visits
<1>21. QED
  BY <1>6, <1>20 DEF Ordered
-----------------------------------------------------------------------------
(***************************************************************************)
(* The chain of lists.                                                     *)
(***************************************************************************)
ListType == [data : Int, head : Points, tail : Points]
ListsType(L) ==
  L \in [chain : Seq(ListType),
         next : [Points -> Points \cup {0, LIST_TAIL}],
         prev : [Points -> Points \cup {0, LIST_HEAD}]]

LEMMA ListOfFound ==
  ASSUME NEW chain \in Seq(ListType), NEW m
  PROVE  LET k == ListOf(chain, m) IN
         \/ k = 0 /\ \A j \in DOMAIN chain : chain[j].data # m
         \/ k \in DOMAIN chain /\ chain[k].data = m
<1> DEFINE I == { j \in 1 .. Len(chain) : chain[j].data = m }
<1>1. ListOf(chain, m) = IF I # {} THEN Min(I) ELSE 0
  BY DEF ListOf, SelectInSeq
<1>2. DOMAIN chain = 1 .. Len(chain) /\ Len(chain) \in Nat
  BY LenProperties
<1>3. CASE I = {}
  <2>1. ListOf(chain, m) = 0
    BY <1>1, <1>3
  <2>2. QED
    BY <1>2, <1>3, <2>1
<1>4. CASE I # {}
  <2>1. I \subseteq Nat
    BY <1>2
  <2>2. Min(I) \in I
    <3> HIDE DEF I
    <3> QED
      BY <1>4, <2>1, MinOfNaturals
  <2>3. ListOf(chain, m) \in I
    BY <1>1, <1>4, <2>2
  <2>4. QED
    BY <1>2, <2>3
<1>5. QED
  BY <1>3, <1>4

LEMMA FirstNotAboveFound ==
  ASSUME NEW chain \in Seq(ListType), NEW m \in Int
  PROVE  LET k == FirstNotAbove(chain, m) IN
         \/ k = 0 /\ \A j \in DOMAIN chain : chain[j].data > m
         \/ /\ k \in DOMAIN chain /\ chain[k].data <= m
            /\ \A j \in DOMAIN chain : j < k => chain[j].data > m
<1> DEFINE I == { j \in 1 .. Len(chain) : m >= chain[j].data }
<1>1. FirstNotAbove(chain, m) = IF I # {} THEN Min(I) ELSE 0
  BY DEF FirstNotAbove, SelectInSeq
<1>2. DOMAIN chain = 1 .. Len(chain) /\ Len(chain) \in Nat
  BY LenProperties
<1>3. \A j \in DOMAIN chain : chain[j] \in ListType /\ chain[j].data \in Int
  <2>1. \A j \in 1 .. Len(chain) : chain[j] \in ListType
    BY ElementOfSeq
  <2>2. \A list \in ListType : list.data \in Int
    BY DEF ListType
  <2>3. QED
    BY <1>2, <2>1, <2>2
<1>4. CASE I = {}
  <2>1. FirstNotAbove(chain, m) = 0
    BY <1>1, <1>4
  <2>2. QED
    BY <1>2, <1>3, <1>4, <2>1
<1>5. CASE I # {}
  <2>1. I \subseteq Nat
    BY <1>2
  <2>2. Min(I) \in I /\ \A y \in I : Min(I) <= y
    <3> HIDE DEF I
    <3> QED
      BY <1>5, <2>1, MinOfNaturals
  <2> DEFINE k == FirstNotAbove(chain, m)
  <2>3. k \in I /\ \A y \in I : k <= y
    BY <1>1, <1>5, <2>2
  <2> HIDE DEF k
  <2>4. k \in DOMAIN chain /\ chain[k].data <= m
    BY <1>2, <1>3, <2>3
  <2>5. \A j \in DOMAIN chain : j < k => chain[j].data > m
    BY <1>2, <1>3, <2>3, <2>4
  <2>6. QED
    BY <2>4, <2>5 DEF k
<1>6. QED
  BY <1>4, <1>5

(* The sequence t is s with e inserted at the place k.                     *)
Inserted(t, s, k, e) ==
  /\ Len(t) = Len(s) + 1
  /\ \A j \in 1 .. Len(s) + 1 :
       t[j] = IF j < k THEN s[j] ELSE IF j = k THEN e ELSE s[j - 1]

LEMMA InsertAtElements ==
  ASSUME NEW T, NEW s \in Seq(T), NEW k \in 1 .. Len(s) + 1, NEW e \in T
  PROVE  InsertAt(s, k, e) \in Seq(T) /\ Inserted(InsertAt(s, k, e), s, k, e)
<1> DEFINE before == SubSeq(s, 1, k - 1)
           after  == SubSeq(s, k, Len(s))
<1>1. Len(s) \in Nat /\ k - 1 \in Nat /\ k - 1 <= Len(s)
  BY LenProperties
<1>2. /\ before \in Seq(T) /\ Len(before) = k - 1
      /\ \A j \in 1 .. k - 1 : before[j] = s[j]
  <2>1. \A j \in 1 .. k - 1 : s[j] \in T
    BY <1>1, ElementOfSeq
  <2>2. QED
    BY <1>1, <2>1, SubSeqProperties
<1>3. /\ after \in Seq(T) /\ Len(after) = Len(s) - k + 1
      /\ \A j \in 1 .. Len(s) - k + 1 : after[j] = s[k + j - 1]
  <2>1. \A j \in k .. Len(s) : s[j] \in T
    BY <1>1, ElementOfSeq
  <2>2. QED
    BY <1>1, <2>1, SubSeqProperties
<1>4. InsertAt(s, k, e) = before \o <<e>> \o after
  BY DEF InsertAt
<1> HIDE DEF before, after
<1>5. /\ before \o <<e>> \in Seq(T) /\ Len(before \o <<e>>) = k
      /\ \A j \in 1 .. k : (before \o <<e>>)[j] = IF j < k THEN s[j] ELSE e
  <2>1. <<e>> \in Seq(T) /\ Len(<<e>>) = 1 /\ <<e>>[1] = e
    OBVIOUS
  <2>2. /\ before \o <<e>> \in Seq(T) /\ Len(before \o <<e>>) = k - 1 + 1
        /\ \A j \in 1 .. k - 1 + 1 :
             (before \o <<e>>)[j] = IF j <= k - 1 THEN before[j] ELSE <<e>>[j - (k - 1)]
    BY <1>2, <2>1, ConcatProperties
  <2>3. QED
    BY <1>1, <1>2, <2>1, <2>2
<1>6. /\ before \o <<e>> \o after \in Seq(T)
      /\ Len(before \o <<e>> \o after) = k + (Len(s) - k + 1)
      /\ \A j \in 1 .. k + (Len(s) - k + 1) :
           (before \o <<e>> \o after)[j] =
             IF j <= k THEN (before \o <<e>>)[j] ELSE after[j - k]
  <2> DEFINE first == before \o <<e>>
  <2>1. first \in Seq(T) /\ Len(first) = k /\ after \in Seq(T)
    BY <1>3, <1>5
  <2> HIDE DEF first
  <2>2. /\ first \o after \in Seq(T)
        /\ Len(first \o after) = Len(first) + Len(after)
        /\ \A j \in 1 .. Len(first) + Len(after) :
             (first \o after)[j] = IF j <= Len(first) THEN first[j] ELSE after[j - Len(first)]
    BY <2>1, ConcatProperties
  <2>3. QED
    BY <1>3, <2>1, <2>2 DEF first
<1>7. k + (Len(s) - k + 1) = Len(s) + 1
  BY <1>1
<1>8. ASSUME NEW j \in 1 .. Len(s) + 1
      PROVE  InsertAt(s, k, e)[j] =
               IF j < k THEN s[j] ELSE IF j = k THEN e ELSE s[j - 1]
  <2>1. CASE j <= k
    BY <1>1, <1>4, <1>5, <1>6, <1>7, <2>1
  <2>2. CASE j > k
    <3>1. j - k \in 1 .. Len(s) - k + 1 /\ k + (j - k) - 1 = j - 1
      BY <1>1, <2>2
    <3>2. after[j - k] = s[j - 1]
      BY <1>3, <3>1
    <3>3. InsertAt(s, k, e)[j] = after[j - k]
      <4>1. j \in 1 .. k + (Len(s) - k + 1) /\ ~(j <= k)
        BY <1>1, <1>7, <2>2
      <4>2. (before \o <<e>> \o after)[j] =
              IF j <= k THEN (before \o <<e>>)[j] ELSE after[j - k]
        BY <1>6, <4>1
      <4>3. QED
        BY <1>4, <4>1, <4>2
    <3>4. QED
      BY <1>1, <2>2, <3>2, <3>3
  <2>3. QED
    BY <1>1, <2>1, <2>2
<1>9. InsertAt(s, k, e) \in Seq(T) /\ Len(InsertAt(s, k, e)) = Len(s) + 1
  BY <1>4, <1>6, <1>7
<1>10. QED
  BY <1>8, <1>9 DEF Inserted

LEMMA RemoveAtElements ==
  ASSUME NEW T, NEW s \in Seq(T), NEW k \in 1 .. Len(s)
  PROVE  /\ RemoveAt(s, k) \in Seq(T)
         /\ Len(RemoveAt(s, k)) = Len(s) - 1
         /\ \A j \in 1 .. Len(s) - 1 :
              RemoveAt(s, k)[j] = IF j < k THEN s[j] ELSE s[j + 1]
<1> DEFINE before == SubSeq(s, 1, k - 1)
           after  == SubSeq(s, k + 1, Len(s))
<1>1. Len(s) \in Nat /\ k - 1 \in Nat /\ k - 1 <= Len(s) /\ Len(s) - k \in Nat
  BY LenProperties
<1>2. /\ before \in Seq(T) /\ Len(before) = k - 1
      /\ \A j \in 1 .. k - 1 : before[j] = s[j]
  <2>1. \A j \in 1 .. k - 1 : s[j] \in T
    BY <1>1, ElementOfSeq
  <2>2. QED
    BY <1>1, <2>1, SubSeqProperties
<1>3. /\ after \in Seq(T) /\ Len(after) = Len(s) - k
      /\ \A j \in 1 .. Len(s) - k : after[j] = s[k + j]
  <2>1. \A j \in k + 1 .. Len(s) : s[j] \in T
    BY <1>1, ElementOfSeq
  <2>2. /\ after \in Seq(T)
        /\ Len(after) = IF k + 1 <= Len(s) THEN Len(s) - (k + 1) + 1 ELSE 0
        /\ \A j \in 1 .. Len(s) - (k + 1) + 1 : after[j] = s[k + 1 + j - 1]
    BY <1>1, <2>1, SubSeqProperties
  <2>3. QED
    BY <1>1, <2>2
<1>4. RemoveAt(s, k) = before \o after
  BY DEF RemoveAt
<1> HIDE DEF before, after
<1>5. /\ before \o after \in Seq(T)
      /\ Len(before \o after) = k - 1 + (Len(s) - k)
      /\ \A j \in 1 .. k - 1 + (Len(s) - k) :
           (before \o after)[j] = IF j <= k - 1 THEN before[j] ELSE after[j - (k - 1)]
  <2>1. before \in Seq(T) /\ after \in Seq(T)
    BY <1>2, <1>3
  <2>2. /\ before \o after \in Seq(T)
        /\ Len(before \o after) = Len(before) + Len(after)
        /\ \A j \in 1 .. Len(before) + Len(after) :
             (before \o after)[j] =
               IF j <= Len(before) THEN before[j] ELSE after[j - Len(before)]
    BY <2>1, ConcatProperties
  <2>3. QED
    BY <1>2, <1>3, <2>2
<1>6. k - 1 + (Len(s) - k) = Len(s) - 1
  BY <1>1
<1>7. ASSUME NEW j \in 1 .. Len(s) - 1
      PROVE  RemoveAt(s, k)[j] = IF j < k THEN s[j] ELSE s[j + 1]
  <2>1. CASE j < k
    <3>1. j <= k - 1 /\ j \in 1 .. k - 1
      BY <1>1, <2>1
    <3>2. QED
      BY <1>2, <1>4, <1>5, <1>6, <2>1, <3>1
  <2>2. CASE j >= k
    <3>1. ~(j <= k - 1) /\ j - (k - 1) \in 1 .. Len(s) - k /\ k + (j - (k - 1)) = j + 1
      BY <1>1, <2>2
    <3>2. after[j - (k - 1)] = s[j + 1]
      BY <1>3, <3>1
    <3>3. QED
      BY <1>4, <1>5, <1>6, <2>2, <3>1, <3>2
  <2>3. QED
    BY <1>1, <2>1, <2>2
<1>8. QED
  BY <1>4, <1>5, <1>6, <1>7
-----------------------------------------------------------------------------
(***************************************************************************)
(* What each operation writes, field by field.                             *)
(***************************************************************************)
LEMMA ListsTypeFields ==
  ASSUME NEW L, ListsType(L)
  PROVE  /\ L.chain \in Seq(ListType) /\ DOMAIN L.chain = 1 .. Len(L.chain)
         /\ Len(L.chain) \in Nat
         /\ L.next \in [Points -> Points \cup {0, LIST_TAIL}]
         /\ L.prev \in [Points -> Points \cup {0, LIST_HEAD}]
         /\ \A j \in DOMAIN L.chain :
              /\ L.chain[j] \in ListType /\ L.chain[j].data \in Int
              /\ L.chain[j].head \in Points /\ L.chain[j].tail \in Points
<1>1. L.chain \in Seq(ListType)
  BY DEF ListsType
<1>2. DOMAIN L.chain = 1 .. Len(L.chain) /\ Len(L.chain) \in Nat
  BY <1>1, LenProperties
<1>3. \A j \in DOMAIN L.chain : L.chain[j] \in ListType
  BY <1>1, <1>2, ElementOfSeq
<1>4. \A list \in ListType : list.data \in Int /\ list.head \in Points /\ list.tail \in Points
  BY DEF ListType
<1>5. QED
  BY <1>1, <1>2, <1>3, <1>4 DEF ListsType

LEMMA ListReplaced ==
  ASSUME NEW chain \in Seq(ListType), NEW k \in DOMAIN chain, NEW list \in ListType
  PROVE  /\ [chain EXCEPT ![k] = list] \in Seq(ListType)
         /\ DOMAIN [chain EXCEPT ![k] = list] = DOMAIN chain
         /\ \A j \in DOMAIN chain :
              [chain EXCEPT ![k] = list][j] = IF j = k THEN list ELSE chain[j]
<1>1. DOMAIN chain = 1 .. Len(chain)
  BY LenProperties
<1>2. [chain EXCEPT ![k] = list] \in Seq(ListType)
  BY <1>1, ExceptSeq
<1>3. QED
  BY <1>2

LEMMA ListParts ==
  ASSUME NEW list \in ListType, NEW i \in Points
  PROVE  /\ [list EXCEPT !.head = i] \in ListType
         /\ [list EXCEPT !.head = i].data = list.data
         /\ [list EXCEPT !.head = i].head = i
         /\ [list EXCEPT !.head = i].tail = list.tail
         /\ [list EXCEPT !.tail = i] \in ListType
         /\ [list EXCEPT !.tail = i].data = list.data
         /\ [list EXCEPT !.tail = i].head = list.head
         /\ [list EXCEPT !.tail = i].tail = i
BY DEF ListType

LEMMA AppendPointFields ==
  ASSUME NEW L, ListsType(L), NEW k \in DOMAIN L.chain, NEW i \in Points
  PROVE  LET M == AppendPoint(L, k, i) IN
         /\ ListsType(M) /\ DOMAIN M.chain = DOMAIN L.chain
         /\ \A j \in DOMAIN L.chain :
              /\ M.chain[j].data = L.chain[j].data
              /\ M.chain[j].head = L.chain[j].head
              /\ M.chain[j].tail = IF j = k THEN i ELSE L.chain[j].tail
         /\ \A x \in Points :
              /\ M.next[x] = IF x = i THEN LIST_TAIL
                             ELSE IF x = L.chain[k].tail THEN i ELSE L.next[x]
              /\ M.prev[x] = IF x = i THEN L.chain[k].tail ELSE L.prev[x]
<1> DEFINE M == AppendPoint(L, k, i)
           old == L.chain[k].tail
           list == [L.chain[k] EXCEPT !.tail = i]
           chain == [L.chain EXCEPT ![k] = list]
           next == [L.next EXCEPT ![old] = i, ![i] = LIST_TAIL]
           prev == [L.prev EXCEPT ![i] = old]
<1>1. /\ M.chain = chain /\ M.next = next /\ M.prev = prev
      /\ M \in [chain : {M.chain}, next : {M.next}, prev : {M.prev}]
  <2>1. M.chain = chain
    BY DEF AppendPoint, ListsType
  <2>2. M.next = next
    BY DEF AppendPoint, ListsType
  <2>3. M.prev = prev
    BY DEF AppendPoint, ListsType
  <2>4. M \in [chain : {M.chain}, next : {M.next}, prev : {M.prev}]
    BY DEF AppendPoint, ListsType
  <2>5. QED
    BY <2>1, <2>2, <2>3, <2>4
<1>2. old \in Points /\ L.chain[k] \in ListType /\ L.chain \in Seq(ListType)
  BY ListsTypeFields
<1>3. /\ chain \in Seq(ListType) /\ DOMAIN chain = DOMAIN L.chain
      /\ \A j \in DOMAIN L.chain : chain[j] = IF j = k THEN list ELSE L.chain[j]
  BY <1>2, ListParts, ListReplaced
<1>4. list.data = L.chain[k].data /\ list.head = L.chain[k].head /\ list.tail = i
  BY <1>2, ListParts
<1>5. next \in [Points -> Points \cup {0, LIST_TAIL}]
      /\ \A x \in Points : next[x] = IF x = i THEN LIST_TAIL
                                     ELSE IF x = old THEN i ELSE L.next[x]
  <2>1. L.next \in [Points -> Points \cup {0, LIST_TAIL}]
    BY ListsTypeFields
  <2>2. QED
    BY <1>2, <2>1
<1>6. prev \in [Points -> Points \cup {0, LIST_HEAD}]
      /\ \A x \in Points : prev[x] = IF x = i THEN old ELSE L.prev[x]
  <2>1. L.prev \in [Points -> Points \cup {0, LIST_HEAD}]
    BY ListsTypeFields
  <2>2. QED
    BY <1>2, <2>1
<1> HIDE DEF M, list, chain, next, prev
<1>7. ListsType(M)
  BY <1>1, <1>3, <1>5, <1>6 DEF ListsType
<1>8. \A j \in DOMAIN L.chain :
        /\ M.chain[j].data = L.chain[j].data
        /\ M.chain[j].head = L.chain[j].head
        /\ M.chain[j].tail = IF j = k THEN i ELSE L.chain[j].tail
  BY <1>1, <1>3, <1>4
<1>9. QED
  BY <1>1, <1>3, <1>5, <1>6, <1>7, <1>8 DEF M

LEMMA InsertListFields ==
  ASSUME NEW L, ListsType(L), NEW k \in 1 .. Len(L.chain) + 1, NEW m \in Int,
         NEW i \in Points
  PROVE  LET M == InsertList(L, k, m, i) IN
         /\ ListsType(M) /\ DOMAIN M.chain = 1 .. Len(L.chain) + 1
         /\ \A j \in DOMAIN M.chain :
              M.chain[j] = IF j < k THEN L.chain[j]
                           ELSE IF j = k THEN NewList(m, i) ELSE L.chain[j - 1]
         /\ \A x \in Points :
              /\ M.next[x] = IF x = i THEN LIST_TAIL ELSE L.next[x]
              /\ M.prev[x] = IF x = i THEN LIST_HEAD ELSE L.prev[x]
<1> DEFINE M == InsertList(L, k, m, i)
           chain == InsertAt(L.chain, k, NewList(m, i))
           next == [L.next EXCEPT ![i] = LIST_TAIL]
           prev == [L.prev EXCEPT ![i] = LIST_HEAD]
<1>1. /\ M.chain = chain /\ M.next = next /\ M.prev = prev
      /\ M \in [chain : {M.chain}, next : {M.next}, prev : {M.prev}]
  <2>1. M.chain = chain
    BY DEF InsertList, ListsType
  <2>2. M.next = next
    BY DEF InsertList, ListsType
  <2>3. M.prev = prev
    BY DEF InsertList, ListsType
  <2>4. M \in [chain : {M.chain}, next : {M.next}, prev : {M.prev}]
    BY DEF InsertList, ListsType
  <2>5. QED
    BY <2>1, <2>2, <2>3, <2>4
<1>2. L.chain \in Seq(ListType) /\ Len(L.chain) \in Nat
  BY ListsTypeFields
<1>3. NewList(m, i) \in ListType
  BY DEF NewList, ListType
<1>4. /\ chain \in Seq(ListType) /\ Len(chain) = Len(L.chain) + 1
      /\ \A j \in 1 .. Len(L.chain) + 1 :
           chain[j] = IF j < k THEN L.chain[j]
                      ELSE IF j = k THEN NewList(m, i) ELSE L.chain[j - 1]
  <2> DEFINE T == ListType
             s == L.chain
             e == NewList(m, i)
  <2>1. s \in Seq(T) /\ e \in T /\ k \in 1 .. Len(s) + 1
    BY <1>2, <1>3
  <2> HIDE DEF T, s, e, M, chain, next, prev
  <2>2. InsertAt(s, k, e) \in Seq(T) /\ Inserted(InsertAt(s, k, e), s, k, e)
    BY <2>1, InsertAtElements
  <2>3. QED
    BY <2>2 DEF T, s, e, chain, Inserted
<1>5. DOMAIN chain = 1 .. Len(L.chain) + 1
  <2> HIDE DEF chain
  <2> QED
    BY <1>4, LenProperties
<1>6. next \in [Points -> Points \cup {0, LIST_TAIL}]
      /\ \A x \in Points : next[x] = IF x = i THEN LIST_TAIL ELSE L.next[x]
  <2>1. L.next \in [Points -> Points \cup {0, LIST_TAIL}]
    BY ListsTypeFields
  <2>2. QED
    BY <2>1
<1>7. prev \in [Points -> Points \cup {0, LIST_HEAD}]
      /\ \A x \in Points : prev[x] = IF x = i THEN LIST_HEAD ELSE L.prev[x]
  <2>1. L.prev \in [Points -> Points \cup {0, LIST_HEAD}]
    BY ListsTypeFields
  <2>2. QED
    BY <2>1
<1> HIDE DEF M, chain, next, prev
<1>8. ListsType(M)
  BY <1>1, <1>4, <1>6, <1>7 DEF ListsType
<1>9. QED
  BY <1>1, <1>4, <1>5, <1>6, <1>7, <1>8 DEF M


WithoutList(L, k) == [L EXCEPT !.chain = RemoveAt(@, k)]

LEMMA WithoutListFields ==
  ASSUME NEW L, ListsType(L), NEW k \in DOMAIN L.chain
  PROVE  LET M == WithoutList(L, k) IN
         /\ ListsType(M) /\ DOMAIN M.chain = 1 .. Len(L.chain) - 1
         /\ \A j \in DOMAIN M.chain :
              M.chain[j] = IF j < k THEN L.chain[j] ELSE L.chain[j + 1]
         /\ M.next = L.next /\ M.prev = L.prev
<1> DEFINE M == WithoutList(L, k)
           chain == RemoveAt(L.chain, k)
<1>1. /\ M.chain = chain /\ M.next = L.next /\ M.prev = L.prev
      /\ M \in [chain : {M.chain}, next : {M.next}, prev : {M.prev}]
  BY DEF WithoutList, ListsType
<1>2. L.chain \in Seq(ListType) /\ DOMAIN L.chain = 1 .. Len(L.chain)
  BY ListsTypeFields
<1>3. /\ chain \in Seq(ListType) /\ Len(chain) = Len(L.chain) - 1
      /\ \A j \in 1 .. Len(L.chain) - 1 :
           chain[j] = IF j < k THEN L.chain[j] ELSE L.chain[j + 1]
  BY <1>2, RemoveAtElements
<1>4. DOMAIN chain = 1 .. Len(L.chain) - 1
  <2> HIDE DEF chain
  <2> QED
    BY <1>3, LenProperties
<1> HIDE DEF M, chain
<1>5. ListsType(M)
  BY <1>1, <1>3 DEF ListsType
<1>6. QED
  BY <1>1, <1>3, <1>4, <1>5 DEF M

LEMMA UnlinkFirstFields ==
  ASSUME NEW L, ListsType(L), NEW k \in DOMAIN L.chain, NEW i \in Points,
         L.next[i] \in Points
  PROVE  LET M == UnlinkFirst(L, k, i) IN
         /\ ListsType(M) /\ DOMAIN M.chain = DOMAIN L.chain
         /\ \A j \in DOMAIN L.chain :
              /\ M.chain[j].data = L.chain[j].data
              /\ M.chain[j].head = IF j = k THEN L.next[i] ELSE L.chain[j].head
              /\ M.chain[j].tail = L.chain[j].tail
         /\ M.next = L.next
         /\ \A x \in Points : M.prev[x] = IF x = L.next[i] THEN LIST_HEAD ELSE L.prev[x]
<1> DEFINE M == UnlinkFirst(L, k, i)
           list == [L.chain[k] EXCEPT !.head = L.next[i]]
           chain == [L.chain EXCEPT ![k] = list]
           prev == [L.prev EXCEPT ![L.next[i]] = LIST_HEAD]
<1>1. /\ M.chain = chain /\ M.next = L.next /\ M.prev = prev
      /\ M \in [chain : {M.chain}, next : {M.next}, prev : {M.prev}]
  <2>1. M.chain = chain
    BY DEF UnlinkFirst, ListsType
  <2>2. M.next = L.next
    BY DEF UnlinkFirst, ListsType
  <2>3. M.prev = prev
    BY DEF UnlinkFirst, ListsType
  <2>4. M \in [chain : {M.chain}, next : {M.next}, prev : {M.prev}]
    BY DEF UnlinkFirst, ListsType
  <2>5. QED
    BY <2>1, <2>2, <2>3, <2>4
<1>2. L.chain[k] \in ListType /\ L.chain \in Seq(ListType)
      /\ L.next \in [Points -> Points \cup {0, LIST_TAIL}]
  BY ListsTypeFields
<1>3. /\ chain \in Seq(ListType) /\ DOMAIN chain = DOMAIN L.chain
      /\ \A j \in DOMAIN L.chain : chain[j] = IF j = k THEN list ELSE L.chain[j]
  BY <1>2, ListParts, ListReplaced
<1>4. list.data = L.chain[k].data /\ list.head = L.next[i] /\ list.tail = L.chain[k].tail
  BY <1>2, ListParts
<1>5. prev \in [Points -> Points \cup {0, LIST_HEAD}]
      /\ \A x \in Points : prev[x] = IF x = L.next[i] THEN LIST_HEAD ELSE L.prev[x]
  <2>1. L.prev \in [Points -> Points \cup {0, LIST_HEAD}]
    BY ListsTypeFields
  <2>2. QED
    BY <2>1
<1> HIDE DEF M, list, chain, prev
<1>6. ListsType(M)
  BY <1>1, <1>2, <1>3, <1>5 DEF ListsType
<1>7. \A j \in DOMAIN L.chain :
        /\ M.chain[j].data = L.chain[j].data
        /\ M.chain[j].head = IF j = k THEN L.next[i] ELSE L.chain[j].head
        /\ M.chain[j].tail = L.chain[j].tail
  BY <1>1, <1>3, <1>4
<1>8. QED
  BY <1>1, <1>3, <1>5, <1>6, <1>7 DEF M

LEMMA UnlinkLastFields ==
  ASSUME NEW L, ListsType(L), NEW k \in DOMAIN L.chain, NEW i \in Points,
         L.prev[i] \in Points
  PROVE  LET M == UnlinkLast(L, k, i) IN
         /\ ListsType(M) /\ DOMAIN M.chain = DOMAIN L.chain
         /\ \A j \in DOMAIN L.chain :
              /\ M.chain[j].data = L.chain[j].data
              /\ M.chain[j].head = L.chain[j].head
              /\ M.chain[j].tail = IF j = k THEN L.prev[i] ELSE L.chain[j].tail
         /\ M.prev = L.prev
         /\ \A x \in Points : M.next[x] = IF x = L.prev[i] THEN LIST_TAIL ELSE L.next[x]
<1> DEFINE M == UnlinkLast(L, k, i)
           list == [L.chain[k] EXCEPT !.tail = L.prev[i]]
           chain == [L.chain EXCEPT ![k] = list]
           next == [L.next EXCEPT ![L.prev[i]] = LIST_TAIL]
<1>1. /\ M.chain = chain /\ M.next = next /\ M.prev = L.prev
      /\ M \in [chain : {M.chain}, next : {M.next}, prev : {M.prev}]
  <2>1. M.chain = chain
    BY DEF UnlinkLast, ListsType
  <2>2. M.next = next
    BY DEF UnlinkLast, ListsType
  <2>3. M.prev = L.prev
    BY DEF UnlinkLast, ListsType
  <2>4. M \in [chain : {M.chain}, next : {M.next}, prev : {M.prev}]
    BY DEF UnlinkLast, ListsType
  <2>5. QED
    BY <2>1, <2>2, <2>3, <2>4
<1>2. L.chain[k] \in ListType /\ L.chain \in Seq(ListType)
      /\ L.prev \in [Points -> Points \cup {0, LIST_HEAD}]
  BY ListsTypeFields
<1>3. /\ chain \in Seq(ListType) /\ DOMAIN chain = DOMAIN L.chain
      /\ \A j \in DOMAIN L.chain : chain[j] = IF j = k THEN list ELSE L.chain[j]
  BY <1>2, ListParts, ListReplaced
<1>4. list.data = L.chain[k].data /\ list.head = L.chain[k].head /\ list.tail = L.prev[i]
  BY <1>2, ListParts
<1>5. next \in [Points -> Points \cup {0, LIST_TAIL}]
      /\ \A x \in Points : next[x] = IF x = L.prev[i] THEN LIST_TAIL ELSE L.next[x]
  <2>1. L.next \in [Points -> Points \cup {0, LIST_TAIL}]
    BY ListsTypeFields
  <2>2. QED
    BY <2>1
<1> HIDE DEF M, list, chain, next
<1>6. ListsType(M)
  BY <1>1, <1>2, <1>3, <1>5 DEF ListsType
<1>7. \A j \in DOMAIN L.chain :
        /\ M.chain[j].data = L.chain[j].data
        /\ M.chain[j].head = L.chain[j].head
        /\ M.chain[j].tail = IF j = k THEN L.prev[i] ELSE L.chain[j].tail
  BY <1>1, <1>3, <1>4
<1>8. QED
  BY <1>1, <1>3, <1>5, <1>6, <1>7 DEF M

LEMMA UnlinkInnerFields ==
  ASSUME NEW L, ListsType(L), NEW i \in Points, L.prev[i] \in Points, L.next[i] \in Points
  PROVE  LET M == UnlinkInner(L, i) IN
         /\ ListsType(M) /\ M.chain = L.chain
         /\ \A x \in Points :
              /\ M.next[x] = IF x = L.prev[i] THEN L.next[i] ELSE L.next[x]
              /\ M.prev[x] = IF x = L.next[i] THEN L.prev[i] ELSE L.prev[x]
<1> DEFINE M == UnlinkInner(L, i)
           next == [L.next EXCEPT ![L.prev[i]] = L.next[i]]
           prev == [L.prev EXCEPT ![L.next[i]] = L.prev[i]]
<1>1. /\ M.chain = L.chain /\ M.next = next /\ M.prev = prev
      /\ M \in [chain : {M.chain}, next : {M.next}, prev : {M.prev}]
  <2>1. M.chain = L.chain
    BY DEF UnlinkInner, ListsType
  <2>2. M.next = next
    BY DEF UnlinkInner, ListsType
  <2>3. M.prev = prev
    BY DEF UnlinkInner, ListsType
  <2>4. M \in [chain : {M.chain}, next : {M.next}, prev : {M.prev}]
    BY DEF UnlinkInner, ListsType
  <2>5. QED
    BY <2>1, <2>2, <2>3, <2>4
<1>2. L.chain \in Seq(ListType)
      /\ L.next \in [Points -> Points \cup {0, LIST_TAIL}]
      /\ L.prev \in [Points -> Points \cup {0, LIST_HEAD}]
  BY ListsTypeFields
<1>3. next \in [Points -> Points \cup {0, LIST_TAIL}]
      /\ \A x \in Points : next[x] = IF x = L.prev[i] THEN L.next[i] ELSE L.next[x]
  BY <1>2
<1>4. prev \in [Points -> Points \cup {0, LIST_HEAD}]
      /\ \A x \in Points : prev[x] = IF x = L.next[i] THEN L.prev[i] ELSE L.prev[x]
  BY <1>2
<1> HIDE DEF M, next, prev
<1>5. ListsType(M)
  BY <1>1, <1>2, <1>3, <1>4 DEF ListsType
<1>6. QED
  BY <1>1, <1>3, <1>4, <1>5 DEF M
-----------------------------------------------------------------------------
(***************************************************************************)
(* OnLists in terms of Ordered, and that enter_on_lists and remove_point    *)
(* keep it.                                                                *)
(***************************************************************************)
Under(P, ms, m) == { i \in P : ms[i] = m }
Kept(L, P, ms) ==
  /\ \A i \in P : \E k \in DOMAIN L.chain : L.chain[k].data = ms[i]
  /\ \A j, k \in DOMAIN L.chain : j < k => L.chain[j].data > L.chain[k].data
  /\ \A k \in DOMAIN L.chain :
       Ordered(L.next, L.prev, L.chain[k].head, L.chain[k].tail,
               Under(P, ms, L.chain[k].data))

LEMMA OnListsKept ==
  ASSUME NEW L, NEW P \in SUBSET Points, NEW ms
  PROVE  OnLists(L, P, ms) <=> Kept(L, P, ms)
<1>1. ASSUME NEW k \in DOMAIN L.chain
      PROVE  Linked(L, L.chain[k], { i \in P : ms[i] = L.chain[k].data })
               <=> Ordered(L.next, L.prev, L.chain[k].head, L.chain[k].tail,
                           Under(P, ms, L.chain[k].data))
  <2>1. Under(P, ms, L.chain[k].data) \in SUBSET Points
    BY DEF Under
  <2>2. QED
    BY <2>1, LinkedOrdered DEF Under
<1>2. ASSUME Kept(L, P, ms), NEW k \in DOMAIN L.chain
      PROVE  \E i \in P : ms[i] = L.chain[k].data
  <2>1. Ordered(L.next, L.prev, L.chain[k].head, L.chain[k].tail,
                Under(P, ms, L.chain[k].data))
    BY <1>2 DEF Kept
  <2>2. L.chain[k].head \in Under(P, ms, L.chain[k].data)
    BY <2>1, OrderedEnds
  <2>3. QED
    BY <2>2 DEF Under
<1>3. ASSUME Kept(L, P, ms) PROVE OnLists(L, P, ms)
  <2>1. { ms[i] : i \in P } = { L.chain[k].data : k \in DOMAIN L.chain }
    BY <1>2, <1>3 DEF Kept
  <2>2. QED
    BY <1>1, <1>3, <2>1 DEF Kept, OnLists
<1>4. ASSUME OnLists(L, P, ms) PROVE Kept(L, P, ms)
  <2>1. \A i \in P : \E k \in DOMAIN L.chain : L.chain[k].data = ms[i]
    BY <1>4 DEF OnLists
  <2>2. QED
    BY <1>1, <1>4, <2>1 DEF Kept, OnLists
<1>5. QED
  BY <1>3, <1>4

(* Only the measures of the listed points matter.                          *)
LEMMA KeptAgrees ==
  ASSUME NEW L, NEW P, NEW ms, NEW ms2, Kept(L, P, ms), \A i \in P : ms2[i] = ms[i]
  PROVE  Kept(L, P, ms2)
<1>1. \A m : Under(P, ms2, m) = Under(P, ms, m)
  BY DEF Under
<1>2. QED
  BY <1>1 DEF Kept

(* A point that is on no list is entered.                                  *)
LEMMA EnterKeeps ==
  ASSUME NEW L, ListsType(L), NEW P \in SUBSET Points, NEW ms, Kept(L, P, ms),
         NEW i \in Points, i \notin P, NEW m \in Int, NEW ms2, ms2[i] = m,
         \A x \in P : ms2[x] = ms[x]
  PROVE  /\ ListsType(enter_on_lists(L, m, i))
         /\ Kept(enter_on_lists(L, m, i), P \cup {i}, ms2)
<1> DEFINE found == FirstNotAbove(L.chain, m)
           k == IF found = 0 THEN Len(L.chain) + 1 ELSE found
           Q == P \cup {i}
<1>1. /\ L.chain \in Seq(ListType) /\ DOMAIN L.chain = 1 .. Len(L.chain)
      /\ Len(L.chain) \in Nat
      /\ \A j \in DOMAIN L.chain :
           /\ L.chain[j].data \in Int
           /\ L.chain[j].head \in Points /\ L.chain[j].tail \in Points
  BY ListsTypeFields
<1>2. \/ found = 0 /\ \A j \in DOMAIN L.chain : L.chain[j].data > m
      \/ /\ found \in DOMAIN L.chain /\ L.chain[found].data <= m
         /\ \A j \in DOMAIN L.chain : j < found => L.chain[j].data > m
  BY <1>1, FirstNotAboveFound
<1>3. k \in 1 .. Len(L.chain) + 1 /\ \A j \in DOMAIN L.chain : j < k => L.chain[j].data > m
  BY <1>1, <1>2
<1>4. k \in DOMAIN L.chain => L.chain[k].data <= m
  BY <1>1, <1>2
<1>5. enter_on_lists(L, m, i) =
        IF k <= Len(L.chain) /\ L.chain[k].data = m
          THEN AppendPoint(L, k, i) ELSE InsertList(L, k, m, i)
  BY DEF enter_on_lists
<1> HIDE DEF found, k
<1>6. /\ \A d : d # m => Under(Q, ms2, d) = Under(P, ms, d)
      /\ Under(Q, ms2, m) = Under(P, ms, m) \cup {i}
      /\ \A d : Under(P, ms, d) \subseteq P
  BY DEF Under
<1>7. \A j, l \in DOMAIN L.chain : j < l => L.chain[j].data > L.chain[l].data
  BY DEF Kept
<1>8. CASE k <= Len(L.chain) /\ L.chain[k].data = m
  <2> DEFINE M == AppendPoint(L, k, i)
  <2>1. k \in DOMAIN L.chain
    BY <1>1, <1>3, <1>8
  <2>2. /\ ListsType(M) /\ DOMAIN M.chain = DOMAIN L.chain
        /\ \A j \in DOMAIN L.chain :
             /\ M.chain[j].data = L.chain[j].data
             /\ M.chain[j].head = L.chain[j].head
             /\ M.chain[j].tail = IF j = k THEN i ELSE L.chain[j].tail
        /\ \A x \in Points :
             /\ M.next[x] = IF x = i THEN LIST_TAIL
                            ELSE IF x = L.chain[k].tail THEN i ELSE L.next[x]
             /\ M.prev[x] = IF x = i THEN L.chain[k].tail ELSE L.prev[x]
    BY <2>1, AppendPointFields
  <2> HIDE DEF M
  <2>3. \A x \in Q : \E j \in DOMAIN M.chain : M.chain[j].data = ms2[x]
    BY <1>8, <2>1, <2>2 DEF Kept
  <2>4. \A j, l \in DOMAIN M.chain : j < l => M.chain[j].data > M.chain[l].data
    BY <1>7, <2>2
  <2>5. ASSUME NEW j \in DOMAIN M.chain
        PROVE  Ordered(M.next, M.prev, M.chain[j].head, M.chain[j].tail,
                       Under(Q, ms2, M.chain[j].data))
    <3> DEFINE U == Under(P, ms, L.chain[j].data)
    <3>1. Ordered(L.next, L.prev, L.chain[j].head, L.chain[j].tail, U)
      BY <2>2 DEF Kept
    <3>2. U \subseteq Points /\ i \notin U
      BY <1>6
    <3>3. L.chain[k].tail \in Under(P, ms, m)
      <4>1. Ordered(L.next, L.prev, L.chain[k].head, L.chain[k].tail,
                    Under(P, ms, L.chain[k].data))
        BY <2>1 DEF Kept
      <4>2. QED
        BY <1>8, <4>1, OrderedEnds
    <3> HIDE DEF U
    <3>4. CASE j = k
      <4>1. /\ \A x \in U : M.next[x] = IF x = L.chain[j].tail THEN i ELSE L.next[x]
            /\ \A x \in U : M.prev[x] = L.prev[x]
            /\ M.next[i] = LIST_TAIL /\ M.prev[i] = L.chain[j].tail
        BY <2>2, <3>2, <3>4
      <4>2. Ordered(M.next, M.prev, L.chain[j].head, i, U \cup {i})
        BY <3>1, <3>2, <4>1, OrderedAppended
      <4>3. U \cup {i} = Under(Q, ms2, M.chain[j].data)
        BY <1>6, <1>8, <2>2, <3>4 DEF U
      <4>4. M.chain[j].head = L.chain[j].head /\ M.chain[j].tail = i
        BY <2>2, <3>4
      <4>5. QED
        BY <4>2, <4>3, <4>4
    <3>5. CASE j # k
      <4>1. L.chain[j].data # m
        BY <1>1, <1>7, <1>8, <2>1, <2>2, <3>5
      <4>2. L.chain[k].tail \notin U
        BY <3>3, <4>1 DEF Under, U
      <4>3. \A x \in U : M.next[x] = L.next[x] /\ M.prev[x] = L.prev[x]
        BY <2>2, <3>2, <4>2
      <4>4. Ordered(M.next, M.prev, L.chain[j].head, L.chain[j].tail, U)
        BY <3>1, <4>3, OrderedElsewhere
      <4>5. U = Under(Q, ms2, M.chain[j].data)
        BY <1>6, <2>2, <4>1 DEF U
      <4>6. M.chain[j].head = L.chain[j].head /\ M.chain[j].tail = L.chain[j].tail
        BY <2>2, <3>5
      <4>7. QED
        BY <4>4, <4>5, <4>6
    <3>6. QED
      BY <3>4, <3>5
  <2>6. Kept(M, Q, ms2)
    BY <2>3, <2>4, <2>5 DEF Kept
  <2>7. QED
    BY <1>5, <1>8, <2>2, <2>6 DEF M
<1>9. CASE ~(k <= Len(L.chain) /\ L.chain[k].data = m)
  <2> DEFINE M == InsertList(L, k, m, i)
             old(j) == IF j < k THEN j ELSE j - 1
  <2>1. /\ ListsType(M) /\ DOMAIN M.chain = 1 .. Len(L.chain) + 1
        /\ \A j \in DOMAIN M.chain :
             M.chain[j] = IF j < k THEN L.chain[j]
                          ELSE IF j = k THEN NewList(m, i) ELSE L.chain[j - 1]
        /\ \A x \in Points :
             /\ M.next[x] = IF x = i THEN LIST_TAIL ELSE L.next[x]
             /\ M.prev[x] = IF x = i THEN LIST_HEAD ELSE L.prev[x]
    BY <1>3, InsertListFields
  <2> HIDE DEF M
  <2>2. \A j \in DOMAIN L.chain : j >= k => L.chain[j].data < m
    <3>1. TAKE j \in DOMAIN L.chain
    <3>2. HAVE j >= k
    <3>3. k \in DOMAIN L.chain /\ k <= Len(L.chain)
      BY <1>1, <1>3, <3>2
    <3>4. L.chain[k].data < m /\ L.chain[j].data <= L.chain[k].data
      BY <1>1, <1>3, <1>4, <1>7, <1>9, <3>2, <3>3
    <3>5. QED
      BY <1>1, <3>3, <3>4
  <2>3. \A j \in DOMAIN L.chain : L.chain[j].data # m
    BY <1>1, <1>3, <2>2
  <2>4. Under(Q, ms2, m) = {i}
    <3>1. Under(P, ms, m) = {}
      BY <2>3 DEF Under, Kept
    <3>2. QED
      BY <1>6, <3>1
  <2>5. \A j \in DOMAIN M.chain : j # k =>
          /\ old(j) \in DOMAIN L.chain /\ M.chain[j] = L.chain[old(j)]
          /\ old(j) < k <=> j < k
    BY <1>1, <1>3, <2>1
  <2>6. k \in DOMAIN M.chain /\ M.chain[k] = NewList(m, i)
    BY <1>1, <1>3, <2>1
  <2>7. \A j \in DOMAIN L.chain : \E l \in DOMAIN M.chain : l # k /\ M.chain[l] = L.chain[j]
    <3> TAKE j \in DOMAIN L.chain
    <3>1. CASE j < k
      <4>1. j \in DOMAIN M.chain /\ j # k /\ M.chain[j] = L.chain[j]
        BY <1>1, <1>3, <2>1, <3>1
      <4>2. QED
        BY <4>1
    <3>2. CASE ~(j < k)
      <4> DEFINE l == j + 1
      <4>1. l \in DOMAIN M.chain /\ l # k /\ ~(l < k) /\ l - 1 = j
        BY <1>1, <1>3, <2>1, <3>2
      <4> HIDE DEF l
      <4>2. M.chain[l] = L.chain[j]
        BY <2>1, <4>1
      <4>3. QED
        BY <4>1, <4>2
    <3>3. QED
      BY <3>1, <3>2
  <2>8. NewList(m, i).data = m /\ NewList(m, i).head = i /\ NewList(m, i).tail = i
    BY DEF NewList
  <2>9. \A x \in Q : \E j \in DOMAIN M.chain : M.chain[j].data = ms2[x]
    <3> TAKE x \in Q
    <3>1. CASE x = i
      BY <2>6, <2>8, <3>1
    <3>2. CASE x # i
      <4>1. x \in P /\ ms2[x] = ms[x]
        BY <3>2
      <4>2. PICK j \in DOMAIN L.chain : L.chain[j].data = ms[x]
        BY <4>1 DEF Kept
      <4>3. QED
        BY <2>7, <4>1, <4>2
    <3>3. QED
      BY <3>1, <3>2
  <2>10. \A j, l \in DOMAIN M.chain : j < l => M.chain[j].data > M.chain[l].data
    <3> TAKE j, l \in DOMAIN M.chain
    <3> HAVE j < l
    <3>1. CASE j # k /\ l # k
      <4>1. old(j) \in DOMAIN L.chain /\ old(l) \in DOMAIN L.chain /\ old(j) < old(l)
        BY <1>1, <1>3, <2>1, <2>5, <3>1
      <4>2. QED
        BY <1>7, <2>5, <3>1, <4>1
    <3>2. CASE j = k
      <4>1. l # k /\ ~(old(l) < k) /\ old(l) \in DOMAIN L.chain
        BY <1>1, <1>3, <2>1, <2>5, <3>2
      <4>2. L.chain[old(l)].data < m
        BY <1>1, <1>3, <2>2, <4>1
      <4>3. M.chain[l].data = L.chain[old(l)].data /\ M.chain[j].data = m
        BY <2>5, <2>6, <2>8, <3>2, <4>1
      <4>4. QED
        BY <1>1, <4>1, <4>2, <4>3
    <3>3. CASE l = k
      <4>1. j # k /\ old(j) < k /\ old(j) \in DOMAIN L.chain
        BY <1>1, <1>3, <2>1, <2>5, <3>3
      <4>2. L.chain[old(j)].data > m
        BY <1>3, <4>1
      <4>3. M.chain[j].data = L.chain[old(j)].data /\ M.chain[l].data = m
        BY <2>5, <2>6, <2>8, <3>3, <4>1
      <4>4. QED
        BY <4>2, <4>3
    <3>4. QED
      BY <3>1, <3>2, <3>3
  <2>11. ASSUME NEW j \in DOMAIN M.chain
         PROVE  Ordered(M.next, M.prev, M.chain[j].head, M.chain[j].tail,
                        Under(Q, ms2, M.chain[j].data))
    <3>1. CASE j = k
      <4>1. M.next[i] = LIST_TAIL /\ M.prev[i] = LIST_HEAD
        BY <2>1
      <4>2. Ordered(M.next, M.prev, i, i, {i})
        BY <4>1, OrderedOne
      <4>3. /\ M.chain[j].data = m /\ M.chain[j].head = i /\ M.chain[j].tail = i
        BY <2>6, <2>8, <3>1
      <4>4. QED
        BY <2>4, <4>2, <4>3
    <3>2. CASE j # k
      <4> DEFINE l == old(j)
                 U == Under(P, ms, L.chain[l].data)
      <4>1. l \in DOMAIN L.chain /\ M.chain[j] = L.chain[l]
        BY <2>5, <3>2
      <4> HIDE DEF l
      <4>2. Ordered(L.next, L.prev, L.chain[l].head, L.chain[l].tail, U)
        BY <4>1 DEF Kept
      <4>3. U \subseteq Points /\ i \notin U
        BY <1>6
      <4>4. U = Under(Q, ms2, M.chain[j].data)
        BY <1>6, <2>3, <4>1
      <4> HIDE DEF U
      <4>5. \A x \in U : M.next[x] = L.next[x] /\ M.prev[x] = L.prev[x]
        BY <2>1, <4>3
      <4>6. Ordered(M.next, M.prev, L.chain[l].head, L.chain[l].tail, U)
        BY <4>2, <4>5, OrderedElsewhere
      <4>7. QED
        BY <4>1, <4>4, <4>6
    <3>3. QED
      BY <3>1, <3>2
  <2>12. Kept(M, Q, ms2)
    BY <2>9, <2>10, <2>11 DEF Kept
  <2>13. QED
    BY <1>5, <1>9, <2>1, <2>12 DEF M
<1>10. QED
  BY <1>8, <1>9


(* A listed point is taken off.                                            *)
LEMMA RemoveKeeps ==
  ASSUME NEW L, ListsType(L), NEW P \in SUBSET Points, NEW ms, Kept(L, P, ms),
         NEW i \in P
  PROVE  /\ ListsType(remove_point(L, ms[i], i))
         /\ Kept(remove_point(L, ms[i], i), P \ {i}, ms)
<1> DEFINE m == ms[i]
           k == ListOf(L.chain, m)
           U == Under(P, ms, m)
           Q == P \ {i}
           M == remove_point(L, m, i)
<1>1. /\ L.chain \in Seq(ListType) /\ DOMAIN L.chain = 1 .. Len(L.chain)
      /\ Len(L.chain) \in Nat
      /\ \A j \in DOMAIN L.chain :
           /\ L.chain[j].data \in Int
           /\ L.chain[j].head \in Points /\ L.chain[j].tail \in Points
  BY ListsTypeFields
<1>2. k \in DOMAIN L.chain /\ L.chain[k].data = m
  <2>1. \E j \in DOMAIN L.chain : L.chain[j].data = m
    BY DEF Kept
  <2>2. \/ k = 0 /\ \A j \in DOMAIN L.chain : L.chain[j].data # m
        \/ k \in DOMAIN L.chain /\ L.chain[k].data = m
    BY <1>1, ListOfFound
  <2>3. QED
    BY <2>1, <2>2
<1>3. M = CASE k = 0 -> L
            [] k > 0 /\ L.chain[k].head = i /\ L.chain[k].tail = i -> WithoutList(L, k)
            [] k > 0 /\ L.chain[k].head = i /\ L.chain[k].tail # i -> UnlinkFirst(L, k, i)
            [] k > 0 /\ L.chain[k].head # i /\ L.chain[k].tail = i -> UnlinkLast(L, k, i)
            [] OTHER -> UnlinkInner(L, i)
  BY DEF remove_point, WithoutList
<1> HIDE DEF k, M
<1>4. k > 0 /\ k # 0
  BY <1>1, <1>2
<1>5. /\ i \in U /\ U \subseteq P
      /\ \A d : d # m => Under(Q, ms, d) = Under(P, ms, d) /\ Under(P, ms, d) \cap U = {}
      /\ Under(Q, ms, m) = U \ {i}
  BY DEF Under
<1>6. \A j, l \in DOMAIN L.chain : j < l => L.chain[j].data > L.chain[l].data
  BY DEF Kept
<1>7. \A j \in DOMAIN L.chain : j # k => L.chain[j].data # m
  BY <1>1, <1>2, <1>6
<1>8. Ordered(L.next, L.prev, L.chain[k].head, L.chain[k].tail, U)
  BY <1>2 DEF Kept
<1> HIDE DEF U, m, Q
<1>9. \A x \in Q : \E j \in DOMAIN L.chain : L.chain[j].data = ms[x]
  BY DEF Kept, Q
(* What remains to show when the list of i keeps its place.                *)
<1>10. ASSUME ListsType(M), DOMAIN M.chain = DOMAIN L.chain,
              \A j \in DOMAIN L.chain : M.chain[j].data = L.chain[j].data,
              \A j \in DOMAIN L.chain : j # k => M.chain[j].head = L.chain[j].head
                                              /\ M.chain[j].tail = L.chain[j].tail,
              \A x \in Points \ U : M.next[x] = L.next[x] /\ M.prev[x] = L.prev[x],
              Ordered(M.next, M.prev, M.chain[k].head, M.chain[k].tail, U \ {i})
       PROVE  Kept(M, Q, ms)
  <2>1. ASSUME NEW j \in DOMAIN M.chain
        PROVE  Ordered(M.next, M.prev, M.chain[j].head, M.chain[j].tail,
                       Under(Q, ms, M.chain[j].data))
    <3>1. CASE j = k
      BY <1>2, <1>5, <1>10, <3>1
    <3>2. CASE j # k
      <4> DEFINE V == Under(P, ms, L.chain[j].data)
      <4>1. Ordered(L.next, L.prev, L.chain[j].head, L.chain[j].tail, V)
        BY <1>10 DEF Kept
      <4>2. V \subseteq Points \ U /\ V = Under(Q, ms, M.chain[j].data)
        <5>1. V \subseteq P
          BY DEF Under
        <5>2. QED
          BY <1>5, <1>7, <1>10, <3>2, <5>1
      <4> HIDE DEF V
      <4>3. \A x \in V : M.next[x] = L.next[x] /\ M.prev[x] = L.prev[x]
        BY <1>10, <4>2
      <4>4. Ordered(M.next, M.prev, L.chain[j].head, L.chain[j].tail, V)
        BY <4>1, <4>3, OrderedElsewhere
      <4>5. QED
        BY <1>10, <3>2, <4>2, <4>4
    <3>3. QED
      BY <3>1, <3>2
  <2>2. \A x \in Q : \E j \in DOMAIN M.chain : M.chain[j].data = ms[x]
    BY <1>9, <1>10
  <2>3. \A j, l \in DOMAIN M.chain : j < l => M.chain[j].data > M.chain[l].data
    BY <1>6, <1>10
  <2>4. QED
    BY <2>1, <2>2, <2>3 DEF Kept
<1>11. U \subseteq Points
  BY <1>5
<1>12. CASE L.chain[k].head = i /\ L.chain[k].tail = i
  <2> DEFINE old(j) == IF j < k THEN j ELSE j + 1
  <2>1. M = WithoutList(L, k)
    BY <1>3, <1>4, <1>12
  <2>2. /\ ListsType(M) /\ DOMAIN M.chain = 1 .. Len(L.chain) - 1
        /\ \A j \in DOMAIN M.chain :
             M.chain[j] = IF j < k THEN L.chain[j] ELSE L.chain[j + 1]
        /\ M.next = L.next /\ M.prev = L.prev
    BY <1>2, <2>1, WithoutListFields
  <2>3. U = {i}
    BY <1>8, <1>12, OrderedOnly
  <2>4. \A j \in DOMAIN M.chain :
          old(j) \in DOMAIN L.chain /\ old(j) # k /\ M.chain[j] = L.chain[old(j)]
    BY <1>1, <1>2, <2>2
  <2>5. \A j \in DOMAIN L.chain : j # k => \E l \in DOMAIN M.chain : M.chain[l] = L.chain[j]
    <3> TAKE j \in DOMAIN L.chain
    <3> HAVE j # k
    <3>1. CASE j < k
      <4>1. j \in DOMAIN M.chain /\ M.chain[j] = L.chain[j]
        BY <1>1, <1>2, <2>2, <3>1
      <4>2. QED
        BY <4>1
    <3>2. CASE ~(j < k)
      <4> DEFINE l == j - 1
      <4>1. l \in DOMAIN M.chain /\ ~(l < k) /\ l + 1 = j
        BY <1>1, <1>2, <2>2, <3>2
      <4> HIDE DEF l
      <4>2. M.chain[l] = L.chain[j]
        BY <2>2, <4>1
      <4>3. QED
        BY <4>1, <4>2
    <3>3. QED
      BY <3>1, <3>2
  <2>6. \A x \in Q : \E j \in DOMAIN M.chain : M.chain[j].data = ms[x]
    <3> TAKE x \in Q
    <3>1. PICK j \in DOMAIN L.chain : L.chain[j].data = ms[x]
      BY <1>9
    <3>2. ms[x] # m
      BY <2>3 DEF Q, U, Under
    <3>3. j # k
      BY <1>2, <3>1, <3>2
    <3>4. QED
      BY <2>5, <3>1, <3>3
  <2>7. \A j, l \in DOMAIN M.chain : j < l => M.chain[j].data > M.chain[l].data
    <3> TAKE j, l \in DOMAIN M.chain
    <3> HAVE j < l
    <3>1. old(j) < old(l)
      BY <1>1, <1>2, <2>2
    <3>2. QED
      BY <1>6, <2>4, <3>1
  <2>8. ASSUME NEW j \in DOMAIN M.chain
        PROVE  Ordered(M.next, M.prev, M.chain[j].head, M.chain[j].tail,
                       Under(Q, ms, M.chain[j].data))
    <3> DEFINE l == old(j)
    <3>1. l \in DOMAIN L.chain /\ l # k /\ M.chain[j] = L.chain[l]
      BY <2>4
    <3> HIDE DEF l
    <3>2. Ordered(L.next, L.prev, L.chain[l].head, L.chain[l].tail,
                  Under(P, ms, L.chain[l].data))
      BY <3>1 DEF Kept
    <3>3. Under(Q, ms, L.chain[l].data) = Under(P, ms, L.chain[l].data)
      BY <1>5, <1>7, <3>1
    <3>4. QED
      BY <2>2, <3>1, <3>2, <3>3
  <2>9. Kept(M, Q, ms)
    BY <2>6, <2>7, <2>8 DEF Kept
  <2>10. QED
    BY <2>2, <2>9 DEF M, Q, m
<1>13. CASE L.chain[k].head = i /\ L.chain[k].tail # i
  <2>1. M = UnlinkFirst(L, k, i)
    BY <1>3, <1>4, <1>13
  <2>2. /\ L.next[i] \in U
        /\ \A pv : (\A x \in U : pv[x] = IF x = L.next[i] THEN LIST_HEAD ELSE L.prev[x])
                     => Ordered(L.next, pv, L.next[i], L.chain[k].tail, U \ {i})
    <3>1. Ordered(L.next, L.prev, i, L.chain[k].tail, U) /\ i # L.chain[k].tail
      BY <1>8, <1>13
    <3>2. ASSUME NEW pv, \A x \in U : pv[x] = IF x = L.next[i] THEN LIST_HEAD ELSE L.prev[x]
          PROVE  L.next[i] \in U
                 /\ Ordered(L.next, pv, L.next[i], L.chain[k].tail, U \ {i})
      BY <3>1, <3>2, OrderedWithoutFirst
    <3>3. L.next[i] \in U
      <4> DEFINE pv == [x \in U |-> IF x = L.next[i] THEN LIST_HEAD ELSE L.prev[x]]
      <4>1. \A x \in U : pv[x] = IF x = L.next[i] THEN LIST_HEAD ELSE L.prev[x]
        OBVIOUS
      <4> HIDE DEF pv
      <4>2. QED
        BY <3>2, <4>1
    <3>4. QED
      BY <3>2, <3>3
  <2>3. /\ ListsType(M) /\ DOMAIN M.chain = DOMAIN L.chain
        /\ \A j \in DOMAIN L.chain :
             /\ M.chain[j].data = L.chain[j].data
             /\ M.chain[j].head = IF j = k THEN L.next[i] ELSE L.chain[j].head
             /\ M.chain[j].tail = L.chain[j].tail
        /\ M.next = L.next
        /\ \A x \in Points : M.prev[x] = IF x = L.next[i] THEN LIST_HEAD ELSE L.prev[x]
    BY <1>2, <1>11, <2>1, <2>2, UnlinkFirstFields
  <2>4. Ordered(M.next, M.prev, L.next[i], L.chain[k].tail, U \ {i})
    BY <1>11, <2>2, <2>3
  <2>5. Kept(M, Q, ms)
    BY <1>2, <1>10, <2>2, <2>3, <2>4
  <2>6. QED
    BY <2>3, <2>5 DEF M, Q, m
<1>14. CASE L.chain[k].head # i /\ L.chain[k].tail = i
  <2>1. M = UnlinkLast(L, k, i)
    BY <1>3, <1>4, <1>14
  <2>2. /\ L.prev[i] \in U
        /\ \A nx : (\A x \in U : nx[x] = IF x = L.prev[i] THEN LIST_TAIL ELSE L.next[x])
                     => Ordered(nx, L.prev, L.chain[k].head, L.prev[i], U \ {i})
    <3>1. Ordered(L.next, L.prev, L.chain[k].head, i, U) /\ L.chain[k].head # i
      BY <1>8, <1>14
    <3>2. ASSUME NEW nx, \A x \in U : nx[x] = IF x = L.prev[i] THEN LIST_TAIL ELSE L.next[x]
          PROVE  L.prev[i] \in U
                 /\ Ordered(nx, L.prev, L.chain[k].head, L.prev[i], U \ {i})
      <4> DEFINE next == L.next
                 prev == L.prev
                 h == L.chain[k].head
      <4>1. /\ Ordered(next, prev, h, i, U) /\ h # i
            /\ \A x \in U : nx[x] = IF x = prev[i] THEN LIST_TAIL ELSE next[x]
        BY <3>1, <3>2
      <4> HIDE DEF next, prev, h
      <4>2. prev[i] \in U /\ Ordered(nx, prev, h, prev[i], U \ {i})
        BY <4>1, OrderedWithoutLast
      <4>3. QED
        BY <4>2 DEF next, prev, h
    <3>3. L.prev[i] \in U
      <4> DEFINE nx == [x \in U |-> IF x = L.prev[i] THEN LIST_TAIL ELSE L.next[x]]
      <4>1. \A x \in U : nx[x] = IF x = L.prev[i] THEN LIST_TAIL ELSE L.next[x]
        OBVIOUS
      <4> HIDE DEF nx
      <4>2. QED
        BY <3>2, <4>1
    <3>4. QED
      BY <3>2, <3>3
  <2>3. /\ ListsType(M) /\ DOMAIN M.chain = DOMAIN L.chain
        /\ \A j \in DOMAIN L.chain :
             /\ M.chain[j].data = L.chain[j].data
             /\ M.chain[j].head = L.chain[j].head
             /\ M.chain[j].tail = IF j = k THEN L.prev[i] ELSE L.chain[j].tail
        /\ M.prev = L.prev
        /\ \A x \in Points : M.next[x] = IF x = L.prev[i] THEN LIST_TAIL ELSE L.next[x]
    BY <1>2, <1>11, <2>1, <2>2, UnlinkLastFields
  <2>4. Ordered(M.next, M.prev, L.chain[k].head, L.prev[i], U \ {i})
    BY <1>11, <2>2, <2>3
  <2>5. Kept(M, Q, ms)
    BY <1>2, <1>10, <2>2, <2>3, <2>4
  <2>6. QED
    BY <2>3, <2>5 DEF M, Q, m
<1>15. CASE L.chain[k].head # i /\ L.chain[k].tail # i
  <2>1. M = UnlinkInner(L, i)
    BY <1>3, <1>4, <1>15
  <2>2. /\ L.prev[i] \in U /\ L.next[i] \in U
        /\ \A nx, pv :
             (\A x \in U : /\ nx[x] = IF x = L.prev[i] THEN L.next[i] ELSE L.next[x]
                           /\ pv[x] = IF x = L.next[i] THEN L.prev[i] ELSE L.prev[x])
               => Ordered(nx, pv, L.chain[k].head, L.chain[k].tail, U \ {i})
    <3>1. ASSUME NEW nx, NEW pv,
                 \A x \in U : nx[x] = IF x = L.prev[i] THEN L.next[i] ELSE L.next[x],
                 \A x \in U : pv[x] = IF x = L.next[i] THEN L.prev[i] ELSE L.prev[x]
          PROVE  /\ L.prev[i] \in U /\ L.next[i] \in U
                 /\ Ordered(nx, pv, L.chain[k].head, L.chain[k].tail, U \ {i})
      <4> DEFINE next == L.next
                 prev == L.prev
                 h == L.chain[k].head
                 t == L.chain[k].tail
      <4>1. /\ Ordered(next, prev, h, t, U) /\ i \in U /\ i # h /\ i # t
            /\ Bypassed(next, prev, i, U, nx, pv)
        BY <1>5, <1>8, <1>15, <3>1 DEF Bypassed
      <4> HIDE DEF next, prev, h, t
      <4>2. /\ prev[i] \in U \ {i} /\ next[i] \in U \ {i}
            /\ Ordered(nx, pv, h, t, U \ {i})
        BY <4>1, OrderedWithoutInner
      <4>3. QED
        BY <4>2 DEF next, prev, h, t
    <3>2. L.prev[i] \in U /\ L.next[i] \in U
      <4> DEFINE nx == [x \in U |-> IF x = L.prev[i] THEN L.next[i] ELSE L.next[x]]
                 pv == [x \in U |-> IF x = L.next[i] THEN L.prev[i] ELSE L.prev[x]]
      <4>1. \A x \in U : nx[x] = IF x = L.prev[i] THEN L.next[i] ELSE L.next[x]
        OBVIOUS
      <4>2. \A x \in U : pv[x] = IF x = L.next[i] THEN L.prev[i] ELSE L.prev[x]
        OBVIOUS
      <4> HIDE DEF nx, pv
      <4>3. QED
        BY <3>1, <4>1, <4>2
    <3>3. QED
      BY <3>1, <3>2
  <2>3. /\ ListsType(M) /\ M.chain = L.chain
        /\ \A x \in Points :
             /\ M.next[x] = IF x = L.prev[i] THEN L.next[i] ELSE L.next[x]
             /\ M.prev[x] = IF x = L.next[i] THEN L.prev[i] ELSE L.prev[x]
    BY <1>11, <2>1, <2>2, UnlinkInnerFields
  <2>4. Ordered(M.next, M.prev, L.chain[k].head, L.chain[k].tail, U \ {i})
    BY <1>11, <2>2, <2>3
  <2>5. Kept(M, Q, ms)
    BY <1>2, <1>10, <2>2, <2>3, <2>4
  <2>6. QED
    BY <2>3, <2>5 DEF M, Q, m
<1>16. QED
  BY <1>12, <1>13, <1>14, <1>15


(* A point moves to the list of the next larger measure.                   *)
LEMMA RaiseKeeps ==
  ASSUME NEW L, ListsType(L), NEW P \in SUBSET Points, NEW ms, Kept(L, P, ms),
         NEW i \in P, ms[i] \in Int, NEW ms2, ms2[i] = ms[i] + 1,
         \A x \in P : x # i => ms2[x] = ms[x]
  PROVE  ListsType(Raise(L, ms[i], i)) /\ Kept(Raise(L, ms[i], i), P, ms2)
<1> DEFINE K == remove_point(L, ms[i], i)
           Q == P \ {i}
           m == ms[i] + 1
<1>1. ListsType(K) /\ Kept(K, Q, ms)
  BY RemoveKeeps
<1>2. Q \in SUBSET Points /\ i \in Points /\ i \notin Q /\ m \in Int
  OBVIOUS
<1>3. \A x \in Q : ms2[x] = ms[x]
  OBVIOUS
<1>4. Q \cup {i} = P /\ ms2[i] = m
  OBVIOUS
<1>5. Raise(L, ms[i], i) = enter_on_lists(K, m, i)
  BY DEF Raise
<1> HIDE DEF K, Q, m
<1>6. ListsType(enter_on_lists(K, m, i)) /\ Kept(enter_on_lists(K, m, i), Q \cup {i}, ms2)
  BY <1>1, <1>2, <1>3, <1>4, EnterKeeps
<1>7. QED
  BY <1>4, <1>5, <1>6

(* The recursive function by which RaisedInOrder is defined: g[n] holds    *)
(* the lists after the first n points.                                     *)
Sweep(L, base, order, g, n) ==
  IF n = 0 THEN {L}
  ELSE { Raise(M, base[order[n]], order[n]) : M \in g[n - 1] }

LEMMA SweepExists ==
  ASSUME NEW L, NEW base, NEW order, NEW len \in Nat
  PROVE  \E g : g = [n \in 0 .. len |-> Sweep(L, base, order, g, n)]
<1> DEFINE Upto(k) == \E g : \A n \in 0 .. k : g[n] = Sweep(L, base, order, g, n)
           Bad == { k \in Nat : ~ Upto(k) }
<1>1. Bad = {}
  <2> SUFFICES ASSUME Bad # {} PROVE FALSE
    OBVIOUS
  <2> DEFINE k == Min(Bad)
  <2>1. k \in Bad /\ \A y \in Bad : k <= y
    <3>1. Bad \subseteq Nat
      OBVIOUS
    <3> HIDE DEF Bad
    <3>2. QED
      BY <3>1, MinOfNaturals
  <2> HIDE DEF k
  <2>2. k \in Nat /\ ~ Upto(k)
    BY <2>1
  <2>3. CASE k = 0
    <3> DEFINE g == [n \in 0 .. 0 |-> {L}]
    <3>1. \A n \in 0 .. 0 : g[n] = Sweep(L, base, order, g, n)
      BY DEF Sweep
    <3> HIDE DEF g
    <3>2. QED
      BY <2>2, <2>3, <3>1
  <2>4. CASE k # 0
    <3>1. k - 1 \in Nat /\ k - 1 \notin Bad
      BY <2>1, <2>2, <2>4
    <3>2. PICK f : \A n \in 0 .. k - 1 : f[n] = Sweep(L, base, order, f, n)
      BY <3>1
    <3> DEFINE g == [n \in 0 .. k |-> IF n < k THEN f[n] ELSE Sweep(L, base, order, f, k)]
    <3>3. \A n \in 0 .. k : n < k => g[n] = f[n] /\ n \in 0 .. k - 1
      BY <2>2
    <3>4. g[k] = Sweep(L, base, order, f, k)
      BY <2>2
    <3>5. \A n \in 0 .. k : n # 0 => n - 1 \in 0 .. k /\ n - 1 < k
      BY <2>2
    <3> HIDE DEF g
    <3>6. \A n \in 0 .. k : Sweep(L, base, order, g, n) = Sweep(L, base, order, f, n)
      BY <3>3, <3>5 DEF Sweep
    <3>7. \A n \in 0 .. k : g[n] = Sweep(L, base, order, g, n)
      BY <2>2, <3>2, <3>3, <3>4, <3>6
    <3>8. QED
      BY <2>2, <3>7
  <2>5. QED
    BY <2>3, <2>4
<1>2. PICK f : \A n \in 0 .. len : f[n] = Sweep(L, base, order, f, n)
  BY <1>1
<1> DEFINE g == [n \in 0 .. len |-> f[n]]
<1>3. \A n \in 0 .. len : n # 0 => n - 1 \in 0 .. len
  OBVIOUS
<1>4. \A n \in 0 .. len : Sweep(L, base, order, g, n) = Sweep(L, base, order, f, n)
  BY <1>3 DEF Sweep
<1>5. g = [n \in 0 .. len |-> Sweep(L, base, order, g, n)]
  BY <1>2, <1>4
<1>6. QED
  BY <1>5

LEMMA RaisedInOrderSweep ==
  ASSUME NEW L, NEW base, NEW order, Len(order) \in Nat
  PROVE  \E g : /\ RaisedInOrder(L, base, order) = g[Len(order)]
                /\ \A n \in 0 .. Len(order) : g[n] = Sweep(L, base, order, g, n)
<1> DEFINE after == CHOOSE g : g = [n \in 0 .. Len(order) |-> Sweep(L, base, order, g, n)]
<1>1. after = [n \in 0 .. Len(order) |-> Sweep(L, base, order, after, n)]
  BY SweepExists
<1>2. RaisedInOrder(L, base, order) = after[Len(order)]
  BY DEF RaisedInOrder, Sweep
<1> HIDE DEF after
<1>3. QED
  BY <1>1, <1>2


LEMMA OrdersOf ==
  ASSUME NEW T \in SUBSET Points, NEW order \in SetToSeqs(T)
  PROVE  /\ Len(order) \in Nat /\ order \in [1 .. Len(order) -> T]
         /\ \A a, b \in 1 .. Len(order) : order[a] = order[b] => a = b
         /\ \A x \in T : \E a \in 1 .. Len(order) : order[a] = x
<1> DEFINE n == Cardinality(T)
<1>1. IsFiniteSet(T) /\ n \in Nat
  BY PointsFinite
<1>2. order \in [1 .. n -> T] /\ \A a, b \in 1 .. n : a # b => order[a] # order[b]
  BY DEF SetToSeqs
<1>3. Len(order) = n
  BY <1>1, <1>2
<1>4. IsFiniteSet(1 .. n) /\ Cardinality(1 .. n) = n
  BY <1>1, FS_Interval
<1>5. order \in Injection(1 .. n, T)
  BY <1>2 DEF Injection, IsInjective
<1>6. order \in Surjection(1 .. n, T)
  <2>1. Cardinality(1 .. n) = Cardinality(T)
    BY <1>4
  <2> HIDE DEF n
  <2>2. QED
    BY <1>1, <1>5, <2>1, FS_Injection
<1>7. \A x \in T : \E a \in 1 .. n : order[a] = x
  BY <1>6 DEF Surjection
<1>8. QED
  BY <1>1, <1>2, <1>3, <1>7

(* The points of a row are raised, in whatever order.                      *)
LEMMA RaisedKeeps ==
  ASSUME NEW L, ListsType(L), NEW P \in SUBSET Points, NEW base,
         \A x \in P : base[x] \in Int, Kept(L, P, base),
         NEW up \in SUBSET P, NEW K \in Raised(L, base, up), NEW ms,
         \A x \in P : ms[x] = IF x \in up THEN base[x] + 1 ELSE base[x]
  PROVE  ListsType(K) /\ Kept(K, P, ms)
<1>1. PICK order \in SetToSeqs(up) : K \in RaisedInOrder(L, base, order)
  BY DEF Raised
<1>2. /\ Len(order) \in Nat /\ order \in [1 .. Len(order) -> up]
      /\ \A a, b \in 1 .. Len(order) : order[a] = order[b] => a = b
      /\ \A x \in up : \E a \in 1 .. Len(order) : order[a] = x
  BY <1>1, OrdersOf
<1>3. PICK g : /\ RaisedInOrder(L, base, order) = g[Len(order)]
               /\ \A n \in 0 .. Len(order) : g[n] = Sweep(L, base, order, g, n)
  BY <1>2, RaisedInOrderSweep
<1> DEFINE done(n) == { order[a] : a \in 1 .. n }
           lifted(n) == [x \in P |-> IF x \in done(n) THEN base[x] + 1 ELSE base[x]]
           Good(n) == \A M \in g[n] : ListsType(M) /\ Kept(M, P, lifted(n))
           Bad == { n \in 0 .. Len(order) : ~ Good(n) }
<1>4. Good(0)
  <2>1. g[0] = {L}
    <3>1. 0 \in 0 .. Len(order)
      BY <1>2
    <3>2. g[0] = Sweep(L, base, order, g, 0)
      BY <1>3, <3>1
    <3>3. QED
      BY <3>2 DEF Sweep
  <2>2. \A x \in P : lifted(0)[x] = base[x]
    OBVIOUS
  <2> HIDE DEF lifted
  <2>3. Kept(L, P, lifted(0))
    BY <2>2, KeptAgrees
  <2>4. QED
    BY <2>1, <2>3
<1>5. ASSUME NEW n \in 1 .. Len(order), Good(n - 1) PROVE Good(n)
  <2> DEFINE i == order[n]
             was == lifted(n - 1)
             now == lifted(n)
  <2>1. n \in 0 .. Len(order) /\ n # 0 /\ n - 1 \in 0 .. Len(order)
    BY <1>2
  <2>2. g[n] = { Raise(M, base[i], i) : M \in g[n - 1] }
    BY <1>3, <2>1 DEF Sweep
  <2>3. i \in P /\ base[i] \in Int
    BY <1>2
  <2>4. i \notin done(n - 1)
    <3>1. \A a \in 1 .. n - 1 : a \in 1 .. Len(order) /\ a # n
      BY <1>2
    <3>2. QED
      BY <1>2, <3>1
  <2>5. done(n) = done(n - 1) \cup {i}
    <3>1. \A a \in 1 .. n : a = n \/ a \in 1 .. n - 1
      OBVIOUS
    <3>2. n \in 1 .. n /\ \A a \in 1 .. n - 1 : a \in 1 .. n
      OBVIOUS
    <3>3. QED
      BY <3>1, <3>2
  <2> HIDE DEF done
  <2>6. was[i] = base[i] /\ now[i] = was[i] + 1 /\ \A x \in P : x # i => now[x] = was[x]
    BY <2>3, <2>4, <2>5
  <2> HIDE DEF lifted, i, was, now
  <2>7. SUFFICES ASSUME NEW M \in g[n - 1]
                 PROVE  ListsType(Raise(M, base[i], i)) /\ Kept(Raise(M, base[i], i), P, now)
    BY <2>2 DEF now
  <2>8. ListsType(M) /\ Kept(M, P, was)
    BY <1>5 DEF was
  <2>9. ListsType(Raise(M, was[i], i)) /\ Kept(Raise(M, was[i], i), P, now)
    BY <2>3, <2>6, <2>8, RaiseKeeps
  <2>10. QED
    BY <2>6, <2>9
<1>6. Bad = {}
  <2> SUFFICES ASSUME Bad # {} PROVE FALSE
    OBVIOUS
  <2> DEFINE k == Min(Bad)
  <2>1. k \in Bad /\ \A y \in Bad : k <= y
    <3>1. Bad \subseteq Nat
      OBVIOUS
    <3> HIDE DEF Bad
    <3>2. QED
      BY <3>1, MinOfNaturals
  <2> HIDE DEF k, Good
  <2>2. k \in 0 .. Len(order) /\ ~ Good(k)
    BY <2>1
  <2>3. k # 0
    BY <1>4, <2>2
  <2>4. k \in 1 .. Len(order) /\ k - 1 \in 0 .. Len(order) /\ k - 1 \notin Bad
    BY <1>2, <2>1, <2>2, <2>3
  <2>5. QED
    BY <1>5, <2>2, <2>4
<1>7. Good(Len(order))
  <2>1. Len(order) \in 0 .. Len(order)
    BY <1>2
  <2> HIDE DEF Good
  <2>2. QED
    BY <1>6, <2>1
<1>8. ListsType(K) /\ Kept(K, P, lifted(Len(order)))
  BY <1>1, <1>3, <1>7
<1>9. done(Len(order)) = up
  BY <1>2
<1>10. \A x \in P : ms[x] = lifted(Len(order))[x]
  <2> HIDE DEF done
  <2> QED
    BY <1>9
<1> HIDE DEF lifted
<1>11. QED
  BY <1>8, <1>10, KeptAgrees
-----------------------------------------------------------------------------
(***************************************************************************)
(* The inductive invariant.  The lists hold the undecided points the first *)
(* loop has passed, under their weights; a point made fine by that loop    *)
(* has nobody depending on it; and when the strength is symmetric all      *)
(* points that depend on a coarse one are fine, except those the loop over *)
(* the dependents of the last coarse point has yet to visit.               *)
(***************************************************************************)
Listed == { i \in Undecided : Scanned(i) }

TypeInv ==
  /\ pc \in {"scan", "choose", "dependents", "influences", "done"}
  /\ S \in Relations
  /\ measure \in [Points -> Nat]
  /\ cf \in [Points -> {Coarse, Fine, UndecidedMark}]
  /\ ListsType(lists)
  /\ at \in 1 .. N + 1
  /\ todo \subseteq Points

CountsInv == left = Cardinality(Undecided) /\ ncoarse = Cardinality(CoarseIn(cf))

WeightInv ==
  \A i \in Undecided : measure[i] = Weight(i) /\ (Scanned(i) => measure[i] > 0)

ListsInv == Kept(lists, Listed, measure)

LoopInv ==
  /\ pc = "scan" =>
       \A i \in Points : /\ cf[i] # Coarse
                         /\ cf[i] = Fine => i < at /\ Dependents(S, i) = {}
  /\ pc = "dependents" => at \in CoarseIn(cf) /\ todo \subseteq Dependents(S, at)
  /\ pc = "influences" => at \in CoarseIn(cf) /\ todo \subseteq Influences(S, at)

(* A dependent of a coarse point that is not fine yet.                     *)
Pending(c, i) == pc = "dependents" /\ c = at /\ i \in todo /\ i \notin CoarseIn(cf)

SplitInv ==
  Symmetric(S) =>
    /\ \A c \in CoarseIn(cf) : \A i \in Dependents(S, c) : i \in FineIn(cf) \/ Pending(c, i)
    /\ Covered(S, cf)

IInv == TypeInv /\ CountsInv /\ WeightInv /\ ListsInv /\ LoopInv /\ SplitInv


LEMMA GraphFacts ==
  ASSUME NEW R \in Relations, NEW i \in Points
  PROVE  /\ Dependents(R, i) \subseteq Points /\ i \notin Dependents(R, i)
         /\ Influences(R, i) \subseteq Points /\ i \notin Influences(R, i)
         /\ \A j \in Points : i \in Dependents(R, j) <=> j \in Influences(R, i)
         /\ Symmetric(R) => \A j \in Points : j \in Dependents(R, i) <=> i \in Dependents(R, j)
<1>1. <<i, i>> \notin R
  BY GraphAssumption
<1>2. QED
  BY <1>1 DEF Dependents, Influences, Symmetric

(* The marks partition the points.                                         *)
LEMMA MarksPartition ==
  ASSUME TypeInv
  PROVE  /\ Undecided \subseteq Points
         /\ CoarseIn(cf) \subseteq Points /\ FineIn(cf) \subseteq Points
         /\ \A i \in Points : /\ i \in CoarseIn(cf) <=> cf[i] = Coarse
                              /\ i \in FineIn(cf) <=> cf[i] = Fine
                              /\ i \in Undecided <=> cf[i] = UndecidedMark
                              /\ i \in CoarseIn(cf) \/ i \in FineIn(cf) \/ i \in Undecided
         /\ CoarseIn(cf) \cap FineIn(cf) = {}
         /\ CoarseIn(cf) \cap Undecided = {} /\ FineIn(cf) \cap Undecided = {}
BY DEF TypeInv, CoarseIn, FineIn, Undecided, Coarse, Fine, UndecidedMark

LEMMA MarkFine ==
  ASSUME TypeInv, NEW i \in Undecided, cf' = [cf EXCEPT ![i] = Fine]
  PROVE  /\ cf' \in [Points -> {Coarse, Fine, UndecidedMark}]
         /\ Undecided' = Undecided \ {i}
         /\ FineIn(cf)' = FineIn(cf) \cup {i} /\ CoarseIn(cf)' = CoarseIn(cf)
         /\ Cardinality(Undecided') = Cardinality(Undecided) - 1
<1>1. cf' \in [Points -> {Coarse, Fine, UndecidedMark}] /\ i \in Points
  BY DEF TypeInv, Undecided
<1>2. \A x \in Points : cf'[x] = IF x = i THEN Fine ELSE cf[x]
  BY DEF TypeInv
<1>3. cf[i] = UndecidedMark
  BY DEF Undecided
<1>4. Undecided' = Undecided \ {i}
  BY <1>1, <1>2 DEF Undecided, Fine, UndecidedMark
<1>5. FineIn(cf)' = FineIn(cf) \cup {i}
  BY <1>1, <1>2 DEF FineIn, Fine
<1>6. CoarseIn(cf)' = CoarseIn(cf)
  BY <1>1, <1>2, <1>3 DEF CoarseIn, Fine, UndecidedMark
<1>7. IsFiniteSet(Undecided)
  BY PointsFinite DEF Undecided
<1>8. Cardinality(Undecided') = Cardinality(Undecided) - 1
  BY <1>4, <1>7, FS_RemoveElement
<1>9. QED
  BY <1>1, <1>4, <1>5, <1>6, <1>8

LEMMA MarkCoarse ==
  ASSUME TypeInv, NEW i \in Undecided, cf' = [cf EXCEPT ![i] = Coarse]
  PROVE  /\ cf' \in [Points -> {Coarse, Fine, UndecidedMark}]
         /\ Undecided' = Undecided \ {i}
         /\ CoarseIn(cf)' = CoarseIn(cf) \cup {i} /\ FineIn(cf)' = FineIn(cf)
         /\ Cardinality(Undecided') = Cardinality(Undecided) - 1
         /\ Cardinality(CoarseIn(cf)') = Cardinality(CoarseIn(cf)) + 1
<1>1. cf' \in [Points -> {Coarse, Fine, UndecidedMark}] /\ i \in Points
  BY DEF TypeInv, Undecided
<1>2. \A x \in Points : cf'[x] = IF x = i THEN Coarse ELSE cf[x]
  BY DEF TypeInv
<1>3. cf[i] = UndecidedMark
  BY DEF Undecided
<1>4. Undecided' = Undecided \ {i}
  BY <1>1, <1>2 DEF Undecided, Coarse, UndecidedMark
<1>5. FineIn(cf)' = FineIn(cf)
  BY <1>1, <1>2, <1>3 DEF FineIn, Coarse, UndecidedMark
<1>6. CoarseIn(cf)' = CoarseIn(cf) \cup {i}
  BY <1>1, <1>2 DEF CoarseIn, Coarse
<1>7. IsFiniteSet(Undecided) /\ IsFiniteSet(CoarseIn(cf)) /\ i \notin CoarseIn(cf)
  BY <1>3, PointsFinite DEF Undecided, CoarseIn, UndecidedMark
<1>8. Cardinality(Undecided') = Cardinality(Undecided) - 1
  BY <1>4, <1>7, FS_RemoveElement
<1>9. Cardinality(CoarseIn(cf)') = Cardinality(CoarseIn(cf)) + 1
  BY <1>6, <1>7, FS_AddElement
<1>10. QED
  BY <1>1, <1>4, <1>5, <1>6, <1>8, <1>9

(* The weight of a point from its dependents, the undecided points and the *)
(* fine ones, and what it becomes when a point is decided.                 *)
Sum(D, U, F) == Cardinality(D \cap U) + 2 * Cardinality(D \cap F)

LEMMA SumRaised ==
  ASSUME NEW D \in SUBSET Points, NEW U \in SUBSET Points, NEW F \in SUBSET Points,
         NEW i \in U, i \notin F
  PROVE  /\ Sum(D, U, F) \in Nat
         /\ Sum(D, U \ {i}, F \cup {i}) = Sum(D, U, F) + (IF i \in D THEN 1 ELSE 0)
<1>1. /\ IsFiniteSet(D \cap U) /\ Cardinality(D \cap U) \in Nat
      /\ IsFiniteSet(D \cap F) /\ Cardinality(D \cap F) \in Nat
  BY PointsFinite
<1>2. CASE i \in D
  <2>1. D \cap (U \ {i}) = (D \cap U) \ {i} /\ D \cap (F \cup {i}) = (D \cap F) \cup {i}
    BY <1>2
  <2>2. Cardinality(D \cap (U \ {i})) = Cardinality(D \cap U) - 1
    BY <1>1, <1>2, <2>1, FS_RemoveElement
  <2>3. Cardinality(D \cap (F \cup {i})) = Cardinality(D \cap F) + 1
    BY <1>1, <2>1, FS_AddElement
  <2>4. QED
    BY <1>1, <1>2, <2>2, <2>3 DEF Sum
<1>3. CASE i \notin D
  <2>1. D \cap (U \ {i}) = D \cap U /\ D \cap (F \cup {i}) = D \cap F
    BY <1>3
  <2>2. Sum(D, U \ {i}, F \cup {i}) = Sum(D, U, F)
    BY <2>1 DEF Sum
  <2>3. Sum(D, U, F) \in Nat
    BY <1>1 DEF Sum
  <2>4. QED
    BY <1>3, <2>2, <2>3
<1>4. QED
  BY <1>2, <1>3

LEMMA SumLowered ==
  ASSUME NEW D \in SUBSET Points, NEW U \in SUBSET Points, NEW F \in SUBSET Points,
         NEW i \in U
  PROVE  Sum(D, U \ {i}, F) = Sum(D, U, F) - (IF i \in D THEN 1 ELSE 0)
<1>1. /\ IsFiniteSet(D \cap U) /\ Cardinality(D \cap U) \in Nat
      /\ Cardinality(D \cap F) \in Nat
  BY PointsFinite
<1>2. CASE i \in D
  <2>1. D \cap (U \ {i}) = (D \cap U) \ {i}
    BY <1>2
  <2>2. Cardinality(D \cap (U \ {i})) = Cardinality(D \cap U) - 1
    BY <1>1, <1>2, <2>1, FS_RemoveElement
  <2>3. QED
    BY <1>1, <1>2, <2>2 DEF Sum
<1>3. CASE i \notin D
  <2>1. D \cap (U \ {i}) = D \cap U
    BY <1>3
  <2>2. Sum(D, U \ {i}, F) = Sum(D, U, F)
    BY <2>1 DEF Sum
  <2>3. Sum(D, U, F) \in Nat
    BY <1>1 DEF Sum
  <2>4. QED
    BY <1>3, <2>2, <2>3
<1>4. QED
  BY <1>2, <1>3

LEMMA SumZero ==
  ASSUME NEW D \in SUBSET Points, NEW U \in SUBSET Points, NEW F \in SUBSET Points,
         Sum(D, U, F) <= 0
  PROVE  D \cap U = {} /\ D \cap F = {}
<1>1. /\ IsFiniteSet(D \cap U) /\ Cardinality(D \cap U) \in Nat
      /\ IsFiniteSet(D \cap F) /\ Cardinality(D \cap F) \in Nat
  BY PointsFinite
<1>2. Cardinality(D \cap U) = 0 /\ Cardinality(D \cap F) = 0
  BY <1>1 DEF Sum
<1>3. QED
  BY <1>1, <1>2, FS_EmptySet

LEMMA WeightSum ==
  \A i : Weight(i) = Sum(Dependents(S, i), Undecided, FineIn(cf))
                       + (IF Owed(i) THEN 1 ELSE 0)
BY DEF Weight, Sum
-----------------------------------------------------------------------------
LEMMA InitIInv == Init => IInv
<1> SUFFICES ASSUME Init PROVE IInv
  OBVIOUS
<1>1. S \in Relations /\ N \in Nat \ {0}
  BY GraphAssumption DEF Init
<1>2. \A i \in Points : Cardinality(Dependents(S, i)) \in Nat
  BY <1>1, PointsFinite, GraphFacts
<1>3. ListsType(lists)
  <2>1. << >> \in Seq(ListType)
    OBVIOUS
  <2>2. QED
    BY <2>1 DEF Init, NoLists, ListsType
<1>4. TypeInv
  BY <1>1, <1>2, <1>3 DEF Init, TypeInv
<1>5. Undecided = Points /\ CoarseIn(cf) = {} /\ FineIn(cf) = {} /\ Listed = {}
  BY <1>1 DEF Init, Undecided, CoarseIn, FineIn, UndecidedMark, Listed, Scanned, Points
<1>6. CountsInv
  <2>1. Cardinality(Points) = N
    BY <1>1, FS_Interval DEF Points
  <2>2. Cardinality({}) = 0
    BY FS_EmptySet
  <2>3. QED
    BY <1>5, <2>1, <2>2 DEF Init, CountsInv
<1>7. WeightInv
  <2> SUFFICES ASSUME NEW i \in Undecided
               PROVE  measure[i] = Weight(i) /\ (Scanned(i) => measure[i] > 0)
    BY DEF WeightInv
  <2>1. i \in Points /\ ~ Scanned(i)
    BY <1>5 DEF Listed
  <2>2. Dependents(S, i) \cap Undecided = Dependents(S, i)
        /\ Dependents(S, i) \cap FineIn(cf) = {}
    BY <1>1, <1>5, <2>1, GraphFacts
  <2>3. Cardinality({}) = 0
    BY FS_EmptySet
  <2>4. ~ Owed(i)
    BY DEF Init, Owed
  <2>5. Weight(i) = Cardinality(Dependents(S, i)) + 2 * 0 + 0
    BY <2>2, <2>3, <2>4 DEF Weight
  <2>6. measure[i] = Cardinality(Dependents(S, i))
    BY <2>1 DEF Init
  <2>7. QED
    BY <1>2, <2>1, <2>5, <2>6
<1>8. ListsInv
  BY <1>5 DEF ListsInv, Kept, Init, NoLists
<1>9. LoopInv
  BY DEF LoopInv, Init, Coarse, Fine, UndecidedMark
<1>10. SplitInv
  BY <1>5 DEF SplitInv, Covered
<1>11. QED
  BY <1>4, <1>6, <1>7, <1>8, <1>9, <1>10 DEF IInv


LEMMA WeightSumNext ==
  \A i : Weight(i)' = Sum(Dependents(S', i), Undecided', FineIn(cf)')
                        + (IF Owed(i)' THEN 1 ELSE 0)
BY DEF Weight, Sum

(* When no point is decided, weights change only with what is owed.        *)
LEMMA SameMarks ==
  ASSUME UNCHANGED <<S, cf>>
  PROVE  /\ Undecided' = Undecided
         /\ CoarseIn(cf)' = CoarseIn(cf) /\ FineIn(cf)' = FineIn(cf)
         /\ \A i : (Owed(i)' <=> Owed(i)) => Weight(i)' = Weight(i)
<1>1. Undecided' = Undecided /\ CoarseIn(cf)' = CoarseIn(cf) /\ FineIn(cf)' = FineIn(cf)
  BY DEF Undecided, CoarseIn, FineIn
<1>2. ASSUME NEW i, Owed(i)' <=> Owed(i) PROVE Weight(i)' = Weight(i)
  BY <1>1, <1>2, WeightSum, WeightSumNext
<1>3. QED
  BY <1>1, <1>2

(* A point that becomes fine counts one more for those it depends on.      *)
LEMMA FineWeights ==
  ASSUME TypeInv, NEW i \in Undecided, cf' = [cf EXCEPT ![i] = Fine], S' = S,
         NEW j \in Undecided \ {i}, Owed(j)' <=> Owed(j)
  PROVE  Weight(j)' = Weight(j) + (IF j \in Influences(S, i) THEN 1 ELSE 0)
<1> DEFINE D == Dependents(S, j)
           F == FineIn(cf)
           owed == IF Owed(j) THEN 1 ELSE 0
<1>1. /\ Undecided' = Undecided \ {i} /\ FineIn(cf)' = F \cup {i}
      /\ Undecided \in SUBSET Points /\ F \in SUBSET Points /\ i \notin F
      /\ i \in Points /\ j \in Points
  BY MarkFine, MarksPartition
<1>2. D \in SUBSET Points /\ (i \in D <=> j \in Influences(S, i))
  BY <1>1, GraphFacts DEF TypeInv
<1>3. Weight(j) = Sum(D, Undecided, F) + owed
  BY WeightSum
<1>4. Weight(j)' = Sum(D, Undecided \ {i}, F \cup {i}) + owed
  <2>1. Weight(j)' = Sum(Dependents(S', j), Undecided', FineIn(cf)')
                       + (IF Owed(j)' THEN 1 ELSE 0)
    BY WeightSumNext
  <2>2. Dependents(S', j) = D
    OBVIOUS
  <2> HIDE DEF D, F
  <2>3. QED
    BY <1>1, <2>1, <2>2
<1>5. owed \in Nat
  OBVIOUS
<1> HIDE DEF D, F, owed
<1>6. /\ Sum(D, Undecided, F) \in Nat
      /\ Sum(D, Undecided \ {i}, F \cup {i})
           = Sum(D, Undecided, F) + (IF i \in D THEN 1 ELSE 0)
  <2>1. /\ D \in SUBSET Points /\ Undecided \in SUBSET Points /\ F \in SUBSET Points
        /\ i \in Undecided /\ i \notin F
    BY <1>1, <1>2
  <2>2. QED
    BY ONLY <2>1, SumRaised
<1>7. QED
  BY <1>2, <1>3, <1>4, <1>5, <1>6

LEMMA ListedPoints == Listed \subseteq Undecided /\ Undecided \subseteq Points
BY DEF Listed, Undecided

(* The point the first loop looks at has not been decided.                 *)
LEMMA ScannedRow ==
  ASSUME IInv, pc = "scan", at <= N
  PROVE  /\ at \in Points /\ at \in Undecided /\ at \notin Listed
         /\ \A i \in Points : i < at \/ i \in Undecided
         /\ \A i \in Undecided : i \in Listed <=> i < at
<1>1. at \in Points
  BY GraphAssumption DEF IInv, TypeInv, Points
<1>2. \A i \in Points : i < at \/ i \in Undecided
  BY <1>1, MarksPartition DEF IInv, LoopInv, Points
<1>3. \A i \in Undecided : i \in Listed <=> i < at
  BY DEF Listed, Scanned
<1>4. at \in Undecided /\ at \notin Listed
  BY <1>1, <1>2, <1>3 DEF Points
<1>5. QED
  BY <1>1, <1>2, <1>3, <1>4

LEMMA ScanListedKeeps ==
  ASSUME IInv, ScanListed
  PROVE  IInv'
<1>1. pc = "scan" /\ at <= N /\ pc' = "scan" /\ UNCHANGED <<S, cf, measure>>
      /\ UNCHANGED <<todo, left, ncoarse>> /\ at' = at + 1
  BY DEF ScanListed
<1>2. /\ at \in Points /\ at \in Undecided /\ at \notin Listed
      /\ \A i \in Undecided : i \in Listed <=> i < at
  BY <1>1, ScannedRow
<1>3. measure[at] \in Nat /\ measure[at] > 0
  BY <1>2 DEF ScanListed, Isolated, IInv, TypeInv
<1>4. /\ Undecided' = Undecided
      /\ CoarseIn(cf)' = CoarseIn(cf) /\ FineIn(cf)' = FineIn(cf)
      /\ \A i : (Owed(i)' <=> Owed(i)) => Weight(i)' = Weight(i)
  BY <1>1, SameMarks
<1>5. Listed' = Listed \cup {at}
  <2>1. \A i \in Undecided : i < at + 1 <=> i < at \/ i = at
    BY <1>2, ListedPoints DEF Points
  <2>2. Listed' = { i \in Undecided : i < at + 1 }
    BY <1>1, <1>4 DEF Listed, Scanned
  <2>3. Listed \subseteq Undecided
    BY ListedPoints
  <2>4. QED
    BY <1>2, <2>1, <2>2, <2>3
<1>6. ListsType(lists') /\ Kept(lists', Listed', measure')
  <2>1. ListsType(lists) /\ Kept(lists, Listed, measure)
    BY DEF IInv, TypeInv, ListsInv
  <2>2. lists' = enter_on_lists(lists, measure[at], at)
    BY DEF ScanListed
  <2> DEFINE m == measure[at]
  <2>3. /\ Listed \in SUBSET Points /\ m \in Int /\ measure[at] = m
        /\ \A x \in Listed : measure[x] = measure[x]
    BY <1>3, ListedPoints
  <2> HIDE DEF m
  <2>4. /\ ListsType(enter_on_lists(lists, m, at))
        /\ Kept(enter_on_lists(lists, m, at), Listed \cup {at}, measure)
    BY <1>2, <2>1, <2>3, EnterKeeps
  <2>5. QED
    BY <1>1, <1>5, <2>2, <2>3, <2>4
<1>7. TypeInv'
  <2>1. at + 1 \in 1 .. N + 1
    BY <1>2, GraphAssumption DEF Points
  <2>2. QED
    BY <1>1, <1>6, <2>1 DEF IInv, TypeInv
<1>8. CountsInv'
  BY <1>1, <1>4 DEF IInv, CountsInv
<1>9. WeightInv'
  <2> SUFFICES ASSUME NEW i \in Undecided
               PROVE  measure'[i] = Weight(i)' /\ (Scanned(i)' => measure'[i] > 0)
    BY <1>4 DEF WeightInv
  <2>1. Owed(i)' <=> Owed(i)
    BY <1>1 DEF Owed
  <2>2. Scanned(i)' => Scanned(i) \/ i = at
    BY <1>1, <1>2, ListedPoints DEF Scanned, Points
  <2>3. QED
    BY <1>1, <1>3, <1>4, <2>1, <2>2 DEF IInv, WeightInv
<1>10. ListsInv'
  BY <1>6 DEF ListsInv
<1>11. LoopInv'
  <2>1. \A i \in Points : i < at => i < at + 1
    BY <1>2 DEF Points
  <2>2. QED
    BY <1>1, <2>1 DEF IInv, LoopInv
<1>12. SplitInv'
  <2>1. \A c, i : ~ Pending(c, i)
    BY <1>1 DEF Pending
  <2>2. QED
    BY <1>1, <1>4, <2>1 DEF IInv, SplitInv, Covered
<1>13. QED
  BY <1>7, <1>8, <1>9, <1>10, <1>11, <1>12 DEF IInv

LEMMA EndScanKeeps ==
  ASSUME IInv, EndScan
  PROVE  IInv'
<1>1. pc = "scan" /\ at > N /\ pc' = "choose"
      /\ UNCHANGED <<S, measure, cf, lists, at, todo, left, ncoarse>>
  BY DEF EndScan
<1>2. /\ Undecided' = Undecided
      /\ CoarseIn(cf)' = CoarseIn(cf) /\ FineIn(cf)' = FineIn(cf)
      /\ \A i : (Owed(i)' <=> Owed(i)) => Weight(i)' = Weight(i)
  BY <1>1, SameMarks
<1>3. \A i \in Undecided : Scanned(i) /\ Scanned(i)'
  BY <1>1, GraphAssumption, ListedPoints DEF Scanned, Points, IInv, TypeInv
<1>4. Listed' = Listed
  BY <1>2, <1>3 DEF Listed
<1>5. TypeInv' /\ CountsInv'
  BY <1>1, <1>2 DEF IInv, TypeInv, CountsInv
<1>6. WeightInv'
  <2> SUFFICES ASSUME NEW i \in Undecided
               PROVE  measure'[i] = Weight(i)' /\ (Scanned(i)' => measure'[i] > 0)
    BY <1>2 DEF WeightInv
  <2>1. Owed(i)' <=> Owed(i)
    BY <1>1 DEF Owed
  <2>2. QED
    BY <1>1, <1>2, <1>3, <2>1 DEF IInv, WeightInv
<1>7. ListsInv'
  BY <1>1, <1>4 DEF IInv, ListsInv
<1>8. LoopInv'
  BY <1>1 DEF LoopInv
<1>9. SplitInv'
  <2>1. \A c, i : ~ Pending(c, i)
    BY <1>1 DEF Pending
  <2>2. QED
    BY <1>1, <1>2, <2>1 DEF IInv, SplitInv, Covered
<1>10. QED
  BY <1>5, <1>6, <1>7, <1>8, <1>9 DEF IInv

LEMMA ScanFineKeeps ==
  ASSUME IInv, ScanFine
  PROVE  IInv'
<1> DEFINE up == Influences(S, at)
           moved == { i \in up : i < at }
<1>1. pc = "scan" /\ at <= N /\ pc' = "scan" /\ at' = at + 1 /\ left' = left - 1
      /\ UNCHANGED <<S, todo, ncoarse>> /\ Isolated(measure[at])
      /\ cf' = [cf EXCEPT ![at] = Fine]
      /\ measure' = [i \in Points |-> IF i \in up THEN measure[i] + 1 ELSE measure[i]]
      /\ lists' \in Raised(lists, measure, moved)
  BY DEF ScanFine
<1>2. TypeInv /\ measure \in [Points -> Nat] /\ S \in Relations /\ at \in 1 .. N + 1
      /\ left = Cardinality(Undecided) /\ ncoarse = Cardinality(CoarseIn(cf))
  BY DEF IInv, TypeInv, CountsInv
<1>3. /\ at \in Points /\ at \in Undecided /\ at \notin Listed
      /\ \A i \in Points : i < at \/ i \in Undecided
      /\ \A i \in Undecided : i \in Listed <=> i < at
  BY <1>1, ScannedRow
<1>4. /\ cf' \in [Points -> {Coarse, Fine, UndecidedMark}]
      /\ Undecided' = Undecided \ {at}
      /\ FineIn(cf)' = FineIn(cf) \cup {at} /\ CoarseIn(cf)' = CoarseIn(cf)
      /\ Cardinality(Undecided') = Cardinality(Undecided) - 1
  BY <1>1, <1>2, <1>3, MarkFine
<1>5. /\ Undecided \subseteq Points /\ CoarseIn(cf) = {} /\ at \notin FineIn(cf)
      /\ FineIn(cf) \subseteq Points
      /\ \A i \in Points : i \in Undecided \/ i \in FineIn(cf)
      /\ \A i \in FineIn(cf) : i < at /\ Dependents(S, i) = {}
  BY <1>1, <1>2, <1>3, MarksPartition DEF IInv, LoopInv
<1>6. ~ Owed(at) /\ \A i : ~ Owed(i) /\ ~ Owed(i)'
  BY <1>1 DEF Owed
(* Nobody depends on a point of measure zero.                              *)
<1>7. Dependents(S, at) = {}
  <2>1. Sum(Dependents(S, at), Undecided, FineIn(cf)) <= 0
    <3>1. measure[at] = Weight(at) /\ measure[at] <= 0
      BY <1>1, <1>3 DEF IInv, WeightInv, Isolated
    <3>2. Dependents(S, at) \in SUBSET Points
      BY <1>2, <1>3, GraphFacts
    <3>3. Sum(Dependents(S, at), Undecided, FineIn(cf)) \in Nat
      BY <1>3, <1>5, <3>2, SumRaised
    <3>4. QED
      BY <1>6, <3>1, <3>3, WeightSum
  <2>2. Dependents(S, at) \subseteq Points
    BY <1>2, <1>3, GraphFacts
  <2>3. QED
    BY <1>5, <2>1, <2>2, SumZero
<1>8. moved \subseteq Listed /\ at \notin up /\ up \subseteq Points
  <2>1. at \notin up /\ up \subseteq Points
    BY <1>2, <1>3, GraphFacts
  <2>2. ASSUME NEW i \in moved PROVE i \in Listed
    <3>1. at \in Dependents(S, i) /\ i \in Points
      BY <1>2, <1>3, <2>1, GraphFacts
    <3>2. i \notin FineIn(cf)
      BY <1>5, <3>1
    <3>3. QED
      BY <1>3, <1>5, <3>1, <3>2
  <2>3. QED
    BY <2>1, <2>2
<1>9. Listed' = Listed
  <2>1. Listed' = { i \in Undecided \ {at} : i < at + 1 }
    BY <1>1, <1>4 DEF Listed, Scanned
  <2>2. \A i \in Undecided : i < at + 1 <=> i < at \/ i = at
    BY <1>3, <1>5 DEF Points
  <2>3. QED
    BY <1>3, <2>1, <2>2, ListedPoints
<1>10. measure' \in [Points -> Nat]
       /\ \A i \in Points : measure'[i] = measure[i] + (IF i \in up THEN 1 ELSE 0)
  BY <1>1, <1>2
<1>11. ListsType(lists') /\ Kept(lists', Listed', measure')
  <2>1. ListsType(lists) /\ Kept(lists, Listed, measure) /\ Listed \in SUBSET Points
    BY ListedPoints DEF IInv, TypeInv, ListsInv
  <2>2. \A x \in Listed : measure[x] \in Int
    BY <1>2, ListedPoints
  <2>3. \A x \in Listed : measure'[x] = IF x \in moved THEN measure[x] + 1 ELSE measure[x]
    <3>1. \A x \in Listed : x \in Points /\ x < at /\ measure[x] \in Nat
      BY <1>2, <1>3, ListedPoints
    <3>2. QED
      BY <1>10, <3>1
  <2>4. moved \in SUBSET Listed /\ lists' \in Raised(lists, measure, moved)
    BY <1>1, <1>8
  <2> HIDE DEF moved
  <2>5. ListsType(lists') /\ Kept(lists', Listed, measure')
    BY <2>1, <2>2, <2>3, <2>4, RaisedKeeps
  <2>6. QED
    BY <1>9, <2>5
<1>12. TypeInv'
  <2>1. at + 1 \in 1 .. N + 1
    BY <1>3, GraphAssumption DEF Points
  <2>2. QED
    BY <1>1, <1>2, <1>4, <1>10, <1>11, <2>1 DEF TypeInv
<1>13. CountsInv'
  BY <1>1, <1>2, <1>4 DEF CountsInv
<1>14. WeightInv'
  <2> SUFFICES ASSUME NEW i \in Undecided'
               PROVE  measure'[i] = Weight(i)' /\ (Scanned(i)' => measure'[i] > 0)
    BY DEF WeightInv
  <2>1. i \in Undecided /\ i # at /\ i \in Points
    BY <1>4, <1>5
  <2>2. Weight(i)' = Weight(i) + (IF i \in up THEN 1 ELSE 0)
    BY <1>1, <1>2, <1>3, <1>6, <2>1, FineWeights
  <2>3. measure[i] = Weight(i) /\ (Scanned(i) => measure[i] > 0) /\ measure[i] \in Nat
    BY <1>2, <2>1 DEF IInv, WeightInv
  <2>4. Scanned(i)' => Scanned(i)
    BY <1>1, <1>3, <2>1 DEF Scanned, Points
  <2>5. measure'[i] = measure[i] + (IF i \in up THEN 1 ELSE 0)
    BY <1>10, <2>1
  <2> HIDE DEF up
  <2>6. QED
    BY <2>2, <2>3, <2>4, <2>5
<1>15. ListsInv'
  BY <1>11 DEF ListsInv
<1>16. LoopInv'
  <2> SUFFICES ASSUME NEW i \in Points
               PROVE  cf'[i] # Coarse /\ (cf'[i] = Fine => i < at' /\ Dependents(S', i) = {})
    BY <1>1 DEF LoopInv
  <2>1. CASE i = at
    <3>1. cf'[i] = Fine
      BY <1>1, <1>2, <1>3, <2>1 DEF TypeInv
    <3>2. QED
      BY <1>1, <1>3, <1>7, <2>1, <3>1 DEF Fine, Coarse, Points
  <2>2. CASE i # at
    <3>1. cf'[i] = cf[i]
      BY <1>1, <1>2, <2>2 DEF TypeInv
    <3>2. cf[i] # Coarse /\ (cf[i] = Fine => i < at /\ Dependents(S, i) = {})
      BY <1>1 DEF IInv, LoopInv
    <3>3. i < at => i < at + 1
      BY <1>3 DEF Points
    <3>4. QED
      BY <1>1, <3>1, <3>2, <3>3
  <2>3. QED
    BY <2>1, <2>2
<1>17. SplitInv'
  <2>1. CoarseIn(cf)' = {}
    BY <1>4, <1>5
  <2>2. \A i \in FineIn(cf)' : Dependents(S', i) = {}
    BY <1>1, <1>4, <1>5, <1>7
  <2>3. QED
    BY <2>1, <2>2 DEF SplitInv, Covered
<1>18. QED
  BY <1>12, <1>13, <1>14, <1>15, <1>16, <1>17 DEF IInv


(* MakeFine, of a point the loops over a row visit.                        *)
LEMMA MakeFineKeeps ==
  ASSUME IInv, pc \in {"dependents", "influences"}, NEW i \in todo, i \in Undecided,
         NEW base \in [Points -> Nat], \A j \in Points \ {i} : base[j] = measure[j],
         MakeFine(i, measure[i], base),
         UNCHANGED <<pc, S, at, ncoarse>>, todo' = todo \ {i},
         Symmetric(S) => Influences(S, i) \cap CoarseIn(cf) # {}
  PROVE  IInv'
<1> DEFINE up == { j \in Influences(S, i) : cf[j] = UndecidedMark }
           K == remove_point(lists, measure[i], i)
           rest == Undecided \ {i}
<1>1. /\ cf' = [cf EXCEPT ![i] = Fine] /\ left' = left - 1
      /\ measure' = [j \in Points |-> IF j \in up THEN base[j] + 1 ELSE base[j]]
      /\ lists' \in Raised(K, base, up)
  BY DEF MakeFine
<1>2. TypeInv /\ measure \in [Points -> Nat] /\ S \in Relations
      /\ left = Cardinality(Undecided) /\ ncoarse = Cardinality(CoarseIn(cf))
  BY DEF IInv, TypeInv, CountsInv
<1>3. /\ cf' \in [Points -> {Coarse, Fine, UndecidedMark}]
      /\ Undecided' = rest
      /\ FineIn(cf)' = FineIn(cf) \cup {i} /\ CoarseIn(cf)' = CoarseIn(cf)
      /\ Cardinality(Undecided') = Cardinality(Undecided) - 1
  BY <1>1, <1>2, MarkFine
<1>4. i \in Points /\ i \notin Influences(S, i) /\ up \subseteq rest /\ rest \subseteq Points
      /\ \A j \in rest : j \in up <=> j \in Influences(S, i)
  <2>1. i \in Points /\ Influences(S, i) \subseteq Points /\ i \notin Influences(S, i)
    BY <1>2, ListedPoints, GraphFacts
  <2>2. QED
    BY <2>1 DEF Undecided
<1>5. \A j \in rest : /\ base[j] = measure[j] /\ measure[j] \in Nat
                      /\ measure'[j] = measure[j] + (IF j \in Influences(S, i) THEN 1 ELSE 0)
  BY <1>1, <1>2, <1>4
<1>6. measure' \in [Points -> Nat]
  BY <1>1
<1>7. Listed = Undecided /\ Listed' = Undecided'
  BY DEF Listed, Scanned
<1>8. ListsType(lists') /\ Kept(lists', rest, measure')
  <2>1. ListsType(lists) /\ Kept(lists, Undecided, measure) /\ Undecided \in SUBSET Points
    BY <1>7, ListedPoints DEF IInv, TypeInv, ListsInv
  <2>2. ListsType(K) /\ Kept(K, rest, measure)
    BY <2>1, RemoveKeeps
  <2> HIDE DEF K
  <2>3. Kept(K, rest, base)
    BY <1>5, <2>2, KeptAgrees
  <2>4. /\ rest \in SUBSET Points /\ up \in SUBSET rest
        /\ \A x \in rest : base[x] \in Int
        /\ \A x \in rest : measure'[x] = IF x \in up THEN base[x] + 1 ELSE base[x]
    BY <1>1, <1>4, <1>5
  <2> HIDE DEF rest, up
  <2>5. QED
    BY <1>1, <2>2, <2>3, <2>4, RaisedKeeps
<1>9. TypeInv'
  BY <1>2, <1>3, <1>6, <1>8 DEF TypeInv
<1>10. CountsInv'
  BY <1>1, <1>2, <1>3 DEF CountsInv
<1>11. WeightInv'
  <2> SUFFICES ASSUME NEW j \in rest
               PROVE  measure'[j] = Weight(j)' /\ (Scanned(j)' => measure'[j] > 0)
    BY <1>3 DEF WeightInv
  <2>1. Owed(j)' <=> Owed(j)
    BY DEF Owed
  <2>2. Weight(j)' = Weight(j) + (IF j \in Influences(S, i) THEN 1 ELSE 0)
    BY <1>1, <1>2, <2>1, FineWeights
  <2>3. measure[j] = Weight(j) /\ measure[j] > 0
    BY DEF IInv, WeightInv, Scanned
  <2>4. /\ measure[j] \in Nat
        /\ measure'[j] = measure[j] + (IF j \in Influences(S, i) THEN 1 ELSE 0)
    BY <1>5
  <2>5. QED
    BY <2>2, <2>3, <2>4
<1>12. ListsInv'
  BY <1>3, <1>7, <1>8 DEF ListsInv
<1>13. LoopInv'
  BY <1>3 DEF IInv, LoopInv
<1>14. SplitInv'
  <2> SUFFICES ASSUME Symmetric(S)
               PROVE  /\ \A c \in CoarseIn(cf) : \A j \in Dependents(S, c) :
                           j \in FineIn(cf)' \/ Pending(c, j)'
                      /\ Covered(S, cf)'
    BY <1>3 DEF SplitInv, Covered
  <2>1. ASSUME NEW c \in CoarseIn(cf), NEW j \in Dependents(S, c)
        PROVE  j \in FineIn(cf)' \/ Pending(c, j)'
    <3>1. j \in FineIn(cf) \/ Pending(c, j)
      BY DEF IInv, SplitInv
    <3>2. CASE j = i
      BY <1>3, <3>2
    <3>3. CASE j # i
      BY <1>3, <3>1, <3>3 DEF Pending
    <3>4. QED
      BY <3>2, <3>3
  <2>2. Covered(S, cf)'
    BY <1>3 DEF IInv, SplitInv, Covered
  <2>3. QED
    BY <2>1, <2>2
<1>15. QED
  BY <1>9, <1>10, <1>11, <1>12, <1>13, <1>14 DEF IInv

(* When nothing but the loop over a row moves on.                          *)
LEMMA LoopKeeps ==
  ASSUME IInv, UNCHANGED <<S, measure, cf, lists, left, ncoarse>>,
         pc # "scan", pc' \in {"choose", "dependents", "influences", "done"},
         at' \in 1 .. N + 1, todo' \subseteq Points,
         LoopInv', \A i \in Undecided : Owed(i)' <=> Owed(i),
         \A c, i : Pending(c, i) => Pending(c, i)' \/ i \in FineIn(cf)
  PROVE  IInv'
<1>1. /\ Undecided' = Undecided
      /\ CoarseIn(cf)' = CoarseIn(cf) /\ FineIn(cf)' = FineIn(cf)
      /\ \A i : (Owed(i)' <=> Owed(i)) => Weight(i)' = Weight(i)
  BY SameMarks
<1>2. \A i : Scanned(i) /\ Scanned(i)'
  BY DEF Scanned
<1>3. Listed' = Listed
  BY <1>1, <1>2 DEF Listed
<1>4. TypeInv' /\ CountsInv'
  BY <1>1 DEF IInv, TypeInv, CountsInv
<1>5. WeightInv'
  BY <1>1, <1>2 DEF IInv, WeightInv
<1>6. ListsInv'
  BY <1>3 DEF IInv, ListsInv
<1>7. SplitInv'
  BY <1>1 DEF IInv, SplitInv, Covered
<1>8. QED
  BY <1>4, <1>5, <1>6, <1>7 DEF IInv


(* As long as points are left the head of the lists exists and is          *)
(* undecided.                                                              *)
LEMMA HeadUndecided ==
  ASSUME IInv, pc = "choose", left > 0
  PROVE  First(lists) \in Undecided
<1>1. ListsType(lists) /\ Kept(lists, Undecided, measure)
  <2>1. Listed = Undecided
    BY DEF Listed, Scanned
  <2>2. QED
    BY <2>1 DEF IInv, TypeInv, ListsInv
<1>2. Undecided # {}
  BY FS_EmptySet DEF IInv, CountsInv
<1>3. \E k \in DOMAIN lists.chain : TRUE
  BY <1>1, <1>2 DEF Kept
<1>4. lists.chain \in Seq(ListType) /\ DOMAIN lists.chain = 1 .. Len(lists.chain)
      /\ Len(lists.chain) \in Nat
  BY <1>1, ListsTypeFields
<1>5. 1 \in DOMAIN lists.chain
  BY <1>3, <1>4
<1>6. First(lists) = lists.chain[1].head
  BY <1>4, <1>5 DEF First
<1>7. Ordered(lists.next, lists.prev, lists.chain[1].head, lists.chain[1].tail,
              Under(Undecided, measure, lists.chain[1].data))
  BY <1>1, <1>5 DEF Kept
<1>8. lists.chain[1].head \in Under(Undecided, measure, lists.chain[1].data)
  BY <1>7, OrderedEnds
<1>9. QED
  BY <1>6, <1>8 DEF Under

LEMMA ChooseKeeps ==
  ASSUME IInv, Choose
  PROVE  IInv'
<1>0. PICK i : i = First(lists)
  OBVIOUS
<1> DEFINE rest == Undecided \ {i}
<1>1. /\ pc = "choose" /\ left > 0 /\ at' = i /\ cf' = [cf EXCEPT ![i] = Coarse]
      /\ ncoarse' = ncoarse + 1 /\ lists' = remove_point(lists, measure[i], i)
      /\ measure' = [measure EXCEPT ![i] = 0] /\ left' = left - 1
      /\ todo' = Dependents(S, i) /\ pc' = "dependents" /\ S' = S
  BY <1>0 DEF Choose, RowsToVisit
<1>2. /\ TypeInv /\ measure \in [Points -> Nat] /\ S \in Relations
      /\ left = Cardinality(Undecided) /\ ncoarse = Cardinality(CoarseIn(cf))
  BY DEF IInv, TypeInv, CountsInv
<1>3. Listed = Undecided /\ Listed' = Undecided'
  BY <1>1 DEF Listed, Scanned
<1>4. ListsType(lists) /\ Kept(lists, Undecided, measure) /\ Undecided \in SUBSET Points
  BY <1>3, ListedPoints DEF IInv, TypeInv, ListsInv
<1>5. i \in Undecided
  BY <1>0, <1>1, HeadUndecided
<1>6. /\ cf' \in [Points -> {Coarse, Fine, UndecidedMark}]
      /\ Undecided' = rest
      /\ CoarseIn(cf)' = CoarseIn(cf) \cup {i} /\ FineIn(cf)' = FineIn(cf)
      /\ Cardinality(Undecided') = Cardinality(Undecided) - 1
      /\ Cardinality(CoarseIn(cf)') = Cardinality(CoarseIn(cf)) + 1
  BY <1>1, <1>2, <1>5, MarkCoarse
<1>7. i \in Points /\ i \notin Dependents(S, i) /\ Dependents(S, i) \subseteq Points
  BY <1>2, <1>4, <1>5, GraphFacts
<1>8. /\ measure' \in [Points -> Nat]
      /\ \A j \in rest : measure'[j] = measure[j]
  BY <1>1, <1>2, <1>4
<1>9. ListsType(lists') /\ Kept(lists', rest, measure')
  <2>1. ListsType(lists') /\ Kept(lists', rest, measure)
    BY <1>1, <1>4, <1>5, RemoveKeeps
  <2> HIDE DEF rest
  <2>2. QED
    BY <1>8, <2>1, KeptAgrees
<1>10. TypeInv'
  BY <1>1, <1>2, <1>6, <1>7, <1>8, <1>9, GraphAssumption DEF TypeInv, Points
<1>11. CountsInv'
  BY <1>1, <1>2, <1>6 DEF CountsInv
<1>12. WeightInv'
  <2> SUFFICES ASSUME NEW j \in rest
               PROVE  measure'[j] = Weight(j)' /\ (Scanned(j)' => measure'[j] > 0)
    BY <1>6 DEF WeightInv
  <2> DEFINE D == Dependents(S, j)
             F == FineIn(cf)
  <2>1. j \in Points /\ D \in SUBSET Points /\ (i \in D <=> j \in Influences(S, i))
    BY <1>2, <1>4, <1>7, GraphFacts
  <2>2. F \in SUBSET Points /\ i \notin F
    BY <1>2, <1>5, MarksPartition
  <2>3. Weight(j) = Sum(D, Undecided, F)
    <3>1. ~ Owed(j) /\ Sum(D, Undecided, F) \in Nat
      <4>1. ~ Owed(j)
        BY <1>1 DEF Owed
      <4> HIDE DEF D, F
      <4>2. Sum(D, Undecided, F) \in Nat
        BY <1>4, <1>5, <2>1, <2>2, SumRaised
      <4>3. QED
        BY <4>1, <4>2
    <3>2. Weight(j) = Sum(D, Undecided, F) + (IF Owed(j) THEN 1 ELSE 0)
      BY WeightSum
    <3>3. QED
      BY <3>1, <3>2
  <2>4. Weight(j)' = Sum(D, rest, F) + (IF i \in D THEN 1 ELSE 0)
    <3>1. Owed(j)' <=> i \in D
      BY <1>1, <2>1 DEF Owed
    <3>2. Weight(j)' = Sum(Dependents(S', j), Undecided', FineIn(cf)')
                         + (IF Owed(j)' THEN 1 ELSE 0)
      BY WeightSumNext
    <3>3. Dependents(S', j) = D
      BY <1>1
    <3> HIDE DEF D, F, rest
    <3>4. QED
      BY <1>6, <3>1, <3>2, <3>3 DEF F
  <2> HIDE DEF D, F
  <2>5. /\ Sum(D, Undecided, F) \in Nat
        /\ Sum(D, Undecided \ {i}, F) = Sum(D, Undecided, F) - (IF i \in D THEN 1 ELSE 0)
    <3>1. /\ D \in SUBSET Points /\ Undecided \in SUBSET Points /\ F \in SUBSET Points
          /\ i \in Undecided /\ i \notin F
      BY <1>4, <1>5, <2>1, <2>2
    <3>2. Sum(D, Undecided, F) \in Nat
      BY ONLY <3>1, SumRaised
    <3>3. Sum(D, Undecided \ {i}, F) = Sum(D, Undecided, F) - (IF i \in D THEN 1 ELSE 0)
      BY ONLY <3>1, SumLowered
    <3>4. QED
      BY <3>2, <3>3
  <2>6. Weight(j)' = Weight(j)
    <3>1. rest = Undecided \ {i}
      OBVIOUS
    <3> HIDE DEF rest
    <3>2. QED
      BY <2>3, <2>4, <2>5, <3>1
  <2>7. measure[j] = Weight(j) /\ measure[j] > 0
    BY <1>1 DEF IInv, WeightInv, Scanned
  <2>8. QED
    BY <1>8, <2>6, <2>7
<1>13. ListsInv'
  BY <1>3, <1>6, <1>9 DEF ListsInv
<1>14. LoopInv'
  BY <1>1, <1>6 DEF LoopInv
<1>15. SplitInv'
  <2> SUFFICES ASSUME Symmetric(S)
               PROVE  /\ \A c \in CoarseIn(cf) \cup {i} : \A j \in Dependents(S, c) :
                           j \in FineIn(cf) \/ Pending(c, j)'
                      /\ Covered(S, cf)'
    BY <1>1, <1>6 DEF SplitInv, Covered
  <2>1. ASSUME NEW c \in CoarseIn(cf), NEW j \in Dependents(S, c) PROVE j \in FineIn(cf)
    BY <1>1, <2>1 DEF IInv, SplitInv, Pending
  <2>2. ASSUME NEW j \in Dependents(S, i) PROVE j \in FineIn(cf) \/ Pending(i, j)'
    <3>1. j # i /\ j \in Points /\ i \in Dependents(S, j)
      BY <1>2, <1>7, GraphFacts
    <3>2. j \notin CoarseIn(cf)
      <4>1. i \notin FineIn(cf)
        BY <1>2, <1>5, MarksPartition
      <4>2. QED
        BY <2>1, <3>1, <4>1
    <3>3. Pending(i, j)'
      BY <1>1, <1>6, <3>1, <3>2 DEF Pending
    <3>4. QED
      BY <3>3
  <2>3. Covered(S, cf)'
    BY <1>1, <1>6 DEF IInv, SplitInv, Covered
  <2>4. QED
    BY <2>1, <2>2, <2>3
<1>16. QED
  BY <1>10, <1>11, <1>12, <1>13, <1>14, <1>15 DEF IInv

LEMMA VisitDependentKeeps ==
  ASSUME IInv, NEW i \in todo, VisitDependent(i)
  PROVE  IInv'
<1>1. /\ pc = "dependents" /\ todo' = todo \ {i} /\ UNCHANGED <<pc, S, at, ncoarse>>
      /\ IF i \in Undecided THEN MakeFine(i, measure[i], measure)
         ELSE UNCHANGED <<cf, measure, lists, left>>
  <2>1. i \in Points /\ StillUndecided(i) = (cf[i] = UndecidedMark)
    BY DEF IInv, TypeInv, StillUndecided
  <2>2. i \in Undecided <=> StillUndecided(i)
    BY <2>1 DEF Undecided
  <2>3. QED
    BY <2>2 DEF VisitDependent
<1>2. at \in CoarseIn(cf) /\ at \in Points /\ i \in Dependents(S, at) /\ i \in Points
  BY <1>1 DEF IInv, TypeInv, LoopInv, CoarseIn
<1>3. at \in Influences(S, i)
  BY <1>2, GraphFacts DEF IInv, TypeInv
<1>4. CASE i \in Undecided
  <2>1. measure \in [Points -> Nat] /\ \A j \in Points \ {i} : measure[j] = measure[j]
    BY DEF IInv, TypeInv
  <2>2. MakeFine(i, measure[i], measure)
    BY <1>1, <1>4
  <2>3. Influences(S, i) \cap CoarseIn(cf) # {}
    BY <1>2, <1>3
  <2>4. QED
    BY <1>1, <1>4, <2>1, <2>2, <2>3, MakeFineKeeps
<1>5. CASE i \notin Undecided
  <2>1. UNCHANGED <<S, measure, cf, lists, left, ncoarse>>
    BY <1>1, <1>5
  <2>2. \A c, j : Pending(c, j) => Pending(c, j)' \/ j \in FineIn(cf)
    <3>1. i \in CoarseIn(cf) \/ i \in FineIn(cf)
      BY <1>2, <1>5, MarksPartition DEF IInv
    <3>2. QED
      BY <1>1, <2>1, <3>1 DEF Pending
  <2>3. \A j : Owed(j)' <=> Owed(j)
    BY <1>1 DEF Owed
  <2>4. LoopInv'
    BY <1>1, <2>1 DEF IInv, LoopInv
  <2>5. pc # "scan" /\ pc' \in {"choose", "dependents", "influences", "done"}
        /\ at' \in 1 .. N + 1 /\ todo' \subseteq Points
    BY <1>1 DEF IInv, TypeInv
  <2>6. QED
    BY <2>1, <2>2, <2>3, <2>4, <2>5, LoopKeeps
<1>6. QED
  BY <1>4, <1>5

LEMMA EndDependentsKeeps ==
  ASSUME IInv, EndDependents
  PROVE  IInv'
<1>1. /\ pc = "dependents" /\ todo = {} /\ todo' = Influences(S, at) /\ pc' = "influences"
      /\ UNCHANGED <<S, measure, cf, lists, at, left, ncoarse>>
  BY DEF EndDependents
<1>2. at \in CoarseIn(cf) /\ at \in 1 .. N + 1
  BY <1>1 DEF IInv, TypeInv, LoopInv
<1>3. \A j : Owed(j)' <=> Owed(j)
  BY <1>1 DEF Owed
<1>4. \A c, j : ~ Pending(c, j)
  BY <1>1 DEF Pending
<1>5. LoopInv'
  BY <1>1, <1>2 DEF LoopInv
<1>6. todo' \subseteq Points
  BY <1>1 DEF Influences
<1>7. QED
  BY <1>1, <1>2, <1>3, <1>4, <1>5, <1>6, LoopKeeps


LEMMA VisitInfluenceKeeps ==
  ASSUME IInv, NEW i \in todo, VisitInfluence(i)
  PROVE  IInv'
<1> DEFINE base == LoweredMeasure(i)
<1>1. /\ pc = "influences" /\ todo' = todo \ {i} /\ UNCHANGED <<pc, S, at, ncoarse>>
      /\ \/ /\ cf[i] # UndecidedMark
            /\ UNCHANGED <<cf, measure, lists, left>>
         \/ /\ cf[i] = UndecidedMark /\ ~ Isolated(base[i])
            /\ measure' = base
            /\ lists' = enter_on_lists(remove_point(lists, measure[i], i), base[i], i)
            /\ UNCHANGED <<cf, left>>
         \/ /\ cf[i] = UndecidedMark /\ MakeFine(i, measure[i], base)
  BY DEF VisitInfluence
<1>2. /\ TypeInv /\ S \in Relations /\ measure \in [Points -> Nat]
      /\ at \in CoarseIn(cf) /\ at \in Points /\ i \in Influences(S, at) /\ i \in Points
      /\ todo \subseteq Points
  BY <1>1 DEF IInv, TypeInv, LoopInv, CoarseIn
<1>3. Symmetric(S) => at \in Influences(S, i)
  BY <1>2, GraphFacts
<1>4. CASE cf[i] # UndecidedMark
  <2>1. UNCHANGED <<S, measure, cf, lists, left, ncoarse>>
    BY <1>1, <1>4
  <2>2. \A j \in Undecided : Owed(j)' <=> Owed(j)
    BY <1>1, <1>4 DEF Owed, Undecided
  <2>3. LoopInv'
    BY <1>1, <2>1 DEF IInv, LoopInv
  <2>4. /\ pc # "scan" /\ pc' \in {"choose", "dependents", "influences", "done"}
        /\ at' \in 1 .. N + 1 /\ todo' \subseteq Points
        /\ \A c, j : ~ Pending(c, j)
    BY <1>1, <1>2 DEF TypeInv, Pending
  <2>5. QED
    BY <2>1, <2>2, <2>3, <2>4, LoopKeeps
<1>5. ASSUME i \in Undecided
      PROVE  /\ measure[i] > 0 /\ measure[i] = Weight(i) /\ base \in [Points -> Nat]
             /\ base[i] = measure[i] - 1
             /\ \A j \in Points \ {i} : base[j] = measure[j]
  <2>1. measure[i] > 0 /\ measure[i] = Weight(i)
    BY <1>1, <1>5 DEF IInv, WeightInv, Scanned
  <2>2. measure[i] - 1 \in Nat
    BY <1>2, <2>1
  <2>3. QED
    BY <1>2, <2>1, <2>2 DEF LoweredMeasure
<1>6. CASE /\ i \in Undecided /\ ~ Isolated(base[i])
           /\ measure' = base
           /\ lists' = enter_on_lists(remove_point(lists, measure[i], i), base[i], i)
           /\ UNCHANGED <<cf, left>>
  <2> DEFINE K == remove_point(lists, measure[i], i)
             rest == Undecided \ {i}
             m == base[i]
  <2>1. m \in Nat /\ m > 0 /\ measure'[i] = m /\ measure' \in [Points -> Nat]
        /\ \A x \in Points \ {i} : measure'[x] = measure[x]
    BY <1>2, <1>5, <1>6 DEF Isolated
  <2>2. /\ Undecided' = Undecided
        /\ CoarseIn(cf)' = CoarseIn(cf) /\ FineIn(cf)' = FineIn(cf)
        /\ \A j : (Owed(j)' <=> Owed(j)) => Weight(j)' = Weight(j)
    BY <1>1, <1>6, SameMarks
  <2>3. Listed = Undecided /\ Listed' = Undecided
    BY <1>1, <2>2 DEF Listed, Scanned
  <2>4. ListsType(lists) /\ Kept(lists, Undecided, measure) /\ Undecided \in SUBSET Points
    BY <2>3, ListedPoints DEF IInv, TypeInv, ListsInv
  <2>5. ListsType(K) /\ Kept(K, rest, measure)
    BY <1>6, <2>4, RemoveKeeps
  <2>6. /\ rest \in SUBSET Points /\ i \notin rest /\ rest \cup {i} = Undecided
        /\ \A x \in rest : measure'[x] = measure[x]
    BY <1>6, <2>1, <2>4
  <2>7. lists' = enter_on_lists(K, m, i)
    BY <1>6
  <2> HIDE DEF K, rest, m
  <2>8. ListsType(enter_on_lists(K, m, i)) /\ Kept(enter_on_lists(K, m, i), rest \cup {i}, measure')
    BY <1>2, <2>1, <2>5, <2>6, EnterKeeps
  <2>9. ListsType(lists') /\ Kept(lists', Undecided, measure')
    BY <2>6, <2>7, <2>8
  <2>10. TypeInv' /\ CountsInv'
    BY <1>1, <1>2, <1>6, <2>1, <2>2, <2>9 DEF IInv, TypeInv, CountsInv
  <2>11. WeightInv'
    <3> SUFFICES ASSUME NEW j \in Undecided
                 PROVE  measure'[j] = Weight(j)' /\ (Scanned(j)' => measure'[j] > 0)
      BY <2>2 DEF WeightInv
    <3>1. CASE j = i
      <4>1. Owed(i) /\ ~ Owed(i)'
        BY <1>1 DEF Owed
      <4> DEFINE sum == Sum(Dependents(S, i), Undecided, FineIn(cf))
      <4>2. Weight(i) = sum + 1
        BY <4>1, WeightSum
      <4>3. Weight(i)' = sum + 0
        <5>1. Weight(i)' = Sum(Dependents(S', i), Undecided', FineIn(cf)')
                             + (IF Owed(i)' THEN 1 ELSE 0)
          BY WeightSumNext
        <5>2. QED
          BY <1>1, <2>2, <4>1, <5>1
      <4>4. sum \in Nat
        <5>1. Dependents(S, i) \in SUBSET Points /\ FineIn(cf) \in SUBSET Points
          BY <1>2, GraphFacts, MarksPartition
        <5>2. QED
          BY <5>1, <2>4, PointsFinite DEF Sum
      <4> HIDE DEF sum
      <4>5. QED
        BY <1>5, <1>6, <2>1, <3>1, <4>2, <4>3, <4>4 DEF m
    <3>2. CASE j # i
      <4>1. Owed(j)' <=> Owed(j)
        BY <1>1, <3>2 DEF Owed
      <4>2. measure'[j] = measure[j] /\ measure[j] = Weight(j) /\ measure[j] > 0
        BY <1>1, <2>1, <2>4, <3>2 DEF IInv, WeightInv, Scanned
      <4>3. QED
        BY <2>2, <4>1, <4>2
    <3>3. QED
      BY <3>1, <3>2
  <2>12. ListsInv'
    BY <2>3, <2>9 DEF ListsInv
  <2>13. LoopInv'
    BY <1>1, <2>2 DEF IInv, LoopInv
  <2>14. SplitInv'
    <3>1. \A c, j : ~ Pending(c, j)
      BY <1>1 DEF Pending
    <3>2. QED
      BY <1>1, <2>2, <3>1 DEF IInv, SplitInv, Covered
  <2>15. QED
    BY <2>10, <2>11, <2>12, <2>13, <2>14 DEF IInv
<1>7. CASE i \in Undecided /\ MakeFine(i, measure[i], base)
  <2>1. Symmetric(S) => Influences(S, i) \cap CoarseIn(cf) # {}
    BY <1>2, <1>3
  <2>2. base \in [Points -> Nat] /\ \A j \in Points \ {i} : base[j] = measure[j]
    BY <1>5, <1>7
  <2> HIDE DEF base
  <2>3. QED
    BY <1>1, <1>7, <2>1, <2>2, MakeFineKeeps
<1>8. cf[i] = UndecidedMark => i \in Undecided
  BY <1>2 DEF Undecided
<1>9. QED
  BY <1>1, <1>4, <1>6, <1>7, <1>8

LEMMA EndInfluencesKeeps ==
  ASSUME IInv, EndInfluences
  PROVE  IInv'
<1>1. /\ pc = "influences" /\ todo = {} /\ pc' = "choose"
      /\ UNCHANGED <<S, measure, cf, lists, at, todo, left, ncoarse>>
  BY DEF EndInfluences
<1>2. \A j : Owed(j)' <=> Owed(j)
  BY <1>1 DEF Owed
<1>3. \A c, j : ~ Pending(c, j)
  BY <1>1 DEF Pending
<1>4. LoopInv'
  BY <1>1 DEF LoopInv
<1>5. at' \in 1 .. N + 1 /\ todo' \subseteq Points
  BY <1>1 DEF IInv, TypeInv
<1>6. QED
  BY <1>1, <1>2, <1>3, <1>4, <1>5, LoopKeeps

LEMMA FinishKeeps ==
  ASSUME IInv, Finish
  PROVE  IInv'
<1>1. /\ pc = "choose" /\ pc' = "done"
      /\ UNCHANGED <<S, measure, cf, lists, at, todo, left, ncoarse>>
  BY DEF Finish
<1>2. \A j : Owed(j)' <=> Owed(j)
  BY <1>1 DEF Owed
<1>3. \A c, j : ~ Pending(c, j)
  BY <1>1 DEF Pending
<1>4. LoopInv'
  BY <1>1 DEF LoopInv
<1>5. at' \in 1 .. N + 1 /\ todo' \subseteq Points
  BY <1>1 DEF IInv, TypeInv
<1>6. QED
  BY <1>1, <1>2, <1>3, <1>4, <1>5, LoopKeeps

LEMMA StutterKeeps ==
  ASSUME IInv, UNCHANGED vars
  PROVE  IInv'
<1>1. UNCHANGED <<pc, S, measure, cf, lists, at, todo, left, ncoarse>>
  BY DEF vars
<1>2. /\ Undecided' = Undecided
      /\ CoarseIn(cf)' = CoarseIn(cf) /\ FineIn(cf)' = FineIn(cf)
      /\ \A i : (Owed(i)' <=> Owed(i)) => Weight(i)' = Weight(i)
  BY <1>1, SameMarks
<1>3. Listed' = Listed
  BY <1>1, <1>2 DEF Listed, Scanned
<1>4. TypeInv' /\ CountsInv'
  BY <1>1, <1>2 DEF IInv, TypeInv, CountsInv
<1>5. WeightInv'
  BY <1>1, <1>2 DEF IInv, WeightInv, Scanned, Owed
<1>6. ListsInv'
  BY <1>1, <1>3 DEF IInv, ListsInv
<1>7. LoopInv'
  BY <1>1, <1>2 DEF IInv, LoopInv
<1>8. SplitInv'
  BY <1>1, <1>2 DEF IInv, SplitInv, Covered, Pending
<1>9. QED
  BY <1>4, <1>5, <1>6, <1>7, <1>8 DEF IInv

LEMMA NextIInv == IInv /\ [Next]_vars => IInv'
<1> SUFFICES ASSUME IInv, [Next]_vars PROVE IInv'
  OBVIOUS
<1>1. CASE ScanListed
  BY <1>1, ScanListedKeeps
<1>2. CASE ScanFine
  BY <1>2, ScanFineKeeps
<1>3. CASE EndScan
  BY <1>3, EndScanKeeps
<1>4. CASE Choose
  BY <1>4, ChooseKeeps
<1>5. ASSUME NEW i \in todo, VisitDependent(i) PROVE IInv'
  BY <1>5, VisitDependentKeeps
<1>6. ASSUME NEW i \in todo, VisitInfluence(i) PROVE IInv'
  BY <1>6, VisitInfluenceKeeps
<1>7. CASE EndDependents
  BY <1>7, EndDependentsKeeps
<1>8. CASE EndInfluences
  BY <1>8, EndInfluencesKeeps
<1>9. CASE Finish
  BY <1>9, FinishKeeps
<1>10. CASE UNCHANGED vars
  BY <1>10, StutterKeeps
<1>11. QED
  BY <1>1, <1>2, <1>3, <1>4, <1>5, <1>6, <1>7, <1>8, <1>9, <1>10 DEF Next

LEMMA Invariance == Spec => []IInv
BY InitIInv, NextIInv, PTL DEF Spec
-----------------------------------------------------------------------------
LEMMA IInvTypeOK == IInv => TypeOK
<1> SUFFICES ASSUME IInv PROVE TypeOK
  OBVIOUS
<1>1. /\ lists.next \in [Points -> Points \cup {0, LIST_TAIL}]
      /\ lists.prev \in [Points -> Points \cup {0, LIST_HEAD}]
  BY ListsTypeFields DEF IInv, TypeInv
<1>2. QED
  BY <1>1 DEF IInv, TypeInv, CountsInv, TypeOK

(* The points on the lists of link_list.h are the undecided ones the first *)
(* loop has passed, each on the list of its measure, which is the weight   *)
(* the method gives it, and positive; the links of next, prev, head and    *)
(* tail visit the points of every list, and the lists descend: whatever    *)
(* order the points of a row are raised in, and however points are taken   *)
(* from the front, the end or the middle of a list.                        *)
THEOREM RugeListsMatch == Spec => []ListsMatch
<1>1. IInv => ListsMatch
  <2> SUFFICES ASSUME IInv PROVE ListsMatch
    OBVIOUS
  <2>1. TypeOK
    BY IInvTypeOK
  <2>2. { i \in Undecided : Scanned(i) } \in SUBSET Points
    BY DEF Undecided
  <2>3. OnLists(lists, { i \in Undecided : Scanned(i) }, measure)
    BY <2>2, OnListsKept DEF IInv, ListsInv, Listed
  <2>4. QED
    BY <2>1, <2>3 DEF ListsMatch, IInv, WeightInv
<1>2. QED
  BY <1>1, Invariance, PTL

(* When the strength is symmetric no two coarse points are neighbours and  *)
(* every fine point that has neighbours has a coarse one, in every order   *)
(* of the columns of a row.                                                *)
THEOREM RugeIndependentAndCovering == Spec => []IndependentAndCovering
<1>1. IInv => IndependentAndCovering
  <2> SUFFICES ASSUME IInv, Symmetric(S), pc = "done"
               PROVE  /\ \A i, j \in CoarseIn(cf) : <<i, j>> \notin S
                      /\ Covered(S, cf)
    BY DEF IndependentAndCovering
  <2>1. ASSUME NEW i \in CoarseIn(cf), NEW j \in CoarseIn(cf), <<i, j>> \in S PROVE FALSE
    <3>1. i \in Dependents(S, j)
      BY <2>1 DEF Dependents, CoarseIn
    <3>2. i \in FineIn(cf)
      BY <3>1 DEF IInv, SplitInv, Pending
    <3>3. QED
      BY <3>2, MarksPartition DEF IInv
  <2>2. QED
    BY <2>1 DEF IInv, SplitInv
<1>2. QED
  BY <1>1, Invariance, PTL


LEMMA DecidedOnce ==
  ASSUME IInv, NEW i \in Undecided
  PROVE  {i} \in SUBSET Splitting!Undecided
BY MarksPartition DEF IInv, Splitting!Undecided

LEMMA FineDecides ==
  ASSUME IInv, NEW i \in Undecided, cf' = [cf EXCEPT ![i] = Fine], ncoarse' = ncoarse
  PROVE  Splitting!Decide
<1>1. CoarseIn(cf)' = CoarseIn(cf) /\ FineIn(cf)' = FineIn(cf) \cup {i}
  BY MarkFine DEF IInv
<1>2. Splitting!Cardinality({}) = 0
  BY FS_EmptySet DEF Cardinality, Splitting!Cardinality
<1>3. ncoarse \in Nat
  BY PointsFinite DEF IInv, CountsInv, CoarseIn
<1>4. CoarseIn(cf)' = CoarseIn(cf) \cup {} /\ FineIn(cf)' = FineIn(cf) \cup ({i} \ {})
  BY <1>1
<1>5. ncoarse' = ncoarse + Splitting!Cardinality({})
  BY <1>2, <1>3
<1>6. {i} # {} /\ {} \in SUBSET {i}
  OBVIOUS
<1>7. QED
  BY <1>4, <1>5, <1>6, DecidedOnce DEF Splitting!Decide

LEMMA StepDecides ==
  IInv /\ [Next]_vars => [Splitting!Decide]_(Splitting!split)
<1> SUFFICES ASSUME IInv, [Next]_vars
             PROVE  Splitting!Decide \/ UNCHANGED <<CoarseIn(cf), FineIn(cf), ncoarse>>
  BY DEF Splitting!split
<1>1. CASE ScanFine
  <2>1. at \in Undecided
    BY <1>1, ScannedRow DEF ScanFine
  <2>2. QED
    BY <1>1, <2>1, FineDecides DEF ScanFine
<1>2. CASE Choose
  <2>1. PICK i : i = First(lists)
    OBVIOUS
  <2>2. cf' = [cf EXCEPT ![i] = Coarse] /\ ncoarse' = ncoarse + 1
    BY <1>2, <2>1 DEF Choose
  <2>3. i \in Undecided
    BY <1>2, <2>1, HeadUndecided DEF Choose
  <2>4. CoarseIn(cf)' = CoarseIn(cf) \cup {i} /\ FineIn(cf)' = FineIn(cf) \cup ({i} \ {i})
    BY <2>2, <2>3, MarkCoarse DEF IInv
  <2>5. ncoarse' = ncoarse + Splitting!Cardinality({i})
    <3>1. Splitting!Cardinality({i}) = Cardinality({i})
      BY DEF Cardinality, Splitting!Cardinality
    <3>2. QED
      BY <2>2, <3>1, FS_Singleton
  <2>6. {i} # {} /\ {i} \in SUBSET {i}
    OBVIOUS
  <2>7. QED
    BY <2>3, <2>4, <2>5, <2>6, DecidedOnce DEF Splitting!Decide
<1>3. ASSUME NEW i \in todo, VisitDependent(i), cf' # cf PROVE Splitting!Decide
  <2>1. cf' = [cf EXCEPT ![i] = Fine] /\ cf[i] = UndecidedMark /\ ncoarse' = ncoarse
    BY <1>3 DEF VisitDependent, StillUndecided, MakeFine
  <2>2. i \in Undecided
    BY <2>1 DEF IInv, TypeInv, Undecided
  <2>3. QED
    BY <2>1, <2>2, FineDecides
<1>4. ASSUME NEW i \in todo, VisitInfluence(i), cf' # cf PROVE Splitting!Decide
  <2>1. cf' = [cf EXCEPT ![i] = Fine] /\ cf[i] = UndecidedMark /\ ncoarse' = ncoarse
    BY <1>4 DEF VisitInfluence, MakeFine
  <2>2. i \in Undecided
    BY <2>1 DEF IInv, TypeInv, Undecided
  <2>3. QED
    BY <2>1, <2>2, FineDecides
<1>5. CASE UNCHANGED <<cf, ncoarse>>
  BY <1>5 DEF CoarseIn, FineIn
<1>6. ASSUME NEW i \in todo, VisitDependent(i) \/ VisitInfluence(i), cf' = cf
      PROVE  UNCHANGED <<cf, ncoarse>>
  BY <1>6 DEF VisitDependent, VisitInfluence
<1>7. QED
  BY <1>1, <1>2, <1>3, <1>4, <1>5, <1>6
     DEF Next, ScanListed, EndScan, EndDependents, EndInfluences, Finish, vars

(* The first pass of Ruge and Stueben implements the splitting its         *)
(* interface promises: every point it decides was undecided, and coarse    *)
(* points are counted.  (That all points are decided in the end is left to *)
(* TLC.)                                                                   *)
THEOREM RugeRefinesSplitting == Spec => Splitting!Spec
<1>1. Init => Splitting!Init
  BY DEF Init, Splitting!Init, CoarseIn, FineIn, UndecidedMark
<1>2. QED
  BY <1>1, Invariance, StepDecides, PTL DEF Spec, Splitting!Spec
=============================================================================
