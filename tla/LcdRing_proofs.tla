--------------------------- MODULE LcdRing_proofs ---------------------------
(***************************************************************************)
(* The linked list of a menu stays one circle, and implements the menu     *)
(* window of LcdMenu, for displays of any height, menus of any length and  *)
(* any texts, and draws the selected row.  A sort may leave two rows an    *)
(* open pair (OpenPair), which is carried through all of it.               *)
(*                                                                         *)
(* The loops of the code are recursive functions here; that each of them   *)
(* is defined, and what it keeps, is shown by looking at the least number  *)
(* of turns for which it were not so.                                      *)
(***************************************************************************)
EXTENDS MCLcdRing, WellFoundedInduction, TLAPS

\* Every non-empty set of natural numbers has a least element.
LEMMA LeastNat ==
    ASSUME NEW X, X \subseteq Nat, X # {}
    PROVE  \E m \in X : \A y \in X : m <= y
<1>1. PICK m \in X : \A y \in X : ~(<<y, m>> \in OpToRel(<, Nat))
  BY NatLessThanWellFounded, WFMin
<1>2. ASSUME NEW y \in X PROVE m <= y
  <2>1. ~(y < m)
    BY <1>1, <1>2 DEF OpToRel
  <2>2. QED
    BY <2>1
<1>3. QED
  BY <1>2

\* Induction over a set: what holds of 0 and of k + 1 with k holds up to n.
LEMMA Induction ==
    ASSUME NEW T, NEW n \in Nat,
           0 \in T, \A k \in 0 .. n - 1 : k \in T => k + 1 \in T
    PROVE  0 .. n \subseteq T
<1> DEFINE X == {k \in 0 .. n : k \notin T}
<1>1. SUFFICES ASSUME X # {} PROVE FALSE
  OBVIOUS
<1>2. X \subseteq Nat
  OBVIOUS
<1>3. PICK m \in X : \A y \in X : m <= y
  <2> HIDE DEF X
  <2> QED
    BY <1>1, <1>2, LeastNat
<1>4. m \in 0 .. n /\ m # 0 /\ m - 1 \in 0 .. n - 1
  BY <1>3
<1>5. m - 1 \in T
  BY <1>3, <1>4
<1>6. m - 1 + 1 \in T
  BY <1>4, <1>5
<1>7. QED
  BY <1>3, <1>4, <1>6

----------------------------------------------------------------------------
\* w is the list of the first k rows after r.
Way(nx, r, k, w) == w = [i \in 0 .. k |-> IF i = 0 THEN r ELSE nx[w[i - 1]]]

\* There is such a list, however long.
LEMMA WayExists ==
    ASSUME NEW nx, NEW r, NEW k \in Nat
    PROVE  \E w : Way(nx, r, k, w)
<1> DEFINE T == {i \in Nat : \E w : Way(nx, r, i, w)}
<1>1. 0 \in T
  <2>1. Way(nx, r, 0, [i \in 0 .. 0 |-> r])
    BY DEF Way
  <2>2. QED
    BY <2>1
<1>2. ASSUME NEW i \in 0 .. k - 1, i \in T PROVE i + 1 \in T
  <2>1. PICK w : Way(nx, r, i, w)
    BY <1>2
  <2> DEFINE v == [j \in 0 .. i + 1 |-> IF j = i + 1 THEN nx[w[i]] ELSE w[j]]
  <2>2. \A j \in 0 .. i : w[j] = IF j = 0 THEN r ELSE nx[w[j - 1]]
    BY <2>1 DEF Way
  <2>3. \A j \in 0 .. i + 1 : v[j] = IF j = 0 THEN r ELSE nx[v[j - 1]]
    BY <2>2
  <2>4. v = [j \in 0 .. i + 1 |-> v[j]]
    OBVIOUS
  <2>5. v = [j \in 0 .. i + 1 |-> IF j = 0 THEN r ELSE nx[v[j - 1]]]
    <3> HIDE DEF v
    <3> QED
      BY <2>3, <2>4
  <2>6. Way(nx, r, i + 1, v)
    <3> HIDE DEF v
    <3> QED
      BY <2>5 DEF Way
  <2>7. i + 1 \in Nat
    OBVIOUS
  <2>8. QED
    BY <2>6, <2>7
<1>3. k \in T
  <2> HIDE DEF T
  <2>1. 0 .. k \subseteq T
    BY <1>1, <1>2, Induction
  <2>2. QED
    BY <2>1
<1>4. QED
  BY <1>3

\* Two of them agree as far as both go.
LEMMA WaysAgree ==
    ASSUME NEW nx, NEW r, NEW k \in Nat, NEW l \in Nat, k <= l,
           NEW v, NEW w, Way(nx, r, k, v), Way(nx, r, l, w)
    PROVE  v[k] = w[k]
<1> DEFINE T == {i \in Nat : i <= k => v[i] = w[i]}
<1>1. /\ \A i \in 0 .. k : v[i] = IF i = 0 THEN r ELSE nx[v[i - 1]]
      /\ \A i \in 0 .. l : w[i] = IF i = 0 THEN r ELSE nx[w[i - 1]]
  BY DEF Way
<1>2. 0 \in T
  BY <1>1
<1>3. ASSUME NEW i \in 0 .. k - 1, i \in T PROVE i + 1 \in T
  <2>1. v[i] = w[i] /\ i + 1 \in 0 .. k /\ i + 1 \in 0 .. l /\ i + 1 # 0 /\ i + 1 - 1 = i
    BY <1>3
  <2>2. v[i + 1] = nx[v[i]] /\ w[i + 1] = nx[w[i]]
    BY <2>1, <1>1
  <2>3. QED
    BY <2>1, <2>2
<1>4. 0 .. k \subseteq T
  <2> HIDE DEF T
  <2> QED
    BY <1>2, <1>3, Induction
<1>5. QED
  BY <1>4

\* What Follow returns, step by step.
LEMMA FollowSteps ==
    ASSUME NEW nx, NEW r
    PROVE  /\ Follow(nx, r, 0) = r
           /\ \A k \in Nat : Follow(nx, r, k + 1) = nx[Follow(nx, r, k)]
<1>1. ASSUME NEW k \in Nat
      PROVE  \E w : Way(nx, r, k, w) /\ Follow(nx, r, k) = w[k]
  <2>1. PICK v : Way(nx, r, k, v)
    BY WayExists
  <2>2. QED
    BY <2>1 DEF Way, Follow
<1>2. Follow(nx, r, 0) = r
  BY <1>1 DEF Way
<1>3. ASSUME NEW k \in Nat PROVE Follow(nx, r, k + 1) = nx[Follow(nx, r, k)]
  <2>1. PICK v : Way(nx, r, k, v) /\ Follow(nx, r, k) = v[k]
    BY <1>1
  <2>2. k + 1 \in Nat /\ k <= k + 1 /\ k + 1 \in 0 .. k + 1 /\ k + 1 # 0 /\ k + 1 - 1 = k
    OBVIOUS
  <2>3. PICK w : Way(nx, r, k + 1, w) /\ Follow(nx, r, k + 1) = w[k + 1]
    BY <1>1, <2>2
  <2>4. w[k + 1] = nx[w[k]]
    BY <2>2, <2>3 DEF Way
  <2>5. v[k] = w[k]
    BY <2>1, <2>2, <2>3, WaysAgree
  <2>6. QED
    BY <2>1, <2>3, <2>4, <2>5
<1>4. QED
  BY <1>2, <1>3

----------------------------------------------------------------------------
(***************************************************************************)
(* c lists the n rows of a circle from its top to its end.                 *)
(***************************************************************************)
After(n, i) == IF i = n - 1 THEN 0 ELSE i + 1

IsRing(c, n, nx, pv, tp, en) ==
    /\ c \in [0 .. n - 1 -> 1 .. n]
    /\ \A i, j \in 0 .. n - 1 : c[i] = c[j] => i = j
    /\ \A r \in 1 .. n : \E i \in 0 .. n - 1 : c[i] = r
    /\ c[0] = tp /\ c[n - 1] = en
    /\ \A i \in 0 .. n - 1 : nx[c[i]] = c[After(n, i)] /\ pv[c[After(n, i)]] = c[i]

Forth(n, i, k) == IF i + k < n THEN i + k ELSE i + k - n

\* Following the pointers of a circle is counting.
LEMMA FollowRing ==
    ASSUME NEW c, NEW n \in Nat \ {0}, NEW nx, NEW pv, NEW tp, NEW en,
           IsRing(c, n, nx, pv, tp, en), NEW i \in 0 .. n - 1
    PROVE  \A k \in 0 .. n - 1 : Follow(nx, c[i], k) = c[Forth(n, i, k)]
<1> DEFINE T == {k \in Nat : k < n => Follow(nx, c[i], k) = c[Forth(n, i, k)]}
<1>1. 0 \in T
  <2>1. Forth(n, i, 0) = i
    BY DEF Forth
  <2>2. QED
    BY <2>1, FollowSteps
<1>2. ASSUME NEW k \in 0 .. n - 1 - 1, k \in T PROVE k + 1 \in T
  <2>1. Follow(nx, c[i], k) = c[Forth(n, i, k)] /\ k \in Nat /\ k + 1 \in Nat
    BY <1>2
  <2>2. Follow(nx, c[i], k + 1) = nx[Follow(nx, c[i], k)]
    BY <2>1, FollowSteps
  <2>3. Forth(n, i, k) \in 0 .. n - 1 /\ After(n, Forth(n, i, k)) = Forth(n, i, k + 1)
    BY <2>1 DEF Forth, After
  <2>4. nx[c[Forth(n, i, k)]] = c[After(n, Forth(n, i, k))]
    BY <2>3 DEF IsRing
  <2>5. QED
    BY <2>1, <2>2, <2>3, <2>4
<1>3. 0 .. n - 1 \subseteq T
  <2> HIDE DEF T
  <2> QED
    BY <1>1, <1>2, Induction
<1>4. QED
  BY <1>3

(***************************************************************************)
(* The exchange in lcd_menusort, of the row c[i] with the one after it, by *)
(* six assignments: the rows before and after the two may be the same one. *)
(* It keeps the circle when there are three rows and c[i] is not the last. *)
(***************************************************************************)
Pointers == [Cells -> Nat]

ExNext(nx, pv, t) ==
    [[[nx EXCEPT ![pv[t]] = nx[t]] EXCEPT ![nx[t]] = t] EXCEPT ![t] = nx[nx[t]]]
ExPrev(nx, pv, t) ==
    [[[pv EXCEPT ![nx[nx[t]]] = t] EXCEPT ![t] = nx[t]] EXCEPT ![nx[t]] = pv[t]]
ExTop(nx, tp, t) == IF tp = t THEN nx[t] ELSE tp
ExEnd(nx, en, t) == IF en = nx[t] THEN t ELSE en

\* The exchanged rows are the i-th and the next one of a circle again.
LEMMA Exchange ==
    ASSUME NEW c, NEW n \in Nat, 3 <= n, n <= MaxRows,
           NEW nx \in Pointers, NEW pv \in Pointers, NEW tp, NEW en,
           IsRing(c, n, nx, pv, tp, en), NEW i \in 0 .. n - 2
    PROVE  /\ ExNext(nx, pv, c[i]) \in Pointers /\ ExPrev(nx, pv, c[i]) \in Pointers
           /\ \E d : /\ IsRing(d, n, ExNext(nx, pv, c[i]), ExPrev(nx, pv, c[i]),
                                ExTop(nx, tp, c[i]), ExEnd(nx, en, c[i]))
                    /\ d[i + 1] = c[i]
<1> DEFINE t2 == c[i]
           t1 == pv[t2]
           t3 == nx[t2]
           t4 == nx[t3]
           mx == ExNext(nx, pv, t2)
           mv == ExPrev(nx, pv, t2)
<1>0. /\ t2 = c[i] /\ t1 = pv[t2] /\ t3 = nx[t2] /\ t4 = nx[t3]
      /\ mx = [[[nx EXCEPT ![t1] = t3] EXCEPT ![t3] = t2] EXCEPT ![t2] = t4]
      /\ mv = [[[pv EXCEPT ![t4] = t2] EXCEPT ![t2] = t3] EXCEPT ![t3] = t1]
      /\ ExTop(nx, tp, c[i]) = IF tp = t2 THEN t3 ELSE tp
      /\ ExEnd(nx, en, c[i]) = IF en = t3 THEN t2 ELSE en
  BY DEF ExNext, ExPrev, ExTop, ExEnd
<1> HIDE DEF t1, t2, t3, t4, mx, mv
<1> DEFINE h == IF i = 0 THEN n - 1 ELSE i - 1
           d == [k \in 0 .. n - 1 |-> IF k = i THEN c[i + 1] ELSE
                                      IF k = i + 1 THEN c[i] ELSE c[k]]
<1>1. /\ h \in 0 .. n - 1 /\ i \in 0 .. n - 1 /\ i + 1 \in 0 .. n - 1
      /\ After(n, h) = i /\ After(n, i) = i + 1 /\ After(n, i + 1) \in 0 .. n - 1
      /\ After(n, i + 1) # i /\ After(n, i + 1) # i + 1 /\ h # i /\ h # i + 1
  BY DEF After
<1>2. /\ c \in [0 .. n - 1 -> 1 .. n] /\ c[0] = tp /\ c[n - 1] = en
      /\ \A k \in 0 .. n - 1 : nx[c[k]] = c[After(n, k)] /\ pv[c[After(n, k)]] = c[k]
      /\ \A j, k \in 0 .. n - 1 : c[j] = c[k] => j = k
  BY DEF IsRing
<1>3. t1 = c[h] /\ t2 = c[i] /\ t3 = c[i + 1] /\ t4 = c[After(n, i + 1)]
  <2>1. pv[c[i]] = c[h] /\ nx[c[i]] = c[i + 1] /\ nx[c[i + 1]] = c[After(n, i + 1)]
    BY <1>1, <1>2
  <2>2. QED
    BY <2>1, <1>0
<1>4. /\ t1 \in 1 .. n /\ t2 \in 1 .. n /\ t3 \in 1 .. n /\ t4 \in 1 .. n
      /\ t1 # t2 /\ t1 # t3 /\ t2 # t3 /\ t4 # t2 /\ t4 # t3
  BY <1>1, <1>2, <1>3
<1>5. 1 .. n \subseteq Cells /\ 1 .. n \subseteq Nat
  BY RingRows DEF Cells
<1>6. mx \in Pointers /\ mv \in Pointers
  BY <1>0, <1>4, <1>5 DEF Pointers
<1>7. /\ mx[t1] = t3 /\ mx[t3] = t2 /\ mx[t2] = t4
      /\ mv[t4] = t2 /\ mv[t2] = t3 /\ mv[t3] = t1
      /\ \A r \in 1 .. n : r \notin {t1, t2, t3} => mx[r] = nx[r]
      /\ \A r \in 1 .. n : r \notin {t4, t2, t3} => mv[r] = pv[r]
  BY <1>0, <1>4, <1>5 DEF Pointers
<1>8. /\ d \in [0 .. n - 1 -> 1 .. n] /\ d[i] = t3 /\ d[i + 1] = t2
      /\ \A k \in 0 .. n - 1 : k # i /\ k # i + 1 => d[k] = c[k]
  BY <1>1, <1>2, <1>3
<1> HIDE DEF d, h
<1>9. ASSUME NEW j \in 0 .. n - 1, NEW k \in 0 .. n - 1, d[j] = d[k] PROVE j = k
  <2> DEFINE s(x) == IF x = i THEN i + 1 ELSE IF x = i + 1 THEN i ELSE x
  <2>1. \A x \in 0 .. n - 1 : s(x) \in 0 .. n - 1 /\ d[x] = c[s(x)]
    BY <1>1, <1>3, <1>8
  <2>2. s(j) = s(k)
    <3> HIDE DEF s
    <3> QED
      BY <1>2, <1>9, <2>1
  <2>3. QED
    BY <2>2
<1>10. \A r \in 1 .. n : \E k \in 0 .. n - 1 : d[k] = r
  <2> SUFFICES ASSUME NEW r \in 1 .. n PROVE \E k \in 0 .. n - 1 : d[k] = r
    OBVIOUS
  <2>1. PICK k \in 0 .. n - 1 : c[k] = r
    BY DEF IsRing
  <2>2. QED
    BY <1>1, <1>3, <1>8, <2>1
<1>11. d[0] = (IF tp = t2 THEN t3 ELSE tp) /\ d[n - 1] = (IF en = t3 THEN t2 ELSE en)
  <2>1. n - 1 # i /\ 0 # i + 1 /\ 0 \in 0 .. n - 1 /\ n - 1 \in 0 .. n - 1
    OBVIOUS
  <2>2. tp = t2 <=> i = 0
    BY <1>1, <1>2, <1>3, <2>1
  <2>3. en = t3 <=> i + 1 = n - 1
    BY <1>1, <1>2, <1>3, <2>1
  <2>4. QED
    BY <2>1, <2>2, <2>3, <1>2, <1>8
<1>12. ASSUME NEW k \in 0 .. n - 1
       PROVE  mx[d[k]] = d[After(n, k)] /\ mv[d[After(n, k)]] = d[k]
  <2>1. CASE k = i
    BY <2>1, <1>1, <1>7, <1>8
  <2>2. CASE k = i + 1
    <3>1. d[After(n, i + 1)] = t4
      BY <1>1, <1>3, <1>8
    <3>2. QED
      BY <2>2, <3>1, <1>7, <1>8
  <2>3. CASE k = h
    BY <2>3, <1>1, <1>3, <1>7, <1>8
  <2>4. CASE k # i /\ k # i + 1 /\ k # h
    <3>1. After(n, k) \in 0 .. n - 1 /\ After(n, k) # i /\ After(n, k) # i + 1
          /\ After(n, k) # After(n, i + 1)
      BY <2>4 DEF After, h
    <3>2. d[k] = c[k] /\ d[After(n, k)] = c[After(n, k)]
      BY <2>4, <3>1, <1>8
    <3>3. c[k] \notin {t1, t2, t3} /\ c[After(n, k)] \notin {t4, t2, t3}
      BY <2>4, <3>1, <1>1, <1>2, <1>3
    <3>4. c[k] \in 1 .. n /\ c[After(n, k)] \in 1 .. n
      BY <3>1, <1>2
    <3>5. mx[c[k]] = nx[c[k]] /\ mv[c[After(n, k)]] = pv[c[After(n, k)]]
      BY <3>3, <3>4, <1>7
    <3>6. nx[c[k]] = c[After(n, k)] /\ pv[c[After(n, k)]] = c[k]
      BY <1>2
    <3>7. QED
      BY <3>2, <3>5, <3>6
  <2>5. QED
    BY <2>1, <2>2, <2>3, <2>4
<1>13. IsRing(d, n, mx, mv, IF tp = t2 THEN t3 ELSE tp, IF en = t3 THEN t2 ELSE en)
  BY <1>8, <1>9, <1>10, <1>11, <1>12 DEF IsRing
<1>14. QED
  BY <1>6, <1>8, <1>13, <1>0 DEF mx, mv, t2

----------------------------------------------------------------------------
(***************************************************************************)
(* The loops of lcd_menusort.  After j turns of the inner loop p is the    *)
(* j-th row: a turn without an exchange moves p on, a turn with one moves  *)
(* the row p stands on.                                                    *)
(***************************************************************************)
Lists == [next : Pointers, prev : Pointers, top : Nat, end : Nat, p : Nat]

Circle(c, l) == IsRing(c, numrows, l.next, l.prev, l.top, l.end)
Ringed(l) == l \in Lists /\ \E c : Circle(c, l)
RingedAt(l, j) == l \in Lists /\ \E c : Circle(c, l) /\ c[j] = l.p

\* A turn of the inner loop.
LEMMA StepKeeps ==
    ASSUME numrows \in 3 .. MaxRows, NEW l, NEW j \in 0 .. numrows - 2, RingedAt(l, j)
    PROVE  RingedAt(SortStep(l), j + 1)
<1> DEFINE t2 == l.p
           t1 == l.prev[t2]
           t3 == l.next[t2]
           mx == ExNext(l.next, l.prev, t2)
           mv == ExPrev(l.next, l.prev, t2)
           tp == ExTop(l.next, l.top, t2)
           en == ExEnd(l.next, l.end, t2)
<1>1. PICK c : Circle(c, l) /\ c[j] = l.p
  BY DEF RingedAt
<1>2. /\ l \in Lists /\ l.next \in Pointers /\ l.prev \in Pointers
      /\ l.top \in Nat /\ l.end \in Nat /\ l.p \in Nat
  BY DEF RingedAt, Lists
<1>3. numrows \in Nat /\ 3 <= numrows /\ numrows <= MaxRows
  BY RingRows
<1>4. /\ After(numrows, j) = j + 1 /\ j + 1 \in 0 .. numrows - 1 /\ j \in 0 .. numrows - 1
      /\ c \in [0 .. numrows - 1 -> 1 .. numrows]
      /\ l.next[c[j]] = c[j + 1]
  <2>1. After(numrows, j) = j + 1 /\ j + 1 \in 0 .. numrows - 1 /\ j \in 0 .. numrows - 1
    BY <1>3 DEF After
  <2>2. QED
    BY <1>1, <2>1 DEF Circle, IsRing
<1>5. t2 = c[j] /\ t3 = c[j + 1] /\ t2 \in Nat /\ t3 \in Nat
  BY <1>1, <1>3, <1>4
<1>6. CASE str[t1] > str[t2]
  <2> DEFINE m == [next |-> mx, prev |-> mv, top |-> tp, end |-> en, p |-> t2]
  <2>1. SortStep(l) = m
    BY <1>6 DEF SortStep, ExNext, ExPrev, ExTop, ExEnd
  <2>2. /\ mx \in Pointers /\ mv \in Pointers
        /\ \E d : IsRing(d, numrows, mx, mv, tp, en) /\ d[j + 1] = t2
    <3>1. IsRing(c, numrows, l.next, l.prev, l.top, l.end)
      BY <1>1 DEF Circle
    <3>2. QED
      BY <3>1, <1>1, <1>2, <1>3, Exchange
  <2>3. tp \in Nat /\ en \in Nat
    BY <1>2, <1>5 DEF ExTop, ExEnd
  <2> HIDE DEF mx, mv, tp, en, t2
  <2>4. m \in Lists
    BY <1>5, <2>2, <2>3 DEF Lists
  <2>5. \E d : Circle(d, m) /\ d[j + 1] = m.p
    BY <2>2 DEF Circle
  <2>6. QED
    BY <2>1, <2>4, <2>5 DEF RingedAt
<1>7. CASE ~(str[t1] > str[t2])
  <2> DEFINE m == [l EXCEPT !.p = t3]
  <2>1. SortStep(l) = m
    BY <1>7 DEF SortStep
  <2>2. /\ m \in Lists /\ m.p = t3 /\ m.next = l.next /\ m.prev = l.prev
        /\ m.top = l.top /\ m.end = l.end
    <3> HIDE DEF t3
    <3> QED
      BY <1>2, <1>5 DEF Lists
  <2> HIDE DEF m
  <2>3. Circle(c, m) /\ c[j + 1] = m.p
    BY <1>1, <1>5, <2>2 DEF Circle
  <2>4. QED
    BY <2>1, <2>2, <2>3 DEF RingedAt
<1>8. QED
  BY <1>6, <1>7

\* The lists after each of the first n turns of the inner loop.
Turns(b, n, w) == w = [j \in 0 .. n |-> IF j = 0 THEN b ELSE SortStep(w[j - 1])]

\* So many turns of the inner loop have a result.
LEMMA TurnsExist ==
    ASSUME NEW b, NEW n \in Nat
    PROVE  \E w : Turns(b, n, w)
<1> DEFINE T == {i \in Nat : \E w : Turns(b, i, w)}
<1>1. 0 \in T
  <2>1. Turns(b, 0, [i \in 0 .. 0 |-> b])
    BY DEF Turns
  <2>2. QED
    BY <2>1
<1>2. ASSUME NEW i \in 0 .. n - 1, i \in T PROVE i + 1 \in T
  <2>1. PICK w : Turns(b, i, w)
    BY <1>2
  <2> DEFINE v == [j \in 0 .. i + 1 |-> IF j = i + 1 THEN SortStep(w[i]) ELSE w[j]]
  <2>2. \A j \in 0 .. i : w[j] = IF j = 0 THEN b ELSE SortStep(w[j - 1])
    BY <2>1 DEF Turns
  <2>3. \A j \in 0 .. i + 1 : v[j] = IF j = 0 THEN b ELSE SortStep(v[j - 1])
    BY <2>2
  <2>4. v = [j \in 0 .. i + 1 |-> v[j]]
    OBVIOUS
  <2> HIDE DEF v
  <2>5. Turns(b, i + 1, v)
    BY <2>3, <2>4 DEF Turns
  <2>6. QED
    BY <2>5
<1>3. 0 .. n \subseteq T
  <2> HIDE DEF T
  <2> QED
    BY <1>1, <1>2, Induction
<1>4. QED
  BY <1>3

\* The inner loop keeps the circle.
LEMMA PassKeeps ==
    ASSUME numrows \in 3 .. MaxRows, NEW l, Ringed(l), NEW i \in 0 .. numrows - 2
    PROVE  Ringed(SortPass(l, i))
<1> DEFINE b == [l EXCEPT !.p = l.top]
           n == numrows - 1 - i
<1>1. n \in Nat /\ n \in 1 .. numrows - 1
  BY RingRows
<1>2. RingedAt(b, 0)
  <2>1. PICK c : Circle(c, l)
    BY DEF Ringed
  <2>2. /\ b \in Lists /\ b.p = l.top /\ b.next = l.next /\ b.prev = l.prev
        /\ b.top = l.top /\ b.end = l.end
    BY DEF Ringed, Lists
  <2> HIDE DEF b
  <2>3. Circle(c, b) /\ c[0] = b.p
    BY <2>1, <2>2 DEF Circle, IsRing
  <2>4. QED
    BY <2>2, <2>3 DEF RingedAt
<1>3. PICK w : Turns(b, n, w) /\ SortPass(l, i) = w[n]
  <2>1. PICK v : Turns(b, n, v)
    BY <1>1, TurnsExist
  <2>2. QED
    BY <2>1 DEF Turns, SortPass
<1> DEFINE T == {j \in Nat : j <= n => RingedAt(w[j], j)}
<1> HIDE DEF b, n
<1>4. \A j \in 0 .. n : w[j] = IF j = 0 THEN b ELSE SortStep(w[j - 1])
  BY <1>3 DEF Turns
<1>5. 0 \in T
  BY <1>1, <1>2, <1>4
<1>6. ASSUME NEW j \in 0 .. n - 1, j \in T PROVE j + 1 \in T
  <2>1. RingedAt(w[j], j) /\ j + 1 \in 0 .. n /\ j + 1 # 0 /\ j + 1 - 1 = j
    BY <1>1, <1>6
  <2>2. j \in 0 .. numrows - 2
    BY <1>1, RingRows
  <2>3. w[j + 1] = SortStep(w[j])
    BY <1>4, <2>1
  <2>4. RingedAt(w[j + 1], j + 1)
    BY <2>1, <2>2, <2>3, StepKeeps
  <2>5. QED
    BY <2>1, <2>4
<1>7. 0 .. n \subseteq T
  <2> HIDE DEF T
  <2> QED
    BY <1>1, <1>5, <1>6, Induction
<1>8. RingedAt(w[n], n)
  BY <1>1, <1>7
<1>9. QED
  BY <1>3, <1>8 DEF RingedAt, Ringed

\* The lists after each of the first n turns of the outer loop.
Passes(b, n, w) == w = [i \in 0 .. n |-> IF i = 0 THEN b ELSE SortPass(w[i - 1], i - 1)]

\* So many turns of the outer loop have a result.
LEMMA PassesExist ==
    ASSUME NEW b, NEW n \in Nat
    PROVE  \E w : Passes(b, n, w)
<1> DEFINE T == {i \in Nat : \E w : Passes(b, i, w)}
<1>1. 0 \in T
  <2>1. Passes(b, 0, [i \in 0 .. 0 |-> b])
    BY DEF Passes
  <2>2. QED
    BY <2>1
<1>2. ASSUME NEW i \in 0 .. n - 1, i \in T PROVE i + 1 \in T
  <2>1. PICK w : Passes(b, i, w)
    BY <1>2
  <2> DEFINE v == [j \in 0 .. i + 1 |-> IF j = i + 1 THEN SortPass(w[i], i) ELSE w[j]]
  <2>2. \A j \in 0 .. i : w[j] = IF j = 0 THEN b ELSE SortPass(w[j - 1], j - 1)
    BY <2>1 DEF Passes
  <2>3. \A j \in 0 .. i + 1 : v[j] = IF j = 0 THEN b ELSE SortPass(v[j - 1], j - 1)
    BY <2>2
  <2>4. v = [j \in 0 .. i + 1 |-> v[j]]
    OBVIOUS
  <2> HIDE DEF v
  <2>5. Passes(b, i + 1, v)
    BY <2>3, <2>4 DEF Passes
  <2>6. QED
    BY <2>5
<1>3. 0 .. n \subseteq T
  <2> HIDE DEF T
  <2> QED
    BY <1>1, <1>2, Induction
<1>4. QED
  BY <1>3

\* The whole sort keeps the circle.
LEMMA SortKeeps ==
    ASSUME numrows \in 3 .. MaxRows, next \in Pointers, prev \in Pointers,
           NEW c, IsRing(c, numrows, next, prev, top, end)
    PROVE  Ringed(Sorted)
<1> DEFINE b == [next |-> next, prev |-> prev, top |-> top, end |-> end, p |-> top]
           n == numrows - 1
<1>1. n \in Nat /\ n >= 1
  BY RingRows
<1>2. Ringed(b)
  <2>1. 0 \in 0 .. numrows - 1 /\ numrows - 1 \in 0 .. numrows - 1
    BY RingRows
  <2>2. top \in 1 .. numrows /\ end \in 1 .. numrows
    BY <2>1 DEF IsRing
  <2>3. b \in Lists
    BY <2>2 DEF Lists
  <2>4. Circle(c, b)
    BY DEF Circle
  <2>5. QED
    BY <2>3, <2>4 DEF Ringed
<1>3. PICK w : Passes(b, n, w) /\ Sorted = w[n]
  <2>1. PICK v : Passes(b, n, v)
    BY <1>1, PassesExist
  <2>2. QED
    BY <2>1 DEF Passes, Sorted
<1> DEFINE T == {j \in Nat : j <= n => Ringed(w[j])}
<1> HIDE DEF b
<1>4. \A j \in 0 .. n : w[j] = IF j = 0 THEN b ELSE SortPass(w[j - 1], j - 1)
  BY <1>3 DEF Passes
<1>5. 0 \in T
  BY <1>1, <1>2, <1>4
<1>6. ASSUME NEW j \in 0 .. n - 1, j \in T PROVE j + 1 \in T
  <2>1. Ringed(w[j]) /\ j + 1 \in 0 .. n /\ j + 1 # 0 /\ j + 1 - 1 = j
    BY <1>1, <1>6
  <2>2. j \in 0 .. numrows - 2
    BY <1>1, RingRows
  <2>3. w[j + 1] = SortPass(w[j], j)
    BY <1>4, <2>1
  <2>4. Ringed(w[j + 1])
    BY <2>1, <2>2, <2>3, PassKeeps
  <2>5. QED
    BY <2>1, <2>4
<1>7. 0 .. n \subseteq T
  <2> HIDE DEF T, n
  <2> QED
    BY <1>1, <1>5, <1>6, Induction
<1>8. QED
  BY <1>1, <1>3, <1>7

----------------------------------------------------------------------------
\* lcd_menuaddentry puts the new row between the end and the top.
AdNext(nx, n, tp, en) == [nx EXCEPT ![n + 1] = tp, ![en] = n + 1]
AdPrev(pv, n, tp, en) == [pv EXCEPT ![n + 1] = en, ![tp] = n + 1]

\* The rows that were there keep their places, and the new one is the last.
LEMMA Added ==
    ASSUME NEW c, NEW n \in Nat \ {0}, n < MaxRows,
           NEW nx \in Pointers, NEW pv \in Pointers, NEW tp, NEW en,
           IsRing(c, n, nx, pv, tp, en)
    PROVE  \E d : /\ IsRing(d, n + 1, AdNext(nx, n, tp, en), AdPrev(pv, n, tp, en), tp, n + 1)
                 /\ d[n] = n + 1
                 /\ \A k \in 0 .. n - 1 : d[k] = c[k]
<1> DEFINE d == [k \in 0 .. n |-> IF k = n THEN n + 1 ELSE c[k]]
           mx == AdNext(nx, n, tp, en)
           mv == AdPrev(pv, n, tp, en)
<1>1. /\ c \in [0 .. n - 1 -> 1 .. n] /\ c[0] = tp /\ c[n - 1] = en
      /\ \A k \in 0 .. n - 1 : nx[c[k]] = c[After(n, k)] /\ pv[c[After(n, k)]] = c[k]
      /\ \A j, k \in 0 .. n - 1 : c[j] = c[k] => j = k
      /\ \A r \in 1 .. n : \E k \in 0 .. n - 1 : c[k] = r
  BY DEF IsRing
<1>2. 0 \in 0 .. n - 1 /\ n - 1 \in 0 .. n - 1 /\ n + 1 - 1 = n
  OBVIOUS
<1>3. tp \in 1 .. n /\ en \in 1 .. n
  BY <1>1, <1>2
<1>4. 1 .. n + 1 \subseteq Cells
  BY RingRows DEF Cells
<1>5. /\ mx[n + 1] = tp /\ mx[en] = n + 1 /\ mv[n + 1] = en /\ mv[tp] = n + 1
      /\ \A r \in 1 .. n : r # en => mx[r] = nx[r]
      /\ \A r \in 1 .. n : r # tp => mv[r] = pv[r]
  BY <1>3, <1>4 DEF Pointers, AdNext, AdPrev
<1> HIDE DEF mx, mv
<1>6. /\ d \in [0 .. n -> 1 .. n + 1] /\ d[n] = n + 1
      /\ \A k \in 0 .. n - 1 : d[k] = c[k] /\ d[k] \in 1 .. n
  BY <1>1
<1> HIDE DEF d
<1>7. ASSUME NEW j \in 0 .. n, NEW k \in 0 .. n, d[j] = d[k] PROVE j = k
  <2>1. CASE j = n \/ k = n
    <3>1. \A x \in 0 .. n : x # n => d[x] # n + 1
      <4>1. ASSUME NEW x \in 0 .. n, x # n PROVE x \in 0 .. n - 1
        BY <4>1
      <4>2. \A y \in 1 .. n : y # n + 1
        OBVIOUS
      <4>3. QED
        BY <4>1, <4>2, <1>6
    <3>2. QED
      BY <2>1, <3>1, <1>6, <1>7
  <2>2. CASE j # n /\ k # n
    <3>1. j \in 0 .. n - 1 /\ k \in 0 .. n - 1
      BY <2>2
    <3>2. c[j] = c[k]
      BY <3>1, <1>6, <1>7
    <3>3. QED
      BY <3>1, <3>2, <1>1
  <2>3. QED
    BY <2>1, <2>2
<1>8. \A r \in 1 .. n + 1 : \E k \in 0 .. n : d[k] = r
  <2> SUFFICES ASSUME NEW r \in 1 .. n + 1 PROVE \E k \in 0 .. n : d[k] = r
    OBVIOUS
  <2>1. CASE r = n + 1
    BY <2>1, <1>6
  <2>2. CASE r \in 1 .. n
    BY <2>2, <1>1, <1>6
  <2>3. QED
    BY <2>1, <2>2
<1>9. ASSUME NEW k \in 0 .. n
      PROVE  mx[d[k]] = d[After(n + 1, k)] /\ mv[d[After(n + 1, k)]] = d[k]
  <2>0. d[0] = tp /\ d[n - 1] = en /\ d[n] = n + 1
    BY <1>1, <1>2, <1>6
  <2>1. CASE k = n
    <3>1. After(n + 1, k) = 0
      BY <2>1, <1>2 DEF After
    <3>2. QED
      BY <2>0, <2>1, <3>1, <1>5
  <2>2. CASE k = n - 1
    <3>1. After(n + 1, k) = n
      BY <2>2, <1>2 DEF After
    <3>2. QED
      BY <2>0, <2>2, <3>1, <1>5
  <2>3. CASE k < n - 1
    <3>1. /\ After(n + 1, k) = k + 1 /\ After(n, k) = k + 1
          /\ k \in 0 .. n - 1 /\ k + 1 \in 0 .. n - 1 /\ k # n - 1 /\ k + 1 # 0
      BY <2>3 DEF After
    <3>2. c[k] # en /\ c[k + 1] # tp /\ c[k] \in 1 .. n /\ c[k + 1] \in 1 .. n
      BY <3>1, <1>1, <1>2
    <3>3. nx[c[k]] = c[k + 1] /\ pv[c[k + 1]] = c[k]
      BY <3>1, <1>1
    <3>4. d[k] = c[k] /\ d[k + 1] = c[k + 1]
      BY <3>1, <1>6
    <3>5. mx[c[k]] = nx[c[k]] /\ mv[c[k + 1]] = pv[c[k + 1]]
      BY <3>2, <1>5
    <3>6. QED
      BY <3>1, <3>3, <3>4, <3>5
  <2>4. QED
    BY <2>1, <2>2, <2>3
<1>10. d[0] = tp
  BY <1>1, <1>2, <1>6
<1>11. IsRing(d, n + 1, mx, mv, tp, n + 1)
  BY <1>2, <1>6, <1>7, <1>8, <1>9, <1>10 DEF IsRing
<1>12. QED
  BY <1>6, <1>11 DEF mx, mv

\* The first row is a circle by itself.
LEMMA FirstRow ==
    ASSUME NEW nx \in Pointers, NEW pv \in Pointers, 0 < MaxRows
    PROVE  \E d : IsRing(d, 1, [nx EXCEPT ![1] = 1], [pv EXCEPT ![1] = 1], 1, 1) /\ d[0] = 1
<1> DEFINE d == [k \in 0 .. 0 |-> 1]
<1>1. 1 \in Cells
  BY RingRows DEF Cells
<1>2. IsRing(d, 1, [nx EXCEPT ![1] = 1], [pv EXCEPT ![1] = 1], 1, 1)
  BY <1>1 DEF IsRing, After, Pointers
<1>3. QED
  BY <1>2

----------------------------------------------------------------------------
(***************************************************************************)
(* Two rows.  The sort compares the first row with the one before it; when *)
(* that is greater, the rows t1 and t3 are one row and t2 and t4 the other *)
(* and the six assignments leave the pair open.  A second sort compares    *)
(* the first row with itself.                                              *)
(***************************************************************************)
RingNow(c) == IsRing(c, numrows, next, prev, top, end)
Pair == [k \in 0 .. 1 |-> IF k = 0 THEN top ELSE end]

\* The outer and the inner loop make one turn each.
LEMMA OneTurn ==
    ASSUME numrows = 2
    PROVE  Sorted = SortStep([next |-> next, prev |-> prev, top |-> top, end |-> end, p |-> top])
<1> DEFINE b == [next |-> next, prev |-> prev, top |-> top, end |-> end, p |-> top]
<1>1. 0 \in 0 .. 1 /\ 1 \in 0 .. 1 /\ 1 \in Nat /\ numrows - 1 = 1 /\ numrows - 1 - 0 = 1
      /\ 1 # 0 /\ 1 - 1 = 0
  OBVIOUS
<1>2. PICK w : Passes(b, 1, w) /\ Sorted = w[1]
  <2>1. PICK v : Passes(b, 1, v)
    BY <1>1, PassesExist
  <2>2. QED
    BY <2>1, <1>1 DEF Passes, Sorted
<1>3. w[0] = b /\ w[1] = SortPass(w[0], 0)
  BY <1>1, <1>2 DEF Passes
<1>4. b.top = top /\ [b EXCEPT !.p = b.top] = b
  OBVIOUS
<1> HIDE DEF b
<1>5. PICK v : Turns(b, 1, v) /\ SortPass(b, 0) = v[1]
  <2>1. PICK v : Turns(b, 1, v)
    BY <1>1, TurnsExist
  <2>2. SortPass(b, 0) = (CHOOSE u : Turns(b, 1, u))[1]
    BY <1>1, <1>4 DEF Turns, SortPass
  <2>3. QED
    BY <2>1, <2>2
<1>6. v[0] = b /\ v[1] = SortStep(v[0])
  BY <1>1, <1>5 DEF Turns
<1>7. QED
  BY <1>2, <1>3, <1>5, <1>6 DEF b

\* A circle of two rows.
LEMMA TwoRows ==
    ASSUME numrows = 2, NEW c, RingNow(c)
    PROVE  /\ top \in 1 .. 2 /\ end \in 1 .. 2 /\ top # end
           /\ next[top] = end /\ next[end] = top /\ prev[top] = end /\ prev[end] = top
<1>1. /\ 0 \in 0 .. numrows - 1 /\ 1 \in 0 .. numrows - 1 /\ numrows - 1 = 1
      /\ After(numrows, 0) = 1 /\ After(numrows, 1) = 0
  BY DEF After
<1>2. c[0] = top /\ c[1] = end /\ c[0] \in 1 .. 2 /\ c[1] \in 1 .. 2 /\ c[0] # c[1]
  BY <1>1 DEF RingNow, IsRing
<1>3. QED
  BY <1>1, <1>2 DEF RingNow, IsRing

\* An open pair is no circle.
LEMMA RingIsClosed ==
    ASSUME NEW c, RingNow(c)
    PROVE  ~OpenPair
<1> SUFFICES ASSUME OpenPair PROVE FALSE
  OBVIOUS
<1>1. numrows = 2 /\ end \in Live /\ next[end] = end
  BY DEF OpenPair
<1>2. QED
  BY <1>1, TwoRows

\* What the sort of a pair leaves.
LEMMA SortPair ==
    ASSUME numrows = 2, 2 <= MaxRows, next \in Pointers, prev \in Pointers,
           str \in [Cells -> Int], MenuSort,
           OpenPair \/ \E c : RingNow(c)
    PROVE  /\ next' \in Pointers /\ prev' \in Pointers
           /\ \/ next' = next /\ prev' = prev /\ top' = top /\ end' = end
              \/ OpenPair'
<1> DEFINE b == [next |-> next, prev |-> prev, top |-> top, end |-> end, p |-> top]
<1>0. b.next = next /\ b.prev = prev /\ b.top = top /\ b.end = end /\ b.p = top
  OBVIOUS
<1> HIDE DEF b
<1>1. /\ next' = SortStep(b).next /\ prev' = SortStep(b).prev
      /\ top' = SortStep(b).top /\ end' = SortStep(b).end /\ numrows' = 2
  BY OneTurn DEF MenuSort, b
<1>2. CASE ~(str[prev[top]] > str[top])
  <2>1. SortStep(b) = [b EXCEPT !.p = next[top]]
    BY <1>0, <1>2 DEF SortStep
  <2>2. QED
    BY <1>1, <2>1 DEF b
<1>3. CASE str[prev[top]] > str[top]
  <2>1. ~OpenPair
    <3> SUFFICES ASSUME OpenPair PROVE FALSE
      OBVIOUS
    <3>1. prev[top] = top /\ top \in Cells
      BY RingRows DEF OpenPair, Live, Cells
    <3>2. str[top] > str[top] /\ str[top] \in Int
      BY <1>3, <3>1
    <3>3. QED
      BY <3>2
  <2>2. PICK c : RingNow(c)
    BY <2>1
  <2>3. /\ top \in 1 .. 2 /\ end \in 1 .. 2 /\ top # end
        /\ next[top] = end /\ next[end] = top /\ prev[top] = end /\ prev[end] = top
    BY <2>2, TwoRows
  <2>4. SortStep(b) =
          [next |-> [[[next EXCEPT ![end] = end] EXCEPT ![end] = top] EXCEPT ![top] = top],
           prev |-> [[[prev EXCEPT ![top] = top] EXCEPT ![top] = end] EXCEPT ![end] = end],
           top |-> end, end |-> top, p |-> top]
    BY <1>0, <1>3, <2>3 DEF SortStep
  <2>5. /\ next' = [[[next EXCEPT ![end] = end] EXCEPT ![end] = top] EXCEPT ![top] = top]
        /\ prev' = [[[prev EXCEPT ![top] = top] EXCEPT ![top] = end] EXCEPT ![end] = end]
        /\ top' = end /\ end' = top
    BY <1>1, <2>4
  <2>6. 1 .. 2 \subseteq Cells /\ 1 .. 2 \subseteq Nat
    BY RingRows DEF Cells
  <2>7. /\ next' \in Pointers /\ prev' \in Pointers
        /\ next'[end] = top /\ next'[top] = top /\ prev'[end] = end /\ prev'[top] = end
    BY <2>3, <2>5, <2>6 DEF Pointers
  <2>8. {top, end} = 1 .. 2
    BY <2>3
  <2>9. OpenPair'
    BY <1>1, <2>3, <2>5, <2>7, <2>8 DEF OpenPair, Live
  <2>10. QED
    BY <2>7, <2>9
<1>4. QED
  BY <1>2, <1>3

----------------------------------------------------------------------------
\* A list that is a circle after a step is no open pair then.
LEMMA ClosedAfter == (\A c : RingNow(c) => ~OpenPair)'
<1>1. \A c : RingNow(c) => ~OpenPair
  BY RingIsClosed
<1>2. QED
  BY <1>1, PTL

(***************************************************************************)
(* The inductive invariant: an empty menu has no rows, another one has a   *)
(* circle of them or an open pair, and the window's two pointers are among *)
(* them.  c lists the rows from top to end.                                *)
(***************************************************************************)
Listed(c) == \/ RingNow(c)
             \/ OpenPair /\ c = Pair

RingInv ==
    /\ numrows \in 0 .. MaxRows /\ next \in Pointers /\ prev \in Pointers
    /\ str \in [Cells -> Int]
    /\ IF numrows = 0 THEN top = NULL /\ end = NULL /\ tsc = NULL /\ curl = NULL
       ELSE tsc \in Live /\ curl \in Live /\ \E c : Listed(c)

\* lcd_menucreate makes an empty menu.
LEMMA RingInit == Init => RingInv
  BY RingRows DEF Init, RingInv, Pointers, Blank

\* An open pair is the list of its two rows.
LEMMA PairListed ==
    ASSUME OpenPair
    PROVE  /\ numrows = 2 /\ top \in 1 .. 2 /\ end \in 1 .. 2 /\ top # end
           /\ Pair \in [0 .. 1 -> 1 .. 2] /\ Pair[0] = top /\ Pair[1] = end
           /\ \A r \in 1 .. 2 : r = top \/ r = end
           /\ \A r \in 1 .. 2 : next[r] = end /\ prev[r] = top
  BY DEF OpenPair, Pair, Live

\* lcd_menuaddentry writes the two pointers that close a list, so that it
\* does not matter what they were.
LEMMA ListCloses ==
    ASSUME RingInv, numrows # 0, NEW c, Listed(c)
    PROVE  \E nx \in Pointers, pv \in Pointers :
              /\ IsRing(c, numrows, nx, pv, top, end)
              /\ AdNext(nx, numrows, top, end) = AdNext(next, numrows, top, end)
              /\ AdPrev(pv, numrows, top, end) = AdPrev(prev, numrows, top, end)
<1>0. next \in Pointers /\ prev \in Pointers
  BY DEF RingInv
<1>1. CASE RingNow(c)
  BY <1>0, <1>1 DEF RingNow
<1>2. CASE OpenPair /\ c = Pair
  <2> DEFINE nx == [next EXCEPT ![end] = top]
             pv == [prev EXCEPT ![top] = end]
  <2>1. /\ numrows = 2 /\ top \in 1 .. 2 /\ end \in 1 .. 2 /\ top # end
        /\ c \in [0 .. 1 -> 1 .. 2] /\ c[0] = top /\ c[1] = end
        /\ \A r \in 1 .. 2 : r = top \/ r = end
        /\ next[top] = end /\ prev[end] = top
    BY <1>2, PairListed
  <2>2. 1 .. 2 \subseteq Cells /\ 1 .. 2 \subseteq Nat
    BY <2>1, RingRows DEF RingInv, Cells
  <2>3. /\ nx \in Pointers /\ pv \in Pointers
        /\ nx[top] = end /\ nx[end] = top /\ pv[top] = end /\ pv[end] = top
    BY <1>0, <2>1, <2>2 DEF Pointers
  <2>4. /\ AdNext(nx, numrows, top, end) = AdNext(next, numrows, top, end)
        /\ AdPrev(pv, numrows, top, end) = AdPrev(prev, numrows, top, end)
    <3>1. ASSUME NEW f \in Pointers, NEW x \in 1 .. 2, NEW y, NEW z, NEW u
          PROVE  [[f EXCEPT ![x] = y] EXCEPT ![3] = z, ![x] = u] = [f EXCEPT ![3] = z, ![x] = u]
      BY DEF Pointers
    <3>2. QED
      BY <1>0, <2>1, <3>1 DEF AdNext, AdPrev
  <2> HIDE DEF nx, pv
  <2>5. IsRing(c, 2, nx, pv, top, end)
    <3>1. \A i \in 0 .. 1 : i = 0 \/ i = 1
      OBVIOUS
    <3>2. After(2, 0) = 1 /\ After(2, 1) = 0 /\ 2 - 1 = 1 /\ 0 \in 0 .. 1 /\ 1 \in 0 .. 1
      BY DEF After
    <3>3. \A i, j \in 0 .. 1 : c[i] = c[j] => i = j
      BY <2>1, <3>1
    <3>4. \A r \in 1 .. 2 : \E i \in 0 .. 1 : c[i] = r
      BY <2>1, <3>2
    <3>5. \A i \in 0 .. 1 : nx[c[i]] = c[After(2, i)] /\ pv[c[After(2, i)]] = c[i]
      BY <2>1, <2>3, <3>1, <3>2
    <3>6. QED
      BY <2>1, <3>2, <3>3, <3>4, <3>5 DEF IsRing
  <2>6. QED
    BY <2>1, <2>3, <2>4, <2>5
<1>3. QED
  BY <1>1, <1>2 DEF Listed

\* The ends of the list are rows.
LEMMA EndsLive ==
    ASSUME RingInv, numrows # 0, NEW c, Listed(c)
    PROVE  top \in 1 .. numrows /\ end \in 1 .. numrows
<1>1. numrows \in Nat \ {0} /\ 0 \in 0 .. numrows - 1 /\ numrows - 1 \in 0 .. numrows - 1
  BY DEF RingInv
<1>2. PICK nx, pv : IsRing(c, numrows, nx, pv, top, end)
  BY ListCloses
<1>3. QED
  BY <1>1, <1>2 DEF IsRing

\* The first row of an empty menu.
LEMMA AddFirst ==
    ASSUME RingInv, numrows = 0, NEW s, NEW selected \in BOOLEAN, MenuAddEntry(s, selected)
    PROVE  /\ numrows' = 1 /\ next' \in Pointers /\ prev' \in Pointers
           /\ tsc' = 1 /\ curl' = 1
           /\ \E d : IsRing(d, 1, next', prev', top', end') /\ d[0] = 1
<1>1. /\ top = NULL /\ numrows + 1 = 1 /\ 0 < MaxRows
      /\ next \in Pointers /\ prev \in Pointers
  BY DEF RingInv, MenuAddEntry
<1>2. /\ next' = [next EXCEPT ![1] = 1] /\ prev' = [prev EXCEPT ![1] = 1]
      /\ top' = 1 /\ end' = 1 /\ tsc' = 1 /\ curl' = 1 /\ numrows' = 1
  BY <1>1 DEF MenuAddEntry
<1>3. next' \in Pointers /\ prev' \in Pointers
  BY <1>1, <1>2 DEF Pointers
<1>4. QED
  BY <1>1, <1>2, <1>3, FirstRow

\* A further row: the rows that were there keep their places.
LEMMA AddNext ==
    ASSUME RingInv, numrows # 0, NEW c, Listed(c),
           NEW s, NEW selected \in BOOLEAN, MenuAddEntry(s, selected)
    PROVE  /\ numrows < MaxRows /\ numrows' = numrows + 1
           /\ next' \in Pointers /\ prev' \in Pointers /\ top # NULL
           /\ IF selected THEN tsc' = numrows + 1 /\ curl' = numrows + 1
                          ELSE tsc' = tsc /\ curl' = curl
           /\ \E d : /\ IsRing(d, numrows', next', prev', top', end')
                    /\ d[numrows] = numrows + 1
                    /\ \A k \in 0 .. numrows - 1 : d[k] = c[k]
<1>1. /\ numrows \in Nat \ {0} /\ numrows < MaxRows
      /\ next \in Pointers /\ prev \in Pointers
  BY DEF RingInv, MenuAddEntry
<1>2. top \in 1 .. numrows /\ end \in 1 .. numrows
  BY EndsLive
<1>3. top # NULL
  BY <1>2 DEF NULL
<1>4. /\ next' = AdNext(next, numrows, top, end) /\ prev' = AdPrev(prev, numrows, top, end)
      /\ top' = top /\ end' = numrows + 1 /\ numrows' = numrows + 1
  BY <1>3 DEF MenuAddEntry, AdNext, AdPrev
<1>5. IF selected THEN tsc' = numrows + 1 /\ curl' = numrows + 1
                  ELSE tsc' = tsc /\ curl' = curl
  BY <1>3 DEF MenuAddEntry
<1>6. next' \in Pointers /\ prev' \in Pointers
  <2>1. top \in Nat /\ end \in Nat /\ numrows + 1 \in Nat
    BY <1>1, <1>2
  <2>2. QED
    BY <1>1, <1>4, <2>1 DEF Pointers, AdNext, AdPrev
<1>7. \E d : /\ IsRing(d, numrows', next', prev', top', end')
            /\ d[numrows] = numrows + 1
            /\ \A k \in 0 .. numrows - 1 : d[k] = c[k]
  <2>1. PICK nx \in Pointers, pv \in Pointers :
          /\ IsRing(c, numrows, nx, pv, top, end)
          /\ AdNext(nx, numrows, top, end) = AdNext(next, numrows, top, end)
          /\ AdPrev(pv, numrows, top, end) = AdPrev(prev, numrows, top, end)
    BY ListCloses
  <2>2. \E d : /\ IsRing(d, numrows + 1, AdNext(nx, numrows, top, end),
                         AdPrev(pv, numrows, top, end), top, numrows + 1)
              /\ d[numrows] = numrows + 1
              /\ \A k \in 0 .. numrows - 1 : d[k] = c[k]
    BY <1>1, <2>1, Added
  <2>3. QED
    BY <1>4, <2>1, <2>2
<1>8. QED
  BY <1>1, <1>3, <1>4, <1>5, <1>6, <1>7

\* Sorting leaves a circle, or of two rows an open pair; of an open pair the
\* same.
LEMMA SortRing ==
    ASSUME RingInv, MenuSort
    PROVE  /\ numrows \in 2 .. MaxRows /\ numrows' = numrows
           /\ next' \in Pointers /\ prev' \in Pointers
           /\ tsc' = curl /\ curl' = curl
           /\ \/ \E d : IsRing(d, numrows', next', prev', top', end')
              \/ OpenPair'
<1>1. /\ numrows \in 2 .. MaxRows /\ numrows' = numrows /\ tsc' = curl /\ curl' = curl
      /\ next \in Pointers /\ prev \in Pointers /\ str \in [Cells -> Int]
  BY RingRows DEF RingInv, MenuSort
<1>2. PICK c : Listed(c)
  BY <1>1 DEF RingInv
<1>3. CASE numrows = 2
  <2>1. OpenPair \/ RingNow(c)
    BY <1>2 DEF Listed
  <2>2. /\ next' \in Pointers /\ prev' \in Pointers
        /\ \/ next' = next /\ prev' = prev /\ top' = top /\ end' = end
           \/ OpenPair'
    BY <1>1, <1>3, <2>1, SortPair
  <2>3. CASE next' = next /\ prev' = prev /\ top' = top /\ end' = end
    <3>1. OpenPair => OpenPair'
      BY <1>1, <2>3 DEF OpenPair, Live
    <3>2. RingNow(c) => IsRing(c, numrows', next', prev', top', end')
      BY <1>1, <2>3 DEF RingNow
    <3>3. QED
      BY <1>1, <2>1, <2>2, <3>1, <3>2
  <2>4. QED
    BY <1>1, <2>2, <2>3
<1>4. CASE numrows # 2
  <2>1. numrows \in 3 .. MaxRows
    BY <1>1, <1>4, RingRows
  <2>2. RingNow(c)
    BY <1>2, <1>4 DEF Listed, OpenPair
  <2>3. Ringed(Sorted)
    BY <2>1, <2>2, <1>1, SortKeeps DEF RingNow
  <2>4. Sorted \in Lists /\ Sorted.next \in Pointers /\ Sorted.prev \in Pointers
    BY <2>3 DEF Ringed, Lists
  <2>5. PICK d : IsRing(d, numrows, Sorted.next, Sorted.prev, Sorted.top, Sorted.end)
    BY <2>3 DEF Ringed, Circle
  <2>6. QED
    BY <1>1, <2>4, <2>5 DEF MenuSort
<1>5. QED
  BY <1>3, <1>4

\* Turning the knob moves the window's pointers along the circle.
LEMMA Neighbours ==
    ASSUME RingInv, numrows # 0, NEW c, RingNow(c), NEW i \in 0 .. numrows - 1
    PROVE  /\ c[i] \in Live
           /\ next[c[i]] = c[After(numrows, i)]
           /\ prev[c[i]] = c[IF i = 0 THEN numrows - 1 ELSE i - 1]
           /\ After(numrows, i) \in 0 .. numrows - 1
           /\ next[c[i]] \in Live /\ prev[c[i]] \in Live
<1> DEFINE h == IF i = 0 THEN numrows - 1 ELSE i - 1
<1>1. numrows \in Nat \ {0}
  BY DEF RingInv
<1>2. h \in 0 .. numrows - 1 /\ After(numrows, h) = i /\ After(numrows, i) \in 0 .. numrows - 1
  BY <1>1 DEF After
<1> HIDE DEF h
<1>3. /\ c \in [0 .. numrows - 1 -> Live]
      /\ next[c[i]] = c[After(numrows, i)] /\ prev[c[After(numrows, h)]] = c[h]
  BY <1>2 DEF RingNow, IsRing, Live
<1>4. QED
  BY <1>2, <1>3 DEF h

\* Every row has a place in the list.
LEMMA Placed ==
    ASSUME NEW c, Listed(c), NEW r \in Live
    PROVE  \E i \in 0 .. numrows - 1 : c[i] = r
<1>1. CASE RingNow(c)
  BY <1>1 DEF RingNow, IsRing, Live
<1>2. CASE OpenPair /\ c = Pair
  <2>1. numrows - 1 = 1 /\ 0 \in 0 .. 1 /\ 1 \in 0 .. 1
    BY <1>2, PairListed
  <2>2. QED
    BY <1>2, <2>1, PairListed DEF Live
<1>3. QED
  BY <1>1, <1>2 DEF Listed

\* Following a pointer leads to a row.
LEMMA StaysLive ==
    ASSUME RingInv, numrows # 0
    PROVE  \A r \in Live : next[r] \in Live /\ prev[r] \in Live
<1>1. PICK c : Listed(c)
  BY DEF RingInv
<1>2. CASE RingNow(c)
  BY <1>1, <1>2, Placed, Neighbours
<1>3. CASE OpenPair
  BY <1>3, PairListed DEF Live
<1>4. QED
  BY <1>1, <1>2, <1>3 DEF Listed

\* What has a circle or is an open pair has a list.
LEMMA ListAfter ==
    ASSUME (\E d : IsRing(d, numrows', next', prev', top', end')) \/ OpenPair'
    PROVE  (\E d : Listed(d))'
<1>1. CASE OpenPair'
  <2>1. (OpenPair /\ Pair = Pair)'
    BY <1>1
  <2>2. Listed(Pair)'
    BY <2>1 DEF Listed
  <2>3. QED
    BY <2>2
<1>2. ASSUME NEW d, IsRing(d, numrows', next', prev', top', end')
      PROVE  (\E e : Listed(e))'
  <2>1. RingNow(d)'
    BY <1>2 DEF RingNow, IsRing, After
  <2>2. QED
    BY <2>1 DEF Listed
<1>3. QED
  BY <1>1, <1>2

\* Every call keeps the invariant.
LEMMA RingStep ==
    ASSUME RingInv, [Next]_vars
    PROVE  RingInv'
<1>0. str' \in [Cells -> Int]
  <2>1. str \in [Cells -> Int]
    BY DEF RingInv
  <2>2. ASSUME NEW s \in Strs, NEW selected \in BOOLEAN, MenuAddEntry(s, selected)
        PROVE  str' \in [Cells -> Int]
    BY <2>1, <2>2, RingStrs DEF MenuAddEntry
  <2>3. CASE MenuClear
    BY <2>3 DEF MenuClear, Blank
  <2>4. CASE MenuSort \/ MenuUp \/ MenuDown \/ Refresh \/ UNCHANGED vars
    BY <2>1, <2>4 DEF vars, MenuSort, MenuUp, MenuDown, Refresh
  <2>5. QED
    BY <2>2, <2>3, <2>4 DEF Next
<1> USE <1>0 DEF Cells
<1>1. CASE MenuClear
  BY <1>1, RingRows DEF MenuClear, RingInv, Pointers, Blank
<1>2. ASSUME NEW s \in Strs, NEW selected \in BOOLEAN, MenuAddEntry(s, selected)
      PROVE  RingInv'
  <2>1. CASE numrows = 0
    <3>1. /\ numrows' = 1 /\ next' \in Pointers /\ prev' \in Pointers
          /\ tsc' = 1 /\ curl' = 1
          /\ \E d : IsRing(d, 1, next', prev', top', end') /\ d[0] = 1
      BY <1>2, <2>1, AddFirst
    <3>2. 1 <= MaxRows
      BY <1>2, <2>1, RingRows DEF MenuAddEntry
    <3>3. (\E d : Listed(d))'
      BY <3>1, ListAfter
    <3>4. QED
      BY <3>1, <3>2, <3>3, RingRows DEF RingInv, Live, Pointers, Cells
  <2>2. CASE numrows # 0
    <3>1. PICK c : Listed(c)
      BY <2>2 DEF RingInv
    <3>2. /\ numrows < MaxRows /\ numrows' = numrows + 1
          /\ next' \in Pointers /\ prev' \in Pointers
          /\ IF selected THEN tsc' = numrows + 1 /\ curl' = numrows + 1
                         ELSE tsc' = tsc /\ curl' = curl
          /\ \E d : IsRing(d, numrows', next', prev', top', end')
      BY <1>2, <2>2, <3>1, AddNext
    <3>3. /\ numrows \in Nat /\ numrows' # 0 /\ numrows' \in 0 .. MaxRows
          /\ tsc' \in 1 .. numrows' /\ curl' \in 1 .. numrows'
      BY <2>2, <3>2, RingRows DEF RingInv, Live
    <3>4. (\E d : Listed(d))'
      BY <3>2, ListAfter
    <3>5. QED
      BY <3>2, <3>3, <3>4 DEF RingInv, Live, Pointers, Cells
  <2>3. QED
    BY <2>1, <2>2
<1>3. CASE MenuSort
  <2>1. /\ numrows \in 2 .. MaxRows /\ numrows' = numrows
        /\ next' \in Pointers /\ prev' \in Pointers
        /\ tsc' = curl /\ curl' = curl
        /\ (\E d : IsRing(d, numrows', next', prev', top', end')) \/ OpenPair'
    BY <1>3, SortRing
  <2>2. (\E d : Listed(d))'
    BY <2>1, ListAfter
  <2>3. QED
    BY <2>1, <2>2 DEF RingInv, Live, Pointers, Cells
<1>4. ASSUME UNCHANGED <<next, prev, top, end, numrows>>, numrows # 0,
             tsc' \in Live, curl' \in Live
      PROVE  RingInv'
  <2>1. PICK c : Listed(c)
    BY <1>4 DEF RingInv
  <2>2. RingNow(c) => IsRing(c, numrows', next', prev', top', end')
    BY <1>4 DEF RingNow
  <2>3. OpenPair => OpenPair'
    BY <1>4 DEF OpenPair, Live
  <2>4. (\E d : Listed(d))'
    BY <2>1, <2>2, <2>3, ListAfter DEF Listed
  <2>5. QED
    BY <1>4, <2>4 DEF RingInv, Live, Pointers, Cells
<1>5. CASE MenuUp \/ MenuDown
  <2>1. numrows # 0 /\ tsc \in Live /\ curl \in Live
    BY <1>5 DEF MenuUp, MenuDown, RingInv
  <2>2. /\ numrows' = numrows /\ next' = next /\ prev' = prev /\ top' = top /\ end' = end
        /\ tsc' \in Live /\ curl' \in Live
    BY <1>5, <2>1, StaysLive DEF MenuUp, MenuDown, links
  <2>3. QED
    BY <1>4, <2>1, <2>2
<1>6. CASE Refresh \/ UNCHANGED vars
  <2>1. UNCHANGED <<next, prev, top, end, numrows, tsc, curl>>
    BY <1>6 DEF Refresh, vars, links
  <2>2. CASE numrows = 0
    BY <2>1, <2>2 DEF RingInv, Pointers, Cells
  <2>3. CASE numrows # 0
    <3>1. tsc' \in Live /\ curl' \in Live
      BY <2>1, <2>3 DEF RingInv
    <3>2. QED
      BY <1>4, <2>1, <2>3, <3>1
  <2>4. QED
    BY <2>2, <2>3
<1>7. QED
  BY <1>1, <1>2, <1>3, <1>5, <1>6 DEF Next

(***************************************************************************)
(* The rows stay linked (Linked) whatever is added, sorted and cleared and *)
(* however often, for menus of any length and any texts: one circle with   *)
(* prev the inverse of next, or, after a sort of two rows, the open pair.  *)
(***************************************************************************)
THEOREM RingStaysLinked == Spec => []Linked
<1>1. RingInv => Linked
  <2> SUFFICES ASSUME RingInv, numrows > 0, ~OpenPair
               PROVE  /\ {Walk(top, k) : k \in 0 .. numrows - 1} = Live
                      /\ Walk(top, numrows - 1) = end
                      /\ next[end] = top
                      /\ \A r \in Live : prev[next[r]] = r
    BY DEF Linked, Circular
  <2>1. numrows \in Nat \ {0} /\ numrows # 0
    BY DEF RingInv
  <2>2. PICK c : Listed(c) /\ RingNow(c)
    BY <2>1 DEF RingInv, Listed
  <2>3. 0 \in 0 .. numrows - 1 /\ numrows - 1 \in 0 .. numrows - 1
    BY <2>1
  <2>4. c[0] = top /\ c[numrows - 1] = end /\ c \in [0 .. numrows - 1 -> Live]
    BY <2>2 DEF RingNow, IsRing, Live
  <2>5. \A k \in 0 .. numrows - 1 : Walk(top, k) = c[k]
    <3>1. \A k \in 0 .. numrows - 1 : Follow(next, c[0], k) = c[Forth(numrows, 0, k)]
      BY <2>1, <2>2, <2>3, FollowRing DEF RingNow
    <3>2. \A k \in 0 .. numrows - 1 : Forth(numrows, 0, k) = k
      BY <2>1 DEF Forth
    <3>3. QED
      BY <3>1, <3>2, <2>4 DEF Walk
  <2>6. {Walk(top, k) : k \in 0 .. numrows - 1} = Live
    <3>1. \A k \in 0 .. numrows - 1 : Walk(top, k) \in Live
      BY <2>4, <2>5
    <3>2. ASSUME NEW r \in Live PROVE \E k \in 0 .. numrows - 1 : Walk(top, k) = r
      <4>1. PICK k \in 0 .. numrows - 1 : c[k] = r
        BY <2>2, Placed
      <4>2. QED
        BY <4>1, <2>5
    <3>3. QED
      BY <3>1, <3>2
  <2>7. next[end] = top
    <3>1. After(numrows, numrows - 1) = 0
      BY DEF After
    <3>2. QED
      BY <3>1, <2>2, <2>3, <2>4 DEF RingNow, IsRing
  <2>8. ASSUME NEW r \in Live PROVE prev[next[r]] = r
    <3>1. PICK i \in 0 .. numrows - 1 : c[i] = r
      BY <2>2, Placed
    <3>2. next[c[i]] = c[After(numrows, i)] /\ prev[c[After(numrows, i)]] = c[i]
      BY <2>2 DEF RingNow, IsRing
    <3>3. QED
      BY <3>1, <3>2
  <2>9. QED
    BY <2>3, <2>4, <2>5, <2>6, <2>7, <2>8
<1>2. RingInv /\ [Next]_vars => RingInv'
  BY RingStep
<1>3. QED
  BY RingInit, <1>1, <1>2, PTL DEF Spec

----------------------------------------------------------------------------
(***************************************************************************)
(* The refinement.  A row's position is its place in the circle.           *)
(***************************************************************************)
Pos(nx, tp, n, r) == IF r = NULL THEN -1 ELSE CHOOSE k \in 0 .. n - 1 : Follow(nx, tp, k) = r

\* The position MCLcdRing gives the i-th row is i.
LEMMA PosIsPlace ==
    ASSUME NEW c, NEW n \in Nat \ {0}, NEW nx, NEW pv, NEW tp, NEW en,
           IsRing(c, n, nx, pv, tp, en), NEW i \in 0 .. n - 1
    PROVE  Pos(nx, tp, n, c[i]) = i /\ c[i] # NULL
<1>1. 0 \in 0 .. n - 1 /\ c[0] = tp /\ c \in [0 .. n - 1 -> 1 .. n]
  BY DEF IsRing
<1>2. \A k \in 0 .. n - 1 : Follow(nx, tp, k) = c[k]
  <2>1. \A k \in 0 .. n - 1 : Follow(nx, c[0], k) = c[Forth(n, 0, k)]
    BY <1>1, FollowRing
  <2>2. \A k \in 0 .. n - 1 : Forth(n, 0, k) = k
    BY DEF Forth
  <2>3. QED
    BY <2>1, <2>2, <1>1
<1>3. \A k \in 0 .. n - 1 : Follow(nx, tp, k) = c[i] <=> k = i
  BY <1>2 DEF IsRing
<1>4. c[i] # NULL
  BY <1>1 DEF NULL
<1>5. QED
  BY <1>3, <1>4 DEF Pos

\* The positions of the window's rows before and after a step.
LEMMA PositionsAre ==
    /\ \A r : Position(r) = Pos(next, top, numrows, r)
    /\ Position(tsc)' = Pos(next', top', numrows', tsc')
    /\ Position(curl)' = Pos(next', top', numrows', curl')
  BY DEF Position, Pos, Walk

\* The places in an open pair are positions too.
LEMMA PairPositions ==
    ASSUME OpenPair
    PROVE  /\ Position(top) = 0 /\ Position(end) = 1
           /\ top # NULL /\ end # NULL
<1>1. /\ numrows - 1 = 1 /\ top \in 1 .. 2 /\ end \in 1 .. 2 /\ top # end /\ next[top] = end
      /\ top # NULL /\ end # NULL
  BY PairListed DEF NULL
<1>2. Walk(top, 0) = top
  BY FollowSteps DEF Walk
<1>3. Walk(top, 1) = end
  <2>1. 0 \in Nat /\ 0 + 1 = 1
    OBVIOUS
  <2>2. Follow(next, top, 0 + 1) = next[Follow(next, top, 0)]
    BY <2>1, FollowSteps
  <2>3. QED
    BY <1>1, <1>2, <2>1, <2>2 DEF Walk
<1>4. \A k \in 0 .. numrows - 1 : k = 0 \/ k = 1
  BY <1>1
<1>5. 0 \in 0 .. numrows - 1 /\ 1 \in 0 .. numrows - 1
  BY <1>1
<1>6. QED
  BY <1>1, <1>2, <1>3, <1>4, <1>5 DEF Position

\* An empty list is an empty menu.
LEMMA MenuInit == MCInit => Menu!Init
<1> SUFFICES ASSUME MCInit PROVE Menu!Init
  OBVIOUS
<1>1. OpenPair = FALSE
  BY DEF MCInit, Init, OpenPair
<1>2. numrows = 0 /\ Position(tsc) = -1 /\ Position(curl) = -1 /\ lateAdds = 0
  BY DEF MCInit, Init, Position
<1>3. QED
  BY <1>1, <1>2 DEF Menu!Init, Menu!NoLine

\* Where the window's rows are in the list.
Window(c, i, j) == /\ Listed(c) /\ numrows \in Nat \ {0}
                   /\ i \in 0 .. numrows - 1 /\ c[i] = tsc
                   /\ j \in 0 .. numrows - 1 /\ c[j] = curl

\* The rows of a window have places.
LEMMA WindowExists ==
    ASSUME RingInv, numrows # 0
    PROVE  \E c, i, j : Window(c, i, j)
<1>1. PICK c : Listed(c)
  BY DEF RingInv
<1>2. tsc \in Live /\ curl \in Live /\ numrows \in Nat \ {0}
  BY DEF RingInv
<1>3. PICK i \in 0 .. numrows - 1 : c[i] = tsc
  BY <1>1, <1>2, Placed
<1>4. PICK j \in 0 .. numrows - 1 : c[j] = curl
  BY <1>1, <1>2, Placed
<1>5. QED
  BY <1>1, <1>2, <1>3, <1>4 DEF Window

\* Their positions, in the sense of MCLcdRing, are these places.
LEMMA WindowPositions ==
    ASSUME NEW c, NEW i, NEW j, Window(c, i, j)
    PROVE  /\ Position(tsc) = i /\ Position(curl) = j /\ tsc # NULL /\ curl # NULL
           /\ tsc = curl <=> i = j
           /\ \A k \in 0 .. numrows - 1 : Pos(next, top, numrows, c[k]) = k
<1>1. CASE RingNow(c)
  BY <1>1, PosIsPlace, PositionsAre DEF Window, RingNow
<1>2. CASE OpenPair /\ c = Pair
  <2>1. /\ Position(top) = 0 /\ Position(end) = 1 /\ top # NULL /\ end # NULL
        /\ c[0] = top /\ c[1] = end /\ numrows - 1 = 1
    BY <1>2, PairListed, PairPositions
  <2>2. \A k \in 0 .. numrows - 1 : k = 0 \/ k = 1
    BY <2>1
  <2>3. \A k \in 0 .. numrows - 1 : Position(c[k]) = k /\ c[k] # NULL
    BY <2>1, <2>2
  <2>4. QED
    BY <2>3, PositionsAre DEF Window
<1>3. QED
  BY <1>1, <1>2 DEF Window, Listed

\* The neighbours of a listed row: at the ends of an open pair, itself.
LEMMA ListNeighbours ==
    ASSUME RingInv, numrows # 0, NEW c, Listed(c), NEW i \in 0 .. numrows - 1
    PROVE  /\ next[c[i]] = c[IF i < numrows - 1 THEN i + 1 ELSE IF OpenPair THEN i ELSE 0]
           /\ prev[c[i]] = c[IF i > 0 THEN i - 1 ELSE IF OpenPair THEN i ELSE numrows - 1]
<1>1. numrows \in Nat \ {0}
  BY DEF RingInv
<1>2. CASE RingNow(c)
  <2>1. ~OpenPair
    BY <1>2, RingIsClosed
  <2>2. /\ next[c[i]] = c[After(numrows, i)]
        /\ prev[c[i]] = c[IF i = 0 THEN numrows - 1 ELSE i - 1]
    BY <1>2, Neighbours
  <2>3. /\ After(numrows, i) = IF i < numrows - 1 THEN i + 1 ELSE 0
        /\ (IF i = 0 THEN numrows - 1 ELSE i - 1) = IF i > 0 THEN i - 1 ELSE numrows - 1
    BY <1>1 DEF After
  <2>4. QED
    BY <2>1, <2>2, <2>3
<1>3. CASE OpenPair /\ c = Pair
  <2>1. /\ numrows = 2 /\ c[0] = top /\ c[1] = end /\ top \in 1 .. 2 /\ end \in 1 .. 2
        /\ \A r \in 1 .. 2 : next[r] = end /\ prev[r] = top
    BY <1>3, PairListed
  <2>2. CASE i = 0
    <3>1. i < numrows - 1 /\ i + 1 = 1 /\ ~(i > 0)
      BY <2>1, <2>2
    <3>2. QED
      BY <1>3, <2>1, <2>2, <3>1
  <2>3. CASE i = 1
    <3>1. ~(i < numrows - 1) /\ i - 1 = 0 /\ i > 0
      BY <2>1, <2>3
    <3>2. QED
      BY <1>3, <2>1, <2>3, <3>1
  <2>4. QED
    BY <2>1, <2>2, <2>3
<1>4. QED
  BY <1>2, <1>3 DEF Listed

\* Turning the knob up.
LEMMA UpIsUp ==
    ASSUME RingInv, MenuUp, UNCHANGED lateAdds
    PROVE  Menu!MenuUp
<1>1. numrows # 0
  BY DEF MenuUp, RingInv
<1>2. PICK c, i, j : Window(c, i, j)
  BY <1>1, WindowExists
<1>3. /\ Position(tsc) = i /\ Position(curl) = j /\ curl # NULL /\ (tsc = curl <=> i = j)
      /\ \A k \in 0 .. numrows - 1 : Pos(next, top, numrows, c[k]) = k
  BY <1>2, WindowPositions
<1> DEFINE h(k) == IF k > 0 THEN k - 1 ELSE IF OpenPair THEN k ELSE numrows - 1
<1>4. /\ numrows \in Nat \ {0} /\ i \in 0 .. numrows - 1 /\ j \in 0 .. numrows - 1
      /\ c[i] = tsc /\ c[j] = curl /\ Listed(c)
  BY <1>2 DEF Window
<1>5. prev[tsc] = c[h(i)] /\ prev[curl] = c[h(j)]
  BY <1>1, <1>4, ListNeighbours
<1>6. h(i) \in 0 .. numrows - 1 /\ h(j) \in 0 .. numrows - 1
  <2>1. CASE OpenPair
    BY <1>4, <2>1
  <2>2. CASE ~OpenPair
    BY <1>4, <2>2
  <2>3. QED
    BY <2>1, <2>2
<1>7. h(i) = Menu!PrevLine(Position(tsc)) /\ h(j) = Menu!PrevLine(Position(curl))
  BY <1>3 DEF Menu!PrevLine
<1> HIDE DEF h
<1>8. /\ next' = next /\ top' = top /\ numrows' = numrows
      /\ tsc' = IF numrows > Height /\ i = j THEN c[h(i)] ELSE c[i]
      /\ curl' = c[h(j)]
  BY <1>3, <1>4, <1>5 DEF MenuUp, links
<1>9. /\ Position(tsc)' = IF numrows > Height /\ i = j THEN h(i) ELSE i
      /\ Position(curl)' = h(j)
  BY <1>3, <1>4, <1>6, <1>8, PositionsAre
<1>10. OpenPair' = OpenPair
  BY DEF MenuUp, links, OpenPair, Live
<1>11. UNCHANGED <<numrows, OpenPair, lateAdds>>
  BY <1>8, <1>10
<1>12. Position(curl) # Menu!NoLine
  BY <1>3, <1>4 DEF Menu!NoLine
<1>13. QED
  BY <1>3, <1>7, <1>9, <1>11, <1>12 DEF Menu!MenuUp

\* Turning the knob down: the loop that looks for the last line of the display.
LEMMA DownIsDown ==
    ASSUME RingInv, MenuDown, UNCHANGED lateAdds
    PROVE  Menu!MenuDown
<1>1. numrows # 0
  BY DEF MenuDown, RingInv
<1>2. PICK c, i, j : Window(c, i, j)
  BY <1>1, WindowExists
<1>3. /\ Position(tsc) = i /\ Position(curl) = j /\ curl # NULL
      /\ \A k \in 0 .. numrows - 1 : Pos(next, top, numrows, c[k]) = k
  BY <1>2, WindowPositions
<1> DEFINE f(k) == IF k < numrows - 1 THEN k + 1 ELSE IF OpenPair THEN k ELSE 0
           b == Forth(numrows, i, Height - 1)
<1>4. /\ numrows \in Nat \ {0} /\ i \in 0 .. numrows - 1 /\ j \in 0 .. numrows - 1
      /\ c[i] = tsc /\ c[j] = curl /\ Listed(c)
  BY <1>2 DEF Window
<1>5. next[tsc] = c[f(i)] /\ next[curl] = c[f(j)]
  BY <1>1, <1>4, ListNeighbours
<1>6. f(i) \in 0 .. numrows - 1 /\ f(j) \in 0 .. numrows - 1
  <2>1. CASE OpenPair
    BY <1>4, <2>1
  <2>2. CASE ~OpenPair
    BY <1>4, <2>2
  <2>3. QED
    BY <2>1, <2>2
<1>7. f(i) = Menu!NextLine(Position(tsc)) /\ f(j) = Menu!NextLine(Position(curl))
  BY <1>3 DEF Menu!NextLine
<1>8. ASSUME numrows > Height
      PROVE  curl = Walk(tsc, Height - 1) <=> j = b
  <2>1. Height - 1 \in 0 .. numrows - 1 /\ b \in 0 .. numrows - 1
    BY <1>4, <1>8, RingHeight DEF Forth
  <2>2. Walk(tsc, Height - 1) = c[b]
    <3>1. CASE RingNow(c)
      BY <2>1, <3>1, <1>4, FollowRing DEF Walk, RingNow
    <3>2. CASE OpenPair
      <4>1. numrows = 2 /\ Height = 1 /\ Height - 1 = 0
        BY <3>2, <1>8, RingHeight, PairListed
      <4>2. b = i
        BY <4>1, <1>4 DEF Forth
      <4>3. Walk(tsc, 0) = tsc
        BY FollowSteps DEF Walk
      <4>4. QED
        BY <4>1, <4>2, <4>3, <1>4
    <3>3. QED
      BY <3>1, <3>2, <1>4 DEF Listed
  <2>3. c[j] = c[b] <=> j = b
    BY <2>1, <1>3, <1>4
  <2>4. QED
    BY <2>2, <2>3, <1>4
<1> HIDE DEF f, b
<1>9. /\ next' = next /\ top' = top /\ numrows' = numrows
      /\ tsc' = IF numrows > Height /\ j = b THEN c[f(i)] ELSE c[i]
      /\ curl' = c[f(j)]
  BY <1>3, <1>4, <1>5, <1>8 DEF MenuDown, links
<1>10. /\ Position(tsc)' = IF numrows > Height /\ j = b THEN f(i) ELSE i
       /\ Position(curl)' = f(j)
  BY <1>3, <1>4, <1>6, <1>9, PositionsAre
<1>11. b = Menu!BottomLine
  BY <1>3, <1>4, RingHeight DEF b, Forth, Menu!BottomLine
<1>12. OpenPair' = OpenPair
  BY DEF MenuDown, links, OpenPair, Live
<1>13. UNCHANGED <<numrows, OpenPair, lateAdds>>
  BY <1>9, <1>12
<1>14. Position(curl) # Menu!NoLine
  BY <1>3, <1>4 DEF Menu!NoLine
<1>15. QED
  BY <1>3, <1>7, <1>10, <1>11, <1>13, <1>14 DEF Menu!MenuDown

\* A new row: the first one, or one behind the others, which keep their places.
LEMMA AddIsAdd ==
    ASSUME RingInv, NEW s \in Strs, NEW selected \in BOOLEAN, MenuAddEntry(s, selected),
           lateAdds' = IF top = NULL \/ selected THEN 0
                       ELSE IF Position(curl) < Position(tsc) THEN lateAdds + 1
                       ELSE lateAdds
    PROVE  Menu!MenuAddEntry(selected)
<1>1. CASE numrows = 0
  <2>1. /\ numrows' = 1 /\ tsc' = 1 /\ curl' = 1
        /\ \E d : IsRing(d, 1, next', prev', top', end') /\ d[0] = 1
    BY <1>1, AddFirst
  <2>2. PICK d : IsRing(d, 1, next', prev', top', end') /\ d[0] = 1
    BY <2>1
  <2>3. Pos(next', top', 1, 1) = 0
    <3>1. 0 \in 0 .. 1 - 1 /\ 1 \in Nat \ {0}
      OBVIOUS
    <3>2. Pos(next', top', 1, d[0]) = 0
      BY <2>2, <3>1, PosIsPlace
    <3>3. QED
      BY <2>2, <3>2
  <2>4. Position(tsc)' = 0 /\ Position(curl)' = 0
    BY <2>1, <2>3, PositionsAre
  <2>5. top = NULL /\ lateAdds' = 0 /\ numrows < MaxRows
    BY <1>1 DEF RingInv, MenuAddEntry
  <2>6. OpenPair' = FALSE
    BY <2>1 DEF OpenPair
  <2>7. QED
    BY <1>1, <2>1, <2>4, <2>5, <2>6 DEF Menu!MenuAddEntry
<1>2. CASE numrows # 0
  <2>1. PICK c, i, j : Window(c, i, j)
    BY <1>2, WindowExists
  <2>2. Position(tsc) = i /\ Position(curl) = j
    BY <2>1, WindowPositions
  <2>3. /\ numrows \in Nat \ {0} /\ i \in 0 .. numrows - 1 /\ j \in 0 .. numrows - 1
        /\ c[i] = tsc /\ c[j] = curl /\ Listed(c)
    BY <2>1 DEF Window
  <2>4. /\ numrows < MaxRows /\ numrows' = numrows + 1 /\ top # NULL
        /\ IF selected THEN tsc' = numrows + 1 /\ curl' = numrows + 1
                       ELSE tsc' = tsc /\ curl' = curl
        /\ \E d : /\ IsRing(d, numrows', next', prev', top', end')
                 /\ d[numrows] = numrows + 1
                 /\ \A k \in 0 .. numrows - 1 : d[k] = c[k]
    BY <1>2, <2>3, AddNext
  <2>5. PICK d : /\ IsRing(d, numrows', next', prev', top', end')
                 /\ d[numrows] = numrows + 1
                 /\ \A k \in 0 .. numrows - 1 : d[k] = c[k]
    BY <2>4
  <2>6. \A k \in 0 .. numrows : Pos(next', top', numrows', d[k]) = k
    <3>1. numrows' \in Nat \ {0} /\ 0 .. numrows = 0 .. numrows' - 1
      BY <2>3, <2>4
    <3>2. PICK n \in Nat \ {0} : n = numrows'
      BY <3>1
    <3>3. IsRing(d, n, next', prev', top', end')
      BY <2>5, <3>2
    <3>4. \A k \in 0 .. n - 1 : Pos(next', top', n, d[k]) = k
      BY <3>3, PosIsPlace
    <3>5. QED
      BY <3>1, <3>2, <3>4
  <2>7. OpenPair' = FALSE
    <3>1. RingNow(d)'
      BY <2>5 DEF RingNow, IsRing, After
    <3>2. ~OpenPair'
      BY <3>1, ClosedAfter
    <3>3. QED
      BY <3>2
  <2>8. CASE selected
    <3>1. tsc' = d[numrows] /\ curl' = d[numrows] /\ numrows \in 0 .. numrows
      BY <2>3, <2>4, <2>5, <2>8
    <3>2. Position(tsc)' = numrows /\ Position(curl)' = numrows
      BY <3>1, <2>6, PositionsAre
    <3>3. lateAdds' = 0
      BY <2>8
    <3>4. QED
      BY <2>4, <2>7, <2>8, <3>2, <3>3 DEF Menu!MenuAddEntry
  <2>9. CASE ~selected
    <3>1. /\ tsc' = d[i] /\ curl' = d[j]
          /\ i \in 0 .. numrows /\ j \in 0 .. numrows
      BY <2>3, <2>4, <2>5, <2>9
    <3>2. Position(tsc)' = i /\ Position(curl)' = j
      BY <3>1, <2>6, PositionsAre
    <3>3. lateAdds' = IF Position(curl) < Position(tsc) THEN lateAdds + 1 ELSE lateAdds
      BY <2>4, <2>9
    <3>4. QED
      BY <1>2, <2>2, <2>4, <2>7, <2>9, <3>2, <3>3 DEF Menu!MenuAddEntry
  <2>10. QED
    BY <2>8, <2>9
<1>3. QED
  BY <1>1, <1>2

\* Sorting puts the selected row somewhere in the new list.
LEMMA SortIsSort ==
    ASSUME RingInv, MenuSort, lateAdds' = 0
    PROVE  Menu!MenuSort
<1>1. /\ numrows \in 2 .. MaxRows /\ numrows' = numrows
      /\ tsc' = curl /\ curl' = curl
      /\ (\E d : IsRing(d, numrows', next', prev', top', end')) \/ OpenPair'
  BY SortRing
<1>2. numrows \in Nat \ {0} /\ curl \in 1 .. numrows /\ numrows >= 2
  BY <1>1, RingRows DEF RingInv, Live
<1>3. ASSUME NEW d, IsRing(d, numrows', next', prev', top', end')
      PROVE  \E k \in 0 .. numrows - 1 : Position(tsc)' = k /\ Position(curl)' = k
  <2>1. IsRing(d, numrows, next', prev', top', end')
    BY <1>1, <1>3
  <2>2. PICK k \in 0 .. numrows - 1 : d[k] = curl
    BY <1>2, <2>1 DEF IsRing
  <2>3. Pos(next', top', numrows, d[k]) = k
    BY <1>2, <2>1, PosIsPlace
  <2>4. QED
    BY <1>1, <2>2, <2>3, PositionsAre
<1>4. ASSUME OpenPair'
      PROVE  \E k \in 0 .. numrows - 1 : Position(tsc)' = k /\ Position(curl)' = k
  <2>1. (/\ Position(top) = 0 /\ Position(end) = 1
         /\ numrows = 2 /\ \A r \in 1 .. 2 : r = top \/ r = end)'
    BY <1>4, PairPositions, PairListed, PTL
  <2>2. Position(curl)' = 0 \/ Position(curl)' = 1
    <3>1. numrows' = 2 /\ (curl' = top' \/ curl' = end')
      BY <1>1, <1>2, <2>1
    <3>2. curl' = top' => Position(curl)' = Position(top)'
      BY DEF Position
    <3>3. curl' = end' => Position(curl)' = Position(end)'
      BY DEF Position
    <3>4. QED
      BY <2>1, <3>1, <3>2, <3>3
  <2>3. Position(tsc)' = Position(curl)'
    BY <1>1 DEF Position
  <2>4. 0 \in 0 .. numrows - 1 /\ 1 \in 0 .. numrows - 1
    BY <1>2
  <2>5. QED
    BY <2>2, <2>3, <2>4
<1>5. PICK k \in 0 .. numrows - 1 : Position(tsc)' = k /\ Position(curl)' = k
  BY <1>1, <1>3, <1>4
<1>6. OpenPair' \in {OpenPair, numrows = 2}
  <2>1. CASE OpenPair'
    <3>1. numrows = 2
      BY <1>1, <2>1 DEF OpenPair
    <3>2. OpenPair' = (numrows = 2)
      BY <2>1, <3>1
    <3>3. QED
      BY <3>2
  <2>2. CASE ~OpenPair'
    <3>1. ~OpenPair
      <4> SUFFICES ASSUME OpenPair PROVE FALSE
        OBVIOUS
      <4>1. next' = next /\ prev' = prev /\ top' = top /\ end' = end
        BY <2>2, PairListed, SortPair DEF RingInv
      <4>2. OpenPair'
        BY <1>1, <4>1 DEF OpenPair, Live
      <4>3. QED
        BY <2>2, <4>2
    <3>2. OpenPair' = OpenPair
      BY <2>2, <3>1 DEF OpenPair
    <3>3. QED
      BY <3>2
  <2>3. QED
    BY <2>1, <2>2
<1>7. QED
  BY <1>1, <1>2, <1>5, <1>6 DEF Menu!MenuSort, Menu!Lines

\* Every call is a step of the menu window.
LEMMA StepIsStep ==
    ASSUME RingInv, [MCNext]_<<vars, lateAdds>>
    PROVE  [Menu!Next]_(Menu!vars)
<1>1. CASE MenuClear /\ lateAdds' = 0
  <2>1. numrows' = 0 /\ Position(tsc)' = -1 /\ Position(curl)' = -1
    BY <1>1 DEF MenuClear, Position
  <2>2. OpenPair' = FALSE
    BY <2>1 DEF OpenPair
  <2>3. Menu!MenuClear
    BY <1>1, <2>1, <2>2 DEF Menu!MenuClear, Menu!NoLine
  <2>4. QED
    BY <2>3 DEF Menu!Next
<1>2. CASE MenuSort /\ lateAdds' = 0
  BY <1>2, SortIsSort DEF Menu!Next
<1>3. ASSUME NEW s \in Strs, NEW selected \in BOOLEAN, MenuAddEntry(s, selected),
             lateAdds' = IF top = NULL \/ selected THEN 0
                         ELSE IF Position(curl) < Position(tsc) THEN lateAdds + 1
                         ELSE lateAdds
      PROVE  [Menu!Next]_(Menu!vars)
  <2>1. Menu!MenuAddEntry(selected)
    BY <1>3, AddIsAdd
  <2>2. QED
    BY <2>1 DEF Menu!Next
<1>4. CASE MenuUp /\ UNCHANGED lateAdds
  BY <1>4, UpIsUp DEF Menu!Next
<1>5. CASE MenuDown /\ UNCHANGED lateAdds
  BY <1>5, DownIsDown DEF Menu!Next
<1>6. CASE (Refresh \/ UNCHANGED vars) /\ UNCHANGED lateAdds
  <2>1. /\ next' = next /\ prev' = prev /\ top' = top /\ end' = end /\ numrows' = numrows
        /\ tsc' = tsc /\ curl' = curl /\ lateAdds' = lateAdds
    BY <1>6 DEF Refresh, links, vars
  <2>2. Position(tsc)' = Position(tsc) /\ Position(curl)' = Position(curl)
    BY <2>1, PositionsAre
  <2>3. OpenPair' = OpenPair
    BY <2>1 DEF OpenPair, Live
  <2>4. QED
    BY <2>1, <2>2, <2>3 DEF Menu!vars
<1>7. QED
  BY <1>1, <1>2, <1>3, <1>4, <1>5, <1>6 DEF MCNext

(***************************************************************************)
(* The linked list implements the menu window (ImplementsMenu), for every  *)
(* height, length and set of texts: each call of lcd_menuclear to          *)
(* lcd_menucontrol changes the positions of tsc and curl in the circle as  *)
(* LcdMenu says, and drawing changes neither.                              *)
(***************************************************************************)
THEOREM RingImplementsMenu == MCSpec => ImplementsMenu
<1>1. MCInit => RingInv
  BY RingInit DEF MCInit
<1>2. RingInv /\ [MCNext]_<<vars, lateAdds>> => RingInv'
  <2>1. [MCNext]_<<vars, lateAdds>> => [Next]_vars
    BY DEF MCNext, Next
  <2>2. QED
    BY <2>1, RingStep
<1>3. RingInv /\ [MCNext]_<<vars, lateAdds>> => [Menu!Next]_(Menu!vars)
  BY StepIsStep
<1>4. QED
  BY MenuInit, <1>1, <1>2, <1>3, PTL DEF MCSpec, ImplementsMenu, Menu!Spec

----------------------------------------------------------------------------
\* The theorems about the menu window, of the menu this list implements.
Seen == INSTANCE LcdMenu_proofs
        WITH tsc <- Position(tsc), curl <- Position(curl), open <- OpenPair

\* The row counted from the top of the screen is the one next leads to.
LEMMA CountedIsDrawn ==
    ASSUME RingInv, Seen!SelectionVisible
    PROVE  SelectionDrawn
<1> SUFFICES ASSUME numrows > 0, lateAdds = 0, ~OpenPair
             PROVE  \E k \in 1 .. Min2(numrows, Height) : DrawnRows[k] = curl
  BY DEF SelectionDrawn
<1>1. numrows # 0
  OBVIOUS
<1>2. PICK c, i, j : Window(c, i, j)
  BY <1>1, WindowExists
<1>3. Position(tsc) = i /\ Position(curl) = j
  BY <1>2, WindowPositions
<1>4. /\ numrows \in Nat \ {0} /\ i \in 0 .. numrows - 1 /\ j \in 0 .. numrows - 1
      /\ c[i] = tsc /\ c[j] = curl /\ RingNow(c)
  BY <1>2 DEF Window, Listed
<1> DEFINE row == IF j >= i THEN j - i ELSE j - i + numrows
<1>5. row < Height
  BY <1>3 DEF Seen!SelectionVisible, Seen!RowOf
<1>6. row \in 0 .. numrows - 1 /\ Forth(numrows, i, row) = j
  BY <1>4 DEF Forth
<1>7. row + 1 \in 1 .. Min2(numrows, Height) /\ row + 1 - 1 = row
  BY <1>4, <1>5, <1>6, RingHeight DEF Min2
<1> HIDE DEF row
<1>8. Walk(tsc, row) = curl
  BY <1>4, <1>6, FollowRing DEF Walk, RingNow
<1>9. PICK x \in 1 .. Min2(numrows, Height) : x - 1 = row
  BY <1>6, <1>7
<1>10. DrawnRows[x] = Walk(tsc, x - 1)
  <2>1. \A y \in 1 .. Min2(numrows, Height) : DrawnRows[y] = Walk(tsc, y - 1)
    BY DEF DrawnRows
  <2>2. QED
    BY <1>9, <2>1
<1>11. QED
  BY <1>8, <1>9, <1>10

(***************************************************************************)
(* lcd_refresh draws the selected row (SelectionDrawn), for every height,  *)
(* length and set of texts, however the menu is built, sorted and walked   *)
(* through, but for the two cases LcdMenu names.                           *)
(***************************************************************************)
THEOREM SelectionStaysDrawn == MCSpec => []SelectionDrawn
<1>1. MCInit => RingInv
  BY RingInit DEF MCInit
<1>2. RingInv /\ [MCNext]_<<vars, lateAdds>> => RingInv'
  <2>1. [MCNext]_<<vars, lateAdds>> => [Next]_vars
    BY DEF MCNext, Next
  <2>2. QED
    BY <2>1, RingStep
<1>3. MCSpec => Seen!Spec
  <2>1. Menu!Init => Seen!Init
    BY DEF Menu!Init, Seen!Init, Menu!NoLine, Seen!NoLine
  <2>2. [Menu!Next]_(Menu!vars) => [Seen!Next]_(Seen!vars)
    BY DEF Menu!Next, Seen!Next, Menu!vars, Seen!vars,
           Menu!MenuClear, Seen!MenuClear, Menu!MenuAddEntry, Seen!MenuAddEntry,
           Menu!MenuSort, Seen!MenuSort, Menu!MenuUp, Seen!MenuUp,
           Menu!MenuDown, Seen!MenuDown, Menu!NoLine, Seen!NoLine, Menu!Lines, Seen!Lines,
           Menu!NextLine, Seen!NextLine, Menu!PrevLine, Seen!PrevLine,
           Menu!BottomLine, Seen!BottomLine
  <2>3. QED
    BY <2>1, <2>2, RingImplementsMenu, PTL DEF ImplementsMenu, Menu!Spec, Seen!Spec
<1>4. Seen!Spec => []Seen!SelectionVisible
  BY RingHeight, RingRows, Seen!SelectionStaysVisible
<1>5. RingInv /\ Seen!SelectionVisible => SelectionDrawn
  BY CountedIsDrawn
<1>6. QED
  BY <1>1, <1>2, <1>3, <1>4, <1>5, PTL DEF MCSpec
=============================================================================
