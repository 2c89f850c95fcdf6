-------------------------- MODULE Pagination_proofs --------------------------
(***************************************************************************)
(* Theorems about the pages, for lists of any length and pages of any      *)
(* size.  What the filter and the sort compute is shown by induction over  *)
(* the loops they are.                                                     *)
(***************************************************************************)
EXTENDS Pagination, FiniteSetTheorems, SequenceTheorems,
        WellFoundedInduction, TLAPS

(***************************************************************************)
(* Induction over the rounds of a loop.                                    *)
(***************************************************************************)

LEMMA LeastNumber ==
    ASSUME NEW T, T \subseteq Nat, T # {}
    PROVE  \E x \in T : \A y \in T : x <= y
<1>1. IsWellFoundedOn(OpToRel(<, Nat), Nat)
  BY NatLessThanWellFounded
<1>2. PICK x \in T : \A y \in T : <<y, x>> \notin OpToRel(<, Nat)
  BY <1>1, WFMin
<1>3. \A y \in T : ~(y < x)
  BY <1>2 DEF OpToRel
<1>. QED
  BY <1>3

(* The rounds after which something holds are all of them. *)
LEMMA Rounds ==
    ASSUME NEW n \in Nat, NEW T, 0 \in T,
           \A i \in 1 .. n : i - 1 \in T => i \in T
    PROVE  \A i \in 0 .. n : i \in T
<1>1. SUFFICES ASSUME NEW i \in 0 .. n, i \notin T PROVE FALSE
  OBVIOUS
<1> DEFINE Failed == (0 .. n) \ T
<1>2. PICK k \in Failed : \A j \in Failed : k <= j
  <2>1. i \in Failed /\ Failed \subseteq Nat
    BY <1>1
  <2>2. Failed # {}
    BY <2>1
  <2>. QED
    BY <2>1, <2>2, LeastNumber
<1>3. k \in 1 .. n
  BY <1>2
<1>4. k - 1 \notin T
  BY <1>2, <1>3
<1>5. k - 1 \in Failed /\ ~(k <= k - 1)
  BY <1>3, <1>4
<1>. QED
  BY <1>2, <1>5

(* f has the values of a loop whose round i makes step[<<i, x>>] of x.     *)
IsRun(f, n, base, step) ==
    f[0] = base /\ \A i \in 1 .. n : f[i] = step[<<i, f[i - 1]>>]

(* Such a loop has a value after every round. *)
LEMMA LoopEnds ==
    ASSUME NEW n \in Nat, NEW S, NEW base \in S,
           NEW step \in [(1 .. n) \X S -> S]
    PROVE  \E f \in [0 .. n -> S] : IsRun(f, n, base, step)
<1> DEFINE Run(f, k) == /\ f \in [0 .. n -> S] /\ f[0] = base
                        /\ \A i \in 1 .. k : f[i] = step[<<i, f[i - 1]>>]
           T == {k \in 0 .. n : \E f : Run(f, k)}
<1>1. 0 \in T
  <2> DEFINE f == [i \in 0 .. n |-> base]
  <2>1. f \in [0 .. n -> S] /\ f[0] = base
    OBVIOUS
  <2>. HIDE DEF f
  <2>2. Run(f, 0)
    BY <2>1
  <2>. QED
    BY <2>2
<1>2. ASSUME NEW k \in 1 .. n, k - 1 \in T PROVE k \in T
  <2>1. PICK f : Run(f, k - 1)
    BY <1>2
  <2> DEFINE g == [f EXCEPT ![k] = step[<<k, f[k - 1]>>]]
  <2>2. step[<<k, f[k - 1]>>] \in S
    BY <2>1
  <2>3. /\ g \in [0 .. n -> S] /\ g[k] = step[<<k, f[k - 1]>>]
        /\ \A i \in 0 .. n : i # k => g[i] = f[i]
    BY <2>1, <2>2
  <2>. HIDE DEF g
  <2>4. ASSUME NEW i \in 1 .. k PROVE g[i] = step[<<i, g[i - 1]>>]
    <3>1. /\ i \in 0 .. n /\ i - 1 \in 0 .. n /\ i - 1 # k
          /\ i # k => i \in 1 .. k - 1
      OBVIOUS
    <3>2. g[i - 1] = f[i - 1]
      BY <2>3, <3>1
    <3>3. CASE i = k
      BY <2>3, <3>2, <3>3
    <3>4. CASE i # k
      BY <2>1, <2>3, <3>1, <3>2, <3>4
    <3>. QED
      BY <3>3, <3>4
  <2>5. Run(g, k)
    BY <2>1, <2>3, <2>4
  <2>. QED
    BY <2>5
<1>. HIDE DEF T
<1>3. n \in T
  BY <1>1, <1>2, Rounds
<1>4. PICK f : Run(f, n)
  BY <1>3 DEF T
<1>. QED
  BY <1>4 DEF IsRun

(* The greatest of finitely many numbers, and the greater and the smaller  *)
(* of two.                                                                 *)
LEMMA MaxUpTo ==
    ASSUME NEW n \in Nat, NEW S, S \subseteq 0 .. n, S # {}
    PROVE  Max(S) \in S /\ \A i \in S : i <= Max(S)
<1> DEFINE Bounds == {b \in Nat : \A i \in S : i <= b}
<1>1. n \in Bounds
  OBVIOUS
<1>2. PICK b \in Bounds : \A c \in Bounds : b <= c
  BY <1>1, LeastNumber
<1>3. b \in S
  <2>1. SUFFICES ASSUME b \notin S PROVE FALSE
    OBVIOUS
  <2>2. PICK i \in S : TRUE
    OBVIOUS
  <2>3. i \in Nat /\ i <= b /\ i # b
    BY <2>1, <2>2
  <2>4. b - 1 \in Nat /\ \A j \in S : j <= b - 1
    BY <2>1, <2>3
  <2>. QED
    BY <1>2, <2>4
<1>4. \E x \in S : \A y \in S : x >= y
  BY <1>2, <1>3
<1>5. Max(S) \in S /\ \A y \in S : Max(S) >= y
  BY <1>4 DEF Max
<1>. QED
  BY <1>5

LEMMA MaxOfTwo ==
    ASSUME NEW a \in Int, NEW b \in Int
    PROVE  Max({a, b}) = IF a >= b THEN a ELSE b
<1>1. \E x \in {a, b} : \A y \in {a, b} : x >= y
  OBVIOUS
<1>2. Max({a, b}) \in {a, b} /\ \A y \in {a, b} : Max({a, b}) >= y
  BY <1>1 DEF Max
<1>. QED
  BY <1>2

LEMMA MinOfTwo ==
    ASSUME NEW a \in Int, NEW b \in Int
    PROVE  Min({a, b}) = IF a <= b THEN a ELSE b
<1>1. \E x \in {a, b} : \A y \in {a, b} : x <= y
  OBVIOUS
<1>2. Min({a, b}) \in {a, b} /\ \A y \in {a, b} : Min({a, b}) <= y
  BY <1>1 DEF Min
<1>. QED
  BY <1>2

(***************************************************************************)
(* The search and the sort: what they make of a list is a list of the same *)
(* items, or of those that match.                                          *)
(***************************************************************************)

Item == [place : Nat, key : Nat, match : BOOLEAN]

(* v lists each of W once. *)
Enumerates(v, W) == v \in Seq(W) /\ IsInjective(v) /\ ToSet(v) = W

ByKey(v, order) ==
    \A i, j \in DOMAIN v : i < j =>
        IF order = "asc" THEN v[i].key <= v[j].key ELSE v[i].key >= v[j].key

LEMMA LengthIsCardinality ==
    ASSUME NEW W, NEW v, Enumerates(v, W)
    PROVE  IsFiniteSet(W) /\ Len(v) = Cardinality(W) /\ Len(v) \in Nat
<1>1. /\ Len(v) \in Nat /\ DOMAIN v = 1 .. Len(v) /\ v \in [1 .. Len(v) -> W]
      /\ IsInjective(v) /\ {v[i] : i \in 1 .. Len(v)} = W
  BY DEF Enumerates, ToSet
<1>2. v \in Bijection(1 .. Len(v), W)
  BY <1>1 DEF Bijection, Injection, Surjection, IsInjective
<1>3. ExistsBijection(1 .. Len(v), W)
  BY <1>2 DEF ExistsBijection
<1>4. IsFiniteSet(1 .. Len(v)) /\ Cardinality(1 .. Len(v)) = Len(v)
  BY <1>1, FS_Interval
<1>. QED
  BY <1>1, <1>3, <1>4, FS_Bijection

(* r is s with x put in behind the first p. *)
HasAt(r, s, x, p) ==
    /\ Len(r) = Len(s) + 1
    /\ \A j \in 1 .. p : r[j] = s[j]
    /\ r[p + 1] = x
    /\ \A j \in p + 2 .. Len(s) + 1 : r[j] = s[j - 1]

LEMMA InsertAtPlace ==
    ASSUME NEW S, NEW s \in Seq(S), NEW x \in S, NEW p \in 0 .. Len(s)
    PROVE  /\ InsertAt(s, p + 1, x) \in Seq(S)
           /\ HasAt(InsertAt(s, p + 1, x), s, x, p)
<1> DEFINE left  == SubSeq(s, 1, (p + 1) - 1)
           right == SubSeq(s, p + 1, Len(s))
<1>1. \A j \in 1 .. Len(s) : s[j] \in S
  OBVIOUS
<1>2. /\ left \in Seq(S) /\ Len(left) = p
      /\ \A j \in 1 .. p : left[j] = s[j]
  <2>1. (p + 1) - 1 = p /\ p \in Int /\ \A j \in 1 .. p : s[j] \in S
    BY <1>1
  <2>. QED
    BY <2>1, SubSeqProperties
<1>3. /\ right \in Seq(S) /\ Len(right) = Len(s) - p
      /\ \A j \in 1 .. Len(s) - p : right[j] = s[p + j]
  BY <1>1, SubSeqProperties
<1>4. <<x>> \in Seq(S) /\ Len(<<x>>) = 1 /\ <<x>>[1] = x
  OBVIOUS
<1>. HIDE DEF left, right
<1>5. /\ left \o <<x>> \in Seq(S) /\ Len(left \o <<x>>) = p + 1
      /\ \A j \in 1 .. p : (left \o <<x>>)[j] = s[j]
      /\ (left \o <<x>>)[p + 1] = x
  BY <1>2, <1>4, ConcatProperties
<1> DEFINE front == left \o <<x>>
<1>6. front \in Seq(S) /\ Len(front) = p + 1
      /\ (\A j \in 1 .. p : front[j] = s[j]) /\ front[p + 1] = x
  BY <1>5
<1>7. InsertAt(s, p + 1, x) = front \o right
  BY DEF InsertAt, left, right
<1>. HIDE DEF front
<1>8. /\ front \o right \in Seq(S)
      /\ Len(front \o right) = Len(front) + Len(right)
      /\ \A j \in 1 .. Len(front) + Len(right) : (front \o right)[j] =
            IF j <= Len(front) THEN front[j] ELSE right[j - Len(front)]
  BY <1>3, <1>6, ConcatProperties
<1>9. /\ Len(front) + Len(right) = Len(s) + 1
      /\ \A j \in p + 2 .. Len(s) + 1 :
            /\ right[j - (p + 1)] = s[j - 1]
            /\ j \in 1 .. Len(s) + 1 /\ ~(j <= p + 1)
      /\ \A j \in 1 .. p + 1 : j \in 1 .. Len(s) + 1 /\ j <= p + 1
  <2>1. Len(front) + Len(right) = Len(s) + 1 /\ Len(s) \in Nat
    BY <1>3, <1>6
  <2>2. ASSUME NEW j \in p + 2 .. Len(s) + 1
        PROVE  right[j - (p + 1)] = s[j - 1]
    <3>1. j - (p + 1) \in 1 .. Len(s) - p /\ p + (j - (p + 1)) = j - 1
      BY <2>1
    <3>. QED
      BY <1>3, <3>1
  <2>. QED
    BY <2>1, <2>2
<1> DEFINE whole == front \o right
<1>10. /\ whole \in Seq(S) /\ Len(whole) = Len(s) + 1
       /\ \A j \in 1 .. p + 1 : whole[j] = front[j]
       /\ \A j \in p + 2 .. Len(s) + 1 : whole[j] = s[j - 1]
  BY <1>6, <1>8, <1>9
<1>11. whole = InsertAt(s, p + 1, x)
  BY <1>7
<1>. HIDE DEF whole
<1>. QED
  BY <1>6, <1>10, <1>11 DEF HasAt

(* Where an item is inserted: behind the last that it is not Before.       *)
LEMMA PlaceOfInserted ==
    ASSUME NEW S, NEW done \in Seq(S), NEW item \in S, NEW order
    PROVE  \E p \in 0 .. Len(done) :
             /\ Inserted(done, item, order) = InsertAt(done, p + 1, item)
             /\ \A j \in p + 1 .. Len(done) : Before(item, done[j], order)
             /\ p # 0 => ~Before(item, done[p], order)
<1> DEFINE stays == {j \in DOMAIN done : ~Before(item, done[j], order)}
           p == Max(stays \cup {0})
<1>1. DOMAIN done = 1 .. Len(done) /\ Len(done) \in Nat
  OBVIOUS
<1>2. stays \cup {0} \subseteq 0 .. Len(done) /\ stays \cup {0} # {}
  BY <1>1
<1>3. p \in stays \cup {0} /\ \A i \in stays \cup {0} : i <= p
  BY <1>1, <1>2, MaxUpTo
<1>4. p \in 0 .. Len(done)
  BY <1>2, <1>3
<1>5. Inserted(done, item, order) = InsertAt(done, p + 1, item)
  BY DEF Inserted
<1>6. ASSUME NEW j \in p + 1 .. Len(done)
      PROVE  Before(item, done[j], order)
  <2>. HIDE DEF p
  <2>1. j \in DOMAIN done /\ ~(j <= p)
    BY <1>1, <1>4
  <2>. QED
    BY <1>3, <2>1
<1>7. p # 0 => ~Before(item, done[p], order)
  BY <1>3
<1>. HIDE DEF p, stays
<1>. QED
  BY <1>4, <1>5, <1>6, <1>7

(* The item goes behind the first p. *)
GoesTo(p, done, item, order) ==
    /\ HasAt(Inserted(done, item, order), done, item, p)
    /\ \A j \in p + 1 .. Len(done) : Before(item, done[j], order)
    /\ p # 0 => ~Before(item, done[p], order)

LEMMA InsertedPlaces ==
    ASSUME NEW S, NEW done \in Seq(S), NEW item \in S, NEW order
    PROVE  /\ Inserted(done, item, order) \in Seq(S)
           /\ \E p \in 0 .. Len(done) : GoesTo(p, done, item, order)
  BY PlaceOfInserted, InsertAtPlace DEF GoesTo

(* Inserting adds the item and keeps the order. *)
LEMMA InsertedIs ==
    ASSUME NEW S, NEW done \in Seq(S), NEW item \in S, NEW order
    PROVE  /\ Inserted(done, item, order) \in Seq(S)
           /\ Len(Inserted(done, item, order)) = Len(done) + 1
           /\ ToSet(Inserted(done, item, order)) = ToSet(done) \cup {item}
<1> DEFINE r == Inserted(done, item, order)
<1>0. r \in Seq(S)
  BY InsertedPlaces
<1>1. PICK p \in 0 .. Len(done) : HasAt(r, done, item, p)
  BY InsertedPlaces DEF GoesTo
<1>. HIDE DEF r
<1>2. /\ r \in Seq(S) /\ Len(r) = Len(done) + 1
      /\ (\A j \in 1 .. p : r[j] = done[j]) /\ r[p + 1] = item
      /\ \A j \in p + 2 .. Len(done) + 1 : r[j] = done[j - 1]
  BY <1>0, <1>1 DEF HasAt
<1>3. /\ Len(done) \in Nat /\ DOMAIN done = 1 .. Len(done)
      /\ DOMAIN r = 1 .. Len(done) + 1
  BY <1>2
<1>4. ASSUME NEW j \in DOMAIN r PROVE r[j] \in ToSet(done) \cup {item}
  <2>1. j \in 1 .. p => j \in DOMAIN done /\ r[j] = done[j]
    BY <1>2, <1>3
  <2>2. j \in p + 2 .. Len(done) + 1
          => j - 1 \in DOMAIN done /\ r[j] = done[j - 1]
    BY <1>2, <1>3
  <2>3. j \in 1 .. p \/ j = p + 1 \/ j \in p + 2 .. Len(done) + 1
    BY <1>3
  <2>. QED
    BY <1>2, <2>1, <2>2, <2>3 DEF ToSet
<1>5. ASSUME NEW j \in DOMAIN done PROVE done[j] \in ToSet(r)
  <2>1. CASE j <= p
    <3>1. j \in 1 .. p /\ j \in DOMAIN r
      BY <1>3, <2>1
    <3>. QED
      BY <1>2, <3>1 DEF ToSet
  <2>2. CASE ~(j <= p)
    <3>1. /\ j + 1 \in p + 2 .. Len(done) + 1 /\ j + 1 \in DOMAIN r
          /\ (j + 1) - 1 = j
      BY <1>3, <2>2
    <3>2. r[j + 1] = done[j]
      BY <1>2, <3>1
    <3>. QED
      BY <3>1, <3>2 DEF ToSet
  <2>. QED
    BY <2>1, <2>2
<1>6. item \in ToSet(r)
  BY <1>2, <1>3 DEF ToSet
<1>7. ToSet(r) = ToSet(done) \cup {item}
  BY <1>4, <1>5, <1>6 DEF ToSet
<1>. QED
  BY <1>2, <1>7 DEF r

LEMMA InsertedInjective ==
    ASSUME NEW S, NEW done \in Seq(S), NEW item \in S, NEW order,
           IsInjective(done), item \notin ToSet(done)
    PROVE  IsInjective(Inserted(done, item, order))
<1> DEFINE r == Inserted(done, item, order)
<1>0. r \in Seq(S)
  BY InsertedPlaces
<1>1. PICK p \in 0 .. Len(done) : HasAt(r, done, item, p)
  BY InsertedPlaces DEF GoesTo
<1>. HIDE DEF r
<1>2. /\ r \in Seq(S) /\ Len(r) = Len(done) + 1
      /\ (\A j \in 1 .. p : r[j] = done[j]) /\ r[p + 1] = item
      /\ \A j \in p + 2 .. Len(done) + 1 : r[j] = done[j - 1]
  BY <1>0, <1>1 DEF HasAt
<1>3. /\ Len(done) \in Nat /\ DOMAIN done = 1 .. Len(done)
      /\ DOMAIN r = 1 .. Len(done) + 1
  BY <1>2
(* the place in done of what r has at j *)
<1> DEFINE From(j) == IF j <= p THEN j ELSE j - 1
<1>4. ASSUME NEW j \in DOMAIN r, j # p + 1
      PROVE  From(j) \in DOMAIN done /\ r[j] = done[From(j)]
  <2>1. CASE j <= p
    BY <1>2, <1>3, <2>1
  <2>2. CASE ~(j <= p)
    <3>1. j \in p + 2 .. Len(done) + 1 /\ j - 1 \in DOMAIN done
      BY <1>3, <1>4, <2>2
    <3>. QED
      BY <1>2, <2>2, <3>1
  <2>. QED
    BY <2>1, <2>2
<1>5. \A j \in DOMAIN r : j # p + 1 => r[j] # item
  BY <1>4 DEF ToSet
<1>6. \A i, j \in DOMAIN r :
        (i # p + 1 /\ j # p + 1 /\ From(i) = From(j)) => i = j
  BY <1>3
<1>. HIDE DEF From
<1>7. ASSUME NEW i \in DOMAIN r, NEW j \in DOMAIN r, r[i] = r[j]
      PROVE  i = j
  <2>1. CASE i = p + 1 \/ j = p + 1
    BY <1>2, <1>5, <1>7, <2>1
  <2>2. CASE i # p + 1 /\ j # p + 1
    BY <1>4, <1>6, <1>7, <2>2 DEF IsInjective
  <2>. QED
    BY <2>1, <2>2
<1>. QED
  BY <1>7 DEF IsInjective, r

LEMMA InsertedByKey ==
    ASSUME NEW S \in SUBSET Item, NEW done \in Seq(S), NEW item \in S,
           NEW order \in {"asc", "desc"}, ByKey(done, order)
    PROVE  ByKey(Inserted(done, item, order), order)
<1> DEFINE r == Inserted(done, item, order)
           InOrder(x, y) == IF order = "asc" THEN x.key <= y.key
                                             ELSE x.key >= y.key
<1>0. r \in Seq(S)
  BY InsertedPlaces
<1>1. PICK p \in 0 .. Len(done) :
        /\ HasAt(r, done, item, p)
        /\ \A j \in p + 1 .. Len(done) : Before(item, done[j], order)
        /\ p # 0 => ~Before(item, done[p], order)
  BY InsertedPlaces DEF GoesTo
<1>. HIDE DEF r
<1>2. /\ Len(r) = Len(done) + 1 /\ r[p + 1] = item
      /\ \A j \in 1 .. p : r[j] = done[j]
      /\ \A j \in p + 2 .. Len(done) + 1 : r[j] = done[j - 1]
  BY <1>1 DEF HasAt
<1>3. /\ Len(done) \in Nat /\ DOMAIN done = 1 .. Len(done)
      /\ DOMAIN r = 1 .. Len(done) + 1
      /\ \A j \in 1 .. Len(done) : done[j].key \in Nat
      /\ item.key \in Nat
  <2>1. \A x \in S : x.key \in Nat
    BY DEF Item
  <2>2. \A j \in 1 .. Len(done) : done[j] \in S
    OBVIOUS
  <2>3. DOMAIN r = 1 .. Len(r)
    BY <1>0
  <2>. QED
    BY <1>2, <2>1, <2>2, <2>3
<1>4. \A i, j \in 1 .. Len(done) : i < j => InOrder(done[i], done[j])
  BY <1>3 DEF ByKey
<1>5. \A j \in p + 1 .. Len(done) : InOrder(item, done[j])
  BY <1>1, <1>3 DEF Before
<1>6. ASSUME NEW j \in 1 .. p PROVE InOrder(done[j], item)
  <2>1. p \in 1 .. Len(done) /\ p # 0 /\ j \in 1 .. Len(done)
    BY <1>3
  <2>2. InOrder(done[p], item)
    BY <1>1, <1>3, <2>1 DEF Before
  <2>3. j = p \/ InOrder(done[j], done[p])
    BY <1>4, <2>1
  <2>. QED
    BY <1>3, <2>1, <2>2, <2>3
<1>. HIDE DEF InOrder
<1>7. ASSUME NEW i \in DOMAIN r, NEW j \in DOMAIN r, i < j
      PROVE  InOrder(r[i], r[j])
  <2>1. CASE j <= p
    <3>1. i \in 1 .. p /\ j \in 1 .. p /\ i \in 1 .. Len(done)
          /\ j \in 1 .. Len(done)
      BY <1>3, <1>7, <2>1
    <3>. QED
      BY <1>2, <1>4, <1>7, <3>1
  <2>2. CASE j = p + 1
    <3>1. i \in 1 .. p
      BY <1>3, <1>7, <2>2
    <3>. QED
      BY <1>2, <1>6, <2>2, <3>1
  <2>3. CASE j > p + 1
    <3>1. /\ j \in p + 2 .. Len(done) + 1 /\ j - 1 \in p + 1 .. Len(done)
          /\ j - 1 \in 1 .. Len(done)
      BY <1>3, <2>3
    <3>2. r[j] = done[j - 1]
      BY <1>2, <3>1
    <3>3. CASE i <= p
      <4>1. i \in 1 .. p /\ i \in 1 .. Len(done) /\ i < j - 1
        BY <1>3, <2>3, <3>3
      <4>. QED
        BY <1>2, <1>4, <3>1, <3>2, <4>1
    <3>4. CASE i = p + 1
      BY <1>2, <1>5, <3>1, <3>2, <3>4
    <3>5. CASE i > p + 1
      <4>1. i \in p + 2 .. Len(done) + 1 /\ i - 1 \in 1 .. Len(done)
            /\ i - 1 < j - 1
        BY <1>3, <1>7, <3>5
      <4>2. r[i] = done[i - 1]
        BY <1>2, <4>1
      <4>. QED
        BY <1>4, <3>1, <3>2, <4>1, <4>2
    <3>. QED
      BY <1>3, <3>3, <3>4, <3>5
  <2>. QED
    BY <1>3, <2>1, <2>2, <2>3
<1>. QED
  BY <1>7 DEF ByKey, r, InOrder

(* The insertion sort, round by round. *)
IsSort(f, list, order) ==
    /\ f[0] = <<>>
    /\ \A i \in 1 .. Len(list) : f[i] = Inserted(f[i - 1], list[i], order)
    /\ Sorted(list, order) = f[Len(list)]

LEMMA SortRounds ==
    ASSUME NEW S, NEW list \in Seq(S), NEW order
    PROVE  \E f \in [0 .. Len(list) -> Seq(S)] : IsSort(f, list, order)
<1> DEFINE n == Len(list)
           step == [e \in (1 .. n) \X Seq(S) |->
                      Inserted(e[2], list[e[1]], order)]
           G == CHOOSE f : f = [i \in 0 .. n |->
                  IF i = 0 THEN <<>> ELSE Inserted(f[i - 1], list[i], order)]
<1>1. n \in Nat /\ <<>> \in Seq(S) /\ \A i \in 1 .. n : list[i] \in S
  OBVIOUS
<1>2. step \in [(1 .. n) \X Seq(S) -> Seq(S)]
  <2>1. ASSUME NEW e \in (1 .. n) \X Seq(S)
        PROVE  Inserted(e[2], list[e[1]], order) \in Seq(S)
    <3>1. e[1] \in 1 .. n /\ e[2] \in Seq(S)
      OBVIOUS
    <3>. QED
      BY <1>1, <3>1, InsertedIs
  <2>. QED
    BY <2>1
<1>3. PICK f \in [0 .. n -> Seq(S)] :
        f[0] = <<>> /\ \A i \in 1 .. n : f[i] = step[<<i, f[i - 1]>>]
  <2>. HIDE DEF n, step
  <2>1. \E f \in [0 .. n -> Seq(S)] : IsRun(f, n, <<>>, step)
    BY <1>1, <1>2, LoopEnds
  <2>. QED
    BY <2>1 DEF IsRun
<1>4. ASSUME NEW i \in 1 .. n
      PROVE  step[<<i, f[i - 1]>>] = Inserted(f[i - 1], list[i], order)
  <2>1. i - 1 \in 0 .. n
    BY <1>1
  <2>2. <<i, f[i - 1]>> \in (1 .. n) \X Seq(S)
    BY <2>1
  <2>. QED
    BY <2>2
<1>6. \A i \in 0 .. n : f[i] = IF i = 0 THEN <<>>
                               ELSE Inserted(f[i - 1], list[i], order)
  <2>1. \A i \in 0 .. n : i = 0 \/ i \in 1 .. n
    BY <1>1
  <2>. QED
    BY <1>3, <1>4, <2>1
<1>7. f = [i \in 0 .. n |->
             IF i = 0 THEN <<>> ELSE Inserted(f[i - 1], list[i], order)]
  BY <1>6
<1>8. G = [i \in 0 .. n |->
             IF i = 0 THEN <<>> ELSE Inserted(G[i - 1], list[i], order)]
  BY <1>7
<1>9. Sorted(list, order) = G[n]
  BY DEF Sorted
<1>. HIDE DEF G, step
<1>10. \A i \in 0 .. n : G[i] = IF i = 0 THEN <<>>
                                ELSE Inserted(G[i - 1], list[i], order)
  BY <1>8
<1> DEFINE T == {i \in 0 .. n : G[i] = f[i]}
<1>11. 0 \in T
  BY <1>1, <1>3, <1>10
<1>12. ASSUME NEW i \in 1 .. n, i - 1 \in T PROVE i \in T
  BY <1>6, <1>10, <1>12
<1>13. \A i \in 0 .. n : i \in T
  <2>. HIDE DEF T, n
  <2>. QED
    BY <1>1, <1>11, <1>12, Rounds
<1>14. G[n] = f[n]
  BY <1>1, <1>13
<1>. QED
  BY <1>3, <1>4, <1>9, <1>14 DEF IsSort

(* The sort lists the same items in the order asked for. *)
LEMMA SortedIs ==
    ASSUME NEW W \in SUBSET Item, NEW list, Enumerates(list, W),
           NEW order \in {"asc", "desc"}
    PROVE  /\ Enumerates(Sorted(list, order), W)
           /\ ByKey(Sorted(list, order), order)
<1> DEFINE n == Len(list)
<1>1. /\ list \in Seq(W) /\ n \in Nat /\ DOMAIN list = 1 .. n
      /\ \A i \in 1 .. n : list[i] \in W
      /\ \A i, j \in 1 .. n : list[i] = list[j] => i = j
      /\ W = {list[i] : i \in 1 .. n}
  BY DEF Enumerates, IsInjective, ToSet
<1>0. PICK f \in [0 .. n -> Seq(W)] : IsSort(f, list, order)
  BY <1>1, SortRounds
<1>2. /\ f[0] = <<>>
      /\ \A i \in 1 .. n : f[i] = Inserted(f[i - 1], list[i], order)
      /\ Sorted(list, order) = f[n]
  BY <1>0 DEF IsSort
<1> DEFINE Good(i) == /\ IsInjective(f[i]) /\ ByKey(f[i], order)
                      /\ ToSet(f[i]) = {list[j] : j \in 1 .. i}
           T == {i \in 0 .. n : Good(i)}
<1>3. Good(0)
  <2>1. f[0] = <<>> /\ DOMAIN f[0] = {} /\ 1 .. 0 = {}
    BY <1>2
  <2>. QED
    BY <2>1 DEF IsInjective, ByKey, ToSet
<1>4. ASSUME NEW i \in 1 .. n, Good(i - 1) PROVE Good(i)
  <2>1. /\ f[i - 1] \in Seq(W) /\ list[i] \in W
        /\ f[i] = Inserted(f[i - 1], list[i], order)
    BY <1>1, <1>2
  <2>2. list[i] \notin {list[j] : j \in 1 .. i - 1}
    BY <1>1
  <2>3. {list[j] : j \in 1 .. i - 1} \cup {list[i]} = {list[j] : j \in 1 .. i}
    <3>1. \A j : j \in 1 .. i <=> (j \in 1 .. i - 1 \/ j = i)
      BY <1>1
    <3>. QED
      BY <3>1
  <2>4. IsInjective(f[i])
    BY <1>4, <2>1, <2>2, InsertedInjective
  <2>5. ByKey(f[i], order)
    BY <1>4, <2>1, InsertedByKey
  <2>6. ToSet(f[i]) = ToSet(f[i - 1]) \cup {list[i]}
    BY <2>1, InsertedIs
  <2>. QED
    BY <1>4, <2>3, <2>4, <2>5, <2>6
<1>. HIDE DEF Good
<1>5. 0 \in T
  BY <1>1, <1>3
<1>6. \A i \in 1 .. n : i - 1 \in T => i \in T
  BY <1>1, <1>4
<1>7. n \in T
  <2>. HIDE DEF T, n
  <2>1. \A i \in 0 .. n : i \in T
    BY <1>1, <1>5, <1>6, Rounds
  <2>. QED
    BY <1>1, <2>1
<1>8. Good(n) /\ f[n] \in Seq(W)
  BY <1>1, <1>2, <1>7
<1>. QED
  BY <1>1, <1>2, <1>8 DEF Good, Enumerates

(* The sort is stable: it leaves alone what is in ascending order. *)
LEMMA SortedAgain ==
    ASSUME NEW W \in SUBSET Item, NEW list \in Seq(W), ByKey(list, "asc")
    PROVE  Sorted(list, "asc") = list
<1> DEFINE n == Len(list)
<1>1. /\ n \in Nat /\ DOMAIN list = 1 .. n
      /\ \A i \in 1 .. n : list[i] \in W /\ list[i].key \in Nat
      /\ \A i, j \in 1 .. n : i < j => list[i].key <= list[j].key
  BY DEF ByKey, Item
<1>0. PICK f \in [0 .. n -> Seq(W)] : IsSort(f, list, "asc")
  BY <1>1, SortRounds
<1>2. /\ f[0] = <<>>
      /\ \A i \in 1 .. n : f[i] = Inserted(f[i - 1], list[i], "asc")
      /\ Sorted(list, "asc") = f[n]
  BY <1>0 DEF IsSort
<1> DEFINE Good(i) == Len(f[i]) = i /\ \A j \in 1 .. i : f[i][j] = list[j]
           T == {i \in 0 .. n : Good(i)}
<1>3. Good(0)
  BY <1>2
<1>4. ASSUME NEW i \in 1 .. n, Good(i - 1) PROVE Good(i)
  <2>1. /\ f[i - 1] \in Seq(W) /\ list[i] \in W
        /\ f[i] = Inserted(f[i - 1], list[i], "asc")
    BY <1>1, <1>2
  <2>0. PICK p \in 0 .. Len(f[i - 1]) :
          GoesTo(p, f[i - 1], list[i], "asc")
    BY <2>1, InsertedPlaces
  <2>2. /\ HasAt(f[i], f[i - 1], list[i], p)
        /\ \A j \in p + 1 .. Len(f[i - 1]) :
             Before(list[i], f[i - 1][j], "asc")
    BY <2>0, <2>1 DEF GoesTo
  <2>3. ASSUME p # i - 1 PROVE FALSE
    <3>1. i - 1 \in p + 1 .. Len(f[i - 1]) /\ i - 1 \in 1 .. n /\ i - 1 < i
          /\ f[i - 1][i - 1] = list[i - 1]
      BY <1>1, <1>4, <2>3
    <3>2. list[i].key < list[i - 1].key
      BY <2>2, <3>1 DEF Before
    <3>. QED
      BY <1>1, <3>1, <3>2
  <2>4. /\ Len(f[i]) = Len(f[i - 1]) + 1 /\ f[i][(i - 1) + 1] = list[i]
        /\ \A j \in 1 .. i - 1 : f[i][j] = f[i - 1][j]
    BY <2>2, <2>3 DEF HasAt
  <2>5. (i - 1) + 1 = i /\ \A j \in 1 .. i : j \in 1 .. i - 1 \/ j = i
    BY <1>1
  <2>. QED
    BY <1>4, <2>4, <2>5
<1>. HIDE DEF Good
<1>5. 0 \in T
  BY <1>1, <1>3
<1>6. \A i \in 1 .. n : i - 1 \in T => i \in T
  BY <1>1, <1>4
<1>7. n \in T
  <2>. HIDE DEF T, n
  <2>1. \A i \in 0 .. n : i \in T
    BY <1>1, <1>5, <1>6, Rounds
  <2>. QED
    BY <1>1, <2>1
<1>8. f[n] \in Seq(W) /\ Len(f[n]) = n /\ \A j \in 1 .. n : f[n][j] = list[j]
  BY <1>1, <1>2, <1>7 DEF Good
<1>. QED
  BY <1>1, <1>2, <1>8, SeqEqual

(* The search, round by round. *)
IsSearch(f, list) ==
    /\ f[0] = <<>>
    /\ \A i \in 1 .. Len(list) :
         f[i] = IF Matches(list[i]) THEN Append(f[i - 1], list[i])
                                    ELSE f[i - 1]
    /\ Found(list) = f[Len(list)]

LEMMA SearchRounds ==
    ASSUME NEW S, NEW list \in Seq(S)
    PROVE  \E f \in [0 .. Len(list) -> Seq(S)] : IsSearch(f, list)
<1> DEFINE n == Len(list)
           Round(x, i) == IF Matches(list[i]) THEN Append(x, list[i]) ELSE x
           step == [e \in (1 .. n) \X Seq(S) |-> Round(e[2], e[1])]
           G == CHOOSE f : f = [i \in 0 .. n |->
                  IF i = 0 THEN <<>>
                  ELSE IF Matches(list[i]) THEN Append(f[i - 1], list[i])
                  ELSE f[i - 1]]
<1>1. n \in Nat /\ <<>> \in Seq(S) /\ \A i \in 1 .. n : list[i] \in S
  OBVIOUS
<1>2. step \in [(1 .. n) \X Seq(S) -> Seq(S)]
  <2>1. ASSUME NEW e \in (1 .. n) \X Seq(S)
        PROVE  Round(e[2], e[1]) \in Seq(S)
    <3>1. e[1] \in 1 .. n /\ e[2] \in Seq(S)
      OBVIOUS
    <3>. QED
      BY <1>1, <3>1
  <2>. HIDE DEF Round
  <2>. QED
    BY <2>1
<1>3. PICK f \in [0 .. n -> Seq(S)] :
        f[0] = <<>> /\ \A i \in 1 .. n : f[i] = step[<<i, f[i - 1]>>]
  <2>. HIDE DEF n, step
  <2>1. \E f \in [0 .. n -> Seq(S)] : IsRun(f, n, <<>>, step)
    BY <1>1, <1>2, LoopEnds
  <2>. QED
    BY <2>1 DEF IsRun
<1>4. ASSUME NEW i \in 1 .. n
      PROVE  step[<<i, f[i - 1]>>] = Round(f[i - 1], i)
  <2>1. i - 1 \in 0 .. n
    BY <1>1
  <2>2. <<i, f[i - 1]>> \in (1 .. n) \X Seq(S)
    BY <2>1
  <2>. HIDE DEF Round
  <2>. QED
    BY <2>2
<1>5. \A i \in 0 .. n : f[i] = IF i = 0 THEN <<>> ELSE Round(f[i - 1], i)
  <2>1. \A i \in 0 .. n : i = 0 \/ i \in 1 .. n
    BY <1>1
  <2>. HIDE DEF Round
  <2>. QED
    BY <1>3, <1>4, <2>1
<1>6. f = [i \in 0 .. n |-> IF i = 0 THEN <<>> ELSE Round(f[i - 1], i)]
  <2>. HIDE DEF Round
  <2>. QED
    BY <1>5
<1>7. G = [i \in 0 .. n |-> IF i = 0 THEN <<>> ELSE Round(G[i - 1], i)]
  BY <1>6
<1>8. Found(list) = G[n]
  BY DEF Found
<1>. HIDE DEF G, step, Round
<1>9. \A i \in 0 .. n : G[i] = IF i = 0 THEN <<>> ELSE Round(G[i - 1], i)
  BY <1>7
<1> DEFINE T == {i \in 0 .. n : G[i] = f[i]}
<1>10. 0 \in T
  BY <1>1, <1>3, <1>9
<1>11. ASSUME NEW i \in 1 .. n, i - 1 \in T PROVE i \in T
  BY <1>5, <1>9, <1>11
<1>12. G[n] = f[n]
  <2>. HIDE DEF T, n
  <2>1. \A i \in 0 .. n : i \in T
    BY <1>1, <1>10, <1>11, Rounds
  <2>. QED
    BY <1>1, <2>1 DEF T
<1>. QED
  BY <1>3, <1>4, <1>8, <1>12 DEF IsSearch, Round

(* The search finds what matches, each once. *)
LEMMA FoundIs ==
    ASSUME NEW W \in SUBSET Item, NEW list, Enumerates(list, W)
    PROVE  Enumerates(Found(list), {x \in W : x.match})
<1> DEFINE n == Len(list)
           M == {x \in W : x.match}
<1>1. /\ list \in Seq(W) /\ n \in Nat /\ DOMAIN list = 1 .. n
      /\ \A i \in 1 .. n : list[i] \in W
      /\ \A i, j \in 1 .. n : list[i] = list[j] => i = j
      /\ W = {list[i] : i \in 1 .. n}
  BY DEF Enumerates, IsInjective, ToSet
<1>0. PICK f \in [0 .. n -> Seq(W)] : IsSearch(f, list)
  BY <1>1, SearchRounds
<1>2. /\ f[0] = <<>> /\ Found(list) = f[n]
      /\ \A i \in 1 .. n :
           f[i] = IF Matches(list[i]) THEN Append(f[i - 1], list[i])
                                      ELSE f[i - 1]
  BY <1>0 DEF IsSearch
<1> DEFINE Seen(i) == {list[j] : j \in 1 .. i}
           Good(i) == /\ f[i] \in Seq(M) /\ IsInjective(f[i])
                      /\ ToSet(f[i]) = {x \in Seen(i) : x.match}
           T == {i \in 0 .. n : Good(i)}
<1>3. Good(0)
  <2>1. f[0] = <<>> /\ DOMAIN f[0] = {} /\ 1 .. 0 = {}
    BY <1>2
  <2>. QED
    BY <2>1 DEF IsInjective, ToSet
<1>4. ASSUME NEW i \in 1 .. n, Good(i - 1) PROVE Good(i)
  <2>1. /\ f[i - 1] \in Seq(M) /\ list[i] \in W
        /\ f[i] = IF list[i].match THEN Append(f[i - 1], list[i])
                                   ELSE f[i - 1]
    BY <1>1, <1>2, <1>4 DEF Matches
  <2>2. list[i] \notin Seen(i - 1)
    BY <1>1
  <2>3. Seen(i) = Seen(i - 1) \cup {list[i]}
    <3>1. \A j : j \in 1 .. i <=> (j \in 1 .. i - 1 \/ j = i)
      BY <1>1
    <3>. QED
      BY <3>1
  <2>. HIDE DEF Seen
  <2>4. CASE list[i].match
    <3>1. f[i] = Append(f[i - 1], list[i]) /\ list[i] \in M
      BY <2>1, <2>4
    <3> DEFINE old == f[i - 1]
               new == f[i]
    <3>2. /\ new \in Seq(M) /\ Len(new) = Len(old) + 1 /\ Len(old) \in Nat
          /\ \A j \in 1 .. Len(old) : new[j] = old[j]
          /\ new[Len(old) + 1] = list[i]
          /\ DOMAIN old = 1 .. Len(old) /\ DOMAIN new = 1 .. Len(old) + 1
      <4>. HIDE DEF M
      <4>. QED
        BY <2>1, <3>1, AppendProperties
    <3>3. ToSet(old) = {x \in Seen(i - 1) : x.match} /\ IsInjective(old)
      BY <1>4
    <3>. HIDE DEF old, new
    <3>4. \A j \in DOMAIN new : j \in DOMAIN old \/ j = Len(old) + 1
      BY <3>2
    <3>5. ToSet(new) = ToSet(old) \cup {list[i]}
      <4>1. DOMAIN new = DOMAIN old \cup {Len(old) + 1}
        BY <3>2
      <4>2. \A j \in DOMAIN old : new[j] = old[j]
        BY <3>2
      <4>3. \A j \in DOMAIN new : new[j] \in ToSet(old) \cup {list[i]}
        BY <3>2, <4>1, <4>2 DEF ToSet
      <4>4. \A j \in DOMAIN old : old[j] \in ToSet(new)
        BY <4>1, <4>2 DEF ToSet
      <4>5. list[i] \in ToSet(new)
        BY <3>2, <4>1 DEF ToSet
      <4>. QED
        BY <4>3, <4>4, <4>5 DEF ToSet
    <3>6. \A j \in DOMAIN old : old[j] # list[i]
      BY <2>2, <3>3 DEF ToSet
    <3>7. IsInjective(new)
      BY <3>2, <3>3, <3>4, <3>6 DEF IsInjective
    <3>8. ToSet(new) = {x \in Seen(i) : x.match}
      BY <2>3, <2>4, <3>3, <3>5
    <3>. QED
      BY <3>2, <3>7, <3>8 DEF new
  <2>5. CASE ~list[i].match
    <3>1. f[i] = f[i - 1]
      BY <2>1, <2>5
    <3>2. {x \in Seen(i) : x.match} = {x \in Seen(i - 1) : x.match}
      BY <2>3, <2>5
    <3>. QED
      BY <1>4, <3>1, <3>2
  <2>. QED
    BY <2>4, <2>5
<1>. HIDE DEF Good
<1>5. 0 \in T
  BY <1>1, <1>3
<1>6. \A i \in 1 .. n : i - 1 \in T => i \in T
  BY <1>1, <1>4
<1>7. n \in T
  <2>. HIDE DEF T, n
  <2>1. \A i \in 0 .. n : i \in T
    BY <1>1, <1>5, <1>6, Rounds
  <2>. QED
    BY <1>1, <2>1
<1>8. Good(n)
  BY <1>7
<1>. QED
  BY <1>1, <1>2, <1>8 DEF Good, Enumerates

(* The list a page is cut from. *)
LEMMA ArrangedIs ==
    ASSUME NEW W \in SUBSET Item, NEW list, Enumerates(list, W),
           NEW p, p.order \in {"asc", "desc"}
    PROVE  /\ Enumerates(Arranged(list, p), {s \in W : p.query => s.match})
           /\ p.sort => ByKey(Arranged(list, p), p.order)
<1> DEFINE M == {s \in W : p.query => s.match}
<1>1. Enumerates(Filtered(list, p), M)
  <2>1. CASE p.query
    <3>1. M = {s \in W : s.match}
      BY <2>1
    <3>. QED
      BY <2>1, <3>1, FoundIs DEF Filtered
  <2>2. CASE ~p.query
    <3>1. M = W
      BY <2>2
    <3>. QED
      BY <2>2, <3>1 DEF Filtered
  <2>. QED
    BY <2>1, <2>2
<1>2. M \in SUBSET Item
  OBVIOUS
<1>. HIDE DEF M
<1>3. CASE p.sort
  BY <1>1, <1>2, <1>3, SortedIs DEF Arranged, M
<1>4. CASE ~p.sort
  BY <1>1, <1>4 DEF Arranged, M
<1>. QED
  BY <1>3, <1>4 DEF M

(* There is one order by keys that are all different. *)
LEMMA OneOrder ==
    ASSUME NEW W \in SUBSET Item, IsInjective([s \in W |-> s.key]),
           NEW order \in {"asc", "desc"},
           NEW v, Enumerates(v, W), ByKey(v, order),
           NEW w, Enumerates(w, W), ByKey(w, order)
    PROVE  v = w
<1> DEFINE n == Len(v)
<1>1. Len(w) = n /\ n \in Nat
  BY LengthIsCardinality
<1>2. /\ v \in Seq(W) /\ w \in Seq(W)
      /\ DOMAIN v = 1 .. n /\ DOMAIN w = 1 .. n
      /\ \A i \in 1 .. n : v[i] \in W /\ w[i] \in W
      /\ \A i \in 1 .. n : \E j \in 1 .. n : v[i] = w[j]
      /\ \A i \in 1 .. n : \E j \in 1 .. n : w[i] = v[j]
      /\ \A i, j \in 1 .. n : v[i] = v[j] => i = j
      /\ \A i, j \in 1 .. n : w[i] = w[j] => i = j
  <2>1. v \in Seq(W) /\ w \in Seq(W) /\ DOMAIN v = 1 .. n /\ DOMAIN w = 1 .. n
    BY <1>1 DEF Enumerates
  <2>2. ToSet(v) = W /\ ToSet(w) = W /\ IsInjective(v) /\ IsInjective(w)
    BY DEF Enumerates
  <2>3. /\ W = {v[i] : i \in 1 .. n}
        /\ W = {w[i] : i \in 1 .. n}
    BY <2>1, <2>2 DEF ToSet
  <2>4. \A i \in 1 .. n : v[i] \in W /\ w[i] \in W
    BY <2>1
  <2>5. /\ \A x \in W : \E j \in 1 .. n : x = w[j]
        /\ \A x \in W : \E j \in 1 .. n : x = v[j]
    BY <2>3
  <2>6. /\ \A i, j \in 1 .. n : v[i] = v[j] => i = j
        /\ \A i, j \in 1 .. n : w[i] = w[j] => i = j
    BY <2>1, <2>2 DEF IsInjective
  <2>. QED
    BY <2>1, <2>4, <2>5, <2>6
<1>3. \A x, y \in W : x.key \in Nat /\ (x.key = y.key => x = y)
  BY DEF IsInjective, Item
<1> DEFINE Differ == {i \in 1 .. n : v[i] # w[i]}
<1>4. Differ = {}
  <2>1. SUFFICES ASSUME Differ # {} PROVE FALSE
    OBVIOUS
  <2>2. Differ \subseteq Nat
    OBVIOUS
  <2>3. PICK i \in Differ : \A j \in Differ : i <= j
    <3>. HIDE DEF Differ
    <3>. QED
      BY <2>1, <2>2, LeastNumber
  <2>4. i \in 1 .. n /\ v[i] # w[i]
        /\ \A j \in 1 .. n : j < i => v[j] = w[j]
    BY <2>3
  <2>5. PICK j \in 1 .. n : v[i] = w[j]
    BY <1>2, <2>4
  <2>6. PICK k \in 1 .. n : w[i] = v[k]
    BY <1>2, <2>4
  <2>7. j > i
    <3>1. ~(j < i)
      <4>1. j < i => v[j] = v[i]
        BY <2>4, <2>5
      <4>2. v[j] = v[i] => j = i
        BY <1>2, <2>4
      <4>. QED
        BY <1>1, <2>4, <4>1, <4>2
    <3>2. j # i
      BY <2>4, <2>5
    <3>. QED
      BY <1>1, <2>4, <3>1, <3>2
  <2>8. k > i
    <3>1. ~(k < i)
      <4>1. k < i => w[k] = w[i]
        BY <2>4, <2>6
      <4>2. w[k] = w[i] => k = i
        BY <1>2, <2>4
      <4>. QED
        BY <1>1, <2>4, <4>1, <4>2
    <3>2. k # i
      BY <2>4, <2>6
    <3>. QED
      BY <1>1, <2>4, <3>1, <3>2
  <2>9. v[i].key = w[i].key
    <3>1. v[i].key \in Nat /\ w[i].key \in Nat
      BY <1>2, <1>3, <2>4
    <3>2. CASE order = "asc"
      <4>1. w[i].key <= w[j].key /\ v[i].key <= v[k].key
        BY <1>1, <1>2, <2>4, <2>7, <2>8, <3>2 DEF ByKey
      <4>. QED
        BY <2>5, <2>6, <3>1, <4>1
    <3>3. CASE order = "desc"
      <4>1. w[i].key >= w[j].key /\ v[i].key >= v[k].key
        BY <1>1, <1>2, <2>4, <2>7, <2>8, <3>3 DEF ByKey
      <4>. QED
        BY <2>5, <2>6, <3>1, <4>1
    <3>. QED
      BY <3>2, <3>3
  <2>. QED
    BY <1>2, <1>3, <2>4, <2>9
<1>. QED
  BY <1>1, <1>2, <1>4, SeqEqual

(* The two orders in which snapshots of two filesystems come. *)
LEMMA RotationIs ==
    ASSUME NEW W, NEW list, Enumerates(list, W), NEW b \in 0 .. Len(list)
    PROVE  /\ Enumerates(SubSeq(list, b + 1, Len(list))
                            \o SubSeq(list, 1, b), W)
           /\ b = 0 => SubSeq(list, b + 1, Len(list)) \o SubSeq(list, 1, b)
                         = list
<1> DEFINE n == Len(list)
           l == SubSeq(list, b + 1, n)
           r == SubSeq(list, 1, b)
           t == l \o r
           From(j) == IF j <= n - b THEN j + b ELSE j - (n - b)
<1>1. /\ list \in Seq(W) /\ n \in Nat /\ DOMAIN list = 1 .. n
      /\ \A i \in 1 .. n : list[i] \in W
      /\ \A i, j \in 1 .. n : list[i] = list[j] => i = j
      /\ W = {list[i] : i \in 1 .. n}
  BY DEF Enumerates, IsInjective, ToSet
<1>2. /\ l \in Seq(W) /\ Len(l) = n - b
      /\ \A i \in 1 .. n - b : l[i] = list[i + b]
  <2>1. /\ \A i \in b + 1 .. n : list[i] \in W
        /\ b + 1 \in Int /\ n \in Int
    BY <1>1
  <2>2. /\ l \in Seq(W) /\ Len(l) = IF b + 1 <= n THEN n - (b + 1) + 1 ELSE 0
        /\ \A i \in 1 .. n - (b + 1) + 1 : l[i] = list[b + 1 + i - 1]
    <3>. HIDE DEF n
    <3>. QED
      BY <2>1, SubSeqProperties
  <2>3. \A i \in 1 .. n - b :
          i \in 1 .. n - (b + 1) + 1 /\ b + 1 + i - 1 = i + b
    BY <1>1
  <2>. HIDE DEF l
  <2>4. Len(l) = n - b
    <3>0. n \in Nat /\ b \in Nat /\ b <= n
      BY <1>1
    <3>1. (IF b + 1 <= n THEN n - (b + 1) + 1 ELSE 0) = n - b
      <4>. HIDE DEF n
      <4>. QED
        BY <3>0
    <3>2. Len(l) = IF b + 1 <= n THEN n - (b + 1) + 1 ELSE 0
      BY <2>2
    <3>. QED
      BY <3>1, <3>2
  <2>. QED
    BY <2>2, <2>3, <2>4
<1>3. /\ r \in Seq(W) /\ Len(r) = b /\ \A i \in 1 .. b : r[i] = list[i]
  BY <1>1, SubSeqProperties
<1>. HIDE DEF l, r
<1>4. /\ t \in Seq(W) /\ Len(t) = n
      /\ \A j \in 1 .. n : t[j] = IF j <= n - b THEN l[j] ELSE r[j - (n - b)]
  <2>1. /\ t \in Seq(W) /\ Len(t) = Len(l) + Len(r)
        /\ \A j \in 1 .. Len(l) + Len(r) :
             t[j] = IF j <= Len(l) THEN l[j] ELSE r[j - Len(l)]
    BY <1>2, <1>3, ConcatProperties
  <2>2. Len(l) + Len(r) = n
    BY <1>1, <1>2, <1>3
  <2>. QED
    BY <1>2, <2>1, <2>2
<1>5. \A j \in 1 .. n : From(j) \in 1 .. n /\ t[j] = list[From(j)]
  <2>1. \A j \in 1 .. n - b : j \in 1 .. n /\ t[j] = list[j + b]
                              /\ j + b \in 1 .. n
    BY <1>1, <1>2, <1>4
  <2>2. \A j \in n - b + 1 .. n : /\ j \in 1 .. n /\ ~(j <= n - b)
                                  /\ j - (n - b) \in 1 .. b
                                  /\ j - (n - b) \in 1 .. n
    BY <1>1
  <2>3. \A j \in n - b + 1 .. n : t[j] = list[j - (n - b)]
    BY <1>3, <1>4, <2>2
  <2>4. \A j \in 1 .. n : /\ j <= n - b => j \in 1 .. n - b
                          /\ ~(j <= n - b) => j \in n - b + 1 .. n
    BY <1>1
  <2>. QED
    BY <2>1, <2>2, <2>3, <2>4
<1>6. \A i, j \in 1 .. n : From(i) = From(j) => i = j
  BY <1>1
<1>7. \A i \in 1 .. n : \E j \in 1 .. n : From(j) = i
  <2>1. ASSUME NEW i \in 1 .. n PROVE \E j \in 1 .. n : From(j) = i
    <3>1. CASE i <= b
      <4>1. i + (n - b) \in 1 .. n /\ From(i + (n - b)) = i
        BY <1>1, <3>1
      <4>. QED
        BY <4>1
    <3>2. CASE i > b
      <4>1. i - b \in 1 .. n /\ From(i - b) = i
        BY <1>1, <3>2
      <4>. QED
        BY <4>1
    <3>. QED
      BY <1>1, <3>1, <3>2
  <2>. QED
    BY <2>1
<1>. HIDE DEF t, From
<1>8. DOMAIN t = 1 .. n
  BY <1>4
<1>9. IsInjective(t)
  BY <1>1, <1>5, <1>6, <1>8 DEF IsInjective
<1>10. ToSet(t) = W
  BY <1>1, <1>5, <1>7, <1>8 DEF ToSet
<1>11. Enumerates(t, W)
  BY <1>4, <1>9, <1>10 DEF Enumerates
<1>12. ASSUME b = 0 PROVE t = list
  <2>1. \A j \in 1 .. n : From(j) = j
    BY <1>1, <1>12 DEF From
  <2>. QED
    BY <1>1, <1>4, <1>5, <2>1, SeqEqual
<1>. QED
  BY <1>11, <1>12 DEF t, l, r

(***************************************************************************)
(* How many pages there are and where each begins.                         *)
(***************************************************************************)

LEMMA DivisionIs ==
    ASSUME NEW a \in Nat, NEW b \in Nat \ {0}
    PROVE  /\ a \div b \in Nat
           /\ (a \div b) * b <= a
           /\ a < (a \div b) * b + b
  OBVIOUS

LEMMA TimesMonotone ==
    ASSUME NEW a \in Nat, NEW b \in Nat, NEW s \in Nat, a <= b
    PROVE  a * s <= b * s /\ a * s \in Nat
  OBVIOUS

LEMMA PagesAre ==
    ASSUME NEW n \in Nat, NEW size \in Nat \ {0}
    PROVE  /\ TotalPages(n, size) \in Nat \ {0}
           /\ n <= TotalPages(n, size) * size
           /\ \A k \in Nat : k < TotalPages(n, size)
                               => k * size < n \/ k = 0
<1> DEFINE a == n + size - 1
           q == a \div size
           pages == TotalPages(n, size)
<1>1. a \in Nat
  OBVIOUS
<1>2. q \in Nat /\ q * size <= a /\ a < q * size + size
  <2>. HIDE DEF a
  <2>. QED
    BY <1>1, DivisionIs
<1>3. pages = IF 1 >= q THEN 1 ELSE q
  <2>1. TotalPages(n, size) = Max({1, q})
    BY DEF TotalPages
  <2>. HIDE DEF q
  <2>. QED
    BY <1>2, <2>1, MaxOfTwo
<1>. HIDE DEF q, pages
<1>4. q * size \in Nat /\ q * size < n + size /\ n - 1 < q * size
  BY <1>2
<1>5. CASE q = 0
  <2>1. pages = 1 /\ 0 * size = 0 /\ 1 * size = size
    BY <1>3, <1>5
  <2>2. n = 0
    BY <1>4, <1>5, <2>1
  <2>. QED
    BY <2>1, <2>2 DEF pages
<1>6. CASE q # 0
  <2>1. pages = q
    BY <1>2, <1>3, <1>6
  <2>2. ASSUME NEW k \in Nat, k < q PROVE k * size < n
    <3>1. (k + 1) * size <= q * size /\ k * size \in Nat
      BY <1>2, <2>2, TimesMonotone
    <3>2. (k + 1) * size = k * size + size
      OBVIOUS
    <3>. QED
      BY <1>4, <3>1, <3>2
  <2>. QED
    BY <1>2, <1>4, <1>6, <2>1, <2>2 DEF pages
<1>. QED
  BY <1>5, <1>6

(* The number of the page p gets of n items, and the items it ranges over. *)
NumberOf(n, p) == Min({p.page, TotalPages(n, p.pageSize)})
StartOf(n, p)  == Min({(NumberOf(n, p) - 1) * p.pageSize, n})
EndOf(n, p)    == Min({StartOf(n, p) + p.pageSize, n})

LEMMA PageRange ==
    ASSUME NEW n \in Nat, NEW p, p.page \in Nat \ {0},
           p.pageSize \in Nat \ {0}
    PROVE  /\ NumberOf(n, p) \in 1 .. TotalPages(n, p.pageSize)
           /\ p.page <= TotalPages(n, p.pageSize) => NumberOf(n, p) = p.page
           /\ StartOf(n, p) = (NumberOf(n, p) - 1) * p.pageSize
           /\ StartOf(n, p) \in 0 .. n
           /\ EndOf(n, p) \in StartOf(n, p) .. n
           /\ EndOf(n, p) <= StartOf(n, p) + p.pageSize
           /\ StartOf(n, p) = EndOf(n, p) => n = 0
           /\ NumberOf(n, p) < TotalPages(n, p.pageSize)
                <=> NumberOf(n, p) * p.pageSize < n
           /\ NumberOf(n, p) < TotalPages(n, p.pageSize)
                => EndOf(n, p) = NumberOf(n, p) * p.pageSize
           /\ NumberOf(n, p) = TotalPages(n, p.pageSize) => EndOf(n, p) = n
<1> DEFINE size   == p.pageSize
           pages  == TotalPages(n, p.pageSize)
           number == NumberOf(n, p)
           start  == StartOf(n, p)
           end    == EndOf(n, p)
           before == (number - 1) * size
           upto   == number * size
<1>1. /\ pages \in Nat \ {0} /\ n <= pages * size
      /\ \A k \in Nat : k < pages => k * size < n \/ k = 0
      /\ size \in Nat \ {0}
  BY PagesAre
<1>2. number \in 1 .. pages /\ (p.page <= pages => number = p.page)
  <2>1. number = IF p.page <= pages THEN p.page ELSE pages
    <3>1. NumberOf(n, p) = Min({p.page, pages})
      BY DEF NumberOf
    <3>. HIDE DEF pages
    <3>. QED
      BY <1>1, <3>1, MinOfTwo
  <2>. HIDE DEF number, pages
  <2>. QED
    BY <1>1, <2>1
<1>3. before \in Nat /\ (before < n \/ before = 0) /\ before <= n
  <2>. HIDE DEF number, pages, size
  <2>1. number - 1 \in Nat /\ number - 1 < pages
    BY <1>1, <1>2
  <2>2. before \in Nat
    BY <1>1, <2>1, TimesMonotone
  <2>3. before < n \/ before = 0
    <3>1. number - 1 = 0 => before = 0
      BY <1>1
    <3>. QED
      BY <1>1, <2>1, <3>1
  <2>. QED
    BY <2>2, <2>3
<1>4. start = before
  <2>1. start = Min({before, n})
    BY DEF StartOf
  <2>. HIDE DEF before, start
  <2>. QED
    BY <1>3, <2>1, MinOfTwo
<1>5. upto = before + size /\ upto \in Nat
  <2>. HIDE DEF number, pages, size
  <2>. QED
    BY <1>1, <1>2
<1>6. end = IF upto <= n THEN upto ELSE n
  <2>1. end = Min({start + size, n})
    BY DEF EndOf
  <2>. HIDE DEF before, start, end, upto, size
  <2>. QED
    BY <1>1, <1>3, <1>4, <1>5, <2>1, MinOfTwo
<1>7. number < pages <=> upto < n
  <2>. HIDE DEF number, pages, size
  <2>1. number < pages => upto < n
    BY <1>1, <1>2
  <2>2. number = pages => ~(upto < n)
    BY <1>1, <1>2
  <2>. QED
    BY <1>2, <1>1, <2>1, <2>2
<1>. HIDE DEF size, pages, number, start, end, before, upto
<1>8. /\ start \in 0 .. n /\ end \in start .. n /\ end <= start + size
      /\ (start = end => n = 0)
      /\ (number < pages => end = upto)
      /\ (number = pages => end = n)
  BY <1>1, <1>2, <1>3, <1>4, <1>5, <1>6, <1>7
<1>. QED
  BY <1>2, <1>4, <1>7, <1>8
     DEF size, pages, number, start, end, before, upto

LEMMA PageFields ==
    ASSUME NEW v, NEW p
    PROVE  /\ PageOf(v, p).items
                = SubSeq(v, StartOf(Len(v), p) + 1, EndOf(Len(v), p))
           /\ PageOf(v, p).number = NumberOf(Len(v), p)
           /\ PageOf(v, p).totalItems = Len(v)
           /\ PageOf(v, p).totalPages = TotalPages(Len(v), p.pageSize)
           /\ PageOf(v, p).hasPrev = (NumberOf(Len(v), p) > 1)
           /\ PageOf(v, p).hasNext
                = (NumberOf(Len(v), p) < TotalPages(Len(v), p.pageSize))
  BY DEF PageOf, NumberOf, StartOf, EndOf

(* What a page of a list has on it. *)
LEMMA PageItems ==
    ASSUME NEW S, NEW v \in Seq(S), NEW p, p.page \in Nat \ {0},
           p.pageSize \in Nat \ {0}
    PROVE  /\ PageOf(v, p).items \in Seq(S)
           /\ Len(PageOf(v, p).items)
                = EndOf(Len(v), p) - StartOf(Len(v), p)
           /\ \A i \in 1 .. EndOf(Len(v), p) - StartOf(Len(v), p) :
                PageOf(v, p).items[i] = v[StartOf(Len(v), p) + i]
<1> DEFINE n == Len(v)
           start == StartOf(n, p)
           end   == EndOf(n, p)
           items == PageOf(v, p).items
<1>1. n \in Nat /\ \A i \in 1 .. n : v[i] \in S
  OBVIOUS
<1>2. start \in 0 .. n /\ end \in start .. n
  BY <1>1, PageRange
<1>3. items = SubSeq(v, start + 1, end)
  BY PageFields
<1>. HIDE DEF n, start, end, items
<1>4. /\ start + 1 \in Int /\ end \in Int
      /\ \A i \in start + 1 .. end : v[i] \in S
  BY <1>1, <1>2
<1>5. /\ items \in Seq(S)
      /\ Len(items) = IF start + 1 <= end THEN end - (start + 1) + 1 ELSE 0
      /\ \A i \in 1 .. end - (start + 1) + 1 :
           items[i] = v[(start + 1) + i - 1]
  BY <1>3, <1>4, SubSeqProperties
<1>6. Len(items) = end - start
  <2>1. (IF start + 1 <= end THEN end - (start + 1) + 1 ELSE 0) = end - start
    BY <1>1, <1>2
  <2>. QED
    BY <1>5, <2>1
<1>7. \A i \in 1 .. end - start : items[i] = v[start + i]
  <2>1. \A i \in 1 .. end - start :
          i \in 1 .. end - (start + 1) + 1 /\ (start + 1) + i - 1 = start + i
    BY <1>1, <1>2
  <2>. QED
    BY <1>5, <2>1
<1>. QED
  BY <1>5, <1>6, <1>7 DEF n, start, end, items

(***************************************************************************)
(* The inductive invariant.                                                *)
(***************************************************************************)

WantedOf(p) == {s \in ToSet(source) : p.query => s.match}

DeterminedFor(p) ==
    \/ ~kept /\ border = 0
    \/ p.sort /\ IsInjective([s \in WantedOf(p) |-> s.key])
    \/ kept /\ (p.sort => p.query \/ p.order = "asc")

AtPage(p, k) == [p EXCEPT !.page = k]

(* The page shown is a window on a list of what is wanted, in the order    *)
(* asked for; where the order is determined, it and all that were walked   *)
(* are windows on the one list that any list supplied now gives.           *)
ListsInv ==
    /\ source \in Lists /\ kept \in BOOLEAN
    /\ Enumerates(slice, ToSet(source)) /\ border \in 0 .. Len(source)
    /\ border \in 0 .. MaxItems - 1
    /\ request \in Params

PageInv ==
    \E v : /\ Enumerates(v, WantedOf(request))
           /\ request.sort => ByKey(v, request.order)
           /\ page = PageOf(v, request)

WalkInv ==
    /\ walk \in Seq(Seq(ToSet(source)))
    /\ walk # <<>> => Len(walk) = page.number
    /\ DeterminedFor(request) => \A list \in Supplied :
         /\ page = Paginate(list, request)
         /\ \A k \in DOMAIN walk :
              walk[k] = Paginate(list, AtPage(request, k)).items

PaginationInv == ListsInv /\ PageInv /\ WalkInv

LEMMA ListsAre ==
    ASSUME NEW list \in Lists
    PROVE  /\ list \in Seq(Item) /\ IsInjective(list)
           /\ Enumerates(list, ToSet(list)) /\ ToSet(list) \in SUBSET Item
           /\ Len(list) \in 0 .. MaxItems
<1>1. PICK l \in BoundedSeq(Keys \X BOOLEAN, MaxItems) :
        list = [i \in DOMAIN l |->
                  [place |-> i, key |-> l[i][1], match |-> l[i][2]]]
  BY DEF Lists
<1>2. PICK n \in 0 .. MaxItems : l \in [1 .. n -> Keys \X BOOLEAN]
  BY <1>1 DEF BoundedSeq, SeqOf
<1>3. MaxItems \in Nat /\ Keys \subseteq Nat
  BY PaginationAssumption
<1>4. ASSUME NEW i \in 1 .. n
      PROVE  list[i] \in Item /\ list[i].place = i
  <2>1. l[i] \in Keys \X BOOLEAN
    BY <1>2
  <2>2. l[i][1] \in Nat /\ l[i][2] \in BOOLEAN
    BY <1>3, <2>1
  <2>3. list[i] = [place |-> i, key |-> l[i][1], match |-> l[i][2]]
    BY <1>1, <1>2
  <2>4. i \in Nat
    BY <1>2
  <2>. QED
    BY <2>2, <2>3, <2>4 DEF Item
<1>5. DOMAIN list = 1 .. n /\ n \in Nat
  BY <1>1, <1>2, <1>3
<1>6. list = [i \in 1 .. n |-> list[i]]
  BY <1>1, <1>2
<1>7. list \in [1 .. n -> Item]
  BY <1>4, <1>6
<1>8. list \in Seq(Item) /\ Len(list) = n
  BY <1>5, <1>7
<1>9. IsInjective(list)
  BY <1>4, <1>5 DEF IsInjective
<1>10. list \in Seq(ToSet(list)) /\ ToSet(list) \in SUBSET Item
  <2>1. \A i \in 1 .. n : list[i] \in ToSet(list)
    BY <1>5 DEF ToSet
  <2>2. list \in [1 .. n -> ToSet(list)]
    BY <1>6, <2>1
  <2>3. ToSet(list) \subseteq Item
    BY <1>4, <1>5 DEF ToSet
  <2>. QED
    BY <1>5, <2>2, <2>3
<1>. QED
  BY <1>2, <1>8, <1>9, <1>10 DEF Enumerates

(* Whatever list is supplied, it has the items of the source. *)
LEMMA SuppliedAre ==
    ASSUME ListsInv, NEW list \in Supplied
    PROVE  /\ Enumerates(list, ToSet(source)) /\ ToSet(source) \in SUBSET Item
           /\ ~kept /\ border = 0 => list = source
           /\ kept => list = slice
<1>1. ToSet(source) \in SUBSET Item /\ Enumerates(source, ToSet(source))
  BY ListsAre DEF ListsInv
<1>2. CASE kept
  BY <1>1, <1>2 DEF Supplied, ListsInv
<1>3. CASE ~kept
  <2>1. border \in 0 .. Len(source)
    BY DEF ListsInv
  <2>2. \/ list = source
        \/ list = SubSeq(source, border + 1, Len(source))
                    \o SubSeq(source, 1, border)
    BY <1>3 DEF Supplied
  <2>. QED
    BY <1>1, <1>3, <2>1, <2>2, RotationIs
<1>. QED
  BY <1>2, <1>3

LEMMA SomeSupplied == Supplied # {}
  BY DEF Supplied

LEMMA OrdersAre ==
    ASSUME NEW p \in Params
    PROVE  /\ p.order \in {"asc", "desc"} /\ p.page \in Nat \ {0}
           /\ p.pageSize \in Nat \ {0} /\ p.pageSize <= MaxPageSize
           /\ MaxPageSize \in Nat
<1>1. /\ p.order \in Orders /\ p.page \in Nat \ {0}
      /\ p.pageSize \in MinPageSize .. MaxPageSize
  BY DEF Params
<1>2. Orders \subseteq {"asc", "desc"}
  BY PaginationAssumption
<1>3. MinPageSize \in Nat \ {0} /\ MaxPageSize \in Nat
  BY PaginationAssumption
<1>4. \A x \in MinPageSize .. MaxPageSize : x \in Nat \ {0} /\ x <= MaxPageSize
  BY <1>3
<1>. QED
  BY <1>1, <1>2, <1>3, <1>4

(* What Show does, before anything is said about the order. *)
LEMMA ArrangedSupplied ==
    ASSUME ListsInv, NEW p \in Params, NEW list \in Supplied
    PROVE  /\ Enumerates(Arranged(list, p), WantedOf(p))
           /\ p.sort => ByKey(Arranged(list, p), p.order)
  BY SuppliedAre, ArrangedIs, OrdersAre DEF WantedOf

LEMMA ShowKeepsLists ==
    ASSUME ListsInv, NEW p \in Params, Show(p)
    PROVE  ListsInv' /\ PageInv' /\ WantedOf(request)' = WantedOf(p)
<1>1. PICK list \in Supplied :
        /\ request' = p /\ page' = Paginate(list, p)
        /\ slice' = IF p.sort /\ ~p.query THEN Sorted(list, p.order) ELSE list
        /\ UNCHANGED <<kept, border, source>>
  BY DEF Show
<1>2. Enumerates(list, ToSet(source)) /\ ToSet(source) \in SUBSET Item
  BY SuppliedAre
<1>3. Enumerates(slice', ToSet(source))
  BY <1>1, <1>2, OrdersAre, SortedIs
<1>4. ListsInv'
  BY <1>1, <1>3 DEF ListsInv
<1>5. WantedOf(request)' = WantedOf(p)
  BY <1>1 DEF WantedOf
<1> DEFINE v == Arranged(list, p)
<1>6. Enumerates(v, WantedOf(p)) /\ (p.sort => ByKey(v, p.order))
  BY ArrangedSupplied
<1>7. page' = PageOf(v, p)
  BY <1>1 DEF Paginate
<1>8. PageInv'
  <2>. HIDE DEF v
  <2>. QED
    BY <1>1, <1>5, <1>6, <1>7 DEF PageInv
<1>. QED
  BY <1>4, <1>5, <1>8

(* Where the order is determined, a request gets the same of every list    *)
(* that may be supplied to it or afterwards.                               *)
LEMMA SameView ==
    ASSUME ListsInv, NEW p \in Params, DeterminedFor(p),
           NEW list \in Supplied, NEW other \in Supplied
    PROVE  Arranged(list, p) = Arranged(other, p)
<1>1. CASE ~kept /\ border = 0
  BY <1>1, SuppliedAre
<1>2. CASE p.sort /\ IsInjective([s \in WantedOf(p) |-> s.key])
  <2>1. WantedOf(p) \in SUBSET Item
    BY SuppliedAre DEF WantedOf
  <2>. QED
    BY <1>2, <2>1, ArrangedSupplied, OrdersAre, OneOrder
<1>3. CASE kept
  BY <1>3, SuppliedAre
<1>. QED
  BY <1>1, <1>2, <1>3 DEF DeterminedFor

LEMMA SameViewAfterwards ==
    ASSUME ListsInv, NEW p \in Params, DeterminedFor(p), Show(p),
           NEW list \in Supplied, NEW other \in Supplied'
    PROVE  Arranged(other, p) = Arranged(list, p)
<1>1. PICK l \in Supplied :
        /\ slice' = IF p.sort /\ ~p.query THEN Sorted(l, p.order) ELSE l
        /\ UNCHANGED <<kept, border, source>>
  BY DEF Show
<1>2. CASE ~kept
  <2>1. other \in Supplied
    BY <1>1, <1>2 DEF Supplied
  <2>. QED
    BY <2>1, SameView
<1>3. CASE kept
  <2>1. l = slice /\ list = slice /\ other = slice'
    <3>1. kept'
      BY <1>1, <1>3
    <3>. QED
      BY <1>3, <3>1, SuppliedAre DEF Supplied
  <2>2. CASE ~(p.sort /\ ~p.query)
    BY <1>1, <2>1, <2>2
  <2>3. CASE p.sort /\ ~p.query
    <3>1. /\ slice' = Sorted(slice, p.order)
          /\ Arranged(slice, p) = Sorted(slice, p.order)
          /\ Arranged(slice', p) = Sorted(slice', p.order)
      BY <1>1, <2>1, <2>3 DEF Arranged, Filtered
    <3>2. /\ Enumerates(slice', ToSet(source))
          /\ ByKey(slice', p.order) /\ ToSet(source) \in SUBSET Item
      BY <2>1, <3>1, SuppliedAre, OrdersAre, SortedIs
    <3>3. CASE p.order = "asc"
      <4>1. slice' \in Seq(ToSet(source))
        BY <3>2 DEF Enumerates
      <4>2. Sorted(slice', "asc") = slice'
        BY <3>2, <3>3, <4>1, SortedAgain
      <4>. QED
        BY <2>1, <3>1, <3>3, <4>2
    <3>4. CASE p.order # "asc"
      <4>1. IsInjective([s \in WantedOf(p) |-> s.key])
        BY <1>3, <2>3, <3>4 DEF DeterminedFor
      <4>2. WantedOf(p) = ToSet(source)
        BY <2>3 DEF WantedOf
      <4>3. /\ Enumerates(Sorted(slice', p.order), ToSet(source))
            /\ ByKey(Sorted(slice', p.order), p.order)
        BY <3>2, OrdersAre, SortedIs
      <4>4. Sorted(slice', p.order) = slice'
        BY <3>2, <4>1, <4>2, <4>3, OrdersAre, OneOrder
      <4>. QED
        BY <2>1, <3>1, <4>4
    <3>. QED
      BY <3>3, <3>4
  <2>. QED
    BY <2>2, <2>3
<1>. QED
  BY <1>2, <1>3

LEMMA ParsedAre ==
    ASSUME NEW number \in RawNumbers, NEW size \in RawNumbers,
           NEW query \in BOOLEAN, NEW sort \in BOOLEAN, NEW order \in Orders
    PROVE  ParsePaginationParams(number, size, query, sort, order) \in Params
<1>1. /\ number \in Nat /\ size \in Nat /\ MinPageSize \in Nat \ {0}
      /\ MaxPageSize \in Nat /\ DefaultPageSize \in MinPageSize .. MaxPageSize
  BY PaginationAssumption
<1> DEFINE n == IF number < 1 THEN 1 ELSE number
           s == IF size < MinPageSize THEN DefaultPageSize
                ELSE IF size > MaxPageSize THEN MaxPageSize ELSE size
<1>2. n \in Nat \ {0}
  BY <1>1
<1>3. s \in MinPageSize .. MaxPageSize
  BY <1>1
<1>4. ParsePaginationParams(number, size, query, sort, order)
        = [page |-> n, pageSize |-> s, query |-> query, sort |-> sort,
           order |-> order]
  BY DEF ParsePaginationParams
<1>. HIDE DEF n, s
<1>. QED
  BY <1>2, <1>3, <1>4 DEF Params

LEMMA AtPageIs ==
    ASSUME NEW p \in Params, NEW k \in Nat \ {0}
    PROVE  /\ AtPage(p, k) \in Params /\ AtPage(p, k).page = k
           /\ AtPage(p, k).pageSize = p.pageSize
           /\ AtPage(p, k).order = p.order
           /\ AtPage(p, k).query = p.query /\ AtPage(p, k).sort = p.sort
           /\ AtPage(p, p.page) = p
           /\ \A j : AtPage(AtPage(p, k), j) = AtPage(p, j)
<1>1. p = [page |-> p.page, pageSize |-> p.pageSize, query |-> p.query,
           sort |-> p.sort, order |-> p.order]
  BY DEF Params
<1>2. \A j : AtPage(p, j) = [page |-> j, pageSize |-> p.pageSize,
             query |-> p.query, sort |-> p.sort, order |-> p.order]
  BY <1>1 DEF AtPage
<1>3. /\ p.pageSize \in MinPageSize .. MaxPageSize /\ p.query \in BOOLEAN
      /\ p.sort \in BOOLEAN /\ p.order \in Orders
  BY DEF Params
<1>4. AtPage(p, k) \in Params
  BY <1>2, <1>3 DEF Params
<1>5. \A j : AtPage(AtPage(p, k), j) = AtPage(p, j)
  BY <1>2 DEF AtPage
<1>6. AtPage(p, p.page) = p
  BY <1>1, <1>2
<1>. QED
  BY <1>2, <1>4, <1>5, <1>6

(* Turning pages changes nothing but the page. *)
LEMMA SameButPage ==
    ASSUME NEW p \in Params, NEW k \in Nat \ {0}
    PROVE  /\ WantedOf(AtPage(p, k)) = WantedOf(p)
           /\ DeterminedFor(AtPage(p, k)) <=> DeterminedFor(p)
           /\ \A list : Arranged(list, AtPage(p, k)) = Arranged(list, p)
<1> DEFINE q == AtPage(p, k)
<1>1. q.order = p.order /\ q.query = p.query /\ q.sort = p.sort
  BY AtPageIs
<1>. HIDE DEF q
<1>2. WantedOf(q) = WantedOf(p)
  BY <1>1 DEF WantedOf
<1>3. DeterminedFor(q) <=> DeterminedFor(p)
  BY <1>1, <1>2 DEF DeterminedFor
<1>4. \A list : Arranged(list, q) = Arranged(list, p)
  BY <1>1 DEF Arranged, Filtered
<1>. QED
  BY <1>2, <1>3, <1>4 DEF q

(* The page of a list that has each of W once. *)
LEMMA PageFacts ==
    ASSUME NEW W, NEW v, Enumerates(v, W), NEW p \in Params
    PROVE  /\ Cardinality(W) \in Nat /\ Len(v) = Cardinality(W)
           /\ PageOf(v, p).number = NumberOf(Cardinality(W), p)
           /\ PageOf(v, p).number
                \in 1 .. TotalPages(Cardinality(W), p.pageSize)
           /\ TotalPages(Cardinality(W), p.pageSize) \in Nat \ {0}
           /\ p.page <= TotalPages(Cardinality(W), p.pageSize)
                => PageOf(v, p).number = p.page
           /\ PageOf(v, p).items \in Seq(W)
<1>1. Cardinality(W) \in Nat /\ Len(v) = Cardinality(W) /\ v \in Seq(W)
  BY LengthIsCardinality DEF Enumerates
<1>2. p.page \in Nat \ {0} /\ p.pageSize \in Nat \ {0}
  BY OrdersAre
<1>3. PageOf(v, p).number = NumberOf(Cardinality(W), p)
  BY <1>1, PageFields
<1>4. PageOf(v, p).items \in Seq(W)
  BY <1>1, <1>2, PageItems
<1> DEFINE c == Cardinality(W)
<1>5. c \in Nat
  BY <1>1
<1>. HIDE DEF c
<1>6. /\ NumberOf(c, p) \in 1 .. TotalPages(c, p.pageSize)
      /\ p.page <= TotalPages(c, p.pageSize) => NumberOf(c, p) = p.page
  BY <1>2, <1>5, PageRange
<1>7. TotalPages(c, p.pageSize) \in Nat \ {0}
  BY <1>2, <1>5, PagesAre
<1>. QED
  BY <1>1, <1>3, <1>4, <1>6, <1>7 DEF c

LEMMA SameNumber ==
    ASSUME NEW v, NEW p, NEW q, p.pageSize = q.pageSize,
           NumberOf(Len(v), p) = NumberOf(Len(v), q)
    PROVE  PageOf(v, p).items = PageOf(v, q).items
<1>1. StartOf(Len(v), p) = StartOf(Len(v), q)
  BY DEF StartOf
<1>2. EndOf(Len(v), p) = EndOf(Len(v), q)
  BY <1>1 DEF EndOf
<1>. QED
  BY <1>1, <1>2, PageFields

(* A request's page, its items and, where the order is determined, what    *)
(* later lists give.                                                       *)
LEMMA ShowIs ==
    ASSUME ListsInv, NEW p \in Params, Show(p)
    PROVE  /\ \E v : Enumerates(v, WantedOf(p)) /\ page' = PageOf(v, p)
           /\ page'.items \in Seq(ToSet(source))
           /\ DeterminedFor(p) =>
                \A other \in Supplied' : page' = Paginate(other, p)
           /\ DeterminedFor(request)' <=> DeterminedFor(p)
           /\ ToSet(source)' = ToSet(source) /\ request' = p
<1>1. PICK list \in Supplied :
        /\ request' = p /\ page' = Paginate(list, p)
        /\ UNCHANGED <<kept, border, source>>
  BY DEF Show
<1>2. Enumerates(Arranged(list, p), WantedOf(p))
  BY ArrangedSupplied
<1>3. page' = PageOf(Arranged(list, p), p)
  BY <1>1 DEF Paginate
<1>4. page'.items \in Seq(WantedOf(p))
  BY <1>2, <1>3, PageFacts
<1>5. WantedOf(p) \subseteq ToSet(source)
  BY DEF WantedOf
<1>6. page'.items \in Seq(ToSet(source))
  BY <1>4, <1>5
<1>7. ASSUME DeterminedFor(p), NEW other \in Supplied'
      PROVE  page' = Paginate(other, p)
  <2>1. Arranged(other, p) = Arranged(list, p)
    BY <1>7, SameViewAfterwards
  <2>. QED
    BY <1>3, <2>1 DEF Paginate
<1>8. DeterminedFor(request)' <=> DeterminedFor(p)
  BY <1>1 DEF DeterminedFor, WantedOf
<1>. QED
  BY <1>1, <1>2, <1>3, <1>6, <1>7, <1>8

LEMMA OpenWalks ==
    ASSUME PaginationInv, Open
    PROVE  PaginationInv'
<1>1. PICK number \in RawNumbers, size \in RawNumbers, query \in BOOLEAN,
           sort \in BOOLEAN, order \in Orders :
        /\ Show(ParsePaginationParams(number, size, query, sort, order))
        /\ walk' = IF page'.number = 1 THEN <<page'.items>> ELSE <<>>
  BY DEF Open
<1> DEFINE p == ParsePaginationParams(number, size, query, sort, order)
<1>2. p \in Params /\ Show(p)
  BY <1>1, ParsedAre
<1>. HIDE DEF p
<1>3. ListsInv' /\ PageInv'
  BY <1>2, ShowKeepsLists DEF PaginationInv
<1>4. /\ page'.items \in Seq(ToSet(source))
      /\ DeterminedFor(p) =>
           \A other \in Supplied' : page' = Paginate(other, p)
      /\ DeterminedFor(request)' <=> DeterminedFor(p)
      /\ ToSet(source)' = ToSet(source) /\ request' = p
  BY <1>2, ShowIs DEF PaginationInv
<1>5. CASE page'.number = 1
  <2>1. walk' = <<page'.items>>
    BY <1>1, <1>5
  <2>2. /\ walk' \in Seq(Seq(ToSet(source))) /\ Len(walk') = 1
        /\ DOMAIN walk' = {1} /\ walk'[1] = page'.items
    BY <1>4, <2>1
  <2>3. ASSUME DeterminedFor(p), NEW other \in Supplied'
        PROVE  page'.items = Paginate(other, AtPage(p, 1)).items
    <3> DEFINE w == Arranged(other, p)
               n == Len(w)
    <3>1. page' = PageOf(w, p)
      BY <1>4, <2>3 DEF Paginate
    <3>2. Paginate(other, AtPage(p, 1)) = PageOf(w, AtPage(p, 1))
      BY <1>2, SameButPage DEF Paginate
    <3>3. NumberOf(n, p) = 1
      BY <1>5, <3>1, PageFields
    <3>4. AtPage(p, 1).pageSize = p.pageSize /\ AtPage(p, 1).page = 1
      BY <1>2, AtPageIs
    <3>5. n \in Nat
      <4>1. ListsInv' /\ p \in Params /\ other \in Supplied'
        BY <1>2, <1>3, <2>3
      <4>2. PICK list \in Supplied : TRUE
        BY SomeSupplied
      <4>3. w = Arranged(list, p)
        BY <1>2, <2>3, SameViewAfterwards DEF PaginationInv
      <4>4. Enumerates(w, WantedOf(p))
        BY <1>2, <4>3, ArrangedSupplied DEF PaginationInv
      <4>. QED
        BY <4>4, LengthIsCardinality
    <3>6. TotalPages(n, p.pageSize) \in Nat \ {0}
      BY <1>2, <3>5, PagesAre, OrdersAre
    <3>7. NumberOf(n, AtPage(p, 1)) = 1
      <4> DEFINE t == TotalPages(n, p.pageSize)
      <4>1. NumberOf(n, AtPage(p, 1)) = Min({1, t})
        BY <3>4 DEF NumberOf
      <4>2. t \in Nat \ {0}
        BY <3>6
      <4>. HIDE DEF t
      <4>. QED
        BY <4>1, <4>2, MinOfTwo
    <3>. QED
      BY <3>1, <3>2, <3>3, <3>4, <3>7, SameNumber
  <2>. QED
    BY <1>3, <1>4, <1>5, <2>2, <2>3 DEF PaginationInv, WalkInv
<1>6. CASE page'.number # 1
  <2>1. walk' = <<>> /\ DOMAIN walk' = {}
    BY <1>1, <1>6
  <2>. QED
    BY <1>3, <1>4, <2>1 DEF PaginationInv, WalkInv
<1>. QED
  BY <1>5, <1>6

(* Turning to page m of the pages there are. *)
LEMMA TurnIs ==
    ASSUME PaginationInv, NEW m \in Nat \ {0}, Show(AtPage(request, m)),
           m <= page.totalPages
    PROVE  /\ ListsInv' /\ PageInv' /\ page'.number = m
           /\ page'.items \in Seq(ToSet(source))
           /\ request' = AtPage(request, m) /\ ToSet(source)' = ToSet(source)
           /\ DeterminedFor(request)' <=> DeterminedFor(request)
           /\ DeterminedFor(request) => \A other \in Supplied' :
                /\ page' = Paginate(other, AtPage(request, m))
                /\ \A k \in DOMAIN walk :
                     walk[k] = Paginate(other, AtPage(request', k)).items
<1> DEFINE p == AtPage(request, m)
<1>1. request \in Params /\ p \in Params /\ Show(p) /\ ListsInv
  BY AtPageIs DEF PaginationInv, ListsInv
<1>2. /\ p.page = m /\ p.pageSize = request.pageSize
      /\ WantedOf(p) = WantedOf(request)
      /\ DeterminedFor(p) <=> DeterminedFor(request)
      /\ \A list : Arranged(list, p) = Arranged(list, request)
      /\ \A j : AtPage(p, j) = AtPage(request, j)
  BY <1>1, SameButPage, AtPageIs
<1>. HIDE DEF p
<1>3. ListsInv' /\ PageInv'
  BY <1>1, ShowKeepsLists
<1>4. /\ page'.items \in Seq(ToSet(source))
      /\ DeterminedFor(p) =>
           \A other \in Supplied' : page' = Paginate(other, p)
      /\ DeterminedFor(request)' <=> DeterminedFor(p)
      /\ ToSet(source)' = ToSet(source) /\ request' = p
  BY <1>1, ShowIs
<1>5. page'.number = m
  <2> DEFINE c == Cardinality(WantedOf(request))
  <2>1. PICK v : Enumerates(v, WantedOf(request)) /\ page = PageOf(v, request)
    BY DEF PaginationInv, PageInv
  <2>2. page.totalPages = TotalPages(c, request.pageSize)
    BY <2>1, PageFields, LengthIsCardinality
  <2>3. PICK w : Enumerates(w, WantedOf(p)) /\ page' = PageOf(w, p)
    BY <1>1, ShowIs
  <2>4. p.page <= TotalPages(c, p.pageSize) => PageOf(w, p).number = p.page
    BY <1>1, <1>2, <2>3, PageFacts
  <2>. QED
    BY <1>2, <2>2, <2>3, <2>4
<1>6. ASSUME DeterminedFor(request), NEW other \in Supplied',
             NEW k \in DOMAIN walk
      PROVE  walk[k] = Paginate(other, AtPage(p, k)).items
  <2>1. PICK list \in Supplied : TRUE
    BY SomeSupplied
  <2>2. walk[k] = Paginate(list, AtPage(request, k)).items
    BY <1>6, <2>1 DEF PaginationInv, WalkInv
  <2>3. Arranged(other, p) = Arranged(list, p)
    BY <1>1, <1>2, <1>6, SameViewAfterwards
  <2>4. k \in Nat \ {0}
    BY <1>6 DEF PaginationInv, WalkInv
  <2>5. /\ Arranged(other, AtPage(p, k)) = Arranged(other, p)
        /\ Arranged(list, AtPage(p, k)) = Arranged(list, p)
    BY <1>1, <2>4, SameButPage
  <2>. QED
    BY <1>2, <2>2, <2>3, <2>5 DEF Paginate
<1>. QED
  BY <1>2, <1>3, <1>4, <1>5, <1>6 DEF p

LEMMA NumberIs ==
    ASSUME ListsInv, PageInv
    PROVE  /\ page.number \in 1 .. page.totalPages
           /\ page.totalPages \in Nat \ {0}
           /\ page.hasPrev = (page.number > 1)
           /\ page.hasNext = (page.number < page.totalPages)
<1>1. PICK v : Enumerates(v, WantedOf(request)) /\ page = PageOf(v, request)
  BY DEF PageInv
<1>2. request \in Params
  BY DEF ListsInv
<1> DEFINE c == Cardinality(WantedOf(request))
<1>3. /\ Len(v) = c /\ PageOf(v, request).number = NumberOf(c, request)
      /\ PageOf(v, request).number \in 1 .. TotalPages(c, request.pageSize)
      /\ TotalPages(c, request.pageSize) \in Nat \ {0}
  BY <1>1, <1>2, PageFacts
<1>. HIDE DEF c
<1>. QED
  BY <1>1, <1>3, PageFields

LEMMA NextPageWalks ==
    ASSUME PaginationInv, NextPage
    PROVE  PaginationInv'
<1> DEFINE m == page.number + 1
<1>1. /\ page.number \in Nat \ {0} /\ m \in Nat \ {0}
      /\ m <= page.totalPages
  <2>1. /\ page.number \in 1 .. page.totalPages
        /\ page.totalPages \in Nat \ {0}
    BY NumberIs DEF PaginationInv
  <2>2. page.number < page.totalPages
    BY NumberIs, Zenon DEF PaginationInv, NextPage
  <2>. QED
    BY <2>1, <2>2
<1>2. Turned(1) = AtPage(request, m)
  BY DEF Turned, AtPage
<1>3. /\ Show(AtPage(request, m))
      /\ walk' = IF walk = <<>> THEN walk ELSE Append(walk, page'.items)
  BY <1>2 DEF NextPage
<1>4. /\ ListsInv' /\ PageInv' /\ page'.number = m
      /\ page'.items \in Seq(ToSet(source))
      /\ request' = AtPage(request, m) /\ ToSet(source)' = ToSet(source)
      /\ DeterminedFor(request)' <=> DeterminedFor(request)
      /\ DeterminedFor(request) => \A other \in Supplied' :
           /\ page' = Paginate(other, AtPage(request, m))
           /\ \A k \in DOMAIN walk :
                walk[k] = Paginate(other, AtPage(request', k)).items
  <2>. HIDE DEF m
  <2>. QED
    BY <1>1, <1>3, TurnIs
<1>5. walk \in Seq(Seq(ToSet(source))) /\ (walk # <<>> => Len(walk) + 1 = m)
  BY <1>1 DEF PaginationInv, WalkInv
<1>. HIDE DEF m
<1>6. CASE walk = <<>>
  <2>1. walk' = walk
    BY <1>3, <1>6
  <2>. QED
    BY <1>4, <1>5, <1>6, <2>1 DEF PaginationInv, WalkInv
<1>7. CASE walk # <<>>
  <2>1. walk' = Append(walk, page'.items)
    BY <1>3, <1>7
  <2> DEFINE S == Seq(ToSet(source))
  <2>2. /\ walk' \in Seq(S) /\ Len(walk') = Len(walk) + 1
        /\ \A k \in 1 .. Len(walk) : walk'[k] = walk[k]
        /\ walk'[Len(walk) + 1] = page'.items
    <3>1. walk \in Seq(S) /\ page'.items \in S
      BY <1>4, <1>5
    <3>. HIDE DEF S
    <3>. QED
      BY <2>1, <3>1, AppendProperties
  <2>3. /\ Len(walk') = m /\ DOMAIN walk = 1 .. Len(walk)
        /\ DOMAIN walk' = 1 .. Len(walk) + 1 /\ Len(walk) \in Nat
        /\ Len(walk) + 1 = m
    BY <1>5, <1>7, <2>2
  <2>4. ASSUME DeterminedFor(request), NEW other \in Supplied',
               NEW k \in DOMAIN walk'
        PROVE  walk'[k] = Paginate(other, AtPage(request', k)).items
    <3>1. CASE k \in DOMAIN walk
      BY <1>4, <2>2, <2>3, <2>4, <3>1
    <3>2. CASE k = m
      <4>1. request \in Params
        BY DEF PaginationInv, ListsInv
      <4>2. AtPage(request', k) = AtPage(request, m)
        BY <1>1, <1>4, <3>2, <4>1, AtPageIs
      <4>. QED
        BY <1>4, <2>2, <2>3, <2>4, <3>2, <4>2
    <3>. QED
      BY <2>3, <2>4, <3>1, <3>2
  <2>. QED
    BY <1>4, <2>2, <2>3, <2>4 DEF PaginationInv, WalkInv
<1>. QED
  BY <1>6, <1>7

LEMMA PrevPageWalks ==
    ASSUME PaginationInv, PrevPage
    PROVE  /\ PaginationInv'
           /\ Len(walk) > 1 /\ DeterminedFor(request)
                => page'.items = walk[Len(walk) - 1]
<1> DEFINE m == page.number - 1
<1>1. /\ page.number \in Nat \ {0} /\ m \in Nat \ {0}
      /\ m <= page.totalPages
  <2>1. /\ page.number \in 1 .. page.totalPages
        /\ page.totalPages \in Nat \ {0}
    BY NumberIs DEF PaginationInv
  <2>2. page.number > 1
    BY NumberIs, Zenon DEF PaginationInv, PrevPage
  <2>. QED
    BY <2>1, <2>2
<1>2. Turned(-1) = AtPage(request, m)
  <2>1. page.number + (-1) = m
    BY <1>1
  <2>. HIDE DEF m
  <2>. QED
    BY <2>1 DEF Turned, AtPage
<1>3. /\ Show(AtPage(request, m))
      /\ walk' = IF walk = <<>> THEN walk ELSE Front(walk)
  BY <1>2 DEF PrevPage
<1>4. /\ ListsInv' /\ PageInv' /\ page'.number = m
      /\ page'.items \in Seq(ToSet(source))
      /\ request' = AtPage(request, m) /\ ToSet(source)' = ToSet(source)
      /\ DeterminedFor(request)' <=> DeterminedFor(request)
      /\ DeterminedFor(request) => \A other \in Supplied' :
           /\ page' = Paginate(other, AtPage(request, m))
           /\ \A k \in DOMAIN walk :
                walk[k] = Paginate(other, AtPage(request', k)).items
  <2>. HIDE DEF m
  <2>. QED
    BY <1>1, <1>3, TurnIs
<1>5. walk \in Seq(Seq(ToSet(source))) /\ (walk # <<>> => Len(walk) - 1 = m)
  BY <1>1 DEF PaginationInv, WalkInv
<1>. HIDE DEF m
<1>6. ASSUME walk # <<>>
      PROVE  /\ walk' \in Seq(Seq(ToSet(source))) /\ Len(walk') = m
             /\ \A k \in DOMAIN walk' :
                  k \in DOMAIN walk /\ walk'[k] = walk[k]
  <2> DEFINE S == Seq(ToSet(source))
  <2>1. walk' = SubSeq(walk, 1, m)
    BY <1>3, <1>5, <1>6 DEF Front
  <2>2. /\ Len(walk) \in Nat /\ m \in 1 .. Len(walk)
        /\ DOMAIN walk = 1 .. Len(walk)
        /\ \A i \in 1 .. m : walk[i] \in S
    BY <1>1, <1>5, <1>6
  <2>3. /\ walk' \in Seq(S) /\ Len(walk') = m
        /\ \A i \in 1 .. m : walk'[i] = walk[i]
    <3>1. m \in Int /\ \A i \in 1 .. m : 1 + i - 1 = i /\ i \in 1 .. m - 1 + 1
      BY <2>2
    <3>2. /\ walk' \in Seq(S)
          /\ Len(walk') = IF 1 <= m THEN m - 1 + 1 ELSE 0
          /\ \A i \in 1 .. m - 1 + 1 : walk'[i] = walk[1 + i - 1]
      <4>. HIDE DEF S
      <4>. QED
        BY <2>1, <2>2, <3>1, SubSeqProperties
    <3>3. Len(walk') = m
      BY <2>2, <3>2
    <3>. QED
      BY <3>1, <3>2, <3>3
  <2>4. \A k \in DOMAIN walk' : k \in 1 .. m /\ k \in 1 .. Len(walk)
    BY <2>2, <2>3
  <2>. QED
    BY <2>2, <2>3, <2>4
<1>7. PaginationInv'
  <2>1. CASE walk = <<>>
    <3>1. walk' = walk
      BY <1>3, <2>1
    <3>. QED
      BY <1>4, <1>5, <2>1, <3>1 DEF PaginationInv, WalkInv
  <2>2. CASE walk # <<>>
    <3>1. ASSUME DeterminedFor(request), NEW other \in Supplied'
          PROVE  page' = Paginate(other, request')
      BY <1>4, <3>1
    <3>. QED
      BY <1>4, <1>6, <2>2, <3>1 DEF PaginationInv, WalkInv
  <2>. QED
    BY <2>1, <2>2
<1>8. ASSUME Len(walk) > 1, DeterminedFor(request)
      PROVE  page'.items = walk[Len(walk) - 1]
  <2>1. m \in DOMAIN walk /\ Len(walk) - 1 = m
    BY <1>1, <1>5, <1>8
  <2>2. PICK other \in Supplied' : TRUE
    BY SomeSupplied DEF Supplied
  <2>3. page' = Paginate(other, AtPage(request, m))
    BY <1>4, <1>8, <2>2
  <2>4. walk[m] = Paginate(other, AtPage(request', m)).items
    BY <1>4, <1>8, <2>1, <2>2
  <2>5. AtPage(request', m) = AtPage(request, m)
    <3>1. request \in Params
      BY DEF PaginationInv, ListsInv
    <3>. QED
      BY <1>1, <1>4, <3>1, AtPageIs
  <2>. QED
    BY <2>1, <2>3, <2>4, <2>5
<1>. QED
  BY <1>7, <1>8

LEMMA PaginationInvInit ==
    ASSUME Init
    PROVE  PaginationInv
<1>1. /\ kept \in BOOLEAN /\ source \in Lists /\ slice = source
      /\ border \in {0} \cup (IF kept THEN {} ELSE 1 .. Len(source) - 1)
      /\ request = FirstPage /\ page = Paginate(source, FirstPage)
      /\ walk = <<page.items>>
  BY DEF Init
<1>2. /\ Enumerates(source, ToSet(source)) /\ Len(source) \in 0 .. MaxItems
      /\ ToSet(source) \in SUBSET Item
  BY <1>1, ListsAre
<1>3. MaxItems \in Nat \ {0}
  BY PaginationAssumption
<1>4. border \in 0 .. Len(source) /\ border \in 0 .. MaxItems - 1
  <2>1. border = 0 \/ border \in 1 .. Len(source) - 1
    BY <1>1
  <2>. QED
    BY <1>2, <1>3, <2>1
<1>5. FirstPage \in Params /\ FirstPage.page = 1 /\ ~FirstPage.sort
      /\ ~FirstPage.query
  <2>1. /\ MinPageSize \in Nat \ {0} /\ MaxPageSize \in Nat
        /\ DefaultPageSize \in MinPageSize .. MaxPageSize
    BY PaginationAssumption
  <2>2. (CHOOSE o \in Orders : TRUE) \in Orders
    BY PaginationAssumption
  <2>. QED
    BY <2>1, <2>2 DEF FirstPage, Params
<1>6. ListsInv
  BY <1>1, <1>2, <1>4, <1>5 DEF ListsInv
<1>7. WantedOf(request) = ToSet(source)
  BY <1>1, <1>5 DEF WantedOf
<1>8. Arranged(source, request) = source
  BY <1>1, <1>5 DEF Arranged, Filtered
<1>9. page = PageOf(source, request)
  BY <1>1, <1>8 DEF Paginate
<1>10. PageInv
  BY <1>1, <1>2, <1>5, <1>7, <1>9 DEF PageInv
<1>11. page.items \in Seq(ToSet(source)) /\ page.number = 1
  <2>1. /\ page.items \in Seq(ToSet(source))
        /\ page.number \in 1 .. TotalPages(Cardinality(ToSet(source)),
                                           request.pageSize)
        /\ TotalPages(Cardinality(ToSet(source)), request.pageSize)
             \in Nat \ {0}
        /\ request.page <= TotalPages(Cardinality(ToSet(source)),
                                      request.pageSize)
             => page.number = request.page
    BY <1>1, <1>2, <1>5, <1>9, PageFacts
  <2>2. request.page = 1
    BY <1>1, <1>5
  <2>. QED
    BY <2>1, <2>2
<1>12. /\ walk \in Seq(Seq(ToSet(source))) /\ Len(walk) = 1
       /\ DOMAIN walk = {1} /\ walk[1] = page.items
  BY <1>1, <1>11
<1>13. ASSUME DeterminedFor(request), NEW list \in Supplied
       PROVE  page = Paginate(list, request)
  <2>1. Arranged(list, request) = source
    <3>1. CASE kept
      BY <1>1, <1>6, <1>8, <3>1, SuppliedAre
    <3>2. CASE ~kept
      <4>1. source \in Supplied
        BY <3>2 DEF Supplied
      <4>. QED
        BY <1>1, <1>5, <1>6, <1>8, <1>13, <4>1, SameView
    <3>. QED
      BY <3>1, <3>2
  <2>. QED
    BY <1>9, <2>1 DEF Paginate
<1>14. AtPage(request, 1) = request
  BY <1>1, <1>5, AtPageIs
<1>15. WalkInv
  BY <1>11, <1>12, <1>13, <1>14 DEF WalkInv
<1>. QED
  BY <1>6, <1>10, <1>15 DEF PaginationInv

LEMMA PaginationInvNext ==
    ASSUME PaginationInv, [Next]_vars
    PROVE  PaginationInv'
<1>1. CASE Open
  BY <1>1, OpenWalks
<1>2. CASE NextPage
  BY <1>2, NextPageWalks
<1>3. CASE PrevPage
  BY <1>3, PrevPageWalks
<1>4. CASE UNCHANGED vars
  <2>1. ListsInv'
    BY <1>4 DEF vars, PaginationInv, ListsInv
  <2>2. PageInv'
    BY <1>4 DEF vars, PaginationInv, PageInv, WantedOf
  <2>3. Supplied' = Supplied
    BY <1>4 DEF vars, Supplied
  <2>4. DeterminedFor(request)' <=> DeterminedFor(request)
    BY <1>4 DEF vars, DeterminedFor, WantedOf
  <2>5. WalkInv'
    BY <1>4, <2>3, <2>4 DEF vars, PaginationInv, WalkInv
  <2>. QED
    BY <2>1, <2>2, <2>5 DEF PaginationInv
<1>. QED
  BY <1>1, <1>2, <1>3, <1>4 DEF Next

LEMMA PaginationInvHolds == Spec => []PaginationInv
  BY PaginationInvInit, PaginationInvNext, PTL DEF Spec

(***************************************************************************)
(* The theorems.                                                           *)
(***************************************************************************)

(* Every request's page comes from the items of the source, and the slice  *)
(* a caller keeps never loses or doubles one (dashboard/pagination.go).    *)
THEOREM PaginationTypeCorrect == Spec => []TypeOK
<1>1. ASSUME PaginationInv PROVE TypeOK
  <2>1. ListsInv /\ PageInv /\ WalkInv
    BY <1>1 DEF PaginationInv
  <2>2. PICK v : Enumerates(v, WantedOf(request)) /\ page = PageOf(v, request)
    BY <2>1 DEF PageInv
  <2>3. ToSet(slice) = ToSet(source)
    BY <2>1 DEF ListsInv, Enumerates
  <2>4. page.totalItems \in 0 .. Len(source)
    <3>1. page.totalItems = Cardinality(WantedOf(request))
          /\ Cardinality(WantedOf(request)) \in Nat
      BY <2>2, PageFields, LengthIsCardinality
    <3>2. Enumerates(source, ToSet(source))
      BY <2>1, ListsAre DEF ListsInv
    <3>3. /\ IsFiniteSet(ToSet(source))
          /\ Len(source) = Cardinality(ToSet(source))
          /\ Len(source) \in Nat
      BY <3>2, LengthIsCardinality
    <3>4. WantedOf(request) \in SUBSET ToSet(source)
      BY DEF WantedOf
    <3>5. Cardinality(WantedOf(request)) <= Cardinality(ToSet(source))
      BY <3>3, <3>4, FS_Subset
    <3>. QED
      BY <3>1, <3>3, <3>5
  <2>5. Len(page.items) <= MaxPageSize
    <3>1. request \in Params
      BY <2>1 DEF ListsInv
    <3>2. v \in Seq(WantedOf(request)) /\ Len(v) \in Nat
      BY <2>2, LengthIsCardinality DEF Enumerates
    <3> DEFINE n == Len(v)
    <3>3. Len(page.items) = EndOf(n, request) - StartOf(n, request)
      BY <2>2, <3>1, <3>2, OrdersAre, PageItems
    <3>4. /\ StartOf(n, request) \in 0 .. n
          /\ EndOf(n, request) \in StartOf(n, request) .. n
          /\ EndOf(n, request) <= StartOf(n, request) + request.pageSize
      BY <3>1, <3>2, OrdersAre, PageRange
    <3>5. request.pageSize \in Nat \ {0} /\ request.pageSize <= MaxPageSize
          /\ MaxPageSize \in Nat
      BY <3>1, OrdersAre
    <3>. HIDE DEF n
    <3>. QED
      BY <3>2, <3>3, <3>4, <3>5 DEF n
  <2>6. \A k \in DOMAIN walk : ToSet(walk[k]) \subseteq ToSet(source)
    <3>1. SUFFICES ASSUME NEW k \in DOMAIN walk
                   PROVE  ToSet(walk[k]) \subseteq ToSet(source)
      OBVIOUS
    <3> DEFINE S == ToSet(source)
               w == walk[k]
    <3>2. w \in Seq(S)
      <4>1. walk \in Seq(Seq(S))
        BY <2>1 DEF WalkInv
      <4>. HIDE DEF S
      <4>. QED
        BY <4>1
    <3>. HIDE DEF S, w
    <3>3. \A i \in DOMAIN w : w[i] \in S
      BY <3>2
    <3>4. ToSet(w) \subseteq S
      BY <3>3 DEF ToSet
    <3>. QED
      BY <3>4 DEF S, w
  <2>. QED
    BY <2>1, <2>3, <2>4, <2>5, <2>6 DEF TypeOK, ListsInv
<1>. QED
  BY <1>1, PaginationInvHolds, PTL

(* A page is full unless it is the last, empty only when nothing was       *)
(* found, and there is a next one just when items remain (paginationMeta). *)
THEOREM PagesAreFull == Spec => []PageIsFull
<1>1. ASSUME PaginationInv PROVE PageIsFull
  <2>1. request \in Params
    BY <1>1 DEF PaginationInv, ListsInv
  <2>2. PICK v : Enumerates(v, WantedOf(request)) /\ page = PageOf(v, request)
    BY <1>1 DEF PaginationInv, PageInv
  <2> DEFINE n == Len(v)
             size == request.pageSize
             number == NumberOf(n, request)
             start == StartOf(n, request)
             end == EndOf(n, request)
             pages == TotalPages(n, size)
             full == number * size
  <2>3. v \in Seq(WantedOf(request)) /\ n \in Nat
    BY <2>2, LengthIsCardinality DEF Enumerates
  <2>4. request.page \in Nat \ {0} /\ size \in Nat \ {0}
    BY <2>1, OrdersAre
  <2>5. /\ page.items \in Seq(WantedOf(request))
        /\ Len(page.items) = end - start
        /\ page.number = number /\ page.totalItems = n
        /\ page.hasNext = (number < pages)
    BY <2>2, <2>3, <2>4, PageItems, PageFields
  <2>6. /\ number \in 1 .. pages
        /\ start = (number - 1) * size /\ start \in 0 .. n
        /\ end \in start .. n
        /\ (start = end => n = 0)
        /\ (number < pages <=> full < n)
        /\ (number < pages => end = full)
    BY <2>3, <2>4, PageRange
  <2>7. full = (number - 1) * size + size
    <3>. HIDE DEF number, size
    <3>1. number \in Nat
      BY <2>6
    <3>. QED
      BY <2>4, <3>1
  <2>. HIDE DEF n, size, number, start, end, pages, full
  <2>8. ASSUME page.hasNext PROVE Len(page.items) = size
    <3>1. number < pages
      BY <2>5, <2>8
    <3>2. end = start + size
      BY <2>6, <2>7, <3>1
    <3>. QED
      BY <2>3, <2>4, <2>5, <2>6, <3>2
  <2>9. ASSUME page.items = <<>> PROVE page.totalItems = 0
    <3>1. end - start = 0
      BY <2>5, <2>9
    <3>. QED
      BY <2>3, <2>5, <2>6, <3>1
  <2>10. page.hasNext <=> full < n
    <3>1. page.hasNext <=> number < pages
      BY <2>5
    <3>. QED
      BY <2>6, <3>1
  <2>. QED
    BY <2>5, <2>8, <2>9, <2>10 DEF PageIsFull, size, full
<1>. QED
  BY <1>1, PaginationInvHolds, PTL

(* Turning back shows what was shown before wherever the order of the list *)
(* is determined: of a list that comes the same again, of a sort by        *)
(* different keys, and of a kept slice under a stable sort                 *)
(* (dashboard/pagination.go sorts the caller's slice in place).            *)
THEOREM TurningBackIsSafe == Spec => TurningBackShowsTheSame
<1>1. ASSUME PaginationInv, [Next]_vars
      PROVE  [(PrevPage /\ Len(walk) > 1 /\ Determined)
                 => page'.items = walk[Len(walk) - 1]]_vars
  <2>1. Determined => DeterminedFor(request)
    BY DEF Determined, DeterminedFor, Wanted, WantedOf
  <2>. QED
    BY <1>1, <2>1, PrevPageWalks
<1>. QED
  BY <1>1, PaginationInvHolds, PTL DEF Spec, TurningBackShowsTheSame

(***************************************************************************)
(* All pages together.                                                     *)
(***************************************************************************)

(* The pages put together, one by one. *)
IsFlat(f, pages) ==
    /\ \A i \in 1 .. Len(pages) :
         f[i] = IF i = 1 THEN pages[i] ELSE f[i - 1] \o pages[i]
    /\ FlattenSeq(pages) = f[Len(pages)]

LEMMA FlattenRounds ==
    ASSUME NEW S, NEW pages \in Seq(Seq(S)), pages # <<>>
    PROVE  \E f \in [0 .. Len(pages) -> Seq(S)] : IsFlat(f, pages)
<1> DEFINE n == Len(pages)
           Round(x, i) == IF i = 1 THEN pages[i] ELSE x \o pages[i]
           step == [e \in (1 .. n) \X Seq(S) |-> Round(e[2], e[1])]
           G == CHOOSE f : f = [i \in 1 .. n |->
                  IF i = 1 THEN pages[i] ELSE f[i - 1] \o pages[i]]
<1>1. n \in Nat \ {0} /\ <<>> \in Seq(S)
  OBVIOUS
<1>0. \A i \in 1 .. n : pages[i] \in Seq(S)
  OBVIOUS
<1>2. step \in [(1 .. n) \X Seq(S) -> Seq(S)]
  <2>1. ASSUME NEW e \in (1 .. n) \X Seq(S)
        PROVE  Round(e[2], e[1]) \in Seq(S)
    <3>1. e[1] \in 1 .. n /\ e[2] \in Seq(S)
      OBVIOUS
    <3>2. pages[e[1]] \in Seq(S)
      BY <1>0, <3>1
    <3>3. e[2] \o pages[e[1]] \in Seq(S)
      BY <3>1, <3>2, ConcatProperties
    <3>. QED
      BY <3>2, <3>3
  <2>. HIDE DEF Round
  <2>. QED
    BY <2>1
<1>3. PICK f \in [0 .. n -> Seq(S)] :
        f[0] = <<>> /\ \A i \in 1 .. n : f[i] = step[<<i, f[i - 1]>>]
  <2>. HIDE DEF n, step
  <2>1. \E f \in [0 .. n -> Seq(S)] : IsRun(f, n, <<>>, step)
    BY <1>1, <1>2, LoopEnds
  <2>. QED
    BY <2>1 DEF IsRun
<1>4. ASSUME NEW i \in 1 .. n
      PROVE  f[i] = Round(f[i - 1], i)
  <2>1. i - 1 \in 0 .. n
    BY <1>1
  <2>2. <<i, f[i - 1]>> \in (1 .. n) \X Seq(S)
    BY <2>1
  <2>. HIDE DEF Round
  <2>3. step[<<i, f[i - 1]>>] = Round(f[i - 1], i)
    BY <2>2
  <2>. HIDE DEF step
  <2>. QED
    BY <1>3, <2>3
<1> DEFINE g == [i \in 1 .. n |-> f[i]]
<1>5. g = [i \in 1 .. n |-> Round(g[i - 1], i)]
  <2>1. ASSUME NEW i \in 1 .. n PROVE g[i] = Round(g[i - 1], i)
    <3>1. g[i] = f[i] /\ (i # 1 => i - 1 \in 1 .. n /\ g[i - 1] = f[i - 1])
      BY <1>1
    <3>2. Round(g[i - 1], i) = Round(f[i - 1], i)
      <4>. HIDE DEF g
      <4>. QED
        BY <3>1
    <3>. HIDE DEF g, Round
    <3>. QED
      BY <1>4, <3>1, <3>2
  <2>2. g = [i \in 1 .. n |-> g[i]]
    OBVIOUS
  <2>. HIDE DEF g, Round
  <2>. QED
    BY <2>1, <2>2
<1>6. G = [i \in 1 .. n |-> Round(G[i - 1], i)]
  <2>. HIDE DEF g
  <2>. QED
    BY <1>5
<1>7. FlattenSeq(pages) = G[n]
  BY <1>1 DEF FlattenSeq
<1>. HIDE DEF G, step, g, Round
<1>8. \A i \in 1 .. n : G[i] = Round(G[i - 1], i)
  BY <1>6
<1> DEFINE T == {i \in 0 .. n : i # 0 => G[i] = f[i]}
<1>9. 0 \in T
  BY <1>1
<1>10. ASSUME NEW i \in 1 .. n, i - 1 \in T PROVE i \in T
  <2>1. Round(G[i - 1], i) = Round(f[i - 1], i)
    <3>1. i # 1 => i - 1 # 0
      BY <1>1
    <3>. QED
      BY <1>10, <3>1 DEF Round
  <2>. QED
    BY <1>1, <1>4, <1>8, <2>1
<1>11. G[n] = f[n]
  <2>. HIDE DEF T, n
  <2>1. \A i \in 0 .. n : i \in T
    BY <1>1, <1>9, <1>10, Rounds
  <2>. QED
    BY <1>1, <2>1 DEF T
<1>. QED
  BY <1>3, <1>4, <1>7, <1>11 DEF IsFlat, Round

(* All pages of a list together are the list. *)
LEMMA PagesTogether ==
    ASSUME NEW S, NEW v \in Seq(S), NEW p \in Params,
           NEW pages \in Seq(Seq(S)),
           Len(pages) = TotalPages(Len(v), p.pageSize),
           \A k \in DOMAIN pages : pages[k] = PageOf(v, AtPage(p, k)).items
    PROVE  FlattenSeq(pages) = v
<1> DEFINE n == Len(v)
           m == Len(pages)
           size == p.pageSize
           q(k) == AtPage(p, k)
           end(k) == EndOf(n, q(k))
           start(k) == StartOf(n, q(k))
<1>1. n \in Nat /\ size \in Nat \ {0} /\ m = TotalPages(n, size)
  BY OrdersAre
<1>2. m \in Nat \ {0} /\ DOMAIN pages = 1 .. m /\ pages # <<>>
  <2>1. m \in Nat \ {0}
    BY <1>1, PagesAre
  <2>. QED
    BY <2>1
<1>3. ASSUME NEW k \in 1 .. m
      PROVE  /\ q(k).page = k /\ q(k).pageSize = size
             /\ start(k) = (k - 1) * size /\ start(k) \in 0 .. n
             /\ end(k) \in start(k) .. n
             /\ (k < m => end(k) = k * size) /\ (k = m => end(k) = n)
  <2>1. k \in Nat \ {0} /\ k <= m
    BY <1>2
  <2>2. q(k).page = k /\ q(k).pageSize = size
    BY <2>1, AtPageIs
  <2>. HIDE DEF q, n, m, size
  <2>3. NumberOf(n, q(k)) = k
    BY <1>1, <2>1, <2>2, PageRange
  <2>4. /\ StartOf(n, q(k)) = (NumberOf(n, q(k)) - 1) * q(k).pageSize
        /\ StartOf(n, q(k)) \in 0 .. n
        /\ EndOf(n, q(k)) \in StartOf(n, q(k)) .. n
        /\ NumberOf(n, q(k)) < TotalPages(n, q(k).pageSize)
             => EndOf(n, q(k)) = NumberOf(n, q(k)) * q(k).pageSize
        /\ NumberOf(n, q(k)) = TotalPages(n, q(k).pageSize)
             => EndOf(n, q(k)) = n
    BY <1>1, <2>1, <2>2, PageRange
  <2>. QED
    BY <1>1, <2>2, <2>3, <2>4
<1>4. ASSUME NEW k \in 1 .. m
      PROVE  /\ pages[k] \in Seq(S) /\ Len(pages[k]) = end(k) - start(k)
             /\ \A i \in 1 .. end(k) - start(k) :
                  pages[k][i] = v[start(k) + i]
  <2>1. q(k).page \in Nat \ {0} /\ q(k).pageSize \in Nat \ {0}
    BY <1>1, <1>2, <1>3
  <2>2. pages[k] = PageOf(v, q(k)).items
    BY <1>2
  <2> DEFINE r == q(k)
             items == PageOf(v, r).items
  <2>. HIDE DEF q
  <2>3. r.page \in Nat \ {0} /\ r.pageSize \in Nat \ {0} /\ pages[k] = items
    BY <2>1, <2>2
  <2>. HIDE DEF r
  <2>4. /\ items \in Seq(S)
        /\ Len(items) = EndOf(n, r) - StartOf(n, r)
        /\ \A i \in 1 .. EndOf(n, r) - StartOf(n, r) :
             items[i] = v[StartOf(n, r) + i]
    BY <2>3, PageItems
  <2>. HIDE DEF items
  <2>. QED
    BY <2>3, <2>4 DEF r
<1>0. PICK f \in [0 .. m -> Seq(S)] : IsFlat(f, pages)
  BY <1>2, FlattenRounds
<1>5. /\ \A i \in 1 .. m :
           f[i] = IF i = 1 THEN pages[i] ELSE f[i - 1] \o pages[i]
      /\ FlattenSeq(pages) = f[m]
  BY <1>0 DEF IsFlat
<1>. HIDE DEF q, end, start
<1> DEFINE Good(k) == /\ f[k] \in Seq(S) /\ Len(f[k]) = end(k)
                      /\ \A i \in 1 .. end(k) : f[k][i] = v[i]
           T == {k \in 0 .. m : k # 0 => Good(k)}
<1>6. 0 \in T
  BY <1>2
<1>7. ASSUME NEW k \in 1 .. m, k - 1 \in T PROVE Good(k)
  <2>1. CASE k = 1
    <3>1. start(k) = 0
      <4>1. (k - 1) * size = 0
        BY <1>1, <2>1
      <4>. QED
        BY <1>3, <4>1
    <3>2. f[k] = pages[k]
      BY <1>5, <2>1
    <3>3. end(k) - start(k) = end(k)
          /\ \A i \in 1 .. end(k) : start(k) + i = i
      BY <1>1, <1>3, <3>1
    <3>. QED
      BY <1>4, <3>2, <3>3
  <2>2. CASE k # 1
    <3> DEFINE j == k - 1
    <3>1. j \in 1 .. m /\ j < m
      BY <1>2, <2>2
    <3>2. Good(j)
      BY <1>7, <3>1
    <3>3. f[k] = f[j] \o pages[k]
      BY <1>5, <2>2
    <3>4. start(k) = j * size /\ end(k) \in start(k) .. n
          /\ start(k) \in 0 .. n
      BY <1>3
    <3>. HIDE DEF j
    <3>5. end(j) = start(k)
      BY <1>3, <3>1, <3>4
    <3>6. /\ f[k] \in Seq(S) /\ Len(f[k]) = Len(f[j]) + Len(pages[k])
          /\ \A i \in 1 .. Len(f[j]) + Len(pages[k]) : f[k][i] =
               IF i <= Len(f[j]) THEN f[j][i] ELSE pages[k][i - Len(f[j])]
      <4> DEFINE a == f[j]
                 b == pages[k]
      <4>1. a \in Seq(S) /\ b \in Seq(S) /\ f[k] = a \o b
        BY <1>4, <3>2, <3>3
      <4>. HIDE DEF a, b
      <4>2. /\ a \o b \in Seq(S) /\ Len(a \o b) = Len(a) + Len(b)
            /\ \A i \in 1 .. Len(a) + Len(b) : (a \o b)[i] =
                 IF i <= Len(a) THEN a[i] ELSE b[i - Len(a)]
        BY <4>1, ConcatProperties
      <4>. QED
        BY <4>1, <4>2 DEF a, b
    <3>7. /\ Len(f[j]) = start(k) /\ Len(pages[k]) = end(k) - start(k)
          /\ start(k) \in Nat /\ end(k) \in Nat /\ start(k) <= end(k)
          /\ start(k) + (end(k) - start(k)) = end(k)
      BY <1>1, <1>4, <3>2, <3>4, <3>5
    <3>8. Len(f[k]) = end(k)
      BY <3>6, <3>7
    <3>9. ASSUME NEW i \in 1 .. end(k) PROVE f[k][i] = v[i]
      <4>1. f[k][i] = IF i <= start(k) THEN f[j][i]
                                       ELSE pages[k][i - start(k)]
        BY <3>6, <3>7
      <4>2. CASE i <= start(k)
        <5>1. i \in 1 .. end(j)
          BY <3>5, <3>7, <4>2
        <5>. QED
          BY <3>2, <4>1, <4>2, <5>1
      <4>3. CASE ~(i <= start(k))
        <5>1. /\ i - start(k) \in 1 .. end(k) - start(k)
              /\ start(k) + (i - start(k)) = i
          BY <3>7, <4>3
        <5>. QED
          BY <1>4, <4>1, <4>3, <5>1
      <4>. QED
        BY <4>2, <4>3
    <3>. QED
      BY <3>6, <3>8, <3>9
  <2>. QED
    BY <2>1, <2>2
<1>. HIDE DEF Good
<1>8. \A k \in 1 .. m : k - 1 \in T => k \in T
  BY <1>2, <1>7
<1>9. Good(m)
  <2>. HIDE DEF T, m
  <2>1. \A k \in 0 .. m : k \in T
    BY <1>2, <1>6, <1>8, Rounds
  <2>. QED
    BY <1>2, <2>1 DEF T
<1>10. end(m) = n
  <2>1. m \in 1 .. m
    BY <1>2
  <2>. QED
    BY <1>3, <2>1
<1>11. f[m] \in Seq(S) /\ Len(f[m]) = n /\ \A i \in 1 .. n : f[m][i] = v[i]
  BY <1>9, <1>10 DEF Good
<1>. QED
  BY <1>5, <1>11, SeqEqual

(* Turning pages from the first to the last shows every item the search    *)
(* finds exactly once and in the order asked for, wherever the order of    *)
(* the list is determined (Paginate* in dashboard/pagination.go).          *)
THEOREM WalksShowEachOnce == Spec => []WalkShowsEachOnce
<1>1. ASSUME PaginationInv PROVE WalkShowsEachOnce
  <2>1. SUFFICES ASSUME walk # <<>>, ~page.hasNext, Determined
                 PROVE  /\ ToSet(Shown) = Wanted
                        /\ Len(Shown) = page.totalItems
                        /\ \A i, j \in DOMAIN Shown :
                             (request.sort /\ i < j) =>
                               IF request.order = "asc"
                               THEN Shown[i].key <= Shown[j].key
                               ELSE Shown[i].key >= Shown[j].key
    BY DEF WalkShowsEachOnce
  <2>2. Wanted = WantedOf(request) /\ DeterminedFor(request)
    BY <2>1 DEF Determined, DeterminedFor, Wanted, WantedOf
  <2>3. PICK list \in Supplied : TRUE
    BY SomeSupplied
  <2>4. request \in Params /\ ListsInv
    BY <1>1 DEF PaginationInv, ListsInv
  <2> DEFINE v == Arranged(list, request)
             W == WantedOf(request)
  <2>5. Enumerates(v, W) /\ (request.sort => ByKey(v, request.order))
    BY <2>4, ArrangedSupplied
  <2>6. page = PageOf(v, request)
    BY <1>1, <2>2 DEF PaginationInv, WalkInv, Paginate
  <2>7. ASSUME NEW k \in DOMAIN walk
        PROVE  walk[k] = PageOf(v, AtPage(request, k)).items
    <3>1. walk[k] = Paginate(list, AtPage(request, k)).items
      BY <1>1, <2>2, <2>7 DEF PaginationInv, WalkInv
    <3>2. k \in Nat \ {0}
      BY <1>1, <2>7 DEF PaginationInv, WalkInv
    <3>. QED
      BY <2>4, <3>1, <3>2, SameButPage DEF Paginate
  <2>. HIDE DEF v
  <2>8. Len(walk) = TotalPages(Len(v), request.pageSize)
    <3>1. Len(walk) = page.number
      BY <1>1, <2>1 DEF PaginationInv, WalkInv
    <3>2. /\ page.number \in 1 .. page.totalPages
          /\ page.totalPages \in Nat \ {0}
      BY <1>1, NumberIs DEF PaginationInv
    <3>3. ~(page.number < page.totalPages)
      BY <1>1, <2>1, NumberIs, Zenon DEF PaginationInv
    <3>4. page.totalPages = TotalPages(Len(v), request.pageSize)
      BY <2>6, PageFields
    <3>. QED
      BY <3>1, <3>2, <3>3, <3>4
  <2> DEFINE S == ToSet(source)
  <2>9. v \in Seq(S) /\ walk \in Seq(Seq(S))
    <3>1. v \in Seq(W) /\ W \subseteq S
      BY <2>5 DEF Enumerates, WantedOf
    <3>2. walk \in Seq(Seq(S))
      BY <1>1 DEF PaginationInv, WalkInv
    <3>. HIDE DEF S, W
    <3>. QED
      BY <3>1, <3>2
  <2>10. Shown = v
    <3>. HIDE DEF S
    <3>. QED
      BY <2>4, <2>7, <2>8, <2>9, PagesTogether DEF Shown
  <2>11. Len(v) = page.totalItems
    BY <2>6, PageFields
  <2>. QED
    BY <2>2, <2>5, <2>10, <2>11 DEF Enumerates, ByKey
<1>. QED
  BY <1>1, PaginationInvHolds, PTL
=============================================================================
