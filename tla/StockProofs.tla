------------------------------ MODULE StockProofs ------------------------------
(***************************************************************************)
(* Theorems about StockWriter, for any number of devices, pools, products  *)
(* and orders: the sales of a pool are one sequence, nothing is oversold   *)
(* or handed out twice, no sale is forgotten, and the whole implements     *)
(* EntrustedStock.                                                         *)
(***************************************************************************)
EXTENDS StockWriter, Integers, WellFoundedInduction, SequenceTheorems, TLAPS

-----------------------------------------------------------------------------
(* Natural numbers: a set with 0 and every successor has them all.         *)

Below == {ss \in Nat \X Nat : ss[1] < ss[2]}

LEMMA Least ==
  ASSUME NEW T, T \subseteq Nat, T # {}
  PROVE  \E x \in T : \A y \in T : x <= y
<1>1. IsWellFoundedOn(Below, Nat)
  BY NatLessThanWellFounded DEF OpToRel, Below
<1>2. PICK x \in T : \A y \in T : ~ (<<y, x>> \in Below)
  BY <1>1, WFMin
<1>3. ASSUME NEW y \in T PROVE x <= y
  <2>1. x \in Nat /\ y \in Nat
    OBVIOUS
  <2>2. <<y, x>> \in Nat \X Nat /\ <<y, x>>[1] = y /\ <<y, x>>[2] = x
    BY <2>1
  <2>3. ~ (y < x)
    BY <1>2, <2>2 DEF Below
  <2> QED
    BY <2>1, <2>3
<1> QED
  BY <1>3

LEMMA Induct ==
  ASSUME NEW S, 0 \in S, \A n \in Nat : n \in S => n + 1 \in S
  PROVE  \A n \in Nat : n \in S
<1> DEFINE T == {n \in Nat : n \notin S}
<1> SUFFICES ASSUME T # {} PROVE FALSE
  OBVIOUS
<1>1. PICK x \in T : \A y \in T : x <= y
  <2> HIDE DEF T
  <2>1. T \subseteq Nat
    BY DEF T
  <2> QED
    BY <2>1, Least
<1>2. x \in Nat /\ x # 0 /\ x - 1 \in Nat /\ x - 1 \notin T
  BY <1>1
<1> QED
  BY <1>1, <1>2

-----------------------------------------------------------------------------
(* Sums.  A running sum exists, and there is one.                          *)

IsSum(f, n, a) ==
  /\ f \in [0 .. n -> Nat]
  /\ f[0] = 0
  /\ \A i \in 1 .. n : f[i] = f[i - 1] + a[i]

LEMMA SumExists ==
  ASSUME NEW n \in Nat, NEW a, \A i \in 1 .. n : a[i] \in Nat
  PROVE  \E f : IsSum(f, n, a)
<1> DEFINE S == {k \in Nat : k <= n => \E f : IsSum(f, k, a)}
<1>1. 0 \in S
  <2>1. IsSum([i \in 0 .. 0 |-> 0], 0, a)
    BY DEF IsSum
  <2> QED
    BY <2>1
<1>2. ASSUME NEW k \in Nat, k \in S PROVE k + 1 \in S
  <2> SUFFICES ASSUME k + 1 <= n PROVE \E f : IsSum(f, k + 1, a)
    OBVIOUS
  <2>1. PICK f : IsSum(f, k, a)
    BY <1>2
  <2> DEFINE g == [i \in 0 .. k + 1 |-> IF i = k + 1 THEN f[k] + a[k + 1] ELSE f[i]]
  <2>2. a[k + 1] \in Nat
    OBVIOUS
  <2>3. g \in [0 .. k + 1 -> Nat] /\ g[0] = 0
    BY <2>1, <2>2 DEF IsSum
  <2>4. ASSUME NEW i \in 1 .. k + 1 PROVE g[i] = g[i - 1] + a[i]
    <3>1. CASE i = k + 1
      BY <3>1, <2>1 DEF IsSum
    <3>2. CASE i # k + 1
      <4>1. i \in 1 .. k /\ i - 1 \in 0 .. k + 1 /\ i - 1 # k + 1
        BY <3>2
      <4>2. g[i] = f[i] /\ g[i - 1] = f[i - 1]
        BY <4>1, <3>2
      <4> QED
        BY <4>1, <4>2, <2>1 DEF IsSum
    <3> QED
      BY <3>1, <3>2
  <2>5. IsSum(g, k + 1, a)
    <3> HIDE DEF g
    <3> QED
      BY <2>3, <2>4 DEF IsSum
  <2> QED
    BY <2>5
<1>3. n \in S
  <2> HIDE DEF S
  <2> QED
    BY <1>1, <1>2, Induct
<1> QED
  BY <1>3

LEMMA SumUnique ==
  ASSUME NEW n \in Nat, NEW m \in Nat, n <= m, NEW a, NEW b, NEW f, NEW g,
         IsSum(f, n, a), IsSum(g, m, b), \A i \in 1 .. n : a[i] = b[i]
  PROVE  \A i \in 0 .. n : f[i] = g[i]
<1> DEFINE S == {k \in Nat : k <= n => f[k] = g[k]}
<1>1. 0 \in S
  BY DEF IsSum
<1>2. ASSUME NEW k \in Nat, k \in S PROVE k + 1 \in S
  <2> SUFFICES ASSUME k + 1 <= n PROVE f[k + 1] = g[k + 1]
    OBVIOUS
  <2>1. k + 1 \in 1 .. n /\ k + 1 \in 1 .. m /\ (k + 1) - 1 = k
    OBVIOUS
  <2>2. f[k + 1] = f[k] + a[k + 1] /\ g[k + 1] = g[k] + b[k + 1]
    BY <2>1 DEF IsSum
  <2> QED
    BY <2>1, <2>2, <1>2
<1>3. \A k \in Nat : k \in S
  <2> HIDE DEF S
  <2> QED
    BY <1>1, <1>2, Induct
<1> QED
  BY <1>3

LEMMA SumGrows ==
  ASSUME NEW n \in Nat, NEW a, \A i \in 1 .. n : a[i] \in Nat, NEW f, IsSum(f, n, a),
         NEW j \in 0 .. n
  PROVE  f[j] <= f[n]
<1> DEFINE S == {k \in Nat : j + k <= n => f[j] <= f[j + k]}
<1>1. 0 \in S
  BY DEF IsSum
<1>2. ASSUME NEW k \in Nat, k \in S PROVE k + 1 \in S
  <2> SUFFICES ASSUME j + (k + 1) <= n PROVE f[j] <= f[j + (k + 1)]
    OBVIOUS
  <2>1. j + (k + 1) \in 1 .. n /\ j + (k + 1) - 1 = j + k /\ j + k \in 0 .. n
    OBVIOUS
  <2>2. f[j + (k + 1)] = f[j + k] + a[j + (k + 1)] /\ a[j + (k + 1)] \in Nat
    BY <2>1 DEF IsSum
  <2>3. f[j] \in Nat /\ f[j + k] \in Nat
    BY <2>1 DEF IsSum
  <2>4. f[j] <= f[j + k]
    BY <1>2, <2>1
  <2> QED
    BY <2>2, <2>3, <2>4
<1>3. \A k \in Nat : k \in S
  <2> HIDE DEF S
  <2> QED
    BY <1>1, <1>2, Induct
<1>4. n - j \in Nat /\ j + (n - j) = n
  OBVIOUS
<1> QED
  BY <1>3, <1>4

-----------------------------------------------------------------------------
(* The units of a list of sales.                                           *)

\* A list of sales from pool p.
OfPool(p, list) ==
  list \in Seq(Entry) /\ \A i \in 1 .. Len(list) : p \in DOMAIN Lines[list[i].order]

Takes(p, list) == [i \in 1 .. Len(list) |-> Lines[list[i].order][p]]

LEMMA TakesNat ==
  ASSUME GrantAssumption, NEW p, NEW list, OfPool(p, list)
  PROVE  /\ Len(list) \in Nat
         /\ \A i \in 1 .. Len(list) : /\ Takes(p, list)[i] = Lines[list[i].order][p]
                                      /\ Takes(p, list)[i] \in Nat
<1>1. Len(list) \in Nat
  BY DEF OfPool
<1>2. ASSUME NEW i \in 1 .. Len(list) PROVE Lines[list[i].order][p] \in Nat
  <2>1. list[i] \in Entry /\ p \in DOMAIN Lines[list[i].order]
    BY DEF OfPool
  <2>2. list[i].order \in Orders
    BY <2>1 DEF Entry
  <2> QED
    BY <2>1, <2>2 DEF GrantAssumption
<1> QED
  BY <1>1, <1>2 DEF Takes

\* A recursive function that adds up is the running sum.
AddsUp(g, n, a) ==
  g = [i \in 0 .. n |-> g[i]] /\ \A i \in 0 .. n : g[i] = IF i = 0 THEN 0 ELSE g[i - 1] + a[i]

LEMMA RecursiveSum ==
  ASSUME NEW n \in Nat, NEW a, \A i \in 1 .. n : a[i] \in Nat, NEW f, IsSum(f, n, a),
         NEW g, AddsUp(g, n, a)
  PROVE  g[n] = f[n]
<1>0. 0 \in 0 .. n /\ \A i \in 1 .. n : i \in 0 .. n /\ i # 0
  OBVIOUS
<1> USE DEF AddsUp
<1>1. /\ g[0] = 0
      /\ \A i \in 1 .. n : g[i] = g[i - 1] + a[i]
  <2>1. g[0] = 0
    BY <1>0
  <2>2. ASSUME NEW i \in 1 .. n PROVE g[i] = g[i - 1] + a[i]
    BY <1>0
  <2> QED
    BY <2>1, <2>2
<1>2. \A k \in Nat : k <= n => g[k] \in Nat
  <2> DEFINE S == {k \in Nat : k <= n => g[k] \in Nat}
  <2>1. 0 \in S
    BY <1>1
  <2>2. ASSUME NEW k \in Nat, k \in S PROVE k + 1 \in S
    <3> SUFFICES ASSUME k + 1 <= n PROVE g[k + 1] \in Nat
      OBVIOUS
    <3>1. k + 1 \in 1 .. n /\ (k + 1) - 1 = k /\ k <= n
      OBVIOUS
    <3>2. g[k + 1] = g[(k + 1) - 1] + a[k + 1] /\ a[k + 1] \in Nat
      BY <3>1, <1>1
    <3>3. g[k] \in Nat
      BY <3>1, <2>2
    <3> QED
      BY <3>1, <3>2, <3>3
  <2> HIDE DEF S
  <2>3. \A k \in Nat : k \in S
    BY <2>1, <2>2, Induct
  <2> QED
    BY <2>3 DEF S
<1>3. g \in [0 .. n -> Nat]
  BY <1>2
<1>4. IsSum(g, n, a)
  BY <1>1, <1>3 DEF IsSum
<1>5. \A i \in 0 .. n : g[i] = f[i]
  BY <1>4, SumUnique
<1> QED
  BY <1>5

\* The units are the last of the running sum.
LEMMA UnitsIs ==
  ASSUME GrantAssumption, NEW p, NEW list, OfPool(p, list),
         NEW f, IsSum(f, Len(list), Takes(p, list))
  PROVE  Units(p, list) = f[Len(list)]
<1> DEFINE n == Len(list)
           a == Takes(p, list)
           Is(g) == g = [i \in 0 .. n |-> IF i = 0 THEN 0
                                          ELSE g[i - 1] + Lines[list[i].order][p]]
           sum == CHOOSE g : Is(g)
<1>1. n \in Nat /\ \A i \in 1 .. n : a[i] = Lines[list[i].order][p] /\ a[i] \in Nat
  BY TakesNat
<1>2. Is(f)
  <2> HIDE DEF n, a
  <2>1. \A i \in 0 .. n : f[i] = IF i = 0 THEN 0 ELSE f[i - 1] + Lines[list[i].order][p]
    BY <1>1 DEF IsSum, n, a
  <2> QED
    BY <2>1 DEF IsSum, n
<1>3. Is(sum)
  <2> HIDE DEF Is
  <2> QED
    BY <1>2
<1>4. sum[n] = f[n]
  <2> HIDE DEF sum, n, a
  <2>1. /\ DOMAIN sum = 0 .. n
        /\ \A i \in 0 .. n : sum[i] = IF i = 0 THEN 0
                                       ELSE sum[i - 1] + Lines[list[i].order][p]
    BY <1>3
  <2>2. sum = [i \in 0 .. n |-> sum[i]]
    BY <1>3
  <2>3. ASSUME NEW i \in 0 .. n
        PROVE  sum[i] = IF i = 0 THEN 0 ELSE sum[i - 1] + a[i]
    <3>1. CASE i = 0
      BY <2>1, <3>1
    <3>2. CASE i # 0
      <4>1. i \in 1 .. n
        BY <3>2, <1>1
      <4> QED
        BY <2>1, <3>2, <4>1, <1>1
    <3> QED
      BY <3>1, <3>2
  <2>4. IsSum(f, n, a)
    BY DEF n, a
  <2>5. n \in Nat
    BY <1>1
  <2>6. \A i \in 1 .. n : a[i] \in Nat
    BY <1>1
  <2>7. AddsUp(sum, n, a)
    BY <2>2, <2>3 DEF AddsUp
  <2> QED
    BY <2>4, <2>5, <2>6, <2>7, RecursiveSum
<1>5. Units(p, list) = sum[n]
  BY DEF Units
<1> QED
  BY <1>4, <1>5

LEMMA UnitsNat ==
  ASSUME GrantAssumption, NEW p, NEW list, OfPool(p, list)
  PROVE  Units(p, list) \in Nat
<1>1. Len(list) \in Nat /\ \A i \in 1 .. Len(list) : Takes(p, list)[i] \in Nat
  BY TakesNat
<1>2. PICK f : IsSum(f, Len(list), Takes(p, list))
  BY <1>1, SumExists
<1>3. Units(p, list) = f[Len(list)]
  BY <1>2, UnitsIs
<1> QED
  BY <1>1, <1>2, <1>3 DEF IsSum

LEMMA UnitsNone ==
  ASSUME GrantAssumption, NEW p
  PROVE  Units(p, <<>>) = 0
<1>1. OfPool(p, <<>>) /\ Len(<<>>) = 0
  BY DEF OfPool
<1>2. PICK f : IsSum(f, 0, Takes(p, <<>>))
  <2>1. \A i \in 1 .. 0 : Takes(p, <<>>)[i] \in Nat
    OBVIOUS
  <2> QED
    BY <2>1, SumExists
<1>3. Units(p, <<>>) = f[0]
  BY <1>1, <1>2, UnitsIs
<1> QED
  BY <1>2, <1>3 DEF IsSum

LEMMA UnitsAppend ==
  ASSUME GrantAssumption, NEW p, NEW list, OfPool(p, list),
         NEW e \in Entry, p \in DOMAIN Lines[e.order]
  PROVE  /\ OfPool(p, Append(list, e))
         /\ Units(p, Append(list, e)) = Units(p, list) + Lines[e.order][p]
<1> DEFINE n == Len(list)
           more == Append(list, e)
<1>1. /\ n \in Nat /\ Len(more) = n + 1
      /\ \A i \in 1 .. n : more[i] = list[i]
      /\ more[n + 1] = e /\ more \in Seq(Entry)
  BY DEF OfPool
<1>2. OfPool(p, more)
  <2> HIDE DEF more, n
  <2>1. \A i \in 1 .. n + 1 : p \in DOMAIN Lines[more[i].order]
    BY <1>1 DEF OfPool, n
  <2> QED
    BY <1>1, <2>1 DEF OfPool
<1> HIDE DEF more
<1>3. \A i \in 1 .. n + 1 : Takes(p, more)[i] \in Nat /\ Takes(p, more)[i] = Lines[more[i].order][p]
  BY <1>1, <1>2, TakesNat
<1>4. \A i \in 1 .. n : Takes(p, list)[i] = Lines[list[i].order][p]
  BY TakesNat
<1>5. PICK f : IsSum(f, n + 1, Takes(p, more))
  BY <1>1, <1>3, SumExists
<1> DEFINE g == [i \in 0 .. n |-> f[i]]
<1>6. IsSum(g, n, Takes(p, list))
  <2>1. \A i \in 1 .. n : Takes(p, more)[i] = Takes(p, list)[i]
    BY <1>1, <1>3, <1>4
  <2>2. g \in [0 .. n -> Nat] /\ g[0] = 0
    BY <1>1, <1>5 DEF IsSum
  <2>3. ASSUME NEW i \in 1 .. n PROVE g[i] = g[i - 1] + Takes(p, list)[i]
    <3>1. i \in 1 .. n + 1 /\ i \in 0 .. n /\ i - 1 \in 0 .. n
      BY <1>1
    <3>2. f[i] = f[i - 1] + Takes(p, more)[i]
      BY <3>1, <1>5 DEF IsSum
    <3> QED
      BY <3>1, <3>2, <2>1
  <2> QED
    BY <2>2, <2>3 DEF IsSum
<1>7. Units(p, list) = f[n]
  <2>1. Units(p, list) = g[n]
    BY <1>6, UnitsIs
  <2> QED
    BY <2>1, <1>1
<1>8. Units(p, more) = f[n + 1]
  BY <1>1, <1>2, <1>5, UnitsIs
<1>9. f[n + 1] = f[n] + Lines[e.order][p]
  <2>1. f[n + 1] = f[(n + 1) - 1] + Takes(p, more)[n + 1]
    BY <1>1, <1>5 DEF IsSum
  <2> QED
    BY <2>1, <1>1, <1>3
<1> QED
  BY <1>2, <1>7, <1>8, <1>9 DEF more

-----------------------------------------------------------------------------
(* Prefixes.                                                               *)

LEMMA PrefixIs ==
  ASSUME NEW S, NEW s \in Seq(S), NEW t \in Seq(S)
  PROVE  IsPrefix(s, t) <=> Len(s) <= Len(t) /\ \A i \in 1 .. Len(s) : s[i] = t[i]
<1>1. ASSUME IsPrefix(s, t), NEW i \in 1 .. Len(s) PROVE s[i] = t[i]
  <2>1. SubSeq(s, 1, Len(s))[i] = s[i] /\ SubSeq(t, 1, Len(s))[i] = t[i]
    BY <1>1 DEF IsPrefix
  <2> QED
    BY <1>1, <2>1 DEF IsPrefix
<1>2. ASSUME Len(s) <= Len(t), \A i \in 1 .. Len(s) : s[i] = t[i]
      PROVE  IsPrefix(s, t)
  <2>1. /\ SubSeq(s, 1, Len(s)) \in Seq(S) /\ SubSeq(t, 1, Len(s)) \in Seq(S)
        /\ Len(SubSeq(s, 1, Len(s))) = Len(s) /\ Len(SubSeq(t, 1, Len(s))) = Len(s)
        /\ \A i \in 1 .. Len(s) : /\ SubSeq(s, 1, Len(s))[i] = s[i]
                                  /\ SubSeq(t, 1, Len(s))[i] = t[i]
    BY <1>2
  <2> QED
    BY <2>1, <1>2 DEF IsPrefix
<1>3. IsPrefix(s, t) => Len(s) <= Len(t)
  BY DEF IsPrefix
<1> QED
  BY <1>1, <1>2, <1>3

LEMMA PrefixRefl ==
  ASSUME NEW S, NEW s \in Seq(S)
  PROVE  IsPrefix(s, s)
BY DEF IsPrefix

LEMMA PrefixTrans ==
  ASSUME NEW S, NEW s \in Seq(S), NEW t \in Seq(S), NEW u \in Seq(S),
         IsPrefix(s, t), IsPrefix(t, u)
  PROVE  IsPrefix(s, u)
<1>1. Len(s) <= Len(t) /\ \A i \in 1 .. Len(s) : s[i] = t[i]
  BY PrefixIs
<1>2. Len(t) <= Len(u) /\ \A i \in 1 .. Len(t) : t[i] = u[i]
  BY PrefixIs
<1>3. Len(s) <= Len(u) /\ \A i \in 1 .. Len(s) : s[i] = u[i]
  BY <1>1, <1>2
<1> QED
  BY <1>3, PrefixIs

LEMMA PrefixAppend ==
  ASSUME NEW S, NEW s \in Seq(S), NEW e \in S
  PROVE  /\ Append(s, e) \in Seq(S) /\ IsPrefix(s, Append(s, e))
         /\ \A t \in Seq(S) : IsPrefix(t, s) => IsPrefix(t, Append(s, e))
<1> DEFINE u == Append(s, e)
<1>1. u \in Seq(S) /\ Len(s) <= Len(u) /\ \A i \in 1 .. Len(s) : s[i] = u[i]
  OBVIOUS
<1> HIDE DEF u
<1>2. IsPrefix(s, u)
  BY <1>1, PrefixIs
<1>3. \A t \in Seq(S) : IsPrefix(t, s) => IsPrefix(t, u)
  BY <1>1, <1>2, PrefixTrans
<1> QED
  BY <1>1, <1>2, <1>3 DEF u

LEMMA PrefixEmpty ==
  ASSUME NEW S, NEW s \in Seq(S)
  PROVE  <<>> \in Seq(S) /\ IsPrefix(<<>>, s) /\ (IsPrefix(s, <<>>) => s = <<>>)
<1>1. <<>> \in Seq(S) /\ Len(<<>>) = 0
  OBVIOUS
<1>2. IsPrefix(<<>>, s)
  BY <1>1 DEF IsPrefix
<1>3. ASSUME IsPrefix(s, <<>>) PROVE s = <<>>
  BY <1>1, <1>3 DEF IsPrefix
<1> QED
  BY <1>1, <1>2, <1>3

LEMMA PrefixSub ==
  ASSUME NEW S, NEW s \in Seq(S), NEW i \in 1 .. Len(s)
  PROVE  SubSeq(s, 1, i) \in Seq(S) /\ IsPrefix(SubSeq(s, 1, i), s)
<1> DEFINE u == SubSeq(s, 1, i)
<1>1. u \in Seq(S) /\ Len(u) = i /\ \A k \in 1 .. i : u[k] = s[k]
  OBVIOUS
<1>2. Len(u) <= Len(s) /\ \A k \in 1 .. Len(u) : u[k] = s[k]
  BY <1>1
<1> HIDE DEF u
<1>3. IsPrefix(u, s)
  BY <1>1, <1>2, PrefixIs
<1> QED
  BY <1>1, <1>3 DEF u

\* A prefix without its last entry, and the last entry.
LEMMA FrontLast ==
  ASSUME NEW S, NEW s \in Seq(S), s # <<>>
  PROVE  /\ Len(s) >= 1 /\ Front(s) \in Seq(S) /\ Len(Front(s)) = Len(s) - 1
         /\ Last(s) \in S /\ s = Append(Front(s), Last(s))
<1>1. Len(s) \in Nat /\ Len(s) >= 1
  OBVIOUS
<1>2. /\ Front(s) \in Seq(S) /\ Len(Front(s)) = Len(s) - 1
      /\ \A i \in 1 .. Len(s) - 1 : Front(s)[i] = s[i]
  <2> DEFINE m == Len(s) - 1
  <2>1. m \in Nat /\ m <= Len(s)
    BY <1>1
  <2>2. /\ SubSeq(s, 1, m) \in Seq(S) /\ Len(SubSeq(s, 1, m)) = m
        /\ \A i \in 1 .. m : SubSeq(s, 1, m)[i] = s[i]
    <3> HIDE DEF m
    <3>1. \A i \in 1 .. m : s[i] \in S
      BY <2>1
    <3> QED
      BY <2>1, <3>1, SubSeqProperties
  <2> QED
    BY <2>2 DEF Front
<1>3. Last(s) \in S /\ Last(s) = s[Len(s)]
  BY <1>1 DEF Last
<1>4. /\ Append(Front(s), Last(s)) \in Seq(S)
      /\ Len(Append(Front(s), Last(s))) = Len(s)
      /\ \A i \in 1 .. Len(s) : Append(Front(s), Last(s))[i] = s[i]
  BY <1>1, <1>2, <1>3
<1> QED
  BY <1>1, <1>2, <1>3, <1>4

\* A prefix of a pool's sales takes no more units.
LEMMA UnitsPrefix ==
  ASSUME GrantAssumption, NEW p, NEW s \in Seq(Entry), NEW t, OfPool(p, t), IsPrefix(s, t)
  PROVE  OfPool(p, s) /\ Units(p, s) <= Units(p, t)
<1>1. t \in Seq(Entry)
  BY DEF OfPool
<1>2. Len(s) <= Len(t) /\ \A i \in 1 .. Len(s) : s[i] = t[i]
  BY <1>1, PrefixIs
<1>3. OfPool(p, s)
  BY <1>1, <1>2 DEF OfPool
<1>4. \A i \in 1 .. Len(t) : Takes(p, t)[i] = Lines[t[i].order][p] /\ Takes(p, t)[i] \in Nat
  BY TakesNat
<1>5. \A i \in 1 .. Len(s) : Takes(p, s)[i] = Lines[s[i].order][p] /\ Takes(p, s)[i] \in Nat
  BY <1>3, TakesNat
<1>6. Len(s) \in Nat /\ Len(t) \in Nat
  BY <1>1
<1>7. \A i \in 1 .. Len(s) : Takes(p, s)[i] = Takes(p, t)[i]
  BY <1>2, <1>4, <1>5, <1>6
<1>8. PICK f : IsSum(f, Len(t), Takes(p, t))
  BY <1>4, <1>6, SumExists
<1>9. PICK g : IsSum(g, Len(s), Takes(p, s))
  BY <1>5, <1>6, SumExists
<1>10. g[Len(s)] = f[Len(s)]
  <2>1. \A i \in 0 .. Len(s) : g[i] = f[i]
    BY <1>2, <1>6, <1>7, <1>8, <1>9, SumUnique
  <2> QED
    BY <2>1, <1>6
<1>11. f[Len(s)] <= f[Len(t)]
  BY <1>2, <1>4, <1>6, <1>8, SumGrows
<1>12. Units(p, t) = f[Len(t)] /\ Units(p, s) = g[Len(s)]
  BY <1>3, <1>8, <1>9, UnitsIs
<1> QED
  BY <1>3, <1>10, <1>11, <1>12

-----------------------------------------------------------------------------
(* The inductive invariant.                                                *)

Assumptions == GrantAssumption /\ StockAssumption /\ DeviceAssumption

Stops == {"closing", "closed"}
Registered == {"active", "retired"}

Has(list, o) == \E i \in 1 .. Len(list) : list[i].order = o

\* A device's label and row fit each other.  A label's pools are its writer's, and so
\* are the row's; a journal that may be written belongs to the row.
LabelOK(d) ==
  /\ label[d].mode = "none" => label[d] = NoLabel /\ row[d].state = "none"
  /\ label[d].mode = "target" => row[d].state \in {"none", "target", "active"}
  /\ label[d].mode = "writer" =>
       /\ label[d].writer \in Devices
       /\ \A p \in label[d].pools : writer[p] = label[d].writer
       /\ row[d].state \in {"none", "active", "retired"}
       /\ row[d].state # "none" =>
            row[d].writer = label[d].writer /\ row[d].pools \subseteq label[d].pools

RowOK(d) ==
  /\ row[d].state = "none" => row[d] = NoRow
  /\ row[d].state \in Registered =>
       /\ row[d].writer \in Devices
       /\ \A p \in row[d].pools :
            writer[p] = row[d].writer /\ journal[d][p].state # "none"

PoolOK(d, p) ==
  /\ journal[d][p].state = "none" => journal[d][p] = NoPool
  /\ journal[d][p].recovered => journal[d][p].state \in Stops
  /\ journal[d][p].state # "none" /\ ~journal[d][p].recovered =>
       row[d].state \in Registered /\ p \in row[d].pools

DeviceOK(d) == LabelOK(d) /\ RowOK(d) /\ \A p \in Grants : PoolOK(d, p)
AllDevices == \A d \in Devices : DeviceOK(d)

\* Who may write for w: a device with the current row, or a handover whose target has
\* not taken it yet.
Here(d, w) == row[d].state = "active" /\ row[d].writer = w
Saved(s) == s \in transfers \/ row[s].state = "retired"
Open(t) == label[t].mode # "writer" /\ row[t].state \in {"none", "target"}
Away(s, w) == Saved(s) /\ outgoing[s].writer = w /\ Open(outgoing[s].to)

OneHolder ==
  \A w \in Devices :
    /\ \A d, e \in Devices : Here(d, w) /\ Here(e, w) => d = e
    /\ \A s, u \in Devices : Away(s, w) /\ Away(u, w) => s = u
    /\ \A d, s \in Devices : ~ (Here(d, w) /\ Away(s, w))

\* A copy of pool p from which an organizer may go on: it has every sale, and it has
\* stopped if a closing record was sent.
CurrentCopy(p, pool) ==
  /\ pool.chain = ledger[p]
  /\ closes[p] # {} => pool.state \in Stops

\* What the holder for w must have: every pool of w that was begun, and every decision
\* on an order of w.
CurrentPools(w, pools, copies) ==
  \A p \in Grants : writer[p] = w =>
    IF p \in pools THEN CurrentCopy(p, copies[p]) ELSE ledger[p] = <<>> /\ closes[p] = {}
Concerns(r, w) == \E p \in DOMAIN Lines[r.order] : writer[p] = w

Holders ==
  \A d, w \in Devices :
    /\ Here(d, w) =>
         /\ CurrentPools(w, row[d].pools, journal[d])
         /\ \A r \in released : Concerns(r, w) => handed[d][r.order] = r.by
    /\ Away(d, w) =>
         /\ CurrentPools(w, DOMAIN outgoing[d].snapshot.pools, outgoing[d].snapshot.pools)
         /\ \A r \in released : Concerns(r, w) =>
              /\ r.order \in DOMAIN outgoing[d].snapshot.handed
              /\ outgoing[d].snapshot.handed[r.order] = r.by

\* The device that named itself w keeps its label; and the label lists pools when a
\* pool of w was begun, or the journal is with another device.
Origin(w) == label[w].mode = "writer" /\ label[w].writer = w
Begun(p) == ledger[p] # <<>> \/ closes[p] # {}

Origins ==
  /\ \A p \in Grants : writer[p] # NoDevice => Origin(writer[p])
  /\ \A p \in Grants : Begun(p) => writer[p] # NoDevice /\ label[writer[p]].pools # {}
  /\ \A d, w \in Devices :
       /\ Here(d, w) => Origin(w) /\ (d # w => label[w].pools # {})
       /\ Saved(d) /\ outgoing[d].writer = w => Origin(w) /\ label[w].pools # {}

\* What a handover carries.
SnapshotOK(w, snapshot) ==
  /\ DOMAIN snapshot.pools \subseteq Grants /\ DOMAIN snapshot.pools # {}
  /\ DOMAIN snapshot.handed \subseteq Orders
  /\ \A p \in DOMAIN snapshot.pools :
       /\ writer[p] = w
       /\ snapshot.pools[p] \in Pool
       /\ snapshot.pools[p].state # "none" /\ ~snapshot.pools[p].recovered
       /\ IsPrefix(snapshot.pools[p].chain, ledger[p])
  /\ \A o \in DOMAIN snapshot.handed :
       snapshot.handed[o] # NoDevice => [order |-> o, by |-> snapshot.handed[o]] \in released

CapturedOK(d) ==
  captured[d] # NoTransfer =>
    /\ captured[d].to \in Devices
    /\ label[d].mode = "writer"
    /\ captured[d].row \in Row /\ captured[d].row.state = "active"
    /\ captured[d].row.writer \in Devices
    /\ SnapshotOK(captured[d].row.writer, captured[d].snapshot)
SavedOK(d) ==
  Saved(d) =>
    /\ label[d].mode = "writer" /\ label[d].pools # {}
    /\ row[d].state \in {"none", "retired"}
    /\ outgoing[d].to \in Devices /\ outgoing[d].writer \in Devices
    /\ outgoing[d].generation \in Nat
    /\ SnapshotOK(outgoing[d].writer, outgoing[d].snapshot)

Handovers ==
  /\ DOMAIN captured = Devices /\ DOMAIN outgoing = Devices
  /\ \A d \in Devices : CapturedOK(d) /\ SavedOK(d)

\* An order was sold from all its pools, for one writer; a closing record is final.
Sales ==
  /\ \A p \in Grants : OfPool(p, ledger[p]) /\ Units(p, ledger[p]) <= Quantity[p]
  /\ \A p \in Grants : \A c \in closes[p] : c = ledger[p]
  /\ \A o \in Orders : \A p, q \in DOMAIN Lines[o] :
       Has(ledger[p], o) => writer[q] = writer[p] /\ Has(ledger[q], o)

\* A decision is published after it was made, for an order that was sold.
Decisions ==
  /\ handouts \subseteq released
  /\ \A d \in Devices, o \in Orders :
       handed[d][o] # NoDevice => [order |-> o, by |-> handed[d][o]] \in released
  /\ \A r \in released : \A p \in DOMAIN Lines[r.order] : Has(ledger[p], r.order)
  /\ HandedOutOnce

\* The seller's hold is on the pool that was granted last, and the stock covers it.
Holds ==
  /\ \A g \in Goods : hold[g] \in Grants => Good[hold[g]] = g /\ writer[hold[g]] # NoDevice
  /\ \A p \in Grants : writer[p] # NoDevice => hold[Good[p]] = p \/ p \in reconciled
  /\ \A p \in reconciled : imported[p] \in closes[p]
  /\ \A g \in Goods : Outstanding(g) \in 0 .. stock[g]

IInv ==
  /\ TypeOK /\ AllDevices /\ OneHolder /\ Holders /\ Origins /\ Handovers
  /\ Sales /\ NoFork /\ Decisions /\ Holds

-----------------------------------------------------------------------------
(* What each part is about.                                                *)

deviceParts == <<label, row, journal, writer>>
tokenParts == <<label, row, outgoing, transfers>>
holderParts == <<tokenParts, journal, handed, writer, ledger, closes, released>>
originParts == <<tokenParts, writer, ledger, closes>>
handoverParts == <<tokenParts, captured, writer, ledger, released>>
saleParts == <<closes, ledger, writer>>
forkParts == <<imported, ledger, journal, sent, closes>>
decisionParts == <<handouts, released, handed, ledger>>
holdParts == <<hold, writer, reconciled, imported, closes, stock>>

LEMMA DevicesFrame ==
  ASSUME AllDevices, UNCHANGED deviceParts PROVE AllDevices'
BY DEF AllDevices, DeviceOK, LabelOK, RowOK, PoolOK, deviceParts

LEMMA OneHolderFrame ==
  ASSUME OneHolder, UNCHANGED tokenParts PROVE OneHolder'
BY DEF OneHolder, Here, Away, Saved, Open, tokenParts

LEMMA HoldersFrame ==
  ASSUME Holders, UNCHANGED holderParts PROVE Holders'
BY DEF Holders, Here, Away, Saved, Open, CurrentPools, CurrentCopy, Concerns,
       holderParts, tokenParts

LEMMA OriginsFrame ==
  ASSUME Origins, UNCHANGED originParts PROVE Origins'
BY DEF Origins, Origin, Begun, Here, Saved, originParts, tokenParts

LEMMA HandoversFrame ==
  ASSUME Handovers, UNCHANGED handoverParts PROVE Handovers'
BY DEF Handovers, CapturedOK, SavedOK, SnapshotOK, Saved, handoverParts, tokenParts

LEMMA SalesFrame ==
  ASSUME Sales, UNCHANGED saleParts PROVE Sales'
BY DEF Sales, OfPool, Has, saleParts

LEMMA ForkFrame ==
  ASSUME NoFork, UNCHANGED forkParts PROVE NoFork'
BY DEF NoFork, forkParts

LEMMA DecisionsFrame ==
  ASSUME Decisions, UNCHANGED decisionParts PROVE Decisions'
BY DEF Decisions, HandedOutOnce, Has, decisionParts

LEMMA HoldsFrame ==
  ASSUME Holds, UNCHANGED holdParts PROVE Holds'
BY DEF Holds, Outstanding, holdParts

\* A device whose label, row and journal a step leaves alone; grants are only added.
WritersKept == \A p \in Grants : writer[p] # NoDevice => writer'[p] = writer[p]

LEMMA DeviceSame ==
  ASSUME Assumptions, IInv, WritersKept, NEW d \in Devices,
         label'[d] = label[d], row'[d] = row[d], journal'[d] = journal[d]
  PROVE  DeviceOK(d)'
<1>1. DeviceOK(d) /\ label[d] \in Label /\ row[d] \in Row
  BY DEF IInv, AllDevices, TypeOK
<1>2. \A p \in label[d].pools \cup row[d].pools : p \in Grants
  BY <1>1 DEF Label, Row
<1>3. NoDevice \notin Devices
  BY DEF Assumptions, GrantAssumption
<1>4. LabelOK(d)'
  BY <1>1, <1>2, <1>3 DEF DeviceOK, LabelOK, WritersKept
<1>5. RowOK(d)'
  BY <1>1, <1>2, <1>3 DEF DeviceOK, RowOK, WritersKept
<1>6. \A p \in Grants : PoolOK(d, p)'
  BY <1>1 DEF DeviceOK, PoolOK
<1> QED
  BY <1>4, <1>5, <1>6 DEF DeviceOK

-----------------------------------------------------------------------------
(* The initial states.                                                     *)

LEMMA InitInv ==
  ASSUME Assumptions, Init
  PROVE  IInv
<1> USE DEF Init, ShopInit, DeviceInit
<1>1. TypeOK
  <2>1. NoLabel \in Label /\ NoRow \in Row /\ NoPool \in Pool
    BY DEF NoLabel, NoRow, NoPool, Label, Row, Pool
  <2>2. NoJournal \in [Grants -> Pool] /\ NothingHanded \in [Orders -> Devices \cup {NoDevice}]
    BY <2>1 DEF NoJournal, NothingHanded
  <2>3. InitialStock \in 0 .. InitialStock
    BY DEF Assumptions, StockAssumption
  <2>4. /\ imported \in [Grants -> Seq(Entry)] /\ ledger \in [Grants -> Seq(Entry)]
        /\ sent \in [Grants -> SUBSET Seq(Entry)] /\ closes \in [Grants -> SUBSET Seq(Entry)]
    <3>1. <<>> \in Seq(Entry) /\ {} \in SUBSET Seq(Entry)
      OBVIOUS
    <3> QED
      BY <3>1
  <2>5. /\ label \in [Devices -> Label] /\ row \in [Devices -> Row]
        /\ journal \in [Devices -> [Grants -> Pool]]
        /\ handed \in [Devices -> [Orders -> Devices \cup {NoDevice}]]
    BY <2>1, <2>2
  <2>6. /\ UNION {reconciled, committed, closedOut, delivered} \subseteq Grants
        /\ transfers \subseteq Devices /\ handouts \cup released \subseteq Entry
    OBVIOUS
  <2> HIDE DEF DeviceInit
  <2> QED
    BY <2>3, <2>4, <2>5, <2>6 DEF TypeOK
<1>2. AllDevices
  BY DEF AllDevices, DeviceOK, LabelOK, RowOK, PoolOK, NoLabel, NoRow, NoJournal, NoPool, Registered
<1>3. OneHolder
  BY DEF OneHolder, Here, Away, Saved, NoRow
<1>4. Holders
  BY DEF Holders, Here, Away, Saved, NoRow
<1>5. Origins
  BY DEF Origins, Here, Saved, Begun, NoRow
<1>6. Handovers
  BY DEF Handovers, CapturedOK, SavedOK, Saved, NoRow
<1>7. Sales
  <2>1. \A p \in Grants : OfPool(p, <<>>)
    BY DEF OfPool
  <2>2. \A p \in Grants : Units(p, <<>>) <= Quantity[p]
    BY UnitsNone DEF Assumptions, GrantAssumption
  <2>3. \A p \in Grants, o \in Orders : ~ Has(ledger[p], o)
    BY DEF Has
  <2>4. \A o \in Orders : DOMAIN Lines[o] \subseteq Grants
    BY DEF Assumptions, GrantAssumption
  <2> QED
    BY <2>1, <2>2, <2>3, <2>4 DEF Sales
<1>8. NoFork
  <2>1. IsPrefix(<<>>, <<>>)
    BY DEF IsPrefix
  <2> QED
    BY <2>1 DEF NoFork, NoJournal, NoPool
<1>9. Decisions
  BY DEF Decisions, HandedOutOnce, NothingHanded
<1>10. Holds
  BY DEF Holds, Outstanding, Assumptions, GrantAssumption, StockAssumption
<1> QED
  BY <1>1, <1>2, <1>3, <1>4, <1>5, <1>6, <1>7, <1>8, <1>9, <1>10 DEF IInv

-----------------------------------------------------------------------------
(* The seller's steps.                                                     *)

deviceSide == <<deviceVars, transfers, handouts, ledger, released>>
grantParts == <<hold, writer, reconciled, imported, sent, closes>>

LEMMA MaxIs ==
  ASSUME NEW a \in Int, NEW b \in Int
  PROVE  Max({a, b}) \in {a, b} /\ Max({a, b}) >= a /\ Max({a, b}) >= b
BY DEF Max

\* What the stock, the allocations and the outstanding units are.
LEMMA ShopTypes ==
  ASSUME Assumptions, IInv, NEW g \in Goods
  PROVE  /\ stock[g] \in Nat /\ stock[g] <= InitialStock
         /\ alloc[g] \in Nat /\ alloc[g] <= InitialStock
         /\ Outstanding(g) \in Nat /\ Outstanding(g) <= stock[g]
         /\ Effective(g) \in Nat /\ Effective(g) >= Outstanding(g)
         /\ ~over => Effective(g) >= alloc[g]
         /\ Effective(g) # Outstanding(g) => ~over /\ Effective(g) = alloc[g]
<1>1. /\ stock[g] \in Nat /\ stock[g] <= InitialStock
      /\ alloc[g] \in Nat /\ alloc[g] <= InitialStock
  BY DEF IInv, TypeOK, Assumptions, StockAssumption
<1>2. Outstanding(g) \in 0 .. stock[g]
  BY DEF IInv, Holds
<1>3. Outstanding(g) \in Nat /\ Outstanding(g) <= stock[g]
  BY <1>1, <1>2
<1> DEFINE a == IF over THEN 0 ELSE alloc[g]
<1>4. a \in Int
  BY <1>1
<1>5. Max({a, Outstanding(g)}) \in {a, Outstanding(g)} /\ Max({a, Outstanding(g)}) >= a
      /\ Max({a, Outstanding(g)}) >= Outstanding(g)
  <2> HIDE DEF a
  <2> QED
    BY <1>3, <1>4, MaxIs
<1>6. Effective(g) = Max({a, Outstanding(g)})
  BY DEF Effective
<1> QED
  BY <1>1, <1>3, <1>5, <1>6

\* A step that leaves every grant alone, and the stock no smaller than it must be.
LEMMA ShopStep ==
  ASSUME IInv, TypeOK', UNCHANGED <<deviceSide, grantParts>>,
         \A g \in Goods : Outstanding(g) <= stock'[g]
  PROVE  IInv'
<1> USE DEF deviceSide, deviceVars, grantParts
<1>1. AllDevices' /\ OneHolder' /\ Holders' /\ Origins' /\ Handovers' /\ Sales' /\ NoFork'
      /\ Decisions'
  BY DevicesFrame, OneHolderFrame, HoldersFrame, OriginsFrame, HandoversFrame, SalesFrame,
     ForkFrame, DecisionsFrame
  DEF IInv, deviceParts, tokenParts, holderParts, originParts, handoverParts, saleParts,
      forkParts, decisionParts
<1>2. Holds'
  <2>1. \A g \in Goods : Outstanding(g)' = Outstanding(g)
    BY DEF Outstanding
  <2>2. \A g \in Goods : Outstanding(g) \in 0 .. stock[g]
    BY DEF IInv, Holds
  <2>3. \A g \in Goods : stock'[g] \in Int
    BY DEF TypeOK
  <2>4. \A g \in Goods : stock[g] \in Int
    BY DEF IInv, TypeOK
  <2>5. \A g \in Goods : Outstanding(g)' \in 0 .. stock'[g]
    BY <2>1, <2>2, <2>3, <2>4
  <2> QED
    BY <2>5 DEF IInv, Holds
<1> QED
  BY <1>1, <1>2 DEF IInv

LEMMA TradeInv ==
  ASSUME Assumptions, IInv, Trade, UNCHANGED deviceSide
  PROVE  IInv'
<1> USE DEF wireVars, Queue, Behind
<1>0. InitialStock \in Nat
  BY DEF Assumptions, StockAssumption
<1>1. ASSUME NEW g \in Goods, SellOrdinary(g) PROVE IInv'
  <2>1. /\ stock[g] - 1 \in 0 .. InitialStock
        /\ Outstanding(g) <= stock[g] - 1
    BY <1>0, <1>1, ShopTypes DEF SellOrdinary
  <2>2. TypeOK'
    BY <1>1, <2>1 DEF SellOrdinary, IInv, TypeOK, deviceSide, deviceVars
  <2>3. \A k \in Goods : Outstanding(k) <= stock'[k]
    BY <1>1, <2>1, ShopTypes DEF SellOrdinary, IInv, TypeOK
  <2> QED
    BY <1>1, <2>2, <2>3, ShopStep DEF SellOrdinary, grantParts
<1>2. ASSUME NEW g \in Goods, SellPickup(g) PROVE IInv'
  <2>1. /\ stock[g] - 1 \in 0 .. InitialStock /\ alloc[g] - 1 \in 0 .. InitialStock
        /\ Outstanding(g) <= stock[g] - 1
    BY <1>0, <1>2, ShopTypes DEF SellPickup
  <2>2. TypeOK'
    BY <1>2, <2>1 DEF SellPickup, IInv, TypeOK, deviceSide, deviceVars
  <2>3. \A k \in Goods : Outstanding(k) <= stock'[k]
    BY <1>2, <2>1, ShopTypes DEF SellPickup, IInv, TypeOK
  <2> QED
    BY <1>2, <2>2, <2>3, ShopStep DEF SellPickup, grantParts
<1>3. ASSUME NEW g \in Goods, SettlePickup(g) PROVE IInv'
  <2>1. /\ stock[g] - 1 \in 0 .. InitialStock
        /\ (IF alloc[g] = 0 THEN 0 ELSE alloc[g] - 1) \in 0 .. InitialStock
        /\ Outstanding(g) <= stock[g] - 1
    BY <1>0, <1>3, ShopTypes DEF SettlePickup
  <2>2. TypeOK'
    BY <1>3, <2>1 DEF SettlePickup, IInv, TypeOK, deviceSide, deviceVars
  <2>3. \A k \in Goods : Outstanding(k) <= stock'[k]
    BY <1>3, <2>1, ShopTypes DEF SettlePickup, IInv, TypeOK
  <2> QED
    BY <1>3, <2>2, <2>3, ShopStep DEF SettlePickup, grantParts
<1>4. ASSUME NEW g \in Goods, NEW n \in 0 .. InitialStock, EditAllocation(g, n) PROVE IInv'
  <2>1. TypeOK'
    BY <1>4 DEF EditAllocation, IInv, TypeOK, deviceSide, deviceVars
  <2>2. \A k \in Goods : Outstanding(k) <= stock'[k]
    BY <1>4, ShopTypes DEF EditAllocation
  <2> QED
    BY <1>4, <2>1, <2>2, ShopStep DEF EditAllocation, grantParts
<1>5. ASSUME NEW g \in Goods, NEW n \in 0 .. InitialStock, EditStock(g, n) PROVE IInv'
  <2>1. TypeOK'
    BY <1>5 DEF EditStock, IInv, TypeOK, deviceSide, deviceVars
  <2>2. \A k \in Goods : Outstanding(k) <= stock'[k]
    BY <1>5, ShopTypes DEF EditStock, IInv, TypeOK
  <2> QED
    BY <1>5, <2>1, <2>2, ShopStep DEF EditStock, grantParts
<1> QED
  BY <1>1, <1>2, <1>3, <1>4, <1>5 DEF Trade

LEMMA PublicationInv ==
  ASSUME Assumptions, IInv, UNCHANGED deviceSide,
         End \/ \E g \in Goods : Publish(g) \/ PublishReservation(g) \/ DeliverGrant(g)
  PROVE  IInv'
<1> USE DEF wireVars
<1>1. TypeOK' /\ UNCHANGED <<grantParts, stock>>
  <2>1. CASE End
    BY <2>1 DEF End, IInv, TypeOK, deviceSide, deviceVars, grantParts
  <2>2. ASSUME NEW g \in Goods, Publish(g)
        PROVE  TypeOK' /\ UNCHANGED <<grantParts, stock>>
    BY <2>2 DEF Publish, IInv, TypeOK, deviceSide, deviceVars, grantParts
  <2>3. ASSUME NEW g \in Goods, PublishReservation(g)
        PROVE  TypeOK' /\ UNCHANGED <<grantParts, stock>>
    BY <2>3 DEF PublishReservation, IInv, TypeOK, deviceSide, deviceVars, grantParts
  <2>4. ASSUME NEW g \in Goods, DeliverGrant(g)
        PROVE  TypeOK' /\ UNCHANGED <<grantParts, stock>>
    BY <2>4 DEF DeliverGrant, IInv, TypeOK, deviceSide, deviceVars, grantParts
  <2> QED
    BY <2>1, <2>2, <2>3, <2>4
<1>2. \A g \in Goods : Outstanding(g) <= stock'[g]
  BY <1>1, ShopTypes
<1> QED
  BY <1>1, <1>2, ShopStep

LEMMA ReconcileInv ==
  ASSUME Assumptions, IInv, NEW p \in Grants, Reconcile(p), UNCHANGED deviceSide
  PROVE  IInv'
<1> USE DEF wireVars, Queue, Behind, Reconcile
<1>0. Good[p] \in Goods
  BY DEF Assumptions, GrantAssumption
<1>1. TypeOK'
  BY <1>0 DEF IInv, TypeOK, deviceSide, deviceVars
<1>2. AllDevices' /\ OneHolder' /\ Holders' /\ Origins' /\ Handovers' /\ Sales' /\ NoFork'
      /\ Decisions'
  BY DevicesFrame, OneHolderFrame, HoldersFrame, OriginsFrame, HandoversFrame, SalesFrame,
     ForkFrame, DecisionsFrame
  DEF IInv, deviceParts, tokenParts, holderParts, originParts, handoverParts, saleParts,
      forkParts, decisionParts, deviceSide, deviceVars
<1>3. Holds'
  <2>1. \A g \in Goods : Outstanding(g)' \in 0 .. stock'[g]
    <3>1. ASSUME NEW g \in Goods PROVE Outstanding(g)' \in {0, Outstanding(g)}
      BY DEF Outstanding
    <3>2. \A g \in Goods : 0 <= stock[g] /\ stock[g] \in Int /\ Outstanding(g) \in 0 .. stock[g]
      BY ShopTypes
    <3>3. stock' = stock
      OBVIOUS
    <3> QED
      BY <3>1, <3>2, <3>3
  <2>2. \A q \in reconciled' : imported'[q] \in closes'[q]
    BY DEF IInv, Holds
  <2> QED
    BY <2>1, <2>2 DEF IInv, Holds
<1> QED
  BY <1>1, <1>2, <1>3 DEF IInv

LEMMA ReserveInv ==
  ASSUME Assumptions, IInv, NEW p \in Grants, NEW w \in Named, Reserve(p, w),
         UNCHANGED deviceSide
  PROVE  IInv'
<1> USE DEF wireVars, Reserve, deviceSide, deviceVars
<1>0. /\ w \in Devices /\ Origin(w) /\ Good[p] \in Goods /\ NoDevice \notin Devices
      /\ writer[p] = NoDevice /\ writer \in [Grants -> Devices \cup {NoDevice}]
      /\ writer' = [writer EXCEPT ![p] = w]
  BY DEF Named, Origin, Assumptions, GrantAssumption, IInv, TypeOK
<1>1. TypeOK'
  BY <1>0 DEF IInv, TypeOK
<1>2. WritersKept /\ \A q \in Grants : writer'[q] = IF q = p THEN w ELSE writer[q]
  BY <1>0 DEF WritersKept
<1>3. AllDevices'
  BY <1>2, DeviceSame DEF AllDevices
<1>4. OneHolder' /\ NoFork' /\ Decisions'
  BY OneHolderFrame, ForkFrame, DecisionsFrame
  DEF IInv, tokenParts, forkParts, decisionParts
\* The pool was not begun.
<1>5. ledger[p] = <<>> /\ closes[p] = {} /\ p \notin reconciled
  <2>1. ~ Begun(p)
    BY <1>0 DEF IInv, Origins
  <2>2. p \in reconciled => closes[p] # {}
    BY DEF IInv, Holds
  <2> QED
    BY <2>1, <2>2 DEF Begun
<1>6. \A r \in released : p \notin DOMAIN Lines[r.order]
  <2>1. Len(ledger[p]) = 0
    BY <1>5
  <2> QED
    BY <2>1 DEF IInv, Decisions, Has
<1>6a. \A r \in released : DOMAIN Lines[r.order] \subseteq Grants
  <2>1. \A r \in released : r.order \in Orders
    BY DEF IInv, TypeOK, Entry
  <2> QED
    BY <2>1 DEF Assumptions, GrantAssumption
<1>7. \A r \in released, v \in Devices : Concerns(r, v)' <=> Concerns(r, v)
  BY <1>2, <1>6, <1>6a DEF Concerns
<1>8. Holders'
  <2>1. ASSUME NEW d \in Devices, NEW v \in Devices, Here(d, v)
        PROVE  CurrentPools(v, row[d].pools, journal[d])'
    <3>1. CurrentPools(v, row[d].pools, journal[d])
      BY <2>1 DEF IInv, Holders
    <3>2. p \notin row[d].pools
      BY <2>1, <1>0 DEF IInv, AllDevices, DeviceOK, RowOK, Here, Registered
    <3> QED
      BY <1>2, <1>5, <3>1, <3>2 DEF CurrentPools, CurrentCopy
  <2>2. ASSUME NEW s \in Devices, NEW v \in Devices, Away(s, v)
        PROVE  CurrentPools(v, DOMAIN outgoing[s].snapshot.pools, outgoing[s].snapshot.pools)'
    <3>1. CurrentPools(v, DOMAIN outgoing[s].snapshot.pools, outgoing[s].snapshot.pools)
      BY <2>2 DEF IInv, Holders
    <3>2. p \notin DOMAIN outgoing[s].snapshot.pools
      BY <2>2, <1>0 DEF IInv, Handovers, SavedOK, SnapshotOK, Away
    <3> QED
      BY <1>2, <1>5, <3>1, <3>2 DEF CurrentPools, CurrentCopy
  <2>3. \A d, v \in Devices : (Here(d, v)' <=> Here(d, v)) /\ (Away(d, v)' <=> Away(d, v))
    BY DEF Here, Away, Saved, Open
  <2>4. Holders
    BY DEF IInv
  <2> QED
    BY <2>1, <2>2, <2>3, <2>4, <1>7 DEF Holders
<1>9. Origins'
  <2>1. Origins
    BY DEF IInv
  <2>2. \A q \in Grants : writer'[q] # NoDevice => Origin(writer'[q])
    BY <2>1, <1>0, <1>2 DEF Origins
  <2>3. \A q \in Grants : Begun(q) =>
          q # p /\ writer'[q] # NoDevice /\ label[writer'[q]].pools # {}
    BY <2>1, <1>2, <1>5 DEF Origins, Begun
  <2>4. \A v : Origin(v)' <=> Origin(v)
    BY DEF Origin
  <2>5. \A q \in Grants : Begun(q)' <=> Begun(q)
    BY DEF Begun
  <2>6. \A d, v \in Devices : (Here(d, v)' <=> Here(d, v)) /\ (Saved(d)' <=> Saved(d))
    BY DEF Here, Saved
  <2> QED
    BY <2>1, <2>2, <2>3, <2>4, <2>5, <2>6 DEF Origins
<1>10. Handovers'
  <2>1. ASSUME NEW v \in Devices, NEW snapshot, SnapshotOK(v, snapshot)
        PROVE  SnapshotOK(v, snapshot)'
    BY <2>1, <1>0, <1>2 DEF SnapshotOK
  <2> QED
    BY <2>1 DEF IInv, Handovers, CapturedOK, SavedOK, Saved
<1>11. Sales'
  <2>1. \A q \in Grants : \A o : Has(ledger[q], o) => q # p
    BY <1>5 DEF Has
  <2>2. \A o \in Orders : DOMAIN Lines[o] \subseteq Grants
    BY DEF Assumptions, GrantAssumption
  <2>3. ASSUME NEW o \in Orders, NEW q \in DOMAIN Lines[o], NEW k \in DOMAIN Lines[o],
               Has(ledger[q], o)
        PROVE  writer'[k] = writer'[q] /\ Has(ledger[k], o)
    <3>0. Sales
      BY DEF IInv
    <3>1. writer[k] = writer[q] /\ Has(ledger[k], o)
      BY <2>3, <3>0 DEF Sales
    <3>2. q \in Grants /\ k \in Grants /\ q # p /\ k # p
      BY <2>1, <2>2, <2>3, <3>1
    <3> QED
      BY <3>1, <3>2, <1>2
  <2>4. ledger' = ledger /\ closes' = closes
    OBVIOUS
  <2>5. \A q, x : Has(ledger[q], x)' <=> Has(ledger[q], x)
    BY DEF Has
  <2>6. \A q \in Grants : OfPool(q, ledger[q])' <=> OfPool(q, ledger[q])
    BY DEF OfPool
  <2> QED
    BY <2>3, <2>4, <2>5, <2>6 DEF IInv, Sales
<1>12. Holds'
  <2>0. Holds
    BY DEF IInv
  <2>1. imported[p] = <<>>
    <3>1. IsPrefix(imported[p], <<>>) /\ imported[p] \in Seq(Entry)
      BY <1>5 DEF IInv, NoFork, TypeOK
    <3> QED
      BY <3>1, PrefixEmpty
  <2>2. Units(p, imported[p]) = 0
    BY <2>1, UnitsNone DEF Assumptions
  <2>3. hold' = [hold EXCEPT ![Good[p]] = p] /\ hold \in [Goods -> Grants \cup {NoGrant}]
    BY DEF IInv, TypeOK
  <2>4. Quantity[p] \in Nat /\ NoGrant \notin Grants
    BY DEF Assumptions, GrantAssumption
  <2>5. ASSUME NEW g \in Goods PROVE Outstanding(g)' \in 0 .. stock'[g]
    <3>1. stock[g] \in Nat /\ Outstanding(g) \in 0 .. stock[g]
      BY ShopTypes DEF IInv, Holds
    <3>2. CASE g = Good[p]
      <4>1. hold'[g] = p /\ p # NoGrant
        BY <3>2, <2>3, <2>4
      <4>2. Outstanding(g)' = Quantity[p]
        BY <4>1, <1>5, <2>2, <2>4 DEF Outstanding
      <4> QED
        BY <3>1, <3>2, <4>2, <2>4
    <3>3. CASE g # Good[p]
      <4>1. hold'[g] = hold[g]
        BY <3>3, <2>3
      <4>2. Outstanding(g)' = Outstanding(g)
        BY <4>1 DEF Outstanding
      <4> QED
        BY <3>1, <4>2
    <3> QED
      BY <3>2, <3>3
  <2>6. \A g \in Goods : hold'[g] \in Grants => Good[hold'[g]] = g /\ writer'[hold'[g]] # NoDevice
    BY <2>0, <2>3, <1>0, <1>2 DEF Holds
  <2>7. \A q \in Grants : writer'[q] # NoDevice => hold'[Good[q]] = q \/ q \in reconciled
    <3>1. \A q \in Grants : Good[q] \in Goods
      BY DEF Assumptions, GrantAssumption
    <3>2. ASSUME NEW q \in Grants, writer'[q] # NoDevice, q \notin reconciled, q # p
          PROVE  hold'[Good[q]] = q
      <4>1. hold[Good[q]] = q
        BY <3>2, <2>0, <1>2 DEF Holds
      <4>2. Good[q] # Good[p]
        BY <4>1, <3>2, <2>4
      <4> QED
        BY <4>1, <4>2, <3>1, <2>3
    <3>3. hold'[Good[p]] = p
      BY <1>0, <2>3
    <3> QED
      BY <3>2, <3>3
  <2> QED
    BY <2>0, <2>5, <2>6, <2>7 DEF Holds
<1> QED
  BY <1>1, <1>3, <1>4, <1>8, <1>9, <1>10, <1>11, <1>12 DEF IInv

LEMMA ImportInv ==
  ASSUME Assumptions, IInv, NEW o \in Orders, Import(o), UNCHANGED deviceSide
  PROVE  IInv'
<1> USE DEF wireVars
<1> DEFINE P == DOMAIN Lines[o]
           new(p) == CHOOSE c \in NextEntries(p, o) : TRUE
<1>0. /\ P \subseteq Grants /\ NoGrant \notin Grants
      /\ \A p \in P : Lines[o][p] \in Nat \ {0} /\ Good[p] \in Goods
      /\ \A p \in Grants : Quantity[p] \in Nat
  BY DEF Assumptions, GrantAssumption
<1>1. \A p \in P : /\ hold[Good[p]] = p /\ p \notin reconciled /\ NextEntries(p, o) # {}
                   /\ Lines[o][p] <= Outstanding(Good[p]) /\ Lines[o][p] <= stock[Good[p]]
  BY DEF Import
<1>2. imported' = [p \in Grants |-> IF p \in P THEN new(p) ELSE imported[p]]
  BY DEF Import
<1>3. /\ UNCHANGED <<over, hold, reconciled, writer, committed, closedOut, delivered, wireVars>>
      /\ stock' = [g \in Goods |-> stock[g] - Taken(o, g)]
      /\ alloc' = [g \in Goods |-> IF alloc[g] < Taken(o, g) THEN 0 ELSE alloc[g] - Taken(o, g)]
      /\ unpublished' = [g \in Goods |-> IF Taken(o, g) = 0 THEN unpublished[g]
                                         ELSE {"product", "assignment"}]
      /\ latest' = [g \in Goods |-> IF Taken(o, g) = 0 THEN latest[g] ELSE Behind(latest[g])]
  BY DEF Import
\* What a pool of the order imports is one more sale of it.
<1>4. ASSUME NEW p \in P
      PROVE  /\ new(p) \in sent[p] /\ new(p) \in Seq(Entry)
             /\ Units(p, new(p)) = Units(p, imported[p]) + Lines[o][p]
             /\ Units(p, imported[p]) \in Nat
  <2> DEFINE c == new(p)
  <2>1. c \in NextEntries(p, o)
    BY <1>1
  <2> HIDE DEF c
  <2>2. c \in sent[p] /\ c # <<>> /\ Front(c) = imported[p] /\ Last(c).order = o
    BY <2>1 DEF NextEntries
  <2>3. c \in Seq(Entry) /\ imported[p] \in Seq(Entry) /\ p \in Grants
    BY <2>2, <1>0 DEF IInv, TypeOK
  <2>4. Last(c) \in Entry /\ c = Append(Front(c), Last(c))
    BY <2>2, <2>3, FrontLast
  <2>5. OfPool(p, imported[p])
    BY <2>3, UnitsPrefix DEF IInv, Sales, NoFork, Assumptions
  <2>6. Units(p, Append(imported[p], Last(c))) = Units(p, imported[p]) + Lines[o][p]
    BY <2>2, <2>4, <2>5, UnitsAppend DEF Assumptions
  <2>7. Units(p, imported[p]) \in Nat
    BY <2>5, UnitsNat DEF Assumptions
  <2> QED
    BY <2>2, <2>3, <2>4, <2>6, <2>7 DEF c
<1> HIDE DEF new
<1>5. ASSUME NEW g \in Goods
      PROVE  /\ Taken(o, g) \in Nat /\ Taken(o, g) <= stock[g]
             /\ Outstanding(g)' = Outstanding(g) - Taken(o, g)
             /\ Taken(o, g) <= Outstanding(g)
  <2>0. Outstanding(g) \in Nat /\ stock[g] \in Nat
    BY ShopTypes
  <2>1. CASE hold[g] \in P
    <3> DEFINE p == hold[g]
    <3>1. p \in P /\ p \in Grants /\ p # NoGrant /\ Good[p] = g /\ p \notin reconciled
      BY <2>1, <1>0, <1>1 DEF IInv, Holds
    <3>2. Taken(o, g) = Lines[o][p] /\ Lines[o][p] \in Nat
      BY <3>1, <1>0 DEF Taken
    <3>3. Outstanding(g) = Quantity[p] - Units(p, imported[p])
      BY <3>1 DEF Outstanding
    <3>4. Outstanding(g)' = Quantity[p] - Units(p, imported'[p])
      BY <3>1, <1>3 DEF Outstanding
    <3>5. imported'[p] = new(p)
      BY <3>1, <1>2
    <3>6. Units(p, imported'[p]) = Units(p, imported[p]) + Lines[o][p]
          /\ Units(p, imported[p]) \in Nat /\ Quantity[p] \in Nat
      BY <3>1, <3>5, <1>4, <1>0
    <3> HIDE DEF p
    <3>7. Lines[o][p] <= Outstanding(g) /\ Lines[o][p] <= stock[g]
      BY <3>1, <1>1
    <3>8. Outstanding(g)' = Outstanding(g) - Lines[o][p]
      BY <3>2, <3>3, <3>4, <3>6
    <3> QED
      BY <3>2, <3>7, <3>8
  <2>2. CASE hold[g] \notin P
    <3>1. Taken(o, g) = 0
      BY <2>2 DEF Taken
    <3>2. hold[g] # NoGrant => imported'[hold[g]] = imported[hold[g]]
      BY <2>2, <1>2 DEF IInv, TypeOK
    <3>3. Outstanding(g)' = Outstanding(g)
      BY <3>2, <1>3 DEF Outstanding
    <3> QED
      BY <2>0, <3>1, <3>3
  <2> QED
    BY <2>1, <2>2
<1>6. TypeOK'
  <2>1. stock' \in [Goods -> 0 .. InitialStock] /\ alloc' \in [Goods -> 0 .. InitialStock]
    <3>1. ASSUME NEW g \in Goods
          PROVE  /\ stock[g] - Taken(o, g) \in 0 .. InitialStock
                 /\ (IF alloc[g] < Taken(o, g) THEN 0 ELSE alloc[g] - Taken(o, g))
                      \in 0 .. InitialStock
      BY <1>5, ShopTypes DEF Assumptions, StockAssumption
    <3> QED
      BY <3>1, <1>3
  <2>2. imported' \in [Grants -> Seq(Entry)]
    BY <1>2, <1>4 DEF IInv, TypeOK
  <2>3. unpublished' \in [Goods -> SUBSET {"product", "assignment"}]
        /\ latest' \in [Goods -> {"reservation", "unsigned", "other"}]
    BY <1>3 DEF IInv, TypeOK, Behind
  <2> QED
    BY <2>1, <2>2, <2>3, <1>3 DEF IInv, TypeOK, deviceSide, deviceVars
<1>7. AllDevices' /\ OneHolder' /\ Holders' /\ Origins' /\ Handovers' /\ Sales' /\ Decisions'
  BY <1>3, DevicesFrame, OneHolderFrame, HoldersFrame, OriginsFrame, HandoversFrame, SalesFrame,
     DecisionsFrame
  DEF IInv, deviceParts, tokenParts, holderParts, originParts, handoverParts, saleParts,
      decisionParts, deviceSide, deviceVars
<1>8. NoFork'
  <2>1. \A p \in Grants : IsPrefix(imported'[p], ledger[p])
    BY <1>2, <1>4 DEF IInv, NoFork
  <2> QED
    BY <2>1, <1>3 DEF IInv, NoFork, deviceSide, deviceVars
<1>9. Holds'
  <2>1. \A g \in Goods : Outstanding(g)' \in 0 .. stock'[g]
    <3>1. ASSUME NEW g \in Goods PROVE Outstanding(g)' \in 0 .. stock'[g]
      <4>1. stock'[g] = stock[g] - Taken(o, g)
        BY <1>3
      <4>2. stock[g] \in Nat /\ Outstanding(g) \in Nat /\ Outstanding(g) <= stock[g]
        BY ShopTypes
      <4> QED
        BY <4>1, <4>2, <1>5
    <3> QED
      BY <3>1
  <2>2. \A p \in reconciled : imported'[p] = imported[p]
    BY <1>1, <1>2 DEF IInv, TypeOK
  <2> QED
    BY <2>1, <2>2, <1>3 DEF IInv, Holds
<1> QED
  BY <1>6, <1>7, <1>8, <1>9 DEF IInv

LEMMA MerchantInv ==
  ASSUME Assumptions, IInv, Merchant
  PROVE  IInv'
<1>1. UNCHANGED deviceSide
  BY DEF Merchant, deviceSide
<1>2. \/ \E p \in Grants, w \in Named : Reserve(p, w)
      \/ End \/ \E g \in Goods : Publish(g) \/ PublishReservation(g) \/ DeliverGrant(g)
      \/ \E o \in Orders : Import(o)
      \/ \E p \in Grants : Reconcile(p)
      \/ Trade
  BY DEF Merchant, Shop
<1> QED
  BY <1>1, <1>2, ReserveInv, PublicationInv, ImportInv, ReconcileInv, TradeInv

-----------------------------------------------------------------------------
(* Facts about devices.                                                    *)

\* The constants.
LEMMA Constants ==
  ASSUME Assumptions
  PROVE  /\ NoDevice \notin Devices
         /\ \A o \in Orders : DOMAIN Lines[o] \subseteq Grants /\ DOMAIN Lines[o] # {}
BY DEF Assumptions, GrantAssumption

\* The records of a device.
LEMMA DeviceTypes ==
  ASSUME IInv, NEW d \in Devices
  PROVE  /\ label[d] \in Label /\ row[d] \in Row /\ row[d].pools \subseteq Grants
         /\ label[d].pools \subseteq Grants
         /\ handed[d] \in [Orders -> Devices \cup {NoDevice}]
         /\ journal[d] \in [Grants -> Pool]
         /\ \A p \in Grants : journal[d][p] \in Pool /\ journal[d][p].chain \in Seq(Entry)
         /\ LabelOK(d) /\ RowOK(d) /\ \A p \in Grants : PoolOK(d, p)
<1>1. /\ label[d] \in Label /\ row[d] \in Row
      /\ handed[d] \in [Orders -> Devices \cup {NoDevice}]
      /\ journal[d] \in [Grants -> Pool]
  BY DEF IInv, TypeOK
<1>2. LabelOK(d) /\ RowOK(d) /\ \A p \in Grants : PoolOK(d, p)
  BY DEF IInv, AllDevices, DeviceOK
<1> QED
  BY <1>1, <1>2 DEF Label, Row, Pool

\* Who writes a pool has its writer's current row, and the pool as it is.
LEMMA Writes ==
  ASSUME Assumptions, IInv, NEW d \in Devices, NEW p \in Grants, MayWrite(d, writer[p]),
         journal[d][p].state # "none", ~journal[d][p].recovered
  PROVE  /\ row[d].state = "active" /\ writer[p] = row[d].writer /\ writer[p] \in Devices
         /\ Here(d, writer[p]) /\ p \in row[d].pools
         /\ journal[d][p].chain = ledger[p] /\ ledger[p] \in Seq(Entry)
         /\ closes[p] # {} => journal[d][p].state \in Stops
         /\ label[writer[p]].pools # {}
<1>1. row[d].state = "active" /\ writer[p] = row[d].writer /\ writer[p] \in Devices
      /\ p \in row[d].pools
  BY DeviceTypes DEF PoolOK, RowOK, MayWrite, Registered
<1>2. Here(d, writer[p])
  BY <1>1 DEF Here
<1>3. CurrentPools(writer[p], row[d].pools, journal[d])
  BY <1>1, <1>2 DEF IInv, Holders
<1>4. CurrentCopy(p, journal[d][p])
  BY <1>1, <1>3 DEF CurrentPools
<1>5. label[writer[p]].pools # {}
  <2>1. Origin(writer[p]) /\ (d # writer[p] => label[writer[p]].pools # {})
    BY <1>1, <1>2 DEF IInv, Origins
  <2>2. CASE d = writer[p]
    BY <2>1, <2>2, <1>1, DeviceTypes DEF Origin, LabelOK
  <2> QED
    BY <2>1, <2>2
<1>6. ledger[p] \in Seq(Entry)
  BY DEF IInv, TypeOK
<1> QED
  BY <1>1, <1>2, <1>4, <1>5, <1>6 DEF CurrentCopy

\* Nobody else holds what a device may write.
LEMMA OnlyHolder ==
  ASSUME IInv, NEW d \in Devices, NEW w \in Devices, Here(d, w)
  PROVE  /\ \A e \in Devices : Here(e, w) => e = d
         /\ \A s \in Devices : ~ Away(s, w)
BY DEF IInv, OneHolder

\* The chain of a journal that has an order is not empty, so the pool is there.
LEMMA HasPool ==
  ASSUME IInv, NEW d \in Devices, NEW p \in Grants, NEW o, o \in Accepted(d, p)
  PROVE  journal[d][p].state # "none" /\ Has(journal[d][p].chain, o)
<1>1. PICK i \in DOMAIN journal[d][p].chain : journal[d][p].chain[i].order = o
  BY DEF Accepted, ToSet
<1>2. journal[d][p].chain \in Seq(Entry) /\ PoolOK(d, p)
  BY DeviceTypes
<1>3. i \in 1 .. Len(journal[d][p].chain)
  BY <1>1, <1>2
<1>4. journal[d][p].chain # <<>>
  BY <1>3
<1> QED
  BY <1>1, <1>2, <1>3, <1>4 DEF PoolOK, NoPool, Has

\* The other way around.
LEMMA HasAccepted ==
  ASSUME IInv, NEW d \in Devices, NEW p \in Grants, NEW o, Has(journal[d][p].chain, o)
  PROVE  o \in Accepted(d, p)
<1>1. journal[d][p].chain \in Seq(Entry)
  BY DeviceTypes
<1> QED
  BY <1>1 DEF Has, Accepted, ToSet

-----------------------------------------------------------------------------
(* Sending what is saved.                                                  *)

\* What a device's step leaves of the seller's side.
LEMMA SellerFrame ==
  ASSUME IInv, UNCHANGED shopVars, UNCHANGED closes
  PROVE  Holds'
BY HoldsFrame DEF IInv, shopVars, holdParts

LEMMA SendInv ==
  ASSUME Assumptions, IInv, NEW d \in Devices, NEW p \in Grants, NEW i, Send(d, p, i)
  PROVE  IInv'
<1> USE DEF Send, deviceVars
<1> DEFINE c == SubSeq(journal[d][p].chain, 1, i)
<1>1. c \in Seq(Entry) /\ IsPrefix(c, ledger[p])
  <2>1. journal[d][p].chain \in Seq(Entry) /\ ledger[p] \in Seq(Entry)
    BY DeviceTypes DEF IInv, TypeOK
  <2>2. c \in Seq(Entry) /\ IsPrefix(c, journal[d][p].chain)
    BY <2>1, PrefixSub
  <2>3. IsPrefix(journal[d][p].chain, ledger[p])
    BY DEF IInv, NoFork
  <2> HIDE DEF c
  <2> QED
    BY <2>1, <2>2, <2>3, PrefixTrans
<1>2. sent' = [sent EXCEPT ![p] = @ \cup {c}]
  OBVIOUS
<1> HIDE DEF c
<1>3. TypeOK'
  <2>1. sent \in [Grants -> SUBSET Seq(Entry)]
    BY DEF IInv, TypeOK
  <2>2. sent' \in [Grants -> SUBSET Seq(Entry)]
    BY <1>1, <1>2, <2>1
  <2> QED
    BY <2>2 DEF IInv, TypeOK, shopVars
<1>4. NoFork'
  <2>1. \A q \in Grants : \A x \in sent'[q] : x \in sent[q] \/ (q = p /\ x = c)
    BY <1>2 DEF IInv, TypeOK
  <2> QED
    BY <1>1, <2>1 DEF IInv, NoFork, shopVars
<1>5. AllDevices' /\ OneHolder' /\ Holders' /\ Origins' /\ Handovers' /\ Sales' /\ Decisions'
  BY DevicesFrame, OneHolderFrame, HoldersFrame, OriginsFrame, HandoversFrame, SalesFrame,
     DecisionsFrame
  DEF IInv, deviceParts, tokenParts, holderParts, originParts, handoverParts, saleParts,
      decisionParts, shopVars
<1>6. Holds'
  BY SellerFrame
<1> QED
  BY <1>3, <1>4, <1>5, <1>6 DEF IInv

LEMMA SendCloseInv ==
  ASSUME Assumptions, IInv, NEW d \in Devices, NEW p \in Grants, SendClose(d, p)
  PROVE  IInv'
<1> USE DEF deviceVars
<1> DEFINE w == writer[p]
<1>0. /\ MayWrite(d, writer[p]) /\ ~journal[d][p].recovered /\ journal[d][p].state \in Stops
      /\ closes' = [closes EXCEPT ![p] = @ \cup {journal[d][p].chain}]
      /\ UNCHANGED <<deviceVars, transfers, handouts, sent, ledger, released, shopVars>>
  BY DEF SendClose, Stops
<1>1. /\ w \in Devices /\ Here(d, w) /\ p \in row[d].pools /\ label[w].pools # {}
      /\ journal[d][p].chain = ledger[p] /\ ledger[p] \in Seq(Entry)
  BY <1>0, Writes DEF Stops
<1>2. \A q \in Grants : closes'[q] = IF q = p THEN closes[p] \cup {ledger[p]} ELSE closes[q]
  BY <1>0, <1>1 DEF IInv, TypeOK
<1>3. TypeOK'
  BY <1>0, <1>1 DEF IInv, TypeOK, shopVars
<1>4. AllDevices' /\ OneHolder' /\ Handovers' /\ Decisions'
  BY <1>0, DevicesFrame, OneHolderFrame, HandoversFrame, DecisionsFrame
  DEF IInv, deviceParts, tokenParts, handoverParts, decisionParts, shopVars
<1>5. Holders'
  <2>1. \A e \in Devices : Here(e, w) => e = d
    BY <1>1, OnlyHolder
  <2>2. \A s \in Devices : ~ Away(s, w)
    BY <1>1, OnlyHolder
  <2>4. \A e, v \in Devices : (Here(e, v)' <=> Here(e, v)) /\ (Away(e, v)' <=> Away(e, v))
    BY <1>0 DEF Here, Away, Saved, Open
  <2>5. \A r, v : Concerns(r, v)' <=> Concerns(r, v)
    BY <1>0 DEF Concerns, shopVars
  <2>6. ASSUME NEW e \in Devices, NEW v \in Devices, Here(e, v)
        PROVE  CurrentPools(v, row[e].pools, journal[e])'
    <3>1. CurrentPools(v, row[e].pools, journal[e])
      BY <2>6 DEF IInv, Holders
    <3>2. v = w => p \in row[e].pools /\ journal[e][p].state \in Stops
      BY <2>1, <2>6, <1>0, <1>1
    <3> QED
      BY <3>1, <3>2, <1>0, <1>2 DEF CurrentPools, CurrentCopy, shopVars
  <2>7. ASSUME NEW s \in Devices, NEW v \in Devices, Away(s, v)
        PROVE  CurrentPools(v, DOMAIN outgoing[s].snapshot.pools, outgoing[s].snapshot.pools)'
    <3>1. CurrentPools(v, DOMAIN outgoing[s].snapshot.pools, outgoing[s].snapshot.pools)
      BY <2>7 DEF IInv, Holders
    <3>2. v # w
      BY <2>2, <2>7
    <3> QED
      BY <3>1, <3>2, <1>0, <1>2 DEF CurrentPools, CurrentCopy, shopVars
  <2>8. Holders
    BY DEF IInv
  <2>9. UNCHANGED <<handed, outgoing, released>>
    BY <1>0
  <2> QED
    BY <2>4, <2>5, <2>6, <2>7, <2>8, <2>9 DEF Holders
<1>6. Origins'
  <2>1. \A q \in Grants : Begun(q)' => q = p \/ Begun(q)
    BY <1>0, <1>2 DEF Begun
  <2>2. w # NoDevice
    BY <1>1, Constants
  <2>3. Origins
    BY DEF IInv
  <2>4. \A e, v : (Here(e, v)' <=> Here(e, v)) /\ (Saved(e)' <=> Saved(e))
                  /\ (Origin(v)' <=> Origin(v))
    BY <1>0 DEF Here, Saved, Origin
  <2> QED
    BY <2>1, <2>2, <2>3, <2>4, <1>0, <1>1 DEF Origins, shopVars
<1>7. Sales'
  <2>1. Sales
    BY DEF IInv
  <2>2. \A q \in Grants : \A c \in closes'[q] : c = ledger[q]
    BY <1>2, <2>1 DEF Sales
  <2>3. UNCHANGED <<ledger, writer>>
    BY <1>0 DEF shopVars
  <2> QED
    BY <2>1, <2>2, <2>3 DEF Sales, OfPool, Has
<1>8. NoFork'
  BY <1>0, <1>1, <1>2, PrefixRefl DEF IInv, NoFork, shopVars
<1>9. Holds'
  <2>1. Holds /\ reconciled \subseteq Grants
    BY DEF IInv, TypeOK
  <2>2. \A q \in reconciled : imported[q] \in closes'[q]
    BY <1>2, <2>1 DEF Holds
  <2>3. UNCHANGED <<hold, writer, reconciled, imported, stock>>
    BY <1>0 DEF shopVars
  <2> QED
    BY <2>1, <2>2, <2>3 DEF Holds, Outstanding
<1> QED
  BY <1>3, <1>4, <1>5, <1>6, <1>7, <1>8, <1>9 DEF IInv

-----------------------------------------------------------------------------
(* Handouts.                                                               *)

\* The types, after a device's step.
LEMMA DeviceTyped ==
  ASSUME IInv, UNCHANGED <<shopVars, sent, closes>>,
         label' \in [Devices -> Label], row' \in [Devices -> Row],
         journal' \in [Devices -> [Grants -> Pool]],
         handed' \in [Devices -> [Orders -> Devices \cup {NoDevice}]],
         transfers' \subseteq Devices, handouts' \cup released' \subseteq Entry,
         ledger' \in [Grants -> Seq(Entry)]
  PROVE  TypeOK'
BY DEF IInv, TypeOK, shopVars

\* The types, before it.
LEMMA DeviceTypesAre ==
  ASSUME IInv
  PROVE  /\ label \in [Devices -> Label] /\ row \in [Devices -> Row]
         /\ journal \in [Devices -> [Grants -> Pool]]
         /\ handed \in [Devices -> [Orders -> Devices \cup {NoDevice}]]
         /\ transfers \subseteq Devices /\ handouts \subseteq Entry /\ released \subseteq Entry
         /\ ledger \in [Grants -> Seq(Entry)] /\ writer \in [Grants -> Devices \cup {NoDevice}]
         /\ closes \in [Grants -> SUBSET Seq(Entry)]
BY DEF IInv, TypeOK

\* A handout record is its two parts.
LEMMA RecordIs ==
  ASSUME IInv, NEW r \in released
  PROVE  /\ r.order \in Orders /\ r.by \in Devices
         /\ r = [order |-> r.order, by |-> r.by]
         /\ \A h \in released : h.order = r.order => h = r
<1>1. r \in Entry
  BY DeviceTypesAre
<1> QED
  BY <1>1 DEF Entry, IInv, Decisions, HandedOutOnce

LEMMA SendHandoutInv ==
  ASSUME Assumptions, IInv, NEW d \in Devices, NEW o \in Orders, SendHandout(d, o)
  PROVE  IInv'
<1> USE DEF deviceVars
<1> DEFINE h == [order |-> o, by |-> handed[d][o]]
<1>0. /\ handed[d][o] # NoDevice /\ handouts' = handouts \cup {h}
      /\ UNCHANGED <<deviceVars, transfers, sent, closes, ledger, released, shopVars>>
  BY DEF SendHandout
<1>1. h \in released
  BY <1>0 DEF IInv, Decisions
<1> HIDE DEF h
<1>2. TypeOK'
  BY <1>0, <1>1, DeviceTypesAre, DeviceTyped
<1>3. AllDevices' /\ OneHolder' /\ Holders' /\ Origins' /\ Handovers' /\ Sales' /\ NoFork'
  BY <1>0, DevicesFrame, OneHolderFrame, HoldersFrame, OriginsFrame, HandoversFrame,
     SalesFrame, ForkFrame
  DEF IInv, deviceParts, tokenParts, holderParts, originParts, handoverParts, saleParts,
      forkParts, shopVars
<1>4. Decisions'
  <2>1. Decisions
    BY DEF IInv
  <2> QED
    BY <1>0, <1>1, <2>1 DEF Decisions, HandedOutOnce, Has
<1>5. Holds'
  BY <1>0, SellerFrame
<1> QED
  BY <1>2, <1>3, <1>4, <1>5 DEF IInv

LEMMA RestoreHandoutInv ==
  ASSUME Assumptions, IInv, NEW d \in Devices, NEW h \in handouts, RestoreHandout(d, h)
  PROVE  IInv'
<1>0. /\ handed' = [handed EXCEPT ![d][h.order] = h.by]
      /\ UNCHANGED <<label, row, journal, captured, outgoing, transfers, handouts, sent, closes,
                     ledger, released, shopVars>>
  BY DEF RestoreHandout
<1>1. h \in released /\ h.order \in Orders /\ h.by \in Devices
      /\ h = [order |-> h.order, by |-> h.by]
  <2>1. h \in released
    BY DEF IInv, Decisions
  <2> QED
    BY <2>1, RecordIs
<1>2. \A e \in Devices, o \in Orders :
        handed'[e][o] = IF e = d /\ o = h.order THEN h.by ELSE handed[e][o]
  BY <1>0, <1>1, DeviceTypesAre
<1>3. TypeOK'
  <2>1. handed' \in [Devices -> [Orders -> Devices \cup {NoDevice}]]
    BY <1>0, <1>1, DeviceTypesAre
  <2> QED
    BY <1>0, <2>1, DeviceTypesAre, DeviceTyped
<1>4. AllDevices' /\ OneHolder' /\ Origins' /\ Handovers' /\ Sales' /\ NoFork'
  BY <1>0, DevicesFrame, OneHolderFrame, OriginsFrame, HandoversFrame, SalesFrame, ForkFrame
  DEF IInv, deviceParts, tokenParts, originParts, handoverParts, saleParts, forkParts, shopVars
<1>5. Holders'
  <2>1. Holders
    BY DEF IInv
  <2>2. ASSUME NEW e \in Devices, NEW r \in released, handed[e][r.order] = r.by
        PROVE  handed'[e][r.order] = r.by
    BY <2>2, <1>1, <1>2, RecordIs
  <2>3. \A e, v \in Devices : (Here(e, v)' <=> Here(e, v)) /\ (Away(e, v)' <=> Away(e, v))
    BY <1>0 DEF Here, Away, Saved, Open
  <2>5. \A r, v : Concerns(r, v)' <=> Concerns(r, v)
    BY <1>0 DEF Concerns, shopVars
  <2>6. ASSUME NEW e \in Devices, NEW v \in Devices, Here(e, v)
        PROVE  CurrentPools(v, row[e].pools, journal[e])'
    <3>1. CurrentPools(v, row[e].pools, journal[e])
      BY <2>1, <2>6 DEF Holders
    <3> QED
      BY <3>1, <1>0 DEF CurrentPools, CurrentCopy, shopVars
  <2>7. ASSUME NEW s \in Devices, NEW v \in Devices, Away(s, v)
        PROVE  CurrentPools(v, DOMAIN outgoing[s].snapshot.pools, outgoing[s].snapshot.pools)'
    <3>1. CurrentPools(v, DOMAIN outgoing[s].snapshot.pools, outgoing[s].snapshot.pools)
      BY <2>1, <2>7 DEF Holders
    <3> QED
      BY <3>1, <1>0 DEF CurrentPools, CurrentCopy, shopVars
  <2>8. UNCHANGED <<outgoing, released>>
    BY <1>0
  <2> QED
    BY <2>1, <2>2, <2>3, <2>5, <2>6, <2>7, <2>8 DEF Holders
<1>6. Decisions'
  <2>1. Decisions
    BY DEF IInv
  <2>2. \A e \in Devices, o \in Orders :
          handed'[e][o] # NoDevice => [order |-> o, by |-> handed'[e][o]] \in released
    BY <1>1, <1>2, <2>1 DEF Decisions
  <2>3. UNCHANGED <<handouts, released, ledger>>
    BY <1>0
  <2> QED
    BY <2>1, <2>2, <2>3 DEF Decisions, HandedOutOnce, Has
<1>7. Holds'
  BY <1>0, SellerFrame
<1> QED
  BY <1>3, <1>4, <1>5, <1>6, <1>7 DEF IInv

\* A decision: the order was sold here, and only here.
LEMMA HandoutInv ==
  ASSUME Assumptions, IInv, NEW d \in Devices, NEW o \in Orders, Handout(d, o)
  PROVE  IInv'
<1> DEFINE h == [order |-> o, by |-> d]
           w == row[d].writer
<1>0. /\ handed[d][o] = NoDevice
      /\ handed' = [handed EXCEPT ![d][o] = d] /\ released' = released \cup {h}
      /\ UNCHANGED <<label, row, journal, captured, outgoing, transfers, handouts, sent, closes,
                     ledger, shopVars>>
  BY DEF Handout
<1>1. ASSUME NEW p \in DOMAIN Lines[o]
      PROVE  p \in Grants /\ writer[p] = w /\ w \in Devices /\ Here(d, w) /\ Has(ledger[p], o)
  <2>1. p \in Grants
    BY Constants
  <2>2. journal[d][p].state # "none" /\ Has(journal[d][p].chain, o)
    BY <2>1, HasPool DEF Handout, HasOrder
  <2>3. MayWrite(d, writer[p]) /\ ~journal[d][p].recovered
    BY DEF Handout
  <2> QED
    BY <2>1, <2>2, <2>3, Writes
<1>2. PICK p \in DOMAIN Lines[o] : TRUE
  BY Constants
<1>3. w \in Devices /\ Here(d, w) /\ d # NoDevice
  BY <1>1, <1>2, Constants
<1>4. \A r \in released : r.order # o
  <2> SUFFICES ASSUME NEW r \in released, r.order = o PROVE FALSE
    OBVIOUS
  <2>1. Concerns(r, w)
    BY <1>1, <1>2 DEF Concerns
  <2>2. handed[d][o] = r.by
    BY <1>3, <2>1 DEF IInv, Holders
  <2>3. r.by \in Devices
    BY RecordIs
  <2> QED
    BY <1>0, <2>2, <2>3, Constants
<1>5. h \in Entry /\ h.order = o /\ h.by = d
  BY DEF Entry
<1> HIDE DEF h
<1>6. \A e \in Devices, x \in Orders :
        handed'[e][x] = IF e = d /\ x = o THEN d ELSE handed[e][x]
  BY <1>0, DeviceTypesAre
<1>7. TypeOK'
  <2>1. handed' \in [Devices -> [Orders -> Devices \cup {NoDevice}]]
    BY <1>0, DeviceTypesAre
  <2> QED
    BY <1>0, <1>5, <2>1, DeviceTypesAre, DeviceTyped
<1>8. AllDevices' /\ OneHolder' /\ Origins' /\ Sales' /\ NoFork'
  BY <1>0, DevicesFrame, OneHolderFrame, OriginsFrame, SalesFrame, ForkFrame
  DEF IInv, deviceParts, tokenParts, originParts, saleParts, forkParts, shopVars
<1>9. Holders'
  <2>1. Holders
    BY DEF IInv
  <2>2. \A e, v \in Devices : (Here(e, v)' <=> Here(e, v)) /\ (Away(e, v)' <=> Away(e, v))
    BY <1>0 DEF Here, Away, Saved, Open
  <2>3. \A r, v : Concerns(r, v)' <=> Concerns(r, v)
    BY <1>0 DEF Concerns, shopVars
  <2>4. \A v : Concerns(h, v) => v = w
    BY <1>1, <1>5 DEF Concerns
  <2>5. ASSUME NEW e \in Devices, NEW v \in Devices, Here(e, v)
        PROVE  /\ CurrentPools(v, row[e].pools, journal[e])'
               /\ \A r \in released' : Concerns(r, v) => handed'[e][r.order] = r.by
    <3>1. /\ CurrentPools(v, row[e].pools, journal[e])
          /\ \A r \in released : Concerns(r, v) => handed[e][r.order] = r.by
      BY <2>1, <2>5 DEF Holders
    <3>2. CurrentPools(v, row[e].pools, journal[e])'
      BY <3>1, <1>0 DEF CurrentPools, CurrentCopy, shopVars
    <3>3. ASSUME NEW r \in released, Concerns(r, v) PROVE handed'[e][r.order] = r.by
      BY <3>1, <3>3, <1>4, <1>6, RecordIs
    <3>4. Concerns(h, v) => handed'[e][h.order] = h.by
      <4>1. Concerns(h, v) => e = d
        BY <1>3, <2>4, <2>5, OnlyHolder
      <4> QED
        BY <4>1, <1>5, <1>6
    <3> QED
      BY <3>2, <3>3, <3>4, <1>0
  <2>6. ASSUME NEW s \in Devices, NEW v \in Devices, Away(s, v)
        PROVE  /\ CurrentPools(v, DOMAIN outgoing[s].snapshot.pools, outgoing[s].snapshot.pools)'
               /\ ~ Concerns(h, v)
    <3>1. CurrentPools(v, DOMAIN outgoing[s].snapshot.pools, outgoing[s].snapshot.pools)
      BY <2>1, <2>6 DEF Holders
    <3>2. ~ Away(s, w)
      BY <1>3, OnlyHolder
    <3> QED
      BY <3>1, <3>2, <2>4, <2>6, <1>0 DEF CurrentPools, CurrentCopy, shopVars
  <2>7. outgoing' = outgoing /\ released' = released \cup {h}
    BY <1>0
  <2> QED
    BY <2>1, <2>2, <2>3, <2>5, <2>6, <2>7 DEF Holders
<1>10. Handovers'
  <2>1. ASSUME NEW v, NEW snapshot, SnapshotOK(v, snapshot) PROVE SnapshotOK(v, snapshot)'
    BY <2>1, <1>0 DEF SnapshotOK, shopVars
  <2>2. Handovers
    BY DEF IInv
  <2>3. UNCHANGED <<label, row, captured, outgoing, transfers>>
    BY <1>0
  <2> QED
    BY <2>1, <2>2, <2>3 DEF Handovers, CapturedOK, SavedOK, Saved
<1>11. Decisions'
  <2>1. Decisions
    BY DEF IInv
  <2>2. handouts' \subseteq released'
    BY <1>0, <2>1 DEF Decisions
  <2>3. \A e \in Devices, x \in Orders :
          handed'[e][x] # NoDevice => [order |-> x, by |-> handed'[e][x]] \in released'
    BY <1>0, <1>6, <2>1 DEF Decisions, h
  <2>4. \A r \in released' : \A q \in DOMAIN Lines[r.order] : Has(ledger[q], r.order)
    BY <1>0, <1>1, <1>5, <2>1 DEF Decisions
  <2>5. HandedOutOnce'
    BY <1>0, <1>4, <1>5, <2>1 DEF Decisions, HandedOutOnce
  <2>6. ledger' = ledger
    BY <1>0
  <2> QED
    BY <2>2, <2>3, <2>4, <2>5, <2>6 DEF Decisions, Has
<1>12. Holds'
  BY <1>0, SellerFrame
<1> QED
  BY <1>7, <1>8, <1>9, <1>10, <1>11, <1>12 DEF IInv

-----------------------------------------------------------------------------
(* A handover that is prepared, given up or sent.                          *)

LEMMA CaptureInv ==
  ASSUME Assumptions, IInv, NEW d \in Devices, NEW t \in Devices, Capture(d, t)
  PROVE  IInv'
<1> DEFINE w == row[d].writer
           c == [to |-> t, row |-> row[d], snapshot |-> Snapshot(d)]
<1>0. /\ Ready(d) /\ Cohort(d, w) # {} /\ \A p \in Cohort(d, w) : ~journal[d][p].recovered
      /\ captured' = [captured EXCEPT ![d] = c]
      /\ UNCHANGED <<label, row, journal, handed, outgoing, transfers, handouts, sent, closes,
                     ledger, released, shopVars>>
  BY DEF Capture
<1>1. label[d].mode = "writer" /\ row[d].state = "active" /\ w \in Devices /\ row[d] \in Row
  BY <1>0, DeviceTypes DEF Ready, RowOK, Registered
<1>2. /\ Snapshot(d).pools = [p \in Cohort(d, w) |-> journal[d][p]]
      /\ Snapshot(d).handed = [o \in {o \in Orders : HasOrder(d, o)} |-> handed[d][o]]
  BY DEF Snapshot
<1>3. SnapshotOK(w, Snapshot(d))
  <2> DEFINE snap == Snapshot(d)
  <2>1. Cohort(d, w) \subseteq Grants
        /\ \A p \in Cohort(d, w) : writer[p] = w /\ journal[d][p].state # "none"
    BY DEF Cohort, Pools
  <2>2. \A p \in Grants : journal[d][p] \in Pool /\ IsPrefix(journal[d][p].chain, ledger[p])
    BY DeviceTypes DEF IInv, NoFork
  <2>3. \A o \in Orders :
          handed[d][o] # NoDevice => [order |-> o, by |-> handed[d][o]] \in released
    BY DEF IInv, Decisions
  <2>4. /\ DOMAIN snap.pools = Cohort(d, w)
        /\ \A p \in Cohort(d, w) : snap.pools[p] = journal[d][p]
        /\ DOMAIN snap.handed \subseteq Orders
        /\ \A o \in DOMAIN snap.handed : snap.handed[o] = handed[d][o]
    BY <1>2
  <2> HIDE DEF snap, w
  <2>5. SnapshotOK(w, snap)
    BY <1>0, <2>1, <2>2, <2>3, <2>4 DEF SnapshotOK
  <2> QED
    BY <2>5 DEF snap
<1>4. TypeOK'
  BY <1>0, DeviceTypesAre, DeviceTyped
<1>5. AllDevices' /\ OneHolder' /\ Holders' /\ Origins' /\ Sales' /\ NoFork' /\ Decisions'
  BY <1>0, DevicesFrame, OneHolderFrame, HoldersFrame, OriginsFrame, SalesFrame, ForkFrame,
     DecisionsFrame
  DEF IInv, deviceParts, tokenParts, holderParts, originParts, saleParts, forkParts,
      decisionParts, shopVars
<1>6. Handovers'
  <2>1. Handovers
    BY DEF IInv
  <2>2. /\ DOMAIN captured' = Devices
        /\ captured'[d] = c /\ \A e \in Devices \ {d} : captured'[e] = captured[e]
    BY <1>0, <2>1 DEF Handovers
  <2>3. c.to = t /\ c.row = row[d] /\ c.snapshot = Snapshot(d)
    OBVIOUS
  <2> HIDE DEF c, w
  <2>4. ASSUME NEW v, NEW snapshot, SnapshotOK(v, snapshot) PROVE SnapshotOK(v, snapshot)'
    BY <2>4, <1>0 DEF SnapshotOK, shopVars
  <2>5. UNCHANGED <<label, row, outgoing, transfers>>
    BY <1>0
  <2>6. CapturedOK(d)'
    <3>1. ASSUME NEW v, NEW snapshot, v = w, snapshot = Snapshot(d)
          PROVE  SnapshotOK(v, snapshot)'
      BY <1>3, <2>4, <3>1
    <3> QED
      BY <1>1, <2>2, <2>3, <2>5, <3>1 DEF CapturedOK, w
  <2>7. ASSUME NEW e \in Devices, e # d PROVE CapturedOK(e)'
    BY <2>1, <2>2, <2>4, <2>5, <2>7 DEF Handovers, CapturedOK
  <2>8. ASSUME NEW e \in Devices PROVE SavedOK(e)'
    BY <2>1, <2>4, <2>5 DEF Handovers, SavedOK, Saved
  <2> QED
    BY <2>1, <2>2, <2>5, <2>6, <2>7, <2>8 DEF Handovers
<1>7. Holds'
  BY <1>0, SellerFrame
<1> QED
  BY <1>4, <1>5, <1>6, <1>7 DEF IInv

LEMMA GiveUpInv ==
  ASSUME Assumptions, IInv, NEW d \in Devices, GiveUp(d)
  PROVE  IInv'
<1>0. /\ captured' = [captured EXCEPT ![d] = NoTransfer]
      /\ UNCHANGED <<label, row, journal, handed, outgoing, transfers, handouts, sent, closes,
                     ledger, released, shopVars>>
  BY DEF GiveUp
<1>1. TypeOK'
  BY <1>0, DeviceTypesAre, DeviceTyped
<1>2. AllDevices' /\ OneHolder' /\ Holders' /\ Origins' /\ Sales' /\ NoFork' /\ Decisions'
  BY <1>0, DevicesFrame, OneHolderFrame, HoldersFrame, OriginsFrame, SalesFrame, ForkFrame,
     DecisionsFrame
  DEF IInv, deviceParts, tokenParts, holderParts, originParts, saleParts, forkParts,
      decisionParts, shopVars
<1>3. Handovers'
  <2>1. Handovers
    BY DEF IInv
  <2>2. /\ DOMAIN captured' = Devices
        /\ captured'[d] = NoTransfer /\ \A e \in Devices \ {d} : captured'[e] = captured[e]
    BY <1>0, <2>1 DEF Handovers
  <2>3. ASSUME NEW v, NEW snapshot, SnapshotOK(v, snapshot) PROVE SnapshotOK(v, snapshot)'
    BY <2>3, <1>0 DEF SnapshotOK, shopVars
  <2>4. UNCHANGED <<label, row, outgoing, transfers>>
    BY <1>0
  <2> QED
    BY <2>1, <2>2, <2>3, <2>4 DEF Handovers, CapturedOK, SavedOK, Saved
<1>4. Holds'
  BY <1>0, SellerFrame
<1> QED
  BY <1>1, <1>2, <1>3, <1>4 DEF IInv

LEMMA PublishTransferInv ==
  ASSUME Assumptions, IInv, NEW d \in Devices, PublishTransfer(d)
  PROVE  IInv'
<1> USE DEF deviceVars
<1>0. /\ row[d].state = "retired" /\ transfers' = transfers \cup {d}
      /\ UNCHANGED <<deviceVars, handouts, sent, closes, ledger, released, shopVars>>
  BY DEF PublishTransfer
<1>1. \A s \in Devices : Saved(s)' <=> Saved(s)
  BY <1>0 DEF Saved
<1>2. \A e, v \in Devices : (Here(e, v)' <=> Here(e, v)) /\ (Away(e, v)' <=> Away(e, v))
  BY <1>0, <1>1 DEF Here, Away, Open
<1>3. TypeOK'
  BY <1>0, DeviceTypesAre, DeviceTyped
<1>4. AllDevices' /\ Sales' /\ NoFork' /\ Decisions'
  BY <1>0, DevicesFrame, SalesFrame, ForkFrame, DecisionsFrame
  DEF IInv, deviceParts, saleParts, forkParts, decisionParts, shopVars
<1>5. OneHolder'
  <2>1. OneHolder
    BY DEF IInv
  <2> QED
    BY <1>2, <2>1 DEF OneHolder
<1>6. UNCHANGED <<label, row, journal, handed, outgoing, captured, writer, ledger, closes, released>>
  BY <1>0 DEF shopVars
<1>7. Holders'
  <2>1. Holders
    BY DEF IInv
  <2> QED
    BY <1>2, <1>6, <2>1 DEF Holders, CurrentPools, CurrentCopy, Concerns
<1>8. Origins'
  <2>1. Origins
    BY DEF IInv
  <2> QED
    BY <1>1, <1>2, <1>6, <2>1 DEF Origins, Origin, Begun
<1>9. Handovers'
  <2>1. Handovers
    BY DEF IInv
  <2> QED
    BY <1>1, <1>6, <2>1 DEF Handovers, CapturedOK, SavedOK, SnapshotOK
<1>10. Holds'
  BY <1>0, SellerFrame
<1> QED
  BY <1>3, <1>4, <1>5, <1>7, <1>8, <1>9, <1>10 DEF IInv

-----------------------------------------------------------------------------
(* Closing and selling.                                                    *)

LEMMA CloseInv ==
  ASSUME Assumptions, IInv, NEW d \in Devices, NEW p \in Grants, Close(d, p)
  PROVE  IInv'
<1> DEFINE pool == [journal[d][p] EXCEPT !.state = "closing"]
<1>0. /\ MayWrite(d, writer[p]) /\ journal[d][p].state = "active"
      /\ journal' = [journal EXCEPT ![d][p].state = "closing"]
      /\ UNCHANGED <<label, row, handed, captured, outgoing, transfers, handouts, sent, closes,
                     ledger, released, shopVars>>
  BY DEF Close
<1>1. /\ pool \in Pool /\ pool.state = "closing" /\ pool.chain = journal[d][p].chain
      /\ pool.recovered = journal[d][p].recovered
  <2>1. journal[d][p] \in Pool
    BY DeviceTypes
  <2> QED
    BY <2>1 DEF Pool
<1>2. \A e \in Devices, q \in Grants :
        journal'[e][q] = IF e = d /\ q = p THEN pool ELSE journal[e][q]
  BY <1>0, DeviceTypesAre
<1> HIDE DEF pool
<1>3. TypeOK'
  <2>1. journal' \in [Devices -> [Grants -> Pool]]
    BY <1>0, <1>1, DeviceTypesAre DEF pool
  <2> QED
    BY <1>0, <2>1, DeviceTypesAre, DeviceTyped
<1>4. OneHolder' /\ Origins' /\ Handovers' /\ Sales' /\ Decisions'
  BY <1>0, OneHolderFrame, OriginsFrame, HandoversFrame, SalesFrame, DecisionsFrame
  DEF IInv, tokenParts, originParts, handoverParts, saleParts, decisionParts, shopVars
<1>5. AllDevices'
  <2>1. ASSUME NEW e \in Devices PROVE DeviceOK(e)'
    <3>1. LabelOK(e) /\ RowOK(e) /\ \A q \in Grants : PoolOK(e, q)
      BY DeviceTypes
    <3>2. UNCHANGED <<label, row, writer>>
      BY <1>0 DEF shopVars
    <3>3. LabelOK(e)'
      BY <3>1, <3>2 DEF LabelOK
    <3>4. RowOK(e)'
      <4>1. row[e].pools \subseteq Grants
        BY DeviceTypes
      <4> QED
        BY <3>1, <3>2, <4>1, <1>1, <1>2 DEF RowOK
    <3>5. ASSUME NEW q \in Grants PROVE PoolOK(e, q)'
      BY <3>1, <3>2, <1>0, <1>1, <1>2 DEF PoolOK, Stops
    <3> QED
      BY <3>3, <3>4, <3>5 DEF DeviceOK
  <2> QED
    BY <2>1 DEF AllDevices
<1>6. Holders'
  <2>1. Holders
    BY DEF IInv
  <2>2. UNCHANGED <<label, row, outgoing, transfers, handed, writer, ledger, closes, released>>
    BY <1>0 DEF shopVars
  <2>3. \A e, v \in Devices : (Here(e, v)' <=> Here(e, v)) /\ (Away(e, v)' <=> Away(e, v))
    BY <2>2 DEF Here, Away, Saved, Open
  <2>4. ASSUME NEW e \in Devices, NEW v \in Devices, Here(e, v)
        PROVE  CurrentPools(v, row[e].pools, journal[e])'
    <3>1. CurrentPools(v, row[e].pools, journal[e])
      BY <2>1, <2>4 DEF Holders
    <3>2. \A q \in Grants : CurrentCopy(q, journal[e][q]) => CurrentCopy(q, journal[e][q])'
      BY <2>2, <1>1, <1>2 DEF CurrentCopy, Stops
    <3> QED
      BY <3>1, <3>2, <2>2 DEF CurrentPools
  <2> QED
    BY <2>1, <2>2, <2>3, <2>4 DEF Holders, CurrentPools, CurrentCopy, Concerns
<1>7. NoFork'
  <2>1. NoFork
    BY DEF IInv
  <2>2. \A e \in Devices, q \in Grants : journal'[e][q].chain = journal[e][q].chain
    BY <1>1, <1>2
  <2>3. UNCHANGED <<imported, ledger, sent, closes>>
    BY <1>0 DEF shopVars
  <2> QED
    BY <2>1, <2>2, <2>3 DEF NoFork
<1>8. Holds'
  BY <1>0, SellerFrame
<1> QED
  BY <1>3, <1>4, <1>5, <1>6, <1>7, <1>8 DEF IInv

LEMMA AcceptInv ==
  ASSUME Assumptions, IInv, NEW d \in Devices, NEW o \in Orders, Accept(d, o)
  PROVE  IInv'
<1> DEFINE P == DOMAIN Lines[o]
           w == row[d].writer
           entry == [order |-> o, by |-> d]
           more(p) == Append(ledger[p], entry)
<1>1. P \subseteq Grants /\ P # {} /\ entry \in Entry /\ entry.order = o
      /\ \A p \in P : Lines[o][p] \in Nat
  BY Constants DEF Entry, Assumptions, GrantAssumption
<1>2. /\ journal' = [journal EXCEPT ![d] = [p \in Grants |->
                       IF p \in P THEN [journal[d][p] EXCEPT !.chain = Append(journal[d][p].chain, entry)]
                       ELSE journal[d][p]]]
      /\ ledger' = [p \in Grants |-> IF p \in P THEN more(p) ELSE ledger[p]]
      /\ UNCHANGED <<label, row, handed, captured, outgoing, transfers, handouts, sent, closes,
                     released, shopVars>>
  BY DEF Accept
\* The order's pools are this device's, and none is closed.
<1>3. ASSUME NEW p \in P
      PROVE  /\ writer[p] = w /\ w \in Devices /\ Here(d, w) /\ p \in row[d].pools
             /\ journal[d][p].chain = ledger[p] /\ ledger[p] \in Seq(Entry)
             /\ closes[p] = {} /\ label[w].pools # {}
             /\ Units(p, more(p)) <= Quantity[p]
             /\ journal[d][p].state = "active" /\ ~journal[d][p].recovered
  <2>1. /\ p \in Grants /\ MayWrite(d, writer[p])
        /\ journal[d][p].state = "active" /\ ~journal[d][p].recovered
        /\ Units(p, Append(journal[d][p].chain, entry)) <= Quantity[p]
    BY <1>1 DEF Accept
  <2>2. /\ writer[p] = w /\ w \in Devices /\ Here(d, w) /\ p \in row[d].pools
        /\ journal[d][p].chain = ledger[p] /\ ledger[p] \in Seq(Entry)
        /\ (closes[p] # {} => journal[d][p].state \in Stops) /\ label[w].pools # {}
    BY <2>1, Writes
  <2> QED
    BY <2>1, <2>2 DEF Stops
<1>4. w \in Devices /\ Here(d, w) /\ label[w].pools # {}
  BY <1>1, <1>3
<1> HIDE DEF P, w, entry
<1>5. ASSUME NEW p \in P
      PROVE  /\ more(p) \in Seq(Entry) /\ IsPrefix(ledger[p], more(p))
             /\ \A s \in Seq(Entry) : IsPrefix(s, ledger[p]) => IsPrefix(s, more(p))
             /\ OfPool(p, more(p)) /\ Has(more(p), o)
             /\ \A x : Has(ledger[p], x) => Has(more(p), x)
             /\ \A x : Has(more(p), x) => x = o \/ Has(ledger[p], x)
  <2>1. ledger[p] \in Seq(Entry) /\ OfPool(p, ledger[p])
    BY <1>1, <1>3 DEF IInv, Sales
  <2>2. /\ more(p) \in Seq(Entry) /\ IsPrefix(ledger[p], more(p))
        /\ \A s \in Seq(Entry) : IsPrefix(s, ledger[p]) => IsPrefix(s, more(p))
    BY <1>1, <2>1, PrefixAppend
  <2>3. p \in DOMAIN Lines[entry.order]
    BY <1>1 DEF P
  <2>4. OfPool(p, more(p))
    BY <1>1, <2>1, <2>3, UnitsAppend DEF Assumptions
  <2>5. /\ Len(ledger[p]) \in Nat /\ Len(more(p)) = Len(ledger[p]) + 1
        /\ \A i \in 1 .. Len(ledger[p]) : more(p)[i] = ledger[p][i]
        /\ more(p)[Len(ledger[p]) + 1] = entry
    BY <1>1, <2>1
  <2> HIDE DEF more
  <2>6. /\ Has(more(p), o)
        /\ \A x : Has(ledger[p], x) => Has(more(p), x)
        /\ \A x : Has(more(p), x) => x = o \/ Has(ledger[p], x)
    <3>1. Has(more(p), o)
      BY <1>1, <2>5 DEF Has
    <3>2. ASSUME NEW x, Has(ledger[p], x) PROVE Has(more(p), x)
      BY <2>5, <3>2 DEF Has
    <3>3. ASSUME NEW x, Has(more(p), x), x # o PROVE Has(ledger[p], x)
      <4>1. PICK i \in 1 .. Len(more(p)) : more(p)[i].order = x
        BY <3>3 DEF Has
      <4>2. i \in 1 .. Len(ledger[p])
        BY <1>1, <2>5, <3>3, <4>1
      <4> QED
        BY <2>5, <4>1, <4>2 DEF Has
    <3> QED
      BY <3>1, <3>2, <3>3
  <2> QED
    BY <2>2, <2>4, <2>6 DEF more
<1> HIDE DEF more
<1>6. /\ \A p \in P : ledger'[p] = more(p)
      /\ \A p \in Grants \ P : ledger'[p] = ledger[p]
  BY <1>1, <1>2
<1>7. ASSUME NEW e \in Devices, NEW p \in Grants
      PROVE  /\ e = d /\ p \in P => /\ journal'[e][p].chain = ledger'[p]
                                    /\ journal'[e][p].state = journal[e][p].state
                                    /\ journal'[e][p].recovered = journal[e][p].recovered
                                    /\ journal'[e][p] \in Pool
             /\ ~ (e = d /\ p \in P) => journal'[e][p] = journal[e][p]
  <2>1. CASE e = d /\ p \in P
    <3>1. journal[d][p] \in Pool
      BY DeviceTypes
    <3>2. journal'[e][p] = [journal[d][p] EXCEPT !.chain = more(p)]
      BY <2>1, <1>2, <1>3, DeviceTypesAre DEF more
    <3>3. more(p) \in Seq(Entry) /\ ledger'[p] = more(p)
      BY <2>1, <1>5, <1>6
    <3> QED
      BY <2>1, <3>1, <3>2, <3>3 DEF Pool
  <2>2. CASE ~ (e = d /\ p \in P)
    BY <2>2, <1>2, DeviceTypesAre
  <2> QED
    BY <2>1, <2>2
<1>8. TypeOK'
  <2>1. journal' \in [Devices -> [Grants -> Pool]]
    <3>1. /\ DOMAIN journal' = Devices
          /\ \A e \in Devices : DOMAIN journal'[e] = Grants
          /\ journal' = [e \in Devices |-> journal'[e]]
          /\ \A e \in Devices : journal'[e] = [p \in Grants |-> journal'[e][p]]
      BY <1>2, DeviceTypesAre
    <3>2. \A e \in Devices, p \in Grants : journal'[e][p] \in Pool
      BY <1>7, DeviceTypes
    <3>3. \A e \in Devices : journal'[e] \in [Grants -> Pool]
      BY <3>1, <3>2
    <3> QED
      BY <3>1, <3>3
  <2>2. ledger' \in [Grants -> Seq(Entry)]
    BY <1>2, <1>5, DeviceTypesAre
  <2> QED
    BY <1>2, <2>1, <2>2, DeviceTypesAre, DeviceTyped
<1>9. UNCHANGED <<label, row, handed, captured, outgoing, transfers, handouts, sent, closes,
                  released, writer, imported>>
  BY <1>2 DEF shopVars
<1>10. AllDevices'
  <2>1. ASSUME NEW e \in Devices PROVE DeviceOK(e)'
    <3>1. LabelOK(e) /\ RowOK(e) /\ \A p \in Grants : PoolOK(e, p)
      BY DeviceTypes
    <3>2. row[e].pools \subseteq Grants
      BY DeviceTypes
    <3>3. \A p \in Grants : /\ journal'[e][p].state = journal[e][p].state
                            /\ journal'[e][p].recovered = journal[e][p].recovered
      BY <1>7
    <3>4. \A p \in Grants : journal[e][p].state = "none" => journal'[e][p] = journal[e][p]
      BY <1>3, <1>7
    <3>5. LabelOK(e)'
      BY <3>1, <1>9 DEF LabelOK
    <3>6. RowOK(e)'
      BY <3>1, <3>2, <3>3, <1>9 DEF RowOK
    <3>7. ASSUME NEW p \in Grants PROVE PoolOK(e, p)'
      BY <3>1, <3>3, <3>4, <1>9 DEF PoolOK
    <3> QED
      BY <3>5, <3>6, <3>7 DEF DeviceOK
  <2> QED
    BY <2>1 DEF AllDevices
<1>11. OneHolder'
  BY <1>9, OneHolderFrame DEF IInv, tokenParts
<1>12. \A e, v \in Devices : (Here(e, v)' <=> Here(e, v)) /\ (Away(e, v)' <=> Away(e, v))
  BY <1>9 DEF Here, Away, Saved, Open
<1>13. Holders'
  <2>1. Holders
    BY DEF IInv
  <2>2. ASSUME NEW e \in Devices, NEW v \in Devices, Here(e, v)
        PROVE  CurrentPools(v, row[e].pools, journal[e])'
    <3>1. CurrentPools(v, row[e].pools, journal[e])
      BY <2>1, <2>2 DEF Holders
    <3>2. v = w => e = d
      BY <1>4, <2>2, OnlyHolder
    <3>3. ASSUME NEW p \in Grants, writer'[p] = v
          PROVE  IF p \in row'[e].pools THEN CurrentCopy(p, journal[e][p])'
                 ELSE ledger'[p] = <<>> /\ closes'[p] = {}
      <4>1. CASE p \in P
        <5>1. v = w /\ e = d /\ p \in row[d].pools /\ closes[p] = {}
          BY <4>1, <3>2, <3>3, <1>3, <1>9
        <5>2. journal'[e][p].chain = ledger'[p]
          BY <4>1, <5>1, <1>7
        <5> QED
          BY <5>1, <5>2, <1>9 DEF CurrentCopy
      <4>2. CASE p \notin P
        <5>1. journal'[e][p] = journal[e][p] /\ ledger'[p] = ledger[p]
          BY <4>2, <1>6, <1>7
        <5> QED
          BY <5>1, <3>1, <3>3, <1>9 DEF CurrentPools, CurrentCopy
      <4> QED
        BY <4>1, <4>2
    <3> QED
      BY <3>3 DEF CurrentPools
  <2>3. ASSUME NEW s \in Devices, NEW v \in Devices, Away(s, v)
        PROVE  CurrentPools(v, DOMAIN outgoing[s].snapshot.pools, outgoing[s].snapshot.pools)'
    <3>1. CurrentPools(v, DOMAIN outgoing[s].snapshot.pools, outgoing[s].snapshot.pools)
      BY <2>1, <2>3 DEF Holders
    <3>2. v # w
      BY <1>4, <2>3, OnlyHolder
    <3>3. \A p \in Grants : writer[p] = v => ledger'[p] = ledger[p]
      BY <3>2, <1>3, <1>6
    <3> QED
      BY <3>1, <3>3, <1>9 DEF CurrentPools, CurrentCopy
  <2> QED
    BY <2>1, <2>2, <2>3, <1>9, <1>12 DEF Holders, Concerns
<1>14. Origins'
  <2>1. Origins
    BY DEF IInv
  <2>2. \A p \in Grants : Begun(p)' => Begun(p) \/ p \in P
    BY <1>6, <1>9 DEF Begun
  <2>3. \A p \in P : writer[p] # NoDevice /\ label[writer[p]].pools # {}
    BY <1>3, <1>4, Constants
  <2>4. \A v : (Origin(v)' <=> Origin(v)) /\ (Saved(v)' <=> Saved(v))
    BY <1>9 DEF Origin, Saved
  <2> QED
    BY <2>1, <2>2, <2>3, <2>4, <1>9, <1>12 DEF Origins
<1>15. \A p \in Grants, s \in Seq(Entry) : IsPrefix(s, ledger[p]) => IsPrefix(s, ledger'[p])
  BY <1>5, <1>6
<1>16. Handovers'
  <2>1. ASSUME NEW v, NEW snapshot, SnapshotOK(v, snapshot) PROVE SnapshotOK(v, snapshot)'
    <3>1. \A p \in DOMAIN snapshot.pools : p \in Grants /\ snapshot.pools[p].chain \in Seq(Entry)
      BY <2>1 DEF SnapshotOK, Pool
    <3> QED
      BY <2>1, <3>1, <1>9, <1>15 DEF SnapshotOK
  <2>2. Handovers
    BY DEF IInv
  <2> QED
    BY <2>1, <2>2, <1>9 DEF Handovers, CapturedOK, SavedOK, Saved
<1>17. /\ \A p \in Grants : \A x : Has(ledger[p], x) => Has(ledger'[p], x)
       /\ \A p \in Grants : \A x : Has(ledger'[p], x) => Has(ledger[p], x) \/ (p \in P /\ x = o)
       /\ \A p \in P : Has(ledger'[p], o)
  BY <1>1, <1>5, <1>6
<1>18. Sales'
  <2>1. Sales
    BY DEF IInv
  <2>2. ASSUME NEW p \in Grants PROVE OfPool(p, ledger'[p]) /\ Units(p, ledger'[p]) <= Quantity[p]
    <3>1. CASE p \in P
      BY <3>1, <1>3, <1>5, <1>6 DEF more
    <3>2. CASE p \notin P
      BY <3>2, <2>1, <1>6 DEF Sales
    <3> QED
      BY <3>1, <3>2
  <2>3. \A p \in Grants : \A c \in closes[p] : c = ledger'[p]
    BY <2>1, <1>3, <1>6 DEF Sales
  <2>4. ASSUME NEW x \in Orders, NEW p \in DOMAIN Lines[x], NEW q \in DOMAIN Lines[x],
               Has(ledger'[p], x)
        PROVE  writer[q] = writer[p] /\ Has(ledger'[q], x)
    <3>1. p \in Grants /\ q \in Grants
      BY Constants
    <3>2. CASE x = o
      BY <3>2, <1>3, <1>17 DEF P
    <3>3. CASE x # o
      <4>1. Has(ledger[p], x)
        BY <2>4, <3>1, <3>3, <1>17
      <4> QED
        BY <4>1, <2>1, <3>1, <1>17 DEF Sales
    <3> QED
      BY <3>2, <3>3
  <2> QED
    BY <2>2, <2>3, <2>4, <1>9 DEF Sales, OfPool, Has
<1>19. NoFork'
  <2>1. NoFork
    BY DEF IInv
  <2>2. \A p \in Grants : /\ imported[p] \in Seq(Entry) /\ ledger'[p] \in Seq(Entry)
                          /\ \A c \in sent[p] \cup closes[p] : c \in Seq(Entry)
    BY <1>8 DEF IInv, TypeOK
  <2>3. ASSUME NEW e \in Devices, NEW p \in Grants PROVE IsPrefix(journal'[e][p].chain, ledger'[p])
    <3>1. CASE e = d /\ p \in P
      BY <3>1, <2>2, <1>7, PrefixRefl
    <3>2. CASE ~ (e = d /\ p \in P)
      BY <3>2, <2>1, <1>7, <1>15, DeviceTypes DEF NoFork
    <3> QED
      BY <3>1, <3>2
  <2>4. \A p \in Grants : /\ IsPrefix(imported[p], ledger'[p])
                          /\ \A c \in sent[p] \cup closes[p] : IsPrefix(c, ledger'[p])
    BY <2>1, <2>2, <1>15 DEF NoFork
  <2> QED
    BY <2>3, <2>4, <1>9 DEF NoFork
<1>20. Decisions'
  <2>1. Decisions
    BY DEF IInv
  <2>2. \A r \in released : r.order \in Orders
    BY RecordIs
  <2>3. \A r \in released : \A p \in DOMAIN Lines[r.order] : Has(ledger'[p], r.order)
    BY <2>1, <2>2, <1>17, Constants DEF Decisions
  <2> QED
    BY <2>1, <2>3, <1>9 DEF Decisions, HandedOutOnce, Has
<1>21. Holds'
  BY <1>2, SellerFrame
<1> QED
  BY <1>8, <1>10, <1>11, <1>13, <1>14, <1>16, <1>18, <1>19, <1>20, <1>21 DEF IInv

-----------------------------------------------------------------------------
(* Setting a device up.                                                    *)

\* A label that is given, follows its row or lists one more pool.
LEMMA LabelStep ==
  ASSUME Assumptions, IInv, NEW d \in Devices, NEW l \in Label,
         label' = [label EXCEPT ![d] = l],
         label[d].mode = "writer" => /\ l.mode = "writer" /\ l.writer = label[d].writer
                                     /\ label[d].pools \subseteq l.pools,
         LabelOK(d)',
         UNCHANGED <<row, journal, handed, captured, outgoing, transfers, handouts, sent,
                     closes, ledger, released, shopVars>>
  PROVE  IInv'
<1>1. label'[d] = l /\ \A e \in Devices \ {d} : label'[e] = label[e]
  BY DeviceTypesAre
<1>2. TypeOK'
  BY DeviceTypesAre, DeviceTyped
<1>3. Sales' /\ NoFork' /\ Decisions'
  BY SalesFrame, ForkFrame, DecisionsFrame
  DEF IInv, saleParts, forkParts, decisionParts, shopVars
<1>4. UNCHANGED <<row, journal, handed, captured, outgoing, transfers, writer, ledger, closes,
                  released>>
  BY DEF shopVars
<1>5. AllDevices'
  <2>1. ASSUME NEW e \in Devices PROVE DeviceOK(e)'
    <3>1. LabelOK(e) /\ RowOK(e) /\ \A p \in Grants : PoolOK(e, p)
      BY DeviceTypes
    <3>2. LabelOK(e)'
      BY <3>1, <1>1, <1>4 DEF LabelOK
    <3>3. RowOK(e)' /\ \A p \in Grants : PoolOK(e, p)'
      BY <3>1, <1>4 DEF RowOK, PoolOK
    <3> QED
      BY <3>2, <3>3 DEF DeviceOK
  <2> QED
    BY <2>1 DEF AllDevices
<1>6. \A s \in Devices : (Saved(s)' <=> Saved(s)) /\ (Open(s)' => Open(s))
  BY <1>1, <1>4 DEF Saved, Open
<1>7. \A e, v \in Devices : (Here(e, v)' <=> Here(e, v)) /\ (Away(e, v)' => Away(e, v))
  <2>1. \A s \in Devices : Saved(s) => outgoing[s].to \in Devices
    BY DEF IInv, Handovers, SavedOK
  <2> QED
    BY <2>1, <1>4, <1>6 DEF Here, Away
<1>8. \A v \in Devices : Origin(v) => Origin(v)' /\ label[v].pools \subseteq label'[v].pools
  BY <1>1 DEF Origin
<1>9. OneHolder'
  <2>1. OneHolder
    BY DEF IInv
  <2> QED
    BY <2>1, <1>7 DEF OneHolder
<1>10. Holders'
  <2>1. Holders
    BY DEF IInv
  <2> QED
    BY <2>1, <1>4, <1>7 DEF Holders, CurrentPools, CurrentCopy, Concerns
<1>11. Origins'
  <2>1. Origins
    BY DEF IInv
  <2>2. \A p \in Grants : writer[p] # NoDevice => writer[p] \in Devices
    BY DeviceTypesAre
  <2>3. ASSUME NEW p \in Grants, NEW v, v = writer[p], v # NoDevice PROVE Origin(v)'
    BY <2>1, <2>2, <2>3, <1>8 DEF Origins
  <2>4. \A p \in Grants : Begun(p)' => writer'[p] # NoDevice /\ label'[writer'[p]].pools # {}
    <3>1. ASSUME NEW p \in Grants, Begun(p)
          PROVE  writer[p] # NoDevice /\ label'[writer[p]].pools # {}
      <4>1. writer[p] # NoDevice /\ label[writer[p]].pools # {} /\ Origin(writer[p])
        BY <2>1, <3>1 DEF Origins
      <4> QED
        BY <4>1, <2>2, <1>8
    <3> QED
      BY <3>1, <1>4 DEF Begun
  <2>5. ASSUME NEW e \in Devices, NEW v \in Devices
        PROVE  /\ Here(e, v) => Origin(v)' /\ (e # v => label'[v].pools # {})
               /\ Saved(e) /\ outgoing[e].writer = v => Origin(v)' /\ label'[v].pools # {}
    <3>1. /\ Here(e, v) => Origin(v) /\ (e # v => label[v].pools # {})
          /\ Saved(e) /\ outgoing[e].writer = v => Origin(v) /\ label[v].pools # {}
      BY <2>1 DEF Origins
    <3> QED
      BY <3>1, <1>8
  <2> QED
    BY <2>3, <2>4, <2>5, <1>4, <1>6, <1>7 DEF Origins, Origin
<1>12. Handovers'
  <2>1. Handovers
    BY DEF IInv
  <2>2. \A e \in Devices : label[e].mode = "writer" => /\ label'[e].mode = "writer"
                                                       /\ label[e].pools \subseteq label'[e].pools
    BY <1>1
  <2>3. \A v, snapshot : SnapshotOK(v, snapshot) => SnapshotOK(v, snapshot)'
    BY <1>4 DEF SnapshotOK
  <2>4. ASSUME NEW e \in Devices PROVE CapturedOK(e)' /\ SavedOK(e)'
    <3>1. CapturedOK(e) /\ SavedOK(e)
      BY <2>1 DEF Handovers
    <3>2. CapturedOK(e)'
      BY <3>1, <2>2, <2>3, <1>4 DEF CapturedOK
    <3>3. SavedOK(e)'
      BY <3>1, <2>2, <2>3, <1>4, <1>6 DEF SavedOK
    <3> QED
      BY <3>2, <3>3
  <2> QED
    BY <2>1, <2>4, <1>4 DEF Handovers
<1>13. Holds'
  BY SellerFrame
<1> QED
  BY <1>2, <1>3, <1>5, <1>9, <1>10, <1>11, <1>12, <1>13 DEF IInv

LEMMA CreateInv ==
  ASSUME Assumptions, IInv, NEW d \in Devices, NEW mode \in {"writer", "target"}, Create(d, mode)
  PROVE  IInv'
<1> DEFINE l == [mode |-> mode, writer |-> d, pools |-> {}]
<1>1. /\ label[d] = NoLabel /\ row[d] = NoRow /\ label' = [label EXCEPT ![d] = l]
      /\ UNCHANGED <<row, journal, handed, captured, outgoing, transfers, handouts, sent,
                     closes, ledger, released, shopVars>>
  BY DEF Create
<1>2. l \in Label /\ l.mode = mode /\ l.writer = d /\ l.pools = {}
  BY DEF Label
<1> HIDE DEF l
<1>3. label[d].mode # "writer"
  BY <1>1 DEF NoLabel
<1>4. label'[d] = l /\ row'[d] = NoRow
  BY <1>1, DeviceTypesAre
<1>5. LabelOK(d)'
  BY <1>2, <1>4 DEF LabelOK, NoRow
<1> QED
  BY <1>1, <1>2, <1>3, <1>5, LabelStep

LEMMA ConfirmInv ==
  ASSUME Assumptions, IInv, NEW d \in Devices, Confirm(d)
  PROVE  IInv'
<1> DEFINE l == [mode |-> "writer", writer |-> row[d].writer, pools |-> row[d].pools]
<1>1. /\ label[d].mode = "target" /\ row[d].state = "active"
      /\ label' = [label EXCEPT ![d] = l]
      /\ UNCHANGED <<row, journal, handed, captured, outgoing, transfers, handouts, sent,
                     closes, ledger, released, shopVars>>
  BY DEF Confirm
<1>2. /\ row[d].writer \in Devices /\ row[d].pools \subseteq Grants
      /\ \A p \in row[d].pools : writer[p] = row[d].writer
  BY <1>1, DeviceTypes DEF RowOK, Registered
<1>3. l \in Label /\ l.mode = "writer" /\ l.writer = row[d].writer /\ l.pools = row[d].pools
  BY <1>2 DEF Label
<1> HIDE DEF l
<1>4. label'[d] = l /\ row' = row /\ writer' = writer
  BY <1>1, DeviceTypesAre DEF shopVars
<1>5. LabelOK(d)'
  BY <1>1, <1>2, <1>3, <1>4 DEF LabelOK
<1> QED
  BY <1>1, <1>3, <1>5, LabelStep

LEMMA ReserveInstallationInv ==
  ASSUME Assumptions, IInv, NEW d \in Devices, NEW p \in Grants, ReserveInstallation(d, p)
  PROVE  IInv'
<1> DEFINE l == [label[d] EXCEPT !.pools = @ \cup {p}]
<1>1. /\ Ready(d) /\ writer[p] = label[d].writer /\ label' = [label EXCEPT ![d] = l]
      /\ UNCHANGED <<row, journal, handed, captured, outgoing, transfers, handouts, sent,
                     closes, ledger, released, shopVars>>
  BY DEF ReserveInstallation
<1>2. label[d] \in Label /\ LabelOK(d)
  BY DeviceTypes
<1>3. /\ l \in Label /\ l.mode = label[d].mode /\ l.writer = label[d].writer
      /\ l.pools = label[d].pools \cup {p}
  BY <1>2 DEF Label
<1> HIDE DEF l
<1>4. label'[d] = l /\ row' = row /\ writer' = writer
  BY <1>1, DeviceTypesAre DEF shopVars
<1>5. LabelOK(d)'
  BY <1>1, <1>2, <1>3, <1>4 DEF LabelOK, Ready
<1> QED
  BY <1>1, <1>3, <1>5, LabelStep

LEMMA PrepareTargetInv ==
  ASSUME Assumptions, IInv, NEW d \in Devices, PrepareTarget(d)
  PROVE  IInv'
<1>0. /\ label[d].mode = "target" /\ row[d] = NoRow /\ row' = [row EXCEPT ![d].state = "target"]
      /\ UNCHANGED <<label, journal, handed, captured, outgoing, transfers, handouts, sent,
                     closes, ledger, released, shopVars>>
  BY DEF PrepareTarget
<1>1. row'[d].state = "target" /\ row[d].state = "none"
      /\ \A e \in Devices \ {d} : row'[e] = row[e]
  BY <1>0, DeviceTypesAre DEF NoRow, Row
<1>2. TypeOK'
  <2>1. row'[d] = [row[d] EXCEPT !.state = "target"] /\ row[d] \in Row
    BY <1>0, DeviceTypesAre
  <2>2. row'[d] \in Row
    BY <2>1 DEF Row
  <2>3. row' \in [Devices -> Row]
    BY <1>0, <2>2, DeviceTypesAre
  <2> QED
    BY <1>0, <2>3, DeviceTypesAre, DeviceTyped
<1>3. UNCHANGED <<label, journal, handed, captured, outgoing, transfers, writer, ledger, closes,
                  released>>
  BY <1>0 DEF shopVars
<1>4. Sales' /\ NoFork' /\ Decisions' /\ Holds'
  BY <1>0, SalesFrame, ForkFrame, DecisionsFrame, HoldsFrame
  DEF IInv, saleParts, forkParts, decisionParts, holdParts, shopVars
<1>5. AllDevices'
  <2>1. ASSUME NEW e \in Devices PROVE DeviceOK(e)'
    <3>1. LabelOK(e) /\ RowOK(e) /\ \A p \in Grants : PoolOK(e, p)
      BY DeviceTypes
    <3>2. LabelOK(e)'
      BY <3>1, <1>0, <1>1, <1>3 DEF LabelOK
    <3>3. RowOK(e)'
      BY <3>1, <1>1, <1>3 DEF RowOK, Registered
    <3>4. ASSUME NEW p \in Grants PROVE PoolOK(e, p)'
      BY <3>1, <1>1, <1>3 DEF PoolOK, Registered
    <3> QED
      BY <3>2, <3>3, <3>4 DEF DeviceOK
  <2> QED
    BY <2>1 DEF AllDevices
<1>6. \A s \in Devices : (Saved(s)' <=> Saved(s)) /\ (Open(s)' <=> Open(s))
  BY <1>1, <1>3 DEF Saved, Open
<1>7. \A e, v \in Devices : (Here(e, v)' <=> Here(e, v)) /\ (Away(e, v)' <=> Away(e, v))
  <2>1. \A s \in Devices : Saved(s) => outgoing[s].to \in Devices
    BY DEF IInv, Handovers, SavedOK
  <2> QED
    BY <2>1, <1>1, <1>3, <1>6 DEF Here, Away
<1>8. OneHolder'
  <2>1. OneHolder
    BY DEF IInv
  <2> QED
    BY <2>1, <1>7 DEF OneHolder
<1>9. Holders'
  <2>1. Holders
    BY DEF IInv
  <2>2. ASSUME NEW e \in Devices, NEW v \in Devices, Here(e, v)
        PROVE  row'[e] = row[e]
    BY <2>2, <1>1 DEF Here
  <2> QED
    BY <2>1, <2>2, <1>3, <1>7 DEF Holders, CurrentPools, CurrentCopy, Concerns
<1>10. Origins'
  <2>1. Origins
    BY DEF IInv
  <2> QED
    BY <2>1, <1>3, <1>6, <1>7 DEF Origins, Origin, Begun
<1>11. Handovers'
  <2>1. Handovers
    BY DEF IInv
  <2>2. \A v, snapshot : SnapshotOK(v, snapshot) => SnapshotOK(v, snapshot)'
    BY <1>3 DEF SnapshotOK
  <2>3. ASSUME NEW e \in Devices PROVE CapturedOK(e)' /\ SavedOK(e)'
    <3>1. CapturedOK(e) /\ SavedOK(e)
      BY <2>1 DEF Handovers
    <3>2. CapturedOK(e)'
      BY <3>1, <2>2, <1>3 DEF CapturedOK
    <3>3. Saved(e) => e # d
      BY <3>1, <1>0 DEF SavedOK
    <3>4. SavedOK(e)'
      BY <3>1, <3>3, <2>2, <1>1, <1>3, <1>6 DEF SavedOK
    <3> QED
      BY <3>2, <3>4
  <2> QED
    BY <2>1, <2>3, <1>3 DEF Handovers
<1> QED
  BY <1>2, <1>4, <1>5, <1>8, <1>9, <1>10, <1>11 DEF IInv

\* The first device of a market: nobody else can have its journal.
LEMMA RegisterInv ==
  ASSUME Assumptions, IInv, NEW d \in Devices, Register(d)
  PROVE  IInv'
<1> DEFINE w == label[d].writer
           r == [NoRow EXCEPT !.state = "active", !.writer = w, !.pools = Cohort(d, w)]
<1>0. /\ label[d].mode = "writer" /\ row[d] = NoRow
      /\ Cohort(d, w) = label[d].pools
      /\ \A p \in Cohort(d, w) : ~journal[d][p].recovered
      /\ Cohort(d, w) # {} \/ w = d
      /\ row' = [row EXCEPT ![d] = r]
      /\ UNCHANGED <<label, journal, handed, captured, outgoing, transfers, handouts, sent,
                     closes, ledger, released, shopVars>>
  BY DEF Register
<1>1. Cohort(d, w) = {}
  <2> SUFFICES ASSUME NEW p \in Cohort(d, w) PROVE FALSE
    OBVIOUS
  <2>1. p \in Grants /\ journal[d][p].state # "none" /\ ~journal[d][p].recovered
    BY <1>0 DEF Cohort, Pools
  <2> QED
    BY <2>1, <1>0, DeviceTypes DEF PoolOK, NoRow, Registered
<1>2. w = d /\ label[d].pools = {} /\ row[d].state = "none" /\ Origin(d)
  BY <1>0, <1>1 DEF NoRow, Origin
<1>3. r \in Row /\ r.state = "active" /\ r.writer = d /\ r.pools = {}
  BY <1>1, <1>2 DEF NoRow, Row
<1> HIDE DEF w, r
<1>4. row'[d] = r /\ \A e \in Devices \ {d} : row'[e] = row[e]
  BY <1>0, DeviceTypesAre
<1>5. TypeOK'
  <2>1. row' \in [Devices -> Row]
    BY <1>0, <1>3, DeviceTypesAre
  <2> QED
    BY <1>0, <2>1, DeviceTypesAre, DeviceTyped
<1>6. UNCHANGED <<label, journal, handed, captured, outgoing, transfers, writer, ledger, closes,
                  released>>
  BY <1>0 DEF shopVars
<1>7. Sales' /\ NoFork' /\ Decisions' /\ Holds'
  BY <1>0, SalesFrame, ForkFrame, DecisionsFrame, HoldsFrame
  DEF IInv, saleParts, forkParts, decisionParts, holdParts, shopVars
\* Nothing of it was begun, and no journal of it is anywhere.
<1>8. \A p \in Grants : writer[p] = d => ledger[p] = <<>> /\ closes[p] = {}
  BY <1>2, Constants DEF IInv, Origins, Begun
<1>9. \A e \in Devices : ~ Here(e, d) /\ ~ (Saved(e) /\ outgoing[e].writer = d)
  <2>1. \A e \in Devices : Here(e, d) => e = d
    BY <1>2 DEF IInv, Origins
  <2>2. ~ Here(d, d)
    BY <1>2 DEF Here
  <2> QED
    BY <2>1, <2>2, <1>2 DEF IInv, Origins
<1>10. ~ Saved(d)
  BY <1>2 DEF IInv, Handovers, SavedOK
<1>11. \A s \in Devices : (Saved(s)' <=> Saved(s)) /\ (Open(s)' <=> Open(s))
  <2>1. ~ Saved(d)'
    BY <1>3, <1>4, <1>6, <1>10 DEF Saved
  <2>2. ~ Open(d) /\ ~ Open(d)'
    BY <1>0, <1>6 DEF Open
  <2> QED
    BY <2>1, <2>2, <1>4, <1>6, <1>10 DEF Saved, Open
<1>12. \A e, v \in Devices : /\ Here(e, v)' <=> Here(e, v) \/ (e = d /\ v = d)
                             /\ Away(e, v)' <=> Away(e, v)
  <2>1. \A s \in Devices : Saved(s) => outgoing[s].to \in Devices
    BY DEF IInv, Handovers, SavedOK
  <2> QED
    BY <2>1, <1>2, <1>3, <1>4, <1>6, <1>11 DEF Here, Away
<1>13. AllDevices'
  <2>1. ASSUME NEW e \in Devices PROVE DeviceOK(e)'
    <3>1. LabelOK(e) /\ RowOK(e) /\ \A p \in Grants : PoolOK(e, p)
      BY DeviceTypes
    <3>2. LabelOK(e)'
      BY <3>1, <1>0, <1>2, <1>3, <1>4, <1>6 DEF LabelOK, w
    <3>3. RowOK(e)'
      BY <3>1, <1>3, <1>4, <1>6 DEF RowOK
    <3>4. ASSUME NEW p \in Grants PROVE PoolOK(e, p)'
      BY <3>1, <1>2, <1>3, <1>4, <1>6 DEF PoolOK, Registered
    <3> QED
      BY <3>2, <3>3, <3>4 DEF DeviceOK
  <2> QED
    BY <2>1 DEF AllDevices
<1>14. OneHolder'
  <2>1. OneHolder
    BY DEF IInv
  <2>2. \A s \in Devices : ~ Away(s, d)
    BY <1>9 DEF Away
  <2> QED
    BY <2>1, <2>2, <1>9, <1>12 DEF OneHolder
<1>15. Holders'
  <2>1. Holders
    BY DEF IInv
  <2>2. ASSUME NEW q \in released PROVE ~ Concerns(q, d)
    <3> SUFFICES ASSUME NEW p \in DOMAIN Lines[q.order], writer[p] = d PROVE FALSE
      BY DEF Concerns
    <3>1. p \in Grants /\ Has(ledger[p], q.order)
      BY RecordIs, Constants DEF IInv, Decisions
    <3> QED
      BY <3>1, <1>8 DEF Has
  <2>3. ASSUME NEW e \in Devices, NEW v \in Devices, Here(e, v)
        PROVE  CurrentPools(v, row[e].pools, journal[e])'
    <3>1. row'[e] = row[e]
      BY <2>3, <1>2, <1>4 DEF Here
    <3>2. CurrentPools(v, row[e].pools, journal[e])
      BY <2>1, <2>3 DEF Holders
    <3> QED
      BY <3>1, <3>2, <1>6 DEF CurrentPools, CurrentCopy
  <2>4. CurrentPools(d, row[d].pools, journal[d])'
    BY <1>3, <1>4, <1>6, <1>8 DEF CurrentPools
  <2>5. ASSUME NEW e \in Devices, NEW v \in Devices, Away(e, v)
        PROVE  CurrentPools(v, DOMAIN outgoing[e].snapshot.pools, outgoing[e].snapshot.pools)'
    <3>1. CurrentPools(v, DOMAIN outgoing[e].snapshot.pools, outgoing[e].snapshot.pools)
      BY <2>1, <2>5 DEF Holders
    <3> QED
      BY <3>1, <1>6 DEF CurrentPools, CurrentCopy
  <2> QED
    BY <2>1, <2>2, <2>3, <2>4, <2>5, <1>6, <1>12 DEF Holders, Concerns
<1>16. Origins'
  <2>1. Origins
    BY DEF IInv
  <2> QED
    BY <2>1, <1>2, <1>6, <1>11, <1>12 DEF Origins, Origin, Begun
<1>17. Handovers'
  <2>1. Handovers
    BY DEF IInv
  <2>2. \A v, snapshot : SnapshotOK(v, snapshot) => SnapshotOK(v, snapshot)'
    BY <1>6 DEF SnapshotOK
  <2>3. ASSUME NEW e \in Devices PROVE CapturedOK(e)' /\ SavedOK(e)'
    <3>1. CapturedOK(e) /\ SavedOK(e)
      BY <2>1 DEF Handovers
    <3>2. CapturedOK(e)'
      BY <3>1, <2>2, <1>6 DEF CapturedOK
    <3>3. SavedOK(e)'
      BY <3>1, <2>2, <1>4, <1>6, <1>10, <1>11 DEF SavedOK
    <3> QED
      BY <3>2, <3>3
  <2> QED
    BY <2>1, <2>3, <1>6 DEF Handovers
<1> QED
  BY <1>5, <1>7, <1>13, <1>14, <1>15, <1>16, <1>17 DEF IInv

\* A new pool, and the end of the ones it takes over from.
LEMMA InstallInv ==
  ASSUME Assumptions, IInv, NEW d \in Devices, NEW p \in Grants, Install(d, p)
  PROVE  IInv'
<1> DEFINE w == row[d].writer
           N == Overlapping(d, p)
           pool(q) == IF q = p THEN [NoPool EXCEPT !.state = "active"]
                      ELSE IF q \in N THEN [journal[d][q] EXCEPT !.state = "closed"]
                      ELSE journal[d][q]
           r == [row[d] EXCEPT !.pools = @ \cup {p}]
<1>0. /\ Ready(d) /\ p \in label[d].pools /\ journal[d][p].state = "none" /\ p \notin row[d].pools
      /\ journal' = [journal EXCEPT ![d] = [q \in Grants |-> pool(q)]]
      /\ row' = [row EXCEPT ![d] = r]
      /\ UNCHANGED <<label, handed, captured, outgoing, transfers, handouts, sent, closes,
                     ledger, released, shopVars>>
  BY DEF Install
<1>1. /\ label[d].mode = "writer" /\ row[d].state = "active" /\ w = label[d].writer
      /\ w \in Devices /\ writer[p] = w /\ row[d] \in Row
  BY <1>0, DeviceTypes DEF Ready, LabelOK
<1>2. r \in Row /\ r.state = "active" /\ r.writer = w /\ r.pools = row[d].pools \cup {p}
  BY <1>1 DEF Row
<1>3. ASSUME NEW q \in Grants
      PROVE  /\ q = p => /\ pool(q).state = "active" /\ pool(q).chain = <<>> /\ ~pool(q).recovered
             /\ q # p => /\ pool(q).chain = journal[d][q].chain
                         /\ pool(q).recovered = journal[d][q].recovered
                         /\ pool(q) = journal[d][q]
                              \/ (pool(q).state = "closed" /\ journal[d][q].state # "none")
             /\ pool(q) \in Pool
  <2>1. journal[d][q] \in Pool
    BY DeviceTypes
  <2>2. q \in N => journal[d][q].state # "none"
    BY DEF Overlapping, Pools
  <2>3. <<>> \in Seq(Entry)
    OBVIOUS
  <2> HIDE DEF N
  <2>4. CASE q = p
    BY <2>3, <2>4 DEF Pool, NoPool
  <2>5. CASE q # p /\ q \in N
    BY <2>1, <2>2, <2>5 DEF Pool
  <2>6. CASE q # p /\ q \notin N
    BY <2>1, <2>6
  <2> QED
    BY <2>4, <2>5, <2>6
<1> HIDE DEF pool, r, w, N
<1>4. /\ \A q \in Grants : journal'[d][q] = pool(q)
      /\ \A e \in Devices \ {d} : journal'[e] = journal[e] /\ row'[e] = row[e]
      /\ row'[d] = r
  BY <1>0, DeviceTypesAre
<1>5. UNCHANGED <<label, handed, captured, outgoing, transfers, writer, ledger, closes,
                  released, sent, imported>>
  BY <1>0 DEF shopVars
<1>6. TypeOK'
  <2>1. [q \in Grants |-> pool(q)] \in [Grants -> Pool]
    BY <1>3
  <2>2. journal' \in [Devices -> [Grants -> Pool]] /\ row' \in [Devices -> Row]
    BY <2>1, <1>0, <1>2, DeviceTypesAre
  <2> QED
    BY <1>0, <2>2, DeviceTypesAre, DeviceTyped
<1>7. Sales' /\ Decisions' /\ Holds'
  BY <1>0, SalesFrame, DecisionsFrame, HoldsFrame
  DEF IInv, saleParts, decisionParts, holdParts, shopVars
<1>8. Here(d, w) /\ CurrentPools(w, row[d].pools, journal[d])
  BY <1>1 DEF Here, IInv, Holders, w
<1>9. ledger[p] = <<>> /\ closes[p] = {}
  BY <1>0, <1>1, <1>8 DEF CurrentPools
<1>10. \A s \in Devices : (Saved(s)' <=> Saved(s)) /\ (Open(s)' <=> Open(s))
  BY <1>1, <1>2, <1>4, <1>5 DEF Saved, Open
<1>11. \A e, v \in Devices : (Here(e, v)' <=> Here(e, v)) /\ (Away(e, v)' <=> Away(e, v))
  <2>1. \A s \in Devices : Saved(s) => outgoing[s].to \in Devices
    BY DEF IInv, Handovers, SavedOK
  <2> QED
    BY <2>1, <1>1, <1>2, <1>4, <1>5, <1>10 DEF Here, Away, w
<1>12. AllDevices'
  <2>1. ASSUME NEW e \in Devices, e # d PROVE DeviceOK(e)'
    <3>1. WritersKept
      BY <1>5 DEF WritersKept
    <3> QED
      BY <2>1, <3>1, <1>4, <1>5, DeviceSame
  <2>2. DeviceOK(d)'
    <3>1. LabelOK(d) /\ RowOK(d) /\ \A q \in Grants : PoolOK(d, q)
      BY DeviceTypes
    <3>2. LabelOK(d)'
      BY <3>1, <1>0, <1>1, <1>2, <1>4, <1>5 DEF LabelOK, w
    <3>3. RowOK(d)'
      <4>1. \A q \in row[d].pools \cup {p} : q \in Grants
        BY DeviceTypes
      <4>2. \A q \in row[d].pools : writer[q] = w /\ journal[d][q].state # "none"
        BY <3>1, <1>1 DEF RowOK, Registered, w
      <4>3. \A q \in r.pools : writer[q] = w /\ pool(q).state # "none"
        BY <4>1, <4>2, <1>1, <1>2, <1>3
      <4> QED
        BY <4>1, <4>3, <1>1, <1>2, <1>4, <1>5 DEF RowOK
    <3>4. ASSUME NEW q \in Grants PROVE PoolOK(d, q)'
      <4>1. PoolOK(d, q)
        BY <3>1
      <4>2. journal'[d][q] = pool(q) /\ row'[d] = r
        BY <1>4
      <4>3. CASE q = p
        BY <4>2, <4>3, <1>2, <1>3 DEF PoolOK, Registered
      <4>4. CASE q # p
        BY <4>1, <4>2, <4>4, <1>2, <1>3 DEF PoolOK, Registered, Stops
      <4> QED
        BY <4>3, <4>4
    <3> QED
      BY <3>2, <3>3, <3>4 DEF DeviceOK
  <2> QED
    BY <2>1, <2>2 DEF AllDevices
<1>13. OneHolder'
  <2>1. OneHolder
    BY DEF IInv
  <2> QED
    BY <2>1, <1>11 DEF OneHolder
<1>14. Holders'
  <2>1. Holders
    BY DEF IInv
  <2>2. ASSUME NEW e \in Devices, NEW v \in Devices, Here(e, v)
        PROVE  CurrentPools(v, row[e].pools, journal[e])'
    <3>1. CASE e # d
      <4>1. CurrentPools(v, row[e].pools, journal[e])
        BY <2>1, <2>2 DEF Holders
      <4> QED
        BY <3>1, <4>1, <1>4, <1>5 DEF CurrentPools, CurrentCopy
    <3>2. CASE e = d
      <4>1. v = w
        BY <2>2, <3>2 DEF Here, w
      <4>2. ASSUME NEW q \in Grants, writer[q] = w
            PROVE  IF q \in r.pools THEN /\ pool(q).chain = ledger[q]
                                         /\ closes[q] # {} => pool(q).state \in Stops
                   ELSE ledger[q] = <<>> /\ closes[q] = {}
        BY <4>2, <1>2, <1>3, <1>8, <1>9 DEF CurrentPools, CurrentCopy, Stops
      <4> QED
        BY <3>2, <4>1, <4>2, <1>4, <1>5 DEF CurrentPools, CurrentCopy
    <3> QED
      BY <3>1, <3>2
  <2>3. ASSUME NEW e \in Devices, NEW v \in Devices, Away(e, v)
        PROVE  CurrentPools(v, DOMAIN outgoing[e].snapshot.pools, outgoing[e].snapshot.pools)'
    <3>1. CurrentPools(v, DOMAIN outgoing[e].snapshot.pools, outgoing[e].snapshot.pools)
      BY <2>1, <2>3 DEF Holders
    <3> QED
      BY <3>1, <1>5 DEF CurrentPools, CurrentCopy
  <2> QED
    BY <2>1, <2>2, <2>3, <1>5, <1>11 DEF Holders, Concerns
<1>15. Origins'
  <2>1. Origins
    BY DEF IInv
  <2> QED
    BY <2>1, <1>5, <1>10, <1>11 DEF Origins, Origin, Begun
<1>16. Handovers'
  <2>1. Handovers
    BY DEF IInv
  <2>2. \A v, snapshot : SnapshotOK(v, snapshot) => SnapshotOK(v, snapshot)'
    BY <1>5 DEF SnapshotOK
  <2>3. ASSUME NEW e \in Devices PROVE CapturedOK(e)' /\ SavedOK(e)'
    <3>1. CapturedOK(e) /\ SavedOK(e)
      BY <2>1 DEF Handovers
    <3>2. CapturedOK(e)'
      BY <3>1, <2>2, <1>5 DEF CapturedOK
    <3>3. Saved(e) => e # d
      BY <3>1, <1>1 DEF SavedOK
    <3>4. SavedOK(e)'
      BY <3>1, <3>3, <2>2, <1>4, <1>5, <1>10 DEF SavedOK
    <3> QED
      BY <3>2, <3>4
  <2> QED
    BY <2>1, <2>3, <1>5 DEF Handovers
<1>17. NoFork'
  <2>1. NoFork
    BY DEF IInv
  <2>2. ASSUME NEW e \in Devices, NEW q \in Grants PROVE IsPrefix(journal'[e][q].chain, ledger[q])
    <3>1. ledger[q] \in Seq(Entry) /\ IsPrefix(<<>>, ledger[q])
      BY DeviceTypesAre, PrefixEmpty
    <3>2. CASE e = d /\ q = p
      BY <3>1, <3>2, <1>3, <1>4
    <3>3. CASE ~ (e = d /\ q = p)
      BY <3>3, <2>1, <1>3, <1>4 DEF NoFork
    <3> QED
      BY <3>2, <3>3
  <2> QED
    BY <2>1, <2>2, <1>5 DEF NoFork
<1> QED
  BY <1>6, <1>7, <1>12, <1>13, <1>14, <1>15, <1>16, <1>17 DEF IInv

-----------------------------------------------------------------------------
(* Moving to another device.                                               *)

\* The journal is frozen as it was read: its device was the one to sell from it.
LEMMA FreezeInv ==
  ASSUME Assumptions, IInv, NEW d \in Devices, Freeze(d)
  PROVE  IInv'
<1> DEFINE c == captured[d]
           w == row[d].writer
           r == [row[d] EXCEPT !.state = "retired", !.generation = @ + 1]
           m == [to |-> c.to, writer |-> c.row.writer, generation |-> c.row.generation + 1,
                 snapshot |-> c.snapshot]
<1>0. /\ c # NoTransfer /\ row[d] = c.row /\ Intact(d, w) /\ Snapshot(d) = c.snapshot
      /\ row' = [row EXCEPT ![d].state = "retired", ![d].generation = @ + 1]
      /\ outgoing' = [outgoing EXCEPT ![d] = m]
      /\ captured' = [captured EXCEPT ![d] = NoTransfer]
      /\ UNCHANGED <<label, journal, handed, transfers, handouts, sent, closes, ledger,
                     released, shopVars>>
  BY DEF Freeze, Save
<1>1. /\ c.to \in Devices /\ label[d].mode = "writer" /\ row[d] \in Row
      /\ row[d].state = "active" /\ w \in Devices /\ SnapshotOK(w, c.snapshot)
  BY <1>0 DEF IInv, Handovers, CapturedOK
<1>2. /\ r \in Row /\ r.state = "retired" /\ r.writer = w /\ r.pools = row[d].pools
      /\ row[d].generation \in Nat
  <2>1. row[d].generation + 1 \in Nat /\ row[d].generation \in Nat
    BY <1>1 DEF Row
  <2>2. r = [row[d] EXCEPT !.state = "retired", !.generation = row[d].generation + 1]
    OBVIOUS
  <2> HIDE DEF r
  <2>3. \A n \in Nat : LET x == [row[d] EXCEPT !.state = "retired", !.generation = n]
                      IN  /\ x \in Row /\ x.state = "retired" /\ x.writer = row[d].writer
                          /\ x.pools = row[d].pools
    BY <1>1 DEF Row
  <2> QED
    BY <2>1, <2>2, <2>3
<1>3. m.to = c.to /\ m.writer = w /\ m.snapshot = Snapshot(d) /\ m.generation \in Nat
  BY <1>0, <1>2
<1>4. row'[d] = r /\ \A e \in Devices \ {d} : row'[e] = row[e]
  BY <1>0, DeviceTypesAre
<1>5. /\ DOMAIN outgoing' = Devices /\ DOMAIN captured' = Devices
      /\ outgoing'[d] = m /\ captured'[d] = NoTransfer
      /\ \A e \in Devices \ {d} : outgoing'[e] = outgoing[e] /\ captured'[e] = captured[e]
  BY <1>0 DEF IInv, Handovers
<1>6. /\ DOMAIN Snapshot(d).pools = Cohort(d, w)
      /\ \A p \in Cohort(d, w) : Snapshot(d).pools[p] = journal[d][p]
      /\ DOMAIN Snapshot(d).handed = {o \in Orders : HasOrder(d, o)}
      /\ \A o \in Orders : HasOrder(d, o) => Snapshot(d).handed[o] = handed[d][o]
  BY DEF Snapshot
<1>7. row[d].pools = Cohort(d, w)
  BY <1>0 DEF Intact
<1> HIDE DEF r, m
<1>8. SnapshotOK(w, Snapshot(d)) /\ Cohort(d, w) # {}
  BY <1>0, <1>1, <1>6 DEF SnapshotOK
<1>9. row' \in [Devices -> Row]
  <2>1. row' = [row EXCEPT ![d] = r]
    BY <1>0, DeviceTypesAre DEF r
  <2> QED
    BY <2>1, <1>2, DeviceTypesAre
<1> HIDE DEF c, w
<1>10. TypeOK'
  BY <1>0, <1>9, DeviceTypesAre, DeviceTyped
<1>11. UNCHANGED <<label, journal, handed, transfers, writer, ledger, closes, released>>
  BY <1>0 DEF shopVars
<1>12. Sales' /\ NoFork' /\ Decisions' /\ Holds'
  BY <1>0, SalesFrame, ForkFrame, DecisionsFrame, HoldsFrame
  DEF IInv, saleParts, forkParts, decisionParts, holdParts, shopVars
<1>13. Here(d, w) /\ ~ Saved(d) /\ Origin(w) /\ label[w].pools # {} /\ label[d].pools # {}
  <2>1. Here(d, w)
    BY <1>1 DEF Here, w
  <2>2. ~ Saved(d)
    BY <1>1 DEF IInv, Handovers, SavedOK
  <2>3. Origin(w) /\ (d # w => label[w].pools # {})
    BY <2>1, <1>1 DEF IInv, Origins
  <2>4. row[d].pools \subseteq label[d].pools
    BY <1>1, DeviceTypes DEF LabelOK
  <2>5. label[d].pools # {}
    BY <2>4, <1>7, <1>8
  <2> QED
    BY <2>1, <2>2, <2>3, <2>5
<1>14. /\ \A s \in Devices : Saved(s)' <=> Saved(s) \/ s = d
       /\ \A s \in Devices : Open(s)' <=> Open(s)
  BY <1>1, <1>2, <1>4, <1>11 DEF Saved, Open
<1>15. \A e, v \in Devices : /\ Here(e, v)' <=> Here(e, v) /\ e # d
                             /\ Away(e, v)' => \/ Away(e, v) /\ e # d
                                               \/ e = d /\ v = w
  <2>1. \A s \in Devices : Saved(s) => outgoing[s].to \in Devices
    BY DEF IInv, Handovers, SavedOK
  <2> QED
    BY <2>1, <1>2, <1>3, <1>4, <1>5, <1>14 DEF Here, Away
<1>16. AllDevices'
  <2>1. ASSUME NEW e \in Devices PROVE DeviceOK(e)'
    <3>1. LabelOK(e) /\ RowOK(e) /\ \A p \in Grants : PoolOK(e, p)
      BY DeviceTypes
    <3>2. LabelOK(e)'
      BY <3>1, <1>1, <1>2, <1>4, <1>11 DEF LabelOK, w
    <3>3. RowOK(e)'
      BY <3>1, <1>1, <1>2, <1>4, <1>11 DEF RowOK, Registered, w
    <3>4. ASSUME NEW p \in Grants PROVE PoolOK(e, p)'
      BY <3>1, <1>2, <1>4, <1>11 DEF PoolOK, Registered
    <3> QED
      BY <3>2, <3>3, <3>4 DEF DeviceOK
  <2> QED
    BY <2>1 DEF AllDevices
<1>17. OneHolder'
  <2>1. OneHolder
    BY DEF IInv
  <2>2. \A e \in Devices : Here(e, w) => e = d
    BY <1>1, <1>13, OnlyHolder
  <2>3. \A s \in Devices : ~ Away(s, w)
    BY <1>1, <1>13, OnlyHolder
  <2> QED
    BY <2>1, <2>2, <2>3, <1>15 DEF OneHolder
<1>18. Holders'
  <2>1. Holders
    BY DEF IInv
  <2>2. ASSUME NEW e \in Devices, NEW v \in Devices, Here(e, v), e # d
        PROVE  CurrentPools(v, row[e].pools, journal[e])'
    <3>1. CurrentPools(v, row[e].pools, journal[e])
      BY <2>1, <2>2 DEF Holders
    <3> QED
      BY <2>2, <3>1, <1>4, <1>11 DEF CurrentPools, CurrentCopy
  <2>3. ASSUME NEW e \in Devices, NEW v \in Devices, Away(e, v), e # d
        PROVE  CurrentPools(v, DOMAIN outgoing[e].snapshot.pools, outgoing[e].snapshot.pools)'
    <3>1. CurrentPools(v, DOMAIN outgoing[e].snapshot.pools, outgoing[e].snapshot.pools)
      BY <2>1, <2>3 DEF Holders
    <3> QED
      BY <2>3, <3>1, <1>5, <1>11 DEF CurrentPools, CurrentCopy
  \* What is handed over is what the device had.
  <2>4. /\ CurrentPools(w, row[d].pools, journal[d])
        /\ \A q \in released : Concerns(q, w) => handed[d][q.order] = q.by
    BY <2>1, <1>1, <1>13 DEF Holders
  <2>5. ASSUME NEW v, v = w
        PROVE  CurrentPools(v, DOMAIN outgoing[d].snapshot.pools, outgoing[d].snapshot.pools)'
    BY <2>4, <2>5, <1>3, <1>5, <1>6, <1>7, <1>11 DEF CurrentPools, CurrentCopy
  <2>6. ASSUME NEW q \in released, Concerns(q, w)
        PROVE  /\ q.order \in DOMAIN Snapshot(d).handed
               /\ Snapshot(d).handed[q.order] = q.by
    <3>0. q.order \in Orders
      BY RecordIs
    <3>1. ASSUME NEW p \in DOMAIN Lines[q.order] PROVE q.order \in Accepted(d, p)
      <4>1. p \in Grants /\ Has(ledger[p], q.order)
        BY <3>0, Constants DEF IInv, Decisions
      <4>2. writer[p] = w
        <5>1. PICK k \in DOMAIN Lines[q.order] : writer[k] = w
          BY <2>6 DEF Concerns
        <5>2. Has(ledger[k], q.order)
          BY <3>0, Constants DEF IInv, Decisions
        <5> QED
          BY <3>0, <5>1, <5>2 DEF IInv, Sales
      <4>3. journal[d][p].chain = ledger[p]
        BY <2>4, <4>1, <4>2 DEF CurrentPools, CurrentCopy, Has
      <4> QED
        BY <4>1, <4>3, HasAccepted
    <3>2. HasOrder(d, q.order)
      BY <3>1 DEF HasOrder
    <3> QED
      BY <2>4, <2>6, <3>0, <3>2, <1>6
  <2> QED
    BY <2>1, <2>2, <2>3, <2>5, <2>6, <1>3, <1>5, <1>11, <1>15 DEF Holders, Concerns
<1>19. Origins'
  <2>1. Origins
    BY DEF IInv
  <2> QED
    BY <2>1, <1>3, <1>5, <1>11, <1>13, <1>14, <1>15 DEF Origins, Origin, Begun
<1>20. Handovers'
  <2>1. Handovers
    BY DEF IInv
  <2>2. \A v, snapshot : SnapshotOK(v, snapshot) => SnapshotOK(v, snapshot)'
    BY <1>11 DEF SnapshotOK
  <2>3. ASSUME NEW e \in Devices, e # d PROVE CapturedOK(e)' /\ SavedOK(e)'
    <3>1. CapturedOK(e) /\ SavedOK(e)
      BY <2>1 DEF Handovers
    <3>2. CapturedOK(e)'
      BY <2>3, <3>1, <2>2, <1>5, <1>11 DEF CapturedOK
    <3>3. SavedOK(e)'
      BY <2>3, <3>1, <2>2, <1>4, <1>5, <1>11, <1>14 DEF SavedOK
    <3> QED
      BY <3>2, <3>3
  <2>4. CapturedOK(d)'
    BY <1>5 DEF CapturedOK
  <2>5. SavedOK(d)'
    BY <2>2, <1>1, <1>2, <1>3, <1>4, <1>5, <1>8, <1>11, <1>13 DEF SavedOK, c
  <2> QED
    BY <2>3, <2>4, <2>5, <1>5 DEF Handovers
<1> QED
  BY <1>10, <1>12, <1>16, <1>17, <1>18, <1>19, <1>20 DEF IInv

\* The journal arrives, and can arrive nowhere else.
LEMMA RestoreInv ==
  ASSUME Assumptions, IInv, NEW t \in Devices, NEW s \in Devices, Restore(t, s)
  PROVE  IInv'
<1> DEFINE m == outgoing[s]
           saved == m.snapshot
           w == m.writer
           r == [state |-> "active", writer |-> w, generation |-> m.generation, from |-> s,
                 pools |-> DOMAIN saved.pools]
<1>0. /\ s \in transfers /\ m.to = t /\ row[t].state = "target"
      /\ row' = [row EXCEPT ![t] = r]
      /\ journal' = [journal EXCEPT ![t] = [p \in Grants |->
                       IF p \in DOMAIN saved.pools THEN saved.pools[p] ELSE journal[t][p]]]
      /\ handed' = [handed EXCEPT ![t] = [o \in Orders |->
                      IF o \in DOMAIN saved.handed THEN saved.handed[o] ELSE handed[t][o]]]
      /\ UNCHANGED <<label, captured, outgoing, transfers, handouts, sent, closes, ledger,
                     released, shopVars>>
  BY DEF Restore, Restorable, Restored
<1>1. Saved(s) /\ w \in Devices /\ m.generation \in Nat /\ SnapshotOK(w, saved)
  <2>1. Saved(s)
    BY <1>0 DEF Saved
  <2> QED
    BY <2>1 DEF IInv, Handovers, SavedOK
<1>2. label[t].mode = "target" /\ ~ Saved(t) /\ Open(t) /\ captured[t] = NoTransfer
  <2>1. label[t].mode = "target"
    BY <1>0, DeviceTypes DEF LabelOK, Label
  <2> QED
    BY <2>1, <1>0 DEF IInv, Handovers, SavedOK, CapturedOK, Open
<1>3. Away(s, w)
  BY <1>0, <1>1, <1>2 DEF Away
<1>4. /\ DOMAIN saved.pools \subseteq Grants /\ DOMAIN saved.handed \subseteq Orders
      /\ \A p \in DOMAIN saved.pools :
           /\ writer[p] = w /\ saved.pools[p] \in Pool
           /\ saved.pools[p].state # "none" /\ ~saved.pools[p].recovered
           /\ IsPrefix(saved.pools[p].chain, ledger[p])
      /\ \A o \in DOMAIN saved.handed :
           saved.handed[o] # NoDevice => [order |-> o, by |-> saved.handed[o]] \in released
  BY <1>1 DEF SnapshotOK
<1>5. r \in Row /\ r.state = "active" /\ r.writer = w /\ r.pools = DOMAIN saved.pools
  BY <1>1, <1>4 DEF Row
<1>6. /\ CurrentPools(w, DOMAIN saved.pools, saved.pools)
      /\ \A q \in released : Concerns(q, w) => /\ q.order \in DOMAIN saved.handed
                                               /\ saved.handed[q.order] = q.by
  BY <1>1, <1>3 DEF IInv, Holders
<1> HIDE DEF r, w, saved, m
<1>7. /\ row'[t] = r
      /\ \A p \in Grants :
           journal'[t][p] = IF p \in DOMAIN saved.pools THEN saved.pools[p] ELSE journal[t][p]
      /\ \A o \in Orders :
           handed'[t][o] = IF o \in DOMAIN saved.handed THEN saved.handed[o] ELSE handed[t][o]
      /\ \A e \in Devices \ {t} :
           row'[e] = row[e] /\ journal'[e] = journal[e] /\ handed'[e] = handed[e]
  BY <1>0, DeviceTypesAre
<1>8. TypeOK'
  <2>1. row' \in [Devices -> Row]
    BY <1>0, <1>5, DeviceTypesAre
  <2>2. journal' \in [Devices -> [Grants -> Pool]]
    <3>1. [p \in Grants |-> IF p \in DOMAIN saved.pools THEN saved.pools[p] ELSE journal[t][p]]
            \in [Grants -> Pool]
      BY <1>4, DeviceTypes
    <3> QED
      BY <3>1, <1>0, DeviceTypesAre
  <2>3. handed' \in [Devices -> [Orders -> Devices \cup {NoDevice}]]
    <3>1. ASSUME NEW o \in DOMAIN saved.handed PROVE saved.handed[o] \in Devices \cup {NoDevice}
      <4>1. saved.handed[o] # NoDevice => [order |-> o, by |-> saved.handed[o]] \in Entry
        BY <1>4, DeviceTypesAre
      <4> QED
        BY <4>1 DEF Entry
    <3>2. [o \in Orders |-> IF o \in DOMAIN saved.handed THEN saved.handed[o] ELSE handed[t][o]]
            \in [Orders -> Devices \cup {NoDevice}]
      BY <3>1, DeviceTypesAre
    <3> QED
      BY <3>2, <1>0, DeviceTypesAre
  <2> QED
    BY <1>0, <2>1, <2>2, <2>3, DeviceTypesAre, DeviceTyped
<1>9. UNCHANGED <<label, captured, outgoing, transfers, handouts, writer, ledger, closes,
                  released, sent, imported>>
  BY <1>0 DEF shopVars
<1>10. Sales' /\ Holds'
  BY <1>0, SalesFrame, HoldsFrame DEF IInv, saleParts, holdParts, shopVars
<1>11. \A e \in Devices : /\ Saved(e)' <=> Saved(e)
                          /\ Open(e)' <=> Open(e) /\ e # t
  <2>1. ~ Saved(t)' /\ ~ Open(t)'
    BY <1>2, <1>5, <1>7, <1>9 DEF Saved, Open
  <2> QED
    BY <2>1, <1>2, <1>7, <1>9 DEF Saved, Open
<1>12. \A e, v \in Devices :
         /\ Here(e, v)' <=> Here(e, v) \/ (e = t /\ v = w)
         /\ Away(e, v)' => Away(e, v) /\ e # s
  <2>1. \A e \in Devices : Saved(e) => outgoing[e].to \in Devices
    BY DEF IInv, Handovers, SavedOK
  <2> QED
    BY <2>1, <1>0, <1>5, <1>7, <1>9, <1>11 DEF Here, Away, m
<1>13. AllDevices'
  <2>1. ASSUME NEW e \in Devices, e # t PROVE DeviceOK(e)'
    <3>1. WritersKept
      BY <1>9 DEF WritersKept
    <3> QED
      BY <2>1, <3>1, <1>7, <1>9, DeviceSame
  <2>2. DeviceOK(t)'
    <3>1. LabelOK(t) /\ RowOK(t) /\ \A p \in Grants : PoolOK(t, p)
      BY DeviceTypes
    <3>2. LabelOK(t)'
      BY <1>2, <1>5, <1>7, <1>9 DEF LabelOK
    <3>3. RowOK(t)'
      BY <1>1, <1>4, <1>5, <1>7, <1>9 DEF RowOK
    <3>4. ASSUME NEW p \in Grants PROVE PoolOK(t, p)'
      <4>1. CASE p \in DOMAIN saved.pools
        BY <4>1, <1>4, <1>5, <1>7 DEF PoolOK, Registered
      <4>2. CASE p \notin DOMAIN saved.pools
        BY <3>1, <4>2, <1>0, <1>7 DEF PoolOK, Registered
      <4> QED
        BY <4>1, <4>2
    <3> QED
      BY <3>2, <3>3, <3>4 DEF DeviceOK
  <2> QED
    BY <2>1, <2>2 DEF AllDevices
<1>14. OneHolder'
  <2>1. OneHolder
    BY DEF IInv
  <2>2. \A e \in Devices : ~ Here(e, w) /\ (Away(e, w) => e = s)
    BY <2>1, <1>1, <1>3 DEF OneHolder
  <2> QED
    BY <2>1, <2>2, <1>12 DEF OneHolder
<1>15. Holders'
  <2>1. Holders
    BY DEF IInv
  <2>2. ASSUME NEW e \in Devices, NEW v \in Devices, Here(e, v)
        PROVE  /\ CurrentPools(v, row[e].pools, journal[e])'
               /\ handed'[e] = handed[e]
    <3>1. CurrentPools(v, row[e].pools, journal[e])
      BY <2>1, <2>2 DEF Holders
    <3>2. e # t
      BY <2>2, <1>0 DEF Here
    <3> QED
      BY <3>1, <3>2, <1>7, <1>9 DEF CurrentPools, CurrentCopy
  <2>3. ASSUME NEW e \in Devices, NEW v \in Devices, Away(e, v)
        PROVE  CurrentPools(v, DOMAIN outgoing[e].snapshot.pools, outgoing[e].snapshot.pools)'
    <3>1. CurrentPools(v, DOMAIN outgoing[e].snapshot.pools, outgoing[e].snapshot.pools)
      BY <2>1, <2>3 DEF Holders
    <3> QED
      BY <3>1, <1>9 DEF CurrentPools, CurrentCopy
  <2>4. ASSUME NEW v, v = w PROVE CurrentPools(v, row[t].pools, journal[t])'
    BY <2>4, <1>4, <1>5, <1>6, <1>7, <1>9 DEF CurrentPools, CurrentCopy
  <2>5. ASSUME NEW q \in released, Concerns(q, w) PROVE handed'[t][q.order] = q.by
    BY <2>5, <1>6, <1>7, RecordIs
  <2> QED
    BY <2>1, <2>2, <2>3, <2>4, <2>5, <1>9, <1>12 DEF Holders, Concerns
<1>16. Origins'
  <2>1. Origins
    BY DEF IInv
  <2>2. Origin(w) /\ label[w].pools # {}
    BY <2>1, <1>1 DEF Origins, w, m
  <2> QED
    BY <2>1, <2>2, <1>9, <1>11, <1>12 DEF Origins, Origin, Begun
<1>17. Handovers'
  <2>1. Handovers
    BY DEF IInv
  <2>2. \A v, snapshot : SnapshotOK(v, snapshot) => SnapshotOK(v, snapshot)'
    BY <1>9 DEF SnapshotOK
  <2>3. ASSUME NEW e \in Devices PROVE CapturedOK(e)' /\ SavedOK(e)'
    <3>1. CapturedOK(e) /\ SavedOK(e)
      BY <2>1 DEF Handovers
    <3>2. CapturedOK(e)'
      BY <3>1, <2>2, <1>9 DEF CapturedOK
    <3>3. SavedOK(e)'
      BY <3>1, <2>2, <1>2, <1>7, <1>9, <1>11 DEF SavedOK
    <3> QED
      BY <3>2, <3>3
  <2> QED
    BY <2>1, <2>3, <1>9 DEF Handovers
<1>18. NoFork'
  <2>1. NoFork
    BY DEF IInv
  <2>2. ASSUME NEW e \in Devices, NEW p \in Grants PROVE IsPrefix(journal'[e][p].chain, ledger[p])
    BY <2>1, <1>4, <1>7 DEF NoFork
  <2> QED
    BY <2>1, <2>2, <1>9 DEF NoFork
<1>19. Decisions'
  <2>1. Decisions
    BY DEF IInv
  <2>2. ASSUME NEW e \in Devices, NEW o \in Orders, handed'[e][o] # NoDevice
        PROVE  [order |-> o, by |-> handed'[e][o]] \in released
    BY <2>1, <2>2, <1>4, <1>7 DEF Decisions
  <2> QED
    BY <2>1, <2>2, <1>9 DEF Decisions, HandedOutOnce, Has
<1> QED
  BY <1>8, <1>10, <1>13, <1>14, <1>15, <1>16, <1>17, <1>18, <1>19 DEF IInv

-----------------------------------------------------------------------------
(* Recovery and loss.                                                      *)

\* What is recovered is the whole history of a closed pool, and its decisions.
LEMMA RecoverClosedInv ==
  ASSUME Assumptions, IInv, NEW d \in Devices, NEW p \in Grants, NEW closed \in BOOLEAN,
         RecoverClosed(d, p, closed)
  PROVE  IInv'
<1>1. PICK chain \in closes[p] :
        LET known == {h \in handouts : h.order \in {e.order : e \in ToSet(chain)}}
        IN  /\ journal' = [journal EXCEPT ![d][p] =
                             Recovered(d, p, chain, closed, {h.order : h \in known})]
            /\ handed' = [handed EXCEPT ![d] = [o \in Orders |->
                            IF \E h \in known : h.order = o
                            THEN (CHOOSE h \in known : h.order = o).by ELSE handed[d][o]]]
            /\ UNCHANGED <<label, row, captured, outgoing, transfers, handouts, sent, closes,
                           ledger, released, shopVars>>
  BY DEF RecoverClosed
<1> DEFINE known == {h \in handouts : h.order \in {e.order : e \in ToSet(chain)}}
           pool == Recovered(d, p, chain, closed, {h.order : h \in known})
           by(o) == IF \E h \in known : h.order = o
                    THEN (CHOOSE h \in known : h.order = o).by ELSE handed[d][o]
<1>2. /\ journal' = [journal EXCEPT ![d][p] = pool]
      /\ handed' = [handed EXCEPT ![d] = [o \in Orders |-> by(o)]]
      /\ UNCHANGED <<label, row, captured, outgoing, transfers, handouts, sent, closes, ledger,
                     released, shopVars>>
  BY <1>1
<1>3. chain = ledger[p] /\ chain \in Seq(Entry)
  <2>1. Sales
    BY DEF IInv
  <2> QED
    BY <2>1, DeviceTypesAre DEF Sales
<1>4. known \subseteq released
  BY DEF IInv, Decisions
<1>5. pool \in Pool /\ pool.chain = ledger[p] /\ pool.state \in Stops /\ pool.recovered
  <2> DEFINE state == IF closed \/ journal[d][p].state = "closed" THEN "closed" ELSE "closing"
             bare == journal[d][p].bare \cup {o \in {e.order : e \in ToSet(chain)} \ Accepted(d, p) :
                                                o \notin {h.order : h \in known}}
  <2>1. pool = [state |-> state, chain |-> chain, recovered |-> TRUE, bare |-> bare]
    BY DEF Recovered
  <2>2. bare \subseteq Orders
    <3>1. journal[d][p].bare \subseteq Orders
      <4>1. journal[d][p] \in Pool
        BY DeviceTypes
      <4> QED
        BY <4>1 DEF Pool
    <3>2. \A e \in ToSet(chain) : e.order \in Orders
      <4>1. \A i \in DOMAIN chain : chain[i] \in Entry
        BY <1>3
      <4> QED
        BY <4>1 DEF ToSet, Entry
    <3> QED
      BY <3>1, <3>2
  <2>3. state \in Stops
    BY DEF Stops
  <2> HIDE DEF pool, state, bare
  <2> QED
    BY <2>1, <2>2, <2>3, <1>3 DEF Pool, Stops
<1> HIDE DEF pool
\* A decision that was recovered is the one that was made.
<1>6. ASSUME NEW o \in Orders
      PROVE  /\ by(o) \in Devices \cup {NoDevice}
             /\ by(o) # NoDevice => [order |-> o, by |-> by(o)] \in released
             /\ \A q \in released : q.order = o /\ handed[d][o] = q.by => by(o) = q.by
  <2>1. CASE \E h \in known : h.order = o
    <3> DEFINE h == CHOOSE x \in known : x.order = o
    <3>1. h \in known /\ h.order = o
      BY <2>1
    <3>2. by(o) = h.by
      BY <2>1
    <3> HIDE DEF h
    <3>3. /\ h \in released /\ h.by \in Devices /\ h = [order |-> h.order, by |-> h.by]
          /\ \A q \in released : q.order = h.order => q = h
      BY <3>1, <1>4, RecordIs
    <3> QED
      BY <3>1, <3>2, <3>3
  <2>2. CASE ~ \E h \in known : h.order = o
    <3>1. by(o) = handed[d][o]
      BY <2>2
    <3>2. handed[d][o] \in Devices \cup {NoDevice}
      BY DeviceTypesAre
    <3>3. handed[d][o] # NoDevice => [order |-> o, by |-> handed[d][o]] \in released
      BY DEF IInv, Decisions
    <3> QED
      BY <3>1, <3>2, <3>3
  <2> QED
    BY <2>1, <2>2
<1> HIDE DEF by, known
<1>7. /\ \A e \in Devices, q \in Grants :
           journal'[e][q] = IF e = d /\ q = p THEN pool ELSE journal[e][q]
      /\ \A e \in Devices, o \in Orders :
           handed'[e][o] = IF e = d THEN by(o) ELSE handed[e][o]
  BY <1>2, DeviceTypesAre
<1>8. TypeOK'
  <2>1. journal' \in [Devices -> [Grants -> Pool]]
    BY <1>2, <1>5, DeviceTypesAre
  <2>2. handed' \in [Devices -> [Orders -> Devices \cup {NoDevice}]]
    <3>1. [o \in Orders |-> by(o)] \in [Orders -> Devices \cup {NoDevice}]
      BY <1>6
    <3> QED
      BY <3>1, <1>2, DeviceTypesAre
  <2> QED
    BY <1>2, <2>1, <2>2, DeviceTypesAre, DeviceTyped
<1>9. UNCHANGED <<label, row, captured, outgoing, transfers, handouts, writer, ledger, closes,
                  released, sent, imported>>
  BY <1>2 DEF shopVars
<1>10. OneHolder' /\ Origins' /\ Handovers' /\ Sales' /\ Holds'
  BY <1>2, OneHolderFrame, OriginsFrame, HandoversFrame, SalesFrame, HoldsFrame
  DEF IInv, tokenParts, originParts, handoverParts, saleParts, holdParts, shopVars
<1>11. AllDevices'
  <2>1. ASSUME NEW e \in Devices PROVE DeviceOK(e)'
    <3>1. LabelOK(e) /\ RowOK(e) /\ \A q \in Grants : PoolOK(e, q)
      BY DeviceTypes
    <3>2. LabelOK(e)'
      BY <3>1, <1>9 DEF LabelOK
    <3>3. RowOK(e)'
      <4>1. row[e].pools \subseteq Grants
        BY DeviceTypes
      <4> QED
        BY <3>1, <4>1, <1>5, <1>7, <1>9 DEF RowOK, Stops
    <3>4. ASSUME NEW q \in Grants PROVE PoolOK(e, q)'
      BY <3>1, <1>5, <1>7, <1>9 DEF PoolOK, Stops
    <3> QED
      BY <3>2, <3>3, <3>4 DEF DeviceOK
  <2> QED
    BY <2>1 DEF AllDevices
<1>12. Holders'
  <2>1. Holders
    BY DEF IInv
  <2>2. \A e, v \in Devices : (Here(e, v)' <=> Here(e, v)) /\ (Away(e, v)' <=> Away(e, v))
    BY <1>9 DEF Here, Away, Saved, Open
  <2>3. ASSUME NEW e \in Devices, NEW v \in Devices, Here(e, v)
        PROVE  CurrentPools(v, row[e].pools, journal[e])'
    <3>1. CurrentPools(v, row[e].pools, journal[e])
      BY <2>1, <2>3 DEF Holders
    <3>2. \A q \in Grants : CurrentCopy(q, journal[e][q]) => CurrentCopy(q, journal'[e][q])
      BY <1>5, <1>7 DEF CurrentCopy
    <3>3. ASSUME NEW q \in Grants, writer[q] = v
          PROVE  IF q \in row[e].pools THEN CurrentCopy(q, journal'[e][q])
                 ELSE ledger[q] = <<>> /\ closes[q] = {}
      BY <3>1, <3>2, <3>3 DEF CurrentPools
    <3> QED
      BY <3>3, <1>9 DEF CurrentPools, CurrentCopy
  <2>4. ASSUME NEW e \in Devices, NEW q \in released, handed[e][q.order] = q.by
        PROVE  handed'[e][q.order] = q.by
    <3>1. q.order \in Orders
      BY RecordIs
    <3>2. handed'[e][q.order] = IF e = d THEN by(q.order) ELSE handed[e][q.order]
      BY <3>1, <1>7
    <3>3. e = d => by(q.order) = q.by
      BY <2>4, <3>1, <1>6
    <3> QED
      BY <2>4, <3>2, <3>3
  <2>5. ASSUME NEW e \in Devices, NEW v \in Devices, Away(e, v)
        PROVE  CurrentPools(v, DOMAIN outgoing[e].snapshot.pools, outgoing[e].snapshot.pools)'
    <3>1. CurrentPools(v, DOMAIN outgoing[e].snapshot.pools, outgoing[e].snapshot.pools)
      BY <2>1, <2>5 DEF Holders
    <3> QED
      BY <3>1, <1>9 DEF CurrentPools, CurrentCopy
  <2> QED
    BY <2>1, <2>2, <2>3, <2>4, <2>5, <1>9 DEF Holders, Concerns
<1>13. NoFork'
  <2>1. NoFork
    BY DEF IInv
  <2>2. ASSUME NEW e \in Devices, NEW q \in Grants PROVE IsPrefix(journal'[e][q].chain, ledger[q])
    <3>1. IsPrefix(ledger[q], ledger[q])
      BY DeviceTypesAre, PrefixRefl
    <3> QED
      BY <2>1, <3>1, <1>5, <1>7 DEF NoFork
  <2> QED
    BY <2>1, <2>2, <1>9 DEF NoFork
<1>14. Decisions'
  <2>1. Decisions
    BY DEF IInv
  <2>2. ASSUME NEW e \in Devices, NEW o \in Orders, handed'[e][o] # NoDevice
        PROVE  [order |-> o, by |-> handed'[e][o]] \in released
    BY <2>1, <2>2, <1>6, <1>7 DEF Decisions
  <2> QED
    BY <2>1, <2>2, <1>9 DEF Decisions, HandedOutOnce, Has
<1> QED
  BY <1>8, <1>10, <1>11, <1>12, <1>13, <1>14 DEF IInv

\* A device that lost its tables holds nothing, and takes nothing.
LEMMA ClearInv ==
  ASSUME Assumptions, IInv, NEW d \in Devices, Clear(d)
  PROVE  IInv'
<1>0. /\ label[d].mode = "writer"
      /\ row' = [row EXCEPT ![d] = NoRow]
      /\ journal' = [journal EXCEPT ![d] = NoJournal]
      /\ handed' = [handed EXCEPT ![d] = NothingHanded]
      /\ captured' = [captured EXCEPT ![d] = NoTransfer]
      /\ UNCHANGED <<label, outgoing, transfers, handouts, sent, closes, ledger, released,
                     shopVars>>
  BY DEF Clear
<1>1. /\ row'[d] = NoRow /\ NoRow.state = "none" /\ NoRow \in Row
      /\ \A p \in Grants : journal'[d][p] = NoPool
      /\ NoPool.state = "none" /\ NoPool.chain = <<>> /\ ~NoPool.recovered /\ NoPool \in Pool
      /\ \A o \in Orders : handed'[d][o] = NoDevice
      /\ \A e \in Devices \ {d} :
           row'[e] = row[e] /\ journal'[e] = journal[e] /\ handed'[e] = handed[e]
  <2>1. NoRow.state = "none" /\ NoRow \in Row
    BY DEF NoRow, Row
  <2>2. NoPool.state = "none" /\ NoPool.chain = <<>> /\ ~NoPool.recovered /\ NoPool \in Pool
    BY DEF NoPool, Pool
  <2>3. (\A p \in Grants : NoJournal[p] = NoPool) /\ (\A o \in Orders : NothingHanded[o] = NoDevice)
    BY DEF NoJournal, NothingHanded
  <2> QED
    BY <1>0, <2>1, <2>2, <2>3, DeviceTypesAre
<1>2. /\ DOMAIN captured' = Devices /\ captured'[d] = NoTransfer
      /\ \A e \in Devices \ {d} : captured'[e] = captured[e]
  BY <1>0 DEF IInv, Handovers
<1>3. UNCHANGED <<label, outgoing, transfers, handouts, writer, ledger, closes, released, sent,
                  imported>>
  BY <1>0 DEF shopVars
<1>4. TypeOK'
  <2>1. row' \in [Devices -> Row]
    BY <1>0, <1>1, DeviceTypesAre
  <2>2. NoJournal \in [Grants -> Pool] /\ NothingHanded \in [Orders -> Devices \cup {NoDevice}]
    BY <1>1 DEF NoJournal, NothingHanded
  <2>3. /\ journal' \in [Devices -> [Grants -> Pool]]
        /\ handed' \in [Devices -> [Orders -> Devices \cup {NoDevice}]]
    BY <1>0, <2>2, DeviceTypesAre
  <2> QED
    BY <1>0, <2>1, <2>3, DeviceTypesAre, DeviceTyped
<1>5. Sales' /\ Holds'
  BY <1>0, SalesFrame, HoldsFrame DEF IInv, saleParts, holdParts, shopVars
<1>6. \A s \in Devices : (Saved(s)' => Saved(s)) /\ (Open(s)' <=> Open(s))
  BY <1>0, <1>1, <1>3 DEF Saved, Open
<1>7. \A e, v \in Devices : (Here(e, v)' => Here(e, v) /\ e # d) /\ (Away(e, v)' => Away(e, v))
  <2>1. \A s \in Devices : Saved(s) => outgoing[s].to \in Devices
    BY DEF IInv, Handovers, SavedOK
  <2> QED
    BY <2>1, <1>1, <1>3, <1>6 DEF Here, Away
<1>8. AllDevices'
  <2>1. ASSUME NEW e \in Devices, e # d PROVE DeviceOK(e)'
    <3>1. WritersKept
      BY <1>3 DEF WritersKept
    <3> QED
      BY <2>1, <3>1, <1>1, <1>3, DeviceSame
  <2>2. DeviceOK(d)'
    <3>1. LabelOK(d)
      BY DeviceTypes
    <3>2. LabelOK(d)'
      BY <3>1, <1>0, <1>1, <1>3 DEF LabelOK
    <3>3. RowOK(d)'
      BY <1>1 DEF RowOK, Registered
    <3>4. \A p \in Grants : PoolOK(d, p)'
      BY <1>1 DEF PoolOK
    <3> QED
      BY <3>2, <3>3, <3>4 DEF DeviceOK
  <2> QED
    BY <2>1, <2>2 DEF AllDevices
<1>9. OneHolder'
  <2>1. OneHolder
    BY DEF IInv
  <2> QED
    BY <2>1, <1>7 DEF OneHolder
<1>10. Holders'
  <2>1. Holders
    BY DEF IInv
  <2>2. ASSUME NEW e \in Devices, NEW v \in Devices, Here(e, v), e # d
        PROVE  CurrentPools(v, row[e].pools, journal[e])'
    <3>1. CurrentPools(v, row[e].pools, journal[e])
      BY <2>1, <2>2 DEF Holders
    <3> QED
      BY <2>2, <3>1, <1>1, <1>3 DEF CurrentPools, CurrentCopy
  <2>3. ASSUME NEW e \in Devices, NEW v \in Devices, Away(e, v)
        PROVE  CurrentPools(v, DOMAIN outgoing[e].snapshot.pools, outgoing[e].snapshot.pools)'
    <3>1. CurrentPools(v, DOMAIN outgoing[e].snapshot.pools, outgoing[e].snapshot.pools)
      BY <2>1, <2>3 DEF Holders
    <3> QED
      BY <3>1, <1>3 DEF CurrentPools, CurrentCopy
  <2> QED
    BY <2>1, <2>2, <2>3, <1>1, <1>3, <1>7 DEF Holders, Concerns
<1>11. Origins'
  <2>1. Origins
    BY DEF IInv
  <2> QED
    BY <2>1, <1>3, <1>6, <1>7 DEF Origins, Origin, Begun
<1>12. Handovers'
  <2>1. Handovers
    BY DEF IInv
  <2>2. \A v, snapshot : SnapshotOK(v, snapshot) => SnapshotOK(v, snapshot)'
    BY <1>3 DEF SnapshotOK
  <2>3. ASSUME NEW e \in Devices PROVE CapturedOK(e)' /\ SavedOK(e)'
    <3>1. CapturedOK(e) /\ SavedOK(e)
      BY <2>1 DEF Handovers
    <3>2. CapturedOK(e)'
      BY <3>1, <2>2, <1>2, <1>3 DEF CapturedOK
    <3>3. SavedOK(e)'
      BY <3>1, <2>2, <1>1, <1>3, <1>6 DEF SavedOK
    <3> QED
      BY <3>2, <3>3
  <2> QED
    BY <2>1, <2>3, <1>2, <1>3 DEF Handovers
<1>13. NoFork'
  <2>1. NoFork
    BY DEF IInv
  <2>2. ASSUME NEW e \in Devices, NEW q \in Grants PROVE IsPrefix(journal'[e][q].chain, ledger[q])
    <3>1. IsPrefix(<<>>, ledger[q])
      BY DeviceTypesAre, PrefixEmpty
    <3> QED
      BY <2>1, <3>1, <1>1 DEF NoFork
  <2> QED
    BY <2>1, <2>2, <1>3 DEF NoFork
<1>14. Decisions'
  <2>1. Decisions
    BY DEF IInv
  <2>2. ASSUME NEW e \in Devices, NEW o \in Orders, handed'[e][o] # NoDevice
        PROVE  [order |-> o, by |-> handed'[e][o]] \in released
    BY <2>1, <2>2, <1>1 DEF Decisions
  <2> QED
    BY <2>1, <2>2, <1>3 DEF Decisions, HandedOutOnce, Has
<1> QED
  BY <1>4, <1>5, <1>8, <1>9, <1>10, <1>11, <1>12, <1>13, <1>14 DEF IInv

-----------------------------------------------------------------------------
(* The invariant.                                                          *)

LEMMA DeviceInv ==
  ASSUME Assumptions, IInv, NEW d \in Devices, DeviceStep(d)
  PROVE  IInv'
<1>1. CASE \E mode \in {"writer", "target"} : Create(d, mode)
  BY <1>1, CreateInv
<1>2. CASE Register(d) \/ PrepareTarget(d) \/ Confirm(d)
  BY <1>2, RegisterInv, PrepareTargetInv, ConfirmInv
<1>3. CASE \E p \in Grants : \/ ReserveInstallation(d, p) \/ Install(d, p)
                             \/ Close(d, p) \/ SendClose(d, p)
  BY <1>3, ReserveInstallationInv, InstallInv, CloseInv, SendCloseInv
<1>4. CASE \E p \in Grants, i \in 1 .. Cardinality(Orders) : Send(d, p, i)
  BY <1>4, SendInv
<1>5. CASE \E o \in Orders : Accept(d, o) \/ Handout(d, o) \/ SendHandout(d, o)
  BY <1>5, AcceptInv, HandoutInv, SendHandoutInv
<1>6. CASE \E h \in handouts : RestoreHandout(d, h)
  BY <1>6, RestoreHandoutInv
<1>7. CASE \E t \in Devices : Capture(d, t)
  BY <1>7, CaptureInv
<1>8. CASE Freeze(d) \/ GiveUp(d) \/ PublishTransfer(d)
  BY <1>8, FreezeInv, GiveUpInv, PublishTransferInv
<1>9. CASE \E s \in Devices : Restore(d, s)
  BY <1>9, RestoreInv
<1>10. CASE \E p \in Grants, closed \in BOOLEAN : RecoverClosed(d, p, closed)
  BY <1>10, RecoverClosedInv
<1>11. CASE Clear(d)
  BY <1>11, ClearInv
<1> QED
  BY <1>1, <1>2, <1>3, <1>4, <1>5, <1>6, <1>7, <1>8, <1>9, <1>10, <1>11 DEF DeviceStep

LEMMA StutterInv ==
  ASSUME IInv, UNCHANGED vars
  PROVE  IInv'
<1>1. TypeOK'
  BY DEF vars, IInv, TypeOK
<1>2. AllDevices' /\ OneHolder' /\ Holders' /\ Origins' /\ Handovers' /\ Sales' /\ NoFork'
      /\ Decisions' /\ Holds'
  BY DevicesFrame, OneHolderFrame, HoldersFrame, OriginsFrame, HandoversFrame, SalesFrame,
     ForkFrame, DecisionsFrame, HoldsFrame
  DEF IInv, deviceParts, tokenParts, holderParts, originParts, handoverParts, saleParts,
      forkParts, decisionParts, holdParts, vars
<1> QED
  BY <1>1, <1>2 DEF IInv

\* The invariant holds in every reachable state.
THEOREM Invariance ==
  ASSUME Assumptions
  PROVE  Spec => []IInv
<1>1. Init => IInv
  BY InitInv
<1>2. IInv /\ [Next]_vars => IInv'
  BY MerchantInv, DeviceInv, StutterInv DEF Next
<1> QED
  BY <1>1, <1>2, PTL DEF Spec

-----------------------------------------------------------------------------
(* What it implies.                                                        *)

LEMMA OneSellerHolds ==
  ASSUME Assumptions, IInv
  PROVE  OneSeller
<1> SUFFICES ASSUME NEW p \in Grants, NEW d1 \in Devices, NEW d2 \in Devices,
                    journal[d1][p].state = "active", MayWrite(d1, writer[p]),
                    journal[d2][p].state = "active", MayWrite(d2, writer[p])
             PROVE  d1 = d2
  BY DEF OneSeller
<1>1. ~journal[d1][p].recovered /\ ~journal[d2][p].recovered
  BY DeviceTypes DEF PoolOK, Stops
<1>2. writer[p] \in Devices /\ Here(d1, writer[p]) /\ Here(d2, writer[p])
  BY <1>1, Writes
<1> QED
  BY <1>2, OnlyHolder

\* What the seller has not imported, and has reconciled, of a pool.
LEMMA PendingIs ==
  ASSUME Assumptions, IInv, NEW p \in Grants
  PROVE  /\ OfPool(p, ledger[p]) /\ OfPool(p, imported[p])
         /\ Units(p, ledger[p]) \in Nat /\ Units(p, imported[p]) \in Nat
         /\ Units(p, imported[p]) <= Units(p, ledger[p])
         /\ Units(p, ledger[p]) <= Quantity[p] /\ Quantity[p] \in Nat
         /\ p \in reconciled => imported[p] = ledger[p]
<1>1. OfPool(p, ledger[p]) /\ Units(p, ledger[p]) <= Quantity[p]
  BY DEF IInv, Sales
<1>2. imported[p] \in Seq(Entry) /\ IsPrefix(imported[p], ledger[p])
  BY DEF IInv, TypeOK, NoFork
<1>3. OfPool(p, imported[p]) /\ Units(p, imported[p]) <= Units(p, ledger[p])
  BY <1>1, <1>2, UnitsPrefix DEF Assumptions
<1>4. p \in reconciled => imported[p] = ledger[p]
  BY DEF IInv, Holds, Sales
<1> QED
  BY <1>1, <1>3, <1>4, UnitsNat DEF Assumptions, GrantAssumption

LEMMA NeverOversoldHolds ==
  ASSUME Assumptions, IInv
  PROVE  NeverOversold
<1>1. ASSUME NEW p \in Grants
      PROVE  /\ Pending(p) \in 0 .. stock[Good[p]]
             /\ Pending(p) > 0 => hold[Good[p]] = p
  <2>1. Good[p] \in Goods /\ p # NoGrant
    BY DEF Assumptions, GrantAssumption
  <2>2. stock[Good[p]] \in Nat /\ Outstanding(Good[p]) \in Nat
        /\ Outstanding(Good[p]) <= stock[Good[p]]
    BY <2>1, ShopTypes
  <2>3. Pending(p) \in Nat /\ (Pending(p) > 0 => imported[p] # ledger[p])
    BY PendingIs DEF Pending
  <2>4. CASE p \in reconciled
    BY <2>2, <2>3, <2>4, PendingIs DEF Pending
  <2>5. CASE p \notin reconciled /\ writer[p] = NoDevice
    <3>1. ledger[p] = <<>>
      BY <2>5 DEF IInv, Origins, Begun
    <3>2. imported[p] = <<>>
      BY <3>1, PrefixEmpty DEF IInv, NoFork, TypeOK
    <3> QED
      BY <2>2, <2>3, <3>1, <3>2, PendingIs DEF Pending
  <2>6. CASE p \notin reconciled /\ writer[p] # NoDevice
    <3>1. hold[Good[p]] = p
      BY <2>6 DEF IInv, Holds
    <3>2. Outstanding(Good[p]) = Quantity[p] - Units(p, imported[p])
      BY <2>1, <2>6, <3>1 DEF Outstanding
    <3> QED
      BY <2>2, <2>3, <3>1, <3>2, PendingIs DEF Pending
  <2> QED
    BY <2>4, <2>5, <2>6
<1> QED
  BY <1>1 DEF NeverOversold

\* NoFork: the sales of a pool are one sequence, of which every device, message and
\* import has a beginning.
THEOREM SalesAreOneSequence ==
  ASSUME Assumptions
  PROVE  Spec => [](TypeOK /\ NoFork /\ OneSeller)
<1>1. IInv => TypeOK /\ NoFork /\ OneSeller
  BY OneSellerHolds DEF IInv
<1> QED
  BY <1>1, Invariance, PTL

\* NeverOversold: sales that were not imported are covered by the seller's stock.
THEOREM StockCoversSales ==
  ASSUME Assumptions
  PROVE  Spec => []NeverOversold
<1>1. IInv => NeverOversold
  BY NeverOversoldHolds
<1> QED
  BY <1>1, Invariance, PTL

\* HandedOutOnce: no order's goods are handed out by two devices.
THEOREM NoSecondHandout ==
  ASSUME Assumptions
  PROVE  Spec => []HandedOutOnce
<1>1. IInv => HandedOutOnce
  BY DEF IInv, Decisions
<1> QED
  BY <1>1, Invariance, PTL

-----------------------------------------------------------------------------
(* No sale is forgotten.                                                   *)

LEMMA StepKeepsSales ==
  ASSUME Assumptions, IInv, NEW d \in Devices, DeviceStep(d)
  PROVE  KeepsSales
<1>0. \A e \in Devices, p \in Grants :
        /\ journal[e][p].chain \in Seq(Entry)
        /\ IsPrefix(journal[e][p].chain, journal[e][p].chain)
  BY DeviceTypes, PrefixRefl
<1>1. CASE journal' = journal
  BY <1>0, <1>1 DEF KeepsSales
<1>2. ASSUME NEW p \in Grants, Install(d, p) PROVE KeepsSales
  <2>1. ASSUME NEW e \in Devices, NEW q \in Grants
        PROVE  journal'[e][q].chain = journal[e][q].chain \/ journal[e][q].chain = <<>>
    <3>1. journal' = [journal EXCEPT ![d] = [k \in Grants |->
                        IF k = p THEN [NoPool EXCEPT !.state = "active"]
                        ELSE IF k \in Overlapping(d, p) THEN [journal[d][k] EXCEPT !.state = "closed"]
                        ELSE journal[d][k]]]
          /\ journal[d][p].state = "none"
      BY <1>2 DEF Install
    <3>2. CASE e = d /\ q = p
      <4>1. journal[d][p] = NoPool
        BY <3>1, DeviceTypes DEF PoolOK
      <4> QED
        BY <3>2, <4>1 DEF NoPool
    <3>3. CASE e = d /\ q # p
      <4>1. journal[d][q] \in Pool
        BY DeviceTypes
      <4>2. journal'[d][q] = IF q \in Overlapping(d, p) THEN [journal[d][q] EXCEPT !.state = "closed"]
                             ELSE journal[d][q]
        BY <3>1, <3>3, DeviceTypesAre
      <4> QED
        BY <3>3, <4>1, <4>2 DEF Pool
    <3>4. CASE e # d
      BY <3>1, <3>4, DeviceTypesAre
    <3> QED
      BY <3>2, <3>3, <3>4
  <2>2. journal' \in [Devices -> [Grants -> Pool]]
    BY <1>2, InstallInv DEF IInv, TypeOK
  <2>3. \A e \in Devices, q \in Grants : journal'[e][q].chain \in Seq(Entry)
    BY <2>2 DEF Pool
  <2>4. \A e \in Devices, q \in Grants : IsPrefix(<<>>, journal'[e][q].chain)
    BY <2>3, PrefixEmpty
  <2>5. \A e \in Devices, q \in Grants : IsPrefix(journal[e][q].chain, journal'[e][q].chain)
    BY <1>0, <2>1, <2>4
  <2> QED
    BY <2>5 DEF KeepsSales
<1>3. ASSUME NEW p \in Grants, Close(d, p) PROVE KeepsSales
  <2>1. \A e \in Devices, q \in Grants : journal'[e][q].chain = journal[e][q].chain
    <3>1. journal' = [journal EXCEPT ![d][p].state = "closing"]
      BY <1>3 DEF Close
    <3>2. [journal[d][p] EXCEPT !.state = "closing"].chain = journal[d][p].chain
      <4>1. journal[d][p] \in Pool
        BY DeviceTypes
      <4> QED
        BY <4>1 DEF Pool
    <3>3. \A e \in Devices, q \in Grants :
            journal'[e][q] = IF e = d /\ q = p THEN [journal[d][p] EXCEPT !.state = "closing"]
                             ELSE journal[e][q]
      BY <3>1, DeviceTypesAre
    <3> QED
      BY <3>2, <3>3
  <2> QED
    BY <1>0, <2>1 DEF KeepsSales
<1>4. ASSUME NEW o \in Orders, Accept(d, o) PROVE KeepsSales
  <2> DEFINE entry == [order |-> o, by |-> d]
             longer(q) == Append(journal[d][q].chain, entry)
  <2>1. journal' = [journal EXCEPT ![d] = [q \in Grants |->
                      IF q \in DOMAIN Lines[o] THEN [journal[d][q] EXCEPT !.chain = longer(q)]
                      ELSE journal[d][q]]]
    BY <1>4 DEF Accept
  <2>2. \A q \in Grants : longer(q) \in Seq(Entry) /\ IsPrefix(journal[d][q].chain, longer(q))
    <3>1. entry \in Entry
      BY DEF Entry
    <3> QED
      BY <1>0, <3>1, PrefixAppend
  <2> HIDE DEF longer
  <2>3. \A e \in Devices, q \in Grants :
          journal'[e][q].chain = IF e = d /\ q \in DOMAIN Lines[o] THEN longer(q)
                                 ELSE journal[e][q].chain
    <3>1. ASSUME NEW q \in Grants PROVE [journal[d][q] EXCEPT !.chain = longer(q)].chain = longer(q)
      <4>1. journal[d][q] \in Pool
        BY DeviceTypes
      <4> QED
        BY <4>1 DEF Pool
    <3>2. \A e \in Devices, q \in Grants :
            journal'[e][q] = IF e = d /\ q \in DOMAIN Lines[o]
                             THEN [journal[d][q] EXCEPT !.chain = longer(q)]
                             ELSE journal[e][q]
      BY <2>1, DeviceTypesAre
    <3> QED
      BY <3>1, <3>2
  <2>4. \A e \in Devices, q \in Grants : IsPrefix(journal[e][q].chain, journal'[e][q].chain)
    BY <1>0, <2>2, <2>3
  <2> QED
    BY <2>4 DEF KeepsSales
\* What a device has of its writer's pools is part of the handover; the others stay.
<1>5. ASSUME NEW s \in Devices, Restore(d, s) PROVE KeepsSales
  <2> DEFINE m == outgoing[s]
             pools == m.snapshot.pools
  <2>1. /\ s \in transfers
        /\ \A p \in Cohort(d, m.writer) :
             p \in DOMAIN pools /\ IsPrefix(journal[d][p].chain, pools[p].chain)
        /\ journal' = [journal EXCEPT ![d] = [p \in Grants |->
                         IF p \in DOMAIN pools THEN pools[p] ELSE journal[d][p]]]
    BY <1>5 DEF Restore, Restorable, Restored
  <2>2. SnapshotOK(m.writer, m.snapshot)
    BY <2>1 DEF IInv, Handovers, SavedOK, Saved
  <2>3. \A p \in DOMAIN pools : p \in Grants /\ writer[p] = m.writer /\ pools[p] \in Pool
    BY <2>2 DEF SnapshotOK
  <2> HIDE DEF m, pools
  <2>4. ASSUME NEW p \in DOMAIN pools PROVE IsPrefix(journal[d][p].chain, pools[p].chain)
    <3>1. CASE journal[d][p].state # "none"
      <4>1. p \in Cohort(d, m.writer)
        BY <2>3, <3>1 DEF Cohort, Pools
      <4> QED
        BY <2>1, <4>1
    <3>2. CASE journal[d][p].state = "none"
      <4>1. journal[d][p] = NoPool
        BY <2>3, <3>2, DeviceTypes DEF PoolOK
      <4>2. pools[p].chain \in Seq(Entry) /\ journal[d][p].chain = <<>>
        BY <2>3, <4>1 DEF Pool, NoPool
      <4> QED
        BY <4>2, PrefixEmpty
    <3> QED
      BY <3>1, <3>2
  <2>5. \A e \in Devices, p \in Grants :
          journal'[e][p] = IF e = d /\ p \in DOMAIN pools THEN pools[p] ELSE journal[e][p]
    BY <2>1, DeviceTypesAre
  <2>6. \A e \in Devices, p \in Grants : IsPrefix(journal[e][p].chain, journal'[e][p].chain)
    BY <1>0, <2>4, <2>5
  <2> QED
    BY <2>6 DEF KeepsSales
<1>6. ASSUME NEW p \in Grants, NEW closed \in BOOLEAN, RecoverClosed(d, p, closed)
      PROVE  KeepsSales
  <2>1. \E chain, known :
          /\ IsPrefix(journal[d][p].chain, chain)
          /\ journal' = [journal EXCEPT ![d][p] = Recovered(d, p, chain, closed, known)]
    BY <1>6 DEF RecoverClosed
  <2>2. PICK chain, known :
          /\ IsPrefix(journal[d][p].chain, chain)
          /\ journal' = [journal EXCEPT ![d][p] = Recovered(d, p, chain, closed, known)]
    BY <2>1
  <2>3. Recovered(d, p, chain, closed, known).chain = chain
    BY DEF Recovered
  <2>4. \A e \in Devices, q \in Grants :
          journal'[e][q] = IF e = d /\ q = p THEN Recovered(d, p, chain, closed, known)
                           ELSE journal[e][q]
    BY <2>2, DeviceTypesAre
  <2> QED
    BY <1>0, <2>2, <2>3, <2>4 DEF KeepsSales
<1>7. CASE Clear(d)
  <2>1. row[d] # NoRow /\ row'[d] = NoRow /\ \A e \in Devices \ {d} : journal'[e] = journal[e]
    BY <1>7, DeviceTypesAre DEF Clear
  <2> QED
    BY <1>0, <2>1 DEF KeepsSales
<1> QED
  <2>1. CASE \E mode \in {"writer", "target"} : Create(d, mode)
    BY <2>1, <1>1 DEF Create
  <2>2. CASE Register(d) \/ PrepareTarget(d) \/ Confirm(d)
    BY <2>2, <1>1 DEF Register, PrepareTarget, Confirm
  <2>3. CASE \E p \in Grants : \/ ReserveInstallation(d, p) \/ Install(d, p)
                               \/ Close(d, p) \/ SendClose(d, p)
    BY <2>3, <1>1, <1>2, <1>3 DEF ReserveInstallation, SendClose, deviceVars
  <2>4. CASE \E p \in Grants, i \in 1 .. Cardinality(Orders) : Send(d, p, i)
    BY <2>4, <1>1 DEF Send, deviceVars
  <2>5. CASE \E o \in Orders : Accept(d, o) \/ Handout(d, o) \/ SendHandout(d, o)
    BY <2>5, <1>1, <1>4 DEF Handout, SendHandout, deviceVars
  <2>6. CASE \E h \in handouts : RestoreHandout(d, h)
    BY <2>6, <1>1 DEF RestoreHandout
  <2>7. CASE \E t \in Devices : Capture(d, t)
    BY <2>7, <1>1 DEF Capture
  <2>8. CASE Freeze(d) \/ GiveUp(d) \/ PublishTransfer(d)
    BY <2>8, <1>1 DEF Freeze, Save, GiveUp, PublishTransfer, deviceVars
  <2>9. CASE \E s \in Devices : Restore(d, s)
    BY <2>9, <1>5
  <2>10. CASE \E p \in Grants, closed \in BOOLEAN : RecoverClosed(d, p, closed)
    BY <2>10, <1>6
  <2>11. CASE Clear(d)
    BY <2>11, <1>7
  <2> QED
    BY <2>1, <2>2, <2>3, <2>4, <2>5, <2>6, <2>7, <2>8, <2>9, <2>10, <2>11 DEF DeviceStep

LEMMA NextKeepsSales ==
  ASSUME Assumptions, IInv, [Next]_vars
  PROVE  KeepsSales
<1>1. CASE journal' = journal
  <2>1. \A e \in Devices, p \in Grants : IsPrefix(journal[e][p].chain, journal[e][p].chain)
    BY DeviceTypes, PrefixRefl
  <2> QED
    BY <1>1, <2>1 DEF KeepsSales
<1> QED
  BY <1>1, StepKeepsSales DEF Next, Merchant, deviceVars, vars

\* SalesAreKept: a device forgets a sale only with its whole journal.
THEOREM NoSaleForgotten ==
  ASSUME Assumptions
  PROVE  Spec => SalesAreKept
<1>1. IInv /\ [Next]_vars => KeepsSales
  BY NextKeepsSales
<1>2. IInv /\ [Next]_vars => [KeepsSales]_vars
  BY <1>1
<1> QED
  BY <1>2, Invariance, PTL DEF Spec, SalesAreKept

-----------------------------------------------------------------------------
(* What entrusting promises: every step is one of EntrustedStock, or none. *)

LEMMA OrdersAppend ==
  ASSUME NEW list \in Seq(Entry), NEW e \in Entry
  PROVE  /\ OrdersOf(Append(list, e)) = Append(OrdersOf(list), e.order)
         /\ Len(OrdersOf(list)) = Len(list) /\ OrdersOf(list) \in Seq(Orders)
<1> DEFINE n == Len(list)
           more == Append(list, e)
<1>1. /\ n \in Nat /\ DOMAIN list = 1 .. n /\ DOMAIN more = 1 .. n + 1
      /\ \A i \in 1 .. n : more[i] = list[i] /\ list[i] \in Entry
      /\ more[n + 1] = e
  OBVIOUS
<1>2. e.order \in Orders /\ \A i \in 1 .. n : list[i].order \in Orders
  BY <1>1 DEF Entry
<1> HIDE DEF n, more
<1>3. OrdersOf(list) = [i \in 1 .. n |-> list[i].order]
  BY <1>1 DEF OrdersOf
<1>4. OrdersOf(list) \in Seq(Orders) /\ Len(OrdersOf(list)) = n
  BY <1>1, <1>2, <1>3
<1>5. OrdersOf(more) = [i \in 1 .. n + 1 |-> IF i = n + 1 THEN e.order ELSE list[i].order]
  <2>1. ASSUME NEW i \in 1 .. n + 1
        PROVE  more[i].order = IF i = n + 1 THEN e.order ELSE list[i].order
    <3>1. i # n + 1 => i \in 1 .. n
      BY <1>1
    <3> QED
      BY <1>1, <3>1
  <2> QED
    BY <1>1, <2>1 DEF OrdersOf
<1>6. Append(OrdersOf(list), e.order)
        = [i \in 1 .. n + 1 |-> IF i = n + 1 THEN e.order ELSE list[i].order]
  BY <1>1, <1>2, <1>3, <1>4
<1> QED
  BY <1>4, <1>5, <1>6 DEF more, n

\* The units of the orders are those of the sales.
LEMMA OrdersUnits ==
  ASSUME GrantAssumption, NEW p, NEW list, OfPool(p, list)
  PROVE  Promise!UnitsOf(p, OrdersOf(list)) = Units(p, list)
<1> DEFINE n == Len(list)
           a == Takes(p, list)
           orders == OrdersOf(list)
           Is(g) == g = [i \in 0 .. Len(orders) |-> IF i = 0 THEN 0
                                                    ELSE g[i - 1] + Lines[orders[i]][p]]
           sum == CHOOSE g : Is(g)
<1>1. n \in Nat /\ \A i \in 1 .. n : a[i] = Lines[list[i].order][p] /\ a[i] \in Nat
  BY TakesNat
<1>2. /\ orders = [i \in 1 .. n |-> list[i].order] /\ Len(orders) = n
      /\ \A i \in 1 .. n : orders[i] = list[i].order
  <2>1. list \in Seq(Entry)
    BY DEF OfPool
  <2>2. orders = [i \in 1 .. n |-> list[i].order]
    BY <2>1 DEF OrdersOf
  <2>3. \A i \in 1 .. n : list[i].order \in Orders
    <3>1. \A i \in 1 .. n : list[i] \in Entry
      BY <2>1
    <3> QED
      BY <3>1 DEF Entry
  <2>4. n \in Nat
    BY <1>1
  <2> HIDE DEF orders, n
  <2>5. orders \in [1 .. n -> Orders]
    BY <2>2, <2>3
  <2>6. orders \in Seq(Orders)
    BY <2>4, <2>5
  <2>7. Len(orders) = n
    BY <2>4, <2>5, <2>6
  <2> QED
    BY <2>2, <2>7
<1>3. PICK f : IsSum(f, n, a)
  BY <1>1, SumExists
<1>4. Is(f)
  <2> HIDE DEF n, a, orders
  <2>0. \A i \in 1 .. n : i \in 0 .. n /\ i # 0 /\ f[i] = f[i - 1] + Lines[orders[i]][p]
    BY <1>1, <1>2, <1>3 DEF IsSum
  <2>1. ASSUME NEW i \in 0 .. n
        PROVE  f[i] = IF i = 0 THEN 0 ELSE f[i - 1] + Lines[orders[i]][p]
    <3>1. CASE i = 0
      BY <1>3, <3>1 DEF IsSum
    <3>2. CASE i # 0
      <4>1. i \in 1 .. n
        BY <3>2, <1>1
      <4> QED
        BY <3>2, <4>1, <2>0
    <3> QED
      BY <3>1, <3>2
  <2>2. f = [i \in 0 .. n |-> f[i]]
    BY <1>3 DEF IsSum
  <2>3. f = [i \in 0 .. n |-> IF i = 0 THEN 0 ELSE f[i - 1] + Lines[orders[i]][p]]
    BY <2>1, <2>2
  <2>4. Len(orders) = n
    BY <1>2
  <2> QED
    BY <2>3, <2>4
<1>5. Is(sum)
  <2> HIDE DEF Is
  <2> QED
    BY <1>4
<1>6. sum[n] = f[n]
  <2> HIDE DEF sum, n, a, orders
  <2>1. \A i \in 0 .. n : sum[i] = IF i = 0 THEN 0 ELSE sum[i - 1] + Lines[orders[i]][p]
    BY <1>2, <1>5
  <2>2. sum = [i \in 0 .. n |-> sum[i]]
    BY <1>2, <1>5
  <2>3. ASSUME NEW i \in 0 .. n
        PROVE  sum[i] = IF i = 0 THEN 0 ELSE sum[i - 1] + a[i]
    <3>1. CASE i = 0
      BY <2>1, <3>1
    <3>2. CASE i # 0
      <4>1. i \in 1 .. n
        BY <3>2, <1>1
      <4> QED
        BY <2>1, <3>2, <4>1, <1>1, <1>2
    <3> QED
      BY <3>1, <3>2
  <2>4. AddsUp(sum, n, a)
    BY <2>2, <2>3 DEF AddsUp
  <2>5. n \in Nat
    BY <1>1
  <2>6. \A i \in 1 .. n : a[i] \in Nat
    BY <1>1
  <2> QED
    BY <1>3, <2>4, <2>5, <2>6, RecursiveSum
<1>7. Promise!UnitsOf(p, orders) = sum[n]
  BY <1>2 DEF Promise!UnitsOf
<1>8. Units(p, list) = f[n]
  BY <1>3, UnitsIs
<1> QED
  BY <1>6, <1>7, <1>8

LEMMA PromiseInit ==
  ASSUME Assumptions, Init
  PROVE  Promise!Init
<1>1. OrdersOf(<<>>) = <<>>
  BY DEF OrdersOf
<1> QED
  BY <1>1 DEF Init, ShopInit, DeviceInit, Promise!Init

promiseParts == <<writer, ledger, imported, reconciled>>

LEMMA PromiseStutter ==
  ASSUME UNCHANGED promiseParts
  PROVE  KeepsPromise
BY DEF promiseParts, KeepsPromise, Promise!vars

LEMMA ReserveEntrusts ==
  ASSUME Assumptions, IInv, NEW p \in Grants, NEW w \in Named, Reserve(p, w), UNCHANGED ledger
  PROVE  KeepsPromise
<1>1. w # NoDevice /\ writer \in [Grants -> Devices \cup {NoDevice}]
  BY Constants, DeviceTypesAre DEF Named
<1>2. writer[p] = NoDevice /\ writer' = [writer EXCEPT ![p] = w]
      /\ UNCHANGED <<ledger, imported, reconciled>>
  BY DEF Reserve
<1>3. p \notin {q \in Grants : writer[q] # NoDevice}
      /\ {q \in Grants : writer'[q] # NoDevice} = {q \in Grants : writer[q] # NoDevice} \cup {p}
  BY <1>1, <1>2
<1>4. Promise!Entrust(p)
  BY <1>2, <1>3 DEF Promise!Entrust
<1> QED
  BY <1>4 DEF KeepsPromise, Promise!Next

LEMMA ReconcileReturns ==
  ASSUME Assumptions, IInv, NEW p \in Grants, Reconcile(p), UNCHANGED ledger
  PROVE  KeepsPromise
<1>1. /\ hold[Good[p]] = p /\ p \notin reconciled /\ imported[p] \in closes[p]
      /\ reconciled' = reconciled \cup {p} /\ UNCHANGED <<writer, ledger, imported>>
  BY DEF Reconcile
<1>2. Good[p] \in Goods
  BY DEF Assumptions, GrantAssumption
<1>3. writer[p] # NoDevice /\ imported[p] = ledger[p]
  BY <1>1, <1>2 DEF IInv, Holds, Sales
<1>4. Promise!Return(p)
  BY <1>1, <1>3 DEF Promise!Return
<1> QED
  BY <1>4 DEF KeepsPromise, Promise!Next

LEMMA ImportLearns ==
  ASSUME Assumptions, IInv, NEW o \in Orders, Import(o), UNCHANGED ledger
  PROVE  KeepsPromise
<1> DEFINE P == DOMAIN Lines[o]
           new(p) == CHOOSE c \in NextEntries(p, o) : TRUE
<1>1. P \subseteq Grants
  BY Constants
<1>2. \A p \in P : hold[Good[p]] = p /\ p \notin reconciled /\ NextEntries(p, o) # {}
  BY DEF Import
<1>3. /\ imported' = [p \in Grants |-> IF p \in P THEN new(p) ELSE imported[p]]
      /\ UNCHANGED <<writer, ledger, reconciled>>
  BY DEF Import
<1>4. ASSUME NEW p \in P
      PROVE  /\ Len(OrdersOf(imported[p])) < Len(OrdersOf(ledger[p]))
             /\ OrdersOf(ledger[p])[Len(OrdersOf(imported[p])) + 1] = o
             /\ OrdersOf(new(p)) = Append(OrdersOf(imported[p]), o)
  <2> DEFINE c == new(p)
  <2>1. c \in NextEntries(p, o)
    BY <1>2
  <2> HIDE DEF c
  <2>2. c \in sent[p] /\ c # <<>> /\ Front(c) = imported[p] /\ Last(c).order = o
    BY <2>1 DEF NextEntries
  <2>3. /\ c \in Seq(Entry) /\ imported[p] \in Seq(Entry) /\ ledger[p] \in Seq(Entry)
        /\ p \in Grants /\ IsPrefix(c, ledger[p])
    BY <2>2, <1>1 DEF IInv, TypeOK, NoFork
  <2>4. Last(c) \in Entry /\ c = Append(imported[p], Last(c))
    BY <2>2, <2>3, FrontLast
  <2>5. OrdersOf(c) = Append(OrdersOf(imported[p]), o) /\ Len(OrdersOf(imported[p])) = Len(imported[p])
    BY <2>2, <2>3, <2>4, OrdersAppend
  <2>6. /\ Len(c) = Len(imported[p]) + 1 /\ Len(imported[p]) \in Nat /\ c[Len(c)].order = o
        /\ Len(ledger[p]) \in Nat
    BY <2>2, <2>3, <2>4
  <2>7. Len(c) <= Len(ledger[p]) /\ c[Len(c)] = ledger[p][Len(c)]
    <3>1. Len(c) \in 1 .. Len(c)
      BY <2>6
    <3> QED
      BY <2>3, <3>1, PrefixIs
  <2>8. Len(OrdersOf(ledger[p])) = Len(ledger[p]) /\ OrdersOf(ledger[p])[Len(c)] = o
    <3>1. Len(OrdersOf(ledger[p])) = Len(ledger[p])
      BY <2>3, <2>4, OrdersAppend
    <3>2. Len(c) \in DOMAIN ledger[p]
      BY <2>3, <2>6, <2>7
    <3> QED
      BY <2>6, <2>7, <3>1, <3>2 DEF OrdersOf
  <2> QED
    BY <2>5, <2>6, <2>7, <2>8 DEF c
<1> HIDE DEF new
<1>5. \A p \in Grants : imported'[p] = IF p \in P THEN new(p) ELSE imported[p]
  BY <1>3
<1>6. [p \in Grants |-> OrdersOf(imported'[p])]
        = [p \in Grants |-> IF p \in DOMAIN Lines[o] THEN Append(OrdersOf(imported[p]), o)
                            ELSE OrdersOf(imported[p])]
  BY <1>4, <1>5
<1>7. Promise!Learn(o)
  BY <1>1, <1>2, <1>3, <1>4, <1>6 DEF Promise!Learn
<1> QED
  BY <1>7 DEF KeepsPromise, Promise!Next

LEMMA AcceptSells ==
  ASSUME Assumptions, IInv, NEW d \in Devices, NEW o \in Orders, Accept(d, o)
  PROVE  KeepsPromise
<1> DEFINE P == DOMAIN Lines[o]
           entry == [order |-> o, by |-> d]
           more(p) == Append(ledger[p], entry)
<1>1. P \subseteq Grants /\ NoDevice \notin Devices /\ entry \in Entry /\ entry.order = o
  BY Constants DEF Entry
<1>2. /\ ledger' = [p \in Grants |-> IF p \in P THEN more(p) ELSE ledger[p]]
      /\ UNCHANGED <<writer, imported, reconciled>>
  BY DEF Accept, shopVars
<1>3. ASSUME NEW p \in P
      PROVE  /\ p \in Grants /\ writer[p] # NoDevice /\ p \notin reconciled
             /\ Units(p, more(p)) <= Quantity[p] /\ ledger[p] \in Seq(Entry)
             /\ OfPool(p, more(p)) /\ o \notin Accepted(d, p)
             /\ journal[d][p].chain = ledger[p]
             /\ OrdersOf(more(p)) = Append(OrdersOf(ledger[p]), o)
  <2>1. /\ p \in Grants /\ MayWrite(d, writer[p])
        /\ journal[d][p].state = "active" /\ ~journal[d][p].recovered
        /\ Units(p, Append(journal[d][p].chain, entry)) <= Quantity[p]
        /\ o \notin Accepted(d, p)
    BY <1>1 DEF Accept
  <2>2. /\ writer[p] \in Devices /\ journal[d][p].chain = ledger[p] /\ ledger[p] \in Seq(Entry)
        /\ (closes[p] # {} => journal[d][p].state \in Stops)
    BY <2>1, Writes
  <2>3. p \notin reconciled
    BY <2>1, <2>2 DEF IInv, Holds, Stops
  <2>4. OfPool(p, more(p))
    BY <1>1, <2>1, UnitsAppend DEF IInv, Sales, Assumptions
  <2>5. OrdersOf(more(p)) = Append(OrdersOf(ledger[p]), o)
    BY <1>1, <2>2, OrdersAppend
  <2> QED
    BY <1>1, <2>1, <2>2, <2>3, <2>4, <2>5
<1>4. ASSUME NEW p \in P
      PROVE  /\ o \notin {OrdersOf(ledger[p])[i] : i \in DOMAIN OrdersOf(ledger[p])}
             /\ Promise!UnitsOf(p, Append(OrdersOf(ledger[p]), o)) <= Quantity[p]
  <2>1. \A i \in DOMAIN ledger[p] : ledger[p][i].order \in Accepted(d, p)
    BY <1>3 DEF Accepted, ToSet
  <2>2. o \notin {OrdersOf(ledger[p])[i] : i \in DOMAIN OrdersOf(ledger[p])}
    BY <1>3, <2>1 DEF OrdersOf
  <2>3. Promise!UnitsOf(p, OrdersOf(more(p))) = Units(p, more(p))
    BY <1>3, OrdersUnits DEF Assumptions
  <2> QED
    BY <1>3, <2>2, <2>3
<1> HIDE DEF more
<1>5. \A p \in Grants : ledger'[p] = IF p \in P THEN more(p) ELSE ledger[p]
  BY <1>2
<1>6. [p \in Grants |-> OrdersOf(ledger'[p])]
        = [p \in Grants |-> IF p \in DOMAIN Lines[o] THEN Append(OrdersOf(ledger[p]), o)
                            ELSE OrdersOf(ledger[p])]
  BY <1>3, <1>5
<1> HIDE DEF entry
<1>7. Promise!Sell(o)
  <2>1. UNCHANGED <<writer, imported, reconciled>>
    BY <1>2
  <2>2. \A p \in P : p \in {q \in Grants : writer[q] # NoDevice} \ reconciled
    BY <1>3
  <2> QED
    BY <2>1, <2>2, <1>1, <1>4, <1>6 DEF Promise!Sell, Promise!SoldFrom
<1> QED
  BY <1>7 DEF KeepsPromise, Promise!Next

LEMMA NextKeepsPromise ==
  ASSUME Assumptions, IInv, [Next]_vars
  PROVE  KeepsPromise
<1>1. CASE UNCHANGED promiseParts
  BY <1>1, PromiseStutter
<1>2. CASE Merchant
  <2>1. UNCHANGED ledger
    BY <1>2 DEF Merchant
  <2>2. CASE \E p \in Grants, w \in Named : Reserve(p, w)
    BY <2>1, <2>2, ReserveEntrusts
  <2>3. CASE \E g \in Goods : Publish(g) \/ PublishReservation(g) \/ DeliverGrant(g)
    BY <2>1, <2>3, <1>1 DEF Publish, PublishReservation, DeliverGrant, promiseParts
  <2>4. CASE \E o \in Orders : Import(o)
    BY <2>1, <2>4, ImportLearns
  <2>5. CASE \E p \in Grants : Reconcile(p)
    BY <2>1, <2>5, ReconcileReturns
  <2>6. CASE End
    BY <2>1, <2>6, <1>1 DEF End, promiseParts
  <2>7. CASE Trade
    BY <2>1, <2>7, <1>1
    DEF Trade, SellOrdinary, SellPickup, SettlePickup, EditAllocation, EditStock, promiseParts
  <2> QED
    BY <1>2, <2>2, <2>3, <2>4, <2>5, <2>6, <2>7 DEF Merchant, Shop
<1>3. ASSUME NEW d \in Devices, DeviceStep(d) PROVE KeepsPromise
  <2> USE DEF promiseParts, shopVars
  <2>1. CASE \E mode \in {"writer", "target"} : Create(d, mode)
    BY <2>1, <1>1 DEF Create
  <2>2. CASE Register(d) \/ PrepareTarget(d) \/ Confirm(d)
    BY <2>2, <1>1 DEF Register, PrepareTarget, Confirm
  <2>3. CASE \E p \in Grants : \/ ReserveInstallation(d, p) \/ Install(d, p)
                               \/ Close(d, p) \/ SendClose(d, p)
    BY <2>3, <1>1 DEF ReserveInstallation, Install, Close, SendClose
  <2>4. CASE \E p \in Grants, i \in 1 .. Cardinality(Orders) : Send(d, p, i)
    BY <2>4, <1>1 DEF Send
  <2>5. CASE \E o \in Orders : Accept(d, o)
    BY <2>5, AcceptSells
  <2>6. CASE \E o \in Orders : Handout(d, o) \/ SendHandout(d, o)
    BY <2>6, <1>1 DEF Handout, SendHandout
  <2>7. CASE \E h \in handouts : RestoreHandout(d, h)
    BY <2>7, <1>1 DEF RestoreHandout
  <2>8. CASE \E t \in Devices : Capture(d, t)
    BY <2>8, <1>1 DEF Capture
  <2>9. CASE Freeze(d) \/ GiveUp(d) \/ PublishTransfer(d)
    BY <2>9, <1>1 DEF Freeze, Save, GiveUp, PublishTransfer
  <2>10. CASE \E s \in Devices : Restore(d, s)
    BY <2>10, <1>1 DEF Restore, Restored
  <2>11. CASE \E p \in Grants, closed \in BOOLEAN : RecoverClosed(d, p, closed)
    BY <2>11, <1>1 DEF RecoverClosed
  <2>12. CASE Clear(d)
    BY <2>12, <1>1 DEF Clear
  <2> QED
    BY <1>3, <2>1, <2>2, <2>3, <2>4, <2>5, <2>6, <2>7, <2>8, <2>9, <2>10, <2>11, <2>12
    DEF DeviceStep
<1>4. CASE UNCHANGED vars
  BY <1>4, <1>1 DEF vars, promiseParts
<1> QED
  BY <1>2, <1>3, <1>4 DEF Next

\* Promised: however many devices, moves, losses and edits there are, the whole
\* implements EntrustedStock.
THEOREM KeepsItsPromise ==
  ASSUME Assumptions
  PROVE  Spec => Promised
<1>1. Init => Promise!Init
  BY PromiseInit
<1>2. IInv /\ [Next]_vars => [Promise!Next]_(Promise!vars)
  BY NextKeepsPromise DEF KeepsPromise
<1> QED
  BY <1>1, <1>2, Invariance, PTL DEF Spec, Promised, Promise!Spec
=============================================================================
