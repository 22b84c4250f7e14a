------------------------- MODULE SquareOrdersProofs -------------------------
(***************************************************************************)
(* The properties of SquareOrders for any orders, payments, worths and     *)
(* bounds.  They are proved for callers whose own uids are never ones the  *)
(* stream yields; the run minted_uid shows what happens otherwise.         *)
(***************************************************************************)
EXTENDS SquareOrders, SetInduction, FiniteSetTheorems, SequenceTheorems

\* No caller chooses a uid the unit is going to draw.
UidsApart == \A u \in LineUids \cup FulfillmentUids : u \in Nat /\ u > MaxDraws

-----------------------------------------------------------------------------
(* What the list operators compute, for lists of any length.               *)

(* Adding up the lines one by one.                                         *)
LEMMA TotalUnfolds ==
  ASSUME NEW S \in SUBSET Int, NEW lines \in Seq([uid : Int, v : S])
  PROVE  \E sum \in [0..Len(lines) -> Int] :
           /\ sum[0] = 0
           /\ \A n \in 1..Len(lines) : sum[n] = sum[n - 1] + lines[n].v
           /\ Total(lines) = sum[Len(lines)]
<1> DEFINE N == Len(lines)
<1> DEFINE sum[n \in 0..N] == IF n = 0 THEN 0 ELSE sum[n - 1] + lines[n].v
<1> DEFINE step == [n \in 1..N |-> [x \in Int |-> x + lines[n].v]]
<1>1. N \in Nat /\ \A n \in 1..N : lines[n].v \in Int
  <2>1. lines \in [1..N -> [uid : Int, v : S]] /\ N \in Nat
    BY LenProperties
  <2> QED
    BY <2>1
<1>2. step \in [1..N -> [Int -> Int]]
  BY <1>1
<1>3. PICK f \in [0..N -> Int] : f[0] = 0 /\ \A n \in 1..N : f[n] = step[n][f[n - 1]]
  <2> DEFINE X == Int
             first == 0
  <2>1. N \in Nat /\ first \in X /\ step \in [1..N -> [X -> X]]
    BY <1>1, <1>2
  <2> HIDE DEF step, N, X, first
  <2>2. \E f : Follows(f, N, X, first, step)
    BY <2>1, Iterates
  <2> QED
    BY <2>2 DEF Follows, X, first
<1>4. \A n \in 1..N : f[n] = f[n - 1] + lines[n].v
  <2> SUFFICES ASSUME NEW n \in 1..N PROVE f[n] = f[n - 1] + lines[n].v
    OBVIOUS
  <2>1. n - 1 \in 0..N
    BY <1>1
  <2>2. f[n - 1] \in Int
    BY <1>3, <2>1
  <2> QED
    BY <1>3, <2>2
<1>5. f = [n \in 0..N |-> IF n = 0 THEN 0 ELSE f[n - 1] + lines[n].v]
  BY <1>1, <1>3, <1>4
<1>6. sum = [n \in 0..N |-> IF n = 0 THEN 0 ELSE sum[n - 1] + lines[n].v]
  BY <1>5
<1>7. Total(lines) = sum[N]
  BY DEF Total
<1> HIDE DEF sum, N
<1> DEFINE Good == {n \in Nat : n <= N => sum[n] = f[n]}
<1>8. 0 \in Good
  BY <1>1, <1>3, <1>6
<1>9. ASSUME NEW n \in Good PROVE n + 1 \in Good
  <2> SUFFICES ASSUME n + 1 <= N PROVE sum[n + 1] = f[n + 1]
    OBVIOUS
  <2>1. /\ n + 1 \in 1..N /\ n + 1 \in 0..N /\ n + 1 # 0
        /\ (n + 1) - 1 = n /\ sum[n] = f[n]
    BY <1>1
  <2>2. sum[n + 1] = sum[n] + lines[n + 1].v
    BY <1>6, <2>1
  <2> QED
    BY <1>4, <2>1, <2>2
<1>10. Good = Nat
  <2> HIDE DEF Good
  <2> QED
    BY <1>8, <1>9, InductiveIsNat DEF Good
<1>11. Total(lines) = f[N]
  BY <1>1, <1>7, <1>10
<1> QED
  BY <1>3, <1>4, <1>11 DEF N

\* Two lists of equal length whose entries are worth the same.
Alike(a, b) == Len(a) = Len(b) /\ \A i \in 1..Len(a) : a[i].v = b[i].v

LEMMA TotalType ==
  ASSUME NEW S \in SUBSET Int, NEW lines \in Seq([uid : Int, v : S])
  PROVE  Total(lines) \in Int
<1>1. Len(lines) \in 0..Len(lines)
  BY LenProperties
<1> QED
  BY <1>1, TotalUnfolds

(* A total depends on what the entries are worth, not on their names.      *)
LEMMA TotalAlike ==
  ASSUME NEW S \in SUBSET Int, NEW a \in Seq([uid : Int, v : S]),
         NEW T \in SUBSET Int, NEW b \in Seq([uid : Int, v : T]), Alike(a, b)
  PROVE  Total(a) = Total(b)
<1> DEFINE N == Len(a)
<1>1. N \in Nat /\ Len(b) = N
  BY LenProperties DEF Alike
<1>2. PICK f \in [0..N -> Int] :
        /\ f[0] = 0
        /\ \A n \in 1..N : f[n] = f[n - 1] + a[n].v
        /\ Total(a) = f[N]
  BY TotalUnfolds
<1>3. PICK g \in [0..N -> Int] :
        /\ g[0] = 0
        /\ \A n \in 1..N : g[n] = g[n - 1] + b[n].v
        /\ Total(b) = g[N]
  BY <1>1, TotalUnfolds
<1> HIDE DEF N
<1> DEFINE Good == {n \in Nat : n <= N => f[n] = g[n]}
<1>4. 0 \in Good
  BY <1>2, <1>3
<1>5. ASSUME NEW n \in Good PROVE n + 1 \in Good
  <2> SUFFICES ASSUME n + 1 <= N PROVE f[n + 1] = g[n + 1]
    OBVIOUS
  <2>1. n + 1 \in 1..N /\ (n + 1) - 1 = n /\ f[n] = g[n]
    BY <1>1
  <2>2. a[n + 1].v = b[n + 1].v
    BY <2>1 DEF Alike, N
  <2> QED
    BY <1>2, <1>3, <2>1, <2>2
<1>6. Good = Nat
  <2> HIDE DEF Good
  <2> QED
    BY <1>4, <1>5, InductiveIsNat DEF Good
<1>7. f[N] = g[N]
  <2>1. N \in Good
    BY <1>1, <1>6
  <2> QED
    BY <1>1, <2>1
<1> QED
  BY <1>2, <1>3, <1>7

LEMMA TotalEmpty == Total(<<>>) = 0
<1>1. <<>> \in Seq([uid : Int, v : Int])
  BY EmptySeq
<1>2. Len(<<>>) = 0
  OBVIOUS
<1> QED
  BY <1>1, <1>2, TotalUnfolds

(* One more line adds its worth.                                           *)
LEMMA TotalAppend ==
  ASSUME NEW S \in SUBSET Int, NEW lines \in Seq([uid : Int, v : S]),
         NEW line \in [uid : Int, v : S]
  PROVE  Total(Append(lines, line)) = Total(lines) + line.v
<1> DEFINE N == Len(lines)
           more == Append(lines, line)
<1>1. /\ N \in Nat /\ more \in Seq([uid : Int, v : S]) /\ Len(more) = N + 1
      /\ more[N + 1] = line /\ \A i \in 1..N : more[i] = lines[i]
  BY LenProperties
<1>2. PICK f \in [0..N -> Int] :
        /\ f[0] = 0
        /\ \A n \in 1..N : f[n] = f[n - 1] + lines[n].v
        /\ Total(lines) = f[N]
  BY TotalUnfolds
<1> HIDE DEF more
<1>3. PICK g \in [0..(N + 1) -> Int] :
        /\ g[0] = 0
        /\ \A n \in 1..(N + 1) : g[n] = g[n - 1] + more[n].v
        /\ Total(more) = g[N + 1]
  BY <1>1, TotalUnfolds
<1> HIDE DEF N
<1> DEFINE Good == {n \in Nat : n <= N => f[n] = g[n]}
<1>4. 0 \in Good
  BY <1>2, <1>3
<1>5. ASSUME NEW n \in Good PROVE n + 1 \in Good
  <2> SUFFICES ASSUME n + 1 <= N PROVE f[n + 1] = g[n + 1]
    OBVIOUS
  <2>1. n + 1 \in 1..N /\ n + 1 \in 1..(N + 1) /\ (n + 1) - 1 = n /\ f[n] = g[n]
    BY <1>1
  <2>2. more[n + 1] = lines[n + 1]
    BY <1>1, <2>1
  <2> QED
    BY <1>2, <1>3, <2>1, <2>2
<1>6. Good = Nat
  <2> HIDE DEF Good
  <2> QED
    BY <1>4, <1>5, InductiveIsNat DEF Good
<1>7. f[N] = g[N]
  BY <1>1, <1>6
<1>8. g[N + 1] = g[N] + line.v
  BY <1>1, <1>3
<1> QED
  BY <1>2, <1>3, <1>7, <1>8 DEF more

-----------------------------------------------------------------------------
(* Leaving entries out.                                                    *)

\* What is kept of the list after each of its entries.
Keeps(kept, E, list, places) ==
  /\ kept \in [0..Len(list) -> Seq(E)]
  /\ kept[0] = <<>>
  /\ \A n \in 1..Len(list) :
       kept[n] = IF n \in places THEN kept[n - 1] ELSE Append(kept[n - 1], list[n])
  /\ Without(list, places) = kept[Len(list)]

LEMMA WithoutUnfolds ==
  ASSUME NEW E, NEW list \in Seq(E), NEW places
  PROVE  \E kept : Keeps(kept, E, list, places)
<1> DEFINE N == Len(list)
           X == Seq(E)
           first == <<>>
<1> DEFINE kept[n \in 0..N] ==
      IF n = 0 THEN <<>>
      ELSE IF n \in places THEN kept[n - 1] ELSE Append(kept[n - 1], list[n])
<1> DEFINE step == [n \in 1..N |-> [x \in X |-> IF n \in places THEN x ELSE Append(x, list[n])]]
<1>1. N \in Nat /\ first \in X /\ \A n \in 1..N : list[n] \in E
  BY LenProperties, EmptySeq, ElementOfSeq
<1>2. step \in [1..N -> [X -> X]]
  BY <1>1
<1>3. PICK f : Follows(f, N, X, first, step)
  <2> HIDE DEF N, X, first, step
  <2> QED
    BY <1>1, <1>2, Iterates
<1>4. /\ f \in [0..N -> Seq(E)] /\ f[0] = <<>>
      /\ \A n \in 1..N : f[n] = step[n][f[n - 1]]
  BY <1>3 DEF Follows
<1>5. ASSUME NEW n \in 1..N
      PROVE  f[n] = IF n \in places THEN f[n - 1] ELSE Append(f[n - 1], list[n])
  <2>1. n - 1 \in 0..N
    BY <1>1
  <2>2. f[n - 1] \in X
    BY <1>4, <2>1
  <2> QED
    BY <1>4, <2>2
<1>6. f = [n \in 0..N |->
             IF n = 0 THEN <<>>
             ELSE IF n \in places THEN f[n - 1] ELSE Append(f[n - 1], list[n])]
  <2> DEFINE g == [n \in 0..N |->
             IF n = 0 THEN <<>>
             ELSE IF n \in places THEN f[n - 1] ELSE Append(f[n - 1], list[n])]
  <2>1. ASSUME NEW n \in 0..N PROVE f[n] = g[n]
    <3>1. CASE n = 0
      BY <1>4, <3>1
    <3>2. CASE n \in 1..N
      BY <1>1, <1>5, <3>2
    <3> QED
      BY <1>1, <3>1, <3>2
  <2>2. DOMAIN f = 0..N /\ DOMAIN g = 0..N /\ f = [n \in 0..N |-> f[n]] /\ g = [n \in 0..N |-> g[n]]
    BY <1>4
  <2> HIDE DEF g, N
  <2> QED
    BY <2>1, <2>2 DEF g
<1>7. kept = [n \in 0..N |->
                IF n = 0 THEN <<>>
                ELSE IF n \in places THEN kept[n - 1] ELSE Append(kept[n - 1], list[n])]
  BY <1>6
<1>8. Without(list, places) = kept[N]
  BY DEF Without
<1> HIDE DEF kept, N
<1> DEFINE Good == {n \in Nat : n <= N => kept[n] = f[n]}
<1>9. 0 \in Good
  BY <1>1, <1>4, <1>7
<1>10. ASSUME NEW n \in Good PROVE n + 1 \in Good
  <2> SUFFICES ASSUME n + 1 <= N PROVE kept[n + 1] = f[n + 1]
    OBVIOUS
  <2>1. n + 1 \in 1..N /\ n + 1 \in 0..N /\ n + 1 # 0 /\ (n + 1) - 1 = n /\ kept[n] = f[n]
    BY <1>1
  <2>2. kept[n + 1] = IF n + 1 \in places THEN kept[n] ELSE Append(kept[n], list[n + 1])
    BY <1>7, <2>1
  <2> QED
    BY <1>5, <2>1, <2>2
<1>11. Good = Nat
  <2> HIDE DEF Good
  <2> QED
    BY <1>9, <1>10, InductiveIsNat DEF Good
<1>12. Without(list, places) = f[N]
  BY <1>1, <1>8, <1>11
<1>13. Keeps(f, E, list, places)
  BY <1>4, <1>5, <1>12 DEF N, Keeps
<1> QED
  BY <1>13

\* What is left consists of entries of the list.
LEMMA WithoutType ==
  ASSUME NEW E, NEW list \in Seq(E), NEW places
  PROVE  Without(list, places) \in Seq(E)
<1>1. Len(list) \in 0..Len(list)
  BY LenProperties
<1>2. PICK kept : Keeps(kept, E, list, places)
  BY WithoutUnfolds
<1> QED
  BY <1>1, <1>2 DEF Keeps

LEMMA AppendAlike ==
  ASSUME NEW E, NEW F, NEW a \in Seq(E), NEW b \in Seq(F), NEW x \in E, NEW y \in F,
         Alike(a, b), x.v = y.v
  PROVE  Alike(Append(a, x), Append(b, y))
<1> DEFINE c == Append(a, x)
           d == Append(b, y)
           N == Len(a)
<1>1. N \in Nat /\ Len(b) = N /\ \A i \in 1..N : a[i].v = b[i].v
  BY LenProperties DEF Alike
<1>2. c \in Seq(E) /\ Len(c) = N + 1 /\ c[N + 1] = x /\ \A i \in 1..N : c[i] = a[i]
  BY <1>1
<1>3. d \in Seq(F) /\ Len(d) = N + 1 /\ d[N + 1] = y /\ \A i \in 1..N : d[i] = b[i]
  BY <1>1
<1> HIDE DEF c, d, N
<1>4. ASSUME NEW i \in 1..(N + 1) PROVE c[i].v = d[i].v
  <2>1. CASE i = N + 1
    BY <1>2, <1>3, <2>1
  <2>2. CASE i \in 1..N
    BY <1>1, <1>2, <1>3, <2>2
  <2> QED
    BY <1>1, <2>1, <2>2
<1>5. Alike(c, d)
  BY <1>2, <1>3, <1>4 DEF Alike
<1> QED
  BY <1>5 DEF c, d

(* The same places out of two lists that are worth the same.               *)
LEMMA WithoutAlike ==
  ASSUME NEW E, NEW F, NEW a \in Seq(E), NEW b \in Seq(F), Alike(a, b), NEW places
  PROVE  Alike(Without(a, places), Without(b, places))
<1> DEFINE N == Len(a)
<1>1. N \in Nat /\ Len(b) = N
  BY LenProperties DEF Alike
<1>a. PICK f : Keeps(f, E, a, places)
  BY WithoutUnfolds
<1>2. /\ f \in [0..N -> Seq(E)] /\ f[0] = <<>>
      /\ \A n \in 1..N : f[n] = IF n \in places THEN f[n - 1] ELSE Append(f[n - 1], a[n])
      /\ Without(a, places) = f[N]
  BY <1>a DEF Keeps
<1>b. PICK g : Keeps(g, F, b, places)
  BY WithoutUnfolds
<1>3. /\ g \in [0..N -> Seq(F)] /\ g[0] = <<>>
      /\ \A n \in 1..N : g[n] = IF n \in places THEN g[n - 1] ELSE Append(g[n - 1], b[n])
      /\ Without(b, places) = g[N]
  BY <1>1, <1>b DEF Keeps
<1>4. \A n \in 1..N : a[n] \in E /\ b[n] \in F /\ a[n].v = b[n].v
  BY <1>1, ElementOfSeq DEF Alike
<1> HIDE DEF N
<1> DEFINE Good == {n \in Nat : n <= N => Alike(f[n], g[n])}
<1>5. 0 \in Good
  <2>1. Alike(<<>>, <<>>)
    BY DEF Alike
  <2> QED
    BY <1>2, <1>3, <2>1
<1>6. ASSUME NEW n \in Good PROVE n + 1 \in Good
  <2> SUFFICES ASSUME n + 1 <= N PROVE Alike(f[n + 1], g[n + 1])
    OBVIOUS
  <2>1. n + 1 \in 1..N /\ n \in 0..N /\ (n + 1) - 1 = n /\ Alike(f[n], g[n])
    BY <1>1
  <2>2. f[n] \in Seq(E) /\ g[n] \in Seq(F)
    BY <1>2, <1>3, <2>1
  <2>3. /\ f[n + 1] = IF n + 1 \in places THEN f[n] ELSE Append(f[n], a[n + 1])
        /\ g[n + 1] = IF n + 1 \in places THEN g[n] ELSE Append(g[n], b[n + 1])
    BY <1>2, <1>3, <2>1
  <2>4. Alike(Append(f[n], a[n + 1]), Append(g[n], b[n + 1]))
    BY <1>4, <2>1, <2>2, AppendAlike
  <2> QED
    BY <2>1, <2>3, <2>4
<1>7. Good = Nat
  <2> HIDE DEF Good
  <2> QED
    BY <1>5, <1>6, InductiveIsNat DEF Good
<1>8. Alike(f[N], g[N])
  BY <1>1, <1>7
<1> QED
  BY <1>2, <1>3, <1>8

(* A completed order loses its zero lines and keeps its total.             *)
LEMMA TotalWithoutZeros ==
  ASSUME NEW S \in SUBSET Int, NEW lines \in Seq([uid : Int, v : S])
  PROVE  Total(DropZeroLines(lines)) = Total(lines)
<1> DEFINE N == Len(lines)
           E == [uid : Int, v : S]
           zeros == {i \in DOMAIN lines : lines[i].v = 0}
<1>1. N \in Nat /\ DOMAIN lines = 1..N /\ \A n \in 1..N : lines[n] \in E
  BY LenProperties, ElementOfSeq
<1>2. PICK sum \in [0..N -> Int] :
        /\ sum[0] = 0
        /\ \A n \in 1..N : sum[n] = sum[n - 1] + lines[n].v
        /\ Total(lines) = sum[N]
  BY TotalUnfolds
<1>a. PICK kept : Keeps(kept, E, lines, zeros)
  BY WithoutUnfolds
<1>3. /\ kept \in [0..N -> Seq(E)] /\ kept[0] = <<>>
      /\ \A n \in 1..N :
           kept[n] = IF n \in zeros THEN kept[n - 1] ELSE Append(kept[n - 1], lines[n])
      /\ Without(lines, zeros) = kept[N]
  <2> HIDE DEF zeros, E
  <2> QED
    BY <1>a DEF Keeps
<1>4. \A n \in 1..N : n \in zeros <=> lines[n].v = 0
  BY <1>1
<1> HIDE DEF N, zeros
<1> DEFINE Good == {n \in Nat : n <= N => Total(kept[n]) = sum[n]}
<1>5. 0 \in Good
  BY <1>2, <1>3, TotalEmpty
<1>6. ASSUME NEW n \in Good PROVE n + 1 \in Good
  <2> SUFFICES ASSUME n + 1 <= N PROVE Total(kept[n + 1]) = sum[n + 1]
    OBVIOUS
  <2>1. n + 1 \in 1..N /\ n \in 0..N /\ (n + 1) - 1 = n /\ Total(kept[n]) = sum[n]
    BY <1>1
  <2>2. kept[n] \in Seq(E) /\ sum[n] \in Int /\ lines[n + 1] \in E
    BY <1>1, <1>3, <2>1
  <2>3. /\ kept[n + 1] = IF n + 1 \in zeros THEN kept[n] ELSE Append(kept[n], lines[n + 1])
        /\ sum[n + 1] = sum[n] + lines[n + 1].v
    BY <1>2, <1>3, <2>1
  <2>4. CASE n + 1 \in zeros
    BY <1>4, <2>1, <2>2, <2>3, <2>4
  <2>5. CASE n + 1 \notin zeros
    <3>1. Total(Append(kept[n], lines[n + 1])) = Total(kept[n]) + lines[n + 1].v
      BY <2>2, TotalAppend
    <3> QED
      BY <2>1, <2>3, <2>5, <3>1
  <2> QED
    BY <2>4, <2>5
<1>7. Good = Nat
  <2> HIDE DEF Good
  <2> QED
    BY <1>5, <1>6, InductiveIsNat DEF Good
<1>8. Total(kept[N]) = sum[N]
  BY <1>1, <1>7
<1> QED
  BY <1>2, <1>3, <1>8 DEF DropZeroLines, zeros

-----------------------------------------------------------------------------
(* The sparse merge.                                                       *)

\* by_uid holds an entry of the list under every uid of the list.
LEMMA LatestIs ==
  ASSUME NEW E, NEW list \in Seq(E), NEW i \in 1..Len(list)
  PROVE  \E j \in 1..Len(list) :
           Latest(list, list[i].uid) = list[j] /\ list[j].uid = list[i].uid
<1> DEFINE N == Len(list)
           u == list[i].uid
           Same == {j \in 1..N : list[j].uid = u}
           Back == {N - j : j \in Same}
<1>1. N \in Nat /\ DOMAIN list = 1..N
  BY LenProperties
<1>2. Back \in SUBSET Nat /\ Back # {}
  BY <1>1
<1>3. PICK x \in Back : \A y \in Back : x <= y
  <2> HIDE DEF Back
  <2> QED
    BY <1>2, LeastNat
<1>4. PICK last \in Same : x = N - last
  BY <1>3
<1>5. \A j \in Same : N - last <= N - j
  BY <1>3, <1>4
<1>6. \A j \in Same : j <= last
  BY <1>1, <1>5
<1> DEFINE IsLast(k) == list[k].uid = u /\ \A j \in DOMAIN list : list[j].uid = u => j <= k
<1>7. \E k \in DOMAIN list : IsLast(k)
  BY <1>1, <1>6
<1>8. Latest(list, u) = list[CHOOSE k \in DOMAIN list : IsLast(k)]
  BY DEF Latest
<1>9. PICK k \in DOMAIN list : k = (CHOOSE m \in DOMAIN list : IsLast(m)) /\ IsLast(k)
  <2> HIDE DEF IsLast
  <2> QED
    BY <1>7
<1> QED
  BY <1>1, <1>8, <1>9

\* With different uids that is the entry itself.
Distinct(list) ==
  \A i, j \in 1..Len(list) : list[i].uid = list[j].uid => i = j

LEMMA LatestOfDistinct ==
  ASSUME NEW E, NEW list \in Seq(E), Distinct(list), NEW i \in 1..Len(list)
  PROVE  Latest(list, list[i].uid) = list[i]
  BY LatestIs DEF Distinct

(* A patch of a known uid replaces in place, any other is appended.        *)
LEMMA PatchKnown ==
  ASSUME NEW E, NEW list \in Seq(E), NEW p \in E, p.uid \in Uids(list)
  PROVE  /\ ApplyPatch(list, p) \in Seq(E)
         /\ Len(ApplyPatch(list, p)) = Len(list)
         /\ \A i \in 1..Len(list) :
              ApplyPatch(list, p)[i] = IF list[i].uid = p.uid /\ p.v # Keep THEN p ELSE list[i]
<1> DEFINE N == Len(list)
           new == [i \in 1..N |-> IF list[i].uid = p.uid /\ p.v # Keep THEN p ELSE list[i]]
<1>1. N \in Nat /\ DOMAIN list = 1..N /\ \A i \in 1..N : list[i] \in E
  BY LenProperties, ElementOfSeq
<1>2. ApplyPatch(list, p) = new
  BY <1>1 DEF ApplyPatch
<1>3. new \in [1..N -> E]
  BY <1>1
<1>4. new \in Seq(E) /\ Len(new) = N
  BY <1>1, <1>3
<1> QED
  BY <1>2, <1>4

LEMMA PatchNew ==
  ASSUME NEW E, NEW list \in Seq(E), NEW p \in E, p.uid \notin Uids(list)
  PROVE  /\ ApplyPatch(list, p) \in Seq(E)
         /\ Len(ApplyPatch(list, p)) = Len(list) + 1
         /\ \A i \in 1..Len(list) : ApplyPatch(list, p)[i] = list[i]
         /\ ApplyPatch(list, p)[Len(list) + 1] = p
  BY LenProperties DEF ApplyPatch

Merges(after, E, list, patches) ==
  /\ after \in [0..Len(patches) -> Seq(E)]
  /\ after[0] = [i \in DOMAIN list |-> Latest(list, list[i].uid)]
  /\ \A n \in 1..Len(patches) : after[n] = ApplyPatch(after[n - 1], patches[n])
  /\ Merge(list, patches) = after[Len(patches)]

LEMMA RebuiltType ==
  ASSUME NEW E, NEW list \in Seq(E)
  PROVE  /\ [i \in DOMAIN list |-> Latest(list, list[i].uid)] \in Seq(E)
         /\ Len([i \in DOMAIN list |-> Latest(list, list[i].uid)]) = Len(list)
<1> DEFINE N == Len(list)
           new == [i \in 1..N |-> Latest(list, list[i].uid)]
<1>1. N \in Nat /\ DOMAIN list = 1..N /\ \A i \in 1..N : list[i] \in E
  BY LenProperties, ElementOfSeq
<1>2. \A i \in 1..N : Latest(list, list[i].uid) \in E
  BY <1>1, LatestIs
<1>3. new \in [1..N -> E]
  BY <1>2
<1>4. new \in Seq(E) /\ Len(new) = N
  BY <1>1, <1>3
<1> QED
  BY <1>1, <1>4

LEMMA MergeUnfolds ==
  ASSUME NEW E, NEW list \in Seq(E), NEW patches \in Seq(E)
  PROVE  \E after : Merges(after, E, list, patches)
<1> DEFINE N == Len(patches)
           X == Seq(E)
           first == [i \in DOMAIN list |-> Latest(list, list[i].uid)]
<1> DEFINE after[n \in 0..N] ==
      IF n = 0 THEN [i \in DOMAIN list |-> Latest(list, list[i].uid)]
      ELSE ApplyPatch(after[n - 1], patches[n])
<1> DEFINE step == [n \in 1..N |-> [x \in X |-> ApplyPatch(x, patches[n])]]
<1>1. N \in Nat /\ first \in X /\ \A n \in 1..N : patches[n] \in E
  BY LenProperties, ElementOfSeq, RebuiltType
<1>2. step \in [1..N -> [X -> X]]
  <2>1. ASSUME NEW n \in 1..N, NEW x \in X PROVE ApplyPatch(x, patches[n]) \in X
    <3>1. CASE patches[n].uid \in Uids(x)
      BY <1>1, <3>1, PatchKnown
    <3>2. CASE patches[n].uid \notin Uids(x)
      BY <1>1, <3>2, PatchNew
    <3> QED
      BY <3>1, <3>2
  <2> HIDE DEF X, N
  <2> QED
    BY <2>1
<1>3. PICK f : Follows(f, N, X, first, step)
  <2> HIDE DEF N, X, first, step
  <2> QED
    BY <1>1, <1>2, Iterates
<1>4. f \in [0..N -> X] /\ f[0] = first /\ \A n \in 1..N : f[n] = step[n][f[n - 1]]
  BY <1>3 DEF Follows
<1>5. ASSUME NEW n \in 1..N PROVE f[n] = ApplyPatch(f[n - 1], patches[n])
  <2>1. n - 1 \in 0..N
    BY <1>1
  <2>2. f[n - 1] \in X
    BY <1>4, <2>1
  <2> QED
    BY <1>4, <2>2
<1>6. f = [n \in 0..N |-> IF n = 0 THEN first ELSE ApplyPatch(f[n - 1], patches[n])]
  <2> HIDE DEF first, step, X, N
  <2> DEFINE g == [n \in 0..N |-> IF n = 0 THEN first ELSE ApplyPatch(f[n - 1], patches[n])]
  <2>1. ASSUME NEW n \in 0..N PROVE f[n] = g[n]
    <3>1. CASE n = 0
      BY <1>4, <3>1
    <3>2. CASE n \in 1..N
      BY <1>1, <1>5, <3>2
    <3> QED
      BY <1>1, <3>1, <3>2
  <2>2. f = [n \in 0..N |-> f[n]] /\ g = [n \in 0..N |-> g[n]]
    BY <1>4
  <2> HIDE DEF g
  <2>3. f = g
    BY <2>1, <2>2
  <2> QED
    BY <2>3 DEF g
<1>7. after = [n \in 0..N |->
                 IF n = 0 THEN [i \in DOMAIN list |-> Latest(list, list[i].uid)]
                 ELSE ApplyPatch(after[n - 1], patches[n])]
  <2> HIDE DEF N
  <2> QED
    BY <1>6
<1>8. Merge(list, patches) = after[N]
  BY DEF Merge
<1> HIDE DEF after, N, step, X
<1> DEFINE Good == {n \in Nat : n <= N => after[n] = f[n]}
<1>9. 0 \in Good
  BY <1>1, <1>4, <1>7
<1>10. ASSUME NEW n \in Good PROVE n + 1 \in Good
  <2> SUFFICES ASSUME n + 1 <= N PROVE after[n + 1] = f[n + 1]
    OBVIOUS
  <2>1. n + 1 \in 1..N /\ n + 1 \in 0..N /\ n + 1 # 0 /\ (n + 1) - 1 = n /\ after[n] = f[n]
    BY <1>1
  <2>2. after[n + 1] = ApplyPatch(after[n], patches[n + 1])
    BY <1>7, <2>1
  <2> QED
    BY <1>5, <2>1, <2>2
<1>11. Good = Nat
  <2> HIDE DEF Good
  <2> QED
    BY <1>9, <1>10, InductiveIsNat DEF Good
<1>12. Merge(list, patches) = f[N]
  BY <1>1, <1>8, <1>11
<1>13. Merges(f, E, list, patches)
  BY <1>4, <1>5, <1>12 DEF Merges, N, X
<1> QED
  BY <1>13

-----------------------------------------------------------------------------
(* What a merge preserves.                                                 *)

LEMMA UidsOfSeq ==
  ASSUME NEW E, NEW list \in Seq(E)
  PROVE  Uids(list) = {list[i].uid : i \in 1..Len(list)}
  BY LenProperties DEF Uids

LEMMA PatchUids ==
  ASSUME NEW E, NEW list \in Seq(E), NEW p \in E
  PROVE  Uids(ApplyPatch(list, p)) = Uids(list) \cup {p.uid}
<1> DEFINE new == ApplyPatch(list, p)
<1>1. Len(list) \in Nat /\ Uids(list) = {list[i].uid : i \in 1..Len(list)}
  BY LenProperties, UidsOfSeq
<1>2. CASE p.uid \in Uids(list)
  <2>1. /\ new \in Seq(E) /\ Len(new) = Len(list)
        /\ \A i \in 1..Len(list) : new[i] = IF list[i].uid = p.uid /\ p.v # Keep THEN p ELSE list[i]
    BY <1>2, PatchKnown
  <2>2. \A i \in 1..Len(list) : new[i].uid = list[i].uid
    BY <2>1
  <2>3. Uids(new) = {new[i].uid : i \in 1..Len(new)}
    BY <2>1, UidsOfSeq
  <2> HIDE DEF new
  <2>4. Uids(new) = Uids(list)
    BY <1>1, <2>1, <2>2, <2>3
  <2> QED
    BY <1>2, <2>4 DEF new
<1>3. CASE p.uid \notin Uids(list)
  <2>1. /\ new \in Seq(E) /\ Len(new) = Len(list) + 1
        /\ \A i \in 1..Len(list) : new[i] = list[i]
        /\ new[Len(list) + 1] = p
    BY <1>3, PatchNew
  <2>2. Uids(new) = {new[i].uid : i \in 1..Len(new)}
    BY <2>1, UidsOfSeq
  <2> HIDE DEF new
  <2>3. ASSUME NEW u \in Uids(new) PROVE u \in Uids(list) \cup {p.uid}
    <3>1. PICK i \in 1..Len(new) : u = new[i].uid
      BY <2>2
    <3>2. i \in 1..Len(list) \/ i = Len(list) + 1
      BY <1>1, <2>1
    <3> QED
      BY <1>1, <2>1, <3>1, <3>2
  <2>4. ASSUME NEW u \in Uids(list) \cup {p.uid} PROVE u \in Uids(new)
    <3>1. CASE u \in Uids(list)
      <4>1. PICK i \in 1..Len(list) : u = list[i].uid
        BY <1>1, <3>1
      <4>2. i \in 1..Len(new) /\ new[i] = list[i]
        BY <1>1, <2>1
      <4> QED
        BY <2>2, <4>1, <4>2
    <3>2. CASE u = p.uid
      <4>1. Len(list) + 1 \in 1..Len(new)
        BY <1>1, <2>1
      <4> QED
        BY <2>1, <2>2, <3>2, <4>1
    <3> QED
      BY <3>1, <3>2
  <2> QED
    BY <2>3, <2>4 DEF new
<1> QED
  BY <1>2, <1>3

LEMMA RebuiltUids ==
  ASSUME NEW E, NEW list \in Seq(E)
  PROVE  Uids([i \in DOMAIN list |-> Latest(list, list[i].uid)]) = Uids(list)
<1> DEFINE new == [i \in DOMAIN list |-> Latest(list, list[i].uid)]
<1>1. DOMAIN list = 1..Len(list) /\ DOMAIN new = DOMAIN list
  BY LenProperties
<1>2. \A i \in DOMAIN list : new[i].uid = list[i].uid
  BY <1>1, LatestIs
<1> HIDE DEF new
<1>3. Uids(new) = Uids(list)
  BY <1>1, <1>2 DEF Uids
<1> QED
  BY <1>3 DEF new

(* The uids of a merge are those of the list and of the patches so far.    *)
LEMMA MergeUids ==
  ASSUME NEW E, NEW list \in Seq(E), NEW patches \in Seq(E), NEW after,
         Merges(after, E, list, patches)
  PROVE  \A n \in 0..Len(patches) :
           Uids(after[n]) = Uids(list) \cup {patches[j].uid : j \in 1..n}
<1> DEFINE N == Len(patches)
           NamedAt(n) == {patches[j].uid : j \in 1..n}
           Good == {n \in Nat : n <= N => Uids(after[n]) = Uids(list) \cup NamedAt(n)}
<1>1. N \in Nat /\ \A n \in 1..N : patches[n] \in E
  BY LenProperties, ElementOfSeq
<1>2. /\ \A n \in 0..N : after[n] \in Seq(E)
      /\ Uids(after[0]) = Uids(list)
      /\ \A n \in 1..N : after[n] = ApplyPatch(after[n - 1], patches[n])
  BY RebuiltUids DEF Merges
<1> HIDE DEF N
<1>3. 0 \in Good
  <2>1. NamedAt(0) = {}
    OBVIOUS
  <2> HIDE DEF NamedAt
  <2> QED
    BY <1>2, <2>1
<1>4. ASSUME NEW n \in Good PROVE n + 1 \in Good
  <2> SUFFICES ASSUME n + 1 <= N PROVE Uids(after[n + 1]) = Uids(list) \cup NamedAt(n + 1)
    OBVIOUS
  <2>1. /\ n \in Nat /\ n + 1 \in 1..N /\ n \in 0..N /\ (n + 1) - 1 = n
        /\ Uids(after[n]) = Uids(list) \cup NamedAt(n)
    BY <1>1
  <2>2. Uids(after[n + 1]) = Uids(after[n]) \cup {patches[n + 1].uid}
    BY <1>1, <1>2, <2>1, PatchUids
  <2>3. NamedAt(n + 1) = NamedAt(n) \cup {patches[n + 1].uid}
    <3>1. 1..(n + 1) = (1..n) \cup {n + 1}
      BY <2>1
    <3> QED
      BY <3>1
  <2> HIDE DEF NamedAt
  <2> QED
    BY <2>1, <2>2, <2>3
<1>5. Good = Nat
  <2> HIDE DEF Good
  <2> QED
    BY <1>3, <1>4, InductiveIsNat DEF Good
<1>6. ASSUME NEW n \in 0..N PROVE Uids(after[n]) = Uids(list) \cup NamedAt(n)
  <2> HIDE DEF NamedAt
  <2>1. n \in Nat /\ n <= N
    BY <1>1
  <2> QED
    BY <1>5, <2>1
<1> QED
  BY <1>6 DEF N

\* A list no entry of which lacks its worth.
Valued(list) == \A i \in 1..Len(list) : list[i].v # Keep

LEMMA PatchValued ==
  ASSUME NEW E, NEW list \in Seq(E), NEW p \in E, Valued(list),
         p.v # Keep \/ p.uid \in Uids(list)
  PROVE  Valued(ApplyPatch(list, p))
<1>1. Len(list) \in Nat
  BY LenProperties
<1>2. CASE p.uid \in Uids(list)
  BY <1>2, PatchKnown DEF Valued
<1>3. CASE p.uid \notin Uids(list)
  <2> DEFINE new == ApplyPatch(list, p)
  <2>1. /\ Len(new) = Len(list) + 1 /\ new[Len(list) + 1] = p
        /\ \A i \in 1..Len(list) : new[i] = list[i]
    BY <1>3, PatchNew
  <2> HIDE DEF new
  <2> SUFFICES ASSUME NEW i \in 1..Len(new) PROVE new[i].v # Keep
    BY DEF Valued, new
  <2>2. i \in 1..Len(list) \/ i = Len(list) + 1
    BY <1>1, <2>1
  <2> QED
    BY <1>3, <2>1, <2>2 DEF Valued
<1> QED
  BY <1>2, <1>3

(* If every new line brings its worth, a merge leaves no line without.     *)
LEMMA MergeValued ==
  ASSUME NEW E, NEW list \in Seq(E), NEW patches \in Seq(E), Valued(list),
         \A n \in 1..Len(patches) :
           patches[n].v = Keep => patches[n].uid \in Uids(list) \cup {patches[j].uid : j \in 1..(n - 1)}
  PROVE  Valued(Merge(list, patches)) /\ Merge(list, patches) \in Seq(E)
<1> DEFINE N == Len(patches)
<1>1. N \in Nat /\ \A n \in 1..N : patches[n] \in E
  BY LenProperties, ElementOfSeq
<1>2. PICK after : Merges(after, E, list, patches)
  BY MergeUnfolds
<1>3. /\ \A n \in 0..N : after[n] \in Seq(E)
      /\ after[0] = [i \in DOMAIN list |-> Latest(list, list[i].uid)]
      /\ \A n \in 1..N : after[n] = ApplyPatch(after[n - 1], patches[n])
      /\ Merge(list, patches) = after[N]
  BY <1>2 DEF Merges
<1> DEFINE Good == {n \in Nat : n <= N => Valued(after[n])}
<1>4. 0 \in Good
  <2>1. DOMAIN list = 1..Len(list)
    BY LenProperties
  <2>2. ASSUME NEW i \in 1..Len(list) PROVE Latest(list, list[i].uid).v # Keep
    <3>1. PICK j \in 1..Len(list) : Latest(list, list[i].uid) = list[j]
      BY LatestIs
    <3> QED
      BY <3>1 DEF Valued
  <2>3. Len(after[0]) = Len(list)
    BY <1>3, RebuiltType
  <2>4. Valued(after[0])
    BY <1>3, <2>1, <2>2, <2>3 DEF Valued
  <2> QED
    BY <2>4
<1>5. ASSUME NEW n \in Good PROVE n + 1 \in Good
  <2> SUFFICES ASSUME n + 1 <= N PROVE Valued(after[n + 1])
    OBVIOUS
  <2>1. n + 1 \in 1..N /\ n \in 0..N /\ (n + 1) - 1 = n /\ Valued(after[n])
    BY <1>1
  <2>2. Uids(after[n]) = Uids(list) \cup {patches[j].uid : j \in 1..n}
    BY <1>2, <2>1, MergeUids
  <2>3. patches[n + 1].v # Keep \/ patches[n + 1].uid \in Uids(after[n])
    BY <2>1, <2>2
  <2>4. after[n] \in Seq(E) /\ patches[n + 1] \in E /\ after[n + 1] = ApplyPatch(after[n], patches[n + 1])
    BY <1>1, <1>3, <2>1
  <2> QED
    BY <2>1, <2>3, <2>4, PatchValued
<1>6. Good = Nat
  <2> HIDE DEF Good
  <2> QED
    BY <1>4, <1>5, InductiveIsNat DEF Good
<1>7. N \in 0..N /\ Valued(after[N])
  BY <1>1, <1>6
<1> QED
  BY <1>3, <1>7

LEMMA PatchDistinct ==
  ASSUME NEW E, NEW list \in Seq(E), NEW p \in E, Distinct(list)
  PROVE  Distinct(ApplyPatch(list, p))
<1> DEFINE new == ApplyPatch(list, p)
<1>1. Len(list) \in Nat /\ Uids(list) = {list[i].uid : i \in 1..Len(list)}
  BY LenProperties, UidsOfSeq
<1>2. CASE p.uid \in Uids(list)
  <2>1. /\ Len(new) = Len(list)
        /\ \A i \in 1..Len(list) : new[i] = IF list[i].uid = p.uid /\ p.v # Keep THEN p ELSE list[i]
    BY <1>2, PatchKnown
  <2> HIDE DEF new
  <2>2. \A i \in 1..Len(list) : new[i].uid = list[i].uid
    BY <2>1
  <2>3. Distinct(new)
    BY <2>1, <2>2 DEF Distinct
  <2> QED
    BY <2>3 DEF new
<1>3. CASE p.uid \notin Uids(list)
  <2>1. /\ Len(new) = Len(list) + 1 /\ new[Len(list) + 1] = p
        /\ \A i \in 1..Len(list) : new[i] = list[i]
    BY <1>3, PatchNew
  <2> HIDE DEF new
  <2>2. \A i \in 1..Len(list) : new[i].uid # p.uid
    BY <1>1, <1>3, <2>1
  <2>3. \A i \in 1..Len(new) : i \in 1..Len(list) \/ i = Len(list) + 1
    BY <1>1, <2>1
  <2>4. Distinct(new)
    BY <2>1, <2>2, <2>3 DEF Distinct
  <2> QED
    BY <2>4 DEF new
<1> QED
  BY <1>2, <1>3

(* Merging keeps different uids different.                                 *)
LEMMA MergeDistinct ==
  ASSUME NEW E, NEW list \in Seq(E), NEW patches \in Seq(E), Distinct(list)
  PROVE  Distinct(Merge(list, patches))
<1> DEFINE N == Len(patches)
<1>1. N \in Nat /\ \A n \in 1..N : patches[n] \in E
  BY LenProperties, ElementOfSeq
<1>2. PICK after : Merges(after, E, list, patches)
  BY MergeUnfolds
<1>3. /\ \A n \in 0..N : after[n] \in Seq(E)
      /\ after[0] = [i \in DOMAIN list |-> Latest(list, list[i].uid)]
      /\ \A n \in 1..N : after[n] = ApplyPatch(after[n - 1], patches[n])
      /\ Merge(list, patches) = after[N]
  BY <1>2 DEF Merges
<1> DEFINE Good == {n \in Nat : n <= N => Distinct(after[n])}
<1>4. 0 \in Good
  <2>1. DOMAIN list = 1..Len(list) /\ Len(after[0]) = Len(list)
    BY <1>3, LenProperties, RebuiltType
  <2>2. \A i \in 1..Len(list) : after[0][i] = list[i]
    BY <1>3, <2>1, LatestOfDistinct
  <2>3. Distinct(after[0])
    BY <2>1, <2>2 DEF Distinct
  <2> QED
    BY <2>3
<1>5. ASSUME NEW n \in Good PROVE n + 1 \in Good
  <2> SUFFICES ASSUME n + 1 <= N PROVE Distinct(after[n + 1])
    OBVIOUS
  <2>1. n + 1 \in 1..N /\ n \in 0..N /\ (n + 1) - 1 = n /\ Distinct(after[n])
    BY <1>1
  <2>2. after[n] \in Seq(E) /\ patches[n + 1] \in E /\ after[n + 1] = ApplyPatch(after[n], patches[n + 1])
    BY <1>1, <1>3, <2>1
  <2> QED
    BY <2>1, <2>2, PatchDistinct
<1>6. Good = Nat
  <2> HIDE DEF Good
  <2> QED
    BY <1>4, <1>5, InductiveIsNat DEF Good
<1>7. Distinct(after[N])
  BY <1>1, <1>6
<1> QED
  BY <1>3, <1>7

(* An entry every patch of which says Keep stays as it is, in its place.   *)
LEMMA MergeStays ==
  ASSUME NEW E, NEW list \in Seq(E), NEW patches \in Seq(E), Distinct(list),
         NEW i \in 1..Len(list),
         \A n \in 1..Len(patches) : patches[n].uid = list[i].uid => patches[n].v = Keep
  PROVE  i \in 1..Len(Merge(list, patches)) /\ Merge(list, patches)[i] = list[i]
<1> DEFINE N == Len(patches)
<1>1. N \in Nat /\ \A n \in 1..N : patches[n] \in E
  BY LenProperties, ElementOfSeq
<1>2. PICK after : Merges(after, E, list, patches)
  BY MergeUnfolds
<1>3. /\ \A n \in 0..N : after[n] \in Seq(E)
      /\ after[0] = [k \in DOMAIN list |-> Latest(list, list[k].uid)]
      /\ \A n \in 1..N : after[n] = ApplyPatch(after[n - 1], patches[n])
      /\ Merge(list, patches) = after[N]
  BY <1>2 DEF Merges
<1> DEFINE Stays(a) == i \in 1..Len(a) /\ a[i] = list[i]
           Good == {n \in Nat : n <= N => Stays(after[n])}
<1>4. 0 \in Good
  <2>1. DOMAIN list = 1..Len(list) /\ Len(after[0]) = Len(list)
    BY <1>3, LenProperties, RebuiltType
  <2>2. after[0][i] = list[i]
    BY <1>3, <2>1, LatestOfDistinct
  <2> QED
    BY <2>1, <2>2
<1>5. ASSUME NEW n \in Good PROVE n + 1 \in Good
  <2> SUFFICES ASSUME n + 1 <= N PROVE Stays(after[n + 1])
    OBVIOUS
  <2>1. n + 1 \in 1..N /\ n \in 0..N /\ (n + 1) - 1 = n /\ Stays(after[n])
    BY <1>1
  <2>2. after[n] \in Seq(E) /\ patches[n + 1] \in E /\ after[n + 1] = ApplyPatch(after[n], patches[n + 1])
    BY <1>1, <1>3, <2>1
  <2>3. Len(after[n]) \in Nat
    BY <2>2, LenProperties
  <2>4. CASE patches[n + 1].uid \in Uids(after[n])
    <3>1. /\ Len(after[n + 1]) = Len(after[n])
          /\ after[n + 1][i] = IF after[n][i].uid = patches[n + 1].uid /\ patches[n + 1].v # Keep
                              THEN patches[n + 1] ELSE after[n][i]
      BY <2>1, <2>2, <2>4, PatchKnown
    <3> QED
      BY <2>1, <3>1
  <2>5. CASE patches[n + 1].uid \notin Uids(after[n])
    <3>1. Len(after[n + 1]) = Len(after[n]) + 1 /\ after[n + 1][i] = after[n][i]
      BY <2>1, <2>2, <2>5, PatchNew
    <3> QED
      BY <2>1, <2>3, <3>1
  <2> QED
    BY <2>4, <2>5
<1>6. Good = Nat
  <2> HIDE DEF Good
  <2> QED
    BY <1>4, <1>5, InductiveIsNat DEF Good
<1>7. Stays(after[N])
  <2> HIDE DEF Stays
  <2> QED
    BY <1>1, <1>6
<1> QED
  BY <1>3, <1>7

-----------------------------------------------------------------------------
(* The dry run of an update names new lines with placeholders, the commit  *)
(* with uids of the stream.  Under a renaming that confuses no two uids    *)
(* the two merges go the same way.                                         *)

\* List b is list a with its uids renamed.
Renames(ren, a, b) ==
  /\ Len(a) = Len(b)
  /\ \A i \in 1..Len(a) : b[i].uid = ren[a[i].uid] /\ b[i].v = a[i].v

LEMMA PatchRenamed ==
  ASSUME NEW U, NEW ren, \A x, y \in U : ren[x] = ren[y] => x = y,
         NEW E, \A e \in E : e.uid \in U, NEW F,
         NEW a \in Seq(E), NEW b \in Seq(F), Renames(ren, a, b),
         NEW p \in E, NEW q \in F, q.uid = ren[p.uid], q.v = p.v
  PROVE  Renames(ren, ApplyPatch(a, p), ApplyPatch(b, q))
<1> DEFINE c == ApplyPatch(a, p)
           d == ApplyPatch(b, q)
           N == Len(a)
<1>1. /\ N \in Nat /\ Len(b) = N
      /\ Uids(a) = {a[i].uid : i \in 1..N} /\ Uids(b) = {b[i].uid : i \in 1..N}
  BY LenProperties, UidsOfSeq DEF Renames
<1>2. \A i \in 1..N : a[i].uid \in U /\ b[i].uid = ren[a[i].uid] /\ b[i].v = a[i].v
  BY ElementOfSeq DEF Renames
<1>3. p.uid \in U
  OBVIOUS
<1>4. \A i \in 1..N : b[i].uid = q.uid <=> a[i].uid = p.uid
  BY <1>2, <1>3
<1>5. CASE p.uid \in Uids(a)
  <2>1. q.uid \in Uids(b)
    BY <1>1, <1>4, <1>5
  <2>2. /\ Len(c) = N
        /\ \A i \in 1..N : c[i] = IF a[i].uid = p.uid /\ p.v # Keep THEN p ELSE a[i]
    BY <1>5, PatchKnown
  <2>3. /\ Len(d) = N
        /\ \A i \in 1..N : d[i] = IF b[i].uid = q.uid /\ q.v # Keep THEN q ELSE b[i]
    BY <1>1, <2>1, PatchKnown
  <2> HIDE DEF c, d, N
  <2>4. Renames(ren, c, d)
    BY <1>2, <1>4, <2>2, <2>3 DEF Renames
  <2> QED
    BY <2>4 DEF c, d
<1>6. CASE p.uid \notin Uids(a)
  <2>1. q.uid \notin Uids(b)
    BY <1>1, <1>4, <1>6
  <2>2. Len(c) = N + 1 /\ c[N + 1] = p /\ \A i \in 1..N : c[i] = a[i]
    BY <1>6, PatchNew
  <2>3. Len(d) = N + 1 /\ d[N + 1] = q /\ \A i \in 1..N : d[i] = b[i]
    BY <1>1, <2>1, PatchNew
  <2> HIDE DEF c, d, N
  <2>4. \A i \in 1..(N + 1) : i \in 1..N \/ i = N + 1
    BY <1>1
  <2>5. Renames(ren, c, d)
    BY <1>2, <2>2, <2>3, <2>4 DEF Renames
  <2> QED
    BY <2>5 DEF c, d
<1> QED
  BY <1>5, <1>6

LEMMA MergeRenamed ==
  ASSUME NEW U, NEW ren, \A x, y \in U : ren[x] = ren[y] => x = y,
         NEW E, \A e \in E : e.uid \in U, NEW F,
         NEW list, list \in Seq(E), list \in Seq(F), Renames(ren, list, list),
         NEW P \in Seq(E), NEW Q \in Seq(F), Renames(ren, P, Q)
  PROVE  Renames(ren, Merge(list, P), Merge(list, Q))
<1> DEFINE N == Len(P)
<1>1. N \in Nat /\ Len(Q) = N /\ \A n \in 1..N : P[n] \in E /\ Q[n] \in F
  BY LenProperties, ElementOfSeq DEF Renames
<1>2. PICK f : Merges(f, E, list, P)
  BY MergeUnfolds
<1>3. PICK g : Merges(g, F, list, Q)
  BY MergeUnfolds
<1>4. /\ \A n \in 0..N : f[n] \in Seq(E)
      /\ f[0] = [i \in DOMAIN list |-> Latest(list, list[i].uid)]
      /\ \A n \in 1..N : f[n] = ApplyPatch(f[n - 1], P[n])
      /\ Merge(list, P) = f[N]
  BY <1>2 DEF Merges
<1>5. /\ \A n \in 0..N : g[n] \in Seq(F)
      /\ g[0] = [i \in DOMAIN list |-> Latest(list, list[i].uid)]
      /\ \A n \in 1..N : g[n] = ApplyPatch(g[n - 1], Q[n])
      /\ Merge(list, Q) = g[N]
  BY <1>1, <1>3 DEF Merges
<1>6. \A n \in 1..N : Q[n].uid = ren[P[n].uid] /\ Q[n].v = P[n].v
  BY DEF Renames
<1> HIDE DEF N
<1> DEFINE Good == {n \in Nat : n <= N => Renames(ren, f[n], g[n])}
<1>7. 0 \in Good
  <2>1. DOMAIN list = 1..Len(list) /\ Len(f[0]) = Len(list) /\ f[0] = g[0]
    BY <1>4, <1>5, LenProperties, RebuiltType
  <2>2. ASSUME NEW i \in 1..Len(list) PROVE ren[f[0][i].uid] = f[0][i].uid
    <3>1. PICK j \in 1..Len(list) : Latest(list, list[i].uid) = list[j]
      BY LatestIs
    <3>2. f[0][i] = list[j]
      BY <1>4, <2>1, <3>1
    <3> QED
      BY <3>2 DEF Renames
  <2>3. Renames(ren, f[0], g[0])
    BY <2>1, <2>2 DEF Renames
  <2> QED
    BY <2>3
<1>8. ASSUME NEW n \in Good PROVE n + 1 \in Good
  <2> SUFFICES ASSUME n + 1 <= N PROVE Renames(ren, f[n + 1], g[n + 1])
    OBVIOUS
  <2>1. n + 1 \in 1..N /\ n \in 0..N /\ (n + 1) - 1 = n /\ Renames(ren, f[n], g[n])
    BY <1>1
  <2>2. /\ f[n] \in Seq(E) /\ P[n + 1] \in E /\ f[n + 1] = ApplyPatch(f[n], P[n + 1])
        /\ g[n] \in Seq(F) /\ Q[n + 1] \in F /\ g[n + 1] = ApplyPatch(g[n], Q[n + 1])
        /\ Q[n + 1].uid = ren[P[n + 1].uid] /\ Q[n + 1].v = P[n + 1].v
    BY <1>1, <1>4, <1>5, <1>6, <2>1
  <2>3. Renames(ren, ApplyPatch(f[n], P[n + 1]), ApplyPatch(g[n], Q[n + 1]))
    BY <2>1, <2>2, PatchRenamed
  <2> QED
    BY <2>2, <2>3
<1>9. Good = Nat
  <2> HIDE DEF Good
  <2> QED
    BY <1>7, <1>8, InductiveIsNat DEF Good
<1>10. Renames(ren, f[N], g[N])
  BY <1>1, <1>9
<1> QED
  BY <1>4, <1>5, <1>10

-----------------------------------------------------------------------------
(* Naming the unnamed entries of a request.                                *)

LEMMA IsASequence ==
  ASSUME NEW S, NEW n \in Nat, NEW f \in [1..n -> S]
  PROVE  f \in Seq(S) /\ Len(f) = n
  OBVIOUS

LEMMA UpToSeq ==
  ASSUME NEW S, NEW n \in Nat, NEW list \in UpTo(S, n)
  PROVE  list \in Seq(S)
<1>1. PICK k \in 0..n : list \in [1..k -> S]
  BY DEF UpTo
<1> QED
  BY <1>1, IsASequence

(* The count of unnamed entries grows with each of them.                   *)
LEMMA UnnamedCounts ==
  ASSUME NEW patches, NEW i \in Nat
  PROVE  /\ UnnamedUpTo(patches, i) \in Nat
         /\ \A k \in 0..i : UnnamedUpTo(patches, k) <= UnnamedUpTo(patches, i)
         /\ \A k \in 0..(i - 1) :
              patches[i].uid = Unnamed => UnnamedUpTo(patches, k) < UnnamedUpTo(patches, i)
<1> DEFINE S(k) == {j \in 1..k : patches[j].uid = Unnamed}
<1>1. ASSUME NEW k \in Nat PROVE IsFiniteSet(S(k)) /\ Cardinality(S(k)) \in Nat
  <2>1. IsFiniteSet(1..k)
    BY FS_Interval
  <2>2. S(k) \in SUBSET (1..k)
    OBVIOUS
  <2>3. IsFiniteSet(S(k))
    BY <2>1, <2>2, FS_Subset
  <2> QED
    BY <2>3, FS_CardinalityType
<1>2. ASSUME NEW k \in 0..i
      PROVE  /\ Cardinality(S(k)) <= Cardinality(S(i))
             /\ Cardinality(S(k)) = Cardinality(S(i)) => S(i) = S(k)
  <2>1. S(k) \in SUBSET S(i)
    OBVIOUS
  <2> QED
    BY <1>1, <2>1, FS_Subset
<1>3. ASSUME NEW k \in 0..(i - 1), patches[i].uid = Unnamed
      PROVE  Cardinality(S(k)) < Cardinality(S(i))
  <2>1. i \in S(i) /\ i \notin S(k) /\ k \in 0..i /\ k \in Nat
    BY <1>3
  <2>2. S(i) # S(k)
    BY <2>1
  <2>3. Cardinality(S(k)) \in Nat /\ Cardinality(S(i)) \in Nat
    BY <1>1, <2>1
  <2>4. Cardinality(S(k)) <= Cardinality(S(i)) /\ Cardinality(S(k)) # Cardinality(S(i))
    BY <1>2, <2>1, <2>2
  <2> HIDE DEF S
  <2> QED
    BY <2>3, <2>4
<1>4. \A k : UnnamedUpTo(patches, k) = Cardinality(S(k))
  BY DEF UnnamedUpTo
<1> HIDE DEF S
<1> QED
  BY <1>1, <1>2, <1>3, <1>4

\* How entry i of a renamed list comes from that of the request.
NamesFrom(new, patches, i, start, sign) ==
  /\ new[i].v = patches[i].v
  /\ new[i].uid = IF patches[i].uid = Unnamed
                  THEN start + sign * UnnamedUpTo(patches, i)
                  ELSE patches[i].uid

LEMMA NamedIs ==
  ASSUME NEW U \in SUBSET Int, NEW V, NEW patches \in Seq([uid : U, v : V]),
         NEW start \in Int, NEW sign \in Int
  PROVE  /\ Named(patches, start, sign) \in Seq([uid : Int, v : V])
         /\ Len(Named(patches, start, sign)) = Len(patches)
         /\ \A i \in 1..Len(patches) : NamesFrom(Named(patches, start, sign), patches, i, start, sign)
<1> DEFINE N == Len(patches)
           name(i) == start + sign * UnnamedUpTo(patches, i)
           new == [i \in 1..N |-> IF patches[i].uid = Unnamed
                                  THEN [patches[i] EXCEPT !.uid = name(i)] ELSE patches[i]]
<1>1. N \in Nat /\ DOMAIN patches = 1..N /\ \A i \in 1..N : patches[i] \in [uid : U, v : V]
  BY LenProperties, ElementOfSeq
<1>2. Named(patches, start, sign) = new
  BY <1>1 DEF Named
<1>3. \A i \in 1..N : UnnamedUpTo(patches, i) \in Int
  BY UnnamedCounts
<1>4. \A i \in 1..N : name(i) \in Int
  BY <1>3
<1> HIDE DEF name, N
<1>5. \A i \in 1..N : /\ new[i] \in [uid : Int, v : V]
                      /\ new[i].v = patches[i].v
                      /\ new[i].uid = IF patches[i].uid = Unnamed THEN name(i) ELSE patches[i].uid
  BY <1>1, <1>4
<1>6. new \in [1..N -> [uid : Int, v : V]]
  BY <1>5
<1> HIDE DEF new
<1>7. new \in Seq([uid : Int, v : V]) /\ Len(new) = N
  BY <1>1, <1>6, IsASequence
<1> QED
  BY <1>2, <1>5, <1>7 DEF name, N, NamesFrom

\* Uids from the stream: each unnamed entry gets one of its own, beyond the
\* start and within the draws; a named entry keeps its name.
MintedFrom(new, patches, start) ==
  /\ Len(new) = Len(patches)
  /\ \A i \in 1..Len(patches) :
       /\ new[i].v = patches[i].v
       /\ patches[i].uid = Unnamed => new[i].uid \in (start + 1)..(start + UnnamedIn(patches))
       /\ patches[i].uid # Unnamed => new[i].uid = patches[i].uid
  /\ \A i, j \in 1..Len(patches) :
       patches[i].uid = Unnamed /\ patches[j].uid = Unnamed /\ new[i].uid = new[j].uid => i = j

LEMMA MintedIs ==
  ASSUME NEW U \in SUBSET Int, NEW V, NEW patches \in Seq([uid : U, v : V]),
         NEW start \in Nat
  PROVE  /\ UnnamedIn(patches) \in Nat
         /\ Minted(patches, start) \in Seq([uid : Int, v : V])
         /\ MintedFrom(Minted(patches, start), patches, start)
<1> DEFINE N == Len(patches)
           new == Minted(patches, start)
           count(i) == UnnamedUpTo(patches, i)
<1>1. N \in Nat
  BY LenProperties
<1>2. /\ new \in Seq([uid : Int, v : V]) /\ Len(new) = N
      /\ \A i \in 1..N : NamesFrom(new, patches, i, start, 1)
  <2>1. 1 \in Int /\ start \in Int
    OBVIOUS
  <2> QED
    BY <2>1, NamedIs DEF Minted
<1>3. \A i \in 1..N : /\ new[i].v = patches[i].v
                      /\ new[i].uid = IF patches[i].uid = Unnamed
                                      THEN start + 1 * count(i) ELSE patches[i].uid
  BY <1>2 DEF NamesFrom
<1>4. /\ \A i \in 0..N : count(i) \in Nat /\ count(i) <= count(N)
      /\ \A i \in 1..N : \A k \in 0..(i - 1) :
           patches[i].uid = Unnamed => count(k) < count(i)
  BY <1>1, UnnamedCounts
<1>5. UnnamedIn(patches) = count(N)
  BY DEF UnnamedIn
<1> HIDE DEF N, new, count
<1>6. \A i \in 1..N : patches[i].uid = Unnamed => count(i) >= 1
  BY <1>1, <1>4
<1>7. \A i \in 1..N : patches[i].uid = Unnamed => new[i].uid = start + count(i)
  BY <1>1, <1>3, <1>4
<1>8. ASSUME NEW i \in 1..N, patches[i].uid = Unnamed
      PROVE  new[i].uid \in (start + 1)..(start + count(N))
  <2>1. count(i) \in Nat /\ count(N) \in Nat /\ count(i) <= count(N) /\ count(i) >= 1
    BY <1>1, <1>4, <1>6, <1>8
  <2>2. new[i].uid = start + count(i)
    BY <1>7, <1>8
  <2> QED
    BY <2>1, <2>2
<1>9. ASSUME NEW i \in 1..N, NEW j \in 1..N, patches[i].uid = Unnamed, patches[j].uid = Unnamed,
             new[i].uid = new[j].uid
      PROVE  i = j
  <2>1. count(i) \in Nat /\ count(j) \in Nat /\ start + count(i) = start + count(j)
    BY <1>1, <1>4, <1>7, <1>9
  <2>2. count(i) = count(j)
    BY <2>1
  <2>3. CASE i < j
    <3>1. i \in 0..(j - 1)
      BY <1>1, <2>3
    <3> QED
      BY <1>4, <1>9, <2>1, <2>2, <3>1
  <2>4. CASE j < i
    <3>1. j \in 0..(i - 1)
      BY <1>1, <2>4
    <3> QED
      BY <1>4, <1>9, <2>1, <2>2, <3>1
  <2> QED
    BY <1>1, <2>3, <2>4
<1>10. count(N) \in Nat
  BY <1>1, <1>4
<1> QED
  BY <1>2, <1>3, <1>5, <1>8, <1>9, <1>10 DEF N, new, MintedFrom

(* Names change no worth.                                                  *)
LEMMA MintedAlike ==
  ASSUME NEW U \in SUBSET Int, NEW V, NEW patches \in Seq([uid : U, v : V]),
         NEW start \in Nat
  PROVE  Alike(Minted(patches, start), patches)
<1> DEFINE new == Minted(patches, start)
<1>1. MintedFrom(new, patches, start)
  BY MintedIs
<1> HIDE DEF new
<1>2. Alike(new, patches)
  BY <1>1 DEF Alike, MintedFrom
<1> QED
  BY <1>2 DEF new

\* Placeholders are the names the stream would give, with the sign changed
\* and the start left out.
Mirrors(new, minted, patches, i, start) ==
  /\ new[i].v = patches[i].v
  /\ patches[i].uid = Unnamed =>
       /\ new[i].uid \in (-UnnamedIn(patches))..(-1)
       /\ minted[i].uid = start - new[i].uid
  /\ patches[i].uid # Unnamed => new[i].uid = patches[i].uid

LEMMA PlaceholdersIs ==
  ASSUME NEW U \in SUBSET Int, NEW V, NEW patches \in Seq([uid : U, v : V]),
         NEW start \in Nat
  PROVE  /\ Placeholders(patches) \in Seq([uid : Int, v : V])
         /\ Len(Placeholders(patches)) = Len(patches)
         /\ \A i \in 1..Len(patches) :
              Mirrors(Placeholders(patches), Minted(patches, start), patches, i, start)
<1> DEFINE N == Len(patches)
           new == Placeholders(patches)
           minted == Minted(patches, start)
           count(i) == UnnamedUpTo(patches, i)
<1>1. N \in Nat
  BY LenProperties
<1>2. /\ new \in Seq([uid : Int, v : V]) /\ Len(new) = N
      /\ \A i \in 1..N : NamesFrom(new, patches, i, 0, -1)
  <2>1. 0 \in Int /\ -1 \in Int
    OBVIOUS
  <2> QED
    BY <2>1, NamedIs DEF Placeholders
<1>3. \A i \in 1..N : NamesFrom(minted, patches, i, start, 1)
  <2>1. 1 \in Int /\ start \in Int
    OBVIOUS
  <2> QED
    BY <2>1, NamedIs DEF Minted
<1>4. \A i \in 1..N : count(i) \in Nat /\ count(i) <= count(N)
                      /\ (patches[i].uid = Unnamed => count(0) < count(i)) /\ count(0) \in Nat
  BY <1>1, UnnamedCounts
<1>5. UnnamedIn(patches) = count(N) /\ count(N) \in Nat
  BY <1>1, UnnamedCounts DEF UnnamedIn
<1>6. ASSUME NEW i \in 1..N PROVE Mirrors(new, minted, patches, i, start)
  <2>1. /\ new[i].v = patches[i].v
        /\ new[i].uid = IF patches[i].uid = Unnamed THEN 0 + (-1) * count(i) ELSE patches[i].uid
        /\ minted[i].uid = IF patches[i].uid = Unnamed THEN start + 1 * count(i) ELSE patches[i].uid
    BY <1>2, <1>3 DEF NamesFrom
  <2>2. /\ count(i) \in Nat /\ count(i) <= count(N)
        /\ patches[i].uid = Unnamed => count(0) < count(i) /\ count(0) \in Nat
    BY <1>4
  <2> HIDE DEF new, minted, count, N
  <2>3. 0 + (-1) * count(i) = -count(i) /\ start + 1 * count(i) = start + count(i)
    BY <2>2
  <2>4. CASE patches[i].uid = Unnamed
    <3>1. count(i) \in 1..count(N)
      BY <1>5, <2>2, <2>4
    <3>2. -count(i) \in (-count(N))..(-1) /\ start + count(i) = start - (-count(i))
      BY <1>5, <3>1
    <3> QED
      BY <1>5, <2>1, <2>3, <2>4, <3>2 DEF Mirrors
  <2>5. CASE patches[i].uid # Unnamed
    BY <2>1, <2>5 DEF Mirrors
  <2> QED
    BY <2>4, <2>5
<1> QED
  BY <1>2, <1>6

-----------------------------------------------------------------------------
(* What the invariant says of one order once n ids have been drawn.        *)

Sound(order, n) ==
  /\ order \in OrderRecords
  /\ Uids(order.lines) \subseteq LineUids \cup 1..n
  /\ Uids(order.fulfillments) \subseteq FulfillmentUids \cup 1..n
  /\ Distinct(order.fulfillments)
  /\ Total(order.lines) = order.total
  /\ order.applied \in Nat /\ order.applied <= Larger(0, order.total)

LEMMA SoundGrows ==
  ASSUME NEW order, NEW n \in Nat, NEW m \in Nat, n <= m, Sound(order, n)
  PROVE  Sound(order, m)
<1>1. 1..n \subseteq 1..m
  OBVIOUS
<1> QED
  BY <1>1 DEF Sound

LEMMA WithoutUids ==
  ASSUME NEW E, NEW list \in Seq(E), NEW places
  PROVE  Uids(Without(list, places)) \subseteq Uids(list)
<1> DEFINE F == {list[i] : i \in 1..Len(list)}
           new == Without(list, places)
<1>1. Len(list) \in Nat /\ list \in [1..Len(list) -> F]
  BY LenProperties
<1>2. list \in Seq(F)
  BY <1>1
<1> HIDE DEF F
<1>3. new \in Seq(F)
  BY <1>2, WithoutType
<1> HIDE DEF new
<1>4. Uids(new) = {new[i].uid : i \in 1..Len(new)} /\ \A i \in 1..Len(new) : new[i] \in F
  BY <1>3, UidsOfSeq, ElementOfSeq
<1>5. Uids(list) = {list[i].uid : i \in 1..Len(list)}
  BY UidsOfSeq
<1> QED
  BY <1>4, <1>5 DEF F, new

\* What completing an order and tendering it leave alone.
SameBut(order, other) ==
  order.fulfillments = other.fulfillments /\ order.total = other.total

(* Completing an order loses its zero lines and nothing else.              *)
LEMMA CompleteSound ==
  ASSUME SquareAssumption, NEW n \in Nat, NEW order, Sound(order, n)
  PROVE  /\ Sound(Complete(order), n)
         /\ SameBut(Complete(order), order)
         /\ Complete(order).tenders = order.tenders
<1> DEFINE new == Complete(order)
           lines == DropZeroLines(order.lines)
<1>1. order \in OrderRecords /\ order.lines \in Seq([uid : Int, v : Cents])
  BY DEF Sound, OrderRecords, Entry
<1>2. Cents \in SUBSET Int /\ "COMPLETED" \in States
  BY DEF SquareAssumption, States, ORDER_MACHINE
<1>3. Total(lines) = Total(order.lines)
  BY <1>1, <1>2, TotalWithoutZeros
<1>4. lines \in Seq([uid : Int, v : Cents]) /\ Uids(lines) \subseteq Uids(order.lines)
  BY <1>1, WithoutType, WithoutUids DEF DropZeroLines
<1>5. new = [order EXCEPT !.state = "COMPLETED", !.lines = lines]
  BY DEF Complete
<1> HIDE DEF new, lines
<1>6. /\ new \in OrderRecords /\ new.lines = lines /\ new.total = order.total
      /\ new.applied = order.applied /\ new.tenders = order.tenders
      /\ new.fulfillments = order.fulfillments
  BY <1>1, <1>2, <1>4, <1>5 DEF OrderRecords, Entry
<1>7. Sound(new, n)
  BY <1>3, <1>4, <1>6 DEF Sound
<1> QED
  BY <1>6, <1>7 DEF new, SameBut

(* Tenders within what is due never take the order past its total.         *)
LEMMA ApplySound ==
  ASSUME SquareAssumption, NEW n \in Nat, NEW order, Sound(order, n),
         NEW tenders \in Seq(Payments \cup {Opaque}),
         NEW amount \in Nat, amount <= amount_due(order)
  PROVE  /\ Sound(ApplyTenders(order, tenders, amount), n)
         /\ SameBut(ApplyTenders(order, tenders, amount), order)
         /\ ApplyTenders(order, tenders, amount).tenders = order.tenders \o tenders
<1> DEFINE paid == [order EXCEPT !.tenders = @ \o tenders, !.applied = @ + amount]
           all == order.tenders \o tenders
<1>1. order \in OrderRecords /\ order.tenders \in Seq(Payments \cup {Opaque})
  BY DEF Sound, OrderRecords
<1>2. all \in Seq(Payments \cup {Opaque})
  BY <1>1, ConcatProperties
<1>3. paid = [order EXCEPT !.tenders = all, !.applied = order.applied + amount]
  BY <1>1 DEF OrderRecords
<1>4. order.applied \in Nat /\ order.total \in Int /\ order.applied <= Larger(0, order.total)
  BY <1>1 DEF Sound, OrderRecords
<1>5. order.applied + amount \in Nat /\ order.applied + amount <= Larger(0, order.total)
  BY <1>4 DEF amount_due, Larger
<1>6. /\ ApplyTenders(order, tenders, amount)
           = IF paid.state = "OPEN" /\ amount_due(paid) = 0 THEN Complete(paid) ELSE paid
  BY DEF ApplyTenders
<1> HIDE DEF paid, all
<1>7. /\ paid \in OrderRecords /\ paid.lines = order.lines /\ paid.total = order.total
      /\ paid.applied = order.applied + amount /\ paid.tenders = all
      /\ paid.fulfillments = order.fulfillments
  <2> DEFINE rest == order.applied + amount
  <2>1. rest \in Int
    BY <1>5
  <2> HIDE DEF rest
  <2>2. paid = [order EXCEPT !.tenders = all, !.applied = rest]
    BY <1>3 DEF rest
  <2>3. paid \in OrderRecords
    BY <1>1, <1>2, <2>1, <2>2 DEF OrderRecords
  <2>4. /\ paid.lines = order.lines /\ paid.total = order.total
        /\ paid.applied = rest /\ paid.tenders = all
        /\ paid.fulfillments = order.fulfillments
    BY <1>1, <2>2 DEF OrderRecords
  <2> QED
    BY <2>3, <2>4 DEF rest
<1>8. Sound(paid, n)
  BY <1>5, <1>7 DEF Sound
<1>9. /\ Sound(Complete(paid), n) /\ SameBut(Complete(paid), paid)
      /\ Complete(paid).tenders = paid.tenders
  BY <1>8, CompleteSound
<1> QED
  BY <1>6, <1>7, <1>8, <1>9 DEF SameBut, all

-----------------------------------------------------------------------------
(* The inductive invariant.                                                *)

\* Payment p counts as captured for order o.
CapturedFor(pays, p, o) ==
  pays[p] # None /\ pays[p].status = "COMPLETED" /\ pays[p].order = o

\* The tenders of an order are its captured payments, each once.
Matches(tenders, o, pays) ==
  /\ \A p \in Payments : (\E i \in DOMAIN tenders : tenders[i] = p) <=> CapturedFor(pays, p, o)
  /\ \A i, j \in DOMAIN tenders : tenders[i] = tenders[j] /\ i # j => tenders[i] = Opaque

OrdersSound == \A o \in Held : Sound(orders[o], drawn)
OrdersMatch == \A o \in Held : Matches(orders[o].tenders, o, payments)

\* A payment never names an order that does not exist.
PaymentsPoint == \A p \in Taken : payments[p].order \in Held \cup {None}

IInv == TypeOK /\ OrdersSound /\ OrdersMatch /\ PaymentsPoint

LEMMA MatchesIsTendersMatch == OrdersMatch <=> TendersMatchCaptures
  BY DEF OrdersMatch, TendersMatchCaptures, Matches, CapturedFor, Taken, Held

(* An order is read only through which payments are captured for it.       *)
LEMMA MatchesSame ==
  ASSUME NEW tenders, NEW o, NEW pays, NEW others, Matches(tenders, o, pays),
         \A p \in Payments : CapturedFor(pays, p, o) <=> CapturedFor(others, p, o)
  PROVE  Matches(tenders, o, others)
  BY DEF Matches

(* Payments that were not captured for the order become its tenders.       *)
LEMMA MatchesMore ==
  ASSUME SquareAssumption, NEW tenders \in Seq(Payments \cup {Opaque}), NEW o, NEW pays, NEW others,
         NEW ids \in Seq(Payments), Matches(tenders, o, pays),
         \A i, j \in 1..Len(ids) : ids[i] = ids[j] => i = j,
         \A i \in 1..Len(ids) : ~CapturedFor(pays, ids[i], o) /\ CapturedFor(others, ids[i], o),
         \A p \in Payments : (\A i \in 1..Len(ids) : ids[i] # p) =>
           (CapturedFor(pays, p, o) <=> CapturedFor(others, p, o))
  PROVE  Matches(tenders \o ids, o, others)
<1> DEFINE all == tenders \o ids
           N == Len(tenders)
           M == Len(ids)
<1>1. N \in Nat /\ M \in Nat /\ DOMAIN tenders = 1..N /\ \A i \in 1..M : ids[i] \in Payments
  BY LenProperties, ElementOfSeq
<1>2. ids \in Seq(Payments \cup {Opaque})
  BY SeqMonotonic
<1>3. /\ all \in Seq(Payments \cup {Opaque}) /\ Len(all) = N + M
      /\ \A i \in 1..(N + M) : all[i] = IF i <= N THEN tenders[i] ELSE ids[i - N]
  BY <1>2, ConcatProperties
<1>4. DOMAIN all = 1..(N + M)
  BY <1>3, LenProperties
<1> HIDE DEF all
<1>5. /\ \A i \in 1..N : i \in 1..(N + M) /\ all[i] = tenders[i]
      /\ \A i \in 1..M : N + i \in 1..(N + M) /\ all[N + i] = ids[i]
      /\ \A i \in 1..(N + M) : i \in 1..N \/ \E k \in 1..M : i = N + k
  <2>1. ASSUME NEW i \in 1..M PROVE N + i \in 1..(N + M) /\ all[N + i] = ids[i]
    <3>1. N + i \in 1..(N + M) /\ ~(N + i <= N) /\ (N + i) - N = i
      BY <1>1
    <3> QED
      BY <1>3, <3>1
  <2>2. ASSUME NEW i \in 1..(N + M), i \notin 1..N PROVE \E k \in 1..M : i = N + k
    <3>1. i - N \in 1..M /\ i = N + (i - N)
      BY <1>1, <2>2
    <3> QED
      BY <3>1
  <2>3. \A i \in 1..N : i \in 1..(N + M) /\ all[i] = tenders[i]
    BY <1>1, <1>3
  <2> QED
    BY <2>1, <2>2, <2>3
<1> HIDE DEF N, M
<1>6. ASSUME NEW p \in Payments
      PROVE  (\E i \in 1..(N + M) : all[i] = p) <=> CapturedFor(others, p, o)
  <2>1. (\E i \in 1..(N + M) : all[i] = p)
          <=> (\E i \in 1..N : tenders[i] = p) \/ (\E i \in 1..M : ids[i] = p)
    BY <1>5
  <2>2. (\E i \in 1..N : tenders[i] = p) <=> CapturedFor(pays, p, o)
    BY <1>1 DEF Matches
  <2> QED
    BY <2>1, <2>2 DEF M
<1>7. \A i \in 1..N : \A k \in 1..M : tenders[i] # ids[k]
  <2> SUFFICES ASSUME NEW i \in 1..N, NEW k \in 1..M, tenders[i] = ids[k] PROVE FALSE
    OBVIOUS
  <2>1. CapturedFor(pays, ids[k], o)
    BY <1>1 DEF Matches
  <2> QED
    BY <2>1 DEF M
<1>8. \A i, j \in 1..N : tenders[i] = tenders[j] /\ i # j => tenders[i] = Opaque
  BY <1>1 DEF Matches
<1>9. \A i, j \in 1..M : ids[i] = ids[j] => i = j
  BY DEF M
<1>10. ASSUME NEW i \in 1..(N + M), NEW j \in 1..(N + M), all[i] = all[j], i # j
       PROVE  all[i] = Opaque
  <2>1. CASE i \in 1..N /\ j \in 1..N
    BY <1>5, <1>8, <1>10, <2>1
  <2>2. CASE i \in 1..N /\ j \notin 1..N
    BY <1>5, <1>7, <1>10, <2>2
  <2>3. CASE i \notin 1..N /\ j \in 1..N
    BY <1>5, <1>7, <1>10, <2>3
  <2>4. CASE i \notin 1..N /\ j \notin 1..N
    BY <1>5, <1>9, <1>10, <2>4
  <2> QED
    BY <2>1, <2>2, <2>3, <2>4
<1>11. Matches(all, o, others)
  BY <1>4, <1>6, <1>10 DEF Matches
<1> QED
  BY <1>11 DEF all

(* Opaque tenders, and none at all, are nobody's payment.                  *)
LEMMA MatchesOpaque ==
  ASSUME SquareAssumption, NEW tenders \in Seq(Payments \cup {Opaque}), NEW o, NEW pays,
         Matches(tenders, o, pays), NEW n \in Nat
  PROVE  /\ Matches(tenders \o [i \in 1..n |-> Opaque], o, pays)
         /\ Matches(tenders \o <<>>, o, pays)
<1> DEFINE opaque == [i \in 1..n |-> Opaque]
           all == tenders \o opaque
           N == Len(tenders)
<1>1. N \in Nat /\ DOMAIN tenders = 1..N
  BY LenProperties
<1>2. opaque \in Seq(Payments \cup {Opaque}) /\ Len(opaque) = n /\ \A i \in 1..n : opaque[i] = Opaque
  <2>1. opaque \in [1..n -> Payments \cup {Opaque}] /\ \A i \in 1..n : opaque[i] = Opaque
    OBVIOUS
  <2> HIDE DEF opaque
  <2> QED
    BY <2>1, IsASequence
<1> HIDE DEF opaque
<1>3. /\ all \in Seq(Payments \cup {Opaque}) /\ Len(all) = N + n
      /\ \A i \in 1..(N + n) : all[i] = IF i <= N THEN tenders[i] ELSE opaque[i - N]
  BY <1>2, ConcatProperties
<1>4. DOMAIN all = 1..(N + n)
  BY <1>3, LenProperties
<1> HIDE DEF all, N
<1>5. /\ \A i \in 1..N : i \in 1..(N + n) /\ all[i] = tenders[i]
      /\ \A i \in 1..(N + n) : i \in 1..N \/ all[i] = Opaque
  <2>1. ASSUME NEW i \in 1..(N + n), i \notin 1..N PROVE all[i] = Opaque
    <3>1. ~(i <= N) /\ i - N \in 1..n
      BY <1>1, <2>1
    <3> QED
      BY <1>2, <1>3, <3>1
  <2>2. ASSUME NEW i \in 1..N PROVE i \in 1..(N + n) /\ all[i] = tenders[i]
    <3>1. i \in 1..(N + n) /\ i <= N
      BY <1>1
    <3> QED
      BY <1>3, <3>1
  <2> QED
    BY <2>1, <2>2
<1>6. \A p \in Payments : p # Opaque
  BY DEF SquareAssumption
<1>7. Matches(all, o, pays)
  BY <1>1, <1>4, <1>5, <1>6 DEF Matches
<1>8. tenders \o <<>> = tenders
  BY ConcatEmptySeq
<1> QED
  BY <1>7, <1>8 DEF all, opaque

(* Writing one order: what holds of it holds of the orders.                *)
LEMMA WriteSound ==
  ASSUME SquareAssumption, MarkerAssumption, IInv, NEW o \in Orders, NEW order,
         orders' = [orders EXCEPT ![o] = order],
         drawn' \in Nat, drawn <= drawn', Sound(order, drawn')
  PROVE  /\ orders' \in [Orders -> OrderRecords \cup {None}]
         /\ OrdersSound'
         /\ Held' = Held \cup {o}
         /\ orders'[o] = order
         /\ \A x \in Orders : x # o => orders'[x] = orders[x]
<1>1. order \in OrderRecords /\ order # None
  BY DEF Sound, MarkerAssumption
<1>2. orders \in [Orders -> OrderRecords \cup {None}] /\ drawn \in Nat
  BY DEF IInv, TypeOK
<1>3. orders'[o] = order /\ \A x \in Orders : x # o => orders'[x] = orders[x]
  BY <1>2
<1>4. Held' = Held \cup {o}
  BY <1>1, <1>3 DEF Held
<1>5. OrdersSound'
  <2> SUFFICES ASSUME NEW x \in Held' PROVE Sound(orders'[x], drawn')
    BY DEF OrdersSound
  <2>1. CASE x = o
    BY <1>3, <2>1
  <2>2. CASE x # o
    <3>1. x \in Orders /\ x \in Held /\ orders'[x] = orders[x]
      BY <1>3, <1>4, <2>2 DEF Held
    <3> QED
      BY <1>2, <3>1, SoundGrows DEF IInv, OrdersSound
  <2> QED
    BY <2>1, <2>2
<1> QED
  BY <1>1, <1>2, <1>3, <1>4, <1>5

(* An order rewritten with its tenders unchanged, or a new one without.    *)
LEMMA WriteInv ==
  ASSUME SquareAssumption, MarkerAssumption, IInv, NEW o \in Orders, NEW order,
         orders' = [orders EXCEPT ![o] = order],
         drawn' \in 0..MaxDraws, drawn <= drawn', Sound(order, drawn'),
         payments' = payments,
         Matches(order.tenders, o, payments)
  PROVE  IInv'
<1>1. /\ orders' \in [Orders -> OrderRecords \cup {None}]
      /\ OrdersSound' /\ Held' = Held \cup {o} /\ orders'[o] = order
      /\ \A x \in Orders : x # o => orders'[x] = orders[x]
  <2>1. drawn' \in Nat
    BY DEF SquareAssumption
  <2> QED
    BY <2>1, WriteSound
<1>2. TypeOK'
  BY <1>1 DEF IInv, TypeOK
<1>3. OrdersMatch'
  BY <1>1 DEF IInv, OrdersMatch, Held
<1>4. PaymentsPoint'
  BY <1>1 DEF IInv, PaymentsPoint, Taken
<1> QED
  BY <1>1, <1>2, <1>3, <1>4 DEF IInv

-----------------------------------------------------------------------------
(* Paying an order.                                                        *)

LEMMA Payables ==
  /\ \A s \in States : CanTransition(ORDER_MACHINE, s, "COMPLETED") => IsMutable(ORDER_MACHINE, s)
  /\ \A s \in DOMAIN PAYMENT_MACHINE.to : \A t :
       CanTransition(PAYMENT_MACHINE, s, t) => s = "APPROVED"
  /\ \A s \in DOMAIN FULFILLMENT_MACHINE.to : \A t :
       CanTransition(FULFILLMENT_MACHINE, s, t) =>
         ~IsTerminal(FULFILLMENT_MACHINE, s) /\ t \in DOMAIN FULFILLMENT_MACHINE.to
<1>1. \A s \in States : CanTransition(ORDER_MACHINE, s, "COMPLETED") => IsMutable(ORDER_MACHINE, s)
  BY DEF States, ORDER_MACHINE, CanTransition, IsMutable, IsTerminal
<1>2. \A s \in DOMAIN PAYMENT_MACHINE.to : \A t :
        CanTransition(PAYMENT_MACHINE, s, t) => s = "APPROVED"
  BY DEF PAYMENT_MACHINE, CanTransition
<1>3. \A s \in DOMAIN FULFILLMENT_MACHINE.to : \A t :
        CanTransition(FULFILLMENT_MACHINE, s, t) =>
          ~IsTerminal(FULFILLMENT_MACHINE, s) /\ t \in DOMAIN FULFILLMENT_MACHINE.to
  BY DEF FULFILLMENT_MACHINE, CanTransition, IsTerminal
<1> QED
  BY <1>1, <1>2, <1>3

LEMMA HeldIs ==
  ASSUME IInv, NEW o \in Held
  PROVE  /\ o \in Orders /\ orders[o] \in OrderRecords /\ Sound(orders[o], drawn)
         /\ orders[o].tenders \in Seq(Payments \cup {Opaque})
         /\ Matches(orders[o].tenders, o, payments)
  BY DEF Held, IInv, TypeOK, OrdersSound, OrdersMatch, OrderRecords

LEMMA DueIs ==
  ASSUME IInv, NEW o \in Held
  PROVE  amount_due(orders[o]) \in Nat
<1>1. orders[o].total \in Int /\ orders[o].applied \in Int
  BY HeldIs DEF OrderRecords
<1> QED
  BY <1>1 DEF amount_due, Larger

LEMMA DrawsIs ==
  ASSUME SquareAssumption, IInv, NEW n \in Nat, Draws(n)
  PROVE  drawn' \in 0..MaxDraws /\ drawn' \in Nat /\ drawn <= drawn' /\ drawn' = drawn + n
  BY DEF SquareAssumption, IInv, TypeOK, Draws

(* One order takes payments as tenders that were not captured for it.      *)
LEMMA TakeInv ==
  ASSUME SquareAssumption, MarkerAssumption, IInv, NEW o \in Held,
         NEW ids \in Seq(Payments), NEW amount \in Nat, amount <= amount_due(orders[o]),
         \A i, j \in 1..Len(ids) : ids[i] = ids[j] => i = j,
         \A i \in 1..Len(ids) : ~(\E x : CapturedFor(payments, ids[i], x)),
         orders' = [orders EXCEPT ![o] = ApplyTenders(@, ids, amount)],
         payments' \in [Payments -> PaymentRecords \cup {None}],
         \A i \in 1..Len(ids) : CapturedFor(payments', ids[i], o),
         \A p \in Payments : (\A i \in 1..Len(ids) : ids[i] # p) => payments'[p] = payments[p],
         drawn' \in 0..MaxDraws, drawn <= drawn'
  PROVE  IInv'
<1> DEFINE order == ApplyTenders(orders[o], ids, amount)
<1>1. /\ o \in Orders /\ orders[o] \in OrderRecords /\ Sound(orders[o], drawn)
      /\ orders[o].tenders \in Seq(Payments \cup {Opaque})
      /\ Matches(orders[o].tenders, o, payments)
  BY HeldIs
<1>2. drawn \in Nat /\ drawn' \in Nat /\ ids \in Seq(Payments \cup {Opaque})
  BY SeqMonotonic DEF SquareAssumption, IInv, TypeOK
<1>3. Sound(orders[o], drawn')
  BY <1>1, <1>2, SoundGrows
<1>4. Sound(order, drawn') /\ order.tenders = orders[o].tenders \o ids
  <2> DEFINE old == orders[o]
             n == drawn'
  <2>1. Sound(old, n) /\ amount <= amount_due(old) /\ n \in Nat
    BY <1>2, <1>3
  <2> HIDE DEF old, n
  <2>2. /\ Sound(ApplyTenders(old, ids, amount), n)
        /\ ApplyTenders(old, ids, amount).tenders = old.tenders \o ids
    BY ONLY <1>2, <2>1, amount \in Nat, SquareAssumption, ApplySound
  <2> QED
    BY <2>2 DEF old, n
<1>5. orders' = [orders EXCEPT ![o] = order]
  BY <1>1 DEF IInv, TypeOK
<1> HIDE DEF order
<1>6. /\ orders' \in [Orders -> OrderRecords \cup {None}]
      /\ OrdersSound' /\ Held' = Held \cup {o} /\ orders'[o] = order
      /\ \A x \in Orders : x # o => orders'[x] = orders[x]
  BY <1>1, <1>2, <1>4, <1>5, WriteSound
<1>7. TypeOK'
  BY <1>6 DEF TypeOK
<1>8. OrdersMatch'
  <2> SUFFICES ASSUME NEW x \in Held' PROVE Matches(orders'[x].tenders, x, payments')
    BY DEF OrdersMatch
  <2>1. CASE x = o
    <3>1. Matches(orders[o].tenders \o ids, o, payments')
      <4>1. \A p \in Payments : (\A i \in 1..Len(ids) : ids[i] # p) =>
              (CapturedFor(payments, p, o) <=> CapturedFor(payments', p, o))
        BY DEF CapturedFor
      <4> QED
        BY <1>1, <4>1, MatchesMore
    <3> QED
      BY <1>4, <1>6, <2>1, <3>1
  <2>2. CASE x # o
    <3>1. x \in Held /\ orders'[x] = orders[x]
      BY <1>6, <2>2 DEF Held
    <3>2. ASSUME NEW p \in Payments
          PROVE  CapturedFor(payments, p, x) <=> CapturedFor(payments', p, x)
      <4>1. CASE \E i \in 1..Len(ids) : ids[i] = p
        <5>1. PICK i \in 1..Len(ids) : ids[i] = p
          BY <4>1
        <5>2. ~CapturedFor(payments, p, x) /\ CapturedFor(payments', p, o)
          BY <5>1
        <5> QED
          BY <2>2, <5>2 DEF CapturedFor
      <4>2. CASE ~(\E i \in 1..Len(ids) : ids[i] = p)
        BY <4>2 DEF CapturedFor
      <4> QED
        BY <4>1, <4>2
    <3>3. Matches(orders[x].tenders, x, payments)
      BY <3>1, HeldIs
    <3>4. Matches(orders[x].tenders, x, payments')
      BY <3>2, <3>3, MatchesSame
    <3> QED
      BY <3>1, <3>4
  <2> QED
    BY <2>1, <2>2
<1>9. PaymentsPoint'
  <2> SUFFICES ASSUME NEW p \in Payments, payments'[p] # None
               PROVE  payments'[p].order \in Held' \cup {None}
    BY DEF PaymentsPoint, Taken
  <2>1. CASE \E i \in 1..Len(ids) : ids[i] = p
    BY <1>6, <2>1 DEF CapturedFor
  <2>2. CASE ~(\E i \in 1..Len(ids) : ids[i] = p)
    BY <1>6, <2>2 DEF IInv, PaymentsPoint, Taken
  <2> QED
    BY <2>1, <2>2
<1> QED
  BY <1>6, <1>7, <1>8, <1>9 DEF IInv

LEMMA PayWithPaymentsInv ==
  ASSUME SquareAssumption, MarkerAssumption, IInv, NEW o \in Orders,
         NEW ids \in Seq(Payments), PayWithPayments(o, ids)
  PROVE  IInv'
<1> DEFINE due == amount_due(orders[o])
<1>1. o \in Held /\ due \in Nat /\ due <= due
  BY DueIs DEF PayWithPayments, PayableNow
<1>2. Len(ids) \in Nat /\ DOMAIN ids = 1..Len(ids) /\ \A i \in 1..Len(ids) : ids[i] \in Payments
  BY LenProperties, ElementOfSeq
<1>3. /\ drawn' \in 0..MaxDraws /\ drawn <= drawn'
  BY <1>2, DrawsIs DEF PayWithPayments
<1>4. /\ \A i \in 1..Len(ids) : /\ ids[i] \in Taken /\ payments[ids[i]].status = "APPROVED"
                                /\ ~(\E x : CapturedFor(payments, ids[i], x))
      /\ \A i, j \in 1..Len(ids) : ids[i] = ids[j] => i = j
  BY <1>2 DEF PayWithPayments, Resolves, CapturedFor
<1>5. /\ \A p \in Payments : (\A i \in 1..Len(ids) : ids[i] # p) => payments'[p] = payments[p]
      /\ \A i \in 1..Len(ids) : payments'[ids[i]] = Captured(ids[i], o)
      /\ payments' = [p \in Payments |-> payments'[p]]
  BY <1>2 DEF PayWithPayments
<1>6. ASSUME NEW i \in 1..Len(ids)
      PROVE  Captured(ids[i], o) \in PaymentRecords /\ CapturedFor(payments', ids[i], o)
  <2>1. payments[ids[i]] \in PaymentRecords
    BY <1>4 DEF IInv, TypeOK, Taken
  <2>2. "COMPLETED" \in DOMAIN PAYMENT_MACHINE.to
    BY DEF PAYMENT_MACHINE
  <2>3. /\ Captured(ids[i], o) \in PaymentRecords
        /\ Captured(ids[i], o).status = "COMPLETED" /\ Captured(ids[i], o).order = o
    BY <2>1, <2>2 DEF Captured, PaymentRecords
  <2> QED
    BY <1>5, <2>3 DEF CapturedFor, MarkerAssumption
<1>7. payments' \in [Payments -> PaymentRecords \cup {None}]
  BY <1>5, <1>6 DEF IInv, TypeOK
<1>8. orders' = [orders EXCEPT ![o] = ApplyTenders(@, ids, due)]
  BY DEF PayWithPayments
<1> HIDE DEF due
<1>9. due <= amount_due(orders[o])
  BY <1>1 DEF due
<1> QED
  BY <1>1, <1>3, <1>4, <1>5, <1>6, <1>7, <1>8, <1>9, TakeInv

(* An opaque tender carries the due; a payment of nothing carries none.    *)
LEMMA PayOtherwiseInv ==
  ASSUME SquareAssumption, MarkerAssumption, IInv, NEW o \in Orders, NEW n \in Nat,
         PayOpaque(o, n) \/ PayNothing(o)
  PROVE  IInv'
<1> DEFINE opaque == [i \in 1..n |-> Opaque]
           tender == IF PayOpaque(o, n) THEN opaque ELSE <<>>
           due == IF PayOpaque(o, n) THEN amount_due(orders[o]) ELSE 0
           order == ApplyTenders(orders[o], tender, due)
<1>1. o \in Held
  BY DEF PayOpaque, PayNothing, PayableNow
<1>2. /\ o \in Orders /\ orders[o] \in OrderRecords /\ Sound(orders[o], drawn)
      /\ orders[o].tenders \in Seq(Payments \cup {Opaque})
      /\ Matches(orders[o].tenders, o, payments)
  BY <1>1, HeldIs
<1>3. amount_due(orders[o]) \in Nat
  BY <1>1, DueIs
<1>4. tender \in Seq(Payments \cup {Opaque}) /\ due \in Nat /\ due <= amount_due(orders[o])
  <2>1. opaque \in Seq(Payments \cup {Opaque}) /\ <<>> \in Seq(Payments \cup {Opaque})
    <3>1. opaque \in [1..n -> Payments \cup {Opaque}]
      OBVIOUS
    <3> HIDE DEF opaque
    <3> QED
      BY <3>1, IsASequence, EmptySeq
  <2>2. tender = opaque \/ tender = <<>>
    OBVIOUS
  <2>3. due = amount_due(orders[o]) \/ due = 0
    OBVIOUS
  <2> HIDE DEF tender, due, opaque
  <2>4. tender \in Seq(Payments \cup {Opaque})
    BY <2>1, <2>2
  <2>5. due \in Nat /\ due <= amount_due(orders[o])
    BY <1>3, <2>3
  <2> QED
    BY <2>4, <2>5
<1>5. Matches(orders[o].tenders \o tender, o, payments)
  BY <1>2, MatchesOpaque
<1>6. orders' = [orders EXCEPT ![o] = order] /\ payments' = payments
  BY <1>2 DEF PayOpaque, PayNothing, IInv, TypeOK
<1>7. drawn' \in 0..MaxDraws /\ drawn <= drawn' /\ drawn \in Nat /\ drawn' \in Nat
  BY DrawsIs DEF PayOpaque, PayNothing, IInv, TypeOK, SquareAssumption
<1> HIDE DEF tender, due
<1>8. Sound(orders[o], drawn')
  BY <1>2, <1>7, SoundGrows
<1>9. Sound(order, drawn') /\ order.tenders = orders[o].tenders \o tender
  BY <1>4, <1>7, <1>8, ApplySound
<1> HIDE DEF order
<1> QED
  BY <1>2, <1>5, <1>6, <1>7, <1>9, WriteInv

-----------------------------------------------------------------------------
(* Payments.                                                               *)

LEMMA SinglePayment ==
  ASSUME NEW p \in Payments
  PROVE  <<p>> \in Seq(Payments) /\ Len(<<p>>) = 1 /\ <<p>>[1] = p
  OBVIOUS

(* A payment changes and no order does.                                    *)
LEMMA PaymentOnlyInv ==
  ASSUME SquareAssumption, MarkerAssumption, IInv, NEW p \in Payments, NEW payment \in PaymentRecords,
         payments' = [payments EXCEPT ![p] = payment], orders' = orders,
         drawn' \in 0..MaxDraws, drawn <= drawn',
         payment.order \in Held \cup {None},
         payment.status = "COMPLETED" => payment.order = None,
         \A o \in Held : ~CapturedFor(payments, p, o)
  PROVE  IInv'
<1>1. /\ payments'[p] = payment /\ payment # None
      /\ \A q \in Payments : q # p => payments'[q] = payments[q]
      /\ payments' \in [Payments -> PaymentRecords \cup {None}]
  BY DEF IInv, TypeOK, MarkerAssumption
<1>2. Held' = Held /\ None \notin Held
  BY DEF Held, SquareAssumption
<1>3. TypeOK'
  BY <1>1 DEF IInv, TypeOK
<1>4. OrdersSound'
  <2> SUFFICES ASSUME NEW o \in Held PROVE Sound(orders[o], drawn')
    BY <1>2 DEF OrdersSound
  <2>1. drawn \in Nat /\ drawn' \in Nat /\ Sound(orders[o], drawn)
    BY DEF IInv, TypeOK, OrdersSound, SquareAssumption
  <2> QED
    BY <2>1, SoundGrows
<1>5. OrdersMatch'
  <2> SUFFICES ASSUME NEW o \in Held PROVE Matches(orders[o].tenders, o, payments')
    BY <1>2 DEF OrdersMatch
  <2>1. ~CapturedFor(payments, p, o)
    OBVIOUS
  <2>2. ~CapturedFor(payments', p, o)
    BY <1>1, <1>2 DEF CapturedFor
  <2>3. \A q \in Payments : CapturedFor(payments, q, o) <=> CapturedFor(payments', q, o)
    <3> SUFFICES ASSUME NEW q \in Payments
                 PROVE  CapturedFor(payments, q, o) <=> CapturedFor(payments', q, o)
      OBVIOUS
    <3>1. CASE q = p
      BY <2>1, <2>2, <3>1
    <3>2. CASE q # p
      BY <1>1, <3>2 DEF CapturedFor
    <3> QED
      BY <3>1, <3>2
  <2>4. Matches(orders[o].tenders, o, payments)
    BY HeldIs
  <2> QED
    BY <2>3, <2>4, MatchesSame
<1>6. PaymentsPoint'
  BY <1>1, <1>2 DEF IInv, PaymentsPoint, Taken
<1> QED
  BY <1>3, <1>4, <1>5, <1>6 DEF IInv

LEMMA HoldPaymentInv ==
  ASSUME SquareAssumption, MarkerAssumption, IInv, NEW p \in Payments, NEW o \in Orders \cup {None},
         NEW amount \in Amounts, HoldPayment(p, o, amount)
  PROVE  IInv'
<1> DEFINE payment == [status |-> "APPROVED", amount |-> amount, order |-> o]
<1>1. payment \in PaymentRecords
  BY DEF PaymentRecords, PAYMENT_MACHINE
<1>2. /\ payments' = [payments EXCEPT ![p] = payment] /\ orders' = orders
      /\ \A x \in Held : ~CapturedFor(payments, p, x)
      /\ o \in Held \cup {None}
  BY DEF HoldPayment, CapturedFor, Payable
<1>3. payment.order = o /\ payment.status # "COMPLETED"
  OBVIOUS
<1>4. drawn' \in 0..MaxDraws /\ drawn <= drawn'
  BY DrawsIs DEF HoldPayment
<1> HIDE DEF payment
<1> QED
  BY <1>1, <1>2, <1>3, <1>4, PaymentOnlyInv

(* One captured payment becomes the tender of its order.                   *)
LEMMA CaptureInv ==
  ASSUME SquareAssumption, MarkerAssumption, IInv, NEW p \in Payments, NEW o \in Held,
         NEW payment \in PaymentRecords,
         payment.status = "COMPLETED", payment.order = o,
         ~(\E x : CapturedFor(payments, p, x)),
         WithinDue(o, payment.amount),
         payments' = [payments EXCEPT ![p] = payment],
         orders' = [orders EXCEPT ![o] = ApplyTenders(@, <<p>>, payment.amount)],
         drawn' \in 0..MaxDraws, drawn <= drawn'
  PROVE  IInv'
<1> DEFINE ids == <<p>>
           amount == payment.amount
<1>1. ids \in Seq(Payments) /\ Len(ids) = 1 /\ ids[1] = p
  BY SinglePayment
<1>2. amount \in Nat /\ amount <= amount_due(orders[o])
  BY DEF PaymentRecords, SquareAssumption, WithinDue
<1>3. /\ payments'[p] = payment /\ payment # None
      /\ \A q \in Payments : q # p => payments'[q] = payments[q]
      /\ payments' \in [Payments -> PaymentRecords \cup {None}]
  BY DEF IInv, TypeOK, MarkerAssumption
<1>4. CapturedFor(payments', p, o)
  BY <1>3 DEF CapturedFor
<1> HIDE DEF ids, amount
<1>5. \A i \in 1..Len(ids) : i = 1 /\ ids[i] = p
  BY <1>1
<1>6. 1 \in 1..Len(ids)
  BY <1>1
<1>7. \A q \in Payments : (\A i \in 1..Len(ids) : ids[i] # q) => payments'[q] = payments[q]
  BY <1>1, <1>3, <1>6
<1>8. /\ \A i, j \in 1..Len(ids) : ids[i] = ids[j] => i = j
      /\ \A i \in 1..Len(ids) : ~(\E x : CapturedFor(payments, ids[i], x))
      /\ \A i \in 1..Len(ids) : CapturedFor(payments', ids[i], o)
  BY <1>4, <1>5
<1>9. orders' = [orders EXCEPT ![o] = ApplyTenders(@, ids, amount)]
  BY DEF ids, amount
<1> QED
  BY ONLY <1>1, <1>2, <1>3, <1>7, <1>8, <1>9, TakeInv, SquareAssumption, MarkerAssumption, IInv, o \in Held,
     drawn' \in 0..MaxDraws, drawn <= drawn'

LEMMA TakePaymentInv ==
  ASSUME SquareAssumption, MarkerAssumption, IInv, NEW p \in Payments, NEW o \in Orders \cup {None},
         NEW amount \in Amounts, TakePayment(p, o, amount)
  PROVE  IInv'
<1> DEFINE payment == [status |-> "COMPLETED", amount |-> amount, order |-> o]
<1>1. payment \in PaymentRecords
  BY DEF PaymentRecords, PAYMENT_MACHINE
<1>2. /\ payments' = [payments EXCEPT ![p] = payment]
      /\ ~(\E x : CapturedFor(payments, p, x))
      /\ o # None => o \in Held /\ WithinDue(o, amount)
  BY DEF TakePayment, CapturedFor, Payable
<1>3. payment.order = o /\ payment.status = "COMPLETED" /\ payment.amount = amount
  OBVIOUS
<1>4. drawn' \in 0..MaxDraws /\ drawn <= drawn'
  <2>1. 1 \in Nat /\ 2 \in Nat
    OBVIOUS
  <2> QED
    BY <2>1, DrawsIs DEF TakePayment
<1> HIDE DEF payment
<1>5. CASE o = None
  <2>1. orders' = orders
    BY <1>5 DEF TakePayment
  <2> QED
    BY <1>1, <1>2, <1>3, <1>4, <1>5, <2>1, PaymentOnlyInv
<1>6. CASE o # None
  <2>1. orders' = [orders EXCEPT ![o] = ApplyTenders(@, <<p>>, payment.amount)]
    BY <1>3, <1>6 DEF TakePayment
  <2> QED
    BY <1>1, <1>2, <1>3, <1>4, <1>6, <2>1, CaptureInv
<1> QED
  BY <1>5, <1>6

LEMMA CompletePaymentInv ==
  ASSUME SquareAssumption, MarkerAssumption, IInv, NEW p \in Payments, CompletePayment(p)
  PROVE  IInv'
<1> DEFINE o == payments[p].order
           payment == Captured(p, o)
<1>1. p \in Taken /\ payments[p] \in PaymentRecords /\ payments[p].status = "APPROVED"
  BY Payables DEF CompletePayment, Taken, IInv, TypeOK, PaymentRecords
<1>2. "COMPLETED" \in DOMAIN PAYMENT_MACHINE.to /\ o \in Orders \cup {None}
  BY <1>1 DEF PAYMENT_MACHINE, PaymentRecords
<1>3. /\ payment \in PaymentRecords /\ payment.status = "COMPLETED" /\ payment.order = o
      /\ payment.amount = payments[p].amount
  BY <1>1, <1>2 DEF PaymentRecords, Captured
<1>4. /\ payments' = [payments EXCEPT ![p] = payment]
      /\ ~(\E x : CapturedFor(payments, p, x))
      /\ o # None => o \in Held /\ WithinDue(o, payments[p].amount)
  BY <1>1 DEF CompletePayment, CapturedFor, Payable
<1>5. drawn' \in 0..MaxDraws /\ drawn <= drawn'
  <2>1. 0 \in Nat /\ 1 \in Nat
    OBVIOUS
  <2> QED
    BY <2>1, DrawsIs DEF CompletePayment
<1>6. orders' = IF o = None THEN orders
                ELSE [orders EXCEPT ![o] = ApplyTenders(@, <<p>>, payments[p].amount)]
  BY DEF CompletePayment
<1> HIDE DEF payment, o
<1>7. CASE o = None
  BY <1>3, <1>4, <1>5, <1>6, <1>7, PaymentOnlyInv
<1>8. CASE o # None
  <2>1. orders' = [orders EXCEPT ![o] = ApplyTenders(@, <<p>>, payment.amount)]
    BY <1>3, <1>6, <1>8
  <2>2. o \in Held /\ WithinDue(o, payment.amount)
    BY <1>3, <1>4, <1>8
  <2> QED
    BY <1>3, <1>4, <1>5, <2>1, <2>2, CaptureInv
<1> QED
  BY <1>7, <1>8

LEMMA CancelPaymentInv ==
  ASSUME SquareAssumption, MarkerAssumption, IInv, NEW p \in Payments, CancelPayment(p)
  PROVE  IInv'
<1> DEFINE payment == [payments[p] EXCEPT !.status = "CANCELED"]
<1>1. p \in Taken /\ payments[p] \in PaymentRecords /\ payments[p].status = "APPROVED"
  BY Payables DEF CancelPayment, Taken, IInv, TypeOK, PaymentRecords
<1>2. "CANCELED" \in DOMAIN PAYMENT_MACHINE.to
  BY DEF PAYMENT_MACHINE
<1>3. /\ payment \in PaymentRecords /\ payment.status # "COMPLETED"
      /\ payment.order = payments[p].order
  BY <1>1, <1>2 DEF PaymentRecords
<1>4. /\ payments' = [payments EXCEPT ![p] = payment] /\ orders' = orders /\ drawn' = drawn
      /\ \A o \in Held : ~CapturedFor(payments, p, o)
  BY <1>1 DEF CancelPayment, CapturedFor, IInv, TypeOK
<1>5. drawn' \in 0..MaxDraws /\ drawn <= drawn' /\ payment.order \in Held \cup {None}
  BY <1>1, <1>3, <1>4 DEF IInv, TypeOK, PaymentsPoint, SquareAssumption
<1> HIDE DEF payment
<1> QED
  BY <1>3, <1>4, <1>5, PaymentOnlyInv

-----------------------------------------------------------------------------
(* Creating an order.                                                      *)

(* What the worths and names of the entries are is the type of the list.   *)
LEMMA Retyped ==
  ASSUME NEW U, NEW V, NEW list \in Seq([uid : U, v : V]), NEW T, NEW W,
         \A i \in 1..Len(list) : list[i].uid \in T /\ list[i].v \in W
  PROVE  list \in Seq([uid : T, v : W])
<1> DEFINE N == Len(list)
<1>1. N \in Nat /\ list \in [1..N -> [uid : U, v : V]]
  BY LenProperties
<1>2. ASSUME NEW i \in 1..N PROVE list[i] \in [uid : T, v : W]
  <2>1. list[i] \in [uid : U, v : V]
    BY <1>1
  <2> QED
    BY <2>1
<1> HIDE DEF N
<1>3. list \in [1..N -> [uid : T, v : W]]
  BY <1>1, <1>2
<1> QED
  BY <1>1, <1>3, IsASequence

LEMMA EntryOf ==
  ASSUME NEW U, NEW V, NEW list \in Seq([uid : U, v : V]), NEW i \in 1..Len(list)
  PROVE  list[i].uid \in U /\ list[i].v \in V
<1>1. list[i] \in [uid : U, v : V]
  BY ElementOfSeq
<1> QED
  BY <1>1

LEMMA MintedUids ==
  ASSUME NEW U \in SUBSET Int, NEW V, NEW patches \in Seq([uid : U, v : V]), NEW start \in Nat
  PROVE  Uids(Minted(patches, start)) \subseteq
           (U \ {Unnamed}) \cup (start + 1)..(start + UnnamedIn(patches))
<1> DEFINE new == Minted(patches, start)
<1>1. new \in Seq([uid : Int, v : V]) /\ MintedFrom(new, patches, start)
  BY MintedIs
<1> HIDE DEF new
<1>2. Uids(new) = {new[i].uid : i \in 1..Len(new)}
  BY <1>1, UidsOfSeq
<1>3. \A i \in 1..Len(patches) : patches[i].uid \in U
  BY EntryOf
<1>4. Uids(new) \subseteq (U \ {Unnamed}) \cup (start + 1)..(start + UnnamedIn(patches))
  BY <1>1, <1>2, <1>3 DEF MintedFrom
<1> QED
  BY <1>4 DEF new

(* Different names stay different if none is among the draws.              *)
LEMMA MintedDistinct ==
  ASSUME NEW U \in SUBSET Int, NEW V, NEW patches \in Seq([uid : U, v : V]), NEW start \in Nat,
         \A u \in U : u # Unnamed => u \notin (start + 1)..(start + UnnamedIn(patches)),
         \A i, j \in 1..Len(patches) :
           i # j /\ patches[i].uid = patches[j].uid => patches[i].uid = Unnamed
  PROVE  Distinct(Minted(patches, start))
<1> DEFINE new == Minted(patches, start)
<1>1. MintedFrom(new, patches, start)
  BY MintedIs
<1> HIDE DEF new
<1>2. \A i \in 1..Len(patches) : patches[i].uid \in U
  BY EntryOf
<1>3. ASSUME NEW i \in 1..Len(patches), NEW j \in 1..Len(patches), new[i].uid = new[j].uid
      PROVE  i = j
  <2>1. CASE patches[i].uid = Unnamed /\ patches[j].uid = Unnamed
    BY <1>1, <1>3, <2>1 DEF MintedFrom
  <2>2. CASE patches[i].uid # Unnamed /\ patches[j].uid # Unnamed
    <3>1. patches[i].uid = patches[j].uid
      BY <1>1, <1>3, <2>2 DEF MintedFrom
    <3> QED
      BY <2>2, <3>1
  <2>3. CASE patches[i].uid = Unnamed /\ patches[j].uid # Unnamed
    BY <1>1, <1>2, <1>3, <2>3 DEF MintedFrom
  <2>4. CASE patches[i].uid # Unnamed /\ patches[j].uid = Unnamed
    BY <1>1, <1>2, <1>3, <2>4 DEF MintedFrom
  <2> QED
    BY <2>1, <2>2, <2>3, <2>4
<1>4. Distinct(new)
  BY <1>1, <1>3 DEF Distinct, MintedFrom
<1> QED
  BY <1>4 DEF new

LEMMA StartableIs ==
  \A s : Startable(s) => s \in DOMAIN FULFILLMENT_MACHINE.to
<1>1. "PROPOSED" \in DOMAIN FULFILLMENT_MACHINE.to
  BY DEF FULFILLMENT_MACHINE
<1> QED
  BY <1>1, Payables DEF Startable

LEMMA CreateInv ==
  ASSUME SquareAssumption, MarkerAssumption, UidsApart, IInv, NEW o \in Orders, NEW state \in States,
         NEW lines \in Seq([uid : LineUids \cup {Unnamed}, v : Cents \cup {Keep}]),
         NEW fulfillments \in
           Seq([uid : FulfillmentUids \cup {Unnamed}, v : FulfillmentMoves \cup {Keep}]),
         CreateOrder(o, state, lines, fulfillments)
  PROVE  IInv'
<1> DEFINE a == UnnamedIn(lines)
           b == UnnamedIn(fulfillments)
           A == Minted(lines, drawn)
           B == Minted(fulfillments, drawn + a)
           n == drawn + (a + b + 1)
           L == LineUids \cup {Unnamed}
           F == FulfillmentUids \cup {Unnamed}
           Moves == DOMAIN FULFILLMENT_MACHINE.to
<1>1. /\ drawn \in Nat /\ MaxDraws \in Nat /\ Cents \in SUBSET Int
      /\ L \in SUBSET Int /\ F \in SUBSET Int
  BY DEF SquareAssumption, IInv, TypeOK, Unnamed
<1>2. /\ DOMAIN lines = 1..Len(lines) /\ Len(lines) \in Nat
      /\ DOMAIN fulfillments = 1..Len(fulfillments) /\ Len(fulfillments) \in Nat
  BY LenProperties
<1>3. \A i \in 1..Len(lines) : lines[i].uid \in L /\ lines[i].v \in Cents
  <2>1. \A i \in 1..Len(lines) : lines[i].uid \in L /\ lines[i].v \in Cents \cup {Keep}
    BY EntryOf
  <2> QED
    BY <1>2, <2>1 DEF CreateOrder, Whole
<1>4. \A i \in 1..Len(fulfillments) : fulfillments[i].uid \in F /\ fulfillments[i].v \in Moves
  <2>1. \A i \in 1..Len(fulfillments) : fulfillments[i].uid \in F
    BY EntryOf
  <2> QED
    BY <1>2, <2>1, StartableIs DEF CreateOrder
<1>5. lines \in Seq([uid : L, v : Cents]) /\ fulfillments \in Seq([uid : F, v : Moves])
  BY <1>3, <1>4, Retyped
<1>6. /\ a \in Nat /\ A \in Seq([uid : Int, v : Cents])
      /\ Uids(A) \subseteq (L \ {Unnamed}) \cup (drawn + 1)..(drawn + a)
      /\ Alike(A, lines)
  <2> HIDE DEF L
  <2> QED
    BY <1>1, <1>5, MintedIs, MintedUids, MintedAlike
<1>7. drawn + a \in Nat
  BY <1>1, <1>6
<1>8. /\ b \in Nat /\ B \in Seq([uid : Int, v : Moves])
      /\ Uids(B) \subseteq (F \ {Unnamed}) \cup (drawn + a + 1)..(drawn + a + b)
  <2> HIDE DEF a, F, Moves
  <2> QED
    BY <1>1, <1>5, <1>7, MintedIs, MintedUids
<1>9. a + b + 1 \in Nat
  BY <1>6, <1>8
<1>10. drawn' = n /\ n \in 0..MaxDraws /\ n \in Nat /\ drawn <= n
  <2>1. Draws(a + b + 1)
    BY DEF CreateOrder
  <2> HIDE DEF a, b
  <2> QED
    BY <1>9, <2>1, DrawsIs
<1>11. Distinct(B)
  <2>1. ASSUME NEW u \in F, u # Unnamed PROVE u \notin (drawn + a + 1)..(drawn + a + b)
    <3>1. u \in Nat /\ u > MaxDraws
      BY <2>1 DEF UidsApart
    <3> HIDE DEF a, b
    <3> QED
      BY <1>1, <1>6, <1>8, <1>10, <3>1
  <2>2. \A i, j \in 1..Len(fulfillments) :
          i # j /\ fulfillments[i].uid = fulfillments[j].uid => fulfillments[i].uid = Unnamed
    BY <1>2 DEF CreateOrder
  <2> HIDE DEF a, F, Moves
  <2> QED
    BY <1>1, <1>5, <1>7, <2>1, <2>2, MintedDistinct
<1>12. Total(A) = Total(lines) /\ Total(lines) \in Int
  <2>1. lines \in Seq([uid : Int, v : Cents])
    BY <1>1, <1>3, Retyped
  <2> HIDE DEF A
  <2> QED
    BY <1>1, <1>6, <2>1, TotalAlike, TotalType
<1> DEFINE order == [state |-> state, lines |-> A, fulfillments |-> B,
                     total |-> Total(lines), applied |-> 0, tenders |-> <<>>]
<1>13. orders[o] = None /\ orders' = [orders EXCEPT ![o] = order] /\ payments' = payments
  BY DEF CreateOrder
<1> HIDE DEF A, B, a, b
<1>14. Uids(A) \subseteq LineUids \cup 1..n /\ Uids(B) \subseteq FulfillmentUids \cup 1..n
  <2>1. (drawn + 1)..(drawn + a) \subseteq 1..n
    BY <1>1, <1>6, <1>8
  <2>2. (drawn + a + 1)..(drawn + a + b) \subseteq 1..n
    BY <1>1, <1>6, <1>8
  <2> HIDE DEF n
  <2> QED
    BY <1>6, <1>8, <2>1, <2>2
<1> HIDE DEF n
<1>15. Sound(order, n)
  <2>1. <<>> \in Seq(Payments \cup {Opaque})
    BY EmptySeq
  <2>2. order \in OrderRecords
    BY <1>6, <1>8, <1>12, <2>1 DEF OrderRecords, Entry
  <2>3. 0 \in Nat /\ 0 <= Larger(0, Total(lines))
    BY <1>12 DEF Larger
  <2>4. /\ order.lines = A /\ order.fulfillments = B
        /\ order.total = Total(lines) /\ order.applied = 0
    OBVIOUS
  <2> HIDE DEF order
  <2> QED
    BY <1>11, <1>12, <1>14, <2>2, <2>3, <2>4 DEF Sound
<1>16. Matches(order.tenders, o, payments)
  <2>1. \A p \in Payments : ~CapturedFor(payments, p, o)
    <3>1. o \notin Held /\ o # None
      BY <1>13 DEF Held, SquareAssumption
    <3> QED
      BY <3>1 DEF CapturedFor, IInv, PaymentsPoint, Taken
  <2>2. order.tenders = <<>> /\ DOMAIN <<>> = {}
    OBVIOUS
  <2> QED
    BY <2>1, <2>2 DEF Matches
<1> HIDE DEF order
<1> QED
  BY <1>10, <1>13, <1>15, <1>16, WriteInv

-----------------------------------------------------------------------------
(* Updating an order.  The dry run and the commit merge the same lines     *)
(* under different names; nothing a caller or the order names is confused  *)
(* with a placeholder or with a uid about to be drawn.                     *)

LEMMA MergeAllUids ==
  ASSUME NEW E, NEW list \in Seq(E), NEW patches \in Seq(E)
  PROVE  /\ Merge(list, patches) \in Seq(E)
         /\ Uids(Merge(list, patches)) = Uids(list) \cup Uids(patches)
<1>1. PICK after : Merges(after, E, list, patches)
  BY MergeUnfolds
<1>2. Len(patches) \in 0..Len(patches)
  BY LenProperties
<1>3. /\ Merge(list, patches) = after[Len(patches)] /\ after[Len(patches)] \in Seq(E)
  BY <1>1, <1>2 DEF Merges
<1>4. Uids(after[Len(patches)]) = Uids(list) \cup {patches[j].uid : j \in 1..Len(patches)}
  BY <1>1, <1>2, MergeUids
<1>5. Uids(patches) = {patches[j].uid : j \in 1..Len(patches)}
  BY UidsOfSeq
<1> QED
  BY <1>3, <1>4, <1>5

\* From placeholders to the uids drawn from n on.
Renaming(n) == [x \in Int |-> IF x < 0 THEN n - x ELSE x]

\* The uids a request may name once n ids have been drawn.
Known(n) == LineUids \cup 1..n

LEMMA KnownApart ==
  ASSUME SquareAssumption, UidsApart, NEW n \in Nat, NEW k \in Nat, n + k <= MaxDraws
  PROVE  /\ Known(n) \in SUBSET Nat
         /\ \A u \in Known(n) : u \notin (n + 1)..(n + k)
         /\ \A u \in Known(n) : u # Unnamed
  BY DEF SquareAssumption, UidsApart, Known, Unnamed

LEMMA RenamingApart ==
  ASSUME SquareAssumption, UidsApart, NEW n \in Nat, NEW k \in Nat, n + k <= MaxDraws,
         NEW x \in Known(n) \cup (-k)..(-1), NEW y \in Known(n) \cup (-k)..(-1),
         Renaming(n)[x] = Renaming(n)[y]
  PROVE  x = y
<1>1. /\ \A u \in Known(n) : u \in Nat /\ u \notin (n + 1)..(n + k)
  BY KnownApart
<1>2. ASSUME NEW u \in Known(n) PROVE Renaming(n)[u] = u /\ u \notin (n + 1)..(n + k)
  BY <1>1 DEF Renaming
<1>3. ASSUME NEW u \in (-k)..(-1)
      PROVE  Renaming(n)[u] = n - u /\ n - u \in (n + 1)..(n + k) /\ u \in Int
  BY DEF Renaming
<1>4. CASE x \in Known(n) /\ y \in Known(n)
  BY <1>2, <1>4
<1>5. CASE x \in Known(n) /\ y \in (-k)..(-1)
  BY <1>2, <1>3, <1>5
<1>6. CASE x \in (-k)..(-1) /\ y \in Known(n)
  BY <1>2, <1>3, <1>6
<1>7. CASE x \in (-k)..(-1) /\ y \in (-k)..(-1)
  BY <1>3, <1>7
<1> QED
  BY <1>4, <1>5, <1>6, <1>7

(* The placeholders of a request are its minted uids renamed.              *)
LEMMA PatchesRenamed ==
  ASSUME SquareAssumption, UidsApart, NEW n \in Nat, NEW V,
         NEW patches \in Seq([uid : Known(n) \cup {Unnamed}, v : V]),
         n + UnnamedIn(patches) <= MaxDraws
  PROVE  /\ Renames(Renaming(n), Placeholders(patches), Minted(patches, n))
         /\ Placeholders(patches) \in Seq([uid : Known(n) \cup (-UnnamedIn(patches))..(-1), v : V])
<1> DEFINE k == UnnamedIn(patches)
           U == Known(n) \cup (-k)..(-1)
           W == Known(n) \cup {Unnamed}
           P == Placeholders(patches)
           M == Minted(patches, n)
           N == Len(patches)
<1>1. W \in SUBSET Int
  BY DEF Known, SquareAssumption, Unnamed
<1>2. k \in Nat /\ MintedFrom(M, patches, n)
  <2> HIDE DEF W
  <2> QED
    BY <1>1, MintedIs DEF W
<1>3. /\ P \in Seq([uid : Int, v : V]) /\ Len(P) = N
      /\ \A i \in 1..N : Mirrors(P, M, patches, i, n)
  <2> HIDE DEF W
  <2> QED
    BY <1>1, PlaceholdersIs DEF W
<1>4. \A i \in 1..N : patches[i].uid \in W /\ patches[i].v \in V
  BY EntryOf
<1>5. Known(n) \in SUBSET Nat
  BY <1>2, KnownApart
<1> HIDE DEF k, P, M, N
<1>6. ASSUME NEW i \in 1..N
      PROVE  /\ M[i].uid = Renaming(n)[P[i].uid] /\ M[i].v = P[i].v
             /\ P[i].uid \in U /\ P[i].v \in V
  <2>1. P[i].v = patches[i].v /\ M[i].v = patches[i].v /\ patches[i].v \in V
    BY <1>2, <1>3, <1>4 DEF Mirrors, MintedFrom, N
  <2>2. CASE patches[i].uid = Unnamed
    <3>1. P[i].uid \in (-k)..(-1) /\ M[i].uid = n - P[i].uid
      BY <1>3, <2>2 DEF Mirrors, k
    <3>2. Renaming(n)[P[i].uid] = n - P[i].uid
      BY <1>2, <3>1 DEF Renaming
    <3> QED
      BY <2>1, <3>1, <3>2
  <2>3. CASE patches[i].uid # Unnamed
    <3>1. P[i].uid = patches[i].uid /\ M[i].uid = patches[i].uid
      BY <1>2, <1>3, <2>3 DEF Mirrors, MintedFrom, N
    <3>2. patches[i].uid \in Known(n)
      BY <1>4, <2>3
    <3>3. Renaming(n)[patches[i].uid] = patches[i].uid
      BY <1>5, <3>2 DEF Renaming
    <3> QED
      BY <2>1, <3>1, <3>2, <3>3
  <2> QED
    BY <2>2, <2>3
<1>7. Renames(Renaming(n), P, M)
  BY <1>2, <1>3, <1>6 DEF Renames, MintedFrom, N
<1>8. P \in Seq([uid : U, v : V])
  <2> HIDE DEF U
  <2> QED
    BY <1>3, <1>6, Retyped
<1> QED
  BY <1>7, <1>8 DEF P, M, k

\* Two merges stay alike when the same uids are cleared from both.
ClearAlike(a, b, cleared, freshA, freshB) ==
  Alike(Without(a, {i \in DOMAIN a : a[i].uid \in cleared \ freshA}),
        Without(b, {i \in DOMAIN b : b[i].uid \in cleared \ freshB}))

(* Clearing: the same places of both merges, for what a caller clears is   *)
(* neither a placeholder nor a uid of this request.                        *)
LEMMA ClearedAlike ==
  ASSUME SquareAssumption, UidsApart, NEW n \in Nat, NEW k \in Nat, n + k <= MaxDraws,
         NEW S, NEW a \in Seq([uid : Known(n) \cup (-k)..(-1), v : S]),
         NEW b \in Seq([uid : Int, v : S]), Renames(Renaming(n), a, b),
         NEW cleared \in SUBSET Known(n),
         NEW freshA \in SUBSET ((-k)..(-1)), NEW freshB \in SUBSET ((n + 1)..(n + k))
  PROVE  ClearAlike(a, b, cleared, freshA, freshB)
<1> DEFINE N == Len(a)
           outA == {i \in DOMAIN a : a[i].uid \in cleared \ freshA}
           outB == {i \in DOMAIN b : b[i].uid \in cleared \ freshB}
<1>1. DOMAIN a = 1..N /\ DOMAIN b = 1..N /\ Len(b) = N
  BY LenProperties DEF Renames
<1>2. \A u \in Known(n) : u \in Nat /\ u \notin (n + 1)..(n + k)
  BY KnownApart
<1>3. ASSUME NEW i \in 1..N
      PROVE  a[i].uid \in cleared \ freshA <=> b[i].uid \in cleared \ freshB
  <2>1. b[i].uid = Renaming(n)[a[i].uid]
    BY DEF Renames
  <2>2. a[i].uid \in Known(n) \cup (-k)..(-1)
    BY EntryOf
  <2>3. CASE a[i].uid \in Known(n)
    <3>1. a[i].uid \in Nat /\ b[i].uid = a[i].uid
      BY <1>2, <2>1, <2>3 DEF Renaming
    <3>2. a[i].uid \notin freshA
      BY <3>1
    <3>3. b[i].uid \notin freshB
      BY <1>2, <2>3, <3>1
    <3> QED
      BY <3>1, <3>2, <3>3
  <2>4. CASE a[i].uid \in (-k)..(-1)
    <3>1. b[i].uid \in (n + 1)..(n + k)
      BY <2>1, <2>4 DEF Renaming
    <3>2. a[i].uid \notin Nat
      BY <2>4
    <3>3. a[i].uid \notin cleared /\ b[i].uid \notin cleared
      BY <1>2, <3>1, <3>2
    <3> QED
      BY <3>3
  <2> QED
    BY <2>2, <2>3, <2>4
<1>4. outA = outB
  BY <1>1, <1>3
<1>5. Alike(a, b)
  BY DEF Renames, Alike
<1> HIDE DEF outA, outB
<1>6. Alike(Without(a, outA), Without(b, outB))
  BY <1>4, <1>5, WithoutAlike
<1> QED
  BY <1>6 DEF outA, outB, ClearAlike

\* The commit's lines are stored lines, named by what was known or drawn,
\* and worth what the dry run's lines are.
Tallies(new, old, n, k) ==
  /\ new \in Seq(Entry(Cents))
  /\ Uids(new) \subseteq Known(n) \cup (n + 1)..(n + k)
  /\ Total(new) = Total(old)

LEMMA DryRunTallies ==
  ASSUME SquareAssumption, MarkerAssumption, UidsApart, NEW n \in Nat,
         NEW lines \in Seq(Entry(Cents)), Uids(lines) \subseteq Known(n),
         NEW patches \in Seq([uid : Known(n) \cup {Unnamed}, v : Cents \cup {Keep}]),
         n + UnnamedIn(patches) <= MaxDraws, UnnamedIn(patches) \in Nat,
         NEW cleared \in SUBSET Known(n), NEW mention,
         Mergeable(lines, Placeholders(patches))
  PROVE  Tallies(LineChanges(lines, Minted(patches, n), cleared, mention,
                             Fresh(patches, Minted(patches, n))),
                 LineChanges(lines, Placeholders(patches), cleared, mention,
                             Fresh(patches, Placeholders(patches))),
                 n, UnnamedIn(patches))
<1> DEFINE k == UnnamedIn(patches)
           P == Placeholders(patches)
           M == Minted(patches, n)
           U == Known(n) \cup (-k)..(-1)
           V == Cents \cup {Keep}
           W == Known(n) \cup {Unnamed}
           E == [uid : U, v : V]
           F == [uid : Int, v : V]
           R == Renaming(n)
           a == IF mention = "merged" THEN Merge(lines, P) ELSE lines
           b == IF mention = "merged" THEN Merge(lines, M) ELSE lines
<1>1. Known(n) \in SUBSET Nat /\ W \in SUBSET Int /\ U \in SUBSET Int /\ Cents \in SUBSET Int
  <2>1. Known(n) \in SUBSET Nat
    BY KnownApart
  <2> QED
    BY <2>1 DEF SquareAssumption, Unnamed
<1>2. Renames(R, P, M) /\ P \in Seq(E)
  <2> HIDE DEF P, M
  <2> QED
    BY PatchesRenamed DEF P, M
<1>3. /\ M \in Seq(F) /\ MintedFrom(M, patches, n)
      /\ Uids(M) \subseteq (W \ {Unnamed}) \cup (n + 1)..(n + k)
  <2> HIDE DEF W
  <2>1. patches \in Seq([uid : W, v : V])
    BY DEF W
  <2> QED
    BY <1>1, <2>1, MintedIs, MintedUids
<1>4. Len(P) = Len(patches) /\ Len(M) = Len(patches) /\ Len(patches) \in Nat
      /\ DOMAIN P = 1..Len(patches) /\ DOMAIN patches = 1..Len(patches)
  <2>1. Len(M) = Len(patches)
    BY <1>3 DEF MintedFrom
  <2>2. Len(P) = Len(M)
    BY <1>2 DEF Renames
  <2>3. DOMAIN P = 1..Len(P) /\ DOMAIN patches = 1..Len(patches) /\ Len(patches) \in Nat
    <3> HIDE DEF P, E
    <3> QED
      BY <1>2, LenProperties
  <2> QED
    BY <2>1, <2>2, <2>3
<1>6. \A i \in 1..Len(lines) : lines[i].uid \in Known(n) /\ lines[i].v \in Cents
  <2>1. Uids(lines) = {lines[i].uid : i \in 1..Len(lines)}
    BY UidsOfSeq
  <2>2. \A i \in 1..Len(lines) : lines[i].v \in Cents
    BY EntryOf DEF Entry
  <2> QED
    BY <2>1, <2>2
<1>7. lines \in Seq(E) /\ lines \in Seq(F)
  <2>1. \A i \in 1..Len(lines) : lines[i].uid \in U /\ lines[i].uid \in Int /\ lines[i].v \in V
    BY <1>1, <1>6
  <2> HIDE DEF U, V
  <2> QED
    BY <2>1, Retyped DEF Entry
<1>8. Renames(R, lines, lines)
  <2>1. \A i \in 1..Len(lines) : R[lines[i].uid] = lines[i].uid
    BY <1>1, <1>6 DEF Renaming
  <2> HIDE DEF R
  <2> QED
    BY <2>1 DEF Renames
<1>9. Valued(lines)
  BY <1>6 DEF Valued, MarkerAssumption
<1>10. \A x, y \in U : R[x] = R[y] => x = y
  BY RenamingApart
<1>11. \A e \in E : e.uid \in U
  OBVIOUS
<1>12. Renames(R, Merge(lines, P), Merge(lines, M))
  <2> HIDE DEF R, P, M, U, E, F
  <2> QED
    BY <1>2, <1>3, <1>7, <1>8, <1>10, <1>11, MergeRenamed
<1>13. Valued(Merge(lines, P)) /\ Merge(lines, P) \in Seq(E)
  <2>1. \A i \in 1..Len(P) :
          P[i].v = Keep => P[i].uid \in Uids(lines) \cup {P[j].uid : j \in 1..(i - 1)}
    BY <1>4 DEF Mergeable
  <2> HIDE DEF P, E
  <2> QED
    BY <1>2, <1>7, <1>9, <2>1, MergeValued
<1>14. Merge(lines, M) \in Seq(F) /\ Uids(Merge(lines, M)) = Uids(lines) \cup Uids(M)
  <2> HIDE DEF M, F
  <2> QED
    BY <1>3, <1>7, MergeAllUids
<1>15. /\ a \in Seq(E) /\ b \in Seq(F) /\ Valued(a) /\ Renames(R, a, b)
       /\ Uids(b) \subseteq Known(n) \cup (n + 1)..(n + k)
  <2>1. Uids(lines) \cup Uids(M) \subseteq Known(n) \cup (n + 1)..(n + k)
    BY <1>3
  <2> HIDE DEF E, F, R, P, M, U
  <2> QED
    BY <1>7, <1>8, <1>9, <1>12, <1>13, <1>14, <2>1
<1> HIDE DEF a, b
<1>16. a \in Seq([uid : U, v : Cents]) /\ b \in Seq([uid : Int, v : Cents])
  <2>1. \A i \in 1..Len(a) : a[i].uid \in U /\ a[i].v \in Cents
    <3>1. \A i \in 1..Len(a) : a[i].uid \in U /\ a[i].v \in V
      <4> HIDE DEF U, V
      <4> QED
        BY <1>15, EntryOf
    <3> QED
      BY <1>15, <3>1 DEF Valued
  <2>2. \A i \in 1..Len(b) : b[i].uid \in Int /\ b[i].v \in Cents
    <3>1. \A i \in 1..Len(b) : b[i].uid \in Int
      <4> HIDE DEF V
      <4> QED
        BY <1>15, EntryOf
    <3> QED
      BY <1>15, <2>1, <3>1 DEF Renames
  <2> HIDE DEF U, V
  <2> QED
    BY <1>15, <2>1, <2>2, Retyped
<1> DEFINE freshP == Fresh(patches, P)
           freshM == Fresh(patches, M)
           outA == {i \in DOMAIN a : a[i].uid \in cleared \ freshP}
           outB == {i \in DOMAIN b : b[i].uid \in cleared \ freshM}
<1>17. LineChanges(lines, P, cleared, mention, freshP) = IF mention = "wiped" THEN <<>> ELSE Without(a, outA)
  BY DEF LineChanges, a
<1>18. LineChanges(lines, M, cleared, mention, freshM) = IF mention = "wiped" THEN <<>> ELSE Without(b, outB)
  BY DEF LineChanges, b
<1>19. freshM \in SUBSET ((n + 1)..(n + k))
  BY <1>3, <1>4 DEF Fresh, MintedFrom
<1>20. freshP \in SUBSET ((-k)..(-1))
  <2>1. \A i \in 1..Len(patches) : Mirrors(P, M, patches, i, n)
    <3> HIDE DEF W
    <3>1. patches \in Seq([uid : W, v : V])
      BY DEF W
    <3> QED
      BY <1>1, <3>1, PlaceholdersIs
  <2> QED
    BY <1>4, <2>1 DEF Fresh, Mirrors
<1> HIDE DEF freshP, freshM
<1>21. Alike(Without(a, outA), Without(b, outB))
  <2>1. k \in Nat /\ n + k <= MaxDraws
    OBVIOUS
  <2> HIDE DEF P, M, k, R
  <2>2. Renames(Renaming(n), a, b)
    BY <1>15 DEF R
  <2>3. ClearAlike(a, b, cleared, freshP, freshM)
    <3> HIDE DEF outA, outB
    <3> QED
      BY ONLY <1>16, <1>19, <1>20, <2>1, <2>2, SquareAssumption, UidsApart, n \in Nat,
         cleared \in SUBSET Known(n), ClearedAlike DEF U
  <2> QED
    BY <2>3 DEF ClearAlike
<1> HIDE DEF outA, outB, P, M, k
<1>22. Without(a, outA) \in Seq([uid : U, v : Cents]) /\ Without(b, outB) \in Seq([uid : Int, v : Cents])
  BY <1>16, WithoutType
<1>23. Total(Without(b, outB)) = Total(Without(a, outA))
  <2>1. Without(a, outA) \in Seq([uid : Int, v : Cents])
    <3>1. \A i \in 1..Len(Without(a, outA)) :
            Without(a, outA)[i].uid \in U /\ Without(a, outA)[i].v \in Cents
      <4> HIDE DEF U
      <4> QED
        BY <1>22, EntryOf
    <3>2. \A i \in 1..Len(Without(a, outA)) :
            Without(a, outA)[i].uid \in Int /\ Without(a, outA)[i].v \in Cents
      BY <1>1, <3>1
    <3> HIDE DEF U
    <3> QED
      BY <1>22, <3>2, Retyped
  <2> QED
    BY <1>1, <1>21, <1>22, <2>1, TotalAlike
<1>24. Uids(Without(b, outB)) \subseteq Known(n) \cup (n + 1)..(n + k)
  BY <1>15, <1>16, WithoutUids
<1>25. CASE mention = "wiped"
  <2>1. <<>> \in Seq(Entry(Cents)) /\ Uids(<<>>) = {}
    BY EmptySeq DEF Uids
  <2>2. /\ LineChanges(lines, P, cleared, mention, freshP) = <<>>
        /\ LineChanges(lines, M, cleared, mention, freshM) = <<>>
    BY <1>17, <1>18, <1>25
  <2> QED
    BY <2>1, <2>2 DEF Tallies, P, M, k, freshP, freshM
<1>26. CASE mention # "wiped"
  <2>1. /\ LineChanges(lines, P, cleared, mention, freshP) = Without(a, outA)
        /\ LineChanges(lines, M, cleared, mention, freshM) = Without(b, outB)
    BY <1>17, <1>18, <1>26
  <2>2. Tallies(Without(b, outB), Without(a, outA), n, k)
    BY <1>22, <1>23, <1>24 DEF Tallies, Entry
  <2> QED
    BY <2>1, <2>2 DEF P, M, k, freshP, freshM
<1> QED
  BY <1>25, <1>26

Moved == DOMAIN FULFILLMENT_MACHINE.to

\* The fulfillments after an update: named apart, and the finished ones in
\* their places as they were.
Carries(new, stored, n) ==
  /\ new \in Seq(Entry(Moved))
  /\ Uids(new) \subseteq FulfillmentUids \cup 1..n
  /\ Distinct(new)
  /\ \A i \in 1..Len(stored) :
       IsTerminal(FULFILLMENT_MACHINE, stored[i].v) => i \in 1..Len(new) /\ new[i] = stored[i]

LEMMA FulfillmentsCarry ==
  ASSUME SquareAssumption, MarkerAssumption, UidsApart, NEW n \in Nat, NEW start \in Nat, n <= start,
         NEW stored \in Seq(Entry(Moved)), Distinct(stored),
         Uids(stored) \subseteq FulfillmentUids \cup 1..n,
         NEW moves \in Seq([uid : Uids(stored) \cup {Unnamed}, v : FulfillmentMoves \cup {Keep}]),
         UnnamedIn(moves) \in Nat, start + UnnamedIn(moves) <= MaxDraws,
         FulfillmentsMove(stored, moves)
  PROVE  Carries(Merge(stored, Minted(moves, start)), stored, start + UnnamedIn(moves))
<1> DEFINE k == UnnamedIn(moves)
           W == Uids(stored) \cup {Unnamed}
           V == Moved \cup {Keep}
           F == [uid : Int, v : V]
           M == Minted(moves, start)
           new == Merge(stored, M)
<1>1. /\ W \in SUBSET Int
      /\ \A u \in FulfillmentUids \cup 1..n : u \in Nat /\ u # Unnamed /\ u \notin (start + 1)..(start + k)
  BY DEF SquareAssumption, UidsApart, Unnamed
<1>2. /\ Len(stored) \in Nat /\ Uids(stored) = {stored[i].uid : i \in 1..Len(stored)}
      /\ \A i \in 1..Len(stored) : stored[i].uid \in Int /\ stored[i].v \in Moved
  <2>1. Len(stored) \in Nat
    BY LenProperties
  <2>2. Uids(stored) = {stored[i].uid : i \in 1..Len(stored)}
    BY UidsOfSeq
  <2>3. \A i \in 1..Len(stored) : stored[i].uid \in Int /\ stored[i].v \in Moved
    BY EntryOf DEF Entry
  <2> QED
    BY <2>1, <2>2, <2>3
<1>3. Len(moves) \in Nat /\ DOMAIN moves = 1..Len(moves)
  BY LenProperties
<1>4. ASSUME NEW i \in 1..Len(moves)
      PROVE  /\ moves[i].uid \in W /\ moves[i].v \in V
             /\ moves[i].uid = Unnamed => moves[i].v # Keep
             /\ moves[i].uid # Unnamed => moves[i].uid \in Uids(stored)
             /\ \A j \in 1..Len(stored) :
                  moves[i].uid = stored[j].uid /\ moves[i].v # Keep =>
                    ~IsTerminal(FULFILLMENT_MACHINE, stored[j].v)
  <2>1. moves[i].uid \in W
    BY EntryOf
  <2>2. CASE moves[i].uid = Unnamed
    <3>1. moves[i].v # Keep /\ moves[i].v \in Moved
      BY <1>3, <2>2, StartableIs DEF FulfillmentsMove, Moved
    <3>2. \A j \in 1..Len(stored) : stored[j].uid # Unnamed
      BY <1>1, <1>2
    <3> QED
      BY <2>1, <2>2, <3>1, <3>2
  <2>3. CASE moves[i].uid # Unnamed
    <3>1. /\ moves[i].uid \in Uids(stored)
          /\ moves[i].v # Keep =>
               CanTransition(FULFILLMENT_MACHINE, Latest(stored, moves[i].uid).v, moves[i].v)
      BY <1>3, <2>3 DEF FulfillmentsMove
    <3>2. PICK j \in 1..Len(stored) : stored[j].uid = moves[i].uid
      BY <1>2, <3>1
    <3>3. Latest(stored, moves[i].uid) = stored[j] /\ stored[j].v \in Moved
      BY <1>2, <3>2, LatestOfDistinct
    <3>4. moves[i].v # Keep =>
            moves[i].v \in Moved /\ ~IsTerminal(FULFILLMENT_MACHINE, stored[j].v)
      BY <3>1, <3>3, Payables DEF Moved
    <3>5. \A x \in 1..Len(stored) : stored[x].uid = moves[i].uid => x = j
      BY <3>2 DEF Distinct
    <3> QED
      BY <2>1, <2>3, <3>1, <3>4, <3>5
  <2> QED
    BY <2>2, <2>3
<1>5. moves \in Seq([uid : W, v : V])
  <2> HIDE DEF W, V
  <2> QED
    BY <1>4, Retyped DEF W, V
<1>6. /\ M \in Seq(F) /\ MintedFrom(M, moves, start)
      /\ Uids(M) \subseteq (W \ {Unnamed}) \cup (start + 1)..(start + k)
  <2> HIDE DEF W, V
  <2> QED
    BY <1>1, <1>5, MintedIs, MintedUids
<1>7. stored \in Seq(F)
  <2>1. \A i \in 1..Len(stored) : stored[i].uid \in Int /\ stored[i].v \in V
    BY <1>2
  <2> HIDE DEF V
  <2> QED
    BY <2>1, Retyped DEF Entry
<1>8. new \in Seq(F) /\ Uids(new) = Uids(stored) \cup Uids(M) /\ Distinct(new)
  <2> HIDE DEF F, M
  <2> QED
    BY <1>6, <1>7, MergeAllUids, MergeDistinct
<1>9. Valued(stored)
  BY <1>2 DEF Valued, MarkerAssumption, Moved
<1>10. Valued(new)
  <2>1. ASSUME NEW i \in 1..Len(M), M[i].v = Keep PROVE M[i].uid \in Uids(stored)
    <3>1. i \in 1..Len(moves) /\ M[i].v = moves[i].v
      BY <1>6 DEF MintedFrom
    <3>2. moves[i].uid # Unnamed /\ moves[i].uid \in Uids(stored)
      BY <1>4, <2>1, <3>1
    <3> QED
      BY <1>6, <3>1, <3>2 DEF MintedFrom
  <2> HIDE DEF M, F
  <2> QED
    BY <1>6, <1>7, <1>9, <2>1, MergeValued
<1>11. new \in Seq(Entry(Moved))
  <2>1. \A i \in 1..Len(new) : new[i].uid \in Int /\ new[i].v \in V
    <3> HIDE DEF new, V
    <3> QED
      BY <1>8, EntryOf
  <2>2. \A i \in 1..Len(new) : new[i].uid \in Int /\ new[i].v \in Moved
    BY <1>10, <2>1 DEF Valued
  <2> HIDE DEF new, V
  <2> QED
    BY <1>8, <2>2, Retyped DEF Entry
<1>12. Uids(new) \subseteq FulfillmentUids \cup 1..(start + k)
  <2>1. (start + 1)..(start + k) \subseteq 1..(start + k) /\ 1..n \subseteq 1..(start + k)
    OBVIOUS
  <2> HIDE DEF new, M, k
  <2> QED
    BY <1>6, <1>8, <2>1
<1>13. ASSUME NEW i \in 1..Len(stored), IsTerminal(FULFILLMENT_MACHINE, stored[i].v)
       PROVE  i \in 1..Len(new) /\ new[i] = stored[i]
  <2>1. ASSUME NEW j \in 1..Len(M), M[j].uid = stored[i].uid PROVE M[j].v = Keep
    <3>1. j \in 1..Len(moves) /\ M[j].v = moves[j].v
      BY <1>6 DEF MintedFrom
    <3>2. stored[i].uid \notin (start + 1)..(start + k)
      BY <1>1, <1>2
    <3>3. moves[j].uid = stored[i].uid
      BY <1>6, <2>1, <3>1, <3>2 DEF MintedFrom
    <3> QED
      BY <1>4, <1>13, <3>1, <3>3
  <2> HIDE DEF M, F
  <2> QED
    BY <1>6, <1>7, <2>1, MergeStays
<1> HIDE DEF new
<1>14. Carries(new, stored, start + k)
  BY <1>8, <1>11, <1>12, <1>13 DEF Carries
<1> QED
  BY <1>14 DEF new

\* A request as Update lets callers make it.
Asked(o, patches, cleared, moves) ==
  /\ o \in Held
  /\ patches \in Seq([uid : LineUids \cup Uids(orders[o].lines) \cup {Unnamed}, v : Cents \cup {Keep}])
  /\ cleared \subseteq Uids(orders[o].lines)
  /\ moves \in Seq([uid : Uids(orders[o].fulfillments) \cup {Unnamed},
                    v : FulfillmentMoves \cup {Keep}])

\* The order an update writes.
Rewritten(new, o) ==
  /\ Sound(new, drawn')
  /\ new.tenders = orders[o].tenders
  /\ Carries(new.fulfillments, orders[o].fulfillments, drawn')

LEMMA UpdateWrites ==
  ASSUME SquareAssumption, MarkerAssumption, UidsApart, IInv, NEW o, NEW next \in States,
         NEW patches, NEW cleared, NEW mention, NEW moves,
         Asked(o, patches, cleared, moves),
         UpdateOrder(o, next, patches, cleared, mention, moves)
  PROVE  \E new : /\ Rewritten(new, o) /\ orders' = [orders EXCEPT ![o] = new]
                  /\ drawn' \in 0..MaxDraws /\ drawn <= drawn'
<1> DEFINE order == orders[o]
           a == UnnamedIn(patches)
           b == UnnamedIn(moves)
           lines == Commit(order.lines, patches, cleared, mention)
           probed == Probe(order.lines, patches, cleared, mention)
           merged == Merge(order.fulfillments, Minted(moves, drawn + a))
           updated == [order EXCEPT !.lines = lines, !.total = Total(lines), !.state = next,
                                    !.fulfillments = merged]
           L == LineUids \cup Uids(order.lines) \cup {Unnamed}
           W == Uids(order.fulfillments) \cup {Unnamed}
<1>1. /\ o \in Orders /\ order \in OrderRecords /\ Sound(order, drawn)
      /\ drawn \in Nat /\ MaxDraws \in Nat
  BY HeldIs DEF Asked, IInv, TypeOK, SquareAssumption
<1>2. /\ order.lines \in Seq(Entry(Cents)) /\ order.fulfillments \in Seq(Entry(Moved))
      /\ Uids(order.lines) \subseteq Known(drawn)
      /\ Uids(order.fulfillments) \subseteq FulfillmentUids \cup 1..drawn
      /\ Distinct(order.fulfillments)
      /\ order.applied \in Nat /\ order.applied <= Larger(0, order.total)
  BY <1>1 DEF OrderRecords, Sound, Known, Moved
<1>3. L \in SUBSET Int /\ W \in SUBSET Int
  BY <1>2 DEF SquareAssumption, Known, Unnamed
<1>4. a \in Nat /\ b \in Nat
  <2>1. /\ patches \in Seq([uid : L, v : Cents \cup {Keep}])
        /\ moves \in Seq([uid : W, v : FulfillmentMoves \cup {Keep}])
    BY DEF Asked
  <2>2. 0 \in Nat
    OBVIOUS
  <2> HIDE DEF L, W
  <2> QED
    BY <1>3, <2>1, <2>2, MintedIs
<1>5. /\ drawn' \in 0..MaxDraws /\ drawn <= drawn' /\ drawn' = drawn + (a + b)
      /\ drawn + a + b = drawn' /\ drawn + a \in Nat /\ drawn + a <= MaxDraws
      /\ drawn <= drawn + a
  <2>1. Draws(a + b) /\ a + b \in Nat
    BY <1>4 DEF UpdateOrder
  <2> HIDE DEF a, b
  <2>2. drawn' \in 0..MaxDraws /\ drawn <= drawn' /\ drawn' = drawn + (a + b)
    BY <2>1, DrawsIs
  <2> QED
    BY <1>1, <1>4, <2>2
<1>6. Tallies(lines, probed, drawn, a)
  <2>1. patches \in Seq([uid : Known(drawn) \cup {Unnamed}, v : Cents \cup {Keep}])
    <3>1. patches \in Seq([uid : L, v : Cents \cup {Keep}])
      BY DEF Asked
    <3>2. L \subseteq Known(drawn) \cup {Unnamed}
      BY <1>2 DEF Known
    <3>3. \A i \in 1..Len(patches) : patches[i].uid \in L /\ patches[i].v \in Cents \cup {Keep}
      <4> HIDE DEF L
      <4> QED
        BY <3>1, EntryOf
    <3>4. \A i \in 1..Len(patches) :
            patches[i].uid \in Known(drawn) \cup {Unnamed} /\ patches[i].v \in Cents \cup {Keep}
      BY <3>2, <3>3
    <3> HIDE DEF L
    <3> QED
      BY <3>1, <3>4, Retyped
  <2>2. cleared \in SUBSET Known(drawn)
    BY <1>2 DEF Asked
  <2>3. Mergeable(order.lines, Placeholders(patches))
    BY DEF UpdateOrder
  <2> HIDE DEF order
  <2> QED
    BY <1>1, <1>2, <1>4, <1>5, <2>1, <2>2, <2>3, DryRunTallies DEF Commit, Probe
<1>7. Carries(merged, order.fulfillments, drawn')
  <2>1. /\ moves \in Seq([uid : Uids(order.fulfillments) \cup {Unnamed},
                          v : FulfillmentMoves \cup {Keep}])
        /\ FulfillmentsMove(order.fulfillments, moves)
    BY DEF Asked, UpdateOrder
  <2>2. drawn + a + b <= MaxDraws
    BY <1>5
  <2>3. Carries(merged, order.fulfillments, drawn + a + b)
    <3> HIDE DEF order, a
    <3> QED
      BY <1>1, <1>2, <1>4, <1>5, <2>1, <2>2, FulfillmentsCarry
  <2> QED
    BY <1>5, <2>3
<1>8. /\ lines \in Seq(Entry(Cents)) /\ Total(lines) = Total(probed)
      /\ Uids(lines) \subseteq LineUids \cup 1..drawn'
      /\ merged \in Seq(Entry(Moved)) /\ Distinct(merged)
      /\ Uids(merged) \subseteq FulfillmentUids \cup 1..drawn'
  <2>1. (drawn + 1)..(drawn + a) \subseteq 1..drawn' /\ 1..drawn \subseteq 1..drawn'
    BY <1>1, <1>4, <1>5
  <2> HIDE DEF lines, probed, merged
  <2> QED
    BY <1>6, <1>7, <2>1 DEF Tallies, Carries, Known
<1>9. Total(lines) \in Int /\ Total(probed) >= order.applied
  <2>1. Total(probed) >= order.applied
    BY DEF UpdateOrder
  <2> HIDE DEF lines
  <2> QED
    BY <1>8, <2>1, TotalType DEF Entry, SquareAssumption
<1> HIDE DEF lines, probed, merged
<1>10. /\ updated \in OrderRecords /\ updated.lines = lines /\ updated.total = Total(lines)
       /\ updated.applied = order.applied /\ updated.tenders = order.tenders
       /\ updated.fulfillments = merged
  <2> HIDE DEF order
  <2> QED
    BY <1>1, <1>8, <1>9 DEF OrderRecords, Moved
<1>11. order.applied <= Larger(0, Total(lines))
  BY <1>2, <1>8, <1>9 DEF Larger
<1>12. orders' = [orders EXCEPT ![o] =
          IF next = "COMPLETED" /\ order.state # next THEN Complete(updated) ELSE updated]
  BY DEF UpdateOrder, lines, merged
<1> HIDE DEF updated, order
<1>13. Sound(updated, drawn')
  BY <1>2, <1>8, <1>10, <1>11 DEF Sound
<1>14. Rewritten(updated, o)
  BY <1>7, <1>10, <1>13 DEF Rewritten, order
<1>15. Rewritten(Complete(updated), o)
  <2>1. /\ Sound(Complete(updated), drawn') /\ SameBut(Complete(updated), updated)
        /\ Complete(updated).tenders = updated.tenders
    <3>1. drawn' \in Nat
      BY <1>1, <1>5
    <3> QED
      BY <1>13, <3>1, CompleteSound
  <2> QED
    BY <1>14, <2>1 DEF Rewritten, SameBut
<1> QED
  BY <1>5, <1>12, <1>14, <1>15

LEMMA UpdateInv ==
  ASSUME SquareAssumption, MarkerAssumption, UidsApart, IInv, NEW o, NEW next \in States,
         NEW patches, NEW cleared, NEW mention, NEW moves,
         Asked(o, patches, cleared, moves),
         UpdateOrder(o, next, patches, cleared, mention, moves)
  PROVE  IInv'
<1>1. PICK new : /\ Rewritten(new, o) /\ orders' = [orders EXCEPT ![o] = new]
                 /\ drawn' \in 0..MaxDraws /\ drawn <= drawn'
  BY UpdateWrites
<1>2. o \in Orders /\ Matches(orders[o].tenders, o, payments)
  BY HeldIs DEF Asked
<1>3. payments' = payments
  BY DEF UpdateOrder
<1> QED
  BY <1>1, <1>2, <1>3, WriteInv DEF Rewritten

-----------------------------------------------------------------------------
(* Every step.                                                             *)

\* The requests of Next, with what is known of their parameters.
Creates(o) ==
  \E state \in States,
     lines \in Seq([uid : LineUids \cup {Unnamed}, v : Cents \cup {Keep}]),
     fulfillments \in Seq([uid : FulfillmentUids \cup {Unnamed}, v : FulfillmentMoves \cup {Keep}]) :
    CreateOrder(o, state, lines, fulfillments)

Updates(o) ==
  \E next \in States : \E patches, cleared, mention, moves :
    Asked(o, patches, cleared, moves) /\ UpdateOrder(o, next, patches, cleared, mention, moves)

Pays(o) ==
  \/ \E ids \in Seq(Payments) : PayWithPayments(o, ids)
  \/ \E n \in Nat : PayOpaque(o, n)
  \/ PayNothing(o)

LEMMA PatchesSeq ==
  ASSUME SquareAssumption, NEW U, NEW V, NEW list \in Patches(U, V)
  PROVE  list \in Seq([uid : U \cup {Unnamed}, v : V \cup {Keep}])
<1>1. MaxPatches \in Nat
  BY DEF SquareAssumption
<1> QED
  BY <1>1, UpToSeq DEF Patches

LEMMA NextIs ==
  ASSUME SquareAssumption, Next
  PROVE  \/ \E o \in Orders : Creates(o) \/ Updates(o) \/ Pays(o)
         \/ \E p \in Payments : Tender(p) \/ CompletePayment(p) \/ CancelPayment(p)
<1>1. ASSUME NEW o \in Orders, Create(o) PROVE Creates(o)
  BY <1>1, PatchesSeq DEF Create, Creates
<1>2. ASSUME NEW o \in Orders, Update(o) PROVE Updates(o)
  <2>1. o \in Held
    BY <1>2 DEF Update
  <2>2. PICK patches \in Patches(LineUids \cup Uids(orders[o].lines), Cents),
             cleared \in SUBSET Uids(orders[o].lines),
             moves \in Patches(Uids(orders[o].fulfillments), FulfillmentMoves),
             next \in States, mention \in Mentions :
          UpdateOrder(o, next, patches, cleared, mention, moves)
    BY <1>2 DEF Update
  <2>3. Asked(o, patches, cleared, moves)
    BY <2>1, <2>2, PatchesSeq DEF Asked
  <2> QED
    BY <2>2, <2>3 DEF Updates
<1>3. ASSUME NEW o \in Orders, Pay(o) PROVE Pays(o)
  <2>1. Cardinality(Payments) \in Nat
    BY FS_CardinalityType DEF SquareAssumption
  <2>2. \A ids \in UpTo(Payments, Cardinality(Payments)) : ids \in Seq(Payments)
    BY <2>1, UpToSeq
  <2>3. 1..MaxDraws \subseteq Nat
    BY DEF SquareAssumption
  <2> QED
    BY <1>3, <2>2, <2>3 DEF Pay, Pays
<1> QED
  BY <1>1, <1>2, <1>3 DEF Next

LEMMA StepIInv ==
  ASSUME SquareAssumption, MarkerAssumption, UidsApart, IInv, [Next]_vars
  PROVE  IInv'
<1>1. CASE UNCHANGED vars
  BY <1>1 DEF vars, IInv, TypeOK, OrdersSound, OrdersMatch, PaymentsPoint, Held, Taken
<1>2. ASSUME NEW o \in Orders, Creates(o) PROVE IInv'
  BY <1>2, CreateInv DEF Creates
<1>3. ASSUME NEW o \in Orders, Updates(o) PROVE IInv'
  BY <1>3, UpdateInv DEF Updates
<1>4. ASSUME NEW o \in Orders, Pays(o) PROVE IInv'
  BY <1>4, PayWithPaymentsInv, PayOtherwiseInv DEF Pays
<1>5. ASSUME NEW p \in Payments, Tender(p) PROVE IInv'
  BY <1>5, HoldPaymentInv, TakePaymentInv DEF Tender
<1>6. ASSUME NEW p \in Payments, CompletePayment(p) \/ CancelPayment(p) PROVE IInv'
  BY <1>6, CompletePaymentInv, CancelPaymentInv
<1> QED
  BY <1>1, <1>2, <1>3, <1>4, <1>5, <1>6, NextIs

LEMMA InitIInv ==
  ASSUME SquareAssumption, Init
  PROVE  IInv
<1>1. Held = {} /\ Taken = {}
  BY DEF Init, Held, Taken
<1>2. TypeOK
  BY DEF Init, TypeOK, SquareAssumption
<1> QED
  BY <1>1, <1>2 DEF IInv, OrdersSound, OrdersMatch, PaymentsPoint

LEMMA Invariance == UidsApart /\ Spec => []IInv
<1> SUFFICES ASSUME UidsApart PROVE Spec => []IInv
  OBVIOUS
<1>1. Init => IInv
  BY SquareAssumption, InitIInv
<1>2. IInv /\ [Next]_vars => IInv'
  BY SquareAssumption, MarkerAssumption, StepIInv
<1> QED
  BY <1>1, <1>2, PTL DEF Spec

(* Stored orders, payments and the draws keep their types.                 *)
THEOREM TypeCorrect == UidsApart /\ Spec => []TypeOK
  BY Invariance, PTL DEF IInv

(* The tenders of an order are the payments captured for it, each once,    *)
(* whatever is held, captured, cancelled and paid in whichever order.      *)
THEOREM TendersAreCaptures == UidsApart /\ Spec => []TendersMatchCaptures
<1>1. IInv => TendersMatchCaptures
  BY MatchesIsTendersMatch DEF IInv
<1> QED
  BY Invariance, <1>1, PTL

(* No sequence of requests tenders an order past its total.                *)
THEOREM TendersStayWithin == UidsApart /\ Spec => []NeverOverTendered
<1>1. IInv => NeverOverTendered
  BY DEF IInv, OrdersSound, Sound, NeverOverTendered
<1> QED
  BY Invariance, <1>1, PTL

(* The lines an order shows always add up to the total it is charged.      *)
THEOREM LinesAlwaysAddUp == UidsApart /\ Spec => []LinesAddUp
<1>1. IInv => LinesAddUp
  BY DEF IInv, OrdersSound, Sound, LinesAddUp
<1> QED
  BY Invariance, <1>1, PTL

-----------------------------------------------------------------------------
(* What is finished stays.                                                 *)

\* The finished fulfillments of an order are in a rewritten one.
Spares(new, old) ==
  \A i \in DOMAIN old.fulfillments :
    IsTerminal(FULFILLMENT_MACHINE, old.fulfillments[i].v) =>
      i \in DOMAIN new.fulfillments /\ new.fulfillments[i] = old.fulfillments[i]

\* A step writes at most one order, and an existing one only while it may.
OrderStands ==
  \/ orders' = orders
  \/ \E o \in Orders : \E new :
       /\ orders' = [orders EXCEPT ![o] = new]
       /\ o \in Held => IsMutable(ORDER_MACHINE, orders[o].state) /\ Spares(new, orders[o])

\* A step changes only payments that wait.
PaymentStands ==
  \A p \in Taken : payments'[p] = payments[p] \/ payments[p].status = "APPROVED"

LEMMA ApplySpares ==
  ASSUME NEW order \in OrderRecords, NEW tenders, NEW amount
  PROVE  Spares(ApplyTenders(order, tenders, amount), order)
<1> DEFINE all == order.tenders \o tenders
           rest == order.applied + amount
           paid == [order EXCEPT !.tenders = all, !.applied = rest]
           lines == DropZeroLines(paid.lines)
           done == [paid EXCEPT !.state = "COMPLETED", !.lines = lines]
<1>1. \/ ApplyTenders(order, tenders, amount) = paid
      \/ ApplyTenders(order, tenders, amount) = done
  BY DEF ApplyTenders, Complete, OrderRecords
<1> HIDE DEF all, rest, lines
<1>2. paid.fulfillments = order.fulfillments /\ done.fulfillments = order.fulfillments
  BY DEF OrderRecords
<1> HIDE DEF paid, done
<1> QED
  BY <1>1, <1>2 DEF Spares

LEMMA PayableStates ==
  ASSUME IInv, NEW o \in Held
  PROVE  /\ PayableNow(o) => IsMutable(ORDER_MACHINE, orders[o].state)
         /\ \A tenders, amount : Spares(ApplyTenders(orders[o], tenders, amount), orders[o])
         /\ \A tenders, amount : [orders EXCEPT ![o] = ApplyTenders(@, tenders, amount)]
                                   = [orders EXCEPT ![o] = ApplyTenders(orders[o], tenders, amount)]
<1>1. o \in Orders /\ orders[o] \in OrderRecords /\ orders[o].state \in States
  BY HeldIs DEF OrderRecords
<1> QED
  BY <1>1, Payables, ApplySpares DEF PayableNow, IInv, TypeOK

LEMMA StandsStep ==
  ASSUME SquareAssumption, MarkerAssumption, UidsApart, IInv, Next
  PROVE  OrderStands /\ PaymentStands
<1>1. ASSUME NEW o \in Orders, Creates(o) PROVE OrderStands /\ PaymentStands
  <2>1. PICK state, lines, fulfillments : CreateOrder(o, state, lines, fulfillments)
    BY <1>1 DEF Creates
  <2>2. o \notin Held /\ payments' = payments
    BY <2>1 DEF CreateOrder, Held
  <2>3. \E new : orders' = [orders EXCEPT ![o] = new]
    BY <2>1 DEF CreateOrder
  <2> QED
    BY <2>2, <2>3 DEF OrderStands, PaymentStands
<1>2. ASSUME NEW o \in Orders, Updates(o) PROVE OrderStands /\ PaymentStands
  <2>1. PICK next, patches, cleared, mention, moves :
          /\ next \in States
          /\ Asked(o, patches, cleared, moves)
          /\ UpdateOrder(o, next, patches, cleared, mention, moves)
    BY <1>2 DEF Updates
  <2>2. PICK new : Rewritten(new, o) /\ orders' = [orders EXCEPT ![o] = new]
    BY <2>1, UpdateWrites
  <2>3. o \in Held /\ IsMutable(ORDER_MACHINE, orders[o].state) /\ payments' = payments
    BY <2>1 DEF UpdateOrder
  <2>4. Spares(new, orders[o])
    <3>1. DOMAIN orders[o].fulfillments = 1..Len(orders[o].fulfillments)
      BY <2>3, HeldIs, LenProperties DEF OrderRecords
    <3>2. DOMAIN new.fulfillments = 1..Len(new.fulfillments)
      BY <2>2, LenProperties DEF Rewritten, Carries
    <3> QED
      BY <2>2, <3>1, <3>2 DEF Rewritten, Carries, Spares
  <2> QED
    BY <2>2, <2>3, <2>4 DEF OrderStands, PaymentStands
<1>3. ASSUME NEW o \in Orders, NEW ids \in Seq(Payments), PayWithPayments(o, ids)
      PROVE  OrderStands /\ PaymentStands
  <2>1. o \in Held /\ PayableNow(o)
    BY <1>3 DEF PayWithPayments, PayableNow
  <2>2. OrderStands
    BY <1>3, <2>1, PayableStates DEF PayWithPayments, OrderStands
  <2>3. PaymentStands
    <3> SUFFICES ASSUME NEW p \in Taken, payments'[p] # payments[p]
                 PROVE  payments[p].status = "APPROVED"
      BY DEF PaymentStands
    <3>1. p \in Payments
      BY DEF Taken
    <3> QED
      BY <1>3, <3>1 DEF PayWithPayments, Resolves
  <2> QED
    BY <2>2, <2>3
<1>4. ASSUME NEW o \in Orders, NEW n \in Nat, PayOpaque(o, n) \/ PayNothing(o)
      PROVE  OrderStands /\ PaymentStands
  <2>1. o \in Held /\ PayableNow(o) /\ payments' = payments
    BY <1>4 DEF PayOpaque, PayNothing, PayableNow
  <2>2. OrderStands
    BY <1>4, <2>1, PayableStates DEF PayOpaque, PayNothing, OrderStands
  <2> QED
    BY <2>1, <2>2 DEF PaymentStands
<1>5. ASSUME NEW p \in Payments, NEW o \in Orders \cup {None}, NEW amount \in Amounts,
             HoldPayment(p, o, amount) \/ TakePayment(p, o, amount)
      PROVE  OrderStands /\ PaymentStands
  <2>1. payments[p] = None /\ \A q \in Payments : q # p => payments'[q] = payments[q]
    BY <1>5 DEF HoldPayment, TakePayment, IInv, TypeOK
  <2>2. PaymentStands
    BY <2>1 DEF PaymentStands, Taken
  <2>3. CASE orders' = orders
    BY <2>2, <2>3 DEF OrderStands
  <2>4. CASE orders' # orders
    <3>1. /\ o \in Orders /\ Payable(o)
          /\ orders' = [orders EXCEPT ![o] = ApplyTenders(@, <<p>>, amount)]
      BY <1>5, <2>4 DEF HoldPayment, TakePayment
    <3>2. o \in Held /\ IsMutable(ORDER_MACHINE, orders[o].state)
      BY <3>1 DEF Payable
    <3> QED
      BY <2>2, <3>1, <3>2, PayableStates DEF OrderStands
  <2> QED
    BY <2>3, <2>4
<1>6. ASSUME NEW p \in Payments, CompletePayment(p) PROVE OrderStands /\ PaymentStands
  <2> DEFINE o == payments[p].order
             amount == payments[p].amount
  <2>1. payments[p] \in PaymentRecords /\ payments[p].status = "APPROVED" /\ o \in Orders \cup {None}
    BY <1>6, Payables DEF CompletePayment, Taken, IInv, TypeOK, PaymentRecords
  <2>2. \A q \in Payments : q # p => payments'[q] = payments[q]
    BY <1>6 DEF CompletePayment, IInv, TypeOK
  <2>3. PaymentStands
    BY <2>1, <2>2 DEF PaymentStands, Taken
  <2>4. CASE orders' = orders
    BY <2>3, <2>4 DEF OrderStands
  <2>5. CASE orders' # orders
    <3>1. /\ o \in Orders /\ Payable(o)
          /\ orders' = [orders EXCEPT ![o] = ApplyTenders(@, <<p>>, amount)]
      BY <1>6, <2>1, <2>5 DEF CompletePayment
    <3> HIDE DEF o, amount
    <3>2. o \in Held /\ IsMutable(ORDER_MACHINE, orders[o].state)
      BY <3>1 DEF Payable
    <3> QED
      BY <2>3, <3>1, <3>2, PayableStates DEF OrderStands
  <2> QED
    BY <2>4, <2>5
<1>7. ASSUME NEW p \in Payments, CancelPayment(p) PROVE OrderStands /\ PaymentStands
  <2>1. payments[p].status = "APPROVED" /\ orders' = orders
    BY <1>7, Payables DEF CancelPayment, Taken, IInv, TypeOK, PaymentRecords
  <2>2. \A q \in Payments : q # p => payments'[q] = payments[q]
    BY <1>7 DEF CancelPayment, IInv, TypeOK
  <2> QED
    BY <2>1, <2>2 DEF OrderStands, PaymentStands, Taken
<1> QED
  BY <1>1, <1>2, <1>3, <1>4, <1>5, <1>6, <1>7, NextIs DEF Pays, Tender

LEMMA FinalStep ==
  ASSUME SquareAssumption, MarkerAssumption, UidsApart, IInv, Next
  PROVE  /\ \A o \in Held : IsTerminal(ORDER_MACHINE, orders[o].state) => orders'[o] = orders[o]
         /\ \A p \in Taken : IsTerminal(PAYMENT_MACHINE, payments[p].status) => payments'[p] = payments[p]
         /\ \A o \in Held : \A i \in DOMAIN orders[o].fulfillments :
              IsTerminal(FULFILLMENT_MACHINE, orders[o].fulfillments[i].v) =>
                /\ i \in DOMAIN orders'[o].fulfillments
                /\ orders'[o].fulfillments[i].uid = orders[o].fulfillments[i].uid
                /\ orders'[o].fulfillments[i].v = orders[o].fulfillments[i].v
<1>1. OrderStands /\ PaymentStands
  BY StandsStep
<1>2. ~IsTerminal(PAYMENT_MACHINE, "APPROVED")
  BY DEF PAYMENT_MACHINE, IsTerminal
<1>3. \A p \in Taken : IsTerminal(PAYMENT_MACHINE, payments[p].status) => payments'[p] = payments[p]
  BY <1>1, <1>2 DEF PaymentStands
<1>4. ASSUME NEW o \in Held
      PROVE  /\ IsTerminal(ORDER_MACHINE, orders[o].state) => orders'[o] = orders[o]
             /\ orders'[o] = orders[o] \/ Spares(orders'[o], orders[o])
  <2>1. CASE orders' = orders
    BY <2>1
  <2>2. CASE orders' # orders
    <3>0. PICK x \in Orders :
            \E r : /\ orders' = [orders EXCEPT ![x] = r]
                   /\ x \in Held => IsMutable(ORDER_MACHINE, orders[x].state) /\ Spares(r, orders[x])
      BY <1>1, <2>2 DEF OrderStands
    <3>1. PICK new :
            /\ orders' = [orders EXCEPT ![x] = new]
            /\ x \in Held => IsMutable(ORDER_MACHINE, orders[x].state) /\ Spares(new, orders[x])
      BY <3>0
    <3>2. o \in Orders /\ orders'[x] = new /\ \A y \in Orders : y # x => orders'[y] = orders[y]
      BY <3>1 DEF Held, IInv, TypeOK
    <3>3. CASE o = x
      BY <3>1, <3>2, <3>3 DEF IsMutable
    <3>4. CASE o # x
      BY <3>2, <3>4
    <3> QED
      BY <3>3, <3>4
  <2> QED
    BY <2>1, <2>2
<1>5. ASSUME NEW o \in Held, NEW i \in DOMAIN orders[o].fulfillments,
             IsTerminal(FULFILLMENT_MACHINE, orders[o].fulfillments[i].v)
      PROVE  /\ i \in DOMAIN orders'[o].fulfillments
             /\ orders'[o].fulfillments[i].uid = orders[o].fulfillments[i].uid
             /\ orders'[o].fulfillments[i].v = orders[o].fulfillments[i].v
  BY <1>4, <1>5 DEF Spares
<1> QED
  BY <1>3, <1>4, <1>5

(* No handler of either surface changes a closed order or a settled        *)
(* payment, and a finished fulfillment keeps its place, uid and state.     *)
THEOREM FinishedStays == UidsApart /\ Spec => ClosedIsFinal
<1> SUFFICES ASSUME UidsApart PROVE Spec => ClosedIsFinal
  OBVIOUS
<1>1. IInv /\ [Next]_vars =>
       [/\ \A o \in Held : IsTerminal(ORDER_MACHINE, orders[o].state) => orders'[o] = orders[o]
        /\ \A p \in Taken : IsTerminal(PAYMENT_MACHINE, payments[p].status) => payments'[p] = payments[p]
        /\ \A o \in Held : \A i \in DOMAIN orders[o].fulfillments :
             IsTerminal(FULFILLMENT_MACHINE, orders[o].fulfillments[i].v) =>
               /\ i \in DOMAIN orders'[o].fulfillments
               /\ orders'[o].fulfillments[i].uid = orders[o].fulfillments[i].uid
               /\ orders'[o].fulfillments[i].v = orders[o].fulfillments[i].v
       ]_vars
  BY SquareAssumption, MarkerAssumption, FinalStep
<1>2. UidsApart /\ Spec => []IInv
  BY Invariance
<1> QED
  BY <1>1, <1>2, PTL DEF Spec, ClosedIsFinal

=============================================================================
