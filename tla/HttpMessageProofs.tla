-------------------------- MODULE HttpMessageProofs --------------------------
(***************************************************************************)
(* One connection's request, for every stream of every client and every    *)
(* way its reads may end.                                                  *)
(*                                                                         *)
(* That url_, body_ and headers_ are a function of the bytes parsed so far *)
(* (SplitsDoNotShow) is not inductive: what a callback stores depends on   *)
(* current_header_field_ and current_header_value_.  Inv says what these   *)
(* two hold (Buffered), what the parser has handed over of an element it   *)
(* is within (Position), what the last message begun is taken for (Begun)  *)
(* and how far the answer is (Answering).                                  *)
(*                                                                         *)
(* The argument: whatever a callback is given, it makes what has been      *)
(* handed over longer by one piece, either of the last element or as a new *)
(* one behind it (Longer, CallsLonger).  So it is enough to know what      *)
(* Texts, the buffered line and StoredHeaders make of such a piece         *)
(* (LongerTexts, LongerMethod, LongerPasses, LongerValue, LongerLine), and *)
(* each callback does just that to its member (Callback, SavesLine).  Those*)
(* facts are about one element more at the end of a sequence; for what     *)
(* FlattenSeq makes of it they rest on induction over the sequence, by the *)
(* least number where a fact fails (Least, Induct).                        *)
(***************************************************************************)
EXTENDS HttpMessage, Integers, WellFoundedInduction, TLAPS

(* Induction over a sequence.  A set of naturals that is not empty has a   *)
(* least element; ...                                                      *)
LEMMA Least ==
  ASSUME NEW T \in SUBSET Nat, T # {}
  PROVE  \E n \in T : \A m \in T : n <= m
<1> DEFINE R == OpToRel(<, Nat)
<1>1. IsWellFoundedOn(R, Nat)
  BY NatLessThanWellFounded
<1>2. \A x, y \in Nat : x < y => <<x, y>> \in R
  BY Z3 DEF OpToRel
<1> HIDE DEF R
<1>3. PICK n \in T : \A m \in T : <<m, n>> \notin R
  BY <1>1, WFMin
<1>4. ASSUME NEW m \in T PROVE n <= m
  <2>1. n \in Nat /\ m \in Nat /\ ~(m < n)
    BY <1>2, <1>3
  <2> QED
    BY <2>1
<1> QED
  BY <1>4

(* ... so one that has 0, and the successors of its elements, has them all.*)
LEMMA Induct ==
  ASSUME NEW T, 0 \in T, \A n \in Nat : n \in T => n + 1 \in T
  PROVE  Nat \subseteq T
<1> SUFFICES ASSUME Nat \ T # {} PROVE FALSE
  OBVIOUS
<1>1. PICK n \in Nat \ T : \A m \in Nat \ T : n <= m
  BY Least
<1>2. n # 0 /\ n - 1 \in Nat /\ n - 1 \notin Nat \ T
  BY <1>1
<1> QED
  BY <1>1, <1>2

(* Concatenation under a name: for the provers an operator like any other. *)
Cat(a, b) == a \o b

(* What is known of Cat wherever it is not unfolded.                       *)
LEMMA CatFacts ==
  ASSUME NEW S
  PROVE  /\ <<>> \in Seq(S)
         /\ \A a, b \in Seq(S) : Cat(a, b) \in Seq(S)
         /\ \A a \in Seq(S) : Cat(<<>>, a) = a
BY DEF Cat

(* f[n] is what the first n of the sequences ss come to, flattened.        *)
Flattens(f, ss) ==
  /\ f[0] = <<>>
  /\ \A i \in Nat : i < Len(ss) => f[i + 1] = Cat(f[i], ss[i + 1])

(* There is such an f, of sequences: built one step at a time.             *)
LEMMA FlattensExists ==
  ASSUME NEW S, NEW ss \in Seq(Seq(S))
  PROVE  \E f \in [0 .. Len(ss) -> Seq(S)] : Flattens(f, ss)
<1> DEFINE Upto(f, n) == /\ f \in [0 .. n -> Seq(S)]
                         /\ f[0] = <<>>
                         /\ \A i \in Nat : i < n => f[i + 1] = Cat(f[i], ss[i + 1])
           T == {n \in Nat : n <= Len(ss) => \E f : Upto(f, n)}
<1>1. 0 \in T
  <2>1. Upto([i \in 0 .. 0 |-> <<>>], 0)
    BY CatFacts
  <2> HIDE DEF Upto
  <2> QED
    BY <2>1
<1>2. ASSUME NEW n \in Nat, n + 1 <= Len(ss), NEW f, Upto(f, n)
      PROVE  \E g : Upto(g, n + 1)
  <2>1. ss[n + 1] \in Seq(S) /\ f[n] \in Seq(S)
    BY <1>2
  <2>2. PICK x \in Seq(S) : x = Cat(f[n], ss[n + 1])
    BY <2>1, CatFacts
  <2> DEFINE g == [i \in 0 .. n + 1 |-> IF i = n + 1 THEN x ELSE f[i]]
  <2>3. g \in [0 .. n + 1 -> Seq(S)] /\ g[0] = <<>> /\ g[n + 1] = x
        /\ \A i \in Nat : i <= n => g[i] = f[i]
    BY <1>2
  <2> HIDE DEF g
  <2>4. ASSUME NEW i \in Nat, i < n + 1 PROVE g[i + 1] = Cat(g[i], ss[i + 1])
    <3>1. CASE i = n
      BY <2>2, <2>3, <3>1
    <3>2. CASE i < n
      <4>1. f[i + 1] = Cat(f[i], ss[i + 1])
        BY <1>2, <3>2
      <4>2. i <= n /\ i + 1 <= n /\ i + 1 \in Nat
        BY <3>2
      <4>3. g[i + 1] = f[i + 1] /\ g[i] = f[i]
        BY <2>3, <4>2
      <4> QED
        BY <4>1, <4>3
    <3> QED
      BY <2>4, <3>1, <3>2
  <2> QED
    BY <2>3, <2>4
<1> HIDE DEF Upto
<1>3. \A n \in Nat : n \in T => n + 1 \in T
  BY <1>2
<1>4. Len(ss) \in T
  <2> HIDE DEF T
  <2> QED
    BY <1>1, <1>3, Induct
<1> QED
  BY <1>4 DEF Upto, Flattens

(* Two of them end alike: by induction they agree everywhere.              *)
LEMMA FlattensUnique ==
  ASSUME NEW ss, Len(ss) \in Nat, NEW f, NEW g, Flattens(f, ss), Flattens(g, ss)
  PROVE  f[Len(ss)] = g[Len(ss)]
<1> DEFINE T == {n \in Nat : n <= Len(ss) => f[n] = g[n]}
<1>1. 0 \in T
  BY DEF Flattens
<1>2. ASSUME NEW n \in Nat, n + 1 <= Len(ss), f[n] = g[n] PROVE f[n + 1] = g[n + 1]
  <2>1. f[n + 1] = Cat(f[n], ss[n + 1]) /\ g[n + 1] = Cat(g[n], ss[n + 1])
    BY <1>2 DEF Flattens
  <2> QED
    BY <1>2, <2>1
<1>3. \A n \in Nat : n \in T => n + 1 \in T
  BY <1>2
<1>4. Len(ss) \in T
  <2> HIDE DEF T
  <2> QED
    BY <1>1, <1>3, Induct
<1> QED
  BY <1>4

(* FlattenSeq computes it.                                                 *)
LEMMA FlattenIs ==
  ASSUME NEW S, NEW ss \in Seq(Seq(S)), NEW f \in [0 .. Len(ss) -> Seq(S)],
         Flattens(f, ss)
  PROVE  FlattenSeq(ss) = f[Len(ss)]
<1> DEFINE N == Len(ss)
           Eq(h) == h = [i \in 1 .. N |-> IF i = 1 THEN ss[i] ELSE Cat(h[i - 1], ss[i])]
<1>2. CASE N = 0
  <2>1. FlattenSeq(ss) = <<>>
    BY <1>2 DEF FlattenSeq
  <2> QED
    BY <1>2, <2>1 DEF Flattens
<1>3. CASE N # 0
  <2> DEFINE h == CHOOSE g : Eq(g)
             e == [i \in 1 .. N |-> f[i]]
  <2>1. ASSUME NEW i \in 1 .. N
        PROVE  f[i] = IF i = 1 THEN ss[i] ELSE Cat(e[i - 1], ss[i])
    <3>1. f[i] = Cat(f[i - 1], ss[i]) /\ ss[i] \in Seq(S) /\ f[0] = <<>>
      <4>1. i - 1 \in Nat /\ i - 1 < Len(ss) /\ (i - 1) + 1 = i
        OBVIOUS
      <4> QED
        BY <4>1 DEF Flattens
    <3>2. CASE i = 1
      <4>1. f[i] = Cat(<<>>, ss[i])
        BY <3>1, <3>2
      <4> QED
        BY <3>1, <3>2, <4>1, CatFacts
    <3>3. CASE i # 1
      <4>1. e[i - 1] = f[i - 1]
        BY <3>3
      <4> QED
        BY <3>1, <3>3, <4>1
    <3> QED
      BY <3>2, <3>3
  <2>2. Eq(e)
    BY <2>1
  <2>3. Eq(h)
    BY <2>2, Zenon
  <2>4. FlattenSeq(ss) = h[N]
    BY <1>3 DEF FlattenSeq, Cat
  <2> DEFINE k == [i \in 0 .. N |-> IF i = 0 THEN <<>> ELSE h[i]]
  <2> HIDE DEF h
  <2>5. Flattens(k, ss)
    <3>1. ASSUME NEW i \in Nat, i < N PROVE k[i + 1] = Cat(k[i], ss[i + 1])
      <4>1. h[i + 1] = IF i + 1 = 1 THEN ss[i + 1] ELSE Cat(h[(i + 1) - 1], ss[i + 1])
        BY <2>3, <3>1
      <4>2. k[i + 1] = h[i + 1] /\ ss[i + 1] \in Seq(S)
        BY <3>1
      <4>3. CASE i = 0
        <5>1. k[i] = <<>> /\ k[i + 1] = ss[i + 1]
          BY <4>1, <4>2, <4>3
        <5> QED
          BY <4>2, <5>1, CatFacts
      <4>4. CASE i # 0
        <5>1. k[i] = h[i] /\ (i + 1) - 1 = i
          BY <3>1, <4>4
        <5> QED
          BY <4>1, <4>2, <4>4, <5>1
      <4> QED
        BY <4>3, <4>4
    <3>2. k[0] = <<>>
      OBVIOUS
    <3> HIDE DEF k
    <3> QED
      BY <3>1, <3>2 DEF Flattens
  <2> HIDE DEF k
  <2>6. f[N] = k[N]
    BY <2>5, FlattensUnique
  <2>7. k[N] = h[N]
    BY <1>3 DEF k
  <2> QED
    BY <2>4, <2>6, <2>7
<1> QED
  BY <1>2, <1>3

(* The flattened sequence has the elements of the others, ...              *)
LEMMA FlattenType ==
  ASSUME NEW S, NEW ss \in Seq(Seq(S))
  PROVE  FlattenSeq(ss) \in Seq(S)
<1>1. PICK f \in [0 .. Len(ss) -> Seq(S)] : Flattens(f, ss)
  BY FlattensExists
<1>2. f[Len(ss)] \in Seq(S)
  OBVIOUS
<1> QED
  BY <1>1, <1>2, FlattenIs

(* ... and one more sequence at the end goes to the end of the result.     *)
LEMMA FlattenAppend ==
  ASSUME NEW S, NEW ss \in Seq(Seq(S)), NEW x \in Seq(S)
  PROVE  FlattenSeq(Append(ss, x)) = FlattenSeq(ss) \o x
<1> DEFINE tt == Append(ss, x)
           N == Len(ss)
<1>1. tt \in Seq(Seq(S)) /\ N \in Nat /\ Len(tt) = N + 1 /\ tt[N + 1] = x
      /\ \A i \in 1 .. N : ss[i] = tt[i]
  OBVIOUS
<1> HIDE DEF tt
<1>2. PICK f \in [0 .. N -> Seq(S)] : Flattens(f, ss)
  BY FlattensExists
<1>3. PICK g \in [0 .. Len(tt) -> Seq(S)] : Flattens(g, tt)
  BY <1>1, FlattensExists
<1>4. f[N] = g[N]
  <2>1. ASSUME NEW i \in Nat, i < N PROVE g[i + 1] = Cat(g[i], ss[i + 1])
    <3>1. i < Len(tt) /\ i + 1 \in 1 .. N
      BY <1>1, <2>1
    <3>2. ss[i + 1] = tt[i + 1]
      BY <1>1, <3>1, Zenon
    <3> QED
      BY <1>3, <3>1, <3>2 DEF Flattens
  <2>2. Flattens(g, ss)
    BY <1>3, <2>1 DEF Flattens
  <2> QED
    BY <1>1, <1>2, <2>2, FlattensUnique
<1>5. g[N + 1] = Cat(g[N], x)
  <2>1. N \in Nat /\ N < Len(tt) /\ tt[N + 1] = x
    BY <1>1
  <2> HIDE DEF N
  <2> QED
    BY <1>3, <2>1 DEF Flattens
<1>6. FlattenSeq(ss) = f[N] /\ FlattenSeq(tt) = g[N + 1]
  BY <1>1, <1>2, <1>3, FlattenIs
<1> QED
  BY <1>4, <1>5, <1>6 DEF tt, Cat
(* Concatenation is associative.                                           *)
LEMMA CatAssoc ==
  ASSUME NEW S
  PROVE  \A a, b, c \in Seq(S) : Cat(a, Cat(b, c)) = Cat(Cat(a, b), c)
<1> SUFFICES ASSUME NEW a \in Seq(S), NEW b \in Seq(S), NEW c \in Seq(S)
             PROVE  a \o (b \o c) = (a \o b) \o c
  BY DEF Cat
<1> QED
  OBVIOUS

(* The latest of a set of indices is one of them, or 0.                    *)
IsLatest(m, I) == m \in {0} \cup I /\ \A i \in I : i <= m

(* It is the only such index.                                              *)
LEMMA LatestIs ==
  ASSUME NEW n \in Nat, NEW I \in SUBSET (1 .. n)
  PROVE  /\ Latest(I) \in 0 .. n
         /\ IsLatest(Latest(I), I)
         /\ \A m : IsLatest(m, I) => m = Latest(I)
<1> DEFINE T == {m \in Nat : \A i \in I : i <= m}
<1>1. n \in T
  OBVIOUS
<1>2. PICK m \in T : \A k \in T : m <= k
  <2>1. T \in SUBSET Nat /\ T # {}
    BY <1>1
  <2> HIDE DEF T
  <2> QED
    BY <2>1, Least
<1>3. m \in {0} \cup I
  <2> SUFFICES ASSUME m \notin {0} \cup I PROVE FALSE
    OBVIOUS
  <2>1. m - 1 \in T
    OBVIOUS
  <2> QED
    BY <1>2, <2>1
<1> DEFINE S == {0} \cup I
<1>4. m \in S /\ \A i \in S : m >= i
  BY <1>3
<1>5. Latest(I) \in S /\ \A i \in S : Latest(I) >= i
  <2>1. Latest(I) = CHOOSE x \in S : \A y \in S : x >= y
    BY Zenon DEF Latest, Max
  <2> HIDE DEF S
  <2> QED
    BY <1>4, <2>1, Zenon
<1> DEFINE l == Latest(I)
<1>6. l \in S /\ (\A i \in S : l >= i) /\ \A i \in S : i \in 0 .. n
  BY <1>5
<1> HIDE DEF l
<1>7. l \in 0 .. n /\ IsLatest(l, I)
  BY <1>6 DEF IsLatest
<1>8. ASSUME NEW k, IsLatest(k, I) PROVE k = l
  <2>1. k \in S /\ k >= l
    BY <1>6, <1>8 DEF IsLatest
  <2> QED
    BY <1>6, <2>1
<1> QED
  BY <1>7, <1>8 DEF l

(* Parts of a sequence.                                                    *)
LEMMA SubSeqFacts ==
  ASSUME NEW S, NEW q \in Seq(S), NEW a \in Nat \ {0}, NEW b \in Nat,
         a <= b + 1, b <= Len(q)
  PROVE  /\ SubSeq(q, a, b) \in Seq(S)
         /\ Len(SubSeq(q, a, b)) = b - a + 1
         /\ \A i \in 1 .. b - a + 1 : SubSeq(q, a, b)[i] = q[a + i - 1]
OBVIOUS

(* ... one element longer ...                                              *)
LEMMA SubSeqLonger ==
  ASSUME NEW S, NEW q \in Seq(S), NEW a \in Nat \ {0}, NEW b \in Nat,
         a <= b + 1, b + 1 <= Len(q)
  PROVE  SubSeq(q, a, b + 1) = Append(SubSeq(q, a, b), q[b + 1])
<1> DEFINE n == b - a + 1
           p == SubSeq(q, a, b)
           r == SubSeq(q, a, b + 1)
           u == Append(p, q[b + 1])
<1>1. /\ n \in Nat /\ p \in Seq(S) /\ Len(p) = n /\ r \in Seq(S) /\ Len(r) = n + 1
      /\ \A i \in 1 .. n : p[i] = q[a + i - 1]
      /\ \A i \in 1 .. n : r[i] = q[a + i - 1]
      /\ r[n + 1] = q[b + 1] /\ q[b + 1] \in S
  BY SubSeqFacts
<1> HIDE DEF n, p, r
<1>2. u \in Seq(S) /\ Len(u) = n + 1
      /\ (\A i \in 1 .. n : u[i] = p[i]) /\ u[n + 1] = q[b + 1]
  BY <1>1
<1>3. \A i \in 1 .. n + 1 : i \in 1 .. n \/ i = n + 1
  BY <1>1
<1> HIDE DEF u
<1>4. \A i \in 1 .. n + 1 : r[i] = u[i]
  BY <1>1, <1>2, <1>3, Zenon
<1>5. r = u
  BY <1>1, <1>2, <1>4
<1> QED
  BY <1>5 DEF r, u, p

(* ... and of a sequence that has one element more behind it.              *)
LEMMA SubSeqOfAppend ==
  ASSUME NEW S, NEW q \in Seq(S), NEW x \in S, NEW a \in Nat \ {0}, NEW b \in Nat,
         a <= b + 1, b <= Len(q)
  PROVE  SubSeq(Append(q, x), a, b) = SubSeq(q, a, b)
<1>1. Append(q, x) \in Seq(S) /\ Len(Append(q, x)) = Len(q) + 1
      /\ \A i \in 1 .. Len(q) : Append(q, x)[i] = q[i]
  OBVIOUS
<1> DEFINE n == b - a + 1
           p == SubSeq(q, a, b)
           r == SubSeq(Append(q, x), a, b)
<1>2. /\ p \in Seq(S) /\ Len(p) = n /\ \A i \in 1 .. n : p[i] = q[a + i - 1]
  BY SubSeqFacts
<1>3. /\ r \in Seq(S) /\ Len(r) = n /\ \A i \in 1 .. n : r[i] = Append(q, x)[a + i - 1]
  <2> DEFINE u == Append(q, x)
  <2>1. u \in Seq(S) /\ b <= Len(u)
    BY <1>1
  <2> HIDE DEF u
  <2>2. SubSeq(u, a, b) \in Seq(S) /\ Len(SubSeq(u, a, b)) = n
        /\ \A i \in 1 .. n : SubSeq(u, a, b)[i] = u[a + i - 1]
    BY <2>1, SubSeqFacts
  <2> QED
    BY <2>2 DEF u
<1>4. \A i \in 1 .. n : a + i - 1 \in 1 .. Len(q)
  OBVIOUS
<1> HIDE DEF p, r
<1>5. \A i \in 1 .. n : r[i] = p[i]
  BY <1>1, <1>2, <1>3, <1>4
<1>6. r = p
  BY <1>2, <1>3, <1>5
<1> QED
  BY <1>6 DEF p, r

(* The whole of a sequence and nothing of it.                              *)
LEMMA SubSeqEnds ==
  ASSUME NEW S, NEW q \in Seq(S)
  PROVE  /\ SubSeq(q, 1, Len(q)) = q
         /\ \A b \in Nat : SubSeq(q, b + 1, b) = <<>>
OBVIOUS

(* Texts of a sequence that has one element more behind it, ...            *)
LEMMA TextsFacts ==
  ASSUME NEW T \in Seq(Elements), NEW k
  PROVE  /\ Texts(T, k) \in Seq(Fragment)
         /\ \A e \in Elements :
              Texts(Append(T, e), k)
                = Cat(Texts(T, k), IF e.kind = k THEN e.text ELSE <<>>)
<1> DEFINE one(e) == IF e.kind = k THEN e.text ELSE <<>>
           all(R) == [i \in DOMAIN R |-> one(R[i])]
<1>1. \A e \in Elements : one(e) \in Seq(Fragment)
  BY DEF Elements
<1>2. \A R \in Seq(Elements) : all(R) \in Seq(Seq(Fragment)) /\ Len(all(R)) = Len(R)
  <2> SUFFICES ASSUME NEW R \in Seq(Elements)
               PROVE  all(R) \in Seq(Seq(Fragment)) /\ Len(all(R)) = Len(R)
    OBVIOUS
  <2>1. \A i \in 1 .. Len(R) : one(R[i]) \in Seq(Fragment)
    <3> HIDE DEF one
    <3> QED
      BY <1>1
  <2> HIDE DEF one
  <2>2. all(R) = [i \in 1 .. Len(R) |-> one(R[i])] /\ Len(R) \in Nat
    OBVIOUS
  <2> HIDE DEF all
  <2>3. all(R) \in [1 .. Len(R) -> Seq(Fragment)]
    BY <2>1, <2>2
  <2> QED
    BY <2>2, <2>3
<1>3. \A R : Texts(R, k) = FlattenSeq(all(R))
  BY Zenon DEF Texts
<1>4. Texts(T, k) \in Seq(Fragment)
  BY <1>2, <1>3, FlattenType
<1>5. ASSUME NEW e \in Elements
      PROVE  Texts(Append(T, e), k) = Cat(Texts(T, k), one(e))
  <2>1. Append(T, e) \in Seq(Elements) /\ Len(Append(T, e)) = Len(T) + 1
    OBVIOUS
  <2> DEFINE u == all(Append(T, e))
             v == Append(all(T), one(e))
  <2>2. u \in Seq(Seq(Fragment)) /\ v \in Seq(Seq(Fragment))
        /\ Len(u) = Len(T) + 1 /\ Len(v) = Len(T) + 1
    BY <1>1, <1>2, <2>1
  <2>3. \A i \in 1 .. Len(T) + 1 : u[i] = v[i]
    <3> SUFFICES ASSUME NEW i \in 1 .. Len(T) + 1 PROVE u[i] = v[i]
      OBVIOUS
    <3>1. u[i] = one(Append(T, e)[i])
      BY <2>1
    <3> HIDE DEF one
    <3>2. CASE i = Len(T) + 1
      BY <1>2, <3>1, <3>2
    <3>3. CASE i \in 1 .. Len(T)
      BY <1>2, <3>1, <3>3
    <3> QED
      BY <3>2, <3>3
  <2> HIDE DEF u, v
  <2>4. u = v
    BY <2>2, <2>3
  <2>5. FlattenSeq(v) = FlattenSeq(all(T)) \o one(e)
    <3> HIDE DEF one, all
    <3> QED
      BY <1>1, <1>2, FlattenAppend DEF v
  <2> HIDE DEF one, all
  <2> QED
    BY <1>3, <2>4, <2>5, Zenon DEF Cat, u
<1> QED
  BY <1>4, <1>5

(* ... of nothing, and where there is none of the kind.                    *)
LEMMA TextsNone ==
  ASSUME NEW T \in Seq(Elements), NEW k, \A i \in DOMAIN T : T[i].kind # k
  PROVE  Texts(T, k) = <<>>
<1> DEFINE P(n) == n <= Len(T) => Texts(SubSeq(T, 1, n), k) = <<>>
           N == {n \in Nat : P(n)}
<1>1. 0 \in N
  <2>1. SubSeq(T, 1, 0) = <<>>
    OBVIOUS
  <2>2. Texts(<<>>, k) = <<>>
    BY DEF Texts, FlattenSeq
  <2> QED
    BY <2>1, <2>2
<1>2. ASSUME NEW n \in Nat, P(n) PROVE P(n + 1)
  <2> SUFFICES ASSUME n + 1 <= Len(T) PROVE Texts(SubSeq(T, 1, n + 1), k) = <<>>
    OBVIOUS
  <2> DEFINE R == SubSeq(T, 1, n)
  <2>1. SubSeq(T, 1, n + 1) = Append(R, T[n + 1]) /\ R \in Seq(Elements)
    BY SubSeqLonger
  <2>2. T[n + 1] \in Elements /\ T[n + 1].kind # k
    OBVIOUS
  <2>3. Texts(R, k) = <<>>
    BY <1>2
  <2> HIDE DEF R
  <2>4. Texts(Append(R, T[n + 1]), k) = Cat(<<>>, <<>>)
    BY <2>1, <2>2, <2>3, TextsFacts
  <2>5. Cat(<<>>, <<>>) = <<>>
    BY CatFacts
  <2> QED
    BY <2>1, <2>4, <2>5
<1>3. Len(T) \in N
  <2> HIDE DEF P
  <2>1. \A n \in Nat : n \in N => n + 1 \in N
    BY <1>2
  <2> HIDE DEF N
  <2> QED
    BY <1>1, <2>1, Induct
<1>4. SubSeq(T, 1, Len(T)) = T
  BY SubSeqEnds
<1>5. Texts(SubSeq(T, 1, Len(T)), k) = <<>>
  BY <1>3
<1> QED
  BY <1>4, <1>5, Zenon
(* The part of the grammar the headers depend on: it holds of every        *)
(* beginning of a stream.                                                  *)
Named(T) ==
  /\ T \in Seq(Elements)
  /\ \A i \in DOMAIN T :
       T[i].kind = "value" => i - 1 \in DOMAIN T /\ T[i - 1].kind = "field"
Closing(e) == e.kind \in {"field", "headers_complete"}
Lasting(e) == e.kind = "value" /\ e.text # <<>>

(* Where the latest value is.                                              *)
LEMMA ValuesFacts ==
  ASSUME NEW T \in Seq(Elements)
  PROVE  /\ Values(T) \subseteq 1 .. Len(T)
         /\ Closed(T) \subseteq Values(T)
         /\ Latest(Values(T)) \in 0 .. Len(T)
         /\ \A i \in Values(T) : i <= Latest(Values(T))
         /\ Latest(Values(T)) = 0 \/ Latest(Values(T)) \in Values(T)
         /\ \A m : IsLatest(m, Values(T)) => m = Latest(Values(T))
<1>1. Values(T) \in SUBSET (1 .. Len(T)) /\ Len(T) \in Nat
  BY DEF Values
<1>2. Closed(T) \subseteq Values(T)
  BY DEF Closed
<1> QED
  BY <1>1, <1>2, LatestIs DEF IsLatest

(* One element more: which values there are and which lines are closed.    *)
LEMMA AppendValues ==
  ASSUME NEW D \in Seq(Elements), NEW e \in Elements
  PROVE  /\ Append(D, e) \in Seq(Elements)
         /\ Len(Append(D, e)) = Len(D) + 1
         /\ Append(D, e)[Len(D) + 1] = e
         /\ \A i \in 1 .. Len(D) : Append(D, e)[i] = D[i]
         /\ Values(Append(D, e)) = IF Lasting(e) THEN Values(D) \cup {Len(D) + 1}
                                                 ELSE Values(D)
         /\ Closed(Append(D, e)) = IF Closing(e) THEN Values(D) ELSE Closed(D)
<1> DEFINE A == Append(D, e)
           n == Len(D)
<1>1. /\ A \in Seq(Elements) /\ Len(A) = n + 1 /\ A[n + 1] = e /\ n \in Nat
      /\ \A i \in 1 .. n : A[i] = D[i]
      /\ DOMAIN A = 1 .. n + 1 /\ DOMAIN D = 1 .. n
  OBVIOUS
<1> HIDE DEF A, n
<1>2. Values(A) = IF Lasting(e) THEN Values(D) \cup {n + 1} ELSE Values(D)
  BY <1>1 DEF Values, Lasting
<1>3. ASSUME NEW i \in Values(D)
      PROVE  i \in 1 .. n /\ i \in Values(A)
             /\ (i \in Closed(A) <=> Closing(e) \/ i \in Closed(D))
  <2>1. i \in 1 .. n /\ i \in Values(A)
    BY <1>1, <1>2, <1>3 DEF Values
  <2>2. i \in Closed(A) <=> \E j \in i + 1 .. n + 1 : Closing(A[j])
    BY <1>1, <2>1 DEF Closed, Closing
  <2>3. i \in Closed(D) <=> \E j \in i + 1 .. n : Closing(D[j])
    BY <1>3 DEF Closed, Closing, n
  <2>4. ASSUME NEW j \in i + 1 .. n + 1
        PROVE  /\ j = n + 1 \/ j \in i + 1 .. n
               /\ j \in i + 1 .. n => j \in 1 .. n
    BY <1>1, <2>1
  <2>5. \A j \in i + 1 .. n : Closing(A[j]) <=> Closing(D[j])
    <3> SUFFICES ASSUME NEW j \in i + 1 .. n PROVE Closing(A[j]) <=> Closing(D[j])
      OBVIOUS
    <3>1. j \in i + 1 .. n + 1
      BY <1>1, <2>1
    <3>2. A[j] = D[j]
      BY <1>1, <2>4, <3>1, Zenon
    <3> QED
      BY <3>2, Zenon
  <2>6. n + 1 \in i + 1 .. n + 1 /\ \A j \in i + 1 .. n : j \in i + 1 .. n + 1
    BY <1>1, <2>1
  <2>7. A[n + 1] = e
    BY <1>1
  <2> QED
    BY <2>1, <2>2, <2>3, <2>4, <2>5, <2>6, <2>7, Zenon
<1>4. n + 1 \notin Closed(A)
  BY <1>1 DEF Closed
<1>5. Closed(A) \subseteq Values(A) /\ Closed(D) \subseteq Values(D)
  BY DEF Closed
<1>6. Closed(A) = IF Closing(e) THEN Values(D) ELSE Closed(D)
  <2>1. \A i \in Closed(A) : i \in Values(D)
    BY <1>2, <1>4, <1>5
  <2>2. CASE Closing(e)
    BY <1>3, <2>1, <2>2
  <2>3. CASE ~Closing(e)
    BY <1>3, <1>5, <2>1, <2>3
  <2> QED
    BY <2>2, <2>3
<1> QED
  BY <1>1, <1>2, <1>6 DEF A, n

(* Only the line of the latest value may be open: the name of a value      *)
(* closes the one before.                                                  *)
LEMMA OthersClosed ==
  ASSUME NEW D, Named(D)
  PROVE  Closed(D) = IF Pending(D) THEN Values(D) \ {Latest(Values(D))}
                                   ELSE Values(D)
<1> DEFINE w == Latest(Values(D))
<1>0. D \in Seq(Elements)
  BY DEF Named
<1>1. ASSUME NEW i \in Values(D), i # w PROVE i \in Closed(D)
  <2>1. /\ w \in Values(D) /\ i < w /\ w \in 1 .. Len(D) /\ i \in 1 .. Len(D)
    BY <1>0, <1>1, ValuesFacts
  <2>2. D[w].kind = "value" /\ D[i].kind = "value"
    BY <1>1, <2>1 DEF Values
  <2>3. w - 1 \in 1 .. Len(D) /\ D[w - 1].kind = "field"
    BY <2>1, <2>2 DEF Named
  <2>4. w - 1 # i
    BY <2>2, <2>3
  <2> HIDE DEF w
  <2>5. w - 1 \in i + 1 .. Len(D)
    BY <2>1, <2>3, <2>4
  <2> QED
    BY <2>3, <2>5 DEF Closed
<1>2. Closed(D) \subseteq Values(D)
  BY <1>0, ValuesFacts
<1> QED
  BY <1>1, <1>2 DEF Pending

(* The names of the lines so far do not depend on what follows.            *)
LEMMA NameStays ==
  ASSUME NEW D \in Seq(Elements), NEW e \in Elements, NEW i \in 1 .. Len(D)
  PROVE  /\ Name(Append(D, e), i) = Name(D, i)
         /\ Name(D, i) \in Seq(Fragment)
<1> DEFINE A == Append(D, e)
           I == {j \in Values(D) : j < i}
           f == Latest(I)
<1>1. {j \in Values(A) : j < i} = I
  BY AppendValues
<1>2. f \in 0 .. i - 1
  <2>1. I \in SUBSET (1 .. i - 1) /\ i - 1 \in Nat
    BY ValuesFacts
  <2>2. f \in {0} \cup I
    <3> HIDE DEF I
    <3> QED
      BY <2>1, LatestIs DEF IsLatest
  <2> QED
    BY <2>1, <2>2
<1> HIDE DEF f, I
<1>3. SubSeq(A, f + 1, i) = SubSeq(D, f + 1, i) /\ SubSeq(D, f + 1, i) \in Seq(Elements)
  BY <1>2, SubSeqOfAppend, SubSeqFacts
<1>4. Name(A, i) = Texts(SubSeq(A, f + 1, i), "field")
  BY <1>1, Zenon DEF Name, f
<1>5. Name(D, i) = Texts(SubSeq(D, f + 1, i), "field")
  BY Zenon DEF Name, f, I
<1>6. Name(D, i) \in Seq(Fragment)
  BY <1>3, <1>5, TextsFacts
<1> QED
  BY <1>3, <1>4, <1>5, <1>6, Zenon

(* The name of a line is not empty.                                        *)
LEMMA NameNotEmpty ==
  ASSUME NEW D, Named(D), NEW i \in Values(D)
  PROVE  Name(D, i) # <<>>
<1> DEFINE I == {j \in Values(D) : j < i}
           f == Latest(I)
<1>0. D \in Seq(Elements)
  BY DEF Named
<1>1. i \in 1 .. Len(D) /\ i - 1 \in 1 .. Len(D) /\ D[i - 1].kind = "field"
      /\ D[i].kind = "value" /\ D[i] \in Elements /\ D[i - 1] \in Elements
  BY <1>0 DEF Values, Named
<1>2. D[i - 1].text # <<>> /\ D[i - 1].text \in Seq(Fragment)
  BY <1>1 DEF Elements
<1>3. f \in 0 .. i - 2
  <2>1. I \in SUBSET (1 .. i - 2) /\ i - 2 \in Nat
    <3>1. \A j \in Values(D) : D[j].kind = "value" /\ j \in 1 .. Len(D)
      BY <1>0 DEF Values
    <3>2. ASSUME NEW j \in I PROVE j \in 1 .. i - 2
      <4>1. j < i /\ D[j].kind = "value" /\ j \in 1 .. Len(D)
        BY <3>1
      <4>2. j # i - 1
        BY <1>1, <4>1
      <4> QED
        BY <1>1, <4>1, <4>2
    <3> HIDE DEF I
    <3> QED
      BY <1>1, <3>2
  <2>2. f \in {0} \cup I
    <3> HIDE DEF I
    <3> QED
      BY <2>1, LatestIs DEF IsLatest
  <2> QED
    BY <2>1, <2>2
<1> HIDE DEF f, I
<1> DEFINE R == SubSeq(D, f + 1, i - 2)
           Q == SubSeq(D, f + 1, i - 1)
<1>4. R \in Seq(Elements) /\ Q = Append(R, D[i - 1])
      /\ SubSeq(D, f + 1, i) = Append(Q, D[i]) /\ Q \in Seq(Elements)
  <2>1. /\ f + 1 \in Nat \ {0} /\ i - 2 \in Nat /\ i - 1 \in Nat
        /\ f + 1 <= (i - 2) + 1 /\ f + 1 <= (i - 1) + 1
        /\ (i - 2) + 1 = i - 1 /\ (i - 1) + 1 = i
        /\ i <= Len(D) /\ i - 1 <= Len(D) /\ i - 2 <= Len(D)
    BY <1>0, <1>1, <1>3
  <2>2. R \in Seq(Elements) /\ Q \in Seq(Elements)
    BY <1>0, <2>1, SubSeqFacts
  <2>3. SubSeq(D, f + 1, (i - 2) + 1) = Append(R, D[(i - 2) + 1])
    BY <1>0, <2>1, SubSeqLonger
  <2>4. SubSeq(D, f + 1, (i - 1) + 1) = Append(Q, D[(i - 1) + 1])
    BY <1>0, <2>1, SubSeqLonger
  <2> QED
    BY <2>1, <2>2, <2>3, <2>4
<1> HIDE DEF R, Q
<1>5. Texts(Q, "field") = Cat(Texts(R, "field"), D[i - 1].text)
      /\ Texts(R, "field") \in Seq(Fragment)
  BY <1>1, <1>4, TextsFacts
<1>6. Texts(Append(Q, D[i]), "field") = Cat(Texts(Q, "field"), <<>>)
  BY <1>1, <1>4, TextsFacts
<1>7. \A a, b \in Seq(Fragment) : b # <<>> => Cat(Cat(a, b), <<>>) # <<>>
  BY DEF Cat
<1>8. Name(D, i) = Texts(Append(Q, D[i]), "field")
  BY <1>4, Zenon DEF Name, f, I
<1> QED
  BY <1>2, <1>5, <1>6, <1>7, <1>8, Zenon

(* The latest of some indices is one of them.                              *)
LEMMA LatestOf ==
  ASSUME NEW n \in Nat, NEW I \in SUBSET (1 .. n), NEW i \in I
  PROVE  Latest(I) \in I
<1>1. Latest(I) \in {0} \cup I /\ i <= Latest(I) /\ i # 0
  BY LatestIs DEF IsLatest
<1> QED
  BY <1>1

(* What is stored depends on the closed lines, their names and values ...  *)
LEMMA StoredSame ==
  ASSUME NEW D \in Seq(Elements), NEW A, Closed(A) = Closed(D),
         \A i \in 1 .. Len(D) : A[i] = D[i] /\ Name(A, i) = Name(D, i)
  PROVE  StoredHeaders(A) = StoredHeaders(D)
<1> DEFINE C == Closed(D)
           I(n) == {i \in C : Name(D, i) = n}
           K == {Name(D, i) : i \in C}
<1>1. C \in SUBSET (1 .. Len(D)) /\ Len(D) \in Nat
  BY ValuesFacts
<1>2. \A n : {i \in C : Name(A, i) = n} = I(n)
  BY <1>1
<1>3. {Name(A, i) : i \in C} = K
  BY <1>1
<1>4. \A n \in K : A[Latest(I(n))].text = D[Latest(I(n))].text
  <2> SUFFICES ASSUME NEW i \in C, NEW n, n = Name(D, i)
               PROVE  A[Latest(I(n))].text = D[Latest(I(n))].text
    OBVIOUS
  <2>1. i \in I(n) /\ I(n) \in SUBSET (1 .. Len(D))
    BY <1>1
  <2>2. Latest(I(n)) \in 1 .. Len(D)
    <3> HIDE DEF I
    <3>1. Latest(I(n)) \in I(n)
      BY <1>1, <2>1, LatestOf
    <3> QED
      BY <2>1, <3>1
  <2> HIDE DEF I
  <2> QED
    BY <2>2
<1> HIDE DEF I
<1>5. StoredHeaders(A) = [n \in K |-> A[Latest(I(n))].text]
  BY <1>2, <1>3 DEF StoredHeaders
<1>6. StoredHeaders(D) = [n \in K |-> D[Latest(I(n))].text]
  BY Zenon DEF StoredHeaders, I
<1> HIDE DEF K
<1> QED
  BY <1>4, <1>5, <1>6

(* ... and grows by the line that is closed last.                          *)
LEMMA StoredGrows ==
  ASSUME NEW D \in Seq(Elements), NEW A, NEW w \in 1 .. Len(D),
         Closed(A) = Closed(D) \cup {w}, \A i \in Closed(D) : i < w,
         \A i \in 1 .. Len(D) : A[i] = D[i] /\ Name(A, i) = Name(D, i)
  PROVE  StoredHeaders(A) = With(Name(D, w), D[w].text, StoredHeaders(D))
<1> DEFINE C == Closed(D)
           I(n) == {i \in C : Name(D, i) = n}
           J(n) == {i \in Closed(A) : Name(A, i) = n}
           K == {Name(D, i) : i \in C}
<1>1. C \in SUBSET (1 .. Len(D)) /\ Len(D) \in Nat
  BY ValuesFacts
<1>2. \A n : J(n) = IF n = Name(D, w) THEN I(n) \cup {w} ELSE I(n)
  BY <1>1
<1>3. {Name(A, i) : i \in Closed(A)} = {Name(D, w)} \cup K
  BY <1>1
<1>4. Latest(J(Name(D, w))) = w
  <2> DEFINE j == J(Name(D, w))
  <2>1. j \in SUBSET (1 .. Len(D)) /\ w \in j /\ \A i \in j : i <= w
    BY <1>1
  <2> HIDE DEF j, J
  <2>2. IsLatest(w, j)
    BY <2>1 DEF IsLatest
  <2>3. w = Latest(j)
    BY <1>1, <2>1, <2>2, LatestIs
  <2> QED
    BY <2>3 DEF j
<1>5. \A n \in K : A[Latest(I(n))].text = D[Latest(I(n))].text
  <2> SUFFICES ASSUME NEW i \in C, NEW n, n = Name(D, i)
               PROVE  A[Latest(I(n))].text = D[Latest(I(n))].text
    OBVIOUS
  <2>1. i \in I(n) /\ I(n) \in SUBSET (1 .. Len(D))
    BY <1>1
  <2>2. Latest(I(n)) \in 1 .. Len(D)
    <3> HIDE DEF I
    <3>1. Latest(I(n)) \in I(n)
      BY <1>1, <2>1, LatestOf
    <3> QED
      BY <2>1, <3>1
  <2> HIDE DEF I
  <2> QED
    BY <2>2
<1>6. StoredHeaders(A) =
        [n \in {Name(A, i) : i \in Closed(A)} |-> A[Latest(J(n))].text]
  BY Zenon DEF StoredHeaders, J
<1>7. StoredHeaders(D) = [n \in K |-> D[Latest(I(n))].text]
  BY Zenon DEF StoredHeaders, I
<1> HIDE DEF I, J, K
<1>8. StoredHeaders(A) = [n \in {Name(D, w)} \cup K |-> A[Latest(J(n))].text]
  BY <1>3, <1>6
<1>9. \A n \in {Name(D, w)} \cup K :
        A[Latest(J(n))].text = IF n = Name(D, w) THEN D[w].text
                               ELSE StoredHeaders(D)[n]
  <2>1. A[Latest(J(Name(D, w)))].text = D[w].text
    BY <1>4
  <2>2. ASSUME NEW n \in K, n # Name(D, w)
        PROVE  A[Latest(J(n))].text = StoredHeaders(D)[n]
    <3>1. J(n) = I(n)
      BY <1>2, <2>2
    <3>2. StoredHeaders(D)[n] = D[Latest(I(n))].text
      BY <1>7
    <3> QED
      BY <1>5, <3>1, <3>2, Zenon
  <2> QED
    BY <2>1, <2>2
<1>10. DOMAIN StoredHeaders(D) = K
  BY <1>7
<1> QED
  BY <1>8, <1>9, <1>10 DEF With
(* The names behind a value, with one element more.                        *)
LEMMA NamesBehind ==
  ASSUME NEW D \in Seq(Elements), NEW e \in Elements, NEW w \in 0 .. Len(D)
  PROVE  /\ Texts(SubSeq(D, w + 1, Len(D)), "field") \in Seq(Fragment)
         /\ Texts(SubSeq(Append(D, e), w + 1, Len(D) + 1), "field")
              = Cat(Texts(SubSeq(D, w + 1, Len(D)), "field"),
                    IF e.kind = "field" THEN e.text ELSE <<>>)
<1> DEFINE A == Append(D, e)
           n == Len(D)
           R == SubSeq(D, w + 1, n)
<1>1. A \in Seq(Elements) /\ Len(A) = n + 1 /\ A[n + 1] = e /\ n \in Nat /\ w <= n
  OBVIOUS
<1>2. R \in Seq(Elements) /\ SubSeq(A, w + 1, n) = R
  BY SubSeqFacts, SubSeqOfAppend
<1> HIDE DEF A, R, n
<1>3. SubSeq(A, w + 1, n + 1) = Append(R, e)
  <2>1. w + 1 \in Nat \ {0} /\ w + 1 <= n + 1 /\ n + 1 <= Len(A)
    BY <1>1
  <2>2. SubSeq(A, w + 1, n + 1) = Append(SubSeq(A, w + 1, n), A[n + 1])
    BY <1>1, <2>1, SubSeqLonger
  <2> QED
    BY <1>1, <1>2, <2>2
<1>4. Texts(R, "field") \in Seq(Fragment)
      /\ Texts(Append(R, e), "field")
           = Cat(Texts(R, "field"), IF e.kind = "field" THEN e.text ELSE <<>>)
  BY <1>2, TextsFacts
<1> QED
  BY <1>3, <1>4, Zenon DEF A, R, n

(* What save_headers works with has its types; a line that is not stored   *)
(* yet is stored by it only if the value has arrived.                      *)
LEMMA BufferedType ==
  ASSUME NEW D, Named(D)
  PROVE  /\ D \in Seq(Elements)
         /\ BufferedName(D) \in Seq(Fragment)
         /\ BufferedValue(D) \in Seq(Fragment)
         /\ Pending(D) => BufferedName(D) # <<>> /\ BufferedValue(D) # <<>>
         /\ ~Pending(D) => BufferedValue(D) = <<>>
<1> DEFINE w == Latest(Values(D))
<1>0. D \in Seq(Elements)
  BY DEF Named
<1>1. w \in 0 .. Len(D)
  BY <1>0, ValuesFacts
<1>2. ASSUME Pending(D)
      PROVE  /\ BufferedName(D) = Name(D, w) /\ BufferedValue(D) = D[w].text
             /\ w \in Values(D) /\ w \in 1 .. Len(D)
             /\ D[w].text # <<>> /\ D[w] \in Elements
  BY <1>0, <1>2 DEF Pending, BufferedName, BufferedValue, Values
<1>3. CASE Pending(D)
  <2>1. \E e : e \in Elements
    BY <1>2, <1>3
  <2>2. Name(D, w) \in Seq(Fragment)
    BY <1>0, <1>2, <1>3, <2>1, NameStays
  <2>3. Name(D, w) # <<>>
    BY <1>2, <1>3, NameNotEmpty
  <2>4. D[w].text \in Seq(Fragment)
    BY <1>2, <1>3 DEF Elements
  <2> QED
    BY <1>0, <1>2, <1>3, <2>2, <2>3, <2>4
<1>4. CASE ~Pending(D)
  <2>1. BufferedName(D) = Texts(SubSeq(D, w + 1, Len(D)), "field")
        /\ BufferedValue(D) = <<>>
    BY <1>4 DEF BufferedName, BufferedValue
  <2>2. SubSeq(D, w + 1, Len(D)) \in Seq(Elements)
    <3> HIDE DEF w
    <3> QED
      BY <1>0, <1>1, SubSeqFacts
  <2>3. Texts(SubSeq(D, w + 1, Len(D)), "field") \in Seq(Fragment)
    BY <2>2, TextsFacts
  <2> QED
    BY <1>0, <1>4, <2>1, <2>3
<1> QED
  BY <1>3, <1>4

(* An element that is neither a name nor a value that lasts nor the end of *)
(* a line changes nothing, ...                                             *)
LEMMA OthersPass ==
  ASSUME NEW D, Named(D), NEW e \in Elements,
         e.kind # "field", ~Lasting(e), e.kind = "headers_complete" => ~Pending(D)
  PROVE  /\ BufferedName(Append(D, e)) = BufferedName(D)
         /\ BufferedValue(Append(D, e)) = BufferedValue(D)
         /\ StoredHeaders(Append(D, e)) = StoredHeaders(D)
<1> DEFINE A == Append(D, e)
           w == Latest(Values(D))
<1>0. D \in Seq(Elements)
  BY DEF Named
<1>1. Closed(A) = Closed(D) /\ Values(A) = Values(D)
  BY <1>0, AppendValues, OthersClosed DEF Closing
<1>2. Pending(A) <=> Pending(D)
  BY <1>1 DEF Pending
<1>3. /\ w \in 0 .. Len(D) /\ Len(A) = Len(D) + 1
      /\ \A i \in 1 .. Len(D) : A[i] = D[i] /\ Name(A, i) = Name(D, i)
  BY <1>0, ValuesFacts, AppendValues, NameStays
<1>4. CASE Pending(D)
  <2>1. w \in 1 .. Len(D)
    BY <1>0, <1>4, ValuesFacts DEF Pending
  <2>2. BufferedName(A) = Name(A, w) /\ BufferedName(D) = Name(D, w)
        /\ BufferedValue(A) = A[w].text /\ BufferedValue(D) = D[w].text
    BY <1>1, <1>2, <1>4 DEF BufferedName, BufferedValue
  <2> HIDE DEF A, w
  <2>3. BufferedName(A) = BufferedName(D) /\ BufferedValue(A) = BufferedValue(D)
    BY <1>3, <2>1, <2>2
  <2> QED
    BY <1>0, <1>1, <1>3, <2>3, StoredSame DEF A
<1>5. CASE ~Pending(D)
  <2> DEFINE t == Texts(SubSeq(D, w + 1, Len(D)), "field")
  <2>1. BufferedName(A) = Texts(SubSeq(A, w + 1, Len(D) + 1), "field")
        /\ BufferedName(D) = t
        /\ BufferedValue(A) = <<>> /\ BufferedValue(D) = <<>>
    BY <1>1, <1>2, <1>3, <1>5 DEF BufferedName, BufferedValue
  <2>2. t \in Seq(Fragment) /\ Texts(SubSeq(A, w + 1, Len(D) + 1), "field") = Cat(t, <<>>)
    <3> HIDE DEF w
    <3> QED
      BY <1>0, <1>3, NamesBehind
  <2> HIDE DEF t, w, A
  <2>3. Cat(t, <<>>) = t
    BY <2>2 DEF Cat
  <2>4. BufferedName(A) = BufferedName(D) /\ BufferedValue(A) = BufferedValue(D)
    BY <2>1, <2>2, <2>3, Zenon
  <2> QED
    BY <1>0, <1>1, <1>3, <2>4, StoredSame DEF A
<1> QED
  BY <1>4, <1>5

(* ... a value, which follows its name, is kept, ...                       *)
LEMMA ValueArrives ==
  ASSUME NEW D, Named(D), NEW e \in Elements, e.kind = "value",
         Len(D) \in DOMAIN D, D[Len(D)].kind = "field"
  PROVE  /\ ~Pending(D)
         /\ BufferedName(Append(D, e)) = BufferedName(D)
         /\ BufferedValue(Append(D, e)) = e.text
         /\ StoredHeaders(Append(D, e)) = StoredHeaders(D)
<1> DEFINE A == Append(D, e)
           n == Len(D)
           w == Latest(Values(D))
<1>0. D \in Seq(Elements)
  BY DEF Named
<1>1. ~Pending(D)
  <2> SUFFICES ASSUME w \in Values(D) PROVE w \in Closed(D)
    BY DEF Pending
  <2>1. D[w].kind = "value" /\ w \in 1 .. n
    BY <1>0 DEF Values
  <2>2. w # n /\ n \in Nat
    BY <1>0, <2>1
  <2> HIDE DEF w
  <2>3. n \in w + 1 .. Len(D)
    BY <2>1, <2>2
  <2> QED
    BY <2>3 DEF Closed
<1>2. CASE e.text = <<>>
  <2>1. BufferedName(A) = BufferedName(D) /\ BufferedValue(A) = BufferedValue(D)
        /\ StoredHeaders(A) = StoredHeaders(D)
    BY <1>2, OthersPass DEF Lasting
  <2>2. BufferedValue(D) = <<>>
    BY <1>1 DEF BufferedValue
  <2> QED
    BY <1>1, <1>2, <2>1, <2>2
<1>3. CASE e.text # <<>>
  <2>1. /\ Values(A) = Values(D) \cup {n + 1} /\ Closed(A) = Closed(D)
        /\ Len(A) = n + 1 /\ A[n + 1] = e
        /\ \A i \in 1 .. n : A[i] = D[i] /\ Name(A, i) = Name(D, i)
    BY <1>0, <1>3, AppendValues, NameStays DEF Lasting, Closing
  <2>2. Values(D) \subseteq 1 .. n /\ Closed(D) \subseteq Values(D) /\ n \in Nat
        /\ w \in 0 .. n
    BY <1>0, ValuesFacts
  <2>3. Latest(Values(A)) = n + 1
    <3>1. IsLatest(n + 1, Values(A))
      BY <2>1, <2>2 DEF IsLatest
    <3> QED
      BY <1>0, <3>1, AppendValues, ValuesFacts
  <2>4. Pending(A)
    <3>1. n + 1 \in Values(A)
      BY <2>1
    <3>2. n + 1 \notin Closed(A)
      BY <2>1, <2>2
    <3> QED
      BY <2>3, <3>1, <3>2, Zenon DEF Pending
  <2>5. BufferedName(A) = Name(A, n + 1) /\ BufferedValue(A) = e.text
    BY <2>1, <2>3, <2>4 DEF BufferedName, BufferedValue
  <2>6. {j \in Values(A) : j < n + 1} = Values(D)
    BY <2>1, <2>2
  <2>7. Name(A, n + 1) = Texts(SubSeq(A, w + 1, n + 1), "field")
    BY <2>6, Zenon DEF Name
  <2> DEFINE t == Texts(SubSeq(D, w + 1, n), "field")
  <2>8. t \in Seq(Fragment) /\ Texts(SubSeq(A, w + 1, n + 1), "field") = Cat(t, <<>>)
    <3> HIDE DEF w
    <3> QED
      BY <1>0, <2>2, NamesBehind
  <2>9. BufferedName(D) = t
    BY <1>1, Zenon DEF BufferedName
  <2> HIDE DEF t, w
  <2>10. Cat(t, <<>>) = t
    BY <2>8 DEF Cat
  <2>11. BufferedName(A) = BufferedName(D)
    BY <2>5, <2>7, <2>8, <2>9, <2>10, Zenon
  <2>12. StoredHeaders(A) = StoredHeaders(D)
    BY <1>0, <2>1, StoredSame
  <2> QED
    BY <1>1, <2>5, <2>11, <2>12
<1> QED
  BY <1>2, <1>3

(* ... and a name or the end of the headers stores the line that waits.    *)
LEMMA LineCloses ==
  ASSUME NEW D, Named(D), NEW e \in Elements, Closing(e)
  PROVE  /\ BufferedName(Append(D, e)) =
              Cat(IF Pending(D) THEN <<>> ELSE BufferedName(D), e.text)
         /\ BufferedValue(Append(D, e)) = <<>>
         /\ ~Pending(Append(D, e))
         /\ StoredHeaders(Append(D, e)) =
              IF Pending(D) THEN With(BufferedName(D), BufferedValue(D), StoredHeaders(D))
                            ELSE StoredHeaders(D)
<1> DEFINE A == Append(D, e)
           n == Len(D)
           w == Latest(Values(D))
           t == Texts(SubSeq(D, w + 1, n), "field")
<1>0. D \in Seq(Elements)
  BY DEF Named
<1>1. /\ Values(A) = Values(D) /\ Closed(A) = Values(D)
      /\ Len(A) = n + 1
      /\ \A i \in 1 .. n : A[i] = D[i] /\ Name(A, i) = Name(D, i)
  BY <1>0, AppendValues, NameStays DEF Lasting, Closing
<1>2. ~Pending(A)
  BY <1>1 DEF Pending
<1>3. w \in 0 .. n /\ n \in Nat
  BY <1>0, ValuesFacts
<1>4. t \in Seq(Fragment) /\ e.text \in Seq(Fragment)
      /\ Texts(SubSeq(A, w + 1, n + 1), "field") = Cat(t, e.text)
  <2> HIDE DEF w
  <2>1. e.text = IF e.kind = "field" THEN e.text ELSE <<>>
    BY DEF Closing, Elements
  <2>2. e.text \in Seq(Fragment)
    BY DEF Elements
  <2> QED
    BY <1>0, <1>3, <2>1, <2>2, NamesBehind
<1>5. BufferedName(A) = Cat(t, e.text) /\ BufferedValue(A) = <<>>
  BY <1>1, <1>2, <1>4, Zenon DEF BufferedName, BufferedValue
<1>6. CASE Pending(D)
  <2>1. w \in Values(D) /\ w \notin Closed(D) /\ w \in 1 .. n
    BY <1>0, <1>6, ValuesFacts DEF Pending
  <2>2. \A i \in DOMAIN SubSeq(D, w + 1, n) : SubSeq(D, w + 1, n)[i].kind # "field"
    <3>1. \A i \in w + 1 .. n : D[i].kind # "field"
      BY <2>1 DEF Closed
    <3> HIDE DEF w
    <3>2. /\ SubSeq(D, w + 1, n) \in Seq(Elements)
          /\ Len(SubSeq(D, w + 1, n)) = n - (w + 1) + 1
          /\ \A i \in 1 .. n - (w + 1) + 1 : SubSeq(D, w + 1, n)[i] = D[(w + 1) + i - 1]
      BY <1>0, <1>3, SubSeqFacts
    <3>3. \A i \in 1 .. n - (w + 1) + 1 : (w + 1) + i - 1 \in w + 1 .. n
      BY <1>3
    <3>4. DOMAIN SubSeq(D, w + 1, n) = 1 .. n - (w + 1) + 1
      BY <3>2
    <3> QED
      BY <3>1, <3>2, <3>3, <3>4
  <2>3. SubSeq(D, w + 1, n) \in Seq(Elements)
    <3> HIDE DEF w
    <3> QED
      BY <1>0, <1>3, SubSeqFacts
  <2>4. t = <<>>
    BY <2>2, <2>3, TextsNone
  <2>5. Closed(A) = Closed(D) \cup {w} /\ \A i \in Closed(D) : i < w
    <3>1. Closed(D) = Values(D) \ {w}
      BY <1>6, OthersClosed
    <3>2. \A i \in Values(D) : i <= w /\ i \in 1 .. n
      BY <1>0, ValuesFacts
    <3> HIDE DEF w
    <3>3. Closed(A) = Closed(D) \cup {w}
      BY <1>1, <2>1, <3>1
    <3>4. ASSUME NEW i \in Closed(D) PROVE i < w
      <4>1. i \in Values(D) /\ i # w
        BY <3>1
      <4>2. i <= w /\ i \in Nat /\ w \in Nat
        BY <1>3, <2>1, <3>2, <4>1
      <4> QED
        BY <4>1, <4>2
    <3> QED
      BY <3>3, <3>4
  <2>6. StoredHeaders(A) = With(Name(D, w), D[w].text, StoredHeaders(D))
    BY <1>0, <1>1, <2>1, <2>5, StoredGrows
  <2>7. BufferedName(D) = Name(D, w) /\ BufferedValue(D) = D[w].text
    BY <1>6 DEF BufferedName, BufferedValue
  <2> HIDE DEF A, w, t
  <2> QED
    BY <1>2, <1>5, <1>6, <2>4, <2>6, <2>7, Zenon DEF A
<1>7. CASE ~Pending(D)
  <2>1. Closed(A) = Closed(D)
    BY <1>1, <1>7, OthersClosed
  <2>2. StoredHeaders(A) = StoredHeaders(D)
    BY <1>0, <1>1, <2>1, StoredSame
  <2>3. BufferedName(D) = t
    BY <1>7, Zenon DEF BufferedName
  <2> HIDE DEF A, w, t
  <2> QED
    BY <1>2, <1>5, <1>7, <2>2, <2>3, Zenon DEF A
<1> QED
  BY <1>6, <1>7

(* A part of an element, from its beginning, is an element too.            *)
LEMMA PartOf ==
  ASSUME NEW x \in Elements, NEW m \in 1 .. Len(x.text)
  PROVE  Element(x.kind, SubSeq(x.text, 1, m)) \in Elements
<1> DEFINE y == x.text
           k == x.kind
           z == SubSeq(y, 1, m)
<1>1. /\ k \in Kind /\ y \in Seq(Fragment)
      /\ k = "begin" => y \in Seq(Methods)
      /\ k \in {"headers_complete", "message_complete", "junk"} => y = <<>>
  BY DEF Elements
<1> HIDE DEF y, k
<1>2. m \in Nat /\ m >= 1 /\ m <= Len(y) /\ Len(y) \in Nat
  BY <1>1 DEF y
<1>3. /\ z \in Seq(Fragment) /\ Len(z) = m
      /\ y \in Seq(Methods) => z \in Seq(Methods)
  BY <1>1, <1>2
<1>4. z # <<>> /\ y # <<>>
  BY <1>2, <1>3
<1> HIDE DEF z
<1>5. Element(k, z) \in Elements
  BY <1>1, <1>3, <1>4 DEF Elements, Element
<1> QED
  BY <1>5 DEF k, y, z

(* The beginnings of a stream are named, and a stream's elements.          *)
LEMMA StreamFacts ==
  ASSUME stream \in Streams
  PROVE  /\ stream \in Seq(Elements)
         /\ \A i \in 1 .. Len(stream) : stream[i] \in Elements
         /\ \A m \in 0 .. Len(stream) :
              Named(SubSeq(stream, 1, m)) /\ Len(SubSeq(stream, 1, m)) = m
              /\ \A i \in 1 .. m : SubSeq(stream, 1, m)[i] = stream[i]
         /\ \A i \in 1 .. Len(stream) : stream[i].kind = "value" =>
              i - 1 \in 1 .. Len(stream) /\ stream[i - 1].kind = "field"
<1>1. IsStream(stream)
  BY StreamsAssumption
<1>2. stream \in Seq(Elements) /\ DOMAIN stream = 1 .. Len(stream)
      /\ Len(stream) \in Nat
  BY <1>1 DEF IsStream
<1>3. \A i \in 1 .. Len(stream) : stream[i].kind = "value" =>
        i - 1 \in 1 .. Len(stream) /\ stream[i - 1].kind = "field"
  BY <1>1, <1>2 DEF IsStream
<1>4. ASSUME NEW m \in 0 .. Len(stream)
      PROVE  Named(SubSeq(stream, 1, m)) /\ Len(SubSeq(stream, 1, m)) = m
             /\ \A i \in 1 .. m : SubSeq(stream, 1, m)[i] = stream[i]
  <2> DEFINE T == SubSeq(stream, 1, m)
  <2>1. T \in Seq(Elements) /\ Len(T) = m /\ m \in Nat
        /\ \A i \in 1 .. m : T[i] = stream[i]
    BY <1>2
  <2> HIDE DEF T
  <2>2. ASSUME NEW i \in 1 .. m, T[i].kind = "value"
        PROVE  i - 1 \in 1 .. m /\ T[i - 1].kind = "field"
    <3>1. i \in 1 .. Len(stream) /\ stream[i].kind = "value"
      BY <1>2, <2>1, <2>2
    <3>2. i - 1 \in 1 .. m /\ stream[i - 1].kind = "field"
      BY <1>3, <2>1, <3>1
    <3> QED
      BY <2>1, <3>2
  <2>3. DOMAIN T = 1 .. m
    BY <2>1
  <2>4. Named(T)
    BY <2>1, <2>2, <2>3 DEF Named
  <2> QED
    BY <2>1, <2>4 DEF T
<1> QED
  BY <1>2, <1>3, <1>4

(* What has been handed over: whole elements, and a part of the next.      *)
Whole == SubSeq(stream, 1, next - 1)
Part  == SubSeq(stream[next].text, 1, offset)

(* What is handed over is the whole elements, and the part behind them.    *)
LEMMA ConsumedIs ==
  ASSUME TypeOK, Position
  PROVE  /\ Named(Whole) /\ Len(Whole) = next - 1
         /\ \A i \in 1 .. next - 1 : Whole[i] = stream[i]
         /\ offset = 0 => Consumed = Whole
         /\ offset > 0 =>
              /\ next \in 1 .. Len(stream)
              /\ Part \in Seq(Fragment) /\ Part # <<>>
              /\ Element(stream[next].kind, Part) \in Elements
              /\ Consumed = Append(Whole, Element(stream[next].kind, Part))
<1>1. /\ stream \in Seq(Elements) /\ next \in 1 .. Len(stream) + 1 /\ offset \in Nat
      /\ stream \in Streams
  BY StreamFacts DEF TypeOK
<1>2. Named(Whole) /\ Len(Whole) = next - 1
      /\ \A i \in 1 .. next - 1 : Whole[i] = stream[i]
  <2>1. next - 1 \in 0 .. Len(stream)
    BY <1>1
  <2> QED
    BY <1>1, <2>1, StreamFacts DEF Whole
<1>3. Whole \in Seq(Elements)
  BY <1>2 DEF Named
<1>4. CASE offset = 0
  <2>1. Consumed = Whole \o <<>>
    BY <1>4, Zenon DEF Consumed, Whole
  <2>2. Whole \o <<>> = Whole
    BY <1>3
  <2>3. ~(offset > 0)
    BY <1>4
  <2> QED
    BY <1>2, <2>1, <2>2, <2>3, Zenon
<1>5. CASE offset > 0
  <2> DEFINE x == stream[next]
             e == Element(x.kind, Part)
  <2>1. next \in 1 .. Len(stream) /\ offset < Len(x.text)
    BY <1>1, <1>5 DEF Position
  <2>2. x \in Elements /\ x.text \in Seq(Fragment) /\ x.kind \in Kind
    BY <1>1, <2>1 DEF Elements
  <2>3. Part \in Seq(Fragment) /\ Len(Part) = offset
    <3> DEFINE y == x.text
    <3>1. y \in Seq(Fragment) /\ offset \in Nat /\ offset < Len(y)
      BY <1>1, <2>1, <2>2
    <3> HIDE DEF y
    <3>2. SubSeq(y, 1, offset) \in Seq(Fragment) /\ Len(SubSeq(y, 1, offset)) = offset
      BY <3>1
    <3> QED
      BY <3>2 DEF y, Part
  <2>4. Part # <<>>
    BY <1>5, <2>3
  <2>5. offset \in 1 .. Len(x.text)
    <3>1. Len(x.text) \in Nat
      BY <2>2
    <3> QED
      BY <1>1, <1>5, <2>1, <3>1
  <2>6. e \in Elements
    BY <2>2, <2>5, PartOf DEF Part
  <2> HIDE DEF x
  <2>7. Consumed = Whole \o <<e>>
    <3>1. offset # 0
      BY <1>1, <1>5
    <3> QED
      BY <3>1, Zenon DEF Consumed, Whole, Part, x
  <2> HIDE DEF e
  <2>8. Whole \o <<e>> = Append(Whole, e)
    BY <1>3, <2>6
  <2> QED
    BY <1>2, <1>5, <2>1, <2>3, <2>4, <2>6, <2>7, <2>8 DEF e, x
<1> QED
  BY <1>1, <1>4, <1>5

(* A call hands over one more piece of the element the parser is at.       *)
LEMMA CallsGrow ==
  ASSUME TypeOK, Position, NEW k, NEW n, Calls(k, n)
  PROVE  /\ next \in 1 .. Len(stream) /\ stream[next].kind = k
         /\ stream[next].text \in Seq(Fragment)
         /\ Part \in Seq(Fragment) /\ Piece(n) \in Seq(Fragment)
         /\ Part = <<>> <=> offset = 0
         /\ Element(k, Cat(Part, Piece(n))) \in Elements
         /\ Consumed' = Append(Whole, Element(k, Cat(Part, Piece(n))))
         /\ UNCHANGED <<stream, method_, answer>>
         /\ next' \in 1 .. Len(stream) + 1 /\ offset' \in Nat
         /\ parsing' \in {"more", "drained"}
         /\ Position'
<1> DEFINE x == stream[next]
           y == x.text
<1>1. /\ stream \in Seq(Elements) /\ offset \in Nat /\ stream \in Streams
      /\ next \in 1 .. Len(stream) /\ x.kind = k
      /\ n \in 0 .. Len(y) - offset /\ (n = 0 <=> y = <<>>)
      /\ UNCHANGED <<stream, method_, answer>>
      /\ parsing' \in {"more", "drained"}
  BY StreamFacts DEF TypeOK, Calls
<1>2. x \in Elements /\ y \in Seq(Fragment) /\ x = [kind |-> k, text |-> y]
  BY <1>1 DEF Elements
<1>3. offset <= Len(y) /\ Len(y) \in Nat /\ n \in Nat /\ offset + n <= Len(y)
  BY <1>1, <1>2 DEF Position
<1>4. \A m \in Nat : m <= Len(y) =>
        SubSeq(y, 1, m) \in Seq(Fragment) /\ Len(SubSeq(y, 1, m)) = m
  <2> HIDE DEF y
  <2> QED
    BY <1>2
<1>5. Part \in Seq(Fragment) /\ (Part = <<>> <=> offset = 0)
  <2>1. Part \in Seq(Fragment) /\ Len(Part) = offset
    BY <1>1, <1>3, <1>4 DEF Part
  <2> QED
    BY <2>1
<1>6. /\ Piece(n) \in Seq(Fragment)
      /\ Cat(Part, Piece(n)) = SubSeq(y, 1, offset + n)
  <2> HIDE DEF y
  <2>1. SubSeq(y, offset + 1, offset + n) \in Seq(Fragment)
        /\ Len(SubSeq(y, offset + 1, offset + n)) = n
        /\ \A i \in 1 .. n : SubSeq(y, offset + 1, offset + n)[i] = y[offset + i]
    BY <1>1, <1>2, <1>3
  <2>2. SubSeq(y, 1, offset) \in Seq(Fragment) /\ Len(SubSeq(y, 1, offset)) = offset
        /\ \A i \in 1 .. offset : SubSeq(y, 1, offset)[i] = y[i]
    BY <1>1, <1>2, <1>3
  <2>3. SubSeq(y, 1, offset + n) \in Seq(Fragment)
        /\ Len(SubSeq(y, 1, offset + n)) = offset + n
        /\ \A i \in 1 .. offset + n : SubSeq(y, 1, offset + n)[i] = y[i]
    BY <1>1, <1>2, <1>3
  <2> DEFINE a == SubSeq(y, 1, offset)
             b == SubSeq(y, offset + 1, offset + n)
             c == SubSeq(y, 1, offset + n)
             d == a \o b
  <2> HIDE DEF a, b, c
  <2>4. d \in Seq(Fragment) /\ Len(d) = offset + n
        /\ (\A i \in 1 .. offset : d[i] = a[i])
        /\ \A i \in offset + 1 .. offset + n : d[i] = b[i - offset]
    <3>1. a \in Seq(Fragment) /\ Len(a) = offset /\ b \in Seq(Fragment)
          /\ Len(b) = n /\ offset \in Nat /\ n \in Nat
      BY <1>1, <1>3, <2>1, <2>2 DEF a, b
    <3> HIDE DEF y, x
    <3> QED
      BY <3>1
  <2> HIDE DEF d
  <2>5. ASSUME NEW i \in 1 .. offset + n PROVE d[i] = c[i]
    <3>1. c[i] = y[i]
      BY <2>3 DEF c
    <3>2. CASE i <= offset
      <4>1. i \in 1 .. offset
        BY <1>1, <1>3, <3>2
      <4> QED
        BY <2>2, <2>4, <3>1, <4>1 DEF a
    <3>3. CASE i > offset
      <4>1. i \in offset + 1 .. offset + n /\ i - offset \in 1 .. n
            /\ offset + (i - offset) = i
        BY <1>1, <1>3, <3>3
      <4>2. b[i - offset] = y[i]
        BY <2>1, <4>1 DEF b
      <4> QED
        BY <2>4, <3>1, <4>1, <4>2
    <3> QED
      BY <1>1, <1>3, <3>2, <3>3
  <2>6. d = c
    BY <2>3, <2>4, <2>5 DEF c
  <2> QED
    BY <2>1, <2>6, Zenon DEF Piece, Part, Cat, a, b, c, d, y, x
<1> DEFINE e == Element(k, Cat(Part, Piece(n)))
<1>7. Named(Whole) /\ Len(Whole) = next - 1
  BY ConsumedIs
<1>8. CASE offset + n < Len(y)
  <2>1. UNCHANGED next /\ offset' = offset + n /\ offset' > 0
    <3>1. UNCHANGED next /\ offset' = offset + n
      BY <1>8 DEF Calls
    <3>2. n # 0
      BY <1>1, <1>2, <1>3, <1>8
    <3> QED
      BY <1>1, <1>3, <3>1, <3>2
  <2>2. next' \in 1 .. Len(stream) + 1 /\ offset' \in Nat /\ Position'
    BY <1>1, <1>3, <1>8, <2>1 DEF Position
  <2>3. Whole' = Whole /\ Part' = SubSeq(y, 1, offset + n) /\ stream[next]'.kind = k
    BY <1>1, <2>1 DEF Whole, Part
  <2>4. e \in Elements
    <3>1. offset + n \in 1 .. Len(x.text)
      BY <1>1, <1>3, <1>8, <2>1
    <3>2. Element(x.kind, SubSeq(x.text, 1, offset + n)) \in Elements
      BY <1>2, <3>1, PartOf
    <3> QED
      BY <1>1, <1>6, <3>2
  <2>5. Consumed' = Whole' \o <<Element(stream[next]'.kind, Part')>>
    <3>1. offset' # 0
      BY <1>1, <1>3, <2>1
    <3> QED
      BY <3>1, Zenon DEF Consumed, Whole, Part
  <2>6. Consumed' = Whole \o <<e>>
    BY <1>6, <2>3, <2>5, Zenon
  <2> HIDE DEF e
  <2>7. Whole \o <<e>> = Append(Whole, e)
    BY <1>7, <2>4 DEF Named
  <2> QED
    BY <1>1, <1>2, <1>5, <1>6, <2>2, <2>4, <2>6, <2>7 DEF e
<1>9. CASE offset + n = Len(y)
  <2>1. next' = next + 1 /\ offset' = 0
    BY <1>1, <1>3, <1>9 DEF Calls
  <2>2. next' \in 1 .. Len(stream) + 1 /\ offset' \in Nat /\ Position'
    BY <1>1, <2>1 DEF Position
  <2>3. SubSeq(y, 1, Len(y)) = y
    BY <1>2
  <2>4. e = x
    BY <1>2, <1>6, <1>9, <2>3 DEF Element
  <2>5. Consumed' = SubSeq(stream, 1, next) \o <<>>
    <3>1. next' - 1 = next /\ offset' = 0 /\ stream' = stream
      BY <1>1, <2>1
    <3> QED
      BY <3>1, Zenon DEF Consumed
  <2>6. SubSeq(stream, 1, next) = Append(Whole, x)
    <3>1. 1 \in Nat \ {0} /\ next - 1 \in Nat /\ 1 <= (next - 1) + 1
          /\ (next - 1) + 1 <= Len(stream) /\ (next - 1) + 1 = next
      BY <1>1
    <3>2. SubSeq(stream, 1, (next - 1) + 1)
            = Append(SubSeq(stream, 1, next - 1), stream[(next - 1) + 1])
      BY <1>1, <3>1, SubSeqLonger
    <3> QED
      BY <3>1, <3>2 DEF Whole
  <2>7. Append(Whole, x) \o <<>> = Append(Whole, x)
    <3> HIDE DEF x
    <3> QED
      BY <1>2, <1>7 DEF Named
  <2>8. Consumed' = Append(Whole, e)
    BY <2>4, <2>5, <2>6, <2>7, Zenon
  <2>9. e \in Elements
    BY <1>2, <2>4
  <2> HIDE DEF e
  <2> QED
    BY <1>1, <1>2, <1>5, <1>6, <2>2, <2>8, <2>9, Zenon DEF e
<1> QED
  BY <1>1, <1>3, <1>8, <1>9

-----------------------------------------------------------------------------
(* C1 is C with one more piece p, of kind k: a beginning W and an element  *)
(* of which C has the part a, C1 that and p.                               *)
Longer(C, C1, k, p) ==
  \E W, a :
    /\ Named(W) /\ a \in Seq(Fragment) /\ p \in Seq(Fragment)
    /\ Element(k, Cat(a, p)) \in Elements
    /\ a # <<>> => Element(k, a) \in Elements
    /\ k = "value" => Len(W) \in DOMAIN W /\ W[Len(W)].kind = "field"
    /\ C = IF a = <<>> THEN W ELSE Append(W, Element(k, a))
    /\ C1 = Append(W, Element(k, Cat(a, p)))

(* Behind a name a sequence stays named whatever comes.                    *)
LEMMA NamedAppend ==
  ASSUME NEW W, Named(W), NEW e \in Elements,
         e.kind = "value" => Len(W) \in DOMAIN W /\ W[Len(W)].kind = "field"
  PROVE  Named(Append(W, e))
<1> DEFINE A == Append(W, e)
<1>1. W \in Seq(Elements) /\ Len(W) \in Nat /\ DOMAIN W = 1 .. Len(W)
  BY DEF Named
<1>2. /\ A \in Seq(Elements) /\ DOMAIN A = 1 .. Len(W) + 1
      /\ A[Len(W) + 1] = e
      /\ \A i \in 1 .. Len(W) : A[i] = W[i]
  BY <1>1
<1> HIDE DEF A
<1>3. ASSUME NEW i \in DOMAIN A, A[i].kind = "value"
      PROVE  i - 1 \in DOMAIN A /\ A[i - 1].kind = "field"
  <2>1. CASE i \in 1 .. Len(W)
    <3>1. i \in DOMAIN W /\ W[i].kind = "value"
      BY <1>1, <1>2, <1>3, <2>1
    <3>2. i - 1 \in DOMAIN W /\ W[i - 1].kind = "field"
      BY <3>1 DEF Named
    <3> QED
      BY <1>1, <1>2, <3>2
  <2>2. CASE i = Len(W) + 1
    <3>1. Len(W) \in DOMAIN W /\ W[Len(W)].kind = "field"
      BY <1>2, <1>3, <2>2
    <3>2. i - 1 = Len(W)
      BY <1>1, <2>2
    <3> QED
      BY <1>1, <1>2, <3>1, <3>2
  <2> QED
    BY <1>1, <1>2, <2>1, <2>2
<1>4. Named(A)
  BY <1>2, <1>3 DEF Named
<1> QED
  BY <1>4 DEF A

(* The fields of an element.                                               *)
LEMMA ElementIs ==
  ASSUME NEW k, NEW t
  PROVE  Element(k, t).kind = k /\ Element(k, t).text = t
BY DEF Element

(* Both are named.                                                         *)
LEMMA LongerNamed ==
  ASSUME NEW C, NEW C1, NEW k, NEW p, Longer(C, C1, k, p)
  PROVE  Named(C) /\ Named(C1) /\ p \in Seq(Fragment)
<1>1. PICK W, a :
    /\ Named(W) /\ a \in Seq(Fragment) /\ p \in Seq(Fragment)
    /\ Element(k, Cat(a, p)) \in Elements
    /\ a # <<>> => Element(k, a) \in Elements
    /\ k = "value" => Len(W) \in DOMAIN W /\ W[Len(W)].kind = "field"
    /\ C = IF a = <<>> THEN W ELSE Append(W, Element(k, a))
    /\ C1 = Append(W, Element(k, Cat(a, p)))
  BY DEF Longer
<1>2. Named(C1)
  BY <1>1, ElementIs, NamedAppend
<1>3. CASE a = <<>>
  BY <1>1, <1>2, <1>3
<1>4. CASE a # <<>>
  <2>1. Named(Append(W, Element(k, a)))
    BY <1>1, <1>4, ElementIs, NamedAppend
  <2> QED
    BY <1>1, <1>2, <1>4, <2>1
<1> QED
  BY <1>3, <1>4

(* The piece is added to the texts of its kind.                            *)
LEMMA LongerTexts ==
  ASSUME NEW C, NEW C1, NEW k, NEW p, Longer(C, C1, k, p), NEW kk
  PROVE  /\ Texts(C, kk) \in Seq(Fragment)
         /\ Texts(C1, kk) = Cat(Texts(C, kk), IF kk = k THEN p ELSE <<>>)
<1>1. PICK W, a :
    /\ Named(W) /\ a \in Seq(Fragment) /\ p \in Seq(Fragment)
    /\ Element(k, Cat(a, p)) \in Elements
    /\ a # <<>> => Element(k, a) \in Elements
    /\ C = IF a = <<>> THEN W ELSE Append(W, Element(k, a))
    /\ C1 = Append(W, Element(k, Cat(a, p)))
  BY DEF Longer
<1>2. W \in Seq(Elements) /\ C \in Seq(Elements)
  BY <1>1, LongerNamed DEF Named
<1> DEFINE w == Texts(W, kk)
<1>3. w \in Seq(Fragment) /\ Texts(C, kk) \in Seq(Fragment)
  BY <1>2, TextsFacts
<1>4. ASSUME NEW t, Element(k, t) \in Elements
      PROVE  Texts(Append(W, Element(k, t)), kk) = Cat(w, IF k = kk THEN t ELSE <<>>)
  <2> DEFINE e == Element(k, t)
  <2>1. e \in Elements /\ e.kind = k /\ e.text = t
    BY <1>4, ElementIs
  <2> HIDE DEF e
  <2>2. Texts(Append(W, e), kk) = Cat(w, IF e.kind = kk THEN e.text ELSE <<>>)
    BY <1>2, <2>1, TextsFacts
  <2> QED
    BY <2>1, <2>2, Zenon DEF e
<1> HIDE DEF w
<1>5. Texts(C1, kk) = Cat(w, IF k = kk THEN Cat(a, p) ELSE <<>>)
  BY <1>1, <1>4, Zenon
<1>6. Cat(w, <<>>) = w
  BY <1>3 DEF Cat
<1>7. Texts(C, kk) = Cat(w, IF k = kk THEN a ELSE <<>>)
  <2>1. CASE a = <<>>
    BY <1>1, <1>6, <2>1, Zenon DEF w
  <2>2. CASE a # <<>>
    BY <1>1, <1>4, <2>2, Zenon
  <2> QED
    BY <2>1, <2>2, Zenon
<1>8. Cat(w, Cat(a, p)) = Cat(Cat(w, a), p)
  <2>1. w \in Seq(Fragment) /\ a \in Seq(Fragment) /\ p \in Seq(Fragment)
    BY <1>1, <1>3
  <2> QED
    BY <2>1, CatAssoc
<1>9. CASE k = kk
  BY <1>3, <1>5, <1>7, <1>8, <1>9, Zenon
<1>10. CASE k # kk
  BY <1>3, <1>5, <1>6, <1>7, <1>10, Zenon
<1> QED
  BY <1>9, <1>10, Zenon

(* The kinds there are.                                                    *)
Holds(T, k) == \E i \in DOMAIN T : T[i].kind = k

(* Those of a sequence with one element more.                              *)
LEMMA HoldsAppend ==
  ASSUME NEW W \in Seq(Elements), NEW e \in Elements
  PROVE  \A k : Holds(Append(W, e), k) <=> Holds(W, k) \/ k = e.kind
<1> DEFINE A == Append(W, e)
<1>1. Len(W) \in Nat /\ DOMAIN W = 1 .. Len(W)
  OBVIOUS
<1>2. /\ DOMAIN A = 1 .. Len(W) + 1
      /\ A[Len(W) + 1] = e
      /\ \A i \in 1 .. Len(W) : A[i] = W[i]
  BY <1>1
<1> HIDE DEF A
<1>3. DOMAIN A = DOMAIN W \cup {Len(W) + 1} /\ \A i \in DOMAIN W : A[i] = W[i]
  BY <1>1, <1>2
<1>4. \A k : Holds(A, k) <=> Holds(W, k) \/ k = e.kind
  BY <1>2, <1>3 DEF Holds
<1> QED
  BY <1>4 DEF A

(* A piece adds its own kind and no other.                                 *)
LEMMA LongerHolds ==
  ASSUME NEW C, NEW C1, NEW k, NEW p, Longer(C, C1, k, p)
  PROVE  \A kk : Holds(C1, kk) <=> Holds(C, kk) \/ kk = k
<1>1. PICK W, a :
    /\ Named(W) /\ a \in Seq(Fragment) /\ p \in Seq(Fragment)
    /\ Element(k, Cat(a, p)) \in Elements
    /\ a # <<>> => Element(k, a) \in Elements
    /\ C = IF a = <<>> THEN W ELSE Append(W, Element(k, a))
    /\ C1 = Append(W, Element(k, Cat(a, p)))
  BY DEF Longer
<1>2. W \in Seq(Elements)
  BY <1>1 DEF Named
<1>3. ASSUME NEW t, Element(k, t) \in Elements
      PROVE  \A kk : Holds(Append(W, Element(k, t)), kk) <=> Holds(W, kk) \/ kk = k
  <2> DEFINE e == Element(k, t)
  <2>1. e \in Elements /\ e.kind = k
    BY <1>3, ElementIs
  <2> HIDE DEF e
  <2>2. \A kk : Holds(Append(W, e), kk) <=> Holds(W, kk) \/ kk = e.kind
    BY <1>2, <2>1, HoldsAppend
  <2> QED
    BY <2>1, <2>2, Zenon DEF e
<1> QED
  BY <1>1, <1>3, Zenon

(* What neither names nor lasts nor closes leaves the lines alone, ...     *)
LEMMA LongerPasses ==
  ASSUME NEW C, NEW C1, NEW k, NEW p, Longer(C, C1, k, p),
         k \notin {"field", "value", "headers_complete"}
  PROVE  /\ BufferedName(C1) = BufferedName(C)
         /\ BufferedValue(C1) = BufferedValue(C)
         /\ StoredHeaders(C1) = StoredHeaders(C)
<1>1. PICK W, a :
    /\ Named(W) /\ a \in Seq(Fragment) /\ p \in Seq(Fragment)
    /\ Element(k, Cat(a, p)) \in Elements
    /\ a # <<>> => Element(k, a) \in Elements
    /\ C = IF a = <<>> THEN W ELSE Append(W, Element(k, a))
    /\ C1 = Append(W, Element(k, Cat(a, p)))
  BY DEF Longer
<1>2. k # "field" /\ k # "value" /\ k # "headers_complete"
  OBVIOUS
<1>3. ASSUME NEW t, Element(k, t) \in Elements
      PROVE  /\ BufferedName(Append(W, Element(k, t))) = BufferedName(W)
             /\ BufferedValue(Append(W, Element(k, t))) = BufferedValue(W)
             /\ StoredHeaders(Append(W, Element(k, t))) = StoredHeaders(W)
  <2> DEFINE e == Element(k, t)
  <2>1. e \in Elements /\ e.kind # "field" /\ ~Lasting(e)
        /\ (e.kind = "headers_complete" => ~Pending(W))
    BY <1>2, <1>3, ElementIs DEF Lasting
  <2> HIDE DEF e
  <2>2. /\ BufferedName(Append(W, e)) = BufferedName(W)
        /\ BufferedValue(Append(W, e)) = BufferedValue(W)
        /\ StoredHeaders(Append(W, e)) = StoredHeaders(W)
    BY <1>1, <2>1, OthersPass, Zenon
  <2> QED
    BY <2>2 DEF e
<1>4. CASE a = <<>>
  BY <1>1, <1>3, <1>4, Zenon
<1>5. CASE a # <<>>
  BY <1>1, <1>3, <1>5, Zenon
<1> QED
  BY <1>4, <1>5, Zenon

(* ... a piece of a value is added to the value that waits, ...            *)
LEMMA LongerValue ==
  ASSUME NEW C, NEW C1, NEW p, Longer(C, C1, "value", p)
  PROVE  /\ BufferedName(C1) = BufferedName(C)
         /\ BufferedValue(C1) = Cat(BufferedValue(C), p)
         /\ StoredHeaders(C1) = StoredHeaders(C)
<1> DEFINE k == "value"
<1>1. PICK W, a :
    /\ Named(W) /\ a \in Seq(Fragment) /\ p \in Seq(Fragment)
    /\ Element(k, Cat(a, p)) \in Elements
    /\ a # <<>> => Element(k, a) \in Elements
    /\ Len(W) \in DOMAIN W /\ W[Len(W)].kind = "field"
    /\ C = IF a = <<>> THEN W ELSE Append(W, Element(k, a))
    /\ C1 = Append(W, Element(k, Cat(a, p)))
  BY DEF Longer
<1>2. ASSUME NEW t, Element(k, t) \in Elements
      PROVE  /\ ~Pending(W)
             /\ BufferedName(Append(W, Element(k, t))) = BufferedName(W)
             /\ BufferedValue(Append(W, Element(k, t))) = t
             /\ StoredHeaders(Append(W, Element(k, t))) = StoredHeaders(W)
  <2> DEFINE e == Element(k, t)
  <2>1. e \in Elements /\ e.kind = "value" /\ e.text = t
    BY <1>2, ElementIs
  <2> HIDE DEF e
  <2>2. /\ ~Pending(W)
        /\ BufferedName(Append(W, e)) = BufferedName(W)
        /\ BufferedValue(Append(W, e)) = e.text
        /\ StoredHeaders(Append(W, e)) = StoredHeaders(W)
    BY <1>1, <2>1, ValueArrives, Zenon
  <2> QED
    BY <2>1, <2>2, Zenon DEF e
<1>3. CASE a = <<>>
  <2>1. BufferedValue(W) = <<>>
    BY <1>1, <1>2, BufferedType, Zenon
  <2> QED
    BY <1>1, <1>2, <1>3, <2>1, Zenon
<1>4. CASE a # <<>>
  BY <1>1, <1>2, <1>4, Zenon
<1> QED
  BY <1>3, <1>4, Zenon

(* ... and a piece of a name and the end of the headers first store the    *)
(* line there is.                                                          *)
LEMMA LongerLine ==
  ASSUME NEW C, NEW C1, NEW k, NEW p, Longer(C, C1, k, p),
         k \in {"field", "headers_complete"}
  PROVE  /\ BufferedName(C1) = Cat(IF Pending(C) THEN <<>> ELSE BufferedName(C), p)
         /\ BufferedValue(C1) = <<>>
         /\ StoredHeaders(C1) =
              IF Pending(C) THEN With(BufferedName(C), BufferedValue(C), StoredHeaders(C))
                            ELSE StoredHeaders(C)
<1>1. PICK W, a :
    /\ Named(W) /\ a \in Seq(Fragment) /\ p \in Seq(Fragment)
    /\ Element(k, Cat(a, p)) \in Elements
    /\ a # <<>> => Element(k, a) \in Elements
    /\ C = IF a = <<>> THEN W ELSE Append(W, Element(k, a))
    /\ C1 = Append(W, Element(k, Cat(a, p)))
  BY DEF Longer
<1> DEFINE before == IF Pending(W) THEN <<>> ELSE BufferedName(W)
           stored == IF Pending(W)
                     THEN With(BufferedName(W), BufferedValue(W), StoredHeaders(W))
                     ELSE StoredHeaders(W)
<1>2. before \in Seq(Fragment)
  <2>1. BufferedName(W) \in Seq(Fragment) /\ <<>> \in Seq(Fragment)
    BY <1>1, BufferedType, CatFacts, Zenon
  <2> QED
    BY <2>1, Zenon
<1>3. ASSUME NEW t, Element(k, t) \in Elements
      PROVE  /\ BufferedName(Append(W, Element(k, t))) = Cat(before, t)
             /\ BufferedValue(Append(W, Element(k, t))) = <<>>
             /\ ~Pending(Append(W, Element(k, t)))
             /\ StoredHeaders(Append(W, Element(k, t))) = stored
  <2> DEFINE e == Element(k, t)
  <2>1. e \in Elements /\ Closing(e) /\ e.text = t
    BY <1>3, ElementIs DEF Closing
  <2> HIDE DEF e
  <2>2. /\ BufferedName(Append(W, e)) = Cat(before, e.text)
        /\ BufferedValue(Append(W, e)) = <<>>
        /\ ~Pending(Append(W, e))
        /\ StoredHeaders(Append(W, e)) = stored
    BY <1>1, <2>1, LineCloses, Zenon
  <2> QED
    BY <2>1, <2>2, Zenon DEF e
<1>4. CASE a = <<>>
  <2>1. Cat(a, p) = p
    BY <1>1, <1>4, CatFacts, Zenon
  <2> QED
    BY <1>1, <1>3, <1>4, <2>1, Zenon
<1>5. CASE a # <<>>
  <2>1. /\ BufferedName(C) = Cat(before, a) /\ ~Pending(C)
        /\ StoredHeaders(C) = stored
    BY <1>1, <1>3, <1>5, Zenon
  <2>2. /\ BufferedName(C1) = Cat(before, Cat(a, p))
        /\ BufferedValue(C1) = <<>>
        /\ StoredHeaders(C1) = stored
    BY <1>1, <1>3, Zenon
  <2> HIDE DEF before, stored
  <2>3. Cat(before, Cat(a, p)) = Cat(Cat(before, a), p)
    <3>1. before \in Seq(Fragment) /\ a \in Seq(Fragment) /\ p \in Seq(Fragment)
      BY <1>1, <1>2
    <3> QED
      BY <3>1, CatAssoc
  <2> QED
    BY <2>1, <2>2, <2>3, Zenon
<1> QED
  BY <1>4, <1>5, Zenon

-----------------------------------------------------------------------------
(* A call makes what is handed over longer by its piece.                   *)
LEMMA CallsLonger ==
  ASSUME TypeOK, Position, NEW k, NEW n, Calls(k, n)
  PROVE  Longer(Consumed, Consumed', k, Piece(n))
<1>1. /\ next \in 1 .. Len(stream) /\ stream[next].kind = k
      /\ Part \in Seq(Fragment) /\ Piece(n) \in Seq(Fragment)
      /\ Part = <<>> <=> offset = 0
      /\ Element(k, Cat(Part, Piece(n))) \in Elements
      /\ Consumed' = Append(Whole, Element(k, Cat(Part, Piece(n))))
  BY CallsGrow
<1>2. /\ Named(Whole) /\ Len(Whole) = next - 1
      /\ \A i \in 1 .. next - 1 : Whole[i] = stream[i]
      /\ offset = 0 => Consumed = Whole
  BY ConsumedIs
<1>3. Part # <<>> => /\ Element(k, Part) \in Elements
                     /\ Consumed = Append(Whole, Element(k, Part))
  <2>1. Part # <<>> => offset > 0
    BY <1>1 DEF TypeOK
  <2>2. offset > 0 => /\ Element(stream[next].kind, Part) \in Elements
                      /\ Consumed = Append(Whole, Element(stream[next].kind, Part))
    BY ConsumedIs
  <2> QED
    BY <1>1, <2>1, <2>2, Zenon
<1>4. k = "value" => Len(Whole) \in DOMAIN Whole /\ Whole[Len(Whole)].kind = "field"
  <2>1. SUFFICES ASSUME k = "value"
                 PROVE  Len(Whole) \in DOMAIN Whole /\ Whole[Len(Whole)].kind = "field"
    OBVIOUS
  <2>2. next - 1 \in 1 .. Len(stream) /\ stream[next - 1].kind = "field"
    BY <1>1, <2>1, StreamFacts DEF TypeOK
  <2>3. next - 1 \in 1 .. next - 1
    BY <1>1, <2>2
  <2>4. DOMAIN Whole = 1 .. next - 1
    BY <1>2 DEF Named
  <2> QED
    BY <1>2, <2>2, <2>3, <2>4
<1> DEFINE W == Whole
           a == Part
           p == Piece(n)
<1>5. Consumed = IF a = <<>> THEN W ELSE Append(W, Element(k, a))
  BY <1>1, <1>2, <1>3, Zenon
<1>6. /\ Named(W) /\ a \in Seq(Fragment) /\ p \in Seq(Fragment)
      /\ Element(k, Cat(a, p)) \in Elements
      /\ a # <<>> => Element(k, a) \in Elements
      /\ k = "value" => Len(W) \in DOMAIN W /\ W[Len(W)].kind = "field"
      /\ Consumed' = Append(W, Element(k, Cat(a, p)))
  BY <1>1, <1>2, <1>3, <1>4, Zenon
<1> HIDE DEF W, a, p
<1>7. Longer(Consumed, Consumed', k, p)
  BY <1>5, <1>6, Zenon DEF Longer
<1> QED
  BY <1>7 DEF p

(* The parser goes on by a piece p of kind k, ...                          *)
GoesOn(k, p) ==
  /\ Longer(Consumed, Consumed', k, p)
  /\ UNCHANGED <<stream, method_, answer>>
  /\ next' \in 1 .. Len(stream) + 1 /\ offset' \in Nat /\ Position'
  /\ parsing = "more" /\ parsing' \in {"more", "drained"}

(* ... with every call ...                                                 *)
LEMMA CallGoesOn ==
  ASSUME TypeOK, Position, NEW k, NEW n, Calls(k, n)
  PROVE  GoesOn(k, Piece(n))
<1>1. Longer(Consumed, Consumed', k, Piece(n))
  BY CallsLonger
<1>2. /\ UNCHANGED <<stream, method_, answer>>
      /\ next' \in 1 .. Len(stream) + 1 /\ offset' \in Nat /\ Position'
      /\ parsing' \in {"more", "drained"}
  BY CallsGrow
<1>3. parsing = "more"
  BY DEF Calls
<1> QED
  BY <1>1, <1>2, <1>3 DEF GoesOn

(* ... and with what it refuses.                                           *)
LEMMA JunkGoesOn ==
  ASSUME TypeOK, Position, syntax_error
  PROVE  GoesOn("junk", <<>>)
<1> DEFINE x == stream[next]
<1>1. /\ stream \in Seq(Elements) /\ offset \in Nat /\ stream \in Streams
      /\ next \in 1 .. Len(stream) /\ x.kind = "junk"
      /\ next' = next + 1 /\ offset' = offset
      /\ UNCHANGED <<stream, method_, answer>>
      /\ parsing = "more" /\ parsing' = "drained"
  BY StreamFacts DEF TypeOK, syntax_error
<1>2. x \in Elements /\ x.text = <<>>
  BY <1>1 DEF Elements
<1>3. offset = 0
  <2>1. Len(x.text) = 0
    BY <1>2
  <2> QED
    BY <1>1, <2>1 DEF Position
<1>4. Named(Whole) /\ Len(Whole) = next - 1 /\ Consumed = Whole
  BY <1>3, ConsumedIs
<1> DEFINE e == Element("junk", Cat(<<>>, <<>>))
<1>5. e = x /\ <<>> \in Seq(Fragment)
  <2>1. Cat(<<>>, <<>>) = <<>> /\ <<>> \in Seq(Fragment)
    BY CatFacts
  <2>2. x = [kind |-> "junk", text |-> <<>>]
    BY <1>1, <1>2 DEF Elements
  <2> QED
    BY <2>1, <2>2, Zenon DEF Element
<1>6. Consumed' = Append(Whole, x)
  <2>1. Consumed' = SubSeq(stream, 1, next) \o <<>>
    <3>1. next' - 1 = next /\ offset' = 0 /\ stream' = stream
      BY <1>1, <1>3
    <3> QED
      BY <3>1, Zenon DEF Consumed
  <2>2. SubSeq(stream, 1, next) = Append(Whole, x)
    <3>1. 1 \in Nat \ {0} /\ next - 1 \in Nat /\ 1 <= (next - 1) + 1
          /\ (next - 1) + 1 <= Len(stream) /\ (next - 1) + 1 = next
      BY <1>1
    <3>2. SubSeq(stream, 1, (next - 1) + 1)
            = Append(SubSeq(stream, 1, next - 1), stream[(next - 1) + 1])
      BY <1>1, <3>1, SubSeqLonger
    <3> QED
      BY <3>1, <3>2 DEF Whole
  <2>3. Append(Whole, x) \o <<>> = Append(Whole, x)
    <3> HIDE DEF x
    <3> QED
      BY <1>2, <1>4 DEF Named
  <2> QED
    BY <2>1, <2>2, <2>3, Zenon
<1> DEFINE W == Whole
<1>7. /\ Named(W) /\ Consumed = W /\ e \in Elements /\ Consumed' = Append(W, e)
  BY <1>2, <1>4, <1>5, <1>6, Zenon
<1> HIDE DEF W
<1>8. Longer(Consumed, Consumed', "junk", <<>>)
  <2>1. "junk" # "value"
    OBVIOUS
  <2> QED
    BY <1>5, <1>7, <2>1, Zenon DEF Longer, e
<1>9. next' \in 1 .. Len(stream) + 1 /\ offset' \in Nat /\ Position'
  BY <1>1, <1>3 DEF Position
<1> QED
  BY <1>1, <1>8, <1>9 DEF GoesOn

(* What that makes of the texts and of the kinds there are.                *)
LEMMA GoesOnFacts ==
  ASSUME NEW k, NEW p, GoesOn(k, p)
  PROVE  /\ p \in Seq(Fragment)
         /\ \A kk : /\ Texts(Consumed, kk) \in Seq(Fragment)
                    /\ Texts(Consumed', kk)
                         = Cat(Texts(Consumed, kk), IF kk = k THEN p ELSE <<>>)
                    /\ kk # k => Texts(Consumed', kk) = Texts(Consumed, kk)
                    /\ Holds(Consumed', kk) <=> Holds(Consumed, kk) \/ kk = k
<1> DEFINE C == Consumed
           D == Consumed'
<1>1. Longer(C, D, k, p)
  BY DEF GoesOn
<1> HIDE DEF C, D
<1>2. p \in Seq(Fragment)
  BY <1>1, LongerNamed
<1>3. ASSUME NEW kk
      PROVE  /\ Texts(C, kk) \in Seq(Fragment)
             /\ Texts(D, kk) = Cat(Texts(C, kk), IF kk = k THEN p ELSE <<>>)
             /\ kk # k => Texts(D, kk) = Texts(C, kk)
             /\ Holds(D, kk) <=> Holds(C, kk) \/ kk = k
  <2>1. /\ Texts(C, kk) \in Seq(Fragment)
        /\ Texts(D, kk) = Cat(Texts(C, kk), IF kk = k THEN p ELSE <<>>)
        /\ Holds(D, kk) <=> Holds(C, kk) \/ kk = k
    BY <1>1, LongerTexts, LongerHolds
  <2> DEFINE t == Texts(C, kk)
  <2>2. t \in Seq(Fragment)
    BY <2>1
  <2> HIDE DEF t
  <2>3. Cat(t, <<>>) = t
    BY <2>2 DEF Cat
  <2> QED
    BY <2>1, <2>3, Zenon DEF t
<1> QED
  BY <1>2, <1>3, Zenon DEF C, D

(* No piece is none.                                                       *)
LEMMA SubSeqEmpty ==
  ASSUME NEW q, NEW b \in Nat
  PROVE  SubSeq(q, b + 1, b + 0) = <<>>
OBVIOUS

-----------------------------------------------------------------------------
(* The method of a sequence with one element more.                         *)
LEMMA MethodAppend ==
  ASSUME NEW W \in Seq(Elements), NEW e \in Elements
  PROVE  /\ e.kind = "begin" => MethodOf(Append(W, e)) = Last(e.text)
         /\ e.kind # "begin" /\ Holds(W, "begin") => MethodOf(Append(W, e)) = MethodOf(W)
<1> DEFINE A == Append(W, e)
           n == Len(W)
           I(T) == {i \in DOMAIN T : T[i].kind = "begin"}
<1>1. n \in Nat /\ DOMAIN W = 1 .. n
  OBVIOUS
<1>2. /\ DOMAIN A = 1 .. n + 1 /\ A[n + 1] = e
      /\ \A i \in 1 .. n : A[i] = W[i]
  BY <1>1
<1> HIDE DEF A, n
<1>3. /\ I(W) \in SUBSET (1 .. n) /\ I(A) \in SUBSET (1 .. n + 1) /\ n + 1 \in Nat
  BY <1>1, <1>2
<1>4. CASE e.kind = "begin"
  <2>1. IsLatest(n + 1, I(A))
    BY <1>1, <1>2, <1>3, <1>4 DEF IsLatest
  <2>2. Latest(I(A)) = n + 1
    <3> HIDE DEF I
    <3> QED
      BY <1>3, <2>1, LatestIs
  <2>3. MethodOf(A) = Last(e.text)
    BY <1>2, <2>2, Zenon DEF MethodOf
  <2> QED
    BY <1>4, <2>3 DEF A
<1>5. CASE e.kind # "begin" /\ Holds(W, "begin")
  <2>1. I(A) = I(W)
    <3>1. \A i \in 1 .. n + 1 : i = n + 1 \/ i \in 1 .. n
      BY <1>1
    <3>2. \A i \in 1 .. n : i \in 1 .. n + 1
      BY <1>1
    <3> QED
      BY <1>1, <1>2, <1>5, <3>1, <3>2
  <2>2. PICK i \in I(W) : TRUE
    BY <1>5 DEF Holds
  <2>3. Latest(I(W)) \in I(W)
    <3> HIDE DEF I
    <3> QED
      BY <1>1, <1>3, <2>2, LatestOf
  <2>4. A[Latest(I(W))] = W[Latest(I(W))]
    BY <1>2, <1>3, <2>3
  <2>5. MethodOf(A) = MethodOf(W)
    BY <2>1, <2>4, Zenon DEF MethodOf
  <2> QED
    BY <1>5, <2>5 DEF A
<1> QED
  BY <1>4, <1>5

(* The method of what has become longer: that of the piece, or as before.  *)
LEMMA LongerMethod ==
  ASSUME NEW C, NEW D, NEW k, NEW p, Longer(C, D, k, p)
  PROVE  /\ k = "begin" /\ p # <<>> => MethodOf(D) = Last(p)
         /\ k # "begin" /\ Holds(C, "begin") => MethodOf(D) = MethodOf(C)
<1>1. PICK W, a :
    /\ Named(W) /\ a \in Seq(Fragment) /\ p \in Seq(Fragment)
    /\ Element(k, Cat(a, p)) \in Elements
    /\ a # <<>> => Element(k, a) \in Elements
    /\ C = IF a = <<>> THEN W ELSE Append(W, Element(k, a))
    /\ D = Append(W, Element(k, Cat(a, p)))
  BY DEF Longer
<1>2. W \in Seq(Elements)
  BY <1>1 DEF Named
<1>3. ASSUME k = "begin", p # <<>>
      PROVE  MethodOf(D) = Last(p)
  <2>1. Last(Cat(a, p)) = Last(p)
    <3>1. /\ Len(a \o p) = Len(a) + Len(p) /\ Len(a) \in Nat /\ Len(p) \in Nat
          /\ Len(p) # 0
      BY <1>1, <1>3
    <3>2. (a \o p)[Len(a) + Len(p)] = p[Len(p)]
      BY <1>1, <3>1
    <3> QED
      BY <3>1, <3>2 DEF Last, Cat
  <2>2. MethodOf(D) = Last(Element(k, Cat(a, p)).text)
    BY <1>1, <1>2, <1>3, ElementIs, MethodAppend
  <2> QED
    BY <2>1, <2>2, ElementIs, Zenon
<1>4. ASSUME k # "begin", Holds(C, "begin")
      PROVE  MethodOf(D) = MethodOf(C)
  <2>1. CASE a = <<>>
    BY <1>1, <1>2, <1>4, <2>1, ElementIs, MethodAppend
  <2>2. CASE a # <<>>
    <3> DEFINE e == Element(k, a)
    <3>1. e \in Elements /\ e.kind = k /\ C = Append(W, e)
      BY <1>1, <2>2, ElementIs
    <3> HIDE DEF e
    <3>2. Holds(W, "begin")
      BY <1>2, <1>4, <3>1, HoldsAppend
    <3>3. MethodOf(C) = MethodOf(W)
      BY <1>2, <1>4, <3>1, <3>2, MethodAppend
    <3>4. MethodOf(D) = MethodOf(W)
      BY <1>1, <1>2, <1>4, <3>2, ElementIs, MethodAppend
    <3> QED
      BY <3>3, <3>4
  <2> QED
    BY <2>1, <2>2
<1> QED
  BY <1>3, <1>4

(* What is not of a method leaves the method alone.                        *)
LEMMA BegunStays ==
  ASSUME NEW k, NEW p, GoesOn(k, p), k # "begin", Begun, UNCHANGED parser_method
  PROVE  Begun'
<1> DEFINE C == Consumed
           D == Consumed'
<1>1. Holds(D, "begin") <=> Holds(C, "begin")
  BY GoesOnFacts
<1>2. Holds(C, "begin") => parser_method = MethodOf(C)
  BY Zenon DEF Begun, Seen, Holds
<1>3. Longer(C, D, k, p)
  BY DEF GoesOn
<1> HIDE DEF C, D
<1>4. Holds(D, "begin") => parser_method' = MethodOf(D)
  BY <1>1, <1>2, <1>3, LongerMethod
<1> QED
  BY <1>4, Zenon DEF Begun, Seen, Holds, D

(* The answer is still to be given.                                        *)
LEMMA AnsweringStays ==
  ASSUME NEW k, NEW p, GoesOn(k, p), Answering,
         http_errno' <=> http_errno \/ k = "junk",
         message_status_' = IF k = "message_complete" THEN "complete"
                            ELSE message_status_
  PROVE  Answering'
<1>1. \A kk : Seen(kk)' <=> Seen(kk) \/ kk = k
  <2>1. \A kk : Holds(Consumed', kk) <=> Holds(Consumed, kk) \/ kk = k
    BY GoesOnFacts
  <2> QED
    BY <2>1, Zenon DEF Seen, Holds
<1>2. parsing = "more" /\ parsing' # "no" /\ UNCHANGED <<method_, answer>>
  BY DEF GoesOn
<1>3. /\ http_errno <=> Seen("junk")
      /\ message_status_ = IF Seen("message_complete") THEN "complete" ELSE "want_more"
      /\ answer = NoAnswer /\ method_ = "INVALID"
  BY <1>2 DEF Answering
<1>4. /\ http_errno' <=> Seen("junk")'
      /\ message_status_' = IF Seen("message_complete")' THEN "complete" ELSE "want_more"
      /\ answer' = NoAnswer /\ method_' = "INVALID"
  <2>1. http_errno' <=> Seen("junk")'
    BY <1>1, <1>3, Zenon
  <2>2. message_status_' = IF Seen("message_complete")' THEN "complete" ELSE "want_more"
    BY <1>1, <1>3, Zenon
  <2> QED
    BY <1>2, <1>3, <2>1, <2>2
<1> HIDE DEF Seen, NoAnswer
<1> QED
  BY <1>2, <1>4 DEF Answering

(* No line begins, gets a value or ends.                                   *)
LEMMA LinesStay ==
  ASSUME NEW k, NEW p, GoesOn(k, p), k \notin {"field", "value", "headers_complete"},
         Buffered, headers_ = StoredHeaders(Consumed), UNCHANGED header_vars
  PROVE  Buffered' /\ headers_' = StoredHeaders(Consumed')
<1> DEFINE C == Consumed
           D == Consumed'
<1>1. Longer(C, D, k, p)
  BY DEF GoesOn
<1>2. /\ current_header_field_' = BufferedName(C)
      /\ current_header_value_' = BufferedValue(C)
      /\ headers_' = StoredHeaders(C)
  BY Zenon DEF Buffered, header_vars
<1> HIDE DEF C, D
<1>3. /\ BufferedName(D) = BufferedName(C)
      /\ BufferedValue(D) = BufferedValue(C)
      /\ StoredHeaders(D) = StoredHeaders(C)
  BY <1>1, LongerPasses, Zenon
<1>4. /\ current_header_field_' = BufferedName(D)
      /\ current_header_value_' = BufferedValue(D)
      /\ headers_' = StoredHeaders(D)
  BY <1>2, <1>3, Zenon
<1> QED
  BY <1>4, Zenon DEF Buffered, D

(* What is handed over is named.                                           *)
LEMMA ConsumedNamed ==
  ASSUME TypeOK, Position
  PROVE  Named(Consumed)
<1>1. /\ Named(Whole) /\ Len(Whole) = next - 1
      /\ \A i \in 1 .. next - 1 : Whole[i] = stream[i]
      /\ offset = 0 => Consumed = Whole
      /\ offset > 0 =>
            /\ next \in 1 .. Len(stream)
            /\ Element(stream[next].kind, Part) \in Elements
            /\ Consumed = Append(Whole, Element(stream[next].kind, Part))
  BY ConsumedIs
<1>2. CASE offset = 0
  BY <1>1, <1>2
<1>3. CASE offset > 0
  <2> DEFINE e == Element(stream[next].kind, Part)
             W == Whole
  <2>1. e \in Elements /\ e.kind = stream[next].kind /\ next \in 1 .. Len(stream)
    BY <1>1, <1>3, ElementIs
  <2>2. e.kind = "value" => Len(W) \in DOMAIN W /\ W[Len(W)].kind = "field"
    <3>1. SUFFICES ASSUME e.kind = "value"
                   PROVE  Len(W) \in DOMAIN W /\ W[Len(W)].kind = "field"
      OBVIOUS
    <3>2. next - 1 \in 1 .. Len(stream) /\ stream[next - 1].kind = "field"
      BY <2>1, <3>1, StreamFacts DEF TypeOK
    <3>3. next - 1 \in 1 .. next - 1
      BY <2>1, <3>2
    <3>4. DOMAIN W = 1 .. next - 1
      BY <1>1 DEF Named
    <3> QED
      BY <1>1, <3>2, <3>3, <3>4
  <2>3. Named(W) /\ Consumed = Append(W, e)
    BY <1>1, <1>3
  <2> HIDE DEF e, W
  <2> QED
    BY <2>1, <2>2, <2>3, NamedAppend
<1> QED
  BY <1>2, <1>3 DEF TypeOK

(* save_headers stores the line that waits, if there is one.               *)
LEMMA SavedLine ==
  ASSUME TypeOK, Position, Buffered, headers_ = StoredHeaders(Consumed)
  PROVE  LET C == Consumed
         IN  /\ Saved.field = IF Pending(C) THEN <<>> ELSE BufferedName(C)
             /\ Saved.value = <<>>
             /\ Saved.headers =
                  IF Pending(C) THEN With(BufferedName(C), BufferedValue(C), StoredHeaders(C))
                                ELSE StoredHeaders(C)
<1> DEFINE C == Consumed
<1>1. Named(C)
  BY ConsumedNamed
<1>2. /\ current_header_field_ = BufferedName(C)
      /\ current_header_value_ = BufferedValue(C)
      /\ headers_ = StoredHeaders(C)
  BY Zenon DEF Buffered
<1> DEFINE w == With(current_header_field_, current_header_value_, headers_)
<1>3. w = With(BufferedName(C), BufferedValue(C), StoredHeaders(C))
  BY <1>2, Zenon
<1> HIDE DEF C, w
<1>4. /\ Pending(C) => BufferedName(C) # <<>> /\ BufferedValue(C) # <<>>
      /\ ~Pending(C) => BufferedValue(C) = <<>>
  BY <1>1, BufferedType, Zenon
<1>5. CASE Pending(C)
  <2>1. Saved = [field |-> <<>>, value |-> <<>>, headers |-> w]
    BY <1>2, <1>4, <1>5, Zenon DEF Saved, w
  <2>2. Saved.field = <<>> /\ Saved.value = <<>> /\ Saved.headers = w
    BY <2>1
  <2> QED
    BY <1>3, <1>5, <2>2, Zenon DEF C
<1>6. CASE ~Pending(C)
  <2>1. Saved = [field |-> current_header_field_, value |-> current_header_value_,
                 headers |-> headers_]
    BY <1>2, <1>4, <1>6, Zenon DEF Saved
  <2>2. /\ Saved.field = current_header_field_ /\ Saved.value = current_header_value_
        /\ Saved.headers = headers_
    BY <2>1
  <2> QED
    BY <1>2, <1>4, <1>6, <2>2, Zenon DEF C
<1> QED
  BY <1>5, <1>6, Zenon

-----------------------------------------------------------------------------
(* The types of what a callback leaves to the parser.                      *)
LEMMA TypeStays ==
  ASSUME NEW k, NEW p, GoesOn(k, p), TypeOK,
         http_errno' \in BOOLEAN, parser_method' \in Methods,
         message_status_' \in {"complete", "want_more", "faild"}
  PROVE  TypeOK'
BY DEF TypeOK, GoesOn

(* One lemma for each callback, the first for the bytes of a method with   *)
(* and without one.                                                        *)
LEMMA MessageBegin ==
  ASSUME Inv, NEW n, takes_method(n)
  PROVE  Inv'
<1> DEFINE x == stream[next]
           y == x.text
           p == Piece(n)
<1>1. TypeOK /\ Position /\ SplitsDoNotShow /\ Buffered /\ Begun /\ Answering
  BY DEF Inv
<1>2. /\ Calls("begin", n) /\ parser_method' = Last(p)
      /\ UNCHANGED <<http_errno, message_status_, url_, header_vars, body_>>
  BY DEF takes_method
<1>3. GoesOn("begin", p)
  BY <1>1, <1>2, CallGoesOn
<1>4. /\ stream \in Seq(Elements) /\ offset \in Nat
      /\ next \in 1 .. Len(stream) /\ x.kind = "begin"
      /\ n \in 0 .. Len(y) - offset /\ (n = 0 <=> y = <<>>)
  BY <1>1, <1>2, StreamFacts DEF TypeOK, Calls
<1>5. y \in Seq(Methods) /\ y # <<>>
  BY <1>4 DEF Elements
<1>6. p \in Seq(Methods) /\ p # <<>>
  <2>1. Len(y) \in Nat /\ n \in Nat /\ n # 0 /\ offset + n <= Len(y)
    <3> HIDE DEF y
    <3> QED
      BY <1>4, <1>5
  <2> HIDE DEF y
  <2>2. SubSeq(y, offset + 1, offset + n) \in Seq(Methods)
        /\ Len(SubSeq(y, offset + 1, offset + n)) = n
    BY <1>4, <1>5, <2>1
  <2>3. p = SubSeq(y, offset + 1, offset + n)
    BY DEF Piece, y
  <2> HIDE DEF p
  <2> QED
    BY <2>1, <2>2, <2>3
<1>7. parser_method' \in Methods
  <2> HIDE DEF p
  <2>1. Len(p) \in 1 .. Len(p)
    BY <1>6
  <2> QED
    BY <1>2, <1>6, <2>1 DEF Last
<1> HIDE DEF p
<1>8. TypeOK'
  BY <1>1, <1>2, <1>3, <1>7, TypeStays DEF TypeOK
<1>9. Position'
  BY <1>3 DEF GoesOn
<1>10. Buffered' /\ headers_' = StoredHeaders(Consumed')
  <2>1. /\ UNCHANGED header_vars /\ headers_ = StoredHeaders(Consumed)
        /\ "begin" \notin {"field", "value", "headers_complete"}
    BY <1>1, <1>2 DEF SplitsDoNotShow
  <2> QED
    BY <1>1, <1>3, <2>1, LinesStay
<1>11. SplitsDoNotShow'
  <2>1. "url" # "begin" /\ "body" # "begin"
    OBVIOUS
  <2>2. /\ Texts(Consumed', "url") = Texts(Consumed, "url")
        /\ Texts(Consumed', "body") = Texts(Consumed, "body")
    BY <1>3, <2>1, GoesOnFacts, Zenon
  <2>3. UNCHANGED <<url_, body_>>
    BY <1>2
  <2> QED
    BY <1>1, <1>10, <2>2, <2>3, Zenon DEF SplitsDoNotShow
<1>12. Begun'
  <2> DEFINE D == Consumed'
  <2>1. Longer(Consumed, D, "begin", p)
    BY <1>3 DEF GoesOn
  <2> HIDE DEF D
  <2>2. MethodOf(D) = Last(p)
    BY <1>6, <2>1, LongerMethod
  <2> QED
    BY <1>2, <2>2, Zenon DEF Begun, D
<1>13. Answering'
  <2>1. /\ http_errno' <=> http_errno \/ "begin" = "junk"
        /\ message_status_' = IF "begin" = "message_complete" THEN "complete"
                              ELSE message_status_
    BY <1>1, <1>2 DEF TypeOK
  <2> QED
    BY <1>1, <1>3, <2>1, AnsweringStays
<1> QED
  BY <1>8, <1>9, <1>10, <1>11, <1>12, <1>13 DEF Inv

(* The other callbacks, and the parser giving up: the texts grow as they   *)
(* should, and what is left is the lines.                                  *)
LEMMA Callback ==
  ASSUME Inv, NEW k, NEW p, GoesOn(k, p), k # "begin",
         UNCHANGED parser_method,
         http_errno' \in BOOLEAN, http_errno' <=> http_errno \/ k = "junk",
         message_status_' = IF k = "message_complete" THEN "complete"
                            ELSE message_status_,
         url_' = IF k = "url" THEN Cat(url_, p) ELSE url_,
         body_' = IF k = "body" THEN Cat(body_, p) ELSE body_,
         Buffered', headers_' = StoredHeaders(Consumed')
  PROVE  Inv'
<1>1. TypeOK /\ Position /\ SplitsDoNotShow /\ Buffered /\ Begun /\ Answering
  BY DEF Inv
<1>2. TypeOK'
  <2>1. /\ parser_method' \in Methods
        /\ message_status_' \in {"complete", "want_more", "faild"}
    BY <1>1 DEF TypeOK
  <2> QED
    BY <1>1, <2>1, TypeStays
<1>3. Position'
  BY DEF GoesOn
<1>4. SplitsDoNotShow'
  <2>1. ASSUME NEW kk
        PROVE  Texts(Consumed', kk) =
                 IF k = kk THEN Cat(Texts(Consumed, kk), p) ELSE Texts(Consumed, kk)
    BY GoesOnFacts, Zenon
  <2>2. url_ = Texts(Consumed, "url") /\ body_ = Texts(Consumed, "body")
    BY <1>1, Zenon DEF SplitsDoNotShow
  <2>3. url_' = Texts(Consumed', "url")
    BY <2>1, <2>2, Zenon
  <2>4. body_' = Texts(Consumed', "body")
    BY <2>1, <2>2, Zenon
  <2> QED
    BY <2>3, <2>4, Zenon DEF SplitsDoNotShow
<1>5. Begun'
  BY <1>1, BegunStays
<1>6. Answering'
  BY <1>1, AnsweringStays
<1> QED
  BY <1>2, <1>3, <1>4, <1>5, <1>6 DEF Inv

(* on_url adds to url_, which no header depends on.                        *)
LEMMA Url ==
  ASSUME Inv, NEW n, on_url(n)
  PROVE  Inv'
<1>1. TypeOK /\ Position /\ SplitsDoNotShow /\ Buffered
  BY DEF Inv
<1>2. /\ Calls("url", n) /\ url_' = Cat(url_, Piece(n))
      /\ UNCHANGED <<http_errno, parser_method, message_status_, header_vars, body_>>
  BY DEF on_url, Appended, Cat
<1>3. GoesOn("url", Piece(n))
  BY <1>1, <1>2, CallGoesOn
<1>4. Buffered' /\ headers_' = StoredHeaders(Consumed')
  <2>1. /\ UNCHANGED header_vars /\ headers_ = StoredHeaders(Consumed)
        /\ "url" \notin {"field", "value", "headers_complete"}
    BY <1>1, <1>2 DEF SplitsDoNotShow
  <2> QED
    BY <1>1, <1>3, <2>1, LinesStay
<1>5. http_errno' \in BOOLEAN
  BY <1>1, <1>2 DEF TypeOK
<1> QED
  BY <1>2, <1>3, <1>4, <1>5, Callback

(* on_body adds to body_.                                                  *)
LEMMA Body ==
  ASSUME Inv, NEW n, on_body(n)
  PROVE  Inv'
<1>1. TypeOK /\ Position /\ SplitsDoNotShow /\ Buffered
  BY DEF Inv
<1>2. /\ Calls("body", n) /\ body_' = Cat(body_, Piece(n))
      /\ UNCHANGED <<http_errno, parser_method, message_status_, url_, header_vars>>
  BY DEF on_body, Appended, Cat
<1>3. GoesOn("body", Piece(n))
  BY <1>1, <1>2, CallGoesOn
<1>4. Buffered' /\ headers_' = StoredHeaders(Consumed')
  <2>1. /\ UNCHANGED header_vars /\ headers_ = StoredHeaders(Consumed)
        /\ "body" \notin {"field", "value", "headers_complete"}
    BY <1>1, <1>2 DEF SplitsDoNotShow
  <2> QED
    BY <1>1, <1>3, <2>1, LinesStay
<1>5. http_errno' \in BOOLEAN
  BY <1>1, <1>2 DEF TypeOK
<1> QED
  BY <1>2, <1>3, <1>4, <1>5, Callback

(* on_message_complete leaves only the status changed.                     *)
LEMMA MessageComplete ==
  ASSUME Inv, on_message_complete
  PROVE  Inv'
<1>1. TypeOK /\ Position /\ SplitsDoNotShow /\ Buffered
  BY DEF Inv
<1>2. /\ Calls("message_complete", 0) /\ message_status_' = "complete"
      /\ UNCHANGED <<http_errno, parser_method, url_, header_vars, body_>>
  BY DEF on_message_complete
<1>3. GoesOn("message_complete", Piece(0))
  BY <1>1, <1>2, CallGoesOn
<1>4. Buffered' /\ headers_' = StoredHeaders(Consumed')
  <2>1. /\ UNCHANGED header_vars /\ headers_ = StoredHeaders(Consumed)
        /\ "message_complete" \notin {"field", "value", "headers_complete"}
    BY <1>1, <1>2 DEF SplitsDoNotShow
  <2> QED
    BY <1>1, <1>3, <2>1, LinesStay
<1>5. http_errno' \in BOOLEAN
  BY <1>1, <1>2 DEF TypeOK
<1> QED
  BY <1>2, <1>3, <1>4, <1>5, Callback

(* An error is remembered until handle_read looks at it.                   *)
LEMMA SyntaxError ==
  ASSUME Inv, syntax_error
  PROVE  Inv'
<1>1. TypeOK /\ Position /\ SplitsDoNotShow /\ Buffered
  BY DEF Inv
<1>2. /\ http_errno' = TRUE
      /\ UNCHANGED <<parser_method, message_status_, url_, header_vars, body_>>
  BY DEF syntax_error
<1>3. GoesOn("junk", <<>>)
  BY <1>1, JunkGoesOn
<1>4. Buffered' /\ headers_' = StoredHeaders(Consumed')
  <2>1. /\ UNCHANGED header_vars /\ headers_ = StoredHeaders(Consumed)
        /\ "junk" \notin {"field", "value", "headers_complete"}
    BY <1>1, <1>2 DEF SplitsDoNotShow
  <2> QED
    BY <1>1, <1>3, <2>1, LinesStay
<1> QED
  BY <1>2, <1>3, <1>4, Callback

(* A name and the end of the headers first save the line that waits ...    *)
LEMMA SavesLine ==
  ASSUME Inv, NEW k, NEW p, GoesOn(k, p), k \in {"field", "headers_complete"},
         UNCHANGED <<http_errno, parser_method, message_status_, url_, body_>>,
         headers_' = Saved.headers,
         current_header_field_' = Cat(Saved.field, p),
         current_header_value_' = Saved.value
  PROVE  Inv'
<1>1. TypeOK /\ Position /\ Buffered /\ headers_ = StoredHeaders(Consumed)
  BY DEF Inv, SplitsDoNotShow
<1>2. http_errno' \in BOOLEAN
  BY <1>1 DEF TypeOK
<1> DEFINE C == Consumed
           D == Consumed'
<1>3. Longer(C, D, k, p)
  BY DEF GoesOn
<1>4. /\ Saved.field = IF Pending(C) THEN <<>> ELSE BufferedName(C)
      /\ Saved.value = <<>>
      /\ Saved.headers =
           IF Pending(C) THEN With(BufferedName(C), BufferedValue(C), StoredHeaders(C))
                         ELSE StoredHeaders(C)
  BY <1>1, SavedLine
<1> HIDE DEF C, D
<1>5. /\ BufferedName(D) = Cat(IF Pending(C) THEN <<>> ELSE BufferedName(C), p)
      /\ BufferedValue(D) = <<>>
      /\ StoredHeaders(D) =
           IF Pending(C) THEN With(BufferedName(C), BufferedValue(C), StoredHeaders(C))
                         ELSE StoredHeaders(C)
  BY <1>3, LongerLine, Zenon
<1>6. /\ current_header_field_' = BufferedName(D)
      /\ current_header_value_' = BufferedValue(D)
      /\ headers_' = StoredHeaders(D)
  BY <1>4, <1>5, Zenon
<1>7. Buffered' /\ headers_' = StoredHeaders(Consumed')
  BY <1>6, Zenon DEF Buffered, D
<1> QED
  BY <1>2, <1>7, Callback

(* on_header_field: the line is saved, then the name grows.                *)
LEMMA HeaderField ==
  ASSUME Inv, NEW n, on_header_field(n)
  PROVE  Inv'
<1>1. TypeOK /\ Position
  BY DEF Inv
<1>2. /\ Calls("field", n)
      /\ headers_' = Saved.headers
      /\ current_header_field_' = Cat(Saved.field, Piece(n))
      /\ current_header_value_' = Saved.value
      /\ UNCHANGED <<http_errno, parser_method, message_status_, url_, body_>>
  BY DEF on_header_field, Appended, Cat
<1>3. GoesOn("field", Piece(n))
  BY <1>1, <1>2, CallGoesOn
<1> QED
  BY <1>2, <1>3, SavesLine

(* on_headers_complete: the line is saved and no name follows.             *)
LEMMA HeadersComplete ==
  ASSUME Inv, on_headers_complete
  PROVE  Inv'
<1>1. TypeOK /\ Position /\ Buffered /\ headers_ = StoredHeaders(Consumed)
  BY DEF Inv, SplitsDoNotShow
<1>2. /\ Calls("headers_complete", 0)
      /\ headers_' = Saved.headers
      /\ current_header_field_' = Saved.field
      /\ current_header_value_' = Saved.value
      /\ UNCHANGED <<http_errno, parser_method, message_status_, url_, body_>>
  BY DEF on_headers_complete
<1>3. GoesOn("headers_complete", Piece(0))
  BY <1>1, <1>2, CallGoesOn
<1>4. current_header_field_' = Cat(Saved.field, Piece(0))
  <2>1. Piece(0) = <<>>
    <3>1. offset \in Nat
      BY <1>1 DEF TypeOK
    <3> QED
      BY <3>1, SubSeqEmpty DEF Piece
  <2>2. Saved.field \in Seq(Fragment)
    <3> DEFINE C == Consumed
    <3>1. Saved.field = IF Pending(C) THEN <<>> ELSE BufferedName(C)
      BY <1>1, SavedLine
    <3>2. Named(C)
      BY <1>1, ConsumedNamed
    <3> HIDE DEF C
    <3>3. <<>> \in Seq(Fragment) /\ BufferedName(C) \in Seq(Fragment)
      BY <3>2, CatFacts, BufferedType, Zenon
    <3> QED
      BY <3>1, <3>3, Zenon
  <2> DEFINE f == Saved.field
  <2> HIDE DEF f
  <2>3. Cat(f, <<>>) = f
    BY <2>2 DEF Cat, f
  <2> QED
    BY <1>2, <2>1, <2>3, Zenon DEF f
<1> QED
  BY <1>2, <1>3, <1>4, SavesLine

(* ... and a piece of a value is added to the value.                       *)
LEMMA HeaderValue ==
  ASSUME Inv, NEW n, on_header_value(n)
  PROVE  Inv'
<1>1. TypeOK /\ Position /\ Buffered /\ headers_ = StoredHeaders(Consumed)
  BY DEF Inv, SplitsDoNotShow
<1>2. /\ Calls("value", n)
      /\ current_header_value_' = Cat(current_header_value_, Piece(n))
      /\ UNCHANGED <<http_errno, parser_method, message_status_, url_, body_,
                     current_header_field_, headers_>>
  BY DEF on_header_value, Appended, Cat
<1>3. GoesOn("value", Piece(n))
  BY <1>1, <1>2, CallGoesOn
<1>4. http_errno' \in BOOLEAN
  BY <1>1, <1>2 DEF TypeOK
<1> DEFINE C == Consumed
           D == Consumed'
           p == Piece(n)
<1>5. Longer(C, D, "value", p)
  BY <1>3 DEF GoesOn
<1>6. /\ current_header_field_' = BufferedName(C)
      /\ current_header_value_' = Cat(BufferedValue(C), p)
      /\ headers_' = StoredHeaders(C)
  BY <1>1, <1>2, Zenon DEF Buffered
<1> HIDE DEF C, D, p
<1>7. /\ BufferedName(D) = BufferedName(C)
      /\ BufferedValue(D) = Cat(BufferedValue(C), p)
      /\ StoredHeaders(D) = StoredHeaders(C)
  BY <1>5, LongerValue, Zenon
<1>8. Buffered' /\ headers_' = StoredHeaders(Consumed')
  BY <1>6, <1>7, Zenon DEF Buffered, D
<1> QED
  BY <1>2, <1>3, <1>4, <1>8, Callback

-----------------------------------------------------------------------------
(* What the answers are.                                                   *)
LEMMA ReplyFacts ==
  ASSUME NEW v \in {"complete", "want_more", "faild"}, NEW m
  PROVE  Reply(v, m).line =
           CASE v = "want_more" -> 0
             [] v = "faild"     -> 400
             [] v = "complete"  -> 200
<1>1. NoAnswer.line = 0
  BY DEF NoAnswer
<1>2. to_buffers(stock_response(400)).line = 400
  <2>1. stock_response(400).status = 400
    BY DEF stock_response
  <2>2. status_line(400) = 400
    BY DEF status_line, StatusCode
  <2> QED
    BY <2>1, <2>2 DEF to_buffers
<1>3. to_buffers(dispatch(m)).line = 200
  <2>1. handled.status = 200 /\ response.status = 200
    BY DEF handled, response
  <2>2. dispatch(m).status = 200
    BY <2>1 DEF dispatch
  <2>3. status_line(200) = 200
    BY DEF status_line, StatusCode
  <2> QED
    BY <2>2, <2>3 DEF to_buffers
<1> HIDE DEF NoAnswer, to_buffers, dispatch, stock_response
<1> QED
  BY <1>1, <1>2, <1>3 DEF Reply

(* Nothing of what has been handed over changes.                           *)
LEMMA NothingHandedOver ==
  ASSUME Position, SplitsDoNotShow, Buffered, Begun,
         UNCHANGED <<stream, next, offset, parser_method, url_, header_vars, body_>>
  PROVE  /\ Position' /\ SplitsDoNotShow' /\ Buffered' /\ Begun'
         /\ \A k : Seen(k)' <=> Seen(k)
<1>1. /\ stream' = stream /\ next' = next /\ offset' = offset
      /\ parser_method' = parser_method /\ url_' = url_ /\ body_' = body_
      /\ headers_' = headers_
      /\ current_header_field_' = current_header_field_
      /\ current_header_value_' = current_header_value_
  BY DEF header_vars
<1>2. Consumed' = Consumed
  BY <1>1, Zenon DEF Consumed
<1>3. Position'
  BY <1>1 DEF Position
<1>4. SplitsDoNotShow'
  BY <1>1, <1>2, Zenon DEF SplitsDoNotShow
<1>5. Buffered'
  BY <1>1, <1>2, Zenon DEF Buffered
<1>6. \A k : Seen(k)' <=> Seen(k)
  BY <1>2, Zenon DEF Seen
<1>7. Begun'
  BY <1>1, <1>2, Zenon DEF Begun, Seen
<1> QED
  BY <1>3, <1>4, <1>5, <1>6, <1>7

(* The two halves of handle_read around the callbacks.                     *)
LEMMA Parse ==
  ASSUME Inv, parse
  PROVE  Inv'
<1>1. TypeOK /\ Position /\ SplitsDoNotShow /\ Buffered /\ Begun /\ Answering
  BY DEF Inv
<1>2. /\ parsing = "no" /\ message_status_ = "want_more" /\ parsing' = "more"
      /\ UNCHANGED <<stream, next, offset, http_errno, parser_method,
                     message_status_, method_, url_, header_vars, body_, answer>>
  BY DEF parse
<1>3. /\ Position' /\ SplitsDoNotShow' /\ Buffered' /\ Begun'
      /\ \A k : Seen(k)' <=> Seen(k)
  BY <1>1, <1>2, NothingHandedOver
<1>4. TypeOK'
  BY <1>1, <1>2 DEF TypeOK
<1>5. Answering'
  <2>1. /\ http_errno <=> Seen("junk")
        /\ ~Seen("junk") /\ ~Seen("message_complete")
        /\ answer = Reply("want_more", method_) /\ method_ = "INVALID"
    <3> DEFINE junk == Seen("junk")
               done == Seen("message_complete")
               r == Reply(message_status_, method_)
    <3>1. /\ http_errno <=> junk
          /\ message_status_ = IF junk THEN "faild"
                               ELSE IF done THEN "complete" ELSE "want_more"
          /\ answer = r
          /\ method_ = "INVALID" <=>
               (message_status_ = "complete" => parser_method \in Unsupported)
      <4>1. http_errno <=> junk
        BY <1>1, Zenon DEF Answering
      <4>2. message_status_ = IF junk THEN "faild"
                              ELSE IF done THEN "complete" ELSE "want_more"
        <5>1. message_status_ =
                IF parsing = "no" /\ junk THEN "faild"
                ELSE IF done THEN "complete" ELSE "want_more"
          BY <1>1, Zenon DEF Answering
        <5> QED
          BY <1>2, <5>1, Zenon
      <4>3. answer = r
        BY <1>1, <1>2 DEF Answering
      <4>4. method_ = "INVALID" <=>
              (message_status_ = "complete" => parser_method \in Unsupported)
        <5> HIDE DEF junk, done, r
        <5> QED
          BY <1>1, <1>2 DEF Answering
      <4> QED
        BY <4>1, <4>2, <4>3, <4>4, Zenon
    <3>2. r = Reply("want_more", method_)
      BY <1>2, Zenon
    <3> HIDE DEF junk, done, r
    <3>3. ~junk /\ ~done /\ method_ = "INVALID" /\ (http_errno <=> junk)
      BY <1>2, <3>1
    <3> QED
      BY <3>1, <3>2, <3>3, Zenon DEF junk, done
  <2>2. answer = NoAnswer
    BY <2>1 DEF Reply
  <2>3. /\ http_errno' <=> Seen("junk")'
        /\ message_status_' = IF Seen("message_complete")' THEN "complete"
                              ELSE "want_more"
        /\ parsing' # "no"
        /\ answer' = NoAnswer /\ method_' = "INVALID"
    BY <1>2, <1>3, <2>1, <2>2
  <2> HIDE DEF Seen, NoAnswer
  <2> QED
    BY <2>3 DEF Answering
<1> QED
  BY <1>3, <1>4, <1>5 DEF Inv

(* handle_read answers the verdict on all that has been handed over.       *)
LEMMA HandleRead ==
  ASSUME Inv, handle_read
  PROVE  Inv'
<1>1. TypeOK /\ Position /\ SplitsDoNotShow /\ Buffered /\ Begun /\ Answering
  BY DEF Inv
<1>2. /\ parsing = "drained" /\ parsing' = "no"
      /\ message_status_' = Verdict
      /\ method_' = IF Verdict = "complete" THEN Method(parser_method) ELSE method_
      /\ answer' = Reply(Verdict, method_')
      /\ UNCHANGED <<stream, next, offset, http_errno, parser_method, url_,
                     header_vars, body_>>
  BY DEF handle_read
<1>3. /\ Position' /\ SplitsDoNotShow' /\ Buffered' /\ Begun'
      /\ \A k : Seen(k)' <=> Seen(k)
  BY <1>1, <1>2, NothingHandedOver
<1>4. Verdict \in {"complete", "want_more", "faild"}
  BY <1>1 DEF TypeOK, Verdict
<1>5. method_ = "INVALID"
  BY <1>1, <1>2 DEF Answering
<1>6. /\ method_' \in {"GET", "POST", "PUT", "DEL", "INVALID"}
      /\ method_' = "INVALID" <=> (Verdict = "complete" => parser_method \in Unsupported)
  BY <1>1, <1>2, <1>5 DEF TypeOK, Methods, Unsupported, Method
<1>7. TypeOK'
  <2>1. answer'.line \in {0, 200, 400}
    <3> DEFINE v == Verdict
               m == method_'
    <3>1. answer' = Reply(v, m) /\ v \in {"complete", "want_more", "faild"}
      BY <1>2, <1>4
    <3> HIDE DEF v, m
    <3>2. Reply(v, m).line \in {0, 200, 400}
      BY <3>1, ReplyFacts
    <3> QED
      BY <3>1, <3>2, Zenon
  <2> QED
    BY <1>1, <1>2, <1>4, <1>6, <2>1 DEF TypeOK
<1>8. Answering'
  <2>1. /\ http_errno <=> Seen("junk")
        /\ message_status_ = IF Seen("message_complete") THEN "complete" ELSE "want_more"
    BY <1>1, <1>2 DEF Answering
  <2>2. Verdict = IF Seen("junk") THEN "faild"
                  ELSE IF Seen("message_complete") THEN "complete" ELSE "want_more"
    BY <2>1, Zenon DEF Verdict
  <2>3. /\ http_errno' <=> Seen("junk")'
        /\ message_status_' = IF Seen("junk")' THEN "faild"
                              ELSE IF Seen("message_complete")' THEN "complete"
                              ELSE "want_more"
    BY <1>2, <1>3, <2>1, <2>2, Zenon
  <2>4. /\ parsing' = "no" /\ answer' = Reply(message_status_', method_')
        /\ method_' = "INVALID" <=>
             (message_status_' = "complete" => parser_method' \in Unsupported)
    BY <1>2, <1>6
  <2> HIDE DEF Seen, Reply
  <2> QED
    BY <2>3, <2>4, Zenon DEF Answering
<1> QED
  BY <1>3, <1>7, <1>8 DEF Inv

(* The inductive invariant holds at the start ...                          *)
LEMMA InitInv ==
  ASSUME Init
  PROVE  Inv
<1>1. stream \in Streams /\ stream \in Seq(Elements)
  BY StreamFacts DEF Init
<1>2. Consumed = <<>>
  <2>1. next - 1 = 0 /\ offset = 0
    BY DEF Init
  <2>2. SubSeq(stream, 1, 0) = <<>> /\ <<>> \o <<>> = <<>>
    OBVIOUS
  <2> QED
    BY <2>1, <2>2, Zenon DEF Consumed
<1>3. <<>> \in Seq(Elements) /\ DOMAIN <<>> = {} /\ Len(<<>>) = 0
      /\ SubSeq(<<>>, 1, 0) = <<>>
  OBVIOUS
<1>4. \A k : Texts(<<>>, k) = <<>>
  BY <1>3, TextsNone
<1>5. \A k : ~Seen(k)
  BY <1>2, <1>3, Zenon DEF Seen
<1>6. Values(<<>>) = {} /\ Closed(<<>>) = {}
  BY <1>3, Zenon DEF Values, Closed
<1>7. ~Pending(<<>>) /\ Latest({}) = 0
  <2>1. Latest({}) = 0
    <3>1. {} \in SUBSET (1 .. 0) /\ 0 \in Nat /\ IsLatest(0, {})
      BY DEF IsLatest
    <3> QED
      BY <3>1, LatestIs
  <2> QED
    BY <1>6, <2>1, Zenon DEF Pending
<1>8. TypeOK
  <2>1. Len(stream) \in Nat /\ answer.line = 0
    BY <1>1 DEF Init, NoAnswer
  <2>2. next \in 1 .. Len(stream) + 1 /\ offset \in Nat
    BY <2>1 DEF Init
  <2>3. /\ parsing \in {"no", "more", "drained"}
        /\ http_errno \in BOOLEAN
        /\ parser_method \in Methods
        /\ message_status_ \in {"complete", "want_more", "faild"}
        /\ method_ \in {"GET", "POST", "PUT", "DEL", "INVALID"}
    BY DEF Init, reset, Methods
  <2>4. answer.line \in {0, 200, 400}
    BY <2>1
  <2> QED
    BY <1>1, <2>2, <2>3, <2>4, Zenon DEF TypeOK
<1>9. Position
  BY DEF Init, Position
<1>10. SplitsDoNotShow
  <2>1. headers_ = StoredHeaders(<<>>)
    <3>1. headers_ = [n \in {} |-> ""]
      BY DEF Init, NoHeaders
    <3>2. {Name(<<>>, i) : i \in Closed(<<>>)} = {}
      BY <1>6, Zenon
    <3>3. StoredHeaders(<<>>) =
            [n \in {} |-> <<>>[Latest({i \in Closed(<<>>) : Name(<<>>, i) = n})].text]
      BY <3>2, Zenon DEF StoredHeaders
    <3> DEFINE g(n) == <<>>[Latest({i \in Closed(<<>>) : Name(<<>>, i) = n})].text
    <3> HIDE DEF g
    <3>4. [n \in {} |-> g(n)] = [n \in {} |-> ""]
      OBVIOUS
    <3> QED
      BY <3>1, <3>3, <3>4, Zenon DEF g
  <2>2. url_ = <<>> /\ body_ = <<>>
    BY DEF Init
  <2> QED
    BY <1>2, <1>4, <2>1, <2>2, Zenon DEF SplitsDoNotShow
<1>11. Buffered
  <2>1. BufferedValue(<<>>) = <<>>
    BY <1>7, Zenon DEF BufferedValue
  <2>2. BufferedName(<<>>) = <<>>
    <3>1. Latest(Values(<<>>)) + 1 = 1
      BY <1>6, <1>7
    <3>2. SubSeq(<<>>, Latest(Values(<<>>)) + 1, Len(<<>>)) = <<>>
      BY <1>3, <3>1, Zenon
    <3> QED
      BY <1>4, <1>7, <3>2, Zenon DEF BufferedName
  <2>3. current_header_field_ = <<>> /\ current_header_value_ = <<>>
    BY DEF Init
  <2> QED
    BY <1>2, <2>1, <2>2, <2>3, Zenon DEF Buffered
<1>12. Begun
  BY <1>5 DEF Begun
<1>13. Answering
  <2>1. /\ http_errno = FALSE /\ parsing = "no" /\ message_status_ = "want_more"
        /\ method_ = "INVALID" /\ answer = NoAnswer
    BY DEF Init, reset
  <2>2. answer = Reply(message_status_, method_)
    BY <2>1 DEF Reply
  <2>3. ~Seen("junk") /\ ~Seen("message_complete")
    BY <1>5
  <2> HIDE DEF Seen, Reply, NoAnswer
  <2> QED
    BY <2>1, <2>2, <2>3 DEF Answering
<1> QED
  BY <1>8, <1>9, <1>10, <1>11, <1>12, <1>13 DEF Inv

(* ... and after every step.                                               *)
LEMMA NextInv ==
  ASSUME Inv, [Next]_vars
  PROVE  Inv'
<1>1. CASE parse
  BY <1>1, Parse
<1>2. CASE handle_read
  BY <1>2, HandleRead
<1>3. CASE syntax_error
  BY <1>3, SyntaxError
<1>4. ASSUME NEW n \in Pieces, on_message_begin(n) \/ method_corrected(n)
      PROVE  Inv'
  BY <1>4, MessageBegin DEF on_message_begin, method_corrected
<1>5. CASE on_headers_complete
  BY <1>5, HeadersComplete
<1>6. CASE on_message_complete
  BY <1>6, MessageComplete
<1>7. ASSUME NEW n \in Pieces, on_url(n)
      PROVE  Inv'
  BY <1>7, Url
<1>8. ASSUME NEW n \in Pieces, on_header_field(n)
      PROVE  Inv'
  BY <1>8, HeaderField
<1>9. ASSUME NEW n \in Pieces, on_header_value(n)
      PROVE  Inv'
  BY <1>9, HeaderValue
<1>10. ASSUME NEW n \in Pieces, on_body(n)
      PROVE  Inv'
  BY <1>10, Body
<1>11. CASE UNCHANGED vars
  <2>1. TypeOK /\ Position /\ SplitsDoNotShow /\ Buffered /\ Begun /\ Answering
    BY DEF Inv
  <2>2. /\ UNCHANGED <<stream, next, offset, parser_method, url_, header_vars, body_>>
        /\ UNCHANGED <<parsing, http_errno, message_status_, method_, answer>>
    BY <1>11 DEF vars
  <2>3. /\ Position' /\ SplitsDoNotShow' /\ Buffered' /\ Begun'
        /\ \A k : Seen(k)' <=> Seen(k)
    BY <2>1, <2>2, NothingHandedOver
  <2>4. TypeOK'
    BY <2>1, <2>2 DEF TypeOK
  <2>5. Answering'
    <3>1. /\ Seen("junk")' <=> Seen("junk")
          /\ Seen("message_complete")' <=> Seen("message_complete")
      BY <2>3, Zenon
    <3>2. /\ parsing' = parsing /\ http_errno' = http_errno
          /\ message_status_' = message_status_ /\ method_' = method_
          /\ answer' = answer /\ parser_method' = parser_method
      BY <2>2
    <3> HIDE DEF Seen, Reply, NoAnswer
    <3> QED
      BY <2>1, <3>1, <3>2, Zenon DEF Answering
  <2> QED
    BY <2>3, <2>4, <2>5 DEF Inv
<1> QED
  BY <1>1, <1>2, <1>3, <1>4, <1>5, <1>6, <1>7, <1>8, <1>9, <1>10, <1>11,
     Zenon DEF Next

(* The inductive invariant holds of every behaviour.                       *)
THEOREM Invariance == Spec => []Inv
<1>1. Init => Inv
  BY InitInv
<1>2. Inv /\ [Next]_vars => Inv'
  BY NextInv
<1> QED
  BY <1>1, <1>2, PTL DEF Spec

-----------------------------------------------------------------------------
(* What is handed over has the kinds of the stream.                        *)
LEMMA ConsumedKinds ==
  ASSUME TypeOK, Position
  PROVE  /\ Consumed \in Seq(Elements) /\ Len(Consumed) \in 0 .. Len(stream)
         /\ DOMAIN Consumed = 1 .. Len(Consumed)
         /\ \A i \in 1 .. Len(Consumed) : Consumed[i].kind = stream[i].kind
<1>1. /\ Named(Whole) /\ Len(Whole) = next - 1
      /\ \A i \in 1 .. next - 1 : Whole[i] = stream[i]
      /\ offset = 0 => Consumed = Whole
      /\ offset > 0 =>
           /\ next \in 1 .. Len(stream)
           /\ Element(stream[next].kind, Part) \in Elements
           /\ Consumed = Append(Whole, Element(stream[next].kind, Part))
  BY ConsumedIs
<1>2. /\ next \in 1 .. Len(stream) + 1 /\ Len(stream) \in Nat /\ offset \in Nat
  BY StreamFacts DEF TypeOK
<1>3. Whole \in Seq(Elements)
  BY <1>1 DEF Named
<1>4. CASE offset = 0
  <2> DEFINE C == Consumed
  <2>1. C \in Seq(Elements) /\ Len(C) = next - 1
        /\ \A i \in 1 .. next - 1 : C[i] = stream[i]
    BY <1>1, <1>3, <1>4
  <2> HIDE DEF C
  <2>2. /\ C \in Seq(Elements) /\ Len(C) \in 0 .. Len(stream)
        /\ DOMAIN C = 1 .. Len(C)
        /\ \A i \in 1 .. Len(C) : C[i].kind = stream[i].kind
    BY <1>2, <2>1
  <2> QED
    BY <2>2 DEF C
<1>5. CASE offset > 0
  <2> DEFINE C == Consumed
             W == Whole
             k == stream[next].kind
             e == Element(k, Part)
  <2>1. /\ C = Append(W, e) /\ e \in Elements /\ W \in Seq(Elements) /\ Len(W) = next - 1
        /\ next \in 1 .. Len(stream)
        /\ \A i \in 1 .. next - 1 : W[i] = stream[i]
    BY <1>1, <1>3, <1>5
  <2>2. e.kind = k
    BY ElementIs
  <2> HIDE DEF C, W, e
  <2>3. /\ C \in Seq(Elements) /\ Len(C) = next /\ C[next] = e
        /\ \A i \in 1 .. next - 1 : C[i] = stream[i]
    BY <1>2, <2>1
  <2>4. \A i \in 1 .. next : C[i].kind = stream[i].kind
    <3>1. \A i \in 1 .. next : i = next \/ i \in 1 .. next - 1
      BY <1>2
    <3> QED
      BY <2>2, <2>3, <3>1
  <2>5. /\ C \in Seq(Elements) /\ Len(C) \in 0 .. Len(stream)
        /\ DOMAIN C = 1 .. Len(C)
        /\ \A i \in 1 .. Len(C) : C[i].kind = stream[i].kind
    BY <1>2, <2>1, <2>3, <2>4
  <2> QED
    BY <2>5 DEF C
<1> QED
  BY <1>2, <1>4, <1>5

(* Types are as declared.                                                  *)
THEOREM TypeCorrect == Spec => []TypeOK
<1>1. Inv => TypeOK
  BY DEF Inv
<1> QED
  BY <1>1, Invariance, PTL

(* Where the reads end does not matter: url_, body_ and headers_ are a     *)
(* function of the bytes parsed so far (message.cpp:79-117, 197-203).      *)
THEOREM SplitsInvisible == Spec => []SplitsDoNotShow
<1>1. Inv => SplitsDoNotShow
  BY DEF Inv
<1> QED
  BY <1>1, Invariance, PTL

(* Once a read is parsed, the verdict is that on all the bytes, and the    *)
(* answer is that to the verdict.                                          *)
LEMMA Answered ==
  ASSUME Inv
  PROVE  /\ parsing # "no" => answer = NoAnswer
         /\ parsing = "no" =>
              /\ answer = Reply(message_status_, method_)
              /\ message_status_ \in {"complete", "want_more", "faild"}
              /\ message_status_ = "faild" <=> Seen("junk")
              /\ message_status_ = "complete" <=>
                   ~Seen("junk") /\ Seen("message_complete")
              /\ message_status_ = "complete" =>
                   (method_ = "INVALID" <=> parser_method \in Unsupported)
<1>1. TypeOK /\ Answering
  BY DEF Inv
<1>2. parsing # "no" => answer = NoAnswer
  BY <1>1 DEF Answering
<1>3. ASSUME parsing = "no"
      PROVE  /\ answer = Reply(message_status_, method_)
             /\ message_status_ \in {"complete", "want_more", "faild"}
             /\ message_status_ = "faild" <=> Seen("junk")
             /\ message_status_ = "complete" <=>
                  ~Seen("junk") /\ Seen("message_complete")
             /\ message_status_ = "complete" =>
                  (method_ = "INVALID" <=> parser_method \in Unsupported)
  <2> DEFINE junk == Seen("junk")
             done == Seen("message_complete")
  <2>1. message_status_ = IF junk THEN "faild"
                          ELSE IF done THEN "complete" ELSE "want_more"
    <3>1. message_status_ =
            IF parsing = "no" /\ junk THEN "faild"
            ELSE IF done THEN "complete" ELSE "want_more"
      BY <1>1, Zenon DEF Answering
    <3> QED
      BY <1>3, <3>1, Zenon
  <2>2. answer = Reply(message_status_, method_)
    BY <1>1, <1>3 DEF Answering
  <2>3. method_ = "INVALID" <=>
          (message_status_ = "complete" => parser_method \in Unsupported)
    BY <1>1, <1>3 DEF Answering
  <2>4. message_status_ \in {"complete", "want_more", "faild"}
    BY <1>1 DEF TypeOK
  <2> HIDE DEF junk, done
  <2>5. (message_status_ = "faild" <=> junk)
        /\ (message_status_ = "complete" <=> ~junk /\ done)
    BY <2>1
  <2>6. message_status_ = "complete" =>
          (method_ = "INVALID" <=> parser_method \in Unsupported)
    BY <2>3
  <2> QED
    BY <2>2, <2>4, <2>5, <2>6, Zenon DEF junk, done
<1> QED
  BY <1>2, <1>3, Zenon

(* 200 exactly if a message is complete and nothing refused came with it,  *)
(* 400 exactly if something did (message.cpp:65-72).                       *)
THEOREM AnswerExactly == Spec => []AnswerExact
<1>1. ASSUME Inv
      PROVE  AnswerExact
  <2>1. SUFFICES ASSUME parsing = "no"
                 PROVE  /\ answer.line = 400 <=> Seen("junk")
                        /\ answer.line = 200 <=> ~Seen("junk") /\ Seen("message_complete")
    BY DEF AnswerExact
  <2> DEFINE v == message_status_
  <2>2. /\ answer = Reply(v, method_)
        /\ v \in {"complete", "want_more", "faild"}
        /\ v = "faild" <=> Seen("junk")
        /\ v = "complete" <=> ~Seen("junk") /\ Seen("message_complete")
    BY <1>1, <2>1, Answered
  <2>3. answer.line = CASE v = "want_more" -> 0
                        [] v = "faild"     -> 400
                        [] v = "complete"  -> 200
    BY <2>2, ReplyFacts
  <2>4. (answer.line = 400 <=> v = "faild") /\ (answer.line = 200 <=> v = "complete")
    <3> DEFINE l == answer.line
    <3> HIDE DEF l
    <3>1. l = CASE v = "want_more" -> 0
                [] v = "faild"     -> 400
                [] v = "complete"  -> 200
      BY <2>3 DEF l
    <3>2. (l = 400 <=> v = "faild") /\ (l = 200 <=> v = "complete")
      BY <2>2, <3>1
    <3> QED
      BY <3>2 DEF l
  <2> QED
    BY <2>2, <2>4, Zenon
<1> QED
  BY <1>1, Invariance, PTL

(* What a 200 answers: a message that is complete, with what dispatch      *)
(* makes of the method.                                                    *)
LEMMA Answered200 ==
  ASSUME Inv, answer.line = 200
  PROVE  /\ parsing = "no" /\ message_status_ = "complete"
         /\ answer = to_buffers(dispatch(method_))
         /\ method_ = "INVALID" <=> parser_method \in Unsupported
         /\ ~Seen("junk") /\ Seen("message_complete")
<1> DEFINE v == message_status_
<1>1. parsing = "no"
  <2>1. NoAnswer.line # 200
    BY DEF NoAnswer
  <2> QED
    BY <2>1, Answered, Zenon
<1>2. /\ answer = Reply(v, method_)
      /\ v \in {"complete", "want_more", "faild"}
      /\ v = "complete" <=> ~Seen("junk") /\ Seen("message_complete")
      /\ v = "complete" => (method_ = "INVALID" <=> parser_method \in Unsupported)
  BY <1>1, Answered
<1>3. v = "complete"
  <2>1. answer.line = CASE v = "want_more" -> 0
                        [] v = "faild"     -> 400
                        [] v = "complete"  -> 200
    BY <1>2, ReplyFacts
  <2> QED
    BY <1>2, <2>1
<1>4. answer = to_buffers(dispatch(method_))
  <2> HIDE DEF v
  <2> QED
    BY <1>2, <1>3 DEF Reply
<1> QED
  BY <1>1, <1>2, <1>3, <1>4, Zenon

(* A message that is complete has begun.                                   *)
LEMMA MessageBegan ==
  ASSUME Inv, Seen("message_complete")
  PROVE  Seen("begin")
<1> DEFINE C == Consumed
<1>1. TypeOK /\ Position
  BY DEF Inv
<1>2. /\ Len(C) \in 0 .. Len(stream) /\ DOMAIN C = 1 .. Len(C)
      /\ \A i \in 1 .. Len(C) : C[i].kind = stream[i].kind
  BY <1>1, ConsumedKinds
<1>3. PICK i \in DOMAIN C : C[i].kind = "message_complete"
  BY Zenon DEF Seen
<1> HIDE DEF C
<1>4. stream \in Seq(Elements) /\ IsStream(stream)
  BY <1>1, StreamFacts, StreamsAssumption DEF TypeOK
<1>5. i \in DOMAIN stream /\ stream[i].kind = "message_complete"
  BY <1>2, <1>3, <1>4
<1>6. PICK j \in 1 .. i - 1 : stream[j].kind = "begin"
  BY <1>4, <1>5 DEF IsStream
<1>7. j \in DOMAIN C /\ C[j].kind = "begin"
  BY <1>2, <1>3, <1>6
<1> QED
  BY <1>7, Zenon DEF Seen, C

(* The method answered is what the parser takes the last message begun for *)
(* from the bytes of it that have come, which may be less than its method; *)
(* one nothing is written for is answered 200 without content              *)
(* (message.cpp:157-173, connection.cpp:34-53).                            *)
THEOREM LastMethod == Spec => []LastMethodAnswers
<1>1. ASSUME Inv
      PROVE  LastMethodAnswers
  <2>1. SUFFICES ASSUME answer.line = 200
                 PROVE  answer.content = "" <=> MethodOf(Consumed) \in Unsupported
    BY Zenon DEF LastMethodAnswers
  <2>2. /\ answer = to_buffers(dispatch(method_))
        /\ method_ = "INVALID" <=> parser_method \in Unsupported
        /\ Seen("message_complete")
    BY <1>1, <2>1, Answered200
  <2>3. TypeOK /\ Position /\ Begun
    BY <1>1 DEF Inv
  <2>4. Seen("begin")
    BY <1>1, <2>2, MessageBegan
  <2>5. parser_method = MethodOf(Consumed)
    BY <2>3, <2>4, Zenon DEF Begun
  <2>6. answer.content = "" <=> method_ = "INVALID"
    <3>1. answer.content = dispatch(method_).content
      BY <2>2 DEF to_buffers
    <3>2. handled.content = "complete me" /\ response.content = ""
      BY DEF handled, response
    <3>3. "complete me" # ""
      OBVIOUS
    <3>4. method_ \in {"GET", "POST", "PUT", "DEL", "INVALID"}
      BY <2>3 DEF TypeOK
    <3>5. dispatch(method_).content =
            IF method_ = "INVALID" THEN "" ELSE "complete me"
      <4> HIDE DEF handled, response
      <4> QED
        BY <3>2, <3>4 DEF dispatch
    <3> QED
      BY <3>1, <3>3, <3>5, Zenon
  <2> QED
    BY <2>2, <2>5, <2>6, Zenon
<1> QED
  BY <1>1, Invariance, PTL

(* A client can tell where a reply ends, whichever it is (response.cpp:92  *)
(* and 225, request_handler.cpp:8-38).                                     *)
THEOREM ReplyAlone == Spec => []ReplyStandsAlone
<1> DEFINE Alone(a) ==
             /\ {"Date", "Content-Length"} \subseteq DOMAIN a.headers
             /\ a.headers["Content-Length"] = a.content
             /\ "Connection" \in DOMAIN a.headers <=> a.line = 200
<1>1. ASSUME NEW r
      PROVE  /\ to_buffers(r).line = status_line(r.status)
             /\ to_buffers(r).content = r.content
             /\ {"Date", "Content-Length"} \subseteq DOMAIN to_buffers(r).headers
             /\ to_buffers(r).headers["Content-Length"] = r.content
             /\ "Connection" \in DOMAIN to_buffers(r).headers
                  <=> "Connection" \in DOMAIN r.headers
  <2> DEFINE g == With("Content-Length", r.content, r.headers)
             h == With("Date", "now", g)
  <2>1. /\ to_buffers(r).line = status_line(r.status)
        /\ to_buffers(r).content = r.content
        /\ to_buffers(r).headers = h
    BY DEF to_buffers
  <2>2. /\ DOMAIN g = {"Content-Length"} \cup DOMAIN r.headers
        /\ g["Content-Length"] = r.content
    BY DEF With
  <2> HIDE DEF g
  <2>3. /\ DOMAIN h = {"Date"} \cup DOMAIN g
        /\ \A n \in DOMAIN g : n # "Date" => h[n] = g[n]
    BY DEF With
  <2> HIDE DEF h
  <2>4. "Content-Length" # "Date" /\ "Connection" # "Date"
        /\ "Connection" # "Content-Length"
    OBVIOUS
  <2>5. h["Content-Length"] = r.content
    BY <2>2, <2>3, <2>4
  <2>6. DOMAIN h = {"Date", "Content-Length"} \cup DOMAIN r.headers
    BY <2>2, <2>3
  <2> QED
    BY <2>1, <2>4, <2>5, <2>6
<1>2. Alone(to_buffers(stock_response(400)))
  <2>1. stock_response(400).status = 400 /\ status_line(400) = 400
    BY DEF stock_response, status_line, StatusCode
  <2>2. "Connection" \notin DOMAIN stock_response(400).headers
    <3> DEFINE s == stock_reply(400)
    <3>1. stock_response(400).headers = With("Content-Length", s, NoHeaders)
      BY DEF stock_response
    <3>2. DOMAIN NoHeaders = {}
      BY DEF NoHeaders
    <3> HIDE DEF s
    <3>3. DOMAIN With("Content-Length", s, NoHeaders) = {"Content-Length"}
      BY <3>2 DEF With
    <3> QED
      BY <3>1, <3>3
  <2> DEFINE r == stock_response(400)
  <2> HIDE DEF r
  <2>3. /\ to_buffers(r).line = 400
        /\ to_buffers(r).content = r.content
        /\ {"Date", "Content-Length"} \subseteq DOMAIN to_buffers(r).headers
        /\ to_buffers(r).headers["Content-Length"] = r.content
        /\ "Connection" \notin DOMAIN to_buffers(r).headers
    BY <1>1, <2>1, <2>2 DEF r
  <2> QED
    BY <2>3 DEF r
<1>3. ASSUME NEW m
      PROVE  Alone(to_buffers(dispatch(m)))
  <2>1. /\ response.status = 200 /\ handled.status = 200
        /\ handled.headers = response.headers
    BY DEF response, handled
  <2>2. status_line(200) = 200
    BY DEF status_line, StatusCode
  <2>3. "Connection" \in DOMAIN response.headers
    <3> DEFINE g == With("Connection", "close", NoHeaders)
               h == With("Server", "tonghao&asio", g)
    <3>1. response.headers = With("Content-Type", "text/json", h)
      BY DEF response
    <3>2. "Connection" \in DOMAIN g
      BY DEF With
    <3> HIDE DEF g
    <3>3. "Connection" \in DOMAIN h
      BY <3>2 DEF With
    <3> HIDE DEF h
    <3> QED
      BY <3>1, <3>3 DEF With
  <2> DEFINE r == dispatch(m)
  <2>4. r.status = 200 /\ "Connection" \in DOMAIN r.headers
    BY <2>1, <2>3 DEF dispatch
  <2> HIDE DEF r
  <2>5. /\ to_buffers(r).line = 200
        /\ to_buffers(r).content = r.content
        /\ {"Date", "Content-Length"} \subseteq DOMAIN to_buffers(r).headers
        /\ to_buffers(r).headers["Content-Length"] = r.content
        /\ "Connection" \in DOMAIN to_buffers(r).headers
    BY <1>1, <2>2, <2>4
  <2> QED
    BY <2>5 DEF r
<1> HIDE DEF Alone
<1>4. ASSUME Inv
      PROVE  ReplyStandsAlone
  <2>1. SUFFICES ASSUME answer # NoAnswer
                 PROVE  Alone(answer)
    BY DEF ReplyStandsAlone, Alone
  <2>2. parsing = "no"
    BY <1>4, <2>1, Answered
  <2>3. /\ answer = Reply(message_status_, method_)
        /\ message_status_ \in {"complete", "want_more", "faild"}
    BY <1>4, <2>2, Answered
  <2>4. CASE message_status_ = "want_more"
    <3>1. answer = NoAnswer
      BY <2>3, <2>4 DEF Reply
    <3> QED
      BY <2>1, <3>1
  <2>5. CASE message_status_ = "faild"
    <3>1. answer = to_buffers(stock_response(400))
      BY <2>3, <2>5 DEF Reply
    <3> QED
      BY <1>2, <3>1
  <2>6. CASE message_status_ = "complete"
    <3>1. answer = to_buffers(dispatch(method_))
      BY <2>3, <2>6 DEF Reply
    <3> QED
      BY <1>3, <3>1
  <2> QED
    BY <2>3, <2>4, <2>5, <2>6
<1> QED
  BY <1>4, Invariance, PTL

-----------------------------------------------------------------------------
(* The order of a stream, in what is handed over of it.                    *)
Ordered(T) ==
  \A i \in 1 .. Len(T) :
    /\ T[i].kind = "value" => i - 1 \in 1 .. Len(T) /\ T[i - 1].kind = "field"
    /\ i + 1 <= Len(T) =>
         /\ T[i].kind = "field" => T[i + 1].kind \in {"value", "junk"}
         /\ T[i].kind = "value" => T[i + 1].kind \in
              {"field", "headers_complete", "message_complete", "junk"}

(* It is the order of the stream's own kinds.                              *)
LEMMA ConsumedOrdered ==
  ASSUME TypeOK, Position
  PROVE  Ordered(Consumed)
<1> DEFINE C == Consumed
<1>1. /\ Len(C) \in 0 .. Len(stream)
      /\ \A i \in 1 .. Len(C) : C[i].kind = stream[i].kind
  BY ConsumedKinds
<1>2. /\ stream \in Seq(Elements) /\ IsStream(stream) /\ Len(stream) \in Nat
      /\ DOMAIN stream = 1 .. Len(stream)
  BY StreamFacts, StreamsAssumption DEF TypeOK
<1> HIDE DEF C
<1>3. ASSUME NEW i \in 1 .. Len(C)
      PROVE  /\ C[i].kind = "value" => i - 1 \in 1 .. Len(C) /\ C[i - 1].kind = "field"
             /\ i + 1 <= Len(C) =>
                  /\ C[i].kind = "field" => C[i + 1].kind \in {"value", "junk"}
                  /\ C[i].kind = "value" => C[i + 1].kind \in
                       {"field", "headers_complete", "message_complete", "junk"}
  <2>1. i \in DOMAIN stream /\ C[i].kind = stream[i].kind
    BY <1>1, <1>2
  <2>2. /\ stream[i].kind = "value" => i - 1 \in DOMAIN stream
                                       /\ stream[i - 1].kind = "field"
        /\ i + 1 \in DOMAIN stream =>
             /\ stream[i].kind = "field" => stream[i + 1].kind \in {"value", "junk"}
             /\ stream[i].kind = "value" => stream[i + 1].kind \in
                  {"field", "headers_complete", "message_complete", "junk"}
    BY <1>2, <2>1 DEF IsStream
  <2>3. C[i].kind = "value" => i - 1 \in 1 .. Len(C) /\ C[i - 1].kind = "field"
    <3>1. SUFFICES ASSUME C[i].kind = "value"
                   PROVE  i - 1 \in 1 .. Len(C) /\ C[i - 1].kind = "field"
      OBVIOUS
    <3>2. i - 1 \in 1 .. Len(stream) /\ stream[i - 1].kind = "field"
      BY <1>2, <2>1, <2>2, <3>1
    <3>3. i - 1 \in 1 .. Len(C)
      BY <1>1, <3>2
    <3> QED
      BY <1>1, <3>2, <3>3
  <2>4. ASSUME i + 1 <= Len(C)
        PROVE  i + 1 \in DOMAIN stream /\ C[i + 1].kind = stream[i + 1].kind
    <3>1. i + 1 \in 1 .. Len(C)
      BY <1>1, <2>4
    <3> QED
      BY <1>1, <1>2, <3>1
  <2> QED
    BY <2>1, <2>2, <2>3, <2>4, Zenon
<1>4. Ordered(C)
  BY <1>3, Zenon DEF Ordered
<1> QED
  BY <1>4 DEF C

(* In a plain message each value is a line of its own ...                  *)
LEMMA PlainNames ==
  ASSUME NEW T \in Seq(Elements), Ordered(T), \A i \in 1 .. Len(T) : T[i].kind # "junk",
         \A i \in AllValues(T) : T[i].text # <<>>, NEW i \in AllValues(T)
  PROVE  Name(T, i) = T[i - 1].text
<1> DEFINE V == Values(T)
           J == {j \in V : j < i}
           w == Latest(J)
<1>1. /\ V \subseteq 1 .. Len(T) /\ Len(T) \in Nat /\ DOMAIN T = 1 .. Len(T)
      /\ i \in 1 .. Len(T) /\ T[i].kind = "value"
  BY ValuesFacts DEF AllValues
<1>2. i - 1 \in 1 .. Len(T) /\ T[i - 1].kind = "field"
  BY <1>1 DEF Ordered
<1>3. w \in 0 .. i - 1 /\ IsLatest(w, J)
  <2> DEFINE n == i - 1
  <2>1. n \in Nat /\ J \in SUBSET (1 .. n)
    BY <1>1, <1>2
  <2> HIDE DEF J, n
  <2>2. Latest(J) \in 0 .. n /\ IsLatest(Latest(J), J)
    BY <2>1, LatestIs
  <2> QED
    BY <2>2 DEF n
<1>4. w \in 0 .. i - 2
  <2>1. w # i - 1
    <3>1. w = i - 1 => w \in V
      BY <1>2, <1>3 DEF IsLatest
    <3>2. w \in V => T[w].kind = "value"
      BY DEF Values
    <3> QED
      BY <1>2, <3>1, <3>2
  <2> QED
    BY <1>1, <1>2, <1>3, <2>1
<1>5. ASSUME NEW j \in w + 1 .. i - 2
      PROVE  T[j].kind # "field"
  <2>1. SUFFICES ASSUME T[j].kind = "field"
                 PROVE  FALSE
    OBVIOUS
  <2>2. j \in 1 .. Len(T) /\ j + 1 \in 1 .. Len(T) /\ j + 1 <= Len(T)
        /\ j + 1 < i /\ ~(j + 1 <= w)
    BY <1>1, <1>2, <1>4
  <2>3. T[j + 1].kind = "value"
    <3>1. T[j + 1].kind \in {"value", "junk"}
      BY <2>1, <2>2 DEF Ordered
    <3> QED
      BY <2>2, <3>1
  <2>4. j + 1 \in AllValues(T) /\ j + 1 \in DOMAIN T
    BY <1>1, <2>2, <2>3 DEF AllValues
  <2>5. j + 1 \in V
    BY <2>3, <2>4 DEF Values
  <2>6. j + 1 \in J
    BY <2>2, <2>5
  <2> QED
    BY <1>3, <2>2, <2>6 DEF IsLatest
<1> DEFINE a == w + 1
           R == SubSeq(T, a, i - 2)
<1>6. /\ a \in Nat \ {0} /\ i - 2 \in Nat /\ a <= (i - 2) + 1 /\ i - 2 <= Len(T)
      /\ i - 1 \in Nat /\ a <= (i - 1) + 1 /\ i - 1 <= Len(T)
      /\ (i - 2) + 1 = i - 1 /\ (i - 1) + 1 = i /\ i <= Len(T)
  BY <1>1, <1>2, <1>4
<1>7. /\ R \in Seq(Elements) /\ \A j \in DOMAIN R : R[j].kind # "field"
  <2> DEFINE l == (i - 2) - a + 1
  <2> HIDE DEF a, w
  <2>1. /\ R \in Seq(Elements) /\ Len(R) = l
        /\ \A j \in 1 .. l : R[j] = T[a + j - 1]
    BY <1>6, SubSeqFacts
  <2>2. ASSUME NEW j \in 1 .. l
        PROVE  R[j].kind # "field"
    <3>1. a + j - 1 \in w + 1 .. i - 2
      BY <1>1, <1>4, <1>6 DEF a
    <3> QED
      BY <1>5, <2>1, <3>1
  <2> HIDE DEF l, R
  <2>3. DOMAIN R = 1 .. l
    BY <2>1
  <2> QED
    BY <2>1, <2>2, <2>3
<1>8. Texts(R, "field") = <<>>
  <2> HIDE DEF R
  <2> QED
    BY <1>7, TextsNone
<1>9. SubSeq(T, a, i) = Append(Append(R, T[i - 1]), T[i])
  <2> HIDE DEF a, w
  <2>1. SubSeq(T, a, (i - 2) + 1) = Append(SubSeq(T, a, i - 2), T[(i - 2) + 1])
    BY <1>6, SubSeqLonger
  <2>2. SubSeq(T, a, (i - 1) + 1) = Append(SubSeq(T, a, i - 1), T[(i - 1) + 1])
    BY <1>6, SubSeqLonger
  <2>3. SubSeq(T, a, i - 1) = Append(R, T[i - 1])
    BY <1>6, <2>1
  <2>4. SubSeq(T, a, i) = Append(SubSeq(T, a, i - 1), T[i])
    BY <1>6, <2>2
  <2> QED
    BY <2>3, <2>4, Zenon
<1> HIDE DEF R
<1> DEFINE x == T[i - 1]
           y == T[i]
<1>10. /\ x \in Elements /\ y \in Elements /\ x.kind = "field" /\ y.kind # "field"
       /\ x.text \in Seq(Fragment)
  BY <1>1, <1>2 DEF Elements
<1> HIDE DEF x, y
<1>11. Append(R, x) \in Seq(Elements)
  BY <1>7, <1>10
<1>12. Texts(Append(R, x), "field") = Cat(<<>>, x.text)
  BY <1>7, <1>8, <1>10, TextsFacts
<1>13. Texts(Append(Append(R, x), y), "field")
         = Cat(Texts(Append(R, x), "field"), <<>>)
  BY <1>10, <1>11, TextsFacts
<1>14. Cat(Cat(<<>>, x.text), <<>>) = x.text
  BY <1>10 DEF Cat
<1>15. Name(T, i) = Texts(SubSeq(T, a, i), "field")
  BY Zenon DEF Name, a, w, J, V
<1> QED
  BY <1>9, <1>12, <1>13, <1>14, <1>15, Zenon DEF x, y

(* ... and what is stored is what was sent.                                *)
LEMMA PlainStored ==
  ASSUME NEW T \in Seq(Elements), Ordered(T), \A i \in 1 .. Len(T) : T[i].kind # "junk",
         Plain(T)
  PROVE  StoredHeaders(T) = SentHeaders(T)
<1> DEFINE V == AllValues(T)
<1>1. Len(T) \in Nat /\ DOMAIN T = 1 .. Len(T)
  OBVIOUS
<1>2. \A i \in V : T[i].text # <<>>
  BY DEF Plain
<1>3. Values(T) = V
  BY <1>2 DEF Values, AllValues
<1>4. Closed(T) = V
  <2>1. ASSUME NEW i \in V
        PROVE  \E j \in i + 1 .. Len(T) : T[j].kind \in {"field", "headers_complete"}
    <3>1. i \in 1 .. Len(T) /\ T[i].kind = "value"
      BY <1>1 DEF AllValues
    <3>2. \A j \in 1 .. Len(T) : T[j].kind = "message_complete" <=> j = Len(T)
      BY <1>1 DEF Plain
    <3>3. i # Len(T)
      BY <3>1, <3>2
    <3>4. i + 1 \in 1 .. Len(T) /\ i + 1 <= Len(T) /\ i + 1 \in i + 1 .. Len(T)
      <4> DEFINE l == Len(T)
      <4>1. l \in Nat /\ i \in 1 .. l /\ i # l
        BY <1>1, <3>1, <3>3
      <4> HIDE DEF l, V
      <4>2. i + 1 \in 1 .. l /\ i + 1 <= l /\ i + 1 \in i + 1 .. l
        BY <4>1
      <4> QED
        BY <4>2 DEF l
    <3>5. T[i + 1].kind \in {"field", "headers_complete", "message_complete"}
      <4>1. T[i + 1].kind \in {"field", "headers_complete", "message_complete", "junk"}
        BY <3>1, <3>4 DEF Ordered
      <4> QED
        BY <3>4, <4>1
    <3>6. T[i + 1].kind # "message_complete"
      <4>1. i + 1 = Len(T) => Len(T) - 1 = i
        BY <3>1
      <4>2. T[Len(T) - 1].kind # "value"
        BY DEF Plain
      <4> QED
        BY <3>1, <3>2, <3>4, <4>1, <4>2
    <3> QED
      BY <3>4, <3>5, <3>6
  <2>2. Closed(T) = {i \in V : \E j \in i + 1 .. Len(T) :
                                  T[j].kind \in {"field", "headers_complete"}}
    BY <1>3, Zenon DEF Closed
  <2> HIDE DEF V
  <2> QED
    BY <2>1, <2>2, Zenon
<1>5. \A i \in V : Name(T, i) = T[i - 1].text
  BY <1>2, PlainNames
<1> HIDE DEF V
<1> DEFINE stored(n) == {i \in V : Name(T, i) = n}
           sent(n) == {i \in V : T[i - 1].text = n}
           names == {Name(T, i) : i \in V}
<1>6. \A n : stored(n) = sent(n)
  BY <1>5
<1>7. names = {T[i - 1].text : i \in V}
  BY <1>5
<1>8. StoredHeaders(T) = [n \in names |-> T[Latest(stored(n))].text]
  BY <1>4, Zenon DEF StoredHeaders
<1>9. SentHeaders(T) = [n \in names |-> T[Latest(sent(n))].text]
  BY <1>7, Zenon DEF SentHeaders, V
<1> HIDE DEF stored, sent, names
<1> DEFINE f(n) == T[Latest(stored(n))].text
           g(n) == T[Latest(sent(n))].text
<1>10. \A n : f(n) = g(n)
  BY <1>6, Zenon
<1> HIDE DEF f, g
<1>11. [n \in names |-> f(n)] = [n \in names |-> g(n)]
  BY <1>10
<1> QED
  BY <1>8, <1>9, <1>11, Zenon DEF f, g

(* Of a message that is complete behind its last element only, there is    *)
(* one beginning at most.                                                  *)
LEMMA PlainBegins ==
  ASSUME TypeOK, Position, Plain(Consumed),
         NEW i \in DOMAIN Consumed, NEW j \in DOMAIN Consumed,
         Consumed[i].kind = "begin", Consumed[j].kind = "begin"
  PROVE  ~(i < j)
<1> DEFINE C == Consumed
<1>1. SUFFICES ASSUME i < j
               PROVE  FALSE
  OBVIOUS
<1>2. /\ Len(C) \in 0 .. Len(stream) /\ DOMAIN C = 1 .. Len(C)
      /\ \A m \in 1 .. Len(C) : C[m].kind = stream[m].kind
  BY ConsumedKinds
<1>3. \A m \in DOMAIN C : C[m].kind = "message_complete" <=> m = Len(C)
  BY DEF Plain
<1>4. /\ i \in DOMAIN C /\ j \in DOMAIN C /\ C[i].kind = "begin" /\ C[j].kind = "begin"
  OBVIOUS
<1>5. /\ stream \in Seq(Elements) /\ Len(stream) \in Nat
      /\ \A m \in DOMAIN stream : \A n \in m + 1 .. Len(stream) :
           stream[m].kind = "begin" /\ stream[n].kind = "begin" =>
             \E c \in m + 1 .. n - 1 : stream[c].kind = "message_complete"
  BY StreamFacts, StreamsAssumption DEF TypeOK, IsStream
<1> HIDE DEF C
<1>6. i \in DOMAIN stream /\ j \in i + 1 .. Len(stream)
  BY <1>1, <1>2, <1>4, <1>5
<1>7. PICK c \in i + 1 .. j - 1 : stream[c].kind = "message_complete"
  BY <1>2, <1>4, <1>5, <1>6
<1>8. c \in DOMAIN C /\ c # Len(C)
  <2> DEFINE l == Len(C)
  <2>1. l \in Nat /\ i \in 1 .. l /\ j \in 1 .. l /\ c \in i + 1 .. j - 1
    BY <1>2, <1>4, <1>5, <1>7
  <2>2. DOMAIN C = 1 .. l
    BY <1>2
  <2> HIDE DEF l
  <2>3. c \in 1 .. l /\ c # l
    BY <2>1
  <2> QED
    BY <2>2, <2>3 DEF l
<1> QED
  BY <1>2, <1>3, <1>7, <1>8

(* A plain request is stored as it was sent, and is the one message begun, *)
(* its method the client's (message.cpp:92-111, 157 and 197-203).          *)
THEOREM PlainAsSent == Spec => []PlainRequestAsSent
<1>1. ASSUME Inv
      PROVE  PlainRequestAsSent
  <2> DEFINE C == Consumed
             begun == {j \in DOMAIN C : C[j].kind = "begin"}
  <2>1. SUFFICES ASSUME answer.line = 200, Plain(C)
                 PROVE  /\ headers_ = SentHeaders(C)
                        /\ \E i \in DOMAIN stream :
                             begun = {i} /\ parser_method = Last(stream[i].text)
    BY DEF PlainRequestAsSent
  <2>2. TypeOK /\ Position /\ SplitsDoNotShow /\ Begun
    BY <1>1 DEF Inv
  <2>3. ~Seen("junk") /\ Seen("message_complete") /\ Seen("begin")
    BY <1>1, <2>1, Answered200, MessageBegan
  <2>4. /\ C \in Seq(Elements) /\ DOMAIN C = 1 .. Len(C) /\ Ordered(C)
        /\ Len(C) \in 0 .. Len(stream) /\ Len(stream) \in Nat
        /\ DOMAIN stream = 1 .. Len(stream)
    BY <2>2, ConsumedKinds, ConsumedOrdered, StreamFacts DEF TypeOK
  <2>5. headers_ = SentHeaders(C)
    <3>1. headers_ = StoredHeaders(C)
      BY <2>2, Zenon DEF SplitsDoNotShow
    <3>2. \A i \in 1 .. Len(C) : C[i].kind # "junk"
      BY <2>3, <2>4, Zenon DEF Seen
    <3>3. Plain(C)
      BY <2>1
    <3> HIDE DEF C
    <3> QED
      BY <2>4, <3>1, <3>2, <3>3, PlainStored
  <2>6. PICK i \in DOMAIN C : C[i].kind = "begin"
    BY <2>3, Zenon DEF Seen
  <2>7. begun = {i}
    <3>1. ASSUME NEW j \in begun
          PROVE  j = i
      <4>1. ~(i < j) /\ ~(j < i)
        <5>1. Plain(Consumed)
          BY <2>1
        <5> QED
          BY <2>2, <2>6, <5>1, PlainBegins
      <4>2. i \in 1 .. Len(C) /\ j \in 1 .. Len(C)
        BY <2>4, <2>6
      <4> QED
        BY <2>4, <4>1, <4>2
    <3> QED
      BY <2>6, <3>1
  <2>8. parser_method = Last(C[i].text)
    <3>1. parser_method = Last(C[Latest(begun)].text)
      BY <2>2, <2>3, Zenon DEF Begun, MethodOf
    <3>2. Latest(begun) = i
      <4>1. begun \in SUBSET (1 .. Len(C)) /\ Len(C) \in Nat /\ i \in begun
        BY <2>4, <2>6
      <4>2. Latest(begun) \in begun
        <5> HIDE DEF begun, C
        <5> QED
          BY <4>1, LatestOf
      <4> QED
        BY <2>7, <4>2
    <3> QED
      BY <3>1, <3>2, Zenon
  <2>9. C[i] = stream[i] /\ i \in DOMAIN stream
    <3>1. i # Len(C)
      <4>1. C[Len(C)].kind = "message_complete"
        BY <2>1, <2>4, <2>6 DEF Plain
      <4> QED
        BY <2>6, <4>1
    <3>2. /\ Len(Whole) = next - 1 /\ Whole \in Seq(Elements)
          /\ \A m \in 1 .. next - 1 : Whole[m] = stream[m]
          /\ offset = 0 => C = Whole
          /\ offset > 0 =>
               /\ Element(stream[next].kind, Part) \in Elements
               /\ C = Append(Whole, Element(stream[next].kind, Part))
          /\ offset \in Nat /\ next \in Nat
      BY <2>2, ConsumedIs, StreamFacts DEF Named, TypeOK
    <3>3. i \in 1 .. Len(C) /\ i \in DOMAIN stream
      BY <2>4, <2>6
    <3> DEFINE W == Whole
               e == Element(stream[next].kind, Part)
    <3> HIDE DEF W, e, C
    <3>4. CASE offset = 0
      BY <3>2, <3>3, <3>4 DEF W
    <3>5. CASE offset > 0
      <4>1. /\ C = Append(W, e) /\ W \in Seq(Elements) /\ Len(W) = next - 1
            /\ \A m \in 1 .. next - 1 : W[m] = stream[m]
        BY <3>2, <3>5 DEF W, e
      <4>2. i \in 1 .. next - 1 /\ C[i] = W[i]
        BY <3>1, <3>2, <3>3, <4>1
      <4> QED
        BY <3>3, <4>1, <4>2
    <3> QED
      BY <3>2, <3>4, <3>5
  <2> HIDE DEF C
  <2> QED
    BY <2>5, <2>7, <2>8, <2>9
<1> QED
  BY <1>1, Invariance, PTL

=============================================================================
