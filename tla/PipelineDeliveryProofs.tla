----------------------- MODULE PipelineDeliveryProofs -----------------------
(***************************************************************************)
(* The pipeline implements LogDelivery, for every number of producers,       *)
(* messages, targets, banks and master buffers: every step accepts, refuses, *)
(* delivers or loses messages of a target, or changes nothing that a user of *)
(* the log can see.  What is on its way to a target is a concatenation of    *)
(* what several queues hold, so this begins with what FlattenSeq yields, by  *)
(* induction.                                                               *)
(***************************************************************************)
EXTENDS PipelineDelivery, PipelineBanksProofs, WellFoundedInduction

-----------------------------------------------------------------------------
(* Induction over the natural numbers, as a fact about sets                 *)

LEMMA LeastNat ==
  ASSUME NEW Q, Q \subseteq Nat, Q # {}
  PROVE  \E n \in Q : \A k \in Q : n <= k
  <1> DEFINE R == {ss \in Nat \X Nat : ss[1] < ss[2]}
  <1>1. IsWellFoundedOn(R, Nat)
    BY NatLessThanWellFounded, Zenon DEF OpToRel
  <1>2. PICK n \in Q : \A k \in Q : ~(<<k, n>> \in R)
    <2> HIDE DEF R
    <2> QED BY <1>1, WFMin
  <1>3. \A k \in Q : ~(k < n)
    BY <1>2
  <1> QED BY <1>3

LEMMA InductionOnSet ==
  ASSUME NEW Q, 0 \in Q, \A n \in Nat : n \in Q => n + 1 \in Q
  PROVE  Nat \subseteq Q
  <1> SUFFICES ASSUME Nat \ Q # {} PROVE FALSE
    OBVIOUS
  <1>1. PICK n \in Nat \ Q : \A k \in Nat \ Q : n <= k
    BY LeastNat
  <1>2. n - 1 \in Nat /\ n - 1 \in Q
    BY <1>1
  <1> QED BY <1>1, <1>2

-----------------------------------------------------------------------------
(* Concatenation.  Cat keeps \o folded: the provers take its definition apart   *)
(* where only its laws are needed.                                           *)

Cat(s, t) == s \o t

LEMMA CatType ==
  ASSUME NEW S, NEW s \in Seq(S), NEW t \in Seq(S)
  PROVE  Cat(s, t) \in Seq(S)
  BY ConcatProperties DEF Cat

LEMMA CatEmpty ==
  ASSUME NEW S, NEW s \in Seq(S)
  PROVE  Cat(s, <<>>) = s /\ Cat(<<>>, s) = s
  BY ConcatEmptySeq DEF Cat

LEMMA CatAssoc ==
  ASSUME NEW S, NEW s \in Seq(S), NEW t \in Seq(S), NEW u \in Seq(S)
  PROVE  Cat(Cat(s, t), u) = Cat(s, Cat(t, u))
  BY ConcatAssociative DEF Cat

\* f[n] is the concatenation of the first n sequences of ss.
IsSum(f, ss, len) ==
  f[0] = <<>> /\ \A n \in Nat : n < len => f[n + 1] = Cat(f[n], ss[n + 1])

\* The recursive function in FlattenSeq exists.
LEMMA FlattenExists ==
  ASSUME NEW ss, NEW len \in Nat
  PROVE  \E f : f = [n \in 1..len |-> IF n = 1 THEN ss[n] ELSE f[n - 1] \o ss[n]]
  <1> DEFINE Upto(f, n) ==
               f = [k \in 1..n |-> IF k = 1 THEN ss[k] ELSE Cat(f[k - 1], ss[k])]
             Q == {i \in Nat : \E f : Upto(f, i)}
  <1>1. 0 \in Q
    <2>1. Upto([k \in 1..0 |-> <<>>], 0)
      OBVIOUS
    <2> HIDE DEF Upto
    <2> QED BY <2>1
  <1>2. ASSUME NEW i \in Nat, i \in Q PROVE i + 1 \in Q
    <2>1. PICK f : Upto(f, i)
      BY <1>2
    <2>2. \A k \in 1..i : f[k] = IF k = 1 THEN ss[k] ELSE Cat(f[k - 1], ss[k])
      BY <2>1
    <2> DEFINE g == [k \in 1..(i + 1) |->
                       IF k # i + 1 THEN f[k]
                       ELSE IF k = 1 THEN ss[k] ELSE Cat(f[i], ss[k])]
    <2>3. /\ \A k \in 1..i : g[k] = f[k]
          /\ g[i + 1] = IF i + 1 = 1 THEN ss[i + 1] ELSE Cat(f[i], ss[i + 1])
      OBVIOUS
    <2>4. \A k \in 1..(i + 1) : g[k] = IF k = 1 THEN ss[k] ELSE Cat(g[k - 1], ss[k])
      <3> SUFFICES ASSUME NEW k \in 1..(i + 1)
                   PROVE  g[k] = IF k = 1 THEN ss[k] ELSE Cat(g[k - 1], ss[k])
        OBVIOUS
      <3> HIDE DEF g, Upto
      <3>1. CASE k = i + 1
        <4>1. k - 1 = i /\ (k # 1 => i \in 1..i)
          BY <3>1
        <4> QED BY <2>3, <3>1, <4>1
      <3>2. CASE k # i + 1
        <4>1. k \in 1..i /\ (k # 1 => k - 1 \in 1..i)
          BY <3>2
        <4> QED BY <2>2, <2>3, <4>1
      <3> QED BY <3>1, <3>2
    <2>5. Upto(g, i + 1)
      BY <2>4
    <2> HIDE DEF g, Upto
    <2> QED BY <2>5
  <1>3. len \in Q
    <2> HIDE DEF Q
    <2> QED BY <1>1, <1>2, InductionOnSet
  <1> QED BY <1>3 DEF Cat

LEMMA FlattenIsSum ==
  ASSUME NEW S, NEW ss \in Seq(Seq(S))
  PROVE  \E f : IsSum(f, ss, Len(ss)) /\ FlattenSeq(ss) = f[Len(ss)]
  <1> DEFINE L == Len(ss)
             f == CHOOSE g : g = [n \in 1..L |-> IF n = 1 THEN ss[n] ELSE g[n - 1] \o ss[n]]
             h == [n \in 0..L |-> IF n = 0 THEN <<>> ELSE f[n]]
  <1>1. L \in Nat /\ \A n \in 1..L : ss[n] \in Seq(S)
    BY LenProperties, ElementOfSeq
  <1>2. f = [n \in 1..L |-> IF n = 1 THEN ss[n] ELSE f[n - 1] \o ss[n]]
    <2> HIDE DEF L
    <2> QED BY <1>1, FlattenExists
  <1>3. FlattenSeq(ss) = IF L = 0 THEN ss ELSE f[L]
    BY Zenon DEF FlattenSeq
  <1> HIDE DEF f, L
  <1>4. ASSUME NEW n \in 1..L PROVE f[n] = IF n = 1 THEN ss[n] ELSE Cat(f[n - 1], ss[n])
    <2>1. f[n] = IF n = 1 THEN ss[n] ELSE f[n - 1] \o ss[n]
      BY <1>2
    <2> QED BY <2>1 DEF Cat
  <1>5. ASSUME NEW n \in Nat, n < L PROVE h[n + 1] = Cat(h[n], ss[n + 1])
    <2>1. /\ n + 1 \in 1..L /\ n + 1 \in 0..L /\ n + 1 # 0 /\ (n + 1) - 1 = n
          /\ n \in 0..L /\ (n + 1 = 1 <=> n = 0)
      BY <1>1, <1>5
    <2>2. h[n + 1] = f[n + 1] /\ h[n] = IF n = 0 THEN <<>> ELSE f[n]
      BY <2>1
    <2>3. Cat(<<>>, ss[n + 1]) = ss[n + 1]
      BY <1>1, <2>1, CatEmpty
    <2> HIDE DEF h
    <2>4. f[n + 1] = IF n = 0 THEN ss[n + 1] ELSE Cat(f[n], ss[n + 1])
      BY <1>4, <2>1
    <2> QED BY <2>2, <2>3, <2>4
  <1>6. h[0] = <<>> /\ h[L] = IF L = 0 THEN <<>> ELSE f[L]
    BY <1>1
  <1>7. L = 0 => ss = <<>>
    BY EmptySeq DEF L
  <1> HIDE DEF h
  <1>8. IsSum(h, ss, L) /\ FlattenSeq(ss) = h[L]
    BY <1>3, <1>5, <1>6, <1>7 DEF IsSum
  <1> QED BY <1>8 DEF L

\* Sums agree as far as the sequences do.
LEMMA SumUnique ==
  ASSUME NEW ss, NEW tt, NEW f, NEW g, NEW n \in Nat, IsSum(f, ss, n), IsSum(g, tt, n),
         \A i \in Nat : i < n => ss[i + 1] = tt[i + 1]
  PROVE  f[n] = g[n]
  <1> DEFINE Q == {k \in Nat : k <= n => f[k] = g[k]}
  <1>1. 0 \in Q
    BY DEF IsSum
  <1>2. ASSUME NEW k \in Nat, k \in Q PROVE k + 1 \in Q
    <2> SUFFICES ASSUME k + 1 <= n PROVE f[k + 1] = g[k + 1]
      OBVIOUS
    <2>1. k < n /\ f[k] = g[k]
      BY <1>2
    <2> QED BY <2>1 DEF IsSum
  <1>3. n \in Q
    <2> HIDE DEF Q
    <2> QED BY <1>1, <1>2, InductionOnSet
  <1> QED BY <1>3

LEMMA SumType ==
  ASSUME NEW S, NEW ss \in Seq(Seq(S)), NEW f, IsSum(f, ss, Len(ss)),
         NEW n \in Nat, n <= Len(ss)
  PROVE  f[n] \in Seq(S)
  <1> DEFINE Q == {k \in Nat : k <= Len(ss) => f[k] \in Seq(S)}
  <1>1. 0 \in Q
    BY EmptySeq DEF IsSum
  <1>2. ASSUME NEW k \in Nat, k \in Q PROVE k + 1 \in Q
    <2> SUFFICES ASSUME k + 1 <= Len(ss) PROVE f[k + 1] \in Seq(S)
      OBVIOUS
    <2>1. k + 1 \in 1..Len(ss) /\ k < Len(ss) /\ f[k] \in Seq(S)
      BY <1>2, LenProperties
    <2>2. f[k + 1] = Cat(f[k], ss[k + 1])
      BY <2>1 DEF IsSum
    <2>3. ss[k + 1] \in Seq(S)
      BY <2>1, ElementOfSeq
    <2> QED BY <2>1, <2>2, <2>3, CatType
  <1>3. n \in Q
    <2> HIDE DEF Q
    <2> QED BY <1>1, <1>2, InductionOnSet
  <1> QED BY <1>3

-----------------------------------------------------------------------------
(* FlattenSeq                                                               *)

LEMMA FlattenType ==
  ASSUME NEW S, NEW ss \in Seq(Seq(S))
  PROVE  FlattenSeq(ss) \in Seq(S)
  <1>1. PICK f : IsSum(f, ss, Len(ss)) /\ FlattenSeq(ss) = f[Len(ss)]
    BY FlattenIsSum
  <1>2. Len(ss) \in Nat /\ Len(ss) <= Len(ss)
    BY LenProperties
  <1> QED BY <1>1, <1>2, SumType

LEMMA FlattenEmpty == FlattenSeq(<<>>) = <<>>
  <1>1. <<>> \in Seq(Seq({})) /\ Len(<<>>) = 0
    OBVIOUS
  <1>2. PICK f : IsSum(f, <<>>, Len(<<>>)) /\ FlattenSeq(<<>>) = f[Len(<<>>)]
    BY <1>1, FlattenIsSum
  <1> QED BY <1>1, <1>2 DEF IsSum

LEMMA FlattenAppend ==
  ASSUME NEW S, NEW ss \in Seq(Seq(S)), NEW s \in Seq(S)
  PROVE  FlattenSeq(Append(ss, s)) = Cat(FlattenSeq(ss), s)
  <1> DEFINE tt == Append(ss, s)
             n == Len(ss)
  <1>1. /\ tt \in Seq(Seq(S)) /\ Len(tt) = n + 1 /\ n \in Nat
        /\ \A i \in 1..n : tt[i] = ss[i]
        /\ tt[n + 1] = s
    BY AppendProperties, LenProperties
  <1>2. PICK f : IsSum(f, ss, n) /\ FlattenSeq(ss) = f[n]
    BY FlattenIsSum
  <1> HIDE DEF tt
  <1>3. PICK g : IsSum(g, tt, n + 1) /\ FlattenSeq(tt) = g[n + 1]
    BY <1>1, FlattenIsSum
  <1> HIDE DEF n
  <1>4. f[n] = g[n]
    <2>1. IsSum(g, tt, n)
      BY <1>1, <1>3 DEF IsSum
    <2>2. \A i \in Nat : i < n => ss[i + 1] = tt[i + 1]
      BY <1>1
    <2> QED BY <1>1, <1>2, <2>1, <2>2, SumUnique
  <1>5. g[n + 1] = Cat(g[n], tt[n + 1])
    BY <1>1, <1>3 DEF IsSum
  <1> QED BY <1>1, <1>2, <1>3, <1>4, <1>5 DEF tt

LEMMA FlattenTail ==
  ASSUME NEW S, NEW ss \in Seq(Seq(S)), ss # <<>>
  PROVE  FlattenSeq(ss) = Cat(Head(ss), FlattenSeq(Tail(ss)))
  <1> DEFINE tt == Tail(ss)
             h == Head(ss)
             n == Len(tt)
  <1>1. /\ tt \in Seq(Seq(S)) /\ Len(ss) = n + 1 /\ n \in Nat
        /\ \A i \in 1..n : tt[i] = ss[i + 1]
        /\ h = ss[1] /\ h \in Seq(S)
    BY HeadTailProperties, LenProperties, EmptySeq
  <1>2. PICK f : IsSum(f, ss, n + 1) /\ FlattenSeq(ss) = f[n + 1]
    BY <1>1, FlattenIsSum
  <1>3. PICK g : IsSum(g, tt, n) /\ FlattenSeq(tt) = g[n]
    BY <1>1, FlattenIsSum
  <1> DEFINE Q == {k \in Nat : k <= n => f[k + 1] = Cat(h, g[k])}
  <1> HIDE DEF tt, h, n
  <1>4. 0 \in Q
    <2>1. f[0] = <<>> /\ g[0] = <<>> /\ f[0 + 1] = Cat(f[0], ss[0 + 1])
      BY <1>1, <1>2, <1>3 DEF IsSum
    <2>2. Cat(<<>>, h) = h /\ Cat(h, <<>>) = h
      BY <1>1, CatEmpty
    <2> QED BY <1>1, <2>1, <2>2
  <1>5. ASSUME NEW k \in Nat, k \in Q PROVE k + 1 \in Q
    <2> SUFFICES ASSUME k + 1 <= n PROVE f[(k + 1) + 1] = Cat(h, g[k + 1])
      OBVIOUS
    <2>1. k + 1 \in 1..n /\ k < n /\ k <= n /\ k + 1 \in Nat /\ k + 1 < n + 1
      BY <1>1
    <2>2. f[(k + 1) + 1] = Cat(f[k + 1], ss[(k + 1) + 1]) /\ g[k + 1] = Cat(g[k], tt[k + 1])
      BY <1>2, <1>3, <2>1 DEF IsSum
    <2>3. ss[(k + 1) + 1] = tt[k + 1] /\ tt[k + 1] \in Seq(S)
      BY <1>1, <2>1, ElementOfSeq DEF n
    <2>4. f[k + 1] = Cat(h, g[k])
      BY <1>5, <2>1
    <2>5. g[k] \in Seq(S)
      BY <1>1, <1>3, <2>1, SumType DEF n
    <2>6. Cat(Cat(h, g[k]), tt[k + 1]) = Cat(h, Cat(g[k], tt[k + 1]))
      BY <1>1, <2>3, <2>5, CatAssoc
    <2> QED BY <2>2, <2>3, <2>4, <2>6
  <1>6. n \in Q
    <2> HIDE DEF Q
    <2> QED BY <1>1, <1>4, <1>5, InductionOnSet
  <1>7. f[n + 1] = Cat(h, g[n])
    BY <1>1, <1>6
  <1> QED BY <1>2, <1>3, <1>7 DEF tt, h

-----------------------------------------------------------------------------
(* Texts: the texts of the things in a queue                                *)

\* F gives each element of E a text.  Folded, so that it tells the provers E and S.
TextFun(F, E, S) == F \in [E -> Seq(S)]

TextsIn(F, q) == [i \in DOMAIN q |-> F[q[i]]]

LEMMA TextsAreSeqs ==
  ASSUME NEW S, NEW E, NEW F, TextFun(F, E, S), NEW q \in Seq(E)
  PROVE  /\ TextsIn(F, q) \in Seq(Seq(S))
         /\ Len(TextsIn(F, q)) = Len(q)
  <1>1. Len(q) \in Nat /\ DOMAIN q = 1..Len(q) /\ \A i \in 1..Len(q) : F[q[i]] \in Seq(S)
    BY LenProperties, ElementOfSeq DEF TextFun
  <1> DEFINE ss == [i \in DOMAIN q |-> F[q[i]]]
  <1>2. ss \in [1..Len(q) -> Seq(S)]
    BY <1>1
  <1> HIDE DEF ss
  <1>3. ss \in Seq(Seq(S))
    <2>1. Seq(Seq(S)) = UNION {[1..n -> Seq(S)] : n \in Nat}
      BY SeqDef
    <2> QED BY <1>1, <1>2, <2>1
  <1>4. DOMAIN ss = 1..Len(ss) /\ Len(ss) \in Nat
    BY <1>3, LenProperties
  <1>5. Len(ss) = Len(q)
    BY <1>1, <1>2, <1>4
  <1> QED BY <1>3, <1>5 DEF ss, TextsIn

LEMMA TextsType ==
  ASSUME NEW S, NEW E, NEW F, TextFun(F, E, S), NEW q \in Seq(E)
  PROVE  Texts(F, q) \in Seq(S)
  <1>1. TextsIn(F, q) \in Seq(Seq(S))
    BY TextsAreSeqs
  <1> QED BY <1>1, FlattenType DEF Texts, TextsIn

LEMMA TextsEmpty ==
  ASSUME NEW F
  PROVE  Texts(F, <<>>) = <<>>
  <1>1. [i \in DOMAIN <<>> |-> F[<<>>[i]]] = <<>>
    OBVIOUS
  <1> QED BY <1>1, FlattenEmpty DEF Texts

LEMMA TextsAppend ==
  ASSUME NEW S, NEW E, NEW F, TextFun(F, E, S), NEW q \in Seq(E), NEW e \in E
  PROVE  Texts(F, Append(q, e)) = Cat(Texts(F, q), F[e])
  <1> DEFINE r == Append(q, e)
             qq == TextsIn(F, q)
             rr == TextsIn(F, r)
  <1>1. qq \in Seq(Seq(S)) /\ Len(qq) = Len(q) /\ F[e] \in Seq(S)
    <2>1. qq \in Seq(Seq(S)) /\ Len(qq) = Len(q)
      BY TextsAreSeqs
    <2> QED BY <2>1 DEF TextFun
  <1>2. r \in Seq(E) /\ Len(r) = Len(q) + 1 /\ r[Len(q) + 1] = e /\ Len(q) \in Nat
        /\ \A i \in 1..Len(q) : r[i] = q[i]
    BY AppendProperties, LenProperties
  <1> HIDE DEF r
  <1>3. rr \in Seq(Seq(S)) /\ Len(rr) = Len(q) + 1
    BY <1>2, TextsAreSeqs
  <1>4. DOMAIN q = 1..Len(q) /\ DOMAIN r = 1..(Len(q) + 1)
    BY <1>2, LenProperties
  <1>5. /\ \A i \in 1..Len(q) : rr[i] = qq[i]
        /\ rr[Len(q) + 1] = F[e]
    BY <1>2, <1>4 DEF TextsIn
  <1> HIDE DEF qq, rr
  <1>6. /\ Append(qq, F[e]) \in Seq(Seq(S)) /\ Len(Append(qq, F[e])) = Len(q) + 1
        /\ \A i \in 1..Len(q) : Append(qq, F[e])[i] = qq[i]
        /\ Append(qq, F[e])[Len(q) + 1] = F[e]
    BY <1>1, AppendProperties
  <1>7. \A i \in 1..Len(rr) : rr[i] = Append(qq, F[e])[i]
    BY <1>2, <1>3, <1>5, <1>6
  <1>8. rr = Append(qq, F[e])
    BY <1>3, <1>6, <1>7, SeqEqual
  <1> QED BY <1>1, <1>8, FlattenAppend DEF Texts, TextsIn, qq, rr, r

LEMMA TextsTail ==
  ASSUME NEW S, NEW E, NEW F, TextFun(F, E, S), NEW q \in Seq(E), q # <<>>
  PROVE  Texts(F, q) = Cat(F[Head(q)], Texts(F, Tail(q)))
  <1> DEFINE r == Tail(q)
             qq == TextsIn(F, q)
             rr == TextsIn(F, r)
  <1>1. qq \in Seq(Seq(S)) /\ Len(qq) = Len(q)
    BY TextsAreSeqs
  <1>2. r \in Seq(E) /\ Len(r) = Len(q) - 1 /\ Len(q) \in Nat \ {0} /\ Head(q) = q[1]
        /\ \A i \in 1..(Len(q) - 1) : r[i] = q[i + 1]
    BY HeadTailProperties, LenProperties, EmptySeq
  <1> HIDE DEF r
  <1>3. rr \in Seq(Seq(S)) /\ Len(rr) = Len(q) - 1
    <2>1. rr \in Seq(Seq(S)) /\ Len(rr) = Len(r)
      BY <1>2, TextsAreSeqs
    <2> QED BY <1>2, <2>1
  <1>4. DOMAIN q = 1..Len(q) /\ DOMAIN r = 1..(Len(q) - 1)
    BY <1>2, LenProperties
  <1>5. /\ qq[1] = F[Head(q)]
        /\ \A i \in 1..(Len(q) - 1) : rr[i] = qq[i + 1]
    BY <1>2, <1>4 DEF TextsIn
  <1> HIDE DEF qq, rr
  <1>6. qq # <<>> /\ Head(qq) = F[Head(q)] /\ Tail(qq) \in Seq(Seq(S))
        /\ Len(Tail(qq)) = Len(q) - 1
        /\ \A i \in 1..(Len(q) - 1) : Tail(qq)[i] = qq[i + 1]
    <2>1. qq # <<>>
      BY <1>1, <1>2, EmptySeq
    <2> QED BY <1>1, <1>5, <2>1, HeadTailProperties
  <1>7. rr = Tail(qq)
    <2>1. Len(rr) = Len(Tail(qq)) /\ \A i \in 1..Len(rr) : rr[i] = Tail(qq)[i]
      BY <1>3, <1>5, <1>6
    <2> HIDE DEF qq
    <2> QED BY <1>3, <1>6, <2>1, SeqEqual
  <1> QED BY <1>1, <1>6, <1>7, FlattenTail DEF Texts, TextsIn, qq, rr, r

\* Texts looks at the texts of what is in the queue only.
LEMMA TextsSame ==
  ASSUME NEW F, NEW G, NEW q, \A i \in DOMAIN q : F[q[i]] = G[q[i]]
  PROVE  Texts(F, q) = Texts(G, q)
  <1>1. [i \in DOMAIN q |-> F[q[i]]] = [i \in DOMAIN q |-> G[q[i]]]
    OBVIOUS
  <1> QED BY <1>1 DEF Texts

-----------------------------------------------------------------------------
(* What is on its way to a target, part by part                             *)

\* The texts, and the laws of Cat on them.
Text == Seq(Msgs)

LEMMA TextCat ==
  /\ <<>> \in Text
  /\ \A x, y \in Text : Cat(x, y) \in Text
  /\ \A x \in Text : Cat(x, <<>>) = x /\ Cat(<<>>, x) = x
  /\ \A x, y, z \in Text : Cat(Cat(x, y), z) = Cat(x, Cat(y, z))
  <1>1. <<>> \in Text
    BY EmptySeq DEF Text
  <1>2. ASSUME NEW x \in Text, NEW y \in Text PROVE Cat(x, y) \in Text
    BY CatType DEF Text
  <1>3. ASSUME NEW x \in Text PROVE Cat(x, <<>>) = x /\ Cat(<<>>, x) = x
    BY CatEmpty DEF Text
  <1>4. ASSUME NEW x \in Text, NEW y \in Text, NEW z \in Text
        PROVE  Cat(Cat(x, y), z) = Cat(x, Cat(y, z))
    BY CatAssoc DEF Text
  <1> QED BY <1>1, <1>2, <1>3, <1>4

\* Folded, so that one fact tells the provers what the laws below are about.
AreTexts(a, f, h, w, c, b, q) ==
  /\ a \in Text /\ f \in Text /\ h \in Text /\ w \in Text /\ c \in Text /\ b \in Text
  /\ q \in Text

Way(a, f, h, w, c, b, q) == Cat(a, Cat(f, Cat(h, Cat(w, Cat(c, Cat(b, q))))))

LEMMA WayNests ==
  ASSUME NEW a, NEW f, NEW h, NEW w, NEW c, NEW b, NEW q, AreTexts(a, f, h, w, c, b, q)
  PROVE  /\ Cat(Cat(Cat(Cat(Cat(Cat(a, f), h), w), c), b), q) = Way(a, f, h, w, c, b, q)
         /\ Way(a, f, h, w, c, b, q) \in Text
  <1> a \in Text /\ f \in Text /\ h \in Text /\ w \in Text /\ c \in Text /\ b \in Text /\ q \in Text
    BY DEF AreTexts
  <1> DEFINE x == Cat(a, f)  y == Cat(x, h)  z == Cat(y, w)  v == Cat(z, c)
  <1>1. x \in Text /\ y \in Text /\ z \in Text /\ v \in Text
    BY TextCat
  <1>2. Cat(v, Cat(b, q)) = Cat(Cat(v, b), q)
    BY <1>1, TextCat
  <1>3. Cat(z, Cat(c, Cat(b, q))) = Cat(v, Cat(b, q))
    BY <1>1, TextCat
  <1>4. Cat(y, Cat(w, Cat(c, Cat(b, q)))) = Cat(z, Cat(c, Cat(b, q)))
    BY <1>1, TextCat
  <1>5. Cat(x, Cat(h, Cat(w, Cat(c, Cat(b, q))))) = Cat(y, Cat(w, Cat(c, Cat(b, q))))
    BY <1>1, TextCat
  <1>6. Way(a, f, h, w, c, b, q) = Cat(x, Cat(h, Cat(w, Cat(c, Cat(b, q)))))
    BY <1>1, TextCat DEF Way
  <1>7. Way(a, f, h, w, c, b, q) \in Text
    BY TextCat DEF Way
  <1> QED BY <1>2, <1>3, <1>4, <1>5, <1>6, <1>7

PartsTyped(t) == AreTexts(AtV8(t), Flying(t), InHand(t), Waiting(t), data[t][cur[t]],
                          BeingWritten(t), InQueue(t))
WayTo(t) == Way(AtV8(t), Flying(t), InHand(t), Waiting(t), data[t][cur[t]], BeingWritten(t),
                InQueue(t))

\* A bank or an overflow message has a text.
LEMMA ContentType ==
  ASSUME TypeOK, NEW t \in Targets, NEW r, r \in WriteReq \/ r \in Callback
  PROVE  Content(t, r) \in Text
  <1>1. data[t] \in [Banks -> Text]
    BY DEF TypeOK, BankTypes, Text
  <1>2. r.b \in Banks \/ (r.b = None /\ r.m \in Msgs)
    BY DEF WriteReq, Callback
  <1>3. None \notin Banks
    BY PipelineAssumption
  <1> QED BY <1>1, <1>2, <1>3 DEF Content, Text

LEMMA TextFuns ==
  ASSUME TypeOK, NEW t \in Targets
  PROVE  /\ TextFun(CallbackText(t), Callback, Msgs)
         /\ TextFun(WriteText(t), WriteReq, Msgs)
         /\ TextFun(data[t], Banks, Msgs)
         /\ TextFun(CommandText(t), Cmd, Msgs)
  <1>1. CallbackText(t) \in [Callback -> Text]
    BY ContentType, TextCat DEF CallbackText
  <1>2. WriteText(t) \in [WriteReq -> Text]
    BY ContentType DEF WriteText
  <1>3. data[t] \in [Banks -> Text]
    BY DEF TypeOK, BankTypes, Text
  <1>4. CommandText(t) \in [Cmd -> Text]
    <2>1. \A c \in Cmd : c.m # None => <<c.m>> \in Text
      BY DEF Cmd, Text
    <2> QED BY <2>1, TextCat DEF CommandText
  <1> QED BY <1>1, <1>2, <1>3, <1>4 DEF TextFun, Text

LEMMA PartTypes ==
  ASSUME TypeOK, NEW t \in Targets
  PROVE  PartsTyped(t)
  <1>1. /\ TextFun(CallbackText(t), Callback, Msgs) /\ TextFun(WriteText(t), WriteReq, Msgs)
        /\ TextFun(data[t], Banks, Msgs) /\ TextFun(CommandText(t), Cmd, Msgs)
    BY TextFuns
  <1>2. AtV8(t) \in Text
    <2>1. vcb \in Callback \cup {None} /\ cbq \in Seq(Callback)
      BY DEF TypeOK, IOTypes
    <2>2. (IF vcb = None THEN <<>> ELSE CallbackText(t)[vcb]) \in Text
      BY <1>1, <2>1, TextCat DEF TextFun, Text
    <2>3. Texts(CallbackText(t), cbq) \in Text
      BY <1>1, <2>1, TextsType DEF Text
    <2>4. Cat(IF vcb = None THEN <<>> ELSE CallbackText(t)[vcb], Texts(CallbackText(t), cbq))
            \in Text
      BY <2>2, <2>3, TextCat
    <2>5. AtV8(t) = IF Kind[t] # "callback" THEN <<>>
                    ELSE Cat(IF vcb = None THEN <<>> ELSE CallbackText(t)[vcb],
                             Texts(CallbackText(t), cbq))
      BY DEF AtV8, Cat
    <2> QED BY <2>4, <2>5, TextCat
  <1>3. Flying(t) \in Text
    <2>1. fly[t] \in Seq(WriteReq)
      BY DEF TypeOK, IOTypes
    <2> QED BY <1>1, <2>1, TextsType DEF Flying, Text
  <1>4. InHand(t) \in Text /\ data[t][cur[t]] \in Text
    <2>1. cur[t] \in Banks /\ fb["grease"] \in Banks \cup {None}
      BY DEF TypeOK, BankTypes, FlushTypes, Threads
    <2> QED BY <1>1, <2>1, TextCat DEF InHand, TextFun, Text
  <1>5. Waiting(t) \in Text
    <2>1. wout[t] \in Seq(Banks)
      BY DEF TypeOK, BankTypes
    <2> QED BY <1>1, <2>1, TextsType DEF Waiting, Text
  <1>6. BeingWritten(t) \in Text
    BY TextCat DEF BeingWritten, TypeOK, GreaseTypes, Text
  <1>7. InQueue(t) \in Text
    <2>1. cmdq \in Seq(Cmd)
      BY DEF TypeOK, QueueTypes
    <2> QED BY <1>1, <2>1, TextsType DEF InQueue, Text
  <1> QED BY <1>2, <1>3, <1>4, <1>5, <1>6, <1>7 DEF PartsTyped, AreTexts

WaysAre == \A t \in Targets : OnTheWay[t] = WayTo(t) /\ WayTo(t) \in Text

LEMMA TypedWays == TypeOK => WaysAre
  <1> SUFFICES ASSUME TypeOK, NEW t \in Targets
               PROVE  OnTheWay[t] = WayTo(t) /\ WayTo(t) \in Text
    BY DEF WaysAre
  <1>1. PartsTyped(t)
    BY PartTypes
  <1>2. OnTheWay[t] = Cat(Cat(Cat(Cat(Cat(Cat(AtV8(t), Flying(t)), InHand(t)), Waiting(t)),
                                  data[t][cur[t]]), BeingWritten(t)), InQueue(t))
    BY DEF OnTheWay, Cat
  <1>3. /\ Cat(Cat(Cat(Cat(Cat(Cat(AtV8(t), Flying(t)), InHand(t)), Waiting(t)),
                       data[t][cur[t]]), BeingWritten(t)), InQueue(t)) = WayTo(t)
        /\ WayTo(t) \in Text
    BY <1>1, WayNests DEF PartsTyped, WayTo
  <1> QED BY <1>2, <1>3

LEMMA TypedWaysNext == TypeOK' => WaysAre'
  BY TypedWays, PTL

-----------------------------------------------------------------------------
(* Parts that a step leaves alone                                           *)

\* The banks of t in places of kind k keep their texts.
Kept(k, t) == \A b \in Banks : In(k, t, b) => data'[t][b] = data[t][b]

LEMMA CallbackTextKept ==
  ASSUME TypeOK, NEW t \in Targets, NEW c \in Callback,
         c.t = t /\ c.b \in Banks => data'[t][c.b] = data[t][c.b]
  PROVE  CallbackText(t)'[c] = CallbackText(t)[c]
  <1>1. Content(t, c)' = IF c.b = None THEN <<c.m>> ELSE data'[t][c.b]
    BY DEF Content
  <1>2. Content(t, c) = IF c.b = None THEN <<c.m>> ELSE data[t][c.b]
    BY DEF Content
  <1>3. c.b = None \/ c.b \in Banks
    BY DEF Callback
  <1>4. c.t = t => Content(t, c)' = Content(t, c)
    BY <1>1, <1>2, <1>3
  <1>5. CallbackText(t)[c] = IF c.t = t THEN Content(t, c) ELSE <<>>
    BY DEF CallbackText
  <1>6. CallbackText(t)'[c] = IF c.t = t THEN Content(t, c)' ELSE <<>>
    BY DEF CallbackText
  <1> QED BY <1>4, <1>5, <1>6

LEMMA CallbackTextsKept ==
  ASSUME TypeOK, NEW t \in Targets, Kept("waiting", t)
  PROVE  Texts(CallbackText(t)', cbq) = Texts(CallbackText(t), cbq)
  <1>1. cbq \in Seq(Callback)
    BY DEF TypeOK, IOTypes
  <1>2. ASSUME NEW i \in DOMAIN cbq PROVE CallbackText(t)'[cbq[i]] = CallbackText(t)[cbq[i]]
    <2>1. cbq[i] \in Callback
      BY <1>1, LenProperties, ElementOfSeq
    <2>2. cbq[i].t = t /\ cbq[i].b \in Banks => In("waiting", t, cbq[i].b)
      BY <2>1 DEF In, Holds, CallOf
    <2> QED BY <2>1, <2>2, CallbackTextKept DEF Kept
  <1> QED BY <1>2, TextsSame

LEMMA AtV8Kept ==
  ASSUME TypeOK, NEW t \in Targets, UNCHANGED <<cbq, vcb>>, Kept("waiting", t), Kept("inside", t)
  PROVE  AtV8(t)' = AtV8(t)
  <1>1. vcb \in Callback \cup {None}
    BY DEF TypeOK, IOTypes
  <1>3. Texts(CallbackText(t)', cbq) = Texts(CallbackText(t), cbq)
    BY CallbackTextsKept
  <1>4. vcb # None => CallbackText(t)'[vcb] = CallbackText(t)[vcb]
    <2>1. vcb # None /\ vcb.t = t /\ vcb.b \in Banks => In("inside", t, vcb.b)
      BY <1>1 DEF In, CallOf
    <2> QED BY <1>1, <2>1, CallbackTextKept DEF Kept
  <1> QED BY <1>3, <1>4 DEF AtV8

LEMMA FlyingKept ==
  ASSUME TypeOK, NEW t \in Targets, fly'[t] = fly[t], Kept("flying", t)
  PROVE  Flying(t)' = Flying(t)
  <1>1. ASSUME NEW i \in DOMAIN fly[t] PROVE WriteText(t)'[fly[t][i]] = WriteText(t)[fly[t][i]]
    <2>1. fly[t][i] \in WriteReq
      BY LenProperties, ElementOfSeq DEF TypeOK, IOTypes
    <2>2. fly[t][i].b \in Banks => In("flying", t, fly[t][i].b)
      BY <2>1 DEF In, Holds, WriteOf
    <2>3. fly[t][i].b = None \/ fly[t][i].b \in Banks
      BY <2>1 DEF WriteReq
    <2>4. /\ WriteText(t)[fly[t][i]] = Content(t, fly[t][i])
          /\ WriteText(t)'[fly[t][i]] = Content(t, fly[t][i])'
      <3>1. \A r \in WriteReq : WriteText(t)[r] = Content(t, r) /\ WriteText(t)'[r] = Content(t, r)'
        BY DEF WriteText
      <3>2. \A r : Content(t, r)' = IF r.b = None THEN <<r.m>> ELSE data'[t][r.b]
        BY DEF Content
      <3>3. Content(t, fly[t][i])' = IF fly'[t][i].b = None THEN <<fly'[t][i].m>>
                                     ELSE data'[t][fly'[t][i].b]
        BY DEF Content
      <3> QED BY <2>1, <3>1, <3>2, <3>3
    <2>5. Content(t, fly[t][i])' = IF fly[t][i].b = None THEN <<fly[t][i].m>>
                                   ELSE data'[t][fly[t][i].b]
      BY DEF Content
    <2> QED BY <2>2, <2>3, <2>4, <2>5 DEF Kept, Content
  <1> QED BY <1>1, TextsSame DEF Flying

LEMMA InHandKept ==
  ASSUME TypeOK, NEW t \in Targets, ft'["grease"] = ft["grease"], fb'["grease"] = fb["grease"],
         Kept("flushing", t)
  PROVE  InHand(t)' = InHand(t)
  <1>1. fb["grease"] \in Banks \cup {None} /\ "grease" \in Threads
    BY DEF TypeOK, FlushTypes, Threads
  <1>2. ft["grease"] = t /\ fb["grease"] # None => In("flushing", t, fb["grease"])
    BY <1>1 DEF In
  <1> QED BY <1>1, <1>2 DEF InHand, Kept

LEMMA WaitingKept ==
  ASSUME TypeOK, NEW t \in Targets, wout'[t] = wout[t], Kept("queued", t)
  PROVE  Waiting(t)' = Waiting(t)
  <1>1. ASSUME NEW i \in DOMAIN wout[t] PROVE data'[t][wout[t][i]] = data[t][wout[t][i]]
    <2>1. wout[t][i] \in Banks
      BY LenProperties, ElementOfSeq DEF TypeOK, BankTypes
    <2>2. In("queued", t, wout[t][i])
      BY DEF In, Holds
    <2> QED BY <2>1, <2>2 DEF Kept
  <1> QED BY <1>1, TextsSame DEF Waiting

LEMMA OthersKept ==
  ASSUME TypeOK, NEW t \in Targets
  PROVE  /\ cur'[t] = cur[t] /\ Kept("current", t) => data'[t][cur'[t]] = data[t][cur[t]]
         /\ UNCHANGED <<gmsg, groute>> => BeingWritten(t)' = BeingWritten(t)
         /\ UNCHANGED cmdq => InQueue(t)' = InQueue(t)
  <1>1. cur[t] \in Banks /\ In("current", t, cur[t])
    BY DEF TypeOK, BankTypes, In
  <1>2. UNCHANGED <<gmsg, groute>> => BeingWritten(t)' = BeingWritten(t)
    BY DEF BeingWritten, Range
  <1>3. UNCHANGED cmdq => InQueue(t)' = InQueue(t)
    BY DEF InQueue, CommandText
  <1> QED BY <1>1, <1>2, <1>3 DEF Kept

-----------------------------------------------------------------------------
(* How texts move along the way                                             *)

\* From the command queue to the bank being written, to the bank, to writeOutBuffers,
\* to the flushing thread, and on to libuv or to the JS callback.
LEMMA WayMoves ==
  ASSUME NEW a, NEW f, NEW h, NEW w, NEW c, NEW b, NEW q, AreTexts(a, f, h, w, c, b, q), NEW x \in Text
  PROVE  /\ Way(a, f, h, w, c, <<>>, Cat(x, q)) = Way(a, f, h, w, c, x, q)
         /\ Way(a, f, h, w, c, x, q) = Way(a, f, h, w, Cat(c, x), <<>>, q)
         /\ Way(a, f, h, w, c, b, q) = Way(a, f, h, Cat(w, c), <<>>, b, q)
         /\ Way(a, f, <<>>, Cat(x, w), c, b, q) = Way(a, f, x, w, c, b, q)
         /\ Way(a, f, h, w, c, b, q) = Way(a, Cat(f, h), <<>>, w, c, b, q)
         /\ Way(a, <<>>, h, w, c, b, q) = Way(Cat(a, h), <<>>, <<>>, w, c, b, q)
  <1> a \in Text /\ f \in Text /\ h \in Text /\ w \in Text /\ c \in Text /\ b \in Text /\ q \in Text
    BY DEF AreTexts
  <1> DEFINE r1 == Cat(b, q)  r2 == Cat(c, r1)  r == Cat(w, r2)
  <1>1. r1 \in Text /\ r2 \in Text /\ r \in Text /\ <<>> \in Text
    BY TextCat
  <1>2. Way(a, f, h, w, c, <<>>, Cat(x, q)) = Way(a, f, h, w, c, x, q)
    <2>1. Cat(<<>>, Cat(x, q)) = Cat(x, q)
      BY TextCat
    <2> QED BY <2>1 DEF Way
  <1>3. Way(a, f, h, w, c, x, q) = Way(a, f, h, w, Cat(c, x), <<>>, q)
    <2>1. Cat(<<>>, q) = q /\ Cat(Cat(c, x), q) = Cat(c, Cat(x, q))
      BY TextCat
    <2> QED BY <2>1 DEF Way
  <1>4. Way(a, f, h, w, c, b, q) = Way(a, f, h, Cat(w, c), <<>>, b, q)
    <2>1. Cat(<<>>, r1) = r1 /\ Cat(Cat(w, c), r1) = Cat(w, Cat(c, r1))
      BY <1>1, TextCat
    <2> QED BY <2>1 DEF Way
  <1>5. Way(a, f, <<>>, Cat(x, w), c, b, q) = Way(a, f, x, w, c, b, q)
    <2>1. Cat(<<>>, Cat(Cat(x, w), r2)) = Cat(x, Cat(w, r2))
      BY <1>1, TextCat
    <2> QED BY <2>1 DEF Way
  <1>6. Way(a, f, h, w, c, b, q) = Way(a, Cat(f, h), <<>>, w, c, b, q)
    <2>1. Cat(<<>>, r) = r /\ Cat(Cat(f, h), r) = Cat(f, Cat(h, r))
      BY <1>1, TextCat
    <2> QED BY <2>1 DEF Way
  <1>7. Way(a, <<>>, h, w, c, b, q) = Way(Cat(a, h), <<>>, <<>>, w, c, b, q)
    <2>1. Cat(<<>>, r) = r /\ Cat(<<>>, Cat(h, r)) = Cat(h, r) /\ Cat(Cat(a, h), r) = Cat(a, Cat(h, r))
      BY <1>1, TextCat
    <2> QED BY <2>1 DEF Way
  <1> QED BY <1>2, <1>3, <1>4, <1>5, <1>6, <1>7

\* What joins at the end, what leaves at the front, and an overflow message, which passes by
\* banks that are all empty.
LEMMA WayEnds ==
  ASSUME NEW a, NEW f, NEW h, NEW w, NEW c, NEW b, NEW q, AreTexts(a, f, h, w, c, b, q), NEW x \in Text
  PROVE  /\ Way(a, f, h, w, c, b, Cat(q, x)) = Cat(Way(a, f, h, w, c, b, q), x)
         /\ Way(Cat(x, a), f, h, w, c, b, q) = Cat(x, Way(a, f, h, w, c, b, q))
         /\ Way(<<>>, Cat(x, f), h, w, c, b, q) = Cat(x, Way(<<>>, f, h, w, c, b, q))
         /\ Way(a, f, <<>>, <<>>, <<>>, x, q) = Way(a, Cat(f, x), <<>>, <<>>, <<>>, <<>>, q)
         /\ Way(a, <<>>, <<>>, <<>>, <<>>, x, q) = Way(Cat(a, x), <<>>, <<>>, <<>>, <<>>, <<>>, q)
  <1> a \in Text /\ f \in Text /\ h \in Text /\ w \in Text /\ c \in Text /\ b \in Text /\ q \in Text
    BY DEF AreTexts
  <1> DEFINE r1 == Cat(b, q)  r2 == Cat(c, r1)  r3 == Cat(w, r2)  r4 == Cat(h, r3)  r5 == Cat(f, r4)
  <1>1. /\ r1 \in Text /\ r2 \in Text /\ r3 \in Text /\ r4 \in Text /\ r5 \in Text /\ <<>> \in Text
        /\ Cat(x, q) \in Text
    BY TextCat
  <1>2. Way(a, f, h, w, c, b, Cat(q, x)) = Cat(Way(a, f, h, w, c, b, q), x)
    <2>1. Cat(b, Cat(q, x)) = Cat(r1, x)
      BY TextCat
    <2>2. Cat(c, Cat(r1, x)) = Cat(r2, x) /\ Cat(w, Cat(r2, x)) = Cat(r3, x)
      BY <1>1, TextCat
    <2>3. Cat(h, Cat(r3, x)) = Cat(r4, x) /\ Cat(f, Cat(r4, x)) = Cat(r5, x)
      BY <1>1, TextCat
    <2>4. Cat(a, Cat(r5, x)) = Cat(Cat(a, r5), x)
      BY <1>1, TextCat
    <2> QED BY <2>1, <2>2, <2>3, <2>4 DEF Way
  <1>3. Way(Cat(x, a), f, h, w, c, b, q) = Cat(x, Way(a, f, h, w, c, b, q))
    <2>1. Cat(Cat(x, a), r5) = Cat(x, Cat(a, r5))
      BY <1>1, TextCat
    <2> QED BY <2>1 DEF Way
  <1>4. Way(<<>>, Cat(x, f), h, w, c, b, q) = Cat(x, Way(<<>>, f, h, w, c, b, q))
    <2>1. Cat(Cat(x, f), r4) = Cat(x, Cat(f, r4))
      BY <1>1, TextCat
    <2>2. Cat(<<>>, Cat(x, r5)) = Cat(x, r5) /\ Cat(<<>>, r5) = r5
      BY <1>1, TextCat
    <2> QED BY <2>1, <2>2 DEF Way
  <1>5. Cat(<<>>, Cat(x, q)) = Cat(x, q) /\ Cat(<<>>, q) = q
    BY <1>1, TextCat
  <1>6. Way(a, f, <<>>, <<>>, <<>>, x, q) = Way(a, Cat(f, x), <<>>, <<>>, <<>>, <<>>, q)
    <2>1. Cat(Cat(f, x), q) = Cat(f, Cat(x, q))
      BY <1>1, TextCat
    <2> QED BY <1>5, <2>1 DEF Way
  <1>7. Way(a, <<>>, <<>>, <<>>, <<>>, x, q) = Way(Cat(a, x), <<>>, <<>>, <<>>, <<>>, <<>>, q)
    <2>1. Cat(Cat(a, x), q) = Cat(a, Cat(x, q))
      BY <1>1, TextCat
    <2> QED BY <1>5, <2>1 DEF Way
  <1> QED BY <1>2, <1>3, <1>4, <1>6, <1>7

\* q is p without a run of its messages.
Shorter(p, q) == \E x, y, z \in Text : p = Cat(x, Cat(y, z)) /\ q = Cat(x, z)

LEMMA ShorterLaws ==
  ASSUME NEW y \in Text, NEW z \in Text
  PROVE  /\ Shorter(Cat(y, z), z)
         /\ \A p, q, u : u \in Text /\ Shorter(p, q) => Shorter(Cat(u, p), Cat(u, q))
  <1>1. Shorter(Cat(y, z), z)
    <2>1. Cat(y, z) = Cat(<<>>, Cat(y, z)) /\ z = Cat(<<>>, z) /\ <<>> \in Text
      BY TextCat
    <2> QED BY <2>1 DEF Shorter
  <1>2. ASSUME NEW p, NEW q, NEW u, u \in Text, Shorter(p, q) PROVE Shorter(Cat(u, p), Cat(u, q))
    <2>1. PICK x1 \in Text, y1 \in Text, z1 \in Text : p = Cat(x1, Cat(y1, z1)) /\ q = Cat(x1, z1)
      BY <1>2 DEF Shorter
    <2>2. /\ Cat(u, p) = Cat(Cat(u, x1), Cat(y1, z1)) /\ Cat(u, q) = Cat(Cat(u, x1), z1)
          /\ Cat(u, x1) \in Text
      BY <1>2, <2>1, TextCat
    <2> QED BY <2>2 DEF Shorter
  <1> QED BY <1>1, <1>2

\* A bank in the thread's hand is lost, the current bank, the message being written, or the
\* current bank and the message.
LEMMA WayShorter ==
  ASSUME NEW a, NEW f, NEW h, NEW w, NEW c, NEW b, NEW q, AreTexts(a, f, h, w, c, b, q)
  PROVE  /\ Shorter(Way(a, f, h, w, c, b, q), Way(a, f, <<>>, w, c, b, q))
         /\ Shorter(Way(a, f, h, w, c, b, q), Way(a, f, h, w, <<>>, b, q))
         /\ Shorter(Way(a, f, h, w, c, b, q), Way(a, f, h, w, c, <<>>, q))
         /\ Shorter(Way(a, f, h, w, c, b, q), Way(a, f, h, w, <<>>, <<>>, q))
  <1> a \in Text /\ f \in Text /\ h \in Text /\ w \in Text /\ c \in Text /\ b \in Text /\ q \in Text
    BY DEF AreTexts
  <1> DEFINE r1 == Cat(b, q)  r2 == Cat(c, r1)  r3 == Cat(w, r2)
  <1>1. r1 \in Text /\ r2 \in Text /\ r3 \in Text /\ <<>> \in Text
    BY TextCat
  <1>2. Cat(<<>>, q) = q /\ Cat(<<>>, r1) = r1 /\ Cat(<<>>, r3) = r3
    BY <1>1, TextCat
  <1>3. \A u, v : Shorter(u, v) => Shorter(Cat(a, Cat(f, u)), Cat(a, Cat(f, v)))
    BY <1>1, ShorterLaws
  <1>4. \A u, v : Shorter(u, v) => Shorter(Cat(h, Cat(w, u)), Cat(h, Cat(w, v)))
    BY <1>1, ShorterLaws
  <1>5. Shorter(Way(a, f, h, w, c, b, q), Way(a, f, <<>>, w, c, b, q))
    <2>1. Shorter(Cat(h, r3), r3)
      BY <1>1, ShorterLaws
    <2> QED BY <1>2, <1>3, <2>1 DEF Way
  <1>6. Shorter(r2, r1)
    BY <1>1, ShorterLaws
  <1>7. Shorter(r1, q) /\ Shorter(Cat(c, r1), Cat(c, q))
    BY <1>1, ShorterLaws
  <1>8. Shorter(r2, q)
    <2>1. Cat(c, b) \in Text /\ Cat(Cat(c, b), q) = r2
      BY TextCat
    <2>2. Shorter(Cat(Cat(c, b), q), q)
      BY <2>1, ShorterLaws
    <2> QED BY <2>1, <2>2
  <1>9. Shorter(Way(a, f, h, w, c, b, q), Way(a, f, h, w, <<>>, b, q))
    BY <1>2, <1>3, <1>4, <1>6 DEF Way
  <1>10. Shorter(Way(a, f, h, w, c, b, q), Way(a, f, h, w, c, <<>>, q))
    BY <1>2, <1>3, <1>4, <1>7 DEF Way
  <1>11. Shorter(Way(a, f, h, w, c, b, q), Way(a, f, h, w, <<>>, <<>>, q))
    BY <1>2, <1>3, <1>4, <1>8 DEF Way
  <1> QED BY <1>5, <1>9, <1>10, <1>11

-----------------------------------------------------------------------------
(* The invariant of the deliveries                                          *)

\* Between two commands the grease thread has no message; inside one it has targets to go,
\* each once.
IdleHasNoMessage == gpc \in {"idle", "drain"} => gmsg = None
RouteOnce == \A i, j \in DOMAIN groute : groute[i] = groute[j] => i = j

\* Text and length of a bank go together, and a free bank is blank.
EmptyIsBlank == \A t \in Targets, b \in Banks : used[t][b] = 0 => data[t][b] = <<>>
FreeIsBlank == \A t \in Targets : \A b \in avail[t] : data[t][b] = <<>>

\* Nothing of a callback target goes through libuv.
CallbackDirect == \A t \in Targets : Kind[t] = "callback" => fly[t] = <<>> /\ fin[t] = <<>>

\* Before an overflow message is written, what was written to its target before is submitted.
FlushedFirst == gpc = "owrite" =>
  /\ groute # <<>>
  /\ fpc["grease"] = "rotate" => fset["grease"] = {T}
  /\ fpc["grease"] \in {"take", "submit"} =>
       ft["grease"] = T /\ fset["grease"] = {} /\ data[T][cur[T]] = <<>>
  /\ fpc["grease"] = "none" => data[T][cur[T]] = <<>> /\ wout[T] = <<>>

\* What is not written as an overflow message fits a master buffer.
SmallMessages ==
  /\ \A p \in Producers : pbuf[p] # None => pmsg[p] # None /\ Size[pmsg[p]] <= BufferSize
  /\ \A i \in DOMAIN cmdq : cmdq[i].c = "NEW_LOG" => Size[cmdq[i].m] <= BufferSize
  /\ gpc \in WritePcs => Size[gmsg] <= BufferSize

\* A message in a producer's hands is in no other's and is not to be logged again.
MessageOnce ==
  /\ \A p \in Producers : pmsg[p] # None => ppc[p] = "enqueue" /\ pmsg[p] \notin unlogged
  /\ \A p, q \in Producers : pmsg[p] # None /\ pmsg[p] = pmsg[q] => p = q

DeliveryInv == /\ OneFlusher /\ IdleHasNoMessage /\ RouteOnce /\ EmptyIsBlank /\ FreeIsBlank
               /\ CallbackDirect /\ FlushedFirst /\ SmallMessages /\ MessageOnce

-----------------------------------------------------------------------------
(* What a step does to the banks' texts                                     *)

\* The text of bank b0 changes, and no other.
OnlyAt(t0, b0) == \A t \in Targets, b \in Banks : ~(t = t0 /\ b = b0) => data'[t][b] = data[t][b]

LEMMA KeptElsewhere ==
  ASSUME BankInv, NEW t0 \in Targets, NEW b0 \in Banks, NEW k0 \in Kinds, In(k0, t0, b0),
         OnlyAt(t0, b0)
  PROVE  \A t \in Targets, k \in Kinds : t # t0 \/ k # k0 => Kept(k, t)
  <1> SUFFICES ASSUME NEW t \in Targets, NEW k \in Kinds, t # t0 \/ k # k0,
                      NEW b \in Banks, In(k, t, b)
               PROVE  data'[t][b] = data[t][b]
    BY DEF Kept
  <1>1. ~(t = t0 /\ b = b0)
    BY DEF BankInv, OneKind
  <1> QED BY <1>1 DEF OnlyAt

LEMMA ClearedOnlyAt ==
  ASSUME TypeOK, NEW t0 \in Targets, NEW b0 \in Banks, Cleared(t0, b0)
  PROVE  OnlyAt(t0, b0) /\ data'[t0][b0] = <<>> /\ used'[t0][b0] = 0
         /\ \A t \in Targets, b \in Banks : ~(t = t0 /\ b = b0) => used'[t][b] = used[t][b]
  <1>1. data \in [Targets -> [Banks -> Seq(Msgs)]] /\ used \in [Targets -> [Banks -> Nat]]
    BY DEF TypeOK, BankTypes
  <1>2. data' = [data EXCEPT ![t0][b0] = <<>>] /\ used' = [used EXCEPT ![t0][b0] = 0]
    BY DEF Cleared
  <1> QED BY <1>1, <1>2 DEF OnlyAt

LEMMA CopyInOnlyAt ==
  ASSUME TypeOK, NEW t0 \in Targets, NEW m \in Msgs, CopyIn(t0, m)
  PROVE  /\ OnlyAt(t0, cur[t0]) /\ data'[t0][cur[t0]] = Cat(data[t0][cur[t0]], <<m>>)
         /\ used'[t0][cur[t0]] > 0
         /\ \A t \in Targets, b \in Banks : ~(t = t0 /\ b = cur[t0]) => used'[t][b] = used[t][b]
  <1>1. /\ data \in [Targets -> [Banks -> Seq(Msgs)]] /\ used \in [Targets -> [Banks -> Nat]]
        /\ cur[t0] \in Banks
    BY DEF TypeOK, BankTypes
  <1>2. /\ data' = [data EXCEPT ![t0][cur[t0]] = Append(@, m)]
        /\ used' = [used EXCEPT ![t0][cur[t0]] = @ + Size[m] + Header + Delim]
    BY DEF CopyIn
  <1>3. OnlyAt(t0, cur[t0]) /\ data'[t0][cur[t0]] = Append(data[t0][cur[t0]], m)
    BY <1>1, <1>2 DEF OnlyAt
  <1>4. data[t0][cur[t0]] \in Seq(Msgs)
    BY <1>1
  <1>5. Append(data[t0][cur[t0]], m) = data[t0][cur[t0]] \o <<m>>
    BY <1>4, AppendIsConcat
  <1>6. used'[t0][cur[t0]] = used[t0][cur[t0]] + Size[m] + Header + Delim
    BY <1>1, <1>2
  <1>7. Size[m] \in Nat \ {0} /\ Header \in Nat /\ Delim \in Nat /\ used[t0][cur[t0]] \in Nat
    BY <1>1, PipelineAssumption
  <1>8. used'[t0][cur[t0]] > 0
    BY <1>6, <1>7
  <1>9. \A t \in Targets, b \in Banks : ~(t = t0 /\ b = cur[t0]) => used'[t][b] = used[t][b]
    BY <1>1, <1>2
  <1> QED BY <1>3, <1>5, <1>8, <1>9 DEF Cat

-----------------------------------------------------------------------------
(* The invariant is kept: producers and command queue                       *)

SmallIn(q) == \A i \in DOMAIN q : q[i].c = "NEW_LOG" => Size[q[i].m] <= BufferSize

LEMMA SmallInQueue ==
  ASSUME NEW q \in Seq(Cmd), SmallIn(q)
  PROVE  /\ \A c \in Cmd : (c.c = "NEW_LOG" => Size[c.m] <= BufferSize) => SmallIn(Append(q, c))
         /\ q # <<>> => SmallIn(Tail(q)) /\ (Head(q).c = "NEW_LOG" => Size[Head(q).m] <= BufferSize)
  <1>1. Len(q) \in Nat /\ DOMAIN q = 1..Len(q)
    BY LenProperties
  <1>2. ASSUME NEW c \in Cmd, c.c = "NEW_LOG" => Size[c.m] <= BufferSize
        PROVE  SmallIn(Append(q, c))
    <2> DEFINE r == Append(q, c)
    <2>1. /\ r \in Seq(Cmd) /\ Len(r) = Len(q) + 1 /\ r[Len(q) + 1] = c
          /\ \A i \in 1..Len(q) : r[i] = q[i]
      BY AppendProperties
    <2> HIDE DEF r
    <2>2. DOMAIN r = 1..(Len(q) + 1)
      BY <2>1, LenProperties
    <2>3. \A i \in DOMAIN r : i \in DOMAIN q \/ i = Len(q) + 1
      BY <1>1, <2>2
    <2>4. SmallIn(r)
      BY <1>1, <1>2, <2>1, <2>3 DEF SmallIn
    <2> QED BY <2>4 DEF r
  <1>3. ASSUME q # <<>>
        PROVE  SmallIn(Tail(q)) /\ (Head(q).c = "NEW_LOG" => Size[Head(q).m] <= BufferSize)
    <2> DEFINE r == Tail(q)
    <2>1. /\ r \in Seq(Cmd) /\ Len(r) = Len(q) - 1 /\ Head(q) = q[1] /\ Len(q) # 0
          /\ \A i \in 1..Len(r) : r[i] = q[i + 1]
      BY <1>3, HeadTailProperties, EmptySeq
    <2> HIDE DEF r
    <2>2. DOMAIN r = 1..(Len(q) - 1) /\ 1 \in DOMAIN q
      BY <1>1, <2>1, LenProperties
    <2>3. \A i \in DOMAIN r : i + 1 \in DOMAIN q /\ r[i] = q[i + 1]
      BY <1>1, <2>1, <2>2
    <2>4. SmallIn(r)
      BY <2>3 DEF SmallIn
    <2> QED BY <2>1, <2>2, <2>4 DEF r, SmallIn
  <1> QED BY <1>2, <1>3

\* LogStart takes a message out of unlogged, LogEnqueue lets it go.
LEMMA NextMessageOnce ==
  ASSUME TypeOK, DeliveryInv, [Next]_vars
  PROVE  MessageOnce'
  <1>1. /\ pmsg \in [Producers -> Msgs \cup {None}] /\ MessageOnce
        /\ ppc \in [Producers -> {"idle", "enqueue", "send"}] /\ unlogged \subseteq Msgs
        /\ None \notin Msgs
    BY PipelineAssumption DEF TypeOK, ProducerTypes, DeliveryInv
  <1>2. ASSUME NEW p \in Producers, LogStart(p) PROVE MessageOnce'
    <2>1. PICK m \in unlogged : /\ unlogged' = unlogged \ {m} /\ ppc[p] = "idle"
                                /\ \/ /\ pmsg' = [pmsg EXCEPT ![p] = m]
                                      /\ ppc' = [ppc EXCEPT ![p] = "enqueue"]
                                   \/ UNCHANGED <<ppc, pmsg>>
      BY <1>2 DEF LogStart
    <2>2. CASE UNCHANGED <<ppc, pmsg>>
      BY <1>1, <2>1, <2>2 DEF MessageOnce
    <2>3. CASE pmsg' = [pmsg EXCEPT ![p] = m] /\ ppc' = [ppc EXCEPT ![p] = "enqueue"]
      <3>1. \A q \in Producers : pmsg[q] # m
        BY <1>1, <2>1 DEF MessageOnce
      <3>2. \A q \in Producers : /\ q = p => pmsg'[q] = m /\ ppc'[q] = "enqueue"
                                 /\ q # p => pmsg'[q] = pmsg[q] /\ ppc'[q] = ppc[q]
        BY <1>1, <2>3
      <3> QED BY <1>1, <2>1, <3>1, <3>2 DEF MessageOnce
    <2> QED BY <2>1, <2>2, <2>3
  <1>3. ASSUME NEW p \in Producers, LogEnqueue(p) \/ LogSend(p) PROVE MessageOnce'
    <2>1. /\ unlogged' = unlogged
          /\ \A q \in Producers : /\ pmsg'[q] = pmsg[q] \/ pmsg'[q] = None
                                  /\ q # p => ppc'[q] = ppc[q]
          /\ pmsg'[p] = None \/ (ppc[p] = "send" /\ pmsg'[p] = pmsg[p])
      BY <1>1, <1>3 DEF LogEnqueue, LogSend
    <2> QED BY <1>1, <2>1 DEF MessageOnce
  <1>4. CASE UNCHANGED <<unlogged, ppc, pmsg>>
    BY <1>1, <1>4 DEF MessageOnce
  <1>5. CASE GreaseStep
    BY <1>4, <1>5 DEF GreaseStep, HandleInternalCmd, Dequeue, EndCmd, WriteStep, WriteTest, WriteRef,
                      WriteCopy, WriteRotate, WriteRequest, WriteRefCopy, OverflowFlush,
                      OverflowWrite, FlushStep, FlushRotate, FlushTake, FlushSubmit, prodVars
  <1>6. CASE V8Step
    BY <1>4, <1>6 DEF V8Step, CallV8LogCallbacks, DoV8Callback, FlushStep, FlushRotate, FlushTake,
                      FlushSubmit, prodVars
  <1>7. ASSUME NEW t \in Targets, WriteCb(t) \/ PerformWrite(t) PROVE MessageOnce'
    BY <1>4, <1>7 DEF WriteCb, PerformWrite, prodVars
  <1>8. CASE FlushTimer \/ Flush \/ DisableWrites \/ UNCHANGED vars
    BY <1>4, <1>8 DEF FlushTimer, Flush, DisableWrites, vars, prodVars
  <1> QED BY <1>2, <1>3, <1>5, <1>6, <1>7, <1>8 DEF Next, ProducerStep

\* The commands are small as long as the messages in the producers' hands are.
LEMMA NextSmallMessages ==
  ASSUME TypeOK, DeliveryInv, [Next]_vars
  PROVE  SmallMessages'
  <1>1. /\ cmdq \in Seq(Cmd) /\ SmallIn(cmdq) /\ SmallMessages /\ MessageOnce
        /\ pmsg \in [Producers -> Msgs \cup {None}] /\ pbuf \in [Producers -> Masters \cup {None}]
    BY DEF TypeOK, ProducerTypes, QueueTypes, DeliveryInv, SmallMessages, SmallIn
  <1>2. ASSUME NEW p \in Producers, LogStart(p) PROVE SmallMessages'
    <2>1. UNCHANGED <<cmdq, gpc, gmsg>>
      BY <1>2 DEF LogStart, gVars
    <2>2. pmsg[p] = None /\ pbuf[p] = None
      BY <1>1, <1>2 DEF LogStart, MessageOnce, SmallMessages
    <2>3. PICK m \in unlogged :
                \/ Size[m] > BufferSize /\ pmsg' = [pmsg EXCEPT ![p] = m] /\ UNCHANGED pbuf
                \/ /\ Size[m] <= BufferSize /\ pmsg' = [pmsg EXCEPT ![p] = m]
                   /\ \A q \in Producers \ {p} : pbuf'[q] = pbuf[q]
                \/ UNCHANGED <<pmsg, pbuf>>
      BY <1>1, <1>2 DEF LogStart
    <2>4. m # None
      BY PipelineAssumption DEF TypeOK, ProducerTypes
    <2> QED BY <1>1, <2>1, <2>2, <2>3, <2>4 DEF SmallMessages
  <1>3. ASSUME NEW p \in Producers, LogEnqueue(p) PROVE SmallMessages'
    <2>1. UNCHANGED <<gpc, gmsg>>
      BY <1>3 DEF LogEnqueue, gVars
    <2>2. \A q \in Producers : /\ q = p => pbuf'[q] = None
                               /\ q # p => pbuf'[q] = pbuf[q] /\ pmsg'[q] = pmsg[q]
      BY <1>1, <1>3 DEF LogEnqueue
    <2>3. SmallIn(cmdq')
      <3> DEFINE c == IF pbuf[p] = None THEN Overflow(pmsg[p]) ELSE NewLog(pmsg[p], pbuf[p])
      <3>1. cmdq' = Append(cmdq, c) \/ cmdq' = cmdq
        BY <1>3 DEF LogEnqueue
      <3>2. pmsg[p] \in Msgs
        BY <1>3 DEF LogEnqueue, TypeOK, ProducerTypes
      <3>3. c \in Cmd /\ (c.c = "NEW_LOG" => Size[c.m] <= BufferSize)
        BY <1>1, <3>2 DEF Cmd, NewLog, Overflow, SmallMessages
      <3> HIDE DEF c
      <3> QED BY <1>1, <3>1, <3>3, SmallInQueue
    <2> QED BY <1>1, <2>1, <2>2, <2>3 DEF SmallMessages, SmallIn
  <1>4. CASE UNCHANGED <<cmdq, gpc, gmsg, pmsg, pbuf>>
    BY <1>1, <1>4 DEF SmallMessages
  <1>5. ASSUME UNCHANGED <<pmsg, pbuf>>, SmallIn(cmdq'),
               gpc' \in WritePcs => Size[gmsg'] <= BufferSize
        PROVE  SmallMessages'
    BY <1>1, <1>5 DEF SmallMessages, SmallIn
  <1>6. CASE Dequeue
    <2>1. UNCHANGED <<pmsg, pbuf>> /\ gpc = "drain"
      BY <1>6 DEF Dequeue, prodVars
    <2>2. CASE cmdq = <<>>
      BY <1>1, <1>5, <1>6, <2>1, <2>2 DEF Dequeue, gVars, WritePcs
    <2>3. CASE cmdq # <<>> /\ Head(cmdq).c = "ROTATE"
      BY <1>1, <1>5, <1>6, <2>1, <2>3, SmallInQueue DEF Dequeue, gVars, WritePcs
    <2>4. CASE cmdq # <<>> /\ Head(cmdq).c # "ROTATE"
      <3>1. /\ cmdq' = Tail(cmdq) /\ gmsg' = Head(cmdq).m
            /\ gpc' = IF Head(cmdq).c = "NEW_LOG" THEN "write" ELSE "overflow"
        BY <1>6, <2>4 DEF Dequeue
      <3>2. SmallIn(cmdq')
        BY <1>1, <2>4, <3>1, SmallInQueue
      <3>3. gpc' \in WritePcs => Size[gmsg'] <= BufferSize
        BY <1>1, <2>4, <3>1, SmallInQueue DEF WritePcs
      <3> QED BY <1>5, <2>1, <3>2, <3>3
    <2> QED BY <2>2, <2>3, <2>4
  <1>7. CASE WriteTest \/ WriteRequest
    <2>1. UNCHANGED <<pmsg, pbuf, gmsg>> /\ gpc \in WritePcs
      BY <1>7 DEF WriteTest, WriteRequest, prodVars, WritePcs
    <2>2. SmallIn(Append(cmdq, Overflow(gmsg))) /\ (groute # <<>> => SmallIn(Append(cmdq, RotateCmd(T))))
      <3>1. gmsg \in Msgs
        BY <2>1 DEF TypeOK, GreaseTypes, WritePcs
      <3>2. groute # <<>> => T \in Targets
        BY WriteTarget DEF TypeOK, GreaseTypes
      <3>3. /\ Overflow(gmsg) \in Cmd /\ Overflow(gmsg).c # "NEW_LOG"
            /\ groute # <<>> => RotateCmd(T) \in Cmd /\ RotateCmd(T).c # "NEW_LOG"
        BY <3>1, <3>2 DEF Cmd, Overflow, RotateCmd
      <3> QED BY <1>1, <3>3, SmallInQueue
    <2>3. gpc = "request" => groute # <<>>
      BY DEF TypeOK, GreaseTypes, WritePcs
    <2>4. SmallIn(cmdq')
      BY <1>1, <1>7, <2>2, <2>3 DEF WriteTest, WriteRequest
    <2> QED BY <1>1, <1>5, <2>1, <2>4 DEF SmallMessages
  <1>8. CASE WriteRef \/ WriteCopy \/ WriteRotate \/ WriteRefCopy
    <2>1. UNCHANGED <<pmsg, pbuf, gmsg, cmdq>> /\ gpc \in WritePcs
      BY <1>8 DEF WriteRef, WriteCopy, WriteRotate, WriteRefCopy, prodVars, WritePcs
    <2> QED BY <1>1, <1>5, <2>1 DEF SmallMessages
  <1>9. CASE HandleInternalCmd \/ EndCmd \/ OverflowFlush \/ OverflowWrite
    <2>1. UNCHANGED <<pmsg, pbuf, cmdq>> /\ gpc' \notin WritePcs
      BY <1>9 DEF HandleInternalCmd, EndCmd, OverflowFlush, OverflowWrite, prodVars, WritePcs
    <2> QED BY <1>1, <1>5, <2>1
  <1>10. ASSUME NEW x \in Threads, FlushStep(x) PROVE SmallMessages'
    BY <1>4, <1>10 DEF FlushStep, FlushRotate, FlushTake, FlushSubmit, prodVars, gVars
  <1>11. CASE GreaseStep
    BY <1>6, <1>7, <1>8, <1>9, <1>10, <1>11 DEF GreaseStep, WriteStep, Threads
  <1>12. CASE V8Step
    BY <1>4, <1>10, <1>12 DEF V8Step, CallV8LogCallbacks, DoV8Callback, Threads, prodVars, gVars
  <1>13. ASSUME NEW t \in Targets, WriteCb(t) \/ PerformWrite(t) PROVE SmallMessages'
    BY <1>4, <1>13 DEF WriteCb, PerformWrite, prodVars, gVars
  <1>14. CASE FlushTimer \/ Flush \/ DisableWrites \/ UNCHANGED vars
    BY <1>4, <1>14 DEF FlushTimer, Flush, DisableWrites, vars, prodVars, gVars
  <1>15. ASSUME NEW p \in Producers, LogSend(p) PROVE SmallMessages'
    BY <1>4, <1>15 DEF LogSend, gVars
  <1> QED BY <1>2, <1>3, <1>11, <1>12, <1>13, <1>14, <1>15 DEF Next, ProducerStep

\* Dequeue takes over a command when gmsg is free, and write() takes one target after another.
LEMMA NextCommand ==
  ASSUME TypeOK, DeliveryInv, InOrder, [Next]_vars
  PROVE  IdleHasNoMessage' /\ RouteOnce'
  <1>1. IdleHasNoMessage /\ RouteOnce /\ groute \in Seq(Targets)
    BY DEF TypeOK, GreaseTypes, DeliveryInv
  <1>2. CASE UNCHANGED gVars
    BY <1>1, <1>2 DEF gVars, IdleHasNoMessage, RouteOnce
  <1>3. ASSUME groute' = groute \/ (groute # <<>> /\ groute' = Tail(groute))
        PROVE  RouteOnce'
    <2>1. groute # <<>> => /\ \A i \in DOMAIN Tail(groute) : /\ i + 1 \in DOMAIN groute
                                                           /\ Tail(groute)[i] = groute[i + 1]
                           /\ DOMAIN Tail(groute) \subseteq Int
      <3> SUFFICES ASSUME groute # <<>>
                   PROVE  /\ \A i \in DOMAIN Tail(groute) : /\ i + 1 \in DOMAIN groute
                                                           /\ Tail(groute)[i] = groute[i + 1]
                          /\ DOMAIN Tail(groute) \subseteq Int
        OBVIOUS
      <3>1. /\ Len(groute) \in Nat /\ DOMAIN groute = 1..Len(groute)
            /\ DOMAIN Tail(groute) = 1..(Len(groute) - 1)
            /\ \A i \in 1..(Len(groute) - 1) : Tail(groute)[i] = groute[i + 1]
        BY <1>1, HeadTailProperties, LenProperties, EmptySeq
      <3> QED BY <3>1
    <2> QED BY <1>1, <1>3, <2>1 DEF RouteOnce
  <1>4. CASE HandleInternalCmd
    BY <1>1, <1>4 DEF HandleInternalCmd, LoopIdle, IdleHasNoMessage, RouteOnce
  <1>5. CASE Dequeue
    <2>1. CASE cmdq = <<>> \/ Head(cmdq).c = "ROTATE"
      BY <1>1, <1>5, <2>1 DEF Dequeue, gVars, IdleHasNoMessage, RouteOnce
    <2>2. CASE cmdq # <<>> /\ Head(cmdq).c # "ROTATE"
      <3>1. /\ gpc' \notin {"idle", "drain"} /\ groute' = Route[Head(cmdq).m]
        BY <1>5, <2>2 DEF Dequeue
      <3>2. Head(cmdq) \in Cmd
        BY <2>2, HeadTailProperties DEF TypeOK, QueueTypes
      <3>3. Head(cmdq).m \in Msgs
        BY <2>2, <3>2 DEF Cmd
      <3> QED BY <3>1, <3>3 DEF InOrder, IdleHasNoMessage, RouteOnce
    <2> QED BY <2>1, <2>2
  <1>6. CASE EndCmd
    BY <1>1, <1>6 DEF EndCmd, IdleHasNoMessage, RouteOnce
  <1>7. CASE WriteStep \/ OverflowFlush \/ OverflowWrite
    <2>1. gpc' \notin {"idle", "drain"}
      BY <1>7 DEF WriteStep, WriteTest, WriteRef, WriteCopy, WriteRotate, WriteRequest, WriteRefCopy,
                  WriteReturns, OverflowFlush, OverflowWrite
    <2>2. gpc \in (WritePcs \ {"write"}) \cup {"owrite"} => groute # <<>>
      BY DEF TypeOK, GreaseTypes
    <2>3. groute' = groute \/ (groute # <<>> /\ groute' = Tail(groute))
      BY <1>7, <2>2 DEF WriteStep, WriteTest, WriteRef, WriteCopy, WriteRotate, WriteRequest,
                        WriteRefCopy, WriteReturns, OverflowFlush, OverflowWrite, WritePcs
    <2> QED BY <1>3, <2>1, <2>3 DEF IdleHasNoMessage
  <1>8. ASSUME NEW x \in Threads, FlushStep(x) PROVE UNCHANGED gVars
    BY <1>8 DEF FlushStep, FlushRotate, FlushTake, FlushSubmit
  <1>9. ASSUME NEW p \in Producers, ProducerStep(p) PROVE UNCHANGED gVars
    BY <1>9 DEF ProducerStep, LogStart, LogEnqueue, LogSend
  <1>10. ASSUME NEW t \in Targets, WriteCb(t) \/ PerformWrite(t) PROVE UNCHANGED gVars
    BY <1>10 DEF WriteCb, PerformWrite
  <1>11. CASE FlushTimer \/ Flush \/ DisableWrites \/ CallV8LogCallbacks \/ DoV8Callback \/ UNCHANGED vars
    BY <1>2, <1>11 DEF FlushTimer, Flush, DisableWrites, CallV8LogCallbacks, DoV8Callback, vars
  <1>12. CASE GreaseStep
    BY <1>2, <1>4, <1>5, <1>6, <1>7, <1>8, <1>12 DEF GreaseStep, Threads
  <1>13. CASE V8Step
    BY <1>2, <1>8, <1>11, <1>13 DEF V8Step, Threads
  <1> QED BY <1>2, <1>9, <1>10, <1>11, <1>12, <1>13 DEF Next

-----------------------------------------------------------------------------
(* The invariant is kept: banks and flushes                                 *)

Blank == EmptyIsBlank /\ FreeIsBlank

LEMMA ClearedBlank ==
  ASSUME TypeOK, Blank, NEW t0 \in Targets, NEW b0 \in Banks, Cleared(t0, b0),
         avail' = avail \/ avail' = [avail EXCEPT ![t0] = @ \cup {b0}]
  PROVE  Blank'
  <1>1. /\ data'[t0][b0] = <<>>
        /\ \A t \in Targets, b \in Banks : ~(t = t0 /\ b = b0) => /\ used'[t][b] = used[t][b]
                                                                 /\ data'[t][b] = data[t][b]
    BY ClearedOnlyAt DEF OnlyAt
  <1>2. avail \in [Targets -> SUBSET Banks]
    BY DEF TypeOK, BankTypes
  <1>3. \A t \in Targets : \A b \in avail'[t] : b \in Banks /\ (b \in avail[t] \/ (t = t0 /\ b = b0))
    BY <1>2
  <1> QED BY <1>1, <1>2, <1>3 DEF Blank, EmptyIsBlank, FreeIsBlank

LEMMA RotateBlank ==
  ASSUME TypeOK, Blank, NEW t0 \in Targets, Rotate(t0)
  PROVE  Blank' /\ data'[t0][cur'[t0]] = <<>>
  <1>1. cur \in [Targets -> Banks] /\ avail \in [Targets -> SUBSET Banks] /\ cur[t0] \in Banks
        /\ used[t0][cur[t0]] \in Nat
    BY DEF TypeOK, BankTypes
  <1>2. CASE RotateSucceeds(t0)
    <2>1. PICK next \in avail[t0] : /\ avail' = [avail EXCEPT ![t0] = avail[t0] \ {next}]
                                    /\ cur' = [cur EXCEPT ![t0] = next] /\ UNCHANGED <<data, used>>
      BY <1>1, <1>2 DEF Rotate, FreeAfterRotate, RotateSucceeds
    <2>2. \A t \in Targets : avail'[t] \subseteq avail[t]
      BY <1>1, <2>1
    <2>3. cur'[t0] = next
      BY <1>1, <2>1
    <2> QED BY <2>1, <2>2, <2>3 DEF Blank, EmptyIsBlank, FreeIsBlank
  <1>3. CASE ~RotateSucceeds(t0) /\ used[t0][cur[t0]] > 0
    <2>1. Cleared(t0, cur[t0]) /\ UNCHANGED <<cur, avail>>
      BY <1>1, <1>3 DEF Rotate
    <2> QED BY <1>1, <2>1, ClearedBlank, ClearedOnlyAt
  <1>4. CASE used[t0][cur[t0]] = 0
    <2>1. UNCHANGED <<cur, avail, data, used>>
      BY <1>1, <1>4 DEF Rotate, RotateSucceeds, bankVars
    <2> QED BY <1>1, <1>4, <2>1 DEF Blank, EmptyIsBlank, FreeIsBlank
  <1> QED BY <1>1, <1>2, <1>3, <1>4

LEMMA ReturnBlank ==
  ASSUME TypeOK, Blank, NEW t0 \in Targets, NEW b0 \in Banks, ReturnBank(t0, b0)
  PROVE  Blank'
  <1>1. CASE UNCHANGED <<avail, data, used>>
    BY <1>1 DEF Blank, EmptyIsBlank, FreeIsBlank
  <1>2. CASE Cleared(t0, b0) /\ avail' = [avail EXCEPT ![t0] = @ \cup {b0}]
    BY <1>2, ClearedBlank
  <1> QED BY <1>1, <1>2 DEF ReturnBank

LEMMA CopyInBlank ==
  ASSUME TypeOK, BankInv, Blank, NEW t0 \in Targets, NEW m \in Msgs, CopyIn(t0, m), UNCHANGED avail
  PROVE  Blank'
  <1>1. cur[t0] \in Banks
    BY DEF TypeOK, BankTypes
  <1>2. cur[t0] \notin avail[t0]
    <2>1. In("current", t0, cur[t0])
      BY DEF In
    <2>2. ~In("free", t0, cur[t0])
      BY <1>1, <2>1 DEF BankInv, OneKind, Kinds
    <2> QED BY <2>2 DEF In
  <1>3. avail \in [Targets -> SUBSET Banks]
    BY DEF TypeOK, BankTypes
  <1>4. /\ used'[t0][cur[t0]] > 0
        /\ \A t \in Targets, b \in Banks : ~(t = t0 /\ b = cur[t0]) => /\ used'[t][b] = used[t][b]
                                                                      /\ data'[t][b] = data[t][b]
    <2>1. /\ used'[t0][cur[t0]] > 0 /\ OnlyAt(t0, cur[t0])
          /\ \A t \in Targets, b \in Banks : ~(t = t0 /\ b = cur[t0]) => used'[t][b] = used[t][b]
      BY CopyInOnlyAt
    <2> QED BY <2>1 DEF OnlyAt
  <1>5. EmptyIsBlank'
    BY <1>4 DEF Blank, EmptyIsBlank
  <1>6. FreeIsBlank'
    BY <1>2, <1>3, <1>4 DEF Blank, FreeIsBlank
  <1> QED BY <1>5, <1>6 DEF Blank

LEMMA CallbackBlank ==
  ASSUME TypeOK, Blank, DoV8Callback
  PROVE  Blank' /\ \A t \in Targets : data[t][cur[t]] = <<>> => data'[t][cur'[t]] = <<>>
  <1>1. vcb \in Callback /\ vcb # None /\ UNCHANGED cur /\ cur \in [Targets -> Banks]
    BY DEF DoV8Callback, TypeOK, IOTypes, BankTypes
  <1>2. CASE UNCHANGED <<data, used, avail>>
    BY <1>1, <1>2 DEF Blank, EmptyIsBlank, FreeIsBlank
  <1>3. CASE vcb.b # None /\ Cleared(vcb.t, vcb.b) /\ avail' = [avail EXCEPT ![vcb.t] = @ \cup {vcb.b}]
    <2>1. vcb.t \in Targets /\ vcb.b \in Banks
      BY <1>1, <1>3 DEF Callback
    <2>2. /\ data'[vcb.t][vcb.b] = <<>>
          /\ \A t \in Targets, b \in Banks : ~(t = vcb.t /\ b = vcb.b) => data'[t][b] = data[t][b]
      BY <1>3, <2>1, ClearedOnlyAt DEF OnlyAt
    <2>3. Blank'
      BY <1>3, <2>1, ClearedBlank
    <2> QED BY <1>1, <2>2, <2>3
  <1> QED BY <1>2, <1>3 DEF DoV8Callback

LEMMA NextBlank ==
  ASSUME TypeOK, BankInv, DeliveryInv, [Next]_vars
  PROVE  Blank'
  <1>1. Blank
    BY DEF DeliveryInv, Blank
  <1>2. CASE UNCHANGED bankVars
    BY <1>1, <1>2 DEF bankVars, Blank, EmptyIsBlank, FreeIsBlank
  <1>3. ASSUME NEW x \in Threads, FlushStep(x) PROVE Blank'
    <2>1. CASE FlushRotate(x)
      <3>1. PICK t \in fset[x] : Rotate(t)
        BY <2>1 DEF FlushRotate
      <3>2. t \in Targets
        BY DEF TypeOK, FlushTypes
      <3> QED BY <1>1, <3>1, <3>2, RotateBlank
    <2>2. CASE FlushTake(x)
      BY <1>1, <2>2 DEF FlushTake, Blank, EmptyIsBlank, FreeIsBlank
    <2>3. CASE FlushSubmit(x)
      <3>1. ft[x] \in Targets /\ fb[x] \in Banks
        BY <2>3 DEF FlushSubmit, TypeOK, FlushTypes
      <3> QED BY <1>1, <1>2, <2>3, <3>1, ReturnBlank DEF FlushSubmit
    <2> QED BY <1>3, <2>1, <2>2, <2>3 DEF FlushStep
  <1>4. ASSUME NEW t \in Targets, WriteCb(t) PROVE Blank'
    <2>1. CASE Head(fin[t]).b # None /\ ReturnBank(t, Head(fin[t]).b)
      <3>1. Head(fin[t]) \in WriteReq
        <4>1. fin[t] \in Seq(WriteReq) /\ fin[t] # <<>>
          BY <1>4 DEF WriteCb, TypeOK, IOTypes
        <4> QED BY <4>1, HeadTailProperties
      <3>2. Head(fin[t]).b \in Banks
        BY <2>1, <3>1 DEF WriteReq
      <3> QED BY <1>1, <2>1, <3>2, ReturnBlank
    <2>2. CASE UNCHANGED bankVars
      BY <1>2, <2>2
    <2> QED BY <1>4, <2>1, <2>2 DEF WriteCb
  <1>5. CASE WriteStep
    <2>1. CASE WriteTest \/ WriteRef \/ WriteRequest
      BY <1>2, <2>1 DEF WriteTest, WriteRef, WriteRequest
    <2>2. CASE WriteCopy \/ WriteRefCopy \/ WriteRotate
      <3>1. T \in Targets /\ gmsg \in Msgs
        <4>1. groute # <<>> /\ gmsg \in Msgs
          BY <2>2 DEF WriteCopy, WriteRefCopy, WriteRotate, TypeOK, GreaseTypes, WritePcs
        <4> QED BY <4>1, WriteTarget
      <3> QED BY <1>1, <2>2, <3>1, CopyInBlank, RotateBlank DEF WriteCopy, WriteRefCopy, WriteRotate
    <2> QED BY <1>5, <2>1, <2>2 DEF WriteStep
  <1>6. CASE HandleInternalCmd \/ Dequeue \/ EndCmd \/ OverflowFlush \/ OverflowWrite
    BY <1>2, <1>6 DEF HandleInternalCmd, Dequeue, EndCmd, OverflowFlush, OverflowWrite
  <1>7. ASSUME NEW p \in Producers, ProducerStep(p) PROVE Blank'
    BY <1>2, <1>7 DEF ProducerStep, LogStart, LogEnqueue, LogSend
  <1>8. CASE FlushTimer \/ Flush \/ DisableWrites \/ CallV8LogCallbacks \/ UNCHANGED vars
    BY <1>2, <1>8 DEF FlushTimer, Flush, DisableWrites, CallV8LogCallbacks, vars
  <1>9. ASSUME NEW t \in Targets, PerformWrite(t) PROVE Blank'
    BY <1>2, <1>9 DEF PerformWrite
  <1>10. CASE GreaseStep
    BY <1>3, <1>5, <1>6, <1>10 DEF GreaseStep, Threads
  <1>11. CASE V8Step
    BY <1>1, <1>3, <1>8, <1>11, CallbackBlank DEF V8Step, Threads
  <1> QED BY <1>4, <1>7, <1>8, <1>9, <1>10, <1>11 DEF Next

\* flush() and overflow writes of a callback target go to v8LogCallbacks.
LEMMA NextCallbackDirect ==
  ASSUME TypeOK, DeliveryInv, [Next]_vars
  PROVE  CallbackDirect'
  <1>1. /\ CallbackDirect /\ fly \in [Targets -> Seq(WriteReq)] /\ fin \in [Targets -> Seq(WriteReq)]
    BY DEF TypeOK, IOTypes, DeliveryInv
  <1>2. CASE UNCHANGED <<fly, fin>>
    BY <1>1, <1>2 DEF CallbackDirect
  <1>3. ASSUME NEW x \in Threads, FlushStep(x) PROVE CallbackDirect'
    <2>1. UNCHANGED fin
      BY <1>3 DEF FlushStep, FlushRotate, FlushTake, FlushSubmit, ioVars
    <2>2. UNCHANGED fly \/ \E e : Kind[ft[x]] # "callback" /\ fly' = [fly EXCEPT ![ft[x]] = Append(@, e)]
      BY <1>3 DEF FlushStep, FlushRotate, FlushTake, FlushSubmit, ioVars
    <2>3. \A t \in Targets : Kind[t] = "callback" => fly'[t] = fly[t]
      BY <1>1, <2>2
    <2> QED BY <1>1, <2>1, <2>3 DEF CallbackDirect
  <1>4. ASSUME NEW t0 \in Targets, WriteCb(t0) \/ PerformWrite(t0) PROVE CallbackDirect'
    <2>1. Kind[t0] # "callback"
      <3>1. fin[t0] # <<>> \/ DOMAIN fly[t0] # {}
        BY <1>4 DEF WriteCb, PerformWrite
      <3> QED BY <1>1, <3>1 DEF CallbackDirect
    <2>2. \A t \in Targets : t # t0 => fly'[t] = fly[t] /\ fin'[t] = fin[t]
      BY <1>1, <1>4 DEF WriteCb, PerformWrite
    <2> QED BY <1>1, <2>1, <2>2 DEF CallbackDirect
  <1>5. CASE OverflowWrite
    <2>1. UNCHANGED fin /\ (UNCHANGED fly \/ \E e : Kind[T] = "tty" /\ fly' = [fly EXCEPT ![T] = Append(@, e)])
      BY <1>5 DEF OverflowWrite, ioVars
    <2>2. \A t \in Targets : Kind[t] = "callback" => fly'[t] = fly[t]
      BY <1>1, <2>1
    <2> QED BY <1>1, <2>1, <2>2 DEF CallbackDirect
  <1>6. CASE WriteStep
    BY <1>2, <1>6 DEF WriteStep, WriteTest, WriteRef, WriteCopy, WriteRotate, WriteRequest,
                      WriteRefCopy, ioVars
  <1>7. CASE HandleInternalCmd \/ Dequeue \/ EndCmd \/ OverflowFlush
    BY <1>2, <1>7 DEF HandleInternalCmd, Dequeue, EndCmd, OverflowFlush, ioVars
  <1>8. ASSUME NEW p \in Producers, ProducerStep(p) PROVE CallbackDirect'
    BY <1>2, <1>8 DEF ProducerStep, LogStart, LogEnqueue, LogSend, ioVars
  <1>9. CASE FlushTimer \/ Flush \/ DisableWrites \/ CallV8LogCallbacks \/ DoV8Callback \/ UNCHANGED vars
    BY <1>2, <1>9 DEF FlushTimer, Flush, DisableWrites, CallV8LogCallbacks, DoV8Callback, vars, ioVars
  <1>10. CASE GreaseStep
    BY <1>3, <1>5, <1>6, <1>7, <1>10 DEF GreaseStep, Threads
  <1>11. CASE V8Step
    BY <1>3, <1>9, <1>11 DEF V8Step, Threads
  <1> QED BY <1>4, <1>8, <1>9, <1>10, <1>11 DEF Next

\* flushAll() before an overflow message rotates its target and submits all that waits.
LEMMA NextFlushedFirst ==
  ASSUME TypeOK, BankInv, DeliveryInv, InOrder, [Next]_vars
  PROVE  FlushedFirst'
  <1>1. /\ FlushedFirst /\ Blank /\ fpc["v8"] = "none" /\ ~V8Flushes
        /\ fpc \in [Threads -> {"none", "rotate", "take", "submit"}]
        /\ fset \in [Threads -> SUBSET Targets] /\ ft \in [Threads -> Targets \cup {None}]
        /\ "grease" \in Threads /\ "v8" \in Threads
        /\ cur \in [Targets -> Banks]
    BY DEF TypeOK, FlushTypes, BankTypes, Threads, DeliveryInv, OneFlusher, Blank, InOrder
  <1>2. gpc = "owrite" => groute # <<>> /\ T \in Targets
    BY WriteTarget DEF TypeOK, GreaseTypes
  <1>3. CASE gpc' # "owrite"
    BY <1>3 DEF FlushedFirst
  <1>4. ASSUME UNCHANGED <<gVars, fVars, cur, wout>>,
               \A t \in Targets : data[t][cur[t]] = <<>> => data'[t][cur'[t]] = <<>>
        PROVE  FlushedFirst'
    BY <1>1, <1>2, <1>4 DEF FlushedFirst, gVars, fVars, T
  <1>5. ASSUME UNCHANGED <<gVars, fVars, bankVars>> PROVE FlushedFirst'
    BY <1>4, <1>5 DEF bankVars
  <1>6. CASE OverflowFlush
    <2>1. gpc' = "owrite" /\ groute' = groute /\ groute # <<>> /\ fpc'["grease"] = "rotate"
          /\ fset'["grease"] = {T}
      BY <1>1, <1>6 DEF OverflowFlush, BeginFlush
    <2> QED BY <2>1 DEF FlushedFirst, T
  <1>7. CASE FlushRotate("grease")
    <2> SUFFICES ASSUME gpc' = "owrite" PROVE FlushedFirst'
      BY DEF FlushedFirst
    <2>1. /\ UNCHANGED gVars /\ gpc = "owrite" /\ fpc["grease"] = "rotate"
      BY <1>7 DEF FlushRotate, gVars
    <2>2. fset["grease"] = {T}
      BY <1>1, <2>1 DEF FlushedFirst
    <2>3. /\ Rotate(T) /\ ft'["grease"] = T /\ fset'["grease"] = {} /\ fpc'["grease"] = "take"
      BY <1>1, <1>7, <2>2 DEF FlushRotate
    <2>4. data'[T][cur'[T]] = <<>>
      BY <1>1, <1>2, <2>1, <2>3, RotateBlank
    <2>5. groute' = groute /\ T' = T
      BY <2>1 DEF gVars, T
    <2> QED BY <1>2, <2>1, <2>3, <2>4, <2>5 DEF FlushedFirst
  <1>8. CASE FlushTake("grease")
    <2> SUFFICES ASSUME gpc' = "owrite" PROVE FlushedFirst'
      BY DEF FlushedFirst
    <2>1. /\ UNCHANGED <<gVars, data, cur, fset>> /\ gpc = "owrite" /\ fpc["grease"] = "take"
      BY <1>8 DEF FlushTake, gVars
    <2>2. ft["grease"] = T /\ fset["grease"] = {} /\ data[T][cur[T]] = <<>> /\ T \in Targets
      BY <1>1, <1>2, <2>1 DEF FlushedFirst
    <2>3. groute' = groute /\ T' = T
      BY <2>1 DEF gVars, T
    <2>4. CASE wout[T] # <<>>
      <3>1. fpc'["grease"] = "submit" /\ UNCHANGED ft
        BY <1>1, <1>8, <2>2, <2>4 DEF FlushTake
      <3> QED BY <1>2, <2>1, <2>2, <2>3, <3>1 DEF FlushedFirst
    <2>5. CASE wout[T] = <<>>
      <3>1. fpc'["grease"] = "none" /\ UNCHANGED wout
        BY <1>1, <1>8, <2>2, <2>5 DEF FlushTake
      <3> QED BY <1>2, <2>1, <2>2, <2>3, <2>5, <3>1 DEF FlushedFirst
    <2> QED BY <2>4, <2>5
  <1>9. CASE FlushSubmit("grease")
    <2> SUFFICES ASSUME gpc' = "owrite" PROVE FlushedFirst'
      BY DEF FlushedFirst
    <2>1. /\ UNCHANGED <<gVars, cur, fset, ft>> /\ gpc = "owrite" /\ fpc["grease"] = "submit"
          /\ fpc'["grease"] = "take"
      BY <1>1, <1>9 DEF FlushSubmit, gVars, bankVars, ReturnBank
    <2>2. ft["grease"] = T /\ fset["grease"] = {} /\ data[T][cur[T]] = <<>> /\ T \in Targets
      BY <1>1, <1>2, <2>1 DEF FlushedFirst
    <2>3. fb["grease"] \in Banks
      BY <1>1, <2>1 DEF TypeOK, FlushTypes
    <2>4. UNCHANGED data \/ Cleared(T, fb["grease"])
      BY <1>9, <2>2 DEF FlushSubmit, bankVars, ReturnBank
    <2>5. data'[T][cur'[T]] = <<>>
      BY <1>1, <2>1, <2>2, <2>3, <2>4, ClearedOnlyAt DEF OnlyAt
    <2>6. groute' = groute /\ T' = T
      BY <2>1 DEF gVars, T
    <2> QED BY <1>2, <2>1, <2>2, <2>5, <2>6 DEF FlushedFirst
  <1>10. ~FlushStep("v8") /\ ~Flush
    BY <1>1 DEF FlushStep, FlushRotate, FlushTake, FlushSubmit, Flush
  <1>11. CASE DoV8Callback
    <2>1. UNCHANGED <<gVars, fVars, cur, wout>>
      BY <1>11 DEF DoV8Callback
    <2> QED BY <1>1, <1>4, <1>11, <2>1, CallbackBlank
  <1>12. CASE WriteStep \/ HandleInternalCmd \/ Dequeue \/ EndCmd \/ OverflowWrite
    <2>1. gpc' # "owrite"
      BY <1>12 DEF WriteStep, WriteTest, WriteRef, WriteCopy, WriteRotate, WriteRequest, WriteRefCopy,
                   WriteReturns, HandleInternalCmd, Dequeue, EndCmd, OverflowWrite, gVars
    <2> QED BY <1>3, <2>1
  <1>13. CASE FlushTimer
    BY <1>3, <1>13 DEF FlushTimer, LoopIdle, gVars
  <1>14. ASSUME NEW t \in Targets, WriteCb(t) PROVE FlushedFirst'
    BY <1>3, <1>14 DEF WriteCb, LoopIdle, gVars
  <1>15. ASSUME NEW t \in Targets, PerformWrite(t) PROVE FlushedFirst'
    BY <1>5, <1>15 DEF PerformWrite
  <1>16. ASSUME NEW p \in Producers, ProducerStep(p) PROVE FlushedFirst'
    BY <1>5, <1>16 DEF ProducerStep, LogStart, LogEnqueue, LogSend
  <1>17. CASE DisableWrites \/ CallV8LogCallbacks \/ UNCHANGED vars
    BY <1>5, <1>17 DEF DisableWrites, CallV8LogCallbacks, vars
  <1>18. CASE GreaseStep
    BY <1>6, <1>7, <1>8, <1>9, <1>12, <1>18 DEF GreaseStep, FlushStep
  <1>19. CASE V8Step
    BY <1>10, <1>11, <1>17, <1>19 DEF V8Step
  <1> QED BY <1>10, <1>13, <1>14, <1>15, <1>16, <1>17, <1>18, <1>19 DEF Next

LEMMA NextDelivery ==
  ASSUME TypeOK, BankInv, DeliveryInv, InOrder, [Next]_vars
  PROVE  DeliveryInv'
  <1>1. OneFlusher'
    BY NextOneFlusher DEF DeliveryInv, InOrder
  <1>2. EmptyIsBlank' /\ FreeIsBlank'
    BY NextBlank DEF Blank
  <1> QED BY <1>1, <1>2, NextCommand, NextCallbackDirect, NextFlushedFirst, NextSmallMessages,
             NextMessageOnce DEF DeliveryInv

LEMMA InitDelivery == ASSUME Init PROVE DeliveryInv
  <1>1. OneFlusher
    BY DEF Init, OneFlusher, Threads, WritePcs
  <1>2. IdleHasNoMessage /\ RouteOnce /\ FlushedFirst
    BY DEF Init, IdleHasNoMessage, RouteOnce, FlushedFirst
  <1>3. EmptyIsBlank /\ FreeIsBlank /\ CallbackDirect
    BY DEF Init, EmptyIsBlank, FreeIsBlank, CallbackDirect
  <1>4. SmallMessages /\ MessageOnce
    BY DEF Init, SmallMessages, MessageOnce, WritePcs
  <1> QED BY <1>1, <1>2, <1>3, <1>4 DEF DeliveryInv

-----------------------------------------------------------------------------
(* What a step does to a target                                             *)

\* Nothing; a run of what is on its way is lost; the oldest of it reaches the output.
Stays(t) == WayTo(t)' = WayTo(t) /\ out'[t] = out[t]
Loses(t) == Shorter(WayTo(t), WayTo(t)') /\ out'[t] = out[t]
Delivers(t) == \E x \in Text : WayTo(t) = Cat(x, WayTo(t)') /\ out'[t] = Cat(out[t], x)

\* When every target is a TTY, none is disabled, write() has no other reason to drop a message
\* than a target without a free bank or a full command queue.
NoneDisabled == disabled = {}
Calm == /\ \A t \in Targets : Kind[t] = "tty"
        /\ NoneDisabled /\ RotateNotSkipped /\ WriteOutHasRoom
Squeezed(t) == avail[t] = {} \/ ~QueueHasRoom

Touches(t0) == /\ \A t \in Targets \ {t0} : Stays(t)
               /\ Stays(t0) \/ Delivers(t0) \/ (Loses(t0) /\ (Calm => Squeezed(t0)))
Effect == (\A t \in Targets : Stays(t)) \/ \E t0 \in Targets : Touches(t0)

LEMMA SameWay ==
  ASSUME NEW t \in Targets, AtV8(t)' = AtV8(t), Flying(t)' = Flying(t), InHand(t)' = InHand(t),
         Waiting(t)' = Waiting(t), data'[t][cur'[t]] = data[t][cur[t]],
         BeingWritten(t)' = BeingWritten(t), InQueue(t)' = InQueue(t), out'[t] = out[t]
  PROVE  Stays(t)
  BY DEF Stays, WayTo

LEMMA PartsKept ==
  ASSUME TypeOK, NEW t \in Targets
  PROVE  /\ UNCHANGED <<cbq, vcb>> /\ Kept("waiting", t) /\ Kept("inside", t) => AtV8(t)' = AtV8(t)
         /\ fly'[t] = fly[t] /\ Kept("flying", t) => Flying(t)' = Flying(t)
         /\ ft'["grease"] = ft["grease"] /\ fb'["grease"] = fb["grease"] /\ Kept("flushing", t)
              => InHand(t)' = InHand(t)
         /\ wout'[t] = wout[t] /\ Kept("queued", t) => Waiting(t)' = Waiting(t)
         /\ cur'[t] = cur[t] /\ Kept("current", t) => data'[t][cur'[t]] = data[t][cur[t]]
         /\ UNCHANGED <<gmsg, groute>> => BeingWritten(t)' = BeingWritten(t)
         /\ UNCHANGED cmdq => InQueue(t)' = InQueue(t)
  BY AtV8Kept, FlyingKept, InHandKept, WaitingKept, OthersKept

LEMMA AllKept ==
  ASSUME UNCHANGED data
  PROVE  \A t, k : Kept(k, t)
  BY DEF Kept

\* The thread between two banks, or out of flushAll(), has none in its hands.
LEMMA EmptyHand ==
  ASSUME TypeOK, fpc["grease"] # "submit"
  PROVE  /\ fb["grease"] = None /\ \A t : InHand(t) = <<>>
         /\ UNCHANGED fb => \A t : InHand(t)' = <<>>
  <1>1. fb["grease"] = None
    BY DEF TypeOK, FlushTypes, Threads
  <1> QED BY <1>1 DEF InHand

LEMMA UnseenStep ==
  ASSUME TypeOK, UNCHANGED <<cur, data, wout, cbq, vcb, fly, gmsg, groute, cmdq, out>>,
         ft'["grease"] = ft["grease"], fb'["grease"] = fb["grease"], NEW t \in Targets
  PROVE  Stays(t)
  <1>1. \A k : Kept(k, t)
    BY AllKept
  <1> QED BY <1>1, PartsKept, SameWay

-----------------------------------------------------------------------------
(* Commands and writes                                                      *)

LEMMA DequeueStays ==
  ASSUME TypeOK, DeliveryInv, Dequeue, NEW t \in Targets
  PROVE  Stays(t)
  <1>1. /\ UNCHANGED <<cur, data, wout, cbq, vcb, fly, out, fb>> /\ gpc = "drain"
        /\ fpc["grease"] = "none"
    BY DEF Dequeue, bankVars, ioVars, fVars
  <1>2. InHand(t)' = InHand(t)
    BY <1>1, EmptyHand
  <1>3. \A k : Kept(k, t)
    BY <1>1, AllKept
  <1>4. /\ AtV8(t)' = AtV8(t) /\ Flying(t)' = Flying(t) /\ Waiting(t)' = Waiting(t)
        /\ data'[t][cur'[t]] = data[t][cur[t]] /\ out'[t] = out[t]
    BY <1>1, <1>3, PartsKept
  <1>5. CASE cmdq = <<>>
    <2>1. UNCHANGED <<cmdq, gmsg, groute>>
      BY <1>5 DEF Dequeue
    <2> QED BY <1>2, <1>4, <2>1, PartsKept, SameWay
  <1>6. CASE cmdq # <<>>
    <2> DEFINE c == Head(cmdq)
    <2>1. cmdq' = Tail(cmdq) /\ c \in Cmd /\ cmdq \in Seq(Cmd) /\ Tail(cmdq) \in Seq(Cmd)
      BY <1>6, HeadTailProperties DEF Dequeue, TypeOK, QueueTypes
    <2> HIDE DEF c
    <2>2. TextFun(CommandText(t), Cmd, Msgs) /\ CommandText(t)[c] \in Text
      BY <2>1, TextFuns DEF TextFun, Text
    <2>3. InQueue(t) = Cat(CommandText(t)[c], InQueue(t)') /\ InQueue(t)' \in Text
      <3>1. InQueue(t)' = Texts(CommandText(t), Tail(cmdq))
        BY <2>1 DEF InQueue, CommandText
      <3>2. Texts(CommandText(t), Tail(cmdq)) \in Text
        BY <2>1, <2>2, TextsType DEF Text
      <3>3. InQueue(t) = Cat(CommandText(t)[c], Texts(CommandText(t), Tail(cmdq)))
        BY <1>6, <2>1, <2>2, TextsTail DEF InQueue, c
      <3> QED BY <3>1, <3>2, <3>3
    <2>4. CASE c.c = "ROTATE"
      <3>1. UNCHANGED <<gmsg, groute>>
        BY <1>6, <2>4 DEF Dequeue, gVars, c
      <3>2. c.m = None
        BY <2>1, <2>4 DEF Cmd
      <3>3. CommandText(t)[c] = <<>>
        BY <2>1, <3>2 DEF CommandText
      <3>4. InQueue(t)' = InQueue(t)
        BY <2>3, <3>3, TextCat
      <3> QED BY <1>2, <1>4, <3>1, <3>4, PartsKept, SameWay
    <2>5. CASE c.c # "ROTATE"
      <3>1. gmsg = None /\ gmsg' = c.m /\ groute' = Route[c.m]
        BY <1>1, <1>6, <2>5 DEF Dequeue, DeliveryInv, IdleHasNoMessage, c
      <3>2. BeingWritten(t) = <<>>
        BY <3>1 DEF BeingWritten
      <3>3. BeingWritten(t)' = CommandText(t)[c]
        BY <2>1, <3>1 DEF BeingWritten, CommandText
      <3>4. PartsTyped(t)
        BY PartTypes
      <3>5. WayTo(t) = Way(AtV8(t), Flying(t), InHand(t), Waiting(t), data[t][cur[t]], <<>>,
                           Cat(CommandText(t)[c], InQueue(t)'))
        BY <2>3, <3>2 DEF WayTo
      <3>6. WayTo(t) = Way(AtV8(t), Flying(t), InHand(t), Waiting(t), data[t][cur[t]],
                           CommandText(t)[c], InQueue(t)')
        <4>1. AreTexts(AtV8(t), Flying(t), InHand(t), Waiting(t), data[t][cur[t]], <<>>, InQueue(t)')
          BY <2>3, <3>4, TextCat DEF PartsTyped, AreTexts
        <4> QED BY <2>2, <3>5, <4>1, WayMoves
      <3> QED BY <1>2, <1>4, <3>3, <3>6 DEF Stays, WayTo
    <2> QED BY <2>4, <2>5
  <1> QED BY <1>5, <1>6

LEMMA EndCmdStays ==
  ASSUME TypeOK, EndCmd, NEW t \in Targets
  PROVE  Stays(t)
  <1>1. /\ UNCHANGED <<cur, data, wout, cbq, vcb, fly, out, ft, fb, cmdq>>
        /\ groute = <<>> /\ gmsg' = None
    BY DEF EndCmd, bankVars, ioVars, fVars
  <1>2. BeingWritten(t) = <<>> /\ BeingWritten(t)' = <<>>
    BY <1>1 DEF BeingWritten, Range
  <1>3. \A k : Kept(k, t)
    BY <1>1, AllKept
  <1> QED BY <1>1, <1>2, <1>3, PartsKept, SameWay

\* write() goes on to the next target: the message has left the current one, T, only.
LEMMA NextTarget ==
  ASSUME TypeOK, RouteOnce, groute # <<>>, gmsg \in Msgs, gmsg' = gmsg, groute' = Tail(groute),
         NEW t \in Targets
  PROVE  /\ t = T => BeingWritten(t) = <<gmsg>> /\ BeingWritten(t)' = <<>>
         /\ t # T => BeingWritten(t)' = BeingWritten(t)
  <1>1. gmsg # None
    BY PipelineAssumption
  <1>2. /\ Len(groute) \in Nat \ {0} /\ DOMAIN groute = 1..Len(groute) /\ T = groute[1]
        /\ DOMAIN Tail(groute) = 1..(Len(groute) - 1)
        /\ \A i \in 1..(Len(groute) - 1) : Tail(groute)[i] = groute[i + 1]
    BY HeadTailProperties, LenProperties, EmptySeq DEF TypeOK, GreaseTypes, T
  <1>3. T \in Range(groute)
    BY <1>2 DEF Range
  <1>4. \A i \in DOMAIN Tail(groute) : /\ i + 1 \in DOMAIN groute /\ i + 1 # 1
                                       /\ Tail(groute)[i] = groute[i + 1]
    BY <1>2
  <1>5. \A i \in DOMAIN groute : i # 1 => i - 1 \in DOMAIN Tail(groute) /\ Tail(groute)[i - 1] = groute[i]
    BY <1>2
  <1>6. T \notin Range(Tail(groute))
    <2>1. 1 \in DOMAIN groute
      BY <1>2
    <2> QED BY <1>2, <1>4, <2>1 DEF RouteOnce, Range
  <1>7. t # T => (t \in Range(Tail(groute)) <=> t \in Range(groute))
    <2>1. ASSUME NEW i \in DOMAIN groute, groute[i] # T
          PROVE  \E j \in DOMAIN Tail(groute) : Tail(groute)[j] = groute[i]
      BY <1>2, <1>5, <2>1
    <2>2. ASSUME NEW i \in DOMAIN Tail(groute)
          PROVE  \E j \in DOMAIN groute : groute[j] = Tail(groute)[i]
      BY <1>4
    <2> QED BY <2>1, <2>2 DEF Range
  <1> QED BY <1>1, <1>3, <1>6, <1>7 DEF BeingWritten

\* The message is dropped, or written out, and nothing else of a target changes.
LEMMA DropEffect ==
  ASSUME TypeOK, RouteOnce, groute # <<>>, gmsg \in Msgs, groute' = Tail(groute),
         UNCHANGED <<cur, data, wout, cbq, vcb, fly, gmsg, cmdq, out, ft, fb>>,
         Calm => ~QueueHasRoom
  PROVE  Effect
  <1>1. PICK t0 \in Targets : t0 = T
    BY WriteTarget
  <1>2. \A t \in Targets : \A k : Kept(k, t)
    BY AllKept
  <1>3. ASSUME NEW t \in Targets \ {t0} PROVE Stays(t)
    BY <1>1, <1>2, <1>3, NextTarget, PartsKept, SameWay
  <1>4. Loses(t0)
    <2>1. PartsTyped(t0)
      BY PartTypes
    <2>2. BeingWritten(t0)' = <<>>
      BY <1>1, NextTarget
    <2>3. WayTo(t0)' = Way(AtV8(t0), Flying(t0), InHand(t0), Waiting(t0), data[t0][cur[t0]], <<>>,
                           InQueue(t0))
      BY <1>2, <2>2, PartsKept DEF WayTo
    <2> QED BY <2>1, <2>3, WayShorter DEF PartsTyped, WayTo, Loses
  <1> QED BY <1>3, <1>4 DEF Effect, Touches, Squeezed

LEMMA WriteTestEffect ==
  ASSUME TypeOK, DeliveryInv, InOrder, WriteTest
  PROVE  Effect
  <1>1. /\ UNCHANGED <<cur, data, wout, cbq, vcb, fly, gmsg, out, ft, fb>> /\ gpc = "write"
        /\ groute # <<>> /\ RouteOnce
    BY DEF WriteTest, bankVars, ioVars, fVars, DeliveryInv
  <1>2. gmsg \in Msgs /\ Size[gmsg] <= BufferSize
    BY <1>1 DEF TypeOK, GreaseTypes, WritePcs, DeliveryInv, SmallMessages
  <1>3. CASE T \in disabled /\ WriteReturns /\ UNCHANGED cmdq
    <2>1. ~Calm
      BY <1>3 DEF Calm, NoneDisabled
    <2> QED BY <1>1, <1>2, <1>3, <2>1, DropEffect DEF WriteReturns
  <1>4. ~(BankSpace < Size[gmsg] + HeaderRoom)
    <2>1. Size[gmsg] + HeaderRoom <= BankSpace
      BY <1>2 DEF InOrder
    <2>2. Size[gmsg] \in Nat /\ HeaderRoom \in Nat /\ BankSpace \in Nat
      BY <1>2, PipelineAssumption
    <2> QED BY <2>1, <2>2
  <1>5. CASE UNCHANGED <<cmdq, groute>>
    BY <1>1, <1>5, UnseenStep DEF Effect
  <1> QED BY <1>3, <1>4, <1>5 DEF WriteTest

LEMMA WriteRequestEffect ==
  ASSUME TypeOK, DeliveryInv, WriteRequest
  PROVE  Effect
  <1>1. /\ UNCHANGED <<cur, data, wout, cbq, vcb, fly, gmsg, out, ft, fb>> /\ gpc = "request"
        /\ RouteOnce
    BY DEF WriteRequest, bankVars, ioVars, fVars, DeliveryInv
  <1>2. gmsg \in Msgs /\ groute # <<>>
    BY <1>1 DEF TypeOK, GreaseTypes, WritePcs
  <1>3. CASE ~QueueHasRoom /\ WriteReturns /\ UNCHANGED cmdq
    BY <1>1, <1>2, <1>3, DropEffect DEF WriteReturns
  <1>4. CASE cmdq' = Append(cmdq, RotateCmd(T)) /\ UNCHANGED groute
    <2> SUFFICES ASSUME NEW t \in Targets PROVE Stays(t)
      BY DEF Effect
    <2>1. \A k : Kept(k, t)
      BY <1>1, AllKept
    <2>2. RotateCmd(T) \in Cmd /\ RotateCmd(T).m = None
      BY <1>2, WriteTarget DEF RotateCmd, Cmd
    <2>3. CommandText(t)[RotateCmd(T)] = <<>>
      BY <2>2 DEF CommandText
    <2>4. TextFun(CommandText(t), Cmd, Msgs) /\ cmdq \in Seq(Cmd)
      BY TextFuns DEF TypeOK, QueueTypes
    <2>5. InQueue(t)' = Cat(InQueue(t), <<>>)
      <3>1. InQueue(t)' = Texts(CommandText(t), Append(cmdq, RotateCmd(T)))
        BY <1>4 DEF InQueue, CommandText
      <3> QED BY <2>2, <2>3, <2>4, <3>1, TextsAppend DEF InQueue
    <2>6. InQueue(t)' = InQueue(t)
      BY <2>5, PartTypes, TextCat DEF PartsTyped, AreTexts
    <2> QED BY <1>1, <1>4, <2>1, <2>6, PartsKept, SameWay
  <1> QED BY <1>3, <1>4 DEF WriteRequest

\* The message goes from the thread to the end of the current bank.
LEMMA CopyEffect ==
  ASSUME TypeOK, BankInv, DeliveryInv, WriteCopy \/ WriteRefCopy
  PROVE  Effect
  <1>1. /\ UNCHANGED <<cur, wout, cbq, vcb, fly, gmsg, cmdq, out, ft, fb>> /\ CopyIn(T, gmsg)
        /\ groute # <<>> /\ groute' = Tail(groute) /\ RouteOnce /\ gmsg \in Msgs
    BY DEF WriteCopy, WriteRefCopy, WriteReturns, ioVars, fVars, DeliveryInv, TypeOK, GreaseTypes,
           WritePcs
  <1>2. PICK t0 \in Targets : t0 = T
    BY <1>1, WriteTarget
  <1>3. cur[t0] \in Banks /\ In("current", t0, cur[t0]) /\ "current" \in Kinds
    BY DEF TypeOK, BankTypes, In, Kinds
  <1>4. OnlyAt(t0, cur[t0]) /\ data'[t0][cur[t0]] = Cat(data[t0][cur[t0]], <<gmsg>>)
    BY <1>1, <1>2, CopyInOnlyAt
  <1>5. \A t \in Targets, k \in Kinds : t # t0 \/ k # "current" => Kept(k, t)
    BY <1>3, <1>4, KeptElsewhere
  <1>6. ASSUME NEW t \in Targets PROVE /\ AtV8(t)' = AtV8(t) /\ Flying(t)' = Flying(t)
                                       /\ InHand(t)' = InHand(t) /\ Waiting(t)' = Waiting(t)
                                       /\ InQueue(t)' = InQueue(t) /\ out'[t] = out[t]
    <2>1. Kept("waiting", t) /\ Kept("inside", t) /\ Kept("flying", t) /\ Kept("flushing", t)
          /\ Kept("queued", t)
      BY <1>5 DEF Kinds
    <2> QED BY <1>1, <2>1, PartsKept
  <1>7. ASSUME NEW t \in Targets \ {t0} PROVE Stays(t)
    <2>1. Kept("current", t)
      BY <1>3, <1>5
    <2>2. BeingWritten(t)' = BeingWritten(t)
      BY <1>1, <1>2, NextTarget
    <2> QED BY <1>1, <1>6, <2>1, <2>2, PartsKept, SameWay
  <1>8. Stays(t0)
    <2>1. BeingWritten(t0) = <<gmsg>> /\ BeingWritten(t0)' = <<>>
      BY <1>1, <1>2, NextTarget
    <2>2. data'[t0][cur'[t0]] = Cat(data[t0][cur[t0]], <<gmsg>>)
      BY <1>1, <1>4
    <2>3. PartsTyped(t0) /\ <<gmsg>> \in Text
      BY <1>1, PartTypes DEF Text
    <2>4. Way(AtV8(t0), Flying(t0), InHand(t0), Waiting(t0), data[t0][cur[t0]], <<gmsg>>, InQueue(t0))
            = Way(AtV8(t0), Flying(t0), InHand(t0), Waiting(t0), Cat(data[t0][cur[t0]], <<gmsg>>),
                  <<>>, InQueue(t0))
      BY <2>3, WayMoves DEF PartsTyped
    <2> QED BY <1>6, <2>1, <2>2, <2>4 DEF Stays, WayTo
  <1> QED BY <1>7, <1>8 DEF Effect

\* rotate() moves the current bank to the end of writeOutBuffers, or it clears it.
LEMMA RotateParts ==
  ASSUME TypeOK, BankInv, Blank, NEW t0 \in Targets, Rotate(t0), UNCHANGED <<fly, cbq, vcb>>
  PROVE  /\ \A t \in Targets : /\ AtV8(t)' = AtV8(t) /\ Flying(t)' = Flying(t) /\ Kept("flushing", t)
                               /\ t # t0 => /\ Waiting(t)' = Waiting(t)
                                            /\ data'[t][cur'[t]] = data[t][cur[t]]
         /\ data'[t0][cur'[t0]] = <<>>
         /\ RotateSucceeds(t0) => Waiting(t0)' = Cat(Waiting(t0), data[t0][cur[t0]])
         /\ ~RotateSucceeds(t0) => /\ Waiting(t0)' = Waiting(t0)
                                   /\ used[t0][cur[t0]] = 0 => data[t0][cur[t0]] = <<>>
  <1>1. /\ cur[t0] \in Banks /\ In("current", t0, cur[t0]) /\ "current" \in Kinds
        /\ cur \in [Targets -> Banks] /\ wout \in [Targets -> Seq(Banks)]
        /\ used[t0][cur[t0]] \in Nat
    BY DEF TypeOK, BankTypes, In, Kinds
  <1>2. data'[t0][cur'[t0]] = <<>>
    BY RotateBlank
  <1>3. OnlyAt(t0, cur[t0])
    <2>1. CASE UNCHANGED data
      BY <2>1 DEF OnlyAt
    <2>2. CASE Cleared(t0, cur[t0])
      BY <1>1, <2>2, ClearedOnlyAt
    <2> QED BY <2>1, <2>2 DEF Rotate, bankVars
  <1>4. \A t \in Targets, k \in Kinds : t # t0 \/ k # "current" => Kept(k, t)
    BY <1>1, <1>3, KeptElsewhere
  <1>5. \A t \in Targets : t # t0 => cur'[t] = cur[t] /\ wout'[t] = wout[t]
    BY <1>1 DEF Rotate, bankVars
  <1>6. ASSUME NEW t \in Targets
        PROVE  /\ AtV8(t)' = AtV8(t) /\ Flying(t)' = Flying(t) /\ Kept("flushing", t)
               /\ t # t0 => Waiting(t)' = Waiting(t) /\ data'[t][cur'[t]] = data[t][cur[t]]
    <2>1. Kept("waiting", t) /\ Kept("inside", t) /\ Kept("flying", t) /\ Kept("flushing", t)
          /\ Kept("queued", t) /\ (t # t0 => Kept("current", t))
      BY <1>4 DEF Kinds
    <2> QED BY <1>5, <2>1, PartsKept
  <1>7. ASSUME RotateSucceeds(t0) PROVE Waiting(t0)' = Cat(Waiting(t0), data[t0][cur[t0]])
    <2>1. wout'[t0] = Append(wout[t0], cur[t0]) /\ UNCHANGED data
      BY <1>1, <1>7 DEF Rotate, RotateSucceeds
    <2>2. Waiting(t0)' = Texts(data[t0], Append(wout[t0], cur[t0]))
      BY <2>1 DEF Waiting
    <2>3. TextFun(data[t0], Banks, Msgs) /\ wout[t0] \in Seq(Banks)
      BY <1>1, TextFuns
    <2> QED BY <1>1, <2>2, <2>3, TextsAppend DEF Waiting
  <1>8. ASSUME ~RotateSucceeds(t0)
        PROVE  /\ Waiting(t0)' = Waiting(t0)
               /\ used[t0][cur[t0]] = 0 => data[t0][cur[t0]] = <<>>
    <2>1. wout' = wout
      BY <1>1, <1>8 DEF Rotate, bankVars
    <2>2. Kept("queued", t0)
      BY <1>4 DEF Kinds
    <2> QED BY <1>1, <2>1, <2>2, PartsKept DEF Blank, EmptyIsBlank
  <1> QED BY <1>2, <1>6, <1>7, <1>8

\* A rotate() that fails on a bank with text in it found no free bank.
LEMMA FailsForRoom ==
  ASSUME TypeOK, NEW t0 \in Targets, ~RotateSucceeds(t0), used[t0][cur[t0]] > 0, WriteOutHasRoom
  PROVE  Squeezed(t0)
  BY DEF RotateSucceeds, WriteOutHasRoom, Squeezed

LEMMA FlushRotateEffect ==
  ASSUME TypeOK, BankInv, DeliveryInv, FlushRotate("grease")
  PROVE  Effect
  <1>1. PICK t0 \in fset["grease"] : Rotate(t0)
    BY DEF FlushRotate
  <1>2. /\ t0 \in Targets /\ UNCHANGED <<fly, cbq, vcb, gmsg, groute, cmdq, out, fb>> /\ Blank
        /\ fpc["grease"] = "rotate"
    BY DEF FlushRotate, ioVars, gVars, TypeOK, FlushTypes, Threads, DeliveryInv, Blank
  <1>3. ASSUME NEW t \in Targets
        PROVE  /\ InHand(t)' = InHand(t) /\ BeingWritten(t)' = BeingWritten(t)
               /\ InQueue(t)' = InQueue(t) /\ out'[t] = out[t]
               /\ AtV8(t)' = AtV8(t) /\ Flying(t)' = Flying(t)
    BY <1>1, <1>2, EmptyHand, PartsKept, RotateParts
  <1>4. ASSUME NEW t \in Targets \ {t0} PROVE Stays(t)
    BY <1>1, <1>2, <1>3, RotateParts, SameWay
  <1>5. PartsTyped(t0) /\ data'[t0][cur'[t0]] = <<>>
    BY <1>1, <1>2, PartTypes, RotateParts
  <1>6. CASE RotateSucceeds(t0)
    <2>1. Waiting(t0)' = Cat(Waiting(t0), data[t0][cur[t0]])
      BY <1>1, <1>2, <1>6, RotateParts
    <2>2. WayTo(t0)' = Way(AtV8(t0), Flying(t0), InHand(t0), Cat(Waiting(t0), data[t0][cur[t0]]), <<>>,
                           BeingWritten(t0), InQueue(t0))
      BY <1>2, <1>3, <1>5, <2>1 DEF WayTo
    <2>3. Stays(t0)
      BY <1>2, <1>3, <1>5, <2>2, WayMoves, TextCat DEF Stays, WayTo, PartsTyped
    <2> QED BY <1>2, <1>4, <2>3 DEF Effect
  <1>7. CASE ~RotateSucceeds(t0)
    <2>1. /\ Waiting(t0)' = Waiting(t0)
          /\ used[t0][cur[t0]] = 0 => data[t0][cur[t0]] = <<>>
      BY <1>1, <1>2, <1>7, RotateParts
    <2>2. WayTo(t0)' = Way(AtV8(t0), Flying(t0), InHand(t0), Waiting(t0), <<>>, BeingWritten(t0),
                           InQueue(t0))
      BY <1>2, <1>3, <1>5, <2>1 DEF WayTo
    <2>3. CASE used[t0][cur[t0]] = 0
      BY <1>2, <1>3, <1>4, <2>1, <2>2, <2>3 DEF Effect, Stays, WayTo
    <2>4. CASE used[t0][cur[t0]] # 0
      <3>1. Loses(t0)
        BY <1>2, <1>3, <1>5, <2>2, WayShorter DEF Loses, WayTo, PartsTyped
      <3>2. used[t0][cur[t0]] > 0
        BY <1>2, <2>4 DEF TypeOK, BankTypes
      <3> QED BY <1>2, <1>4, <1>7, <3>1, <3>2, FailsForRoom DEF Effect, Touches, Calm
    <2> QED BY <2>3, <2>4
  <1> QED BY <1>6, <1>7

LEMMA WriteRotateEffect ==
  ASSUME TypeOK, BankInv, DeliveryInv, WriteRotate
  PROVE  Effect
  <1>1. /\ UNCHANGED <<fly, cbq, vcb, gmsg, cmdq, out, ft, fb>> /\ gpc = "rotate" /\ groute # <<>>
        /\ gmsg \in Msgs /\ Blank /\ RouteOnce
    BY DEF WriteRotate, ioVars, fVars, TypeOK, GreaseTypes, WritePcs, DeliveryInv, Blank
  <1>2. PICK t0 \in Targets : t0 = T
    BY <1>1, WriteTarget
  <1>3. Rotate(t0)
    BY <1>2 DEF WriteRotate
  <1>4. ASSUME NEW t \in Targets
        PROVE  /\ InHand(t)' = InHand(t) /\ InQueue(t)' = InQueue(t) /\ out'[t] = out[t]
               /\ AtV8(t)' = AtV8(t) /\ Flying(t)' = Flying(t)
               /\ t # t0 => Waiting(t)' = Waiting(t) /\ data'[t][cur'[t]] = data[t][cur[t]]
    BY <1>1, <1>3, PartsKept, RotateParts
  <1>5. PartsTyped(t0) /\ data'[t0][cur'[t0]] = <<>>
    BY <1>1, <1>3, PartTypes, RotateParts
  <1>6. CASE RotateSucceeds(t0)
    <2>1. Waiting(t0)' = Cat(Waiting(t0), data[t0][cur[t0]]) /\ UNCHANGED groute
      BY <1>1, <1>2, <1>3, <1>6, RotateParts DEF WriteRotate
    <2>2. ASSUME NEW t \in Targets PROVE BeingWritten(t)' = BeingWritten(t)
      BY <1>1, <2>1, PartsKept
    <2>3. WayTo(t0)' = Way(AtV8(t0), Flying(t0), InHand(t0), Cat(Waiting(t0), data[t0][cur[t0]]), <<>>,
                           BeingWritten(t0), InQueue(t0))
      BY <1>4, <1>5, <2>1, <2>2 DEF WayTo
    <2>4. Stays(t0)
      BY <1>4, <1>5, <2>3, WayMoves, TextCat DEF Stays, WayTo, PartsTyped
    <2> QED BY <1>4, <2>2, <2>4, SameWay DEF Effect
  <1>7. CASE ~RotateSucceeds(t0)
    <2>1. Waiting(t0)' = Waiting(t0) /\ groute' = Tail(groute)
      BY <1>1, <1>2, <1>3, <1>7, RotateParts DEF WriteRotate, WriteReturns
    <2>2. BeingWritten(t0)' = <<>>
      BY <1>1, <1>2, <2>1, NextTarget
    <2>3. ASSUME NEW t \in Targets \ {t0} PROVE Stays(t)
      <3>1. BeingWritten(t)' = BeingWritten(t)
        BY <1>1, <1>2, <2>1, NextTarget
      <3> QED BY <1>4, <3>1, SameWay
    <2>4. WayTo(t0)' = Way(AtV8(t0), Flying(t0), InHand(t0), Waiting(t0), <<>>, <<>>, InQueue(t0))
      BY <1>4, <1>5, <2>1, <2>2 DEF WayTo
    <2>5. Loses(t0)
      BY <1>4, <1>5, <2>4, WayShorter DEF Loses, WayTo, PartsTyped
    <2>6. Calm => Squeezed(t0)
      BY <1>1, <1>2, <1>7, FailsForRoom DEF Calm, RotateNotSkipped
    <2> QED BY <2>3, <2>5, <2>6 DEF Effect, Touches
  <1> QED BY <1>6, <1>7

-----------------------------------------------------------------------------
(* Flushes, writes and callbacks                                            *)

\* flushAll() takes the oldest bank of writeOutBuffers.
LEMMA FlushTakeEffect ==
  ASSUME TypeOK, FlushTake("grease")
  PROVE  Effect
  <1>1. /\ UNCHANGED <<cur, data, cbq, vcb, fly, gmsg, groute, cmdq, out>>
        /\ fpc["grease"] = "take" /\ fb["grease"] = None
    BY EmptyHand DEF FlushTake, ioVars, gVars
  <1>2. PICK t0 \in Targets : t0 = ft["grease"]
    BY <1>1 DEF TypeOK, FlushTypes, Threads
  <1>3. ASSUME NEW t \in Targets
        PROVE  /\ AtV8(t)' = AtV8(t) /\ Flying(t)' = Flying(t) /\ BeingWritten(t)' = BeingWritten(t)
               /\ InQueue(t)' = InQueue(t) /\ data'[t][cur'[t]] = data[t][cur[t]]
               /\ out'[t] = out[t] /\ InHand(t) = <<>>
    BY <1>1, AllKept, PartsKept, EmptyHand
  <1>4. CASE wout[t0] = <<>>
    <2>1. UNCHANGED <<fb, wout>>
      BY <1>2, <1>4 DEF FlushTake
    <2>2. ASSUME NEW t \in Targets PROVE Stays(t)
      <3>1. InHand(t)' = <<>> /\ Waiting(t)' = Waiting(t)
        BY <1>1, <2>1, EmptyHand, AllKept, PartsKept
      <3> QED BY <1>3, <3>1, SameWay
    <2> QED BY <2>2 DEF Effect
  <1>5. CASE wout[t0] # <<>>
    <2> DEFINE b == Head(wout[t0])
    <2>1. /\ wout[t0] \in Seq(Banks) /\ b \in Banks /\ Tail(wout[t0]) \in Seq(Banks)
          /\ wout \in [Targets -> Seq(Banks)] /\ None \notin Banks
          /\ fb \in [Threads -> Banks \cup {None}] /\ "grease" \in Threads
      BY <1>5, HeadTailProperties, PipelineAssumption DEF TypeOK, BankTypes, FlushTypes, Threads
    <2>2. /\ fb'["grease"] = b /\ ft' = ft /\ wout'[t0] = Tail(wout[t0])
          /\ \A t \in Targets : t # t0 => wout'[t] = wout[t]
      BY <1>2, <1>5, <2>1 DEF FlushTake
    <2> HIDE DEF b
    <2>3. ASSUME NEW t \in Targets \ {t0} PROVE Stays(t)
      <3>1. InHand(t)' = <<>>
        BY <1>2, <2>2 DEF InHand
      <3>2. Waiting(t)' = Waiting(t)
        BY <1>1, <2>2, AllKept, PartsKept
      <3> QED BY <1>3, <3>1, <3>2, SameWay
    <2>4. Stays(t0)
      <3>1. InHand(t0)' = data[t0][b]
        BY <1>1, <1>2, <2>1, <2>2 DEF InHand
      <3>2. TextFun(data[t0], Banks, Msgs)
        BY TextFuns
      <3>3. Waiting(t0) = Cat(data[t0][b], Texts(data[t0], Tail(wout[t0])))
        BY <1>5, <2>1, <3>2, TextsTail DEF Waiting, b
      <3>4. Waiting(t0)' = Texts(data[t0], Tail(wout[t0]))
        BY <1>1, <2>2 DEF Waiting
      <3>5. data[t0][b] \in Text /\ Waiting(t0)' \in Text
        <4>1. Texts(data[t0], Tail(wout[t0])) \in Text
          BY <2>1, <3>2, TextsType DEF Text
        <4>2. data[t0][b] \in Text
          BY <2>1, <3>2 DEF TextFun, Text
        <4> QED BY <3>4, <4>1, <4>2
      <3>6. AreTexts(AtV8(t0), Flying(t0), InHand(t0), Waiting(t0)', data[t0][cur[t0]],
                     BeingWritten(t0), InQueue(t0))
        BY <3>5, PartTypes DEF PartsTyped, AreTexts
      <3>7. Way(AtV8(t0), Flying(t0), <<>>, Cat(data[t0][b], Waiting(t0)'), data[t0][cur[t0]],
                BeingWritten(t0), InQueue(t0))
            = Way(AtV8(t0), Flying(t0), data[t0][b], Waiting(t0)', data[t0][cur[t0]],
                  BeingWritten(t0), InQueue(t0))
        BY <3>5, <3>6, WayMoves
      <3> QED BY <1>3, <3>1, <3>3, <3>4, <3>7 DEF Stays, WayTo
    <2> QED BY <2>3, <2>4 DEF Effect
  <1> QED BY <1>4, <1>5

\* A callback is queued: its text joins those that wait, if the target is a callback target.
LEMMA AtV8Append ==
  ASSUME TypeOK, NEW c \in Callback, cbq' = Append(cbq, c), UNCHANGED <<data, vcb>>, NEW t \in Targets
  PROVE  /\ Kind[t] # "callback" \/ c.t # t => AtV8(t)' = AtV8(t)
         /\ Kind[t] = "callback" /\ c.t = t => AtV8(t)' = Cat(AtV8(t), Content(t, c))
  <1> DEFINE v == IF vcb = None THEN <<>> ELSE CallbackText(t)[vcb]
             q == Texts(CallbackText(t), cbq)
             e == CallbackText(t)[c]
  <1>1. TextFun(CallbackText(t), Callback, Msgs) /\ cbq \in Seq(Callback) /\ vcb \in Callback \cup {None}
    BY TextFuns DEF TypeOK, IOTypes
  <1>2. CallbackText(t)' = CallbackText(t)
    BY DEF CallbackText, Content
  <1>3. v \in Text /\ q \in Text /\ e \in Text
    BY <1>1, TextCat, TextsType DEF TextFun, Text
  <1>4. Kind[t] = "callback" => AtV8(t) = Cat(v, q)
    BY DEF AtV8, Cat
  <1>5. Kind[t] = "callback" => AtV8(t)' = Cat(v, Texts(CallbackText(t), Append(cbq, c)))
    BY <1>2 DEF AtV8, Cat
  <1>6. Texts(CallbackText(t), Append(cbq, c)) = Cat(q, e)
    BY <1>1, TextsAppend
  <1>7. e = IF c.t = t THEN Content(t, c) ELSE <<>>
    BY DEF CallbackText
  <1> HIDE DEF v, q, e
  <1>8. Cat(v, Cat(q, e)) = Cat(Cat(v, q), e) /\ Cat(q, <<>>) = q
    BY <1>3, TextCat
  <1>9. Kind[t] # "callback" => AtV8(t)' = <<>> /\ AtV8(t) = <<>>
    BY DEF AtV8
  <1> QED BY <1>4, <1>5, <1>6, <1>7, <1>8, <1>9

\* A bank goes to its JS callback or is free again: the text of no other bank changes.
LEMMA ReturnParts ==
  ASSUME TypeOK, BankInv, NEW t0 \in Targets, NEW b0 \in Banks, ReturnBank(t0, b0), UNCHANGED vcb,
         NEW k0 \in {"flushing", "written"}, In(k0, t0, b0), NEW t \in Targets
  PROVE  /\ \A k \in Kinds : t # t0 \/ k # k0 => Kept(k, t)
         /\ Kind[t] # "callback" \/ t # t0 => AtV8(t)' = AtV8(t)
         /\ Kind[t] = "callback" /\ t = t0
              => AtV8(t)' = AtV8(t) \/ AtV8(t)' = Cat(AtV8(t), data[t0][b0])
  <1>0. k0 \in Kinds /\ None \notin Banks
    BY PipelineAssumption DEF Kinds
  <1>1. CASE Cleared(t0, b0) /\ UNCHANGED cbq
    <2>1. OnlyAt(t0, b0)
      BY <1>1, ClearedOnlyAt
    <2>2. \A k \in Kinds : t # t0 \/ k # k0 => Kept(k, t)
      BY <1>0, <2>1, KeptElsewhere
    <2>3. Kept("waiting", t) /\ Kept("inside", t)
      BY <2>2 DEF Kinds
    <2> QED BY <1>1, <2>2, <2>3, PartsKept
  <1>2. CASE cbq' = Append(cbq, [t |-> t0, b |-> b0, m |-> None]) /\ UNCHANGED data
    <2> DEFINE c == [t |-> t0, b |-> b0, m |-> None]
    <2>1. c \in Callback /\ c.t = t0 /\ Content(t0, c) = data[t0][b0]
      BY <1>0 DEF Callback, Content
    <2> HIDE DEF c
    <2>2. cbq' = Append(cbq, c)
      BY <1>2 DEF c
    <2> QED BY <1>2, <2>1, <2>2, AtV8Append, AllKept
  <1> QED BY <1>1, <1>2 DEF ReturnBank

\* A write is given to libuv: its text is the last of those under way to the target.
LEMMA FlyingAppend ==
  ASSUME TypeOK, NEW t0 \in Targets, NEW r \in WriteReq,
         fly' = [fly EXCEPT ![t0] = Append(@, r)], UNCHANGED data
  PROVE  /\ \A t \in Targets : t # t0 => Flying(t)' = Flying(t)
         /\ Flying(t0)' = Cat(Flying(t0), Content(t0, r))
  <1>1. fly \in [Targets -> Seq(WriteReq)]
    BY DEF TypeOK, IOTypes
  <1>2. \A t \in Targets : t # t0 => Flying(t)' = Flying(t)
    BY <1>1, AllKept, PartsKept
  <1>3. Flying(t0)' = Cat(Flying(t0), Content(t0, r))
    <2>1. WriteText(t0)' = WriteText(t0) /\ WriteText(t0)[r] = Content(t0, r)
      BY DEF WriteText, Content
    <2>2. Flying(t0)' = Texts(WriteText(t0), Append(fly[t0], r))
      BY <1>1, <2>1 DEF Flying
    <2>3. TextFun(WriteText(t0), WriteReq, Msgs) /\ fly[t0] \in Seq(WriteReq)
      BY <1>1, TextFuns
    <2> QED BY <2>1, <2>2, <2>3, TextsAppend DEF Flying
  <1> QED BY <1>2, <1>3

LEMMA FlushSubmitEffect ==
  ASSUME TypeOK, BankInv, DeliveryInv, InOrder, FlushSubmit("grease")
  PROVE  Effect
  <1> DEFINE b == fb["grease"]
  <1>1. /\ UNCHANGED <<cur, wout, vcb, gmsg, groute, cmdq, out, ft>> /\ fpc["grease"] = "submit"
        /\ b \in Banks /\ b # None /\ fb'["grease"] = None
    BY PipelineAssumption DEF FlushSubmit, bankVars, ReturnBank, gVars, TypeOK, FlushTypes, Threads
  <1>2. PICK t0 \in Targets : t0 = ft["grease"]
    BY <1>1 DEF TypeOK, FlushTypes, Threads
  <1>3. In("flushing", t0, b)
    BY <1>2 DEF In, Threads
  <1>4. ASSUME NEW t \in Targets
        PROVE  /\ BeingWritten(t)' = BeingWritten(t) /\ InQueue(t)' = InQueue(t) /\ out'[t] = out[t]
               /\ InHand(t)' = <<>> /\ InHand(t) = IF t = t0 THEN data[t0][b] ELSE <<>>
    BY <1>1, <1>2, PartsKept DEF InHand
  <1>5. PartsTyped(t0) /\ InHand(t0) = data[t0][b]
    BY <1>4, PartTypes
  <1> HIDE DEF b
  <1>6. CASE Kind[t0] # "callback"
    <2>1. UNCHANGED <<cbq, data>> /\ fly' = [fly EXCEPT ![t0] = Append(@, [b |-> b, m |-> None])]
      BY <1>2, <1>6 DEF FlushSubmit, bankVars, b
    <2>2. fly \in [Targets -> Seq(WriteReq)]
      BY DEF TypeOK, IOTypes
    <2>3. ASSUME NEW t \in Targets
          PROVE  /\ AtV8(t)' = AtV8(t) /\ Waiting(t)' = Waiting(t)
                 /\ data'[t][cur'[t]] = data[t][cur[t]]
      BY <1>1, <2>1, AllKept, PartsKept
    <2>4. ASSUME NEW t \in Targets \ {t0} PROVE Stays(t)
      <3>1. fly'[t] = fly[t]
        BY <2>1, <2>2
      <3>2. Flying(t)' = Flying(t)
        BY <2>1, <3>1, AllKept, PartsKept
      <3> QED BY <1>4, <2>3, <3>2, SameWay
    <2>5. Flying(t0)' = Cat(Flying(t0), data[t0][b])
      <3> DEFINE r == [b |-> b, m |-> None]
      <3>1. r \in WriteReq /\ Content(t0, r) = data[t0][b] /\ fly' = [fly EXCEPT ![t0] = Append(@, r)]
        BY <1>1, <2>1 DEF WriteReq, Content
      <3> HIDE DEF r
      <3> QED BY <2>1, <3>1, FlyingAppend
    <2>6. Stays(t0)
      <3>1. Way(AtV8(t0), Flying(t0), InHand(t0), Waiting(t0), data[t0][cur[t0]], BeingWritten(t0),
                InQueue(t0))
            = Way(AtV8(t0), Cat(Flying(t0), InHand(t0)), <<>>, Waiting(t0), data[t0][cur[t0]],
                  BeingWritten(t0), InQueue(t0))
        BY <1>5, TextCat, WayMoves DEF PartsTyped
      <3> QED BY <1>4, <1>5, <2>3, <2>5, <3>1 DEF Stays, WayTo
    <2> QED BY <2>4, <2>6 DEF Effect
  <1>7. CASE Kind[t0] = "callback"
    <2>1. ReturnBank(t0, b) /\ UNCHANGED fly
      BY <1>2, <1>7 DEF FlushSubmit, b
    <2>2. ASSUME NEW t \in Targets
          PROVE  /\ Flying(t)' = Flying(t) /\ Waiting(t)' = Waiting(t)
                 /\ data'[t][cur'[t]] = data[t][cur[t]]
      <3>1. Kept("flying", t) /\ Kept("queued", t) /\ Kept("current", t)
        BY <1>1, <1>3, <2>1, ReturnParts DEF Kinds
      <3> QED BY <1>1, <2>1, <3>1, PartsKept
    <2>3. ASSUME NEW t \in Targets \ {t0} PROVE Stays(t)
      <3>1. AtV8(t)' = AtV8(t)
        BY <1>1, <1>3, <2>1, ReturnParts
      <3> QED BY <1>4, <2>2, <3>1, SameWay
    <2>4. Flying(t0) = <<>>
      BY <1>7, TextsEmpty DEF DeliveryInv, CallbackDirect, Flying
    <2>5. CASE AtV8(t0)' = Cat(AtV8(t0), data[t0][b])
      <3>1. Stays(t0)
        <4>1. Way(AtV8(t0), <<>>, InHand(t0), Waiting(t0), data[t0][cur[t0]], BeingWritten(t0),
                  InQueue(t0))
              = Way(Cat(AtV8(t0), InHand(t0)), <<>>, <<>>, Waiting(t0), data[t0][cur[t0]],
                    BeingWritten(t0), InQueue(t0))
          BY <1>5, TextCat, WayMoves DEF PartsTyped
        <4> QED BY <1>4, <1>5, <2>2, <2>4, <2>5, <4>1 DEF Stays, WayTo
      <3> QED BY <2>3, <3>1 DEF Effect
    <2>6. CASE AtV8(t0)' = AtV8(t0)
      <3>1. Loses(t0)
        BY <1>4, <1>5, <2>2, <2>6, WayShorter DEF Loses, WayTo, PartsTyped
      <3>2. ~Calm
        BY <1>7 DEF Calm
      <3> QED BY <2>3, <3>1, <3>2 DEF Effect, Touches
    <2> QED BY <1>1, <1>3, <1>7, <2>1, <2>5, <2>6, ReturnParts
  <1> QED BY <1>6, <1>7

\* write_cb: what is written is out already; its bank's callback is no output of a TTY.
LEMMA WriteCbStays ==
  ASSUME TypeOK, BankInv, DeliveryInv, NEW t0 \in Targets, WriteCb(t0), NEW t \in Targets
  PROVE  Stays(t)
  <1> DEFINE r == Head(fin[t0])
  <1>1. /\ UNCHANGED <<cur, wout, vcb, fly, gmsg, groute, cmdq, out, ft, fb>> /\ fin[t0] # <<>>
    BY DEF WriteCb, ReturnBank, bankVars, gVars, fVars
  <1>2. Kind[t0] # "callback"
    BY <1>1 DEF DeliveryInv, CallbackDirect
  <1>3. r \in WriteReq /\ None \notin Banks /\ In("written", t0, r.b)
    <2>1. /\ fin[t0] \in Seq(WriteReq) /\ r \in WriteReq /\ None \notin Banks
          /\ 1 \in DOMAIN fin[t0] /\ r = fin[t0][1]
      BY <1>1, HeadTailProperties, LenProperties, EmptySeq, PipelineAssumption DEF TypeOK, IOTypes
    <2> QED BY <2>1 DEF In, Holds, WriteOf
  <1>4. CASE r.b # None
    <2>1. ReturnBank(t0, r.b) /\ r.b \in Banks
      BY <1>3, <1>4 DEF WriteCb, WriteReq
    <2>2. /\ \A k \in Kinds : k # "written" => Kept(k, t)
          /\ AtV8(t)' = AtV8(t)
      BY <1>1, <1>2, <1>3, <1>4, <2>1, ReturnParts
    <2>3. Kept("flying", t) /\ Kept("flushing", t) /\ Kept("queued", t) /\ Kept("current", t)
      BY <2>2 DEF Kinds
    <2> QED BY <1>1, <2>2, <2>3, PartsKept, SameWay
  <1>5. CASE r.b = None
    <2>1. QueueOverflowCallback(t0, r.m) /\ UNCHANGED data
      BY <1>5 DEF WriteCb, bankVars
    <2>2. r \in WriteReq
      BY <1>1, HeadTailProperties DEF TypeOK, IOTypes
    <2>3. AtV8(t)' = AtV8(t)
      <3>1. CASE cbq' = cbq
        BY <1>1, <2>1, <3>1, AllKept, PartsKept
      <3>2. CASE cbq' = Append(cbq, [t |-> t0, b |-> None, m |-> r.m])
        <4> DEFINE c == [t |-> t0, b |-> None, m |-> r.m]
        <4>1. c \in Callback /\ c.t = t0
          BY <1>5, <2>2, PipelineAssumption DEF WriteReq, Callback
        <4> HIDE DEF c
        <4>2. cbq' = Append(cbq, c)
          BY <3>2 DEF c
        <4> QED BY <1>1, <1>2, <2>1, <4>1, <4>2, AtV8Append
      <3> QED BY <2>1, <3>1, <3>2 DEF QueueOverflowCallback
    <2> QED BY <1>1, <2>1, <2>3, AllKept, PartsKept, SameWay
  <1> QED BY <1>4, <1>5

\* An overflow message goes to libuv or to the JS callback, past banks that are all empty.
LEMMA OverflowWriteEffect ==
  ASSUME TypeOK, DeliveryInv, InOrder, OverflowWrite
  PROVE  Effect
  <1>1. /\ UNCHANGED <<cur, data, wout, vcb, gmsg, cmdq, ft, fb>> /\ groute # <<>>
        /\ groute' = Tail(groute) /\ gmsg \in Msgs /\ RouteOnce /\ fpc["grease"] = "none"
        /\ data[T][cur[T]] = <<>> /\ wout[T] = <<>>
    BY DEF OverflowWrite, bankVars, fVars, TypeOK, GreaseTypes, DeliveryInv, FlushedFirst
  <1>2. PICK t0 \in Targets : t0 = T
    BY <1>1, WriteTarget
  <1>3. ASSUME NEW t \in Targets
        PROVE  /\ InHand(t) = <<>> /\ InHand(t)' = <<>> /\ Waiting(t)' = Waiting(t)
               /\ data'[t][cur'[t]] = data[t][cur[t]] /\ InQueue(t)' = InQueue(t)
               /\ t # t0 => BeingWritten(t)' = BeingWritten(t)
    BY <1>1, <1>2, EmptyHand, AllKept, PartsKept, NextTarget
  <1>4. /\ Waiting(t0) = <<>> /\ data[t0][cur[t0]] = <<>>
        /\ BeingWritten(t0) = <<gmsg>> /\ BeingWritten(t0)' = <<>>
    BY <1>1, <1>2, NextTarget, TextsEmpty DEF Waiting
  <1>5. PartsTyped(t0) /\ <<gmsg>> \in Text /\ <<>> \in Text
    BY <1>1, PartTypes, TextCat DEF Text
  <1>6. WayTo(t0) = Way(AtV8(t0), Flying(t0), <<>>, <<>>, <<>>, <<gmsg>>, InQueue(t0))
    BY <1>3, <1>4 DEF WayTo
  <1>7. CASE T \in disabled /\ UNCHANGED <<ioVars, cbq>>
    <2>1. ~Calm
      BY <1>7 DEF Calm, NoneDisabled
    <2> QED BY <1>1, <1>7, <2>1, DropEffect DEF ioVars
  <1>8. CASE Kind[T] = "tty" /\ fly' = [fly EXCEPT ![T] = Append(@, [b |-> None, m |-> gmsg])]
             /\ UNCHANGED <<out, cbq>>
    <2> DEFINE r == [b |-> None, m |-> gmsg]
    <2>1. r \in WriteReq /\ Content(t0, r) = <<gmsg>> /\ fly' = [fly EXCEPT ![t0] = Append(@, r)]
      BY <1>1, <1>2, <1>8 DEF WriteReq, Content
    <2> HIDE DEF r
    <2>2. /\ \A t \in Targets : t # t0 => Flying(t)' = Flying(t)
          /\ Flying(t0)' = Cat(Flying(t0), <<gmsg>>)
      BY <1>1, <2>1, FlyingAppend
    <2>3. ASSUME NEW t \in Targets PROVE AtV8(t)' = AtV8(t) /\ out'[t] = out[t]
      BY <1>1, <1>8, AllKept, PartsKept
    <2>4. ASSUME NEW t \in Targets \ {t0} PROVE Stays(t)
      BY <1>3, <2>2, <2>3, SameWay
    <2>5. Way(AtV8(t0), Flying(t0), <<>>, <<>>, <<>>, <<gmsg>>, InQueue(t0))
            = Way(AtV8(t0), Cat(Flying(t0), <<gmsg>>), <<>>, <<>>, <<>>, <<>>, InQueue(t0))
      BY <1>5, WayEnds DEF PartsTyped
    <2>6. Stays(t0)
      BY <1>3, <1>4, <1>6, <2>2, <2>3, <2>5 DEF Stays, WayTo
    <2> QED BY <2>4, <2>6 DEF Effect
  <1>9. CASE Kind[T] = "callback" /\ QueueOverflowCallback(T, gmsg) /\ UNCHANGED ioVars
    <2>1. UNCHANGED <<fly, out>> /\ ~Calm /\ Flying(t0) = <<>>
      BY <1>2, <1>9, TextsEmpty DEF ioVars, Calm, DeliveryInv, CallbackDirect, Flying
    <2>2. ASSUME NEW t \in Targets PROVE Flying(t)' = Flying(t) /\ out'[t] = out[t]
      BY <1>1, <2>1, AllKept, PartsKept
    <2>3. CASE cbq' = Append(cbq, [t |-> t0, b |-> None, m |-> gmsg])
      <3> DEFINE c == [t |-> t0, b |-> None, m |-> gmsg]
      <3>1. c \in Callback /\ c.t = t0 /\ Content(t0, c) = <<gmsg>> /\ cbq' = Append(cbq, c)
        BY <1>1, <2>3 DEF Callback, Content
      <3> HIDE DEF c
      <3>2. /\ \A t \in Targets : t # t0 => AtV8(t)' = AtV8(t)
            /\ AtV8(t0)' = Cat(AtV8(t0), <<gmsg>>)
        BY <1>1, <1>2, <1>9, <3>1, AtV8Append
      <3>3. ASSUME NEW t \in Targets \ {t0} PROVE Stays(t)
        BY <1>3, <2>2, <3>2, SameWay
      <3>4. Way(AtV8(t0), <<>>, <<>>, <<>>, <<>>, <<gmsg>>, InQueue(t0))
              = Way(Cat(AtV8(t0), <<gmsg>>), <<>>, <<>>, <<>>, <<>>, <<>>, InQueue(t0))
        BY <1>5, WayEnds DEF PartsTyped
      <3>5. Stays(t0)
        BY <1>3, <1>4, <1>6, <2>1, <2>2, <3>2, <3>4 DEF Stays, WayTo
      <3> QED BY <3>3, <3>5 DEF Effect
    <2>4. CASE UNCHANGED cbq
      BY <1>1, <2>1, <2>4, DropEffect
    <2> QED BY <1>2, <1>9, <2>3, <2>4 DEF QueueOverflowCallback
  <1>10. Kind[T] # "file"
    BY <1>2 DEF InOrder
  <1> QED BY <1>7, <1>8, <1>9, <1>10 DEF OverflowWrite, ioVars

\* A TTY gets the oldest write.
LEMMA PerformWriteEffect ==
  ASSUME TypeOK, DeliveryInv, InOrder, NEW t0 \in Targets, PerformWrite(t0)
  PROVE  Effect
  <1>1. UNCHANGED <<cur, data, wout, cbq, vcb, gmsg, groute, cmdq, ft, fb>>
    BY DEF PerformWrite, bankVars, gVars, fVars
  <1>2. /\ fly \in [Targets -> Seq(WriteReq)] /\ out \in [Targets -> Text]
    BY DEF TypeOK, IOTypes, Text
  <1>3. fly[t0] # <<>>
    BY <1>2 DEF PerformWrite
  <1>4. Kind[t0] = "tty"
    BY <1>3, PipelineAssumption DEF DeliveryInv, CallbackDirect, InOrder
  <1> DEFINE q == fly[t0]
             r == Head(q)
  <1>5. /\ q \in Seq(WriteReq) /\ q # <<>> /\ r \in WriteReq /\ Tail(q) \in Seq(WriteReq) /\ r = q[1]
    BY <1>2, <1>3, HeadTailProperties
  <1>6. SubSeq(q, 1, 0) \o SubSeq(q, 2, Len(q)) = Tail(q)
    BY <1>5
  <1>7. /\ out' = [out EXCEPT ![t0] = Cat(@, Content(t0, r))]
        /\ fly' = [fly EXCEPT ![t0] = Tail(q)]
    <2>1. PICK i \in DOMAIN q :
            /\ Kind[t0] = "tty" => i = 1
            /\ out' = [out EXCEPT ![t0] = @ \o Content(t0, q[i])]
            /\ fly' = [fly EXCEPT ![t0] = SubSeq(@, 1, i - 1) \o SubSeq(@, i + 1, Len(@))]
      BY DEF PerformWrite
    <2>2. i = 1
      BY <1>4, <2>1
    <2>3. out' = [out EXCEPT ![t0] = Cat(@, Content(t0, r))]
      BY <1>5, <2>1, <2>2 DEF Cat
    <2>4. fly' = [fly EXCEPT ![t0] = SubSeq(@, 1, 0) \o SubSeq(@, 2, Len(@))]
      BY <2>1, <2>2
    <2> QED BY <1>6, <2>3, <2>4
  <1>8. /\ \A t \in Targets : t # t0 => fly'[t] = fly[t] /\ out'[t] = out[t]
        /\ fly'[t0] = Tail(q) /\ out'[t0] = Cat(out[t0], Content(t0, r))
    BY <1>2, <1>7
  <1> HIDE DEF r, q
  <1>9. ASSUME NEW t \in Targets
        PROVE  /\ AtV8(t)' = AtV8(t) /\ InHand(t)' = InHand(t) /\ Waiting(t)' = Waiting(t)
               /\ data'[t][cur'[t]] = data[t][cur[t]] /\ BeingWritten(t)' = BeingWritten(t)
               /\ InQueue(t)' = InQueue(t)
               /\ t # t0 => Flying(t)' = Flying(t)
    BY <1>1, <1>8, AllKept, PartsKept
  <1>10. ASSUME NEW t \in Targets \ {t0} PROVE Stays(t)
    <2>1. out'[t] = out[t] /\ Flying(t)' = Flying(t)
      BY <1>8, <1>9
    <2> QED BY <1>9, <2>1, SameWay
  <1>11. Flying(t0) = Cat(Content(t0, r), Flying(t0)') /\ Flying(t0)' \in Text /\ Content(t0, r) \in Text
    <2>1. WriteText(t0)' = WriteText(t0) /\ WriteText(t0)[r] = Content(t0, r)
      BY <1>1, <1>5 DEF WriteText, Content
    <2>2. TextFun(WriteText(t0), WriteReq, Msgs)
      BY TextFuns
    <2>3. Flying(t0)' = Texts(WriteText(t0), Tail(q))
      BY <1>8, <2>1 DEF Flying
    <2>4. Texts(WriteText(t0), Tail(q)) \in Text
      BY <1>5, <2>2, TextsType DEF Text
    <2>5. Texts(WriteText(t0), q) = Cat(WriteText(t0)[r], Texts(WriteText(t0), Tail(q)))
      BY <1>5, <2>2, TextsTail DEF r
    <2> QED BY <1>5, <2>1, <2>3, <2>4, <2>5, ContentType DEF Flying, q
  <1>12. Delivers(t0)
    <2>1. AtV8(t0) = <<>>
      BY <1>4 DEF AtV8
    <2>2. AreTexts(AtV8(t0), Flying(t0)', InHand(t0), Waiting(t0), data[t0][cur[t0]],
                   BeingWritten(t0), InQueue(t0))
      BY <1>11, PartTypes DEF PartsTyped, AreTexts
    <2>3. Way(<<>>, Cat(Content(t0, r), Flying(t0)'), InHand(t0), Waiting(t0), data[t0][cur[t0]],
              BeingWritten(t0), InQueue(t0))
          = Cat(Content(t0, r), Way(<<>>, Flying(t0)', InHand(t0), Waiting(t0), data[t0][cur[t0]],
                                    BeingWritten(t0), InQueue(t0)))
      BY <1>11, <2>2, WayEnds
    <2>4. WayTo(t0) = Cat(Content(t0, r), WayTo(t0)')
      <3>1. AtV8(t0)' = <<>>
        BY <1>9, <2>1
      <3>2. WayTo(t0)' = Way(<<>>, Flying(t0)', InHand(t0), Waiting(t0), data[t0][cur[t0]],
                             BeingWritten(t0), InQueue(t0))
        BY <1>9, <3>1 DEF WayTo
      <3>3. WayTo(t0) = Way(<<>>, Cat(Content(t0, r), Flying(t0)'), InHand(t0), Waiting(t0),
                            data[t0][cur[t0]], BeingWritten(t0), InQueue(t0))
        BY <1>11, <2>1 DEF WayTo
      <3> QED BY <2>3, <3>2, <3>3
    <2> QED BY <1>8, <1>11, <2>4 DEF Delivers
  <1> QED BY <1>10, <1>12 DEF Effect, Touches

\* V8 takes the oldest callback: it is still the first of what waits.
LEMMA CallV8LogCallbacksStays ==
  ASSUME TypeOK, CallV8LogCallbacks, NEW t \in Targets
  PROVE  Stays(t)
  <1>1. /\ UNCHANGED <<cur, data, wout, fly, gmsg, groute, cmdq, out, ft, fb>> /\ vcb = None
        /\ cbq # <<>> /\ vcb' = Head(cbq) /\ cbq' = Tail(cbq)
    BY DEF CallV8LogCallbacks, V8Idle, bankVars, ioVars, gVars, fVars
  <1>2. AtV8(t)' = AtV8(t)
    <2> DEFINE F == CallbackText(t)
    <2>1. F' = F
      BY <1>1 DEF CallbackText, Content
    <2>2. /\ TextFun(F, Callback, Msgs) /\ cbq \in Seq(Callback) /\ Tail(cbq) \in Seq(Callback)
          /\ Head(cbq) \in Callback
      BY <1>1, TextFuns, HeadTailProperties DEF TypeOK, IOTypes
    <2>3. vcb' # None
      BY <1>1, <2>2, PipelineAssumption
    <2>4. Kind[t] = "callback" => AtV8(t)' = Cat(F[Head(cbq)], Texts(F, Tail(cbq)))
      BY <1>1, <2>1, <2>3 DEF AtV8, Cat
    <2>5. Kind[t] = "callback" => AtV8(t) = Cat(<<>>, Texts(F, cbq))
      BY <1>1 DEF AtV8, Cat
    <2> HIDE DEF F
    <2>6. Texts(F, cbq) = Cat(F[Head(cbq)], Texts(F, Tail(cbq)))
      BY <1>1, <2>2, TextsTail
    <2>7. Texts(F, cbq) \in Text
      BY <2>2, TextsType DEF Text
    <2>8. Kind[t] # "callback" => AtV8(t) = <<>> /\ AtV8(t)' = <<>>
      BY DEF AtV8
    <2> QED BY <2>4, <2>5, <2>6, <2>7, <2>8, TextCat
  <1> QED BY <1>1, <1>2, AllKept, PartsKept, SameWay

\* The callback gets its text; of a TTY it is a copy.
LEMMA DoV8CallbackEffect ==
  ASSUME TypeOK, BankInv, DoV8Callback
  PROVE  Effect
  <1>1. /\ UNCHANGED <<cur, wout, fly, cbq, gmsg, groute, cmdq, ft, fb>> /\ vcb # None
        /\ vcb \in Callback /\ vcb' = None /\ out \in [Targets -> Text] /\ cbq \in Seq(Callback)
    BY DEF DoV8Callback, gVars, fVars, TypeOK, IOTypes, Text
  <1>2. PICK t0 \in Targets : t0 = vcb.t
    BY <1>1 DEF Callback
  <1>3. \A t \in Targets, k \in Kinds : t # t0 \/ k # "inside" => Kept(k, t)
    <2>1. CASE vcb.b = None
      BY <2>1, AllKept DEF DoV8Callback
    <2>2. CASE vcb.b # None
      <3>1. vcb.b \in Banks /\ In("inside", t0, vcb.b) /\ "inside" \in Kinds
        BY <1>1, <1>2, <2>2 DEF Callback, In, CallOf, Kinds
      <3>2. Cleared(t0, vcb.b)
        BY <1>2, <2>2 DEF DoV8Callback
      <3>3. OnlyAt(t0, vcb.b)
        BY <3>1, <3>2, ClearedOnlyAt
      <3> QED BY <3>1, <3>3, KeptElsewhere
    <2> QED BY <2>1, <2>2
  <1>4. ASSUME NEW t \in Targets
        PROVE  /\ Flying(t)' = Flying(t) /\ InHand(t)' = InHand(t) /\ Waiting(t)' = Waiting(t)
               /\ data'[t][cur'[t]] = data[t][cur[t]] /\ BeingWritten(t)' = BeingWritten(t)
               /\ InQueue(t)' = InQueue(t)
    <2>1. Kept("flying", t) /\ Kept("flushing", t) /\ Kept("queued", t) /\ Kept("current", t)
      BY <1>3 DEF Kinds
    <2> QED BY <1>1, <2>1, PartsKept
  <1>5. ASSUME NEW t \in Targets, Kind[t] = "callback"
        PROVE  /\ AtV8(t) = Cat(CallbackText(t)[vcb], AtV8(t)') /\ CallbackText(t)[vcb] \in Text
               /\ AtV8(t)' \in Text
    <2>1. TextFun(CallbackText(t), Callback, Msgs)
      BY TextFuns
    <2>2. Texts(CallbackText(t), cbq) \in Text /\ CallbackText(t)[vcb] \in Text
      <3>1. Texts(CallbackText(t), cbq) \in Text
        BY <1>1, <2>1, TextsType DEF Text
      <3>2. CallbackText(t)[vcb] \in Text
        BY <1>1, <2>1 DEF TextFun, Text
      <3> QED BY <3>1, <3>2
    <2>3. Texts(CallbackText(t)', cbq) = Texts(CallbackText(t), cbq)
      BY <1>3, CallbackTextsKept DEF Kinds
    <2>4. AtV8(t) = Cat(CallbackText(t)[vcb], Texts(CallbackText(t), cbq))
      BY <1>1, <1>5 DEF AtV8, Cat
    <2>5. AtV8(t)' = Cat(<<>>, Texts(CallbackText(t)', cbq))
      BY <1>1, <1>5 DEF AtV8, Cat
    <2> QED BY <2>2, <2>3, <2>4, <2>5, TextCat
  <1>6. CallbackText(t0)[vcb] = Content(t0, vcb) /\ \A t \in Targets : t # t0 => CallbackText(t)[vcb] = <<>>
    BY <1>1, <1>2 DEF CallbackText
  <1>7. /\ \A t \in Targets : t # t0 => out'[t] = out[t]
        /\ out'[t0] = IF Kind[t0] = "callback" THEN Cat(out[t0], Content(t0, vcb)) ELSE out[t0]
    BY <1>1, <1>2 DEF DoV8Callback, Cat
  <1>8. ASSUME NEW t \in Targets, t # t0 \/ Kind[t] # "callback" PROVE Stays(t)
    <2>1. out'[t] = out[t]
      BY <1>7, <1>8
    <2>2. AtV8(t)' = AtV8(t)
      <3>1. CASE Kind[t] # "callback"
        BY <3>1 DEF AtV8
      <3>2. CASE Kind[t] = "callback"
        BY <1>5, <1>6, <1>8, <3>2, TextCat
      <3> QED BY <3>1, <3>2
    <2> QED BY <1>4, <2>1, <2>2, SameWay
  <1>9. CASE Kind[t0] = "callback"
    <2>1. AtV8(t0) = Cat(Content(t0, vcb), AtV8(t0)') /\ Content(t0, vcb) \in Text /\ AtV8(t0)' \in Text
      BY <1>5, <1>6, <1>9
    <2>2. AreTexts(AtV8(t0)', Flying(t0), InHand(t0), Waiting(t0), data[t0][cur[t0]],
                   BeingWritten(t0), InQueue(t0))
      BY <2>1, PartTypes DEF PartsTyped, AreTexts
    <2>3. Way(Cat(Content(t0, vcb), AtV8(t0)'), Flying(t0), InHand(t0), Waiting(t0), data[t0][cur[t0]],
              BeingWritten(t0), InQueue(t0))
          = Cat(Content(t0, vcb), Way(AtV8(t0)', Flying(t0), InHand(t0), Waiting(t0),
                                      data[t0][cur[t0]], BeingWritten(t0), InQueue(t0)))
      BY <2>1, <2>2, WayEnds
    <2>4. WayTo(t0) = Cat(Content(t0, vcb), WayTo(t0)')
      BY <1>4, <2>1, <2>3 DEF WayTo
    <2>5. Delivers(t0)
      BY <1>7, <1>9, <2>1, <2>4 DEF Delivers
    <2> QED BY <1>8, <2>5 DEF Effect, Touches
  <1> QED BY <1>8, <1>9 DEF Effect

-----------------------------------------------------------------------------
(* Producers, and the step as a whole                                       *)

\* log() is over for message m: for its targets it is the last that is on its way, or none
\* of them gets it.
Accepts(m) ==
  /\ m \notin Seen /\ Seen' = Seen \cup {m} /\ UNCHANGED out
  /\ \A t \in Targets :
       WayTo(t)' = IF t \in Range(Route[m]) THEN Cat(WayTo(t), <<m>>) ELSE WayTo(t)
Refuses(m) == /\ m \notin Seen /\ Seen' = Seen \cup {m} /\ UNCHANGED out
              /\ \A t \in Targets : Stays(t)

LEMMA LogStartEffect ==
  ASSUME TypeOK, DeliveryInv, NEW p \in Producers, LogStart(p)
  PROVE  (Seen' = Seen /\ Effect) \/ \E m \in Msgs : Refuses(m)
  <1>1. /\ UNCHANGED <<cur, data, wout, cbq, vcb, fly, gmsg, groute, cmdq, out, ft, fb>>
        /\ ppc[p] = "idle"
    BY DEF LogStart, bankVars, ioVars, gVars, fVars
  <1>2. \A t \in Targets : Stays(t)
    BY <1>1, UnseenStep
  <1>3. PICK m \in unlogged : /\ unlogged' = unlogged \ {m}
                              /\ pmsg' = [pmsg EXCEPT ![p] = m] \/ pmsg' = pmsg
    BY DEF LogStart
  <1>4. /\ m \in Msgs /\ m # None /\ unlogged \subseteq Msgs /\ None \notin Msgs
        /\ pmsg \in [Producers -> Msgs \cup {None}]
    BY <1>3, PipelineAssumption DEF TypeOK, ProducerTypes
  <1>5. pmsg[p] = None /\ m \notin Range(pmsg)
    BY <1>1, <1>3, <1>4 DEF DeliveryInv, MessageOnce, Range
  <1>6. CASE pmsg' = [pmsg EXCEPT ![p] = m]
    <2>1. ASSUME NEW x \in Msgs PROVE x \in Range(pmsg') <=> x \in Range(pmsg) \/ x = m
      <3>1. pmsg'[p] = m /\ \A r \in Producers : r # p => pmsg'[r] = pmsg[r]
        BY <1>4, <1>6
      <3>2. DOMAIN pmsg = Producers /\ DOMAIN pmsg' = Producers
        BY <1>4, <1>6
      <3> QED BY <1>4, <1>5, <3>1, <3>2 DEF Range
    <2>2. Seen' = Seen
      BY <1>3, <1>4, <2>1 DEF Seen
    <2> QED BY <1>2, <2>2 DEF Effect
  <1>7. CASE pmsg' = pmsg
    <2>1. m \notin Seen /\ Seen' = Seen \cup {m}
      BY <1>3, <1>4, <1>5, <1>7 DEF Seen, Range
    <2> QED BY <1>1, <1>2, <1>4, <2>1 DEF Refuses
  <1> QED BY <1>3, <1>6, <1>7

LEMMA LogEnqueueEffect ==
  ASSUME TypeOK, DeliveryInv, NEW p \in Producers, LogEnqueue(p)
  PROVE  \E m \in Msgs : Accepts(m) \/ Refuses(m)
  <1> DEFINE m == pmsg[p]
  <1>1. /\ UNCHANGED <<unlogged, cur, data, wout, cbq, vcb, fly, gmsg, groute, out, ft, fb>>
        /\ pmsg' = [pmsg EXCEPT ![p] = None]
    BY DEF LogEnqueue, bankVars, ioVars, gVars, fVars
  <1>2. /\ m \in Msgs /\ None \notin Msgs /\ pmsg \in [Producers -> Msgs \cup {None}]
        /\ pbuf[p] \in Masters \cup {None}
    BY PipelineAssumption DEF LogEnqueue, TypeOK, ProducerTypes
  <1>3. m \notin unlogged /\ \A r \in Producers : pmsg[r] = m => r = p
    BY <1>2 DEF DeliveryInv, MessageOnce
  <1>4. DOMAIN pmsg = Producers /\ DOMAIN pmsg' = Producers /\ pmsg'[p] = None
        /\ \A r \in Producers : r # p => pmsg'[r] = pmsg[r]
    BY <1>1, <1>2
  <1>5. m \notin Seen /\ Seen' = Seen \cup {m}
    <2>1. m \in Range(pmsg) /\ m \notin Range(pmsg')
      BY <1>2, <1>3, <1>4 DEF Range
    <2>2. ASSUME NEW x \in Msgs, x # m PROVE x \in Range(pmsg') <=> x \in Range(pmsg)
      BY <1>2, <1>4, <2>2 DEF Range
    <2> HIDE DEF m
    <2> QED BY <1>1, <1>2, <1>3, <2>1, <2>2 DEF Seen
  <1>6. CASE UNCHANGED cmdq
    <2>1. \A t \in Targets : Stays(t)
      BY <1>1, <1>6, UnseenStep
    <2> QED BY <1>1, <1>2, <1>5, <2>1 DEF Refuses
  <1>7. CASE cmdq' = Append(cmdq, IF pbuf[p] = None THEN Overflow(pmsg[p])
                                  ELSE NewLog(pmsg[p], pbuf[p]))
    <2> DEFINE c == IF pbuf[p] = None THEN Overflow(m) ELSE NewLog(m, pbuf[p])
    <2>1. c \in Cmd /\ c.m = m
      BY <1>2 DEF Cmd, Overflow, NewLog
    <2>2. cmdq' = Append(cmdq, c) /\ cmdq \in Seq(Cmd)
      BY <1>7 DEF TypeOK, QueueTypes
    <2> HIDE DEF c, m
    <2>3. ASSUME NEW t \in Targets
          PROVE  WayTo(t)' = IF t \in Range(Route[m]) THEN Cat(WayTo(t), <<m>>) ELSE WayTo(t)
      <3> DEFINE x == CommandText(t)[c]
      <3>1. x = IF t \in Range(Route[m]) THEN <<m>> ELSE <<>>
        BY <1>2, <2>1 DEF CommandText
      <3>2. x \in Text
        BY <1>2, <3>1, TextCat DEF Text
      <3>3. InQueue(t)' = Cat(InQueue(t), x)
        <4>1. TextFun(CommandText(t), Cmd, Msgs)
          BY TextFuns
        <4>2. InQueue(t)' = Texts(CommandText(t), Append(cmdq, c))
          BY <2>2 DEF InQueue, CommandText
        <4> QED BY <2>1, <2>2, <4>1, <4>2, TextsAppend DEF InQueue
      <3> HIDE DEF x
      <3>4. /\ AtV8(t)' = AtV8(t) /\ Flying(t)' = Flying(t) /\ InHand(t)' = InHand(t)
            /\ Waiting(t)' = Waiting(t) /\ data'[t][cur'[t]] = data[t][cur[t]]
            /\ BeingWritten(t)' = BeingWritten(t)
        BY <1>1, AllKept, PartsKept
      <3>5. PartsTyped(t)
        BY PartTypes
      <3>6. WayTo(t)' = Cat(WayTo(t), x)
        <4>1. Way(AtV8(t), Flying(t), InHand(t), Waiting(t), data[t][cur[t]], BeingWritten(t),
                  Cat(InQueue(t), x))
              = Cat(Way(AtV8(t), Flying(t), InHand(t), Waiting(t), data[t][cur[t]],
                        BeingWritten(t), InQueue(t)), x)
          BY <3>2, <3>5, WayEnds DEF PartsTyped
        <4> QED BY <3>3, <3>4, <4>1 DEF WayTo
      <3>7. WayTo(t) \in Text
        BY TypedWays DEF WaysAre
      <3> QED BY <3>1, <3>6, <3>7, TextCat
    <2> QED BY <1>1, <1>2, <1>5, <2>3 DEF Accepts
  <1> QED BY <1>6, <1>7 DEF LogEnqueue

\* A step of anyone but a producer leaves what log() has seen alone.
LEMMA SameSeen == ASSUME UNCHANGED prodVars PROVE Seen' = Seen
  BY DEF prodVars, Seen, Range

LEMMA GreaseEffect ==
  ASSUME TypeOK, BankInv, DeliveryInv, InOrder, GreaseStep \/ FlushTimer
  PROVE  Seen' = Seen /\ Effect
  <1>1. UNCHANGED prodVars
    BY DEF GreaseStep, FlushTimer, HandleInternalCmd, Dequeue, EndCmd, WriteStep, WriteTest, WriteRef,
           WriteCopy, WriteRotate, WriteRequest, WriteRefCopy, OverflowFlush, OverflowWrite, FlushStep,
           FlushRotate, FlushTake, FlushSubmit
  <1> SUFFICES Effect
    BY <1>1, SameSeen
  <1>2. CASE FlushStep("grease")
    BY <1>2, FlushRotateEffect, FlushTakeEffect, FlushSubmitEffect DEF FlushStep
  <1>3. CASE WriteStep
    <2>1. CASE WriteRef
      <3>1. UNCHANGED <<cur, data, wout, cbq, vcb, fly, gmsg, groute, cmdq, out, ft, fb>>
        BY <2>1 DEF WriteRef, bankVars, ioVars, fVars
      <3> QED BY <3>1, UnseenStep DEF Effect
    <2> QED BY <1>3, <2>1, WriteTestEffect, CopyEffect, WriteRotateEffect, WriteRequestEffect
            DEF WriteStep
  <1>4. CASE HandleInternalCmd \/ FlushTimer \/ OverflowFlush
    <2>1. UNCHANGED <<cur, data, wout, cbq, vcb, fly, gmsg, groute, cmdq, out, ft, fb>>
      BY <1>4 DEF HandleInternalCmd, FlushTimer, OverflowFlush, BeginFlush, bankVars, ioVars, gVars, fVars
    <2> QED BY <2>1, UnseenStep DEF Effect
  <1>5. CASE Dequeue \/ EndCmd
    BY <1>5, DequeueStays, EndCmdStays DEF Effect
  <1>6. CASE OverflowWrite
    BY <1>6, OverflowWriteEffect
  <1> QED BY <1>2, <1>3, <1>4, <1>5, <1>6 DEF GreaseStep

LEMMA StepEffect ==
  ASSUME TypeOK, BankInv, DeliveryInv, InOrder, [Next]_vars
  PROVE  (Seen' = Seen /\ Effect) \/ \E m \in Msgs : Accepts(m) \/ Refuses(m)
  <1>1. ASSUME NEW p \in Producers, LogSend(p) PROVE Seen' = Seen /\ Effect
    <2>1. /\ UNCHANGED <<cur, data, wout, cbq, vcb, fly, gmsg, groute, cmdq, out, ft, fb>>
          /\ UNCHANGED <<unlogged, pmsg>>
      BY <1>1 DEF LogSend, bankVars, ioVars, gVars, fVars
    <2> QED BY <2>1, UnseenStep DEF Effect, Seen, Range
  <1>2. CASE \E p \in Producers : ProducerStep(p)
    BY <1>1, <1>2, LogStartEffect, LogEnqueueEffect DEF ProducerStep
  <1>3. CASE GreaseStep \/ FlushTimer
    BY <1>3, GreaseEffect
  <1>4. CASE \E t \in Targets : WriteCb(t) \/ PerformWrite(t)
    <2>1. UNCHANGED prodVars
      BY <1>4 DEF WriteCb, PerformWrite
    <2> QED BY <1>4, <2>1, SameSeen, WriteCbStays, PerformWriteEffect DEF Effect
  <1>5. CASE CallV8LogCallbacks \/ DoV8Callback
    <2>1. UNCHANGED prodVars
      BY <1>5 DEF CallV8LogCallbacks, DoV8Callback
    <2> QED BY <1>5, <2>1, SameSeen, CallV8LogCallbacksStays, DoV8CallbackEffect DEF Effect
  <1>6. CASE DisableWrites \/ UNCHANGED vars
    <2>1. /\ UNCHANGED <<cur, data, wout, cbq, vcb, fly, gmsg, groute, cmdq, out, ft, fb>>
          /\ UNCHANGED prodVars
      BY <1>6 DEF DisableWrites, vars, bankVars, ioVars, gVars, fVars
    <2> QED BY <2>1, SameSeen, UnseenStep DEF Effect
  <1>7. ~FlushStep("v8") /\ ~Flush
    BY DEF DeliveryInv, OneFlusher, FlushStep, FlushRotate, FlushTake, FlushSubmit, Flush, InOrder
  <1> QED BY <1>2, <1>3, <1>4, <1>5, <1>6, <1>7 DEF Next, V8Step

-----------------------------------------------------------------------------
(* The refinement                                                           *)

LEMMA DeliveryInvariant ==
  ASSUME InOrder
  PROVE  Spec => [](TypeOK /\ BankInv /\ DeliveryInv)
  <1>1. Init => DeliveryInv
    BY InitDelivery
  <1>2. TypeOK /\ BankInv /\ DeliveryInv /\ [Next]_vars => DeliveryInv'
    BY NextDelivery
  <1> QED BY <1>1, <1>2, BankInvariant, PTL DEF Spec

\* Where a concatenation is cut.
LEMMA CatCut ==
  ASSUME NEW x \in Text, NEW y \in Text
  PROVE  /\ Len(x) \in Nat /\ Len(y) \in Nat /\ Len(Cat(x, y)) = Len(x) + Len(y)
         /\ SubSeq(Cat(x, y), 1, Len(x)) = x
         /\ SubSeq(Cat(x, y), Len(x) + 1, Len(Cat(x, y))) = y
         /\ x # <<>> => Len(x) \in 1..Len(Cat(x, y))
         /\ x = <<>> => Len(x) = 0
  <1> DEFINE z == Cat(x, y)
  <1>1. /\ z \in Text /\ Len(z) = Len(x) + Len(y) /\ Len(x) \in Nat /\ Len(y) \in Nat
        /\ \A i \in 1..Len(x) : z[i] = x[i]
        /\ \A i \in 1..Len(y) : z[Len(x) + i] = y[i]
    <2>1. x \in Seq(Msgs) /\ y \in Seq(Msgs)
      BY DEF Text
    <2> QED BY <2>1, ConcatProperties, LenProperties DEF Cat, Text
  <1> HIDE DEF z
  <1>2. SubSeq(z, 1, Len(x)) = x
    BY <1>1 DEF Text
  <1>3. SubSeq(z, Len(x) + 1, Len(z)) = y
    <2>1. Len(z) - Len(x) = Len(y)
      BY <1>1
    <2> QED BY <1>1, <2>1 DEF Text
  <1>4. x # <<>> => Len(x) > 0
    BY <1>1, EmptySeq DEF Text
  <1> QED BY <1>1, <1>2, <1>3, <1>4 DEF z

\* The mapping, part by part.
Ways == [t \in Targets |-> WayTo(t)]

LEMMA OnTheWayIs == TypeOK => OnTheWay = Ways /\ Ways \in [Targets -> Text]
  BY TypedWays DEF WaysAre, Ways, OnTheWay

LEMMA OnTheWayNext == TypeOK' => OnTheWay' = Ways' /\ Ways' \in [Targets -> Text]
  <1>1. (TypeOK => OnTheWay = Ways /\ Ways \in [Targets -> Text])'
    BY OnTheWayIs, PTL
  <1> QED BY <1>1

LEMMA Mapped ==
  ASSUME TypeOK, TypeOK'
  PROVE  /\ OnTheWay \in [Targets -> Text] /\ OnTheWay' \in [Targets -> Text]
         /\ out \in [Targets -> Text] /\ out' \in [Targets -> Text]
         /\ \A t \in Targets : OnTheWay[t] = WayTo(t) /\ OnTheWay'[t] = WayTo(t)'
  <1>1. out \in [Targets -> Text] /\ out' \in [Targets -> Text]
    BY DEF TypeOK, IOTypes, Text
  <1>2. \A t \in Targets : Ways[t] = WayTo(t) /\ Ways'[t] = WayTo(t)'
    BY DEF Ways
  <1> QED BY <1>1, <1>2, OnTheWayIs, OnTheWayNext

LEMMA AcceptImplements ==
  ASSUME TypeOK, TypeOK', NEW m \in Msgs, Accepts(m)
  PROVE  Delivery!Accept(m)
  <1>1. \A t \in Targets : Delivery!Routed(m, t) <=> t \in Range(Route[m])
    BY DEF Delivery!Routed, Range
  <1>2. ASSUME NEW t \in Targets PROVE Cat(WayTo(t), <<m>>) = Append(OnTheWay[t], m)
    <2>1. OnTheWay[t] \in Seq(Msgs) /\ OnTheWay[t] = WayTo(t)
      BY Mapped DEF Text
    <2> QED BY <2>1, AppendIsConcat DEF Cat
  <1>3. OnTheWay' = [t \in Targets |-> IF Delivery!Routed(m, t) THEN Append(OnTheWay[t], m)
                                       ELSE OnTheWay[t]]
    BY <1>1, <1>2, Mapped DEF Accepts
  <1> QED BY <1>3 DEF Accepts, Delivery!Accept

LEMMA TouchImplements ==
  ASSUME TypeOK, TypeOK', Seen' = Seen, NEW t0 \in Targets, Touches(t0)
  PROVE  UNCHANGED <<Seen, OnTheWay, out>> \/ Delivery!Deliver(t0) \/ Delivery!Lose(t0)
  <1> DEFINE p == OnTheWay[t0]
  <1>1. /\ p \in Text /\ out[t0] \in Text /\ p = WayTo(t0) /\ OnTheWay'[t0] = WayTo(t0)'
        /\ OnTheWay' = [OnTheWay EXCEPT ![t0] = OnTheWay'[t0]]
        /\ out' = [out EXCEPT ![t0] = out'[t0]]
    <2>1. \A t \in Targets : t # t0 => OnTheWay'[t] = OnTheWay[t] /\ out'[t] = out[t]
      BY Mapped DEF Touches, Stays
    <2> QED BY <2>1, Mapped
  <1>2. CASE Stays(t0)
    BY <1>1, <1>2, Mapped DEF Stays
  <1>3. CASE Delivers(t0)
    <2>1. PICK x \in Text : p = Cat(x, OnTheWay'[t0]) /\ out'[t0] = Cat(out[t0], x)
      BY <1>1, <1>3 DEF Delivers
    <2>2. OnTheWay'[t0] \in Text
      BY Mapped
    <2>3. CASE x = <<>>
      <3>1. OnTheWay'[t0] = p /\ out'[t0] = out[t0]
        BY <1>1, <2>1, <2>2, <2>3, TextCat
      <3> QED BY <1>1, <3>1, Mapped
    <2>4. CASE x # <<>>
      <3>1. /\ Len(x) \in 1..Len(p) /\ SubSeq(p, 1, Len(x)) = x
            /\ SubSeq(p, Len(x) + 1, Len(p)) = OnTheWay'[t0]
        <4> DEFINE y == OnTheWay'[t0]
        <4>1. p = Cat(x, y) /\ y \in Text
          BY <2>1, <2>2
        <4> HIDE DEF p, y
        <4>2. /\ Len(x) \in 1..Len(Cat(x, y)) /\ SubSeq(Cat(x, y), 1, Len(x)) = x
              /\ SubSeq(Cat(x, y), Len(x) + 1, Len(Cat(x, y))) = y
          BY <2>4, <4>1, CatCut
        <4>3. y = OnTheWay'[t0]
          BY DEF y
        <4> QED BY <4>1, <4>2, <4>3
      <3>2. /\ out' = [out EXCEPT ![t0] = @ \o SubSeq(OnTheWay[t0], 1, Len(x))]
            /\ OnTheWay' = [OnTheWay EXCEPT ![t0] = SubSeq(@, Len(x) + 1, Len(@))]
        BY <1>1, <2>1, <3>1 DEF Cat
      <3> QED BY <3>1, <3>2 DEF Delivery!Deliver
    <2> QED BY <2>3, <2>4
  <1>4. CASE Loses(t0)
    <2>1. PICK x, y, z \in Text : p = Cat(x, Cat(y, z)) /\ OnTheWay'[t0] = Cat(x, z)
      BY <1>1, <1>4 DEF Loses, Shorter
    <2>2. out' = out
      BY <1>1, <1>4, Mapped DEF Loses
    <2> DEFINE k == Len(x) + Len(y)
    <2>3. Cat(y, z) \in Text /\ Cat(x, y) \in Text /\ p = Cat(Cat(x, y), z)
      BY <2>1, TextCat
    <2>4. Len(x) \in 0..Len(p) /\ k \in Len(x)..Len(p) /\ SubSeq(p, 1, Len(x)) = x
      <3>1. Len(Cat(x, y)) = k /\ Len(x) \in Nat /\ Len(y) \in Nat /\ Len(z) \in Nat
        BY CatCut
      <3>2. Len(p) = k + Len(z)
        <4>1. Len(Cat(Cat(x, y), z)) = Len(Cat(x, y)) + Len(z)
          BY <2>3, CatCut
        <4> QED BY <2>3, <3>1, <4>1
      <3>3. SubSeq(p, 1, Len(x)) = x
        <4>1. SubSeq(Cat(x, Cat(y, z)), 1, Len(x)) = x
          BY <2>3, CatCut
        <4> QED BY <2>1, <4>1
      <3> QED BY <3>1, <3>2, <3>3
    <2>5. SubSeq(p, k + 1, Len(p)) = z
      <3>1. Len(Cat(x, y)) = k
        BY CatCut
      <3>2. SubSeq(Cat(Cat(x, y), z), Len(Cat(x, y)) + 1, Len(Cat(Cat(x, y), z))) = z
        BY <2>3, CatCut
      <3> QED BY <2>3, <3>1, <3>2
    <2> HIDE DEF k
    <2>6. OnTheWay' = [OnTheWay EXCEPT ![t0] = SubSeq(@, 1, Len(x)) \o SubSeq(@, k + 1, Len(@))]
      BY <1>1, <2>1, <2>4, <2>5 DEF Cat
    <2> QED BY <2>2, <2>4, <2>6 DEF Delivery!Lose
  <1> QED BY <1>2, <1>3, <1>4 DEF Touches

LEMMA StepImplements ==
  ASSUME TypeOK, TypeOK', BankInv, DeliveryInv, InOrder, [Next]_vars
  PROVE  [Delivery!Next]_<<Seen, OnTheWay, out>>
  <1>1. ASSUME \A t \in Targets : Stays(t) PROVE UNCHANGED <<OnTheWay, out>>
    BY <1>1, Mapped DEF Stays
  <1>2. CASE Seen' = Seen /\ Effect
    <2>1. CASE \A t \in Targets : Stays(t)
      BY <1>1, <1>2, <2>1
    <2>2. CASE \E t0 \in Targets : Touches(t0)
      BY <1>2, <2>2, TouchImplements DEF Delivery!Next
    <2> QED BY <1>2, <2>1, <2>2 DEF Effect
  <1>3. CASE \E m \in Msgs : Accepts(m)
    BY <1>3, AcceptImplements DEF Delivery!Next
  <1>4. CASE \E m \in Msgs : Refuses(m)
    <2>1. PICK m \in Msgs : Refuses(m)
      BY <1>4
    <2>2. UNCHANGED <<OnTheWay, out>>
      BY <1>1, <2>1 DEF Refuses
    <2>3. Delivery!Refuse(m)
      BY <2>1, <2>2 DEF Refuses, Delivery!Refuse
    <2> QED BY <2>3 DEF Delivery!Next
  <1> QED BY <1>2, <1>3, <1>4, StepEffect

LEMMA InitImplements == ASSUME Init PROVE Delivery!Init
  <1>1. Seen = {}
    BY DEF Init, Seen
  <1>2. ASSUME NEW t \in Targets PROVE OnTheWay[t] = <<>>
    <2>1. WayTo(t) = Way(<<>>, <<>>, <<>>, <<>>, <<>>, <<>>, <<>>)
      <3>1. AtV8(t) = <<>>
        <4>1. vcb = None /\ Texts(CallbackText(t), cbq) = <<>>
          BY TextsEmpty DEF Init
        <4>2. Kind[t] = "callback" => AtV8(t) = Cat(<<>>, <<>>)
          BY <4>1 DEF AtV8, Cat
        <4> QED BY <4>2, TextCat DEF AtV8
      <3>2. Flying(t) = <<>> /\ Waiting(t) = <<>> /\ InQueue(t) = <<>>
        BY TextsEmpty DEF Init, Flying, Waiting, InQueue
      <3>3. InHand(t) = <<>> /\ BeingWritten(t) = <<>>
        BY DEF Init, InHand, BeingWritten, Threads
      <3>4. data[t][cur[t]] = <<>>
        BY PipelineAssumption DEF Init, Banks
      <3> QED BY <3>1, <3>2, <3>3, <3>4 DEF WayTo
    <2>2. WayTo(t) = <<>>
      BY <2>1, TextCat DEF Way
    <2> QED BY <2>2, InitTypes, TypedWays DEF WaysAre
  <1>3. OnTheWay = [t \in Targets |-> <<>>]
    BY <1>2, InitTypes, OnTheWayIs
  <1> QED BY <1>1, <1>3 DEF Init, Delivery!Init

\* Every step of the pipeline accepts, refuses, delivers or loses messages, or changes nothing a
\* user of the log can see (_log, handleInternalCmd, write, rotate, flushAll, uv_write, the JS
\* callbacks): for any number of producers, messages, targets and banks, no target's output
\* repeats, invents or reorders a message.
THEOREM PipelineImplementsDelivery ==
  ASSUME InOrder
  PROVE  Spec => ImplementsDelivery
  <1>1. Init => Delivery!Init
    BY InitImplements
  <1>2. TypeOK /\ BankInv /\ DeliveryInv /\ [Next]_vars => [Delivery!Next]_<<Seen, OnTheWay, out>>
    BY NextTypes, StepImplements
  <1> QED BY <1>1, <1>2, DeliveryInvariant, PTL DEF Spec, ImplementsDelivery, Delivery!Spec

\* When all targets are TTYs, writes are performed in order and none is switched off, an accepted
\* message is lost only when its target has no free bank or the command queue is full (rotate
\* "NO BUFFERS", write "Dropping TARGET_ROTATE_BUFFER").
THEOREM LossesUnderPressure ==
  ASSUME InOrder, Header + Delim <= HeaderRoom, Switchable = {},
         \A t \in Targets : Kind[t] = "tty"
  PROVE  Spec => LossOnlyUnderPressure
  <1>1. Spec => []NoneDisabled
    <2>1. Init => NoneDisabled
      BY DEF Init, NoneDisabled
    <2>2. NoneDisabled /\ [Next]_vars => NoneDisabled'
      BY DEF NoneDisabled, Next, ProducerStep, LogStart, LogEnqueue, LogSend, GreaseStep, HandleInternalCmd, Dequeue,
             EndCmd, WriteStep, WriteTest, WriteRef, WriteCopy, WriteRotate, WriteRequest, WriteRefCopy,
             OverflowFlush, OverflowWrite, FlushStep, FlushRotate, FlushTake, FlushSubmit, FlushTimer,
             WriteCb, PerformWrite, V8Step, CallV8LogCallbacks, DoV8Callback, Flush, DisableWrites, vars
    <2> QED BY <2>1, <2>2, PTL DEF Spec
  <1>2. Spec => []RotateNotSkipped
    BY WriteRotatesSomething DEF InOrder
  <1>3. ASSUME TypeOK, BankInv, DeliveryInv, NoneDisabled, RotateNotSkipped, WriteOutHasRoom,
               [Next]_vars, NEW t \in Targets,
               Len(OnTheWay'[t]) + Len(out'[t]) < Len(OnTheWay[t]) + Len(out[t])
        PROVE  avail[t] = {} \/ ~QueueHasRoom
    <2>1. TypeOK'
      BY <1>3, NextTypes
    <2>2. Calm
      BY <1>3 DEF Calm
    <2>3. /\ OnTheWay[t] = WayTo(t) /\ OnTheWay'[t] = WayTo(t)' /\ OnTheWay[t] \in Text
          /\ OnTheWay'[t] \in Text /\ out[t] \in Text
      BY <1>3, <2>1, Mapped
    <2>4. ~Stays(t)
      BY <1>3, <2>3 DEF Stays
    <2>5. ~Delivers(t)
      <3> SUFFICES ASSUME Delivers(t) PROVE FALSE
        OBVIOUS
      <3>1. PICK x \in Text : OnTheWay[t] = Cat(x, OnTheWay'[t]) /\ out'[t] = Cat(out[t], x)
        BY <2>3 DEF Delivers
      <3>2. /\ Len(Cat(x, OnTheWay'[t])) = Len(x) + Len(OnTheWay'[t])
            /\ Len(x) \in Nat /\ Len(OnTheWay'[t]) \in Nat
        BY <2>3, CatCut
      <3>3. Len(Cat(out[t], x)) = Len(out[t]) + Len(x) /\ Len(out[t]) \in Nat
        BY <2>3, CatCut
      <3>4. Len(OnTheWay[t]) = Len(x) + Len(OnTheWay'[t]) /\ Len(out'[t]) = Len(out[t]) + Len(x)
        BY <3>1, <3>2, <3>3
      <3>5. Len(OnTheWay'[t]) + (Len(out[t]) + Len(x)) < (Len(x) + Len(OnTheWay'[t])) + Len(out[t])
        BY <1>3, <3>4
      <3>6. \A a, b, c \in Nat : ~(a + (b + c) < (c + a) + b)
        OBVIOUS
      <3> QED BY <3>2, <3>3, <3>5, <3>6
    <2>6. ASSUME NEW m \in Msgs PROVE ~Accepts(m) /\ ~Refuses(m)
      <3>1. <<m>> \in Text /\ Len(<<m>>) = 1
        BY DEF Text
      <3>2. Len(Cat(OnTheWay[t], <<m>>)) = Len(OnTheWay[t]) + 1 /\ Len(OnTheWay[t]) \in Nat
            /\ Len(out[t]) \in Nat
        BY <2>3, <3>1, CatCut
      <3>3. ~Accepts(m)
        BY <1>3, <2>3, <3>2 DEF Accepts
      <3> QED BY <2>4, <3>3 DEF Refuses
    <2>7. PICK t0 \in Targets : Touches(t0)
      BY <1>3, <2>4, <2>6, StepEffect DEF Effect
    <2> QED BY <2>2, <2>4, <2>5, <2>7 DEF Touches, Squeezed
  <1>4. TypeOK /\ BankInv /\ DeliveryInv /\ NoneDisabled /\ RotateNotSkipped /\ WriteOutHasRoom
          /\ [Next]_vars
        => [\A t \in Targets :
              Len(OnTheWay'[t]) + Len(out'[t]) < Len(OnTheWay[t]) + Len(out[t])
                => avail[t] = {} \/ ~QueueHasRoom]_vars
    BY <1>3
  <1> QED BY <1>1, <1>2, <1>4, DeliveryInvariant, RotateFindsRoom, PTL DEF Spec, LossOnlyUnderPressure
=============================================================================
