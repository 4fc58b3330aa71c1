-------------------------- MODULE UrlParserProofs --------------------------
(***************************************************************************)
(* Proofs about UrlParser, for texts of every length.                      *)
(***************************************************************************)
EXTENDS UrlParser, SequenceTheorems, WellFoundedInduction, TLAPS

Symbols == Chars \cup {"/", "skipped"}   \* all that a text is made of

-----------------------------------------------------------------------------
(* What a browser writes.  The text is defined by recursion on the number  *)
(* of parameters; Joins is what that definition stands for, and induction  *)
(* is the fact that every set of numbers has a least element.              *)
Joins(q, m, g) ==
    g = [k \in 1..m |-> IF k = 1 THEN Written(q[1])
                        ELSE g[k - 1] \o <<"&">> \o Written(q[k])]

(* Every set of numbers has a least one. *)
LEMMA Least ==
    ASSUME NEW S, S \subseteq Nat, S # {}
    PROVE  \E m \in S : \A k \in S : m <= k
<1> DEFINE Less == {pair \in Nat \X Nat : pair[1] < pair[2]}
<1>1. IsWellFoundedOn(OpToRel(<, Nat), Nat)
  BY NatLessThanWellFounded
<1>2. OpToRel(<, Nat) = Less
  BY DEF OpToRel
<1>3. IsWellFoundedOn(Less, Nat)
  BY <1>1, <1>2
<1>4. \E x \in S : \A y \in S : <<y, x>> \notin Less
  <2> HIDE DEF Less
  <2> QED
    BY <1>3, WFMin
<1>5. PICK x \in S : \A y \in S : <<y, x>> \notin Less
  BY <1>4
<1>6. ASSUME NEW y \in S PROVE x <= y
  <2>1. x \in Nat /\ y \in Nat
    OBVIOUS
  <2>2. ~(y < x)
    BY <1>5, <2>1
  <2> QED
    BY <2>1, <2>2
<1> QED
  BY <1>6

(* A set with 0 in it, and with m if m - 1 is in it, has every number up to n. *)
LEMMA Induction ==
    ASSUME NEW S, NEW n \in Nat, 0 \in S, \A m \in 1..n : m - 1 \in S => m \in S
    PROVE  \A m \in 0..n : m \in S
<1> DEFINE Others == (0..n) \ S
<1> SUFFICES ASSUME Others # {} PROVE FALSE
  OBVIOUS
<1>1. PICK m \in Others : \A k \in Others : m <= k
  <2>1. Others \subseteq Nat
    OBVIOUS
  <2> HIDE DEF Others
  <2> QED
    BY <2>1, Least
<1>2. m \in 0..n /\ m \notin S /\ m # 0
  BY <1>1
<1>3. m \in 1..n
  BY <1>2
<1>4. m - 1 \notin Others
  <2>1. m \in Nat /\ ~(m <= m - 1)
    BY <1>3
  <2> QED
    BY <1>1, <2>1
<1>5. m - 1 \in S
  BY <1>3, <1>4
<1> QED
  BY <1>2, <1>3, <1>5

(* There is a function as the recursion says, ... *)
LEMMA JoinsExists ==
    ASSUME NEW q, NEW n \in Nat
    PROVE  \E g : Joins(q, n, g)
<1> DEFINE S == {m \in 0..n : \E g : Joins(q, m, g)}
<1>1. 0 \in S
  <2> DEFINE none == [k \in 1..0 |-> Written(q[1])]
  <2>1. Joins(q, 0, none)
    BY DEF Joins
  <2> HIDE DEF none
  <2> QED
    BY <2>1
<1>2. ASSUME NEW m \in 1..n, m - 1 \in S
      PROVE  m \in S
  <2>1. PICK g : Joins(q, m - 1, g)
    BY <1>2
  <2> DEFINE Def(h, k) == IF k = 1 THEN Written(q[1])
                          ELSE h[k - 1] \o <<"&">> \o Written(q[k])
             h == [k \in 1..m |-> IF k < m THEN g[k] ELSE Def(g, k)]
  <2>2. \A k \in 1..m - 1 : g[k] = Def(g, k)
    BY <2>1 DEF Joins
  <2>3. \A k \in 1..m : h[k] = Def(g, k)
    <3> HIDE DEF Def
    <3> QED
      BY <2>2
  <2>4. ASSUME NEW k \in 1..m
        PROVE  h[k] = Def(h, k)
    <3>1. CASE k = 1
      BY <2>3, <3>1
    <3>2. CASE k # 1
      <4>1. k - 1 \in 1..m /\ k - 1 < m
        BY <3>2
      <4>2. h[k - 1] = g[k - 1]
        BY <4>1
      <4>3. Def(h, k) = Def(g, k)
        <5> HIDE DEF h
        <5> QED
          BY <3>2, <4>2
      <4> QED
        BY <2>3, <4>3
    <3> QED
      BY <3>1, <3>2
  <2>5. h = [k \in 1..m |-> Def(h, k)]
    <3>1. h = [k \in 1..m |-> h[k]]
      OBVIOUS
    <3> HIDE DEF h, Def
    <3> QED
      BY <2>4, <3>1
  <2>6. Joins(q, m, h)
    BY <2>5, Zenon DEF Joins
  <2> HIDE DEF h
  <2> QED
    BY <2>6
<1> HIDE DEF S
<1>3. n \in S
  BY <1>1, <1>2, Induction
<1> QED
  BY <1>3 DEF S

(* ... so Joined is one. *)
LEMMA JoinedJoins ==
    ASSUME NEW q, Len(q) \in Nat
    PROVE  Joins(q, Len(q), Joined(q))
<1>1. Joined(q) = CHOOSE g : Joins(q, Len(q), g)
  BY Zenon DEF Joined, Joins
<1>2. \E g : Joins(q, Len(q), g)
  BY JoinsExists
<1> QED
  BY <1>1, <1>2, Zenon

Signs == Letters \cup {"=", "&"}     \* what the parameters are written with
Name(q, k) == q[k].name
Value(q, k) == q[k].value

(* A query is a sequence of pairs of texts without marks. *)
LEMMA QueryFacts ==
    ASSUME NEW q \in Queries
    PROVE  /\ Len(q) \in Nat /\ Len(q) >= 1 /\ DOMAIN q = 1..Len(q)
           /\ \A k \in 1..Len(q) :
                 /\ Name(q, k) \in Seq(Letters) /\ Value(q, k) \in Seq(Letters)
                 /\ Name(q, k) \in Seq(Signs) /\ Value(q, k) \in Seq(Signs)
                 /\ Len(Name(q, k)) \in Nat /\ Len(Value(q, k)) \in Nat
<1>1. PICK n \in 1..MaxPairs : q \in [1..n -> Pairs]
  BY DEF Queries
<1>2. n \in Nat /\ n >= 1
  BY NumbersAssumption
<1>3. q \in Seq(Pairs)
  BY <1>1, <1>2
<1>4. Len(q) = n /\ DOMAIN q = 1..n
  BY <1>1, <1>2, <1>3, LenProperties
<1>5. ASSUME NEW k \in 1..n
      PROVE  /\ Name(q, k) \in Seq(Letters) /\ Value(q, k) \in Seq(Letters)
             /\ Name(q, k) \in Seq(Signs) /\ Value(q, k) \in Seq(Signs)
             /\ Len(Name(q, k)) \in Nat /\ Len(Value(q, k)) \in Nat
  <2>1. q[k] \in Pairs
    BY <1>1
  <2>2. Name(q, k) \in Seq(Letters) /\ Value(q, k) \in Seq(Letters)
    BY <2>1, NamesAssumption DEF Pairs, Name, Value
  <2>3. Name(q, k) \in Seq(Signs) /\ Value(q, k) \in Seq(Signs)
    BY <2>2, SeqMonotonic DEF Signs
  <2> QED
    BY <2>2, <2>3, LenProperties
<1> QED
  BY <1>2, <1>4, <1>5

(* What is joined has the elements of the one and then those of the other. *)
LEMMA Concat ==
    ASSUME NEW S, NEW s \in Seq(S), NEW t \in Seq(S)
    PROVE  /\ s \o t \in Seq(S) /\ Len(s \o t) = Len(s) + Len(t)
           /\ Len(s) \in Nat /\ Len(t) \in Nat
           /\ \A i \in 1..Len(s) : (s \o t)[i] = s[i]
           /\ \A i \in 1..Len(t) : (s \o t)[Len(s) + i] = t[i]
<1>1. Len(s) \in Nat /\ Len(t) \in Nat
  BY LenProperties
<1>2. /\ s \o t \in Seq(S) /\ Len(s \o t) = Len(s) + Len(t)
      /\ \A i \in 1..Len(s) + Len(t) :
            (s \o t)[i] = IF i <= Len(s) THEN s[i] ELSE t[i - Len(s)]
  BY ConcatProperties
<1>3. \A i \in 1..Len(s) : (s \o t)[i] = s[i]
  BY <1>1, <1>2
<1>4. ASSUME NEW i \in 1..Len(t)
      PROVE  (s \o t)[Len(s) + i] = t[i]
  <2>1. /\ Len(s) + i \in 1..Len(s) + Len(t) /\ ~(Len(s) + i <= Len(s))
        /\ Len(s) + i - Len(s) = i
    BY <1>1
  <2> QED
    BY <1>2, <2>1
<1> QED
  BY <1>1, <1>2, <1>3, <1>4

(* What is cut out has the length and the elements asked for. *)
LEMMA Cut ==
    ASSUME NEW S, NEW t, NEW from \in Nat, NEW n \in Nat,
           \A i \in from + 1..from + n : t[i] \in S
    PROVE  LET cut == SubSeq(t, from + 1, from + n)
           IN  /\ cut \in Seq(S) /\ Len(cut) = n
               /\ \A i \in 1..n : cut[i] = t[from + i]
<1> DEFINE cut == SubSeq(t, from + 1, from + n)
<1>1. /\ cut \in Seq(S)
      /\ Len(cut) = IF from + 1 <= from + n THEN from + n - (from + 1) + 1 ELSE 0
      /\ \A i \in 1..from + n - (from + 1) + 1 : cut[i] = t[from + 1 + i - 1]
  <2>1. from + 1 \in Int /\ from + n \in Int
    OBVIOUS
  <2> HIDE DEF cut
  <2> QED
    BY <2>1, SubSeqProperties DEF cut
<1> HIDE DEF cut
<1>2. Len(cut) = n
  BY <1>1
<1>3. ASSUME NEW i \in 1..n
      PROVE  cut[i] = t[from + i]
  <2>1. i \in 1..from + n - (from + 1) + 1 /\ from + 1 + i - 1 = from + i
    OBVIOUS
  <2> QED
    BY <1>1, <2>1
<1> QED
  BY <1>1, <1>2, <1>3 DEF cut

(* One parameter as it is written. *)
LEMMA WrittenIs ==
    ASSUME NEW q \in Queries, NEW k \in 1..Len(q)
    PROVE  LET w == Written(q[k])
               n == Len(Name(q, k))
               v == Len(Value(q, k))
           IN  /\ w \in Seq(Signs) /\ Len(w) = n + 1 + v
               /\ \A i \in 1..n : w[i] = Name(q, k)[i]
               /\ w[n + 1] = "="
               /\ \A i \in 1..v : w[n + 1 + i] = Value(q, k)[i]
<1> DEFINE n == Len(Name(q, k))
           v == Len(Value(q, k))
           named == Name(q, k) \o <<"=">>
           w == named \o Value(q, k)
<1>1. /\ Name(q, k) \in Seq(Signs) /\ Value(q, k) \in Seq(Signs) /\ n \in Nat /\ v \in Nat
  BY QueryFacts
<1>2. <<"=">> \in Seq(Signs) /\ Len(<<"=">>) = 1 /\ <<"=">>[1] = "="
  BY DEF Signs
<1>3. /\ named \in Seq(Signs) /\ Len(named) = n + 1
      /\ \A i \in 1..n : named[i] = Name(q, k)[i]
      /\ \A i \in 1..1 : named[n + i] = <<"=">>[i]
  BY <1>1, <1>2, Concat
<1>4. named[n + 1] = "="
  BY <1>2, <1>3
<1>5. Written(q[k]) = w
  BY DEF Written, Name, Value
<1> HIDE DEF named
<1>6. /\ w \in Seq(Signs) /\ Len(w) = n + 1 + v
      /\ \A i \in 1..n + 1 : w[i] = named[i]
      /\ \A i \in 1..v : w[n + 1 + i] = Value(q, k)[i]
  <2>1. /\ w \in Seq(Signs) /\ Len(w) = Len(named) + v
        /\ \A i \in 1..Len(named) : w[i] = named[i]
        /\ \A i \in 1..v : w[Len(named) + i] = Value(q, k)[i]
    <3>1. named \in Seq(Signs) /\ Value(q, k) \in Seq(Signs)
      BY <1>1, <1>3
    <3> QED
      BY <3>1, Concat
  <2> HIDE DEF w, n, v
  <2> QED
    BY <1>3, <2>1
<1> HIDE DEF w, n, v
<1>7. (\A i \in 1..n : w[i] = Name(q, k)[i]) /\ w[n + 1] = "="
  BY <1>1, <1>3, <1>4, <1>6
<1> QED
  BY <1>5, <1>6, <1>7 DEF n, v

(* How long the first k parameters are, and where the k-th begins: behind  *)
(* those before it and their ampersand.                                    *)
Begins(q, k) == IF k = 1 THEN 0 ELSE Len(Joined(q)[k - 1]) + 1

(* It begins behind an ampersand. *)
LEMMA BeginsBehind ==
    ASSUME NEW q, NEW k \in Nat, k >= 1
    PROVE  Begins(q, k + 1) = Len(Joined(q)[k]) + 1
<1> DEFINE m == k + 1
<1>1. m # 1 /\ m - 1 = k
  OBVIOUS
<1> HIDE DEF m
<1>2. Begins(q, m) = Len(Joined(q)[m - 1]) + 1
  BY <1>1 DEF Begins
<1> QED
  BY <1>1, <1>2, Zenon DEF m

(* What the first k parameters make ends with the k-th.                    *)
EndsWith(q, k, s) ==
    LET b == Begins(q, k)
        n == Len(Name(q, k))
        v == Len(Value(q, k))
    IN  /\ Len(s) = b + n + 1 + v
        /\ \A i \in 1..n : s[b + i] = Name(q, k)[i]
        /\ s[b + n + 1] = "="
        /\ \A i \in 1..v : s[b + n + 1 + i] = Value(q, k)[i]

(* One parameter more: what was there, an ampersand, and the parameter.    *)
LEMMA OneMore ==
    ASSUME NEW q \in Queries, NEW k \in 1..Len(q), k # 1, Joined(q)[k - 1] \in Seq(Signs)
    PROVE  /\ Joined(q)[k] \in Seq(Signs)
           /\ EndsWith(q, k, Joined(q)[k])
           /\ \A i \in 1..Len(Joined(q)[k - 1]) : Joined(q)[k][i] = Joined(q)[k - 1][i]
           /\ Joined(q)[k][Begins(q, k)] = "&"
           /\ Len(Joined(q)[k - 1]) \in Nat
<1> DEFINE s == Joined(q)[k - 1]
           w == Written(q[k])
           n == Len(Name(q, k))
           v == Len(Value(q, k))
           b == Len(s) + 1
           more == s \o <<"&">>
<1>1. Joined(q)[k] = more \o w
  <2>1. Joins(q, Len(q), Joined(q))
    BY QueryFacts, JoinedJoins
  <2> QED
    BY <2>1 DEF Joins
<1>2. <<"&">> \in Seq(Signs) /\ Len(<<"&">>) = 1 /\ <<"&">>[1] = "&"
  BY DEF Signs
<1>3. s \in Seq(Signs) /\ Len(s) \in Nat
  BY LenProperties
<1>4. /\ w \in Seq(Signs) /\ Len(w) = n + 1 + v
      /\ \A i \in 1..n : w[i] = Name(q, k)[i]
      /\ w[n + 1] = "="
      /\ \A i \in 1..v : w[n + 1 + i] = Value(q, k)[i]
  BY WrittenIs
<1>5. n \in Nat /\ v \in Nat
  BY QueryFacts
<1>6. Begins(q, k) = b
  BY DEF Begins
<1> HIDE DEF s, w, n, v
<1>7. /\ more \in Seq(Signs) /\ Len(more) = b
      /\ \A i \in 1..Len(s) : more[i] = s[i]
      /\ \A i \in 1..1 : more[Len(s) + i] = <<"&">>[i]
  BY <1>2, <1>3, Concat
<1>8. more[b] = "&"
  BY <1>2, <1>7
<1> HIDE DEF more
<1> DEFINE all == more \o w
<1>9. /\ all \in Seq(Signs) /\ Len(all) = b + Len(w)
      /\ \A i \in 1..b : all[i] = more[i]
      /\ \A i \in 1..Len(w) : all[b + i] = w[i]
  <2>1. /\ all \in Seq(Signs) /\ Len(all) = Len(more) + Len(w)
        /\ \A i \in 1..Len(more) : all[i] = more[i]
        /\ \A i \in 1..Len(w) : all[Len(more) + i] = w[i]
    <3>1. more \in Seq(Signs) /\ w \in Seq(Signs)
      BY <1>4, <1>7
    <3> QED
      BY <3>1, Concat
  <2> HIDE DEF all, b
  <2> QED
    BY <1>7, <2>1
<1> HIDE DEF all
<1>10. Len(all) = b + n + 1 + v
  BY <1>3, <1>4, <1>5, <1>9
<1>11. (\A i \in 1..Len(s) : all[i] = s[i]) /\ all[b] = "&"
  BY <1>3, <1>7, <1>8, <1>9
<1>12. ASSUME NEW i \in 1..n
       PROVE  all[b + i] = Name(q, k)[i]
  <2>1. i \in 1..Len(w)
    BY <1>4, <1>5
  <2> QED
    BY <1>4, <1>9, <2>1
<1>13. all[b + n + 1] = "="
  <2>1. n + 1 \in 1..Len(w) /\ b + (n + 1) = b + n + 1
    BY <1>3, <1>4, <1>5
  <2> QED
    BY <1>4, <1>9, <2>1
<1>14. ASSUME NEW i \in 1..v
       PROVE  all[b + n + 1 + i] = Value(q, k)[i]
  <2>1. n + 1 + i \in 1..Len(w) /\ b + (n + 1 + i) = b + n + 1 + i
    BY <1>3, <1>4, <1>5
  <2> QED
    BY <1>4, <1>9, <2>1
<1>15. EndsWith(q, k, all)
  BY <1>6, <1>10, <1>12, <1>13, <1>14 DEF EndsWith, n, v
<1> QED
  BY <1>1, <1>3, <1>6, <1>9, <1>11, <1>15 DEF all, s, w

(* The first parameter alone. *)
LEMMA FirstOne ==
    ASSUME NEW q \in Queries
    PROVE  Joined(q)[1] \in Seq(Signs) /\ EndsWith(q, 1, Joined(q)[1])
<1>1. Joined(q)[1] = Written(q[1]) /\ 1 \in 1..Len(q)
  <2>1. Joins(q, Len(q), Joined(q)) /\ Len(q) \in Nat /\ Len(q) >= 1
    BY QueryFacts, JoinedJoins
  <2> QED
    BY <2>1 DEF Joins
<1> DEFINE w == Written(q[1])
           n == Len(Name(q, 1))
           v == Len(Value(q, 1))
<1>2. /\ w \in Seq(Signs) /\ Len(w) = n + 1 + v
      /\ \A i \in 1..n : w[i] = Name(q, 1)[i]
      /\ w[n + 1] = "="
      /\ \A i \in 1..v : w[n + 1 + i] = Value(q, 1)[i]
  BY <1>1, WrittenIs
<1>3. n \in Nat /\ v \in Nat /\ Begins(q, 1) = 0
  BY <1>1, QueryFacts DEF Begins
<1> HIDE DEF w, n, v
<1>4. /\ Len(w) = 0 + n + 1 + v
      /\ \A i \in 1..n : w[0 + i] = Name(q, 1)[i]
      /\ w[0 + n + 1] = "="
      /\ \A i \in 1..v : w[0 + n + 1 + i] = Value(q, 1)[i]
  BY <1>2, <1>3
<1> QED
  BY <1>1, <1>2, <1>3, <1>4 DEF EndsWith, w, n, v

(* So what is joined is a text, whatever the number of parameters, ...     *)
LEMMA JoinedIs ==
    ASSUME NEW q \in Queries, NEW k \in 1..Len(q)
    PROVE  /\ Joined(q)[k] \in Seq(Signs) /\ Len(Joined(q)[k]) \in Nat
           /\ EndsWith(q, k, Joined(q)[k]) /\ Begins(q, k) \in Nat
<1> DEFINE S == {0} \cup {m \in 1..Len(q) : Joined(q)[m] \in Seq(Signs)}
<1>1. Len(q) \in Nat
  BY QueryFacts
<1>2. ASSUME NEW m \in 1..Len(q), m - 1 \in S
      PROVE  m \in S
  <2>1. CASE m = 1
    BY <2>1, FirstOne
  <2>2. CASE m # 1
    BY <1>2, <2>2, OneMore
  <2> QED
    BY <2>1, <2>2
<1>3. \A m \in 1..Len(q) : Joined(q)[m] \in Seq(Signs)
  <2>1. \A m \in 0..Len(q) : m \in S
    <3> HIDE DEF S
    <3>1. 0 \in S
      BY DEF S
    <3> QED
      BY <1>1, <1>2, <3>1, Induction
  <2> QED
    BY <2>1
<1>4. k # 1 => k - 1 \in 1..Len(q)
  OBVIOUS
<1>5. EndsWith(q, k, Joined(q)[k])
  BY <1>3, <1>4, FirstOne, OneMore
<1>6. Begins(q, k) \in Nat
  BY <1>3, <1>4, LenProperties DEF Begins
<1> QED
  BY <1>3, <1>5, <1>6, LenProperties

(* ... and begins with what fewer of the parameters make. *)
LEMMA JoinedBegins ==
    ASSUME NEW q \in Queries, NEW k \in 1..Len(q), NEW m \in k..Len(q)
    PROVE  /\ Len(Joined(q)[k]) <= Len(Joined(q)[m])
           /\ \A i \in 1..Len(Joined(q)[k]) : Joined(q)[m][i] = Joined(q)[k][i]
<1> DEFINE Prefix(l) ==
              /\ Len(Joined(q)[k]) <= Len(Joined(q)[l])
              /\ \A i \in 1..Len(Joined(q)[k]) : Joined(q)[l][i] = Joined(q)[k][i]
           S == {l \in 0..Len(q) : l < k} \cup {l \in k..Len(q) : Prefix(l)}
<1>1. Len(q) \in Nat /\ k \in Nat /\ k >= 1
  BY QueryFacts
<1>2. 0 \in S
  BY <1>1
<1>3. ASSUME NEW l \in 1..Len(q), l - 1 \in S
      PROVE  l \in S
  <2>1. CASE l < k
    BY <1>1, <2>1
  <2>2. CASE l = k
    <3>1. Len(Joined(q)[k]) \in Nat
      BY JoinedIs
    <3> QED
      BY <1>1, <2>2, <3>1
  <2>3. CASE l > k
    <3>1. l - 1 \in k..Len(q) /\ l - 1 \in 1..Len(q) /\ l # 1 /\ ~(l - 1 < k)
      BY <1>1, <2>3
    <3>2. Prefix(l - 1)
      BY <1>3, <3>1
    <3>3. Joined(q)[l - 1] \in Seq(Signs) /\ Len(Joined(q)[k]) \in Nat
      BY <3>1, JoinedIs
    <3>4. /\ \A i \in 1..Len(Joined(q)[l - 1]) : Joined(q)[l][i] = Joined(q)[l - 1][i]
          /\ Len(Joined(q)[l - 1]) \in Nat
          /\ EndsWith(q, l, Joined(q)[l])
      BY <3>1, <3>3, OneMore
    <3>5. Len(Joined(q)[l]) = Len(Joined(q)[l - 1]) + 1 + Len(Name(q, l)) + 1 + Len(Value(q, l))
      BY <3>1, <3>4 DEF EndsWith, Begins
    <3>6. Len(Joined(q)[l - 1]) <= Len(Joined(q)[l])
      <4> DEFINE before == Len(Joined(q)[l - 1])  n == Len(Name(q, l))  v == Len(Value(q, l))
      <4>1. before \in Nat /\ n \in Nat /\ v \in Nat
        BY <3>4, QueryFacts
      <4>2. Len(Joined(q)[l]) = before + 1 + n + 1 + v
        BY <3>5
      <4> HIDE DEF before, n, v
      <4>3. before <= Len(Joined(q)[l])
        BY <4>1, <4>2
      <4> QED
        BY <4>3 DEF before
    <3>7. Len(Joined(q)[l]) \in Nat
      BY JoinedIs
    <3>8. Len(Joined(q)[k]) <= Len(Joined(q)[l])
      BY <3>2, <3>3, <3>4, <3>6, <3>7
    <3>9. ASSUME NEW i \in 1..Len(Joined(q)[k])
          PROVE  Joined(q)[l][i] = Joined(q)[k][i]
      <4>1. i \in 1..Len(Joined(q)[l - 1])
        BY <3>2, <3>3, <3>4
      <4> QED
        BY <3>2, <3>4, <4>1
    <3> QED
      BY <2>3, <3>8, <3>9
  <2> QED
    BY <1>1, <2>1, <2>2, <2>3
<1>4. \A l \in 0..Len(q) : l \in S
  <2> HIDE DEF S
  <2> QED
    BY <1>1, <1>2, <1>3, Induction
<1>5. Prefix(m)
  <2>1. m \in 0..Len(q) /\ ~(m < k)
    BY <1>1
  <2> HIDE DEF Prefix
  <2> QED
    BY <1>4, <2>1
<1> QED
  BY <1>5

-----------------------------------------------------------------------------
(* Where the parameters of a well-formed text are: the k-th from From(k)   *)
(* on, with its equality sign at SignOf(k) and what ends it at EndOf(k).   *)
WellFormed == query \in Queries /\ start \in Nat /\ text = Skipped(start) \o TextOf(query)
Places == 1..Len(query)
From(k) == start + 2 + Begins(query, k)
SignOf(k) == From(k) + Len(Name(query, k))
EndOf(k) == SignOf(k) + 1 + Len(Value(query, k))

Slash == <<"/", "?">>
Blank == <<" ">>

(* What is written around the parameters. *)
LEMMA Around ==
    /\ Slash \in Seq(Symbols) /\ Len(Slash) = 2 /\ Slash[1] = "/" /\ Slash[2] = "?"
    /\ Blank \in Seq(Symbols) /\ Len(Blank) = 1 /\ Blank[1] = " "
BY DEF Slash, Blank, Symbols, Chars

(* The text is what is skipped, the target's beginning, and the parameters *)
(* joined.                                                                 *)
LEMMA TextIs ==
    ASSUME WellFormed
    PROVE  LET all == Joined(query)[Len(query)]
           IN  /\ text \in Seq(Symbols) /\ Size = start + 2 + Len(all) + 1
               /\ Len(all) \in Nat
               /\ \A j \in 0..start - 1 : At(j) = "skipped"
               /\ At(start) = "/" /\ At(start + 1) = "?"
               /\ \A i \in 1..Len(all) : At(start + 2 + i - 1) = all[i]
               /\ At(start + 2 + Len(all)) = " "
<1> DEFINE all == Joined(query)[Len(query)]
           begun == Slash \o all
           target == begun \o Blank
           skipped == Skipped(start)
<1>1. all \in Seq(Symbols) /\ Len(all) \in Nat
  <2>1. Len(query) \in 1..Len(query)
    BY QueryFacts DEF WellFormed
  <2>2. all \in Seq(Signs) /\ Len(all) \in Nat
    BY <2>1, JoinedIs DEF WellFormed
  <2>3. Signs \subseteq Symbols
    BY DEF Signs, Symbols, Chars
  <2> HIDE DEF all
  <2> QED
    BY <2>2, <2>3, SeqMonotonic
<1>2. text = skipped \o target /\ start \in Nat
  BY DEF WellFormed, TextOf, Slash, Blank
<1>3. /\ skipped \in Seq(Symbols) /\ Len(skipped) = start
      /\ \A i \in 1..start : skipped[i] = "skipped"
  BY <1>2 DEF Skipped, Symbols
<1>4. /\ Slash \in Seq(Symbols) /\ Len(Slash) = 2
      /\ Blank \in Seq(Symbols) /\ Len(Blank) = 1
  BY Around
<1>15. Slash[1] = "/" /\ Slash[2] = "?" /\ Blank[1] = " "
  BY Around, Zenon
<1> HIDE DEF all, skipped
<1>5. /\ begun \in Seq(Symbols) /\ Len(begun) = 2 + Len(all)
      /\ begun[1] = "/" /\ begun[2] = "?"
      /\ \A i \in 1..Len(all) : begun[2 + i] = all[i]
  <2>1. /\ begun \in Seq(Symbols) /\ Len(begun) = Len(Slash) + Len(all)
        /\ \A i \in 1..Len(Slash) : begun[i] = Slash[i]
        /\ \A i \in 1..Len(all) : begun[Len(Slash) + i] = all[i]
    <3>1. Slash \in Seq(Symbols) /\ all \in Seq(Symbols)
      BY <1>1, <1>4
    <3> QED
      BY <3>1, Concat
  <2> HIDE DEF begun
  <2>2. 1 \in 1..Len(Slash) /\ 2 \in 1..Len(Slash)
    BY <1>4
  <2> QED
    BY <1>4, <1>15, <2>1, <2>2
<1> HIDE DEF begun
<1>6. /\ target \in Seq(Symbols) /\ Len(target) = 2 + Len(all) + 1
      /\ \A i \in 1..2 + Len(all) : target[i] = begun[i]
      /\ target[2 + Len(all) + 1] = " "
  <2>1. begun \in Seq(Symbols) /\ Blank \in Seq(Symbols)
    BY <1>4, <1>5
  <2>2. /\ target \in Seq(Symbols) /\ Len(target) = Len(begun) + Len(Blank)
        /\ \A i \in 1..Len(begun) : target[i] = begun[i]
        /\ \A i \in 1..Len(Blank) : target[Len(begun) + i] = Blank[i]
    BY <2>1, Concat
  <2> HIDE DEF target
  <2>3. 1 \in 1..Len(Blank)
    BY <1>4
  <2> QED
    BY <1>4, <1>5, <1>15, <2>2, <2>3
<1> HIDE DEF target
<1>7. /\ text \in Seq(Symbols) /\ Len(text) = start + Len(target)
      /\ \A i \in 1..start : text[i] = skipped[i]
      /\ \A i \in 1..Len(target) : text[start + i] = target[i]
  <2>1. /\ text \in Seq(Symbols) /\ Len(text) = Len(skipped) + Len(target)
        /\ \A i \in 1..Len(skipped) : text[i] = skipped[i]
        /\ \A i \in 1..Len(target) : text[Len(skipped) + i] = target[i]
    <3>1. skipped \in Seq(Symbols) /\ target \in Seq(Symbols)
      BY <1>3, <1>6
    <3> QED
      BY <1>2, <3>1, Concat
  <2> QED
    BY <1>3, <2>1
<1> DEFINE size == Len(all)
<1>14. /\ start \in Nat /\ size \in Nat /\ Len(target) = 2 + size + 1
      /\ Len(text) = start + (2 + size + 1)
  BY <1>1, <1>2, <1>6, <1>7
<1> HIDE DEF size
<1>8. \A j \in 0..start - 1 : At(j) = "skipped"
  <2> TAKE j \in 0..start - 1
  <2>1. j + 1 \in 1..start
    BY <1>2
  <2> QED
    BY <1>3, <1>7, <2>1 DEF At
<1>9. \A i \in 1..2 + size + 1 : At(start + i - 1) = target[i]
  <2> TAKE i \in 1..2 + size + 1
  <2>1. start + i - 1 + 1 = start + i /\ i \in 1..Len(target)
    BY <1>14
  <2> QED
    BY <1>7, <2>1 DEF At
<1>10. At(start) = "/" /\ At(start + 1) = "?"
  <2>1. /\ 1 \in 1..2 + size + 1 /\ start + 1 - 1 = start
        /\ 2 \in 1..2 + size + 1 /\ start + 2 - 1 = start + 1
        /\ 1 \in 1..2 + size /\ 2 \in 1..2 + size
    BY <1>14
  <2>2. target[1] = "/" /\ target[2] = "?"
    BY <1>5, <1>6, <2>1 DEF size
  <2>3. At(start + 1 - 1) = target[1] /\ At(start + 2 - 1) = target[2]
    BY <1>9, <2>1
  <2> QED
    BY <2>1, <2>2, <2>3
<1>11. ASSUME NEW i \in 1..size
       PROVE  At(start + 2 + i - 1) = all[i]
  <2>1. /\ 2 + i \in 1..2 + size + 1 /\ 2 + i \in 1..2 + size
        /\ start + (2 + i) - 1 = start + 2 + i - 1
    BY <1>14
  <2>2. At(start + (2 + i) - 1) = target[2 + i]
    BY <1>9, <2>1
  <2> QED
    BY <1>5, <1>6, <2>1, <2>2 DEF size
<1>12. At(start + 2 + size) = " "
  <2>1. /\ 2 + size + 1 \in 1..2 + size + 1
        /\ start + (2 + size + 1) - 1 = start + 2 + size
    BY <1>14
  <2>2. At(start + (2 + size + 1) - 1) = target[2 + size + 1]
    BY <1>9, <2>1
  <2> QED
    BY <1>6, <2>1, <2>2 DEF size
<1>13. Size = start + 2 + size + 1
  BY <1>14 DEF Size
<1> QED
  BY <1>1, <1>7, <1>8, <1>10, <1>11, <1>12, <1>13 DEF all, size

(* Every parameter is where it should be. *)
LEMMA Layout ==
    ASSUME WellFormed, NEW k \in Places
    PROVE  /\ From(k) \in Nat /\ SignOf(k) \in Nat /\ EndOf(k) \in Nat
           /\ start + 2 <= From(k) /\ From(k) <= SignOf(k) /\ SignOf(k) < EndOf(k)
           /\ EndOf(k) < Size /\ Size \in Nat
           /\ \A i \in 1..Len(Name(query, k)) : At(From(k) + i - 1) = Name(query, k)[i]
           /\ At(SignOf(k)) = "="
           /\ \A i \in 1..Len(Value(query, k)) : At(SignOf(k) + i) = Value(query, k)[i]
           /\ At(EndOf(k)) = IF k = Len(query) THEN " " ELSE "&"
           /\ k # Len(query) => k + 1 \in Places /\ From(k + 1) = EndOf(k) + 1
           /\ From(1) = start + 2
<1> DEFINE all == Joined(query)[Len(query)]
           s == Joined(query)[k]
           b == Begins(query, k)
           n == Len(Name(query, k))
           v == Len(Value(query, k))
<1>1. /\ Len(query) \in Nat /\ k \in 1..Len(query) /\ Len(query) \in k..Len(query)
      /\ query \in Queries /\ start \in Nat /\ k \in Nat
  BY QueryFacts DEF WellFormed, Places
<1>2. n \in Nat /\ v \in Nat
  BY <1>1, QueryFacts
<1>3. /\ Len(s) \in Nat /\ b \in Nat /\ Len(s) = b + n + 1 + v
      /\ \A i \in 1..n : s[b + i] = Name(query, k)[i]
      /\ s[b + n + 1] = "="
      /\ \A i \in 1..v : s[b + n + 1 + i] = Value(query, k)[i]
  BY <1>1, JoinedIs DEF EndsWith
<1>4. Len(s) <= Len(all) /\ \A i \in 1..Len(s) : all[i] = s[i]
  BY <1>1, JoinedBegins
<1>5. /\ Size = start + 2 + Len(all) + 1 /\ Len(all) \in Nat
      /\ \A i \in 1..Len(all) : At(start + 2 + i - 1) = all[i]
      /\ At(start + 2 + Len(all)) = " "
  BY TextIs
<1>6. /\ From(k) = start + 2 + b
      /\ SignOf(k) = start + 2 + b + n
      /\ EndOf(k) = start + 2 + b + n + 1 + v
  BY DEF From, SignOf, EndOf
<1>7. k # Len(query) =>
         /\ k + 1 \in 1..Len(query) /\ From(k + 1) = EndOf(k) + 1
         /\ all[Len(s) + 1] = "&" /\ Len(s) + 1 <= Len(all)
  <2> SUFFICES ASSUME k # Len(query)
               PROVE  /\ k + 1 \in 1..Len(query) /\ From(k + 1) = EndOf(k) + 1
                      /\ all[Len(s) + 1] = "&" /\ Len(s) + 1 <= Len(all)
    OBVIOUS
  <2>1. k + 1 \in 1..Len(query) /\ k + 1 # 1 /\ k + 1 - 1 = k /\ Len(query) \in k + 1..Len(query)
    BY <1>1
  <2>2. Begins(query, k + 1) = Len(s) + 1
    BY <1>1, BeginsBehind
  <2>3. From(k + 1) = EndOf(k) + 1
    <3> HIDE DEF s, b, n, v
    <3> QED
      BY <1>1, <1>2, <1>3, <1>6, <2>2 DEF From
  <2>4. Joined(query)[k + 1][Len(s) + 1] = "&"
    <3>1. Joined(query)[k + 1 - 1] \in Seq(Signs)
      BY <1>1, <2>1, JoinedIs, Zenon
    <3>2. Joined(query)[k + 1][Begins(query, k + 1)] = "&"
      <4> HIDE DEF all, s, b, n, v
      <4> QED
        BY <1>1, <2>1, <3>1, OneMore
    <3> QED
      BY <2>2, <3>2, Zenon
  <2>5. Len(Joined(query)[k + 1]) >= Len(s) + 1
    <3>1. EndsWith(query, k + 1, Joined(query)[k + 1])
      BY <1>1, <2>1, JoinedIs
    <3>2. Len(Joined(query)[k + 1]) =
             Len(s) + 1 + Len(Name(query, k + 1)) + 1 + Len(Value(query, k + 1))
      BY <2>2, <3>1 DEF EndsWith
    <3>3. Len(Name(query, k + 1)) \in Nat /\ Len(Value(query, k + 1)) \in Nat
      BY <1>1, <2>1, QueryFacts
    <3> HIDE DEF s
    <3> QED
      BY <1>3, <3>2, <3>3
  <2>6. /\ Len(Joined(query)[k + 1]) <= Len(all)
        /\ \A i \in 1..Len(Joined(query)[k + 1]) : all[i] = Joined(query)[k + 1][i]
    BY <1>1, <2>1, JoinedBegins
  <2>7. Len(Joined(query)[k + 1]) \in Nat
    BY <1>1, <2>1, JoinedIs
  <2> HIDE DEF s, all
  <2> DEFINE m == Len(Joined(query)[k + 1])
  <2>8. Len(s) \in Nat /\ Len(all) \in Nat /\ m \in Nat /\ m >= Len(s) + 1 /\ m <= Len(all)
    BY <1>3, <1>5, <2>5, <2>6, <2>7
  <2>9. Len(s) + 1 \in 1..m /\ Len(s) + 1 <= Len(all)
    <3> HIDE DEF m
    <3> QED
      BY <2>8
  <2> QED
    BY <2>1, <2>3, <2>4, <2>6, <2>9
<1>8. From(1) = start + 2
  BY <1>1 DEF From, Begins
<1> HIDE DEF all, s, b, n, v
<1> DEFINE l == Len(s)  m == Len(all)
<1>16. /\ start \in Nat /\ b \in Nat /\ n \in Nat /\ v \in Nat /\ l \in Nat /\ m \in Nat
       /\ l = b + n + 1 + v /\ l <= m /\ Size = start + 2 + m + 1
       /\ k # Len(query) => l + 1 <= m
  BY <1>1, <1>2, <1>3, <1>4, <1>5, <1>7
<1> HIDE DEF l, m
<1>9. \A i \in 1..Len(s) : At(start + 2 + i - 1) = s[i]
  <2> TAKE i \in 1..Len(s)
  <2>1. i \in 1..Len(all)
    BY <1>16 DEF l, m
  <2> QED
    BY <1>4, <1>5, <2>1
<1>10. ASSUME NEW i \in 1..n
       PROVE  At(From(k) + i - 1) = Name(query, k)[i]
  <2>1. b + i \in 1..Len(s) /\ start + 2 + (b + i) - 1 = From(k) + i - 1
    BY <1>6, <1>16 DEF l
  <2>2. At(start + 2 + (b + i) - 1) = s[b + i]
    BY <1>9, <2>1
  <2> QED
    BY <1>3, <2>1, <2>2
<1>11. At(SignOf(k)) = "="
  <2>1. b + n + 1 \in 1..Len(s) /\ start + 2 + (b + n + 1) - 1 = SignOf(k)
    BY <1>6, <1>16 DEF l
  <2>2. At(start + 2 + (b + n + 1) - 1) = s[b + n + 1]
    BY <1>9, <2>1
  <2> QED
    BY <1>3, <2>1, <2>2
<1>12. ASSUME NEW i \in 1..v
       PROVE  At(SignOf(k) + i) = Value(query, k)[i]
  <2>1. b + n + 1 + i \in 1..Len(s) /\ start + 2 + (b + n + 1 + i) - 1 = SignOf(k) + i
    BY <1>6, <1>16 DEF l
  <2>2. At(start + 2 + (b + n + 1 + i) - 1) = s[b + n + 1 + i]
    BY <1>9, <2>1
  <2> QED
    BY <1>3, <2>1, <2>2
<1>13. EndOf(k) = start + 2 + Len(s)
  BY <1>6, <1>16 DEF l
<1>14. At(EndOf(k)) = IF k = Len(query) THEN " " ELSE "&"
  <2>1. CASE k = Len(query)
    <3>1. s = all
      BY <2>1 DEF s, all
    <3> QED
      BY <1>5, <1>13, <2>1, <3>1
  <2>2. CASE k # Len(query)
    <3>1. Len(s) + 1 \in 1..Len(all) /\ start + 2 + (Len(s) + 1) - 1 = EndOf(k)
      <4>1. l + 1 \in 1..m /\ start + 2 + (l + 1) - 1 = start + 2 + l
        BY <1>16, <2>2
      <4> QED
        BY <1>13, <4>1 DEF l, m
    <3>2. At(start + 2 + (Len(s) + 1) - 1) = all[Len(s) + 1]
      BY <1>5, <3>1
    <3> QED
      BY <1>7, <2>2, <3>1, <3>2
  <2> QED
    BY <2>1, <2>2
<1>15. /\ From(k) \in Nat /\ SignOf(k) \in Nat /\ EndOf(k) \in Nat
       /\ start + 2 <= From(k) /\ From(k) <= SignOf(k) /\ SignOf(k) < EndOf(k)
       /\ EndOf(k) < Size /\ Size \in Nat
  BY <1>6, <1>16
<1> QED
  BY <1>7, <1>8, <1>10, <1>11, <1>12, <1>14, <1>15 DEF n, v, Places

-----------------------------------------------------------------------------
Marks == {"?", "&"}      \* what a name begins behind

(* The start of the name is behind the last mark that the loop has passed, *)
(* and the separator is the last equality sign; 0 stands for none.         *)
NameBegins ==
    /\ properStart \in Nat
    /\ properStart # 0 => /\ start < properStart /\ properStart <= p
                          /\ At(properStart - 1) \in Marks
    /\ \A j \in start..p - 1 : At(j) \in Marks => j < properStart

Separates ==
    /\ separator \in Nat
    /\ separator # 0 => start <= separator /\ separator < p /\ At(separator) = "="
    /\ \A j \in start..p - 1 : At(j) = "=" => j <= separator

(* Who has passed an ampersand has seen a mark and a sign before it. *)
BothSeen == (\E j \in start..p - 1 : At(j) = "&") => properStart # 0 /\ separator # 0

(* Every parameter that has been stored had its own equality sign.         *)
AllSigned == \A e \in start..p - 1 : At(e) = "&" => HasSign(e)

(* Then none of the names and values reaches beyond its parameter.         *)
Clean == \A n \in DOMAIN result : "&" \notin ToSet(n) \cup ToSet(result[n])

UrlInv ==
    /\ text \in Seq(Symbols) /\ text # <<>>
    /\ start \in Nat /\ p \in Nat /\ start <= p /\ p <= Size
    /\ \A j \in 0..start - 1 : At(j) = "skipped"
    /\ NameBegins /\ Separates /\ BothSeen
    /\ status \in {"parsing", "parsed", "bad http"}
    /\ status = "bad http" => \A i \in start..p - 1 : At(i) # "&"
    /\ status = "parsing" /\ AllSigned => Clean
    /\ status = "parsed" /\ AllSigned /\ HasSign(p) => Clean

-----------------------------------------------------------------------------
(* What is cut out of a text lies between its ends. *)
LEMMA CutOut ==
    ASSUME UrlInv, NEW from \in Nat, NEW count \in Nat, from + count <= Size,
           \A j \in from..from + count - 1 : At(j) # "&"
    PROVE  "&" \notin ToSet(Substr(from, count))
<1>1. Size \in Nat /\ DOMAIN text = 1..Size
  BY LenProperties DEF UrlInv, Size
<1>2. Substr(from, count) = SubSeq(text, from + 1, from + count)
  BY <1>1 DEF Substr
<1>3. \A i \in from + 1..from + count : text[i] \in Symbols
  <2> TAKE i \in from + 1..from + count
  <2>1. i \in 1..Len(text)
    BY <1>1 DEF Size
  <2> QED
    BY <2>1, ElementOfSeq DEF UrlInv
<1> DEFINE s == SubSeq(text, from + 1, from + count)
<1>4. /\ s \in Seq(Symbols) /\ Len(s) = count
      /\ \A i \in 1..count : s[i] = text[from + i]
  BY <1>3, Cut
<1> HIDE DEF s
<1>5. DOMAIN s = 1..count
  BY <1>4, LenProperties
<1>6. ASSUME NEW i \in 1..count
      PROVE  s[i] # "&"
  <2>1. s[i] = text[from + i]
    BY <1>4
  <2>2. from + i - 1 \in from..from + count - 1 /\ from + i = from + i - 1 + 1
    OBVIOUS
  <2>3. At(from + i - 1) = s[i]
    BY <2>1, <2>2 DEF At
  <2> QED
    BY <2>2, <2>3
<1> QED
  BY <1>2, <1>5, <1>6 DEF ToSet, s

(* No substr begins behind the end: the positions are ones that the loop   *)
(* has passed, and a text that is not empty has room for separator + 1.    *)
LEMMA NeverOut ==
    ASSUME UrlInv
    PROVE  InRange
<1>1. Size \in Nat /\ Size # 0
  <2>1. text \in Seq(Symbols) /\ text # <<>>
    BY DEF UrlInv
  <2> QED
    BY <2>1, EmptySeq, LenProperties DEF Size
<1>2. /\ properStart \in Nat /\ separator \in Nat /\ p \in Nat /\ p <= Size
      /\ properStart # 0 => properStart <= p
      /\ separator # 0 => separator < p
  BY DEF UrlInv, NameBegins, Separates
<1>3. properStart <= Size
  BY <1>1, <1>2
<1>4. separator + 1 <= Size
  BY <1>1, <1>2
<1> QED
  BY <1>3, <1>4 DEF InRange

(* A parameter that has an equality sign of its own is stored clean: the   *)
(* separator is that sign, behind the start of the name.                   *)
LEMMA StoredClean ==
    ASSUME UrlInv, Clean, HasSign(p)
    PROVE  \A n \in DOMAIN Stored(p) : "&" \notin ToSet(n) \cup ToSet(Stored(p)[n])
<1>1. /\ start \in Nat /\ p \in Nat /\ properStart \in Nat /\ separator \in Nat
      /\ Size \in Nat /\ p <= Size
  BY LenProperties DEF UrlInv, NameBegins, Separates, Size
<1>2. PICK i \in start..p - 1 :
         At(i) = "=" /\ \A j \in i..p - 1 : At(j) \notin {"&", "?"}
  BY DEF HasSign
<1>3. /\ \A j \in start..p - 1 : At(j) = "=" => j <= separator
      /\ separator # 0 => separator < p
  BY DEF UrlInv, Separates
<1>4. /\ \A j \in start..p - 1 : At(j) \in Marks => j < properStart
      /\ properStart # 0 => start < properStart /\ properStart <= p
      /\ properStart # 0 => At(properStart - 1) \in Marks
  BY DEF UrlInv, NameBegins
<1>5. \A j \in 0..start - 1 : At(j) = "skipped"
  BY DEF UrlInv
<1>6. i \in Nat /\ start <= i /\ i < p
  BY <1>1, <1>2
<1>7. i <= separator
  BY <1>2, <1>3
<1>8. separator < p
  BY <1>1, <1>3, <1>6
<1>9. properStart <= separator
  <2>1. CASE properStart = 0
    BY <1>1, <2>1
  <2>2. CASE properStart # 0
    <3> SUFFICES ASSUME separator < properStart PROVE FALSE
      BY <1>1
    <3>1. properStart - 1 \in i..p - 1
      BY <1>1, <1>4, <1>6, <1>7, <2>2
    <3>2. At(properStart - 1) \in Marks
      BY <1>4, <2>2
    <3> QED
      BY <1>2, <3>1, <3>2 DEF Marks
  <2> QED
    BY <2>1, <2>2
<1> DEFINE name == Substr(properStart, separator - properStart)
           value == Substr(separator + 1, p - (separator + 1))
<1>10. "&" \notin ToSet(name)
  <2>1. ASSUME NEW j \in properStart..properStart + (separator - properStart) - 1
        PROVE  At(j) # "&"
    <3>1. j \in Nat /\ properStart <= j /\ j < separator
      BY <1>1, <1>9
    <3>2. CASE j < start
      BY <1>1, <1>5, <3>1, <3>2
    <3>3. CASE j >= start
      <4>1. j \in start..p - 1
        BY <1>1, <1>8, <3>1, <3>3
      <4>2. ~(j < properStart)
        BY <1>1, <3>1
      <4> QED
        BY <1>4, <4>1, <4>2 DEF Marks
    <3> QED
      BY <1>1, <3>1, <3>2, <3>3
  <2>2. /\ separator - properStart \in Nat
        /\ properStart + (separator - properStart) <= Size
    BY <1>1, <1>8, <1>9
  <2> QED
    BY <1>1, <2>1, <2>2, CutOut
<1>11. "&" \notin ToSet(value)
  <2>1. ASSUME NEW j \in separator + 1..separator + 1 + (p - (separator + 1)) - 1
        PROVE  At(j) # "&"
    <3>1. j \in i..p - 1
      BY <1>1, <1>6, <1>7, <1>8
    <3> QED
      BY <1>2, <3>1
  <2>2. /\ separator + 1 \in Nat /\ p - (separator + 1) \in Nat
        /\ separator + 1 + (p - (separator + 1)) <= Size
    BY <1>1, <1>8
  <2> QED
    BY <2>1, <2>2, CutOut
<1>12. /\ DOMAIN Stored(p) = DOMAIN result \cup {name}
       /\ \A n \in DOMAIN Stored(p) : Stored(p)[n] = IF n = name THEN value ELSE result[n]
  BY DEF Stored
<1> HIDE DEF name, value
<1> QED
  BY <1>10, <1>11, <1>12 DEF Clean

-----------------------------------------------------------------------------
(* Neither the text nor where the parsing began ever changes. *)
Fixed == UNCHANGED <<text, start>>

(* So a parameter has a sign after a step just when it had one before it. *)
LEMMA SameSigns ==
    ASSUME Fixed
    PROVE  /\ \A j : At(j)' = At(j)
           /\ \A e : HasSign(e)' <=> HasSign(e)
           /\ Size' = Size
BY DEF Fixed, At, HasSign, Size

(* What the steps inside the loop share: the character passed is the last  *)
(* one that the positions and the parameters have to account for.          *)
LEMMA Passed ==
    ASSUME UrlInv, Fixed, More, p' = p + 1
    PROVE  /\ (text \in Seq(Symbols) /\ text # <<>>)'
           /\ (start \in Nat /\ p \in Nat /\ start <= p /\ p <= Size)'
           /\ (\A j \in 0..start - 1 : At(j) = "skipped")'
           /\ \A j \in start'..p' - 1 : j \in start..p - 1 \/ j = p
           /\ \A j \in start..p - 1 : j \in start'..p' - 1
           /\ p \in start'..p' - 1
           /\ AllSigned' => AllSigned /\ (At(p) = "&" => HasSign(p))
<1>1. /\ text' = text /\ start' = start /\ Size' = Size
      /\ \A j : At(j)' = At(j)
      /\ \A e : HasSign(e)' <=> HasSign(e)
  BY SameSigns DEF Fixed
<1>2. start \in Nat /\ p \in Nat /\ start <= p /\ p < Size /\ Size \in Nat
  BY LenProperties DEF UrlInv, More, Size
<1>3. /\ \A j \in start'..p' - 1 : j \in start..p - 1 \/ j = p
      /\ \A j \in start..p - 1 : j \in start'..p' - 1
      /\ p \in start'..p' - 1
  BY <1>1, <1>2
<1>4. (start \in Nat /\ p \in Nat /\ start <= p /\ p <= Size)'
  BY <1>1, <1>2
<1>5. (text \in Seq(Symbols) /\ text # <<>>)'
  BY <1>1 DEF UrlInv
<1>6. (\A j \in 0..start - 1 : At(j) = "skipped")'
  BY <1>1 DEF UrlInv
<1>7. AllSigned' => AllSigned /\ (At(p) = "&" => HasSign(p))
  BY <1>1, <1>3 DEF AllSigned
<1> QED
  BY <1>3, <1>4, <1>5, <1>6, <1>7

(* Where the name begins, behind a character that is no mark and behind one. *)
LEMMA NameKept ==
    ASSUME UrlInv, Fixed, More, p' = p + 1, properStart' = properStart, At(p) \notin Marks
    PROVE  NameBegins'
<1>1. p \in Nat /\ start' = start
  BY DEF UrlInv, Fixed
<1>2. /\ properStart \in Nat
      /\ properStart # 0 => start < properStart /\ properStart <= p
      /\ properStart # 0 => At(properStart - 1) \in Marks
      /\ \A j \in start..p - 1 : At(j) \in Marks => j < properStart
  BY DEF UrlInv, NameBegins
<1>3. At(properStart - 1)' = At(properStart - 1)
  BY DEF At, Fixed
<1>4. (\A j \in start..p - 1 : At(j) \in Marks => j < properStart)'
  <2> SUFFICES ASSUME NEW j \in start'..p' - 1, At(j)' \in Marks
               PROVE  j < properStart
    OBVIOUS
  <2>1. j \in start..p - 1 \/ j = p
    BY Passed
  <2>2. At(j) \in Marks
    BY SameSigns
  <2> QED
    BY <1>2, <2>1, <2>2
<1>5. (properStart # 0 => start < properStart /\ properStart <= p)'
  BY <1>1, <1>2
<1> QED
  BY <1>2, <1>3, <1>4, <1>5 DEF NameBegins

(* Behind a mark the name begins anew. *)
LEMMA NameMoved ==
    ASSUME UrlInv, Fixed, More, p' = p + 1, properStart' = p + 1, At(p) \in Marks
    PROVE  NameBegins'
<1>1. p \in Nat /\ start \in Nat /\ start <= p /\ start' = start
  BY DEF UrlInv, Fixed
<1>2. /\ properStart' \in Nat
      /\ properStart' # 0 /\ start' < properStart' /\ properStart' <= p'
  BY <1>1
<1>3. At(properStart - 1)' \in Marks
  <2>1. properStart' - 1 = p
    BY <1>1
  <2> QED
    BY <2>1 DEF At, Fixed
<1>4. \A j \in start'..p' - 1 : j < properStart'
  BY <1>1
<1> QED
  BY <1>2, <1>3, <1>4 DEF NameBegins

(* The separator stays where it is behind every other character. *)
LEMMA SignKept ==
    ASSUME UrlInv, Fixed, More, p' = p + 1, separator' = separator, At(p) # "="
    PROVE  Separates'
<1>1. p \in Nat /\ start' = start
  BY DEF UrlInv, Fixed
<1>2. /\ separator \in Nat
      /\ separator # 0 => start <= separator /\ separator < p /\ At(separator) = "="
      /\ \A j \in start..p - 1 : At(j) = "=" => j <= separator
  BY DEF UrlInv, Separates
<1>3. At(separator)' = At(separator)
  BY DEF At, Fixed
<1>4. (\A j \in start..p - 1 : At(j) = "=" => j <= separator)'
  <2> SUFFICES ASSUME NEW j \in start'..p' - 1, At(j)' = "="
               PROVE  j <= separator
    OBVIOUS
  <2>1. j \in start..p - 1 \/ j = p
    BY Passed
  <2>2. At(j) = "="
    BY SameSigns
  <2> QED
    BY <1>2, <2>1, <2>2
<1>5. (separator # 0 => start <= separator /\ separator < p)'
  BY <1>1, <1>2
<1> QED
  BY <1>2, <1>3, <1>4, <1>5 DEF Separates

-----------------------------------------------------------------------------
(* A character without a meaning moves nothing but the position. *)
LEMMA LetterStep ==
    ASSUME UrlInv, Letter
    PROVE  UrlInv'
<1>1. Fixed /\ More /\ p' = p + 1 /\ At(p) \notin {"?", "=", "&"}
      /\ UNCHANGED <<properStart, separator, result, status>>
  BY DEF Letter, Fixed
<1>2. /\ (text \in Seq(Symbols) /\ text # <<>>)'
      /\ (start \in Nat /\ p \in Nat /\ start <= p /\ p <= Size)'
      /\ (\A j \in 0..start - 1 : At(j) = "skipped")'
      /\ \A j \in start'..p' - 1 : j \in start..p - 1 \/ j = p
      /\ AllSigned' => AllSigned
  BY <1>1, Passed
<1>3. \A j : At(j)' = At(j)
  BY <1>1, SameSigns
<1>4. p \in Nat /\ start' = start
  BY <1>1 DEF UrlInv, Fixed
<1>5. NameBegins'
  BY <1>1, NameKept DEF Marks
<1>6. Separates'
  BY <1>1, SignKept
<1>7. BothSeen'
  BY <1>1, <1>2, <1>3 DEF UrlInv, BothSeen
<1>8. status = "parsing" /\ status' = status
  BY <1>1 DEF More
<1>9. AllSigned' => Clean'
  BY <1>1, <1>2, <1>8 DEF UrlInv, Clean
<1> QED
  BY <1>2, <1>5, <1>6, <1>7, <1>8, <1>9 DEF UrlInv

(* A question mark begins a name, wherever it stands. *)
LEMMA QuestionStep ==
    ASSUME UrlInv, Question
    PROVE  UrlInv'
<1>1. Fixed /\ More /\ p' = p + 1 /\ At(p) = "?" /\ properStart' = p + 1
      /\ UNCHANGED <<separator, result, status>>
  BY DEF Question, Fixed
<1>2. /\ (text \in Seq(Symbols) /\ text # <<>>)'
      /\ (start \in Nat /\ p \in Nat /\ start <= p /\ p <= Size)'
      /\ (\A j \in 0..start - 1 : At(j) = "skipped")'
      /\ \A j \in start'..p' - 1 : j \in start..p - 1 \/ j = p
      /\ AllSigned' => AllSigned
  BY <1>1, Passed
<1>3. \A j : At(j)' = At(j)
  BY <1>1, SameSigns
<1>4. p \in Nat /\ start \in Nat /\ start <= p /\ start' = start
  BY <1>1 DEF UrlInv, Fixed
<1>5. NameBegins'
  BY <1>1, NameMoved DEF Marks
<1>6. Separates'
  BY <1>1, SignKept
<1>7. BothSeen'
  <2> SUFFICES ASSUME NEW j \in start'..p' - 1, At(j)' = "&"
               PROVE  properStart' # 0 /\ separator' # 0
    BY DEF BothSeen
  <2>1. j \in start..p - 1 /\ At(j) = "&"
    BY <1>1, <1>2, <1>3
  <2>2. separator # 0
    BY <2>1 DEF UrlInv, BothSeen
  <2>3. properStart' # 0
    BY <1>1, <1>4
  <2> QED
    BY <1>1, <2>2, <2>3
<1>8. status = "parsing" /\ status' = status
  BY <1>1 DEF More
<1>9. AllSigned' => Clean'
  BY <1>1, <1>2, <1>8 DEF UrlInv, Clean
<1> QED
  BY <1>2, <1>5, <1>6, <1>7, <1>8, <1>9 DEF UrlInv

(* The separator is the last equality sign, also one inside a value. *)
LEMMA EqualsStep ==
    ASSUME UrlInv, Equals
    PROVE  UrlInv'
<1>1. Fixed /\ More /\ p' = p + 1 /\ At(p) = "=" /\ separator' = p
      /\ UNCHANGED <<properStart, result, status>>
  BY DEF Equals, Fixed
<1>2. /\ (text \in Seq(Symbols) /\ text # <<>>)'
      /\ (start \in Nat /\ p \in Nat /\ start <= p /\ p <= Size)'
      /\ (\A j \in 0..start - 1 : At(j) = "skipped")'
      /\ \A j \in start'..p' - 1 : j \in start..p - 1 \/ j = p
      /\ AllSigned' => AllSigned
  BY <1>1, Passed
<1>3. \A j : At(j)' = At(j)
  BY <1>1, SameSigns
<1>4. p \in Nat /\ start \in Nat /\ start <= p /\ start' = start
  BY <1>1 DEF UrlInv, Fixed
<1>5. NameBegins'
  BY <1>1, NameKept DEF Marks
<1>6. Separates'
  <2>1. separator' \in Nat /\ start' <= separator' /\ separator' < p'
    BY <1>1, <1>4
  <2>2. At(separator)' = "="
    BY <1>1, <1>3 DEF At
  <2>3. \A j \in start'..p' - 1 : j <= separator'
    BY <1>1, <1>4
  <2> QED
    BY <2>1, <2>2, <2>3 DEF Separates
<1>7. BothSeen'
  <2> SUFFICES ASSUME NEW j \in start'..p' - 1, At(j)' = "&"
               PROVE  properStart' # 0 /\ separator' # 0
    BY DEF BothSeen
  <2>1. j \in start..p - 1 /\ At(j) = "&"
    BY <1>1, <1>2, <1>3
  <2>2. properStart # 0
    BY <2>1 DEF UrlInv, BothSeen
  <2>3. j \in Nat /\ j < p
    BY <1>4, <2>1
  <2>4. separator' # 0
    BY <1>1, <1>4, <2>3
  <2> QED
    BY <1>1, <2>2, <2>4
<1>8. status = "parsing" /\ status' = status
  BY <1>1 DEF More
<1>9. AllSigned' => Clean'
  BY <1>1, <1>2, <1>8 DEF UrlInv, Clean
<1> QED
  BY <1>2, <1>5, <1>6, <1>7, <1>8, <1>9 DEF UrlInv

(* An ampersand stores the pair before it and begins the next name. *)
LEMMA AndStep ==
    ASSUME UrlInv, And
    PROVE  UrlInv'
<1>1. Fixed /\ More /\ p' = p + 1 /\ At(p) = "&" /\ properStart' = p + 1
      /\ properStart # 0 /\ separator # 0 /\ separator' = separator /\ Store(p)
  BY DEF And, Fixed
<1>2. /\ (text \in Seq(Symbols) /\ text # <<>>)'
      /\ (start \in Nat /\ p \in Nat /\ start <= p /\ p <= Size)'
      /\ (\A j \in 0..start - 1 : At(j) = "skipped")'
      /\ \A j \in start'..p' - 1 : j \in start..p - 1 \/ j = p
      /\ AllSigned' => AllSigned /\ HasSign(p)
  BY <1>1, Passed
<1>3. \A j : At(j)' = At(j)
  BY <1>1, SameSigns
<1>4. p \in Nat /\ start \in Nat /\ start <= p /\ start' = start
  BY <1>1 DEF UrlInv, Fixed
<1>5. NameBegins'
  BY <1>1, NameMoved DEF Marks
<1>6. Separates'
  BY <1>1, SignKept
<1>7. BothSeen'
  BY <1>1, <1>4 DEF BothSeen
<1>8. status = "parsing" /\ status' = status /\ result' = Stored(p)
  BY <1>1, NeverOut DEF More, Store
<1>9. AllSigned' => Clean'
  <2> SUFFICES ASSUME AllSigned' PROVE Clean'
    OBVIOUS
  <2>1. AllSigned /\ HasSign(p)
    BY <1>2
  <2>2. Clean
    BY <1>8, <2>1 DEF UrlInv
  <2> QED
    BY <1>8, <2>1, <2>2, StoredClean DEF Clean
<1> QED
  BY <1>2, <1>5, <1>6, <1>7, <1>8, <1>9 DEF UrlInv

(* An ampersand without a mark or a sign before it is the first one. *)
LEMMA BadStep ==
    ASSUME UrlInv, Bad
    PROVE  UrlInv'
<1>1. /\ UNCHANGED <<text, start, p, properStart, separator, result>>
      /\ status' = "bad http"
      /\ properStart = 0 \/ separator = 0
  BY DEF Bad
<1>2. \A j : At(j)' = At(j)
  BY <1>1 DEF At
<1>3. (\A i \in start..p - 1 : At(i) # "&")'
  BY <1>1, <1>2 DEF UrlInv, BothSeen
<1>4. NameBegins' /\ Separates' /\ BothSeen'
  BY <1>1, <1>2 DEF UrlInv, NameBegins, Separates, BothSeen, At
<1> QED
  BY <1>1, <1>2, <1>3, <1>4 DEF UrlInv, Size

(* The last pair is stored behind the loop, with the end for its ampersand. *)
LEMMA EndStep ==
    ASSUME UrlInv, End
    PROVE  UrlInv'
<1>1. /\ UNCHANGED <<text, start, p, properStart, separator>>
      /\ status = "parsing" /\ status' = "parsed" /\ result' = Stored(p)
  BY NeverOut DEF End
<1>2. (\A j : At(j)' = At(j)) /\ \A e : HasSign(e)' <=> HasSign(e)
  BY <1>1, SameSigns DEF Fixed
<1>3. NameBegins' /\ Separates' /\ BothSeen'
  BY <1>1, <1>2 DEF UrlInv, NameBegins, Separates, BothSeen, At
<1>4. AllSigned' => AllSigned
  BY <1>1, <1>2 DEF AllSigned
<1>5. HasSign(p)' => HasSign(p)
  BY <1>1 DEF HasSign, At
<1>6. AllSigned' /\ HasSign(p)' => Clean'
  <2> SUFFICES ASSUME AllSigned', HasSign(p)' PROVE Clean'
    OBVIOUS
  <2>1. AllSigned /\ HasSign(p)
    BY <1>4, <1>5
  <2>2. Clean
    BY <1>1, <2>1 DEF UrlInv
  <2> QED
    BY <1>1, <2>1, <2>2, StoredClean DEF Clean
<1> QED
  BY <1>1, <1>2, <1>3, <1>6 DEF UrlInv, Size

(* Every text that is parsed begins with the characters skipped. *)
LEMMA InitUrl == Init => UrlInv
<1> SUFFICES ASSUME Init PROVE UrlInv
  OBVIOUS
<1>1. start \in Nat
  BY NumbersAssumption DEF Init
<1>2. /\ text \in Seq(Symbols) /\ start <= Size
      /\ \A j \in 0..start - 1 : At(j) = "skipped"
  <2>1. ASSUME NEW n \in Lengths, NEW rest \in [1..n -> Chars], text = Skipped(start) \o rest
        PROVE  /\ text \in Seq(Symbols) /\ start <= Size
               /\ \A j \in 0..start - 1 : At(j) = "skipped"
    <3> DEFINE skipped == Skipped(start)
    <3>1. rest \in Seq(Symbols)
      <4>1. rest \in [1..n -> Symbols] /\ n \in Nat
        BY NumbersAssumption DEF Symbols
      <4> QED
        BY <4>1
    <3>2. /\ skipped \in Seq(Symbols) /\ Len(skipped) = start
          /\ \A i \in 1..start : skipped[i] = "skipped"
      BY <1>1 DEF Skipped, Symbols
    <3> HIDE DEF skipped
    <3>3. /\ text \in Seq(Symbols) /\ Len(text) = Len(skipped) + Len(rest)
          /\ Len(rest) \in Nat
          /\ \A i \in 1..Len(skipped) : text[i] = skipped[i]
      <4>1. text = skipped \o rest
        BY <2>1 DEF skipped
      <4>2. skipped \in Seq(Symbols)
        BY <3>2
      <4> QED
        BY <3>1, <4>1, <4>2, Concat
    <3>4. start <= Size
      BY <1>1, <3>2, <3>3 DEF Size
    <3>5. ASSUME NEW j \in 0..start - 1
          PROVE  At(j) = "skipped"
      <4>1. j + 1 \in 1..start
        BY <1>1
      <4> QED
        BY <3>2, <3>3, <4>1 DEF At
    <3> QED
      BY <3>3, <3>4, <3>5
  <2>2. CASE query \in Queries /\ text = Skipped(start) \o TextOf(query)
    <3>1. WellFormed
      BY <1>1, <2>2 DEF WellFormed
    <3> DEFINE n == Len(Joined(query)[Len(query)])
    <3>2. Size = start + 2 + n + 1 /\ n \in Nat
      BY <3>1, TextIs
    <3> HIDE DEF n
    <3>3. start <= Size
      BY <1>1, <3>2
    <3> QED
      BY <3>1, <3>3, TextIs
  <2> QED
    BY <2>1, <2>2 DEF Init
<1>3. start..p - 1 = {} /\ p = start /\ p \in Nat
  BY <1>1 DEF Init
<1>4. NameBegins /\ Separates /\ BothSeen
  BY <1>3 DEF Init, NameBegins, Separates, BothSeen
<1>5. Clean
  BY DEF Init, Clean
<1> QED
  BY <1>1, <1>2, <1>3, <1>4, <1>5 DEF Init, UrlInv

(* The positions are what their names say, and what has been stored of     *)
(* parameters with signs of their own lies within those parameters.        *)
THEOREM UrlInvariant == Spec => []UrlInv
<1>1. UrlInv /\ [Next]_vars => UrlInv'
  <2> SUFFICES ASSUME UrlInv, [Next]_vars PROVE UrlInv'
    OBVIOUS
  <2>1. CASE Next
    BY <2>1, LetterStep, QuestionStep, EqualsStep, BadStep, AndStep, EndStep DEF Next
  <2>2. CASE UNCHANGED vars
    BY <2>2 DEF vars, UrlInv, NameBegins, Separates, BothSeen, AllSigned, Clean, HasSign,
                At, Size
  <2> QED
    BY <2>1, <2>2
<1> QED
  BY <1>1, InitUrl, PTL DEF Spec

(* No substr of the URL parser throws, an ampersand is refused only when   *)
(* it is the first, and when every parameter has an equality sign, no name *)
(* or value takes in a part of another one, for texts of every length.     *)
THEOREM NothingSpills == Spec => []NoSpill
<1>1. UrlInv => NoSpill
  <2> SUFFICES ASSUME UrlInv PROVE NoSpill
    OBVIOUS
  <2>1. start \in Nat /\ p \in Nat /\ start <= p
    BY DEF UrlInv
  <2>2. status # "out of range"
    BY DEF UrlInv
  <2>3. status = "bad http" => \A i \in start..p - 1 : At(i) # "&"
    BY DEF UrlInv
  <2>4. ASSUME status = "parsed", \A e \in Ends : HasSign(e)
        PROVE  Clean
    <3>1. p \in Ends
      BY <2>1 DEF Ends
    <3>2. \A e \in start..p - 1 : At(e) = "&" => e \in Ends
      BY <2>1 DEF Ends
    <3>3. AllSigned
      BY <2>4, <3>2 DEF AllSigned
    <3> QED
      BY <2>4, <3>1, <3>3 DEF UrlInv
  <2> QED
    BY <2>2, <2>3, <2>4 DEF NoSpill, Clean
<1> QED
  BY <1>1, UrlInvariant, PTL

-----------------------------------------------------------------------------
(* What has been read of the first m parameters: their names, and with     *)
(* each the value that none of them gives anew.                            *)
Reads(m) ==
    /\ DOMAIN result = {Name(query, i) : i \in 1..m}
    /\ result = [name \in DOMAIN result |-> result[name]]
    /\ \A i \in 1..m : (\A j \in i + 1..m : Name(query, j) # Name(query, i)) =>
                          result[Name(query, i)] = Value(query, i)

(* The loop is in the target's beginning ... *)
InTarget == p \in {start, start + 1} /\ result = <<>>

(* ... or in the k-th parameter. *)
InPair(k) ==
    /\ p \in Nat /\ From(k) <= p /\ p <= EndOf(k)
    /\ properStart = From(k)
    /\ SignOf(k) < p => separator = SignOf(k)
    /\ Reads(k - 1)

(* Behind the last one the loop has ended, and everything has been read.   *)
Progress ==
    /\ WellFormed
    /\ \/ status = "parsing" /\ (InTarget \/ \E k \in Places : InPair(k))
       \/ status = "parsed" /\ Reads(Len(query))

QueryInv == query # <<>> => Progress

-----------------------------------------------------------------------------
(* A text is cut out where its characters stand. *)
LEMMA CutOutIs ==
    ASSUME text \in Seq(Symbols), NEW from \in Nat, NEW s \in Seq(Symbols),
           from + Len(s) <= Size,
           \A i \in 1..Len(s) : At(from + i - 1) = s[i]
    PROVE  Substr(from, Len(s)) = s
<1> DEFINE n == Len(s)
           cut == SubSeq(text, from + 1, from + n)
<1>1. Size \in Nat /\ n \in Nat /\ from + n <= Size
  BY LenProperties DEF Size
<1>2. Substr(from, n) = cut
  BY <1>1 DEF Substr
<1> HIDE DEF n
<1>3. \A i \in from + 1..from + n : text[i] \in Symbols
  <2> TAKE i \in from + 1..from + n
  <2>1. i \in 1..Len(text)
    BY <1>1 DEF Size
  <2> QED
    BY <2>1, ElementOfSeq
<1>4. /\ cut \in Seq(Symbols) /\ Len(cut) = n
      /\ \A i \in 1..n : cut[i] = text[from + i]
  BY <1>1, <1>3, Cut
<1> HIDE DEF cut
<1>5. ASSUME NEW i \in 1..n
      PROVE  cut[i] = s[i]
  <2>1. from + i = from + i - 1 + 1
    BY <1>1
  <2>2. cut[i] = At(from + i - 1)
    BY <1>4, <2>1 DEF At
  <2> QED
    BY <2>2 DEF n
<1>6. cut = s
  BY <1>4, <1>5, SeqEqual DEF n
<1> QED
  BY <1>2, <1>6 DEF n

(* The layout is that of the text and the query, which no step changes. *)
LEMMA SameLayout ==
    ASSUME UNCHANGED <<text, query, start>>
    PROVE  /\ WellFormed' <=> WellFormed
           /\ Places' = Places
           /\ \A k : From(k)' = From(k) /\ SignOf(k)' = SignOf(k) /\ EndOf(k)' = EndOf(k)
           /\ \A j : At(j)' = At(j)
BY DEF WellFormed, Places, From, SignOf, EndOf, At

(* The names and values are letters, so that the loop meets a sign where   *)
(* the layout has one and nowhere else.                                    *)
LEMMA CharAt ==
    ASSUME WellFormed, NEW k \in Places, NEW j \in Nat, From(k) <= j, j <= EndOf(k)
    PROVE  \/ j = SignOf(k) /\ At(j) = "="
           \/ j = EndOf(k) /\ At(j) = IF k = Len(query) THEN " " ELSE "&"
           \/ j # SignOf(k) /\ j # EndOf(k) /\ At(j) \in Letters
<1> DEFINE n == Len(Name(query, k))
           v == Len(Value(query, k))
<1>1. /\ Name(query, k) \in Seq(Letters) /\ Value(query, k) \in Seq(Letters)
      /\ n \in Nat /\ v \in Nat
  BY QueryFacts DEF WellFormed, Places
<1>2. /\ From(k) \in Nat /\ SignOf(k) \in Nat /\ EndOf(k) \in Nat
      /\ \A i \in 1..n : At(From(k) + i - 1) = Name(query, k)[i]
      /\ At(SignOf(k)) = "="
      /\ \A i \in 1..v : At(SignOf(k) + i) = Value(query, k)[i]
      /\ At(EndOf(k)) = IF k = Len(query) THEN " " ELSE "&"
  BY Layout
<1>3. SignOf(k) = From(k) + n /\ EndOf(k) = SignOf(k) + 1 + v
  BY DEF SignOf, EndOf
<1>4. From(k) \in Nat /\ SignOf(k) \in Nat /\ EndOf(k) \in Nat /\ SignOf(k) < EndOf(k)
  BY Layout
<1>5. n \in Nat /\ v \in Nat
  BY <1>1
<1> HIDE DEF n, v
<1>6. CASE j < SignOf(k)
  <2> DEFINE i == j - From(k) + 1
  <2>1. i \in 1..n /\ From(k) + i - 1 = j /\ j # EndOf(k)
    BY <1>3, <1>4, <1>6, <1>5
  <2> HIDE DEF i
  <2>2. At(j) = Name(query, k)[i]
    BY <1>2, <2>1
  <2>3. Name(query, k)[i] \in Letters
    BY <1>1, <2>1, ElementOfSeq DEF n
  <2>4. j # SignOf(k)
    BY <1>4, <1>6
  <2> QED
    BY <2>1, <2>2, <2>3, <2>4, Zenon
<1>7. CASE j > SignOf(k) /\ j < EndOf(k)
  <2> DEFINE i == j - SignOf(k)
  <2>1. i \in 1..v /\ SignOf(k) + i = j
    BY <1>3, <1>4, <1>7, <1>5
  <2> HIDE DEF i
  <2>2. At(j) = Value(query, k)[i]
    BY <1>2, <2>1
  <2>3. Value(query, k)[i] \in Letters
    BY <1>1, <2>1, ElementOfSeq DEF v
  <2>4. j # SignOf(k) /\ j # EndOf(k)
    BY <1>4, <1>7
  <2> QED
    BY <2>2, <2>3, <2>4, Zenon
<1>8. j = SignOf(k) \/ j = EndOf(k) \/ j < SignOf(k) \/ (j > SignOf(k) /\ j < EndOf(k))
  BY <1>4
<1> QED
  BY <1>2, <1>6, <1>7, <1>8

(* At the end of a parameter, both its name and its value are cut out as   *)
(* they were written.                                                      *)
LEMMA PairCut ==
    ASSUME WellFormed, NEW k \in Places
    PROVE  /\ Substr(From(k), SignOf(k) - From(k)) = Name(query, k)
           /\ Substr(SignOf(k) + 1, EndOf(k) - (SignOf(k) + 1)) = Value(query, k)
<1> DEFINE n == Len(Name(query, k))
           v == Len(Value(query, k))
<1>1. /\ Name(query, k) \in Seq(Signs) /\ Value(query, k) \in Seq(Signs)
      /\ n \in Nat /\ v \in Nat
  BY QueryFacts DEF WellFormed, Places
<1>2. Name(query, k) \in Seq(Symbols) /\ Value(query, k) \in Seq(Symbols)
  <2>1. Signs \subseteq Symbols
    BY DEF Signs, Symbols, Chars
  <2> QED
    BY <1>1, <2>1, SeqMonotonic
<1>3. text \in Seq(Symbols)
  BY TextIs
<1>4. /\ From(k) \in Nat /\ SignOf(k) \in Nat /\ EndOf(k) \in Nat
      /\ SignOf(k) < EndOf(k) /\ EndOf(k) < Size /\ Size \in Nat
      /\ \A i \in 1..n : At(From(k) + i - 1) = Name(query, k)[i]
      /\ \A i \in 1..v : At(SignOf(k) + i) = Value(query, k)[i]
  BY Layout
<1>5. SignOf(k) = From(k) + n /\ EndOf(k) = SignOf(k) + 1 + v
  BY DEF SignOf, EndOf
<1>6. /\ SignOf(k) - From(k) = n /\ From(k) + n <= Size
      /\ EndOf(k) - (SignOf(k) + 1) = v /\ SignOf(k) + 1 + v <= Size
      /\ SignOf(k) + 1 \in Nat
  <2>1. /\ n \in Nat /\ v \in Nat /\ From(k) \in Nat /\ SignOf(k) \in Nat
        /\ EndOf(k) < Size /\ Size \in Nat /\ SignOf(k) = From(k) + n
        /\ EndOf(k) = SignOf(k) + 1 + v
    BY <1>1, <1>4, <1>5
  <2> HIDE DEF n, v
  <2> QED
    BY <2>1
<1>7. Substr(From(k), n) = Name(query, k)
  <2>1. /\ From(k) \in Nat /\ From(k) + n <= Size
        /\ \A i \in 1..n : At(From(k) + i - 1) = Name(query, k)[i]
    BY <1>4, <1>6
  <2> QED
    BY <1>2, <1>3, <2>1, CutOutIs
<1>8. ASSUME NEW i \in 1..v
      PROVE  At(SignOf(k) + 1 + i - 1) = Value(query, k)[i]
  <2>1. SignOf(k) + 1 + i - 1 = SignOf(k) + i
    BY <1>4
  <2> QED
    BY <1>4, <2>1
<1>9. Substr(SignOf(k) + 1, v) = Value(query, k)
  BY <1>2, <1>3, <1>6, <1>8, CutOutIs
<1> QED
  BY <1>6, <1>7, <1>9

(* Before the loop ends, it is at the target's first character, at its     *)
(* question mark, or at a character of a parameter.                        *)
LEMMA Where ==
    ASSUME Progress, status = "parsing"
    PROVE  /\ p \in Nat /\ p < Size /\ start \in Nat
           /\ \/ p = start /\ At(p) = "/" /\ result = <<>>
              \/ p = start + 1 /\ At(p) = "?" /\ result = <<>>
              \/ \E k \in Places :
                    /\ InPair(k)
                    /\ \/ p = SignOf(k) /\ At(p) = "="
                       \/ p = EndOf(k) /\ At(p) = IF k = Len(query) THEN " " ELSE "&"
                       \/ p # SignOf(k) /\ p # EndOf(k) /\ At(p) \in Letters
<1>1. WellFormed /\ start \in Nat
  BY DEF Progress, WellFormed
<1>2. CASE InTarget
  <2>1. At(start) = "/" /\ At(start + 1) = "?"
    BY <1>1, TextIs
  <2>2. start + 1 < Size
    <3> DEFINE n == Len(Joined(query)[Len(query)])
    <3>1. n \in Nat /\ Size = start + 2 + n + 1
      BY <1>1, TextIs
    <3> HIDE DEF n
    <3> QED
      BY <1>1, <3>1
  <2>3. Size \in Nat
    BY <1>1, TextIs, LenProperties DEF Size
  <2>4. p \in Nat /\ p < Size
    BY <1>1, <1>2, <2>2, <2>3 DEF InTarget
  <2> QED
    BY <1>1, <1>2, <2>1, <2>4 DEF InTarget
<1>3. ASSUME NEW k \in Places, InPair(k)
      PROVE  /\ p \in Nat /\ p < Size
             /\ \/ p = SignOf(k) /\ At(p) = "="
                \/ p = EndOf(k) /\ At(p) = IF k = Len(query) THEN " " ELSE "&"
                \/ p # SignOf(k) /\ p # EndOf(k) /\ At(p) \in Letters
  <2>1. p \in Nat /\ From(k) <= p /\ p <= EndOf(k)
    BY <1>3 DEF InPair
  <2>2. EndOf(k) \in Nat /\ EndOf(k) < Size /\ Size \in Nat
    BY <1>1, Layout
  <2>3. p < Size
    BY <2>1, <2>2
  <2> QED
    BY <1>1, <2>1, <2>3, CharAt
<1> QED
  BY <1>1, <1>2, <1>3 DEF Progress

(* It is in a parameter when it is so after the step. *)
LEMMA StaysIn ==
    ASSUME Progress, UNCHANGED <<text, query, start>>, status' = "parsing",
           NEW k \in Places, p' \in Nat, From(k) <= p', p' <= EndOf(k),
           properStart' = From(k),
           SignOf(k) < p' => separator' = SignOf(k),
           Reads(k - 1)'
    PROVE  Progress'
<1>1. /\ WellFormed' /\ Places' = Places
      /\ From(k)' = From(k) /\ SignOf(k)' = SignOf(k) /\ EndOf(k)' = EndOf(k)
  BY SameLayout DEF Progress
<1>2. InPair(k)'
  BY <1>1 DEF InPair
<1>3. \E i \in Places' : InPair(i)'
  BY <1>1, <1>2
<1> QED
  BY <1>1, <1>3 DEF Progress

(* What has been read stays so when nothing is stored. *)
LEMMA StillReads ==
    ASSUME UNCHANGED <<query, result>>, NEW m, Reads(m)
    PROVE  Reads(m)'
BY DEF Reads, Name, Value

(* At the end of a parameter it is stored, and nothing else changes: its   *)
(* name is the start's and the separator's, wherever an earlier separator  *)
(* was, and a value that the name had before is replaced.                  *)
LEMMA ReadsOne ==
    ASSUME WellFormed, NEW k \in Places, InPair(k), p = EndOf(k)
    PROVE  /\ InRange /\ properStart # 0 /\ separator # 0
           /\ result' = Stored(p) /\ query' = query => Reads(k)'
<1>1. /\ From(k) \in Nat /\ SignOf(k) \in Nat /\ EndOf(k) \in Nat /\ start \in Nat
      /\ start + 2 <= From(k) /\ From(k) <= SignOf(k) /\ SignOf(k) < EndOf(k)
      /\ EndOf(k) < Size /\ Size \in Nat
  BY Layout DEF WellFormed
<1>2. properStart = From(k) /\ separator = SignOf(k)
  BY <1>1 DEF InPair
<1>3. InRange /\ properStart # 0 /\ separator # 0
  BY <1>1, <1>2 DEF InRange
<1>4. ASSUME result' = Stored(p), query' = query
      PROVE  Reads(k)'
  <2> DEFINE new == Name(query, k)
  <2>1. result' = [n \in DOMAIN result \cup {new} |->
                      IF n = new THEN Value(query, k) ELSE result[n]]
    BY <1>2, <1>4, PairCut DEF Stored
  <2>2. /\ DOMAIN result = {Name(query, i) : i \in 1..k - 1}
        /\ \A i \in 1..k - 1 :
              (\A j \in i + 1..k - 1 : Name(query, j) # Name(query, i)) =>
                 result[Name(query, i)] = Value(query, i)
    BY DEF InPair, Reads
  <2>3. k \in Nat /\ k >= 1
    BY DEF Places
  <2>4. \A i : Name(query, i)' = Name(query, i) /\ Value(query, i)' = Value(query, i)
    BY <1>4 DEF Name, Value
  <2>5. (DOMAIN result)' = {Name(query, i) : i \in 1..k}
    <3>1. 1..k = (1..k - 1) \cup {k}
      BY <2>3
    <3> QED
      BY <2>1, <2>2, <3>1
  <2>6. ASSUME NEW i \in 1..k, \A j \in i + 1..k : Name(query, j) # Name(query, i)
        PROVE  result'[Name(query, i)] = Value(query, i)
    <3>1. CASE i = k
      BY <2>1, <3>1
    <3>2. CASE i # k
      <4>1. i \in 1..k - 1 /\ k \in i + 1..k /\ \A j \in i + 1..k - 1 : j \in i + 1..k
        BY <2>3, <3>2
      <4>2. new # Name(query, i) /\ \A j \in i + 1..k - 1 : Name(query, j) # Name(query, i)
        BY <2>6, <4>1
      <4>3. Name(query, i) \in DOMAIN result
        BY <2>2, <4>1
      <4> QED
        BY <2>1, <2>2, <4>1, <4>2, <4>3
    <3> QED
      BY <3>1, <3>2
  <2>7. result' = [n \in DOMAIN result' |-> result'[n]]
    BY <2>1
  <2> QED
    BY <2>4, <2>5, <2>6, <2>7 DEF Reads
<1> QED
  BY <1>3, <1>4

-----------------------------------------------------------------------------
(* A letter: the target's first character, or one of a name or a value. *)
LEMMA LetterReads ==
    ASSUME Progress, Letter
    PROVE  Progress'
<1>1. /\ status = "parsing" /\ p' = p + 1 /\ At(p) \notin {"?", "=", "&", " "}
      /\ UNCHANGED <<text, query, start, properStart, separator, result, status>>
  BY DEF Letter, More
<1>2. p \in Nat /\ start \in Nat
  BY <1>1, Where
<1>3. CASE p = start /\ result = <<>>
  <2>1. WellFormed'
    BY <1>1, SameLayout DEF Progress
  <2>2. InTarget'
    BY <1>1, <1>3 DEF InTarget
  <2> QED
    BY <1>1, <2>1, <2>2 DEF Progress
<1>4. ASSUME NEW k \in Places, InPair(k), p # SignOf(k), p # EndOf(k)
      PROVE  Progress'
  <2>1. /\ From(k) <= p /\ p <= EndOf(k) /\ properStart = From(k)
        /\ SignOf(k) < p => separator = SignOf(k)
        /\ Reads(k - 1)
    BY <1>4 DEF InPair
  <2>2. From(k) \in Nat /\ SignOf(k) \in Nat /\ EndOf(k) \in Nat
    BY Layout DEF Progress
  <2>3. p' = p + 1 /\ p # SignOf(k) /\ p # EndOf(k)
    BY <1>1, <1>4
  <2>4. /\ p' \in Nat /\ From(k) <= p' /\ p' <= EndOf(k)
        /\ SignOf(k) < p' => SignOf(k) < p
    BY <1>2, <2>1, <2>2, <2>3
  <2>5. Reads(k - 1)'
    BY <1>1, <2>1, StillReads
  <2>6. SignOf(k) < p' => separator' = SignOf(k)
    BY <1>1, <2>1, <2>4
  <2> QED
    BY <1>1, <2>1, <2>4, <2>5, <2>6, StaysIn
<1> QED
  BY <1>1, <1>3, <1>4, Where

(* The question mark is that before the parameters: the first one begins. *)
LEMMA QuestionReads ==
    ASSUME Progress, Question
    PROVE  Progress'
<1>1. /\ status = "parsing" /\ p' = p + 1 /\ properStart' = p + 1 /\ At(p) = "?"
      /\ UNCHANGED <<text, query, start, separator, result, status>>
  BY DEF Question, More
<1>2. p \in Nat /\ start \in Nat
  BY <1>1, Where
<1>3. p = start + 1 /\ result = <<>>
  <2>1. "?" \notin Letters
    BY LettersAssumption
  <2> QED
    BY <1>1, <2>1, Where
<1>4. 1 \in Places
  BY QueryFacts DEF Progress, WellFormed, Places
<1>5. /\ From(1) = start + 2 /\ From(1) \in Nat /\ SignOf(1) \in Nat /\ EndOf(1) \in Nat
      /\ From(1) <= SignOf(1) /\ SignOf(1) < EndOf(1)
  BY <1>4, Layout DEF Progress
<1>6. /\ p' \in Nat /\ From(1) <= p' /\ p' <= EndOf(1) /\ properStart' = From(1)
      /\ ~(SignOf(1) < p')
  BY <1>1, <1>2, <1>3, <1>5
<1>7. Reads(1 - 1)
  BY <1>3 DEF Reads
<1>8. Reads(1 - 1)'
  BY <1>1, <1>7, StillReads
<1> QED
  BY <1>1, <1>4, <1>6, <1>8, StaysIn

(* The equality sign is that of the parameter. *)
LEMMA EqualsReads ==
    ASSUME Progress, Equals
    PROVE  Progress'
<1>1. /\ status = "parsing" /\ p' = p + 1 /\ separator' = p /\ At(p) = "="
      /\ UNCHANGED <<text, query, start, properStart, result, status>>
  BY DEF Equals, More
<1>2. PICK k \in Places : InPair(k) /\ p = SignOf(k)
  <2>1. "=" \notin Letters
    BY LettersAssumption
  <2> QED
    BY <1>1, <2>1, Where
<1>3. p \in Nat /\ From(k) <= p /\ properStart = From(k) /\ Reads(k - 1)
  BY <1>2 DEF InPair
<1>4. From(k) \in Nat /\ SignOf(k) \in Nat /\ EndOf(k) \in Nat /\ SignOf(k) < EndOf(k)
  BY Layout DEF Progress
<1>5. p' \in Nat /\ From(k) <= p' /\ p' <= EndOf(k) /\ separator' = SignOf(k)
  BY <1>1, <1>2, <1>3, <1>4
<1>6. Reads(k - 1)'
  BY <1>1, <1>3, StillReads
<1> QED
  BY <1>1, <1>3, <1>5, <1>6, StaysIn

(* An ampersand stands behind a parameter that is not the last one. *)
LEMMA AmpersandEnds ==
    ASSUME Progress, status = "parsing", At(p) = "&"
    PROVE  \E k \in Places : InPair(k) /\ p = EndOf(k) /\ k # Len(query)
<1>1. "&" \notin Letters
  BY LettersAssumption
<1> QED
  BY <1>1, Where

(* The pair before the ampersand is stored, and the next one begins. *)
LEMMA AndReads ==
    ASSUME Progress, And
    PROVE  Progress'
<1>1. /\ status = "parsing" /\ p' = p + 1 /\ properStart' = p + 1 /\ At(p) = "&"
      /\ UNCHANGED <<text, query, start, separator>> /\ Store(p)
  BY DEF And, More
<1>2. PICK k \in Places : InPair(k) /\ p = EndOf(k) /\ k # Len(query)
  BY <1>1, AmpersandEnds
<1>3. WellFormed
  BY DEF Progress
<1>4. result' = Stored(p) /\ status' = status /\ Reads(k)'
  BY <1>1, <1>2, <1>3, ReadsOne DEF Store
<1> DEFINE next == k + 1
<1>5. next \in Places /\ From(next) = EndOf(k) + 1 /\ next - 1 = k /\ EndOf(k) \in Nat
  <2>1. k \in Nat /\ k + 1 - 1 = k
    BY DEF Places
  <2>2. k + 1 \in Places /\ From(k + 1) = EndOf(k) + 1 /\ EndOf(k) \in Nat
    BY <1>2, <1>3, Layout
  <2> QED
    BY <2>1, <2>2
<1> HIDE DEF next
<1>6. /\ From(next) \in Nat /\ SignOf(next) \in Nat /\ EndOf(next) \in Nat
      /\ From(next) <= SignOf(next) /\ SignOf(next) < EndOf(next)
  BY <1>3, <1>5, Layout
<1>7. /\ p' \in Nat /\ From(next) <= p' /\ p' <= EndOf(next) /\ properStart' = From(next)
      /\ ~(SignOf(next) < p')
  BY <1>1, <1>2, <1>5, <1>6
<1>8. Reads(next - 1)'
  BY <1>4, <1>5
<1> QED
  BY <1>1, <1>4, <1>5, <1>7, <1>8, StaysIn

(* No ampersand of a query is refused: its parameter has a start and a sign. *)
LEMMA BadNever ==
    ASSUME Progress, Bad
    PROVE  FALSE
<1>1. status = "parsing" /\ At(p) = "&" /\ (properStart = 0 \/ separator = 0)
  BY DEF Bad, More
<1>2. PICK k \in Places : InPair(k) /\ p = EndOf(k)
  BY <1>1, AmpersandEnds
<1> QED
  BY <1>1, <1>2, ReadsOne DEF Progress

(* The loop ends at the blank behind the last parameter, which is stored. *)
LEMMA EndReads ==
    ASSUME Progress, End
    PROVE  Progress'
<1>1. /\ status = "parsing" /\ ~More
      /\ UNCHANGED <<text, query, start, p, properStart, separator>>
      /\ InRange => result' = Stored(p) /\ status' = "parsed"
  BY DEF End
<1>2. At(p) = " "
  <2>1. p < Size
    BY <1>1, Where
  <2> QED
    BY <1>1, <2>1 DEF More
<1>3. PICK k \in Places : InPair(k) /\ p = EndOf(k) /\ k = Len(query)
  <2>1. " " \notin Letters
    BY LettersAssumption
  <2> QED
    BY <1>1, <1>2, <2>1, Where
<1>4. status' = "parsed" /\ Reads(k)'
  BY <1>1, <1>3, ReadsOne DEF Progress
<1>5. Len(query)' = k /\ WellFormed'
  BY <1>1, <1>3, SameLayout DEF Progress
<1>6. Reads(Len(query))'
  BY <1>4, <1>5 DEF Reads
<1> QED
  BY <1>4, <1>5, <1>6 DEF Progress

(* A query is read from its first character on. *)
LEMMA InitReads == Init => QueryInv
<1> SUFFICES ASSUME Init, query # <<>> PROVE Progress
  BY DEF QueryInv
<1>1. query \in Queries /\ text = Skipped(start) \o TextOf(query)
  BY DEF Init
<1>2. WellFormed
  BY <1>1, NumbersAssumption DEF Init, WellFormed
<1>3. InTarget /\ status = "parsing"
  BY DEF Init, InTarget
<1> QED
  BY <1>2, <1>3 DEF Progress

(* Whatever has been passed of a query has been read as it was written.    *)
THEOREM QueryInvariant == Spec => []QueryInv
<1>1. QueryInv /\ [Next]_vars => QueryInv'
  <2> SUFFICES ASSUME QueryInv, [Next]_vars, query' # <<>> PROVE Progress'
    BY DEF QueryInv
  <2>1. Progress
    BY DEF QueryInv, Next, vars, Letter, Question, Equals, Bad, And, End
  <2>2. CASE Next
    BY <2>1, <2>2, LetterReads, QuestionReads, EqualsReads, BadNever, AndReads, EndReads
       DEF Next
  <2>3. CASE UNCHANGED vars
    <3>1. /\ UNCHANGED <<text, query, start, p, properStart, separator, result, status>>
          /\ WellFormed'
      BY <2>1, <2>3, SameLayout DEF vars, Progress
    <3>2. CASE InTarget /\ status = "parsing"
      <4>1. InTarget'
        BY <3>1, <3>2 DEF InTarget
      <4> QED
        BY <3>1, <3>2, <4>1 DEF Progress
    <3>3. ASSUME NEW k \in Places, InPair(k), status = "parsing"
          PROVE  Progress'
      <4>1. Reads(k - 1)'
        BY <3>1, <3>3, StillReads DEF InPair
      <4>2. /\ p' \in Nat /\ From(k) <= p' /\ p' <= EndOf(k) /\ properStart' = From(k)
            /\ SignOf(k) < p' => separator' = SignOf(k)
        BY <3>1, <3>3 DEF InPair
      <4> QED
        BY <2>1, <3>1, <3>3, <4>1, <4>2, StaysIn
    <3>4. CASE status = "parsed" /\ Reads(Len(query))
      <4>1. Reads(Len(query))'
        BY <3>1, <3>4 DEF Reads, Name, Value
      <4> QED
        BY <3>1, <3>4, <4>1 DEF Progress
    <3> QED
      BY <2>1, <3>2, <3>3, <3>4 DEF Progress
  <2> QED
    BY <2>2, <2>3
<1> QED
  BY <1>1, InitReads, PTL DEF Spec

(* Of the parameters with a name there is a last one. *)
LEMMA LastOf ==
    ASSUME NEW q \in Queries, NEW i \in 1..Len(q)
    PROVE  \E last \in 1..Len(q) :
              /\ Name(q, last) = Name(q, i)
              /\ \A j \in 1..Len(q) : Name(q, j) = Name(q, i) => j <= last
<1> DEFINE n == Len(q)
           S == {n - j : j \in {j \in 1..n : Name(q, j) = Name(q, i)}}
<1>1. n \in Nat
  BY QueryFacts
<1>2. PICK m \in S : \A k \in S : m <= k
  <2> HIDE DEF n
  <2>1. S \subseteq Nat /\ n - i \in S
    BY <1>1 DEF n
  <2> HIDE DEF S
  <2> QED
    BY <2>1, Least
<1> HIDE DEF n
<1>3. PICK last \in 1..n : Name(q, last) = Name(q, i) /\ m = n - last
  BY <1>2
<1>4. ASSUME NEW j \in 1..n, Name(q, j) = Name(q, i)
      PROVE  j <= last
  <2>1. n - j \in S
    BY <1>4
  <2>2. n - last <= n - j
    BY <1>2, <1>3, <2>1
  <2> QED
    BY <1>1, <2>2
<1> QED
  BY <1>3, <1>4 DEF n

(* What a browser writes is read back, for every number of parameters with *)
(* names and values of every length: each name with the value that the     *)
(* last parameter of the name has, and nothing else.                       *)
THEOREM QueriesRoundTrip == Spec => []RoundTrip
<1>1. QueryInv => RoundTrip
  <2> SUFFICES ASSUME QueryInv, status # "parsing", query # <<>>
               PROVE  /\ status = "parsed"
                      /\ result = [n \in {query[i].name : i \in DOMAIN query} |->
                            query[CHOOSE i \in DOMAIN query :
                               /\ query[i].name = n
                               /\ \A j \in DOMAIN query : query[j].name = n => j <= i].value]
    BY DEF RoundTrip
  <2> DEFINE Latest(n) == CHOOSE i \in DOMAIN query :
                             /\ query[i].name = n
                             /\ \A j \in DOMAIN query : query[j].name = n => j <= i
  <2>1. query \in Queries /\ status = "parsed" /\ Reads(Len(query))
    BY DEF QueryInv, Progress, WellFormed
  <2>2. DOMAIN query = 1..Len(query) /\ Len(query) \in Nat
    BY <2>1, QueryFacts
  <2>3. /\ DOMAIN result = {query[i].name : i \in DOMAIN query}
        /\ result = [n \in DOMAIN result |-> result[n]]
    BY <2>1, <2>2 DEF Reads, Name
  <2>4. ASSUME NEW n \in DOMAIN result
        PROVE  result[n] = query[Latest(n)].value
    <3>1. PICK i \in 1..Len(query) : Name(query, i) = n
      BY <2>2, <2>3 DEF Name
    <3>2. \E last \in DOMAIN query :
             /\ query[last].name = n
             /\ \A j \in DOMAIN query : query[j].name = n => j <= last
      BY <2>1, <2>2, <3>1, LastOf DEF Name
    <3> DEFINE last == Latest(n)
    <3>3. /\ last \in DOMAIN query /\ query[last].name = n
          /\ \A j \in DOMAIN query : query[j].name = n => j <= last
      BY <3>2, Zenon
    <3> HIDE DEF last
    <3>4. last \in 1..Len(query) /\ Name(query, last) = n
      BY <2>2, <3>3 DEF Name
    <3>5. ASSUME NEW j \in last + 1..Len(query)
          PROVE  Name(query, j) # n
      <4>1. j \in DOMAIN query /\ ~(j <= last)
        BY <2>2, <3>4
      <4> QED
        BY <3>3, <4>1 DEF Name
    <3>6. result[Name(query, last)] = Value(query, last)
      BY <2>1, <3>4, <3>5 DEF Reads
    <3> QED
      BY <3>4, <3>6 DEF last, Value
  <2>5. result = [n \in {query[i].name : i \in DOMAIN query} |-> query[Latest(n)].value]
    <3> HIDE DEF Latest
    <3> QED
      BY <2>3, <2>4
  <2> QED
    BY <2>1, <2>5
<1> QED
  BY <1>1, QueryInvariant, PTL
=============================================================================
