---------------------------- MODULE SequenceFacts ----------------------------
(***************************************************************************)
(* Lemmas the proofs of several components need: about sequences (a stack  *)
(* is a sequence whose top is its last element) and about the least        *)
(* element of a set of naturals, from which induction follows.             *)
(***************************************************************************)
EXTENDS Naturals, SequencesExt, SequenceTheorems, FiniteSetTheorems, TLAPS

\* A function on 1..n is a sequence of length n.
LEMMA FunctionIsSeq ==
  ASSUME NEW S, NEW n \in Nat, NEW s \in [1..n -> S]
  PROVE  s \in Seq(S) /\ Len(s) = n /\ DOMAIN s = 1..n
OBVIOUS

\* What is left of a stack, and what its top was.
LEMMA FrontFacts ==
  ASSUME NEW S, NEW s \in Seq(S), s # <<>>
  PROVE  /\ Front(s) \in Seq(S)
         /\ Len(Front(s)) = Len(s) - 1
         /\ DOMAIN Front(s) = 1..(Len(s) - 1)
         /\ DOMAIN s = 1..Len(s)
         /\ Len(s) \in Nat \ {0}
         /\ \A i \in DOMAIN Front(s) : Front(s)[i] = s[i]
         /\ Last(s) = s[Len(s)] /\ Last(s) \in S
<1>1. Len(s) \in Nat \ {0} /\ DOMAIN s = 1..Len(s) /\ s \in [1..Len(s) -> S]
  BY EmptySeq, LenProperties
<1>2. \A i \in 1..(Len(s) - 1) : s[i] \in S
  BY <1>1
<1>3. /\ Front(s) \in Seq(S)
      /\ Len(Front(s)) = Len(s) - 1
      /\ \A i \in 1..(Len(s) - 1) : Front(s)[i] = s[i]
  <2>1. /\ SubSeq(s, 1, Len(s) - 1) \in Seq(S)
        /\ Len(SubSeq(s, 1, Len(s) - 1)) =
             IF 1 <= Len(s) - 1 THEN (Len(s) - 1) - 1 + 1 ELSE 0
        /\ \A i \in 1 .. (Len(s) - 1) - 1 + 1 : SubSeq(s, 1, Len(s) - 1)[i] = s[1 + i - 1]
    BY <1>1, <1>2, SubSeqProperties
  <2> QED
    BY <2>1, <1>1 DEF Front
<1>4. DOMAIN Front(s) = 1..(Len(s) - 1)
  BY <1>3, LenProperties
<1> QED
  BY <1>1, <1>3, <1>4 DEF Last

\* The elements of a stack without repetitions are its top and what is left of it.
LEMMA FrontRange ==
  ASSUME NEW S, NEW s \in Seq(S), s # <<>>, IsInjective(s)
  PROVE  /\ IsInjective(Front(s))
         /\ Range(Front(s)) = Range(s) \ {Last(s)}
         /\ Last(s) \in Range(s)
<1>1. /\ DOMAIN Front(s) = 1..(Len(s) - 1)
      /\ DOMAIN s = 1..Len(s)
      /\ Len(s) \in Nat \ {0}
      /\ \A i \in DOMAIN Front(s) : Front(s)[i] = s[i]
      /\ Last(s) = s[Len(s)]
  BY FrontFacts
<1>2. \A i \in DOMAIN s : i # Len(s) => i \in DOMAIN Front(s) /\ s[i] # s[Len(s)]
  BY <1>1 DEF IsInjective
<1>3. Range(Front(s)) \subseteq Range(s) \ {Last(s)}
  BY <1>1, <1>2 DEF Range
<1>4. Range(s) \ {Last(s)} \subseteq Range(Front(s))
  BY <1>1, <1>2 DEF Range
<1> QED
  BY <1>1, <1>3, <1>4 DEF IsInjective, Range

\* A stack with one more element.
LEMMA AppendFacts ==
  ASSUME NEW S, NEW s \in Seq(S), NEW e \in S
  PROVE  /\ Append(s, e) \in Seq(S)
         /\ Len(Append(s, e)) = Len(s) + 1
         /\ DOMAIN Append(s, e) = 1..Len(s) + 1
         /\ Len(s) \in Nat /\ DOMAIN s = 1..Len(s)
         /\ \A i \in 1..Len(s) : Append(s, e)[i] = s[i]
         /\ Append(s, e)[Len(s) + 1] = e
BY AppendProperties, LenProperties

\* A stack with another top.
LEMMA ReplaceLast ==
  ASSUME NEW S, NEW s \in Seq(S), s # <<>>, NEW e \in S
  PROVE  LET t == Append(Front(s), e) IN
         /\ t \in Seq(S) /\ t # <<>>
         /\ Len(t) = Len(s) /\ DOMAIN t = 1..Len(s)
         /\ Len(s) \in Nat \ {0} /\ DOMAIN s = 1..Len(s)
         /\ \A i \in 1..Len(s) : t[i] = IF i = Len(s) THEN e ELSE s[i]
<1>1. /\ Front(s) \in Seq(S) /\ Len(Front(s)) = Len(s) - 1 /\ DOMAIN s = 1..Len(s)
      /\ Len(s) \in Nat \ {0}
      /\ \A i \in 1..(Len(s) - 1) : Front(s)[i] = s[i]
  BY FrontFacts
<1>2. /\ Append(Front(s), e) \in Seq(S)
      /\ Append(Front(s), e) # <<>>
      /\ Len(Append(Front(s), e)) = Len(s)
      /\ DOMAIN Append(Front(s), e) = 1..Len(s)
      /\ \A i \in 1..(Len(s) - 1) : Append(Front(s), e)[i] = Front(s)[i]
      /\ Append(Front(s), e)[Len(s)] = e
  BY <1>1, AppendProperties, LenProperties
<1> QED
  BY <1>1, <1>2

\* A queue without its head.
LEMMA TailFacts ==
  ASSUME NEW S, NEW s \in Seq(S), s # <<>>
  PROVE  /\ Tail(s) \in Seq(S) /\ Len(Tail(s)) = Len(s) - 1
         /\ DOMAIN Tail(s) = 1..(Len(s) - 1)
         /\ DOMAIN s = 1..Len(s) /\ Len(s) \in Nat \ {0}
         /\ \A i \in 1..(Len(s) - 1) : Tail(s)[i] = s[i + 1]
         /\ Head(s) = s[1] /\ Head(s) \in S
<1>1. Len(s) \in Nat \ {0} /\ DOMAIN s = 1..Len(s)
  BY EmptySeq, LenProperties
<1>2. /\ Head(s) \in S /\ Tail(s) \in Seq(S) /\ Len(Tail(s)) = Len(s) - 1
      /\ \A i \in 1..(Len(s) - 1) : Tail(s)[i] = s[i + 1]
  BY HeadTailProperties
<1> QED
  BY <1>1, <1>2, LenProperties

\* A stack onto which n elements are pushed at once.
LEMMA ConcatFacts ==
  ASSUME NEW S, NEW s \in Seq(S), NEW n \in Nat, NEW t \in [1..n -> S]
  PROVE  /\ s \o t \in Seq(S) /\ Len(s \o t) = Len(s) + n
         /\ Len(s) \in Nat
         /\ \A i \in 1..Len(s) : (s \o t)[i] = s[i]
         /\ \A i \in 1..n : (s \o t)[Len(s) + i] = t[i]
<1>1. t \in Seq(S) /\ Len(t) = n /\ Len(s) \in Nat
  BY FunctionIsSeq, LenProperties
<1> QED
  BY <1>1, ConcatProperties

\* A stack from which all but n elements are popped at once.
LEMMA PrefixFacts ==
  ASSUME NEW S, NEW s \in Seq(S), NEW n \in 0..Len(s)
  PROVE  /\ SubSeq(s, 1, n) \in Seq(S) /\ Len(SubSeq(s, 1, n)) = n
         /\ \A i \in 1..n : SubSeq(s, 1, n)[i] = s[i]
<1>1. Len(s) \in Nat /\ \A i \in 1..n : s[i] \in S
  BY LenProperties, ElementOfSeq
<1>2. /\ SubSeq(s, 1, n) \in Seq(S)
      /\ Len(SubSeq(s, 1, n)) = IF 1 <= n THEN n - 1 + 1 ELSE 0
      /\ \A i \in 1..n - 1 + 1 : SubSeq(s, 1, n)[i] = s[1 + i - 1]
  BY <1>1, SubSeqProperties
<1> QED
  BY <1>1, <1>2

\* std::reverse
LEMMA ReverseFacts ==
  ASSUME NEW S, NEW s \in Seq(S)
  PROVE  /\ Reverse(s) \in Seq(S) /\ Len(Reverse(s)) = Len(s)
         /\ DOMAIN Reverse(s) = 1..Len(s) /\ DOMAIN s = 1..Len(s) /\ Len(s) \in Nat
         /\ \A i \in 1..Len(s) : Reverse(s)[i] = s[Len(s) - i + 1]
<1>1. /\ DOMAIN s = 1..Len(s) /\ Len(s) \in Nat
      /\ \A i \in 1..Len(s) : s[Len(s) - i + 1] \in S
  BY LenProperties, ElementOfSeq
<1>2. Reverse(s) \in [1..Len(s) -> S]
  BY <1>1 DEF Reverse
<1> QED
  BY <1>1, <1>2, FunctionIsSeq DEF Reverse

\* A stack of two elements.
LEMMA AppendTwo ==
  ASSUME NEW a, NEW b
  PROVE  Append(<<a>>, b) = <<a, b>>
<1> DEFINE S == {a, b}
<1>1. /\ <<a>> \in Seq(S) /\ Len(<<a>>) = 1 /\ <<a>>[1] = a /\ b \in S
      /\ <<a, b>> \in Seq(S) /\ Len(<<a, b>>) = 2 /\ <<a, b>>[1] = a /\ <<a, b>>[2] = b
  OBVIOUS
<1> HIDE DEF S
<1>2. /\ Append(<<a>>, b) \in Seq(S) /\ Len(Append(<<a>>, b)) = 2
      /\ Append(<<a>>, b)[1] = a /\ Append(<<a>>, b)[2] = b
  BY <1>1, AppendProperties
<1>3. \A i \in 1..2 : Append(<<a>>, b)[i] = <<a, b>>[i]
  BY <1>1, <1>2
<1> QED
  BY <1>1, <1>2, <1>3, SeqEqual

-------------------------------------------------------------------------------
(* The naturals are well founded: n is below m when 1..n is a proper part *)
(* of 1..m, and that order on finite sets is.                             *)

\* A set of naturals has a least element.
LEMMA LeastNatural ==
  ASSUME NEW T \in SUBSET Nat, T # {}
  PROVE  \E n \in T : \A m \in T : n <= m
<1> DEFINE X == {1..n : n \in T}
           R == StrictSubsetOrdering(Nat)
<1>1. X \subseteq FiniteSubsetsOf(Nat) /\ X # {}
  <2>1. \A n \in T : 1..n \in SUBSET Nat /\ IsFiniteSet(1..n)
    BY FS_Interval
  <2> QED
    BY <2>1 DEF FiniteSubsetsOf
<1>2. IsWellFoundedOn(R, FiniteSubsetsOf(Nat))
  BY FS_StrictSubsetOrderingWellFounded
<1> HIDE DEF X, R
<1>3. PICK x \in X : \A y \in X : <<y, x>> \notin R
  BY <1>1, <1>2, WFMin
<1>4. PICK n \in T : x = 1..n
  BY DEF X
<1>5. ASSUME NEW m \in T, m < n PROVE FALSE
  <2>1. 1..m \in X /\ 1..n \in X
    BY DEF X
  <2>2. 1..m \subseteq 1..n /\ n \in 1..n /\ n \notin 1..m
    BY <1>5
  <2>3. <<1..m, 1..n>> \in R
    BY <2>2 DEF R, StrictSubsetOrdering
  <2> QED
    BY <1>3, <1>4, <2>1, <2>3
<1> QED
  BY <1>5

\* So the minimum that Min chooses is there.
LEMMA MinFacts ==
  ASSUME NEW T \in SUBSET Nat, T # {}
  PROVE  Min(T) \in T /\ \A m \in T : Min(T) <= m
BY LeastNatural DEF Min

\* And the maximum that Max chooses, when there is a bound.
LEMMA MaxFacts ==
  ASSUME NEW n \in Nat, NEW T \in SUBSET (0..n), T # {}
  PROVE  Max(T) \in T /\ \A m \in T : m <= Max(T)
<1> DEFINE D == {k \in 0..n : n - k \in T}
<1>1. D \in SUBSET Nat /\ \A k \in D : k \in 0..n /\ n - k \in T
  OBVIOUS
<1>2. \A m \in T : m \in 0..n /\ n - m \in 0..n /\ n - (n - m) = m
  OBVIOUS
<1>3. \A m \in T : n - m \in D
  BY <1>2
<1> HIDE DEF D
<1>4. D # {}
  BY <1>3
<1>5. PICK k \in D : \A e \in D : k <= e
  BY <1>1, <1>4, LeastNatural
<1>6. \A m \in T : n - k >= m
  <2> TAKE m \in T
  <2>1. k \in 0..n /\ n - k \in T
    BY <1>1
  <2>2. k <= n - m
    BY <1>3, <1>5
  <2> QED
    BY <1>2, <2>1, <2>2
<1>7. n - k \in T
  BY <1>1
<1>8. Max(T) = CHOOSE x \in T : \A y \in T : x >= y
  BY DEF Max
<1>9. Max(T) \in T /\ \A y \in T : Max(T) >= y
  BY <1>6, <1>8, <1>7
<1> QED
  BY <1>2, <1>9

\* A function that joins the sequences of another, as FlattenSeq defines it, exists.
LEMMA JoinExists ==
  ASSUME NEW n \in Nat, NEW seqs
  PROVE  \E f : f = [i \in 1..n |-> IF i = 1 THEN seqs[i] ELSE f[i - 1] \o seqs[i]]
<1> DEFINE Join(f, m) == f = [i \in 1..m |-> IF i = 1 THEN seqs[i] ELSE f[i - 1] \o seqs[i]]
           T == {m \in Nat : ~\E f : Join(f, m)}
<1>1. SUFFICES ASSUME T # {} PROVE FALSE
  OBVIOUS
<1>2. PICK m \in T : \A k \in T : m <= k
  <2>1. T \in SUBSET Nat
    OBVIOUS
  <2> HIDE DEF T
  <2> QED
    BY <1>1, <2>1, LeastNatural
<1>3. m # 0
  <2>1. SUFFICES ASSUME m = 0 PROVE FALSE
    OBVIOUS
  <2>2. PICK f : f = [i \in 1..0 |-> <<>>]
    OBVIOUS
  <2>3. f = [i \in 1..0 |-> IF i = 1 THEN seqs[i] ELSE f[i - 1] \o seqs[i]]
    BY <2>2
  <2> QED
    BY <2>1, <2>3
<1>4. m \in Nat /\ m - 1 \in Nat /\ ~(m <= m - 1)
  BY <1>3
<1>5. PICK g : Join(g, m - 1)
  BY <1>2, <1>4
<1>6. PICK h : h = [i \in 1..m |-> IF i = m THEN (IF i = 1 THEN seqs[i] ELSE g[i - 1] \o seqs[i]) ELSE g[i]]
  OBVIOUS
<1>7. \A i \in 1..m : i # m => i \in 1..m - 1
  BY <1>4
<1>8. \A i \in 1..m - 1 : h[i] = g[i] /\ i \in 1..m
  BY <1>4, <1>6
<1>9. \A i \in 1..m : i # 1 => i - 1 \in 1..m - 1
  BY <1>4
<1>10. ASSUME NEW i \in 1..m PROVE h[i] = IF i = 1 THEN seqs[i] ELSE h[i - 1] \o seqs[i]
  <2>1. CASE i = m
    BY <1>6, <1>8, <1>9, <2>1
  <2>2. CASE i # m
    <3>1. h[i] = g[i] /\ i \in 1..m - 1
      BY <1>7, <1>8, <2>2
    <3>2. g[i] = IF i = 1 THEN seqs[i] ELSE g[i - 1] \o seqs[i]
      BY <1>5, <3>1
    <3> QED
      BY <1>8, <1>9, <3>1, <3>2
  <2> QED
    BY <2>1, <2>2
<1>11. Join(h, m)
  <2>1. h = [i \in 1..m |-> h[i]]
    BY <1>6
  <2>2. [i \in 1..m |-> h[i]] = [i \in 1..m |-> IF i = 1 THEN seqs[i] ELSE h[i - 1] \o seqs[i]]
    BY <1>10
  <2> QED
    BY <2>1, <2>2
<1> QED
  BY <1>2, <1>11

\* flat has the elements of the first m of seqs, one sequence after the other:
\* that at q is number place[q] of sequence part[q].
Joins(flat, seqs, m, part, place) ==
  /\ part \in [1..Len(flat) -> 1..m] /\ place \in [1..Len(flat) -> Nat]
  /\ \A q \in 1..Len(flat) :
       place[q] \in 1..Len(seqs[part[q]]) /\ flat[q] = seqs[part[q]][place[q]]
  /\ \A q, r \in 1..Len(flat) : q < r => part[q] < part[r] \/ (part[q] = part[r] /\ place[q] < place[r])
  /\ \A i \in 1..m : \A k \in 1..Len(seqs[i]) : \E q \in 1..Len(flat) : part[q] = i /\ place[q] = k

\* One more of them.
LEMMA JoinStep ==
  ASSUME NEW S, NEW flat \in Seq(S), NEW seqs, NEW m \in Nat, NEW part, NEW place, Joins(flat, seqs, m, part, place),
         seqs[m + 1] \in Seq(S)
  PROVE  /\ flat \o seqs[m + 1] \in Seq(S)
         /\ \E p, l : Joins(flat \o seqs[m + 1], seqs, m + 1, p, l)
<1>1. PICK s \in Seq(S) : s = seqs[m + 1]
  OBVIOUS
<1>2. PICK n, k \in Nat : n = Len(flat) /\ k = Len(s) /\ s \in [1..k -> S]
  BY LenProperties
<1>3. PICK all : all = flat \o s
  OBVIOUS
<1>4. /\ all \in Seq(S) /\ Len(all) = n + k
      /\ \A i \in 1..n : all[i] = flat[i]
      /\ \A i \in 1..k : all[n + i] = s[i]
  BY <1>2, <1>3, ConcatFacts
<1>5. PICK p, l : /\ p = [q \in 1..n + k |-> IF q <= n THEN part[q] ELSE m + 1]
                  /\ l = [q \in 1..n + k |-> IF q <= n THEN place[q] ELSE q - n]
  OBVIOUS
<1>6. \A q \in 1..n : part[q] \in 1..m /\ place[q] \in Nat
  BY <1>2 DEF Joins
<1>7. \A q \in 1..n + k : \/ q \in 1..n /\ q <= n
                          \/ q - n \in 1..k /\ q = n + (q - n) /\ ~(q <= n)
  BY <1>2
<1>8. \A q \in 1..n : q \in 1..n + k /\ p[q] = part[q] /\ l[q] = place[q]
  BY <1>2, <1>5
<1>9. \A q \in 1..k : n + q \in 1..n + k /\ p[n + q] = m + 1 /\ l[n + q] = q
  BY <1>2, <1>5
<1>10. p \in [1..n + k -> 1..m + 1] /\ l \in [1..n + k -> Nat]
  <2>1. ASSUME NEW q \in 1..n + k
        PROVE  p[q] \in 1..m + 1 /\ l[q] \in Nat
    <3>1. CASE q \in 1..n
      <4>1. p[q] \in 1..m /\ l[q] \in Nat
        BY <1>6, <1>8, <3>1
      <4> QED
        BY <4>1
    <3>2. CASE q - n \in 1..k /\ ~(q <= n)
      <4>1. p[q] = m + 1 /\ l[q] = q - n
        BY <1>5, <3>2
      <4> QED
        BY <3>2, <4>1
    <3> QED
      BY <1>7, <3>1, <3>2
  <2> QED
    BY <1>5, <2>1
<1>11. ASSUME NEW q \in 1..n + k
       PROVE  l[q] \in 1..Len(seqs[p[q]]) /\ all[q] = seqs[p[q]][l[q]]
  <2>1. CASE q \in 1..n
    <3>1. place[q] \in 1..Len(seqs[part[q]]) /\ flat[q] = seqs[part[q]][place[q]]
      BY <1>2, <2>1 DEF Joins
    <3> QED
      BY <1>4, <1>8, <2>1, <3>1
  <2>2. CASE q - n \in 1..k /\ q = n + (q - n)
    <3>1. PICK j \in 1..k : j = q - n /\ q = n + j
      BY <2>2
    <3>2. p[q] = m + 1 /\ l[q] = j
      BY <1>9, <3>1
    <3>3. all[q] = s[j]
      BY <1>4, <3>1
    <3>4. j \in 1..Len(s) /\ seqs[p[q]] = s
      BY <1>1, <1>2, <3>1, <3>2
    <3> QED
      BY <3>2, <3>3, <3>4
  <2> QED
    BY <1>7, <2>1, <2>2
<1>12. ASSUME NEW q \in 1..n + k, NEW r \in 1..n + k, q < r
       PROVE  p[q] < p[r] \/ (p[q] = p[r] /\ l[q] < l[r])
  <2>1. CASE q \in 1..n /\ r \in 1..n
    <3>1. part[q] < part[r] \/ (part[q] = part[r] /\ place[q] < place[r])
      BY <1>2, <1>12, <2>1 DEF Joins
    <3>2. p[q] = part[q] /\ p[r] = part[r] /\ l[q] = place[q] /\ l[r] = place[r]
      BY <1>8, <2>1
    <3> QED
      BY <3>1, <3>2
  <2>2. CASE q \in 1..n /\ r - n \in 1..k /\ r = n + (r - n)
    <3>1. p[q] \in 1..m /\ p[r] = m + 1
      BY <1>6, <1>8, <1>9, <2>2
    <3> QED
      BY <3>1
  <2>3. CASE q - n \in 1..k /\ q = n + (q - n)
    <3>1. r - n \in 1..k /\ r = n + (r - n)
      BY <1>2, <1>12, <2>3
    <3>2. PICK i, j \in 1..k : i = q - n /\ q = n + i /\ j = r - n /\ r = n + j
      BY <2>3, <3>1
    <3>3. p[q] = m + 1 /\ l[q] = i /\ p[r] = m + 1 /\ l[r] = j /\ i < j
      BY <1>2, <1>9, <1>12, <3>2
    <3> QED
      BY <3>3
  <2> QED
    BY <1>7, <2>1, <2>2, <2>3
<1>13. ASSUME NEW i \in 1..m + 1, NEW j \in 1..Len(seqs[i])
       PROVE  \E q \in 1..n + k : p[q] = i /\ l[q] = j
  <2>1. CASE i \in 1..m
    <3>1. PICK q \in 1..n : part[q] = i /\ place[q] = j
      BY <1>2, <2>1 DEF Joins
    <3> QED
      BY <1>8, <3>1
  <2>2. CASE i = m + 1
    <3>1. j \in 1..k
      BY <1>1, <1>2, <2>2
    <3> QED
      BY <1>9, <2>2, <3>1
  <2> QED
    BY <2>1, <2>2
<1>14. Joins(all, seqs, m + 1, p, l)
  BY <1>4, <1>10, <1>11, <1>12, <1>13 DEF Joins
<1> QED
  BY <1>1, <1>3, <1>4, <1>14

\* FlattenSeq() joins one sequence after the other.
LEMMA FlattenSteps ==
  ASSUME NEW n \in Nat \ {0}, NEW seqs, Len(seqs) = n
  PROVE  \E flatten : /\ flatten = [i \in 1..n |-> IF i = 1 THEN seqs[i] ELSE flatten[i - 1] \o seqs[i]]
                      /\ FlattenSeq(seqs) = flatten[n]
<1>1. PICK f : f = [i \in 1..n |-> IF i = 1 THEN seqs[i] ELSE f[i - 1] \o seqs[i]]
  BY JoinExists
<1>2. PICK g : g = CHOOSE h : h = [i \in 1..n |-> IF i = 1 THEN seqs[i] ELSE h[i - 1] \o seqs[i]]
  OBVIOUS
<1>3. g = [i \in 1..n |-> IF i = 1 THEN seqs[i] ELSE g[i - 1] \o seqs[i]]
  BY <1>1, <1>2
<1>4. FlattenSeq(seqs) = g[n]
  BY <1>2 DEF FlattenSeq
<1> QED
  BY <1>3, <1>4

\* FlattenSeq joins them all.
LEMMA FlattenFacts ==
  ASSUME NEW S, NEW seqs \in Seq(Seq(S))
  PROVE  /\ FlattenSeq(seqs) \in Seq(S)
         /\ \E part, place : Joins(FlattenSeq(seqs), seqs, Len(seqs), part, place)
<1>1. PICK n \in Nat : n = Len(seqs) /\ \A i \in 1..n : seqs[i] \in Seq(S)
  BY LenProperties, ElementOfSeq
<1>2. ASSUME NEW part, NEW place, part = [q \in 1..0 |-> 0], place = [q \in 1..0 |-> 0]
      PROVE  Joins(<<>>, seqs, 0, part, place)
  <2>1. Len(<<>>) = 0 /\ 1..0 = {}
    OBVIOUS
  <2> QED
    BY <1>2, <2>1 DEF Joins
<1>3. \E p, l : Joins(<<>>, seqs, 0, p, l)
  BY <1>2
<1>4. CASE n = 0
  <2>1. seqs = <<>> /\ FlattenSeq(seqs) = seqs
    BY <1>1, <1>4, EmptySeq DEF FlattenSeq
  <2>2. <<>> \in Seq(S)
    OBVIOUS
  <2> QED
    BY <1>1, <1>3, <1>4, <2>1, <2>2
<1>5. CASE n # 0
  <2>2. PICK flatten : /\ flatten = [i \in 1..n |-> IF i = 1 THEN seqs[i] ELSE flatten[i - 1] \o seqs[i]]
                       /\ FlattenSeq(seqs) = flatten[n]
    BY <1>1, <1>5, FlattenSteps
  <2> DEFINE T == {m \in 1..n : ~(flatten[m] \in Seq(S) /\ \E p, l : Joins(flatten[m], seqs, m, p, l))}
  <2>3. T = {}
    <3>1. SUFFICES ASSUME T # {} PROVE FALSE
      OBVIOUS
    <3>2. PICK m \in T : \A k \in T : m <= k
      <4>1. T \in SUBSET Nat
        OBVIOUS
      <4> HIDE DEF T
      <4> QED
        BY <3>1, <4>1, LeastNatural
    <3>3. m \in 1..n /\ m - 1 \in Nat /\ m - 1 + 1 = m /\ seqs[m] \in Seq(S)
      BY <1>1, <3>2
    <3>4. PICK flat : /\ flat \in Seq(S) /\ flatten[m] = flat \o seqs[m]
                      /\ \E p, l : Joins(flat, seqs, m - 1, p, l)
      <4>1. CASE m = 1
        <5>1. flatten[m] = seqs[m]
          BY <2>2, <3>3, <4>1
        <5>2. <<>> \o seqs[m] = seqs[m] /\ <<>> \in Seq(S)
          BY <3>3
        <5>3. flatten[m] = <<>> \o seqs[m] /\ m - 1 = 0
          BY <4>1, <5>1, <5>2
        <5> QED
          BY <1>3, <5>2, <5>3
      <4>2. CASE m # 1
        <5>1. flatten[m] = flatten[m - 1] \o seqs[m]
          BY <2>2, <3>3, <4>2
        <5>2. m - 1 \in 1..n /\ ~(m <= m - 1)
          BY <3>3, <4>2
        <5>3. m - 1 \notin T
          BY <3>2, <5>2
        <5>4. flatten[m - 1] \in Seq(S) /\ \E p, l : Joins(flatten[m - 1], seqs, m - 1, p, l)
          BY <5>2, <5>3
        <5> QED
          BY <5>1, <5>4
      <4> QED
        BY <4>1, <4>2
    <3>5. PICK k \in Nat, s \in Seq(S) : k = m - 1 /\ k + 1 = m /\ s = seqs[m]
      BY <3>3
    <3>6. PICK p, l : Joins(flat, seqs, k, p, l)
      BY <3>4, <3>5
    <3>7. /\ flat \o seqs[k + 1] \in Seq(S)
          /\ \E pp, ll : Joins(flat \o seqs[k + 1], seqs, k + 1, pp, ll)
      BY <3>4, <3>5, <3>6, JoinStep
    <3> QED
      BY <3>2, <3>4, <3>5, <3>7
  <2>4. n \in 1..n
    BY <1>1, <1>5
  <2>5. flatten[n] \in Seq(S) /\ \E p, l : Joins(flatten[n], seqs, n, p, l)
    BY <2>3, <2>4
  <2> QED
    BY <1>1, <2>2, <2>5
<1> QED
  BY <1>4, <1>5
===============================================================================
