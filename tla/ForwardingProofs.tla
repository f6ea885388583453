--------------------------- MODULE ForwardingProofs ---------------------------
(* Forwarding for any clients, providers, registrations and requests: what a *)
(* query found in the local database is in its answer, every value of the    *)
(* answer was true while the query was served, and the answer to an update   *)
(* leaves none of its attributes out, wherever they were forwarded to.       *)
EXTENDS Forwarding, FiniteSetTheorems, WellFoundedInduction, TLAPS

-----------------------------------------------------------------------------
(* Sequences                                                                *)

LEMMA Least == ASSUME NEW T \in SUBSET Nat, T # {} PROVE \E x \in T : \A y \in T : x <= y
  <1> DEFINE R == {ss \in Nat \X Nat : ss[1] < ss[2]}
  <1>1. IsWellFoundedOn(R, Nat)
    BY NatLessThanWellFounded DEF OpToRel
  <1> HIDE DEF R
  <1>2. \E x \in T : \A y \in T : ~ (<<y, x>> \in R)
    BY <1>1, WFMin
  <1>3. PICK x \in T : \A y \in T : ~ (<<y, x>> \in R)
    BY <1>2
  <1>4. ASSUME NEW y \in T PROVE x <= y
    <2>1. <<y, x>> \notin R
      BY <1>3
    <2>2. <<y, x>> \in Nat \X Nat
      OBVIOUS
    <2>3. ~(y < x)
      BY <2>1, <2>2 DEF R
    <2>4. y \in Nat /\ x \in Nat
      OBVIOUS
    <2> QED BY <2>3, <2>4
  <1> QED BY <1>4

LEMMA SetInduction ==
  ASSUME NEW S \in SUBSET Nat, 0 \in S, \A n \in S : n + 1 \in S
  PROVE  S = Nat
  <1>1. SUFFICES ASSUME Nat \ S # {} PROVE FALSE
    OBVIOUS
  <1>2. PICK x \in Nat \ S : \A y \in Nat \ S : x <= y
    BY <1>1, Least
  <1>3. x # 0 /\ x - 1 \in S
    BY <1>2
  <1> QED BY <1>2, <1>3

\* The recursive function of FlattenSeq, as far as one of the sequences.
Flattens(f, ss) ==
  f = [i \in 1..Len(ss) |-> IF i = 1 THEN ss[i] ELSE f[i - 1] \o ss[i]]

LEMMA FlattenFunction ==
  ASSUME NEW ss, Len(ss) \in Nat
  PROVE  \E f : Flattens(f, ss)
  <1> DEFINE Upto(f, n) == f = [i \in 1..n |-> IF i = 1 THEN ss[i] ELSE f[i - 1] \o ss[i]]
             S == {n \in Nat : \E f : Upto(f, n)}
  <1>1. 0 \in S
    <2>1. Upto([i \in 1..0 |-> 0], 0)
      OBVIOUS
    <2> QED BY <2>1
  <1>2. ASSUME NEW n \in S PROVE n + 1 \in S
    <2>1. PICK f : Upto(f, n)
      BY <1>2
    <2> DEFINE g == [i \in 1..(n + 1) |-> IF i = n + 1 THEN (IF i = 1 THEN ss[i] ELSE f[i - 1] \o ss[i])
                                          ELSE f[i]]
    <2>2. ASSUME NEW i \in 1..(n + 1)
          PROVE  g[i] = IF i = 1 THEN ss[i] ELSE g[i - 1] \o ss[i]
      <3>1. n \in Nat
        OBVIOUS
      <3>2. CASE i = n + 1
        <4>1. i # 1 => i - 1 \in 1..(n+1) /\ i - 1 # n + 1
          BY <3>1, <3>2
        <4>2. i # 1 => g[i-1] = f[i-1]
          BY <4>1
        <4> QED BY <3>2, <4>2
      <3>3. CASE i # n + 1
        <4>1. i \in 1..n
          BY <3>1, <3>3
        <4>2. f[i] = IF i = 1 THEN ss[i] ELSE f[i - 1] \o ss[i]
          BY <2>1, <4>1
        <4>3. i # 1 => i - 1 \in 1..(n+1) /\ i - 1 # n + 1
          BY <3>1, <4>1
        <4>4. i # 1 => g[i-1] = f[i-1]
          BY <4>3
        <4> QED BY <3>3, <4>2, <4>4
      <3> QED BY <3>2, <3>3
    <2>3. Upto(g, n + 1)
      <3>1. g = [i \in 1..(n + 1) |-> g[i]]
        OBVIOUS
      <3> HIDE DEF g
      <3> QED BY <2>2, <3>1
    <2> HIDE DEF g, Upto
    <2> QED BY <2>3
  <1> HIDE DEF Upto
  <1>3. S = Nat
    <2> DEFINE Q == S
    <2>1. Q \in SUBSET Nat /\ 0 \in Q /\ \A n \in Q : n + 1 \in Q
      BY <1>1, <1>2
    <2> HIDE DEF Q
    <2>2. Q = Nat
      BY <2>1, SetInduction
    <2> QED BY <2>2 DEF Q
  <1> QED BY <1>3 DEF Upto, Flattens

LEMMA FlattenUnfold ==
  ASSUME NEW ss, Len(ss) \in Nat \ {0}
  PROVE  \E f : Flattens(f, ss) /\ FlattenSeq(ss) = f[Len(ss)]
  <1>1. \E f : Flattens(f, ss)
    BY FlattenFunction
  <1>2. FlattenSeq(ss) = (CHOOSE f : Flattens(f, ss))[Len(ss)]
    BY Zenon DEF FlattenSeq, Flattens
  <1> QED BY <1>1, <1>2

LEMMA RangeConcat ==
  ASSUME NEW X, NEW s \in Seq(X), NEW t \in Seq(X)
  PROVE  s \o t \in Seq(X) /\ Range(s \o t) = Range(s) \union Range(t)
  <1>1. /\ s \o t \in Seq(X) /\ Len(s \o t) = Len(s) + Len(t)
        /\ \A i \in 1..(Len(s) + Len(t)) : (s \o t)[i] = IF i <= Len(s) THEN s[i] ELSE t[i - Len(s)]
        /\ DOMAIN s = 1..Len(s) /\ DOMAIN t = 1..Len(t) /\ Len(s) \in Nat /\ Len(t) \in Nat
    OBVIOUS
  <1>2. DOMAIN (s \o t) = 1..(Len(s) + Len(t))
    BY <1>1
  <1> DEFINE u == s \o t
  <1> HIDE DEF u
  <1>3. ASSUME NEW x \in Range(u) PROVE x \in Range(s) \union Range(t)
    <2>1. PICK i \in 1..(Len(s) + Len(t)) : x = u[i]
      BY <1>2, <1>3 DEF Range, u
    <2>2. CASE i <= Len(s)
      BY <1>1, <2>1, <2>2 DEF Range, u
    <2>3. CASE ~(i <= Len(s))
      <3>1. i - Len(s) \in 1..Len(t) /\ x = t[i - Len(s)]
        BY <1>1, <2>1, <2>3 DEF u
      <3> QED BY <1>1, <3>1 DEF Range
    <2> QED BY <2>2, <2>3
  <1>4. ASSUME NEW x \in Range(s) PROVE x \in Range(u)
    <2>1. PICK i \in 1..Len(s) : x = s[i]
      BY <1>1, <1>4 DEF Range
    <2>2. i \in 1..(Len(s) + Len(t)) /\ u[i] = x
      BY <1>1, <2>1 DEF u
    <2> QED BY <1>2, <2>2 DEF Range, u
  <1>5. ASSUME NEW x \in Range(t) PROVE x \in Range(u)
    <2>1. PICK i \in 1..Len(t) : x = t[i]
      BY <1>1, <1>5 DEF Range
    <2>2. i + Len(s) \in 1..(Len(s) + Len(t)) /\ ~(i + Len(s) <= Len(s)) /\ (i + Len(s)) - Len(s) = i
      BY <1>1, <2>1
    <2>3. u[i + Len(s)] = x
      BY <1>1, <2>1, <2>2 DEF u
    <2> QED BY <1>2, <2>2, <2>3 DEF Range, u
  <1>6. Range(u) = Range(s) \union Range(t)
    BY <1>3, <1>4, <1>5
  <1> QED BY <1>1, <1>6 DEF u

\* FlattenSeq: a sequence of all the elements of the sequences.
LEMMA FlattenElements ==
  ASSUME NEW X, NEW ss \in Seq(Seq(X))
  PROVE  /\ FlattenSeq(ss) \in Seq(X)
         /\ \A x : x \in Range(FlattenSeq(ss)) <=> \E i \in DOMAIN ss : x \in Range(ss[i])
  <1>1. CASE ss = <<>>
    BY <1>1 DEF FlattenSeq, Range
  <1>2. CASE ss # <<>>
    <2>1. Len(ss) \in Nat \ {0} /\ DOMAIN ss = 1..Len(ss)
      BY <1>2
    <2>2. PICK f : Flattens(f, ss) /\ FlattenSeq(ss) = f[Len(ss)]
      BY <2>1, FlattenUnfold
    <2> DEFINE P(n) == n \in 1..Len(ss) => /\ f[n] \in Seq(X)
                                          /\ \A x : x \in Range(f[n]) <=> \E i \in 1..n : x \in Range(ss[i])
               S == {n \in Nat : P(n)}
    <2>3. 0 \in S
      BY <2>1
    <2>4. ASSUME NEW n \in S PROVE n + 1 \in S
      <3>1. CASE n + 1 \notin 1..Len(ss)
        BY <3>1
      <3>2. CASE n + 1 = 1
        <4>1. f[1] = ss[1]
          BY <2>1, <2>2 DEF Flattens
        <4>2. 1..1 = {1}
          OBVIOUS
        <4>3. \A x : x \in Range(ss[1]) <=> \E i \in {1} : x \in Range(ss[i])
          OBVIOUS
        <4>4. P(1)
          BY <2>1, <4>1, <4>2, <4>3
        <4> QED BY <3>2, <4>4
      <3>3. CASE n + 1 # 1 /\ n + 1 \in 1..Len(ss)
        <4>1. n \in 1..Len(ss) /\ n \in Nat
          BY <3>3
        <4>2. f[n + 1] = f[n] \o ss[n + 1]
          <5>1. f[n + 1] = IF n + 1 = 1 THEN ss[n + 1] ELSE f[(n + 1) - 1] \o ss[n + 1]
            BY <2>2, <3>3 DEF Flattens
          <5>2. (n + 1) - 1 = n
            BY <4>1
          <5> QED BY <3>3, <5>1, <5>2
        <4>3. f[n] \in Seq(X) /\ \A x : x \in Range(f[n]) <=> \E i \in 1..n : x \in Range(ss[i])
          BY <2>4, <4>1
        <4>4. ss[n + 1] \in Seq(X)
          BY <2>1, <3>3
        <4>5. f[n + 1] \in Seq(X) /\ Range(f[n + 1]) = Range(f[n]) \union Range(ss[n + 1])
          BY <4>2, <4>3, <4>4, RangeConcat
        <4>6. 1..(n + 1) = 1..n \union {n + 1}
          BY <4>1
        <4>7. \A x : x \in Range(f[n + 1]) <=> \E i \in 1..n \union {n + 1} : x \in Range(ss[i])
          <5> HIDE DEF S, P
          <5> QED BY <4>3, <4>5
        <4>8. P(n + 1)
          BY <4>5, <4>6, <4>7
        <4>9. n + 1 \in Nat
          BY <4>1
        <4> QED BY <4>8, <4>9
      <3> QED BY <3>1, <3>2, <3>3
    <2> HIDE DEF P
    <2>5. Len(ss) \in S
      <3> DEFINE Q == S
      <3>1. Q \in SUBSET Nat /\ 0 \in Q /\ \A n \in Q : n + 1 \in Q
        BY <2>3, <2>4
      <3> HIDE DEF Q
      <3>2. Q = Nat
        BY <3>1, SetInduction
      <3> QED BY <2>1, <3>2 DEF Q
    <2>6. P(Len(ss)) /\ Len(ss) \in 1..Len(ss)
      BY <2>1, <2>5
    <2> HIDE DEF S
    <2>7. /\ f[Len(ss)] \in Seq(X)
          /\ \A x : x \in Range(f[Len(ss)]) <=> \E i \in 1..Len(ss) : x \in Range(ss[i])
      BY <2>6, Zenon DEF P
    <2> QED BY <2>1, <2>2, <2>7
  <1> QED BY <1>1, <1>2

LEMMA SeqWiden ==
  ASSUME NEW X, NEW Y, X \subseteq Y, NEW s \in Seq(X)
  PROVE  s \in Seq(Y)
  OBVIOUS

LEMMA SeqOwnRange ==
  ASSUME NEW X, NEW s \in Seq(X)
  PROVE  s \in Seq(Range(s))
  <1>1. /\ Len(s) \in Nat /\ s = [i \in 1..Len(s) |-> s[i]] /\ DOMAIN s = 1..Len(s)
    OBVIOUS
  <1>2. s \in [1..Len(s) -> Range(s)]
    BY <1>1 DEF Range
  <1> QED BY <1>1, <1>2

LEMMA FlattenSeqs ==
  ASSUME NEW n \in Nat, NEW ss, ss = [i \in 1..n |-> ss[i]], \A i \in 1..n : IsSeq(ss[i])
  PROVE  /\ IsSeq(FlattenSeq(ss))
         /\ \A x : x \in Range(FlattenSeq(ss)) <=> \E i \in 1..n : x \in Range(ss[i])
  <1> DEFINE X == UNION {Range(ss[i]) : i \in 1..n}
  <1>1. ASSUME NEW i \in 1..n PROVE ss[i] \in Seq(X)
    <2> DEFINE s == ss[i]
    <2>1. s \in Seq(Range(s)) /\ Range(s) \subseteq X
      BY DEF IsSeq
    <2> HIDE DEF s, X
    <2>2. s \in Seq(X)
      BY <2>1, SeqWiden
    <2> QED BY <2>2 DEF s
  <1>2. ss \in Seq(Seq(X)) /\ DOMAIN ss = 1..n
    <2> HIDE DEF X
    <2>1. ss \in [1..n -> Seq(X)]
      BY <1>1
    <2> QED BY <2>1
  <1> HIDE DEF X
  <1>3. /\ FlattenSeq(ss) \in Seq(X)
        /\ \A x : x \in Range(FlattenSeq(ss)) <=> \E i \in 1..n : x \in Range(ss[i])
    BY <1>2, FlattenElements
  <1> DEFINE t == FlattenSeq(ss)
  <1> HIDE DEF t
  <1>4. t \in Seq(X)
    BY <1>3 DEF t
  <1>5. IsSeq(t)
    BY <1>4, SeqOwnRange DEF IsSeq
  <1> QED BY <1>3, <1>5 DEF t

LEMMA SeqDomain ==
  ASSUME NEW s, IsSeq(s)
  PROVE  /\ Len(s) \in Nat /\ DOMAIN s = 1..Len(s) /\ s = [i \in 1..Len(s) |-> s[i]]
  BY DEF IsSeq

LEMMA SmallSeqs ==
  /\ IsSeq(<<>>) /\ \A x : x \notin Range(<<>>)
  /\ \A x : IsSeq(<<x>>) /\ \A y : y \in Range(<<x>>) <=> y = x
  <1>1. IsSeq(<<>>) /\ \A x : x \notin Range(<<>>)
    BY DEF IsSeq, Range
  <1>2. ASSUME NEW x PROVE IsSeq(<<x>>) /\ \A y : y \in Range(<<x>>) <=> y = x
    <2>1. Range(<<x>>) = {x}
      BY DEF Range
    <2> QED BY <2>1 DEF IsSeq
  <1> QED BY <1>1, <1>2

LEMMA FunctionSeq ==
  ASSUME NEW n \in Nat, NEW s, s = [i \in 1..n |-> s[i]]
  PROVE  IsSeq(s) /\ Len(s) = n /\ DOMAIN s = 1..n
  <1>1. DOMAIN s = 1..n
    OBVIOUS
  <1>2. s \in [1..n -> Range(s)]
    BY <1>1 DEF Range
  <1>3. s \in Seq(Range(s))
    BY <1>2
  <1>4. Len(s) = n
    BY <1>1, <1>3
  <1> QED BY <1>1, <1>3, <1>4 DEF IsSeq

LEMMA SeqAppend ==
  ASSUME NEW s, IsSeq(s), NEW x
  PROVE  /\ IsSeq(Append(s, x)) /\ Len(Append(s, x)) = Len(s) + 1
         /\ DOMAIN Append(s, x) = 1..(Len(s) + 1)
         /\ \A i \in 1..Len(s) : Append(s, x)[i] = s[i]
         /\ Append(s, x)[Len(s) + 1] = x
  <1> DEFINE t == Append(s, x)
             X == Range(s) \union {x}
  <1>1. s \in Seq(X)
    <2>1. s \in Seq(Range(s)) /\ Range(s) \subseteq X
      BY DEF IsSeq
    <2> HIDE DEF X
    <2> QED BY <2>1, SeqWiden
  <1>2. x \in X
    OBVIOUS
  <1> HIDE DEF X
  <1>3. /\ t \in Seq(X) /\ Len(t) = Len(s) + 1 /\ \A i \in 1..Len(s) : t[i] = s[i]
        /\ t[Len(s) + 1] = x
    BY <1>1, <1>2
  <1> HIDE DEF t
  <1>4. IsSeq(t) /\ DOMAIN t = 1..Len(t)
    BY <1>3, SeqOwnRange DEF IsSeq
  <1> QED BY <1>3, <1>4 DEF t

LEMMA SeqConcat ==
  ASSUME NEW s, NEW t, IsSeq(s), IsSeq(t)
  PROVE  /\ IsSeq(s \o t) /\ Len(s \o t) = Len(s) + Len(t)
         /\ DOMAIN (s \o t) = 1..(Len(s) + Len(t))
         /\ \A i \in 1..Len(s) : (s \o t)[i] = s[i]
         /\ \A i \in 1..Len(t) : (s \o t)[Len(s) + i] = t[i]
  <1> DEFINE u == s \o t
             X == Range(s) \union Range(t)
  <1>1. s \in Seq(X) /\ t \in Seq(X)
    <2>1. s \in Seq(Range(s)) /\ Range(s) \subseteq X /\ t \in Seq(Range(t)) /\ Range(t) \subseteq X
      BY DEF IsSeq
    <2> HIDE DEF X
    <2> QED BY <2>1, SeqWiden
  <1> HIDE DEF X
  <1>2. Len(s) \in Nat /\ Len(t) \in Nat
    BY <1>1
  <1>3. /\ u \in Seq(X) /\ Len(u) = Len(s) + Len(t)
        /\ \A i \in 1..(Len(s) + Len(t)) : u[i] = IF i <= Len(s) THEN s[i] ELSE t[i - Len(s)]
    BY <1>1
  <1> HIDE DEF u
  <1>4. IsSeq(u) /\ DOMAIN u = 1..Len(u)
    BY <1>3, SeqOwnRange DEF IsSeq
  <1>5. ASSUME NEW i \in 1..Len(t) PROVE u[Len(s) + i] = t[i]
    <2>1. Len(s) + i \in 1..(Len(s) + Len(t)) /\ ~(Len(s) + i <= Len(s)) /\ (Len(s) + i) - Len(s) = i
      BY <1>2
    <2> QED BY <1>3, <2>1
  <1>6. ASSUME NEW i \in 1..Len(s) PROVE u[i] = s[i]
    BY <1>2, <1>3
  <1> QED BY <1>3, <1>4, <1>5, <1>6 DEF u

LEMMA SeqExcept ==
  ASSUME NEW s, IsSeq(s), NEW n \in DOMAIN s, NEW x
  PROVE  /\ IsSeq([s EXCEPT ![n] = x]) /\ DOMAIN [s EXCEPT ![n] = x] = DOMAIN s
         /\ Len([s EXCEPT ![n] = x]) = Len(s)
         /\ \A i \in DOMAIN s : [s EXCEPT ![n] = x][i] = IF i = n THEN x ELSE s[i]
  <1>1. Len(s) \in Nat /\ DOMAIN s = 1..Len(s) /\ s = [i \in 1..Len(s) |-> s[i]]
    BY SeqDomain
  <1> DEFINE t == [s EXCEPT ![n] = x]
  <1>2. t = [i \in 1..Len(s) |-> t[i]] /\ \A i \in DOMAIN s : t[i] = IF i = n THEN x ELSE s[i]
    BY <1>1
  <1> HIDE DEF t
  <1>3. IsSeq(t) /\ Len(t) = Len(s) /\ DOMAIN t = DOMAIN s
    BY <1>1, <1>2, FunctionSeq
  <1> QED BY <1>2, <1>3 DEF t

LEMMA SeqEmpty == ASSUME NEW s, IsSeq(s) PROVE s = <<>> <=> DOMAIN s = {}
  BY DEF IsSeq

\* The elements of s that pass a test: v[i] has s[i] or nothing.
Passes(t, s, v) ==
  /\ IsSeq(t)
  /\ \A i \in DOMAIN t : \E j \in DOMAIN s : v[j] # <<>> /\ t[i] = s[j]
  /\ \A j \in DOMAIN s : v[j] # <<>> => \E i \in DOMAIN t : t[i] = s[j]

LEMMA Passing ==
  ASSUME NEW s, IsSeq(s), NEW v, v = [i \in DOMAIN s |-> v[i]],
         \A i \in DOMAIN s : v[i] \in {<<s[i]>>, <<>>}
  PROVE  Passes(FlattenSeq(v), s, v)
  <1>1. Len(s) \in Nat /\ DOMAIN s = 1..Len(s)
    BY SeqDomain
  <1>2. \A i \in 1..Len(s) : IsSeq(v[i])
    BY <1>1, SmallSeqs, Zenon
  <1>3. v = [i \in 1..Len(s) |-> v[i]]
    BY <1>1
  <1> DEFINE t == FlattenSeq(v)
  <1>4. IsSeq(t) /\ \A x : x \in Range(t) <=> \E i \in 1..Len(s) : x \in Range(v[i])
    BY <1>1, <1>2, <1>3, FlattenSeqs
  <1>5. \A j \in DOMAIN s : \A x : x \in Range(v[j]) <=> v[j] # <<>> /\ x = s[j]
    <2> TAKE j \in DOMAIN s
    <2>1. CASE v[j] = <<>>
      BY <2>1, SmallSeqs, Zenon
    <2>2. CASE v[j] = <<s[j]>>
      <3>1. <<s[j]>> # <<>>
        OBVIOUS
      <3> QED BY <2>2, <3>1, SmallSeqs
    <2> QED BY <2>1, <2>2
  <1> HIDE DEF t
  <1>6. ASSUME NEW i \in DOMAIN t PROVE \E j \in DOMAIN s : v[j] # <<>> /\ t[i] = s[j]
    <2>1. t[i] \in Range(t)
      BY DEF Range
    <2> QED BY <1>1, <1>4, <1>5, <2>1
  <1>7. ASSUME NEW j \in DOMAIN s, v[j] # <<>> PROVE \E i \in DOMAIN t : t[i] = s[j]
    <2>1. s[j] \in Range(t)
      BY <1>1, <1>4, <1>5, <1>7
    <2> QED BY <2>1 DEF Range
  <1>8. Passes(t, s, v)
    BY <1>4, <1>6, <1>7 DEF Passes
  <1> QED BY <1>8 DEF t

LEMMA ConcatFirst ==
  ASSUME NEW s, NEW t, IsSeq(s), IsSeq(t), NEW k \in DOMAIN s
  PROVE  k \in DOMAIN (s \o t) /\ (s \o t)[k] = s[k]
  <1>1. Len(s) \in Nat /\ DOMAIN s = 1..Len(s) /\ Len(t) \in Nat
    BY SeqDomain
  <1> QED BY <1>1, SeqConcat

LEMMA ConcatSecond ==
  ASSUME NEW s, NEW t, IsSeq(s), IsSeq(t), NEW m \in DOMAIN t
  PROVE  \E k \in DOMAIN (s \o t) : (s \o t)[k] = t[m]
  <1>1. Len(s) \in Nat /\ Len(t) \in Nat /\ DOMAIN t = 1..Len(t)
    BY SeqDomain
  <1> DEFINE u == s \o t
  <1>2. DOMAIN u = 1..(Len(s) + Len(t)) /\ \A i \in 1..Len(t) : u[Len(s) + i] = t[i]
    BY SeqConcat
  <1> HIDE DEF u
  <1>3. Len(s) + m \in DOMAIN u /\ u[Len(s) + m] = t[m]
    BY <1>1, <1>2
  <1> QED BY <1>3 DEF u

LEMMA ConcatFrom ==
  ASSUME NEW s, NEW t, IsSeq(s), IsSeq(t), NEW k \in DOMAIN (s \o t)
  PROVE  \/ k \in DOMAIN s /\ (s \o t)[k] = s[k]
         \/ \E m \in DOMAIN t : (s \o t)[k] = t[m]
  <1>1. Len(s) \in Nat /\ DOMAIN s = 1..Len(s) /\ Len(t) \in Nat /\ DOMAIN t = 1..Len(t)
    BY SeqDomain
  <1> DEFINE u == s \o t
  <1>2. /\ DOMAIN u = 1..(Len(s) + Len(t))
        /\ (\A i \in 1..Len(s) : u[i] = s[i]) /\ \A i \in 1..Len(t) : u[Len(s) + i] = t[i]
    BY SeqConcat
  <1>3. k \in DOMAIN u
    OBVIOUS
  <1> HIDE DEF u
  <1>4. (k \in DOMAIN s /\ u[k] = s[k]) \/ \E m \in DOMAIN t : u[k] = t[m]
    <2>1. CASE k <= Len(s)
      BY <1>1, <1>2, <1>3, <2>1
    <2>2. CASE ~(k <= Len(s))
      <3>1. k - Len(s) \in 1..Len(t) /\ Len(s) + (k - Len(s)) = k
        BY <1>1, <1>2, <1>3, <2>2
      <3> QED BY <1>1, <1>2, <3>1
    <2> QED BY <2>1, <2>2
  <1> QED BY <1>4 DEF u

\* u has the elements of s and after them those of t.
Joins(u, s, t) ==
  /\ IsSeq(u)
  /\ \A k \in DOMAIN u : (k \in DOMAIN s /\ u[k] = s[k]) \/ \E m \in DOMAIN t : u[k] = t[m]
  /\ \A k \in DOMAIN s : k \in DOMAIN u /\ u[k] = s[k]
  /\ \A m \in DOMAIN t : \E k \in DOMAIN u : u[k] = t[m]

LEMMA ConcatJoins == ASSUME NEW s, NEW t, IsSeq(s), IsSeq(t) PROVE Joins(s \o t, s, t)
  <1> DEFINE u == s \o t
  <1>1. IsSeq(u)
    BY SeqConcat
  <1>2. ASSUME NEW k \in DOMAIN u
        PROVE  (k \in DOMAIN s /\ u[k] = s[k]) \/ \E m \in DOMAIN t : u[k] = t[m]
    BY ConcatFrom
  <1>3. ASSUME NEW k \in DOMAIN s PROVE k \in DOMAIN u /\ u[k] = s[k]
    BY ConcatFirst
  <1>4. ASSUME NEW m \in DOMAIN t PROVE \E k \in DOMAIN u : u[k] = t[m]
    BY ConcatSecond
  <1> HIDE DEF u
  <1>5. Joins(u, s, t)
    BY <1>1, <1>2, <1>3, <1>4 DEF Joins
  <1> QED BY <1>5 DEF u

-----------------------------------------------------------------------------
(* Loops. FoldLeft takes the step of the loop as an operator; to prove once *)
(* that a loop comes to its end, the loops are given names.                 *)

\* What processing one more element adds to the answer of a request.
Then(s, r) == [store |-> r.store, cerV |-> s.cerV \o r.cerV]

\* The entities of a request that may stand for several; the registrations of
\* such an entity; the requests to the providers of a whole entity.
Generic(enV) == Those(enV, LAMBDA en : en.type = AnyType \/ isTrue(en.isPattern))
Matching(crrV, en) == Those(crrV, LAMBDA crr : matchEntityInCrr(crr, en))
Whole(attrL, cer) ==
  [i \in DOMAIN cer.apps |->
     [contextProvider |-> cer.apps[i], enV |-> <<EntityIdOf(cer)>>, attrL |-> attrL]]

Loop(name, x, v, e) ==
  CASE name = "providers" -> ProvidersBy(x[1], x[2], v, e)
    [] name = "attributes" -> ProcessAttribute(x[1], v, e, x[2], x[3])
    [] name = "elements" -> Then(v, processContextElement(v.store, x[1], e, x[2], FALSE, x[3]))
    [] name = "addNames" -> addContextProviderAttribute(v, x[1], e, x[2])
    [] name = "addEntities" -> AddProviderOf(v, e, x)
    [] name = "addProviders" -> AddProvider(v, e)
    [] name = "generic" -> addContextProviders(v, Matching(x, e))
    [] name = "lookups" -> Lookup(e, v, x[1], x[2], x[3])
    [] name = "updateAttributes" -> UpdateAttribute(x[1], v, x[2], e)
    [] name = "updateElements" -> UpdateElement(x, v, e)
    [] name = "queryAttributes" -> QueryAttribute(v, x, e)
    [] name = "queryElements" -> QueryElement(x, v, e)
    [] name = "addElements" -> AddElement(v, e)
    [] name = "addResponses" -> AddResponse(v, e)
    [] name = "mergeAttributes" -> MergeAttribute(v, x, e)
    [] name = "mergeElements" -> MergeElement(v, e)

\* The recursive function of FoldLeft, for the first n elements.
FoldsUpTo(f, n, name, x, base, seq) ==
  f = [s \in SUBSET (1..n) |->
         IF s = {} THEN base ELSE Loop(name, x, f[s \ {Max(s)}], seq[Max(s)])]

\* The values of the loop after each of its steps.
Runs(g, name, x, base, seq) ==
  g[0] = base /\ \A n \in 1..Len(seq) : g[n] = Loop(name, x, g[n - 1], seq[n])

LEMMA MaxLast ==
  ASSUME NEW n \in Nat, NEW s \in SUBSET (1..(n + 1)), n + 1 \in s
  PROVE  Max(s) = n + 1
  <1>1. \A y \in s : n + 1 >= y
    OBVIOUS
  <1>2. \A z \in s : (\A y \in s : z >= y) => z = n + 1
    OBVIOUS
  <1> QED BY <1>1, <1>2 DEF Max

LEMMA LoopFunction ==
  ASSUME NEW name, NEW x, NEW base, NEW seq, NEW n \in Nat
  PROVE  \E f : FoldsUpTo(f, n, name, x, base, seq)
  <1> DEFINE P(m) == \E f : FoldsUpTo(f, m, name, x, base, seq)
             S == {m \in Nat : P(m)}
  <1>1. 0 \in S
    <2>1. SUBSET (1..0) = {{}}
      OBVIOUS
    <2>2. FoldsUpTo([s \in SUBSET (1..0) |-> base], 0, name, x, base, seq)
      BY <2>1 DEF FoldsUpTo
    <2> QED BY <2>2
  <1>2. ASSUME NEW m \in S PROVE m + 1 \in S
    <2>1. PICK f : FoldsUpTo(f, m, name, x, base, seq)
      BY <1>2
    <2>2. m \in Nat
      BY <1>2
    <2> DEFINE g == [s \in SUBSET (1..(m + 1)) |->
                       IF m + 1 \in s THEN Loop(name, x, f[s \ {m + 1}], seq[m + 1]) ELSE f[s]]
    <2>3. ASSUME NEW s \in SUBSET (1..(m + 1))
          PROVE  g[s] = IF s = {} THEN base ELSE Loop(name, x, g[s \ {Max(s)}], seq[Max(s)])
      <3>1. CASE m + 1 \in s
        <4>1. Max(s) = m + 1
          BY <2>2, <3>1, MaxLast
        <4>2. g[s \ {m + 1}] = f[s \ {m + 1}]
          OBVIOUS
        <4>3. g[s] = Loop(name, x, f[s \ {m + 1}], seq[m + 1])
          BY <3>1
        <4> HIDE DEF g
        <4> QED BY <3>1, <4>1, <4>2, <4>3
      <3>2. CASE m + 1 \notin s
        <4>1. s \in SUBSET (1..m)
          BY <2>2, <3>2
        <4>2. g[s] = f[s]
          BY <3>2
        <4>3. g[s \ {Max(s)}] = f[s \ {Max(s)}]
          BY <3>2
        <4>4. f[s] = IF s = {} THEN base ELSE Loop(name, x, f[s \ {Max(s)}], seq[Max(s)])
          BY <2>1, <4>1 DEF FoldsUpTo
        <4> HIDE DEF g
        <4> QED BY <4>2, <4>3, <4>4
      <3> QED BY <3>1, <3>2
    <2>4. g = [s \in SUBSET (1..(m + 1)) |-> g[s]]
      OBVIOUS
    <2> HIDE DEF g
    <2>5. FoldsUpTo(g, m + 1, name, x, base, seq)
      BY <2>3, <2>4 DEF FoldsUpTo
    <2> QED BY <2>2, <2>5
  <1> HIDE DEF P
  <1>3. n \in S
    <2> DEFINE Q == S
    <2>1. Q \in SUBSET Nat /\ 0 \in Q /\ \A m \in Q : m + 1 \in Q
      BY <1>1, <1>2
    <2> HIDE DEF Q
    <2>2. Q = Nat
      BY <2>1, SetInduction
    <2> QED BY <2>2 DEF Q
  <1>4. P(n)
    BY <1>3
  <1> QED BY <1>4, Zenon DEF P

LEMMA FoldRuns ==
  ASSUME NEW name, NEW x, NEW base, NEW seq, IsSeq(seq), NEW f,
         FoldsUpTo(f, Len(seq), name, x, base, seq)
  PROVE  \E g : Runs(g, name, x, base, seq) /\ g[Len(seq)] = f[DOMAIN seq]
  <1>1. Len(seq) \in Nat /\ DOMAIN seq = 1..Len(seq)
    BY SeqDomain
  <1> DEFINE g == [n \in 0..Len(seq) |-> f[1..n]]
  <1>2. g[0] = base
    <2>1. 1..0 = {}
      OBVIOUS
    <2>2. f[{}] = base
      BY DEF FoldsUpTo
    <2> QED BY <1>1, <2>1, <2>2
  <1>3. ASSUME NEW n \in 1..Len(seq) PROVE g[n] = Loop(name, x, g[n - 1], seq[n])
    <2>1. n - 1 \in Nat /\ n = (n - 1) + 1 /\ n \in 0..Len(seq) /\ n - 1 \in 0..Len(seq)
      BY <1>1
    <2>2. Max(1..n) = n
      <3>1. 1..n \in SUBSET (1..((n - 1) + 1)) /\ (n - 1) + 1 \in 1..n
        BY <2>1
      <3>2. Max(1..n) = (n - 1) + 1
        BY <2>1, <3>1, MaxLast
      <3> QED BY <2>1, <3>2
    <2>3. (1..n) \ {n} = 1..(n - 1) /\ 1..n # {} /\ 1..n \in SUBSET (1..Len(seq))
      <3>1. \A i : i \in (1..n) \ {n} <=> i \in 1..(n - 1)
        BY <2>1
      <3>2. n \in 1..n /\ \A i \in 1..n : i \in 1..Len(seq)
        BY <1>1
      <3> QED BY <3>1, <3>2, Zenon
    <2>4. f[1..n] = Loop(name, x, f[1..(n - 1)], seq[n])
      BY <2>2, <2>3 DEF FoldsUpTo
    <2> QED BY <2>1, <2>4
  <1>4. g[Len(seq)] = f[DOMAIN seq]
    BY <1>1
  <1> HIDE DEF g
  <1>5. Runs(g, name, x, base, seq)
    BY <1>2, <1>3 DEF Runs
  <1> QED BY <1>4, <1>5

\* What holds before the loop and is kept by each step holds after the loop.
LEMMA LoopInduction ==
  ASSUME NEW n \in Nat, NEW S \in SUBSET Nat, 0 \in S, \A m \in 1..n : m - 1 \in S => m \in S
  PROVE  n \in S
  <1> DEFINE T == {m \in Nat : m <= n => m \in S}
  <1>1. 0 \in T /\ T \in SUBSET Nat
    OBVIOUS
  <1>2. ASSUME NEW m \in T PROVE m + 1 \in T
    <2>1. m + 1 <= n => m + 1 \in 1..n /\ (m + 1) - 1 = m /\ m <= n
      OBVIOUS
    <2> QED BY <2>1
  <1> HIDE DEF T
  <1>3. T = Nat
    BY <1>1, <1>2, SetInduction
  <1> QED BY <1>3 DEF T

LEMMA ProvidersLoop ==
  ASSUME NEW en, NEW name, NEW crrV, IsSeq(crrV)
  PROVE  \E g : /\ g[0] = [perEnt |-> Nothing, perAttr |-> Nothing]
                /\ \A n \in 1..Len(crrV) : g[n] = ProvidersBy(en, name, g[n - 1], crrV[n])
                /\ cprLookupByAttribute(en, name, crrV) = g[Len(crrV)]
  <1> DEFINE base == [perEnt |-> Nothing, perAttr |-> Nothing]
             x == <<en, name>>
             sq == crrV
             Q(f) == f = [s \in SUBSET DOMAIN sq |->
                            IF s = {} THEN base
                            ELSE ProvidersBy(en, name, f[s \ {Max(s)}], sq[Max(s)])]
  <1>1. cprLookupByAttribute(en, name, crrV) = (CHOOSE f : Q(f))[DOMAIN sq]
    BY Zenon DEF cprLookupByAttribute, FoldLeft, MapThenFoldSet
  <1>2. \A v, e : Loop("providers", x, v, e) = ProvidersBy(en, name, v, e)
    BY DEF Loop
  <1>3. IsSeq(sq)
    OBVIOUS
  <1> HIDE DEF base, x, sq
  <1>4. Len(sq) \in Nat /\ DOMAIN sq = 1..Len(sq)
    BY <1>3, SeqDomain
  <1>5. \A f : Q(f) <=> FoldsUpTo(f, Len(sq), "providers", x, base, sq)
    BY <1>2, <1>4 DEF FoldsUpTo
  <1> HIDE DEF Q
  <1>6. PICK f : Q(f) /\ cprLookupByAttribute(en, name, crrV) = f[DOMAIN sq]
    <2>1. \E f : Q(f)
      BY <1>4, <1>5, LoopFunction
    <2> QED BY <1>1, <2>1, Zenon
  <1>7. PICK g : Runs(g, "providers", x, base, sq) /\ g[Len(sq)] = f[DOMAIN sq]
    <2>1. FoldsUpTo(f, Len(sq), "providers", x, base, sq)
      BY <1>5, <1>6, Zenon
    <2> QED BY <1>3, <2>1, FoldRuns
  <1> QED BY <1>2, <1>6, <1>7, Zenon DEF Runs, base, sq

\* g[n] is the state of processContextAttributeVector after n attributes.
AttributesRun(g, entity, action, attributes, faults) ==
  /\ g[0] = [attrs |-> entity.attrs, answer |-> <<>>, code |-> "None", modified |-> FALSE, stop |-> FALSE]
  /\ \A n \in 1..Len(attributes) :
       g[n] = ProcessAttribute(action, g[n - 1], attributes[n], entity, faults)
  /\ processContextAttributeVector(entity, action, attributes, faults) = g[Len(attributes)]

LEMMA AttributesLoop ==
  ASSUME NEW entity, NEW action, NEW attributes, IsSeq(attributes), NEW faults
  PROVE  \E g : AttributesRun(g, entity, action, attributes, faults)
  <1> DEFINE base == [attrs |-> entity.attrs, answer |-> <<>>, code |-> "None",
                          modified |-> FALSE, stop |-> FALSE]
             x == <<action, entity, faults>>
             sq == attributes
             Q(f) == f = [s \in SUBSET DOMAIN sq |->
                            IF s = {} THEN base
                            ELSE ProcessAttribute(action, f[s \ {Max(s)}], sq[Max(s)], entity, faults)]
  <1>1. processContextAttributeVector(entity, action, attributes, faults) = (CHOOSE f : Q(f))[DOMAIN sq]
    BY Zenon DEF processContextAttributeVector, FoldLeft, MapThenFoldSet
  <1>2. \A v, e : Loop("attributes", x, v, e) = ProcessAttribute(action, v, e, entity, faults)
    BY DEF Loop
  <1>3. IsSeq(sq)
    OBVIOUS
  <1> HIDE DEF base, x, sq
  <1>4. Len(sq) \in Nat /\ DOMAIN sq = 1..Len(sq)
    BY <1>3, SeqDomain
  <1>5. \A f : Q(f) <=> FoldsUpTo(f, Len(sq), "attributes", x, base, sq)
    BY <1>2, <1>4 DEF FoldsUpTo
  <1> HIDE DEF Q
  <1>6. PICK f : Q(f) /\ processContextAttributeVector(entity, action, attributes, faults) = f[DOMAIN sq]
    <2>1. \E f : Q(f)
      BY <1>4, <1>5, LoopFunction
    <2> QED BY <1>1, <2>1, Zenon
  <1>7. PICK g : Runs(g, "attributes", x, base, sq) /\ g[Len(sq)] = f[DOMAIN sq]
    <2>1. FoldsUpTo(f, Len(sq), "attributes", x, base, sq)
      BY <1>5, <1>6, Zenon
    <2> QED BY <1>3, <2>1, FoldRuns
  <1> QED BY <1>2, <1>6, <1>7, Zenon DEF AttributesRun, Runs, base, sq

ElementsRun(g, store, docs, elements, action, faults) ==
  /\ g[0] = [store |-> store, cerV |-> <<>>]
  /\ \A n \in 1..Len(elements) :
       g[n] = Then(g[n - 1], processContextElement(g[n - 1].store, docs, elements[n], action, FALSE, faults))
  /\ mongoUpdateContext(store, docs, elements, action, FALSE, faults) = g[Len(elements)]

LEMMA ElementsLoop ==
  ASSUME NEW store, NEW docs, NEW elements, NEW action, IsSeq(elements), NEW faults
  PROVE  \E g : ElementsRun(g, store, docs, elements, action, faults)
  <1> DEFINE base == [store |-> store, cerV |-> <<>>]
             x == <<docs, action, faults>>
             sq == elements
             Q(f) == f = [s \in SUBSET DOMAIN sq |->
                            IF s = {} THEN base
                            ELSE Then(f[s \ {Max(s)}],
                                      processContextElement(f[s \ {Max(s)}].store, docs, sq[Max(s)], action, FALSE, faults))]
  <1>1. mongoUpdateContext(store, docs, elements, action, FALSE, faults) = (CHOOSE f : Q(f))[DOMAIN sq]
    BY Zenon DEF mongoUpdateContext, Then, FoldLeft, MapThenFoldSet
  <1>2. \A v, e : Loop("elements", x, v, e) = Then(v, processContextElement(v.store, docs, e, action, FALSE, faults))
    BY DEF Loop
  <1>3. IsSeq(sq)
    OBVIOUS
  <1> HIDE DEF base, x, sq
  <1>4. Len(sq) \in Nat /\ DOMAIN sq = 1..Len(sq)
    BY <1>3, SeqDomain
  <1>5. \A f : Q(f) <=> FoldsUpTo(f, Len(sq), "elements", x, base, sq)
    BY <1>2, <1>4 DEF FoldsUpTo
  <1> HIDE DEF Q
  <1>6. PICK f : Q(f) /\ mongoUpdateContext(store, docs, elements, action, FALSE, faults) = f[DOMAIN sq]
    <2>1. \E f : Q(f)
      BY <1>4, <1>5, LoopFunction
    <2> QED BY <1>1, <2>1, Zenon
  <1>7. PICK g : Runs(g, "elements", x, base, sq) /\ g[Len(sq)] = f[DOMAIN sq]
    <2>1. FoldsUpTo(f, Len(sq), "elements", x, base, sq)
      BY <1>5, <1>6, Zenon
    <2> QED BY <1>3, <2>1, FoldRuns
  <1> QED BY <1>2, <1>6, <1>7, Zenon DEF ElementsRun, Runs, base, sq

NamesRun(g, cerV, en, crr) ==
  /\ g[0] = cerV
  /\ \A n \in 1..Len(crr.attrs) :
       g[n] = addContextProviderAttribute(g[n - 1], en, crr.attrs[n], crr.app)
  /\ AddProviderOf(cerV, en, crr) = g[Len(crr.attrs)]

LEMMA AddNamesLoop ==
  ASSUME NEW cerV, NEW en, NEW crr, IsSeq(crr.attrs), crr.attrs # <<>>
  PROVE  \E g : NamesRun(g, cerV, en, crr)
  <1> DEFINE base == cerV
             x == <<en, crr.app>>
             sq == crr.attrs
             Q(f) == f = [s \in SUBSET DOMAIN sq |->
                            IF s = {} THEN base
                            ELSE addContextProviderAttribute(f[s \ {Max(s)}], en, sq[Max(s)], crr.app)]
  <1>1. AddProviderOf(cerV, en, crr) = (CHOOSE f : Q(f))[DOMAIN sq]
    BY Zenon DEF AddProviderOf, FoldLeft, MapThenFoldSet
  <1>2. \A v, e : Loop("addNames", x, v, e) = addContextProviderAttribute(v, en, e, crr.app)
    BY DEF Loop
  <1>3. IsSeq(sq)
    OBVIOUS
  <1> HIDE DEF base, x, sq
  <1>4. Len(sq) \in Nat /\ DOMAIN sq = 1..Len(sq)
    BY <1>3, SeqDomain
  <1>5. \A f : Q(f) <=> FoldsUpTo(f, Len(sq), "addNames", x, base, sq)
    BY <1>2, <1>4 DEF FoldsUpTo
  <1> HIDE DEF Q
  <1>6. PICK f : Q(f) /\ AddProviderOf(cerV, en, crr) = f[DOMAIN sq]
    <2>1. \E f : Q(f)
      BY <1>4, <1>5, LoopFunction
    <2> QED BY <1>1, <2>1, Zenon
  <1>7. PICK g : Runs(g, "addNames", x, base, sq) /\ g[Len(sq)] = f[DOMAIN sq]
    <2>1. FoldsUpTo(f, Len(sq), "addNames", x, base, sq)
      BY <1>5, <1>6, Zenon
    <2> QED BY <1>3, <2>1, FoldRuns
  <1> QED BY <1>2, <1>6, <1>7, Zenon DEF NamesRun, Runs, base, sq

LEMMA AddEntitiesLoop ==
  ASSUME NEW cerV, NEW crr, IsSeq(crr.entities)
  PROVE  \E g : /\ g[0] = cerV
                /\ \A n \in 1..Len(crr.entities) :
                      g[n] = AddProviderOf(g[n - 1], crr.entities[n], crr)
                /\ AddProvider(cerV, crr) = g[Len(crr.entities)]
  <1> DEFINE base == cerV
             x == crr
             sq == crr.entities
             Q(f) == f = [s \in SUBSET DOMAIN sq |->
                            IF s = {} THEN base
                            ELSE AddProviderOf(f[s \ {Max(s)}], sq[Max(s)], crr)]
  <1>1. AddProvider(cerV, crr) = (CHOOSE f : Q(f))[DOMAIN sq]
    BY Zenon DEF AddProvider, FoldLeft, MapThenFoldSet
  <1>2. \A v, e : Loop("addEntities", x, v, e) = AddProviderOf(v, e, crr)
    BY DEF Loop
  <1>3. IsSeq(sq)
    OBVIOUS
  <1> HIDE DEF base, x, sq
  <1>4. Len(sq) \in Nat /\ DOMAIN sq = 1..Len(sq)
    BY <1>3, SeqDomain
  <1>5. \A f : Q(f) <=> FoldsUpTo(f, Len(sq), "addEntities", x, base, sq)
    BY <1>2, <1>4 DEF FoldsUpTo
  <1> HIDE DEF Q
  <1>6. PICK f : Q(f) /\ AddProvider(cerV, crr) = f[DOMAIN sq]
    <2>1. \E f : Q(f)
      BY <1>4, <1>5, LoopFunction
    <2> QED BY <1>1, <2>1, Zenon
  <1>7. PICK g : Runs(g, "addEntities", x, base, sq) /\ g[Len(sq)] = f[DOMAIN sq]
    <2>1. FoldsUpTo(f, Len(sq), "addEntities", x, base, sq)
      BY <1>5, <1>6, Zenon
    <2> QED BY <1>3, <2>1, FoldRuns
  <1> QED BY <1>2, <1>6, <1>7, Zenon DEF Runs, base, sq

LEMMA AddProvidersLoop ==
  ASSUME NEW cerV, NEW crrV, IsSeq(crrV)
  PROVE  \E g : /\ g[0] = cerV
                /\ \A n \in 1..Len(crrV) : g[n] = AddProvider(g[n - 1], crrV[n])
                /\ addContextProviders(cerV, crrV) = g[Len(crrV)]
  <1> DEFINE base == cerV
             x == 0
             sq == crrV
             Q(f) == f = [s \in SUBSET DOMAIN sq |->
                            IF s = {} THEN base ELSE AddProvider(f[s \ {Max(s)}], sq[Max(s)])]
  <1>1. addContextProviders(cerV, crrV) = (CHOOSE f : Q(f))[DOMAIN sq]
    BY Zenon DEF addContextProviders, FoldLeft, MapThenFoldSet
  <1>2. \A v, e : Loop("addProviders", x, v, e) = AddProvider(v, e)
    BY DEF Loop
  <1>3. IsSeq(sq)
    OBVIOUS
  <1> HIDE DEF base, x, sq
  <1>4. Len(sq) \in Nat /\ DOMAIN sq = 1..Len(sq)
    BY <1>3, SeqDomain
  <1>5. \A f : Q(f) <=> FoldsUpTo(f, Len(sq), "addProviders", x, base, sq)
    BY <1>2, <1>4 DEF FoldsUpTo
  <1> HIDE DEF Q
  <1>6. PICK f : Q(f) /\ addContextProviders(cerV, crrV) = f[DOMAIN sq]
    <2>1. \E f : Q(f)
      BY <1>4, <1>5, LoopFunction
    <2> QED BY <1>1, <2>1, Zenon
  <1>7. PICK g : Runs(g, "addProviders", x, base, sq) /\ g[Len(sq)] = f[DOMAIN sq]
    <2>1. FoldsUpTo(f, Len(sq), "addProviders", x, base, sq)
      BY <1>5, <1>6, Zenon
    <2> QED BY <1>3, <2>1, FoldRuns
  <1> QED BY <1>2, <1>6, <1>7, Zenon DEF Runs, base, sq

LEMMA GenericLoop ==
  ASSUME NEW enV, NEW cerV, NEW crrV, IsSeq(Generic(enV))
  PROVE  \E g : /\ g[0] = cerV
                /\ \A n \in 1..Len(Generic(enV)) :
                      g[n] = addContextProviders(g[n - 1], Matching(crrV, Generic(enV)[n]))
                /\ processGenericEntities(enV, cerV, crrV) = g[Len(Generic(enV))]
  <1> DEFINE base == cerV
             x == crrV
             sq == Generic(enV)
             Q(f) == f = [s \in SUBSET DOMAIN sq |->
                            IF s = {} THEN base
                            ELSE addContextProviders(f[s \ {Max(s)}], Matching(crrV, sq[Max(s)]))]
  <1>1. processGenericEntities(enV, cerV, crrV) = (CHOOSE f : Q(f))[DOMAIN sq]
    BY Zenon DEF processGenericEntities, Generic, Matching, Those, FoldLeft, MapThenFoldSet
  <1>2. \A v, e : Loop("generic", x, v, e) = addContextProviders(v, Matching(crrV, e))
    BY DEF Loop, Matching, Those
  <1>3. IsSeq(sq)
    OBVIOUS
  <1> HIDE DEF base, x, sq
  <1>4. Len(sq) \in Nat /\ DOMAIN sq = 1..Len(sq)
    BY <1>3, SeqDomain
  <1>5. \A f : Q(f) <=> FoldsUpTo(f, Len(sq), "generic", x, base, sq)
    BY <1>2, <1>4 DEF FoldsUpTo
  <1> HIDE DEF Q
  <1>6. PICK f : Q(f) /\ processGenericEntities(enV, cerV, crrV) = f[DOMAIN sq]
    <2>1. \E f : Q(f)
      BY <1>4, <1>5, LoopFunction
    <2> QED BY <1>1, <2>1, Zenon
  <1>7. PICK g : Runs(g, "generic", x, base, sq) /\ g[Len(sq)] = f[DOMAIN sq]
    <2>1. FoldsUpTo(f, Len(sq), "generic", x, base, sq)
      BY <1>5, <1>6, Zenon
    <2> QED BY <1>3, <2>1, FoldRuns
  <1> QED BY <1>2, <1>6, <1>7, Zenon DEF Runs, base, sq

LEMMA LookupsLoop ==
  ASSUME NEW store, NEW docs, NEW enV, NEW attrL, NEW filter, IsSeq(<<1, 2, 3, 4>>)
  PROVE  \E g : /\ g[0] = entitiesQuery(store, enV, attrL, filter)
                /\ \A n \in 1..Len(<<1, 2, 3, 4>>) :
                      g[n] = Lookup(<<1, 2, 3, 4>>[n], g[n - 1], docs, enV, attrL)
                /\ mongoQueryContext(store, docs, enV, attrL, filter) = pruneContextElements(g[Len(<<1, 2, 3, 4>>)])
  <1> DEFINE base == entitiesQuery(store, enV, attrL, filter)
             x == <<docs, enV, attrL>>
             sq == <<1, 2, 3, 4>>
             Q(f) == f = [s \in SUBSET DOMAIN sq |->
                            IF s = {} THEN base
                            ELSE Lookup(sq[Max(s)], f[s \ {Max(s)}], docs, enV, attrL)]
  <1>1. mongoQueryContext(store, docs, enV, attrL, filter) = pruneContextElements((CHOOSE f : Q(f))[DOMAIN sq])
    BY Zenon DEF mongoQueryContext, FoldLeft, MapThenFoldSet
  <1>2. \A v, e : Loop("lookups", x, v, e) = Lookup(e, v, docs, enV, attrL)
    BY DEF Loop
  <1>3. IsSeq(sq)
    OBVIOUS
  <1> HIDE DEF base, x, sq
  <1>4. Len(sq) \in Nat /\ DOMAIN sq = 1..Len(sq)
    BY <1>3, SeqDomain
  <1>5. \A f : Q(f) <=> FoldsUpTo(f, Len(sq), "lookups", x, base, sq)
    BY <1>2, <1>4 DEF FoldsUpTo
  <1> HIDE DEF Q
  <1>6. PICK f : Q(f) /\ mongoQueryContext(store, docs, enV, attrL, filter) = pruneContextElements(f[DOMAIN sq])
    <2>1. \E f : Q(f)
      BY <1>4, <1>5, LoopFunction
    <2> QED BY <1>1, <2>1, Zenon
  <1>7. PICK g : Runs(g, "lookups", x, base, sq) /\ g[Len(sq)] = f[DOMAIN sq]
    <2>1. FoldsUpTo(f, Len(sq), "lookups", x, base, sq)
      BY <1>5, <1>6, Zenon
    <2> QED BY <1>3, <2>1, FoldRuns
  <1> QED BY <1>2, <1>6, <1>7, Zenon DEF Runs, base, sq

LEMMA UpdateAttributesLoop ==
  ASSUME NEW elements, NEW s0, NEW cer, IsSeq(cer.attributes)
  PROVE  \E g : /\ g[0] = s0
                /\ \A n \in 1..Len(cer.attributes) :
                      g[n] = UpdateAttribute(elements, g[n - 1], cer, cer.attributes[n])
                /\ UpdateElement(elements, s0, cer) = g[Len(cer.attributes)]
  <1> DEFINE base == s0
             x == <<elements, cer>>
             sq == cer.attributes
             Q(f) == f = [s \in SUBSET DOMAIN sq |->
                            IF s = {} THEN base
                            ELSE UpdateAttribute(elements, f[s \ {Max(s)}], cer, sq[Max(s)])]
  <1>1. UpdateElement(elements, s0, cer) = (CHOOSE f : Q(f))[DOMAIN sq]
    BY Zenon DEF UpdateElement, FoldLeft, MapThenFoldSet
  <1>2. \A v, e : Loop("updateAttributes", x, v, e) = UpdateAttribute(elements, v, cer, e)
    BY DEF Loop
  <1>3. IsSeq(sq)
    OBVIOUS
  <1> HIDE DEF base, x, sq
  <1>4. Len(sq) \in Nat /\ DOMAIN sq = 1..Len(sq)
    BY <1>3, SeqDomain
  <1>5. \A f : Q(f) <=> FoldsUpTo(f, Len(sq), "updateAttributes", x, base, sq)
    BY <1>2, <1>4 DEF FoldsUpTo
  <1> HIDE DEF Q
  <1>6. PICK f : Q(f) /\ UpdateElement(elements, s0, cer) = f[DOMAIN sq]
    <2>1. \E f : Q(f)
      BY <1>4, <1>5, LoopFunction
    <2> QED BY <1>1, <2>1, Zenon
  <1>7. PICK g : Runs(g, "updateAttributes", x, base, sq) /\ g[Len(sq)] = f[DOMAIN sq]
    <2>1. FoldsUpTo(f, Len(sq), "updateAttributes", x, base, sq)
      BY <1>5, <1>6, Zenon
    <2> QED BY <1>3, <2>1, FoldRuns
  <1> QED BY <1>2, <1>6, <1>7, Zenon DEF Runs, base, sq

LEMMA UpdateElementsLoop ==
  ASSUME NEW elements, NEW cerV, IsSeq(cerV)
  PROVE  \E g : /\ g[0] = [cerV |-> <<>>, requestV |-> <<>>]
                /\ \A n \in 1..Len(cerV) : g[n] = UpdateElement(elements, g[n - 1], cerV[n])
                /\ SplitUpdate(elements, cerV) = g[Len(cerV)]
  <1> DEFINE base == [cerV |-> <<>>, requestV |-> <<>>]
             x == elements
             sq == cerV
             Q(f) == f = [s \in SUBSET DOMAIN sq |->
                            IF s = {} THEN base
                            ELSE UpdateElement(elements, f[s \ {Max(s)}], sq[Max(s)])]
  <1>1. SplitUpdate(elements, cerV) = (CHOOSE f : Q(f))[DOMAIN sq]
    BY Zenon DEF SplitUpdate, FoldLeft, MapThenFoldSet
  <1>2. \A v, e : Loop("updateElements", x, v, e) = UpdateElement(elements, v, e)
    BY DEF Loop
  <1>3. IsSeq(sq)
    OBVIOUS
  <1> HIDE DEF base, x, sq
  <1>4. Len(sq) \in Nat /\ DOMAIN sq = 1..Len(sq)
    BY <1>3, SeqDomain
  <1>5. \A f : Q(f) <=> FoldsUpTo(f, Len(sq), "updateElements", x, base, sq)
    BY <1>2, <1>4 DEF FoldsUpTo
  <1> HIDE DEF Q
  <1>6. PICK f : Q(f) /\ SplitUpdate(elements, cerV) = f[DOMAIN sq]
    <2>1. \E f : Q(f)
      BY <1>4, <1>5, LoopFunction
    <2> QED BY <1>1, <2>1, Zenon
  <1>7. PICK g : Runs(g, "updateElements", x, base, sq) /\ g[Len(sq)] = f[DOMAIN sq]
    <2>1. FoldsUpTo(f, Len(sq), "updateElements", x, base, sq)
      BY <1>5, <1>6, Zenon
    <2> QED BY <1>3, <2>1, FoldRuns
  <1> QED BY <1>2, <1>6, <1>7, Zenon DEF Runs, base, sq

QueryRun(g, attrL, s0, cer) ==
  /\ g[0] = [s0 EXCEPT !.requestV = @ \o Whole(attrL, cer)]
  /\ \A n \in 1..Len(cer.attributes) :
       g[n] = QueryAttribute(g[n - 1], cer, cer.attributes[n])
  /\ QueryElement(attrL, s0, cer) = g[Len(cer.attributes)]

LEMMA QueryAttributesLoop ==
  ASSUME NEW attrL, NEW s0, NEW cer, IsSeq(cer.attributes)
  PROVE  \E g : QueryRun(g, attrL, s0, cer)
  <1> DEFINE base == [s0 EXCEPT !.requestV = @ \o Whole(attrL, cer)]
             x == cer
             sq == cer.attributes
             Q(f) == f = [s \in SUBSET DOMAIN sq |->
                            IF s = {} THEN base
                            ELSE QueryAttribute(f[s \ {Max(s)}], cer, sq[Max(s)])]
  <1>1. QueryElement(attrL, s0, cer) = (CHOOSE f : Q(f))[DOMAIN sq]
    BY Zenon DEF QueryElement, Whole, FoldLeft, MapThenFoldSet
  <1>2. \A v, e : Loop("queryAttributes", x, v, e) = QueryAttribute(v, cer, e)
    BY DEF Loop
  <1>3. IsSeq(sq)
    OBVIOUS
  <1> HIDE DEF base, x, sq
  <1>4. Len(sq) \in Nat /\ DOMAIN sq = 1..Len(sq)
    BY <1>3, SeqDomain
  <1>5. \A f : Q(f) <=> FoldsUpTo(f, Len(sq), "queryAttributes", x, base, sq)
    BY <1>2, <1>4 DEF FoldsUpTo
  <1> HIDE DEF Q
  <1>6. PICK f : Q(f) /\ QueryElement(attrL, s0, cer) = f[DOMAIN sq]
    <2>1. \E f : Q(f)
      BY <1>4, <1>5, LoopFunction
    <2> QED BY <1>1, <2>1, Zenon
  <1>7. PICK g : Runs(g, "queryAttributes", x, base, sq) /\ g[Len(sq)] = f[DOMAIN sq]
    <2>1. FoldsUpTo(f, Len(sq), "queryAttributes", x, base, sq)
      BY <1>5, <1>6, Zenon
    <2> QED BY <1>3, <2>1, FoldRuns
  <1> QED BY <1>2, <1>6, <1>7, Zenon DEF QueryRun, Runs, base, sq

LEMMA QueryElementsLoop ==
  ASSUME NEW attrL, NEW cerV, IsSeq(cerV)
  PROVE  \E g : /\ g[0] = [cerV |-> <<>>, requestV |-> <<>>]
                /\ \A n \in 1..Len(cerV) : g[n] = QueryElement(attrL, g[n - 1], cerV[n])
                /\ SplitQuery(attrL, cerV) = g[Len(cerV)]
  <1> DEFINE base == [cerV |-> <<>>, requestV |-> <<>>]
             x == attrL
             sq == cerV
             Q(f) == f = [s \in SUBSET DOMAIN sq |->
                            IF s = {} THEN base
                            ELSE QueryElement(attrL, f[s \ {Max(s)}], sq[Max(s)])]
  <1>1. SplitQuery(attrL, cerV) = (CHOOSE f : Q(f))[DOMAIN sq]
    BY Zenon DEF SplitQuery, FoldLeft, MapThenFoldSet
  <1>2. \A v, e : Loop("queryElements", x, v, e) = QueryElement(attrL, v, e)
    BY DEF Loop
  <1>3. IsSeq(sq)
    OBVIOUS
  <1> HIDE DEF base, x, sq
  <1>4. Len(sq) \in Nat /\ DOMAIN sq = 1..Len(sq)
    BY <1>3, SeqDomain
  <1>5. \A f : Q(f) <=> FoldsUpTo(f, Len(sq), "queryElements", x, base, sq)
    BY <1>2, <1>4 DEF FoldsUpTo
  <1> HIDE DEF Q
  <1>6. PICK f : Q(f) /\ SplitQuery(attrL, cerV) = f[DOMAIN sq]
    <2>1. \E f : Q(f)
      BY <1>4, <1>5, LoopFunction
    <2> QED BY <1>1, <2>1, Zenon
  <1>7. PICK g : Runs(g, "queryElements", x, base, sq) /\ g[Len(sq)] = f[DOMAIN sq]
    <2>1. FoldsUpTo(f, Len(sq), "queryElements", x, base, sq)
      BY <1>5, <1>6, Zenon
    <2> QED BY <1>3, <2>1, FoldRuns
  <1> QED BY <1>2, <1>6, <1>7, Zenon DEF Runs, base, sq

LEMMA AddElementsLoop ==
  ASSUME NEW v0, NEW r, IsSeq(ElementsOf(r))
  PROVE  \E g : /\ g[0] = v0
                /\ \A n \in 1..Len(ElementsOf(r)) :
                      g[n] = AddElement(g[n - 1], ElementsOf(r)[n])
                /\ AddResponse(v0, r) = g[Len(ElementsOf(r))]
  <1> DEFINE base == v0
             x == 0
             sq == ElementsOf(r)
             Q(f) == f = [s \in SUBSET DOMAIN sq |->
                            IF s = {} THEN base ELSE AddElement(f[s \ {Max(s)}], sq[Max(s)])]
  <1>1. AddResponse(v0, r) = (CHOOSE f : Q(f))[DOMAIN sq]
    BY Zenon DEF AddResponse, FoldLeft, MapThenFoldSet
  <1>2. \A v, e : Loop("addElements", x, v, e) = AddElement(v, e)
    BY DEF Loop
  <1>3. IsSeq(sq)
    OBVIOUS
  <1> HIDE DEF base, x, sq
  <1>4. Len(sq) \in Nat /\ DOMAIN sq = 1..Len(sq)
    BY <1>3, SeqDomain
  <1>5. \A f : Q(f) <=> FoldsUpTo(f, Len(sq), "addElements", x, base, sq)
    BY <1>2, <1>4 DEF FoldsUpTo
  <1> HIDE DEF Q
  <1>6. PICK f : Q(f) /\ AddResponse(v0, r) = f[DOMAIN sq]
    <2>1. \E f : Q(f)
      BY <1>4, <1>5, LoopFunction
    <2> QED BY <1>1, <2>1, Zenon
  <1>7. PICK g : Runs(g, "addElements", x, base, sq) /\ g[Len(sq)] = f[DOMAIN sq]
    <2>1. FoldsUpTo(f, Len(sq), "addElements", x, base, sq)
      BY <1>5, <1>6, Zenon
    <2> QED BY <1>3, <2>1, FoldRuns
  <1> QED BY <1>2, <1>6, <1>7, Zenon DEF Runs, base, sq

LEMMA AddResponsesLoop ==
  ASSUME NEW responseV, IsSeq(responseV)
  PROVE  \E g : /\ g[0] = <<>>
                /\ \A n \in 1..Len(responseV) : g[n] = AddResponse(g[n - 1], responseV[n])
                /\ Gathered(responseV) = g[Len(responseV)]
  <1> DEFINE base == <<>>
             x == 0
             sq == responseV
             Q(f) == f = [s \in SUBSET DOMAIN sq |->
                            IF s = {} THEN base ELSE AddResponse(f[s \ {Max(s)}], sq[Max(s)])]
  <1>1. Gathered(responseV) = (CHOOSE f : Q(f))[DOMAIN sq]
    BY Zenon DEF Gathered, FoldLeft, MapThenFoldSet
  <1>2. \A v, e : Loop("addResponses", x, v, e) = AddResponse(v, e)
    BY DEF Loop
  <1>3. IsSeq(sq)
    OBVIOUS
  <1> HIDE DEF base, x, sq
  <1>4. Len(sq) \in Nat /\ DOMAIN sq = 1..Len(sq)
    BY <1>3, SeqDomain
  <1>5. \A f : Q(f) <=> FoldsUpTo(f, Len(sq), "addResponses", x, base, sq)
    BY <1>2, <1>4 DEF FoldsUpTo
  <1> HIDE DEF Q
  <1>6. PICK f : Q(f) /\ Gathered(responseV) = f[DOMAIN sq]
    <2>1. \E f : Q(f)
      BY <1>4, <1>5, LoopFunction
    <2> QED BY <1>1, <2>1, Zenon
  <1>7. PICK g : Runs(g, "addResponses", x, base, sq) /\ g[Len(sq)] = f[DOMAIN sq]
    <2>1. FoldsUpTo(f, Len(sq), "addResponses", x, base, sq)
      BY <1>5, <1>6, Zenon
    <2> QED BY <1>3, <2>1, FoldRuns
  <1> QED BY <1>2, <1>6, <1>7, Zenon DEF Runs, base, sq

LEMMA MergeAttributesLoop ==
  ASSUME NEW cerV, NEW cer, IsSeq(cer.attributes)
  PROVE  \E g : /\ g[0] = cerV
                /\ \A n \in 1..Len(cer.attributes) : g[n] = MergeAttribute(g[n - 1], cer, cer.attributes[n])
                /\ MergeElement(cerV, cer) = g[Len(cer.attributes)]
  <1> DEFINE base == cerV
             x == cer
             sq == cer.attributes
             Q(f) == f = [s \in SUBSET DOMAIN sq |->
                            IF s = {} THEN base
                            ELSE MergeAttribute(f[s \ {Max(s)}], cer, sq[Max(s)])]
  <1>1. MergeElement(cerV, cer) = (CHOOSE f : Q(f))[DOMAIN sq]
    BY Zenon DEF MergeElement, FoldLeft, MapThenFoldSet
  <1>2. \A v, e : Loop("mergeAttributes", x, v, e) = MergeAttribute(v, cer, e)
    BY DEF Loop
  <1>3. IsSeq(sq)
    OBVIOUS
  <1> HIDE DEF base, x, sq
  <1>4. Len(sq) \in Nat /\ DOMAIN sq = 1..Len(sq)
    BY <1>3, SeqDomain
  <1>5. \A f : Q(f) <=> FoldsUpTo(f, Len(sq), "mergeAttributes", x, base, sq)
    BY <1>2, <1>4 DEF FoldsUpTo
  <1> HIDE DEF Q
  <1>6. PICK f : Q(f) /\ MergeElement(cerV, cer) = f[DOMAIN sq]
    <2>1. \E f : Q(f)
      BY <1>4, <1>5, LoopFunction
    <2> QED BY <1>1, <2>1, Zenon
  <1>7. PICK g : Runs(g, "mergeAttributes", x, base, sq) /\ g[Len(sq)] = f[DOMAIN sq]
    <2>1. FoldsUpTo(f, Len(sq), "mergeAttributes", x, base, sq)
      BY <1>5, <1>6, Zenon
    <2> QED BY <1>3, <2>1, FoldRuns
  <1> QED BY <1>2, <1>6, <1>7, Zenon DEF Runs, base, sq

LEMMA MergeElementsLoop ==
  ASSUME NEW response, NEW upcrs, IsSeq(upcrs.cerV)
  PROVE  \E g : /\ g[0] = response.cerV
                /\ \A n \in 1..Len(upcrs.cerV) : g[n] = MergeElement(g[n - 1], upcrs.cerV[n])
                /\ merge(response, upcrs).cerV = g[Len(upcrs.cerV)]
  <1> DEFINE base == response.cerV
             x == 0
             sq == upcrs.cerV
             Q(f) == f = [s \in SUBSET DOMAIN sq |->
                            IF s = {} THEN base
                            ELSE MergeElement(f[s \ {Max(s)}], sq[Max(s)])]
  <1>1. merge(response, upcrs).cerV = (CHOOSE f : Q(f))[DOMAIN sq]
    BY Zenon DEF merge, FoldLeft, MapThenFoldSet
  <1>2. \A v, e : Loop("mergeElements", x, v, e) = MergeElement(v, e)
    BY DEF Loop
  <1>3. IsSeq(sq)
    OBVIOUS
  <1> HIDE DEF base, x, sq
  <1>4. Len(sq) \in Nat /\ DOMAIN sq = 1..Len(sq)
    BY <1>3, SeqDomain
  <1>5. \A f : Q(f) <=> FoldsUpTo(f, Len(sq), "mergeElements", x, base, sq)
    BY <1>2, <1>4 DEF FoldsUpTo
  <1> HIDE DEF Q
  <1>6. PICK f : Q(f) /\ merge(response, upcrs).cerV = f[DOMAIN sq]
    <2>1. \E f : Q(f)
      BY <1>4, <1>5, LoopFunction
    <2> QED BY <1>1, <2>1, Zenon
  <1>7. PICK g : Runs(g, "mergeElements", x, base, sq) /\ g[Len(sq)] = f[DOMAIN sq]
    <2>1. FoldsUpTo(f, Len(sq), "mergeElements", x, base, sq)
      BY <1>5, <1>6, Zenon
    <2> QED BY <1>3, <2>1, FoldRuns
  <1> QED BY <1>2, <1>6, <1>7, Zenon DEF Runs, base, sq

-----------------------------------------------------------------------------
(* Answers                                                                  *)

AttrOK(a) ==
  /\ DOMAIN a = {"name", "id", "value", "found", "pa"}
  /\ a.found \in BOOLEAN /\ a.pa \in Providers \union {Nothing}
CerOK(cer) ==
  /\ cer = [id |-> cer.id, type |-> cer.type, attributes |-> cer.attributes, apps |-> cer.apps,
            code |-> cer.code, prune |-> cer.prune]
  /\ IsSeq(cer.attributes) /\ \A k \in DOMAIN cer.attributes : AttrOK(cer.attributes[k])
  /\ IsSeq(cer.apps) /\ \A k \in DOMAIN cer.apps : cer.apps[k] \in Providers
AnswerOK(cerV) == IsSeq(cerV) /\ \A i \in DOMAIN cerV : CerOK(cerV[i])

\* The answer to a query: no element is an error.
OkCer(cer) == CerOK(cer) /\ cer.code = "Ok"
OkAnswer(cerV) == IsSeq(cerV) /\ \A i \in DOMAIN cerV : OkCer(cerV[i])

\* An attribute that has its value from the database, and what it says.
Local(a) == a.found = TRUE /\ a.pa = Nothing
Fact(cer, a) == <<cer.id, cer.type, a.name, a.value>>
HasIn(cer, q) ==
  \E k \in DOMAIN cer.attributes : Local(cer.attributes[k]) /\ q = Fact(cer, cer.attributes[k])
Has(cerV, q) == \E i \in DOMAIN cerV : HasIn(cerV[i], q)
Same(cerV, new) == \A q : Has(new, q) <=> Has(cerV, q)
AllLocal(cerV) ==
  \A i \in DOMAIN cerV : \A k \in DOMAIN cerV[i].attributes : Local(cerV[i].attributes[k])

LEMMA AppendCer ==
  ASSUME NEW cs, OkAnswer(cs), NEW c, OkCer(c)
  PROVE  /\ OkAnswer(Append(cs, c))
         /\ \A q : Has(Append(cs, c), q) <=> Has(cs, q) \/ HasIn(c, q)
         /\ AllLocal(cs) /\ (\A k \in DOMAIN c.attributes : Local(c.attributes[k]))
              => AllLocal(Append(cs, c))
  <1> DEFINE t == Append(cs, c)
             n == Len(cs)
  <1>1. n \in Nat /\ DOMAIN cs = 1..n
    BY SeqDomain DEF OkAnswer
  <1>2. IsSeq(t) /\ DOMAIN t = 1..(n + 1) /\ (\A i \in 1..n : t[i] = cs[i]) /\ t[n + 1] = c
    BY SeqAppend DEF OkAnswer
  <1> HIDE DEF t, n
  <1>3. DOMAIN t = DOMAIN cs \union {n + 1}
    BY <1>1, <1>2
  <1>4. OkAnswer(t)
    BY <1>1, <1>2, <1>3 DEF OkAnswer
  <1>5. \A q : Has(t, q) <=> Has(cs, q) \/ HasIn(c, q)
    BY <1>1, <1>2, <1>3, Zenon DEF Has
  <1>6. AllLocal(cs) /\ (\A k \in DOMAIN c.attributes : Local(c.attributes[k])) => AllLocal(t)
    BY <1>1, <1>2, <1>3, Zenon DEF AllLocal
  <1> QED BY <1>4, <1>5, <1>6 DEF t

\* An element, or an answer, says what another one says and X.
Grown(c, cer, X) == \A q : HasIn(c, q) <=> HasIn(cer, q) \/ q \in X
Gains(new, cerV, X) == OkAnswer(new) /\ \A q : Has(new, q) <=> Has(cerV, q) \/ q \in X

LEMMA ReplaceCer ==
  ASSUME NEW cs, OkAnswer(cs), NEW n \in DOMAIN cs, NEW c, OkCer(c), NEW X, Grown(c, cs[n], X)
  PROVE  Gains([cs EXCEPT ![n] = c], cs, X)
  <1> DEFINE t == [cs EXCEPT ![n] = c]
  <1>1. IsSeq(t) /\ DOMAIN t = DOMAIN cs /\ \A i \in DOMAIN cs : t[i] = IF i = n THEN c ELSE cs[i]
    BY SeqExcept DEF OkAnswer
  <1> HIDE DEF t
  <1>2. OkAnswer(t)
    BY <1>1 DEF OkAnswer
  <1>3. \A q : Has(t, q) <=> Has(cs, q) \/ q \in X
    BY <1>1 DEF Has, Grown
  <1>4. Gains(t, cs, X)
    BY <1>2, <1>3 DEF Gains
  <1> QED BY <1>4 DEF t

LEMMA ReplaceLocal ==
  ASSUME NEW cs, OkAnswer(cs), NEW n \in DOMAIN cs, NEW c,
         AllLocal(cs), \A k \in DOMAIN c.attributes : Local(c.attributes[k])
  PROVE  AllLocal([cs EXCEPT ![n] = c])
  <1> DEFINE t == [cs EXCEPT ![n] = c]
  <1>1. DOMAIN t = DOMAIN cs /\ \A i \in DOMAIN cs : t[i] = IF i = n THEN c ELSE cs[i]
    OBVIOUS
  <1> HIDE DEF t
  <1>2. AllLocal(t)
    BY <1>1, Zenon DEF AllLocal
  <1> QED BY <1>2 DEF t

LEMMA ElementPlace ==
  ASSUME NEW cs, IsSeq(cs), NEW en, \E i \in DOMAIN cs : cs[i].id = en.id /\ cs[i].type = en.type
  PROVE  /\ ElementOf(cs, en) \in DOMAIN cs
         /\ cs[ElementOf(cs, en)].id = en.id /\ cs[ElementOf(cs, en)].type = en.type
  <1> DEFINE at == {i \in DOMAIN cs : cs[i].id = en.id /\ cs[i].type = en.type}
  <1>1. at # {} /\ at \in SUBSET Nat
    BY SeqDomain
  <1>2. ElementOf(cs, en) = CHOOSE i \in at : \A j \in at : i <= j
    BY Zenon DEF ElementOf
  <1> HIDE DEF at
  <1>3. ElementOf(cs, en) \in at
    BY <1>1, <1>2, Least
  <1> QED BY <1>3 DEF at

LEMMA EmptyCer ==
  ASSUME NEW en
  PROVE  /\ OkCer(ContextElementResponse(en, <<>>, "Ok"))
         /\ \A q : ~HasIn(ContextElementResponse(en, <<>>, "Ok"), q)
  BY SmallSeqs DEF OkCer, CerOK, HasIn, ContextElementResponse

LEMMA WithElementKeeps ==
  ASSUME NEW cs, OkAnswer(cs), NEW en
  PROVE  /\ OkAnswer(WithElement(cs, en)) /\ Same(cs, WithElement(cs, en))
         /\ AllLocal(cs) => AllLocal(WithElement(cs, en))
         /\ ElementOf(WithElement(cs, en), en) \in DOMAIN WithElement(cs, en)
         /\ WithElement(cs, en)[ElementOf(WithElement(cs, en), en)].id = en.id
         /\ WithElement(cs, en)[ElementOf(WithElement(cs, en), en)].type = en.type
  <1> DEFINE e == ContextElementResponse(en, <<>>, "Ok")
             t == WithElement(cs, en)
             there == \E i \in DOMAIN cs : cs[i].id = en.id /\ cs[i].type = en.type
  <1>1. t = IF there THEN cs ELSE Append(cs, e)
    BY Zenon DEF WithElement
  <1>2. OkCer(e) /\ (\A q : ~HasIn(e, q)) /\ \A k \in DOMAIN e.attributes : Local(e.attributes[k])
    BY EmptyCer DEF ContextElementResponse
  <1>3. e.id = en.id /\ e.type = en.type
    BY DEF ContextElementResponse
  <1> HIDE DEF e, t
  <1>4. OkAnswer(t) /\ Same(cs, t) /\ (AllLocal(cs) => AllLocal(t))
    <2>1. CASE there
      BY <1>1, <2>1, Zenon DEF Same
    <2>2. CASE ~there
      BY <1>1, <1>2, <2>2, AppendCer DEF Same
    <2> QED BY <2>1, <2>2
  <1>5. \E i \in DOMAIN t : t[i].id = en.id /\ t[i].type = en.type
    <2>1. CASE there
      BY <1>1, <2>1
    <2>2. CASE ~there
      <3>1. Len(cs) \in Nat
        BY SeqDomain DEF OkAnswer
      <3>2. Len(cs) + 1 \in DOMAIN t /\ t[Len(cs) + 1] = e
        BY <1>1, <2>2, <3>1, SeqAppend DEF OkAnswer
      <3> QED BY <1>3, <3>2
    <2> QED BY <2>1, <2>2
  <1>6. IsSeq(t)
    BY <1>4 DEF OkAnswer
  <1> QED BY <1>4, <1>5, <1>6, ElementPlace DEF t

\* Attributes are added to an element.
Said(cer, as) == {Fact(cer, as[k]) : k \in {i \in DOMAIN as : Local(as[i])}}

LEMMA PutAttributes ==
  ASSUME NEW cs, OkAnswer(cs), NEW n \in DOMAIN cs, NEW as, IsSeq(as),
         \A k \in DOMAIN as : AttrOK(as[k])
  PROVE  /\ Gains([cs EXCEPT ![n].attributes = @ \o as], cs, Said(cs[n], as))
         /\ AllLocal(cs) /\ (\A k \in DOMAIN as : Local(as[k]))
              => AllLocal([cs EXCEPT ![n].attributes = @ \o as])
  <1> DEFINE c == [cs[n] EXCEPT !.attributes = @ \o as]
             old == cs[n].attributes
             all == old \o as
             X == {Fact(cs[n], as[k]) : k \in {i \in DOMAIN as : Local(as[i])}}
             new == [cs EXCEPT ![n] = c]
  <1>1. OkCer(cs[n])
    BY DEF OkAnswer
  <1>2. IsSeq(old)
    BY <1>1 DEF OkCer, CerOK
  <1>5. c = [cs[n] EXCEPT !.attributes = all]
    OBVIOUS
  <1>0. old = cs[n].attributes
    OBVIOUS
  <1> HIDE DEF old
  <1>3. /\ IsSeq(all)
        /\ \A k \in DOMAIN all : (k \in DOMAIN old /\ all[k] = old[k]) \/ \E m \in DOMAIN as : all[k] = as[m]
        /\ \A k \in DOMAIN old : k \in DOMAIN all /\ all[k] = old[k]
        /\ \A m \in DOMAIN as : \E k \in DOMAIN all : all[k] = as[m]
    <2>1. Joins(all, old, as)
      BY <1>2, ConcatJoins
    <2> HIDE DEF all
    <2> QED BY <2>1, Zenon DEF Joins
  <1> HIDE DEF all
  <1>8. \A k \in DOMAIN all : AttrOK(all[k])
    BY <1>0, <1>1, <1>3 DEF OkCer, CerOK
  <1>9. /\ c = [id |-> cs[n].id, type |-> cs[n].type, attributes |-> all, apps |-> cs[n].apps,
                code |-> cs[n].code, prune |-> cs[n].prune]
    BY <1>1, <1>5 DEF OkCer, CerOK
  <1> HIDE DEF c
  <1>10. OkCer(c)
    BY <1>1, <1>3, <1>8, <1>9 DEF OkCer, CerOK
  <1>11. \A a : Fact(c, a) = Fact(cs[n], a)
    BY <1>9 DEF Fact
  <1>12. ASSUME NEW q PROVE HasIn(c, q) <=> HasIn(cs[n], q) \/ q \in X
    <2>1. c.attributes = all
      BY <1>9
    <2>2. ASSUME HasIn(c, q) PROVE HasIn(cs[n], q) \/ q \in X
      <3>1. PICK k \in DOMAIN all : Local(all[k]) /\ q = Fact(cs[n], all[k])
        BY <1>11, <2>1, <2>2, Zenon DEF HasIn
      <3> QED BY <1>0, <1>3, <3>1, Zenon DEF HasIn
    <2>3. ASSUME HasIn(cs[n], q) PROVE HasIn(c, q)
      BY <1>0, <1>3, <1>11, <2>1, <2>3, Zenon DEF HasIn
    <2>4. ASSUME q \in X PROVE HasIn(c, q)
      <3>1. PICK k \in DOMAIN as : Local(as[k]) /\ q = Fact(cs[n], as[k])
        BY <2>4
      <3>2. PICK i \in DOMAIN all : all[i] = as[k]
        BY <1>3, Zenon
      <3> QED BY <1>11, <2>1, <3>1, <3>2 DEF HasIn
    <2> QED BY <2>2, <2>3, <2>4
  <1>13. AllLocal(cs) /\ (\A k \in DOMAIN as : Local(as[k])) => \A k \in DOMAIN c.attributes : Local(c.attributes[k])
    <2>1. c.attributes = all
      BY <1>9
    <2> QED BY <1>0, <1>3, <2>1, Zenon DEF AllLocal
  <1>14. [cs EXCEPT ![n].attributes = @ \o as] = new
    BY DEF c
  <1>15. X = Said(cs[n], as)
    BY Zenon DEF Said
  <1> HIDE DEF X
  <1>16. Gains(new, cs, X)
    <2>1. Grown(c, cs[n], X)
      BY <1>12 DEF Grown
    <2> QED BY <1>10, <2>1, ReplaceCer
  <1>17. AllLocal(cs) /\ (\A k \in DOMAIN c.attributes : Local(c.attributes[k])) => AllLocal(new)
    BY <1>10, ReplaceLocal
  <1> HIDE DEF new
  <1> QED BY <1>13, <1>14, <1>15, <1>16, <1>17

LEMMA PutAttribute ==
  ASSUME NEW cs, OkAnswer(cs), NEW n \in DOMAIN cs, NEW a, AttrOK(a)
  PROVE  /\ Gains([cs EXCEPT ![n].attributes = Append(@, a)], cs,
                  IF Local(a) THEN {Fact(cs[n], a)} ELSE {})
         /\ AllLocal(cs) /\ Local(a) => AllLocal([cs EXCEPT ![n].attributes = Append(@, a)])
  <1>1. IsSeq(cs[n].attributes)
    BY DEF OkAnswer, OkCer, CerOK
  <1>2. Append(cs[n].attributes, a) = cs[n].attributes \o <<a>>
    BY <1>1 DEF IsSeq
  <1>3. [cs EXCEPT ![n].attributes = Append(@, a)] = [cs EXCEPT ![n].attributes = @ \o <<a>>]
    BY <1>2
  <1>4. IsSeq(<<a>>) /\ DOMAIN <<a>> = {1} /\ <<a>>[1] = a
    BY SmallSeqs
  <1> DEFINE as == <<a>>
  <1>5. as[1] = a /\ DOMAIN as = {1} /\ IsSeq(as)
    BY <1>4
  <1> HIDE DEF as
  <1>6. Said(cs[n], as) = IF Local(a) THEN {Fact(cs[n], a)} ELSE {}
    BY <1>5 DEF Said
  <1>7. \A k \in DOMAIN as : AttrOK(as[k])
    BY <1>5
  <1>8. /\ Gains([cs EXCEPT ![n].attributes = @ \o as], cs, Said(cs[n], as))
        /\ AllLocal(cs) /\ (\A k \in DOMAIN as : Local(as[k]))
              => AllLocal([cs EXCEPT ![n].attributes = @ \o as])
    BY <1>5, <1>7, PutAttributes
  <1>9. (\A k \in DOMAIN as : Local(as[k])) <=> Local(a)
    BY <1>5
  <1>10. [cs EXCEPT ![n].attributes = Append(@, a)] = [cs EXCEPT ![n].attributes = @ \o as]
    BY <1>3 DEF as
  <1> DEFINE new == [cs EXCEPT ![n].attributes = @ \o as]
  <1> HIDE DEF new
  <1>11. /\ [cs EXCEPT ![n].attributes = Append(@, a)] = new
         /\ Gains(new, cs, Said(cs[n], as))
         /\ AllLocal(cs) /\ (\A k \in DOMAIN as : Local(as[k])) => AllLocal(new)
    BY <1>8, <1>10 DEF new
  <1> QED BY <1>6, <1>9, <1>11

-----------------------------------------------------------------------------
(* The providers of an answer: nothing that the database said is lost, and  *)
(* nothing is said for the database                                         *)

Kept(new, cerV) == OkAnswer(new) /\ Same(cerV, new)
CrrOK(crr) == IsSeq(crr.entities) /\ IsSeq(crr.attrs) /\ crr.app \in Providers
CrrsOK(crrV) == IsSeq(crrV) /\ \A i \in DOMAIN crrV : CrrOK(crrV[i])

LEMMA KeptTrans ==
  ASSUME NEW a, NEW b, NEW c, Kept(b, a), Kept(c, b)
  PROVE  Kept(c, a)
  BY Zenon DEF Kept, Same

LEMMA NothingGained == ASSUME NEW new, NEW cs, Gains(new, cs, {}) PROVE Kept(new, cs)
  BY DEF Gains, Kept, Same

LEMMA AddAttributeKeeps ==
  ASSUME NEW cerV, OkAnswer(cerV), NEW en, NEW name, NEW app \in Providers
  PROVE  Kept(addContextProviderAttribute(cerV, en, name, app), cerV)
  <1> DEFINE a == [Attribute(name, Nothing, Nothing, TRUE) EXCEPT !.pa = app]
             cs == WithElement(cerV, en)
             n == ElementOf(cs, en)
             new == [cs EXCEPT ![n].attributes = Append(@, a)]
             known == \E i \in DOMAIN cs[n].attributes : cs[n].attributes[i].name = name
  <1>1. Kept(cs, cerV) /\ n \in DOMAIN cs
    BY WithElementKeeps DEF Kept
  <1>2. AttrOK(a) /\ ~Local(a)
    <2>1. a.pa = app /\ a.found = TRUE /\ DOMAIN a = {"name", "id", "value", "found", "pa"}
      BY DEF Attribute
    <2>2. app # Nothing
      BY RegistrationsAssumption
    <2> HIDE DEF a
    <2> QED BY <2>1, <2>2 DEF AttrOK, Local
  <1>3. addContextProviderAttribute(cerV, en, name, app) = IF known THEN cs ELSE new
    BY Zenon DEF addContextProviderAttribute
  <1> HIDE DEF a, cs, n
  <1>4. Kept(new, cs)
    <2>1. Gains(new, cs, IF Local(a) THEN {Fact(cs[n], a)} ELSE {})
      BY <1>1, <1>2, PutAttribute DEF Kept
    <2> HIDE DEF new
    <2> QED BY <1>2, <2>1, NothingGained
  <1> HIDE DEF new, known
  <1>5. Kept(new, cerV)
    BY <1>1, <1>4, KeptTrans
  <1> QED BY <1>1, <1>3, <1>5

LEMMA AddEntityKeeps ==
  ASSUME NEW cerV, OkAnswer(cerV), NEW en, NEW app \in Providers
  PROVE  Kept(addContextProviderEntity(cerV, en, app), cerV)
  <1> DEFINE cs == WithElement(cerV, en)
             n == ElementOf(cs, en)
             apps == Append(cs[n].apps, app)
             c == [cs[n] EXCEPT !.apps = apps]
             new == [cs EXCEPT ![n] = c]
  <1>1. Kept(cs, cerV) /\ n \in DOMAIN cs
    BY WithElementKeeps DEF Kept
  <1>2. addContextProviderEntity(cerV, en, app) = new
    BY DEF addContextProviderEntity
  <1> HIDE DEF cs, n
  <1>3. OkCer(cs[n])
    BY <1>1 DEF Kept, OkAnswer
  <1>4. IsSeq(apps) /\ \A k \in DOMAIN apps : apps[k] \in Providers
    <2> DEFINE old == cs[n].apps
    <2>1. IsSeq(old) /\ \A k \in DOMAIN old : old[k] \in Providers
      BY <1>3 DEF OkCer, CerOK
    <2> HIDE DEF old
    <2>2. Len(old) \in Nat /\ DOMAIN old = 1..Len(old)
      BY <2>1, SeqDomain
    <2>3. /\ IsSeq(Append(old, app)) /\ DOMAIN Append(old, app) = 1..(Len(old) + 1)
          /\ \A i \in 1..Len(old) : Append(old, app)[i] = old[i]
          /\ Append(old, app)[Len(old) + 1] = app
      BY <2>1, SeqAppend
    <2>4. apps = Append(old, app)
      BY DEF old
    <2> HIDE DEF apps
    <2> QED BY <2>1, <2>2, <2>3, <2>4
  <1>5. c = [id |-> cs[n].id, type |-> cs[n].type, attributes |-> cs[n].attributes,
             apps |-> apps, code |-> cs[n].code, prune |-> cs[n].prune]
    <2> HIDE DEF apps
    <2> QED BY <1>3 DEF OkCer, CerOK
  <1> HIDE DEF c, apps
  <1>6. OkCer(c)
    BY <1>3, <1>4, <1>5 DEF OkCer, CerOK
  <1>7. Grown(c, cs[n], {})
    <2>1. c.attributes = cs[n].attributes /\ \A a : Fact(c, a) = Fact(cs[n], a)
      BY <1>5 DEF Fact
    <2> QED BY <2>1 DEF Grown, HasIn
  <1>8. Gains(new, cs, {})
    BY <1>1, <1>6, <1>7, ReplaceCer DEF Kept
  <1> HIDE DEF new
  <1>9. Kept(new, cs)
    BY <1>8, NothingGained
  <1> QED BY <1>1, <1>2, <1>9, KeptTrans

LEMMA KeptSelf == ASSUME NEW cerV, OkAnswer(cerV) PROVE Kept(cerV, cerV)
  BY DEF Kept, Same

LEMMA AddProviderOfKeeps ==
  ASSUME NEW cerV, OkAnswer(cerV), NEW en, NEW crr, CrrOK(crr)
  PROVE  Kept(AddProviderOf(cerV, en, crr), cerV)
  <1>1. CASE crr.attrs = <<>>
    <2>1. AddProviderOf(cerV, en, crr) = addContextProviderEntity(cerV, en, crr.app)
      BY <1>1, Zenon DEF AddProviderOf
    <2> QED BY <2>1, AddEntityKeeps DEF CrrOK
  <1>2. CASE crr.attrs # <<>>
    <2>1. PICK g : NamesRun(g, cerV, en, crr)
      BY <1>2, AddNamesLoop DEF CrrOK
    <2>2. Len(crr.attrs) \in Nat
      BY SeqDomain DEF CrrOK
    <2> DEFINE S == {n \in Nat : Kept(g[n], cerV)}
    <2>3. 0 \in S
      BY <2>1, KeptSelf DEF NamesRun
    <2>4. ASSUME NEW n \in 1..Len(crr.attrs), n - 1 \in S PROVE n \in S
      <3>1. Kept(g[n - 1], cerV) /\ n \in Nat
        BY <2>4
      <3>2. Kept(g[n], g[n - 1])
        BY <2>1, <3>1, AddAttributeKeeps DEF NamesRun, Kept, CrrOK
      <3> QED BY <3>1, <3>2, KeptTrans
    <2>5. Len(crr.attrs) \in S
      BY <2>2, <2>3, <2>4, LoopInduction
    <2> QED BY <2>1, <2>5 DEF NamesRun
  <1> QED BY <1>1, <1>2

LEMMA AddProviderKeeps ==
  ASSUME NEW cerV, OkAnswer(cerV), NEW crr, CrrOK(crr)
  PROVE  Kept(AddProvider(cerV, crr), cerV)
  <1>1. PICK g : /\ g[0] = cerV
                 /\ \A n \in 1..Len(crr.entities) :
                       g[n] = AddProviderOf(g[n - 1], crr.entities[n], crr)
                 /\ AddProvider(cerV, crr) = g[Len(crr.entities)]
    BY AddEntitiesLoop DEF CrrOK
  <1>2. Len(crr.entities) \in Nat /\ DOMAIN crr.entities = 1..Len(crr.entities)
    BY SeqDomain DEF CrrOK
  <1> DEFINE S == {n \in Nat : Kept(g[n], cerV)}
  <1>3. 0 \in S
    BY <1>1, KeptSelf
  <1>4. ASSUME NEW n \in 1..Len(crr.entities), n - 1 \in S PROVE n \in S
    <2>1. Kept(g[n - 1], cerV) /\ n \in Nat
      BY <1>4
    <2>2. Kept(g[n], g[n - 1])
      BY <1>1, <2>1, AddProviderOfKeeps DEF Kept
    <2> QED BY <2>1, <2>2, KeptTrans
  <1>5. Len(crr.entities) \in S
    BY <1>2, <1>3, <1>4, LoopInduction
  <1> QED BY <1>1, <1>5

LEMMA AddProvidersKeeps ==
  ASSUME NEW cerV, OkAnswer(cerV), NEW crrV, CrrsOK(crrV)
  PROVE  Kept(addContextProviders(cerV, crrV), cerV)
  <1>1. PICK g : /\ g[0] = cerV
                 /\ \A n \in 1..Len(crrV) : g[n] = AddProvider(g[n - 1], crrV[n])
                 /\ addContextProviders(cerV, crrV) = g[Len(crrV)]
    BY AddProvidersLoop DEF CrrsOK
  <1>2. Len(crrV) \in Nat /\ DOMAIN crrV = 1..Len(crrV)
    BY SeqDomain DEF CrrsOK
  <1> DEFINE S == {n \in Nat : Kept(g[n], cerV)}
  <1>3. 0 \in S
    BY <1>1, KeptSelf
  <1>4. ASSUME NEW n \in 1..Len(crrV), n - 1 \in S PROVE n \in S
    <2>1. Kept(g[n - 1], cerV) /\ n \in Nat
      BY <1>4
    <2>2. Kept(g[n], g[n - 1])
      <3>1. CrrOK(crrV[n])
        BY <1>2 DEF CrrsOK
      <3> QED BY <1>1, <2>1, <3>1, AddProviderKeeps DEF Kept
    <2> QED BY <2>1, <2>2, KeptTrans
  <1>5. Len(crrV) \in S
    BY <1>2, <1>3, <1>4, LoopInduction
  <1> QED BY <1>1, <1>5

LEMMA MatchingOK ==
  ASSUME NEW crrV, CrrsOK(crrV), NEW en
  PROVE  CrrsOK(Matching(crrV, en))
  <1> DEFINE v == [i \in DOMAIN crrV |-> IF matchEntityInCrr(crrV[i], en) THEN <<crrV[i]>> ELSE <<>>]
             t == FlattenSeq(v)
  <1>1. Matching(crrV, en) = t
    BY Zenon DEF Matching, Those
  <1>2. v = [i \in DOMAIN crrV |-> v[i]] /\ \A i \in DOMAIN crrV : v[i] \in {<<crrV[i]>>, <<>>}
    OBVIOUS
  <1> HIDE DEF v
  <1>3. Passes(t, crrV, v)
    BY <1>2, Passing DEF CrrsOK
  <1> HIDE DEF t
  <1> QED BY <1>1, <1>3 DEF CrrsOK, Passes

LEMMA GenericSeq == ASSUME NEW enV, IsSeq(enV) PROVE IsSeq(Generic(enV))
  <1> DEFINE v == [i \in DOMAIN enV |-> IF enV[i].type = AnyType \/ isTrue(enV[i].isPattern)
                                         THEN <<enV[i]>> ELSE <<>>]
  <1>1. Generic(enV) = FlattenSeq(v)
    BY Zenon DEF Generic, Those
  <1>2. v = [i \in DOMAIN enV |-> v[i]] /\ \A i \in DOMAIN enV : v[i] \in {<<enV[i]>>, <<>>}
    OBVIOUS
  <1> HIDE DEF v
  <1> QED BY <1>1, <1>2, Passing DEF Passes

LEMMA GenericKeeps ==
  ASSUME NEW cerV, OkAnswer(cerV), NEW enV, IsSeq(enV), NEW crrV, CrrsOK(crrV)
  PROVE  Kept(processGenericEntities(enV, cerV, crrV), cerV)
  <1>1. PICK g : /\ g[0] = cerV
                 /\ \A n \in 1..Len(Generic(enV)) :
                       g[n] = addContextProviders(g[n - 1], Matching(crrV, Generic(enV)[n]))
                 /\ processGenericEntities(enV, cerV, crrV) = g[Len(Generic(enV))]
    BY GenericSeq, GenericLoop
  <1>2. Len(Generic(enV)) \in Nat /\ DOMAIN Generic(enV) = 1..Len(Generic(enV))
    BY GenericSeq, SeqDomain
  <1> DEFINE S == {n \in Nat : Kept(g[n], cerV)}
  <1>3. 0 \in S
    BY <1>1, KeptSelf
  <1>4. ASSUME NEW n \in 1..Len(Generic(enV)), n - 1 \in S PROVE n \in S
    <2>1. Kept(g[n - 1], cerV) /\ n \in Nat
      BY <1>4
    <2>2. Kept(g[n], g[n - 1])
      BY <1>1, <2>1, MatchingOK, AddProvidersKeeps DEF Kept
    <2> QED BY <2>1, <2>2, KeptTrans
  <1>5. Len(Generic(enV)) \in S
    BY <1>2, <1>3, <1>4, LoopInduction
  <1> QED BY <1>1, <1>5

-----------------------------------------------------------------------------
(* The registrations that a lookup finds                                    *)

DocsOK(docs) ==
  /\ IsSeq(docs)
  /\ \A d \in DOMAIN docs :
       /\ IsSeq(docs[d].crs)
       /\ \A n \in DOMAIN docs[d].crs : CrrOK(docs[d].crs[n])

LEMMA RegistrationDocs == ASSUME NEW docs \in RegistrationSets PROVE DocsOK(docs)
  BY RegistrationsAssumption, Zenon DEF DocsOK, CrrOK

LEMMA NoDocs == DocsOK(<<>>)
  BY SmallSeqs DEF DocsOK

LEMMA ElementCrrs ==
  ASSUME NEW cr, CrrOK(cr), NEW enV, NEW attrL
  PROVE  CrrsOK(processContextRegistrationElement(cr, enV, attrL))
  <1> DEFINE es == [i \in DOMAIN cr.entities |-> processEntity(enV, cr.entities[i])]
             as == [i \in DOMAIN cr.attrs |-> processAttribute(attrL, cr.attrs[i])]
             r == [entities |-> FlattenSeq(es), attrs |-> FlattenSeq(as), app |-> cr.app]
  <1>1. /\ DOMAIN cr.entities = 1..Len(cr.entities) /\ Len(cr.entities) \in Nat
        /\ DOMAIN cr.attrs = 1..Len(cr.attrs) /\ Len(cr.attrs) \in Nat
    BY SeqDomain DEF CrrOK
  <1>2. ASSUME NEW i \in DOMAIN cr.entities PROVE IsSeq(processEntity(enV, cr.entities[i]))
    BY SmallSeqs, Zenon DEF processEntity
  <1>3. ASSUME NEW i \in DOMAIN cr.attrs PROVE IsSeq(processAttribute(attrL, cr.attrs[i]))
    BY SmallSeqs, Zenon DEF processAttribute
  <1>4. IsSeq(FlattenSeq(es))
    <2>1. es = [i \in 1..Len(cr.entities) |-> es[i]] /\ \A i \in 1..Len(cr.entities) : IsSeq(es[i])
      BY <1>1, <1>2
    <2> HIDE DEF es
    <2> QED BY <1>1, <2>1, FlattenSeqs
  <1>5. IsSeq(FlattenSeq(as))
    <2>1. as = [i \in 1..Len(cr.attrs) |-> as[i]] /\ \A i \in 1..Len(cr.attrs) : IsSeq(as[i])
      BY <1>1, <1>3
    <2> HIDE DEF as
    <2> QED BY <1>1, <2>1, FlattenSeqs
  <1>6. CrrOK(r)
    <2> HIDE DEF es, as
    <2> QED BY <1>4, <1>5 DEF CrrOK
  <1>7. processContextRegistrationElement(cr, enV, attrL) \in {<<>>, <<r>>}
    BY Zenon DEF processContextRegistrationElement
  <1> HIDE DEF r
  <1>8. CrrsOK(<<>>)
    BY SmallSeqs DEF CrrsOK
  <1>9. CrrsOK(<<r>>)
    BY <1>6, SmallSeqs DEF CrrsOK
  <1> QED BY <1>7, <1>8, <1>9

\* A sequence of sequences of registrations, put together.
LEMMA CrrsFlatten ==
  ASSUME NEW n \in Nat, NEW ss, ss = [i \in 1..n |-> ss[i]], \A i \in 1..n : CrrsOK(ss[i])
  PROVE  CrrsOK(FlattenSeq(ss))
  <1>1. \A i \in 1..n : IsSeq(ss[i])
    BY DEF CrrsOK
  <1> DEFINE t == FlattenSeq(ss)
  <1>2. IsSeq(t) /\ \A x : x \in Range(t) <=> \E i \in 1..n : x \in Range(ss[i])
    BY <1>1, FlattenSeqs
  <1> HIDE DEF t
  <1>3. ASSUME NEW k \in DOMAIN t PROVE CrrOK(t[k])
    <2>1. t[k] \in Range(t)
      BY DEF Range
    <2>2. PICK i \in 1..n : t[k] \in Range(ss[i])
      BY <1>2, <2>1
    <2>3. PICK j \in DOMAIN ss[i] : t[k] = ss[i][j]
      BY <2>2 DEF Range
    <2> QED BY <2>3 DEF CrrsOK
  <1>4. CrrsOK(t)
    BY <1>2, <1>3 DEF CrrsOK
  <1> QED BY <1>4 DEF t

LEMMA PageAll == ASSUME NEW docs, IsSeq(docs) PROVE Page(docs, 0, 0) = docs
  BY DEF Page, IsSeq

LEMMA QueryCrrs ==
  ASSUME NEW docs, DocsOK(docs), NEW enV, NEW attrL
  PROVE  CrrsOK(Registrations(docs, enV, attrL))
  <1> DEFINE v == [i \in DOMAIN docs |-> IF QueryMatches(docs[i], enV, attrL, <<>>, 0)
                                         THEN <<docs[i]>> ELSE <<>>]
             found == FlattenSeq(v)
             El(doc) == [i \in DOMAIN doc.crs |->
                           processContextRegistrationElement(doc.crs[i], enV, attrL)]
             all == [i \in DOMAIN Page(found, 0, 0) |-> FlattenSeq(El(Page(found, 0, 0)[i]))]
             els == [i \in DOMAIN found |-> FlattenSeq(El(found[i]))]
  <1>1. Registrations(docs, enV, attrL) = FlattenSeq(all)
    BY DEF Registrations, registrationsQuery, Those
  <1>2. IsSeq(found) /\ \A k \in DOMAIN found : \E j \in DOMAIN docs : found[k] = docs[j]
    <2>1. v = [i \in DOMAIN docs |-> v[i]] /\ \A i \in DOMAIN docs : v[i] \in {<<docs[i]>>, <<>>}
      OBVIOUS
    <2> HIDE DEF v
    <2>2. Passes(found, docs, v)
      BY <2>1, Passing DEF DocsOK
    <2> HIDE DEF found
    <2> QED BY <2>2 DEF Passes
  <1> HIDE DEF found
  <1>3. Page(found, 0, 0) = found
    BY <1>2, PageAll
  <1>4. all = els
    BY <1>3
  <1>5. ASSUME NEW k \in DOMAIN found PROVE CrrsOK(FlattenSeq(El(found[k])))
    <2>1. PICK j \in DOMAIN docs : found[k] = docs[j]
      BY <1>2
    <2> DEFINE crs == docs[j].crs
               ss == [i \in DOMAIN crs |-> processContextRegistrationElement(crs[i], enV, attrL)]
    <2>2. IsSeq(crs) /\ \A n \in DOMAIN crs : CrrOK(crs[n])
      BY DEF DocsOK
    <2>3. El(found[k]) = ss
      BY <2>1
    <2> HIDE DEF crs
    <2>4. Len(crs) \in Nat /\ DOMAIN crs = 1..Len(crs)
      BY <2>2, SeqDomain
    <2>5. ss = [i \in 1..Len(crs) |-> ss[i]] /\ \A i \in 1..Len(crs) : CrrsOK(ss[i])
      BY <2>2, <2>4, ElementCrrs
    <2> HIDE DEF ss
    <2>6. CrrsOK(FlattenSeq(ss))
      BY <2>4, <2>5, CrrsFlatten
    <2> HIDE DEF El
    <2> QED BY <2>3, <2>6
  <1> HIDE DEF El
  <1>6. Len(found) \in Nat /\ DOMAIN found = 1..Len(found)
    BY <1>2, SeqDomain
  <1>7. els = [i \in 1..Len(found) |-> els[i]] /\ \A i \in 1..Len(found) : CrrsOK(els[i])
    BY <1>5, <1>6
  <1> HIDE DEF all, els
  <1>8. CrrsOK(FlattenSeq(els))
    BY <1>6, <1>7, CrrsFlatten
  <1> QED BY <1>1, <1>4, <1>8

LEMMA NoRegistrations == ASSUME NEW enV, NEW attrL PROVE Registrations(<<>>, enV, attrL) = <<>>
  <1> DEFINE docs == <<>>
             v == [i \in DOMAIN docs |-> IF QueryMatches(docs[i], enV, attrL, <<>>, 0)
                                         THEN <<docs[i]>> ELSE <<>>]
             found == FlattenSeq(v)
             El(doc) == [i \in DOMAIN doc.crs |->
                           processContextRegistrationElement(doc.crs[i], enV, attrL)]
             all == [i \in DOMAIN Page(found, 0, 0) |-> FlattenSeq(El(Page(found, 0, 0)[i]))]
  <1>1. Registrations(<<>>, enV, attrL) = FlattenSeq(all)
    BY DEF Registrations, registrationsQuery, Those
  <1>2. FlattenSeq(<<>>) = <<>>
    BY DEF FlattenSeq
  <1>3. v = <<>>
    OBVIOUS
  <1> HIDE DEF v
  <1>4. found = <<>>
    BY <1>2, <1>3
  <1> HIDE DEF found
  <1>5. Page(found, 0, 0) = <<>>
    BY <1>4, SmallSeqs, PageAll
  <1> HIDE DEF El
  <1>6. all = <<>>
    BY <1>5
  <1> HIDE DEF all
  <1> QED BY <1>1, <1>2, <1>6

-----------------------------------------------------------------------------
(* The lookups                                                              *)

Prov == Providers \union {Nothing}
PaOK(pa) == /\ pa = [perEnt |-> pa.perEnt, perAttr |-> pa.perAttr]
            /\ pa.perEnt \in Prov /\ pa.perAttr \in Prov

LEMMA ProvidersStep ==
  ASSUME NEW en, NEW name, NEW pa, PaOK(pa), NEW crr, CrrOK(crr)
  PROVE  PaOK(ProvidersBy(en, name, pa, crr))
  <1>1. PaOK([pa EXCEPT !.perEnt = crr.app]) /\ PaOK([pa EXCEPT !.perAttr = crr.app])
    BY DEF PaOK, Prov, CrrOK
  <1>2. ProvidersBy(en, name, pa, crr) \in {pa, [pa EXCEPT !.perEnt = crr.app], [pa EXCEPT !.perAttr = crr.app]}
    <2> DEFINE reg == \E i \in DOMAIN crr.entities :
                        /\ crr.entities[i].id = en.id
                        /\ crr.entities[i].type \in {en.type, AnyType}
               has == Contains(crr.attrs, name)
    <2>1. ProvidersBy(en, name, pa, crr) =
            CASE pa.perAttr # Nothing \/ ~reg -> pa
              [] pa.perAttr = Nothing /\ reg /\ crr.attrs = <<>> -> [pa EXCEPT !.perEnt = crr.app]
              [] OTHER -> IF has THEN [pa EXCEPT !.perAttr = crr.app] ELSE pa
      BY DEF ProvidersBy
    <2> HIDE DEF reg, has
    <2> QED BY <2>1
  <1> QED BY <1>1, <1>2

LEMMA ProvidersFound ==
  ASSUME NEW en, NEW name, NEW crrV, CrrsOK(crrV)
  PROVE  /\ PaOK(cprLookupByAttribute(en, name, crrV))
         /\ crrV = <<>> => cprLookupByAttribute(en, name, crrV)
                             = [perEnt |-> Nothing, perAttr |-> Nothing]
  <1>1. PICK g : /\ g[0] = [perEnt |-> Nothing, perAttr |-> Nothing]
                 /\ \A n \in 1..Len(crrV) : g[n] = ProvidersBy(en, name, g[n - 1], crrV[n])
                 /\ cprLookupByAttribute(en, name, crrV) = g[Len(crrV)]
    BY ProvidersLoop DEF CrrsOK
  <1>2. Len(crrV) \in Nat /\ DOMAIN crrV = 1..Len(crrV)
    BY SeqDomain DEF CrrsOK
  <1> DEFINE S == {n \in Nat : PaOK(g[n])}
  <1>3. 0 \in S
    BY <1>1 DEF PaOK, Prov
  <1>4. ASSUME NEW n \in 1..Len(crrV), n - 1 \in S PROVE n \in S
    <2>1. CrrOK(crrV[n])
      BY <1>2 DEF CrrsOK
    <2>2. PaOK(ProvidersBy(en, name, g[n - 1], crrV[n]))
      BY <1>4, <2>1, ProvidersStep
    <2> QED BY <1>1, <2>2
  <1>5. Len(crrV) \in S
    BY <1>2, <1>3, <1>4, LoopInduction
  <1> QED BY <1>1, <1>5

\* An attribute with its provider, if it has one.
AppOf(pa) == IF pa.perAttr = Nothing THEN pa.perEnt ELSE pa.perAttr
Filled(cer, a, crrV) ==
  IF a.found THEN a
  ELSE [a EXCEPT !.pa = AppOf(cprLookupByAttribute(cer, a.name, crrV)),
                 !.found = AppOf(cprLookupByAttribute(cer, a.name, crrV)) # Nothing]

LEMMA FilledOK ==
  ASSUME NEW cer, NEW a, AttrOK(a), NEW crrV, CrrsOK(crrV)
  PROVE  /\ AttrOK(Filled(cer, a, crrV))
         /\ Local(Filled(cer, a, crrV)) <=> Local(a)
         /\ Local(a) => Filled(cer, a, crrV) = a
         /\ crrV = <<>> /\ a.pa = Nothing => Filled(cer, a, crrV).pa = Nothing
  <1> DEFINE app == AppOf(cprLookupByAttribute(cer, a.name, crrV))
             b == [a EXCEPT !.pa = app, !.found = app # Nothing]
  <1>1. app \in Prov /\ (crrV = <<>> => app = Nothing)
    BY ProvidersFound DEF AppOf, PaOK
  <1>2. Filled(cer, a, crrV) = IF a.found THEN a ELSE b
    BY Zenon DEF Filled
  <1> HIDE DEF app
  <1>3. DOMAIN b = {"name", "id", "value", "found", "pa"} /\ b.pa = app /\ b.found = (app # Nothing)
    BY DEF AttrOK
  <1> HIDE DEF b
  <1>4. AttrOK(b) /\ ~Local(b)
    BY <1>1, <1>3 DEF AttrOK, Local, Prov
  <1>5. CASE a.found = TRUE
    BY <1>2, <1>5
  <1>6. CASE a.found = FALSE
    BY <1>1, <1>2, <1>3, <1>4, <1>6 DEF Local
  <1> QED BY <1>5, <1>6 DEF AttrOK

Plain(cer) == \A k \in DOMAIN cer.attributes : cer.attributes[k].pa = Nothing
AllPlain(cerV) == \A i \in DOMAIN cerV : Plain(cerV[i])

LEMMA FillCer ==
  ASSUME NEW cer, CerOK(cer), NEW crrV, CrrsOK(crrV)
  PROVE  /\ CerOK(fillContextProviders(cer, crrV))
         /\ fillContextProviders(cer, crrV).code = cer.code
         /\ Grown(fillContextProviders(cer, crrV), cer, {})
         /\ crrV = <<>> /\ Plain(cer) => Plain(fillContextProviders(cer, crrV))
  <1> DEFINE old == cer.attributes
             as == [i \in DOMAIN old |-> Filled(cer, old[i], crrV)]
             c == fillContextProviders(cer, crrV)
  <1>1. c = [cer EXCEPT !.attributes = as]
    BY DEF fillContextProviders, Filled, AppOf
  <1>2. IsSeq(old) /\ \A k \in DOMAIN old : AttrOK(old[k])
    BY DEF CerOK
  <1> HIDE DEF c
  <1>0. old = cer.attributes
    OBVIOUS
  <1> HIDE DEF old
  <1>3. DOMAIN as = DOMAIN old /\ \A k \in DOMAIN old : as[k] = Filled(cer, old[k], crrV)
    OBVIOUS
  <1>4. IsSeq(as)
    <2>1. Len(old) \in Nat /\ DOMAIN old = 1..Len(old)
      BY <1>2, SeqDomain
    <2>2. as = [i \in 1..Len(old) |-> as[i]]
      BY <2>1
    <2> HIDE DEF as
    <2> QED BY <2>1, <2>2, FunctionSeq
  <1> HIDE DEF as
  <1>5. \A k \in DOMAIN old : /\ AttrOK(as[k]) /\ (Local(as[k]) <=> Local(old[k]))
                              /\ Local(old[k]) => as[k] = old[k]
                              /\ crrV = <<>> /\ old[k].pa = Nothing => as[k].pa = Nothing
    <2> TAKE k \in DOMAIN old
    <2> DEFINE a == old[k]
    <2>1. AttrOK(a) /\ as[k] = Filled(cer, a, crrV)
      BY <1>2, <1>3
    <2> HIDE DEF a
    <2>2. /\ AttrOK(Filled(cer, a, crrV)) /\ (Local(Filled(cer, a, crrV)) <=> Local(a))
          /\ Local(a) => Filled(cer, a, crrV) = a
          /\ crrV = <<>> /\ a.pa = Nothing => Filled(cer, a, crrV).pa = Nothing
      BY <2>1, FilledOK, Zenon
    <2> QED BY <2>1, <2>2 DEF a
  <1>6. /\ c = [id |-> cer.id, type |-> cer.type, attributes |-> as, apps |-> cer.apps,
                code |-> cer.code, prune |-> cer.prune]
    BY <1>1 DEF CerOK
  <1>7. CerOK(c) /\ c.code = cer.code
    BY <1>3, <1>4, <1>5, <1>6 DEF CerOK
  <1>8. c.attributes = as /\ \A a : Fact(c, a) = Fact(cer, a)
    BY <1>6 DEF Fact
  <1>9. Grown(c, cer, {})
    BY <1>0, <1>3, <1>5, <1>8 DEF Grown, HasIn
  <1>10. crrV = <<>> /\ Plain(cer) => Plain(c)
    BY <1>0, <1>3, <1>5, <1>8 DEF Plain
  <1> QED BY <1>7, <1>9, <1>10 DEF c

Fill(cerV, crrV) == [i \in DOMAIN cerV |-> fillContextProviders(cerV[i], crrV)]

LEMMA FillKeeps ==
  ASSUME NEW cerV, OkAnswer(cerV), NEW crrV, CrrsOK(crrV)
  PROVE  /\ Kept(Fill(cerV, crrV), cerV)
         /\ crrV = <<>> /\ AllPlain(cerV) => AllPlain(Fill(cerV, crrV))
  <1> DEFINE t == Fill(cerV, crrV)
  <1>1. DOMAIN t = DOMAIN cerV /\ \A i \in DOMAIN cerV : t[i] = fillContextProviders(cerV[i], crrV)
    BY DEF Fill
  <1>2. IsSeq(t)
    <2>1. Len(cerV) \in Nat /\ DOMAIN cerV = 1..Len(cerV)
      BY SeqDomain DEF OkAnswer
    <2>2. t = [i \in 1..Len(cerV) |-> t[i]]
      BY <2>1 DEF Fill
    <2> HIDE DEF t
    <2> QED BY <2>1, <2>2, FunctionSeq
  <1> HIDE DEF t
  <1>3. ASSUME NEW i \in DOMAIN cerV
        PROVE  /\ OkCer(t[i]) /\ Grown(t[i], cerV[i], {})
               /\ crrV = <<>> /\ Plain(cerV[i]) => Plain(t[i])
    BY <1>1, FillCer DEF OkAnswer, OkCer
  <1>4. OkAnswer(t)
    BY <1>1, <1>2, <1>3 DEF OkAnswer
  <1>5. Same(cerV, t)
    BY <1>1, <1>3 DEF Same, Has, Grown
  <1>6. crrV = <<>> /\ AllPlain(cerV) => AllPlain(t)
    BY <1>1, <1>3 DEF AllPlain
  <1> QED BY <1>4, <1>5, <1>6 DEF t, Kept

LEMMA AddNone == ASSUME NEW cerV PROVE addContextProviders(cerV, <<>>) = cerV
  BY AddProvidersLoop, SmallSeqs

LEMMA MatchingNone == ASSUME NEW en PROVE Matching(<<>>, en) = <<>>
  <1> DEFINE v == [i \in DOMAIN <<>> |-> IF matchEntityInCrr(<<>>[i], en) THEN <<<<>>[i]>> ELSE <<>>]
  <1>1. Matching(<<>>, en) = FlattenSeq(v)
    BY Zenon DEF Matching, Those
  <1>2. FlattenSeq(<<>>) = <<>>
    BY DEF FlattenSeq
  <1>3. v = <<>>
    OBVIOUS
  <1> HIDE DEF v
  <1> QED BY <1>1, <1>2, <1>3

LEMMA GenericNone ==
  ASSUME NEW cerV, NEW enV, IsSeq(enV)
  PROVE  processGenericEntities(enV, cerV, <<>>) = cerV
  <1> DEFINE none == <<>>
  <1>0. none = <<>>
    OBVIOUS
  <1> HIDE DEF none
  <1>1. PICK g : /\ g[0] = cerV
                 /\ \A n \in 1..Len(Generic(enV)) :
                      g[n] = addContextProviders(g[n - 1], Matching(none, Generic(enV)[n]))
                 /\ processGenericEntities(enV, cerV, none) = g[Len(Generic(enV))]
    BY GenericSeq, GenericLoop
  <1>2. Len(Generic(enV)) \in Nat
    BY GenericSeq, SeqDomain
  <1> DEFINE S == {n \in Nat : g[n] = cerV}
  <1>3. 0 \in S
    BY <1>1
  <1>4. ASSUME NEW n \in 1..Len(Generic(enV)), n - 1 \in S PROVE n \in S
    BY <1>0, <1>1, <1>4, AddNone, MatchingNone
  <1>5. Len(Generic(enV)) \in S
    BY <1>2, <1>3, <1>4, LoopInduction
  <1> QED BY <1>0, <1>1, <1>5

LEMMA LookupKeeps ==
  ASSUME NEW n \in 1..4, NEW cerV, OkAnswer(cerV), NEW docs, DocsOK(docs), NEW enV, IsSeq(enV),
         NEW attrL
  PROVE  /\ Kept(Lookup(n, cerV, docs, enV, attrL), cerV)
         /\ docs = <<>> /\ AllPlain(cerV) => AllPlain(Lookup(n, cerV, docs, enV, attrL))
  <1> DEFINE crrV == Registrations(docs, enV, IF n = 3 THEN <<>> ELSE attrL)
             fill == Fill(cerV, crrV)
             gen == processGenericEntities(enV, cerV, crrV)
             gfill == processGenericEntities(enV, fill, crrV)
             add == addContextProviders(cerV, crrV)
             new == Lookup(n, cerV, docs, enV, attrL)
  <1>1. CrrsOK(crrV) /\ (docs = <<>> => crrV = <<>>)
    BY QueryCrrs, NoRegistrations
  <1>2. new \in {cerV, gen, gfill, fill, add}
    <2>1. new = CASE n = 1 -> IF cerV = <<>> THEN gen ELSE cerV
                  [] n = 2 -> IF someNotFound(cerV) /\ crrV # <<>> THEN gfill ELSE cerV
                  [] n = 3 -> IF someNotFound(cerV) THEN fill ELSE cerV
                  [] n = 4 -> IF attrL = <<>> THEN add ELSE cerV
      BY DEF Lookup, Fill
    <2> HIDE DEF new, gen, gfill, fill, add, crrV
    <2> QED BY <2>1
  <1> HIDE DEF new, crrV
  <1>3. Kept(cerV, cerV) /\ Kept(gen, cerV) /\ Kept(fill, cerV) /\ Kept(add, cerV)
    BY <1>1, KeptSelf, GenericKeeps, FillKeeps, AddProvidersKeeps
  <1>4. Kept(gfill, cerV)
    <2> HIDE DEF fill
    <2>1. OkAnswer(fill)
      BY <1>3 DEF Kept
    <2>2. Kept(gfill, fill)
      BY <1>1, <2>1, GenericKeeps
    <2> HIDE DEF gfill
    <2> QED BY <1>3, <2>2, KeptTrans
  <1>5. ASSUME docs = <<>>, AllPlain(cerV)
        PROVE  AllPlain(gen) /\ AllPlain(fill) /\ AllPlain(add) /\ AllPlain(gfill)
    <2>1. crrV = <<>>
      BY <1>1, <1>5
    <2>2. gen = cerV /\ add = cerV /\ gfill = fill
      BY <2>1, AddNone, GenericNone
    <2>3. AllPlain(fill)
      BY <1>1, <1>5, <2>1, FillKeeps
    <2> QED BY <1>5, <2>2, <2>3
  <1> HIDE DEF gen, fill, add, gfill
  <1> QED BY <1>2, <1>3, <1>4, <1>5 DEF new

-----------------------------------------------------------------------------
(* What is left of an answer when the attributes that were not found go     *)

AllFound(cerV) ==
  \A i \in DOMAIN cerV : \A k \in DOMAIN cerV[i].attributes : cerV[i].attributes[k].found = TRUE

FoundOf(as) == Those(as, LAMBDA a : a.found)
Pruned(cer) == [cer EXCEPT !.attributes = FoundOf(@)]

LEMMA FoundAttributes ==
  ASSUME NEW as, IsSeq(as), \A k \in DOMAIN as : AttrOK(as[k])
  PROVE  /\ IsSeq(FoundOf(as))
         /\ \A i \in DOMAIN FoundOf(as) :
              \E k \in DOMAIN as : as[k].found = TRUE /\ FoundOf(as)[i] = as[k]
         /\ \A k \in DOMAIN as : as[k].found = TRUE =>
              \E i \in DOMAIN FoundOf(as) : FoundOf(as)[i] = as[k]
  <1> DEFINE v == [i \in DOMAIN as |-> IF as[i].found THEN <<as[i]>> ELSE <<>>]
             t == FoundOf(as)
  <1>1. t = FlattenSeq(v)
    BY Zenon DEF FoundOf, Those
  <1>2. v = [i \in DOMAIN as |-> v[i]] /\ \A i \in DOMAIN as : v[i] \in {<<as[i]>>, <<>>}
    OBVIOUS
  <1>3. \A i \in DOMAIN as : v[i] # <<>> <=> as[i].found = TRUE
    <2> TAKE i \in DOMAIN as
    <2>1. as[i].found \in BOOLEAN
      BY DEF AttrOK
    <2>2. CASE as[i].found = TRUE
      BY <2>2
    <2>3. CASE as[i].found = FALSE
      BY <2>3
    <2> QED BY <2>1, <2>2, <2>3
  <1> HIDE DEF v, t
  <1>4. Passes(t, as, v)
    BY <1>1, <1>2, Passing
  <1>5. /\ IsSeq(t)
        /\ \A i \in DOMAIN t : \E k \in DOMAIN as : as[k].found = TRUE /\ t[i] = as[k]
        /\ \A k \in DOMAIN as : as[k].found = TRUE => \E i \in DOMAIN t : t[i] = as[k]
    BY <1>3, <1>4 DEF Passes
  <1> QED BY <1>5 DEF t

LEMMA PrunedCer ==
  ASSUME NEW cer, OkCer(cer)
  PROVE  /\ OkCer(Pruned(cer)) /\ Grown(Pruned(cer), cer, {})
         /\ \A k \in DOMAIN Pruned(cer).attributes : Pruned(cer).attributes[k].found = TRUE
         /\ Plain(cer) => Plain(Pruned(cer))
  <1> DEFINE c == Pruned(cer)
             old == cer.attributes
             as == FoundOf(old)
  <1>1. /\ c = [id |-> cer.id, type |-> cer.type, attributes |-> as, apps |-> cer.apps,
                code |-> cer.code, prune |-> cer.prune]
    <2>1. c = [cer EXCEPT !.attributes = as]
      BY Zenon DEF Pruned
    <2> HIDE DEF as, c
    <2> QED BY <2>1 DEF OkCer, CerOK
  <1>2. IsSeq(old) /\ \A k \in DOMAIN old : AttrOK(old[k])
    BY DEF OkCer, CerOK
  <1>0. old = cer.attributes
    OBVIOUS
  <1> HIDE DEF c, old
  <1>3. /\ IsSeq(as)
        /\ \A i \in DOMAIN as : \E k \in DOMAIN old : old[k].found = TRUE /\ as[i] = old[k]
        /\ \A k \in DOMAIN old : old[k].found = TRUE => \E i \in DOMAIN as : as[i] = old[k]
    BY <1>2, FoundAttributes
  <1> HIDE DEF as
  <1>4. OkCer(c)
    BY <1>1, <1>2, <1>3 DEF OkCer, CerOK
  <1>5. c.attributes = as /\ \A a : Fact(c, a) = Fact(cer, a)
    BY <1>1 DEF Fact
  <1>6. ASSUME NEW q PROVE HasIn(c, q) <=> HasIn(cer, q)
    <2>1. ASSUME HasIn(c, q) PROVE HasIn(cer, q)
      <3>1. PICK i \in DOMAIN as : Local(as[i]) /\ q = Fact(cer, as[i])
        BY <1>5, <2>1 DEF HasIn
      <3>2. PICK k \in DOMAIN old : as[i] = old[k]
        BY <1>3
      <3> QED BY <1>0, <3>1, <3>2 DEF HasIn
    <2>2. ASSUME HasIn(cer, q) PROVE HasIn(c, q)
      <3>1. PICK k \in DOMAIN old : Local(old[k]) /\ q = Fact(cer, old[k])
        BY <1>0, <2>2 DEF HasIn
      <3>2. PICK i \in DOMAIN as : as[i] = old[k]
        BY <1>3, <3>1 DEF Local
      <3> QED BY <1>5, <3>1, <3>2 DEF HasIn
    <2> QED BY <2>1, <2>2
  <1>7. Grown(c, cer, {})
    BY <1>6 DEF Grown
  <1>8. \A k \in DOMAIN c.attributes : c.attributes[k].found = TRUE
    BY <1>3, <1>5
  <1>9. ASSUME Plain(cer) PROVE Plain(c)
    <2>1. ASSUME NEW i \in DOMAIN as PROVE as[i].pa = Nothing
      <3>1. PICK k \in DOMAIN old : as[i] = old[k]
        BY <1>3
      <3> QED BY <1>0, <1>9, <3>1 DEF Plain
    <2> QED BY <1>5, <2>1 DEF Plain
  <1> QED BY <1>4, <1>7, <1>8, <1>9 DEF c

LEMMA PruneKeeps ==
  ASSUME NEW cerV, OkAnswer(cerV)
  PROVE  /\ Kept(pruneContextElements(cerV), cerV) /\ AllFound(pruneContextElements(cerV))
         /\ AllPlain(cerV) => AllPlain(pruneContextElements(cerV))
  <1> DEFINE s == [i \in DOMAIN cerV |-> Pruned(cerV[i])]
             v == [i \in DOMAIN s |-> IF ~s[i].prune \/ s[i].attributes # <<>> \/ s[i].apps # <<>>
                                      THEN <<s[i]>> ELSE <<>>]
             t == pruneContextElements(cerV)
  <1>1. t = FlattenSeq(v)
    BY Zenon DEF pruneContextElements, Pruned, FoundOf, Those
  <1>2. DOMAIN s = DOMAIN cerV /\ \A i \in DOMAIN s : s[i] = Pruned(cerV[i])
    OBVIOUS
  <1>3. IsSeq(s)
    <2>1. Len(cerV) \in Nat /\ DOMAIN cerV = 1..Len(cerV)
      BY SeqDomain DEF OkAnswer
    <2>2. s = [i \in 1..Len(cerV) |-> s[i]]
      BY <2>1
    <2> HIDE DEF s
    <2> QED BY <2>1, <2>2, FunctionSeq
  <1> HIDE DEF s
  <1>4. v = [i \in DOMAIN s |-> v[i]] /\ \A i \in DOMAIN s : v[i] \in {<<s[i]>>, <<>>}
    OBVIOUS
  <1>5. \A i \in DOMAIN s : v[i] = <<>> => s[i].attributes = <<>>
    OBVIOUS
  <1> HIDE DEF v, t
  <1>6. Passes(t, s, v)
    BY <1>1, <1>3, <1>4, Passing
  <1>7. ASSUME NEW i \in DOMAIN cerV
        PROVE  /\ OkCer(s[i]) /\ Grown(s[i], cerV[i], {})
               /\ \A k \in DOMAIN s[i].attributes : s[i].attributes[k].found = TRUE
               /\ Plain(cerV[i]) => Plain(s[i])
    BY <1>2, PrunedCer DEF OkAnswer
  <1>8. \A i \in DOMAIN t : \E j \in DOMAIN cerV : t[i] = s[j]
    BY <1>2, <1>6 DEF Passes
  <1>9. OkAnswer(t)
    BY <1>6, <1>7, <1>8 DEF OkAnswer, Passes
  <1>10. ASSUME NEW q PROVE Has(t, q) <=> Has(cerV, q)
    <2>1. ASSUME Has(t, q) PROVE Has(cerV, q)
      <3>1. PICK i \in DOMAIN t : HasIn(t[i], q)
        BY <2>1 DEF Has
      <3>2. PICK j \in DOMAIN cerV : t[i] = s[j]
        BY <1>8
      <3> QED BY <1>7, <3>1, <3>2 DEF Has, Grown
    <2>2. ASSUME Has(cerV, q) PROVE Has(t, q)
      <3>1. PICK j \in DOMAIN cerV : HasIn(cerV[j], q)
        BY <2>2 DEF Has
      <3>2. HasIn(s[j], q)
        BY <1>7, <3>1 DEF Grown
      <3>3. s[j].attributes # <<>>
        BY <3>2 DEF HasIn
      <3>4. PICK i \in DOMAIN t : t[i] = s[j]
        BY <1>2, <1>5, <1>6, <3>3 DEF Passes
      <3> QED BY <3>2, <3>4 DEF Has
    <2> QED BY <2>1, <2>2
  <1>11. AllFound(t)
    BY <1>7, <1>8 DEF AllFound
  <1>12. AllPlain(cerV) => AllPlain(t)
    BY <1>7, <1>8 DEF AllPlain
  <1> QED BY <1>9, <1>10, <1>11, <1>12 DEF t, Kept, Same

LEMMA FoundPlainLocal ==
  ASSUME NEW cerV, AllFound(cerV), AllPlain(cerV)
  PROVE  AllLocal(cerV)
  BY DEF AllFound, AllPlain, Plain, AllLocal, Local

-----------------------------------------------------------------------------
(* What the database answers                                                *)

\* What a collection says.
Says(store, q) ==
  \E e \in Range(store) : \E x \in DOMAIN e.attrs : q = <<e.id, e.type, x[1], e.attrs[x]>>

LEMMA SetToSeqSeq ==
  ASSUME NEW S, IsFiniteSet(S)
  PROVE  IsSeq(SetToSeq(S)) /\ \A i \in DOMAIN SetToSeq(S) : SetToSeq(S)[i] \in S
  <1>1. Cardinality(S) \in Nat /\ ExistsBijection(1..Cardinality(S), S)
    BY FS_CardinalityType
  <1>2. \E f \in [1..Cardinality(S) -> S] : IsInjective(f)
    BY <1>1 DEF ExistsBijection, Bijection, Injection, IsInjective
  <1> DEFINE t == SetToSeq(S)
  <1>3. t \in [1..Cardinality(S) -> S]
    BY <1>2 DEF SetToSeq
  <1> HIDE DEF t
  <1>4. t = [i \in 1..Cardinality(S) |-> t[i]]
    BY <1>3
  <1>5. IsSeq(t) /\ \A i \in DOMAIN t : t[i] \in S
    BY <1>1, <1>3, <1>4, FunctionSeq
  <1> QED BY <1>5 DEF t

LEMMA MissingOK ==
  ASSUME NEW names, IsSeq(names)
  PROVE  /\ IsSeq(Missing(names))
         /\ \A k \in DOMAIN Missing(names) : /\ AttrOK(Missing(names)[k])
                                             /\ Missing(names)[k].found = FALSE
                                             /\ Missing(names)[k].pa = Nothing
  <1> DEFINE t == Missing(names)
  <1>1. Len(names) \in Nat /\ DOMAIN names = 1..Len(names)
    BY SeqDomain
  <1>2. /\ DOMAIN t = DOMAIN names
        /\ \A i \in DOMAIN names : t[i] = Attribute(names[i], Nothing, Nothing, FALSE)
        /\ t = [i \in 1..Len(names) |-> t[i]]
    BY <1>1 DEF Missing
  <1> HIDE DEF t
  <1>3. IsSeq(t)
    BY <1>1, <1>2, FunctionSeq
  <1>4. \A i \in DOMAIN t : AttrOK(t[i]) /\ t[i].found = FALSE /\ t[i].pa = Nothing
    <2> TAKE i \in DOMAIN t
    <2>1. t[i] = Attribute(names[i], Nothing, Nothing, FALSE)
      BY <1>2
    <2> QED BY <2>1 DEF Attribute, AttrOK
  <1> QED BY <1>3, <1>4 DEF t

LEMMA AttributesOfOK ==
  ASSUME NEW e, IsFiniteSet(DOMAIN e.attrs), NEW attrL
  PROVE  /\ IsSeq(AttributesOf(e, attrL))
         /\ \A k \in DOMAIN AttributesOf(e, attrL) :
              /\ AttrOK(AttributesOf(e, attrL)[k]) /\ AttributesOf(e, attrL)[k].pa = Nothing
              /\ \E x \in DOMAIN e.attrs : /\ AttributesOf(e, attrL)[k].name = x[1]
                                           /\ AttributesOf(e, attrL)[k].value = e.attrs[x]
  <1> DEFINE S == {k \in DOMAIN e.attrs : includedAttribute(k[1], attrL)}
             ks == SetToSeq(S)
             t == AttributesOf(e, attrL)
  <1>1. IsFiniteSet(S)
    BY FS_Subset
  <1>2. IsSeq(ks) /\ \A i \in DOMAIN ks : ks[i] \in S
    <2> HIDE DEF S
    <2> QED BY <1>1, SetToSeqSeq
  <1>3. t = [i \in DOMAIN ks |-> Attribute(ks[i][1], ks[i][2], e.attrs[ks[i]], TRUE)]
    BY DEF AttributesOf
  <1>4. \A i \in DOMAIN ks : ks[i] \in DOMAIN e.attrs
    BY <1>2
  <1> HIDE DEF ks, t, S
  <1>5. Len(ks) \in Nat /\ DOMAIN ks = 1..Len(ks)
    BY <1>2, SeqDomain
  <1>6. /\ DOMAIN t = DOMAIN ks /\ t = [i \in 1..Len(ks) |-> t[i]]
        /\ \A i \in DOMAIN t : t[i] = Attribute(ks[i][1], ks[i][2], e.attrs[ks[i]], TRUE)
    BY <1>3, <1>5
  <1>7. IsSeq(t)
    BY <1>5, <1>6, FunctionSeq
  <1>8. ASSUME NEW k \in DOMAIN t
        PROVE  /\ AttrOK(t[k]) /\ t[k].pa = Nothing
               /\ \E x \in DOMAIN e.attrs : t[k].name = x[1] /\ t[k].value = e.attrs[x]
    <2>1. AttrOK(t[k]) /\ t[k].pa = Nothing /\ t[k].name = ks[k][1] /\ t[k].value = e.attrs[ks[k]]
      <3>1. t[k] = Attribute(ks[k][1], ks[k][2], e.attrs[ks[k]], TRUE)
        BY <1>6
      <3> QED BY <3>1 DEF Attribute, AttrOK
    <2> QED BY <1>4, <1>6, <2>1
  <1> QED BY <1>7, <1>8 DEF t

\* The element of an entity of the collection.
FoundElement(e, attrL) ==
  ContextElementResponse(e, AttributesOf(e, attrL) \o Missing(Those(attrL, LAMBDA n : n \notin Names(e))), "Ok")

LEMMA FoundElementOK ==
  ASSUME NEW store, NEW e \in Range(store), IsFiniteSet(DOMAIN e.attrs), NEW attrL, IsSeq(attrL)
  PROVE  /\ OkCer(FoundElement(e, attrL)) /\ Plain(FoundElement(e, attrL))
         /\ \A q : HasIn(FoundElement(e, attrL), q) => Says(store, q)
  <1> DEFINE v == [i \in DOMAIN attrL |-> IF attrL[i] \notin Names(e) THEN <<attrL[i]>> ELSE <<>>]
             names == FlattenSeq(v)
             as == AttributesOf(e, attrL)
             ms == Missing(names)
             all == as \o ms
             c == FoundElement(e, attrL)
  <1>1. c = ContextElementResponse(e, all, "Ok")
    BY DEF FoundElement, Those
  <1>2. IsSeq(names)
    <2>1. v = [i \in DOMAIN attrL |-> v[i]] /\ \A i \in DOMAIN attrL : v[i] \in {<<attrL[i]>>, <<>>}
      OBVIOUS
    <2> HIDE DEF v
    <2> QED BY <2>1, Passing DEF Passes
  <1> HIDE DEF names
  <1>3. /\ IsSeq(as)
        /\ \A k \in DOMAIN as : /\ AttrOK(as[k]) /\ as[k].pa = Nothing
                                /\ \E x \in DOMAIN e.attrs : as[k].name = x[1] /\ as[k].value = e.attrs[x]
    BY AttributesOfOK
  <1>4. IsSeq(ms) /\ \A k \in DOMAIN ms : AttrOK(ms[k]) /\ ms[k].found = FALSE /\ ms[k].pa = Nothing
    BY <1>2, MissingOK
  <1> HIDE DEF as, ms
  <1>5. Joins(all, as, ms)
    BY <1>3, <1>4, ConcatJoins
  <1> HIDE DEF all, c
  <1>6. \A k \in DOMAIN all : AttrOK(all[k]) /\ all[k].pa = Nothing
    <2> TAKE k \in DOMAIN all
    <2>1. (k \in DOMAIN as /\ all[k] = as[k]) \/ \E m \in DOMAIN ms : all[k] = ms[m]
      BY <1>5, Zenon DEF Joins
    <2>2. CASE k \in DOMAIN as /\ all[k] = as[k]
      BY <1>3, <2>2
    <2>3. CASE \E m \in DOMAIN ms : all[k] = ms[m]
      BY <1>4, <2>3
    <2> QED BY <2>1, <2>2, <2>3
  <1>7. /\ c = [id |-> e.id, type |-> e.type, attributes |-> all, apps |-> <<>>, code |-> "Ok",
                prune |-> FALSE]
    BY <1>1 DEF ContextElementResponse
  <1>8. c.id = e.id /\ c.type = e.type /\ c.attributes = all /\ c.apps = <<>> /\ c.code = "Ok"
    BY <1>7
  <1>9. OkCer(c)
    <2>1. c = [id |-> c.id, type |-> c.type, attributes |-> c.attributes, apps |-> c.apps,
               code |-> c.code, prune |-> c.prune]
      BY <1>7
    <2> QED BY <1>5, <1>6, <1>8, <2>1, SmallSeqs DEF OkCer, CerOK, Joins
  <1>10. Plain(c)
    BY <1>6, <1>8 DEF Plain
  <1>11. ASSUME NEW q, HasIn(c, q) PROVE Says(store, q)
    <2>1. PICK k \in DOMAIN all : all[k].found = TRUE /\ q = <<e.id, e.type, all[k].name, all[k].value>>
      BY <1>8, <1>11 DEF HasIn, Local, Fact
    <2>2. k \in DOMAIN as /\ all[k] = as[k]
      BY <1>4, <1>5, <2>1 DEF Joins
    <2> QED BY <1>3, <2>1, <2>2 DEF Says
  <1> QED BY <1>9, <1>10, <1>11 DEF c

IsResponse(c, en, as, code) ==
  CerOK(c) /\ c.id = en.id /\ c.type = en.type /\ c.attributes = as /\ c.code = code

LEMMA ResponseOK ==
  ASSUME NEW en, NEW as, IsSeq(as), \A k \in DOMAIN as : AttrOK(as[k]), NEW code
  PROVE  IsResponse(ContextElementResponse(en, as, code), en, as, code)
  <1> DEFINE c == ContextElementResponse(en, as, code)
  <1>1. c = [id |-> en.id, type |-> en.type, attributes |-> as, apps |-> <<>>, code |-> code,
             prune |-> FALSE]
    BY DEF ContextElementResponse
  <1> HIDE DEF c
  <1>2. c.id = en.id /\ c.type = en.type /\ c.attributes = as /\ c.apps = <<>> /\ c.code = code
    BY <1>1
  <1>3. c = [id |-> c.id, type |-> c.type, attributes |-> c.attributes, apps |-> c.apps,
             code |-> c.code, prune |-> c.prune]
    BY <1>1
  <1>4. \A k \in DOMAIN c.apps : c.apps[k] \in Providers
    BY <1>2
  <1>5. IsResponse(c, en, as, code)
    BY <1>2, <1>3, <1>4, SmallSeqs DEF IsResponse, CerOK
  <1> QED BY <1>5 DEF c

LEMMA ToBePruned ==
  ASSUME NEW x, CerOK(x), NEW p, NEW c, c = [x EXCEPT !.prune = p]
  PROVE  CerOK(c) /\ c.attributes = x.attributes /\ c.code = x.code
  <1>1. c = [id |-> x.id, type |-> x.type, attributes |-> x.attributes, apps |-> x.apps,
             code |-> x.code, prune |-> p]
    BY DEF CerOK
  <1> QED BY <1>1 DEF CerOK

LEMMA AbsentOK ==
  ASSUME NEW selected, NEW enV, IsSeq(enV), NEW attrL, IsSeq(attrL)
  PROVE  /\ OkAnswer(AbsentEntities(selected, enV, attrL))
         /\ AllPlain(AbsentEntities(selected, enV, attrL))
         /\ \A q : ~Has(AbsentEntities(selected, enV, attrL), q)
  <1> DEFINE test(en) == /\ en.isPattern # "true"
                         /\ \A i \in DOMAIN selected : ~(selected[i].id = en.id
                                                         /\ selected[i].type = en.type)
             v == [i \in DOMAIN enV |-> IF test(enV[i]) THEN <<enV[i]>> ELSE <<>>]
             absent == FlattenSeq(v)
             ms == Missing(attrL)
             t == AbsentEntities(selected, enV, attrL)
  <1>1. t = [i \in DOMAIN absent |-> [ContextElementResponse(absent[i], ms, "Ok") EXCEPT !.prune = TRUE]]
    BY Zenon DEF AbsentEntities, Those
  <1>2. IsSeq(absent)
    <2>1. v = [i \in DOMAIN enV |-> v[i]] /\ \A i \in DOMAIN enV : v[i] \in {<<enV[i]>>, <<>>}
      OBVIOUS
    <2> HIDE DEF v
    <2> QED BY <2>1, Passing DEF Passes
  <1> HIDE DEF absent, t
  <1>3. Len(absent) \in Nat /\ DOMAIN absent = 1..Len(absent)
    BY <1>2, SeqDomain
  <1>4. IsSeq(ms) /\ \A k \in DOMAIN ms : AttrOK(ms[k]) /\ ms[k].found = FALSE /\ ms[k].pa = Nothing
    BY MissingOK
  <1> HIDE DEF ms
  <1>5. ASSUME NEW i \in DOMAIN absent
        PROVE  OkCer(t[i]) /\ Plain(t[i]) /\ \A q : ~HasIn(t[i], q)
    <2> DEFINE x == ContextElementResponse(absent[i], ms, "Ok")
    <2>1. CerOK(x) /\ x.attributes = ms /\ x.code = "Ok"
      <3>1. IsSeq(ms) /\ \A k \in DOMAIN ms : AttrOK(ms[k])
        BY <1>4
      <3>2. IsResponse(x, absent[i], ms, "Ok")
        BY <3>1, ResponseOK
      <3> QED BY <3>2, Zenon DEF IsResponse
    <2>2. t[i] = [x EXCEPT !.prune = TRUE]
      BY <1>1
    <2> HIDE DEF x
    <2>3. CerOK(t[i]) /\ t[i].attributes = ms /\ t[i].code = "Ok"
      BY <2>1, <2>2, ToBePruned
    <2> QED BY <1>4, <2>3 DEF OkCer, Plain, HasIn, Local
  <1>6. DOMAIN t = DOMAIN absent /\ t = [i \in 1..Len(absent) |-> t[i]]
    BY <1>1, <1>3
  <1>7. IsSeq(t)
    BY <1>3, <1>6, FunctionSeq
  <1> QED BY <1>5, <1>6, <1>7 DEF t, OkAnswer, AllPlain, Has

\* Two answers, one after the other.
LEMMA JoinAnswers ==
  ASSUME NEW a, NEW b, OkAnswer(a), OkAnswer(b)
  PROVE  /\ OkAnswer(a \o b) /\ (AllPlain(a) /\ AllPlain(b) => AllPlain(a \o b))
         /\ \A q : Has(a \o b, q) <=> Has(a, q) \/ Has(b, q)
  <1> DEFINE u == a \o b
  <1>1. Joins(u, a, b)
    BY ConcatJoins DEF OkAnswer
  <1> HIDE DEF u
  <1>2. ASSUME NEW k \in DOMAIN u
        PROVE  (k \in DOMAIN a /\ u[k] = a[k]) \/ \E m \in DOMAIN b : u[k] = b[m]
    BY <1>1, Zenon DEF Joins
  <1>3. OkAnswer(u)
    BY <1>1, <1>2 DEF Joins, OkAnswer
  <1>4. AllPlain(a) /\ AllPlain(b) => AllPlain(u)
    BY <1>2 DEF AllPlain
  <1>5. ASSUME NEW q PROVE Has(u, q) <=> Has(a, q) \/ Has(b, q)
    <2>1. ASSUME Has(u, q) PROVE Has(a, q) \/ Has(b, q)
      BY <1>2, <2>1 DEF Has
    <2>2. ASSUME Has(a, q) PROVE Has(u, q)
      BY <1>1, <2>2, Zenon DEF Has, Joins
    <2>3. ASSUME Has(b, q) PROVE Has(u, q)
      <3>1. PICK m \in DOMAIN b : HasIn(b[m], q)
        BY <2>3 DEF Has
      <3>2. PICK k \in DOMAIN u : u[k] = b[m]
        BY <1>1, Zenon DEF Joins
      <3> QED BY <3>1, <3>2 DEF Has
    <2> QED BY <2>1, <2>2, <2>3
  <1> QED BY <1>3, <1>4, <1>5 DEF u

LEMMA EntitiesAnswer ==
  ASSUME NEW store, IsCollection(store), NEW enV, IsSeq(enV), NEW attrL, IsSeq(attrL), NEW filter
  PROVE  /\ OkAnswer(entitiesQuery(store, enV, attrL, filter))
         /\ AllPlain(entitiesQuery(store, enV, attrL, filter))
         /\ \A q : Has(entitiesQuery(store, enV, attrL, filter), q) => Says(store, q)
  <1> DEFINE v == [i \in DOMAIN store |-> IF EntitySelected(store[i], enV, attrL, filter)
                                          THEN <<store[i]>> ELSE <<>>]
             selected == FlattenSeq(v)
             found == [i \in DOMAIN selected |-> FoundElement(selected[i], attrL)]
             absent == AbsentEntities(selected, enV, attrL)
  <1>1. entitiesQuery(store, enV, attrL, filter) = found \o absent
    BY Zenon DEF entitiesQuery, FoundElement, Those
  <1>2. Passes(selected, store, v)
    <2>1. v = [i \in DOMAIN store |-> v[i]] /\ \A i \in DOMAIN store : v[i] \in {<<store[i]>>, <<>>}
      OBVIOUS
    <2> HIDE DEF v
    <2> QED BY <2>1, Passing DEF IsCollection
  <1> HIDE DEF v, selected
  <1>3. Len(selected) \in Nat /\ DOMAIN selected = 1..Len(selected)
    BY <1>2, SeqDomain DEF Passes
  <1>4. ASSUME NEW i \in DOMAIN selected
        PROVE  OkCer(found[i]) /\ Plain(found[i]) /\ \A q : HasIn(found[i], q) => Says(store, q)
    <2>1. PICK j \in DOMAIN store : selected[i] = store[j]
      BY <1>2 DEF Passes
    <2> DEFINE e == selected[i]
    <2>2. e \in Range(store) /\ IsFiniteSet(DOMAIN e.attrs)
      BY <2>1 DEF Range, IsCollection
    <2>3. found[i] = FoundElement(e, attrL)
      OBVIOUS
    <2> HIDE DEF e, found
    <2> QED BY <2>2, <2>3, FoundElementOK
  <1>5. DOMAIN found = DOMAIN selected /\ found = [i \in 1..Len(selected) |-> found[i]]
    BY <1>3
  <1> HIDE DEF found
  <1>6. IsSeq(found)
    BY <1>3, <1>5, FunctionSeq
  <1>7. OkAnswer(found) /\ AllPlain(found) /\ \A q : Has(found, q) => Says(store, q)
    BY <1>4, <1>5, <1>6 DEF OkAnswer, AllPlain, Has
  <1>8. OkAnswer(absent) /\ AllPlain(absent) /\ \A q : ~Has(absent, q)
    BY AbsentOK
  <1> HIDE DEF absent
  <1>9. /\ OkAnswer(found \o absent) /\ AllPlain(found \o absent)
        /\ \A q : Has(found \o absent, q) => Says(store, q)
    BY <1>7, <1>8, JoinAnswers
  <1> QED BY <1>1, <1>9

\* A broker without registrations answers what its collection says.
LEMMA PlainQuery ==
  ASSUME NEW store, IsCollection(store), NEW enV, IsSeq(enV), NEW attrL, IsSeq(attrL), NEW filter
  PROVE  /\ OkAnswer(mongoQueryContext(store, <<>>, enV, attrL, filter))
         /\ AllLocal(mongoQueryContext(store, <<>>, enV, attrL, filter))
         /\ \A q : Has(mongoQueryContext(store, <<>>, enV, attrL, filter), q) => Says(store, q)
  <1> DEFINE docs == <<>>
             four == <<1, 2, 3, 4>>
             all == entitiesQuery(store, enV, attrL, filter)
  <1>1. DocsOK(docs) /\ docs = <<>>
    BY NoDocs
  <1>2. Len(four) = 4 /\ four = [i \in 1..4 |-> four[i]] /\ \A i \in 1..4 : four[i] = i
    OBVIOUS
  <1>3. IsSeq(<<1, 2, 3, 4>>)
    <2> HIDE DEF four
    <2>1. IsSeq(four)
      BY <1>2, FunctionSeq
    <2> QED BY <2>1 DEF four
  <1> HIDE DEF docs
  <1>4. PICK g : /\ g[0] = all
                 /\ \A n \in 1..Len(<<1, 2, 3, 4>>) :
                      g[n] = Lookup(<<1, 2, 3, 4>>[n], g[n - 1], docs, enV, attrL)
                 /\ mongoQueryContext(store, docs, enV, attrL, filter)
                      = pruneContextElements(g[Len(<<1, 2, 3, 4>>)])
    BY <1>3, LookupsLoop
  <1>5. /\ \A n \in 1..4 : g[n] = Lookup(n, g[n - 1], docs, enV, attrL)
        /\ mongoQueryContext(store, docs, enV, attrL, filter) = pruneContextElements(g[4])
    <2>1. \A n \in 1..Len(four) : g[n] = Lookup(four[n], g[n - 1], docs, enV, attrL)
      BY <1>4
    <2>2. mongoQueryContext(store, docs, enV, attrL, filter) = pruneContextElements(g[Len(four)])
      BY <1>4
    <2> HIDE DEF four
    <2> QED BY <1>2, <2>1, <2>2
  <1>6. OkAnswer(all) /\ AllPlain(all) /\ \A q : Has(all, q) => Says(store, q)
    BY EntitiesAnswer
  <1> HIDE DEF all
  <1> DEFINE S == {n \in Nat : Kept(g[n], all) /\ AllPlain(g[n])}
  <1>7. 0 \in S
    BY <1>4, <1>6, KeptSelf
  <1>8. ASSUME NEW n \in 1..4, n - 1 \in S PROVE n \in S
    <2>1. Kept(g[n - 1], all) /\ AllPlain(g[n - 1]) /\ OkAnswer(g[n - 1]) /\ n \in Nat
      BY <1>8 DEF Kept
    <2>2. Kept(g[n], g[n - 1]) /\ AllPlain(g[n])
      BY <1>1, <1>5, <2>1, LookupKeeps
    <2>3. Kept(g[n], all)
      BY <2>1, <2>2, KeptTrans
    <2> QED BY <2>1, <2>2, <2>3
  <1>9. 4 \in S
    BY <1>7, <1>8, LoopInduction
  <1> DEFINE t == pruneContextElements(g[4])
  <1>10. Kept(t, g[4]) /\ AllFound(t) /\ AllPlain(t)
    BY <1>9, PruneKeeps DEF Kept
  <1> HIDE DEF t
  <1>11. Kept(t, all)
    BY <1>9, <1>10, KeptTrans
  <1>12. AllLocal(t)
    BY <1>10, FoundPlainLocal
  <1>13. OkAnswer(t) /\ \A q : Has(t, q) => Says(store, q)
    BY <1>6, <1>11 DEF Kept, Same
  <1> QED BY <1>1, <1>5, <1>12, <1>13 DEF t

-----------------------------------------------------------------------------
(* A query is split into what is answered at once and requests to providers *)

RequestOK(r) ==
  /\ r = [contextProvider |-> r.contextProvider, enV |-> r.enV, attrL |-> r.attrL]
  /\ r.contextProvider \in Providers /\ IsSeq(r.enV) /\ IsSeq(r.attrL)
RequestsOK(requestV) == IsSeq(requestV) /\ \A i \in DOMAIN requestV : RequestOK(requestV[i])

LEMMA JoinRequests ==
  ASSUME NEW a, NEW b, RequestsOK(a), RequestsOK(b)
  PROVE  RequestsOK(a \o b)
  <1> DEFINE u == a \o b
  <1>1. Joins(u, a, b)
    BY ConcatJoins DEF RequestsOK
  <1> HIDE DEF u
  <1>2. RequestsOK(u)
    BY <1>1 DEF Joins, RequestsOK
  <1> QED BY <1>2 DEF u

LEMMA IfAbsent == ASSUME NEW s, IsSeq(s), NEW x PROVE IsSeq(push_back_if_absent(s, x))
  BY SeqAppend, Zenon DEF push_back_if_absent

LEMMA AskForOK ==
  ASSUME NEW requestV, RequestsOK(requestV), NEW en, NEW a, a.pa \in Providers
  PROVE  RequestsOK(AskFor(requestV, en, a))
  <1> DEFINE of == lookup(requestV, a.pa, en)
             first == CHOOSE i \in of : \A j \in of : i <= j
             new == [contextProvider |-> a.pa, enV |-> <<en>>, attrL |-> <<a.name>>]
             more == [requestV EXCEPT ![first].attrL = push_back_if_absent(@, a.name),
                                      ![first].enV = push_back_if_absent(@, en)]
  <1>1. AskFor(requestV, en, a) = IF of = {} THEN Append(requestV, new) ELSE more
    BY Zenon DEF AskFor
  <1>2. IsSeq(requestV) /\ Len(requestV) \in Nat /\ DOMAIN requestV = 1..Len(requestV)
    BY SeqDomain DEF RequestsOK
  <1>3. CASE of = {}
    <2>1. RequestOK(new)
      BY SmallSeqs DEF RequestOK
    <2> HIDE DEF new
    <2>2. RequestsOK(Append(requestV, new))
      <3> DEFINE u == Append(requestV, new)
      <3>1. /\ IsSeq(u) /\ DOMAIN u = 1..(Len(requestV) + 1)
            /\ \A i \in 1..Len(requestV) : u[i] = requestV[i]
            /\ u[Len(requestV) + 1] = new
        BY <1>2, SeqAppend
      <3> HIDE DEF u
      <3>2. RequestsOK(u)
        BY <1>2, <2>1, <3>1 DEF RequestsOK
      <3> QED BY <3>2 DEF u
    <2> QED BY <1>1, <1>3, <2>2
  <1>4. CASE of # {}
    <2>1. of \in SUBSET DOMAIN requestV /\ of \in SUBSET Nat
      BY <1>2 DEF lookup
    <2> HIDE DEF of
    <2>2. \E i \in of : \A j \in of : i <= j
      BY <1>4, <2>1, Least
    <2>3. first \in DOMAIN requestV
      BY <2>1, <2>2
    <2> HIDE DEF first
    <2> DEFINE old == requestV[first]
               r == [contextProvider |-> old.contextProvider, enV |-> push_back_if_absent(old.enV, en),
                     attrL |-> push_back_if_absent(old.attrL, a.name)]
    <2>4. RequestOK(old)
      BY <2>3 DEF RequestsOK
    <2>5. more = [requestV EXCEPT ![first] = [old EXCEPT !.attrL = push_back_if_absent(@, a.name),
                                                         !.enV = push_back_if_absent(@, en)]]
      BY <2>3
    <2>6. [old EXCEPT !.attrL = push_back_if_absent(@, a.name),
                      !.enV = push_back_if_absent(@, en)] = r
      <3> DEFINE l == push_back_if_absent(old.attrL, a.name)
                 e == push_back_if_absent(old.enV, en)
                 mid == [old EXCEPT !.attrL = l]
      <3>1. [old EXCEPT !.attrL = push_back_if_absent(@, a.name),
                        !.enV = push_back_if_absent(@, en)] = [mid EXCEPT !.enV = e]
        <4> HIDE DEF old
        <4>1. mid.enV = old.enV
          BY <2>4 DEF RequestOK
        <4> QED BY <4>1
      <3> HIDE DEF old, l, e
      <3>2. mid = [contextProvider |-> old.contextProvider, enV |-> old.enV, attrL |-> l]
        BY <2>4 DEF RequestOK
      <3> HIDE DEF mid
      <3>3. [mid EXCEPT !.enV = e] = [contextProvider |-> old.contextProvider, enV |-> e, attrL |-> l]
        BY <3>2
      <3> QED BY <3>1, <3>3 DEF l, e
    <2>7. RequestOK(r)
      <3> HIDE DEF old
      <3> QED BY <2>4, IfAbsent DEF RequestOK
    <2> HIDE DEF r, old
    <2>8. more = [requestV EXCEPT ![first] = r]
      BY <2>5, <2>6
    <2> HIDE DEF more
    <2>9. RequestsOK(more)
      BY <2>3, <2>7, <2>8, <1>2, SeqExcept DEF RequestsOK
    <2> QED BY <1>1, <1>4, <2>9 DEF of
  <1> QED BY <1>3, <1>4

SplitOK(s) ==
  /\ s = [cerV |-> s.cerV, requestV |-> s.requestV]
  /\ OkAnswer(s.cerV) /\ AllLocal(s.cerV) /\ RequestsOK(s.requestV)

\* What is answered at once grows by X.
Splits(t, s, X) == SplitOK(t) /\ \A q : Has(t.cerV, q) <=> Has(s.cerV, q) \/ q \in X

LEMMA SplitsNothing ==
  ASSUME NEW s, SplitOK(s), NEW v, RequestsOK(v)
  PROVE  Splits([s EXCEPT !.requestV = v], s, {})
  <1> DEFINE t == [s EXCEPT !.requestV = v]
  <1>1. t = [cerV |-> s.cerV, requestV |-> v]
    BY DEF SplitOK
  <1> HIDE DEF t
  <1>2. SplitOK(t) /\ t.cerV = s.cerV
    BY <1>1 DEF SplitOK
  <1>3. Splits(t, s, {})
    BY <1>2 DEF Splits
  <1> QED BY <1>3 DEF t

Gained(cer, a) == IF Local(a) THEN {Fact(cer, a)} ELSE {}

LEMMA QueryAttributeSplits ==
  ASSUME NEW s, SplitOK(s), NEW cer, NEW a, AttrOK(a)
  PROVE  Splits(QueryAttribute(s, cer, a), s, Gained(cer, a))
  <1> DEFINE t == QueryAttribute(s, cer, a)
  <1>1. CASE a.pa = Nothing /\ a.found = FALSE
    <2>1. t = s
      BY <1>1 DEF QueryAttribute
    <2>2. ~Local(a)
      BY <1>1 DEF Local
    <2> QED BY <2>1, <2>2 DEF Splits, Gained
  <1>2. CASE a.pa = Nothing /\ a.found = TRUE
    <2> DEFINE cs == WithElement(s.cerV, cer)
               n == ElementOf(cs, cer)
               new == [cs EXCEPT ![n].attributes = Append(@, a)]
    <2>1. t = [s EXCEPT !.cerV = new]
      BY <1>2 DEF QueryAttribute
    <2>2. Local(a)
      BY <1>2 DEF Local
    <2>3. OkAnswer(s.cerV) /\ AllLocal(s.cerV)
      BY DEF SplitOK
    <2>4. /\ OkAnswer(cs) /\ Same(s.cerV, cs) /\ AllLocal(cs) /\ n \in DOMAIN cs
          /\ cs[n].id = cer.id /\ cs[n].type = cer.type
      BY <2>3, WithElementKeeps
    <2> HIDE DEF cs, n
    <2>5. Gains(new, cs, IF Local(a) THEN {Fact(cs[n], a)} ELSE {}) /\ AllLocal(new)
      BY <2>2, <2>4, PutAttribute
    <2>6. Fact(cs[n], a) = Fact(cer, a)
      BY <2>4 DEF Fact
    <2> HIDE DEF new
    <2>7. Gains(new, cs, {Fact(cer, a)})
      BY <2>2, <2>5, <2>6
    <2>8. t = [cerV |-> new, requestV |-> s.requestV]
      BY <2>1 DEF SplitOK
    <2> HIDE DEF t
    <2>9. SplitOK(t) /\ t.cerV = new
      BY <2>5, <2>7, <2>8 DEF SplitOK, Gains
    <2>10. \A q : Has(t.cerV, q) <=> Has(s.cerV, q) \/ q \in {Fact(cer, a)}
      BY <2>4, <2>7, <2>9 DEF Gains, Same
    <2>11. Splits(t, s, {Fact(cer, a)})
      BY <2>9, <2>10 DEF Splits
    <2> QED BY <2>2, <2>11 DEF t, Gained
  <1>3. CASE a.pa # Nothing
    <2> DEFINE v == AskFor(s.requestV, EntityIdOf(cer), a)
    <2>1. t = [s EXCEPT !.requestV = v]
      BY <1>3 DEF QueryAttribute
    <2>2. a.pa \in Providers /\ ~Local(a)
      BY <1>3 DEF AttrOK, Local
    <2>3. RequestsOK(v)
      BY <2>2, AskForOK DEF SplitOK
    <2> HIDE DEF v
    <2>4. Splits([s EXCEPT !.requestV = v], s, {})
      BY <2>3, SplitsNothing
    <2> QED BY <2>1, <2>2, <2>4 DEF Gained
  <1> QED BY <1>1, <1>2, <1>3 DEF AttrOK

LEMMA WholeOK ==
  ASSUME NEW cer, CerOK(cer), NEW attrL, IsSeq(attrL)
  PROVE  RequestsOK(Whole(attrL, cer))
  <1> DEFINE w == Whole(attrL, cer)
             en == <<EntityIdOf(cer)>>
  <1>1. Len(cer.apps) \in Nat /\ DOMAIN cer.apps = 1..Len(cer.apps)
    BY SeqDomain DEF CerOK
  <1>2. IsSeq(en)
    BY SmallSeqs
  <1>3. w = [i \in DOMAIN cer.apps |-> [contextProvider |-> cer.apps[i], enV |-> en, attrL |-> attrL]]
    BY DEF Whole
  <1> HIDE DEF w, en
  <1>4. w = [i \in 1..Len(cer.apps) |-> w[i]]
    BY <1>1, <1>3
  <1>5. IsSeq(w) /\ DOMAIN w = DOMAIN cer.apps
    BY <1>1, <1>4, FunctionSeq
  <1>6. RequestsOK(w)
    BY <1>2, <1>3, <1>5 DEF RequestsOK, RequestOK, CerOK
  <1> QED BY <1>6 DEF w

\* What the element says is answered at once.
SplitsCer(t, s, cer) == SplitOK(t) /\ \A q : Has(t.cerV, q) <=> Has(s.cerV, q) \/ HasIn(cer, q)

LEMMA QueryElementSplits ==
  ASSUME NEW s, SplitOK(s), NEW cer, CerOK(cer), NEW attrL, IsSeq(attrL)
  PROVE  SplitsCer(QueryElement(attrL, s, cer), s, cer)
  <1> DEFINE as == cer.attributes
             X(n) == {Fact(cer, as[k]) : k \in {i \in 1..n : Local(as[i])}}
             w == Whole(attrL, cer)
  <1>1. IsSeq(as) /\ Len(as) \in Nat /\ DOMAIN as = 1..Len(as) /\ \A k \in DOMAIN as : AttrOK(as[k])
    BY SeqDomain DEF CerOK
  <1>2. PICK g : QueryRun(g, attrL, s, cer)
    BY <1>1, QueryAttributesLoop
  <1>3. RequestsOK(s.requestV \o w)
    BY WholeOK, JoinRequests DEF SplitOK
  <1>10. /\ \A n \in 1..Len(as) : g[n] = QueryAttribute(g[n - 1], cer, as[n])
         /\ QueryElement(attrL, s, cer) = g[Len(as)]
    BY <1>2 DEF QueryRun
  <1>4. g[0] = [s EXCEPT !.requestV = s.requestV \o w]
    BY <1>2 DEF QueryRun
  <1> HIDE DEF w
  <1> DEFINE v == s.requestV \o w
  <1>5. Splits(g[0], s, {})
    <2>1. RequestsOK(v) /\ g[0] = [s EXCEPT !.requestV = v]
      BY <1>3, <1>4
    <2> HIDE DEF v
    <2> QED BY <2>1, SplitsNothing
  <1> HIDE DEF as, X
  <1> DEFINE S == {n \in Nat : Splits(g[n], s, X(n))}
  <1>6. 0 \in S
    <2>1. X(0) = {}
      BY DEF X
    <2> QED BY <1>5, <2>1
  <1>7. ASSUME NEW n \in 1..Len(as), n - 1 \in S PROVE n \in S
    <2>0. Splits(g[n - 1], s, X(n - 1))
      BY <1>7
    <2>1. n \in Nat /\ n - 1 \in Nat /\ n \in DOMAIN as
      <3> DEFINE m == Len(as)
      <3>1. m \in Nat /\ n \in 1..m /\ DOMAIN as = 1..m
        BY <1>1
      <3> HIDE DEF S, v, m
      <3> QED BY <3>1
    <2>2. SplitOK(g[n - 1]) /\ AttrOK(as[n])
      BY <1>1, <2>0, <2>1 DEF Splits
    <2>3. Splits(g[n], g[n - 1], Gained(cer, as[n]))
      BY <1>10, <2>2, QueryAttributeSplits
    <2>4. X(n) = X(n - 1) \union Gained(cer, as[n])
      <3>1. \A i : i \in 1..n <=> i \in 1..(n - 1) \/ i = n
        BY <2>1
      <3> QED BY <3>1 DEF X, Gained
    <2>5. Splits(g[n], s, X(n))
      BY <2>0, <2>3, <2>4 DEF Splits
    <2> QED BY <2>1, <2>5
  <1>8. Len(as) \in S
    BY <1>1, <1>6, <1>7, LoopInduction
  <1>9. \A q : q \in X(Len(as)) <=> HasIn(cer, q)
    BY <1>1 DEF X, HasIn, as
  <1> QED BY <1>10, <1>8, <1>9 DEF Splits, SplitsCer

LEMMA QuerySplits ==
  ASSUME NEW cerV, OkAnswer(cerV), NEW attrL, IsSeq(attrL)
  PROVE  SplitOK(SplitQuery(attrL, cerV)) /\ Same(cerV, SplitQuery(attrL, cerV).cerV)
  <1>1. IsSeq(cerV) /\ Len(cerV) \in Nat /\ DOMAIN cerV = 1..Len(cerV) /\ \A i \in DOMAIN cerV : CerOK(cerV[i])
    BY SeqDomain DEF OkAnswer, OkCer
  <1>2. PICK g : /\ g[0] = [cerV |-> <<>>, requestV |-> <<>>]
                 /\ \A n \in 1..Len(cerV) : g[n] = QueryElement(attrL, g[n - 1], cerV[n])
                 /\ SplitQuery(attrL, cerV) = g[Len(cerV)]
    BY <1>1, QueryElementsLoop
  <1> DEFINE Inv(n) == SplitOK(g[n]) /\ \A q : Has(g[n].cerV, q) <=> \E i \in 1..n : HasIn(cerV[i], q)
             S == {n \in Nat : Inv(n)}
  <1>3. 0 \in S
    <2>1. g[0].cerV = <<>> /\ g[0].requestV = <<>>
      BY <1>2
    <2>2. SplitOK(g[0])
      BY <1>2, SmallSeqs DEF SplitOK, OkAnswer, AllLocal, RequestsOK
    <2>3. \A q : Has(g[0].cerV, q) <=> \E i \in 1..0 : HasIn(cerV[i], q)
      BY <2>1 DEF Has
    <2> QED BY <2>2, <2>3
  <1>4. ASSUME NEW n \in 1..Len(cerV), n - 1 \in S PROVE n \in S
    <2>1. Inv(n - 1) /\ n \in Nat /\ n - 1 \in Nat /\ CerOK(cerV[n])
      BY <1>1, <1>4
    <2>2. SplitsCer(g[n], g[n - 1], cerV[n])
      BY <1>2, <2>1, QueryElementSplits
    <2>3. \A i : i \in 1..n <=> i \in 1..(n - 1) \/ i = n
      BY <2>1
    <2>4. Inv(n)
      BY <2>1, <2>2, <2>3, Zenon DEF SplitsCer
    <2> QED BY <2>1, <2>4
  <1> HIDE DEF Inv
  <1>5. Len(cerV) \in S
    BY <1>1, <1>3, <1>4, LoopInduction
  <1>6. Inv(Len(cerV))
    BY <1>5
  <1> QED BY <1>1, <1>2, <1>6, Zenon DEF Inv, Same, Has

-----------------------------------------------------------------------------
(* The answers are put together                                             *)

\* An answer to a query: an answer without elements is an error.
Reply(r) == OkAnswer(r.cerV) /\ AllLocal(r.cerV) /\ (r.cerV = <<>> => r.code # "Ok")

LEMMA ReplyElements ==
  ASSUME NEW r, Reply(r)
  PROVE  OkAnswer(ElementsOf(r)) /\ AllLocal(ElementsOf(r)) /\ Same(r.cerV, ElementsOf(r))
  <1> DEFINE s == r.cerV
             v == [i \in DOMAIN s |-> IF s[i].code = "Ok" THEN <<s[i]>> ELSE <<>>]
             t == FlattenSeq(v)
  <1>1. ~(r.cerV = <<>> /\ r.code = "Ok")
    BY DEF Reply
  <1>2. ElementsOf(r) = t
    BY <1>1, Zenon DEF ElementsOf, Those
  <1>3. OkAnswer(s) /\ AllLocal(s)
    BY DEF Reply
  <1> HIDE DEF s
  <1>4. \A i \in DOMAIN s : v[i] # <<>>
    BY <1>3 DEF OkAnswer, OkCer
  <1>5. v = [i \in DOMAIN s |-> v[i]] /\ \A i \in DOMAIN s : v[i] \in {<<s[i]>>, <<>>}
    OBVIOUS
  <1> HIDE DEF v
  <1>6. Passes(t, s, v)
    BY <1>3, <1>5, Passing DEF OkAnswer
  <1> HIDE DEF t
  <1>7. /\ IsSeq(t) /\ \A i \in DOMAIN t : \E j \in DOMAIN s : t[i] = s[j]
    BY <1>6, Zenon DEF Passes
  <1>8. \A j \in DOMAIN s : \E i \in DOMAIN t : t[i] = s[j]
    BY <1>4, <1>6, Zenon DEF Passes
  <1>9. OkAnswer(t)
    BY <1>3, <1>7 DEF OkAnswer
  <1>10. AllLocal(t)
    <2> SUFFICES ASSUME NEW i \in DOMAIN t, NEW k \in DOMAIN t[i].attributes
                 PROVE  Local(t[i].attributes[k])
      BY Zenon DEF AllLocal
    <2>1. PICK j \in DOMAIN s : t[i] = s[j]
      BY <1>7
    <2> QED BY <1>3, <2>1, Zenon DEF AllLocal
  <1>11. Same(s, t)
    <2> SUFFICES ASSUME NEW q PROVE Has(t, q) <=> Has(s, q)
      BY DEF Same
    <2>1. ASSUME Has(t, q) PROVE Has(s, q)
      BY <1>7, <2>1, Zenon DEF Has
    <2>2. ASSUME Has(s, q) PROVE Has(t, q)
      <3>1. PICK j \in DOMAIN s : HasIn(s[j], q)
        BY <2>2 DEF Has
      <3>2. PICK i \in DOMAIN t : t[i] = s[j]
        BY <1>8
      <3> QED BY <3>1, <3>2 DEF Has
    <2> QED BY <2>1, <2>2
  <1> QED BY <1>2, <1>9, <1>10, <1>11 DEF s

\* The answer t says what v says and what the element says.
Adds(t, v, cer) ==
  OkAnswer(t) /\ AllLocal(t) /\ \A q : Has(t, q) <=> Has(v, q) \/ HasIn(cer, q)

LEMMA AddElementAdds ==
  ASSUME NEW v, OkAnswer(v), AllLocal(v), NEW cer, OkCer(cer),
         \A k \in DOMAIN cer.attributes : Local(cer.attributes[k])
  PROVE  Adds(AddElement(v, cer), v, cer)
  <1> DEFINE t == AddElement(v, cer)
             there == \E i \in DOMAIN v : v[i].id = cer.id /\ v[i].type = cer.type
             n == ElementOf(v, cer)
             as == cer.attributes
             new == [v EXCEPT ![n].attributes = @ \o as]
  <1>1. cer.code = "Ok"
    BY DEF OkCer
  <1>2. t = IF ~there THEN Append(v, cer) ELSE new
    <2> DEFINE at == {i \in DOMAIN v : v[i].id = cer.id /\ v[i].type = cer.type}
    <2>1. t = IF at = {} \/ cer.code # "Ok" THEN Append(v, cer) ELSE new
      BY Zenon DEF AddElement
    <2>2. at = {} <=> ~there
      OBVIOUS
    <2> HIDE DEF at, there, new, t
    <2> QED BY <1>1, <2>1, <2>2
  <1> HIDE DEF t
  <1>3. CASE ~there
    <2>1. t = Append(v, cer)
      BY <1>2, <1>3
    <2> QED BY <2>1, AppendCer DEF Adds, t
  <1>4. CASE there
    <2>1. n \in DOMAIN v /\ v[n].id = cer.id /\ v[n].type = cer.type
      BY <1>4, ElementPlace DEF OkAnswer
    <2>2. IsSeq(as) /\ \A k \in DOMAIN as : AttrOK(as[k]) /\ Local(as[k])
      BY DEF OkCer, CerOK
    <2>3. \A q : q \in Said(v[n], as) <=> HasIn(cer, q)
      <3>1. \A a : Fact(v[n], a) = Fact(cer, a)
        BY <2>1 DEF Fact
      <3> QED BY <3>1, Zenon DEF Said, HasIn
    <2> HIDE DEF n, as
    <2>4. Gains(new, v, Said(v[n], as)) /\ AllLocal(new)
      BY <2>1, <2>2, PutAttributes
    <2> HIDE DEF new
    <2>5. Adds(new, v, cer)
      BY <2>3, <2>4 DEF Gains, Adds
    <2> QED BY <1>2, <1>4, <2>5 DEF t
  <1> QED BY <1>3, <1>4

AddsAll(t, v, es) ==
  OkAnswer(t) /\ AllLocal(t) /\ \A q : Has(t, q) <=> Has(v, q) \/ Has(es, q)

LEMMA AddResponseAdds ==
  ASSUME NEW v, OkAnswer(v), AllLocal(v), NEW r, Reply(r)
  PROVE  AddsAll(AddResponse(v, r), v, r.cerV)
  <1> DEFINE es == ElementsOf(r)
  <1>1. OkAnswer(es) /\ AllLocal(es) /\ Same(r.cerV, es)
    BY ReplyElements
  <1>2. PICK g : /\ g[0] = v
                 /\ \A n \in 1..Len(es) : g[n] = AddElement(g[n - 1], es[n])
                 /\ AddResponse(v, r) = g[Len(es)]
    BY <1>1, AddElementsLoop DEF OkAnswer
  <1> HIDE DEF es
  <1>3. Len(es) \in Nat /\ DOMAIN es = 1..Len(es)
    BY <1>1, SeqDomain DEF OkAnswer
  <1> DEFINE Inv(n) == /\ OkAnswer(g[n]) /\ AllLocal(g[n])
                       /\ \A q : Has(g[n], q) <=> Has(v, q) \/ \E i \in 1..n : HasIn(es[i], q)
             S == {n \in Nat : Inv(n)}
  <1>4. 0 \in S
    BY <1>2
  <1>5. ASSUME NEW n \in 1..Len(es), n - 1 \in S PROVE n \in S
    <2>1. Inv(n - 1) /\ n \in Nat /\ n - 1 \in Nat
      BY <1>3, <1>5
    <2>2. OkCer(es[n]) /\ \A k \in DOMAIN es[n].attributes : Local(es[n].attributes[k])
      BY <1>1, <1>3 DEF OkAnswer, AllLocal
    <2>3. Adds(g[n], g[n - 1], es[n])
      BY <1>2, <2>1, <2>2, AddElementAdds
    <2>4. \A i : i \in 1..n <=> i \in 1..(n - 1) \/ i = n
      BY <2>1
    <2>5. Inv(n)
      BY <2>1, <2>3, <2>4, Zenon DEF Adds
    <2> QED BY <2>1, <2>5
  <1> HIDE DEF Inv
  <1>6. Len(es) \in S
    BY <1>3, <1>4, <1>5, LoopInduction
  <1>7. Inv(Len(es))
    BY <1>6
  <1>8. \A q : Has(es, q) <=> \E i \in 1..Len(es) : HasIn(es[i], q)
    BY <1>3, Zenon DEF Has
  <1> QED BY <1>1, <1>2, <1>7, <1>8, Zenon DEF Inv, AddsAll, Same

RepliesOK(responseV) == IsSeq(responseV) /\ \A i \in DOMAIN responseV : Reply(responseV[i])
HasReply(responseV, q) == \E i \in DOMAIN responseV : Has(responseV[i].cerV, q)
PopulatedBy(cerV, responseV) ==
  OkAnswer(cerV) /\ AllLocal(cerV) /\ \A q : Has(cerV, q) <=> HasReply(responseV, q)

LEMMA AllGathered ==
  ASSUME NEW responseV, RepliesOK(responseV)
  PROVE  PopulatedBy(Gathered(responseV), responseV)
  <1>1. /\ IsSeq(responseV) /\ Len(responseV) \in Nat /\ DOMAIN responseV = 1..Len(responseV)
        /\ \A i \in DOMAIN responseV : Reply(responseV[i])
    BY SeqDomain DEF RepliesOK
  <1>2. PICK g : /\ g[0] = <<>>
                 /\ \A n \in 1..Len(responseV) : g[n] = AddResponse(g[n - 1], responseV[n])
                 /\ Gathered(responseV) = g[Len(responseV)]
    BY <1>1, AddResponsesLoop
  <1> DEFINE Inv(n) == /\ OkAnswer(g[n]) /\ AllLocal(g[n])
                       /\ \A q : Has(g[n], q) <=> \E i \in 1..n : Has(responseV[i].cerV, q)
             S == {n \in Nat : Inv(n)}
  <1>3. 0 \in S
    <2>1. OkAnswer(g[0]) /\ AllLocal(g[0]) /\ \A q : ~Has(g[0], q)
      BY <1>2, SmallSeqs DEF OkAnswer, AllLocal, Has
    <2> QED BY <2>1
  <1>4. ASSUME NEW n \in 1..Len(responseV), n - 1 \in S PROVE n \in S
    <2>1. Inv(n - 1) /\ n \in Nat /\ n - 1 \in Nat
      BY <1>1, <1>4
    <2>2. AddsAll(g[n], g[n - 1], responseV[n].cerV)
      BY <1>1, <1>2, <2>1, AddResponseAdds
    <2>3. \A i : i \in 1..n <=> i \in 1..(n - 1) \/ i = n
      BY <2>1
    <2>4. Inv(n)
      BY <2>1, <2>2, <2>3, Zenon DEF AddsAll
    <2> QED BY <2>1, <2>4
  <1> HIDE DEF Inv
  <1>5. Len(responseV) \in S
    BY <1>1, <1>3, <1>4, LoopInduction
  <1>6. Inv(Len(responseV))
    BY <1>5
  <1> QED BY <1>1, <1>2, <1>6, Zenon DEF Inv, PopulatedBy, HasReply

LEMMA Populated ==
  ASSUME NEW responseV, RepliesOK(responseV)
  PROVE  PopulatedBy(populate(responseV).cerV, responseV)
  <1> DEFINE nothing == responseV = <<>> \/ (Len(responseV) = 1 /\ responseV[1].cerV = <<>>)
  <1>1. CASE ~nothing
    <2>1. populate(responseV).cerV = Gathered(responseV)
      BY <1>1 DEF populate
    <2> QED BY <2>1, AllGathered
  <1>2. CASE nothing
    <2>1. populate(responseV).cerV = <<>>
      BY <1>2 DEF populate
    <2>2. OkAnswer(<<>>) /\ AllLocal(<<>>) /\ \A q : ~Has(<<>>, q)
      BY SmallSeqs DEF OkAnswer, AllLocal, Has
    <2>3. IsSeq(responseV) /\ DOMAIN responseV = 1..Len(responseV) /\ Len(responseV) \in Nat
      BY SeqDomain DEF RepliesOK
    <2>4. \A i \in DOMAIN responseV : responseV[i].cerV = <<>>
      <3>1. CASE responseV = <<>>
        BY <3>1, SmallSeqs
      <3>2. CASE Len(responseV) = 1 /\ responseV[1].cerV = <<>>
        BY <3>2, <2>3
      <3> QED BY <1>2, <3>1, <3>2
    <2>5. \A q : ~HasReply(responseV, q)
      BY <2>2, <2>4, Zenon DEF HasReply
    <2> QED BY <2>1, <2>2, <2>5, Zenon DEF PopulatedBy
  <1> QED BY <1>1, <1>2

\* The answers that a broker gets.
LEMMA FailedReply == Reply(Failed) /\ \A q : ~Has(Failed.cerV, q)
  BY SmallSeqs DEF Reply, Failed, OkAnswer, AllLocal, Has

ReplyOf(r, store) == Reply(r) /\ \A q : Has(r.cerV, q) => Says(store, q)

LEMMA ProviderReply ==
  ASSUME NEW store, IsCollection(store), NEW enV, IsSeq(enV), NEW attrL, IsSeq(attrL)
  PROVE  ReplyOf(ProviderQuery(store, enV, attrL), store)
  <1> DEFINE t == mongoQueryContext(store, <<>>, enV, attrL, Nothing)
             r == [code |-> "Ok", cerV |-> t]
             p == ProviderQuery(store, enV, attrL)
  <1>1. OkAnswer(t) /\ AllLocal(t) /\ \A q : Has(t, q) => Says(store, q)
    BY PlainQuery
  <1>2. p = IF t = <<>> THEN Failed ELSE Fixed(r)
    BY Zenon DEF ProviderQuery
  <1> HIDE DEF t, p
  <1>3. CASE t = <<>>
    <2>1. p = Failed
      BY <1>2, <1>3
    <2> QED BY <2>1, FailedReply DEF ReplyOf, p
  <1>4. CASE t # <<>>
    <2>1. p.cerV = t
      BY <1>2, <1>4 DEF Fixed
    <2> QED BY <1>1, <1>4, <2>1 DEF ReplyOf, Reply, p
  <1> QED BY <1>3, <1>4

-----------------------------------------------------------------------------
(* Updates: the entities stay a collection, and answers and requests have   *)
(* vectors of attributes                                                    *)

UpdOK(s) ==
  /\ DOMAIN s = {"attrs", "answer", "code", "modified", "stop"}
  /\ IsFiniteSet(DOMAIN s.attrs) /\ IsSeq(s.answer)

\* What becomes of x when the location and the subscriptions of the attribute
\* have been looked at.
Hit(en, name, faults) == Fails("refuse", en, name, faults) \/ Fails("trigger", en, name, faults)
Ends(t, x, hit) ==
  \/ t = x
  \/ hit /\ \/ t = [x EXCEPT !.code = "InvalidParameter", !.stop = TRUE]
            \/ t = [x EXCEPT !.code = "ReceiverInternalError", !.stop = TRUE]

LEMMA EndsKeeps ==
  ASSUME NEW t, NEW x, UpdOK(x), NEW hit, Ends(t, x, hit)
  PROVE  /\ UpdOK(t) /\ t.attrs = x.attrs /\ t.answer = x.answer
         /\ t.stop = x.stop \/ (hit /\ t.stop = TRUE)
  <1>1. CASE t = x
    BY <1>1
  <1>2. ASSUME NEW code, t = [x EXCEPT !.code = code, !.stop = TRUE]
        PROVE  UpdOK(t) /\ t.attrs = x.attrs /\ t.answer = x.answer /\ t.stop = TRUE
    BY <1>2 DEF UpdOK
  <1> QED BY <1>1, <1>2 DEF Ends

LEMMA ProcessAttributeKeeps ==
  ASSUME NEW action, NEW s, UpdOK(s), NEW a, NEW en, NEW faults
  PROVE  UpdOK(ProcessAttribute(action, s, a, en, faults))
  <1> DEFINE yes == Append(s.answer, Attribute(a.name, a.id, Nothing, TRUE))
             no == Append(s.answer, Attribute(a.name, a.id, Nothing, FALSE))
             k == KeyOf(a)
             more == With(s.attrs, k, a.value)
             fewer == [x \in DOMAIN s.attrs \ {k} |-> s.attrs[x]]
             m == s.modified \/ ~(k \in DOMAIN s.attrs) \/ s.attrs[k] # a.value
             put == [s EXCEPT !.answer = yes, !.attrs = more, !.modified = m]
             badYes == [s EXCEPT !.answer = yes, !.code = "InvalidParameter"]
             badNo == [s EXCEPT !.answer = no, !.code = "InvalidParameter"]
             stopYes == [badYes EXCEPT !.stop = TRUE]
             stopNo == [badNo EXCEPT !.stop = TRUE]
             del == [s EXCEPT !.answer = yes, !.modified = TRUE, !.attrs = fewer]
             t == ProcessAttribute(action, s, a, en, faults)
             hit == Hit(en, a.name, faults)
  <1>1. \/ t = s \/ t = stopYes \/ t = stopNo
        \/ Ends(t, put, hit) \/ Ends(t, badNo, hit) \/ Ends(t, del, hit)
    BY DEF ProcessAttribute, Ends, Hit
  <1>2. IsSeq(yes) /\ IsSeq(no)
    BY SeqAppend DEF UpdOK
  <1>3. IsFiniteSet(DOMAIN more)
    <2>1. DOMAIN more = DOMAIN s.attrs \union {k}
      BY DEF With
    <2> QED BY <2>1, FS_AddElement DEF UpdOK
  <1>4. IsFiniteSet(DOMAIN fewer)
    <2>1. DOMAIN fewer = DOMAIN s.attrs \ {k}
      OBVIOUS
    <2> QED BY <2>1, FS_RemoveElement DEF UpdOK
  <1> HIDE DEF yes, no, more, fewer, m, k, t, hit
  <1>5. UpdOK(put)
    BY <1>2, <1>3 DEF UpdOK
  <1>6. UpdOK(badYes) /\ UpdOK(badNo)
    BY <1>2 DEF UpdOK
  <1>7. UpdOK(del)
    BY <1>2, <1>4 DEF UpdOK
  <1> HIDE DEF badYes, badNo, put, del
  <1>8. UpdOK(stopYes) /\ UpdOK(stopNo)
    BY <1>6 DEF UpdOK
  <1> HIDE DEF stopYes, stopNo
  <1> QED BY <1>1, <1>5, <1>6, <1>7, <1>8, EndsKeeps DEF t

LEMMA ProcessAttributes ==
  ASSUME NEW entity, IsFiniteSet(DOMAIN entity.attrs), NEW action, NEW attributes, IsSeq(attributes),
         NEW faults
  PROVE  UpdOK(processContextAttributeVector(entity, action, attributes, faults))
  <1> DEFINE base == [attrs |-> entity.attrs, answer |-> <<>>, code |-> "None", modified |-> FALSE,
                      stop |-> FALSE]
  <1>10. PICK g : AttributesRun(g, entity, action, attributes, faults)
    BY AttributesLoop
  <1>1. /\ g[0] = base
        /\ \A n \in 1..Len(attributes) :
             g[n] = ProcessAttribute(action, g[n - 1], attributes[n], entity, faults)
        /\ processContextAttributeVector(entity, action, attributes, faults) = g[Len(attributes)]
    BY <1>10, Zenon DEF AttributesRun
  <1>2. UpdOK(base)
    BY SmallSeqs DEF UpdOK
  <1> HIDE DEF base
  <1> DEFINE S == {n \in Nat : UpdOK(g[n])}
  <1>3. 0 \in S
    BY <1>1, <1>2
  <1>4. ASSUME NEW n \in 1..Len(attributes), n - 1 \in S PROVE n \in S
    BY <1>1, <1>4, ProcessAttributeKeeps, SeqDomain
  <1>5. Len(attributes) \in S
    BY <1>3, <1>4, LoopInduction, SeqDomain
  <1> QED BY <1>1, <1>5

\* An element of an answer, or of a request, has a vector of attributes.
HasVector(cer) == "attributes" \in DOMAIN cer /\ IsSeq(cer.attributes)
Vectors(cerV) == IsSeq(cerV) /\ \A i \in DOMAIN cerV : HasVector(cerV[i])

LEMMA ResponseVector ==
  ASSUME NEW en, NEW as, IsSeq(as), NEW code
  PROVE  HasVector(ContextElementResponse(en, as, code))
  BY DEF HasVector, ContextElementResponse

LEMMA OneVector == ASSUME NEW c, HasVector(c) PROVE Vectors(<<c>>)
  <1> DEFINE s == <<c>>
  <1>1. IsSeq(s) /\ \A i \in DOMAIN s : s[i] = c
    BY SmallSeqs
  <1> HIDE DEF s
  <1>2. Vectors(s)
    BY <1>1 DEF Vectors
  <1> QED BY <1>2 DEF s

LEMMA MapSeq ==
  ASSUME NEW s, IsSeq(s), NEW t, t = [i \in DOMAIN s |-> t[i]]
  PROVE  IsSeq(t) /\ DOMAIN t = DOMAIN s
  <1>1. Len(s) \in Nat /\ DOMAIN s = 1..Len(s)
    BY SeqDomain
  <1>2. t = [i \in 1..Len(s) |-> t[i]]
    BY <1>1
  <1> QED BY <1>1, <1>2, FunctionSeq

LEMMA FillVector ==
  ASSUME NEW cer, HasVector(cer), NEW crrV
  PROVE  HasVector(fillContextProviders(cer, crrV))
  <1> DEFINE as == [i \in DOMAIN cer.attributes |-> Filled(cer, cer.attributes[i], crrV)]
  <1>1. fillContextProviders(cer, crrV) = [cer EXCEPT !.attributes = as]
    BY DEF fillContextProviders, Filled, AppOf
  <1>2. as = [i \in DOMAIN cer.attributes |-> as[i]]
    OBVIOUS
  <1> HIDE DEF as
  <1>3. IsSeq(as)
    BY <1>2, MapSeq DEF HasVector
  <1> QED BY <1>1, <1>3 DEF HasVector

LEMMA SearchVector ==
  ASSUME NEW docs, NEW en, NEW attributes, NEW cer, HasVector(cer)
  PROVE  HasVector(searchContextProviders(docs, en, attributes, cer))
  <1> DEFINE Search(c, attrL) ==
               IF someContextElementNotFound(c)
                 THEN fillContextProviders(c, Registrations(docs, <<en>>, attrL)) ELSE c
             names == [i \in DOMAIN attributes |-> attributes[i].name]
  <1>1. searchContextProviders(docs, en, attributes, cer) = Search(Search(cer, names), <<>>)
    BY DEF searchContextProviders
  <1>2. ASSUME NEW c, HasVector(c), NEW attrL PROVE HasVector(Search(c, attrL))
    BY <1>2, FillVector
  <1> HIDE DEF Search
  <1> QED BY <1>1, <1>2

EntityOK(e) == e = [id |-> e.id, type |-> e.type, attrs |-> e.attrs] /\ IsFiniteSet(DOMAIN e.attrs)

LEMMA CollectionOf ==
  ASSUME NEW store
  PROVE  IsCollection(store) <=> IsSeq(store) /\ \A i \in DOMAIN store : EntityOK(store[i])
  BY Zenon DEF IsCollection, EntityOK

\* u is what becomes of an entity: the entity or nothing, and an answer.
EntityUpdated(u) ==
  /\ IsSeq(u.entity) /\ \A e \in Range(u.entity) : EntityOK(e)
  /\ HasVector(u.cer)

LEMMA UpdateEntityKeeps ==
  ASSUME NEW docs, NEW entity, EntityOK(entity), NEW ce, IsSeq(ce.attributes), NEW action,
         NEW faults
  PROVE  EntityUpdated(UpdateEntity(docs, entity, ce, action, faults))
  <1> DEFINE s == processContextAttributeVector(entity, action, ce.attributes, faults)
             code == IF s.code = "None" THEN "Ok" ELSE s.code
             cer == ContextElementResponse(entity, s.answer, code)
             new == IF s.modified /\ ~s.stop THEN [entity EXCEPT !.attrs = s.attrs] ELSE entity
             found == searchContextProviders(docs, EntityOf(ce), ce.attributes, cer)
             failed == [cer EXCEPT !.code = "ReceiverInternalError"]
             None(code2) == ContextElementResponse(entity, <<>>, code2)
             u == UpdateEntity(docs, entity, ce, action, faults)
  <1>1. \/ u = [entity |-> <<>>, cer |-> None("Ok")]
        \/ u = [entity |-> <<entity>>, cer |-> None("ReceiverInternalError")]
        \/ u = [entity |-> <<entity>>, cer |-> failed]
        \/ u = [entity |-> <<new>>, cer |-> found]
    BY Zenon DEF UpdateEntity
  <1>2. \A code2 : HasVector(None(code2))
    BY ResponseVector, SmallSeqs
  <1>3. UpdOK(s)
    BY ProcessAttributes DEF EntityOK
  <1> HIDE DEF s, None
  <1>4. EntityOK(new)
    <2>1. [entity EXCEPT !.attrs = s.attrs] = [id |-> entity.id, type |-> entity.type, attrs |-> s.attrs]
      BY DEF EntityOK
    <2> DEFINE e == [entity EXCEPT !.attrs = s.attrs]
    <2>2. EntityOK(e)
      BY <1>3, <2>1 DEF EntityOK, UpdOK
    <2> HIDE DEF e
    <2>3. new = e \/ new = entity
      BY DEF e
    <2> QED BY <2>2, <2>3
  <1>5. HasVector(cer)
    BY <1>3, ResponseVector DEF UpdOK
  <1> HIDE DEF cer, new
  <1>6. HasVector(found)
    BY <1>5, SearchVector
  <1>9. HasVector(failed)
    <2>1. DOMAIN failed = DOMAIN cer /\ failed.attributes = cer.attributes
      BY <1>5 DEF HasVector
    <2> QED BY <1>5, <2>1 DEF HasVector
  <1> HIDE DEF found, u, failed
  <1>7. CASE u = [entity |-> <<>>, cer |-> None("Ok")]
    <2>1. u.entity = <<>> /\ u.cer = None("Ok")
      BY <1>7
    <2> QED BY <1>2, <2>1, SmallSeqs DEF EntityUpdated, u
  <1>8. CASE u = [entity |-> <<new>>, cer |-> found]
    <2>1. u.entity = <<new>> /\ u.cer = found
      BY <1>8
    <2> QED BY <1>4, <1>6, <2>1, SmallSeqs DEF EntityUpdated, u
  <1>10. ASSUME NEW c, HasVector(c), u = [entity |-> <<entity>>, cer |-> c] PROVE EntityUpdated(u)
    <2>1. u.entity = <<entity>> /\ u.cer = c
      BY <1>10
    <2> QED BY <1>10, <2>1, SmallSeqs DEF EntityUpdated
  <1> QED BY <1>1, <1>2, <1>7, <1>8, <1>9, <1>10 DEF u

Updated(r) == IsCollection(r.store) /\ Vectors(r.cerV)

LEMMA FiniteKeys ==
  ASSUME NEW s, IsSeq(s)
  PROVE  IsFiniteSet({KeyOf(s[i]) : i \in DOMAIN s})
  <1> DEFINE T == {KeyOf(s[i]) : i \in DOMAIN s}
             f == [i \in DOMAIN s |-> KeyOf(s[i])]
  <1>1. Len(s) \in Nat /\ DOMAIN s = 1..Len(s)
    BY SeqDomain
  <1>2. IsFiniteSet(DOMAIN s)
    BY <1>1, FS_Interval
  <1>3. f \in Surjection(DOMAIN s, T)
    BY DEF Surjection
  <1> HIDE DEF f, T
  <1>4. IsFiniteSet(T)
    BY <1>2, <1>3, FS_Surjection
  <1> QED BY <1>4 DEF T

LEMMA CreateKeeps ==
  ASSUME NEW store, IsCollection(store), NEW docs, NEW ce, IsSeq(ce.attributes), NEW action,
         NEW faults
  PROVE  Updated(createEntity(store, docs, ce, action, faults))
  <1> DEFINE Named(found) == [i \in DOMAIN ce.attributes |->
                               Attribute(ce.attributes[i].name, ce.attributes[i].id, Nothing, found)]
             Answer(found, code) == ContextElementResponse(ce, Named(found), code)
             keys == {KeyOf(ce.attributes[i]) : i \in DOMAIN ce.attributes}
             attrs == [k \in keys |-> (CHOOSE a \in Range(ce.attributes) : KeyOf(a) = k).value]
             new == [id |-> ce.id, type |-> ce.type, attrs |-> attrs]
             more == Append(store, new)
             found == searchContextProviders(docs, EntityOf(ce), ce.attributes, Answer(FALSE, "Ok"))
             r == createEntity(store, docs, ce, action, faults)
  <1>1. \/ r = [store |-> store, cerV |-> <<found>>]
        \/ r = [store |-> store, cerV |-> <<Answer(FALSE, "ContextElementNotFound")>>]
        \/ r = [store |-> more, cerV |-> <<Answer(TRUE, "Ok")>>]
        \/ r = [store |-> more, cerV |-> <<Answer(TRUE, "ReceiverInternalError")>>]
        \/ r = [store |-> store, cerV |-> <<Answer(TRUE, "InvalidParameter")>>]
    BY DEF createEntity
  <1>2. ASSUME NEW b, NEW code PROVE HasVector(Answer(b, code))
    <2>1. Named(b) = [i \in DOMAIN ce.attributes |-> Named(b)[i]]
      OBVIOUS
    <2> HIDE DEF Named
    <2>2. IsSeq(Named(b))
      BY <2>1, MapSeq
    <2> QED BY <2>2, ResponseVector
  <1> HIDE DEF Answer
  <1>3. HasVector(found)
    BY <1>2, SearchVector
  <1>4. IsCollection(more)
    <2>1. EntityOK(new)
      <3>1. IsFiniteSet(keys)
        BY FiniteKeys
      <3> HIDE DEF keys
      <3>2. DOMAIN attrs = keys
        OBVIOUS
      <3> HIDE DEF attrs
      <3> QED BY <3>1, <3>2 DEF EntityOK
    <2> HIDE DEF new
    <2>2. IsSeq(store) /\ \A i \in DOMAIN store : EntityOK(store[i])
      BY CollectionOf
    <2>3. Len(store) \in Nat /\ DOMAIN store = 1..Len(store)
      BY <2>2, SeqDomain
    <2>4. /\ IsSeq(more) /\ DOMAIN more = 1..(Len(store) + 1)
          /\ (\A i \in 1..Len(store) : more[i] = store[i]) /\ more[Len(store) + 1] = new
      BY <2>2, SeqAppend
    <2> HIDE DEF more
    <2>5. \A i \in DOMAIN more : EntityOK(more[i])
      BY <2>1, <2>2, <2>3, <2>4
    <2> QED BY <2>4, <2>5, CollectionOf
  <1> HIDE DEF found, more, r
  <1>5. /\ Vectors(<<found>>) /\ Vectors(<<Answer(FALSE, "ContextElementNotFound")>>)
        /\ Vectors(<<Answer(TRUE, "Ok")>>) /\ Vectors(<<Answer(TRUE, "InvalidParameter")>>)
        /\ Vectors(<<Answer(TRUE, "ReceiverInternalError")>>)
    BY <1>2, <1>3, OneVector
  <1>6. \A st, v : IsCollection(st) /\ Vectors(v) /\ r = [store |-> st, cerV |-> v] => Updated(r)
    BY DEF Updated
  <1> QED BY <1>1, <1>4, <1>5, <1>6, Zenon DEF r

LEMMA ElementKeeps ==
  ASSUME NEW store, IsCollection(store), NEW docs, NEW ce, IsSeq(ce.attributes), NEW action,
         NEW faults
  PROVE  Updated(processContextElement(store, docs, ce, action, FALSE, faults))
  <1> DEFINE Meant(e) == /\ e.id = ce.id /\ ce.type \in {AnyType, e.type}
                         /\ (FALSE => e.type = AnyType)
             empty == {i \in DOMAIN ce.attributes : ce.attributes[i].value = Nothing}
             a == ce.attributes[CHOOSE i \in empty : \A j \in empty : i <= j]
             refusal == ContextElementResponse(ce, <<Attribute(a.name, a.id, a.value, FALSE)>>,
                                               "InvalidParameter")
             pattern == ContextElementResponse(ce, <<>>, "NotImplemented")
             failed == ContextElementResponse(ce, <<>>, "ReceiverInternalError")
             upd == [i \in DOMAIN store |->
                       IF Meant(store[i]) THEN UpdateEntity(docs, store[i], ce, action, faults)
                       ELSE [entity |-> <<store[i]>>, cer |-> <<>>]]
             ix == [i \in DOMAIN store |-> i]
             v == [j \in DOMAIN ix |-> IF Meant(store[ix[j]]) THEN <<ix[j]>> ELSE <<>>]
             meant == FlattenSeq(v)
             parts == [i \in DOMAIN store |-> upd[i].entity]
             all == FlattenSeq(parts)
             cers == [i \in DOMAIN meant |-> upd[meant[i]].cer]
             r == processContextElement(store, docs, ce, action, FALSE, faults)
  <1>1. \/ r = [store |-> store, cerV |-> <<pattern>>]
        \/ r = [store |-> store, cerV |-> <<refusal>>]
        \/ r = [store |-> store, cerV |-> <<failed>>]
        \/ r = createEntity(store, docs, ce, action, faults)
        \/ r = [store |-> all, cerV |-> cers]
    BY Zenon DEF processContextElement, Those
  <1>2. HasVector(pattern) /\ HasVector(refusal) /\ HasVector(failed)
    BY ResponseVector, SmallSeqs
  <1> HIDE DEF pattern, refusal, failed
  <1>3. Vectors(<<pattern>>) /\ Vectors(<<refusal>>) /\ Vectors(<<failed>>)
    BY <1>2, OneVector
  <1>4. Updated(createEntity(store, docs, ce, action, faults))
    BY CreateKeeps
  <1>5. IsSeq(store) /\ \A i \in DOMAIN store : EntityOK(store[i])
    BY CollectionOf
  <1>6. Len(store) \in Nat /\ DOMAIN store = 1..Len(store)
    BY <1>5, SeqDomain
  <1>7. ASSUME NEW i \in DOMAIN store
        PROVE  /\ IsSeq(upd[i].entity) /\ \A e \in Range(upd[i].entity) : EntityOK(e)
               /\ Meant(store[i]) => HasVector(upd[i].cer)
    <2>1. CASE Meant(store[i])
      <3>1. upd[i] = UpdateEntity(docs, store[i], ce, action, faults)
        BY <2>1
      <3>2. EntityUpdated(upd[i])
        BY <1>5, <3>1, UpdateEntityKeeps
      <3> HIDE DEF upd
      <3> QED BY <3>2 DEF EntityUpdated
    <2>2. CASE ~Meant(store[i])
      <3>1. upd[i].entity = <<store[i]>>
        BY <2>2
      <3> HIDE DEF upd, Meant
      <3> QED BY <1>5, <2>2, <3>1, SmallSeqs
    <2> QED BY <2>1, <2>2
  <1>8. ix = [i \in DOMAIN store |-> ix[i]] /\ \A i \in DOMAIN store : ix[i] = i
    OBVIOUS
  <1>9. IsSeq(ix) /\ DOMAIN ix = DOMAIN store
    <2> HIDE DEF ix
    <2> QED BY <1>5, <1>8, MapSeq
  <1>10. /\ v = [j \in DOMAIN ix |-> v[j]] /\ \A j \in DOMAIN ix : v[j] \in {<<ix[j]>>, <<>>}
         /\ \A j \in DOMAIN ix : v[j] # <<>> => Meant(store[ix[j]])
    <2> HIDE DEF ix, Meant
    <2> QED OBVIOUS
  <1>11. parts = [i \in 1..Len(store) |-> parts[i]] /\ \A i \in DOMAIN store : parts[i] = upd[i].entity
    <2> HIDE DEF upd
    <2> QED BY <1>6
  <1> HIDE DEF ix, v, upd, Meant, parts
  <1>12. Passes(meant, ix, v)
    BY <1>9, <1>10, Passing
  <1> HIDE DEF meant
  <1>13. ASSUME NEW i \in DOMAIN meant PROVE HasVector(upd[meant[i]].cer)
    <2>1. PICK j \in DOMAIN ix : v[j] # <<>> /\ meant[i] = ix[j]
      BY <1>12, Zenon DEF Passes
    <2>2. ix[j] \in DOMAIN store /\ Meant(store[ix[j]])
      BY <1>8, <1>9, <1>10, <2>1
    <2> QED BY <1>7, <2>1, <2>2
  <1>14. Vectors(cers)
    <2>1. cers = [i \in DOMAIN meant |-> cers[i]] /\ \A i \in DOMAIN meant : cers[i] = upd[meant[i]].cer
      OBVIOUS
    <2> HIDE DEF cers
    <2>2. IsSeq(cers) /\ DOMAIN cers = DOMAIN meant
      BY <1>12, <2>1, MapSeq DEF Passes
    <2> QED BY <1>13, <2>1, <2>2 DEF Vectors
  <1>15. IsCollection(all)
    <2>1. \A i \in 1..Len(store) : IsSeq(parts[i])
      BY <1>6, <1>7, <1>11
    <2>2. IsSeq(all) /\ \A x : x \in Range(all) <=> \E i \in 1..Len(store) : x \in Range(parts[i])
      BY <1>6, <1>11, <2>1, FlattenSeqs
    <2> HIDE DEF all
    <2>3. ASSUME NEW i \in DOMAIN all PROVE EntityOK(all[i])
      <3>1. all[i] \in Range(all)
        BY DEF Range
      <3>2. PICK n \in 1..Len(store) : all[i] \in Range(parts[n])
        BY <2>2, <3>1
      <3> QED BY <1>6, <1>7, <1>11, <3>2
    <2> QED BY <2>2, <2>3, CollectionOf
  <1> HIDE DEF r, cers, all
  <1>16. \A st, w : IsCollection(st) /\ Vectors(w) /\ r = [store |-> st, cerV |-> w] => Updated(r)
    BY DEF Updated
  <1> QED BY <1>1, <1>3, <1>4, <1>14, <1>15, <1>16, Zenon DEF r

LEMMA JoinVectors ==
  ASSUME NEW a, NEW b, Vectors(a), Vectors(b)
  PROVE  Vectors(a \o b)
  <1> DEFINE u == a \o b
  <1>1. Joins(u, a, b)
    BY ConcatJoins DEF Vectors
  <1> HIDE DEF u
  <1>2. Vectors(u)
    BY <1>1 DEF Joins, Vectors
  <1> QED BY <1>2 DEF u

ElementsOK(elements) == IsSeq(elements) /\ \A i \in DOMAIN elements : IsSeq(elements[i].attributes)

LEMMA UpdateKeeps ==
  ASSUME NEW store, IsCollection(store), NEW docs, NEW elements, ElementsOK(elements), NEW action,
         NEW faults
  PROVE  Updated(mongoUpdateContext(store, docs, elements, action, FALSE, faults))
  <1> DEFINE El(st, e) == processContextElement(st, docs, e, action, FALSE, faults)
  <1>0. PICK g : ElementsRun(g, store, docs, elements, action, faults)
    BY ElementsLoop DEF ElementsOK
  <1>1. /\ g[0] = [store |-> store, cerV |-> <<>>]
        /\ \A n \in 1..Len(elements) : g[n] = Then(g[n - 1], El(g[n - 1].store, elements[n]))
        /\ mongoUpdateContext(store, docs, elements, action, FALSE, faults) = g[Len(elements)]
    BY <1>0 DEF ElementsRun
  <1>2. Len(elements) \in Nat /\ DOMAIN elements = 1..Len(elements)
    BY SeqDomain DEF ElementsOK
  <1>3. \A st, e : IsCollection(st) /\ IsSeq(e.attributes) => Updated(El(st, e))
    BY ElementKeeps
  <1> HIDE DEF El
  <1> DEFINE S == {n \in Nat : Updated(g[n])}
  <1>4. 0 \in S
    <2>1. g[0].store = store /\ g[0].cerV = <<>>
      BY <1>1
    <2> QED BY <2>1, SmallSeqs DEF Updated, Vectors
  <1>5. ASSUME NEW n \in 1..Len(elements), n - 1 \in S PROVE n \in S
    <2> DEFINE r == El(g[n - 1].store, elements[n])
    <2>1. Updated(g[n - 1]) /\ n \in Nat /\ IsSeq(elements[n].attributes)
      BY <1>2, <1>5 DEF ElementsOK
    <2>2. Updated(r)
      BY <1>3, <2>1 DEF Updated
    <2>3. g[n] = Then(g[n - 1], r)
      BY <1>1
    <2> HIDE DEF r
    <2> DEFINE w == g[n - 1].cerV \o r.cerV
    <2>4. Vectors(w)
      BY <2>1, <2>2, JoinVectors DEF Updated
    <2>7. g[n] = [store |-> r.store, cerV |-> w]
      BY <2>3 DEF Then
    <2> HIDE DEF w
    <2>5. g[n].store = r.store /\ g[n].cerV = w
      BY <2>7
    <2>6. Updated(g[n])
      BY <2>2, <2>4, <2>5 DEF Updated
    <2> QED BY <2>1, <2>6
  <1>6. Len(elements) \in S
    BY <1>2, <1>4, <1>5, LoopInduction
  <1> QED BY <1>1, <1>6

SomeOf(cer, found) == Those(cer.attributes, LAMBDA a : a.found = found)

LEMMA SomeSeq ==
  ASSUME NEW cer, HasVector(cer), NEW found
  PROVE  IsSeq(SomeOf(cer, found))
  <1> DEFINE s == cer.attributes
             v == [i \in DOMAIN s |-> IF s[i].found = found THEN <<s[i]>> ELSE <<>>]
  <1>1. SomeOf(cer, found) = FlattenSeq(v)
    BY Zenon DEF SomeOf, Those
  <1>2. v = [i \in DOMAIN s |-> v[i]] /\ \A i \in DOMAIN s : v[i] \in {<<s[i]>>, <<>>}
    OBVIOUS
  <1>3. IsSeq(s)
    BY DEF HasVector
  <1> HIDE DEF v, s
  <1> QED BY <1>1, <1>2, <1>3, Passing DEF Passes

LEMMA SeparationVectors ==
  ASSUME NEW cerV, Vectors(cerV)
  PROVE  Vectors(foundAndNotFoundAttributeSeparation(cerV))
  <1> DEFINE Mixed(cer) == SomeOf(cer, TRUE) # <<>> /\ SomeOf(cer, FALSE) # <<>>
             Stays(cer) ==
               CASE Mixed(cer) -> [cer EXCEPT !.attributes = SomeOf(cer, TRUE), !.code = "Ok"]
                 [] ~Mixed(cer) /\ SomeOf(cer, FALSE) # <<>> /\ cer.code = "Ok" ->
                      [cer EXCEPT !.code = "ContextElementNotFound"]
                 [] OTHER -> cer
             v == [i \in DOMAIN cerV |-> IF Mixed(cerV[i]) THEN <<cerV[i]>> ELSE <<>>]
             mixed == FlattenSeq(v)
             a == [i \in DOMAIN cerV |-> Stays(cerV[i])]
             b == [i \in DOMAIN mixed |->
                     ContextElementResponse(mixed[i], SomeOf(mixed[i], FALSE), "ContextElementNotFound")]
  <1>1. foundAndNotFoundAttributeSeparation(cerV) = a \o b
    BY Zenon DEF foundAndNotFoundAttributeSeparation, SomeOf, Those
  <1>2. IsSeq(cerV) /\ \A i \in DOMAIN cerV : HasVector(cerV[i])
    BY DEF Vectors
  <1>3. v = [i \in DOMAIN cerV |-> v[i]] /\ \A i \in DOMAIN cerV : v[i] \in {<<cerV[i]>>, <<>>}
    <2> HIDE DEF Mixed
    <2> QED OBVIOUS
  <1>4. ASSUME NEW cer, HasVector(cer) PROVE HasVector(Stays(cer))
    <2> DEFINE s == SomeOf(cer, TRUE)
               x == [cer EXCEPT !.attributes = s, !.code = "Ok"]
               y == [cer EXCEPT !.code = "ContextElementNotFound"]
    <2>1. Stays(cer) = x \/ Stays(cer) = y \/ Stays(cer) = cer
      <3> HIDE DEF Mixed
      <3> QED OBVIOUS
    <2>2. IsSeq(s)
      BY <1>4, SomeSeq
    <2> HIDE DEF s, Stays
    <2>3. HasVector(x) /\ HasVector(y)
      BY <1>4, <2>2 DEF HasVector
    <2> HIDE DEF x, y
    <2> QED BY <1>4, <2>1, <2>3
  <1>5. Vectors(a)
    <2> HIDE DEF Stays
    <2>1. a = [i \in DOMAIN cerV |-> a[i]] /\ \A i \in DOMAIN cerV : a[i] = Stays(cerV[i])
      OBVIOUS
    <2> HIDE DEF a
    <2>2. IsSeq(a) /\ DOMAIN a = DOMAIN cerV
      BY <1>2, <2>1, MapSeq
    <2> QED BY <1>2, <1>4, <2>1, <2>2 DEF Vectors
  <1> HIDE DEF v
  <1>6. Passes(mixed, cerV, v)
    BY <1>2, <1>3, Passing
  <1> HIDE DEF mixed
  <1>7. Vectors(b)
    <2>1. b = [i \in DOMAIN mixed |-> b[i]]
      OBVIOUS
    <2>2. ASSUME NEW i \in DOMAIN mixed PROVE HasVector(b[i])
      <3>1. HasVector(mixed[i])
        BY <1>2, <1>6 DEF Passes
      <3>2. HasVector(ContextElementResponse(mixed[i], SomeOf(mixed[i], FALSE), "ContextElementNotFound"))
        BY <3>1, SomeSeq, ResponseVector
      <3> QED BY <3>2
    <2> HIDE DEF b
    <2>3. IsSeq(b) /\ DOMAIN b = DOMAIN mixed
      BY <1>6, <2>1, MapSeq DEF Passes
    <2> QED BY <2>2, <2>3 DEF Vectors
  <1> HIDE DEF a, b
  <1> QED BY <1>1, <1>5, <1>7, JoinVectors

\* The requests to the providers of an update.
UpdateRequestOK(r) == "elements" \in DOMAIN r /\ Vectors(r.elements)
UpdateRequestsOK(requestV) == IsSeq(requestV) /\ \A i \in DOMAIN requestV : UpdateRequestOK(requestV[i])

ElementFor(en, a) == [id |-> en.id, type |-> en.type, isPattern |-> "false", attributes |-> <<a>>]
AddedTo(ceV, en, a) ==
  LET at == {i \in DOMAIN ceV : ceV[i].id = en.id /\ ceV[i].type = en.type}
  IN  IF at = {} THEN Append(ceV, ElementFor(en, a))
      ELSE [ceV EXCEPT ![CHOOSE i \in at : TRUE].attributes = Append(@, a)]

LEMMA AppendVector ==
  ASSUME NEW s, Vectors(s), NEW c, HasVector(c)
  PROVE  Vectors(Append(s, c))
  <1> DEFINE u == Append(s, c)
  <1>1. IsSeq(s) /\ Len(s) \in Nat /\ DOMAIN s = 1..Len(s)
    BY SeqDomain DEF Vectors
  <1>2. /\ IsSeq(u) /\ DOMAIN u = 1..(Len(s) + 1) /\ (\A i \in 1..Len(s) : u[i] = s[i])
        /\ u[Len(s) + 1] = c
    BY <1>1, SeqAppend
  <1> HIDE DEF u
  <1>3. Vectors(u)
    BY <1>1, <1>2 DEF Vectors
  <1> QED BY <1>3 DEF u

LEMMA AddedVectors ==
  ASSUME NEW ceV, Vectors(ceV), NEW en, NEW a
  PROVE  Vectors(AddedTo(ceV, en, a))
  <1> DEFINE at == {i \in DOMAIN ceV : ceV[i].id = en.id /\ ceV[i].type = en.type}
             n == CHOOSE i \in at : TRUE
             new == [ceV EXCEPT ![n].attributes = Append(@, a)]
             e == ElementFor(en, a)
  <1>1. AddedTo(ceV, en, a) = IF at = {} THEN Append(ceV, e) ELSE new
    BY Zenon DEF AddedTo
  <1>2. HasVector(e)
    BY SmallSeqs DEF ElementFor, HasVector
  <1> HIDE DEF e
  <1>3. Vectors(Append(ceV, e))
    BY <1>2, AppendVector
  <1>4. ASSUME at # {} PROVE Vectors(new)
    <2>1. n \in DOMAIN ceV
      BY <1>4
    <2> HIDE DEF n
    <2> DEFINE old == ceV[n].attributes
               as == Append(old, a)
               c == [ceV[n] EXCEPT !.attributes = as]
    <2>2. IsSeq(as)
      BY <2>1, SeqAppend DEF Vectors, HasVector
    <2>3. new = [ceV EXCEPT ![n] = c]
      OBVIOUS
    <2> HIDE DEF as, old
    <2>4. HasVector(c)
      BY <2>1, <2>2 DEF Vectors, HasVector
    <2> HIDE DEF c, new
    <2> QED BY <2>1, <2>3, <2>4, SeqExcept DEF Vectors
  <1> HIDE DEF new, at
  <1> QED BY <1>1, <1>3, <1>4

LEMMA AddToRequestOK ==
  ASSUME NEW requestV, UpdateRequestsOK(requestV), NEW app, NEW en, NEW a
  PROVE  UpdateRequestsOK(AddToRequest(requestV, app, en, a))
  <1> DEFINE of == {i \in DOMAIN requestV : requestV[i].contextProvider = app}
             n == CHOOSE i \in of : TRUE
             r == [contextProvider |-> app, elements |-> <<ElementFor(en, a)>>]
             more == [requestV EXCEPT ![n].elements = AddedTo(@, en, a)]
  <1>1. AddToRequest(requestV, app, en, a) = IF of = {} THEN Append(requestV, r) ELSE more
    BY Zenon DEF AddToRequest, AddedTo, ElementFor
  <1>2. IsSeq(requestV) /\ Len(requestV) \in Nat /\ DOMAIN requestV = 1..Len(requestV)
    BY SeqDomain DEF UpdateRequestsOK
  <1>3. UpdateRequestsOK(Append(requestV, r))
    <2> DEFINE u == Append(requestV, r)
               e == ElementFor(en, a)
    <2>1. HasVector(e)
      BY SmallSeqs DEF ElementFor, HasVector
    <2>2. Vectors(<<e>>)
      BY <2>1, OneVector
    <2>3. UpdateRequestOK(r)
      BY <2>2 DEF UpdateRequestOK
    <2> HIDE DEF r
    <2>4. /\ IsSeq(u) /\ DOMAIN u = 1..(Len(requestV) + 1)
          /\ (\A i \in 1..Len(requestV) : u[i] = requestV[i]) /\ u[Len(requestV) + 1] = r
      BY <1>2, SeqAppend
    <2> HIDE DEF u
    <2>5. UpdateRequestsOK(u)
      BY <1>2, <2>3, <2>4 DEF UpdateRequestsOK
    <2> QED BY <2>5 DEF u
  <1>4. ASSUME of # {} PROVE UpdateRequestsOK(more)
    <2>1. n \in DOMAIN requestV
      BY <1>4
    <2> HIDE DEF n
    <2> DEFINE els == AddedTo(requestV[n].elements, en, a)
               c == [requestV[n] EXCEPT !.elements = els]
    <2>2. Vectors(els)
      BY <2>1, AddedVectors DEF UpdateRequestsOK, UpdateRequestOK
    <2>3. more = [requestV EXCEPT ![n] = c]
      OBVIOUS
    <2> HIDE DEF els
    <2>4. UpdateRequestOK(c)
      BY <2>1, <2>2 DEF UpdateRequestsOK, UpdateRequestOK
    <2> HIDE DEF c, more
    <2> QED BY <1>2, <2>1, <2>3, <2>4, SeqExcept DEF UpdateRequestsOK
  <1> HIDE DEF more, of, r
  <1> QED BY <1>1, <1>3, <1>4

UpdateSplitOK(s) == DOMAIN s = {"cerV", "requestV"} /\ UpdateRequestsOK(s.requestV)

LEMMA UpdateAttributeSplits ==
  ASSUME NEW elements, NEW s, UpdateSplitOK(s), NEW cer, NEW a
  PROVE  UpdateSplitOK(UpdateAttribute(elements, s, cer, a))
  <1> DEFINE full == [a EXCEPT !.value = attributeLookup(elements, cer, a.name), !.pa = Nothing]
             no == notFoundPush(s.cerV, cer, full, "ContextElementNotFound")
             yes == foundPush(s.cerV, cer, full)
             rq == AddToRequest(s.requestV, a.pa, cer, full)
             t == UpdateAttribute(elements, s, cer, a)
  <1>1. \/ t = [s EXCEPT !.cerV = no] \/ t = [s EXCEPT !.cerV = yes] \/ t = [s EXCEPT !.requestV = rq]
    BY DEF UpdateAttribute
  <1> HIDE DEF full, no, yes
  <1>2. UpdateRequestsOK(rq)
    BY AddToRequestOK DEF UpdateSplitOK
  <1> HIDE DEF rq, t
  <1>3. UpdateSplitOK(t)
    BY <1>1, <1>2 DEF UpdateSplitOK
  <1> QED BY <1>3 DEF t

LEMMA UpdateElementSplits ==
  ASSUME NEW elements, NEW s, UpdateSplitOK(s), NEW cer, HasVector(cer)
  PROVE  UpdateSplitOK(UpdateElement(elements, s, cer))
  <1>0. IsSeq(cer.attributes) /\ Len(cer.attributes) \in Nat
    BY SeqDomain DEF HasVector
  <1>1. PICK g : /\ g[0] = s
                 /\ \A n \in 1..Len(cer.attributes) :
                      g[n] = UpdateAttribute(elements, g[n - 1], cer, cer.attributes[n])
                 /\ UpdateElement(elements, s, cer) = g[Len(cer.attributes)]
    BY <1>0, UpdateAttributesLoop
  <1> DEFINE S == {n \in Nat : UpdateSplitOK(g[n])}
  <1>2. 0 \in S
    BY <1>1
  <1>3. ASSUME NEW n \in 1..Len(cer.attributes), n - 1 \in S PROVE n \in S
    <2>1. UpdateSplitOK(g[n - 1]) /\ n \in Nat
      BY <1>0, <1>3
    <2> QED BY <1>1, <2>1, UpdateAttributeSplits
  <1>4. Len(cer.attributes) \in S
    BY <1>0, <1>2, <1>3, LoopInduction
  <1> QED BY <1>1, <1>4

LEMMA UpdateSplits ==
  ASSUME NEW elements, NEW cerV, Vectors(cerV)
  PROVE  UpdateRequestsOK(SplitUpdate(elements, cerV).requestV)
  <1>0. IsSeq(cerV) /\ Len(cerV) \in Nat /\ DOMAIN cerV = 1..Len(cerV)
    BY SeqDomain DEF Vectors
  <1>1. PICK g : /\ g[0] = [cerV |-> <<>>, requestV |-> <<>>]
                 /\ \A n \in 1..Len(cerV) : g[n] = UpdateElement(elements, g[n - 1], cerV[n])
                 /\ SplitUpdate(elements, cerV) = g[Len(cerV)]
    BY <1>0, UpdateElementsLoop
  <1> DEFINE S == {n \in Nat : UpdateSplitOK(g[n])}
  <1>2. 0 \in S
    <2>1. g[0].requestV = <<>> /\ DOMAIN g[0] = {"cerV", "requestV"}
      BY <1>1
    <2> QED BY <2>1, SmallSeqs DEF UpdateSplitOK, UpdateRequestsOK
  <1>3. ASSUME NEW n \in 1..Len(cerV), n - 1 \in S PROVE n \in S
    <2>1. UpdateSplitOK(g[n - 1]) /\ n \in Nat /\ HasVector(cerV[n])
      BY <1>0, <1>3 DEF Vectors
    <2> QED BY <1>1, <2>1, UpdateElementSplits
  <1>4. Len(cerV) \in S
    BY <1>0, <1>2, <1>3, LoopInduction
  <1> QED BY <1>1, <1>4 DEF UpdateSplitOK

\* A provider that is asked to update keeps a collection.
LEMMA ProviderKeeps ==
  ASSUME NEW store, IsCollection(store), NEW elements, Vectors(elements)
  PROVE  IsCollection(ProviderUpdate(store, elements).store)
  <1> DEFINE none == <<>>
  <1>1. ProviderUpdate(store, elements).store
          = mongoUpdateContext(store, none, elements, "UPDATE", FALSE, {}).store
    BY DEF ProviderUpdate
  <1> HIDE DEF none
  <1>2. ElementsOK(elements)
    BY DEF Vectors, HasVector, ElementsOK
  <1> QED BY <1>1, <1>2, UpdateKeeps DEF Updated

-----------------------------------------------------------------------------
(* The inductive invariant                                                  *)

\* A value of an attribute of an entity, wherever it is; one of those in K.
Told(f) == <<f[2], f[3], f[4], f[5]>>
Known(K, q) == \E f \in K : Told(f) = q
AllKnown(cerV, K) ==
  \A i \in DOMAIN cerV : \A k \in DOMAIN cerV[i].attributes :
    Local(cerV[i].attributes[k]) => Known(K, Fact(cerV[i], cerV[i].attributes[k]))

\* While the registrations are looked up, what was found stays as it is.
LookupOK(j, K) ==
  /\ j.req.kind = "query" /\ IsSeq(j.req.enV) /\ IsSeq(j.req.attrL) /\ j.ix \in 1..4
  /\ OkAnswer(j.cerV) /\ AllKnown(j.cerV, K)
  /\ \A f \in j.held : Has(j.cerV, Told(f))

\* While providers are asked, it is in one of the answers.
ForwardOK(j, K) ==
  /\ j.ix \in Nat
  /\ j.req.kind = "update" => UpdateRequestsOK(j.requestV)
  /\ j.req.kind # "update" =>
       /\ RequestsOK(j.requestV) /\ RepliesOK(j.responseV)
       /\ \A i \in DOMAIN j.responseV : AllKnown(j.responseV[i].cerV, K)
       /\ \A f \in j.held : HasReply(j.responseV, Told(f))

DoneOK(j, K) ==
  j.req.kind # "update" =>
    /\ OkAnswer(j.cerV) /\ AllLocal(j.cerV) /\ AllKnown(j.cerV, K)
    /\ \A f \in j.held : Has(j.cerV, Told(f))

JobFields == {"pc", "req", "cerV", "code", "requestV", "responseV", "ix", "written", "held", "seen",
              "kept", "steady", "faults"}
JobWith(j, K) ==
  /\ DOMAIN j = JobFields
  /\ j.pc \in {"idle", "lookup", "forward", "done"}
  /\ j.pc = "lookup" => LookupOK(j, K)
  /\ j.pc = "forward" => ForwardOK(j, K)
  /\ j.pc = "done" => DoneOK(j, K)
JobOK(j) == JobWith(j, j.seen)

ForwardingInv ==
  /\ DOMAIN stores = Nodes /\ \A n \in Nodes : IsCollection(stores[n])
  /\ regs \in RegistrationSets
  /\ DOMAIN job = Clients /\ \A c \in Clients : JobOK(job[c])

LEMMA KnownHas ==
  ASSUME NEW cerV, NEW K
  PROVE  AllKnown(cerV, K) <=> \A q : Has(cerV, q) => Known(K, q)
  BY Zenon DEF AllKnown, Has, HasIn

LEMMA KnownMore ==
  ASSUME NEW cerV, NEW K, NEW L, K \subseteq L, AllKnown(cerV, K)
  PROVE  AllKnown(cerV, L)
  BY Zenon DEF AllKnown, Known

LEMMA JobMore ==
  ASSUME NEW j, NEW K, NEW L, K \subseteq L, JobWith(j, K)
  PROVE  JobWith(j, L)
  <1>1. ASSUME LookupOK(j, K) PROVE LookupOK(j, L)
    BY <1>1, KnownMore, Zenon DEF LookupOK
  <1>2. ASSUME ForwardOK(j, K) PROVE ForwardOK(j, L)
    BY <1>2, KnownMore, Zenon DEF ForwardOK
  <1>3. ASSUME DoneOK(j, K) PROVE DoneOK(j, L)
    BY <1>3, KnownMore, Zenon DEF DoneOK
  <1> QED BY <1>1, <1>2, <1>3, Zenon DEF JobWith

\* What a node says is a fact.
LEMMA SaysKnown ==
  ASSUME NEW st, NEW n \in Nodes, NEW q, Says(st[n], q)
  PROVE  Known(Facts(st), q)
  <1>1. PICK e \in Range(st[n]) : \E x \in DOMAIN e.attrs : q = <<e.id, e.type, x[1], e.attrs[x]>>
    BY DEF Says
  <1>2. PICK x \in DOMAIN e.attrs : q = <<e.id, e.type, x[1], e.attrs[x]>>
    BY <1>1
  <1> DEFINE f == <<n, e.id, e.type, x[1], e.attrs[x]>>
  <1>3. f \in FactsOf(n, st[n])
    <2> DEFINE A(y) == {<<n, y.id, y.type, k[1], y.attrs[k]>> : k \in DOMAIN y.attrs}
               F == {A(y) : y \in Range(st[n])}
    <2>1. FactsOf(n, st[n]) = UNION F
      BY Zenon DEF FactsOf
    <2>2. f \in A(e)
      BY <1>2
    <2> HIDE DEF f, A
    <2>3. A(e) \in F
      BY <1>1
    <2> HIDE DEF F
    <2> QED BY <2>1, <2>2, <2>3
  <1>4. f \in Facts(st)
    BY <1>3, Zenon DEF Facts
  <1>5. Told(f) = q
    BY <1>2 DEF Told
  <1> HIDE DEF f
  <1> QED BY <1>4, <1>5 DEF Known

Resting(x) == x.pc \in {"idle", "done"}
SeenBy(x, st) == IF Resting(x) THEN x.seen ELSE x.seen \union Facts(st)
Watched(x, st) ==
  IF Resting(x) THEN x
  ELSE [x EXCEPT !.seen = @ \cup Facts(st), !.kept = @ \intersect Facts(st)]

LEMMA WatchedOK ==
  ASSUME NEW x, NEW st, JobWith(x, SeenBy(x, st))
  PROVE  JobOK(Watched(x, st))
  <1>1. CASE Resting(x)
    BY <1>1 DEF JobOK, SeenBy, Watched
  <1>2. CASE ~Resting(x)
    <2> DEFINE K == x.seen \union Facts(st)
               kept == x.kept \intersect Facts(st)
               y == [x EXCEPT !.seen = K, !.kept = kept]
    <2>1. JobWith(x, K) /\ Watched(x, st) = y
      BY <1>2 DEF SeenBy, Watched
    <2> HIDE DEF K, kept
    <2>2. /\ DOMAIN y = JobFields /\ y.seen = K /\ y.pc = x.pc /\ y.req = x.req /\ y.cerV = x.cerV
          /\ y.requestV = x.requestV /\ y.responseV = x.responseV /\ y.ix = x.ix /\ y.held = x.held
      BY <2>1 DEF JobWith, JobFields
    <2> HIDE DEF y
    <2>3. LookupOK(x, K) => LookupOK(y, K)
      BY <2>2 DEF LookupOK
    <2>4. ForwardOK(x, K) => ForwardOK(y, K)
      BY <2>2 DEF ForwardOK
    <2>5. DoneOK(x, K) => DoneOK(y, K)
      BY <2>2 DEF DoneOK
    <2>6. JobWith(y, K)
      BY <2>1, <2>2, <2>3, <2>4, <2>5 DEF JobWith
    <2> QED BY <2>1, <2>2, <2>6 DEF JobOK
  <1> QED BY <1>1, <1>2

JobsOK == DOMAIN job = Clients /\ \A c \in Clients : JobOK(job[c])

LEMMA BecomesOK ==
  ASSUME JobsOK, NEW c \in Clients, NEW j, NEW st, JobWith(j, SeenBy(j, st)), job' = Becomes(c, j, st)
  PROVE  JobsOK'
  <1>1. job' = [k \in Clients |-> IF k = c THEN Watched(j, st) ELSE Watched(job[k], st)]
    BY DEF Becomes, Watched, Resting
  <1>2. ASSUME NEW k \in Clients PROVE JobOK(Watched(job[k], st))
    <2>1. JobWith(job[k], job[k].seen)
      BY DEF JobsOK, JobOK
    <2>2. job[k].seen \subseteq SeenBy(job[k], st)
      BY DEF SeenBy
    <2>3. JobWith(job[k], SeenBy(job[k], st))
      BY <2>1, <2>2, JobMore
    <2> QED BY <2>3, WatchedOK
  <1>3. JobOK(Watched(j, st))
    BY WatchedOK
  <1>4. DOMAIN job' = Clients /\ \A k \in Clients : JobOK(job'[k])
    BY <1>1, <1>2, <1>3
  <1> QED BY <1>4 DEF JobsOK

StoresOK == DOMAIN stores = Nodes /\ \A n \in Nodes : IsCollection(stores[n])

LEMMA StoreChange ==
  ASSUME StoresOK, NEW p, NEW s, p \in Nodes => IsCollection(s), stores' = [stores EXCEPT ![p] = s]
  PROVE  StoresOK'
  BY DEF StoresOK

LEMMA InvParts == ForwardingInv <=> StoresOK /\ regs \in RegistrationSets /\ JobsOK
  BY DEF ForwardingInv, StoresOK, JobsOK

-----------------------------------------------------------------------------
(* Each action keeps the invariant                                          *)

LEMMA PostUpdateKeeps ==
  ASSUME ForwardingInv, NEW c \in Clients, NEW req \in Updates[c], NEW faults,
         postUpdateContext(c, req, faults)
  PROVE  ForwardingInv'
  <1> DEFINE u == mongoUpdateContext(stores[Self], regs, req.elements, req.action, FALSE, faults)
             cerV == foundAndNotFoundAttributeSeparation(u.cerV)
             split == SplitUpdate(req.elements, cerV)
             new == [Idle EXCEPT !.req = req, !.faults = faults,
                                 !.written = Effect(Self, u.store, req.elements)]
             fwd == [new EXCEPT !.pc = "forward", !.cerV = split.cerV, !.requestV = split.requestV]
             end == [new EXCEPT !.pc = "done", !.cerV = UpdateContextResponse("Ok", cerV).cerV,
                                !.code = UpdateContextResponse("Ok", cerV).code]
             j == IF updateForwardsPending(cerV) THEN fwd ELSE end
  <1>1. /\ stores' = [stores EXCEPT ![Self] = u.store] /\ job' = Becomes(c, j, stores')
        /\ regs' = regs
    BY DEF postUpdateContext
  <1>2. StoresOK /\ regs \in RegistrationSets /\ JobsOK
    BY InvParts
  <1>3. Self \in Nodes /\ IsCollection(stores[Self])
    BY <1>2 DEF StoresOK, Nodes
  <1>4. ElementsOK(req.elements) /\ req.kind = "update"
    BY RequestsAssumption DEF ElementsOK
  <1>5. Updated(u)
    BY <1>3, <1>4, UpdateKeeps
  <1> HIDE DEF u
  <1>6. StoresOK'
    BY <1>1, <1>2, <1>5, StoreChange DEF Updated
  <1>7. Vectors(cerV)
    BY <1>5, SeparationVectors DEF Updated
  <1> HIDE DEF cerV
  <1>8. UpdateRequestsOK(split.requestV)
    BY <1>7, UpdateSplits
  <1> HIDE DEF split
  <1>9. /\ DOMAIN new = JobFields /\ new.req = req /\ new.ix = 0
    <2> DEFINE w == Effect(Self, u.store, req.elements)
    <2> HIDE DEF w
    <2>1. new = [Idle EXCEPT !.req = req, !.faults = faults, !.written = w]
      BY DEF w
    <2> HIDE DEF new
    <2> QED BY <2>1 DEF Idle, JobFields
  <1> HIDE DEF new
  <1>10. JobWith(fwd, SeenBy(fwd, stores'))
    <2>1. /\ DOMAIN fwd = JobFields /\ fwd.pc = "forward" /\ fwd.req = req /\ fwd.ix = 0
          /\ fwd.requestV = split.requestV
      BY <1>9 DEF JobFields
    <2> HIDE DEF fwd
    <2>2. \A K : ForwardOK(fwd, K)
      BY <1>4, <1>8, <2>1 DEF ForwardOK
    <2> QED BY <2>1, <2>2 DEF JobWith
  <1>11. JobWith(end, SeenBy(end, stores'))
    <2> DEFINE v == UpdateContextResponse("Ok", cerV).cerV
               code == UpdateContextResponse("Ok", cerV).code
    <2>1. end = [new EXCEPT !.pc = "done", !.cerV = v, !.code = code]
      OBVIOUS
    <2> HIDE DEF v, code, end
    <2>2. DOMAIN end = JobFields /\ end.pc = "done" /\ end.req = req
      BY <1>9, <2>1 DEF JobFields
    <2>3. \A K : DoneOK(end, K)
      BY <1>4, <2>2 DEF DoneOK
    <2> QED BY <2>2, <2>3 DEF JobWith
  <1> HIDE DEF fwd, end
  <1>12. JobWith(j, SeenBy(j, stores'))
    BY <1>10, <1>11
  <1> HIDE DEF j
  <1>13. JobsOK'
    BY <1>1, <1>2, <1>12, BecomesOK
  <1>14. ForwardingInv' <=> StoresOK' /\ regs' \in RegistrationSets /\ JobsOK'
    BY DEF ForwardingInv, StoresOK, JobsOK
  <1> QED BY <1>1, <1>2, <1>6, <1>13, <1>14

LEMMA PostQueryKeeps ==
  ASSUME ForwardingInv, NEW c \in Clients, NEW req \in Queries[c], postQueryContext(c, req)
  PROVE  ForwardingInv'
  <1> DEFINE cerV == entitiesQuery(stores[Self], req.enV, req.attrL, Nothing)
             Held(cer) == {<<Self, cer.id, cer.type, a.name, a.value>> :
                             a \in {x \in Range(cer.attributes) : x.found}}
             held == UNION {Held(cer) : cer \in Range(cerV)}
             facts == Facts(stores)
             j == [Idle EXCEPT !.pc = "lookup", !.ix = 1, !.req = req, !.cerV = cerV,
                               !.held = held, !.kept = facts]
  <1>1. job' = Becomes(c, j, stores) /\ stores' = stores /\ regs' = regs
    BY DEF postQueryContext
  <1>2. StoresOK /\ regs \in RegistrationSets /\ JobsOK
    BY InvParts
  <1>3. Self \in Nodes /\ IsCollection(stores[Self])
    BY <1>2 DEF StoresOK, Nodes
  <1>4. req.kind = "query" /\ IsSeq(req.enV) /\ IsSeq(req.attrL)
    BY RequestsAssumption
  <1>5. /\ OkAnswer(cerV) /\ AllPlain(cerV) /\ \A q : Has(cerV, q) => Says(stores[Self], q)
    BY <1>3, <1>4, EntitiesAnswer
  <1> HIDE DEF cerV
  <1>6. AllKnown(cerV, facts)
    BY <1>3, <1>5, SaysKnown, KnownHas
  <1>7. ASSUME NEW f \in held PROVE Has(cerV, Told(f))
    <2>1. PICK cer \in Range(cerV) : f \in Held(cer)
      BY <1>7
    <2>2. PICK i \in DOMAIN cerV : cer = cerV[i]
      BY <2>1 DEF Range
    <2>3. PICK a \in Range(cer.attributes) : a.found /\ f = <<Self, cer.id, cer.type, a.name, a.value>>
      BY <2>1
    <2>4. PICK k \in DOMAIN cer.attributes : a = cer.attributes[k]
      BY <2>3 DEF Range
    <2>5. Local(a)
      BY <1>5, <2>2, <2>3, <2>4 DEF AllPlain, Plain, Local, OkAnswer, OkCer, CerOK, AttrOK
    <2>6. Told(f) = Fact(cer, a)
      BY <2>3 DEF Told, Fact
    <2> QED BY <2>2, <2>4, <2>5, <2>6 DEF Has, HasIn
  <1> HIDE DEF held, facts
  <1>8. /\ DOMAIN j = JobFields /\ j.pc = "lookup" /\ j.ix = 1 /\ j.req = req /\ j.cerV = cerV
        /\ j.held = held /\ j.seen = {}
    BY DEF Idle, JobFields
  <1> HIDE DEF j
  <1>9. LookupOK(j, facts)
    BY <1>4, <1>5, <1>6, <1>7, <1>8 DEF LookupOK
  <1>10. SeenBy(j, stores) = facts
    BY <1>8 DEF SeenBy, Resting, facts
  <1>11. JobWith(j, SeenBy(j, stores))
    BY <1>8, <1>9, <1>10 DEF JobWith
  <1>12. JobsOK'
    BY <1>1, <1>2, <1>11, BecomesOK
  <1> QED BY <1>1, <1>2, <1>12 DEF ForwardingInv, StoresOK, JobsOK

\* What is answered at once is the first of the answers.
LEMMA FirstReply ==
  ASSUME NEW cerV, OkAnswer(cerV), AllLocal(cerV), NEW local,
         local = IF cerV = <<>> THEN <<>> ELSE <<[code |-> "Ok", cerV |-> cerV]>>
  PROVE  /\ RepliesOK(local)
         /\ \A q : HasReply(local, q) <=> Has(cerV, q)
         /\ \A i \in DOMAIN local : local[i].cerV = cerV
  <1>1. CASE cerV = <<>>
    <2>1. local = <<>>
      BY <1>1
    <2> QED BY <1>1, <2>1, SmallSeqs DEF RepliesOK, HasReply, Has
  <1>2. CASE cerV # <<>>
    <2> DEFINE r == [code |-> "Ok", cerV |-> cerV]
    <2>1. r.cerV = cerV /\ Reply(r)
      BY <1>2 DEF Reply
    <2>2. local = <<r>>
      BY <1>2
    <2> HIDE DEF r
    <2>3. IsSeq(local) /\ DOMAIN local = {1} /\ local[1] = r
      BY <2>2, SmallSeqs
    <2> QED BY <2>1, <2>3 DEF RepliesOK, HasReply
  <1> QED BY <1>1, <1>2

LEMMA LookUpKeeps ==
  ASSUME ForwardingInv, NEW c \in Clients, LookUp(c)
  PROVE  ForwardingInv'
  <1> DEFINE j == job[c]
             cerV == Lookup(j.ix, j.cerV, regs, j.req.enV, j.req.attrL)
             pruned == pruneContextElements(cerV)
             split == SplitQuery(j.req.attrL, pruned)
             local == IF split.cerV = <<>> THEN <<>> ELSE <<[code |-> "Ok", cerV |-> split.cerV]>>
             code == IF pruned = <<>> THEN Failed.code ELSE "Ok"
             next == [j EXCEPT !.cerV = cerV, !.ix = j.ix + 1]
             fwd == [j EXCEPT !.pc = "forward", !.ix = 0, !.cerV = <<>>, !.requestV = split.requestV,
                              !.responseV = local]
             end == [j EXCEPT !.pc = "done", !.cerV = pruned, !.code = code]
             new == CASE j.ix + 1 \in Lookups -> next
                      [] j.ix + 1 \notin Lookups /\ queryForwardsPending(pruned) -> fwd
                      [] OTHER -> end
  <1>1. /\ j.pc = "lookup" /\ job' = Becomes(c, new, stores) /\ stores' = stores /\ regs' = regs
    BY DEF LookUp
  <1>2. StoresOK /\ regs \in RegistrationSets /\ JobsOK
    BY InvParts
  <1>3. DocsOK(regs)
    BY <1>2, RegistrationDocs
  <1>4. JobWith(j, j.seen) /\ LookupOK(j, j.seen) /\ DOMAIN j = JobFields
    BY <1>1, <1>2 DEF JobsOK, JobOK, JobWith
  <1>20. /\ \/ j.ix + 1 \in Lookups /\ new = next
            \/ queryForwardsPending(pruned) /\ new = fwd
            \/ ~queryForwardsPending(pruned) /\ new = end
    <2> HIDE DEF next, fwd, end, pruned
    <2> QED OBVIOUS
  <1> HIDE DEF j
  <1> DEFINE K == j.seen
  <1>5. /\ j.ix \in 1..4 /\ OkAnswer(j.cerV) /\ AllKnown(j.cerV, K) /\ j.req.kind = "query"
        /\ IsSeq(j.req.enV) /\ IsSeq(j.req.attrL) /\ \A f \in j.held : Has(j.cerV, Told(f))
    BY <1>4 DEF LookupOK
  <1> HIDE DEF K, new
  <1>6. Kept(cerV, j.cerV)
    BY <1>3, <1>5, LookupKeeps
  <1> HIDE DEF cerV
  <1>7. Kept(pruned, cerV) /\ AllFound(pruned)
    BY <1>6, PruneKeeps DEF Kept
  <1> HIDE DEF pruned
  <1>8. SplitOK(split) /\ Same(pruned, split.cerV)
    BY <1>5, <1>7, QuerySplits DEF Kept
  <1> HIDE DEF split
  <1>9. OkAnswer(split.cerV) /\ AllLocal(split.cerV) /\ RequestsOK(split.requestV)
    BY <1>8 DEF SplitOK
  <1>10. /\ RepliesOK(local) /\ (\A q : HasReply(local, q) <=> Has(split.cerV, q))
         /\ \A i \in DOMAIN local : local[i].cerV = split.cerV
    <2> HIDE DEF local
    <2> QED BY <1>9, FirstReply DEF local
  <1> HIDE DEF local, code
  <1>11. /\ \A q : Has(cerV, q) <=> Has(j.cerV, q)
         /\ \A q : Has(pruned, q) <=> Has(j.cerV, q)
         /\ \A q : Has(split.cerV, q) <=> Has(j.cerV, q)
    BY <1>6, <1>7, <1>8 DEF Kept, Same
  <1>12. AllKnown(cerV, K) /\ AllKnown(pruned, K) /\ AllKnown(split.cerV, K)
    BY <1>5, <1>11, KnownHas, Zenon
  <1>13. ASSUME j.ix + 1 \in Lookups PROVE JobWith(next, K) /\ next.seen = K
    <2>1. /\ DOMAIN next = JobFields /\ next.pc = "lookup" /\ next.ix = j.ix + 1 /\ next.req = j.req
          /\ next.cerV = cerV /\ next.held = j.held /\ next.seen = j.seen
      BY <1>1, <1>4 DEF JobFields, j
    <2> HIDE DEF next
    <2>2. LookupOK(next, K)
      BY <1>5, <1>6, <1>11, <1>12, <1>13, <2>1 DEF LookupOK, Lookups, Kept
    <2> QED BY <2>1, <2>2 DEF JobWith, K
  <1>14. JobWith(fwd, K) /\ fwd.seen = K
    <2>1. /\ DOMAIN fwd = JobFields /\ fwd.pc = "forward" /\ fwd.ix = 0 /\ fwd.req = j.req
          /\ fwd.requestV = split.requestV /\ fwd.responseV = local /\ fwd.held = j.held
          /\ fwd.seen = j.seen
      BY <1>4 DEF JobFields
    <2> HIDE DEF fwd
    <2>2. \A i \in DOMAIN local : AllKnown(local[i].cerV, K)
      BY <1>10, <1>12
    <2>3. \A f \in j.held : HasReply(local, Told(f))
      BY <1>5, <1>10, <1>11
    <2>4. ForwardOK(fwd, K)
      BY <1>5, <1>9, <1>10, <2>1, <2>2, <2>3 DEF ForwardOK
    <2> QED BY <2>1, <2>4 DEF JobWith, K
  <1>15. ASSUME ~queryForwardsPending(pruned) PROVE JobWith(end, K) /\ end.seen = K
    <2>1. /\ DOMAIN end = JobFields /\ end.pc = "done" /\ end.req = j.req /\ end.cerV = pruned
          /\ end.held = j.held /\ end.seen = j.seen
      BY <1>4 DEF JobFields
    <2> HIDE DEF end
    <2>2. AllPlain(pruned)
      BY <1>15 DEF queryForwardsPending, updateForwardsPending, AllPlain, Plain
    <2>3. AllLocal(pruned)
      BY <1>7, <2>2, FoundPlainLocal
    <2>4. \A f \in j.held : Has(pruned, Told(f))
      BY <1>5, <1>11
    <2>5. DoneOK(end, K)
      BY <1>7, <1>12, <2>1, <2>3, <2>4 DEF DoneOK, Kept
    <2> QED BY <2>1, <2>5 DEF JobWith, K
  <1> HIDE DEF next, fwd, end
  <1>16. JobWith(new, K) /\ new.seen = K
    BY <1>13, <1>14, <1>15, <1>20
  <1>17. JobWith(new, SeenBy(new, stores))
    <2>1. K \subseteq SeenBy(new, stores)
      BY <1>16 DEF SeenBy
    <2> QED BY <1>16, <2>1, JobMore
  <1>18. JobsOK'
    BY <1>1, <1>2, <1>17, BecomesOK
  <1> QED BY <1>1, <1>2, <1>18 DEF ForwardingInv, StoresOK, JobsOK

LEMMA PendingRequest ==
  ASSUME NEW c \in Clients, Pending(c), ForwardOK(job[c], job[c].seen),
         IsSeq(job[c].requestV)
  PROVE  job[c].ix + 1 \in DOMAIN job[c].requestV /\ job[c].ix \in Nat
  <1>1. Len(job[c].requestV) \in Nat /\ DOMAIN job[c].requestV = 1..Len(job[c].requestV)
    BY SeqDomain
  <1>2. job[c].ix \in Nat /\ job[c].ix < Len(job[c].requestV)
    BY DEF Pending, ForwardOK
  <1> QED BY <1>1, <1>2

LEMMA UpdateForwardKeeps ==
  ASSUME ForwardingInv, NEW c \in Clients, NEW outcome, updateForward(c, outcome)
  PROVE  ForwardingInv'
  <1> DEFINE j == job[c]
             request == j.requestV[j.ix + 1]
             p == request.contextProvider
             done == ProviderUpdate(stores[p], request.elements)
             st == IF outcome = "lost" THEN stores ELSE [stores EXCEPT ![p] = done.store]
             merged == merge([code |-> j.code, cerV |-> j.cerV],
                             IF outcome = "answered" THEN done.answer ELSE Failed)
             w == IF outcome = "lost" THEN j.written
                  ELSE j.written \cup Effect(p, st[p], request.elements)
             code == merged.code
             cerV == merged.cerV
             new == [j EXCEPT !.ix = j.ix + 1, !.code = code, !.cerV = cerV, !.written = w]
  <1>1. /\ Pending(c) /\ j.req.kind = "update" /\ stores' = st /\ job' = Becomes(c, new, st)
        /\ regs' = regs
    BY DEF updateForward
  <1>2. StoresOK /\ regs \in RegistrationSets /\ JobsOK
    BY InvParts
  <1>3. j.pc = "forward" /\ ForwardOK(j, j.seen) /\ DOMAIN j = JobFields
    BY <1>1, <1>2 DEF JobsOK, JobOK, JobWith, Pending
  <1>4. UpdateRequestsOK(j.requestV)
    BY <1>1, <1>3 DEF ForwardOK
  <1>5. j.ix + 1 \in DOMAIN j.requestV /\ j.ix \in Nat
    BY <1>1, <1>3, <1>4, PendingRequest DEF UpdateRequestsOK
  <1>6. Vectors(request.elements)
    BY <1>4, <1>5 DEF UpdateRequestsOK, UpdateRequestOK
  <1>7. p \in Nodes => IsCollection(done.store)
    BY <1>2, <1>6, ProviderKeeps DEF StoresOK
  <1> HIDE DEF done, p
  <1>8. StoresOK'
    <2>1. CASE outcome = "lost"
      <3>1. stores' = stores
        BY <1>1, <2>1
      <3> QED BY <1>2, <3>1 DEF StoresOK
    <2>2. CASE outcome # "lost"
      <3>1. stores' = [stores EXCEPT ![p] = done.store]
        BY <1>1, <2>2
      <3> QED BY <1>2, <1>7, <3>1, StoreChange
    <2> QED BY <2>1, <2>2
  <1> HIDE DEF st, w, code, cerV, j
  <1>9. /\ DOMAIN new = JobFields /\ new.pc = j.pc /\ new.ix = j.ix + 1 /\ new.req = j.req
        /\ new.requestV = j.requestV
    BY <1>3 DEF JobFields
  <1> HIDE DEF new
  <1>10. \A K : ForwardOK(new, K)
    BY <1>1, <1>4, <1>5, <1>9 DEF ForwardOK
  <1>11. JobWith(new, SeenBy(new, st))
    BY <1>3, <1>9, <1>10 DEF JobWith
  <1>12. JobsOK'
    BY <1>1, <1>2, <1>11, BecomesOK
  <1>13. ForwardingInv' <=> StoresOK' /\ regs' \in RegistrationSets /\ JobsOK'
    BY DEF ForwardingInv, StoresOK, JobsOK
  <1> QED BY <1>1, <1>2, <1>8, <1>12, <1>13

MoreReplies(all, responseV, r) ==
  /\ RepliesOK(all)
  /\ \A i \in DOMAIN all : all[i] = r \/ \E k \in DOMAIN responseV : all[i] = responseV[k]
  /\ \A q : HasReply(responseV, q) => HasReply(all, q)

LEMMA AppendReply ==
  ASSUME NEW responseV, RepliesOK(responseV), NEW r, Reply(r), NEW all, all = Append(responseV, r)
  PROVE  MoreReplies(all, responseV, r)
  <1>1. IsSeq(responseV) /\ Len(responseV) \in Nat /\ DOMAIN responseV = 1..Len(responseV)
    BY SeqDomain DEF RepliesOK
  <1>2. /\ IsSeq(all) /\ DOMAIN all = 1..(Len(responseV) + 1) /\ all[Len(responseV) + 1] = r
        /\ \A i \in 1..Len(responseV) : all[i] = responseV[i]
    BY <1>1, SeqAppend
  <1>3. \A i \in DOMAIN all : all[i] = r \/ \E k \in DOMAIN responseV : all[i] = responseV[k]
    BY <1>1, <1>2
  <1>4. RepliesOK(all)
    BY <1>2, <1>3 DEF RepliesOK
  <1>5. \A i \in DOMAIN responseV : i \in DOMAIN all /\ all[i] = responseV[i]
    BY <1>1, <1>2
  <1>6. \A q : HasReply(responseV, q) => HasReply(all, q)
    BY <1>5 DEF HasReply
  <1> QED BY <1>3, <1>4, <1>6 DEF MoreReplies

LEMMA QueryForwardKeeps ==
  ASSUME ForwardingInv, NEW c \in Clients, NEW outcome, queryForward(c, outcome)
  PROVE  ForwardingInv'
  <1> DEFINE j == job[c]
             request == j.requestV[j.ix + 1]
             p == request.contextProvider
             answer == IF outcome = "answered"
                         THEN ProviderQuery(stores[p], request.enV, request.attrL) ELSE Failed
             all == Append(j.responseV, answer)
             steady == j.steady /\ outcome = "answered"
             new == [j EXCEPT !.ix = j.ix + 1, !.responseV = all, !.steady = steady]
  <1>1. /\ Pending(c) /\ j.req.kind = "query" /\ job' = Becomes(c, new, stores) /\ stores' = stores
        /\ regs' = regs
    BY DEF queryForward
  <1>2. StoresOK /\ regs \in RegistrationSets /\ JobsOK
    BY InvParts
  <1>3. j.pc = "forward" /\ ForwardOK(j, j.seen) /\ DOMAIN j = JobFields
    BY <1>1, <1>2 DEF JobsOK, JobOK, JobWith, Pending
  <1>4. /\ RequestsOK(j.requestV) /\ RepliesOK(j.responseV)
        /\ \A i \in DOMAIN j.responseV : AllKnown(j.responseV[i].cerV, j.seen)
        /\ \A f \in j.held : HasReply(j.responseV, Told(f))
    BY <1>1, <1>3 DEF ForwardOK
  <1>5. j.ix + 1 \in DOMAIN j.requestV /\ j.ix \in Nat
    BY <1>1, <1>3, <1>4, PendingRequest DEF RequestsOK
  <1>6. p \in Providers /\ IsSeq(request.enV) /\ IsSeq(request.attrL)
    BY <1>4, <1>5 DEF RequestsOK, RequestOK
  <1>7. p \in Nodes /\ IsCollection(stores[p])
    BY <1>2, <1>6 DEF StoresOK, Nodes
  <1>8. Reply(answer) /\ \A q : Has(answer.cerV, q) => Says(stores[p], q)
    <2>1. CASE outcome = "answered"
      <3>1. answer = ProviderQuery(stores[p], request.enV, request.attrL)
        BY <2>1
      <3>2. ReplyOf(answer, stores[p])
        BY <1>6, <1>7, <3>1, ProviderReply
      <3> HIDE DEF answer
      <3> QED BY <3>2 DEF ReplyOf
    <2>2. CASE outcome # "answered"
      <3>1. answer = Failed
        BY <2>2
      <3> HIDE DEF answer
      <3> QED BY <3>1, FailedReply
    <2> QED BY <2>1, <2>2
  <1> HIDE DEF answer, p
  <1>9. AllKnown(answer.cerV, Facts(stores))
    BY <1>7, <1>8, SaysKnown, KnownHas
  <1> HIDE DEF j
  <1>10. /\ RepliesOK(all)
         /\ \A i \in DOMAIN all : all[i] = answer \/ \E k \in DOMAIN j.responseV : all[i] = j.responseV[k]
         /\ \A q : HasReply(j.responseV, q) => HasReply(all, q)
    <2>1. all = Append(j.responseV, answer)
      OBVIOUS
    <2> HIDE DEF all
    <2>2. MoreReplies(all, j.responseV, answer)
      BY <1>4, <1>8, <2>1, AppendReply
    <2> QED BY <2>2, Zenon DEF MoreReplies
  <1> HIDE DEF all, steady
  <1> DEFINE K == j.seen \union Facts(stores)
  <1>11. \A i \in DOMAIN all : AllKnown(all[i].cerV, K)
    <2>1. AllKnown(answer.cerV, K)
      BY <1>9, KnownMore
    <2>2. \A k \in DOMAIN j.responseV : AllKnown(j.responseV[k].cerV, K)
      BY <1>4, KnownMore
    <2> HIDE DEF K
    <2> QED BY <1>10, <2>1, <2>2
  <1>12. /\ DOMAIN new = JobFields /\ new.pc = "forward" /\ new.ix = j.ix + 1 /\ new.req = j.req
         /\ new.requestV = j.requestV /\ new.responseV = all /\ new.held = j.held /\ new.seen = j.seen
    BY <1>3 DEF JobFields
  <1> HIDE DEF new
  <1>13. SeenBy(new, stores) = K
    BY <1>12 DEF SeenBy, Resting
  <1> HIDE DEF K
  <1>14. \A f \in j.held : HasReply(all, Told(f))
    BY <1>4, <1>10
  <1>15. ForwardOK(new, K)
    BY <1>1, <1>4, <1>5, <1>10, <1>11, <1>12, <1>14 DEF ForwardOK
  <1>16. JobWith(new, SeenBy(new, stores))
    BY <1>12, <1>13, <1>15 DEF JobWith
  <1>17. JobsOK'
    BY <1>1, <1>2, <1>16, BecomesOK
  <1> QED BY <1>1, <1>2, <1>17 DEF ForwardingInv, StoresOK, JobsOK

LEMMA AnsweredKeeps ==
  ASSUME ForwardingInv, NEW c \in Clients, Answered(c)
  PROVE  ForwardingInv'
  <1> DEFINE j == job[c]
             answer == IF j.req.kind = "update" THEN UpdateContextResponse(j.code, j.cerV)
                       ELSE populate(j.responseV)
             code == answer.code
             cerV == answer.cerV
             new == [j EXCEPT !.pc = "done", !.code = code, !.cerV = cerV]
  <1>1. /\ j.pc = "forward" /\ job' = Becomes(c, new, stores) /\ stores' = stores /\ regs' = regs
    BY DEF Answered
  <1>2. StoresOK /\ regs \in RegistrationSets /\ JobsOK
    BY InvParts
  <1>3. ForwardOK(j, j.seen) /\ DOMAIN j = JobFields
    BY <1>1, <1>2 DEF JobsOK, JobOK, JobWith
  <1>4. ASSUME j.req.kind # "update"
        PROVE  /\ OkAnswer(cerV) /\ AllLocal(cerV) /\ AllKnown(cerV, j.seen)
               /\ \A f \in j.held : Has(cerV, Told(f))
    <2>1. cerV = populate(j.responseV).cerV
      BY <1>4
    <2> HIDE DEF cerV, j
    <2>2. /\ RepliesOK(j.responseV)
          /\ \A i \in DOMAIN j.responseV : AllKnown(j.responseV[i].cerV, j.seen)
          /\ \A f \in j.held : HasReply(j.responseV, Told(f))
      BY <1>3, <1>4 DEF ForwardOK
    <2>3. PopulatedBy(cerV, j.responseV)
      BY <2>1, <2>2, Populated
    <2>4. \A q : Has(cerV, q) => Known(j.seen, q)
      BY <2>2, <2>3, KnownHas, Zenon DEF PopulatedBy, HasReply
    <2>5. AllKnown(cerV, j.seen)
      BY <2>4, KnownHas
    <2> QED BY <2>2, <2>3, <2>5 DEF PopulatedBy
  <1> HIDE DEF code, cerV, j
  <1>5. /\ DOMAIN new = JobFields /\ new.pc = "done" /\ new.req = j.req /\ new.cerV = cerV
        /\ new.held = j.held /\ new.seen = j.seen
    BY <1>3 DEF JobFields
  <1> HIDE DEF new
  <1>6. DoneOK(new, j.seen)
    BY <1>4, <1>5 DEF DoneOK
  <1>7. JobWith(new, SeenBy(new, stores))
    BY <1>5, <1>6 DEF JobWith, SeenBy, Resting
  <1>8. JobsOK'
    BY <1>1, <1>2, <1>7, BecomesOK
  <1> QED BY <1>1, <1>2, <1>8 DEF ForwardingInv, StoresOK, JobsOK

LEMMA IdleOK == JobOK(Idle)
  BY DEF JobOK, JobWith, Idle, JobFields

LEMMA LeaveKeeps ==
  ASSUME ForwardingInv, NEW c \in Clients, Leave(c)
  PROVE  ForwardingInv'
  <1>1. job' = [job EXCEPT ![c] = Idle] /\ stores' = stores /\ regs' = regs
    BY DEF Leave
  <1>2. StoresOK /\ regs \in RegistrationSets /\ DOMAIN job = Clients /\ \A k \in Clients : JobOK(job[k])
    BY InvParts DEF JobsOK
  <1>3. DOMAIN job' = Clients /\ \A k \in Clients : JobOK(job'[k])
    BY <1>1, <1>2, IdleOK
  <1> QED BY <1>1, <1>2, <1>3 DEF ForwardingInv, StoresOK

LEMMA ReregisterKeeps ==
  ASSUME ForwardingInv, NEW new \in RegistrationSets, Reregister(new)
  PROVE  ForwardingInv'
  <1> DEFINE After(x) == [x EXCEPT !.steady = (x.pc = "idle")]
  <1>1. job' = [c \in Clients |-> After(job[c])] /\ stores' = stores /\ regs' = new
    BY DEF Reregister
  <1>2. StoresOK /\ \A k \in Clients : JobOK(job[k])
    BY InvParts DEF JobsOK
  <1>3. ASSUME NEW x, JobOK(x) PROVE JobOK(After(x))
    <2> DEFINE b == (x.pc = "idle")
               y == [x EXCEPT !.steady = b]
    <2>1. After(x) = y /\ DOMAIN x = JobFields
      BY <1>3 DEF JobOK, JobWith
    <2> HIDE DEF After, b
    <2>2. /\ DOMAIN y = JobFields /\ y.seen = x.seen /\ y.pc = x.pc /\ y.req = x.req
          /\ y.cerV = x.cerV /\ y.requestV = x.requestV /\ y.responseV = x.responseV
          /\ y.ix = x.ix /\ y.held = x.held
      BY <2>1 DEF JobFields
    <2> HIDE DEF y
    <2> DEFINE K == x.seen
    <2> HIDE DEF K
    <2>3. LookupOK(x, K) => LookupOK(y, K)
      BY <2>2 DEF LookupOK
    <2>4. ForwardOK(x, K) => ForwardOK(y, K)
      BY <2>2 DEF ForwardOK
    <2>5. DoneOK(x, K) => DoneOK(y, K)
      BY <2>2 DEF DoneOK
    <2>6. JobWith(x, K)
      BY <1>3 DEF JobOK, K
    <2>7. JobWith(y, K)
      BY <2>2, <2>3, <2>4, <2>5, <2>6 DEF JobWith
    <2> QED BY <2>1, <2>2, <2>7 DEF JobOK, K
  <1> HIDE DEF After
  <1>4. DOMAIN job' = Clients /\ \A k \in Clients : JobOK(job'[k])
    BY <1>1, <1>2, <1>3
  <1> QED BY <1>1, <1>2, <1>4 DEF ForwardingInv, StoresOK

LEMMA ForwardingInit == Init => ForwardingInv
  <1> SUFFICES ASSUME Init PROVE ForwardingInv
    OBVIOUS
  <1>1. DOMAIN stores = Nodes /\ \A n \in Nodes : IsCollection(stores[n])
    BY NodesAssumption, StoresAssumption DEF Init
  <1>2. DOMAIN job = Clients /\ \A c \in Clients : JobOK(job[c])
    BY IdleOK DEF Init
  <1> QED BY <1>1, <1>2 DEF Init, ForwardingInv

LEMMA ForwardingStep == ForwardingInv /\ [Next]_vars => ForwardingInv'
  <1> SUFFICES ASSUME ForwardingInv, [Next]_vars PROVE ForwardingInv'
    OBVIOUS
  <1>1. ASSUME NEW c \in Clients, NEW req \in Updates[c], NEW faults, postUpdateContext(c, req, faults)
        PROVE  ForwardingInv'
    BY <1>1, PostUpdateKeeps
  <1>2. ASSUME NEW c \in Clients, NEW req \in Queries[c], postQueryContext(c, req)
        PROVE  ForwardingInv'
    BY <1>2, PostQueryKeeps
  <1>3. ASSUME NEW c \in Clients, Serve(c) PROVE ForwardingInv'
    BY <1>3, LookUpKeeps, UpdateForwardKeeps, QueryForwardKeeps, AnsweredKeeps DEF Serve
  <1>4. ASSUME NEW c \in Clients, Leave(c) PROVE ForwardingInv'
    BY <1>4, LeaveKeeps
  <1>5. ASSUME NEW new \in RegistrationSets, Reregister(new) PROVE ForwardingInv'
    BY <1>5, ReregisterKeeps
  <1>6. CASE UNCHANGED vars
    BY <1>6 DEF ForwardingInv, vars
  <1> QED BY <1>1, <1>2, <1>3, <1>4, <1>5, <1>6 DEF Next

-----------------------------------------------------------------------------
(* Theorems                                                                 *)

LEMMA InvLocalKept == ForwardingInv => LocalKept
  <1> SUFFICES ASSUME ForwardingInv, NEW c \in Clients, DoneQuery(c), NEW f \in job[c].held
               PROVE  InAnswer(c, f)
    BY DEF LocalKept
  <1> DEFINE cerV == job[c].cerV
  <1>1. OkAnswer(cerV) /\ Has(cerV, Told(f))
    BY DEF ForwardingInv, JobOK, JobWith, DoneOK, DoneQuery
  <1>2. PICK i \in DOMAIN cerV : HasIn(cerV[i], Told(f))
    BY <1>1 DEF Has
  <1>3. PICK k \in DOMAIN cerV[i].attributes : Told(f) = Fact(cerV[i], cerV[i].attributes[k])
    BY <1>2 DEF HasIn
  <1>4. /\ cerV[i].id = f[2] /\ cerV[i].type = f[3] /\ cerV[i].attributes[k].name = f[4]
        /\ cerV[i].attributes[k].value = f[5]
    BY <1>3 DEF Told, Fact
  <1>5. cerV[i].code = "Ok"
    BY <1>1 DEF OkAnswer, OkCer
  <1> QED BY <1>4, <1>5 DEF InAnswer

LEMMA InvValuesWereTrue == ForwardingInv => ValuesWereTrue
  <1> DEFINE cerV(c) == job[c].cerV
  <1> SUFFICES ASSUME ForwardingInv, NEW c \in Clients, DoneQuery(c), NEW i \in DOMAIN cerV(c),
                      NEW k \in DOMAIN cerV(c)[i].attributes
               PROVE  \E f \in job[c].seen :
                        <<f[2], f[3], f[4], f[5]>>
                          = <<cerV(c)[i].id, cerV(c)[i].type, cerV(c)[i].attributes[k].name,
                              cerV(c)[i].attributes[k].value>>
    BY DEF ValuesWereTrue
  <1>1. AllLocal(cerV(c)) /\ AllKnown(cerV(c), job[c].seen)
    BY DEF ForwardingInv, JobOK, JobWith, DoneOK, DoneQuery
  <1>2. Known(job[c].seen, Fact(cerV(c)[i], cerV(c)[i].attributes[k]))
    BY <1>1 DEF AllLocal, AllKnown
  <1> QED BY <1>2 DEF Known, Told, Fact

\* What a query finds in the local database is in its answer, whatever becomes
\* of the registrations, of the providers and of the other requests: neither
\* the lookups, nor the pruning, nor the split into requests, nor the merging of
\* the answers by entity loses it (mongoQueryContext, postQueryContext), for
\* any number of clients, providers, registrations and entities.
THEOREM ForwardingLocalKept == Spec => []LocalKept
  BY ForwardingInit, ForwardingStep, InvLocalKept, PTL DEF Spec

\* No value in the answer to a query is made up or put to the wrong entity: it
\* was the value of that attribute of that entity, at the broker or at a
\* provider, at some time while the query was served.
THEOREM ForwardingValuesWereTrue == Spec => []ValuesWereTrue
  BY ForwardingInit, ForwardingStep, InvValuesWereTrue, PTL DEF Spec

-----------------------------------------------------------------------------
(* Updates: which attributes an answer reports                              *)

\* An element of an answer or of a request, and the attributes that it names.
Speaker(cer) == {"id", "attributes"} \subseteq DOMAIN cer /\ IsSeq(cer.attributes)
Speakers(cerV) == IsSeq(cerV) /\ \A i \in DOMAIN cerV : Speaker(cerV[i])
NamedIn(av, name) == \E k \in DOMAIN av : av[k].name = name
Speaks(cer, id, name) == cer.id = id /\ NamedIn(cer.attributes, name)
Reports(cerV, id, name) == \E i \in DOMAIN cerV : Speaks(cerV[i], id, name)

\* An answer of the database.
Entries(av) == IsSeq(av) /\ \A k \in DOMAIN av : AttrOK(av[k])
Clear(cer) == Speaker(cer) /\ Entries(cer.attributes)
AllClear(cerV) == IsSeq(cerV) /\ \A i \in DOMAIN cerV : Clear(cerV[i])

\* No attribute has a metadata ID.
WithoutIds(attrs) == \A k \in DOMAIN attrs : k[2] = Nothing
StoreWithoutIds(store) == \A i \in DOMAIN store : WithoutIds(store[i].attrs)
NoIds(av) == \A k \in DOMAIN av : av[k].id = Nothing

LEMMA LegalWithoutIds ==
  ASSUME NEW attrs, WithoutIds(attrs), NEW a, a.id = Nothing
  PROVE  legalIdUsage(DOMAIN attrs, a)
  BY DEF WithoutIds, legalIdUsage

LEMMA AttributeWithoutIds ==
  ASSUME NEW action \in {"UPDATE", "APPEND", "DELETE"}, NEW s, UpdOK(s), WithoutIds(s.attrs),
         NEW a, action = "APPEND" => a.id = Nothing, NEW en, NEW faults
  PROVE  WithoutIds(ProcessAttribute(action, s, a, en, faults).attrs)
  <1> DEFINE yes == Append(s.answer, Attribute(a.name, a.id, Nothing, TRUE))
             no == Append(s.answer, Attribute(a.name, a.id, Nothing, FALSE))
             k == KeyOf(a)
             more == With(s.attrs, k, a.value)
             fewer == [x \in DOMAIN s.attrs \ {k} |-> s.attrs[x]]
             m == s.modified \/ ~(k \in DOMAIN s.attrs) \/ s.attrs[k] # a.value
             put == [s EXCEPT !.answer = yes, !.attrs = more, !.modified = m]
             badYes == [s EXCEPT !.answer = yes, !.code = "InvalidParameter"]
             badNo == [s EXCEPT !.answer = no, !.code = "InvalidParameter"]
             stopYes == [badYes EXCEPT !.stop = TRUE]
             stopNo == [badNo EXCEPT !.stop = TRUE]
             del == [s EXCEPT !.answer = yes, !.modified = TRUE, !.attrs = fewer]
             t == ProcessAttribute(action, s, a, en, faults)
             hit == Hit(en, a.name, faults)
  <1>1. \/ t = s \/ t = stopYes \/ t = stopNo \/ Ends(t, badNo, hit) \/ Ends(t, del, hit)
        \/ Ends(t, put, hit) /\ (action = "APPEND" \/ k \in DOMAIN s.attrs)
    BY DEF ProcessAttribute, Ends, Hit
  <1>2. action = "APPEND" \/ k \in DOMAIN s.attrs => WithoutIds(more)
    <2>1. DOMAIN more = DOMAIN s.attrs \union {k}
      BY DEF With
    <2>2. action = "APPEND" => k[2] = Nothing
      BY DEF KeyOf
    <2> HIDE DEF more, k
    <2> QED BY <2>1, <2>2 DEF WithoutIds
  <1>3. WithoutIds(fewer)
    BY DEF WithoutIds
  <1>7. IsSeq(yes) /\ IsSeq(no)
    BY SeqAppend DEF UpdOK
  <1>8. IsFiniteSet(DOMAIN more) /\ IsFiniteSet(DOMAIN fewer)
    <2>1. DOMAIN more = DOMAIN s.attrs \union {k} /\ DOMAIN fewer = DOMAIN s.attrs \ {k}
      BY DEF With
    <2> HIDE DEF more, fewer
    <2> QED BY <2>1, FS_AddElement, FS_RemoveElement DEF UpdOK
  <1> HIDE DEF yes, no, more, fewer, m, k, t, hit
  <1>9. UpdOK(put) /\ UpdOK(badNo) /\ UpdOK(del)
    BY <1>7, <1>8 DEF UpdOK
  <1>4. put.attrs = more /\ del.attrs = fewer
    BY DEF UpdOK
  <1>5. badYes.attrs = s.attrs /\ badNo.attrs = s.attrs /\ DOMAIN badYes = DOMAIN s /\ DOMAIN badNo = DOMAIN s
    BY DEF UpdOK
  <1> HIDE DEF put, del, badYes, badNo
  <1>6. stopYes.attrs = s.attrs /\ stopNo.attrs = s.attrs
    BY <1>5 DEF UpdOK
  <1> HIDE DEF stopYes, stopNo
  <1> QED BY <1>1, <1>2, <1>3, <1>4, <1>5, <1>6, <1>9, EndsKeeps DEF t

\* An update goes through its attributes, and reports each one up to the one
\* that is refused or whose subscriptions are not found.
\* t is s with an entry for the attribute a in the answer; only a hit ends the loop.
Entered(s, a, hit, t) ==
  /\ t.stop = FALSE \/ (hit /\ t.stop = TRUE)
  /\ \E found \in BOOLEAN : t.answer = Append(s.answer, Attribute(a.name, a.id, Nothing, found))

LEMMA AttributeReported ==
  ASSUME NEW action \in {"UPDATE", "APPEND"}, NEW s, UpdOK(s), s.stop = FALSE,
         NEW a, action = "APPEND" => legalIdUsage(DOMAIN s.attrs, a), NEW en, NEW faults
  PROVE  Entered(s, a, Hit(en, a.name, faults), ProcessAttribute(action, s, a, en, faults))
  <1> DEFINE yes == Append(s.answer, Attribute(a.name, a.id, Nothing, TRUE))
             no == Append(s.answer, Attribute(a.name, a.id, Nothing, FALSE))
             k == KeyOf(a)
             more == With(s.attrs, k, a.value)
             m == s.modified \/ ~(k \in DOMAIN s.attrs) \/ s.attrs[k] # a.value
             put == [s EXCEPT !.answer = yes, !.attrs = more, !.modified = m]
             badNo == [s EXCEPT !.answer = no, !.code = "InvalidParameter"]
             t == ProcessAttribute(action, s, a, en, faults)
             hit == Hit(en, a.name, faults)
  <1>1. Ends(t, put, hit) \/ Ends(t, badNo, hit)
    BY DEF ProcessAttribute, Ends, Hit
  <1>3. IsSeq(yes) /\ IsSeq(no)
    BY SeqAppend DEF UpdOK
  <1>4. IsFiniteSet(DOMAIN more)
    <2>1. DOMAIN more = DOMAIN s.attrs \union {k}
      BY DEF With
    <2> QED BY <2>1, FS_AddElement DEF UpdOK
  <1> HIDE DEF yes, no, more, m, t, hit
  <1>5. UpdOK(put) /\ UpdOK(badNo)
    BY <1>3, <1>4 DEF UpdOK
  <1>2. put.stop = FALSE /\ badNo.stop = FALSE /\ put.answer = yes /\ badNo.answer = no
    BY DEF UpdOK
  <1> HIDE DEF put, badNo
  <1>6. (t.stop = FALSE \/ (hit /\ t.stop = TRUE)) /\ (t.answer = yes \/ t.answer = no)
    BY <1>1, <1>2, <1>5, EndsKeeps
  <1> QED BY <1>6 DEF Entered, t, yes, no, hit

LEMMA AppendEntry ==
  ASSUME NEW s, Entries(s), NEW c, AttrOK(c)
  PROVE  /\ Entries(Append(s, c)) /\ NamedIn(Append(s, c), c.name)
         /\ \A name : NamedIn(s, name) => NamedIn(Append(s, c), name)
  <1> DEFINE u == Append(s, c)
  <1>1. IsSeq(s) /\ Len(s) \in Nat /\ DOMAIN s = 1..Len(s)
    BY SeqDomain DEF Entries
  <1>2. /\ IsSeq(u) /\ DOMAIN u = 1..(Len(s) + 1) /\ (\A i \in 1..Len(s) : u[i] = s[i])
        /\ u[Len(s) + 1] = c
    BY <1>1, SeqAppend
  <1> HIDE DEF u
  <1>3. Entries(u)
    BY <1>1, <1>2 DEF Entries
  <1>4. NamedIn(u, c.name)
    BY <1>1, <1>2 DEF NamedIn
  <1>5. ASSUME NEW name, NamedIn(s, name) PROVE NamedIn(u, name)
    BY <1>1, <1>2, <1>5 DEF NamedIn
  <1> QED BY <1>3, <1>4, <1>5 DEF u

LEMMA AttributeEntry ==
  ASSUME NEW name, NEW id, NEW value, NEW found \in BOOLEAN
  PROVE  AttrOK(Attribute(name, id, value, found)) /\ Attribute(name, id, value, found).name = name
  BY DEF AttrOK, Attribute, Prov

LEMMA AttributesWithoutIds ==
  ASSUME NEW entity, IsFiniteSet(DOMAIN entity.attrs), WithoutIds(entity.attrs),
         NEW action \in {"UPDATE", "APPEND", "DELETE"}, NEW attributes, IsSeq(attributes),
         action = "APPEND" => NoIds(attributes),
         NEW faults
  PROVE  WithoutIds(processContextAttributeVector(entity, action, attributes, faults).attrs)
  <1> DEFINE base == [attrs |-> entity.attrs, answer |-> <<>>, code |-> "None", modified |-> FALSE,
                      stop |-> FALSE]
  <1>10. PICK g : AttributesRun(g, entity, action, attributes, faults)
    BY AttributesLoop
  <1>1. /\ g[0] = base
        /\ \A n \in 1..Len(attributes) :
             g[n] = ProcessAttribute(action, g[n - 1], attributes[n], entity, faults)
        /\ processContextAttributeVector(entity, action, attributes, faults) = g[Len(attributes)]
    BY <1>10, Zenon DEF AttributesRun
  <1>2. UpdOK(base) /\ WithoutIds(base.attrs)
    BY SmallSeqs DEF UpdOK
  <1> HIDE DEF base
  <1> DEFINE S == {n \in Nat : UpdOK(g[n]) /\ WithoutIds(g[n].attrs)}
  <1>3. 0 \in S
    BY <1>1, <1>2
  <1>4. ASSUME NEW n \in 1..Len(attributes), n - 1 \in S PROVE n \in S
    <2>1. UpdOK(g[n - 1]) /\ WithoutIds(g[n - 1].attrs) /\ n \in Nat
      BY <1>4, SeqDomain
    <2>2. action = "APPEND" => attributes[n].id = Nothing
      BY SeqDomain DEF NoIds
    <2>3. UpdOK(ProcessAttribute(action, g[n - 1], attributes[n], entity, faults))
      BY <2>1, ProcessAttributeKeeps
    <2>4. WithoutIds(ProcessAttribute(action, g[n - 1], attributes[n], entity, faults).attrs)
      BY <2>1, <2>2, AttributeWithoutIds
    <2> QED BY <1>1, <2>1, <2>3, <2>4
  <1>5. Len(attributes) \in S
    BY <1>3, <1>4, LoopInduction, SeqDomain
  <1> QED BY <1>1, <1>5

LEMMA AttributesReported ==
  ASSUME NEW entity, IsFiniteSet(DOMAIN entity.attrs), NEW action \in {"UPDATE", "APPEND"},
         NEW attributes, IsSeq(attributes),
         action = "APPEND" => WithoutIds(entity.attrs) /\ NoIds(attributes),
         NEW faults
  PROVE  LET av == processContextAttributeVector(entity, action, attributes, faults).answer
         IN  /\ Entries(av)
             /\ \A k \in DOMAIN attributes : \/ NamedIn(av, attributes[k].name)
                                             \/ Skipped(entity.id, attributes, k, faults)
  <1> DEFINE base == [attrs |-> entity.attrs, answer |-> <<>>, code |-> "None", modified |-> FALSE,
                      stop |-> FALSE]
             Ids(s) == action = "APPEND" => WithoutIds(s.attrs)
             \* one of the first n attributes was the last one to be looked at
             Over(n) == \E m \in 1..n : Hit(entity, attributes[m].name, faults)
             Covered(av, k) == NamedIn(av, attributes[k].name) \/ Skipped(entity.id, attributes, k, faults)
  <1>10. PICK g : AttributesRun(g, entity, action, attributes, faults)
    BY AttributesLoop
  <1>1. /\ g[0] = base
        /\ \A n \in 1..Len(attributes) :
             g[n] = ProcessAttribute(action, g[n - 1], attributes[n], entity, faults)
        /\ processContextAttributeVector(entity, action, attributes, faults) = g[Len(attributes)]
    BY <1>10, Zenon DEF AttributesRun
  <1>2. UpdOK(base) /\ Ids(base) /\ base.stop = FALSE /\ base.answer = <<>>
    BY SmallSeqs DEF UpdOK
  <1> HIDE DEF base
  <1>0. Len(attributes) \in Nat /\ DOMAIN attributes = 1..Len(attributes)
    BY SeqDomain
  <1>6. ASSUME NEW n \in 1..Len(attributes), Over(n - 1) PROVE Skipped(entity.id, attributes, n, faults)
    <2>1. PICK m \in 1..(n - 1) : Hit(entity, attributes[m].name, faults)
      BY <1>6
    <2>2. PICK op \in {"refuse", "trigger"} : <<op, entity.id, entity.type, attributes[m].name>> \in faults
      BY <2>1 DEF Hit, Fails
    <2> DEFINE f == <<op, entity.id, entity.type, attributes[m].name>>
    <2>3. f[1] = op /\ f[2] = entity.id /\ f[4] = attributes[m].name
      OBVIOUS
    <2> HIDE DEF f
    <2> QED BY <2>2, <2>3 DEF Skipped, f
  <1> DEFINE Good(s) == UpdOK(s) /\ Ids(s) /\ s.stop \in BOOLEAN /\ Entries(s.answer)
             S == {n \in Nat : /\ Good(g[n]) /\ (g[n].stop = TRUE => Over(n))
                               /\ \A k \in 1..n : Covered(g[n].answer, k)}
  <1>3. 0 \in S
    <2>1. Entries(base.answer)
      BY <1>2, SmallSeqs DEF Entries
    <2>2. Good(g[0]) /\ g[0].stop = FALSE
      BY <1>1, <1>2, <2>1
    <2> QED BY <2>2
  <1>4. ASSUME NEW n \in 1..Len(attributes), n - 1 \in S PROVE n \in S
    <2> DEFINE s == g[n - 1]
               a == attributes[n]
               t == ProcessAttribute(action, s, a, entity, faults)
    <2>1. /\ Good(s) /\ n \in Nat /\ (s.stop = TRUE => Over(n - 1))
          /\ \A k \in 1..(n - 1) : Covered(s.answer, k)
      BY <1>4, <1>0
    <2>2. action = "APPEND" => a.id = Nothing
      BY <1>0 DEF NoIds
    <2>12. s.stop = TRUE => t = s
      BY DEF ProcessAttribute
    <2> HIDE DEF s, a, t
    <2>3. UpdOK(t)
      BY <2>1, ProcessAttributeKeeps DEF t
    <2>4. Ids(t)
      BY <2>1, <2>2, AttributeWithoutIds DEF t
    <2>11. g[n] = t
      BY <1>1 DEF t, s, a
    <2>13. CASE s.stop = TRUE
      <3>1. Skipped(entity.id, attributes, n, faults)
        BY <1>6, <2>1, <2>13
      <3>2. ASSUME NEW k \in 1..n PROVE Covered(t.answer, k)
        <4>1. k \in 1..(n - 1) \/ k = n
          BY <2>1
        <4> HIDE DEF Over
        <4> QED BY <2>1, <2>12, <2>13, <3>1, <4>1
      <3>3. Over(n)
        BY <2>1, <2>13
      <3> HIDE DEF Over, Covered
      <3> QED BY <2>1, <2>11, <2>12, <2>13, <3>2, <3>3
    <2>14. CASE s.stop = FALSE
      <3>5. action = "APPEND" => legalIdUsage(DOMAIN s.attrs, a)
        BY <2>1, <2>2, LegalWithoutIds
      <3>1. UpdOK(s)
        BY <2>1
      <3>6. /\ t.stop = FALSE \/ (Hit(entity, a.name, faults) /\ t.stop = TRUE)
            /\ \E found \in BOOLEAN : t.answer = Append(s.answer, Attribute(a.name, a.id, Nothing, found))
        <4>1. Entered(s, a, Hit(entity, a.name, faults), t)
          BY <2>14, <3>1, <3>5, AttributeReported DEF t
        <4> QED BY <4>1, Zenon DEF Entered
      <3>7. PICK found \in BOOLEAN : t.answer = Append(s.answer, Attribute(a.name, a.id, Nothing, found))
        BY <3>6
      <3> DEFINE b == Attribute(a.name, a.id, Nothing, found)
      <3>8. AttrOK(b) /\ b.name = a.name
        BY AttributeEntry
      <3> HIDE DEF b
      <3>9. /\ Entries(t.answer) /\ NamedIn(t.answer, a.name)
            /\ \A name : NamedIn(s.answer, name) => NamedIn(t.answer, name)
        BY <2>1, <3>7, <3>8, AppendEntry DEF b
      <3>10. ASSUME NEW k \in 1..n PROVE Covered(t.answer, k)
        <4>1. k \in 1..(n - 1) \/ k = n
          BY <2>1
        <4> HIDE DEF Over
        <4> QED BY <2>1, <3>9, <4>1 DEF a
      <3>11. t.stop = TRUE => Over(n)
        BY <2>1, <3>6 DEF a
      <3>12. t.stop \in BOOLEAN
        BY <3>6
      <3> HIDE DEF Over, Covered
      <3> QED BY <2>1, <2>3, <2>4, <2>11, <3>9, <3>10, <3>11, <3>12
    <2> HIDE DEF S
    <2> QED BY <2>1, <2>13, <2>14
  <1>5. Len(attributes) \in S
    <2> HIDE DEF S
    <2>1. S \in SUBSET Nat
      BY DEF S
    <2> QED BY <1>0, <1>3, <1>4, <2>1, LoopInduction
  <1> QED BY <1>0, <1>1, <1>5

\* c is the element cer, with what is found out about its providers.
SameNames(c, cer) ==
  /\ c.id = cer.id /\ \A name : NamedIn(cer.attributes, name) => NamedIn(c.attributes, name)

LEMMA FillNames ==
  ASSUME NEW cer, Clear(cer), NEW crrV, CrrsOK(crrV)
  PROVE  LET c == fillContextProviders(cer, crrV) IN Clear(c) /\ SameNames(c, cer)
  <1> DEFINE av == [i \in DOMAIN cer.attributes |-> Filled(cer, cer.attributes[i], crrV)]
             c == fillContextProviders(cer, crrV)
  <1>1. c = [cer EXCEPT !.attributes = av]
    BY DEF fillContextProviders, Filled, AppOf
  <1>2. av = [i \in DOMAIN cer.attributes |-> av[i]]
    OBVIOUS
  <1>3. ASSUME NEW i \in DOMAIN cer.attributes
        PROVE  AttrOK(av[i]) /\ av[i].name = cer.attributes[i].name
    <2> DEFINE a == cer.attributes[i]
               app == AppOf(cprLookupByAttribute(cer, a.name, crrV))
               b == [a EXCEPT !.pa = app, !.found = (app # Nothing)]
    <2>1. av[i] = Filled(cer, a, crrV) /\ (av[i] = a \/ av[i] = b)
      BY DEF Filled
    <2>2. AttrOK(a)
      BY DEF Clear, Entries
    <2>3. AttrOK(Filled(cer, a, crrV))
      BY <2>2, FilledOK
    <2> HIDE DEF a, app, av
    <2>4. b.name = a.name
      BY <2>2 DEF AttrOK
    <2> HIDE DEF b
    <2> QED BY <2>1, <2>3, <2>4 DEF a
  <1> HIDE DEF av, c
  <1>4. IsSeq(av) /\ DOMAIN av = DOMAIN cer.attributes
    BY <1>2, MapSeq DEF Clear, Speaker
  <1>5. Entries(av)
    BY <1>3, <1>4 DEF Entries
  <1>6. c.attributes = av /\ c.id = cer.id /\ DOMAIN c = DOMAIN cer
    BY <1>1 DEF Clear, Speaker
  <1>7. Clear(c)
    BY <1>4, <1>5, <1>6 DEF Clear, Speaker
  <1>8. SameNames(c, cer)
    BY <1>3, <1>4, <1>6 DEF SameNames, NamedIn
  <1> QED BY <1>7, <1>8 DEF c

LEMMA SearchNames ==
  ASSUME NEW docs, DocsOK(docs), NEW en, NEW attributes, NEW cer, Clear(cer)
  PROVE  LET c == searchContextProviders(docs, en, attributes, cer) IN Clear(c) /\ SameNames(c, cer)
  <1> DEFINE Search(c, attrL) ==
               IF someContextElementNotFound(c)
                 THEN fillContextProviders(c, Registrations(docs, <<en>>, attrL)) ELSE c
             names == [i \in DOMAIN attributes |-> attributes[i].name]
             one == Search(cer, names)
             two == Search(one, <<>>)
  <1>1. searchContextProviders(docs, en, attributes, cer) = two
    BY DEF searchContextProviders
  <1>2. ASSUME NEW c, Clear(c), NEW attrL
        PROVE  Clear(Search(c, attrL)) /\ SameNames(Search(c, attrL), c)
    <2>1. SameNames(c, c)
      BY DEF SameNames
    <2> QED BY <1>2, <2>1, FillNames, QueryCrrs
  <1> HIDE DEF Search, names
  <1>3. Clear(one) /\ SameNames(one, cer)
    BY <1>2
  <1> HIDE DEF one
  <1>4. Clear(two) /\ SameNames(two, one)
    BY <1>2, <1>3
  <1> HIDE DEF two
  <1>5. SameNames(two, cer)
    BY <1>3, <1>4 DEF SameNames
  <1> QED BY <1>1, <1>4, <1>5

\* The element of an answer that speaks of the entity and all attributes but
\* those that are skipped.
SpeaksOfAll(c, id, attributes, faults) ==
  /\ Clear(c) /\ c.id = id
  /\ \A k \in DOMAIN attributes :
       NamedIn(c.attributes, attributes[k].name) \/ Skipped(id, attributes, k, faults)

LEMMA SearchSpeaks ==
  ASSUME NEW docs, DocsOK(docs), NEW en, NEW attributes, NEW cer, NEW id, NEW faults,
         SpeaksOfAll(cer, id, attributes, faults)
  PROVE  SpeaksOfAll(searchContextProviders(docs, en, attributes, cer), id, attributes, faults)
  <1> DEFINE c == searchContextProviders(docs, en, attributes, cer)
  <1>1. Clear(c) /\ SameNames(c, cer)
    BY SearchNames DEF SpeaksOfAll
  <1> HIDE DEF c
  <1>2. SpeaksOfAll(c, id, attributes, faults)
    BY <1>1 DEF SpeaksOfAll, SameNames
  <1> QED BY <1>2 DEF c

LEMMA ResponseSpeaks ==
  ASSUME NEW en, NEW attributes, NEW answer, Entries(answer), NEW code, NEW faults,
         \A k \in DOMAIN attributes :
           NamedIn(answer, attributes[k].name) \/ Skipped(en.id, attributes, k, faults)
  PROVE  SpeaksOfAll(ContextElementResponse(en, answer, code), en.id, attributes, faults)
  <1> DEFINE c == ContextElementResponse(en, answer, code)
  <1>1. c.id = en.id /\ c.attributes = answer /\ {"id", "attributes"} \subseteq DOMAIN c
    BY DEF ContextElementResponse
  <1> HIDE DEF c
  <1>2. SpeaksOfAll(c, en.id, attributes, faults)
    BY <1>1 DEF SpeaksOfAll, Clear, Speaker, Entries
  <1> QED BY <1>2 DEF c

LEMMA EntityReported ==
  ASSUME NEW docs, DocsOK(docs), NEW entity, EntityOK(entity), NEW ce, IsSeq(ce.attributes),
         NEW action \in {"UPDATE", "APPEND"},
         action = "APPEND" => WithoutIds(entity.attrs) /\ NoIds(ce.attributes),
         NEW faults
  PROVE  SpeaksOfAll(UpdateEntity(docs, entity, ce, action, faults).cer, entity.id, ce.attributes, faults)
  <1> DEFINE s == processContextAttributeVector(entity, action, ce.attributes, faults)
             code == IF s.code = "None" THEN "Ok" ELSE s.code
             cer == ContextElementResponse(entity, s.answer, code)
             new == IF s.modified /\ ~s.stop THEN [entity EXCEPT !.attrs = s.attrs] ELSE entity
             found == searchContextProviders(docs, EntityOf(ce), ce.attributes, cer)
             failed == [cer EXCEPT !.code = "ReceiverInternalError"]
             u == UpdateEntity(docs, entity, ce, action, faults)
  <1>1. u = [entity |-> <<new>>, cer |-> found] \/ u = [entity |-> <<entity>>, cer |-> failed]
    <2>1. action # "DELETE"
      OBVIOUS
    <2> QED BY <2>1, Zenon DEF UpdateEntity
  <1>2. /\ Entries(s.answer)
        /\ \A k \in DOMAIN ce.attributes : \/ NamedIn(s.answer, ce.attributes[k].name)
                                           \/ Skipped(entity.id, ce.attributes, k, faults)
    BY AttributesReported DEF EntityOK
  <1> HIDE DEF s, code
  <1>3. SpeaksOfAll(cer, entity.id, ce.attributes, faults)
    BY <1>2, ResponseSpeaks
  <1> HIDE DEF cer, new
  <1>4. SpeaksOfAll(found, entity.id, ce.attributes, faults)
    BY <1>3, SearchSpeaks
  <1>6. SpeaksOfAll(failed, entity.id, ce.attributes, faults)
    <2>1. DOMAIN failed = DOMAIN cer /\ failed.attributes = cer.attributes /\ failed.id = cer.id
      BY <1>3 DEF SpeaksOfAll, Clear, Speaker
    <2> HIDE DEF failed
    <2> QED BY <1>3, <2>1 DEF SpeaksOfAll, Clear, Speaker
  <1> HIDE DEF found, u, failed
  <1>5. u.cer = found \/ u.cer = failed
    BY <1>1
  <1> QED BY <1>4, <1>5, <1>6 DEF u

LEMMA EntityWithoutIds ==
  ASSUME NEW docs, NEW entity, EntityOK(entity), NEW ce, IsSeq(ce.attributes),
         NEW action \in {"UPDATE", "APPEND", "DELETE"}, WithoutIds(entity.attrs),
         action = "APPEND" => NoIds(ce.attributes),
         NEW faults
  PROVE  \A e \in Range(UpdateEntity(docs, entity, ce, action, faults).entity) : WithoutIds(e.attrs)
  <1> DEFINE s == processContextAttributeVector(entity, action, ce.attributes, faults)
             code == IF s.code = "None" THEN "Ok" ELSE s.code
             cer == ContextElementResponse(entity, s.answer, code)
             e2 == [entity EXCEPT !.attrs = s.attrs]
             new == IF s.modified /\ ~s.stop THEN e2 ELSE entity
             found == searchContextProviders(docs, EntityOf(ce), ce.attributes, cer)
             failed == [cer EXCEPT !.code = "ReceiverInternalError"]
             None(code2) == ContextElementResponse(entity, <<>>, code2)
             u == UpdateEntity(docs, entity, ce, action, faults)
  <1>1. \/ u = [entity |-> <<>>, cer |-> None("Ok")]
        \/ u = [entity |-> <<entity>>, cer |-> None("ReceiverInternalError")]
        \/ u = [entity |-> <<entity>>, cer |-> failed]
        \/ u = [entity |-> <<new>>, cer |-> found]
    BY Zenon DEF UpdateEntity
  <1>2. WithoutIds(s.attrs)
    BY AttributesWithoutIds DEF EntityOK
  <1> HIDE DEF s, cer, found, None, failed
  <1>3. WithoutIds(e2.attrs)
    <2>1. e2.attrs = s.attrs
      BY DEF EntityOK
    <2> QED BY <1>2, <2>1
  <1> HIDE DEF e2
  <1>4. WithoutIds(new.attrs)
    BY <1>3
  <1> HIDE DEF new, u
  <1>7. ASSUME NEW c, u = [entity |-> <<entity>>, cer |-> c]
        PROVE  \A e \in Range(u.entity) : WithoutIds(e.attrs)
    <2>1. u.entity = <<entity>>
      BY <1>7
    <2> QED BY <2>1, SmallSeqs
  <1>5. CASE u = [entity |-> <<>>, cer |-> None("Ok")]
    <2>1. u.entity = <<>>
      BY <1>5
    <2> QED BY <2>1, SmallSeqs DEF u
  <1>6. CASE u = [entity |-> <<new>>, cer |-> found]
    <2>1. u.entity = <<new>>
      BY <1>6
    <2> QED BY <1>4, <2>1, SmallSeqs DEF u
  <1> QED BY <1>1, <1>5, <1>6, <1>7 DEF u

\* An answer that reports all attributes of the entity but those skipped.
Tells(cerV, id, attributes, faults) ==
  /\ AllClear(cerV)
  /\ \A k \in DOMAIN attributes :
       Reports(cerV, id, attributes[k].name) \/ Skipped(id, attributes, k, faults)

LEMMA OneTells ==
  ASSUME NEW c, NEW id, NEW attributes, NEW faults, SpeaksOfAll(c, id, attributes, faults)
  PROVE  Tells(<<c>>, id, attributes, faults)
  <1> DEFINE s == <<c>>
  <1>1. IsSeq(s) /\ (\A i \in DOMAIN s : s[i] = c) /\ 1 \in DOMAIN s
    BY SmallSeqs
  <1> HIDE DEF s
  <1>2. Tells(s, id, attributes, faults)
    BY <1>1 DEF Tells, AllClear, Reports, Speaks, SpeaksOfAll
  <1> QED BY <1>2 DEF s

LEMMA CreateReported ==
  ASSUME NEW store, NEW docs, DocsOK(docs), NEW ce, IsSeq(ce.attributes), NEW action \in {"UPDATE", "APPEND"},
         NEW faults
  PROVE  Tells(createEntity(store, docs, ce, action, faults).cerV, ce.id, ce.attributes, faults)
  <1> DEFINE Named(found) == [i \in DOMAIN ce.attributes |->
                               Attribute(ce.attributes[i].name, ce.attributes[i].id, Nothing, found)]
             Answer(found, code) == ContextElementResponse(ce, Named(found), code)
             keys == {KeyOf(ce.attributes[i]) : i \in DOMAIN ce.attributes}
             attrs == [k \in keys |-> (CHOOSE a \in Range(ce.attributes) : KeyOf(a) = k).value]
             new == [id |-> ce.id, type |-> ce.type, attrs |-> attrs]
             more == Append(store, new)
             found == searchContextProviders(docs, EntityOf(ce), ce.attributes, Answer(FALSE, "Ok"))
             r == createEntity(store, docs, ce, action, faults)
  <1>1. \/ r = [store |-> store, cerV |-> <<found>>]
        \/ r = [store |-> more, cerV |-> <<Answer(TRUE, "Ok")>>]
        \/ r = [store |-> more, cerV |-> <<Answer(TRUE, "ReceiverInternalError")>>]
        \/ r = [store |-> store, cerV |-> <<Answer(TRUE, "InvalidParameter")>>]
    BY DEF createEntity
  <1>2. ASSUME NEW b \in BOOLEAN, NEW code PROVE SpeaksOfAll(Answer(b, code), ce.id, ce.attributes, faults)
    <2>1. /\ Named(b) = [i \in DOMAIN ce.attributes |-> Named(b)[i]]
          /\ \A i \in DOMAIN ce.attributes :
               Named(b)[i] = Attribute(ce.attributes[i].name, ce.attributes[i].id, Nothing, b)
      OBVIOUS
    <2> DEFINE s == Named(b)
    <2> HIDE DEF Named
    <2>2. IsSeq(s) /\ DOMAIN s = DOMAIN ce.attributes
      BY <2>1, MapSeq
    <2>3. \A i \in DOMAIN ce.attributes : AttrOK(s[i]) /\ s[i].name = ce.attributes[i].name
      BY <2>1, AttributeEntry
    <2> HIDE DEF s
    <2>4. Entries(s) /\ \A k \in DOMAIN ce.attributes : NamedIn(s, ce.attributes[k].name)
      BY <2>2, <2>3 DEF Entries, NamedIn
    <2> QED BY <2>4, ResponseSpeaks DEF s
  <1> HIDE DEF Answer
  <1>3. SpeaksOfAll(found, ce.id, ce.attributes, faults)
    BY <1>2, SearchSpeaks
  <1> HIDE DEF found, more, r
  <1>4. /\ Tells(<<found>>, ce.id, ce.attributes, faults) /\ Tells(<<Answer(TRUE, "Ok")>>, ce.id, ce.attributes, faults)
        /\ Tells(<<Answer(TRUE, "InvalidParameter")>>, ce.id, ce.attributes, faults)
        /\ Tells(<<Answer(TRUE, "ReceiverInternalError")>>, ce.id, ce.attributes, faults)
    BY <1>2, <1>3, OneTells
  <1>5. \A st, v : r = [store |-> st, cerV |-> v] => r.cerV = v
    OBVIOUS
  <1> QED BY <1>1, <1>4, <1>5, Zenon DEF r

LEMMA CreateWithoutIds ==
  ASSUME NEW store, IsCollection(store), StoreWithoutIds(store), NEW docs, NEW ce, IsSeq(ce.attributes),
         NEW action \in {"UPDATE", "APPEND", "DELETE"}, action = "APPEND" => NoIds(ce.attributes),
         NEW faults
  PROVE  StoreWithoutIds(createEntity(store, docs, ce, action, faults).store)
  <1> DEFINE keys == {KeyOf(ce.attributes[i]) : i \in DOMAIN ce.attributes}
             attrs == [k \in keys |-> (CHOOSE a \in Range(ce.attributes) : KeyOf(a) = k).value]
             new == [id |-> ce.id, type |-> ce.type, attrs |-> attrs]
             more == Append(store, new)
             r == createEntity(store, docs, ce, action, faults)
  <1>1. r.store = store \/ (action = "APPEND" /\ r.store = more)
    BY DEF createEntity
  <1>2. ASSUME action = "APPEND" PROVE StoreWithoutIds(more)
    <2>1. DOMAIN new.attrs = keys
      OBVIOUS
    <2>2. \A k \in keys : k[2] = Nothing
      BY <1>2 DEF KeyOf, NoIds
    <2> HIDE DEF keys, new
    <2>3. WithoutIds(new.attrs)
      BY <2>1, <2>2 DEF WithoutIds
    <2>4. IsSeq(store)
      BY CollectionOf
    <2>5. Len(store) \in Nat /\ DOMAIN store = 1..Len(store)
      BY <2>4, SeqDomain
    <2>6. /\ DOMAIN more = 1..(Len(store) + 1)
          /\ (\A i \in 1..Len(store) : more[i] = store[i]) /\ more[Len(store) + 1] = new
      BY <2>4, SeqAppend
    <2> HIDE DEF more
    <2> QED BY <2>3, <2>5, <2>6 DEF StoreWithoutIds
  <1> HIDE DEF r, more
  <1> QED BY <1>1, <1>2 DEF r

LEMMA ElementReported ==
  ASSUME NEW store, IsCollection(store), NEW docs, DocsOK(docs), NEW ce, IsSeq(ce.attributes),
         NEW action \in {"UPDATE", "APPEND"}, ~isTrue(ce.isPattern),
         \A i \in DOMAIN ce.attributes : ce.attributes[i].value # Nothing,
         action = "APPEND" => StoreWithoutIds(store) /\ NoIds(ce.attributes),
         NEW faults
  PROVE  Tells(processContextElement(store, docs, ce, action, FALSE, faults).cerV, ce.id, ce.attributes, faults)
  <1> DEFINE Meant(e) == /\ e.id = ce.id /\ ce.type \in {AnyType, e.type}
                         /\ (FALSE => e.type = AnyType)
             empty == {i \in DOMAIN ce.attributes : ce.attributes[i].value = Nothing}
             upd == [i \in DOMAIN store |->
                       IF Meant(store[i]) THEN UpdateEntity(docs, store[i], ce, action, faults)
                       ELSE [entity |-> <<store[i]>>, cer |-> <<>>]]
             failed == ContextElementResponse(ce, <<>>, "ReceiverInternalError")
             ix == [i \in DOMAIN store |-> i]
             v == [j \in DOMAIN ix |-> IF Meant(store[ix[j]]) THEN <<ix[j]>> ELSE <<>>]
             meant == FlattenSeq(v)
             parts == [i \in DOMAIN store |-> upd[i].entity]
             all == FlattenSeq(parts)
             cers == [i \in DOMAIN meant |-> upd[meant[i]].cer]
             r == processContextElement(store, docs, ce, action, FALSE, faults)
  <1>0. empty = {}
    OBVIOUS
  <1>3. CASE Fails("query", ce, Nothing, faults)
    <2>1. r = [store |-> store, cerV |-> <<failed>>]
      BY <1>0, <1>3, Zenon DEF processContextElement
    <2>2. \A k : Skipped(ce.id, ce.attributes, k, faults)
      <3> DEFINE f == <<"query", ce.id, ce.type, Nothing>>
      <3>1. f \in faults /\ f[1] = "query" /\ f[2] = ce.id
        BY <1>3 DEF Fails
      <3> HIDE DEF f
      <3> QED BY <3>1 DEF Skipped
    <2>5. Entries(<<>>)
      BY SmallSeqs DEF Entries
    <2>3. SpeaksOfAll(failed, ce.id, ce.attributes, faults)
      BY <2>2, <2>5, ResponseSpeaks, Zenon
    <2> HIDE DEF failed, r
    <2>4. r.cerV = <<failed>>
      BY <2>1
    <2> QED BY <2>3, <2>4, OneTells DEF r
  <1>4. SUFFICES ASSUME ~Fails("query", ce, Nothing, faults) PROVE Tells(r.cerV, ce.id, ce.attributes, faults)
    BY <1>3
  <1>1. r = IF \A i \in DOMAIN store : ~Meant(store[i]) THEN createEntity(store, docs, ce, action, faults)
            ELSE [store |-> all, cerV |-> cers]
    BY <1>0, <1>4, Zenon DEF processContextElement, Those
  <1>2. Tells(createEntity(store, docs, ce, action, faults).cerV, ce.id, ce.attributes, faults)
    BY CreateReported
  <1>5. IsSeq(store) /\ \A i \in DOMAIN store : EntityOK(store[i])
    BY CollectionOf
  <1>7. ASSUME NEW i \in DOMAIN store, Meant(store[i])
        PROVE  SpeaksOfAll(upd[i].cer, ce.id, ce.attributes, faults)
    <2>1. upd[i] = UpdateEntity(docs, store[i], ce, action, faults)
      BY <1>7
    <2>2. EntityOK(store[i]) /\ store[i].id = ce.id
      BY <1>5, <1>7
    <2>3. action = "APPEND" => WithoutIds(store[i].attrs) /\ NoIds(ce.attributes)
      BY DEF StoreWithoutIds
    <2> HIDE DEF upd, Meant
    <2> QED BY <2>1, <2>2, <2>3, EntityReported
  <1>8. ix = [i \in DOMAIN store |-> ix[i]] /\ \A i \in DOMAIN store : ix[i] = i
    OBVIOUS
  <1>9. IsSeq(ix) /\ DOMAIN ix = DOMAIN store
    <2> HIDE DEF ix
    <2> QED BY <1>5, <1>8, MapSeq
  <1>10. /\ v = [j \in DOMAIN ix |-> v[j]] /\ \A j \in DOMAIN ix : v[j] \in {<<ix[j]>>, <<>>}
         /\ \A j \in DOMAIN ix : v[j] # <<>> <=> Meant(store[ix[j]])
    <2> HIDE DEF ix, Meant
    <2> QED OBVIOUS
  <1> HIDE DEF ix, v, upd, Meant, parts
  <1>12. Passes(meant, ix, v)
    BY <1>9, <1>10, Passing
  <1> HIDE DEF meant, empty
  <1>13. ASSUME NEW i \in DOMAIN meant PROVE SpeaksOfAll(upd[meant[i]].cer, ce.id, ce.attributes, faults)
    <2>1. PICK j \in DOMAIN ix : v[j] # <<>> /\ meant[i] = ix[j]
      BY <1>12, Zenon DEF Passes
    <2>2. ix[j] \in DOMAIN store /\ Meant(store[ix[j]])
      BY <1>8, <1>9, <1>10, <2>1
    <2> QED BY <1>7, <2>1, <2>2
  <1>14. ASSUME ~\A i \in DOMAIN store : ~Meant(store[i]) PROVE Tells(cers, ce.id, ce.attributes, faults)
    <2>1. cers = [i \in DOMAIN meant |-> cers[i]] /\ \A i \in DOMAIN meant : cers[i] = upd[meant[i]].cer
      OBVIOUS
    <2> HIDE DEF cers
    <2>2. IsSeq(cers) /\ DOMAIN cers = DOMAIN meant
      BY <1>12, <2>1, MapSeq DEF Passes
    <2>3. \A i \in DOMAIN cers : SpeaksOfAll(cers[i], ce.id, ce.attributes, faults)
      BY <1>13, <2>1, <2>2
    <2>4. PICK n \in DOMAIN store : Meant(store[n])
      BY <1>14
    <2>5. n \in DOMAIN ix /\ v[n] # <<>>
      BY <1>8, <1>9, <1>10, <2>4
    <2>6. PICK i \in DOMAIN meant : meant[i] = ix[n]
      BY <1>12, <2>5 DEF Passes
    <2>7. i \in DOMAIN cers
      BY <2>2
    <2> QED BY <2>2, <2>3, <2>7 DEF Tells, AllClear, Reports, Speaks, SpeaksOfAll
  <1> HIDE DEF r, cers, all
  <1>15. CASE \A i \in DOMAIN store : ~Meant(store[i])
    BY <1>1, <1>2, <1>15 DEF r
  <1>16. CASE ~\A i \in DOMAIN store : ~Meant(store[i])
    <2>1. r = [store |-> all, cerV |-> cers]
      BY <1>1, <1>16, Zenon
    <2>2. r.cerV = cers
      BY <2>1
    <2> QED BY <1>14, <1>16, <2>2 DEF r
  <1> QED BY <1>15, <1>16

LEMMA ElementWithoutIds ==
  ASSUME NEW store, IsCollection(store), StoreWithoutIds(store), NEW docs, NEW ce, IsSeq(ce.attributes),
         NEW action \in {"UPDATE", "APPEND", "DELETE"}, action = "APPEND" => NoIds(ce.attributes),
         NEW faults
  PROVE  StoreWithoutIds(processContextElement(store, docs, ce, action, FALSE, faults).store)
  <1> DEFINE Meant(e) == /\ e.id = ce.id /\ ce.type \in {AnyType, e.type}
                         /\ (FALSE => e.type = AnyType)
             upd == [i \in DOMAIN store |->
                       IF Meant(store[i]) THEN UpdateEntity(docs, store[i], ce, action, faults)
                       ELSE [entity |-> <<store[i]>>, cer |-> <<>>]]
             parts == [i \in DOMAIN store |-> upd[i].entity]
             all == FlattenSeq(parts)
             r == processContextElement(store, docs, ce, action, FALSE, faults)
  <1>1. \/ r.store = store
        \/ r = createEntity(store, docs, ce, action, faults)
        \/ r.store = all
    BY DEF processContextElement
  <1>2. StoreWithoutIds(createEntity(store, docs, ce, action, faults).store)
    BY CreateWithoutIds
  <1>5. IsSeq(store) /\ \A i \in DOMAIN store : EntityOK(store[i])
    BY CollectionOf
  <1>6. Len(store) \in Nat /\ DOMAIN store = 1..Len(store)
    BY <1>5, SeqDomain
  <1>7. ASSUME NEW i \in DOMAIN store
        PROVE  IsSeq(upd[i].entity) /\ \A e \in Range(upd[i].entity) : WithoutIds(e.attrs)
    <2>0. WithoutIds(store[i].attrs)
      BY DEF StoreWithoutIds
    <2>1. CASE Meant(store[i])
      <3>1. upd[i] = UpdateEntity(docs, store[i], ce, action, faults)
        BY <2>1
      <3>2. EntityUpdated(upd[i])
        BY <1>5, <3>1, UpdateEntityKeeps
      <3>3. \A e \in Range(UpdateEntity(docs, store[i], ce, action, faults).entity) : WithoutIds(e.attrs)
        BY <1>5, <2>0, EntityWithoutIds
      <3> HIDE DEF upd
      <3> QED BY <3>1, <3>2, <3>3 DEF EntityUpdated
    <2>2. CASE ~Meant(store[i])
      <3>1. upd[i].entity = <<store[i]>>
        BY <2>2
      <3> HIDE DEF upd, Meant
      <3> QED BY <2>0, <3>1, SmallSeqs
    <2> QED BY <2>1, <2>2
  <1>11. parts = [i \in 1..Len(store) |-> parts[i]] /\ \A i \in DOMAIN store : parts[i] = upd[i].entity
    <2> HIDE DEF upd
    <2> QED BY <1>6
  <1> HIDE DEF upd, Meant, parts
  <1>15. StoreWithoutIds(all)
    <2>1. \A i \in 1..Len(store) : IsSeq(parts[i])
      BY <1>6, <1>7, <1>11
    <2>2. IsSeq(all) /\ \A x : x \in Range(all) <=> \E i \in 1..Len(store) : x \in Range(parts[i])
      BY <1>6, <1>11, <2>1, FlattenSeqs
    <2> HIDE DEF all
    <2>3. ASSUME NEW i \in DOMAIN all PROVE WithoutIds(all[i].attrs)
      <3>1. all[i] \in Range(all)
        BY DEF Range
      <3>2. PICK n \in 1..Len(store) : all[i] \in Range(parts[n])
        BY <2>2, <3>1
      <3> QED BY <1>6, <1>7, <1>11, <3>2
    <2> QED BY <2>3 DEF StoreWithoutIds
  <1> HIDE DEF r, all
  <1> QED BY <1>1, <1>2, <1>15 DEF r

\* What the elements name, v reports.
ReportsAll(v, elements) == \A id, name : Reports(elements, id, name) => Reports(v, id, name)

LEMMA JoinReports ==
  ASSUME NEW s, NEW t, AllClear(s), AllClear(t)
  PROVE  AllClear(s \o t) /\ ReportsAll(s \o t, s) /\ ReportsAll(s \o t, t)
  <1> DEFINE u == s \o t
  <1>1. Joins(u, s, t)
    BY ConcatJoins DEF AllClear
  <1> HIDE DEF u
  <1>2. AllClear(u)
    BY <1>1 DEF Joins, AllClear
  <1>3. ReportsAll(u, s) /\ ReportsAll(u, t)
    BY <1>1 DEF Joins, ReportsAll, Reports
  <1> QED BY <1>2, <1>3 DEF u

LEMMA UpdateWithoutIds ==
  ASSUME NEW store, IsCollection(store), StoreWithoutIds(store), NEW docs, NEW elements,
         ElementsOK(elements), NEW action \in {"UPDATE", "APPEND", "DELETE"},
         action = "APPEND" => \A i \in DOMAIN elements : NoIds(elements[i].attributes),
         NEW faults
  PROVE  StoreWithoutIds(mongoUpdateContext(store, docs, elements, action, FALSE, faults).store)
  <1> DEFINE El(st, e) == processContextElement(st, docs, e, action, FALSE, faults)
  <1>0. PICK g : ElementsRun(g, store, docs, elements, action, faults)
    BY ElementsLoop DEF ElementsOK
  <1>1. /\ g[0] = [store |-> store, cerV |-> <<>>]
        /\ \A n \in 1..Len(elements) : g[n] = Then(g[n - 1], El(g[n - 1].store, elements[n]))
        /\ mongoUpdateContext(store, docs, elements, action, FALSE, faults) = g[Len(elements)]
    BY <1>0 DEF ElementsRun
  <1>2. Len(elements) \in Nat /\ DOMAIN elements = 1..Len(elements)
    BY SeqDomain DEF ElementsOK
  <1> DEFINE Good(st) == IsCollection(st) /\ StoreWithoutIds(st)
             S == {n \in Nat : Good(g[n].store)}
  <1>3. ASSUME NEW st, Good(st), NEW n \in 1..Len(elements) PROVE Good(El(st, elements[n]).store)
    <2> DEFINE ce == elements[n]
    <2>1. IsSeq(ce.attributes) /\ (action = "APPEND" => NoIds(ce.attributes))
      BY <1>2 DEF ElementsOK
    <2> HIDE DEF ce
    <2>2. Updated(El(st, ce)) /\ StoreWithoutIds(El(st, ce).store)
      BY <1>3, <2>1, ElementKeeps, ElementWithoutIds
    <2> QED BY <2>2 DEF Updated, ce
  <1> HIDE DEF El
  <1>4. 0 \in S
    <2>1. g[0].store = store
      BY <1>1
    <2> QED BY <2>1
  <1>5. ASSUME NEW n \in 1..Len(elements), n - 1 \in S PROVE n \in S
    <2> DEFINE r == El(g[n - 1].store, elements[n])
    <2>1. Good(g[n - 1].store) /\ n \in Nat
      BY <1>2, <1>5
    <2>2. Good(r.store)
      BY <1>3, <2>1
    <2>3. g[n] = Then(g[n - 1], r)
      BY <1>1
    <2> HIDE DEF r
    <2>4. g[n].store = r.store
      BY <2>3 DEF Then
    <2> QED BY <2>1, <2>2, <2>4
  <1>6. Len(elements) \in S
    <2> HIDE DEF S
    <2>1. S \in SUBSET Nat
      BY DEF S
    <2> QED BY <1>2, <1>4, <1>5, <2>1, LoopInduction
  <1> QED BY <1>1, <1>6

\* No pattern, and a value for every attribute.
Valued(attributes) == \A k \in DOMAIN attributes : attributes[k].value # Nothing
Plainly(elements) ==
  \A i \in DOMAIN elements : ~isTrue(elements[i].isPattern) /\ Valued(elements[i].attributes)

\* An attribute that the element, or the elements, name and that is not skipped.
Wants(ce, faults, id, name) ==
  /\ ce.id = id
  /\ \E k \in DOMAIN ce.attributes :
       ce.attributes[k].name = name /\ ~Skipped(id, ce.attributes, k, faults)
Wanted(elements, faults, id, name) == \E i \in DOMAIN elements : Wants(elements[i], faults, id, name)

LEMMA AllWanted ==
  ASSUME NEW elements, NEW id, NEW name, Reports(elements, id, name)
  PROVE  Wanted(elements, {}, id, name)
  BY DEF Reports, Speaks, NamedIn, Wanted, Wants, Skipped

LEMMA UpdateReported ==
  ASSUME NEW store, IsCollection(store), NEW docs, DocsOK(docs), NEW elements, ElementsOK(elements),
         NEW action \in {"UPDATE", "APPEND"}, Plainly(elements),
         action = "APPEND" => /\ StoreWithoutIds(store)
                              /\ \A i \in DOMAIN elements : NoIds(elements[i].attributes),
         NEW faults
  PROVE  LET cerV == mongoUpdateContext(store, docs, elements, action, FALSE, faults).cerV
         IN  AllClear(cerV) /\ \A id, name : Wanted(elements, faults, id, name) => Reports(cerV, id, name)
  <1> DEFINE El(st, e) == processContextElement(st, docs, e, action, FALSE, faults)
  <1>0. PICK g : ElementsRun(g, store, docs, elements, action, faults)
    BY ElementsLoop DEF ElementsOK
  <1>1. /\ g[0] = [store |-> store, cerV |-> <<>>]
        /\ \A n \in 1..Len(elements) : g[n] = Then(g[n - 1], El(g[n - 1].store, elements[n]))
        /\ mongoUpdateContext(store, docs, elements, action, FALSE, faults) = g[Len(elements)]
    BY <1>0 DEF ElementsRun
  <1>2. Len(elements) \in Nat /\ DOMAIN elements = 1..Len(elements)
    BY SeqDomain DEF ElementsOK
  <1> DEFINE Good(st) == IsCollection(st) /\ (action = "APPEND" => StoreWithoutIds(st))
             Upto(v, n) == \A m \in 1..n : \A id, name :
                             Wants(elements[m], faults, id, name) => Reports(v, id, name)
             S == {n \in Nat : Good(g[n].store) /\ AllClear(g[n].cerV) /\ Upto(g[n].cerV, n)}
  <1>3. ASSUME NEW st, Good(st), NEW n \in 1..Len(elements)
        PROVE  /\ Good(El(st, elements[n]).store)
               /\ Tells(El(st, elements[n]).cerV, elements[n].id, elements[n].attributes, faults)
    <2> DEFINE ce == elements[n]
    <2>1. IsSeq(ce.attributes) /\ (action = "APPEND" => NoIds(ce.attributes))
      BY <1>2 DEF ElementsOK
    <2>2. ~isTrue(ce.isPattern) /\ \A i \in DOMAIN ce.attributes : ce.attributes[i].value # Nothing
      BY <1>2 DEF Plainly, Valued
    <2> HIDE DEF ce
    <2>3. Updated(El(st, ce))
      BY <1>3, <2>1, ElementKeeps
    <2>4. action = "APPEND" => StoreWithoutIds(El(st, ce).store)
      BY <1>3, <2>1, ElementWithoutIds
    <2>5. Tells(El(st, ce).cerV, ce.id, ce.attributes, faults)
      BY <1>3, <2>1, <2>2, ElementReported
    <2> QED BY <2>3, <2>4, <2>5 DEF Updated, ce
  <1> HIDE DEF El
  <1>4. 0 \in S
    <2>1. g[0].store = store /\ g[0].cerV = <<>>
      BY <1>1
    <2>2. AllClear(<<>>)
      BY SmallSeqs DEF AllClear
    <2> QED BY <2>1, <2>2
  <1>5. ASSUME NEW n \in 1..Len(elements), n - 1 \in S PROVE n \in S
    <2> DEFINE old == g[n - 1].cerV
               r == El(g[n - 1].store, elements[n])
               w == old \o r.cerV
    <2>1. Good(g[n - 1].store) /\ n \in Nat /\ AllClear(old) /\ Upto(old, n - 1)
      BY <1>2, <1>5
    <2>2. Good(r.store) /\ Tells(r.cerV, elements[n].id, elements[n].attributes, faults)
      BY <1>3, <2>1
    <2>3. g[n] = Then(g[n - 1], r)
      BY <1>1
    <2> HIDE DEF r
    <2>4. AllClear(w) /\ ReportsAll(w, old) /\ ReportsAll(w, r.cerV)
      BY <2>1, <2>2, JoinReports DEF Tells
    <2>5. g[n] = [store |-> r.store, cerV |-> w]
      BY <2>3 DEF Then
    <2> HIDE DEF w, old
    <2>6. g[n].store = r.store /\ g[n].cerV = w
      BY <2>5
    <2>7. ASSUME NEW m \in 1..n, NEW id, NEW name, Wants(elements[m], faults, id, name)
          PROVE  Reports(w, id, name)
      <3>1. CASE m = n
        <4>1. PICK k \in DOMAIN elements[n].attributes :
                 /\ elements[n].id = id /\ elements[n].attributes[k].name = name
                 /\ ~Skipped(id, elements[n].attributes, k, faults)
          BY <2>7, <3>1 DEF Wants
        <4>2. Reports(r.cerV, id, name)
          BY <2>2, <4>1 DEF Tells
        <4> QED BY <2>4, <4>2 DEF ReportsAll
      <3>2. CASE m # n
        <4>1. m \in 1..(n - 1)
          BY <2>1, <3>2
        <4>2. Reports(old, id, name)
          BY <2>1, <2>7, <4>1
        <4> QED BY <2>4, <4>2 DEF ReportsAll
      <3> QED BY <3>1, <3>2
    <2>8. Upto(w, n)
      BY <2>7
    <2> HIDE DEF Upto, Good
    <2> QED BY <2>1, <2>2, <2>4, <2>6, <2>8
  <1>6. Len(elements) \in S
    <2> HIDE DEF S
    <2>1. S \in SUBSET Nat
      BY DEF S
    <2> QED BY <1>2, <1>4, <1>5, <2>1, LoopInduction
  <1>7. AllClear(g[Len(elements)].cerV) /\ Upto(g[Len(elements)].cerV, Len(elements))
    BY <1>6
  <1>8. \A id, name : Wanted(elements, faults, id, name) => Reports(g[Len(elements)].cerV, id, name)
    BY <1>2, <1>7 DEF Wanted
  <1> QED BY <1>1, <1>7, <1>8

\* Separation moves attributes between elements of the entity, and loses none.
LEMMA SomeEntries ==
  ASSUME NEW cer, Clear(cer), NEW found \in BOOLEAN
  PROVE  /\ Entries(SomeOf(cer, found))
         /\ \A k \in DOMAIN cer.attributes :
              cer.attributes[k].found = found => NamedIn(SomeOf(cer, found), cer.attributes[k].name)
  <1> DEFINE s == cer.attributes
             v == [i \in DOMAIN s |-> IF s[i].found = found THEN <<s[i]>> ELSE <<>>]
             t == SomeOf(cer, found)
  <1>1. t = FlattenSeq(v)
    BY Zenon DEF SomeOf, Those
  <1>2. /\ v = [i \in DOMAIN s |-> v[i]] /\ \A i \in DOMAIN s : v[i] \in {<<s[i]>>, <<>>}
        /\ \A i \in DOMAIN s : s[i].found = found => v[i] # <<>>
    OBVIOUS
  <1>3. IsSeq(s) /\ \A i \in DOMAIN s : AttrOK(s[i])
    BY DEF Clear, Entries
  <1> HIDE DEF v, s, t
  <1>4. Passes(t, s, v)
    BY <1>1, <1>2, <1>3, Passing
  <1>5. Entries(t)
    BY <1>3, <1>4 DEF Passes, Entries
  <1>6. \A k \in DOMAIN s : s[k].found = found => NamedIn(t, s[k].name)
    BY <1>2, <1>4 DEF Passes, NamedIn
  <1> QED BY <1>5, <1>6 DEF s, t

LEMMA SeparationReports ==
  ASSUME NEW cerV, AllClear(cerV)
  PROVE  LET new == foundAndNotFoundAttributeSeparation(cerV)
         IN  AllClear(new) /\ ReportsAll(new, cerV)
  <1> DEFINE Mixed(cer) == SomeOf(cer, TRUE) # <<>> /\ SomeOf(cer, FALSE) # <<>>
             Stays(cer) ==
               CASE Mixed(cer) -> [cer EXCEPT !.attributes = SomeOf(cer, TRUE), !.code = "Ok"]
                 [] ~Mixed(cer) /\ SomeOf(cer, FALSE) # <<>> /\ cer.code = "Ok" ->
                      [cer EXCEPT !.code = "ContextElementNotFound"]
                 [] OTHER -> cer
             v == [i \in DOMAIN cerV |-> IF Mixed(cerV[i]) THEN <<cerV[i]>> ELSE <<>>]
             mixed == FlattenSeq(v)
             a == [i \in DOMAIN cerV |-> Stays(cerV[i])]
             b == [i \in DOMAIN mixed |->
                     ContextElementResponse(mixed[i], SomeOf(mixed[i], FALSE), "ContextElementNotFound")]
  <1>1. foundAndNotFoundAttributeSeparation(cerV) = a \o b
    BY Zenon DEF foundAndNotFoundAttributeSeparation, SomeOf, Those
  <1>2. IsSeq(cerV) /\ \A i \in DOMAIN cerV : Clear(cerV[i])
    BY DEF AllClear
  <1>3. /\ v = [i \in DOMAIN cerV |-> v[i]] /\ \A i \in DOMAIN cerV : v[i] \in {<<cerV[i]>>, <<>>}
        /\ \A i \in DOMAIN cerV : Mixed(cerV[i]) <=> v[i] # <<>>
    <2> HIDE DEF Mixed
    <2> QED OBVIOUS
  <1>4. ASSUME NEW cer, Clear(cer)
        PROVE  /\ Clear(Stays(cer)) /\ Stays(cer).id = cer.id
               /\ \A k \in DOMAIN cer.attributes :
                    ~Mixed(cer) \/ cer.attributes[k].found = TRUE =>
                      NamedIn(Stays(cer).attributes, cer.attributes[k].name)
    <2> DEFINE s == SomeOf(cer, TRUE)
               x == [cer EXCEPT !.attributes = s, !.code = "Ok"]
               y == [cer EXCEPT !.code = "ContextElementNotFound"]
    <2>1. \/ Stays(cer) = x /\ Mixed(cer)
          \/ Stays(cer) = y /\ ~Mixed(cer)
          \/ Stays(cer) = cer /\ ~Mixed(cer)
      <3> HIDE DEF Mixed
      <3> QED OBVIOUS
    <2>2. /\ Entries(s)
          /\ \A k \in DOMAIN cer.attributes :
               cer.attributes[k].found = TRUE => NamedIn(s, cer.attributes[k].name)
      BY <1>4, SomeEntries
    <2> HIDE DEF s, Stays, Mixed
    <2>3. /\ x.id = cer.id /\ x.attributes = s /\ DOMAIN x = DOMAIN cer
          /\ y.id = cer.id /\ y.attributes = cer.attributes /\ DOMAIN y = DOMAIN cer
      BY <1>4 DEF Clear, Speaker
    <2> HIDE DEF x, y
    <2>4. Clear(x) /\ Clear(y)
      BY <1>4, <2>2, <2>3 DEF Clear, Speaker, Entries
    <2>5. \A k \in DOMAIN cer.attributes : NamedIn(cer.attributes, cer.attributes[k].name)
      BY DEF NamedIn
    <2> QED BY <1>4, <2>1, <2>2, <2>3, <2>4, <2>5
  <1> HIDE DEF Stays, Mixed
  <1>5. /\ a = [i \in DOMAIN cerV |-> a[i]] /\ \A i \in DOMAIN cerV : a[i] = Stays(cerV[i])
        /\ b = [i \in DOMAIN mixed |-> b[i]]
        /\ \A i \in DOMAIN mixed :
             b[i] = ContextElementResponse(mixed[i], SomeOf(mixed[i], FALSE), "ContextElementNotFound")
    OBVIOUS
  <1> HIDE DEF v, a, b
  <1>6. Passes(mixed, cerV, v)
    BY <1>2, <1>3, Passing
  <1> HIDE DEF mixed
  <1>7. IsSeq(a) /\ DOMAIN a = DOMAIN cerV /\ IsSeq(b) /\ DOMAIN b = DOMAIN mixed
    BY <1>2, <1>5, <1>6, MapSeq DEF Passes
  <1>8. ASSUME NEW i \in DOMAIN mixed
        PROVE  Clear(b[i]) /\ b[i].id = mixed[i].id /\ b[i].attributes = SomeOf(mixed[i], FALSE)
    <2> DEFINE s == SomeOf(mixed[i], FALSE)
    <2>1. Clear(mixed[i])
      BY <1>2, <1>6 DEF Passes
    <2>2. Entries(s)
      BY <2>1, SomeEntries
    <2>3. b[i] = ContextElementResponse(mixed[i], s, "ContextElementNotFound")
      BY <1>5
    <2> HIDE DEF s
    <2>4. b[i].id = mixed[i].id /\ b[i].attributes = s /\ {"id", "attributes"} \subseteq DOMAIN b[i]
      BY <2>3 DEF ContextElementResponse
    <2> QED BY <2>2, <2>4 DEF Clear, Speaker, Entries, s
  <1>9. AllClear(a) /\ AllClear(b)
    BY <1>2, <1>4, <1>5, <1>7, <1>8 DEF AllClear
  <1> DEFINE u == a \o b
  <1>10. AllClear(u) /\ ReportsAll(u, a) /\ ReportsAll(u, b)
    BY <1>9, JoinReports
  <1> HIDE DEF u
  <1>11. ASSUME NEW id, NEW name, Reports(cerV, id, name) PROVE Reports(u, id, name)
    <2>1. PICK i \in DOMAIN cerV : Speaks(cerV[i], id, name)
      BY <1>11 DEF Reports
    <2>2. PICK k \in DOMAIN cerV[i].attributes : cerV[i].attributes[k].name = name
      BY <2>1 DEF Speaks, NamedIn
    <2>3. Clear(cerV[i]) /\ cerV[i].id = id
      BY <1>2, <2>1 DEF Speaks
    <2>4. cerV[i].attributes[k].found \in BOOLEAN
      BY <2>3 DEF Clear, Entries, AttrOK
    <2>5. CASE ~Mixed(cerV[i]) \/ cerV[i].attributes[k].found = TRUE
      <3>1. NamedIn(Stays(cerV[i]).attributes, name) /\ Stays(cerV[i]).id = id
        BY <1>4, <2>2, <2>3, <2>5
      <3>2. Reports(a, id, name)
        BY <1>5, <1>7, <3>1 DEF Reports, Speaks
      <3> QED BY <1>10, <3>2 DEF ReportsAll
    <2>6. CASE Mixed(cerV[i]) /\ cerV[i].attributes[k].found = FALSE
      <3>1. PICK n \in DOMAIN mixed : mixed[n] = cerV[i]
        BY <1>3, <1>6, <2>6 DEF Passes
      <3>2. NamedIn(SomeOf(cerV[i], FALSE), name)
        BY <2>2, <2>3, <2>6, SomeEntries
      <3>3. Speaks(b[n], id, name)
        BY <1>8, <2>3, <3>1, <3>2 DEF Speaks
      <3>4. Reports(b, id, name)
        BY <1>7, <3>3 DEF Reports
      <3> QED BY <1>10, <3>4 DEF ReportsAll
    <2> QED BY <2>4, <2>5, <2>6
  <1> QED BY <1>1, <1>10, <1>11 DEF ReportsAll, u

\* Adding an element, or an attribute to an element, loses nothing.
LEMMA AppendSpeaker ==
  ASSUME NEW s, Speakers(s), NEW c, Speaker(c)
  PROVE  /\ Speakers(Append(s, c)) /\ ReportsAll(Append(s, c), s)
         /\ \A id, name : Speaks(c, id, name) => Reports(Append(s, c), id, name)
  <1> DEFINE u == Append(s, c)
  <1>1. IsSeq(s) /\ Len(s) \in Nat /\ DOMAIN s = 1..Len(s)
    BY SeqDomain DEF Speakers
  <1>2. /\ IsSeq(u) /\ DOMAIN u = 1..(Len(s) + 1) /\ (\A i \in 1..Len(s) : u[i] = s[i])
        /\ u[Len(s) + 1] = c
    BY <1>1, SeqAppend
  <1> HIDE DEF u
  <1>3. Speakers(u)
    BY <1>1, <1>2 DEF Speakers
  <1>4. ReportsAll(u, s)
    BY <1>1, <1>2 DEF ReportsAll, Reports
  <1>5. \A id, name : Speaks(c, id, name) => Reports(u, id, name)
    BY <1>1, <1>2 DEF Reports
  <1> QED BY <1>3, <1>4, <1>5 DEF u

\* The element with one more attribute.
LEMMA LongerSpeaker ==
  ASSUME NEW cer, Speaker(cer), NEW a
  PROVE  LET c == [cer EXCEPT !.attributes = Append(@, a)]
         IN  /\ Speaker(c) /\ DOMAIN c = DOMAIN cer /\ Speaks(c, cer.id, a.name)
             /\ \A x \in DOMAIN cer : x # "attributes" => c[x] = cer[x]
             /\ \A id, name : Speaks(cer, id, name) => Speaks(c, id, name)
  <1> DEFINE s == cer.attributes
             u == Append(s, a)
             c == [cer EXCEPT !.attributes = u]
  <1>1. IsSeq(s) /\ Len(s) \in Nat /\ DOMAIN s = 1..Len(s)
    BY SeqDomain DEF Speaker
  <1> HIDE DEF s
  <1>2. /\ IsSeq(u) /\ DOMAIN u = 1..(Len(s) + 1) /\ (\A i \in 1..Len(s) : u[i] = s[i])
        /\ u[Len(s) + 1] = a
    BY <1>1, SeqAppend
  <1> HIDE DEF u
  <1>3. NamedIn(u, a.name) /\ \A name : NamedIn(s, name) => NamedIn(u, name)
    BY <1>1, <1>2 DEF NamedIn
  <1>4. /\ c.attributes = u /\ c.id = cer.id /\ DOMAIN c = DOMAIN cer
        /\ \A x \in DOMAIN cer : x # "attributes" => c[x] = cer[x]
    BY DEF Speaker
  <1> HIDE DEF c
  <1>5. Speaker(c)
    BY <1>2, <1>4 DEF Speaker
  <1>6. Speaks(c, cer.id, a.name) /\ \A id, name : Speaks(cer, id, name) => Speaks(c, id, name)
    BY <1>3, <1>4 DEF Speaks, s
  <1> QED BY <1>4, <1>5, <1>6 DEF c, u, s

LEMMA ReplaceSpeaker ==
  ASSUME NEW v, Speakers(v), NEW n \in DOMAIN v, NEW c, Speaker(c),
         \A id, name : Speaks(v[n], id, name) => Speaks(c, id, name)
  PROVE  /\ Speakers([v EXCEPT ![n] = c]) /\ ReportsAll([v EXCEPT ![n] = c], v)
         /\ \A id, name : Speaks(c, id, name) => Reports([v EXCEPT ![n] = c], id, name)
  <1> DEFINE u == [v EXCEPT ![n] = c]
  <1>1. /\ IsSeq(u) /\ DOMAIN u = DOMAIN v
        /\ \A i \in DOMAIN v : u[i] = IF i = n THEN c ELSE v[i]
    BY SeqExcept DEF Speakers
  <1> HIDE DEF u
  <1>2. Speakers(u)
    BY <1>1 DEF Speakers
  <1>3. ReportsAll(u, v) /\ \A id, name : Speaks(c, id, name) => Reports(u, id, name)
    BY <1>1 DEF ReportsAll, Reports
  <1> QED BY <1>2, <1>3 DEF u

LEMMA PushReports ==
  ASSUME NEW cerV, Speakers(cerV), NEW en, NEW a, NEW at, NEW code
  PROVE  LET new == Push(cerV, en, a, at, code)
         IN  Speakers(new) /\ ReportsAll(new, cerV) /\ Reports(new, en.id, a.name)
  <1> DEFINE old == {i \in DOMAIN cerV :
                       cerV[i].id = en.id /\ cerV[i].type = en.type /\ cerV[i].code = at}
             n == CHOOSE i \in old : \A j \in old : i <= j
             e == ContextElementResponse(en, <<a>>, code)
             more == [cerV EXCEPT ![n].attributes = Append(@, a)]
             new == Push(cerV, en, a, at, code)
  <1>1. new = IF old = {} THEN Append(cerV, e) ELSE more
    BY Zenon DEF Push
  <1>2. Speaker(e) /\ Speaks(e, en.id, a.name)
    <2>1. e.id = en.id /\ e.attributes = <<a>> /\ {"id", "attributes"} \subseteq DOMAIN e
      BY DEF ContextElementResponse
    <2> HIDE DEF e
    <2> DEFINE s == <<a>>
    <2>2. IsSeq(s) /\ NamedIn(s, a.name)
      BY SmallSeqs DEF NamedIn
    <2> HIDE DEF s
    <2> QED BY <2>1, <2>2 DEF Speaker, Speaks, s
  <1> HIDE DEF e
  <1>3. CASE old = {}
    BY <1>1, <1>2, <1>3, AppendSpeaker
  <1>4. CASE old # {}
    <2>1. n \in old
      <3>1. old \subseteq Nat
        BY SeqDomain DEF Speakers
      <3> HIDE DEF old
      <3> QED BY <1>4, <3>1, Least
    <2>2. n \in DOMAIN cerV /\ cerV[n].id = en.id
      BY <2>1
    <2> HIDE DEF n, old
    <2> DEFINE c == [cerV[n] EXCEPT !.attributes = Append(@, a)]
    <2>3. Speaker(cerV[n])
      BY <2>2 DEF Speakers
    <2>4. /\ Speaker(c) /\ Speaks(c, cerV[n].id, a.name)
          /\ \A id, name : Speaks(cerV[n], id, name) => Speaks(c, id, name)
      BY <2>3, LongerSpeaker
    <2>5. more = [cerV EXCEPT ![n] = c]
      OBVIOUS
    <2> HIDE DEF c, more, new
    <2>6. Speakers(more) /\ ReportsAll(more, cerV) /\ Reports(more, en.id, a.name)
      BY <2>2, <2>4, <2>5, ReplaceSpeaker
    <2> QED BY <1>1, <1>4, <2>6 DEF new
  <1> QED BY <1>3, <1>4

\* The requests to providers: none has a pattern.
ForProvider(e) == Speaker(e) /\ "isPattern" \in DOMAIN e /\ e.isPattern = "false"
ForwardRequest(r) ==
  /\ {"contextProvider", "elements"} \subseteq DOMAIN r /\ r.contextProvider \in Providers
  /\ IsSeq(r.elements) /\ \A i \in DOMAIN r.elements : ForProvider(r.elements[i])
ForwardRequests(requestV) ==
  IsSeq(requestV) /\ \A n \in DOMAIN requestV : ForwardRequest(requestV[n])
Requested(requestV, id, name) == \E n \in DOMAIN requestV : Reports(requestV[n].elements, id, name)

LEMMA AddedReports ==
  ASSUME NEW ceV, IsSeq(ceV), \A i \in DOMAIN ceV : ForProvider(ceV[i]), NEW en, NEW a
  PROVE  LET new == AddedTo(ceV, en, a)
         IN  /\ IsSeq(new) /\ \A i \in DOMAIN new : ForProvider(new[i])
             /\ ReportsAll(new, ceV) /\ Reports(new, en.id, a.name)
  <1> DEFINE at == {i \in DOMAIN ceV : ceV[i].id = en.id /\ ceV[i].type = en.type}
             n == CHOOSE i \in at : TRUE
             more == [ceV EXCEPT ![n].attributes = Append(@, a)]
             e == ElementFor(en, a)
             u == Append(ceV, e)
             new == AddedTo(ceV, en, a)
  <1>0. Speakers(ceV)
    BY DEF Speakers, ForProvider
  <1>1. new = IF at = {} THEN u ELSE more
    BY Zenon DEF AddedTo
  <1>2. ForProvider(e) /\ Speaks(e, en.id, a.name)
    <2>1. /\ e.id = en.id /\ e.attributes = <<a>> /\ {"id", "attributes", "isPattern"} \subseteq DOMAIN e
          /\ e.isPattern = "false"
      BY DEF ElementFor
    <2> HIDE DEF e
    <2> DEFINE s == <<a>>
    <2>2. IsSeq(s) /\ NamedIn(s, a.name)
      BY SmallSeqs DEF NamedIn
    <2> HIDE DEF s
    <2> QED BY <2>1, <2>2 DEF ForProvider, Speaker, Speaks, s
  <1> HIDE DEF e
  <1>3. CASE at = {}
    <2>1. IsSeq(ceV) /\ Len(ceV) \in Nat /\ DOMAIN ceV = 1..Len(ceV)
      BY SeqDomain
    <2>2. /\ IsSeq(u) /\ DOMAIN u = 1..(Len(ceV) + 1) /\ (\A i \in 1..Len(ceV) : u[i] = ceV[i])
          /\ u[Len(ceV) + 1] = e
      BY <2>1, SeqAppend
    <2>3. ReportsAll(u, ceV) /\ Reports(u, en.id, a.name)
      BY <1>0, <1>2, AppendSpeaker DEF ForProvider
    <2> HIDE DEF u
    <2>4. \A i \in DOMAIN u : ForProvider(u[i])
      BY <1>2, <2>1, <2>2
    <2> QED BY <1>1, <1>3, <2>2, <2>3, <2>4
  <1>4. CASE at # {}
    <2>2. n \in DOMAIN ceV /\ ceV[n].id = en.id
      BY <1>4
    <2> HIDE DEF n, at, u
    <2> DEFINE c == [ceV[n] EXCEPT !.attributes = Append(@, a)]
    <2>3. ForProvider(ceV[n]) /\ Speaker(ceV[n])
      BY <2>2 DEF ForProvider
    <2>4. /\ Speaker(c) /\ DOMAIN c = DOMAIN ceV[n] /\ Speaks(c, ceV[n].id, a.name)
          /\ \A x \in DOMAIN ceV[n] : x # "attributes" => c[x] = ceV[n][x]
          /\ \A id, name : Speaks(ceV[n], id, name) => Speaks(c, id, name)
      BY <2>3, LongerSpeaker
    <2>5. more = [ceV EXCEPT ![n] = c]
      OBVIOUS
    <2> HIDE DEF c, more, new
    <2>6. ForProvider(c)
      BY <2>3, <2>4 DEF ForProvider
    <2>7. ReportsAll(more, ceV) /\ Reports(more, en.id, a.name)
      BY <1>0, <2>2, <2>4, <2>5, ReplaceSpeaker
    <2>8. /\ IsSeq(more) /\ DOMAIN more = DOMAIN ceV
          /\ \A i \in DOMAIN ceV : more[i] = IF i = n THEN c ELSE ceV[i]
      BY <2>2, <2>5, SeqExcept
    <2>9. \A i \in DOMAIN more : ForProvider(more[i])
      BY <2>6, <2>8
    <2> QED BY <1>1, <1>4, <2>7, <2>8, <2>9 DEF new
  <1> QED BY <1>3, <1>4

LEMMA RequestReports ==
  ASSUME NEW requestV, ForwardRequests(requestV), NEW app \in Providers, NEW en, NEW a
  PROVE  LET new == AddToRequest(requestV, app, en, a)
         IN  /\ ForwardRequests(new) /\ Requested(new, en.id, a.name)
             /\ \A id, name : Requested(requestV, id, name) => Requested(new, id, name)
  <1> DEFINE of == {i \in DOMAIN requestV : requestV[i].contextProvider = app}
             n == CHOOSE i \in of : TRUE
             none == <<>>
             one == <<ElementFor(en, a)>>
             r == [contextProvider |-> app, elements |-> one]
             u == Append(requestV, r)
             more == [requestV EXCEPT ![n].elements = AddedTo(@, en, a)]
             new == AddToRequest(requestV, app, en, a)
  <1>1. new = IF of = {} THEN u ELSE more
    BY Zenon DEF AddToRequest, AddedTo, ElementFor
  <1>2. IsSeq(requestV) /\ Len(requestV) \in Nat /\ DOMAIN requestV = 1..Len(requestV)
    BY SeqDomain DEF ForwardRequests
  <1>3. CASE of = {}
    <2>1. AddedTo(none, en, a) = one
      BY DEF AddedTo
    <2>2. IsSeq(none) /\ DOMAIN none = {}
      BY SmallSeqs
    <2> HIDE DEF none, one
    <2>3. /\ IsSeq(one) /\ (\A i \in DOMAIN one : ForProvider(one[i])) /\ Reports(one, en.id, a.name)
      BY <2>1, <2>2, AddedReports
    <2>4. /\ {"contextProvider", "elements"} \subseteq DOMAIN r /\ r.elements = one
          /\ r.contextProvider = app
      OBVIOUS
    <2> HIDE DEF r
    <2>5. ForwardRequest(r)
      BY <2>3, <2>4 DEF ForwardRequest
    <2>6. /\ IsSeq(u) /\ DOMAIN u = 1..(Len(requestV) + 1)
          /\ (\A i \in 1..Len(requestV) : u[i] = requestV[i]) /\ u[Len(requestV) + 1] = r
      BY <1>2, SeqAppend
    <2> HIDE DEF u, of, more, new
    <2>7. ForwardRequests(u)
      BY <1>2, <2>5, <2>6 DEF ForwardRequests
    <2>8. Requested(u, en.id, a.name)
      BY <1>2, <2>3, <2>4, <2>6 DEF Requested
    <2>9. \A id, name : Requested(requestV, id, name) => Requested(u, id, name)
      BY <1>2, <2>6 DEF Requested
    <2> QED BY <1>1, <1>3, <2>7, <2>8, <2>9 DEF new
  <1>4. CASE of # {}
    <2>1. n \in DOMAIN requestV
      BY <1>4
    <2> HIDE DEF n, u, of
    <2> DEFINE els == AddedTo(requestV[n].elements, en, a)
               c == [requestV[n] EXCEPT !.elements = els]
    <2>2. /\ IsSeq(els) /\ (\A i \in DOMAIN els : ForProvider(els[i]))
          /\ ReportsAll(els, requestV[n].elements) /\ Reports(els, en.id, a.name)
      BY <2>1, AddedReports DEF ForwardRequests, ForwardRequest
    <2>3. more = [requestV EXCEPT ![n] = c]
      OBVIOUS
    <2> HIDE DEF els
    <2>4. /\ c.elements = els /\ {"contextProvider", "elements"} \subseteq DOMAIN c
          /\ c.contextProvider \in Providers
      BY <2>1 DEF ForwardRequests, ForwardRequest
    <2> HIDE DEF c, more, new
    <2>5. ForwardRequest(c)
      BY <2>2, <2>4 DEF ForwardRequest
    <2>6. /\ IsSeq(more) /\ DOMAIN more = DOMAIN requestV
          /\ \A i \in DOMAIN requestV : more[i] = IF i = n THEN c ELSE requestV[i]
      BY <1>2, <2>1, <2>3, SeqExcept
    <2>7. ForwardRequests(more)
      BY <2>5, <2>6 DEF ForwardRequests
    <2>8. Requested(more, en.id, a.name)
      BY <2>1, <2>2, <2>4, <2>6 DEF Requested
    <2>9. ASSUME NEW id, NEW name, Requested(requestV, id, name) PROVE Requested(more, id, name)
      <3>1. PICK m \in DOMAIN requestV : Reports(requestV[m].elements, id, name)
        BY <2>9 DEF Requested
      <3>2. Reports(more[m].elements, id, name)
        BY <2>2, <2>4, <2>6, <3>1 DEF ReportsAll
      <3> QED BY <2>6, <3>2 DEF Requested
    <2> QED BY <1>1, <1>4, <2>7, <2>8, <2>9 DEF new
  <1> QED BY <1>3, <1>4

\* What is answered at once and what goes to providers.
Halves(s) == DOMAIN s = {"cerV", "requestV"} /\ Speakers(s.cerV) /\ ForwardRequests(s.requestV)
InHalf(s, id, name) == Reports(s.cerV, id, name) \/ Requested(s.requestV, id, name)

LEMMA AttributeInHalf ==
  ASSUME NEW elements, NEW s, Halves(s), NEW cer, NEW a, AttrOK(a)
  PROVE  LET t == UpdateAttribute(elements, s, cer, a)
         IN  /\ Halves(t) /\ InHalf(t, cer.id, a.name)
             /\ \A id, name : InHalf(s, id, name) => InHalf(t, id, name)
  <1> DEFINE full == [a EXCEPT !.value = attributeLookup(elements, cer, a.name), !.pa = Nothing]
             no == notFoundPush(s.cerV, cer, full, "ContextElementNotFound")
             yes == foundPush(s.cerV, cer, full)
             rq == AddToRequest(s.requestV, a.pa, cer, full)
             t == UpdateAttribute(elements, s, cer, a)
  <1>1. \/ t = [s EXCEPT !.cerV = no] \/ t = [s EXCEPT !.cerV = yes]
        \/ t = [s EXCEPT !.requestV = rq] /\ a.pa \in Providers
    BY DEF UpdateAttribute, AttrOK, Prov
  <1>2. full.name = a.name
    BY DEF AttrOK
  <1> HIDE DEF full
  <1>3. ASSUME NEW v, v = no \/ v = yes
        PROVE  Speakers(v) /\ ReportsAll(v, s.cerV) /\ Reports(v, cer.id, a.name)
    BY <1>2, <1>3, PushReports DEF notFoundPush, foundPush, Halves
  <1>4. ASSUME a.pa \in Providers
        PROVE  /\ ForwardRequests(rq) /\ Requested(rq, cer.id, a.name)
               /\ \A id, name : Requested(s.requestV, id, name) => Requested(rq, id, name)
    BY <1>2, <1>4, RequestReports DEF Halves
  <1> HIDE DEF no, yes, rq, t
  <1>5. ASSUME NEW v, v = no \/ v = yes, t = [s EXCEPT !.cerV = v]
        PROVE  /\ Halves(t) /\ InHalf(t, cer.id, a.name)
               /\ \A id, name : InHalf(s, id, name) => InHalf(t, id, name)
    <2>1. t.cerV = v /\ t.requestV = s.requestV /\ DOMAIN t = {"cerV", "requestV"}
      BY <1>5 DEF Halves
    <2>2. Speakers(v) /\ ReportsAll(v, s.cerV) /\ Reports(v, cer.id, a.name)
      BY <1>3, <1>5
    <2> QED BY <2>1, <2>2 DEF Halves, InHalf, ReportsAll
  <1>6. ASSUME t = [s EXCEPT !.requestV = rq], a.pa \in Providers
        PROVE  /\ Halves(t) /\ InHalf(t, cer.id, a.name)
               /\ \A id, name : InHalf(s, id, name) => InHalf(t, id, name)
    <2>1. t.cerV = s.cerV /\ t.requestV = rq /\ DOMAIN t = {"cerV", "requestV"}
      BY <1>6 DEF Halves
    <2> QED BY <1>4, <1>6, <2>1 DEF Halves, InHalf
  <1> QED BY <1>1, <1>5, <1>6 DEF t

LEMMA ElementInHalf ==
  ASSUME NEW elements, NEW s, Halves(s), NEW cer, Clear(cer)
  PROVE  LET t == UpdateElement(elements, s, cer)
         IN  /\ Halves(t) /\ \A id, name : Speaks(cer, id, name) \/ InHalf(s, id, name) => InHalf(t, id, name)
  <1> DEFINE av == cer.attributes
  <1>0. IsSeq(av) /\ Len(av) \in Nat /\ DOMAIN av = 1..Len(av)
    BY SeqDomain DEF Clear, Speaker
  <1>1. PICK g : /\ g[0] = s
                 /\ \A n \in 1..Len(av) : g[n] = UpdateAttribute(elements, g[n - 1], cer, av[n])
                 /\ UpdateElement(elements, s, cer) = g[Len(av)]
    BY <1>0, UpdateAttributesLoop
  <1>2. \A n \in DOMAIN av : AttrOK(av[n])
    BY DEF Clear, Entries
  <1> DEFINE Good(t, n) == /\ Halves(t) /\ (\A k \in 1..n : InHalf(t, cer.id, av[k].name))
                           /\ \A id, name : InHalf(s, id, name) => InHalf(t, id, name)
             S == {n \in Nat : Good(g[n], n)}
  <1>3. 0 \in S
    BY <1>1
  <1>4. ASSUME NEW n \in 1..Len(av), n - 1 \in S PROVE n \in S
    <2> DEFINE o == g[n - 1]
               t == UpdateAttribute(elements, o, cer, av[n])
    <2>1. Good(o, n - 1) /\ n \in Nat
      BY <1>0, <1>4
    <2>2. g[n] = t
      BY <1>1
    <2> HIDE DEF av
    <2>3. /\ Halves(t) /\ InHalf(t, cer.id, av[n].name)
          /\ \A id, name : InHalf(o, id, name) => InHalf(t, id, name)
      BY <1>0, <1>2, <2>1, AttributeInHalf
    <2> HIDE DEF o, t
    <2>4. ASSUME NEW k \in 1..n PROVE InHalf(t, cer.id, av[k].name)
      <3>1. k \in 1..(n - 1) \/ k = n
        BY <2>1
      <3> QED BY <2>1, <2>3, <3>1
    <2>5. Good(t, n)
      BY <2>1, <2>3, <2>4
    <2> QED BY <2>1, <2>2, <2>5
  <1>5. Len(av) \in S
    <2> HIDE DEF S
    <2>1. S \in SUBSET Nat
      BY DEF S
    <2> QED BY <1>0, <1>3, <1>4, <2>1, LoopInduction
  <1>6. Good(g[Len(av)], Len(av))
    BY <1>5
  <1>7. \A id, name : Speaks(cer, id, name) => InHalf(g[Len(av)], id, name)
    BY <1>0, <1>6 DEF Speaks, NamedIn
  <1> QED BY <1>1, <1>6, <1>7

LEMMA AllInHalves ==
  ASSUME NEW elements, NEW cerV, AllClear(cerV)
  PROVE  LET s == SplitUpdate(elements, cerV)
         IN  Halves(s) /\ \A id, name : Reports(cerV, id, name) => InHalf(s, id, name)
  <1>0. IsSeq(cerV) /\ Len(cerV) \in Nat /\ DOMAIN cerV = 1..Len(cerV)
    BY SeqDomain DEF AllClear
  <1>1. PICK g : /\ g[0] = [cerV |-> <<>>, requestV |-> <<>>]
                 /\ \A n \in 1..Len(cerV) : g[n] = UpdateElement(elements, g[n - 1], cerV[n])
                 /\ SplitUpdate(elements, cerV) = g[Len(cerV)]
    BY <1>0, UpdateElementsLoop
  <1> DEFINE Good(t, n) == /\ Halves(t)
                           /\ \A k \in 1..n : \A id, name : Speaks(cerV[k], id, name) => InHalf(t, id, name)
             S == {n \in Nat : Good(g[n], n)}
  <1>2. 0 \in S
    <2>1. g[0].requestV = <<>> /\ g[0].cerV = <<>> /\ DOMAIN g[0] = {"cerV", "requestV"}
      BY <1>1
    <2>2. Halves(g[0])
      BY <2>1, SmallSeqs DEF Halves, Speakers, ForwardRequests
    <2> QED BY <2>2
  <1>3. ASSUME NEW n \in 1..Len(cerV), n - 1 \in S PROVE n \in S
    <2> DEFINE o == g[n - 1]
               t == UpdateElement(elements, o, cerV[n])
    <2>1. Good(o, n - 1) /\ n \in Nat /\ Clear(cerV[n])
      BY <1>0, <1>3 DEF AllClear
    <2>2. g[n] = t
      BY <1>1
    <2>3. /\ Halves(t) /\ \A id, name : Speaks(cerV[n], id, name) \/ InHalf(o, id, name) => InHalf(t, id, name)
      BY <2>1, ElementInHalf
    <2> HIDE DEF o, t
    <2>4. ASSUME NEW k \in 1..n, NEW id, NEW name, Speaks(cerV[k], id, name) PROVE InHalf(t, id, name)
      <3>1. k \in 1..(n - 1) \/ k = n
        BY <2>1
      <3> QED BY <2>1, <2>3, <2>4, <3>1
    <2>5. Good(t, n)
      BY <2>1, <2>3, <2>4
    <2> QED BY <2>1, <2>2, <2>5
  <1>4. Len(cerV) \in S
    <2> HIDE DEF S
    <2>1. S \in SUBSET Nat
      BY DEF S
    <2> QED BY <1>0, <1>2, <1>3, <2>1, LoopInduction
  <1>5. Good(g[Len(cerV)], Len(cerV))
    BY <1>4
  <1>6. \A id, name : Reports(cerV, id, name) => InHalf(g[Len(cerV)], id, name)
    BY <1>0, <1>5 DEF Reports
  <1> QED BY <1>1, <1>5, <1>6

\* The answers of the providers are added to what was answered at once.
LEMMA MergedElement ==
  ASSUME NEW cerV, Speakers(cerV), NEW cer, HasVector(cer)
  PROVE  LET t == MergeElement(cerV, cer)
         IN  /\ Speakers(t) /\ ReportsAll(t, cerV)
             /\ \A id, name : Speaks(cer, id, name) => Reports(t, id, name)
  <1> DEFINE av == cer.attributes
  <1>0. IsSeq(av) /\ Len(av) \in Nat /\ DOMAIN av = 1..Len(av)
    BY SeqDomain DEF HasVector
  <1>1. PICK g : /\ g[0] = cerV
                 /\ \A n \in 1..Len(av) : g[n] = MergeAttribute(g[n - 1], cer, av[n])
                 /\ MergeElement(cerV, cer) = g[Len(av)]
    BY <1>0, MergeAttributesLoop
  <1> DEFINE Good(t, n) == /\ Speakers(t) /\ ReportsAll(t, cerV)
                           /\ \A k \in 1..n : Reports(t, cer.id, av[k].name)
             S == {n \in Nat : Good(g[n], n)}
  <1>3. 0 \in S
    BY <1>1 DEF ReportsAll
  <1>4. ASSUME NEW n \in 1..Len(av), n - 1 \in S PROVE n \in S
    <2> DEFINE o == g[n - 1]
               t == MergeAttribute(o, cer, av[n])
    <2>1. Good(o, n - 1) /\ n \in Nat
      BY <1>0, <1>4
    <2>2. g[n] = t
      BY <1>1
    <2> HIDE DEF av
    <2>3. Speakers(t) /\ ReportsAll(t, o) /\ Reports(t, cer.id, av[n].name)
      BY <2>1, PushReports DEF MergeAttribute, foundPush, notFoundPush
    <2> HIDE DEF o, t
    <2>4. ASSUME NEW k \in 1..n PROVE Reports(t, cer.id, av[k].name)
      <3>1. k \in 1..(n - 1) \/ k = n
        BY <2>1
      <3> QED BY <2>1, <2>3, <3>1 DEF ReportsAll
    <2>5. Good(t, n)
      BY <2>1, <2>3, <2>4 DEF ReportsAll
    <2> QED BY <2>1, <2>2, <2>5
  <1>5. Len(av) \in S
    <2> HIDE DEF S
    <2>1. S \in SUBSET Nat
      BY DEF S
    <2> QED BY <1>0, <1>3, <1>4, <2>1, LoopInduction
  <1>6. Good(g[Len(av)], Len(av))
    BY <1>5
  <1>7. \A id, name : Speaks(cer, id, name) => Reports(g[Len(av)], id, name)
    BY <1>0, <1>6 DEF Speaks, NamedIn
  <1> QED BY <1>1, <1>6, <1>7

LEMMA Merged ==
  ASSUME NEW response, Speakers(response.cerV), NEW upcrs, Vectors(upcrs.cerV)
  PROVE  LET t == merge(response, upcrs).cerV
         IN  Speakers(t) /\ ReportsAll(t, response.cerV) /\ ReportsAll(t, upcrs.cerV)
  <1> DEFINE v == upcrs.cerV
  <1>0. IsSeq(v) /\ Len(v) \in Nat /\ DOMAIN v = 1..Len(v)
    BY SeqDomain DEF Vectors
  <1>1. PICK g : /\ g[0] = response.cerV
                 /\ \A n \in 1..Len(v) : g[n] = MergeElement(g[n - 1], v[n])
                 /\ merge(response, upcrs).cerV = g[Len(v)]
    BY <1>0, MergeElementsLoop
  <1> DEFINE Good(t, n) == /\ Speakers(t) /\ ReportsAll(t, response.cerV)
                           /\ \A k \in 1..n : \A id, name : Speaks(v[k], id, name) => Reports(t, id, name)
             S == {n \in Nat : Good(g[n], n)}
  <1>3. 0 \in S
    BY <1>1 DEF ReportsAll
  <1>4. ASSUME NEW n \in 1..Len(v), n - 1 \in S PROVE n \in S
    <2> DEFINE o == g[n - 1]
               t == MergeElement(o, v[n])
    <2>1. Good(o, n - 1) /\ n \in Nat
      BY <1>0, <1>4
    <2>2. g[n] = t
      BY <1>1
    <2>0. HasVector(v[n])
      BY <1>0 DEF Vectors
    <2> HIDE DEF v
    <2>3. /\ Speakers(t) /\ ReportsAll(t, o)
          /\ \A id, name : Speaks(v[n], id, name) => Reports(t, id, name)
      BY <2>0, <2>1, MergedElement
    <2> HIDE DEF o, t
    <2>4. ASSUME NEW k \in 1..n, NEW id, NEW name, Speaks(v[k], id, name) PROVE Reports(t, id, name)
      <3>1. k \in 1..(n - 1) \/ k = n
        BY <2>1
      <3> QED BY <2>1, <2>3, <2>4, <3>1 DEF ReportsAll
    <2>5. Good(t, n)
      BY <2>1, <2>3, <2>4 DEF ReportsAll
    <2> QED BY <2>1, <2>2, <2>5
  <1>5. Len(v) \in S
    <2> HIDE DEF S
    <2>1. S \in SUBSET Nat
      BY DEF S
    <2> QED BY <1>0, <1>3, <1>4, <2>1, LoopInduction
  <1>6. Good(g[Len(v)], Len(v))
    BY <1>5
  <1>7. ReportsAll(g[Len(v)], v)
    BY <1>0, <1>6 DEF ReportsAll, Reports
  <1> QED BY <1>1, <1>6, <1>7

\* A provider answers with an error, or reports all that it was asked to update,
\* if it was given the values.
LEMMA ProviderTells ==
  ASSUME NEW store, IsCollection(store), NEW elements, IsSeq(elements),
         \A i \in DOMAIN elements : ForProvider(elements[i])
  PROVE  LET r == ProviderUpdate(store, elements).answer
         IN  /\ Vectors(r.cerV) /\ (r.cerV = <<>> => r.code # "Ok")
             /\ (\A i \in DOMAIN elements : Valued(elements[i].attributes)) /\ r.cerV # <<>> =>
                  ReportsAll(r.cerV, elements)
  <1> DEFINE none == <<>>
             u == mongoUpdateContext(store, none, elements, "UPDATE", FALSE, {})
             v == foundAndNotFoundAttributeSeparation(u.cerV)
             s == UpdateContextResponse("Ok", v)
             bad == [s EXCEPT !.code = "ContextElementNotFound"]
             r == ProviderUpdate(store, elements).answer
  <1>1. r = Fixed(s)
    BY DEF ProviderUpdate
  <1>2. ElementsOK(elements)
    BY DEF ForProvider, Speaker, ElementsOK
  <1>3. DocsOK(none)
    BY NoDocs
  <1> HIDE DEF none
  <1>4. Vectors(v)
    BY <1>2, UpdateKeeps, SeparationVectors DEF Updated
  <1>5. ASSUME \A i \in DOMAIN elements : Valued(elements[i].attributes) PROVE ReportsAll(v, elements)
    <2>1. Plainly(elements)
      BY <1>5 DEF Plainly, ForProvider, isTrue
    <2>2. AllClear(u.cerV) /\ ReportsAll(u.cerV, elements)
      <3>1. AllClear(u.cerV) /\ \A id, name : Wanted(elements, {}, id, name) => Reports(u.cerV, id, name)
        BY <1>2, <1>3, <2>1, UpdateReported
      <3> HIDE DEF u
      <3> QED BY <3>1, AllWanted DEF ReportsAll
    <2> HIDE DEF u
    <2>3. ReportsAll(v, u.cerV)
      BY <2>2, SeparationReports
    <2> QED BY <2>2, <2>3 DEF ReportsAll
  <1> HIDE DEF u, v
  <1>6. /\ v = <<>> => s = [code |-> "ContextElementNotFound", cerV |-> <<>>]
        /\ v # <<>> => s = [code |-> "Ok", cerV |-> v]
    BY DEF UpdateContextResponse
  <1> HIDE DEF s
  <1>7. s.cerV = v /\ bad.cerV = v /\ bad.code = "ContextElementNotFound" /\ (v = <<>> => s.code # "Ok")
    BY <1>6
  <1> HIDE DEF bad, r
  <1>8. r = s \/ r = bad
    BY <1>1 DEF Fixed, bad
  <1>9. r.cerV = v /\ (v = <<>> => r.code # "Ok")
    BY <1>7, <1>8
  <1> QED BY <1>4, <1>5, <1>9 DEF r

-----------------------------------------------------------------------------
(* The inductive invariant of updates                                       *)

\* Request n of the job has not been answered, or not for the attributes.
Open(j, n) ==
  \/ n > j.ix \/ n > cprForwardLimit
  \/ \E i \in DOMAIN j.requestV[n].elements : ~Valued(j.requestV[n].elements[i].attributes)

AllReported(j) ==
  j.code = "Ok" =>
    \A id, name : Wanted(j.req.elements, j.faults, id, name) =>
      \/ Reports(j.cerV, id, name)
      \/ \E n \in DOMAIN j.requestV : Reports(j.requestV[n].elements, id, name) /\ Open(j, n)

\* An attribute is in the answer so far, or in a request that is still open.
ReportsOK(j) ==
  j.req.kind = "update" /\ j.req.action # "DELETE" =>
    /\ j.pc = "forward" => Speakers(j.cerV) /\ ForwardRequests(j.requestV) /\ AllReported(j)
    /\ j.pc = "done" => /\ AllReported(j) /\ IsSeq(j.requestV) /\ j.ix \in Nat
                        /\ j.ix >= Len(j.requestV) \/ j.ix >= cprForwardLimit

ReportsInv == StoreWithoutIds(stores[Self]) /\ \A c \in Clients : ReportsOK(job[c])

\* The updates that mongoUpdateContext goes through to the end, if there are no
\* faults: one with a pattern is not implemented, one with an empty value is refused at its first
\* such attribute, and an APPEND that mixes attributes with and without ID stops.
PlainUpdates ==
  /\ \A c \in Clients : \A req \in Updates[c] :
       /\ req.action \in {"UPDATE", "APPEND", "DELETE"}
       /\ req.action # "DELETE" => Plainly(req.elements)
       /\ req.action = "APPEND" => \A i \in DOMAIN req.elements : NoIds(req.elements[i].attributes)
  /\ StoreWithoutIds(InitialStores[Self])

LEMMA SameReports ==
  ASSUME NEW x, NEW y, ReportsOK(x), y.pc = x.pc, y.req = x.req, y.cerV = x.cerV, y.code = x.code,
         y.requestV = x.requestV, y.ix = x.ix, y.faults = x.faults
  PROVE  ReportsOK(y)
  <1>1. AllReported(x) => AllReported(y)
    BY DEF AllReported, Open
  <1> QED BY <1>1 DEF ReportsOK

LEMMA WatchedReports ==
  ASSUME NEW x, NEW st, DOMAIN x = JobFields, ReportsOK(x)
  PROVE  ReportsOK(Watched(x, st))
  <1> DEFINE K == x.seen \union Facts(st)
             kept == x.kept \intersect Facts(st)
             y == [x EXCEPT !.seen = K, !.kept = kept]
  <1>1. Watched(x, st) = x \/ Watched(x, st) = y
    BY DEF Watched
  <1> HIDE DEF K, kept
  <1>2. /\ y.pc = x.pc /\ y.req = x.req /\ y.cerV = x.cerV /\ y.code = x.code
        /\ y.requestV = x.requestV /\ y.ix = x.ix /\ y.faults = x.faults
    BY DEF JobFields
  <1> HIDE DEF y
  <1>3. ReportsOK(y)
    BY <1>2, SameReports
  <1> QED BY <1>1, <1>3

LEMMA BecomesReports ==
  ASSUME JobsOK, \A k \in Clients : ReportsOK(job[k]), NEW c \in Clients, NEW j, DOMAIN j = JobFields,
         ReportsOK(j), NEW st, job' = Becomes(c, j, st)
  PROVE  \A k \in Clients : ReportsOK(job'[k])
  <1>1. job' = [k \in Clients |-> IF k = c THEN Watched(j, st) ELSE Watched(job[k], st)]
    BY DEF Becomes, Watched, Resting
  <1>2. ASSUME NEW k \in Clients PROVE ReportsOK(Watched(job[k], st))
    <2>1. DOMAIN job[k] = JobFields
      BY DEF JobsOK, JobOK, JobWith
    <2> QED BY <2>1, WatchedReports
  <1>3. ReportsOK(Watched(j, st))
    BY WatchedReports
  <1> QED BY <1>1, <1>2, <1>3

LEMMA PostUpdateReports ==
  ASSUME PlainUpdates, ForwardingInv, ReportsInv, NEW c \in Clients, NEW req \in Updates[c],
         NEW faults, postUpdateContext(c, req, faults)
  PROVE  ReportsInv'
  <1> DEFINE u == mongoUpdateContext(stores[Self], regs, req.elements, req.action, FALSE, faults)
             cerV == foundAndNotFoundAttributeSeparation(u.cerV)
             split == SplitUpdate(req.elements, cerV)
             new == [Idle EXCEPT !.req = req, !.faults = faults,
                                 !.written = Effect(Self, u.store, req.elements)]
             fwd == [new EXCEPT !.pc = "forward", !.cerV = split.cerV, !.requestV = split.requestV]
             v == UpdateContextResponse("Ok", cerV).cerV
             code == UpdateContextResponse("Ok", cerV).code
             end == [new EXCEPT !.pc = "done", !.cerV = v, !.code = code]
             j == IF updateForwardsPending(cerV) THEN fwd ELSE end
  <1>1. /\ stores' = [stores EXCEPT ![Self] = u.store] /\ job' = Becomes(c, j, stores')
    BY DEF postUpdateContext
  <1>2. StoresOK /\ regs \in RegistrationSets /\ JobsOK
    BY InvParts
  <1>3. Self \in Nodes /\ Self \in DOMAIN stores /\ IsCollection(stores[Self]) /\ DocsOK(regs)
    BY <1>2, RegistrationDocs DEF StoresOK, Nodes
  <1>4. ElementsOK(req.elements) /\ req.kind = "update"
    BY RequestsAssumption DEF ElementsOK
  <1>5. /\ req.action \in {"UPDATE", "APPEND", "DELETE"}
        /\ req.action # "DELETE" => Plainly(req.elements)
        /\ req.action = "APPEND" => \A i \in DOMAIN req.elements : NoIds(req.elements[i].attributes)
    BY DEF PlainUpdates
  <1>6. StoreWithoutIds(u.store)
    BY <1>3, <1>4, <1>5, UpdateWithoutIds DEF ReportsInv
  <1>7. ASSUME req.action # "DELETE" 
        PROVE  AllClear(cerV) /\ \A id, name : Wanted(req.elements, faults, id, name) => Reports(cerV, id, name)
    <2>1. AllClear(u.cerV) /\ \A id, name : Wanted(req.elements, faults, id, name) => Reports(u.cerV, id, name)
      BY <1>3, <1>4, <1>5, <1>7, UpdateReported DEF ReportsInv
    <2> HIDE DEF u
    <2>2. AllClear(cerV) /\ ReportsAll(cerV, u.cerV)
      BY <2>1, SeparationReports
    <2> HIDE DEF cerV
    <2> QED BY <2>1, <2>2 DEF ReportsAll
  <1> HIDE DEF u, cerV
  <1>8. ASSUME req.action # "DELETE"
        PROVE  Halves(split) /\ \A id, name : Reports(cerV, id, name) => InHalf(split, id, name)
    BY <1>7, <1>8, AllInHalves
  <1> HIDE DEF split
  <1>9. /\ DOMAIN new = JobFields /\ new.req = req /\ new.ix = 0 /\ new.requestV = <<>> /\ new.code = "Ok"
        /\ new.faults = faults
    <2> DEFINE w == Effect(Self, u.store, req.elements)
    <2> HIDE DEF w
    <2>1. new = [Idle EXCEPT !.req = req, !.faults = faults, !.written = w]
      BY DEF w
    <2> HIDE DEF new
    <2> QED BY <2>1 DEF Idle, JobFields
  <1> HIDE DEF new
  <1>10. DOMAIN fwd = JobFields /\ ReportsOK(fwd)
    <2>1. /\ DOMAIN fwd = JobFields /\ fwd.pc = "forward" /\ fwd.req = req /\ fwd.ix = 0
          /\ fwd.requestV = split.requestV /\ fwd.cerV = split.cerV /\ fwd.faults = faults
      BY <1>9 DEF JobFields
    <2> HIDE DEF fwd
    <2>2. ASSUME req.action # "DELETE"
          PROVE  Speakers(split.cerV) /\ ForwardRequests(split.requestV) /\ AllReported(fwd)
      <3>1. Speakers(split.cerV) /\ ForwardRequests(split.requestV)
        BY <1>8, <2>2 DEF Halves
      <3>2. DOMAIN split.requestV \subseteq Nat \ {0}
        BY <3>1, SeqDomain DEF ForwardRequests
      <3>3. \A n \in DOMAIN fwd.requestV : Open(fwd, n)
        BY <2>1, <3>2 DEF Open
      <3>4. \A id, name : Wanted(req.elements, faults, id, name) => InHalf(split, id, name)
        BY <1>7, <1>8, <2>2
      <3>5. AllReported(fwd)
        BY <2>1, <3>3, <3>4 DEF AllReported, InHalf, Requested
      <3> QED BY <3>1, <3>5
    <2> QED BY <2>1, <2>2 DEF ReportsOK
  <1>11. DOMAIN end = JobFields /\ ReportsOK(end)
    <2>0. (code = "Ok" => v = cerV)
      BY DEF UpdateContextResponse
    <2> HIDE DEF v, code
    <2>1. /\ DOMAIN end = JobFields /\ end.pc = "done" /\ end.req = req /\ end.ix = 0
          /\ end.requestV = <<>> /\ end.cerV = v /\ end.code = code /\ end.faults = faults
      BY <1>9 DEF JobFields
    <2> HIDE DEF end
    <2>2. ASSUME req.action # "DELETE" PROVE AllReported(end)
      BY <1>7, <2>0, <2>1, <2>2 DEF AllReported
    <2>3. IsSeq(<<>>) /\ Len(<<>>) = 0
      BY SmallSeqs
    <2> QED BY <2>1, <2>2, <2>3 DEF ReportsOK
  <1> HIDE DEF fwd, end
  <1>12. DOMAIN j = JobFields /\ ReportsOK(j)
    BY <1>10, <1>11
  <1> HIDE DEF j
  <1>13. \A k \in Clients : ReportsOK(job'[k])
    BY <1>1, <1>2, <1>12, BecomesReports DEF ReportsInv
  <1>14. StoreWithoutIds(stores'[Self])
    BY <1>1, <1>3, <1>6
  <1> QED BY <1>13, <1>14 DEF ReportsInv

\* The steps of queries, which are no updates.
LEMMA QueryReports ==
  ASSUME ForwardingInv, ReportsInv, stores' = stores, NEW c \in Clients, NEW j, DOMAIN j = JobFields,
         j.req.kind # "update", job' = Becomes(c, j, stores)
  PROVE  ReportsInv'
  <1>1. JobsOK /\ \A k \in Clients : ReportsOK(job[k])
    BY InvParts DEF ReportsInv
  <1>2. ReportsOK(j)
    BY DEF ReportsOK
  <1>3. \A k \in Clients : ReportsOK(job'[k])
    BY <1>1, <1>2, BecomesReports
  <1> QED BY <1>3 DEF ReportsInv

LEMMA PostQueryReports ==
  ASSUME ForwardingInv, ReportsInv, NEW c \in Clients, NEW req \in Queries[c], postQueryContext(c, req)
  PROVE  ReportsInv'
  <1> DEFINE cerV == entitiesQuery(stores[Self], req.enV, req.attrL, Nothing)
             Held(cer) == {<<Self, cer.id, cer.type, a.name, a.value>> :
                             a \in {x \in Range(cer.attributes) : x.found}}
             held == UNION {Held(cer) : cer \in Range(cerV)}
             kept == Facts(stores)
             j == [Idle EXCEPT !.pc = "lookup", !.ix = 1, !.req = req, !.cerV = cerV, !.held = held,
                               !.kept = kept]
  <1>1. job' = Becomes(c, j, stores) /\ stores' = stores
    BY Zenon DEF postQueryContext
  <1>2. req.kind = "query"
    BY RequestsAssumption
  <1> HIDE DEF cerV, held, kept
  <1>3. DOMAIN j = JobFields /\ j.req = req
    BY DEF Idle, JobFields
  <1> HIDE DEF j
  <1> QED BY <1>1, <1>2, <1>3, QueryReports

LEMMA LookUpReports ==
  ASSUME ForwardingInv, ReportsInv, NEW c \in Clients, LookUp(c)
  PROVE  ReportsInv'
  <1> DEFINE j == job[c]
             cerV == Lookup(j.ix, j.cerV, regs, j.req.enV, j.req.attrL)
             pruned == pruneContextElements(cerV)
             split == SplitQuery(j.req.attrL, pruned)
             local == IF split.cerV = <<>> THEN <<>> ELSE <<[code |-> "Ok", cerV |-> split.cerV]>>
             code == IF pruned = <<>> THEN Failed.code ELSE "Ok"
             on == [j EXCEPT !.cerV = cerV, !.ix = @ + 1]
             fwd == [j EXCEPT !.pc = "forward", !.ix = 0, !.cerV = <<>>, !.requestV = split.requestV,
                              !.responseV = local]
             end == [j EXCEPT !.pc = "done", !.cerV = pruned, !.code = code]
  <1>1. /\ j.pc = "lookup" /\ stores' = stores
        /\ \E new \in {on, fwd, end} : job' = Becomes(c, new, stores)
    BY DEF LookUp
  <1>2. DOMAIN j = JobFields /\ j.req.kind = "query"
    BY <1>1 DEF ForwardingInv, JobOK, JobWith, LookupOK
  <1> HIDE DEF cerV, pruned, split, local, code, j
  <1>3. \A new \in {on, fwd, end} : DOMAIN new = JobFields /\ new.req = j.req
    BY <1>2 DEF JobFields
  <1> HIDE DEF on, fwd, end
  <1> QED BY <1>1, <1>2, <1>3, QueryReports

LEMMA QueryForwardReports ==
  ASSUME ForwardingInv, ReportsInv, NEW c \in Clients, NEW outcome, queryForward(c, outcome)
  PROVE  ReportsInv'
  <1> DEFINE j == job[c]
             request == j.requestV[j.ix + 1]
             p == request.contextProvider
             answer == IF outcome = "answered" THEN ProviderQuery(stores[p], request.enV, request.attrL)
                       ELSE Failed
             steady == (j.steady /\ outcome = "answered")
             more == Append(j.responseV, answer)
             new == [j EXCEPT !.ix = j.ix + 1, !.responseV = more, !.steady = steady]
  <1>1. j.req.kind = "query" /\ stores' = stores /\ job' = Becomes(c, new, stores)
    BY DEF queryForward
  <1>2. DOMAIN j = JobFields
    BY DEF ForwardingInv, JobOK, JobWith
  <1> HIDE DEF j, more, steady
  <1>3. DOMAIN new = JobFields /\ new.req = j.req
    BY <1>2 DEF JobFields
  <1> HIDE DEF new
  <1> QED BY <1>1, <1>3, QueryReports

LEMMA UpdateForwardReports ==
  ASSUME ForwardingInv, ReportsInv, NEW c \in Clients, NEW outcome, updateForward(c, outcome)
  PROVE  ReportsInv'
  <1> DEFINE j == job[c]
             request == j.requestV[j.ix + 1]
             p == request.contextProvider
             done == ProviderUpdate(stores[p], request.elements)
             st == IF outcome = "lost" THEN stores ELSE [stores EXCEPT ![p] = done.store]
             reply == IF outcome = "answered" THEN done.answer ELSE Failed
             soFar == [code |-> j.code, cerV |-> j.cerV]
             merged == merge(soFar, reply)
             w == IF outcome = "lost" THEN j.written
                  ELSE j.written \cup Effect(p, st[p], request.elements)
             code == merged.code
             cerV == merged.cerV
             new == [j EXCEPT !.ix = j.ix + 1, !.code = code, !.cerV = cerV, !.written = w]
  <1>1. /\ Pending(c) /\ j.req.kind = "update" /\ stores' = st /\ job' = Becomes(c, new, st)
    BY DEF updateForward
  <1>2. StoresOK /\ JobsOK
    BY InvParts
  <1>3. j.pc = "forward" /\ ForwardOK(j, j.seen) /\ DOMAIN j = JobFields /\ ReportsOK(j)
    BY <1>1, <1>2 DEF JobsOK, JobOK, JobWith, Pending, ReportsInv
  <1>4. UpdateRequestsOK(j.requestV)
    BY <1>1, <1>3 DEF ForwardOK
  <1>5. j.ix + 1 \in DOMAIN j.requestV /\ j.ix \in Nat
    BY <1>1, <1>3, <1>4, PendingRequest DEF UpdateRequestsOK
  <1>6. Vectors(request.elements)
    BY <1>4, <1>5 DEF UpdateRequestsOK, UpdateRequestOK
  <1>7. StoreWithoutIds(stores'[Self])
    <2>1. CASE outcome = "lost" \/ p # Self
      <3>1. st[Self] = stores[Self]
        <4> HIDE DEF done, p
        <4> QED BY <2>1
      <3> QED BY <1>1, <3>1 DEF ReportsInv
    <2>2. CASE outcome # "lost" /\ p = Self
      <3> DEFINE none == <<>>
                 u == mongoUpdateContext(stores[p], none, request.elements, "UPDATE", FALSE, {})
      <3>1. Self \in DOMAIN stores /\ IsCollection(stores[Self])
        BY <1>2 DEF StoresOK, Nodes
      <3>2. done.store = u.store
        BY DEF ProviderUpdate
      <3>3. ElementsOK(request.elements)
        BY <1>6 DEF Vectors, HasVector, ElementsOK
      <3> HIDE DEF none
      <3>4. StoreWithoutIds(u.store)
        BY <2>2, <3>1, <3>3, UpdateWithoutIds DEF ReportsInv
      <3> HIDE DEF u, done, p
      <3>5. st[Self] = done.store
        BY <2>2, <3>1
      <3> QED BY <1>1, <3>2, <3>4, <3>5
    <2> QED BY <2>1, <2>2
  <1>8. ASSUME j.req.action # "DELETE"
        PROVE  Speakers(j.cerV) /\ ForwardRequests(j.requestV) /\ AllReported(j)
    BY <1>1, <1>3, <1>8 DEF ReportsOK
  <1>9. ASSUME j.req.action # "DELETE"
        PROVE  /\ Vectors(reply.cerV) /\ (reply.cerV = <<>> => reply.code # "Ok")
               /\ (\A i \in DOMAIN request.elements : Valued(request.elements[i].attributes))
                  /\ reply.cerV # <<>> => ReportsAll(reply.cerV, request.elements)
    <2>1. CASE outcome = "answered"
      <3>1. ForwardRequest(request)
        BY <1>5, <1>8, <1>9 DEF ForwardRequests
      <3>2. IsCollection(stores[p])
        BY <1>2, <3>1 DEF StoresOK, Nodes, ForwardRequest
      <3>3. IsSeq(request.elements) /\ \A i \in DOMAIN request.elements : ForProvider(request.elements[i])
        BY <3>1 DEF ForwardRequest
      <3>4. reply = done.answer
        BY <2>1
      <3> HIDE DEF reply, p, request
      <3> QED BY <3>2, <3>3, <3>4, ProviderTells
    <2>2. CASE outcome # "answered"
      <3>1. reply = Failed
        BY <2>2
      <3> HIDE DEF reply
      <3>2. reply.cerV = <<>> /\ reply.code = "ContextElementNotFound"
        BY <3>1 DEF Failed
      <3> QED BY <3>2, SmallSeqs DEF Vectors
    <2> QED BY <2>1, <2>2
  <1> HIDE DEF reply, st, done, p
  <1>10. ASSUME j.req.action # "DELETE"
         PROVE  Speakers(cerV) /\ ReportsAll(cerV, j.cerV) /\ ReportsAll(cerV, reply.cerV)
    <2>1. soFar.cerV = j.cerV
      OBVIOUS
    <2> HIDE DEF soFar
    <2> QED BY <1>8, <1>9, <1>10, <2>1, Merged
  <1>11. code = "Ok" => j.code = "Ok" /\ (reply.cerV = <<>> => reply.code = "Ok")
    BY DEF merge
  <1> HIDE DEF w, code, cerV, j, merged, soFar
  <1>12. /\ DOMAIN new = JobFields /\ new.pc = j.pc /\ new.ix = j.ix + 1 /\ new.req = j.req
         /\ new.requestV = j.requestV /\ new.cerV = cerV /\ new.code = code /\ new.faults = j.faults
    BY <1>3 DEF JobFields
  <1> HIDE DEF new
  <1>13. ASSUME j.req.action # "DELETE" PROVE AllReported(new)
    <2> SUFFICES ASSUME new.code = "Ok", NEW id, NEW name, Wanted(new.req.elements, new.faults, id, name)
                 PROVE  \/ Reports(new.cerV, id, name)
                        \/ \E n \in DOMAIN new.requestV :
                             Reports(new.requestV[n].elements, id, name) /\ Open(new, n)
      BY DEF AllReported
    <2>1. j.code = "Ok" /\ reply.cerV # <<>>
      BY <1>9, <1>11, <1>12, <1>13
    <2>2. \/ Reports(j.cerV, id, name)
          \/ \E n \in DOMAIN j.requestV : Reports(j.requestV[n].elements, id, name) /\ Open(j, n)
      BY <1>8, <1>12, <1>13, <2>1 DEF AllReported
    <2>3. CASE Reports(j.cerV, id, name)
      BY <1>10, <1>12, <1>13, <2>3 DEF ReportsAll
    <2>4. ASSUME NEW n \in DOMAIN j.requestV, Reports(j.requestV[n].elements, id, name), Open(j, n)
          PROVE  \/ Reports(new.cerV, id, name)
                 \/ \E m \in DOMAIN new.requestV :
                      Reports(new.requestV[m].elements, id, name) /\ Open(new, m)
      <3>1. n \in Nat
        BY <1>4, SeqDomain DEF UpdateRequestsOK
      <3>2. CASE Open(new, n)
        BY <1>12, <2>4, <3>2
      <3>3. CASE ~Open(new, n)
        <4>1. n = j.ix + 1 /\ \A i \in DOMAIN j.requestV[n].elements : Valued(j.requestV[n].elements[i].attributes)
          BY <1>5, <1>12, <2>4, <3>1, <3>3 DEF Open
        <4>2. request = j.requestV[n]
          BY <4>1
        <4>3. ReportsAll(reply.cerV, j.requestV[n].elements)
          BY <1>9, <1>13, <2>1, <4>1, <4>2
        <4> QED BY <1>10, <1>12, <1>13, <2>4, <4>3 DEF ReportsAll
      <3> QED BY <3>2, <3>3
    <2> QED BY <2>2, <2>3, <2>4
  <1>14. ReportsOK(new)
    BY <1>3, <1>8, <1>10, <1>12, <1>13 DEF ReportsOK
  <1>15. \A k \in Clients : ReportsOK(job'[k])
    BY <1>1, <1>2, <1>12, <1>14, BecomesReports DEF ReportsInv
  <1> QED BY <1>7, <1>15 DEF ReportsInv

LEMMA AnsweredReports ==
  ASSUME ForwardingInv, ReportsInv, NEW c \in Clients, Answered(c)
  PROVE  ReportsInv'
  <1> DEFINE j == job[c]
             answer == IF j.req.kind = "update" THEN UpdateContextResponse(j.code, j.cerV)
                       ELSE populate(j.responseV)
             code == answer.code
             cerV == answer.cerV
             new == [j EXCEPT !.pc = "done", !.code = code, !.cerV = cerV]
  <1>1. /\ j.pc = "forward" /\ ~Pending(c) /\ job' = Becomes(c, new, stores) /\ stores' = stores
    BY DEF Answered
  <1>2. JobsOK /\ \A k \in Clients : ReportsOK(job[k])
    BY InvParts DEF ReportsInv
  <1>3. ForwardOK(j, j.seen) /\ DOMAIN j = JobFields /\ ReportsOK(j)
    BY <1>1, <1>2 DEF JobsOK, JobOK, JobWith
  <1>4. ~(j.ix < Len(j.requestV) /\ j.ix < cprForwardLimit)
    BY <1>1 DEF Pending
  <1>5. ASSUME j.req.kind = "update" PROVE code = "Ok" => j.code = "Ok" /\ cerV = j.cerV
    BY <1>5 DEF UpdateContextResponse
  <1> HIDE DEF code, cerV, j
  <1>6. /\ DOMAIN new = JobFields /\ new.pc = "done" /\ new.req = j.req /\ new.cerV = cerV
        /\ new.code = code /\ new.requestV = j.requestV /\ new.ix = j.ix /\ new.faults = j.faults
    BY <1>3 DEF JobFields
  <1> HIDE DEF new
  <1>7. ASSUME j.req.kind = "update", j.req.action # "DELETE"
        PROVE  /\ AllReported(new) /\ IsSeq(new.requestV) /\ new.ix \in Nat
               /\ new.ix >= Len(new.requestV) \/ new.ix >= cprForwardLimit
    <2>1. AllReported(j) /\ ForwardRequests(j.requestV) /\ j.ix \in Nat
      BY <1>1, <1>3, <1>7 DEF ReportsOK, ForwardOK
    <2>2. IsSeq(j.requestV) /\ Len(j.requestV) \in Nat
      BY <2>1, SeqDomain DEF ForwardRequests
    <2>3. j.ix >= Len(j.requestV) \/ j.ix >= cprForwardLimit
      BY <1>4, <2>1, <2>2, LimitAssumption
    <2>4. AllReported(new)
      BY <1>5, <1>6, <1>7, <2>1 DEF AllReported, Open
    <2> QED BY <1>6, <2>1, <2>2, <2>3, <2>4
  <1>8. ReportsOK(new)
    BY <1>6, <1>7 DEF ReportsOK
  <1>9. \A k \in Clients : ReportsOK(job'[k])
    BY <1>1, <1>2, <1>6, <1>8, BecomesReports
  <1> QED BY <1>1, <1>9 DEF ReportsInv

LEMMA RestReports ==
  ASSUME ForwardingInv, ReportsInv,
         \/ \E c \in Clients : Leave(c)
         \/ \E new \in RegistrationSets : Reregister(new)
         \/ UNCHANGED vars
  PROVE  ReportsInv'
  <1>1. ASSUME NEW c \in Clients, Leave(c) PROVE ReportsInv'
    <2>1. ReportsOK(Idle)
      BY DEF ReportsOK, Idle, NoRequest
    <2>2. job' = [job EXCEPT ![c] = Idle] /\ stores' = stores /\ DOMAIN job = Clients
      BY <1>1 DEF Leave, ForwardingInv
    <2> QED BY <2>1, <2>2 DEF ReportsInv
  <1>2. ASSUME NEW new \in RegistrationSets, Reregister(new) PROVE ReportsInv'
    <2> DEFINE After(x) == [x EXCEPT !.steady = (x.pc = "idle")]
    <2>1. job' = [c \in Clients |-> After(job[c])] /\ stores' = stores
      BY <1>2 DEF Reregister
    <2>2. ASSUME NEW c \in Clients PROVE ReportsOK(After(job[c]))
      <3> DEFINE x == job[c]
                 b == (x.pc = "idle")
                 y == [x EXCEPT !.steady = b]
      <3>1. DOMAIN x = JobFields /\ ReportsOK(x) /\ After(x) = y
        BY DEF ForwardingInv, JobOK, JobWith, ReportsInv
      <3> HIDE DEF x, b, After
      <3>2. /\ y.pc = x.pc /\ y.req = x.req /\ y.cerV = x.cerV /\ y.code = x.code
            /\ y.requestV = x.requestV /\ y.ix = x.ix /\ y.faults = x.faults
        BY <3>1 DEF JobFields
      <3> HIDE DEF y
      <3>3. ReportsOK(y)
        BY <3>1, <3>2, SameReports
      <3> QED BY <3>1, <3>3 DEF x
    <2> HIDE DEF After
    <2> QED BY <2>1, <2>2 DEF ReportsInv
  <1>3. ASSUME UNCHANGED vars PROVE ReportsInv'
    BY <1>3 DEF ReportsInv, vars
  <1> QED BY <1>1, <1>2, <1>3

LEMMA ReportsInit == ASSUME PlainUpdates PROVE Init => ReportsInv
  <1>1. ReportsOK(Idle)
    BY DEF ReportsOK, Idle, NoRequest
  <1> QED BY <1>1 DEF Init, ReportsInv, PlainUpdates

LEMMA ReportsStep ==
  ASSUME PlainUpdates, ForwardingInv, ReportsInv, [Next]_vars
  PROVE  ReportsInv'
  <1>1. ASSUME NEW c \in Clients, NEW req \in Updates[c], NEW faults, postUpdateContext(c, req, faults)
        PROVE  ReportsInv'
    BY <1>1, PostUpdateReports
  <1>2. ASSUME NEW c \in Clients, NEW req \in Queries[c], postQueryContext(c, req)
        PROVE  ReportsInv'
    BY <1>2, PostQueryReports
  <1>3. ASSUME NEW c \in Clients, Serve(c) PROVE ReportsInv'
    BY <1>3, LookUpReports, UpdateForwardReports, QueryForwardReports, AnsweredReports DEF Serve
  <1> QED BY <1>1, <1>2, <1>3, RestReports DEF Next

LEMMA InvNothingForgotten == ForwardingInv /\ ReportsInv => NothingForgotten
  <1> DEFINE Named(elements, id, name) ==
               \E i \in DOMAIN elements :
                 /\ elements[i].id = id
                 /\ \E k \in DOMAIN elements[i].attributes : elements[i].attributes[k].name = name
             Unsaid(j, id, name) ==
               \E n \in DOMAIN j.requestV :
                 /\ Named(j.requestV[n].elements, id, name)
                 /\ \/ n > cprForwardLimit
                    \/ \E i \in DOMAIN j.requestV[n].elements :
                         \E k \in DOMAIN j.requestV[n].elements[i].attributes :
                           j.requestV[n].elements[i].attributes[k].value = Nothing
  <1>1. \A elements, id, name : Named(elements, id, name) <=> Reports(elements, id, name)
    BY DEF Reports, Speaks, NamedIn
  <1>2. ASSUME ForwardingInv, ReportsInv, NEW c \in Clients, DoneUpdate(c), job[c].code = "Ok",
               NEW i \in DOMAIN job[c].req.elements,
               NEW k \in DOMAIN job[c].req.elements[i].attributes
        PROVE  LET id == job[c].req.elements[i].id
                   name == job[c].req.elements[i].attributes[k].name
               IN  \/ Named(job[c].cerV, id, name) \/ Unsaid(job[c], id, name)
                   \/ Skipped(id, job[c].req.elements[i].attributes, k, job[c].faults)
    <2> DEFINE j == job[c]
               id == j.req.elements[i].id
               name == j.req.elements[i].attributes[k].name
    <2>1. \/ Wanted(j.req.elements, j.faults, id, name)
          \/ Skipped(id, j.req.elements[i].attributes, k, j.faults)
      BY <1>2 DEF Wanted, Wants
    <2>2. /\ AllReported(j) /\ IsSeq(j.requestV) /\ j.ix \in Nat
          /\ j.ix >= Len(j.requestV) \/ j.ix >= cprForwardLimit
      BY <1>2 DEF ReportsInv, ReportsOK, DoneUpdate
    <2> HIDE DEF id, name, Named
    <2>3. \/ Skipped(id, j.req.elements[i].attributes, k, j.faults)
          \/ Reports(j.cerV, id, name)
          \/ \E n \in DOMAIN j.requestV : Reports(j.requestV[n].elements, id, name) /\ Open(j, n)
      BY <1>2, <2>1, <2>2 DEF AllReported
    <2>4. ASSUME NEW n \in DOMAIN j.requestV, Reports(j.requestV[n].elements, id, name), Open(j, n)
          PROVE  Unsaid(j, id, name)
      <3>1. n \in 1..Len(j.requestV) /\ Len(j.requestV) \in Nat
        BY <2>2, SeqDomain
      <3>2. \/ n > cprForwardLimit
            \/ \E m \in DOMAIN j.requestV[n].elements : ~Valued(j.requestV[n].elements[m].attributes)
        BY <2>2, <2>4, <3>1, LimitAssumption DEF Open
      <3> QED BY <1>1, <2>4, <3>2 DEF Valued
    <2> QED BY <1>1, <2>3, <2>4 DEF id, name
  <1> HIDE DEF Named, Unsaid
  <1>3. SUFFICES ASSUME ForwardingInv, ReportsInv PROVE NothingForgotten
    OBVIOUS
  <1> QED BY <1>2, <1>3, Zenon DEF NothingForgotten, Named, Unsaid

\* Every attribute of an UPDATE or APPEND is in its answer, found or not, however the
\* request is split between the local database and the providers, whatever
\* becomes of the forwards and of the registrations in between, whatever goes
\* wrong in the local database, and however the answers are merged
\* (mongoUpdateContext, postUpdateContext, merge). Excepted is what
\* NothingForgotten excepts. The updates are UPDATEs and APPENDs that
\* mongoUpdateContext goes through to the end when nothing goes wrong.
THEOREM ForwardingNothingForgotten == ASSUME PlainUpdates PROVE Spec => []NothingForgotten
  <1>1. Init => ForwardingInv /\ ReportsInv
    BY ForwardingInit, ReportsInit
  <1>2. ForwardingInv /\ ReportsInv /\ [Next]_vars => (ForwardingInv /\ ReportsInv)'
    BY ForwardingStep, ReportsStep
  <1> QED BY <1>1, <1>2, InvNothingForgotten, PTL DEF Spec

=============================================================================
