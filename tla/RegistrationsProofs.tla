------------------------ MODULE RegistrationsProofs ------------------------
(* Proofs about Registrations, for any number of request threads, any       *)
(* requests, registrations and subscriptions.                               *)
EXTENDS Registrations, ReqSemProofs, WellFoundedInduction

-----------------------------------------------------------------------------
(* Sequences                                                                *)

LEMMA Least == ASSUME NEW T \in SUBSET Nat, T # {} PROVE \E x \in T : \A y \in T : x <= y
  <1> DEFINE R == {ss \in Nat \X Nat : ss[1] < ss[2]}
  <1>1. IsWellFoundedOn(R, Nat)
    BY NatLessThanWellFounded DEF OpToRel
  <1> HIDE DEF R
  <1>2. \E x \in T : \A y \in T : ~ (<<y, x>> \in R)
    BY <1>1, WFMin
  <1>3. PICK x \in T : \A y \in T : ~ (<<y, x>> \in R)
    BY <1>2
  <1>4. ASSUME NEW y \in T PROVE x <= y
    <2>1. <<y, x>> \notin R
      BY <1>3
    <2>2. <<y, x>> \in Nat \X Nat
      OBVIOUS
    <2>3. ~(y < x)
      BY <2>1, <2>2 DEF R
    <2>4. y \in Nat /\ x \in Nat
      OBVIOUS
    <2> QED BY <2>3, <2>4
  <1> QED BY <1>4

LEMMA SetInduction ==
  ASSUME NEW S \in SUBSET Nat, 0 \in S, \A n \in S : n + 1 \in S
  PROVE  S = Nat
  <1>1. SUFFICES ASSUME Nat \ S # {} PROVE FALSE
    OBVIOUS
  <1>2. PICK x \in Nat \ S : \A y \in Nat \ S : x <= y
    BY <1>1, Least
  <1>3. x # 0 /\ x - 1 \in S
    BY <1>2
  <1> QED BY <1>2, <1>3

\* The recursive function of FlattenSeq, as far as one of the sequences.
Flattens(f, ss) ==
  f = [i \in 1..Len(ss) |-> IF i = 1 THEN ss[i] ELSE f[i - 1] \o ss[i]]

LEMMA FlattenFunction ==
  ASSUME NEW ss, Len(ss) \in Nat
  PROVE  \E f : Flattens(f, ss)
  <1> DEFINE Upto(f, n) == f = [i \in 1..n |-> IF i = 1 THEN ss[i] ELSE f[i - 1] \o ss[i]]
             S == {n \in Nat : \E f : Upto(f, n)}
  <1>1. 0 \in S
    <2>1. Upto([i \in 1..0 |-> 0], 0)
      OBVIOUS
    <2> QED BY <2>1
  <1>2. ASSUME NEW n \in S PROVE n + 1 \in S
    <2>1. PICK f : Upto(f, n)
      BY <1>2
    <2> DEFINE g == [i \in 1..(n + 1) |-> IF i = n + 1 THEN (IF i = 1 THEN ss[i] ELSE f[i - 1] \o ss[i])
                                          ELSE f[i]]
    <2>2. ASSUME NEW i \in 1..(n + 1)
          PROVE  g[i] = IF i = 1 THEN ss[i] ELSE g[i - 1] \o ss[i]
      <3>1. n \in Nat
        OBVIOUS
      <3>2. CASE i = n + 1
        <4>1. i # 1 => i - 1 \in 1..(n+1) /\ i - 1 # n + 1
          BY <3>1, <3>2
        <4>2. i # 1 => g[i-1] = f[i-1]
          BY <4>1
        <4> QED BY <3>2, <4>2
      <3>3. CASE i # n + 1
        <4>1. i \in 1..n
          BY <3>1, <3>3
        <4>2. f[i] = IF i = 1 THEN ss[i] ELSE f[i - 1] \o ss[i]
          BY <2>1, <4>1
        <4>3. i # 1 => i - 1 \in 1..(n+1) /\ i - 1 # n + 1
          BY <3>1, <4>1
        <4>4. i # 1 => g[i-1] = f[i-1]
          BY <4>3
        <4> QED BY <3>3, <4>2, <4>4
      <3> QED BY <3>2, <3>3
    <2>3. Upto(g, n + 1)
      <3>1. g = [i \in 1..(n + 1) |-> g[i]]
        OBVIOUS
      <3> HIDE DEF g
      <3> QED BY <2>2, <3>1
    <2> HIDE DEF g, Upto
    <2> QED BY <2>3
  <1> HIDE DEF Upto
  <1>3. S = Nat
    <2> DEFINE Q == S
    <2>1. Q \in SUBSET Nat /\ 0 \in Q /\ \A n \in Q : n + 1 \in Q
      BY <1>1, <1>2
    <2> HIDE DEF Q
    <2>2. Q = Nat
      BY <2>1, SetInduction
    <2> QED BY <2>2 DEF Q
  <1> QED BY <1>3 DEF Upto, Flattens

LEMMA FlattenUnfold ==
  ASSUME NEW ss, Len(ss) \in Nat \ {0}
  PROVE  \E f : Flattens(f, ss) /\ FlattenSeq(ss) = f[Len(ss)]
  <1>1. \E f : Flattens(f, ss)
    BY FlattenFunction
  <1>2. FlattenSeq(ss) = (CHOOSE f : Flattens(f, ss))[Len(ss)]
    BY Zenon DEF FlattenSeq, Flattens
  <1> QED BY <1>1, <1>2

LEMMA RangeConcat ==
  ASSUME NEW X, NEW s \in Seq(X), NEW t \in Seq(X)
  PROVE  s \o t \in Seq(X) /\ Range(s \o t) = Range(s) \union Range(t)
  <1>1. /\ s \o t \in Seq(X) /\ Len(s \o t) = Len(s) + Len(t)
        /\ \A i \in 1..(Len(s) + Len(t)) : (s \o t)[i] = IF i <= Len(s) THEN s[i] ELSE t[i - Len(s)]
        /\ DOMAIN s = 1..Len(s) /\ DOMAIN t = 1..Len(t) /\ Len(s) \in Nat /\ Len(t) \in Nat
    OBVIOUS
  <1>2. DOMAIN (s \o t) = 1..(Len(s) + Len(t))
    BY <1>1
  <1> DEFINE u == s \o t
  <1> HIDE DEF u
  <1>3. ASSUME NEW x \in Range(u) PROVE x \in Range(s) \union Range(t)
    <2>1. PICK i \in 1..(Len(s) + Len(t)) : x = u[i]
      BY <1>2, <1>3 DEF Range, u
    <2>2. CASE i <= Len(s)
      BY <1>1, <2>1, <2>2 DEF Range, u
    <2>3. CASE ~(i <= Len(s))
      <3>1. i - Len(s) \in 1..Len(t) /\ x = t[i - Len(s)]
        BY <1>1, <2>1, <2>3 DEF u
      <3> QED BY <1>1, <3>1 DEF Range
    <2> QED BY <2>2, <2>3
  <1>4. ASSUME NEW x \in Range(s) PROVE x \in Range(u)
    <2>1. PICK i \in 1..Len(s) : x = s[i]
      BY <1>1, <1>4 DEF Range
    <2>2. i \in 1..(Len(s) + Len(t)) /\ u[i] = x
      BY <1>1, <2>1 DEF u
    <2> QED BY <1>2, <2>2 DEF Range, u
  <1>5. ASSUME NEW x \in Range(t) PROVE x \in Range(u)
    <2>1. PICK i \in 1..Len(t) : x = t[i]
      BY <1>1, <1>5 DEF Range
    <2>2. i + Len(s) \in 1..(Len(s) + Len(t)) /\ ~(i + Len(s) <= Len(s)) /\ (i + Len(s)) - Len(s) = i
      BY <1>1, <2>1
    <2>3. u[i + Len(s)] = x
      BY <1>1, <2>1, <2>2 DEF u
    <2> QED BY <1>2, <2>2, <2>3 DEF Range, u
  <1>6. Range(u) = Range(s) \union Range(t)
    BY <1>3, <1>4, <1>5
  <1> QED BY <1>1, <1>6 DEF u

\* FlattenSeq: a sequence of all the elements of the sequences.
LEMMA FlattenElements ==
  ASSUME NEW X, NEW ss \in Seq(Seq(X))
  PROVE  /\ FlattenSeq(ss) \in Seq(X)
         /\ \A x : x \in Range(FlattenSeq(ss)) <=> \E i \in DOMAIN ss : x \in Range(ss[i])
  <1>1. CASE ss = <<>>
    BY <1>1 DEF FlattenSeq, Range
  <1>2. CASE ss # <<>>
    <2>1. Len(ss) \in Nat \ {0} /\ DOMAIN ss = 1..Len(ss)
      BY <1>2
    <2>2. PICK f : Flattens(f, ss) /\ FlattenSeq(ss) = f[Len(ss)]
      BY <2>1, FlattenUnfold
    <2> DEFINE P(n) == n \in 1..Len(ss) => /\ f[n] \in Seq(X)
                                          /\ \A x : x \in Range(f[n]) <=> \E i \in 1..n : x \in Range(ss[i])
               S == {n \in Nat : P(n)}
    <2>3. 0 \in S
      BY <2>1
    <2>4. ASSUME NEW n \in S PROVE n + 1 \in S
      <3>1. CASE n + 1 \notin 1..Len(ss)
        BY <3>1
      <3>2. CASE n + 1 = 1
        <4>1. f[1] = ss[1]
          BY <2>1, <2>2 DEF Flattens
        <4>2. 1..1 = {1}
          OBVIOUS
        <4>3. \A x : x \in Range(ss[1]) <=> \E i \in {1} : x \in Range(ss[i])
          OBVIOUS
        <4>4. P(1)
          BY <2>1, <4>1, <4>2, <4>3
        <4> QED BY <3>2, <4>4
      <3>3. CASE n + 1 # 1 /\ n + 1 \in 1..Len(ss)
        <4>1. n \in 1..Len(ss) /\ n \in Nat
          BY <3>3
        <4>2. f[n + 1] = f[n] \o ss[n + 1]
          <5>1. f[n + 1] = IF n + 1 = 1 THEN ss[n + 1] ELSE f[(n + 1) - 1] \o ss[n + 1]
            BY <2>2, <3>3 DEF Flattens
          <5>2. (n + 1) - 1 = n
            BY <4>1
          <5> QED BY <3>3, <5>1, <5>2
        <4>3. f[n] \in Seq(X) /\ \A x : x \in Range(f[n]) <=> \E i \in 1..n : x \in Range(ss[i])
          BY <2>4, <4>1
        <4>4. ss[n + 1] \in Seq(X)
          BY <2>1, <3>3
        <4>5. f[n + 1] \in Seq(X) /\ Range(f[n + 1]) = Range(f[n]) \union Range(ss[n + 1])
          BY <4>2, <4>3, <4>4, RangeConcat
        <4>6. 1..(n + 1) = 1..n \union {n + 1}
          BY <4>1
        <4>7. \A x : x \in Range(f[n + 1]) <=> \E i \in 1..n \union {n + 1} : x \in Range(ss[i])
          <5> HIDE DEF S, P
          <5> QED BY <4>3, <4>5
        <4>8. P(n + 1)
          BY <4>5, <4>6, <4>7
        <4>9. n + 1 \in Nat
          BY <4>1
        <4> QED BY <4>8, <4>9
      <3> QED BY <3>1, <3>2, <3>3
    <2> HIDE DEF P
    <2>5. Len(ss) \in S
      <3> DEFINE Q == S
      <3>1. Q \in SUBSET Nat /\ 0 \in Q /\ \A n \in Q : n + 1 \in Q
        BY <2>3, <2>4
      <3> HIDE DEF Q
      <3>2. Q = Nat
        BY <3>1, SetInduction
      <3> QED BY <2>1, <3>2 DEF Q
    <2>6. P(Len(ss)) /\ Len(ss) \in 1..Len(ss)
      BY <2>1, <2>5
    <2> HIDE DEF S
    <2>7. /\ f[Len(ss)] \in Seq(X)
          /\ \A x : x \in Range(f[Len(ss)]) <=> \E i \in 1..Len(ss) : x \in Range(ss[i])
      BY <2>6, Zenon DEF P
    <2> QED BY <2>1, <2>2, <2>7
  <1> QED BY <1>1, <1>2

LEMMA SeqWiden ==
  ASSUME NEW X, NEW Y, X \subseteq Y, NEW s \in Seq(X)
  PROVE  s \in Seq(Y)
  OBVIOUS

LEMMA SeqOwnRange ==
  ASSUME NEW X, NEW s \in Seq(X)
  PROVE  s \in Seq(Range(s))
  <1>1. /\ Len(s) \in Nat /\ s = [i \in 1..Len(s) |-> s[i]] /\ DOMAIN s = 1..Len(s)
    OBVIOUS
  <1>2. s \in [1..Len(s) -> Range(s)]
    BY <1>1 DEF Range
  <1> QED BY <1>1, <1>2

LEMMA FlattenSeqs ==
  ASSUME NEW n \in Nat, NEW ss, ss = [i \in 1..n |-> ss[i]], \A i \in 1..n : IsSeq(ss[i])
  PROVE  /\ IsSeq(FlattenSeq(ss))
         /\ \A x : x \in Range(FlattenSeq(ss)) <=> \E i \in 1..n : x \in Range(ss[i])
  <1> DEFINE X == UNION {Range(ss[i]) : i \in 1..n}
  <1>1. ASSUME NEW i \in 1..n PROVE ss[i] \in Seq(X)
    <2> DEFINE s == ss[i]
    <2>1. s \in Seq(Range(s)) /\ Range(s) \subseteq X
      BY DEF IsSeq
    <2> HIDE DEF s, X
    <2>2. s \in Seq(X)
      BY <2>1, SeqWiden
    <2> QED BY <2>2 DEF s
  <1>2. ss \in Seq(Seq(X)) /\ DOMAIN ss = 1..n
    <2> HIDE DEF X
    <2>1. ss \in [1..n -> Seq(X)]
      BY <1>1
    <2> QED BY <2>1
  <1> HIDE DEF X
  <1>3. /\ FlattenSeq(ss) \in Seq(X)
        /\ \A x : x \in Range(FlattenSeq(ss)) <=> \E i \in 1..n : x \in Range(ss[i])
    BY <1>2, FlattenElements
  <1> DEFINE t == FlattenSeq(ss)
  <1> HIDE DEF t
  <1>4. t \in Seq(X)
    BY <1>3 DEF t
  <1>5. IsSeq(t)
    BY <1>4, SeqOwnRange DEF IsSeq
  <1> QED BY <1>3, <1>5 DEF t

-----------------------------------------------------------------------------
(* The query for registrations                                              *)

\* A document as the handlers write it: vectors.
VectorsOf(crs) ==
  /\ IsSeq(crs)
  /\ \A i \in DOMAIN crs : IsSeq(crs[i].entities) /\ IsSeq(crs[i].attrs)

LEMMA SeqDomain ==
  ASSUME NEW s, IsSeq(s)
  PROVE  /\ Len(s) \in Nat /\ DOMAIN s = 1..Len(s) /\ s = [i \in 1..Len(s) |-> s[i]]
  BY DEF IsSeq

LEMMA SmallSeqs ==
  /\ IsSeq(<<>>) /\ \A x : x \notin Range(<<>>)
  /\ \A x : IsSeq(<<x>>) /\ \A y : y \in Range(<<x>>) <=> y = x
  <1>1. IsSeq(<<>>) /\ \A x : x \notin Range(<<>>)
    BY DEF IsSeq, Range
  <1>2. ASSUME NEW x PROVE IsSeq(<<x>>) /\ \A y : y \in Range(<<x>>) <=> y = x
    <2>1. Range(<<x>>) = {x}
      BY DEF Range
    <2> QED BY <2>1 DEF IsSeq
  <1> QED BY <1>1, <1>2

\* The elements of a document that answer the query.
LEMMA ElementFound ==
  ASSUME NEW cr, NEW enV, NEW attrL, IsSeq(cr.entities), IsSeq(cr.attrs), IsSeq(attrL),
         NEW k \in DOMAIN cr.entities, cr.entities[k].isPattern = "false",
         \E j \in DOMAIN enV : enV[j] = cr.entities[k],
         attrL = <<>> \/ Range(cr.attrs) \intersect Range(attrL) # {}
  PROVE  \E x : processContextRegistrationElement(cr, enV, attrL) = <<x>>
  <1> DEFINE es == [i \in DOMAIN cr.entities |-> processEntity(enV, cr.entities[i])]
             as == [i \in DOMAIN cr.attrs |-> processAttribute(attrL, cr.attrs[i])]
  <1>1. DOMAIN cr.entities = 1..Len(cr.entities) /\ Len(cr.entities) \in Nat
    BY SeqDomain
  <1>2. DOMAIN cr.attrs = 1..Len(cr.attrs) /\ Len(cr.attrs) \in Nat
    BY SeqDomain
  <1>3. ASSUME NEW i \in DOMAIN cr.entities PROVE IsSeq(processEntity(enV, cr.entities[i]))
    BY SmallSeqs, Zenon DEF processEntity
  <1>4. ASSUME NEW i \in DOMAIN cr.attrs PROVE IsSeq(processAttribute(attrL, cr.attrs[i]))
    BY SmallSeqs, Zenon DEF processAttribute
  <1>5. FlattenSeq(es) # <<>>
    <2> DEFINE e == cr.entities[k]
               f == [id |-> e.id, type |-> e.type, isPattern |-> "false"]
    <2>1. PICK j \in DOMAIN enV : enV[j] = e
      OBVIOUS
    <2>2. matchEntity(f, enV[j])
      BY <2>1 DEF matchEntity, isTrue
    <2>3. es[k] = <<f>>
      BY <2>2 DEF processEntity, includedEntity
    <2>4. f \in Range(es[k])
      <3> HIDE DEF es, f
      <3> QED BY <2>3, SmallSeqs
    <2>5. f \in Range(FlattenSeq(es))
      <3>1. es = [i \in 1..Len(cr.entities) |-> es[i]] /\ \A i \in 1..Len(cr.entities) : IsSeq(es[i])
        BY <1>1, <1>3
      <3> HIDE DEF es, f
      <3> QED BY <1>1, <2>4, <3>1, FlattenSeqs
    <2> HIDE DEF es, f
    <2> QED BY <2>5, SmallSeqs
  <1>6. FlattenSeq(as) # <<>> \/ attrL = <<>>
    <2> SUFFICES ASSUME attrL # <<>> PROVE FlattenSeq(as) # <<>>
      OBVIOUS
    <2>1. PICK k2 \in DOMAIN cr.attrs : cr.attrs[k2] \in Range(attrL)
      BY DEF Range
    <2>2. Contains(attrL, cr.attrs[k2])
      BY <2>1, SeqDomain DEF Contains, Range
    <2>3. as[k2] = <<cr.attrs[k2]>>
      BY <2>2 DEF processAttribute, includedAttribute
    <2>4. cr.attrs[k2] \in Range(as[k2])
      <3> HIDE DEF as
      <3> QED BY <2>3, SmallSeqs
    <2>5. cr.attrs[k2] \in Range(FlattenSeq(as))
      <3>1. as = [i \in 1..Len(cr.attrs) |-> as[i]] /\ \A i \in 1..Len(cr.attrs) : IsSeq(as[i])
        BY <1>2, <1>4
      <3> HIDE DEF as
      <3> QED BY <1>2, <2>4, <3>1, FlattenSeqs
    <2> HIDE DEF as
    <2> QED BY <2>5, SmallSeqs
  <1>7. processContextRegistrationElement(cr, enV, attrL)
          = <<[entities |-> FlattenSeq(es), attrs |-> FlattenSeq(as), app |-> cr.app]>>
    BY <1>5, <1>6, Zenon DEF processContextRegistrationElement
  <1> QED BY <1>7, Zenon

LEMMA ElementSeq ==
  ASSUME NEW cr, NEW enV, NEW attrL
  PROVE  IsSeq(processContextRegistrationElement(cr, enV, attrL))
  BY SmallSeqs, Zenon DEF processContextRegistrationElement

LEMMA PageAll ==
  ASSUME NEW docs, IsSeq(docs)
  PROVE  Page(docs, 0, 0) = docs
  BY DEF Page, IsSeq

\* A document with an entity that is asked for, by name and with its type, and
\* with one of the attributes, is found.
LEMMA QueryFinds ==
  ASSUME NEW n \in Nat, NEW docs, DOMAIN docs = 1..n,
         \A d \in 1..n : VectorsOf(docs[d].crs),
         NEW enV, NEW attrL, IsSeq(attrL), NEW now,
         NEW d \in 1..n, docs[d].expiration > now,
         NEW i \in DOMAIN docs[d].crs, NEW k \in DOMAIN docs[d].crs[i].entities,
         docs[d].crs[i].entities[k].isPattern = "false",
         docs[d].crs[i].entities[k].type # AnyType,
         \E j \in DOMAIN enV : enV[j] = docs[d].crs[i].entities[k],
         attrL = <<>> \/ Range(docs[d].crs[i].attrs) \intersect Range(attrL) # {}
  PROVE  registrationsQuery(docs, enV, attrL, <<>>, now, 0, 0).crrV # <<>>
  <1> DEFINE Els(doc) == [m \in DOMAIN doc.crs |->
                            processContextRegistrationElement(doc.crs[m], enV, attrL)]
             ps == [m \in DOMAIN docs |-> IF QueryMatches(docs[m], enV, attrL, <<>>, now)
                                          THEN <<docs[m]>> ELSE <<>>]
             found == FlattenSeq(ps)
             All(page) == [m \in DOMAIN page |-> FlattenSeq(Els(page[m]))]
             e == docs[d].crs[i].entities[k]
  <1>1. registrationsQuery(docs, enV, attrL, <<>>, now, 0, 0).crrV
          = FlattenSeq(All(Page(found, 0, 0)))
    BY DEF registrationsQuery, Those
  <1>2. QueryMatches(docs[d], enV, attrL, <<>>, now)
    <2>1. PICK j \in DOMAIN enV : enV[j] = e
      OBVIOUS
    <2>2. e \in Stored(docs[d])
      BY DEF Stored, Range
    <2>3. EntityOr(docs[d], e)
      BY <2>2 DEF EntityOr, isTrue
    <2>4. attrL # <<>> => StoredAttrs(docs[d]) \intersect Range(attrL) # {}
      BY DEF StoredAttrs
    <2> QED BY <2>1, <2>3, <2>4 DEF QueryMatches, fillQueryServicePath
  <1>3. /\ IsSeq(found)
        /\ \A x : x \in Range(found) <=> \E m \in 1..n : x \in Range(ps[m])
    <2>1. ps = [m \in 1..n |-> ps[m]]
      OBVIOUS
    <2>2. ASSUME NEW m \in 1..n PROVE IsSeq(ps[m])
      BY SmallSeqs, Zenon
    <2> HIDE DEF ps
    <2> QED BY <2>1, <2>2, FlattenSeqs
  <1>4. ASSUME NEW x \in Range(found) PROVE \E m \in 1..n : x = docs[m]
    <2>1. PICK m \in 1..n : x \in Range(ps[m])
      BY <1>3
    <2>2. ps[m] = <<docs[m]>> \/ ps[m] = <<>>
      OBVIOUS
    <2> HIDE DEF ps
    <2> QED BY <2>1, <2>2, SmallSeqs
  <1>5. docs[d] \in Range(found)
    <2>1. ps[d] = <<docs[d]>>
      BY <1>2
    <2>2. docs[d] \in Range(ps[d])
      <3> HIDE DEF ps
      <3> QED BY <2>1, SmallSeqs
    <2> QED BY <1>3, <2>2
  <1>6. Page(found, 0, 0) = found
    BY <1>3, PageAll
  <1> HIDE DEF found
  <1>7. /\ Len(found) \in Nat /\ DOMAIN found = 1..Len(found)
    BY <1>3, SeqDomain
  <1>8. ASSUME NEW m \in 1..n
        PROVE  /\ IsSeq(FlattenSeq(Els(docs[m])))
               /\ \A x : x \in Range(FlattenSeq(Els(docs[m]))) <=>
                           \E c \in DOMAIN docs[m].crs : x \in Range(Els(docs[m])[c])
    <2> DEFINE els == Els(docs[m])
    <2>1. /\ DOMAIN docs[m].crs = 1..Len(docs[m].crs) /\ Len(docs[m].crs) \in Nat
      BY SeqDomain DEF VectorsOf
    <2>2. els = [c \in 1..Len(docs[m].crs) |-> els[c]]
      BY <2>1
    <2>3. ASSUME NEW c \in 1..Len(docs[m].crs) PROVE IsSeq(els[c])
      BY <2>1, ElementSeq
    <2> HIDE DEF els
    <2>4. /\ IsSeq(FlattenSeq(els))
          /\ \A x : x \in Range(FlattenSeq(els)) <=>
                      \E c \in DOMAIN docs[m].crs : x \in Range(els[c])
      BY <2>1, <2>2, <2>3, FlattenSeqs
    <2> QED BY <2>4 DEF els
  <1>9. PICK x : x \in Range(FlattenSeq(Els(docs[d])))
    <2> DEFINE el == Els(docs[d])[i]
    <2>1. el = processContextRegistrationElement(docs[d].crs[i], enV, attrL)
      OBVIOUS
    <2>2. \E x : processContextRegistrationElement(docs[d].crs[i], enV, attrL) = <<x>>
      BY ElementFound DEF VectorsOf
    <2> HIDE DEF el
    <2>3. PICK x : el = <<x>>
      BY <2>1, <2>2
    <2>4. x \in Range(el)
      BY <2>3, SmallSeqs
    <2> QED BY <1>8, <2>4 DEF el
  <1> DEFINE all == All(found)
  <1> HIDE DEF Els
  <1>10. PICK m \in 1..Len(found) : found[m] = docs[d]
    BY <1>5, <1>7 DEF Range
  <1>11. /\ all = [c \in 1..Len(found) |-> all[c]]
         /\ \A c \in 1..Len(found) : IsSeq(all[c])
    <2>1. ASSUME NEW c \in 1..Len(found) PROVE IsSeq(all[c])
      <3>1. found[c] \in Range(found)
        BY <1>7 DEF Range
      <3>2. PICK m2 \in 1..n : found[c] = docs[m2]
        BY <1>4, <3>1
      <3>3. all[c] = FlattenSeq(Els(docs[m2]))
        BY <1>7, <3>2
      <3> QED BY <1>8, <3>3
    <2> QED BY <1>7, <2>1
  <1>12. x \in Range(all[m])
    BY <1>7, <1>9, <1>10
  <1> HIDE DEF all
  <1>13. x \in Range(FlattenSeq(all))
    BY <1>7, <1>11, <1>12, FlattenSeqs
  <1>14. FlattenSeq(all) # <<>>
    BY <1>13, SmallSeqs
  <1> QED BY <1>1, <1>6, <1>14 DEF all

-----------------------------------------------------------------------------
(* The invariants                                                           *)

\* What the proofs need of the types: the domains of the functions and of the
\* records kept in them.
Shape ==
  /\ pc \in [Workers -> PC]
  /\ req \in [Workers -> Requests \union {NoRequest}]
  /\ DOMAIN job = Workers
  /\ \A w \in Workers :
       DOMAIN job[w] = {"id", "cr", "md", "triggered", "todo", "sub", "read", "found",
                        "crrV", "fwdRegId", "code", "wrote", "notified", "failed", "from"}
  /\ \A w \in Workers : pc[w] = "idle" => req[w] = NoRequest
  /\ DOMAIN registrations = RegIds
  /\ \A r \in RegIds :
       DOMAIN registrations[r] = {"exists", "crs", "expiration", "path", "fwdRegId"}

Ids == RegIds \union SubIds \union {NoId}

IdsOK == (\A w \in Workers : job[w].id \in Ids) /\ confman \in Seq(Ids)

-----------------------------------------------------------------------------
(* The semaphore                                                            *)

\* The labels between reqSemTake and reqSemGive.
Section == WriteSection \union {"discover", "discoverAssociations", "discoverAssociated",
                                "answer"}

Kind(w) == IF req[w].op = "discover" THEN "read" ELSE "write"

\* associationsDiscoverContextAvailability gives the semaphore whether or not it
\* took it: it must then always take it.
ScopedTake ==
  \/ Policy \in {"all", "read"}
  \/ \A r \in Requests : r.op = "discover" => r.scope = "none"

SemInv ==
  /\ SemLock
  /\ \A w \in Workers : pc[w] \notin Section => ~reqSemTaken[w]
  /\ \A w \in Workers : pc[w] \in Section => (reqSemTaken[w] <=> ~Bypassed(Kind(w)))
  /\ \A w \in Workers : pc[w] \in WriteSection => req[w].op # "discover"

-----------------------------------------------------------------------------
(* Refused registrations                                                    *)

\* Before the write nothing has happened; a failure after it leaves the code.
RefusedInv ==
  \A w \in Workers :
    /\ pc[w] \in {"idle", "take", "getFwd", "findRegistration", "associations", "trigger",
                  "upsert", "findSubscription", "insert", "replace", "remove", "discover",
                  "discoverAssociations", "discoverAssociated"}
         => job[w].code = "None" /\ ~job[w].wrote /\ job[w].notified = {}
    /\ pc[w] \in {"notify", "count"} => job[w].code = "Ok"
    /\ IsRegister(req[w]) /\ job[w].code \notin {"None", "Ok"}
         => ~job[w].wrote /\ job[w].notified = {}

-----------------------------------------------------------------------------
(* The link to the configuration manager                                    *)

BeforeWrite == {"associations", "trigger", "upsert"}
AfterWrite == {"notify", "count", "answer", "setFwd"}

\* One thread at a time works on a registration.
OneWriter ==
  /\ \A v, w \in Workers : job[v].id \in RegIds /\ job[w].id = job[v].id => v = w
  /\ \A v, w \in Workers, r \in RegIds : Registering(v, r) /\ Registering(w, r) => v = w
  /\ \A v, w \in Workers, r \in RegIds : Registering(v, r) /\ job[w].id = r => v = w

\* Which registration a thread works on.
WorksOn ==
  \A w \in Workers :
    /\ pc[w] \in {"idle", "take", "getFwd", "findRegistration"} => job[w].id = NoId
    /\ pc[w] \in BeforeWrite =>
         /\ IsRegister(req[w]) /\ job[w].id \in RegIds
         /\ IF IsNewRegistration(req[w])
              THEN ~registrations[job[w].id].exists ELSE job[w].id = req[w].id
    /\ pc[w] \in AfterWrite \union {"forwardNew"} /\ IsRegister(req[w]) /\ job[w].code = "Ok" =>
         /\ job[w].id \in RegIds
         /\ ~IsNewRegistration(req[w]) => job[w].id = req[w].id
    /\ pc[w] = "setFwd" /\ IsNewRegistration(req[w]) => job[w].fwdRegId # NoId
    /\ pc[w] \in {"forwardNew", "setFwd", "forwardUpdate", "getFwd"}
         => Forward /\ req[w].op = "register"
    /\ pc[w] \in {"getFwd", "findRegistration"} => req[w].op = "register" /\ req[w].id # NoId
    /\ pc[w] \in {"insert", "findSubscription", "replace", "remove", "discover",
                  "discoverAssociations", "discoverAssociated"} => ~IsRegister(req[w])

LinkInv ==
  /\ linked \subseteq RegIds /\ (linked # {} => Forward)
  /\ \A r \in linked : registrations[r].exists
  /\ \A w \in Workers, r \in RegIds : Registering(w, r) => registrations[r].exists
  /\ \A w \in Workers, r \in linked :
       Registering(w, r) /\ pc[w] \notin {"getFwd", "forwardUpdate", "done"}
         => job[w].fwdRegId # NoId
  /\ \A r \in linked :
       \/ registrations[r].fwdRegId # NoId
       \/ \E w \in Workers : Registering(w, r) /\ pc[w] \in AfterWrite /\ job[w].code = "Ok"

-----------------------------------------------------------------------------
\* Identifiers of registrations are numbers, and not those of subscriptions.
LEMMA IdsFacts ==
  /\ RegIds \subseteq Nat \ {0} /\ NoId \notin RegIds
  /\ MalformedId \notin RegIds \union SubIds
  /\ RegIds \intersect SubIds = {}
  <1>1. Cardinality(RegIds) \in Nat /\ RegIds = 1..Cardinality(RegIds)
    BY RegistrationsAssumption, FS_CardinalityType
  <1>2. RegIds \subseteq Nat \ {0}
    BY <1>1
  <1> QED BY <1>2, RegistrationsAssumption DEF NoId

LEMMA RegNumbers == RegIds \subseteq Nat \ {0}
  BY IdsFacts

LEMMA InitShape == Init => Shape
  BY DEF Init, Shape, NoJob, NoReg, PC, NoRequest

LEMMA StepShape ==
  ASSUME Shape, NEW w \in Workers, ReceiveRequest(w) \/ Step(w)
  PROVE  Shape'
  <1> USE DEF Shape, Goto, SetJob, Answer, Fail, NoJob, PC, WriteSection, data, semVars
  <1>1. CASE ReceiveRequest(w)
    BY <1>1 DEF ReceiveRequest
  <1>2. CASE TakeSem(w)
    BY <1>2 DEF TakeSem
  <1>3. CASE FindRegistration(w)
    BY <1>3 DEF FindRegistration
  <1>4. CASE processAssociations(w)
    BY <1>4 DEF processAssociations
  <1>5. CASE TriggerQuery(w)
    BY <1>5 DEF TriggerQuery
  <1>6. CASE processRegisterContext(w)
    BY <1>6 DEF processRegisterContext
  <1>7. CASE processAvailabilitySubscription(w)
    BY <1>7 DEF processAvailabilitySubscription
  <1>8. CASE mongoUpdateCasubNewNotification(w)
    BY <1>8 DEF mongoUpdateCasubNewNotification
  <1>9. CASE NotifyDone(w)
    BY <1>9 DEF NotifyDone
  <1>10. CASE mongoSubscribeContextAvailability(w)
    BY <1>10 DEF mongoSubscribeContextAvailability, NotifyItself
  <1>11. CASE FindSubscription(w)
    BY <1>11 DEF FindSubscription
  <1>12. CASE mongoUpdateContextAvailabilitySubscription(w)
    BY <1>12 DEF mongoUpdateContextAvailabilitySubscription, NotifyItself
  <1>13. CASE mongoUnsubscribeContextAvailability(w)
    BY <1>13 DEF mongoUnsubscribeContextAvailability
  <1>14. CASE conventionalDiscoverContextAvailability(w)
    BY <1>14 DEF conventionalDiscoverContextAvailability
  <1>15. CASE StartAssociations(w)
    BY <1>15 DEF StartAssociations
  <1>16. CASE associationsDiscoverContextAvailability(w)
    BY <1>16 DEF associationsDiscoverContextAvailability
  <1>17. CASE GiveSem(w)
    BY <1>17 DEF GiveSem
  <1>18. CASE mongoGetFwdRegId(w)
    BY <1>18 DEF mongoGetFwdRegId
  <1>19. CASE ForwardNew(w)
    BY <1>19 DEF ForwardNew
  <1>20. CASE mongoSetFwdRegId(w)
    BY <1>20 DEF mongoSetFwdRegId
  <1>21. CASE ForwardUpdate(w)
    BY <1>21 DEF ForwardUpdate
  <1>22. CASE ForwardDone(w)
    BY <1>22 DEF ForwardDone
  <1> QED BY <1>1, <1>2, <1>3, <1>4, <1>5, <1>6, <1>7, <1>8, <1>9, <1>10, <1>11, <1>12, <1>13, <1>14, <1>15, <1>16, <1>17, <1>18, <1>19, <1>20, <1>21, <1>22 DEF Step

\* What the helpers of the actions change.
LEMMA GotoEffect ==
  ASSUME Shape, NEW w \in Workers, NEW label, Goto(w, label)
  PROVE  pc'[w] = label /\ \A v \in Workers \ {w} : pc'[v] = pc[v]
  BY DEF Goto, Shape

LEMMA SetJobEffect ==
  ASSUME Shape, NEW w \in Workers, NEW value, SetJob(w, value)
  PROVE  job'[w] = value /\ \A v \in Workers \ {w} : job'[v] = job[v]
  BY DEF SetJob, Shape

LEMMA AnswerEffect ==
  ASSUME Shape, NEW w \in Workers, NEW value, Answer(w, value)
  PROVE  /\ pc'[w] = "answer" /\ \A v \in Workers \ {w} : pc'[v] = pc[v]
         /\ job'[w] = value /\ \A v \in Workers \ {w} : job'[v] = job[v]
  BY GotoEffect, SetJobEffect DEF Answer

LEMMA ReqEffect ==
  ASSUME Shape, NEW w \in Workers, NEW r, req' = [req EXCEPT ![w] = r]
  PROVE  req'[w] = r /\ \A v \in Workers \ {w} : req'[v] = req[v]
  BY DEF Shape

-----------------------------------------------------------------------------
(* The skeleton of the handlers: the parts of a step that the invariants    *)
(* depend on. Every step has one of these forms (StepForms).                *)

\* Nothing changes for the other threads.
Local(w) == \A v \in Workers \ {w} : /\ pc'[v] = pc[v] /\ req'[v] = req[v]
                                     /\ job'[v] = job[v]

SameId(w) == job'[w].id = job[w].id /\ job'[w].fwdRegId = job[w].fwdRegId
SameWork(w) == SameId(w) /\ job'[w].wrote = job[w].wrote /\ job'[w].notified = job[w].notified

Fails(w) ==
  /\ pc[w] \in {"findRegistration", "associations", "trigger", "upsert", "insert",
                "findSubscription", "replace", "remove", "discover", "discoverAssociations",
                "discoverAssociated"}
  /\ pc'[w] = "answer" /\ SameWork(w) /\ job'[w].code \notin {"None", "Ok"}

LEMMA FailEffect ==
  ASSUME Shape, NEW w \in Workers, NEW code, Fail(w, code)
  PROVE  /\ pc'[w] = "answer" /\ \A v \in Workers \ {w} : pc'[v] = pc[v]
         /\ SameWork(w) /\ job'[w].code = code
         /\ \A v \in Workers \ {w} : job'[v] = job[v]
  <1>1. job'[w] = [[job[w] EXCEPT !.code = code] EXCEPT !.failed = TRUE]
    BY AnswerEffect DEF Fail
  <1> QED BY <1>1, AnswerEffect DEF Fail, Shape, SameWork, SameId

Proceeds(w) ==
  /\ <<pc[w], pc'[w]>> \in
       {<<"associations", "associations">>, <<"associations", "trigger">>,
        <<"trigger", "associations">>, <<"trigger", "upsert">>, <<"count", "notify">>,
        <<"notify", "answer">>, <<"findSubscription", "remove">>,
        <<"findSubscription", "replace">>, <<"discoverAssociations", "discoverAssociated">>,
        <<"discoverAssociated", "discoverAssociated">>}
  /\ SameWork(w) /\ job'[w].code = job[w].code

Notifies(w) ==
  /\ pc[w] = "notify" /\ pc'[w] \in {"notify", "count"}
  /\ SameId(w) /\ job'[w].code = job[w].code

Succeeds(w) ==
  /\ <<pc[w], pc'[w]>> \in {<<"insert", "notify">>, <<"replace", "notify">>,
                            <<"remove", "answer">>}
  /\ SameWork(w) /\ job'[w].code = "Ok"

Discovers(w) ==
  /\ pc[w] \in {"discover", "discoverAssociated"} /\ pc'[w] = "answer" /\ SameWork(w)

\* A step of a handler that writes no registration.
Quiet(w) ==
  /\ Fails(w) \/ Proceeds(w) \/ Notifies(w) \/ Succeeds(w) \/ Discovers(w)
  /\ Local(w) /\ req'[w] = req[w]
  /\ UNCHANGED <<semVars, registrations, linked, confman>>

SameButId(w) == /\ job'[w].fwdRegId = job[w].fwdRegId /\ job'[w].code = job[w].code
                /\ job'[w].wrote = job[w].wrote /\ job'[w].notified = job[w].notified

Finds(w) ==
  /\ pc[w] = "findRegistration" /\ pc'[w] = "associations"
  /\ req[w].id \in RegIds /\ registrations[req[w].id].exists
  /\ job'[w].id = req[w].id /\ SameButId(w)
  /\ Local(w) /\ req'[w] = req[w]
  /\ UNCHANGED <<semVars, registrations, linked, confman>>

Writes(w) ==
  /\ pc[w] = "upsert" /\ pc'[w] = "notify"
  /\ \E doc : /\ doc.exists /\ doc.fwdRegId = NoId
              /\ registrations' = [registrations EXCEPT ![job[w].id] = doc]
  /\ SameId(w) /\ job'[w].code = "Ok"
  /\ Local(w) /\ req'[w] = req[w]
  /\ UNCHANGED <<semVars, linked, confman>>


LEMMA QuietSteps ==
  ASSUME Shape, NEW w \in Workers,
         \/ processAssociations(w) \/ TriggerQuery(w)
         \/ processAvailabilitySubscription(w) \/ mongoUpdateCasubNewNotification(w)
         \/ NotifyDone(w) \/ mongoSubscribeContextAvailability(w) \/ FindSubscription(w)
         \/ mongoUpdateContextAvailabilitySubscription(w)
         \/ mongoUnsubscribeContextAvailability(w)
         \/ conventionalDiscoverContextAvailability(w) \/ StartAssociations(w)
         \/ associationsDiscoverContextAvailability(w)
  PROVE  Quiet(w)
  <1> USE GotoEffect, SetJobEffect, AnswerEffect, FailEffect
  <1> USE DEF Quiet, Local, data, Shape
  <1>1. CASE processAssociations(w)
    BY <1>1 DEF processAssociations, Fails, Proceeds, SameWork, SameId
  <1>2. CASE TriggerQuery(w)
    <2>1. CASE Fail(w, "ReceiverInternalError")
      BY <1>2, <2>1 DEF TriggerQuery, Fails
    <2>2. CASE ~Fail(w, "ReceiverInternalError")
      <3>1. PICK T, c : SetJob(w, [job[w] EXCEPT !.triggered = T, !.cr = c, !.md = 1])
        BY <1>2, <2>2 DEF TriggerQuery
      <3>2. job'[w] = [job[w] EXCEPT !.triggered = T, !.cr = c, !.md = 1]
        BY <3>1
      <3>3. SameWork(w) /\ job'[w].code = job[w].code
        BY <3>2 DEF SameWork, SameId
      <3> QED BY <1>2, <2>2, <3>1, <3>3 DEF TriggerQuery, Proceeds
    <2> QED BY <2>1, <2>2
  <1>3. CASE processAvailabilitySubscription(w)
    <2>0. pc[w] = "notify" /\ UNCHANGED <<semVars, registrations, linked, confman, req>>
      BY <1>3, ZenonT(60) DEF processAvailabilitySubscription
    <2>1. PICK t, crrV :
            LET rest == [job[w] EXCEPT !.todo = @ \ {t}]
            IN  \/ SetJob(w, [rest EXCEPT !.failed = TRUE]) /\ UNCHANGED pc
                \/ SetJob(w, rest) /\ UNCHANGED pc
                \/ /\ SetJob(w, [rest EXCEPT !.sub = t.sub, !.crrV = crrV,
                                             !.notified = @ \union {t.sub}])
                   /\ Goto(w, "count")
      BY <1>3 DEF processAvailabilitySubscription
    <2> DEFINE rest == [job[w] EXCEPT !.todo = @ \ {t}]
    <2>2. CASE SetJob(w, [rest EXCEPT !.failed = TRUE]) /\ UNCHANGED pc
      <3>1. job'[w] = [rest EXCEPT !.failed = TRUE]
        BY <2>2
      <3>2. SameId(w) /\ job'[w].code = job[w].code
        BY <3>1 DEF SameId
      <3> QED BY <2>0, <2>2, <3>2 DEF Notifies
    <2>3. CASE SetJob(w, rest) /\ UNCHANGED pc
      <3>1. job'[w] = rest
        BY <2>3
      <3>2. SameId(w) /\ job'[w].code = job[w].code
        BY <3>1 DEF SameId
      <3> QED BY <2>0, <2>3, <3>2 DEF Notifies
    <2>4. CASE /\ SetJob(w, [rest EXCEPT !.sub = t.sub, !.crrV = crrV,
                                        !.notified = @ \union {t.sub}])
               /\ Goto(w, "count")
      <3>1. job'[w] = [rest EXCEPT !.sub = t.sub, !.crrV = crrV,
                                   !.notified = @ \union {t.sub}]
        BY <2>4
      <3>2. SameId(w) /\ job'[w].code = job[w].code
        BY <3>1 DEF SameId
      <3> QED BY <2>0, <2>4, <3>2 DEF Notifies
    <2> QED BY <2>1, <2>2, <2>3, <2>4, SMTT(40)
  <1>4. CASE mongoUpdateCasubNewNotification(w)
    BY <1>4 DEF mongoUpdateCasubNewNotification, Proceeds, SameWork, SameId
  <1>5. CASE NotifyDone(w)
    BY <1>5 DEF NotifyDone, Proceeds, SameWork, SameId
  <1>6. CASE mongoSubscribeContextAvailability(w)
    <2>1. CASE Fail(w, "ReceiverInternalError")
      BY <1>6, <2>1 DEF mongoSubscribeContextAvailability, Fails
    <2>2. CASE SetJob(w, NotifyItself(w, job[w].id)) /\ Goto(w, "notify")
      <3>1. job'[w] = NotifyItself(w, job[w].id)
        BY <2>2
      <3>2. SameWork(w) /\ job'[w].code = "Ok"
        BY <3>1 DEF NotifyItself, SameWork, SameId
      <3> QED BY <1>6, <2>2, <3>2 DEF mongoSubscribeContextAvailability, Succeeds
    <2> QED BY <1>6, <2>1, <2>2 DEF mongoSubscribeContextAvailability
  <1>7. CASE FindSubscription(w)
    BY <1>7 DEF FindSubscription, Fails, Proceeds, SameWork, SameId
  <1>8. CASE mongoUpdateContextAvailabilitySubscription(w)
    <2>1. CASE Fail(w, "ReceiverInternalError")
      BY <1>8, <2>1 DEF mongoUpdateContextAvailabilitySubscription, Fails
    <2>2. CASE SetJob(w, NotifyItself(w, req[w].id)) /\ Goto(w, "notify")
      <3>1. job'[w] = NotifyItself(w, req[w].id)
        BY <2>2
      <3>2. SameWork(w) /\ job'[w].code = "Ok"
        BY <3>1 DEF NotifyItself, SameWork, SameId
      <3> QED BY <1>8, <2>2, <3>2 DEF mongoUpdateContextAvailabilitySubscription, Succeeds
    <2> QED BY <1>8, <2>1, <2>2 DEF mongoUpdateContextAvailabilitySubscription
  <1>9. CASE mongoUnsubscribeContextAvailability(w)
    BY <1>9 DEF mongoUnsubscribeContextAvailability, Fails, Succeeds, SameWork, SameId
  <1>10. CASE conventionalDiscoverContextAvailability(w)
    <2>1. CASE Fail(w, "ReceiverInternalError")
      BY <1>10, <2>1 DEF conventionalDiscoverContextAvailability, Fails
    <2>2. CASE ~Fail(w, "ReceiverInternalError")
      <3>1. PICK crrV, code : Answer(w, [job[w] EXCEPT !.crrV = crrV, !.code = code])
        BY <1>10, <2>2 DEF conventionalDiscoverContextAvailability
      <3>2. job'[w] = [job[w] EXCEPT !.crrV = crrV, !.code = code]
        BY <3>1
      <3>3. SameWork(w)
        BY <3>2 DEF SameWork, SameId
      <3> QED BY <1>10, <3>1, <3>3 DEF conventionalDiscoverContextAvailability, Discovers
    <2> QED BY <2>1, <2>2
  <1>11. CASE StartAssociations(w)
    BY <1>11 DEF StartAssociations, Fails, Proceeds, SameWork, SameId
  <1>12. CASE associationsDiscoverContextAvailability(w)
    <2>0. /\ pc[w] = "discoverAssociated"
          /\ UNCHANGED <<semVars, registrations, linked, confman, req>>
      BY <1>12 DEF associationsDiscoverContextAvailability
    <2>1. CASE Fail(w, "ReceiverInternalError")
      BY <2>0, <2>1 DEF Fails
    <2>2. CASE job[w].found = <<>>
      <3>1. PICK code : Answer(w, [job[w] EXCEPT !.code = code])
        BY <1>12, <2>2 DEF associationsDiscoverContextAvailability
      <3>2. job'[w] = [job[w] EXCEPT !.code = code]
        BY <3>1
      <3>3. SameWork(w)
        BY <3>2 DEF SameWork, SameId
      <3> QED BY <2>0, <3>1, <3>3 DEF Discovers
    <2>3. CASE ~Fail(w, "ReceiverInternalError") /\ job[w].found # <<>>
      <3>1. PICK found, crrV : SetJob(w, [job[w] EXCEPT !.found = found, !.crrV = crrV])
        BY <1>12, <2>3 DEF associationsDiscoverContextAvailability
      <3>2. job'[w] = [job[w] EXCEPT !.found = found, !.crrV = crrV]
        BY <3>1
      <3>3. SameWork(w) /\ job'[w].code = job[w].code
        BY <3>2, SMTT(40) DEF SameWork, SameId
      <3>4. pc' = pc
        BY <1>12, <2>3 DEF associationsDiscoverContextAvailability
      <3> QED BY <2>0, <3>1, <3>3, <3>4 DEF Proceeds
    <2> QED BY <2>1, <2>2, <2>3, SMTT(40)
  <1> QED BY <1>1, <1>2, <1>3, <1>4, <1>5, <1>6, <1>7, <1>8, <1>9, <1>10, <1>11, <1>12

Receives(w) ==
  /\ pc[w] = "idle"
  /\ \E r \in Requests :
       /\ req'[w] = r
       /\ r.op = "register" /\ r.id # NoId => CanUpdate(r.id)
       /\ pc'[w] = IF Forward /\ r.op = "register" /\ r.id # NoId THEN "getFwd" ELSE "take"
  /\ job'[w] = job[w]
  /\ Local(w) /\ UNCHANGED <<semVars, registrations, linked, confman>>

Takes(w) ==
  /\ pc[w] = "take" /\ reqSemTake(w, Kind(w))
  /\ \/ /\ IsNewRegistration(req[w]) /\ pc'[w] = "associations"
        /\ job'[w].id \in Free(RegIds, registrations)
     \/ /\ req[w].op = "subscribe" /\ pc'[w] = "insert"
        /\ job'[w].id \in Free(SubIds, casubs)
     \/ /\ req[w].op = "discover" /\ pc'[w] \in {"discover", "discoverAssociations"}
        /\ job'[w].id = job[w].id
     \/ /\ req[w].op = "register" /\ req[w].id # NoId /\ pc'[w] = "findRegistration"
        /\ job'[w].id = job[w].id
     \/ /\ req[w].op \in {"updateSubscription", "unsubscribe"} /\ pc'[w] = "findSubscription"
        /\ job'[w].id = job[w].id
  /\ SameButId(w)
  /\ Local(w) /\ req'[w] = req[w] /\ UNCHANGED <<registrations, linked, confman>>

Gives(w) ==
  /\ pc[w] = "answer"
  /\ IF req[w].op = "discover" /\ req[w].scope # "none" THEN reqSemGiveDefault(w) ELSE reqSemGive(w)
  /\ IF Forwarded(w)
       THEN /\ pc'[w] = (IF req[w].id = NoId THEN "forwardNew" ELSE "setFwd")
            /\ req'[w] = req[w] /\ job'[w] = job[w]
       ELSE pc'[w] = "idle" /\ req'[w] = NoRequest /\ job'[w] = NoJob
  /\ Local(w) /\ UNCHANGED <<registrations, linked, confman>>

GetsFwd(w) ==
  /\ pc[w] = "getFwd" /\ pc'[w] = "take"
  /\ job'[w].id = job[w].id /\ job'[w].code = job[w].code
  /\ job'[w].wrote = job[w].wrote /\ job'[w].notified = job[w].notified
  /\ \/ job'[w].fwdRegId = IF req[w].id = MalformedId THEN NoId
                           ELSE registrations[req[w].id].fwdRegId
     \/ "link" \in Faults
  /\ Local(w) /\ req'[w] = req[w] /\ UNCHANGED <<semVars, registrations, linked, confman>>

ForwardsNew(w) ==
  /\ pc[w] = "forwardNew"
  /\ \/ pc'[w] = "setFwd" /\ job'[w].fwdRegId = Len(confman) + 1
     \/ pc'[w] = "done" /\ job'[w].fwdRegId = job[w].fwdRegId
  /\ job'[w].id = job[w].id /\ job'[w].code = job[w].code
  /\ job'[w].wrote = job[w].wrote /\ job'[w].notified = job[w].notified
  /\ confman' = confman \/ confman' = Append(confman, job[w].id)
  /\ Local(w) /\ req'[w] = req[w] /\ UNCHANGED <<semVars, registrations, linked>>

SetsFwd(w) ==
  /\ pc[w] = "setFwd"
  /\ LET r == AnsweredId(w)
         stored == r \in RegIds /\ registrations[r].exists
     IN
     \/ /\ stored
        /\ registrations' = [registrations EXCEPT ![r].fwdRegId = job[w].fwdRegId]
        /\ linked' = IF job[w].fwdRegId = NoId THEN linked ELSE linked \union {r}
     \/ /\ ~stored \/ "link" \in Faults
        /\ UNCHANGED <<registrations, linked>>
  /\ pc'[w] = (IF req[w].id = NoId THEN "done" ELSE "forwardUpdate")
  /\ Local(w) /\ req'[w] = req[w] /\ job'[w] = job[w] /\ UNCHANGED <<semVars, confman>>

\* The last steps of a forwarded registration.
Ends(w) ==
  /\ \/ /\ pc[w] = "forwardUpdate" /\ pc'[w] = "done"
        /\ req'[w] = req[w] /\ job'[w] = job[w]
        /\ confman' = confman \/ confman' = Append(confman, job[w].id)
     \/ /\ pc[w] = "done" /\ pc'[w] = "idle"
        /\ req'[w] = NoRequest /\ job'[w] = NoJob /\ confman' = confman
  /\ Local(w) /\ UNCHANGED <<semVars, registrations, linked>>

Form(w) == \/ Receives(w) \/ Quiet(w) \/ Takes(w) \/ Finds(w) \/ Writes(w) \/ Gives(w)
           \/ GetsFwd(w) \/ ForwardsNew(w) \/ SetsFwd(w) \/ Ends(w)

LEMMA StepForms ==
  ASSUME Shape, NEW w \in Workers, ReceiveRequest(w) \/ Step(w)
  PROVE  Form(w)
  <1> USE GotoEffect, SetJobEffect, AnswerEffect, FailEffect, ReqEffect DEF Local, data
  <1>1. ASSUME ReceiveRequest(w) PROVE Receives(w)
    <2>1. PICK r \in Requests :
            /\ r.op = "register" /\ r.id # NoId => CanUpdate(r.id)
            /\ req' = [req EXCEPT ![w] = r]
            /\ Goto(w, IF Forward /\ r.op = "register" /\ r.id # NoId THEN "getFwd" ELSE "take")
      BY <1>1 DEF ReceiveRequest
    <2>2. pc[w] = "idle" /\ UNCHANGED <<semVars, registrations, linked, confman, job>>
      BY <1>1 DEF ReceiveRequest
    <2>3. req'[w] = r /\ \A v \in Workers \ {w} : req'[v] = req[v]
      BY <2>1
    <2>4. /\ pc'[w] = IF Forward /\ r.op = "register" /\ r.id # NoId THEN "getFwd" ELSE "take"
          /\ \A v \in Workers \ {w} : pc'[v] = pc[v]
      BY <2>1
    <2>5. Local(w)
      BY <2>2, <2>3, <2>4
    <2> QED BY <2>1, <2>2, <2>3, <2>4, <2>5 DEF Receives
  <1>2. ASSUME TakeSem(w) PROVE Takes(w)
    <2>0. /\ pc[w] = "take" /\ reqSemTake(w, Kind(w)) /\ req' = req
          /\ UNCHANGED <<registrations, linked, confman>>
      BY <1>2 DEF TakeSem, Kind
    <2>1. CASE /\ IsNewRegistration(req[w]) /\ Goto(w, "associations")
               /\ \E r \in Free(RegIds, registrations) :
                    SetJob(w, [job[w] EXCEPT !.id = r, !.from = clock])
      <3>1. PICK r \in Free(RegIds, registrations) :
              SetJob(w, [job[w] EXCEPT !.id = r, !.from = clock])
        BY <2>1
      <3>2. job'[w] = [job[w] EXCEPT !.id = r, !.from = clock]
        BY <3>1
      <3>3. SameButId(w) /\ job'[w].id = r
        BY <3>2 DEF SameButId, Shape
      <3> QED BY <2>0, <2>1, <3>1, <3>3 DEF Takes
    <2>2. CASE /\ req[w].op = "subscribe" /\ Goto(w, "insert")
               /\ \E s \in Free(SubIds, casubs) : SetJob(w, [job[w] EXCEPT !.id = s])
      <3>1. PICK r \in Free(SubIds, casubs) : SetJob(w, [job[w] EXCEPT !.id = r])
        BY <2>2
      <3>2. job'[w] = [job[w] EXCEPT !.id = r]
        BY <3>1
      <3>3. SameButId(w) /\ job'[w].id = r
        BY <3>2 DEF SameButId, Shape
      <3> QED BY <2>0, <2>2, <3>1, <3>3 DEF Takes
    <2>3. CASE /\ req[w].op = "discover" /\ job' = job
               /\ Goto(w, IF req[w].scope = "none" THEN "discover" ELSE "discoverAssociations")
      BY <2>0, <2>3 DEF Takes, SameButId
    <2>4. CASE /\ req[w].op = "register" /\ req[w].id # NoId
               /\ Goto(w, "findRegistration") /\ job' = job
      BY <2>0, <2>4 DEF Takes, SameButId
    <2>5. CASE /\ req[w].op \in {"updateSubscription", "unsubscribe"}
               /\ Goto(w, "findSubscription") /\ job' = job
      BY <2>0, <2>5 DEF Takes, SameButId
    <2> QED BY <1>2, <2>1, <2>2, <2>3, <2>4, <2>5 DEF TakeSem
  <1>3. ASSUME FindRegistration(w) PROVE Finds(w) \/ Quiet(w)
    <2>0. /\ pc[w] = "findRegistration"
          /\ UNCHANGED <<semVars, registrations, linked, confman, req>>
      BY <1>3 DEF FindRegistration
    <2>1. ASSUME NEW code \in {"ReceiverInternalError", "ContextElementNotFound"},
                 Fail(w, code)
          PROVE  Quiet(w)
      BY <2>0, <2>1 DEF Quiet, Fails
    <2>2. CASE /\ Registered(req[w].id, req[w].path) /\ Goto(w, "associations")
               /\ SetJob(w, [job[w] EXCEPT !.id = req[w].id, !.from = clock])
      <3>1. job'[w] = [job[w] EXCEPT !.id = req[w].id, !.from = clock]
        BY <2>2
      <3>2. job'[w].id = req[w].id /\ SameButId(w)
        BY <3>1 DEF SameButId, Shape
      <3> QED BY <2>0, <2>2, <3>2 DEF Finds, Registered
    <2> QED BY <1>3, <2>1, <2>2 DEF FindRegistration
  <1>4. ASSUME processRegisterContext(w) PROVE Writes(w) \/ Quiet(w)
    <2>0. pc[w] = "upsert" /\ UNCHANGED <<semVars, linked, confman, req>>
      BY <1>4 DEF processRegisterContext
    <2>1. CASE Fail(w, "ReceiverInternalError") /\ UNCHANGED registrations
      BY <2>0, <2>1 DEF Quiet, Fails
    <2>2. CASE ~(Fail(w, "ReceiverInternalError") /\ UNCHANGED registrations)
      <3>1. PICK new : /\ new.exists /\ new.fwdRegId = NoId
                       /\ registrations' = [registrations EXCEPT ![job[w].id] = new]
                       /\ Goto(w, "notify")
        <4> DEFINE doc == [exists |-> TRUE, crs |-> req[w].crs, path |-> req[w].path,
                           fwdRegId |-> NoId,
                           expiration |-> job[w].from + (IF req[w].duration = Absent
                             THEN DefaultDuration ELSE req[w].duration)]
        <4>1. registrations' = [registrations EXCEPT ![job[w].id] = doc]
              /\ Goto(w, "notify")
          BY <1>4, <2>2 DEF processRegisterContext
        <4>2. doc.exists /\ doc.fwdRegId = NoId
          OBVIOUS
        <4> QED BY <4>1, <4>2
      <3>2. job'[w] = [job[w] EXCEPT !.todo = job[w].triggered, !.wrote = TRUE, !.code = "Ok"]
        BY <1>4, <2>2 DEF processRegisterContext
      <3>3. SameId(w) /\ job'[w].code = "Ok" /\ \A v \in Workers \ {w} : job'[v] = job[v]
        BY <1>4, <2>2, <3>2 DEF SameId, Shape, processRegisterContext
      <3>4. pc'[w] = "notify" /\ Local(w)
        BY <2>0, <3>1, <3>3
      <3> HIDE GotoEffect, SetJobEffect, AnswerEffect, FailEffect, ReqEffect
      <3> QED BY <2>0, <3>1, <3>3, <3>4 DEF Writes
    <2> QED BY <2>1, <2>2
  <1>5. GiveSem(w) => Gives(w)
    BY DEF GiveSem, Gives
  <1>6. ASSUME mongoGetFwdRegId(w) PROVE GetsFwd(w)
    <2>0. /\ pc[w] = "getFwd" /\ Goto(w, "take")
          /\ UNCHANGED <<semVars, registrations, linked, confman, req>>
      BY <1>6 DEF mongoGetFwdRegId, WithReqSem
    <2>1. CASE job' = job /\ "link" \in Faults
      BY <2>0, <2>1 DEF GetsFwd
    <2>2. CASE SetJob(w, [job[w] EXCEPT !.fwdRegId =
                 IF req[w].id = MalformedId THEN NoId ELSE registrations[req[w].id].fwdRegId])
      <3> DEFINE f == IF req[w].id = MalformedId THEN NoId
                      ELSE registrations[req[w].id].fwdRegId
      <3>1. job'[w] = [job[w] EXCEPT !.fwdRegId = f]
        BY <2>2
      <3> HIDE DEF f
      <3>2. /\ job'[w].id = job[w].id /\ job'[w].code = job[w].code
            /\ job'[w].wrote = job[w].wrote /\ job'[w].notified = job[w].notified
            /\ job'[w].fwdRegId = f
        BY <3>1 DEF Shape
      <3> QED BY <2>0, <2>2, <3>2 DEF GetsFwd, f
    <2> QED BY <1>6, <2>1, <2>2 DEF mongoGetFwdRegId
  <1>7. ASSUME ForwardNew(w) PROVE ForwardsNew(w)
    <2>0. /\ pc[w] = "forwardNew" /\ UNCHANGED <<semVars, registrations, linked, req>>
          /\ confman' = confman \/ confman' = Append(confman, job[w].id)
      BY <1>7 DEF ForwardNew, Received
    <2>1. CASE job' = job /\ Goto(w, "done")
      BY <2>0, <2>1 DEF ForwardsNew
    <2>2. CASE /\ SetJob(w, [job[w] EXCEPT !.fwdRegId = Len(confman) + 1])
               /\ Goto(w, "setFwd")
      <3>1. job'[w] = [job[w] EXCEPT !.fwdRegId = Len(confman) + 1]
        BY <2>2
      <3>2. /\ job'[w].id = job[w].id /\ job'[w].code = job[w].code
            /\ job'[w].wrote = job[w].wrote /\ job'[w].notified = job[w].notified
            /\ job'[w].fwdRegId = Len(confman) + 1
        BY <3>1 DEF Shape
      <3> QED BY <2>0, <2>2, <3>2 DEF ForwardsNew
    <2> QED BY <1>7, <2>1, <2>2 DEF ForwardNew
  <1>8. mongoSetFwdRegId(w) => SetsFwd(w)
    BY DEF mongoSetFwdRegId, SetsFwd, WithReqSem
  <1>9. ForwardUpdate(w) => Ends(w)
    BY DEF ForwardUpdate, Ends, Received
  <1>10. ASSUME ForwardDone(w) PROVE Ends(w)
    <2>1. /\ pc[w] = "done" /\ UNCHANGED <<semVars, registrations, linked, confman>>
          /\ req' = [req EXCEPT ![w] = NoRequest] /\ SetJob(w, NoJob) /\ Goto(w, "idle")
      BY <1>10 DEF ForwardDone
    <2>2. req'[w] = NoRequest /\ \A v \in Workers \ {w} : req'[v] = req[v]
      BY <2>1
    <2>3. /\ pc'[w] = "idle" /\ job'[w] = NoJob
          /\ \A v \in Workers \ {w} : pc'[v] = pc[v] /\ job'[v] = job[v]
      BY <2>1
    <2>4. Local(w)
      BY <2>2, <2>3
    <2> QED BY <2>1, <2>2, <2>3, <2>4 DEF Ends
  <1> QED
    BY <1>1, <1>2, <1>3, <1>4, <1>5, <1>6, <1>7, <1>8, <1>9, <1>10, QuietSteps
    DEF Step, Form

-----------------------------------------------------------------------------
(* Each invariant, over the forms of a step                                 *)

LEMMA FormIds ==
  ASSUME Shape, IdsOK, NEW w \in Workers, Form(w)
  PROVE  IdsOK'
  <1> USE DEF IdsOK, Ids, Local, SameWork, SameId, NoJob
  <1>1. CASE Receives(w) BY <1>1 DEF Receives
  <1>2. CASE Quiet(w) BY <1>2 DEF Quiet, Fails, Proceeds, Notifies, Succeeds, Discovers
  <1>3. CASE Takes(w) BY <1>3 DEF Takes, Free
  <1>4. CASE Finds(w) BY <1>4 DEF Finds, SameButId
  <1>5. CASE Writes(w) BY <1>5 DEF Writes
  <1>6. CASE Gives(w) BY <1>6 DEF Gives
  <1>7. CASE GetsFwd(w) BY <1>7 DEF GetsFwd
  <1>8. CASE ForwardsNew(w) BY <1>8, SMTT(40) DEF ForwardsNew
  <1>9. CASE SetsFwd(w) BY <1>9 DEF SetsFwd
  <1>10. CASE Ends(w) BY <1>10, SMTT(40) DEF Ends
  <1> QED BY <1>1, <1>2, <1>3, <1>4, <1>5, <1>6, <1>7, <1>8, <1>9, <1>10 DEF Form

LEMMA FormRefused ==
  ASSUME Shape, RefusedInv, NEW w \in Workers, Form(w)
  PROVE  RefusedInv'
  <1> USE DEF RefusedInv, Local, SameWork, SameId, NoJob, NoRequest, IsRegister
  <1>1. CASE Receives(w) BY <1>1 DEF Receives
  <1>2. CASE Quiet(w)
    <2>1. CASE Fails(w) BY <1>2, <2>1 DEF Quiet, Fails
    <2>2. CASE Proceeds(w) BY <1>2, <2>2 DEF Quiet, Proceeds
    <2>3. CASE Notifies(w) BY <1>2, <2>3 DEF Quiet, Notifies
    <2>4. CASE Succeeds(w) BY <1>2, <2>4 DEF Quiet, Succeeds
    <2>5. CASE Discovers(w) BY <1>2, <2>5 DEF Quiet, Discovers
    <2> QED BY <1>2, <2>1, <2>2, <2>3, <2>4, <2>5 DEF Quiet
  <1>3. CASE Takes(w) BY <1>3 DEF Takes, SameButId, IsNewRegistration
  <1>4. CASE Finds(w) BY <1>4 DEF Finds, SameButId
  <1>5. CASE Writes(w) BY <1>5 DEF Writes
  <1>6. CASE Gives(w) BY <1>6 DEF Gives
  <1>7. CASE GetsFwd(w) BY <1>7 DEF GetsFwd
  <1>8. CASE ForwardsNew(w) BY <1>8 DEF ForwardsNew
  <1>9. CASE SetsFwd(w) BY <1>9 DEF SetsFwd
  <1>10. CASE Ends(w) BY <1>10 DEF Ends
  <1> QED BY <1>1, <1>2, <1>3, <1>4, <1>5, <1>6, <1>7, <1>8, <1>9, <1>10 DEF Form

LEMMA FormSem ==
  ASSUME ScopedTake, Shape, SemInv, NEW w \in Workers, Form(w)
  PROVE  SemInv'
  <1> USE DEF SemInv, Section, WriteSection, Kind, Local, semVars
  <1>1. CASE Receives(w)
    BY <1>1 DEF Receives, SemLock
  <1>2. CASE Quiet(w)
    <2> USE DEF SemLock
    <2>1. CASE Fails(w) BY <1>2, <2>1 DEF Quiet, Fails
    <2>2. CASE Proceeds(w) BY <1>2, <2>2 DEF Quiet, Proceeds
    <2>3. CASE Notifies(w) BY <1>2, <2>3 DEF Quiet, Notifies
    <2>4. CASE Succeeds(w) BY <1>2, <2>4 DEF Quiet, Succeeds
    <2>5. CASE Discovers(w) BY <1>2, <2>5 DEF Quiet, Discovers
    <2> QED BY <1>2, <2>1, <2>2, <2>3, <2>4, <2>5 DEF Quiet
  <1>3. CASE Takes(w)
    <2>1. ~reqSemTaken[w] /\ reqSemTake(w, Kind(w))
      BY <1>3 DEF Takes
    <2>2. /\ SemLock' /\ (reqSemTaken'[w] <=> ~Bypassed(Kind(w)))
          /\ \A v \in Workers \ {w} : reqSemTaken'[v] = reqSemTaken[v]
      BY <2>1, SemLockTake
    <2>3. Kind(w)' = Kind(w) /\ pc'[w] \in Section
      BY <1>3 DEF Takes
    <2>4. pc'[w] \in WriteSection => req'[w].op # "discover"
      BY <1>3 DEF Takes, IsNewRegistration
    <2> QED BY <1>3, <2>2, <2>3, <2>4 DEF Takes
  <1>4. CASE Finds(w) BY <1>4 DEF Finds, SemLock
  <1>5. CASE Writes(w) BY <1>5 DEF Writes, SemLock
  <1>6. CASE Gives(w)
    <2>1. reqSemGive(w)
      <3>1. CASE req[w].op = "discover" /\ req[w].scope # "none"
        <4>1. Policy \in {"all", "read"}
          BY <3>1 DEF Shape, ScopedTake, NoRequest
        <4>2. reqSemTaken[w]
          BY <1>6, <3>1, <4>1 DEF Gives, Bypassed
        <4> QED BY <1>6, <3>1, <4>2 DEF Gives, reqSemGive, reqSemGiveDefault
      <3>2. CASE ~(req[w].op = "discover" /\ req[w].scope # "none")
        BY <1>6, <3>2 DEF Gives
      <3> QED BY <3>1, <3>2
    <2>2. /\ SemLock' /\ ~reqSemTaken'[w]
          /\ \A v \in Workers \ {w} : reqSemTaken'[v] = reqSemTaken[v]
      BY <2>1, SemLockGive
    <2>3. pc'[w] \notin Section
      BY <1>6 DEF Gives
    <2> QED BY <1>6, <2>2, <2>3 DEF Gives
  <1>7. CASE GetsFwd(w) BY <1>7 DEF GetsFwd, SemLock
  <1>8. CASE ForwardsNew(w) BY <1>8 DEF ForwardsNew, SemLock
  <1>9. CASE SetsFwd(w) BY <1>9 DEF SetsFwd, SemLock
  <1>10. CASE Ends(w) BY <1>10 DEF Ends, SemLock
  <1> QED BY <1>1, <1>2, <1>3, <1>4, <1>5, <1>6, <1>7, <1>8, <1>9, <1>10 DEF Form

LEMMA FormOneWriter ==
  ASSUME ~SharedUpdates, Shape, IdsOK, OneWriter, WorksOn, LinkInv, NEW w \in Workers, Form(w)
  PROVE  OneWriter'
  <1> USE IdsFacts DEF OneWriter, Registering, NoId
  <1>0. ASSUME \A v \in Workers : job'[v].id = job[v].id /\ req'[v] = req[v]
        PROVE  OneWriter'
    BY <1>0
  <1>1. CASE Receives(w) BY <1>1 DEF Receives, CanUpdate, Local
  <1>2. CASE Quiet(w)
    <2>1. \A v \in Workers : job'[v].id = job[v].id /\ req'[v] = req[v]
      BY <1>2 DEF Quiet, Fails, Proceeds, Notifies, Succeeds, Discovers, SameWork, SameId, Local
    <2> QED BY <1>0, <2>1
  <1>3. CASE Takes(w) BY <1>3 DEF Takes, Free, LinkInv, Local
  <1>4. CASE Finds(w)
    <2>1. Registering(w, req[w].id)
      BY <1>4 DEF Finds, WorksOn
    <2>2. /\ \A v \in Workers : req'[v] = req[v]
          /\ \A v \in Workers \ {w} : job'[v].id = job[v].id
          /\ job'[w].id = req[w].id /\ req[w].id \in RegIds
      BY <1>4 DEF Finds, Local
    <2>3. ASSUME NEW u \in Workers, NEW v \in Workers, job'[v].id \in RegIds,
                 job'[u].id = job'[v].id
          PROVE  v = u
      <3>1. ASSUME u # w, v # w PROVE v = u
        BY <2>2, <2>3, <3>1
      <3>2. ASSUME u # w, v = w PROVE FALSE
        BY <2>1, <2>2, <2>3, <3>2, ZenonT(60)
      <3>3. ASSUME u = w, v # w PROVE FALSE
        <4>1. job[v].id = req[w].id /\ req[w].id \in RegIds
          BY <2>2, <2>3, <3>3
        <4> QED BY <2>1, <3>3, <4>1
      <3> QED BY <3>1, <3>2, <3>3
    <2>4. ASSUME NEW u \in Workers, NEW v \in Workers, NEW r \in RegIds, Registering(v, r)'
          PROVE  /\ job'[u].id = r => v = u
                 /\ Registering(u, r)' => v = u
      <3>1. req'[v] = req[v] /\ req'[u] = req[u]
        BY <2>2
      <3>2. Registering(v, r) /\ (Registering(u, r)' => Registering(u, r))
        BY <3>1, <2>4
      <3> QED BY <2>1, <2>2, <3>2
    <2> QED BY <2>3, <2>4
  <1>5. CASE Writes(w)
    <2>1. \A v \in Workers : job'[v].id = job[v].id /\ req'[v] = req[v]
      BY <1>5 DEF Writes, SameId, Local
    <2> QED BY <1>0, <2>1
  <1>6. CASE Gives(w) BY <1>6 DEF Gives, NoJob, NoRequest, Local
  <1>7. CASE GetsFwd(w)
    <2>1. \A v \in Workers : job'[v].id = job[v].id /\ req'[v] = req[v]
      BY <1>7 DEF GetsFwd, Local
    <2> QED BY <1>0, <2>1
  <1>8. CASE ForwardsNew(w)
    <2>1. \A v \in Workers : job'[v].id = job[v].id /\ req'[v] = req[v]
      BY <1>8 DEF ForwardsNew, Local
    <2> QED BY <1>0, <2>1
  <1>9. CASE SetsFwd(w)
    <2>1. \A v \in Workers : job'[v].id = job[v].id /\ req'[v] = req[v]
      BY <1>9 DEF SetsFwd, Local
    <2> QED BY <1>0, <2>1
  <1>10. CASE Ends(w) BY <1>10 DEF Ends, NoJob, NoRequest, Local
  <1> QED BY <1>1, <1>2, <1>3, <1>4, <1>5, <1>6, <1>7, <1>8, <1>9, <1>10 DEF Form

LEMMA FormWorksOn ==
  ASSUME ~SharedUpdates, Shape, IdsOK, OneWriter, WorksOn, LinkInv, RefusedInv, NEW w \in Workers, Form(w)
  PROVE  WorksOn'
  <1> USE IdsFacts DEF WorksOn, BeforeWrite, AfterWrite, IsRegister, IsNewRegistration, Local, SameWork, SameId, NoId
  <1>1. CASE Receives(w) BY <1>1 DEF Receives
  <1>2. CASE Quiet(w)
    <2>1. CASE Fails(w) BY <1>2, <2>1 DEF Quiet, Fails
    <2>2. CASE Proceeds(w) BY <1>2, <2>2 DEF Quiet, Proceeds
    <2>3. CASE Notifies(w) BY <1>2, <2>3 DEF Quiet, Notifies
    <2>4. CASE Succeeds(w) BY <1>2, <2>4 DEF Quiet, Succeeds
    <2>5. CASE Discovers(w) BY <1>2, <2>5 DEF Quiet, Discovers
    <2> QED BY <1>2, <2>1, <2>2, <2>3, <2>4, <2>5 DEF Quiet
  <1>3. CASE Takes(w) BY <1>3 DEF Takes, Free, LinkInv, SameButId, OneWriter
  <1>4. CASE Finds(w) BY <1>4 DEF Finds, SameButId
  <1>5. CASE Writes(w) BY <1>5 DEF Writes, OneWriter, Shape
  <1>6. CASE Gives(w) BY <1>6 DEF Gives, NoJob, NoRequest, Forwarded
  <1>7. CASE GetsFwd(w) BY <1>7 DEF GetsFwd
  <1>8. CASE ForwardsNew(w) BY <1>8 DEF ForwardsNew, IdsOK
  <1>9. CASE SetsFwd(w) BY <1>9 DEF SetsFwd, Shape
  <1>10. CASE Ends(w) BY <1>10 DEF Ends, NoJob, NoRequest
  <1> QED BY <1>1, <1>2, <1>3, <1>4, <1>5, <1>6, <1>7, <1>8, <1>9, <1>10 DEF Form

LEMMA FormLink ==
  ASSUME ~SharedUpdates, "link" \notin Faults, Shape, IdsOK, OneWriter, WorksOn, LinkInv,
         RefusedInv, NEW w \in Workers, Form(w)
  PROVE  LinkInv'
  <1> USE RegNumbers DEF LinkInv, Registering, AfterWrite, Local, NoId
  <1>1. CASE Receives(w)
    <2>1. PICK r \in Requests :
            /\ req'[w] = r
            /\ r.op = "register" /\ r.id # NoId => CanUpdate(r.id)
            /\ pc'[w] = IF Forward /\ r.op = "register" /\ r.id # NoId THEN "getFwd" ELSE "take"
      BY <1>1 DEF Receives
    <2>2. /\ \A v \in Workers \ {w} : pc'[v] = pc[v] /\ req'[v] = req[v]
          /\ \A v \in Workers : job'[v] = job[v]
          /\ UNCHANGED <<registrations, linked>>
      BY <1>1 DEF Receives
    <2>3. pc[w] = "idle" /\ req[w].op # "register"
      BY <1>1 DEF Receives, Shape, NoRequest
    <2>4. \A x \in RegIds : Registering(w, x)' => registrations[x].exists /\ (linked # {} => pc'[w] = "getFwd")
      BY <2>1 DEF CanUpdate
    <2> QED BY <2>2, <2>3, <2>4
  <1>2. CASE Quiet(w)
    <2>1. CASE Fails(w) BY <1>2, <2>1 DEF Quiet, Fails, SameWork, SameId
    <2>2. CASE Proceeds(w) BY <1>2, <2>2 DEF Quiet, Proceeds, SameWork, SameId
    <2>3. CASE Notifies(w) BY <1>2, <2>3 DEF Quiet, Notifies, SameWork, SameId
    <2>4. CASE Succeeds(w) BY <1>2, <2>4 DEF Quiet, Succeeds, SameWork, SameId
    <2>5. CASE Discovers(w) BY <1>2, <2>5 DEF Quiet, Discovers, SameWork, SameId
    <2> QED BY <1>2, <2>1, <2>2, <2>3, <2>4, <2>5 DEF Quiet
  <1>3. CASE Takes(w) BY <1>3 DEF Takes, SameButId
  <1>4. CASE Finds(w) BY <1>4 DEF Finds, SameButId
  <1>5. CASE Writes(w)
    <2>1. PICK doc : /\ doc.exists /\ doc.fwdRegId = NoId
                     /\ registrations' = [registrations EXCEPT ![job[w].id] = doc]
      BY <1>5 DEF Writes
    <2>2. /\ \A v \in Workers \ {w} : pc'[v] = pc[v] /\ job'[v] = job[v]
          /\ \A v \in Workers : req'[v] = req[v]
          /\ pc[w] = "upsert" /\ pc'[w] = "notify" /\ linked' = linked
          /\ job'[w].fwdRegId = job[w].fwdRegId /\ job'[w].code = "Ok"
      BY <1>5 DEF Writes, SameId
    <2>3. /\ job[w].id \in RegIds /\ IsRegister(req[w])
          /\ IF IsNewRegistration(req[w]) THEN ~registrations[job[w].id].exists
             ELSE job[w].id = req[w].id
      BY <2>2 DEF WorksOn, BeforeWrite
    <2>4. /\ registrations'[job[w].id].exists
          /\ \A r \in RegIds \ {job[w].id} : registrations'[r] = registrations[r]
      BY <2>1, <2>3 DEF Shape
    <2>5. job[w].id \in linked => Registering(w, job[w].id)
      BY <2>3 DEF IsRegister, IsNewRegistration
    <2>6. ASSUME NEW r \in linked
          PROVE  \/ registrations'[r].fwdRegId # NoId
                 \/ \E v \in Workers : /\ Registering(v, r)' /\ pc'[v] \in AfterWrite
                                      /\ job'[v].code = "Ok"
      <3>1. CASE r = job[w].id
        BY <2>2, <2>5, <3>1
      <3>2. CASE r # job[w].id /\ registrations[r].fwdRegId # NoId
        BY <2>4, <3>2
      <3>3. CASE r # job[w].id /\ registrations[r].fwdRegId = NoId
        <4>1. PICK v \in Workers : Registering(v, r) /\ pc[v] \in AfterWrite /\ job[v].code = "Ok"
          BY <3>3
        <4> QED BY <2>2, <4>1
      <3> QED BY <3>1, <3>2, <3>3
    <2>7. ASSUME NEW v \in Workers, NEW r \in RegIds, Registering(v, r)'
          PROVE  /\ registrations'[r].exists
                 /\ r \in linked /\ pc'[v] \notin {"getFwd", "forwardUpdate", "done"}
                      => job'[v].fwdRegId # NoId
      <3>1. Registering(v, r)
        BY <2>2, <2>7
      <3> QED BY <2>2, <2>4, <3>1
    <2> QED BY <2>2, <2>3, <2>4, <2>6, <2>7
  <1>6. CASE Gives(w)
    <2>1. /\ \A v \in Workers \ {w} : pc'[v] = pc[v] /\ job'[v] = job[v] /\ req'[v] = req[v]
          /\ pc[w] = "answer" /\ UNCHANGED <<registrations, linked>>
      BY <1>6 DEF Gives
    <2>2. CASE Forwarded(w)
      <3>1. /\ req'[w] = req[w] /\ job'[w] = job[w]
            /\ pc'[w] = IF req[w].id = NoId THEN "forwardNew" ELSE "setFwd"
        BY <1>6, <2>2 DEF Gives
      <3>2. \A r \in RegIds : Registering(w, r) => pc'[w] = "setFwd"
        BY <3>1
      <3> QED BY <2>1, <3>1, <3>2
    <2>3. CASE ~Forwarded(w)
      <3>1. req'[w].op # "register"
        BY <1>6, <2>3 DEF Gives, NoRequest
      <3>2. \A r \in linked : ~Registering(w, r)
        BY <2>3 DEF Forwarded
      <3>3. ASSUME NEW r \in linked, registrations[r].fwdRegId = NoId
            PROVE  \E v \in Workers : /\ Registering(v, r)' /\ pc'[v] \in AfterWrite
                                      /\ job'[v].code = "Ok"
        <4>1. PICK v \in Workers : Registering(v, r) /\ pc[v] \in AfterWrite /\ job[v].code = "Ok"
          BY <3>3
        <4>2. v # w
          BY <3>2, <4>1
        <4> QED BY <2>1, <4>1, <4>2
      <3>4. ASSUME NEW v \in Workers, NEW r \in RegIds, Registering(v, r)'
            PROVE  v # w /\ Registering(v, r)
        BY <2>1, <3>1, <3>4
      <3>5. /\ linked' \subseteq RegIds /\ (linked' # {} => Forward)
            /\ \A r \in linked' : registrations'[r].exists
        BY <2>1
      <3>6. ASSUME NEW v \in Workers, NEW r \in RegIds, Registering(v, r)'
            PROVE  /\ registrations'[r].exists
                   /\ r \in linked' /\ pc'[v] \notin {"getFwd", "forwardUpdate", "done"}
                        => job'[v].fwdRegId # NoId
        <4>1. v # w /\ Registering(v, r)
          BY <3>4, <3>6
        <4>2. pc'[v] = pc[v] /\ job'[v] = job[v]
          BY <2>1, <4>1
        <4> HIDE DEF Registering
        <4> QED BY <2>1, <4>1, <4>2
      <3> HIDE DEF Registering
      <3> QED BY <2>1, <3>3, <3>5, <3>6
    <2> QED BY <2>2, <2>3
  <1>7. CASE GetsFwd(w)
    <2>1. /\ \A v \in Workers \ {w} : pc'[v] = pc[v] /\ job'[v] = job[v]
          /\ \A v \in Workers : req'[v] = req[v]
          /\ pc[w] = "getFwd" /\ UNCHANGED <<registrations, linked>>
      BY <1>7 DEF GetsFwd
    <2>2. \A r \in RegIds : Registering(w, r) => job'[w].fwdRegId = registrations[r].fwdRegId
      BY <1>7, IdsFacts DEF GetsFwd
    <2>3. ASSUME NEW r \in linked, Registering(w, r), registrations[r].fwdRegId = NoId
          PROVE  FALSE
      <3>1. PICK v \in Workers : Registering(v, r) /\ pc[v] \in AfterWrite
        BY <2>3
      <3>2. v = w
        <4> HIDE DEF Registering, AfterWrite, Local, NoId
        <4>1. r \in RegIds
          OBVIOUS
        <4> HIDE DEF LinkInv
        <4> QED BY <2>3, <3>1, <4>1 DEF OneWriter
      <3> QED BY <2>1, <3>1, <3>2
    <2> QED BY <2>1, <2>2, <2>3
  <1>8. CASE ForwardsNew(w)
    <2>1. /\ \A v \in Workers \ {w} : pc'[v] = pc[v] /\ job'[v] = job[v]
          /\ \A v \in Workers : req'[v] = req[v]
          /\ pc[w] = "forwardNew" /\ pc'[w] \in {"setFwd", "done"} /\ UNCHANGED <<registrations, linked>>
          /\ pc'[w] = "setFwd" => job'[w].fwdRegId = Len(confman) + 1
      BY <1>8 DEF ForwardsNew
    <2>2. pc'[w] = "setFwd" => job'[w].fwdRegId # NoId
      BY <2>1, RegNumbers
    <2>3. \A v \in Workers, r \in RegIds : Registering(v, r)' <=> Registering(v, r)
      BY <2>1
    <2>4. \A v \in Workers : pc[v] \in AfterWrite =>
            v # w /\ pc'[v] = pc[v] /\ job'[v] = job[v]
      BY <2>1
    <2>5. linked \subseteq RegIds
      OBVIOUS
    <2>6. \A v \in Workers, r \in linked' :
            Registering(v, r)' /\ pc'[v] \notin {"getFwd", "forwardUpdate", "done"}
              => job'[v].fwdRegId # NoId
      <3> SUFFICES ASSUME NEW v \in Workers, NEW r \in linked', Registering(v, r)',
                          pc'[v] \notin {"getFwd", "forwardUpdate", "done"}
                   PROVE  job'[v].fwdRegId # NoId
        OBVIOUS
      <3>1. r \in linked /\ Registering(v, r)
        BY <2>1, <2>3, <2>5
      <3>2. CASE v = w
        BY <2>1, <2>2, <3>2
      <3>3. CASE v # w
        BY <2>1, <3>1, <3>3
      <3> QED BY <3>2, <3>3
    <2>7. \A r \in linked' :
            \/ registrations'[r].fwdRegId # NoId
            \/ \E v \in Workers : Registering(v, r)' /\ pc'[v] \in AfterWrite /\ job'[v].code = "Ok"
      <3> SUFFICES ASSUME NEW r \in linked, registrations[r].fwdRegId = NoId
                   PROVE  \E v \in Workers :
                            Registering(v, r)' /\ pc'[v] \in AfterWrite /\ job'[v].code = "Ok"
        BY <2>1
      <3>1. PICK v \in Workers : Registering(v, r) /\ pc[v] \in AfterWrite /\ job[v].code = "Ok"
        OBVIOUS
      <3>2. v # w /\ pc'[v] = pc[v] /\ job'[v] = job[v]
        BY <2>4, <3>1
      <3>3. Registering(v, r)'
        BY <2>3, <2>5, <3>1
      <3> HIDE DEF Registering, AfterWrite
      <3> QED BY <3>1, <3>2, <3>3
    <2> HIDE DEF Registering, AfterWrite
    <2> QED BY <2>1, <2>3, <2>5, <2>6, <2>7
  <1>9. CASE SetsFwd(w)
    <2>1. /\ \A v \in Workers \ {w} : pc'[v] = pc[v] /\ job'[v] = job[v]
          /\ \A v \in Workers : req'[v] = req[v]
          /\ job'[w] = job[w] /\ pc[w] = "setFwd"
          /\ pc'[w] = IF req[w].id = NoId THEN "done" ELSE "forwardUpdate"
      BY <1>9 DEF SetsFwd
    <2>2. Forward
      BY <2>1 DEF WorksOn
    <2>3. CASE /\ AnsweredId(w) \in RegIds /\ registrations[AnsweredId(w)].exists
      <3>1. PICK i \in RegIds : i = AnsweredId(w)
        BY <2>3
      <3>2. /\ registrations' = [registrations EXCEPT ![i].fwdRegId = job[w].fwdRegId]
            /\ linked' = IF job[w].fwdRegId = NoId THEN linked ELSE linked \union {i}
        BY <1>9, <2>3, <3>1 DEF SetsFwd
      <3>3. /\ \A r \in RegIds : registrations'[r].exists = registrations[r].exists
            /\ registrations'[i].fwdRegId = job[w].fwdRegId
            /\ \A r \in RegIds \ {i} : registrations'[r] = registrations[r]
        BY <3>2 DEF Shape
      <3>4. ASSUME NEW r \in linked, r # i, registrations[r].fwdRegId = NoId
            PROVE  \E v \in Workers : /\ Registering(v, r)' /\ pc'[v] \in AfterWrite
                                      /\ job'[v].code = "Ok"
        <4>1. PICK v \in Workers : Registering(v, r) /\ pc[v] \in AfterWrite /\ job[v].code = "Ok"
          BY <3>4
        <4>2. v # w
          BY <2>1, <3>1, <3>4, <4>1 DEF AnsweredId, WorksOn, IsRegister, IsNewRegistration
        <4> QED BY <2>1, <4>1, <4>2
      <3>5. ASSUME i \in linked, job[w].fwdRegId = NoId PROVE FALSE
        <4>1. req[w].op = "register" /\ ~IsNewRegistration(req[w])
          BY <2>1, <3>5 DEF WorksOn
        <4>2. i = req[w].id
          BY <2>1, <3>1, <4>1 DEF AnsweredId, WorksOn, IsRegister
        <4> QED BY <2>1, <3>5, <4>1, <4>2
      <3>6. ASSUME NEW v \in Workers, NEW r \in linked', Registering(v, r)',
                   pc'[v] \notin {"getFwd", "forwardUpdate", "done"}
            PROVE  job'[v].fwdRegId # NoId
        <4>1. v # w /\ Registering(v, r)
          BY <2>1, <3>6
        <4>2. CASE r \in linked BY <2>1, <3>6, <4>1, <4>2
        <4>3. CASE r \notin linked
          BY <2>1, <3>1, <3>2, <4>1, <4>3 DEF AnsweredId, WorksOn, IsRegister, OneWriter
        <4> QED BY <4>2, <4>3
      <3> QED BY <2>1, <2>2, <2>3, <3>1, <3>2, <3>3, <3>4, <3>5, <3>6
    <2>4. CASE ~(/\ AnsweredId(w) \in RegIds /\ registrations[AnsweredId(w)].exists)
      <3>1. UNCHANGED <<registrations, linked>>
        BY <1>9, <2>4 DEF SetsFwd
      <3>2. ASSUME NEW r \in linked, registrations[r].fwdRegId = NoId
            PROVE  \E v \in Workers : /\ Registering(v, r)' /\ pc'[v] \in AfterWrite
                                      /\ job'[v].code = "Ok"
        <4>1. PICK v \in Workers : Registering(v, r) /\ pc[v] \in AfterWrite /\ job[v].code = "Ok"
          BY <3>2
        <4>2. v # w
          BY <2>1, <2>4, <4>1 DEF AnsweredId, WorksOn, IsRegister, IsNewRegistration
        <4> QED BY <2>1, <4>1, <4>2
      <3> QED BY <2>1, <3>1, <3>2
    <2> QED BY <2>3, <2>4
  <1>10. CASE Ends(w) BY <1>10 DEF Ends, NoJob, NoRequest
  <1> QED BY <1>1, <1>2, <1>3, <1>4, <1>5, <1>6, <1>7, <1>8, <1>9, <1>10 DEF Form

-----------------------------------------------------------------------------
(* Subscriptions to what is registered                                      *)

\* A document of a subscription: numbers and vectors.
SubOK(doc) ==
  /\ DOMAIN doc = {"exists", "enV", "attrL", "expiration", "count", "lastNotification"}
  /\ doc.expiration \in Int /\ IsSeq(doc.attrL)

DocsOK ==
  /\ clock \in Nat
  /\ DOMAIN casubs = SubIds /\ \A s \in SubIds : SubOK(casubs[s])
  /\ \A w \in Workers : SubOK(job[w].read) /\ job[w].from \in Int
  /\ \A r \in RegIds : registrations[r].expiration \in Int /\ VectorsOf(registrations[r].crs)

Live(s) == casubs[s].exists /\ casubs[s].expiration > clock
Planned(s, plan) == \E t \in plan : t.sub = s
FromSubs(plan) == \A t \in plan : t.sub \in SubIds /\ t.attrL = casubs[t.sub].attrL

\* A handler begins with an empty map of subscriptions.
Begins(w) ==
  /\ pc[w] \in {"idle", "take", "getFwd", "findRegistration"} =>
       job[w].cr = 1 /\ job[w].triggered = {}
  /\ pc[w] = "findRegistration" => IsRegister(req[w])
  /\ pc[w] \in {"insert", "findSubscription", "replace", "remove", "discover",
                "discoverAssociations", "discoverAssociated"} => ~IsRegister(req[w])

\* addTriggeredSubscriptions has found every live subscription that asks for one
\* of the context registrations it has been called with.
Gathers(w) ==
  pc[w] \in BeforeWrite =>
    /\ IsRegister(req[w]) /\ job[w].id \in RegIds /\ job[w].cr \in Nat
    /\ pc[w] = "upsert" => job[w].cr = Len(req[w].crs) + 1
    /\ FromSubs(job[w].triggered)
    /\ \A s \in SubIds, i \in DOMAIN req[w].crs :
         i < job[w].cr /\ Live(s) /\ Interested(casubs[s], req[w].crs[i])
           => Planned(s, job[w].triggered)

\* After the write such a subscription has been notified, or is still to be.
Tells(w) ==
  pc[w] \in {"notify", "count", "answer"} /\ IsRegister(req[w]) /\ job[w].code = "Ok" =>
    /\ job[w].id \in RegIds /\ registrations[job[w].id].exists
    /\ registrations[job[w].id].crs = req[w].crs
    /\ FromSubs(job[w].todo)
    /\ pc[w] = "answer" => job[w].todo = {}
    /\ ~job[w].failed =>
         \A s \in SubIds, i \in DOMAIN req[w].crs :
           /\ Live(s) /\ registrations[job[w].id].expiration > clock
           /\ Interested(casubs[s], req[w].crs[i])
           => s \in job[w].notified \/ Planned(s, job[w].todo)

\* Which requests come to the steps that write a subscription.
SubOps ==
  \A w \in Workers :
    /\ pc[w] = "insert" => req[w].op = "subscribe"
    /\ pc[w] = "findSubscription" => req[w].op \in {"updateSubscription", "unsubscribe"}
    /\ pc[w] = "replace" => req[w].op = "updateSubscription"

Good(w) == Begins(w) /\ Gathers(w) /\ Tells(w)

InterestInv == DocsOK /\ SubOps /\ \A w \in Workers : Good(w)

\* The labels of the requests that register nothing.
NoRegistration == {"insert", "findSubscription", "replace", "remove", "discover",
                   "discoverAssociations", "discoverAssociated"}

LEMMA Elsewhere ==
  ASSUME NEW w \in Workers,
         pc'[w] \notin {"idle", "take", "getFwd", "findRegistration"} \union BeforeWrite,
         pc'[w] \in {"notify", "count", "answer"} => ~IsRegister(req'[w]) \/ job'[w].code # "Ok",
         pc'[w] \in NoRegistration => ~IsRegister(req'[w])
  PROVE  Good(w)'
  BY DEF Good, Begins, Gathers, Tells, BeforeWrite, NoRegistration

LEMMA AtStart ==
  ASSUME NEW w \in Workers,
         pc'[w] \in {"idle", "take", "getFwd", "findRegistration"},
         job'[w].cr = 1, job'[w].triggered = {},
         pc'[w] = "findRegistration" => IsRegister(req'[w])
  PROVE  Good(w)'
  BY DEF Good, Begins, Gathers, Tells, BeforeWrite

\* A handler that registers nothing, and one that fails.
LEMMA QuietElsewhere ==
  ASSUME NEW w \in Workers, Good(w), Quiet(w), pc[w] \in NoRegistration \/ Fails(w)
  PROVE  Good(w)'
  <1>1. pc[w] \in NoRegistration => ~IsRegister(req'[w])
    BY DEF Quiet, Good, Begins, NoRegistration
  <1>2. CASE Fails(w)
    BY <1>2, Elsewhere DEF Fails, BeforeWrite, NoRegistration
  <1>3. CASE pc[w] \in NoRegistration
    BY <1>1, <1>3, Elsewhere
       DEF Quiet, Fails, Proceeds, Notifies, Succeeds, Discovers, BeforeWrite, NoRegistration
  <1> QED BY <1>2, <1>3

LEMMA FormElsewhere ==
  ASSUME NEW w \in Workers, Gives(w) \/ ForwardsNew(w) \/ SetsFwd(w) \/ Ends(w)
  PROVE  Good(w)'
  <1>1. NoJob.cr = 1 /\ NoJob.triggered = {}
    BY DEF NoJob
  <1>2. CASE pc'[w] = "idle"
    <2>1. job'[w] = NoJob
      BY <1>2 DEF Gives, ForwardsNew, SetsFwd, Ends
    <2> QED BY <1>1, <1>2, <2>1, AtStart
  <1>3. CASE pc'[w] # "idle"
    <2>1. pc'[w] \in {"forwardNew", "setFwd", "done", "forwardUpdate"}
      BY <1>3 DEF Gives, ForwardsNew, SetsFwd, Ends
    <2> QED BY <2>1, Elsewhere DEF BeforeWrite, NoRegistration
  <1> QED BY <1>2, <1>3

LEMMA BeginsGood ==
  ASSUME Shape, NEW w \in Workers, Good(w), ReceiveRequest(w) \/ mongoGetFwdRegId(w)
  PROVE  Good(w)'
  <1>1. CASE ReceiveRequest(w)
    <2>1. pc[w] = "idle" /\ job' = job
      BY <1>1 DEF ReceiveRequest
    <2>2. pc'[w] \in {"take", "getFwd"}
      BY <1>1, StepForms, GotoEffect DEF ReceiveRequest
    <2> QED BY <2>1, <2>2, AtStart DEF Good, Begins
  <1>2. CASE mongoGetFwdRegId(w)
    <2>1. pc[w] = "getFwd" /\ pc'[w] = "take"
      BY <1>2, GotoEffect DEF mongoGetFwdRegId
    <2>2. job'[w].cr = job[w].cr /\ job'[w].triggered = job[w].triggered
      <3>1. CASE job' = job
        BY <3>1
      <3>2. CASE job' # job
        <4>1. PICK f : SetJob(w, [job[w] EXCEPT !.fwdRegId = f])
          BY <1>2, <3>2 DEF mongoGetFwdRegId
        <4>2. job'[w] = [job[w] EXCEPT !.fwdRegId = f]
          BY <4>1, SetJobEffect
        <4> QED BY <4>2 DEF Shape
      <3> QED BY <3>1, <3>2
    <2> QED BY <2>1, <2>2, AtStart DEF Good, Begins
  <1> QED BY <1>1, <1>2

LEMMA AtAssociations ==
  ASSUME NEW w \in Workers, pc'[w] = "associations", IsRegister(req'[w]),
         job'[w].id \in RegIds, job'[w].cr = 1, job'[w].triggered = {}, req'[w] \in Requests
  PROVE  Good(w)'
  <1>1. IsSeq(req'[w].crs)
    BY RequestsAssumption
  <1>2. \A i \in DOMAIN req'[w].crs : ~(i < 1)
    BY <1>1, SeqDomain
  <1> QED BY <1>2 DEF Good, Begins, Gathers, Tells, BeforeWrite, FromSubs

LEMMA RegisterIsRequest ==
  ASSUME Shape, NEW w \in Workers, IsRegister(req[w])
  PROVE  /\ req[w] \in Requests /\ VectorsOf(req[w].crs)
         /\ req[w].duration \in Nat \union {Absent}
  <1>1. req[w] \in Requests
    BY DEF Shape, NoRequest, IsRegister
  <1> QED BY <1>1, RequestsAssumption DEF VectorsOf

LEMMA FormByLabel ==
  ASSUME NEW w \in Workers, Form(w)
  PROVE  /\ pc[w] = "take" => Takes(w)
         /\ pc[w] = "answer" => Gives(w)
         /\ pc[w] = "forwardNew" => ForwardsNew(w)
         /\ pc[w] = "setFwd" => SetsFwd(w)
         /\ pc[w] \in {"forwardUpdate", "done"} => Ends(w)
         /\ pc[w] \in NoRegistration \union {"associations", "trigger", "notify", "count"}
              => Quiet(w)
  <1>1. Receives(w) => pc[w] = "idle"
    BY DEF Receives
  <1>2. Quiet(w) => pc[w] \in WriteSection \union NoRegistration
    BY DEF Quiet, Fails, Proceeds, Notifies, Succeeds, Discovers, WriteSection, NoRegistration
  <1>3. Takes(w) => pc[w] = "take"
    BY DEF Takes
  <1>4. Finds(w) => pc[w] = "findRegistration"
    BY DEF Finds
  <1>5. Writes(w) => pc[w] = "upsert"
    BY DEF Writes
  <1>6. Gives(w) => pc[w] = "answer"
    BY DEF Gives
  <1>7. GetsFwd(w) => pc[w] = "getFwd"
    BY DEF GetsFwd
  <1>8. ForwardsNew(w) => pc[w] = "forwardNew"
    BY DEF ForwardsNew
  <1>9. SetsFwd(w) => pc[w] = "setFwd"
    BY DEF SetsFwd
  <1>10. Ends(w) => pc[w] \in {"forwardUpdate", "done"}
    BY DEF Ends
  <1> QED BY <1>1, <1>2, <1>3, <1>4, <1>5, <1>6, <1>7, <1>8, <1>9, <1>10
          DEF Form, WriteSection, NoRegistration

LEMMA TakeGood ==
  ASSUME Shape, NEW w \in Workers, Good(w), TakeSem(w)
  PROVE  Good(w)'
  <1>1. Takes(w) /\ pc[w] = "take" /\ req' = req
    BY StepForms, FormByLabel DEF Step, TakeSem
  <1>2. job[w].cr = 1 /\ job[w].triggered = {}
    BY <1>1 DEF Good, Begins
  <1>3. job'[w].cr = job[w].cr /\ job'[w].triggered = job[w].triggered
    <2>1. CASE job' = job
      BY <2>1
    <2>2. ASSUME NEW r, SetJob(w, [job[w] EXCEPT !.id = r, !.from = clock])
          PROVE  job'[w].cr = job[w].cr /\ job'[w].triggered = job[w].triggered
      <3>1. job'[w] = [job[w] EXCEPT !.id = r, !.from = clock]
        BY <2>2, SetJobEffect
      <3> QED BY <3>1 DEF Shape
    <2>3. ASSUME NEW s, SetJob(w, [job[w] EXCEPT !.id = s])
          PROVE  job'[w].cr = job[w].cr /\ job'[w].triggered = job[w].triggered
      BY <2>3, SetJobEffect DEF Shape
    <2> QED BY <2>1, <2>2, <2>3 DEF TakeSem
  <1>4. CASE IsNewRegistration(req[w]) /\ pc'[w] = "associations"
    <2>1. job'[w].id \in RegIds
      BY <1>1, <1>4 DEF Takes, Free
    <2>2. IsRegister(req[w])
      BY <1>4 DEF IsNewRegistration, IsRegister
    <2> QED BY <1>1, <1>2, <1>3, <1>4, <2>1, <2>2, AtAssociations, RegisterIsRequest
  <1>5. CASE req[w].op = "register" /\ pc'[w] = "findRegistration"
    BY <1>1, <1>2, <1>3, <1>5, AtStart DEF IsRegister
  <1>6. CASE ~IsRegister(req[w]) /\ pc'[w] \in NoRegistration
    BY <1>1, <1>6, Elsewhere DEF NoRegistration, BeforeWrite
  <1> QED BY <1>1, <1>4, <1>5, <1>6 DEF Takes, IsRegister, NoRegistration

LEMMA FindGood ==
  ASSUME Shape, NEW w \in Workers, Good(w), FindRegistration(w)
  PROVE  Good(w)'
  <1>1. pc[w] = "findRegistration" /\ req' = req
    BY DEF FindRegistration
  <1>2. IsRegister(req[w]) /\ job[w].cr = 1 /\ job[w].triggered = {}
    BY <1>1 DEF Good, Begins
  <1>3. ASSUME NEW code \in {"ReceiverInternalError", "ContextElementNotFound"}, Fail(w, code)
        PROVE  Good(w)'
    <2>1. pc'[w] = "answer" /\ job'[w].code # "Ok"
      BY <1>3, FailEffect
    <2> QED BY <2>1, Elsewhere DEF NoRegistration, BeforeWrite
  <1>4. CASE /\ Registered(req[w].id, req[w].path) /\ Goto(w, "associations")
             /\ SetJob(w, [job[w] EXCEPT !.id = req[w].id, !.from = clock])
    <2>1. job'[w] = [job[w] EXCEPT !.id = req[w].id, !.from = clock] /\ pc'[w] = "associations"
      BY <1>4, SetJobEffect, GotoEffect
    <2>2. job'[w].id \in RegIds /\ job'[w].cr = 1 /\ job'[w].triggered = {}
      BY <1>2, <1>4, <2>1 DEF Shape, Registered
    <2> QED BY <1>1, <1>2, <2>1, <2>2, AtAssociations, RegisterIsRequest
  <1> QED BY <1>3, <1>4 DEF FindRegistration

\* What processAssociations and TriggerQuery do not change.
LEMMA AssociationsGood ==
  ASSUME Shape, NEW w \in Workers, Good(w), processAssociations(w)
  PROVE  Good(w)'
  <1>1. /\ pc[w] = "associations" /\ Quiet(w)
        /\ UNCHANGED <<clock, casubs, registrations, req>>
    BY QuietSteps DEF processAssociations
  <1>2. CASE Fails(w)
    BY <1>1, <1>2, QuietElsewhere
  <1>3. CASE ~Fails(w)
    <2>1. pc'[w] \in {"associations", "trigger"}
      BY <1>1, <1>3 DEF Quiet, Proceeds, Notifies, Succeeds, Discovers
    <2>2. /\ job'[w].cr = job[w].cr /\ job'[w].triggered = job[w].triggered
          /\ job'[w].id = job[w].id
      <3>1. CASE job' = job
        BY <3>1
      <3>2. CASE job' # job
        <4>1. ~Fail(w, "ReceiverInternalError")
          BY <1>3, <1>1, FailEffect DEF Fails
        <4>2. PICK m : SetJob(w, [job[w] EXCEPT !.md = m])
          BY <3>2, <4>1 DEF processAssociations
        <4>3. job'[w] = [job[w] EXCEPT !.md = m]
          BY <4>2, SetJobEffect
        <4> QED BY <4>3 DEF Shape
      <3> QED BY <3>1, <3>2
    <2>3. Gathers(w)'
      BY <1>1, <2>1, <2>2 DEF Good, Gathers, BeforeWrite, FromSubs, Planned, Live
    <2> QED BY <2>1, <2>3 DEF Good, Begins, Tells
  <1> QED BY <1>2, <1>3

\* The two queries of addTriggeredSubscriptions find who is interested.
LEMMA TriggersInterested ==
  ASSUME NEW cr, NEW s \in SubIds, Live(s), Interested(casubs[s], cr)
  PROVE  s \in addTriggeredSubscriptions(cr)
  <1> DEFINE sub == casubs[s]
  <1>1. NoPatternMatch(cr, sub) \/ PatternMatch(cr, sub)
    BY DEF Interested, NoPatternMatch, PatternMatch
  <1> QED BY <1>1 DEF addTriggeredSubscriptions, Live

LEMMA TriggerGood ==
  ASSUME Shape, NEW w \in Workers, Good(w), TriggerQuery(w)
  PROVE  Good(w)'
  <1>1. /\ pc[w] = "trigger" /\ Quiet(w)
        /\ UNCHANGED <<clock, casubs, registrations, req>>
    BY QuietSteps DEF TriggerQuery, data
  <1>2. CASE Fails(w)
    BY <1>1, <1>2, QuietElsewhere
  <1>3. CASE ~Fails(w)
    <2> DEFINE new == {s \in addTriggeredSubscriptions(Cr(w)) :
                         ~\E t \in job[w].triggered : t.sub = s}
               more == {[sub |-> s, attrL |-> casubs[s].attrL] : s \in new}
    <2>1. ~Fail(w, "ReceiverInternalError")
      BY <1>1, <1>3, FailEffect DEF Fails
    <2>2. /\ SetJob(w, [job[w] EXCEPT !.triggered = @ \union more, !.cr = @ + 1, !.md = 1])
          /\ Goto(w, IF job[w].cr = Len(req[w].crs) THEN "upsert" ELSE "associations")
      BY <2>1 DEF TriggerQuery
    <2>3. job'[w] = [job[w] EXCEPT !.triggered = @ \union more, !.cr = @ + 1, !.md = 1]
      BY <2>2, SetJobEffect
    <2>4. /\ job'[w].triggered = job[w].triggered \union more
          /\ job'[w].cr = job[w].cr + 1 /\ job'[w].id = job[w].id
      <3> HIDE DEF more
      <3> QED BY <2>3 DEF Shape
    <2>5. pc'[w] = IF job[w].cr = Len(req[w].crs) THEN "upsert" ELSE "associations"
      BY <2>2, GotoEffect
    <2>6. /\ IsRegister(req[w]) /\ job[w].id \in RegIds /\ job[w].cr \in Nat
          /\ FromSubs(job[w].triggered)
          /\ \A s \in SubIds, i \in DOMAIN req[w].crs :
               i < job[w].cr /\ Live(s) /\ Interested(casubs[s], req[w].crs[i])
                 => Planned(s, job[w].triggered)
      BY <1>1 DEF Good, Gathers, BeforeWrite
    <2>7. \A t \in more : t.sub \in SubIds /\ t.attrL = casubs[t.sub].attrL
      BY DEF addTriggeredSubscriptions
    <2>8. \A s \in addTriggeredSubscriptions(Cr(w)) : Planned(s, job[w].triggered \union more)
      <3> SUFFICES ASSUME NEW s \in addTriggeredSubscriptions(Cr(w)),
                          ~Planned(s, job[w].triggered)
                   PROVE  Planned(s, job[w].triggered \union more)
        BY DEF Planned
      <3>1. [sub |-> s, attrL |-> casubs[s].attrL] \in more
        BY DEF Planned
      <3> HIDE DEF more
      <3> QED BY <3>1 DEF Planned
    <2> HIDE DEF more
    <2>9. FromSubs(job[w].triggered)'
      BY <1>1, <2>4, <2>6, <2>7 DEF FromSubs
    <2>10. ASSUME NEW s \in SubIds, NEW i \in DOMAIN req[w].crs, i < job[w].cr + 1,
                  Live(s), Interested(casubs[s], req[w].crs[i])
           PROVE  Planned(s, job'[w].triggered)
      <3>1. i \in Nat
        BY <2>6, RegisterIsRequest, SeqDomain DEF VectorsOf
      <3>2. CASE i < job[w].cr
        BY <2>4, <2>6, <2>10, <3>2 DEF Planned
      <3>3. CASE i = job[w].cr
        <4>1. s \in addTriggeredSubscriptions(Cr(w))
          BY <2>10, <3>3, TriggersInterested DEF Cr
        <4> QED BY <2>4, <2>8, <4>1
      <3> QED BY <2>6, <2>10, <3>1, <3>2, <3>3
    <2>11. Gathers(w)'
      <3>1. \A s \in SubIds : (Live(s))' = Live(s)
        BY <1>1 DEF Live
      <3>2. pc'[w] = "upsert" => job'[w].cr = Len(req[w].crs) + 1
        BY <2>4, <2>5
      <3>3. job'[w].cr \in Nat
        BY <2>4, <2>6
      <3>4. \A s \in SubIds, i \in DOMAIN req'[w].crs :
               i < job'[w].cr /\ Live(s)' /\ Interested(casubs'[s], req'[w].crs[i])
                 => Planned(s, job'[w].triggered)
        BY <1>1, <2>4, <2>10, <3>1
      <3>5. IsRegister(req'[w]) /\ job'[w].id \in RegIds
        BY <1>1, <2>4, <2>6
      <3> QED BY <1>1, <2>9, <3>2, <3>3, <3>4, <3>5 DEF Gathers, Planned, FromSubs
    <2> QED BY <2>5, <2>11 DEF Good, Begins, Tells
  <1> QED BY <1>2, <1>3

LEMMA UpsertGood ==
  ASSUME Shape, NEW w \in Workers, Good(w), processRegisterContext(w)
  PROVE  Good(w)'
  <1>1. pc[w] = "upsert" /\ UNCHANGED <<clock, casubs, req>>
    BY DEF processRegisterContext
  <1>2. CASE Fail(w, "ReceiverInternalError")
    BY <1>2, FailEffect, Elsewhere DEF NoRegistration, BeforeWrite
  <1>3. CASE ~Fail(w, "ReceiverInternalError")
    <2> DEFINE doc == [exists |-> TRUE, crs |-> req[w].crs, path |-> req[w].path, fwdRegId |-> NoId,
                       expiration |-> job[w].from + (IF req[w].duration = Absent THEN DefaultDuration
                                                     ELSE req[w].duration)]
    <2>1. /\ registrations' = [registrations EXCEPT ![job[w].id] = doc]
          /\ SetJob(w, [job[w] EXCEPT !.todo = job[w].triggered, !.wrote = TRUE, !.code = "Ok"])
          /\ Goto(w, "notify")
      BY <1>3 DEF processRegisterContext
    <2>2. doc.exists /\ doc.crs = req[w].crs
      OBVIOUS
    <2> HIDE DEF doc
    <2>3. job'[w] = [job[w] EXCEPT !.todo = job[w].triggered, !.wrote = TRUE, !.code = "Ok"]
      BY <2>1, SetJobEffect
    <2>4. /\ job'[w].todo = job[w].triggered /\ job'[w].id = job[w].id
      BY <2>3 DEF Shape
    <2>5. /\ IsRegister(req[w]) /\ job[w].id \in RegIds /\ job[w].cr = Len(req[w].crs) + 1
          /\ FromSubs(job[w].triggered)
          /\ \A s \in SubIds, i \in DOMAIN req[w].crs :
               i < job[w].cr /\ Live(s) /\ Interested(casubs[s], req[w].crs[i])
                 => Planned(s, job[w].triggered)
      BY <1>1 DEF Good, Gathers, BeforeWrite
    <2>6. registrations'[job[w].id] = doc
      BY <2>1, <2>5 DEF Shape
    <2>7. \A i \in DOMAIN req[w].crs : i < job[w].cr
      <3>1. DOMAIN req[w].crs = 1..Len(req[w].crs) /\ Len(req[w].crs) \in Nat
        BY <2>5, RegisterIsRequest, SeqDomain DEF VectorsOf
      <3> QED BY <2>5, <3>1
    <2>8. pc'[w] = "notify"
      BY <2>1, GotoEffect
    <2>9. Tells(w)'
      <3>1. \A s \in SubIds : (Live(s))' = Live(s)
        BY <1>1 DEF Live
      <3>2. FromSubs(job[w].todo)'
        BY <1>1, <2>4, <2>5 DEF FromSubs
      <3>3. \A s \in SubIds, i \in DOMAIN req'[w].crs :
              Live(s)' /\ Interested(casubs'[s], req'[w].crs[i]) => Planned(s, job'[w].todo)
        BY <1>1, <2>4, <2>5, <2>7, <3>1
      <3>4. /\ job'[w].id \in RegIds /\ registrations'[job'[w].id].exists
            /\ registrations'[job'[w].id].crs = req'[w].crs
        BY <1>1, <2>2, <2>4, <2>5, <2>6
      <3> QED BY <2>8, <3>2, <3>3, <3>4 DEF Tells, Planned, FromSubs
    <2> QED BY <2>8, <2>9 DEF Good, Begins, Gathers, BeforeWrite
  <1> QED BY <1>2, <1>3

\* The collection as a sequence.
LEMMA DocumentsSeq ==
  ASSUME Shape, DocsOK
  PROVE  /\ Len(Documents) \in Nat /\ DOMAIN Documents = 1..Len(Documents)
         /\ \A d \in 1..Len(Documents) : VectorsOf(Documents[d].crs)
         /\ \A r \in RegIds : registrations[r].exists =>
              \E d \in 1..Len(Documents) : Documents[d] = registrations[r]
  <1> DEFINE n == Cardinality(RegIds)
             ps == [r \in DOMAIN registrations |-> IF registrations[r].exists
                                                   THEN <<registrations[r]>> ELSE <<>>]
  <1>1. n \in Nat /\ RegIds = 1..n /\ DOMAIN registrations = RegIds
    BY RegistrationsAssumption, FS_CardinalityType DEF Shape
  <1> HIDE DEF n
  <1>2. Documents = FlattenSeq(ps)
    BY DEF Documents, Those
  <1>3. ps = [r \in 1..n |-> ps[r]]
    BY <1>1
  <1>4. ASSUME NEW r \in 1..n
        PROVE  IsSeq(ps[r]) /\ (ps[r] = <<registrations[r]>> \/ ps[r] = <<>>)
    BY <1>1, SmallSeqs, Zenon
  <1>5. ASSUME NEW r \in RegIds, registrations[r].exists PROVE ps[r] = <<registrations[r]>>
    BY <1>1, <1>5
  <1> HIDE DEF ps
  <1>6. /\ IsSeq(Documents)
        /\ \A x : x \in Range(Documents) <=> \E r \in 1..n : x \in Range(ps[r])
    BY <1>1, <1>2, <1>3, <1>4, FlattenSeqs
  <1>7. Len(Documents) \in Nat /\ DOMAIN Documents = 1..Len(Documents)
    BY <1>6, SeqDomain
  <1>8. ASSUME NEW d \in 1..Len(Documents) PROVE VectorsOf(Documents[d].crs)
    <2>1. Documents[d] \in Range(Documents)
      BY <1>7 DEF Range
    <2>2. PICK r \in 1..n : Documents[d] \in Range(ps[r])
      BY <1>6, <2>1
    <2>3. Documents[d] = registrations[r]
      BY <1>4, <2>2, SmallSeqs
    <2> QED BY <1>1, <2>3 DEF DocsOK
  <1>9. ASSUME NEW r \in RegIds, registrations[r].exists
        PROVE  \E d \in 1..Len(Documents) : Documents[d] = registrations[r]
    <2>1. registrations[r] \in Range(ps[r])
      BY <1>5, <1>9, SmallSeqs
    <2>2. registrations[r] \in Range(Documents)
      BY <1>1, <1>6, <2>1
    <2> QED BY <1>7, <2>2 DEF Range
  <1> QED BY <1>7, <1>8, <1>9

\* The query of processAvailabilitySubscription finds the registration for
\* everyone who is interested in it.
LEMMA RegistrationFound ==
  ASSUME Shape, DocsOK, NEW w \in Workers, IsRegister(req[w]),
         NEW r \in RegIds, registrations[r].exists, registrations[r].crs = req[w].crs,
         registrations[r].expiration > clock,
         NEW s \in SubIds, NEW i \in DOMAIN req[w].crs, Interested(casubs[s], req[w].crs[i])
  PROVE  registrationsQuery(Documents, NotifyEntities(w), casubs[s].attrL, <<>>, clock, 0, 0).crrV
           # <<>>
  <1> DEFINE crs == req[w].crs
             es == [c \in DOMAIN crs |-> crs[c].entities]
             enV == NotifyEntities(w)
             attrL == casubs[s].attrL
  <1>1. VectorsOf(crs) /\ Len(crs) \in Nat /\ DOMAIN crs = 1..Len(crs)
    BY RegisterIsRequest, SeqDomain DEF VectorsOf
  <1>2. PICK k \in DOMAIN crs[i].entities :
          /\ crs[i].entities[k].isPattern = "false"
          /\ crs[i].entities[k].type # AnyType
    BY DEF Interested
  <1>3. attrL = <<>> \/ Range(crs[i].attrs) \intersect Range(attrL) # {}
    BY DEF Interested
  <1>4. \E j \in DOMAIN enV : enV[j] = crs[i].entities[k]
    <2>1. enV = FlattenSeq(es)
      BY DEF NotifyEntities
    <2>2. es = [c \in 1..Len(crs) |-> es[c]] /\ \A c \in 1..Len(crs) : IsSeq(es[c])
      BY <1>1 DEF VectorsOf
    <2>3. crs[i].entities[k] \in Range(es[i])
      BY DEF Range
    <2> HIDE DEF es
    <2>4. crs[i].entities[k] \in Range(enV)
      BY <1>1, <2>1, <2>2, <2>3, FlattenSeqs
    <2> QED BY <2>4 DEF Range
  <1>5. IsSeq(attrL)
    BY DEF DocsOK, SubOK
  <1>6. PICK d \in 1..Len(Documents) : Documents[d] = registrations[r]
    BY DocumentsSeq
  <1>7. /\ Len(Documents) \in Nat /\ DOMAIN Documents = 1..Len(Documents)
        /\ \A m \in 1..Len(Documents) : VectorsOf(Documents[m].crs)
    BY DocumentsSeq
  <1> DEFINE docs == Documents
             n == Len(Documents)
             now == clock
  <1> HIDE DEF docs, enV, attrL, n, now
  <1>8. /\ n \in Nat /\ DOMAIN docs = 1..n /\ (\A m \in 1..n : VectorsOf(docs[m].crs))
        /\ d \in 1..n /\ docs[d].expiration > now /\ i \in DOMAIN docs[d].crs
        /\ k \in DOMAIN docs[d].crs[i].entities
        /\ docs[d].crs[i].entities[k].isPattern = "false"
        /\ docs[d].crs[i].entities[k].type # AnyType
        /\ \E j \in DOMAIN enV : enV[j] = docs[d].crs[i].entities[k]
        /\ attrL = <<>> \/ Range(docs[d].crs[i].attrs) \intersect Range(attrL) # {}
    BY <1>2, <1>3, <1>4, <1>6, <1>7 DEF docs, n, now
  <1>9. registrationsQuery(docs, enV, attrL, <<>>, now, 0, 0).crrV # <<>>
    BY <1>5, <1>8, QueryFinds
  <1> QED BY <1>9 DEF docs, enV, attrL, now

LEMMA NotifyGood ==
  ASSUME Shape, DocsOK, NEW w \in Workers, Good(w), processAvailabilitySubscription(w)
  PROVE  Good(w)'
  <1>1. /\ pc[w] = "notify" /\ Quiet(w)
        /\ UNCHANGED <<clock, casubs, registrations, req>>
    BY QuietSteps, ZenonT(60) DEF processAvailabilitySubscription
  <1>2. pc'[w] \in {"notify", "count"} /\ job'[w].code = job[w].code /\ job'[w].id = job[w].id
    <2>1. ~Fails(w) /\ ~Succeeds(w) /\ ~Discovers(w)
      BY <1>1 DEF Fails, Succeeds, Discovers
    <2>2. Proceeds(w) => pc'[w] = "answer"
      BY <1>1 DEF Proceeds
    <2>3. pc'[w] # "answer"
      <3>1. pc' = pc \/ Goto(w, "count")
        BY ZenonT(60) DEF processAvailabilitySubscription
      <3> QED BY <1>1, <3>1, GotoEffect
    <2> QED BY <1>1, <2>1, <2>2, <2>3 DEF Quiet, Notifies, SameId
  <1>3. CASE ~IsRegister(req[w]) \/ job[w].code # "Ok"
    BY <1>1, <1>2, <1>3, Elsewhere DEF NoRegistration, BeforeWrite
  <1>4. CASE IsRegister(req[w]) /\ job[w].code = "Ok"
    <2>1. /\ job[w].id \in RegIds /\ registrations[job[w].id].exists
          /\ registrations[job[w].id].crs = req[w].crs
          /\ FromSubs(job[w].todo)
          /\ ~job[w].failed =>
               \A s \in SubIds, i \in DOMAIN req[w].crs :
                 /\ Live(s) /\ registrations[job[w].id].expiration > clock
                 /\ Interested(casubs[s], req[w].crs[i])
                 => s \in job[w].notified \/ Planned(s, job[w].todo)
      BY <1>1, <1>4 DEF Good, Tells
    <2>2. PICK t, crrV :
            /\ t \in job[w].todo
            /\ crrV = registrationsQuery(Documents, NotifyEntities(w), t.attrL, <<>>, clock, 0, 0).crrV
            /\ LET rest == [job[w] EXCEPT !.todo = @ \ {t}]
               IN  \/ SetJob(w, [rest EXCEPT !.failed = TRUE])
                   \/ crrV = <<>> /\ SetJob(w, rest)
                   \/ SetJob(w, [rest EXCEPT !.sub = t.sub, !.crrV = crrV,
                                             !.notified = @ \union {t.sub}])
      BY DEF processAvailabilitySubscription
    <2> DEFINE rest == [job[w] EXCEPT !.todo = @ \ {t}]
    <2>3. /\ job'[w].todo = job[w].todo \ {t}
          /\ \/ job'[w].failed = TRUE
             \/ /\ job'[w].failed = job[w].failed
                /\ \/ crrV = <<>> /\ job'[w].notified = job[w].notified
                   \/ job'[w].notified = job[w].notified \union {t.sub}
      <3>1. CASE SetJob(w, [rest EXCEPT !.failed = TRUE])
        <4>1. job'[w] = [rest EXCEPT !.failed = TRUE]
          BY <3>1, SetJobEffect
        <4> QED BY <4>1 DEF Shape
      <3>2. CASE crrV = <<>> /\ SetJob(w, rest)
        <4>1. job'[w] = rest
          BY <3>2, SetJobEffect
        <4> QED BY <3>2, <4>1 DEF Shape
      <3>3. CASE SetJob(w, [rest EXCEPT !.sub = t.sub, !.crrV = crrV,
                                        !.notified = @ \union {t.sub}])
        <4>1. job'[w] = [rest EXCEPT !.sub = t.sub, !.crrV = crrV,
                                     !.notified = @ \union {t.sub}]
          BY <3>3, SetJobEffect
        <4> QED BY <4>1 DEF Shape
      <3> HIDE DEF rest
      <3> QED BY <2>2, <3>1, <3>2, <3>3 DEF rest
    <2> HIDE DEF rest
    <2>4. ASSUME ~job'[w].failed, NEW s \in SubIds, NEW i \in DOMAIN req[w].crs,
                 Live(s), registrations[job[w].id].expiration > clock,
                 Interested(casubs[s], req[w].crs[i])
          PROVE  s \in job'[w].notified \/ Planned(s, job'[w].todo)
      <3>1. s \in job[w].notified \/ Planned(s, job[w].todo)
        BY <2>1, <2>3, <2>4
      <3>2. CASE s \in job[w].notified
        BY <2>3, <2>4, <3>2
      <3>3. ASSUME NEW u \in job[w].todo, u.sub = s, u # t
            PROVE  Planned(s, job'[w].todo)
        BY <2>3, <3>3 DEF Planned
      <3>4. CASE t.sub = s
        <4>1. t.attrL = casubs[s].attrL
          BY <2>1, <2>2, <3>4 DEF FromSubs
        <4>2. crrV # <<>>
          BY <1>4, <2>1, <2>2, <2>4, <4>1, RegistrationFound
        <4> QED BY <2>3, <2>4, <3>4, <4>2
      <3> QED BY <3>1, <3>2, <3>3, <3>4 DEF Planned
    <2>5. \A s \in SubIds : (Live(s))' = Live(s)
      BY <1>1 DEF Live
    <2>6. FromSubs(job[w].todo)'
      BY <1>1, <2>1, <2>3 DEF FromSubs
    <2>7. Tells(w)'
      BY <1>1, <1>2, <2>1, <2>4, <2>5, <2>6 DEF Tells, Planned
    <2> QED BY <1>2, <2>7 DEF Good, Begins, Gathers, BeforeWrite
  <1> QED BY <1>3, <1>4

\* Only the counter of the subscription changes, and when it was notified.
LEMMA CountDocs ==
  ASSUME DocsOK, NEW w \in Workers, mongoUpdateCasubNewNotification(w)
  PROVE  /\ DOMAIN casubs' = SubIds
         /\ \A s \in SubIds :
              /\ SubOK(casubs'[s]) /\ casubs'[s].exists = casubs[s].exists
              /\ casubs'[s].expiration = casubs[s].expiration
              /\ casubs'[s].enV = casubs[s].enV /\ casubs'[s].attrL = casubs[s].attrL
  <1>1. CASE casubs' = casubs
    BY <1>1 DEF DocsOK
  <1>2. CASE casubs' # casubs
    <2>1. casubs' = [casubs EXCEPT ![job[w].sub] =
             IF @.exists THEN [@ EXCEPT !.count = @ + 1, !.lastNotification = clock] ELSE @]
      BY <1>2 DEF mongoUpdateCasubNewNotification
    <2>2. DOMAIN casubs = SubIds /\ \A s \in SubIds : SubOK(casubs[s])
      BY DEF DocsOK
    <2>3. ASSUME NEW s \in SubIds
          PROVE  /\ DOMAIN casubs'[s] = DOMAIN casubs[s] /\ casubs'[s].exists = casubs[s].exists
                 /\ casubs'[s].expiration = casubs[s].expiration
                 /\ casubs'[s].enV = casubs[s].enV /\ casubs'[s].attrL = casubs[s].attrL
      <3>1. CASE s # job[w].sub
        BY <2>1, <2>2, <3>1
      <3>2. CASE s = job[w].sub
        BY <2>1, <2>2, <3>2 DEF SubOK
      <3> QED BY <3>1, <3>2
    <2>4. DOMAIN casubs' = SubIds
      BY <2>1, <2>2
    <2> QED BY <2>2, <2>3, <2>4 DEF SubOK
  <1> QED BY <1>1, <1>2

LEMMA CountGood ==
  ASSUME Shape, DocsOK, NEW w \in Workers, Good(w), mongoUpdateCasubNewNotification(w)
  PROVE  Good(w)'
  <1>1. /\ pc[w] = "count" /\ UNCHANGED <<clock, registrations, req>>
        /\ pc'[w] = "notify"
        /\ job'[w] = [job[w] EXCEPT !.sub = NoId]
    BY GotoEffect, SetJobEffect DEF mongoUpdateCasubNewNotification
  <1>2. /\ job'[w].todo = job[w].todo /\ job'[w].notified = job[w].notified
        /\ job'[w].failed = job[w].failed /\ job'[w].id = job[w].id /\ job'[w].code = job[w].code
    BY <1>1 DEF Shape
  <1>3. ASSUME NEW s \in SubIds
        PROVE  /\ casubs'[s].attrL = casubs[s].attrL
               /\ (Live(s))' = Live(s)
               /\ \A cr : Interested(casubs'[s], cr) <=> Interested(casubs[s], cr)
    BY <1>1, CountDocs DEF Live, Interested
  <1>4. Tells(w)'
    <2> SUFFICES ASSUME IsRegister(req[w]), job[w].code = "Ok" PROVE Tells(w)'
      BY <1>1, <1>2 DEF Tells
    <2>1. /\ job[w].id \in RegIds /\ registrations[job[w].id].exists
          /\ registrations[job[w].id].crs = req[w].crs
          /\ FromSubs(job[w].todo)
          /\ ~job[w].failed =>
               \A s \in SubIds, i \in DOMAIN req[w].crs :
                 /\ Live(s) /\ registrations[job[w].id].expiration > clock
                 /\ Interested(casubs[s], req[w].crs[i])
                 => s \in job[w].notified \/ Planned(s, job[w].todo)
      BY <1>1 DEF Good, Tells
    <2>2. FromSubs(job[w].todo)'
      BY <1>2, <1>3, <2>1 DEF FromSubs
    <2>3. ~job'[w].failed =>
            \A s \in SubIds, i \in DOMAIN req'[w].crs :
              /\ (Live(s))' /\ registrations'[job'[w].id].expiration > clock'
              /\ Interested(casubs'[s], req'[w].crs[i])
              => s \in job'[w].notified \/ Planned(s, job'[w].todo)
      <3> SUFFICES ASSUME ~job'[w].failed, NEW s \in SubIds, NEW i \in DOMAIN req'[w].crs,
                          (Live(s))', registrations'[job'[w].id].expiration > clock',
                          Interested(casubs'[s], req'[w].crs[i])
                   PROVE  s \in job'[w].notified \/ Planned(s, job'[w].todo)
        OBVIOUS
      <3>1. /\ Live(s) /\ registrations[job[w].id].expiration > clock
            /\ Interested(casubs[s], req[w].crs[i])
        BY <1>1, <1>2, <1>3
      <3> QED BY <1>1, <1>2, <2>1, <3>1
    <2>4. /\ job'[w].id \in RegIds /\ registrations'[job'[w].id].exists
          /\ registrations'[job'[w].id].crs = req'[w].crs
      BY <1>1, <1>2, <2>1
    <2> QED BY <1>1, <2>2, <2>3, <2>4 DEF Tells, Planned
  <1> QED BY <1>1, <1>4 DEF Good, Begins, Gathers, BeforeWrite

LEMMA NotifyDoneGood ==
  ASSUME Shape, NEW w \in Workers, Good(w), NotifyDone(w)
  PROVE  Good(w)'
  <1>1. /\ pc[w] = "notify" /\ pc'[w] = "answer" /\ job[w].todo = {}
        /\ UNCHANGED <<clock, registrations, casubs, req, job>>
    BY GotoEffect DEF NotifyDone, data
  <1>2. Tells(w)'
    BY <1>1 DEF Good, Tells, FromSubs, Planned, Live
  <1> QED BY <1>1, <1>2 DEF Good, Begins, Gathers, BeforeWrite

\* Who may change the documents: a request that writes, and mongoSetFwdRegId.
LEMMA StepDocs ==
  ASSUME NEW w \in Workers, ReceiveRequest(w) \/ Step(w)
  PROVE  /\ clock' = clock
         /\ \/ UNCHANGED <<registrations, casubs>>
            \/ pc[w] \in WriteSection
            \/ pc[w] = "setFwd" /\ WithReqSem("write")
  <1> USE DEF data, WriteSection
  <1>1. CASE ReceiveRequest(w)
    BY <1>1 DEF ReceiveRequest
  <1>2. CASE TakeSem(w)
    BY <1>2 DEF TakeSem
  <1>3. CASE FindRegistration(w)
    BY <1>3 DEF FindRegistration
  <1>4. CASE processAssociations(w)
    BY <1>4 DEF processAssociations
  <1>5. CASE TriggerQuery(w)
    BY <1>5 DEF TriggerQuery
  <1>6. CASE processRegisterContext(w)
    BY <1>6 DEF processRegisterContext
  <1>7. CASE processAvailabilitySubscription(w)
    BY <1>7, ZenonT(60) DEF processAvailabilitySubscription
  <1>8. CASE mongoUpdateCasubNewNotification(w)
    BY <1>8 DEF mongoUpdateCasubNewNotification
  <1>9. CASE NotifyDone(w)
    BY <1>9 DEF NotifyDone
  <1>10. CASE mongoSubscribeContextAvailability(w)
    BY <1>10 DEF mongoSubscribeContextAvailability
  <1>11. CASE FindSubscription(w)
    BY <1>11 DEF FindSubscription
  <1>12. CASE mongoUpdateContextAvailabilitySubscription(w)
    BY <1>12 DEF mongoUpdateContextAvailabilitySubscription
  <1>13. CASE mongoUnsubscribeContextAvailability(w)
    BY <1>13 DEF mongoUnsubscribeContextAvailability
  <1>14. CASE conventionalDiscoverContextAvailability(w)
    BY <1>14 DEF conventionalDiscoverContextAvailability
  <1>15. CASE StartAssociations(w)
    BY <1>15 DEF StartAssociations
  <1>16. CASE associationsDiscoverContextAvailability(w)
    BY <1>16 DEF associationsDiscoverContextAvailability
  <1>17. CASE GiveSem(w)
    BY <1>17 DEF GiveSem
  <1>18. CASE mongoGetFwdRegId(w)
    BY <1>18 DEF mongoGetFwdRegId
  <1>19. CASE ForwardNew(w)
    BY <1>19 DEF ForwardNew
  <1>20. CASE mongoSetFwdRegId(w)
    BY <1>20 DEF mongoSetFwdRegId
  <1>21. CASE ForwardUpdate(w)
    BY <1>21 DEF ForwardUpdate
  <1>22. CASE ForwardDone(w)
    BY <1>22 DEF ForwardDone
  <1> QED BY <1>1, <1>2, <1>3, <1>4, <1>5, <1>6, <1>7, <1>8, <1>9, <1>10, <1>11, <1>12, <1>13, <1>14, <1>15, <1>16, <1>17, <1>18, <1>19, <1>20, <1>21, <1>22 DEF Step

\* What a step keeps in 'read' and 'from'.
ReadOK(w) ==
  /\ job'[w].read \in {job[w].read, NoSub} \union {casubs[s] : s \in SubIds}
  /\ job'[w].from \in {job[w].from, Absent, clock}

LEMMA StepRead ==
  ASSUME Shape, NEW w \in Workers, ReceiveRequest(w) \/ Step(w)
  PROVE  ReadOK(w)
  <1>0. /\ NoJob.read = NoSub /\ NoJob.from = Absent
        /\ job'[w] = job[w] \/ job'[w] = NoJob => ReadOK(w)
    BY DEF NoJob, ReadOK
  <1>a. ASSUME NEW code, Fail(w, code) PROVE ReadOK(w)
    <2>1. job'[w] = [[job[w] EXCEPT !.code = code] EXCEPT !.failed = TRUE]
      BY <1>a, AnswerEffect DEF Fail
    <2> QED BY <2>1 DEF Shape, ReadOK
  <1> USE SetJobEffect, AnswerEffect
  <1>1. CASE ReceiveRequest(w)
    BY <1>1, <1>0 DEF ReceiveRequest
  <1>2. CASE TakeSem(w)
    <2>1. ASSUME NEW r, SetJob(w, [job[w] EXCEPT !.id = r, !.from = clock]) PROVE ReadOK(w)
      <3>1. job'[w] = [job[w] EXCEPT !.id = r, !.from = clock]
        BY <2>1
      <3> QED BY <3>1 DEF Shape, ReadOK
    <2>2. ASSUME NEW r, SetJob(w, [job[w] EXCEPT !.id = r]) PROVE ReadOK(w)
      <3>1. job'[w] = [job[w] EXCEPT !.id = r]
        BY <2>2
      <3> QED BY <3>1 DEF Shape, ReadOK
    <2> QED BY <1>2, <1>0, <2>1, <2>2 DEF TakeSem
  <1>3. CASE FindRegistration(w)
    <2>1. ASSUME NEW r, SetJob(w, [job[w] EXCEPT !.id = r, !.from = clock]) PROVE ReadOK(w)
      <3>1. job'[w] = [job[w] EXCEPT !.id = r, !.from = clock]
        BY <2>1
      <3> QED BY <3>1 DEF Shape, ReadOK
    <2> QED BY <1>3, <1>a, <2>1 DEF FindRegistration
  <1>4. CASE processAssociations(w)
    <2>1. ASSUME NEW m, SetJob(w, [job[w] EXCEPT !.md = m]) PROVE ReadOK(w)
      <3>1. job'[w] = [job[w] EXCEPT !.md = m]
        BY <2>1
      <3> QED BY <3>1 DEF Shape, ReadOK
    <2> QED BY <1>4, <1>0, <1>a, <2>1 DEF processAssociations
  <1>5. CASE TriggerQuery(w)
    <2>1. ASSUME NEW T, NEW c, SetJob(w, [job[w] EXCEPT !.triggered = T, !.cr = c, !.md = 1])
          PROVE  ReadOK(w)
      <3>1. job'[w] = [job[w] EXCEPT !.triggered = T, !.cr = c, !.md = 1]
        BY <2>1
      <3> QED BY <3>1 DEF Shape, ReadOK
    <2> QED BY <1>5, <1>a, <2>1 DEF TriggerQuery
  <1>6. CASE processRegisterContext(w)
    <2>1. ASSUME SetJob(w, [job[w] EXCEPT !.todo = job[w].triggered, !.wrote = TRUE, !.code = "Ok"])
          PROVE  ReadOK(w)
      <3>1. job'[w] = [job[w] EXCEPT !.todo = job[w].triggered, !.wrote = TRUE, !.code = "Ok"]
        BY <2>1
      <3> QED BY <3>1 DEF Shape, ReadOK
    <2> QED BY <1>6, <1>a, <2>1 DEF processRegisterContext
  <1>7. CASE processAvailabilitySubscription(w)
    <2>1. PICK t, crrV :
            LET rest == [job[w] EXCEPT !.todo = @ \ {t}]
            IN  \/ SetJob(w, [rest EXCEPT !.failed = TRUE])
                \/ SetJob(w, rest)
                \/ SetJob(w, [rest EXCEPT !.sub = t.sub, !.crrV = crrV,
                                          !.notified = @ \union {t.sub}])
      BY <1>7 DEF processAvailabilitySubscription
    <2> DEFINE rest == [job[w] EXCEPT !.todo = @ \ {t}]
    <2>2. CASE SetJob(w, [rest EXCEPT !.failed = TRUE])
      <3>1. job'[w] = [rest EXCEPT !.failed = TRUE]
        BY <2>2
      <3> QED BY <3>1 DEF Shape, ReadOK
    <2>3. CASE SetJob(w, rest)
      <3>1. job'[w] = rest
        BY <2>3
      <3> QED BY <3>1 DEF Shape, ReadOK
    <2>4. CASE SetJob(w, [rest EXCEPT !.sub = t.sub, !.crrV = crrV,
                                      !.notified = @ \union {t.sub}])
      <3>1. job'[w] = [rest EXCEPT !.sub = t.sub, !.crrV = crrV,
                                   !.notified = @ \union {t.sub}]
        BY <2>4
      <3> QED BY <3>1 DEF Shape, ReadOK
    <2> HIDE DEF rest
    <2> QED BY <2>1, <2>2, <2>3, <2>4 DEF rest
  <1>8. CASE mongoUpdateCasubNewNotification(w)
    <2>1. job'[w] = [job[w] EXCEPT !.sub = NoId]
      BY <1>8 DEF mongoUpdateCasubNewNotification
    <2> QED BY <2>1 DEF Shape, ReadOK
  <1>9. CASE NotifyDone(w)
    BY <1>9, <1>0 DEF NotifyDone
  <1>x. ASSUME NEW s, SetJob(w, NotifyItself(w, s)) PROVE ReadOK(w)
    <2>1. job'[w] = NotifyItself(w, s)
      BY <1>x
    <2> QED BY <2>1 DEF NotifyItself, Shape, ReadOK
  <1>10. CASE mongoSubscribeContextAvailability(w)
    BY <1>10, <1>a, <1>x DEF mongoSubscribeContextAvailability
  <1>11. CASE FindSubscription(w)
    <2>1. ASSUME NEW s \in SubIds, SetJob(w, [job[w] EXCEPT !.read = casubs[s]])
          PROVE  ReadOK(w)
      <3>1. job'[w] = [job[w] EXCEPT !.read = casubs[s]]
        BY <2>1
      <3> QED BY <3>1 DEF Shape, ReadOK
    <2> QED BY <1>11, <1>a, <2>1 DEF FindSubscription, Subscribed
  <1>12. CASE mongoUpdateContextAvailabilitySubscription(w)
    BY <1>12, <1>a, <1>x DEF mongoUpdateContextAvailabilitySubscription
  <1>y. ASSUME NEW code, Answer(w, [job[w] EXCEPT !.code = code]) PROVE ReadOK(w)
    <2>1. job'[w] = [job[w] EXCEPT !.code = code]
      BY <1>y
    <2> QED BY <2>1 DEF Shape, ReadOK
  <1>13. CASE mongoUnsubscribeContextAvailability(w)
    BY <1>13, <1>a, <1>y DEF mongoUnsubscribeContextAvailability
  <1>14. CASE conventionalDiscoverContextAvailability(w)
    <2>1. ASSUME NEW c, NEW code, Answer(w, [job[w] EXCEPT !.crrV = c, !.code = code])
          PROVE  ReadOK(w)
      <3>1. job'[w] = [job[w] EXCEPT !.crrV = c, !.code = code]
        BY <2>1
      <3> QED BY <3>1 DEF Shape, ReadOK
    <2> QED BY <1>14, <1>a, <2>1 DEF conventionalDiscoverContextAvailability
  <1>15. CASE StartAssociations(w)
    <2>1. ASSUME NEW f, SetJob(w, [job[w] EXCEPT !.found = f]) PROVE ReadOK(w)
      <3>1. job'[w] = [job[w] EXCEPT !.found = f]
        BY <2>1
      <3> QED BY <3>1 DEF Shape, ReadOK
    <2> QED BY <1>15, <1>a, <2>1 DEF StartAssociations
  <1>16. CASE associationsDiscoverContextAvailability(w)
    <2>1. ASSUME NEW f, NEW c, SetJob(w, [job[w] EXCEPT !.found = f, !.crrV = c])
          PROVE  ReadOK(w)
      <3>1. job'[w] = [job[w] EXCEPT !.found = f, !.crrV = c]
        BY <2>1
      <3> QED BY <3>1 DEF Shape, ReadOK
    <2> QED BY <1>16, <1>a, <1>y, <2>1 DEF associationsDiscoverContextAvailability
  <1>17. CASE GiveSem(w)
    BY <1>17, <1>0 DEF GiveSem
  <1>z. ASSUME NEW f, SetJob(w, [job[w] EXCEPT !.fwdRegId = f]) PROVE ReadOK(w)
    <2>1. job'[w] = [job[w] EXCEPT !.fwdRegId = f]
      BY <1>z
    <2> QED BY <2>1 DEF Shape, ReadOK
  <1>18. CASE mongoGetFwdRegId(w)
    BY <1>18, <1>0, <1>z DEF mongoGetFwdRegId
  <1>19. CASE ForwardNew(w)
    BY <1>19, <1>0, <1>z DEF ForwardNew
  <1>20. CASE mongoSetFwdRegId(w)
    BY <1>20, <1>0 DEF mongoSetFwdRegId
  <1>21. CASE ForwardUpdate(w)
    BY <1>21, <1>0 DEF ForwardUpdate
  <1>22. CASE ForwardDone(w)
    BY <1>22, <1>0 DEF ForwardDone
  <1> QED BY <1>1, <1>2, <1>3, <1>4, <1>5, <1>6, <1>7, <1>8, <1>9, <1>10, <1>11, <1>12, <1>13, <1>14, <1>15, <1>16, <1>17, <1>18, <1>19, <1>20, <1>21, <1>22 DEF Step

LEMMA SubOpsStep ==
  ASSUME Shape, SubOps, NEW w \in Workers, ReceiveRequest(w) \/ Step(w)
  PROVE  SubOps'
  <1>1. Form(w)
    BY StepForms
  <1>2. Local(w)
    BY <1>1 DEF Form, Receives, Quiet, Takes, Finds, Writes, Gives, GetsFwd, ForwardsNew, SetsFwd, Ends
  <1>3. /\ pc'[w] = "insert" => req'[w].op = "subscribe"
        /\ pc'[w] = "findSubscription" => req'[w].op \in {"updateSubscription", "unsubscribe"}
        /\ pc'[w] = "replace" => req'[w].op = "updateSubscription"
    <2>1. CASE FindSubscription(w)
      <3>1. pc[w] = "findSubscription" /\ req' = req
        BY <2>1 DEF FindSubscription
      <3>2. \/ pc'[w] = "answer"
            \/ pc'[w] = IF req[w].op = "unsubscribe" THEN "remove" ELSE "replace"
        BY <2>1, FailEffect, GotoEffect DEF FindSubscription
      <3> QED BY <3>1, <3>2 DEF SubOps
    <2>2. CASE ~FindSubscription(w)
      <3>1. pc[w] # "findSubscription"
        BY <2>2 DEF Step, ReceiveRequest, TakeSem, FindRegistration, processAssociations,
             TriggerQuery, processRegisterContext, processAvailabilitySubscription,
             mongoUpdateCasubNewNotification, NotifyDone, mongoSubscribeContextAvailability,
             mongoUpdateContextAvailabilitySubscription, mongoUnsubscribeContextAvailability,
             conventionalDiscoverContextAvailability, StartAssociations,
             associationsDiscoverContextAvailability, GiveSem, mongoGetFwdRegId, ForwardNew,
             mongoSetFwdRegId, ForwardUpdate, ForwardDone
      <3>2. CASE Takes(w)
        BY <3>2 DEF Takes
      <3>3. CASE ~Takes(w)
        <4>1. pc'[w] \notin {"insert", "findSubscription", "replace"}
          BY <1>1, <3>1, <3>3 DEF Form, Receives, Quiet, Finds, Writes, Gives, GetsFwd,
               ForwardsNew, SetsFwd, Ends, Fails, Proceeds, Notifies, Succeeds, Discovers
        <4> QED BY <4>1
      <3> QED BY <3>2, <3>3
    <2> QED BY <2>1, <2>2
  <1> QED BY <1>2, <1>3 DEF SubOps, Local

LEMMA SubsDocs ==
  ASSUME Shape, DocsOK, SubOps, NEW w \in Workers, ReceiveRequest(w) \/ Step(w)
  PROVE  DOMAIN casubs' = SubIds /\ \A s \in SubIds : SubOK(casubs'[s])
  <1>0. DOMAIN casubs = SubIds /\ \A s \in SubIds : SubOK(casubs[s])
    BY DEF DocsOK
  <1>1. CASE casubs' = casubs
    BY <1>0, <1>1
  <1>2. ASSUME NEW x, NEW d, casubs' = [casubs EXCEPT ![x] = d], x \in SubIds => SubOK(d)
        PROVE  DOMAIN casubs' = SubIds /\ \A s \in SubIds : SubOK(casubs'[s])
    <2>1. \A s \in SubIds : casubs'[s] = casubs[s] \/ (s = x /\ casubs'[s] = d)
      BY <1>0, <1>2
    <2> QED BY <1>0, <1>2, <2>1
  <1>3. Absent \in Int /\ clock \in Nat /\ DefaultDuration \in Nat
    BY RequestsAssumption DEF Absent, DocsOK
  <1>4. CASE mongoUpdateCasubNewNotification(w)
    BY <1>4, CountDocs
  <1>5. CASE mongoSubscribeContextAvailability(w) /\ casubs' # casubs
    <2> DEFINE ex == clock + (IF req[w].duration = Absent THEN DefaultDuration ELSE req[w].duration)
               d == [NoSub EXCEPT !.exists = TRUE, !.enV = req[w].enV, !.attrL = req[w].attrL,
                                  !.expiration = ex]
    <2>1. casubs' = [casubs EXCEPT ![job[w].id] = d] /\ pc[w] = "insert"
      BY <1>5 DEF mongoSubscribeContextAvailability
    <2>2. req[w].op = "subscribe"
      BY <2>1 DEF SubOps
    <2>3. req[w] \in Requests
      BY <2>2 DEF Shape, NoRequest
    <2>4. IsSeq(req[w].attrL) /\ req[w].duration \in Nat \union {Absent}
      BY <2>2, <2>3, RequestsAssumption
    <2>5. ex \in Int
      BY <1>3, <2>4
    <2> HIDE DEF ex
    <2>6. SubOK(d)
      BY <2>4, <2>5 DEF SubOK, NoSub
    <2> HIDE DEF d
    <2> QED BY <1>2, <2>1, <2>6
  <1>6. CASE mongoUpdateContextAvailabilitySubscription(w) /\ casubs' # casubs
    <2> DEFINE x == req[w].id
               rd == job[w].read
               ex == IF req[w].duration = Absent THEN rd.expiration ELSE clock + req[w].duration
               new == [rd EXCEPT !.enV = req[w].enV, !.attrL = req[w].attrL, !.expiration = ex]
    <2>1. /\ casubs' = [casubs EXCEPT ![x] = IF casubs[x].exists THEN new ELSE casubs[x]]
          /\ pc[w] = "replace"
      BY <1>6 DEF mongoUpdateContextAvailabilitySubscription
    <2>2. req[w].op = "updateSubscription"
      BY <2>1 DEF SubOps
    <2>3. req[w] \in Requests
      BY <2>2 DEF Shape, NoRequest
    <2>4. IsSeq(req[w].attrL) /\ req[w].duration \in Nat \union {Absent}
      BY <2>2, <2>3, RequestsAssumption
    <2>5. SubOK(rd)
      BY DEF DocsOK
    <2>6. ex \in Int
      BY <1>3, <2>4, <2>5 DEF SubOK
    <2> HIDE DEF ex, rd
    <2>7. SubOK(new)
      BY <2>4, <2>5, <2>6 DEF SubOK
    <2> HIDE DEF new
    <2> DEFINE d == IF casubs[x].exists THEN new ELSE casubs[x]
    <2>8. x \in SubIds => SubOK(d)
      BY <1>0, <2>7
    <2> QED BY <1>2, <2>1, <2>8
  <1>7. CASE mongoUnsubscribeContextAvailability(w) /\ casubs' # casubs
    <2>1. casubs' = [casubs EXCEPT ![req[w].id] = NoSub]
      BY <1>7 DEF mongoUnsubscribeContextAvailability
    <2>2. SubOK(NoSub)
      BY <1>3, SmallSeqs DEF SubOK, NoSub
    <2> QED BY <1>2, <2>1, <2>2
  <1>8. CASE /\ ~mongoUpdateCasubNewNotification(w) /\ ~mongoSubscribeContextAvailability(w)
             /\ ~mongoUpdateContextAvailabilitySubscription(w)
             /\ ~mongoUnsubscribeContextAvailability(w)
    <2>1. ~processAvailabilitySubscription(w) => casubs' = casubs
      BY <1>8 DEF data, Step, ReceiveRequest, TakeSem, FindRegistration, processAssociations,
             TriggerQuery, processRegisterContext,
             NotifyDone, FindSubscription,
             conventionalDiscoverContextAvailability, StartAssociations,
             associationsDiscoverContextAvailability, GiveSem, mongoGetFwdRegId, ForwardNew,
             mongoSetFwdRegId, ForwardUpdate, ForwardDone
    <2>2. processAvailabilitySubscription(w) => casubs' = casubs
      BY ZenonT(60) DEF processAvailabilitySubscription
    <2> QED BY <1>1, <2>1, <2>2
  <1> QED BY <1>1, <1>4, <1>5, <1>6, <1>7, <1>8

LEMMA RegsDocs ==
  ASSUME Shape, DocsOK, NEW w \in Workers, Good(w), ReceiveRequest(w) \/ Step(w)
  PROVE  \A r \in RegIds : registrations'[r].expiration \in Int /\ VectorsOf(registrations'[r].crs)
  <1>0. \A r \in RegIds : registrations[r].expiration \in Int /\ VectorsOf(registrations[r].crs)
    BY DEF DocsOK
  <1>1. Form(w)
    BY StepForms
  <1>2. CASE processRegisterContext(w)
    <2>1. CASE registrations' = registrations
      BY <1>0, <2>1
    <2>2. CASE registrations' # registrations
      <3> DEFINE ex == job[w].from + (IF req[w].duration = Absent THEN DefaultDuration
                                      ELSE req[w].duration)
                 doc == [exists |-> TRUE, crs |-> req[w].crs, path |-> req[w].path,
                         fwdRegId |-> NoId, expiration |-> ex]
      <3>1. registrations' = [registrations EXCEPT ![job[w].id] = doc] /\ pc[w] = "upsert"
        BY <1>2, <2>2 DEF processRegisterContext
      <3>2. IsRegister(req[w])
        BY <3>1 DEF Good, Gathers, BeforeWrite
      <3>3. ex \in Int
        BY <3>2, RegisterIsRequest, RequestsAssumption DEF Absent, DocsOK
      <3>4. VectorsOf(req[w].crs)
        BY <3>2, RegisterIsRequest
      <3> HIDE DEF ex
      <3>5. doc.expiration \in Int /\ VectorsOf(doc.crs)
        BY <3>3, <3>4
      <3> HIDE DEF doc
      <3>6. \A r \in RegIds : registrations'[r] = registrations[r] \/ registrations'[r] = doc
        BY <3>1 DEF Shape
      <3> QED BY <1>0, <3>5, <3>6
    <2> QED BY <2>1, <2>2
  <1>3. CASE SetsFwd(w)
    <2>1. \A r \in RegIds : /\ registrations'[r].expiration = registrations[r].expiration
                            /\ registrations'[r].crs = registrations[r].crs
      BY <1>3 DEF SetsFwd, Shape
    <2> QED BY <1>0, <2>1
  <1>4. CASE ~processRegisterContext(w) /\ ~SetsFwd(w)
    <2>1. ~Writes(w)
      <3>1. pc[w] # "upsert"
        BY <1>4 DEF Step, ReceiveRequest, TakeSem, FindRegistration, processAssociations,
             TriggerQuery, processAvailabilitySubscription,
             mongoUpdateCasubNewNotification, NotifyDone, mongoSubscribeContextAvailability,
             FindSubscription,
             mongoUpdateContextAvailabilitySubscription, mongoUnsubscribeContextAvailability,
             conventionalDiscoverContextAvailability, StartAssociations,
             associationsDiscoverContextAvailability, GiveSem, mongoGetFwdRegId, ForwardNew,
             mongoSetFwdRegId, ForwardUpdate, ForwardDone
      <3> QED BY <3>1 DEF Writes
    <2>2. registrations' = registrations
      BY <1>1, <1>4, <2>1 DEF Form, Receives, Quiet, Takes, Finds, Gives, GetsFwd,
               ForwardsNew, Ends
    <2> QED BY <1>0, <2>2
  <1> QED BY <1>2, <1>3, <1>4

LEMMA FormLocal ==
  ASSUME NEW w \in Workers, Form(w)
  PROVE  Local(w)
  BY DEF Form, Receives, Quiet, Takes, Finds, Writes, Gives, GetsFwd, ForwardsNew, SetsFwd, Ends

LEMMA DocsStep ==
  ASSUME Shape, DocsOK, SubOps, NEW w \in Workers, Good(w), ReceiveRequest(w) \/ Step(w)
  PROVE  DocsOK'
  <1>1. clock' \in Nat
    BY StepDocs DEF DocsOK
  <1>2. ASSUME NEW v \in Workers PROVE SubOK(job'[v].read) /\ job'[v].from \in Int
    <2>1. CASE v # w
      BY <2>1, StepForms, FormLocal DEF Local, DocsOK
    <2>2. CASE v = w
      <3>1. SubOK(NoSub) /\ Absent \in Int
        BY SmallSeqs DEF SubOK, NoSub, Absent
      <3>2. ReadOK(w)
        BY StepRead
      <3> QED BY <2>2, <3>1, <3>2 DEF ReadOK, DocsOK
    <2> QED BY <2>1, <2>2
  <1>3. DOMAIN casubs' = SubIds /\ \A s \in SubIds : SubOK(casubs'[s])
    BY SubsDocs
  <1>4. \A r \in RegIds : registrations'[r].expiration \in Int /\ VectorsOf(registrations'[r].crs)
    BY RegsDocs
  <1> QED BY <1>1, <1>2, <1>3, <1>4 DEF DocsOK, SubOK

\* Other threads: the documents do not change while a thread registers.
LEMMA OtherGood ==
  ASSUME Shape, SemInv, Policy \in {"all", "write"}, NEW v \in Workers, NEW w \in Workers, v # w,
         Good(v), ReceiveRequest(w) \/ Step(w)
  PROVE  Good(v)'
  <1>1. pc'[v] = pc[v] /\ req'[v] = req[v] /\ job'[v] = job[v]
    BY StepForms, FormLocal DEF Local
  <1>2. CASE UNCHANGED <<registrations, casubs>>
    <2>1. clock' = clock
      BY StepDocs
    <2>2. \A s \in SubIds : (Live(s))' = Live(s)
      BY <1>2, <2>1 DEF Live
    <2>3. Begins(v)'
      BY <1>1 DEF Good, Begins
    <2>4. Gathers(v)'
      BY <1>1, <1>2, <2>2 DEF Good, Gathers, Planned, FromSubs
    <2>5. Tells(v)'
      BY <1>1, <1>2, <2>1, <2>2 DEF Good, Tells, Planned, FromSubs
    <2> QED BY <2>3, <2>4, <2>5 DEF Good
  <1>3. CASE ~UNCHANGED <<registrations, casubs>>
    <2>1. ~reqSemTaken[v]
      <3>1. CASE pc[w] \in WriteSection
        <4>1. reqSemTaken[w]
          BY <3>1 DEF SemInv, Section, Kind, Bypassed
        <4> QED BY <4>1 DEF SemInv, SemLock
      <3>2. CASE WithReqSem("write")
        BY <3>2 DEF WithReqSem, Bypassed, SemInv, SemLock
      <3> QED BY <1>3, <3>1, <3>2, StepDocs
    <2>2. pc[v] \notin WriteSection /\ (pc[v] = "answer" => ~IsRegister(req[v]))
      BY <2>1 DEF SemInv, Section, Kind, Bypassed, IsRegister
    <2> QED BY <1>1, <2>2 DEF Good, Begins, Gathers, Tells, BeforeWrite, WriteSection
  <1> QED BY <1>2, <1>3

\* The clock only takes subscriptions and registrations out of the invariant.
LEMMA TickGood ==
  ASSUME DocsOK, NEW w \in Workers, Good(w), Tick
  PROVE  Good(w)'
  <1>1. /\ clock' = clock + 1 /\ UNCHANGED <<registrations, casubs, pc, req, job>>
        /\ clock \in Nat
    BY DEF Tick, DocsOK
  <1>2. \A s \in SubIds : (Live(s))' => Live(s)
    BY <1>1 DEF Live, DocsOK, SubOK
  <1>3. \A r \in RegIds : registrations'[r].expiration > clock' => registrations[r].expiration > clock
    BY <1>1 DEF DocsOK
  <1>4. Begins(w)'
    BY <1>1 DEF Good, Begins
  <1>5. Gathers(w)'
    BY <1>1, <1>2 DEF Good, Gathers, Planned, FromSubs
  <1>6. Tells(w)'
    BY <1>1, <1>2, <1>3 DEF Good, Tells, Planned, FromSubs
  <1> QED BY <1>4, <1>5, <1>6 DEF Good

LEMMA StepGood ==
  ASSUME Shape, DocsOK, NEW w \in Workers, Good(w), ReceiveRequest(w) \/ Step(w)
  PROVE  Good(w)'
  <1>0. Form(w)
    BY StepForms
  <1>1. CASE ReceiveRequest(w) \/ mongoGetFwdRegId(w)
    BY <1>1, BeginsGood
  <1>2. CASE TakeSem(w)
    BY <1>2, TakeGood
  <1>3. CASE FindRegistration(w)
    BY <1>3, FindGood
  <1>4. CASE processAssociations(w)
    BY <1>4, AssociationsGood
  <1>5. CASE TriggerQuery(w)
    BY <1>5, TriggerGood
  <1>6. CASE processRegisterContext(w)
    BY <1>6, UpsertGood
  <1>7. CASE processAvailabilitySubscription(w)
    BY <1>7, NotifyGood
  <1>8. CASE mongoUpdateCasubNewNotification(w)
    BY <1>8, CountGood
  <1>9. CASE NotifyDone(w)
    BY <1>9, NotifyDoneGood
  <1>10. CASE \/ mongoSubscribeContextAvailability(w) \/ FindSubscription(w)
              \/ mongoUpdateContextAvailabilitySubscription(w)
              \/ mongoUnsubscribeContextAvailability(w)
              \/ conventionalDiscoverContextAvailability(w) \/ StartAssociations(w)
              \/ associationsDiscoverContextAvailability(w)
    <2>1. Quiet(w)
      BY <1>10, QuietSteps
    <2>2. pc[w] \in NoRegistration
      BY <1>10 DEF NoRegistration, mongoSubscribeContextAvailability, FindSubscription,
           mongoUpdateContextAvailabilitySubscription, mongoUnsubscribeContextAvailability,
           conventionalDiscoverContextAvailability, StartAssociations,
           associationsDiscoverContextAvailability
    <2> QED BY <2>1, <2>2, QuietElsewhere
  <1>11. CASE \/ GiveSem(w) \/ ForwardNew(w) \/ mongoSetFwdRegId(w) \/ ForwardUpdate(w)
              \/ ForwardDone(w)
    <2>1. pc[w] \in {"answer", "forwardNew", "setFwd", "forwardUpdate", "done"}
      BY <1>11 DEF GiveSem, ForwardNew, mongoSetFwdRegId, ForwardUpdate, ForwardDone
    <2> QED BY <1>0, <2>1, FormByLabel, FormElsewhere
  <1> QED BY <1>1, <1>2, <1>3, <1>4, <1>5, <1>6, <1>7, <1>8, <1>9, <1>10, <1>11 DEF Step

-----------------------------------------------------------------------------
(* The theorems                                                             *)

\* The clock ticks, or nothing happens: the invariants are about the rest.
LEMMA OtherSteps ==
  ASSUME Tick \/ UNCHANGED vars
  PROVE  UNCHANGED <<semVars, registrations, confman, linked, pc, req, job>>
  BY DEF Tick, vars, data

LEMMA InitInvariants == Init => IdsOK /\ SemInv /\ RefusedInv /\ OneWriter /\ WorksOn /\ LinkInv
  <1> SUFFICES ASSUME Init PROVE IdsOK /\ SemInv /\ RefusedInv /\ OneWriter /\ WorksOn /\ LinkInv
    OBVIOUS
  <1>1. /\ \A w \in Workers : pc[w] = "idle" /\ req[w] = NoRequest /\ job[w] = NoJob
        /\ linked = {} /\ confman = <<>>
    BY DEF Init
  <1>2. \A w \in Workers : /\ job[w].id = NoId /\ job[w].code = "None" /\ ~job[w].wrote
                          /\ job[w].notified = {} /\ req[w].op = "none"
    BY <1>1 DEF NoJob, NoRequest
  <1>3. NoId \notin RegIds
    BY IdsFacts DEF NoId
  <1>4. SemInv
    <2>1. SemLock /\ \A w \in Workers : ~reqSemTaken[w]
      BY SemLockInit, Zenon DEF Init, semInit
    <2> QED BY <1>1, <2>1 DEF SemInv, Section, WriteSection
  <1>5. IdsOK
    BY <1>1, <1>2 DEF IdsOK, Ids
  <1>6. RefusedInv
    BY <1>1, <1>2 DEF RefusedInv
  <1>7. OneWriter /\ LinkInv
    BY <1>1, <1>2, <1>3 DEF OneWriter, LinkInv, Registering
  <1>8. WorksOn
    BY <1>1, <1>2 DEF WorksOn, BeforeWrite, AfterWrite
  <1> QED BY <1>4, <1>5, <1>6, <1>7, <1>8

\* The shape of the state, on every behaviour.
LEMMA SpecShape == Spec => [](Shape /\ IdsOK /\ RefusedInv)
  <1>1. Init => Shape /\ IdsOK /\ RefusedInv
    BY InitShape, InitInvariants
  <1>2. Shape /\ IdsOK /\ RefusedInv /\ [Next]_vars => (Shape /\ IdsOK /\ RefusedInv)'
    <2> SUFFICES ASSUME Shape, IdsOK, RefusedInv, [Next]_vars
                 PROVE  (Shape /\ IdsOK /\ RefusedInv)'
      OBVIOUS
    <2>1. CASE Tick \/ UNCHANGED vars
      BY <2>1, OtherSteps DEF Shape, IdsOK, RefusedInv
    <2>2. ASSUME NEW w \in Workers, ReceiveRequest(w) \/ Step(w)
          PROVE  (Shape /\ IdsOK /\ RefusedInv)'
      BY <2>2, StepShape, StepForms, FormIds, FormRefused
    <2> QED BY <2>1, <2>2 DEF Next
  <1> QED BY <1>1, <1>2, PTL DEF Spec

\* A registration that processRegisterContext refuses has written no
\* registration and notified nobody: the failures before the upsert leave, and
\* there is none after it.
THEOREM RegRefusedRegistersNothing == Spec => []RefusedRegistersNothing
  <1>1. RefusedInv => RefusedRegistersNothing
    BY DEF RefusedInv, RefusedRegistersNothing
  <1> QED BY <1>1, SpecShape, PTL

\* Where associationsDiscoverContextAvailability takes the semaphore that it
\* gives with the default argument, the semaphore is a lock.
LEMMA SpecSem == ASSUME ScopedTake PROVE Spec => []SemInv
  <1>1. Shape /\ SemInv /\ [Next]_vars => SemInv'
    <2> SUFFICES ASSUME Shape, SemInv, [Next]_vars PROVE SemInv'
      OBVIOUS
    <2>1. CASE Tick \/ UNCHANGED vars
      BY <2>1, OtherSteps DEF SemInv, SemLock, semVars, Kind
    <2>2. ASSUME NEW w \in Workers, ReceiveRequest(w) \/ Step(w) PROVE SemInv'
      BY <2>2, StepForms, FormSem
    <2> QED BY <2>1, <2>2 DEF Next
  <1> QED BY <1>1, SpecShape, InitInvariants, PTL DEF Spec

\* Every path through the handlers gives the semaphore back, once, and only if
\* it took it, under every policy in which a discovery with a scope takes it.
THEOREM RegSemGivenBack == ASSUME ScopedTake PROVE Spec => []SemGivenBack
  <1>1. SemInv => SemGivenBack
    BY SemLockCount DEF SemInv, SemGivenBack
  <1> QED BY <1>1, SpecSem, PTL

\* Under the policies "all" and "write", two requests that write are never
\* between reqSemTake and reqSemGive at one time.
THEOREM RegWritersExclusive == ASSUME ScopedTake PROVE Spec => []WritersExclusive
  <1>1. SemInv => WritersExclusive
    <2> SUFFICES ASSUME SemInv, Policy \in {"all", "write"},
                        NEW v \in Workers, NEW w \in Workers,
                        pc[v] \in WriteSection, pc[w] \in WriteSection
                 PROVE  v = w
      BY DEF WritersExclusive
    <2>1. reqSemTaken[v] /\ reqSemTaken[w]
      BY DEF SemInv, Section, Kind, Bypassed
    <2> QED BY <2>1 DEF SemInv, SemLock
  <1> QED BY <1>1, SpecSem, PTL

\* A registration known to the configuration manager keeps its fwdRegId through
\* every update, if the two database operations of registerContextForward do not
\* fail and clients do not update one registration at the same time.
THEOREM RegLinkKept ==
  ASSUME ~SharedUpdates, "link" \notin Faults
  PROVE  Spec => []LinkKept
  <1> DEFINE Inv == OneWriter /\ WorksOn /\ LinkInv
  <1>1. Init => Inv
    BY InitInvariants
  <1>2. Shape /\ IdsOK /\ RefusedInv /\ Inv /\ [Next]_vars => Inv'
    <2> SUFFICES ASSUME Shape, IdsOK, RefusedInv, Inv, [Next]_vars PROVE Inv'
      OBVIOUS
    <2>1. CASE Tick \/ UNCHANGED vars
      <3>1. UNCHANGED <<registrations, linked, pc, req, job>>
        BY <2>1, OtherSteps
      <3>2. OneWriter'
        BY <3>1 DEF OneWriter, Registering
      <3>3. WorksOn'
        BY <3>1 DEF WorksOn
      <3>4. LinkInv'
        BY <3>1 DEF LinkInv, Registering
      <3> QED BY <3>2, <3>3, <3>4
    <2>2. ASSUME NEW w \in Workers, ReceiveRequest(w) \/ Step(w) PROVE Inv'
      <3>1. Form(w)
        BY <2>2, StepForms
      <3> QED BY <3>1, FormOneWriter, FormWorksOn, FormLink
    <2> QED BY <2>1, <2>2 DEF Next
  <1>3. Inv => LinkKept
    BY DEF LinkInv, LinkKept, AfterWrite
  <1> QED BY <1>1, <1>2, <1>3, SpecShape, PTL DEF Spec

\* Under the policies "all" and "write", when a registration is answered with
\* success and no query failed, every live subscription to what it registers has
\* been notified, whatever the requests and however they interleave:
\* addTriggeredSubscriptions, the query of processAvailabilitySubscription and
\* the filter behind it agree.
THEOREM RegInterestedAreNotified ==
  ASSUME ScopedTake, Policy \in {"all", "write"}
  PROVE  Spec => []InterestedAreNotified
  <1>1. Init => InterestInv
    <2> SUFFICES ASSUME Init PROVE InterestInv
      OBVIOUS
    <2>1. /\ clock = 0 /\ registrations = [r \in RegIds |-> NoReg]
          /\ casubs = [s \in SubIds |-> NoSub]
          /\ \A w \in Workers : pc[w] = "idle" /\ req[w] = NoRequest /\ job[w] = NoJob
      BY DEF Init
    <2>2. /\ NoJob.read = NoSub /\ NoJob.from = Absent /\ NoJob.cr = 1 /\ NoJob.triggered = {}
          /\ NoReg.crs = <<>> /\ NoReg.expiration = Absent /\ Absent \in Int
      BY DEF NoJob, NoReg, Absent
    <2>3. SubOK(NoSub)
      BY <2>2, SmallSeqs DEF SubOK, NoSub
    <2>4. VectorsOf(<<>>)
      BY SmallSeqs DEF VectorsOf
    <2>5. DocsOK
      BY <2>1, <2>2, <2>3, <2>4 DEF DocsOK
    <2>6. SubOps /\ \A w \in Workers : Good(w)
      BY <2>1, <2>2 DEF SubOps, Good, Begins, Gathers, Tells, BeforeWrite
    <2> QED BY <2>5, <2>6 DEF InterestInv
  <1>2. Shape /\ SemInv /\ InterestInv /\ [Next]_vars => InterestInv'
    <2> SUFFICES ASSUME Shape, SemInv, InterestInv, [Next]_vars PROVE InterestInv'
      OBVIOUS
    <2> USE DEF InterestInv
    <2>1. CASE Tick
      <3>1. DocsOK'
        BY <2>1 DEF Tick, DocsOK
      <3>2. SubOps'
        BY <2>1 DEF Tick, SubOps
      <3> QED BY <2>1, <3>1, <3>2, TickGood
    <2>2. CASE UNCHANGED vars
      <3>1. UNCHANGED <<clock, registrations, casubs, pc, req, job>>
        BY <2>2 DEF vars, data
      <3>2. DocsOK' /\ SubOps'
        BY <3>1 DEF DocsOK, SubOps
      <3>3. ASSUME NEW w \in Workers PROVE Good(w)'
        BY <3>1 DEF Good, Begins, Gathers, Tells, Live, Planned, FromSubs
      <3> QED BY <3>2, <3>3
    <2>3. ASSUME NEW w \in Workers, ReceiveRequest(w) \/ Step(w) PROVE InterestInv'
      <3>1. DocsOK' /\ SubOps'
        BY <2>3, DocsStep, SubOpsStep
      <3>2. Good(w)'
        BY <2>3, StepGood
      <3>3. ASSUME NEW v \in Workers, v # w PROVE Good(v)'
        BY <2>3, <3>3, OtherGood
      <3> QED BY <3>1, <3>2, <3>3
    <2> QED BY <2>1, <2>2, <2>3 DEF Next
  <1>3. InterestInv => InterestedAreNotified
    BY DEF InterestInv, Good, Tells, InterestedAreNotified, Live, Planned
  <1> QED BY <1>1, <1>2, <1>3, SpecShape, SpecSem, PTL DEF Spec
=============================================================================
