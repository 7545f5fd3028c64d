----------------------------- MODULE ListLemmas -----------------------------
(* Facts about the lists of the kernel's queue macros, written as sequences: *)
(* removal of one element, insertion at the head and at the tail; and about  *)
(* the numbers a loop over an array stops at.                                *)
EXTENDS Integers, Sequences, SequencesExt, SequenceTheorems, WellFoundedInduction, TLAPS

(* What TAILQ_REMOVE leaves: one element less, the others in their order.    *)
LEMMA RemoveAtFacts ==
  ASSUME NEW S, NEW s \in Seq(S), NEW i \in DOMAIN s
  PROVE  /\ RemoveAt(s, i) \in Seq(S)
         /\ Len(RemoveAt(s, i)) = Len(s) - 1
         /\ \A j \in 1 .. (Len(s) - 1) :
              RemoveAt(s, i)[j] = IF j < i THEN s[j] ELSE s[j + 1]
<1>. DEFINE a == SubSeq(s, 1, i - 1)
            b == SubSeq(s, i + 1, Len(s))
<1>0. Len(s) \in Nat /\ i \in 1 .. Len(s)
  OBVIOUS
<1>1. a \in Seq(S) /\ b \in Seq(S)
  OBVIOUS
<1>2. Len(a) = i - 1 /\ Len(b) = Len(s) - i
  OBVIOUS
<1>3. /\ \A j \in 1 .. (i - 1) : a[j] = s[j]
      /\ \A j \in 1 .. (Len(s) - i) : b[j] = s[i + j]
  OBVIOUS
<1>4. RemoveAt(s, i) = a \o b
  BY DEF RemoveAt
<1>. HIDE DEF a, b
<1>5. a \o b \in Seq(S)
  BY <1>1
<1>6. Len(a \o b) = Len(s) - 1
  BY <1>0, <1>1, <1>2
<1>7. ASSUME NEW j \in 1 .. (Len(s) - 1)
      PROVE  (a \o b)[j] = IF j < i THEN s[j] ELSE s[j + 1]
  <2>1. CASE j < i
    <3>1. j \in 1 .. Len(a)
      BY <1>0, <1>2, <1>7, <2>1
    <3>2. (a \o b)[j] = a[j]
      BY <1>0, <1>1, <1>2, <1>7, <3>1
    <3>. QED
      BY <1>0, <1>3, <1>7, <2>1, <3>2
  <2>2. CASE ~(j < i)
    <3>1. j \in Len(a) + 1 .. Len(a) + Len(b)
      BY <1>0, <1>2, <1>7, <2>2
    <3>2. (a \o b)[j] = b[j - Len(a)]
      <4>1. j \in 1 .. Len(a) + Len(b) /\ ~(j <= Len(a))
        BY <1>0, <1>2, <3>1
      <4>. QED
        BY <1>1, <4>1, ConcatProperties
    <3>3. j - Len(a) \in 1 .. (Len(s) - i) /\ i + (j - Len(a)) = j + 1
      BY <1>0, <1>2, <1>7, <2>2
    <3>. QED
      BY <1>3, <2>2, <3>2, <3>3
  <2>. QED
    BY <2>1, <2>2
<1>. QED
  BY <1>4, <1>5, <1>6, <1>7

(* Removing an element that occurs once takes it out of the set of elements. *)
LEMMA RemoveAtSet ==
  ASSUME NEW S, NEW s \in Seq(S), NEW i \in DOMAIN s,
         IsInjective(s)
  PROVE  ToSet(RemoveAt(s, i)) = ToSet(s) \ {s[i]}
<1>. DEFINE r == RemoveAt(s, i)
<1>0. Len(s) \in Nat /\ i \in 1 .. Len(s) /\ DOMAIN s = 1 .. Len(s)
  OBVIOUS
<1>9. \A j, k \in DOMAIN s : s[j] = s[k] => j = k
  BY DEF IsInjective
<1>1. /\ r \in Seq(S) /\ Len(r) = Len(s) - 1
      /\ \A j \in 1 .. (Len(s) - 1) : r[j] = IF j < i THEN s[j] ELSE s[j + 1]
  BY RemoveAtFacts
<1>. HIDE DEF r
<1>2. DOMAIN r = 1 .. (Len(s) - 1)
  BY <1>1
<1>3. ASSUME NEW x \in ToSet(r) PROVE x \in ToSet(s) \ {s[i]}
  <2>1. PICK j \in 1 .. (Len(s) - 1) : x = r[j]
    BY <1>2 DEF ToSet
  <2>2. PICK k \in 1 .. Len(s) : k # i /\ x = s[k]
    <3>1. CASE j < i
      BY <1>0, <1>1, <2>1, <3>1
    <3>2. CASE ~(j < i)
      <4>1. j + 1 \in 1 .. Len(s) /\ j + 1 # i /\ x = s[j + 1]
        BY <1>0, <1>1, <2>1, <3>2
      <4>. QED
        BY <4>1
    <3>. QED
      BY <3>1, <3>2
  <2>3. s[k] # s[i]
    BY <1>0, <1>9, <2>2
  <2>. QED
    BY <1>0, <2>2, <2>3 DEF ToSet
<1>4. ASSUME NEW x \in ToSet(s) \ {s[i]} PROVE x \in ToSet(r)
  <2>1. PICK j \in 1 .. Len(s) : x = s[j] /\ j # i
    BY <1>0 DEF ToSet
  <2>2. CASE j < i
    <3>1. j \in 1 .. (Len(s) - 1) /\ r[j] = x
      BY <1>0, <1>1, <2>1, <2>2
    <3>. QED
      BY <1>2, <3>1 DEF ToSet
  <2>3. CASE j > i
    <3>1. j - 1 \in 1 .. (Len(s) - 1) /\ r[j - 1] = s[(j - 1) + 1]
      BY <1>0, <1>1, <2>1, <2>3
    <3>. QED
      BY <1>0, <1>2, <2>1, <3>1 DEF ToSet
  <2>. QED
    BY <1>0, <2>1, <2>2, <2>3
<1>. QED
  BY <1>3, <1>4 DEF r

(* What insertion before an element leaves: one element more.                *)
LEMMA InsertAtFacts ==
  ASSUME NEW S, NEW s \in Seq(S), NEW i \in DOMAIN s, NEW e \in S
  PROVE  /\ InsertAt(s, i, e) \in Seq(S)
         /\ ToSet(InsertAt(s, i, e)) = ToSet(s) \cup {e}
<1>. DEFINE a == SubSeq(s, 1, i - 1)
            b == SubSeq(s, i, Len(s))
            t == a \o <<e>>
<1>0. Len(s) \in Nat /\ i \in 1 .. Len(s)
  OBVIOUS
<1>1. a \in Seq(S) /\ b \in Seq(S) /\ <<e>> \in Seq(S)
  OBVIOUS
<1>2. /\ Len(a) = i - 1 /\ Len(b) = Len(s) - i + 1
      /\ \A j \in 1 .. (i - 1) : a[j] = s[j]
      /\ \A j \in 1 .. (Len(s) - i + 1) : b[j] = s[i + j - 1]
  OBVIOUS
<1>3. InsertAt(s, i, e) = t \o b
  BY DEF InsertAt
<1>. HIDE DEF a, b
<1>4. /\ t \in Seq(S) /\ Len(t) = i /\ t[i] = e
      /\ \A j \in 1 .. (i - 1) : t[j] = s[j]
  BY <1>0, <1>1, <1>2
<1>. HIDE DEF t
<1>L. Len(t) = i /\ Len(t) + Len(b) = Len(s) + 1
  <2>1. Len(t) = i /\ Len(b) = Len(s) - i + 1
    BY <1>2, <1>4
  <2>. QED
    BY <1>0, <2>1
<1>. DEFINE u == t \o b
<1>5. u \in Seq(S)
  BY <1>1, <1>4
<1>6. DOMAIN u = 1 .. (Len(s) + 1)
  <2>1. Len(u) = Len(t) + Len(b)
    BY <1>1, <1>4, ConcatProperties
  <2>2. Len(u) = Len(s) + 1
    BY <1>L, <2>1
  <2>. HIDE DEF u
  <2>. QED
    BY <1>5, <2>2
<1>7. ASSUME NEW j \in DOMAIN u PROVE u[j] = IF j <= i THEN t[j] ELSE b[j - i]
  <2>1. j \in 1 .. Len(t) + Len(b) /\ Len(t) = i
    BY <1>6, <1>L
  <2>. QED
    BY <1>1, <1>4, <2>1, ConcatProperties
<1>. HIDE DEF u
<1>8. ASSUME NEW j \in DOMAIN u PROVE u[j] \in ToSet(s) \cup {e}
  <2>1. CASE j <= i
    <3>1. u[j] = t[j] /\ j \in 1 .. i
      BY <1>0, <1>6, <1>7, <2>1
    <3>2. j # i => j \in DOMAIN s /\ t[j] = s[j]
      BY <1>0, <1>4, <3>1
    <3>. QED
      BY <1>4, <3>1, <3>2 DEF ToSet
  <2>2. CASE ~(j <= i)
    <3>1. /\ j \in (i + 1) .. (Len(s) + 1) /\ j - i \in 1 .. (Len(s) - i + 1)
          /\ i + (j - i) - 1 \in DOMAIN s
      BY <1>0, <1>6, <2>2
    <3>2. u[j] = s[i + (j - i) - 1]
      BY <1>2, <1>7, <3>1
    <3>. QED
      BY <3>1, <3>2 DEF ToSet
  <2>. QED
    BY <2>1, <2>2
<1>9. ASSUME NEW k \in DOMAIN s PROVE \E j \in DOMAIN u : u[j] = s[k]
  <2>1. CASE k < i
    <3>1. k \in 1 .. i /\ k \in 1 .. (i - 1) /\ k \in DOMAIN u
      BY <1>0, <1>6, <2>1
    <3>. QED
      BY <1>4, <1>7, <3>1
  <2>2. CASE ~(k < i)
    <3>1. /\ k + 1 \in (i + 1) .. (Len(s) + 1) /\ k + 1 \in DOMAIN u
          /\ k + 1 - i \in 1 .. (Len(s) - i + 1) /\ i + (k + 1 - i) - 1 = k
      BY <1>0, <1>6, <2>2
    <3>2. u[k + 1] = b[k + 1 - i]
      <4>1. ~(k + 1 <= i)
        BY <1>0, <3>1
      <4>2. u[k + 1] = IF k + 1 <= i THEN t[k + 1] ELSE b[k + 1 - i]
        <5>. PICK j \in DOMAIN u : j = k + 1
          BY <3>1
        <5>1. u[j] = IF j <= i THEN t[j] ELSE b[j - i]
          BY <1>7, Zenon
        <5>. QED
          BY <5>1
      <4>. QED
        BY <4>1, <4>2, Zenon
    <3>3. b[k + 1 - i] = s[i + (k + 1 - i) - 1]
      BY <1>2, <3>1
    <3>. QED
      BY <3>1, <3>2, <3>3
  <2>. QED
    BY <2>1, <2>2
<1>10. \E j \in DOMAIN u : u[j] = e
  <2>1. i \in 1 .. i /\ i \in DOMAIN u
    BY <1>0, <1>6
  <2>. QED
    BY <1>4, <1>7, <2>1
<1>11. ToSet(u) = ToSet(s) \cup {e}
  BY <1>8, <1>9, <1>10 DEF ToSet
<1>. QED
  BY <1>3, <1>5, <1>11 DEF u

(* SIMPLEQ_INSERT_TAIL and TAILQ_INSERT_TAIL.                                *)
LEMMA AppendFacts ==
  ASSUME NEW S, NEW s \in Seq(S), NEW e \in S
  PROVE  /\ Append(s, e) \in Seq(S)
         /\ Len(Append(s, e)) = Len(s) + 1
         /\ \A j \in 1 .. (Len(s) + 1) :
              Append(s, e)[j] = IF j = Len(s) + 1 THEN e ELSE s[j]
         /\ ToSet(Append(s, e)) = ToSet(s) \cup {e}
<1>1. /\ Append(s, e) \in Seq(S)
      /\ Len(Append(s, e)) = Len(s) + 1
      /\ \A j \in 1 .. (Len(s) + 1) :
           Append(s, e)[j] = IF j = Len(s) + 1 THEN e ELSE s[j]
  OBVIOUS
<1>. DEFINE t == Append(s, e)
<1>. HIDE DEF t
<1>2. Len(s) \in Nat /\ DOMAIN s = 1 .. Len(s) /\ DOMAIN t = 1 .. (Len(s) + 1)
  BY <1>1 DEF t
<1>3. ASSUME NEW x \in ToSet(t) PROVE x \in ToSet(s) \cup {e}
  BY <1>1, <1>2 DEF ToSet, t
<1>4. ASSUME NEW x \in ToSet(s) PROVE x \in ToSet(t)
  <2>1. PICK j \in 1 .. Len(s) : x = s[j]
    BY <1>2 DEF ToSet
  <2>2. j \in DOMAIN t /\ t[j] = x
    BY <1>1, <1>2, <2>1 DEF t
  <2>. QED
    BY <2>2 DEF ToSet
<1>5. e \in ToSet(t)
  <2>1. Len(s) + 1 \in DOMAIN t /\ t[Len(s) + 1] = e
    BY <1>1, <1>2 DEF t
  <2>. QED
    BY <2>1 DEF ToSet
<1>. QED
  BY <1>1, <1>3, <1>4, <1>5 DEF t

(* SIMPLEQ_INSERT_HEAD and TAILQ_INSERT_HEAD.                                *)
LEMMA PrependFacts ==
  ASSUME NEW S, NEW s \in Seq(S), NEW e \in S
  PROVE  /\ <<e>> \o s \in Seq(S)
         /\ Len(<<e>> \o s) = Len(s) + 1
         /\ \A j \in 1 .. (Len(s) + 1) :
              (<<e>> \o s)[j] = IF j = 1 THEN e ELSE s[j - 1]
         /\ ToSet(<<e>> \o s) = ToSet(s) \cup {e}
<1>0. <<e>> \in Seq(S) /\ Len(<<e>>) = 1 /\ <<e>>[1] = e /\ Len(s) \in Nat
  OBVIOUS
<1>. DEFINE a == <<e>>
            t == a \o s
<1>. HIDE DEF a
<1>1. t \in Seq(S) /\ Len(t) = Len(s) + 1
  BY <1>0 DEF a
<1>2. ASSUME NEW j \in 1 .. (Len(s) + 1)
      PROVE  t[j] = IF j = 1 THEN e ELSE s[j - 1]
  <2>1. CASE j = 1
    BY <1>0, <2>1 DEF a
  <2>2. CASE j # 1
    <3>1. Len(a) = 1 /\ a \in Seq(S)
      BY <1>0 DEF a
    <3>2. j \in Len(a) + 1 .. Len(a) + Len(s)
      BY <1>0, <1>2, <2>2, <3>1
    <3>3. t[j] = s[j - Len(a)]
      <4>1. j \in 1 .. Len(a) + Len(s) /\ ~(j <= Len(a))
        BY <1>0, <3>1, <3>2
      <4>. QED
        BY <3>1, <4>1, ConcatProperties
    <3>. QED
      BY <2>2, <3>1, <3>3
  <2>. QED
    BY <2>1, <2>2
<1>. HIDE DEF t
<1>3. DOMAIN s = 1 .. Len(s) /\ DOMAIN t = 1 .. (Len(s) + 1)
  BY <1>1
<1>4. ASSUME NEW x \in ToSet(t) PROVE x \in ToSet(s) \cup {e}
  <2>1. PICK j \in 1 .. (Len(s) + 1) : x = t[j]
    BY <1>3 DEF ToSet
  <2>2. CASE j = 1
    BY <1>2, <2>1, <2>2
  <2>3. CASE j # 1
    <3>1. j - 1 \in 1 .. Len(s) /\ x = s[j - 1]
      BY <1>0, <1>2, <2>1, <2>3
    <3>. QED
      BY <1>3, <3>1 DEF ToSet
  <2>. QED
    BY <2>2, <2>3
<1>5. ASSUME NEW x \in ToSet(s) PROVE x \in ToSet(t)
  <2>1. PICK j \in 1 .. Len(s) : x = s[j]
    BY <1>3 DEF ToSet
  <2>2. j + 1 \in 1 .. (Len(s) + 1) /\ t[j + 1] = s[(j + 1) - 1]
    BY <1>0, <1>2, <2>1
  <2>3. t[j + 1] = x
    BY <2>1, <2>2
  <2>. QED
    BY <1>3, <2>2, <2>3 DEF ToSet
<1>6. e \in ToSet(t)
  <2>1. 1 \in DOMAIN t /\ t[1] = e
    BY <1>0, <1>2, <1>3
  <2>. QED
    BY <2>1 DEF ToSet
<1>. QED
  BY <1>1, <1>2, <1>4, <1>5, <1>6 DEF t, a

(* SIMPLEQ_REMOVE_HEAD on a list without repetition.                         *)
LEMMA TailFacts ==
  ASSUME NEW S, NEW s \in Seq(S), s # <<>>, IsInjective(s)
  PROVE  /\ Head(s) \in S /\ Head(s) = s[1] /\ Head(s) \in ToSet(s)
         /\ Tail(s) \in Seq(S)
         /\ Len(Tail(s)) = Len(s) - 1
         /\ \A j \in 1 .. (Len(s) - 1) : Tail(s)[j] = s[j + 1]
         /\ ToSet(Tail(s)) = ToSet(s) \ {Head(s)}
<1>1. /\ Head(s) \in S /\ Head(s) = s[1]
      /\ Tail(s) \in Seq(S)
      /\ Len(Tail(s)) = Len(s) - 1
      /\ \A j \in 1 .. (Len(s) - 1) : Tail(s)[j] = s[j + 1]
      /\ Len(s) \in Nat \ {0} /\ DOMAIN s = 1 .. Len(s)
  OBVIOUS
<1>9. \A j, k \in DOMAIN s : s[j] = s[k] => j = k
  BY DEF IsInjective
<1>. DEFINE t == Tail(s)
<1>2. DOMAIN t = 1 .. (Len(s) - 1)
  BY <1>1
<1>. HIDE DEF t
<1>3. ASSUME NEW x \in ToSet(t) PROVE x \in ToSet(s) \ {s[1]}
  <2>1. PICK j \in 1 .. (Len(s) - 1) : x = t[j]
    BY <1>2 DEF ToSet
  <2>2. j + 1 \in 1 .. Len(s) /\ j + 1 # 1 /\ x = s[j + 1]
    BY <1>1, <2>1 DEF t
  <2>3. 1 \in DOMAIN s /\ j + 1 \in DOMAIN s
    BY <1>1, <2>2
  <2>4. s[j + 1] # s[1]
    BY <1>9, <2>2, <2>3
  <2>. QED
    BY <2>2, <2>3, <2>4 DEF ToSet
<1>4. ASSUME NEW x \in ToSet(s) \ {s[1]} PROVE x \in ToSet(t)
  <2>1. PICK j \in 1 .. Len(s) : x = s[j] /\ j # 1
    BY <1>1 DEF ToSet
  <2>2. j - 1 \in 1 .. (Len(s) - 1) /\ t[j - 1] = s[(j - 1) + 1]
    BY <1>1, <2>1 DEF t
  <2>3. t[j - 1] = x
    BY <2>1, <2>2
  <2>. QED
    BY <1>2, <2>2, <2>3 DEF ToSet
<1>5. 1 \in DOMAIN s
  BY <1>1
<1>. QED
  BY <1>1, <1>3, <1>4, <1>5 DEF t, ToSet

(* Lists without repetition stay so.                                         *)
LEMMA PrependDistinct ==
  ASSUME NEW S, NEW s \in Seq(S), IsInjective(s), NEW e \in S, e \notin ToSet(s)
  PROVE  IsInjective(<<e>> \o s)
<1>. DEFINE t == <<e>> \o s
<1>1. /\ t \in Seq(S) /\ Len(t) = Len(s) + 1
      /\ \A j \in 1 .. (Len(s) + 1) : t[j] = IF j = 1 THEN e ELSE s[j - 1]
  BY PrependFacts
<1>. HIDE DEF t
<1>2. /\ Len(s) \in Nat /\ DOMAIN s = 1 .. Len(s)
      /\ DOMAIN t = 1 .. (Len(s) + 1)
      /\ \A j, k \in DOMAIN s : s[j] = s[k] => j = k
      /\ \A j \in DOMAIN s : s[j] # e
  BY <1>1 DEF IsInjective, ToSet
<1>3. ASSUME NEW i \in DOMAIN t, NEW j \in DOMAIN t, t[i] = t[j]
      PROVE  i = j
  <2>1. CASE i = 1 /\ j = 1
    BY <2>1
  <2>2. CASE i = 1 /\ j # 1
    <3>1. j - 1 \in DOMAIN s
      BY <1>2, <1>3, <2>2
    <3>. QED
      BY <1>1, <1>2, <1>3, <2>2, <3>1
  <2>3. CASE i # 1 /\ j = 1
    <3>1. i - 1 \in DOMAIN s
      BY <1>2, <1>3, <2>3
    <3>. QED
      BY <1>1, <1>2, <1>3, <2>3, <3>1
  <2>4. CASE i # 1 /\ j # 1
    <3>1. i - 1 \in DOMAIN s /\ j - 1 \in DOMAIN s
      BY <1>2, <1>3, <2>4
    <3>2. s[i - 1] = s[j - 1]
      BY <1>1, <1>2, <1>3, <2>4
    <3>3. i - 1 = j - 1
      BY <1>2, <3>1, <3>2
    <3>. QED
      BY <1>2, <1>3, <3>3
  <2>. QED
    BY <2>1, <2>2, <2>3, <2>4
<1>. QED
  BY <1>3 DEF IsInjective, t

(* A new element at the end.                                                 *)
LEMMA AppendDistinct ==
  ASSUME NEW S, NEW s \in Seq(S), IsInjective(s), NEW e \in S, e \notin ToSet(s)
  PROVE  IsInjective(Append(s, e))
<1>. DEFINE t == Append(s, e)
<1>1. /\ t \in Seq(S) /\ Len(t) = Len(s) + 1
      /\ \A j \in 1 .. (Len(s) + 1) :
           t[j] = IF j = Len(s) + 1 THEN e ELSE s[j]
  BY AppendFacts
<1>. HIDE DEF t
<1>2. /\ Len(s) \in Nat /\ DOMAIN s = 1 .. Len(s)
      /\ DOMAIN t = 1 .. (Len(s) + 1)
      /\ \A j, k \in DOMAIN s : s[j] = s[k] => j = k
      /\ \A j \in DOMAIN s : s[j] # e
  BY <1>1 DEF IsInjective, ToSet
<1>3. ASSUME NEW i \in DOMAIN t, NEW j \in DOMAIN t, t[i] = t[j]
      PROVE  i = j
  BY <1>1, <1>2, <1>3
<1>4. IsInjective(t)
  BY <1>3 DEF IsInjective
<1>. QED
  BY <1>4 DEF t

(* All but the first.                                                        *)
LEMMA TailDistinct ==
  ASSUME NEW S, NEW s \in Seq(S), s # <<>>, IsInjective(s)
  PROVE  IsInjective(Tail(s))
<1>. DEFINE t == Tail(s)
<1>1. /\ t \in Seq(S) /\ Len(t) = Len(s) - 1
      /\ \A j \in 1 .. (Len(s) - 1) : t[j] = s[j + 1]
  BY TailFacts
<1>. HIDE DEF t
<1>2. /\ Len(s) \in Nat /\ DOMAIN s = 1 .. Len(s)
      /\ DOMAIN t = 1 .. (Len(s) - 1)
      /\ \A j, k \in DOMAIN s : s[j] = s[k] => j = k
  BY <1>1 DEF IsInjective
<1>3. ASSUME NEW i \in DOMAIN t, NEW j \in DOMAIN t, t[i] = t[j]
      PROVE  i = j
  <2>1. i + 1 \in DOMAIN s /\ j + 1 \in DOMAIN s /\ s[i + 1] = s[j + 1]
    BY <1>1, <1>2, <1>3
  <2>2. i + 1 = j + 1
    BY <1>2, <2>1
  <2>. QED
    BY <1>2, <1>3, <2>2
<1>. QED
  BY <1>3 DEF IsInjective, t

(* All but one.                                                              *)
LEMMA RemoveAtDistinct ==
  ASSUME NEW S, NEW s \in Seq(S), NEW i \in DOMAIN s, IsInjective(s)
  PROVE  IsInjective(RemoveAt(s, i))
<1>. DEFINE t == RemoveAt(s, i)
<1>1. /\ t \in Seq(S) /\ Len(t) = Len(s) - 1
      /\ \A j \in 1 .. (Len(s) - 1) : t[j] = IF j < i THEN s[j] ELSE s[j + 1]
  BY RemoveAtFacts
<1>. HIDE DEF t
<1>2. /\ Len(s) \in Nat /\ DOMAIN s = 1 .. Len(s) /\ i \in 1 .. Len(s)
      /\ DOMAIN t = 1 .. (Len(s) - 1)
      /\ \A j, k \in DOMAIN s : s[j] = s[k] => j = k
  BY <1>1 DEF IsInjective
<1>. DEFINE at(j) == IF j < i THEN j ELSE j + 1
<1>3. ASSUME NEW j \in DOMAIN t PROVE at(j) \in DOMAIN s /\ t[j] = s[at(j)]
  BY <1>1, <1>2, <1>3
<1>4. ASSUME NEW j \in DOMAIN t, NEW k \in DOMAIN t, t[j] = t[k]
      PROVE  j = k
  <2>1. s[at(j)] = s[at(k)] /\ at(j) \in DOMAIN s /\ at(k) \in DOMAIN s
    BY <1>3, <1>4
  <2>. HIDE DEF at
  <2>2. at(j) = at(k)
    BY <1>2, <2>1
  <2>. QED
    BY <1>2, <1>4, <2>2 DEF at
<1>. QED
  BY <1>4 DEF IsInjective, t

(* The first index a loop that counts up comes to.                           *)
LEMMA Least ==
  ASSUME NEW S, S \subseteq Nat, S # {}
  PROVE  \E d \in S : \A e \in S : d <= e
<1>1. \E d \in S : \A e \in S : ~(<<e, d>> \in OpToRel(<, Nat))
  BY NatLessThanWellFounded, WFMin
<1>2. ASSUME NEW d \in Nat, NEW e \in Nat, ~(<<e, d>> \in OpToRel(<, Nat)) PROVE d <= e
  <2>1. <<e, d>> \in Nat \X Nat
    OBVIOUS
  <2>2. ~(e < d)
    BY <1>2, <2>1, Zenon DEF OpToRel
  <2>. QED
    BY <2>2
<1>. QED
  BY <1>1, <1>2

(* The community modules' Min, of any set of naturals that has an element.   *)
LEMMA MinFacts ==
  ASSUME NEW S, S \subseteq Nat, S # {}
  PROVE  Min(S) \in S /\ \A e \in S : Min(S) <= e
BY Least DEF Min

(* The first index a loop that counts down comes to.                         *)
LEMMA MaxFacts ==
  ASSUME NEW n \in Nat, NEW S, S \subseteq 0 .. n, S # {}
  PROVE  Max(S) \in S /\ \A e \in S : Max(S) >= e
<1>. DEFINE T == {n - e : e \in S}
<1>1. T \subseteq Nat /\ T # {}
  <2>1. \A e \in S : n - e \in Nat
    OBVIOUS
  <2>2. PICK e \in S : TRUE
    OBVIOUS
  <2>3. n - e \in T
    OBVIOUS
  <2>. HIDE DEF T
  <2>4. \A t \in T : \E f \in S : t = n - f
    BY DEF T
  <2>. QED
    BY <2>1, <2>3, <2>4
<1>. HIDE DEF T
<1>2. PICK t \in T : \A u \in T : t <= u
  BY <1>1, Least
<1>3. n - t \in S /\ \A e \in S : n - t >= e
  BY <1>2 DEF T
<1>. QED
  BY <1>3, Zenon DEF Max

=============================================================================
