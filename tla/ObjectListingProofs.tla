------------------------ MODULE ObjectListingProofs ------------------------
(* Theorems about ObjectListing, for every set of namespaces, objects and    *)
(* listing requests, over any alphabet.                                      *)
EXTENDS ObjectListing, SequenceTheorems, FiniteSetTheorems, TLAPS

-----------------------------------------------------------------------------
(* The order of strings *)

\* No string comes before itself.
LEMMA Irreflexive ==
  ASSUME NEW a \in Seq(Nat)
  PROVE  ~Less(a, a)
  BY LenProperties DEF Less

LEMMA Transitive ==
  ASSUME NEW a \in Seq(Nat), NEW b \in Seq(Nat), NEW c \in Seq(Nat),
         Less(a, b), Less(b, c)
  PROVE  Less(a, c)
<1>1. PICK i \in 1..Len(b) : /\ i <= Len(a) + 1 /\ \A j \in 1..(i - 1) : a[j] = b[j]
                             /\ i = Len(a) + 1 \/ a[i] < b[i]
  BY DEF Less
<1>2. PICK m \in 1..Len(c) : /\ m <= Len(b) + 1 /\ \A j \in 1..(m - 1) : b[j] = c[j]
                             /\ m = Len(b) + 1 \/ b[m] < c[m]
  BY DEF Less
<1>3. Len(a) \in Nat /\ Len(b) \in Nat /\ Len(c) \in Nat
  BY LenProperties
<1>4. \A j \in 1..Len(a) : a[j] \in Nat
  BY ElementOfSeq
<1>5. \A j \in 1..Len(b) : b[j] \in Nat
  BY ElementOfSeq
<1>6. \A j \in 1..Len(c) : c[j] \in Nat
  BY ElementOfSeq
<1>7. CASE i < m
  <2>1. i \in 1..Len(c) /\ \A j \in 1..(i - 1) : a[j] = c[j]
    BY <1>1, <1>2, <1>3, <1>7, SMTT(30)
  <2>2. b[i] = c[i]
    BY <1>1, <1>2, <1>3, <1>7
  <2> QED
    BY <1>1, <2>1, <2>2 DEF Less
<1>8. CASE i = m
  <2>1. \A j \in 1..(i - 1) : a[j] = c[j]
    BY <1>1, <1>2, <1>3, <1>8
  <2>0. m # Len(b) + 1
    BY <1>3, <1>8
  <2>2. b[i] < c[i] /\ b[i] \in Nat /\ c[i] \in Nat
    BY <1>2, <1>5, <1>6, <1>8, <2>0
  <2>3. i = Len(a) + 1 \/ (i \in 1..Len(a) /\ a[i] < b[i])
    BY <1>1, <1>3
  <2>4. i = Len(a) + 1 \/ a[i] < c[i]
    <3>1. CASE i \in 1..Len(a) /\ a[i] < b[i]
      <4>1. a[i] \in Nat
        BY <1>4, <3>1
      <4>2. \A x, y, z \in Nat : x < y /\ y < z => x < z
        OBVIOUS
      <4> QED
        BY <2>2, <3>1, <4>1, <4>2, Zenon
    <3> QED
      BY <2>3, <3>1
  <2> QED
    BY <1>1, <1>2, <1>8, <2>1, <2>4 DEF Less
<1>9. CASE m < i
  <2>0. m <= Len(a) + 1 /\ 1..(m - 1) \subseteq 1..(i - 1)
    BY <1>1, <1>3, <1>9, SMTT(30)
  <2>1. m <= Len(a) + 1 /\ \A j \in 1..(m - 1) : a[j] = c[j]
    BY <1>1, <1>2, <2>0
  <2>2. a[m] = b[m] /\ b[m] < c[m]
    BY <1>1, <1>2, <1>3, <1>9
  <2> QED
    BY <1>2, <2>1, <2>2 DEF Less
<1> QED
  BY <1>3, <1>7, <1>8, <1>9

\* A set of numbers has a least one.
LEMMA LeastNumber ==
  ASSUME NEW T \in SUBSET Nat, T # {}
  PROVE  \E x \in T : \A y \in T : x <= y
<1>1. PICK R : R = {ss \in Nat \X Nat : ss[1] < ss[2]}
  OBVIOUS
<1>2. IsWellFoundedOn(R, Nat)
  BY <1>1, NatLessThanWellFounded DEF OpToRel
<1>3. PICK x \in T : \A y \in T : ~(<<y, x>> \in R)
  BY <1>2, WFMin
<1>4. ASSUME NEW y \in T PROVE x <= y
  <2>1. x \in Nat /\ y \in Nat /\ ~(<<y, x>> \in R)
    BY <1>3
  <2>2. ~(y < x)
    BY <1>1, <2>1
  <2> QED
    BY <2>1, <2>2
<1> QED
  BY <1>4

\* Two strings that differ, differ at a first place.
LEMMA Total ==
  ASSUME NEW a \in Seq(Nat), NEW b \in Seq(Nat), a # b
  PROVE  Less(a, b) \/ Less(b, a)
<1>1. Len(a) \in Nat /\ Len(b) \in Nat
  BY LenProperties
<1>2. /\ \A j \in 1..Len(a) : a[j] \in Nat
      /\ \A j \in 1..Len(b) : b[j] \in Nat
  BY ElementOfSeq
<1>3. PICK D : D = {i \in 1..(Len(a) + 1) : i = Len(a) + 1 \/ i = Len(b) + 1 \/ a[i] # b[i]}
  OBVIOUS
<1>4. D \in SUBSET Nat /\ Len(a) + 1 \in D
  BY <1>1, <1>3
<1>5. PICK i \in D : \A y \in D : i <= y
  BY <1>4, LeastNumber
<1>6. i \in 1..(Len(a) + 1) /\ i <= Len(b) + 1
  <2>1. Len(b) + 1 \in 1..(Len(a) + 1) => Len(b) + 1 \in D
    BY <1>3
  <2> QED
    BY <1>1, <1>3, <1>5, <2>1
<1>7. \A j \in 1..(i - 1) : a[j] = b[j]
  BY <1>1, <1>3, <1>5, <1>6
<1>8. CASE i = Len(a) + 1 /\ i = Len(b) + 1
  BY <1>1, <1>7, <1>8, SeqEqual
<1>9. CASE i = Len(a) + 1 /\ i # Len(b) + 1
  <2>1. i \in 1..Len(b)
    BY <1>1, <1>6, <1>9
  <2> QED
    BY <1>6, <1>7, <1>9, <2>1 DEF Less
<1>10. CASE i # Len(a) + 1 /\ i = Len(b) + 1
  <2>1. i \in 1..Len(a)
    BY <1>1, <1>6, <1>10, SMTT(30)
  <2> QED
    BY <1>6, <1>7, <1>10, <2>1 DEF Less
<1>11. CASE i # Len(a) + 1 /\ i # Len(b) + 1
  <2>1. i \in 1..Len(a) /\ i \in 1..Len(b) /\ a[i] # b[i]
    BY <1>1, <1>3, <1>6, <1>11
  <2>2. a[i] < b[i] \/ b[i] < a[i]
    BY <1>2, <2>1
  <2> QED
    BY <1>1, <1>6, <1>7, <2>1, <2>2 DEF Less
<1> QED
  BY <1>8, <1>9, <1>10, <1>11

-----------------------------------------------------------------------------
(* Prefixes *)

LEMMA PrefixPointwise ==
  ASSUME NEW s \in Seq(Nat), NEW t \in Seq(Nat)
  PROVE  IsPrefix(s, t) <=> Len(s) <= Len(t) /\ \A i \in 1..Len(s) : s[i] = t[i]
<1>1. Len(s) \in Nat /\ Len(t) \in Nat
  BY LenProperties
<1>2. SubSeq(s, 1, Len(s)) = s
  BY SubSeqFull
<1>3. ASSUME Len(s) <= Len(t)
      PROVE  /\ SubSeq(t, 1, Len(s)) \in Seq(Nat) /\ Len(SubSeq(t, 1, Len(s))) = Len(s)
             /\ \A i \in 1..Len(s) : SubSeq(t, 1, Len(s))[i] = t[i]
  <2>1. \A i \in 1..Len(s) : t[i] \in Nat
    BY <1>1, <1>3, ElementOfSeq
  <2>2. /\ SubSeq(t, 1, Len(s)) \in Seq(Nat)
        /\ Len(SubSeq(t, 1, Len(s))) = IF 1 <= Len(s) THEN Len(s) - 1 + 1 ELSE 0
        /\ \A i \in 1..(Len(s) - 1 + 1) : SubSeq(t, 1, Len(s))[i] = t[1 + i - 1]
    BY <1>1, <2>1, SubSeqProperties, SMTT(30)
  <2>3. Len(s) - 1 + 1 = Len(s) /\ \A i \in 1..Len(s) : 1 + i - 1 = i
    BY <1>1
  <2>4. (IF 1 <= Len(s) THEN Len(s) - 1 + 1 ELSE 0) = Len(s)
    BY <1>1
  <2> QED
    BY <2>2, <2>3, <2>4
<1>4. ASSUME Len(s) <= Len(t), \A i \in 1..Len(s) : s[i] = t[i]
      PROVE  s = SubSeq(t, 1, Len(s))
  BY <1>3, <1>4, SeqEqual
<1> QED
  BY <1>2, <1>3, <1>4 DEF IsPrefix

\* A string does not come before its prefixes.
LEMMA PrefixFirst ==
  ASSUME NEW s \in Seq(Nat), NEW t \in Seq(Nat), IsPrefix(s, t)
  PROVE  ~Less(t, s)
<1>1. Len(s) <= Len(t) /\ \A i \in 1..Len(s) : s[i] = t[i]
  BY PrefixPointwise
<1>2. \A i \in 1..Len(s) : s[i] \in Nat
  BY ElementOfSeq
<1>3. Len(s) \in Nat /\ Len(t) \in Nat
  BY LenProperties
<1> QED
  BY <1>1, <1>2, <1>3 DEF Less

\* The strings with a prefix follow each other.
LEMMA PrefixConvex ==
  ASSUME NEW s \in Seq(Nat), NEW t \in Seq(Nat), NEW x \in Seq(Nat),
         IsPrefix(s, t), ~Less(x, s), ~Less(t, x)
  PROVE  IsPrefix(s, x)
<1>0. Len(s) \in Nat /\ Len(t) \in Nat /\ Len(x) \in Nat
  BY LenProperties
<1>1. Len(s) <= Len(t) /\ \A i \in 1..Len(s) : s[i] = t[i]
  BY PrefixPointwise
<1>2. CASE s = x
  BY <1>2, <1>0, PrefixPointwise
<1>3. CASE Less(s, x)
  <2>1. PICK i \in 1..Len(x) : /\ i <= Len(s) + 1 /\ \A j \in 1..(i - 1) : s[j] = x[j]
                               /\ i = Len(s) + 1 \/ s[i] < x[i]
    BY <1>3 DEF Less
  <2>2. CASE i = Len(s) + 1
    <3>1. Len(s) <= Len(x) /\ \A j \in 1..Len(s) : s[j] = x[j]
      BY <1>0, <2>1, <2>2
    <3> QED
      BY <3>1, PrefixPointwise
  <2>3. CASE i # Len(s) + 1
    <3>0. i \in 1..Len(s) /\ s[i] < x[i]
      BY <1>0, <2>1, <2>3
    <3>1. t[i] < x[i] /\ \A j \in 1..(i - 1) : t[j] = x[j]
      BY <1>0, <1>1, <2>1, <3>0, SMTT(30)
    <3>2. i <= Len(t) + 1
      BY <1>0, <1>1, <2>1
    <3> QED
      BY <3>1, <3>2 DEF Less
  <2> QED
    BY <2>2, <2>3
<1> QED
  BY <1>2, <1>3, Total
-----------------------------------------------------------------------------
(* Keys *)

\* A key is the name, the separator and the path.
LEMMA KeyShape ==
  ASSUME NEW n \in Seq(Nat), NEW p \in Seq(Nat)
  PROVE  /\ ObjectKey(n, p) \in Seq(Nat)
         /\ Len(ObjectKey(n, p)) = Len(n) + 1 + Len(p)
         /\ \A i \in 1..Len(n) : ObjectKey(n, p)[i] = n[i]
         /\ ObjectKey(n, p)[Len(n) + 1] = Slash
         /\ \A i \in 1..Len(p) : ObjectKey(n, p)[Len(n) + 1 + i] = p[i]
<1>0. Slash \in Nat /\ Len(n) \in Nat /\ Len(p) \in Nat
  BY ListingNamesAssumption, LenProperties
<1>1. PICK d : d = <<Slash>>
  OBVIOUS
<1>2. d \in Seq(Nat) /\ Len(d) = 1 /\ d[1] = Slash
  BY <1>0, <1>1
<1>3. PICK h : h = n \o d
  OBVIOUS
<1>4. /\ h \in Seq(Nat) /\ Len(h) = Len(n) + 1
      /\ \A i \in 1..(Len(n) + 1) : h[i] = IF i <= Len(n) THEN n[i] ELSE d[i - Len(n)]
  <2>1. /\ n \o d \in Seq(Nat) /\ Len(n \o d) = Len(n) + Len(d)
        /\ \A i \in 1..Len(n) + Len(d) : (n \o d)[i] = IF i <= Len(n) THEN n[i] ELSE d[i - Len(n)]
    BY <1>2, ConcatProperties
  <2> QED
    BY <1>2, <1>3, <2>1, Zenon
<1>5. h[Len(n) + 1] = Slash /\ \A i \in 1..Len(n) : h[i] = n[i]
  <2>1. /\ Len(n) + 1 \in 1..(Len(n) + 1) /\ ~(Len(n) + 1 <= Len(n)) /\ Len(n) + 1 - Len(n) = 1
        /\ \A i \in 1..Len(n) : i \in 1..(Len(n) + 1) /\ i <= Len(n)
    BY <1>0
  <2>2. h[Len(n) + 1] = d[1]
    <3>1. PICK e \in 1..(Len(n) + 1) : e = Len(n) + 1
      BY <2>1
    <3>2. h[e] = IF e <= Len(n) THEN n[e] ELSE d[e - Len(n)]
      BY <1>4, Zenon
    <3>3. ~(e <= Len(n)) /\ e - Len(n) = 1
      BY <1>0, <3>1
    <3> QED
      BY <3>1, <3>2, <3>3, Zenon
  <2>3. \A i \in 1..Len(n) : h[i] = n[i]
    BY <1>4, <2>1, Zenon
  <2> QED
    BY <1>2, <2>2, <2>3, Zenon
<1>6. PICK k : k = h \o p /\ k = ObjectKey(n, p)
  BY <1>1, <1>3 DEF ObjectKey
<1>7. /\ k \in Seq(Nat) /\ Len(k) = Len(h) + Len(p)
      /\ \A i \in 1..(Len(h) + Len(p)) : k[i] = IF i <= Len(h) THEN h[i] ELSE p[i - Len(h)]
  <2>1. /\ h \o p \in Seq(Nat) /\ Len(h \o p) = Len(h) + Len(p)
        /\ \A i \in 1..Len(h) + Len(p) : (h \o p)[i] = IF i <= Len(h) THEN h[i] ELSE p[i - Len(h)]
    <3>1. h \in Seq(Nat)
      BY <1>4
    <3> QED
      BY <3>1, ConcatProperties
  <2> QED
    BY <1>6, <2>1, Zenon
<1>8. \A i \in 1..(Len(n) + 1) : k[i] = h[i]
  BY <1>0, <1>4, <1>7
<1>9. ASSUME NEW i \in 1..Len(p) PROVE k[Len(n) + 1 + i] = p[i]
  <2>1. /\ Len(n) + 1 + i \in 1..(Len(h) + Len(p))
        /\ ~(Len(n) + 1 + i <= Len(h)) /\ Len(n) + 1 + i - Len(h) = i
    BY <1>0, <1>4
  <2>2. PICK e \in 1..(Len(h) + Len(p)) : e = Len(n) + 1 + i
    BY <2>1
  <2>3. k[e] = IF e <= Len(h) THEN h[e] ELSE p[e - Len(h)]
    BY <1>7, Zenon
  <2> QED
    BY <2>1, <2>2, <2>3
<1>10. k[Len(n) + 1] = Slash /\ \A i \in 1..Len(n) : k[i] = n[i]
  BY <1>0, <1>5, <1>8
<1> QED
  BY <1>4, <1>6, <1>7, <1>9, <1>10

\* Names are strings without the separator, the paths of objects strings.
LEMMA NameShape ==
  ASSUME NEW n \in Namespaces
  PROVE  n \in Seq(Nat) /\ \A i \in 1..Len(n) : n[i] # Slash
<1>1. n \in Seq(Nat) /\ Range(n) \subseteq NameChars /\ Slash \notin NameChars
  BY ListingNamesAssumption DEF ValidNamespace
<1>2. DOMAIN n = 1..Len(n)
  BY <1>1, LenProperties
<1> QED
  BY <1>1, <1>2 DEF Range

LEMMA ObjectShape ==
  ASSUME NEW o \in Objects
  PROVE  o[1] \in Namespaces /\ o[2] \in Seq(Nat) /\ o[2] # <<>> /\ o = <<o[1], o[2]>>
  BY ListingObjectsAssumption

\* Keys of one namespace are ordered like their paths.
LEMMA KeyOrderUp ==
  ASSUME NEW n \in Seq(Nat), NEW p \in Seq(Nat), NEW q \in Seq(Nat)
  PROVE  Less(p, q) => Less(ObjectKey(n, p), ObjectKey(n, q))
<1>1. PICK k : k = ObjectKey(n, p)
  OBVIOUS
<1>2. PICK l : l = ObjectKey(n, q)
  OBVIOUS
<1>3. PICK d : d = Len(n) + 1
  OBVIOUS
<1>4. d \in Nat /\ Len(p) \in Nat /\ Len(q) \in Nat /\ d >= 1
  BY <1>3, LenProperties
<1>5. /\ k \in Seq(Nat) /\ l \in Seq(Nat) /\ Len(k) = d + Len(p) /\ Len(l) = d + Len(q)
      /\ \A i \in 1..Len(p) : k[d + i] = p[i]
      /\ \A i \in 1..Len(q) : l[d + i] = q[i]
      /\ \A i \in 1..Len(n) : k[i] = n[i] /\ l[i] = n[i]
      /\ k[d] = Slash /\ l[d] = Slash
  <2>1. /\ ObjectKey(n, p) \in Seq(Nat)
        /\ Len(ObjectKey(n, p)) = Len(n) + 1 + Len(p)
        /\ \A i \in 1..Len(n) : ObjectKey(n, p)[i] = n[i]
        /\ ObjectKey(n, p)[Len(n) + 1] = Slash
        /\ \A i \in 1..Len(p) : ObjectKey(n, p)[Len(n) + 1 + i] = p[i]
    BY KeyShape
  <2>2. /\ ObjectKey(n, q) \in Seq(Nat)
        /\ Len(ObjectKey(n, q)) = Len(n) + 1 + Len(q)
        /\ \A i \in 1..Len(n) : ObjectKey(n, q)[i] = n[i]
        /\ ObjectKey(n, q)[Len(n) + 1] = Slash
        /\ \A i \in 1..Len(q) : ObjectKey(n, q)[Len(n) + 1 + i] = q[i]
    BY KeyShape
  <2> QED
    BY <1>1, <1>2, <1>3, <2>1, <2>2
<1>6. \A i \in 1..d : k[i] = l[i]
  <2>1. \A i \in 1..d : i \in 1..Len(n) \/ i = d
    BY <1>3, <1>4, LenProperties
  <2> QED
    BY <1>5, <2>1, Zenon
<1>7. ASSUME Less(p, q) PROVE Less(k, l)
  <2>1. PICK i \in 1..Len(q) : /\ i <= Len(p) + 1 /\ \A j \in 1..(i - 1) : p[j] = q[j]
                               /\ i = Len(p) + 1 \/ p[i] < q[i]
    BY <1>7 DEF Less
  <2>2. d + i \in 1..Len(l) /\ d + i <= Len(k) + 1
    BY <1>4, <1>5, <2>1
  <2>e. PICK e \in 1..Len(l) : e = d + i
    BY <2>2
  <2>3. ASSUME NEW j \in 1..(e - 1) PROVE k[j] = l[j]
    <3>0. j \in Int /\ 1 <= j
      BY <1>4, <2>e
    <3>1. CASE j <= d
      <4>1. j \in 1..d
        BY <1>4, <3>0, <3>1
      <4> QED
        BY <1>6, <4>1
    <3>2. CASE j > d
      <4>1. PICK m \in 1..(i - 1) : j = d + m
        <5>1. j \in Int /\ i \in Int /\ d \in Int /\ j <= d + i - 1
          BY <1>4, <2>e
        <5>2. j - d \in 1..(i - 1) /\ j = d + (j - d)
          BY <3>2, <5>1
        <5> QED
          BY <5>2
      <4>2. m \in 1..Len(p) /\ m \in 1..Len(q)
        BY <1>4, <2>1
      <4> QED
        BY <1>5, <2>1, <4>1, <4>2
    <3> QED
      BY <1>4, <3>1, <3>2
  <2>4. CASE i = Len(p) + 1
    <3>1. d + i = Len(k) + 1
      BY <1>4, <1>5, <2>4
    <3>3. e = Len(k) + 1 /\ e <= Len(k) + 1
      BY <2>2, <2>e, <3>1
    <3> QED
      BY <2>3, <3>3, Zenon DEF Less
  <2>5. CASE i # Len(p) + 1
    <3>0. p[i] < q[i]
      BY <2>1, <2>5
    <3>a. i <= Len(p) + 1
      BY <2>1
    <3>b. i \in 1..Len(p)
      <4>1. \A x, y \in Nat : x >= 1 /\ x <= y + 1 /\ x # y + 1 => x \in 1..y
        OBVIOUS
      <4>2. i \in Nat /\ i >= 1
        BY <1>4, <2>1
      <4> QED
        BY <1>4, <2>5, <3>a, <4>1, <4>2, Zenon
    <3>1. i \in 1..Len(p) /\ p[i] < q[i]
      BY <3>0, <3>b
    <3>2. k[d + i] < l[d + i]
      BY <1>5, <3>1
    <3>4. e <= Len(k) + 1 /\ k[e] < l[e]
      BY <2>2, <2>e, <3>2
    <3> QED
      BY <2>3, <3>4, Zenon DEF Less
  <2> QED
    BY <2>4, <2>5
<1> QED
  BY <1>1, <1>2, <1>7

LEMMA KeyOrder ==
  ASSUME NEW n \in Seq(Nat), NEW p \in Seq(Nat), NEW q \in Seq(Nat)
  PROVE  Less(ObjectKey(n, p), ObjectKey(n, q)) <=> Less(p, q)
<1> SUFFICES ASSUME Less(ObjectKey(n, p), ObjectKey(n, q)), ~Less(p, q) PROVE FALSE
  BY KeyOrderUp
<1>1. ObjectKey(n, p) \in Seq(Nat) /\ ObjectKey(n, q) \in Seq(Nat)
  BY KeyShape
<1>2. CASE p = q
  BY <1>1, <1>2, Irreflexive
<1>3. CASE Less(q, p)
  BY <1>1, <1>3, KeyOrderUp, Transitive, Irreflexive
<1> QED
  BY <1>2, <1>3, Total

\* The separator stands first behind the name.
LEMMA KeyPrefix ==
  ASSUME NEW n \in Namespaces, NEW m \in Namespaces, NEW p \in Seq(Nat), NEW q \in Seq(Nat)
  PROVE  IsPrefix(ObjectKey(n, p), ObjectKey(m, q)) <=> n = m /\ IsPrefix(p, q)
<1>0. n \in Seq(Nat) /\ m \in Seq(Nat)
  BY NameShape
<1>1. PICK k : k = ObjectKey(n, p)
  OBVIOUS
<1>2. PICK l : l = ObjectKey(m, q)
  OBVIOUS
<1>3. Len(n) \in Nat /\ Len(m) \in Nat /\ Len(p) \in Nat /\ Len(q) \in Nat
  BY <1>0, LenProperties
<1>4. /\ k \in Seq(Nat) /\ Len(k) = Len(n) + 1 + Len(p)
      /\ \A i \in 1..Len(n) : k[i] = n[i]
      /\ k[Len(n) + 1] = Slash
      /\ \A i \in 1..Len(p) : k[Len(n) + 1 + i] = p[i]
  <2>1. /\ ObjectKey(n, p) \in Seq(Nat)
        /\ Len(ObjectKey(n, p)) = Len(n) + 1 + Len(p)
        /\ \A i \in 1..Len(n) : ObjectKey(n, p)[i] = n[i]
        /\ ObjectKey(n, p)[Len(n) + 1] = Slash
        /\ \A i \in 1..Len(p) : ObjectKey(n, p)[Len(n) + 1 + i] = p[i]
    BY <1>0, KeyShape
  <2> QED
    BY <1>1, <2>1
<1>5. /\ l \in Seq(Nat) /\ Len(l) = Len(m) + 1 + Len(q)
      /\ \A i \in 1..Len(m) : l[i] = m[i]
      /\ l[Len(m) + 1] = Slash
      /\ \A i \in 1..Len(q) : l[Len(m) + 1 + i] = q[i]
  <2>1. /\ ObjectKey(m, q) \in Seq(Nat)
        /\ Len(ObjectKey(m, q)) = Len(m) + 1 + Len(q)
        /\ \A i \in 1..Len(m) : ObjectKey(m, q)[i] = m[i]
        /\ ObjectKey(m, q)[Len(m) + 1] = Slash
        /\ \A i \in 1..Len(q) : ObjectKey(m, q)[Len(m) + 1 + i] = q[i]
    BY <1>0, KeyShape
  <2> QED
    BY <1>2, <2>1
<1>6. \A i \in 1..Len(n) : n[i] # Slash
  BY NameShape
<1>7. \A i \in 1..Len(m) : m[i] # Slash
  BY NameShape
<1>8. IsPrefix(k, l) <=> Len(k) <= Len(l) /\ \A i \in 1..Len(k) : k[i] = l[i]
  BY <1>4, <1>5, PrefixPointwise
<1>9. IsPrefix(p, q) <=> Len(p) <= Len(q) /\ \A i \in 1..Len(p) : p[i] = q[i]
  BY PrefixPointwise
<1>10. ASSUME IsPrefix(k, l) PROVE n = m
  <2>1. Len(k) <= Len(l) /\ \A i \in 1..Len(k) : k[i] = l[i]
    BY <1>8, <1>10
  <2>2. Len(n) <= Len(m)
    <3> SUFFICES ASSUME Len(m) < Len(n) PROVE FALSE
      BY <1>3
    <3>1. Len(m) + 1 \in 1..Len(n) /\ Len(m) + 1 \in 1..Len(k)
      BY <1>3, <1>4
    <3>2. n[Len(m) + 1] = Slash
      BY <1>4, <1>5, <2>1, <3>1
    <3> QED
      BY <1>6, <3>1, <3>2
  <2>3. Len(m) <= Len(n)
    <3> SUFFICES ASSUME Len(n) < Len(m) PROVE FALSE
      BY <1>3
    <3>1. Len(n) + 1 \in 1..Len(m) /\ Len(n) + 1 \in 1..Len(k)
      BY <1>3, <1>4
    <3>2. m[Len(n) + 1] = Slash
      BY <1>4, <1>5, <2>1, <3>1
    <3> QED
      BY <1>7, <3>1, <3>2
  <2>4. Len(n) = Len(m) /\ 1..Len(n) \subseteq 1..Len(k)
    BY <1>3, <1>4, <2>2, <2>3
  <2>5. \A i \in 1..Len(n) : n[i] = m[i]
    BY <1>4, <1>5, <2>1, <2>4
  <2> QED
    BY <1>0, <2>4, <2>5, SeqEqual
<1>11. ASSUME IsPrefix(k, l), n = m PROVE IsPrefix(p, q)
  <2>1. Len(k) <= Len(l) /\ \A i \in 1..Len(k) : k[i] = l[i]
    BY <1>8, <1>11
  <2>2. Len(p) <= Len(q)
    BY <1>3, <1>4, <1>5, <1>11, <2>1
  <2>3. ASSUME NEW i \in 1..Len(p) PROVE p[i] = q[i]
    <3>1. Len(n) + 1 + i \in 1..Len(k) /\ i \in 1..Len(q)
      BY <1>3, <1>4, <2>2
    <3> QED
      BY <1>4, <1>5, <1>11, <2>1, <3>1
  <2> QED
    BY <1>9, <2>2, <2>3
<1>12. ASSUME n = m, IsPrefix(p, q) PROVE IsPrefix(k, l)
  <2>1. Len(p) <= Len(q) /\ \A i \in 1..Len(p) : p[i] = q[i]
    BY <1>9, <1>12
  <2>2. Len(k) <= Len(l)
    BY <1>3, <1>4, <1>5, <1>12, <2>1
  <2>3. ASSUME NEW i \in 1..Len(k) PROVE k[i] = l[i]
    <3>1. CASE i <= Len(n)
      <4>1. i \in 1..Len(n)
        BY <1>3, <3>1
      <4> QED
        BY <1>4, <1>5, <1>12, <4>1
    <3>2. CASE i = Len(n) + 1
      BY <1>4, <1>5, <1>12, <3>2
    <3>3. CASE i > Len(n) + 1
      <4>1. PICK j \in 1..Len(p) : i = Len(n) + 1 + j
        <5>1. i - (Len(n) + 1) \in 1..Len(p) /\ i = Len(n) + 1 + (i - (Len(n) + 1))
          BY <1>3, <1>4, <3>3
        <5> QED
          BY <5>1
      <4>2. j \in 1..Len(q)
        BY <1>3, <2>1
      <4> QED
        BY <1>4, <1>5, <1>12, <2>1, <4>1, <4>2
    <3>4. i <= Len(n) \/ i = Len(n) + 1 \/ i > Len(n) + 1
      BY <1>3, <1>4
    <3> QED
      BY <3>1, <3>2, <3>3, <3>4
  <2> QED
    BY <1>8, <2>2, <2>3
<1> QED
  BY <1>1, <1>2, <1>10, <1>11, <1>12

\* A key tells its namespace and its path.
LEMMA KeyParts ==
  ASSUME NEW n \in Namespaces, NEW p \in Seq(Nat)
  PROVE  /\ SubSeq(ObjectKey(n, p), Len(ObjectKey(n, <<>>)) + 1, Len(ObjectKey(n, p))) = p
         /\ NamespaceOf(ObjectKey(n, p)) = n
<1>0. n \in Seq(Nat) /\ <<>> \in Seq(Nat) /\ Len(<<>>) = 0
  BY NameShape, EmptySeq
<1>1. PICK k : k = ObjectKey(n, p)
  OBVIOUS
<1>2. Len(n) \in Nat /\ Len(p) \in Nat /\ Len(ObjectKey(n, <<>>)) = Len(n) + 1
  <2>1. Len(n) \in Nat /\ Len(p) \in Nat
    BY <1>0, LenProperties
  <2>2. Len(ObjectKey(n, <<>>)) = Len(n) + 1 + Len(<<>>)
    BY <1>0, KeyShape, Zenon
  <2> QED
    BY <1>0, <2>1, <2>2
<1>3. /\ k \in Seq(Nat) /\ Len(k) = Len(n) + 1 + Len(p)
      /\ \A i \in 1..Len(n) : k[i] = n[i]
      /\ k[Len(n) + 1] = Slash
      /\ \A i \in 1..Len(p) : k[Len(n) + 1 + i] = p[i]
  <2>1. /\ ObjectKey(n, p) \in Seq(Nat)
        /\ Len(ObjectKey(n, p)) = Len(n) + 1 + Len(p)
        /\ \A i \in 1..Len(n) : ObjectKey(n, p)[i] = n[i]
        /\ ObjectKey(n, p)[Len(n) + 1] = Slash
        /\ \A i \in 1..Len(p) : ObjectKey(n, p)[Len(n) + 1 + i] = p[i]
    BY <1>0, KeyShape
  <2> QED
    BY <1>1, <2>1
<1>4. \A i \in 1..Len(k) : k[i] \in Nat
  BY <1>3, ElementOfSeq
<1>5. SubSeq(k, Len(n) + 2, Len(k)) = p
  <2>1. Len(n) + 2 \in Int /\ Len(k) \in Int /\ \A i \in (Len(n) + 2)..Len(k) : k[i] \in Nat
    BY <1>2, <1>3, <1>4
  <2>2. PICK s : s = SubSeq(k, Len(n) + 2, Len(k))
    OBVIOUS
  <2>3. /\ s \in Seq(Nat)
        /\ Len(s) = IF Len(n) + 2 <= Len(k) THEN Len(k) - (Len(n) + 2) + 1 ELSE 0
        /\ \A i \in 1..(Len(k) - (Len(n) + 2) + 1) : s[i] = k[Len(n) + 2 + i - 1]
    BY <2>1, <2>2, SubSeqProperties
  <2>4. Len(s) = Len(p) /\ Len(k) - (Len(n) + 2) + 1 = Len(p)
    BY <1>2, <1>3, <2>3
  <2>5. ASSUME NEW i \in 1..Len(p) PROVE s[i] = p[i]
    <3>1. Len(n) + 2 + i - 1 = Len(n) + 1 + i
      BY <1>2
    <3> QED
      BY <1>3, <2>3, <2>4, <3>1
  <2> QED
    BY <2>2, <2>3, <2>4, <2>5, SeqEqual
<1>6. NamespaceOf(k) = n
  <2>1. DOMAIN k = 1..Len(k)
    BY <1>3, LenProperties
  <2>2. PICK c : c = CHOOSE i \in DOMAIN k : k[i] = Slash /\ \A j \in 1..(i - 1) : k[j] # Slash
    OBVIOUS
  <2>3. Len(n) + 1 \in DOMAIN k /\ k[Len(n) + 1] = Slash /\ \A j \in 1..(Len(n) + 1 - 1) : k[j] # Slash
    <3>1. Len(n) + 1 \in 1..Len(k) /\ Len(n) + 1 - 1 = Len(n)
      BY <1>2, <1>3
    <3>2. \A j \in 1..Len(n) : k[j] # Slash
      BY <1>3, NameShape
    <3> QED
      BY <1>3, <2>1, <3>1, <3>2
  <2>4. c \in DOMAIN k /\ k[c] = Slash /\ \A j \in 1..(c - 1) : k[j] # Slash
    <3>1. \E i \in DOMAIN k : k[i] = Slash /\ \A j \in 1..(i - 1) : k[j] # Slash
      BY <2>3
    <3> QED
      BY <2>2, <3>1, Zenon
  <2>5. c = Len(n) + 1
    <3>1. ~(c < Len(n) + 1)
      <4> SUFFICES ASSUME c < Len(n) + 1 PROVE FALSE
        OBVIOUS
      <4>1. c \in 1..(Len(n) + 1 - 1)
        BY <1>2, <1>3, <2>1, <2>4
      <4> QED
        BY <2>3, <2>4, <4>1
    <3>2. ~(Len(n) + 1 < c)
      <4> SUFFICES ASSUME Len(n) + 1 < c PROVE FALSE
        OBVIOUS
      <4>1. Len(n) + 1 \in 1..(c - 1)
        BY <1>2, <1>3, <2>1, <2>4, SMTT(30)
      <4> QED
        BY <2>3, <2>4, <4>1
    <3>3. c \in Nat
      BY <1>2, <1>3, <2>1, <2>4
    <3> QED
      BY <1>2, <3>1, <3>2, <3>3
  <2>6. NamespaceOf(k) = SubSeq(k, 1, c - 1)
    BY <2>2 DEF NamespaceOf
  <2>7. c - 1 = Len(n)
    BY <1>2, <2>5
  <2>8. SubSeq(k, 1, Len(n)) = n
    <3>1. PICK s : s = SubSeq(k, 1, Len(n))
      OBVIOUS
    <3>2. 1 \in Int /\ Len(n) \in Int /\ \A i \in 1..Len(n) : k[i] \in Nat
      BY <1>2, <1>3, <1>4
    <3>3. /\ s \in Seq(Nat) /\ Len(s) = IF 1 <= Len(n) THEN Len(n) - 1 + 1 ELSE 0
          /\ \A i \in 1..(Len(n) - 1 + 1) : s[i] = k[1 + i - 1]
      BY <3>1, <3>2, SubSeqProperties
    <3>4. Len(s) = Len(n) /\ \A i \in 1..Len(n) : s[i] = k[i]
      BY <1>2, <3>3
    <3> QED
      BY <1>0, <1>3, <3>1, <3>3, <3>4, SeqEqual
  <2> QED
    BY <2>6, <2>7, <2>8
<1>7. Len(ObjectKey(n, <<>>)) + 1 = Len(n) + 2
  BY <1>2
<1> QED
  BY <1>1, <1>5, <1>6, <1>7
-----------------------------------------------------------------------------
(* Finite sets of strings *)

LEMMA PartOfFinite ==
  ASSUME NEW S, IsFiniteSet(S), NEW T \in SUBSET S
  PROVE  /\ IsFiniteSet(T) /\ Cardinality(T) \in Nat /\ Cardinality(S) \in Nat
         /\ Cardinality(T) <= Cardinality(S)
         /\ T # S => Cardinality(T) < Cardinality(S)
<1>1. IsFiniteSet(T) /\ Cardinality(T) <= Cardinality(S) /\ (Cardinality(S) = Cardinality(T) => S = T)
  BY FS_Subset
<1>2. Cardinality(T) \in Nat /\ Cardinality(S) \in Nat
  BY <1>1, FS_CardinalityType
<1> QED
  BY <1>1, <1>2

\* What comes before a string of S comes before the strings behind it.
LEMMA FewerBefore ==
  ASSUME NEW S \in SUBSET Seq(Nat), IsFiniteSet(S), NEW x \in S, NEW y \in S, Less(x, y)
  PROVE  /\ Cardinality({j \in S : Less(j, x)}) \in Nat
         /\ Cardinality({j \in S : Less(j, y)}) \in Nat
         /\ Cardinality({j \in S : Less(j, x)}) < Cardinality({j \in S : Less(j, y)})
<1>1. PICK A : A = {j \in S : Less(j, x)}
  OBVIOUS
<1>2. PICK B : B = {j \in S : Less(j, y)}
  OBVIOUS
<1>3. A \in SUBSET B
  BY <1>1, <1>2, Transitive
<1>4. x \in B /\ x \notin A
  BY <1>1, <1>2, Irreflexive
<1>5. IsFiniteSet(B)
  BY <1>2, PartOfFinite
<1> QED
  BY <1>1, <1>2, <1>3, <1>4, <1>5, PartOfFinite

LEMMA LeastString ==
  ASSUME NEW S \in SUBSET Seq(Nat), IsFiniteSet(S), S # {}
  PROVE  \E x \in S : \A y \in S : ~Less(y, x)
<1>1. PICK T : T = {Cardinality({j \in S : Less(j, x)}) : x \in S}
  OBVIOUS
<1>2. \A x \in S : Cardinality({j \in S : Less(j, x)}) \in Nat
  BY PartOfFinite
<1>3. T \in SUBSET Nat /\ T # {}
  BY <1>1, <1>2
<1>4. PICK c \in T : \A d \in T : c <= d
  BY <1>3, LeastNumber
<1>5. PICK x \in S : c = Cardinality({j \in S : Less(j, x)})
  BY <1>1, <1>4
<1>6. ASSUME NEW y \in S, Less(y, x) PROVE FALSE
  <2>1. PICK d : d = Cardinality({j \in S : Less(j, y)})
    OBVIOUS
  <2>2. d \in Nat /\ c \in Nat /\ d < c
    BY <1>5, <1>6, <2>1, FewerBefore
  <2>3. d \in T
    BY <1>1, <2>1
  <2> QED
    BY <1>4, <2>2, <2>3
<1> QED
  BY <1>6

LEMMA LastString ==
  ASSUME NEW S \in SUBSET Seq(Nat), IsFiniteSet(S), S # {}
  PROVE  LastOf(S) \in S /\ \A y \in S : y = LastOf(S) \/ Less(y, LastOf(S))
<1>0. PICK m : m = Cardinality(S)
  OBVIOUS
<1>1. PICK T : T = {m - Cardinality({j \in S : Less(j, x)}) : x \in S}
  OBVIOUS
<1>2. \A x \in S : m - Cardinality({j \in S : Less(j, x)}) \in Nat
  <2> TAKE x \in S
  <2>1. PICK A : A = {j \in S : Less(j, x)}
    OBVIOUS
  <2>2. Cardinality(A) \in Nat /\ m \in Nat /\ Cardinality(A) <= m
    BY <1>0, <2>1, PartOfFinite
  <2> QED
    BY <2>1, <2>2
<1>3. T \in SUBSET Nat /\ T # {}
  BY <1>1, <1>2
<1>4. PICK c \in T : \A d \in T : c <= d
  BY <1>3, LeastNumber
<1>5. PICK x \in S : c = m - Cardinality({j \in S : Less(j, x)})
  BY <1>1, <1>4
<1>6. ASSUME NEW y \in S, Less(x, y) PROVE FALSE
  <2>1. PICK d : d = Cardinality({j \in S : Less(j, y)})
    OBVIOUS
  <2>e. PICK e : e = Cardinality({j \in S : Less(j, x)})
    OBVIOUS
  <2>2. d \in Nat /\ e \in Nat /\ e < d
    BY <1>6, <2>1, <2>e, FewerBefore
  <2>3. m - d \in T /\ c = m - e
    BY <1>1, <1>5, <2>1, <2>e
  <2>4. m \in Nat
    BY <1>0, FS_CardinalityType
  <2> QED
    BY <1>4, <2>2, <2>3, <2>4
<1>7. \E k \in S : \A j \in S : ~Less(k, j)
  BY <1>6
<1>8. LastOf(S) \in S /\ \A j \in S : ~Less(LastOf(S), j)
  BY <1>7, Zenon DEF LastOf
<1> QED
  BY <1>8, Total

\* FirstOf(S, m) is an initial part of S,
LEMMA FirstComeFirst ==
  ASSUME NEW S \in SUBSET Seq(Nat), IsFiniteSet(S), NEW m \in Nat,
         NEW x \in FirstOf(S, m), NEW k \in S \ FirstOf(S, m)
  PROVE  Less(x, k)
<1>1. x \in S /\ Cardinality({j \in S : Less(j, x)}) < m
  BY DEF FirstOf
<1>2. ~(Cardinality({j \in S : Less(j, k)}) < m)
  BY DEF FirstOf
<1>3. CASE x = k
  BY <1>1, <1>2, <1>3
<1>4. CASE Less(k, x)
  <2>1. PICK c : c = Cardinality({j \in S : Less(j, x)})
    OBVIOUS
  <2>2. PICK d : d = Cardinality({j \in S : Less(j, k)})
    OBVIOUS
  <2>3. c \in Nat /\ d \in Nat /\ d < c
    BY <1>1, <1>4, <2>1, <2>2, FewerBefore
  <2> QED
    BY <1>1, <1>2, <2>1, <2>2, <2>3
<1> QED
  BY <1>1, <1>3, <1>4, Total

\* has m elements unless it is all of S,
LEMMA FirstAreEnough ==
  ASSUME NEW S \in SUBSET Seq(Nat), IsFiniteSet(S), NEW m \in Nat,
         NEW k \in S \ FirstOf(S, m)
  PROVE  Cardinality(FirstOf(S, m)) \in Nat /\ Cardinality(FirstOf(S, m)) >= m
<1>1. PICK F : F = FirstOf(S, m)
  OBVIOUS
<1>2. F \in SUBSET S
  BY <1>1 DEF FirstOf
<1>3. IsFiniteSet(F) /\ IsFiniteSet(S \ F) /\ S \ F # {} /\ S \ F \in SUBSET Seq(Nat)
  BY <1>1, <1>2, PartOfFinite
<1>4. PICK z \in S \ F : \A y \in S \ F : ~Less(y, z)
  BY <1>3, LeastString
<1>5. PICK B : B = {j \in S : Less(j, z)}
  OBVIOUS
<1>6. B \in SUBSET F
  BY <1>4, <1>5
<1>7. ~(Cardinality(B) < m)
  BY <1>1, <1>4, <1>5 DEF FirstOf
<1>8. Cardinality(B) \in Nat /\ Cardinality(F) \in Nat /\ Cardinality(B) <= Cardinality(F)
  BY <1>3, <1>6, PartOfFinite
<1> QED
  BY <1>1, <1>7, <1>8

\* and is empty only if S is.
LEMMA FirstExists ==
  ASSUME NEW S \in SUBSET Seq(Nat), IsFiniteSet(S), S # {}, NEW m \in Nat, m >= 1
  PROVE  FirstOf(S, m) # {}
<1>1. PICK x \in S : \A y \in S : ~Less(y, x)
  BY LeastString
<1>2. {j \in S : Less(j, x)} = {}
  BY <1>1
<1>3. Cardinality({j \in S : Less(j, x)}) = 0
  BY <1>2, FS_EmptySet
<1> QED
  BY <1>3 DEF FirstOf

(* What a scan of the object table returns *)

\* The keys stored are keys of objects.
KeysOK == keys \subseteq {ObjectKey(o[1], o[2]) : o \in Objects}

LEMMA KeyOfObject ==
  ASSUME KeysOK, NEW k \in keys
  PROVE  \E n \in Namespaces : \E p \in Seq(Nat) : k = ObjectKey(n, p) /\ p \in Stored(n)
<1>1. PICK o \in Objects : k = ObjectKey(o[1], o[2])
  BY DEF KeysOK
<1>2. o[1] \in Namespaces /\ o[2] \in Seq(Nat)
  BY ObjectShape
<1>3. o[2] \in Stored(o[1])
  BY <1>1 DEF Stored
<1> QED
  BY <1>1, <1>2, <1>3

LEMMA StoredKeys ==
  ASSUME NEW n \in Namespaces, NEW p \in Stored(n)
  PROVE  p \in Seq(Nat) /\ p # <<>> /\ ObjectKey(n, p) \in keys
  BY ObjectShape DEF Stored

\* Different paths have different keys.
LEMMA KeyInjective ==
  ASSUME NEW n \in Namespaces, NEW p \in Seq(Nat), NEW q \in Seq(Nat),
         ObjectKey(n, p) = ObjectKey(n, q)
  PROVE  p = q
<1>1. SubSeq(ObjectKey(n, p), Len(ObjectKey(n, <<>>)) + 1, Len(ObjectKey(n, p))) = p
  BY KeyParts
<1>2. SubSeq(ObjectKey(n, q), Len(ObjectKey(n, <<>>)) + 1, Len(ObjectKey(n, q))) = q
  BY KeyParts
<1> QED
  BY <1>1, <1>2

\* The keys a scan starts from are not before the prefix, and those of the
\* namespace lie behind the cursor.
LEMMA ScanStart ==
  ASSUME KeysOK, NEW n \in Namespaces, NEW prefix \in Seq(Nat),
         NEW after \in Seq(Nat) \cup {None}, after # None => IsPrefix(prefix, after),
         NEW k \in KeysFrom(n, prefix, after)
  PROVE  k \in keys /\ k \in Seq(Nat) /\ ~Less(k, ObjectKey(n, prefix))
<1>0. n \in Seq(Nat) /\ k \in keys
  BY NameShape DEF KeysFrom
<1>1. PICK m \in Namespaces, p \in Seq(Nat) : k = ObjectKey(m, p)
  BY <1>0, KeyOfObject
<1>2. k \in Seq(Nat)
  BY <1>1, NameShape, KeyShape
<1>3. CASE after = None
  BY <1>0, <1>2, <1>3 DEF KeysFrom
<1>4. CASE after # None
  <2>0. after \in Seq(Nat)
    BY <1>4
  <2>1. ObjectKey(n, prefix) \in Seq(Nat) /\ ObjectKey(n, after) \in Seq(Nat)
    BY <1>0, <2>0, KeyShape
  <2>2. IsPrefix(ObjectKey(n, prefix), ObjectKey(n, after))
    BY <1>4, <2>0, KeyPrefix
  <2>3. ~Less(ObjectKey(n, after), ObjectKey(n, prefix))
    BY <2>1, <2>2, PrefixFirst
  <2>4. Less(ObjectKey(n, after), k)
    BY <1>4 DEF KeysFrom
  <2> QED
    BY <1>0, <1>2, <2>1, <2>3, <2>4, Transitive
<1> QED
  BY <1>3, <1>4

\* Where the scan stops at the first key without the prefix, it has seen all
\* the keys with the prefix among those it looked at: a page holds exactly the
\* stored paths with the prefix whose keys are among the first.
LEMMA ScanMeaning ==
  ASSUME KeysOK, NEW n \in Namespaces, NEW prefix \in Seq(Nat),
         NEW after \in Seq(Nat) \cup {None}, after # None => IsPrefix(prefix, after),
         NEW m
  PROVE  ListObjectPaths(n, prefix, after, m)
           = {p \in Stored(n) : /\ IsPrefix(prefix, p)
                                /\ ObjectKey(n, p) \in FirstOf(KeysFrom(n, prefix, after), m)}
<1>1. PICK F : F = FirstOf(KeysFrom(n, prefix, after), m)
  OBVIOUS
<1>2. PICK kp : kp = ObjectKey(n, prefix)
  OBVIOUS
<1>3. \A k \in F : k \in keys /\ k \in Seq(Nat) /\ ~Less(k, kp)
  <2>1. F \subseteq KeysFrom(n, prefix, after)
    BY <1>1 DEF FirstOf
  <2> QED
    BY <1>2, <2>1, ScanStart
<1>4. kp \in Seq(Nat)
  BY <1>2, NameShape, KeyShape
<1>5. InPrefix(F, kp) = {k \in F : IsPrefix(kp, k)}
  <2>1. ASSUME NEW k \in InPrefix(F, kp) PROVE k \in F /\ IsPrefix(kp, k)
    BY <1>3, Irreflexive DEF InPrefix
  <2>2. ASSUME NEW k \in F, IsPrefix(kp, k) PROVE k \in InPrefix(F, kp)
    <3>1. ASSUME NEW j \in F, ~Less(k, j) PROVE IsPrefix(kp, j)
      BY <1>3, <1>4, <2>2, <3>1, PrefixConvex
    <3> QED
      BY <3>1 DEF InPrefix
  <2> QED
    BY <2>1, <2>2
<1>6. PICK L : L = ListObjectPaths(n, prefix, after, m)
  OBVIOUS
<1>7. L = {SubSeq(k, Len(ObjectKey(n, <<>>)) + 1, Len(k)) : k \in {k \in F : IsPrefix(kp, k)}}
  BY <1>1, <1>2, <1>5, <1>6 DEF ListObjectPaths
<1>8. ASSUME NEW p \in L PROVE p \in Stored(n) /\ IsPrefix(prefix, p) /\ ObjectKey(n, p) \in F
  <2>1. PICK k \in F : IsPrefix(kp, k) /\ p = SubSeq(k, Len(ObjectKey(n, <<>>)) + 1, Len(k))
    BY <1>7
  <2>2. PICK o \in Namespaces, q \in Seq(Nat) : k = ObjectKey(o, q) /\ q \in Stored(o)
    BY <1>3, <2>1, KeyOfObject
  <2>3. o = n /\ IsPrefix(prefix, q)
    BY <1>2, <2>1, <2>2, KeyPrefix
  <2>4. p = q
    BY <2>1, <2>2, <2>3, KeyParts
  <2> QED
    BY <2>2, <2>3, <2>4
<1>9. ASSUME NEW p \in Stored(n), IsPrefix(prefix, p), ObjectKey(n, p) \in F PROVE p \in L
  <2>1. p \in Seq(Nat)
    BY StoredKeys
  <2>2. IsPrefix(kp, ObjectKey(n, p))
    BY <1>2, <1>9, <2>1, KeyPrefix
  <2>3. p = SubSeq(ObjectKey(n, p), Len(ObjectKey(n, <<>>)) + 1, Len(ObjectKey(n, p)))
    BY <2>1, KeyParts
  <2> QED
    BY <1>7, <1>9, <2>2, <2>3
<1> QED
  BY <1>1, <1>6, <1>8, <1>9

\* Each path of a page is stored, has the prefix and lies behind the cursor,
\* and a page is finite.
LEMMA ScanSound ==
  ASSUME KeysOK, IsFiniteSet(keys), NEW n \in Namespaces, NEW prefix \in Seq(Nat),
         NEW after \in Seq(Nat) \cup {None}, after # None => IsPrefix(prefix, after),
         NEW m, NEW L, L = ListObjectPaths(n, prefix, after, m)
  PROVE  /\ L \in SUBSET Stored(n) /\ L \in SUBSET Seq(Nat) /\ IsFiniteSet(L)
         /\ \A p \in L : IsPrefix(prefix, p) /\ (after # None => Less(after, p))
<1>1. L = {p \in Stored(n) : /\ IsPrefix(prefix, p)
                             /\ ObjectKey(n, p) \in FirstOf(KeysFrom(n, prefix, after), m)}
  BY ScanMeaning
<1>2. \A p \in L : p \in Stored(n) /\ p \in Seq(Nat) /\ IsPrefix(prefix, p) /\ ObjectKey(n, p) \in keys
  BY <1>1, StoredKeys
<1>3. ASSUME NEW p \in L, after # None PROVE Less(after, p)
  <2>1. ObjectKey(n, p) \in KeysFrom(n, prefix, after)
    BY <1>1 DEF FirstOf
  <2>2. Less(ObjectKey(n, after), ObjectKey(n, p))
    BY <1>3, <2>1 DEF KeysFrom
  <2>3. n \in Seq(Nat) /\ after \in Seq(Nat) /\ p \in Seq(Nat)
    BY <1>2, <1>3, NameShape
  <2> QED
    BY <2>2, <2>3, KeyOrder
<1>4. IsFiniteSet(L)
  <2>1. PICK f : f = [p \in L |-> ObjectKey(n, p)]
    OBVIOUS
  <2>2. f \in [L -> keys]
    BY <1>2, <2>1
  <2>3. \A p, q \in L : f[p] = f[q] => p = q
    BY <1>2, <2>1, KeyInjective
  <2>4. f \in Injection(L, keys)
    BY <2>2, <2>3 DEF Injection, IsInjective
  <2> QED
    BY <2>4, FS_Injection
<1> QED
  BY <1>2, <1>3, <1>4

\* What a page leaves out although it lies behind the cursor lies behind the
\* whole page, and then the page has as many paths as were asked for.
LEMMA ScanComplete ==
  ASSUME KeysOK, IsFiniteSet(keys), NEW n \in Namespaces, NEW prefix \in Seq(Nat),
         NEW after \in Seq(Nat) \cup {None}, after # None => IsPrefix(prefix, after),
         NEW m \in Nat, NEW L, L = ListObjectPaths(n, prefix, after, m),
         NEW p \in Stored(n), IsPrefix(prefix, p), after # None => Less(after, p), p \notin L
  PROVE  /\ \A r \in L : Less(r, p)
         /\ Cardinality(L) \in Nat /\ Cardinality(L) >= m
<1>1. PICK K : K = KeysFrom(n, prefix, after)
  OBVIOUS
<1>2. PICK F : F = FirstOf(K, m)
  OBVIOUS
<1>3. L = {r \in Stored(n) : IsPrefix(prefix, r) /\ ObjectKey(n, r) \in F}
  BY <1>1, <1>2, ScanMeaning
<1>4. n \in Seq(Nat) /\ p \in Seq(Nat) /\ ObjectKey(n, p) \in keys
  BY NameShape, StoredKeys
<1>5. ObjectKey(n, p) \in Seq(Nat) /\ ObjectKey(n, prefix) \in Seq(Nat)
  BY <1>4, KeyShape
<1>6. IsPrefix(ObjectKey(n, prefix), ObjectKey(n, p))
  BY <1>4, KeyPrefix
<1>7. ObjectKey(n, p) \in K
  <2>1. CASE after = None
    BY <1>1, <1>4, <1>5, <1>6, <2>1, PrefixFirst DEF KeysFrom
  <2>2. CASE after # None
    <3>1. Less(ObjectKey(n, after), ObjectKey(n, p))
      BY <1>4, <2>2, KeyOrder
    <3> QED
      BY <1>1, <1>4, <2>2, <3>1 DEF KeysFrom
  <2> QED
    BY <2>1, <2>2
<1>8. \A k \in K : k \in keys /\ k \in Seq(Nat) /\ ~Less(k, ObjectKey(n, prefix))
  BY <1>1, ScanStart
<1>9. K \in SUBSET Seq(Nat) /\ IsFiniteSet(K)
  <2>1. K \in SUBSET keys /\ K \in SUBSET Seq(Nat)
    BY <1>8
  <2> QED
    BY <2>1, PartOfFinite
<1>10. ObjectKey(n, p) \in K \ F
  BY <1>3, <1>7
<1>11. \A k \in F : Less(k, ObjectKey(n, p))
  BY <1>2, <1>9, <1>10, FirstComeFirst
<1>12. ASSUME NEW r \in L PROVE Less(r, p)
  <2>1. r \in Seq(Nat) /\ ObjectKey(n, r) \in F
    BY <1>3, StoredKeys
  <2>2. Less(ObjectKey(n, r), ObjectKey(n, p))
    BY <1>11, <2>1
  <2> QED
    BY <1>4, <2>1, <2>2, KeyOrder
<1>13. Cardinality(F) \in Nat /\ Cardinality(F) >= m
  BY <1>2, <1>9, <1>10, FirstAreEnough
<1>14. ASSUME NEW k \in F PROVE \E r \in L : k = ObjectKey(n, r)
  <2>1. k \in K /\ k \in keys /\ k \in Seq(Nat) /\ ~Less(k, ObjectKey(n, prefix))
    BY <1>2, <1>8 DEF FirstOf
  <2>2. ~Less(ObjectKey(n, p), k)
    BY <1>5, <1>11, <2>1, Transitive, Irreflexive
  <2>3. IsPrefix(ObjectKey(n, prefix), k)
    BY <1>5, <1>6, <2>1, <2>2, PrefixConvex
  <2>4. PICK o \in Namespaces, r \in Seq(Nat) : k = ObjectKey(o, r) /\ r \in Stored(o)
    BY <2>1, KeyOfObject
  <2>5. o = n /\ IsPrefix(prefix, r)
    BY <2>3, <2>4, KeyPrefix
  <2> QED
    BY <1>3, <2>4, <2>5
<1>15. IsFiniteSet(L)
  BY ScanSound
<1>16. Cardinality(L) \in Nat /\ Cardinality(F) <= Cardinality(L)
  <2>1. PICK f : f = [r \in L |-> ObjectKey(n, r)]
    OBVIOUS
  <2>2. f \in [L -> F]
    BY <1>3, <2>1
  <2>3. \A k \in F : \E r \in L : f[r] = k
    BY <1>14, <2>1
  <2>4. f \in Surjection(L, F)
    BY <2>2, <2>3 DEF Surjection
  <2> QED
    BY <1>15, <2>4, FS_Surjection, FS_CardinalityType
<1> QED
  BY <1>12, <1>13, <1>16
-----------------------------------------------------------------------------
(* The inductive invariant *)

\* The paths the listing in progress has handed out.
Shown == seen \cup page

\* The paths it owes its client.
Owed == {p \in throughout : /\ IsPrefix(query.prefix, p)
                            /\ query.cursor # None => Less(query.cursor, p)}

\* Only finitely many keys are stored at any time, and the history of the
\* listing mentions only stored ones.
TablesInv ==
  /\ IsFiniteSet(keys)
  /\ query # None => throughout \subseteq Stored(query.ns)

\* Nothing has been shown, or is about to be, without the right to see it.
AdmittedInv ==
  /\ query = None => Shown = {}
  /\ step = "scan" \/ Shown # {} => Allows(query.grant, query.ns)

\* The cursor is the last path shown: none shown lies behind it, and every
\* path owed has been shown or lies behind it.
CursorInv ==
  /\ Shown \subseteq Seq(Nat)
  /\ step \in {"admit", "scan"} =>
       /\ \A p \in Shown : cursor # None /\ (p = cursor \/ Less(p, cursor))
       /\ \A p \in Owed : p \in Shown \/ cursor = None \/ Less(cursor, p)

\* Between its two transactions the overview is right about the namespaces
\* nobody touches.
OverviewInv ==
  step = "survey" => \A n \in Namespaces \ touched : (n \in live) <=> (Status(n) = "live")

ListingInv ==
  TypeOK /\ TablesInv /\ AdmittedInv /\ CursorInv /\ OverviewInv /\ PagesAscend /\ ListingComplete
-----------------------------------------------------------------------------
(* Every step keeps the invariant *)

LEMMA QueryShape ==
  ASSUME NEW q \in Queries
  PROVE  /\ q # None /\ q.ns \in Namespaces /\ q.prefix \in Seq(Nat)
         /\ q.limit \in Nat /\ q.cursor \in Seq(Nat) \cup {None}
         /\ q.grant.pattern \in Seq(Nat)
  BY ListingQueriesAssumption

LEMMA InitInv ==
  ASSUME Init
  PROVE  ListingInv
<1>1. TypeOK
  BY DEF Init, TypeOK
<1>2. TablesInv
  BY FS_EmptySet DEF Init, TablesInv
<1>3. AdmittedInv /\ CursorInv /\ OverviewInv /\ PagesAscend /\ ListingComplete
  BY DEF Init, AdmittedInv, CursorInv, OverviewInv, PagesAscend, ListingComplete, Shown
<1> QED
  BY <1>1, <1>2, <1>3 DEF ListingInv

LEMMA RestInv ==
  ASSUME ListingInv, Rest
  PROVE  ListingInv'
<1>1. TypeOK'
  BY DEF ListingInv, TypeOK, Rest, tables
<1>2. TablesInv'
  BY DEF ListingInv, TablesInv, Rest, tables
<1>3. (AdmittedInv /\ CursorInv /\ OverviewInv /\ PagesAscend /\ ListingComplete)'
  BY DEF Rest, AdmittedInv, CursorInv, OverviewInv, PagesAscend, ListingComplete, Shown
<1> QED
  BY <1>1, <1>2, <1>3 DEF ListingInv

LEMMA AskInv ==
  ASSUME ListingInv, NEW q \in Queries, Ask(q)
  PROVE  ListingInv'
<1>0. query = None /\ Shown = {}
  <2>1. query = None
    BY DEF ListingInv, TypeOK, Ask
  <2> QED
    BY <2>1 DEF ListingInv, AdmittedInv
<1>1. TypeOK'
  BY QueryShape DEF ListingInv, TypeOK, Ask, tables, overview
<1>3. TablesInv'
  <2>1. IsFiniteSet(keys')
    BY DEF ListingInv, TablesInv, Ask, tables
  <2>2. query' = q /\ keys' = keys /\ throughout' = Stored(q.ns)
    BY DEF Ask, tables
  <2>3. (throughout \subseteq Stored(query.ns))'
    BY <2>2 DEF Stored
  <2> QED
    BY <2>1, <2>3 DEF TablesInv
<1>4. Shown' = {} /\ query' # None /\ step' = "admit" /\ cursor' = q.cursor /\ query' = q
  BY <1>0, QueryShape DEF Ask, Shown
<1>5. AdmittedInv'
  BY <1>4 DEF AdmittedInv
<1>6. CursorInv'
  BY <1>4 DEF CursorInv, Owed
<1>7. OverviewInv' /\ ListingComplete'
  BY <1>4 DEF OverviewInv, ListingComplete
<1>8. PagesAscend'
  BY <1>4 DEF PagesAscend, Shown
<1> QED
  BY <1>1, <1>3, <1>5, <1>6, <1>7, <1>8 DEF ListingInv

LEMMA AdmitInv ==
  ASSUME ListingInv, AdmitPage
  PROVE  ListingInv'
<1>0. UNCHANGED <<keys, described, deleted, query, cursor, page, seen, live, gone, throughout, touched>>
  BY DEF AdmitPage, tables, listing, overview
<1>1. TypeOK'
  BY <1>0 DEF ListingInv, TypeOK, AdmitPage, Admissible, ValidQuery
<1>2. TablesInv'
  BY <1>0 DEF ListingInv, TablesInv, Stored
<1>3. Shown' = Shown /\ Owed' = Owed
  BY <1>0 DEF Shown, Owed
<1>4. AdmittedInv'
  <2>1. Allows(query.grant, query.ns)
    BY DEF AdmitPage, Admissible
  <2> QED
    BY <1>0, <1>3, <2>1 DEF ListingInv, AdmittedInv
<1>5. CursorInv'
  BY <1>0, <1>3 DEF ListingInv, CursorInv, AdmitPage
<1>6. OverviewInv' /\ ListingComplete'
  BY DEF AdmitPage, OverviewInv, ListingComplete
<1>7. PagesAscend'
  BY <1>0 DEF ListingInv, PagesAscend
<1> QED
  BY <1>1, <1>2, <1>4, <1>5, <1>6, <1>7 DEF ListingInv

\* What a request that is being scanned looks like.
LEMMA ScanContext ==
  ASSUME ListingInv, step = "scan"
  PROVE  /\ KeysOK /\ IsFiniteSet(keys)
         /\ query \in Queries /\ query.ns \in Namespaces /\ query.prefix \in Seq(Nat)
         /\ query.limit \in Nat /\ query.limit >= 1
         /\ cursor \in Seq(Nat) \cup {None}
         /\ cursor # None => IsPrefix(query.prefix, cursor)
         /\ throughout \subseteq Stored(query.ns)
<1>1. query \in Queries /\ query # None
  BY DEF ListingInv, TypeOK
<1>2. query.limit \in Nat /\ query.ns \in Namespaces /\ query.prefix \in Seq(Nat)
  BY <1>1, QueryShape
<1>3. ValidQuery(query, cursor)
  BY DEF ListingInv, TypeOK
<1>4. query.limit >= 1 /\ (cursor # None => IsPrefix(query.prefix, cursor))
  BY <1>3, ListingQueriesAssumption DEF ValidQuery
<1>5. KeysOK /\ IsFiniteSet(keys) /\ cursor \in Seq(Nat) \cup {None}
  BY DEF ListingInv, TypeOK, TablesInv, KeysOK
<1>6. throughout \subseteq Stored(query.ns)
  BY <1>1 DEF ListingInv, TablesInv
<1> QED
  BY <1>1, <1>2, <1>4, <1>5, <1>6

\* The paths a scan finds.
LEMMA FoundPaths ==
  ASSUME ListingInv, step = "scan"
  PROVE  /\ Found \in SUBSET Stored(query.ns) /\ Found \in SUBSET Seq(Nat) /\ IsFiniteSet(Found)
         /\ \A p \in Found : IsPrefix(query.prefix, p) /\ (cursor # None => Less(cursor, p))
         /\ \A p \in Stored(query.ns) :
              IsPrefix(query.prefix, p) /\ (cursor # None => Less(cursor, p)) /\ p \notin Found
                => /\ \A r \in Found : Less(r, p)
                   /\ Cardinality(Found) \in Nat /\ Cardinality(Found) >= query.limit + 1
<1>1. PICK n, prefix, after, m :
        /\ n = query.ns /\ prefix = query.prefix /\ after = cursor /\ m = query.limit + 1
  OBVIOUS
<1>2. /\ KeysOK /\ IsFiniteSet(keys) /\ n \in Namespaces /\ prefix \in Seq(Nat)
      /\ after \in Seq(Nat) \cup {None} /\ (after # None => IsPrefix(prefix, after)) /\ m \in Nat
  BY <1>1, ScanContext
<1>3. PICK L : L = ListObjectPaths(n, prefix, after, m)
  OBVIOUS
<1>4. Found = L
  BY <1>1, <1>3 DEF Found
<1>5. /\ L \in SUBSET Stored(n) /\ L \in SUBSET Seq(Nat) /\ IsFiniteSet(L)
      /\ \A p \in L : IsPrefix(prefix, p) /\ (after # None => Less(after, p))
  BY <1>2, <1>3, ScanSound
<1>6. \A p \in Stored(n) :
        IsPrefix(prefix, p) /\ (after # None => Less(after, p)) /\ p \notin L
          => (\A r \in L : Less(r, p)) /\ Cardinality(L) \in Nat /\ Cardinality(L) >= m
  BY <1>2, <1>3, ScanComplete
<1> QED
  BY <1>1, <1>4, <1>5, <1>6

\* A page that another one follows.
LEMMA ScanMoreInv ==
  ASSUME ListingInv, ScanPage, Cardinality(Found) > query.limit,
         page' = FirstOf(Found, query.limit), cursor' = LastOf(FirstOf(Found, query.limit)),
         step' = "admit"
  PROVE  ListingInv'
<1>0. /\ step = "scan" /\ seen' = seen \cup page
      /\ UNCHANGED <<keys, described, deleted, query, live, gone, throughout, touched>>
  BY DEF ScanPage, tables, overview
<1>1. PICK L, F, c : L = Found /\ F = FirstOf(L, query.limit) /\ c = LastOf(F)
  OBVIOUS
<1>2. page' = F /\ cursor' = c
  BY <1>1
<1>3. /\ query \in Queries /\ query.limit \in Nat /\ query.limit >= 1
      /\ cursor \in Seq(Nat) \cup {None} /\ throughout \subseteq Stored(query.ns)
  BY <1>0, ScanContext
<1>4. /\ L \in SUBSET Seq(Nat) /\ IsFiniteSet(L)
      /\ \A p \in L : cursor # None => Less(cursor, p)
      /\ \A p \in Stored(query.ns) :
           IsPrefix(query.prefix, p) /\ (cursor # None => Less(cursor, p)) /\ p \notin L
             => \A r \in L : Less(r, p)
  BY <1>0, <1>1, FoundPaths
<1>5. L # {}
  <2> SUFFICES ASSUME L = {} PROVE FALSE
    OBVIOUS
  <2>1. Cardinality(L) = 0
    BY FS_EmptySet
  <2>2. Cardinality(L) > query.limit
    BY <1>1
  <2> QED
    BY <1>3, <2>1, <2>2
<1>6. F \in SUBSET L /\ F # {}
  BY <1>1, <1>3, <1>4, <1>5, FirstExists DEF FirstOf
<1>7. IsFiniteSet(F) /\ F \in SUBSET Seq(Nat)
  BY <1>4, <1>6, PartOfFinite
<1>8. c \in F /\ \A y \in F : y = c \/ Less(y, c)
  BY <1>1, <1>6, <1>7, LastString
<1>9. c \in L /\ c \in Seq(Nat) /\ c # None
  BY <1>4, <1>6, <1>8, ListingQueriesAssumption
<1>10. TypeOK'
  BY <1>0, <1>2, <1>3, <1>9, QueryShape DEF ListingInv, TypeOK
<1>11. TablesInv'
  BY <1>0 DEF ListingInv, TablesInv, Stored
<1>12. Shown' = Shown \cup F /\ Owed' = Owed
  BY <1>0, <1>2 DEF Shown, Owed
<1>13. Allows(query.grant, query.ns)
  BY <1>0 DEF ListingInv, AdmittedInv
<1>14. AdmittedInv'
  BY <1>0, <1>3, <1>13, QueryShape DEF AdmittedInv
<1>15. /\ Shown \subseteq Seq(Nat)
       /\ \A p \in Shown : cursor # None /\ (p = cursor \/ Less(p, cursor))
       /\ \A p \in Owed : p \in Shown \/ cursor = None \/ Less(cursor, p)
  BY <1>0 DEF ListingInv, CursorInv
<1>16. ASSUME NEW p \in Shown, NEW r \in L PROVE Less(p, r)
  <2>1. cursor # None /\ (p = cursor \/ Less(p, cursor)) /\ Less(cursor, r)
    BY <1>4, <1>15
  <2>2. cursor \in Seq(Nat) /\ p \in Seq(Nat) /\ r \in Seq(Nat)
    BY <1>3, <1>4, <1>15, <2>1
  <2> QED
    BY <2>1, <2>2, Transitive
<1>17. CursorInv'
  <2>1. Shown' \subseteq Seq(Nat)
    BY <1>7, <1>12, <1>15
  <2>2. ASSUME NEW p \in Shown' PROVE cursor' # None /\ (p = cursor' \/ Less(p, cursor'))
    BY <1>2, <1>8, <1>9, <1>12, <1>16
  <2>3. ASSUME NEW p \in Owed' PROVE p \in Shown' \/ Less(cursor', p)
    <3>1. p \in Owed /\ p \in Stored(query.ns) /\ IsPrefix(query.prefix, p)
      BY <1>3, <1>12 DEF Owed
    <3>2. CASE p \in Shown
      BY <1>12, <3>2
    <3>3. CASE p \in L
      <4>1. CASE p \in F
        BY <1>12, <4>1
      <4>2. CASE p \notin F
        BY <1>1, <1>2, <1>3, <1>4, <1>8, <3>3, <4>2, FirstComeFirst
      <4> QED
        BY <4>1, <4>2
    <3>4. CASE p \notin Shown /\ p \notin L
      <4>1. cursor # None => Less(cursor, p)
        BY <1>15, <3>1, <3>4
      <4> QED
        BY <1>2, <1>4, <1>9, <3>1, <3>4, <4>1
    <3> QED
      BY <3>2, <3>3, <3>4
  <2> QED
    BY <2>1, <2>2, <2>3 DEF CursorInv
<1>18. OverviewInv' /\ ListingComplete'
  BY DEF OverviewInv, ListingComplete
<1>19. PagesAscend'
  BY <1>0, <1>2, <1>6, <1>16 DEF PagesAscend, Shown
<1> QED
  BY <1>10, <1>11, <1>14, <1>17, <1>18, <1>19 DEF ListingInv

\* The last page.
LEMMA ScanLastInv ==
  ASSUME ListingInv, ScanPage, Cardinality(Found) <= query.limit,
         page' = Found, cursor' = None, step' = "complete"
  PROVE  ListingInv'
<1>0. /\ step = "scan" /\ seen' = seen \cup page
      /\ UNCHANGED <<keys, described, deleted, query, live, gone, throughout, touched>>
  BY DEF ScanPage, tables, overview
<1>1. PICK L : L = Found
  OBVIOUS
<1>2. page' = L
  BY <1>1
<1>3. /\ query \in Queries /\ query.limit \in Nat
      /\ cursor \in Seq(Nat) \cup {None} /\ throughout \subseteq Stored(query.ns)
  BY <1>0, ScanContext
<1>4. /\ L \in SUBSET Seq(Nat)
      /\ \A p \in L : cursor # None => Less(cursor, p)
      /\ \A p \in Stored(query.ns) :
           IsPrefix(query.prefix, p) /\ (cursor # None => Less(cursor, p)) /\ p \notin L
             => Cardinality(L) \in Nat /\ Cardinality(L) >= query.limit + 1
  BY <1>0, <1>1, FoundPaths
<1>10. TypeOK'
  BY <1>0, <1>3, QueryShape DEF ListingInv, TypeOK
<1>11. TablesInv'
  BY <1>0 DEF ListingInv, TablesInv, Stored
<1>12. Shown' = Shown \cup L /\ Owed' = Owed
  BY <1>0, <1>2 DEF Shown, Owed
<1>13. Allows(query.grant, query.ns)
  BY <1>0 DEF ListingInv, AdmittedInv
<1>14. AdmittedInv'
  BY <1>0, <1>3, <1>13, QueryShape DEF AdmittedInv
<1>15. /\ Shown \subseteq Seq(Nat)
       /\ \A p \in Shown : cursor # None /\ (p = cursor \/ Less(p, cursor))
       /\ \A p \in Owed : p \in Shown \/ cursor = None \/ Less(cursor, p)
  BY <1>0 DEF ListingInv, CursorInv
<1>16. ASSUME NEW p \in Shown, NEW r \in L PROVE Less(p, r)
  <2>1. cursor # None /\ (p = cursor \/ Less(p, cursor)) /\ Less(cursor, r)
    BY <1>4, <1>15
  <2>2. cursor \in Seq(Nat) /\ p \in Seq(Nat) /\ r \in Seq(Nat)
    BY <1>3, <1>4, <1>15, <2>1
  <2> QED
    BY <2>1, <2>2, Transitive
<1>17. CursorInv'
  BY <1>4, <1>12, <1>15 DEF CursorInv
<1>18. ListingComplete'
  <2>1. ASSUME NEW p \in Owed PROVE p \in Shown'
    <3> SUFFICES ASSUME p \notin Shown, p \notin L PROVE FALSE
      BY <1>12
    <3>1. p \in Stored(query.ns) /\ IsPrefix(query.prefix, p)
      BY <1>3 DEF Owed
    <3>2. cursor # None => Less(cursor, p)
      BY <1>15
    <3>3. Cardinality(L) \in Nat /\ Cardinality(L) >= query.limit + 1
      BY <1>4, <3>1, <3>2
    <3> QED
      BY <1>1, <1>3, <3>3
  <2>2. Owed' \subseteq Shown'
    BY <1>12, <2>1
  <2> QED
    BY <2>2 DEF ListingComplete, Owed, Shown
<1>19. PagesAscend'
  BY <1>0, <1>2, <1>16 DEF PagesAscend, Shown
<1>20. OverviewInv'
  BY DEF OverviewInv
<1> QED
  BY <1>10, <1>11, <1>14, <1>17, <1>18, <1>19, <1>20 DEF ListingInv
\* A namespace has a key in the table exactly if it stores an object.
LEMMA NamespacesOfKeys ==
  ASSUME KeysOK, NEW n \in Namespaces
  PROVE  n \in {NamespaceOf(k) : k \in keys} <=> Stored(n) # {}
<1>1. ASSUME NEW k \in keys, n = NamespaceOf(k) PROVE Stored(n) # {}
  <2>1. PICK m \in Namespaces, p \in Seq(Nat) : k = ObjectKey(m, p) /\ p \in Stored(m)
    BY KeyOfObject
  <2>2. NamespaceOf(k) = m
    BY <2>1, KeyParts
  <2> QED
    BY <1>1, <2>1, <2>2
<1>2. ASSUME NEW p \in Stored(n) PROVE n \in {NamespaceOf(k) : k \in keys}
  <2>1. p \in Seq(Nat) /\ ObjectKey(n, p) \in keys
    BY StoredKeys
  <2>2. NamespaceOf(ObjectKey(n, p)) = n
    BY <2>1, KeyParts
  <2> QED
    BY <2>1, <2>2
<1> QED
  BY <1>1, <1>2

LEMMA StatusMeaning ==
  ASSUME NEW n
  PROVE  /\ (Status(n) = "deleted") <=> n \in deleted
         /\ (Status(n) = "live") <=> n \notin deleted /\ (n \in described \/ Stored(n) # {})
  BY DEF Status

LEMMA ListLiveInv ==
  ASSUME ListingInv, ListLive
  PROVE  ListingInv'
<1>0. /\ step = "idle" /\ step' = "survey" /\ live' = ListNamespaces
      /\ UNCHANGED <<keys, described, deleted, query, cursor, page, seen, gone, throughout, touched>>
  BY DEF ListLive, tables, listing
<1>1. KeysOK /\ query = None
  BY <1>0 DEF ListingInv, TypeOK, KeysOK
<1>2. live' \subseteq Namespaces
  <2>1. ASSUME NEW k \in keys PROVE NamespaceOf(k) \in Namespaces
    <3>1. PICK m \in Namespaces, p \in Seq(Nat) : k = ObjectKey(m, p)
      BY <1>1, KeyOfObject
    <3> QED
      BY <3>1, KeyParts
  <2>2. described \subseteq Namespaces
    BY DEF ListingInv, TypeOK
  <2> QED
    BY <1>0, <2>1, <2>2 DEF ListNamespaces
<1>3. TypeOK'
  BY <1>0, <1>1, <1>2 DEF ListingInv, TypeOK
<1>4. TablesInv'
  BY <1>0 DEF ListingInv, TablesInv, Stored
<1>5. Shown' = Shown /\ Shown = {}
  BY <1>0, <1>1 DEF ListingInv, AdmittedInv, Shown
<1>6. AdmittedInv' /\ CursorInv' /\ PagesAscend' /\ ListingComplete'
  BY <1>0, <1>5 DEF AdmittedInv, CursorInv, PagesAscend, ListingComplete, Shown
<1>7. OverviewInv'
  <2>1. ASSUME NEW n \in Namespaces PROVE (n \in live') <=> (Status(n)' = "live")
    <3>1. Status(n)' = Status(n)
      BY <1>0 DEF Status, Stored
    <3>2. n \in {NamespaceOf(k) : k \in keys} <=> Stored(n) # {}
      BY <1>1, NamespacesOfKeys
    <3>3. n \in live' <=> n \notin deleted /\ (n \in described \/ n \in {NamespaceOf(k) : k \in keys})
      BY <1>0 DEF ListNamespaces
    <3> QED
      BY <3>1, <3>2, <3>3, StatusMeaning
  <2> QED
    BY <2>1 DEF OverviewInv
<1> QED
  BY <1>3, <1>4, <1>6, <1>7 DEF ListingInv

LEMMA ListDeletedInv ==
  ASSUME ListingInv, ListDeleted
  PROVE  ListingInv'
<1>0. /\ step = "survey" /\ step' = "surveyed" /\ gone' = deleted
      /\ UNCHANGED <<keys, described, deleted, query, cursor, page, seen, live, throughout, touched>>
  BY DEF ListDeleted, tables, listing
<1>1. query = None
  BY <1>0 DEF ListingInv, TypeOK
<1>3. TypeOK'
  BY <1>0, <1>1 DEF ListingInv, TypeOK
<1>4. TablesInv'
  BY <1>0 DEF ListingInv, TablesInv, Stored
<1>5. Shown' = Shown /\ Shown = {}
  BY <1>0, <1>1 DEF ListingInv, AdmittedInv, Shown
<1>6. AdmittedInv' /\ CursorInv' /\ PagesAscend' /\ ListingComplete' /\ OverviewInv'
  BY <1>0, <1>5 DEF AdmittedInv, CursorInv, PagesAscend, ListingComplete, OverviewInv, Shown
<1> QED
  BY <1>3, <1>4, <1>6 DEF ListingInv

\* Whatever a writer commits, the histories account for it.
LEMMA ObserveInv ==
  ASSUME ListingInv, Observe, KeysOK', IsFiniteSet(keys'),
         described' \subseteq Namespaces, deleted' \subseteq Namespaces
  PROVE  ListingInv'
<1>0. UNCHANGED <<step, query, cursor, page, seen, live, gone>>
  BY DEF Observe, listing, overview
<1>1. TypeOK'
  BY <1>0 DEF ListingInv, TypeOK, KeysOK, ValidQuery
<1>2. throughout' \subseteq throughout
  BY DEF Observe
<1>3. TablesInv'
  <2>1. CASE query = None
    BY <1>0, <2>1 DEF TablesInv
  <2>2. CASE query # None
    <3>1. throughout' \subseteq Stored(query.ns)'
      BY <2>2 DEF Observe
    <3> QED
      BY <3>1 DEF TablesInv
  <2> QED
    BY <2>1, <2>2
<1>4. Shown' = Shown /\ Owed' \subseteq Owed
  BY <1>0, <1>2 DEF Shown, Owed
<1>5. AdmittedInv'
  BY <1>0, <1>4 DEF ListingInv, AdmittedInv
<1>6. CursorInv'
  BY <1>0, <1>4 DEF ListingInv, CursorInv
<1>7. PagesAscend'
  BY <1>0 DEF ListingInv, PagesAscend
<1>8. ListingComplete'
  <2>1. step = "complete" => Owed \subseteq Shown
    BY DEF ListingInv, ListingComplete, Owed, Shown
  <2>2. step' = "complete" => Owed' \subseteq Shown'
    BY <1>0, <1>4, <2>1
  <2> QED
    BY <2>2 DEF ListingComplete, Owed, Shown
<1>9. OverviewInv'
  <2> SUFFICES ASSUME step = "survey", NEW n \in Namespaces \ touched'
               PROVE  (n \in live') <=> (Status(n)' = "live")
    BY <1>0 DEF OverviewInv
  <2>1. n \notin touched /\ Status(n)' = Status(n)
    BY DEF Observe
  <2> QED
    BY <1>0, <2>1 DEF ListingInv, OverviewInv
<1> QED
  BY <1>1, <1>3, <1>5, <1>6, <1>7, <1>8, <1>9 DEF ListingInv

LEMMA WriteInv ==
  ASSUME ListingInv, Write
  PROVE  ListingInv'
<1>0. /\ KeysOK /\ IsFiniteSet(keys)
      /\ described \subseteq Namespaces /\ deleted \subseteq Namespaces
  BY DEF ListingInv, TypeOK, TablesInv, KeysOK
<1>1. ASSUME NEW o \in Objects, PutObject(o[1], o[2]) PROVE ListingInv'
  <2>1. KeysOK' /\ Observe /\ UNCHANGED <<described, deleted>>
    BY <1>0, <1>1 DEF PutObject, KeysOK
  <2>2. IsFiniteSet(keys')
    BY <1>0, <1>1, FS_AddElement DEF PutObject
  <2> QED
    BY <1>0, <2>1, <2>2, ObserveInv
<1>2. ASSUME NEW o \in Objects, DeleteObject(o[1], o[2]) PROVE ListingInv'
  <2>1. KeysOK' /\ Observe /\ UNCHANGED <<described, deleted>>
    BY <1>0, <1>2 DEF DeleteObject, KeysOK
  <2>2. IsFiniteSet(keys')
    BY <1>0, <1>2, FS_RemoveElement DEF DeleteObject
  <2> QED
    BY <1>0, <2>1, <2>2, ObserveInv
<1>3. ASSUME NEW n \in Namespaces, PutMetadata(n) \/ SoftDelete(n) \/ Restore(n) PROVE ListingInv'
  <2>1. /\ keys' = keys /\ Observe
        /\ described' \subseteq Namespaces /\ deleted' \subseteq Namespaces
    BY <1>0, <1>3 DEF PutMetadata, SoftDelete, Restore
  <2>2. KeysOK' /\ IsFiniteSet(keys')
    BY <1>0, <2>1 DEF KeysOK
  <2> QED
    BY <2>1, <2>2, ObserveInv
<1>4. ASSUME NEW n \in Namespaces, Purge(n) PROVE ListingInv'
  <2>1. /\ keys' \in SUBSET keys /\ Observe
        /\ described' \subseteq Namespaces /\ deleted' \subseteq Namespaces
    BY <1>0, <1>4 DEF Purge
  <2>2. KeysOK'
    BY <1>0, <2>1 DEF KeysOK
  <2>3. IsFiniteSet(keys')
    BY <1>0, <2>1, PartOfFinite
  <2> QED
    BY <2>1, <2>2, <2>3, ObserveInv
<1> QED
  BY <1>1, <1>2, <1>3, <1>4 DEF Write

LEMMA NextInv ==
  ASSUME ListingInv, [Next]_vars
  PROVE  ListingInv'
<1>1. CASE UNCHANGED vars
  <2>0. /\ UNCHANGED <<keys, described, deleted, step, query, cursor, page, seen>>
        /\ UNCHANGED <<live, gone, throughout, touched>>
    BY <1>1 DEF vars, tables, listing, overview
  <2>1. \A n : Stored(n)' = Stored(n)
    BY <2>0 DEF Stored
  <2>2. Shown' = Shown /\ Owed' = Owed /\ \A n : Status(n)' = Status(n)
    BY <2>0, <2>1 DEF Shown, Owed, Status
  <2>3. TypeOK'
    BY <2>0 DEF ListingInv, TypeOK, ValidQuery
  <2>4. TablesInv'
    BY <2>0 DEF ListingInv, TablesInv, Stored
  <2>5. AdmittedInv' /\ CursorInv'
    BY <2>0, <2>2 DEF ListingInv, AdmittedInv, CursorInv
  <2>6. OverviewInv'
    BY <2>0, <2>2 DEF ListingInv, OverviewInv
  <2>7. PagesAscend' /\ ListingComplete'
    BY <2>0 DEF ListingInv, PagesAscend, ListingComplete
  <2> QED
    BY <2>3, <2>4, <2>5, <2>6, <2>7 DEF ListingInv
<1>2. ASSUME NEW q \in Queries, Ask(q) PROVE ListingInv'
  BY <1>2, AskInv
<1>3. CASE AdmitPage
  BY <1>3, AdmitInv
<1>4. CASE RefusePage \/ Forget
  BY <1>4, RestInv DEF RefusePage, Forget
<1>5. CASE ScanPage
  BY <1>5, ScanMoreInv, ScanLastInv DEF ScanPage
<1>6. CASE ListLive
  BY <1>6, ListLiveInv
<1>7. CASE ListDeleted
  BY <1>7, ListDeletedInv
<1>8. CASE Write
  BY <1>8, WriteInv
<1> QED
  BY <1>1, <1>2, <1>3, <1>4, <1>5, <1>6, <1>7, <1>8 DEF Next, Read

LEMMA ListingInvariant == Spec => []ListingInv
  BY InitInv, NextInv, PTL DEF Spec
-----------------------------------------------------------------------------
(* Theorems *)

\* The reader's variables keep their shapes: in particular a page is scanned
\* only for a request whose limit and cursor were found valid.
THEOREM TypeCorrect == Spec => []TypeOK
<1>1. ListingInv => TypeOK
  BY DEF ListingInv
<1> QED
  BY <1>1, ListingInvariant, PTL

\* The paths of list_objects ascend from page to page, whatever is written
\* between two pages: no path is handed out twice.
THEOREM PathsAscend == Spec => []PagesAscend
<1>1. ListingInv => PagesAscend
  BY DEF ListingInv
<1> QED
  BY <1>1, ListingInvariant, PTL

\* A client that follows nextCursor to its end has been shown every path with
\* the prefix, behind its first cursor, that was stored all the time.
THEOREM ListingShowsAll == Spec => []ListingComplete
<1>1. ListingInv => ListingComplete
  BY DEF ListingInv
<1> QED
  BY <1>1, ListingInvariant, PTL

\* What a token's pattern matches is what the documentation says it covers.
LEMMA MatchesCovered ==
  ASSUME NEW n \in Namespaces, NEW p \in Seq(Nat), NamespaceMatches(n, p)
  PROVE  n \in Covered(p)
<1>1. CASE p = <<Star>> \/ n = p
  BY <1>1 DEF Covered
<1>2. CASE p # <<Star>> /\ p # <<>> /\ Last(p) = Star /\ IsPrefix(Front(p), n)
  <2>0. n \in Seq(Nat) /\ Len(n) \in Nat
    BY NameShape, LenProperties
  <2>1. Len(p) \in Nat /\ Len(p) # 0
    BY <1>2, LenProperties, EmptySeq
  <2>2. p[Len(p)] = Star
    BY <1>2 DEF Last
  <2>3. Len(p) # 1
    <3> SUFFICES ASSUME Len(p) = 1 PROVE FALSE
      OBVIOUS
    <3>1. PICK s : s = <<Star>>
      OBVIOUS
    <3>2. s \in Seq(Nat) /\ Len(s) = 1 /\ s[1] = Star
      BY <3>1, ListingNamesAssumption
    <3>3. \A i \in 1..Len(p) : p[i] = s[i]
      BY <2>2, <3>2
    <3> QED
      BY <1>2, <3>1, <3>2, <3>3, SeqEqual
  <2>4. PICK i : i = Len(p) - 1
    OBVIOUS
  <2>5. i \in Nat /\ i >= 1 /\ Len(p) = i + 1
    BY <2>1, <2>3, <2>4
  <2>6. PICK f : f = Front(p) /\ f = SubSeq(p, 1, i)
    BY <2>4 DEF Front
  <2>7. f \in Seq(Nat) /\ Len(f) = i /\ \A j \in 1..i : f[j] = p[j]
    <3>1. 1 \in Int /\ i \in Int /\ \A j \in 1..i : p[j] \in Nat
      BY <2>1, <2>5, ElementOfSeq
    <3>2. /\ f \in Seq(Nat) /\ Len(f) = IF 1 <= i THEN i - 1 + 1 ELSE 0
          /\ \A j \in 1..(i - 1 + 1) : f[j] = p[1 + j - 1]
      BY <2>6, <3>1, SubSeqProperties
    <3> QED
      BY <2>5, <3>2
  <2>8. Len(f) <= Len(n) /\ f = SubSeq(n, 1, i)
    <3>1. Len(f) <= Len(n)
      BY <1>2, <2>0, <2>6, <2>7, PrefixPointwise
    <3>2. SubSeq(f, 1, Len(f)) = f
      BY <2>7, SubSeqFull
    <3>3. IsPrefix(f, n)
      BY <1>2, <2>6
    <3> QED
      BY <2>7, <3>1, <3>2, <3>3 DEF IsPrefix
  <2>9. i \in 1..Len(n)
    BY <2>0, <2>5, <2>7, <2>8
  <2>10. p = Append(f, Star)
    <3>0. Star \in Nat
      BY ListingNamesAssumption
    <3>1. PICK g : g = Append(f, Star)
      OBVIOUS
    <3>2. g \in Seq(Nat) /\ Len(g) = i + 1 /\ g[i + 1] = Star /\ \A j \in 1..i : g[j] = f[j]
      BY <2>7, <3>0, <3>1, AppendProperties
    <3>3. \A j \in 1..(i + 1) : p[j] = g[j]
      <4>1. \A j \in 1..(i + 1) : j \in 1..i \/ j = i + 1
        BY <2>5
      <4>2. p[i + 1] = g[i + 1]
        BY <2>2, <2>5, <3>2
      <4>3. \A j \in 1..i : p[j] = g[j]
        BY <2>7, <3>2
      <4> QED
        BY <4>1, <4>2, <4>3, Zenon
    <3>4. p = g
      BY <2>5, <3>2, <3>3, SeqEqual
    <3> QED
      BY <3>1, <3>4
  <2> QED
    BY <2>8, <2>9, <2>10 DEF Covered
<1> QED
  BY <1>1, <1>2 DEF NamespaceMatches

\* A client is shown paths only with a token whose pattern stands for the
\* namespace and which may read.
THEOREM ScopeIsRespected == Spec => []ScopeRespected
<1>1. ASSUME ListingInv PROVE ScopeRespected
  <2> SUFFICES ASSUME page \cup seen # {}
               PROVE  /\ query.ns \in Covered(query.grant.pattern)
                      /\ "read" \in NormalPermissions(query.grant.permissions)
    BY DEF ScopeRespected
  <2>1. query # None /\ Allows(query.grant, query.ns)
    BY <1>1 DEF ListingInv, AdmittedInv, Shown
  <2>2. query \in Queries
    BY <1>1, <2>1 DEF ListingInv, TypeOK
  <2>3. NamespaceMatches(query.ns, query.grant.pattern)
    BY <2>1 DEF Allows
  <2>4. query.ns \in Covered(query.grant.pattern)
    BY <2>2, <2>3, QueryShape, MatchesCovered
  <2> QED
    BY <2>1, <2>4 DEF Allows
<1> QED
  BY <1>1, ListingInvariant, PTL

\* A page shows only what is stored in the namespace asked for, with the
\* prefix, when it is read: the scan does not run into a neighbour's keys.
THEOREM PagesShowStored == Spec => PagesAreStored
<1>1. ASSUME ListingInv, [Next]_vars
      PROVE  [step = "scan" /\ step' # "scan" =>
                page' \subseteq {p \in Stored(query.ns) : IsPrefix(query.prefix, p)}]_vars
  <2> SUFFICES ASSUME Next, step = "scan", step' # "scan"
               PROVE  page' \subseteq {p \in Stored(query.ns) : IsPrefix(query.prefix, p)}
    BY <1>1 DEF vars
  <2>1. ScanPage
    <3>1. Write => step' = step
      BY DEF Write, PutObject, DeleteObject, PutMetadata, SoftDelete, Restore, Purge, Observe
    <3> QED
      BY <3>1 DEF Next, Read, Ask, AdmitPage, RefusePage, ListLive, ListDeleted, Forget
  <2>2. page' \subseteq Found
    BY <2>1 DEF ScanPage, FirstOf
  <2> QED
    BY <1>1, <2>2, FoundPaths
<1> QED
  BY <1>1, ListingInvariant, PTL DEF Spec, PagesAreStored

\* The overview of the namespaces reports each one that nobody touches
\* between its two transactions once, under its status.
THEOREM OverviewIsExact == Spec => OverviewExact
<1>1. ASSUME ListingInv, [Next]_vars
      PROVE  [step = "survey" /\ step' = "surveyed" =>
                \A n \in Namespaces \ touched :
                  /\ (n \in live') = (Status(n) = "live")
                  /\ (n \in gone') = (Status(n) = "deleted")]_vars
  <2> SUFFICES ASSUME Next, step = "survey", step' = "surveyed",
                      NEW n \in Namespaces \ touched
               PROVE  /\ (n \in live') = (Status(n) = "live")
                      /\ (n \in gone') = (Status(n) = "deleted")
    BY <1>1 DEF vars
  <2>1. ListDeleted
    <3>1. Write => step' = step
      BY DEF Write, PutObject, DeleteObject, PutMetadata, SoftDelete, Restore, Purge, Observe
    <3> QED
      BY <3>1 DEF Next, Read, Ask, AdmitPage, RefusePage, ScanPage, ListLive, Forget
  <2>2. live' = live /\ gone' = deleted
    BY <2>1 DEF ListDeleted
  <2>3. (n \in live) <=> (Status(n) = "live")
    BY <1>1 DEF ListingInv, OverviewInv
  <2>4. (n \in deleted) <=> (Status(n) = "deleted")
    BY StatusMeaning
  <2> QED
    BY <2>2, <2>3, <2>4
<1> QED
  BY <1>1, ListingInvariant, PTL DEF Spec, OverviewExact
=============================================================================
