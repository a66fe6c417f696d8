----------------------------- MODULE PlanProofs -----------------------------
(***************************************************************************)
(* What is planned and what is taken of the plan.  First the state machine *)
(* of Planning: its types, and that the plan holds what it should, once,   *)
(* whatever the user does while it is made.  Then the threshold arithmetic *)
(* for every valid configuration and every volume (lemmas about            *)
(* DiskPressure), and what it means for every reachable state of           *)
(* Selection.                                                              *)
(***************************************************************************)
EXTENDS Planning, Selection, FiniteSetTheorems, SequenceTheorems, WellFoundedInduction, TLAPS

\* Every set of natural numbers with a member has a least one.
LEMMA LeastNatural ==
    ASSUME NEW S, S \subseteq Nat, S # {}
    PROVE  \E m \in S : \A k \in S : m <= k
<1> DEFINE R == {p \in Nat \X Nat : p[1] < p[2]}
<1>1. R = OpToRel(<, Nat)
  BY DEF OpToRel
<1>2. PICK m \in S : \A y \in S : ~(<<y, m>> \in R)
  <2> HIDE DEF R
  <2>1. IsWellFoundedOn(R, Nat)
    BY <1>1, NatLessThanWellFounded
  <2>2. QED
    BY <2>1, WFMin
<1>3. ASSUME NEW k \in S PROVE m <= k
  <2>1. k \in Nat /\ m \in Nat
    OBVIOUS
  <2>2. <<k, m>> \in Nat \X Nat /\ <<k, m>>[1] = k /\ <<k, m>>[2] = m
    BY <2>1
  <2>3. k < m => <<k, m>> \in R
    BY <2>2
  <2>4. QED
    BY <1>2, <2>1, <2>3
<1>4. QED
  BY <1>3

----------------------------------------------------------------------------
(* Paths.                                                                  *)

\* Names that occur in paths or are put behind one.
Words == (UNION {ToSet(p) : p \in DOMAIN Order}) \cup Artifacts \cup RepoCaches
Paths0 == Seq(Words) \ {<<>>}

\* Every path that has a place in the order is made of such names.
LEMMA PathsOfWords == DOMAIN Order \subseteq Paths0
<1> SUFFICES ASSUME NEW p \in DOMAIN Order PROVE p \in Seq(Words) /\ p # <<>>
  BY DEF Paths0
<1>1. p \in Seq(STRING) /\ p # <<>>
  BY OrderAssumption
<1>2. \A i \in 1 .. Len(p) : p[i] \in Words
  BY <1>1 DEF Words, ToSet
<1>3. p = [i \in 1 .. Len(p) |-> p[i]] /\ Len(p) \in Nat
  BY <1>1
<1>4. p \in [1 .. Len(p) -> Words]
  BY <1>2, <1>3
<1>5. QED
  BY <1>1, <1>3, <1>4

\* A prefix, name by name.
LEMMA PrefixNames ==
    ASSUME NEW s \in Seq(Words), NEW t \in Seq(Words)
    PROVE  IsPrefix(s, t) <=> Len(s) <= Len(t) /\ \A i \in 1 .. Len(s) : s[i] = t[i]
<1>1. Len(s) \in Nat /\ Len(t) \in Nat
  OBVIOUS
<1>2. ASSUME Len(s) <= Len(t)
      PROVE  /\ SubSeq(s, 1, Len(s)) = s
             /\ SubSeq(t, 1, Len(s)) \in Seq(Words) /\ Len(SubSeq(t, 1, Len(s))) = Len(s)
             /\ \A i \in 1 .. Len(s) : SubSeq(t, 1, Len(s))[i] = t[i]
  BY <1>1, <1>2
<1>3. ASSUME Len(s) <= Len(t), \A i \in 1 .. Len(s) : s[i] = t[i]
      PROVE  s = SubSeq(t, 1, Len(s))
  <2> DEFINE u == SubSeq(t, 1, Len(s))
  <2>1. u \in Seq(Words) /\ Len(u) = Len(s) /\ \A i \in 1 .. Len(s) : u[i] = s[i]
    BY <1>2, <1>3
  <2> HIDE DEF u
  <2>2. s = u
    BY <2>1
  <2>3. QED
    BY <2>2 DEF u
<1>4. QED
  BY <1>2, <1>3 DEF IsPrefix

\* A path is on the way to itself.
LEMMA PrefixItself == ASSUME NEW s \in Seq(Words) PROVE IsPrefix(s, s)
  BY PrefixNames

\* What is on the way to a directory on the way is on the way.
LEMMA PrefixOfPrefix ==
    ASSUME NEW s \in Seq(Words), NEW t \in Seq(Words), NEW u \in Seq(Words),
           IsPrefix(s, t), IsPrefix(t, u)
    PROVE  IsPrefix(s, u)
<1>1. Len(s) \in Nat /\ Len(t) \in Nat /\ Len(u) \in Nat
  OBVIOUS
<1>2. /\ Len(s) <= Len(t) /\ \A i \in 1 .. Len(s) : s[i] = t[i]
      /\ Len(t) <= Len(u) /\ \A i \in 1 .. Len(t) : t[i] = u[i]
  BY PrefixNames
<1>3. QED
  BY <1>1, <1>2, PrefixNames

\* Two prefixes of one path are prefixes of each other.
LEMMA PrefixesCompare ==
    ASSUME NEW s \in Seq(Words), NEW t \in Seq(Words), NEW u \in Seq(Words),
           IsPrefix(s, u), IsPrefix(t, u), Len(s) <= Len(t)
    PROVE  IsPrefix(s, t)
<1>1. Len(s) \in Nat /\ Len(t) \in Nat /\ Len(u) \in Nat
  OBVIOUS
<1>2. /\ \A i \in 1 .. Len(s) : s[i] = u[i]
      /\ \A i \in 1 .. Len(t) : t[i] = u[i]
  BY PrefixNames
<1>3. QED
  BY <1>1, <1>2, PrefixNames

\* A prefix that is as long is the path.
LEMMA PrefixOfSameLength ==
    ASSUME NEW s \in Seq(Words), NEW t \in Seq(Words), IsPrefix(s, t), Len(s) = Len(t)
    PROVE  s = t
<1>1. /\ Len(s) = Len(t) /\ \A i \in 1 .. Len(s) : s[i] = t[i]
  BY PrefixNames
<1>2. QED
  BY <1>1

\* A path and the directory it lies in.
LEMMA ParentOf ==
    ASSUME NEW p \in Paths0
    PROVE  /\ Front(p) \in Seq(Words) /\ Len(Front(p)) = Len(p) - 1 /\ Len(p) \in Nat \ {0}
           /\ IsPrefix(Front(p), p) /\ Last(p) \in Words
           /\ p = Append(Front(p), Last(p))
<1>1. Len(p) \in Nat \ {0} /\ p \in Seq(Words)
  BY DEF Paths0
<1>2. /\ Front(p) \in Seq(Words) /\ Len(Front(p)) = Len(p) - 1
      /\ \A i \in 1 .. Len(p) - 1 : Front(p)[i] = p[i]
  <2>1. \A i \in 1 .. Len(p) - 1 : p[i] \in Words
    BY <1>1
  <2>2. /\ SubSeq(p, 1, Len(p) - 1) \in Seq(Words)
        /\ Len(SubSeq(p, 1, Len(p) - 1)) = Len(p) - 1
        /\ \A i \in 1 .. Len(p) - 1 : SubSeq(p, 1, Len(p) - 1)[i] = p[i]
    <3>1. PICK n \in Nat : n = Len(p) - 1
      BY <1>1
    <3>2. /\ SubSeq(p, 1, n) \in Seq(Words)
          /\ Len(SubSeq(p, 1, n)) = IF 1 <= n THEN n - 1 + 1 ELSE 0
          /\ \A i \in 1 .. n - 1 + 1 : SubSeq(p, 1, n)[i] = p[1 + i - 1]
      BY <2>1, <3>1, SubSeqProperties
    <3>3. Len(SubSeq(p, 1, n)) = n
      BY <3>1, <3>2
    <3>4. \A i \in 1 .. n : SubSeq(p, 1, n)[i] = p[i]
      BY <3>1, <3>2
    <3>5. QED
      BY <3>1, <3>2, <3>3, <3>4
  <2>3. QED
    BY <2>2 DEF Front
<1>3. IsPrefix(Front(p), p)
  BY <1>1, <1>2, PrefixNames
<1>4. Last(p) \in Words
  BY <1>1 DEF Last
<1>5. p = Append(Front(p), Last(p))
  <2> DEFINE u == Append(Front(p), Last(p))
  <2>1. /\ u \in Seq(Words) /\ Len(u) = Len(p) /\ u[Len(p)] = Last(p)
        /\ \A i \in 1 .. Len(p) - 1 : u[i] = Front(p)[i]
    BY <1>1, <1>2, <1>4, AppendProperties
  <2> HIDE DEF u
  <2>2. \A i \in 1 .. Len(p) : u[i] = p[i]
    <3> SUFFICES ASSUME NEW i \in 1 .. Len(p) PROVE u[i] = p[i]
      OBVIOUS
    <3>1. CASE i = Len(p)
      BY <2>1, <3>1 DEF Last
    <3>2. CASE i \in 1 .. Len(p) - 1
      BY <1>2, <2>1, <3>2
    <3>3. QED
      BY <1>1, <3>1, <3>2
  <2>3. p = u
    <3>1. Len(u) = Len(p) /\ u \in Seq(Words) /\ p \in Seq(Words)
      BY <1>1, <2>1
    <3>2. QED
      BY <2>2, <3>1
  <2>4. QED
    BY <2>3 DEF u
<1>6. QED
  BY <1>1, <1>2, <1>3, <1>4, <1>5

\* A directory and a name make a path, and it is in that directory.
LEMMA ChildOf ==
    ASSUME NEW d \in Seq(Words), NEW n \in Words
    PROVE  /\ Append(d, n) \in Paths0 /\ Front(Append(d, n)) = d /\ Last(Append(d, n)) = n
           /\ IsPrefix(d, Append(d, n)) /\ Len(Append(d, n)) = Len(d) + 1
<1> DEFINE p == Append(d, n)
<1>1. /\ p \in Seq(Words) /\ Len(p) = Len(d) + 1 /\ Len(d) \in Nat
      /\ p[Len(p)] = n /\ \A i \in 1 .. Len(d) : p[i] = d[i]
  <2>1. /\ Append(d, n) \in Seq(Words) /\ Append(d, n) # <<>>
        /\ Len(Append(d, n)) = Len(d) + 1
        /\ \A i \in 1 .. Len(d) : Append(d, n)[i] = d[i]
        /\ Append(d, n)[Len(d) + 1] = n
    BY AppendProperties
  <2>2. QED
    BY <2>1
<1> HIDE DEF p
<1>2. p \in Paths0
  BY <1>1 DEF Paths0
<1>3. Front(p) = d
  <2>1. Front(p) = SubSeq(p, 1, Len(d))
    BY <1>1 DEF Front
  <2>2. /\ SubSeq(p, 1, Len(d)) \in Seq(Words) /\ Len(SubSeq(p, 1, Len(d))) = Len(d)
        /\ \A i \in 1 .. Len(d) : SubSeq(p, 1, Len(d))[i] = d[i]
    BY <1>1
  <2>3. SubSeq(p, 1, Len(d)) = d
    <3> DEFINE u == SubSeq(p, 1, Len(d))
    <3> HIDE DEF u
    <3>1. u \in Seq(Words) /\ Len(u) = Len(d) /\ \A i \in 1 .. Len(d) : u[i] = d[i]
      BY <2>2 DEF u
    <3>2. u = d
      BY <3>1
    <3>3. QED
      BY <3>2 DEF u
  <2>4. QED
    BY <2>1, <2>3
<1>4. Last(p) = n /\ IsPrefix(d, p)
  BY <1>1, PrefixNames DEF Last
<1>5. QED
  BY <1>1, <1>2, <1>3, <1>4 DEF p

\* The directory on the way from f to r.
LEMMA StepTowards ==
    ASSUME NEW f \in Seq(Words), NEW r \in Seq(Words), IsPrefix(f, r), f # r
    PROVE  LET q == SubSeq(r, 1, Len(f) + 1)
           IN  /\ Len(f) + 1 \in 1 .. Len(r) /\ q \in Seq(Words) /\ Len(q) = Len(f) + 1
               /\ IsPrefix(f, q) /\ IsPrefix(q, r) /\ Last(q) = r[Len(f) + 1]
<1> DEFINE q == SubSeq(r, 1, Len(f) + 1)
<1>1. Len(f) \in Nat /\ Len(r) \in Nat /\ Len(f) <= Len(r) /\ Len(f) # Len(r)
  BY PrefixOfSameLength, PrefixNames
<1>2. q \in Seq(Words) /\ Len(q) = Len(f) + 1 /\ \A i \in 1 .. Len(f) + 1 : q[i] = r[i]
  BY <1>1
<1> HIDE DEF q
<1>3. \A i \in 1 .. Len(f) : f[i] = r[i]
  BY PrefixNames
<1>4. IsPrefix(f, q) /\ IsPrefix(q, r)
  BY <1>1, <1>2, <1>3, PrefixNames
<1>5. Last(q) = r[Len(f) + 1]
  BY <1>1, <1>2 DEF Last
<1>6. QED
  BY <1>1, <1>2, <1>4, <1>5 DEF q

\* The names between a base and a child are those to its parent and its own.
LEMMA NamesOfChild ==
    ASSUME NEW b \in Seq(Words), NEW f \in Seq(Words), NEW p \in Seq(Words),
           IsPrefix(b, f), IsPrefix(f, p), Len(p) = Len(f) + 1
    PROVE  Names(b, p) = Names(b, f) \cup {Last(p)}
<1>1. Len(b) \in Nat /\ Len(f) \in Nat /\ Len(p) \in Nat /\ Len(b) <= Len(f)
  BY PrefixNames
<1>2. \A i \in 1 .. Len(f) : f[i] = p[i]
  BY PrefixNames
<1>3. Len(b) + 1 .. Len(p) = (Len(b) + 1 .. Len(f)) \cup {Len(p)}
  BY <1>1
<1>4. QED
  BY <1>1, <1>2, <1>3 DEF Names, Last

\* Names on the way are names of the whole way.
LEMMA NamesOnTheWay ==
    ASSUME NEW b \in Seq(Words), NEW r \in Seq(Words), NEW n \in Len(b) + 1 .. Len(r)
    PROVE  r[n] \in Names(b, r)
  BY DEF Names

\* There is nothing between a directory and itself.
LEMMA NoNames == ASSUME NEW b \in Seq(Words) PROVE Names(b, b) = {}
  BY DEF Names

----------------------------------------------------------------------------
(* Sorting and dropping neighbours.                                        *)

Place(S, c) == Cardinality({d \in S : Precedes(d, c)})
Orderly(S) ==
    /\ IsFiniteSet(S)
    /\ \A c \in S : ~Precedes(c, c)
    /\ \A c, d, e \in S : Precedes(c, d) /\ Precedes(d, e) => Precedes(c, e)
    /\ \A c, d \in S : c # d => Precedes(c, d) \/ Precedes(d, c)

\* In an order every place from 0 on is somebody's.
LEMMA PlacesFilled ==
    ASSUME NEW S, Orderly(S)
    PROVE  /\ Cardinality(S) \in Nat
           /\ \A c \in S : Place(S, c) \in Nat /\ Place(S, c) < Cardinality(S)
           /\ \A c, d \in S : Precedes(c, d) => Place(S, c) < Place(S, d)
           /\ \A c, d \in S : Place(S, c) = Place(S, d) => c = d
           /\ \A k \in Nat : k < Cardinality(S) => \E c \in S : Place(S, c) = k
<1> DEFINE Up(c) == {d \in S : Precedes(d, c)}
           n == Cardinality(S)
<1>0. IsFiniteSet(S) /\ n \in Nat
  BY FS_CardinalityType DEF Orderly
<1>1. ASSUME NEW c \in S
      PROVE  IsFiniteSet(Up(c)) /\ Cardinality(Up(c)) \in Nat /\ Cardinality(Up(c)) < n
  <2>1. IsFiniteSet(Up(c)) /\ Cardinality(Up(c)) <= n /\ (n = Cardinality(Up(c)) => S = Up(c))
    BY <1>0, FS_Subset
  <2>2. c \notin Up(c)
    BY DEF Orderly
  <2>3. Cardinality(Up(c)) \in Nat
    BY <2>1, FS_CardinalityType
  <2>4. Cardinality(Up(c)) # n
    BY <2>1, <2>2
  <2> HIDE DEF Up, n
  <2>5. QED
    BY <1>0, <2>1, <2>3, <2>4
<1>2. ASSUME NEW c \in S, NEW d \in S, Precedes(c, d)
      PROVE  Cardinality(Up(c)) < Cardinality(Up(d))
  <2>1. Up(c) \subseteq Up(d)
    BY <1>2 DEF Orderly
  <2>2. c \in Up(d) /\ c \notin Up(c)
    BY <1>2 DEF Orderly
  <2>3. IsFiniteSet(Up(d)) /\ Cardinality(Up(d)) \in Nat /\ Cardinality(Up(c)) \in Nat
    BY <1>1
  <2> HIDE DEF Up, n
  <2>4. /\ Cardinality(Up(c)) <= Cardinality(Up(d))
        /\ Cardinality(Up(d)) = Cardinality(Up(c)) => Up(d) = Up(c)
    BY <2>1, <2>3, FS_Subset
  <2>5. QED
    BY <2>2, <2>3, <2>4
<1>3. \A c, d \in S : Cardinality(Up(c)) = Cardinality(Up(d)) => c = d
  <2>1. SUFFICES ASSUME NEW c \in S, NEW d \in S, Cardinality(Up(c)) = Cardinality(Up(d)), c # d
                 PROVE  FALSE
    OBVIOUS
  <2>2. Precedes(c, d) \/ Precedes(d, c)
    BY <2>1 DEF Orderly
  <2>3. Cardinality(Up(c)) \in Nat /\ Cardinality(Up(d)) \in Nat
    BY <1>1
  <2>4. Cardinality(Up(c)) < Cardinality(Up(d)) \/ Cardinality(Up(d)) < Cardinality(Up(c))
    BY <1>2, <2>2
  <2> HIDE DEF Up
  <2>5. QED
    BY <2>1, <2>3, <2>4
<1> HIDE DEF n
<1>4. ASSUME NEW k \in Nat, k < n PROVE \E c \in S : Cardinality(Up(c)) = k
  <2> DEFINE f == [c \in S |-> Cardinality(Up(c)) + 1]
  <2>1. f \in [S -> 1 .. n]
    <3>1. \A c \in S : Cardinality(Up(c)) + 1 \in 1 .. n
      <4> SUFFICES ASSUME NEW c \in S PROVE Cardinality(Up(c)) + 1 \in 1 .. n
        OBVIOUS
      <4>1. Cardinality(Up(c)) \in Nat /\ Cardinality(Up(c)) < n
        BY <1>1
      <4> HIDE DEF Up
      <4>2. QED
        BY <1>0, <4>1
    <3> HIDE DEF Up
    <3>2. QED
      BY <3>1
  <2>2. \A c, d \in S : f[c] = f[d] => c = d
    <3> SUFFICES ASSUME NEW c \in S, NEW d \in S, f[c] = f[d] PROVE c = d
      OBVIOUS
    <3>1. Cardinality(Up(c)) \in Nat /\ Cardinality(Up(d)) \in Nat
      BY <1>1
    <3> HIDE DEF Up
    <3>2. Cardinality(Up(c)) = Cardinality(Up(d))
      BY <3>1
    <3>3. QED
      BY <1>3, <3>2 DEF Up
  <2> HIDE DEF f
  <2>3. f \in Injection(S, 1 .. n)
    BY <2>1, <2>2 DEF Injection, IsInjective
  <2>4. IsFiniteSet(1 .. n) /\ Cardinality(1 .. n) = n
    BY <1>0, FS_Interval
  <2>5. f \in Surjection(S, 1 .. n)
    <3>1. Cardinality(S) = Cardinality(1 .. n)
      BY <2>4 DEF n
    <3>2. QED
      BY <2>3, <2>4, <3>1, FS_Injection
  <2>6. k + 1 \in 1 .. n
    BY <1>0, <1>4
  <2>7. PICK c \in S : f[c] = k + 1
    BY <2>5, <2>6 DEF Surjection
  <2>8. Cardinality(Up(c)) \in Nat
    BY <1>1
  <2>9. f[c] = Cardinality(Up(c)) + 1
    BY DEF f
  <2> HIDE DEF Up
  <2>10. QED
    BY <2>7, <2>8, <2>9
<1>5. QED
  BY <1>0, <1>1, <1>2, <1>3, <1>4 DEF Place, n

\* The sorted sequence has each member once.
LEMMA InOrderFacts ==
    ASSUME NEW S, Orderly(S)
    PROVE  LET s == InOrder(S)
           IN  /\ s \in Seq(S) /\ DOMAIN s = 1 .. Cardinality(S)
               /\ \A c \in S : \E i \in DOMAIN s : s[i] = c
               /\ \A i, j \in DOMAIN s : s[i] = s[j] => i = j
<1> DEFINE s == InOrder(S)
           n == Cardinality(S)
<1>1. /\ n \in Nat
      /\ \A c \in S : Place(S, c) \in Nat /\ Place(S, c) < n
      /\ \A c, d \in S : Place(S, c) = Place(S, d) => c = d
      /\ \A k \in Nat : k < n => \E c \in S : Place(S, c) = k
  BY PlacesFilled
<1>2. s = [i \in 1 .. n |-> CHOOSE c \in S : Place(S, c) = i - 1]
  BY DEF InOrder, Place
<1> HIDE DEF s, n
<1>3. ASSUME NEW i \in 1 .. n PROVE s[i] \in S /\ Place(S, s[i]) = i - 1
  <2>1. i - 1 \in Nat /\ i - 1 < n
    BY <1>1
  <2>2. \E c \in S : Place(S, c) = i - 1
    BY <1>1, <2>1
  <2>3. s[i] = CHOOSE c \in S : Place(S, c) = i - 1
    BY <1>2
  <2>4. QED
    BY <2>2, <2>3
<1>4. DOMAIN s = 1 .. n /\ s \in Seq(S)
  <2>1. DOMAIN s = 1 .. n /\ s = [i \in 1 .. n |-> s[i]]
    BY <1>2
  <2>2. s \in [1 .. n -> S]
    BY <1>3, <2>1
  <2>3. QED
    BY <1>1, <2>1, <2>2
<1>5. ASSUME NEW c \in S PROVE \E i \in 1 .. n : s[i] = c
  <2>1. Place(S, c) \in Nat /\ Place(S, c) + 1 \in 1 .. n
    BY <1>1
  <2>2. PICK i \in 1 .. n : i = Place(S, c) + 1
    BY <2>1
  <2>3. Place(S, s[i]) = Place(S, c) /\ s[i] \in S
    BY <1>3, <2>1, <2>2
  <2>4. QED
    BY <1>1, <2>3
<1>6. ASSUME NEW i \in 1 .. n, NEW j \in 1 .. n, s[i] = s[j] PROVE i = j
  <2>1. i - 1 = j - 1
    BY <1>3, <1>6
  <2>2. QED
    BY <1>1, <2>1
<1>7. QED
  BY <1>4, <1>5, <1>6 DEF s, n

\* What is chosen from an orderly set can be sorted too.
LEMMA OrderlySubset ==
    ASSUME NEW S, Orderly(S), NEW T, T \subseteq S
    PROVE  Orderly(T)
  BY FS_Subset DEF Orderly

----------------------------------------------------------------------------
(* The invariant of Planning.                                              *)

Offers == [path : All, kind : Kinds, repo : All \cup {None}]
Candidates == [path : All, kind : Kinds, repo : All \cup {None}, stamp : 0 .. Now]

\* Whatever is found, so are the directories it lies in.
DirsClosed == \A p \in dirs, q \in All : IsPrefix(q, p) => q \in dirs

\* Nothing is known before the plan is begun.
StartsEmpty ==
    pc = "start" =>
      /\ touched = {} /\ frontier = {} /\ repos = {} /\ repo = None /\ projects = {}
      /\ offers = {} /\ candidates = <<>>

\* Where a repository may lie, and one that is authentic and in no quarantine.
Reached(root, p) ==
    /\ root \in layout.roots /\ IsPrefix(root, p)
    /\ Len(p) <= Len(root) + MaxDepth /\ Names(root, p) \cap NotScanned = {}
GoodRepo(r) == IsRepository(r) /\ Trash \notin ToSet(r)

\* Offered, said of one candidate.
Fit(o) ==
    \/ o.kind = "Cache" /\ o.repo = None /\ o.path \in GlobalCaches
    \/ /\ o.kind = "ProjectCache" /\ GoodRepo(o.repo)
       /\ Front(o.path) = o.repo /\ Last(o.path) \in RepoCaches
    \/ /\ GoodRepo(o.repo) /\ Front(o.path) \in ProjectsOf(o.repo)
       /\ o \in OffersOf(Front(o.path), o.repo)

\* The last name of a path and whether it is in a repository tell its kind.
Shaped(o) ==
    /\ o.kind = "Cache" <=> o.repo = None
    /\ o.kind \in {"Cache", "ProjectCache"} => Last(o.path) \notin Artifacts
    /\ o.kind = "RustTarget" => Last(o.path) = "target"
    /\ o.kind = "NextBuild" => Last(o.path) = ".next"
    /\ o.kind = "NodeModules" => Last(o.path) = "node_modules"

\* The two walks stay where they may go.
WalksStay ==
    /\ pc = "walk" => \A f \in frontier : Reached(f.base, f.path)
    /\ pc = "projects" \/ (pc = "push" /\ repo # None) =>
         \A f \in frontier : f.base = repo /\ Names(repo, f.path) \cap NotProjects = {}

\* What was found is what it seems, unless it has been touched.
ReposFound == \A r \in repos : r \in DOMAIN layout.git /\ (Untouched(r) => IsRepository(r))
RepoFound ==
    repo # None => Trash \notin ToSet(repo) /\ (Untouched(repo) => IsRepository(repo))
ProjectsFound ==
    \A d \in projects :
      repo # None /\ d \in ProjectPlaces(repo) /\ (Untouched(d) => d \in dirs)
OffersFit == \A o \in offers : Untouched(o.path) => Fit(o)
Offer(c) == [path |-> c.path, kind |-> c.kind, repo |-> c.repo]
PlanFits ==
    \A c \in ToSet(candidates) :
      Untouched(c.path) => Fit(Offer(c)) /\ InPlace(c.path) /\ Inspects(Offer(c))

\* What should be in the plan or among the skips in the end, unless it is touched.
Due(o) ==
    /\ Fit(o) /\ InPlace(o.path) /\ Untouched(o.path)
    /\ o.repo = None \/ Cardinality(ProjectPlaces(o.repo)) <= MaxProjects
Handled(o) ==
    IF Inspects(o) THEN o.path \in {c.path : c \in ToSet(candidates)} ELSE o.path \in skips

\* And what is still ahead of it: its repository, its project or its inspection.
RepoAhead(r) ==
    \/ pc = "roots" \/ (pc = "push" /\ repo = None)
    \/ pc = "walk" /\ \E f \in frontier : IsPrefix(f.path, r) /\ Reached(f.base, r)
    \/ pc \in {"walk", "repos", "push", "projects"} /\ r \in repos
ProjectAhead(o) ==
    /\ pc \in {"push", "projects"} /\ repo = o.repo /\ o.kind # "ProjectCache"
    /\ \/ pc = "projects" /\ Front(o.path) \in projects
       \/ \E f \in frontier : IsPrefix(f.path, Front(o.path))
Ahead(o) ==
    \/ pc \in {"start", "failed"}
    \/ pc = "push" /\ o \in offers
    \/ o.repo # None /\ (RepoAhead(o.repo) \/ ProjectAhead(o))
NothingForgotten == \A o \in Offers : Due(o) => Ahead(o) \/ Handled(o)

\* The numbers that candidates are ordered by.
LEMMA Keys ==
    ASSUME layout \in Layouts, NEW c \in Candidates, Shaped(c)
    PROVE  /\ RiskRank(c.kind) \in 0 .. 2 /\ c.stamp \in Nat
           /\ Order[c.path] \in Nat \ {0} /\ RepoOrder(c) \in Nat
           /\ c.kind \in {"Cache", "ProjectCache"} => RiskRank(c.kind) = 0
           /\ c.kind \in {"RustTarget", "NextBuild"} => RiskRank(c.kind) = 1
           /\ c.kind = "NodeModules" => RiskRank(c.kind) = 2
<1>1. All \subseteq DOMAIN Order
  BY LayoutAssumption DEF All
<1>2. /\ c.path \in DOMAIN Order /\ c.kind \in Kinds /\ c.repo \in DOMAIN Order \cup {None}
      /\ c.stamp \in 0 .. Now
  BY <1>1 DEF Candidates
<1>3. c.kind \in {"Cache", "ProjectCache"} => RiskRank(c.kind) = 0
  BY DEF RiskRank
<1>4. c.kind \in {"RustTarget", "NextBuild"} => RiskRank(c.kind) = 1
  BY DEF RiskRank
<1>5. c.kind = "NodeModules" => RiskRank(c.kind) = 2
  BY DEF RiskRank
<1>6. c.kind \in {"Cache", "ProjectCache"} \/ c.kind \in {"RustTarget", "NextBuild"}
      \/ c.kind = "NodeModules"
  BY <1>2 DEF Kinds
<1>7. Order[c.path] \in Nat \ {0} /\ RepoOrder(c) \in Nat
  BY <1>2, OrderAssumption DEF RepoOrder
<1>8. c.stamp \in Nat
  BY <1>2, LimitAssumption
<1>9. RiskRank(c.kind) \in 0 .. 2
  BY <1>3, <1>4, <1>5, <1>6
<1>10. QED
  BY <1>3, <1>4, <1>5, <1>7, <1>8, <1>9

\* One path, one repository and one time are one candidate.
LEMMA KeysTell ==
    ASSUME layout \in Layouts, NEW c \in Candidates, NEW d \in Candidates, Shaped(c), Shaped(d),
           c.path = d.path, c.stamp = d.stamp, RepoOrder(c) = RepoOrder(d)
    PROVE  c = d /\ RiskRank(c.kind) = RiskRank(d.kind)
<1>1. All \subseteq DOMAIN Order
  BY LayoutAssumption DEF All
<1>2. /\ c.kind \in Kinds /\ c.repo \in DOMAIN Order \cup {None}
      /\ d.kind \in Kinds /\ d.repo \in DOMAIN Order \cup {None}
  BY <1>1 DEF Candidates
<1>3. c.repo = d.repo
  <2>1. CASE c.repo = None \/ d.repo = None
    BY <1>2, <2>1, OrderAssumption DEF RepoOrder
  <2>2. CASE c.repo # None /\ d.repo # None
    BY <1>2, <2>2, OrderAssumption DEF RepoOrder
  <2>3. QED
    BY <2>1, <2>2
<1>4. c.kind = d.kind
  BY <1>2, <1>3 DEF Shaped, Kinds, Artifacts
<1>5. c = d
  BY <1>3, <1>4 DEF Candidates
<1>6. QED
  BY <1>5

\* One path has one risk.
LEMMA PathTellsRisk ==
    ASSUME layout \in Layouts, NEW c \in Candidates, NEW d \in Candidates, Shaped(c), Shaped(d),
           c.path = d.path
    PROVE  RiskRank(c.kind) = RiskRank(d.kind)
<1>1. c.kind \in Kinds /\ d.kind \in Kinds
  BY DEF Candidates
<1>2. \/ c.kind \in {"Cache", "ProjectCache"} /\ d.kind \in {"Cache", "ProjectCache"}
      \/ c.kind = d.kind
  BY <1>1 DEF Shaped, Kinds, Artifacts
<1>3. QED
  BY <1>2, Keys

\* The order of the plan tells any two candidates apart (sort_by of plan_cleanup).
LEMMA CandidatesOrderly ==
    ASSUME layout \in Layouts, NEW S \in SUBSET Candidates, IsFiniteSet(S),
           \A c \in S : Shaped(c)
    PROVE  Orderly(S)
<1>1. \A c \in S : ~Precedes(c, c)
  <2> SUFFICES ASSUME NEW c \in S PROVE ~Precedes(c, c)
    OBVIOUS
  <2>1. /\ RiskRank(c.kind) \in 0 .. 2 /\ c.stamp \in Nat
        /\ Order[c.path] \in Nat \ {0} /\ RepoOrder(c) \in Nat
    BY Keys
  <2>2. QED
    BY <2>1 DEF Precedes
<1>2. \A c, d, e \in S : Precedes(c, d) /\ Precedes(d, e) => Precedes(c, e)
  <2> SUFFICES ASSUME NEW c \in S, NEW d \in S, NEW e \in S, Precedes(c, d), Precedes(d, e)
               PROVE  Precedes(c, e)
    OBVIOUS
  <2>1. \A x \in {c, d, e} :
          /\ RiskRank(x.kind) \in 0 .. 2 /\ x.stamp \in Nat
          /\ Order[x.path] \in Nat \ {0} /\ RepoOrder(x) \in Nat
    BY Keys
  <2>2. QED
    BY <2>1 DEF Precedes
<1>3. \A c, d \in S : c # d => Precedes(c, d) \/ Precedes(d, c)
  <2> SUFFICES ASSUME NEW c \in S, NEW d \in S, ~Precedes(c, d), ~Precedes(d, c)
               PROVE  c = d
    OBVIOUS
  <2>1. \A x \in {c, d} :
          /\ RiskRank(x.kind) \in 0 .. 2 /\ x.stamp \in Nat
          /\ Order[x.path] \in Nat \ {0} /\ RepoOrder(x) \in Nat
    BY Keys
  <2>2. RiskRank(c.kind) = RiskRank(d.kind) /\ c.stamp = d.stamp
    BY <2>1 DEF Precedes
  <2>3. Order[c.path] = Order[d.path]
    BY <2>1, <2>2 DEF Precedes
  <2>4. c.path = d.path
    <3>1. c.path \in DOMAIN Order /\ d.path \in DOMAIN Order
      BY LayoutAssumption DEF All, Candidates
    <3>2. QED
      BY <2>3, <3>1, OrderAssumption
  <2>5. RepoOrder(c) = RepoOrder(d)
    BY <2>1, <2>2, <2>4 DEF Precedes
  <2>6. QED
    BY <2>2, <2>4, <2>5, KeysTell
<1>4. QED
  BY <1>1, <1>2, <1>3 DEF Orderly

\* What comes between two candidates with one path and one time has both.
LEMMA Between ==
    ASSUME layout \in Layouts,
           NEW c \in Candidates, NEW d \in Candidates, NEW e \in Candidates,
           Shaped(c), Shaped(d), Shaped(e), c.path = e.path, c.stamp = e.stamp,
           Precedes(c, d), Precedes(d, e)
    PROVE  d.path = c.path /\ d.stamp = c.stamp
<1>1. \A x \in {c, d, e} :
        /\ RiskRank(x.kind) \in 0 .. 2 /\ x.stamp \in Nat
        /\ Order[x.path] \in Nat \ {0} /\ RepoOrder(x) \in Nat
  BY Keys
<1>2. RiskRank(c.kind) = RiskRank(e.kind)
  BY PathTellsRisk
<1>3. RiskRank(d.kind) = RiskRank(c.kind) /\ d.stamp = c.stamp
  BY <1>1, <1>2 DEF Precedes
<1>4. Order[d.path] = Order[c.path] \/ d.path = c.path
  BY <1>1, <1>2, <1>3 DEF Precedes
<1>5. c.path \in DOMAIN Order /\ d.path \in DOMAIN Order
  BY LayoutAssumption DEF All, Candidates
<1>6. QED
  BY <1>3, <1>4, <1>5, OrderAssumption

\* What is not dropped has its path and its time to itself.
LEMMA KeptOnce ==
    ASSUME layout \in Layouts, NEW S \in SUBSET Candidates, IsFiniteSet(S),
           \A c \in S : Shaped(c),
           NEW c \in S \ Repeated(S), NEW d \in S \ Repeated(S),
           c.path = d.path, c.stamp = d.stamp
    PROVE  c = d
<1>1. Orderly(S)
  BY CandidatesOrderly
<1>2. ASSUME NEW a \in S, NEW b \in S \ Repeated(S), a.path = b.path, a.stamp = b.stamp,
             Precedes(a, b)
      PROVE  FALSE
  <2> DEFINE B == {e \in S : e.path = b.path /\ e.stamp = b.stamp /\ Precedes(e, b)}
             n == Cardinality(S)
             T == {n - Place(S, e) : e \in B}
  <2>1. /\ n \in Nat
        /\ \A x \in S : Place(S, x) \in Nat /\ Place(S, x) < n
        /\ \A x, y \in S : Precedes(x, y) => Place(S, x) < Place(S, y)
    BY <1>1, PlacesFilled
  <2> HIDE DEF n
  <2>2. T \subseteq Nat /\ T # {}
    BY <1>2, <2>1
  <2>3. PICK m \in T : \A k \in T : m <= k
    BY <2>2, LeastNatural
  <2>4. PICK e \in B : m = n - Place(S, e)
    BY <2>3
  <2>5. ASSUME NEW g \in S, Precedes(e, g), Precedes(g, b) PROVE FALSE
    <3>1. g.path = b.path /\ g.stamp = b.stamp
      BY <2>4, <2>5, Between
    <3>2. g \in B
      BY <2>5, <3>1
    <3>3. n - Place(S, e) <= n - Place(S, g)
      BY <2>3, <2>4, <3>2
    <3>4. Place(S, e) < Place(S, g) /\ Place(S, e) \in Nat /\ Place(S, g) \in Nat
      BY <2>1, <2>4, <2>5
    <3>5. QED
      BY <2>1, <3>3, <3>4
  <2>6. b \in Repeated(S)
    BY <2>4, <2>5 DEF Repeated
  <2>7. QED
    BY <2>6
<1>3. ~Precedes(c, d) /\ ~Precedes(d, c)
  BY <1>2
<1>4. QED
  BY <1>1, <1>3 DEF Orderly

\* No path is dropped altogether.
LEMMA KeptAll ==
    ASSUME layout \in Layouts, NEW S \in SUBSET Candidates, IsFiniteSet(S),
           \A c \in S : Shaped(c), NEW c \in S
    PROVE  \E d \in S \ Repeated(S) : d.path = c.path
<1>1. Orderly(S)
  BY CandidatesOrderly
<1> DEFINE B == {e \in S : e.path = c.path}
           T == {Place(S, e) : e \in B}
<1>2. /\ \A x \in S : Place(S, x) \in Nat
      /\ \A x, y \in S : Precedes(x, y) => Place(S, x) < Place(S, y)
  BY <1>1, PlacesFilled
<1>3. T \subseteq Nat /\ T # {}
  BY <1>2
<1>4. PICK m \in T : \A k \in T : m <= k
  BY <1>3, LeastNatural
<1>5. PICK e \in B : m = Place(S, e)
  BY <1>4
<1>6. ASSUME NEW d \in S, d.path = e.path, Precedes(d, e) PROVE FALSE
  <2>1. d \in B
    BY <1>5, <1>6
  <2>2. Place(S, e) <= Place(S, d)
    BY <1>4, <1>5, <2>1
  <2>3. Place(S, d) < Place(S, e) /\ Place(S, d) \in Nat /\ Place(S, e) \in Nat
    BY <1>2, <1>5, <1>6
  <2>4. QED
    BY <2>2, <2>3
<1>7. e \notin Repeated(S)
  BY <1>6 DEF Repeated
<1>8. QED
  BY <1>5, <1>7

TypeInv ==
    /\ PlanTypeOK
    /\ offers \subseteq Offers /\ candidates \in Seq(Candidates)
    /\ \A c \in offers \cup ToSet(candidates) : Shaped(c)
    /\ \A f \in frontier : f.base \in All
    /\ pc = "projects" => repo # None
    /\ DirsClosed

\* Directories are paths.
LEMMA Directories ==
    ASSUME layout \in Layouts
    PROVE  /\ All \subseteq Paths0 /\ All \subseteq Seq(Words) /\ All \subseteq DOMAIN Order
           /\ IsFiniteSet(All) /\ None \notin All /\ DOMAIN layout.git \subseteq All
           /\ layout.roots \subseteq All
           /\ \A p \in All : \A n \in 1 .. Len(p) : SubSeq(p, 1, n) \in All
  BY LayoutAssumption, OrderAssumption, PathsOfWords DEF All, Paths0

\* A set of directories has a first one in the order of paths.
LEMMA FirstIsMember ==
    ASSUME layout \in Layouts, NEW S \in SUBSET All, S # {}
    PROVE  First(S) \in S
<1> DEFINE T == {Order[p] : p \in S}
<1>1. T \subseteq Nat /\ T # {}
  BY Directories, OrderAssumption
<1>2. PICK m \in T : \A k \in T : m <= k
  BY <1>1, LeastNatural
<1>3. PICK p \in S : m = Order[p]
  BY <1>2
<1>4. \A q \in S : Order[p] <= Order[q]
  BY <1>2, <1>3
<1>5. QED
  BY <1>4 DEF First

\* What a walk goes on to.
LEMMA ChildrenFacts ==
    ASSUME TypeInv, NEW f \in frontier, NEW X, NEW e \in Children(f, X)
    PROVE  /\ e = Entry(f.base, e.path) /\ e.base = f.base /\ e.base \in All
           /\ e.path \in dirs \ away /\ e.path \in All
           /\ Len(e.path) = Len(f.path) + 1 /\ IsPrefix(f.path, e.path)
           /\ IsPrefix(e.base, e.path) /\ Len(e.path) - Len(e.base) <= MaxDepth
           /\ Last(e.path) \notin X
           /\ Names(e.base, e.path) = Names(f.base, f.path) \cup {Last(e.path)}
<1>1. PICK q \in dirs \ away :
        /\ e = Entry(f.base, q) /\ Len(q) = Len(f.path) + 1 /\ IsPrefix(f.path, q)
        /\ Len(q) - Len(f.base) <= MaxDepth /\ Last(q) \notin X
  BY DEF Children
<1>2. e.base = f.base /\ e.path = q
  BY <1>1 DEF Entry
<1>3. /\ f.base \in All /\ f.path \in All /\ IsPrefix(f.base, f.path) /\ q \in All
  BY <1>1 DEF TypeInv, PlanTypeOK, Below
<1>4. f.base \in Seq(Words) /\ f.path \in Seq(Words) /\ q \in Seq(Words)
  BY <1>3, Directories DEF TypeInv, PlanTypeOK
<1>5. IsPrefix(f.base, q)
  BY <1>1, <1>3, <1>4, PrefixOfPrefix
<1>6. Names(f.base, q) = Names(f.base, f.path) \cup {Last(q)}
  BY <1>1, <1>3, <1>4, NamesOfChild
<1>7. QED
  BY <1>1, <1>2, <1>3, <1>5, <1>6

\* A candidate of a project.
LEMMA OffersOfFacts ==
    ASSUME TypeInv, NEW d \in All, NEW r \in All, NEW o \in OffersOf(d, r)
    PROVE  /\ o \in Offers /\ o.repo = r /\ Front(o.path) = d /\ IsPrefix(d, o.path)
           /\ o.kind \in {"RustTarget", "NextBuild", "NodeModules"} /\ Shaped(o)
           /\ Holds(d, IF o.kind = "RustTarget" THEN "Cargo.toml" ELSE "package.json")
           /\ o.kind = "NodeModules" => FindLockfile(d, r)
<1>1. d \in Seq(Words) /\ r # None
  BY Directories DEF TypeInv, PlanTypeOK
<1>2. "target" \in Words /\ ".next" \in Words /\ "node_modules" \in Words
  BY DEF Words, Artifacts
<1>3. \A n \in {"target", ".next", "node_modules"} :
        Front(Append(d, n)) = d /\ Last(Append(d, n)) = n /\ IsPrefix(d, Append(d, n))
  BY <1>1, <1>2, ChildOf
<1>4. /\ o \in {[path |-> Append(d, "target"), kind |-> "RustTarget", repo |-> r],
                [path |-> Append(d, ".next"), kind |-> "NextBuild", repo |-> r],
                [path |-> Append(d, "node_modules"), kind |-> "NodeModules", repo |-> r]}
      /\ o.path \in All
      /\ Holds(d, IF o.kind = "RustTarget" THEN "Cargo.toml" ELSE "package.json")
      /\ o.kind = "NodeModules" => FindLockfile(d, r)
  BY DEF OffersOf
<1>5. ASSUME NEW n \in {"target", ".next", "node_modules"},
             NEW k \in {"RustTarget", "NextBuild", "NodeModules"},
             \/ n = "target" /\ k = "RustTarget"
             \/ n = ".next" /\ k = "NextBuild"
             \/ n = "node_modules" /\ k = "NodeModules",
             o = [path |-> Append(d, n), kind |-> k, repo |-> r]
      PROVE  /\ o \in Offers /\ o.repo = r /\ Front(o.path) = d /\ IsPrefix(d, o.path)
             /\ o.kind \in {"RustTarget", "NextBuild", "NodeModules"} /\ Shaped(o)
  <2>1. o.path = Append(d, n) /\ o.kind = k /\ o.repo = r
    BY <1>5
  <2>2. Front(o.path) = d /\ Last(o.path) = n /\ IsPrefix(d, o.path)
    BY <1>3, <2>1
  <2>3. \/ n = "target" /\ k = "RustTarget"
        \/ n = ".next" /\ k = "NextBuild"
        \/ n = "node_modules" /\ k = "NodeModules"
    BY <1>5
  <2>4. o \in Offers
    BY <1>4, <1>5, <2>1, <2>3 DEF Offers, Kinds
  <2>5. Shaped(o)
    BY <1>1, <2>1, <2>2, <2>3 DEF Shaped
  <2>6. QED
    BY <2>1, <2>2, <2>3, <2>4, <2>5
<1>6. /\ o \in Offers /\ o.repo = r /\ Front(o.path) = d /\ IsPrefix(d, o.path)
      /\ o.kind \in {"RustTarget", "NextBuild", "NodeModules"} /\ Shaped(o)
  <2>1. CASE o = [path |-> Append(d, "target"), kind |-> "RustTarget", repo |-> r]
    BY <1>5, <2>1
  <2>2. CASE o = [path |-> Append(d, ".next"), kind |-> "NextBuild", repo |-> r]
    BY <1>5, <2>2
  <2>3. CASE o = [path |-> Append(d, "node_modules"), kind |-> "NodeModules", repo |-> r]
    BY <1>5, <2>3
  <2>4. QED
    BY <1>4, <2>1, <2>2, <2>3
<1>7. QED
  BY <1>4, <1>6

\* What the candidate of an offer is.
LEMMA CandidateFacts ==
    ASSUME TypeInv, NEW o \in Offers, Shaped(o)
    PROVE  /\ Candidate(o) \in Candidates /\ Candidate(o).path = o.path
           /\ Candidate(o).stamp = stamp[o.path] /\ Offer(Candidate(o)) = o
           /\ Shaped(Candidate(o))
<1>1. o.path \in All /\ o.kind \in Kinds /\ o.repo \in All \cup {None}
      /\ o = [path |-> o.path, kind |-> o.kind, repo |-> o.repo]
  BY DEF Offers
<1>2. stamp[o.path] \in 0 .. Now
  BY <1>1 DEF TypeInv, PlanTypeOK
<1>3. QED
  BY <1>1, <1>2 DEF Candidate, Candidates, Offer, Shaped

\* push adds one element.
LEMMA Appended ==
    ASSUME NEW S, NEW s \in Seq(S), NEW c \in S
    PROVE  Append(s, c) \in Seq(S) /\ ToSet(Append(s, c)) = ToSet(s) \cup {c}
<1>1. /\ Append(s, c) \in Seq(S) /\ Len(Append(s, c)) = Len(s) + 1 /\ Len(s) \in Nat
      /\ \A i \in 1 .. Len(s) : Append(s, c)[i] = s[i]
      /\ Append(s, c)[Len(s) + 1] = c
  BY AppendProperties
<1>2. 1 .. Len(s) + 1 = (1 .. Len(s)) \cup {Len(s) + 1}
  BY <1>1
<1>3. DOMAIN Append(s, c) = 1 .. Len(s) + 1 /\ DOMAIN s = 1 .. Len(s)
  BY <1>1
<1>4. QED
  BY <1>1, <1>2, <1>3 DEF ToSet

\* A cache at the root of a repository is an offer.
LEMMA CacheOffer ==
    ASSUME layout \in Layouts, NEW r \in All, NEW n \in RepoCaches, Append(r, n) \in All
    PROVE  LET o == [path |-> Append(r, n), kind |-> "ProjectCache", repo |-> r]
           IN  o \in Offers /\ Shaped(o) /\ Front(o.path) = r /\ Last(o.path) = n
<1>1. r \in Seq(Words) /\ n \in Words /\ r # None /\ n \notin Artifacts
  BY Directories DEF Words, RepoCaches, Artifacts
<1>2. Front(Append(r, n)) = r /\ Last(Append(r, n)) = n
  BY <1>1, ChildOf
<1>3. QED
  BY <1>1, <1>2 DEF Offers, Kinds, Shaped

\* The sorted plan: no candidate is new, no path is lost, none is there twice.
LEMMA TidiedFacts ==
    ASSUME TypeInv
    PROVE  /\ Tidied(candidates) \in Seq(Candidates)
           /\ ToSet(Tidied(candidates)) \subseteq ToSet(candidates)
           /\ \A c \in ToSet(candidates) : \E d \in ToSet(Tidied(candidates)) : d.path = c.path
           /\ \A i, j \in DOMAIN Tidied(candidates) :
                Tidied(candidates)[i].path = Tidied(candidates)[j].path /\ i # j =>
                  Tidied(candidates)[i].stamp # Tidied(candidates)[j].stamp
<1> DEFINE S == ToSet(candidates)
           T == S \ Repeated(S)
           t == Tidied(candidates)
<1>1. /\ layout \in Layouts /\ candidates \in Seq(Candidates)
      /\ \A c \in S : Shaped(c)
  BY DEF TypeInv, PlanTypeOK
<1>2. S \in SUBSET Candidates
  BY <1>1 DEF ToSet
<1>3. IsFiniteSet(S)
  <2>1. candidates \in Surjection(1 .. Len(candidates), S)
    BY <1>1 DEF Surjection, ToSet
  <2>2. IsFiniteSet(1 .. Len(candidates))
    BY <1>1, FS_Interval
  <2>3. QED
    BY <2>1, <2>2, FS_Surjection
<1>4. t = InOrder(T)
  BY DEF Tidied
<1> HIDE DEF S, t
<1>5. Orderly(S) /\ Orderly(T)
  BY <1>1, <1>2, <1>3, CandidatesOrderly, OrderlySubset
<1>6. \A c, d \in T : c.path = d.path /\ c.stamp = d.stamp => c = d
  BY <1>1, <1>2, <1>3, KeptOnce
<1>7. \A c \in S : \E d \in T : d.path = c.path
  BY <1>1, <1>2, <1>3, KeptAll
<1>8. T \subseteq S
  OBVIOUS
<1> HIDE DEF T
<1>9. /\ t \in Seq(T)
      /\ \A c \in T : \E i \in DOMAIN t : t[i] = c
      /\ \A i, j \in DOMAIN t : t[i] = t[j] => i = j
  BY <1>4, <1>5, InOrderFacts
<1>10. ToSet(t) = T
  BY <1>9 DEF ToSet
<1>11. t \in Seq(Candidates)
  BY <1>2, <1>8, <1>9
<1>12. \A i, j \in DOMAIN t : t[i].path = t[j].path /\ i # j => t[i].stamp # t[j].stamp
  BY <1>6, <1>9
<1>13. QED
  BY <1>7, <1>8, <1>10, <1>11, <1>12 DEF S, t

\* The initial state has the types.
LEMMA InitType == PlanInit => TypeInv
<1> SUFFICES ASSUME PlanInit PROVE TypeInv
  OBVIOUS
<1>1. layout \in Layouts /\ 0 \in 0 .. Now /\ 0 \in 0 .. MaxSteps
  BY LimitAssumption DEF PlanInit
<1>2. PlanTypeOK
  <2>1. stamp \in [All -> 0 .. Now]
    BY <1>1 DEF PlanInit
  <2>2. ToSet(candidates) = {}
    BY DEF PlanInit, ToSet
  <2>3. QED
    BY <1>1, <2>1, <2>2 DEF PlanInit, PlanTypeOK, Stages
<1>3. candidates \in Seq(Candidates) /\ ToSet(candidates) = {} /\ offers = {} /\ frontier = {}
      /\ pc = "start"
  BY DEF PlanInit, ToSet
<1>4. DirsClosed
  BY DEF PlanInit, DirsClosed
<1>5. QED
  BY <1>2, <1>3, <1>4 DEF TypeInv

\* The planner's steps leave the directories alone.
LEMMA PlannerType ==
    ASSUME TypeInv, Planner, pc' \in Stages, repos' \cup projects' \subseteq All,
           repo' \in All \cup {None}, offers' \subseteq Offers,
           candidates' \in Seq(Candidates), skips' \subseteq All,
           \A c \in offers' \cup ToSet(candidates') : Shaped(c),
           pc' = "projects" => repo' # None,
           \A f \in frontier' :
             /\ f.base \in All /\ f.path \in All /\ IsPrefix(f.base, f.path)
             /\ Len(f.path) - Len(f.base) <= MaxDepth
    PROVE  TypeInv'
<1>1. UNCHANGED <<layout, dirs, away, stamp, used, touched, steps>> /\ All' = All
  BY DEF Planner, disk, All
<1>2. Offers' = Offers /\ Candidates' = Candidates
  BY <1>1 DEF Offers, Candidates
<1>3. ToSet(candidates') \subseteq Candidates
  BY DEF ToSet
<1>4. \A c \in offers' \cup ToSet(candidates') :
        c.path \in All /\ c.kind \in Kinds /\ c.repo \in All \cup {None}
  BY <1>3 DEF Offers, Candidates
<1>5. \A f \in frontier' :
        f.path \in Below(f.base, All) /\ Len(f.path) - Len(f.base) <= MaxDepth
  BY DEF Below
<1>6. PlanTypeOK'
  BY <1>1, <1>4, <1>5 DEF TypeInv, PlanTypeOK, Below
<1>7. DirsClosed'
  BY <1>1 DEF TypeInv, DirsClosed
<1>8. QED
  BY <1>1, <1>2, <1>6, <1>7 DEF TypeInv

\* Every entry of a walk, for the steps that leave its frontier alone.
LEMMA FrontierType ==
    ASSUME TypeInv, NEW f \in frontier
    PROVE  /\ f.base \in All /\ f.path \in All /\ IsPrefix(f.base, f.path)
           /\ Len(f.path) - Len(f.base) <= MaxDepth
  BY DEF TypeInv, PlanTypeOK, Below

\* A walk begins with its base.
LEMMA RootEntry ==
    ASSUME TypeInv, NEW r \in All
    PROVE  LET e == Entry(r, r)
           IN  /\ e.base = r /\ e.path = r /\ IsPrefix(r, r) /\ Len(r) - Len(r) <= MaxDepth
               /\ Len(r) \in Nat
<1>1. r \in Seq(Words)
  BY Directories DEF TypeInv, PlanTypeOK
<1>2. QED
  BY <1>1, PrefixItself, LimitAssumption DEF Entry

\* Every step of the planner keeps the types.
LEMMA PlanType ==
    ASSUME TypeInv, Plan
    PROVE  TypeInv'
<1>1. /\ layout \in Layouts /\ repos \cup projects \subseteq All /\ repo \in All \cup {None}
      /\ skips \subseteq All /\ pc \in Stages
      /\ offers \subseteq Offers /\ candidates \in Seq(Candidates) /\ dirs \subseteq All
      /\ \A c \in offers : Shaped(c)
      /\ \A c \in ToSet(candidates) : Shaped(c)
      /\ pc = "projects" => repo # None
  BY DEF TypeInv, PlanTypeOK
<1> USE FrontierType DEF Stages, found, result
<1>2. CASE StartPlan
  <2>1. offers' \subseteq Offers
    BY <1>2 DEF StartPlan, Offers, Kinds
  <2>2. \A o \in offers' : Shaped(o)
    <3> SUFFICES ASSUME NEW p \in GlobalCaches \cap All
                 PROVE  Shaped([path |-> p, kind |-> "Cache", repo |-> None])
      BY <1>2 DEF StartPlan
    <3>1. Last(p) \notin Artifacts
      BY <1>1, Directories, CacheAssumption
    <3>2. QED
      BY <3>1 DEF Shaped
  <2>3. QED
    BY <1>1, <1>2, <2>1, <2>2, PlannerType DEF StartPlan
<1>3. CASE PushCandidate
  <2> DEFINE p == First({o.path : o \in offers})
             o == CHOOSE x \in offers : x.path = p
  <2>1. {x.path : x \in offers} \in SUBSET All /\ {x.path : x \in offers} # {}
    BY <1>1, <1>3 DEF PushCandidate, Offers
  <2>2. p \in {x.path : x \in offers}
    BY <1>1, <2>1, FirstIsMember
  <2>3. o \in offers /\ o.path = p /\ p \in All
    BY <2>1, <2>2
  <2>4. offers' = offers \ {o} /\ UNCHANGED <<pc, frontier, repos, repo, projects>> /\ Planner
    BY <1>3 DEF PushCandidate
  <2>5. \/ UNCHANGED <<candidates, skips>>
        \/ candidates' = Append(candidates, Candidate(o)) /\ UNCHANGED skips
        \/ skips' = skips \cup {p} /\ UNCHANGED candidates
    BY <1>3 DEF PushCandidate
  <2>6. Candidate(o) \in Candidates /\ Shaped(Candidate(o))
    BY <1>1, <2>3, CandidateFacts
  <2> HIDE DEF o, p
  <2>7. /\ candidates' \in Seq(Candidates)
        /\ \A c \in ToSet(candidates') : Shaped(c)
    <3>1. CASE UNCHANGED candidates
      BY <1>1, <3>1
    <3>2. CASE candidates' = Append(candidates, Candidate(o))
      BY <1>1, <2>6, <3>2, Appended
    <3>3. QED
      BY <2>5, <3>1, <3>2
  <2>8. skips' \subseteq All
    BY <1>1, <2>3, <2>5
  <2>9. QED
    BY <1>1, <2>4, <2>7, <2>8, PlannerType
<1>4. CASE Pushed
  BY <1>1, <1>4, PlannerType DEF Pushed
<1>5. CASE AuthenticateRoots
  <2>1. \A f \in frontier' :
             /\ f.base \in All /\ f.path \in All /\ IsPrefix(f.base, f.path)
             /\ Len(f.path) - Len(f.base) <= MaxDepth
    <3>1. CASE UNCHANGED frontier
      BY <3>1
    <3>2. CASE frontier' = {Entry(r, r) : r \in layout.roots}
      <4> SUFFICES ASSUME NEW r \in layout.roots
                   PROVE  LET f == Entry(r, r)
                          IN  /\ f.base \in All /\ f.path \in All /\ IsPrefix(f.base, f.path)
                              /\ Len(f.path) - Len(f.base) <= MaxDepth
        BY <3>2
      <4>1. r \in All
        BY <1>1, Directories
      <4>2. QED
        BY <4>1, RootEntry
    <3>3. QED
      BY <1>5, <3>1, <3>2 DEF AuthenticateRoots
  <2>2. pc' \in Stages
    BY <1>5 DEF AuthenticateRoots
  <2>3. QED
    BY <1>1, <1>5, <2>1, <2>2, PlannerType DEF AuthenticateRoots
<1>6. CASE WalkDone
  BY <1>1, <1>6, PlannerType DEF WalkDone
<1>7. CASE NextRepository
  <2> DEFINE r == First(repos)
  <2>1. r \in repos /\ r \in All
    BY <1>1, <1>7, FirstIsMember DEF NextRepository
  <2>2. repos' = repos \ {r} /\ Planner /\ UNCHANGED candidates
    BY <1>7 DEF NextRepository
  <2>3. CASE SkipQuarantined(r)
    <3>1. skips' = skips \cup {r} /\ UNCHANGED <<pc, frontier, repo, projects, offers>>
      BY <1>7, <2>3 DEF NextRepository
    <3> HIDE DEF r
    <3>2. QED
      BY <1>1, <2>1, <2>2, <3>1, PlannerType
  <2>4. CASE ~SkipQuarantined(r)
    <3>1. /\ pc' = "push" /\ repo' = r /\ frontier' = {Entry(r, r)} /\ projects' = {}
          /\ offers' = {[path |-> Append(r, n), kind |-> "ProjectCache", repo |-> r] :
                          n \in {x \in RepoCaches : Append(r, x) \in All}}
          /\ UNCHANGED skips
      BY <1>7, <2>4 DEF NextRepository
    <3> HIDE DEF r
    <3>2. offers' \subseteq Offers /\ \A o \in offers' : Shaped(o)
      BY <1>1, <2>1, <3>1, CacheOffer
    <3>3. \A f \in frontier' :
             /\ f.base \in All /\ f.path \in All /\ IsPrefix(f.base, f.path)
             /\ Len(f.path) - Len(f.base) <= MaxDepth
      BY <2>1, <3>1, RootEntry
    <3>4. QED
      BY <1>1, <2>1, <2>2, <3>1, <3>2, <3>3, PlannerType
  <2>5. QED
    BY <2>3, <2>4
<1>8. CASE RepositoriesDone
  BY <1>1, <1>8, PlannerType DEF RepositoriesDone
<1>9. CASE ProjectsDone
  <2>1. PICK taken \in SUBSET projects : offers' = UNION {OffersOf(d, repo) : d \in taken}
    BY <1>9 DEF ProjectsDone
  <2>2. repo \in All
    BY <1>1, <1>9 DEF ProjectsDone
  <2>3. offers' \subseteq Offers /\ \A o \in offers' : Shaped(o)
    BY <1>1, <2>1, <2>2, OffersOfFacts
  <2>4. QED
    BY <1>1, <1>9, <2>3, PlannerType DEF ProjectsDone
<1>10. CASE SortPlan
  <2>1. candidates' \in Seq(Candidates) /\ ToSet(candidates') \subseteq ToSet(candidates)
    BY <1>10, TidiedFacts DEF SortPlan
  <2>2. QED
    BY <1>1, <1>10, <2>1, PlannerType DEF SortPlan
<1>11. CASE \E f \in frontier : VisitDirectory(f)
  <2>1. PICK f \in frontier : VisitDirectory(f)
    BY <1>11
  <2>2. frontier' = (frontier \ {f}) \cup IF f.path \in dirs THEN Children(f, NotScanned) ELSE {}
    BY <2>1 DEF VisitDirectory
  <2>3. \A e \in frontier' :
             /\ e.base \in All /\ e.path \in All /\ IsPrefix(e.base, e.path)
             /\ Len(e.path) - Len(e.base) <= MaxDepth
    BY <2>2, ChildrenFacts
  <2>4. repos' \subseteq All /\ skips' \subseteq All
    <3>1. f.path \in All /\ DOMAIN layout.git \subseteq All
      BY <1>1, Directories
    <3>2. repos' = repos \/ repos' = repos \cup ({f.path} \cap DOMAIN layout.git)
      BY <2>1 DEF VisitDirectory
    <3>3. skips' = skips \/ skips' = skips \cup {f.path}
      BY <2>1 DEF VisitDirectory
    <3>4. QED
      BY <1>1, <3>1, <3>2, <3>3
  <2>5. QED
    BY <1>1, <2>1, <2>3, <2>4, PlannerType DEF VisitDirectory
<1>12. CASE \E f \in frontier : VisitProject(f)
  <2>1. PICK f \in frontier : VisitProject(f)
    BY <1>12
  <2>2. frontier' = (frontier \ {f}) \cup IF f.path \in dirs THEN Children(f, NotProjects) ELSE {}
    BY <2>1 DEF VisitProject
  <2>3. \A e \in frontier' :
             /\ e.base \in All /\ e.path \in All /\ IsPrefix(e.base, e.path)
             /\ Len(e.path) - Len(e.base) <= MaxDepth
    BY <2>2, ChildrenFacts
  <2>4. projects' \subseteq All
    BY <1>1, <2>1 DEF VisitProject
  <2>5. QED
    BY <1>1, <2>1, <2>3, <2>4, PlannerType DEF VisitProject
<1>13. QED
  BY <1>2, <1>3, <1>4, <1>5, <1>6, <1>7, <1>8, <1>9, <1>10, <1>11, <1>12 DEF Plan

----------------------------------------------------------------------------
(* The user's steps, and what they leave as it is.                         *)

UserActs(p) ==
    \/ UserMoves(p) \/ UserRemoves(p) \/ UserMakes(p) \/ UserOpens(p)
    \/ \E time \in 0 .. Now : UserTouches(p, time)

\* A step is one of the planner or one of the user.
LEMMA NextSteps ==
    ASSUME TypeInv, PlanNext
    PROVE  Plan \/ \E p \in All : UserActs(p)
<1>1. dirs \subseteq All
  BY DEF TypeInv, PlanTypeOK
<1>2. ASSUME NEW p \in Movable, UserMoves(p) \/ UserRemoves(p) \/ UserMakes(p)
      PROVE  p \in All /\ UserActs(p)
  BY <1>1, <1>2 DEF UserMoves, UserRemoves, UserMakes, UserActs
<1>3. ASSUME NEW p \in Busy, UserOpens(p) \/ \E time \in 0 .. Now : UserTouches(p, time)
      PROVE  p \in All /\ UserActs(p)
  BY <1>1, <1>3 DEF UserOpens, UserTouches, UserActs
<1>4. QED
  BY <1>2, <1>3 DEF PlanNext

\* What each of the user's steps changes.
LEMMA UserChanges ==
    ASSUME TypeInv, NEW p \in All, UserActs(p)
    PROVE  /\ User(p)
           /\ \/ /\ p \in dirs /\ away' = (away \cup {p}) \ (away \cap {p})
                 /\ UNCHANGED <<dirs, stamp, used>>
              \/ /\ p \in dirs /\ dirs' = dirs \ Below(p, dirs)
                 /\ away' = away \ Below(p, dirs) /\ UNCHANGED <<stamp, used>>
              \/ /\ p \in All \ dirs /\ (Len(p) = 1 \/ Front(p) \in dirs)
                 /\ dirs' = dirs \cup Below(p, All) /\ UNCHANGED <<away, stamp, used>>
              \/ /\ \E time \in 0 .. Now : stamp' = [stamp EXCEPT ![p] = time]
                 /\ UNCHANGED <<dirs, away, used>>
              \/ used' = used \cup {p} /\ UNCHANGED <<dirs, away, stamp>>
<1>1. CASE UserMoves(p)
  BY <1>1 DEF UserMoves
<1>2. CASE UserRemoves(p)
  BY <1>2 DEF UserRemoves
<1>3. CASE UserMakes(p)
  BY <1>3 DEF UserMakes
<1>4. CASE UserOpens(p)
  BY <1>4 DEF UserOpens
<1>5. ASSUME NEW time \in 0 .. Now, UserTouches(p, time)
      PROVE  User(p) /\ stamp' = [stamp EXCEPT ![p] = time] /\ UNCHANGED <<dirs, away, used>>
  BY <1>5 DEF UserTouches
<1>6. QED
  BY <1>1, <1>2, <1>3, <1>4, <1>5 DEF UserActs

\* What the user cannot change.
LEMMA UserKeeps ==
    ASSUME TypeInv, NEW p \in All, User(p)
    PROVE  /\ UNCHANGED <<layout, pc, frontier, repos, repo, projects, offers, candidates, skips>>
           /\ pc \notin {"done", "failed"} /\ All' = All /\ Offers' = Offers
           /\ Candidates' = Candidates
           /\ steps' \in 0 .. MaxSteps /\ touched' \subseteq All
           /\ pc # "start" => touched' = touched \cup {p}
           /\ pc = "start" => touched' = {}
<1>1. /\ UNCHANGED <<layout, pc, frontier, repos, repo, projects, offers, candidates, skips>>
      /\ pc \notin {"done", "failed"} /\ steps < MaxSteps /\ steps' = steps + 1
      /\ touched' = IF pc = "start" THEN {} ELSE touched \cup {p}
  BY DEF User, found, result
<1>2. steps \in 0 .. MaxSteps /\ touched \subseteq All
  BY DEF TypeInv, PlanTypeOK
<1>3. QED
  BY <1>1, <1>2, LimitAssumption DEF All, Offers, Candidates

\* Whatever the user does, what is found are directories in directories.
LEMMA UserType ==
    ASSUME TypeInv, NEW p \in All, UserActs(p)
    PROVE  TypeInv'
<1>1. /\ UNCHANGED <<layout, pc, frontier, repos, repo, projects, offers, candidates, skips>>
      /\ All' = All /\ Offers' = Offers /\ Candidates' = Candidates
      /\ steps' \in 0 .. MaxSteps /\ touched' \subseteq All
  BY UserChanges, UserKeeps
<1>2. /\ layout \in Layouts /\ dirs \subseteq All /\ away \subseteq dirs /\ used \subseteq All
      /\ stamp \in [All -> 0 .. Now]
  BY DEF TypeInv, PlanTypeOK
<1>3. \A x, y \in All : IsPrefix(p, x) /\ IsPrefix(x, y) => IsPrefix(p, y)
  BY <1>2, Directories, PrefixOfPrefix
<1>4. /\ dirs' \subseteq All /\ away' \subseteq dirs' /\ used' \subseteq All
      /\ stamp' \in [All -> 0 .. Now]
  <2>1. CASE p \in dirs /\ away' = (away \cup {p}) \ (away \cap {p}) /\ UNCHANGED <<dirs, stamp, used>>
    BY <1>2, <2>1
  <2>2. CASE dirs' = dirs \ Below(p, dirs) /\ away' = away \ Below(p, dirs) /\ UNCHANGED <<stamp, used>>
    BY <1>2, <2>2
  <2>3. CASE dirs' = dirs \cup Below(p, All) /\ UNCHANGED <<away, stamp, used>>
    BY <1>2, <2>3 DEF Below
  <2>4. CASE UNCHANGED <<dirs, away, used>> /\ \E time \in 0 .. Now : stamp' = [stamp EXCEPT ![p] = time]
    <3>1. PICK time \in 0 .. Now : stamp' = [stamp EXCEPT ![p] = time]
      BY <2>4
    <3>2. stamp' \in [All -> 0 .. Now]
      BY <1>2, <3>1
    <3>3. QED
      BY <1>2, <2>4, <3>2
  <2>5. CASE used' = used \cup {p} /\ UNCHANGED <<dirs, away, stamp>>
    BY <1>2, <2>5
  <2>6. \/ p \in dirs /\ away' = (away \cup {p}) \ (away \cap {p}) /\ UNCHANGED <<dirs, stamp, used>>
        \/ dirs' = dirs \ Below(p, dirs) /\ away' = away \ Below(p, dirs) /\ UNCHANGED <<stamp, used>>
        \/ dirs' = dirs \cup Below(p, All) /\ UNCHANGED <<away, stamp, used>>
        \/ UNCHANGED <<dirs, away, used>> /\ \E time \in 0 .. Now : stamp' = [stamp EXCEPT ![p] = time]
        \/ used' = used \cup {p} /\ UNCHANGED <<dirs, away, stamp>>
    BY UserChanges
  <2>7. QED
    BY <2>1, <2>2, <2>3, <2>4, <2>5, <2>6
<1>5. DirsClosed'
  <2>1. \A x \in dirs, y \in All : IsPrefix(y, x) => y \in dirs
    BY DEF TypeInv, DirsClosed
  <2>2. CASE UNCHANGED dirs
    BY <1>1, <2>1, <2>2 DEF DirsClosed
  <2>3. CASE dirs' = dirs \ Below(p, dirs)
    <3> SUFFICES ASSUME NEW x \in dirs', NEW y \in All, IsPrefix(y, x) PROVE y \in dirs'
      BY <1>1 DEF DirsClosed
    <3>1. x \in dirs /\ ~IsPrefix(p, x)
      BY <2>3 DEF Below
    <3>2. y \in dirs
      BY <2>1, <3>1
    <3>3. ~IsPrefix(p, y)
      BY <1>2, <1>3, <3>1
    <3>4. QED
      BY <2>3, <3>2, <3>3 DEF Below
  <2>4. CASE dirs' = dirs \cup Below(p, All) /\ (Len(p) = 1 \/ Front(p) \in dirs)
    <3> SUFFICES ASSUME NEW x \in dirs', NEW y \in All, IsPrefix(y, x) PROVE y \in dirs'
      BY <1>1 DEF DirsClosed
    <3>1. CASE x \in dirs
      BY <2>1, <2>4, <3>1
    <3>2. CASE x \in All /\ IsPrefix(p, x)
      <4>1. /\ x \in Seq(Words) /\ y \in Paths0 /\ p \in Paths0
            /\ y \in Seq(Words) /\ p \in Seq(Words)
        BY <1>2, <3>2, Directories
      <4>2. CASE Len(p) <= Len(y)
        <5>1. IsPrefix(p, y)
          BY <3>2, <4>1, <4>2, PrefixesCompare
        <5>2. QED
          BY <2>4, <5>1 DEF Below
      <4>3. CASE Len(y) < Len(p)
        <5>1. /\ Front(p) \in Seq(Words) /\ Len(Front(p)) = Len(p) - 1 /\ IsPrefix(Front(p), p)
              /\ Len(p) \in Nat \ {0} /\ Len(y) \in Nat \ {0}
          BY <4>1, ParentOf
        <5>2. IsPrefix(y, Front(p))
          <6>1. IsPrefix(Front(p), x)
            BY <3>2, <4>1, <5>1, PrefixOfPrefix
          <6>2. Len(y) <= Len(Front(p))
            BY <4>3, <5>1
          <6>3. QED
            BY <4>1, <5>1, <6>1, <6>2, PrefixesCompare
        <5>3. Front(p) \in dirs
          BY <2>4, <4>3, <5>1
        <5>4. QED
          BY <2>1, <2>4, <5>2, <5>3
      <4>4. QED
        BY <4>1, <4>2, <4>3, ParentOf
    <3>3. QED
      BY <2>4, <3>1, <3>2 DEF Below
  <2>5. QED
    BY <2>2, <2>3, <2>4, UserChanges
<1>6. PlanTypeOK'
  BY <1>1, <1>4 DEF TypeInv, PlanTypeOK, Below
<1>7. QED
  BY <1>1, <1>5, <1>6 DEF TypeInv

\* The directories on the way to x are what they were.
Steady(x) ==
    \A q \in All : IsPrefix(q, x) =>
      /\ q \in dirs' <=> q \in dirs
      /\ q \in away' <=> q \in away
      /\ q \in used' <=> q \in used
      /\ stamp'[q] = stamp[q]

\* A step of the user leaves what stays untouched as it was.
LEMMA UserFrame ==
    ASSUME TypeInv, NEW p \in All, UserActs(p), pc # "start", NEW x \in All, Untouched(x)'
    PROVE  Untouched(x) /\ Steady(x)
<1>1. touched' = touched \cup {p}
  BY UserChanges, UserKeeps
<1>2. Untouched(x) /\ ~IsPrefix(p, x)
  BY <1>1 DEF Untouched
<1>3. SUFFICES ASSUME NEW q \in All, IsPrefix(q, x)
               PROVE  /\ q \in dirs' <=> q \in dirs
                      /\ q \in away' <=> q \in away
                      /\ q \in used' <=> q \in used
                      /\ stamp'[q] = stamp[q]
  BY <1>2 DEF Steady
<1>4. /\ layout \in Layouts /\ dirs \subseteq All /\ away \subseteq dirs
      /\ stamp \in [All -> 0 .. Now]
  BY DEF TypeInv, PlanTypeOK
<1>5. ~IsPrefix(p, q)
  BY <1>2, <1>3, <1>4, Directories, PrefixOfPrefix
<1>6. q # p
  BY <1>2, <1>3
<1>7. q \notin Below(p, dirs) /\ q \notin Below(p, All)
  BY <1>5 DEF Below
<1>8. QED
  BY <1>4, <1>6, <1>7, UserChanges

\* A step after which what is untouched is as it was.
Calm == layout' = layout /\ \A x \in All : Untouched(x)' => Untouched(x) /\ Steady(x)

\* So once the plan has begun, every step of the user is calm.
LEMMA UserCalm ==
    ASSUME TypeInv, NEW p \in All, UserActs(p), pc # "start"
    PROVE  Calm
<1>1. layout' = layout
  BY UserChanges, UserKeeps
<1>2. QED
  BY <1>1, UserFrame DEF Calm

\* And every step of the planner is: it changes no directory.
LEMMA PlannerCalm ==
    ASSUME Planner
    PROVE  Calm
<1>1. UNCHANGED <<layout, dirs, away, stamp, used, touched>>
  BY DEF Planner, disk
<1>2. QED
  BY <1>1 DEF Calm, Untouched, Steady

\* Where the way to a directory is what it was, so is the way to what is above it.
LEMMA SteadyBelow ==
    ASSUME layout \in Layouts, NEW x \in All, Steady(x), NEW y \in All, IsPrefix(y, x)
    PROVE  Steady(y)
<1>1. \A q \in All : IsPrefix(q, y) => IsPrefix(q, x)
  BY Directories, PrefixOfPrefix
<1>2. QED
  BY <1>1 DEF Steady

\* canonicalize gives what it gave.
LEMMA InPlaceKept ==
    ASSUME TypeInv, TypeInv', layout' = layout, NEW x \in All, Steady(x)
    PROVE  InPlace(x)' <=> InPlace(x)
<1>1. away \subseteq All /\ away' \subseteq All /\ layout \in Layouts
  BY DEF TypeInv, PlanTypeOK, All
<1>2. IsPrefix(x, x)
  BY <1>1, Directories, PrefixItself
<1>3. x \in dirs' <=> x \in dirs
  BY <1>2 DEF Steady
<1>4. (\A q \in away' : ~IsPrefix(q, x)) <=> (\A q \in away : ~IsPrefix(q, x))
  BY <1>1 DEF Steady
<1>5. QED
  BY <1>3, <1>4 DEF InPlace

\* authenticate_repository says what it said.
LEMMA RepositoryKept ==
    ASSUME TypeInv, TypeInv', layout' = layout, NEW r \in All, Steady(r)
    PROVE  IsRepository(r)' <=> IsRepository(r)
<1>1. InPlace(r)' <=> InPlace(r)
  BY InPlaceKept
<1>2. QED
  BY <1>1 DEF IsRepository

\* regular_file says what it said.
LEMMA HoldsKept ==
    ASSUME TypeInv, TypeInv', layout' = layout, NEW x \in All, Steady(x), NEW d, IsPrefix(d, x),
           NEW file
    PROVE  Holds(d, file)' <=> Holds(d, file)
<1>1. dirs \subseteq All /\ dirs' \subseteq All
  BY DEF TypeInv, PlanTypeOK, All
<1>2. d \in dirs' <=> d \in dirs
  BY <1>1 DEF Steady
<1>3. QED
  BY <1>2 DEF Holds

\* find_lockfile says what it said.
LEMMA LockfileKept ==
    ASSUME TypeInv, TypeInv', layout' = layout, NEW x \in All, Steady(x),
           NEW d \in Seq(Words), IsPrefix(d, x), NEW r
    PROVE  FindLockfile(d, r)' <=> FindLockfile(d, r)
<1>1. All' = All /\ layout \in Layouts
  BY DEF All, TypeInv, PlanTypeOK
<1>2. ASSUME NEW q \in All, IsPrefix(q, d)
      PROVE  Holds(q, "lock")' <=> Holds(q, "lock")
  <2>1. IsPrefix(q, x)
    BY <1>1, <1>2, Directories, PrefixOfPrefix
  <2>2. QED
    BY <2>1, HoldsKept
<1>3. QED
  BY <1>1, <1>2 DEF FindLockfile

\* What an offer has on its way.
LEMMA OfferWay ==
    ASSUME TypeInv, NEW o \in Offers
    PROVE  /\ o.path \in All /\ o.kind \in Kinds /\ o.repo \in All \cup {None}
           /\ o = [path |-> o.path, kind |-> o.kind, repo |-> o.repo]
           /\ Front(o.path) \in Seq(Words) /\ IsPrefix(Front(o.path), o.path)
           /\ IsPrefix(o.path, o.path)
<1>1. o.path \in All /\ layout \in Layouts /\ o.kind \in Kinds /\ o.repo \in All \cup {None}
      /\ o = [path |-> o.path, kind |-> o.kind, repo |-> o.repo]
  BY DEF Offers, TypeInv, PlanTypeOK
<1>2. o.path \in Paths0 /\ o.path \in Seq(Words)
  BY <1>1, Directories
<1>3. QED
  BY <1>1, <1>2, ParentOf, PrefixItself

\* A project is asked for what it was asked for.
LEMMA OffersKept ==
    ASSUME TypeInv, TypeInv', layout' = layout, NEW x \in All, Steady(x),
           NEW d \in All, IsPrefix(d, x), NEW r
    PROVE  OffersOf(d, r)' = OffersOf(d, r)
<1>1. All' = All /\ d \in Seq(Words)
  BY Directories DEF All, TypeInv, PlanTypeOK
<1>2. /\ Holds(d, "Cargo.toml")' <=> Holds(d, "Cargo.toml")
      /\ Holds(d, "package.json")' <=> Holds(d, "package.json")
  BY HoldsKept
<1>3. FindLockfile(d, r)' <=> FindLockfile(d, r)
  BY <1>1, LockfileKept
<1>4. QED
  BY <1>1, <1>2, <1>3 DEF OffersOf

\* What was offered for good reasons still is.
LEMMA FitKept ==
    ASSUME TypeInv, TypeInv', layout' = layout, NEW o \in Offers, Steady(o.path)
    PROVE  Fit(o)' <=> Fit(o)
<1> DEFINE d == Front(o.path)
           r == o.repo
<1>1. /\ o.path \in All /\ d \in Seq(Words) /\ IsPrefix(d, o.path) /\ layout \in Layouts
      /\ IsPrefix(o.path, o.path) /\ All' = All /\ o.path \in Seq(Words)
  BY OfferWay, Directories DEF TypeInv, PlanTypeOK, All
<1> HIDE DEF d, r
<1>2. ASSUME NEW q \in All, IsPrefix(q, d) PROVE Steady(q)
  <2>1. IsPrefix(q, o.path)
    BY <1>1, <1>2, Directories, PrefixOfPrefix
  <2>2. QED
    BY <1>1, <2>1, SteadyBelow
<1>3. ASSUME r \in All, IsPrefix(r, d) PROVE GoodRepo(r)' <=> GoodRepo(r)
  BY <1>2, <1>3, RepositoryKept DEF GoodRepo
<1>4. d = r /\ GoodRepo(r)' => r \in All /\ IsPrefix(r, d)
  <2>1. DOMAIN layout.git \subseteq All
    BY <1>1, Directories
  <2>2. QED
    BY <1>1, <2>1, PrefixItself DEF GoodRepo, IsRepository
<1>5. d = r /\ GoodRepo(r) => r \in All /\ IsPrefix(r, d)
  <2>1. DOMAIN layout.git \subseteq All
    BY <1>1, Directories
  <2>2. QED
    BY <1>1, <2>1, PrefixItself DEF GoodRepo, IsRepository
<1>6. ASSUME d \in ProjectsOf(r) \/ d \in ProjectsOf(r)', GoodRepo(r) \/ GoodRepo(r)'
      PROVE  d \in All /\ r \in All /\ IsPrefix(r, d)
  <2>1. DOMAIN layout.git \subseteq All
    BY <1>1, Directories
  <2>2. r \in All
    BY <1>6, <2>1 DEF GoodRepo, IsRepository
  <2>3. QED
    BY <1>1, <1>6, <2>2 DEF ProjectsOf, ProjectPlaces, Below
<1>7. ASSUME d \in All
      PROVE  /\ d \in ProjectsOf(r)' <=> d \in ProjectsOf(r)
             /\ OffersOf(d, r)' = OffersOf(d, r)
  <2>1. d \in dirs' <=> d \in dirs
    BY <1>1, <1>7 DEF Steady
  <2>2. ProjectPlaces(r)' = ProjectPlaces(r)
    BY <1>1 DEF ProjectPlaces, Below
  <2>3. OffersOf(d, r)' = OffersOf(d, r)
    BY <1>1, <1>7, OffersKept
  <2>4. QED
    BY <2>1, <2>2, <2>3 DEF ProjectsOf
<1>8. QED
  BY <1>3, <1>4, <1>5, <1>6, <1>7 DEF Fit, d, r

\* inspect_candidate says what it said.
LEMMA InspectsKept ==
    ASSUME TypeInv, TypeInv', layout' = layout, NEW o \in Offers, Steady(o.path)
    PROVE  /\ Inspects(o)' <=> Inspects(o)
           /\ InPlace(o.path)' <=> InPlace(o.path)
<1>1. /\ o.path \in All /\ Front(o.path) \in Seq(Words) /\ IsPrefix(Front(o.path), o.path)
      /\ IsPrefix(o.path, o.path)
  BY OfferWay
<1>2. InPlace(o.path)' <=> InPlace(o.path)
  BY <1>1, InPlaceKept
<1>3. /\ Holds(Front(o.path), "Cargo.toml")' <=> Holds(Front(o.path), "Cargo.toml")
      /\ Holds(Front(o.path), "package.json")' <=> Holds(Front(o.path), "package.json")
  BY <1>1, HoldsKept
<1>4. FindLockfile(Front(o.path), o.repo)' <=> FindLockfile(Front(o.path), o.repo)
  BY <1>1, LockfileKept
<1>5. ValidateContext(o)' <=> ValidateContext(o)
  BY <1>3, <1>4 DEF ValidateContext
<1>6. ValidateGitState(o)' <=> ValidateGitState(o)
  BY DEF ValidateGitState
<1>7. /\ o.path \in used' <=> o.path \in used
      /\ stamp'[o.path] = stamp[o.path]
  BY <1>1 DEF Steady
<1>8. QED
  BY <1>2, <1>5, <1>6, <1>7 DEF Inspects

----------------------------------------------------------------------------
(* What is found and what is offered.                                      *)

\* A repository is a directory.
LEMMA GoodRepoFacts ==
    ASSUME TypeInv, NEW r, GoodRepo(r)
    PROVE  r \in All /\ r # None /\ r \in Seq(Words) /\ r \in DOMAIN layout.git
<1>1. layout \in Layouts /\ r \in DOMAIN layout.git
  BY DEF TypeInv, PlanTypeOK, GoodRepo, IsRepository
<1>2. QED
  BY <1>1, Directories

\* Offered, one at a time.
LEMMA OfferedIs ==
    ASSUME TypeInv
    PROVE  \A o : o \in Offered <=> o \in Offers /\ Fit(o)
<1>1. layout \in Layouts /\ dirs \subseteq All
  BY DEF TypeInv, PlanTypeOK
<1>2. ASSUME NEW o \in Offered PROVE o \in Offers /\ Fit(o)
  <2>1. CASE o \in {[path |-> p, kind |-> "Cache", repo |-> None] : p \in GlobalCaches \cap All}
    BY <2>1 DEF Offers, Kinds, Fit
  <2>2. ASSUME NEW r \in DOMAIN layout.git, GoodRepo(r), o \in OffersIn(r)
        PROVE  o \in Offers /\ Fit(o)
    <3>1. r \in All
      BY <2>2, GoodRepoFacts
    <3>2. ASSUME NEW p \in All, Front(p) = r, Last(p) \in RepoCaches,
                 o = [path |-> p, kind |-> "ProjectCache", repo |-> r]
          PROVE  o \in Offers /\ Fit(o)
      BY <2>2, <3>1, <3>2 DEF Offers, Kinds, Fit
    <3>3. ASSUME NEW d \in ProjectsOf(r), o \in OffersOf(d, r)
          PROVE  o \in Offers /\ Fit(o)
      <4>1. d \in All
        BY <1>1 DEF ProjectsOf
      <4>2. o \in Offers /\ o.repo = r /\ Front(o.path) = d
        BY <3>1, <3>3, <4>1, OffersOfFacts
      <4>3. QED
        BY <2>2, <3>3, <4>2 DEF Fit
    <3>4. \/ o \in {[path |-> p, kind |-> "ProjectCache", repo |-> r] :
                      p \in {q \in All : Front(q) = r /\ Last(q) \in RepoCaches}}
          \/ o \in UNION {OffersOf(d, r) : d \in ProjectsOf(r)}
      BY <2>2 DEF OffersIn
    <3>5. QED
      BY <3>2, <3>3, <3>4
  <2>3. QED
    BY <2>1, <2>2 DEF Offered, GoodRepo
<1>3. ASSUME NEW o \in Offers, Fit(o) PROVE o \in Offered
  <2>1. o = [path |-> o.path, kind |-> o.kind, repo |-> o.repo] /\ o.path \in All
    BY OfferWay
  <2>2. CASE o.kind = "Cache" /\ o.repo = None /\ o.path \in GlobalCaches
    BY <2>1, <2>2 DEF Offered
  <2>3. ASSUME GoodRepo(o.repo), o \in OffersIn(o.repo) PROVE o \in Offered
    <3>1. o.repo \in {x \in DOMAIN layout.git : IsRepository(x) /\ Trash \notin ToSet(x)}
      BY <2>3, GoodRepoFacts DEF GoodRepo
    <3>2. QED
      BY <2>3, <3>1 DEF Offered
  <2>4. CASE /\ o.kind = "ProjectCache" /\ GoodRepo(o.repo)
             /\ Front(o.path) = o.repo /\ Last(o.path) \in RepoCaches
    <3>1. o \in OffersIn(o.repo)
      BY <2>1, <2>4 DEF OffersIn
    <3>2. QED
      BY <2>3, <2>4, <3>1
  <2>5. CASE /\ GoodRepo(o.repo) /\ Front(o.path) \in ProjectsOf(o.repo)
             /\ o \in OffersOf(Front(o.path), o.repo)
    <3>1. o \in OffersIn(o.repo)
      BY <2>5 DEF OffersIn
    <3>2. QED
      BY <2>3, <2>5, <3>1
  <2>6. QED
    BY <1>3, <2>2, <2>4, <2>5 DEF Fit
<1>4. QED
  BY <1>2, <1>3

\* Who did not touch a directory touched none it is in.
LEMMA UntouchedAbove ==
    ASSUME layout \in Layouts, touched \subseteq All, NEW p \in All, NEW d \in All,
           IsPrefix(d, p), Untouched(p)
    PROVE  Untouched(d)
  BY Directories, PrefixOfPrefix DEF Untouched

----------------------------------------------------------------------------
(* The invariant, part by part.                                            *)

\* Nothing is found before the plan is begun.
LEMMA StartsEmptyKept ==
    ASSUME TypeInv, StartsEmpty, PlanNext
    PROVE  StartsEmpty'
<1>1. CASE Plan
  <2>1. pc' # "start"
    BY <1>1 DEF Plan, StartPlan, PushCandidate, Pushed, AuthenticateRoots, WalkDone,
                NextRepository, RepositoriesDone, ProjectsDone, SortPlan, VisitDirectory,
                VisitProject
  <2>2. QED
    BY <2>1 DEF StartsEmpty
<1>2. ASSUME NEW p \in All, UserActs(p)
      PROVE  StartsEmpty'
  BY <1>2, UserChanges, UserKeeps DEF StartsEmpty
<1>3. QED
  BY <1>1, <1>2, NextSteps

\* discover_repositories stays below its roots, above its depth and out of NotScanned.
LEMMA WalkStaysKept ==
    ASSUME TypeInv, StartsEmpty, WalksStay, Plan, pc' = "walk", NEW e \in frontier'
    PROVE  Reached(e.base, e.path)'
<1>1. UNCHANGED layout /\ layout \in Layouts
  BY DEF TypeInv, PlanTypeOK, Plan, Planner, StartPlan, PushCandidate, Pushed, AuthenticateRoots,
         WalkDone, NextRepository, RepositoriesDone, ProjectsDone, SortPlan, VisitDirectory,
         VisitProject
<1>2. SUFFICES Reached(e.base, e.path)
  BY <1>1 DEF Reached
<1>3. CASE AuthenticateRoots
  <2>1. PICK r \in layout.roots : e = Entry(r, r)
    BY <1>3 DEF AuthenticateRoots
  <2>2. r \in All /\ r \in Seq(Words)
    BY <1>1, Directories
  <2>3. e.base = r /\ e.path = r /\ IsPrefix(r, r) /\ Len(r) \in Nat /\ Names(r, r) = {}
    BY <2>1, <2>2, RootEntry, NoNames
  <2>4. QED
    BY <2>3, LimitAssumption DEF Reached
<1>4. ASSUME NEW f \in frontier, VisitDirectory(f)
      PROVE  Reached(e.base, e.path)
  <2>1. pc = "walk" /\ (e \in frontier \/ e \in Children(f, NotScanned))
    BY <1>4 DEF VisitDirectory
  <2>2. \A g \in frontier : Reached(g.base, g.path)
    BY <2>1 DEF WalksStay
  <2>3. CASE e \in Children(f, NotScanned)
    <3>1. /\ e.base = f.base /\ e.base \in All /\ e.path \in All
          /\ IsPrefix(e.base, e.path) /\ Len(e.path) - Len(e.base) <= MaxDepth
          /\ Last(e.path) \notin NotScanned
          /\ Names(e.base, e.path) = Names(f.base, f.path) \cup {Last(e.path)}
      BY <2>3, ChildrenFacts
    <3>2. Reached(f.base, f.path)
      BY <2>2
    <3>3. Len(e.path) \in Nat /\ Len(e.base) \in Nat
      BY <1>1, <3>1, Directories
    <3>4. QED
      BY <3>1, <3>2, <3>3, LimitAssumption DEF Reached
  <2>4. QED
    BY <2>1, <2>2, <2>3
<1>5. QED
  BY <1>3, <1>4
     DEF Plan, StartPlan, PushCandidate, Pushed, WalkDone, NextRepository, RepositoriesDone,
         ProjectsDone, SortPlan, VisitProject

\* discover_project_roots stays in its repository and out of NotProjects.
LEMMA ProjectWalkKept ==
    ASSUME TypeInv, StartsEmpty, WalksStay, Plan,
           pc' = "projects" \/ (pc' = "push" /\ repo' # None), NEW e \in frontier'
    PROVE  e.base = repo' /\ Names(repo', e.path) \cap NotProjects = {}
<1>1. layout \in Layouts /\ repos \subseteq All
  BY DEF TypeInv, PlanTypeOK
<1>2. pc = "projects" \/ (pc = "push" /\ repo # None) =>
         \A f \in frontier : f.base = repo /\ Names(repo, f.path) \cap NotProjects = {}
  BY DEF WalksStay
<1>3. pc # "start"
  BY DEF Plan, StartPlan, PushCandidate, Pushed, AuthenticateRoots, WalkDone,
         NextRepository, RepositoriesDone, ProjectsDone, SortPlan, VisitDirectory, VisitProject,
         StartsEmpty, found
<1>4. CASE PushCandidate
  BY <1>2, <1>4 DEF PushCandidate
<1>5. CASE Pushed
  BY <1>2, <1>5 DEF Pushed, found
<1>6. CASE NextRepository
  <2>1. First(repos) \in All
    BY <1>1, <1>6, FirstIsMember DEF NextRepository
  <2>2. repo' = First(repos) /\ frontier' = {Entry(repo', repo')}
    BY <1>6 DEF NextRepository
  <2>3. repo' \in Seq(Words)
    BY <1>1, <2>1, <2>2, Directories
  <2>4. e.base = repo' /\ e.path = repo'
    BY <2>2 DEF Entry
  <2>5. QED
    BY <2>3, <2>4, NoNames
<1>7. CASE ProjectsDone
  BY <1>2, <1>7 DEF ProjectsDone
<1>8. ASSUME NEW f \in frontier, VisitProject(f)
      PROVE  e.base = repo' /\ Names(repo', e.path) \cap NotProjects = {}
  <2>1. pc = "projects" /\ repo' = repo /\ (e \in frontier \/ e \in Children(f, NotProjects))
    BY <1>8 DEF VisitProject
  <2>2. CASE e \in Children(f, NotProjects)
    <3>1. /\ e.base = f.base /\ Last(e.path) \notin NotProjects
          /\ Names(e.base, e.path) = Names(f.base, f.path) \cup {Last(e.path)}
      BY <2>2, ChildrenFacts
    <3>2. QED
      BY <1>2, <2>1, <3>1
  <2>3. QED
    BY <1>2, <2>1, <2>2
<1>9. QED
  BY <1>3, <1>4, <1>5, <1>6, <1>7, <1>8
     DEF Plan, StartPlan, AuthenticateRoots, WalkDone, RepositoriesDone, SortPlan, VisitDirectory

\* Both of them do.
LEMMA WalksStayKept ==
    ASSUME TypeInv, StartsEmpty, WalksStay, PlanNext
    PROVE  WalksStay'
<1>1. CASE Plan
  BY <1>1, WalkStaysKept, ProjectWalkKept DEF WalksStay
<1>2. ASSUME NEW p \in All, UserActs(p)
      PROVE  WalksStay'
  BY <1>2, UserChanges, UserKeeps DEF WalksStay, Reached
<1>3. QED
  BY <1>1, <1>2, NextSteps

\* Every step keeps the types, and what a directory holds when it is there.
LEMMA NextType ==
    ASSUME TypeInv, PlanNext
    PROVE  TypeInv' /\ layout' = layout
<1>1. CASE Plan
  <2>1. Planner
    BY <1>1 DEF Plan, StartPlan, PushCandidate, Pushed, AuthenticateRoots, WalkDone,
                NextRepository, RepositoriesDone, ProjectsDone, SortPlan, VisitDirectory,
                VisitProject
  <2>2. QED
    BY <1>1, <2>1, PlanType DEF Planner
<1>2. ASSUME NEW p \in All, UserActs(p)
      PROVE  TypeInv' /\ layout' = layout
  BY <1>2, UserType, UserChanges, UserKeeps
<1>3. QED
  BY <1>1, <1>2, NextSteps

\* The planner changes no directory, and never begins again.
LEMMA PlanIsPlanner ==
    ASSUME Plan
    PROVE  Planner /\ pc' # "start"
  BY DEF Plan, StartPlan, PushCandidate, Pushed, AuthenticateRoots, WalkDone,
         NextRepository, RepositoriesDone, ProjectsDone, SortPlan, VisitDirectory, VisitProject

\* The repositories are those that were found, or one more.
LEMMA ReposFoundKept ==
    ASSUME TypeInv, StartsEmpty, WalksStay, ReposFound, PlanNext
    PROVE  ReposFound'
<1>1. TypeInv' /\ layout' = layout
  BY NextType
<1>2. repos \subseteq All /\ layout \in Layouts
  BY DEF TypeInv, PlanTypeOK
<1>3. ASSUME Calm, NEW r \in repos
      PROVE  r \in DOMAIN layout'.git /\ (Untouched(r)' => IsRepository(r)')
  BY <1>1, <1>2, <1>3, RepositoryKept DEF ReposFound, Calm
<1>4. CASE Plan
  <2>1. Planner /\ Calm
    BY <1>4, PlanIsPlanner, PlannerCalm
  <2>2. ASSUME NEW f \in frontier, VisitDirectory(f), NEW r \in repos' \ repos
        PROVE  r \in DOMAIN layout'.git /\ (Untouched(r)' => IsRepository(r)')
    <3>1. /\ r = f.path /\ r \in DOMAIN layout.git /\ InPlace(r) /\ layout.git[r].marker
          /\ pc = "walk"
      BY <2>2 DEF VisitDirectory, Authentic
    <3>2. Reached(f.base, r)
      BY <3>1 DEF WalksStay
    <3>3. IsRepository(r)
      BY <3>1, <3>2 DEF IsRepository, Reached
    <3>4. UNCHANGED <<layout, dirs, away>>
      BY <2>1 DEF Planner, disk
    <3>5. IsRepository(r)'
      BY <3>3, <3>4 DEF IsRepository, InPlace
    <3>6. QED
      BY <1>1, <3>1, <3>5
  <2>3. repos' \subseteq repos \/ \E f \in frontier : VisitDirectory(f)
    BY <1>4 DEF Plan, StartPlan, PushCandidate, Pushed, AuthenticateRoots, WalkDone,
                NextRepository, RepositoriesDone, ProjectsDone, SortPlan, VisitProject, found
  <2>4. QED
    BY <1>3, <2>1, <2>2, <2>3 DEF ReposFound
<1>5. ASSUME NEW p \in All, UserActs(p)
      PROVE  ReposFound'
  <2>1. repos' = repos /\ (pc = "start" => repos = {})
    BY <1>5, UserChanges, UserKeeps DEF StartsEmpty
  <2>2. pc # "start" => Calm
    BY <1>5, UserCalm
  <2>3. QED
    BY <1>3, <2>1, <2>2 DEF ReposFound
<1>6. QED
  BY <1>4, <1>5, NextSteps

\* The repository that is looked at was found and is in no quarantine.
LEMMA RepoFoundKept ==
    ASSUME TypeInv, StartsEmpty, ReposFound, RepoFound, PlanNext
    PROVE  RepoFound'
<1>1. TypeInv' /\ layout' = layout
  BY NextType
<1>2. repos \subseteq All /\ layout \in Layouts /\ repo \in All \cup {None}
  BY DEF TypeInv, PlanTypeOK
<1>3. ASSUME Calm, NEW r \in repos \cup {repo}, r # None
      PROVE  Untouched(r)' => IsRepository(r)'
  BY <1>1, <1>2, <1>3, RepositoryKept DEF ReposFound, RepoFound, Calm
<1>4. CASE Plan
  <2>1. Planner /\ Calm
    BY <1>4, PlanIsPlanner, PlannerCalm
  <2>2. CASE NextRepository /\ repo' # repo
    <3>1. repo' \in repos /\ repo' # None
      BY <1>2, <2>2, FirstIsMember, Directories DEF NextRepository
    <3>2. Trash \notin ToSet(repo')
      BY <2>2 DEF NextRepository, SkipQuarantined, IsGuardQuarantinePath
    <3> DEFINE r == First(repos)
    <3>3. repo' = r
      BY <2>2 DEF NextRepository
    <3> HIDE DEF r
    <3>4. PICK q \in repos : q = r
      BY <3>1, <3>3
    <3>5. Untouched(q)' => IsRepository(q)'
      BY <1>2, <1>3, <2>1, <3>1, <3>3, <3>4
    <3>6. QED
      BY <3>2, <3>3, <3>4, <3>5 DEF RepoFound, Untouched, IsRepository, InPlace
  <2>3. repo' = repo \/ (NextRepository /\ repo' # repo)
    BY <1>4 DEF Plan, StartPlan, PushCandidate, Pushed, AuthenticateRoots, WalkDone,
                NextRepository, RepositoriesDone, ProjectsDone, SortPlan, VisitProject,
                VisitDirectory, found
  <2>4. CASE repo' = repo
    BY <1>3, <2>1, <2>4 DEF RepoFound, Untouched, IsRepository, InPlace
  <2>5. QED
    BY <2>2, <2>3, <2>4
<1>5. ASSUME NEW p \in All, UserActs(p)
      PROVE  RepoFound'
  <2>1. repo' = repo /\ (pc = "start" => repo = None)
    BY <1>5, UserChanges, UserKeeps DEF StartsEmpty
  <2>2. pc # "start" => Calm
    BY <1>5, UserCalm
  <2>3. QED
    BY <1>3, <2>1, <2>2 DEF RepoFound, Untouched, IsRepository, InPlace
<1>6. QED
  BY <1>4, <1>5, NextSteps

\* The projects are places for projects in it.
LEMMA ProjectsFoundKept ==
    ASSUME TypeInv, StartsEmpty, WalksStay, ProjectsFound, PlanNext
    PROVE  ProjectsFound'
<1>1. TypeInv' /\ layout' = layout /\ All' = All
  BY NextType DEF All
<1>2. projects \subseteq All /\ layout \in Layouts /\ repo \in All \cup {None}
  BY DEF TypeInv, PlanTypeOK
<1>3. \A r : ProjectPlaces(r)' = ProjectPlaces(r)
  BY <1>1 DEF ProjectPlaces, Below
<1>4. ASSUME Calm, repo' = repo, NEW d \in projects
      PROVE  repo' # None /\ d \in ProjectPlaces(repo)' /\ (Untouched(d)' => d \in dirs')
  <2>1. IsPrefix(d, d) /\ d \in All
    BY <1>2, Directories, PrefixItself
  <2>2. repo # None /\ d \in ProjectPlaces(repo) /\ (Untouched(d) => d \in dirs)
    BY DEF ProjectsFound
  <2>3. d \in ProjectPlaces(repo)'
    BY <1>3, <1>4, <2>2
  <2>4. Untouched(d)' => d \in dirs'
    BY <1>4, <2>1, <2>2 DEF Calm, Steady
  <2>5. QED
    BY <1>4, <2>2, <2>3, <2>4
<1>5. CASE Plan
  <2>1. Planner /\ Calm
    BY <1>5, PlanIsPlanner, PlannerCalm
  <2>2. ASSUME NEW f \in frontier, VisitProject(f), NEW d \in projects' \ projects
        PROVE  repo' # None /\ d \in ProjectPlaces(repo)' /\ (Untouched(d)' => d \in dirs')
    <3>1. d = f.path /\ HasManifest(d) /\ pc = "projects" /\ repo' = repo /\ dirs' = dirs
      BY <2>1, <2>2 DEF VisitProject, Planner, disk
    <3>2. /\ f.base = repo /\ Names(repo, d) \cap NotProjects = {} /\ repo # None
      BY <3>1 DEF WalksStay, TypeInv
    <3>3. /\ d \in All /\ IsPrefix(repo, d) /\ repo \in All
      BY <3>1, <3>2, FrontierType
    <3>4. /\ d \in dirs /\ layout.files[d] \cap Manifests # {}
          /\ Len(d) - Len(repo) + 1 <= MaxDepth
      BY <3>1 DEF HasManifest, Holds
    <3>5. Len(d) \in Nat /\ Len(repo) \in Nat
      BY <1>2, <3>3, Directories
    <3>6. d \in ProjectPlaces(repo)
      BY <3>2, <3>3, <3>4, <3>5, LimitAssumption DEF ProjectPlaces, Below
    <3>7. QED
      BY <1>3, <3>1, <3>2, <3>4, <3>6
  <2>3. \/ projects' = projects /\ repo' = repo
        \/ projects' = {}
        \/ (\E f \in frontier : VisitProject(f)) /\ repo' = repo
    BY <1>5 DEF Plan, StartPlan, PushCandidate, Pushed, AuthenticateRoots, WalkDone,
                NextRepository, RepositoriesDone, ProjectsDone, SortPlan, VisitDirectory,
                VisitProject, found
  <2>4. ASSUME NEW d \in projects'
        PROVE  repo' # None /\ d \in ProjectPlaces(repo)' /\ (Untouched(d)' => d \in dirs')
    BY <1>4, <2>1, <2>2, <2>3
  <2>5. QED
    BY <2>4 DEF ProjectsFound
<1>6. ASSUME NEW p \in All, UserActs(p)
      PROVE  ProjectsFound'
  <2>1. projects' = projects /\ repo' = repo /\ (pc = "start" => projects = {})
    BY <1>6, UserChanges, UserKeeps DEF StartsEmpty
  <2>2. pc # "start" => Calm
    BY <1>6, UserCalm
  <2>3. ASSUME NEW d \in projects'
        PROVE  repo' # None /\ d \in ProjectPlaces(repo)' /\ (Untouched(d)' => d \in dirs')
    BY <1>4, <2>1, <2>2
  <2>4. QED
    BY <2>3 DEF ProjectsFound
<1>7. QED
  BY <1>5, <1>6, NextSteps

\* Every offer is one for good reasons: its cache, its repository or its project was found.
LEMMA OffersFitKept ==
    ASSUME TypeInv, StartsEmpty, RepoFound, ReposFound, ProjectsFound, OffersFit, PlanNext
    PROVE  OffersFit'
<1>1. TypeInv' /\ layout' = layout /\ All' = All
  BY NextType DEF All
<1>2. /\ offers \subseteq Offers /\ layout \in Layouts /\ repos \cup projects \subseteq All
      /\ repo \in All \cup {None} /\ touched \subseteq All
  BY DEF TypeInv, PlanTypeOK
<1>3. ASSUME Calm, NEW o \in offers
      PROVE  Untouched(o.path)' => Fit(o)'
  <2>1. o \in Offers /\ o.path \in All
    BY <1>2, OfferWay
  <2>2. QED
    BY <1>1, <1>3, <2>1, FitKept DEF OffersFit, Calm
<1>4. CASE Plan
  <2>1. Planner /\ Calm /\ UNCHANGED <<layout, dirs, away, stamp, used, touched>>
    BY <1>4, PlanIsPlanner, PlannerCalm DEF Planner, disk
  <2>2. ASSUME NEW o \in Offers, Untouched(o.path) => Fit(o)
        PROVE  Untouched(o.path)' => Fit(o)'
    BY <2>1, <2>2
       DEF Untouched, Fit, GoodRepo, IsRepository, InPlace, ProjectsOf, ProjectPlaces, Below,
           OffersOf, FindLockfile, Holds, All
  <2>3. CASE StartPlan
    <3> SUFFICES ASSUME NEW o \in offers' PROVE Fit(o)'
      BY DEF OffersFit
    <3>1. o.kind = "Cache" /\ o.repo = None /\ o.path \in GlobalCaches
      BY <2>3 DEF StartPlan
    <3>2. QED
      BY <3>1 DEF Fit
  <2>4. CASE NextRepository /\ ~SkipQuarantined(First(repos))
    <3> DEFINE r == First(repos)
    <3>1. /\ r \in repos /\ r \in All
      BY <1>2, <2>4, FirstIsMember DEF NextRepository
    <3>2. Trash \notin ToSet(r)
      BY <2>4 DEF SkipQuarantined, IsGuardQuarantinePath
    <3>3. offers' = {[path |-> Append(r, n), kind |-> "ProjectCache", repo |-> r] :
                       n \in {x \in RepoCaches : Append(r, x) \in All}}
      BY <2>4 DEF NextRepository
    <3> HIDE DEF r
    <3>4. SUFFICES ASSUME NEW n \in RepoCaches, Append(r, n) \in All,
                          NEW o, o = [path |-> Append(r, n), kind |-> "ProjectCache", repo |-> r]
                   PROVE  Untouched(o.path)' => Fit(o)'
      BY <3>3 DEF OffersFit
    <3>5. /\ o \in Offers /\ Front(o.path) = r /\ Last(o.path) = n
          /\ o.path = Append(r, n) /\ o.kind = "ProjectCache" /\ o.repo = r
      BY <1>2, <3>1, <3>4, CacheOffer
    <3>6. IsPrefix(r, o.path)
      BY <3>5, OfferWay
    <3>7. Untouched(o.path) => Fit(o)
      <4>1. SUFFICES ASSUME Untouched(o.path) PROVE Fit(o)
        OBVIOUS
      <4>2. Untouched(r)
        BY <1>2, <3>1, <3>4, <3>5, <3>6, <4>1, UntouchedAbove
      <4>3. GoodRepo(r)
        BY <3>1, <3>2, <4>2 DEF ReposFound, GoodRepo
      <4>4. QED
        BY <3>4, <3>5, <4>3 DEF Fit
    <3>8. QED
      BY <2>2, <3>5, <3>7
  <2>5. CASE ProjectsDone
    <3>1. PICK taken \in SUBSET projects : offers' = UNION {OffersOf(d, repo) : d \in taken}
      BY <2>5 DEF ProjectsDone
    <3>2. repo \in All
      BY <1>2, <2>5 DEF ProjectsDone, TypeInv
    <3>3. SUFFICES ASSUME NEW d \in projects, NEW o \in OffersOf(d, repo)
                   PROVE  Untouched(o.path)' => Fit(o)'
      BY <3>1 DEF OffersFit
    <3>4. /\ o \in Offers /\ o.repo = repo /\ Front(o.path) = d /\ IsPrefix(d, o.path)
          /\ d \in All /\ o.path \in All
      BY <1>2, <3>2, OffersOfFacts, OfferWay
    <3>5. Untouched(o.path) => Fit(o)
      <4>1. SUFFICES ASSUME Untouched(o.path) PROVE Fit(o)
        OBVIOUS
      <4>2. d \in ProjectPlaces(repo) /\ repo # None /\ IsPrefix(repo, d)
        BY DEF ProjectsFound, ProjectPlaces, Below
      <4>3. Untouched(d)
        BY <1>2, <3>4, <4>1, UntouchedAbove
      <4>4. Untouched(repo)
        BY <1>2, <3>2, <3>4, <4>2, <4>3, UntouchedAbove
      <4>5. d \in ProjectsOf(repo)
        BY <4>2, <4>3 DEF ProjectsFound, ProjectsOf
      <4>6. GoodRepo(repo)
        BY <4>2, <4>4 DEF RepoFound, GoodRepo
      <4>7. QED
        BY <3>4, <4>5, <4>6 DEF Fit
    <3>6. QED
      BY <2>2, <3>4, <3>5
  <2>6. \/ offers' \subseteq offers \/ StartPlan \/ ProjectsDone
        \/ NextRepository /\ ~SkipQuarantined(First(repos))
    BY <1>4 DEF Plan, PushCandidate, Pushed, AuthenticateRoots, WalkDone,
                NextRepository, RepositoriesDone, SortPlan, VisitDirectory, VisitProject, found
  <2>7. CASE offers' \subseteq offers
    BY <1>3, <2>1, <2>7 DEF OffersFit
  <2>8. QED
    BY <2>3, <2>4, <2>5, <2>6, <2>7
<1>5. ASSUME NEW p \in All, UserActs(p)
      PROVE  OffersFit'
  <2>1. offers' = offers /\ (pc = "start" => offers = {})
    BY <1>5, UserChanges, UserKeeps DEF StartsEmpty
  <2>2. pc # "start" => Calm
    BY <1>5, UserCalm
  <2>3. QED
    BY <1>3, <2>1, <2>2 DEF OffersFit
<1>6. QED
  BY <1>4, <1>5, NextSteps

\* A candidate without its time is an offer.
LEMMA OfferOfCandidate ==
    ASSUME NEW c \in Candidates
    PROVE  Offer(c) \in Offers /\ Offer(c).path = c.path
  BY DEF Offer, Offers, Candidates

\* Every candidate was offered for good reasons, and passed its inspection.
LEMMA PlanFitsKept ==
    ASSUME TypeInv, StartsEmpty, OffersFit, PlanFits, PlanNext
    PROVE  PlanFits'
<1>1. TypeInv' /\ layout' = layout
  BY NextType
<1>2. /\ candidates \in Seq(Candidates) /\ ToSet(candidates) \subseteq Candidates
      /\ offers \subseteq Offers /\ layout \in Layouts /\ \A o \in offers : Shaped(o)
  BY DEF TypeInv, PlanTypeOK, ToSet
<1>3. ASSUME Calm, NEW c \in Candidates,
             Untouched(c.path) => Fit(Offer(c)) /\ InPlace(c.path) /\ Inspects(Offer(c))
      PROVE  Untouched(c.path)' => Fit(Offer(c))' /\ InPlace(c.path)' /\ Inspects(Offer(c))'
  <2>1. PICK o \in Offers : o = Offer(c) /\ o.path = c.path
    BY OfferOfCandidate
  <2>2. o.path \in All
    BY OfferWay
  <2>3. SUFFICES ASSUME Untouched(o.path)'
                 PROVE  Fit(o)' /\ InPlace(o.path)' /\ Inspects(o)'
    BY <2>1
  <2>4. Untouched(o.path) /\ Steady(o.path)
    BY <1>3, <2>2, <2>3 DEF Calm
  <2>5. QED
    BY <1>1, <1>3, <2>1, <2>4, FitKept, InspectsKept
<1>4. ASSUME Calm, NEW c \in ToSet(candidates)
      PROVE  Untouched(c.path)' => Fit(Offer(c))' /\ InPlace(c.path)' /\ Inspects(Offer(c))'
  BY <1>2, <1>3, <1>4 DEF PlanFits
<1>5. CASE Plan
  <2>1. Planner /\ Calm
    BY <1>5, PlanIsPlanner, PlannerCalm
  <2>2. ASSUME PushCandidate, candidates' # candidates
        PROVE  \E o \in offers : Inspects(o) /\ candidates' = Append(candidates, Candidate(o))
    <3> DEFINE p == First({o.path : o \in offers})
               o == CHOOSE x \in offers : x.path = p
    <3>1. {x.path : x \in offers} \in SUBSET All /\ {x.path : x \in offers} # {}
      BY <1>2, <2>2 DEF PushCandidate, Offers
    <3>2. p \in {x.path : x \in offers}
      BY <1>2, <3>1, FirstIsMember
    <3>3. o \in offers
      BY <3>2
    <3>4. Inspects(o) /\ candidates' = Append(candidates, Candidate(o))
      BY <2>2 DEF PushCandidate, result
    <3>5. QED
      BY <3>3, <3>4
  <2>3. CASE PushCandidate /\ candidates' # candidates
    <3>1. PICK o \in offers : Inspects(o) /\ candidates' = Append(candidates, Candidate(o))
      BY <2>2, <2>3
    <3>2. /\ Candidate(o) \in Candidates /\ Candidate(o).path = o.path
          /\ Offer(Candidate(o)) = o
      BY <1>2, CandidateFacts
    <3>3. ToSet(candidates') = ToSet(candidates) \cup {Candidate(o)}
      BY <1>2, <3>1, <3>2, Appended
    <3>4. PICK c \in Candidates : c = Candidate(o) /\ c.path = o.path /\ Offer(c) = o
      BY <3>2
    <3>5. Untouched(c.path) => Fit(Offer(c)) /\ InPlace(c.path) /\ Inspects(Offer(c))
      BY <3>1, <3>4 DEF OffersFit, Inspects
    <3>6. Untouched(c.path)' => Fit(Offer(c))' /\ InPlace(c.path)' /\ Inspects(Offer(c))'
      BY <1>3, <2>1, <3>5
    <3>7. ToSet(candidates)' = ToSet(candidates) \cup {c}
      BY <3>3, <3>4
    <3>8. QED
      BY <1>4, <2>1, <3>6, <3>7 DEF PlanFits
  <2>4. CASE ToSet(candidates') \subseteq ToSet(candidates)
    <3>1. ToSet(candidates)' \subseteq ToSet(candidates)
      BY <2>4
    <3>2. QED
      BY <1>4, <2>1, <3>1 DEF PlanFits
  <2>5. CASE SortPlan
    BY <2>4, <2>5, TidiedFacts DEF SortPlan
  <2>6. candidates' = candidates \/ (PushCandidate /\ candidates' # candidates) \/ SortPlan
    BY <1>5 DEF Plan, StartPlan, Pushed, AuthenticateRoots, WalkDone,
                NextRepository, RepositoriesDone, ProjectsDone, VisitDirectory, VisitProject, result
  <2>7. QED
    BY <2>3, <2>4, <2>5, <2>6
<1>6. ASSUME NEW p \in All, UserActs(p)
      PROVE  PlanFits'
  <2>1. candidates' = candidates /\ (pc = "start" => ToSet(candidates) = {})
    BY <1>6, UserChanges, UserKeeps DEF StartsEmpty, ToSet
  <2>2. pc # "start" => Calm
    BY <1>6, UserCalm
  <2>3. ToSet(candidates)' = ToSet(candidates)
    BY <2>1
  <2>4. QED
    BY <1>4, <2>1, <2>2, <2>3 DEF PlanFits
<1>7. QED
  BY <1>5, <1>6, NextSteps

----------------------------------------------------------------------------
(* Nothing is forgotten.                                                   *)

\* The next directory on the way to one that lies in place.
LEMMA NextOnTheWay ==
    ASSUME TypeInv, NEW f \in frontier, NEW d \in dirs, NEW p \in All, InPlace(p),
           IsPrefix(f.path, d), f.path # d, IsPrefix(d, p), NEW X,
           Names(f.base, d) \cap X = {}, Len(d) - Len(f.base) <= MaxDepth
    PROVE  f.path \in dirs /\ \E e \in Children(f, X) : e.base = f.base /\ IsPrefix(e.path, d)
<1>1. /\ layout \in Layouts /\ dirs \subseteq All /\ away \subseteq All
      /\ f.base \in All /\ f.path \in All /\ IsPrefix(f.base, f.path) /\ d \in All
  BY FrontierType DEF TypeInv, PlanTypeOK
<1>2. /\ f.base \in Seq(Words) /\ f.path \in Seq(Words) /\ d \in Seq(Words) /\ p \in Seq(Words)
      /\ \A n \in 1 .. Len(d) : SubSeq(d, 1, n) \in All
  BY <1>1, Directories
<1> DEFINE q == SubSeq(d, 1, Len(f.path) + 1)
<1>3. /\ Len(f.path) + 1 \in 1 .. Len(d) /\ q \in Seq(Words) /\ Len(q) = Len(f.path) + 1
      /\ IsPrefix(f.path, q) /\ IsPrefix(q, d) /\ Last(q) = d[Len(f.path) + 1]
  BY <1>2, StepTowards
<1>4. q \in All
  BY <1>2, <1>3
<1> HIDE DEF q
<1>5. f.path \in dirs /\ q \in dirs
  BY <1>1, <1>3, <1>4 DEF TypeInv, DirsClosed
<1>6. q \notin away
  <2>1. IsPrefix(q, p)
    BY <1>2, <1>3, PrefixOfPrefix
  <2>2. QED
    BY <2>1 DEF InPlace
<1>7. Last(q) \notin X
  <2>1. Len(f.base) <= Len(f.path) /\ Len(f.base) \in Nat /\ Len(f.path) \in Nat /\ Len(d) \in Nat
    BY <1>1, <1>2, PrefixNames
  <2>2. Len(f.path) + 1 \in Len(f.base) + 1 .. Len(d)
    BY <1>3, <2>1
  <2>3. d[Len(f.path) + 1] \in Names(f.base, d)
    BY <1>2, <2>2, NamesOnTheWay
  <2>4. QED
    BY <1>3, <2>3
<1>8. Len(q) - Len(f.base) <= MaxDepth
  <2>1. Len(q) \in Nat /\ Len(d) \in Nat /\ Len(f.base) \in Nat /\ Len(q) <= Len(d)
    BY <1>2, <1>3, PrefixNames
  <2>2. QED
    BY <2>1, LimitAssumption
<1>9. Entry(f.base, q) \in Children(f, X)
  BY <1>3, <1>5, <1>6, <1>7, <1>8 DEF Children
<1>10. Entry(f.base, q).base = f.base /\ Entry(f.base, q).path = q
  BY DEF Entry
<1>11. QED
  BY <1>3, <1>5, <1>9, <1>10

\* What is due is in a repository that lies where it is looked for.
LEMMA DueFacts ==
    ASSUME TypeInv, NEW o \in Offers, Due(o)
    PROVE  /\ o.path \in dirs /\ o.path \in All
           /\ o.repo = None => o.kind = "Cache" /\ o.path \in GlobalCaches
           /\ o.repo # None =>
                /\ GoodRepo(o.repo) /\ o.repo \in All
                /\ \/ /\ o.kind = "ProjectCache" /\ Front(o.path) = o.repo
                      /\ Last(o.path) \in RepoCaches
                   \/ /\ o.kind # "ProjectCache" /\ Front(o.path) \in ProjectsOf(o.repo)
                      /\ o \in OffersOf(Front(o.path), o.repo)
<1>1. Fit(o) /\ InPlace(o.path) /\ o.path \in All
  BY OfferWay DEF Due
<1>2. \A r : GoodRepo(r) => r \in All /\ r # None
  BY GoodRepoFacts
<1>3. ASSUME GoodRepo(o.repo), Front(o.path) \in ProjectsOf(o.repo),
             o \in OffersOf(Front(o.path), o.repo)
      PROVE  o.kind # "ProjectCache"
  <2>1. Front(o.path) \in All /\ o.repo \in All
    BY <1>2, <1>3 DEF ProjectsOf, ProjectPlaces, Below
  <2>2. QED
    BY <1>3, <2>1, OffersOfFacts
<1>4. QED
  BY <1>1, <1>2, <1>3 DEF Fit, InPlace

\* What was due before, and what has been handled.
LEMMA DueBefore ==
    ASSUME TypeInv, TypeInv', Calm, NEW o \in Offers, Due(o)'
    PROVE  /\ Due(o) /\ (Inspects(o)' <=> Inspects(o))
<1>1. o.path \in All /\ layout' = layout /\ All' = All
  BY OfferWay DEF Calm, All
<1>2. Untouched(o.path) /\ Steady(o.path)
  BY <1>1 DEF Due, Calm
<1>3. /\ Fit(o)' <=> Fit(o)
      /\ Inspects(o)' <=> Inspects(o)
      /\ InPlace(o.path)' <=> InPlace(o.path)
  BY <1>1, <1>2, FitKept, InspectsKept
<1>4. ProjectPlaces(o.repo)' = ProjectPlaces(o.repo)
  BY <1>1 DEF ProjectPlaces, Below
<1>5. QED
  BY <1>2, <1>3, <1>4 DEF Due

\* What is planned or skipped stays so.
LEMMA HandledKept ==
    ASSUME TypeInv, NEW o \in Offers, Inspects(o)' <=> Inspects(o), Handled(o),
           \A c \in ToSet(candidates) : \E d \in ToSet(candidates') : d.path = c.path,
           skips \subseteq skips'
    PROVE  Handled(o)'
<1>1. CASE Inspects(o)
  <2>1. PICK c \in ToSet(candidates) : o.path = c.path
    BY <1>1 DEF Handled
  <2>2. PICK d \in ToSet(candidates') : d.path = o.path
    BY <2>1
  <2>3. d \in ToSet(candidates)'
    BY <2>2
  <2>4. QED
    BY <1>1, <2>2, <2>3 DEF Handled
<1>2. CASE ~Inspects(o)
  BY <1>2 DEF Handled
<1>3. QED
  BY <1>1, <1>2

\* No path leaves the plan, and no skip is taken back.
LEMMA PlanKeepsPaths ==
    ASSUME TypeInv, Plan
    PROVE  /\ \A c \in ToSet(candidates) : \E d \in ToSet(candidates') : d.path = c.path
           /\ skips \subseteq skips'
<1>1. skips \subseteq skips'
  BY DEF Plan, StartPlan, PushCandidate, Pushed, AuthenticateRoots, WalkDone,
         NextRepository, RepositoriesDone, ProjectsDone, SortPlan, VisitDirectory, VisitProject,
         result
<1>2. CASE ToSet(candidates) \subseteq ToSet(candidates')
  BY <1>1, <1>2
<1>3. CASE SortPlan
  BY <1>1, <1>3, TidiedFacts DEF SortPlan
<1>4. CASE PushCandidate /\ candidates' # candidates
  <2>1. \E c : candidates' = Append(candidates, c)
    BY <1>4 DEF PushCandidate, result
  <2>2. PICK c : candidates' = Append(candidates, c)
    BY <2>1
  <2> DEFINE S == Candidates \cup {c}
  <2>3. candidates \in Seq(S) /\ c \in S
    <3>1. candidates \in Seq(Candidates) /\ Candidates \subseteq S
      BY DEF TypeInv
    <3> HIDE DEF S
    <3>2. candidates \in Seq(S)
      BY <3>1
    <3>3. QED
      BY <3>2 DEF S
  <2>4. ToSet(candidates') = ToSet(candidates) \cup {c}
    BY <2>2, <2>3, Appended
  <2>5. QED
    BY <1>2, <2>4
<1>5. candidates' = candidates \/ (PushCandidate /\ candidates' # candidates) \/ SortPlan
  BY DEF Plan, StartPlan, Pushed, AuthenticateRoots, WalkDone,
         NextRepository, RepositoriesDone, ProjectsDone, VisitDirectory, VisitProject, result
<1>6. QED
  BY <1>2, <1>3, <1>4, <1>5

\* What is ahead of a candidate, action by action.
LEMMA AheadPush ==
    ASSUME TypeInv, PushCandidate, NEW o \in Offers, Due(o), Ahead(o)
    PROVE  Ahead(o)' \/ Handled(o)'
<1> DEFINE p == First({x.path : x \in offers})
           c == CHOOSE x \in offers : x.path = p
<1>1. /\ pc = "push" /\ offers' = offers \ {c} /\ UNCHANGED <<pc, frontier, repos, repo, projects>>
      /\ UNCHANGED <<layout, dirs, away, stamp, used, touched>>
  BY DEF PushCandidate, Planner, disk
<1>2. CASE c = o /\ o \in offers
  <2>1. p = o.path
    <3>1. {x.path : x \in offers} \in SUBSET All /\ {x.path : x \in offers} # {}
      BY <1>2, OfferWay DEF TypeInv
    <3>2. p \in {x.path : x \in offers}
      BY <3>1, FirstIsMember DEF TypeInv, PlanTypeOK
    <3>3. QED
      BY <1>2, <3>2
  <2>2. o.path \in dirs
    BY DueFacts
  <2>3. IF Inspects(o) THEN candidates' = Append(candidates, Candidate(o)) ELSE skips' = skips \cup {o.path}
    BY <1>2, <2>1, <2>2 DEF PushCandidate
  <2>4. Inspects(o)' <=> Inspects(o)
    BY <1>1 DEF Inspects, InPlace, ValidateContext, ValidateGitState, FindLockfile, Holds, All
  <2> HIDE DEF c, p
  <2>5. CASE Inspects(o)
    <3>1. Shaped(o) /\ candidates \in Seq(Candidates)
      BY <1>2 DEF TypeInv
    <3>2. /\ Candidate(o) \in Candidates /\ Candidate(o).path = o.path
          /\ Candidate(o).stamp = stamp[o.path] /\ Offer(Candidate(o)) = o
          /\ Shaped(Candidate(o))
      BY <3>1, CandidateFacts
    <3>3. ToSet(candidates') = ToSet(candidates) \cup {Candidate(o)}
      <4>1. candidates' = Append(candidates, Candidate(o))
        BY <2>3, <2>5
      <4>2. QED
        BY <3>1, <3>2, <4>1, Appended
    <3>4. ToSet(candidates)' = ToSet(candidates')
      OBVIOUS
    <3>5. QED
      BY <2>4, <2>5, <3>2, <3>3, <3>4 DEF Handled
  <2>6. CASE ~Inspects(o)
    BY <2>3, <2>4, <2>6 DEF Handled
  <2>7. QED
    BY <2>5, <2>6
<1>3. CASE ~(c = o /\ o \in offers)
  <2> HIDE DEF c
  <2>1. o \in offers => o \in offers'
    BY <1>1, <1>3
  <2>2. Ahead(o)'
    BY <1>1, <2>1 DEF Ahead, RepoAhead, ProjectAhead
  <2>3. QED
    BY <2>2
<1>4. QED
  BY <1>2, <1>3

\* Every repository in its place is below one of the roots a walk begins with.
LEMMA AheadRoots ==
    ASSUME TypeInv, AuthenticateRoots, NEW o \in Offers, Due(o), Ahead(o)
    PROVE  Ahead(o)'
<1>1. pc = "roots" /\ UNCHANGED layout /\ layout \in Layouts
  BY DEF AuthenticateRoots, Planner, TypeInv, PlanTypeOK
<1>2. o.repo # None
  BY <1>1 DEF Ahead
<1>3. CASE pc' = "failed"
  BY <1>3 DEF Ahead
<1>4. CASE pc' = "walk" /\ frontier' = {Entry(r, r) : r \in layout.roots}
  <2>1. GoodRepo(o.repo) /\ o.repo \in All
    BY <1>2, DueFacts
  <2>2. PICK root \in layout.roots :
          /\ IsPrefix(root, o.repo) /\ Len(o.repo) <= Len(root) + MaxDepth
          /\ Names(root, o.repo) \cap NotScanned = {}
    BY <2>1 DEF GoodRepo, IsRepository
  <2>3. Reached(root, o.repo)'
    BY <1>1, <2>2 DEF Reached
  <2>4. /\ Entry(root, root) \in frontier'
        /\ Entry(root, root).base = root /\ Entry(root, root).path = root
    BY <1>4 DEF Entry
  <2>5. RepoAhead(o.repo)'
    BY <1>4, <2>2, <2>3, <2>4 DEF RepoAhead
  <2>6. QED
    BY <1>2, <2>5 DEF Ahead
<1>5. QED
  BY <1>3, <1>4 DEF AuthenticateRoots

\* A directory that is read is passed on: it is a repository, or the next one
\* on the way to it is read.
LEMMA AheadWalk ==
    ASSUME TypeInv, NEW f \in frontier, VisitDirectory(f), NEW o \in Offers, Due(o), Ahead(o)
    PROVE  Ahead(o)'
<1> DEFINE r == o.repo
<1>1. /\ pc = "walk" /\ pc' = "walk" /\ UNCHANGED layout /\ layout \in Layouts
      /\ dirs \subseteq All
      /\ frontier' = (frontier \ {f}) \cup IF f.path \in dirs THEN Children(f, NotScanned) ELSE {}
  BY DEF VisitDirectory, Planner, TypeInv, PlanTypeOK
<1>2. r # None /\ RepoAhead(r)
  BY <1>1 DEF Ahead, ProjectAhead
<1>3. GoodRepo(r) /\ r \in All
  BY <1>2, DueFacts
<1>4. InPlace(r) /\ r \in dirs /\ r \in DOMAIN layout.git /\ layout.git[r].marker
  BY <1>3 DEF GoodRepo, IsRepository, InPlace
<1> HIDE DEF r
<1>5. SUFFICES RepoAhead(r)'
  BY <1>2 DEF Ahead, r
<1>6. repos \subseteq repos'
  BY DEF VisitDirectory
<1>7. CASE r \in repos
  BY <1>1, <1>6, <1>7 DEF RepoAhead
<1>8. ASSUME NEW g \in frontier, IsPrefix(g.path, r), Reached(g.base, r)
      PROVE  RepoAhead(r)'
  <2>1. Reached(g.base, r)'
    BY <1>1, <1>8 DEF Reached
  <2>2. CASE g # f
    <3>1. g \in frontier'
      BY <1>1, <2>2
    <3>2. QED
      BY <1>1, <1>8, <2>1, <3>1 DEF RepoAhead
  <2>3. CASE g = f /\ f.path = r
    <3>1. r \in repos'
      BY <1>4, <2>3 DEF VisitDirectory, Authentic
    <3>2. QED
      BY <1>1, <3>1 DEF RepoAhead
  <2>4. CASE g = f /\ f.path # r
    <3>1. Len(r) - Len(f.base) <= MaxDepth /\ Names(f.base, r) \cap NotScanned = {}
      <4>1. Len(r) <= Len(f.base) + MaxDepth /\ Names(f.base, r) \cap NotScanned = {}
        BY <1>8, <2>4 DEF Reached
      <4>2. Len(r) \in Nat /\ Len(f.base) \in Nat
        BY <1>1, <1>3, FrontierType, Directories
      <4>3. QED
        BY <4>1, <4>2, LimitAssumption
    <3>2. IsPrefix(r, r)
      BY <1>1, <1>3, Directories, PrefixItself
    <3>3. f.path \in dirs /\ \E e \in Children(f, NotScanned) : e.base = f.base /\ IsPrefix(e.path, r)
      BY <1>3, <1>4, <1>8, <2>4, <3>1, <3>2, NextOnTheWay
    <3>4. PICK e \in frontier' : e.base = f.base /\ IsPrefix(e.path, r)
      BY <1>1, <3>3
    <3>5. QED
      BY <1>1, <2>1, <2>4, <3>4 DEF RepoAhead
  <2>5. QED
    BY <2>2, <2>3, <2>4
<1>9. QED
  BY <1>1, <1>2, <1>7, <1>8 DEF RepoAhead

\* A repository that is taken up offers its caches and begins the walk to its projects.
LEMMA AheadRepository ==
    ASSUME TypeInv, NextRepository, NEW o \in Offers, Due(o), Ahead(o)
    PROVE  Ahead(o)'
<1> DEFINE r == First(repos)
<1>1. /\ pc = "repos" /\ repos' = repos \ {r} /\ repos # {} /\ layout' = layout
      /\ layout \in Layouts /\ repos \subseteq All /\ All' = All
  BY DEF NextRepository, Planner, TypeInv, PlanTypeOK, All
<1>2. o.repo # None /\ o.repo \in repos
  BY <1>1 DEF Ahead, RepoAhead, ProjectAhead
<1>3. GoodRepo(o.repo) /\ o.repo \in All
  BY <1>2, DueFacts
<1>4. r \in repos
  BY <1>1, FirstIsMember
<1>5. pc' \in {"repos", "push"}
  BY <1>1 DEF NextRepository
<1>6. CASE o.repo # r
  <2> HIDE DEF r
  <2>1. RepoAhead(o.repo)'
    BY <1>1, <1>2, <1>5, <1>6 DEF RepoAhead
  <2>2. QED
    BY <1>2, <2>1 DEF Ahead
<1>7. CASE o.repo = r
  <2>1. ~SkipQuarantined(r)
    BY <1>3, <1>7 DEF GoodRepo, SkipQuarantined, IsGuardQuarantinePath
  <2>2. /\ pc' = "push" /\ repo' = r /\ frontier' = {Entry(r, r)}
        /\ offers' = {[path |-> Append(r, n), kind |-> "ProjectCache", repo |-> r] :
                        n \in {x \in RepoCaches : Append(r, x) \in All}}
    BY <2>1 DEF NextRepository
  <2> HIDE DEF r
  <2>3. CASE o.kind = "ProjectCache" /\ Front(o.path) = o.repo /\ Last(o.path) \in RepoCaches
    <3>1. o = [path |-> o.path, kind |-> o.kind, repo |-> o.repo] /\ o.path \in All
      BY OfferWay
    <3>2. o.path = Append(r, Last(o.path))
      BY <1>1, <1>7, <2>3, <3>1, Directories, ParentOf
    <3>3. o \in offers'
      BY <1>7, <2>2, <2>3, <3>1, <3>2
    <3>4. QED
      BY <2>2, <3>3 DEF Ahead
  <2>4. CASE o.kind # "ProjectCache" /\ Front(o.path) \in ProjectsOf(o.repo)
    <3>1. IsPrefix(r, Front(o.path))
      BY <1>7, <2>4 DEF ProjectsOf, ProjectPlaces, Below
    <3>2. PICK e \in frontier' : e.path = r
      BY <2>2 DEF Entry
    <3>3. ProjectAhead(o)'
      BY <1>7, <2>2, <2>4, <3>1, <3>2 DEF ProjectAhead
    <3>4. QED
      BY <1>2, <3>3 DEF Ahead
  <2>5. QED
    BY <1>2, <2>3, <2>4, DueFacts
<1>8. QED
  BY <1>6, <1>7

\* And there the same: it is a project, or the next directory on the way to it is read.
LEMMA AheadProject ==
    ASSUME TypeInv, WalksStay, NEW f \in frontier, VisitProject(f),
           NEW o \in Offers, Due(o), Ahead(o)
    PROVE  Ahead(o)'
<1> DEFINE d == Front(o.path)
<1>1. /\ pc = "projects" /\ pc' = "projects" /\ layout \in Layouts /\ dirs \subseteq All
      /\ UNCHANGED <<repos, repo, offers>> /\ repo # None /\ repo \in All \cup {None}
      /\ frontier' = (frontier \ {f}) \cup IF f.path \in dirs THEN Children(f, NotProjects) ELSE {}
      /\ projects \subseteq projects'
      /\ f.path = d /\ HasManifest(d) => d \in projects'
      /\ f.base = repo
  BY DEF VisitProject, TypeInv, PlanTypeOK, WalksStay
<1>2. o.repo # None /\ (RepoAhead(o.repo) \/ ProjectAhead(o))
  BY <1>1 DEF Ahead
<1>3. CASE RepoAhead(o.repo)
  <2>1. RepoAhead(o.repo)'
    BY <1>1, <1>3 DEF RepoAhead
  <2>2. QED
    BY <1>2, <2>1 DEF Ahead
<1>4. ASSUME ProjectAhead(o)
      PROVE  ProjectAhead(o)'
  <2>1. repo = o.repo /\ o.kind # "ProjectCache"
    BY <1>4 DEF ProjectAhead
  <2>2. d \in ProjectsOf(repo)
    BY <1>2, <2>1, DueFacts
  <2>3. /\ d \in dirs /\ IsPrefix(repo, d) /\ Len(d) < Len(repo) + MaxDepth /\ d \in All
        /\ Names(repo, d) \cap NotProjects = {} /\ layout.files[d] \cap Manifests # {}
    BY <2>2 DEF ProjectsOf, ProjectPlaces, Below
  <2>4. Len(d) \in Nat /\ Len(repo) \in Nat
    BY <1>1, <2>3, Directories
  <2>5. IsPrefix(d, o.path) /\ o.path \in All /\ InPlace(o.path)
    BY OfferWay DEF Due
  <2> HIDE DEF d
  <2>6. CASE d \in projects
    BY <1>1, <2>1, <2>6 DEF ProjectAhead, d
  <2>7. ASSUME NEW g \in frontier, IsPrefix(g.path, d)
        PROVE  ProjectAhead(o)'
    <3>1. CASE g # f
      <4>1. g \in frontier'
        BY <1>1, <3>1
      <4>2. QED
        BY <1>1, <2>1, <2>7, <4>1 DEF ProjectAhead, d
    <3>2. CASE g = f /\ f.path = d
      <4>1. HasManifest(d)
        BY <2>3, <2>4, LimitAssumption DEF HasManifest, Holds
      <4>2. QED
        BY <1>1, <2>1, <3>2, <4>1 DEF ProjectAhead, d
    <3>3. CASE g = f /\ f.path # d
      <4>1. Len(d) - Len(f.base) <= MaxDepth
        BY <1>1, <2>3, <2>4, LimitAssumption
      <4>2. f.path \in dirs /\ \E e \in Children(f, NotProjects) : e.base = f.base /\ IsPrefix(e.path, d)
        BY <1>1, <2>3, <2>5, <2>7, <3>3, <4>1, NextOnTheWay
      <4>3. PICK e \in frontier' : IsPrefix(e.path, d)
        BY <1>1, <4>2
      <4>4. QED
        BY <1>1, <2>1, <4>3 DEF ProjectAhead, d
    <3>4. QED
      BY <3>1, <3>2, <3>3
  <2>8. QED
    BY <1>1, <1>4, <2>6, <2>7 DEF ProjectAhead, d
<1>5. QED
  BY <1>2, <1>3, <1>4 DEF Ahead

\* No project of a repository that may not have too many is cut off.
LEMMA AllTaken ==
    ASSUME TypeInv, ProjectsFound, NEW d \in projects,
           Cardinality(ProjectPlaces(repo)) <= MaxProjects
    PROVE  Cardinality({e \in projects : Order[e] < Order[d]}) < MaxProjects
<1> DEFINE P == ProjectPlaces(repo)
           E == {e \in projects : Order[e] < Order[d]}
<1>1. /\ layout \in Layouts /\ projects \subseteq All
  BY DEF TypeInv, PlanTypeOK
<1>2. IsFiniteSet(All) /\ P \subseteq All /\ projects \subseteq P
  BY <1>1, Directories DEF ProjectPlaces, Below, ProjectsFound
<1>3. IsFiniteSet(P) /\ d \in P
  BY <1>2, FS_Subset
<1>4. IsFiniteSet(P \ {d}) /\ Cardinality(P \ {d}) = Cardinality(P) - 1 /\ Cardinality(P) \in Nat
  BY <1>3, FS_RemoveElement, FS_CardinalityType
<1>5. Order[d] \in Nat
  BY <1>1, Directories, OrderAssumption
<1>6. E \subseteq P \ {d}
  BY <1>2, <1>5
<1>7. Cardinality(E) <= Cardinality(P \ {d}) /\ Cardinality(E) \in Nat
  BY <1>4, <1>6, FS_Subset, FS_CardinalityType
<1>8. QED
  BY <1>4, <1>7, LimitAssumption

\* So when the walk is over the projects are found, and offer what they have.
LEMMA AheadProjects ==
    ASSUME TypeInv, ProjectsFound, ProjectsDone, NEW o \in Offers, Due(o), Ahead(o)
    PROVE  Ahead(o)'
<1>1. /\ pc = "projects" /\ pc' = "push" /\ frontier = {} /\ repo # None
      /\ UNCHANGED <<repos, repo, projects>>
  BY DEF ProjectsDone, TypeInv
<1>2. o.repo # None /\ (RepoAhead(o.repo) \/ ProjectAhead(o))
  BY <1>1 DEF Ahead
<1>3. CASE RepoAhead(o.repo)
  <2>1. RepoAhead(o.repo)'
    BY <1>1, <1>3 DEF RepoAhead
  <2>2. QED
    BY <1>2, <2>1 DEF Ahead
<1>4. CASE ProjectAhead(o)
  <2>1. repo = o.repo /\ o.kind # "ProjectCache" /\ Front(o.path) \in projects
    BY <1>1, <1>4 DEF ProjectAhead
  <2>2. o \in OffersOf(Front(o.path), repo)
    BY <1>2, <2>1, DueFacts
  <2>3. Cardinality(ProjectPlaces(repo)) <= MaxProjects
    BY <1>2, <2>1 DEF Due
  <2>4. Cardinality({e \in projects : Order[e] < Order[Front(o.path)]}) < MaxProjects
    BY <2>1, <2>3, AllTaken
  <2>5. o \in offers'
    BY <2>1, <2>2, <2>4 DEF ProjectsDone
  <2>6. QED
    BY <1>1, <2>5 DEF Ahead
<1>5. QED
  BY <1>2, <1>3, <1>4

\* The other steps go on only when nothing is left behind.
LEMMA AheadRest ==
    ASSUME TypeInv, NEW o \in Offers, Due(o), Ahead(o),
           Pushed \/ WalkDone \/ RepositoriesDone \/ SortPlan
    PROVE  Ahead(o)'
<1>1. CASE Pushed
  <2>1. /\ pc = "push" /\ offers = {} /\ UNCHANGED <<frontier, repos, repo, projects>>
        /\ pc' = IF repo = None THEN "roots" ELSE IF frontier = {} THEN "repos" ELSE "projects"
    BY <1>1 DEF Pushed, found
  <2>2. o.repo # None /\ (RepoAhead(o.repo) \/ ProjectAhead(o))
    BY <2>1 DEF Ahead
  <2>3. RepoAhead(o.repo)' \/ ProjectAhead(o)'
    BY <2>1, <2>2 DEF RepoAhead, ProjectAhead
  <2>4. QED
    BY <2>2, <2>3 DEF Ahead
<1>2. CASE WalkDone
  BY <1>2 DEF WalkDone, found, Ahead, RepoAhead, ProjectAhead
<1>3. CASE RepositoriesDone
  BY <1>3 DEF RepositoriesDone, Ahead, RepoAhead, ProjectAhead
<1>4. CASE SortPlan
  BY <1>4 DEF SortPlan, Ahead, RepoAhead, ProjectAhead
<1>5. QED
  BY <1>1, <1>2, <1>3, <1>4

\* The plan begins with the caches of the home directory, and everything else is ahead.
LEMMA AheadStart ==
    ASSUME TypeInv, StartsEmpty, StartPlan, NEW o \in Offers, Due(o)
    PROVE  Ahead(o)'
<1>1. pc = "start" /\ pc' = "push" /\ repo = None /\ repo' = None
  BY DEF StartPlan, StartsEmpty
<1>2. CASE o.repo = None
  <2>1. o.kind = "Cache" /\ o.path \in GlobalCaches
    BY <1>2, DueFacts
  <2>2. o = [path |-> o.path, kind |-> o.kind, repo |-> o.repo] /\ o.path \in All
    BY OfferWay
  <2>3. o \in offers'
    BY <1>2, <2>1, <2>2 DEF StartPlan
  <2>4. QED
    BY <1>1, <2>3 DEF Ahead
<1>3. CASE o.repo # None
  BY <1>1, <1>3 DEF Ahead, RepoAhead
<1>4. QED
  BY <1>2, <1>3

\* What is due is ahead, planned or skipped.
LEMMA NothingForgottenKept ==
    ASSUME TypeInv, StartsEmpty, WalksStay, ProjectsFound, NothingForgotten, PlanNext
    PROVE  NothingForgotten'
<1>1. TypeInv' /\ layout' = layout /\ Offers' = Offers
  BY NextType DEF Offers, All
<1>2. SUFFICES ASSUME NEW o \in Offers, Due(o)' PROVE Ahead(o)' \/ Handled(o)'
  BY <1>1 DEF NothingForgotten
<1>3. CASE Plan
  <2>1. Calm
    BY <1>3, PlanIsPlanner, PlannerCalm
  <2>2. Due(o) /\ (Inspects(o)' <=> Inspects(o))
    BY <1>1, <1>2, <2>1, DueBefore
  <2>3. CASE Handled(o)
    BY <1>3, <2>2, <2>3, PlanKeepsPaths, HandledKept
  <2>4. CASE Ahead(o)
    <3>1. CASE StartPlan
      BY <2>2, <3>1, AheadStart
    <3>2. CASE PushCandidate
      BY <2>2, <2>4, <3>2, AheadPush
    <3>3. CASE AuthenticateRoots
      BY <2>2, <2>4, <3>3, AheadRoots
    <3>4. CASE NextRepository
      BY <2>2, <2>4, <3>4, AheadRepository
    <3>5. CASE ProjectsDone
      BY <2>2, <2>4, <3>5, AheadProjects
    <3>6. CASE Pushed \/ WalkDone \/ RepositoriesDone \/ SortPlan
      BY <2>2, <2>4, <3>6, AheadRest
    <3>7. ASSUME NEW f \in frontier, VisitDirectory(f) \/ VisitProject(f)
          PROVE  Ahead(o)'
      BY <2>2, <2>4, <3>7, AheadWalk, AheadProject
    <3>8. QED
      BY <1>3, <3>1, <3>2, <3>3, <3>4, <3>5, <3>6, <3>7 DEF Plan
  <2>5. QED
    BY <2>2, <2>3, <2>4 DEF NothingForgotten
<1>4. ASSUME NEW p \in All, UserActs(p)
      PROVE  Ahead(o)' \/ Handled(o)'
  <2>1. UNCHANGED <<layout, pc, frontier, repos, repo, projects, offers, candidates, skips>>
    BY <1>4, UserChanges, UserKeeps
  <2>2. CASE pc = "start"
    BY <2>1, <2>2 DEF Ahead
  <2>3. CASE pc # "start"
    <3>1. Calm
      BY <1>4, <2>3, UserCalm
    <3>2. Due(o) /\ (Inspects(o)' <=> Inspects(o))
      BY <1>1, <1>2, <3>1, DueBefore
    <3>3. CASE Handled(o)
      BY <2>1, <3>2, <3>3, HandledKept
    <3>4. CASE Ahead(o)
      BY <2>1, <3>4 DEF Ahead, RepoAhead, ProjectAhead, Reached
    <3>5. QED
      BY <3>2, <3>3, <3>4 DEF NothingForgotten
  <2>4. QED
    BY <2>2, <2>3
<1>5. QED
  BY <1>3, <1>4, NextSteps

----------------------------------------------------------------------------
PlanInv ==
    /\ TypeInv /\ StartsEmpty /\ WalksStay /\ ReposFound /\ RepoFound /\ ProjectsFound
    /\ OffersFit /\ PlanFits /\ NothingForgotten /\ PlannedOnce

\* The plan is sorted and without neighbours once it is made, and never changed again.
LEMMA PlannedOnceKept ==
    ASSUME TypeInv, PlannedOnce, PlanNext
    PROVE  PlannedOnce'
<1>1. CASE SortPlan
  <2>1. candidates' = Tidied(candidates)
    BY <1>1 DEF SortPlan
  <2>2. QED
    BY <2>1, TidiedFacts DEF PlannedOnce
<1>2. CASE Plan /\ ~SortPlan
  <2>1. pc' # "done"
    BY <1>2 DEF Plan, StartPlan, PushCandidate, Pushed, AuthenticateRoots, WalkDone,
                NextRepository, RepositoriesDone, ProjectsDone, VisitDirectory, VisitProject
  <2>2. QED
    BY <2>1 DEF PlannedOnce
<1>3. ASSUME NEW p \in All, UserActs(p)
      PROVE  PlannedOnce'
  BY <1>3, UserChanges, UserKeeps DEF PlannedOnce
<1>4. QED
  BY <1>1, <1>2, <1>3, NextSteps

\* The invariant holds at the beginning,
LEMMA PlanInvInit == PlanInit => PlanInv
<1> SUFFICES ASSUME PlanInit PROVE PlanInv
  OBVIOUS
<1>1. TypeInv
  BY InitType
<1>2. /\ pc = "start" /\ frontier = {} /\ repos = {} /\ repo = None /\ projects = {}
      /\ offers = {} /\ candidates = <<>> /\ touched = {} /\ ToSet(candidates) = {}
  BY DEF PlanInit, ToSet
<1>3. QED
  BY <1>1, <1>2
     DEF PlanInv, StartsEmpty, WalksStay, ReposFound, RepoFound, ProjectsFound, OffersFit,
         PlanFits, NothingForgotten, Ahead, PlannedOnce

\* while nothing happens,
LEMMA PlanInvStutters ==
    ASSUME PlanInv, UNCHANGED planVars
    PROVE  PlanInv'
<1>1. UNCHANGED <<layout, dirs, away, stamp, used, pc, frontier, repos, repo, projects, offers,
                  candidates, skips, touched, steps>>
  BY DEF planVars, disk, found, result
<1>2. TypeInv'
  BY <1>1 DEF PlanInv, TypeInv, PlanTypeOK, Offers, Candidates, DirsClosed, All, Below
<1>3. /\ StartsEmpty' /\ WalksStay' /\ PlannedOnce' /\ RepoFound' /\ ReposFound' /\ ProjectsFound'
  BY <1>1 DEF PlanInv, StartsEmpty, WalksStay, ReposFound, RepoFound, ProjectsFound,
              PlannedOnce, Reached, Untouched, IsRepository, InPlace, ProjectPlaces, Below, All
<1>4. Calm /\ layout' = layout /\ Offers' = Offers
  BY <1>1 DEF Calm, Untouched, Steady, Offers, All
<1>5. ASSUME NEW o \in Offers, Untouched(o.path)'
      PROVE  /\ Fit(o)' <=> Fit(o)
             /\ Inspects(o)' <=> Inspects(o)
             /\ InPlace(o.path)' <=> InPlace(o.path)
             /\ Untouched(o.path)
  <2>1. o.path \in All
    BY OfferWay DEF PlanInv
  <2>2. QED
    BY <1>2, <1>4, <1>5, <2>1, FitKept, InspectsKept DEF PlanInv, Calm
<1>6. OffersFit'
  BY <1>1, <1>5 DEF PlanInv, TypeInv, OffersFit
<1>7. PlanFits'
  <2> SUFFICES ASSUME NEW c \in ToSet(candidates), Untouched(c.path)'
               PROVE  Fit(Offer(c))' /\ InPlace(c.path)' /\ Inspects(Offer(c))'
    BY <1>1 DEF PlanFits, ToSet
  <2>1. c \in Candidates
    BY DEF PlanInv, TypeInv, ToSet
  <2>2. PICK o \in Offers : o = Offer(c) /\ o.path = c.path
    BY <2>1, OfferOfCandidate
  <2>3. QED
    BY <1>5, <2>2 DEF PlanInv, PlanFits
<1>8. NothingForgotten'
  <2> SUFFICES ASSUME NEW o \in Offers, Due(o)' PROVE Ahead(o)' \/ Handled(o)'
    BY <1>4 DEF NothingForgotten
  <2>1. Due(o) /\ (Inspects(o)' <=> Inspects(o))
    BY <1>2, <1>4, DueBefore DEF PlanInv
  <2>2. Ahead(o) \/ Handled(o)
    BY <2>1 DEF PlanInv, NothingForgotten
  <2>3. Ahead(o) => Ahead(o)'
    BY <1>1 DEF Ahead, RepoAhead, ProjectAhead, Reached
  <2>4. Handled(o) => Handled(o)'
    BY <1>1, <2>1, HandledKept DEF PlanInv
  <2>5. QED
    BY <2>2, <2>3, <2>4
<1>9. QED
  BY <1>2, <1>3, <1>6, <1>7, <1>8 DEF PlanInv

\* and after every step,
LEMMA PlanInvKept == PlanInv /\ [PlanNext]_planVars => PlanInv'
<1>1. ASSUME PlanInv, PlanNext PROVE PlanInv'
  <2>1. TypeInv /\ StartsEmpty /\ WalksStay /\ ReposFound /\ RepoFound /\ ProjectsFound
        /\ OffersFit /\ PlanFits /\ NothingForgotten /\ PlannedOnce
    BY <1>1 DEF PlanInv
  <2>2. TypeInv' /\ StartsEmpty' /\ WalksStay' /\ ReposFound' /\ RepoFound' /\ ProjectsFound'
    BY <1>1, <2>1, NextType, StartsEmptyKept, WalksStayKept, ReposFoundKept, RepoFoundKept,
       ProjectsFoundKept
  <2>3. OffersFit' /\ PlanFits' /\ NothingForgotten' /\ PlannedOnce'
    BY <1>1, <2>1, OffersFitKept, PlanFitsKept, NothingForgottenKept, PlannedOnceKept
  <2>4. QED
    BY <2>2, <2>3 DEF PlanInv
<1>2. QED
  BY <1>1, PlanInvStutters

\* so it always holds.
LEMMA PlanInvAlways == PlanSpec => []PlanInv
  BY PlanInvInit, PlanInvKept, PTL DEF PlanSpec

\* The sets and sequences a plan is made in hold only directories of the home
\* directory, and no walk is below its depth.
THEOREM PlanTypeCorrect == PlanSpec => []PlanTypeOK
<1>1. PlanInv => PlanTypeOK
  BY DEF PlanInv, TypeInv
<1>2. QED
  BY <1>1, PlanInvAlways, PTL

\* However often a directory is offered and whatever its repositories are, sorting
\* the plan leaves it in there once for each time it was given (plan_cleanup).
THEOREM OnceCorrect == PlanSpec => []PlannedOnce
<1>1. PlanInv => PlannedOnce
  BY DEF PlanInv
<1>2. QED
  BY <1>1, PlanInvAlways, PTL

\* Whatever the user does while the plan is made, what was not touched is planned
\* only where the definitions of a repository and its projects have it.
THEOREM SoundCorrect == PlanSpec => []PlanIsSound
<1>1. PlanInv => PlanIsSound
  <2> SUFFICES ASSUME PlanInv, NEW c \in ToSet(candidates), Untouched(c.path)
               PROVE  Offer(c) \in Offered /\ InPlace(c.path) /\ Inspects(Offer(c))
    BY DEF PlanIsSound, Offer
  <2>1. TypeInv /\ c \in Candidates
    BY DEF PlanInv, TypeInv, ToSet
  <2>2. Offer(c) \in Offers
    BY <2>1, OfferOfCandidate
  <2>3. Fit(Offer(c)) /\ InPlace(c.path) /\ Inspects(Offer(c))
    BY DEF PlanInv, PlanFits
  <2>4. QED
    BY <2>1, <2>2, <2>3, OfferedIs
<1>2. QED
  BY <1>1, PlanInvAlways, PTL

\* And all of that is planned or refused by its inspection, of every repository
\* that has no more places for projects than are taken.
THEOREM CompleteCorrect == PlanSpec => []PlanIsComplete
<1>1. PlanInv => PlanIsComplete
  <2> SUFFICES ASSUME PlanInv, pc = "done", NEW o \in Offered, InPlace(o.path), Untouched(o.path),
                      o.repo = None \/ Cardinality(ProjectPlaces(o.repo)) <= MaxProjects
               PROVE  Handled(o)
    BY DEF PlanIsComplete, Handled
  <2>1. o \in Offers /\ Fit(o)
    BY OfferedIs DEF PlanInv
  <2>2. Due(o)
    BY <2>1 DEF Due
  <2>3. ~Ahead(o)
    BY DEF Ahead, RepoAhead, ProjectAhead
  <2>4. QED
    BY <2>1, <2>2, <2>3 DEF PlanInv, NothingForgotten
<1>2. QED
  BY <1>1, PlanInvAlways, PTL

----------------------------------------------------------------------------
(* The thresholds, and what is taken of a plan (Selection).                *)

\* percent_cap is a natural number, grows with the percentage and is smaller
\* than the volume.
LEMMA PercentCaps ==
    ASSUME NEW v \in Nat \ {0}
    PROVE  /\ \A k \in {5, 10, 20, 30} : PercentCap(v, k) \in Nat /\ PercentCap(v, k) < v
           /\ PercentCap(v, 5) <= PercentCap(v, 10)
           /\ PercentCap(v, 10) <= PercentCap(v, 20)
           /\ PercentCap(v, 20) <= PercentCap(v, 30)
           /\ v > 1 => PercentCap(v, 30) <= v - 1 /\ PercentCap(v, 20) < v - 1
  BY DEF PercentCap

\* Capping keeps the order of a valid configuration, and the effective
\* thresholds are numbers below the volume.
LEMMA EffectiveFacts ==
    ASSUME NEW v \in Nat \ {0}, NEW c \in Thresholds, ValidDisk(c)
    PROVE  LET t == Effective(c, v) IN
             /\ t \in Thresholds
             /\ t.emergency <= t.critical
             /\ t.critical <= t.pressure
             /\ t.pressure <= t.target
             /\ v > 1 => t.target <= v - 1 /\ t.pressure < v - 1
             /\ PercentCap(v, 20) # PercentCap(v, 30) => t.pressure < t.target
<1>1. /\ c.emergency \in Nat /\ c.critical \in Nat
      /\ c.pressure \in Nat /\ c.target \in Nat
  BY DEF Thresholds
<1>2. /\ PercentCap(v, 5) \in Nat /\ PercentCap(v, 10) \in Nat
      /\ PercentCap(v, 20) \in Nat /\ PercentCap(v, 30) \in Nat
      /\ PercentCap(v, 5) <= PercentCap(v, 10)
      /\ PercentCap(v, 10) <= PercentCap(v, 20)
      /\ PercentCap(v, 20) <= PercentCap(v, 30)
      /\ v > 1 => PercentCap(v, 30) <= v - 1 /\ PercentCap(v, 20) < v - 1
  BY PercentCaps
<1>3. c.emergency < c.critical /\ c.critical < c.pressure /\ c.pressure < c.target
  BY DEF ValidDisk
<1>4. /\ Effective(c, v).emergency = Smaller(c.emergency, PercentCap(v, 5))
      /\ Effective(c, v).critical = Smaller(c.critical, PercentCap(v, 10))
      /\ Effective(c, v).pressure = Smaller(c.pressure, PercentCap(v, 20))
      /\ Effective(c, v).target = Smaller(c.target, PercentCap(v, 30))
  BY DEF Effective
<1>5. Effective(c, v) \in Thresholds
  BY <1>1, <1>2 DEF Effective, Thresholds, Smaller
<1>6. QED
  BY <1>1, <1>2, <1>3, <1>4, <1>5 DEF Smaller

\* Space is needed exactly below the target or at the pressure threshold.
LEMMA NeedFacts ==
    ASSUME NEW v \in Nat \ {0}, NEW c \in Thresholds, ValidDisk(c), NEW f \in Nat
    PROVE  NeedSpace(f, v, c) <=>
             f <= Effective(c, v).pressure \/ f < Effective(c, v).target
<1>1. /\ Effective(c, v) \in Thresholds
      /\ Effective(c, v).emergency <= Effective(c, v).critical
      /\ Effective(c, v).critical <= Effective(c, v).pressure
  BY EffectiveFacts
<1>2. /\ Effective(c, v).emergency \in Nat /\ Effective(c, v).critical \in Nat
      /\ Effective(c, v).pressure \in Nat /\ Effective(c, v).target \in Nat
  BY <1>1 DEF Thresholds
<1>3. Classify(f, v, c) # Healthy <=> f <= Effective(c, v).pressure
  BY <1>1, <1>2 DEF Classify, Healthy
<1>4. QED
  BY <1>3 DEF NeedSpace, BelowTarget

----------------------------------------------------------------------------

\* The volume and its configuration stay valid while the user and the cycles
\* fill and free it.
Validity ==
    /\ config \in Configs /\ total \in Volumes /\ free \in 0 .. total
    /\ size \in [Paths -> Sizes]

LEMMA ValidityInvariant == Spec => []Validity
<1>1. Init => Validity
  BY VolumeAssumption DEF Init, Validity, ValidVolume
<1>2. Validity /\ [Next]_vars => Validity'
  <2> SUFFICES ASSUME Validity, [Next]_vars PROVE Validity'
    OBVIOUS
  <2> USE VolumeAssumption, PathsAssumption DEF Validity
  <2>1. CASE UNCHANGED vars
    BY <2>1 DEF vars, volume
  <2>2. ASSUME Begin PROVE Validity'
    BY <2>2 DEF Begin, volume
  <2>3. ASSUME NEW p \in Paths, Spare(p) PROVE Validity'
    BY <2>3 DEF Spare, volume
  <2>4. ASSUME NEW p \in Paths, NEW gained \in {0, size[p]}, Delete(p, gained)
        PROVE  Validity'
    <3>1. gained \in Nat /\ free \in Nat /\ total \in Nat
      OBVIOUS
    <3>2. Smaller(free + gained, total) \in 0 .. total
      BY <3>1 DEF Smaller
    <3>3. QED
      BY <2>4, <3>2 DEF Delete, volume
  <2>5. ASSUME Finish PROVE Validity'
    BY <2>5 DEF Finish, volume
  <2>6. ASSUME Fail PROVE Validity'
    BY <2>6 DEF Fail, volume
  <2>7. ASSUME NEW f \in Frees, UserUses(f) PROVE Validity'
    BY <2>7 DEF UserUses, ValidVolume, volume
  <2>8. ASSUME NEW p \in Paths, UserHolds(p) PROVE Validity'
    BY <2>8 DEF UserHolds, volume
  <2>9. ASSUME NEW p \in Paths, NEW bytes \in Sizes, UserWrites(p, bytes)
        PROVE  Validity'
    BY <2>9 DEF UserWrites, volume
  <2>10. ASSUME TimePasses PROVE Validity'
    BY <2>10 DEF TimePasses, volume
  <2>11. QED
    BY <2>1, <2>2, <2>3, <2>4, <2>5, <2>6, <2>7, <2>8, <2>9, <2>10
    DEF Next, Progress
<1>3. QED
  BY <1>1, <1>2, PTL DEF Spec

\* In a valid state the configuration and the volume are as the lemmas of the
\* arithmetic want them.
LEMMA ValidOperands ==
    ASSUME Validity
    PROVE  /\ config \in Thresholds /\ ValidDisk(config)
           /\ total \in Nat \ {0} /\ free \in Nat
           /\ Effective(config, total).pressure \in Nat
           /\ Effective(config, total).target \in Nat
<1>1. config \in Thresholds /\ ValidDisk(config) /\ total \in Nat \ {0} /\ free \in Nat
  BY VolumeAssumption DEF Validity
<1>2. QED
  BY <1>1, EffectiveFacts DEF Thresholds

\* Capping a valid configuration keeps its order on every volume, so that no
\* pressure class is lost and the target is never below pressure.
THEOREM OrderCorrect == Spec => []OrderKept
<1>1. Validity => OrderKept
  BY ValidOperands, EffectiveFacts DEF OrderKept
<1>2. QED
  BY <1>1, ValidityInvariant, PTL

\* Every volume of two bytes and more, however small, can leave pressure.
THEOREM PressureCanEndCorrect == Spec => []PressureCanEnd
<1>1. Validity => PressureCanEnd
  <2> SUFFICES ASSUME Validity, total > 1
               PROVE  \E f \in 0 .. total - 1 : ~NeedSpace(f, total, config)
    BY DEF PressureCanEnd
  <2>1. total \in Nat \ {0}
    BY ValidOperands
  <2>2. ~NeedSpace(total - 1, total, config)
    BY <2>1, ValidOperands, EffectiveFacts, NeedFacts
  <2>3. total - 1 \in 0 .. total - 1
    BY <2>1
  <2>4. QED
    BY <2>2, <2>3
<1>2. QED
  BY <1>1, ValidityInvariant, PTL

\* On every volume but a tiny one a cycle that needs space has a positive
\* budget, and one that needs none has none.
THEOREM NeedHasBudgetCorrect == Spec => []NeedHasBudget
<1>1. Validity => NeedHasBudget
  <2> SUFFICES ASSUME Validity, ~TinyVolume
               PROVE  NeedSpace(free, total, config)
                        <=> LogicalBudget(free, total, config) > 0
    BY DEF NeedHasBudget
  <2>1. Effective(config, total).pressure < Effective(config, total).target
    BY ValidOperands, EffectiveFacts DEF TinyVolume
  <2>2. QED
    BY <2>1, ValidOperands, NeedFacts DEF LogicalBudget
<1>2. QED
  BY <1>1, ValidityInvariant, PTL

\* The budget is exact: freeing it ends the need, freeing a byte less does not.
THEOREM BudgetCuresCorrect == Spec => []BudgetCures
<1>1. Validity => BudgetCures
  <2> SUFFICES ASSUME Validity, ~TinyVolume
               PROVE  LET limit == LogicalBudget(free, total, config) IN
                        /\ ~NeedSpace(free + limit, total, config)
                        /\ limit > 0 => NeedSpace(free + limit - 1, total, config)
    BY DEF BudgetCures
  <2> DEFINE limit == LogicalBudget(free, total, config)
  <2>1. Effective(config, total).pressure < Effective(config, total).target
    BY ValidOperands, EffectiveFacts DEF TinyVolume
  <2>2. limit \in Nat
    BY ValidOperands DEF LogicalBudget
  <2>3. free + limit >= Effective(config, total).target
    BY ValidOperands DEF LogicalBudget
  <2>4. ~NeedSpace(free + limit, total, config)
    BY <2>1, <2>2, <2>3, ValidOperands, NeedFacts
  <2>5. ASSUME limit > 0 PROVE NeedSpace(free + limit - 1, total, config)
    <3>1. free + limit - 1 \in Nat
      BY <2>2, <2>5, ValidOperands
    <3>2. free + limit - 1 < Effective(config, total).target
      BY <2>5, ValidOperands DEF LogicalBudget
    <3>3. QED
      BY <3>1, <3>2, ValidOperands, NeedFacts
  <2>6. QED
    BY <2>4, <2>5
<1>2. QED
  BY <1>1, ValidityInvariant, PTL

----------------------------------------------------------------------------
(* Induction, for the running sum of retain.                               *)

\* A set with 0 and with the successor of each of its members has them all.
LEMMA AllNaturals ==
    ASSUME NEW S, S \subseteq Nat, 0 \in S, \A n \in S : n + 1 \in S
    PROVE  S = Nat
<1> SUFFICES ASSUME S # Nat PROVE FALSE
  OBVIOUS
<1>1. PICK m \in Nat \ S : \A k \in Nat \ S : m <= k
  <2>1. Nat \ S # {} /\ Nat \ S \subseteq Nat
    OBVIOUS
  <2>2. QED
    BY <2>1, LeastNatural
<1>2. m \in Nat /\ m # 0 /\ m \notin S
  OBVIOUS
<1>3. m - 1 \in Nat /\ ~(m <= m - 1)
  BY <1>2
<1>4. m - 1 \in S /\ (m - 1) + 1 = m
  BY <1>1, <1>2, <1>3
<1>5. QED
  BY <1>2, <1>4

\* The partial sums of any finitely many numbers exist.
LEMMA SumsExist ==
    ASSUME NEW n \in Nat, NEW g, \A i \in 1 .. n : g[i] \in Nat
    PROVE  \E f : f = [i \in 0 .. n |-> IF i = 0 THEN 0 ELSE f[i - 1] + g[i]]
<1> DEFINE Sums(m, f) == /\ f \in [0 .. m -> Nat] /\ f[0] = 0
                         /\ \A i \in 1 .. m : f[i] = f[i - 1] + g[i]
           S == {m \in Nat : m <= n => \E f : Sums(m, f)}
<1>1. 0 \in S
  <2>1. Sums(0, [i \in 0 .. 0 |-> 0])
    OBVIOUS
  <2>2. QED
    BY <2>1
<1>2. ASSUME NEW m \in S PROVE m + 1 \in S
  <2> SUFFICES ASSUME m + 1 <= n PROVE \E f : Sums(m + 1, f)
    OBVIOUS
  <2>1. m \in Nat /\ m <= n
    OBVIOUS
  <2>2. PICK f : Sums(m, f)
    BY <2>1
  <2> DEFINE h == [i \in 0 .. m + 1 |-> IF i = m + 1 THEN f[m] + g[m + 1] ELSE f[i]]
  <2>3. h \in [0 .. m + 1 -> Nat] /\ h[0] = 0
    BY <2>1, <2>2
  <2>4. ASSUME NEW i \in 1 .. m + 1 PROVE h[i] = h[i - 1] + g[i]
    <3>1. CASE i = m + 1
      BY <2>1, <3>1
    <3>2. CASE i # m + 1
      <4>1. i \in 1 .. m /\ i \in 0 .. m /\ i - 1 \in 0 .. m /\ i - 1 # m + 1
        BY <2>1, <3>2
      <4>2. h[i] = f[i] /\ h[i - 1] = f[i - 1]
        BY <2>1, <3>2, <4>1
      <4>3. QED
        BY <2>2, <4>1, <4>2
    <3>3. QED
      BY <3>1, <3>2
  <2>5. Sums(m + 1, h)
    BY <2>3, <2>4
  <2>6. QED
    BY <2>5
<1>3. n \in S
  <2> HIDE DEF S
  <2>1. S \subseteq Nat
    BY DEF S
  <2>2. QED
    BY <1>1, <1>2, <2>1, AllNaturals
<1>4. PICK f : Sums(n, f)
  <2>1. \E f : Sums(n, f)
    <3>1. n <= n
      OBVIOUS
    <3>2. QED
      BY <1>3, <3>1
  <2>2. QED
    BY <2>1
<1>5. f = [i \in 0 .. n |-> IF i = 0 THEN 0 ELSE f[i - 1] + g[i]]
  <2>1. \A i \in 0 .. n : f[i] = IF i = 0 THEN 0 ELSE f[i - 1] + g[i]
    BY <1>4
  <2>2. QED
    BY <1>4, <2>1
<1>6. QED
  BY <1>5

\* What retain has selected grows by the size of each candidate.
LEMMA SelectedFacts ==
    ASSUME NEW s \in Seq(Paths), size \in [Paths -> Nat]
    PROVE  /\ \A i \in 0 .. Len(s) : Selected(s)[i] \in Nat
           /\ Selected(s)[0] = 0
           /\ \A i \in 1 .. Len(s) : Selected(s)[i] = Selected(s)[i - 1] + size[s[i]]
<1> DEFINE n == Len(s)
           g == [i \in 1 .. n |-> size[s[i]]]
           sum == Selected(s)
<1>1. n \in Nat /\ \A i \in 1 .. n : g[i] \in Nat /\ g[i] = size[s[i]]
  OBVIOUS
<1>2. \E f : f = [i \in 0 .. n |-> IF i = 0 THEN 0 ELSE f[i - 1] + size[s[i]]]
  <2>1. PICK f : f = [i \in 0 .. n |-> IF i = 0 THEN 0 ELSE f[i - 1] + g[i]]
    <3> HIDE DEF g, n
    <3>1. QED
      BY <1>1, SumsExist
  <2>2. \A i \in 0 .. n : (IF i = 0 THEN 0 ELSE f[i - 1] + g[i])
                            = (IF i = 0 THEN 0 ELSE f[i - 1] + size[s[i]])
    BY <1>1
  <2>3. f = [i \in 0 .. n |-> IF i = 0 THEN 0 ELSE f[i - 1] + size[s[i]]]
    BY <2>1, <2>2
  <2>4. QED
    BY <2>3
<1>3. sum = [i \in 0 .. n |-> IF i = 0 THEN 0 ELSE sum[i - 1] + size[s[i]]]
  BY <1>2 DEF Selected
<1>4. sum[0] = 0 /\ \A i \in 1 .. n : sum[i] = sum[i - 1] + size[s[i]]
  <2> HIDE DEF sum
  <2>1. QED
    BY <1>1, <1>3
<1>5. \A i \in 0 .. n : sum[i] \in Nat
  <2> HIDE DEF sum
  <2> DEFINE S == {m \in Nat : m <= n => sum[m] \in Nat}
  <2>1. 0 \in S
    BY <1>4
  <2>2. ASSUME NEW m \in S PROVE m + 1 \in S
    <3> SUFFICES ASSUME m + 1 <= n PROVE sum[m + 1] \in Nat
      OBVIOUS
    <3>1. m + 1 \in 1 .. n /\ (m + 1) - 1 = m /\ sum[m] \in Nat
      BY <1>1
    <3>2. sum[m + 1] = sum[m] + size[s[m + 1]] /\ size[s[m + 1]] \in Nat
      BY <1>1, <1>4, <3>1
    <3>3. QED
      BY <3>1, <3>2
  <2>3. S = Nat
    <3> HIDE DEF S
    <3>1. S \subseteq Nat
      BY DEF S
    <3>2. QED
      BY <2>1, <2>2, <3>1, AllNaturals
  <2>4. QED
    BY <1>1, <2>3
<1>6. QED
  BY <1>4, <1>5

----------------------------------------------------------------------------
(* The plan of a cycle.                                                    *)

\* A set of candidates in order is a sequence that has each of them, in the
\* order of the plan.
LEMMA OrderedFacts ==
    ASSUME age \in [Paths -> Nat], size \in [Paths -> Nat],
           NEW S \in SUBSET Paths, NEW s \in Ordered(S)
    PROVE  /\ s \in Seq(S) /\ Len(s) = Cardinality(S) /\ Cardinality(S) \in Nat
           /\ \A q \in S : \E m \in 1 .. Len(s) : s[m] = q
           /\ \A i, j \in 1 .. Len(s) : i < j => Before(s[i], s[j])
<1> DEFINE n == Cardinality(S)
<1>1. IsFiniteSet(S) /\ n \in Nat
  BY PathsAssumption, FS_Subset, FS_CardinalityType
<1>2. s \in [1 .. n -> S] /\ \A i, j \in 1 .. n : i < j => Before(s[i], s[j])
  BY DEF Ordered
<1>3. s \in Seq(S) /\ Len(s) = n
  BY <1>1, <1>2
<1>4. s \in Injection(1 .. n, S)
  <2>1. ASSUME NEW i \in 1 .. n, NEW j \in 1 .. n, i < j PROVE s[i] # s[j]
    <3>1. Before(s[i], s[j])
      BY <1>2, <2>1
    <3>2. s[i] \in Paths /\ Rank[s[i]] \in 0 .. 2 /\ age[s[i]] \in Nat /\ size[s[i]] \in Nat
      BY <1>2, PathsAssumption
    <3>3. s[i] \in Nat
      BY <3>2, PathsAssumption
    <3>4. QED
      BY <3>1, <3>2, <3>3 DEF Before
  <2>2. ASSUME NEW i \in 1 .. n, NEW j \in 1 .. n, s[i] = s[j] PROVE i = j
    <3>1. ~(i < j) /\ ~(j < i)
      BY <2>1, <2>2
    <3>2. QED
      BY <1>1, <3>1
  <2>3. QED
    BY <1>2, <2>2 DEF Injection, IsInjective
<1>5. s \in Surjection(1 .. n, S)
  <2>1. Cardinality(1 .. n) = n
    BY <1>1, FS_Interval
  <2>2. QED
    BY <1>1, <1>4, <2>1, FS_Injection
<1>6. \A q \in S : \E m \in 1 .. n : s[m] = q
  BY <1>5 DEF Surjection
<1>7. QED
  BY <1>1, <1>2, <1>3, <1>6

\* What retain and take keep of a sequence is where it begins.
LEMMA KeptFacts ==
    ASSUME NEW S, NEW s \in Seq(S), NEW k \in 0 .. Len(s)
    PROVE  LET kept == FirstActions(SubSeq(s, 1, k)) IN
             /\ kept \in Seq(S)
             /\ Len(kept) \in 0 .. k
             /\ \A i \in 1 .. Len(kept) : kept[i] = s[i]
<1> DEFINE first == SubSeq(s, 1, k)
           kept == FirstActions(first)
<1>1. first \in Seq(S) /\ Len(first) = k /\ \A i \in 1 .. k : first[i] = s[i]
  OBVIOUS
<1>2. Smaller(k, MaxActions) \in 0 .. k
  BY SettingsAssumption DEF Smaller
<1>3. kept = SubSeq(first, 1, Smaller(k, MaxActions))
  BY <1>1 DEF FirstActions
<1>4. QED
  <2> HIDE DEF first, kept
  <2>1. /\ kept \in Seq(S) /\ Len(kept) = Smaller(k, MaxActions)
        /\ \A i \in 1 .. Smaller(k, MaxActions) : kept[i] = first[i]
    BY <1>1, <1>2, <1>3
  <2>2. QED
    BY <1>1, <1>2, <2>1 DEF first, kept

\* What a cycle plans: the first k of the candidates that it found, in order.
LEMMA BeginFacts ==
    ASSUME TypeOK, Begin
    PROVE  \E s \in Ordered(seen'), k \in 0 .. Cardinality(seen') :
             /\ seen' \in SUBSET Paths
             /\ plan' = FirstActions(SubSeq(s, 1, k))
             /\ need' \in BOOLEAN /\ budget' \in Nat
             /\ need' => Retains(s, k, budget')
<1> DEFINE short == NeedSpace(free, total, config)
           limit == LogicalBudget(free, total, config)
<1>1. Validity
  BY DEF TypeOK, Validity
<1>2. short \in BOOLEAN
  BY DEF NeedSpace
<1>3. limit \in Nat
  BY <1>1, ValidOperands DEF LogicalBudget
<1>4. /\ seen' \in SUBSET present /\ need' = short /\ budget' = limit
      /\ \E order \in Ordered(seen'), k \in 0 .. Cardinality(seen') :
           /\ IF short THEN Retains(order, k, limit) ELSE k = Len(order)
           /\ plan' = FirstActions(SubSeq(order, 1, k))
  BY DEF Begin
<1>5. seen' \in SUBSET Paths
  BY <1>4 DEF TypeOK
<1>6. QED
  <2> HIDE DEF short, limit
  <2>1. QED
    BY <1>2, <1>3, <1>4, <1>5

\* The ages and sizes of the candidates are numbers.
LEMMA NumericState ==
    ASSUME TypeOK
    PROVE  age \in [Paths -> Nat] /\ size \in [Paths -> Nat]
<1>1. Sizes \subseteq Nat /\ 0 .. MaxAge \subseteq Nat
  BY PathsAssumption, SettingsAssumption
<1>2. QED
  BY <1>1 DEF TypeOK

LEMMA BeginType == TypeOK /\ Begin => TypeOK'
<1> SUFFICES ASSUME TypeOK, Begin PROVE TypeOK'
  OBVIOUS
<1>1. PICK s \in Ordered(seen'), k \in 0 .. Cardinality(seen') :
        /\ seen' \in SUBSET Paths
        /\ plan' = FirstActions(SubSeq(s, 1, k))
        /\ need' \in BOOLEAN /\ budget' \in Nat
  BY BeginFacts
<1>2. plan' \in Seq(seen')
  BY <1>1, NumericState, OrderedFacts, KeptFacts
<1>3. running' \in BOOLEAN /\ tried' \subseteq seen' /\ deleted' \in Nat /\ stale' \subseteq Paths
  BY DEF Begin
<1>4. /\ config' \in Configs /\ total' \in Volumes /\ free' \in 0 .. total'
      /\ present' \subseteq Paths /\ stuck' \subseteq Paths
      /\ age' \in [Paths -> 0 .. MaxAge] /\ size' \in [Paths -> Sizes]
      /\ user' \in 0 .. MaxUser /\ fails' \in 0 .. MaxFails
  BY DEF TypeOK, Begin, volume
<1>5. QED
  BY <1>1, <1>2, <1>3, <1>4 DEF TypeOK

\* The candidate at the head of the plan becomes one that was tried.
LEMMA HandleType ==
    ASSUME TypeOK, NEW p \in Paths, Handle(p)
    PROVE  plan' \in Seq(seen) /\ tried' \subseteq seen
  BY DEF TypeOK, Handle

\* What a cycle selects, has tried and reports is well typed, for every set of
\* candidates, every configuration and any number of cycles (run_cleanup).
THEOREM TypeCorrect == Spec => []TypeOK
<1>1. Init => TypeOK
  <2> SUFFICES ASSUME Init PROVE TypeOK
    OBVIOUS
  <2>1. running \in BOOLEAN /\ need \in BOOLEAN
    BY DEF Init
  <2>2. plan \in Seq(seen) /\ tried \subseteq seen
    BY DEF Init
  <2>3. Validity
    BY VolumeAssumption DEF Init, Validity, ValidVolume
  <2>4. QED
    BY <2>1, <2>2, <2>3, SettingsAssumption DEF Init, TypeOK, Validity
<1>2. TypeOK /\ [Next]_vars => TypeOK'
  <2> SUFFICES ASSUME TypeOK, [Next]_vars PROVE TypeOK'
    OBVIOUS
  <2> USE VolumeAssumption, PathsAssumption, SettingsAssumption DEF volume, chosen
  <2>1. CASE UNCHANGED vars
    BY <2>1 DEF vars, TypeOK
  <2>2. ASSUME Begin PROVE TypeOK'
    BY <2>2, BeginType
  <2>3. ASSUME NEW p \in Paths, Spare(p) PROVE TypeOK'
    BY <2>3, HandleType DEF Spare, TypeOK
  <2>4. ASSUME NEW p \in Paths, NEW gained \in {0, size[p]}, Delete(p, gained)
        PROVE  TypeOK'
    <3>1. gained \in Nat /\ free \in Nat /\ total \in Nat /\ size[p] \in Nat
      <4>1. size[p] \in Nat /\ total \in Nat /\ free \in 0 .. total
        BY DEF TypeOK
      <4>2. QED
        BY <4>1
    <3>2. Smaller(free + gained, total) \in 0 .. total
      BY <3>1 DEF Smaller
    <3>3. deleted' \in Nat
      BY <2>4, <3>1 DEF Delete, TypeOK
    <3>4. plan' \in Seq(seen) /\ tried' \subseteq seen
      BY <2>4, HandleType DEF Delete
    <3>5. present' \subseteq Paths /\ free' \in 0 .. total'
      BY <2>4, <3>2 DEF Delete, TypeOK
    <3>6. UNCHANGED <<volume, age, size, stuck, stale, running, chosen, user, fails>>
      BY <2>4 DEF Delete
    <3>7. QED
      BY <3>3, <3>4, <3>5, <3>6 DEF TypeOK
  <2>5. ASSUME Finish PROVE TypeOK'
    BY <2>5 DEF Finish, TypeOK
  <2>6. ASSUME Fail PROVE TypeOK'
    <3>1. fails' \in 0 .. MaxFails /\ running' \in BOOLEAN
      <4>1. fails < MaxFails /\ fails' = fails + 1 /\ running' = FALSE
        BY <2>6 DEF Fail
      <4>2. fails' \in 0 .. MaxFails
        BY <4>1 DEF TypeOK
      <4>3. QED
        BY <4>1, <4>2, Zenon
    <3>2. UNCHANGED <<volume, free, present, age, size, stuck, stale, chosen, plan,
                      tried, deleted, user>>
      BY <2>6 DEF Fail
    <3>3. QED
      BY <3>1, <3>2 DEF TypeOK
  <2>7. ASSUME NEW f \in Frees, UserUses(f) PROVE TypeOK'
    <3>1. f \in Nat /\ total \in Nat /\ f <= total
      BY <2>7 DEF UserUses, ValidVolume, TypeOK
    <3>2. free' \in 0 .. total' /\ user' \in 0 .. MaxUser
      BY <2>7, <3>1 DEF UserUses, UserStep, TypeOK
    <3>3. UNCHANGED <<volume, present, age, size, stuck, stale, running, chosen, plan,
                      tried, deleted, fails>>
      BY <2>7 DEF UserUses
    <3>4. QED
      BY <3>2, <3>3 DEF TypeOK
  <2>8. ASSUME NEW p \in Paths, UserHolds(p) PROVE TypeOK'
    <3>1. stuck' \subseteq Paths
      BY <2>8 DEF UserHolds, TypeOK
    <3>2. user' \in 0 .. MaxUser
      BY <2>8 DEF UserHolds, UserStep, TypeOK
    <3>3. UNCHANGED <<volume, free, present, age, size, stale, running, chosen, plan,
                      tried, deleted, fails>>
      BY <2>8 DEF UserHolds
    <3>4. QED
      BY <3>1, <3>2, <3>3 DEF TypeOK
  <2>9. ASSUME NEW p \in Paths, NEW bytes \in Sizes, UserWrites(p, bytes)
        PROVE  TypeOK'
    BY <2>9 DEF UserWrites, UserStep, TypeOK
  <2>10. ASSUME TimePasses PROVE TypeOK'
    BY <2>10 DEF TimePasses, UserStep, Smaller, TypeOK
  <2>11. QED
    BY <2>1, <2>2, <2>3, <2>4, <2>5, <2>6, <2>7, <2>8, <2>9, <2>10
    DEF Next, Progress
<1>3. QED
  BY <1>1, <1>2, PTL DEF Spec
----------------------------------------------------------------------------
(* The order and the bound of the removals.                                *)

\* What Handle takes from the plan: its head, so that the rest moves up.
LEMMA HandleFacts ==
    ASSUME TypeOK, NEW p \in Paths, Handle(p)
    PROVE  /\ Len(plan) >= 1 /\ plan[1] = p /\ Len(plan) \in Nat
           /\ Len(plan') = Len(plan) - 1
           /\ \A i \in 1 .. Len(plan') : plan'[i] = plan[i + 1]
           /\ tried' = tried \cup {p}
<1>1. plan \in Seq(seen) /\ plan # <<>>
  BY DEF TypeOK, Handle
<1>2. plan' = Tail(plan) /\ p = Head(plan) /\ tried' = tried \cup {p}
  BY DEF Handle
<1>3. QED
  BY <1>1, <1>2

\* Only Delete removes what the cycle handles in the same step.
LEMMA RemovesFacts ==
    ASSUME [Next]_vars, NEW p \in Paths, Removes(p)
    PROVE  \E gained : Delete(p, gained)
<1>1. tried' # tried /\ p \in present /\ p \notin present'
  BY DEF Removes
<1>2. CASE UNCHANGED vars
  BY <1>1, <1>2 DEF vars
<1>3. CASE Begin
  BY <1>1, <1>3 DEF Begin
<1>4. ASSUME NEW q \in Paths, Spare(q) PROVE FALSE
  BY <1>1, <1>4 DEF Spare
<1>5. ASSUME NEW q \in Paths, NEW gained, Delete(q, gained) PROVE q = p
  BY <1>1, <1>5 DEF Delete
<1>6. CASE Finish
  BY <1>1, <1>6 DEF Finish
<1>7. CASE Fail
  BY <1>1, <1>7 DEF Fail
<1>8. ASSUME NEW f \in Frees, UserUses(f) PROVE FALSE
  BY <1>1, <1>8 DEF UserUses
<1>9. ASSUME NEW q \in Paths, UserHolds(q) PROVE FALSE
  BY <1>1, <1>9 DEF UserHolds
<1>10. ASSUME NEW q \in Paths, NEW bytes \in Sizes, UserWrites(q, bytes) PROVE FALSE
  BY <1>1, <1>10 DEF UserWrites
<1>11. CASE TimePasses
  BY <1>1, <1>11 DEF TimePasses
<1>12. QED
  BY <1>2, <1>3, <1>4, <1>5, <1>6, <1>7, <1>8, <1>9, <1>10, <1>11 DEF Next, Progress

\* Whatever is planned, every candidate of a safer kind that the cycle found
\* has had its turn or comes before it in the plan.
InTurn ==
    \A i \in 1 .. Len(plan) : \A q \in seen \ tried :
      Rank[q] < Rank[plan[i]] => \E j \in 1 .. i - 1 : plan[j] = q

LEMMA BeginInTurn == TypeOK /\ Begin => InTurn'
<1> SUFFICES ASSUME TypeOK, Begin PROVE InTurn'
  OBVIOUS
<1>1. PICK s \in Ordered(seen'), k \in 0 .. Cardinality(seen') :
        seen' \in SUBSET Paths /\ plan' = FirstActions(SubSeq(s, 1, k))
  BY BeginFacts
<1>2. /\ s \in Seq(seen') /\ Len(s) = Cardinality(seen') /\ Cardinality(seen') \in Nat
      /\ \A q \in seen' : \E m \in 1 .. Len(s) : s[m] = q
      /\ \A i, j \in 1 .. Len(s) : i < j => Before(s[i], s[j])
  BY <1>1, NumericState, OrderedFacts
<1>3. Len(plan') \in 0 .. k /\ \A i \in 1 .. Len(plan') : plan'[i] = s[i]
  BY <1>1, <1>2, KeptFacts
<1>4. ASSUME NEW i \in 1 .. Len(plan'), NEW q \in seen', Rank[q] < Rank[plan'[i]]
      PROVE  \E j \in 1 .. i - 1 : plan'[j] = q
  <2>1. PICK m \in 1 .. Len(s) : s[m] = q
    BY <1>2
  <2>2. i \in 1 .. Len(s) /\ plan'[i] = s[i]
    BY <1>2, <1>3
  <2>3. q \in Paths /\ s[i] \in Paths
    BY <1>1, <1>2, <2>2
  <2>4. Rank[q] \in 0 .. 2 /\ Rank[s[i]] \in 0 .. 2
    BY <2>3, PathsAssumption
  <2>5. m # i
    BY <1>4, <2>1, <2>2, <2>4
  <2>6. ~(i < m)
    <3>1. i < m => Before(s[i], q)
      BY <1>2, <2>1, <2>2
    <3>2. ~Before(s[i], q)
      BY <1>4, <2>2, <2>4 DEF Before
    <3>3. QED
      BY <3>1, <3>2
  <2>7. m \in 1 .. i - 1 /\ m \in 1 .. Len(plan')
    BY <1>2, <1>3, <2>5, <2>6
  <2>8. QED
    BY <1>3, <2>1, <2>7
<1>5. QED
  BY <1>4 DEF InTurn

LEMMA HandleInTurn ==
    ASSUME TypeOK, InTurn, NEW p \in Paths, Handle(p), seen' = seen
    PROVE  InTurn'
<1>1. /\ Len(plan) >= 1 /\ plan[1] = p /\ Len(plan) \in Nat
      /\ Len(plan') = Len(plan) - 1
      /\ \A i \in 1 .. Len(plan') : plan'[i] = plan[i + 1]
      /\ tried' = tried \cup {p}
  BY HandleFacts
<1>2. ASSUME NEW i \in 1 .. Len(plan'), NEW q \in seen' \ tried',
             Rank[q] < Rank[plan'[i]]
      PROVE  \E j \in 1 .. i - 1 : plan'[j] = q
  <2>1. i + 1 \in 1 .. Len(plan) /\ plan'[i] = plan[i + 1] /\ (i + 1) - 1 = i
    BY <1>1
  <2>2. q \in seen \ tried /\ q # p
    BY <1>1
  <2>3. PICK j \in 1 .. i : plan[j] = q
    BY <1>2, <2>1, <2>2 DEF InTurn
  <2>4. j # 1
    BY <1>1, <2>2, <2>3
  <2>5. j - 1 \in 1 .. i - 1 /\ j - 1 \in 1 .. Len(plan') /\ (j - 1) + 1 = j
    BY <1>1, <2>4
  <2>6. plan'[j - 1] = q
    BY <1>1, <2>3, <2>5
  <2>7. QED
    BY <2>5, <2>6
<1>3. QED
  BY <1>2 DEF InTurn

LEMMA InTurnInvariant == Spec => []InTurn
<1>1. Init => InTurn
  BY DEF Init, InTurn
<1>2. TypeOK /\ InTurn /\ [Next]_vars => InTurn'
  <2> SUFFICES ASSUME TypeOK, InTurn, [Next]_vars PROVE InTurn'
    OBVIOUS
  <2>1. ASSUME UNCHANGED <<seen, plan, tried>> PROVE InTurn'
    BY <2>1 DEF InTurn
  <2>2. CASE UNCHANGED vars
    BY <2>1, <2>2 DEF vars, chosen
  <2>3. CASE Begin
    BY <2>3, BeginInTurn
  <2>4. ASSUME NEW p \in Paths, Spare(p) PROVE InTurn'
    BY <2>4, HandleInTurn DEF Spare, chosen
  <2>5. ASSUME NEW p \in Paths, NEW gained, Delete(p, gained) PROVE InTurn'
    BY <2>5, HandleInTurn DEF Delete, chosen
  <2>6. CASE Finish
    BY <2>1, <2>6 DEF Finish, chosen
  <2>7. CASE Fail
    BY <2>1, <2>7 DEF Fail, chosen
  <2>8. ASSUME NEW f \in Frees, UserUses(f) PROVE InTurn'
    BY <2>1, <2>8 DEF UserUses, chosen
  <2>9. ASSUME NEW p \in Paths, UserHolds(p) PROVE InTurn'
    BY <2>1, <2>9 DEF UserHolds, chosen
  <2>10. ASSUME NEW p \in Paths, NEW bytes \in Sizes, UserWrites(p, bytes)
         PROVE  InTurn'
    BY <2>1, <2>10 DEF UserWrites, chosen
  <2>11. CASE TimePasses
    BY <2>1, <2>11 DEF TimePasses, chosen
  <2>12. QED
    BY <2>2, <2>3, <2>4, <2>5, <2>6, <2>7, <2>8, <2>9, <2>10, <2>11
    DEF Next, Progress
<1>3. QED
  BY <1>1, <1>2, TypeCorrect, PTL DEF Spec

\* A riskier kind is removed only after every candidate of a safer kind that
\* the cycle found has had its turn, for every set of candidates, any order of
\* the user's writes and any number of cycles (cmp_candidate, execute_cleanup).
THEOREM SaferCorrect == Spec => SaferFirst
<1>1. TypeOK /\ InTurn /\ [Next]_vars =>
        [\A p \in Paths : Removes(p) =>
           \A q \in seen : Rank[q] < Rank[p] => q \in tried]_vars
  <2> SUFFICES ASSUME TypeOK, InTurn, [Next]_vars, NEW p \in Paths, Removes(p),
                      NEW q \in seen, Rank[q] < Rank[p]
               PROVE  q \in tried
    OBVIOUS
  <2>1. Handle(p)
    BY RemovesFacts DEF Delete
  <2>2. Len(plan) >= 1 /\ plan[1] = p /\ Len(plan) \in Nat
    BY <2>1, HandleFacts
  <2>3. 1 \in 1 .. Len(plan) /\ 1 .. 1 - 1 = {}
    BY <2>2
  <2>4. QED
    BY <2>2, <2>3 DEF InTurn
<1>2. QED
  BY <1>1, InTurnInvariant, TypeCorrect, PTL DEF Spec, SaferFirst

\* What the removal of p can still add to the report.
Cost(p) == IF p \in stale THEN 0 ELSE size[p]

\* What the cycle may have spent before each candidate of its plan: less than
\* the budget, at least what the report says, and enough for what is removed.
Covers(spent) ==
    /\ Len(plan) > 0 => deleted <= spent[1]
    /\ \A i \in 1 .. Len(plan) : spent[i] < budget
    /\ \A i \in 1 .. Len(plan) : i < Len(plan) => spent[i] + Cost(plan[i]) <= spent[i + 1]

Affordable == need => \E spent \in [1 .. Len(plan) -> Nat] : Covers(spent)

LEMMA BeginAffordable == TypeOK /\ Begin => Affordable'
<1> SUFFICES ASSUME TypeOK, Begin, need'
             PROVE  \E spent \in [1 .. Len(plan') -> Nat] : Covers(spent)'
  BY DEF Affordable
<1>1. PICK s \in Ordered(seen'), k \in 0 .. Cardinality(seen') :
        /\ seen' \in SUBSET Paths /\ plan' = FirstActions(SubSeq(s, 1, k))
        /\ Retains(s, k, budget')
  BY BeginFacts
<1>2. s \in Seq(seen') /\ Len(s) = Cardinality(seen') /\ Cardinality(seen') \in Nat
  BY <1>1, NumericState, OrderedFacts
<1>3. Len(plan') \in 0 .. k /\ \A i \in 1 .. Len(plan') : plan'[i] = s[i]
  BY <1>1, <1>2, KeptFacts
<1>4. /\ \A i \in 0 .. Len(s) : Selected(s)[i] \in Nat
      /\ Selected(s)[0] = 0
      /\ \A i \in 1 .. Len(s) : Selected(s)[i] = Selected(s)[i - 1] + size[s[i]]
  <2>1. s \in Seq(Paths)
    BY <1>1, <1>2
  <2>2. QED
    BY <2>1, NumericState, SelectedFacts
<1>5. \A i \in 1 .. k : Selected(s)[i - 1] < budget'
  BY <1>1 DEF Retains
<1>6. stale' = {} /\ deleted' = 0 /\ size' = size
  BY DEF Begin
<1>7. \A i \in 1 .. Len(plan') : i \in 1 .. k /\ i \in 1 .. Len(s) /\ i - 1 \in 0 .. Len(s)
  BY <1>2, <1>3
<1>8. PICK spent \in [1 .. Len(plan') -> Nat] :
        \A i \in 1 .. Len(plan') : spent[i] = Selected(s)[i - 1]
  <2>1. [i \in 1 .. Len(plan') |-> Selected(s)[i - 1]] \in [1 .. Len(plan') -> Nat]
    BY <1>4, <1>7
  <2>2. QED
    BY <2>1
<1>9. Len(plan') > 0 => deleted' <= spent[1]
  BY <1>3, <1>4, <1>6, <1>8
<1>10. \A i \in 1 .. Len(plan') : spent[i] < budget'
  BY <1>5, <1>7, <1>8
<1>11. ASSUME NEW i \in 1 .. Len(plan'), i < Len(plan')
       PROVE  spent[i] + Cost(plan[i])' <= spent[i + 1]
  <2>1. i + 1 \in 1 .. Len(plan') /\ (i + 1) - 1 = i
    BY <1>3, <1>11
  <2>2. spent[i] = Selected(s)[i - 1] /\ spent[i + 1] = Selected(s)[i]
    BY <1>8, <2>1
  <2>3. Cost(plan[i])' = size[s[i]]
    BY <1>3, <1>6 DEF Cost
  <2>4. Selected(s)[i] = Selected(s)[i - 1] + size[s[i]] /\ Selected(s)[i] \in Nat
    BY <1>4, <1>7
  <2>5. QED
    BY <2>2, <2>3, <2>4
<1>12. Covers(spent)'
  BY <1>9, <1>10, <1>11 DEF Covers
<1>13. QED
  BY <1>12

\* The rest of the plan is still covered once its head is handled.
LEMMA HandleAffordable ==
    ASSUME TypeOK, Affordable, NEW p \in Paths, Handle(p), deleted' \in Nat,
           deleted' <= deleted + Cost(p),
           UNCHANGED <<need, budget, stale, size>>
    PROVE  Affordable'
<1> SUFFICES ASSUME need PROVE \E rest \in [1 .. Len(plan') -> Nat] : Covers(rest)'
  BY DEF Affordable
<1>1. /\ Len(plan) >= 1 /\ plan[1] = p /\ Len(plan) \in Nat
      /\ Len(plan') = Len(plan) - 1
      /\ \A i \in 1 .. Len(plan') : plan'[i] = plan[i + 1]
  BY HandleFacts
<1>2. PICK spent \in [1 .. Len(plan) -> Nat] : Covers(spent)
  BY DEF Affordable
<1>3. \A i \in 1 .. Len(plan') : i + 1 \in 1 .. Len(plan)
  BY <1>1
<1>4. PICK rest \in [1 .. Len(plan') -> Nat] :
        \A i \in 1 .. Len(plan') : rest[i] = spent[i + 1]
  <2>1. [i \in 1 .. Len(plan') |-> spent[i + 1]] \in [1 .. Len(plan') -> Nat]
    BY <1>3
  <2>2. QED
    BY <2>1
<1>5. Len(plan') > 0 => deleted' <= rest[1]
  <2> SUFFICES ASSUME Len(plan') > 0 PROVE deleted' <= rest[1]
    OBVIOUS
  <2>1. 1 \in 1 .. Len(plan) /\ 2 \in 1 .. Len(plan) /\ 1 < Len(plan) /\ rest[1] = spent[2]
    BY <1>1, <1>4
  <2>2. deleted <= spent[1] /\ spent[1] + Cost(p) <= spent[2]
    BY <1>1, <1>2, <2>1 DEF Covers
  <2>3. Cost(p) \in Nat /\ deleted \in Nat
    BY NumericState DEF Cost, TypeOK
  <2>4. QED
    BY <2>1, <2>2, <2>3
<1>6. \A i \in 1 .. Len(plan') : rest[i] < budget'
  BY <1>2, <1>3, <1>4 DEF Covers
<1>7. ASSUME NEW i \in 1 .. Len(plan'), i < Len(plan')
      PROVE  rest[i] + Cost(plan[i])' <= rest[i + 1]
  <2>1. i + 1 \in 1 .. Len(plan') /\ i + 1 \in 1 .. Len(plan) /\ i + 1 < Len(plan)
    BY <1>1, <1>7
  <2>2. Cost(plan[i])' = Cost(plan[i + 1])
    BY <1>1 DEF Cost
  <2>3. spent[i + 1] + Cost(plan[i + 1]) <= spent[(i + 1) + 1]
    BY <1>2, <2>1 DEF Covers
  <2>4. rest[i] = spent[i + 1] /\ rest[i + 1] = spent[(i + 1) + 1]
    BY <1>4, <2>1
  <2>5. QED
    BY <2>2, <2>3, <2>4
<1>8. Covers(rest)'
  BY <1>5, <1>6, <1>7 DEF Covers
<1>9. QED
  BY <1>8

\* A candidate that the user writes to can only cost less.
LEMMA WriteAffordable ==
    ASSUME TypeOK, Affordable, NEW p \in Paths, NEW bytes \in Sizes,
           UserWrites(p, bytes)
    PROVE  Affordable'
<1> SUFFICES ASSUME need PROVE \E spent \in [1 .. Len(plan) -> Nat] : Covers(spent)'
  BY DEF Affordable, UserWrites, chosen
<1>1. PICK spent \in [1 .. Len(plan) -> Nat] : Covers(spent)
  BY DEF Affordable
<1>2. UNCHANGED <<plan, deleted, budget>>
  BY DEF UserWrites, chosen
<1>3. ASSUME NEW i \in 1 .. Len(plan) PROVE /\ Cost(plan[i]) \in Nat
                                            /\ Cost(plan[i])' \in Nat
                                            /\ Cost(plan[i])' <= Cost(plan[i])
  <2>1. plan[i] \in Paths
    BY DEF TypeOK
  <2>2. size[plan[i]] \in Nat /\ plan'[i] = plan[i]
    BY <1>2, <2>1, NumericState
  <2>3. plan[i] # p => size'[plan[i]] = size[plan[i]]
    BY <2>1, NumericState DEF UserWrites
  <2>4. stale' = stale \cup {p}
    BY DEF UserWrites
  <2>5. QED
    BY <2>2, <2>3, <2>4 DEF Cost
<1>4. ASSUME NEW i \in 1 .. Len(plan), i < Len(plan)
      PROVE  spent[i] + Cost(plan[i])' <= spent[i + 1]
  <2>1. Len(plan) \in Nat
    BY DEF TypeOK
  <2>2. i + 1 \in 1 .. Len(plan)
    BY <1>4, <2>1
  <2>3. spent[i] + Cost(plan[i]) <= spent[i + 1]
    BY <1>1, <1>4 DEF Covers
  <2>4. spent[i] \in Nat /\ spent[i + 1] \in Nat
    BY <2>2
  <2>5. QED
    BY <1>3, <2>3, <2>4
<1>5. Covers(spent)'
  BY <1>1, <1>2, <1>4 DEF Covers
<1>6. QED
  BY <1>5

LEMMA AffordableInvariant == Spec => []Affordable
<1>1. Init => Affordable
  BY DEF Init, Affordable
<1>2. TypeOK /\ Affordable /\ [Next]_vars => Affordable'
  <2> SUFFICES ASSUME TypeOK, Affordable, [Next]_vars PROVE Affordable'
    OBVIOUS
  <2>1. ASSUME UNCHANGED <<need, budget, plan, deleted, stale, size>>
        PROVE  Affordable'
    BY <2>1 DEF Affordable, Covers, Cost
  <2>2. CASE UNCHANGED vars
    BY <2>1, <2>2 DEF vars, chosen
  <2>3. CASE Begin
    BY <2>3, BeginAffordable
  <2>4. ASSUME NEW p \in Paths, Spare(p) PROVE Affordable'
    <3>1. Cost(p) \in Nat /\ deleted \in Nat
      BY NumericState DEF Cost, TypeOK
    <3>2. deleted' = deleted /\ UNCHANGED <<need, budget, stale, size>> /\ Handle(p)
      BY <2>4 DEF Spare, chosen
    <3>3. deleted' \in Nat /\ deleted' <= deleted + Cost(p)
      BY <3>1, <3>2
    <3>4. QED
      BY <3>2, <3>3, HandleAffordable
  <2>5. ASSUME NEW p \in Paths, NEW gained, Delete(p, gained) PROVE Affordable'
    <3>1. size[p] \in Nat /\ deleted \in Nat
      BY NumericState DEF TypeOK
    <3>2. /\ deleted' = deleted + size[p] /\ Cost(p) = size[p] /\ Handle(p)
          /\ UNCHANGED <<need, budget, stale, size>>
      BY <2>5 DEF Delete, Accepted, Cost, chosen
    <3>3. deleted' \in Nat /\ deleted' <= deleted + Cost(p)
      BY <3>1, <3>2
    <3>4. QED
      BY <3>2, <3>3, HandleAffordable
  <2>6. CASE Finish
    BY <2>1, <2>6 DEF Finish, chosen
  <2>7. CASE Fail
    BY <2>1, <2>7 DEF Fail, chosen
  <2>8. ASSUME NEW f \in Frees, UserUses(f) PROVE Affordable'
    BY <2>1, <2>8 DEF UserUses, chosen
  <2>9. ASSUME NEW p \in Paths, UserHolds(p) PROVE Affordable'
    BY <2>1, <2>9 DEF UserHolds, chosen
  <2>10. ASSUME NEW p \in Paths, NEW bytes \in Sizes, UserWrites(p, bytes)
         PROVE  Affordable'
    BY <2>10, WriteAffordable
  <2>11. CASE TimePasses
    BY <2>1, <2>11 DEF TimePasses, chosen
  <2>12. QED
    BY <2>2, <2>3, <2>4, <2>5, <2>6, <2>7, <2>8, <2>9, <2>10, <2>11
    DEF Next, Progress
<1>3. QED
  BY <1>1, <1>2, TypeCorrect, PTL DEF Spec

\* A cycle that needs space removes nothing more once its report has reached
\* the budget, for every volume, configuration and size of the candidates, and
\* however the user writes to them (retain in run_cleanup).
THEOREM BoundedCorrect == Spec => BoundedByTarget
<1>1. TypeOK /\ Affordable /\ [Next]_vars =>
        [\A p \in Paths : Removes(p) /\ need => deleted < budget]_vars
  <2> SUFFICES ASSUME TypeOK, Affordable, [Next]_vars, NEW p \in Paths,
                      Removes(p), need
               PROVE  deleted < budget
    OBVIOUS
  <2>1. Handle(p)
    BY RemovesFacts DEF Delete
  <2>2. Len(plan) >= 1 /\ Len(plan) \in Nat
    BY <2>1, HandleFacts
  <2>3. PICK spent \in [1 .. Len(plan) -> Nat] : Covers(spent)
    BY DEF Affordable
  <2>4. 1 \in 1 .. Len(plan) /\ deleted <= spent[1] /\ spent[1] < budget
    BY <2>2, <2>3 DEF Covers
  <2>5. deleted \in Nat /\ budget \in Nat /\ spent[1] \in Nat
    BY <2>4 DEF TypeOK
  <2>6. QED
    BY <2>4, <2>5
<1>2. QED
  BY <1>1, AffordableInvariant, TypeCorrect, PTL DEF Spec, BoundedByTarget
============================================================================
