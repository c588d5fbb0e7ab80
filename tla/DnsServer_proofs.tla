-------------------------- MODULE DnsServer_proofs ---------------------------
(***************************************************************************)
(* What the DNS server answers, for any configuration that it accepts and  *)
(* names of any length.                                                    *)
(***************************************************************************)
EXTENDS DnsServer, FiniteSetTheorems, SequenceTheorems, WellFoundedInduction, TLAPS

-----------------------------------------------------------------------------
(* Types *)

LEMMA InitTypes ==
  Init => TypeOK
<1> SUFFICES ASSUME Init PROVE TypeOK
  OBVIOUS
<1> USE DnsAssumption DEF Init
<1>1. \A n \in Network : shown[n] \in Views[n]
  OBVIOUS
<1> QED
  BY <1>1 DEF TypeOK

LEMMA StepTypes ==
  TypeOK /\ [Next]_vars => TypeOK'
<1> SUFFICES ASSUME TypeOK, [Next]_vars PROVE TypeOK'
  OBVIOUS
<1> USE DnsAssumption DEF TypeOK
<1>1. ASSUME NEW n \in Network, UpdateDNS(n) PROVE TypeOK'
  <2>1. IsView(shown[n])
    OBVIOUS
  <2>2. DOMAIN spec' = {n} /\ spec'[n] = shown[n]
    BY <1>1 DEF UpdateDNS
  <2>3. DOMAIN spec' \subseteq Network /\ \A m \in DOMAIN spec' : IsView(spec'[m])
    BY <2>1, <2>2
  <2>4. \A m \in Network : sent'[m] \in Views[m] \cup {None}
    BY <1>1 DEF UpdateDNS
  <2> QED
    BY <1>1, <2>3, <2>4 DEF UpdateDNS, IsView
<1>2. ASSUME NEW n \in Network, Applied(n) PROVE TypeOK'
  BY <1>2 DEF Applied, IsView
<1>3. ASSUME NEW n \in Network, ApplyFails(n) PROVE TypeOK'
  BY <1>3 DEF ApplyFails, IsView
<1>4. ASSUME NEW n \in Network, Change(n) PROVE TypeOK'
  <2>1. PICK v \in Views[n] : shown' = [shown EXCEPT ![n] = v]
    BY <1>4 DEF Change
  <2>2. \A m \in Network : shown'[m] \in Views[m]
    BY <2>1
  <2> QED
    BY <1>4, <2>2 DEF Change, IsView
<1>5. CASE RestartClients
  BY <1>5 DEF RestartClients, IsView
<1>6. CASE RestartDns
  <2>1. faults' \in 0 .. MaxFaults
    BY <1>6 DEF RestartDns
  <2> QED
    BY <1>6, <2>1 DEF RestartDns
<1>7. CASE UNCHANGED vars
  BY <1>7 DEF vars, IsView
<1> QED
  BY <1>1, <1>2, <1>3, <1>4, <1>5, <1>6, <1>7 DEF Next

\* What the server holds is a spec of this machine's networks, and what each
\* client has applied was once shown of its network.
THEOREM TypeCorrect == Spec => []TypeOK
<1> QED
  BY InitTypes, StepTypes, PTL DEF Spec

-----------------------------------------------------------------------------
(* Names *)

Letter == Piece \cup {Dot}

Name == Seq(Letter)

LEMMA ThreeNumbers ==
  ASSUME NEW k \in Nat, NEW l \in Nat, 0 < k, k < l
  PROVE  /\ Cardinality({0, k, l}) = 3
         /\ Nth({0, k, l}, 0) = 0 /\ Nth({0, k, l}, 1) = k /\ Nth({0, k, l}, 2) = l
<1>1. /\ IsFiniteSet({}) /\ Cardinality({}) = 0
      /\ IsFiniteSet({0}) /\ Cardinality({0}) = 1
  BY FS_EmptySet, FS_Singleton
<1>2. IsFiniteSet({0, k}) /\ Cardinality({0, k}) = 2
  <2>1. {0, k} = {0} \cup {k} /\ k \notin {0}
    OBVIOUS
  <2> QED
    BY <1>1, <2>1, FS_AddElement
<1>3. Cardinality({0, k, l}) = 3
  <2>1. {0, k, l} = {0, k} \cup {l} /\ l \notin {0, k}
    OBVIOUS
  <2> QED
    BY <1>2, <2>1, FS_AddElement
<1> DEFINE below(x) == {c \in {0, k, l} : c < x}
<1>4. below(0) = {} /\ below(k) = {0} /\ below(l) = {0, k}
  OBVIOUS
<1>5. Cardinality(below(0)) = 0 /\ Cardinality(below(k)) = 1 /\ Cardinality(below(l)) = 2
  BY <1>1, <1>2, <1>4
<1> HIDE DEF below
<1>6. \A i : Nth({0, k, l}, i) = CHOOSE x \in {0, k, l} : Cardinality(below(x)) = i
  BY DEF Nth, below
<1>7. \A x \in {0, k, l} : /\ Cardinality(below(x)) = 0 <=> x = 0
                           /\ Cardinality(below(x)) = 1 <=> x = k
                           /\ Cardinality(below(x)) = 2 <=> x = l
  BY <1>5
<1> QED
  BY <1>3, <1>6, <1>7

LEMMA Part ==
  ASSUME NEW T, NEW s \in Seq(T), NEW m \in 1 .. Len(s) + 1, NEW n \in 0 .. Len(s)
  PROVE  /\ SubSeq(s, m, n) \in Seq(T)
         /\ Len(SubSeq(s, m, n)) = IF m <= n THEN n - m + 1 ELSE 0
         /\ \A i \in 1 .. n - m + 1 : SubSeq(s, m, n)[i] = s[m + i - 1]
<1>1. \A i \in m .. n : s[i] \in T
  <2>1. \A i \in m .. n : i \in 1 .. Len(s)
    OBVIOUS
  <2> QED
    BY <2>1, ElementOfSeq
<1>2. m \in Int /\ n \in Int
  OBVIOUS
<1> QED
  BY <1>1, <1>2, SubSeqProperties

\* A piece of a sequence that is one element long.
LEMMA OnePart ==
  ASSUME NEW T, NEW s \in Seq(T), NEW m \in 1 .. Len(s) + 1, NEW n \in 0 .. Len(s), NEW x \in T
  PROVE  SubSeq(s, m, n) = <<x>> <=> m = n /\ s[m] = x
<1>1. /\ SubSeq(s, m, n) \in Seq(T)
      /\ Len(SubSeq(s, m, n)) = IF m <= n THEN n - m + 1 ELSE 0
      /\ \A i \in 1 .. n - m + 1 : SubSeq(s, m, n)[i] = s[m + i - 1]
  BY Part
<1>2. Len(<<x>>) = 1 /\ <<x>>[1] = x /\ <<x>> \in Seq(T)
  OBVIOUS
<1> DEFINE p == SubSeq(s, m, n)
<1> HIDE DEF p
<1>3. ASSUME p = <<x>> PROVE m = n /\ s[m] = x
  <2>1. Len(p) = 1 /\ p[1] = x
    BY <1>2, <1>3
  <2>2. m = n
    BY <1>1, <2>1 DEF p
  <2>3. p[1] = s[m]
    BY <1>1, <2>2 DEF p
  <2> QED
    BY <2>1, <2>2, <2>3
<1>4. ASSUME m = n, s[m] = x PROVE p = <<x>>
  <2>1. p \in Seq(T) /\ Len(p) = 1 /\ p[1] = x
    BY <1>1, <1>4 DEF p
  <2> QED
    BY <1>2, <2>1, SeqEqual
<1> QED
  BY <1>3, <1>4 DEF p

LEMMA TwoPlaces ==
  ASSUME NEW x \in Int, 1 .. x = 1 .. 2 PROVE x = 2
<1>1. 2 \in 1 .. 2 /\ 3 \notin 1 .. 2
  OBVIOUS
<1>2. 2 \in 1 .. x /\ 3 \notin 1 .. x
  BY <1>1, Zenon
<1> QED
  BY <1>2

\* What stands before and after place k is one letter each.
LEMMA OneBefore ==
  ASSUME NEW name \in Name, NEW d \in Piece, NEW k \in 1 .. Len(name)
  PROVE  SubSeq(name, 1, k - 1) = <<d>> <=> k = 2 /\ name[1] = d
<1>1. d \in Letter /\ k - 1 \in 0 .. Len(name) /\ 1 \in 1 .. Len(name) + 1
  BY DEF Letter, Name
<1>2. SubSeq(name, 1, k - 1) = <<d>> <=> 1 = k - 1 /\ name[1] = d
  BY <1>1, OnePart DEF Name
<1> QED
  BY <1>2

LEMMA OneAfter ==
  ASSUME NEW name \in Name, NEW d \in Piece, NEW k \in 1 .. Len(name)
  PROVE  SubSeq(name, k + 1, Len(name)) = <<d>> <=> k + 1 = Len(name) /\ name[k + 1] = d
<1>1. d \in Letter /\ k + 1 \in 1 .. Len(name) + 1 /\ Len(name) \in 0 .. Len(name)
  BY DEF Letter, Name
<1> QED
  BY <1>1, OnePart DEF Name

\* The one name whose labels are d and n is d.n.
LEMMA TwoLabels ==
  ASSUME NEW name \in Name, NEW d \in Piece, NEW n \in Piece
  PROVE  SplitDots(name) = <<<<d>>, <<n>>>> <=> name = <<d, Dot, n>>
<1> USE DEF Name
<1> DEFINE dots == {k \in DOMAIN name : name[k] = Dot}
           l == Len(name) + 1
<1>1. DOMAIN name = 1 .. Len(name) /\ Len(name) \in Nat
  OBVIOUS
<1>0. d # Dot /\ n # Dot
  BY DnsAssumption
<1>2. Cuts(name) = {0, l} \cup dots
  BY DEF Cuts
<1>3. ASSUME NEW k \in dots, dots = {k}
      PROVE  SplitDots(name) = <<SubSeq(name, 1, k - 1), SubSeq(name, k + 1, Len(name))>>
  <2>1. Cuts(name) = {0, k, l} /\ k \in Nat /\ l \in Nat /\ 0 < k /\ k < l
    BY <1>1, <1>2, <1>3
  <2>2. /\ Cardinality(Cuts(name)) = 3 /\ Nth(Cuts(name), 0) = 0
        /\ Nth(Cuts(name), 1) = k /\ Nth(Cuts(name), 2) = l
    <3> HIDE DEF l, dots
    <3>1. /\ Cardinality({0, k, l}) = 3
          /\ Nth({0, k, l}, 0) = 0 /\ Nth({0, k, l}, 1) = k /\ Nth({0, k, l}, 2) = l
      BY <2>1, ThreeNumbers
    <3> QED
      BY <2>1, <3>1
  <2>3. SplitDots(name) = [i \in 1 .. 2 |->
           SubSeq(name, Nth(Cuts(name), i - 1) + 1, Nth(Cuts(name), i) - 1)]
    BY <2>2 DEF SplitDots
  <2>4. [i \in 1 .. 2 |->
           SubSeq(name, Nth(Cuts(name), i - 1) + 1, Nth(Cuts(name), i) - 1)]
          = <<SubSeq(name, Nth(Cuts(name), 0) + 1, Nth(Cuts(name), 1) - 1),
              SubSeq(name, Nth(Cuts(name), 1) + 1, Nth(Cuts(name), 2) - 1)>>
    OBVIOUS
  <2>5. 0 + 1 = 1 /\ l - 1 = Len(name)
    BY <1>1
  <2> QED
    BY <2>2, <2>3, <2>4, <2>5
<1>4. CASE name = <<d, Dot, n>>
  <2>1. dots = {2} /\ Len(name) = 3
    BY <1>0, <1>4
  <2>2. PICK k \in dots : k = 2
    BY <2>1
  <2>3. /\ k \in 1 .. Len(name) /\ name[1] = d /\ name[k + 1] = n
        /\ k + 1 = Len(name) /\ dots = {k}
    BY <1>4, <2>1, <2>2
  <2> HIDE DEF dots
  <2>4. SubSeq(name, 1, k - 1) = <<d>>
    BY <2>2, <2>3, OneBefore
  <2>5. SubSeq(name, k + 1, Len(name)) = <<n>>
    BY <2>3, OneAfter
  <2> QED
    BY <1>3, <1>4, <2>3, <2>4, <2>5
<1>5. CASE SplitDots(name) = <<<<d>>, <<n>>>>
  <2>1. Cardinality(Cuts(name)) - 1 = 2
    <3>1. DOMAIN SplitDots(name) = 1 .. Cardinality(Cuts(name)) - 1
      BY DEF SplitDots
    <3>2. DOMAIN SplitDots(name) = 1 .. 2
      BY <1>5
    <3>3. IsFiniteSet(Cuts(name))
      <4>1. Cuts(name) \subseteq 0 .. l
        BY <1>1, <1>2
      <4>2. IsFiniteSet(0 .. l)
        BY <1>1, FS_Interval
      <4> QED
        BY <4>1, <4>2, FS_Subset
    <3>4. Cardinality(Cuts(name)) \in Nat
      BY <3>3, FS_CardinalityType
    <3>6. 1 .. Cardinality(Cuts(name)) - 1 = 1 .. 2
      BY <3>1, <3>2, Zenon
    <3>5. 1 .. Cardinality(Cuts(name)) - 1 = 1 .. 2 /\ Cardinality(Cuts(name)) - 1 \in Int
      BY <3>4, <3>6
    <3> QED
      BY <3>5, TwoPlaces
  <2>2. PICK k : dots = {k}
    <3>1. IsFiniteSet(dots)
      <4>1. IsFiniteSet(1 .. Len(name))
        BY <1>1, FS_Interval
      <4> QED
        BY <1>1, <4>1, FS_Subset
    <3>2. Cuts(name) = (dots \cup {0}) \cup {l}
      BY <1>2
    <3>3. 0 \notin dots /\ l \notin dots \cup {0}
      BY <1>1
    <3> HIDE DEF dots, l
    <3>4. IsFiniteSet(dots \cup {0}) /\ Cardinality(dots \cup {0}) = Cardinality(dots) + 1
      BY <3>1, <3>3, FS_AddElement
    <3>5. Cardinality(Cuts(name)) = Cardinality(dots \cup {0}) + 1
      BY <3>2, <3>3, <3>4, FS_AddElement
    <3>6. Cardinality(dots) \in Nat
      BY <3>1, FS_CardinalityType
    <3>7. Cardinality(dots) = 1
      BY <2>1, <3>4, <3>5, <3>6
    <3> QED
      BY <3>1, <3>7, FS_Singleton
  <2>3. k \in dots
    BY <2>2
  <2>4. SubSeq(name, 1, k - 1) = <<d>> /\ SubSeq(name, k + 1, Len(name)) = <<n>>
    <3>1. SplitDots(name) = <<SubSeq(name, 1, k - 1), SubSeq(name, k + 1, Len(name))>>
      BY <1>3, <2>2, <2>3
    <3> DEFINE x == SubSeq(name, 1, k - 1)
               y == SubSeq(name, k + 1, Len(name))
    <3> HIDE DEF x, y
    <3>2. <<x, y>> = <<<<d>>, <<n>>>>
      BY <1>5, <3>1 DEF x, y
    <3>3. x = <<d>> /\ y = <<n>>
      BY <3>2
    <3> QED
      BY <3>3 DEF x, y
  <2>5. k \in 1 .. Len(name) /\ name[k] = Dot
    BY <1>1, <2>3
  <2>6. k = 2 /\ name[1] = d
    BY <2>4, <2>5, OneBefore
  <2>7. k + 1 = Len(name) /\ name[k + 1] = n
    BY <2>4, <2>5, OneAfter
  <2>9. Len(name) = 3 /\ name[1] = d /\ name[2] = Dot /\ name[3] = n
    BY <2>5, <2>6, <2>7
  <2>8. name = <<d, Dot, n>>
    <3>1. <<d, Dot, n>> \in Name /\ Len(<<d, Dot, n>>) = 3
      BY DEF Letter
    <3> QED
      BY <2>9, <3>1, SeqEqual
  <2> QED
    BY <1>5, <2>8
<1> QED
  BY <1>4, <1>5

\* There is always a label, and the labels make a sequence.
LEMMA Labels ==
  ASSUME NEW name \in Name
  PROVE  \E T : SplitDots(name) \in Seq(T) /\ SplitDots(name) # <<>>
<1> DEFINE l == Len(name) + 1
           N == Cardinality(Cuts(name)) - 1
           T == {SplitDots(name)[i] : i \in 1 .. N}
<1>1. Len(name) \in Nat /\ DOMAIN name = 1 .. Len(name)
  BY DEF Name
<1>2. IsFiniteSet(Cuts(name))
  <2>1. Cuts(name) \subseteq 0 .. l
    BY <1>1 DEF Cuts
  <2>2. IsFiniteSet(0 .. l)
    BY <1>1, FS_Interval
  <2> QED
    BY <2>1, <2>2, FS_Subset
<1>3. N \in Nat /\ N >= 1
  <2>1. {0, l} \subseteq Cuts(name) /\ 0 # l
    BY <1>1 DEF Cuts
  <2> HIDE DEF l
  <2>2. Cardinality({0, l}) = 2
    <3>1. IsFiniteSet({0}) /\ Cardinality({0}) = 1
      BY FS_Singleton
    <3>2. {0, l} = {0} \cup {l} /\ l \notin {0}
      BY <2>1
    <3> QED
      BY <3>1, <3>2, FS_AddElement
  <2>3. Cardinality(Cuts(name)) \in Nat /\ Cardinality({0, l}) <= Cardinality(Cuts(name))
    BY <1>2, <2>1, FS_Subset, FS_CardinalityType
  <2> QED
    BY <2>2, <2>3
<1> HIDE DEF l, N
<1>4. SplitDots(name) \in [1 .. N -> T]
  BY DEF SplitDots, N
<1> HIDE DEF T
<1>5. SplitDots(name) \in Seq(T) /\ Len(SplitDots(name)) = N
  BY <1>3, <1>4
<1>6. Len(<<>>) = 0
  OBVIOUS
<1> QED
  BY <1>3, <1>5, <1>6

LEMMA ReversePair ==
  ASSUME NEW T, NEW s \in Seq(T), NEW x, NEW y
  PROVE  Reverse(s) = <<y, x>> <=> s = <<x, y>>
<1>1. /\ Len(s) \in Nat /\ DOMAIN s = 1 .. Len(s) /\ DOMAIN Reverse(s) = 1 .. Len(s)
      /\ \A i \in 1 .. Len(s) : Reverse(s)[i] = s[Len(s) - i + 1]
      /\ s = [i \in 1 .. Len(s) |-> s[i]]
  BY DEF Reverse
<1>2. ASSUME s = <<x, y>> PROVE Reverse(s) = <<y, x>>
  BY <1>2 DEF Reverse
<1>3. ASSUME Reverse(s) = <<y, x>> PROVE s = <<x, y>>
  <2>1. 1 .. Len(s) = 1 .. 2
    <3>1. DOMAIN <<y, x>> = 1 .. 2
      OBVIOUS
    <3> QED
      BY <1>1, <1>3, <3>1
  <2>2. Len(s) = 2
    BY <1>1, <2>1, TwoPlaces
  <2>3. Reverse(s)[1] = y /\ Reverse(s)[2] = x
    BY <1>3
  <2>4. s[1] = x /\ s[2] = y
    BY <1>1, <2>2, <2>3
  <2> QED
    BY <1>1, <2>2, <2>4
<1> QED
  BY <1>2, <1>3

LEMMA ReverseEmpty ==
  ASSUME NEW T, NEW s \in Seq(T), Reverse(s) = <<>> PROVE s = <<>>
<1>1. DOMAIN Reverse(s) = 1 .. Len(s) /\ Len(s) \in Nat
  BY DEF Reverse
<1>2. 1 .. Len(s) = {}
  BY <1>1
<1>3. Len(s) = 0
  BY <1>1, <1>2
<1> QED
  BY <1>3, EmptySeq

\* A name ends in what it has been put together with, and in nothing else.
LEMMA EndsIn ==
  ASSUME NEW s \in Name, NEW t \in Name
  PROVE  IsSuffix(s, t) <=>
           /\ Len(s) <= Len(t)
           /\ t = SubSeq(t, 1, Len(t) - Len(s)) \o s
<1> USE DEF Name
<1> DEFINE r == Reverse(s)
           u == Reverse(t)
           m == Len(t) - Len(s)
<1>1. Len(s) \in Nat /\ Len(t) \in Nat
  OBVIOUS
<1>2. /\ r \in Seq(Letter) /\ Len(r) = Len(s) /\ u \in Seq(Letter) /\ Len(u) = Len(t)
      /\ \A i \in 1 .. Len(s) : r[i] = s[Len(s) - i + 1]
      /\ \A i \in 1 .. Len(t) : u[i] = t[Len(t) - i + 1]
  BY DEF Reverse
<1>3. ASSUME Len(s) <= Len(t)
      PROVE  SubSeq(r, 1, Len(r)) = SubSeq(u, 1, Len(r)) <=>
               \A i \in 1 .. Len(s) : t[m + i] = s[i]
  <2> DEFINE v == SubSeq(r, 1, Len(r))
             w == SubSeq(u, 1, Len(r))
  <2> HIDE DEF r, u
  <2>1. 1 \in 1 .. Len(r) + 1 /\ Len(r) \in 0 .. Len(r)
    BY <1>1, <1>2
  <2>2. 1 \in 1 .. Len(u) + 1 /\ Len(r) \in 0 .. Len(u)
    BY <1>1, <1>2, <1>3
  <2>3. v \in Seq(Letter) /\ Len(v) = Len(s) /\ \A i \in 1 .. Len(s) : v[i] = r[i]
    BY <1>1, <1>2, <2>1, Part
  <2>4. w \in Seq(Letter) /\ Len(w) = Len(s) /\ \A i \in 1 .. Len(s) : w[i] = u[i]
    BY <1>1, <1>2, <2>2, Part
  <2> HIDE DEF v, w
  <2>5. v = w <=> \A i \in 1 .. Len(s) : r[i] = u[i]
    BY <2>3, <2>4, SeqEqual
  <2>6. ASSUME \A i \in 1 .. Len(s) : r[i] = u[i], NEW i \in 1 .. Len(s)
        PROVE  t[m + i] = s[i]
    <3> DEFINE k == Len(s) - i + 1
    <3>1. k \in 1 .. Len(s) /\ k \in 1 .. Len(t) /\ Len(s) - k + 1 = i /\ Len(t) - k + 1 = m + i
      BY <1>1, <1>3
    <3> HIDE DEF k
    <3>2. r[k] = s[Len(s) - k + 1] /\ u[k] = t[Len(t) - k + 1] /\ r[k] = u[k]
      BY <1>2, <2>6, <3>1
    <3> QED
      BY <3>1, <3>2
  <2>7. ASSUME \A i \in 1 .. Len(s) : t[m + i] = s[i], NEW i \in 1 .. Len(s)
        PROVE  r[i] = u[i]
    <3> DEFINE k == Len(s) - i + 1
    <3>1. k \in 1 .. Len(s) /\ i \in 1 .. Len(t) /\ Len(t) - i + 1 = m + k
      BY <1>1, <1>3
    <3>2. r[i] = s[k] /\ u[i] = t[m + k]
      BY <1>2, <3>1
    <3> HIDE DEF k
    <3> QED
      BY <2>7, <3>1, <3>2
  <2> QED
    BY <2>5, <2>6, <2>7 DEF v, w
<1>4. ASSUME Len(s) <= Len(t)
      PROVE  t = SubSeq(t, 1, m) \o s <=> \A i \in 1 .. Len(s) : t[m + i] = s[i]
  <2>1. m \in 0 .. Len(t) /\ 1 \in 1 .. Len(t) + 1
    BY <1>1, <1>4
  <2> DEFINE h == SubSeq(t, 1, m)
  <2>2. h \in Seq(Letter) /\ Len(h) = m /\ \A i \in 1 .. m : h[i] = t[i]
    <3> HIDE DEF m
    <3> QED
      BY <2>1, Part
  <2> HIDE DEF h
  <2>3. /\ h \o s \in Seq(Letter) /\ Len(h \o s) = Len(t)
        /\ \A i \in 1 .. Len(t) : (h \o s)[i] = IF i <= m THEN h[i] ELSE s[i - m]
    BY <1>1, <2>2, ConcatProperties
  <2>4. ASSUME t = h \o s, NEW i \in 1 .. Len(s) PROVE t[m + i] = s[i]
    BY <1>1, <1>4, <2>3, <2>4
  <2>5. ASSUME \A i \in 1 .. Len(s) : t[m + i] = s[i] PROVE t = h \o s
    <3>1. ASSUME NEW i \in 1 .. Len(t) PROVE t[i] = (h \o s)[i]
      <4>1. CASE i <= m
        BY <2>1, <2>2, <2>3, <4>1
      <4>2. CASE ~(i <= m)
        <5>1. i - m \in 1 .. Len(s) /\ m + (i - m) = i
          BY <1>1, <2>1, <4>2
        <5>2. t[m + (i - m)] = s[i - m]
          BY <2>5, <5>1
        <5> QED
          BY <2>3, <4>2, <5>1, <5>2
      <4> QED
        BY <4>1, <4>2
    <3> QED
      BY <2>3, <3>1, SeqEqual
  <2> QED
    BY <2>4, <2>5 DEF h
<1>5. IsSuffix(s, t) <=> Len(s) <= Len(t) /\ SubSeq(r, 1, Len(r)) = SubSeq(u, 1, Len(r))
  BY <1>2 DEF IsSuffix, IsPrefix
<1> HIDE DEF r, u
<1>6. IsSuffix(s, t) <=> Len(s) <= Len(t) /\ t = SubSeq(t, 1, m) \o s
  BY <1>3, <1>4, <1>5
<1> QED
  BY <1>6

LEMMA EndsInEnd ==
  ASSUME NEW u \in Name, NEW s \in Name
  PROVE  IsSuffix(s, u \o s) /\ SubSeq(u \o s, 1, Len(u \o s) - Len(s)) = u
<1> DEFINE t == u \o s
           h == SubSeq(t, 1, Len(t) - Len(s))
<1>1. /\ t \in Name /\ Len(t) = Len(u) + Len(s) /\ Len(u) \in Nat /\ Len(s) \in Nat
      /\ \A i \in 1 .. Len(u) : t[i] = u[i]
  BY DEF Name
<1> HIDE DEF t
<1>2. Len(t) - Len(s) = Len(u) /\ Len(u) \in 0 .. Len(t) /\ 1 \in 1 .. Len(t) + 1
  BY <1>1
<1>3. /\ SubSeq(t, 1, Len(u)) \in Name /\ Len(SubSeq(t, 1, Len(u))) = Len(u)
      /\ \A i \in 1 .. Len(u) : SubSeq(t, 1, Len(u))[i] = t[i]
  BY <1>1, <1>2, Part DEF Name
<1>4. SubSeq(t, 1, Len(u)) = u
  BY <1>1, <1>3, SeqEqual DEF Name
<1>5. h = u
  BY <1>2, <1>4
<1>6. t = h \o s /\ Len(s) <= Len(t)
  BY <1>1, <1>5 DEF t
<1> HIDE DEF h
<1>7. IsSuffix(s, t) <=> Len(s) <= Len(t) /\ t = h \o s
  BY <1>1, EndsIn DEF h
<1> QED
  BY <1>5, <1>6, <1>7 DEF t, h

LEMMA Pairs ==
  ASSUME NEW x, NEW y
  PROVE  <<>> # <<x, y>> /\ <<x>> \o <<y>> = <<x, y>>
<1>1. Len(<<>>) = 0 /\ Len(<<x, y>>) = 2
  OBVIOUS
<1>2. <<x>> \o <<y>> = <<x, y>>
  <2> DEFINE T == {x, y}
             u == <<x>>
             v == <<y>>
             w == <<x, y>>
  <2>1. /\ u \in Seq(T) /\ Len(u) = 1 /\ u[1] = x
        /\ v \in Seq(T) /\ Len(v) = 1 /\ v[1] = y
        /\ w \in Seq(T) /\ Len(w) = 2 /\ w[1] = x /\ w[2] = y
    OBVIOUS
  <2> HIDE DEF T, u, v, w
  <2>2. u \o v \in Seq(T) /\ Len(u \o v) = 2 /\ (u \o v)[1] = x /\ (u \o v)[2] = y
    BY <2>1, ConcatProperties
  <2>3. u \o v = w
    BY <2>1, <2>2, SeqEqual
  <2> QED
    BY <2>3 DEF u, v, w
<1> QED
  BY <1>1, <1>2

\* The parts of a name are those of device d of network n for the names of d
\* under this parent, and for no others.
LEMMA NamedIsOwn ==
  ASSUME NEW p \in Parent, ParentOK(p), NEW name \in Name, IsSuffix(p.Suffix, name),
         NEW n \in Network, NEW d \in Device
  PROVE  IsNamed(Parts(name, p), n, d) <=> name \in OwnNames(p, n, d)
<1> DEFINE left == SubSeq(name, 1, Len(name) - Len(p.Suffix))
           rest == IF left = <<>> THEN <<>> ELSE Reverse(SplitDots(left))
<1>1. p.Suffix \in Name
  BY DEF Parent, Name, Letter
<1>2. Len(p.Suffix) <= Len(name) /\ name = left \o p.Suffix
  BY <1>1, EndsIn
<1>3. left \in Name
  <2>1. Len(name) \in Nat /\ Len(p.Suffix) \in Nat
    BY <1>1 DEF Name
  <2>2. 1 \in 1 .. Len(name) + 1 /\ Len(name) - Len(p.Suffix) \in 0 .. Len(name)
    BY <1>2, <2>1
  <2> QED
    BY <2>2, Part DEF Name
<1>4. n \in Piece /\ d \in Piece /\ n # None /\ d # None
  BY DnsAssumption
<1>5. \A u \in Name : u \o p.Suffix = left \o p.Suffix <=> u = left
  BY <1>1, <1>3, ConcatSimplifications DEF Name
<1>6. <<>> \in Name /\ <<>> \o p.Suffix = p.Suffix /\ <<d, Dot, n>> \in Name
  <2>1. d \in Letter /\ n \in Letter /\ Dot \in Letter
    BY <1>4 DEF Letter
  <2> QED
    BY <1>1, <2>1, ConcatEmptySeq DEF Name
<1>7. PICK T : SplitDots(left) \in Seq(T) /\ SplitDots(left) # <<>>
  BY <1>3, Labels
<1> HIDE DEF left
<1>8. CASE p.Network = None
  <2>1. p.Device = None
    BY <1>8 DEF ParentOK
  <2>2. Parts(name, p) = rest
    <3>1. \E S : rest \in Seq(S)
      <4>1. Reverse(SplitDots(left)) \in Seq(T)
        BY <1>7 DEF Reverse
      <4> QED
        BY <4>1
    <3> HIDE DEF rest
    <3>2. Parts(name, p) = (<<>> \o <<>>) \o rest
      BY <1>8, <2>1 DEF Parts, rest, left
    <3>3. PICK S : rest \in Seq(S)
      BY <3>1
    <3>4. <<>> \in Seq(S)
      OBVIOUS
    <3>5. <<>> \o <<>> = <<>> /\ <<>> \o rest = rest
      BY <3>3, <3>4, ConcatEmptySeq, Zenon
    <3>6. (<<>> \o <<>>) \o rest = rest
      BY <3>5, Zenon
    <3> QED
      BY <3>2, <3>6
  <2>3. OwnNames(p, n, d) = {<<d, Dot, n>> \o p.Suffix}
    BY <1>4, <1>8 DEF OwnNames
  <2>4. name \in OwnNames(p, n, d) <=> left = <<d, Dot, n>>
    BY <1>2, <1>5, <1>6, <2>3
  <2>5. rest = <<<<n>>, <<d>>>> <=> left = <<d, Dot, n>>
    <3>1. CASE left = <<>>
      <4>1. <<>> # <<<<n>>, <<d>>>> /\ <<>> # <<d, Dot, n>>
        OBVIOUS
      <4> QED
        BY <3>1, <4>1
    <3>2. CASE left # <<>>
      <4>1. \A x, y : Reverse(SplitDots(left)) = <<y, x>> <=> SplitDots(left) = <<x, y>>
        BY <1>7, ReversePair
      <4>2. SplitDots(left) = <<<<d>>, <<n>>>> <=> left = <<d, Dot, n>>
        BY <1>3, <1>4, TwoLabels
      <4> QED
        BY <3>2, <4>1, <4>2
    <3> QED
      BY <3>1, <3>2
  <2> QED
    BY <2>2, <2>4, <2>5 DEF IsNamed
<1>9. CASE p.Network # None
  <2>1. p.Device # None
    BY <1>9 DEF ParentOK
  <2> DEFINE m == p.Network
             e == p.Device
  <2>2. Parts(name, p) = (<<<<m>>>> \o <<<<e>>>>) \o rest
    BY <1>9, <2>1 DEF Parts, left
  <2>3. name \in OwnNames(p, n, d) <=> m = n /\ e = d /\ left = <<>>
    <3>1. name = p.Suffix <=> left = <<>>
      BY <1>2, <1>5, <1>6
    <3> QED
      BY <1>9, <3>1 DEF OwnNames
  <2>4. rest = <<>> <=> left = <<>>
    BY <1>7, ReverseEmpty
  <2>5. \E S : rest \in Seq(S) /\ <<m>> \in S /\ <<e>> \in S
    <3>1. Reverse(SplitDots(left)) \in Seq(T)
      BY <1>7 DEF Reverse
    <3>2. Reverse(SplitDots(left)) \in Seq(T \cup {<<m>>, <<e>>})
      BY <3>1, SeqMonotonic
    <3>3. rest \in Seq(T \cup {<<m>>, <<e>>})
      BY <3>2
    <3> QED
      BY <3>3
  <2> HIDE DEF rest, m, e
  <2>6. (<<<<m>>>> \o <<<<e>>>>) \o rest = <<<<n>>, <<d>>>> <=> m = n /\ e = d /\ rest = <<>>
    <3>1. PICK S : rest \in Seq(S) /\ <<m>> \in S /\ <<e>> \in S
      BY <2>5
    <3> DEFINE s == <<<<m>>>> \o <<<<e>>>>
    <3>2. s \in Seq(S) /\ Len(s) = 2 /\ s[1] = <<m>> /\ s[2] = <<e>> /\ s = <<<<m>>, <<e>>>>
      <4>1. s = <<<<m>>, <<e>>>>
        BY Pairs
      <4> HIDE DEF s
      <4> QED
        BY <3>1, <4>1
    <3> HIDE DEF s
    <3>3. ASSUME s \o rest = <<<<n>>, <<d>>>> PROVE m = n /\ e = d /\ rest = <<>>
      <4>1. /\ Len(s \o rest) = 2 + Len(rest) /\ Len(rest) \in Nat
            /\ (s \o rest)[1] = <<m>> /\ (s \o rest)[2] = <<e>>
        BY <3>1, <3>2
      <4>2. Len(<<<<n>>, <<d>>>>) = 2
        OBVIOUS
      <4>3. Len(rest) = 0
        BY <3>3, <4>1, <4>2
      <4>4. <<n>> = <<m>> /\ <<d>> = <<e>>
        BY <3>3, <4>1
      <4>5. rest = <<>>
        BY <3>1, <4>3, EmptySeq
      <4> QED
        BY <4>4, <4>5
    <3>4. ASSUME m = n, e = d, rest = <<>> PROVE s \o rest = <<<<n>>, <<d>>>>
      BY <3>2, <3>4, ConcatEmptySeq
    <3> QED
      BY <3>3, <3>4 DEF s
  <2> QED
    BY <2>2, <2>3, <2>4, <2>6 DEF IsNamed
<1> QED
  BY <1>8, <1>9

-----------------------------------------------------------------------------
(* Queries *)

\* Of the parents that match there is a first.
LEMMA FirstMatches ==
  ASSUME TypeOK, NEW name, Matching(name) # {}
  PROVE  First(name) \in Matching(name)
<1>1. Matching(name) \subseteq Nat
  <2>1. parents \in Seq(Parent)
    BY DnsAssumption DEF TypeOK
  <2> QED
    BY <2>1 DEF Matching
<1>2. PICK i \in Matching(name) : \A j \in Matching(name) : <<j, i>> \notin OpToRel(<, Nat)
  BY <1>1, NatLessThanWellFounded, WFMin
<1>3. \A j \in Matching(name) : i <= j
  <2> SUFFICES ASSUME NEW j \in Matching(name) PROVE ~(j < i)
    BY <1>1
  <2> QED
    BY <1>1, <1>2 DEF OpToRel
<1>4. \E k \in Matching(name) : \A j \in Matching(name) : k <= j
  BY <1>3
<1> QED
  BY <1>4 DEF First

\* The configuration stays the one that NewServer accepted.
Accepted == NewServerAccepts(parents)

LEMMA AcceptedStays ==
  /\ Init => Accepted
  /\ Accepted /\ [Next]_vars => Accepted'
<1>1. Init => Accepted
  BY DEF Init, Accepted
<1>2. [Next]_vars => parents' = parents
  BY DEF Next, UpdateDNS, Applied, ApplyFails, Change, RestartClients, RestartDns, vars
<1> QED
  BY <1>1, <1>2 DEF Accepted

\* The parent that is asked, and what its suffix says.
LEMMA ParentAsked ==
  ASSUME TypeOK, Accepted, NEW i \in DOMAIN parents
  PROVE  /\ parents[i] \in Parent /\ ParentOK(parents[i]) /\ parents[i].Suffix \in Name
         /\ \A name : i \in Matching(name) => IsSuffix(parents[i].Suffix, name)
<1>1. parents \in Seq(Parent)
  BY DnsAssumption DEF TypeOK
<1>2. parents[i] \in Parent
  BY <1>1
<1> QED
  BY <1>2 DEF Accepted, NewServerAccepts, Parent, Name, Letter, Matching

LEMMA OwnNamesOnly ==
  TypeOK /\ Accepted => OnlyOwnNames
<1> SUFFICES ASSUME TypeOK, Accepted, NEW name \in QueryNames, NEW qtype \in {"A", "AAAA"},
                    HandleQuery(name, qtype).records # {}
             PROVE  \E n \in DOMAIN spec : \E d \in DOMAIN spec[n], i \in DOMAIN parents :
                      name \in OwnNames(parents[i], n, d)
  BY DEF OnlyOwnNames
<1>1. name \in Name
  BY DnsAssumption DEF QueryNames, BoundedSeq, SeqOf, Name, Letter
<1>2. Matching(name) # {} /\ HandleParent(name, parents[First(name)]).records # {}
  BY DEF HandleQuery, Reply
<1> DEFINE i == First(name)
           p == parents[i]
<1>3. i \in Matching(name)
  BY <1>2, FirstMatches
<1>4. i \in DOMAIN parents /\ p \in Parent /\ ParentOK(p) /\ IsSuffix(p.Suffix, name)
  BY <1>3, ParentAsked DEF Matching
<1> HIDE DEF i
<1> DEFINE found == {nd \in Network \X Device :
                       /\ IsNamed(Parts(name, p), nd[1], nd[2])
                       /\ nd[1] \in DOMAIN spec /\ nd[2] \in DOMAIN spec[nd[1]]}
<1>5. found # {}
  BY <1>2 DEF HandleParent, Reply, i
<1>6. PICK nd \in Network \X Device :
        /\ IsNamed(Parts(name, p), nd[1], nd[2])
        /\ nd[1] \in DOMAIN spec /\ nd[2] \in DOMAIN spec[nd[1]]
  BY <1>5
<1>7. name \in OwnNames(p, nd[1], nd[2])
  <2>1. nd[1] \in Network /\ nd[2] \in Device
    OBVIOUS
  <2> HIDE DEF p
  <2> QED
    BY <1>1, <1>4, <1>6, <2>1, NamedIsOwn
<1> QED
  BY <1>4, <1>6, <1>7

\* A query gets addresses only for a name of a device that the server knows:
\* nothing that handleParent cuts off and turns round leaves a second way to
\* write it, for any parents that NewServer accepts.
THEOREM NoOtherNames == Spec => []OnlyOwnNames
<1> QED
  BY InitTypes, StepTypes, AcceptedStays, OwnNamesOnly, PTL DEF Spec

-----------------------------------------------------------------------------
(* Machines with one network *)

\* What the client has given to the server is what the server holds, until
\* the server's process starts again.
Given ==
  \A n \in Network : pc[n] # "idle" =>
    /\ sent[n] \in Views[n]
    /\ spec = [m \in {n} |-> sent[n]] \/ (~self /\ spec = None)

LEMMA GivenStays ==
  ASSUME \A m, n \in Network : m = n
  PROVE  /\ Init => Given
         /\ TypeOK /\ Given /\ [Next]_vars => Given'
<1>1. Init => Given
  BY DEF Init, Given
<1>2. ASSUME TypeOK, Given, [Next]_vars PROVE Given'
  <2> USE DEF Given
  <2>1. ASSUME NEW n \in Network, UpdateDNS(n) PROVE Given'
    <3>1. spec' = [m \in {n} |-> shown[n]] /\ sent'[n] = shown[n] /\ shown[n] \in Views[n]
      BY <1>2, <2>1 DEF UpdateDNS, TypeOK
    <3>2. \A k \in Network : k = n
      OBVIOUS
    <3> QED
      BY <3>1, <3>2
  <2>2. ASSUME NEW n \in Network, Applied(n) PROVE Given'
    BY <1>2, <2>2 DEF Applied
  <2>3. ASSUME NEW n \in Network, ApplyFails(n) PROVE Given'
    BY <1>2, <2>3 DEF ApplyFails, TypeOK
  <2>4. ASSUME NEW n \in Network, Change(n) PROVE Given'
    BY <1>2, <2>4 DEF Change
  <2>5. CASE RestartClients
    BY <1>2, <2>5 DEF RestartClients
  <2>6. CASE RestartDns
    BY <1>2, <2>6 DEF RestartDns
  <2>7. CASE UNCHANGED vars
    BY <1>2, <2>7 DEF vars
  <2> QED
    BY <1>2, <2>1, <2>2, <2>3, <2>4, <2>5, <2>6, <2>7 DEF Next
<1> QED
  BY <1>1, <1>2

\* The answer for a device's own name, by a server that holds its network.
LEMMA OwnNameAnswered ==
  ASSUME TypeOK, Accepted, NEW n \in Network, sent[n] \in Views[n],
         spec = [m \in {n} |-> sent[n]]
  PROVE  Resolves(n)
<1> DEFINE v == sent[n]
<1>1. IsView(v) /\ spec # None /\ DOMAIN spec = {n} /\ spec[n] = v
  BY DnsAssumption
<1> SUFFICES ASSUME NEW d \in DOMAIN v, NEW i \in DOMAIN parents,
                    NEW name \in OwnNames(parents[i], n, d), i = First(name)
             PROVE  HandleQuery(name, "A") = Reply("NOERROR", v[d] \cap IsHost)
  BY DEF Resolves
<1> DEFINE p == parents[i]
<1>2. d \in Device
  BY <1>1 DEF IsView
<1>3. p \in Parent /\ ParentOK(p) /\ p.Suffix \in Name
  BY ParentAsked
<1>4. name \in Name /\ IsSuffix(p.Suffix, name)
  <2> HIDE DEF p
  <2>1. name = <<d, Dot, n>> \o p.Suffix \/ name = p.Suffix
    <3>1. OwnNames(p, n, d) \subseteq {<<d, Dot, n>> \o p.Suffix, p.Suffix}
      <4>1. CASE p.Network = None
        <5>1. n # None
          BY DnsAssumption
        <5> QED
          BY <4>1, <5>1 DEF OwnNames
      <4>2. CASE p.Network # None
        BY <4>2 DEF OwnNames
      <4> QED
        BY <4>1, <4>2
    <3> QED
      BY <3>1 DEF p
  <2>2. <<d, Dot, n>> \in Name /\ <<>> \in Name
    <3>1. d \in Letter /\ n \in Letter /\ Dot \in Letter
      BY <1>2, DnsAssumption DEF Letter
    <3> QED
      BY <3>1 DEF Name
  <2>3. <<d, Dot, n>> \o p.Suffix \in Name /\ IsSuffix(p.Suffix, <<d, Dot, n>> \o p.Suffix)
    <3> DEFINE u == <<d, Dot, n>>
    <3>1. u \in Name
      BY <2>2
    <3> HIDE DEF u
    <3>2. u \o p.Suffix \in Name /\ IsSuffix(p.Suffix, u \o p.Suffix)
      BY <1>3, <3>1, EndsInEnd, ConcatProperties DEF Name
    <3> QED
      BY <3>2 DEF u
  <2>4. p.Suffix = <<>> \o p.Suffix /\ IsSuffix(p.Suffix, <<>> \o p.Suffix)
    BY <1>3, <2>2, EndsInEnd, ConcatEmptySeq DEF Name
  <2> QED
    BY <1>3, <2>1, <2>3, <2>4
<1>5. Matching(name) # {} /\ parents[First(name)] = p
  BY <1>4 DEF Matching
<1> DEFINE found == {nd \in Network \X Device :
                       /\ IsNamed(Parts(name, p), nd[1], nd[2])
                       /\ nd[1] \in DOMAIN spec /\ nd[2] \in DOMAIN spec[nd[1]]}
<1>6. found = {<<n, d>>}
  <2>1. IsNamed(Parts(name, p), n, d)
    <3> HIDE DEF p
    <3> QED
      BY <1>2, <1>3, <1>4, NamedIsOwn DEF p
  <2>2. \A e \in Device : IsNamed(Parts(name, p), n, e) => e = d
    BY <2>1 DEF IsNamed
  <2> QED
    BY <1>1, <1>2, <2>1, <2>2
<1>7. HandleParent(name, p) = ReturnAddresses(spec[n][d])
  <2> DEFINE c == CHOOSE nd \in found : TRUE
  <2>1. c = <<n, d>> /\ found # {}
    BY <1>6
  <2>2. HandleParent(name, p) = ReturnAddresses(spec[c[1]][c[2]])
    BY <1>1, <2>1 DEF HandleParent
  <2> HIDE DEF c
  <2>3. c[1] = n /\ c[2] = d
    BY <2>1
  <2> QED
    BY <2>2, <2>3
<1> QED
  BY <1>1, <1>5, <1>7 DEF HandleQuery, ReturnAddresses, Reply

\* On a machine with one network, what its client has applied is what the DNS
\* server answers with, whatever is shown and whichever process starts again,
\* unless a server of its own forgot its spec.  (With two networks it is not.)
THEOREM ResolvesAlone ==
  ASSUME \A m, n \in Network : m = n
  PROVE  Spec => []ResolvesApplied
<1>1. Init => Given
  BY GivenStays
<1>2. TypeOK /\ Given /\ [Next]_vars => Given'
  BY GivenStays
<1>3. TypeOK /\ Accepted /\ Given => ResolvesApplied
  <2> SUFFICES ASSUME TypeOK, Accepted, Given, NEW n \in Network, pc[n] = "latest"
               PROVE  Resolves(n) \/ (~self /\ spec = None)
    BY DEF ResolvesApplied
  <2> QED
    BY OwnNameAnswered DEF Given
<1> QED
  BY <1>1, <1>2, <1>3, InitTypes, StepTypes, AcceptedStays, PTL DEF Spec
=============================================================================
