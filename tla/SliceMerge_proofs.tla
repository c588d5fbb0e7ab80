-------------------------- MODULE SliceMerge_proofs ---------------------------
(***************************************************************************)
(* What the loops of SliceMerge return, for lists of any length with any   *)
(* number of copies, and that their indices stay in bounds.                *)
(***************************************************************************)
EXTENDS SliceMerge, FiniteSetTheorems, TLAPS

-----------------------------------------------------------------------------
(* The inductive invariant *)

\* Sorting changes the order of the arguments, never what they hold.
SameElems == Elems(a) = Elems(given[1]) /\ Elems(b) = Elems(given[2])

Begun ==
  /\ pc = "sort" => i = 1 /\ j = 1 /\ result = <<>>
  /\ pc # "sort" => Sorted(a) /\ Sorted(b)
  /\ pc = "done" => IF Merges THEN i > Len(a) \/ j > Len(b) ELSE i = Len(a) + 1

\* What b holds before j is too small to be in the rest of a.
DifferenceInv ==
  ~Merges /\ i <= Len(a) => \A l \in 1 .. j - 1 : b[l] < a[i]

Inv == TypeOK /\ SameElems /\ Begun /\ DifferenceInv

-----------------------------------------------------------------------------
(* Lists *)

LEMMA FunctionIsSlice ==
  ASSUME NEW S, NEW n \in Nat, NEW s \in [1 .. n -> S]
  PROVE  s \in Seq(S) /\ Len(s) = n
OBVIOUS

LEMMA ElemsAppend ==
  ASSUME NEW s \in Slices, NEW x \in Elem
  PROVE  Append(s, x) \in Slices /\ Elems(Append(s, x)) = Elems(s) \cup {x}
<1>1. Append(s, x) \in Seq(Elem) /\ Len(Append(s, x)) = Len(s) + 1 /\ Len(s) \in Nat
  BY DEF Slices
<1>2. \A k \in 1 .. Len(s) : Append(s, x)[k] = s[k]
  BY DEF Slices
<1>3. Append(s, x)[Len(s) + 1] = x
  BY DEF Slices
<1>4. DOMAIN s = 1 .. Len(s) /\ DOMAIN Append(s, x) = 1 .. Len(s) + 1
  BY <1>1 DEF Slices
<1>. QED BY <1>1, <1>2, <1>3, <1>4 DEF Slices, Elems

\* Any rearrangement of a list of elements is one, of the same elements.
LEMMA RearrangedSame ==
  ASSUME NEW s \in Slices, NEW t \in [DOMAIN s -> Elems(s)], Rearranged(s, t)
  PROVE  t \in Slices /\ Len(t) = Len(s) /\ Elems(t) = Elems(s)
<1>1. Len(s) \in Nat /\ DOMAIN s = 1 .. Len(s) /\ Elems(s) \subseteq Elem
  BY DEF Slices, Elems
<1>2. t \in [1 .. Len(s) -> Elem]
  BY <1>1
<1>3. t \in Seq(Elem) /\ Len(t) = Len(s)
  BY <1>1, <1>2, FunctionIsSlice
<1>4. PICK p \in [DOMAIN s -> DOMAIN s] :
        /\ \A l \in DOMAIN s : \E k \in DOMAIN s : p[k] = l
        /\ t = [k \in DOMAIN s |-> s[p[k]]]
  BY DEF Rearranged
<1>5. Elems(t) = Elems(s)
  BY <1>4 DEF Elems
<1>. QED BY <1>3, <1>5 DEF Slices

-----------------------------------------------------------------------------
(* The steps *)

LEMMA InitInv ==
  Init => Inv
<1>. SUFFICES ASSUME Init PROVE Inv
  OBVIOUS
<1>1. PICK s, t \in UNION {[1 .. n -> Elem] : n \in 0 .. MaxLen} : given = <<s, t>>
  BY DEF Init
<1>2. s \in Slices /\ t \in Slices
  BY SliceAssumption, FunctionIsSlice DEF Slices
<1>3. TypeOK
  BY <1>1, <1>2 DEF Init, TypeOK, Slices
<1>4. SameElems /\ Begun
  BY DEF Init, SameElems, Begun
<1>5. DifferenceInv
  BY DEF DifferenceInv, Init
<1>. QED BY <1>3, <1>4, <1>5 DEF Inv

LEMMA SortInv ==
  ASSUME Inv, Sort
  PROVE  Inv'
<1>1. PICK s \in [DOMAIN a -> Elems(a)], t \in [DOMAIN b -> Elems(b)] :
        /\ Rearranged(a, s) /\ Sorted(s) /\ a' = s
        /\ Rearranged(b, t) /\ Sorted(t) /\ b' = t
  BY DEF Sort
<1>2. a \in Slices /\ b \in Slices
  BY DEF Inv, TypeOK
<1>3. /\ a' \in Slices /\ Len(a') = Len(a) /\ Elems(a') = Elems(a)
      /\ b' \in Slices /\ Len(b') = Len(b) /\ Elems(b') = Elems(b)
  BY <1>1, <1>2, RearrangedSame
<1>4. TypeOK'
  BY <1>3 DEF Inv, TypeOK, Sort
<1>5. SameElems'
  BY <1>3 DEF Inv, SameElems, Sort, Elems
<1>6. Begun'
  BY <1>1 DEF Begun, Sort
<1>7. DifferenceInv'
  BY DEF Inv, Begun, Sort, DifferenceInv
<1>. QED BY <1>4, <1>5, <1>6, <1>7 DEF Inv

\* The types that every step of the loops starts from.
LEMMA InLoopTypes ==
  ASSUME Inv
  PROVE  /\ Elem \subseteq Int
         /\ a \in Slices /\ b \in Slices /\ result \in Slices
         /\ Len(a) \in Nat /\ DOMAIN a = 1 .. Len(a)
         /\ Len(b) \in Nat /\ DOMAIN b = 1 .. Len(b)
         /\ i \in Nat /\ i >= 1 /\ j \in Nat /\ j >= 1
         /\ \A k \in 1 .. Len(a) : a[k] \in Elem
         /\ \A k \in 1 .. Len(b) : b[k] \in Elem
<1>1. a \in Slices /\ b \in Slices /\ result \in Slices
  BY DEF Inv, TypeOK
<1>2. /\ Len(a) \in Nat /\ DOMAIN a = 1 .. Len(a)
      /\ Len(b) \in Nat /\ DOMAIN b = 1 .. Len(b)
      /\ \A k \in 1 .. Len(a) : a[k] \in Elem
      /\ \A k \in 1 .. Len(b) : b[k] \in Elem
  BY <1>1 DEF Slices
<1>. QED BY <1>1, <1>2, SliceAssumption DEF Inv, TypeOK

LEMMA TakeEqualInv ==
  ASSUME Inv, TakeEqual
  PROVE  Inv'
<1>. USE InLoopTypes
<1>1. /\ i \in 1 .. Len(a) /\ j \in 1 .. Len(b) /\ a[i] = b[j] /\ Merges
      /\ i' = i + 1 /\ j' = j + 1 /\ result' = Append(result, a[i])
      /\ a' = a /\ b' = b /\ given' = given /\ alg' = alg /\ pc' = pc /\ pc = "loop"
  BY DEF TakeEqual, InLoop
<1>2. result' \in Slices /\ Elems(result') = Elems(result) \cup {a[i]}
  BY <1>1, ElemsAppend
<1>3. TypeOK'
  BY <1>1, <1>2 DEF Inv, TypeOK
<1>4. SameElems' /\ Begun'
  BY <1>1 DEF Inv, SameElems, Begun, Merges
<1>5. DifferenceInv'
  BY <1>1 DEF DifferenceInv, Merges
<1>. QED BY <1>3, <1>4, <1>5 DEF Inv

LEMMA SkipAInv ==
  ASSUME Inv, SkipA
  PROVE  Inv'
<1>. USE InLoopTypes
<1>1. /\ i \in 1 .. Len(a) /\ j \in 1 .. Len(b) /\ a[i] < b[j] /\ Merges
      /\ i' = i + 1 /\ j' = j /\ result' = result
      /\ a' = a /\ b' = b /\ given' = given /\ alg' = alg /\ pc' = pc /\ pc = "loop"
  BY DEF SkipA, InLoop
<1>2. TypeOK'
  BY <1>1 DEF Inv, TypeOK
<1>3. SameElems' /\ Begun'
  BY <1>1 DEF Inv, SameElems, Begun, Merges
<1>4. DifferenceInv'
  BY <1>1 DEF DifferenceInv, Merges
<1>. QED BY <1>2, <1>3, <1>4 DEF Inv

LEMMA SkipBInv ==
  ASSUME Inv, SkipB
  PROVE  Inv'
<1>. USE InLoopTypes
<1>1. /\ i \in 1 .. Len(a) /\ j \in 1 .. Len(b) /\ a[i] > b[j] /\ Merges
      /\ i' = i /\ j' = j + 1 /\ result' = result
      /\ a' = a /\ b' = b /\ given' = given /\ alg' = alg /\ pc' = pc /\ pc = "loop"
  BY DEF SkipB, InLoop
<1>2. TypeOK'
  BY <1>1 DEF Inv, TypeOK
<1>3. SameElems' /\ Begun'
  BY <1>1 DEF Inv, SameElems, Begun, Merges
<1>4. DifferenceInv'
  BY <1>1 DEF DifferenceInv, Merges
<1>. QED BY <1>2, <1>3, <1>4 DEF Inv

LEMMA PassBInv ==
  ASSUME Inv, PassB
  PROVE  Inv'
<1>. USE InLoopTypes
<1>1. /\ i \in 1 .. Len(a) /\ j \in 1 .. Len(b) /\ b[j] < a[i] /\ ~Merges
      /\ i' = i /\ j' = j + 1 /\ result' = result
      /\ a' = a /\ b' = b /\ given' = given /\ alg' = alg /\ pc' = pc /\ pc = "loop"
  BY DEF PassB, InLoop, Merges
<1>2. TypeOK'
  BY <1>1 DEF Inv, TypeOK
<1>3. SameElems' /\ Begun'
  BY <1>1 DEF Inv, SameElems, Begun, Merges
<1>4. \A l \in 1 .. j : b[l] < a[i]
  BY <1>1 DEF Inv, DifferenceInv
<1>5. DifferenceInv'
  BY <1>1, <1>4 DEF DifferenceInv, Merges
<1>. QED BY <1>2, <1>3, <1>5 DEF Inv

\* What the outer loop takes is what b does not hold.
LEMMA MissingInB ==
  ASSUME Inv, NextA
  PROVE  (j = Len(b) + 1 \/ (j <= Len(b) /\ a[i] < b[j])) <=> a[i] \notin Elems(b)
<1>. USE InLoopTypes
<1>. DEFINE missing == j = Len(b) + 1 \/ (j <= Len(b) /\ a[i] < b[j])
<1>1. /\ i \in 1 .. Len(a) /\ j \in 1 .. Len(b) + 1 /\ ~Merges
      /\ ~(j <= Len(b) /\ b[j] < a[i]) /\ pc = "loop"
  BY DEF NextA, Merges, Inv, TypeOK
<1>2. missing <=> a[i] \notin Elems(b)
  <2>1. \A l \in 1 .. j - 1 : b[l] < a[i]
    BY <1>1 DEF Inv, DifferenceInv
  <2>2. j <= Len(b) => \A l \in j .. Len(b) : b[j] <= b[l]
    BY <1>1 DEF Inv, Begun, Sorted
  <2>3. a[i] \in Int /\ \A l \in 1 .. Len(b) : b[l] \in Int
    BY <1>1
  <2>4. CASE missing
    <3>1. \A l \in 1 .. Len(b) : b[l] # a[i]
      BY <2>1, <2>2, <2>3, <2>4, <1>1
    <3>. QED BY <3>1, <2>4 DEF Elems
  <2>5. CASE ~missing
    <3>1. j \in 1 .. Len(b)
      BY <2>5, <1>1
    <3>2. ~(a[i] < b[j]) /\ ~(b[j] < a[i])
      BY <2>5, <3>1, <1>1
    <3>3. b[j] = a[i]
      BY <2>3, <3>1, <3>2
    <3>. QED BY <3>1, <3>3, <2>5 DEF Elems
  <2>. QED BY <2>4, <2>5
<1>. QED BY <1>2

LEMMA NextAInv ==
  ASSUME Inv, NextA
  PROVE  Inv'
<1>. USE InLoopTypes
<1>. DEFINE missing == j = Len(b) + 1 \/ (j <= Len(b) /\ a[i] < b[j])
<1>1. /\ i \in 1 .. Len(a) /\ j \in 1 .. Len(b) + 1 /\ ~Merges
      /\ ~(j <= Len(b) /\ b[j] < a[i])
      /\ i' = i + 1 /\ j' = j
      /\ result' = IF missing THEN Append(result, a[i]) ELSE result
      /\ a' = a /\ b' = b /\ given' = given /\ alg' = alg /\ pc' = pc /\ pc = "loop"
  BY DEF NextA, Merges, Inv, TypeOK
<1>2. /\ result' \in Slices
      /\ Elems(result') = IF missing THEN Elems(result) \cup {a[i]} ELSE Elems(result)
  BY <1>1, ElemsAppend
<1>3. TypeOK'
  BY <1>1, <1>2 DEF Inv, TypeOK
<1>4. SameElems' /\ Begun'
  BY <1>1 DEF Inv, SameElems, Begun, Merges
<1>5. i' <= Len(a) => \A l \in 1 .. j - 1 : b[l] < a[i']
  <2>. SUFFICES ASSUME i + 1 <= Len(a), NEW l \in 1 .. j - 1
                PROVE  b[l] < a[i + 1]
    BY <1>1
  <2>1. b[l] < a[i] /\ l \in 1 .. Len(b)
    BY <1>1 DEF Inv, DifferenceInv
  <2>2. a[i] <= a[i + 1]
    BY <1>1 DEF Inv, Begun, Sorted
  <2>. QED BY <2>1, <2>2, <1>1
<1>6. DifferenceInv'
  BY <1>1, <1>5 DEF DifferenceInv, Merges
<1>. QED BY <1>3, <1>4, <1>6 DEF Inv

LEMMA FinishInv ==
  ASSUME Inv, Finish
  PROVE  Inv'
<1>. USE InLoopTypes
<1>1. /\ a' = a /\ b' = b /\ given' = given /\ alg' = alg /\ i' = i /\ j' = j
      /\ result' = result /\ pc = "loop" /\ pc' = "done"
      /\ IF Merges THEN i > Len(a) \/ j > Len(b) ELSE i = Len(a) + 1
  BY DEF Finish, InLoop
<1>2. TypeOK'
  BY <1>1 DEF Inv, TypeOK
<1>3. SameElems' /\ Begun'
  BY <1>1 DEF Inv, SameElems, Begun, Merges
<1>4. DifferenceInv'
  BY <1>1 DEF Inv, DifferenceInv, Merges
<1>. QED BY <1>2, <1>3, <1>4 DEF Inv

LEMMA StepInv ==
  Inv /\ [Next]_vars => Inv'
<1>. SUFFICES ASSUME Inv, [Next]_vars PROVE Inv'
  OBVIOUS
<1>1. CASE Next
  BY <1>1, SortInv, TakeEqualInv, SkipAInv, SkipBInv, PassBInv, NextAInv, FinishInv
  DEF Next
<1>2. CASE UNCHANGED vars
  BY <1>2 DEF vars, Inv, TypeOK, SameElems, Begun, DifferenceInv, Merges
<1>. QED BY <1>1, <1>2

-----------------------------------------------------------------------------
(* The theorems *)

\* Indices never leave the slices by more than one place, results are slices.
THEOREM TypeCorrect == Spec => []TypeOK
<1>1. Init => Inv
  BY InitInv
<1>2. Inv /\ [Next]_vars => Inv'
  BY StepInv
<1>3. Inv => TypeOK
  BY DEF Inv
<1>. QED BY <1>1, <1>2, <1>3, PTL DEF Spec

-----------------------------------------------------------------------------
(* Counting copies *)

\* How many of the first n places of s hold x.
Upto(s, n, x) == Cardinality({k \in 1 .. n : s[k] = x})

LEMMA UptoFacts ==
  ASSUME NEW s \in Slices, NEW n \in 0 .. Len(s), NEW x
  PROVE  /\ Upto(s, n, x) \in Nat /\ Copies(s, x) \in Nat
         /\ Upto(s, n, x) <= Copies(s, x)
         /\ (\A l \in n + 1 .. Len(s) : s[l] # x) => Upto(s, n, x) = Copies(s, x)
<1>1. Len(s) \in Nat /\ DOMAIN s = 1 .. Len(s) /\ n \in Nat /\ n <= Len(s)
  BY DEF Slices
<1> DEFINE all == {k \in 1 .. Len(s) : s[k] = x}
           some == {k \in 1 .. n : s[k] = x}
<1>2. IsFiniteSet(1 .. Len(s))
  BY <1>1, FS_Interval
<1>3. IsFiniteSet(all) /\ Cardinality(all) \in Nat
  BY <1>2, FS_Subset, FS_CardinalityType
<1>4. some \subseteq all
  BY <1>1
<1>5. IsFiniteSet(some) /\ Cardinality(some) \in Nat /\ Cardinality(some) <= Cardinality(all)
  BY <1>3, <1>4, FS_Subset, FS_CardinalityType
<1>6. (\A l \in n + 1 .. Len(s) : s[l] # x) => some = all
  BY <1>1
<1>7. Upto(s, n, x) = Cardinality(some) /\ Copies(s, x) = Cardinality(all)
  BY <1>1 DEF Upto, Copies
<1> HIDE DEF some, all
<1> QED
  BY <1>3, <1>5, <1>6, <1>7

LEMMA UptoNone ==
  ASSUME NEW s, NEW x PROVE Upto(s, 0, x) = 0
<1>1. {k \in 1 .. 0 : s[k] = x} = {}
  OBVIOUS
<1> QED
  BY <1>1, FS_EmptySet DEF Upto

LEMMA UptoNext ==
  ASSUME NEW s \in Slices, NEW n \in 1 .. Len(s), NEW x
  PROVE  Upto(s, n, x) = IF s[n] = x THEN Upto(s, n - 1, x) + 1 ELSE Upto(s, n - 1, x)
<1>1. Len(s) \in Nat /\ n \in Nat /\ n >= 1
  BY DEF Slices
<1> DEFINE before == {k \in 1 .. n - 1 : s[k] = x}
<1>2. IsFiniteSet(before)
  <2>1. IsFiniteSet(1 .. n - 1)
    BY <1>1, FS_Interval
  <2> QED
    BY <2>1, FS_Subset
<1>3. n \notin before
  BY <1>1
<1>4. {k \in 1 .. n : s[k] = x} = IF s[n] = x THEN before \cup {n} ELSE before
  BY <1>1
<1>5. Cardinality(before \cup {n}) = Cardinality(before) + 1
  BY <1>2, <1>3, FS_AddElement
<1> QED
  BY <1>4, <1>5 DEF Upto

\* A place that holds x is one more than the places before it do.
LEMMA UptoLeft ==
  ASSUME NEW s \in Slices, NEW n \in 1 .. Len(s)
  PROVE  Upto(s, n - 1, s[n]) < Copies(s, s[n])
<1>1. n - 1 \in 0 .. Len(s) /\ n \in 0 .. Len(s)
  BY DEF Slices
<1>2. Upto(s, n, s[n]) = Upto(s, n - 1, s[n]) + 1
  BY UptoNext
<1>3. Upto(s, n, s[n]) <= Copies(s, s[n]) /\ Copies(s, s[n]) \in Nat
  BY <1>1, UptoFacts
<1>4. Upto(s, n - 1, s[n]) \in Nat
  BY <1>1, UptoFacts
<1> QED
  BY <1>2, <1>3, <1>4

LEMMA CopiesAppend ==
  ASSUME NEW s \in Slices, NEW y \in Elem, NEW x
  PROVE  Copies(Append(s, y), x) = IF y = x THEN Copies(s, x) + 1 ELSE Copies(s, x)
<1> DEFINE t == Append(s, y)
           n == Len(s) + 1
<1>1. /\ t \in Slices /\ Len(t) = n /\ Len(s) \in Nat /\ t[n] = y
      /\ DOMAIN s = 1 .. Len(s) /\ DOMAIN t = 1 .. n
      /\ \A k \in 1 .. Len(s) : t[k] = s[k]
  BY DEF Slices
<1>2. Upto(t, n, x) = IF t[n] = x THEN Upto(t, n - 1, x) + 1 ELSE Upto(t, n - 1, x)
  <2>1. n \in 1 .. Len(t)
    BY <1>1
  <2> HIDE DEF t, n
  <2> QED
    BY <1>1, <2>1, UptoNext
<1>3. Copies(t, x) = Upto(t, n, x)
  BY <1>1 DEF Copies, Upto
<1>4. Upto(t, n - 1, x) = Copies(s, x)
  <2>1. {k \in 1 .. n - 1 : t[k] = x} = {k \in DOMAIN s : s[k] = x}
    BY <1>1
  <2> QED
    BY <2>1 DEF Upto, Copies
<1> QED
  BY <1>1, <1>2, <1>3, <1>4

LEMMA NoCopies ==
  ASSUME NEW s \in Slices, NEW x PROVE Copies(s, x) = 0 <=> x \notin Elems(s)
<1> DEFINE all == {k \in 1 .. Len(s) : s[k] = x}
<1>1. Len(s) \in Nat /\ DOMAIN s = 1 .. Len(s)
  BY DEF Slices
<1>2. IsFiniteSet(1 .. Len(s))
  BY <1>1, FS_Interval
<1>3. IsFiniteSet(all)
  BY <1>2, FS_Subset
<1>4. Cardinality(all) = 0 <=> all = {}
  BY <1>3, FS_EmptySet
<1> QED
  BY <1>1, <1>4 DEF Copies, Elems

\* The order of a list has no say in how often it holds x.
LEMMA RearrangedCopies ==
  ASSUME NEW s \in Slices, NEW t, Rearranged(s, t), NEW x
  PROVE  Copies(t, x) = Copies(s, x)
<1>1. Len(s) \in Nat /\ DOMAIN s = 1 .. Len(s)
  BY DEF Slices
<1>2. PICK p \in [DOMAIN s -> DOMAIN s] :
        /\ \A k, l \in DOMAIN s : p[k] = p[l] => k = l
        /\ \A l \in DOMAIN s : \E k \in DOMAIN s : p[k] = l
        /\ t = [k \in DOMAIN s |-> s[p[k]]]
  BY DEF Rearranged
<1> DEFINE S == {k \in DOMAIN s : t[k] = x}
           T == {k \in DOMAIN s : s[k] = x}
           q == [k \in S |-> p[k]]
<1>3. IsFiniteSet(S)
  <2>1. IsFiniteSet(1 .. Len(s))
    BY <1>1, FS_Interval
  <2> QED
    BY <1>1, <2>1, FS_Subset
<1>4. q \in [S -> T]
  BY <1>2
<1>5. \A k, l \in S : q[k] = q[l] => k = l
  BY <1>2
<1>6. \A l \in T : \E k \in S : q[k] = l
  BY <1>2
<1>7. q \in Bijection(S, T)
  <2> HIDE DEF q, S, T
  <2> QED
    BY <1>4, <1>5, <1>6 DEF Bijection, Injection, IsInjective, Surjection
<1>8. Cardinality(T) = Cardinality(S)
  BY <1>3, <1>7, FS_Bijection DEF ExistsBijection
<1>9. DOMAIN t = DOMAIN s
  BY <1>2
<1> QED
  BY <1>8, <1>9 DEF Copies

-----------------------------------------------------------------------------
(* The inductive invariant of the copies *)

\* Sorting changes the order of the arguments, never how often they hold x.
SameCopies ==
  \A x \in Elem : /\ Copies(a, x) = Copies(given[1], x)
                  /\ Copies(b, x) = Copies(given[2], x)

\* What is taken comes in order, and before all that is still ahead in a.
TakenInOrder ==
  pc # "sort" =>
    Sorted(result) /\ \A k \in DOMAIN result : \A l \in i .. Len(a) : result[k] <= a[l]

\* Copies are taken in pairs, until one list has no more of them: then it is
\* the other that passes its own by.
Paired(x) ==
  LET inA == Upto(a, i - 1, x)  inB == Upto(b, j - 1, x)  taken == Copies(result, x)
  IN \/ taken = inA /\ taken = inB
     \/ taken = inA /\ inA = Copies(a, x) /\ inA <= inB
     \/ taken = inB /\ inB = Copies(b, x) /\ inB <= inA

\* Every copy that i has passed is kept, unless b holds one.
Kept(x) == Copies(result, x) = IF x \in Elems(b) THEN 0 ELSE Upto(a, i - 1, x)

CopiesInv ==
  /\ SameCopies /\ TakenInOrder
  /\ Merges => \A x \in Elem : Paired(x)
  /\ ~Merges => \A x \in Elem : Kept(x)

LEMMA InitCopies ==
  Init => CopiesInv
<1> SUFFICES ASSUME Init PROVE CopiesInv
  OBVIOUS
<1>1. \A x : Copies(<<>>, x) = 0
  <2>1. \A x : {k \in DOMAIN <<>> : <<>>[k] = x} = {}
    OBVIOUS
  <2> QED
    BY <2>1, FS_EmptySet DEF Copies
<1>2. \A x : Upto(a, i - 1, x) = 0 /\ Upto(b, j - 1, x) = 0
  BY UptoNone DEF Init
<1>3. SameCopies /\ TakenInOrder
  BY DEF Init, SameCopies, TakenInOrder
<1>4. \A x \in Elem : Paired(x) /\ Kept(x)
  BY <1>1, <1>2 DEF Init, Paired, Kept
<1> QED
  BY <1>3, <1>4 DEF CopiesInv

LEMMA SortCopies ==
  ASSUME Inv, CopiesInv, Sort
  PROVE  CopiesInv'
<1>1. PICK s \in [DOMAIN a -> Elems(a)], t \in [DOMAIN b -> Elems(b)] :
        /\ Rearranged(a, s) /\ a' = s
        /\ Rearranged(b, t) /\ b' = t
  BY DEF Sort
<1>2. /\ i' = 1 /\ j' = 1 /\ result' = <<>> /\ result = <<>> /\ i = 1 /\ j = 1
      /\ given' = given /\ alg' = alg
  BY DEF Inv, Begun, Sort
<1>3. \A x \in Elem : Copies(a', x) = Copies(a, x) /\ Copies(b', x) = Copies(b, x)
  BY <1>1, RearrangedCopies DEF Inv, TypeOK
<1>4. SameCopies'
  <2> SUFFICES ASSUME NEW x \in Elem
               PROVE  /\ Copies(a', x) = Copies(given'[1], x)
                      /\ Copies(b', x) = Copies(given'[2], x)
    BY DEF SameCopies, Copies
  <2> QED
    BY <1>2, <1>3 DEF CopiesInv, SameCopies
<1>5. TakenInOrder'
  BY <1>2 DEF TakenInOrder, Sorted
<1>6. \A x : Copies(<<>>, x) = 0
  <2>1. \A x : {k \in DOMAIN <<>> : <<>>[k] = x} = {}
    OBVIOUS
  <2> QED
    BY <2>1, FS_EmptySet DEF Copies
<1>7. ASSUME NEW x \in Elem PROVE Paired(x)' /\ Kept(x)'
  <2>1. Upto(a', i' - 1, x) = 0 /\ Upto(b', j' - 1, x) = 0 /\ Copies(result', x) = 0
    BY <1>2, <1>6, UptoNone
  <2> QED
    BY <2>1 DEF Paired, Kept, Upto, Copies
<1> QED
  BY <1>4, <1>5, <1>7 DEF CopiesInv

\* An element at the end of what is taken, where nothing ahead is smaller.
LEMMA AppendInOrder ==
  ASSUME Inv, CopiesInv, pc # "sort", i \in 1 .. Len(a)
  PROVE  /\ Sorted(Append(result, a[i]))
         /\ \A k \in DOMAIN Append(result, a[i]) : \A l \in i + 1 .. Len(a) :
              Append(result, a[i])[k] <= a[l]
<1> USE InLoopTypes
<1> DEFINE t == Append(result, a[i])
           n == Len(result)
<1>1. /\ n \in Nat /\ DOMAIN result = 1 .. n /\ DOMAIN t = 1 .. n + 1
      /\ t[n + 1] = a[i] /\ \A k \in 1 .. n : t[k] = result[k] /\ result[k] \in Int
  BY DEF Slices
<1>2. /\ \A k, l \in 1 .. n : k < l => result[k] <= result[l]
      /\ \A k \in 1 .. n : \A l \in i .. Len(a) : result[k] <= a[l]
  BY <1>1 DEF CopiesInv, TakenInOrder, Sorted
<1>3. \A l \in i .. Len(a) : a[i] <= a[l] /\ a[l] \in Int
  BY DEF Inv, Begun, Sorted
<1> HIDE DEF t, n
<1>4. Sorted(t)
  <2> SUFFICES ASSUME NEW k \in 1 .. n + 1, NEW l \in 1 .. n + 1, k < l PROVE t[k] <= t[l]
    BY <1>1 DEF Sorted
  <2>1. k \in 1 .. n
    BY <1>1
  <2>2. CASE l \in 1 .. n
    BY <1>1, <1>2, <2>1, <2>2
  <2>3. CASE l = n + 1
    BY <1>1, <1>2, <2>1, <2>3
  <2> QED
    BY <1>1, <2>2, <2>3
<1>5. ASSUME NEW k \in 1 .. n + 1, NEW l \in i + 1 .. Len(a) PROVE t[k] <= a[l]
  <2>1. CASE k \in 1 .. n
    BY <1>1, <1>2, <2>1
  <2>2. CASE k = n + 1
    BY <1>1, <1>3, <2>2
  <2> QED
    BY <1>1, <2>1, <2>2
<1> QED
  BY <1>1, <1>4, <1>5 DEF t

LEMMA TakeEqualCopies ==
  ASSUME Inv, CopiesInv, TakeEqual
  PROVE  CopiesInv'
<1> USE InLoopTypes
<1>1. /\ i \in 1 .. Len(a) /\ j \in 1 .. Len(b) /\ a[i] = b[j] /\ Merges
      /\ i' = i + 1 /\ j' = j + 1 /\ result' = Append(result, a[i])
      /\ a' = a /\ b' = b /\ given' = given /\ alg' = alg /\ pc' = pc /\ pc = "loop"
  BY DEF TakeEqual, InLoop
<1>2. SameCopies'
  BY <1>1 DEF CopiesInv, SameCopies, Copies
<1>3. TakenInOrder'
  BY <1>1, AppendInOrder DEF TakenInOrder, Sorted
<1>4. ASSUME NEW x \in Elem PROVE Paired(x)'
  <2>1. /\ Upto(a, i, x) = IF a[i] = x THEN Upto(a, i - 1, x) + 1 ELSE Upto(a, i - 1, x)
        /\ Upto(b, j, x) = IF a[i] = x THEN Upto(b, j - 1, x) + 1 ELSE Upto(b, j - 1, x)
        /\ Copies(Append(result, a[i]), x)
             = IF a[i] = x THEN Copies(result, x) + 1 ELSE Copies(result, x)
    BY <1>1, UptoNext, CopiesAppend
  <2>2. a[i] = x => Upto(a, i - 1, x) < Copies(a, x) /\ Upto(b, j - 1, x) < Copies(b, x)
    BY <1>1, UptoLeft
  <2>3. /\ Upto(a, i - 1, x) \in Nat /\ Upto(b, j - 1, x) \in Nat
        /\ Copies(a, x) \in Nat /\ Copies(b, x) \in Nat
    <3>1. i - 1 \in 0 .. Len(a) /\ j - 1 \in 0 .. Len(b)
      BY <1>1
    <3> QED
      BY <3>1, UptoFacts
  <2>4. Paired(x)
    BY <1>1 DEF CopiesInv
  <2>5. i' - 1 = i /\ j' - 1 = j
    BY <1>1
  <2>6. /\ Upto(a, i - 1, x)' = Upto(a, i, x) /\ Upto(b, j - 1, x)' = Upto(b, j, x)
        /\ Copies(result, x)' = Copies(Append(result, a[i]), x)
        /\ Copies(a, x)' = Copies(a, x) /\ Copies(b, x)' = Copies(b, x)
    BY <1>1, <2>5 DEF Upto, Copies
  <2>7. CASE a[i] = x
    BY <2>1, <2>2, <2>3, <2>4, <2>6, <2>7 DEF Paired
  <2>8. CASE a[i] # x
    BY <2>1, <2>4, <2>6, <2>8 DEF Paired
  <2> QED
    BY <2>7, <2>8
<1> QED
  BY <1>1, <1>2, <1>3, <1>4 DEF CopiesInv, Merges

\* A list that only moves one index past places that do not hold x.
LEMMA SkipACopies ==
  ASSUME Inv, CopiesInv, SkipA
  PROVE  CopiesInv'
<1> USE InLoopTypes
<1>1. /\ i \in 1 .. Len(a) /\ j \in 1 .. Len(b) /\ a[i] < b[j] /\ Merges
      /\ i' = i + 1 /\ j' = j /\ result' = result
      /\ a' = a /\ b' = b /\ given' = given /\ alg' = alg /\ pc' = pc /\ pc = "loop"
  BY DEF SkipA, InLoop
<1>2. SameCopies'
  BY <1>1 DEF CopiesInv, SameCopies, Copies
<1>3. TakenInOrder'
  BY <1>1 DEF CopiesInv, TakenInOrder, Sorted
<1>4. \A l \in j .. Len(b) : b[l] # a[i]
  <2>1. \A l \in j .. Len(b) : b[j] <= b[l] /\ b[l] \in Int /\ b[j] \in Int /\ a[i] \in Int
    BY <1>1 DEF Inv, Begun, Sorted, Slices
  <2> QED
    BY <1>1, <2>1
<1>5. ASSUME NEW x \in Elem PROVE Paired(x)'
  <2>1. Upto(a, i, x) = IF a[i] = x THEN Upto(a, i - 1, x) + 1 ELSE Upto(a, i - 1, x)
    BY <1>1, UptoNext
  <2>2. a[i] = x => Upto(a, i - 1, x) < Copies(a, x)
    BY <1>1, UptoLeft
  <2>3. i - 1 \in 0 .. Len(a) /\ j - 1 \in 0 .. Len(b)
    BY <1>1
  <2>4. /\ Upto(a, i - 1, x) \in Nat /\ Upto(b, j - 1, x) \in Nat
        /\ Copies(a, x) \in Nat /\ Copies(b, x) \in Nat
        /\ Upto(b, j - 1, x) <= Copies(b, x)
    BY <2>3, UptoFacts
  <2>5. a[i] = x => Upto(b, j - 1, x) = Copies(b, x)
    <3>1. a[i] = x => \A l \in (j - 1) + 1 .. Len(b) : b[l] # x
      BY <1>1, <1>4
    <3> QED
      BY <2>3, <3>1, UptoFacts
  <2>6. Paired(x)
    BY <1>1 DEF CopiesInv
  <2>7. i' - 1 = i /\ j' - 1 = j - 1
    BY <1>1
  <2>8. /\ Upto(a, i - 1, x)' = Upto(a, i, x) /\ Upto(b, j - 1, x)' = Upto(b, j - 1, x)
        /\ Copies(result, x)' = Copies(result, x)
        /\ Copies(a, x)' = Copies(a, x) /\ Copies(b, x)' = Copies(b, x)
    BY <1>1, <2>7 DEF Upto, Copies
  <2>9. CASE a[i] = x
    BY <2>1, <2>2, <2>4, <2>5, <2>6, <2>8, <2>9 DEF Paired
  <2>10. CASE a[i] # x
    BY <2>1, <2>6, <2>8, <2>10 DEF Paired
  <2> QED
    BY <2>9, <2>10
<1> QED
  BY <1>1, <1>2, <1>3, <1>5 DEF CopiesInv, Merges

LEMMA SkipBCopies ==
  ASSUME Inv, CopiesInv, SkipB
  PROVE  CopiesInv'
<1> USE InLoopTypes
<1>1. /\ i \in 1 .. Len(a) /\ j \in 1 .. Len(b) /\ a[i] > b[j] /\ Merges
      /\ i' = i /\ j' = j + 1 /\ result' = result
      /\ a' = a /\ b' = b /\ given' = given /\ alg' = alg /\ pc' = pc /\ pc = "loop"
  BY DEF SkipB, InLoop
<1>2. SameCopies'
  BY <1>1 DEF CopiesInv, SameCopies, Copies
<1>3. TakenInOrder'
  BY <1>1 DEF CopiesInv, TakenInOrder, Sorted
<1>4. \A k \in i .. Len(a) : a[k] # b[j]
  <2>1. \A k \in i .. Len(a) : a[i] <= a[k] /\ a[k] \in Int /\ a[i] \in Int /\ b[j] \in Int
    BY <1>1 DEF Inv, Begun, Sorted, Slices
  <2> QED
    BY <1>1, <2>1
<1>5. ASSUME NEW x \in Elem PROVE Paired(x)'
  <2>1. Upto(b, j, x) = IF b[j] = x THEN Upto(b, j - 1, x) + 1 ELSE Upto(b, j - 1, x)
    BY <1>1, UptoNext
  <2>2. b[j] = x => Upto(b, j - 1, x) < Copies(b, x)
    BY <1>1, UptoLeft
  <2>3. i - 1 \in 0 .. Len(a) /\ j - 1 \in 0 .. Len(b)
    BY <1>1
  <2>4. /\ Upto(a, i - 1, x) \in Nat /\ Upto(b, j - 1, x) \in Nat
        /\ Copies(a, x) \in Nat /\ Copies(b, x) \in Nat
        /\ Upto(a, i - 1, x) <= Copies(a, x)
    BY <2>3, UptoFacts
  <2>5. b[j] = x => Upto(a, i - 1, x) = Copies(a, x)
    <3>1. b[j] = x => \A k \in (i - 1) + 1 .. Len(a) : a[k] # x
      BY <1>1, <1>4
    <3> QED
      BY <2>3, <3>1, UptoFacts
  <2>6. Paired(x)
    BY <1>1 DEF CopiesInv
  <2>7. j' - 1 = j /\ i' - 1 = i - 1
    BY <1>1
  <2>8. /\ Upto(b, j - 1, x)' = Upto(b, j, x) /\ Upto(a, i - 1, x)' = Upto(a, i - 1, x)
        /\ Copies(result, x)' = Copies(result, x)
        /\ Copies(a, x)' = Copies(a, x) /\ Copies(b, x)' = Copies(b, x)
    BY <1>1, <2>7 DEF Upto, Copies
  <2>9. CASE b[j] = x
    BY <2>1, <2>2, <2>4, <2>5, <2>6, <2>8, <2>9 DEF Paired
  <2>10. CASE b[j] # x
    BY <2>1, <2>6, <2>8, <2>10 DEF Paired
  <2> QED
    BY <2>9, <2>10
<1> QED
  BY <1>1, <1>2, <1>3, <1>5 DEF CopiesInv, Merges

\* Steps that leave all but j, or all but pc, as it was.
LEMMA PassBCopies ==
  ASSUME Inv, CopiesInv, PassB
  PROVE  CopiesInv'
<1>1. /\ ~Merges /\ i' = i /\ result' = result /\ pc' = pc
      /\ a' = a /\ b' = b /\ given' = given /\ alg' = alg
  BY DEF PassB, Merges
<1>2. SameCopies' /\ TakenInOrder'
  BY <1>1 DEF CopiesInv, SameCopies, TakenInOrder, Copies, Sorted
<1>3. ASSUME NEW x \in Elem PROVE Kept(x)'
  <2>1. Kept(x)
    BY <1>1 DEF CopiesInv
  <2> QED
    BY <1>1, <2>1 DEF Kept, Copies, Elems, Upto
<1> QED
  BY <1>1, <1>2, <1>3 DEF CopiesInv, Merges

LEMMA FinishCopies ==
  ASSUME Inv, CopiesInv, Finish \/ UNCHANGED vars
  PROVE  CopiesInv'
<1>1. /\ i' = i /\ j' = j /\ result' = result /\ (pc' = "sort" => pc = "sort")
      /\ (pc = "sort" => pc' = "sort")
      /\ a' = a /\ b' = b /\ given' = given /\ alg' = alg
  BY DEF Finish, vars
<1>2. SameCopies' /\ TakenInOrder'
  BY <1>1 DEF CopiesInv, SameCopies, TakenInOrder, Copies, Sorted
<1>3. ASSUME NEW x \in Elem, Kept(x) PROVE Kept(x)'
  BY <1>1, <1>3 DEF Kept, Copies, Elems, Upto
<1>4. ASSUME NEW x \in Elem, Paired(x) PROVE Paired(x)'
  BY <1>1, <1>4 DEF Paired, Copies, Upto
<1> QED
  BY <1>1, <1>2, <1>3, <1>4 DEF CopiesInv, Merges

LEMMA NextACopies ==
  ASSUME Inv, CopiesInv, NextA
  PROVE  CopiesInv'
<1> USE InLoopTypes
<1> DEFINE missing == j = Len(b) + 1 \/ (j <= Len(b) /\ a[i] < b[j])
<1>1. /\ i \in 1 .. Len(a) /\ ~Merges /\ i' = i + 1 /\ j' = j
      /\ result' = IF missing THEN Append(result, a[i]) ELSE result
      /\ a' = a /\ b' = b /\ given' = given /\ alg' = alg /\ pc' = pc /\ pc = "loop"
  BY DEF NextA, Merges
<1>2. missing <=> a[i] \notin Elems(b)
  BY MissingInB
<1> HIDE DEF missing
<1>3. SameCopies'
  BY <1>1 DEF CopiesInv, SameCopies, Copies
<1>4. TakenInOrder'
  <2>1. CASE missing
    BY <1>1, <2>1, AppendInOrder DEF TakenInOrder, Sorted
  <2>2. CASE ~missing
    BY <1>1, <2>2 DEF CopiesInv, TakenInOrder, Sorted
  <2> QED
    BY <2>1, <2>2
<1>5. ASSUME NEW x \in Elem PROVE Kept(x)'
  <2>1. Upto(a, i, x) = IF a[i] = x THEN Upto(a, i - 1, x) + 1 ELSE Upto(a, i - 1, x)
    BY <1>1, UptoNext
  <2>2. Copies(Append(result, a[i]), x)
          = IF a[i] = x THEN Copies(result, x) + 1 ELSE Copies(result, x)
    BY <1>1, CopiesAppend
  <2>3. Kept(x)
    BY <1>1 DEF CopiesInv
  <2>4. i' - 1 = i
    BY <1>1
  <2>5. /\ Upto(a, i - 1, x)' = Upto(a, i, x) /\ Elems(b)' = Elems(b)
        /\ Copies(result, x)'
             = IF missing THEN Copies(Append(result, a[i]), x) ELSE Copies(result, x)
    BY <1>1, <2>4 DEF Upto, Copies, Elems
  <2> QED
    BY <1>2, <2>1, <2>2, <2>3, <2>5 DEF Kept
<1> QED
  BY <1>1, <1>3, <1>4, <1>5 DEF CopiesInv, Merges

\* At the end one list is used up, and the other has no more to give.
LEMMA DoneCopies ==
  Inv /\ CopiesInv => ReturnsRightCopies
<1> SUFFICES ASSUME Inv, CopiesInv, pc = "done", NEW x \in Elem
             PROVE  Copies(result, x)
                      = CASE ~Merges -> IF Copies(b, x) = 0 THEN Copies(a, x) ELSE 0
                          [] Merges /\ Copies(a, x) <= Copies(b, x) -> Copies(a, x)
                          [] OTHER -> Copies(b, x)
  <2> USE DEF CopiesInv, SameCopies, TakenInOrder
  <2> QED
    BY DEF ReturnsRightCopies
<1> USE InLoopTypes
<1>1. i \in 1 .. Len(a) + 1 /\ j \in 1 .. Len(b) + 1 /\ Len(a) \in Nat /\ Len(b) \in Nat
  BY DEF Inv, TypeOK, Slices
<1>2. i - 1 \in 0 .. Len(a) /\ j - 1 \in 0 .. Len(b)
  BY <1>1
<1>3. /\ Upto(a, i - 1, x) \in Nat /\ Upto(b, j - 1, x) \in Nat
      /\ Copies(a, x) \in Nat /\ Copies(b, x) \in Nat
      /\ Upto(a, i - 1, x) <= Copies(a, x) /\ Upto(b, j - 1, x) <= Copies(b, x)
  BY <1>2, UptoFacts
<1>4. /\ i > Len(a) => Upto(a, i - 1, x) = Copies(a, x)
      /\ j > Len(b) => Upto(b, j - 1, x) = Copies(b, x)
  <2>1. /\ i > Len(a) => \A l \in (i - 1) + 1 .. Len(a) : a[l] # x
        /\ j > Len(b) => \A l \in (j - 1) + 1 .. Len(b) : b[l] # x
    BY <1>1
  <2> QED
    BY <1>2, <2>1, UptoFacts
<1>5. CASE Merges
  <2>1. Paired(x) /\ (i > Len(a) \/ j > Len(b))
    BY <1>5 DEF CopiesInv, Inv, Begun
  <2> QED
    BY <1>3, <1>4, <1>5, <2>1 DEF Paired
<1>6. CASE ~Merges
  <2>1. Kept(x) /\ i > Len(a)
    BY <1>1, <1>6 DEF CopiesInv, Inv, Begun
  <2>2. Copies(b, x) = 0 <=> x \notin Elems(b)
    BY NoCopies
  <2> QED
    BY <1>4, <1>6, <2>1, <2>2 DEF Kept
<1> QED
  BY <1>5, <1>6

\* What is returned is in order and holds each element as often as it should:
\* sliceUnion and setIntersection the smaller number of copies, setDifference
\* all of them, for lists of any length with any number of copies.
THEOREM RightCopies == Spec => []ReturnsRightCopies
<1>1. Init => Inv
  BY InitInv
<1>2. Inv /\ [Next]_vars => Inv'
  BY StepInv
<1>3. Init => CopiesInv
  BY InitCopies
<1>4. Inv /\ CopiesInv /\ [Next]_vars => CopiesInv'
  BY SortCopies, TakeEqualCopies, SkipACopies, SkipBCopies, PassBCopies, NextACopies,
     FinishCopies DEF Next
<1>5. Inv /\ CopiesInv => ReturnsRightCopies
  BY DoneCopies
<1> QED
  BY <1>1, <1>2, <1>3, <1>4, <1>5, PTL DEF Spec
=============================================================================
