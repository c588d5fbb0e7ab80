----------------------------- MODULE SliceMerge ------------------------------
(***************************************************************************)
(* The three loops that merge two sorted slices: sliceUnion (coord), and   *)
(* setDifference and setIntersection (goal).  Each sorts both arguments    *)
(* and walks through them with two indices.  The comments ask for unique   *)
(* values, or for sets; the callers pass lists with several copies, both   *)
(* of names (Server.latest) and of prefixes (AllowedIPs of several peers). *)
(*                                                                         *)
(* One step is one iteration of the innermost loop.  Indices count from 1. *)
(***************************************************************************)
EXTENDS Integers, Sequences, FiniteSets

CONSTANTS
  Elem,         \* what the slices hold, in the order of less
  MaxLen        \* bound: length of the slices a run starts with

ASSUME SliceAssumption == Elem \subseteq Int /\ MaxLen \in Nat

VARIABLES alg, given, a, b, i, j, result, pc

vars == <<alg, given, a, b, i, j, result, pc>>

Slices == Seq(Elem)

TypeOK ==
  /\ alg \in {"sliceUnion", "setDifference", "setIntersection"}
  /\ a \in Slices /\ b \in Slices /\ result \in Slices
  /\ given[1] \in Slices /\ given[2] \in Slices
  /\ i \in 1 .. Len(a) + 1 /\ j \in 1 .. Len(b) + 1
  /\ pc \in {"sort", "loop", "done"}

-----------------------------------------------------------------------------

Copies(s, x) == Cardinality({k \in DOMAIN s : s[k] = x})

Sorted(s) == \A k, l \in DOMAIN s : k < l => s[k] <= s[l]

Elems(s) == {s[k] : k \in DOMAIN s}

\* t is s in another order: there is a one-to-one map of the places onto
\* themselves.
Rearranged(s, t) ==
  \E p \in [DOMAIN s -> DOMAIN s] :
    /\ \A k, l \in DOMAIN s : p[k] = p[l] => k = l
    /\ \A l \in DOMAIN s : \E k \in DOMAIN s : p[k] = l
    /\ t = [k \in DOMAIN s |-> s[p[k]]]

\* slices.Sort or sort.Slice of both arguments, in place.
Sort ==
  /\ pc = "sort"
  /\ \E s \in [DOMAIN a -> Elems(a)], t \in [DOMAIN b -> Elems(b)] :
       /\ Rearranged(a, s) /\ Sorted(s) /\ a' = s
       /\ Rearranged(b, t) /\ Sorted(t) /\ b' = t
  /\ pc' = "loop"
  /\ UNCHANGED <<alg, given, i, j, result>>

InLoop == pc = "loop" /\ i <= Len(a) /\ j <= Len(b)

Merges == alg \in {"sliceUnion", "setIntersection"}

\* Mutation of TakeEqual: the for statement counts i as well.
TakeEqualTwice ==
  /\ InLoop /\ Merges /\ a[i] = b[j]
  /\ result' = Append(result, a[i])
  /\ i' = i + 2 /\ j' = j + 1
  /\ UNCHANGED <<alg, given, a, b, pc>>

\* sliceUnion and setIntersection: what is in both is taken once for each pair
\* of copies.
TakeEqual ==
  /\ InLoop /\ Merges /\ a[i] = b[j]
  /\ result' = Append(result, a[i])
  /\ i' = i + 1 /\ j' = j + 1
  /\ UNCHANGED <<alg, given, a, b, pc>>

SkipA ==
  /\ InLoop /\ Merges /\ a[i] < b[j]
  /\ i' = i + 1
  /\ UNCHANGED <<alg, given, a, b, j, result, pc>>

\* Mutation of SkipB: an element of b that is not in a is never passed by.
SkipEqualB ==
  /\ InLoop /\ Merges /\ a[i] > b[j]
  /\ j > 1 /\ b[j] = b[j - 1]
  /\ j' = j + 1
  /\ UNCHANGED <<alg, given, a, b, i, result, pc>>

SkipB ==
  /\ InLoop /\ Merges /\ a[i] > b[j]
  /\ j' = j + 1
  /\ UNCHANGED <<alg, given, a, b, i, result, pc>>

\* setDifference, inner loop: pass by what is smaller than a[i].
PassB ==
  /\ InLoop /\ alg = "setDifference" /\ b[j] < a[i]
  /\ j' = j + 1
  /\ UNCHANGED <<alg, given, a, b, i, result, pc>>

\* Mutation of NextA: an element that equals b[j] uses it up.
NextAUsesUp ==
  /\ pc = "loop" /\ alg = "setDifference" /\ i <= Len(a)
  /\ ~(j <= Len(b) /\ b[j] < a[i])
  /\ IF j = Len(b) + 1 THEN result' = Append(result, a[i]) /\ UNCHANGED j
     ELSE IF a[i] < b[j] THEN result' = Append(result, a[i]) /\ UNCHANGED j
     ELSE j' = j + 1 /\ UNCHANGED result
  /\ i' = i + 1
  /\ UNCHANGED <<alg, given, a, b, pc>>

\* setDifference, outer loop, once the inner one is through.
NextA ==
  /\ pc = "loop" /\ alg = "setDifference" /\ i <= Len(a)
  /\ ~(j <= Len(b) /\ b[j] < a[i])
  /\ result' = IF j = Len(b) + 1 \/ (j <= Len(b) /\ a[i] < b[j])
               THEN Append(result, a[i]) ELSE result
  /\ i' = i + 1
  /\ UNCHANGED <<alg, given, a, b, j, pc>>

\* The loop condition is false: return.
Finish ==
  /\ pc = "loop"
  /\ IF Merges THEN ~InLoop ELSE i = Len(a) + 1
  /\ pc' = "done"
  /\ UNCHANGED <<alg, given, a, b, i, j, result>>

Init ==
  /\ alg \in {"sliceUnion", "setDifference", "setIntersection"}
  /\ given \in {<<s, t>> : s, t \in UNION {[1 .. n -> Elem] : n \in 0 .. MaxLen}}
  /\ a = given[1] /\ b = given[2]
  /\ i = 1 /\ j = 1
  /\ result = <<>>
  /\ pc = "sort"

Next == Sort \/ TakeEqual \/ SkipA \/ SkipB \/ PassB \/ NextA \/ Finish

Spec == Init /\ [][Next]_vars /\ WF_vars(Next)

-----------------------------------------------------------------------------
(* Properties *)

\* What is returned is in order and holds each element as often as it should, for
\* any lists: setDifference keeps every copy of what b has not, so that a prefix that
\* two peers claim becomes two tasks; the others leave, of what is in both, the
\* smaller number of copies, one if either list has no second.  So sliceUnion returns
\* the intersection, which updateSpecNoLock needs, and not "the union" of its comment.
ReturnsRightCopies ==
  pc = "done" => Sorted(result) /\ \A x \in Elem :
    LET ofA == Copies(given[1], x)  ofB == Copies(given[2], x)
    IN Copies(result, x) = CASE ~Merges -> IF ofB = 0 THEN ofA ELSE 0
                             [] Merges /\ ofA <= ofB -> ofA
                             [] OTHER -> ofB

\* The loops end.
Terminates == <>(pc = "done")
=============================================================================
