----------------------------- MODULE ScanProofs -----------------------------
(***************************************************************************)
(* What a scan of a table or a list finds and leaves: the lemmas that the  *)
(* proofs about the components share.  A search finds something if there   *)
(* is something to find, and nothing before it; what holds at the start    *)
(* and is kept by each step holds at the end; a fold has a value after     *)
(* each step.                                                              *)
(***************************************************************************)
EXTENDS FirstFit, Tables, WellFoundedInduction, TLAPS

LessThan == {p \in Nat \X Nat : p[1] < p[2]}

\* A first-fit scan over a set of slots that is not empty finds its least
\* element (the for loops of breakpt.c and ppcsim_bp_match).
LEMMA FirstIsLeast ==
  ASSUME NEW S \in SUBSET Nat, S # {}
  PROVE  First(S) \in S /\ \A j \in S : First(S) <= j
<1>1. IsWellFoundedOn(LessThan, Nat)
  BY NatLessThanWellFounded DEF OpToRel, LessThan
<1>2. PICK x \in S : \A y \in S : ~ (<<y, x>> \in LessThan)
  BY <1>1, WFMin
<1>3. \A j \in S : x <= j
  <2>1. TAKE j \in S
  <2>2. <<j, x>> \notin LessThan
    BY <1>2
  <2>3. <<j, x>> \in Nat \X Nat /\ <<j, x>>[1] = j /\ <<j, x>>[2] = x
    OBVIOUS
  <2>4. ~ (j < x)
    BY <2>2, <2>3 DEF LessThan
  <2> QED BY <2>4
<1> QED BY <1>2, <1>3 DEF First

\* Induction, with the set of the steps after which something holds: a set
\* that has 0 and with each step the next has all of them.
LEMMA Steps ==
  ASSUME NEW n \in Nat, NEW K, 0 \in K, \A k \in 0 .. n - 1 : k \in K => k + 1 \in K
  PROVE  \A k \in 0 .. n : k \in K
<1> DEFINE Out == {k \in 0 .. n : k \notin K}
<1> SUFFICES ASSUME Out # {} PROVE FALSE
  OBVIOUS
<1>1. First(Out) \in Out /\ \A j \in Out : First(Out) <= j
  BY FirstIsLeast
<1>2. PICK x \in Out : \A j \in Out : x <= j
  BY <1>1
<1>3. x # 0 /\ x - 1 \in 0 .. n - 1
  BY <1>2
<1>4. x - 1 \notin Out
  BY <1>2, <1>3
<1> QED
  BY <1>3, <1>4

-----------------------------------------------------------------------------
(* Folds from the left, as the community modules define them: a function   *)
(* on the subsets of the indices that takes the greatest index last.       *)

Greatest(S) == CHOOSE x \in S : \A y \in S : x >= y

\* Every set of indices has its greatest.
LEMMA GreatestIn ==
  ASSUME NEW n \in Nat, NEW s \in SUBSET (1 .. n), s # {}
  PROVE  Greatest(s) \in s /\ \A y \in s : Greatest(s) >= y
<1> DEFINE T == {n - x : x \in s}
<1>1. T \in SUBSET Nat /\ T # {}
  <2>1. \A x \in s : n - x \in Nat
    OBVIOUS
  <2> QED
    BY <2>1
<1>2. PICK d \in T : \A j \in T : d <= j
  <2> HIDE DEF T
  <2> QED
    BY <1>1, FirstIsLeast
<1>3. PICK x \in s : d = n - x
  BY <1>2
<1>4. \A y \in s : x >= y
  <2>1. TAKE y \in s
  <2>2. n - y \in T
    BY <2>1
  <2>3. d <= n - y
    BY <1>2, <2>2
  <2> QED
    BY <1>3, <2>3
<1> QED
  BY <1>3, <1>4 DEF Greatest

\* The subsets that matter are the prefixes.
LEMMA PrefixFacts ==
  ASSUME NEW n \in Nat, NEW k \in 1 .. n
  PROVE  /\ 1 .. k \in SUBSET (1 .. n) /\ 1 .. k # {}
         /\ Greatest(1 .. k) = k
         /\ (1 .. k) \ {k} = 1 .. k - 1
<1> DEFINE S == 1 .. k
<1>1. S \in SUBSET (1 .. n) /\ S # {} /\ S \ {k} = 1 .. k - 1
  OBVIOUS
<1>2. \A x \in S : (\A y \in S : x >= y) <=> x = k
  OBVIOUS
<1>3. k \in S
  OBVIOUS
<1> HIDE DEF S
<1>4. Greatest(S) = k
  BY <1>2, <1>3 DEF Greatest
<1> QED
  BY <1>1, <1>4 DEF S

IsFold(f, X, base, n, op) ==
  /\ f \in [SUBSET (1 .. n) -> X]
  /\ \A s \in SUBSET (1 .. n) :
       f[s] = IF s = {} THEN base ELSE op[<<f[s \ {Greatest(s)}], Greatest(s)>>]

\* There is such a function, whatever an element does to what is folded.
LEMMA FoldExists ==
  ASSUME NEW X, NEW base \in X, NEW n \in Nat, NEW op \in [X \X (1 .. n) -> X]
  PROVE  \E f : IsFold(f, X, base, n, op)
<1> DEFINE Folds(m, f) ==
             \A s \in SUBSET (1 .. m) :
               f[s] = IF s = {} THEN base ELSE op[<<f[s \ {Greatest(s)}], Greatest(s)>>]
           K == {m \in 0 .. n : \E f \in [SUBSET (1 .. m) -> X] : Folds(m, f)}
<1>1. 0 \in K
  <2> DEFINE f == [s \in SUBSET (1 .. 0) |-> base]
  <2>1. f \in [SUBSET (1 .. 0) -> X] /\ Folds(0, f)
    OBVIOUS
  <2> HIDE DEF f
  <2>2. \E h \in [SUBSET (1 .. 0) -> X] : Folds(0, h)
    BY <2>1
  <2>3. 0 \in 0 .. n
    OBVIOUS
  <2> HIDE DEF Folds
  <2> QED
    BY <2>2, <2>3
<1>2. ASSUME NEW m \in 0 .. n - 1, m \in K
      PROVE  m + 1 \in K
  <2>1. PICK f \in [SUBSET (1 .. m) -> X] : Folds(m, f)
    BY <1>2
  <2> DEFINE g == [s \in SUBSET (1 .. m + 1) |->
                     IF m + 1 \in s THEN op[<<f[s \ {m + 1}], m + 1>>] ELSE f[s]]
  <2>2. \A s \in SUBSET (1 .. m + 1) : s \ {m + 1} \in SUBSET (1 .. m)
    OBVIOUS
  <2>3. \A s \in SUBSET (1 .. m + 1) : m + 1 \notin s => s \in SUBSET (1 .. m)
    OBVIOUS
  <2>4. m + 1 \in 1 .. n
    OBVIOUS
  <2>5. g \in [SUBSET (1 .. m + 1) -> X]
    BY <2>2, <2>3, <2>4
  <2>6. \A s \in SUBSET (1 .. m) : g[s] = f[s]
    OBVIOUS
  <2>7. ASSUME NEW s \in SUBSET (1 .. m + 1)
        PROVE  g[s] = IF s = {} THEN base ELSE op[<<g[s \ {Greatest(s)}], Greatest(s)>>]
    <3>1. CASE m + 1 \in s
      <4>1. \A x \in s : (\A y \in s : x >= y) <=> x = m + 1
        BY <3>1
      <4>2. Greatest(s) = m + 1
        BY <3>1, <4>1 DEF Greatest
      <4>3. g[s \ {m + 1}] = f[s \ {m + 1}]
        BY <2>2, <2>6
      <4>4. g[s] = op[<<f[s \ {m + 1}], m + 1>>]
        BY <3>1
      <4> HIDE DEF g
      <4> QED
        BY <3>1, <4>2, <4>3, <4>4
    <3>2. CASE m + 1 \notin s
      <4>1. s \in SUBSET (1 .. m) /\ s \ {Greatest(s)} \in SUBSET (1 .. m)
        BY <2>3, <3>2
      <4> HIDE DEF g
      <4> QED
        BY <2>1, <2>6, <4>1
    <3> QED
      BY <3>1, <3>2
  <2>8. \E h \in [SUBSET (1 .. m + 1) -> X] : Folds(m + 1, h)
    <3> HIDE DEF g
    <3> QED
      BY <2>5, <2>7
  <2>9. m + 1 \in 0 .. n
    OBVIOUS
  <2> HIDE DEF Folds
  <2> QED
    BY <2>8, <2>9
<1>3. n \in K
  <2> HIDE DEF K
  <2> QED
    BY <1>1, <1>2, Steps
<1> QED
  BY <1>3 DEF IsFold

-----------------------------------------------------------------------------
(* Tables.                                                                 *)

\* An entry of an overlay is one of its tables'.
LEMMA EntryOfEither ==
  ASSUME NEW f, NEW g, NEW x \in DOMAIN Overlay(f, g)
  PROVE  \/ x \in DOMAIN f /\ Overlay(f, g)[x] = f[x]
         \/ x \in DOMAIN g /\ Overlay(f, g)[x] = g[x]
BY Zenon DEF Overlay

\* The first of two tables decides what it has ...
LEMMA FirstDecides ==
  ASSUME NEW f, NEW g, NEW x \in DOMAIN f
  PROVE  x \in DOMAIN Overlay(f, g) /\ Overlay(f, g)[x] = f[x]
BY Zenon DEF Overlay

\* ... and the second what the first has not.
LEMMA SecondDecides ==
  ASSUME NEW f, NEW g, NEW x \in DOMAIN g, x \notin DOMAIN f
  PROVE  x \in DOMAIN Overlay(f, g) /\ Overlay(f, g)[x] = g[x]
BY Zenon DEF Overlay

LEMMA OverlayHas ==
  ASSUME NEW f, NEW g
  PROVE  DOMAIN Overlay(f, g) = DOMAIN f \cup DOMAIN g
BY Zenon DEF Overlay

LEMMA SingleEntry ==
  ASSUME NEW d, NEW e
  PROVE  DOMAIN Single(d, e) = {d} /\ Single(d, e)[d] = e
BY DEF Single

=============================================================================
